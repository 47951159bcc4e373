---- MODULE StoppableWait ----
(***************************************************************************)
(* What internal.WaitOrStop (internal/internal.go) promises its caller:    *)
(* one result per started command.  A command that was reaped while the    *)
(* context was still live is reported by its own outcome; one that was     *)
(* reaped later is reported either by its outcome or by the reason for     *)
(* which it was stopped, and always by that reason when the signal of      *)
(* WaitOrStop is what ended it.                                            *)
(***************************************************************************)

CONSTANT None   \* "no value yet"

VARIABLES
    ctx,       \* "live", "canceled" or "deadline": ctx.Err()
    outcome,   \* None until the command is reaped, then what cmd.Wait reports
    inTime,    \* the command was reaped while the context was live
    result     \* None until WaitOrStop returns, then what it returns

vars == <<ctx, outcome, inTime, result>>

CtxErrors == {"canceled", "deadline"}
OwnOutcomes == {"ok", "exit"}             \* the command ended by itself
Outcomes == OwnOutcomes \union {"signal"} \* or by the signal it was sent

TypeOK ==
    /\ ctx \in {"live"} \union CtxErrors
    /\ outcome \in Outcomes \union {None}
    /\ inTime \in BOOLEAN
    /\ result \in Outcomes \union CtxErrors \union {"sigErr", None}

Init ==
    /\ ctx = "live"
    /\ outcome = None
    /\ inTime = FALSE
    /\ result = None

CtxDone ==
    /\ ctx = "live"
    /\ ctx' \in CtxErrors
    /\ UNCHANGED <<outcome, inTime, result>>

\* A command dies of a signal only if the context gave a reason to send one.
End ==
    /\ outcome = None
    /\ outcome' \in IF ctx = "live" THEN OwnOutcomes ELSE Outcomes
    /\ inTime' = (ctx = "live")
    /\ UNCHANGED <<ctx, result>>

\* "sigErr" stands for an interrupt that could not be delivered.
Verdicts ==
    CASE inTime -> {outcome}
      [] ~inTime /\ outcome = "signal" -> {ctx}
      [] OTHER -> {outcome, ctx, "sigErr"}

Return ==
    /\ outcome # None
    /\ result = None
    /\ result' \in Verdicts
    /\ UNCHANGED <<ctx, outcome, inTime>>

Next == CtxDone \/ End \/ Return

Spec == Init /\ [][Next]_vars
====
