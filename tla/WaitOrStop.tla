---- MODULE WaitOrStop ----
(***************************************************************************)
(* internal.WaitOrStop (internal/internal.go:18-70): the caller sits in    *)
(* cmd.Wait while a second goroutine (the stopper) waits for the context   *)
(* and interrupts, then kills the command.  The two meet on the unbuffered *)
(* channel errc.  The child process and its reaping follow os.Process and  *)
(* exec.Cmd: a signal reaches a process until it is reaped, afterwards     *)
(* Signal fails with "os: process already finished"; cmd.Wait reaps the    *)
(* process and then waits for the goroutines that copy its output.         *)
(***************************************************************************)

CONSTANT None   \* "no value yet"

VARIABLES
    killDelay,  \* killDelay > 0
    permitted,  \* the kernel lets the parent signal the child
    ctx,        \* "live", or the error ctx.Err() returns
    child,      \* "running", "zombie" (ended, not reaped) or "reaped"
    exit,       \* how the child ended
    signals,    \* signals delivered to the running child
    copying,    \* the goroutines that copy the child's output still run
    inTime,     \* history: the child was reaped while ctx was live
    caller,     \* pc of the caller: "wait", "recv" or "done"
    stopper,    \* pc of the goroutine WaitOrStop starts
    err,        \* the stopper's err
    result      \* what WaitOrStop returned

config == <<killDelay, permitted>>
process == <<child, exit, signals, copying, inTime>>
vars == <<config, ctx, process, caller, stopper, err, result>>

CtxErrors == {"canceled", "deadline"}
OwnOutcomes == {"ok", "exit"}
Outcomes == OwnOutcomes \union {"signal"}

\* None is not one of the values the variables range over.
ASSUME NoneAssumption ==
    None \notin Outcomes \union CtxErrors \union {"sigErr"}

StopperPcs == {"select", "signal", "delay", "grace", "kill",
               "report", "finished", "done"}

TypeOK ==
    /\ killDelay \in BOOLEAN
    /\ permitted \in BOOLEAN
    /\ ctx \in {"live"} \union CtxErrors
    /\ child \in {"running", "zombie", "reaped"}
    /\ exit \in Outcomes \union {None}
    /\ signals \subseteq {"interrupt", "kill"}
    /\ copying \in BOOLEAN
    /\ inTime \in BOOLEAN
    /\ caller \in {"wait", "recv", "done"}
    /\ stopper \in StopperPcs
    /\ err \in CtxErrors \union {"sigErr", None}
    /\ result \in Outcomes \union CtxErrors \union {"sigErr", None}

\* WaitOrStop is called on a started command with a live context.
Init ==
    /\ killDelay \in BOOLEAN
    /\ permitted \in BOOLEAN
    /\ ctx = "live"
    /\ child = "running"
    /\ exit = None
    /\ signals = {}
    /\ copying = TRUE
    /\ inTime = FALSE
    /\ caller = "wait"
    /\ stopper = "select"
    /\ err = None
    /\ result = None

---------------------------------------------------------------------------
(* The environment: the context and the child process.                     *)

CtxDone ==
    /\ ctx = "live"
    /\ ctx' \in CtxErrors
    /\ UNCHANGED <<config, process, caller, stopper, err, result>>

Ends(how) ==
    /\ child = "running"
    /\ child' = "zombie"
    /\ exit' = how
    /\ UNCHANGED <<config, ctx, signals, copying, inTime, caller, stopper,
                   err, result>>

EndsByItself == \E how \in OwnOutcomes : Ends(how)
DiesOfInterrupt == "interrupt" \in signals /\ Ends("signal")
DiesOfKill == "kill" \in signals /\ Ends("signal")

\* Whoever holds the child's output open (a grandchild, say) lets go of it.
OutputCopied ==
    /\ child # "running"
    /\ copying
    /\ copying' = FALSE
    /\ UNCHANGED <<config, ctx, child, exit, signals, inTime, caller,
                   stopper, err, result>>

---------------------------------------------------------------------------
(* The caller: waitErr := cmd.Wait(); interruptErr := <-errc.              *)

\* cmd.Wait reaps the child: from here on os.Process knows it is finished.
Reap ==
    /\ caller = "wait"
    /\ child = "zombie"
    /\ child' = "reaped"
    /\ inTime' = (ctx = "live")
    /\ UNCHANGED <<config, ctx, exit, signals, copying, caller, stopper, err,
                   result>>

WaitReturns ==
    /\ caller = "wait"
    /\ child = "reaped"
    /\ ~copying
    /\ caller' = "recv"
    /\ UNCHANGED <<config, ctx, process, stopper, err, result>>

\* A rendezvous on errc: the stopper sends interruptErr and ends, the caller
\* receives it and returns.
Send(interruptErr) ==
    /\ caller = "recv"
    /\ result' = IF interruptErr # None THEN interruptErr ELSE exit
    /\ caller' = "done"
    /\ stopper' = "done"
    /\ UNCHANGED <<config, ctx, process, err>>

---------------------------------------------------------------------------
(* The stopper.                                                            *)

\* The first select: whichever case is ready, either one when both are.
SelectSend == stopper = "select" /\ Send(None)

\* Mistake: the stopper does not wait for the context.
SelectAtOnce ==
    /\ stopper = "select"
    /\ stopper' = "signal"
    /\ UNCHANGED <<config, ctx, process, caller, err, result>>

SelectDone ==
    /\ stopper = "select"
    /\ ctx # "live"
    /\ stopper' = "signal"
    /\ UNCHANGED <<config, ctx, process, caller, err, result>>

\* Mistake: a failed Signal counts as an interrupted process.
InterruptUnchecked ==
    /\ stopper = "signal"
    /\ stopper' = "delay"
    /\ err' = IF permitted THEN ctx ELSE "sigErr"
    /\ signals' = IF child = "running" /\ permitted
                    THEN signals \union {"interrupt"} ELSE signals
    /\ UNCHANGED <<config, ctx, child, exit, copying, inTime, caller, result>>

\* Mistake: a stopper that finds the process finished just returns.
InterruptReturns ==
    /\ stopper = "signal"
    /\ IF child = "reaped"
         THEN stopper' = "done" /\ UNCHANGED err
         ELSE /\ stopper' = "delay"
              /\ err' = IF permitted THEN ctx ELSE "sigErr"
    /\ signals' = IF child = "running" /\ permitted
                    THEN signals \union {"interrupt"} ELSE signals
    /\ UNCHANGED <<config, ctx, child, exit, copying, inTime, caller, result>>

\* The outcome of cmd.Process.Signal(interrupt) as the stopper records it.
Interrupt ==
    /\ stopper = "signal"
    /\ IF child = "reaped"
         THEN stopper' = "finished" /\ UNCHANGED err
         ELSE /\ stopper' = "delay"
              /\ err' = IF permitted THEN ctx ELSE "sigErr"
    /\ signals' = IF child = "running" /\ permitted
                    THEN signals \union {"interrupt"} ELSE signals
    /\ UNCHANGED <<config, ctx, child, exit, copying, inTime, caller, result>>

\* "os: process already finished": nothing to report.
SendFinished == stopper = "finished" /\ Send(None)

Delay ==
    /\ stopper = "delay"
    /\ stopper' = IF killDelay THEN "grace" ELSE "report"
    /\ UNCHANGED <<config, ctx, process, caller, err, result>>

\* Mistake: inside killDelay the reason is not reported.
SendNilInGrace == stopper = "grace" /\ Send(None)

\* Within killDelay the caller may come for the error...
SendInGrace == stopper = "grace" /\ Send(ctx)

\* Mistake: no stronger signal after killDelay.
GraceExpiresGently ==
    /\ stopper = "grace"
    /\ stopper' = "report"
    /\ UNCHANGED <<config, ctx, process, caller, err, result>>

\* ...or killDelay elapses.
GraceExpires ==
    /\ stopper = "grace"
    /\ stopper' = "kill"
    /\ UNCHANGED <<config, ctx, process, caller, err, result>>

\* Mistake: the error of Kill, nil, replaces the reason for it.
KillOverwrites ==
    /\ stopper = "kill"
    /\ signals' = IF child = "running" /\ permitted
                    THEN signals \union {"kill"} ELSE signals
    /\ stopper' = "report"
    /\ err' = None
    /\ UNCHANGED <<config, ctx, child, exit, copying, inTime, caller, result>>

Kill ==
    /\ stopper = "kill"
    /\ signals' = IF child = "running" /\ permitted
                    THEN signals \union {"kill"} ELSE signals
    /\ stopper' = "report"
    /\ UNCHANGED <<config, ctx, child, exit, copying, inTime, caller, err,
                   result>>

SendReport == stopper = "report" /\ Send(err)

---------------------------------------------------------------------------

Returned == caller = "done" /\ UNCHANGED vars

StopperStep == SelectSend \/ SelectDone \/ Interrupt \/ SendFinished \/ Delay
                 \/ SendInGrace \/ GraceExpires \/ Kill \/ SendReport

Environment == CtxDone \/ EndsByItself \/ DiesOfInterrupt \/ DiesOfKill
                 \/ OutputCopied

Next == Environment \/ Reap \/ WaitReturns \/ StopperStep \/ Returned

\* Goroutines are scheduled, a killed process dies and output pipes get
\* closed.  Neither the context nor a program left alone need ever end, and a
\* program may ignore the interrupt.
Fairness ==
    /\ WF_vars(DiesOfKill)
    /\ WF_vars(OutputCopied)
    /\ WF_vars(Reap)
    /\ WF_vars(WaitReturns)
    /\ WF_vars(StopperStep)

Spec == Init /\ [][Next]_vars
FairSpec == Spec /\ Fairness

---------------------------------------------------------------------------
(* Properties.                                                             *)

\* A child that the stopper's signal ended is never reported by its own
\* wait status: the caller is told the reason it was stopped
\* (internal.go:53-58, "to properly attribute the signal").
SignalAttributed ==
    result # None /\ exit = "signal" => result = ctx /\ ctx # "live"

\* A child that was reaped before the context was done is reported by its own
\* status, even if the context is done by the time WaitOrStop returns
\* (internal.go:37-40).
FinishedInTimeKept == result # None /\ inTime => result = exit

\* Once the context is done, a command that can be signalled is waited for in
\* bounded steps: interrupted, killed after killDelay, reaped and reported
\* (internal.go:42-60).
StopEnds == ctx # "live" /\ killDelay /\ permitted ~> result # None

\* A command that was reaped is reported, whatever the context does then.
ReapedReturns == child = "reaped" ~> result # None

Contract == INSTANCE StoppableWait
              WITH outcome <- IF child = "reaped" THEN exit ELSE None

\* WaitOrStop keeps the contract of StoppableWait: one result, and which one.
KeepsContract == Contract!Spec

---------------------------------------------------------------------------
(* The inductive invariant behind them.                                    *)

\* The stopper has acted on the child and has yet to report why.
Acted == stopper \in {"delay", "grace", "kill", "report"}

\* The life of the child, and how far its caller can have come.
ChildInv ==
    /\ exit = None <=> child = "running"
    /\ child # "reaped" => caller = "wait" /\ ~inTime
    /\ (caller = "done" <=> result # None) /\ (caller = "done" <=> stopper = "done")

\* What the stopper has done tells what it knows: it acts only on a context
\* that is done and on a child it found unreaped, so never on one that was
\* reaped in time.
StopperInv ==
    /\ ctx = "live" => stopper \in {"select", "done"}
    /\ Acted => ~inTime /\ err = (IF permitted THEN ctx ELSE "sigErr")
    /\ stopper = "finished" => child = "reaped"

\* Signals come from the stopper only.
SignalInv ==
    /\ signals # {} => permitted /\ ctx # "live" /\ (Acted \/ stopper = "done")
    /\ exit = "signal" => signals # {}

IInv == TypeOK /\ ChildInv /\ StopperInv /\ SignalInv
          /\ SignalAttributed /\ FinishedInTimeKept
====
