---- MODULE RunService ----
(***************************************************************************)
(* What the sandbox server promises about /run (sandbox/sandbox.go:        *)
(* 530-641), whatever its workers, containers and timeouts do: a bounded   *)
(* number of programs at a time, one answer per request, no answer while   *)
(* the program runs, none that does not fit how it ended, no program       *)
(* stopped by the server before its time, and none left when the request   *)
(* is over.  That a container stops its program by a timeout of its own    *)
(* ("halted") is an end like any other: it is answered with the output.    *)
(***************************************************************************)
EXTENDS Naturals, FiniteSets

CONSTANTS
    Requests,   \* the connections that requests come on
    Limit       \* programs at a time

VARIABLES
    busy,      \* the connections with a request
    late,      \* those whose program has had its time
    settled,   \* those whose program was seen to end before that
    program,   \* what has become of the program of a request
    answer     \* the answer, "none" before there is one

vars == <<busy, late, settled, program, answer>>

\* How a program ends without the server: with its own status and all of its
\* output, by its container's timeout, by writing too much, or in a way that is
\* nobody's fault.
OwnEnds == {"ended", "halted", "cut", "broken"}
Answers == {"output", "timeout", "tooMuch", "failed"}

TypeOK ==
    /\ busy \subseteq Requests /\ late \subseteq busy /\ settled \subseteq busy
    /\ program \in [Requests -> {"none", "running", "stopped"} \union OwnEnds]
    /\ answer \in [Requests -> {"none"} \union Answers]

Init ==
    /\ busy = {}
    /\ late = {}
    /\ settled = {}
    /\ program = [r \in Requests |-> "none"]
    /\ answer = [r \in Requests |-> "none"]

Ask(r) ==
    /\ r \notin busy
    /\ busy' = busy \union {r}
    /\ UNCHANGED <<late, settled, program, answer>>

\* The container that is to run it may be dead already.
Start(r) ==
    /\ r \in busy /\ program[r] = "none" /\ answer[r] = "none"
    /\ Cardinality({q \in Requests : program[q] # "none"}) < Limit
    /\ \E p \in {"running", "broken"} : program' = [program EXCEPT ![r] = p]
    /\ UNCHANGED <<busy, late, settled, answer>>

Expire(r) ==
    /\ program[r] # "none"
    /\ late' = late \union {r}
    /\ UNCHANGED <<busy, settled, program, answer>>

\* The server stops only a program that has had its time.
End(r) ==
    /\ program[r] = "running"
    /\ \E p \in OwnEnds \union {"stopped"} :
         /\ p = "stopped" => r \in late
         /\ program' = [program EXCEPT ![r] = p]
    /\ UNCHANGED <<busy, late, settled, answer>>

\* The program is seen to have ended in time.  What is answered is settled by
\* that, even if the time is over before the answer.
Settle(r) ==
    /\ r \in busy \ late /\ answer[r] = "none" /\ program[r] \in OwnEnds
    /\ settled' = settled \union {r}
    /\ UNCHANGED <<busy, late, program, answer>>

\* The one answer.  A program that could not be started, or whose container was
\* gone before it had all of it, has failed.
Answer(r) ==
    /\ r \in busy /\ answer[r] = "none" /\ program[r] # "running"
    /\ \E a \in Answers :
         /\ a = "output" => r \in settled /\ program[r] \in {"ended", "halted"}
         /\ a = "tooMuch" => r \in settled /\ program[r] = "cut"
         /\ a = "timeout" => r \in late \ settled /\ program[r] # "none"
         /\ a = "failed" => /\ program[r] \in {"none", "broken", "stopped"}
                            /\ r \in settled => program[r] = "broken"
         /\ answer' = [answer EXCEPT ![r] = a]
    /\ settled' = settled \ {r}
    /\ UNCHANGED <<busy, late, program>>

\* The container is destroyed.
Discard(r) ==
    /\ program[r] \notin {"none", "running"} /\ answer[r] # "none"
    /\ program' = [program EXCEPT ![r] = "none"]
    /\ UNCHANGED <<busy, late, settled, answer>>

\* A request whose client left before there was a program has no answer.
Done(r) ==
    /\ r \in busy /\ program[r] = "none"
    /\ busy' = busy \ {r}
    /\ late' = late \ {r}
    /\ answer' = [answer EXCEPT ![r] = "none"]
    /\ UNCHANGED <<settled, program>>

Next ==
    \E r \in Requests : \/ Ask(r) \/ Start(r) \/ Expire(r) \/ End(r)
                        \/ Settle(r) \/ Answer(r) \/ Discard(r) \/ Done(r)

Spec == Init /\ [][Next]_vars
====
