---- MODULE WaitOrStopProofs ----
(***************************************************************************)
(* Proofs about internal.WaitOrStop: the inductive invariant of            *)
(* WaitOrStop, the safety properties it implies, and that every behaviour  *)
(* keeps the contract StoppableWait.                                       *)
(***************************************************************************)
EXTENDS WaitOrStop, TLAPS

\* Every initial state of WaitOrStop satisfies the inductive invariant.
LEMMA InitIInv == Init => IInv
  BY NoneAssumption DEF Init, IInv, TypeOK, ChildInv, StopperInv, SignalInv,
     Acted, SignalAttributed, FinishedInTimeKept, StopperPcs, Outcomes,
     OwnOutcomes, CtxErrors

\* Every step of the process, the caller and the stopper preserves it.
LEMMA NextIInv == IInv /\ [Next]_vars => IInv'
<1> SUFFICES ASSUME IInv, [Next]_vars PROVE IInv'
    OBVIOUS
<1>4. CASE OutputCopied
  <2>0. TypeOK /\ ChildInv /\ StopperInv /\ SignalInv
        /\ SignalAttributed /\ FinishedInTimeKept
        BY DEF IInv
  <2>1. /\ killDelay' = killDelay /\ permitted' = permitted /\ ctx' = ctx
        /\ child' = child /\ exit' = exit /\ signals' = signals
        /\ inTime' = inTime /\ caller' = caller /\ stopper' = stopper
        /\ err' = err /\ result' = result
        BY <1>4 DEF OutputCopied, config
  <2>2. copying' \in BOOLEAN
        BY <1>4 DEF OutputCopied
  <2>3. TypeOK'
    <3>1. /\ killDelay' \in BOOLEAN
          /\ permitted' \in BOOLEAN
          /\ inTime' \in BOOLEAN
          BY <2>0, <2>1, Zenon DEF TypeOK
    <3>2. /\ ctx' \in {"live"} \union CtxErrors
          /\ child' \in {"running", "zombie", "reaped"}
          /\ exit' \in Outcomes \union {None}
          /\ signals' \subseteq {"interrupt", "kill"}
          BY <2>0, <2>1, Zenon DEF TypeOK
    <3>3. /\ caller' \in {"wait", "recv", "done"}
          /\ stopper' \in StopperPcs
          /\ err' \in CtxErrors \union {"sigErr", None}
          /\ result' \in Outcomes \union CtxErrors \union {"sigErr", None}
          BY <2>0, <2>1, Zenon DEF TypeOK
    <3> QED
        BY <2>2, <3>1, <3>2, <3>3, Zenon DEF TypeOK
  <2>4. ChildInv' /\ StopperInv' /\ SignalInv'
        BY <2>0, <2>1 DEF ChildInv, StopperInv, SignalInv, Acted
  <2>5. SignalAttributed' /\ FinishedInTimeKept'
        BY <2>0, <2>1 DEF SignalAttributed, FinishedInTimeKept
  <2> QED
      BY <2>3, <2>4, <2>5 DEF IInv
<1> USE NoneAssumption DEF IInv, TypeOK, ChildInv, StopperInv, SignalInv,
        Acted, SignalAttributed, FinishedInTimeKept, StopperPcs, Outcomes,
        OwnOutcomes, CtxErrors, config, process
<1>1. CASE CtxDone
      BY <1>1 DEF CtxDone
<1>2. CASE EndsByItself
      BY <1>2 DEF EndsByItself, Ends
<1>3. ASSUME signals # {}, Ends("signal") PROVE IInv'
  <2>1. TypeOK'
        BY <1>3 DEF Ends
  <2>2. ChildInv' /\ StopperInv' /\ SignalInv'
        BY <1>3 DEF Ends
  <2>3. SignalAttributed' /\ FinishedInTimeKept'
        BY <1>3 DEF Ends
  <2> QED
      BY <2>1, <2>2, <2>3
<1>5. CASE Reap
      BY <1>5 DEF Reap
<1>6. CASE WaitReturns
      BY <1>6 DEF WaitReturns
<1>7. CASE SelectSend
      BY <1>7 DEF SelectSend, Send
<1>8. CASE SelectDone
      BY <1>8 DEF SelectDone
<1>9. CASE Interrupt
      BY <1>9 DEF Interrupt
<1>10. CASE SendFinished
      BY <1>10 DEF SendFinished, Send
<1>11. CASE Delay
      BY <1>11 DEF Delay
<1>12. CASE SendInGrace
      BY <1>12 DEF SendInGrace, Send
<1>13. CASE GraceExpires
      BY <1>13 DEF GraceExpires
<1>14. CASE Kill
      BY <1>14 DEF Kill
<1>15. CASE SendReport
      BY <1>15 DEF SendReport, Send
<1>16. CASE UNCHANGED vars
      BY <1>16 DEF vars
<1>17. CASE DiesOfInterrupt \/ DiesOfKill
      BY <1>3, <1>17 DEF DiesOfInterrupt, DiesOfKill
<1>18. CASE Returned
      BY <1>16, <1>18 DEF Returned
<1> QED
    BY <1>1, <1>2, <1>4, <1>5, <1>6, <1>7, <1>8, <1>9, <1>10, <1>11,
       <1>12, <1>13, <1>14, <1>15, <1>16, <1>17, <1>18
       DEF Next, Environment, StopperStep

\* The inductive invariant holds in every reachable state of WaitOrStop.
THEOREM Invariance == Spec => []IInv
  BY InitIInv, NextIInv, PTL DEF Spec

\* Every variable of WaitOrStop keeps its type.
THEOREM TypeCorrect == Spec => []TypeOK
<1>1. IInv => TypeOK
      BY DEF IInv
<1> QED
    BY <1>1, Invariance, PTL

\* A child ended by the stopper's signal is reported by the reason it was
\* stopped, for whatever the kernel, the child and the context do.
THEOREM AlwaysAttributed == Spec => []SignalAttributed
<1>1. IInv => SignalAttributed
      BY DEF IInv
<1> QED
    BY <1>1, Invariance, PTL

\* A child reaped before the context was done is reported by its own status.
THEOREM AlwaysKept == Spec => []FinishedInTimeKept
<1>1. IInv => FinishedInTimeKept
      BY DEF IInv
<1> QED
    BY <1>1, Invariance, PTL

---------------------------------------------------------------------------
(* Refinement.                                                             *)

\* The initial states of WaitOrStop are initial states of the contract.
LEMMA InitRefines == Init => Contract!Init
  BY DEF Init, Contract!Init

\* Every step of WaitOrStop is a step of the contract or leaves it alone.
LEMMA NextRefines == IInv /\ [Next]_vars => [Contract!Next]_Contract!vars
<1> SUFFICES ASSUME IInv, [Next]_vars PROVE [Contract!Next]_Contract!vars
    OBVIOUS
<1> USE NoneAssumption DEF IInv, TypeOK, ChildInv, StopperInv, SignalInv,
        Acted, SignalAttributed, FinishedInTimeKept, StopperPcs, Outcomes,
        OwnOutcomes, CtxErrors, config, process
<1>1. CASE CtxDone
      BY <1>1 DEF CtxDone, Contract!Next, Contract!CtxDone, Contract!CtxErrors
<1>2. CASE EndsByItself \/ DiesOfInterrupt \/ DiesOfKill
      BY <1>2 DEF EndsByItself, DiesOfInterrupt, DiesOfKill, Ends, Contract!vars
<1>3. CASE Reap
  <2>1. exit \in IF ctx = "live" THEN Contract!OwnOutcomes
                 ELSE Contract!Outcomes
        BY <1>3 DEF Reap, Contract!OwnOutcomes, Contract!Outcomes
  <2>2. Contract!End
        BY <1>3, <2>1 DEF Reap, Contract!End
  <2> QED
      BY <2>2 DEF Contract!Next
<1>4. ASSUME NEW e \in {None, ctx, err}, Send(e), stopper # "done",
             e = None => stopper \in {"select", "finished"}, e # None => Acted
      PROVE  Contract!Return
  <2>1. result' \in Contract!Verdicts
        BY <1>4 DEF Send, Contract!Verdicts
  <2> QED
      BY <1>4, <2>1 DEF Send, Contract!Return
<1>5. CASE SelectSend \/ SendFinished
  <2>1. Send(None) /\ stopper \in {"select", "finished"}
        BY <1>5 DEF SelectSend, SendFinished
  <2>2. Contract!Return
        BY <2>1, <1>4
  <2> QED
      BY <2>2 DEF Contract!Next
<1>6. CASE SendInGrace \/ SendReport
      BY <1>6, <1>4 DEF SendInGrace, SendReport, Contract!Next
<1>7. CASE WaitReturns \/ OutputCopied
      BY <1>7 DEF WaitReturns, OutputCopied, Contract!vars
<1>8. CASE SelectDone \/ Delay \/ GraceExpires
      BY <1>8 DEF SelectDone, Delay, GraceExpires, Contract!vars
<1>9. CASE Interrupt \/ Kill
      BY <1>9 DEF Interrupt, Kill, Contract!vars
<1>10. CASE UNCHANGED vars
      BY <1>10 DEF vars, Contract!vars
<1>11. CASE Returned
      BY <1>10, <1>11 DEF Returned
<1> QED
    BY <1>1, <1>2, <1>3, <1>5, <1>6, <1>7, <1>8, <1>9, <1>10, <1>11
       DEF Next, Environment, StopperStep

\* WaitOrStop implements the contract StoppableWait.
THEOREM Refinement == Spec => KeepsContract
<1>1. Init /\ [][Next]_vars /\ []IInv => Contract!Spec
      BY InitRefines, NextRefines, PTL DEF Contract!Spec
<1> QED
    BY <1>1, Invariance, PTL DEF Spec, KeepsContract
====
