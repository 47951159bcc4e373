---- MODULE SandboxPoolProofs ----
(***************************************************************************)
(* Proofs about the sandbox server's pool: the inductive invariant of      *)
(* SandboxPool and the safety properties it implies, for any number of     *)
(* workers, connections and containers; and that the pool implements       *)
(* RunService: each step of SandboxPool is a step of RunService or one     *)
(* that RunService does not see.                                           *)
(***************************************************************************)
EXTENDS SandboxPool, FiniteSetTheorems, TLAPS

---------------------------------------------------------------------------
(* The slots: runSem counts the handlers that have one.                    *)

\* The invariant of the slots.
SlotInv == rpc \in [Requests -> HandlerPcs] /\ SlotsCounted

\* The numbers that are compared are natural numbers, the sets finite.
LEMMA SlotNumbers == N \in Nat /\ IsFiniteSet(Holders) /\ Cardinality(Holders) \in Nat
<1>1. IsFiniteSet(Holders)
  <2>1. Holders \in SUBSET Requests
        BY DEF Holders
  <2> QED
      BY <2>1, FS_Subset, PoolAssumption
<1> QED
    BY <1>1, FS_CardinalityType, PoolAssumption DEF N

\* A handler that moves between places with a slot, or without, changes nothing.
LEMMA SameSlots ==
    ASSUME SlotInv, NEW r \in Requests, NEW pc \in HandlerPcs,
           rpc' = [rpc EXCEPT ![r] = pc], runSem' = runSem,
           rpc[r] \in {"idle", "sem"} <=> pc \in {"idle", "sem"}
    PROVE  SlotInv'
<1>1. rpc' \in [Requests -> HandlerPcs]
      BY DEF SlotInv
<1>2. \A q \in Requests :
        rpc'[q] \in {"idle", "sem"} <=> rpc[q] \in {"idle", "sem"}
      BY DEF SlotInv
<1>3. Holders' = Holders
      BY <1>2 DEF Holders
<1>4. N' = N
      BY DEF N
<1> QED
    BY <1>1, <1>3, <1>4 DEF SlotInv, SlotsCounted

\* A step takes a slot, gives one back, or moves nobody across runSem's ends.
LEMMA SlotStep == SlotInv /\ [Next]_vars => SlotInv'
<1> SUFFICES ASSUME SlotInv, [Next]_vars PROVE SlotInv'
    OBVIOUS
<1>0. N' = N
      BY DEF N
<1>1. CASE UNCHANGED <<rpc, runSem>>
  <2>1. rpc' = rpc /\ runSem' = runSem
        BY <1>1
  <2>2. Holders' = Holders
        BY <2>1 DEF Holders
  <2> QED
      BY <2>1, <2>2, <1>0 DEF SlotInv, SlotsCounted
<1>2. ASSUME NEW r \in Requests, AcquiresSlot(r) PROVE SlotInv'
  <2>1. /\ rpc[r] = "sem" /\ rpc' = [rpc EXCEPT ![r] = "body"]
        /\ runSem < N /\ runSem' = runSem + 1
        BY <1>2 DEF AcquiresSlot, HandlerAt
  <2>2. rpc' \in [Requests -> HandlerPcs]
        BY <2>1 DEF SlotInv, HandlerPcs
  <2>3. Holders' = Holders \union {r}
        BY <2>1 DEF Holders, SlotInv
  <2>4. r \notin Holders
        BY <2>1 DEF Holders
  <2>5. Cardinality(Holders') = Cardinality(Holders) + 1
        BY <2>3, <2>4, FS_AddElement, SlotNumbers
  <2> QED
      BY <2>1, <2>2, <2>5, <1>0, SlotNumbers DEF SlotInv, SlotsCounted
<1>3. ASSUME NEW r \in Requests, ReleasesSlot(r) PROVE SlotInv'
  <2>1. /\ rpc[r] = "release" /\ rpc' = [rpc EXCEPT ![r] = "idle"]
        /\ runSem' = runSem - 1
        BY <1>3 DEF ReleasesSlot, HandlerAt
  <2>2. rpc' \in [Requests -> HandlerPcs]
        BY <2>1 DEF SlotInv, HandlerPcs
  <2>3. Holders' = Holders \ {r}
        BY <2>1 DEF Holders, SlotInv
  <2>4. r \in Holders
        BY <2>1 DEF Holders
  <2>5. Cardinality(Holders') = Cardinality(Holders) - 1
        BY <2>3, <2>4, FS_RemoveElement, SlotNumbers
  <2> QED
      BY <2>1, <2>2, <2>5, <1>0, SlotNumbers DEF SlotInv, SlotsCounted
<1>4. ASSUME NEW r \in Requests, HandlerStep(r) PROVE SlotInv'
  <2>1. CASE Arrive(r) \/ GivesUpSlot(r)
    <3>1. PICK pc \in {"idle", "sem"} :
            rpc' = [rpc EXCEPT ![r] = pc] /\ rpc[r] \in {"idle", "sem"}
          BY <2>1 DEF Arrive, GivesUpSlot, HandlerAt
    <3>2. runSem' = runSem
          BY <2>1 DEF Arrive, GivesUpSlot
    <3> QED
        BY <3>1, <3>2, SameSlots DEF HandlerPcs
  <2>2. CASE \/ ReadsBody(r) \/ BodyFails(r) \/ GivesUpContainer(r)
             \/ \E w \in Workers : ReceivesContainer(r, w)
    <3>1. PICK pc \in {"get", "release", "write"} :
            rpc' = [rpc EXCEPT ![r] = pc] /\ rpc[r] \in {"body", "get"}
          BY <2>2 DEF ReadsBody, BodyFails, GivesUpContainer, ReceivesContainer,
             HandlerAt
    <3>2. runSem' = runSem
          BY <2>2 DEF ReadsBody, BodyFails, GivesUpContainer, ReceivesContainer
    <3> QED
        BY <3>1, <3>2, SameSlots DEF HandlerPcs
  <2>3. CASE \/ WritesStdin(r) \/ WriteFails(r) \/ TakesErr(r) \/ PutsErr(r)
             \/ TimedOut(r) \/ Finished(r) \/ ClosesEarly(r) \/ Responds(r)
             \/ Cancels(r) \/ Joins(r)
    <3>1. PICK pc \in Using \union {"release"} :
            rpc' = [rpc EXCEPT ![r] = pc] /\ rpc[r] \in Using
          BY <2>3 DEF WritesStdin, WriteFails, TakesErr, PutsErr, TimedOut, Finished,
             ClosesEarly, Responds, Cancels, Joins, HandlerAt, Using
    <3>2. runSem' = runSem
          BY <2>3 DEF WritesStdin, WriteFails, TakesErr, PutsErr, TimedOut, Finished,
             ClosesEarly, Responds, Cancels, Joins
    <3> QED
        BY <3>1, <3>2, SameSlots DEF HandlerPcs, Using
  <2>4. CASE ClientLeaves(r) \/ Deadline(r)
        BY <2>4, <1>1 DEF ClientLeaves, Deadline
  <2> QED
      BY <1>2, <1>3, <1>4, <2>1, <2>2, <2>3, <2>4
         DEF HandlerStep, BodyStep, RunStep
<1>5. ASSUME NEW w \in Workers, WorkerStep(w) PROVE SlotInv'
      BY <1>5, <1>1 DEF WorkerStep, Begin, StartOK, ExecFails, StartHangs, SleepOver,
         handler
<1>6. ASSUME NEW c \in Containers,
             Halts(c) \/ Ends(c) \/ WaitReturns(c) \/ CloserStep(c)
      PROVE  SlotInv'
      BY <1>6, <1>1 DEF Halts, Ends, WaitReturns, CloserStep, CloserWakes,
         CloserUnwants, CloserCancels, CloserTakes, CloserPuts, handler
<1>7. CASE HealthStep
      BY <1>7, <1>1 DEF HealthStep, HealthBegins, HealthReceives, HealthGetTimeout,
         HealthClosed, HealthCloseTimeout, HealthLeaves, handler
<1>8. CASE UNCHANGED vars
      BY <1>8, <1>1 DEF vars, handler
<1> QED
    BY <1>4, <1>5, <1>6, <1>7, <1>8 DEF Next

\* So the slots are always counted.
LEMMA AlwaysSlotInv == Spec => []SlotInv
<1>1. Init => SlotInv
  <2> SUFFICES ASSUME Init PROVE SlotInv
      OBVIOUS
  <2>1. rpc \in [Requests -> HandlerPcs]
        BY DEF Init, HandlerPcs
  <2>2. Holders = {}
        BY DEF Init, Holders
  <2> QED
      BY <2>1, <2>2, FS_EmptySet, SlotNumbers DEF SlotInv, SlotsCounted, Init
<1> QED
    BY <1>1, SlotStep, PTL DEF Spec

\* runSem is exact, and never exceeds the number of workers, for any number of
\* workers and connections.
THEOREM AlwaysCounted == Spec => []SlotsCounted
<1>1. SlotInv => SlotsCounted
      BY DEF SlotInv
<1> QED
    BY <1>1, AlwaysSlotInv, PTL

---------------------------------------------------------------------------
\* The invariant's parts of one worker, one handler, one container.
WorkerOK(w) == WorkerInv(wpc[w], wbox[w], box[wbox[w]])
HandlerOK(r) == HandlerInv(rpc[r], rbox[r], rctx[r], resp[r], box[rbox[r]])
HealthOK == HealthInv(hpc, hbox, box[hbox])
BoxOK(c) == BoxInv(box[c], c \in wanted, WorkerHas(c), HandlerHas(c), hbox = c,
                   HandlerHolds(c))

\* The invariant is what it says of each of them.
LEMMA Parts ==
    IInv <=> /\ TypeOK /\ HealthOK
             /\ \A w \in Workers : WorkerOK(w)
             /\ \A r \in Requests : HandlerOK(r)
             /\ \A c \in Containers : BoxOK(c) /\ OneUser(c)
  BY DEF IInv, WorkerOK, HandlerOK, HealthOK, BoxOK

\* Nothing has happened in the initial state.
LEMMA InitIInv == Init => IInv
<1> SUFFICES ASSUME Init PROVE IInv
    OBVIOUS
<1>1. TypeOK
      BY PoolAssumption DEF Init, TypeOK, Boxes, FreeBox, HandlerPcs, Responses
<1>2. ASSUME NEW w \in Workers PROVE WorkerOK(w)
      BY DEF Init, WorkerOK, WorkerInv
<1>3. ASSUME NEW r \in Requests PROVE HandlerOK(r)
      BY DEF Init, HandlerOK, HandlerInv, Using
<1>4. HealthOK
      BY DEF Init, HealthOK, HealthInv
<1>5. ASSUME NEW c \in Containers PROVE BoxOK(c) /\ OneUser(c)
  <2>1. BoxOK(c)
        BY DEF Init, BoxOK, BoxInv, FreeBox
  <2>2. ~WorkerHas(c) /\ ~HandlerHas(c) /\ hbox # c
        BY PoolAssumption DEF Init, WorkerHas, HandlerHas
  <2>3. OneUser(c)
        BY <2>2 DEF OneUser, WorkerHas, HandlerHas
  <2> QED
      BY <2>1, <2>3
<1> QED
    BY <1>1, <1>2, <1>3, <1>4, <1>5, Parts

---------------------------------------------------------------------------
(* A step that touches the workers W, the handlers R and the containers C  *)
(* can only break what the invariant says of them and of who has one of C. *)

\* The new variable has its old value, or both are about containers in C.
Moves(C, old, new) == new = old \/ {old, new} \subseteq C \union {None}

Touches(W, R, C) ==
    /\ \A w \in Workers : w \notin W => wpc'[w] = wpc[w] /\ wbox'[w] = wbox[w]
    /\ \A r \in Requests : r \notin R =>
         rpc'[r] = rpc[r] /\ rbox'[r] = rbox[r] /\ rctx'[r] = rctx[r]
           /\ resp'[r] = resp[r]
    /\ \A c \in Containers : c \notin C =>
         box'[c] = box[c] /\ (c \in wanted' <=> c \in wanted)
    /\ \A w \in W : Moves(C, wbox[w], wbox'[w])
    /\ \A r \in R : Moves(C, rbox[r], rbox'[r])
    /\ \A r \in R : rbox[r] \notin C => (rpc[r] = "putback" <=> rpc'[r] = "putback")
    /\ Moves(C, hbox, hbox')

\* Who has a container that is not touched still has it.
LEMMA SameUsers ==
    ASSUME NEW W \in SUBSET Workers, NEW R \in SUBSET Requests,
           NEW C \in SUBSET Containers,
           Touches(W, R, C), NEW c \in Containers, c \notin C
    PROVE  /\ \A w \in Workers : wbox'[w] = c <=> wbox[w] = c
           /\ \A r \in Requests : rbox'[r] = c <=> rbox[r] = c
           /\ \A r \in Requests : rbox[r] = c =>
                (rpc'[r] = "putback" <=> rpc[r] = "putback")
           /\ hbox' = c <=> hbox = c
<1>1. c # None
      BY PoolAssumption
<1>2. ASSUME NEW old, NEW new, Moves(C, old, new) PROVE new = c <=> old = c
      BY <1>1, <1>2 DEF Moves
<1>3. ASSUME NEW w \in Workers PROVE wbox'[w] = c <=> wbox[w] = c
  <2>1. CASE w \in W
        BY <2>1, <1>2 DEF Touches
  <2>2. CASE w \notin W
        BY <2>2 DEF Touches
  <2> QED
      BY <2>1, <2>2
<1>4. ASSUME NEW r \in Requests PROVE rbox'[r] = c <=> rbox[r] = c
  <2>1. CASE r \in R
        BY <2>1, <1>2 DEF Touches
  <2>2. CASE r \notin R
        BY <2>2 DEF Touches
  <2> QED
      BY <2>1, <2>2
<1>5. ASSUME NEW r \in Requests, rbox[r] = c
      PROVE  rpc'[r] = "putback" <=> rpc[r] = "putback"
      BY <1>5 DEF Touches
<1>6. hbox' = c <=> hbox = c
      BY <1>2 DEF Touches
<1> QED
    BY <1>3, <1>4, <1>5, <1>6

\* It is enough to look at those, and at what has changed.
LEMMA Locality ==
    ASSUME IInv, TypeOK',
           NEW W \in SUBSET Workers, NEW R \in SUBSET Requests,
           NEW C \in SUBSET Containers,
           Touches(W, R, C), HealthOK',
           \A w \in Workers : w \in W \/ wbox[w] \in C => WorkerOK(w)',
           \A r \in Requests : r \in R \/ rbox[r] \in C => HandlerOK(r)',
           \A c \in C : BoxOK(c)' /\ OneUser(c)'
    PROVE  IInv'
<1>1. ASSUME NEW w \in Workers PROVE WorkerOK(w)'
  <2>1. CASE w \in W \/ wbox[w] \in C
        BY <2>1
  <2>2. CASE w \notin W /\ wbox[w] \notin C
    <3>1. wpc'[w] = wpc[w] /\ wbox'[w] = wbox[w]
          BY <2>2 DEF Touches
    <3>2. WorkerInv(wpc[w], wbox[w], box[wbox[w]])
          BY DEF IInv
    <3>3. CASE wbox[w] = None
          BY <3>1, <3>2, <3>3 DEF WorkerOK, WorkerInv
    <3>4. CASE wbox[w] # None
      <4>1. wbox[w] \in Containers
            BY <3>4 DEF IInv, TypeOK
      <4>2. box'[wbox[w]] = box[wbox[w]]
            BY <4>1, <2>2 DEF Touches
      <4> QED
          BY <3>1, <3>2, <4>2 DEF WorkerOK
    <3> QED
        BY <3>3, <3>4
  <2> QED
      BY <2>1, <2>2
<1>2. ASSUME NEW r \in Requests PROVE HandlerOK(r)'
  <2>1. CASE r \in R \/ rbox[r] \in C
        BY <2>1
  <2>2. CASE r \notin R /\ rbox[r] \notin C
    <3>1. /\ rpc'[r] = rpc[r] /\ rbox'[r] = rbox[r] /\ rctx'[r] = rctx[r]
          /\ resp'[r] = resp[r]
          BY <2>2 DEF Touches
    <3>2. HandlerInv(rpc[r], rbox[r], rctx[r], resp[r], box[rbox[r]])
          BY DEF IInv
    <3>3. CASE rbox[r] = None
          BY <3>1, <3>2, <3>3 DEF HandlerOK, HandlerInv
    <3>4. CASE rbox[r] # None
      <4>1. rbox[r] \in Containers
            BY <3>4 DEF IInv, TypeOK
      <4>2. box'[rbox[r]] = box[rbox[r]]
            BY <4>1, <2>2 DEF Touches
      <4> QED
          BY <3>1, <3>2, <4>2 DEF HandlerOK
    <3> QED
        BY <3>3, <3>4
  <2> QED
      BY <2>1, <2>2
<1>3. ASSUME NEW c \in Containers PROVE BoxOK(c)' /\ OneUser(c)'
  <2>1. CASE c \in C
        BY <2>1
  <2>2. CASE c \notin C
    <3>1. /\ \A w \in Workers : wbox'[w] = c <=> wbox[w] = c
          /\ \A r \in Requests : rbox'[r] = c <=> rbox[r] = c
          /\ \A r \in Requests : rbox[r] = c =>
               (rpc'[r] = "putback" <=> rpc[r] = "putback")
          /\ hbox' = c <=> hbox = c
          BY <2>2, SameUsers
    <3>2. /\ WorkerHas(c)' <=> WorkerHas(c)
          /\ HandlerHas(c)' <=> HandlerHas(c)
          /\ HandlerHolds(c)' <=> HandlerHolds(c)
          BY <3>1 DEF WorkerHas, HandlerHas, HandlerHolds
    <3>3. box'[c] = box[c] /\ (c \in wanted' <=> c \in wanted)
          BY <2>2 DEF Touches
    <3>4. BoxOK(c) /\ OneUser(c)
          BY Parts
    <3>5. BoxOK(c)'
          BY <3>1, <3>2, <3>3, <3>4 DEF BoxOK, BoxInv
    <3>6. OneUser(c)'
          BY <3>1, <3>2, <3>4 DEF OneUser
    <3> QED
        BY <3>5, <3>6
  <2> QED
      BY <2>1, <2>2
<1>4. /\ TypeOK' /\ HealthOK'
      /\ \A w \in Workers : WorkerOK(w)'
      /\ \A r \in Requests : HandlerOK(r)'
      /\ \A c \in Containers : BoxOK(c)' /\ OneUser(c)'
      BY <1>1, <1>2, <1>3
<1> QED
    BY <1>4 DEF IInv, WorkerOK, HandlerOK, HealthOK, BoxOK

---------------------------------------------------------------------------
(* Steps of one container, of one handler, and of the health check alone.  *)

\* A container's state changes and nobody moves.
LEMMA OfBox ==
    ASSUME IInv, NEW c \in Containers, NEW b \in Boxes,
           box' = [box EXCEPT ![c] = b],
           wanted' \subseteq Containers,
           \A d \in Containers : d # c => (d \in wanted' <=> d \in wanted),
           UNCHANGED <<worker, runSem, handler, health>>,
           \A w \in Workers : wbox[w] = c => WorkerInv(wpc[w], c, b),
           \A r \in Requests :
             rbox[r] = c => HandlerInv(rpc[r], c, rctx[r], resp[r], b),
           hbox = c => HealthInv(hpc, c, b),
           BoxInv(b, c \in wanted', WorkerHas(c), HandlerHas(c), hbox = c,
                  HandlerHolds(c))
    PROVE  IInv'
<1>0. /\ wpc' = wpc /\ wbox' = wbox /\ rpc' = rpc /\ rbox' = rbox /\ rctx' = rctx
      /\ gone' = gone /\ resp' = resp /\ hpc' = hpc /\ hbox' = hbox
      /\ runSem' = runSem
      BY DEF worker, handler, health
<1>1. TypeOK
      BY DEF IInv
<1>2. TypeOK'
      BY <1>0, <1>1 DEF TypeOK
<1>3. box'[c] = b /\ \A d \in Containers : d # c => box'[d] = box[d]
      BY <1>1 DEF TypeOK
<1>4. Touches({}, {}, {c})
      BY <1>0, <1>3 DEF Touches, Moves
<1>5. HealthOK'
  <2>1. HealthInv(hpc, hbox, box[hbox])
        BY DEF IInv
  <2>2. CASE hbox = c
        BY <2>2, <1>0, <1>3 DEF HealthOK
  <2>3. CASE hbox # c /\ hbox # None
        BY <2>1, <2>3, <1>0, <1>1, <1>3 DEF HealthOK, TypeOK
  <2>4. CASE hbox = None
        BY <2>1, <2>4, <1>0 DEF HealthOK, HealthInv
  <2> QED
      BY <2>2, <2>3, <2>4
<1>6. ASSUME NEW w \in Workers, wbox[w] = c PROVE WorkerOK(w)'
      BY <1>0, <1>3, <1>6 DEF WorkerOK
<1>7. ASSUME NEW r \in Requests, rbox[r] = c PROVE HandlerOK(r)'
      BY <1>0, <1>3, <1>7 DEF HandlerOK
<1>8. /\ WorkerHas(c)' <=> WorkerHas(c)
      /\ HandlerHas(c)' <=> HandlerHas(c)
      /\ HandlerHolds(c)' <=> HandlerHolds(c)
      BY <1>0 DEF WorkerHas, HandlerHas, HandlerHolds
<1>9. BoxOK(c)'
      BY <1>0, <1>3, <1>8 DEF BoxOK, BoxInv
<1>10. OneUser(c)'
  <2>1. OneUser(c)
        BY DEF IInv
  <2> QED
      BY <2>1, <1>0 DEF OneUser, HandlerHas
<1>11. {} \in SUBSET Workers /\ {} \in SUBSET Requests /\ {c} \in SUBSET Containers
      OBVIOUS
<1> QED
    BY <1>2, <1>4, <1>5, <1>6, <1>7, <1>9, <1>10, <1>11, Locality

\* A handler moves and keeps its container, whose state does not change.
LEMMA OfHandler ==
    ASSUME IInv, NEW r \in Requests, NEW pc \in HandlerPcs,
           NEW ctx \in {"live", "canceled", "deadline"}, NEW a \in Responses,
           rpc' = [rpc EXCEPT ![r] = pc], rctx' = [rctx EXCEPT ![r] = ctx],
           resp' = [resp EXCEPT ![r] = a],
           gone' \in [Requests -> BOOLEAN], runSem' \in Nat,
           UNCHANGED <<box, wanted, worker, rbox, health>>,
           rpc[r] = "putback" <=> pc = "putback",
           HandlerInv(pc, rbox[r], ctx, a, box[rbox[r]])
    PROVE  IInv'
<1>0. /\ wpc' = wpc /\ wbox' = wbox /\ rbox' = rbox /\ hpc' = hpc /\ hbox' = hbox
      /\ box' = box /\ wanted' = wanted
      BY DEF worker, health
<1>1. TypeOK
      BY DEF IInv
<1>2. TypeOK'
      BY <1>0, <1>1 DEF TypeOK
<1>3. rpc'[r] = pc /\ rctx'[r] = ctx /\ resp'[r] = a
      BY <1>1 DEF TypeOK
<1>4. Touches({}, {r}, {})
      BY <1>0, <1>1, <1>3 DEF Touches, Moves, TypeOK
<1>5. HealthOK'
      BY <1>0 DEF IInv, HealthOK
<1>6. HandlerOK(r)'
      BY <1>0, <1>3 DEF HandlerOK
<1>7. {} \in SUBSET Workers /\ {r} \in SUBSET Requests /\ {} \in SUBSET Containers
      OBVIOUS
<1> QED
    BY <1>2, <1>4, <1>5, <1>6, <1>7, Locality

\* A worker without a container, or with one that it keeps, moves.
LEMMA OfWorker ==
    ASSUME IInv, NEW w \in Workers, NEW pc, wpc' = [wpc EXCEPT ![w] = pc],
           pc \in {"begin", "starting", "offer", "sleep", "stuck"},
           UNCHANGED <<box, wanted, wbox, runSem, handler, health>>,
           WorkerInv(pc, wbox[w], box[wbox[w]])
    PROVE  IInv'
<1>0. /\ wbox' = wbox /\ rpc' = rpc /\ rbox' = rbox /\ rctx' = rctx
      /\ gone' = gone /\ resp' = resp /\ hpc' = hpc /\ hbox' = hbox
      /\ runSem' = runSem /\ box' = box /\ wanted' = wanted
      BY DEF handler, health
<1>1. TypeOK
      BY DEF IInv
<1>2. TypeOK'
      BY <1>0, <1>1 DEF TypeOK
<1>3. wpc'[w] = pc
      BY <1>1 DEF TypeOK
<1>4. Touches({w}, {}, {})
      BY <1>0, <1>1, <1>3 DEF Touches, Moves, TypeOK
<1>5. HealthOK'
      BY <1>0 DEF IInv, HealthOK
<1>6. WorkerOK(w)'
      BY <1>0, <1>3 DEF WorkerOK
<1>7. {w} \in SUBSET Workers /\ {} \in SUBSET Requests /\ {} \in SUBSET Containers
      OBVIOUS
<1> QED
    BY <1>2, <1>4, <1>5, <1>6, <1>7, Locality

\* What the invariant says of one container and of those who have it.
LEMMA About ==
    ASSUME IInv, NEW c \in Containers
    PROVE  /\ c # None /\ box[c] \in Boxes /\ box \in [Containers -> Boxes]
           /\ wanted \subseteq Containers
           /\ BoxInv(box[c], c \in wanted, WorkerHas(c), HandlerHas(c), hbox = c,
                     HandlerHolds(c))
           /\ OneUser(c)
           /\ \A w \in Workers : wbox[w] = c => WorkerInv(wpc[w], c, box[c])
           /\ \A r \in Requests :
                rbox[r] = c => HandlerInv(rpc[r], c, rctx[r], resp[r], box[c])
           /\ hbox = c => HealthInv(hpc, c, box[c])
  BY PoolAssumption DEF IInv, TypeOK

---------------------------------------------------------------------------
(* The steps of a container and of whoever closes it.                      *)

\* The process of a container that runs may end, however it ends.
LEMMA EndsIInv == ASSUME IInv, NEW c \in Containers, Ends(c) PROVE IInv'
<1>1. PICK e \in Endings(box[c]) :
        box' = [box EXCEPT ![c].st = "ended", ![c].err = e.err, ![c].lost = e.lost,
                           ![c].inTime = ~box[c].cancelled]
      BY DEF Ends
<1>2. /\ e.err \in {"nil", "exit", "io", "ctx"} /\ e.lost \in BOOLEAN
      /\ e.err = "ctx" => box[c].cancelled
      /\ e.lost => e.err # "nil" /\ box[c].prog # "none"
  <2>1. e \in [err : WaitErrors, lost : BOOLEAN]
        BY DEF Endings
  <2>2. /\ e.err = "ctx" => box[c].cancelled
        /\ e.err = "nil" => ~e.lost
        /\ e.lost => box[c].prog # "none"
        BY DEF Endings
  <2> QED
      BY <2>1, <2>2, PoolAssumption
<1>3. /\ box[c].st = "running"
      /\ UNCHANGED <<wanted, worker, runSem, handler, health>>
      BY DEF Ends
<1> DEFINE b == [box[c] EXCEPT !.st = "ended", !.err = e.err, !.lost = e.lost,
                               !.inTime = ~box[c].cancelled]
<1>4. box' = [box EXCEPT ![c] = b]
      BY <1>1, About
<1>5. /\ b \in Boxes /\ b.prog = box[c].prog
      /\ b.st = "ended" /\ b.err = e.err /\ b.lost = e.lost
      /\ b.inTime = ~box[c].cancelled /\ b.cancelled = box[c].cancelled
      /\ b.token = box[c].token /\ b.closer = box[c].closer
  <2>1. box[c] \in Boxes
        BY About
  <2>2. (~box[c].cancelled) \in BOOLEAN
        BY ONLY TRUE
  <2>3. ASSUME NEW x \in Boxes, NEW y \in BOOLEAN, NEW l \in BOOLEAN,
               NEW f \in {"nil", "exit", "io", "ctx"}
        PROVE  [x EXCEPT !.st = "ended", !.err = f, !.lost = l, !.inTime = y] \in Boxes
        BY ONLY <2>3 DEF Boxes
  <2>4. b \in Boxes
        BY <2>1, <2>2, <2>3, <1>2
  <2> QED
      BY <2>1, <2>4 DEF Boxes
<1> HIDE DEF b
<1>6. ASSUME NEW w \in Workers, wbox[w] = c PROVE WorkerInv(wpc[w], c, b)
      BY <1>3, <1>5, <1>6, About DEF WorkerInv
<1>7. ASSUME NEW r \in Requests, rbox[r] = c
      PROVE  HandlerInv(rpc[r], c, rctx[r], resp[r], b)
  <2>1. HandlerInv(rpc[r], c, rctx[r], resp[r], box[c])
        BY <1>7, About
  <2> QED
      BY <2>1, <1>3, <1>5 DEF HandlerInv
<1>8. hbox = c => HealthInv(hpc, c, b)
      BY <1>5, About DEF HealthInv
<1>9. BoxInv(b, c \in wanted, WorkerHas(c), HandlerHas(c), hbox = c, HandlerHolds(c))
  <2>1. BoxInv(box[c], c \in wanted, WorkerHas(c), HandlerHas(c), hbox = c,
               HandlerHolds(c))
        BY About
  <2> QED
      BY <1>2, <1>3, <1>5, <2>1 DEF BoxInv
<1>10. wanted' = wanted
      BY <1>3
<1> QED
    BY <1>3, <1>4, <1>5, <1>6, <1>7, <1>8, <1>9, <1>10, About, OfBox

\* A container stops the program that it was given.
LEMMA HaltsIInv == ASSUME IInv, NEW c \in Containers, Halts(c) PROVE IInv'
<1>3. /\ box[c].st = "running" /\ box[c].prog = "given"
      /\ UNCHANGED <<wanted, worker, runSem, handler, health>>
      BY DEF Halts
<1> DEFINE b == [box[c] EXCEPT !.prog = "halted"]
<1>4. box' = [box EXCEPT ![c] = b]
      BY About DEF Halts
<1>5. /\ b \in Boxes /\ b.prog = "halted"
      /\ b.st = box[c].st /\ b.err = box[c].err /\ b.lost = box[c].lost
      /\ b.inTime = box[c].inTime /\ b.cancelled = box[c].cancelled
      /\ b.token = box[c].token /\ b.closer = box[c].closer
  <2>1. box[c] \in Boxes
        BY About
  <2> QED
      BY <2>1 DEF Boxes
<1> HIDE DEF b
<1>6. ASSUME NEW w \in Workers PROVE wbox[w] # c
      BY <1>3, About DEF WorkerInv
<1>7. ASSUME NEW r \in Requests, rbox[r] = c
      PROVE  HandlerInv(rpc[r], c, rctx[r], resp[r], b)
  <2>1. HandlerInv(rpc[r], c, rctx[r], resp[r], box[c])
        BY <1>7, About
  <2> QED
      BY <2>1, <1>3, <1>5 DEF HandlerInv, Genuine
<1>8. hbox = c => HealthInv(hpc, c, b)
      BY <1>5, About DEF HealthInv
<1>9. BoxInv(b, c \in wanted, WorkerHas(c), HandlerHas(c), hbox = c, HandlerHolds(c))
      BY <1>3, <1>5, About DEF BoxInv
<1>10. wanted' = wanted
      BY <1>3
<1> QED
    BY <1>3, <1>4, <1>5, <1>6, <1>7, <1>8, <1>9, <1>10, About, OfBox

\* The error is put into waitErr, where there was none before.
LEMMA WaitReturnsIInv ==
    ASSUME IInv, NEW c \in Containers, WaitReturns(c) PROVE IInv'
<1>3. /\ box[c].st = "ended"
      /\ UNCHANGED <<wanted, worker, runSem, handler, health>>
      BY DEF WaitReturns
<1> DEFINE b == [box[c] EXCEPT !.st = "waited", !.token = "in"]
<1>4. box' = [box EXCEPT ![c] = b]
      BY About DEF WaitReturns
<1>5. /\ b \in Boxes /\ b.prog = box[c].prog
      /\ b.st = "waited" /\ b.err = box[c].err /\ b.lost = box[c].lost
      /\ b.inTime = box[c].inTime /\ b.cancelled = box[c].cancelled
      /\ b.token = "in" /\ b.closer = box[c].closer
  <2>1. box[c] \in Boxes
        BY About
  <2> QED
      BY <2>1 DEF Boxes
<1> HIDE DEF b
<1>0. box[c].token = "none"
      BY <1>3, About DEF BoxInv
<1>6. ASSUME NEW w \in Workers, wbox[w] = c PROVE WorkerInv(wpc[w], c, b)
      BY <1>3, <1>5, <1>6, About DEF WorkerInv
<1>7. ASSUME NEW r \in Requests, rbox[r] = c
      PROVE  HandlerInv(rpc[r], c, rctx[r], resp[r], b)
  <2>1. HandlerInv(rpc[r], c, rctx[r], resp[r], box[c])
        BY <1>7, About
  <2> QED
      BY <2>1, <1>0, <1>3, <1>5 DEF HandlerInv
<1>8. hbox = c => HealthInv(hpc, c, b)
      BY <1>5, About DEF HealthInv
<1>9. BoxInv(b, c \in wanted, WorkerHas(c), HandlerHas(c), hbox = c, HandlerHolds(c))
      BY <1>0, <1>3, <1>5, About DEF BoxInv
<1>10. wanted' = wanted
      BY <1>3
<1> QED
    BY <1>3, <1>4, <1>5, <1>6, <1>7, <1>8, <1>9, <1>10, About, OfBox

\* The closing goroutine of a handler is woken by the end of the handler's ctx.
LEMMA CloserWakesIInv ==
    ASSUME IInv, NEW c \in Containers, CloserWakes(c) PROVE IInv'
<1>3. /\ box[c].closer = "await"
      /\ UNCHANGED <<wanted, worker, runSem, handler, health>>
      BY DEF CloserWakes
<1>1. PICK q \in Requests : rbox[q] = c /\ rctx[q] # "live"
      BY DEF CloserWakes
<1> DEFINE b == [box[c] EXCEPT !.closer = "close"]
<1>4. box' = [box EXCEPT ![c] = b]
      BY About DEF CloserWakes
<1>5. /\ b \in Boxes /\ b.prog = box[c].prog
      /\ b.st = box[c].st /\ b.err = box[c].err
      /\ b.lost = box[c].lost
      /\ b.inTime = box[c].inTime /\ b.cancelled = box[c].cancelled
      /\ b.token = box[c].token /\ b.closer = "close"
  <2>1. box[c] \in Boxes
        BY About
  <2> QED
      BY <2>1 DEF Boxes
<1>5a. b.st = "free" => FALSE
      BY <1>3, <1>5, About DEF BoxInv, FreeBox
<1> HIDE DEF b
<1>6. ASSUME NEW w \in Workers, wbox[w] = c PROVE WorkerInv(wpc[w], c, b)
      BY <1>3, <1>6, About DEF WorkerInv
<1>7. ASSUME NEW r \in Requests, rbox[r] = c
      PROVE  HandlerInv(rpc[r], c, rctx[r], resp[r], b)
  <2>1. r = q
        BY <1>1, <1>7, About DEF OneUser
  <2>2. HandlerInv(rpc[r], c, rctx[r], resp[r], box[c])
        BY <1>7, About
  <2> QED
      BY <2>1, <2>2, <1>1, <1>3, <1>5 DEF HandlerInv, Genuine
<1>8. hbox = c => HealthInv(hpc, c, b)
      BY <1>5, About DEF HealthInv
<1>9. BoxInv(b, c \in wanted, WorkerHas(c), HandlerHas(c), hbox = c, HandlerHolds(c))
      BY <1>3, <1>5, <1>5a, About DEF BoxInv
<1>10. wanted' = wanted
      BY <1>3
<1> QED
    BY <1>3, <1>4, <1>5, <1>6, <1>7, <1>8, <1>9, <1>10, About, OfBox

\* c.Close() makes the container unwanted first.
LEMMA CloserUnwantsIInv ==
    ASSUME IInv, NEW c \in Containers, CloserUnwants(c) PROVE IInv'
<1>3. /\ box[c].closer = "close" /\ wanted' = wanted \ {c}
      /\ UNCHANGED <<worker, runSem, handler, health>>
      BY DEF CloserUnwants
<1> DEFINE b == [box[c] EXCEPT !.closer = "cancel"]
<1>4. box' = [box EXCEPT ![c] = b]
      BY About DEF CloserUnwants
<1>5. /\ b \in Boxes /\ b.prog = box[c].prog
      /\ b.st = box[c].st /\ b.err = box[c].err
      /\ b.lost = box[c].lost
      /\ b.inTime = box[c].inTime /\ b.cancelled = box[c].cancelled
      /\ b.token = box[c].token /\ b.closer = "cancel"
  <2>1. box[c] \in Boxes
        BY About
  <2> QED
      BY <2>1 DEF Boxes
<1>5a. b.st = "free" => FALSE
      BY <1>3, <1>5, About DEF BoxInv, FreeBox
<1> HIDE DEF b
<1>6. ASSUME NEW w \in Workers, wbox[w] = c PROVE WorkerInv(wpc[w], c, b)
      BY <1>3, <1>6, About DEF WorkerInv
<1>7. ASSUME NEW r \in Requests, rbox[r] = c
      PROVE  HandlerInv(rpc[r], c, rctx[r], resp[r], b)
  <2>1. HandlerInv(rpc[r], c, rctx[r], resp[r], box[c])
        BY <1>7, About
  <2> QED
      BY <2>1, <1>3, <1>5 DEF HandlerInv, Genuine
<1>8. hbox = c => HealthInv(hpc, c, b)
      BY <1>5, About DEF HealthInv
<1>9. BoxInv(b, c \in wanted', WorkerHas(c), HandlerHas(c), hbox = c, HandlerHolds(c))
      BY <1>3, <1>5, <1>5a, About DEF BoxInv
<1>10. /\ wanted' \subseteq Containers
       /\ \A d \in Containers : d # c => (d \in wanted' <=> d \in wanted)
      BY <1>3, About
<1> QED
    BY <1>3, <1>4, <1>5, <1>6, <1>7, <1>8, <1>9, <1>10, OfBox

\* Then it cancels the container.
LEMMA CloserCancelsIInv ==
    ASSUME IInv, NEW c \in Containers, CloserCancels(c) PROVE IInv'
<1>3. /\ box[c].closer = "cancel"
      /\ UNCHANGED <<wanted, worker, runSem, handler, health>>
      BY DEF CloserCancels
<1> DEFINE b == [box[c] EXCEPT !.cancelled = TRUE, !.closer = "wait"]
<1>4. box' = [box EXCEPT ![c] = b]
      BY About DEF CloserCancels
<1>5. /\ b \in Boxes /\ b.prog = box[c].prog
      /\ b.st = box[c].st /\ b.err = box[c].err
      /\ b.lost = box[c].lost
      /\ b.inTime = box[c].inTime /\ b.cancelled = TRUE
      /\ b.token = box[c].token /\ b.closer = "wait"
  <2>1. box[c] \in Boxes
        BY About
  <2> QED
      BY <2>1 DEF Boxes
<1>5a. b.st = "free" => FALSE
      BY <1>3, <1>5, About DEF BoxInv, FreeBox
<1> HIDE DEF b
<1>6. ASSUME NEW w \in Workers, wbox[w] = c PROVE WorkerInv(wpc[w], c, b)
      BY <1>3, <1>6, About DEF WorkerInv
<1>7. ASSUME NEW r \in Requests, rbox[r] = c
      PROVE  HandlerInv(rpc[r], c, rctx[r], resp[r], b)
  <2>1. HandlerInv(rpc[r], c, rctx[r], resp[r], box[c])
        BY <1>7, About
  <2> QED
      BY <2>1, <1>3, <1>5 DEF HandlerInv, Genuine
<1>8. hbox = c => HealthInv(hpc, c, b)
      BY <1>5, About DEF HealthInv
<1>9. BoxInv(b, c \in wanted, WorkerHas(c), HandlerHas(c), hbox = c, HandlerHolds(c))
      BY <1>3, <1>5, <1>5a, About DEF BoxInv
<1>10. wanted' = wanted
      BY <1>3
<1> QED
    BY <1>3, <1>4, <1>5, <1>6, <1>7, <1>8, <1>9, <1>10, About, OfBox

\* The closing goroutine takes the error: no handler has it then.
LEMMA CloserTakesIInv ==
    ASSUME IInv, NEW c \in Containers, CloserTakes(c) PROVE IInv'
<1>3. /\ box[c].closer = "wait" /\ box[c].token = "in"
      /\ UNCHANGED <<wanted, worker, runSem, handler, health>>
      BY DEF CloserTakes
<1> DEFINE b == [box[c] EXCEPT !.token = "out", !.closer = "putback"]
<1>4. box' = [box EXCEPT ![c] = b]
      BY About DEF CloserTakes
<1>5. /\ b \in Boxes /\ b.prog = box[c].prog
      /\ b.st = box[c].st /\ b.err = box[c].err
      /\ b.lost = box[c].lost
      /\ b.inTime = box[c].inTime /\ b.cancelled = box[c].cancelled
      /\ b.token = "out" /\ b.closer = "putback"
  <2>1. box[c] \in Boxes
        BY About
  <2> QED
      BY <2>1 DEF Boxes
<1>5a. b.st = "free" => FALSE
      BY <1>3, <1>5, About DEF BoxInv, FreeBox
<1> HIDE DEF b
<1>6. ASSUME NEW w \in Workers, wbox[w] = c PROVE WorkerInv(wpc[w], c, b)
      BY <1>3, <1>6, About DEF WorkerInv
<1>7. ASSUME NEW r \in Requests, rbox[r] = c
      PROVE  HandlerInv(rpc[r], c, rctx[r], resp[r], b)
  <2>1. HandlerInv(rpc[r], c, rctx[r], resp[r], box[c])
        BY <1>7, About
  <2>2. rpc[r] # "putback"
        BY <2>1, <1>3, About DEF HandlerInv
  <2> QED
      BY <2>1, <2>2, <1>3, <1>5 DEF HandlerInv, Genuine
<1>8. hbox = c => HealthInv(hpc, c, b)
      BY <1>5, About DEF HealthInv
<1>9. BoxInv(b, c \in wanted, WorkerHas(c), HandlerHas(c), hbox = c, HandlerHolds(c))
      BY <1>3, <1>5, <1>5a, About DEF BoxInv
<1>10. wanted' = wanted
      BY <1>3
<1> QED
    BY <1>3, <1>4, <1>5, <1>6, <1>7, <1>8, <1>9, <1>10, About, OfBox

\* The closing goroutine puts the error back, or is the last to know the
\* container.
LEMMA CloserPutsIInv ==
    ASSUME IInv, NEW c \in Containers, CloserPuts(c) PROVE IInv'
<1>3. /\ box[c].closer = "putback" /\ box[c].token = "out"
      /\ UNCHANGED <<wanted, worker, runSem, handler, health>>
      /\ c \notin wanted /\ box[c].st = "waited" /\ box[c].cancelled
      BY About DEF CloserPuts, BoxInv, FreeBox
<1>0. wanted' = wanted
      BY <1>3
<1>1. ASSUME NEW w \in Workers PROVE wbox[w] # c
      BY <1>3, About DEF WorkerInv
<1>2. CASE hbox = c \/ HandlerHas(c)
  <2> DEFINE b == [box[c] EXCEPT !.token = "in", !.closer = "closed"]
  <2>4. box' = [box EXCEPT ![c] = b]
        BY <1>2, About DEF CloserPuts, HandlerHas
  <2>5. /\ b \in Boxes /\ b.prog = box[c].prog
        /\ b.st = box[c].st /\ b.err = box[c].err
        /\ b.lost = box[c].lost
        /\ b.inTime = box[c].inTime /\ b.cancelled = box[c].cancelled
        /\ b.token = "in" /\ b.closer = "closed"
    <3>1. box[c] \in Boxes
          BY About
    <3> QED
        BY <3>1 DEF Boxes
  <2> HIDE DEF b
  <2>7. ASSUME NEW r \in Requests, rbox[r] = c
        PROVE  HandlerInv(rpc[r], c, rctx[r], resp[r], b)
    <3>1. HandlerInv(rpc[r], c, rctx[r], resp[r], box[c])
          BY <2>7, About
    <3> QED
        BY <3>1, <1>3, <2>5 DEF HandlerInv, Genuine
  <2>8. hbox = c => HealthInv(hpc, c, b)
        BY <2>5, About DEF HealthInv
  <2>9. BoxInv(b, c \in wanted, WorkerHas(c), HandlerHas(c), hbox = c, HandlerHolds(c))
        BY <1>2, <1>3, <2>5, About DEF BoxInv
  <2> QED
      BY <1>0, <1>1, <1>3, <2>4, <2>5, <2>7, <2>8, <2>9, About, OfBox
<1>4. CASE ~(hbox = c \/ HandlerHas(c))
  <2>4. box' = [box EXCEPT ![c] = FreeBox]
        BY <1>4 DEF CloserPuts, HandlerHas
  <2>5. FreeBox \in Boxes
        BY DEF Boxes, FreeBox
  <2>7. \A r \in Requests : rbox[r] # c
        BY <1>4 DEF HandlerHas
  <2>9. BoxInv(FreeBox, c \in wanted, WorkerHas(c), HandlerHas(c), hbox = c,
               HandlerHolds(c))
        BY <1>3 DEF BoxInv, FreeBox
  <2> QED
      BY <1>0, <1>1, <1>3, <1>4, <2>4, <2>5, <2>7, <2>9, About, OfBox
<1> QED
    BY <1>2, <1>4

---------------------------------------------------------------------------
(* The steps of a handler.                                                 *)

\* What the invariant says of one handler and of its container.
LEMMA AboutHandler ==
    ASSUME IInv, NEW r \in Requests
    PROVE  /\ rpc \in [Requests -> HandlerPcs]
           /\ rctx[r] \in {"live", "canceled", "deadline"}
           /\ rctx \in [Requests -> {"live", "canceled", "deadline"}]
           /\ resp[r] \in Responses /\ resp \in [Requests -> Responses]
           /\ gone \in [Requests -> BOOLEAN] /\ runSem \in Nat
           /\ rbox \in [Requests -> Containers \union {None}]
           /\ HandlerInv(rpc[r], rbox[r], rctx[r], resp[r], box[rbox[r]])
           /\ rctx = [rctx EXCEPT ![r] = rctx[r]] /\ resp = [resp EXCEPT ![r] = resp[r]]
           /\ rpc = [rpc EXCEPT ![r] = rpc[r]]
  BY DEF IInv, TypeOK

\* A handler that has no container moves, and still has none.
LEMMA NoBoxIInv ==
    ASSUME IInv, SlotInv, NEW r \in Requests,
           \/ Arrive(r) \/ ClientLeaves(r) \/ AcquiresSlot(r) \/ GivesUpSlot(r)
           \/ BodyStep(r) \/ GivesUpContainer(r) \/ ReleasesSlot(r)
    PROVE  IInv'
<1>1. UNCHANGED <<box, wanted, worker, rbox, health>>
      BY DEF Arrive, ClientLeaves, AcquiresSlot, GivesUpSlot, BodyStep, ReadsBody,
         BodyFails, GivesUpContainer, ReleasesSlot
<1>2. PICK pc \in {"idle", "sem", "body", "get", "release"} :
        rpc' = [rpc EXCEPT ![r] = pc]
  <2>1. CASE ClientLeaves(r)
        BY <2>1, AboutHandler DEF ClientLeaves
  <2>2. CASE ~ClientLeaves(r)
        BY <2>2 DEF Arrive, AcquiresSlot, GivesUpSlot, BodyStep, ReadsBody,
           BodyFails, GivesUpContainer, ReleasesSlot, HandlerAt
  <2> QED
      BY <2>1, <2>2
<1>3. rpc[r] \in {"idle", "sem", "body", "get", "release"}
      BY DEF Arrive, ClientLeaves, AcquiresSlot, GivesUpSlot, BodyStep, ReadsBody,
         BodyFails, GivesUpContainer, ReleasesSlot, HandlerAt
<1>4. /\ rbox[r] = None
      /\ rpc[r] # "release" => resp[r] = "none" /\ rctx[r] = "live"
      BY <1>3, AboutHandler DEF HandlerInv, Using
<1>5. gone' \in [Requests -> BOOLEAN]
      BY AboutHandler DEF Arrive, ClientLeaves, AcquiresSlot, GivesUpSlot, BodyStep,
         ReadsBody, BodyFails, GivesUpContainer, ReleasesSlot
<1>6. runSem' \in Nat
  <2>1. CASE ReleasesSlot(r)
    <3>1. r \in Holders
          BY <2>1 DEF ReleasesSlot, HandlerAt, Holders
    <3>2. runSem # 0
          BY <3>1, SlotNumbers, FS_EmptySet DEF SlotInv, SlotsCounted
    <3> QED
        BY <2>1, <3>2, AboutHandler DEF ReleasesSlot
  <2>2. CASE ~ReleasesSlot(r)
        BY <2>2, AboutHandler DEF Arrive, ClientLeaves, AcquiresSlot, GivesUpSlot,
           BodyStep, ReadsBody, BodyFails, GivesUpContainer
  <2> QED
      BY <2>1, <2>2
<1>7. rctx' = [rctx EXCEPT ![r] = "live"]
  <2>1. CASE ReleasesSlot(r)
        BY <2>1 DEF ReleasesSlot
  <2>2. CASE ~ReleasesSlot(r)
    <3>1. rctx' = rctx /\ rpc[r] # "release"
          BY <2>2 DEF Arrive, ClientLeaves, AcquiresSlot, GivesUpSlot, BodyStep,
             ReadsBody, BodyFails, GivesUpContainer, HandlerAt
    <3> QED
        BY <3>1, <1>4, AboutHandler
  <2> QED
      BY <2>1, <2>2
<1>8. PICK a \in Responses :
        resp' = [resp EXCEPT ![r] = a] /\ (a # "none" => pc = "release")
  <2>1. CASE ReleasesSlot(r)
        BY <2>1 DEF ReleasesSlot, Responses
  <2>2. CASE BodyFails(r)
    <3>1. resp' = [resp EXCEPT ![r] = "failed"] /\ "failed" \in Responses
          BY <2>2 DEF BodyFails, Responses
    <3>2. rpc'[r] = "release" /\ rpc'[r] = pc
          BY <1>2, <2>2, AboutHandler DEF BodyFails, HandlerAt
    <3> QED
        BY <3>1, <3>2
  <2>3. CASE ~ReleasesSlot(r) /\ ~BodyFails(r)
    <3>1. resp' = resp
          BY <2>3 DEF Arrive, ClientLeaves, AcquiresSlot, GivesUpSlot, BodyStep,
             ReadsBody, GivesUpContainer
    <3>2. rpc[r] # "release"
          BY <2>3 DEF Arrive, ClientLeaves, AcquiresSlot, GivesUpSlot, BodyStep,
             ReadsBody, GivesUpContainer, HandlerAt
    <3>3. resp[r] \in Responses /\ resp[r] = "none"
          BY <3>2, <1>4, AboutHandler
    <3> QED
        BY <3>1, <3>3, AboutHandler
  <2> QED
      BY <2>1, <2>2, <2>3
<1>9. HandlerInv(pc, rbox[r], "live", a, box[rbox[r]])
      BY <1>4, <1>8 DEF HandlerInv, Using
<1>10. pc \in HandlerPcs
      BY DEF HandlerPcs
<1> QED
    BY <1>1, <1>2, <1>3, <1>5, <1>6, <1>7, <1>8, <1>9, <1>10, OfHandler

\* A handler that has a container goes on without touching it.
LEMMA KeepsBoxIInv ==
    ASSUME IInv, NEW r \in Requests,
           \/ WriteFails(r) \/ Deadline(r) \/ TimedOut(r) \/ Finished(r)
           \/ ClosesEarly(r) \/ Responds(r) \/ Cancels(r)
    PROVE  IInv'
<1>1. /\ UNCHANGED <<box, wanted, worker, rbox, health>>
      /\ runSem' = runSem /\ gone' = gone
      BY DEF WriteFails, Deadline, TimedOut, Finished, ClosesEarly, Responds,
         Cancels
<1>2. HandlerInv(rpc[r], rbox[r], rctx[r], resp[r], box[rbox[r]])
      BY AboutHandler
<1>3. rbox[r] # None /\ rbox[r] \in Containers
      BY <1>2, AboutHandler DEF HandlerInv, Using, WriteFails, Deadline, TimedOut,
         Finished, ClosesEarly, Responds, Cancels, HandlerAt
<1>4. BoxInv(box[rbox[r]], rbox[r] \in wanted, WorkerHas(rbox[r]), HandlerHas(rbox[r]),
             hbox = rbox[r], HandlerHolds(rbox[r]))
      BY <1>3, About
<1>5. runSem' \in Nat /\ gone' \in [Requests -> BOOLEAN]
      BY <1>1, AboutHandler
<1>0. /\ rctx[r] \in {"live", "canceled", "deadline"} /\ resp[r] \in Responses
      /\ rctx = [rctx EXCEPT ![r] = rctx[r]] /\ resp = [resp EXCEPT ![r] = resp[r]]
      /\ rpc = [rpc EXCEPT ![r] = rpc[r]]
      BY AboutHandler
<1>0a. /\ {"cancel", "finish", "respond", "join"} \subseteq HandlerPcs
       /\ {"failed", "timeout"} \subseteq Responses
      BY DEF HandlerPcs, Responses
<1>6. CASE WriteFails(r)
  <2>1. /\ rpc' = [rpc EXCEPT ![r] = "cancel"] /\ rctx' = [rctx EXCEPT ![r] = rctx[r]]
        /\ resp' = [resp EXCEPT ![r] = "failed"] /\ rpc[r] = "write"
        /\ box[rbox[r]].st # "running"
        BY <1>0, <1>6 DEF WriteFails, HandlerAt
  <2>2. HandlerInv("cancel", rbox[r], rctx[r], "failed", box[rbox[r]])
        BY <1>2, <2>1 DEF HandlerInv, Using
  <2> QED
      BY <1>1, <1>5, <2>1, <2>2, <1>0, <1>0a, OfHandler
<1>7. CASE Deadline(r)
  <2>1. /\ rpc' = [rpc EXCEPT ![r] = rpc[r]]
        /\ rctx' = [rctx EXCEPT ![r] = "deadline"] /\ resp' = [resp EXCEPT ![r] = resp[r]]
        /\ rctx[r] = "live"
        BY <1>0, <1>7 DEF Deadline
  <2>2. HandlerInv(rpc[r], rbox[r], "deadline", resp[r], box[rbox[r]])
        BY <1>2, <1>3, <2>1 DEF HandlerInv, Using
  <2>3. rpc[r] \in HandlerPcs
        BY AboutHandler
  <2> QED
      BY <1>1, <1>5, <2>1, <2>2, <2>3, <1>0, <1>0a, OfHandler
<1>8. CASE TimedOut(r)
  <2>1. /\ rpc' = [rpc EXCEPT ![r] = "cancel"] /\ rctx' = [rctx EXCEPT ![r] = rctx[r]]
        /\ resp' = [resp EXCEPT ![r] = "timeout"] /\ rpc[r] = "check"
        BY <1>0, <1>8 DEF TimedOut, HandlerAt
  <2>2. HandlerInv("cancel", rbox[r], rctx[r], "timeout", box[rbox[r]])
        BY <1>2, <2>1 DEF HandlerInv, Using
  <2> QED
      BY <1>1, <1>5, <2>1, <2>2, <1>0, <1>0a, OfHandler
<1>9. CASE Finished(r)
  <2>1. /\ rpc' = [rpc EXCEPT ![r] = "finish"] /\ resp' = [resp EXCEPT ![r] = resp[r]]
        /\ rctx' = [rctx EXCEPT ![r] = rctx[r]]
        /\ rpc[r] = "check" /\ rctx[r] = "live"
        BY <1>0, <1>9 DEF Finished, HandlerAt
  <2>2. box[rbox[r]].st = "waited" /\ box[rbox[r]].closer = "await"
        BY <1>2, <1>3, <2>1 DEF HandlerInv
  <2>3. box[rbox[r]].inTime
        BY <1>4, <2>2 DEF BoxInv
  <2>4. HandlerInv("finish", rbox[r], rctx[r], resp[r], box[rbox[r]])
        BY <1>2, <2>1, <2>2, <2>3 DEF HandlerInv, Using
  <2> QED
      BY <1>1, <1>5, <2>1, <2>4, <1>0, <1>0a, OfHandler
<1>10. CASE ClosesEarly(r)
  <2> DEFINE ctx == IF rctx[r] = "live" THEN "canceled" ELSE rctx[r]
  <2>1. /\ rpc' = [rpc EXCEPT ![r] = "respond"] /\ rctx' = [rctx EXCEPT ![r] = ctx]
        /\ resp' = [resp EXCEPT ![r] = resp[r]] /\ rpc[r] = "finish"
        BY <1>0, <1>10 DEF ClosesEarly, CancelCtx, HandlerAt
  <2>2. ctx \in {"canceled", "deadline"}
        BY AboutHandler
  <2>3. HandlerInv("respond", rbox[r], ctx, resp[r], box[rbox[r]])
    <3> HIDE DEF ctx
    <3> QED
        BY <1>2, <2>1, <2>2 DEF HandlerInv, Using
  <2> QED
      BY <1>1, <1>5, <2>1, <2>2, <2>3, <1>0, <1>0a, OfHandler
<1>11. CASE Responds(r)
  <2> DEFINE a == Answer(box[rbox[r]])
  <2>1. /\ rpc' = [rpc EXCEPT ![r] = "cancel"] /\ rctx' = [rctx EXCEPT ![r] = rctx[r]]
        /\ resp' = [resp EXCEPT ![r] = a] /\ rpc[r] = "respond"
        BY <1>0, <1>11 DEF Responds, HandlerAt
  <2>2. /\ box[rbox[r]].st = "waited" /\ box[rbox[r]].inTime
        /\ box[rbox[r]].prog # "none"
        BY <1>2, <1>3, <2>1 DEF HandlerInv
  <2>3. a \in Responses /\ a # "none"
        BY DEF Answer, Responses
  <2>4. a = "output" => Genuine(box[rbox[r]])
        BY <1>4, <2>2 DEF Answer, Genuine, BoxInv
  <2>5. HandlerInv("cancel", rbox[r], rctx[r], a, box[rbox[r]])
    <3> HIDE DEF a
    <3> QED
        BY <1>2, <2>1, <2>2, <2>3, <2>4 DEF HandlerInv, Using
  <2> QED
      BY <1>1, <1>5, <2>1, <2>3, <2>5, <1>0, <1>0a, OfHandler
<1>12. CASE Cancels(r)
  <2> DEFINE ctx == IF rctx[r] = "live" THEN "canceled" ELSE rctx[r]
  <2>1. /\ rpc' = [rpc EXCEPT ![r] = "join"] /\ rctx' = [rctx EXCEPT ![r] = ctx]
        /\ resp' = [resp EXCEPT ![r] = resp[r]] /\ rpc[r] = "cancel"
        BY <1>0, <1>12 DEF Cancels, CancelCtx, HandlerAt
  <2>2. ctx \in {"canceled", "deadline"}
        BY AboutHandler
  <2>3. HandlerInv("join", rbox[r], ctx, resp[r], box[rbox[r]])
    <3> HIDE DEF ctx
    <3> QED
        BY <1>2, <2>1, <2>2 DEF HandlerInv, Using
  <2> QED
      BY <1>1, <1>5, <2>1, <2>2, <2>3, <1>0, <1>0a, OfHandler
<1> QED
    BY <1>6, <1>7, <1>8, <1>9, <1>10, <1>11, <1>12

---------------------------------------------------------------------------
(* The steps of a worker.                                                  *)

\* A container that a worker has is nobody else's; a free one is nobody's.
LEMMA Exclusive ==
    ASSUME IInv, NEW c \in Containers
    PROVE  /\ WorkerHas(c) => ~HandlerHas(c) /\ hbox # c
           /\ HandlerHas(c) => ~WorkerHas(c) /\ hbox # c
           /\ hbox = c => ~WorkerHas(c) /\ ~HandlerHas(c)
           /\ box[c].st = "free" => ~WorkerHas(c) /\ ~HandlerHas(c) /\ hbox # c
<1>0. c # None
      BY About
<1>1. ASSUME WorkerHas(c) PROVE box[c].closer = "none" /\ box[c].st # "free"
  <2>1. PICK w \in Workers : wbox[w] = c
        BY <1>1 DEF WorkerHas
  <2>2. WorkerInv(wpc[w], c, box[c])
        BY <2>1, About
  <2> QED
      BY <2>2, <1>0 DEF WorkerInv
<1>2. ASSUME HandlerHas(c) PROVE box[c].closer # "none" /\ box[c].st # "free"
  <2>1. PICK r \in Requests : rbox[r] = c
        BY <1>2 DEF HandlerHas
  <2>2. HandlerInv(rpc[r], c, rctx[r], resp[r], box[c])
        BY <2>1, About
  <2> QED
      BY <2>2, <1>0 DEF HandlerInv
<1>3. hbox = c => box[c].closer # "none" /\ box[c].st # "free"
      BY About DEF HealthInv
<1>4. hbox = c => ~HandlerHas(c)
      BY About DEF OneUser
<1> QED
    BY <1>1, <1>2, <1>3, <1>4

\* What the invariant says of one worker and of its container.
LEMMA AboutWorker ==
    ASSUME IInv, NEW w \in Workers
    PROVE  /\ wpc \in [Workers -> {"begin", "starting", "offer", "sleep", "stuck"}]
           /\ wbox \in [Workers -> Containers \union {None}]
           /\ WorkerInv(wpc[w], wbox[w], box[wbox[w]])
  BY DEF IInv, TypeOK

\* A worker makes a container of a free one.
LEMMA BeginIInv == ASSUME IInv, NEW w \in Workers, Begin(w) PROVE IInv'
<1>0. PICK c \in Containers :
        /\ box[c].st = "free" /\ box' = [box EXCEPT ![c].st = "made"]
        /\ wbox' = [wbox EXCEPT ![w] = c] /\ wanted' = wanted \union {c}
      BY DEF Begin
<1>1. /\ wpc[w] = "begin" /\ wpc' = [wpc EXCEPT ![w] = "starting"]
      /\ rpc' = rpc /\ rbox' = rbox /\ rctx' = rctx /\ gone' = gone /\ resp' = resp
      /\ hpc' = hpc /\ hbox' = hbox /\ runSem' = runSem
      BY DEF Begin, WorkerAt, handler, health
<1> DEFINE b == [FreeBox EXCEPT !.st = "made"]
<1>2. /\ b \in Boxes /\ b.prog = "none"
      /\ b.st = "made" /\ b.closer = "none" /\ b.token = "none"
      /\ b.cancelled = FALSE /\ b.inTime = FALSE /\ b.lost = FALSE
      BY DEF Boxes, FreeBox
<1>3. box' = [box EXCEPT ![c] = b]
  <2>1. box[c] = FreeBox
        BY <1>0, About DEF BoxInv
  <2> QED
      BY <1>0, <2>1
<1> HIDE DEF b
<1>4. TypeOK'
      BY <1>0, <1>1, <1>2, <1>3 DEF IInv, TypeOK
<1>5. box'[c] = b /\ \A d \in Containers : d # c => box'[d] = box[d]
      BY <1>3, About
<1>6. /\ wbox[w] = None /\ wbox'[w] = c /\ wpc'[w] = "starting"
      /\ \A v \in Workers : v # w => wbox'[v] = wbox[v] /\ wpc'[v] = wpc[v]
      BY <1>0, <1>1, AboutWorker DEF WorkerInv
<1>7. ~WorkerHas(c) /\ ~HandlerHas(c) /\ hbox # c
      BY <1>0, Exclusive
<1>8. Touches({w}, {}, {c})
      BY <1>0, <1>1, <1>5, <1>6 DEF Touches, Moves
<1>9. HealthOK'
  <2>1. HealthInv(hpc, hbox, box[hbox])
        BY DEF IInv
  <2>2. CASE hbox = None
        BY <2>1, <2>2, <1>1 DEF HealthOK, HealthInv
  <2>3. CASE hbox # None
        BY <2>1, <2>3, <1>1, <1>5, <1>7 DEF IInv, TypeOK, HealthOK
  <2> QED
      BY <2>2, <2>3
<1>10. ASSUME NEW v \in Workers, v \in {w} \/ wbox[v] \in {c} PROVE WorkerOK(v)'
  <2>1. v = w
        BY <1>7, <1>10 DEF WorkerHas
  <2>2. c # None
        BY About
  <2> QED
      BY <2>1, <2>2, <1>2, <1>5, <1>6 DEF WorkerOK, WorkerInv
<1>11. \A r \in Requests : rbox[r] # c
       BY <1>7 DEF HandlerHas
<1>12. /\ WorkerHas(c)' /\ ~HandlerHas(c)' /\ hbox' # c /\ c \in wanted'
       BY <1>0, <1>1, <1>6, <1>7 DEF WorkerHas, HandlerHas
<1>13. BoxOK(c)'
       BY <1>2, <1>5, <1>12 DEF BoxOK, BoxInv
<1>14. OneUser(c)'
  <2>1. ASSUME NEW v \in Workers, wbox'[v] = c PROVE v = w
        BY <2>1, <1>6, <1>7 DEF WorkerHas
  <2> QED
      BY <2>1, <1>12 DEF OneUser, HandlerHas
<1>15. {w} \in SUBSET Workers /\ {} \in SUBSET Requests /\ {c} \in SUBSET Containers
       OBVIOUS
<1> QED
    BY <1>4, <1>8, <1>9, <1>10, <1>11, <1>13, <1>14, <1>15, Locality

\* A container that a worker has is ready, or could not be started.
LEMMA StartedIInv ==
    ASSUME IInv, NEW w \in Workers, StartOK(w) \/ ExecFails(w) PROVE IInv'
<1>0. /\ wpc[w] = "starting"
      /\ rpc' = rpc /\ rbox' = rbox /\ rctx' = rctx /\ gone' = gone /\ resp' = resp
      /\ hpc' = hpc /\ hbox' = hbox /\ runSem' = runSem
      BY DEF StartOK, ExecFails, WorkerAt, handler, health
<1>0a. PICK c \in Containers : c = wbox[w]
       BY <1>0, AboutWorker DEF WorkerInv
<1>1. /\ c \in Containers /\ c # None /\ WorkerHas(c)
      /\ box[c].st = "made" /\ box[c].closer = "none" /\ ~box[c].cancelled
      /\ box[c].token # "out" /\ box[c].prog = "none"
      BY <1>0, <1>0a, AboutWorker DEF WorkerInv, WorkerHas
<1>2. ~HandlerHas(c) /\ hbox # c
      BY <1>1, Exclusive
<1>3. \A v \in Workers : wbox[v] = c => v = w
      BY <1>0a, About DEF OneUser
<1>4. ASSUME NEW b \in Boxes, box' = [box EXCEPT ![c] = b],
             NEW pc \in {"offer", "sleep"}, wpc' = [wpc EXCEPT ![w] = pc],
             NEW d \in {c, None}, wbox' = [wbox EXCEPT ![w] = d],
             wanted' \in {wanted, wanted \ {c}},
             WorkerInv(pc, d, b),
             BoxInv(b, c \in wanted', d = c, FALSE, FALSE, FALSE)
      PROVE  IInv'
  <2>1. /\ wpc \in [Workers -> {"begin", "starting", "offer", "sleep", "stuck"}]
        /\ wbox \in [Workers -> Containers \union {None}] /\ TypeOK
        BY AboutWorker DEF IInv
  <2>2. TypeOK'
        BY <1>0, <1>1, <1>4, <2>1 DEF TypeOK
  <2>3. box'[c] = b /\ \A e \in Containers : e # c => box'[e] = box[e]
        BY <1>1, <1>4, About
  <2>4. /\ wbox'[w] = d /\ wpc'[w] = pc
        /\ \A v \in Workers : v # w => wbox'[v] = wbox[v] /\ wpc'[v] = wpc[v]
        BY <1>4, <2>1
  <2>5. Touches({w}, {}, {c})
        BY <1>0, <1>0a, <1>4, <2>3, <2>4 DEF Touches, Moves
  <2>6. HealthOK'
    <3>1. HealthInv(hpc, hbox, box[hbox])
          BY DEF IInv
    <3>2. CASE hbox = None
          BY <3>1, <3>2, <1>0 DEF HealthOK, HealthInv
    <3>3. CASE hbox # None
          BY <3>1, <3>3, <1>0, <1>2, <2>1, <2>3 DEF TypeOK, HealthOK
    <3> QED
        BY <3>2, <3>3
  <2>7. ASSUME NEW v \in Workers, v \in {w} \/ wbox[v] \in {c} PROVE WorkerOK(v)'
    <3>1. v = w
          BY <1>3, <2>7
    <3>2. CASE d = c
          BY <3>1, <3>2, <1>4, <2>3, <2>4 DEF WorkerOK
    <3>3. CASE d # c
      <4>1. d = None
            BY <3>3
      <4> QED
          BY <3>1, <4>1, <1>4, <2>4 DEF WorkerOK, WorkerInv
    <3> QED
        BY <3>2, <3>3
  <2>8. \A r \in Requests : rbox[r] # c
        BY <1>2 DEF HandlerHas
  <2>9. /\ WorkerHas(c)' <=> d = c
        /\ ~HandlerHas(c)' /\ ~HandlerHolds(c)' /\ hbox' # c
    <3>1. \A v \in Workers : wbox'[v] = c => v = w
          BY <1>3, <2>4
    <3> QED
        BY <3>1, <1>0, <1>2, <2>4, <2>8 DEF WorkerHas, HandlerHas, HandlerHolds
  <2>10. BoxOK(c)'
        BY <1>4, <2>3, <2>9 DEF BoxOK, BoxInv
  <2>11. OneUser(c)'
    <3>1. \A v \in Workers : wbox'[v] = c => v = w
          BY <1>3, <2>4
    <3> QED
        BY <3>1, <2>9 DEF OneUser, HandlerHas
  <2>12. {w} \in SUBSET Workers /\ {} \in SUBSET Requests /\ {c} \in SUBSET Containers
         BY <1>1
  <2> QED
      BY <2>2, <2>5, <2>6, <2>7, <2>8, <2>10, <2>11, <2>12, Locality
<1>5. CASE StartOK(w)
  <2> DEFINE b == [box[c] EXCEPT !.st = "running"]
  <2>1. /\ box' = [box EXCEPT ![c] = b] /\ wpc' = [wpc EXCEPT ![w] = "offer"]
        /\ wbox' = [wbox EXCEPT ![w] = c] /\ wanted' = wanted
        BY <1>0a, <1>5, About, AboutWorker DEF StartOK, WorkerAt
  <2>2. /\ b \in Boxes /\ b.prog = box[c].prog
        /\ b.st = "running" /\ b.closer = box[c].closer
        /\ b.cancelled = box[c].cancelled /\ b.token = box[c].token
        /\ b.err = box[c].err /\ b.lost = box[c].lost /\ b.inTime = box[c].inTime
    <3>1. box[c] \in Boxes
          BY <1>1, About
    <3> QED
        BY <3>1 DEF Boxes
  <2> HIDE DEF b
  <2>3. WorkerInv("offer", c, b)
        BY <1>1, <2>2 DEF WorkerInv
  <2>4. BoxInv(b, c \in wanted, TRUE, FALSE, FALSE, FALSE)
        BY <1>1, <1>2, <2>2, About DEF BoxInv, HandlerHas, HandlerHolds
  <2> QED
      BY <2>1, <2>2, <2>3, <2>4, <1>1, <1>4
<1>6. CASE ExecFails(w)
  <2>1. /\ box' = [box EXCEPT ![c] = FreeBox] /\ wpc' = [wpc EXCEPT ![w] = "sleep"]
        /\ wbox' = [wbox EXCEPT ![w] = None] /\ wanted' = wanted \ {c}
        BY <1>0a, <1>6 DEF ExecFails, WorkerAt
  <2>2. FreeBox \in Boxes
        BY DEF FreeBox, Boxes
  <2>3. WorkerInv("sleep", None, FreeBox)
        BY DEF WorkerInv
  <2>4. c \notin wanted'
        BY <2>1
  <2>5. BoxInv(FreeBox, c \in wanted', None = c, FALSE, FALSE, FALSE)
        BY <2>4 DEF BoxInv, FreeBox
  <2> QED
      BY <2>1, <2>2, <2>3, <2>5, <1>4
<1> QED
    BY <1>5, <1>6

\* A worker goes on without touching a container.
LEMMA WorkerIInv == ASSUME IInv, NEW w \in Workers, WorkerStep(w) PROVE IInv'
<1>1. CASE StartHangs(w)
  <2>1. WorkerInv("stuck", wbox[w], box[wbox[w]])
        BY <1>1, AboutWorker DEF StartHangs, WorkerAt, WorkerInv
  <2> QED
      BY <1>1, <2>1, OfWorker DEF StartHangs, WorkerAt
<1>2. CASE SleepOver(w)
  <2>1. WorkerInv("begin", wbox[w], box[wbox[w]])
        BY <1>2, AboutWorker DEF SleepOver, WorkerAt, WorkerInv
  <2> QED
      BY <1>2, <2>1, OfWorker DEF SleepOver, WorkerAt
<1> QED
    BY <1>1, <1>2, BeginIInv, StartedIInv DEF WorkerStep

---------------------------------------------------------------------------
(* The steps of a handler with its container.                              *)

\* A handler changes its container's state, and keeps it or lets it go.
LEMMA OwnBox ==
    ASSUME IInv, NEW r \in Requests, NEW c \in Containers, rbox[r] = c,
           NEW b \in Boxes, box' = [box EXCEPT ![c] = b],
           NEW pc \in HandlerPcs, rpc' = [rpc EXCEPT ![r] = pc],
           NEW d \in {c, None}, rbox' = [rbox EXCEPT ![r] = d],
           UNCHANGED <<wanted, worker, runSem, rctx, gone, resp, health>>,
           HandlerInv(pc, d, rctx[r], resp[r], b),
           BoxInv(b, c \in wanted, FALSE, d = c, FALSE, d = c /\ pc = "putback")
    PROVE  IInv'
<1>0. /\ wpc' = wpc /\ wbox' = wbox /\ rctx' = rctx /\ gone' = gone /\ resp' = resp
      /\ hpc' = hpc /\ hbox' = hbox /\ runSem' = runSem /\ wanted' = wanted
      BY DEF worker, health
<1>1. TypeOK
      BY DEF IInv
<1>2. TypeOK'
      BY <1>0, <1>1 DEF TypeOK
<1>3. box'[c] = b /\ \A e \in Containers : e # c => box'[e] = box[e]
      BY <1>1 DEF TypeOK
<1>4. /\ rpc'[r] = pc /\ rbox'[r] = d
      /\ \A q \in Requests : q # r => rpc'[q] = rpc[q] /\ rbox'[q] = rbox[q]
      BY <1>1 DEF TypeOK
<1>5. HandlerHas(c)
      BY DEF HandlerHas
<1>6. ~WorkerHas(c) /\ hbox # c /\ \A w \in Workers : wbox[w] # c
      BY <1>5, Exclusive DEF WorkerHas
<1>7. \A q \in Requests : rbox[q] = c => q = r
      BY About DEF OneUser
<1>8. Touches({}, {r}, {c})
      BY <1>0, <1>3, <1>4 DEF Touches, Moves
<1>9. HealthOK'
  <2>1. HealthInv(hpc, hbox, box[hbox])
        BY DEF IInv
  <2>2. CASE hbox = None
        BY <2>1, <2>2, <1>0 DEF HealthOK, HealthInv
  <2>3. CASE hbox # None
        BY <2>1, <2>3, <1>0, <1>1, <1>3, <1>6 DEF TypeOK, HealthOK
  <2> QED
      BY <2>2, <2>3
<1>10. HandlerOK(r)'
  <2>1. CASE d = c
        BY <2>1, <1>0, <1>3, <1>4 DEF HandlerOK
  <2>2. CASE d # c
    <3>1. d = None
          BY <2>2
    <3> QED
        BY <3>1, <1>0, <1>4 DEF HandlerOK, HandlerInv
  <2> QED
      BY <2>1, <2>2
<1>11. ASSUME NEW q \in Requests, q \in {r} \/ rbox[q] \in {c} PROVE HandlerOK(q)'
  <2>1. q = r
        BY <1>7, <1>11
  <2> QED
      BY <2>1, <1>10
<1>12. /\ ~WorkerHas(c)' /\ hbox' # c
       /\ HandlerHas(c)' <=> d = c
       /\ HandlerHolds(c)' <=> d = c /\ pc = "putback"
       /\ \A q \in Requests : rbox'[q] = c => q = r
  <2>1. \A q \in Requests : rbox'[q] = c => q = r
        BY <1>4, <1>7
  <2> QED
      BY <2>1, <1>0, <1>4, <1>6 DEF WorkerHas, HandlerHas, HandlerHolds
<1>13. BoxOK(c)'
       BY <1>0, <1>3, <1>12 DEF BoxOK, BoxInv
<1>14. OneUser(c)'
       BY <1>12 DEF OneUser, WorkerHas
<1>15. {} \in SUBSET Workers /\ {r} \in SUBSET Requests /\ {c} \in SUBSET Containers
       OBVIOUS
<1> QED
    BY <1>2, <1>6, <1>8, <1>9, <1>11, <1>13, <1>14, <1>15, Locality

\* A handler gives its container the program, takes the error, puts it back, or
\* forgets the container.
LEMMA WaitsIInv ==
    ASSUME IInv, NEW r \in Requests,
           WritesStdin(r) \/ TakesErr(r) \/ PutsErr(r) \/ Joins(r)
    PROVE  IInv'
<1>1. PICK c \in Containers : rbox[r] = c
      BY AboutHandler DEF WritesStdin, TakesErr, PutsErr, Joins, HandlerAt,
         HandlerInv, Using
<1>2. /\ HandlerInv(rpc[r], c, rctx[r], resp[r], box[c]) /\ c # None
      /\ box[c] \in Boxes
      /\ BoxInv(box[c], c \in wanted, WorkerHas(c), HandlerHas(c), hbox = c,
                HandlerHolds(c))
      BY <1>1, About
<1>3. HandlerHas(c)
      BY <1>1 DEF HandlerHas
<1>4. ~WorkerHas(c) /\ hbox # c
      BY <1>3, Exclusive
<1>5. /\ UNCHANGED <<wanted, worker, runSem, gone, resp, health>> /\ rctx' = rctx
      BY DEF WritesStdin, TakesErr, PutsErr, Joins
<1>6. rbox = [rbox EXCEPT ![r] = c]
      BY <1>1, AboutHandler
<1>7. CASE TakesErr(r)
  <2> DEFINE b == [box[c] EXCEPT !.token = "out"]
  <2>1. /\ box' = [box EXCEPT ![c] = b] /\ rpc' = [rpc EXCEPT ![r] = "putback"]
        /\ rbox' = [rbox EXCEPT ![r] = c]
        /\ rpc[r] = "wait" /\ box[c].token = "in"
        BY <1>1, <1>6, <1>7, About DEF TakesErr, HandlerAt
  <2>2. /\ b \in Boxes /\ b.prog = box[c].prog
        /\ b.st = box[c].st /\ b.closer = box[c].closer
        /\ b.cancelled = box[c].cancelled /\ b.token = "out"
        /\ b.err = box[c].err /\ b.lost = box[c].lost /\ b.inTime = box[c].inTime
        BY <1>2 DEF Boxes
  <2>2a. b.st # "free"
        BY <1>2, <2>1, <2>2 DEF BoxInv, FreeBox
  <2> HIDE DEF b
  <2>3. HandlerInv("putback", c, rctx[r], resp[r], b)
        BY <1>2, <2>1, <2>2 DEF HandlerInv, BoxInv, Using
  <2>4. BoxInv(b, c \in wanted, FALSE, TRUE, FALSE, TRUE)
        BY <1>2, <1>4, <2>1, <2>2, <2>2a DEF BoxInv
  <2> QED
      BY <1>1, <1>5, <2>1, <2>2, <2>3, <2>4, OwnBox DEF HandlerPcs
<1>8. CASE PutsErr(r)
  <2> DEFINE b == [box[c] EXCEPT !.token = "in"]
  <2>1. /\ box' = [box EXCEPT ![c] = b] /\ rpc' = [rpc EXCEPT ![r] = "check"]
        /\ rbox' = [rbox EXCEPT ![r] = c] /\ rpc[r] = "putback"
        BY <1>1, <1>6, <1>8, About DEF PutsErr, HandlerAt
  <2>2. /\ b \in Boxes /\ b.prog = box[c].prog
        /\ b.st = box[c].st /\ b.closer = box[c].closer
        /\ b.cancelled = box[c].cancelled /\ b.token = "in"
        /\ b.err = box[c].err /\ b.lost = box[c].lost /\ b.inTime = box[c].inTime
        BY <1>2 DEF Boxes
  <2>2a. b.st = "waited" /\ b.closer # "putback"
        BY <1>2, <2>1, <2>2 DEF BoxInv, HandlerInv
  <2> HIDE DEF b
  <2>3. HandlerInv("check", c, rctx[r], resp[r], b)
        BY <1>2, <2>1, <2>2, <2>2a DEF HandlerInv, Using
  <2>4. BoxInv(b, c \in wanted, FALSE, TRUE, FALSE, FALSE)
        BY <1>2, <1>3, <1>4, <2>1, <2>2, <2>2a DEF BoxInv
  <2> QED
      BY <1>1, <1>5, <2>1, <2>2, <2>3, <2>4, OwnBox DEF HandlerPcs
<1>9. CASE Joins(r)
  <2>1. /\ box' = [box EXCEPT ![c] = FreeBox] /\ rpc' = [rpc EXCEPT ![r] = "release"]
        /\ rbox' = [rbox EXCEPT ![r] = None]
        /\ rpc[r] = "join" /\ box[c].closer = "closed"
        BY <1>1, <1>9 DEF Joins, HandlerAt
  <2>2. FreeBox \in Boxes
        BY DEF Boxes, FreeBox
  <2>3. HandlerInv("release", None, rctx[r], resp[r], FreeBox)
        BY DEF HandlerInv, Using
  <2>4. c \notin wanted
        BY <1>2, <2>1 DEF BoxInv
  <2>5. BoxInv(FreeBox, c \in wanted, FALSE, None = c, FALSE,
               None = c /\ "release" = "putback")
        BY <2>4 DEF BoxInv, FreeBox
  <2> QED
      BY <1>1, <1>5, <2>1, <2>2, <2>3, <2>5, OwnBox DEF HandlerPcs
<1>10. CASE WritesStdin(r)
  <2> DEFINE b == [box[c] EXCEPT !.prog = "given"]
  <2>1. /\ box' = [box EXCEPT ![c] = b] /\ rpc' = [rpc EXCEPT ![r] = "wait"]
        /\ rbox' = [rbox EXCEPT ![r] = c]
        /\ rpc[r] = "write" /\ box[c].st = "running"
        BY <1>1, <1>6, <1>10, About DEF WritesStdin, HandlerAt
  <2>2. /\ b \in Boxes /\ b.prog = "given"
        /\ b.st = box[c].st /\ b.closer = box[c].closer
        /\ b.cancelled = box[c].cancelled /\ b.token = box[c].token
        /\ b.err = box[c].err /\ b.lost = box[c].lost /\ b.inTime = box[c].inTime
        BY <1>2 DEF Boxes
  <2> HIDE DEF b
  <2>3. HandlerInv("wait", c, rctx[r], resp[r], b)
        BY <1>2, <2>1, <2>2 DEF HandlerInv, Using
  <2>4. BoxInv(b, c \in wanted, FALSE, TRUE, FALSE, FALSE)
        BY <1>2, <1>4, <2>1, <2>2 DEF BoxInv
  <2> QED
      BY <1>1, <1>5, <2>1, <2>2, <2>3, <2>4, OwnBox DEF HandlerPcs
<1> QED
    BY <1>7, <1>8, <1>9, <1>10

---------------------------------------------------------------------------
(* The rendezvous on readyContainer.                                       *)

\* A worker hands its container over to a handler, or to the health check.
LEMMA HandedOver ==
    ASSUME IInv, NEW w \in Workers, HandsOver(w)
    PROVE  \E c \in Containers :
             /\ wbox[w] = c /\ c # None /\ WorkerHas(c) /\ ~HandlerHas(c) /\ hbox # c
             /\ wpc'[w] = "begin" /\ wbox'[w] = None
             /\ \A v \in Workers : v # w => wpc'[v] = wpc[v] /\ wbox'[v] = wbox[v]
             /\ \A v \in Workers : wbox[v] = c => v = w
             /\ wpc' \in [Workers -> {"begin", "starting", "offer", "sleep", "stuck"}]
             /\ wbox' \in [Workers -> Containers \union {None}]
             /\ ~WorkerHas(c)' /\ WorkerOK(w)'
             /\ box[c].st \in {"running", "ended", "waited"} /\ box[c].closer = "none"
             /\ ~box[c].cancelled /\ box[c].token # "out" /\ box[c].prog = "none"
<1>1. /\ wpc[w] = "offer" /\ wpc' = [wpc EXCEPT ![w] = "begin"]
      /\ wbox' = [wbox EXCEPT ![w] = None]
      BY DEF HandsOver, WorkerAt
<1>2. PICK c \in Containers : wbox[w] = c
      BY <1>1, AboutWorker DEF WorkerInv
<1>3. /\ c # None /\ WorkerHas(c)
      /\ WorkerInv("offer", c, box[c])
  <2>1. c # None
        BY About
  <2>2. WorkerInv(wpc[w], wbox[w], box[wbox[w]])
        BY AboutWorker
  <2> QED
      BY <1>1, <1>2, <2>1, <2>2 DEF WorkerHas
<1>4. ~HandlerHas(c) /\ hbox # c
      BY <1>3, Exclusive
<1>5. /\ wpc'[w] = "begin" /\ wbox'[w] = None
      /\ \A v \in Workers : v # w => wpc'[v] = wpc[v] /\ wbox'[v] = wbox[v]
      /\ wpc' \in [Workers -> {"begin", "starting", "offer", "sleep", "stuck"}]
      /\ wbox' \in [Workers -> Containers \union {None}]
      BY <1>1, AboutWorker
<1>6. \A v \in Workers : wbox[v] = c => v = w
      BY <1>2, About DEF OneUser
<1>7. ~WorkerHas(c)'
      BY <1>3, <1>5, <1>6 DEF WorkerHas
<1>8. WorkerOK(w)'
      BY <1>5 DEF WorkerOK, WorkerInv
<1>9. /\ box[c].st \in {"running", "ended", "waited"} /\ box[c].closer = "none"
      /\ ~box[c].cancelled /\ box[c].token # "out" /\ box[c].prog = "none"
      BY <1>3 DEF WorkerInv
<1> QED
    BY <1>2, <1>3, <1>4, <1>5, <1>6, <1>7, <1>8, <1>9

\* A handler receives a container.
LEMMA ReceivesIInv ==
    ASSUME IInv, NEW r \in Requests, NEW w \in Workers, ReceivesContainer(r, w)
    PROVE  IInv'
<1>1. PICK c \in Containers :
        /\ wbox[w] = c /\ c # None /\ WorkerHas(c) /\ ~HandlerHas(c) /\ hbox # c
        /\ wpc'[w] = "begin" /\ wbox'[w] = None
        /\ \A v \in Workers : v # w => wpc'[v] = wpc[v] /\ wbox'[v] = wbox[v]
        /\ \A v \in Workers : wbox[v] = c => v = w
        /\ wpc' \in [Workers -> {"begin", "starting", "offer", "sleep", "stuck"}]
        /\ wbox' \in [Workers -> Containers \union {None}]
        /\ ~WorkerHas(c)' /\ WorkerOK(w)'
        /\ box[c].st \in {"running", "ended", "waited"} /\ box[c].closer = "none"
        /\ ~box[c].cancelled /\ box[c].token # "out" /\ box[c].prog = "none"
      BY HandedOver DEF ReceivesContainer
<1>2. /\ rpc[r] = "get" /\ rpc' = [rpc EXCEPT ![r] = "write"]
      /\ rbox' = [rbox EXCEPT ![r] = c] /\ rctx' = [rctx EXCEPT ![r] = "live"]
      /\ gone' = gone /\ resp' = resp
      /\ hpc' = hpc /\ hbox' = hbox /\ runSem' = runSem /\ wanted' = wanted
      BY <1>1 DEF ReceivesContainer, HandlerAt, health
<1> DEFINE b == [box[c] EXCEPT !.closer = "await"]
<1>3. box' = [box EXCEPT ![c] = b]
      BY <1>1, About DEF ReceivesContainer
<1>4. /\ b \in Boxes /\ b.prog = box[c].prog
      /\ b.st = box[c].st /\ b.closer = "await"
      /\ b.cancelled = box[c].cancelled /\ b.token = box[c].token
      /\ b.err = box[c].err /\ b.lost = box[c].lost /\ b.inTime = box[c].inTime
  <2>1. box[c] \in Boxes
        BY About
  <2> QED
      BY <2>1 DEF Boxes
<1> HIDE DEF b
<1>5. TypeOK
      BY DEF IInv
<1>6. TypeOK'
      BY <1>1, <1>2, <1>3, <1>4, <1>5 DEF TypeOK, HandlerPcs
<1>7. box'[c] = b /\ \A e \in Containers : e # c => box'[e] = box[e]
      BY <1>3, About
<1>8. /\ rpc'[r] = "write" /\ rbox'[r] = c /\ rctx'[r] = "live" /\ resp'[r] = resp[r]
      /\ \A q \in Requests : q # r => rpc'[q] = rpc[q] /\ rbox'[q] = rbox[q]
                                       /\ rctx'[q] = rctx[q]
      BY <1>2, AboutHandler
<1>9. rbox[r] = None /\ resp[r] = "none"
      BY <1>2, AboutHandler DEF HandlerInv, Using
<1>10. Touches({w}, {r}, {c})
       BY <1>1, <1>2, <1>7, <1>8, <1>9 DEF Touches, Moves
<1>11. HealthOK'
  <2>1. HealthInv(hpc, hbox, box[hbox])
        BY DEF IInv
  <2>2. CASE hbox = None
        BY <2>1, <2>2, <1>2 DEF HealthOK, HealthInv
  <2>3. CASE hbox # None
        BY <2>1, <2>3, <1>1, <1>2, <1>5, <1>7 DEF TypeOK, HealthOK
  <2> QED
      BY <2>2, <2>3
<1>12. \A v \in Workers : v \in {w} \/ wbox[v] \in {c} => WorkerOK(v)'
       BY <1>1
<1>13. \A q \in Requests : q \in {r} \/ rbox[q] \in {c} => q = r
       BY <1>1 DEF HandlerHas
<1>14. HandlerOK(r)'
       BY <1>1, <1>4, <1>7, <1>8, <1>9 DEF HandlerOK, HandlerInv, Using
<1>15. HandlerHas(c)' /\ ~HandlerHolds(c)' /\ \A q \in Requests : rbox'[q] = c => q = r
  <2>1. \A q \in Requests : rbox'[q] = c => q = r
        BY <1>1, <1>8 DEF HandlerHas
  <2> QED
      BY <2>1, <1>8 DEF HandlerHas, HandlerHolds
<1>16. BoxInv(b, c \in wanted, FALSE, TRUE, FALSE, FALSE)
  <2>1. BoxInv(box[c], c \in wanted, WorkerHas(c), HandlerHas(c), hbox = c,
               HandlerHolds(c))
        BY About
  <2> QED
      BY <1>1, <1>4, <2>1 DEF BoxInv
<1>17. BoxOK(c)'
       BY <1>1, <1>2, <1>7, <1>15, <1>16 DEF BoxOK, BoxInv
<1>18. OneUser(c)'
       BY <1>1, <1>2, <1>15 DEF OneUser, WorkerHas
<1>19. {w} \in SUBSET Workers /\ {r} \in SUBSET Requests /\ {c} \in SUBSET Containers
       OBVIOUS
<1> QED
    BY <1>6, <1>10, <1>11, <1>12, <1>13, <1>14, <1>17, <1>18, <1>19, Locality

---------------------------------------------------------------------------
(* The steps of the health check.                                          *)

\* The health check receives a container.
LEMMA HealthReceivesIInv ==
    ASSUME IInv, NEW w \in Workers, HealthReceives(w) PROVE IInv'
<1>1. PICK c \in Containers :
        /\ wbox[w] = c /\ c # None /\ WorkerHas(c) /\ ~HandlerHas(c) /\ hbox # c
        /\ wpc'[w] = "begin" /\ wbox'[w] = None
        /\ \A v \in Workers : v # w => wpc'[v] = wpc[v] /\ wbox'[v] = wbox[v]
        /\ \A v \in Workers : wbox[v] = c => v = w
        /\ wpc' \in [Workers -> {"begin", "starting", "offer", "sleep", "stuck"}]
        /\ wbox' \in [Workers -> Containers \union {None}]
        /\ ~WorkerHas(c)' /\ WorkerOK(w)'
        /\ box[c].st \in {"running", "ended", "waited"} /\ box[c].closer = "none"
        /\ ~box[c].cancelled /\ box[c].token # "out" /\ box[c].prog = "none"
      BY HandedOver DEF HealthReceives
<1>2. /\ hpc = "get" /\ hpc' = "closing" /\ hbox' = c
      /\ rpc' = rpc /\ rbox' = rbox /\ rctx' = rctx /\ gone' = gone /\ resp' = resp
      /\ runSem' = runSem /\ wanted' = wanted
      BY <1>1 DEF HealthReceives, handler
<1> DEFINE b == [box[c] EXCEPT !.closer = "close"]
<1>3. box' = [box EXCEPT ![c] = b]
      BY <1>1, About DEF HealthReceives
<1>4. /\ b \in Boxes /\ b.prog = box[c].prog
      /\ b.st = box[c].st /\ b.closer = "close"
      /\ b.cancelled = box[c].cancelled /\ b.token = box[c].token
      /\ b.err = box[c].err /\ b.lost = box[c].lost /\ b.inTime = box[c].inTime
  <2>1. box[c] \in Boxes
        BY About
  <2> QED
      BY <2>1 DEF Boxes
<1> HIDE DEF b
<1>5. TypeOK
      BY DEF IInv
<1>6. TypeOK'
      BY <1>1, <1>2, <1>3, <1>4, <1>5 DEF TypeOK
<1>7. box'[c] = b /\ \A e \in Containers : e # c => box'[e] = box[e]
      BY <1>3, About
<1>8. hbox = None
      BY <1>2 DEF IInv, HealthInv
<1>9. Touches({w}, {}, {c})
      BY <1>1, <1>2, <1>7, <1>8 DEF Touches, Moves
<1>10. HealthOK'
       BY <1>1, <1>2, <1>4, <1>7 DEF HealthOK, HealthInv
<1>11. \A v \in Workers : v \in {w} \/ wbox[v] \in {c} => WorkerOK(v)'
       BY <1>1
<1>12. \A q \in Requests : rbox[q] # c
       BY <1>1 DEF HandlerHas
<1>13. ~HandlerHas(c)' /\ ~HandlerHolds(c)'
       BY <1>2, <1>12 DEF HandlerHas, HandlerHolds
<1>14. BoxInv(b, c \in wanted, FALSE, FALSE, TRUE, FALSE)
  <2>1. BoxInv(box[c], c \in wanted, WorkerHas(c), HandlerHas(c), hbox = c,
               HandlerHolds(c))
        BY About
  <2> QED
      BY <1>1, <1>4, <2>1 DEF BoxInv
<1>15. BoxOK(c)'
       BY <1>1, <1>2, <1>7, <1>13, <1>14 DEF BoxOK, BoxInv
<1>16. OneUser(c)'
       BY <1>1, <1>13 DEF OneUser, WorkerHas, HandlerHas
<1>17. {w} \in SUBSET Workers /\ {} \in SUBSET Requests /\ {c} \in SUBSET Containers
       OBVIOUS
<1> QED
    BY <1>6, <1>9, <1>10, <1>11, <1>12, <1>15, <1>16, <1>17, Locality

\* The health check forgets its container, which is closed or will be.
LEMMA HealthLeavesIInv ==
    ASSUME IInv, HealthClosed \/ HealthCloseTimeout PROVE IInv'
<1>1. /\ hpc = "closing" /\ hpc' = "idle" /\ hbox' = None
      /\ wpc' = wpc /\ wbox' = wbox
      /\ rpc' = rpc /\ rbox' = rbox /\ rctx' = rctx /\ gone' = gone /\ resp' = resp
      /\ runSem' = runSem /\ wanted' = wanted
      BY DEF HealthClosed, HealthCloseTimeout, HealthLeaves, worker, handler
<1>2. PICK c \in Containers : hbox = c
      BY <1>1 DEF IInv, HealthInv, TypeOK
<1>3. c # None /\ ~WorkerHas(c) /\ ~HandlerHas(c)
      BY <1>2, About, Exclusive
<1>4. BoxInv(box[c], c \in wanted, WorkerHas(c), HandlerHas(c), hbox = c,
             HandlerHolds(c))
      BY About
<1>4a. box[c].closer # "none" /\ box[c].st # "free"
       BY <1>1, <1>2, <1>3, About DEF HealthInv
<1>5. PICK b \in Boxes :
        /\ box' = [box EXCEPT ![c] = b]
        /\ BoxInv(b, c \in wanted, FALSE, FALSE, FALSE, FALSE)
  <2>1. CASE HealthClosed
    <3>1. box' = [box EXCEPT ![c] = FreeBox] /\ box[c].closer = "closed"
          BY <2>1, <1>2 DEF HealthClosed
    <3>2. c \notin wanted
          BY <3>1, <1>4 DEF BoxInv
    <3>3. BoxInv(FreeBox, c \in wanted, FALSE, FALSE, FALSE, FALSE)
          BY <3>2 DEF BoxInv, FreeBox
    <3>4. FreeBox \in Boxes
          BY DEF FreeBox, Boxes
    <3> QED
        BY <3>1, <3>3, <3>4
  <2>2. CASE HealthCloseTimeout
    <3>1. box' = box /\ box[c].closer # "closed"
          BY <2>2, <1>2 DEF HealthCloseTimeout
    <3>2. ~HandlerHolds(c)
          BY <1>3 DEF HandlerHolds, HandlerHas
    <3>3. BoxInv(box[c], c \in wanted, FALSE, FALSE, FALSE, FALSE)
          BY <3>1, <3>2, <1>3, <1>4, <1>4a DEF BoxInv
    <3>4. box[c] \in Boxes /\ box = [box EXCEPT ![c] = box[c]]
          BY About
    <3> QED
        BY <3>1, <3>3, <3>4
  <2> QED
      BY <2>1, <2>2
<1>6. box'[c] = b /\ \A e \in Containers : e # c => box'[e] = box[e]
      BY <1>5, About
<1>7. TypeOK'
      BY <1>1, <1>5 DEF IInv, TypeOK
<1>8. Touches({}, {}, {c})
      BY <1>1, <1>2, <1>6 DEF Touches, Moves
<1>9. HealthOK'
      BY <1>1 DEF HealthOK, HealthInv
<1>10. /\ \A w \in Workers : wbox[w] # c
       /\ \A r \in Requests : rbox[r] # c
       BY <1>3 DEF WorkerHas, HandlerHas
<1>11. ~WorkerHas(c)' /\ ~HandlerHas(c)' /\ ~HandlerHolds(c)' /\ hbox' # c
       BY <1>1, <1>3, <1>10 DEF WorkerHas, HandlerHas, HandlerHolds
<1>12. BoxOK(c)'
       BY <1>1, <1>5, <1>6, <1>11 DEF BoxOK, BoxInv
<1>13. OneUser(c)'
       BY <1>11 DEF OneUser, WorkerHas, HandlerHas
<1>14. {} \in SUBSET Workers /\ {} \in SUBSET Requests /\ {c} \in SUBSET Containers
       OBVIOUS
<1> QED
    BY <1>7, <1>8, <1>9, <1>10, <1>12, <1>13, <1>14, Locality

\* The health check begins, or gives up before it has a container.
LEMMA HealthWaitsIInv ==
    ASSUME IInv, HealthBegins \/ HealthGetTimeout PROVE IInv'
<1>1. /\ hpc \in {"idle", "get"} /\ hpc' \in {"idle", "get"} /\ hbox' = hbox
      /\ box' = box /\ wanted' = wanted /\ wpc' = wpc /\ wbox' = wbox
      /\ rpc' = rpc /\ rbox' = rbox /\ rctx' = rctx /\ gone' = gone /\ resp' = resp
      /\ runSem' = runSem
      BY DEF HealthBegins, HealthGetTimeout, worker, handler
<1>2. TypeOK'
      BY <1>1 DEF IInv, TypeOK
<1>3. HealthOK'
      BY <1>1 DEF IInv, HealthOK, HealthInv
<1>4. Touches({}, {}, {})
      BY <1>1 DEF Touches, Moves
<1>5. {} \in SUBSET Workers /\ {} \in SUBSET Requests /\ {} \in SUBSET Containers
      OBVIOUS
<1> QED
    BY <1>2, <1>3, <1>4, <1>5, Locality

---------------------------------------------------------------------------
\* Every step keeps the invariant.
LEMMA NextIInv == IInv /\ SlotInv /\ [Next]_vars => IInv'
<1> SUFFICES ASSUME IInv, SlotInv, [Next]_vars PROVE IInv'
    OBVIOUS
<1>1. ASSUME NEW w \in Workers, WorkerStep(w) PROVE IInv'
      BY <1>1, WorkerIInv
<1>2. ASSUME NEW c \in Containers,
             Halts(c) \/ Ends(c) \/ WaitReturns(c) \/ CloserStep(c)
      PROVE  IInv'
      BY <1>2, HaltsIInv, EndsIInv, WaitReturnsIInv, CloserWakesIInv,
         CloserUnwantsIInv, CloserCancelsIInv, CloserTakesIInv, CloserPutsIInv DEF CloserStep
<1>3. ASSUME NEW r \in Requests, HandlerStep(r) PROVE IInv'
      BY <1>3, NoBoxIInv, KeepsBoxIInv, WaitsIInv, ReceivesIInv
         DEF HandlerStep, RunStep
<1>4. CASE HealthStep
      BY <1>4, HealthReceivesIInv, HealthLeavesIInv, HealthWaitsIInv DEF HealthStep
<1>5. CASE UNCHANGED vars
  <2>1. /\ box' = box /\ wanted' = wanted /\ wpc' = wpc /\ wbox' = wbox
        /\ runSem' = runSem /\ rpc' = rpc /\ rbox' = rbox /\ rctx' = rctx
        /\ gone' = gone /\ resp' = resp /\ hpc' = hpc /\ hbox' = hbox
        BY <1>5 DEF vars, worker, handler, health
  <2>2. TypeOK' /\ HealthOK'
        BY <2>1 DEF IInv, TypeOK, HealthOK
  <2>3. Touches({}, {}, {})
        BY <2>1 DEF Touches, Moves
  <2>4. {} \in SUBSET Workers /\ {} \in SUBSET Requests /\ {} \in SUBSET Containers
        OBVIOUS
  <2> QED
      BY <2>2, <2>3, <2>4, Locality
<1> QED
    BY <1>1, <1>2, <1>3, <1>4, <1>5 DEF Next

\* So it always holds.
LEMMA AlwaysIInv == Spec => []IInv
  BY InitIInv, NextIInv, AlwaysSlotInv, PTL DEF Spec

---------------------------------------------------------------------------
(* What the invariant implies.                                             *)

\* No variable leaves its type: in particular runSem never goes below zero and
\* no container's state is one that the code does not have.
THEOREM TypeCorrect == Spec => []TypeOK
<1>1. IInv => TypeOK
      BY DEF IInv
<1> QED
    BY <1>1, AlwaysIInv, PTL

\* A container belongs to one worker, handler or health check at a time, and is
\* offered before anything has stopped it or waited for it.
THEOREM AlwaysUsedOnce == Spec => []UsedOnce
<1>1. ASSUME IInv PROVE UsedOnce
  <2> SUFFICES ASSUME NEW c \in Containers
               PROVE  /\ \A u, v \in Users(c) : u = v
                      /\ \A w \in Workers : wbox[w] = c => box[c].closer = "none"
                                                           /\ ~box[c].cancelled
                                                           /\ box[c].token # "out"
      BY DEF UsedOnce
  <2> USE <1>1
  <2>1. \A w \in Workers : wbox[w] = c => box[c].closer = "none"
                                         /\ ~box[c].cancelled
                                         /\ box[c].token # "out"
        BY About DEF WorkerInv
  <2>2. OneUser(c)
        BY About
  <2>3. CASE WorkerHas(c)
    <3>1. ~HandlerHas(c) /\ hbox # c
          BY <2>3, Exclusive
    <3> QED
        BY <3>1, <2>1, <2>2 DEF Users, OneUser, HandlerHas
  <2>4. CASE HandlerHas(c)
    <3>1. ~WorkerHas(c) /\ hbox # c
          BY <2>4, Exclusive
    <3> QED
        BY <3>1, <2>1, <2>2 DEF Users, OneUser, WorkerHas
  <2>5. CASE ~WorkerHas(c) /\ ~HandlerHas(c)
        BY <2>5, <2>1 DEF Users, WorkerHas, HandlerHas
  <2> QED
      BY <2>3, <2>4, <2>5
<1> QED
    BY <1>1, AlwaysIInv, PTL

\* waitErr's one error is never lost nor doubled, so that neither c.Close() nor
\* c.Wait() blocks when it puts the error back.
THEOREM AlwaysOneError == Spec => []OneError
<1>1. ASSUME IInv PROVE OneError
  <2> SUFFICES ASSUME NEW c \in Containers
               PROVE  /\ box[c].token = "none" <=> box[c].st # "waited"
                      /\ box[c].token = "out" => \E h \in HasErr(c) : HasErr(c) = {h}
                      /\ box[c].token # "out" => HasErr(c) = {}
      BY DEF OneError
  <2> USE <1>1
  <2>1. BoxInv(box[c], c \in wanted, WorkerHas(c), HandlerHas(c), hbox = c,
               HandlerHolds(c))
        BY About
  <2>2. ASSUME NEW r \in Requests, rbox[r] = c, rpc[r] = "putback"
        PROVE  box[c].token = "out" /\ box[c].closer # "putback"
        BY <2>2, About DEF HandlerInv
  <2>3. \A r, q \in Requests : rbox[r] = c /\ rbox[q] = c => r = q
        BY About DEF OneUser
  <2>4. CASE box[c].closer = "putback"
    <3>1. HasErr(c) = {"closer"}
          BY <2>2, <2>4 DEF HasErr
    <3> QED
        BY <2>1, <2>4, <3>1 DEF BoxInv
  <2>5. CASE box[c].closer # "putback" /\ HandlerHolds(c)
    <3>1. PICK r \in Requests : rbox[r] = c /\ rpc[r] = "putback"
          BY <2>5 DEF HandlerHolds
    <3>2. HasErr(c) = {r}
          BY <2>3, <2>5, <3>1 DEF HasErr
    <3> QED
        BY <2>1, <2>2, <3>1, <3>2 DEF BoxInv
  <2>6. CASE box[c].closer # "putback" /\ ~HandlerHolds(c)
    <3>1. HasErr(c) = {}
          BY <2>6 DEF HasErr, HandlerHolds
    <3> QED
        BY <2>1, <2>6, <3>1 DEF BoxInv
  <2> QED
      BY <2>4, <2>5, <2>6
<1> QED
    BY <1>1, AlwaysIInv, PTL

\* Whatever runs has somebody who will close it, is wanted exactly until that one
\* begins to, and is not cancelled while it is.
THEOREM AlwaysNoOrphan == Spec => []NoOrphan
<1>1. ASSUME IInv PROVE NoOrphan
  <2> SUFFICES ASSUME NEW c \in Containers, box[c].st \in {"running", "ended"}
               PROVE  /\ box[c].closer = "none" => \E w \in Workers : wbox[w] = c
                      /\ box[c].closer = "await" => \E r \in Requests : rbox[r] = c
                      /\ box[c].closer # "closed"
                      /\ c \in wanted <=>
                           box[c].closer \in {"none", "await", "close"}
                      /\ box[c].cancelled => c \notin wanted
      BY DEF NoOrphan
  <2>1. BoxInv(box[c], c \in wanted, WorkerHas(c), HandlerHas(c), hbox = c,
               HandlerHolds(c))
        BY <1>1, About
  <2> QED
      BY <2>1 DEF BoxInv, WorkerHas, HandlerHas
<1> QED
    BY <1>1, AlwaysIInv, PTL

\* What is answered as a program's output is all that was written by a container
\* that had the whole program and that the server had not told to stop when it
\* ended; what stopped the program, if anything, was the container itself.
THEOREM AlwaysGenuine == Spec => []OutputIsGenuine
<1>1. ASSUME IInv PROVE OutputIsGenuine
  <2> SUFFICES ASSUME NEW r \in Requests, resp[r] = "output", rbox[r] # None
               PROVE  Genuine(box[rbox[r]])
      BY DEF OutputIsGenuine, Genuine
  <2>1. HandlerInv(rpc[r], rbox[r], rctx[r], resp[r], box[rbox[r]])
        BY <1>1, AboutHandler
  <2> QED
      BY <2>1 DEF HandlerInv
<1> QED
    BY <1>1, AlwaysIInv, PTL

\* No more than numWorkers containers have a program at a time: a handler that
\* has a container has a slot.
THEOREM AlwaysAtMostN == Spec => []AtMostNPrograms
<1>1. ASSUME IInv, SlotInv PROVE AtMostNPrograms
  <2> DEFINE Taken == {c \in Containers : HandlerHas(c)}
             Takers == {r \in Requests : rbox[r] # None}
             f == [r \in Takers |-> rbox[r]]
             RunIn == {c \in Containers : box[c].st # "free"
                         /\ \E r \in Requests : rbox[r] = c}
  <2>1. Takers \subseteq Holders
    <3>1. ASSUME NEW r \in Requests, rbox[r] # None PROVE r \in Holders
          BY <1>1, <3>1, AboutHandler DEF HandlerInv, Using, Holders
    <3> QED
        BY <3>1
  <2>2. IsFiniteSet(Takers) /\ Cardinality(Takers) <= Cardinality(Holders)
        BY <2>1, FS_Subset, SlotNumbers
  <2>3. f \in Surjection(Takers, Taken)
    <3>1. f \in [Takers -> Taken]
      <4>1. ASSUME NEW r \in Takers PROVE rbox[r] \in Taken
            BY <1>1, AboutHandler DEF HandlerHas
      <4> QED
          BY <4>1
    <3>2. ASSUME NEW c \in Taken PROVE \E r \in Takers : f[r] = c
      <4>1. PICK r \in Requests : rbox[r] = c
            BY DEF HandlerHas
      <4>2. c # None
            BY PoolAssumption
      <4> QED
          BY <4>1, <4>2
    <3> QED
        BY <3>1, <3>2 DEF Surjection
  <2>4. IsFiniteSet(Taken) /\ Cardinality(Taken) <= Cardinality(Takers)
        BY <2>2, <2>3, FS_Surjection
  <2>5. RunIn \in SUBSET Taken
        BY DEF HandlerHas
  <2>6. IsFiniteSet(RunIn) /\ Cardinality(RunIn) <= Cardinality(Taken)
        BY <2>4, <2>5, FS_Subset
  <2>7. Cardinality(RunIn) \in Nat /\ Cardinality(Taken) \in Nat
          /\ Cardinality(Takers) \in Nat
        BY <2>2, <2>4, <2>6, FS_CardinalityType
  <2>8. Cardinality(Holders) <= N
        BY <1>1 DEF SlotInv, SlotsCounted
  <2> HIDE DEF Taken, Takers, f, RunIn
  <2>9. Cardinality(RunIn) <= N
        BY <2>2, <2>4, <2>6, <2>7, <2>8, SlotNumbers
  <2> QED
      BY <2>9 DEF AtMostNPrograms, RunIn
<1> QED
    BY <1>1, AlwaysIInv, AlwaysSlotInv, PTL

---------------------------------------------------------------------------
(* What RunService sees of a step.                                         *)

\* The possible fates of a program.
LEMMA Fates ==
    \A b : Fate(b) \in {"running", "stopped", "cut", "broken", "halted", "ended"}
  BY DEF Fate

\* Only what RunService has of connection r may change.
Only(r) ==
    \A q \in Requests \ {r} :
        rpc'[q] = rpc[q] /\ rctx'[q] = rctx[q] /\ ProgramOf(q)' = ProgramOf(q)

\* Then its sets and functions change at r alone.
LEMMA AtOne ==
    ASSUME NEW r \in Requests, Only(r)
    PROVE  /\ Programs' = [Programs EXCEPT ![r] = ProgramOf(r)']
           /\ Programs[r] = ProgramOf(r)
           /\ r \in Busy <=> rpc[r] # "idle"
           /\ r \in Late <=> rctx[r] = "deadline"
           /\ r \in Settled <=> rpc[r] \in {"finish", "respond"}
           /\ Busy' = IF rpc'[r] = "idle" THEN Busy \ {r} ELSE Busy \union {r}
           /\ Late' = IF rctx'[r] = "deadline" THEN Late \union {r}
                                               ELSE Late \ {r}
           /\ Settled' = IF rpc'[r] \in {"finish", "respond"}
                           THEN Settled \union {r} ELSE Settled \ {r}
<1>1. Programs' = [Programs EXCEPT ![r] = ProgramOf(r)']
  <2>1. \A q \in Requests :
          ProgramOf(q)' = IF q = r THEN ProgramOf(r)' ELSE ProgramOf(q)
        BY DEF Only
  <2>2. Programs' = [q \in Requests |-> ProgramOf(q)']
        BY DEF Programs
  <2>3. Programs = [q \in Requests |-> ProgramOf(q)]
        BY DEF Programs
  <2> HIDE DEF Programs
  <2> QED
      BY <2>1, <2>2, <2>3
<1>2. Programs[r] = ProgramOf(r)
      BY DEF Programs
<1>3. Busy' = IF rpc'[r] = "idle" THEN Busy \ {r} ELSE Busy \union {r}
  <2>1. \A q \in Requests : q # r => rpc'[q] = rpc[q]
        BY DEF Only
  <2> QED
      BY <2>1 DEF Busy
<1>4. Late' = IF rctx'[r] = "deadline" THEN Late \union {r} ELSE Late \ {r}
  <2>1. \A q \in Requests : q # r => rctx'[q] = rctx[q]
        BY DEF Only
  <2> QED
      BY <2>1 DEF Late
<1>5. Settled' = IF rpc'[r] \in {"finish", "respond"}
                   THEN Settled \union {r} ELSE Settled \ {r}
  <2>1. \A q \in Requests : q # r => rpc'[q] = rpc[q]
        BY DEF Only
  <2> QED
      BY <2>1 DEF Settled
<1> QED
    BY <1>1, <1>2, <1>3, <1>4, <1>5 DEF Busy, Late, Settled

\* A step that leaves r busy or idle, late or not, settled or not, leaves the sets
\* alone.
LEMMA SameSets ==
    ASSUME NEW r \in Requests, Only(r)
    PROVE  /\ (rpc'[r] = "idle" <=> rpc[r] = "idle") => Busy' = Busy
           /\ (rctx'[r] = "deadline" <=> rctx[r] = "deadline") => Late' = Late
           /\ (rpc'[r] \in {"finish", "respond"} <=> rpc[r] \in {"finish", "respond"})
                => Settled' = Settled
           /\ ProgramOf(r)' = ProgramOf(r) => Programs' = Programs
<1>1. ASSUME ProgramOf(r)' = ProgramOf(r) PROVE Programs' = Programs
  <2>1. \A q \in Requests : ProgramOf(q)' = ProgramOf(q)
        BY <1>1 DEF Only
  <2>2. Programs' = [q \in Requests |-> ProgramOf(q)']
        BY DEF Programs
  <2>3. Programs = [q \in Requests |-> ProgramOf(q)]
        BY DEF Programs
  <2> HIDE DEF Programs
  <2> QED
      BY <2>1, <2>2, <2>3
<1> QED
    BY <1>1, AtOne

\* A step in which no handler moves, and no program's fate is decided, is not
\* seen.
LEMMA Unseen ==
    ASSUME IInv, UNCHANGED handler,
           \A c \in Containers : HandlerHas(c) => Fate(box'[c]) = Fate(box[c])
    PROVE  UNCHANGED Service!vars
<1>1. rpc' = rpc /\ rbox' = rbox /\ rctx' = rctx /\ resp' = resp
      BY DEF handler
<1>2. ASSUME NEW r \in Requests PROVE ProgramOf(r)' = ProgramOf(r)
  <2>1. CASE rbox[r] = None
        BY <1>1, <2>1 DEF ProgramOf
  <2>2. CASE rbox[r] # None
    <3>1. rbox[r] \in Containers
          BY <2>2, AboutHandler
    <3>2. Fate(box'[rbox[r]]) = Fate(box[rbox[r]])
          BY <3>1 DEF HandlerHas
    <3>3. ProgramOf(r) = Fate(box[rbox[r]])
          BY <2>2 DEF ProgramOf
    <3>4. ProgramOf(r)' = Fate(box'[rbox[r]])
          BY <1>1, <2>2 DEF ProgramOf, Fate
    <3> QED
        BY <3>2, <3>3, <3>4
  <2> QED
      BY <2>1, <2>2
<1>3. Programs' = Programs
      BY <1>2 DEF Programs
<1>4. Busy' = Busy /\ Late' = Late /\ Settled' = Settled
      BY <1>1 DEF Busy, Late, Settled
<1> QED
    BY <1>1, <1>3, <1>4 DEF Service!vars

\* When a handler is all that moves, and the state of its container all that
\* changes, the programs of the others are as they were.
LEMMA OthersKeep ==
    ASSUME IInv, NEW r \in Requests, NEW C \in SUBSET Containers,
           \A d \in Containers \ C : box'[d] = box[d],
           \A q \in Requests \ {r} :
             /\ rpc'[q] = rpc[q] /\ rctx'[q] = rctx[q] /\ rbox'[q] = rbox[q]
             /\ rbox[q] \notin C
    PROVE  Only(r)
<1> SUFFICES ASSUME NEW q \in Requests \ {r} PROVE ProgramOf(q)' = ProgramOf(q)
    BY DEF Only
<1>1. rbox'[q] = rbox[q]
      OBVIOUS
<1>2. CASE rbox[q] = None
      BY <1>1, <1>2 DEF ProgramOf
<1>3. CASE rbox[q] # None
  <2>1. rbox[q] \in Containers \ C
        BY <1>3, AboutHandler
  <2>2. box'[rbox[q]] = box[rbox[q]]
        BY <2>1
  <2> QED
      BY <1>1, <1>3, <2>2 DEF ProgramOf, Fate
<1> QED
    BY <1>2, <1>3

\* A handler moves, and neither its container nor any other.
LEMMA Alone ==
    ASSUME IInv, NEW r \in Requests, NEW pc, NEW ctx,
           rpc' = [rpc EXCEPT ![r] = pc], rctx' = [rctx EXCEPT ![r] = ctx],
           box' = box, rbox' = rbox
    PROVE  /\ Only(r) /\ rpc'[r] = pc /\ rctx'[r] = ctx
           /\ ProgramOf(r)' = ProgramOf(r) /\ Programs' = Programs
<1>1. /\ rpc'[r] = pc /\ rctx'[r] = ctx
      /\ \A q \in Requests \ {r} : rpc'[q] = rpc[q] /\ rctx'[q] = rctx[q]
      BY AboutHandler
<1>2. \A q \in Requests : ProgramOf(q)' = ProgramOf(q)
      BY DEF ProgramOf, Fate
<1>3. Only(r)
      BY <1>1, <1>2 DEF Only
<1> QED
    BY <1>1, <1>2, <1>3, SameSets

---------------------------------------------------------------------------
(* The steps that RunService does not see, and the ends of programs.       *)

\* A container that no handler has may change as it likes.
LEMMA Elsewhere ==
    ASSUME IInv, UNCHANGED handler, NEW c \in Containers, ~HandlerHas(c),
           \A d \in Containers : d # c => box'[d] = box[d]
    PROVE  UNCHANGED Service!vars
<1>1. ASSUME NEW d \in Containers, HandlerHas(d) PROVE Fate(box'[d]) = Fate(box[d])
  <2>1. box'[d] = box[d]
        BY <1>1
  <2> QED
      BY <2>1
<1> QED
    BY <1>1, Unseen

\* When no handler moves and no container changes, there is nothing to see.
LEMMA Nothing ==
    ASSUME IInv, UNCHANGED handler, box' = box PROVE UNCHANGED Service!vars
  BY Unseen

\* Workers have containers that no handler has.
LEMMA WorkerUnseen ==
    ASSUME IInv, NEW w \in Workers, WorkerStep(w) PROVE UNCHANGED Service!vars
<1>0. UNCHANGED handler
      BY DEF WorkerStep, Begin, StartOK, ExecFails, StartHangs, SleepOver
<1>1. CASE Begin(w)
  <2>1. PICK c \in Containers :
          box[c].st = "free" /\ box' = [box EXCEPT ![c].st = "made"]
        BY <1>1 DEF Begin
  <2>2. ~HandlerHas(c)
        BY <2>1, Exclusive
  <2>3. \A d \in Containers : d # c => box'[d] = box[d]
        BY <2>1, About
  <2> QED
      BY <1>0, <2>2, <2>3, Elsewhere
<1>2. CASE StartOK(w) \/ ExecFails(w)
  <2>1. wpc[w] = "starting"
        BY <1>2 DEF StartOK, ExecFails, WorkerAt
  <2>2. PICK c \in Containers : wbox[w] = c
        BY <2>1 DEF IInv, WorkerInv, TypeOK
  <2>3. ~HandlerHas(c)
        BY <2>2, Exclusive DEF WorkerHas
  <2>4. \A d \in Containers : d # c => box'[d] = box[d]
        BY <1>2, <2>2, About DEF StartOK, ExecFails
  <2> QED
      BY <1>0, <2>3, <2>4, Elsewhere
<1>3. CASE StartHangs(w) \/ SleepOver(w)
      BY <1>0, <1>3, Nothing DEF StartHangs, SleepOver
<1> QED
    BY <1>1, <1>2, <1>3 DEF WorkerStep

\* Neither does a handler have the container of the health check.
LEMMA HealthUnseen == ASSUME IInv, HealthStep PROVE UNCHANGED Service!vars
<1>0. UNCHANGED handler
      BY DEF HealthStep, HealthBegins, HealthReceives, HealthGetTimeout,
         HealthClosed, HealthCloseTimeout
<1>1. ASSUME NEW w \in Workers, HealthReceives(w) PROVE UNCHANGED Service!vars
  <2>1. PICK c \in Containers : wbox[w] = c /\ ~HandlerHas(c)
        BY <1>1, HandedOver DEF HealthReceives
  <2>2. \A d \in Containers : d # c => box'[d] = box[d]
        BY <1>1, <2>1, About DEF HealthReceives
  <2> QED
      BY <1>0, <2>1, <2>2, Elsewhere
<1>2. CASE HealthClosed
  <2>1. hpc = "closing" /\ box' = [box EXCEPT ![hbox] = FreeBox]
        BY <1>2 DEF HealthClosed, HealthLeaves
  <2>2. PICK c \in Containers : hbox = c
        BY <2>1 DEF IInv, HealthInv, TypeOK
  <2>3. ~HandlerHas(c)
        BY <2>2, Exclusive
  <2>4. \A d \in Containers : d # c => box'[d] = box[d]
        BY <2>1, <2>2, About
  <2> QED
      BY <1>0, <2>3, <2>4, Elsewhere
<1>3. CASE HealthBegins \/ HealthGetTimeout \/ HealthCloseTimeout
      BY <1>0, <1>3, Nothing DEF HealthBegins, HealthGetTimeout, HealthCloseTimeout
<1> QED
    BY <1>1, <1>2, <1>3 DEF HealthStep

\* Fate looks at five fields, and does not tell "ended" from "waited".
LEMMA SameFate ==
    ASSUME NEW a, NEW b, a.st = "running" <=> b.st = "running",
           a.inTime = b.inTime, a.lost = b.lost, a.err = b.err, a.prog = b.prog
    PROVE  Fate(a) = Fate(b)
  BY DEF Fate

\* Waiting for a container and closing it decide no fate: a program is stopped
\* when it ends, not when it is cancelled.
LEMMA ClosingUnseen ==
    ASSUME IInv, NEW c \in Containers, WaitReturns(c) \/ CloserStep(c)
    PROVE  UNCHANGED Service!vars
<1>0. UNCHANGED handler
      BY DEF WaitReturns, CloserStep, CloserWakes, CloserUnwants, CloserCancels,
         CloserTakes, CloserPuts
<1>1. box \in [Containers -> Boxes] /\ box[c] \in Boxes
      BY About
<1>2. \A d \in Containers : d # c => box'[d] = box[d]
      BY <1>1 DEF WaitReturns, CloserStep, CloserWakes, CloserUnwants,
         CloserCancels, CloserTakes, CloserPuts
<1>3. CASE ~HandlerHas(c)
      BY <1>0, <1>2, <1>3, Elsewhere
<1>4. CASE HandlerHas(c)
  <2>1. /\ box'[c].st = "running" <=> box[c].st = "running"
        /\ box'[c].inTime = box[c].inTime
        /\ box'[c].lost = box[c].lost /\ box'[c].err = box[c].err
        /\ box'[c].prog = box[c].prog
    <3>1. CASE WaitReturns(c)
      <4>1. box[c].st = "ended"
            BY <3>1 DEF WaitReturns
      <4>2. box'[c] = [box[c] EXCEPT !.st = "waited", !.token = "in"]
            BY <1>1, <3>1 DEF WaitReturns
      <4> QED
          BY <1>1, <4>1, <4>2 DEF Boxes
    <3>2. CASE CloserWakes(c)
      <4>1. box'[c] = [box[c] EXCEPT !.closer = "close"]
            BY <1>1, <3>2 DEF CloserWakes
      <4> QED
          BY <1>1, <4>1 DEF Boxes
    <3>3. CASE CloserCancels(c)
      <4>1. box'[c] = [box[c] EXCEPT !.cancelled = TRUE, !.closer = "wait"]
            BY <1>1, <3>3 DEF CloserCancels
      <4> QED
          BY <1>1, <4>1 DEF Boxes
    <3>4. CASE CloserTakes(c)
      <4>1. box'[c] = [box[c] EXCEPT !.token = "out", !.closer = "putback"]
            BY <1>1, <3>4 DEF CloserTakes
      <4> QED
          BY <1>1, <4>1 DEF Boxes
    <3>5. CASE CloserPuts(c)
      <4>1. box'[c] = [box[c] EXCEPT !.token = "in", !.closer = "closed"]
            BY <1>1, <1>4, <3>5 DEF CloserPuts, HandlerHas
      <4> QED
          BY <1>1, <4>1 DEF Boxes
    <3>6. CASE CloserUnwants(c)
      <4>1. box'[c] = [box[c] EXCEPT !.closer = "cancel"]
            BY <1>1, <3>6 DEF CloserUnwants
      <4> QED
          BY <1>1, <4>1 DEF Boxes
    <3> QED
        BY <3>1, <3>2, <3>3, <3>4, <3>5, <3>6 DEF CloserStep
  <2>2. Fate(box'[c]) = Fate(box[c])
        BY <2>1, SameFate
  <2>3. \A d \in Containers : Fate(box'[d]) = Fate(box[d])
    <3>1. ASSUME NEW d \in Containers, d # c PROVE Fate(box'[d]) = Fate(box[d])
      <4>1. box'[d] = box[d]
            BY <1>2, <3>1
      <4> QED
          BY <4>1
    <3> QED
        BY <2>2, <3>1
  <2> QED
      BY <1>0, <2>3, Unseen
<1> QED
    BY <1>3, <1>4

\* Nor does a program that its container stops end before its container does.
LEMMA HaltsUnseen ==
    ASSUME IInv, NEW c \in Containers, Halts(c) PROVE UNCHANGED Service!vars
<1>0. /\ UNCHANGED handler /\ box[c].st = "running"
      /\ box' = [box EXCEPT ![c].prog = "halted"]
      BY DEF Halts
<1>1. box \in [Containers -> Boxes] /\ box[c] \in Boxes
      BY About
<1>2. box'[c].st = "running"
      BY <1>0, <1>1 DEF Boxes
<1>3. \A d \in Containers : d # c => box'[d] = box[d]
      BY <1>0, <1>1
<1>4. ASSUME NEW d \in Containers PROVE Fate(box'[d]) = Fate(box[d])
  <2>1. CASE d = c
        BY <1>0, <1>2, <2>1 DEF Fate
  <2>2. CASE d # c
    <3>1. box'[d] = box[d]
          BY <1>3, <2>2
    <3> QED
        BY <3>1
  <2> QED
      BY <2>1, <2>2
<1> QED
    BY <1>0, <1>4, Unseen

\* A container that runs is stopped only when its handler's time is over.
LEMMA StoppedIsLate ==
    ASSUME IInv, NEW r \in Requests, NEW c \in Containers, rbox[r] = c,
           box[c].st = "running", box[c].cancelled
    PROVE  rctx[r] = "deadline"
<1>1. HandlerInv(rpc[r], c, rctx[r], resp[r], box[c])
      BY About
<1>2. BoxInv(box[c], c \in wanted, WorkerHas(c), HandlerHas(c), hbox = c,
             HandlerHolds(c))
      BY About
<1>3. rctx[r] # "live"
      BY <1>1, <1>2, About DEF HandlerInv, BoxInv
<1>4. rpc[r] \in {"write", "wait", "putback", "check"}
      BY <1>1, About DEF HandlerInv, Using
<1>5. rctx[r] # "canceled"
      BY <1>1, <1>4, About DEF HandlerInv
<1> QED
    BY <1>3, <1>5, AboutHandler

\* A container's process ends: its program does, if it has one.
LEMMA EndsRefines ==
    ASSUME IInv, NEW c \in Containers, Ends(c)
    PROVE  [Service!Next]_Service!vars
<1>0. UNCHANGED handler /\ box[c].st = "running"
      BY DEF Ends
<1>1. box \in [Containers -> Boxes] /\ box[c] \in Boxes /\ c # None
      BY About
<1>2. \A d \in Containers : d # c => box'[d] = box[d]
      BY <1>1 DEF Ends
<1>3. CASE ~HandlerHas(c)
      BY <1>0, <1>2, <1>3, Elsewhere
<1>4. ASSUME NEW r \in Requests, rbox[r] = c PROVE Service!End(r)
  <2>1. rpc' = rpc /\ rbox' = rbox /\ rctx' = rctx /\ resp' = resp
        BY <1>0 DEF handler
  <2>2. \A q \in Requests \ {r} : rbox[q] # c
        BY <1>4, About DEF OneUser
  <2>3. Only(r)
    <3>1. \A d \in Containers \ {c} : box'[d] = box[d]
          BY <1>2
    <3>2. {c} \in SUBSET Containers
          OBVIOUS
    <3> QED
        BY <2>1, <2>2, <3>1, <3>2, OthersKeep
  <2>4. Programs[r] = "running"
        BY <1>0, <1>1, <1>4, <2>3, AtOne DEF ProgramOf, Fate
  <2>5. box'[c].st = "ended" /\ box'[c].inTime = ~box[c].cancelled
    <3>1. PICK e \in Endings(box[c]) :
            box'[c] = [box[c] EXCEPT !.st = "ended", !.err = e.err, !.lost = e.lost,
                                     !.inTime = ~box[c].cancelled]
          BY <1>1 DEF Ends
    <3> QED
        BY <1>1, <3>1 DEF Boxes
  <2>6. ProgramOf(r)' = Fate(box'[c])
        BY <1>1, <1>4, <2>1 DEF ProgramOf, Fate
  <2>7. /\ Fate(box'[c]) \in {"stopped", "cut", "broken", "halted", "ended"}
        /\ Fate(box'[c]) = "stopped" => box[c].cancelled
        BY <2>5 DEF Fate
  <2>8. Fate(box'[c]) = "stopped" => r \in Late
        BY <1>0, <1>4, <2>3, <2>7, StoppedIsLate, AtOne
  <2>9. Programs' = [Programs EXCEPT ![r] = Fate(box'[c])]
        BY <2>3, <2>6, AtOne
  <2>10. Busy' = Busy /\ Late' = Late /\ Settled' = Settled
        BY <2>1 DEF Busy, Late, Settled
  <2> QED
      BY <2>1, <2>4, <2>7, <2>8, <2>9, <2>10 DEF Service!End, Service!OwnEnds
<1> QED
    BY <1>3, <1>4 DEF HandlerHas, Service!Next

---------------------------------------------------------------------------
(* The steps of a handler.                                                 *)

\* A handler at pc has a program exactly when it has a container.
LEMMA AboutProgram ==
    ASSUME IInv, NEW r \in Requests
    PROVE  /\ ProgramOf(r) = "none" <=> rbox[r] = None
           /\ rbox[r] = None <=> rpc[r] \notin Using
           /\ rpc[r] \in {"check", "finish", "respond", "cancel", "join"} =>
                ProgramOf(r) \notin {"none", "running"}
<1>1. HandlerInv(rpc[r], rbox[r], rctx[r], resp[r], box[rbox[r]])
      BY AboutHandler
<1>2. ProgramOf(r) = "none" <=> rbox[r] = None
      BY Fates DEF ProgramOf
<1>3. rbox[r] = None <=> rpc[r] \notin Using
      BY <1>1 DEF HandlerInv
<1>4. ASSUME rpc[r] \in {"check", "finish", "respond", "cancel", "join"}
      PROVE  ProgramOf(r) \notin {"none", "running"}
  <2>1. rbox[r] # None
        BY <1>3, <1>4 DEF Using
  <2>2. box[rbox[r]].st # "running"
        BY <1>1, <1>4, <2>1 DEF HandlerInv
  <2> QED
      BY <2>1, <2>2 DEF ProgramOf, Fate
<1> QED
    BY <1>2, <1>3, <1>4

\* Waiting, reading and cancelling are not seen.
LEMMA PausesUnseen ==
    ASSUME IInv, NEW r \in Requests,
           \/ ClientLeaves(r) \/ AcquiresSlot(r) \/ ReadsBody(r)
           \/ GivesUpContainer(r) \/ ClosesEarly(r) \/ Cancels(r)
    PROVE  UNCHANGED Service!vars
<1>1. box' = box /\ rbox' = rbox /\ resp' = resp
      BY DEF ClientLeaves, AcquiresSlot, ReadsBody, GivesUpContainer, ClosesEarly,
         Cancels
<1>2. PICK pc \in HandlerPcs :
        /\ rpc' = [rpc EXCEPT ![r] = pc]
        /\ pc = "idle" <=> rpc[r] = "idle"
        /\ pc \in {"finish", "respond"} <=> rpc[r] \in {"finish", "respond"}
  <2>1. CASE ClientLeaves(r)
    <3>1. rpc' = rpc /\ rpc[r] \in HandlerPcs
          BY <2>1, AboutHandler DEF ClientLeaves
    <3> QED
        BY <3>1, AboutHandler
  <2>2. CASE ~ClientLeaves(r)
        BY <2>2 DEF AcquiresSlot, ReadsBody, GivesUpContainer, ClosesEarly, Cancels,
           HandlerAt, HandlerPcs
  <2> QED
      BY <2>1, <2>2
<1>3. PICK ctx : /\ rctx' = [rctx EXCEPT ![r] = ctx]
                 /\ ctx = "deadline" <=> rctx[r] = "deadline"
  <2>1. CASE ClosesEarly(r) \/ Cancels(r)
        BY <2>1 DEF ClosesEarly, Cancels, CancelCtx
  <2>2. CASE ~(ClosesEarly(r) \/ Cancels(r))
    <3>1. rctx' = rctx
          BY <2>2 DEF ClientLeaves, AcquiresSlot, ReadsBody, GivesUpContainer
    <3> QED
        BY <3>1, AboutHandler
  <2> QED
      BY <2>1, <2>2
<1>4. /\ Only(r) /\ rpc'[r] = pc /\ rctx'[r] = ctx /\ Programs' = Programs
      BY <1>1, <1>2, <1>3, Alone
<1>5. Busy' = Busy /\ Late' = Late /\ Settled' = Settled
      BY <1>2, <1>3, <1>4, SameSets
<1> QED
    BY <1>1, <1>4, <1>5 DEF Service!vars

\* Nor are giving the program to its container, and a handler's half of c.Wait().
LEMMA TokenUnseen ==
    ASSUME IInv, NEW r \in Requests, WritesStdin(r) \/ TakesErr(r) \/ PutsErr(r)
    PROVE  UNCHANGED Service!vars
<1>1. /\ rbox' = rbox /\ rctx' = rctx /\ resp' = resp
      /\ rpc[r] \in {"write", "wait", "putback"}
      /\ \E pc \in {"wait", "putback", "check"} : rpc' = [rpc EXCEPT ![r] = pc]
      BY DEF WritesStdin, TakesErr, PutsErr, HandlerAt
<1>2. PICK c \in Containers : rbox[r] = c
      BY <1>1, AboutProgram, AboutHandler DEF Using
<1>3. box \in [Containers -> Boxes] /\ box[c] \in Boxes /\ c # None
      BY About
<1>5. \A d \in Containers \ {c} : box'[d] = box[d]
      BY <1>2, <1>3 DEF WritesStdin, TakesErr, PutsErr
<1>6. Fate(box'[c]) = Fate(box[c])
  <2>1. CASE TakesErr(r) \/ PutsErr(r)
    <3>1. PICK token \in {"in", "out"} : box' = [box EXCEPT ![c].token = token]
          BY <1>2, <2>1 DEF TakesErr, PutsErr
    <3>2. box'[c] = [box[c] EXCEPT !.token = token]
          BY <1>3, <3>1
    <3> QED
        BY <1>3, <3>2, SameFate DEF Boxes
  <2>2. CASE WritesStdin(r)
    <3>1. box[c].st = "running" /\ box' = [box EXCEPT ![c].prog = "given"]
          BY <1>2, <2>2 DEF WritesStdin
    <3>2. box'[c].st = "running"
          BY <1>3, <3>1 DEF Boxes
    <3> QED
        BY <3>1, <3>2 DEF Fate
  <2> QED
      BY <2>1, <2>2
<1>7. \A q \in Requests \ {r} : rpc'[q] = rpc[q] /\ rbox[q] # c
  <2>1. \A q \in Requests \ {r} : rbox[q] # c
        BY <1>2, About DEF OneUser
  <2> QED
      BY <1>1, <2>1, AboutHandler
<1>8. Only(r)
  <2>1. {c} \in SUBSET Containers
        OBVIOUS
  <2> QED
      BY <1>1, <1>5, <1>7, <2>1, OthersKeep
<1>9. ProgramOf(r)' = ProgramOf(r)
  <2>1. ProgramOf(r)' = Fate(box'[c]) /\ ProgramOf(r) = Fate(box[c])
        BY <1>1, <1>2, <1>3 DEF ProgramOf, Fate
  <2> QED
      BY <2>1, <1>6
<1>10. /\ rpc'[r] \notin {"idle", "finish", "respond"}
       /\ rpc[r] \notin {"idle", "finish", "respond"}
      BY <1>1, AboutHandler
<1>11. /\ Busy' = Busy /\ Late' = Late /\ Settled' = Settled
       /\ Programs' = Programs
      BY <1>1, <1>8, <1>9, <1>10, SameSets
<1> QED
    BY <1>1, <1>11 DEF Service!vars

\* The handler finds that its program has ended in time.
LEMMA FinishedRefines ==
    ASSUME IInv, NEW r \in Requests, Finished(r) PROVE Service!Settle(r)
<1>0. HandlerInv(rpc[r], rbox[r], rctx[r], resp[r], box[rbox[r]])
      BY AboutHandler
<1>1. /\ rpc[r] = "check" /\ rpc' = [rpc EXCEPT ![r] = "finish"]
      /\ rctx[r] = "live"
      /\ box' = box /\ rbox' = rbox /\ rctx' = rctx /\ resp' = resp
      BY DEF Finished, HandlerAt
<1>2. rctx' = [rctx EXCEPT ![r] = rctx[r]]
      BY <1>1, AboutHandler
<1>3. /\ Only(r) /\ rpc'[r] = "finish" /\ rctx'[r] = rctx[r]
      /\ Programs' = Programs
      BY <1>1, <1>2, Alone
<1>4. /\ Busy' = Busy /\ Late' = Late /\ Settled' = Settled \union {r}
      /\ r \in Busy \ Late
      BY <1>1, <1>3, AtOne, SameSets
<1>5. resp[r] = "none"
      BY <1>0, <1>1 DEF HandlerInv
<1>6. Programs[r] = ProgramOf(r) /\ ProgramOf(r) \notin {"none", "running"}
      BY <1>1, <1>3, AtOne, AboutProgram
<1>7. PICK c \in Containers : rbox[r] = c
      BY <1>1, AboutProgram, AboutHandler DEF Using
<1>8. box[c].st = "waited" /\ box[c].closer = "await"
      BY <1>0, <1>1, <1>7, About DEF HandlerInv
<1>9. box[c].inTime
      BY <1>8, About DEF BoxInv
<1>10. ProgramOf(r) = Fate(box[c]) /\ Fate(box[c]) # "stopped"
      BY <1>7, <1>9, About DEF ProgramOf, Fate
<1>11. Programs[r] \in Service!OwnEnds
      BY <1>6, <1>10, Fates DEF Service!OwnEnds
<1> QED
    BY <1>1, <1>3, <1>4, <1>5, <1>11 DEF Service!Settle

\* A request arrives.
LEMMA ArriveRefines ==
    ASSUME IInv, NEW r \in Requests, Arrive(r) PROVE Service!Ask(r)
<1>1. /\ rpc[r] = "idle" /\ rpc' = [rpc EXCEPT ![r] = "sem"]
      /\ box' = box /\ rbox' = rbox /\ rctx' = rctx /\ resp' = resp
      BY DEF Arrive, HandlerAt
<1>2. rctx' = [rctx EXCEPT ![r] = rctx[r]]
      BY <1>1, AboutHandler
<1>3. /\ Only(r) /\ rpc'[r] = "sem" /\ rctx'[r] = rctx[r]
      /\ Programs' = Programs
      BY <1>1, <1>2, Alone
<1>4. Late' = Late /\ Settled' = Settled /\ r \notin Busy
        /\ Busy' = Busy \union {r}
      BY <1>1, <1>3, AtOne, SameSets
<1> QED
    BY <1>1, <1>3, <1>4 DEF Service!Ask

\* A handler is over, its container is gone, and its time counts no more.
LEMMA LeavesRefines ==
    ASSUME IInv, NEW r \in Requests, GivesUpSlot(r) \/ ReleasesSlot(r)
    PROVE  Service!Done(r)
<1>1. /\ rpc[r] \in {"sem", "release"} /\ rpc' = [rpc EXCEPT ![r] = "idle"]
      /\ box' = box /\ rbox' = rbox
      BY DEF GivesUpSlot, ReleasesSlot, HandlerAt
<1>2. rctx' = [rctx EXCEPT ![r] = "live"] /\ resp' = [resp EXCEPT ![r] = "none"]
  <2>1. CASE ReleasesSlot(r)
        BY <2>1 DEF ReleasesSlot
  <2>2. CASE GivesUpSlot(r)
    <3>1. rpc[r] = "sem" /\ rctx' = rctx /\ resp' = resp
          BY <2>2 DEF GivesUpSlot, HandlerAt
    <3>2. rctx[r] = "live" /\ resp[r] = "none"
          BY <3>1, AboutHandler DEF HandlerInv
    <3> QED
        BY <3>1, <3>2, AboutHandler
  <2> QED
      BY <2>1, <2>2
<1>3. /\ Only(r) /\ rpc'[r] = "idle" /\ rctx'[r] = "live"
      /\ Programs' = Programs
      BY <1>1, <1>2, Alone
<1>4. r \in Busy /\ Programs[r] = "none"
      BY <1>1, <1>3, AtOne, AboutProgram DEF Using
<1>5. Busy' = Busy \ {r} /\ Late' = Late \ {r} /\ Settled' = Settled
      BY <1>1, <1>3, AtOne, SameSets
<1> QED
    BY <1>2, <1>3, <1>4, <1>5 DEF Service!Done

\* The handler's time is over.
LEMMA DeadlineRefines ==
    ASSUME IInv, NEW r \in Requests, Deadline(r) PROVE Service!Expire(r)
<1>1. /\ rbox[r] # None /\ rctx' = [rctx EXCEPT ![r] = "deadline"]
      /\ rpc' = rpc /\ box' = box /\ rbox' = rbox /\ resp' = resp
      BY DEF Deadline
<1>2. rpc' = [rpc EXCEPT ![r] = rpc[r]]
      BY <1>1, AboutHandler
<1>3. /\ Only(r) /\ rpc'[r] = rpc[r] /\ rctx'[r] = "deadline"
      /\ Programs' = Programs
      BY <1>1, <1>2, Alone
<1>4. /\ Programs[r] # "none"
      /\ Busy' = Busy /\ Settled' = Settled /\ Late' = Late \union {r}
      BY <1>1, <1>3, AtOne, SameSets, AboutProgram
<1> QED
    BY <1>1, <1>3, <1>4 DEF Service!Expire

\* The answers: each one fits how the program ended, if there was one.
LEMMA AnswersRefine ==
    ASSUME IInv, NEW r \in Requests,
           BodyFails(r) \/ WriteFails(r) \/ TimedOut(r) \/ Responds(r)
    PROVE  Service!Answer(r)
<1>0. HandlerInv(rpc[r], rbox[r], rctx[r], resp[r], box[rbox[r]])
      BY AboutHandler
<1>1. /\ rpc[r] \in {"body", "write", "check", "respond"}
      /\ box' = box /\ rbox' = rbox /\ rctx' = rctx
      /\ \E pc \in {"release", "cancel"} : rpc' = [rpc EXCEPT ![r] = pc]
      BY DEF BodyFails, WriteFails, TimedOut, Responds, HandlerAt
<1>2. rctx' = [rctx EXCEPT ![r] = rctx[r]]
      BY <1>1, AboutHandler
<1>3. /\ Only(r) /\ rpc'[r] \in {"release", "cancel"} /\ rctx'[r] = rctx[r]
      /\ Programs' = Programs
  <2>1. PICK pc \in {"release", "cancel"} : rpc' = [rpc EXCEPT ![r] = pc]
        BY <1>1
  <2>2. /\ Only(r) /\ rpc'[r] = pc /\ rctx'[r] = rctx[r]
        /\ Programs' = Programs
        BY <1>1, <1>2, <2>1, Alone
  <2> QED
      BY <2>1, <2>2
<1>4. /\ Busy' = Busy /\ Late' = Late /\ Settled' = Settled \ {r}
      /\ r \in Busy
      BY <1>1, <1>3, AtOne, SameSets
<1>5. resp[r] = "none"
      BY <1>0, <1>1 DEF HandlerInv
<1>6. /\ Programs[r] = ProgramOf(r)
      /\ r \in Late <=> rctx[r] = "deadline"
      /\ r \in Settled <=> rpc[r] \in {"finish", "respond"}
      BY <1>3, AtOne
<1>7. \E a \in Service!Answers :
        /\ a = "output" => r \in Settled /\ Programs[r] \in {"ended", "halted"}
        /\ a = "tooMuch" => r \in Settled /\ Programs[r] = "cut"
        /\ a = "timeout" => r \in Late \ Settled /\ Programs[r] # "none"
        /\ a = "failed" => /\ Programs[r] \in {"none", "broken", "stopped"}
                           /\ r \in Settled => Programs[r] = "broken"
        /\ Programs[r] # "running"
        /\ resp' = [resp EXCEPT ![r] = a]
  <2>1. CASE BodyFails(r)
    <3>1. /\ Programs[r] = "none" /\ r \notin Settled
          /\ resp' = [resp EXCEPT ![r] = "failed"]
          BY <1>6, <2>1, AboutProgram DEF BodyFails, HandlerAt, Using
    <3> QED
        BY <3>1 DEF Service!Answers
  <2>2. CASE WriteFails(r)
    <3>1. rpc[r] = "write" /\ resp' = [resp EXCEPT ![r] = "failed"]
            /\ box[rbox[r]].st # "running"
          BY <2>2 DEF WriteFails, HandlerAt
    <3>2. PICK c \in Containers : rbox[r] = c
          BY <3>1, AboutProgram, AboutHandler DEF Using
    <3>3. box[c].prog = "none"
          BY <1>0, <3>1, <3>2, About DEF HandlerInv
    <3>4. ~box[c].lost
          BY <3>3, About DEF BoxInv
    <3>5. Fate(box[c]) \in {"broken", "stopped"}
          BY <3>1, <3>2, <3>3, <3>4 DEF Fate
    <3>6. Programs[r] \in {"broken", "stopped"} /\ r \notin Settled
          BY <1>6, <3>1, <3>2, <3>5, About DEF ProgramOf
    <3> QED
        BY <3>1, <3>6 DEF Service!Answers
  <2>3. CASE TimedOut(r)
    <3>1. /\ rpc[r] = "check" /\ resp' = [resp EXCEPT ![r] = "timeout"]
          /\ rctx[r] # "live"
          BY <2>3 DEF TimedOut, HandlerAt
    <3>2. rbox[r] # None
          BY <3>1, AboutProgram DEF Using
    <3>3. rctx[r] = "deadline"
          BY <1>0, <3>1, <3>2, AboutHandler DEF HandlerInv
    <3>4. Programs[r] \notin {"none", "running"} /\ r \in Late /\ r \notin Settled
          BY <1>6, <3>1, <3>3, AboutProgram
    <3> QED
        BY <3>1, <3>4 DEF Service!Answers
  <2>4. CASE Responds(r)
    <3> DEFINE b == box[rbox[r]]
               a == Answer(b)
    <3>1. rpc[r] = "respond" /\ resp' = [resp EXCEPT ![r] = a]
          BY <2>4 DEF Responds, HandlerAt
    <3>2. rbox[r] # None
          BY <3>1, AboutProgram DEF Using
    <3>3. b.st = "waited" /\ b.inTime /\ b.prog # "none"
          BY <1>0, <3>1, <3>2 DEF HandlerInv
    <3>4. /\ b.lost => b.err # "nil"
          /\ b.err \in {"nil", "exit", "io"}
      <4>1. rbox[r] \in Containers
            BY <3>2, AboutHandler
      <4> QED
          BY <3>3, <4>1, About DEF BoxInv
    <3>5. Programs[r] = Fate(b) /\ r \in Settled
          BY <1>6, <3>1, <3>2 DEF ProgramOf
    <3> HIDE DEF b
    <3>6. /\ a \in {"output", "tooMuch", "failed"}
          /\ a = "output" => Fate(b) \in {"ended", "halted"}
          /\ a = "tooMuch" => Fate(b) = "cut"
          /\ a = "failed" => Fate(b) = "broken"
          /\ Fate(b) # "running"
          BY <3>3, <3>4 DEF Answer, Fate
    <3> HIDE DEF a
    <3> QED
        BY <3>1, <3>5, <3>6 DEF Service!Answers
  <2> QED
      BY <2>1, <2>2, <2>3, <2>4
<1>8. Programs[r] # "running"
      BY <1>7
<1> QED
    BY <1>3, <1>4, <1>5, <1>7, <1>8 DEF Service!Answer

\* The container has been closed: there is no program any more.
LEMMA JoinsRefines ==
    ASSUME IInv, NEW r \in Requests, Joins(r) PROVE Service!Discard(r)
<1>1. /\ rpc[r] = "join" /\ rpc' = [rpc EXCEPT ![r] = "release"]
      /\ rbox' = [rbox EXCEPT ![r] = None] /\ rctx' = rctx /\ resp' = resp
      /\ box' = [box EXCEPT ![rbox[r]] = FreeBox]
      BY DEF Joins, HandlerAt
<1>2. PICK c \in Containers : rbox[r] = c
      BY <1>1, AboutProgram, AboutHandler DEF Using
<1>3. \A d \in Containers \ {c} : box'[d] = box[d]
      BY <1>1, <1>2, About
<1>4. \A q \in Requests \ {r} : rbox[q] # c
      BY <1>2, About DEF OneUser
<1>5. Only(r)
  <2>1. {c} \in SUBSET Containers
        OBVIOUS
  <2>2. \A q \in Requests \ {r} : rpc'[q] = rpc[q] /\ rbox'[q] = rbox[q]
        BY <1>1, AboutHandler
  <2> QED
      BY <1>1, <1>3, <1>4, <2>1, <2>2, OthersKeep
<1>6. rpc'[r] = "release" /\ ProgramOf(r)' = "none"
      BY <1>1, AboutHandler DEF ProgramOf
<1>7. Busy' = Busy /\ Late' = Late /\ Settled' = Settled
      BY <1>1, <1>5, <1>6, SameSets
<1>8. Programs[r] \notin {"none", "running"}
      BY <1>1, <1>5, AtOne, AboutProgram
<1>9. resp[r] # "none"
  <2>1. HandlerInv(rpc[r], rbox[r], rctx[r], resp[r], box[rbox[r]])
        BY AboutHandler
  <2>2. rbox[r] # None
        BY <1>1, AboutProgram DEF Using
  <2> QED
      BY <1>1, <2>1, <2>2 DEF HandlerInv
<1>10. Programs' = [Programs EXCEPT ![r] = "none"]
      BY <1>5, <1>6, AtOne
<1> QED
    BY <1>1, <1>7, <1>8, <1>9, <1>10 DEF Service!Discard

\* RunService counts as this module does.
LEMMA SameCardinality == \A S : Service!Cardinality(S) = Cardinality(S)
  BY DEF Cardinality, Service!Cardinality

\* While a handler that has its slot has no program, there are fewer than N.
LEMMA RoomForOne ==
    ASSUME IInv, SlotInv, NEW r \in Requests, rpc[r] = "get"
    PROVE  Cardinality({q \in Requests : Programs[q] # "none"}) < N
<1> DEFINE Started == {q \in Requests : Programs[q] # "none"}
<1>1. r \in Holders
      BY DEF Holders
<1>2. ASSUME NEW q \in Started PROVE q \in Holders \ {r}
  <2>1. ProgramOf(q) # "none"
        BY DEF Programs
  <2>2. rpc[q] \in Using
        BY <2>1, AboutProgram
  <2> QED
      BY <2>2 DEF Using, Holders
<1>3. Started \in SUBSET (Holders \ {r})
      BY <1>2
<1>4. /\ IsFiniteSet(Holders \ {r})
      /\ Cardinality(Holders \ {r}) = Cardinality(Holders) - 1
      BY <1>1, FS_RemoveElement, SlotNumbers
<1>5. IsFiniteSet(Started) /\ Cardinality(Started) <= Cardinality(Holders \ {r})
      BY <1>3, <1>4, FS_Subset
<1>6. Cardinality(Holders) <= N
      BY DEF SlotInv, SlotsCounted
<1>7. Cardinality(Started) \in Nat
      BY <1>5, FS_CardinalityType
<1> HIDE DEF Started
<1>8. Cardinality(Started) < N
      BY <1>4, <1>5, <1>6, <1>7, SlotNumbers
<1> QED
    BY <1>8 DEF Started

\* A handler receives a container, which nobody has stopped, though it may be
\* dead.
LEMMA ReceivesRefines ==
    ASSUME IInv, SlotInv, NEW r \in Requests, NEW w \in Workers,
           ReceivesContainer(r, w)
    PROVE  Service!Start(r)
<1>0. /\ rpc[r] = "get" /\ rpc' = [rpc EXCEPT ![r] = "write"] /\ HandsOver(w)
      /\ rbox' = [rbox EXCEPT ![r] = wbox[w]]
      /\ rctx' = [rctx EXCEPT ![r] = "live"] /\ resp' = resp
      /\ box' = [box EXCEPT ![wbox[w]].closer = "await"]
      BY DEF ReceivesContainer, HandlerAt
<1>1. PICK c \in Containers :
        /\ wbox[w] = c /\ c # None /\ ~HandlerHas(c)
        /\ box[c].st \in {"running", "ended", "waited"} /\ ~box[c].cancelled
        /\ box[c].prog = "none"
      BY <1>0, HandedOver
<1>2. box \in [Containers -> Boxes] /\ box[c] \in Boxes
      BY About
<1>3. \A d \in Containers \ {c} : box'[d] = box[d]
      BY <1>0, <1>1, <1>2
<1>4. Only(r)
  <2>1. {c} \in SUBSET Containers
        OBVIOUS
  <2>2. \A q \in Requests \ {r} : /\ rpc'[q] = rpc[q] /\ rctx'[q] = rctx[q]
                                  /\ rbox'[q] = rbox[q] /\ rbox[q] # c
        BY <1>0, <1>1, AboutHandler DEF HandlerHas
  <2> QED
      BY <1>3, <2>1, <2>2, OthersKeep
<1>5. rctx[r] = "live" /\ resp[r] = "none"
      BY <1>0, AboutHandler DEF HandlerInv
<1>6. rpc'[r] = "write" /\ rctx'[r] = "live" /\ rbox'[r] = c
      BY <1>0, <1>1, AboutHandler
<1>7. Busy' = Busy /\ Late' = Late /\ Settled' = Settled /\ r \in Busy
      BY <1>0, <1>4, <1>5, <1>6, AtOne, SameSets
<1>8. Programs[r] = "none"
      BY <1>0, <1>4, AtOne, AboutProgram DEF Using
<1>9. ProgramOf(r)' \in {"running", "broken"}
  <2>1. box'[c] = [box[c] EXCEPT !.closer = "await"]
        BY <1>0, <1>1, <1>2
  <2>2. Fate(box'[c]) = Fate(box[c])
        BY <1>2, <2>1, SameFate DEF Boxes
  <2>3. BoxInv(box[c], c \in wanted, WorkerHas(c), HandlerHas(c), hbox = c,
               HandlerHolds(c))
        BY About
  <2>4. ~box[c].lost /\ (box[c].st = "running" \/ box[c].inTime)
        BY <1>1, <2>3 DEF BoxInv
  <2>5. Fate(box[c]) \in {"running", "broken"}
        BY <1>1, <2>4 DEF Fate
  <2>6. ProgramOf(r)' = Fate(box'[c])
        BY <1>1, <1>6 DEF ProgramOf, Fate
  <2> QED
      BY <2>2, <2>5, <2>6
<1>10. Cardinality({q \in Requests : Programs[q] # "none"}) < N
       BY <1>0, RoomForOne
<1>11. Programs' = [Programs EXCEPT ![r] = ProgramOf(r)']
       BY <1>4, AtOne
<1> QED
    BY <1>0, <1>5, <1>7, <1>8, <1>9, <1>10, <1>11, SameCardinality
       DEF Service!Start

---------------------------------------------------------------------------
(* Refinement.                                                             *)

\* Nobody asks anything at first.
LEMMA InitRefines == Init => Service!Init
<1> SUFFICES ASSUME Init PROVE Service!Init
    OBVIOUS
<1>1. Busy = {} /\ Late = {} /\ Settled = {}
      BY DEF Init, Busy, Late, Settled
<1>2. Programs = [r \in Requests |-> "none"]
      BY DEF Init, Programs, ProgramOf
<1>3. resp = [r \in Requests |-> "none"]
      BY DEF Init
<1> QED
    BY <1>1, <1>2, <1>3 DEF Service!Init

\* Every step of the pool is one of the service's, or is not seen.
LEMMA NextRefines == IInv /\ SlotInv /\ [Next]_vars => [Service!Next]_Service!vars
<1> SUFFICES ASSUME IInv, SlotInv, [Next]_vars PROVE [Service!Next]_Service!vars
    OBVIOUS
<1>1. ASSUME NEW w \in Workers, WorkerStep(w) PROVE UNCHANGED Service!vars
      BY <1>1, WorkerUnseen
<1>2. ASSUME NEW c \in Containers,
             Halts(c) \/ Ends(c) \/ WaitReturns(c) \/ CloserStep(c)
      PROVE  [Service!Next]_Service!vars
      BY <1>2, EndsRefines, HaltsUnseen, ClosingUnseen
<1>3. ASSUME NEW r \in Requests, HandlerStep(r)
      PROVE  [Service!Next]_Service!vars
  <2>1. CASE \/ ClientLeaves(r) \/ AcquiresSlot(r) \/ ReadsBody(r)
             \/ GivesUpContainer(r) \/ ClosesEarly(r) \/ Cancels(r)
             \/ WritesStdin(r) \/ TakesErr(r) \/ PutsErr(r)
        BY <2>1, PausesUnseen, TokenUnseen
  <2>2. CASE Arrive(r)
    <3>1. Service!Ask(r)
          BY <2>2, ArriveRefines
    <3> QED
        BY <3>1 DEF Service!Next
  <2>3. CASE GivesUpSlot(r) \/ ReleasesSlot(r)
    <3>1. Service!Done(r)
          BY <2>3, LeavesRefines
    <3> QED
        BY <3>1 DEF Service!Next
  <2>4. CASE Deadline(r)
    <3>1. Service!Expire(r)
          BY <2>4, DeadlineRefines
    <3> QED
        BY <3>1 DEF Service!Next
  <2>5. CASE BodyFails(r) \/ WriteFails(r) \/ TimedOut(r) \/ Responds(r)
    <3>1. Service!Answer(r)
          BY <2>5, AnswersRefine
    <3> QED
        BY <3>1 DEF Service!Next
  <2>6. CASE Joins(r)
    <3>1. Service!Discard(r)
          BY <2>6, JoinsRefines
    <3> QED
        BY <3>1 DEF Service!Next
  <2>7. ASSUME NEW w \in Workers, ReceivesContainer(r, w)
        PROVE  [Service!Next]_Service!vars
    <3>1. Service!Start(r)
          BY <2>7, ReceivesRefines
    <3> QED
        BY <3>1 DEF Service!Next
  <2>8. CASE Finished(r)
    <3>1. Service!Settle(r)
          BY <2>8, FinishedRefines
    <3> QED
        BY <3>1 DEF Service!Next
  <2> QED
      BY <1>3, <2>1, <2>2, <2>3, <2>4, <2>5, <2>6, <2>7, <2>8
         DEF HandlerStep, BodyStep, RunStep
<1>4. CASE HealthStep
      BY <1>4, HealthUnseen
<1>5. CASE UNCHANGED vars
  <2>1. UNCHANGED handler /\ box' = box
        BY <1>5 DEF vars
  <2> QED
      BY <2>1, Nothing
<1> QED
    BY <1>1, <1>2, <1>3, <1>4, <1>5 DEF Next

\* The pool implements RunService: one answer per request that fits how its
\* program ended, even when the deadline comes between the look at ctx and the
\* answer; no program stopped by the server before its time; nothing left behind,
\* and never more than numWorkers programs, for any number of everything.
THEOREM Refinement == Spec => KeepsPromise
<1>1. Init /\ [][Next]_vars /\ []IInv /\ []SlotInv => Service!Spec
      BY InitRefines, NextRefines, PTL DEF Service!Spec
<1> QED
    BY <1>1, AlwaysIInv, AlwaysSlotInv, PTL DEF Spec, KeepsPromise
====
