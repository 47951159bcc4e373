---- MODULE SandboxPool ----
(***************************************************************************)
(* The sandbox server (sandbox/sandbox.go): workers pre-start containers   *)
(* and hand them out on readyContainer (359-421), /run handlers bounded by *)
(* runSem take one each and run a binary in it (530-641), a health check   *)
(* takes one and closes it (261-282).  Every container is used once, then  *)
(* closed; Close and the handler both wait for it through the one-element  *)
(* channel waitErr, taking the error out and putting it back (91-104).     *)
(*                                                                         *)
(* startContainer enters by its outcomes (module StartContainer) and       *)
(* WaitOrStop by its contract (module StoppableWait).                      *)
(***************************************************************************)
EXTENDS Naturals, FiniteSets

CONSTANTS
    Workers,      \* the goroutines of makeWorkers; *numWorkers of them
    Requests,     \* the connections /run requests come on, one at a time each
    Containers,   \* bound: containers that exist at a time
    StartFaults,  \* how a start may fail: a subset of {"exec", "hang"}
    WaitErrors,   \* what WaitOrStop may return, see Endings
    HealthChecks, \* whether anybody asks for /health
    None

ASSUME PoolAssumption ==
    /\ IsFiniteSet(Workers) /\ IsFiniteSet(Requests) /\ IsFiniteSet(Containers)
    /\ StartFaults \subseteq {"exec", "hang"}
    /\ WaitErrors \subseteq {"nil", "exit", "io", "ctx"}
    /\ HealthChecks \in BOOLEAN
    /\ None \notin Containers

N == Cardinality(Workers)   \* *numWorkers

VARIABLES
    box,      \* the containers
    wanted,   \* containerWanted
    wpc,      \* pcs of the workers
    wbox,     \* the container a worker has made and not handed over
    runSem,   \* the number of tokens in runSem
    rpc,      \* pcs of the handlers
    rbox,     \* the container of a handler
    rctx,     \* the handler's own ctx, with its timeout runTimeout
    gone,     \* the client has closed the request, r.Context() is done
    resp,     \* what the handler answered
    hpc,      \* pc of the health check; healthStatus's mutex admits one
    hbox      \* its container

worker == <<wpc, wbox>>
handler == <<rpc, rbox, rctx, gone, resp>>
health == <<hpc, hbox>>
vars == <<box, wanted, worker, runSem, handler, health>>

HandlerPcs == {"idle", "sem", "body", "get", "write", "wait", "putback",
               "check", "finish", "respond", "cancel", "join", "release"}
Responses == {"none", "output", "timeout", "tooMuch", "failed"}

\* A container and the goroutines that belong to it: its docker process, the
\* wait for it (token is what waitErr holds) and whoever runs c.Close().
Boxes ==
    [st : {"free", "made", "running", "ended", "waited"},
     prog : {"none", "given", "halted"},   \* the program it runs, see Halts
     cancelled : BOOLEAN,   \* cancelCmd was called
     inTime : BOOLEAN,      \* it ended before it was cancelled
     lost : BOOLEAN,        \* output was dropped: n < 0 in a limitedWriter
     err : {"none", "nil", "exit", "io", "ctx"},   \* what WaitOrStop returns
     token : {"none", "in", "out"},
     closer : {"none", "await", "close", "cancel", "wait", "putback",
               "closed"}]

FreeBox == [st |-> "free", prog |-> "none", cancelled |-> FALSE,
            inTime |-> FALSE, lost |-> FALSE, err |-> "none",
            token |-> "none", closer |-> "none"]

TypeOK ==
    /\ box \in [Containers -> Boxes]
    /\ wanted \subseteq Containers
    /\ wpc \in [Workers -> {"begin", "starting", "offer", "sleep", "stuck"}]
    /\ wbox \in [Workers -> Containers \union {None}]
    /\ runSem \in Nat
    /\ rpc \in [Requests -> HandlerPcs]
    /\ rbox \in [Requests -> Containers \union {None}]
    /\ rctx \in [Requests -> {"live", "canceled", "deadline"}]
    /\ gone \in [Requests -> BOOLEAN]
    /\ resp \in [Requests -> Responses]
    /\ hpc \in {"idle", "get", "closing"}
    /\ hbox \in Containers \union {None}

Init ==
    /\ box = [c \in Containers |-> FreeBox]
    /\ wanted = {}
    /\ wpc = [w \in Workers |-> "begin"]
    /\ wbox = [w \in Workers |-> None]
    /\ runSem = 0
    /\ rpc = [r \in Requests |-> "idle"]
    /\ rbox = [r \in Requests |-> None]
    /\ rctx = [r \in Requests |-> "live"]
    /\ gone = [r \in Requests |-> FALSE]
    /\ resp = [r \in Requests |-> "none"]
    /\ hpc = "idle"
    /\ hbox = None

---------------------------------------------------------------------------
(* Workers: workerLoop and startContainer.                                 *)

WorkerAt(w, from, to) == wpc[w] = from /\ wpc' = [wpc EXCEPT ![w] = to]

Begin(w) ==
    /\ WorkerAt(w, "begin", "starting")
    /\ \E c \in Containers :
         /\ box[c].st = "free"
         /\ box' = [box EXCEPT ![c].st = "made"]
         /\ wbox' = [wbox EXCEPT ![w] = c]
         /\ wanted' = wanted \union {c}
    /\ UNCHANGED <<runSem, handler, health>>

StartOK(w) ==
    /\ WorkerAt(w, "starting", "offer")
    /\ box' = [box EXCEPT ![wbox[w]].st = "running"]
    /\ UNCHANGED <<wanted, wbox, runSem, handler, health>>

\* Nothing was started.  The name stays in containerWanted for ever, but no
\* other container gets it: the model forgets it with the container.
ExecFails(w) ==
    /\ "exec" \in StartFaults
    /\ WorkerAt(w, "starting", "sleep")
    /\ box' = [box EXCEPT ![wbox[w]] = FreeBox]
    /\ wanted' = wanted \ {wbox[w]}
    /\ wbox' = [wbox EXCEPT ![w] = None]
    /\ UNCHANGED <<runSem, handler, health>>

\* The container ended before its header was complete: the worker waits for
\* startErr, for ever.
StartHangs(w) ==
    /\ "hang" \in StartFaults
    /\ WorkerAt(w, "starting", "stuck")
    /\ UNCHANGED <<box, wanted, wbox, runSem, handler, health>>

SleepOver(w) ==
    /\ WorkerAt(w, "sleep", "begin")
    /\ UNCHANGED <<box, wanted, wbox, runSem, handler, health>>

\* Mistake: the worker offers the same container again.
HandsOverTwice(w) ==
    /\ WorkerAt(w, "offer", "offer")
    /\ UNCHANGED wbox

\* Mistake: the worker makes one container only.
HandsOverOnce(w) ==
    /\ WorkerAt(w, "offer", "stuck")
    /\ wbox' = [wbox EXCEPT ![w] = None]

\* The worker's half of the rendezvous on readyContainer.
HandsOver(w) ==
    /\ WorkerAt(w, "offer", "begin")
    /\ wbox' = [wbox EXCEPT ![w] = None]

---------------------------------------------------------------------------
(* Containers.                                                             *)

\* runInGvisor stops its program half a second before the server's timeout;
\* the notice of it on stderr is part of the output.
Halts(c) ==
    /\ box[c].st = "running" /\ box[c].prog = "given"
    /\ box' = [box EXCEPT ![c].prog = "halted"]
    /\ UNCHANGED <<wanted, worker, runSem, handler, health>>

\* How container b can end: what WaitOrStop returns, ctx.Err() only if it was
\* cancelled, and even then the container's own status or an error that is no
\* status ("io"); and whether output was dropped, which makes the copy of it
\* fail, and only a program writes so much.  A halted program has status 1.
Endings(b) ==
    {e \in [err : WaitErrors, lost : BOOLEAN] :
        /\ e.err = "ctx" => b.cancelled
        /\ e.err = "nil" => ~e.lost /\ b.prog # "halted"
        /\ e.lost => b.prog # "none"}

\* The process ends and cmd.Wait reaps it.  It may well end while it is idle.
Ends(c) ==
    /\ box[c].st = "running"
    /\ \E e \in Endings(box[c]) :
         box' = [box EXCEPT ![c].st = "ended", ![c].err = e.err,
                            ![c].lost = e.lost,
                            ![c].inTime = ~box[c].cancelled]
    /\ UNCHANGED <<wanted, worker, runSem, handler, health>>

\* c.waitErr <- internal.WaitOrStop(...)
WaitReturns(c) ==
    /\ box[c].st = "ended"
    /\ box' = [box EXCEPT ![c].st = "waited", ![c].token = "in"]
    /\ UNCHANGED <<wanted, worker, runSem, handler, health>>

---------------------------------------------------------------------------
(* The goroutines that close a container: of a handler (589-596), which    *)
(* waits for the handler's ctx first, or of the health check (271-274).    *)

\* Mistake: only the timeout makes the goroutine close the container.
CloserWakesLate(c) ==
    /\ \E r \in Requests : rbox[r] = c /\ rctx[r] = "deadline"
    /\ box[c].closer = "await"
    /\ box' = [box EXCEPT ![c].closer = "close"]
    /\ UNCHANGED <<wanted, worker, runSem, handler, health>>

CloserWakes(c) ==
    /\ \E r \in Requests : rbox[r] = c /\ rctx[r] # "live"
    /\ box[c].closer = "await"
    /\ box' = [box EXCEPT ![c].closer = "close"]
    /\ UNCHANGED <<wanted, worker, runSem, handler, health>>

\* setContainerWanted(c.name, false)
CloserUnwants(c) ==
    /\ box[c].closer = "close"
    /\ wanted' = wanted \ {c}
    /\ box' = [box EXCEPT ![c].closer = "cancel"]
    /\ UNCHANGED <<worker, runSem, handler, health>>

\* c.cancelCmd()
CloserCancels(c) ==
    /\ box[c].closer = "cancel"
    /\ box' = [box EXCEPT ![c].cancelled = TRUE, ![c].closer = "wait"]
    /\ UNCHANGED <<wanted, worker, runSem, handler, health>>

CloserTakes(c) ==
    /\ box[c].closer = "wait"
    /\ box[c].token = "in"
    /\ box' = [box EXCEPT ![c].token = "out", ![c].closer = "putback"]
    /\ UNCHANGED <<wanted, worker, runSem, handler, health>>

\* Mistake: the error is not put back.
CloserKeeps(c) ==
    /\ box[c].closer = "putback"
    /\ box' = IF hbox = c \/ \E r \in Requests : rbox[r] = c
                THEN [box EXCEPT ![c].closer = "closed"]
                ELSE [box EXCEPT ![c] = FreeBox]
    /\ UNCHANGED <<wanted, worker, runSem, handler, health>>

\* The error goes back and closed is closed.  A container that nobody else
\* knows any more is garbage.
CloserPuts(c) ==
    /\ box[c].closer = "putback"
    /\ box[c].token # "in"
    /\ box' = IF hbox = c \/ \E r \in Requests : rbox[r] = c
                THEN [box EXCEPT ![c].token = "in", ![c].closer = "closed"]
                ELSE [box EXCEPT ![c] = FreeBox]
    /\ UNCHANGED <<wanted, worker, runSem, handler, health>>
---------------------------------------------------------------------------
(* Handlers: runHandler.                                                   *)

HandlerAt(r, from, to) == rpc[r] = from /\ rpc' = [rpc EXCEPT ![r] = to]

Arrive(r) ==
    /\ HandlerAt(r, "idle", "sem")
    /\ UNCHANGED <<box, wanted, worker, runSem, rbox, rctx, gone, resp, health>>

\* The handler looks at r.Context() up to getContainer and never afterwards.
ClientLeaves(r) ==
    /\ rpc[r] \in {"sem", "body", "get"}
    /\ ~gone[r]
    /\ gone' = [gone EXCEPT ![r] = TRUE]
    /\ UNCHANGED <<box, wanted, worker, runSem, rpc, rbox, rctx, resp, health>>

AcquiresSlot(r) ==
    /\ HandlerAt(r, "sem", "body")
    /\ runSem < N
    /\ runSem' = runSem + 1
    /\ UNCHANGED <<box, wanted, worker, rbox, rctx, gone, resp, health>>

GivesUpSlot(r) ==
    /\ HandlerAt(r, "sem", "idle")
    /\ gone[r]
    /\ gone' = [gone EXCEPT ![r] = FALSE]
    /\ UNCHANGED <<box, wanted, worker, runSem, rbox, rctx, resp, health>>

ReadsBody(r) ==
    /\ HandlerAt(r, "body", "get")
    /\ UNCHANGED <<box, wanted, worker, runSem, rbox, rctx, gone, resp, health>>

\* Mistake: the slot is kept when the body cannot be read.
BodyFailsHolding(r) ==
    /\ HandlerAt(r, "body", "idle")
    /\ UNCHANGED <<box, wanted, worker, runSem, rbox, rctx, gone, resp, health>>

BodyFails(r) ==
    /\ HandlerAt(r, "body", "release")
    /\ resp' = [resp EXCEPT ![r] = "failed"]
    /\ UNCHANGED <<box, wanted, worker, runSem, rbox, rctx, gone, health>>

\* c := <-readyContainer; then the handler's ctx and the closing goroutine.
ReceivesContainer(r, w) ==
    /\ HandlerAt(r, "get", "write")
    /\ HandsOver(w)
    /\ rbox' = [rbox EXCEPT ![r] = wbox[w]]
    /\ rctx' = [rctx EXCEPT ![r] = "live"]
    /\ box' = [box EXCEPT ![wbox[w]].closer = "await"]
    /\ UNCHANGED <<wanted, runSem, gone, resp, health>>

GivesUpContainer(r) ==
    /\ HandlerAt(r, "get", "release")
    /\ gone[r]
    /\ UNCHANGED <<box, wanted, worker, runSem, rbox, rctx, gone, resp, health>>

\* The writes to the container's stdin succeed while its process lives; they
\* block as long as it does not read, and fail once it has ended.
WritesStdin(r) ==
    /\ HandlerAt(r, "write", "wait")
    /\ box[rbox[r]].st = "running"
    /\ box' = [box EXCEPT ![rbox[r]].prog = "given"]
    /\ UNCHANGED <<wanted, worker, runSem, rbox, rctx, gone, resp, health>>

\* Mistake: the handler does not return after the error.
WriteFailsGoesOn(r) ==
    /\ HandlerAt(r, "write", "wait")
    /\ box[rbox[r]].st # "running"
    /\ resp' = [resp EXCEPT ![r] = "failed"]
    /\ UNCHANGED <<box, wanted, worker, runSem, rbox, rctx, gone, health>>

WriteFails(r) ==
    /\ HandlerAt(r, "write", "cancel")
    /\ box[rbox[r]].st # "running"
    /\ resp' = [resp EXCEPT ![r] = "failed"]
    /\ UNCHANGED <<box, wanted, worker, runSem, rbox, rctx, gone, health>>

Deadline(r) ==
    /\ rbox[r] # None
    /\ rctx[r] = "live"
    /\ rctx' = [rctx EXCEPT ![r] = "deadline"]
    /\ UNCHANGED <<box, wanted, worker, runSem, rpc, rbox, gone, resp, health>>

\* c.Wait(): err := <-c.waitErr; c.waitErr <- err
TakesErr(r) ==
    /\ HandlerAt(r, "wait", "putback")
    /\ box[rbox[r]].token = "in"
    /\ box' = [box EXCEPT ![rbox[r]].token = "out"]
    /\ UNCHANGED <<wanted, worker, runSem, rbox, rctx, gone, resp, health>>

\* Mistake: the handler does not put the error back.
PutsNothing(r) ==
    /\ HandlerAt(r, "putback", "check")
    /\ UNCHANGED <<box, wanted, worker, runSem, rbox, rctx, gone, resp, health>>

PutsErr(r) ==
    /\ HandlerAt(r, "putback", "check")
    /\ box[rbox[r]].token # "in"
    /\ box' = [box EXCEPT ![rbox[r]].token = "in"]
    /\ UNCHANGED <<wanted, worker, runSem, rbox, rctx, gone, resp, health>>

\* select on ctx.Done() once the container has been waited for.
TimedOut(r) ==
    /\ HandlerAt(r, "check", "cancel")
    /\ rctx[r] # "live"
    /\ resp' = [resp EXCEPT ![r] = "timeout"]
    /\ UNCHANGED <<box, wanted, worker, runSem, rbox, rctx, gone, health>>

\* Mistake: the handler does not look whether its time is over.
FinishedUnchecked(r) ==
    /\ HandlerAt(r, "check", "finish")
    /\ UNCHANGED <<box, wanted, worker, runSem, rbox, rctx, gone, resp, health>>

Finished(r) ==
    /\ HandlerAt(r, "check", "finish")
    /\ rctx[r] = "live"
    /\ UNCHANGED <<box, wanted, worker, runSem, rbox, rctx, gone, resp, health>>

\* cancel() has no effect on a ctx that is done.
CancelCtx(r) ==
    rctx' = [rctx EXCEPT ![r] = IF @ = "live" THEN "canceled" ELSE @]

\* The handler cancels its ctx before it answers, so that its container is
\* closed meanwhile.  The deadline may have come after it looked.
ClosesEarly(r) ==
    /\ HandlerAt(r, "finish", "respond")
    /\ CancelCtx(r)
    /\ UNCHANGED <<box, wanted, worker, runSem, rbox, gone, resp, health>>

Answer(b) ==
    IF b.err # "nil" /\ b.lost THEN "tooMuch"
    ELSE IF b.err \notin {"nil", "exit"} THEN "failed"
    ELSE "output"

Responds(r) ==
    /\ HandlerAt(r, "respond", "cancel")
    /\ resp' = [resp EXCEPT ![r] = Answer(box[rbox[r]])]
    /\ UNCHANGED <<box, wanted, worker, runSem, rbox, rctx, gone, health>>

\* Mistake: the slot is given back before the container is closed.
CancelsOnly(r) ==
    /\ HandlerAt(r, "cancel", "release")
    /\ CancelCtx(r)
    /\ UNCHANGED <<box, wanted, worker, runSem, rbox, gone, resp, health>>

\* The deferred functions: cancel(), <-closed, <-runSem.
Cancels(r) ==
    /\ HandlerAt(r, "cancel", "join")
    /\ CancelCtx(r)
    /\ UNCHANGED <<box, wanted, worker, runSem, rbox, gone, resp, health>>

Joins(r) ==
    /\ HandlerAt(r, "join", "release")
    /\ box[rbox[r]].closer = "closed"
    /\ box' = [box EXCEPT ![rbox[r]] = FreeBox]
    /\ rbox' = [rbox EXCEPT ![r] = None]
    /\ UNCHANGED <<wanted, worker, runSem, rctx, gone, resp, health>>

\* The connection is ready for its next request.
ReleasesSlot(r) ==
    /\ HandlerAt(r, "release", "idle")
    /\ runSem' = runSem - 1
    /\ rctx' = [rctx EXCEPT ![r] = "live"]
    /\ gone' = [gone EXCEPT ![r] = FALSE]
    /\ resp' = [resp EXCEPT ![r] = "none"]
    /\ UNCHANGED <<box, wanted, worker, rbox, health>>

---------------------------------------------------------------------------
(* checkHealth.  Its ctx may be done at any moment.                        *)

HealthBegins ==
    /\ HealthChecks
    /\ hpc = "idle"
    /\ hpc' = "get"
    /\ UNCHANGED <<box, wanted, worker, runSem, handler, hbox>>

HealthReceives(w) ==
    /\ hpc = "get"
    /\ HandsOver(w)
    /\ hpc' = "closing"
    /\ hbox' = wbox[w]
    /\ box' = [box EXCEPT ![wbox[w]].closer = "close"]
    /\ UNCHANGED <<wanted, runSem, handler>>

HealthGetTimeout ==
    /\ hpc = "get"
    /\ hpc' = "idle"
    /\ UNCHANGED <<box, wanted, worker, runSem, handler, hbox>>

HealthLeaves == hpc = "closing" /\ hpc' = "idle" /\ hbox' = None

HealthClosed ==
    /\ HealthLeaves
    /\ box[hbox].closer = "closed"
    /\ box' = [box EXCEPT ![hbox] = FreeBox]
    /\ UNCHANGED <<wanted, worker, runSem, handler>>

\* Mistake: the check abandons the closing with the check.
HealthAbandons ==
    /\ HealthLeaves
    /\ box' = [box EXCEPT ![hbox].closer = "none"]
    /\ UNCHANGED <<wanted, worker, runSem, handler>>

\* The goroutine that closes the container goes on by itself.
HealthCloseTimeout ==
    /\ HealthLeaves
    /\ box[hbox].closer # "closed"
    /\ UNCHANGED <<box, wanted, worker, runSem, handler>>

---------------------------------------------------------------------------

WorkerStep(w) == Begin(w) \/ StartOK(w) \/ ExecFails(w) \/ StartHangs(w)
                   \/ SleepOver(w)
CloserStep(c) == CloserWakes(c) \/ CloserUnwants(c) \/ CloserCancels(c)
                   \/ CloserTakes(c) \/ CloserPuts(c)
BodyStep(r) == ReadsBody(r) \/ BodyFails(r)

\* What a handler does without waiting for a slot, a client or a container.
RunStep(r) == WritesStdin(r) \/ WriteFails(r) \/ TakesErr(r) \/ PutsErr(r)
                \/ TimedOut(r) \/ Finished(r) \/ ClosesEarly(r) \/ Responds(r)
                \/ Cancels(r) \/ Joins(r) \/ ReleasesSlot(r)
HandlerStep(r) ==
    \/ Arrive(r) \/ ClientLeaves(r) \/ AcquiresSlot(r) \/ GivesUpSlot(r)
    \/ BodyStep(r) \/ GivesUpContainer(r) \/ Deadline(r) \/ RunStep(r)
    \/ \E w \in Workers : ReceivesContainer(r, w)

HealthStep ==
    \/ HealthBegins \/ HealthGetTimeout \/ HealthClosed \/ HealthCloseTimeout
    \/ \E w \in Workers : HealthReceives(w)

Next ==
    \/ \E w \in Workers : WorkerStep(w)
    \/ \E c \in Containers :
         Halts(c) \/ Ends(c) \/ WaitReturns(c) \/ CloserStep(c)
    \/ \E r \in Requests : HandlerStep(r)
    \/ HealthStep

Spec == Init /\ [][Next]_vars

\* Goroutines run and timers fire; a cancelled container ends and is waited
\* for (StoppableWait); a container that is being started gets ready or fails.
\* Waiting senders and receivers of a Go channel queue in order, so that whoever
\* stays in getContainer is served if containers keep coming: the strong
\* fairness.  Clients need not send a body, nor programs end or read.
Fairness ==
    /\ \A w \in Workers : WF_vars(WorkerStep(w))
    /\ \A c \in Containers : /\ WF_vars(box[c].cancelled /\ Ends(c))
                             /\ WF_vars(WaitReturns(c))
                             /\ WF_vars(CloserStep(c))
    /\ \A r \in Requests :
         /\ WF_vars(Deadline(r))
         /\ WF_vars(RunStep(r) /\ ~WritesStdin(r))
         /\ SF_vars(\E w \in Workers : ReceivesContainer(r, w))

FairSpec == Spec /\ Fairness

---------------------------------------------------------------------------
(* Safety.                                                                 *)

Holders == {r \in Requests : rpc[r] \notin {"idle", "sem"}}

\* runSem counts the handlers between its two ends exactly, whichever way they
\* left, and never more than the numWorkers it is made for (sandbox.go:553-560).
SlotsCounted == runSem = Cardinality(Holders) /\ runSem <= N

\* The handler or goroutine that has taken the error out of c.waitErr.
HasErr(c) ==
    {r \in Requests : rbox[r] = c /\ rpc[r] = "putback"}
      \union (IF box[c].closer = "putback" THEN {"closer"} ELSE {})

\* There is one error per container, from when WaitOrStop returns until the
\* container is forgotten: either in waitErr or in the hands of one of the two
\* that wait for it, who can put it back without blocking (sandbox.go:100-104).
OneError ==
    \A c \in Containers :
        /\ box[c].token = "none" <=> box[c].st # "waited"
        /\ box[c].token = "out" => \E h \in HasErr(c) : HasErr(c) = {h}
        /\ box[c].token # "out" => HasErr(c) = {}

\* Who has container c.
Users(c) ==
    {w \in Workers : wbox[w] = c} \union {r \in Requests : rbox[r] = c}
      \union (IF hbox = c THEN {"health"} ELSE {})

\* A container runs one program in its life: it is a worker's until it is
\* handed over, then one handler's or the health check's, and what is offered
\* has not been cancelled nor waited for (sandbox.go:375 and 416).
UsedOnce ==
    \A c \in Containers :
        /\ \A u, v \in Users(c) : u = v
        /\ \A w \in Workers : wbox[w] = c => box[c].closer = "none"
                                             /\ ~box[c].cancelled
                                             /\ box[c].token # "out"

\* No container runs that nobody will close: a worker holds it, a goroutine
\* closes it or waits for the handler's ctx to do so.  It is wanted until its
\* Close begins, so that none is cancelled that is (sandbox.go:91-98, 436,
\* 582-596).
NoOrphan ==
    \A c \in Containers :
        box[c].st \in {"running", "ended"} =>
            /\ box[c].closer = "none" => \E w \in Workers : wbox[w] = c
            /\ box[c].closer = "await" => \E r \in Requests : rbox[r] = c
            /\ box[c].closer # "closed"
            /\ c \in wanted <=> box[c].closer \in {"none", "await", "close"}
            /\ box[c].cancelled => c \notin wanted

\* A handler keeps its slot until its container has ended and been waited for,
\* so that no more than numWorkers containers run programs at a time, even
\* while some are being killed (sandbox.go:553-560, 584-588).
AtMostNPrograms ==
    Cardinality({c \in Containers : box[c].st # "free"
                   /\ \E r \in Requests : rbox[r] = c}) <= N

\* What is sent as the output of a program is all that its container wrote: the
\* container was given the whole program, ended by itself before the server told
\* it to stop, and no byte was dropped.  That holds of a program its container
\* stopped at its own timeout too: it is answered with what it wrote and the
\* notice on stderr, as tests.go:524-544 requires.  What the server stopped is a
\* timeout, what wrote too much an error (sandbox.go:613-640).
OutputIsGenuine ==
    \A r \in Requests :
        resp[r] = "output" /\ rbox[r] # None =>
            /\ box[rbox[r]].prog # "none"
            /\ box[rbox[r]].inTime
            /\ ~box[rbox[r]].lost
            /\ box[rbox[r]].err \in {"nil", "exit"}

\* What has become of a program whose container is in state b.
Fate(b) ==
    IF b.st = "running" THEN "running"
    ELSE IF ~b.inTime THEN "stopped"
    ELSE IF b.lost THEN "cut"
    ELSE IF b.prog = "none" \/ b.err = "io" THEN "broken"
    ELSE IF b.prog = "halted" THEN "halted" ELSE "ended"

\* The state of RunService: who has a request, whose time is over, whose program
\* was seen to end before that, and what has become of each one's program.
Busy == {r \in Requests : rpc[r] # "idle"}
Late == {r \in Requests : rctx[r] = "deadline"}
Settled == {r \in Requests : rpc[r] \in {"finish", "respond"}}
ProgramOf(r) == IF rbox[r] = None THEN "none" ELSE Fate(box[rbox[r]])
Programs == [r \in Requests |-> ProgramOf(r)]

Service == INSTANCE RunService WITH
    Limit <- N, busy <- Busy, late <- Late, settled <- Settled,
    program <- Programs, answer <- resp

\* The server keeps the promise RunService: each request is answered at most
\* once, and not while its program runs; an answer fits how the program ended,
\* even if the deadline comes just after the handler looked; the server stops a
\* program only when its time is over, though every container is cancelled in
\* the end; and when the request is over there is none left, and never more than
\* numWorkers of them (sandbox.go:530-641).  A program that its own container
\* stops, half a second earlier, counts as one that ends by itself.
KeepsPromise == Service!Spec

---------------------------------------------------------------------------
(* Liveness.                                                               *)

\* Once a handler has a container it answers and gives its slot back, whatever
\* the program, the container and the client do (sandbox.go:582-623).
RunsEnd == \A r \in Requests : rpc[r] = "write" ~> rpc[r] = "idle"

\* A handler that waits for a container gets one, if starts do not fail, even
\* against health checks (sandbox.go:367-377, 414-421).
GetsContainer ==
    \A r \in Requests : rpc[r] = "get" ~> rpc[r] \in {"write", "release"}

\* A health check whose client-side 3s are over leaves nothing behind: what
\* it took is closed in the end (sandbox.go:270-281).
TakenIsClosed ==
    \A c \in Containers :
        box[c].closer = "close" ~> box[c].closer \in {"none", "closed"}

---------------------------------------------------------------------------
(* The inductive invariant: who has a container and how far its ending is. *)

\* A worker at pc with container c, whose state is b.
WorkerInv(pc, c, b) ==
    /\ c # None <=> pc \in {"starting", "offer", "stuck"}
    /\ c # None =>
         /\ b.closer = "none" /\ ~b.cancelled /\ b.token # "out"
         /\ b.prog = "none"
         /\ pc = "offer" => b.st \in {"running", "ended", "waited"}
         /\ pc # "offer" => b.st = "made"

Using == {"write", "wait", "putback", "check", "finish", "respond", "cancel",
          "join"}
Genuine(b) ==
    b.prog # "none" /\ b.inTime /\ ~b.lost /\ b.err \in {"nil", "exit"}

\* A handler at pc with its ctx, its response a, and container c in state b.
HandlerInv(pc, c, ctx, a, b) ==
    /\ c # None <=> pc \in Using
    /\ a # "none" => pc \in {"cancel", "join", "release"}
    /\ pc \in {"idle", "sem", "body", "get"} => ctx = "live"
    /\ c # None =>
         /\ b.st \in {"running", "ended", "waited"} /\ b.closer # "none"
         /\ b.closer = "await" \/ ctx # "live"
         /\ pc = "putback" => b.token = "out" /\ b.closer # "putback"
         /\ pc = "write" => b.prog = "none"
         /\ pc \in {"wait", "putback", "check", "finish", "respond"} =>
              b.prog # "none"
         /\ pc \in {"check", "finish", "respond"} => b.st = "waited"
         /\ pc \in {"write", "wait", "putback", "check", "finish"} =>
              ctx # "canceled"
         /\ pc \in {"finish", "respond"} => b.inTime
         /\ pc = "respond" => ctx # "live"
         /\ pc \in {"cancel", "join"} => a # "none" /\ b.st # "running"
         /\ a = "output" => b.st = "waited" /\ Genuine(b)

HealthInv(pc, c, b) ==
    /\ c # None <=> pc = "closing"
    /\ c # None => /\ b.st \in {"running", "ended", "waited"}
                   /\ b.closer \notin {"none", "await"}

\* A container in state b; whether it is wanted; whether a worker, a handler or
\* the health check has it; and whether a handler holds its error.
BoxInv(b, isWanted, byWorker, byHandler, byHealth, held) ==
    /\ b.st = "free" => b = FreeBox
    /\ b.closer = "none" /\ b.st # "free" => byWorker
    /\ b.closer = "await" => byHandler
    /\ b.cancelled <=> b.closer \in {"wait", "putback", "closed"}
    /\ b.closer = "closed" => b.st = "waited" /\ (byHandler \/ byHealth)
    /\ b.token = "none" <=> b.st # "waited"
    /\ b.closer = "putback" => b.token = "out"
    /\ b.token = "out" => b.closer = "putback" \/ held
    /\ isWanted <=> b.st # "free" /\ b.closer \in {"none", "await", "close"}
    /\ b.st \in {"ended", "waited"} => b.cancelled \/ b.inTime
    /\ b.lost => b.err # "nil" /\ b.prog # "none"
    /\ b.inTime => b.err \in {"nil", "exit", "io"}

WorkerHas(c) == \E w \in Workers : wbox[w] = c
HandlerHas(c) == \E r \in Requests : rbox[r] = c
HandlerHolds(c) == \E r \in Requests : rbox[r] = c /\ rpc[r] = "putback"

OneUser(c) ==
    /\ \A w, v \in Workers : wbox[w] = c /\ wbox[v] = c => w = v
    /\ \A r, q \in Requests : rbox[r] = c /\ rbox[q] = c => r = q
    /\ hbox = c => ~HandlerHas(c)

IInv ==
    /\ TypeOK
    /\ \A w \in Workers : WorkerInv(wpc[w], wbox[w], box[wbox[w]])
    /\ \A r \in Requests :
         HandlerInv(rpc[r], rbox[r], rctx[r], resp[r], box[rbox[r]])
    /\ HealthInv(hpc, hbox, box[hbox])
    /\ \A c \in Containers :
         /\ BoxInv(box[c], c \in wanted, WorkerHas(c), HandlerHas(c), hbox = c,
                   HandlerHolds(c))
         /\ OneUser(c)
====
