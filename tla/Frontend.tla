---- MODULE Frontend ----
(***************************************************************************)
(* The frontend's command handlers (sandbox.go, vet.go, cache.go): /compile *)
(* builds a program, vets it if asked, and has the sandbox run it; /vet     *)
(* vets only; /_ah/health builds a fixed program.  Answers of the first two *)
(* are kept in memcache under a key made of a prefix and the body.          *)
(*                                                                         *)
(* A response is abstracted to what decides its fate: the kind of its       *)
(* Errors, what its stderr events contain, and what vet said.  internal     *)
(* stands for a text that contains one of internalErrors.                  *)
(***************************************************************************)
EXTENDS Naturals, FiniteSets

CONSTANTS
    Requests,   \* the connections requests come on, one at a time each
    Bodies,     \* programs
    Asks,       \* what clients ask for
    None

AllAsks == [cmd : {"compile", "vet", "health"}, vet : BOOLEAN, body : Bodies]

VARIABLES
    cache,   \* what memcache holds under each key
    pc,      \* pcs of the handlers
    ask,     \* the request, and its handler's endpoint
    gone,    \* the client has closed the request, r.Context() is done
    ctx,     \* the ctx of the command that runs, with its timeout
    dirs,    \* the temporary directories of the handler
    vetOut,  \* br.vetOut
    resp,    \* resp
    sent     \* the status the client was answered with

handler == <<pc, ask, gone, ctx, dirs, vetOut, resp, sent>>
vars == <<cache, handler>>

\* "prog" becomes "prog_vet", and so "vet" would become "vet_vet".
Prefix(a) ==
    IF a.cmd = "compile" THEN IF a.vet THEN "prog_vet" ELSE "prog"
                         ELSE IF a.vet THEN "vet_vet" ELSE "vet"

\* Mistake: the prefix does not tell requests with vet apart.
KeyOfCommand(a) == [prefix |-> IF a.cmd = "vet" THEN "vet" ELSE "prog",
                    body |-> a.body]

cacheKey(a) == [prefix |-> Prefix(a), body |-> a.body]

Keys == [prefix : {"prog", "prog_vet", "vet", "vet_vet"}, body : Bodies]

\* to is a history variable: the request the answer was computed for.
Responses ==
    [errors : {"none", "user", "buildTimeout", "runTimeout", "internal"},
     stderr : {"none", "plain", "timeout", "internal"},
     vet : {"none", "ok", "issues"},
     to : Asks]

ASSUME FrontendAssumption ==
    /\ Asks \subseteq AllAsks
    /\ None \notin AllAsks \union Responses

Error(kind, a) ==
    [errors |-> kind, stderr |-> "none", vet |-> "none", to |-> a]

TypeOK ==
    /\ cache \in [Keys -> Responses \union {None}]
    /\ pc \in [Requests -> {"idle", "get", "begin", "build", "vet", "run",
                            "judge", "set", "done"}]
    /\ ask \in [Requests -> Asks \union {None}]
    /\ gone \in [Requests -> BOOLEAN]
    /\ ctx \in [Requests -> {"live", "canceled", "deadline"}]
    /\ dirs \in [Requests -> SUBSET {"tmp", "gopath"}]
    /\ vetOut \in [Requests -> {"", "issues"}]
    /\ resp \in [Requests -> Responses \union {None}]
    /\ sent \in [Requests -> {"none", "200", "400", "500"}]
    /\ \A r \in Requests :
         /\ pc[r] = "idle" \/ sent[r] = "400" <=> ask[r] = None
         /\ \/ pc[r] \in {"judge", "set"}
            \/ sent[r] = "200" /\ ask[r].cmd # "health"
            => resp[r] # None

Init ==
    /\ cache = [k \in Keys |-> None]
    /\ pc = [r \in Requests |-> "idle"]
    /\ ask = [r \in Requests |-> None]
    /\ gone = [r \in Requests |-> FALSE]
    /\ ctx = [r \in Requests |-> "live"]
    /\ dirs = [r \in Requests |-> {}]
    /\ vetOut = [r \in Requests |-> ""]
    /\ resp = [r \in Requests |-> None]
    /\ sent = [r \in Requests |-> "none"]

Goto(r, from, to) == pc[r] = from /\ pc' = [pc EXCEPT ![r] = to]

\* cmdFunc is left: every deferred removal and cancel runs, and nobody will
\* look at r.Context() any more, which the model forgets.
Leaves(r) ==
    /\ dirs' = [dirs EXCEPT ![r] = {}]
    /\ gone' = [gone EXCEPT ![r] = FALSE]
    /\ ctx' = [ctx EXCEPT ![r] = "live"]
    /\ vetOut' = [vetOut EXCEPT ![r] = ""]

\* The handler answers with this status.
Answer(r, from, status) ==
    /\ Goto(r, from, "done")
    /\ sent' = [sent EXCEPT ![r] = status]
    /\ Leaves(r)

\* cmdFunc returns this response, to be judged by commandHandler.  healthCheck
\* makes an error of what sandboxBuild has to say to the user.
Returns(r, from, response) ==
    IF ask[r].cmd = "health"
      THEN Answer(r, from, "500") /\ UNCHANGED resp
      ELSE /\ Goto(r, from, "judge")
           /\ resp' = [resp EXCEPT ![r] = response]
           /\ Leaves(r)
           /\ UNCHANGED sent

\* A command gets a ctx of its own: that of the request, with a timeout.
NewCtx(r) == ctx' = [ctx EXCEPT ![r] = IF gone[r] THEN "canceled" ELSE "live"]

---------------------------------------------------------------------------
(* Requests, and the ctx.                                                  *)

Arrives(r) ==
    /\ \E a \in Asks :
         /\ Goto(r, "idle", IF a.cmd = "health" THEN "begin" ELSE "get")
         /\ ask' = [ask EXCEPT ![r] = a]
    /\ UNCHANGED <<cache, gone, ctx, dirs, vetOut, resp, sent>>

\* Neither a form with a body nor JSON that decodes.
BadRequest(r) ==
    /\ Answer(r, "idle", "400")
    /\ UNCHANGED <<cache, ask, resp>>

\* The client closes the connection.
ClientLeaves(r) ==
    /\ pc[r] \in {"get", "begin", "build", "vet", "run"}
    /\ ~gone[r]
    /\ gone' = [gone EXCEPT ![r] = TRUE]
    /\ ctx' = [ctx EXCEPT ![r] = IF @ = "live" THEN "canceled" ELSE @]
    /\ UNCHANGED <<cache, pc, ask, dirs, vetOut, resp, sent>>

\* Mistake: only running a program has a timeout.
RunDeadlineOnly(r) ==
    /\ pc[r] = "run"
    /\ ctx[r] = "live"
    /\ ctx' = [ctx EXCEPT ![r] = "deadline"]
    /\ UNCHANGED <<cache, pc, ask, gone, dirs, vetOut, resp, sent>>

\* maxBuildTime or maxRunTime is over.
Deadline(r) ==
    /\ pc[r] \in {"build", "run"}
    /\ ctx[r] = "live"
    /\ ctx' = [ctx EXCEPT ![r] = "deadline"]
    /\ UNCHANGED <<cache, pc, ask, gone, dirs, vetOut, resp, sent>>

\* The connection is ready for its next request.
Done(r) ==
    /\ Goto(r, "done", "idle")
    /\ ask' = [ask EXCEPT ![r] = None]
    /\ resp' = [resp EXCEPT ![r] = None]
    /\ sent' = [sent EXCEPT ![r] = "none"]
    /\ UNCHANGED <<cache, gone, ctx, dirs, vetOut>>

---------------------------------------------------------------------------
(* commandHandler.                                                         *)

\* Mistake: what Get found is not looked at.
HitBlindly(r) ==
    /\ Answer(r, "get", "200")
    /\ resp' = [resp EXCEPT ![r] = cache[cacheKey(ask[r])]]
    /\ UNCHANGED <<cache, ask>>

Hit(r) ==
    /\ pc[r] = "get" /\ cache[cacheKey(ask[r])] # None
    /\ Answer(r, "get", "200")
    /\ resp' = [resp EXCEPT ![r] = cache[cacheKey(ask[r])]]
    /\ UNCHANGED <<cache, ask>>

\* A miss; a Get that fails, or finds an item evicted, has the same effect.
Miss(r) ==
    /\ Goto(r, "get", "begin")
    /\ UNCHANGED <<cache, ask, gone, ctx, dirs, vetOut, resp, sent>>

Timeouts == {"buildTimeout", "runTimeout"}

SendsTimeout(r) ==
    /\ pc[r] = "judge" /\ resp[r].errors \in Timeouts
    /\ Answer(r, "judge", "200")
    /\ UNCHANGED <<cache, ask, resp>>

IsInternal(response) ==
    response.errors = "internal" \/ response.stderr = "internal"

HidesInternal(r) ==
    /\ pc[r] = "judge" /\ IsInternal(resp[r])
    /\ Answer(r, "judge", "500")
    /\ UNCHANGED <<cache, ask, resp>>

Keeps(r) ==
    /\ pc[r] = "judge"
    /\ resp[r].errors \notin Timeouts /\ ~IsInternal(resp[r])
    /\ Goto(r, "judge", "set")
    /\ UNCHANGED <<cache, ask, gone, ctx, dirs, vetOut, resp, sent>>

Set(r) ==
    /\ Answer(r, "set", "200")
    /\ cache' = [cache EXCEPT ![cacheKey(ask[r])] = resp[r]]
    /\ UNCHANGED <<ask, resp>>

SetFails(r) ==
    /\ Answer(r, "set", "200")
    /\ UNCHANGED <<cache, ask, resp>>

---------------------------------------------------------------------------
(* sandboxBuild.                                                           *)

\* The directories are made, the files written, and go build started.
BeginBuild(r) ==
    /\ ask[r] # None /\ ask[r].cmd # "vet"
    /\ Goto(r, "begin", "build")
    /\ dirs' = [dirs EXCEPT ![r] = {"tmp", "gopath"}]
    /\ NewCtx(r)
    /\ UNCHANGED <<cache, ask, gone, vetOut, resp, sent>>

\* splitFiles does not accept the body, or the package is not main.
Refuses(r) ==
    /\ pc[r] = "begin" /\ ask[r].cmd # "vet"
    /\ Returns(r, "begin", Error("user", ask[r]))
    /\ UNCHANGED <<cache, ask>>

\* A directory, a file or the process cannot be made.
BeginFails(r) ==
    /\ Answer(r, "begin", "500")
    /\ UNCHANGED <<cache, ask, resp>>

\* Mistake: GOPATH is removed as soon as the build is over.
BuildOKCleansUp(r) ==
    /\ pc[r] = "build" /\ ask[r].cmd = "compile"
    /\ Goto(r, "build", IF ask[r].vet THEN "vet" ELSE "run")
    /\ NewCtx(r)
    /\ dirs' = [dirs EXCEPT ![r] = @ \ {"gopath"}]
    /\ UNCHANGED <<cache, ask, gone, vetOut, resp, sent>>

\* go build is over and left a program.  cleanup removes GOPATH when
\* sandboxBuild returns, which is after vet.
BuildOK(r) ==
    /\ pc[r] = "build" /\ ask[r].cmd = "compile"
    /\ Goto(r, "build", IF ask[r].vet THEN "vet" ELSE "run")
    /\ NewCtx(r)
    /\ dirs' = [dirs EXCEPT ![r] = IF ask[r].vet THEN @ ELSE @ \ {"gopath"}]
    /\ UNCHANGED <<cache, ask, gone, vetOut, resp, sent>>

HealthOK(r) ==
    /\ pc[r] = "build" /\ ask[r].cmd = "health"
    /\ Answer(r, "build", "200")
    /\ UNCHANGED <<cache, ask, resp>>

\* go build exits with an error: its output is the user's.
BuildFails(r) ==
    /\ pc[r] = "build"
    /\ \E kind \in {"user", "internal"} :
         Returns(r, "build", Error(kind, ask[r]))
    /\ UNCHANGED <<cache, ask>>

\* WaitOrStop returns ctx.Err(), of one kind or the other.
BuildTimesOut(r) ==
    /\ pc[r] = "build" /\ ctx[r] = "deadline"
    /\ Returns(r, "build", Error("buildTimeout", ask[r]))
    /\ UNCHANGED <<cache, ask>>

BuildCanceled(r) ==
    /\ ctx[r] = "canceled"
    /\ Answer(r, "build", "500")
    /\ UNCHANGED <<cache, ask, resp>>

\* WaitOrStop returns another error, or there is no binary of a fair size.
BuildBreaks(r) ==
    /\ Answer(r, "build", "500")
    /\ UNCHANGED <<cache, ask, resp>>

---------------------------------------------------------------------------
(* vetCheckInDir, for vetCheck or for sandboxBuild; it looks at no ctx.    *)

BeginVet(r) ==
    /\ ask[r] # None /\ ask[r].cmd = "vet"
    /\ Goto(r, "begin", "vet")
    /\ dirs' = [dirs EXCEPT ![r] = {"tmp"}]
    /\ UNCHANGED <<cache, ask, gone, ctx, vetOut, resp, sent>>

Vetted(r) ==
    /\ pc[r] = "vet" /\ ask[r].cmd = "vet"
    /\ \E kind \in {"none", "user", "internal"} :
         Returns(r, "vet", Error(kind, ask[r]))
    /\ UNCHANGED <<cache, ask>>

VettedBuild(r) ==
    /\ pc[r] = "vet" /\ ask[r].cmd = "compile"
    /\ Goto(r, "vet", "run")
    /\ \E out \in {"", "issues"} :
         vetOut' = [vetOut EXCEPT ![r] = out]
    /\ dirs' = [dirs EXCEPT ![r] = @ \ {"gopath"}]
    /\ NewCtx(r)
    /\ UNCHANGED <<cache, ask, gone, resp, sent>>

VetBreaks(r) ==
    /\ Answer(r, "vet", "500")
    /\ UNCHANGED <<cache, ask, resp>>

---------------------------------------------------------------------------
(* sandboxRun, and the end of compileAndRun.                               *)

VetShown(r) ==
    IF vetOut[r] # "" THEN vetOut[r] ELSE IF ask[r].vet THEN "ok" ELSE "none"

\* The program's output.  A program that is stopped inside its container, after
\* runTimeout - 500ms, has that said by the last line of its stderr.
RunOK(r) ==
    /\ pc[r] = "run"
    /\ \E stderr \in {"plain", "timeout", "internal"} :
         Returns(r, "run", [errors |-> "none", stderr |-> stderr,
                            vet |-> VetShown(r), to |-> ask[r]])
    /\ UNCHANGED <<cache, ask>>

\* The sandbox answers with an Error: a timeout, or too much output.
RunRefused(r) ==
    /\ pc[r] = "run"
    /\ \E kind \in {"runTimeout", "user"} :
         Returns(r, "run", Error(kind, ask[r]))
    /\ UNCHANGED <<cache, ask>>

RunTimesOut(r) ==
    /\ pc[r] = "run" /\ ctx[r] = "deadline"
    /\ Returns(r, "run", Error("runTimeout", ask[r]))
    /\ UNCHANGED <<cache, ask>>

RunCanceled(r) ==
    /\ ctx[r] = "canceled"
    /\ Answer(r, "run", "500")
    /\ UNCHANGED <<cache, ask, resp>>

\* The POST fails, another status than OK comes back, its JSON is cut off, or
\* the events in it do not decode.
RunBreaks(r) ==
    /\ Answer(r, "run", "500")
    /\ UNCHANGED <<cache, ask, resp>>

---------------------------------------------------------------------------
(* commandHandler's own steps, which it takes without being made to wait for *)
(* anything but memcache.                                                  *)
Handles(r) ==
    \/ Hit(r) \/ Miss(r) \/ SendsTimeout(r) \/ HidesInternal(r) \/ Keeps(r)
    \/ Set(r) \/ SetFails(r) \/ BeginBuild(r) \/ Refuses(r) \/ BeginFails(r)
    \/ BeginVet(r) \/ Done(r)

\* WaitOrStop and the HTTP client end a command whose ctx is done.
Stops(r) ==
    \/ BuildTimesOut(r) \/ BuildCanceled(r) \/ RunTimesOut(r) \/ RunCanceled(r)

VetEnds(r) == Vetted(r) \/ VettedBuild(r) \/ VetBreaks(r)

\* go build and the program may end or not.
MayEnd(r) ==
    \/ BuildOK(r) \/ HealthOK(r) \/ BuildFails(r) \/ BuildBreaks(r)
    \/ RunOK(r) \/ RunRefused(r) \/ RunBreaks(r)

Next ==
    \E r \in Requests :
        \/ Arrives(r) \/ BadRequest(r) \/ ClientLeaves(r) \/ Deadline(r)
        \/ Handles(r) \/ Stops(r) \/ VetEnds(r) \/ MayEnd(r)

Spec == Init /\ [][Next]_vars

\* Timers fire, memcache answers or times out, WaitOrStop and the HTTP client
\* return once their ctx is done, and go vet ends.  Nothing makes go build or a
\* program end by itself.
FairSpec ==
    /\ Spec
    /\ \A r \in Requests :
         /\ WF_vars(Handles(r))
         /\ WF_vars(Deadline(r))
         /\ WF_vars(Stops(r))
         /\ WF_vars(VetEnds(r))

---------------------------------------------------------------------------
(* Safety.                                                                 *)

\* Does this response answer this request?  It was computed for the same
\* endpoint and body, and tells about vet exactly if vet was asked for and the
\* program ran (sandbox.go:77-83, 113-118, 343-356, 374-381).
Answers(response, a) ==
    /\ response.to.cmd = a.cmd /\ response.to.body = a.body
    /\ response.vet # "none" <=> a.cmd = "compile" /\ a.vet
                                   /\ response.errors = "none"

\* Whatever requests ran side by side and filled the cache before, a response
\* sent with status 200 answers the request it is sent for: the key separates
\* endpoints, bodies and whether vet was asked for (sandbox.go:113-123).
OwnAnswer ==
    \A r \in Requests :
        sent[r] = "200" /\ ask[r].cmd # "health" => Answers(resp[r], ask[r])

\* No timeout is kept: whether a program ends in time is a matter of the moment,
\* and another try may see its whole output (sandbox.go:58-59, 129-137,
\* server_test.go:250-256).  The code does not keep this: only the Errors of a
\* response are searched for a timeout, while a program that is stopped in its
\* container has it in its stderr, and is cached.
NoTimeoutCached ==
    \A k \in Keys :
        cache[k] # None => /\ cache[k].errors \notin Timeouts
                           /\ cache[k].stderr # "timeout"

\* The directories of a tool that runs at p for the request a.
Needs(p, a) ==
    IF p = "build" \/ (p = "vet" /\ a.cmd = "compile")
      THEN {"tmp", "gopath"}
      ELSE IF p \in {"vet", "run"} THEN {"tmp"} ELSE {}

\* A tool has its directories while it runs, and every directory is gone when
\* the handler is back from cmdFunc, whichever way (sandbox.go:335, 400-405, 429,
\* vet.go:34).
DirsKept == \A r \in Requests : dirs[r] = Needs(pc[r], ask[r])

---------------------------------------------------------------------------
(* Liveness.                                                               *)

\* Every request is answered, though go build and the program may run for ever
\* and the client may leave at any time (sandbox.go:504-506, 560-577).
Answered == \A r \in Requests : pc[r] \in {"get", "begin"} ~> pc[r] = "idle"

---------------------------------------------------------------------------
(* The inductive invariant of the proofs (module FrontendProofs).          *)

\* A response that tells about vet exactly if that was asked for, of a command.
WellMade(response) ==
    /\ response.to.cmd # "health"
    /\ Answers(response, response.to)

\* What is kept under a key was computed for a request with that key.
CacheInv ==
    \A k \in Keys :
        cache[k] # None => WellMade(cache[k]) /\ cacheKey(cache[k].to) = k

\* Where a handler may be with which request.
PlaceInv ==
    \A r \in Requests :
        /\ pc[r] \in {"get", "judge", "set"} => ask[r].cmd # "health"
        /\ pc[r] = "build" => ask[r].cmd # "vet"
        /\ pc[r] = "vet" => \/ ask[r].cmd = "vet"
                            \/ ask[r].cmd = "compile" /\ ask[r].vet
        /\ pc[r] = "run" => ask[r].cmd = "compile"
        /\ pc[r] # "run" => vetOut[r] = ""
        /\ vetOut[r] # "" => ask[r].vet
        /\ pc[r] # "done" => sent[r] = "none"

\* A response that is judged or set belongs to the request.
RespInv ==
    \A r \in Requests :
        pc[r] \in {"judge", "set"} => WellMade(resp[r]) /\ resp[r].to = ask[r]

IInv ==
    /\ TypeOK /\ CacheInv /\ PlaceInv /\ RespInv
    /\ OwnAnswer /\ DirsKept
====
