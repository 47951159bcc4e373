---- MODULE StartContainer ----
(***************************************************************************)
(* workerLoop and startContainer (sandbox/sandbox.go:367-377 and 423-528): *)
(* a worker starts one gVisor container after another and hands each to    *)
(* whoever asks next.  A start involves five activities that only channels *)
(* and pipes order: the worker, the goroutine that reads the header, the   *)
(* goroutine of os/exec that copies the container's output through         *)
(* switchWriter, the goroutine in WaitOrStop, and the container itself.    *)
(*                                                                         *)
(* WaitOrStop enters by its contract (module StoppableWait): a container   *)
(* that is cancelled ends some time later, and the wait returns when it    *)
(* has ended and its output is copied.                                     *)
(***************************************************************************)
EXTENDS Writers, SequencesExt

CONSTANTS
    Alphabet,      \* symbols a container writes
    MaxStarts,     \* bound: containers started by the worker
    MaxWritten,    \* bound: symbols one container writes
    StdoutCap      \* n of the new limitedWriter

ASSUME StartAssumption ==
    /\ Header \in Seq(Alphabet)
    /\ MaxStarts \in Nat \ {0} /\ MaxWritten \in Nat
    /\ StdoutCap \in Nat \ {0}

Names == 1..MaxStarts   \* the n-th name randHex makes

VARIABLES
    worker,   \* pc of the worker
    last,     \* the name made last, 0 at first
    wanted,   \* containerWanted
    handed,   \* containers received from readyContainer, not yet closed
    process,  \* container last: its docker process and its context
    copy,     \* os/exec's goroutine that copies its stdout, and the writers
    header    \* the goroutine that reads the header, and startErr

registry == <<last, wanted, handed>>
vars == <<worker, registry, process, copy, header>>

TypeOK ==
    /\ worker \in {"begin", "start", "select", "timeout", "offer", "sleep",
                   "crashed"}
    /\ last \in Names \union {0}
    /\ wanted \subseteq Names
    /\ handed \subseteq Names
    /\ process \in [cancelled : BOOLEAN,
                    child : {"none", "running", "ended"},
                    written : Seq(Alphabet),  \* all it wrote to its stdout
                    waited : BOOLEAN]         \* WaitOrStop has returned
    /\ copy \in [pc : {"copy", "pipe", "done"},   \* "pipe": in pw.Write
                 count : Nat,                     \* bytes of written read
                 piped : Seq(Alphabet),     \* what pw.Write has to hand over
                 after : Seq(Alphabet),     \* the same chunk's part for stdout
                 sw : [buf : Seq(Alphabet), found : BOOLEAN],
                 stdout : [dst : Seq(Alphabet), n : Int]]
    /\ copy.count <= Len(process.written)
    /\ header \in [pc : {"none", "read", "done"},
                   buf : Seq(Alphabet),
                   startErr : {"empty", "nil", "wrong"}]  \* 1-buffered

NewProcess == [cancelled |-> FALSE, child |-> "none", written |-> <<>>,
               waited |-> FALSE]
NewCopy == [pc |-> "copy", count |-> 0, piped |-> <<>>, after |-> <<>>,
            sw |-> NewSwitch, stdout |-> NewLimited(StdoutCap)]
NewHeader == [pc |-> "none", buf |-> <<>>, startErr |-> "empty"]

Init ==
    /\ worker = "begin"
    /\ last = 0
    /\ wanted = {}
    /\ handed = {}
    /\ process = NewProcess
    /\ copy = NewCopy
    /\ header = NewHeader

\* A panic ends the server and everything in it.
Up == worker # "crashed"

---------------------------------------------------------------------------
(* The worker.                                                             *)

\* Mistake: the new container copies with the writers of the last one.
BeginKeepsCopy ==
    /\ worker = "begin"
    /\ last < MaxStarts
    /\ last' = last + 1
    /\ wanted' = wanted \union {last + 1}
    /\ worker' = "start"
    /\ process' = NewProcess /\ header' = NewHeader
    /\ UNCHANGED <<handed, copy>>

\* A fresh name, wanted from now on, and new pipes, writers and channels.
Begin ==
    /\ worker = "begin"
    /\ last < MaxStarts
    /\ last' = last + 1
    /\ wanted' = wanted \union {last + 1}
    /\ worker' = "start"
    /\ process' = NewProcess /\ copy' = NewCopy /\ header' = NewHeader
    /\ UNCHANGED handed

\* cmd.StdinPipe or cmd.Start fails; nothing takes the name back.
ExecFails ==
    /\ worker = "start"
    /\ worker' = "sleep"
    /\ UNCHANGED <<registry, process, copy, header>>

ExecStarts ==
    /\ worker = "start"
    /\ process' = [process EXCEPT !.child = "running"]
    /\ header' = [header EXCEPT !.pc = "read"]
    /\ worker' = "select"
    /\ UNCHANGED <<registry, copy>>

\* startTimeout elapses: cancel(), then <-startErr.
TimerFires ==
    /\ worker = "select"
    /\ process' = [process EXCEPT !.cancelled = TRUE]
    /\ worker' = "timeout"
    /\ UNCHANGED <<registry, copy, header>>

\* Mistake: any header will do.
ReadyUnchecked ==
    /\ worker = "select"
    /\ header.startErr # "empty"
    /\ header' = [header EXCEPT !.startErr = "empty"]
    /\ worker' = "offer"
    /\ UNCHANGED <<registry, process, copy>>

\* The header is there and right.
Ready ==
    /\ worker = "select"
    /\ header.startErr = "nil"
    /\ header' = [header EXCEPT !.startErr = "empty"]
    /\ worker' = "offer"
    /\ UNCHANGED <<registry, process, copy>>

\* Every later return is "return nil, err".  It sets the named result c to nil
\* before the deferred function calls c.Close(), and Close reads c.name: the
\* nil dereference panics and takes the whole server down.
ReturnError ==
    /\ \/ worker = "select" /\ header.startErr = "wrong"
       \/ worker = "timeout" /\ header.startErr # "empty"
    /\ header' = [header EXCEPT !.startErr = "empty"]
    /\ worker' = "crashed"
    /\ UNCHANGED <<registry, process, copy>>

SleepOver ==
    /\ worker = "sleep"
    /\ worker' = "begin"
    /\ UNCHANGED <<registry, process, copy, header>>

\* readyContainer <- c
HandOver ==
    /\ worker = "offer"
    /\ handed' = handed \union {last}
    /\ worker' = "begin"
    /\ UNCHANGED <<last, wanted, process, copy, header>>

\* Mistake: the name taken back is the one made last.
CloseLast(n) ==
    /\ Up
    /\ n \in handed
    /\ handed' = handed \ {n}
    /\ wanted' = wanted \ {last}
    /\ UNCHANGED <<worker, last, process, copy, header>>

\* Whoever received a container closes it (what else Close does is the
\* business of module SandboxPool).
Close(n) ==
    /\ Up
    /\ n \in handed
    /\ handed' = handed \ {n}
    /\ wanted' = wanted \ {n}
    /\ UNCHANGED <<worker, last, process, copy, header>>

---------------------------------------------------------------------------
(* The container and WaitOrStop.                                           *)

Write(p) ==
    /\ Up
    /\ process.child = "running"
    /\ Len(process.written) + Len(p) <= MaxWritten
    /\ process' = [process EXCEPT !.written = @ \o p]
    /\ UNCHANGED <<worker, registry, copy, header>>

Exit ==
    /\ Up
    /\ process.child = "running"
    /\ process' = [process EXCEPT !.child = "ended"]
    /\ UNCHANGED <<worker, registry, copy, header>>

WaitOrStopReturns ==
    /\ Up
    /\ process.child = "ended"
    /\ copy.pc = "done"
    /\ ~process.waited
    /\ process' = [process EXCEPT !.waited = TRUE]
    /\ UNCHANGED <<worker, registry, copy, header>>

---------------------------------------------------------------------------
(* os/exec's copying goroutine and the header reader.                      *)

\* After stdout.Write(p) the goroutine, in state c, goes on or gives up.
AfterStdout(c, p) ==
    [c EXCEPT !.stdout = LimitedWrite(@, p),
              !.pc = IF LimitedFails(c.stdout, p) THEN "done" ELSE "copy"]

Unread == SubSeq(process.written, copy.count + 1, Len(process.written))

\* The goroutine reads a chunk and passes it to switchWriter.Write, which
\* blocks in pw.Write unless the header has been found before.
CopyChunk(k) ==
    /\ Up
    /\ copy.pc = "copy"
    /\ k <= Len(Unread)
    /\ LET p == SubSeq(Unread, 1, k)
           c == [copy EXCEPT !.count = @ + k, !.sw = SwitchWrite(@, p)]
       IN  copy' =
             IF copy.sw.found
               THEN AfterStdout(c, p)
               ELSE [c EXCEPT !.pc = "pipe", !.piped = ToFirst(copy.sw, p),
                              !.after = ToSecond(copy.sw, p)]
    /\ UNCHANGED <<worker, registry, process, header>>

\* io.ReadFull takes what the pipe offers, up to the length of the header,
\* and then reports.  Nobody reads from the pipe afterwards.
ReadHeader ==
    /\ Up
    /\ header.pc = "read"
    /\ copy.piped # <<>>
    /\ LET taken == Longest(copy.piped, Len(Header) - Len(header.buf))
           buf == header.buf \o taken
       IN  /\ copy' = [copy EXCEPT !.piped = SubSeq(@, Len(taken) + 1, Len(@))]
           /\ header' =
                IF Len(buf) < Len(Header)
                  THEN [header EXCEPT !.buf = buf]
                  ELSE [pc |-> "done", buf |-> buf,
                        startErr |-> IF buf = Header THEN "nil" ELSE "wrong"]
    /\ UNCHANGED <<worker, registry, process>>

\* Mistake: what follows the header in its chunk is not passed on.
PipeWrittenOnly ==
    /\ Up
    /\ copy.pc = "pipe"
    /\ copy.piped = <<>>
    /\ copy' = [copy EXCEPT !.pc = "copy", !.after = <<>>]
    /\ UNCHANGED <<worker, registry, process, header>>

\* Mistake: a short count returned for the write ends the copying.
PipeWrittenShort ==
    /\ Up
    /\ copy.pc = "pipe"
    /\ copy.piped = <<>>
    /\ copy' = [copy EXCEPT !.pc = "done"]
    /\ UNCHANGED <<worker, registry, process, header>>

\* pw.Write returns; if the chunk held the header, its rest goes to stdout.
PipeWritten ==
    /\ Up
    /\ copy.pc = "pipe"
    /\ copy.piped = <<>>
    /\ copy' = IF copy.sw.found
                 THEN AfterStdout([copy EXCEPT !.after = <<>>], copy.after)
                 ELSE [copy EXCEPT !.pc = "copy"]
    /\ UNCHANGED <<worker, registry, process, header>>

CopyEOF ==
    /\ Up
    /\ copy.pc = "copy"
    /\ process.child = "ended"
    /\ Unread = <<>>
    /\ copy' = [copy EXCEPT !.pc = "done"]
    /\ UNCHANGED <<worker, registry, process, header>>

---------------------------------------------------------------------------

WorkerStep == Begin \/ ExecFails \/ ExecStarts \/ TimerFires \/ Ready
                \/ ReturnError \/ SleepOver \/ HandOver
CopierStep == (\E k \in 1..MaxWritten : CopyChunk(k)) \/ PipeWritten \/ CopyEOF
Chunks == UNION {[1..k -> Alphabet] : k \in 1..MaxWritten}

Next ==
    \/ WorkerStep
    \/ CopierStep
    \/ ReadHeader
    \/ WaitOrStopReturns
    \/ Exit
    \/ \E p \in Chunks : Write(p)
    \/ \E n \in Names : Close(n)

Spec == Init /\ [][Next]_vars

\* The goroutines run, a container that was started is waited for, and a
\* cancelled one ends (StoppableWait).  Nothing makes a container greet, nor
\* anybody take one.
Fairness ==
    /\ WF_vars(Begin \/ ExecFails \/ ExecStarts \/ SleepOver)
    /\ WF_vars(Ready \/ ReturnError)
    /\ WF_vars(CopierStep)
    /\ WF_vars(ReadHeader)
    /\ WF_vars(WaitOrStopReturns)
    /\ WF_vars(process.cancelled /\ Exit)

FairSpec == Spec /\ Fairness

\* A timer that is not stopped fires.
TimedSpec == FairSpec /\ WF_vars(TimerFires)

---------------------------------------------------------------------------
(* Properties.                                                             *)

\* A container is offered only if the very first thing it wrote is the start
\* message, in however many pieces, and it has not been cancelled
\* (sandbox.go:498-524).
OfferedIsReady ==
    worker = "offer" =>
        /\ ~process.cancelled
        /\ IsPrefix(Header, process.written)

\* What a container wrote is somewhere between its stdout and the buffer of
\* the header reader, in order and once each, until the limit is hit: the
\* chunk that completes the header is not cut short (sandbox.go:697-702).
NothingLost ==
    copy.stdout.n >= 0 =>
        header.buf \o copy.piped \o copy.stdout.dst \o copy.after
            = SubSeq(process.written, 1, copy.count)

\* Every container whose process runs and that nobody has closed is wanted, so
\* that none is counted as a leak (sandbox.go:436 and 92).
RunningIsWanted ==
    /\ handed \subseteq wanted
    /\ process.child = "running" /\ worker # "begin" => last \in wanted

\* A container that greets as it should ends the select of its start, through
\* the copying goroutine, the pipe, the reader and the channel, even if it
\* exits right away and no timer helps (sandbox.go:498-524).
GreetingIsHeard ==
    worker = "select" /\ copy.count = 0 /\ Len(process.written) >= Len(Header)
        ~> worker # "select"

\* A start that fails is an error of that container, which workerLoop logs and
\* retries (sandbox.go:369-374): no container takes the server down.
WorkerSurvives == worker # "crashed"

\* No start takes for ever: either the container becomes ready or the start
\* timeout ends the attempt and the worker goes on (sandbox.go:511-518).
StartEnds ==
    worker \in {"select", "timeout"} ~> worker \notin {"select", "timeout"}

---------------------------------------------------------------------------
(* The inductive invariant.                                                *)

\* The names: each is wanted from its start until its container is closed.
NamesInv ==
    /\ handed \subseteq wanted /\ wanted \subseteq 1..last
    /\ worker # "begin" => last \in wanted /\ last \notin handed

\* What the worker knows where it is, and what the header reader has told it.
StartInv ==
    /\ worker = "start" => header = NewHeader
    /\ worker \in {"start", "select", "offer"} => ~process.cancelled
    /\ worker = "offer" \/ header.startErr = "nil" => header.buf = Header
    /\ worker = "offer" \/ header.startErr # "empty" => header.pc = "done"

\* What is in the pipe: nothing but the beginning of what was written, and
\* nothing for stdout before the header has been found.
PipeInv ==
    /\ IsPrefix(header.buf \o copy.piped, process.written)
    /\ Len(copy.sw.buf) < Len(Header)
    /\ copy.pc # "pipe" => copy.piped = <<>> /\ copy.after = <<>>
    /\ ~copy.sw.found => /\ copy.after = <<>>
                         /\ copy.stdout = NewLimited(StdoutCap)

IInv == TypeOK /\ NamesInv /\ StartInv /\ PipeInv /\ NothingLost
====
