# A verification project for the Go playground

TLA+ specifications of the playground in `src/`: the *page* in the browser
(`src/src/static/playground.js`), the *frontend* (`src/src`), which formats,
builds and shares programs and caches what they print, and the *sandbox*
(`src/src/sandbox`), which runs them in gVisor containers. TLC checks each
module on small instances; TLAPS proves their safety properties for every value of
their constants. `PROJECT.json` lists, for every definition, the lines of the code it
stands for.

Paths below are relative to `src/src`. Inside the modules a bare `sandbox.go`
means `sandbox/sandbox.go` in the modules about the sandbox (`Writers`,
`OutputStream`, `StartContainer`, `SandboxPool`), and `src/src/sandbox.go`
in `Frontend` and `FileSet`.

## 1. The system

### Components, their state and their operations

| Component | State | Operations | What makes it correct | Module |
|---|---|---|---|---|
| `internal.WaitOrStop` (`internal/internal.go`) | a process, a context, the channel `errc`, a second goroutine | wait; interrupt, grace period, kill | one result, and the right one: a process the code stopped is reported by the reason, one that ended in time by its own status; a stop ends | `WaitOrStop`, contract `StoppableWait` |
| `internal.PeriodicallyDo` | a ticker | call a function until the context is done | - | not modelled (a loop over one ticker) |
| `limitedWriter`, `switchWriter` (`sandbox/sandbox.go:643-703`) | remaining count, last bytes seen, found | `Write` | the start message is found however it is split, nothing leaks over the split, lost output is noticed | `Writers`, `OutputStream` |
| `startContainer`, `workerLoop` (`:367-377`, `:423-528`) | a process, four goroutines, a pipe, `startErr`, `containerWanted` | start, read the greeting, time out, offer | only containers that have greeted and were never cancelled are offered (whether they still run is not looked at); a failed start is retried | `StartContainer` |
| pool and `/run` (`:78-118`, `:359-421`, `:530-641`) | `readyContainer`, `runSem`, per container `waitErr`, `cancelCmd`, `closed` | get a slot, a container; write, wait, close, answer | slots are counted, one program per container, every container is closed, an answer is genuine, handlers end | `SandboxPool`, promise `RunService` |
| health (`:226-282`) | `healthStatus` (mutex, last answer, its time) | `checkHealth`, cached five seconds | what a check takes it closes | `SandboxPool` (the check), not the caching (§6) |
| leak check (`:380-412`, `metrics.go`) | `containerWanted` against `docker ps` | count | - | the map's upkeep in `StartContainer`, `SandboxPool`; not the counting (§6) |
| in the container (`runInGvisor`, `:304-357`) | - | greet, read the binary, run it, stop it after 4.5 s and say so on stderr | - | by its outcomes, in `StartContainer` (greeting), `SandboxPool` (`Halts`) and `Frontend` |
| command handler and cache (`sandbox.go:88-178`, `cache.go`) | memcache | look up, judge, set | a client gets the answer to its own request; timeouts are not kept, which the code fails to do (§5) | `Frontend` |
| build and run (`sandbox.go:320-600`), vet (`vet.go`) | temporary directories, contexts | build, vet, send to the sandbox | directories live exactly as long as they are needed; every request is answered | `Frontend` |
| `Recorder` (`play.go`) | two buffers, decoded in place | `decode`, `sortedMerge`, delays | everything written is played back, in order, at its time | `Recorder` |
| test programs (`getTestProg`) | - | rewrite a test file as a program | - | not modelled (parsing and text) |
| `fileSet` (`txtar.go`), `/fmt` (`fmt.go`), the files of a build (`sandbox.go:423-466`) | a program's files in order | split, join, format, write | exactly the documented archives are accepted; formatting keeps the program | `FileSet` |
| sharing (`share.go`, `store.go`, `edit.go`), examples (`examples.go`) | snippets under a truncated hash | `/share`, `/p/`, `/doc/play/` | a link shows what was shared | `Share`, in `Page` |
| page and transport (`static/playground.js`, `edit.html`) | editor, screen, `seq`, running playback, `sharing`, history | run, kill, format, share, back, pick an example, load | answers of old runs are dropped, what is shown belongs to what is in the editor | `Page` (without `SocketTransport`, which has no server here) |
| routing, logging, metrics, self test, embedding, jQuery | set once | - | - | not modelled (no state that changes, or third-party) |

### How they interact

The page sends a program to `/fmt` and what comes back to `/compile`; to `/share`
when it is to be kept, and it is served from there again at `/p/` and `/share?id=`.
A client's `/compile` reaches `commandHandler`, which looks in memcache, or else
calls `compileAndRun`: `go build` under `WaitOrStop`, `go vet` if asked, and a
POST of the binary to the sandbox. There `runHandler` acquires a slot of
`runSem`, receives a container from a worker on the unbuffered
`readyContainer`, writes the binary to its stdin and waits for its end. The
container's output comes back through `switchWriter` and two `limitedWriter`s,
travels to the frontend as JSON, is taken apart by `Recorder.Events`, judged,
perhaps cached, and sent.

The modules compose in the same way. `StoppableWait` is what `SandboxPool`,
`StartContainer` and `Frontend` assume of `WaitOrStop`, which is proved to
implement it. `StartContainer` and `OutputStream` are built from the operators of
`Writers`. The outcomes of `StartContainer` (ready, failed, stuck) are the starts
of `SandboxPool`. `RunService` is what `/run` promises whoever calls it, and
`SandboxPool` is proved to keep it; its answers (`output`, `timeout`, `tooMuch`,
`failed`) are the ways a run can end in `Frontend`. `Page` extends `Share`, the
server's side of the links it shows, and takes two facts from other modules: that
formatting keeps a program (`FormatKeepsProgram` of `FileSet`, an assumption on
`Formatted` here) and that requests come back (`Answered` of `Frontend`, fairness
here).

### What is hard here

- Three timeouts race for the same program (4.5 s in the container, 5 s in the
  sandbox, 5 s in the frontend, queueing included), each reporting differently.
- Two goroutines wait for the same error of a container and put it back.
- A handler, its closing goroutine and the container each wait for another.
- A start message read through a pipe by a goroutine nobody can stop.
- A cache that never forgets, shared by all who ask.
- Buffers that are written to while they are read (`Recorder`).
- A page whose requests overtake each other and fail while the user types, goes
  back, runs something else or opens a link.

`PROJECT.json` lists 40 such hazards, each at its line, with the properties that
cover it or the reason none does.

## 2. The modules

### `StoppableWait`, `WaitOrStop`

`StoppableWait` is the promise: four variables, one result, `Verdicts` says which
results are allowed. `WaitOrStop` has the caller (`caller`: in `cmd.Wait`, at
`<-errc`, done) and the goroutine (`stopper`, one value per blocking point of
`internal.go:27-63`), and the process. `Reap` and `WaitReturns` split `cmd.Wait`
as the Go library does: the process is reaped first (from then on `Signal`
returns "process already finished"), and `Wait` returns only when the output is
copied. A rendezvous on `errc` is one action, `Send`. Whether `killDelay` is
positive and whether the process may be signalled are chosen at the start.
`killDelay`'s timer may run out at any time.

### `Writers`, `OutputStream`

Pure operators for the two writers on records `[buf, found]` and `[dst, n]`;
`OutputStream` is one container's copying goroutine that passes chunks of any
size. `LimitedWrite` counts the whole of a write against `n` even when only a
part was kept, which is how `runHandler` sees (`n < 0`) that output is missing.

### `StartContainer`

One worker that starts containers one after another. `worker` is the place in
`startContainer`; `process` the docker process with its context; `copy` the
goroutine of `os/exec` in `switchWriter.Write`, which blocks in the pipe
(`copy.pc = "pipe"`) until the header reader (`header`) has taken everything.
`ReturnError` is every `return nil, err` after `cmd.Start`: it sets the named
result, the deferred function calls `Close` on it, and the server panics.

### `RunService`, `SandboxPool`

`RunService` is the promise of `/run`, in which neither workers nor containers,
slots or channels appear: who has a request (`busy`), whose program has had its
time (`late`), whose program was seen to end before that (`settled`), what has become
of each one's `program`, and its `answer`. `Settle` is the moment `runHandler` looks at
its context: from then on the answer is decided, although the deadline may still come
before it is given. A program that its container stops, by a timeout half a second
shorter than the server's, is `halted`: an end of its own like any other, answered with
the output, as `tests.go:524-544` requires. `stopped` is what the server did.

Workers, handlers and one health check over a set of containers. A container's
record has its process (`st`), whether a whole program was given to it and whether it
has stopped that itself (`prog`, `Halts`), whether `cancelCmd` was called, what
`WaitOrStop` returned (`Endings`: a cancelled container may still report a status of
its own, or an error that is none), where the single error of `waitErr` is (`token`), and how far the
goroutine that closes it is (`closer`). A handler's pcs are the blocking points of
`runHandler`, deferred functions included (`cancel`, `join`, `release`); the look at
`ctx.Done()` (`check`), the `cancel()` after it (`finish`) and the answer (`respond`)
are steps of their own, as are the two halves of `Close` before it waits
(`CloserUnwants`, `CloserCancels`), so that the deadline and the closing goroutine can
come in between. The
writes to stdin are one step that blocks or fails. Receiving from
`readyContainer` is one joint action of worker and receiver. History fields
(`inTime`) serve the properties only. `Fate` reads off a container what has become
of the program in it: it is what `RunService` sees of a container.

### `Frontend`

Connections, each handling one request at a time, share one memcache. `pc` follows
`commandHandler`, `compileAndRun`, `sandboxBuild`, `vetCheckInDir` and
`sandboxRun`; `ask` is the request with its endpoint, `ctx` the context of the
running command, `gone` that of the request, `dirs` the temporary directories and
`vetOut` the vet output. A response is reduced to what decides its fate: which
kind of `Errors`, what the stderr events contain, what vet said. `to` is a
history field: the request it was computed for. The sandbox's answers are
chosen freely.

### `Recorder`

`decode` one turn of its loop at a time, then `sortedMerge` and the delays one
event at a time. Messages are slices of the buffer and `append` writes into it,
as Go's does when there is room; `Meaning` reads off the untouched output, from
the left, what should be played. A magic number, a time and a length are one
symbol each. `sent` counts the events of each kind that are merged; `Clock` adds up
the delays, so `Played` is what a client shows that only knows them.

### `FileSet`

The user's text line by line: a marker line has a name, as its parts between
slashes; of another line only what the code notices is left (blank, not laid
out, does not parse, another package, tests). `splitFiles`, `Format` and
`handleFmt` are the functions of the same names, over `txtar.Parse`, `path.Clean`
and the formatters, which are external. `sandboxBuild` is the part of that
function that decides on files, package argument and tests; it writes the files
in the order of a map, so that of two faults either is met first (`Builds`). A loop of
the code is a recursive function over its turns, and one turn an operator of its own
(`ParseLine`, `CleanPart`, `SplitFile`, `FileText`, `FmtFile`).

### `Share`, `Page`

`Share` has the store and the handlers as operators on it. `Page` has one action
per callback. `net` holds the requests under way, `runs` the text of each
`transport.Run` and how many timers of its playback are to come; `running` is
always the last of them. `screen` is what `outputEl` shows as a set of parts: the
waiting text, the error of a format, output or failure of a run. `hist` and `at`
are the tab's history, whose entries after a share keep the program.
`changed` and `before` are history fields for `OutputOfShownText`. `/share` is
answered in two steps, on the server and on the page, so that an answer can be
lost after the program was stored, or reach the page after a restart.

## 3. What is checked

| Run | Instance | What it shows |
|---|---|---|
| `wait_or_stop` | exact: nothing is bounded | `SignalAttributed`, `FinishedInTimeKept`; `StopEnds`, `ReapedReturns`; it refines `StoppableWait` (`KeepsContract`) |
| `output_stream` | a start message of 4 symbols that can overlap itself, a limit of 2, 8 symbols in chunks of every size | `SplitAtHeader`, `KeepsFirst`, `LossIsSeen` |
| `start_container` | two starts, start message of 2 symbols, 4 symbols of output, a limit of 1 | `OfferedIsReady`, `NothingLost`, `RunningIsWanted`, `GreetingIsHeard` |
| `start_panic`, `start_stuck` | the same | findings 1 and 2 |
| `sandbox_pool` | one worker, two connections, two containers, health checks, starts that fail or hang, all results of `WaitOrStop` | `SlotsCounted`, `OneError`, `UsedOnce`, `NoOrphan`, `AtMostNPrograms`, `OutputIsGenuine`; it refines `RunService` (`KeepsPromise`) |
| `sandbox_pool_live` | one worker, one connection, two containers, health checks, no failing starts, `WaitOrStop` returning a status or `ctx.Err()` | `RunsEnd`, `GetsContainer`, `TakenIsClosed` |
| `frontend` | two connections, all three ways to ask for one program, health | `OwnAnswer`, `DirsKept`, `Answered` |
| `frontend_timeout_cached` | the same | finding 3 |
| `recorder` | every concatenation of up to three pieces of text and writes, cut off anywhere, against four stderr outputs | `UnreadKept`, `PlayedAsWritten` |
| `file_set` | texts of 4 lines of 6 kinds or with one of 11 names, at most 3 files, names of 2 parts | `SplitAsDocumented`, `FormatKeepsProgram` |
| `page` | two clicks on a page, typing, history and opening links without bound, three programs, one of them malformed and too large to share, one restart of the server | `OnlyNewestShown`, `OutputOfShownText`, `LinkShowsShared`, `WaitingEnds` |

The passing runs that have invariants, but `file_set` and `sandbox_pool`, whose
types are proved, check their module's `TypeOK`, too. Every property of a passing
run is known to fail for at least one plausible bug, the definitions marked
"Mistake:" in the modules.

**Why the bounds suffice.** In `SandboxPool` the conflicts are between two
handlers over one slot, a handler and the health check over one container, and a
handler and a closing goroutine over one error; two containers are what one
worker can have alive while another is being closed. A third container adds only
a second health-check leftover. `WaitErrors` is the bound on what `WaitOrStop` may
return: everything in `sandbox_pool`, two results in `sandbox_pool_live`, whose
properties do not look at the error. Requests follow each other without bound. In
`Frontend` two connections are a writer and a reader of the cache, and the
requests include every pair that prefixes may confuse. That programs are told apart by
their bodies, which are part of the key as they are, is left to the proof, which has any
number of them: with a second program a run that also checks liveness takes too long. In the writers the message
repeats its first symbol, so that a false start can overlap the real one, and
limit and output are long enough for a write to end before, at and beyond each of
them. In `Recorder` three pieces give two writes to merge with text around
them, and lengths that lie in both directions.
In `FileSet` four lines are an implicit file and two more with contents, or one
file more than is allowed; the names have every fault `splitFiles` looks for, and
one is a directory of another. In `Page` two clicks are two runs, or any two of
run, format, example and share that overtake each other; each run makes two
requests, and opening a link starts the count again while the store stays.

`CHECK_DEADLOCK FALSE` appears where the system really ends: an output that has
been written, a recording that has been read, a worker after its last bounded
start.

### Fairness

- Goroutines that can run do (weak fairness of their steps); timers fire; a killed
  process dies and its output pipe is closed in the end.
- A context never has to be done, a program, `go build` or client never has to
  end, read or send. So `RunsEnd` begins where a handler has its container: the
  body may never arrive and no read timeout is set.
- `GetsContainer` uses strong fairness for receiving from `readyContainer`: Go
  queues the receivers of a channel in order.
- `go vet` ends: nothing in the code makes it (`vet.go:76` uses no context), so
  this is an assumption of `Frontend`'s `FairSpec`.
- In `Page` requests come back, answered or failed; typing, clicking, timers and
  restarts are never assumed.
- `GreetingIsHeard` is checked without any fairness of the start timer, so that
  the greeting alone must end the wait; `TimedSpec` adds the timer.

## 4. What is proved

`WaitOrStopProofs`, `OutputStreamProofs`, `StartContainerProofs`, `SandboxPoolProofs`,
`FrontendProofs`, `RecorderProofs`, `FileSetProofs` and `PageProofs`; all are complete,
no step is assumed. Two of them begin with the same four lemmas on parts of sequences.

**`WaitOrStop`** (assumption: `None` is not one of the other values).
`TypeCorrect`, `AlwaysAttributed`, `AlwaysKept`, and `Refinement`: `Spec` implies
`StoppableWait`'s specification under the mapping that shows the exit status once
the process is reaped. That a signalled process is attributed is not inductive: one
must know that signals come only from the stopper, after the context was done, and
that until it has reported, it holds that context's error. `IInv` adds this: how
child and caller move together (`ChildInv`), what the stopper's position says
about `err` and `inTime` (`StopperInv`), where signals come from (`SignalInv`).

**`OutputStream`** (assumptions: the header is not empty, the limit is positive), for
every header, limit, and way to cut an output into writes. `TypeCorrect`,
`AlwaysSplit`, `AlwaysKeepsFirst`, `AlwaysSeen`. TLC tries one header that can
overlap itself; that this is no accident is what the proof adds. `SplitAtHeader`
says nothing of what the `switchWriter` remembers, so `SwitchInv` adds it: it has
found the header exactly if it occurs in the output so far, and else holds the
last `Len(H) - 1` symbols, or all if they are fewer (`Short`). One chunk then has
three cases, `NotYet`, `JustNow` and `Already`. `SameFirst` is their heart: if the
header is not in the old output, it is in the new one exactly if it is in what is
held back with the chunk, and its first end is the same place. It rests on
`EndsAtPointwise` (to occur is to agree symbol by symbol), on the first place of
what occurs, from the well-foundedness of the natural numbers, and on cutting a
concatenation within either part (`CutNew`, `CutOld`). `LimitInv` adds to
`KeepsFirst` that `n` is the limit less what was given; `StillFits` is the lemma on
a write that straddles the limit.

**`StartContainer`** (assumptions: a message over the alphabet that is not empty, a
positive limit, at least one start), for every message, limit and way the output is
cut into writes, chunks and reads. `TypeCorrect`, `AlwaysReady`, `AlwaysKept`,
`AlwaysWanted`. `OfferedIsReady` is about the worker and the output, which meet only
through the pipe and the channel. `IInv` says what holds in between: what the reader
holds and what is in the pipe is, taken together, a prefix of the output (`PipeInv`);
success is reported only by a reader that holds the message and is done, and the
worker offers only after it, with its container not cancelled (`StartInv`); the name
under way has been handed to nobody, so that closing others cannot take it back
(`NamesInv`). That a new chunk leaves the prefix one needs `NothingLost` itself: until
the header has been found, stdout is empty, so the reader holds all that was read.
The prover is told nothing of how the container writes, so a container that goes on
while its greeting is read is part of every step. What one write to either writer does
are the lemmas `SwitchSplits` and `LimitTakes`.

**`SandboxPool`** (assumption `PoolAssumption`: finitely many workers and
connections; `None` is none of the others), for any number of workers, connections
and containers. `AlwaysCounted` needs only the handlers' positions (`SlotInv`,
with cardinalities). `TypeCorrect`, `AlwaysUsedOnce`, `AlwaysOneError`,
`AlwaysNoOrphan` and `AlwaysGenuine` share `IInv`: for each actor what it has at
each of its places (`WorkerInv`, `HandlerInv`, `HealthInv`), for each container
what its state says about the actors (`BoxInv`), and that it has one user
(`OneUser`). None of the properties is inductive: that a closing goroutine never
misses the error, say, rests on a handler that has it putting it back, and this on
one handler having the container. A step is about one actor and at most one
container; `Locality` says that for such a step only these need to be looked at, and
each action has a lemma on top of it. `AlwaysAtMostN` maps the handlers with slots
onto the containers that run programs and counts.

`Refinement`: `Spec` implies `RunService`'s specification with
`Limit` the number of workers. Most steps are not seen by `RunService`: those of
workers and of the health check are about containers no handler has (`Elsewhere`),
those of closing goroutines decide no `Fate` (`ClosingUnseen`), and a container that
stops its program leaves it running until it ends itself (`HaltsUnseen`). What a handler's
steps need of `IInv` was put there for this proof: until it has answered, it has no
response, and before it answers it either has live time or knows that it is over. `FinishedRefines`
is the look at the context, which is `Settle`; the deadline may follow it, and the
answer is then still the one it settled, because the container had ended in time.
`StoppedIsLate` is the point of the whole: a container is also cancelled after every
answer, and yet what is cancelled while it runs had no time left, because a handler
cancels by itself only when its container has ended. `RoomForOne` counts the
handlers with slots.

**`Frontend`** (assumption: clients ask for what exists, `None` is no response), for
any number of connections and programs. `TypeCorrect`, `AlwaysOwnAnswer`,
`AlwaysDirsKept`. `OwnAnswer` speaks of the moment of sending; the
argument is about what happened long before, when another connection filled the
cache. `IInv` adds: what lies under a key was computed for a request with that
key and tells about vet exactly if asked (`CacheInv`), which request a handler may
have where (`PlaceInv`), and that a response that is judged or set is the request's
(`RespInv`). `KeyTells` says that the key determines the request; it is the only
place where the form of the key matters. The actions are grouped by what they do
to the handler: moving on (`MoveShape`), answering (`AnswerShape`),
returning from `cmdFunc` (`ReturnShape`); each action is then an instance. TLC found
no reachable state of the `frontend` instance outside `IInv`.

**`Recorder`** (assumption: what is written are numbers), for any outputs, however many
headers they have and wherever they are cut off. `TypeCorrect`, `AlwaysUnread`,
`AlwaysPlayed`. That nothing is lost while decoding is `DecodeInv`: what the slices say
(`Said`), followed by what is still to be read from `i` on, means what was written.
For an append in place to keep this, the slices must lie in order, end before `i` and
have times that grow, with `last` the last of them (`Sliced`); then the bytes that are
overwritten belong to no slice and were read. `AddsInPlace` is this step. It needs that
what is moved was not yet changed, so `UnreadKept` is part of `Sliced` and not a
consequence. `MergeInv` is about the second half: `now` is the sum of the delays so far,
what is taken of each kind has been played at its times, and no event that is left is
older, which holds because `Emit` takes the earliest and the times of a kind grow.
`PlaceInv` joins both: merging starts with all decoded and ends with all taken.

What an output means is a recursion over data. The prover has no induction for it, so
`RecorderProofs` goes a step further back: from the well-foundedness of the numbers
every set of them that is not empty has a least member (`Least`), and hence a set that
has a number whenever it has all smaller ones has all (`Induction`); the recursive
functions are defined by `CHOOSE`, and are what they say because functions with these
equations exist (`FlattenExists`, `ReadingExists`, `ClockExists`), built from those on
shorter inputs.

**`FileSet`** (assumption `FileSetAssumption`: names are sequences of parts and not
empty, `prog.go` is a Go file and `go.mod` is none), for any names, good and bad, any
limits, and texts of any length. `AlwaysSplits`, `AlwaysKept`, and `Invariant`. The
invariant `IInv` is short: the editor holds lines, and an answer of `/fmt` is what it
made of the program that is still there. The work is in the loops, which
`FileSetProofs` shows to exist (`LoopExists`) and to be unique (`SameLoop`); what they
compute then follows by induction over the turns (`InductionUpTo`).

- `AlwaysSplits`: `Laid` says of the lines read so far where the markers are and that
  each file has what is between its marker and the next; `ParseLaid` carries it through
  `Parse`. A name that equals its clean form and has no dots is a path without empty
  parts: `ValidIs` needs that the loop of `Clean` never yields one (`CleanIs`), and that
  it changes no proper name (`ProperIsClean`). `SplitUpTo` carries through `splitFiles`
  that it still accepts exactly if all names were proper and new (`GoodUpTo`) and what
  it has then (`Filled`). The documentation counts names, the code looks up one after the
  other: `TakenIs` says that this is the same.
- `AlwaysKept`: formatting keeps the files but for their layout (`Kept`, by `FmtIs`),
  and laying out twice is laying out once (`TidySame`). `ParseFormat` is the round trip:
  the text of a file set, whatever is in its files, is taken apart into these files, for
  a marker and its lines add one file to what was parsed before (`ParseFile`). The
  header goes back into the comment only if it is not blank, which is why `Same` has
  to say that laying out leaves no file blank that was not, nor the other way round.
  `SplitAgain` concludes that the text is accepted, because acceptance depends on the
  names alone (`SameNames`), and `BuiltAlike` that `sandboxBuild` does the same with it;
  it asks whether prog.go is empty, not whether it is blank, so `Kept` has both.

**`Page`** with `Share` (assumptions: identifiers tell texts apart, formatting what is
formatted changes nothing, `Malformed` is no text), for any number of clicks, texts and
events. `AlwaysNewest`, `AlwaysOfShownText`, `LinksLast`, `TypeCorrect`.
`OutputOfShownText` compares the screen with the
editor, but what may still break it is under way: the answer to a format replaces the
text long after the click. So `Fits` says of each request what it was sent for: a
format asked for after the newest run began, with nothing else put into the editor
since, has the same program as the editor, and `Tidy` (formatting keeps the program)
does the rest. Those asked for before are the ones `Replaced` counts. `ShownInv` adds
that `Kill` leaves no playback (`KilledIs`); `StoreInv` and `Entered` that what lies
under an identifier, and what the history keeps with an address, has this identifier.
The type invariant counts the shares under way; `TypeInv` adds to `IInv` that `sharing`
is set exactly while there is one, and that any two are the same (`SharesInv`): an
answer or a failure is therefore that of the only one.

TLC found no reachable state of the `recorder`, `file_set` and `page` instances outside
these invariants.

**Only model-checked:** liveness (`StopEnds`, `ReapedReturns`, `GreetingIsHeard`,
`RunsEnd`, `GetsContainer`, `TakenIsClosed`, `Answered`, `WaitingEnds`), which needs
fairness and `ENABLED` and is out of the prover's reach. Every invariant that a passing run
checks is proved.

## 5. Findings

1. **A failed start takes the server down** (`start_panic`). After `cmd.Start`,
   `return nil, err` in `startContainer` (`sandbox/sandbox.go:518`, `522`) sets the
   named result `c` to nil before the deferred function (`:490-494`) calls
   `c.Close()`, which reads `c.name`. `workerLoop` means to log and retry.
2. **A start may never end** (`start_stuck`). Nobody closes the write end of the
   pipe, so `io.ReadFull` of a container that ends before its start message is
   complete never returns, and after the start timeout the worker waits for
   `<-startErr` for ever.
3. **A timeout is cached** (`frontend_timeout_cached`). Of the three timeouts the one
   in the container comes first (`sandbox/sandbox.go:348-353`), and it is told as an
   event on stderr, not in `Errors`. `commandHandler` looks for timeouts in `Errors`
   only (`sandbox.go:129`), so the response is cached, without expiry, although
   `server_test.go:250-256` has a timed-out run not cached and the comment at
   `sandbox.go:131-132` says that it may be the playground's own doing.

Also noticed while reading, without a run:

- The metric described as the maximum number of containers (`sandbox/metrics.go:37`)
  is the number of workers; containers that run programs or are being closed come
  on top. `SandboxPool` reaches two running containers with one worker.
- `playground.js:141` plays what was captured before a timeout if `Errors` is
  "process took too long", which no part of the server says any more.
- `inputChanged` (`playground.js:392-401`) cuts the path after five characters, for
  it looks for `/play/`: after a share, typing makes the address one of no snippet.
  Going back to a link, `pushedPlay` stays set and typing leaves the address.
- A file name that is a directory of another is accepted by `splitFiles` and fails
  the build with an internal error, or with "package name must be main", in the
  order of a map (`sandbox.go:445-466`).
- `server_test.go` calls `newExamplesHandler` with two arguments where the code
  takes one, and expects `GET /share` to be refused; the default of the module
  proxy is another than its comment (`sandbox.go:591-593`) and `server_test.go:312`
  say; the comment at `sandbox/sandbox.go:393-397` speaks of asynchronous cleanup
  that does not exist.

## 6. Not modelled, and why

- What programs, `go build`, `go vet` and gVisor compute: outcomes are chosen
  freely, within the contract of `WaitOrStop`.
- Text: error wording, JSON and gob encoding, `sanitize`, test-program rewriting.
- Memory of data races: the code's shared state is behind channels and mutexes;
  the limited writers are read only after the copying goroutine has ended.
- `getHealthCached` keeps an answer for five seconds: time enters the models only as
  timers that may fire, so "at most five seconds old" has nothing to be measured by.
- `countDockerContainers` compares two lists read one after the other, and reports
  numbers; nothing depends on them.
- An answer of `/compile` that is JSON's `null`, for which the page leaves its waiting
  text (`playground.js:138`): the server's answers are objects.
- That a container still runs when it is offered: nothing in the code looks. One that
  died idle is found out by `WriteFails`, or its status is taken for the program's.
- `SocketTransport`, a version element and `shareRedirect`: nothing in this
  repository serves or passes them.
- Collisions of identifiers (66 bits of SHA-256): assumed away in `Share`.
- Logging, metrics, routing, flags, titles of examples: no behaviour of interest.

## 7. Plan

Done, in this order: `StoppableWait`/`WaitOrStop` with proofs; `Writers`/
`OutputStream`; `StartContainer`; `SandboxPool`; `Frontend` with proofs; `Recorder`;
`FileSet`; `Share`/`Page`; the proofs of `SandboxPool`, of `OutputStream`, of
`StartContainer` and of `Page`; `RunService` and the proof that `SandboxPool`
implements it; the proofs of `Recorder` and of `FileSet`; the timeout in the container,
the steps between the look at the context and the answer, and the cached timeout.

Nothing of the plan is left: what is not proved is liveness, and of the code what is
left out is what §6 gives reasons for.
