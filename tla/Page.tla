---- MODULE Page ----
(***************************************************************************)
(* The playground in the browser (static/playground.js with edit.html) and *)
(* its server.  Every action is a callback: of a click or an edit, of the  *)
(* answer to a request or its failure, of the timer of a playback, or of   *)
(* the browser's history.  Callbacks run one at a time; requests are       *)
(* answered in any order, or fail at any time.                             *)
(*                                                                         *)
(* What is shown is reduced to what it is a part of: the text "Waiting for *)
(* remote server...", the error of a format, or what a run put out.        *)
(* `running' is the newest run.                                            *)
(***************************************************************************)
EXTENDS Share, Sequences, FiniteSets

CONSTANTS
    Formatted,   \* what /fmt makes of a text, or Malformed
    Malformed,
    CannotLoad,  \* the text shown if loadShare fails
    Typed,       \* bound: the texts users type
    MaxEvents,   \* bound: events of a program with a delay
    MaxClicks    \* bound: clicks on one page

ASSUME PageAssumption ==
    /\ Malformed \notin Texts /\ CannotLoad \in Texts /\ Typed \subseteq Texts
    /\ Formatted \in [Texts -> Texts \union {Malformed}]
    /\ \A t \in Texts : Formatted[t] \in Texts => Formatted[Formatted[t]] = Formatted[t]
    /\ MaxEvents \in Nat /\ MaxClicks \in Nat

VARIABLES
    body,        \* the text in the editor
    screen,      \* the parts of what outputEl shows
    runs,        \* of each transport.Run its text and how many timers come
    clicks,      \* number of clicks, which name the requests that follow
    net,         \* requests under way
    sharing,
    saves,       \* how many shareCallbacks there are
    pushedPlay,
    toyDisable,
    hist, at,    \* the tab's history and the entry shown
    changed,     \* history: other text came into the editor since the newest run
    before       \* history: clicks at the start of the newest run

shown == <<screen, runs>>
place == <<hist, at, pushedPlay>>
shares == <<sharing, saves>>
since == <<changed, before>>
vars == <<body, shown, clicks, net, shares, place, toyDisable, since, storeVars>>

seq == Len(runs)
Waiting == [part |-> "waiting", run |-> 0]
FmtError == [part |-> "fmtError", run |-> 0]
Output(r) == [part |-> "output", run |-> r]
Failure(r) == [part |-> "failure", run |-> r]
Clicks == 1 .. MaxClicks

\* Requests; click 0 is the loading of the page.
Request(n, to, text) == [n |-> n, to |-> to, text |-> text]
FmtRequests == {[n |-> n, to |-> "/fmt", text |-> t, then |-> k] :
                  n \in Clicks, t \in Texts, k \in {"run", "nothing"}}
CompileRequests == {[n |-> n, to |-> "/compile", text |-> t, cur |-> c] :
                      n \in Clicks, t \in Texts, c \in 1 .. seq}
PostAnswers == {NoAnswer, Status(413), Status(500)}
                 \union {[status |-> 200, id |-> i] : i \in Ids}
PostRequests == {[n |-> n, to |-> "/share", text |-> t, answer |-> a] :
                   n \in Clicks, t \in Texts, a \in PostAnswers}
GetRequests == {[n |-> 0, to |-> "/share?id", id |-> i] : i \in Ids}
ToyRequests == {[n |-> n, to |-> "/doc/play"] : n \in Clicks}
Requests == FmtRequests \union CompileRequests \union PostRequests
              \union GetRequests \union ToyRequests

\* The shares under way.
Asked == {q \in net : q.to = "/share"}

Pieces == {Waiting, FmtError} \union UNION {{Output(r), Failure(r)} : r \in 1 .. seq}

TypeOK ==
    /\ StoreOK
    /\ body \in Texts
    /\ screen \subseteq Pieces
    /\ \A r \in 1 .. seq : runs[r].text \in Texts /\ runs[r].left \in 0 .. MaxEvents
    /\ clicks \in 0 .. MaxClicks /\ saves \in 0 .. MaxClicks
    /\ net \subseteq Requests
    /\ sharing \in BOOLEAN /\ (sharing <=> Asked # {}) /\ Cardinality(Asked) <= 1
    /\ pushedPlay \in BOOLEAN /\ toyDisable \in BOOLEAN /\ changed \in BOOLEAN
    /\ at \in DOMAIN hist /\ before \in 0 .. MaxClicks
    /\ \A i \in DOMAIN hist :
         hist[i].path \in Addresses /\ hist[i].code \in Texts \union {"none"}

\* The page is loaded: the program served with it, and at a link loadShare.
Loaded(address, text) ==
    /\ body' = text
    /\ screen' = {} /\ runs' = <<>> /\ clicks' = 0
    /\ net' = IF address.at = "/p/"
                THEN {[n |-> 0, to |-> "/share?id", id |-> address.id]} ELSE {}
    /\ sharing' = FALSE /\ saves' = 0 /\ pushedPlay' = FALSE
    /\ toyDisable' = (address.at = "/p/")
    /\ hist' = <<[path |-> address, code |-> "none"]>> /\ at' = 1
    /\ changed' = FALSE /\ before' = 0

Init ==
    /\ StoreInit
    /\ body = Hello /\ screen = {} /\ runs = <<>> /\ clicks = 0 /\ net = {}
    /\ sharing = FALSE /\ saves = 0 /\ pushedPlay = FALSE /\ toyDisable = FALSE
    /\ hist = <<[path |-> Root, code |-> "none"]>> /\ at = 1
    /\ changed = FALSE /\ before = 0

---------------------------------------------------------------------------
(* Output.                                                                 *)

\* running.Kill(), if there is one: its playback stops.  What it puts out is
\* replaced at once by all who call it.
Killed == IF seq = 0 THEN runs ELSE [runs EXCEPT ![seq].left = 0]

loading == screen' = {Waiting} /\ runs' = Killed
setError(parts) == screen' = parts /\ runs' = Killed

Clicked(request) == clicks' = request.n /\ net' = net \union {request}

fmtAnd(then) ==
    /\ clicks < MaxClicks
    /\ loading
    /\ Clicked([n |-> clicks + 1, to |-> "/fmt", text |-> body, then |-> then])
    /\ UNCHANGED <<body, shares, place, toyDisable, since, storeVars>>

ClicksRun == fmtAnd("run")
ClicksFmt == fmtAnd("nothing")

\* runOnly, for the text t in the editor, in the callback of q.
runOnly(q, t) ==
    /\ screen' = {Waiting}
    /\ runs' = Append(Killed, [text |-> t, left |-> 0])
    /\ net' = (net \ {q}) \union
                {[n |-> q.n, to |-> "/compile", text |-> t, cur |-> seq + 1]}
    /\ changed' = FALSE /\ before' = clicks

\* Text other than what the newest run ran is put into the editor.
Replaced(q) == IF q.n <= before THEN TRUE ELSE changed

\* Mistake: the program is run before the formatted text is there.
FmtRunsFirst(q) ==
    LET result == Formatted[q.text] IN
    /\ q.to = "/fmt"
    /\ body' = IF result = Malformed THEN body ELSE result
    /\ IF q.then = "run" THEN runOnly(q, body)
       ELSE /\ setError(IF result = Malformed THEN {FmtError} ELSE {})
            /\ net' = net \ {q}
            /\ changed' = IF result = Malformed THEN changed ELSE Replaced(q)
            /\ UNCHANGED before
    /\ UNCHANGED <<clicks, shares, place, toyDisable, storeVars>>

FmtAnswered(q) ==
    LET result == Formatted[q.text]
        text == IF result = Malformed THEN body ELSE result
    IN  /\ q.to = "/fmt"
        /\ body' = text
        /\ IF q.then = "run" THEN runOnly(q, text)
           ELSE /\ setError(IF result = Malformed THEN {FmtError} ELSE {})
                /\ net' = net \ {q}
                /\ changed' = IF result = Malformed THEN changed ELSE Replaced(q)
                /\ UNCHANGED before
        /\ UNCHANGED <<clicks, shares, place, toyDisable, storeVars>>

\* Mistake: a format that fails is only forgotten.
FmtFailsSilently(q) ==
    /\ q.to = "/fmt"
    /\ net' = net \ {q}
    /\ UNCHANGED <<body, shown, clicks, shares, place, toyDisable, since, storeVars>>

FmtFails(q) ==
    /\ q.to = "/fmt"
    /\ setError({FmtError})
    /\ net' = net \ {q}
    /\ UNCHANGED <<body, clicks, shares, place, toyDisable, since, storeVars>>

\* Mistake: the answer of whatever run came last is played.
CompileAnsweredAny(q) ==
    /\ q.to = "/compile"
    /\ \E n \in 0 .. MaxEvents, parts \in SUBSET {Output(q.cur)} :
         /\ runs' = [runs EXCEPT ![q.cur].left = n]
         /\ screen' = IF n = 0 THEN {Output(q.cur)} ELSE parts
    /\ net' = net \ {q}
    /\ UNCHANGED <<body, clicks, shares, place, toyDisable, since, storeVars>>

\* Only the newest run is played.  Its events without delay, an error, or what
\* vet says are there at once, n timers come one after another.  An answer that
\* is JSON's null would leave the screen as it is (`if (!data) return'), but the
\* answers of commandHandler are objects.
CompileAnswered(q) ==
    /\ q.to = "/compile"
    /\ IF seq # q.cur THEN UNCHANGED shown
       ELSE \E n \in 0 .. MaxEvents, parts \in SUBSET {Output(q.cur)} :
              /\ runs' = [runs EXCEPT ![q.cur].left = n]
              /\ screen' = IF n = 0 THEN {Output(q.cur)} ELSE parts
    /\ net' = net \ {q}
    /\ UNCHANGED <<body, clicks, shares, place, toyDisable, since, storeVars>>

\* Whatever run it was of.
CompileFails(q) ==
    /\ q.to = "/compile"
    /\ screen' = {Failure(q.cur)}
    /\ net' = net \ {q}
    /\ UNCHANGED <<body, runs, clicks, shares, place, toyDisable, since, storeVars>>

\* The timer of a playback: an event, which may clear the screen (^L), the ones
\* without delay that follow, and the next timer or the end.
Plays(r) ==
    /\ runs[r].left > 0
    /\ runs' = [runs EXCEPT ![r].left = @ - 1]
    /\ screen' \in {{Output(r)}, screen \union {Output(r)}}
    /\ UNCHANGED <<body, clicks, net, shares, place, toyDisable, since, storeVars>>

---------------------------------------------------------------------------
(* Sharing and history.                                                    *)

pushState(path, code) ==
    /\ hist' = Append(SubSeq(hist, 1, at), [path |-> path, code |-> code])
    /\ at' = at + 1

\* The path is cut after five characters: indexOf('/play/') is -1.
inputChanged ==
    IF pushedPlay THEN UNCHANGED place
    ELSE /\ pushedPlay' = TRUE
         /\ pushState(IF hist[at].path = Root THEN Root ELSE Cut, "none")

Types(t) ==
    /\ t # body /\ body' = t
    /\ inputChanged
    /\ changed' = TRUE
    /\ UNCHANGED <<shown, clicks, net, shares, toyDisable, before, storeVars>>

\* Mistake: a share is asked for while another one is.
SharesAgain(save) ==
    /\ clicks < MaxClicks
    /\ saves' = saves + save
    /\ sharing' = TRUE
    /\ Clicked([n |-> clicks + 1, to |-> "/share", text |-> body, answer |-> NoAnswer])
    /\ UNCHANGED <<body, shown, place, toyDisable, since, storeVars>>

\* The button has no callback, Ctrl+S one that downloads what is shared.
Shares(save) ==
    /\ clicks < MaxClicks
    /\ saves' = saves + save
    /\ sharing' = TRUE
    /\ IF sharing THEN clicks' = clicks + 1 /\ UNCHANGED net
       ELSE Clicked([n |-> clicks + 1, to |-> "/share", text |-> body,
                     answer |-> NoAnswer])
    /\ UNCHANGED <<body, shown, place, toyDisable, since, storeVars>>

ServerShares(q) ==
    /\ q.to = "/share" /\ q.answer = NoAnswer
    /\ \E a \in PostAnswers :
         /\ handleSharePost(q.text, a)
         /\ net' = (net \ {q}) \union {[q EXCEPT !.answer = a]}
    /\ UNCHANGED <<body, shown, clicks, shares, place, toyDisable, since, restarted>>

\* Mistake: the history gets the text that is in the editor by now.
SharesBody(q) ==
    /\ q.to = "/share" /\ q.answer # NoAnswer
    /\ sharing' = FALSE
    /\ net' = net \ {q}
    /\ IF OK(q.answer)
         THEN saves' = 0 /\ pushedPlay' = FALSE /\ pushState(Link(q.answer.id), body)
         ELSE UNCHANGED <<saves, place>>
    /\ UNCHANGED <<body, shown, clicks, toyDisable, since, storeVars>>

ShareAnswered(q) ==
    /\ q.to = "/share" /\ q.answer # NoAnswer
    /\ sharing' = FALSE
    /\ net' = net \ {q}
    /\ IF OK(q.answer)
         THEN saves' = 0 /\ pushedPlay' = FALSE /\ pushState(Link(q.answer.id), q.text)
         ELSE UNCHANGED <<saves, place>>
    /\ UNCHANGED <<body, shown, clicks, toyDisable, since, storeVars>>

\* The callbacks stay, and are called when a later share succeeds.
ShareFails(q) ==
    /\ q.to = "/share"
    /\ sharing' = FALSE
    /\ net' = net \ {q}
    /\ UNCHANGED <<body, shown, clicks, saves, place, toyDisable, since, storeVars>>

\* Back or forward: popState, which leaves pushedPlay as it is.
Goes(i) ==
    /\ i \in DOMAIN hist /\ i \in {at - 1, at + 1}
    /\ at' = i
    /\ IF hist[i].code = "none" THEN UNCHANGED <<body, changed>>
       ELSE body' = hist[i].code /\ changed' = TRUE
    /\ UNCHANGED <<shown, clicks, net, shares, hist, pushedPlay, toyDisable, before,
                   storeVars>>

---------------------------------------------------------------------------
(* Links and examples.                                                     *)

\* Any address that has a page: a link someone sent, the address shown again.
Opens(address) ==
    LET page == handleEdit(address) IN
    /\ OK(page)
    /\ Loaded(address, page.text)
    /\ UNCHANGED storeVars

\* The text from the server, or CannotLoad, replaces what is in the editor.
loadShare(q) ==
    /\ q.to = "/share?id"
    /\ \E answer \in {handleShareGet(q.id), Status(500)} :
         body' = IF OK(answer) THEN answer.text ELSE CannotLoad
    /\ changed' = TRUE
    /\ net' = net \ {q}
    /\ UNCHANGED <<shown, clicks, shares, place, toyDisable, before, storeVars>>

PicksToy ==
    /\ clicks < MaxClicks
    /\ IF toyDisable THEN toyDisable' = FALSE /\ UNCHANGED <<clicks, net>>
       ELSE Clicked([n |-> clicks + 1, to |-> "/doc/play"]) /\ UNCHANGED toyDisable
    /\ UNCHANGED <<body, shown, shares, place, since, storeVars>>

\* The example replaces the text and is run.
ToyAnswered(q) ==
    /\ q.to = "/doc/play"
    /\ \E answer \in serveExample :
         /\ body' = answer.text
         /\ net' = (net \ {q}) \union {[n |-> q.n, to |-> "/fmt",
                                        text |-> answer.text, then |-> "run"]}
    /\ loading
    /\ changed' = TRUE
    /\ UNCHANGED <<clicks, shares, place, toyDisable, before, storeVars>>

ToyFails(q) ==
    /\ q.to = "/doc/play"
    /\ net' = net \ {q}
    /\ UNCHANGED <<body, shown, clicks, shares, place, toyDisable, since, storeVars>>

ServerRestarts ==
    /\ Restarts
    /\ UNCHANGED <<body, shown, clicks, net, shares, place, toyDisable, since>>

---------------------------------------------------------------------------
Returns(q) ==
    \/ FmtAnswered(q) \/ FmtFails(q) \/ CompileAnswered(q) \/ CompileFails(q)
    \/ ShareAnswered(q) \/ ShareFails(q) \/ loadShare(q) \/ ToyAnswered(q)
    \/ ToyFails(q)

Next ==
    \/ ClicksRun \/ ClicksFmt \/ PicksToy
    \/ \E save \in {0, 1} : Shares(save)
    \/ \E t \in Typed : Types(t)
    \/ \E i \in DOMAIN hist : Goes(i)
    \/ \E address \in Addresses : Opens(address)
    \/ \E q \in net : Returns(q) \/ ServerShares(q)
    \/ \E r \in 1 .. seq : Plays(r)
    \/ ServerRestarts

Spec == Init /\ [][Next]_vars

\* Requests come back, with an answer or without.  Nothing else has to happen,
\* neither on the page nor on the server.
FairSpec == Spec /\ WF_vars(\E q \in net : Returns(q))

---------------------------------------------------------------------------
(* Properties.                                                             *)

\* However the answers overtake each other and whatever fails: only the newest
\* run is played, and program output on the screen is its output; of another run
\* at most the failure of its request is there (playground.js:129-160, 434-451).
OnlyNewestShown ==
    /\ \A r \in 1 .. seq : runs[r].left > 0 => r = seq
    /\ \A x \in screen : x.part = "output" => x.run = seq

Program(text) == IF Formatted[text] = Malformed THEN text ELSE Formatted[text]

\* Program output on the screen is that of the program in the editor, unless the
\* user, a link or an example has put another text there since it was started, or
\* the answer to a format asked for before that (playground.js:434-478).
OutputOfShownText ==
    \A x \in screen :
        x.part = "output" /\ ~changed => Program(runs[x.run].text) = Program(body)

\* An address pushed after a share is that of the program kept with it for the
\* way back, and the server serves this very program under it, until it is
\* restarted, whatever was typed or shared meanwhile (playground.js:515-553,
\* store.go:25-47).
LinkShowsShared ==
    \A i \in DOMAIN hist :
        LET id == hist[i].path.id
            code == hist[i].code
        IN  hist[i].path = Link(id) =>
              /\ restarted \/ Found(id)
              /\ code # "none" => /\ id = ID[code]
                                  /\ Found(id) => GetSnippet(id) = code

\* The text "Waiting for remote server..." goes away: every request that is
\* waited for, the compile request that follows a format too, puts something in
\* its place when it comes back (playground.js:443-478, 136-153).
WaitingEnds == screen = {Waiting} ~> screen # {Waiting}

---------------------------------------------------------------------------
(* The inductive invariant.                                                *)

\* What the newest run is, and that only it is shown.
ShownInv ==
    /\ runs \in Seq([text : Texts, left : 0 .. MaxEvents])
    /\ \A r \in 1 .. seq : runs[r].left > 0 => r = seq
    /\ \A x \in screen : x.part = "output" => seq > 0 /\ x.run = seq

\* The editor, if nothing came into it since the newest run.
TextInv ==
    /\ body \in Texts /\ changed \in BOOLEAN
    /\ ~changed /\ seq > 0 => Program(runs[seq].text) = Program(body)

\* An address the server has served a program under.
Kept(id) == restarted \/ Found(id)

\* What a request under way was sent for, and what came of a share.
Fits(q) ==
    /\ q.n \in 0 .. clicks
    /\ q.to = "/fmt" =>
         /\ q.text \in Texts
         /\ ~changed /\ seq > 0 /\ q.n > before => Program(q.text) = Program(body)
    /\ q.to = "/compile" => q.cur \in 1 .. seq
    /\ q.to = "/share" =>
         /\ q \in [n : Nat, to : {"/share"}, text : Texts, answer : PostAnswers]
         /\ OK(q.answer) => q.answer.id = ID[q.text] /\ Kept(q.answer.id)

NetInv == clicks \in Nat /\ before \in Nat /\ \A q \in net : Fits(q)

\* What lies under an identifier has it.
StoreInv ==
    /\ restarted \in BOOLEAN
    /\ \A id \in DOMAIN store : store[id] \in Texts /\ ID[store[id]] = id

Entered(e) ==
    /\ e.path.at = "/p/" => Kept(e.path.id)
    /\ e.code # "none" => e.path.at = "/p/" /\ e.path.id = ID[e.code]

HistInv ==
    /\ hist \in Seq([path : Addresses, code : Texts \union {"none"}])
    /\ at \in 1 .. Len(hist)
    /\ \A i \in 1 .. Len(hist) : Entered(hist[i])

IInv == ShownInv /\ TextInv /\ NetInv /\ StoreInv /\ HistInv

\* A share is asked for only when there is none, and a callback only by a click.
SharesInv ==
    /\ sharing \in BOOLEAN /\ (sharing <=> Asked # {})
    /\ \A p, q \in Asked : p = q
    /\ saves \in Nat /\ saves <= clicks

\* What the types need beside: what is shown and asked for is of a click.
TypeInv ==
    /\ SharesInv
    /\ screen \subseteq Pieces /\ net \subseteq Requests
    /\ clicks \in 0 .. MaxClicks /\ before \in 0 .. MaxClicks
    /\ StoreOK /\ pushedPlay \in BOOLEAN /\ toyDisable \in BOOLEAN

====
