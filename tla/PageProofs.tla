---- MODULE PageProofs ----
(***************************************************************************)
(* For any number of clicks, texts and events: only the newest run is      *)
(* shown, its output is that of the program in the editor unless that was  *)
(* replaced, and a link shows what was shared.                             *)
(***************************************************************************)
EXTENDS Page, SequenceTheorems, FiniteSetTheorems, TLAPS

Runs == [text : Texts, left : 0 .. MaxEvents]
Entries == [path : Addresses, code : Texts \union {"none"}]
Posts == [n : Nat, to : {"/share"}, text : Texts, answer : PostAnswers]

\* Addresses and identifiers that were served once stay so.
Stays == \A id : Kept(id) => Kept(id)'

---------------------------------------------------------------------------
(* What the parts of the invariant depend on.                              *)

LEMMA SeqNat == ShownInv => seq \in Nat
BY LenProperties DEF ShownInv, seq

\* The playback of the newest run has stopped, and no other had one.
LEMMA KilledIs ==
    ASSUME ShownInv
    PROVE  /\ Killed \in Seq(Runs) /\ Len(Killed) = seq
           /\ \A r \in 1 .. seq : Killed[r].text = runs[r].text /\ Killed[r].left = 0
<1>1. runs \in Seq(Runs) /\ seq \in Nat /\ seq = Len(runs)
      BY SeqNat DEF ShownInv, Runs, seq
<1>2. ASSUME NEW r \in 1 .. seq
      PROVE  /\ runs[r] \in Runs /\ runs[r].left \in 0 .. MaxEvents
             /\ runs[r].text \in Texts /\ (r # seq => runs[r].left = 0)
  <2>1. runs[r] \in Runs
        BY <1>1, ElementOfSeq
  <2>2. runs[r].left \in 0 .. MaxEvents /\ runs[r].text \in Texts
        BY <2>1 DEF Runs
  <2>3. runs[r].left > 0 => r = seq
        BY DEF ShownInv
  <2>4. MaxEvents \in Nat
        BY PageAssumption
  <2> QED
      BY <2>1, <2>2, <2>3, <2>4
<1>3. CASE seq = 0
  <2>1. Killed = runs
        BY <1>3 DEF Killed
  <2>2. Killed \in Seq(Runs) /\ Len(Killed) = seq
        BY <1>1, <2>1
  <2>3. ASSUME NEW r \in 1 .. seq PROVE FALSE
        BY <1>3, <2>3
  <2> QED
      BY <2>2, <2>3
<1>4. CASE seq # 0
  <2>1. Killed = [runs EXCEPT ![seq].left = 0]
        BY <1>4 DEF Killed
  <2>2. seq \in 1 .. seq /\ [runs[seq] EXCEPT !.left = 0] \in Runs
    <3>1. seq \in 1 .. seq
          BY <1>1, <1>4
    <3>2. 0 \in 0 .. MaxEvents
          BY PageAssumption
    <3>3. runs[seq] \in Runs
          BY <1>2, <3>1
    <3> HIDE DEF seq
    <3> QED
        BY <3>1, <3>2, <3>3 DEF Runs
  <2> DEFINE e == [runs[seq] EXCEPT !.left = 0]
  <2>3. e.left = 0 /\ e.text = runs[seq].text
        BY <1>2, <2>2 DEF Runs
  <2>4. Killed = [runs EXCEPT ![seq] = e]
        BY <2>1
  <2> HIDE DEF e
  <2>5. Killed \in Seq(Runs) /\ Len(Killed) = seq
        BY <1>1, <2>2, <2>4, ExceptSeq DEF e
  <2>6. \A r \in 1 .. seq : Killed[r] = IF r = seq THEN e ELSE runs[r]
        BY <1>1, <2>4, LenProperties
  <2> QED
      BY <1>2, <2>3, <2>5, <2>6
<1> QED
    BY <1>3, <1>4

\* While the page waits, or shows an error, no output is there.
LEMMA SilentShown ==
    ASSUME ShownInv, runs' = Killed, \A x \in screen' : x.part # "output"
    PROVE  /\ ShownInv' /\ seq' = seq
           /\ \A r \in 1 .. seq : runs'[r].text = runs[r].text
<1>1. /\ Killed \in Seq(Runs) /\ Len(Killed) = seq
      /\ \A r \in 1 .. seq : Killed[r].text = runs[r].text /\ Killed[r].left = 0
      BY KilledIs
<1>2. seq' = seq
      BY <1>1 DEF seq
<1>3. ShownInv'
      BY <1>1, <1>2 DEF ShownInv, Runs
<1> QED
    BY <1>1, <1>2, <1>3

\* The editor, unless a run begins: its text is a version of the same program,
\* or has been replaced.
LEMMA TextKept ==
    ASSUME TextInv, body' \in Texts, changed' \in BOOLEAN, seq' = seq,
           seq > 0 => runs'[seq].text = runs[seq].text,
           \/ changed' \/ seq = 0
           \/ changed' = changed /\ Program(body') = Program(body)
    PROVE  TextInv'
BY DEF TextInv

\* The requests, if each new one fits: what was typed or what the clicks count
\* makes the texts of older formats irrelevant, or they still are the program.
LEMMA NetKept ==
    ASSUME NetInv, Stays, clicks' \in Nat, clicks' >= clicks, before' \in Nat,
           seq \in Nat, seq' \in Nat, seq' >= seq,
           \/ changed' \/ seq' = 0
           \/ before' = clicks'
           \/ /\ changed' = changed /\ before' = before /\ seq' = seq
              /\ Program(body') = Program(body),
           \A q \in net' : q \in net \/ Fits(q)'
    PROVE  NetInv'
<1>1. ASSUME NEW q \in net PROVE Fits(q)'
  <2>1. Fits(q) /\ clicks \in Nat /\ before \in Nat
        BY DEF NetInv
  <2>2. q.n \in 0 .. clicks'
        BY <2>1 DEF Fits
  <2>3. ASSUME q.to = "/fmt"
        PROVE  /\ q.text \in Texts
               /\ ~changed' /\ seq' > 0 /\ q.n > before' =>
                    Program(q.text) = Program(body')
    <3>1. CASE changed' \/ seq' = 0
          BY <2>1, <2>3, <3>1 DEF Fits
    <3>2. CASE before' = clicks'
      <4>1. ~(q.n > before')
            BY <2>2, <3>2
      <4> QED
          BY <2>1, <2>3, <4>1 DEF Fits
    <3>3. CASE /\ changed' = changed /\ before' = before /\ seq' = seq
               /\ Program(body') = Program(body)
          BY <2>1, <2>3, <3>3 DEF Fits
    <3> QED
        BY <3>1, <3>2, <3>3
  <2>4. q.to = "/compile" => q.cur \in 1 .. seq'
        BY <2>1 DEF Fits
  <2>5. q.to = "/share" =>
          q \in Posts /\ (OK(q.answer) => q.answer.id = ID[q.text] /\ Kept(q.answer.id)')
        BY <2>1 DEF Fits, Stays, Posts
  <2> QED
      BY <2>2, <2>3, <2>4, <2>5 DEF Fits, Posts
<1> QED
    BY <1>1 DEF NetInv

\* The history, if no entry comes.
LEMMA HistKept ==
    ASSUME HistInv, Stays, hist' = hist, at' \in 1 .. Len(hist)
    PROVE  HistInv'
BY DEF HistInv, Entered, Stays

\* An entry is pushed: the ones after the present one go.
LEMMA Pushed ==
    ASSUME HistInv, Stays, NEW path \in Addresses, NEW code \in Texts \union {"none"},
           pushState(path, code),
           path.at = "/p/" => Kept(path.id)',
           code # "none" => path.at = "/p/" /\ path.id = ID[code]
    PROVE  HistInv'
<1> DEFINE e == [path |-> path, code |-> code]
           h == SubSeq(hist, 1, at)
<1>1. hist \in Seq(Entries) /\ at \in 1 .. Len(hist) /\ Len(hist) \in Nat
      BY LenProperties DEF HistInv, Entries
<1>2. h \in Seq(Entries) /\ Len(h) = at /\ \A i \in 1 .. at : h[i] = hist[i]
  <2>1. \A i \in 1 .. at : hist[i] \in Entries
        BY <1>1, ElementOfSeq
  <2>2. 1 \in Int /\ at \in Int /\ 1 <= at
        BY <1>1
  <2>3. /\ h \in Seq(Entries) /\ Len(h) = IF 1 <= at THEN at - 1 + 1 ELSE 0
        /\ \A i \in 1 .. at - 1 + 1 : h[i] = hist[1 + i - 1]
        BY <2>1, <2>2, SubSeqProperties
  <2>4. at - 1 + 1 = at /\ \A i \in 1 .. at : 1 + i - 1 = i
        BY <2>2
  <2> HIDE DEF h
  <2> QED
      BY <2>2, <2>3, <2>4
<1>3. e \in Entries
      BY DEF Entries
<1> HIDE DEF h
<1>4. hist' = Append(h, e) /\ at' = at + 1
      BY DEF pushState, h
<1> HIDE DEF e
<1>5. /\ hist' \in Seq(Entries) /\ Len(hist') = at + 1
      /\ \A i \in 1 .. at : hist'[i] = h[i]
      /\ hist'[at + 1] = e
      BY <1>2, <1>3, <1>4, AppendProperties
<1>6. ASSUME NEW i \in 1 .. at + 1, NEW x, x = hist'[i]
      PROVE  Entered(x)'
  <2>1. CASE i \in 1 .. at
    <3>1. i \in 1 .. Len(hist) /\ x = hist[i]
          BY <1>1, <1>2, <1>5, <1>6, <2>1
    <3>2. Entered(x)
          BY <3>1 DEF HistInv
    <3> QED
        BY <3>2 DEF Entered, Stays
  <2>2. CASE i = at + 1
    <3>1. x.path = path /\ x.code = code
          BY <1>5, <1>6, <2>2 DEF e
    <3> QED
        BY <3>1 DEF Entered
  <2>3. i \in 1 .. at \/ i = at + 1
        BY <1>1
  <2> QED
      BY <2>1, <2>2, <2>3
<1>7. at' \in 1 .. Len(hist')
      BY <1>1, <1>4, <1>5
<1>8. \A i \in 1 .. Len(hist') : Entered(hist[i])'
      BY <1>5, <1>6 DEF Entered
<1> QED
    BY <1>5, <1>7, <1>8 DEF HistInv, Entries

\* Nothing happens on the server.
LEMMA StoreKept ==
    ASSUME StoreInv, UNCHANGED storeVars
    PROVE  StoreInv' /\ Stays
BY DEF StoreInv, storeVars, Stays, Kept, Found

\* A formatted program is the same program.
LEMMA Tidy ==
    \A t \in Texts : Formatted[t] # Malformed =>
        Formatted[t] \in Texts /\ Program(Formatted[t]) = Program(t)
BY PageAssumption DEF Program

\* What no step of the invariant reads.
LEMMA Parts ==
    ASSUME IInv
    PROVE  /\ ShownInv /\ TextInv /\ NetInv /\ StoreInv /\ HistInv
           /\ seq \in Nat /\ clicks \in Nat /\ before \in Nat /\ body \in Texts
           /\ changed \in BOOLEAN /\ at \in 1 .. Len(hist)
           /\ \A q \in net : Fits(q)
<1>1. ShownInv /\ TextInv /\ NetInv /\ StoreInv /\ HistInv
      BY DEF IInv
<1>2. seq \in Nat
      BY <1>1, SeqNat
<1> QED
    BY <1>1, <1>2 DEF TextInv, NetInv, HistInv

\* A step that runs nothing, changes no text and leaves the server alone.
LEMMA QuietKeeps ==
    ASSUME IInv, clicks' \in Nat, clicks' >= clicks,
           UNCHANGED <<body, changed, before, hist, at, store, restarted>>,
           seq' = seq, seq > 0 => runs'[seq].text = runs[seq].text,
           ShownInv', \A q \in net' : q \in net \/ Fits(q)'
    PROVE  IInv'
<1>2. StoreInv' /\ Stays
      BY Parts, StoreKept DEF storeVars
<1>3. TextInv'
      BY Parts, TextKept
<1>4. NetInv'
  <2>1. before' \in Nat /\ seq' \in Nat /\ seq' >= seq
        BY Parts
  <2> QED
      BY <1>2, <2>1, Parts, NetKept
<1>5. HistInv'
      BY <1>2, Parts, HistKept
<1> QED
    BY <1>2, <1>3, <1>4, <1>5 DEF IInv

\* A step that only takes away what is shown.
LEMMA SilentKeeps ==
    ASSUME IInv, clicks' \in Nat, clicks' >= clicks, runs' = Killed,
           \A x \in screen' : x.part # "output",
           body' \in Texts, changed' \in BOOLEAN,
           \/ changed' \/ seq = 0
           \/ changed' = changed /\ Program(body') = Program(body),
           UNCHANGED <<before, hist, at, store, restarted>>,
           \A q \in net' : q \in net \/ Fits(q)'
    PROVE  IInv' /\ seq' >= seq
<1>1. /\ ShownInv' /\ seq' = seq
      /\ \A r \in 1 .. seq : runs'[r].text = runs[r].text
      BY Parts, SilentShown
<1>2. StoreInv' /\ Stays
      BY Parts, StoreKept DEF storeVars
<1>3. TextInv'
  <2>1. seq > 0 => seq \in 1 .. seq
        BY Parts
  <2> QED
      BY <1>1, <2>1, Parts, TextKept
<1>4. NetInv'
  <2>1. before' \in Nat /\ seq' \in Nat /\ seq' >= seq
        BY <1>1, Parts
  <2> QED
      BY <1>1, <1>2, <2>1, Parts, NetKept
<1>5. HistInv'
      BY <1>2, Parts, HistKept
<1> QED
    BY <1>1, <1>2, <1>3, <1>4, <1>5, Parts DEF IInv

---------------------------------------------------------------------------
(* Clicks.                                                                 *)

LEMMA FmtAndKeeps == ASSUME NEW then PROVE IInv /\ fmtAnd(then) => IInv' /\ seq' >= seq
<1>0. SUFFICES ASSUME IInv, fmtAnd(then) PROVE IInv' /\ seq' >= seq
      OBVIOUS
<1>1. PICK q : /\ q = [n |-> clicks + 1, to |-> "/fmt", text |-> body, then |-> then]
               /\ net' = net \union {q} /\ clicks' = q.n
      BY <1>0 DEF fmtAnd, Clicked
<1>2. /\ screen' = {Waiting} /\ runs' = Killed
      /\ UNCHANGED <<body, changed, before, hist, at, store, restarted>>
      BY <1>0 DEF fmtAnd, loading, place, since, storeVars
<1>3. q.n = clicks + 1 /\ q.to = "/fmt" /\ q.text = body
      BY <1>1
<1>4. \A x \in screen' : x.part # "output"
      BY <1>2 DEF Waiting
<1>5. clicks' \in Nat /\ clicks' >= clicks /\ clicks' = q.n
      BY <1>0, <1>1, <1>3, Parts
<1>6. Fits(q)'
      BY <1>0, <1>2, <1>3, <1>5, Parts DEF Fits
<1>7. \A r \in net' : r \in net \/ Fits(r)'
      BY <1>1, <1>6 DEF Fits
<1>8. body' \in Texts /\ changed' \in BOOLEAN
      BY <1>0, <1>2, Parts
<1> QED
    BY <1>0, <1>2, <1>4, <1>5, <1>7, <1>8, SilentKeeps

LEMMA PicksToyKeeps == IInv /\ PicksToy => IInv'
<1>0. SUFFICES ASSUME IInv, PicksToy PROVE IInv'
      OBVIOUS
<1>1. UNCHANGED <<body, screen, runs, changed, before, hist, at, store, restarted>>
      BY <1>0 DEF PicksToy, shown, place, since, storeVars
<1>2. ShownInv' /\ seq' = seq /\ runs' = runs
      BY <1>0, <1>1, Parts DEF ShownInv, seq
<1>3. CASE UNCHANGED <<clicks, net>>
  <2>1. clicks' \in Nat /\ clicks' >= clicks
        BY <1>0, <1>3, Parts
  <2> QED
      BY <1>0, <1>1, <1>2, <1>3, <2>1, QuietKeeps
<1>4. CASE Clicked([n |-> clicks + 1, to |-> "/doc/play"])
  <2>1. PICK q : /\ q = [n |-> clicks + 1, to |-> "/doc/play"]
                 /\ net' = net \union {q} /\ clicks' = q.n
        BY <1>4 DEF Clicked
  <2>2. q.n = clicks + 1 /\ q.to = "/doc/play"
        BY <2>1
  <2>3. clicks' \in Nat /\ clicks' >= clicks /\ clicks' = q.n
        BY <1>0, <2>1, <2>2, Parts
  <2>4. Fits(q)'
        BY <1>0, <2>2, <2>3, Parts DEF Fits
  <2>5. \A r \in net' : r \in net \/ Fits(r)'
        BY <2>1, <2>4 DEF Fits
  <2> QED
      BY <1>0, <1>1, <1>2, <2>3, <2>5, QuietKeeps
<1> QED
    BY <1>0, <1>3, <1>4 DEF PicksToy

LEMMA SharesKeeps == ASSUME NEW save PROVE IInv /\ Shares(save) => IInv'
<1>0. SUFFICES ASSUME IInv, Shares(save) PROVE IInv'
      OBVIOUS
<1>1. UNCHANGED <<body, screen, runs, changed, before, hist, at, store, restarted>>
      BY <1>0 DEF Shares, shown, place, since, storeVars
<1>2. ShownInv' /\ seq' = seq /\ runs' = runs
      BY <1>0, <1>1, Parts DEF ShownInv, seq
<1>3. CASE clicks' = clicks + 1 /\ UNCHANGED net
  <2>1. clicks' \in Nat /\ clicks' >= clicks
        BY <1>0, <1>3, Parts
  <2> QED
      BY <1>0, <1>1, <1>2, <1>3, <2>1, QuietKeeps
<1>4. CASE Clicked([n |-> clicks + 1, to |-> "/share", text |-> body,
                    answer |-> NoAnswer])
  <2>1. PICK q : /\ q = [n |-> clicks + 1, to |-> "/share", text |-> body,
                         answer |-> NoAnswer]
                 /\ net' = net \union {q} /\ clicks' = q.n
        BY <1>4 DEF Clicked
  <2>2. q.n = clicks + 1 /\ q.to = "/share" /\ q.answer = NoAnswer
        BY <2>1
  <2>3. clicks' \in Nat /\ clicks' >= clicks /\ clicks' = q.n
        BY <1>0, <2>1, <2>2, Parts
  <2>4. q \in [n : Nat, to : {"/share"}, text : Texts, answer : PostAnswers]
    <3>1. NoAnswer \in PostAnswers /\ clicks + 1 \in Nat /\ body \in Texts
          BY <1>0, Parts DEF PostAnswers
    <3> QED
        BY <2>1, <3>1
  <2>5. ~OK(NoAnswer)
        BY DEF OK, NoAnswer
  <2>6. Fits(q)'
        BY <1>0, <2>2, <2>3, <2>4, <2>5, Parts DEF Fits
  <2>7. \A r \in net' : r \in net \/ Fits(r)'
        BY <2>1, <2>6 DEF Fits
  <2> QED
      BY <1>0, <1>1, <1>2, <2>3, <2>7, QuietKeeps
<1> QED
    BY <1>0, <1>3, <1>4 DEF Shares

---------------------------------------------------------------------------
(* The editor and the history.                                             *)

\* A step that puts another text into the editor.
LEMMA EditKeeps ==
    ASSUME IInv, body' \in Texts, changed' = TRUE,
           UNCHANGED <<screen, runs, clicks, before, store, restarted>>,
           HistInv', \A q \in net' : q \in net
    PROVE  IInv'
<1>1. ShownInv' /\ seq' = seq
      BY Parts DEF ShownInv, seq
<1>2. StoreInv' /\ Stays
      BY Parts, StoreKept DEF storeVars
<1>3. TextInv'
      BY <1>1, Parts, TextKept
<1>4. NetInv'
  <2>1. /\ clicks' \in Nat /\ clicks' >= clicks /\ before' \in Nat
        /\ seq' \in Nat /\ seq' >= seq
        BY <1>1, Parts
  <2> QED
      BY <1>1, <1>2, <2>1, Parts, NetKept
<1> QED
    BY <1>1, <1>2, <1>3, <1>4 DEF IInv

LEMMA TypesKeeps == ASSUME NEW t \in Texts PROVE IInv /\ Types(t) => IInv'
<1>0. SUFFICES ASSUME IInv, Types(t) PROVE IInv'
      OBVIOUS
<1>1. /\ body' = t /\ changed' = TRUE
      /\ UNCHANGED <<screen, runs, clicks, net, before, store, restarted>>
      /\ inputChanged
      BY <1>0 DEF Types, shown, storeVars
<1>2. Stays
      BY <1>0, <1>1, Parts, StoreKept DEF storeVars
<1>3. HistInv'
  <2>1. CASE pushedPlay
    <3>1. hist' = hist /\ at' = at
          BY <1>1, <2>1 DEF inputChanged, place
    <3>2. at' \in 1 .. Len(hist)
          BY <1>0, <3>1, Parts
    <3> QED
        BY <1>0, <1>2, <3>1, <3>2, Parts, HistKept
  <2>2. CASE ~pushedPlay
    <3>1. PICK p \in {Root, Cut} : pushState(p, "none")
          BY <1>1, <2>2 DEF inputChanged
    <3>2. p \in Addresses /\ p.at # "/p/"
          BY <3>1 DEF Addresses, Root, Cut
    <3> QED
        BY <1>0, <1>2, <3>1, <3>2, Parts, Pushed
  <2> QED
      BY <2>1, <2>2
<1> QED
    BY <1>0, <1>1, <1>3, EditKeeps

LEMMA GoesKeeps ==
    ASSUME NEW i \in DOMAIN hist PROVE IInv /\ Goes(i) => IInv'
<1>0. SUFFICES ASSUME IInv, Goes(i) PROVE IInv'
      OBVIOUS
<1>1. /\ at' = i
      /\ UNCHANGED <<screen, runs, clicks, net, hist, before, store, restarted>>
      /\ IF hist[i].code = "none" THEN UNCHANGED <<body, changed>>
         ELSE body' = hist[i].code /\ changed' = TRUE
      BY <1>0 DEF Goes, shown, storeVars
<1>2. Stays
      BY <1>0, <1>1, Parts, StoreKept DEF storeVars
<1>3. i \in 1 .. Len(hist) /\ hist[i] \in Entries
  <2>1. hist \in Seq(Entries)
        BY <1>0, Parts DEF HistInv, Entries
  <2>2. i \in 1 .. Len(hist)
        BY <2>1, LenProperties
  <2> QED
      BY <2>1, <2>2, ElementOfSeq
<1>4. HistInv'
      BY <1>0, <1>1, <1>2, <1>3, Parts, HistKept
<1>5. CASE hist[i].code = "none"
  <2>1. ShownInv' /\ seq' = seq
        BY <1>0, <1>1, Parts DEF ShownInv, seq
  <2>2. StoreInv'
        BY <1>0, <1>1, Parts, StoreKept DEF storeVars
  <2>3. body' = body /\ changed' = changed
        BY <1>1, <1>5
  <2>4. TextInv' /\ NetInv'
        BY <1>0, <1>1, <2>1, <2>3, Parts DEF TextInv, NetInv, Fits, Kept, Found
  <2> QED
      BY <1>4, <2>1, <2>2, <2>4 DEF IInv
<1>6. CASE hist[i].code # "none"
  <2>1. body' \in Texts /\ changed' = TRUE
        BY <1>1, <1>3, <1>6 DEF Entries
  <2> QED
      BY <1>0, <1>1, <1>4, <2>1, EditKeeps
<1> QED
    BY <1>5, <1>6

---------------------------------------------------------------------------
(* Formats and runs.                                                       *)

\* A run begins with the text that the editor has now.
LEMMA RunOnlyKeeps ==
    ASSUME NEW q, NEW t \in Texts
    PROVE  /\ IInv /\ q \in net /\ runOnly(q, t) /\ body' = t
           /\ UNCHANGED <<clicks, hist, at, store, restarted>>
           => IInv' /\ seq' >= seq
<1>0. SUFFICES ASSUME IInv, q \in net, runOnly(q, t), body' = t,
                      UNCHANGED <<clicks, hist, at, store, restarted>>
               PROVE  IInv' /\ seq' >= seq
      OBVIOUS
<1> DEFINE e == [text |-> t, left |-> 0]
<1>1. PICK c : /\ c = [n |-> q.n, to |-> "/compile", text |-> t, cur |-> seq + 1]
               /\ net' = (net \ {q}) \union {c}
      BY <1>0 DEF runOnly
<1>2. /\ screen' = {Waiting} /\ runs' = Append(Killed, e)
      /\ changed' = FALSE /\ before' = clicks
      BY <1>0 DEF runOnly
<1>3. c.n = q.n /\ c.to = "/compile" /\ c.cur = seq + 1
      BY <1>1
<1>4. /\ Killed \in Seq(Runs) /\ Len(Killed) = seq
      /\ \A r \in 1 .. seq : Killed[r].left = 0
      BY <1>0, Parts, KilledIs
<1>5. e \in Runs
  <2>1. 0 \in 0 .. MaxEvents
        BY PageAssumption
  <2> QED
      BY <2>1 DEF Runs
<1>6. e.text = t /\ e.left = 0
      OBVIOUS
<1> HIDE DEF e
<1>7. /\ runs' \in Seq(Runs) /\ Len(runs') = seq + 1
      /\ \A r \in 1 .. seq : runs'[r] = Killed[r]
      /\ runs'[seq + 1] = e
      BY <1>2, <1>4, <1>5, AppendProperties
<1>8. seq' = seq + 1 /\ seq \in Nat /\ seq' \in Nat /\ seq' > 0 /\ seq' >= seq
      BY <1>0, <1>7, Parts DEF seq
<1>9. ShownInv'
  <2>1. ASSUME NEW r \in 1 .. seq' PROVE ~(runs'[r].left > 0)
    <3>1. r \in 1 .. seq \/ r = seq + 1
          BY <1>8
    <3>2. runs'[r].left = 0
          BY <1>4, <1>6, <1>7, <3>1
    <3> QED
        BY <3>2
  <2>2. \A x \in screen' : x.part # "output"
        BY <1>2 DEF Waiting
  <2> QED
      BY <1>7, <2>1, <2>2 DEF ShownInv, Runs
<1>10. TextInv'
       BY <1>0, <1>2, <1>6, <1>7, <1>8 DEF TextInv
<1>11. StoreInv' /\ Stays
       BY <1>0, Parts, StoreKept DEF storeVars
<1>12. NetInv'
  <2>1. q.n \in 0 .. clicks
        BY <1>0, Parts DEF Fits
  <2>2. seq + 1 \in 1 .. seq'
        BY <1>8
  <2>3. Fits(c)'
        BY <1>0, <1>3, <2>1, <2>2 DEF Fits
  <2>4. \A r \in net' : r \in net \/ Fits(r)'
        BY <1>1, <2>3 DEF Fits
  <2>5. /\ clicks' \in Nat /\ clicks' >= clicks /\ before' \in Nat
        /\ before' = clicks'
        BY <1>0, <1>2, Parts
  <2> QED
      BY <1>0, <1>8, <1>11, <2>4, <2>5, Parts, NetKept
<1>13. HistInv'
       BY <1>0, <1>11, Parts, HistKept
<1> QED
    BY <1>8, <1>9, <1>10, <1>11, <1>12, <1>13 DEF IInv

LEMMA FmtAnsweredKeeps ==
    ASSUME NEW q \in net PROVE IInv /\ FmtAnswered(q) => IInv' /\ seq' >= seq
<1>0. SUFFICES ASSUME IInv, FmtAnswered(q) PROVE IInv' /\ seq' >= seq
      OBVIOUS
<1> DEFINE result == Formatted[q.text]
           text == IF result = Malformed THEN body ELSE result
<1>1. /\ q.to = "/fmt" /\ body' = text
      /\ IF q.then = "run" THEN runOnly(q, text)
         ELSE /\ setError(IF result = Malformed THEN {FmtError} ELSE {})
              /\ net' = net \ {q}
              /\ changed' = IF result = Malformed THEN changed ELSE Replaced(q)
              /\ UNCHANGED before
      /\ UNCHANGED <<clicks, hist, at, store, restarted>>
      BY <1>0 DEF FmtAnswered, place, storeVars
<1>2. /\ Fits(q) /\ q.n \in 0 .. clicks /\ q.text \in Texts /\ body \in Texts
      /\ clicks \in Nat /\ before \in Nat /\ changed \in BOOLEAN /\ seq \in Nat
      BY <1>0, <1>1, Parts DEF Fits
<1>3. text \in Texts /\ (result # Malformed => Program(text) = Program(q.text))
      BY <1>2, Tidy
<1> HIDE DEF result
<1>4. CASE q.then = "run"
  <2> HIDE DEF text
  <2>1. runOnly(q, text)
        BY <1>1, <1>4
  <2>2. PICK t \in Texts : t = text
        BY <1>3
  <2> QED
      BY <1>0, <1>1, <2>1, <2>2, RunOnlyKeeps
<1>5. CASE q.then # "run"
  <2>1. /\ screen' \in {{FmtError}, {}} /\ runs' = Killed /\ net' = net \ {q}
        /\ changed' = IF result = Malformed THEN changed ELSE Replaced(q)
        /\ UNCHANGED before
        BY <1>1, <1>5 DEF setError
  <2>2. \A x \in screen' : x.part # "output"
        BY <2>1 DEF FmtError
  <2>3. changed' \in BOOLEAN
        BY <1>2, <2>1 DEF Replaced
  <2>4. \/ changed' \/ seq = 0
        \/ changed' = changed /\ Program(body') = Program(body)
    <3>1. CASE result = Malformed
          BY <1>1, <2>1, <3>1
    <3>2. CASE result # Malformed
      <4>1. changed' = IF q.n <= before THEN TRUE ELSE changed
            BY <2>1, <3>2 DEF Replaced
      <4>2. CASE q.n <= before \/ changed \/ seq = 0
            BY <4>1, <4>2
      <4>3. CASE ~(q.n <= before) /\ ~changed /\ seq # 0
        <5>1. q.n > before /\ seq > 0
              BY <1>2, <4>3
        <5>2. Program(q.text) = Program(body)
              BY <1>1, <1>2, <4>3, <5>1 DEF Fits
        <5>3. changed' = changed
              BY <4>1, <4>3
        <5> HIDE DEF text
        <5> QED
            BY <1>1, <1>3, <3>2, <5>2, <5>3
      <4> QED
          BY <4>2, <4>3
    <3> QED
        BY <3>1, <3>2
  <2> HIDE DEF text
  <2>5. /\ clicks' \in Nat /\ clicks' >= clicks /\ body' \in Texts
        /\ \A r \in net' : r \in net
        BY <1>1, <1>2, <1>3, <2>1
  <2> QED
      BY <1>0, <1>1, <2>1, <2>2, <2>3, <2>4, <2>5, SilentKeeps
<1> QED
    BY <1>4, <1>5

LEMMA FmtFailsKeeps ==
    ASSUME NEW q \in net PROVE IInv /\ FmtFails(q) => IInv' /\ seq' >= seq
<1>0. SUFFICES ASSUME IInv, FmtFails(q) PROVE IInv' /\ seq' >= seq
      OBVIOUS
<1>1. /\ screen' = {FmtError} /\ runs' = Killed /\ net' = net \ {q}
      /\ UNCHANGED <<body, clicks, changed, before, hist, at, store, restarted>>
      BY <1>0 DEF FmtFails, setError, place, since, storeVars
<1>2. \A x \in screen' : x.part # "output"
      BY <1>1 DEF FmtError
<1>3. /\ clicks' \in Nat /\ clicks' >= clicks /\ body' \in Texts
      /\ changed' \in BOOLEAN /\ \A r \in net' : r \in net
      BY <1>0, <1>1, Parts
<1> QED
    BY <1>0, <1>1, <1>2, <1>3, SilentKeeps

\* The newest run is played to a place.
LEMMA PlayedIs ==
    ASSUME ShownInv, NEW n \in 0 .. MaxEvents, seq > 0,
           runs' = [runs EXCEPT ![seq].left = n],
           \A x \in screen' : x.part = "output" => x.run = seq
    PROVE  ShownInv' /\ seq' = seq /\ runs'[seq].text = runs[seq].text
<1>1. runs \in Seq(Runs) /\ seq \in Nat /\ seq = Len(runs)
      BY SeqNat DEF ShownInv, Runs, seq
<1>2. seq \in 1 .. seq
      BY <1>1
<1>3. runs[seq] \in Runs
  <2>1. Len(runs) \in 1 .. Len(runs)
        BY <1>1, <1>2
  <2>2. runs[Len(runs)] \in Runs
        BY <1>1, <2>1, ElementOfSeq
  <2> QED
      BY <1>1, <2>2
<1> DEFINE e == [runs[seq] EXCEPT !.left = n]
<1>4. e \in Runs /\ e.left = n /\ e.text = runs[seq].text
      BY <1>3 DEF Runs
<1>5. runs' = [runs EXCEPT ![seq] = e]
      OBVIOUS
<1> HIDE DEF e
<1>6. /\ runs' \in Seq(Runs) /\ Len(runs') = seq
      /\ \A r \in 1 .. seq : runs'[r] = IF r = seq THEN e ELSE runs[r]
  <2>1. seq \in 1 .. Len(runs)
        BY <1>1, <1>2
  <2>2. /\ [runs EXCEPT ![seq] = e] \in Seq(Runs)
        /\ Len([runs EXCEPT ![seq] = e]) = Len(runs)
        /\ \A r \in 1 .. Len(runs) :
             [runs EXCEPT ![seq] = e][r] = IF r = seq THEN e ELSE runs[r]
        BY <1>1, <1>4, <2>1, ExceptSeq
  <2> QED
      BY <1>1, <1>5, <2>2
<1>7. seq' = seq
      BY <1>6 DEF seq
<1>8. ShownInv'
  <2>1. \A r \in 1 .. seq' : runs'[r].left > 0 => r = seq'
        BY <1>6, <1>7 DEF ShownInv
  <2> QED
      BY <1>6, <1>7, <2>1 DEF ShownInv, Runs
<1> QED
    BY <1>2, <1>4, <1>6, <1>7, <1>8

LEMMA CompileAnsweredKeeps ==
    ASSUME NEW q \in net PROVE IInv /\ CompileAnswered(q) => IInv' /\ seq' >= seq
<1>0. SUFFICES ASSUME IInv, CompileAnswered(q) PROVE IInv' /\ seq' >= seq
      OBVIOUS
<1>1. /\ q.to = "/compile" /\ net' = net \ {q}
      /\ UNCHANGED <<body, clicks, changed, before, hist, at, store, restarted>>
      BY <1>0 DEF CompileAnswered, place, since, storeVars
<1>2. ShownInv' /\ seq' = seq /\ (seq > 0 => runs'[seq].text = runs[seq].text)
  <2>1. CASE seq # q.cur
    <3>1. screen' = screen /\ runs' = runs
          BY <1>0, <2>1 DEF CompileAnswered, shown
    <3> QED
        BY <1>0, <3>1, Parts DEF ShownInv, seq
  <2>2. CASE seq = q.cur
    <3>1. PICK n \in 0 .. MaxEvents, parts \in SUBSET {Output(q.cur)} :
            /\ runs' = [runs EXCEPT ![q.cur].left = n]
            /\ screen' = IF n = 0 THEN {Output(q.cur)} ELSE parts
          BY <1>0, <2>2 DEF CompileAnswered
    <3>2. runs' = [runs EXCEPT ![seq].left = n]
          BY <2>2, <3>1
    <3>3. \A x \in screen' : x.part = "output" => x.run = seq
          BY <2>2, <3>1 DEF Output
    <3>4. seq > 0
          BY <1>0, <1>1, <2>2, Parts DEF Fits
    <3> QED
        BY <1>0, <3>2, <3>3, <3>4, Parts, PlayedIs
  <2> QED
      BY <2>1, <2>2
<1>3. clicks' \in Nat /\ clicks' >= clicks /\ \A r \in net' : r \in net
      BY <1>0, <1>1, Parts
<1> QED
    BY <1>0, <1>1, <1>2, <1>3, QuietKeeps, Parts

\* The failure that is shown is not output, of whichever run it is.
LEMMA CompileFailsKeeps ==
    ASSUME NEW q \in net PROVE IInv /\ CompileFails(q) => IInv'
<1>0. SUFFICES ASSUME IInv, CompileFails(q) PROVE IInv'
      OBVIOUS
<1>1. /\ screen' = {Failure(q.cur)} /\ net' = net \ {q}
      /\ UNCHANGED <<body, runs, clicks, changed, before, hist, at, store, restarted>>
      BY <1>0 DEF CompileFails, place, since, storeVars
<1>2. ShownInv' /\ seq' = seq
  <2>1. \A x \in screen' : x.part # "output"
        BY <1>1 DEF Failure
  <2> QED
      BY <1>0, <1>1, <2>1, Parts DEF ShownInv, seq
<1>3. clicks' \in Nat /\ clicks' >= clicks /\ \A r \in net' : r \in net
      BY <1>0, <1>1, Parts
<1> QED
    BY <1>0, <1>1, <1>2, <1>3, QuietKeeps

LEMMA PlaysKeeps ==
    ASSUME NEW r \in 1 .. seq PROVE IInv /\ Plays(r) => IInv' /\ seq' >= seq
<1>0. SUFFICES ASSUME IInv, Plays(r) PROVE IInv' /\ seq' >= seq
      OBVIOUS
<1>1. /\ runs[r].left > 0 /\ runs' = [runs EXCEPT ![r].left = @ - 1]
      /\ screen' \in {{Output(r)}, screen \union {Output(r)}}
      /\ UNCHANGED <<body, clicks, net, changed, before, hist, at, store, restarted>>
      BY <1>0 DEF Plays, place, since, storeVars
<1>2. r = seq
      BY <1>0, <1>1, Parts DEF ShownInv
<1>3. PICK n \in 0 .. MaxEvents : n = runs[seq].left - 1
  <2>1. runs \in Seq(Runs) /\ Len(runs) \in 1 .. Len(runs)
        BY <1>0, <1>2, Parts DEF ShownInv, Runs, seq
  <2>2. runs[Len(runs)] \in Runs
        BY <2>1, ElementOfSeq
  <2>3. runs[seq].left \in 0 .. MaxEvents /\ MaxEvents \in Nat
        BY <2>2, PageAssumption DEF Runs, seq
  <2> QED
      BY <1>1, <1>2, <2>3
<1>4. ShownInv' /\ seq' = seq /\ runs'[seq].text = runs[seq].text
  <2>1. runs' = [runs EXCEPT ![seq].left = n]
        BY <1>1, <1>2, <1>3
  <2>2. \A x \in screen' : x.part = "output" => x.run = seq
        BY <1>0, <1>1, <1>2, Parts DEF ShownInv, Output
  <2>3. seq > 0
        BY <1>0, <1>2, Parts
  <2> QED
      BY <1>0, <2>1, <2>2, <2>3, Parts, PlayedIs
<1>5. clicks' \in Nat /\ clicks' >= clicks
      BY <1>0, <1>1, Parts
<1> QED
    BY <1>0, <1>1, <1>4, <1>5, QuietKeeps, Parts

---------------------------------------------------------------------------
(* Shares, links and examples.                                             *)

LEMMA ShareAnsweredKeeps ==
    ASSUME NEW q \in net PROVE IInv /\ ShareAnswered(q) => IInv'
<1>0. SUFFICES ASSUME IInv, ShareAnswered(q) PROVE IInv'
      OBVIOUS
<1>1. /\ q.to = "/share" /\ net' = net \ {q}
      /\ UNCHANGED <<body, screen, runs, clicks, changed, before, store, restarted>>
      /\ IF OK(q.answer) THEN pushState(Link(q.answer.id), q.text)
                         ELSE UNCHANGED <<hist, at>>
      BY <1>0 DEF ShareAnswered, shown, place, since, storeVars
<1>2. /\ q \in Posts
      /\ OK(q.answer) => q.answer.id = ID[q.text] /\ Kept(q.answer.id)
      BY <1>0, <1>1, Parts DEF Fits, Posts
<1>3. StoreInv' /\ Stays
      BY <1>0, <1>1, Parts, StoreKept DEF storeVars
<1>4. HistInv'
  <2>1. CASE OK(q.answer)
    <3>1. q.text \in Texts /\ q.answer.id \in Ids
      <4>1. q.text \in Texts
            BY <1>2 DEF Posts
      <4> QED
          BY <1>2, <2>1, <4>1, ShareAssumption
    <3>2. PICK p : p = Link(q.answer.id)
          OBVIOUS
    <3>3. p \in Addresses /\ p.at = "/p/" /\ p.id = q.answer.id
          BY <3>1, <3>2 DEF Addresses, Link
    <3>4. Kept(p.id)' /\ p.id = ID[q.text]
          BY <1>2, <1>3, <2>1, <3>3 DEF Stays
    <3>5. PICK t \in Texts : t = q.text
          BY <3>1
    <3>6. pushState(p, t)
          BY <1>1, <2>1, <3>2, <3>5
    <3> QED
        BY <1>0, <1>3, <3>3, <3>4, <3>5, <3>6, Parts, Pushed
  <2>2. CASE ~OK(q.answer)
        BY <1>0, <1>1, <1>3, <2>2, Parts, HistKept
  <2> QED
      BY <2>1, <2>2
<1>5. ShownInv' /\ seq' = seq /\ runs' = runs
      BY <1>0, <1>1, Parts DEF ShownInv, seq
<1>6. TextInv'
      BY <1>0, <1>1, <1>5, Parts, TextKept
<1>7. NetInv'
  <2>1. /\ clicks' \in Nat /\ clicks' >= clicks /\ before' \in Nat
        /\ seq' \in Nat /\ seq' >= seq /\ \A r \in net' : r \in net
        BY <1>0, <1>1, <1>5, Parts
  <2> QED
      BY <1>0, <1>1, <1>3, <1>5, <2>1, Parts, NetKept
<1> QED
    BY <1>3, <1>4, <1>5, <1>6, <1>7 DEF IInv

\* A failed request that is only forgotten.
LEMMA ForgetsKeeps ==
    ASSUME NEW q \in net PROVE IInv /\ (ShareFails(q) \/ ToyFails(q)) => IInv'
<1>0. SUFFICES ASSUME IInv, ShareFails(q) \/ ToyFails(q) PROVE IInv'
      OBVIOUS
<1>1. /\ net' = net \ {q}
      /\ UNCHANGED <<body, screen, runs, clicks, changed, before, hist, at, store,
                     restarted>>
      BY <1>0 DEF ShareFails, ToyFails, shown, place, since, storeVars
<1>2. ShownInv' /\ seq' = seq /\ runs' = runs
      BY <1>0, <1>1, Parts DEF ShownInv, seq
<1>3. clicks' \in Nat /\ clicks' >= clicks /\ \A r \in net' : r \in net
      BY <1>0, <1>1, Parts
<1> QED
    BY <1>0, <1>1, <1>2, <1>3, QuietKeeps

LEMMA loadShareKeeps ==
    ASSUME NEW q \in net PROVE IInv /\ loadShare(q) => IInv'
<1>0. SUFFICES ASSUME IInv, loadShare(q) PROVE IInv'
      OBVIOUS
<1>1. /\ changed' = TRUE /\ net' = net \ {q}
      /\ UNCHANGED <<screen, runs, clicks, before, hist, at, store, restarted>>
      BY <1>0 DEF loadShare, shown, place, storeVars
<1>2. PICK a \in {handleShareGet(q.id), Status(500)} :
        body' = IF OK(a) THEN a.text ELSE CannotLoad
      BY <1>0 DEF loadShare
<1>3. OK(a) => a.text \in Texts
      BY <1>0, <1>2, Parts DEF handleShareGet, Status, OK, Found, GetSnippet, StoreInv
<1>4. body' \in Texts
      BY <1>2, <1>3, PageAssumption
<1>5. HistInv'
  <2>1. Stays
        BY <1>0, <1>1, Parts, StoreKept DEF storeVars
  <2> QED
      BY <1>0, <1>1, <2>1, Parts, HistKept
<1>6. \A r \in net' : r \in net
      BY <1>1
<1> QED
    BY <1>0, <1>1, <1>4, <1>5, <1>6, EditKeeps

LEMMA ToyAnsweredKeeps ==
    ASSUME NEW q \in net PROVE IInv /\ ToyAnswered(q) => IInv' /\ seq' >= seq
<1>0. SUFFICES ASSUME IInv, ToyAnswered(q) PROVE IInv' /\ seq' >= seq
      OBVIOUS
<1>1. /\ screen' = {Waiting} /\ runs' = Killed /\ changed' = TRUE
      /\ UNCHANGED <<clicks, hist, at, before, store, restarted>>
      BY <1>0 DEF ToyAnswered, loading, place, storeVars
<1>a. PICK a \in serveExample :
        /\ body' = a.text
        /\ net' = (net \ {q}) \union {[n |-> q.n, to |-> "/fmt", text |-> a.text,
                                       then |-> "run"]}
      BY <1>0 DEF ToyAnswered
<1>2. PICK c :
        /\ c = [n |-> q.n, to |-> "/fmt", text |-> a.text, then |-> "run"]
        /\ net' = (net \ {q}) \union {c}
      BY <1>a
<1>3. a.text \in Texts
      BY ShareAssumption DEF serveExample
<1>4. c.n = q.n /\ c.to = "/fmt" /\ c.text = a.text
      BY <1>2
<1>5. q.n \in 0 .. clicks
      BY <1>0, Parts DEF Fits
<1>6. Fits(c)'
      BY <1>1, <1>3, <1>4, <1>5 DEF Fits
<1>7. \A r \in net' : r \in net \/ Fits(r)'
      BY <1>2, <1>6 DEF Fits
<1>8. \A x \in screen' : x.part # "output"
      BY <1>1 DEF Waiting
<1>9. clicks' \in Nat /\ clicks' >= clicks /\ body' \in Texts /\ changed' \in BOOLEAN
      BY <1>0, <1>1, <1>a, <1>3, Parts
<1> QED
    BY <1>0, <1>1, <1>7, <1>8, <1>9, SilentKeeps

---------------------------------------------------------------------------
(* The server.                                                             *)

\* A program that is stored lies under its own identifier, from now on.
LEMMA PutKeeps ==
    ASSUME StoreInv, NEW t \in Texts, PutSnippet(ID[t], t), restarted' = restarted
    PROVE  StoreInv' /\ Stays /\ Kept(ID[t])'
<1>1. /\ DOMAIN store' = {ID[t]} \union DOMAIN store
      /\ \A id \in DOMAIN store' :
           store'[id] = IF id = ID[t] THEN t ELSE store[id]
      BY DEF PutSnippet
<1>2. StoreInv'
      BY <1>1 DEF StoreInv
<1>3. Stays /\ Kept(ID[t])'
      BY <1>1 DEF Stays, Kept, Found
<1> QED
    BY <1>2, <1>3

LEMMA ServerSharesKeeps ==
    ASSUME NEW q \in net PROVE IInv /\ ServerShares(q) => IInv'
<1>0. SUFFICES ASSUME IInv, ServerShares(q) PROVE IInv'
      OBVIOUS
<1>1. /\ q.to = "/share"
      /\ UNCHANGED <<body, screen, runs, clicks, changed, before, hist, at, restarted>>
      BY <1>0 DEF ServerShares, shown, place, since
<1>2. PICK a \in PostAnswers :
        /\ handleSharePost(q.text, a)
        /\ net' = (net \ {q}) \union {[q EXCEPT !.answer = a]}
      BY <1>0 DEF ServerShares
<1>3. q \in Posts /\ q.text \in Texts /\ q.n \in 0 .. clicks
  <2>1. q \in Posts /\ q.n \in 0 .. clicks
        BY <1>0, <1>1, Parts DEF Fits, Posts
  <2> QED
      BY <2>1 DEF Posts
<1>4. StoreInv' /\ Stays /\ (OK(a) => a.id = ID[q.text] /\ Kept(a.id)')
  <2>1. CASE /\ PutSnippet(ID[q.text], q.text)
             /\ a = [status |-> 200, id |-> ID[q.text]]
    <3>1. PICK t \in Texts : t = q.text
          BY <1>3
    <3>2. StoreInv' /\ Stays /\ Kept(ID[t])'
          BY <1>0, <1>1, <2>1, <3>1, Parts, PutKeeps
    <3>3. a.id = ID[t]
          BY <2>1, <3>1
    <3> QED
        BY <3>1, <3>2, <3>3
  <2>2. CASE a \in {Status(413), Status(500)} /\ UNCHANGED store
    <3>1. ~OK(a)
          BY <2>2 DEF OK, Status
    <3>2. StoreInv' /\ Stays
          BY <1>0, <1>1, <2>2, Parts, StoreKept DEF storeVars
    <3> QED
        BY <3>1, <3>2
  <2> QED
      BY <1>2, <2>1, <2>2 DEF handleSharePost
<1>5. PICK c : c = [q EXCEPT !.answer = a] /\ net' = (net \ {q}) \union {c}
      BY <1>2
<1>6. /\ c \in Posts /\ c.n = q.n /\ c.to = "/share" /\ c.text = q.text
      /\ c.answer = a
      BY <1>1, <1>3, <1>5 DEF Posts
<1>7. ShownInv' /\ seq' = seq /\ runs' = runs
      BY <1>0, <1>1, Parts DEF ShownInv, seq
<1>8. TextInv'
      BY <1>0, <1>1, <1>7, Parts, TextKept
<1>9. NetInv'
  <2>1. Fits(c)'
        BY <1>1, <1>3, <1>4, <1>6 DEF Fits, Posts
  <2>2. \A r \in net' : r \in net \/ Fits(r)'
        BY <1>5, <2>1 DEF Fits
  <2>3. /\ clicks' \in Nat /\ clicks' >= clicks /\ before' \in Nat
        /\ seq' \in Nat /\ seq' >= seq
        BY <1>0, <1>1, <1>7, Parts
  <2> QED
      BY <1>0, <1>1, <1>4, <1>7, <2>2, <2>3, Parts, NetKept
<1>10. HistInv'
       BY <1>0, <1>1, <1>4, Parts, HistKept
<1> QED
    BY <1>4, <1>7, <1>8, <1>9, <1>10 DEF IInv

\* After a restart nothing is promised of any link.
LEMMA ServerRestartsKeeps == IInv /\ ServerRestarts => IInv'
<1>0. SUFFICES ASSUME IInv, ServerRestarts PROVE IInv'
      OBVIOUS
<1>1. /\ store' = <<>> /\ restarted' = TRUE
      /\ UNCHANGED <<body, screen, runs, clicks, net, changed, before, hist, at>>
      BY <1>0 DEF ServerRestarts, Restarts, shown, place, since
<1>2. StoreInv' /\ Stays
  <2>1. DOMAIN store' = {}
        BY <1>1
  <2> QED
      BY <1>1, <2>1 DEF StoreInv, Stays, Kept
<1>3. ShownInv' /\ seq' = seq /\ runs' = runs
      BY <1>0, <1>1, Parts DEF ShownInv, seq
<1>4. TextInv'
      BY <1>0, <1>1, <1>3, Parts, TextKept
<1>5. NetInv'
  <2>1. /\ clicks' \in Nat /\ clicks' >= clicks /\ before' \in Nat
        /\ seq' \in Nat /\ seq' >= seq
        BY <1>0, <1>1, <1>3, Parts
  <2> QED
      BY <1>0, <1>1, <1>2, <1>3, <2>1, Parts, NetKept
<1>6. HistInv'
      BY <1>0, <1>1, <1>2, Parts, HistKept
<1> QED
    BY <1>2, <1>3, <1>4, <1>5, <1>6 DEF IInv

---------------------------------------------------------------------------
(* A page that has just been loaded.                                       *)

\* The state of the page at an address with the text served there.
FreshPage ==
    /\ body \in Texts /\ screen = {} /\ runs = <<>> /\ clicks = 0
    /\ \A q \in net : q.n = 0 /\ q.to = "/share?id"
    /\ changed = FALSE /\ before = 0 /\ at = 1
    /\ \E p \in Addresses : /\ hist = <<[path |-> p, code |-> "none"]>>
                            /\ p.at = "/p/" => Kept(p.id)

LEMMA Fresh == FreshPage => ShownInv /\ TextInv /\ NetInv /\ HistInv
<1>0. SUFFICES ASSUME FreshPage PROVE ShownInv /\ TextInv /\ NetInv /\ HistInv
      OBVIOUS
<1>1. runs \in Seq(Runs) /\ seq = 0
      BY <1>0, EmptySeq DEF FreshPage, seq
<1>2. ShownInv
  <2>1. ASSUME NEW r \in 1 .. seq PROVE FALSE
        BY <1>1, <2>1
  <2>2. screen = {}
        BY <1>0 DEF FreshPage
  <2> QED
      BY <1>1, <2>1, <2>2 DEF ShownInv, Runs
<1>3. TextInv
  <2>1. body \in Texts /\ changed \in BOOLEAN
        BY <1>0 DEF FreshPage
  <2>2. ~(seq > 0)
        BY <1>1
  <2> QED
      BY <2>1, <2>2 DEF TextInv
<1>4. NetInv
  <2>1. clicks = 0 /\ before = 0 /\ \A q \in net : q.n = 0 /\ q.to = "/share?id"
        BY <1>0 DEF FreshPage
  <2>2. ASSUME NEW q \in net PROVE Fits(q)
        BY <2>1 DEF Fits
  <2> QED
      BY <2>1, <2>2 DEF NetInv
<1>5. HistInv
  <2>1. PICK p \in Addresses : /\ hist = <<[path |-> p, code |-> "none"]>>
                               /\ p.at = "/p/" => Kept(p.id)
        BY <1>0 DEF FreshPage
  <2> DEFINE e == [path |-> p, code |-> "none"]
  <2>2. e \in Entries
        BY DEF Entries
  <2>3. e.path = p /\ e.code = "none" /\ hist = <<e>>
        BY <2>1
  <2> HIDE DEF e
  <2>4. hist \in Seq(Entries) /\ Len(hist) = 1 /\ hist[1] = e
        BY <2>2, <2>3
  <2>5. Entered(hist[1])
        BY <2>1, <2>3, <2>4 DEF Entered
  <2>6. \A i \in 1 .. Len(hist) : i = 1
        BY <2>4
  <2>7. at \in 1 .. Len(hist)
        BY <1>0, <2>4 DEF FreshPage
  <2>8. \A i \in 1 .. Len(hist) : Entered(hist[i])
        BY <2>5, <2>6
  <2> QED
      BY <2>4, <2>7, <2>8 DEF HistInv, Entries
<1> QED
    BY <1>2, <1>3, <1>4, <1>5

LEMMA FreshNext == FreshPage' => ShownInv' /\ TextInv' /\ NetInv' /\ HistInv'
BY Fresh, PTL

LEMMA InitIInv == Init => IInv
<1>0. SUFFICES ASSUME Init PROVE IInv
      OBVIOUS
<1>1. FreshPage
  <2>1. Root \in Addresses /\ Root.at # "/p/" /\ Hello \in Texts
        BY ShareAssumption DEF Addresses, Root
  <2> QED
      BY <1>0, <2>1 DEF Init, FreshPage
<1>2. StoreInv
  <2>1. DOMAIN store = {} /\ restarted = FALSE
        BY <1>0 DEF Init, StoreInit
  <2> QED
      BY <2>1 DEF StoreInv
<1> QED
    BY <1>1, <1>2, Fresh DEF IInv

\* Only an address with a page is opened, and of links only those kept.
LEMMA OpensKeeps ==
    ASSUME NEW address \in Addresses PROVE IInv /\ Opens(address) => IInv'
<1>0. SUFFICES ASSUME IInv, Opens(address) PROVE IInv'
      OBVIOUS
<1> DEFINE page == handleEdit(address)
<1>1. /\ OK(page) /\ Loaded(address, page.text)
      /\ UNCHANGED <<store, restarted>>
      BY <1>0 DEF Opens, storeVars
<1>2. page.text \in Texts /\ (address.at = "/p/" => Kept(address.id))
  <2>1. CASE address = Root
    <3>1. address.at = "/"
          BY <2>1 DEF Root
    <3>2. page = [status |-> 200, text |-> Hello]
          BY <3>1 DEF handleEdit
    <3> HIDE DEF page
    <3> QED
        BY <3>1, <3>2, ShareAssumption
  <2>2. CASE address = Cut
    <3>1. address.at = "/p/xx"
          BY <2>2 DEF Cut
    <3>2. page = Status(404)
          BY <3>1 DEF handleEdit
    <3> HIDE DEF page
    <3> QED
        BY <1>1, <3>2 DEF OK, Status
  <2>3. CASE address \notin {Root, Cut}
    <3>1. PICK id \in Ids : address = Link(id)
          BY <2>3 DEF Addresses
    <3>2. address.at = "/p/" /\ address.id = id
          BY <3>1 DEF Link
    <3>3. page = handleShareGet(id)
          BY <3>2 DEF handleEdit
    <3> HIDE DEF page
    <3>4. Found(id) /\ page.text = store[id]
          BY <1>1, <3>3 DEF handleShareGet, OK, Status, GetSnippet
    <3>5. store[id] \in Texts
          BY <1>0, <3>4, Parts DEF StoreInv, Found
    <3> QED
        BY <3>2, <3>4, <3>5 DEF Kept
  <2> QED
      BY <2>1, <2>2, <2>3
<1> HIDE DEF page
<1>3. FreshPage'
  <2>1. /\ body' \in Texts /\ screen' = {} /\ runs' = <<>> /\ clicks' = 0
        /\ changed' = FALSE /\ before' = 0 /\ at' = 1
        BY <1>1, <1>2 DEF Loaded
  <2>2. \A q \in net' : q.n = 0 /\ q.to = "/share?id"
        BY <1>1 DEF Loaded
  <2>3. hist' = <<[path |-> address, code |-> "none"]>>
        BY <1>1 DEF Loaded
  <2>4. address.at = "/p/" => Kept(address.id)'
        BY <1>1, <1>2 DEF Kept, Found
  <2> QED
      BY <2>1, <2>2, <2>3, <2>4 DEF FreshPage
<1>4. StoreInv'
      BY <1>0, <1>1, Parts, StoreKept DEF storeVars
<1> QED
    BY <1>3, <1>4, FreshNext DEF IInv

---------------------------------------------------------------------------
(* Types.                                                                  *)

\* With more runs, what was asked for or shown still is of one of them.
LEMMA Later ==
    ASSUME seq \in Nat, seq' \in Nat, seq' >= seq
    PROVE  Requests \subseteq Requests' /\ Pieces \subseteq Pieces'
<1>1. 1 .. seq \subseteq 1 .. seq'
      OBVIOUS
<1> HIDE DEF seq
<1>2. CompileRequests \subseteq CompileRequests'
      BY <1>1 DEF CompileRequests
<1>3. Requests \subseteq Requests'
      BY <1>2 DEF Requests, FmtRequests, PostRequests, PostAnswers, GetRequests,
                  ToyRequests, NoAnswer, Status
<1>4. Pieces \subseteq Pieces'
      BY <1>1 DEF Pieces, Waiting, FmtError, Output, Failure
<1> QED
    BY <1>3, <1>4

\* Where a request goes says what it is.
LEMMA RequestIs ==
    ASSUME NEW q \in Requests
    PROVE  /\ q.to = "/fmt" => q \in FmtRequests /\ q.n \in Clicks
           /\ q.to = "/compile" => q \in CompileRequests /\ q.cur \in 1 .. seq
           /\ q.to = "/share" => q \in PostRequests
           /\ q.to = "/doc/play" => q \in ToyRequests /\ q.n \in Clicks
<1> HIDE DEF seq
<1>1. CASE q \in FmtRequests
      BY <1>1 DEF FmtRequests
<1>2. CASE q \in CompileRequests
      BY <1>2 DEF CompileRequests
<1>3. CASE q \in PostRequests
      BY <1>3 DEF PostRequests
<1>4. CASE q \in GetRequests
      BY <1>4 DEF GetRequests
<1>5. CASE q \in ToyRequests
      BY <1>5 DEF ToyRequests
<1> QED
    BY <1>1, <1>2, <1>3, <1>4, <1>5 DEF Requests

\* Other requests come and go beside the share.
LEMMA SharesKept ==
    ASSUME SharesInv, UNCHANGED <<sharing, saves>>, clicks \in Nat, clicks' \in Nat,
           clicks' >= clicks, \A r : r.to = "/share" => (r \in net' <=> r \in net)
    PROVE  SharesInv'
<1>1. Asked' = Asked
      BY DEF Asked
<1> QED
    BY <1>1 DEF SharesInv

LEMMA TypeKept ==
    ASSUME TypeInv, seq \in Nat, seq' \in Nat, seq' >= seq, SharesInv', StoreOK',
           \A x \in screen' : x \in screen \/ x \in Pieces',
           \A r \in net' : r \in net \/ r \in Requests',
           clicks' \in 0 .. MaxClicks, before' \in 0 .. MaxClicks,
           pushedPlay' \in BOOLEAN, toyDisable' \in BOOLEAN
    PROVE  TypeInv'
<1>1. Requests \subseteq Requests' /\ Pieces \subseteq Pieces'
      BY Later
<1>2. screen' \subseteq Pieces' /\ net' \subseteq Requests'
      BY <1>1 DEF TypeInv
<1> QED
    BY <1>2 DEF TypeInv

SeqOK == seq \in Nat

LEMMA SeqIs == IInv => SeqOK
BY Parts DEF SeqOK

LEMMA SeqNext == IInv' => SeqOK'
BY SeqIs, PTL

\* A step that has nothing to do with sharing or the server.
LEMMA CalmTypes ==
    ASSUME IInv, TypeInv, IInv', seq' >= seq,
           UNCHANGED <<sharing, saves, store, restarted>>,
           \A x \in screen' : x \in screen \/ x \in Pieces',
           \A r \in net' : r \in net \/ r \in Requests',
           \A r : r.to = "/share" => (r \in net' <=> r \in net),
           clicks' \in 0 .. MaxClicks, clicks' >= clicks, before' \in {before, clicks},
           pushedPlay' \in BOOLEAN, toyDisable' \in BOOLEAN
    PROVE  TypeInv'
<1>1. seq \in Nat /\ seq' \in Nat
      BY Parts, SeqNext DEF SeqOK
<1>2. StoreOK'
      BY DEF TypeInv, StoreOK
<1>3. SharesInv'
  <2>1. SharesInv /\ clicks \in Nat /\ clicks' \in Nat
        BY PageAssumption DEF TypeInv
  <2> QED
      BY <2>1, SharesKept
<1>4. before' \in 0 .. MaxClicks
      BY DEF TypeInv
<1> QED
    BY <1>1, <1>2, <1>3, <1>4, TypeKept

\* What the types say that the steps below use.
LEMMA TypeParts ==
    ASSUME IInv, TypeInv
    PROVE  /\ SharesInv /\ screen \subseteq Pieces /\ net \subseteq Requests
           /\ clicks \in 0 .. MaxClicks /\ before \in 0 .. MaxClicks
           /\ pushedPlay \in BOOLEAN /\ toyDisable \in BOOLEAN
           /\ body \in Texts /\ seq \in Nat /\ MaxClicks \in Nat
           /\ clicks < MaxClicks => clicks + 1 \in Clicks /\ clicks + 1 >= clicks
BY Parts, PageAssumption DEF TypeInv, Clicks

LEMMA FmtAndTypes ==
    ASSUME NEW then \in {"run", "nothing"}
    PROVE  IInv /\ TypeInv /\ fmtAnd(then) => TypeInv'
<1>0. SUFFICES ASSUME IInv, TypeInv, fmtAnd(then) PROVE TypeInv'
      OBVIOUS
<1>1. PICK q : /\ q = [n |-> clicks + 1, to |-> "/fmt", text |-> body, then |-> then]
               /\ net' = net \union {q} /\ clicks' = clicks + 1
      BY <1>0 DEF fmtAnd, Clicked
<1>2. /\ screen' = {Waiting} /\ clicks < MaxClicks
      /\ UNCHANGED <<sharing, saves, store, restarted, before, pushedPlay, toyDisable>>
      BY <1>0 DEF fmtAnd, loading, shares, place, since, storeVars
<1>3. q \in Requests' /\ q.to = "/fmt"
      BY <1>0, <1>1, <1>2, TypeParts DEF Requests, FmtRequests
<1>4. Waiting \in Pieces'
      BY DEF Pieces
<1>5. clicks' \in 0 .. MaxClicks /\ clicks' >= clicks
      BY <1>0, <1>1, <1>2, TypeParts
<1>6. IInv' /\ seq' >= seq
      BY <1>0, FmtAndKeeps
<1> QED
    BY <1>0, <1>1, <1>2, <1>3, <1>4, <1>5, <1>6, TypeParts, CalmTypes

LEMMA PicksToyTypes == IInv /\ TypeInv /\ PicksToy => TypeInv'
<1>0. SUFFICES ASSUME IInv, TypeInv, PicksToy PROVE TypeInv'
      OBVIOUS
<1>1. /\ clicks < MaxClicks /\ screen' = screen /\ runs' = runs
      /\ UNCHANGED <<sharing, saves, store, restarted, before, pushedPlay>>
      BY <1>0 DEF PicksToy, shown, shares, place, since, storeVars
<1>2. IInv' /\ seq' >= seq
  <2>1. seq' = seq
        BY <1>1 DEF seq
  <2> QED
      BY <1>0, <2>1, TypeParts, PicksToyKeeps
<1>3. CASE toyDisable' = FALSE /\ UNCHANGED <<clicks, net>>
  <2>1. clicks' \in 0 .. MaxClicks /\ clicks' >= clicks
        BY <1>0, <1>3, TypeParts
  <2> QED
      BY <1>0, <1>1, <1>2, <1>3, <2>1, TypeParts, CalmTypes
<1>4. CASE Clicked([n |-> clicks + 1, to |-> "/doc/play"]) /\ UNCHANGED toyDisable
  <2>1. PICK q : /\ q = [n |-> clicks + 1, to |-> "/doc/play"]
                 /\ net' = net \union {q} /\ clicks' = clicks + 1
        BY <1>4 DEF Clicked
  <2>2. q \in Requests' /\ q.to = "/doc/play"
        BY <1>0, <1>1, <2>1, TypeParts DEF Requests, ToyRequests
  <2>3. clicks' \in 0 .. MaxClicks /\ clicks' >= clicks
        BY <1>0, <1>1, <2>1, TypeParts
  <2> QED
      BY <1>0, <1>1, <1>2, <1>4, <2>1, <2>2, <2>3, TypeParts, CalmTypes
<1> QED
    BY <1>0, <1>3, <1>4 DEF PicksToy

\* The request for a share is the only one, for there is none while sharing.
LEMMA SharesTypes ==
    ASSUME NEW save \in {0, 1} PROVE IInv /\ TypeInv /\ Shares(save) => TypeInv'
<1>0. SUFFICES ASSUME IInv, TypeInv, Shares(save) PROVE TypeInv'
      OBVIOUS
<1>1. /\ clicks < MaxClicks /\ screen' = screen /\ runs' = runs
      /\ saves' = saves + save /\ sharing' = TRUE /\ clicks' = clicks + 1
      /\ UNCHANGED <<store, restarted, before, pushedPlay, toyDisable>>
      BY <1>0 DEF Shares, Clicked, shown, place, since, storeVars
<1>2. clicks' \in 0 .. MaxClicks /\ saves' \in Nat /\ saves' <= clicks'
  <2>1. saves \in Nat /\ saves <= clicks
        BY <1>0, TypeParts DEF SharesInv
  <2> QED
      BY <1>0, <1>1, <2>1, TypeParts
<1>3. seq' = seq /\ seq' \in Nat /\ seq' >= seq
  <2>1. seq' = seq
        BY <1>1 DEF seq
  <2> QED
      BY <1>0, <2>1, TypeParts
<1>4. /\ \A r \in net' : r \in net \/ r \in Requests'
      /\ Asked' # {} /\ \A p, r \in Asked' : p = r
  <2>1. CASE sharing
    <3>1. net' = net
          BY <1>0, <2>1 DEF Shares
    <3>2. Asked' = Asked
          BY <3>1 DEF Asked
    <3> QED
        BY <1>0, <2>1, <3>1, <3>2, TypeParts DEF SharesInv
  <2>2. CASE ~sharing
    <3>1. PICK q : /\ q = [n |-> clicks + 1, to |-> "/share", text |-> body,
                           answer |-> NoAnswer]
                   /\ net' = net \union {q}
          BY <1>0, <2>2 DEF Shares, Clicked
    <3>2. q \in Requests' /\ q.to = "/share"
      <4>1. NoAnswer \in PostAnswers
            BY DEF PostAnswers
      <4> QED
          BY <1>0, <1>1, <3>1, <4>1, TypeParts DEF Requests, PostRequests
    <3>3. Asked = {}
          BY <1>0, <2>2, TypeParts DEF SharesInv
    <3>4. Asked' = {q}
          BY <3>1, <3>2, <3>3 DEF Asked
    <3> QED
        BY <3>1, <3>2, <3>4
  <2> QED
      BY <2>1, <2>2
<1>5. SharesInv'
      BY <1>1, <1>2, <1>4 DEF SharesInv
<1>6. StoreOK'
      BY <1>0, <1>1 DEF TypeInv, StoreOK
<1> QED
    BY <1>0, <1>1, <1>2, <1>3, <1>4, <1>5, <1>6, TypeParts, TypeKept

LEMMA TypesTypes == ASSUME NEW t \in Texts PROVE IInv /\ TypeInv /\ Types(t) => TypeInv'
<1>0. SUFFICES ASSUME IInv, TypeInv, Types(t) PROVE TypeInv'
      OBVIOUS
<1>1. UNCHANGED <<screen, runs, clicks, net, sharing, saves, toyDisable, before, store,
                  restarted>>
      BY <1>0 DEF Types, shown, shares, storeVars
<1>2. pushedPlay' \in BOOLEAN
      BY <1>0, TypeParts DEF Types, inputChanged, place
<1>3. IInv' /\ seq' >= seq /\ clicks' >= clicks
  <2>1. seq' = seq
        BY <1>1 DEF seq
  <2> QED
      BY <1>0, <1>1, <2>1, TypeParts, TypesKeeps
<1> QED
    BY <1>0, <1>1, <1>2, <1>3, TypeParts, CalmTypes

LEMMA GoesTypes ==
    ASSUME NEW i \in DOMAIN hist PROVE IInv /\ TypeInv /\ Goes(i) => TypeInv'
<1>0. SUFFICES ASSUME IInv, TypeInv, Goes(i) PROVE TypeInv'
      OBVIOUS
<1>1. UNCHANGED <<screen, runs, clicks, net, sharing, saves, pushedPlay, toyDisable,
                  before, store, restarted>>
      BY <1>0 DEF Goes, shown, shares, storeVars
<1>2. IInv' /\ seq' >= seq /\ clicks' >= clicks
  <2>1. seq' = seq
        BY <1>1 DEF seq
  <2> QED
      BY <1>0, <1>1, <2>1, TypeParts, GoesKeeps
<1> QED
    BY <1>0, <1>1, <1>2, TypeParts, CalmTypes

\* A request that is not for a share is answered, or fails.
LEMMA Answered ==
    ASSUME IInv, TypeInv, NEW q \in net, q.to # "/share", net' = net \ {q}
    PROVE  /\ \A r \in net' : r \in net \/ r \in Requests'
           /\ \A r : r.to = "/share" => (r \in net' <=> r \in net)
OBVIOUS

\* Another one follows it.
LEMMA Followed ==
    ASSUME IInv, TypeInv, NEW q \in net, q.to # "/share", NEW c \in Requests',
           c.to # "/share", net' = (net \ {q}) \union {c}
    PROVE  /\ \A r \in net' : r \in net \/ r \in Requests'
           /\ \A r : r.to = "/share" => (r \in net' <=> r \in net)
OBVIOUS

\* The compile request is of the run that is added.
LEMMA FmtAnsweredTypes ==
    ASSUME NEW q \in net PROVE IInv /\ TypeInv /\ FmtAnswered(q) => TypeInv'
<1>0. SUFFICES ASSUME IInv, TypeInv, FmtAnswered(q) PROVE TypeInv'
      OBVIOUS
<1>1. /\ q.to = "/fmt" /\ body' \in Texts
      /\ IF q.then = "run" THEN runOnly(q, body')
         ELSE /\ setError(IF Formatted[q.text] = Malformed THEN {FmtError} ELSE {})
              /\ net' = net \ {q} /\ UNCHANGED before
      /\ UNCHANGED <<clicks, sharing, saves, pushedPlay, toyDisable, store, restarted>>
  <2>1. q.to = "/fmt"
        BY <1>0 DEF FmtAnswered
  <2>2. q.text \in Texts
        BY <1>0, <2>1, Parts DEF Fits
  <2>3. body' \in Texts
        BY <1>0, <2>2, TypeParts, PageAssumption DEF FmtAnswered
  <2> QED
      BY <1>0, <2>1, <2>3 DEF FmtAnswered, shares, place, storeVars
<1>2. IInv' /\ seq' >= seq /\ clicks' \in 0 .. MaxClicks /\ clicks' >= clicks
      BY <1>0, <1>1, TypeParts, FmtAnsweredKeeps
<1>3. q \in Requests /\ q.n \in Clicks
      BY <1>0, <1>1, TypeParts, RequestIs
<1>4. CASE q.then = "run"
  <2>1. PICK c : /\ c = [n |-> q.n, to |-> "/compile", text |-> body', cur |-> seq + 1]
                 /\ net' = (net \ {q}) \union {c}
        BY <1>1, <1>4 DEF runOnly
  <2>2. /\ screen' = {Waiting} /\ before' = clicks
        /\ runs' = Append(Killed, [text |-> body', left |-> 0])
        BY <1>1, <1>4 DEF runOnly
  <2>3. seq + 1 \in 1 .. seq'
    <3>1. Killed \in Seq(Runs) /\ Len(Killed) = seq
          BY <1>0, Parts, KilledIs
    <3>2. [text |-> body', left |-> 0] \in Runs
          BY <1>1, PageAssumption DEF Runs
    <3>3. Len(runs') = seq + 1
          BY <2>2, <3>1, <3>2, AppendProperties
    <3>4. seq' = seq + 1
          BY <3>3 DEF seq
    <3> HIDE DEF seq
    <3> QED
        BY <1>0, <3>4, TypeParts
  <2>4. c \in Requests' /\ c.to = "/compile"
        BY <1>1, <1>3, <2>1, <2>3 DEF Requests, CompileRequests
  <2>5. Waiting \in Pieces'
        BY DEF Pieces
  <2>6. q.to # "/share" /\ c.to # "/share"
        BY <1>1, <2>4
  <2>7. /\ \A r \in net' : r \in net \/ r \in Requests'
        /\ \A r : r.to = "/share" => (r \in net' <=> r \in net)
        BY <1>0, <2>1, <2>4, <2>6, Followed
  <2> QED
      BY <1>0, <1>1, <1>2, <2>2, <2>5, <2>7, TypeParts, CalmTypes
<1>5. CASE q.then # "run"
  <2>1. /\ \A x \in screen' : x = FmtError
        /\ net' = net \ {q} /\ before' = before
        BY <1>1, <1>5 DEF setError
  <2>2. FmtError \in Pieces'
        BY DEF Pieces
  <2>3. /\ \A r \in net' : r \in net \/ r \in Requests'
        /\ \A r : r.to = "/share" => (r \in net' <=> r \in net)
        BY <1>0, <1>1, <2>1, Answered
  <2> QED
      BY <1>0, <1>1, <1>2, <2>1, <2>2, <2>3, TypeParts, CalmTypes
<1> QED
    BY <1>4, <1>5

LEMMA FmtFailsTypes ==
    ASSUME NEW q \in net PROVE IInv /\ TypeInv /\ FmtFails(q) => TypeInv'
<1>0. SUFFICES ASSUME IInv, TypeInv, FmtFails(q) PROVE TypeInv'
      OBVIOUS
<1>1. /\ q.to = "/fmt" /\ screen' = {FmtError} /\ net' = net \ {q}
      /\ UNCHANGED <<clicks, sharing, saves, pushedPlay, toyDisable, before, store,
                     restarted>>
      BY <1>0 DEF FmtFails, setError, shares, place, since, storeVars
<1>2. IInv' /\ seq' >= seq /\ clicks' \in 0 .. MaxClicks /\ clicks' >= clicks
      BY <1>0, <1>1, TypeParts, FmtFailsKeeps
<1>3. FmtError \in Pieces'
      BY DEF Pieces
<1>4. /\ \A r \in net' : r \in net \/ r \in Requests'
      /\ \A r : r.to = "/share" => (r \in net' <=> r \in net)
      BY <1>0, <1>1, Answered
<1> QED
    BY <1>0, <1>1, <1>2, <1>3, <1>4, TypeParts, CalmTypes

\* The parts of an older run stay parts of one.
LEMMA RunPieces ==
    ASSUME IInv, IInv', seq' >= seq, NEW r \in 1 .. seq
    PROVE  Output(r) \in Pieces' /\ Failure(r) \in Pieces'
<1>1. seq \in Nat /\ seq' \in Nat
      BY Parts, SeqNext DEF SeqOK
<1> HIDE DEF seq
<1>2. r \in 1 .. seq'
      BY <1>1
<1> QED
    BY <1>2 DEF Pieces

LEMMA CompileAnsweredTypes ==
    ASSUME NEW q \in net PROVE IInv /\ TypeInv /\ CompileAnswered(q) => TypeInv'
<1>0. SUFFICES ASSUME IInv, TypeInv, CompileAnswered(q) PROVE TypeInv'
      OBVIOUS
<1>1. /\ q.to = "/compile" /\ net' = net \ {q}
      /\ UNCHANGED <<clicks, sharing, saves, pushedPlay, toyDisable, before, store,
                     restarted>>
      BY <1>0 DEF CompileAnswered, shares, place, since, storeVars
<1>2. IInv' /\ seq' >= seq /\ clicks' \in 0 .. MaxClicks /\ clicks' >= clicks
      BY <1>0, <1>1, TypeParts, CompileAnsweredKeeps
<1>3. q.cur \in 1 .. seq
      BY <1>0, <1>1, Parts DEF Fits
<1>4. \A x \in screen' : x \in screen \/ x = Output(q.cur)
  <2>1. CASE seq # q.cur
        BY <1>0, <2>1 DEF CompileAnswered, shown
  <2>2. CASE seq = q.cur
    <3>1. PICK n \in 0 .. MaxEvents, parts \in SUBSET {Output(q.cur)} :
            screen' = IF n = 0 THEN {Output(q.cur)} ELSE parts
          BY <1>0, <2>2 DEF CompileAnswered
    <3> QED
        BY <3>1
  <2> QED
      BY <2>1, <2>2
<1>5. Output(q.cur) \in Pieces'
      BY <1>0, <1>2, <1>3, RunPieces
<1>6. /\ \A r \in net' : r \in net \/ r \in Requests'
      /\ \A r : r.to = "/share" => (r \in net' <=> r \in net)
      BY <1>0, <1>1, Answered
<1> QED
    BY <1>0, <1>1, <1>2, <1>4, <1>5, <1>6, TypeParts, CalmTypes

LEMMA CompileFailsTypes ==
    ASSUME NEW q \in net PROVE IInv /\ TypeInv /\ CompileFails(q) => TypeInv'
<1>0. SUFFICES ASSUME IInv, TypeInv, CompileFails(q) PROVE TypeInv'
      OBVIOUS
<1>1. /\ q.to = "/compile" /\ net' = net \ {q} /\ screen' = {Failure(q.cur)}
      /\ UNCHANGED <<runs, clicks, sharing, saves, pushedPlay, toyDisable, before, store,
                     restarted>>
      BY <1>0 DEF CompileFails, shares, place, since, storeVars
<1>2. IInv' /\ seq' >= seq /\ clicks' \in 0 .. MaxClicks /\ clicks' >= clicks
  <2>1. seq' = seq
        BY <1>1 DEF seq
  <2> QED
      BY <1>0, <1>1, <2>1, TypeParts, CompileFailsKeeps
<1>3. q.cur \in 1 .. seq
      BY <1>0, <1>1, Parts DEF Fits
<1>4. Failure(q.cur) \in Pieces'
      BY <1>0, <1>2, <1>3, RunPieces
<1>5. /\ \A r \in net' : r \in net \/ r \in Requests'
      /\ \A r : r.to = "/share" => (r \in net' <=> r \in net)
      BY <1>0, <1>1, Answered
<1> QED
    BY <1>0, <1>1, <1>2, <1>4, <1>5, TypeParts, CalmTypes

LEMMA PlaysTypes ==
    ASSUME NEW r \in 1 .. seq PROVE IInv /\ TypeInv /\ Plays(r) => TypeInv'
<1>0. SUFFICES ASSUME IInv, TypeInv, Plays(r) PROVE TypeInv'
      OBVIOUS
<1>1. /\ \A x \in screen' : x \in screen \/ x = Output(r)
      /\ UNCHANGED <<clicks, net, sharing, saves, pushedPlay, toyDisable, before, store,
                     restarted>>
      BY <1>0 DEF Plays, shares, place, since, storeVars
<1>2. IInv' /\ seq' >= seq /\ clicks' >= clicks
      BY <1>0, <1>1, TypeParts, PlaysKeeps
<1>3. Output(r) \in Pieces'
      BY <1>0, <1>2, RunPieces
<1> QED
    BY <1>0, <1>1, <1>2, <1>3, TypeParts, CalmTypes

\* With the answer of the only share, or its failure, none is under way.
LEMMA ShareReturnsTypes ==
    ASSUME NEW q \in net
    PROVE  IInv /\ TypeInv /\ (ShareAnswered(q) \/ ShareFails(q)) => TypeInv'
<1>0. SUFFICES ASSUME IInv, TypeInv, ShareAnswered(q) \/ ShareFails(q) PROVE TypeInv'
      OBVIOUS
<1>1. /\ q.to = "/share" /\ net' = net \ {q} /\ sharing' = FALSE
      /\ saves' \in {saves, 0} /\ pushedPlay' \in {pushedPlay, FALSE}
      /\ UNCHANGED <<screen, runs, clicks, toyDisable, before, store, restarted>>
      BY <1>0 DEF ShareAnswered, ShareFails, shown, place, since, storeVars
<1>2. seq' = seq /\ seq' >= seq /\ seq' \in Nat
  <2>1. seq' = seq
        BY <1>1 DEF seq
  <2> QED
      BY <1>0, <2>1, TypeParts
<1>3. SharesInv'
  <2>1. Asked' = Asked \ {q} /\ q \in Asked
        BY <1>1 DEF Asked
  <2>2. Asked' = {}
        BY <1>0, <2>1, TypeParts DEF SharesInv
  <2>3. saves' \in Nat /\ saves' <= clicks'
    <3>1. saves \in Nat /\ saves <= clicks /\ clicks \in Nat
          BY <1>0, TypeParts DEF SharesInv
    <3> QED
        BY <1>1, <3>1
  <2> QED
      BY <1>1, <2>2, <2>3 DEF SharesInv
<1>4. StoreOK'
      BY <1>0, <1>1 DEF TypeInv, StoreOK
<1> QED
    BY <1>0, <1>1, <1>2, <1>3, <1>4, TypeParts, TypeKept

LEMMA loadShareTypes ==
    ASSUME NEW q \in net PROVE IInv /\ TypeInv /\ loadShare(q) => TypeInv'
<1>0. SUFFICES ASSUME IInv, TypeInv, loadShare(q) PROVE TypeInv'
      OBVIOUS
<1>1. /\ q.to = "/share?id" /\ net' = net \ {q}
      /\ UNCHANGED <<screen, runs, clicks, sharing, saves, pushedPlay, toyDisable, before,
                     store, restarted>>
      BY <1>0 DEF loadShare, shown, shares, place, storeVars
<1>2. IInv' /\ seq' >= seq /\ clicks' >= clicks
  <2>1. seq' = seq
        BY <1>1 DEF seq
  <2> QED
      BY <1>0, <1>1, <2>1, TypeParts, loadShareKeeps
<1>3. /\ \A r \in net' : r \in net \/ r \in Requests'
      /\ \A r : r.to = "/share" => (r \in net' <=> r \in net)
      BY <1>0, <1>1, Answered
<1> QED
    BY <1>0, <1>1, <1>2, <1>3, TypeParts, CalmTypes

LEMMA ToyAnsweredTypes ==
    ASSUME NEW q \in net PROVE IInv /\ TypeInv /\ ToyAnswered(q) => TypeInv'
<1>0. SUFFICES ASSUME IInv, TypeInv, ToyAnswered(q) PROVE TypeInv'
      OBVIOUS
<1>1. /\ q.to = "/doc/play" /\ screen' = {Waiting}
      /\ UNCHANGED <<clicks, sharing, saves, pushedPlay, toyDisable, before, store,
                     restarted>>
      BY <1>0 DEF ToyAnswered, loading, shares, place, storeVars
<1>2. PICK a \in serveExample :
        net' = (net \ {q}) \union {[n |-> q.n, to |-> "/fmt", text |-> a.text,
                                    then |-> "run"]}
      BY <1>0 DEF ToyAnswered
<1>3. PICK c : /\ c = [n |-> q.n, to |-> "/fmt", text |-> a.text, then |-> "run"]
               /\ net' = (net \ {q}) \union {c}
      BY <1>2
<1>4. c \in Requests' /\ c.to # "/share" /\ q.to # "/share"
  <2>1. q.n \in Clicks
        BY <1>0, <1>1, TypeParts, RequestIs
  <2>2. a.text \in Texts
        BY ShareAssumption DEF serveExample
  <2> QED
      BY <1>1, <1>3, <2>1, <2>2 DEF Requests, FmtRequests
<1>5. IInv' /\ seq' >= seq /\ clicks' >= clicks
      BY <1>0, <1>1, TypeParts, ToyAnsweredKeeps
<1>6. /\ \A r \in net' : r \in net \/ r \in Requests'
      /\ \A r : r.to = "/share" => (r \in net' <=> r \in net)
      BY <1>0, <1>3, <1>4, Followed
<1>7. Waiting \in Pieces'
      BY DEF Pieces
<1> QED
    BY <1>0, <1>1, <1>5, <1>6, <1>7, TypeParts, CalmTypes

LEMMA ToyFailsTypes ==
    ASSUME NEW q \in net PROVE IInv /\ TypeInv /\ ToyFails(q) => TypeInv'
<1>0. SUFFICES ASSUME IInv, TypeInv, ToyFails(q) PROVE TypeInv'
      OBVIOUS
<1>1. /\ q.to = "/doc/play" /\ net' = net \ {q}
      /\ UNCHANGED <<screen, runs, clicks, sharing, saves, pushedPlay, toyDisable, before,
                     store, restarted>>
      BY <1>0 DEF ToyFails, shown, shares, place, since, storeVars
<1>2. IInv' /\ seq' >= seq /\ clicks' >= clicks
  <2>1. seq' = seq
        BY <1>1 DEF seq
  <2> QED
      BY <1>0, <1>1, <2>1, TypeParts, ForgetsKeeps
<1>3. /\ \A r \in net' : r \in net \/ r \in Requests'
      /\ \A r : r.to = "/share" => (r \in net' <=> r \in net)
      BY <1>0, <1>1, Answered
<1> QED
    BY <1>0, <1>1, <1>2, <1>3, TypeParts, CalmTypes

\* The answer of the server is kept in the request.
LEMMA ServerSharesTypes ==
    ASSUME NEW q \in net PROVE IInv /\ TypeInv /\ ServerShares(q) => TypeInv'
<1>0. SUFFICES ASSUME IInv, TypeInv, ServerShares(q) PROVE TypeInv'
      OBVIOUS
<1>1. /\ q.to = "/share"
      /\ UNCHANGED <<screen, runs, clicks, sharing, saves, pushedPlay, toyDisable, before,
                     restarted>>
      BY <1>0 DEF ServerShares, shown, shares, place, since
<1>2. PICK a \in PostAnswers :
        /\ handleSharePost(q.text, a)
        /\ net' = (net \ {q}) \union {[q EXCEPT !.answer = a]}
      BY <1>0 DEF ServerShares
<1>3. PICK c : c = [q EXCEPT !.answer = a] /\ net' = (net \ {q}) \union {c}
      BY <1>2
<1>4. q \in PostRequests /\ q.text \in Texts
  <2>1. q \in PostRequests
        BY <1>0, <1>1, TypeParts, RequestIs
  <2> QED
      BY <2>1 DEF PostRequests
<1>5. c \in Requests' /\ c.to = "/share"
  <2>1. PICK n \in Clicks, t \in Texts, b \in PostAnswers :
          q = [n |-> n, to |-> "/share", text |-> t, answer |-> b]
        BY <1>4 DEF PostRequests
  <2>2. c = [n |-> n, to |-> "/share", text |-> t, answer |-> a]
        BY <1>3, <2>1
  <2>3. c \in PostRequests
        BY <2>2 DEF PostRequests
  <2>4. PostRequests' = PostRequests
        BY DEF PostRequests, PostAnswers, NoAnswer, Status
  <2>5. c \in Requests'
        BY <2>3, <2>4 DEF Requests
  <2> QED
      BY <2>2, <2>5
<1>6. seq' = seq /\ seq' >= seq /\ seq' \in Nat
  <2>1. seq' = seq
        BY <1>1 DEF seq
  <2> QED
      BY <1>0, <2>1, TypeParts
<1>7. SharesInv'
  <2>1. q \in Asked
        BY <1>1 DEF Asked
  <2>2. Asked = {q} /\ sharing
        BY <1>0, <2>1, TypeParts DEF SharesInv
  <2>3. Asked' = {c}
        BY <1>3, <1>5, <2>2 DEF Asked
  <2>4. sharing' /\ saves' \in Nat /\ saves' <= clicks'
        BY <1>0, <1>1, <2>2, TypeParts DEF SharesInv
  <2> QED
      BY <2>3, <2>4 DEF SharesInv
<1>8. StoreOK'
  <2>1. StoreOK
        BY <1>0 DEF TypeInv
  <2>2. CASE q.text \notin TooLarge /\ PutSnippet(ID[q.text], q.text)
    <3>1. PICK id \in Ids, t \in Texts \ TooLarge : id = ID[q.text] /\ t = q.text
          BY <1>4, <2>2, ShareAssumption
    <3>2. store' = [i \in DOMAIN store \union {id} |-> IF i = id THEN t ELSE store[i]]
          BY <2>2, <3>1 DEF PutSnippet
    <3> QED
        BY <1>1, <2>1, <3>1, <3>2 DEF StoreOK
  <2>3. CASE store' = store
        BY <1>1, <2>1, <2>3 DEF StoreOK
  <2> QED
      BY <1>2, <2>2, <2>3 DEF handleSharePost
<1>9. \A r \in net' : r \in net \/ r \in Requests'
      BY <1>3, <1>5
<1> QED
    BY <1>0, <1>1, <1>6, <1>7, <1>8, <1>9, TypeParts, TypeKept

LEMMA ServerRestartsTypes == IInv /\ TypeInv /\ ServerRestarts => TypeInv'
<1>0. SUFFICES ASSUME IInv, TypeInv, ServerRestarts PROVE TypeInv'
      OBVIOUS
<1>1. /\ store' = <<>> /\ restarted' = TRUE
      /\ UNCHANGED <<screen, runs, clicks, net, sharing, saves, pushedPlay, toyDisable,
                     before>>
      BY <1>0 DEF ServerRestarts, Restarts, shown, shares, place, since
<1>2. seq' = seq /\ seq' >= seq /\ seq' \in Nat
  <2>1. seq' = seq
        BY <1>1 DEF seq
  <2> QED
      BY <1>0, <2>1, TypeParts
<1>3. SharesInv'
  <2>1. clicks \in Nat /\ clicks' \in Nat /\ clicks' >= clicks
        BY <1>0, <1>1, TypeParts
  <2> QED
      BY <1>0, <1>1, <2>1, TypeParts, SharesKept
<1>4. StoreOK'
  <2>1. DOMAIN store' = {}
        BY <1>1
  <2> QED
      BY <1>1, <2>1 DEF StoreOK
<1> QED
    BY <1>0, <1>1, <1>2, <1>3, <1>4, TypeParts, TypeKept

\* The types of a page that has just been loaded.
FreshTypes ==
    /\ StoreOK /\ screen = {} /\ clicks = 0 /\ before = 0 /\ saves = 0
    /\ sharing = FALSE /\ pushedPlay = FALSE /\ toyDisable \in BOOLEAN
    /\ net \subseteq GetRequests

LEMMA FreshIs == FreshTypes => TypeInv
<1>0. SUFFICES ASSUME FreshTypes PROVE TypeInv
      OBVIOUS
<1>1. Asked = {}
      BY <1>0 DEF FreshTypes, Asked, GetRequests
<1>2. SharesInv
  <2>1. sharing \in BOOLEAN /\ (sharing <=> Asked # {})
        BY <1>0, <1>1 DEF FreshTypes
  <2>2. saves \in Nat /\ saves <= clicks
        BY <1>0 DEF FreshTypes
  <2> QED
      BY <1>1, <2>1, <2>2 DEF SharesInv
<1>3. screen \subseteq Pieces /\ net \subseteq Requests
      BY <1>0 DEF FreshTypes, Requests
<1>4. clicks \in 0 .. MaxClicks /\ before \in 0 .. MaxClicks
      BY <1>0, PageAssumption DEF FreshTypes
<1>5. StoreOK /\ pushedPlay \in BOOLEAN /\ toyDisable \in BOOLEAN
      BY <1>0 DEF FreshTypes
<1> QED
    BY <1>2, <1>3, <1>4, <1>5 DEF TypeInv

LEMMA FreshTypesNext == FreshTypes' => TypeInv'
BY FreshIs, PTL

LEMMA InitTypes == Init => TypeInv
<1>0. SUFFICES ASSUME Init PROVE TypeInv
      OBVIOUS
<1>1. StoreOK
  <2>1. DOMAIN store = {} /\ restarted = FALSE
        BY <1>0 DEF Init, StoreInit
  <2> QED
      BY <2>1 DEF StoreOK
<1>2. FreshTypes
      BY <1>0, <1>1 DEF Init, FreshTypes
<1> QED
    BY <1>2, FreshIs

LEMMA OpensTypes ==
    ASSUME NEW address \in Addresses PROVE IInv /\ TypeInv /\ Opens(address) => TypeInv'
<1>0. SUFFICES ASSUME IInv, TypeInv, Opens(address) PROVE TypeInv'
      OBVIOUS
<1>1. /\ screen' = {} /\ clicks' = 0 /\ before' = 0 /\ saves' = 0 /\ sharing' = FALSE
      /\ pushedPlay' = FALSE /\ toyDisable' = (address.at = "/p/")
      /\ net' = IF address.at = "/p/"
                  THEN {[n |-> 0, to |-> "/share?id", id |-> address.id]} ELSE {}
      /\ UNCHANGED <<store, restarted>>
      BY <1>0 DEF Opens, Loaded, storeVars
<1>2. address.at = "/p/" => address.id \in Ids
  <2>1. Root.at # "/p/" /\ Cut.at # "/p/" /\ \A id \in Ids : Link(id).id = id
        BY DEF Root, Cut, Link
  <2> QED
      BY <2>1 DEF Addresses
<1>3. net' \subseteq GetRequests
      BY <1>1, <1>2 DEF GetRequests
<1>4. StoreOK'
      BY <1>0, <1>1 DEF TypeInv, StoreOK
<1>5. FreshTypes'
      BY <1>1, <1>3, <1>4 DEF FreshTypes, GetRequests
<1> QED
    BY <1>5, FreshTypesNext

---------------------------------------------------------------------------
(* The theorems.                                                           *)

LEMMA StutterKeeps == IInv /\ UNCHANGED vars => IInv'
<1>0. SUFFICES ASSUME IInv, UNCHANGED vars PROVE IInv'
      OBVIOUS
<1>1. UNCHANGED <<body, screen, runs, clicks, net, changed, before, hist, at, store,
                  restarted>>
      BY <1>0 DEF vars, shown, place, since, storeVars
<1>2. ShownInv' /\ seq' = seq /\ runs' = runs
      BY <1>0, <1>1, Parts DEF ShownInv, seq
<1>3. clicks' \in Nat /\ clicks' >= clicks
      BY <1>0, <1>1, Parts
<1> QED
    BY <1>0, <1>1, <1>2, <1>3, QuietKeeps

LEMMA StepIInv == IInv /\ [Next]_vars => IInv'
<1>0. SUFFICES ASSUME IInv, [Next]_vars PROVE IInv'
      OBVIOUS
<1>1. CASE ClicksRun \/ ClicksFmt \/ PicksToy
      BY <1>0, <1>1, FmtAndKeeps, PicksToyKeeps DEF ClicksRun, ClicksFmt
<1>2. CASE \E save \in {0, 1} : Shares(save)
      BY <1>0, <1>2, SharesKeeps
<1>3. CASE \E t \in Typed : Types(t)
      BY <1>0, <1>3, TypesKeeps, PageAssumption
<1>4. CASE \E i \in DOMAIN hist : Goes(i)
      BY <1>0, <1>4, GoesKeeps
<1>5. CASE \E address \in Addresses : Opens(address)
      BY <1>0, <1>5, OpensKeeps
<1>6. CASE \E q \in net : Returns(q) \/ ServerShares(q)
  <2>1. PICK q \in net : Returns(q) \/ ServerShares(q)
        BY <1>6
  <2>2. CASE FmtAnswered(q) \/ FmtFails(q)
        BY <1>0, <2>2, FmtAnsweredKeeps, FmtFailsKeeps
  <2>3. CASE CompileAnswered(q) \/ CompileFails(q)
        BY <1>0, <2>3, CompileAnsweredKeeps, CompileFailsKeeps
  <2>4. CASE ShareAnswered(q) \/ ShareFails(q) \/ ToyFails(q)
        BY <1>0, <2>4, ShareAnsweredKeeps, ForgetsKeeps
  <2>5. CASE loadShare(q) \/ ToyAnswered(q)
        BY <1>0, <2>5, loadShareKeeps, ToyAnsweredKeeps
  <2>6. CASE ServerShares(q)
        BY <1>0, <2>6, ServerSharesKeeps
  <2> QED
      BY <2>1, <2>2, <2>3, <2>4, <2>5, <2>6 DEF Returns
<1>7. CASE \E r \in 1 .. seq : Plays(r)
      BY <1>0, <1>7, PlaysKeeps
<1>8. CASE ServerRestarts
      BY <1>0, <1>8, ServerRestartsKeeps
<1>9. CASE UNCHANGED vars
      BY <1>0, <1>9, StutterKeeps
<1> QED
    BY <1>0, <1>1, <1>2, <1>3, <1>4, <1>5, <1>6, <1>7, <1>8, <1>9 DEF Next

LEMMA Inductive == Spec => []IInv
BY InitIInv, StepIInv, PTL DEF Spec

LEMMA StutterTypes == IInv /\ TypeInv /\ UNCHANGED vars => TypeInv'
<1>0. SUFFICES ASSUME IInv, TypeInv, UNCHANGED vars PROVE TypeInv'
      OBVIOUS
<1>1. UNCHANGED <<screen, runs, clicks, net, sharing, saves, pushedPlay, toyDisable,
                  before, store, restarted>>
      BY <1>0 DEF vars, shown, shares, place, since, storeVars
<1>2. IInv' /\ seq' >= seq /\ clicks' >= clicks
  <2>1. seq' = seq
        BY <1>1 DEF seq
  <2> QED
      BY <1>0, <1>1, <2>1, TypeParts, StutterKeeps
<1> QED
    BY <1>0, <1>1, <1>2, TypeParts, CalmTypes

LEMMA StepTypes == IInv /\ TypeInv /\ [Next]_vars => TypeInv'
<1>0. SUFFICES ASSUME IInv, TypeInv, [Next]_vars PROVE TypeInv'
      OBVIOUS
<1>1. CASE ClicksRun \/ ClicksFmt \/ PicksToy
      BY <1>0, <1>1, FmtAndTypes, PicksToyTypes DEF ClicksRun, ClicksFmt
<1>2. CASE \E save \in {0, 1} : Shares(save)
      BY <1>0, <1>2, SharesTypes
<1>3. CASE \E t \in Typed : Types(t)
      BY <1>0, <1>3, TypesTypes, PageAssumption
<1>4. CASE \E i \in DOMAIN hist : Goes(i)
      BY <1>0, <1>4, GoesTypes
<1>5. CASE \E address \in Addresses : Opens(address)
      BY <1>0, <1>5, OpensTypes
<1>6. CASE \E q \in net : Returns(q) \/ ServerShares(q)
  <2>1. PICK q \in net : Returns(q) \/ ServerShares(q)
        BY <1>6
  <2>2. CASE FmtAnswered(q) \/ FmtFails(q)
        BY <1>0, <2>2, FmtAnsweredTypes, FmtFailsTypes
  <2>3. CASE CompileAnswered(q) \/ CompileFails(q)
        BY <1>0, <2>3, CompileAnsweredTypes, CompileFailsTypes
  <2>4. CASE ShareAnswered(q) \/ ShareFails(q) \/ ToyFails(q)
        BY <1>0, <2>4, ShareReturnsTypes, ToyFailsTypes
  <2>5. CASE loadShare(q) \/ ToyAnswered(q)
        BY <1>0, <2>5, loadShareTypes, ToyAnsweredTypes
  <2>6. CASE ServerShares(q)
        BY <1>0, <2>6, ServerSharesTypes
  <2> QED
      BY <2>1, <2>2, <2>3, <2>4, <2>5, <2>6 DEF Returns
<1>7. CASE \E r \in 1 .. seq : Plays(r)
      BY <1>0, <1>7, PlaysTypes
<1>8. CASE ServerRestarts
      BY <1>0, <1>8, ServerRestartsTypes
<1>9. CASE UNCHANGED vars
      BY <1>0, <1>9, StutterTypes
<1> QED
    BY <1>0, <1>1, <1>2, <1>3, <1>4, <1>5, <1>6, <1>7, <1>8, <1>9 DEF Next

\* However the answers and failures of requests come, at most one share is under
\* way, and the button knows whether there is one (playground.js:518-553); what is
\* shown and asked for is of the runs and clicks of this page.
THEOREM TypeCorrect == Spec => []TypeOK
<1>1. IInv /\ TypeInv => TypeOK
  <2>1. SUFFICES ASSUME IInv, TypeInv PROVE TypeOK
        OBVIOUS
  <2>2. \A r \in 1 .. seq : runs[r].text \in Texts /\ runs[r].left \in 0 .. MaxEvents
    <3>1. runs \in Seq(Runs)
          BY <2>1, Parts DEF ShownInv, Runs
    <3>2. \A r \in 1 .. Len(runs) : runs[r] \in Runs
          BY <3>1, ElementOfSeq
    <3> QED
        BY <3>2 DEF seq, Runs
  <2>3. clicks \in 0 .. MaxClicks /\ saves \in 0 .. MaxClicks
    <3>1. saves \in Nat /\ saves <= clicks
          BY <2>1, TypeParts DEF SharesInv
    <3> QED
        BY <2>1, <3>1, TypeParts
  <2>4. Cardinality(Asked) <= 1
    <3>1. CASE Asked = {}
          BY <3>1, FS_EmptySet
    <3>2. CASE Asked # {}
      <4>1. PICK q : Asked = {q}
            BY <2>1, <3>2, TypeParts DEF SharesInv
      <4>2. Cardinality({q}) = 1
            BY FS_Singleton
      <4> QED
          BY <4>1, <4>2
    <3> QED
        BY <3>1, <3>2
  <2>5. /\ at \in DOMAIN hist
        /\ \A i \in DOMAIN hist : /\ hist[i].path \in Addresses
                                  /\ hist[i].code \in Texts \union {"none"}
    <3>1. hist \in Seq(Entries) /\ at \in 1 .. Len(hist)
          BY <2>1, Parts DEF HistInv, Entries
    <3>2. DOMAIN hist = 1 .. Len(hist)
          BY <3>1, LenProperties
    <3>3. \A i \in 1 .. Len(hist) : hist[i] \in Entries
          BY <3>1, ElementOfSeq
    <3> QED
        BY <3>1, <3>2, <3>3 DEF Entries
  <2>6. body \in Texts /\ changed \in BOOLEAN
        BY <2>1, Parts
  <2> QED
      BY <2>1, <2>2, <2>3, <2>4, <2>5, <2>6 DEF TypeInv, SharesInv, TypeOK
<1> QED
    BY <1>1, InitIInv, StepIInv, InitTypes, StepTypes, PTL DEF Spec

\* However many runs there are and in whatever order their answers come: only
\* the newest is played, and only its output is shown (playground.js:129-160,
\* 434-451).
THEOREM AlwaysNewest == Spec => []OnlyNewestShown
<1>1. IInv => OnlyNewestShown
      BY DEF IInv, ShownInv, OnlyNewestShown
<1> QED
    BY <1>1, Inductive, PTL

\* Output that is shown is that of the program in the editor, unless another
\* text came there since its run began (playground.js:434-478).
THEOREM AlwaysOfShownText == Spec => []OutputOfShownText
<1>1. IInv => OutputOfShownText
      BY DEF IInv, ShownInv, TextInv, OutputOfShownText
<1> QED
    BY <1>1, Inductive, PTL

\* An address pushed after a share is that of the program kept with it, and the
\* server has this program under it until it is restarted (playground.js:515-553,
\* store.go:25-47).
THEOREM LinksLast == Spec => []LinkShowsShared
<1>1. IInv => LinkShowsShared
  <2>1. SUFFICES ASSUME IInv, NEW i \in DOMAIN hist,
                        hist[i].path = Link(hist[i].path.id)
                 PROVE  LET id == hist[i].path.id
                            code == hist[i].code
                        IN  /\ restarted \/ Found(id)
                            /\ code # "none" => /\ id = ID[code]
                                                /\ Found(id) => GetSnippet(id) = code
        BY DEF LinkShowsShared
  <2> DEFINE id == hist[i].path.id
             code == hist[i].code
  <2>2. hist \in Seq(Entries) /\ i \in 1 .. Len(hist)
    <3>1. hist \in Seq(Entries)
          BY <2>1, Parts DEF HistInv, Entries
    <3> QED
        BY <3>1, LenProperties
  <2>3. Entered(hist[i])
        BY <2>1, <2>2, Parts DEF HistInv
  <2>4. hist[i].path.at = "/p/"
        BY <2>1 DEF Link
  <2>5. restarted \/ Found(id)
        BY <2>3, <2>4 DEF Entered, Kept
  <2>6. ASSUME code # "none"
        PROVE  id = ID[code] /\ (Found(id) => GetSnippet(id) = code)
    <3>1. id = ID[code]
          BY <2>3, <2>6 DEF Entered
    <3>2. code \in Texts
      <4>1. hist[i] \in Entries
            BY <2>2, ElementOfSeq
      <4> QED
          BY <2>6, <4>1 DEF Entries
    <3>3. Found(id) => store[id] \in Texts /\ ID[store[id]] = id
          BY <2>1, Parts DEF StoreInv, Found
    <3> HIDE DEF id, code
    <3> QED
        BY <3>1, <3>2, <3>3, ShareAssumption DEF GetSnippet
  <2> QED
      BY <2>5, <2>6
<1> QED
    BY <1>1, Inductive, PTL
====
