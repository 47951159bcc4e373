---- MODULE Recorder ----
(***************************************************************************)
(* Recorder.Events (play.go): the two outputs of a program, where every    *)
(* write is preceded by a header with its time and length, become one      *)
(* sequence of events with delays.                                         *)
(*                                                                         *)
(* decode copies nothing: a message is a slice of the output, and a write  *)
(* of the same time as the last is appended to that slice in place, over   *)
(* bytes of the output that were read already.  So the output is a buffer  *)
(* here, and a message a pair of offset and length.  magic is one symbol,  *)
(* the time and the length are one symbol each, and epoch is 0.            *)
(***************************************************************************)
EXTENDS Integers, Sequences, SequencesExt

CONSTANTS
    Magic,     \* the symbol that starts a header
    Outputs    \* what programs write: [stdout |-> ..., stderr |-> ...]

Kinds == {"stdout", "stderr"}
HeaderLen == 2

ASSUME RecorderAssumption == Magic \in Nat /\ Outputs \subseteq [Kinds -> Seq(Nat)]

VARIABLES
    written,   \* what the program wrote
    pc,        \* the kind that is being decoded, or what comes then
    dec,       \* decode's state for each kind: its buffer output, i, events, last
    sent,      \* how many events of each kind sortedMerge has taken
    now,       \* now, in Events
    out        \* out

merging == <<sent, now, out>>
vars == <<written, pc, dec, merging>>

Slices == [from : Nat \ {0}, len : Nat, time : Nat]
Decoding == [output : Seq(Nat), i : Nat \ {0}, events : Seq(Slices), last : Nat]
Events == [message : Seq(Nat), kind : Kinds, delay : Nat]

TypeOK ==
    /\ written \in [Kinds -> Seq(Nat)]
    /\ pc \in Kinds \union {"merge", "done", "failed"}
    /\ dec \in [Kinds -> Decoding]
    /\ \A k \in Kinds :
         /\ Len(dec[k].output) = Len(written[k])
         /\ \A n \in DOMAIN dec[k].events :
              dec[k].events[n].from + dec[k].events[n].len <= Len(written[k]) + 1
    /\ sent \in [Kinds -> Nat] /\ \A k \in Kinds : sent[k] <= Len(dec[k].events)
    /\ now \in Nat /\ out \in Seq(Events)

NewDecode(output) == [output |-> output, i |-> 1, events |-> <<>>, last |-> 0]

Init ==
    /\ written \in Outputs
    /\ pc = "stdout"
    /\ dec = [k \in Kinds |-> NewDecode(written[k])]
    /\ sent = [k \in Kinds |-> 0] /\ now = 0 /\ out = <<>>

---------------------------------------------------------------------------
(* decode.                                                                 *)

\* What append(prev.msg, b...) does if there is room in prev's array, and there
\* always is: len symbols move down from one place to another.
Moved(output, from, len, to) ==
    [x \in DOMAIN output |->
        IF x \in to .. to + len - 1 THEN output[from + (x - to)] ELSE output[x]]

\* Mistake: the header between two writes is counted twice.
AddOver(d, t, from, len) ==
    IF d.events # <<>> /\ Last(d.events).time = t
      THEN LET prev == Last(d.events) IN
           [d EXCEPT
              !.output = Moved(@, from, len, prev.from + prev.len + 2 * HeaderLen),
              !.events[Len(d.events)].len = @ + len,
              !.last = t]
      ELSE [d EXCEPT !.events = Append(@, [from |-> from, len |-> len, time |-> t]),
                     !.last = t]

add(d, t, from, len) ==
    IF d.events # <<>> /\ Last(d.events).time = t
      THEN LET prev == Last(d.events) IN
           [d EXCEPT !.output = Moved(@, from, len, prev.from + prev.len),
                     !.events[Len(d.events)].len = @ + len,
                     !.last = t]
      ELSE [d EXCEPT !.events = Append(@, [from |-> from, len |-> len, time |-> t]),
                     !.last = t]

\* Where the next header starts, or the end of the output.
NextHeader(output, i) ==
    LET at == {j \in i .. Len(output) : output[j] = Magic} IN
    IF at = {} THEN Len(output) + 1 ELSE CHOOSE j \in at : \A k \in at : j <= k

\* Text in front of the next header goes with the time of what precedes it.
Text(d) ==
    LET j == NextHeader(d.output, d.i) IN
    IF j = d.i THEN d ELSE [add(d, d.last, d.i, j - d.i) EXCEPT !.i = j]

Monotonic(t, last) == IF t < last THEN last ELSE t

\* Mistake: a write that was cut off counts as if all of it were there.
Whole(i, n, output) == n

Available(i, n, output) ==
    IF i + n > Len(output) + 1 THEN Len(output) + 1 - i ELSE n

ShortHeader(d) == Len(d.output) - d.i < HeaderLen

Write(d) ==
    LET t == d.output[d.i + 1]
        n == d.output[d.i + 2]
        i == d.i + 1 + HeaderLen
    IN  [add(d, Monotonic(t, d.last), i, Available(i, n, d.output))
           EXCEPT !.i = i + n]

More(k) == pc = k /\ dec[k].i <= Len(dec[k].output)

\* One turn of the loop: text up to a header or the end, then the header's write.
DecodeText(k) ==
    /\ More(k)
    /\ LET d == Text(dec[k]) IN
       /\ d.i > Len(d.output)
       /\ dec' = [dec EXCEPT ![k] = d]
    /\ UNCHANGED <<written, pc, merging>>

DecodeWrite(k) ==
    /\ More(k)
    /\ LET d == Text(dec[k]) IN
       /\ d.i <= Len(d.output) /\ ~ShortHeader(d)
       /\ dec' = [dec EXCEPT ![k] = Write(d)]
    /\ UNCHANGED <<written, pc, merging>>

DecodeFails(k) ==
    /\ More(k)
    /\ LET d == Text(dec[k]) IN
       d.i <= Len(d.output) /\ ShortHeader(d)
    /\ pc' = "failed"
    /\ UNCHANGED <<written, dec, merging>>

Decoded(k) ==
    /\ pc = k /\ ~More(k)
    /\ pc' = IF k = "stdout" THEN "stderr" ELSE "merge"
    /\ UNCHANGED <<written, dec, merging>>

---------------------------------------------------------------------------
(* sortedMerge, and the loop over what it returns, one event at a time.    *)

Message(d, e) == SubSeq(d.output, e.from, e.from + e.len - 1)

\* The events of a kind that are left, and the first of them.
Left(k) == Len(dec[k].events) - sent[k]
First(k) == dec[k].events[sent[k] + 1]

\* Mistake: standard output comes first as long as there is any.
StdoutFirst == IF Left("stdout") > 0 THEN "stdout" ELSE "stderr"

\* Of two events of the same time, the one of stderr comes first.
Earliest ==
    IF \/ Left("stderr") = 0
       \/ Left("stdout") > 0 /\ First("stdout").time < First("stderr").time
      THEN "stdout" ELSE "stderr"

Delay(e) == IF e.time > now THEN e.time - now ELSE 0

Emit ==
    /\ pc = "merge"
    /\ \E k \in Kinds : Left(k) > 0
    /\ LET k == Earliest
           e == First(k)
       IN  /\ out' = Append(out, [message |-> Message(dec[k], e), kind |-> k,
                                  delay |-> Delay(e)])
           /\ now' = IF Delay(e) > 0 THEN e.time ELSE now
           /\ sent' = [sent EXCEPT ![k] = @ + 1]
    /\ UNCHANGED <<written, pc, dec>>

Emitted ==
    /\ pc = "merge"
    /\ \A k \in Kinds : Left(k) = 0
    /\ pc' = "done"
    /\ UNCHANGED <<written, dec, merging>>

Next ==
    \/ \E k \in Kinds :
         DecodeText(k) \/ DecodeWrite(k) \/ DecodeFails(k) \/ Decoded(k)
    \/ Emit \/ Emitted

Spec == Init /\ [][Next]_vars

---------------------------------------------------------------------------
(* What the outputs mean, read off them from the left.                     *)

\* The symbols of a message, each with its time.
Timed(message, t) == [x \in DOMAIN message |-> <<message[x], t>>]

\* Where to read an output, how much of a write is still to come, and its time.
Cursors(output) == [at : 1 .. Len(output) + 1, left : Nat, time : Nat]
Cursor(at, left, time) == [at |-> at, left |-> left, time |-> time]

\* The symbols of an output that are not headers, each with its time; a header
\* that is not complete is the symbol Magic, of no time.
Reading(output) ==
    LET read[c \in Cursors(output)] ==
          IF c.at > Len(output) THEN <<>>
          ELSE IF c.left > 0 \/ output[c.at] # Magic
            THEN << <<output[c.at], c.time>> >> \o
                 read[Cursor(c.at + 1, IF c.left > 0 THEN c.left - 1 ELSE 0, c.time)]
          ELSE IF c.at + HeaderLen > Len(output) THEN << <<Magic, -1>> >>
          ELSE read[Cursor(c.at + 1 + HeaderLen, output[c.at + 2],
                           IF output[c.at + 1] > c.time THEN output[c.at + 1]
                                                        ELSE c.time)]
    IN  read

Meaning(output) == Reading(output)[Cursor(1, 0, 0)]

CutOff(output) ==
    LET meaning == Meaning(output) IN meaning # <<>> /\ Last(meaning)[2] = -1

\* What the delays up to an event add up to.
Clock(events) ==
    LET clock[n \in 0 .. Len(events)] ==
          IF n = 0 THEN 0 ELSE clock[n - 1] + events[n].delay
    IN  clock

\* The same of the events of one kind, at the times their delays add up to.
Played(events, k) ==
    FlattenSeq([n \in DOMAIN events |->
                  IF events[n].kind = k THEN Timed(events[n].message, Clock(events)[n])
                                        ELSE <<>>])

---------------------------------------------------------------------------
(* Properties.                                                             *)

\* Appending to a message in place never changes output that is still to be
\* read (play.go:49-53, 117-132).
UnreadKept ==
    \A k \in Kinds : \A x \in dec[k].i .. Len(written[k]) :
        dec[k].output[x] = written[k][x]

\* An output that ends in a header makes Recorder give up, and no other does: a
\* write that was cut off is not an error.  Played back with their delays, the
\* events show all that was written and nothing else, each kind in its order, and
\* every symbol at the time its header gives, or as late as what precedes it
\* (play.go:80-101, 133-174).
PlayedAsWritten ==
    /\ pc = "failed" => \E k \in Kinds : CutOff(written[k])
    /\ pc = "done" => \A k \in Kinds :
         ~CutOff(written[k]) /\ Played(out, k) = Meaning(written[k])

---------------------------------------------------------------------------
(* The inductive invariant.                                                *)

\* decode has made slices of all in front of i: each ends where the next one
\* starts, or before, and is older, and what follows is as it was written.
Sliced(d, output, i) ==
    /\ Len(d.output) = Len(output)
    /\ \A n \in 1 .. Len(d.events) :
         /\ d.events[n].from + d.events[n].len <= i
         /\ d.events[n].time <= d.last
         /\ \A m \in n + 1 .. Len(d.events) :
              /\ d.events[n].from + d.events[n].len <= d.events[m].from
              /\ d.events[n].time < d.events[m].time
    /\ d.events # <<>> => Last(d.events).time = d.last
    /\ \A x \in i .. Len(output) : d.output[x] = output[x]

\* What the first n events say.
SaidBy(d, n) ==
    FlattenSeq([m \in 1 .. n |-> Timed(Message(d, d.events[m]), d.events[m].time)])
Said(d) == SaidBy(d, Len(d.events))

\* A write that was cut off ends where the output does.
ReadTo(d) == IF d.i > Len(d.output) THEN Len(d.output) + 1 ELSE d.i

\* The events so far and what is still to be read mean what was written.
DecodeInv ==
    /\ written \in [Kinds -> Seq(Nat)] /\ dec \in [Kinds -> Decoding]
    /\ \A k \in Kinds :
         /\ Sliced(dec[k], written[k], ReadTo(dec[k]))
         /\ Said(dec[k]) \o Reading(written[k])[Cursor(ReadTo(dec[k]), 0, dec[k].last)]
              = Meaning(written[k])

\* What is taken is played, at its times, and what is left is not older.
MergeInv ==
    /\ sent \in [Kinds -> Nat] /\ now \in Nat /\ out \in Seq(Events)
    /\ now = Clock(out)[Len(out)]
    /\ \A k \in Kinds :
         /\ sent[k] <= Len(dec[k].events)
         /\ \A n \in sent[k] + 1 .. Len(dec[k].events) : now <= dec[k].events[n].time
         /\ Played(out, k) = SaidBy(dec[k], sent[k])

\* Merging starts when both kinds are decoded, and ends when nothing is left.
PlaceInv ==
    /\ pc \in Kinds \union {"merge", "done", "failed"}
    /\ pc \in Kinds => sent = [k \in Kinds |-> 0] /\ now = 0 /\ out = <<>>
    /\ \A k \in Kinds :
         /\ pc \in {"merge", "done"} \/ (pc = "stderr" /\ k = "stdout")
              => dec[k].i > Len(dec[k].output)
         /\ pc = "done" => Left(k) = 0
    /\ pc = "failed" => \E k \in Kinds : CutOff(written[k])

IInv == DecodeInv /\ MergeInv /\ PlaceInv
====
