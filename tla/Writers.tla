---- MODULE Writers ----
(***************************************************************************)
(* The two writers a container's output passes through                     *)
(* (sandbox/sandbox.go:643-703), as operators on records: switchWriter     *)
(* sends everything up to and including the start message to its first     *)
(* destination and the rest to the second; limitedWriter keeps the first   *)
(* bytes it is given and remembers how many it was given.                  *)
(***************************************************************************)
EXTENDS Integers, Sequences

CONSTANT Header   \* containedStartMessage, as a sequence of symbols

ASSUME HeaderAssumption == Header \in Seq(STRING) /\ Len(Header) > 0

\* s occurs in t with its last symbol at position i.
EndsAt(s, t, i) ==
    /\ i \in Len(s)..Len(t)
    /\ SubSeq(t, i - Len(s) + 1, i) = s

Occurs(s, t) == \E i \in 1..Len(t) : EndsAt(s, t, i)

\* bytes.Index(t, s) + len(s), for an s that occurs in t.
EndOfFirst(s, t) ==
    CHOOSE i \in 1..Len(t) :
        EndsAt(s, t, i) /\ \A j \in 1..(i - 1) : ~EndsAt(s, t, j)

Longest(t, n) == SubSeq(t, 1, IF n < 0 THEN 0 ELSE IF n < Len(t) THEN n ELSE Len(t))
LastOf(t, n) == SubSeq(t, Len(t) - n + 1, Len(t))

---------------------------------------------------------------------------
(* limitedWriter: dst, and n, the bytes still to be taken.                 *)

NewLimited(cap) == [dst |-> <<>>, n |-> cap]

\* Mistake: a write that does not fit is dropped whole.
LimitedWriteWhole(l, p) ==
    [dst |-> IF Len(p) > l.n THEN l.dst ELSE l.dst \o p, n |-> l.n - Len(p)]

\* Mistake: n counts only what was taken.
LimitedWriteTaken(l, p) ==
    [dst |-> l.dst \o Longest(p, l.n), n |-> l.n - Len(Longest(p, l.n))]

\* Write takes what fits, counts all of p against n, even when nothing fits,
\* and fails unless all of p fitted and there was room at all.
LimitedWrite(l, p) ==
    [dst |-> l.dst \o Longest(p, l.n), n |-> l.n - Len(p)]
LimitedFails(l, p) == l.n <= 0 \/ Len(p) > l.n

---------------------------------------------------------------------------
(* switchWriter: the last bytes seen (buf) and found.                      *)

NewSwitch == [buf |-> <<>>, found |-> FALSE]

\* Mistake: the header is looked for in each write alone.
SeenAlone(s, p) == p

\* s.buf after p was appended to it.
Seen(s, p) == s.buf \o p
Finds(s, p) == ~s.found /\ Occurs(Header, Seen(s, p))

\* How many of p's bytes come after the header.
NAfter(s, p) ==
    IF s.found THEN Len(p)
    ELSE IF Finds(s, p) THEN Len(Seen(s, p)) - EndOfFirst(Header, Seen(s, p))
    ELSE 0

ToFirst(s, p) == SubSeq(p, 1, Len(p) - NAfter(s, p))
ToSecond(s, p) == SubSeq(p, Len(p) - NAfter(s, p) + 1, Len(p))

\* dst2 is written to, if only the empty rest of a p that ends the header.
WritesSecond(s, p) == s.found \/ Finds(s, p)

\* Mistake: one byte too many is kept, enough for a whole header.
SwitchWriteKeepsMore(s, p) ==
    IF s.found THEN s
    ELSE IF Finds(s, p) THEN [buf |-> <<>>, found |-> TRUE]
    ELSE [buf |-> IF Len(Seen(s, p)) > Len(Header)
                    THEN LastOf(Seen(s, p), Len(Header))
                    ELSE Seen(s, p),
          found |-> FALSE]

\* Without the header keep just too little of buf to hold all of it.
SwitchWrite(s, p) ==
    IF s.found THEN s
    ELSE IF Finds(s, p) THEN [buf |-> <<>>, found |-> TRUE]
    ELSE [buf |-> IF Len(Seen(s, p)) >= Len(Header)
                    THEN LastOf(Seen(s, p), Len(Header) - 1)
                    ELSE Seen(s, p),
          found |-> FALSE]
====
