---- MODULE StartContainerProofs ----
(***************************************************************************)
(* For any alphabet, any start message and any limit: a container that is  *)
(* offered has greeted first, nothing it wrote is lost on the way, and a   *)
(* container whose process runs is wanted.                                 *)
(*                                                                         *)
(* The argument: what is in the header reader and the pipe is always the   *)
(* beginning of what the container wrote, however it was cut into writes,  *)
(* reads and chunks (PipeInv); so the reader cannot report success unless  *)
(* that beginning is the start message.                                    *)
(***************************************************************************)
EXTENDS StartContainer, SequenceTheorems, WellFoundedInduction, TLAPS

---------------------------------------------------------------------------
(* Sequences and the places where one occurs in another.                   *)

\* What a part of a sequence is made of.
LEMMA PartOf ==
    ASSUME NEW S, NEW t \in Seq(S), NEW d \in Nat, NEW n \in d..Len(t),
           NEW m, m = d + 1
    PROVE  /\ SubSeq(t, m, n) \in Seq(S)
           /\ Len(SubSeq(t, m, n)) = n - d
           /\ \A i \in 1..(n - d) : SubSeq(t, m, n)[i] = t[d + i]
<1>1. Len(t) \in Nat
      BY LenProperties
<1>2. m \in Int /\ n \in Int /\ m <= n + 1 /\ n - m + 1 = n - d
      BY <1>1
<1>3. ASSUME NEW i \in m..n PROVE t[i] \in S
  <2>1. i \in 1..Len(t)
        BY <1>1
  <2> QED
      BY <2>1, ElementOfSeq
<1> DEFINE r == SubSeq(t, m, n)
<1>4. /\ r \in Seq(S)
      /\ Len(r) = IF m <= n THEN n - m + 1 ELSE 0
      /\ \A i \in 1..(n - m + 1) : r[i] = t[m + i - 1]
      BY <1>2, <1>3, SubSeqProperties
<1> HIDE DEF r
<1>5. Len(r) = n - d
      BY <1>2, <1>4
<1>6. ASSUME NEW i \in 1..(n - d) PROVE r[i] = t[d + i]
  <2>1. i \in 1..(n - m + 1) /\ m + i - 1 = d + i
        BY <1>2
  <2> QED
      BY <2>1, <1>4
<1> QED
    BY <1>4, <1>5, <1>6 DEF r

\* Something that occurs has a first place.
LEMMA FirstPlace ==
    ASSUME NEW s, NEW t, Len(t) \in Nat, Occurs(s, t)
    PROVE  /\ EndOfFirst(s, t) \in 1..Len(t)
           /\ EndsAt(s, t, EndOfFirst(s, t))
           /\ \A j \in 1..(EndOfFirst(s, t) - 1) : ~EndsAt(s, t, j)
<1> DEFINE T == {i \in 1..Len(t) : EndsAt(s, t, i)}
<1>1. T # {} /\ T \subseteq Nat
      BY DEF Occurs
<1>2. \E i \in T : \A j \in T : <<j, i>> \notin OpToRel(<, Nat)
      BY <1>1, NatLessThanWellFounded, WFMin
<1>3. \E i \in T : \A j \in T : ~(j < i)
      BY <1>1, <1>2 DEF OpToRel
<1>4. \E i \in 1..Len(t) : EndsAt(s, t, i) /\ \A j \in 1..(i - 1) : ~EndsAt(s, t, j)
      BY <1>3
<1> QED
    BY <1>4 DEF EndOfFirst

\* What fits is a sequence, and is everything exactly if there is room.
LEMMA LongestIs ==
    ASSUME NEW S, NEW t \in Seq(S), NEW n \in Int
    PROVE  Longest(t, n) \in Seq(S) /\ (n >= 0 => (Longest(t, n) = t <=> Len(t) <= n))
<1>1. Len(t) \in Nat
      BY LenProperties
<1>2. PICK k \in 0..Len(t) : k = IF n < 0 THEN 0 ELSE IF n < Len(t) THEN n ELSE Len(t)
  <2>1. (IF n < 0 THEN 0 ELSE IF n < Len(t) THEN n ELSE Len(t)) \in 0..Len(t)
        BY <1>1
  <2> QED
      BY <2>1
<1> DEFINE r == SubSeq(t, 1, k)
<1>3. Longest(t, n) = r
      BY <1>2 DEF Longest
<1>4. r \in Seq(S) /\ Len(r) = k
  <2>1. 0 \in Nat /\ 1 = 0 + 1 /\ k - 0 = k
        BY <1>1
  <2>2. r \in Seq(S) /\ Len(r) = k - 0
        BY <2>1, PartOf
  <2> HIDE DEF r
  <2> QED
      BY <2>1, <2>2
<1>5. k = Len(t) => r = t
      BY SubSeqFull
<1>6. k # Len(t) => r # t
      BY <1>4
<1>7. n >= 0 => (k = Len(t) <=> Len(t) <= n)
      BY <1>1, <1>2
<1> HIDE DEF r
<1> QED
    BY <1>3, <1>4, <1>5, <1>6, <1>7

\* The two parts a sequence is cut into.
LEMMA Cut ==
    ASSUME NEW S, NEW t \in Seq(S), NEW n \in 0..Len(t)
    PROVE  /\ SubSeq(t, 1, n) \in Seq(S) /\ Len(SubSeq(t, 1, n)) = n
           /\ SubSeq(t, n + 1, Len(t)) \in Seq(S)
           /\ Len(SubSeq(t, n + 1, Len(t))) = Len(t) - n
           /\ SubSeq(t, 1, n) \o SubSeq(t, n + 1, Len(t)) = t
<1>1. Len(t) \in Nat
      BY LenProperties
<1>2. SubSeq(t, 1, n) \in Seq(S) /\ Len(SubSeq(t, 1, n)) = n
  <2>1. 0 \in Nat /\ n \in 0..Len(t) /\ 1 = 0 + 1 /\ n - 0 = n
        BY <1>1
  <2>2. SubSeq(t, 1, n) \in Seq(S) /\ Len(SubSeq(t, 1, n)) = n - 0
        BY <2>1, PartOf
  <2> QED
      BY <2>1, <2>2
<1>3. /\ SubSeq(t, n + 1, Len(t)) \in Seq(S)
      /\ Len(SubSeq(t, n + 1, Len(t))) = Len(t) - n
  <2>1. n \in Nat /\ Len(t) \in n..Len(t)
        BY <1>1
  <2> QED
      BY <2>1, PartOf
<1>4. SubSeq(t, 1, n) \o SubSeq(t, n + 1, Len(t)) = t
  <2>1. /\ 1 \in 1..Len(t) + 1 /\ n \in (1 - 1)..Len(t) /\ Len(t) \in n..Len(t)
        BY <1>1
  <2>2. SubSeq(t, 1, n) \o SubSeq(t, n + 1, Len(t)) = SubSeq(t, 1, Len(t))
        BY <2>1, ConcatAdjacentSubSeq
  <2> QED
      BY <2>2, SubSeqFull
<1> QED
    BY <1>2, <1>3, <1>4

\* Reading on: what is read of t after c symbols continues what was read.
LEMMA ReadOn ==
    ASSUME NEW S, NEW t \in Seq(S), NEW c \in 0..Len(t), NEW k \in Nat,
           k <= Len(SubSeq(t, c + 1, Len(t)))
    PROVE  LET p == SubSeq(SubSeq(t, c + 1, Len(t)), 1, k)
           IN  /\ p \in Seq(S) /\ Len(p) = k /\ c + k \in 0..Len(t)
               /\ SubSeq(t, 1, c + k) = SubSeq(t, 1, c) \o p
<1> DEFINE u == SubSeq(t, c + 1, Len(t))
           p == SubSeq(u, 1, k)
<1>1. Len(t) \in Nat /\ c \in Nat
      BY LenProperties
<1>2. u \in Seq(S) /\ Len(u) = Len(t) - c
      BY Cut
<1>3. PICK n \in c..Len(t) : n = c + k
  <2>1. k <= Len(t) - c
        BY <1>2
  <2> HIDE DEF u
  <2> QED
      BY <1>1, <2>1
<1>4. p \in Seq(S) /\ Len(p) = k
  <2> HIDE DEF u
  <2>1. k \in 0..Len(u)
        BY <1>1, <1>2, <1>3
  <2> QED
      BY <1>2, <2>1, Cut
<1>5. p = SubSeq(t, c + 1, n)
  <2>1. CASE k = 0
    <3>1. k < 1 /\ n < c + 1 /\ 1 \in Int /\ k \in Int /\ n \in Int /\ c + 1 \in Int
          BY <1>1, <1>3, <2>1
    <3>2. p = <<>>
      <4> HIDE DEF u
      <4> QED
          BY <3>1, SubSeqEmpty
    <3>3. SubSeq(t, c + 1, n) = <<>>
          BY <3>1, SubSeqEmpty
    <3> QED
        BY <3>2, <3>3
  <2>2. CASE k # 0
    <3>1. /\ c + 1 \in 1..Len(t) /\ Len(t) \in 1..Len(t)
          /\ 1 \in 1..Len(t) - (c + 1) + 1 /\ k \in 1..Len(t) - (c + 1) + 1
          /\ c + 1 + 1 - 1 = c + 1 /\ c + 1 + k - 1 = n
          BY <1>1, <1>3, <2>2
    <3>2. p = SubSeq(t, c + 1 + 1 - 1, c + 1 + k - 1)
          BY <3>1, SubSeqOfSubSeq
    <3> HIDE DEF p
    <3> QED
        BY <3>1, <3>2
  <2> QED
      BY <2>1, <2>2
<1>6. SubSeq(t, 1, c) \o SubSeq(t, c + 1, n) = SubSeq(t, 1, n)
  <2>1. 1 \in 1..Len(t) + 1 /\ c \in (1 - 1)..Len(t)
        BY <1>1
  <2> QED
      BY <2>1, ConcatAdjacentSubSeq
<1>7. n \in 0..Len(t)
      BY <1>1, <1>3
<1> HIDE DEF p
<1>8. SubSeq(t, 1, c) \o p = SubSeq(t, 1, c + k)
      BY <1>3, <1>5, <1>6
<1> QED
    BY <1>3, <1>4, <1>7, <1>8 DEF p

---------------------------------------------------------------------------
(* One write to a switchWriter, and to a limitedWriter.                    *)

\* The switchWriter passes everything on, and holds less than a header back.
LEMMA SwitchSplits ==
    ASSUME NEW S, Header \in Seq(S), NEW p \in Seq(S),
           NEW s \in [buf : Seq(S), found : BOOLEAN],
           ~s.found, Len(s.buf) < Len(Header)
    PROVE  /\ ToFirst(s, p) \in Seq(S) /\ ToSecond(s, p) \in Seq(S)
           /\ ToFirst(s, p) \o ToSecond(s, p) = p
           /\ ~Finds(s, p) => ToSecond(s, p) = <<>>
           /\ SwitchWrite(s, p) \in [buf : Seq(S), found : BOOLEAN]
           /\ Len(SwitchWrite(s, p).buf) < Len(Header)
           /\ SwitchWrite(s, p).found <=> Finds(s, p)
<1> DEFINE u == Seen(s, p)
           n == Len(p) - NAfter(s, p)
<1>1. /\ Len(s.buf) \in Nat /\ Len(p) \in Nat /\ Len(Header) \in Nat
      /\ s.buf \in Seq(S)
      BY LenProperties
<1>2. u \in Seq(S) /\ Len(u) = Len(s.buf) + Len(p) /\ Len(u) \in Nat
      BY <1>1, ConcatProperties DEF Seen
<1>3. NAfter(s, p) \in 0..Len(p)
  <2>1. CASE Finds(s, p)
    <3> DEFINE e == EndOfFirst(Header, u)
    <3>1. e \in 1..Len(u) /\ EndsAt(Header, u, e)
          BY <1>2, <2>1, FirstPlace DEF Finds
    <3>2. NAfter(s, p) = Len(u) - e
          BY <2>1 DEF NAfter
    <3> HIDE DEF e
    <3>3. e >= Len(Header)
          BY <1>1, <1>2, <3>1 DEF EndsAt
    <3> HIDE DEF u
    <3> QED
        BY <1>1, <1>2, <3>1, <3>2, <3>3
  <2>2. CASE ~Finds(s, p)
        BY <1>1, <2>2 DEF NAfter
  <2> QED
      BY <2>1, <2>2
<1>4. n \in 0..Len(p)
      BY <1>1, <1>3
<1>5. ToFirst(s, p) = SubSeq(p, 1, n) /\ ToSecond(s, p) = SubSeq(p, n + 1, Len(p))
      BY DEF ToFirst, ToSecond
<1> HIDE DEF n
<1>6. /\ ToFirst(s, p) \in Seq(S) /\ ToSecond(s, p) \in Seq(S)
      /\ ToFirst(s, p) \o ToSecond(s, p) = p
  <2>1. /\ SubSeq(p, 1, n) \in Seq(S) /\ SubSeq(p, n + 1, Len(p)) \in Seq(S)
        /\ SubSeq(p, 1, n) \o SubSeq(p, n + 1, Len(p)) = p
        BY <1>4, Cut
  <2> QED
      BY <1>5, <2>1
<1>7. ASSUME ~Finds(s, p) PROVE ToSecond(s, p) = <<>>
  <2>1. n = Len(p)
        BY <1>1, <1>7 DEF NAfter, n
  <2>2. n + 1 \in Int /\ Len(p) \in Int /\ Len(p) < n + 1
        BY <1>1, <2>1
  <2> QED
      BY <1>5, <2>2, SubSeqEmpty
<1>8. /\ SwitchWrite(s, p) \in [buf : Seq(S), found : BOOLEAN]
      /\ Len(SwitchWrite(s, p).buf) < Len(Header)
      /\ SwitchWrite(s, p).found <=> Finds(s, p)
  <2>1. CASE Finds(s, p)
    <3>1. <<>> \in Seq(S) /\ Len(<<>>) = 0
          BY EmptySeq
    <3>2. SwitchWrite(s, p) = [buf |-> <<>>, found |-> TRUE]
          BY <2>1 DEF SwitchWrite
    <3> QED
        BY <1>1, <2>1, <3>1, <3>2
  <2>2. CASE ~Finds(s, p) /\ Len(u) >= Len(Header)
    <3> DEFINE d == Len(u) - (Len(Header) - 1)
               v == LastOf(u, Len(Header) - 1)
    <3>1. d \in Nat /\ Len(u) \in d..Len(u) /\ Len(u) - d = Len(Header) - 1
      <4> HIDE DEF u
      <4> QED
          BY <1>1, <1>2, <2>2
    <3>2. v = SubSeq(u, d + 1, Len(u))
          BY DEF LastOf
    <3>3. SwitchWrite(s, p) = [buf |-> v, found |-> FALSE]
          BY <2>2 DEF SwitchWrite
    <3> HIDE DEF u, d, v
    <3>4. v \in Seq(S) /\ Len(v) = Len(u) - d
          BY <1>2, <3>1, <3>2, PartOf
    <3> QED
        BY <1>1, <2>2, <3>1, <3>3, <3>4
  <2>3. CASE ~Finds(s, p) /\ ~(Len(u) >= Len(Header))
    <3>1. SwitchWrite(s, p) = [buf |-> u, found |-> FALSE]
          BY <2>3 DEF SwitchWrite
    <3> HIDE DEF u
    <3> QED
        BY <1>1, <1>2, <2>3, <3>1
  <2> QED
      BY <2>1, <2>2, <2>3
<1> QED
    BY <1>6, <1>7, <1>8

\* A limitedWriter that has room left has taken all of what it was given.
LEMMA LimitTakes ==
    ASSUME NEW S, NEW l \in [dst : Seq(S), n : Int], NEW p \in Seq(S)
    PROVE  /\ LimitedWrite(l, p) \in [dst : Seq(S), n : Int]
           /\ LimitedWrite(l, p).n >= 0 =>
                l.n >= 0 /\ LimitedWrite(l, p).dst = l.dst \o p
<1> DEFINE w == LimitedWrite(l, p)
           q == Longest(p, l.n)
<1>1. l.n \in Int /\ l.dst \in Seq(S) /\ Len(p) \in Nat
      BY LenProperties
<1>2. q \in Seq(S) /\ (l.n >= 0 => (q = p <=> Len(p) <= l.n))
      BY <1>1, LongestIs
<1>3. w = [dst |-> l.dst \o q, n |-> l.n - Len(p)]
      BY DEF LimitedWrite
<1> HIDE DEF w, q
<1>4. l.dst \o q \in Seq(S)
      BY <1>1, <1>2, ConcatProperties
<1>5. w.n = l.n - Len(p) /\ w.dst = l.dst \o q /\ w \in [dst : Seq(S), n : Int]
      BY <1>1, <1>3, <1>4
<1>6. w.n >= 0 => l.n >= 0 /\ Len(p) <= l.n
      BY <1>1, <1>5
<1>7. w.n >= 0 => l.n >= 0 /\ w.dst = l.dst \o p
      BY <1>2, <1>5, <1>6
<1> QED
    BY <1>5, <1>7 DEF w

---------------------------------------------------------------------------
(* The state, and what is true of it.                                    *)

Processes == [cancelled : BOOLEAN, child : {"none", "running", "ended"},
              written : Seq(Alphabet), waited : BOOLEAN]
Switches == [buf : Seq(Alphabet), found : BOOLEAN]
Limiteds == [dst : Seq(Alphabet), n : Int]
Copies == [pc : {"copy", "pipe", "done"}, count : Nat, piped : Seq(Alphabet),
           after : Seq(Alphabet), sw : Switches, stdout : Limiteds]
Headers == [pc : {"none", "read", "done"}, buf : Seq(Alphabet),
            startErr : {"empty", "nil", "wrong"}]

\* The parts of TypeOK.
WorkerOK ==
    /\ worker \in {"begin", "start", "select", "timeout", "offer", "sleep",
                   "crashed"}
    /\ last \in Names \union {0}
    /\ wanted \subseteq Names
    /\ handed \subseteq Names

LEMMA Typing ==
    TypeOK <=> /\ WorkerOK
               /\ process \in Processes
               /\ copy \in Copies
               /\ copy.count <= Len(process.written)
               /\ header \in Headers
BY DEF TypeOK, WorkerOK, Processes, Copies, Switches, Limiteds, Headers

LEMMA Constants ==
    /\ Header \in Seq(Alphabet) /\ Len(Header) \in Nat \ {0}
    /\ StdoutCap \in Nat \ {0} /\ MaxStarts \in Nat \ {0} /\ MaxWritten \in Nat
BY StartAssumption, HeaderAssumption, LenProperties

\* What the fields of the three records are.
LEMMA Fields ==
    ASSUME process \in Processes, copy \in Copies, header \in Headers
    PROVE  /\ process.written \in Seq(Alphabet) /\ copy.count \in Nat
           /\ copy.piped \in Seq(Alphabet) /\ copy.after \in Seq(Alphabet)
           /\ copy.sw \in Switches /\ copy.stdout \in Limiteds
           /\ copy.stdout.dst \in Seq(Alphabet) /\ copy.stdout.n \in Int
           /\ header.buf \in Seq(Alphabet)
BY DEF Processes, Copies, Switches, Limiteds, Headers

---------------------------------------------------------------------------
(* Prefixes.                                                               *)

\* A prefix of t is what t goes on from.
LEMMA PrefixIs ==
    ASSUME NEW S, NEW s \in Seq(S), NEW t \in Seq(S)
    PROVE  IsPrefix(s, t) <=> \E u \in Seq(S) : t = s \o u
<1>1. Len(s) \in Nat /\ Len(t) \in Nat
      BY LenProperties
<1>2. SubSeq(s, 1, Len(s)) = s
      BY SubSeqFull
<1>3. ASSUME IsPrefix(s, t) PROVE \E u \in Seq(S) : t = s \o u
  <2>1. Len(s) \in 0..Len(t) /\ SubSeq(t, 1, Len(s)) = s
        BY <1>1, <1>2, <1>3 DEF IsPrefix
  <2> DEFINE u == SubSeq(t, Len(s) + 1, Len(t))
  <2>2. u \in Seq(S) /\ SubSeq(t, 1, Len(s)) \o u = t
        BY <2>1, Cut
  <2> HIDE DEF u
  <2> QED
      BY <2>1, <2>2
<1>4. ASSUME NEW u \in Seq(S), t = s \o u PROVE IsPrefix(s, t)
  <2>1. Len(t) = Len(s) + Len(u) /\ Len(u) \in Nat
        BY <1>4, ConcatProperties, LenProperties
  <2>2. SubSeq(s \o u, 1, Len(s)) = s
    <3>1. CASE Len(s) = 0
      <4>1. SubSeq(s \o u, 1, 0) = <<>> /\ SubSeq(s, 1, 0) = <<>>
            BY SubSeqEmpty
      <4> QED
          BY <1>2, <3>1, <4>1
    <3>2. CASE Len(s) # 0
      <4>1. 1 \in 1..Len(s) /\ Len(s) \in 1..Len(s)
            BY <1>1, <3>2
      <4> QED
          BY <1>2, <4>1, SubSeqOfConcat1
    <3> QED
        BY <3>1, <3>2
  <2> QED
      BY <1>1, <1>2, <1>4, <2>1, <2>2 DEF IsPrefix
<1> QED
    BY <1>3, <1>4

\* A prefix stays one when its sequence grows.
LEMMA PrefixGrows ==
    ASSUME NEW S, NEW s \in Seq(S), NEW t \in Seq(S), NEW p \in Seq(S),
           IsPrefix(s, t)
    PROVE  t \o p \in Seq(S) /\ IsPrefix(s, t \o p)
<1>1. PICK u \in Seq(S) : t = s \o u
      BY PrefixIs
<1>2. t \o p \in Seq(S) /\ u \o p \in Seq(S)
      BY ConcatProperties
<1>3. t \o p = s \o (u \o p)
      BY <1>1, ConcatAssociative
<1> QED
    BY <1>2, <1>3, PrefixIs

LEMMA Grouping ==
    \A x, y, z \in Seq(Alphabet) : (x \o y) \o z = x \o (y \o z)
BY ConcatAssociative

\* The part of t up to c does not change when t grows.
LEMMA ReadStays ==
    ASSUME NEW S, NEW t \in Seq(S), NEW p \in Seq(S), NEW c \in 0..Len(t)
    PROVE  SubSeq(t \o p, 1, c) = SubSeq(t, 1, c)
<1>1. Len(t) \in Nat
      BY LenProperties
<1>2. CASE c = 0
  <2>1. SubSeq(t \o p, 1, 0) = <<>> /\ SubSeq(t, 1, 0) = <<>>
        BY SubSeqEmpty
  <2> QED
      BY <1>2, <2>1
<1>3. CASE c # 0
  <2>1. 1 \in 1..Len(t) /\ c \in 1..Len(t)
        BY <1>1, <1>3
  <2> QED
      BY <2>1, SubSeqOfConcat1
<1> QED
    BY <1>2, <1>3

\* What Longest takes and what it leaves.
LEMMA LongestCuts ==
    ASSUME NEW S, NEW t \in Seq(S), NEW n \in Int
    PROVE  LET a == Longest(t, n)
               r == SubSeq(t, Len(a) + 1, Len(t))
           IN  a \in Seq(S) /\ r \in Seq(S) /\ a \o r = t
<1> DEFINE a == Longest(t, n)
<1>1. Len(t) \in Nat
      BY LenProperties
<1>2. PICK k \in 0..Len(t) : k = IF n < 0 THEN 0 ELSE IF n < Len(t) THEN n ELSE Len(t)
  <2>1. (IF n < 0 THEN 0 ELSE IF n < Len(t) THEN n ELSE Len(t)) \in 0..Len(t)
        BY <1>1
  <2> QED
      BY <2>1
<1>3. a = SubSeq(t, 1, k)
      BY <1>2 DEF Longest
<1> HIDE DEF a
<1>4. /\ SubSeq(t, 1, k) \in Seq(S) /\ Len(SubSeq(t, 1, k)) = k
      /\ SubSeq(t, k + 1, Len(t)) \in Seq(S)
      /\ SubSeq(t, 1, k) \o SubSeq(t, k + 1, Len(t)) = t
      BY Cut
<1> QED
    BY <1>3, <1>4 DEF a
---------------------------------------------------------------------------
(* What the parts of the invariant depend on.                              *)

\* The stream from the container to its stdout: PipeInv and NothingLost do not
\* see the other fields of the process and of the header reader.
LEMMA StreamKept ==
    ASSUME PipeInv, NothingLost, copy' = copy,
           process'.written = process.written, header'.buf = header.buf
    PROVE  PipeInv' /\ NothingLost'
BY DEF PipeInv, NothingLost

\* A new container has written nothing, and nothing of it is on its way.
LEMMA NewStream ==
    /\ NewProcess \in Processes /\ NewCopy \in Copies /\ NewHeader \in Headers
    /\ <<>> \o <<>> = <<>> /\ IsPrefix(<<>>, <<>>)
    /\ Len(<<>>) = 0
    /\ SubSeq(<<>>, 1, 0) = <<>>
<1>1. <<>> \in Seq(Alphabet) /\ Len(<<>>) = 0
      BY EmptySeq
<1>2. StdoutCap \in Int
      BY Constants
<1>3. NewProcess \in Processes
      BY <1>1 DEF NewProcess, Processes
<1>4. NewCopy \in Copies
  <2>1. NewSwitch \in Switches
        BY <1>1 DEF NewSwitch, Switches
  <2>2. NewLimited(StdoutCap) \in Limiteds
        BY <1>1, <1>2 DEF NewLimited, Limiteds
  <2> QED
      BY <1>1, <2>1, <2>2 DEF NewCopy, Copies
<1>5. NewHeader \in Headers
      BY <1>1 DEF NewHeader, Headers
<1>6. <<>> \o <<>> = <<>>
      BY <1>1, ConcatEmptySeq
<1>7. IsPrefix(<<>>, <<>>)
      BY <1>1, <1>6, PrefixIs
<1>8. SubSeq(<<>>, 1, 0) = <<>>
      BY SubSeqEmpty
<1> QED
    BY <1>1, <1>3, <1>4, <1>5, <1>6, <1>7, <1>8

\* The invariant of a new container.
LEMMA NewInv ==
    process = NewProcess /\ copy = NewCopy /\ header = NewHeader =>
           /\ process \in Processes /\ copy \in Copies /\ header \in Headers
           /\ copy.count <= Len(process.written)
           /\ ~process.cancelled /\ header.startErr = "empty"
           /\ PipeInv /\ NothingLost
<1> SUFFICES ASSUME process = NewProcess, copy = NewCopy, header = NewHeader
             PROVE  /\ process \in Processes /\ copy \in Copies /\ header \in Headers
                    /\ copy.count <= Len(process.written)
                    /\ ~process.cancelled /\ header.startErr = "empty"
                    /\ PipeInv /\ NothingLost
    OBVIOUS
<1>1. /\ process.written = <<>> /\ ~process.cancelled
      BY DEF NewProcess
<1>2. /\ copy.pc = "copy" /\ copy.count = 0 /\ copy.piped = <<>>
      /\ copy.after = <<>> /\ copy.sw = NewSwitch
      /\ copy.stdout = NewLimited(StdoutCap)
      BY DEF NewCopy
<1>3. copy.sw.buf = <<>> /\ copy.stdout.dst = <<>>
      BY <1>2 DEF NewSwitch, NewLimited
<1>4. header.buf = <<>> /\ header.startErr = "empty"
      BY DEF NewHeader
<1>5. copy.count <= Len(process.written)
      BY <1>1, <1>2, NewStream
<1>6. PipeInv
  <2>1. IsPrefix(header.buf \o copy.piped, process.written)
        BY <1>1, <1>2, <1>4, NewStream
  <2>2. Len(copy.sw.buf) < Len(Header)
        BY <1>3, NewStream, Constants
  <2> QED
      BY <1>2, <2>1, <2>2 DEF PipeInv
<1>7. NothingLost
  <2>1. header.buf \o copy.piped \o copy.stdout.dst \o copy.after = <<>>
        BY <1>2, <1>3, <1>4, NewStream
  <2>2. SubSeq(process.written, 1, copy.count) = <<>>
        BY <1>1, <1>2, NewStream
  <2> QED
      BY <2>1, <2>2 DEF NothingLost
<1> QED
    BY <1>1, <1>4, <1>5, <1>6, <1>7, NewStream

LEMMA NewInvNext ==
    (process = NewProcess /\ copy = NewCopy /\ header = NewHeader)' =>
        (/\ process \in Processes /\ copy \in Copies /\ header \in Headers
         /\ copy.count <= Len(process.written)
         /\ ~process.cancelled /\ header.startErr = "empty"
         /\ PipeInv /\ NothingLost)'
BY NewInv, PTL

\* Typing, of the state after a step.
LEMMA TypingNext ==
    TypeOK' <=> /\ WorkerOK'
                /\ process' \in Processes
                /\ copy' \in Copies
                /\ copy'.count <= Len(process'.written)
                /\ header' \in Headers
BY DEF TypeOK, WorkerOK, Processes, Copies, Switches, Limiteds, Headers

LEMMA InitIInv == Init => IInv
<1> SUFFICES ASSUME Init PROVE IInv
    OBVIOUS
<1>1. /\ worker = "begin" /\ last = 0 /\ wanted = {} /\ handed = {}
      /\ process = NewProcess /\ copy = NewCopy /\ header = NewHeader
      BY DEF Init
<1>2. TypeOK
      BY <1>1, NewInv, Typing DEF WorkerOK
<1>3. NamesInv /\ StartInv
      BY <1>1, NewInv DEF NamesInv, StartInv
<1> QED
    BY <1>1, <1>2, <1>3, NewInv DEF IInv

---------------------------------------------------------------------------
(* The worker.                                                             *)

LEMMA BeginKeeps == IInv /\ Begin => IInv'
<1> SUFFICES ASSUME IInv, Begin PROVE IInv'
    OBVIOUS
<1>1. /\ last' = last + 1 /\ last < MaxStarts /\ wanted' = wanted \union {last + 1}
      /\ handed' = handed /\ worker' = "start"
      /\ process' = NewProcess /\ copy' = NewCopy /\ header' = NewHeader
      BY DEF Begin
<1>2. WorkerOK /\ NamesInv
      BY Typing DEF IInv
<1>3. /\ process' \in Processes /\ copy' \in Copies /\ header' \in Headers
      /\ copy'.count <= Len(process'.written)
      /\ ~process'.cancelled /\ header'.startErr = "empty"
      /\ PipeInv' /\ NothingLost'
      BY <1>1, NewInvNext
<1>4. last \in Nat /\ last' \in Names /\ wanted' \subseteq 1..last' /\ last' \in wanted'
      BY <1>1, <1>2, Constants DEF WorkerOK, NamesInv, Names
<1>5. last' \notin handed' /\ handed' \subseteq wanted'
      BY <1>1, <1>2, <1>4 DEF WorkerOK, NamesInv, Names
<1>6. NamesInv'
      BY <1>1, <1>4, <1>5 DEF NamesInv
<1>7. StartInv'
      BY <1>1, <1>3 DEF StartInv
<1>8. WorkerOK'
      BY <1>1, <1>2, <1>4, Constants DEF WorkerOK, Names
<1> QED
    BY <1>3, <1>6, <1>7, <1>8, TypingNext DEF IInv

\* What remains to be shown of a step that leaves the stream alone.
LEMMA QuietKeeps ==
    ASSUME IInv, WorkerOK', process' \in Processes, header' \in Headers,
           copy' = copy, process'.written = process.written,
           header'.buf = header.buf, NamesInv', StartInv'
    PROVE  IInv'
<1>1. copy' \in Copies /\ copy'.count <= Len(process'.written)
      BY Typing DEF IInv
<1>2. PipeInv' /\ NothingLost'
      BY StreamKept DEF IInv
<1> QED
    BY <1>1, <1>2, TypingNext DEF IInv

LEMMA WorkerKeeps ==
    IInv /\ (\/ ExecFails \/ ExecStarts \/ TimerFires \/ Ready \/ ReturnError
             \/ SleepOver \/ HandOver) => IInv'
<1>0. SUFFICES ASSUME IInv, \/ ExecFails \/ ExecStarts \/ TimerFires \/ Ready
                            \/ ReturnError \/ SleepOver \/ HandOver
               PROVE  IInv'
      OBVIOUS
<1>1. /\ WorkerOK /\ process \in Processes /\ copy \in Copies /\ header \in Headers
      /\ NamesInv /\ StartInv
      BY <1>0, Typing DEF IInv
<1>2. CASE ExecFails
  <2>1. /\ worker = "start" /\ worker' = "sleep"
        /\ UNCHANGED <<last, wanted, handed, process, copy, header>>
        BY <1>2 DEF ExecFails, registry
  <2>2. WorkerOK' /\ NamesInv' /\ StartInv'
        BY <1>1, <2>1 DEF WorkerOK, NamesInv, StartInv
  <2> QED
      BY <1>0, <1>1, <2>1, <2>2, QuietKeeps
<1>3. CASE ExecStarts
  <2>1. /\ worker = "start" /\ worker' = "select"
        /\ process' = [process EXCEPT !.child = "running"]
        /\ header' = [header EXCEPT !.pc = "read"]
        /\ UNCHANGED <<last, wanted, handed, copy>>
        BY <1>3 DEF ExecStarts, registry
  <2>2. /\ process' \in Processes /\ process'.written = process.written
        /\ process'.cancelled = process.cancelled
        BY <1>1, <2>1 DEF Processes
  <2>3. /\ header' \in Headers /\ header'.buf = header.buf
        /\ header'.startErr = header.startErr
        BY <1>1, <2>1 DEF Headers
  <2>4. header.startErr = "empty"
        BY <1>1, <2>1 DEF StartInv, NewHeader
  <2>5. WorkerOK' /\ NamesInv' /\ StartInv'
        BY <1>1, <2>1, <2>2, <2>3, <2>4 DEF WorkerOK, NamesInv, StartInv
  <2> QED
      BY <1>0, <2>1, <2>2, <2>3, <2>5, QuietKeeps
<1>4. CASE TimerFires
  <2>1. /\ worker = "select" /\ worker' = "timeout"
        /\ process' = [process EXCEPT !.cancelled = TRUE]
        /\ UNCHANGED <<last, wanted, handed, copy, header>>
        BY <1>4 DEF TimerFires, registry
  <2>2. process' \in Processes /\ process'.written = process.written
        BY <1>1, <2>1 DEF Processes
  <2>3. WorkerOK' /\ NamesInv' /\ StartInv'
        BY <1>1, <2>1 DEF WorkerOK, NamesInv, StartInv
  <2> QED
      BY <1>0, <1>1, <2>1, <2>2, <2>3, QuietKeeps
<1>5. CASE Ready
  <2>1. /\ worker = "select" /\ worker' = "offer" /\ header.startErr = "nil"
        /\ header' = [header EXCEPT !.startErr = "empty"]
        /\ UNCHANGED <<last, wanted, handed, process, copy>>
        BY <1>5 DEF Ready, registry
  <2>2. /\ header' \in Headers /\ header'.buf = header.buf
        /\ header'.pc = header.pc /\ header'.startErr = "empty"
        BY <1>1, <2>1 DEF Headers
  <2>3. header.buf = Header /\ header.pc = "done"
        BY <1>1, <2>1 DEF StartInv
  <2>4. WorkerOK' /\ NamesInv' /\ StartInv'
        BY <1>1, <2>1, <2>2, <2>3 DEF WorkerOK, NamesInv, StartInv
  <2> QED
      BY <1>0, <1>1, <2>1, <2>2, <2>4, QuietKeeps
<1>6. CASE ReturnError
  <2>1. /\ worker \in {"select", "timeout"} /\ worker' = "crashed"
        /\ header' = [header EXCEPT !.startErr = "empty"]
        /\ UNCHANGED <<last, wanted, handed, process, copy>>
        BY <1>6 DEF ReturnError, registry
  <2>2. /\ header' \in Headers /\ header'.buf = header.buf
        /\ header'.startErr = "empty"
        BY <1>1, <2>1 DEF Headers
  <2>3. WorkerOK' /\ NamesInv' /\ StartInv'
        BY <1>1, <2>1, <2>2 DEF WorkerOK, NamesInv, StartInv
  <2> QED
      BY <1>0, <1>1, <2>1, <2>2, <2>3, QuietKeeps
<1>7. CASE SleepOver
  <2>1. /\ worker = "sleep" /\ worker' = "begin"
        /\ UNCHANGED <<last, wanted, handed, process, copy, header>>
        BY <1>7 DEF SleepOver, registry
  <2>2. WorkerOK' /\ NamesInv' /\ StartInv'
        BY <1>1, <2>1 DEF WorkerOK, NamesInv, StartInv
  <2> QED
      BY <1>0, <1>1, <2>1, <2>2, QuietKeeps
<1>8. CASE HandOver
  <2>1. /\ worker = "offer" /\ worker' = "begin" /\ handed' = handed \union {last}
        /\ UNCHANGED <<last, wanted, process, copy, header>>
        BY <1>8 DEF HandOver
  <2>2. last \in wanted
        BY <1>1, <2>1 DEF NamesInv
  <2>3. WorkerOK' /\ NamesInv' /\ StartInv'
        BY <1>1, <2>1, <2>2 DEF WorkerOK, NamesInv, StartInv
  <2> QED
      BY <1>0, <1>1, <2>1, <2>3, QuietKeeps
<1> QED
    BY <1>0, <1>2, <1>3, <1>4, <1>5, <1>6, <1>7, <1>8

\* A name that is taken back is not the one the worker starts.
LEMMA CloseKeeps == ASSUME NEW n \in Names PROVE IInv /\ Close(n) => IInv'
<1>0. SUFFICES ASSUME IInv, Close(n) PROVE IInv'
      OBVIOUS
<1>1. /\ WorkerOK /\ process \in Processes /\ header \in Headers
      /\ NamesInv /\ StartInv
      BY <1>0, Typing DEF IInv
<1>2. /\ n \in handed /\ handed' = handed \ {n} /\ wanted' = wanted \ {n}
      /\ UNCHANGED <<worker, last, process, copy, header>>
      BY <1>0 DEF Close
<1>3. worker # "begin" => n # last
      BY <1>1, <1>2 DEF NamesInv
<1>4. WorkerOK' /\ NamesInv' /\ StartInv'
      BY <1>1, <1>2, <1>3 DEF WorkerOK, NamesInv, StartInv
<1> QED
    BY <1>0, <1>1, <1>2, <1>4, QuietKeeps

LEMMA EndKeeps == IInv /\ (Exit \/ WaitOrStopReturns) => IInv'
<1>0. SUFFICES ASSUME IInv, Exit \/ WaitOrStopReturns PROVE IInv'
      OBVIOUS
<1>1. /\ WorkerOK /\ process \in Processes /\ header \in Headers
      /\ NamesInv /\ StartInv
      BY <1>0, Typing DEF IInv
<1>2. /\ \/ process' = [process EXCEPT !.child = "ended"]
         \/ process' = [process EXCEPT !.waited = TRUE]
      /\ UNCHANGED <<worker, last, wanted, handed, copy, header>>
      BY <1>0 DEF Exit, WaitOrStopReturns, registry
<1>3. /\ process' \in Processes /\ process'.written = process.written
      /\ process'.cancelled = process.cancelled
      BY <1>1, <1>2 DEF Processes
<1>4. WorkerOK' /\ NamesInv' /\ StartInv'
      BY <1>1, <1>2, <1>3 DEF WorkerOK, NamesInv, StartInv
<1> QED
    BY <1>0, <1>1, <1>2, <1>3, <1>4, QuietKeeps

---------------------------------------------------------------------------
(* The stream.                                                             *)

\* The container writes on: what has been read of its output stays the same.
LEMMA WriteKeeps == ASSUME NEW p \in Chunks PROVE IInv /\ Write(p) => IInv'
<1>0. SUFFICES ASSUME IInv, Write(p) PROVE IInv'
      OBVIOUS
<1> DEFINE w == process.written
<1>1. /\ WorkerOK /\ process \in Processes /\ copy \in Copies /\ header \in Headers
      /\ copy.count <= Len(w) /\ NamesInv /\ StartInv /\ PipeInv /\ NothingLost
      BY <1>0, Typing DEF IInv
<1>2. /\ process' = [process EXCEPT !.written = @ \o p]
      /\ UNCHANGED <<worker, last, wanted, handed, copy, header>>
      BY <1>0 DEF Write, registry
<1>3. p \in Seq(Alphabet)
  <2>1. PICK k \in 1..MaxWritten : p \in [1..k -> Alphabet]
        BY DEF Chunks
  <2>2. k \in Nat
        BY Constants
  <2> QED
      BY <2>1, <2>2
<1>4. w \in Seq(Alphabet) /\ copy.count \in Nat /\ Len(w) \in Nat
      BY <1>1, Fields, LenProperties
<1>5. w \o p \in Seq(Alphabet) /\ Len(w \o p) >= Len(w)
  <2>1. w \o p \in Seq(Alphabet) /\ Len(w \o p) = Len(w) + Len(p) /\ Len(p) \in Nat
        BY <1>3, <1>4, ConcatProperties, LenProperties
  <2> HIDE DEF w
  <2> QED
      BY <1>4, <2>1
<1>6. /\ process' \in Processes /\ process'.written = w \o p
      /\ process'.cancelled = process.cancelled
      BY <1>1, <1>2, <1>5 DEF Processes
<1>7. copy'.count <= Len(process'.written)
  <2> HIDE DEF w
  <2>1. copy.count <= Len(w \o p)
        BY <1>1, <1>4, <1>5, LenProperties
  <2> QED
      BY <1>2, <1>6, <2>1
<1>8. PipeInv'
  <2>1. header.buf \o copy.piped \in Seq(Alphabet)
        BY <1>1, Fields, ConcatProperties
  <2>2. IsPrefix(header.buf \o copy.piped, w \o p)
        BY <1>1, <1>3, <1>4, <2>1, PrefixGrows DEF PipeInv
  <2> QED
      BY <1>1, <1>2, <1>6, <2>2 DEF PipeInv
<1>9. NothingLost'
  <2>1. copy.count \in 0..Len(w)
        BY <1>1, <1>4
  <2>2. SubSeq(w \o p, 1, copy.count) = SubSeq(w, 1, copy.count)
        BY <1>3, <1>4, <2>1, ReadStays
  <2> QED
      BY <1>1, <1>2, <1>6, <2>2 DEF NothingLost
<1>10. WorkerOK' /\ NamesInv' /\ StartInv'
       BY <1>1, <1>2, <1>6 DEF WorkerOK, NamesInv, StartInv
<1>11. copy' \in Copies /\ header' \in Headers
       BY <1>1, <1>2
<1> QED
    BY <1>6, <1>7, <1>8, <1>9, <1>10, <1>11, TypingNext DEF IInv

\* What remains to be shown of a step of the copying goroutine.
LEMMA CopierKeeps ==
    ASSUME IInv, UNCHANGED <<worker, last, wanted, handed, process, header>>,
           copy' \in Copies, copy'.count <= Len(process.written),
           PipeInv', NothingLost'
    PROVE  IInv'
<1>1. /\ WorkerOK /\ process \in Processes /\ header \in Headers
      /\ NamesInv /\ StartInv
      BY Typing DEF IInv
<1>2. WorkerOK' /\ NamesInv' /\ StartInv'
      BY <1>1 DEF WorkerOK, NamesInv, StartInv
<1> QED
    BY <1>1, <1>2, TypingNext DEF IInv

\* The copier's state after it has passed p to stdout.
LEMMA AfterStdoutIs ==
    ASSUME NEW c \in Copies, NEW p \in Seq(Alphabet)
    PROVE  LET a == AfterStdout(c, p)
           IN  /\ a \in Copies /\ a.pc \in {"copy", "done"}
               /\ a.count = c.count /\ a.piped = c.piped /\ a.after = c.after
               /\ a.sw = c.sw
               /\ a.stdout.n >= 0 =>
                    c.stdout.n >= 0 /\ a.stdout.dst = c.stdout.dst \o p
<1> DEFINE l == LimitedWrite(c.stdout, p)
           a == AfterStdout(c, p)
<1>1. c.stdout \in [dst : Seq(Alphabet), n : Int]
      BY DEF Copies, Limiteds
<1>2. /\ l \in Limiteds
      /\ l.n >= 0 => c.stdout.n >= 0 /\ l.dst = c.stdout.dst \o p
      BY <1>1, LimitTakes DEF Limiteds
<1> HIDE DEF l
<1>3. PICK pc \in {"copy", "done"} :
        a = [c EXCEPT !.stdout = l, !.pc = pc]
      BY DEF AfterStdout, l
<1> HIDE DEF a
<1>4. /\ a \in Copies /\ a.pc = pc /\ a.stdout = l
      /\ a.count = c.count /\ a.piped = c.piped /\ a.after = c.after
      /\ a.sw = c.sw
      BY <1>2, <1>3 DEF Copies
<1> QED
    BY <1>2, <1>4 DEF a

LEMMA CopyChunkKeeps ==
    ASSUME NEW k \in 1..MaxWritten PROVE IInv /\ CopyChunk(k) => IInv'
<1>0. SUFFICES ASSUME IInv, CopyChunk(k) PROVE IInv'
      OBVIOUS
<1> DEFINE w == process.written
           p == SubSeq(Unread, 1, k)
           c == [copy EXCEPT !.count = @ + k, !.sw = SwitchWrite(@, p)]
           n == copy.count + k
           d == SubSeq(w, 1, copy.count)
<1>1. /\ process \in Processes /\ copy \in Copies /\ header \in Headers
      /\ copy.count <= Len(w) /\ PipeInv /\ NothingLost
      BY <1>0, Typing DEF IInv
<1>2. /\ copy.pc = "copy" /\ k <= Len(Unread)
      /\ copy' = IF copy.sw.found
                   THEN AfterStdout(c, p)
                   ELSE [c EXCEPT !.pc = "pipe", !.piped = ToFirst(copy.sw, p),
                                  !.after = ToSecond(copy.sw, p)]
      /\ UNCHANGED <<worker, last, wanted, handed, process, header>>
      BY <1>0 DEF CopyChunk, registry
<1>3. /\ w \in Seq(Alphabet) /\ copy.count \in Nat /\ Len(w) \in Nat
      /\ header.buf \in Seq(Alphabet) /\ copy.sw \in Switches
      /\ copy.stdout.dst \in Seq(Alphabet)
      BY <1>1, Fields, LenProperties
<1>4. p \in Seq(Alphabet) /\ n \in 0..Len(w) /\ SubSeq(w, 1, n) = d \o p
  <2>1. copy.count \in 0..Len(w) /\ k \in Nat
        BY <1>1, <1>3, Constants
  <2>2. k <= Len(SubSeq(w, copy.count + 1, Len(w)))
        BY <1>2 DEF Unread
  <2>3. p = SubSeq(SubSeq(w, copy.count + 1, Len(w)), 1, k)
        BY DEF Unread
  <2> HIDE DEF p, n, d, w
  <2>4. LET q == SubSeq(SubSeq(w, copy.count + 1, Len(w)), 1, k)
        IN  /\ q \in Seq(Alphabet) /\ Len(q) = k /\ copy.count + k \in 0..Len(w)
            /\ SubSeq(w, 1, copy.count + k) = SubSeq(w, 1, copy.count) \o q
    <3>1. w \in Seq(Alphabet)
          BY <1>3
    <3> QED
        BY <3>1, <2>1, <2>2, ReadOn
  <2> QED
      BY <2>3, <2>4 DEF n, d
<1>5. d \in Seq(Alphabet)
  <2>1. copy.count \in 0..Len(w)
        BY <1>1, <1>3
  <2> QED
      BY <1>3, <2>1, Cut
<1>6. /\ copy.piped = <<>> /\ copy.after = <<>>
      /\ Len(copy.sw.buf) < Len(Header)
      /\ IsPrefix(header.buf \o <<>>, w)
      BY <1>1, <1>2 DEF PipeInv
<1>7. header.buf \o <<>> = header.buf
      BY <1>3, ConcatEmptySeq
<1>8. n \in Nat /\ n <= Len(w)
      BY <1>3, <1>4
<1> HIDE DEF p, w, n, d
<1>9. CASE copy.sw.found
  <2>1. SwitchWrite(copy.sw, p) = copy.sw
        BY <1>9 DEF SwitchWrite
  <2>2. /\ c \in Copies /\ c.count = n /\ c.piped = <<>> /\ c.after = <<>>
        /\ c.sw = copy.sw /\ c.stdout = copy.stdout
        BY <1>1, <1>6, <1>8, <2>1 DEF Copies, n
  <2> HIDE DEF c
  <2>3. copy' = AfterStdout(c, p)
        BY <1>2, <1>9
  <2>4. /\ copy' \in Copies /\ copy'.count = n /\ copy'.piped = <<>>
        /\ copy'.after = <<>> /\ copy'.sw = copy.sw
        /\ copy'.stdout.n >= 0 =>
             copy.stdout.n >= 0 /\ copy'.stdout.dst = copy.stdout.dst \o p
    <3> DEFINE a == AfterStdout(c, p)
    <3>1. /\ a \in Copies /\ a.count = c.count /\ a.piped = c.piped
          /\ a.after = c.after /\ a.sw = c.sw
          /\ a.stdout.n >= 0 =>
               c.stdout.n >= 0 /\ a.stdout.dst = c.stdout.dst \o p
      <4>1. c \in Copies /\ p \in Seq(Alphabet)
            BY <1>4, <2>2
      <4> QED
          BY <4>1, AfterStdoutIs
    <3> HIDE DEF a
    <3>2. copy' = a
          BY <2>3 DEF a
    <3> QED
        BY <2>2, <3>1, <3>2
  <2>5. PipeInv'
        BY <1>2, <1>6, <1>9, <2>4 DEF PipeInv, w
  <2>6. NothingLost'
    <3>1. SUFFICES ASSUME copy'.stdout.n >= 0
                   PROVE  header.buf \o <<>> \o copy'.stdout.dst \o <<>>
                            = SubSeq(w, 1, n)
          BY <1>2, <2>4 DEF NothingLost, w
    <3>2. header.buf \o copy.stdout.dst \o <<>> = d
          BY <1>1, <1>6, <1>7, <2>4, <3>1 DEF NothingLost, w, d
    <3>3. header.buf \o copy.stdout.dst \in Seq(Alphabet)
          BY <1>3, ConcatProperties
    <3>4. header.buf \o copy.stdout.dst = d
          BY <3>2, <3>3, ConcatEmptySeq
    <3>5. header.buf \o (copy.stdout.dst \o p) = d \o p
      <4>1. /\ header.buf \in Seq(Alphabet) /\ copy.stdout.dst \in Seq(Alphabet)
            /\ p \in Seq(Alphabet)
            BY <1>3, <1>4
      <4>2. (header.buf \o copy.stdout.dst) \o p
              = header.buf \o (copy.stdout.dst \o p)
            BY <4>1, Grouping
      <4> QED
          BY <3>4, <4>2
    <3>6. copy'.stdout.dst = copy.stdout.dst \o p
          BY <2>4, <3>1
    <3>7. d \o p \in Seq(Alphabet)
          BY <1>4, <1>5, ConcatProperties
    <3>8. (d \o p) \o <<>> = d \o p
          BY <3>7, ConcatEmptySeq
    <3> QED
        BY <1>4, <1>7, <3>5, <3>6, <3>8
  <2> QED
      BY <1>0, <1>2, <1>8, <2>4, <2>5, <2>6, CopierKeeps DEF w
<1>10. CASE ~copy.sw.found
  <2> DEFINE f == ToFirst(copy.sw, p)
             r == ToSecond(copy.sw, p)
             z == SwitchWrite(copy.sw, p)
  <2>1. /\ f \in Seq(Alphabet) /\ r \in Seq(Alphabet) /\ f \o r = p
        /\ ~Finds(copy.sw, p) => r = <<>>
        /\ z \in Switches /\ Len(z.buf) < Len(Header) /\ (z.found <=> Finds(copy.sw, p))
    <3>1. /\ copy.sw \in [buf : Seq(Alphabet), found : BOOLEAN]
          /\ ~copy.sw.found /\ Len(copy.sw.buf) < Len(Header)
          /\ Header \in Seq(Alphabet)
          BY <1>3, <1>6, <1>10, Constants DEF Switches
    <3> QED
        BY <1>4, <3>1, SwitchSplits DEF Switches
  <2>2. copy' = [c EXCEPT !.pc = "pipe", !.piped = f, !.after = r]
        BY <1>2, <1>10
  <2> HIDE DEF f, r, z
  <2>3. /\ copy' \in Copies /\ copy'.count = n /\ copy'.piped = f
        /\ copy'.after = r /\ copy'.sw = z /\ copy'.stdout = copy.stdout
        /\ copy'.pc = "pipe"
        BY <1>1, <1>8, <2>1, <2>2 DEF Copies, n, z
  <2> HIDE DEF c
  <2>4. copy.stdout = NewLimited(StdoutCap)
        BY <1>1, <1>10 DEF PipeInv
  <2>5. copy.stdout.dst = <<>> /\ copy.stdout.n >= 0
        BY <2>4, Constants DEF NewLimited
  <2>6. header.buf = d
    <3>1. header.buf \o <<>> \o <<>> \o <<>> = d
          BY <1>1, <1>6, <2>5 DEF NothingLost, w, d
    <3> QED
        BY <1>7, <3>1
  <2>7. header.buf \o f \in Seq(Alphabet) /\ (header.buf \o f) \o r = SubSeq(w, 1, n)
    <3>1. header.buf \o f \in Seq(Alphabet)
          BY <1>3, <2>1, ConcatProperties
    <3>2. (header.buf \o f) \o r = header.buf \o (f \o r)
          BY <1>3, <2>1, Grouping
    <3> QED
        BY <1>4, <2>1, <2>6, <3>1, <3>2
  <2>8. PipeInv'
    <3>1. IsPrefix(header.buf \o f, w)
      <4> DEFINE v == SubSeq(w, n + 1, Len(w))
      <4>1. v \in Seq(Alphabet) /\ SubSeq(w, 1, n) \o v = w
            BY <1>3, <1>4, Cut
      <4>2. r \o v \in Seq(Alphabet)
            BY <2>1, <4>1, ConcatProperties
      <4>3. ((header.buf \o f) \o r) \o v = (header.buf \o f) \o (r \o v)
            BY <2>1, <2>7, <4>1, Grouping
      <4> HIDE DEF v
      <4>4. w = (header.buf \o f) \o (r \o v)
            BY <2>7, <4>1, <4>3
      <4> QED
          BY <1>3, <2>7, <4>2, <4>4, PrefixIs
    <3> QED
        BY <1>2, <2>1, <2>3, <2>4, <3>1 DEF PipeInv, w
  <2>9. NothingLost'
    <3>1. header.buf \o f \o <<>> \o r = SubSeq(w, 1, n)
          BY <2>7, ConcatEmptySeq
    <3> QED
        BY <1>2, <2>3, <2>5, <3>1 DEF NothingLost, w
  <2> QED
      BY <1>0, <1>2, <1>8, <2>3, <2>8, <2>9, CopierKeeps DEF w
<1> QED
    BY <1>9, <1>10

LEMMA PipeWrittenKeeps == IInv /\ PipeWritten => IInv'
<1>0. SUFFICES ASSUME IInv, PipeWritten PROVE IInv'
      OBVIOUS
<1> DEFINE w == process.written
           b == header.buf
           c == [copy EXCEPT !.after = <<>>]
<1>1. /\ copy \in Copies /\ copy.count <= Len(w) /\ PipeInv /\ NothingLost
      /\ process \in Processes /\ header \in Headers
      BY <1>0, Typing DEF IInv
<1>2. /\ copy.pc = "pipe" /\ copy.piped = <<>>
      /\ copy' = IF copy.sw.found THEN AfterStdout(c, copy.after)
                                  ELSE [copy EXCEPT !.pc = "copy"]
      /\ UNCHANGED <<worker, last, wanted, handed, process, header>>
      BY <1>0 DEF PipeWritten, registry
<1>3. /\ b \in Seq(Alphabet) /\ copy.after \in Seq(Alphabet)
      /\ copy.stdout.dst \in Seq(Alphabet)
      BY <1>1, Fields
<1>4. /\ Len(copy.sw.buf) < Len(Header) /\ IsPrefix(b \o <<>>, w)
      /\ ~copy.sw.found => copy.after = <<>> /\ copy.stdout = NewLimited(StdoutCap)
      BY <1>1, <1>2 DEF PipeInv
<1>5. b \o <<>> = b
      BY <1>3, ConcatEmptySeq
<1>6. CASE copy.sw.found
  <2>1. /\ c \in Copies /\ c.count = copy.count /\ c.piped = <<>>
        /\ c.after = <<>> /\ c.sw = copy.sw /\ c.stdout = copy.stdout
    <3>1. <<>> \in Seq(Alphabet)
          BY EmptySeq
    <3> QED
        BY <1>1, <1>2, <3>1 DEF Copies
  <2> HIDE DEF c
  <2>2. copy' = AfterStdout(c, copy.after)
        BY <1>2, <1>6
  <2>3. /\ copy' \in Copies /\ copy'.count = copy.count /\ copy'.piped = <<>>
        /\ copy'.after = <<>> /\ copy'.sw = copy.sw
        /\ copy'.stdout.n >= 0 =>
             /\ copy.stdout.n >= 0
             /\ copy'.stdout.dst = copy.stdout.dst \o copy.after
    <3> DEFINE p == copy.after
               a == AfterStdout(c, p)
    <3>1. /\ a \in Copies /\ a.count = c.count /\ a.piped = c.piped
          /\ a.after = c.after /\ a.sw = c.sw
          /\ a.stdout.n >= 0 =>
               c.stdout.n >= 0 /\ a.stdout.dst = c.stdout.dst \o p
      <4>1. c \in Copies /\ p \in Seq(Alphabet)
            BY <1>3, <2>1
      <4> HIDE DEF p
      <4> QED
          BY <4>1, AfterStdoutIs
    <3> HIDE DEF a
    <3>2. copy' = a
          BY <2>2 DEF a
    <3> QED
        BY <2>1, <3>1, <3>2
  <2>4. PipeInv'
        BY <1>2, <1>4, <1>6, <2>3 DEF PipeInv
  <2>5. NothingLost'
    <3>1. SUFFICES ASSUME copy'.stdout.n >= 0
                   PROVE  b \o <<>> \o copy'.stdout.dst \o <<>>
                            = SubSeq(w, 1, copy.count)
          BY <1>2, <2>3 DEF NothingLost
    <3>2. b \o <<>> \o copy.stdout.dst \o copy.after = SubSeq(w, 1, copy.count)
          BY <1>1, <1>2, <2>3, <3>1 DEF NothingLost
    <3> HIDE DEF b, w
    <3>3. /\ copy.stdout.dst \o copy.after \in Seq(Alphabet)
          /\ (b \o copy.stdout.dst) \o copy.after = b \o (copy.stdout.dst \o copy.after)
          BY <1>3, ConcatProperties, Grouping
    <3>4. b \o (copy.stdout.dst \o copy.after) \in Seq(Alphabet)
          BY <1>3, <3>3, ConcatProperties
    <3>5. (b \o (copy.stdout.dst \o copy.after)) \o <<>>
            = b \o (copy.stdout.dst \o copy.after)
          BY <3>4, ConcatEmptySeq
    <3>6. copy'.stdout.dst = copy.stdout.dst \o copy.after
          BY <2>3, <3>1
    <3> QED
        BY <1>5, <3>2, <3>3, <3>5, <3>6
  <2> QED
      BY <1>0, <1>1, <1>2, <2>3, <2>4, <2>5, CopierKeeps
<1>7. CASE ~copy.sw.found
  <2>1. copy' = [copy EXCEPT !.pc = "copy"]
        BY <1>2, <1>7
  <2>2. /\ copy' \in Copies /\ copy'.count = copy.count /\ copy'.piped = <<>>
        /\ copy'.after = copy.after /\ copy'.sw = copy.sw
        /\ copy'.stdout = copy.stdout
        BY <1>1, <1>2, <2>1 DEF Copies
  <2>3. PipeInv'
        BY <1>2, <1>4, <1>7, <2>2 DEF PipeInv
  <2>4. NothingLost'
        BY <1>1, <1>2, <2>2 DEF NothingLost
  <2> QED
      BY <1>0, <1>1, <1>2, <2>2, <2>3, <2>4, CopierKeeps
<1> QED
    BY <1>6, <1>7

LEMMA CopyEOFKeeps == IInv /\ CopyEOF => IInv'
<1>0. SUFFICES ASSUME IInv, CopyEOF PROVE IInv'
      OBVIOUS
<1>1. copy \in Copies /\ copy.count <= Len(process.written) /\ PipeInv /\ NothingLost
      BY <1>0, Typing DEF IInv
<1>2. /\ copy.pc = "copy" /\ copy' = [copy EXCEPT !.pc = "done"]
      /\ UNCHANGED <<worker, last, wanted, handed, process, header>>
      BY <1>0 DEF CopyEOF, registry
<1>3. /\ copy' \in Copies /\ copy'.count = copy.count /\ copy'.piped = copy.piped
      /\ copy'.after = copy.after /\ copy'.sw = copy.sw
      /\ copy'.stdout = copy.stdout
      BY <1>1, <1>2 DEF Copies
<1>4. PipeInv'
      BY <1>1, <1>2, <1>3 DEF PipeInv
<1>5. NothingLost'
      BY <1>1, <1>2, <1>3 DEF NothingLost
<1> QED
    BY <1>0, <1>1, <1>2, <1>3, <1>4, <1>5, CopierKeeps

\* What the reader takes leaves the pipe; together they stay what they were.
LEMMA ReadHeaderKeeps == IInv /\ ReadHeader => IInv'
<1>0. SUFFICES ASSUME IInv, ReadHeader PROVE IInv'
      OBVIOUS
<1> DEFINE m == Len(Header) - Len(header.buf)
           a == Longest(copy.piped, m)
           r == SubSeq(copy.piped, Len(a) + 1, Len(copy.piped))
           b == header.buf \o a
<1>1. /\ WorkerOK /\ process \in Processes /\ copy \in Copies /\ header \in Headers
      /\ copy.count <= Len(process.written) /\ NamesInv /\ StartInv
      /\ PipeInv /\ NothingLost
      BY <1>0, Typing DEF IInv
<1>2. /\ header.pc = "read" /\ copy.piped # <<>>
      /\ copy' = [copy EXCEPT !.piped = r]
      /\ header' = IF Len(b) < Len(Header)
                     THEN [header EXCEPT !.buf = b]
                     ELSE [pc |-> "done", buf |-> b,
                           startErr |-> IF b = Header THEN "nil" ELSE "wrong"]
      /\ UNCHANGED <<worker, last, wanted, handed, process>>
      BY <1>0 DEF ReadHeader, registry
<1>3. header.buf \in Seq(Alphabet) /\ copy.piped \in Seq(Alphabet)
      BY <1>1, Fields
<1>4. a \in Seq(Alphabet) /\ r \in Seq(Alphabet) /\ a \o r = copy.piped
  <2>1. m \in Int
        BY <1>3, Constants, LenProperties
  <2> HIDE DEF m
  <2> QED
      BY <1>3, <2>1, LongestCuts
<1> HIDE DEF m, a, r
<1>5. b \in Seq(Alphabet) /\ b \o r = header.buf \o copy.piped
  <2>1. b \in Seq(Alphabet)
        BY <1>3, <1>4, ConcatProperties
  <2>2. (header.buf \o a) \o r = header.buf \o (a \o r)
    <3>1. header.buf \in Seq(Alphabet) /\ a \in Seq(Alphabet) /\ r \in Seq(Alphabet)
          BY <1>3, <1>4
    <3> QED
        BY <3>1, Grouping
  <2> QED
      BY <1>4, <2>1, <2>2
<1> HIDE DEF b
<1>6. /\ copy' \in Copies /\ copy'.count = copy.count /\ copy'.piped = r
      /\ copy'.after = copy.after /\ copy'.sw = copy.sw
      /\ copy'.stdout = copy.stdout /\ copy'.pc = copy.pc
      BY <1>1, <1>2, <1>4 DEF Copies
<1>7. header.startErr = "empty" /\ worker # "offer" /\ worker # "start"
      BY <1>1, <1>2 DEF StartInv, NewHeader, Headers
<1>8. /\ header' \in Headers /\ header'.buf = b
      /\ header'.startErr = "nil" => b = Header
      /\ header'.startErr # "empty" => header'.pc = "done"
  <2>1. CASE Len(b) < Len(Header)
    <3>1. header' = [header EXCEPT !.buf = b]
          BY <1>2, <2>1
    <3> QED
        BY <1>1, <1>5, <1>7, <3>1 DEF Headers
  <2>2. CASE ~(Len(b) < Len(Header))
    <3>1. header' = [pc |-> "done", buf |-> b,
                     startErr |-> IF b = Header THEN "nil" ELSE "wrong"]
          BY <1>2, <2>2
    <3> QED
        BY <1>5, <3>1 DEF Headers
  <2> QED
      BY <2>1, <2>2
<1>9. WorkerOK' /\ NamesInv'
      BY <1>1, <1>2 DEF WorkerOK, NamesInv
<1>10. StartInv'
       BY <1>1, <1>2, <1>7, <1>8 DEF StartInv
<1>11. PipeInv'
  <2>1. copy.pc = "pipe"
        BY <1>1, <1>2 DEF PipeInv
  <2> QED
      BY <1>1, <1>2, <1>5, <1>6, <1>8, <2>1 DEF PipeInv
<1>12. NothingLost'
       BY <1>1, <1>2, <1>5, <1>6, <1>8 DEF NothingLost
<1> QED
    BY <1>1, <1>2, <1>6, <1>8, <1>9, <1>10, <1>11, <1>12, TypingNext DEF IInv

---------------------------------------------------------------------------
(* The theorems.                                                           *)

LEMMA StutterKeeps == IInv /\ UNCHANGED vars => IInv'
<1>0. SUFFICES ASSUME IInv, UNCHANGED vars PROVE IInv'
      OBVIOUS
<1>1. /\ WorkerOK /\ process \in Processes /\ header \in Headers
      /\ NamesInv /\ StartInv
      BY <1>0, Typing DEF IInv
<1>2. UNCHANGED <<worker, last, wanted, handed, process, copy, header>>
      BY <1>0 DEF vars, registry
<1>3. WorkerOK' /\ NamesInv' /\ StartInv'
      BY <1>1, <1>2 DEF WorkerOK, NamesInv, StartInv
<1> QED
    BY <1>0, <1>1, <1>2, <1>3, QuietKeeps

LEMMA StepIInv == IInv /\ [Next]_vars => IInv'
<1>0. SUFFICES ASSUME IInv, [Next]_vars PROVE IInv'
      OBVIOUS
<1>1. CASE WorkerStep
      BY <1>0, <1>1, BeginKeeps, WorkerKeeps DEF WorkerStep
<1>2. CASE CopierStep
      BY <1>0, <1>2, CopyChunkKeeps, PipeWrittenKeeps, CopyEOFKeeps DEF CopierStep
<1>3. CASE ReadHeader
      BY <1>0, <1>3, ReadHeaderKeeps
<1>4. CASE WaitOrStopReturns \/ Exit
      BY <1>0, <1>4, EndKeeps
<1>5. CASE \E p \in Chunks : Write(p)
      BY <1>0, <1>5, WriteKeeps
<1>6. CASE \E n \in Names : Close(n)
      BY <1>0, <1>6, CloseKeeps
<1>7. CASE UNCHANGED vars
      BY <1>0, <1>7, StutterKeeps
<1> QED
    BY <1>0, <1>1, <1>2, <1>3, <1>4, <1>5, <1>6, <1>7 DEF Next

LEMMA Inductive == Spec => []IInv
BY InitIInv, StepIInv, PTL DEF Spec

\* Every variable has its type: in particular the copier never reads more than
\* the container has written.
THEOREM TypeCorrect == Spec => []TypeOK
<1>1. IInv => TypeOK
      BY DEF IInv
<1> QED
    BY <1>1, Inductive, PTL

\* A container that startContainer offers has not been cancelled and has
\* written the start message first (sandbox.go:498-524).
THEOREM AlwaysReady == Spec => []OfferedIsReady
<1>1. IInv => OfferedIsReady
  <2>1. SUFFICES ASSUME IInv, worker = "offer"
                 PROVE  ~process.cancelled /\ IsPrefix(Header, process.written)
        BY DEF OfferedIsReady
  <2>2. process \in Processes /\ copy \in Copies /\ header \in Headers
        BY <2>1, Typing DEF IInv
  <2>3. ~process.cancelled /\ header.buf = Header
        BY <2>1 DEF IInv, StartInv
  <2>4. IsPrefix(Header \o copy.piped, process.written)
        BY <2>1, <2>3 DEF IInv, PipeInv
  <2>5. /\ process.written \in Seq(Alphabet) /\ copy.piped \in Seq(Alphabet)
        /\ Header \in Seq(Alphabet)
        BY <2>2, Fields, Constants
  <2>6. Header \o copy.piped \in Seq(Alphabet)
        BY <2>5, ConcatProperties
  <2>7. PICK u \in Seq(Alphabet) : process.written = (Header \o copy.piped) \o u
    <3> DEFINE s == Header \o copy.piped
               w == process.written
    <3>1. s \in Seq(Alphabet) /\ w \in Seq(Alphabet) /\ IsPrefix(s, w)
          BY <2>4, <2>5, <2>6
    <3> HIDE DEF s, w
    <3>2. \E u \in Seq(Alphabet) : w = s \o u
          BY <3>1, PrefixIs
    <3> QED
        BY <3>2 DEF s, w
  <2>8. copy.piped \o u \in Seq(Alphabet)
        BY <2>5, ConcatProperties
  <2>9. process.written = Header \o (copy.piped \o u)
        BY <2>5, <2>7, Grouping
  <2>10. IsPrefix(Header, process.written)
         BY <2>5, <2>8, <2>9, PrefixIs
  <2> QED
      BY <2>3, <2>10
<1> QED
    BY <1>1, Inductive, PTL

\* Until the limit is hit, what was read of the container's output is in the
\* header reader, the pipe, the stdout buffer and the rest of the chunk, in
\* this order (switchWriter.Write and limitedWriter.Write).
THEOREM AlwaysKept == Spec => []NothingLost
<1>1. IInv => NothingLost
      BY DEF IInv
<1> QED
    BY <1>1, Inductive, PTL

\* No container that runs and has not been closed is missing from
\* containerWanted (sandbox.go:436 and 92).
THEOREM AlwaysWanted == Spec => []RunningIsWanted
<1>1. IInv => RunningIsWanted
      BY DEF IInv, NamesInv, RunningIsWanted
<1> QED
    BY <1>1, Inductive, PTL
====
