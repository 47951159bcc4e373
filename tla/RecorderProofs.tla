---- MODULE RecorderProofs ----
(***************************************************************************)
(* For any outputs, headers with any times and lengths, cut off anywhere:  *)
(* Recorder plays what was written, at its times.                          *)
(*                                                                         *)
(* Meaning, Clock and FlattenSeq are recursive.  Each is shown to exist,   *)
(* as the limit of functions that satisfy its equation further and further, *)
(* before anything is shown of it; inductions are over sets of numbers.    *)
(***************************************************************************)
EXTENDS Recorder, SequenceTheorems, WellFoundedInduction, TLAPS

---------------------------------------------------------------------------
(* Induction.                                                              *)

LEMMA Least ==
    ASSUME NEW S \in SUBSET Nat, S # {}
    PROVE  \E m \in S : \A n \in S : m <= n
<1> DEFINE R == OpToRel(<, Nat)
<1>1. IsWellFoundedOn(R, Nat)
      BY NatLessThanWellFounded
<1>2. \A m, n \in Nat : <<m, n>> \in R <=> m < n
      BY DEF OpToRel
<1> HIDE DEF R
<1>3. PICK m \in S : \A n \in S : <<n, m>> \notin R
      BY <1>1, WFMin
<1>4. ASSUME NEW n \in S PROVE m <= n
  <2>1. m \in Nat /\ n \in Nat /\ ~(n < m)
        BY <1>2, <1>3
  <2> QED
      BY <2>1
<1> QED
    BY <1>4

\* A set of numbers with 0 that has the successor of each it has.
LEMMA Induction ==
    ASSUME NEW S, 0 \in S, \A n \in Nat : n \in S => n + 1 \in S
    PROVE  \A n \in Nat : n \in S
<1> DEFINE T == {n \in Nat : n \notin S}
<1>1. SUFFICES ASSUME T # {} PROVE FALSE
      OBVIOUS
<1>2. PICK m \in T : \A n \in T : m <= n
      BY <1>1, Least
<1>3. m \in Nat /\ m # 0 /\ m \notin S
      OBVIOUS
<1>4. m - 1 \in Nat /\ m - 1 \notin T
      BY <1>2, <1>3
<1> QED
    BY <1>3, <1>4

---------------------------------------------------------------------------
(* FlattenSeq.                                                             *)

\* f is the function by which FlattenSeq is defined, up to n.
Flattens(f, seqs, n) ==
    \A i \in 1 .. n : f[i] = IF i = 1 THEN seqs[i] ELSE f[i - 1] \o seqs[i]

LEMMA FlattenExists ==
    ASSUME NEW seqs, NEW N \in Nat
    PROVE  \E f : f = [i \in 1 .. N |-> IF i = 1 THEN seqs[i] ELSE f[i - 1] \o seqs[i]]
<1> DEFINE step(f) == [i \in 1 .. N |-> IF i = 1 THEN seqs[i] ELSE f[i - 1] \o seqs[i]]
           S == {n \in Nat : \E f : \A i \in 1 .. N : i <= n => f[i] = step(f)[i]}
<1>1. 0 \in S
      OBVIOUS
<1>2. ASSUME NEW n \in Nat, n \in S PROVE n + 1 \in S
  <2>1. PICK f : \A i \in 1 .. N : i <= n => f[i] = step(f)[i]
        BY <1>2
  <2>2. ASSUME NEW i \in 1 .. N, i <= n + 1
        PROVE  step(f)[i] = step(step(f))[i]
    <3>1. CASE i = 1
          BY <3>1
    <3>2. CASE i # 1
      <4>1. i - 1 \in 1 .. N /\ i - 1 <= n
            BY <2>2, <3>2
      <4>2. f[i - 1] = step(f)[i - 1]
            BY <2>1, <4>1
      <4> QED
          BY <3>2, <4>1, <4>2
    <3> QED
        BY <3>1, <3>2
  <2> HIDE DEF step
  <2> QED
      BY <2>2
<1>3. N \in S
  <2> HIDE DEF S
  <2> QED
      BY <1>1, <1>2, Induction
<1>4. PICK f : \A i \in 1 .. N : f[i] = step(f)[i]
      BY <1>3
<1>5. step(f) = step(step(f))
  <2>1. ASSUME NEW i \in 1 .. N, i # 1 PROVE f[i - 1] = step(f)[i - 1]
    <3>1. i - 1 \in 1 .. N
          BY <2>1
    <3> QED
        BY <1>4, <3>1
  <2>2. \A i \in 1 .. N : i # 1 => i - 1 \in 1 .. N
        OBVIOUS
  <2> QED
      BY <2>1, <2>2
<1> HIDE DEF step
<1>6. \E g : g = step(g)
      BY <1>5
<1> QED
    BY <1>6 DEF step

LEMMA FlattenIs ==
    ASSUME NEW seqs, Len(seqs) \in Nat
    PROVE  /\ Len(seqs) = 0 => FlattenSeq(seqs) = seqs
           /\ Len(seqs) # 0 =>
                \E f : Flattens(f, seqs, Len(seqs)) /\ FlattenSeq(seqs) = f[Len(seqs)]
<1>1. Len(seqs) = 0 => FlattenSeq(seqs) = seqs
      BY DEF FlattenSeq
<1>2. ASSUME Len(seqs) # 0
      PROVE  \E f : Flattens(f, seqs, Len(seqs)) /\ FlattenSeq(seqs) = f[Len(seqs)]
  <2> DEFINE f == CHOOSE g : g = [i \in 1 .. Len(seqs) |->
                                    IF i = 1 THEN seqs[i] ELSE g[i - 1] \o seqs[i]]
  <2>1. FlattenSeq(seqs) = f[Len(seqs)]
        BY <1>2 DEF FlattenSeq
  <2>2. f = [i \in 1 .. Len(seqs) |-> IF i = 1 THEN seqs[i] ELSE f[i - 1] \o seqs[i]]
        BY FlattenExists
  <2> HIDE DEF f
  <2>3. Flattens(f, seqs, Len(seqs))
        BY <2>2 DEF Flattens
  <2> QED
      BY <2>1, <2>3
<1> QED
    BY <1>1, <1>2

LEMMA FlattensType ==
    ASSUME NEW S, NEW seqs \in Seq(Seq(S)), NEW f, NEW N \in 0 .. Len(seqs),
           Flattens(f, seqs, N)
    PROVE  \A i \in 1 .. N : f[i] \in Seq(S)
<1> DEFINE T == {n \in Nat : n \in 1 .. N => f[n] \in Seq(S)}
<1>1. 0 \in T
      OBVIOUS
<1>2. ASSUME NEW n \in Nat, n \in T PROVE n + 1 \in T
  <2>1. SUFFICES ASSUME n + 1 \in 1 .. N PROVE f[n + 1] \in Seq(S)
        OBVIOUS
  <2>2. Len(seqs) \in Nat
        BY LenProperties
  <2>3. n + 1 \in 1 .. Len(seqs) /\ n + 1 - 1 = n /\ (n + 1 # 1 => n \in 1 .. N)
        BY <2>1, <2>2
  <2>4. seqs[n + 1] \in Seq(S)
        BY <2>3, ElementOfSeq
  <2>5. f[n + 1] = IF n + 1 = 1 THEN seqs[n + 1] ELSE f[n] \o seqs[n + 1]
        BY <2>1, <2>3 DEF Flattens
  <2>6. n + 1 # 1 => f[n] \in Seq(S)
        BY <1>2, <2>3
  <2>7. n + 1 # 1 => f[n] \o seqs[n + 1] \in Seq(S)
        BY <2>4, <2>6, ConcatProperties
  <2> QED
      BY <2>4, <2>5, <2>7
<1>3. \A n \in Nat : n \in T
  <2> HIDE DEF T
  <2> QED
      BY <1>1, <1>2, Induction
<1>4. N \in Nat
      BY LenProperties
<1> QED
    BY <1>3, <1>4

LEMMA FlattenEmpty == FlattenSeq(<<>>) = <<>>
BY DEF FlattenSeq

LEMMA FlattenType ==
    ASSUME NEW S, NEW seqs \in Seq(Seq(S))
    PROVE  FlattenSeq(seqs) \in Seq(S)
<1>1. Len(seqs) \in Nat
      BY LenProperties
<1>2. CASE Len(seqs) = 0
  <2>1. seqs = <<>> /\ <<>> \in Seq(S)
        BY <1>2, EmptySeq
  <2> QED
      BY <2>1, FlattenEmpty
<1>3. CASE Len(seqs) # 0
  <2>1. PICK f : Flattens(f, seqs, Len(seqs)) /\ FlattenSeq(seqs) = f[Len(seqs)]
        BY <1>1, <1>3, FlattenIs
  <2>2. Len(seqs) \in 0 .. Len(seqs) /\ Len(seqs) \in 1 .. Len(seqs)
        BY <1>1, <1>3
  <2> QED
      BY <2>1, <2>2, FlattensType
<1> QED
    BY <1>2, <1>3

\* What FlattenSeq makes of one more sequence.
LEMMA FlattenAppend ==
    ASSUME NEW S, NEW seqs \in Seq(Seq(S)), NEW s \in Seq(S)
    PROVE  FlattenSeq(Append(seqs, s)) = FlattenSeq(seqs) \o s
<1> DEFINE more == Append(seqs, s)
           N == Len(seqs)
<1>1. /\ N \in Nat /\ Len(more) = N + 1 /\ more[N + 1] = s
      /\ \A i \in 1 .. N : more[i] = seqs[i]
      BY LenProperties, AppendProperties
<1> HIDE DEF more, N
<1>2. PICK f : Flattens(f, more, N + 1) /\ FlattenSeq(more) = f[N + 1]
      BY <1>1, FlattenIs
<1>3. f[N + 1] = IF N + 1 = 1 THEN s ELSE f[N] \o s
  <2>1. N + 1 \in 1 .. N + 1 /\ N + 1 - 1 = N
        BY <1>1
  <2> QED
      BY <1>1, <1>2, <2>1 DEF Flattens
<1>4. CASE N = 0
  <2>1. seqs = <<>>
        BY <1>4 DEF N
  <2>2. FlattenSeq(seqs) \o s = s
        BY <2>1, FlattenEmpty, ConcatEmptySeq
  <2> QED
      BY <1>2, <1>3, <1>4, <2>2 DEF more
<1>5. CASE N # 0
  <2>1. PICK g : Flattens(g, seqs, N) /\ FlattenSeq(seqs) = g[N]
        BY <1>1, <1>5, FlattenIs DEF N
  <2> DEFINE T == {n \in Nat : n \in 1 .. N => f[n] = g[n]}
  <2>2. 0 \in T
        OBVIOUS
  <2>3. ASSUME NEW n \in Nat, n \in T PROVE n + 1 \in T
    <3>1. SUFFICES ASSUME n + 1 \in 1 .. N PROVE f[n + 1] = g[n + 1]
          OBVIOUS
    <3>2. n + 1 \in 1 .. N + 1 /\ n + 1 - 1 = n /\ (n + 1 # 1 => n \in 1 .. N)
          BY <1>1, <3>1
    <3>3. f[n + 1] = IF n + 1 = 1 THEN more[n + 1] ELSE f[n] \o more[n + 1]
          BY <1>2, <3>2 DEF Flattens
    <3>4. g[n + 1] = IF n + 1 = 1 THEN seqs[n + 1] ELSE g[n] \o seqs[n + 1]
          BY <2>1, <3>1, <3>2 DEF Flattens
    <3>5. n + 1 # 1 => f[n] = g[n]
          BY <2>3, <3>2
    <3> QED
        BY <1>1, <3>1, <3>3, <3>4, <3>5
  <2>4. \A n \in Nat : n \in T
    <3> HIDE DEF T
    <3> QED
        BY <2>2, <2>3, Induction
  <2>5. f[N] = g[N]
        BY <1>1, <1>5, <2>4
  <2> QED
      BY <1>1, <1>2, <1>3, <1>5, <2>1, <2>5 DEF more
<1> QED
    BY <1>4, <1>5

\* Its last sequence becomes longer.
LEMMA FlattenLonger ==
    ASSUME NEW S, NEW seqs \in Seq(Seq(S)), NEW s \in Seq(S), NEW t \in Seq(S)
    PROVE  FlattenSeq(Append(seqs, s \o t)) = FlattenSeq(Append(seqs, s)) \o t
<1>1. s \o t \in Seq(S)
      BY ConcatProperties
<1>2. FlattenSeq(Append(seqs, s \o t)) = FlattenSeq(seqs) \o (s \o t)
      BY <1>1, FlattenAppend
<1>3. FlattenSeq(Append(seqs, s)) = FlattenSeq(seqs) \o s
      BY FlattenAppend
<1>4. PICK f : f = FlattenSeq(seqs)
      OBVIOUS
<1>5. f \in Seq(S)
      BY <1>4, FlattenType
<1>6. (f \o s) \o t = f \o (s \o t)
      BY <1>5, ConcatAssociative
<1> QED
    BY <1>2, <1>3, <1>4, <1>6

---------------------------------------------------------------------------
(* Reading.                                                                *)

\* One step of Reading: what it makes of a place from what f makes of later ones.
Reads(f, output, c) ==
    IF c.at > Len(output) THEN <<>>
    ELSE IF c.left > 0 \/ output[c.at] # Magic
      THEN << <<output[c.at], c.time>> >> \o
           f[Cursor(c.at + 1, IF c.left > 0 THEN c.left - 1 ELSE 0, c.time)]
    ELSE IF c.at + HeaderLen > Len(output) THEN << <<Magic, -1>> >>
    ELSE f[Cursor(c.at + 1 + HeaderLen, output[c.at + 2],
                  IF output[c.at + 1] > c.time THEN output[c.at + 1] ELSE c.time)]

\* Where one step looks is later.
LEMMA ReadsLater ==
    ASSUME NEW output \in Seq(Nat), NEW c \in Cursors(output), NEW f, NEW g,
           \A d \in Cursors(output) : d.at > c.at => f[d] = g[d]
    PROVE  Reads(f, output, c) = Reads(g, output, c)
<1> DEFINE L == Len(output)
           data == Cursor(c.at + 1, IF c.left > 0 THEN c.left - 1 ELSE 0, c.time)
           write == Cursor(c.at + 1 + HeaderLen, output[c.at + 2],
                           IF output[c.at + 1] > c.time THEN output[c.at + 1] ELSE c.time)
<1>1. L \in Nat /\ c.at \in 1 .. L + 1 /\ c.left \in Nat /\ c.time \in Nat
      BY LenProperties DEF Cursors
<1>2. ASSUME c.at <= L PROVE f[data] = g[data]
  <2>1. c.at + 1 \in 1 .. L + 1 /\ (IF c.left > 0 THEN c.left - 1 ELSE 0) \in Nat
        BY <1>1, <1>2
  <2>2. data \in Cursors(output) /\ data.at = c.at + 1
        BY <1>1, <2>1 DEF Cursors, Cursor
  <2>3. data.at > c.at
        BY <1>1, <2>2
  <2> HIDE DEF data
  <2> QED
      BY <2>2, <2>3
<1>3. ASSUME ~(c.at + HeaderLen > L) PROVE f[write] = g[write]
  <2>0. PICK at : at = c.at
        OBVIOUS
  <2>1. c.at + 1 \in 1 .. L /\ c.at + 2 \in 1 .. L
    <3> HIDE DEF L
    <3>1. L \in Nat /\ at \in 1 .. L + 1 /\ at + 2 <= L
          BY <1>1, <1>3, <2>0 DEF HeaderLen
    <3>2. at + 1 \in 1 .. L /\ at + 2 \in 1 .. L
          BY <3>1
    <3> QED
        BY <2>0, <3>2
  <2>2. output[c.at + 1] \in Nat /\ output[c.at + 2] \in Nat
        BY <2>1, ElementOfSeq
  <2>3. c.at + 1 + HeaderLen \in 1 .. L + 1 /\ c.at + 1 + HeaderLen > c.at
    <3> HIDE DEF L
    <3>1. L \in Nat /\ at \in 1 .. L + 1 /\ at + 2 <= L
          BY <1>1, <1>3, <2>0 DEF HeaderLen
    <3>2. at + 3 \in 1 .. L + 1 /\ at + 3 > at /\ at + 1 + 2 = at + 3
          BY <3>1
    <3> QED
        BY <2>0, <3>2 DEF HeaderLen
  <2>4. (IF output[c.at + 1] > c.time THEN output[c.at + 1] ELSE c.time) \in Nat
        BY <1>1, <2>2
  <2>5. write \in Cursors(output) /\ write.at > c.at
        BY <2>2, <2>3, <2>4 DEF Cursors, Cursor
  <2> HIDE DEF write
  <2> QED
      BY <2>5
<1>4. c.at > L \/ c.at <= L
      BY <1>1
<1> HIDE DEF data, write
<1> QED
    BY <1>2, <1>3, <1>4 DEF Reads, data, write

LEMMA ReadingExists ==
    ASSUME NEW output \in Seq(Nat)
    PROVE  \E f : f = [c \in Cursors(output) |-> Reads(f, output, c)]
<1> DEFINE L == Len(output)
           C == Cursors(output)
           step(f) == [c \in C |-> Reads(f, output, c)]
           S == {n \in Nat : \E f : \A c \in C : c.at + n > L + 1 => f[c] = step(f)[c]}
<1>0. L \in Nat /\ \A c \in C : c.at \in 1 .. L + 1
      BY LenProperties DEF Cursors
<1>s. \A f : \A c \in C : step(f)[c] = Reads(f, output, c)
      OBVIOUS
<1>r. ASSUME NEW c \in C, NEW f, NEW g, \A d \in C : d.at > c.at => f[d] = g[d]
      PROVE  Reads(f, output, c) = Reads(g, output, c)
      BY <1>r, ReadsLater
<1> HIDE DEF L, C
<1>1. 0 \in S
  <2>1. \A c \in C : ~(c.at + 0 > L + 1)
        BY <1>0
  <2> QED
      BY <2>1
<1> HIDE DEF step
<1>2. ASSUME NEW n \in Nat, n \in S PROVE n + 1 \in S
  <2>1. PICK f : \A c \in C : c.at + n > L + 1 => f[c] = step(f)[c]
        BY <1>2
  <2>2. ASSUME NEW c \in C, c.at + (n + 1) > L + 1
        PROVE  step(f)[c] = step(step(f))[c]
    <3>1. \A d \in C : d.at > c.at => d.at + n > L + 1
          BY <1>0, <2>2
    <3>2. \A d \in C : d.at > c.at => f[d] = step(f)[d]
          BY <2>1, <3>1
    <3>3. Reads(f, output, c) = Reads(step(f), output, c)
          BY <1>r, <3>2
    <3> QED
        BY <1>s, <3>3
  <2> QED
      BY <2>2
<1>3. L + 1 \in S
  <2> HIDE DEF S
  <2>1. L + 1 \in Nat
        BY <1>0
  <2> QED
      BY <1>1, <1>2, <2>1, Induction
<1>4. PICK f : \A c \in C : f[c] = step(f)[c]
  <2>1. \A c \in C : c.at + (L + 1) > L + 1
        BY <1>0
  <2> QED
      BY <1>3, <2>1
<1>5. step(f) = step(step(f))
  <2>1. ASSUME NEW c \in C PROVE Reads(f, output, c) = Reads(step(f), output, c)
        BY <1>4, <1>r
  <2> QED
      BY <2>1 DEF step
<1>6. \E g : g = step(g)
      BY <1>5
<1> QED
    BY <1>6 DEF step, C

\* Reading satisfies its equation.
LEMMA ReadingIs ==
    ASSUME NEW output \in Seq(Nat), NEW c \in Cursors(output)
    PROVE  Reading(output)[c] = Reads(Reading(output), output, c)
<1> DEFINE R == CHOOSE f : f = [d \in Cursors(output) |-> Reads(f, output, d)]
<1>1. Reading(output) = R
      BY DEF Reading, Reads
<1>2. R = [d \in Cursors(output) |-> Reads(R, output, d)]
      BY ReadingExists
<1> HIDE DEF R
<1>3. R[c] = Reads(R, output, c)
      BY <1>2
<1> QED
    BY <1>1, <1>3

LEMMA CursorIs ==
    ASSUME NEW output \in Seq(Nat), NEW at \in 1 .. Len(output) + 1, NEW left \in Nat,
           NEW time \in Nat
    PROVE  /\ Cursor(at, left, time) \in Cursors(output)
           /\ Cursor(at, left, time).at = at
           /\ Cursor(at, left, time).left = left
           /\ Cursor(at, left, time).time = time
BY DEF Cursor, Cursors

\* At the end nothing is read.
LEMMA ReadingEnds ==
    ASSUME NEW output \in Seq(Nat), NEW left \in Nat, NEW time \in Nat
    PROVE  Reading(output)[Cursor(Len(output) + 1, left, time)] = <<>>
<1>1. Len(output) \in Nat
      BY LenProperties
<1>2. Len(output) + 1 \in 1 .. Len(output) + 1 /\ Len(output) + 1 > Len(output)
      BY <1>1
<1>a. PICK n : n = Len(output) + 1
      OBVIOUS
<1>3. Cursor(n, left, time) \in Cursors(output) /\ Cursor(n, left, time).at = n
      BY <1>2, <1>a, CursorIs
<1> DEFINE c == Cursor(n, left, time)
<1> HIDE DEF c
<1>4. Reading(output)[c] = Reads(Reading(output), output, c)
      BY <1>3, ReadingIs DEF c
<1>5. c.at > Len(output)
      BY <1>2, <1>3, <1>a DEF c
<1>6. Reading(output)[c] = <<>>
      BY <1>4, <1>5 DEF Reads
<1> QED
    BY <1>6, <1>a DEF c

---------------------------------------------------------------------------
(* What is read from a cursor.                                             *)

Marks == Nat \X Int

LEMMA MarksAssociate ==
    \A a, b, c \in Seq(Marks) : a \o (b \o c) = (a \o b) \o c
<1> TAKE a, b, c \in Seq(Marks)
<1> QED
    BY ConcatAssociative

LEMMA TimedIs ==
    ASSUME NEW m \in Seq(Nat), NEW t \in Nat
    PROVE  /\ Timed(m, t) \in Seq(Nat \X Nat) /\ Timed(m, t) \in Seq(Marks)
           /\ Len(Timed(m, t)) = Len(m)
           /\ \A x \in 1 .. Len(m) : Timed(m, t)[x] = <<m[x], t>>
<1>1. Len(m) \in Nat /\ DOMAIN m = 1 .. Len(m)
      BY LenProperties
<1>2. Timed(m, t) = [x \in 1 .. Len(m) |-> <<m[x], t>>]
      BY <1>1 DEF Timed
<1>3. \A x \in 1 .. Len(m) : <<m[x], t>> \in Nat \X Nat /\ <<m[x], t>> \in Marks
      BY ElementOfSeq DEF Marks
<1>4. Timed(m, t) \in Seq(Nat \X Nat) /\ Timed(m, t) \in Seq(Marks)
      BY <1>1, <1>2, <1>3, IsASeq
<1> QED
    BY <1>1, <1>2, <1>4, LenProperties

LEMMA TimedEmpty == \A t \in Nat : Timed(<<>>, t) = <<>>
<1>1. <<>> \in Seq(Nat) /\ Len(<<>>) = 0
      BY EmptySeq
<1> QED
    BY <1>1, TimedIs, EmptySeq

LEMMA TimedConcat ==
    ASSUME NEW a \in Seq(Nat), NEW b \in Seq(Nat), NEW t \in Nat
    PROVE  Timed(a \o b, t) = Timed(a, t) \o Timed(b, t)
<1> DEFINE l == Timed(a \o b, t)
           ta == Timed(a, t)
           tb == Timed(b, t)
           r == ta \o tb
<1>1. /\ a \o b \in Seq(Nat) /\ Len(a \o b) = Len(a) + Len(b)
      /\ \A x \in 1 .. Len(a) + Len(b) :
           (a \o b)[x] = IF x <= Len(a) THEN a[x] ELSE b[x - Len(a)]
      BY ConcatProperties
<1>2. Len(a) \in Nat /\ Len(b) \in Nat
      BY LenProperties
<1>3. /\ l \in Seq(Marks) /\ Len(l) = Len(a) + Len(b)
      /\ \A x \in 1 .. Len(a) + Len(b) : l[x] = <<(a \o b)[x], t>>
      BY <1>1, TimedIs
<1>4. /\ ta \in Seq(Marks) /\ Len(ta) = Len(a)
      /\ \A x \in 1 .. Len(a) : ta[x] = <<a[x], t>>
      BY TimedIs
<1>5. /\ tb \in Seq(Marks) /\ Len(tb) = Len(b)
      /\ \A x \in 1 .. Len(b) : tb[x] = <<b[x], t>>
      BY TimedIs
<1> HIDE DEF ta, tb
<1>6. /\ r \in Seq(Marks) /\ Len(r) = Len(a) + Len(b)
      /\ \A x \in 1 .. Len(a) + Len(b) :
           r[x] = IF x <= Len(a) THEN ta[x] ELSE tb[x - Len(a)]
  <2>0. ta \in Seq(Marks) /\ tb \in Seq(Marks)
        BY <1>4, <1>5
  <2>1. /\ ta \o tb \in Seq(Marks) /\ Len(ta \o tb) = Len(ta) + Len(tb)
        /\ \A x \in 1 .. Len(ta) + Len(tb) :
             (ta \o tb)[x] = IF x <= Len(ta) THEN ta[x] ELSE tb[x - Len(ta)]
        BY <2>0, ConcatProperties
  <2>2. Len(ta) = Len(a) /\ Len(tb) = Len(b)
        BY <1>4, <1>5
  <2>3. /\ r \in Seq(Marks) /\ Len(r) = Len(ta) + Len(tb)
        /\ \A x \in 1 .. Len(ta) + Len(tb) :
             r[x] = IF x <= Len(ta) THEN ta[x] ELSE tb[x - Len(ta)]
        BY <2>1
  <2> HIDE DEF r
  <2> QED
      BY <2>2, <2>3
<1> HIDE DEF l, r
<1>7. ASSUME NEW x \in 1 .. Len(a) + Len(b) PROVE l[x] = r[x]
  <2>1. x <= Len(a) => x \in 1 .. Len(a)
        BY <1>2
  <2>2. ~(x <= Len(a)) => x - Len(a) \in 1 .. Len(b)
        BY <1>2
  <2> QED
      BY <1>1, <1>3, <1>4, <1>5, <1>6, <2>1, <2>2
<1>8. l = r
      BY <1>3, <1>6, <1>7, SeqEqual
<1> QED
    BY <1>8 DEF l, r, ta, tb

LEMMA TimedOne == \A x \in Nat, t \in Nat : Timed(<<x>>, t) = << <<x, t>> >>
<1>1. SUFFICES ASSUME NEW x \in Nat, NEW t \in Nat
               PROVE  Timed(<<x>>, t) = << <<x, t>> >>
      OBVIOUS
<1> DEFINE m == <<x>>
           y == <<x, t>>
           n == <<y>>
<1>2. m \in Seq(Nat) /\ Len(m) = 1 /\ m[1] = x
      OBVIOUS
<1>3. y \in Marks
      BY DEF Marks
<1> HIDE DEF y
<1>4. n \in Seq(Marks) /\ Len(n) = 1 /\ n[1] = y
      BY <1>3
<1> HIDE DEF m, n
<1>5. Timed(m, t) \in Seq(Marks) /\ Len(Timed(m, t)) = 1 /\ Timed(m, t)[1] = y
  <2>1. 1 \in 1 .. Len(m)
        BY <1>2
  <2> QED
      BY <1>2, <2>1, TimedIs DEF y
<1>6. \A i \in 1 .. 1 : Timed(m, t)[i] = n[i]
      BY <1>4, <1>5
<1>7. Timed(m, t) = n
      BY <1>4, <1>5, <1>6, SeqEqual
<1> QED
    BY <1>7 DEF m, n, y

\* What is read is symbols with times.
LEMMA ReadingType ==
    ASSUME NEW output \in Seq(Nat)
    PROVE  \A c \in Cursors(output) : Reading(output)[c] \in Seq(Marks)
<1> DEFINE L == Len(output)
           C == Cursors(output)
           R == Reading(output)
           S == {n \in Nat : \A c \in C : c.at + n > L + 1 => R[c] \in Seq(Marks)}
<1>0. L \in Nat /\ \A c \in C : c.at \in 1 .. L + 1
      BY LenProperties DEF Cursors
<1> HIDE DEF L, R
<1>1. 0 \in S
  <2>1. \A c \in C : ~(c.at + 0 > L + 1)
        BY <1>0
  <2> QED
      BY <2>1
<1>2. ASSUME NEW n \in Nat, n \in S PROVE n + 1 \in S
  <2>1. SUFFICES ASSUME NEW c \in C, c.at + (n + 1) > L + 1 PROVE R[c] \in Seq(Marks)
        OBVIOUS
  <2>2. R[c] = Reads(R, output, c)
        BY ReadingIs DEF R
  <2>3. \A d \in C : d.at > c.at => R[d] \in Seq(Marks)
    <3>1. \A d \in C : d.at > c.at => d.at + n > L + 1
          BY <1>0, <2>1
    <3> QED
        BY <1>2, <3>1
  <2>4. c.at \in 1 .. L + 1 /\ c.left \in Nat /\ c.time \in Nat
        BY <1>0 DEF Cursors
  <2>5. CASE c.at > L
        BY <2>2, <2>5, EmptySeq DEF Reads, L
  <2>6. CASE c.at <= L /\ (c.left > 0 \/ output[c.at] # Magic)
    <3> DEFINE d == Cursor(c.at + 1, IF c.left > 0 THEN c.left - 1 ELSE 0, c.time)
    <3>1. c.at + 1 \in 1 .. L + 1 /\ (IF c.left > 0 THEN c.left - 1 ELSE 0) \in Nat
          BY <1>0, <2>4, <2>6
    <3>2. d \in C /\ d.at = c.at + 1
          BY <2>4, <3>1 DEF Cursors, Cursor, L
    <3>3. d.at > c.at
          BY <2>4, <3>2
    <3> HIDE DEF d
    <3>4. R[d] \in Seq(Marks)
          BY <2>3, <3>2, <3>3
    <3>5. << <<output[c.at], c.time>> >> \in Seq(Marks)
      <4>1. c.at \in 1 .. L
            BY <1>0, <2>4, <2>6
      <4>2. output[c.at] \in Nat
            BY <4>1, ElementOfSeq DEF L
      <4>3. <<output[c.at], c.time>> \in Marks
            BY <2>4, <4>2 DEF Marks
      <4> QED
          BY <4>3
    <3>6. ~(c.at > L)
          BY <1>0, <2>4, <2>6
    <3>7. R[c] = << <<output[c.at], c.time>> >> \o R[d]
          BY <2>2, <2>6, <3>6 DEF Reads, L, d
    <3> QED
        BY <3>4, <3>5, <3>7, ConcatProperties
  <2>7. CASE c.at <= L /\ ~(c.left > 0 \/ output[c.at] # Magic)
    <3>1. ~(c.at > L)
          BY <1>0, <2>4, <2>7
    <3>2. CASE c.at + HeaderLen > L
      <4>1. R[c] = << <<Magic, -1>> >>
            BY <2>2, <2>7, <3>1, <3>2 DEF Reads, L
      <4>2. <<Magic, -1>> \in Marks
            BY RecorderAssumption DEF Marks
      <4> QED
          BY <4>1, <4>2
    <3>3. CASE ~(c.at + HeaderLen > L)
      <4> DEFINE d == Cursor(c.at + 1 + HeaderLen, output[c.at + 2],
                             IF output[c.at + 1] > c.time THEN output[c.at + 1]
                                                          ELSE c.time)
      <4>1. c.at + 1 \in 1 .. L /\ c.at + 2 \in 1 .. L
            BY <1>0, <2>4, <3>3 DEF HeaderLen
      <4>2. output[c.at + 1] \in Nat /\ output[c.at + 2] \in Nat
            BY <4>1, ElementOfSeq DEF L
      <4>3. c.at + 1 + HeaderLen \in 1 .. L + 1 /\ c.at + 1 + HeaderLen > c.at
            BY <1>0, <2>4, <3>3 DEF HeaderLen
      <4>4. (IF output[c.at + 1] > c.time THEN output[c.at + 1] ELSE c.time) \in Nat
            BY <2>4, <4>2
      <4>5. d \in C /\ d.at > c.at
            BY <4>2, <4>3, <4>4 DEF Cursors, Cursor, L
      <4> HIDE DEF d
      <4>6. R[c] = R[d]
            BY <2>2, <2>7, <3>1, <3>3 DEF Reads, L, d
      <4> QED
          BY <2>3, <4>5, <4>6
    <3> QED
        BY <3>2, <3>3
  <2> QED
      BY <2>4, <2>5, <2>6, <2>7, <1>0
<1>3. L + 1 \in S
  <2> HIDE DEF S
  <2>1. L + 1 \in Nat
        BY <1>0
  <2> QED
      BY <1>1, <1>2, <2>1, Induction
<1>4. \A c \in C : c.at + (L + 1) > L + 1
      BY <1>0
<1>5. \A c \in C : R[c] \in Seq(Marks)
      BY <1>3, <1>4
<1> QED
    BY <1>5 DEF R

\* A part of an output is symbols.
LEMMA PartIs ==
    ASSUME NEW output \in Seq(Nat), NEW at \in Nat \ {0}, NEW n \in Nat,
           at + n <= Len(output) + 1
    PROVE  /\ SubSeq(output, at, at + n - 1) \in Seq(Nat)
           /\ Len(SubSeq(output, at, at + n - 1)) = n
           /\ \A x \in 1 .. n : SubSeq(output, at, at + n - 1)[x] = output[at + x - 1]
<1>1. Len(output) \in Nat
      BY LenProperties
<1>2. at \in Int /\ at + n - 1 \in Int /\ at + n - 1 - at + 1 = n
      BY <1>1
<1>3. ASSUME NEW i \in at .. at + n - 1 PROVE output[i] \in Nat
  <2>1. i \in 1 .. Len(output)
        BY <1>1
  <2> QED
      BY <2>1, ElementOfSeq
<1> DEFINE m == at + n - 1
<1>4. /\ SubSeq(output, at, m) \in Seq(Nat)
      /\ Len(SubSeq(output, at, m)) = IF at <= m THEN m - at + 1 ELSE 0
      /\ \A x \in 1 .. m - at + 1 : SubSeq(output, at, m)[x] = output[at + x - 1]
  <2>1. m \in Int /\ \A i \in at .. m : output[i] \in Nat
        BY <1>2, <1>3
  <2> HIDE DEF m
  <2> QED
      BY <1>2, <2>1, SubSeqProperties
<1>5. m - at + 1 = n /\ (at <= m <=> n > 0)
      BY <1>2
<1> HIDE DEF m
<1>6. Len(SubSeq(output, at, m)) = n
      BY <1>4, <1>5
<1> QED
    BY <1>4, <1>5, <1>6 DEF m

\* A part with one more symbol.
LEMMA PartLonger ==
    ASSUME NEW output \in Seq(Nat), NEW at \in Nat \ {0}, NEW n \in Nat,
           at + n <= Len(output)
    PROVE  SubSeq(output, at, at + n) = SubSeq(output, at, at + n - 1) \o <<output[at + n]>>
<1>1. Len(output) \in Nat
      BY LenProperties
<1>2. at \in 1 .. Len(output) /\ at + n \in at .. Len(output)
      BY <1>1
<1>3. PICK m : m = at + n
      OBVIOUS
<1>4. SubSeq(output, at, m) = SubSeq(output, at, m - 1) \o <<output[m]>>
      BY <1>2, <1>3, SubSeqRecursiveSecond
<1> QED
    BY <1>3, <1>4

\* Reading on from a cursor as long as no header comes: what is read are symbols
\* of the output, at the time of the cursor.
Piece(output, at, n, t) == Timed(SubSeq(output, at, at + n - 1), t)
ReadFrom(output, c, piece, d) == Reading(output)[c] = piece \o Reading(output)[d]
NoHeader(output, at, left, N) == \A x \in 0 .. N - 1 : x < left \/ output[at + x] # Magic

LEMMA ReadsOn ==
    ASSUME NEW output \in Seq(Nat), NEW at \in 1 .. Len(output) + 1, NEW left \in Nat,
           NEW t \in Nat, NEW N \in Nat, at + N <= Len(output) + 1,
           NoHeader(output, at, left, N)
    PROVE  \A j, rest \in Nat : j = at + N /\ rest = (IF N < left THEN left - N ELSE 0) =>
             ReadFrom(output, Cursor(at, left, t), Piece(output, at, N, t), Cursor(j, rest, t))
<1> DEFINE L == Len(output)
           R == Reading(output)
           Part(n) == SubSeq(output, at, at + n - 1)
           rest(n) == Cursor(at + n, IF n < left THEN left - n ELSE 0, t)
           Reached(n) == R[Cursor(at, left, t)] = Timed(Part(n), t) \o R[rest(n)]
           S == {n \in Nat : n <= N => Reached(n)}
<1>0. L \in Nat /\ at \in Nat \ {0} /\ at + N <= L + 1
      BY LenProperties
<1>1. ASSUME NEW n \in Nat, n <= N
      PROVE  /\ rest(n) \in Cursors(output) /\ rest(n).at = at + n /\ rest(n).time = t
             /\ rest(n).left = IF n < left THEN left - n ELSE 0
             /\ R[rest(n)] \in Seq(Marks)
             /\ Part(n) \in Seq(Nat) /\ Timed(Part(n), t) \in Seq(Marks)
  <2>1. at + n \in 1 .. L + 1 /\ (IF n < left THEN left - n ELSE 0) \in Nat
        BY <1>0, <1>1
  <2>2. /\ rest(n) \in Cursors(output) /\ rest(n).at = at + n /\ rest(n).time = t
        /\ rest(n).left = IF n < left THEN left - n ELSE 0
        BY <2>1, CursorIs
  <2>3. Part(n) \in Seq(Nat)
    <3>1. at + n <= L + 1
          BY <1>0, <1>1
    <3> QED
        BY <1>0, <3>1, PartIs
  <2>4. R[rest(n)] \in Seq(Marks)
        BY <2>2, ReadingType
  <2>5. Timed(Part(n), t) \in Seq(Marks)
        BY <2>3, TimedIs
  <2> HIDE DEF rest
  <2> QED
      BY <2>2, <2>3, <2>4, <2>5
<1>2. 0 \in S
  <2>1. Part(0) = <<>>
    <3>1. at \in Int /\ at + 0 - 1 \in Int /\ at + 0 - 1 < at
          BY <1>0
    <3> QED
        BY <3>1, SubSeqEmpty
  <2>2. rest(0) = Cursor(at, left, t)
    <3>1. at + 0 = at /\ (IF 0 < left THEN left - 0 ELSE 0) = left
          BY <1>0
    <3> QED
        BY <3>1
  <2>3. Timed(Part(0), t) = <<>>
        BY <2>1, TimedEmpty
  <2>4. 0 <= N
        OBVIOUS
  <2>5. R[rest(0)] \in Seq(Marks)
        BY <1>1, <2>4
  <2> HIDE DEF rest, Part, R
  <2>6. <<>> \o R[rest(0)] = R[rest(0)]
        BY <2>5, ConcatEmptySeq
  <2> QED
      BY <2>2, <2>3, <2>6
<1>3. ASSUME NEW n \in Nat, n \in S PROVE n + 1 \in S
  <2> HIDE DEF Reached
  <2>1. SUFFICES ASSUME n + 1 <= N PROVE Reached(n + 1)
        OBVIOUS
  <2>2. n <= N /\ n \in 0 .. N - 1 /\ n + 1 \in Nat
        BY <2>1
  <2>3. /\ rest(n) \in Cursors(output) /\ rest(n).at = at + n /\ rest(n).time = t
        /\ rest(n).left = IF n < left THEN left - n ELSE 0
        /\ Part(n) \in Seq(Nat) /\ Timed(Part(n), t) \in Seq(Marks)
        BY <1>1, <2>2
  <2>4. R[rest(n + 1)] \in Seq(Marks)
        BY <1>1, <2>1, <2>2
  <2>5. R[Cursor(at, left, t)] = Timed(Part(n), t) \o R[rest(n)]
        BY <1>3, <2>2 DEF Reached
  <2>6. R[rest(n)] = Reads(R, output, rest(n))
        BY <2>3, ReadingIs
  <2>7. rest(n + 1) = Cursor(rest(n).at + 1,
                             IF rest(n).left > 0 THEN rest(n).left - 1 ELSE 0, rest(n).time)
    <3>1. rest(n).at + 1 = at + (n + 1)
          BY <1>0, <2>3
    <3>2. (IF rest(n).left > 0 THEN rest(n).left - 1 ELSE 0)
            = IF n + 1 < left THEN left - (n + 1) ELSE 0
      <4>1. PICK l : l = rest(n).left
            OBVIOUS
      <4>2. l = IF n < left THEN left - n ELSE 0
            BY <2>3, <4>1
      <4>3. (IF l > 0 THEN l - 1 ELSE 0) = IF n + 1 < left THEN left - (n + 1) ELSE 0
            BY <4>2
      <4> QED
          BY <4>1, <4>3
    <3> QED
        BY <2>3, <3>1, <3>2
  <2>8. ~(rest(n).at > Len(output)) /\ at + n <= L
        BY <1>0, <2>1, <2>3
  <2>9. rest(n).left > 0 \/ output[rest(n).at] # Magic
    <3>1. CASE n < left
      <4>1. rest(n).left = left - n
            BY <2>3, <3>1
      <4>2. left - n > 0
            BY <3>1
      <4> QED
          BY <4>1, <4>2
    <3>2. CASE ~(n < left)
      <4>1. output[at + n] # Magic
            BY <2>2, <3>2 DEF NoHeader
      <4> QED
          BY <2>3, <4>1
    <3> QED
        BY <3>1, <3>2
  <2> DEFINE x == output[at + n]
             y == << <<x, t>> >>
             tp == Timed(Part(n), t)
             r == R[rest(n + 1)]
  <2>10. R[rest(n)] = y \o r
         BY <2>3, <2>6, <2>7, <2>8, <2>9 DEF Reads
  <2>11. x \in Nat
    <3>1. at + n \in 1 .. L
          BY <1>0, <2>8
    <3> QED
        BY <3>1, ElementOfSeq
  <2>12. y = Timed(<<x>>, t) /\ <<x>> \in Seq(Nat)
         BY <2>11, TimedOne
  <2>13. y \in Seq(Marks)
         BY <2>12, TimedIs
  <2>14. Timed(Part(n + 1), t) = tp \o y
    <3>1. Part(n + 1) = Part(n) \o <<x>>
      <4>1. SubSeq(output, at, at + n) = Part(n) \o <<x>>
            BY <1>0, <2>8, PartLonger
      <4>2. at + (n + 1) - 1 = at + n
            BY <1>0
      <4> QED
          BY <4>1, <4>2
    <3> HIDE DEF Part
    <3>2. Timed(Part(n) \o <<x>>, t) = Timed(Part(n), t) \o Timed(<<x>>, t)
          BY <2>3, <2>12, TimedConcat
    <3> QED
        BY <2>12, <3>1, <3>2
  <2>15. tp \in Seq(Marks) /\ r \in Seq(Marks)
         BY <2>3, <2>4
  <2> HIDE DEF y, tp, r
  <2>16. tp \o (y \o r) = (tp \o y) \o r
         BY <2>13, <2>15, MarksAssociate
  <2>17. R[Cursor(at, left, t)] = tp \o (y \o r)
         BY <2>5, <2>10 DEF tp
  <2>18. R[Cursor(at, left, t)] = Timed(Part(n + 1), t) \o r
         BY <2>14, <2>16, <2>17
  <2> QED
      BY <2>18 DEF r, Reached
<1>4. N \in S
  <2> HIDE DEF S
  <2> QED
      BY <1>2, <1>3, Induction
<1>5. Reached(N)
  <2> HIDE DEF Reached
  <2> QED
      BY <1>4
<1> QED
    BY <1>5 DEF Piece, ReadFrom

Shorter(i, all, L) == IF i + all > L + 1 THEN L + 1 - i ELSE all

Fits(n, i, all, L) ==
    /\ n \in Nat
    /\ i + n = IF i + all > L THEN L + 1 ELSE i + all
    /\ i + n <= L + 1 /\ n <= all /\ (n < all => i + n = L + 1)

LEMMA ShorterFits ==
    \A L, i, all \in Nat : i <= L + 1 => Fits(Shorter(i, all, L), i, all, L)
BY DEF Shorter, Fits

\* At a header: what is read is the write, and goes on behind it.
WriteRead(output, at, t, i, time, n) ==
    /\ i \in Nat \ {0} /\ time \in Nat /\ time >= t /\ n \in Nat
    /\ i + n = IF i + output[at + 2] > Len(output) THEN Len(output) + 1
                                                  ELSE i + output[at + 2]
    /\ Reading(output)[Cursor(at, 0, t)]
         = Piece(output, i, n, time) \o Reading(output)[Cursor(i + n, 0, time)]

LEMMA ReadsWrite ==
    ASSUME NEW output \in Seq(Nat), NEW at \in 1 .. Len(output), NEW t \in Nat,
           output[at] = Magic, at + HeaderLen <= Len(output),
           NEW i, i = at + 1 + HeaderLen,
           NEW time, time = Monotonic(output[at + 1], t),
           NEW n, n = Available(i, output[at + 2], output)
    PROVE  WriteRead(output, at, t, i, time, n)
<1> DEFINE L == Len(output)
           R == Reading(output)
           all == output[at + 2]
<1>1. L \in Nat /\ at \in Nat /\ at \in 1 .. L + 1 /\ at + 1 \in 1 .. L /\ at + 2 \in 1 .. L
      BY LenProperties DEF HeaderLen
<1>2. output[at + 1] \in Nat /\ all \in Nat
      BY <1>1, ElementOfSeq
<1>3. i = at + 3 /\ i \in Nat \ {0} /\ i <= L + 1
      BY <1>1 DEF HeaderLen
<1>4. /\ time \in Nat /\ time >= t
      /\ time = IF output[at + 1] > t THEN output[at + 1] ELSE t
  <2>1. PICK x : x = output[at + 1]
        OBVIOUS
  <2>2. x \in Nat /\ time = IF x < t THEN t ELSE x
        BY <1>2, <2>1 DEF Monotonic
  <2>3. time \in Nat /\ time >= t /\ time = IF x > t THEN x ELSE t
        BY <2>2
  <2> QED
      BY <2>1, <2>3
<1>5. n = IF i + all > L + 1 THEN L + 1 - i ELSE all
      BY DEF Available
<1> HIDE DEF all, L
<1>6. /\ n \in Nat /\ i + n = IF i + all > L THEN L + 1 ELSE i + all
      /\ i + n <= L + 1 /\ n <= all /\ (n < all => i + n = L + 1)
  <2>1. L \in Nat /\ i \in Nat /\ all \in Nat /\ i <= L + 1
        BY <1>1, <1>2, <1>3
  <2>2. n = Shorter(i, all, L)
        BY <1>5 DEF Shorter
  <2>3. Fits(n, i, all, L)
        BY <2>1, <2>2, ShorterFits
  <2> QED
      BY <2>3 DEF Fits
<1>7. R[Cursor(at, 0, t)] = R[Cursor(i, all, time)]
  <2>1. PICK c : c = Cursor(at, 0, t)
        OBVIOUS
  <2>2. c \in Cursors(output) /\ c.at = at /\ c.left = 0 /\ c.time = t
    <3>1. 0 \in Nat
          OBVIOUS
    <3> QED
        BY <1>1, <2>1, <3>1, CursorIs DEF L
  <2>3. R[c] = Reads(R, output, c)
        BY <2>2, ReadingIs
  <2>4. ~(c.at > Len(output)) /\ ~(c.left > 0 \/ output[c.at] # Magic)
        BY <1>1, <2>2 DEF L
  <2>5. ~(c.at + HeaderLen > Len(output))
        BY <1>1, <2>2 DEF L, HeaderLen
  <2>6. R[c] = R[Cursor(c.at + 1 + HeaderLen, output[c.at + 2],
                        IF output[c.at + 1] > c.time THEN output[c.at + 1] ELSE c.time)]
        BY <2>3, <2>4, <2>5 DEF Reads
  <2> QED
      BY <1>4, <2>1, <2>2, <2>6 DEF all
<1>8. PICK rest : rest = IF n < all THEN all - n ELSE 0
      OBVIOUS
<1>9. R[Cursor(i, all, time)] = Piece(output, i, n, time) \o R[Cursor(i + n, rest, time)]
  <2>1. NoHeader(output, i, all, n)
        BY <1>2, <1>6 DEF NoHeader
  <2>2. i \in 1 .. Len(output) + 1 /\ i + n <= Len(output) + 1 /\ i + n \in Nat
    <3>1. i \in 1 .. L + 1 /\ i + n <= L + 1
          BY <1>1, <1>3, <1>6
    <3>2. i + n \in Nat
      <4>1. i \in Nat /\ n \in Nat
            BY <1>3, <1>6
      <4> QED
          BY <4>1
    <3> QED
        BY <3>1, <3>2 DEF L
  <2>3. rest \in Nat
        BY <1>2, <1>6, <1>8
  <2>4. ReadFrom(output, Cursor(i, all, time), Piece(output, i, n, time),
                 Cursor(i + n, rest, time))
        BY <1>2, <1>4, <1>6, <1>8, <2>1, <2>2, <2>3, ReadsOn
  <2> QED
      BY <2>4 DEF ReadFrom
<1>10. R[Cursor(i + n, rest, time)] = R[Cursor(i + n, 0, time)]
  <2>1. CASE n < all
    <3>0. rest \in Nat
      <4>1. n \in Nat /\ all \in Nat
            BY <1>2, <1>6
      <4>2. rest = all - n
            BY <1>8, <2>1
      <4>3. all - n \in Nat
            BY <2>1, <4>1
      <4> QED
          BY <4>2, <4>3
    <3>1. i + n = Len(output) + 1 /\ rest \in Nat /\ 0 \in Nat
          BY <1>6, <2>1, <3>0 DEF L
    <3>2. R[Cursor(Len(output) + 1, rest, time)] = <<>>
          BY <1>4, <3>1, ReadingEnds
    <3>3. R[Cursor(Len(output) + 1, 0, time)] = <<>>
          BY <1>4, <3>1, ReadingEnds
    <3> HIDE DEF R
    <3> QED
        BY <3>1, <3>2, <3>3
  <2>2. CASE ~(n < all)
        BY <1>8, <2>2
  <2> QED
      BY <2>1, <2>2
<1> HIDE DEF R
<1>11. R[Cursor(at, 0, t)] = Piece(output, i, n, time) \o
                             R[Cursor(i + n, 0, time)]
       BY <1>7, <1>9, <1>10
<1> QED
    BY <1>3, <1>4, <1>6, <1>11 DEF R, all, L, WriteRead

\* A header that is not complete.
LEMMA ReadsShort ==
    ASSUME NEW output \in Seq(Nat), NEW at \in 1 .. Len(output), NEW t \in Nat,
           output[at] = Magic, at + HeaderLen > Len(output)
    PROVE  Reading(output)[Cursor(at, 0, t)] = << <<Magic, -1>> >>
<1>1. Len(output) \in Nat /\ at \in 1 .. Len(output) + 1 /\ ~(at > Len(output)) /\ 0 \in Nat
      BY LenProperties
<1>2. PICK c : c = Cursor(at, 0, t)
      OBVIOUS
<1>3. c \in Cursors(output) /\ c.at = at /\ c.left = 0
      BY <1>1, <1>2, CursorIs
<1>4. Reading(output)[c] = Reads(Reading(output), output, c)
      BY <1>3, ReadingIs
<1>5. ~(c.at > Len(output)) /\ ~(c.left > 0 \/ output[c.at] # Magic)
      BY <1>1, <1>3
<1> QED
    BY <1>2, <1>3, <1>4, <1>5 DEF Reads

\* Text in front of the next header.
LEMMA ReadsText ==
    ASSUME NEW output \in Seq(Nat), NEW at \in 1 .. Len(output), NEW t \in Nat,
           NEW j \in at .. Len(output) + 1, \A x \in at .. j - 1 : output[x] # Magic
    PROVE  Reading(output)[Cursor(at, 0, t)]
             = Piece(output, at, j - at, t) \o Reading(output)[Cursor(j, 0, t)]
<1>1. Len(output) \in Nat
      BY LenProperties
<1>2. PICK n : n = j - at
      OBVIOUS
<1>3. /\ n \in Nat /\ at + n = j /\ at + n <= Len(output) + 1
      /\ at \in 1 .. Len(output) + 1 /\ 0 \in Nat
      BY <1>1, <1>2
<1>4. NoHeader(output, at, 0, n)
  <2>1. \A x \in 0 .. n - 1 : at + x \in at .. j - 1
        BY <1>3
  <2> QED
      BY <2>1 DEF NoHeader
<1>5. Reading(output)[Cursor(at, 0, t)]
        = Piece(output, at, n, t) \o Reading(output)[Cursor(j, 0, t)]
  <2>1. j = at + n /\ 0 = (IF n < 0 THEN 0 - n ELSE 0) /\ j \in Nat
        BY <1>3
  <2>2. ReadFrom(output, Cursor(at, 0, t), Piece(output, at, n, t), Cursor(j, 0, t))
        BY <1>3, <1>4, <2>1, ReadsOn
  <2> QED
      BY <2>2 DEF ReadFrom
<1> QED
    BY <1>2, <1>5

---------------------------------------------------------------------------
(* Clock and Played.                                                       *)

Ticks(f, events, n) == IF n = 0 THEN 0 ELSE f[n - 1] + events[n].delay

LEMMA ClockExists ==
    ASSUME NEW events, NEW N \in Nat
    PROVE  \E f : f = [n \in 0 .. N |-> Ticks(f, events, n)]
<1> DEFINE step(f) == [n \in 0 .. N |-> Ticks(f, events, n)]
           S == {n \in Nat : \E f : \A i \in 0 .. N : i < n => f[i] = step(f)[i]}
<1>s. \A f : \A i \in 0 .. N : step(f)[i] = Ticks(f, events, i)
      OBVIOUS
<1>t. ASSUME NEW i \in 0 .. N, NEW f, NEW g, i # 0 => f[i - 1] = g[i - 1]
      PROVE  Ticks(f, events, i) = Ticks(g, events, i)
      BY <1>t DEF Ticks
<1>p. \A i \in 0 .. N : i # 0 => i - 1 \in 0 .. N /\ \A n \in Nat : i < n + 1 => i - 1 < n
      OBVIOUS
<1> HIDE DEF step
<1>1. 0 \in S
  <2>1. \A i \in 0 .. N : ~(i < 0)
        OBVIOUS
  <2> QED
      BY <2>1
<1>2. ASSUME NEW n \in Nat, n \in S PROVE n + 1 \in S
  <2>1. PICK f : \A i \in 0 .. N : i < n => f[i] = step(f)[i]
        BY <1>2
  <2>2. ASSUME NEW i \in 0 .. N, i < n + 1
        PROVE  step(f)[i] = step(step(f))[i]
    <3>1. i # 0 => f[i - 1] = step(f)[i - 1]
          BY <1>p, <2>1, <2>2
    <3> QED
        BY <1>s, <1>t, <3>1
  <2> QED
      BY <2>2
<1>3. N + 1 \in S
  <2> HIDE DEF S
  <2>1. N + 1 \in Nat
        OBVIOUS
  <2> QED
      BY <1>1, <1>2, <2>1, Induction
<1>4. PICK f : \A i \in 0 .. N : f[i] = step(f)[i]
  <2>1. \A i \in 0 .. N : i < N + 1
        OBVIOUS
  <2> QED
      BY <1>3, <2>1
<1>5. step(f) = step(step(f))
  <2>1. ASSUME NEW i \in 0 .. N PROVE Ticks(f, events, i) = Ticks(step(f), events, i)
        BY <1>4, <1>p, <1>t
  <2> QED
      BY <2>1 DEF step
<1>6. \E g : g = step(g)
      BY <1>5
<1> QED
    BY <1>6 DEF step

LEMMA ClockIs ==
    ASSUME NEW events \in Seq(Events), NEW n \in 0 .. Len(events)
    PROVE  Clock(events)[n] = Ticks(Clock(events), events, n)
<1> DEFINE C == CHOOSE f : f = [i \in 0 .. Len(events) |-> Ticks(f, events, i)]
<1>1. Clock(events) = C
      BY DEF Clock, Ticks
<1>2. C = [i \in 0 .. Len(events) |-> Ticks(C, events, i)]
  <2>1. Len(events) \in Nat
        BY LenProperties
  <2> QED
      BY <2>1, ClockExists
<1> HIDE DEF C
<1> QED
    BY <1>1, <1>2

LEMMA ClockStarts ==
    ASSUME NEW events \in Seq(Events) PROVE Clock(events)[0] = 0
<1>1. 0 \in 0 .. Len(events)
      BY LenProperties
<1> QED
    BY <1>1, ClockIs DEF Ticks

LEMMA ClockTicks ==
    ASSUME NEW events \in Seq(Events), NEW n \in Nat, n + 1 <= Len(events)
    PROVE  Clock(events)[n + 1] = Clock(events)[n] + events[n + 1].delay
<1>1. n + 1 \in 0 .. Len(events) /\ n + 1 # 0 /\ n + 1 - 1 = n
      BY LenProperties
<1> QED
    BY <1>1, ClockIs DEF Ticks

LEMMA EventIs ==
    ASSUME NEW e \in Events
    PROVE  e.message \in Seq(Nat) /\ e.kind \in Kinds /\ e.delay \in Nat
BY DEF Events

LEMMA ClockType ==
    ASSUME NEW events \in Seq(Events)
    PROVE  \A n \in 0 .. Len(events) : Clock(events)[n] \in Nat
<1> DEFINE S == {n \in Nat : n <= Len(events) => Clock(events)[n] \in Nat}
<1>0. Len(events) \in Nat
      BY LenProperties
<1>1. 0 \in S
      BY ClockStarts
<1>2. ASSUME NEW n \in Nat, n \in S PROVE n + 1 \in S
  <2>1. SUFFICES ASSUME n + 1 <= Len(events) PROVE Clock(events)[n + 1] \in Nat
        OBVIOUS
  <2>2. Clock(events)[n + 1] = Clock(events)[n] + events[n + 1].delay
        BY <2>1, ClockTicks
  <2>3. Clock(events)[n] \in Nat
        BY <1>0, <1>2, <2>1
  <2>4. events[n + 1].delay \in Nat
    <3>1. n + 1 \in 1 .. Len(events)
          BY <1>0, <2>1
    <3>2. events[n + 1] \in Events
          BY <3>1, ElementOfSeq
    <3> QED
        BY <3>2, EventIs
  <2> QED
      BY <2>2, <2>3, <2>4
<1>3. \A n \in Nat : n \in S
  <2> HIDE DEF S
  <2> QED
      BY <1>1, <1>2, Induction
<1> QED
    BY <1>0, <1>3

\* One more event leaves the times of the others as they are.
LEMMA ClockAppend ==
    ASSUME NEW events \in Seq(Events), NEW e \in Events
    PROVE  /\ \A n \in 0 .. Len(events) : Clock(Append(events, e))[n] = Clock(events)[n]
           /\ Clock(Append(events, e))[Len(events) + 1]
                = Clock(events)[Len(events)] + e.delay
<1> DEFINE more == Append(events, e)
           S == {n \in Nat : n <= Len(events) => Clock(more)[n] = Clock(events)[n]}
<1>0. Len(events) \in Nat
      BY LenProperties
<1>1. /\ more \in Seq(Events) /\ Len(more) = Len(events) + 1
      /\ \A i \in 1 .. Len(events) : more[i] = events[i]
      /\ more[Len(events) + 1] = e
      BY AppendProperties
<1> HIDE DEF more
<1>2. 0 \in S
      BY <1>1, ClockStarts
<1>3. ASSUME NEW n \in Nat, n \in S PROVE n + 1 \in S
  <2>1. SUFFICES ASSUME n + 1 <= Len(events)
                 PROVE  Clock(more)[n + 1] = Clock(events)[n + 1]
        OBVIOUS
  <2>2. Clock(events)[n + 1] = Clock(events)[n] + events[n + 1].delay
        BY <2>1, ClockTicks
  <2>3. n + 1 <= Len(more)
        BY <1>0, <1>1, <2>1
  <2>4. Clock(more)[n + 1] = Clock(more)[n] + more[n + 1].delay
        BY <1>1, <2>3, ClockTicks
  <2>5. Clock(more)[n] = Clock(events)[n] /\ n + 1 \in 1 .. Len(events)
        BY <1>0, <1>3, <2>1
  <2> QED
      BY <1>1, <2>2, <2>4, <2>5
<1>4. \A n \in Nat : n \in S
  <2> HIDE DEF S
  <2> QED
      BY <1>2, <1>3, Induction
<1>5. Clock(more)[Len(events)] = Clock(events)[Len(events)]
      BY <1>0, <1>4
<1>6. Clock(more)[Len(events) + 1] = Clock(more)[Len(events)] + more[Len(events) + 1].delay
  <2>1. Len(events) + 1 <= Len(more)
        BY <1>0, <1>1
  <2> QED
      BY <1>0, <1>1, <2>1, ClockTicks
<1> QED
    BY <1>0, <1>1, <1>4, <1>5, <1>6 DEF more

LEMMA AppendIs ==
    ASSUME NEW S, NEW s \in Seq(S), NEW x \in S, NEW t, NEW N \in Nat,
           Len(s) = N, t \in Seq(S), Len(t) = N + 1,
           \A n \in 1 .. N : t[n] = s[n], t[N + 1] = x
    PROVE  t = Append(s, x)
<1> DEFINE a == Append(s, x)
<1>1. a \in Seq(S) /\ Len(a) = N + 1 /\ (\A n \in 1 .. N : a[n] = s[n]) /\ a[N + 1] = x
      BY AppendProperties
<1> HIDE DEF a
<1>2. \A n \in 1 .. N + 1 : t[n] = a[n]
      BY <1>1
<1>3. t = a
      BY <1>1, <1>2, SeqEqual
<1> QED
    BY <1>3 DEF a

\* What an event shows of a kind, at a time.
Shows(e, k, t) == IF e.kind = k THEN Timed(e.message, t) ELSE <<>>
Show(events, k) == [n \in DOMAIN events |-> Shows(events[n], k, Clock(events)[n])]

LEMMA ShowsType ==
    ASSUME NEW e \in Events, NEW k, NEW t \in Nat PROVE Shows(e, k, t) \in Seq(Marks)
<1>1. Timed(e.message, t) \in Seq(Marks)
      BY EventIs, TimedIs
<1>2. <<>> \in Seq(Marks)
      BY EmptySeq
<1> QED
    BY <1>1, <1>2 DEF Shows

LEMMA ShowIs ==
    ASSUME NEW events \in Seq(Events), NEW k
    PROVE  /\ Show(events, k) \in Seq(Seq(Marks)) /\ Len(Show(events, k)) = Len(events)
           /\ \A n \in 1 .. Len(events) :
                Show(events, k)[n] = Shows(events[n], k, Clock(events)[n])
<1>1. Len(events) \in Nat /\ DOMAIN events = 1 .. Len(events)
      BY LenProperties
<1>2. Show(events, k) = [n \in 1 .. Len(events) |-> Shows(events[n], k, Clock(events)[n])]
      BY <1>1 DEF Show
<1>3. \A n \in 1 .. Len(events) : Shows(events[n], k, Clock(events)[n]) \in Seq(Marks)
  <2>1. SUFFICES ASSUME NEW n \in 1 .. Len(events)
                 PROVE  Shows(events[n], k, Clock(events)[n]) \in Seq(Marks)
        OBVIOUS
  <2>2. events[n] \in Events
        BY ElementOfSeq
  <2>3. n \in 0 .. Len(events)
        BY <1>1
  <2>4. Clock(events)[n] \in Nat
        BY <2>3, ClockType
  <2> QED
      BY <2>2, <2>4, ShowsType
<1>4. Show(events, k) \in Seq(Seq(Marks))
      BY <1>1, <1>2, <1>3, IsASeq
<1> QED
    BY <1>1, <1>2, <1>4, LenProperties

LEMMA PlayedAppend ==
    ASSUME NEW events \in Seq(Events), NEW e \in Events, NEW k
    PROVE  /\ Played(events, k) \in Seq(Marks)
           /\ Played(Append(events, e), k)
                = Played(events, k) \o Shows(e, k, Clock(events)[Len(events)] + e.delay)
<1> DEFINE more == Append(events, e)
           N == Len(events)
           x == Shows(e, k, Clock(events)[N] + e.delay)
           s == Show(events, k)
           t == Show(more, k)
<1>1. N \in Nat
      BY LenProperties
<1>2. /\ more \in Seq(Events) /\ Len(more) = N + 1
      /\ \A i \in 1 .. N : more[i] = events[i]
      /\ more[N + 1] = e
      BY AppendProperties
<1>3. /\ \A n \in 0 .. N : Clock(more)[n] = Clock(events)[n]
      /\ Clock(more)[N + 1] = Clock(events)[N] + e.delay
      BY ClockAppend
<1>4. x \in Seq(Marks)
  <2>1. N \in 0 .. N
        BY <1>1
  <2>2. Clock(events)[N] \in Nat /\ e.delay \in Nat
        BY <2>1, ClockType, EventIs
  <2>3. Clock(events)[N] + e.delay \in Nat
        BY <2>2
  <2> QED
      BY <2>3, ShowsType
<1> HIDE DEF more, N, x
<1>5. s \in Seq(Seq(Marks)) /\ Len(s) = N
      /\ \A n \in 1 .. N : s[n] = Shows(events[n], k, Clock(events)[n])
      BY ShowIs DEF N
<1>6. t \in Seq(Seq(Marks)) /\ Len(t) = N + 1
      /\ \A n \in 1 .. N + 1 : t[n] = Shows(more[n], k, Clock(more)[n])
      BY <1>2, ShowIs
<1>7. FlattenSeq(s) = Played(events, k) /\ FlattenSeq(t) = Played(more, k)
      BY DEF Played, Show, Shows
<1> HIDE DEF s, t
<1>8. \A n \in 1 .. N : t[n] = s[n]
  <2>1. \A n \in 1 .. N : n \in 1 .. N + 1 /\ n \in 0 .. N
        BY <1>1
  <2> QED
      BY <1>2, <1>3, <1>5, <1>6, <2>1
<1>9. t[N + 1] = x
  <2>1. N + 1 \in 1 .. N + 1
        BY <1>1
  <2> QED
      BY <1>2, <1>3, <1>6, <2>1 DEF x
<1>10. t = Append(s, x)
       BY <1>1, <1>4, <1>5, <1>6, <1>8, <1>9, AppendIs
<1>11. FlattenSeq(t) = FlattenSeq(s) \o x
       BY <1>4, <1>5, <1>10, FlattenAppend
<1>12. FlattenSeq(s) \in Seq(Marks)
       BY <1>5, FlattenType
<1> QED
    BY <1>7, <1>11, <1>12 DEF more, N, x

LEMMA PlayedNothing == \A k : Played(<<>>, k) = <<>>
<1>1. SUFFICES ASSUME NEW k PROVE Played(<<>>, k) = <<>>
      OBVIOUS
<1>2. <<>> \in Seq(Events) /\ Len(<<>>) = 0
      BY EmptySeq
<1>3. Show(<<>>, k) \in Seq(Seq(Marks)) /\ Len(Show(<<>>, k)) = 0
      BY <1>2, ShowIs
<1>4. Show(<<>>, k) = <<>>
      BY <1>3, EmptySeq
<1>5. Played(<<>>, k) = FlattenSeq(Show(<<>>, k))
      BY DEF Played, Show, Shows
<1> QED
    BY <1>4, <1>5, FlattenEmpty

---------------------------------------------------------------------------
(* The slices of decode, and what they say.                                *)

LEMMA SliceIs ==
    ASSUME NEW e \in Slices PROVE e.from \in Nat \ {0} /\ e.len \in Nat /\ e.time \in Nat
BY DEF Slices

LEMMA DecodingIs ==
    ASSUME NEW d \in Decoding
    PROVE  /\ d.output \in Seq(Nat) /\ Len(d.output) \in Nat
           /\ d.i \in Nat \ {0} /\ d.last \in Nat
           /\ d.events \in Seq(Slices) /\ Len(d.events) \in Nat
           /\ \A n \in 1 .. Len(d.events) :
                /\ d.events[n] \in Slices
                /\ d.events[n].from \in Nat \ {0}
                /\ d.events[n].len \in Nat /\ d.events[n].time \in Nat
<1>1. /\ d.output \in Seq(Nat) /\ d.i \in Nat \ {0} /\ d.last \in Nat
      /\ d.events \in Seq(Slices)
      BY DEF Decoding
<1>2. Len(d.output) \in Nat /\ Len(d.events) \in Nat
      BY <1>1, LenProperties
<1>3. ASSUME NEW n \in 1 .. Len(d.events)
      PROVE  /\ d.events[n] \in Slices /\ d.events[n].from \in Nat \ {0}
             /\ d.events[n].len \in Nat /\ d.events[n].time \in Nat
  <2>1. d.events[n] \in Slices
        BY <1>1, ElementOfSeq
  <2> QED
      BY <2>1, SliceIs
<1> QED
    BY <1>1, <1>2, <1>3

End(e) == e.from + e.len
Within(d) == \A n \in 1 .. Len(d.events) : End(d.events[n]) <= Len(d.output) + 1

\* What a slice says.
Says(d, n) == Timed(Message(d, d.events[n]), d.events[n].time)

LEMMA MessageIs ==
    ASSUME NEW d \in Decoding, NEW e \in Slices, End(e) <= Len(d.output) + 1
    PROVE  /\ Message(d, e) \in Seq(Nat) /\ Len(Message(d, e)) = e.len
           /\ \A x \in 1 .. e.len : Message(d, e)[x] = d.output[e.from + x - 1]
<1>1. d.output \in Seq(Nat) /\ e.from \in Nat \ {0} /\ e.len \in Nat
      BY DecodingIs, SliceIs
<1>2. e.from + e.len <= Len(d.output) + 1
      BY DEF End
<1> QED
    BY <1>1, <1>2, PartIs DEF Message

LEMMA SaysType ==
    ASSUME NEW d \in Decoding, Within(d), NEW n \in 1 .. Len(d.events)
    PROVE  Says(d, n) \in Seq(Marks)
<1>1. d.events[n] \in Slices /\ d.events[n].time \in Nat
      BY DecodingIs
<1>2. End(d.events[n]) <= Len(d.output) + 1
      BY DEF Within
<1>3. Message(d, d.events[n]) \in Seq(Nat)
      BY <1>1, <1>2, MessageIs
<1> QED
    BY <1>1, <1>3, TimedIs DEF Says

SaidSeq(d, n) == [m \in 1 .. n |-> Says(d, m)]

LEMMA SaidSeqIs ==
    ASSUME NEW d \in Decoding, Within(d), NEW n \in 0 .. Len(d.events)
    PROVE  /\ SaidSeq(d, n) \in Seq(Seq(Marks)) /\ Len(SaidSeq(d, n)) = n
           /\ \A m \in 1 .. n : SaidSeq(d, n)[m] = Says(d, m)
           /\ SaidBy(d, n) = FlattenSeq(SaidSeq(d, n))
           /\ SaidBy(d, n) \in Seq(Marks)
<1>1. n \in Nat /\ \A m \in 1 .. n : m \in 1 .. Len(d.events)
      BY DecodingIs
<1>2. \A m \in 1 .. n : Says(d, m) \in Seq(Marks)
      BY <1>1, SaysType
<1>3. SaidSeq(d, n) \in Seq(Seq(Marks))
      BY <1>1, <1>2, IsASeq DEF SaidSeq
<1>4. Len(SaidSeq(d, n)) = n /\ \A m \in 1 .. n : SaidSeq(d, n)[m] = Says(d, m)
      BY <1>1, <1>3, LenProperties DEF SaidSeq
<1>5. SaidBy(d, n) = FlattenSeq(SaidSeq(d, n))
      BY DEF SaidBy, SaidSeq, Says
<1>6. FlattenSeq(SaidSeq(d, n)) \in Seq(Marks)
      BY <1>3, FlattenType
<1> QED
    BY <1>3, <1>4, <1>5, <1>6

LEMMA SaidNothing ==
    ASSUME NEW d \in Decoding, Within(d) PROVE SaidBy(d, 0) = <<>>
<1>1. 0 \in 0 .. Len(d.events)
      BY DecodingIs
<1>2. SaidSeq(d, 0) = <<>> /\ SaidBy(d, 0) = FlattenSeq(SaidSeq(d, 0))
      BY <1>1, SaidSeqIs, EmptySeq
<1> QED
    BY <1>2, FlattenEmpty

LEMMA SaidNext ==
    ASSUME NEW d \in Decoding, Within(d), NEW n \in Nat, n + 1 <= Len(d.events)
    PROVE  SaidBy(d, n + 1) = SaidBy(d, n) \o Says(d, n + 1)
<1> DEFINE s == SaidSeq(d, n)
           N == n + 1
           t == SaidSeq(d, N)
           x == Says(d, N)
<1>1. n \in 0 .. Len(d.events) /\ N \in 0 .. Len(d.events) /\ N \in 1 .. Len(d.events)
      BY DecodingIs
<1>2. /\ s \in Seq(Seq(Marks)) /\ Len(s) = n
      /\ (\A m \in 1 .. n : s[m] = Says(d, m)) /\ SaidBy(d, n) = FlattenSeq(s)
      BY <1>1, SaidSeqIs
<1> HIDE DEF N
<1>3. /\ t \in Seq(Seq(Marks)) /\ Len(t) = N
      /\ (\A m \in 1 .. N : t[m] = Says(d, m)) /\ SaidBy(d, N) = FlattenSeq(t)
      BY <1>1, SaidSeqIs
<1>4. x \in Seq(Marks)
      BY <1>1, SaysType
<1>5. \A m \in 1 .. n : m \in 1 .. N
      BY DEF N
<1> HIDE DEF s, t, x
<1>6. (\A m \in 1 .. n : t[m] = s[m]) /\ t[N] = x
  <2>1. N \in 1 .. N
        BY DEF N
  <2> QED
      BY <1>2, <1>3, <1>5, <2>1 DEF x
<1>7. t = Append(s, x)
      BY <1>2, <1>3, <1>4, <1>6, AppendIs DEF N
<1>8. FlattenSeq(t) = FlattenSeq(s) \o x
      BY <1>2, <1>4, <1>7, FlattenAppend
<1> QED
    BY <1>2, <1>3, <1>8 DEF N, x

\* The same slices of the same symbols say the same.
LEMMA SaidSame ==
    ASSUME NEW d \in Decoding, Within(d), NEW e \in Decoding, Within(e),
           NEW n \in 0 .. Len(d.events), n \in 0 .. Len(e.events),
           \A m \in 1 .. n : Says(d, m) = Says(e, m)
    PROVE  SaidBy(d, n) = SaidBy(e, n)
<1>1. SaidSeq(d, n) = SaidSeq(e, n)
      BY DEF SaidSeq
<1>2. SaidBy(d, n) = FlattenSeq(SaidSeq(d, n)) /\ SaidBy(e, n) = FlattenSeq(SaidSeq(e, n))
      BY SaidSeqIs
<1> QED
    BY <1>1, <1>2

---------------------------------------------------------------------------
(* add.                                                                    *)

Moves(output, from, len, to, m) ==
    /\ m \in Seq(Nat) /\ Len(m) = Len(output)
    /\ \A x \in 1 .. Len(output) :
         /\ x < to \/ from + len <= x => m[x] = output[x]
         /\ x >= to /\ x < to + len => m[x] = output[from + (x - to)]

LEMMA MovedIs ==
    ASSUME NEW output \in Seq(Nat), NEW from \in Nat \ {0}, NEW len \in Nat,
           from + len <= Len(output) + 1, NEW to \in Nat \ {0}, to <= from
    PROVE  Moves(output, from, len, to, Moved(output, from, len, to))
<1> DEFINE L == Len(output)
           m == Moved(output, from, len, to)
           at(x) == IF x \in to .. to + len - 1 THEN output[from + (x - to)] ELSE output[x]
<1>1. L \in Nat /\ DOMAIN output = 1 .. L
      BY LenProperties
<1>2. m = [x \in 1 .. L |-> at(x)]
      BY <1>1 DEF Moved
<1>3. ASSUME NEW x \in 1 .. L PROVE at(x) \in Nat
  <2>1. CASE x \in to .. to + len - 1
    <3>1. from + (x - to) \in 1 .. L
          BY <1>1, <2>1
    <3>2. output[from + (x - to)] \in Nat
          BY <3>1, ElementOfSeq
    <3> QED
        BY <2>1, <3>2
  <2>2. CASE x \notin to .. to + len - 1
        BY <2>2, ElementOfSeq
  <2> QED
      BY <2>1, <2>2
<1>4. ASSUME NEW x \in 1 .. L
      PROVE  /\ x < to \/ from + len <= x => at(x) = output[x]
             /\ x >= to /\ x < to + len => at(x) = output[from + (x - to)]
  <2>1. x < to \/ from + len <= x => x \notin to .. to + len - 1
        BY <1>1
  <2>2. x >= to /\ x < to + len => x \in to .. to + len - 1
        BY <1>1
  <2> QED
      BY <2>1, <2>2
<1> HIDE DEF at, m
<1>5. m \in Seq(Nat)
  <2> HIDE DEF L
  <2> QED
      BY <1>1, <1>2, <1>3, IsASeq
<1>6. Len(m) = L /\ \A x \in 1 .. L : m[x] = at(x)
  <2> HIDE DEF L
  <2> QED
      BY <1>1, <1>2, <1>5, LenProperties
<1> QED
    BY <1>4, <1>5, <1>6 DEF m, Moves

\* n symbols of a and b from a place on are the same.
SameFrom(a, b, at, n) == \A x \in 1 .. n : a[at + x - 1] = b[at + x - 1]

\* Outputs that agree from somewhere on have the same pieces there.
LEMMA PieceSame ==
    ASSUME NEW a \in Seq(Nat), NEW b \in Seq(Nat), NEW at \in Nat \ {0}, NEW n \in Nat,
           at + n <= Len(a) + 1, at + n <= Len(b) + 1,
           SameFrom(a, b, at, n)
    PROVE  SubSeq(a, at, at + n - 1) = SubSeq(b, at, at + n - 1)
<1> DEFINE s == SubSeq(a, at, at + n - 1)
           t == SubSeq(b, at, at + n - 1)
<1>1. s \in Seq(Nat) /\ Len(s) = n /\ \A x \in 1 .. n : s[x] = a[at + x - 1]
      BY PartIs
<1>2. t \in Seq(Nat) /\ Len(t) = n /\ \A x \in 1 .. n : t[x] = b[at + x - 1]
      BY PartIs
<1> HIDE DEF s, t
<1>3. s = t
      BY <1>1, <1>2, SeqEqual DEF SameFrom
<1> QED
    BY <1>3 DEF s, t

LEMMA LastIs ==
    ASSUME NEW d \in Decoding
    PROVE  /\ d.events = <<>> <=> Len(d.events) = 0
           /\ Last(d.events) = d.events[Len(d.events)]
BY DecodingIs, EmptySeq DEF Last

LEMMA SlicedWithin ==
    ASSUME NEW d \in Decoding, NEW output \in Seq(Nat), NEW i \in Nat, i <= Len(output) + 1,
           Sliced(d, output, i)
    PROVE  Within(d) /\ Len(d.output) = Len(output)
<1>1. Len(d.output) = Len(output)
      BY DEF Sliced
<1>2. ASSUME NEW n \in 1 .. Len(d.events) PROVE End(d.events[n]) <= Len(d.output) + 1
  <2>1. d.events[n].from + d.events[n].len <= i
        BY DEF Sliced
  <2>2. d.events[n].from \in Nat /\ d.events[n].len \in Nat /\ Len(d.output) \in Nat
        BY DecodingIs
  <2> QED
      BY <1>1, <2>1, <2>2 DEF End
<1> QED
    BY <1>1, <1>2 DEF Within

\* A write of another time is a slice of its own.
LEMMA AddsSlice ==
    ASSUME NEW d \in Decoding, NEW output \in Seq(Nat), NEW t \in Nat,
           NEW from \in Nat \ {0}, NEW len \in Nat, from + len <= Len(output) + 1,
           Sliced(d, output, from), d.last <= t,
           ~(d.events # <<>> /\ Last(d.events).time = t),
           NEW e, e = add(d, t, from, len)
    PROVE  /\ e \in Decoding /\ e.i = d.i /\ e.last = t
           /\ Sliced(e, output, from + len)
           /\ Said(e) = Said(d) \o Piece(output, from, len, t)
<1> DEFINE N == Len(d.events)
           x == [from |-> from, len |-> len, time |-> t]
<1>1. x \in Slices /\ x.from = from /\ x.len = len /\ x.time = t
      BY DEF Slices
<1> HIDE DEF x
<1>2. /\ d.output \in Seq(Nat) /\ d.i \in Nat \ {0} /\ d.last \in Nat
      /\ d.events \in Seq(Slices) /\ N \in Nat
      BY DecodingIs
<1>3. /\ Append(d.events, x) \in Seq(Slices) /\ Len(Append(d.events, x)) = N + 1
      /\ (\A n \in 1 .. N : Append(d.events, x)[n] = d.events[n])
      /\ Append(d.events, x)[N + 1] = x
      BY <1>1, <1>2, AppendProperties
<1>4. e = [d EXCEPT !.events = Append(d.events, x), !.last = t]
      BY DEF add, x
<1>5. /\ e \in Decoding /\ e.output = d.output /\ e.i = d.i /\ e.last = t
      /\ e.events = Append(d.events, x)
      BY <1>2, <1>3, <1>4 DEF Decoding
<1> DEFINE ev == e.events
<1>6. /\ ev \in Seq(Slices) /\ Len(ev) = N + 1 /\ ev[N + 1] = x
      /\ \A n \in 1 .. N : ev[n] = d.events[n]
      BY <1>3, <1>5
<1> HIDE DEF ev
<1>7. Len(output) \in Nat /\ from \in Nat /\ from <= Len(output) + 1
      BY LenProperties
<1>8. Within(d) /\ Len(d.output) = Len(output)
      BY <1>7, SlicedWithin
<1>9. ASSUME NEW n \in 1 .. N
      PROVE  /\ d.events[n].from + d.events[n].len <= from /\ d.events[n].time < t
             /\ d.events[n].from \in Nat /\ d.events[n].len \in Nat
             /\ d.events[n].time \in Nat
  <2>1. /\ d.events[n].from + d.events[n].len <= from /\ d.events[n].time <= d.last
        BY DEF Sliced
  <2>2. /\ d.events[n].from \in Nat /\ d.events[n].len \in Nat /\ d.events[n].time \in Nat
        BY DecodingIs
  <2>3. d.events[n].time # t
    <3>1. N # 0 /\ N \in 1 .. N
          BY <1>2
    <3>2. d.events[N].time # t /\ d.events[N].time = d.last
      <4>1. d.events # <<>> /\ Last(d.events) = d.events[N]
            BY <1>2, <3>1, LastIs DEF N
      <4> QED
          BY <4>1 DEF Sliced
    <3>3. d.last < t
          BY <1>2, <3>2
    <3> QED
        BY <1>2, <2>1, <2>2, <3>3
  <2>4. d.events[n].time < t
    <3>1. PICK time : time = d.events[n].time
          OBVIOUS
    <3>2. PICK last : last = d.last
          OBVIOUS
    <3>3. time \in Nat /\ last \in Nat /\ time <= last /\ last <= t /\ time # t
          BY <1>2, <2>1, <2>2, <2>3, <3>1, <3>2
    <3>4. time < t
          BY <3>3
    <3> QED
        BY <3>1, <3>4
  <2> QED
      BY <2>1, <2>2, <2>4
<1>10. Sliced(e, output, from + len)
  <2>1. Len(e.output) = Len(output)
        BY <1>5, <1>8
  <2>2. ASSUME NEW n \in 1 .. N + 1
        PROVE  /\ ev[n].from + ev[n].len <= from + len /\ ev[n].time <= t
               /\ \A m \in n + 1 .. N + 1 :
                    ev[n].from + ev[n].len <= ev[m].from /\ ev[n].time < ev[m].time
    <3>1. CASE n = N + 1
      <4>1. \A m \in n + 1 .. N + 1 : FALSE
            BY <1>2, <3>1
      <4>2. ev[n].from + ev[n].len <= from + len /\ ev[n].time <= t
            BY <1>1, <1>6, <3>1
      <4> QED
          BY <4>1, <4>2
    <3>2. CASE n # N + 1
      <4>1. n \in 1 .. N
            BY <1>2, <3>2
      <4>2. ev[n] = d.events[n]
            BY <1>6, <4>1
      <4>3. ev[n].from + ev[n].len <= from + len /\ ev[n].time <= t
        <5>1. ev[n].from + ev[n].len <= from /\ ev[n].time < t
              BY <1>9, <4>1, <4>2
        <5>2. ev[n].from \in Nat /\ ev[n].len \in Nat /\ ev[n].time \in Nat
              BY <1>9, <4>1, <4>2
        <5> HIDE DEF N
        <5> QED
            BY <5>1, <5>2
      <4>4. ASSUME NEW m \in n + 1 .. N + 1
            PROVE  ev[n].from + ev[n].len <= ev[m].from /\ ev[n].time < ev[m].time
        <5>1. CASE m = N + 1
              BY <1>1, <1>6, <1>9, <4>1, <4>2, <5>1
        <5>2. CASE m # N + 1
          <6>1. m \in n + 1 .. N /\ m \in 1 .. N
            <7> HIDE DEF N
            <7> QED
                BY <1>2, <4>1, <4>4, <5>2
          <6>2. ev[m] = d.events[m]
                BY <1>6, <6>1
          <6> QED
              BY <4>1, <4>2, <6>1, <6>2 DEF Sliced
        <5> QED
            BY <5>1, <5>2
      <4> QED
          BY <4>3, <4>4
    <3> QED
        BY <3>1, <3>2
  <2>3. Last(e.events).time = e.last
    <3>1. Last(e.events) = ev[N + 1]
          BY <1>5, <1>6, LastIs DEF ev
    <3> QED
        BY <1>1, <1>5, <1>6, <3>1
  <2>4. \A z \in from + len .. Len(output) : e.output[z] = output[z]
    <3>1. \A z \in from + len .. Len(output) : z \in from .. Len(output)
          BY <1>7
    <3> QED
        BY <1>5, <3>1 DEF Sliced
  <2>5. Len(e.events) = N + 1 /\ e.last = t
        BY <1>5, <1>6 DEF ev
  <2> QED
      BY <2>1, <2>2, <2>3, <2>4, <2>5 DEF Sliced, ev
<1>11. Within(e)
  <2>1. from + len \in Nat
        BY <1>7
  <2> QED
      BY <1>5, <1>10, <2>1, SlicedWithin
<1>12. SaidBy(e, N) = SaidBy(d, N)
  <2>1. \A n \in 1 .. N : Says(d, n) = Says(e, n)
        BY <1>5, <1>6 DEF Says, Message, ev
  <2>2. N \in 0 .. Len(d.events) /\ N \in 0 .. Len(e.events)
        BY <1>2, <1>6 DEF ev
  <2> QED
      BY <1>5, <1>8, <1>11, <2>1, <2>2, SaidSame
<1>13. Says(e, N + 1) = Piece(output, from, len, t)
  <2>1. SubSeq(d.output, from, from + len - 1) = SubSeq(output, from, from + len - 1)
    <3>1. \A z \in 1 .. len : d.output[from + z - 1] = output[from + z - 1]
      <4>1. \A z \in 1 .. len : from + z - 1 \in from .. Len(output)
            BY <1>7
      <4> QED
          BY <4>1 DEF Sliced
    <3> QED
      <4>1. PICK w : w = d.output
            OBVIOUS
      <4>2. w \in Seq(Nat) /\ from + len <= Len(w) + 1
            BY <1>2, <1>8, <4>1
      <4>3. SameFrom(w, output, from, len)
            BY <3>1, <4>1 DEF SameFrom
      <4>4. SubSeq(w, from, from + len - 1) = SubSeq(output, from, from + len - 1)
            BY <4>2, <4>3, PieceSame
      <4> QED
          BY <4>1, <4>4
  <2> QED
      BY <1>1, <1>5, <1>6, <2>1 DEF Says, Message, Piece, ev
<1>14. Said(e) = SaidBy(e, N) \o Says(e, N + 1)
  <2>1. Len(e.events) = N + 1
        BY <1>6 DEF ev
  <2>2. SaidBy(e, N + 1) = SaidBy(e, N) \o Says(e, N + 1)
    <3>1. N \in Nat /\ N + 1 <= Len(e.events)
          BY <1>2, <2>1
    <3> HIDE DEF N
    <3> QED
        BY <1>5, <1>11, <3>1, SaidNext
  <2> QED
      BY <2>1, <2>2 DEF Said
<1> QED
    BY <1>5, <1>10, <1>12, <1>13, <1>14 DEF Said

\* A write of the same time goes behind the last slice, over what was read: the
\* slices before it say what they said, and what follows is as it was written.
LEMMA AddsInPlace ==
    ASSUME NEW d \in Decoding, NEW output \in Seq(Nat), NEW t \in Nat,
           NEW from \in Nat \ {0}, NEW len \in Nat, from + len <= Len(output) + 1,
           Sliced(d, output, from),
           d.events # <<>>, Last(d.events).time = t,
           NEW e, e = add(d, t, from, len)
    PROVE  /\ e \in Decoding /\ e.i = d.i /\ e.last = t
           /\ Sliced(e, output, from + len)
           /\ Said(e) = Said(d) \o Piece(output, from, len, t)
<1> DEFINE N == Len(d.events)
           prev == d.events[N]
           to == prev.from + prev.len
           moved == Moved(d.output, from, len, to)
           longer == [prev EXCEPT !.len = @ + len]
<1>1. /\ d.output \in Seq(Nat) /\ d.i \in Nat \ {0} /\ d.last \in Nat
      /\ d.events \in Seq(Slices) /\ N \in Nat
      /\ \A n \in 1 .. N :
           /\ d.events[n] \in Slices /\ d.events[n].from \in Nat \ {0}
           /\ d.events[n].len \in Nat /\ d.events[n].time \in Nat
      BY DecodingIs
<1>2. N # 0 /\ Last(d.events) = prev
      BY LastIs
<1>3. Len(output) \in Nat /\ from \in Nat /\ from <= Len(output) + 1
      BY LenProperties
<1>4. Within(d) /\ Len(d.output) = Len(output)
      BY <1>3, SlicedWithin
<1> HIDE DEF N
<1>5. N \in 1 .. N /\ N - 1 \in Nat /\ N - 1 + 1 = N
      BY <1>1, <1>2
<1>6. prev \in Slices /\ prev.from \in Nat \ {0} /\ prev.len \in Nat /\ prev.time \in Nat
      BY <1>1, <1>5
<1>7. prev.time = t /\ prev.time = d.last
      BY <1>2 DEF Sliced
<1>8. to <= from /\ to \in Nat \ {0}
  <2>1. to <= from
        BY <1>5 DEF Sliced, N
  <2> HIDE DEF prev
  <2>2. PICK a : a = prev.from
        OBVIOUS
  <2>3. PICK l : l = prev.len
        OBVIOUS
  <2>4. a \in Nat \ {0} /\ l \in Nat
        BY <1>6, <2>2, <2>3
  <2>5. a + l \in Nat \ {0}
        BY <2>4
  <2> QED
      BY <2>1, <2>2, <2>3, <2>5
<1>9. /\ longer \in Slices /\ longer.from = prev.from /\ longer.len = prev.len + len
      /\ longer.time = t
  <2> HIDE DEF prev
  <2>1. prev.len + len \in Nat
        BY <1>6
  <2> QED
      BY <1>6, <1>7, <2>1 DEF Slices
<1>a. /\ moved \in Seq(Nat) /\ Len(moved) = Len(output)
      /\ \A x \in 1 .. Len(output) :
           /\ x < to \/ from + len <= x => moved[x] = d.output[x]
           /\ x >= to /\ x < to + len => moved[x] = d.output[from + (x - to)]
  <2> HIDE DEF to
  <2>1. PICK w : w = d.output
        OBVIOUS
  <2>2. w \in Seq(Nat) /\ Len(w) = Len(output)
        BY <1>1, <1>4, <2>1
  <2>3. from + len <= Len(w) + 1
        BY <2>2
  <2>4. Moves(w, from, len, to, Moved(w, from, len, to))
        BY <1>8, <2>2, <2>3, MovedIs
  <2> QED
      BY <2>1, <2>2, <2>4 DEF Moves
<1> DEFINE ev == [d.events EXCEPT ![N] = longer]
<1>10. /\ ev \in Seq(Slices) /\ Len(ev) = N /\ ev[N] = longer
       /\ \A n \in 1 .. N : n # N => ev[n] = d.events[n]
  <2> HIDE DEF longer
  <2>1. N \in 1 .. Len(d.events)
        BY <1>5 DEF N
  <2>2. ev \in Seq(Slices) /\ Len(ev) = Len(d.events)
        BY <1>1, <1>9, <2>1, ExceptSeq
  <2>3. \A n \in 1 .. Len(d.events) : ev[n] = IF n = N THEN longer ELSE d.events[n]
        BY <1>1, <2>1, ExceptSeq
  <2> QED
      BY <2>1, <2>2, <2>3 DEF N
<1>11. e = [d EXCEPT !.output = moved, !.events = ev, !.last = t]
       BY <1>2 DEF add, N
<1> HIDE DEF moved, longer, ev
<1>12. /\ e \in Decoding /\ e.output = moved /\ e.i = d.i /\ e.last = t /\ e.events = ev
       BY <1>1, <1>a, <1>10, <1>11 DEF Decoding
<1> HIDE DEF to, prev
<1>13. ASSUME NEW n \in 1 .. N, n # N
       PROVE  /\ d.events[n].from + d.events[n].len <= prev.from
              /\ d.events[n].time < t /\ d.events[n].from + d.events[n].len <= to
  <2>1. n \in 1 .. Len(d.events) /\ N \in n + 1 .. Len(d.events)
        BY <1>1, <1>13 DEF N
  <2>2. d.events[n].from + d.events[n].len <= prev.from /\ d.events[n].time < prev.time
        BY <2>1 DEF Sliced, prev
  <2>3. d.events[n].time < t
        BY <1>7, <2>2
  <2>4. d.events[n].from + d.events[n].len <= to
    <3>1. PICK a : a = d.events[n].from + d.events[n].len
          OBVIOUS
    <3>2. PICK b : b = prev.from
          OBVIOUS
    <3>3. PICK l : l = prev.len
          OBVIOUS
    <3>4. a \in Nat
      <4>1. d.events[n].from \in Nat /\ d.events[n].len \in Nat
            BY <1>1
      <4>2. \A x, y \in Nat : x + y \in Nat
            OBVIOUS
      <4> QED
          BY <3>1, <4>1, <4>2
    <3>5. a \in Nat /\ b \in Nat /\ l \in Nat /\ a <= b
      <4>1. a <= b
            BY <2>2, <3>1, <3>2
      <4> QED
          BY <1>6, <3>2, <3>3, <3>4, <4>1
    <3>6. a <= b + l
          BY <3>5
    <3> QED
        BY <3>1, <3>2, <3>3, <3>6 DEF to
  <2> QED
      BY <2>2, <2>3, <2>4
<1>14. Sliced(e, output, from + len)
  <2>1. Len(e.output) = Len(output)
        BY <1>a, <1>12
  <2>2. ASSUME NEW n \in 1 .. N
        PROVE  /\ ev[n].from + ev[n].len <= from + len /\ ev[n].time <= t
               /\ \A m \in n + 1 .. N :
                    ev[n].from + ev[n].len <= ev[m].from /\ ev[n].time < ev[m].time
    <3>1. CASE n = N
      <4>1. \A m \in n + 1 .. N : FALSE
            BY <1>1, <3>1
      <4>2. ev[n].from + ev[n].len = to + len /\ ev[n].time = t
            BY <1>6, <1>9, <1>10, <3>1 DEF to
      <4>3. to + len <= from + len /\ t <= t
            BY <1>3, <1>8
      <4> QED
          BY <4>1, <4>2, <4>3
    <3>2. CASE n # N
      <4>1. ev[n] = d.events[n]
            BY <1>10, <3>2
      <4>2. ev[n].from + ev[n].len <= from + len /\ ev[n].time <= t
        <5>1. ev[n].from + ev[n].len <= to /\ ev[n].time < t
              BY <1>13, <3>2, <4>1
        <5>2. ev[n].from \in Nat /\ ev[n].len \in Nat /\ ev[n].time \in Nat
              BY <1>1, <4>1
        <5>3. ev[n].time <= t
              BY <5>1, <5>2
        <5>4. PICK a : a = ev[n].from + ev[n].len
              OBVIOUS
        <5>5. a \in Nat /\ a <= to
          <6>1. \A x, y \in Nat : x + y \in Nat
                OBVIOUS
          <6> QED
              BY <5>1, <5>2, <5>4, <6>1
        <5>6. a <= from + len
              BY <1>3, <1>8, <5>5
        <5> QED
            BY <5>3, <5>4, <5>6
      <4>3. ASSUME NEW m \in n + 1 .. N
            PROVE  ev[n].from + ev[n].len <= ev[m].from /\ ev[n].time < ev[m].time
        <5>1. CASE m = N
              BY <1>9, <1>10, <1>13, <3>2, <4>1, <5>1
        <5>2. CASE m # N
          <6>1. m \in 1 .. N
                BY <1>1, <4>3
          <6>2. ev[m] = d.events[m]
                BY <1>10, <5>2, <6>1
          <6> QED
              BY <4>1, <4>3, <6>2 DEF Sliced, N
        <5> QED
            BY <5>1, <5>2
      <4> QED
          BY <4>2, <4>3
    <3> QED
        BY <3>1, <3>2
  <2>3. Last(e.events).time = e.last
    <3>1. Last(e.events) = ev[N]
          BY <1>10, <1>12, LastIs
    <3> QED
        BY <1>9, <1>10, <1>12, <3>1
  <2>4. \A z \in from + len .. Len(output) : e.output[z] = output[z]
    <3>1. \A z \in from + len .. Len(output) :
            z \in from .. Len(output) /\ z \in 1 .. Len(output) /\ from + len <= z
          BY <1>3
    <3>2. \A z \in from .. Len(output) : d.output[z] = output[z]
          BY DEF Sliced
    <3> QED
        BY <1>a, <1>12, <3>1, <3>2
  <2>5. Len(e.events) = N /\ e.last = t /\ e.events = ev
        BY <1>10, <1>12
  <2> QED
      BY <2>1, <2>2, <2>3, <2>4, <2>5 DEF Sliced
<1>15. Within(e)
  <2>1. from + len \in Nat
        BY <1>3
  <2> QED
      BY <1>12, <1>14, <2>1, SlicedWithin
<1>16. ASSUME NEW n \in 1 .. N, n # N PROVE Says(d, n) = Says(e, n)
  <2> DEFINE a == d.events[n].from
             l == d.events[n].len
  <2>1. e.events[n] = d.events[n]
        BY <1>10, <1>12, <1>16
  <2>2. a \in Nat \ {0} /\ l \in Nat /\ a + l <= to
        BY <1>1, <1>13, <1>16
  <2>3. a + l <= Len(output) + 1
        BY <1>3, <1>8, <2>2
  <2> HIDE DEF a, l
  <2>4. \A x \in 1 .. l : d.output[a + x - 1] = moved[a + x - 1]
    <3>1. \A x \in 1 .. l : a + x - 1 \in 1 .. Len(output) /\ a + x - 1 < to
          BY <1>3, <1>8, <2>2, <2>3
    <3> QED
        BY <1>a, <3>1
  <2>5. SubSeq(d.output, a, a + l - 1) = SubSeq(moved, a, a + l - 1)
    <3>1. PICK w : w = d.output
          OBVIOUS
    <3>2. w \in Seq(Nat) /\ moved \in Seq(Nat)
          BY <1>1, <1>a, <3>1
    <3>3. a + l <= Len(w) + 1 /\ a + l <= Len(moved) + 1
          BY <1>4, <1>a, <2>3, <3>1
    <3>4. SameFrom(w, moved, a, l)
          BY <2>4, <3>1 DEF SameFrom
    <3>5. SubSeq(w, a, a + l - 1) = SubSeq(moved, a, a + l - 1)
      <4>1. a \in Nat \ {0} /\ l \in Nat
            BY <2>2
      <4> QED
          BY <3>2, <3>3, <3>4, <4>1, PieceSame
    <3> QED
        BY <3>1, <3>5
  <2> QED
      BY <1>12, <2>1, <2>5 DEF Says, Message, a, l
<1>17. SaidBy(d, N - 1) = SaidBy(e, N - 1)
  <2>1. /\ N - 1 \in 0 .. Len(d.events) /\ N - 1 \in 0 .. Len(e.events)
        /\ \A n \in 1 .. N - 1 : n \in 1 .. N /\ n # N
        BY <1>1, <1>5, <1>10, <1>12 DEF N
  <2>2. \A n \in 1 .. N - 1 : Says(d, n) = Says(e, n)
        BY <1>16, <2>1
  <2> QED
      BY <1>4, <1>12, <1>15, <2>1, <2>2, SaidSame
<1> DEFINE was == Message(d, prev)
           more == SubSeq(output, from, from + len - 1)
           is == Message(e, longer)
<1>18. /\ was \in Seq(Nat) /\ Len(was) = prev.len
       /\ \A x \in 1 .. prev.len : was[x] = d.output[prev.from + x - 1]
  <2>1. End(prev) <= Len(d.output) + 1
        BY <1>4, <1>5 DEF Within, N, prev
  <2> QED
      BY <1>6, <2>1, MessageIs
<1>19. /\ more \in Seq(Nat) /\ Len(more) = len
       /\ \A x \in 1 .. len : more[x] = output[from + x - 1]
       BY PartIs
<1>20. /\ is \in Seq(Nat) /\ Len(is) = prev.len + len
       /\ \A x \in 1 .. prev.len + len : is[x] = moved[prev.from + x - 1]
  <2>1. End(longer) <= Len(e.output) + 1
    <3>1. End(e.events[N]) <= Len(e.output) + 1
          BY <1>5, <1>10, <1>12, <1>15 DEF Within
    <3> QED
        BY <1>10, <1>12, <3>1
  <2> QED
      BY <1>9, <1>12, <2>1, MessageIs, SMTT(30)
<1> HIDE DEF was, more, is
<1>21. is = was \o more
  <2> DEFINE r == was \o more
  <2>1. /\ r \in Seq(Nat) /\ Len(r) = prev.len + len
        /\ \A x \in 1 .. prev.len + len :
             r[x] = IF x <= prev.len THEN was[x] ELSE more[x - prev.len]
    <3>1. was \in Seq(Nat) /\ more \in Seq(Nat)
          BY <1>18, <1>19
    <3>2. /\ r \in Seq(Nat) /\ Len(r) = Len(was) + Len(more)
          /\ \A x \in 1 .. Len(was) + Len(more) :
               r[x] = IF x <= Len(was) THEN was[x] ELSE more[x - Len(was)]
          BY <3>1, ConcatProperties
    <3>3. Len(was) = prev.len /\ Len(more) = len
          BY <1>18, <1>19
    <3> HIDE DEF r
    <3> QED
        BY <3>2, <3>3
  <2> HIDE DEF r
  <2>2. PICK l : l = prev.len
        OBVIOUS
  <2>3. PICK a : a = prev.from
        OBVIOUS
  <2>4. /\ l \in Nat /\ a \in Nat \ {0} /\ to = a + l /\ a + l <= from
        BY <1>6, <1>8, <2>2, <2>3 DEF to
  <2>5. ASSUME NEW x \in 1 .. l + len PROVE is[x] = r[x]
    <3>1. /\ a + x - 1 \in 1 .. Len(output) /\ is[x] = moved[a + x - 1]
      <4>1. a + x - 1 \in 1 .. Len(output)
            BY <1>3, <2>4
      <4> QED
          BY <1>20, <2>2, <2>3, <4>1
    <3>2. CASE x <= l
      <4>1. x \in 1 .. l /\ a + x - 1 < to
            BY <2>4, <3>2
      <4>2. moved[a + x - 1] = d.output[a + x - 1]
            BY <1>a, <3>1, <4>1
      <4>3. r[x] = was[x] /\ was[x] = d.output[a + x - 1]
            BY <1>18, <2>1, <2>2, <2>3, <3>2, <4>1
      <4> QED
          BY <3>1, <4>2, <4>3
    <3>3. CASE ~(x <= l)
      <4>1. PICK y : y = x - l
            OBVIOUS
      <4>2. y \in 1 .. len /\ a + x - 1 >= to /\ a + x - 1 < to + len
            BY <2>4, <3>3, <4>1
      <4>3. PICK z : z = a + x - 1
            OBVIOUS
      <4>4. moved[z] = d.output[from + y - 1]
        <5>1. z \in 1 .. Len(output) /\ z >= to /\ z < to + len
              BY <3>1, <4>2, <4>3
        <5>2. from + (z - to) = from + y - 1
              BY <2>4, <4>1, <4>3
        <5>3. moved[z] = d.output[from + (z - to)]
              BY <1>a, <5>1
        <5> QED
            BY <5>2, <5>3
      <4>5. from + y - 1 \in from .. Len(output)
            BY <1>3, <4>2
      <4>6. d.output[from + y - 1] = output[from + y - 1]
            BY <4>5 DEF Sliced
      <4>7. r[x] = more[y]
            BY <2>1, <2>2, <3>3, <4>1
      <4> QED
          BY <1>19, <3>1, <4>2, <4>3, <4>4, <4>6, <4>7
    <3> QED
        BY <3>2, <3>3
  <2>6. Len(is) = l + len /\ Len(r) = l + len
        BY <1>20, <2>1, <2>2
  <2>7. is = r
        BY <1>20, <2>1, <2>5, <2>6, SeqEqual
  <2> QED
      BY <2>7 DEF r
<1>22. Says(e, N) = Says(d, N) \o Piece(output, from, len, t)
  <2>1. Timed(was \o more, t) = Timed(was, t) \o Timed(more, t)
        BY <1>18, <1>19, TimedConcat
  <2>2. Says(d, N) = Timed(was, t)
        BY <1>7 DEF Says, was, prev
  <2>3. Says(e, N) = Timed(is, t)
        BY <1>9, <1>10, <1>12 DEF Says, is
  <2> QED
      BY <1>21, <2>1, <2>2, <2>3 DEF Piece, more
<1>23. Said(d) = SaidBy(d, N - 1) \o Says(d, N)
  <2>1. N - 1 \in Nat /\ N - 1 + 1 <= Len(d.events)
        BY <1>1, <1>5 DEF N
  <2>2. SaidBy(d, N - 1 + 1) = SaidBy(d, N - 1) \o Says(d, N - 1 + 1)
        BY <1>4, <2>1, SaidNext
  <2> QED
      BY <1>5, <2>2 DEF Said, N
<1>24. Said(e) = SaidBy(e, N - 1) \o Says(e, N)
  <2>1. N - 1 \in Nat /\ N - 1 + 1 <= Len(e.events) /\ Len(e.events) = N
        BY <1>1, <1>5, <1>10, <1>12
  <2>2. SaidBy(e, N - 1 + 1) = SaidBy(e, N - 1) \o Says(e, N - 1 + 1)
        BY <1>12, <1>15, <2>1, SaidNext
  <2> QED
      BY <1>5, <2>1, <2>2 DEF Said
<1>25. Said(e) = Said(d) \o Piece(output, from, len, t)
  <2>1. N - 1 \in 0 .. Len(d.events)
        BY <1>1, <1>5 DEF N
  <2>2. SaidBy(d, N - 1) \in Seq(Marks)
        BY <1>4, <2>1, SaidSeqIs
  <2>3. Says(d, N) \in Seq(Marks)
        BY <1>4, <1>5, SaysType DEF N
  <2>4. Piece(output, from, len, t) \in Seq(Marks)
        BY <1>19, TimedIs DEF Piece, more
  <2>5. SaidBy(d, N - 1) \o (Says(d, N) \o Piece(output, from, len, t))
          = (SaidBy(d, N - 1) \o Says(d, N)) \o Piece(output, from, len, t)
        BY <2>2, <2>3, <2>4, MarksAssociate
  <2> QED
      BY <1>17, <1>22, <1>23, <1>24, <2>5
<1> QED
    BY <1>12, <1>14, <1>25

\* What add does, in either case.
Adds(d, output, t, from, len, e) ==
    /\ e \in Decoding /\ e.i = d.i /\ e.last = t
    /\ Sliced(e, output, from + len)
    /\ Said(e) = Said(d) \o Piece(output, from, len, t)

LEMMA AddIs ==
    ASSUME NEW d \in Decoding, NEW output \in Seq(Nat), NEW t \in Nat,
           NEW from \in Nat \ {0}, NEW len \in Nat, from + len <= Len(output) + 1,
           Sliced(d, output, from), d.last <= t,
           NEW e, e = add(d, t, from, len)
    PROVE  Adds(d, output, t, from, len, e)
<1>1. CASE d.events # <<>> /\ Last(d.events).time = t
      BY <1>1, AddsInPlace DEF Adds
<1>2. CASE ~(d.events # <<>> /\ Last(d.events).time = t)
      BY <1>2, AddsSlice DEF Adds
<1> QED
    BY <1>1, <1>2

---------------------------------------------------------------------------
(* Text and Write.                                                         *)

LEMMA SlicedOn ==
    ASSUME NEW d \in Decoding, NEW output \in Seq(Nat), NEW i \in Nat, NEW j \in Nat, i <= j,
           Sliced(d, output, i)
    PROVE  Sliced(d, output, j)
<1>1. Len(output) \in Nat
      BY LenProperties
<1>2. ASSUME NEW n \in 1 .. Len(d.events)
      PROVE  d.events[n].from + d.events[n].len <= j
  <2>1. d.events[n].from + d.events[n].len <= i
        BY DEF Sliced
  <2>2. d.events[n].from \in Nat /\ d.events[n].len \in Nat
        BY DecodingIs
  <2> QED
      BY <2>1, <2>2
<1>3. \A x \in j .. Len(output) : x \in i .. Len(output)
      BY <1>1
<1> QED
    BY <1>2, <1>3 DEF Sliced

\* Where decode goes on is of no account for what it has.
Same(d, e) ==
    /\ e \in Decoding /\ e.last = d.last /\ e.output = d.output /\ Said(e) = Said(d)
    /\ \A output, j : Sliced(d, output, j) => Sliced(e, output, j)

LEMMA GoesOn ==
    ASSUME NEW d \in Decoding, NEW i \in Nat \ {0}, NEW e, e = [d EXCEPT !.i = i]
    PROVE  Same(d, e) /\ e.i = i
<1>1. /\ e \in Decoding /\ e.i = i /\ e.last = d.last /\ e.output = d.output
      /\ e.events = d.events
      BY DEF Decoding
<1>2. \A output, j : Sliced(d, output, j) => Sliced(e, output, j)
      BY <1>1 DEF Sliced
<1>3. Said(e) = Said(d)
      BY <1>1 DEF Said, SaidBy, Message
<1> QED
    BY <1>1, <1>2, <1>3 DEF Same

LEMMA NextHeaderIs ==
    ASSUME NEW output \in Seq(Nat), NEW i \in Nat \ {0}, i <= Len(output),
           NEW j, j = NextHeader(output, i)
    PROVE  /\ j \in i .. Len(output) + 1
           /\ \A x \in i .. j - 1 : output[x] # Magic
           /\ j <= Len(output) => output[j] = Magic
<1> DEFINE at == {x \in i .. Len(output) : output[x] = Magic}
<1>1. Len(output) \in Nat
      BY LenProperties
<1>2. CASE at = {}
  <2>1. j = Len(output) + 1
        BY <1>2 DEF NextHeader
  <2>2. \A x \in i .. j - 1 : x \in i .. Len(output)
        BY <1>1, <2>1
  <2> QED
      BY <1>1, <1>2, <2>1, <2>2
<1>3. CASE at # {}
  <2>1. at \in SUBSET Nat
        BY <1>1
  <2>2. \E m \in at : \A n \in at : m <= n
        BY <1>3, <2>1, Least
  <2>3. j = CHOOSE m \in at : \A n \in at : m <= n
        BY <1>3 DEF NextHeader
  <2>4. j \in at /\ \A n \in at : j <= n
        BY <2>2, <2>3
  <2>5. j \in i .. Len(output) /\ output[j] = Magic
        BY <2>4
  <2>6. ASSUME NEW x \in i .. j - 1 PROVE output[x] # Magic
    <3>1. x \in i .. Len(output) /\ ~(j <= x)
          BY <1>1, <2>5
    <3> QED
        BY <2>4, <3>1
  <2>7. j \in i .. Len(output) + 1
        BY <1>1, <2>5
  <2> QED
      BY <2>5, <2>6, <2>7
<1> QED
    BY <1>2, <1>3

LEMMA SaidType ==
    ASSUME NEW d \in Decoding, Within(d) PROVE Said(d) \in Seq(Marks)
<1>1. Len(d.events) \in 0 .. Len(d.events)
      BY DecodingIs
<1> QED
    BY <1>1, SaidSeqIs DEF Said

\* What is read from a place is symbols.
LEMMA ReadType ==
    ASSUME NEW output \in Seq(Nat), NEW at \in 1 .. Len(output) + 1, NEW t \in Nat
    PROVE  Reading(output)[Cursor(at, 0, t)] \in Seq(Marks)
<1>1. 0 \in Nat
      OBVIOUS
<1>2. Cursor(at, 0, t) \in Cursors(output)
      BY <1>1, CursorIs
<1> QED
    BY <1>2, ReadingType

LEMMA TextIs ==
    ASSUME NEW d \in Decoding, NEW output \in Seq(Nat), d.i <= Len(output),
           Sliced(d, output, d.i), NEW e, e = Text(d)
    PROVE  /\ e \in Decoding /\ e.last = d.last /\ e.i \in d.i .. Len(output) + 1
           /\ Sliced(e, output, e.i)
           /\ e.i <= Len(output) => output[e.i] = Magic
           /\ Said(e) \o Reading(output)[Cursor(e.i, 0, d.last)]
                = Said(d) \o Reading(output)[Cursor(d.i, 0, d.last)]
<1>1. /\ d.output \in Seq(Nat) /\ d.i \in Nat \ {0} /\ d.last \in Nat
      /\ Len(output) \in Nat /\ Len(d.output) = Len(output)
      BY DecodingIs, LenProperties DEF Sliced
<1>2. PICK j : j = NextHeader(d.output, d.i)
      OBVIOUS
<1>a. d.i <= Len(d.output)
      BY <1>1
<1>3. /\ j \in d.i .. Len(d.output) + 1
      /\ \A x \in d.i .. j - 1 : d.output[x] # Magic
      /\ j <= Len(d.output) => d.output[j] = Magic
  <2>1. PICK w : w = d.output
        OBVIOUS
  <2>2. PICK i : i = d.i
        OBVIOUS
  <2>3. w \in Seq(Nat) /\ i \in Nat \ {0} /\ i <= Len(w) /\ j = NextHeader(w, i)
        BY <1>1, <1>a, <1>2, <2>1, <2>2
  <2>4. /\ j \in i .. Len(w) + 1 /\ (\A x \in i .. j - 1 : w[x] # Magic)
        /\ j <= Len(w) => w[j] = Magic
        BY <2>3, NextHeaderIs
  <2> QED
      BY <2>1, <2>2, <2>4
<1>4. j \in d.i .. Len(output) + 1
      BY <1>1, <1>3
<1>5. \A x \in d.i .. Len(output) : d.output[x] = output[x]
      BY DEF Sliced
<1>6. \A x \in d.i .. j - 1 : output[x] # Magic
  <2>1. \A x \in d.i .. j - 1 : x \in d.i .. Len(output)
        BY <1>1, <1>4
  <2> QED
      BY <1>3, <1>5, <2>1
<1>7. j <= Len(output) => output[j] = Magic
      BY <1>1, <1>3, <1>4, <1>5
<1>8. CASE j = d.i
  <2>1. e = d
        BY <1>2, <1>8 DEF Text
  <2> QED
      BY <1>1, <1>4, <1>7, <1>8, <2>1
<1>9. CASE j # d.i
  <2>1. PICK i : i = d.i
        OBVIOUS
  <2>2. PICK n : n = j - i
        OBVIOUS
  <2>3. PICK a : a = add(d, d.last, i, n)
        OBVIOUS
  <2>4. e = [a EXCEPT !.i = j]
        BY <1>2, <1>9, <2>1, <2>2, <2>3 DEF Text
  <2>5. /\ i \in Nat \ {0} /\ n \in Nat /\ i + n = j /\ i + n <= Len(output) + 1
        /\ j \in Nat \ {0} /\ i \in 1 .. Len(output) /\ j \in i .. Len(output) + 1
    <3>1. PICK l : l = Len(output)
          OBVIOUS
    <3>2. i \in Nat \ {0} /\ l \in Nat /\ i <= l /\ j \in i .. l + 1
          BY <1>1, <1>4, <2>1, <3>1
    <3>3. /\ n \in Nat /\ i + n = j /\ i + n <= l + 1
          /\ j \in Nat \ {0} /\ i \in 1 .. l
          BY <2>2, <3>2
    <3> QED
        BY <3>1, <3>2, <3>3
  <2>6. Sliced(d, output, i) /\ d.last <= d.last /\ d.last \in Nat
        BY <1>1, <2>1
  <2>7. /\ a \in Decoding /\ a.last = d.last /\ Sliced(a, output, j)
        /\ Said(a) = Said(d) \o Piece(output, i, n, d.last)
    <3>1. PICK t : t = d.last
          OBVIOUS
    <3>2. t \in Nat /\ d.last <= t /\ a = add(d, t, i, n)
          BY <2>3, <2>6, <3>1
    <3>3. /\ a \in Decoding /\ a.last = t /\ Sliced(a, output, i + n)
          /\ Said(a) = Said(d) \o Piece(output, i, n, t)
      <4>1. Adds(d, output, t, i, n, a)
            BY <2>5, <2>6, <3>2, AddIs
      <4> QED
          BY <4>1 DEF Adds
    <3> QED
        BY <2>5, <3>1, <3>3
  <2>8. /\ e \in Decoding /\ e.i = j /\ e.last = d.last /\ Sliced(e, output, j)
        /\ Said(e) = Said(d) \o Piece(output, i, n, d.last)
    <3>1. a \in Decoding /\ j \in Nat \ {0}
          BY <2>5, <2>7
    <3>2. Same(a, e) /\ e.i = j
          BY <2>4, <3>1, GoesOn
    <3> QED
        BY <2>7, <3>2 DEF Same
  <2>9. PICK t : t = d.last
        OBVIOUS
  <2>10. Reading(output)[Cursor(i, 0, t)]
           = Piece(output, i, n, t) \o Reading(output)[Cursor(j, 0, t)]
    <3>1. \A x \in i .. j - 1 : output[x] # Magic
          BY <1>6, <2>1
    <3>2. t \in Nat
          BY <1>1, <2>9
    <3>3. Reading(output)[Cursor(i, 0, t)]
            = Piece(output, i, j - i, t) \o Reading(output)[Cursor(j, 0, t)]
          BY <2>5, <3>1, <3>2, ReadsText
    <3> QED
        BY <2>2, <3>3
  <2>11. /\ Said(d) \in Seq(Marks) /\ Piece(output, i, n, t) \in Seq(Marks)
         /\ Reading(output)[Cursor(j, 0, t)] \in Seq(Marks)
    <3>1. t \in Nat /\ j \in 1 .. Len(output) + 1
          BY <1>1, <2>5, <2>9
    <3>2. Within(d)
          BY <1>1, <2>5, <2>6, SlicedWithin
    <3>3. SubSeq(output, i, i + n - 1) \in Seq(Nat)
          BY <2>5, PartIs
    <3>4. Piece(output, i, n, t) \in Seq(Marks)
          BY <3>1, <3>3, TimedIs DEF Piece
    <3> QED
        BY <3>1, <3>2, <3>4, SaidType, ReadType
  <2>12. (Said(d) \o Piece(output, i, n, t)) \o Reading(output)[Cursor(j, 0, t)]
           = Said(d) \o (Piece(output, i, n, t) \o Reading(output)[Cursor(j, 0, t)])
         BY <2>11, MarksAssociate
  <2> QED
      BY <1>4, <1>7, <2>1, <2>8, <2>9, <2>10, <2>12
<1> QED
    BY <1>8, <1>9

LEMMA WriteIs ==
    ASSUME NEW d \in Decoding, NEW output \in Seq(Nat), d.i <= Len(output),
           Sliced(d, output, d.i), output[d.i] = Magic, ~ShortHeader(d),
           NEW e, e = Write(d)
    PROVE  /\ e \in Decoding /\ Sliced(e, output, ReadTo(e))
           /\ ReadTo(e) \in 1 .. Len(output) + 1 /\ e.last \in Nat
           /\ Said(e) \o Reading(output)[Cursor(ReadTo(e), 0, e.last)]
                = Said(d) \o Reading(output)[Cursor(d.i, 0, d.last)]
<1>1. /\ d.output \in Seq(Nat) /\ d.i \in Nat \ {0} /\ d.last \in Nat
      /\ Len(output) \in Nat /\ Len(d.output) = Len(output)
      BY DecodingIs, LenProperties DEF Sliced
<1>2. PICK at : at = d.i
      OBVIOUS
<1>3. PICK i : i = at + 1 + HeaderLen
      OBVIOUS
<1>4. PICK t : t = Monotonic(output[at + 1], d.last)
      OBVIOUS
<1>5. PICK n : n = Available(i, output[at + 2], output)
      OBVIOUS
<1>6. PICK all : all = output[at + 2]
      OBVIOUS
<1>7. at \in 1 .. Len(output) /\ at + HeaderLen <= Len(output)
  <2>1. PICK l : l = Len(output)
        OBVIOUS
  <2>2. at \in Nat \ {0} /\ l \in Nat /\ at <= l /\ ~(l - at < 2)
        BY <1>1, <1>2, <2>1 DEF ShortHeader, HeaderLen
  <2>3. at \in 1 .. l /\ at + 2 <= l
        BY <2>2
  <2> QED
      BY <2>1, <2>3 DEF HeaderLen
<1>8. d.output[at + 1] = output[at + 1] /\ d.output[at + 2] = output[at + 2]
  <2>1. at + 1 \in at .. Len(output) /\ at + 2 \in at .. Len(output)
        BY <1>7 DEF HeaderLen
  <2> QED
      BY <1>2, <2>1 DEF Sliced
<1>9. PICK last : last = d.last
      OBVIOUS
<1>10. output[at] = Magic /\ last \in Nat /\ t = Monotonic(output[at + 1], last)
       BY <1>1, <1>2, <1>4, <1>9
<1>11. /\ i \in Nat \ {0} /\ t \in Nat /\ t >= last /\ n \in Nat
       /\ i + n = IF i + output[at + 2] > Len(output) THEN Len(output) + 1
                                                      ELSE i + output[at + 2]
       /\ Reading(output)[Cursor(at, 0, last)]
            = Piece(output, i, n, t) \o Reading(output)[Cursor(i + n, 0, t)]
  <2>1. WriteRead(output, at, last, i, t, n)
        BY <1>3, <1>5, <1>7, <1>10, ReadsWrite
  <2> QED
      BY <2>1 DEF WriteRead
<1>12. PICK a : a = add(d, t, i, n)
       OBVIOUS
<1>13. e = [a EXCEPT !.i = i + all]
  <2>1. Available(i, output[at + 2], d.output) = n
        BY <1>1, <1>5 DEF Available
  <2> QED
      BY <1>2, <1>3, <1>4, <1>6, <1>8, <1>12, <2>1 DEF Write
<1>14. all \in Nat
  <2>1. at + 2 \in 1 .. Len(output)
        BY <1>7 DEF HeaderLen
  <2> QED
      BY <1>6, <2>1, ElementOfSeq
<1>15. /\ i + n = (IF i + all > Len(output) THEN Len(output) + 1 ELSE i + all)
       /\ i + n <= Len(output) + 1 /\ i + n \in 1 .. Len(output) + 1
       /\ at <= i /\ i + all \in Nat \ {0}
  <2>1. i + n = IF i + all > Len(output) THEN Len(output) + 1 ELSE i + all
        BY <1>6, <1>11
  <2>2. i \in Nat \ {0} /\ n \in Nat
        BY <1>11
  <2>3. at <= i
        BY <1>3, <1>7 DEF HeaderLen
  <2>4. i + n <= Len(output) + 1
    <3>1. CASE i + all > Len(output)
          BY <1>1, <2>1, <3>1
    <3>2. CASE ~(i + all > Len(output))
      <4>1. i + n = i + all /\ i + all <= Len(output)
            BY <1>1, <1>14, <2>1, <2>2, <3>2
      <4> QED
          BY <1>1, <1>14, <2>2, <4>1
    <3> QED
        BY <3>1, <3>2
  <2> QED
      BY <1>1, <1>14, <2>1, <2>2, <2>3, <2>4
<1>16. Sliced(d, output, at) /\ Sliced(d, output, i)
  <2>1. Sliced(d, output, at)
        BY <1>2
  <2>2. at \in Nat /\ i \in Nat
        BY <1>7, <1>11
  <2> QED
      BY <1>15, <2>1, <2>2, SlicedOn
<1>17. /\ a \in Decoding /\ a.last = t /\ Sliced(a, output, i + n)
       /\ Said(a) = Said(d) \o Piece(output, i, n, t)
  <2>1. d.last <= t
        BY <1>1, <1>9, <1>11
  <2>2. Adds(d, output, t, i, n, a)
        BY <1>11, <1>12, <1>15, <1>16, <2>1, AddIs
  <2> QED
      BY <2>2 DEF Adds
<1>18. /\ e \in Decoding /\ e.i = i + all /\ e.last = t /\ Said(e) = Said(a)
       /\ e.output = a.output /\ Sliced(e, output, i + n)
  <2>1. PICK z : z = i + all
        OBVIOUS
  <2>2. z \in Nat \ {0} /\ e = [a EXCEPT !.i = z]
        BY <1>13, <1>15, <2>1
  <2>3. Same(a, e) /\ e.i = z
        BY <1>17, <2>2, GoesOn
  <2> QED
      BY <1>17, <2>1, <2>3 DEF Same
<1>19. ReadTo(e) = i + n
  <2>1. Len(e.output) = Len(output)
        BY <1>18 DEF Sliced
  <2> QED
      BY <1>15, <1>18, <2>1 DEF ReadTo
<1>20. Said(e) \o Reading(output)[Cursor(i + n, 0, t)]
         = Said(d) \o Reading(output)[Cursor(at, 0, last)]
  <2>1. PICK z : z = i + n
        OBVIOUS
  <2>2. /\ Said(d) \in Seq(Marks) /\ Piece(output, i, n, t) \in Seq(Marks)
        /\ Reading(output)[Cursor(z, 0, t)] \in Seq(Marks)
    <3>1. t \in Nat /\ z \in 1 .. Len(output) + 1
          BY <1>11, <1>15, <2>1
    <3>2. at \in Nat /\ at <= Len(output) + 1
          BY <1>1, <1>7
    <3>3. Within(d)
          BY <1>16, <3>2, SlicedWithin
    <3>4. SubSeq(output, i, i + n - 1) \in Seq(Nat)
          BY <1>11, <1>15, PartIs
    <3>5. Piece(output, i, n, t) \in Seq(Marks)
          BY <3>1, <3>4, TimedIs DEF Piece
    <3> QED
        BY <3>1, <3>3, <3>5, SaidType, ReadType
  <2>3. (Said(d) \o Piece(output, i, n, t)) \o Reading(output)[Cursor(z, 0, t)]
          = Said(d) \o (Piece(output, i, n, t) \o Reading(output)[Cursor(z, 0, t)])
        BY <2>2, MarksAssociate
  <2> QED
      BY <1>11, <1>17, <1>18, <2>1, <2>3
<1> QED
    BY <1>2, <1>9, <1>11, <1>15, <1>18, <1>19, <1>20

---------------------------------------------------------------------------
(* The invariant.                                                          *)

DecodeOf(k) ==
    /\ Sliced(dec[k], written[k], ReadTo(dec[k]))
    /\ Said(dec[k]) \o Reading(written[k])[Cursor(ReadTo(dec[k]), 0, dec[k].last)]
         = Meaning(written[k])

LEMMA DecodeIs ==
    DecodeInv => \A k \in Kinds :
      /\ written[k] \in Seq(Nat) /\ Len(written[k]) \in Nat
      /\ dec[k] \in Decoding /\ Len(dec[k].output) = Len(written[k])
      /\ ReadTo(dec[k]) \in 1 .. Len(written[k]) + 1
      /\ ReadTo(dec[k]) \in Nat /\ ReadTo(dec[k]) <= Len(written[k]) + 1
      /\ Within(dec[k]) /\ DecodeOf(k)
<1>1. SUFFICES ASSUME DecodeInv, NEW k \in Kinds
               PROVE  /\ written[k] \in Seq(Nat) /\ Len(written[k]) \in Nat
                      /\ dec[k] \in Decoding /\ Len(dec[k].output) = Len(written[k])
                      /\ ReadTo(dec[k]) \in 1 .. Len(written[k]) + 1
                      /\ ReadTo(dec[k]) \in Nat /\ ReadTo(dec[k]) <= Len(written[k]) + 1
                      /\ Within(dec[k]) /\ DecodeOf(k)
      OBVIOUS
<1>2. written[k] \in Seq(Nat) /\ dec[k] \in Decoding /\ DecodeOf(k)
      BY <1>1 DEF DecodeInv, DecodeOf
<1>3. Len(written[k]) \in Nat
      BY <1>2, LenProperties
<1>4. Len(dec[k].output) = Len(written[k])
      BY <1>2 DEF DecodeOf, Sliced
<1>5. dec[k].i \in Nat \ {0}
      BY <1>2, DecodingIs
<1>6. /\ ReadTo(dec[k]) \in 1 .. Len(written[k]) + 1
      /\ ReadTo(dec[k]) \in Nat /\ ReadTo(dec[k]) <= Len(written[k]) + 1
      BY <1>3, <1>4, <1>5 DEF ReadTo
<1>7. Within(dec[k])
      BY <1>2, <1>6, SlicedWithin DEF DecodeOf
<1> QED
    BY <1>2, <1>3, <1>4, <1>6, <1>7

\* One kind of decode's state changes, and has what it must.
LEMMA DecodeKept ==
    ASSUME DecodeInv, NEW k \in Kinds, NEW d \in Decoding, dec' = [dec EXCEPT ![k] = d],
           UNCHANGED written,
           Sliced(d, written[k], ReadTo(d)),
           Said(d) \o Reading(written[k])[Cursor(ReadTo(d), 0, d.last)] = Meaning(written[k])
    PROVE  DecodeInv'
<1>1. dec \in [Kinds -> Decoding] /\ written' = written /\ written \in [Kinds -> Seq(Nat)]
      BY DEF DecodeInv
<1>2. dec'[k] = d /\ \A j \in Kinds : j # k => dec'[j] = dec[j]
      BY <1>1
<1>3. dec' \in [Kinds -> Decoding]
      BY <1>1
<1>4. \A j \in Kinds : DecodeOf(j)
      BY DEF DecodeInv, DecodeOf
<1>5. ASSUME NEW j \in Kinds PROVE DecodeOf(j)'
  <2>1. CASE j = k
        BY <1>1, <1>2, <2>1 DEF DecodeOf
  <2>2. CASE j # k
    <3>1. dec'[j] = dec[j]
          BY <1>2, <2>2
    <3> QED
        BY <1>1, <1>4, <3>1 DEF DecodeOf
  <2> QED
      BY <2>1, <2>2
<1> QED
    BY <1>1, <1>3, <1>5 DEF DecodeInv, DecodeOf

\* Before merging nothing is taken, and nothing is played.
Unmerged == sent = [k \in Kinds |-> 0] /\ now = 0 /\ out = <<>>

LEMMA NothingMerged == DecodeInv /\ Unmerged => MergeInv
<1>1. SUFFICES ASSUME DecodeInv, sent = [k \in Kinds |-> 0], now = 0, out = <<>>
               PROVE  MergeInv
      BY DEF Unmerged
<1>2. out \in Seq(Events) /\ Len(out) = 0
      BY <1>1, EmptySeq
<1>3. now = Clock(out)[Len(out)]
      BY <1>1, <1>2, ClockStarts
<1>4. ASSUME NEW k \in Kinds
      PROVE  /\ sent[k] <= Len(dec[k].events)
             /\ \A n \in sent[k] + 1 .. Len(dec[k].events) : now <= dec[k].events[n].time
             /\ Played(out, k) = SaidBy(dec[k], sent[k])
  <2>1. sent[k] = 0
        BY <1>1
  <2>2. dec[k] \in Decoding /\ Within(dec[k])
        BY <1>1, DecodeIs
  <2>3. Len(dec[k].events) \in Nat
        BY <2>2, DecodingIs
  <2>4. \A n \in 1 .. Len(dec[k].events) : dec[k].events[n].time \in Nat
        BY <2>2, DecodingIs
  <2>5. \A n \in sent[k] + 1 .. Len(dec[k].events) : now <= dec[k].events[n].time
    <3>1. SUFFICES ASSUME NEW n \in 1 .. Len(dec[k].events)
                   PROVE  0 <= dec[k].events[n].time
          BY <1>1, <2>1
    <3> QED
        BY <2>4
  <2>6. Played(out, k) = <<>> /\ SaidBy(dec[k], 0) = <<>>
        BY <1>1, <2>2, PlayedNothing, SaidNothing
  <2> QED
      BY <2>1, <2>3, <2>5, <2>6
<1>5. sent \in [Kinds -> Nat] /\ now \in Nat
      BY <1>1
<1> QED
    BY <1>2, <1>3, <1>4, <1>5 DEF MergeInv

LEMMA InitIInv == Init => IInv
<1>1. SUFFICES ASSUME Init PROVE IInv
      OBVIOUS
<1>2. written \in [Kinds -> Seq(Nat)]
      BY <1>1, RecorderAssumption DEF Init
<1>3. ASSUME NEW k \in Kinds PROVE dec[k] \in Decoding /\ DecodeOf(k)
  <2>1. PICK d : d = dec[k]
        OBVIOUS
  <2>2. PICK w : w = written[k]
        OBVIOUS
  <2>3. d = NewDecode(w) /\ w \in Seq(Nat) /\ Len(w) \in Nat
        BY <1>1, <1>2, <2>1, <2>2, LenProperties DEF Init
  <2>4. <<>> \in Seq(Slices) /\ Len(<<>>) = 0
        BY EmptySeq
  <2>5. /\ d \in Decoding /\ d.output = w /\ d.i = 1 /\ d.events = <<>> /\ d.last = 0
        BY <2>3, <2>4 DEF NewDecode, Decoding
  <2>6. ReadTo(d) = 1
        BY <2>3, <2>5 DEF ReadTo
  <2>7. Sliced(d, w, 1)
        BY <2>4, <2>5 DEF Sliced
  <2>8. Within(d)
        BY <2>4, <2>5 DEF Within
  <2>9. Said(d) = <<>>
        BY <2>4, <2>5, <2>8, SaidNothing DEF Said
  <2>10. Reading(w)[Cursor(1, 0, 0)] \in Seq(Marks)
    <3>1. 1 \in 1 .. Len(w) + 1 /\ 0 \in Nat
          BY <2>3
    <3> QED
        BY <2>3, <3>1, ReadType
  <2>11. Said(d) \o Reading(w)[Cursor(1, 0, 0)] = Meaning(w)
         BY <2>9, <2>10, ConcatEmptySeq DEF Meaning
  <2> QED
      BY <2>1, <2>2, <2>5, <2>6, <2>7, <2>11 DEF DecodeOf
<1>4. DecodeInv
  <2>1. dec \in [Kinds -> Decoding]
        BY <1>1, <1>3 DEF Init
  <2> QED
      BY <1>2, <1>3, <2>1 DEF DecodeInv, DecodeOf
<1>5. MergeInv
      BY <1>1, <1>4, NothingMerged DEF Init, Unmerged
<1>6. PlaceInv
  <2>1. pc = "stdout" /\ sent = [k \in Kinds |-> 0] /\ now = 0 /\ out = <<>>
        BY <1>1 DEF Init
  <2> QED
      BY <2>1 DEF PlaceInv, Kinds
<1> QED
    BY <1>4, <1>5, <1>6 DEF IInv

\* What one turn of decode's loop has to keep.
LEMMA TurnKeeps ==
    ASSUME IInv, NEW k \in Kinds, pc = k, NEW d \in Decoding, dec' = [dec EXCEPT ![k] = d],
           UNCHANGED <<written, pc, merging>>,
           Sliced(d, written[k], ReadTo(d)),
           Said(d) \o Reading(written[k])[Cursor(ReadTo(d), 0, d.last)] = Meaning(written[k])
    PROVE  IInv'
<1>1. DecodeInv'
      BY DecodeKept DEF IInv
<1>2. /\ pc' = pc /\ written' = written /\ sent' = sent /\ now' = now /\ out' = out
      BY DEF merging
<1>3. sent' = [j \in Kinds |-> 0] /\ now' = 0 /\ out' = <<>>
      BY <1>2 DEF IInv, PlaceInv
<1>4. MergeInv'
  <2>1. Unmerged'
        BY <1>3 DEF Unmerged
  <2> QED
      BY <1>1, <2>1, NothingMerged, PTL
<1>5. dec \in [Kinds -> Decoding]
      BY DEF IInv, DecodeInv
<1>6. \A j \in Kinds : j # k => dec'[j] = dec[j]
      BY <1>5
<1>7. PlaceInv'
      BY <1>2, <1>3, <1>6 DEF IInv, PlaceInv, Kinds
<1> QED
    BY <1>1, <1>4, <1>7 DEF IInv

LEMMA DecodeTextKeeps == ASSUME IInv, NEW k \in Kinds, DecodeText(k) PROVE IInv'
<1>1. PICK w : w = written[k]
      OBVIOUS
<1>2. PICK d : d = Text(dec[k])
      OBVIOUS
<1>3. /\ pc = k /\ dec[k].i <= Len(dec[k].output) /\ d.i > Len(d.output)
      /\ dec' = [dec EXCEPT ![k] = d] /\ UNCHANGED <<written, pc, merging>>
      BY <1>2 DEF DecodeText, More
<1>4. /\ w \in Seq(Nat) /\ Len(w) \in Nat /\ dec[k] \in Decoding
      /\ Len(dec[k].output) = Len(w) /\ DecodeOf(k)
      BY <1>1, DecodeIs DEF IInv
<1>5. dec[k].i \in Nat /\ ReadTo(dec[k]) = dec[k].i
      BY <1>3, <1>4, DecodingIs DEF ReadTo
<1>6. Sliced(dec[k], w, dec[k].i) /\ dec[k].i <= Len(w)
      BY <1>1, <1>3, <1>4, <1>5 DEF DecodeOf
<1>7. /\ d \in Decoding /\ d.last = dec[k].last /\ d.i \in dec[k].i .. Len(w) + 1
      /\ Sliced(d, w, d.i)
      /\ Said(d) \o Reading(w)[Cursor(d.i, 0, dec[k].last)]
           = Said(dec[k]) \o Reading(w)[Cursor(dec[k].i, 0, dec[k].last)]
      BY <1>2, <1>4, <1>6, TextIs
<1>8. ReadTo(d) = d.i
  <2>1. Len(d.output) = Len(w)
        BY <1>7 DEF Sliced
  <2>2. d.i = Len(w) + 1
        BY <1>3, <1>4, <1>5, <1>7, <2>1
  <2> QED
      BY <1>3, <2>1, <2>2 DEF ReadTo
<1>9. Said(d) \o Reading(w)[Cursor(ReadTo(d), 0, d.last)] = Meaning(w)
      BY <1>1, <1>4, <1>5, <1>7, <1>8 DEF DecodeOf
<1> QED
    BY <1>1, <1>3, <1>7, <1>8, <1>9, TurnKeeps

LEMMA DecodeWriteKeeps == ASSUME IInv, NEW k \in Kinds, DecodeWrite(k) PROVE IInv'
<1>1. PICK w : w = written[k]
      OBVIOUS
<1>2. PICK d : d = Text(dec[k])
      OBVIOUS
<1>a. PICK e : e = Write(d)
      OBVIOUS
<1>3. /\ pc = k /\ dec[k].i <= Len(dec[k].output) /\ d.i <= Len(d.output)
      /\ ~ShortHeader(d)
      /\ dec' = [dec EXCEPT ![k] = e] /\ UNCHANGED <<written, pc, merging>>
      BY <1>2, <1>a DEF DecodeWrite, More
<1>4. /\ w \in Seq(Nat) /\ Len(w) \in Nat /\ dec[k] \in Decoding
      /\ Len(dec[k].output) = Len(w) /\ DecodeOf(k)
      BY <1>1, DecodeIs DEF IInv
<1>5. dec[k].i \in Nat /\ ReadTo(dec[k]) = dec[k].i
      BY <1>3, <1>4, DecodingIs DEF ReadTo
<1>6. Sliced(dec[k], w, dec[k].i) /\ dec[k].i <= Len(w)
      BY <1>1, <1>3, <1>4, <1>5 DEF DecodeOf
<1>7. /\ d \in Decoding /\ d.last = dec[k].last /\ Sliced(d, w, d.i)
      /\ d.i <= Len(w) => w[d.i] = Magic
      /\ Said(d) \o Reading(w)[Cursor(d.i, 0, dec[k].last)]
           = Said(dec[k]) \o Reading(w)[Cursor(dec[k].i, 0, dec[k].last)]
      BY <1>2, <1>4, <1>6, TextIs
<1>8. d.i <= Len(w)
      BY <1>3, <1>7 DEF Sliced
<1>9. /\ e \in Decoding /\ Sliced(e, w, ReadTo(e))
      /\ Said(e) \o Reading(w)[Cursor(ReadTo(e), 0, e.last)]
           = Said(d) \o Reading(w)[Cursor(d.i, 0, d.last)]
      BY <1>a, <1>3, <1>4, <1>7, <1>8, WriteIs
<1>10. Said(e) \o Reading(w)[Cursor(ReadTo(e), 0, e.last)] = Meaning(w)
       BY <1>1, <1>4, <1>5, <1>7, <1>9 DEF DecodeOf
<1> QED
    BY <1>1, <1>3, <1>9, <1>10, TurnKeeps

\* What is at the end of a longer sequence.
LEMMA EndsWith ==
    ASSUME NEW S, NEW s \in Seq(S), NEW x \in S, NEW t, t = s \o <<x>>
    PROVE  t # <<>> /\ Last(t) = x
<1>1. <<x>> \in Seq(S) /\ Len(<<x>>) = 1 /\ <<x>>[1] = x
      OBVIOUS
<1>2. PICK o : o = <<x>>
      OBVIOUS
<1>3. o \in Seq(S) /\ Len(o) = 1 /\ o[1] = x /\ t = s \o o
      BY <1>1, <1>2
<1>4. PICK n : n = Len(s)
      OBVIOUS
<1>5. n \in Nat
      BY <1>4, LenProperties
<1>6. /\ t \in Seq(S) /\ Len(t) = n + 1
      /\ \A i \in 1 .. n + 1 : t[i] = IF i <= n THEN s[i] ELSE o[i - n]
      BY <1>3, <1>4, ConcatProperties
<1>7. n + 1 \in 1 .. n + 1 /\ ~(n + 1 <= n) /\ n + 1 - n = 1 /\ n + 1 # 0
      BY <1>5
<1>8. t[n + 1] = x
      BY <1>3, <1>6, <1>7
<1>9. t # <<>>
      BY <1>6, <1>7, EmptySeq
<1> QED
    BY <1>6, <1>8, <1>9 DEF Last

LEMMA DecodeFailsKeeps == ASSUME IInv, NEW k \in Kinds, DecodeFails(k) PROVE IInv'
<1>1. PICK w : w = written[k]
      OBVIOUS
<1>2. PICK d : d = Text(dec[k])
      OBVIOUS
<1>3. /\ dec[k].i <= Len(dec[k].output) /\ d.i <= Len(d.output)
      /\ ShortHeader(d) /\ pc' = "failed" /\ UNCHANGED <<written, dec, merging>>
      BY <1>2 DEF DecodeFails, More
<1>4. /\ w \in Seq(Nat) /\ Len(w) \in Nat /\ dec[k] \in Decoding
      /\ Len(dec[k].output) = Len(w) /\ DecodeOf(k)
      BY <1>1, DecodeIs DEF IInv
<1>5. dec[k].i \in Nat /\ ReadTo(dec[k]) = dec[k].i
      BY <1>3, <1>4, DecodingIs DEF ReadTo
<1>6. Sliced(dec[k], w, dec[k].i) /\ dec[k].i <= Len(w)
      BY <1>1, <1>3, <1>4, <1>5 DEF DecodeOf
<1>7. /\ d \in Decoding /\ d.last = dec[k].last /\ Sliced(d, w, d.i)
      /\ d.i <= Len(w) => w[d.i] = Magic
      /\ Said(d) \o Reading(w)[Cursor(d.i, 0, dec[k].last)]
           = Said(dec[k]) \o Reading(w)[Cursor(dec[k].i, 0, dec[k].last)]
      BY <1>2, <1>4, <1>6, TextIs
<1>8. PICK at : at = d.i
      OBVIOUS
<1>9. PICK t : t = d.last
      OBVIOUS
<1>10. /\ at \in 1 .. Len(w) /\ t \in Nat /\ w[at] = Magic
       /\ at + HeaderLen > Len(w) /\ at \in Nat /\ at <= Len(w) + 1
  <2>1. at \in Nat \ {0} /\ t \in Nat
        BY <1>7, <1>8, <1>9, DecodingIs
  <2>2. Len(d.output) = Len(w)
        BY <1>7 DEF Sliced
  <2>3. at <= Len(w) /\ Len(w) - at < HeaderLen
        BY <1>3, <1>8, <2>2 DEF ShortHeader
  <2>4. at + HeaderLen > Len(w)
        BY <1>4, <2>1, <2>3 DEF HeaderLen
  <2> QED
      BY <1>4, <1>7, <1>8, <2>1, <2>3, <2>4
<1>11. Reading(w)[Cursor(at, 0, t)] = << <<Magic, -1>> >>
       BY <1>4, <1>10, ReadsShort
<1>12. Said(d) \o Reading(w)[Cursor(at, 0, t)] = Meaning(w)
       BY <1>1, <1>4, <1>5, <1>7, <1>8, <1>9 DEF DecodeOf
<1>13. Said(d) \in Seq(Marks)
  <2>1. Sliced(d, w, at)
        BY <1>7, <1>8
  <2>2. Within(d)
        BY <1>4, <1>7, <1>10, <2>1, SlicedWithin
  <2> QED
      BY <1>7, <2>2, SaidType
<1>14. PICK x : x = <<Magic, -1>>
       OBVIOUS
<1>15. x \in Marks /\ x[2] = -1
       BY <1>14, RecorderAssumption DEF Marks
<1>16. Meaning(w) # <<>> /\ Last(Meaning(w)) = x
  <2>1. Meaning(w) = Said(d) \o <<x>>
        BY <1>11, <1>12, <1>14
  <2> QED
      BY <1>13, <1>15, <2>1, EndsWith
<1>17. CutOff(written[k])
       BY <1>1, <1>15, <1>16 DEF CutOff
<1>18. /\ pc' = "failed" /\ written' = written /\ dec' = dec /\ sent' = sent
       /\ now' = now /\ out' = out
       BY <1>3 DEF merging
<1>19. DecodeInv' /\ MergeInv'
       BY <1>18 DEF IInv, DecodeInv, MergeInv
<1>20. PlaceInv'
       BY <1>17, <1>18 DEF PlaceInv, Kinds
<1> QED
    BY <1>19, <1>20 DEF IInv

LEMMA DecodedKeeps == ASSUME IInv, NEW k \in Kinds, Decoded(k) PROVE IInv'
<1>1. /\ pc = k /\ ~(dec[k].i <= Len(dec[k].output))
      /\ pc' = (IF k = "stdout" THEN "stderr" ELSE "merge")
      /\ UNCHANGED <<written, dec, merging>>
      BY DEF Decoded, More
<1>2. dec[k] \in Decoding
      BY DecodeIs DEF IInv
<1>3. dec[k].i > Len(dec[k].output)
      BY <1>1, <1>2, DecodingIs
<1>4. /\ written' = written /\ dec' = dec /\ sent' = sent /\ now' = now /\ out' = out
      BY <1>1 DEF merging
<1>5. DecodeInv' /\ MergeInv'
      BY <1>4 DEF IInv, DecodeInv, MergeInv
<1>6. PlaceInv'
      BY <1>1, <1>3, <1>4 DEF IInv, PlaceInv, Kinds
<1> QED
    BY <1>5, <1>6 DEF IInv

\* The events of a kind that are left are not before the earliest.
LEMMA EarliestIs ==
    ASSUME DecodeInv, MergeInv, \E k \in Kinds : Left(k) > 0, NEW k, k = Earliest
    PROVE  /\ k \in Kinds /\ Left(k) > 0
           /\ \A j \in Kinds : Left(j) > 0 => First(k).time <= First(j).time
<1>1. /\ Left("stdout") \in Nat /\ Left("stderr") \in Nat
      /\ Left("stdout") > 0 => First("stdout").time \in Nat
      /\ Left("stderr") > 0 => First("stderr").time \in Nat
  <2>1. SUFFICES ASSUME NEW j \in Kinds
                 PROVE  Left(j) \in Nat /\ (Left(j) > 0 => First(j).time \in Nat)
        BY DEF Kinds
  <2>2. dec[j] \in Decoding
        BY DecodeIs
  <2>3. Len(dec[j].events) \in Nat
        BY <2>2, DecodingIs
  <2>4. sent[j] \in Nat /\ sent[j] <= Len(dec[j].events)
        BY DEF MergeInv
  <2>5. Left(j) \in Nat
        BY <2>3, <2>4 DEF Left
  <2>6. ASSUME Left(j) > 0 PROVE First(j).time \in Nat
    <3>1. sent[j] + 1 \in 1 .. Len(dec[j].events)
          BY <2>3, <2>4, <2>6 DEF Left
    <3> QED
        BY <2>2, <3>1, DecodingIs DEF First
  <2> QED
      BY <2>5, <2>6
<1>2. Left("stdout") > 0 \/ Left("stderr") > 0
      BY DEF Kinds
<1>3. CASE Left("stderr") = 0
  <2>1. k = "stdout" /\ Left("stdout") > 0
        BY <1>2, <1>3 DEF Earliest
  <2> QED
      BY <1>1, <1>3, <2>1 DEF Kinds
<1>4. CASE Left("stdout") > 0 /\ First("stdout").time < First("stderr").time
  <2>1. k = "stdout"
        BY <1>4 DEF Earliest
  <2> QED
      BY <1>1, <1>4, <2>1 DEF Kinds
<1>5. CASE /\ Left("stderr") # 0
           /\ ~(Left("stdout") > 0 /\ First("stdout").time < First("stderr").time)
  <2>1. k = "stderr" /\ Left("stderr") > 0
        BY <1>1, <1>5 DEF Earliest
  <2> QED
      BY <1>1, <1>5, <2>1 DEF Kinds
<1> QED
    BY <1>3, <1>4, <1>5

LEMMA EmitKeeps == ASSUME IInv, Emit PROVE IInv'
<1>1. PICK k : k = Earliest
      OBVIOUS
<1>2. PICK e : e = First(k)
      OBVIOUS
<1>3. PICK x : x = [message |-> Message(dec[k], e), kind |-> k, delay |-> Delay(e)]
      OBVIOUS
<1>4. /\ pc = "merge" /\ (\E j \in Kinds : Left(j) > 0)
      /\ out' = Append(out, x) /\ now' = (IF Delay(e) > 0 THEN e.time ELSE now)
      /\ sent' = [sent EXCEPT ![k] = @ + 1]
      /\ written' = written /\ pc' = pc /\ dec' = dec
      BY <1>1, <1>2, <1>3 DEF Emit
<1>5. DecodeInv /\ MergeInv /\ PlaceInv
      BY DEF IInv
<1>6. /\ k \in Kinds /\ Left(k) > 0
      /\ \A j \in Kinds : Left(j) > 0 => First(k).time <= First(j).time
      BY <1>1, <1>4, <1>5, EarliestIs
<1>7. ASSUME NEW j \in Kinds
      PROVE  /\ sent[j] \in Nat /\ Len(dec[j].events) \in Nat
             /\ sent[j] <= Len(dec[j].events)
             /\ dec[j] \in Decoding /\ Within(dec[j]) /\ DecodeOf(j)
             /\ Left(j) = Len(dec[j].events) - sent[j]
             /\ \A n \in 1 .. Len(dec[j].events) : dec[j].events[n].time \in Nat
             /\ Played(out, j) = SaidBy(dec[j], sent[j])
  <2>1. dec[j] \in Decoding /\ Within(dec[j]) /\ DecodeOf(j)
        BY <1>5, DecodeIs
  <2> QED
      BY <1>5, <2>1, DecodingIs DEF MergeInv, Left
<1>8. PICK N : N = sent[k] + 1
      OBVIOUS
<1>9. /\ N \in 1 .. Len(dec[k].events) /\ N <= Len(dec[k].events)
      /\ e = dec[k].events[N] /\ sent[k] \in Nat
      BY <1>2, <1>6, <1>7, <1>8 DEF First
<1>10. e \in Slices /\ e.time \in Nat /\ now \in Nat /\ now <= e.time
  <2>1. e \in Slices /\ e.time \in Nat
        BY <1>6, <1>7, <1>9, DecodingIs
  <2>2. N \in sent[k] + 1 .. Len(dec[k].events)
        BY <1>6, <1>7, <1>8, <1>9
  <2> QED
      BY <1>5, <1>6, <1>9, <2>1, <2>2 DEF MergeInv
<1>11. Delay(e) \in Nat /\ now + Delay(e) = e.time /\ now' = e.time
       BY <1>4, <1>10 DEF Delay
<1>12. x \in Events /\ x.kind = k /\ x.delay = Delay(e) /\ x.message = Message(dec[k], e)
  <2>1. End(e) <= Len(dec[k].output) + 1
        BY <1>6, <1>7, <1>9 DEF Within
  <2>2. Message(dec[k], e) \in Seq(Nat)
        BY <1>6, <1>7, <1>10, <2>1, MessageIs
  <2> QED
      BY <1>3, <1>6, <1>11, <2>2 DEF Events
<1>13. out \in Seq(Events) /\ Clock(out)[Len(out)] = now
       BY <1>5 DEF MergeInv
<1>14. /\ out' \in Seq(Events) /\ Len(out') = Len(out) + 1
       /\ Clock(out')[Len(out) + 1] = now + Delay(e)
       BY <1>4, <1>12, <1>13, AppendProperties, ClockAppend
<1>15. /\ sent' \in [Kinds -> Nat] /\ sent'[k] = N
       /\ \A j \in Kinds : j # k => sent'[j] = sent[j]
  <2>1. sent \in [Kinds -> Nat]
        BY <1>5 DEF MergeInv
  <2> QED
      BY <1>4, <1>6, <1>8, <2>1
<1>16. ASSUME NEW j \in Kinds, NEW n \in sent'[j] + 1 .. Len(dec[j].events)
       PROVE  e.time <= dec[j].events[n].time
  <2>1. CASE j = k
    <3>1. n \in N + 1 .. Len(dec[k].events)
          BY <1>15, <1>16, <2>1
    <3>2. e.time < dec[k].events[n].time
          BY <1>6, <1>7, <1>9, <3>1 DEF DecodeOf, Sliced
    <3>3. n \in 1 .. Len(dec[k].events)
          BY <1>6, <1>7, <1>9, <3>1
    <3>4. dec[k].events[n].time \in Nat
          BY <1>6, <1>7, <3>3
    <3> QED
        BY <1>10, <2>1, <3>2, <3>4
  <2>2. CASE j # k
    <3>1. PICK f : f = sent[j] + 1
          OBVIOUS
    <3>2. n \in f .. Len(dec[j].events)
          BY <1>15, <1>16, <2>2, <3>1
    <3>3. f \in 1 .. Len(dec[j].events) /\ n \in 1 .. Len(dec[j].events) /\ Left(j) > 0
          BY <1>7, <1>16, <3>1, <3>2
    <3>4. e.time <= dec[j].events[f].time
          BY <1>2, <1>6, <1>16, <3>1, <3>3 DEF First
    <3>5. dec[j].events[f].time \in Nat /\ dec[j].events[n].time \in Nat
          BY <1>7, <1>16, <3>3
    <3>6. dec[j].events[f].time <= dec[j].events[n].time
      <4>1. CASE n = f
            BY <3>5, <4>1
      <4>2. CASE n # f
        <5>1. n \in f + 1 .. Len(dec[j].events)
              BY <3>2, <3>3, <4>2
        <5>2. dec[j].events[f].time < dec[j].events[n].time
              BY <1>7, <1>16, <3>3, <5>1 DEF DecodeOf, Sliced
        <5> QED
            BY <3>5, <5>2
      <4> QED
          BY <4>1, <4>2
    <3> QED
        BY <1>10, <3>4, <3>5, <3>6
  <2> QED
      BY <2>1, <2>2
<1>17. ASSUME NEW j \in Kinds PROVE Played(out', j) = SaidBy(dec[j], sent'[j])
  <2>1. PICK t : t = Clock(out)[Len(out)] + x.delay
        OBVIOUS
  <2>2. /\ Played(out, j) \in Seq(Marks)
        /\ Played(out', j) = Played(out, j) \o Shows(x, j, t)
        BY <1>4, <1>12, <1>13, <2>1, PlayedAppend
  <2>3. t = e.time
        BY <1>11, <1>12, <1>13, <2>1
  <2>4. CASE j = k
    <3>1. Shows(x, j, t) = Says(dec[k], N)
          BY <1>9, <1>12, <2>3, <2>4 DEF Shows, Says
    <3>2. SaidBy(dec[k], N) = SaidBy(dec[k], sent[k]) \o Says(dec[k], N)
      <4>1. dec[k] \in Decoding /\ Within(dec[k]) /\ sent[k] + 1 <= Len(dec[k].events)
            BY <1>6, <1>7, <1>8, <1>9
      <4>2. SaidBy(dec[k], sent[k] + 1)
              = SaidBy(dec[k], sent[k]) \o Says(dec[k], sent[k] + 1)
            BY <1>9, <4>1, SaidNext
      <4> QED
          BY <1>8, <4>2
    <3> QED
        BY <1>6, <1>7, <1>15, <2>2, <2>4, <3>1, <3>2
  <2>5. CASE j # k
    <3>1. Shows(x, j, t) = <<>>
          BY <1>12, <2>5 DEF Shows
    <3>2. Played(out', j) = Played(out, j)
          BY <2>2, <3>1, ConcatEmptySeq
    <3> QED
        BY <1>7, <1>15, <1>17, <2>5, <3>2
  <2> QED
      BY <2>4, <2>5
<1>18. \A j \in Kinds : sent'[j] <= Len(dec[j].events)
       BY <1>7, <1>9, <1>15
<1>19. MergeInv'
  <2>1. now' \in Nat /\ now' = Clock(out')[Len(out')]
        BY <1>10, <1>11, <1>14
  <2> QED
      BY <1>4, <1>11, <1>14, <1>15, <1>16, <1>17, <1>18, <2>1 DEF MergeInv
<1>20. DecodeInv'
       BY <1>4, <1>5 DEF DecodeInv
<1>21. PlaceInv'
       BY <1>4, <1>5 DEF PlaceInv, Kinds
<1> QED
    BY <1>19, <1>20, <1>21 DEF IInv

LEMMA EmittedKeeps == ASSUME IInv, Emitted PROVE IInv'
<1>1. /\ pc = "merge" /\ (\A k \in Kinds : Left(k) = 0) /\ pc' = "done"
      /\ UNCHANGED <<written, dec, merging>>
      BY DEF Emitted
<1>2. /\ written' = written /\ dec' = dec /\ sent' = sent /\ now' = now /\ out' = out
      BY <1>1 DEF merging
<1>3. DecodeInv' /\ MergeInv'
      BY <1>2 DEF IInv, DecodeInv, MergeInv
<1>4. PlaceInv'
      BY <1>1, <1>2 DEF IInv, PlaceInv, Kinds, Left
<1> QED
    BY <1>3, <1>4 DEF IInv

LEMMA NextKeeps == IInv /\ [Next]_vars => IInv'
<1>1. SUFFICES ASSUME IInv, [Next]_vars PROVE IInv'
      OBVIOUS
<1>2. ASSUME NEW k \in Kinds, DecodeText(k) PROVE IInv'
      BY <1>1, <1>2, DecodeTextKeeps
<1>3. ASSUME NEW k \in Kinds, DecodeWrite(k) PROVE IInv'
      BY <1>1, <1>3, DecodeWriteKeeps
<1>4. ASSUME NEW k \in Kinds, DecodeFails(k) PROVE IInv'
      BY <1>1, <1>4, DecodeFailsKeeps
<1>5. ASSUME NEW k \in Kinds, Decoded(k) PROVE IInv'
      BY <1>1, <1>5, DecodedKeeps
<1>6. ASSUME Emit PROVE IInv'
      BY <1>1, <1>6, EmitKeeps
<1>7. ASSUME Emitted PROVE IInv'
      BY <1>1, <1>7, EmittedKeeps
<1>8. ASSUME UNCHANGED vars PROVE IInv'
      BY <1>1, <1>8 DEF vars, merging, IInv, DecodeInv, MergeInv, PlaceInv, Left
<1> QED
    BY <1>1, <1>2, <1>3, <1>4, <1>5, <1>6, <1>7, <1>8 DEF Next

LEMMA Inductive == Spec => []IInv
BY InitIInv, NextKeeps, PTL DEF Spec

---------------------------------------------------------------------------
(* What follows from it.                                                   *)

LEMMA IInvType == IInv => TypeOK
<1>1. SUFFICES ASSUME IInv PROVE TypeOK
      OBVIOUS
<1>2. DecodeInv /\ MergeInv /\ PlaceInv
      BY <1>1 DEF IInv
<1>3. ASSUME NEW k \in Kinds
      PROVE  /\ Len(dec[k].output) = Len(written[k])
             /\ \A n \in DOMAIN dec[k].events :
                  dec[k].events[n].from + dec[k].events[n].len <= Len(written[k]) + 1
             /\ sent[k] <= Len(dec[k].events)
  <2>1. dec[k] \in Decoding /\ Len(dec[k].output) = Len(written[k]) /\ Within(dec[k])
        BY <1>2, DecodeIs
  <2>2. DOMAIN dec[k].events = 1 .. Len(dec[k].events)
        BY <2>1, DecodingIs, LenProperties
  <2>3. sent[k] <= Len(dec[k].events)
        BY <1>2 DEF MergeInv
  <2> QED
      BY <2>1, <2>2, <2>3 DEF Within, End
<1>4. written \in [Kinds -> Seq(Nat)] /\ dec \in [Kinds -> Decoding]
      BY <1>2 DEF DecodeInv
<1>5. sent \in [Kinds -> Nat] /\ now \in Nat /\ out \in Seq(Events)
      BY <1>2 DEF MergeInv
<1>6. pc \in Kinds \union {"merge", "done", "failed"}
      BY <1>2 DEF PlaceInv
<1> QED
    BY <1>3, <1>4, <1>5, <1>6 DEF TypeOK

LEMMA IInvUnread == IInv => UnreadKept
<1>1. SUFFICES ASSUME IInv, NEW k \in Kinds, NEW x \in dec[k].i .. Len(written[k])
               PROVE  dec[k].output[x] = written[k][x]
      BY DEF UnreadKept
<1>2. /\ dec[k] \in Decoding /\ Len(dec[k].output) = Len(written[k]) /\ DecodeOf(k)
      /\ Len(written[k]) \in Nat
      BY <1>1, DecodeIs DEF IInv
<1>3. dec[k].i \in Nat
      BY <1>2, DecodingIs
<1>4. ReadTo(dec[k]) = dec[k].i
      BY <1>1, <1>2, <1>3 DEF ReadTo
<1> QED
    BY <1>1, <1>2, <1>4 DEF DecodeOf, Sliced

\* What decode has said was said at times.
LEMMA SaidAtTimes ==
    ASSUME NEW d \in Decoding, Within(d) PROVE Said(d) \in Seq(Nat \X Nat)
<1> DEFINE N == Len(d.events)
<1>1. N \in Nat /\ N \in 0 .. N
      BY DecodingIs
<1>2. ASSUME NEW m \in 1 .. N PROVE Says(d, m) \in Seq(Nat \X Nat)
  <2>1. d.events[m] \in Slices /\ d.events[m].time \in Nat
        BY DecodingIs
  <2>2. End(d.events[m]) <= Len(d.output) + 1
        BY DEF Within
  <2>3. Message(d, d.events[m]) \in Seq(Nat)
        BY <2>1, <2>2, MessageIs
  <2> QED
      BY <2>1, <2>3, TimedIs DEF Says
<1>3. SaidBy(d, N) = FlattenSeq(SaidSeq(d, N))
      BY <1>1, SaidSeqIs
<1> HIDE DEF N
<1>4. SaidSeq(d, N) \in Seq(Seq(Nat \X Nat))
      BY <1>1, <1>2, IsASeq DEF SaidSeq
<1>5. FlattenSeq(SaidSeq(d, N)) \in Seq(Nat \X Nat)
      BY <1>4, FlattenType
<1> QED
    BY <1>3, <1>5 DEF Said, N

LEMMA IInvPlayed == IInv => PlayedAsWritten
<1>1. SUFFICES ASSUME IInv PROVE PlayedAsWritten
      OBVIOUS
<1>2. pc = "failed" => \E k \in Kinds : CutOff(written[k])
      BY <1>1 DEF IInv, PlaceInv
<1>3. ASSUME pc = "done", NEW k \in Kinds
      PROVE  ~CutOff(written[k]) /\ Played(out, k) = Meaning(written[k])
  <2>1. PICK w : w = written[k]
        OBVIOUS
  <2>2. PICK d : d = dec[k]
        OBVIOUS
  <2>3. /\ w \in Seq(Nat) /\ Len(w) \in Nat /\ d \in Decoding /\ Len(d.output) = Len(w)
        /\ Within(d) /\ DecodeOf(k)
        BY <1>1, <2>1, <2>2, DecodeIs DEF IInv
  <2>4. d.i > Len(d.output) /\ Left(k) = 0
        BY <1>1, <1>3, <2>2 DEF IInv, PlaceInv
  <2>5. ReadTo(d) = Len(w) + 1
        BY <2>3, <2>4 DEF ReadTo
  <2>6. Said(d) \o Reading(w)[Cursor(Len(w) + 1, 0, d.last)] = Meaning(w)
        BY <2>1, <2>2, <2>3, <2>5 DEF DecodeOf
  <2>7. Reading(w)[Cursor(Len(w) + 1, 0, d.last)] = <<>>
    <3>1. d.last \in Nat /\ 0 \in Nat
          BY <2>3, DecodingIs
    <3> QED
        BY <2>3, <3>1, ReadingEnds
  <2>8. Said(d) \in Seq(Nat \X Nat)
        BY <2>3, SaidAtTimes
  <2>9. Meaning(w) = Said(d)
        BY <2>6, <2>7, <2>8, ConcatEmptySeq
  <2>10. Played(out, k) = SaidBy(d, sent[k]) /\ sent[k] \in Nat
         BY <1>1, <2>2 DEF IInv, MergeInv
  <2>11. sent[k] = Len(d.events)
         BY <2>2, <2>3, <2>4, <2>10, DecodingIs DEF Left
  <2>12. Played(out, k) = Meaning(w)
         BY <2>9, <2>10, <2>11 DEF Said
  <2>13. ~CutOff(w)
    <3>1. PICK m : m = Meaning(w)
          OBVIOUS
    <3>2. m \in Seq(Nat \X Nat) /\ Len(m) \in Nat
          BY <2>8, <2>9, <3>1, LenProperties
    <3>3. CASE m = <<>>
          BY <3>1, <3>3 DEF CutOff
    <3>4. CASE m # <<>>
      <4>1. Len(m) # 0
            BY <3>2, <3>4, EmptySeq
      <4>2. Len(m) \in 1 .. Len(m)
            BY <3>2, <4>1
      <4>3. Last(m) \in Nat \X Nat
            BY <3>2, <4>2, ElementOfSeq DEF Last
      <4>4. Last(m)[2] \in Nat
            BY <4>3
      <4>5. Last(m)[2] # -1
            BY <4>4
      <4> QED
          BY <3>1, <4>5 DEF CutOff
    <3> QED
        BY <3>3, <3>4
  <2> QED
      BY <2>1, <2>12, <2>13
<1> QED
    BY <1>2, <1>3 DEF PlayedAsWritten

\* Whatever the outputs are, decode and sortedMerge keep their state typed, no slice
\* reaches beyond its output, and no more events are taken than there are
\* (play.go:80-174).
THEOREM TypeCorrect == Spec => []TypeOK
BY Inductive, IInvType, PTL

\* append in add may write over the output that decode is reading, and never
\* touches what is still to be read, however many writes have the same time and
\* however short they are (play.go:49-53, 117-132).
THEOREM AlwaysUnread == Spec => []UnreadKept
BY Inductive, IInvUnread, PTL

\* Played with their delays, the events show what the program wrote, all of it, in
\* its order and at its times, for any outputs; and Recorder gives up only when an
\* output ends in a header (play.go:80-174).
THEOREM AlwaysPlayed == Spec => []PlayedAsWritten
BY Inductive, IInvPlayed, PTL
====
