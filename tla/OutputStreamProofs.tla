---- MODULE OutputStreamProofs ----
(***************************************************************************)
(* Proofs about the output of a container: for every header, limit and way *)
(* to cut the output into writes, the split is at the end of the first     *)
(* header, the first bytes are kept, and a loss is seen.                   *)
(***************************************************************************)
EXTENDS OutputStream, SequenceTheorems, WellFoundedInduction, TLAPS

---------------------------------------------------------------------------
(* Sequences and the places where one occurs in another.                   *)

\* What a part of a sequence is made of.
LEMMA PartOf ==
    ASSUME NEW S, NEW t \in Seq(S), NEW d \in Nat, NEW n \in d..Len(t),
           NEW m, m = d + 1
    PROVE  /\ SubSeq(t, m, n) \in Seq(S)
           /\ Len(SubSeq(t, m, n)) = n - d
           /\ \A i \in 1..(n - d) : SubSeq(t, m, n)[i] = t[d + i]
<1>1. Len(t) \in Nat
      BY LenProperties
<1>2. m \in Int /\ n \in Int /\ m <= n + 1 /\ n - m + 1 = n - d
      BY <1>1
<1>3. ASSUME NEW i \in m..n PROVE t[i] \in S
  <2>1. i \in 1..Len(t)
        BY <1>1
  <2> QED
      BY <2>1, ElementOfSeq
<1> DEFINE r == SubSeq(t, m, n)
<1>4. /\ r \in Seq(S)
      /\ Len(r) = IF m <= n THEN n - m + 1 ELSE 0
      /\ \A i \in 1..(n - m + 1) : r[i] = t[m + i - 1]
      BY <1>2, <1>3, SubSeqProperties
<1> HIDE DEF r
<1>5. Len(r) = n - d
      BY <1>2, <1>4
<1>6. ASSUME NEW i \in 1..(n - d) PROVE r[i] = t[d + i]
  <2>1. i \in 1..(n - m + 1) /\ m + i - 1 = d + i
        BY <1>2
  <2> QED
      BY <2>1, <1>4
<1> QED
    BY <1>4, <1>5, <1>6 DEF r

\* s occurs in t at i if they agree there symbol by symbol.
LEMMA EndsAtPointwise ==
    ASSUME NEW S, NEW s \in Seq(S), NEW t \in Seq(S), NEW i \in Len(s)..Len(t)
    PROVE  EndsAt(s, t, i) <=> \A k \in 1..Len(s) : t[i - Len(s) + k] = s[k]
<1>1. Len(s) \in Nat /\ Len(t) \in Nat
      BY LenProperties
<1>0. i - Len(s) \in Nat
      BY <1>1
<1>2. PICK d \in Nat : d = i - Len(s)
      BY <1>0
<1> DEFINE r == SubSeq(t, i - Len(s) + 1, i)
<1>3. d + 1 = i - Len(s) + 1 /\ i \in d..Len(t) /\ i - d = Len(s)
      BY <1>1, <1>2
<1>4. /\ r \in Seq(S) /\ Len(r) = i - d
      /\ \A k \in 1..(i - d) : r[k] = t[d + k]
      BY <1>3, PartOf
<1>5. EndsAt(s, t, i) <=> r = s
      BY DEF EndsAt
<1> HIDE DEF r
<1>6. (\A k \in 1..Len(s) : r[k] = s[k]) => r = s
      BY <1>3, <1>4, SeqEqual
<1>7. \A k \in 1..Len(s) : r[k] = t[d + k]
      BY <1>3, <1>4
<1> QED
    BY <1>2, <1>5, <1>6, <1>7

\* Something that occurs has a first place.
LEMMA FirstPlace ==
    ASSUME NEW s, NEW t, Len(t) \in Nat, Occurs(s, t)
    PROVE  /\ EndOfFirst(s, t) \in 1..Len(t)
           /\ EndsAt(s, t, EndOfFirst(s, t))
           /\ \A j \in 1..(EndOfFirst(s, t) - 1) : ~EndsAt(s, t, j)
<1> DEFINE T == {i \in 1..Len(t) : EndsAt(s, t, i)}
<1>1. T # {} /\ T \subseteq Nat
      BY DEF Occurs
<1>2. \E i \in T : \A j \in T : <<j, i>> \notin OpToRel(<, Nat)
      BY <1>1, NatLessThanWellFounded, WFMin
<1>3. \E i \in T : \A j \in T : ~(j < i)
      BY <1>1, <1>2 DEF OpToRel
<1>4. \E i \in 1..Len(t) : EndsAt(s, t, i) /\ \A j \in 1..(i - 1) : ~EndsAt(s, t, j)
      BY <1>3
<1> QED
    BY <1>4 DEF EndOfFirst

\* It has only one.
LEMMA OnlyFirst ==
    ASSUME NEW s, NEW t, Len(t) \in Nat, NEW i \in 1..Len(t), EndsAt(s, t, i),
           \A j \in 1..(i - 1) : ~EndsAt(s, t, j)
    PROVE  Occurs(s, t) /\ EndOfFirst(s, t) = i
<1>1. Occurs(s, t)
      BY DEF Occurs
<1> DEFINE e == EndOfFirst(s, t)
<1>2. e \in 1..Len(t) /\ EndsAt(s, t, e) /\ \A j \in 1..(e - 1) : ~EndsAt(s, t, j)
      BY <1>1, FirstPlace
<1> HIDE DEF e
<1>3. ~(e < i) /\ ~(i < e)
      BY <1>2
<1>4. e = i
      BY <1>2, <1>3
<1> QED
    BY <1>1, <1>4 DEF e

\* What fits is a sequence, and is everything exactly if there is room.
LEMMA LongestIs ==
    ASSUME NEW S, NEW t \in Seq(S), NEW n \in Int
    PROVE  Longest(t, n) \in Seq(S) /\ (n >= 0 => (Longest(t, n) = t <=> Len(t) <= n))
<1>1. Len(t) \in Nat
      BY LenProperties
<1>2. PICK k \in 0..Len(t) : k = IF n < 0 THEN 0 ELSE IF n < Len(t) THEN n ELSE Len(t)
  <2>1. (IF n < 0 THEN 0 ELSE IF n < Len(t) THEN n ELSE Len(t)) \in 0..Len(t)
        BY <1>1
  <2> QED
      BY <2>1
<1> DEFINE r == SubSeq(t, 1, k)
<1>3. Longest(t, n) = r
      BY <1>2 DEF Longest
<1>4. r \in Seq(S) /\ Len(r) = k
  <2>1. 0 \in Nat /\ 1 = 0 + 1 /\ k - 0 = k
        BY <1>1
  <2>2. r \in Seq(S) /\ Len(r) = k - 0
        BY <2>1, PartOf
  <2> HIDE DEF r
  <2> QED
      BY <2>1, <2>2
<1>5. k = Len(t) => r = t
      BY SubSeqFull
<1>6. k # Len(t) => r # t
      BY <1>4
<1>7. n >= 0 => (k = Len(t) <=> Len(t) <= n)
      BY <1>1, <1>2
<1> HIDE DEF r
<1> QED
    BY <1>3, <1>4, <1>5, <1>6, <1>7

\* The two parts a sequence is cut into.
LEMMA Cut ==
    ASSUME NEW S, NEW t \in Seq(S), NEW n \in 0..Len(t)
    PROVE  /\ SubSeq(t, 1, n) \in Seq(S) /\ Len(SubSeq(t, 1, n)) = n
           /\ SubSeq(t, n + 1, Len(t)) \in Seq(S)
           /\ Len(SubSeq(t, n + 1, Len(t))) = Len(t) - n
           /\ SubSeq(t, 1, n) \o SubSeq(t, n + 1, Len(t)) = t
<1>1. Len(t) \in Nat
      BY LenProperties
<1>2. SubSeq(t, 1, n) \in Seq(S) /\ Len(SubSeq(t, 1, n)) = n
  <2>1. 0 \in Nat /\ n \in 0..Len(t) /\ 1 = 0 + 1 /\ n - 0 = n
        BY <1>1
  <2>2. SubSeq(t, 1, n) \in Seq(S) /\ Len(SubSeq(t, 1, n)) = n - 0
        BY <2>1, PartOf
  <2> QED
      BY <2>1, <2>2
<1>3. /\ SubSeq(t, n + 1, Len(t)) \in Seq(S)
      /\ Len(SubSeq(t, n + 1, Len(t))) = Len(t) - n
  <2>1. n \in Nat /\ Len(t) \in n..Len(t)
        BY <1>1
  <2> QED
      BY <2>1, PartOf
<1>4. SubSeq(t, 1, n) \o SubSeq(t, n + 1, Len(t)) = t
  <2>1. /\ 1 \in 1..Len(t) + 1 /\ n \in (1 - 1)..Len(t) /\ Len(t) \in n..Len(t)
        BY <1>1
  <2>2. SubSeq(t, 1, n) \o SubSeq(t, n + 1, Len(t)) = SubSeq(t, 1, Len(t))
        BY <2>1, ConcatAdjacentSubSeq
  <2> QED
      BY <2>2, SubSeqFull
<1> QED
    BY <1>2, <1>3, <1>4

---------------------------------------------------------------------------
(* One more chunk.                                                         *)

H == Header
Symbols == Alphabet \union STRING

\* What is held back of t while there was no header: less than a header.
Short(t) == IF Len(t) < Len(H) THEN Len(t) ELSE Len(H) - 1

\* The header is a sequence of symbols and not empty.
LEMMA HeaderSeq == H \in Seq(Symbols) /\ Len(H) \in Nat \ {0}
<1>1. Header \in Seq(STRING) /\ Len(Header) > 0
      BY HeaderAssumption
<1> QED
    BY <1>1, LenProperties, SeqMonotonic DEF H, Symbols

\* Whether the header ends at a place within the old output does not depend on
\* what follows.
LEMMA InOld ==
    ASSUME NEW t \in Seq(Symbols), NEW p \in Seq(Symbols), NEW i \in 1..Len(t)
    PROVE  EndsAt(H, t \o p, i) <=> EndsAt(H, t, i)
<1>0. /\ H \in Seq(Symbols) /\ Len(H) \in Nat /\ Len(t) \in Nat /\ Len(p) \in Nat
      /\ t \o p \in Seq(Symbols) /\ Len(t \o p) = Len(t) + Len(p)
      BY HeaderSeq, LenProperties, ConcatProperties
<1>1. CASE i < Len(H)
      BY <1>0, <1>1 DEF EndsAt
<1>2. CASE i >= Len(H)
  <2>1. i \in Len(H)..Len(t) /\ i \in Len(H)..Len(t \o p)
        BY <1>0, <1>2
  <2>2. ASSUME NEW k \in 1..Len(H)
        PROVE  (t \o p)[i - Len(H) + k] = t[i - Len(H) + k]
    <3>1. /\ i - Len(H) + k \in 1..Len(t) + Len(p)
          /\ i - Len(H) + k <= Len(t)
          BY <1>0, <1>2
    <3>2. PICK j \in 1..Len(t) + Len(p) : j = i - Len(H) + k
          BY <3>1
    <3>3. (t \o p)[j] = IF j <= Len(t) THEN t[j] ELSE p[j - Len(t)]
          BY ConcatProperties
    <3> QED
        BY <3>1, <3>2, <3>3
  <2>3. EndsAt(H, t, i) <=> \A k \in 1..Len(H) : t[i - Len(H) + k] = H[k]
        BY <1>0, <2>1, EndsAtPointwise
  <2>4. EndsAt(H, t \o p, i) <=> \A k \in 1..Len(H) : (t \o p)[i - Len(H) + k] = H[k]
        BY <1>0, <2>1, EndsAtPointwise
  <2> QED
      BY <2>2, <2>3, <2>4
<1> QED
    BY <1>0, <1>1, <1>2

\* What the switchWriter looks at, the end of what it has seen with a new chunk.
LEMMA SeenIsEnd ==
    ASSUME NEW t \in Seq(Symbols), NEW p \in Seq(Symbols)
    PROVE  LET v == LastOf(t, Short(t)) \o p
               d == Len(t) - Short(t)
           IN  /\ d \in Nat /\ v \in Seq(Symbols) /\ Len(v) = Short(t) + Len(p)
               /\ Short(t) \in 0..(Len(H) - 1)
               /\ \A i \in 1..Len(v) : v[i] = (t \o p)[d + i]
<1> DEFINE b == LastOf(t, Short(t))
           d == Len(t) - Short(t)
           v == b \o p
<1>1. /\ Len(t) \in Nat /\ Len(p) \in Nat /\ Len(H) \in Nat \ {0}
      /\ Short(t) \in 0..Len(t) /\ Short(t) \in 0..(Len(H) - 1) /\ d \in Nat
      BY HeaderSeq, LenProperties DEF Short
<1>2. /\ b \in Seq(Symbols) /\ Len(b) = Short(t)
      /\ \A i \in 1..Short(t) : b[i] = t[d + i]
  <2>1. Len(t) \in d..Len(t) /\ Len(t) - d = Short(t)
        BY <1>1
  <2>2. b = SubSeq(t, d + 1, Len(t))
        BY DEF LastOf
  <2> HIDE DEF d, b
  <2>3. /\ b \in Seq(Symbols) /\ Len(b) = Len(t) - d
        /\ \A i \in 1..(Len(t) - d) : b[i] = t[d + i]
        BY <1>1, <2>1, <2>2, PartOf
  <2> QED
      BY <2>1, <2>3
<1>3. /\ v \in Seq(Symbols) /\ Len(v) = Short(t) + Len(p)
      /\ \A i \in 1..Short(t) + Len(p) :
           v[i] = IF i <= Short(t) THEN b[i] ELSE p[i - Short(t)]
  <2>1. /\ b \in Seq(Symbols) /\ Len(b) = Short(t)
        BY <1>2
  <2> HIDE DEF b
  <2>2. /\ v \in Seq(Symbols) /\ Len(v) = Len(b) + Len(p)
        /\ \A i \in 1..Len(b) + Len(p) :
             v[i] = IF i <= Len(b) THEN b[i] ELSE p[i - Len(b)]
        BY <2>1, ConcatProperties
  <2> QED
      BY <2>1, <2>2
<1>4. ASSUME NEW i \in 1..Len(v) PROVE v[i] = (t \o p)[d + i]
  <2>1. /\ i \in 1..Short(t) + Len(p) /\ d + i \in 1..Len(t) + Len(p)
        /\ d + i <= Len(t) <=> i <= Short(t)
        /\ d + i - Len(t) = i - Short(t)
    <3>1. /\ i \in Int /\ 1 <= i /\ i <= Short(t) + Len(p)
          /\ Short(t) \in Int /\ d = Len(t) - Short(t)
      <4>1. Len(v) = Short(t) + Len(p)
            BY <1>1, <1>3
      <4>2. Short(t) \in Int /\ d = Len(t) - Short(t)
            BY <1>1
      <4> HIDE DEF v, d
      <4> QED
          BY <1>1, <4>1, <4>2
    <3> HIDE DEF v, d
    <3> QED
        BY <1>1, <3>1
  <2>2. (t \o p)[d + i] = IF d + i <= Len(t) THEN t[d + i] ELSE p[d + i - Len(t)]
    <3>1. PICK j \in 1..Len(t) + Len(p) : j = d + i
          BY <2>1
    <3>2. (t \o p)[j] = IF j <= Len(t) THEN t[j] ELSE p[j - Len(t)]
          BY ConcatProperties
    <3> HIDE DEF d
    <3> QED
        BY <1>1, <3>1, <3>2
  <2>3. v[i] = IF i <= Short(t) THEN b[i] ELSE p[i - Short(t)]
    <3> HIDE DEF v, b
    <3> QED
        BY <1>3, <2>1
  <2>4. CASE i <= Short(t)
    <3>1. b[i] = t[d + i]
      <4> HIDE DEF b, d
      <4> QED
          BY <1>1, <1>2, <2>4
    <3> HIDE DEF v, b, d
    <3> QED
        BY <2>1, <2>2, <2>3, <2>4, <3>1
  <2>5. CASE ~(i <= Short(t))
    <3> HIDE DEF v, b, d
    <3> QED
        BY <2>1, <2>2, <2>3, <2>5
  <2> QED
      BY <2>4, <2>5
<1> QED
    BY <1>1, <1>3, <1>4

\* When there was no header in t, it is in t with p exactly if it is in what the
\* switchWriter looks at, and its first end is the same place.
LEMMA SameFirst ==
    ASSUME NEW t \in Seq(Symbols), NEW p \in Seq(Symbols), ~Occurs(H, t)
    PROVE  LET v == LastOf(t, Short(t)) \o p
               d == Len(t) - Short(t)
           IN  /\ Occurs(H, v) <=> Occurs(H, t \o p)
               /\ Occurs(H, v) =>
                    /\ EndOfFirst(H, t \o p) = d + EndOfFirst(H, v)
                    /\ EndOfFirst(H, t \o p) \in (Len(t) + 1)..(Len(t) + Len(p))
<1> DEFINE v == LastOf(t, Short(t)) \o p
           d == Len(t) - Short(t)
           u == t \o p
<1>1. /\ Len(t) \in Nat /\ Len(p) \in Nat /\ Len(H) \in Nat \ {0}
      /\ H \in Seq(Symbols) /\ u \in Seq(Symbols) /\ Len(u) = Len(t) + Len(p)
      BY HeaderSeq, LenProperties, ConcatProperties
<1>2. /\ d \in Nat /\ v \in Seq(Symbols) /\ Len(v) = Short(t) + Len(p)
      /\ Short(t) \in 0..(Len(H) - 1)
      /\ \A i \in 1..Len(v) : v[i] = u[d + i]
      BY SeenIsEnd
<1>3. d = Len(t) - Short(t) /\ Len(v) \in Nat /\ Len(u) = d + Len(v)
      BY <1>1, <1>2
<1> HIDE DEF v, d, u
<1>0. /\ Len(t) \in Nat /\ Len(p) \in Nat /\ Len(H) \in Nat /\ Len(H) >= 1
      /\ d \in Nat /\ Len(v) \in Nat /\ Len(u) \in Nat
      /\ Len(u) = d + Len(v) /\ Len(u) = Len(t) + Len(p)
  <2>1. Len(u) \in Nat
        BY <1>1
  <2>2. Len(H) \in Nat /\ Len(H) >= 1
        BY <1>1
  <2> QED
      BY <1>1, <1>2, <1>3, <2>1, <2>2
<1>4. ASSUME Len(t) < Len(H) PROVE d = 0
  <2>1. Short(t) = Len(t)
        BY <1>4 DEF Short
  <2> QED
      BY <1>0, <1>3, <2>1
<1>5. ASSUME Len(t) >= Len(H) PROVE d = Len(t) - Len(H) + 1
  <2>1. Short(t) = Len(H) - 1
        BY <1>0, <1>5 DEF Short
  <2> QED
      BY <1>0, <1>3, <2>1
<1>6. ASSUME NEW i \in Len(H)..Len(v)
      PROVE  EndsAt(H, v, i) <=> EndsAt(H, u, d + i)
  <2>1. PICK j \in Len(H)..Len(u) : j = d + i
    <3>1. i \in Int /\ Len(H) <= i /\ i <= Len(v)
          BY <1>0
    <3>2. d + i \in Len(H)..Len(u)
          BY <1>0, <3>1
    <3> QED
        BY <3>2
  <2>0. H \in Seq(Symbols) /\ v \in Seq(Symbols) /\ u \in Seq(Symbols)
        BY <1>1, <1>2
  <2>2. EndsAt(H, v, i) <=> \A k \in 1..Len(H) : v[i - Len(H) + k] = H[k]
        BY <2>0, EndsAtPointwise
  <2>3. EndsAt(H, u, j) <=> \A k \in 1..Len(H) : u[j - Len(H) + k] = H[k]
        BY <2>0, EndsAtPointwise
  <2>4. ASSUME NEW k \in 1..Len(H) PROVE v[i - Len(H) + k] = u[j - Len(H) + k]
    <3>1. /\ i - Len(H) + k \in 1..Len(v)
          /\ d + (i - Len(H) + k) = j - Len(H) + k
          BY <1>0, <2>1
    <3>2. v[i - Len(H) + k] = u[d + (i - Len(H) + k)]
          BY <1>2, <3>1
    <3> QED
        BY <3>1, <3>2
  <2> QED
      BY <2>1, <2>2, <2>3, <2>4
<1>7. ASSUME NEW j \in 1..Len(u), EndsAt(H, u, j)
      PROVE  j > Len(t) /\ j - d \in Len(H)..Len(v) /\ EndsAt(H, v, j - d)
  <2>1. j > Len(t)
    <3>1. SUFFICES ASSUME j \in 1..Len(t) PROVE FALSE
          BY <1>0
    <3>2. EndsAt(H, t, j)
          BY <1>7, <3>1, InOld DEF u
    <3> QED
        BY <3>1, <3>2 DEF Occurs
  <2>2. j >= Len(H)
        BY <1>7, <1>1 DEF EndsAt
  <2>3. j - d \in Len(H)..Len(v)
        BY <1>0, <1>4, <1>5, <2>1, <2>2
  <2>4. d + (j - d) = j
        BY <1>0
  <2> QED
      BY <1>6, <1>7, <2>1, <2>3, <2>4
<1>8. Occurs(H, u) => Occurs(H, v)
  <2> SUFFICES ASSUME Occurs(H, u) PROVE Occurs(H, v)
      OBVIOUS
  <2>1. PICK j \in 1..Len(u) : EndsAt(H, u, j)
        BY DEF Occurs
  <2>2. j - d \in 1..Len(v) /\ EndsAt(H, v, j - d)
        BY <1>0, <1>7, <2>1
  <2> QED
      BY <2>2 DEF Occurs
<1>9. ASSUME Occurs(H, v)
      PROVE  /\ Occurs(H, u) /\ EndOfFirst(H, u) = d + EndOfFirst(H, v)
             /\ EndOfFirst(H, u) \in (Len(t) + 1)..(Len(t) + Len(p))
  <2>1. PICK e \in 1..Len(v) :
          /\ e = EndOfFirst(H, v) /\ EndsAt(H, v, e)
          /\ \A j \in 1..(e - 1) : ~EndsAt(H, v, j)
        BY <1>3, <1>9, FirstPlace
  <2>2. e \in Len(H)..Len(v)
        BY <1>1, <2>1 DEF EndsAt
  <2>3. PICK j \in 1..Len(u) : j = d + e
    <3>1. d + e \in 1..Len(u)
          BY <1>0
    <3> QED
        BY <3>1
  <2>4. EndsAt(H, u, j)
        BY <1>6, <2>1, <2>2, <2>3
  <2>5. ASSUME NEW i \in 1..(j - 1), EndsAt(H, u, i) PROVE FALSE
    <3>1. i \in 1..Len(u)
          BY <1>0
    <3>2. i - d \in Len(H)..Len(v) /\ EndsAt(H, v, i - d)
          BY <1>7, <2>5, <3>1
    <3>3. i - d \in 1..(e - 1)
          BY <1>0, <2>3, <3>2
    <3> QED
        BY <2>1, <3>2, <3>3
  <2>6. Occurs(H, u) /\ EndOfFirst(H, u) = j
    <3>1. Len(u) \in Nat
          BY <1>0
    <3>2. \A i \in 1..(j - 1) : ~EndsAt(H, u, i)
          BY <2>5
    <3> QED
        BY <2>4, <3>1, <3>2, OnlyFirst
  <2>7. j \in (Len(t) + 1)..(Len(t) + Len(p))
        BY <1>0, <1>7, <2>4
  <2> QED
      BY <2>1, <2>3, <2>6, <2>7
<1> QED
    BY <1>8, <1>9 DEF v, d, u

\* Once the header was found its first end stays.
LEMMA StaysFirst ==
    ASSUME NEW t \in Seq(Symbols), NEW p \in Seq(Symbols), Occurs(H, t)
    PROVE  Occurs(H, t \o p) /\ EndOfFirst(H, t \o p) = EndOfFirst(H, t)
<1>1. /\ Len(t) \in Nat /\ Len(p) \in Nat /\ Len(t \o p) = Len(t) + Len(p)
      BY LenProperties, ConcatProperties
<1>2. PICK e \in 1..Len(t) :
        /\ e = EndOfFirst(H, t) /\ EndsAt(H, t, e)
        /\ \A j \in 1..(e - 1) : ~EndsAt(H, t, j)
      BY <1>1, FirstPlace
<1>3. EndsAt(H, t \o p, e)
      BY <1>2, InOld
<1>4. ASSUME NEW j \in 1..(e - 1) PROVE ~EndsAt(H, t \o p, j)
  <2>1. j \in 1..Len(t)
        BY <1>1
  <2> QED
      BY <1>2, <2>1, InOld
<1>5. e \in 1..Len(t \o p) /\ Len(t \o p) \in Nat
      BY <1>1
<1> QED
    BY <1>2, <1>3, <1>4, <1>5, OnlyFirst

\* Cutting t followed by p within p.
LEMMA CutNew ==
    ASSUME NEW t \in Seq(Symbols), NEW p \in Seq(Symbols), NEW n \in 0..Len(p)
    PROVE  /\ t \o SubSeq(p, 1, n) = SubSeq(t \o p, 1, Len(t) + n)
           /\ SubSeq(p, n + 1, Len(p)) = SubSeq(t \o p, Len(t) + n + 1, Len(t \o p))
<1> DEFINE u == t \o p
<1>1. /\ Len(t) \in Nat /\ Len(p) \in Nat
      /\ u \in Seq(Symbols) /\ Len(u) = Len(t) + Len(p)
      /\ \A i \in 1..Len(t) + Len(p) : u[i] = IF i <= Len(t) THEN t[i] ELSE p[i - Len(t)]
      BY LenProperties, ConcatProperties
<1> HIDE DEF u
<1> DEFINE a == SubSeq(p, 1, n)
           b == SubSeq(u, 1, Len(t) + n)
           c == SubSeq(p, n + 1, Len(p))
           d == SubSeq(u, Len(t) + n + 1, Len(u))
<1>2. a \in Seq(Symbols) /\ Len(a) = n /\ \A i \in 1..n : a[i] = p[i]
  <2>1. 0 \in Nat /\ n \in 0..Len(p) /\ 1 = 0 + 1 /\ n - 0 = n
        BY <1>1
  <2>2. /\ a \in Seq(Symbols) /\ Len(a) = n - 0 /\ \A i \in 1..(n - 0) : a[i] = p[0 + i]
        BY <2>1, PartOf
  <2> HIDE DEF a
  <2> QED
      BY <2>1, <2>2
<1>3. /\ b \in Seq(Symbols) /\ Len(b) = Len(t) + n
      /\ \A i \in 1..Len(t) + n : b[i] = u[i]
  <2>1. 0 \in Nat /\ Len(t) + n \in 0..Len(u) /\ 1 = 0 + 1
        BY <1>1
  <2>2. /\ b \in Seq(Symbols) /\ Len(b) = Len(t) + n - 0
        /\ \A i \in 1..(Len(t) + n - 0) : b[i] = u[0 + i]
        BY <1>1, <2>1, PartOf
  <2> HIDE DEF b
  <2> QED
      BY <1>1, <2>1, <2>2
<1>4. /\ c \in Seq(Symbols) /\ Len(c) = Len(p) - n
      /\ \A i \in 1..(Len(p) - n) : c[i] = p[n + i]
  <2>1. n \in Nat /\ Len(p) \in n..Len(p)
        BY <1>1
  <2> QED
      BY <2>1, PartOf
<1>5. /\ d \in Seq(Symbols) /\ Len(d) = Len(p) - n
      /\ \A i \in 1..(Len(p) - n) : d[i] = u[Len(t) + n + i]
  <2>1. Len(t) + n \in Nat /\ Len(u) \in (Len(t) + n)..Len(u)
        /\ Len(u) - (Len(t) + n) = Len(p) - n
        BY <1>1
  <2>2. PICK k \in Nat : k = Len(t) + n
        BY <2>1
  <2>3. PICK l \in k..Len(u) : l = Len(u)
        BY <2>1, <2>2
  <2>4. PICK m : m = k + 1
        OBVIOUS
  <2>5. d = SubSeq(u, m, l)
        BY <2>2, <2>3, <2>4
  <2>6. /\ SubSeq(u, m, l) \in Seq(Symbols) /\ Len(SubSeq(u, m, l)) = l - k
        /\ \A i \in 1..(l - k) : SubSeq(u, m, l)[i] = u[k + i]
        BY <1>1, <2>4, PartOf
  <2> HIDE DEF d
  <2> QED
      BY <2>1, <2>2, <2>3, <2>5, <2>6
<1> HIDE DEF a, b, c, d
<1>6. t \o a = b
  <2>1. /\ t \o a \in Seq(Symbols) /\ Len(t \o a) = Len(t) + n
        /\ \A i \in 1..Len(t) + n : (t \o a)[i] = IF i <= Len(t) THEN t[i] ELSE a[i - Len(t)]
        BY <1>2, ConcatProperties
  <2>2. ASSUME NEW i \in 1..Len(t) + n PROVE (t \o a)[i] = b[i]
    <3>1. b[i] = IF i <= Len(t) THEN t[i] ELSE p[i - Len(t)]
          BY <1>1, <1>3
    <3>2. CASE i <= Len(t)
          BY <2>1, <3>1, <3>2
    <3>3. CASE ~(i <= Len(t))
      <4>1. i - Len(t) \in 1..n
            BY <1>1, <3>3
      <4>2. a[i - Len(t)] = p[i - Len(t)]
            BY <1>2, <4>1
      <4> QED
          BY <2>1, <3>1, <3>3, <4>2
    <3> QED
        BY <3>2, <3>3
  <2> QED
      BY <1>3, <2>1, <2>2, SeqEqual
<1>7. c = d
  <2>1. ASSUME NEW i \in 1..(Len(p) - n) PROVE c[i] = d[i]
    <3>1. PICK j \in 1..Len(t) + Len(p) : j = Len(t) + n + i
      <4>1. Len(t) + n + i \in 1..Len(t) + Len(p)
            BY <1>1
      <4> QED
          BY <4>1
    <3>2. ~(j <= Len(t)) /\ j - Len(t) = n + i
          BY <1>1, <3>1
    <3>3. u[j] = p[n + i]
          BY <1>1, <3>2
    <3> QED
        BY <1>4, <1>5, <3>1, <3>3
  <2> QED
      BY <1>4, <1>5, <2>1, SeqEqual
<1> QED
    BY <1>6, <1>7 DEF a, b, c, d, u

\* Three parts can be joined in either order.
LEMMA Regroup ==
    \A x, y, z \in Seq(Symbols) : (x \o y) \o z = x \o (y \o z)
BY ConcatAssociative

\* Cutting t followed by p within t.
LEMMA CutOld ==
    ASSUME NEW t \in Seq(Symbols), NEW p \in Seq(Symbols), NEW e \in 0..Len(t)
    PROVE  /\ SubSeq(t \o p, 1, e) = SubSeq(t, 1, e)
           /\ SubSeq(t \o p, e + 1, Len(t \o p)) = SubSeq(t, e + 1, Len(t)) \o p
<1> DEFINE a == SubSeq(t, 1, e)
           r == SubSeq(t, e + 1, Len(t))
<1>1. Len(t) \in Nat /\ Len(p) \in Nat
      BY LenProperties
<1>2. a \in Seq(Symbols) /\ Len(a) = e /\ r \in Seq(Symbols) /\ Len(r) = Len(t) - e
      BY Cut
<1>3. a \o r = t
      BY Cut
<1> HIDE DEF a, r
<1>a. a \in Seq(Symbols) /\ r \in Seq(Symbols) /\ p \in Seq(Symbols)
      BY <1>2
<1>b. r \o p \in Seq(Symbols) /\ (a \o r) \o p = a \o (r \o p)
  <2>1. r \o p \in Seq(Symbols)
        BY <1>a, ConcatProperties
  <2>2. (a \o r) \o p = a \o (r \o p)
        BY <1>a, Regroup
  <2> QED
      BY <2>1, <2>2
<1> DEFINE w == r \o p
<1>4. w \in Seq(Symbols) /\ a \o w = t \o p
      BY <1>3, <1>b
<1> HIDE DEF w
<1>5. /\ a \o SubSeq(w, 1, 0) = SubSeq(a \o w, 1, Len(a) + 0)
      /\ SubSeq(w, 0 + 1, Len(w)) = SubSeq(a \o w, Len(a) + 0 + 1, Len(a \o w))
  <2>1. 0 \in 0..Len(w)
        BY <1>4, LenProperties
  <2> QED
      BY <1>2, <1>4, <2>1, CutNew
<1>6. SubSeq(w, 1, 0) = <<>> /\ a \o <<>> = a /\ SubSeq(w, 0 + 1, Len(w)) = w
      BY <1>2, <1>4, SubSeqEmpty, SubSeqFull, ConcatEmptySeq
<1>7. Len(a) + 0 = e /\ Len(a) + 0 + 1 = e + 1
      BY <1>1, <1>2
<1> QED
    BY <1>4, <1>5, <1>6, <1>7 DEF a, r, w

\* What is left of a sequence.
LEMMA RestOf ==
    ASSUME NEW S, NEW t \in Seq(S), NEW d \in 0..Len(t)
    PROVE  /\ SubSeq(t, d + 1, Len(t)) \in Seq(S)
           /\ Len(SubSeq(t, d + 1, Len(t))) = Len(t) - d
           /\ \A i \in 1..(Len(t) - d) : SubSeq(t, d + 1, Len(t))[i] = t[d + i]
<1>1. Len(t) \in Nat
      BY LenProperties
<1>2. PICK n \in d..Len(t) : n = Len(t)
      BY <1>1
<1>3. PICK m : m = d + 1
      OBVIOUS
<1>4. d \in Nat
      BY <1>1
<1>5. /\ SubSeq(t, m, n) \in Seq(S) /\ Len(SubSeq(t, m, n)) = n - d
      /\ \A i \in 1..(n - d) : SubSeq(t, m, n)[i] = t[d + i]
      BY <1>3, <1>4, PartOf
<1> QED
    BY <1>2, <1>3, <1>5

\* The end of the end is the end.
LEMMA LastOfEnd ==
    ASSUME NEW u \in Seq(Symbols), NEW v \in Seq(Symbols), NEW d \in Nat,
           Len(u) = d + Len(v), \A i \in 1..Len(v) : v[i] = u[d + i],
           NEW k \in 0..Len(v)
    PROVE  LastOf(v, k) = LastOf(u, k)
<1>1. Len(v) \in Nat /\ Len(u) \in Nat
      BY LenProperties
<1>2. PICK a \in Nat : a = Len(v) - k
  <2>1. Len(v) - k \in Nat
        BY <1>1
  <2> QED
      BY <2>1
<1>3. PICK b \in Nat : b = Len(u) - k
  <2>1. Len(u) - k \in Nat
        BY <1>1
  <2> QED
      BY <2>1
<1>4. /\ b = d + a /\ Len(v) - a = k /\ Len(u) - b = k
      /\ a \in 0..Len(v) /\ b \in 0..Len(u)
  <2>1. k \in Nat /\ k <= Len(v) /\ Len(u) = d + Len(v)
        BY <1>1
  <2>2. Len(v) - a = k /\ Len(u) - b = k
        BY <1>1, <1>2, <1>3, <2>1
  <2>3. b = d + a
        BY <1>1, <1>2, <1>3, <2>1
  <2>4. a \in 0..Len(v)
        BY <1>1, <1>2, <2>1
  <2>5. b \in 0..Len(u)
        BY <1>1, <1>3, <2>1
  <2> QED
      BY <2>2, <2>3, <2>4, <2>5
<1> DEFINE x == LastOf(v, k)
           y == LastOf(u, k)
<1>5. x = SubSeq(v, a + 1, Len(v)) /\ y = SubSeq(u, b + 1, Len(u))
      BY <1>2, <1>3 DEF LastOf
<1> HIDE DEF x, y
<1>6. x \in Seq(Symbols) /\ Len(x) = k /\ \A i \in 1..k : x[i] = v[a + i]
  <2>1. /\ x \in Seq(Symbols) /\ Len(x) = Len(v) - a
        /\ \A i \in 1..(Len(v) - a) : x[i] = v[a + i]
    <3>1. a \in 0..Len(v)
          BY <1>4
    <3> QED
        BY <1>5, <3>1, RestOf
  <2> QED
      BY <1>4, <2>1
<1>7. y \in Seq(Symbols) /\ Len(y) = k /\ \A i \in 1..k : y[i] = u[b + i]
  <2>1. /\ y \in Seq(Symbols) /\ Len(y) = Len(u) - b
        /\ \A i \in 1..(Len(u) - b) : y[i] = u[b + i]
    <3>1. b \in 0..Len(u)
          BY <1>4
    <3> QED
        BY <1>5, <3>1, RestOf
  <2> QED
      BY <1>4, <2>1
<1>8. ASSUME NEW i \in 1..k PROVE x[i] = y[i]
  <2>1. PICK j \in 1..Len(v) : j = a + i
    <3>1. a + i \in 1..Len(v)
          BY <1>1, <1>2
    <3> QED
        BY <3>1
  <2>2. d + j = b + i
        BY <1>4, <2>1
  <2>3. v[j] = u[d + j]
        OBVIOUS
  <2> QED
      BY <1>6, <1>7, <2>1, <2>2, <2>3
<1>9. x = y
      BY <1>6, <1>7, <1>8, SeqEqual
<1> QED
    BY <1>9 DEF x, y

\* A chunk without a header goes to the pipe, and its end is remembered.
LEMMA NotYet ==
    ASSUME NEW t \in Seq(Symbols), NEW p \in Seq(Symbols), Len(p) > 0, NEW s,
           ~Occurs(H, t), ~Occurs(H, t \o p), ~s.found, s.buf = LastOf(t, Short(t))
    PROVE  /\ ToFirst(s, p) = p /\ ToSecond(s, p) = <<>> /\ ~WritesSecond(s, p)
           /\ SwitchWrite(s, p) =
                [buf |-> LastOf(t \o p, Short(t \o p)), found |-> FALSE]
<1> DEFINE v == LastOf(t, Short(t)) \o p
           d == Len(t) - Short(t)
           u == t \o p
<1>1. /\ Len(t) \in Nat /\ Len(p) \in Nat /\ Len(p) >= 1
      /\ Len(H) \in Nat /\ Len(H) >= 1
      /\ u \in Seq(Symbols) /\ Len(u) = Len(t) + Len(p)
      BY HeaderSeq, LenProperties, ConcatProperties
<1>2. /\ d \in Nat /\ v \in Seq(Symbols) /\ Len(v) = Short(t) + Len(p)
      /\ Short(t) \in 0..(Len(H) - 1)
      /\ \A i \in 1..Len(v) : v[i] = u[d + i]
      BY SeenIsEnd
<1>3. ~Occurs(H, v)
      BY SameFirst
<1>4. Seen(s, p) = v /\ ~Finds(s, p)
      BY <1>3 DEF Seen, Finds, H
<1>5. NAfter(s, p) = 0 /\ ~WritesSecond(s, p)
      BY <1>4 DEF NAfter, WritesSecond
<1>6. ToFirst(s, p) = p /\ ToSecond(s, p) = <<>>
  <2>1. Len(p) - 0 = Len(p) /\ Len(p) + 1 > Len(p)
        BY <1>1
  <2>2. SubSeq(p, 1, Len(p)) = p
        BY SubSeqFull
  <2>3. SubSeq(p, Len(p) + 1, Len(p)) = <<>>
        BY <1>1, SubSeqEmpty
  <2> QED
      BY <1>5, <2>1, <2>2, <2>3 DEF ToFirst, ToSecond
<1> DEFINE kept == IF Len(v) >= Len(H) THEN LastOf(v, Len(H) - 1) ELSE v
<1>7. SwitchWrite(s, p) = [buf |-> kept, found |-> FALSE]
      BY <1>4 DEF SwitchWrite, H
<1>8. d = Len(t) - Short(t) /\ Len(u) = d + Len(v) /\ Len(v) \in Nat
      BY <1>1, <1>2
<1>9. kept = LastOf(u, Short(u))
  <2> HIDE DEF v, d, u
  <2>1. CASE Len(v) >= Len(H)
    <3>1. Len(H) - 1 \in 0..Len(v)
          BY <1>1, <1>8, <2>1
    <3>2. LastOf(v, Len(H) - 1) = LastOf(u, Len(H) - 1)
          BY <1>1, <1>2, <1>8, <3>1, LastOfEnd
    <3>3. ~(Len(u) < Len(H))
      <4>1. d \in Nat
            BY <1>2
      <4> QED
          BY <1>1, <1>8, <2>1, <4>1
    <3> QED
        BY <2>1, <3>2, <3>3 DEF Short
  <2>2. CASE ~(Len(v) >= Len(H))
    <3>1. Len(t) < Len(H)
      <4> SUFFICES ASSUME ~(Len(t) < Len(H)) PROVE FALSE
          OBVIOUS
      <4>1. Short(t) = Len(H) - 1
            BY DEF Short
      <4> QED
          BY <1>1, <1>2, <2>2, <4>1
    <3>2. Short(t) = Len(t)
          BY <3>1 DEF Short
    <3>3. d = 0 /\ Len(u) = Len(v) /\ Len(u) < Len(H)
          BY <1>1, <1>8, <2>2, <3>2
    <3>4. Len(v) \in 0..Len(v)
          BY <1>8
    <3>5. LastOf(v, Len(v)) = LastOf(u, Len(v))
          BY <1>1, <1>2, <1>8, <3>4, LastOfEnd
    <3>6. Len(v) - Len(v) + 1 = 1
          BY <1>8
    <3>7. LastOf(v, Len(v)) = v
          BY <1>2, <3>6, SubSeqFull DEF LastOf
    <3> QED
        BY <2>2, <3>3, <3>5, <3>7 DEF Short
  <2> QED
      BY <2>1, <2>2
<1> QED
    BY <1>5, <1>6, <1>7, <1>9

\* The chunk that ends the first header is cut right there.
LEMMA JustNow ==
    ASSUME NEW t \in Seq(Symbols), NEW p \in Seq(Symbols), NEW s,
           ~Occurs(H, t), Occurs(H, t \o p), ~s.found, s.buf = LastOf(t, Short(t))
    PROVE  LET e == EndOfFirst(H, t \o p)
           IN  /\ t \o ToFirst(s, p) = SubSeq(t \o p, 1, e)
               /\ ToSecond(s, p) = SubSeq(t \o p, e + 1, Len(t \o p))
               /\ NAfter(s, p) \in 0..Len(p) /\ WritesSecond(s, p)
               /\ SwitchWrite(s, p) = [buf |-> <<>>, found |-> TRUE]
<1> DEFINE v == LastOf(t, Short(t)) \o p
           d == Len(t) - Short(t)
           u == t \o p
           e == EndOfFirst(H, u)
           f == EndOfFirst(H, v)
<1>1. Len(t) \in Nat /\ Len(p) \in Nat
      BY LenProperties
<1>2. d \in Nat /\ Len(v) = Short(t) + Len(p) /\ Short(t) \in 0..(Len(H) - 1)
      BY SeenIsEnd
<1>3. /\ Occurs(H, v) /\ e = d + f
      /\ e \in (Len(t) + 1)..(Len(t) + Len(p))
      BY SameFirst
<1>4. Seen(s, p) = v /\ Finds(s, p)
      BY <1>3 DEF Seen, Finds, H
<1>5. NAfter(s, p) = Len(v) - f
      BY <1>4 DEF NAfter, H, Finds
<1>6. f \in 1..Len(v)
  <2>1. Len(v) \in Nat
    <3>1. v \in Seq(Symbols)
          BY SeenIsEnd
    <3> QED
        BY <3>1, LenProperties
  <2> QED
      BY <1>3, <2>1, FirstPlace
<1>7. d = Len(t) - Short(t)
      OBVIOUS
<1>8. PICK n \in 0..Len(p) : n = e - Len(t)
  <2> HIDE DEF e, f, d, v
  <2>1. e - Len(t) \in 0..Len(p)
        BY <1>1, <1>3
  <2> QED
      BY <2>1
<1>9. NAfter(s, p) = Len(p) - n /\ Len(t) + n = e /\ NAfter(s, p) \in 0..Len(p)
  <2>1. Len(H) \in Nat
        BY HeaderSeq
  <2>2. Short(t) \in Int
        BY <1>2, <2>1
  <2> HIDE DEF e, f, d, v
  <2>3. f \in Int /\ Len(v) = Short(t) + Len(p)
        BY <1>2, <1>6
  <2>4. NAfter(s, p) = Short(t) + Len(p) - f
        BY <1>1, <1>5, <2>2, <2>3
  <2>5. e = Len(t) - Short(t) + f
        BY <1>3, <1>7
  <2>6. n = f - Short(t)
        BY <1>1, <1>8, <2>2, <2>3, <2>5
  <2> QED
      BY <1>1, <2>2, <2>3, <2>4, <2>5, <2>6
<1>10. ToFirst(s, p) = SubSeq(p, 1, n) /\ ToSecond(s, p) = SubSeq(p, n + 1, Len(p))
  <2>1. Len(p) - (Len(p) - n) = n
        BY <1>1
  <2> QED
      BY <1>9, <2>1 DEF ToFirst, ToSecond
<1>11. /\ t \o SubSeq(p, 1, n) = SubSeq(u, 1, Len(t) + n)
       /\ SubSeq(p, n + 1, Len(p)) = SubSeq(u, Len(t) + n + 1, Len(u))
       BY CutNew
<1>12. /\ WritesSecond(s, p)
       /\ SwitchWrite(s, p) = [buf |-> <<>>, found |-> TRUE]
       BY <1>4 DEF WritesSecond, SwitchWrite, Finds
<1> HIDE DEF e, u
<1>13. /\ t \o ToFirst(s, p) = SubSeq(u, 1, e)
       /\ ToSecond(s, p) = SubSeq(u, e + 1, Len(u))
       BY <1>9, <1>10, <1>11
<1> QED
    BY <1>9, <1>12, <1>13 DEF e, u

\* After the header everything goes to the second writer.
LEMMA Already ==
    ASSUME NEW p \in Seq(Symbols), NEW s, s.found
    PROVE  /\ ToFirst(s, p) = <<>> /\ ToSecond(s, p) = p
           /\ WritesSecond(s, p) /\ SwitchWrite(s, p) = s
<1>1. Len(p) \in Nat
      BY LenProperties
<1>2. NAfter(s, p) = Len(p) /\ WritesSecond(s, p) /\ SwitchWrite(s, p) = s
      BY DEF NAfter, WritesSecond, SwitchWrite
<1>3. Len(p) - Len(p) = 0 /\ 0 + 1 = 1
      BY <1>1
<1>4. SubSeq(p, 1, Len(p)) = p /\ SubSeq(p, 1, 0) = <<>>
      BY SubSeqFull, SubSeqEmpty
<1> QED
    BY <1>2, <1>3, <1>4 DEF ToFirst, ToSecond

---------------------------------------------------------------------------
(* The limit.                                                              *)

\* Taking what fits of a write leaves what fits of everything written.
LEMMA StillFits ==
    ASSUME NEW t \in Seq(Symbols), NEW q \in Seq(Symbols), NEW c \in Nat
    PROVE  Longest(t, c) \o Longest(q, c - Len(t)) = Longest(t \o q, c)
<1> DEFINE u == t \o q
<1>1. /\ Len(t) \in Nat /\ Len(q) \in Nat
      /\ Len(u) = Len(t) + Len(q)
      BY LenProperties, ConcatProperties
<1> HIDE DEF u
<1>2. CASE c < Len(t)
  <2>1. Longest(t, c) = SubSeq(t, 1, c) /\ Longest(u, c) = SubSeq(u, 1, c)
        BY <1>1, <1>2 DEF Longest
  <2>2. Longest(q, c - Len(t)) = SubSeq(q, 1, 0)
        BY <1>1, <1>2 DEF Longest
  <2>3. SubSeq(q, 1, 0) = <<>>
        BY SubSeqEmpty
  <2>4. c \in 0..Len(t)
        BY <1>1, <1>2
  <2>5. SubSeq(u, 1, c) = SubSeq(t, 1, c)
        BY <2>4, CutOld DEF u
  <2>6. SubSeq(t, 1, c) \in Seq(Symbols)
    <3>1. c \in Int
          OBVIOUS
    <3>2. Longest(t, c) \in Seq(Symbols)
          BY <3>1, LongestIs
    <3> QED
        BY <2>1, <3>2
  <2>7. SubSeq(t, 1, c) \o <<>> = SubSeq(t, 1, c)
        BY <2>6, ConcatEmptySeq
  <2> QED
      BY <2>1, <2>2, <2>3, <2>5, <2>7 DEF u
<1>3. CASE c >= Len(t)
  <2>1. PICK n \in 0..Len(q) :
          n = IF c - Len(t) < Len(q) THEN c - Len(t) ELSE Len(q)
    <3>1. (IF c - Len(t) < Len(q) THEN c - Len(t) ELSE Len(q)) \in 0..Len(q)
          BY <1>1, <1>3
    <3> QED
        BY <3>1
  <2>2. Longest(q, c - Len(t)) = SubSeq(q, 1, n)
        BY <1>1, <1>3, <2>1 DEF Longest
  <2>3. Longest(t, c) = t
        BY <1>3, LongestIs
  <2>4. t \o SubSeq(q, 1, n) = SubSeq(u, 1, Len(t) + n)
        BY CutNew DEF u
  <2>5. Longest(u, c) = SubSeq(u, 1, Len(t) + n)
    <3>1. CASE c - Len(t) < Len(q)
      <4>1. c < Len(u) /\ Len(t) + n = c
            BY <1>1, <2>1, <3>1
      <4> QED
          BY <4>1 DEF Longest
    <3>2. CASE ~(c - Len(t) < Len(q))
      <4>1. ~(c < Len(u)) /\ Len(t) + n = Len(u)
            BY <1>1, <2>1, <3>2
      <4> QED
          BY <4>1 DEF Longest
    <3> QED
        BY <3>1, <3>2
  <2> QED
      BY <2>2, <2>3, <2>4, <2>5 DEF u
<1> QED
    BY <1>1, <1>2, <1>3

---------------------------------------------------------------------------
(* The inductive invariant.                                                *)

\* What the switchWriter remembers.
SwitchInv ==
    /\ sw.found <=> Occurs(H, sent)
    /\ sw.buf = IF sw.found THEN <<>> ELSE LastOf(sent, Short(sent))

\* What the limitedWriter has taken and counted.
LimitInv ==
    /\ stdout.n = Cap - Len(toStdout)
    /\ KeepsFirst
    /\ stdout.n < 0 => ~copying

IInv == TypeOK /\ SwitchInv /\ SplitAtHeader /\ LimitInv

\* Nothing has been written at first.
LEMMA InitInv == Init => IInv
<1> SUFFICES ASSUME Init PROVE IInv
    OBVIOUS
<1>1. /\ sent = <<>> /\ toPipe = <<>> /\ toStdout = <<>> /\ copying = TRUE
      /\ sw = [buf |-> <<>>, found |-> FALSE] /\ stdout = [dst |-> <<>>, n |-> Cap]
      BY DEF Init, NewSwitch, NewLimited
<1>2. <<>> \in Seq(Alphabet) /\ <<>> \in Seq(Symbols) /\ Len(<<>>) = 0
      OBVIOUS
<1>3. Len(H) \in Nat /\ Len(H) >= 1
      BY HeaderSeq
<1>4. ~Occurs(H, <<>>)
      BY <1>2 DEF Occurs
<1>5. Short(<<>>) = 0
      BY <1>2, <1>3 DEF Short
<1>6. LastOf(<<>>, 0) = <<>>
      BY SubSeqEmpty DEF LastOf
<1>7. TypeOK
      BY <1>1, <1>2, <1>3, StreamAssumption DEF TypeOK, H
<1>8. SwitchInv
      BY <1>1, <1>4, <1>5, <1>6 DEF SwitchInv
<1>9. SplitAtHeader
      BY <1>1, <1>4 DEF SplitAtHeader, H
<1>10. Longest(<<>>, Cap) = <<>>
  <2>1. Cap \in Int /\ Cap >= 0
        BY StreamAssumption
  <2> QED
      BY <1>2, <2>1, LongestIs
<1>11. LimitInv
      BY <1>1, <1>2, <1>10, StreamAssumption DEF LimitInv, KeepsFirst
<1> QED
    BY <1>7, <1>8, <1>9, <1>11 DEF IInv

\* Where a chunk goes.
LEMMA CopySplits ==
    ASSUME IInv, NEW p \in Seq(Alphabet), Copy(p)
    PROVE  /\ SwitchInv' /\ SplitAtHeader'
           /\ sw' \in [buf : Seq(Alphabet), found : BOOLEAN]
           /\ Len(sw'.buf) < Len(H)
           /\ toPipe' \in Seq(Alphabet) /\ ToSecond(sw, p) \in Seq(Alphabet)
           /\ ~WritesSecond(sw, p) => ToSecond(sw, p) = <<>>
<1> DEFINE u == sent \o p
           q == ToSecond(sw, p)
<1>1. /\ sent' = u /\ sw' = SwitchWrite(sw, p) /\ Len(p) > 0
      /\ toPipe' = toPipe \o ToFirst(sw, p) /\ toStdout' = toStdout \o q
      BY DEF Copy
<1>2. /\ sent \in Seq(Alphabet) /\ toPipe \in Seq(Alphabet) /\ toStdout \in Seq(Alphabet)
      /\ sw \in [buf : Seq(Alphabet), found : BOOLEAN] /\ Len(sw.buf) < Len(H)
      BY DEF IInv, TypeOK, H
<1>3. sent \in Seq(Symbols) /\ p \in Seq(Symbols) /\ toStdout \in Seq(Symbols)
  <2>1. Alphabet \subseteq Symbols
        BY DEF Symbols
  <2> QED
      BY <1>2, <2>1, SeqMonotonic
<1>4. /\ u \in Seq(Alphabet) /\ u \in Seq(Symbols)
      /\ Len(sent) \in Nat /\ Len(u) \in Nat /\ Len(p) \in Nat
      BY <1>2, <1>3, ConcatProperties, LenProperties
<1>5. Len(H) \in Nat /\ Len(H) >= 1 /\ Len(<<>>) = 0 /\ <<>> \in Seq(Alphabet)
      BY HeaderSeq
<1> HIDE DEF u, q
<1>6. CASE ~Occurs(H, u)
  <2>1. ~Occurs(H, sent)
        BY <1>3, <1>6, StaysFirst DEF u
  <2>2. ~sw.found /\ sw.buf = LastOf(sent, Short(sent)) /\ toPipe = sent /\ toStdout = <<>>
        BY <2>1 DEF IInv, SwitchInv, SplitAtHeader, H
  <2>3. /\ ToFirst(sw, p) = p /\ q = <<>> /\ ~WritesSecond(sw, p)
        /\ SwitchWrite(sw, p) = [buf |-> LastOf(u, Short(u)), found |-> FALSE]
        BY <1>1, <1>3, <1>6, <2>1, <2>2, NotYet DEF u, q
  <2>4. Short(u) \in 0..Len(u) /\ Short(u) < Len(H)
        BY <1>4, <1>5 DEF Short
  <2>5. LastOf(u, Short(u)) \in Seq(Alphabet) /\ Len(LastOf(u, Short(u))) < Len(H)
    <3>1. PICK d \in 0..Len(u) : d = Len(u) - Short(u)
      <4>1. Len(u) - Short(u) \in 0..Len(u)
            BY <1>4, <2>4
      <4> QED
          BY <4>1
    <3>2. LastOf(u, Short(u)) = SubSeq(u, d + 1, Len(u))
          BY <3>1 DEF LastOf
    <3>3. /\ SubSeq(u, d + 1, Len(u)) \in Seq(Alphabet)
          /\ Len(SubSeq(u, d + 1, Len(u))) = Len(u) - d
          BY <1>4, RestOf
    <3>4. Len(u) - d = Short(u)
          BY <1>4, <2>4, <3>1
    <3> QED
        BY <2>4, <3>2, <3>3, <3>4
  <2>6. toPipe' = u /\ toStdout' = <<>>
    <3>1. <<>> \o <<>> = <<>>
          BY <1>5, ConcatEmptySeq
    <3> QED
        BY <1>1, <2>2, <2>3, <3>1 DEF u
  <2>7. sw' = [buf |-> LastOf(u, Short(u)), found |-> FALSE]
        BY <1>1, <2>3
  <2>8. SwitchInv'
    <3>1. ~sw'.found /\ sw'.buf = LastOf(u, Short(u))
          BY <2>7
    <3>2. ~Occurs(H, sent') /\ sw'.buf = LastOf(sent', Short(sent'))
          BY <1>1, <1>6, <3>1
    <3> QED
        BY <3>1, <3>2 DEF SwitchInv
  <2>9. SplitAtHeader'
        BY <1>1, <1>6, <2>6 DEF SplitAtHeader, H, Occurs, EndsAt
  <2> QED
      BY <1>4, <1>5, <2>3, <2>5, <2>6, <2>7, <2>8, <2>9 DEF q
<1>7. CASE Occurs(H, u) /\ ~Occurs(H, sent)
  <2>1. ~sw.found /\ sw.buf = LastOf(sent, Short(sent)) /\ toPipe = sent /\ toStdout = <<>>
        BY <1>7 DEF IInv, SwitchInv, SplitAtHeader, H
  <2>2. /\ sent \o ToFirst(sw, p) = SubSeq(u, 1, EndOfFirst(H, u))
        /\ q = SubSeq(u, EndOfFirst(H, u) + 1, Len(u))
        /\ NAfter(sw, p) \in 0..Len(p) /\ WritesSecond(sw, p)
        /\ SwitchWrite(sw, p) = [buf |-> <<>>, found |-> TRUE]
        BY <1>3, <1>7, <2>1, JustNow DEF u, q
  <2>3. PICK n \in 0..Len(p) : n = Len(p) - NAfter(sw, p)
    <3>1. Len(p) - NAfter(sw, p) \in 0..Len(p)
          BY <1>4, <2>2
    <3> QED
        BY <3>1
  <2>4. ToFirst(sw, p) = SubSeq(p, 1, n) /\ q = SubSeq(p, n + 1, Len(p))
        BY <2>3 DEF ToFirst, ToSecond, q
  <2>5. SubSeq(p, 1, n) \in Seq(Alphabet)
    <3>1. 0 \in Nat /\ 1 = 0 + 1
          OBVIOUS
    <3> QED
        BY <1>4, <3>1, PartOf
  <2>6. SubSeq(p, n + 1, Len(p)) \in Seq(Alphabet)
        BY RestOf
  <2>7. sw' = [buf |-> <<>>, found |-> TRUE]
        BY <1>1, <2>2
  <2>8. /\ toPipe' = SubSeq(u, 1, EndOfFirst(H, u))
        /\ toStdout' = SubSeq(u, EndOfFirst(H, u) + 1, Len(u))
    <3>1. q \in Seq(Alphabet)
          BY <2>4, <2>6
    <3>2. <<>> \o q = q
          BY <3>1, ConcatEmptySeq
    <3> QED
        BY <1>1, <2>1, <2>2, <3>2
  <2>9. toPipe' \in Seq(Alphabet)
        BY <1>1, <1>2, <2>4, <2>5, ConcatProperties
  <2>10. SwitchInv'
        BY <1>1, <1>7, <2>7 DEF SwitchInv, H, Occurs, EndsAt
  <2>11. SplitAtHeader'
        BY <1>1, <1>7, <2>8 DEF SplitAtHeader, H, Occurs, EndOfFirst, EndsAt
  <2>12. /\ sw' \in [buf : Seq(Alphabet), found : BOOLEAN]
         /\ Len(sw'.buf) < Len(H)
         BY <1>5, <2>7
  <2>13. ToSecond(sw, p) \in Seq(Alphabet) /\ WritesSecond(sw, p)
         BY <2>2, <2>4, <2>6 DEF q
  <2> QED
      BY <2>9, <2>10, <2>11, <2>12, <2>13
<1>8. CASE Occurs(H, sent)
  <2> DEFINE e == EndOfFirst(H, sent)
  <2>1. /\ sw.found /\ sw.buf = <<>>
        /\ toPipe = SubSeq(sent, 1, e) /\ toStdout = SubSeq(sent, e + 1, Len(sent))
        BY <1>8 DEF IInv, SwitchInv, SplitAtHeader, H
  <2>2. ToFirst(sw, p) = <<>> /\ q = p /\ WritesSecond(sw, p) /\ sw' = sw
        BY <1>1, <1>3, <2>1, Already DEF q
  <2>3. e \in 0..Len(sent)
        BY <1>4, <1>8, FirstPlace
  <2>4. Occurs(H, u) /\ EndOfFirst(H, u) = e
        BY <1>3, <1>8, StaysFirst DEF u
  <2>5. /\ SubSeq(u, 1, e) = SubSeq(sent, 1, e)
        /\ SubSeq(u, e + 1, Len(u)) = SubSeq(sent, e + 1, Len(sent)) \o p
        BY <1>3, <2>3, CutOld DEF u
  <2> HIDE DEF e
  <2>6. toPipe' = toPipe
        BY <1>1, <1>2, <2>2, ConcatEmptySeq
  <2>7. toPipe' = SubSeq(u, 1, e) /\ toStdout' = SubSeq(u, e + 1, Len(u))
        BY <1>1, <2>1, <2>2, <2>5, <2>6
  <2>8. SwitchInv'
        BY <1>1, <2>1, <2>2, <2>4 DEF SwitchInv, H, Occurs, EndsAt
  <2>9. SplitAtHeader'
        BY <1>1, <2>4, <2>7 DEF SplitAtHeader, H, Occurs, EndOfFirst, EndsAt
  <2> QED
      BY <1>2, <2>2, <2>6, <2>8, <2>9 DEF q
<1> QED
    BY <1>6, <1>7, <1>8

\* What is kept of a chunk.
LEMMA CopyLimits ==
    ASSUME IInv, NEW p \in Seq(Alphabet), Copy(p),
           ToSecond(sw, p) \in Seq(Alphabet),
           ~WritesSecond(sw, p) => ToSecond(sw, p) = <<>>
    PROVE  /\ LimitInv' /\ toStdout' \in Seq(Alphabet)
           /\ stdout' \in [dst : Seq(Alphabet), n : Int] /\ copying' \in BOOLEAN
<1> DEFINE q == ToSecond(sw, p)
<1>1. /\ toStdout \in Seq(Alphabet) /\ toStdout' = toStdout \o q
      /\ stdout \in [dst : Seq(Alphabet), n : Int] /\ copying \in BOOLEAN
      BY DEF IInv, TypeOK, Copy
<1>2. /\ stdout.n = Cap - Len(toStdout) /\ stdout.dst = Longest(toStdout, Cap)
      /\ stdout.n < 0 => ~copying
      BY DEF IInv, LimitInv, KeepsFirst
<1>3. /\ q \in Seq(Alphabet) /\ toStdout' \in Seq(Alphabet)
      /\ Len(q) \in Nat /\ Len(toStdout) \in Nat
      /\ Len(toStdout') = Len(toStdout) + Len(q)
      BY <1>1, ConcatProperties, LenProperties
<1>4. q \in Seq(Symbols) /\ toStdout \in Seq(Symbols)
  <2>1. Alphabet \subseteq Symbols
        BY DEF Symbols
  <2> QED
      BY <1>1, <1>3, <2>1, SeqMonotonic
<1>5. Cap \in Nat /\ Cap - Len(toStdout) \in Int
      BY <1>3, StreamAssumption
<1>6. CASE WritesSecond(sw, p)
  <2>1. /\ stdout' = [dst |-> stdout.dst \o Longest(q, stdout.n), n |-> stdout.n - Len(q)]
        /\ copying' = ~(stdout.n <= 0 \/ Len(q) > stdout.n)
        BY <1>6 DEF Copy, LimitedWrite, LimitedFails
  <2>2. stdout'.dst = Longest(toStdout', Cap)
        BY <1>1, <1>2, <1>4, <1>5, <2>1, StillFits
  <2>3. stdout'.dst \in Seq(Alphabet)
        BY <1>3, <1>5, <2>2, LongestIs
  <2>4. stdout'.n = stdout.n - Len(q) /\ stdout.n \in Int
        BY <1>1, <2>1
  <2>5. stdout'.n \in Int /\ stdout'.n = Cap - Len(toStdout')
        BY <1>2, <1>3, <1>5, <2>4
  <2>6. stdout'.n < 0 => ~copying'
    <3>1. copying' = ~(stdout.n <= 0 \/ Len(q) > stdout.n)
          BY <2>1
    <3>2. stdout'.n < 0 => Len(q) > stdout.n
          BY <1>3, <2>4
    <3> QED
        BY <3>1, <3>2
  <2>7. stdout' \in [dst : Seq(Alphabet), n : Int]
        BY <2>1, <2>3, <2>5
  <2>8. LimitInv'
        BY <2>2, <2>5, <2>6 DEF LimitInv, KeepsFirst
  <2> QED
      BY <1>3, <2>1, <2>7, <2>8
<1>7. CASE ~WritesSecond(sw, p)
  <2>1. stdout' = stdout /\ copying' = copying /\ q = <<>>
        BY <1>7 DEF Copy
  <2>2. toStdout' = toStdout
        BY <1>1, <2>1, ConcatEmptySeq
  <2>3. LimitInv'
        BY <1>2, <2>1, <2>2 DEF LimitInv, KeepsFirst
  <2> QED
      BY <1>1, <2>1, <2>2, <2>3
<1> QED
    BY <1>6, <1>7

\* Every step keeps the invariant.
LEMMA NextInv == IInv /\ [Next]_vars => IInv'
<1> SUFFICES ASSUME IInv, [Next]_vars PROVE IInv'
    OBVIOUS
<1>1. ASSUME NEW p \in Seq(Alphabet), Copy(p) PROVE IInv'
  <2>1. /\ SwitchInv' /\ SplitAtHeader'
        /\ sw' \in [buf : Seq(Alphabet), found : BOOLEAN]
        /\ Len(sw'.buf) < Len(H) /\ toPipe' \in Seq(Alphabet)
        /\ ToSecond(sw, p) \in Seq(Alphabet)
        /\ ~WritesSecond(sw, p) => ToSecond(sw, p) = <<>>
        BY <1>1, CopySplits
  <2>2. /\ LimitInv' /\ toStdout' \in Seq(Alphabet)
        /\ stdout' \in [dst : Seq(Alphabet), n : Int] /\ copying' \in BOOLEAN
        BY <1>1, <2>1, CopyLimits
  <2>3. sent' \in Seq(Alphabet)
        BY <1>1, ConcatProperties DEF IInv, TypeOK, Copy
  <2>4. TypeOK'
        BY <2>1, <2>2, <2>3 DEF TypeOK, H
  <2> QED
      BY <2>1, <2>2, <2>4 DEF IInv
<1>2. CASE UNCHANGED vars
      BY <1>2 DEF vars, IInv, TypeOK, SwitchInv, SplitAtHeader, LimitInv, KeepsFirst
<1> QED
    BY <1>1, <1>2 DEF Next

\* A negative rest and what is kept together tell a loss.
LEMMA LossShows == IInv => LossIsSeen
<1> SUFFICES ASSUME IInv PROVE LossIsSeen
    OBVIOUS
<1>1. /\ toStdout \in Seq(Alphabet) /\ stdout.n = Cap - Len(toStdout)
      /\ stdout.dst = Longest(toStdout, Cap)
      /\ stdout.n < 0 => ~copying
      BY DEF IInv, TypeOK, LimitInv, KeepsFirst
<1>2. Cap \in Int /\ Cap >= 0 /\ Len(toStdout) \in Nat
      BY <1>1, StreamAssumption, LenProperties
<1>3. stdout.dst = toStdout <=> Len(toStdout) <= Cap
  <2>1. Longest(toStdout, Cap) = toStdout <=> Len(toStdout) <= Cap
        BY <1>1, <1>2, LongestIs
  <2> QED
      BY <1>1, <2>1
<1>4. stdout.n < 0 <=> ~(Len(toStdout) <= Cap)
      BY <1>1, <1>2
<1> QED
    BY <1>1, <1>3, <1>4 DEF LossIsSeen

---------------------------------------------------------------------------
(* Theorems.                                                               *)

\* The invariant holds throughout.
THEOREM Inductive == Spec => []IInv
<1> QED
    BY InitInv, NextInv, PTL DEF Spec

\* Everything has its type, and the switchWriter never holds as much as a header.
THEOREM TypeCorrect == Spec => []TypeOK
<1>1. IInv => TypeOK
      BY DEF IInv
<1> QED
    BY <1>1, Inductive, PTL

\* However the output is cut, the split is at the end of the first header.
THEOREM AlwaysSplit == Spec => []SplitAtHeader
<1>1. IInv => SplitAtHeader
      BY DEF IInv
<1> QED
    BY <1>1, Inductive, PTL

\* Whatever the limit, the first bytes are kept.
THEOREM AlwaysKeepsFirst == Spec => []KeepsFirst
<1>1. IInv => KeepsFirst
      BY DEF IInv, LimitInv
<1> QED
    BY <1>1, Inductive, PTL

\* Lost output is told by a negative n, and copying has failed.
THEOREM AlwaysSeen == Spec => []LossIsSeen
<1> QED
    BY LossShows, Inductive, PTL
====
