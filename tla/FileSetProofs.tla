---- MODULE FileSetProofs ----
(***************************************************************************)
(* For any names, limits and texts: splitFiles takes a text apart as it is *)
(* documented, and /fmt returns the program it was given.                  *)
(*                                                                         *)
(* The loops of FileSet are recursive functions over the places of a       *)
(* sequence.  Each is shown to exist and to satisfy its equation before    *)
(* anything is shown of it; inductions are over sets of numbers.           *)
(***************************************************************************)
EXTENDS FileSet, SequenceTheorems, FiniteSetTheorems, TLAPS

---------------------------------------------------------------------------
(* Induction and loops.                                                    *)

LEMMA Least ==
    ASSUME NEW S \in SUBSET Nat, S # {}
    PROVE  \E m \in S : \A n \in S : m <= n
<1> DEFINE R == OpToRel(<, Nat)
<1>1. IsWellFoundedOn(R, Nat)
      BY NatLessThanWellFounded
<1>2. \A m, n \in Nat : <<m, n>> \in R <=> m < n
      BY DEF OpToRel
<1> HIDE DEF R
<1>3. PICK m \in S : \A n \in S : <<n, m>> \notin R
      BY <1>1, WFMin
<1>4. ASSUME NEW n \in S PROVE m <= n
  <2>1. m \in Nat /\ n \in Nat /\ ~(n < m)
        BY <1>2, <1>3
  <2> QED
      BY <2>1
<1> QED
    BY <1>4

\* A set of numbers with 0 that has the successor of each it has.
LEMMA Induction ==
    ASSUME NEW S, 0 \in S, \A n \in Nat : n \in S => n + 1 \in S
    PROVE  \A n \in Nat : n \in S
<1> DEFINE T == {n \in Nat : n \notin S}
<1>1. SUFFICES ASSUME T # {} PROVE FALSE
      OBVIOUS
<1>2. PICK m \in T : \A n \in T : m <= n
      BY <1>1, Least
<1>3. m \in Nat /\ m # 0 /\ m \notin S
      OBVIOUS
<1>4. m - 1 \in Nat /\ m - 1 \notin T
      BY <1>2, <1>3
<1> QED
    BY <1>3, <1>4

\* The same as far as N.
LEMMA InductionUpTo ==
    ASSUME NEW N \in Nat, NEW S, 0 \in S, \A n \in 1 .. N : n - 1 \in S => n \in S
    PROVE  \A n \in 0 .. N : n \in S
<1> DEFINE T == {n \in Nat : n <= N => n \in S}
<1>1. 0 \in T
      OBVIOUS
<1>2. ASSUME NEW n \in Nat, n \in T PROVE n + 1 \in T
  <2>1. CASE n + 1 <= N
    <3>1. n + 1 \in 1 .. N /\ (n + 1) - 1 = n /\ n \in S
          BY <1>2, <2>1
    <3> QED
        BY <3>1
  <2>2. CASE ~(n + 1 <= N)
        BY <2>2
  <2> QED
      BY <2>1, <2>2
<1>3. \A n \in Nat : n \in T
  <2> HIDE DEF T
  <2> QED
      BY <1>1, <1>2, Induction
<1> QED
    BY <1>3

\* f are the values of a loop with N turns, from a on, the turns being g.
Turns(g, N, V) == g \in [1 .. N -> [V -> V]]
Loop(f, g, N, V, a) ==
    f \in [0 .. N -> V] /\ f[0] = a /\ \A i \in 1 .. N : f[i] = g[i][f[i - 1]]

LEMMA LoopExists ==
    ASSUME NEW V, NEW N \in Nat, NEW a \in V, NEW g, Turns(g, N, V)
    PROVE  \E f : Loop(f, g, N, V, a)
<1>0. g \in [1 .. N -> [V -> V]]
      BY DEF Turns
<1> DEFINE Loops(f, n) == f[0] = a /\ \A i \in 1 .. n : f[i] = g[i][f[i - 1]]
           S == {n \in Nat : \E f \in [0 .. n -> V] : Loops(f, n)}
<1>1. 0 \in S
  <2>1. [i \in 0 .. 0 |-> a] \in [0 .. 0 -> V] /\ Loops([i \in 0 .. 0 |-> a], 0)
        OBVIOUS
  <2> HIDE DEF Loops
  <2> QED
      BY <2>1
<1>2. ASSUME NEW n \in 1 .. N, n - 1 \in S PROVE n \in S
  <2>1. PICK f \in [0 .. n - 1 -> V] : Loops(f, n - 1)
        BY <1>2
  <2> DEFINE h == [i \in 0 .. n |-> IF i = n THEN g[n][f[n - 1]] ELSE f[i]]
  <2>2. f[n - 1] \in V /\ \A i \in 0 .. n : i # n => f[i] \in V
        BY <1>2, <2>1
  <2>3. g[n][f[n - 1]] \in V
        BY <1>0, <1>2, <2>2
  <2>4. h \in [0 .. n -> V]
        BY <2>2, <2>3
  <2>5. h[0] = a
        BY <1>2, <2>1
  <2>6. ASSUME NEW i \in 1 .. n PROVE h[i] = g[i][h[i - 1]]
    <3>1. i - 1 \in 0 .. n /\ i - 1 # n /\ h[i - 1] = f[i - 1]
          OBVIOUS
    <3>2. CASE i = n
          BY <3>1, <3>2
    <3>3. CASE i # n
      <4>1. i \in 1 .. n - 1 /\ h[i] = f[i]
            BY <3>3
      <4> QED
          BY <2>1, <3>1, <4>1
    <3> QED
        BY <3>2, <3>3
  <2>7. Loops(h, n)
        BY <2>5, <2>6
  <2> HIDE DEF h, Loops
  <2> QED
      BY <2>4, <2>7
<1>3. N \in S
  <2> HIDE DEF S
  <2>1. \A n \in 0 .. N : n \in S
        BY <1>1, <1>2, InductionUpTo
  <2> QED
      BY <2>1
<1> QED
    BY <1>3 DEF Loop

\* There is one such loop.
Alike(f, h, N) ==
    f[0] = h[0] /\ \A i \in 1 .. N : f[i - 1] = h[i - 1] => f[i] = h[i]

LEMMA SameLoop ==
    ASSUME NEW N \in Nat, NEW f, NEW h, Alike(f, h, N)
    PROVE  \A i \in 0 .. N : f[i] = h[i]
<1> DEFINE S == {i \in 0 .. N : f[i] = h[i]}
<1>1. 0 \in S
      BY DEF Alike
<1>2. \A n \in 1 .. N : n - 1 \in S => n \in S
      BY DEF Alike
<1> HIDE DEF S
<1>3. \A n \in 0 .. N : n \in S
      BY <1>1, <1>2, InductionUpTo
<1> QED
    BY <1>3 DEF S

---------------------------------------------------------------------------
(* Names.                                                                  *)

\* Paths without empty parts.
Parts == (UNION {Range(n) : n \in Names}) \union {empty, dot, dotDot}
Paths == {p \in Seq(Parts) : \A k \in 1 .. Len(p) : p[k] # empty}

LEMMA PartsDiffer == empty # dot /\ empty # dotDot /\ dot # dotDot
BY Zenon DEF empty, dot, dotDot

LEMMA NameIs ==
    ASSUME NEW n \in Names
    PROVE  /\ n \in Seq(Parts) /\ n # <<>>
           /\ Len(n) \in Nat \ {0} /\ DOMAIN n = 1 .. Len(n)
           /\ \A k \in 1 .. Len(n) : n[k] \in Parts
<1>1. n \in Seq(Range(n)) /\ n # <<>> /\ Range(n) \subseteq Parts
      BY FileSetAssumption DEF Parts
<1>2. n \in Seq(Parts)
      BY <1>1, SeqMonotonic
<1> QED
    BY <1>1, <1>2, LenProperties, EmptySeq, ElementOfSeq

LEMMA CleanPartType ==
    ASSUME NEW n, NEW out \in Paths, NEW part \in Parts
    PROVE  CleanPart(n, out, part) \in Paths
<1>1. out \in Seq(Parts) /\ Len(out) \in Nat /\ \A k \in 1 .. Len(out) : out[k] # empty
      BY LenProperties DEF Paths
<1>2. ASSUME NEW q \in Parts, q # empty PROVE Append(out, q) \in Paths
  <2>1. /\ Append(out, q) \in Seq(Parts) /\ Len(Append(out, q)) = Len(out) + 1
        /\ \A k \in 1 .. Len(out) : Append(out, q)[k] = out[k]
        /\ Append(out, q)[Len(out) + 1] = q
        BY <1>1, AppendProperties
  <2> DEFINE r == Append(out, q)
  <2> HIDE DEF r
  <2>2. ASSUME NEW k \in 1 .. Len(r) PROVE r[k] # empty
    <3>1. k = Len(out) + 1 \/ k \in 1 .. Len(out)
          BY <1>1, <2>1 DEF r
    <3> QED
        BY <1>1, <1>2, <2>1, <3>1 DEF r
  <2> QED
      BY <2>1, <2>2 DEF Paths, r
<1>3. ASSUME out # <<>> PROVE Front(out) \in Paths
  <2> DEFINE m == Len(out) - 1
  <2>1. Len(out) # 0
        BY <1>1, <1>3, EmptySeq
  <2>2. m \in Int /\ 1 \in Int /\ m \in Nat /\ \A k \in 1 .. m : k \in 1 .. Len(out)
        BY <1>1, <2>1
  <2>3. \A k \in 1 .. m : out[k] \in Parts
        BY <1>1, <2>2, ElementOfSeq
  <2> DEFINE r == SubSeq(out, 1, m)
  <2>4. /\ r \in Seq(Parts) /\ Len(r) = IF 1 <= m THEN m - 1 + 1 ELSE 0
        /\ \A k \in 1 .. m - 1 + 1 : r[k] = out[1 + k - 1]
        BY <2>2, <2>3, SubSeqProperties
  <2>5. Front(out) = r
        BY DEF Front
  <2> HIDE DEF r, m
  <2>6. Len(r) = m /\ \A k \in 1 .. m : r[k] = out[k]
        BY <2>2, <2>4
  <2>7. \A k \in 1 .. Len(r) : r[k] # empty
        BY <1>1, <2>2, <2>6
  <2> QED
      BY <2>4, <2>5, <2>7 DEF Paths
<1>5. dotDot \in Parts /\ dotDot # empty
      BY PartsDiffer DEF Parts
<1>6. CASE part \in {empty, dot}
      BY <1>6 DEF CleanPart
<1>7. CASE part \notin {empty, dot} /\ part # dotDot
      BY <1>2, <1>7 DEF CleanPart
<1>8. CASE part = dotDot
  <2>1. CleanPart(n, out, part) \in {out, Append(out, dotDot)}
        \/ (out # <<>> /\ CleanPart(n, out, part) = Front(out))
        BY <1>8, PartsDiffer DEF CleanPart
  <2>2. Append(out, dotDot) \in Paths
        BY <1>2, <1>5
  <2> QED
      BY <1>3, <2>1, <2>2
<1> QED
    BY <1>6, <1>7, <1>8

\* The loop of Clean.
CleanLoop(n, f) ==
    /\ f[0] = <<>>
    /\ \A i \in 1 .. Len(n) : f[i] = CleanPart(n, f[i - 1], n[i])

LEMMA CleanIs ==
    ASSUME NEW n \in Names
    PROVE  \E f \in [0 .. Len(n) -> Paths] :
             /\ CleanLoop(n, f)
             /\ Clean(n) = IF IsAbs(n) THEN <<empty>> \o f[Len(n)]
                           ELSE IF f[Len(n)] = <<>> THEN <<dot>> ELSE f[Len(n)]
<1> DEFINE N == Len(n)
           g == [i \in 1 .. N |-> [x \in Paths |-> CleanPart(n, x, n[i])]]
           F == CHOOSE f : f = [i \in 0 .. N |->
                  IF i = 0 THEN <<>> ELSE CleanPart(n, f[i - 1], n[i])]
<1>1. N \in Nat /\ \A i \in 1 .. N : n[i] \in Parts
      BY NameIs
<1>2. <<>> \in Paths
      BY EmptySeq DEF Paths
<1>3. Turns(g, N, Paths)
      BY <1>1, CleanPartType DEF Turns
<1>4. PICK f \in [0 .. N -> Paths] :
        f[0] = <<>> /\ \A i \in 1 .. N : f[i] = g[i][f[i - 1]]
  <2>1. N \in Nat
        BY <1>1
  <2>2. PICK a \in Paths : a = <<>>
        BY <1>2
  <2> HIDE DEF g, N, F
  <2>3. \E f : Loop(f, g, N, Paths, a)
        BY <2>1, <1>3, LoopExists
  <2> QED
      BY <2>2, <2>3 DEF Loop
<1>5. \A i \in 1 .. N : i - 1 \in 0 .. N
      BY <1>1
<1>6. \A i \in 1 .. N : f[i] = CleanPart(n, f[i - 1], n[i])
      BY <1>4, <1>5
<1>7. CleanLoop(n, f)
      BY <1>4, <1>6 DEF CleanLoop
<1>8. f = [i \in 0 .. N |-> IF i = 0 THEN <<>> ELSE CleanPart(n, f[i - 1], n[i])]
  <2>1. \A i \in 0 .. N : i # 0 => i \in 1 .. N
        BY <1>1
  <2> HIDE DEF N
  <2> QED
      BY <1>4, <1>6, <2>1
<1>9. F = [i \in 0 .. N |-> IF i = 0 THEN <<>> ELSE CleanPart(n, F[i - 1], n[i])]
      BY <1>8
<1>10. Clean(n) = IF IsAbs(n) THEN <<empty>> \o F[N]
                  ELSE IF F[N] = <<>> THEN <<dot>> ELSE F[N]
      BY DEF Clean
<1> HIDE DEF F, N, g
<1>11. Alike(F, f, N)
  <2>1. 0 \in 0 .. N /\ \A i \in 1 .. N : i \in 0 .. N /\ i # 0
        BY <1>1
  <2>2. F[0] = f[0]
        BY <1>4, <1>6, <1>9, <2>1
  <2>3. \A i \in 1 .. N : F[i - 1] = f[i - 1] => F[i] = f[i]
        BY <1>4, <1>6, <1>9, <2>1
  <2> QED
      BY <2>2, <2>3 DEF Alike
<1>12. \A i \in 0 .. N : F[i] = f[i]
      BY <1>1, <1>11, SameLoop
<1>13. F[N] = f[N]
      BY <1>1, <1>12
<1> QED
    BY <1>7, <1>10, <1>13 DEF N

\* What splitFiles makes sure of by comparing a name with its clean form.
Proper(n) ==
    /\ Len(n) <= MaxDepth
    /\ \A k \in DOMAIN n : n[k] \notin BogusParts \union {empty, dot, dotDot}

LEMMA ProperIsClean ==
    ASSUME NEW n \in Names, \A k \in DOMAIN n : n[k] \notin {empty, dot, dotDot}
    PROVE  ~IsAbs(n) /\ Clean(n) = n
<1> DEFINE N == Len(n)
<1>1. /\ n \in Seq(Parts) /\ n # <<>> /\ N \in Nat \ {0} /\ DOMAIN n = 1 .. N
      /\ \A k \in 1 .. N : n[k] \in Parts
      BY NameIs
<1>2. PICK f \in [0 .. N -> Paths] :
        /\ CleanLoop(n, f)
        /\ Clean(n) = IF IsAbs(n) THEN <<empty>> \o f[N]
                      ELSE IF f[N] = <<>> THEN <<dot>> ELSE f[N]
      BY CleanIs
<1>3. ~IsAbs(n)
      BY <1>1 DEF IsAbs
<1> DEFINE S == {i \in 0 .. N : Len(f[i]) = i /\ \A k \in 1 .. i : f[i][k] = n[k]}
<1>4. 0 \in S
      BY <1>1, <1>2, EmptySeq DEF CleanLoop
<1>5. ASSUME NEW i \in 1 .. N, i - 1 \in S PROVE i \in S
  <2>0. i - 1 \in 0 .. N
        BY <1>1
  <2>1. f[i - 1] \in Seq(Parts) /\ n[i] \in Parts
    <3> HIDE DEF N
    <3> QED
        BY <1>1, <1>2, <2>0 DEF Paths
  <2>2. f[i] = Append(f[i - 1], n[i])
        BY <1>1, <1>2 DEF CleanLoop, CleanPart
  <2>3. Len(f[i - 1]) = i - 1 /\ \A k \in 1 .. i - 1 : f[i - 1][k] = n[k]
        BY <1>5
  <2> DEFINE o == f[i - 1]
  <2>4. /\ Len(Append(o, n[i])) = Len(o) + 1
        /\ \A k \in 1 .. Len(o) : Append(o, n[i])[k] = o[k]
        /\ Append(o, n[i])[Len(o) + 1] = n[i]
        BY <2>1, AppendProperties
  <2> HIDE DEF N
  <2>5. Len(f[i]) = i
        BY <2>2, <2>3, <2>4
  <2>6. ASSUME NEW k \in 1 .. i PROVE f[i][k] = n[k]
    <3>1. k = i \/ k \in 1 .. i - 1
          OBVIOUS
    <3>2. CASE k = i
          BY <2>2, <2>3, <2>4, <3>2
    <3>3. CASE k \in 1 .. i - 1
          BY <2>2, <2>3, <2>4, <3>3
    <3> QED
        BY <3>1, <3>2, <3>3
  <2> QED
      BY <1>1, <2>5, <2>6
<1> HIDE DEF S, N
<1>6. \A i \in 0 .. N : i \in S
      BY <1>1, <1>4, <1>5, InductionUpTo
<1>7. N \in 0 .. N
      BY <1>1
<1>8. f[N] \in Seq(Parts) /\ Len(f[N]) = N /\ \A k \in 1 .. N : f[N][k] = n[k]
      BY <1>2, <1>6, <1>7 DEF S, Paths
<1>9. f[N] = n
      BY <1>1, <1>8, SeqEqual DEF N
<1> QED
    BY <1>1, <1>2, <1>3, <1>9

LEMMA ValidIs ==
    ASSUME NEW n \in Names
    PROVE  Valid(n) <=> Proper(n)
<1>1. DOMAIN n = 1 .. Len(n) /\ Len(n) \in Nat \ {0} /\ n # <<>>
      BY NameIs
<1>2. ASSUME Proper(n) PROVE Valid(n)
  <2>1. ~IsAbs(n) /\ Clean(n) = n
        BY <1>2, ProperIsClean DEF Proper
  <2> QED
      BY <1>2, <2>1 DEF Valid, Proper
<1>3. ASSUME Valid(n) PROVE Proper(n)
  <2>1. PICK f \in [0 .. Len(n) -> Paths] :
          Clean(n) = IF IsAbs(n) THEN <<empty>> \o f[Len(n)]
                     ELSE IF f[Len(n)] = <<>> THEN <<dot>> ELSE f[Len(n)]
        BY CleanIs
  <2>2. Len(n) \in 0 .. Len(n)
        BY <1>1
  <2>3. n = Clean(n) /\ ~IsAbs(n) /\ \A i \in DOMAIN n : n[i] \notin {dot, dotDot}
        BY <1>3 DEF Valid
  <2>4. n # <<dot>>
    <3>1. ASSUME n = <<dot>> PROVE FALSE
      <4>1. n[1] = dot /\ 1 \in DOMAIN n
            BY <1>1, <3>1
      <4> QED
          BY <2>3, <4>1
    <3> QED
        BY <3>1
  <2>5. n = f[Len(n)]
        BY <2>1, <2>3, <2>4
  <2>6. n \in Paths
        BY <2>1, <2>2, <2>5
  <2> QED
      BY <1>1, <1>3, <2>6 DEF Paths, Proper, Valid
<1> QED
    BY <1>2, <1>3

---------------------------------------------------------------------------
(* Archives.                                                               *)

Plain == {Source(s) : s \in Sources}
Files == [name : Names, data : Seq(Plain)]
Archives == [comment : Seq(Plain), files : Seq(Files)]

LEMMA LineIs ==
    ASSUME NEW l \in Lines
    PROVE  /\ l.name = <<>> => l \in Plain
           /\ l.name # <<>> => l.name \in Names /\ l = Marker(l.name)
<1>1. CASE l \in Plain
  <2>1. l.name = <<>>
        BY <1>1 DEF Plain, Source
  <2> QED
      BY <1>1, <2>1
<1>2. CASE \E n \in Names : l = Marker(n)
  <2>1. PICK n \in Names : l = Marker(n)
        BY <1>2
  <2>2. l.name = n /\ n # <<>>
        BY <2>1, NameIs DEF Marker
  <2> QED
      BY <2>1, <2>2
<1> QED
    BY <1>1, <1>2 DEF Lines, Plain

LEMMA PlainIs ==
    ASSUME NEW l \in Plain
    PROVE  l \in Lines /\ l.name = <<>>
BY DEF Plain, Source, Lines

LEMMA ArchiveIs ==
    ASSUME NEW a \in Archives
    PROVE  /\ a.comment \in Seq(Plain) /\ a.files \in Seq(Files)
           /\ Len(a.files) \in Nat
           /\ \A k \in 1 .. Len(a.files) :
                a.files[k].name \in Names /\ a.files[k].data \in Seq(Plain)
<1>1. a.comment \in Seq(Plain) /\ a.files \in Seq(Files)
      BY DEF Archives
<1>2. Len(a.files) \in Nat /\ \A k \in 1 .. Len(a.files) : a.files[k] \in Files
      BY <1>1, LenProperties, ElementOfSeq
<1> QED
    BY <1>1, <1>2 DEF Files

\* The line of a marker starts a file.
LEMMA ParseMarker ==
    ASSUME NEW a \in Archives, NEW l, l.name \in Names
    PROVE  /\ ParseLine(a, l) \in Archives
           /\ ParseLine(a, l).comment = a.comment
           /\ ParseLine(a, l).files = Append(a.files, [name |-> l.name, data |-> <<>>])
<1>1. l.name # <<>>
      BY NameIs
<1>2. [name |-> l.name, data |-> <<>>] \in Files
      BY EmptySeq DEF Files
<1>3. a.comment \in Seq(Plain) /\ a.files \in Seq(Files)
      BY ArchiveIs
<1> DEFINE e == [name |-> l.name, data |-> <<>>]
           fs == Append(a.files, e)
<1>4. fs \in Seq(Files)
      BY <1>2, <1>3, AppendProperties
<1>5. ParseLine(a, l) = [a EXCEPT !.files = fs]
      BY <1>1 DEF ParseLine
<1> HIDE DEF fs
<1>6. ParseLine(a, l) = [comment |-> a.comment, files |-> fs]
      BY <1>5 DEF Archives
<1> QED
    BY <1>3, <1>4, <1>6 DEF Archives, fs

\* Another line goes to the comment, as long as there is no file.
LEMMA ParseComment ==
    ASSUME NEW a \in Archives, NEW l \in Plain, a.files = <<>>
    PROVE  /\ ParseLine(a, l) \in Archives
           /\ ParseLine(a, l).comment = Append(a.comment, l)
           /\ ParseLine(a, l).files = <<>>
<1>1. l.name = <<>> /\ a.comment \in Seq(Plain) /\ a.files \in Seq(Files)
      BY PlainIs, ArchiveIs
<1> DEFINE c == Append(a.comment, l)
<1>2. c \in Seq(Plain)
      BY <1>1, AppendProperties
<1>3. ParseLine(a, l) = [a EXCEPT !.comment = c]
      BY <1>1 DEF ParseLine
<1> HIDE DEF c
<1>4. ParseLine(a, l) = [comment |-> c, files |-> a.files]
      BY <1>3 DEF Archives
<1> QED
    BY <1>1, <1>2, <1>4 DEF Archives, c

\* Then it goes to the last one.
LEMMA ParseData ==
    ASSUME NEW a \in Archives, NEW l \in Plain, a.files # <<>>
    PROVE  LET b == ParseLine(a, l)
               L == Len(a.files)
           IN  /\ b \in Archives /\ b.comment = a.comment /\ Len(b.files) = L
               /\ \A k \in 1 .. L :
                    /\ b.files[k].name = a.files[k].name
                    /\ b.files[k].data = IF k = L THEN Append(a.files[k].data, l)
                                                  ELSE a.files[k].data
<1> DEFINE L == Len(a.files)
           d == Append(a.files[L].data, l)
           e == [name |-> a.files[L].name, data |-> d]
           fs == [a.files EXCEPT ![L] = e]
<1>1. /\ l.name = <<>> /\ a.comment \in Seq(Plain) /\ a.files \in Seq(Files)
      /\ L \in Nat /\ \A k \in 1 .. L : a.files[k] \in Files
      BY PlainIs, ArchiveIs, ElementOfSeq
<1>2. L \in 1 .. L
      BY <1>1, EmptySeq
<1>3. a.files[L] \in Files
      BY <1>1, <1>2
<1>4. d \in Seq(Plain)
  <2>1. a.files[L].data \in Seq(Plain)
        BY <1>3 DEF Files
  <2> QED
      BY <2>1, AppendProperties
<1>5. e \in Files /\ [a.files[L] EXCEPT !.data = d] = e
  <2> HIDE DEF d
  <2> QED
      BY <1>3, <1>4 DEF Files
<1>6. /\ fs \in Seq(Files) /\ Len(fs) = L
      /\ \A k \in 1 .. L : fs[k] = IF k = L THEN e ELSE a.files[k]
  <2> HIDE DEF e
  <2> QED
      BY <1>1, <1>2, <1>5, ExceptSeq
<1>7. ParseLine(a, l) = [a EXCEPT !.files = [a.files EXCEPT ![L] = [a.files[L] EXCEPT !.data = d]]]
      BY <1>1 DEF ParseLine
<1>8. ParseLine(a, l) = [a EXCEPT !.files = fs]
      BY <1>5, <1>7
<1> HIDE DEF fs
<1>9. ParseLine(a, l) = [comment |-> a.comment, files |-> fs]
      BY <1>8 DEF Archives
<1>10. ParseLine(a, l) \in Archives
       BY <1>1, <1>6, <1>9 DEF Archives
<1> HIDE DEF d
<1>11. \A k \in 1 .. L : /\ fs[k].name = a.files[k].name
                         /\ fs[k].data = IF k = L THEN d ELSE a.files[k].data
       BY <1>6
<1> QED
    BY <1>6, <1>9, <1>10, <1>11 DEF d

LEMMA ParseLineType ==
    ASSUME NEW a \in Archives, NEW l \in Lines
    PROVE  ParseLine(a, l) \in Archives
<1>1. CASE l.name # <<>>
      BY <1>1, LineIs, ParseMarker
<1>2. CASE l.name = <<>>
      BY <1>2, LineIs, ParseComment, ParseData
<1> QED
    BY <1>1, <1>2

\* The loop of Parse.
Empty == [comment |-> <<>>, files |-> <<>>]
ParseLoop(text, f) ==
    /\ f \in [0 .. Len(text) -> Archives] /\ f[0] = Empty
    /\ \A i \in 1 .. Len(text) : f[i] = ParseLine(f[i - 1], text[i])

LEMMA EmptyIs == Empty \in Archives /\ Empty.comment = <<>> /\ Empty.files = <<>>
BY EmptySeq DEF Empty, Archives

LEMMA ParseIs ==
    ASSUME NEW text \in Seq(Lines)
    PROVE  \E f : ParseLoop(text, f) /\ Parse(text) = f[Len(text)]
<1> DEFINE N == Len(text)
           g == [i \in 1 .. N |-> [x \in Archives |-> ParseLine(x, text[i])]]
           F == CHOOSE f : f = [i \in 0 .. N |->
                  IF i = 0 THEN Empty ELSE ParseLine(f[i - 1], text[i])]
<1>1. N \in Nat /\ \A i \in 1 .. N : text[i] \in Lines
      BY LenProperties, ElementOfSeq
<1>2. Empty \in Archives
      BY EmptyIs
<1>3. Turns(g, N, Archives)
      BY <1>1, ParseLineType DEF Turns
<1>4. PICK f : Loop(f, g, N, Archives, Empty)
  <2>1. N \in Nat
        BY <1>1
  <2> HIDE DEF g, N, F
  <2>2. \E f : Loop(f, g, N, Archives, Empty)
        BY <2>1, <1>2, <1>3, LoopExists
  <2> QED
      BY <2>2
<1>5. \A i \in 1 .. N : i - 1 \in 0 .. N
      BY <1>1
<1>6. f \in [0 .. N -> Archives] /\ f[0] = Empty
      BY <1>4 DEF Loop
<1>7. \A i \in 1 .. N : f[i] = ParseLine(f[i - 1], text[i])
      BY <1>4, <1>5, <1>6 DEF Loop
<1>8. f = [i \in 0 .. N |-> IF i = 0 THEN Empty ELSE ParseLine(f[i - 1], text[i])]
  <2>1. \A i \in 0 .. N : i # 0 => i \in 1 .. N
        BY <1>1
  <2> HIDE DEF N
  <2> QED
      BY <1>6, <1>7, <2>1
<1>9. F = [i \in 0 .. N |-> IF i = 0 THEN Empty ELSE ParseLine(F[i - 1], text[i])]
      BY <1>8
<1>10. Parse(text) = F[N]
       BY DEF Parse, Empty
<1> HIDE DEF F, N, g
<1>11. Alike(F, f, N)
  <2>1. 0 \in 0 .. N /\ \A i \in 1 .. N : i \in 0 .. N /\ i # 0
        BY <1>1
  <2>2. F[0] = f[0]
        BY <1>6, <1>7, <1>9, <2>1
  <2>3. \A i \in 1 .. N : F[i - 1] = f[i - 1] => F[i] = f[i]
        BY <1>6, <1>7, <1>9, <2>1
  <2> QED
      BY <2>2, <2>3 DEF Alike
<1>12. \A i \in 0 .. N : F[i] = f[i]
      BY <1>1, <1>11, SameLoop
<1>13. F[N] = f[N]
      BY <1>1, <1>12
<1>14. ParseLoop(text, f)
      BY <1>6, <1>7 DEF ParseLoop, N
<1> QED
    BY <1>10, <1>13, <1>14 DEF N

\* What precedes a line, and the line.
LEMMA SubSeqAppend ==
    ASSUME NEW S, NEW t \in Seq(S), NEW n \in 1 .. Len(t), NEW m \in 1 .. n
    PROVE  SubSeq(t, m, n) = Append(SubSeq(t, m, n - 1), t[n])
<1>1. Len(t) \in Nat /\ m \in 1 .. Len(t) /\ n \in m .. Len(t)
      BY LenProperties
<1>2. SubSeq(t, m, n) = SubSeq(t, m, n - 1) \o <<t[n]>>
      BY <1>1, SubSeqRecursiveSecond
<1>3. \A i \in m .. n - 1 : t[i] \in S
  <2>1. \A i \in m .. n - 1 : i \in 1 .. Len(t)
        BY <1>1
  <2> QED
      BY <2>1, ElementOfSeq
<1>4. SubSeq(t, m, n - 1) \in Seq(S)
  <2>1. m \in Int /\ n - 1 \in Int
        BY <1>1
  <2> QED
      BY <2>1, <1>3, SubSeqProperties
<1>5. t[n] \in S
      BY ElementOfSeq
<1> QED
    BY <1>2, <1>4, <1>5, AppendIsConcat

\* a is what Parse makes of the first n lines, with the markers at the lines pos.
Ends(a, n, pos, k) == IF k = Len(a.files) THEN n ELSE pos[k + 1] - 1
Laid(text, n, a, pos) ==
    LET L == Len(a.files)
    IN  /\ pos \in [1 .. L -> 1 .. n]
        /\ \A k, l \in 1 .. L : k < l => pos[k] < pos[l]
        /\ \A i \in 1 .. n : text[i].name # <<>> => \E k \in 1 .. L : pos[k] = i
        /\ \A k \in 1 .. L :
             /\ text[pos[k]].name # <<>>
             /\ a.files[k].name = text[pos[k]].name
             /\ a.files[k].data = SubSeq(text, pos[k] + 1, Ends(a, n, pos, k))
        /\ a.comment = SubSeq(text, 1, IF L = 0 THEN n ELSE pos[1] - 1)

LEMMA LaidNothing ==
    ASSUME NEW text \in Seq(Lines)
    PROVE  Laid(text, 0, Empty, [k \in {} |-> 0])
<1>1. Len(Empty.files) = 0 /\ Empty.comment = <<>>
      BY EmptyIs, EmptySeq
<1>2. SubSeq(text, 1, 0) = <<>>
      BY SubSeqEmpty
<1>3. \A k : k \notin 1 .. 0
      OBVIOUS
<1>4. [k \in {} |-> 0] \in [1 .. 0 -> 1 .. 0]
      BY <1>3
<1> QED
    BY <1>1, <1>2, <1>3, <1>4 DEF Laid

LEMMA LaidMarker ==
    ASSUME NEW text \in Seq(Lines), NEW n \in 1 .. Len(text), NEW a \in Archives,
           NEW pos, Laid(text, n - 1, a, pos), text[n].name # <<>>
    PROVE  \E q : Laid(text, n, ParseLine(a, text[n]), q)
<1> DEFINE L == Len(a.files)
           b == ParseLine(a, text[n])
           q == [k \in 1 .. L + 1 |-> IF k = L + 1 THEN n ELSE pos[k]]
<1>1. Len(text) \in Nat /\ text[n] \in Lines
      BY LenProperties, ElementOfSeq
<1>2. L \in Nat /\ a.files \in Seq(Files)
      BY ArchiveIs
<1>3. text[n].name \in Names
      BY <1>1, LineIs
<1>4. /\ b.comment = a.comment
      /\ b.files = Append(a.files, [name |-> text[n].name, data |-> <<>>])
      BY <1>3, ParseMarker
<1>5. [name |-> text[n].name, data |-> <<>>] \in Files
      BY <1>3, EmptySeq DEF Files
<1>6. /\ Len(b.files) = L + 1 /\ \A k \in 1 .. L : b.files[k] = a.files[k]
      /\ b.files[L + 1].name = text[n].name /\ b.files[L + 1].data = <<>>
      BY <1>2, <1>4, <1>5, AppendProperties
<1>7. /\ pos \in [1 .. L -> 1 .. n - 1]
      /\ \A k, l \in 1 .. L : k < l => pos[k] < pos[l]
      /\ \A i \in 1 .. n - 1 : text[i].name # <<>> => \E k \in 1 .. L : pos[k] = i
      /\ \A k \in 1 .. L :
           /\ text[pos[k]].name # <<>>
           /\ a.files[k].name = text[pos[k]].name
           /\ a.files[k].data = SubSeq(text, pos[k] + 1, Ends(a, n - 1, pos, k))
      /\ a.comment = SubSeq(text, 1, IF L = 0 THEN n - 1 ELSE pos[1] - 1)
      BY DEF Laid
<1> HIDE DEF b, L
<1>8. /\ \A k \in 1 .. L : k \in 1 .. L + 1 /\ k # L + 1 /\ q[k] = pos[k]
      /\ L + 1 \in 1 .. L + 1 /\ q[L + 1] = n
      /\ \A k \in 1 .. L + 1 : k \in 1 .. L \/ k = L + 1
      BY <1>2
<1>9. \A k \in 1 .. L : pos[k] \in 1 .. n - 1
      BY <1>7
<1>10. q \in [1 .. L + 1 -> 1 .. n]
  <2>1. n \in 1 .. n /\ \A i \in 1 .. n - 1 : i \in 1 .. n
        BY <1>1
  <2>2. \A k \in 1 .. L + 1 : q[k] \in 1 .. n
        BY <1>8, <1>9, <2>1
  <2> QED
      BY <2>2
<1> HIDE DEF q
<1>11. ASSUME NEW k \in 1 .. L + 1, NEW l \in 1 .. L + 1, k < l
       PROVE  q[k] < q[l]
  <2>1. k \in 1 .. L
        BY <1>2, <1>11
  <2>2. CASE l \in 1 .. L
        BY <1>7, <1>8, <1>11, <2>1, <2>2
  <2>3. CASE l = L + 1
        BY <1>8, <1>9, <2>1, <2>3
  <2> QED
      BY <1>8, <2>2, <2>3
<1>12. ASSUME NEW i \in 1 .. n, text[i].name # <<>>
       PROVE  \E k \in 1 .. L + 1 : q[k] = i
  <2>1. i = n \/ i \in 1 .. n - 1
        OBVIOUS
  <2>2. CASE i = n
        BY <1>8, <2>2
  <2>3. CASE i \in 1 .. n - 1
        BY <1>7, <1>8, <1>12, <2>3
  <2> QED
      BY <2>1, <2>2, <2>3
<1>13. ASSUME NEW k \in 1 .. L
       PROVE  Ends(b, n, q, k) = Ends(a, n - 1, pos, k)
  <2>1. CASE k = L
        BY <1>2, <1>6, <1>8, <2>1 DEF Ends, L
  <2>2. CASE k # L
    <3>1. k + 1 \in 1 .. L /\ k # L + 1
          BY <1>2, <2>2
    <3>2. q[k + 1] = pos[k + 1]
          BY <1>8, <3>1
    <3> QED
        BY <1>6, <2>2, <3>1, <3>2 DEF Ends, L
  <2> QED
      BY <2>1, <2>2
<1>14. ASSUME NEW k \in 1 .. L + 1
       PROVE  /\ text[q[k]].name # <<>>
              /\ b.files[k].name = text[q[k]].name
              /\ b.files[k].data = SubSeq(text, q[k] + 1, Ends(b, n, q, k))
  <2>1. CASE k \in 1 .. L
        BY <1>6, <1>7, <1>8, <1>13, <2>1
  <2>2. CASE k = L + 1
    <3>1. Ends(b, n, q, k) = n
          BY <1>6, <2>2 DEF Ends
    <3>2. n + 1 \in Int /\ n \in Int /\ n < n + 1
          BY <1>1
    <3>3. SubSeq(text, n + 1, n) = <<>>
          BY <3>2, SubSeqEmpty
    <3> QED
        BY <1>6, <1>8, <2>2, <3>1, <3>3
  <2> QED
      BY <1>8, <2>1, <2>2
<1>15. b.comment = SubSeq(text, 1, IF L + 1 = 0 THEN n ELSE q[1] - 1)
  <2>1. L + 1 # 0
        BY <1>2
  <2>2. q[1] - 1 = IF L = 0 THEN n - 1 ELSE pos[1] - 1
    <3>1. CASE L = 0
          BY <1>8, <3>1
    <3>2. CASE L # 0
      <4>1. 1 \in 1 .. L
            BY <1>2, <3>2
      <4> QED
          BY <1>8, <3>2, <4>1
    <3> QED
        BY <3>1, <3>2
  <2> QED
      BY <1>4, <1>7, <2>1, <2>2
<1>16. Laid(text, n, b, q)
       BY <1>6, <1>10, <1>11, <1>12, <1>14, <1>15 DEF Laid
<1> QED
    BY <1>16 DEF b

LEMMA LaidPlain ==
    ASSUME NEW text \in Seq(Lines), NEW n \in 1 .. Len(text), NEW a \in Archives,
           NEW pos, Laid(text, n - 1, a, pos), text[n].name = <<>>
    PROVE  Laid(text, n, ParseLine(a, text[n]), pos)
<1> DEFINE L == Len(a.files)
           l == text[n]
           b == ParseLine(a, l)
<1>1. Len(text) \in Nat /\ l \in Plain
      BY LenProperties, ElementOfSeq, LineIs
<1>2. L \in Nat /\ a.files \in Seq(Files) /\ (L = 0 <=> a.files = <<>>)
      BY ArchiveIs, EmptySeq
<1>3. /\ pos \in [1 .. L -> 1 .. n - 1]
      /\ \A k, m \in 1 .. L : k < m => pos[k] < pos[m]
      /\ \A i \in 1 .. n - 1 : text[i].name # <<>> => \E k \in 1 .. L : pos[k] = i
      /\ \A k \in 1 .. L :
           /\ text[pos[k]].name # <<>>
           /\ a.files[k].name = text[pos[k]].name
           /\ a.files[k].data = SubSeq(text, pos[k] + 1, Ends(a, n - 1, pos, k))
      /\ a.comment = SubSeq(text, 1, IF L = 0 THEN n - 1 ELSE pos[1] - 1)
      BY DEF Laid
<1>4. CASE L = 0
  <2>1. b.comment = Append(a.comment, l) /\ b.files = <<>>
        BY <1>1, <1>2, <1>4, ParseComment
  <2>2. Len(b.files) = 0
        BY <2>1, EmptySeq
  <2>3. a.comment = SubSeq(text, 1, n - 1)
        BY <1>3, <1>4
  <2>4. 1 \in 1 .. n
        BY <1>1
  <2>5. b.comment = SubSeq(text, 1, n)
        BY <2>1, <2>3, <2>4, SubSeqAppend
  <2> HIDE DEF b, L
  <2>6. \A k : k \notin 1 .. L
        BY <1>4
  <2>7. pos \in [1 .. L -> 1 .. n]
        BY <1>3, <2>6
  <2>8. \A i \in 1 .. n : text[i].name = <<>>
    <3>1. \A i \in 1 .. n : i = n \/ i \in 1 .. n - 1
          OBVIOUS
    <3> QED
        BY <1>3, <2>6, <3>1
  <2> QED
      BY <1>4, <2>2, <2>5, <2>6, <2>7, <2>8 DEF Laid, b
<1>5. CASE L # 0
  <2>1. /\ b.comment = a.comment /\ Len(b.files) = L
        /\ \A k \in 1 .. L :
             /\ b.files[k].name = a.files[k].name
             /\ b.files[k].data = IF k = L THEN Append(a.files[k].data, l)
                                           ELSE a.files[k].data
        BY <1>1, <1>2, <1>5, ParseData
  <2>2. \A k \in 1 .. L : Ends(b, n, pos, k) = IF k = L THEN n ELSE Ends(a, n - 1, pos, k)
        BY <2>1 DEF Ends
  <2>3. Ends(a, n - 1, pos, L) = n - 1
        BY DEF Ends
  <2> HIDE DEF b, L, l
  <2>4. ASSUME NEW k \in 1 .. L
        PROVE  b.files[k].data = SubSeq(text, pos[k] + 1, Ends(b, n, pos, k))
    <3>1. CASE k = L
      <4>0. pos[k] \in 1 .. n - 1
            BY <1>3
      <4>1. pos[k] + 1 \in 1 .. n
            BY <4>0
      <4>2. SubSeq(text, pos[k] + 1, n) = Append(SubSeq(text, pos[k] + 1, n - 1), l)
            BY <4>1, SubSeqAppend DEF l
      <4>3. b.files[k].data = Append(a.files[k].data, l)
            BY <2>1, <3>1
      <4>4. a.files[k].data = SubSeq(text, pos[k] + 1, n - 1)
        <5>1. a.files[k].data = SubSeq(text, pos[k] + 1, Ends(a, n - 1, pos, k))
              BY <1>3
        <5> QED
            BY <2>3, <3>1, <5>1
      <4>5. Ends(b, n, pos, k) = n
            BY <2>2, <3>1
      <4> QED
          BY <4>2, <4>3, <4>4, <4>5
    <3>2. CASE k # L
          BY <1>3, <2>1, <2>2, <3>2
    <3> QED
        BY <3>1, <3>2
  <2>5. pos \in [1 .. L -> 1 .. n]
    <3>1. \A i \in 1 .. n - 1 : i \in 1 .. n
          BY <1>1
    <3> QED
        BY <1>3, <3>1
  <2>6. ASSUME NEW i \in 1 .. n, text[i].name # <<>>
        PROVE  \E k \in 1 .. L : pos[k] = i
    <3>1. i # n
          BY <2>6
    <3>2. i \in 1 .. n - 1
          BY <3>1
    <3> QED
        BY <1>3, <2>6, <3>2
  <2> QED
      BY <1>3, <1>5, <2>1, <2>4, <2>5, <2>6 DEF Laid, b, l
<1> QED
    BY <1>4, <1>5

\* Parse, of a whole text.
LEMMA ParseLaid ==
    ASSUME NEW text \in Seq(Lines)
    PROVE  Parse(text) \in Archives /\ \E pos : Laid(text, Len(text), Parse(text), pos)
<1> DEFINE N == Len(text)
<1>1. N \in Nat
      BY LenProperties
<1>2. PICK f : ParseLoop(text, f) /\ Parse(text) = f[N]
      BY ParseIs
<1>3. /\ f \in [0 .. N -> Archives] /\ f[0] = Empty
      /\ \A i \in 1 .. N : f[i] = ParseLine(f[i - 1], text[i])
      BY <1>2 DEF ParseLoop
<1> DEFINE S == {i \in 0 .. N : \E pos : Laid(text, i, f[i], pos)}
<1>4. 0 \in S
      BY <1>1, <1>3, LaidNothing
<1>5. ASSUME NEW i \in 1 .. N, i - 1 \in S PROVE i \in S
  <2>1. PICK pos : Laid(text, i - 1, f[i - 1], pos)
        BY <1>5
  <2>2. f[i - 1] \in Archives /\ f[i] = ParseLine(f[i - 1], text[i]) /\ i \in 0 .. N
        BY <1>1, <1>3, <1>5
  <2>3. \E q : Laid(text, i, f[i], q)
        BY <2>1, <2>2, LaidMarker, LaidPlain
  <2> QED
      BY <2>2, <2>3
<1> HIDE DEF S
<1>6. \A i \in 0 .. N : i \in S
      BY <1>1, <1>4, <1>5, InductionUpTo
<1>7. N \in 0 .. N
      BY <1>1
<1> QED
    BY <1>2, <1>3, <1>6, <1>7 DEF S

---------------------------------------------------------------------------
(* Sets of files.                                                          *)

FileNames == Names \union {progName}
Maps == UNION {[D -> Seq(Plain)] : D \in SUBSET FileNames}
FileSets == [ok : BOOLEAN, files : Seq(FileNames), m : Maps, noHeader : BOOLEAN]

LEMMA FileSetIs ==
    ASSUME NEW fs \in FileSets
    PROVE  /\ fs.ok \in BOOLEAN /\ fs.noHeader \in BOOLEAN
           /\ fs.files \in Seq(FileNames) /\ Len(fs.files) \in Nat
           /\ DOMAIN fs.m \subseteq FileNames
           /\ fs.m \in [DOMAIN fs.m -> Seq(Plain)]
           /\ fs = [ok |-> fs.ok, files |-> fs.files, m |-> fs.m, noHeader |-> fs.noHeader]
<1>1. /\ fs.ok \in BOOLEAN /\ fs.noHeader \in BOOLEAN
      /\ fs.files \in Seq(FileNames) /\ fs.m \in Maps
      /\ fs = [ok |-> fs.ok, files |-> fs.files, m |-> fs.m, noHeader |-> fs.noHeader]
      BY DEF FileSets
<1>2. PICK D \in SUBSET FileNames : fs.m \in [D -> Seq(Plain)]
      BY <1>1 DEF Maps
<1>3. DOMAIN fs.m = D
      BY <1>2
<1> QED
    BY <1>1, <1>2, <1>3, LenProperties

LEMMA NewIs ==
    /\ NewFileSet \in FileSets /\ NewFileSet.ok /\ ~NewFileSet.noHeader
    /\ NewFileSet.files = <<>> /\ DOMAIN NewFileSet.m = {}
    /\ Refused \in FileSets /\ ~Refused.ok
<1> DEFINE m == [n \in {} |-> <<>>]
<1>1. m \in [{} -> Seq(Plain)] /\ DOMAIN m = {}
      OBVIOUS
<1>2. {} \in SUBSET FileNames
      OBVIOUS
<1>3. m \in Maps
      BY <1>1, <1>2 DEF Maps
<1>4. <<>> \in Seq(FileNames)
      BY EmptySeq
<1>a. PICK yes \in BOOLEAN : yes = TRUE
      OBVIOUS
<1>b. PICK no \in BOOLEAN : no = FALSE
      OBVIOUS
<1>5. NewFileSet = [ok |-> yes, files |-> <<>>, m |-> m, noHeader |-> no]
      BY <1>a, <1>b DEF NewFileSet
<1> HIDE DEF m
<1>6. Refused = [ok |-> no, files |-> <<>>, m |-> m, noHeader |-> no]
  <2>1. Refused = [NewFileSet EXCEPT !.ok = no]
        BY <1>b DEF Refused
  <2> QED
      BY <1>5, <2>1
<1> QED
    BY <1>1, <1>3, <1>4, <1>5, <1>6, <1>a, <1>b DEF FileSets

\* r is fs with data as the contents of n.
Adds(fs, n, data, r) ==
    /\ r \in FileSets /\ (r.ok <=> fs.ok) /\ (r.noHeader <=> fs.noHeader)
    /\ DOMAIN r.m = DOMAIN fs.m \union {n} /\ r.m[n] = data
    /\ \A k \in DOMAIN fs.m : k # n => r.m[k] = fs.m[k]
    /\ r.files = IF Holds(fs, n) THEN fs.files ELSE Append(fs.files, n)

LEMMA AddFileIs ==
    ASSUME NEW fs \in FileSets, NEW n \in FileNames, NEW data \in Seq(Plain)
    PROVE  Adds(fs, n, data, AddFile(fs, n, data))
<1> DEFINE m == [k \in DOMAIN fs.m \union {n} |-> IF k = n THEN data ELSE fs.m[k]]
           l == IF Holds(fs, n) THEN fs.files ELSE Append(fs.files, n)
           D == DOMAIN fs.m
<1>1. /\ fs.ok \in BOOLEAN /\ fs.noHeader \in BOOLEAN /\ fs.files \in Seq(FileNames)
      /\ D \subseteq FileNames /\ fs.m \in [D -> Seq(Plain)]
      /\ fs = [ok |-> fs.ok, files |-> fs.files, m |-> fs.m, noHeader |-> fs.noHeader]
      BY FileSetIs
<1>2. Put(fs.m, n, data) = m
      BY DEF Put
<1>3. m \in [D \union {n} -> Seq(Plain)]
  <2>1. \A k \in D : fs.m[k] \in Seq(Plain)
        BY <1>1
  <2> HIDE DEF D
  <2>2. \A k \in D \union {n} : (IF k = n THEN data ELSE fs.m[k]) \in Seq(Plain)
        BY <2>1
  <2> QED
      BY <2>2 DEF D
<1>4. D \union {n} \in SUBSET FileNames
      BY <1>1
<1>5. m \in Maps
      BY <1>3, <1>4 DEF Maps
<1>6. l \in Seq(FileNames)
      BY <1>1, AppendProperties
<1>7. AddFile(fs, n, data) = [fs EXCEPT !.m = m, !.files = l]
      BY <1>2 DEF AddFile
<1>8. /\ DOMAIN m = DOMAIN fs.m \union {n} /\ m[n] = data
      /\ \A k \in DOMAIN fs.m : k # n => m[k] = fs.m[k]
      OBVIOUS
<1> HIDE DEF m, l
<1>9. AddFile(fs, n, data) = [ok |-> fs.ok, files |-> l, m |-> m, noHeader |-> fs.noHeader]
      BY <1>1, <1>7
<1> DEFINE r == AddFile(fs, n, data)
<1> HIDE DEF r
<1>10. (r.ok <=> fs.ok) /\ r.files = l /\ r.m = m /\ (r.noHeader <=> fs.noHeader)
       BY <1>9 DEF r
<1>11. r \in FileSets
       BY <1>1, <1>5, <1>6, <1>9 DEF FileSets, r
<1> QED
    BY <1>8, <1>10, <1>11 DEF r, l, Adds

---------------------------------------------------------------------------
(* splitFiles.                                                             *)

\* What splitFiles starts with.
Implicit(a) == ~Blank(a.comment)
First(a) ==
    IF Blank(a.comment) THEN NewFileSet
    ELSE AddFile([NewFileSet EXCEPT !.noHeader = TRUE], progName, a.comment)

\* The names of the first i files, and whether they are as they should be.
Before(a) == IF Implicit(a) THEN 1 ELSE 0
Taken(a, i) ==
    {a.files[k].name : k \in 1 .. i} \union IF Implicit(a) THEN {progName} ELSE {}
GoodUpTo(a, i) ==
    \A k \in 1 .. i : Proper(a.files[k].name) /\ a.files[k].name \notin Taken(a, k - 1)

\* fs is what splitFiles makes of the first i files.
Filled(a, i, fs) ==
    /\ fs.noHeader <=> Implicit(a)
    /\ DOMAIN fs.m = Taken(a, i)
    /\ Len(fs.files) = Before(a) + i
    /\ \A k \in 1 .. i : /\ fs.files[Before(a) + k] = a.files[k].name
                         /\ fs.m[a.files[k].name] = a.files[k].data
    /\ Implicit(a) => fs.files[1] = progName /\ fs.m[progName] = a.comment
SplitUpTo(a, i, fs) ==
    (fs.ok <=> GoodUpTo(a, i)) /\ (fs.ok => Filled(a, i, fs))

LEMMA FirstIs ==
    ASSUME NEW a \in Archives
    PROVE  First(a) \in FileSets /\ Num(First(a)) = Before(a) /\ SplitUpTo(a, 0, First(a))
<1>0. \A k : k \notin 1 .. 0
      OBVIOUS
<1>1. GoodUpTo(a, 0)
      BY <1>0 DEF GoodUpTo
<1>2. Taken(a, 0) = IF Implicit(a) THEN {progName} ELSE {}
      BY <1>0 DEF Taken
<1>3. a.comment \in Seq(Plain)
      BY ArchiveIs
<1>4. CASE Blank(a.comment)
  <2>1. First(a) = NewFileSet /\ ~Implicit(a) /\ Before(a) = 0
        BY <1>4 DEF First, Implicit, Before
  <2>2. Num(NewFileSet) = 0
        BY NewIs, FS_EmptySet DEF Num
  <2>3. Len(NewFileSet.files) = 0
        BY NewIs, EmptySeq
  <2>4. ~NewFileSet.noHeader
        BY NewIs
  <2>5. Filled(a, 0, NewFileSet)
        BY <1>0, <1>2, <2>1, <2>3, <2>4, NewIs DEF Filled
  <2> QED
      BY <1>1, <2>1, <2>2, <2>5, NewIs DEF SplitUpTo
<1>5. CASE ~Blank(a.comment)
  <2> DEFINE n == [NewFileSet EXCEPT !.noHeader = TRUE]
             r == AddFile(n, progName, a.comment)
  <2>1. First(a) = r /\ Implicit(a) /\ Before(a) = 1
        BY <1>5 DEF First, Implicit, Before
  <2>2. /\ n \in FileSets /\ n.ok = TRUE /\ n.noHeader = TRUE
        /\ n.files = <<>> /\ DOMAIN n.m = {}
    <3>a. PICK yes \in BOOLEAN : yes = TRUE
          OBVIOUS
    <3>b. PICK new \in FileSets : new = NewFileSet
          BY NewIs
    <3>c. new = [ok |-> yes, files |-> <<>>, m |-> new.m, noHeader |-> new.noHeader]
          BY <3>a, <3>b, NewIs DEF FileSets
    <3>d. n = [new EXCEPT !.noHeader = yes]
          BY <3>a, <3>b
    <3> HIDE DEF n
    <3>1. n = [ok |-> yes, files |-> <<>>, m |-> NewFileSet.m, noHeader |-> yes]
      <4>1. n = [ok |-> yes, files |-> <<>>, m |-> new.m, noHeader |-> yes]
            BY <3>c, <3>d
      <4> QED
          BY <3>b, <4>1
    <3>2. NewFileSet.m \in Maps /\ DOMAIN NewFileSet.m = {}
          BY NewIs DEF FileSets
    <3>3. <<>> \in Seq(FileNames)
          BY EmptySeq
    <3> QED
        BY <3>1, <3>2, <3>3, <3>a DEF FileSets
  <2> HIDE DEF n
  <2>3. progName \in FileNames
        BY DEF FileNames
  <2>a. Adds(n, progName, a.comment, r)
        BY <1>3, <2>2, <2>3, AddFileIs
  <2>4. /\ r \in FileSets /\ r.ok /\ r.noHeader
        /\ DOMAIN r.m = {} \union {progName} /\ r.m[progName] = a.comment
        /\ r.files = IF Holds(n, progName) THEN n.files ELSE Append(n.files, progName)
        BY <2>2, <2>a DEF Adds
  <2>5. ~Holds(n, progName)
        BY <2>2 DEF Holds
  <2>6. r.files = Append(<<>>, progName)
        BY <2>2, <2>4, <2>5
  <2>7. Len(r.files) = 1 /\ r.files[1] = progName
    <3>1. <<>> \in Seq(FileNames) /\ Len(<<>>) = 0
          BY EmptySeq
    <3>2. /\ Len(Append(<<>>, progName)) = Len(<<>>) + 1
          /\ Append(<<>>, progName)[Len(<<>>) + 1] = progName
          BY <2>3, <3>1, AppendProperties
    <3> QED
        BY <2>6, <3>1, <3>2
  <2>8. DOMAIN r.m = {progName}
        BY <2>4
  <2>9. Num(r) = 1
        BY <2>8, FS_Singleton DEF Num
  <2> HIDE DEF r
  <2>10. Filled(a, 0, r)
         BY <1>0, <1>2, <2>1, <2>4, <2>7, <2>8 DEF Filled
  <2> QED
      BY <1>1, <2>1, <2>4, <2>9, <2>10 DEF SplitUpTo
<1> QED
    BY <1>4, <1>5

LEMMA SplitFileType ==
    ASSUME NEW fs \in FileSets, NEW f \in Files
    PROVE  SplitFile(fs, f) \in FileSets
<1>1. f.name \in FileNames /\ f.data \in Seq(Plain)
      BY DEF Files, FileNames
<1> QED
    BY <1>1, NewIs, AddFileIs DEF SplitFile, Adds

\* A turn of the loop.
LEMMA SplitTurn ==
    ASSUME NEW a \in Archives, NEW i \in 1 .. Len(a.files), NEW fs \in FileSets,
           SplitUpTo(a, i - 1, fs)
    PROVE  SplitUpTo(a, i, SplitFile(fs, a.files[i]))
<1> DEFINE n == a.files[i].name
           d == a.files[i].data
           r == SplitFile(fs, a.files[i])
<1>1. n \in Names /\ d \in Seq(Plain) /\ n \in FileNames /\ Len(a.files) \in Nat
      BY ArchiveIs DEF FileNames
<1>2. \A k \in 1 .. i : k = i \/ k \in 1 .. i - 1
      OBVIOUS
<1>3. i \in 1 .. i /\ \A k \in 1 .. i - 1 : k \in 1 .. i /\ k # i
      OBVIOUS
<1>4. Taken(a, i) = Taken(a, i - 1) \union {n}
  <2>1. {a.files[k].name : k \in 1 .. i} = {a.files[k].name : k \in 1 .. i - 1} \union {n}
        BY <1>2, <1>3
  <2> QED
      BY <2>1 DEF Taken
<1>5. GoodUpTo(a, i) <=>
        GoodUpTo(a, i - 1) /\ Proper(n) /\ n \notin Taken(a, i - 1)
      BY <1>2, <1>3 DEF GoodUpTo
<1>6. (fs.ok <=> GoodUpTo(a, i - 1)) /\ (fs.ok => Filled(a, i - 1, fs))
      BY DEF SplitUpTo
<1>7. fs.ok => (Holds(fs, n) <=> n \in Taken(a, i - 1))
      BY <1>6 DEF Filled, Holds
<1>8. Valid(n) <=> Proper(n)
      BY <1>1, ValidIs
<1>9. CASE ~fs.ok \/ ~Valid(n) \/ Holds(fs, n)
  <2>1. r = Refused
        BY <1>9 DEF SplitFile
  <2>2. ~GoodUpTo(a, i)
        BY <1>5, <1>6, <1>7, <1>8, <1>9
  <2>3. ~r.ok
        BY <2>1, NewIs
  <2> QED
      BY <2>2, <2>3 DEF SplitUpTo
<1>10. CASE ~(~fs.ok \/ ~Valid(n) \/ Holds(fs, n))
  <2>1. r = AddFile(fs, n, d)
        BY <1>10 DEF SplitFile
  <2> HIDE DEF n, d, r
  <2>a. Adds(fs, n, d, r)
        BY <1>1, <2>1, AddFileIs
  <2>b. fs.ok /\ ~Holds(fs, n)
        BY <1>10
  <2>2. /\ r.ok /\ (r.noHeader <=> fs.noHeader)
        /\ DOMAIN r.m = DOMAIN fs.m \union {n} /\ r.m[n] = d
        /\ \A k \in DOMAIN fs.m : k # n => r.m[k] = fs.m[k]
        /\ r.files = Append(fs.files, n)
        BY <2>a, <2>b DEF Adds
  <2>3. GoodUpTo(a, i)
        BY <1>5, <1>6, <1>7, <1>8, <1>10
  <2> DEFINE B == Before(a)
  <2>4. /\ fs.noHeader <=> Implicit(a)
        /\ DOMAIN fs.m = Taken(a, i - 1)
        /\ Len(fs.files) = B + (i - 1)
        /\ \A k \in 1 .. i - 1 : /\ fs.files[B + k] = a.files[k].name
                                 /\ fs.m[a.files[k].name] = a.files[k].data
        /\ Implicit(a) => fs.files[1] = progName /\ fs.m[progName] = a.comment
        BY <1>6, <1>10 DEF Filled
  <2>5. fs.files \in Seq(FileNames) /\ Len(fs.files) \in Nat
        BY FileSetIs
  <2>6. /\ Len(r.files) = Len(fs.files) + 1
        /\ \A k \in 1 .. Len(fs.files) : r.files[k] = fs.files[k]
        /\ r.files[Len(fs.files) + 1] = n
        BY <1>1, <2>2, <2>5, AppendProperties
  <2>7. B \in {0, 1} /\ (Implicit(a) => B = 1)
        BY DEF Before
  <2>8. n \notin Taken(a, i - 1)
        BY <1>7, <1>10
  <2> HIDE DEF B
  <2>9. Len(r.files) = B + i
        BY <2>4, <2>6, <2>7
  <2>10. ASSUME NEW k \in 1 .. i
         PROVE  r.files[B + k] = a.files[k].name /\ r.m[a.files[k].name] = a.files[k].data
    <3>1. CASE k = i
      <4>1. B + k = Len(fs.files) + 1
            BY <2>4, <2>7, <3>1
      <4> QED
          BY <2>2, <2>6, <3>1, <4>1 DEF n, d
    <3>2. CASE k \in 1 .. i - 1
      <4>1. B + k \in 1 .. Len(fs.files)
            BY <2>4, <2>7, <3>2
      <4>2. r.files[B + k] = a.files[k].name
            BY <2>4, <2>6, <3>2, <4>1
      <4>3. a.files[k].name \in Taken(a, i - 1)
            BY <3>2 DEF Taken
      <4>4. r.m[a.files[k].name] = a.files[k].data
            BY <2>2, <2>4, <2>8, <3>2, <4>3
      <4> QED
          BY <4>2, <4>4
    <3> QED
        BY <1>2, <3>1, <3>2
  <2>11. Implicit(a) => r.files[1] = progName /\ r.m[progName] = a.comment
    <3>1. ASSUME Implicit(a) PROVE r.files[1] = progName /\ r.m[progName] = a.comment
      <4>1. 1 \in 1 .. Len(fs.files)
            BY <2>4, <2>7, <3>1
      <4>2. progName \in Taken(a, i - 1)
            BY <3>1 DEF Taken
      <4> QED
          BY <2>2, <2>4, <2>6, <2>8, <3>1, <4>1, <4>2
    <3> QED
        BY <3>1
  <2>12. DOMAIN r.m = Taken(a, i)
         BY <1>4, <2>2, <2>4 DEF n
  <2>13. r.noHeader <=> Implicit(a)
         BY <2>2, <2>4
  <2>14. Filled(a, i, r)
         BY <2>9, <2>10, <2>11, <2>12, <2>13 DEF Filled, B
  <2> QED
      BY <1>10, <2>2, <2>3, <2>14 DEF SplitUpTo, r
<1> QED
    BY <1>9, <1>10

\* The loop of splitFiles.
SplitLoop(a, f) ==
    /\ f \in [0 .. Len(a.files) -> FileSets] /\ f[0] = First(a)
    /\ \A i \in 1 .. Len(a.files) : f[i] = SplitFile(f[i - 1], a.files[i])

LEMMA SplitIs ==
    ASSUME NEW text \in Seq(Lines)
    PROVE  LET a == Parse(text)
           IN  \E f : /\ SplitLoop(a, f)
                      /\ splitFiles(text) = IF Len(a.files) + Num(First(a)) > MaxFiles
                                              THEN Refused ELSE f[Len(a.files)]
<1> DEFINE a == Parse(text)
           N == Len(a.files)
           g == [i \in 1 .. N |-> [x \in FileSets |-> SplitFile(x, a.files[i])]]
           F == CHOOSE f : f = [i \in 0 .. N |->
                  IF i = 0 THEN First(a) ELSE SplitFile(f[i - 1], a.files[i])]
<1>0. splitFiles(text) = IF Len(a.files) + Num(First(a)) > MaxFiles
                           THEN Refused ELSE F[N]
      BY DEF splitFiles, First
<1>1. a \in Archives
      BY ParseLaid
<1> HIDE DEF a
<1>2. N \in Nat /\ \A i \in 1 .. N : a.files[i] \in Files
      BY <1>1, ArchiveIs, ElementOfSeq
<1>3. First(a) \in FileSets
      BY <1>1, FirstIs
<1>4. Turns(g, N, FileSets)
      BY <1>2, SplitFileType DEF Turns
<1>5. PICK f : Loop(f, g, N, FileSets, First(a))
  <2>1. N \in Nat
        BY <1>2
  <2> HIDE DEF g, N, F
  <2>2. \E f : Loop(f, g, N, FileSets, First(a))
        BY <2>1, <1>3, <1>4, LoopExists
  <2> QED
      BY <2>2
<1>6. \A i \in 1 .. N : i - 1 \in 0 .. N
      BY <1>2
<1>7. f \in [0 .. N -> FileSets] /\ f[0] = First(a)
      BY <1>5 DEF Loop
<1>8. \A i \in 1 .. N : f[i] = SplitFile(f[i - 1], a.files[i])
      BY <1>5, <1>6, <1>7 DEF Loop
<1>9. f = [i \in 0 .. N |-> IF i = 0 THEN First(a) ELSE SplitFile(f[i - 1], a.files[i])]
  <2>1. \A i \in 0 .. N : i # 0 => i \in 1 .. N
        BY <1>2
  <2> HIDE DEF N
  <2> QED
      BY <1>7, <1>8, <2>1
<1>10. F = [i \in 0 .. N |-> IF i = 0 THEN First(a) ELSE SplitFile(F[i - 1], a.files[i])]
       BY <1>9
<1> HIDE DEF F, N, g
<1>11. Alike(F, f, N)
  <2>1. 0 \in 0 .. N /\ \A i \in 1 .. N : i \in 0 .. N /\ i # 0
        BY <1>2
  <2>2. F[0] = f[0]
        BY <1>7, <1>8, <1>10, <2>1
  <2>3. \A i \in 1 .. N : F[i - 1] = f[i - 1] => F[i] = f[i]
        BY <1>7, <1>8, <1>10, <2>1
  <2> QED
      BY <2>2, <2>3 DEF Alike
<1>12. \A i \in 0 .. N : F[i] = f[i]
      BY <1>2, <1>11, SameLoop
<1>13. F[N] = f[N]
      BY <1>2, <1>12
<1>14. SplitLoop(a, f)
      BY <1>7, <1>8 DEF SplitLoop, N
<1> QED
    BY <1>0, <1>13, <1>14 DEF N, a

\* splitFiles, of a text that Parse makes a of.
Fits(a) == Len(a.files) + Before(a) <= MaxFiles

LEMMA SplitOf ==
    ASSUME NEW text \in Seq(Lines)
    PROVE  LET a == Parse(text)
               fs == splitFiles(text)
           IN  /\ fs \in FileSets
               /\ fs.ok <=> Fits(a) /\ GoodUpTo(a, Len(a.files))
               /\ fs.ok => Filled(a, Len(a.files), fs)
<1> DEFINE a == Parse(text)
           N == Len(a.files)
           fs == splitFiles(text)
<1>1. PICK f : /\ SplitLoop(a, f)
               /\ fs = IF N + Num(First(a)) > MaxFiles THEN Refused ELSE f[N]
      BY SplitIs
<1>2. a \in Archives
      BY ParseLaid
<1> HIDE DEF a, fs
<1>3. N \in Nat /\ Before(a) \in Nat /\ MaxFiles \in Nat
      BY <1>2, ArchiveIs, FileSetAssumption DEF Before
<1>4. /\ f \in [0 .. N -> FileSets] /\ f[0] = First(a)
      /\ \A i \in 1 .. N : f[i] = SplitFile(f[i - 1], a.files[i])
      BY <1>1 DEF SplitLoop
<1> DEFINE S == {i \in 0 .. N : SplitUpTo(a, i, f[i])}
<1>5. 0 \in S
      BY <1>2, <1>3, <1>4, FirstIs
<1>6. ASSUME NEW i \in 1 .. N, i - 1 \in S PROVE i \in S
  <2>1. i - 1 \in 0 .. N /\ i \in 0 .. N
        BY <1>3
  <2>2. f[i - 1] \in FileSets /\ SplitUpTo(a, i - 1, f[i - 1])
        BY <1>4, <1>6, <2>1
  <2>3. SplitUpTo(a, i, SplitFile(f[i - 1], a.files[i]))
        BY <1>2, <2>2, SplitTurn
  <2> QED
      BY <1>4, <2>1, <2>3
<1> HIDE DEF S, N
<1>7. \A i \in 0 .. N : i \in S
      BY <1>3, <1>5, <1>6, InductionUpTo
<1>8. N \in 0 .. N
      BY <1>3
<1>9. SplitUpTo(a, N, f[N]) /\ f[N] \in FileSets
      BY <1>4, <1>7, <1>8 DEF S
<1>10. Num(First(a)) = Before(a)
      BY <1>2, FirstIs
<1>11. CASE N + Num(First(a)) > MaxFiles
  <2>1. fs = Refused /\ ~Fits(a)
        BY <1>1, <1>3, <1>10, <1>11 DEF Fits, N
  <2> QED
      BY <2>1, NewIs DEF N, a, fs
<1>12. CASE ~(N + Num(First(a)) > MaxFiles)
  <2>1. fs = f[N] /\ Fits(a)
        BY <1>1, <1>3, <1>10, <1>12 DEF Fits, N
  <2> QED
      BY <1>9, <2>1 DEF N, a, fs, SplitUpTo
<1> QED
    BY <1>11, <1>12

---------------------------------------------------------------------------
(* Where the files are in the text.                                        *)

LEMMA MinIs ==
    ASSUME NEW S \in SUBSET Int, NEW m \in S, \A x \in S : m <= x
    PROVE  Min(S) = m
<1> DEFINE p == Min(S)
<1>1. p \in S /\ \A x \in S : p <= x
      BY DEF Min
<1> HIDE DEF p
<1>2. p \in Int /\ m \in Int /\ p <= m /\ m <= p
      BY <1>1
<1>3. p = m
      BY <1>2
<1> QED
    BY <1>3 DEF p

Marks(text) == {i \in DOMAIN text : text[i].name # <<>>}

LEMMA MarksAre ==
    ASSUME NEW text \in Seq(Lines), NEW a \in Archives, NEW pos,
           Laid(text, Len(text), a, pos)
    PROVE  /\ pos \in Bijection(1 .. Len(a.files), Marks(text))
           /\ Cardinality(Marks(text)) = Len(a.files)
           /\ Marks(text) \subseteq 1 .. Len(text)
           /\ \A k, l \in 1 .. Len(a.files) : pos[k] < pos[l] => k < l
           /\ \A i \in Marks(text) : \E k \in 1 .. Len(a.files) : pos[k] = i
           /\ \A k \in 1 .. Len(a.files) : pos[k] \in Marks(text)
<1> DEFINE N == Len(text)
           L == Len(a.files)
<1>1. N \in Nat /\ DOMAIN text = 1 .. N /\ L \in Nat
      BY LenProperties, ArchiveIs
<1>2. /\ pos \in [1 .. L -> 1 .. N]
      /\ \A k, l \in 1 .. L : k < l => pos[k] < pos[l]
      /\ \A i \in 1 .. N : text[i].name # <<>> => \E k \in 1 .. L : pos[k] = i
      /\ \A k \in 1 .. L : text[pos[k]].name # <<>>
      BY DEF Laid
<1> HIDE DEF N, L
<1>3. \A i \in Marks(text) : i \in 1 .. N /\ \E k \in 1 .. L : pos[k] = i
      BY <1>1, <1>2 DEF Marks
<1>4. \A k \in 1 .. L : pos[k] \in Marks(text)
      BY <1>1, <1>2 DEF Marks
<1>5. ASSUME NEW k \in 1 .. L, NEW l \in 1 .. L, pos[k] < pos[l] PROVE k < l
  <2>1. SUFFICES ASSUME ~(k < l) PROVE FALSE
        OBVIOUS
  <2>2. pos[k] \in Int /\ pos[l] \in Int
        BY <1>2
  <2>3. l < k \/ l = k
        BY <2>1
  <2> QED
      BY <1>2, <1>5, <2>2, <2>3
<1>6. ASSUME NEW k \in 1 .. L, NEW l \in 1 .. L, pos[k] = pos[l] PROVE k = l
  <2>1. pos[k] \in Int /\ pos[l] \in Int
        BY <1>2
  <2>2. ~(k < l) /\ ~(l < k)
        BY <1>2, <1>6, <2>1
  <2> QED
      BY <2>2
<1>7. pos \in [1 .. L -> Marks(text)]
      BY <1>2, <1>4
<1>8. pos \in Bijection(1 .. L, Marks(text))
      BY <1>3, <1>6, <1>7 DEF Bijection, Injection, Surjection, IsInjective
<1>9. Cardinality(Marks(text)) = L
  <2>1. ExistsBijection(1 .. L, Marks(text))
        BY <1>8 DEF ExistsBijection
  <2> QED
      BY <1>1, <2>1, FS_CountingElements
<1> QED
    BY <1>3, <1>4, <1>5, <1>8, <1>9 DEF N, L

\* The comment is what is above the first marker.
LEMMA CommentIs ==
    ASSUME NEW text \in Seq(Lines), NEW a \in Archives, NEW pos,
           Laid(text, Len(text), a, pos)
    PROVE  a.comment = SubSeq(text, 1, IF Marks(text) = {} THEN Len(text)
                                                           ELSE Min(Marks(text)) - 1)
<1> DEFINE L == Len(a.files)
           M == Marks(text)
<1>1. L \in Nat /\ pos \in [1 .. L -> 1 .. Len(text)] /\ Len(text) \in Nat
      BY ArchiveIs, LenProperties DEF Laid
<1>2. /\ M \subseteq 1 .. Len(text)
      /\ \A i \in M : \E k \in 1 .. L : pos[k] = i
      /\ \A k \in 1 .. L : pos[k] \in M
      BY MarksAre
<1>3. /\ a.comment = SubSeq(text, 1, IF L = 0 THEN Len(text) ELSE pos[1] - 1)
      /\ \A k, l \in 1 .. L : k < l => pos[k] < pos[l]
      BY DEF Laid
<1> HIDE DEF L, M
<1>4. CASE L = 0
  <2>1. M = {}
        BY <1>2, <1>4
  <2> QED
      BY <1>3, <1>4, <2>1 DEF M
<1>5. CASE L # 0
  <2>1. 1 \in 1 .. L
        BY <1>1, <1>5
  <2>2. pos[1] \in M
        BY <1>2, <2>1
  <2>3. ASSUME NEW i \in M PROVE pos[1] <= i
    <3>1. PICK k \in 1 .. L : pos[k] = i
          BY <1>2
    <3>2. pos[1] \in Int /\ pos[k] \in Int
          BY <1>1, <2>1
    <3>3. k = 1 \/ 1 < k
          OBVIOUS
    <3> QED
        BY <1>3, <2>1, <3>1, <3>2, <3>3
  <2>4. M \in SUBSET Int
        BY <1>2
  <2>5. Min(M) = pos[1]
        BY <2>2, <2>3, <2>4, MinIs
  <2> QED
      BY <1>3, <1>5, <2>2, <2>5 DEF M
<1> QED
    BY <1>4, <1>5

\* The lines of a file are those below its marker.
LEMMA DataIs ==
    ASSUME NEW text \in Seq(Lines), NEW a \in Archives, NEW pos,
           Laid(text, Len(text), a, pos), NEW k \in 1 .. Len(a.files)
    PROVE  a.files[k].data = FileAt(text, pos[k])
<1> DEFINE N == Len(text)
           L == Len(a.files)
           E == {j \in pos[k] + 1 .. N : text[j].name # <<>>}
<1>1. L \in Nat /\ pos \in [1 .. L -> 1 .. N] /\ N \in Nat /\ DOMAIN text = 1 .. N
      BY ArchiveIs, LenProperties DEF Laid
<1>2. /\ \A i \in 1 .. N : text[i].name # <<>> => \E l \in 1 .. L : pos[l] = i
      /\ \A l \in 1 .. L : text[pos[l]].name # <<>>
      /\ \A l, m \in 1 .. L : l < m => pos[l] < pos[m]
      /\ a.files[k].data = SubSeq(text, pos[k] + 1, Ends(a, N, pos, k))
      BY DEF Laid
<1>3. \A l, m \in 1 .. L : pos[l] < pos[m] => l < m
      BY MarksAre
<1>4. FileAt(text, pos[k]) = SubSeq(text, pos[k] + 1, IF E = {} THEN N ELSE Min(E) - 1)
      BY DEF FileAt
<1>5. Ends(a, N, pos, k) = IF k = L THEN N ELSE pos[k + 1] - 1
      BY DEF Ends
<1> HIDE DEF L, N
<1>6. k \in 1 .. L
      BY DEF L
<1>7. pos[k] \in 1 .. N
      BY <1>1, <1>6
<1>8. ASSUME NEW j \in E PROVE \E l \in 1 .. L : pos[l] = j /\ k < l
  <2>1. j \in 1 .. N /\ text[j].name # <<>> /\ pos[k] < j
        BY <1>1, <1>7
  <2>2. PICK l \in 1 .. L : pos[l] = j
        BY <1>2, <2>1
  <2> QED
      BY <1>3, <1>6, <2>1, <2>2
<1>9. CASE k = L
  <2>1. E = {}
    <3>1. ASSUME NEW j \in E PROVE FALSE
      <4>1. PICK l \in 1 .. L : k < l
            BY <1>8, <3>1
      <4> QED
          BY <1>9, <4>1
    <3> HIDE DEF E
    <3> QED
        BY <3>1
  <2> HIDE DEF E
  <2> QED
      BY <1>2, <1>4, <1>5, <1>9, <2>1
<1>10. CASE k # L
  <2>1. k + 1 \in 1 .. L /\ k < k + 1
        BY <1>1, <1>6, <1>10
  <2>2. pos[k + 1] \in 1 .. N /\ pos[k] < pos[k + 1] /\ text[pos[k + 1]].name # <<>>
        BY <1>1, <1>2, <1>6, <2>1
  <2>3. pos[k + 1] \in E
        BY <1>7, <2>2
  <2>4. ASSUME NEW j \in E PROVE pos[k + 1] <= j
    <3>1. PICK l \in 1 .. L : pos[l] = j /\ k < l
          BY <1>8, <2>4
    <3>2. l = k + 1 \/ k + 1 < l
          BY <3>1
    <3>3. pos[l] \in Int /\ pos[k + 1] \in Int
          BY <1>1, <2>1
    <3> QED
        BY <1>2, <2>1, <3>1, <3>2, <3>3
  <2>5. E \in SUBSET Int
        BY <1>1, <1>7
  <2> HIDE DEF E
  <2>6. Min(E) = pos[k + 1]
        BY <2>3, <2>4, <2>5, MinIs
  <2> QED
      BY <1>2, <1>4, <1>5, <1>10, <2>3, <2>6
<1> QED
    BY <1>9, <1>10

---------------------------------------------------------------------------
(* splitFiles does what its comment says.                                  *)

\* There are as many names as files if none comes twice.
LEMMA TakenIs ==
    ASSUME NEW a \in Archives
    PROVE  /\ IsFiniteSet(Taken(a, Len(a.files)))
           /\ Cardinality(Taken(a, Len(a.files))) = Len(a.files) + Before(a) <=>
                \A k \in 1 .. Len(a.files) : a.files[k].name \notin Taken(a, k - 1)
<1> DEFINE N == Len(a.files)
           B == Before(a)
           T(i) == Taken(a, i)
           Apart(i) == \A k \in 1 .. i : a.files[k].name \notin T(k - 1)
           S == {i \in 0 .. N : /\ IsFiniteSet(T(i)) /\ Cardinality(T(i)) <= i + B
                                /\ Cardinality(T(i)) = i + B <=> Apart(i)}
<1>1. N \in Nat /\ B \in {0, 1}
      BY ArchiveIs DEF Before
<1>2. 0 \in S
  <2>1. \A k : k \notin 1 .. 0
        OBVIOUS
  <2>2. T(0) = IF Implicit(a) THEN {progName} ELSE {}
        BY <2>1 DEF Taken
  <2>3. IsFiniteSet(T(0)) /\ Cardinality(T(0)) = B
        BY <2>2, FS_EmptySet, FS_Singleton DEF Before
  <2>4. Apart(0)
        BY <2>1
  <2>5. 0 \in 0 .. N
        BY <1>1
  <2> HIDE DEF Apart, T, B
  <2> QED
      BY <1>1, <2>3, <2>4, <2>5
<1>3. ASSUME NEW i \in 1 .. N, i - 1 \in S PROVE i \in S
  <2> DEFINE n == a.files[i].name
  <2>1. \A k \in 1 .. i : k = i \/ k \in 1 .. i - 1
        OBVIOUS
  <2>2. i \in 1 .. i /\ \A k \in 1 .. i - 1 : k \in 1 .. i
        OBVIOUS
  <2>3. T(i) = T(i - 1) \union {n}
    <3>1. {a.files[k].name : k \in 1 .. i} = {a.files[k].name : k \in 1 .. i - 1} \union {n}
          BY <2>1, <2>2
    <3> QED
        BY <3>1 DEF Taken
  <2>4. Apart(i) <=> Apart(i - 1) /\ n \notin T(i - 1)
        BY <2>1, <2>2
  <2> HIDE DEF Apart, T, B, n
  <2>5. /\ IsFiniteSet(T(i - 1)) /\ Cardinality(T(i - 1)) <= (i - 1) + B
        /\ Cardinality(T(i - 1)) = (i - 1) + B <=> Apart(i - 1)
        BY <1>3
  <2>6. Cardinality(T(i - 1)) \in Nat
        BY <2>5, FS_CardinalityType
  <2>7. /\ IsFiniteSet(T(i))
        /\ Cardinality(T(i)) = IF n \in T(i - 1) THEN Cardinality(T(i - 1))
                                                 ELSE Cardinality(T(i - 1)) + 1
        BY <2>3, <2>5, FS_AddElement
  <2>8. i \in 0 .. N
        BY <1>1
  <2>9. CASE n \in T(i - 1)
    <3>1. ~Apart(i) /\ Cardinality(T(i)) < i + B
          BY <1>1, <2>4, <2>5, <2>6, <2>7, <2>9
    <3>2. Cardinality(T(i)) \in Nat
          BY <2>6, <2>7
    <3> QED
        BY <1>1, <2>7, <2>8, <3>1, <3>2
  <2>10. CASE n \notin T(i - 1)
    <3>1. Cardinality(T(i)) = Cardinality(T(i - 1)) + 1
          BY <2>7, <2>10
    <3>2. Cardinality(T(i)) <= i + B
          BY <1>1, <2>5, <2>6, <3>1
    <3>3. Cardinality(T(i)) = i + B <=> Cardinality(T(i - 1)) = (i - 1) + B
          BY <1>1, <2>6, <3>1
    <3> QED
        BY <2>4, <2>5, <2>7, <2>8, <2>10, <3>2, <3>3
  <2> QED
      BY <2>9, <2>10
<1> HIDE DEF S, N
<1>4. \A i \in 0 .. N : i \in S
      BY <1>1, <1>2, <1>3, InductionUpTo
<1>5. N \in 0 .. N
      BY <1>1
<1> QED
    BY <1>4, <1>5 DEF S, N

LEMMA SplitDocumented ==
    ASSUME body \in Seq(Lines)
    PROVE  SplitAsDocumented
<1> DEFINE fs == splitFiles(body)
           marks == {i \in DOMAIN body : body[i].name # <<>>}
           above == SubSeq(body, 1, IF marks = {} THEN Len(body) ELSE Min(marks) - 1)
           implicit == \E i \in DOMAIN above : above[i].src # "blank"
           files == {body[i].name : i \in marks}
                      \union IF implicit THEN {progName} ELSE {}
           number == Cardinality(marks) + IF implicit THEN 1 ELSE 0
           Accepted == /\ \A i \in marks : Proper(body[i].name)
                       /\ Cardinality(files) = number /\ number <= MaxFiles
           Ordered(i, j) == \E k, l \in DOMAIN fs.files :
                              k < l /\ fs.files[k] = body[i].name
                                   /\ fs.files[l] = body[j].name
<1>1. SUFFICES /\ fs.ok <=> Accepted
               /\ fs.ok =>
                    /\ DOMAIN fs.m = files /\ fs.noHeader = implicit
                    /\ Len(fs.files) = number
                    /\ implicit => fs.m[progName] = above /\ fs.files[1] = progName
                    /\ \A i, j \in marks : i < j => Ordered(i, j)
                    /\ \A i \in marks : fs.m[body[i].name] = FileAt(body, i)
      BY <1>1 DEF SplitAsDocumented, Proper
<1> DEFINE a == Parse(body)
           L == Len(a.files)
           B == Before(a)
<1>2. a \in Archives
      BY ParseLaid
<1>3. PICK pos : Laid(body, Len(body), a, pos)
      BY ParseLaid
<1>4. /\ fs \in FileSets
      /\ fs.ok <=> Fits(a) /\ GoodUpTo(a, L)
      /\ fs.ok => Filled(a, L, fs)
      BY SplitOf
<1> HIDE DEF a, fs
<1>5. /\ Cardinality(marks) = L /\ marks \subseteq 1 .. Len(body)
      /\ \A k, l \in 1 .. L : pos[k] < pos[l] => k < l
      /\ \A i \in marks : \E k \in 1 .. L : pos[k] = i
      /\ \A k \in 1 .. L : pos[k] \in marks
      BY <1>2, <1>3, MarksAre DEF Marks
<1>6. above = a.comment
      BY <1>2, <1>3, CommentIs DEF Marks
<1>7. \A k \in 1 .. L : /\ a.files[k].name = body[pos[k]].name
                        /\ a.files[k].data = FileAt(body, pos[k])
  <2>1. \A k \in 1 .. L : a.files[k].name = body[pos[k]].name
        BY <1>3 DEF Laid
  <2>2. \A k \in 1 .. L : a.files[k].data = FileAt(body, pos[k])
        BY <1>2, <1>3, DataIs
  <2> QED
      BY <2>1, <2>2
<1> HIDE DEF marks, above
<1>8. implicit <=> Implicit(a)
      BY <1>6 DEF Implicit, Blank
<1> HIDE DEF implicit
<1>a. ASSUME NEW i \in marks PROVE \E k \in 1 .. L : body[i].name = a.files[k].name
  <2>1. PICK k \in 1 .. L : pos[k] = i
        BY <1>5
  <2> QED
      BY <1>7, <2>1
<1>b. ASSUME NEW k \in 1 .. L PROVE \E i \in marks : a.files[k].name = body[i].name
      BY <1>5, <1>7
<1>9. files = Taken(a, L)
  <2>1. {body[i].name : i \in marks} = {a.files[k].name : k \in 1 .. L}
    <3>1. \A i \in marks : body[i].name \in {a.files[k].name : k \in 1 .. L}
          BY <1>a
    <3>2. \A k \in 1 .. L : a.files[k].name \in {body[i].name : i \in marks}
          BY <1>b
    <3> QED
        BY <3>1, <3>2
  <2> QED
      BY <1>8, <2>1 DEF Taken
<1>10. number = L + B /\ L \in Nat /\ B \in Nat
  <2>1. L \in Nat
        BY <1>2, ArchiveIs
  <2> QED
      BY <1>5, <1>8, <2>1 DEF Before
<1> HIDE DEF files, number, L
<1>11. fs.ok <=> Accepted
  <2>1. (\A i \in marks : Proper(body[i].name)) <=>
          \A k \in 1 .. L : Proper(a.files[k].name)
        BY <1>a, <1>b
  <2>2. Cardinality(files) = number <=>
          \A k \in 1 .. L : a.files[k].name \notin Taken(a, k - 1)
        BY <1>2, <1>9, <1>10, TakenIs DEF L
  <2>3. number <= MaxFiles <=> Fits(a)
        BY <1>10 DEF Fits, L
  <2> QED
      BY <1>4, <2>1, <2>2, <2>3 DEF GoodUpTo
<1>12. ASSUME fs.ok
       PROVE  /\ DOMAIN fs.m = files /\ fs.noHeader = implicit
              /\ Len(fs.files) = number
              /\ implicit => fs.m[progName] = above /\ fs.files[1] = progName
              /\ \A i, j \in marks : i < j => Ordered(i, j)
              /\ \A i \in marks : fs.m[body[i].name] = FileAt(body, i)
  <2>1. /\ fs.noHeader <=> Implicit(a)
        /\ DOMAIN fs.m = Taken(a, L)
        /\ Len(fs.files) = B + L
        /\ \A k \in 1 .. L : /\ fs.files[B + k] = a.files[k].name
                             /\ fs.m[a.files[k].name] = a.files[k].data
        /\ Implicit(a) => fs.files[1] = progName /\ fs.m[progName] = a.comment
        BY <1>4, <1>12 DEF Filled
  <2>2. fs.noHeader \in BOOLEAN /\ DOMAIN fs.files = 1 .. Len(fs.files)
        BY <1>4, FileSetIs, LenProperties
  <2> HIDE DEF B
  <2>3. fs.noHeader = implicit
    <3>1. implicit \in BOOLEAN
          BY DEF implicit
    <3> QED
        BY <1>8, <2>1, <2>2, <3>1
  <2>4. Len(fs.files) = number
        BY <1>10, <2>1
  <2>5. implicit => fs.m[progName] = above /\ fs.files[1] = progName
        BY <1>6, <1>8, <2>1
  <2>6. ASSUME NEW i \in marks, NEW j \in marks, i < j PROVE Ordered(i, j)
    <3>1. PICK k \in 1 .. L : pos[k] = i
          BY <1>5
    <3>2. PICK l \in 1 .. L : pos[l] = j
          BY <1>5
    <3>3. k < l
          BY <1>5, <2>6, <3>1, <3>2
    <3>4. B + k \in DOMAIN fs.files /\ B + l \in DOMAIN fs.files /\ B + k < B + l
          BY <1>10, <2>1, <2>2, <3>3
    <3>5. fs.files[B + k] = body[i].name /\ fs.files[B + l] = body[j].name
          BY <1>7, <2>1, <3>1, <3>2
    <3> QED
        BY <3>4, <3>5
  <2>7. ASSUME NEW i \in marks PROVE fs.m[body[i].name] = FileAt(body, i)
    <3>1. PICK k \in 1 .. L : pos[k] = i
          BY <1>5
    <3> QED
        BY <1>7, <2>1, <3>1
  <2> HIDE DEF Ordered
  <2> QED
      BY <1>9, <2>1, <2>3, <2>4, <2>5, <2>6, <2>7
<1> HIDE DEF Accepted, Ordered
<1> QED
    BY <1>11, <1>12

---------------------------------------------------------------------------
(* Layout.                                                                 *)

LEMMA MaxIs ==
    ASSUME NEW S \in SUBSET Int, NEW m \in S, \A x \in S : x <= m
    PROVE  Max(S) = m
<1> DEFINE p == Max(S)
<1>1. p \in S /\ \A x \in S : p >= x
      BY DEF Max
<1> HIDE DEF p
<1>2. p \in Int /\ m \in Int /\ p <= m /\ m <= p
      BY <1>1
<1>3. p = m
      BY <1>2
<1> QED
    BY <1>3 DEF p

LEMMA Bounds ==
    ASSUME NEW N \in Nat, NEW S \in SUBSET (1 .. N), S # {}
    PROVE  \E p, q \in S : Min(S) = p /\ Max(S) = q /\ \A x \in S : p <= x /\ x <= q
<1>1. S \in SUBSET Nat /\ S \in SUBSET Int
      OBVIOUS
<1>2. PICK p \in S : \A x \in S : p <= x
      BY <1>1, Least
<1> DEFINE T == {N - x : x \in S}
<1>3. T # {} /\ T \in SUBSET Nat
      OBVIOUS
<1>4. PICK t \in T : \A x \in T : t <= x
      BY <1>3, Least
<1>5. PICK q \in S : t = N - q
      BY <1>4
<1>6. ASSUME NEW x \in S PROVE x <= q
  <2>1. N - x \in T
        OBVIOUS
  <2>2. N - q <= N - x
        BY <1>4, <1>5, <2>1
  <2> QED
      BY <2>2
<1>7. Min(S) = p /\ Max(S) = q
      BY <1>1, <1>2, <1>6, MinIs, MaxIs
<1> QED
    BY <1>2, <1>6, <1>7

LaidOut(l) == IF l.src = "mess" THEN Source("code") ELSE l

LEMMA LaidOutIs ==
    ASSUME NEW l \in Plain
    PROVE  /\ LaidOut(l) \in Plain /\ LaidOut(LaidOut(l)) = LaidOut(l)
           /\ LaidOut(l).src = "blank" <=> l.src = "blank"
           /\ \A s \in {"bad", "other", "test"} : LaidOut(l).src = s <=> l.src = s
<1>1. Source("code") \in Plain /\ Source("code").src = "code"
      BY DEF Plain, Source, Sources
<1> QED
    BY <1>1 DEF LaidOut

\* A line of the kind s is in the lines d.
LEMMA HasIs ==
    ASSUME NEW d \in Seq(Plain), NEW s
    PROVE  /\ DOMAIN d = 1 .. Len(d) /\ Len(d) \in Nat
           /\ \A i \in 1 .. Len(d) : d[i] \in Plain
           /\ Has(d, s) <=> \E i \in 1 .. Len(d) : d[i].src = s
           /\ Blank(d) <=> \A i \in 1 .. Len(d) : d[i].src = "blank"
<1>1. DOMAIN d = 1 .. Len(d) /\ Len(d) \in Nat /\ \A i \in 1 .. Len(d) : d[i] \in Plain
      BY LenProperties, ElementOfSeq
<1> QED
    BY <1>1 DEF Has, Blank

\* t is what is between the lines p and q of d, laid out.
Between(d, p, q, t) ==
    /\ t \in Seq(Plain) /\ Len(t) = q - p + 1
    /\ p \in 1 .. Len(d) /\ q \in 1 .. Len(d) /\ p <= q
    /\ d[p].src # "blank" /\ d[q].src # "blank"
    /\ \A i \in 1 .. Len(d) : d[i].src # "blank" => p <= i /\ i <= q
    /\ \A i \in 1 .. q - p + 1 : t[i] = LaidOut(d[p + i - 1])

LEMMA TidyIs ==
    ASSUME NEW d \in Seq(Plain)
    PROVE  /\ Blank(d) => Tidy(d) = <<>>
           /\ ~Blank(d) => \E p, q : Between(d, p, q, Tidy(d))
<1> DEFINE kept == {i \in DOMAIN d : d[i].src # "blank"}
           N == Len(d)
<1>1. /\ DOMAIN d = 1 .. N /\ N \in Nat /\ \A i \in 1 .. N : d[i] \in Plain
      /\ Blank(d) <=> \A i \in 1 .. N : d[i].src = "blank"
      BY HasIs
<1>2. Tidy(d) = IF kept = {} THEN <<>>
                ELSE [i \in 1 .. Max(kept) - Min(kept) + 1 |->
                        LaidOut(d[Min(kept) + i - 1])]
      BY DEF Tidy, LaidOut
<1> HIDE DEF N
<1>3. Blank(d) <=> kept = {}
      BY <1>1
<1>4. ASSUME ~Blank(d) PROVE \E p, q : Between(d, p, q, Tidy(d))
  <2>1. kept # {} /\ kept \in SUBSET (1 .. N)
        BY <1>1, <1>3, <1>4
  <2>a. \A i \in 1 .. N : d[i].src # "blank" => i \in kept
        BY <1>1
  <2>b. \A i \in kept : d[i].src # "blank"
        OBVIOUS
  <2> HIDE DEF kept
  <2>2. PICK p, q \in kept : /\ Min(kept) = p /\ Max(kept) = q
                             /\ \A x \in kept : p <= x /\ x <= q
        BY <1>1, <2>1, Bounds
  <2> DEFINE n == q - p + 1
             t == [i \in 1 .. n |-> LaidOut(d[p + i - 1])]
  <2>3. Tidy(d) = t
        BY <1>2, <2>1, <2>2
  <2>4. p \in 1 .. N /\ q \in 1 .. N /\ p <= q /\ n \in Nat
        BY <2>1, <2>2
  <2> HIDE DEF t
  <2>5. \A i \in 1 .. n : p + i - 1 \in 1 .. N
        BY <1>1, <2>4
  <2>6. \A i \in 1 .. n : LaidOut(d[p + i - 1]) \in Plain
        BY <1>1, <2>5, LaidOutIs
  <2> HIDE DEF n
  <2>7. t \in [1 .. n -> Plain]
        BY <2>6 DEF t
  <2>8. t \in Seq(Plain) /\ Len(t) = n
    <3>1. t \in Seq(Plain)
          BY <2>4, <2>7, SeqDef
    <3>2. DOMAIN t = 1 .. n /\ DOMAIN t = 1 .. Len(t) /\ Len(t) \in Nat
          BY <2>7, <3>1, LenProperties
    <3> QED
        BY <2>4, <3>1, <3>2
  <2>9. \A i \in 1 .. n : t[i] = LaidOut(d[p + i - 1])
        BY DEF t
  <2>10. Between(d, p, q, t)
         BY <2>2, <2>4, <2>8, <2>9, <2>a, <2>b DEF Between, n, N
  <2> QED
      BY <2>3, <2>10
<1> QED
    BY <1>2, <1>3, <1>4

\* The same lines but for their layout.
Same(d, e) ==
    /\ e \in Seq(Plain) /\ Tidy(e) = Tidy(d) /\ (Blank(e) <=> Blank(d))
    /\ \A s \in {"other", "test"} : Has(e, s) <=> Has(d, s)

LEMMA TidySame ==
    ASSUME NEW d \in Seq(Plain)
    PROVE  Same(d, Tidy(d)) /\ (Tidy(d) = <<>> <=> Blank(d))
<1> DEFINE t == Tidy(d)
<1>1. /\ Len(d) \in Nat /\ \A i \in 1 .. Len(d) : d[i] \in Plain
      /\ Blank(d) <=> \A i \in 1 .. Len(d) : d[i].src = "blank"
      /\ \A s : Has(d, s) <=> \E i \in 1 .. Len(d) : d[i].src = s
      BY HasIs
<1>2. CASE Blank(d)
  <2>1. t = <<>> /\ <<>> \in Seq(Plain) /\ Len(<<>>) = 0
        BY <1>2, TidyIs, EmptySeq
  <2>2. \A k : k \notin 1 .. 0
        OBVIOUS
  <2>3. Blank(<<>>)
        BY <2>1, <2>2, HasIs
  <2>4. Tidy(<<>>) = <<>>
        BY <2>1, <2>3, TidyIs
  <2>5. ASSUME NEW s \in {"other", "test"} PROVE ~Has(<<>>, s) /\ ~Has(d, s)
    <3>1. ~Has(<<>>, s)
          BY <2>1, <2>2, HasIs
    <3>2. s # "blank"
          OBVIOUS
    <3>3. \A i \in 1 .. Len(d) : d[i].src # s
          BY <1>1, <1>2, <3>2
    <3> QED
        BY <1>1, <3>1, <3>3
  <2> HIDE DEF t
  <2> QED
      BY <1>2, <2>1, <2>3, <2>4, <2>5 DEF Same, t
<1>3. CASE ~Blank(d)
  <2>1. PICK p, q : Between(d, p, q, t)
        BY <1>3, TidyIs
  <2> DEFINE n == q - p + 1
  <2> HIDE DEF t
  <2>2. /\ t \in Seq(Plain) /\ Len(t) = n
        /\ p \in 1 .. Len(d) /\ q \in 1 .. Len(d) /\ p <= q
        /\ d[p].src # "blank" /\ d[q].src # "blank"
        /\ \A i \in 1 .. Len(d) : d[i].src # "blank" => p <= i /\ i <= q
        /\ \A i \in 1 .. n : t[i] = LaidOut(d[p + i - 1])
        BY <2>1 DEF Between
  <2>3. n \in Nat \ {0} /\ 1 \in 1 .. n /\ n \in 1 .. n /\ p + 1 - 1 = p /\ p + n - 1 = q
        BY <2>2
  <2>4. \A i \in 1 .. n : p + i - 1 \in 1 .. Len(d)
        BY <1>1, <2>2
  <2>5. ASSUME NEW i \in 1 .. Len(d), d[i].src # "blank"
        PROVE  i - p + 1 \in 1 .. n /\ p + (i - p + 1) - 1 = i
        BY <2>2, <2>5
  <2>a. n = q - p + 1
        OBVIOUS
  <2> HIDE DEF n
  <2>6. t[1].src # "blank" /\ t[n].src # "blank"
    <3>1. t[1] = LaidOut(d[p]) /\ t[n] = LaidOut(d[q])
          BY <2>2, <2>3
    <3>2. d[p] \in Plain /\ d[q] \in Plain
          BY <1>1, <2>2
    <3> QED
        BY <2>2, <3>1, <3>2, LaidOutIs
  <2>7. /\ Blank(t) <=> \A i \in 1 .. n : t[i].src = "blank"
        /\ \A s : Has(t, s) <=> \E i \in 1 .. n : t[i].src = s
        BY <2>2, HasIs
  <2>8. ~Blank(t)
        BY <2>3, <2>6, <2>7
  <2>9. Tidy(t) = t
    <3>1. PICK u, v : Between(t, u, v, Tidy(t))
          BY <2>2, <2>8, TidyIs
    <3> DEFINE r == Tidy(t)
    <3> HIDE DEF r
    <3>2. /\ r \in Seq(Plain) /\ Len(r) = v - u + 1
          /\ u \in 1 .. n /\ v \in 1 .. n
          /\ \A i \in 1 .. n : t[i].src # "blank" => u <= i /\ i <= v
          /\ \A i \in 1 .. v - u + 1 : r[i] = LaidOut(t[u + i - 1])
          BY <2>2, <3>1 DEF Between, r
    <3>3. u = 1 /\ v = n
      <4>1. u <= 1 /\ n <= v
            BY <2>3, <2>6, <3>2
      <4> QED
          BY <2>3, <3>2, <4>1
    <3>4. Len(r) = n
          BY <2>3, <3>2, <3>3
    <3>5. ASSUME NEW i \in 1 .. n PROVE r[i] = t[i]
      <4>1. i \in 1 .. v - u + 1 /\ u + i - 1 = i
            BY <2>3, <3>3
      <4>2. r[i] = LaidOut(t[i])
            BY <3>2, <4>1
      <4>3. t[i] = LaidOut(d[p + i - 1]) /\ d[p + i - 1] \in Plain
            BY <1>1, <2>2, <2>4
      <4> QED
          BY <4>2, <4>3, LaidOutIs
    <3>6. r = t
          BY <2>2, <3>2, <3>4, <3>5, SeqEqual
    <3> QED
        BY <3>6 DEF r
  <2>10. ASSUME NEW s \in {"other", "test"} PROVE Has(t, s) <=> Has(d, s)
    <3>1. ASSUME NEW i \in 1 .. n, t[i].src = s PROVE Has(d, s)
      <4>1. p + i - 1 \in 1 .. Len(d) /\ t[i] = LaidOut(d[p + i - 1])
            BY <2>2, <2>4
      <4>2. d[p + i - 1] \in Plain
            BY <1>1, <4>1
      <4>3. d[p + i - 1].src = s
            BY <3>1, <4>1, <4>2, LaidOutIs
      <4> QED
          BY <1>1, <4>1, <4>3
    <3>2. ASSUME NEW i \in 1 .. Len(d), d[i].src = s PROVE Has(t, s)
      <4>1. d[i].src # "blank"
            BY <3>2
      <4>2. PICK j \in 1 .. n : p + j - 1 = i
            BY <2>5, <4>1
      <4>3. t[j] = LaidOut(d[i]) /\ d[i] \in Plain
            BY <1>1, <2>2, <4>2
      <4>4. t[j].src = s
            BY <3>2, <4>3, LaidOutIs
      <4> QED
          BY <2>7, <4>4
    <3> QED
        BY <1>1, <2>7, <3>1, <3>2
  <2>11. t # <<>>
        BY <2>2, <2>3, EmptySeq
  <2> QED
      BY <1>3, <2>2, <2>8, <2>9, <2>10, <2>11 DEF Same, t
<1> QED
    BY <1>2, <1>3

LEMMA SameIs ==
    /\ \A d \in Seq(Plain) : Same(d, d)
    /\ \A d, e, f : Same(d, e) /\ Same(e, f) => Same(d, f)
BY DEF Same

---------------------------------------------------------------------------
(* What /fmt does to the files.                                            *)

\* fs has the files of s but for their layout, in the same order.
Kept(s, fs) ==
    /\ fs.files = s.files /\ (fs.noHeader <=> s.noHeader) /\ DOMAIN fs.m = DOMAIN s.m
    /\ \A n \in DOMAIN s.m : Same(s.m[n], fs.m[n])
    /\ progName \in DOMAIN s.m => (fs.m[progName] = <<>> <=> s.m[progName] = <<>>)

LEMMA LastIs == Last(progName) \in GoParts
<1>1. Len(progName) = 1 /\ progName[1] = "prog.go"
      BY DEF progName
<1>2. Last(progName) = progName[1]
      BY <1>1 DEF Last
<1> QED
    BY <1>1, <1>2, FileSetAssumption

\* What a formatter makes of the lines d.
LEMMA GoTidySame ==
    ASSUME NEW d \in Seq(Plain)
    PROVE  Same(d, GoTidy(d)) /\ (GoTidy(d) = <<>> <=> d = <<>>)
<1>1. CASE Blank(d)
  <2>1. GoTidy(d) = d
        BY <1>1 DEF GoTidy
  <2> QED
      BY <2>1, SameIs
<1>2. CASE ~Blank(d)
  <2>1. GoTidy(d) = Tidy(d)
        BY <1>2 DEF GoTidy
  <2>2. d # <<>>
    <3>1. ASSUME d = <<>> PROVE FALSE
      <4>1. Len(d) = 0
            BY <3>1, EmptySeq
      <4>2. \A i : i \notin 1 .. 0
            OBVIOUS
      <4> QED
          BY <1>2, <4>1, <4>2, HasIs
    <3> QED
        BY <3>1
  <2> QED
      BY <1>2, <2>1, <2>2, TidySame
<1> QED
    BY <1>1, <1>2

\* The lines of a file are replaced by the same ones.
LEMMA KeptByAdd ==
    ASSUME NEW s \in FileSets, NEW fs \in FileSets, Kept(s, fs), fs.ok, s.ok,
           NEW n \in DOMAIN s.m, NEW e, Same(fs.m[n], e),
           n = progName => (e = <<>> <=> fs.m[n] = <<>>)
    PROVE  LET r == AddFile(fs, n, e) IN r \in FileSets /\ Kept(s, r)
<1> DEFINE r == AddFile(fs, n, e)
<1>1. /\ fs.files = s.files /\ (fs.noHeader <=> s.noHeader) /\ DOMAIN fs.m = DOMAIN s.m
      /\ \A k \in DOMAIN s.m : Same(s.m[k], fs.m[k])
      /\ progName \in DOMAIN s.m => (fs.m[progName] = <<>> <=> s.m[progName] = <<>>)
      BY DEF Kept
<1>2. n \in FileNames /\ e \in Seq(Plain)
      BY FileSetIs DEF Same
<1>3. Adds(fs, n, e, r)
      BY <1>2, AddFileIs
<1> HIDE DEF r
<1>4. /\ r \in FileSets /\ (r.noHeader <=> fs.noHeader)
      /\ DOMAIN r.m = DOMAIN s.m /\ r.m[n] = e
      /\ \A k \in DOMAIN s.m : k # n => r.m[k] = fs.m[k]
      /\ r.files = s.files
      BY <1>1, <1>3 DEF Adds, Holds
<1>5. ASSUME NEW k \in DOMAIN s.m PROVE Same(s.m[k], r.m[k])
  <2>1. CASE k = n
        BY <1>1, <1>4, <2>1, SameIs
  <2>2. CASE k # n
        BY <1>1, <1>4, <2>2
  <2> QED
      BY <2>1, <2>2
<1>6. progName \in DOMAIN s.m => (r.m[progName] = <<>> <=> s.m[progName] = <<>>)
  <2>1. CASE progName = n
        BY <1>1, <1>4, <2>1
  <2>2. CASE progName # n
        BY <1>1, <1>4, <2>2
  <2> QED
      BY <2>1, <2>2
<1> QED
    BY <1>1, <1>4, <1>5, <1>6 DEF Kept, r

Formats(s) == {fs \in FileSets : fs.ok => s.ok /\ Kept(s, fs)}

LEMMA FmtTurn ==
    ASSUME NEW s \in FileSets, NEW n, s.ok => n \in DOMAIN s.m,
           NEW fixImports \in BOOLEAN, NEW fs \in Formats(s)
    PROVE  FmtFile(fs, n, fixImports) \in Formats(s)
<1>1. CASE ~fs.ok
      BY <1>1 DEF FmtFile
<1>2. CASE fs.ok
  <2>1. fs \in FileSets /\ s.ok /\ Kept(s, fs) /\ n \in DOMAIN s.m
        BY <1>2 DEF Formats
  <2> DEFINE d == fs.m[n]
  <2>2. d \in Seq(Plain)
        BY <2>1, FileSetIs DEF Kept
  <2>3. Refused \in Formats(s)
        BY NewIs DEF Formats
  <2>4. Same(d, GoTidy(d)) /\ (GoTidy(d) = <<>> <=> d = <<>>) /\ Same(d, Tidy(d))
        BY <2>2, GoTidySame, TidySame
  <2>5. AddFile(fs, n, GoTidy(d)) \in Formats(s)
    <3>1. AddFile(fs, n, GoTidy(d)) \in FileSets /\ Kept(s, AddFile(fs, n, GoTidy(d)))
          BY <1>2, <2>1, <2>4, KeptByAdd
    <3> QED
        BY <2>1, <3>1 DEF Formats
  <2>6. ASSUME Last(n) \notin GoParts PROVE AddFile(fs, n, Tidy(d)) \in Formats(s)
    <3>1. n # progName
          BY <2>6, LastIs
    <3>2. AddFile(fs, n, Tidy(d)) \in FileSets /\ Kept(s, AddFile(fs, n, Tidy(d)))
          BY <1>2, <2>1, <2>4, <3>1, KeptByAdd
    <3> QED
        BY <2>1, <3>2 DEF Formats
  <2>7. FmtFile(fs, n, fixImports) =
          IF Last(n) \in GoParts
            THEN IF GoFails(d, fixImports) THEN Refused ELSE AddFile(fs, n, GoTidy(d))
          ELSE IF Last(n) = goMod
            THEN IF ModFails(d) THEN Refused ELSE AddFile(fs, n, Tidy(d))
          ELSE fs
        BY <1>2 DEF FmtFile
  <2> HIDE DEF d
  <2> QED
      BY <2>3, <2>5, <2>6, <2>7
<1> QED
    BY <1>1, <1>2

LEMMA FmtIs ==
    ASSUME NEW s \in FileSets, NEW fixImports \in BOOLEAN,
           s.ok => \A i \in 1 .. Len(s.files) : s.files[i] \in DOMAIN s.m
    PROVE  FmtFiles(s, fixImports) \in Formats(s)
<1> DEFINE N == Len(s.files)
           V == Formats(s)
           g == [i \in 1 .. N |-> [x \in V |-> FmtFile(x, s.files[i], fixImports)]]
           F == CHOOSE f : f = [i \in 0 .. N |->
                  IF i = 0 THEN s ELSE FmtFile(f[i - 1], s.files[i], fixImports)]
<1>1. N \in Nat
      BY FileSetIs
<1>2. s \in V
  <2>1. \A n \in DOMAIN s.m : s.m[n] \in Seq(Plain)
        BY FileSetIs
  <2>2. Kept(s, s)
        BY <2>1, SameIs DEF Kept
  <2> QED
      BY <2>2 DEF Formats
<1>3. Turns(g, N, V)
  <2>1. \A i \in 1 .. N : \A x \in V : FmtFile(x, s.files[i], fixImports) \in V
        BY FmtTurn
  <2> HIDE DEF V, N
  <2> QED
      BY <2>1 DEF Turns
<1>4. PICK f \in [0 .. N -> V] :
        f[0] = s /\ \A i \in 1 .. N : f[i] = g[i][f[i - 1]]
  <2> HIDE DEF g, N, F, V
  <2>3. \E f : Loop(f, g, N, V, s)
        BY <1>1, <1>2, <1>3, LoopExists
  <2> QED
      BY <2>3 DEF Loop
<1>5. \A i \in 1 .. N : i - 1 \in 0 .. N
      BY <1>1
<1>6. \A i \in 1 .. N : f[i] = FmtFile(f[i - 1], s.files[i], fixImports)
  <2> HIDE DEF V, N, F
  <2> QED
      BY <1>4, <1>5 DEF g
<1>8. f = [i \in 0 .. N |->
             IF i = 0 THEN s ELSE FmtFile(f[i - 1], s.files[i], fixImports)]
  <2>1. \A i \in 0 .. N : i # 0 => i \in 1 .. N
        BY <1>1
  <2> HIDE DEF N, V, g
  <2> QED
      BY <1>4, <1>6, <2>1
<1>9. F = [i \in 0 .. N |->
             IF i = 0 THEN s ELSE FmtFile(F[i - 1], s.files[i], fixImports)]
      BY <1>8
<1>10. FmtFiles(s, fixImports) = F[N]
      BY DEF FmtFiles
<1> HIDE DEF F, N, g, V
<1>11. Alike(F, f, N)
  <2>1. 0 \in 0 .. N /\ \A i \in 1 .. N : i \in 0 .. N /\ i # 0
        BY <1>1
  <2>2. F[0] = f[0]
        BY <1>4, <1>6, <1>9, <2>1
  <2>3. \A i \in 1 .. N : F[i] = FmtFile(F[i - 1], s.files[i], fixImports)
        BY <1>9, <2>1
  <2>4. \A i \in 1 .. N : F[i - 1] = f[i - 1] => F[i] = f[i]
        BY <1>6, <2>3
  <2> QED
      BY <2>2, <2>4 DEF Alike
<1>12. \A i \in 0 .. N : F[i] = f[i]
      BY <1>1, <1>11, SameLoop
<1>13. N \in 0 .. N
      BY <1>1
<1> QED
    BY <1>4, <1>10, <1>12, <1>13 DEF V

---------------------------------------------------------------------------
(* Parsing a text that goes on.                                            *)

LEMMA ParseAppend ==
    ASSUME NEW text \in Seq(Lines), NEW l \in Lines
    PROVE  /\ Append(text, l) \in Seq(Lines)
           /\ Parse(Append(text, l)) = ParseLine(Parse(text), l)
<1> DEFINE N == Len(text)
           t == Append(text, l)
<1>1. /\ t \in Seq(Lines) /\ Len(t) = N + 1 /\ N \in Nat
      /\ \A i \in 1 .. N : t[i] = text[i]
      /\ t[N + 1] = l
      BY AppendProperties, LenProperties
<1> HIDE DEF t
<1>2. PICK f : ParseLoop(text, f) /\ Parse(text) = f[N]
      BY ParseIs
<1>3. PICK h : ParseLoop(t, h) /\ Parse(t) = h[N + 1]
      BY <1>1, ParseIs
<1>4. f[0] = Empty /\ \A i \in 1 .. N : f[i] = ParseLine(f[i - 1], text[i])
      BY <1>2 DEF ParseLoop
<1>5. h[0] = Empty /\ \A i \in 1 .. N + 1 : h[i] = ParseLine(h[i - 1], t[i])
      BY <1>1, <1>3 DEF ParseLoop
<1>6. \A i \in 1 .. N : h[i] = ParseLine(h[i - 1], text[i])
      BY <1>1, <1>5
<1> HIDE DEF N
<1>7. \A i \in 0 .. N : h[i] = f[i]
  <2>1. h[0] = f[0]
        BY <1>4, <1>5
  <2>2. \A i \in 1 .. N : h[i - 1] = f[i - 1] => h[i] = f[i]
        BY <1>4, <1>6
  <2>3. Alike(h, f, N)
        BY <2>1, <2>2 DEF Alike
  <2>4. N \in Nat
        BY <1>1
  <2> QED
      BY <2>3, <2>4, SameLoop
<1>8. h[N] = f[N]
      BY <1>1, <1>7
<1>9. h[N + 1] = ParseLine(h[N], l)
  <2>1. N + 1 \in 1 .. N + 1 /\ (N + 1) - 1 = N
        BY <1>1
  <2>2. h[N + 1] = ParseLine(h[(N + 1) - 1], t[N + 1])
        BY <1>5, <2>1
  <2> QED
      BY <1>1, <2>1, <2>2
<1> QED
    BY <1>1, <1>2, <1>3, <1>8, <1>9 DEF t

LEMMA ParseNothing == <<>> \in Seq(Lines) /\ Parse(<<>>) = Empty
<1>1. <<>> \in Seq(Lines) /\ Len(<<>>) = 0
      BY EmptySeq
<1>2. PICK f : ParseLoop(<<>>, f) /\ Parse(<<>>) = f[Len(<<>>)]
      BY <1>1, ParseIs
<1> QED
    BY <1>1, <1>2 DEF ParseLoop

LEMMA SingleIs ==
    ASSUME NEW S, NEW e \in S
    PROVE  <<e>> \in Seq(S)
<1>1. <<>> \in Seq(S) /\ Len(<<>>) = 0
      BY EmptySeq
<1>2. Append(<<>>, e) \in Seq(S)
      BY <1>1, AppendProperties
<1>3. Append(<<>>, e) = <<e>>
      OBVIOUS
<1> QED
    BY <1>2, <1>3

LEMMA ConcatAppend ==
    ASSUME NEW S, NEW s \in Seq(S), NEW t \in Seq(S), NEW e \in S
    PROVE  s \o Append(t, e) = Append(s \o t, e)
<1>1. PICK u \in Seq(S) : u = <<e>>
      BY SingleIs
<1>2. Append(t, e) = t \o u
      BY <1>1, AppendIsConcat
<1>3. s \o t \in Seq(S)
      BY ConcatProperties
<1>4. Append(s \o t, e) = (s \o t) \o u
      BY <1>1, <1>3, AppendIsConcat
<1>5. (s \o t) \o u = s \o (t \o u)
      BY ConcatAssociative
<1> QED
    BY <1>2, <1>4, <1>5

\* Text without markers is the comment.
IsComment(d) ==
    /\ d \in Seq(Lines) /\ Parse(d) \in Archives
    /\ Parse(d).comment = d /\ Parse(d).files = <<>>

LEMMA ParseOnly ==
    ASSUME NEW d \in Seq(Plain)
    PROVE  IsComment(d)
<1> DEFINE N == Len(d)
           Start == [i \in 0 .. N |-> SubSeq(d, 1, i)]
           S == {i \in 0 .. N : IsComment(Start[i])}
<1>1. N \in Nat /\ \A i \in 1 .. N : d[i] \in Plain
      BY LenProperties, ElementOfSeq
<1>0. \A i \in 0 .. N : Start[i] = SubSeq(d, 1, i)
      OBVIOUS
<1>s. 0 \in 0 .. N /\ N \in 0 .. N /\ \A i \in 1 .. N : i \in 0 .. N /\ i - 1 \in 0 .. N
      BY <1>1
<1> HIDE DEF Start
<1>2. 0 \in S
  <2>1. Start[0] = <<>>
        BY <1>0, <1>s, SubSeqEmpty
  <2>2. IsComment(<<>>)
        BY ParseNothing, EmptyIs DEF IsComment
  <2> QED
      BY <1>s, <2>1, <2>2
<1>3. ASSUME NEW i \in 1 .. N, i - 1 \in S PROVE i \in S
  <2> DEFINE t == Start[i - 1]
  <2>1. IsComment(t)
        BY <1>3
  <2>2. 1 \in 1 .. i
        OBVIOUS
  <2>3. Start[i] = Append(t, d[i])
    <3>1. SubSeq(d, 1, i) = Append(SubSeq(d, 1, i - 1), d[i])
          BY <2>2, SubSeqAppend
    <3> QED
        BY <1>0, <1>s, <3>1
  <2>4. d[i] \in Plain /\ d[i] \in Lines
        BY <1>1, PlainIs
  <2> HIDE DEF t
  <2>5. IsComment(Append(t, d[i]))
    <3> DEFINE l == d[i]
               b == ParseLine(Parse(t), l)
    <3>1. /\ t \in Seq(Lines) /\ Parse(t) \in Archives
          /\ Parse(t).comment = t /\ Parse(t).files = <<>>
          BY <2>1 DEF IsComment
    <3>2. Append(t, l) \in Seq(Lines) /\ Parse(Append(t, l)) = b
          BY <2>4, <3>1, ParseAppend
    <3>3. b \in Archives /\ b.comment = Append(t, l) /\ b.files = <<>>
          BY <2>4, <3>1, ParseComment
    <3> HIDE DEF b
    <3> QED
        BY <3>2, <3>3 DEF IsComment
  <2> QED
      BY <1>s, <2>3, <2>5
<1> HIDE DEF S
<1>4. \A i \in 0 .. N : i \in S
      BY <1>1, <1>2, <1>3, InductionUpTo
<1>5. N \in S
      BY <1>1, <1>4
<1>6. IsComment(Start[N])
      BY <1>5 DEF S
<1>7. Start[N] = d
      BY <1>0, <1>s, SubSeqFull
<1> QED
    BY <1>6, <1>7

\* b is a with one more file.
More(a, n, d, b) ==
    LET L == Len(a.files)
    IN  /\ b \in Archives /\ b.comment = a.comment /\ Len(b.files) = L + 1
        /\ \A k \in 1 .. L : /\ b.files[k].name = a.files[k].name
                             /\ b.files[k].data = a.files[k].data
        /\ b.files[L + 1].name = n /\ b.files[L + 1].data = d

LEMMA MoreMarker ==
    ASSUME NEW a \in Archives, NEW n \in Names
    PROVE  More(a, n, <<>>, ParseLine(a, Marker(n)))
<1> DEFINE b == ParseLine(a, Marker(n))
           e == [name |-> n, data |-> <<>>]
<1>1. Marker(n).name = n
      BY DEF Marker
<1>2. b \in Archives /\ b.comment = a.comment /\ b.files = Append(a.files, e)
      BY <1>1, ParseMarker
<1>3. a.files \in Seq(Files) /\ e \in Files /\ Len(a.files) \in Nat
      BY ArchiveIs, EmptySeq DEF Files
<1>4. e.name = n /\ e.data = <<>>
      OBVIOUS
<1> HIDE DEF b, e
<1>5. /\ Len(b.files) = Len(a.files) + 1
      /\ \A k \in 1 .. Len(a.files) : b.files[k] = a.files[k]
      /\ b.files[Len(a.files) + 1] = e
      BY <1>2, <1>3, AppendProperties
<1> QED
    BY <1>2, <1>4, <1>5 DEF More, b

LEMMA MoreLine ==
    ASSUME NEW a \in Archives, NEW n, NEW d, NEW b, More(a, n, d, b), NEW l \in Plain
    PROVE  More(a, n, Append(d, l), ParseLine(b, l))
<1> DEFINE L == Len(a.files)
           c == ParseLine(b, l)
<1>1. /\ b \in Archives /\ b.comment = a.comment /\ Len(b.files) = L + 1
      /\ \A k \in 1 .. L : /\ b.files[k].name = a.files[k].name
                           /\ b.files[k].data = a.files[k].data
      /\ b.files[L + 1].name = n /\ b.files[L + 1].data = d
      BY DEF More
<1>2. L \in Nat
      BY ArchiveIs
<1>3. b.files # <<>>
      BY <1>1, <1>2, EmptySeq
<1>4. /\ c \in Archives /\ c.comment = b.comment /\ Len(c.files) = L + 1
      /\ \A k \in 1 .. L + 1 :
           /\ c.files[k].name = b.files[k].name
           /\ c.files[k].data = IF k = L + 1 THEN Append(b.files[k].data, l)
                                             ELSE b.files[k].data
      BY <1>1, <1>3, ParseData
<1> HIDE DEF c, L
<1>5. \A k \in 1 .. L : k \in 1 .. L + 1 /\ k # L + 1
      BY <1>2
<1>6. L + 1 \in 1 .. L + 1
      BY <1>2
<1>7. \A k \in 1 .. L : /\ c.files[k].name = a.files[k].name
                        /\ c.files[k].data = a.files[k].data
      BY <1>1, <1>4, <1>5
<1>8. c.files[L + 1].name = n /\ c.files[L + 1].data = Append(d, l)
      BY <1>1, <1>4, <1>6
<1> QED
    BY <1>1, <1>4, <1>7, <1>8 DEF More, L, c

\* A marker and its file.
GoesOn(text, n, d, t) == t \in Seq(Lines) /\ More(Parse(text), n, d, Parse(t))

LEMMA ParseFile ==
    ASSUME NEW text \in Seq(Lines), NEW n \in Names, NEW d \in Seq(Plain)
    PROVE  GoesOn(text, n, d, text \o (<<Marker(n)>> \o d))
<1> DEFINE N == Len(d)
           M == Marker(n)
           T(e) == text \o (<<M>> \o e)
           Start == [i \in 0 .. N |-> SubSeq(d, 1, i)]
           S == {i \in 0 .. N : GoesOn(text, n, Start[i], T(Start[i]))}
<1>1. N \in Nat /\ \A i \in 1 .. N : d[i] \in Plain /\ d[i] \in Lines
      BY LenProperties, ElementOfSeq, PlainIs
<1>0. \A i \in 0 .. N : Start[i] = SubSeq(d, 1, i)
      OBVIOUS
<1>s. 0 \in 0 .. N /\ N \in 0 .. N /\ \A i \in 1 .. N : i \in 0 .. N /\ i - 1 \in 0 .. N
      BY <1>1
<1>2. M \in Lines
      BY DEF Lines
<1>3. Parse(text) \in Archives
      BY ParseLaid
<1>m. M = Marker(n)
      OBVIOUS
<1> HIDE DEF M
<1>4. PICK m \in Seq(Lines) : m = <<M>>
      BY <1>2, SingleIs
<1>5. \A i \in 0 .. N : Start[i] \in Seq(Lines)
  <2> TAKE i \in 0 .. N
  <2>1. 1 \in Int /\ i \in Int /\ \A k \in 1 .. i : k \in 1 .. N
        BY <1>1
  <2>2. SubSeq(d, 1, i) \in Seq(Lines)
        BY <1>1, <2>1, SubSeqProperties
  <2> QED
      BY <1>0, <2>2
<1> HIDE DEF Start
<1>6. 0 \in S
  <2>1. Start[0] = <<>>
        BY <1>0, <1>s, SubSeqEmpty
  <2>2. T(<<>>) = Append(text, M)
    <3>1. m \o <<>> = m
          BY ConcatEmptySeq
    <3> QED
        BY <1>2, <1>4, <3>1, AppendIsConcat
  <2>3. GoesOn(text, n, <<>>, T(<<>>))
    <3>1. /\ Append(text, M) \in Seq(Lines)
          /\ Parse(Append(text, M)) = ParseLine(Parse(text), M)
          BY <1>2, ParseAppend
    <3>2. More(Parse(text), n, <<>>, ParseLine(Parse(text), M))
          BY <1>3, <1>m, MoreMarker
    <3> HIDE DEF T
    <3> QED
        BY <2>2, <3>1, <3>2 DEF GoesOn
  <2> HIDE DEF T
  <2> QED
      BY <1>s, <2>1, <2>3
<1>7. ASSUME NEW i \in 1 .. N, i - 1 \in S PROVE i \in S
  <2> DEFINE e == Start[i - 1]
             l == d[i]
  <2>1. GoesOn(text, n, e, T(e))
        BY <1>7
  <2>2. 1 \in 1 .. i /\ i - 1 \in 0 .. N
        BY <1>1
  <2>3. Start[i] = Append(e, l)
    <3>1. SubSeq(d, 1, i) = Append(SubSeq(d, 1, i - 1), d[i])
          BY <2>2, SubSeqAppend
    <3> QED
        BY <1>0, <1>s, <3>1
  <2>4. l \in Plain /\ l \in Lines /\ e \in Seq(Lines)
        BY <1>1, <1>5, <2>2
  <2> HIDE DEF e, l
  <2>5. T(Append(e, l)) = Append(T(e), l)
    <3>1. m \o e \in Seq(Lines)
          BY <2>4, ConcatProperties
    <3>2. m \o Append(e, l) = Append(m \o e, l)
          BY <2>4, ConcatAppend
    <3>3. text \o Append(m \o e, l) = Append(text \o (m \o e), l)
          BY <2>4, <3>1, ConcatAppend
    <3> QED
        BY <1>4, <3>2, <3>3
  <2>6. GoesOn(text, n, Append(e, l), T(Append(e, l)))
    <3> HIDE DEF T
    <3> QED
        BY <1>3, <2>1, <2>4, <2>5, ParseAppend, MoreLine DEF GoesOn
  <2> HIDE DEF T
  <2> QED
      BY <1>s, <2>3, <2>6
<1> HIDE DEF S
<1>8. \A i \in 0 .. N : i \in S
      BY <1>1, <1>6, <1>7, InductionUpTo
<1>9. N \in S
      BY <1>1, <1>8
<1>10. GoesOn(text, n, Start[N], T(Start[N]))
       BY <1>9 DEF S
<1>11. Start[N] = d
       BY <1>0, <1>s, SubSeqFull
<1> QED
    BY <1>10, <1>11, <1>m

---------------------------------------------------------------------------
(* The text of formatted files.                                            *)

\* fs has the files of the archive a, in their order, with other lines perhaps.
Made(a, fs) ==
    LET L == Len(a.files)
    IN  /\ fs \in FileSets
        /\ fs.noHeader <=> Implicit(a)
        /\ DOMAIN fs.m = Taken(a, L)
        /\ Len(fs.files) = Before(a) + L
        /\ \A k \in 1 .. L : fs.files[Before(a) + k] = a.files[k].name
        /\ Implicit(a) => fs.files[1] = progName /\ ~Blank(fs.m[progName])

LEMMA BeforeIs ==
    ASSUME NEW a
    PROVE  /\ Before(a) \in {0, 1} /\ (Implicit(a) <=> Before(a) = 1)
           /\ Implicit(a) => progName \in Taken(a, Len(a.files))
BY DEF Before, Taken

LEMMA MadeByFmt ==
    ASSUME NEW a \in Archives, NEW s \in FileSets, Filled(a, Len(a.files), s),
           NEW fs \in FileSets, Kept(s, fs)
    PROVE  Made(a, fs)
<1> DEFINE L == Len(a.files)
<1>1. /\ s.noHeader <=> Implicit(a)
      /\ DOMAIN s.m = Taken(a, L)
      /\ Len(s.files) = Before(a) + L
      /\ \A k \in 1 .. L : s.files[Before(a) + k] = a.files[k].name
      /\ Implicit(a) => s.files[1] = progName /\ s.m[progName] = a.comment
      BY DEF Filled
<1>2. /\ fs.files = s.files /\ (fs.noHeader <=> s.noHeader) /\ DOMAIN fs.m = DOMAIN s.m
      /\ \A n \in DOMAIN s.m : Same(s.m[n], fs.m[n])
      BY DEF Kept
<1> HIDE DEF L
<1>3. ASSUME Implicit(a) PROVE ~Blank(fs.m[progName])
  <2>1. progName \in DOMAIN s.m /\ s.m[progName] = a.comment
        BY <1>1, <1>3, BeforeIs DEF L
  <2>2. Same(a.comment, fs.m[progName])
        BY <1>2, <2>1
  <2> QED
      BY <1>3, <2>2 DEF Same, Implicit
<1> QED
    BY <1>1, <1>2, <1>3 DEF Made, L

Header(fs) == IF fs.noHeader THEN fs.m[progName] ELSE <<>>

LEMMA HeaderIs ==
    ASSUME NEW a \in Archives, NEW fs, Made(a, fs)
    PROVE  Header(fs) \in Seq(Plain) /\ (~Blank(Header(fs)) <=> Implicit(a))
<1>1. /\ fs \in FileSets /\ (fs.noHeader <=> Implicit(a))
      /\ DOMAIN fs.m = Taken(a, Len(a.files))
      /\ Implicit(a) => ~Blank(fs.m[progName])
      BY DEF Made
<1>2. CASE Implicit(a)
  <2>1. Header(fs) = fs.m[progName] /\ progName \in DOMAIN fs.m
        BY <1>1, <1>2, BeforeIs DEF Header
  <2>2. fs.m[progName] \in Seq(Plain)
        BY <1>1, <2>1, FileSetIs
  <2> QED
      BY <1>1, <1>2, <2>1, <2>2
<1>3. CASE ~Implicit(a)
  <2>1. Header(fs) = <<>>
        BY <1>1, <1>3 DEF Header
  <2>2. <<>> \in Seq(Plain) /\ Len(<<>>) = 0
        BY EmptySeq
  <2>3. \A i : i \notin 1 .. 0
        OBVIOUS
  <2>4. Blank(<<>>)
        BY <2>2, <2>3, HasIs
  <2> QED
      BY <1>3, <2>1, <2>2, <2>4
<1> QED
    BY <1>2, <1>3

\* Each file of the archive is written with its marker.
LEMMA FileTextIs ==
    ASSUME NEW a \in Archives, NEW fs, Made(a, fs)
    PROVE  /\ Implicit(a) => FileText(fs, 1) = <<>>
           /\ \A k \in 1 .. Len(a.files) :
                LET n == a.files[k].name
                IN  /\ n \in Names /\ fs.m[n] \in Seq(Plain)
                    /\ FileText(fs, Before(a) + k) = <<Marker(n)>> \o fs.m[n]
                    /\ FileText(fs, Before(a) + k) \in Seq(Lines)
<1> DEFINE L == Len(a.files)
           B == Before(a)
<1>1. /\ fs \in FileSets /\ (fs.noHeader <=> Implicit(a))
      /\ DOMAIN fs.m = Taken(a, L)
      /\ \A k \in 1 .. L : fs.files[B + k] = a.files[k].name
      /\ Implicit(a) => fs.files[1] = progName
      BY DEF Made
<1>2. L \in Nat /\ B \in {0, 1} /\ (Implicit(a) <=> B = 1)
      BY ArchiveIs, BeforeIs
<1>3. Implicit(a) => FileText(fs, 1) = <<>>
      BY <1>1 DEF FileText
<1>4. ASSUME NEW k \in 1 .. L
      PROVE  LET n == a.files[k].name
             IN  /\ n \in Names /\ fs.m[n] \in Seq(Plain)
                 /\ FileText(fs, B + k) = <<Marker(n)>> \o fs.m[n]
                 /\ FileText(fs, B + k) \in Seq(Lines)
  <2> DEFINE n == a.files[k].name
  <2>1. n \in Names
        BY ArchiveIs
  <2>2. n \in DOMAIN fs.m
        BY <1>1 DEF Taken
  <2>3. fs.m[n] \in Seq(Plain) /\ fs.m[n] \in Seq(Lines)
    <3>1. fs.m[n] \in Seq(Plain)
          BY <1>1, <2>2, FileSetIs
    <3> QED
        BY <3>1, ParseOnly DEF IsComment
  <2>4. fs.files[B + k] = n
        BY <1>1
  <2> HIDE DEF n, B
  <2>5. ~(B + k = 1 /\ fs.noHeader)
    <3>1. B = 1 => B + k # 1
          BY <1>2
    <3> QED
        BY <1>1, <1>2, <3>1
  <2>6. FileText(fs, B + k) = <<Marker(n)>> \o fs.m[n]
        BY <2>4, <2>5 DEF FileText
  <2>7. Marker(n) \in Lines
        BY <2>1 DEF Lines
  <2>8. PICK m \in Seq(Lines) : m = <<Marker(n)>>
        BY <2>7, SingleIs
  <2>9. m \o fs.m[n] \in Seq(Lines)
        BY <2>3, ConcatProperties
  <2> QED
      BY <2>1, <2>3, <2>6, <2>8, <2>9 DEF n
<1> QED
    BY <1>3, <1>4

\* The loop of Format.
FormatLoop(fs, f) ==
    /\ f \in [0 .. Len(fs.files) -> Seq(Lines)] /\ f[0] = Header(fs)
    /\ \A i \in 1 .. Len(fs.files) : f[i] = f[i - 1] \o FileText(fs, i)

LEMMA FormatIs ==
    ASSUME NEW a \in Archives, NEW fs, Made(a, fs)
    PROVE  \E f : FormatLoop(fs, f) /\ Format(fs) = f[Len(fs.files)]
<1> DEFINE N == Len(fs.files)
           L == Len(a.files)
           B == Before(a)
           V == Seq(Lines)
           g == [i \in 1 .. N |-> [x \in V |-> x \o FileText(fs, i)]]
           F == CHOOSE f : f = [i \in 0 .. N |->
                  IF i = 0 THEN Header(fs) ELSE f[i - 1] \o FileText(fs, i)]
<1>1. N = B + L /\ L \in Nat /\ N \in Nat /\ B \in {0, 1} /\ (Implicit(a) <=> B = 1)
      BY ArchiveIs, BeforeIs DEF Made
<1>2. Header(fs) \in V
      BY HeaderIs, ParseOnly DEF IsComment
<1>3. \A i \in 1 .. N : FileText(fs, i) \in V
  <2> TAKE i \in 1 .. N
  <2>1. CASE Implicit(a) /\ i = 1
        BY <2>1, FileTextIs, EmptySeq
  <2>2. CASE ~(Implicit(a) /\ i = 1)
    <3> DEFINE k == i - B
    <3> HIDE DEF N, L, B, V
    <3>1. k \in 1 .. L /\ B + k = i
          BY <1>1, <2>2
    <3> HIDE DEF k
    <3>2. FileText(fs, B + k) \in V
          BY <3>1, FileTextIs DEF L, B, V
    <3> QED
        BY <3>1, <3>2
  <2> QED
      BY <2>1, <2>2
<1>4. Turns(g, N, V)
  <2>1. \A i \in 1 .. N : \A x \in V : x \o FileText(fs, i) \in V
        BY <1>3, ConcatProperties
  <2> HIDE DEF V, N
  <2> QED
      BY <2>1 DEF Turns
<1>5. PICK f \in [0 .. N -> V] :
        f[0] = Header(fs) /\ \A i \in 1 .. N : f[i] = g[i][f[i - 1]]
  <2>1. N \in Nat
        BY <1>1
  <2>2. PICK h \in V : h = Header(fs)
        BY <1>2
  <2> HIDE DEF g, N, F, V
  <2>3. \E f : Loop(f, g, N, V, h)
        BY <2>1, <1>4, LoopExists
  <2> QED
      BY <2>2, <2>3 DEF Loop
<1>6. \A i \in 1 .. N : i - 1 \in 0 .. N
      BY <1>1
<1>7. \A i \in 1 .. N : f[i] = f[i - 1] \o FileText(fs, i)
  <2> HIDE DEF V, N, F
  <2> QED
      BY <1>5, <1>6 DEF g
<1>8. f = [i \in 0 .. N |-> IF i = 0 THEN Header(fs) ELSE f[i - 1] \o FileText(fs, i)]
  <2>1. \A i \in 0 .. N : i # 0 => i \in 1 .. N
        BY <1>1
  <2> HIDE DEF N, V, g, F
  <2> QED
      BY <1>5, <1>7, <2>1
<1>9. F = [i \in 0 .. N |-> IF i = 0 THEN Header(fs) ELSE F[i - 1] \o FileText(fs, i)]
      BY <1>8
<1>10. Format(fs) = F[N]
       BY DEF Format, Header
<1> HIDE DEF F, N, g, V
<1>11. Alike(F, f, N)
  <2>1. 0 \in 0 .. N /\ \A i \in 1 .. N : i \in 0 .. N /\ i # 0
        BY <1>1
  <2>2. F[0] = f[0]
        BY <1>5, <1>7, <1>9, <2>1
  <2>3. \A i \in 1 .. N : F[i - 1] = f[i - 1] => F[i] = f[i]
        BY <1>5, <1>7, <1>9, <2>1
  <2> QED
      BY <2>2, <2>3 DEF Alike
<1>12. \A i \in 0 .. N : F[i] = f[i]
  <2>1. N \in Nat
        BY <1>1
  <2> QED
      BY <1>11, <2>1, SameLoop
<1>13. F[N] = f[N]
      BY <1>1, <1>12
<1>14. FormatLoop(fs, f)
      BY <1>5, <1>7 DEF FormatLoop, N, V
<1> QED
    BY <1>10, <1>13, <1>14 DEF N

\* b is what Parse makes of the text of the first j files.
Read(a, fs, j, b) ==
    /\ b \in Archives /\ b.comment = Header(fs) /\ Len(b.files) = j
    /\ \A k \in 1 .. j : /\ b.files[k].name = a.files[k].name
                         /\ b.files[k].data = fs.m[a.files[k].name]

LEMMA ReadMore ==
    ASSUME NEW a \in Archives, NEW fs, NEW j \in 1 .. Len(a.files), NEW b,
           Read(a, fs, j - 1, b), NEW c,
           More(b, a.files[j].name, fs.m[a.files[j].name], c)
    PROVE  Read(a, fs, j, c)
<1>1. /\ b \in Archives /\ b.comment = Header(fs) /\ Len(b.files) = j - 1
      /\ \A k \in 1 .. j - 1 : /\ b.files[k].name = a.files[k].name
                               /\ b.files[k].data = fs.m[a.files[k].name]
      BY DEF Read
<1>2. /\ c \in Archives /\ c.comment = b.comment /\ Len(c.files) = (j - 1) + 1
      /\ \A k \in 1 .. j - 1 : /\ c.files[k].name = b.files[k].name
                               /\ c.files[k].data = b.files[k].data
      /\ c.files[(j - 1) + 1].name = a.files[j].name
      /\ c.files[(j - 1) + 1].data = fs.m[a.files[j].name]
      BY <1>1 DEF More
<1>3. j \in Int /\ (j - 1) + 1 = j /\ \A k \in 1 .. j : k = j \/ k \in 1 .. j - 1
      BY ArchiveIs
<1>4. ASSUME NEW k \in 1 .. j
      PROVE  c.files[k].name = a.files[k].name /\ c.files[k].data = fs.m[a.files[k].name]
  <2>1. CASE k = j
        BY <1>2, <1>3, <2>1
  <2>2. CASE k \in 1 .. j - 1
        BY <1>1, <1>2, <2>2
  <2> QED
      BY <1>3, <2>1, <2>2
<1> QED
    BY <1>1, <1>2, <1>3, <1>4 DEF Read

\* The text of a file set is taken apart into its files.
LEMMA ParseFormat ==
    ASSUME NEW a \in Archives, NEW fs, Made(a, fs)
    PROVE  Format(fs) \in Seq(Lines) /\ Read(a, fs, Len(a.files), Parse(Format(fs)))
<1> DEFINE N == Len(fs.files)
           L == Len(a.files)
           B == Before(a)
<1>1. N = B + L /\ L \in Nat /\ N \in Nat /\ B \in {0, 1} /\ (Implicit(a) <=> B = 1)
      BY ArchiveIs, BeforeIs DEF Made
<1>2. PICK f : FormatLoop(fs, f) /\ Format(fs) = f[N]
      BY FormatIs
<1>3. /\ f \in [0 .. N -> Seq(Lines)] /\ f[0] = Header(fs)
      /\ \A i \in 1 .. N : f[i] = f[i - 1] \o FileText(fs, i)
      BY <1>2 DEF FormatLoop
<1> DEFINE S == {j \in 0 .. L : Read(a, fs, j, Parse(f[B + j]))}
<1>4. \A j \in 0 .. L : B + j \in 0 .. N
  <2> HIDE DEF N, L, B
  <2> QED
      BY <1>1
<1>5. f[B + 0] = Header(fs)
  <2>1. CASE Implicit(a)
    <3>1. B + 0 = 1 /\ 1 \in 1 .. N /\ 1 - 1 = 0
          BY <1>1, <2>1
    <3>2. f[1] = f[1 - 1] \o FileText(fs, 1)
          BY <1>3, <3>1
    <3>3. FileText(fs, 1) = <<>> /\ Header(fs) \in Seq(Plain)
          BY <2>1, FileTextIs, HeaderIs
    <3>4. Header(fs) \o <<>> = Header(fs)
          BY <3>3, ConcatEmptySeq
    <3> QED
        BY <1>3, <3>1, <3>2, <3>3, <3>4
  <2>2. CASE ~Implicit(a)
    <3>1. B + 0 = 0
          BY <1>1, <2>2
    <3> QED
        BY <1>3, <3>1
  <2> QED
      BY <2>1, <2>2
<1> HIDE DEF N, L, B
<1>6. 0 \in S
  <2>1. IsComment(Header(fs))
        BY HeaderIs, ParseOnly
  <2>2. Len(Parse(Header(fs)).files) = 0
        BY <2>1, EmptySeq DEF IsComment
  <2>3. \A k : k \notin 1 .. 0
        OBVIOUS
  <2>4. Read(a, fs, 0, Parse(Header(fs)))
        BY <2>1, <2>2, <2>3 DEF Read, IsComment
  <2>5. Read(a, fs, 0, Parse(f[B + 0]))
        BY <1>5, <2>4
  <2> QED
      BY <1>1, <2>5
<1>7. ASSUME NEW j \in 1 .. L, j - 1 \in S PROVE j \in S
  <2> DEFINE i == B + j
             n == a.files[j].name
             d == fs.m[n]
             text == f[i - 1]
  <2>1. i \in 1 .. N /\ i - 1 = B + (j - 1) /\ j \in 0 .. L /\ i - 1 \in 0 .. N
        BY <1>1
  <2>2. Read(a, fs, j - 1, Parse(text))
        BY <1>7, <2>1
  <2>3. f[i] = text \o FileText(fs, i)
        BY <1>3, <2>1
  <2>4. n \in Names /\ d \in Seq(Plain) /\ FileText(fs, i) = <<Marker(n)>> \o d
        BY FileTextIs DEF L, B
  <2>5. text \in Seq(Lines)
        BY <1>3, <2>1
  <2> HIDE DEF i, n, d, text
  <2>6. GoesOn(text, n, d, f[i])
    <3>1. GoesOn(text, n, d, text \o (<<Marker(n)>> \o d))
          BY <2>4, <2>5, ParseFile
    <3> QED
        BY <2>3, <2>4, <3>1
  <2>7. More(Parse(text), n, d, Parse(f[i]))
        BY <2>6 DEF GoesOn
  <2>8. Read(a, fs, j, Parse(f[i]))
        BY <2>2, <2>7, ReadMore DEF L, n, d
  <2> QED
      BY <2>1, <2>8 DEF i
<1> HIDE DEF S
<1>8. \A j \in 0 .. L : j \in S
      BY <1>1, <1>6, <1>7, InductionUpTo
<1>9. L \in S
      BY <1>1, <1>8
<1>10. Read(a, fs, L, Parse(f[N])) /\ f[N] \in Seq(Lines)
       BY <1>1, <1>3, <1>9 DEF S
<1> QED
    BY <1>2, <1>10 DEF L

---------------------------------------------------------------------------
(* /fmt, and what it returns taken apart again.                            *)

LEMMA ListedIs ==
    ASSUME NEW a \in Archives, NEW s \in FileSets, Filled(a, Len(a.files), s)
    PROVE  \A i \in 1 .. Len(s.files) : s.files[i] \in DOMAIN s.m
<1> DEFINE L == Len(a.files)
           B == Before(a)
<1>1. /\ DOMAIN s.m = Taken(a, L) /\ Len(s.files) = B + L
      /\ \A k \in 1 .. L : s.files[B + k] = a.files[k].name
      /\ Implicit(a) => s.files[1] = progName
      BY DEF Filled
<1>2. L \in Nat /\ B \in {0, 1} /\ (Implicit(a) <=> B = 1)
      /\ (Implicit(a) => progName \in Taken(a, L))
      BY ArchiveIs, BeforeIs
<1>3. \A k \in 1 .. L : a.files[k].name \in Taken(a, L)
      BY DEF Taken
<1> HIDE DEF L, B
<1>4. ASSUME NEW i \in 1 .. Len(s.files) PROVE s.files[i] \in DOMAIN s.m
  <2>1. CASE Implicit(a) /\ i = 1
        BY <1>1, <1>2, <2>1
  <2>2. CASE ~(Implicit(a) /\ i = 1)
    <3> DEFINE k == i - B
    <3>1. k \in 1 .. L /\ B + k = i
          BY <1>1, <1>2, <2>2
    <3> HIDE DEF k
    <3>2. s.files[B + k] = a.files[k].name
          BY <1>1, <3>1
    <3> QED
        BY <1>1, <1>3, <3>1, <3>2
  <2> QED
      BY <2>1, <2>2
<1> QED
    BY <1>4

\* Archives with the same names, and the same prog.go implicit, are both accepted.
LEMMA SameNames ==
    ASSUME NEW a \in Archives, NEW b \in Archives, Len(b.files) = Len(a.files),
           \A k \in 1 .. Len(a.files) : b.files[k].name = a.files[k].name,
           Implicit(b) <=> Implicit(a)
    PROVE  /\ Before(b) = Before(a) /\ (Fits(b) <=> Fits(a))
           /\ Taken(b, Len(b.files)) = Taken(a, Len(a.files))
           /\ GoodUpTo(b, Len(b.files)) <=> GoodUpTo(a, Len(a.files))
<1> DEFINE L == Len(a.files)
<1>1. L \in Nat
      BY ArchiveIs
<1>2. Before(b) = Before(a)
      BY DEF Before
<1>3. Fits(b) <=> Fits(a)
      BY <1>2 DEF Fits
<1>4. ASSUME NEW i \in 0 .. L PROVE Taken(b, i) = Taken(a, i)
  <2>1. \A k \in 1 .. i : b.files[k].name = a.files[k].name
    <3>1. \A k \in 1 .. i : k \in 1 .. L
          BY <1>1
    <3> QED
        BY <3>1
  <2>2. {b.files[k].name : k \in 1 .. i} = {a.files[k].name : k \in 1 .. i}
        BY <2>1
  <2> QED
      BY <2>2 DEF Taken
<1>5. L \in 0 .. L /\ \A k \in 1 .. L : k - 1 \in 0 .. L
      BY <1>1
<1>6. Taken(b, L) = Taken(a, L)
      BY <1>4, <1>5
<1>7. \A k \in 1 .. L : Taken(b, k - 1) = Taken(a, k - 1)
      BY <1>4, <1>5
<1>8. GoodUpTo(b, L) <=> GoodUpTo(a, L)
      BY <1>7 DEF GoodUpTo
<1> QED
    BY <1>2, <1>3, <1>6, <1>8

\* The text of the files of s, laid out, is accepted and has these files.
LEMMA SplitAgain ==
    ASSUME NEW text \in Seq(Lines), splitFiles(text).ok,
           NEW fs \in FileSets, Kept(splitFiles(text), fs)
    PROVE  LET new == splitFiles(Format(fs))
           IN  /\ Format(fs) \in Seq(Lines) /\ new \in FileSets /\ new.ok
               /\ Kept(splitFiles(text), new)
<1> DEFINE a == Parse(text)
           s == splitFiles(text)
           b == Parse(Format(fs))
           new == splitFiles(Format(fs))
           L == Len(a.files)
           B == Before(a)
<1>1. a \in Archives
      BY ParseLaid
<1>2. s \in FileSets /\ Fits(a) /\ GoodUpTo(a, L) /\ Filled(a, L, s)
      BY SplitOf
<1>3. Made(a, fs)
      BY <1>1, <1>2, MadeByFmt
<1>4. Format(fs) \in Seq(Lines) /\ Read(a, fs, L, b)
      BY <1>1, <1>3, ParseFormat
<1>5. /\ new \in FileSets
      /\ new.ok <=> Fits(b) /\ GoodUpTo(b, Len(b.files))
      /\ new.ok => Filled(b, Len(b.files), new)
      BY <1>4, SplitOf
<1>k. Kept(s, fs)
      OBVIOUS
<1> HIDE DEF a, b, s, new
<1>6. /\ b \in Archives /\ b.comment = Header(fs) /\ Len(b.files) = L
      /\ \A k \in 1 .. L : /\ b.files[k].name = a.files[k].name
                           /\ b.files[k].data = fs.m[a.files[k].name]
      BY <1>4 DEF Read
<1>7. Implicit(b) <=> Implicit(a)
      BY <1>1, <1>3, <1>6, HeaderIs DEF Implicit
<1>8. /\ Before(b) = B /\ (Fits(b) <=> Fits(a)) /\ Taken(b, L) = Taken(a, L)
      /\ GoodUpTo(b, L) <=> GoodUpTo(a, L)
      BY <1>1, <1>6, <1>7, SameNames
<1>9. new.ok /\ Filled(b, L, new)
      BY <1>2, <1>5, <1>6, <1>8
<1>10. /\ new.noHeader <=> Implicit(a)
       /\ DOMAIN new.m = Taken(a, L) /\ Len(new.files) = B + L
       /\ \A k \in 1 .. L : /\ new.files[B + k] = a.files[k].name
                            /\ new.m[a.files[k].name] = fs.m[a.files[k].name]
       /\ Implicit(a) => new.files[1] = progName /\ new.m[progName] = Header(fs)
       BY <1>6, <1>7, <1>8, <1>9 DEF Filled
<1>11. /\ fs.noHeader <=> Implicit(a)
       /\ DOMAIN fs.m = Taken(a, L) /\ Len(fs.files) = B + L
       /\ \A k \in 1 .. L : fs.files[B + k] = a.files[k].name
       /\ Implicit(a) => fs.files[1] = progName
       BY <1>3 DEF Made
<1>12. L \in Nat /\ B \in {0, 1} /\ (Implicit(a) <=> B = 1)
       BY <1>1, ArchiveIs, BeforeIs
<1>t. Taken(a, L) = {a.files[k].name : k \in 1 .. L}
                      \union IF Implicit(a) THEN {progName} ELSE {}
      BY DEF Taken
<1> HIDE DEF L, B
<1>13. ASSUME NEW i \in 1 .. B + L PROVE new.files[i] = fs.files[i]
  <2>1. CASE Implicit(a) /\ i = 1
        BY <1>10, <1>11, <2>1
  <2>2. CASE ~(Implicit(a) /\ i = 1)
    <3> DEFINE k == i - B
    <3>1. k \in 1 .. L /\ B + k = i
          BY <1>12, <2>2
    <3> HIDE DEF k
    <3>2. new.files[B + k] = fs.files[B + k]
          BY <1>10, <1>11, <3>1
    <3> QED
        BY <3>1, <3>2
  <2> QED
      BY <2>1, <2>2
<1>14. new.files = fs.files
  <2>1. new.files \in Seq(FileNames) /\ fs.files \in Seq(FileNames)
        BY <1>5, FileSetIs
  <2>2. \A i \in 1 .. Len(new.files) : new.files[i] = fs.files[i]
        BY <1>10, <1>13
  <2>3. Len(new.files) = Len(fs.files)
        BY <1>10, <1>11
  <2> QED
      BY <2>1, <2>2, <2>3, SeqEqual
<1>15. ASSUME NEW n \in Taken(a, L) PROVE new.m[n] = fs.m[n]
  <2>1. CASE Implicit(a) /\ n = progName
        BY <1>10, <1>11, <2>1 DEF Header
  <2>2. CASE \E k \in 1 .. L : n = a.files[k].name
        BY <1>10, <2>2
  <2> QED
      BY <1>t, <2>1, <2>2
<1>16. /\ fs.files = s.files /\ (fs.noHeader <=> s.noHeader) /\ DOMAIN fs.m = DOMAIN s.m
       /\ \A n \in DOMAIN s.m : Same(s.m[n], fs.m[n])
       /\ progName \in DOMAIN s.m => (fs.m[progName] = <<>> <=> s.m[progName] = <<>>)
       BY <1>k DEF Kept
<1>17. Kept(s, new)
  <2>1. new.noHeader <=> s.noHeader
        BY <1>10, <1>11, <1>16
  <2>2. DOMAIN new.m = DOMAIN s.m /\ DOMAIN s.m = Taken(a, L)
        BY <1>10, <1>11, <1>16
  <2>3. \A n \in DOMAIN s.m : Same(s.m[n], new.m[n])
        BY <1>15, <1>16, <2>2
  <2>4. progName \in DOMAIN s.m => (new.m[progName] = <<>> <=> s.m[progName] = <<>>)
        BY <1>15, <1>16, <2>2
  <2> QED
      BY <1>14, <1>16, <2>1, <2>2, <2>3, <2>4 DEF Kept
<1> QED
    BY <1>4, <1>5, <1>9, <1>17 DEF s, new

\* What /fmt makes of the files of a text it returns an answer for.
LEMMA FmtKeeps ==
    ASSUME NEW text \in Seq(Lines), NEW fixImports \in BOOLEAN,
           FmtFiles(splitFiles(text), fixImports).ok
    PROVE  LET fs == FmtFiles(splitFiles(text), fixImports)
           IN  fs \in FileSets /\ splitFiles(text).ok /\ Kept(splitFiles(text), fs)
<1> DEFINE s == splitFiles(text)
           a == Parse(text)
<1>1. s \in FileSets /\ (s.ok => Filled(a, Len(a.files), s)) /\ a \in Archives
      BY SplitOf, ParseLaid
<1> HIDE DEF a
<1>2. s.ok => \A i \in 1 .. Len(s.files) : s.files[i] \in DOMAIN s.m
      BY <1>1, ListedIs
<1>3. FmtFiles(s, fixImports).ok
      OBVIOUS
<1> HIDE DEF s
<1>4. FmtFiles(s, fixImports) \in Formats(s)
      BY <1>1, <1>2, FmtIs
<1> QED
    BY <1>3, <1>4 DEF Formats, s

---------------------------------------------------------------------------
(* The same files are built in the same way.                               *)

\* What a build comes to.
Outcomes(fs) == {a.of : a \in Builds(fs)}

LEMMA OutcomesAre ==
    ASSUME NEW fs, fs.ok
    PROVE  Outcomes(fs) = IF OtherPackage(fs) \/ Clash(fs)
                            THEN {a.of : a \in {x \in {Error, Internal} :
                                    IF x = Error THEN OtherPackage(fs) ELSE Clash(fs)}}
                            ELSE {"build"}
<1>1. CASE OtherPackage(fs) \/ Clash(fs)
      BY <1>1 DEF Outcomes, Builds
<1>2. CASE ~(OtherPackage(fs) \/ Clash(fs))
  <2>1. PICK r : Builds(fs) = {r} /\ r.of = "build"
    <3> DEFINE r == [of |-> "build", files |-> Written(fs), test |-> Tests(fs),
                     arg |-> IF Alone(fs) THEN progName ELSE <<".">>]
    <3>1. Builds(fs) = {r}
          BY <1>2 DEF Builds
    <3>2. r.of = "build"
          OBVIOUS
    <3> HIDE DEF r
    <3> QED
        BY <3>1, <3>2
  <2>2. {a.of : a \in {r}} = {"build"}
        BY <2>1
  <2> QED
      BY <1>2, <2>1, <2>2 DEF Outcomes
<1> QED
    BY <1>1, <1>2

LEMMA BuiltAlike ==
    ASSUME NEW s \in FileSets, NEW fs \in FileSets, s.ok, fs.ok, Kept(s, fs)
    PROVE  /\ Outcomes(fs) = Outcomes(s)
           /\ Alone(fs) <=> Alone(s)
           /\ Tests(fs) <=> Tests(s)
<1>1. /\ DOMAIN fs.m = DOMAIN s.m
      /\ \A n \in DOMAIN s.m : Same(s.m[n], fs.m[n])
      /\ progName \in DOMAIN s.m => (fs.m[progName] = <<>> <=> s.m[progName] = <<>>)
      BY DEF Kept
<1>2. /\ \A n \in DOMAIN s.m : Has(fs.m[n], "other") <=> Has(s.m[n], "other")
      /\ \A n \in DOMAIN s.m : Has(fs.m[n], "test") <=> Has(s.m[n], "test")
      BY <1>1 DEF Same
<1>3. OtherPackage(fs) <=> OtherPackage(s)
      BY <1>1, <1>2 DEF OtherPackage
<1>4. Clash(fs) <=> Clash(s)
      BY <1>1 DEF Clash
<1>5. Alone(fs) <=> Alone(s)
      BY <1>1 DEF Alone, Num, Holds
<1>6. Tests(fs) <=> Tests(s)
      BY <1>2, <1>5 DEF Tests, Alone, Holds
<1>7. Outcomes(fs) = Outcomes(s)
  <2>1. CASE OtherPackage(s) \/ Clash(s)
    <3>1. \A x \in {Error, Internal} :
            (IF x = Error THEN OtherPackage(fs) ELSE Clash(fs)) <=>
              (IF x = Error THEN OtherPackage(s) ELSE Clash(s))
          BY <1>3, <1>4
    <3>2. {x \in {Error, Internal} : IF x = Error THEN OtherPackage(fs) ELSE Clash(fs)}
            = {x \in {Error, Internal} : IF x = Error THEN OtherPackage(s) ELSE Clash(s)}
          BY <3>1
    <3> QED
        BY <1>3, <1>4, <2>1, <3>2, OutcomesAre
  <2>2. CASE ~(OtherPackage(s) \/ Clash(s))
        BY <1>3, <1>4, <2>2, OutcomesAre
  <2> QED
      BY <2>1, <2>2
<1> QED
    BY <1>5, <1>6, <1>7

---------------------------------------------------------------------------
(* The invariants.                                                         *)

LEMMA ProgramKept == IInv => FormatKeepsProgram
<1> SUFFICES ASSUME IInv, answer.of = "fmt"
             PROVE  FormatKeepsProgram
    BY DEF FormatKeepsProgram
<1> DEFINE s == splitFiles(body)
           new == splitFiles(answer.body)
<1>1. body \in Seq(Lines)
      BY DEF IInv
<1>2. PICK fixImports \in BOOLEAN :
        LET fs == FmtFiles(s, fixImports) IN fs.ok /\ answer.body = Format(fs)
      BY DEF IInv
<1> DEFINE fs == FmtFiles(s, fixImports)
<1>3. fs \in FileSets /\ s.ok /\ Kept(s, fs)
      BY <1>1, <1>2, FmtKeeps
<1>4. s \in FileSets
      BY <1>1, SplitOf
<1>5. new \in FileSets /\ new.ok /\ Kept(s, new)
      BY <1>1, <1>2, <1>3, SplitAgain
<1>6. FormatKeepsProgram <=>
        /\ new.ok /\ new.files = s.files /\ new.noHeader = s.noHeader
        /\ \A n \in DOMAIN s.m : Tidy(new.m[n]) = Tidy(s.m[n])
        /\ Outcomes(new) = Outcomes(s)
        /\ Alone(new) = Alone(s) /\ Tests(new) = Tests(s)
      BY DEF FormatKeepsProgram, Outcomes
<1> HIDE DEF s, new
<1>7. Outcomes(new) = Outcomes(s) /\ (Alone(new) <=> Alone(s)) /\ (Tests(new) <=> Tests(s))
      BY <1>3, <1>4, <1>5, BuiltAlike
<1>8. Alone(new) = Alone(s) /\ Tests(new) = Tests(s)
      BY <1>7 DEF Alone, Tests
<1>9. new.files = s.files /\ \A n \in DOMAIN s.m : Tidy(new.m[n]) = Tidy(s.m[n])
      BY <1>5 DEF Kept, Same
<1>10. new.noHeader = s.noHeader
  <2>1. new.noHeader \in BOOLEAN /\ s.noHeader \in BOOLEAN
        BY <1>4, <1>5, FileSetIs
  <2>2. new.noHeader <=> s.noHeader
        BY <1>5 DEF Kept
  <2> QED
      BY <2>1, <2>2
<1> QED
    BY <1>5, <1>6, <1>7, <1>8, <1>9, <1>10

\* Only /fmt answers with a text.
LEMMA BuildsDiffer ==
    ASSUME NEW fs, NEW r \in Builds(fs)
    PROVE  r.of # "fmt"
<1>1. r = Error \/ r = Internal \/
        r = [of |-> "build", files |-> Written(fs), test |-> Tests(fs),
             arg |-> IF Alone(fs) THEN progName ELSE <<".">>]
      BY DEF Builds
<1> QED
    BY <1>1 DEF Error, Internal

LEMMA InitHolds == Init => IInv
<1> SUFFICES ASSUME Init PROVE IInv
    OBVIOUS
<1>1. body = <<>> /\ answer = NoAnswer
      BY DEF Init
<1>2. answer.of # "fmt"
      BY <1>1 DEF NoAnswer
<1>3. body \in Seq(Lines)
      BY <1>1, EmptySeq
<1> QED
    BY <1>2, <1>3 DEF IInv

LEMMA StepHolds == IInv /\ [Next]_vars => IInv'
<1> SUFFICES ASSUME IInv, [Next]_vars PROVE IInv'
    OBVIOUS
<1>1. body \in Seq(Lines)
      BY DEF IInv
<1>2. ASSUME NEW l \in Lines, Types(l) PROVE IInv'
  <2>1. answer.of = "none" /\ answer' = answer /\ body' = Append(body, l)
        BY <1>2 DEF Types
  <2>2. body' \in Seq(Lines)
        BY <1>1, <2>1, AppendProperties
  <2> QED
      BY <2>1, <2>2 DEF IInv
<1>3. CASE TakesOver
  <2>1. answer'.of # "fmt"
        BY <1>3 DEF TakesOver, NoAnswer
  <2>2. body' \in Seq(Lines)
    <3>1. CASE answer.of = "fmt"
      <4> DEFINE s == splitFiles(body)
      <4>1. PICK fixImports \in BOOLEAN :
              LET fs == FmtFiles(s, fixImports) IN fs.ok /\ answer.body = Format(fs)
            BY <3>1 DEF IInv
      <4> DEFINE fs == FmtFiles(s, fixImports)
      <4>2. fs \in FileSets /\ s.ok /\ Kept(s, fs)
            BY <1>1, <4>1, FmtKeeps
      <4>3. Format(fs) \in Seq(Lines)
            BY <1>1, <4>2, SplitAgain
      <4>4. body' = Format(fs)
            BY <1>3, <3>1, <4>1 DEF TakesOver
      <4> QED
          BY <4>3, <4>4
    <3>2. CASE answer.of # "fmt"
          BY <1>1, <1>3, <3>2 DEF TakesOver
    <3> QED
        BY <3>1, <3>2
  <2> QED
      BY <2>1, <2>2 DEF IInv
<1>4. ASSUME NEW fixImports \in BOOLEAN, handleFmt(fixImports) PROVE IInv'
  <2> DEFINE fs == FmtFiles(splitFiles(body), fixImports)
  <2>1. /\ body' = body
        /\ answer' = IF fs.ok THEN [of |-> "fmt", body |-> Format(fs)] ELSE Error
        BY <1>4 DEF handleFmt
  <2>2. CASE fs.ok
    <3>1. answer'.body = Format(fs)
          BY <2>1, <2>2
    <3>2. /\ FmtFiles(splitFiles(body'), fixImports).ok
          /\ answer'.body = Format(FmtFiles(splitFiles(body'), fixImports))
          BY <2>1, <2>2, <3>1
    <3> HIDE DEF fs
    <3> QED
        BY <1>1, <2>1, <3>2 DEF IInv
  <2>3. CASE ~fs.ok
    <3>1. answer'.of # "fmt"
          BY <2>1, <2>3 DEF Error
    <3> QED
        BY <1>1, <2>1, <3>1 DEF IInv
  <2> QED
      BY <2>2, <2>3
<1>5. CASE sandboxBuild
  <2>1. body' = body /\ answer' \in Builds(splitFiles(body))
        BY <1>5 DEF sandboxBuild
  <2>2. answer'.of # "fmt"
        BY <2>1, BuildsDiffer
  <2> QED
      BY <1>1, <2>1, <2>2 DEF IInv
<1>6. CASE UNCHANGED vars
      BY <1>6 DEF IInv, vars
<1> QED
    BY <1>2, <1>3, <1>4, <1>5, <1>6 DEF Next

\* What the user types and /fmt returns are lines, and what /fmt has returned is
\* what it made of the program that is still in the editor.
THEOREM Invariant == Spec => []IInv
<1> QED
    BY InitHolds, StepHolds, PTL DEF Spec

LEMMA Documented == IInv => SplitAsDocumented
BY SplitDocumented DEF IInv

\* Whatever the user has typed or taken over, splitFiles accepts it exactly if
\* the documentation of the format says so, and each file gets the lines below
\* its marker (txtar.go:66-118).
THEOREM AlwaysSplits == Spec => []SplitAsDocumented
<1> QED
    BY Invariant, Documented, PTL

\* What /fmt returns is the program it was given: the same files in the same
\* order, the same but for layout, with the same build and the same run of tests
\* (fmt.go:38-72, txtar.go:51-64).
THEOREM AlwaysKept == Spec => []FormatKeepsProgram
<1> QED
    BY Invariant, ProgramKept, PTL
====
