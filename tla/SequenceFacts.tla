--------------------------- MODULE SequenceFacts ---------------------------
(***************************************************************************)
(* Facts about sequences that the theorems about data rest on.  Induction  *)
(* is by a least counterexample: a set of numbers that has 1 and, with a   *)
(* number, the next one, has them all (Upwards).  With it, what FlattenSeq *)
(* computes by a recursive function is known for every sequence (Flatten). *)
(***************************************************************************)
EXTENDS SequencesExt, SequenceTheorems, FiniteSetTheorems, WellFoundedInduction, TLAPS

-----------------------------------------------------------------------------
\* Numbers

\* A set of numbers has a least one.
LEMMA Least ==
  ASSUME NEW T \in SUBSET Nat, T # {}
  PROVE  \E x \in T : \A y \in T : x <= y
<1> DEFINE F == {1..n : n \in T}
<1>1. F \subseteq FiniteSubsetsOf(Nat) /\ F # {}
  <2>1. \A n \in T : 1..n \in SUBSET Nat /\ IsFiniteSet(1..n)  BY FS_Interval
  <2> QED BY <2>1 DEF FiniteSubsetsOf
<1>2. PICK X \in F : \A Y \in F : ~(<<Y, X>> \in StrictSubsetOrdering(Nat))
  BY <1>1, FS_StrictSubsetOrderingWellFounded, WFMin
<1>3. PICK x \in T : X = 1..x
  OBVIOUS
<1>4. ASSUME NEW y \in T, y < x
      PROVE  FALSE
  <2>1. 1..y \subseteq 1..x /\ x \in 1..x /\ x \notin 1..y
    BY <1>4
  <2>2. <<1..y, 1..x>> \in StrictSubsetOrdering(Nat)
    BY <2>1 DEF StrictSubsetOrdering
  <2> QED BY <1>2, <1>3, <2>2
<1> QED BY <1>4

\* What holds of 1 and, with a number, of the next one, up to n.  S is the set of the
\* numbers that it holds of.
LEMMA Upwards ==
  ASSUME NEW n \in Nat, NEW S,
         1 \in S \/ n = 0, \A i \in 1..n : i + 1 <= n /\ i \in S => i + 1 \in S
  PROVE  1..n \subseteq S
<1> SUFFICES ASSUME NEW i \in 1..n, i \notin S PROVE FALSE
  OBVIOUS
<1> DEFINE T == {j \in 1..n : j \notin S}
<1>1. T \in SUBSET Nat /\ T # {}
  OBVIOUS
<1>2. PICK x \in T : \A y \in T : x <= y
  BY <1>1, Least
<1>3. x # 1
  OBVIOUS
<1>4. x - 1 \in 1..n /\ x - 1 \in S
  BY <1>2, <1>3
<1> QED BY <1>4

-----------------------------------------------------------------------------
\* Elements and parts of sequences

\* What is done with each element of a sequence is a sequence.
LEMMA Mapped ==
  ASSUME NEW T, NEW s \in Seq(T), NEW S, NEW m, m = [i \in DOMAIN s |-> m[i]],
         \A i \in DOMAIN s : m[i] \in S
  PROVE  m \in Seq(S) /\ Len(m) = Len(s)
<1>1. PICK n \in Nat : n = Len(s) /\ DOMAIN s = 1..n
  BY LenProperties
<1>2. m \in [1..n -> S]
  BY <1>1
<1> QED BY <1>1, <1>2, SeqDef

\* One element more
LEMMA OneMore ==
  ASSUME NEW T, NEW s \in Seq(T), NEW x \in T, NEW s2 \in Seq(T),
         Len(s2) = Len(s) + 1, s2[Len(s) + 1] = x, \A i \in DOMAIN s : s2[i] = s[i]
  PROVE  s2 = Append(s, x)
<1>1. PICK n \in Nat : n = Len(s) /\ DOMAIN s = 1..n
  BY LenProperties
<1>2. PICK s3 : s3 = Append(s, x)
  OBVIOUS
<1>3. /\ s3 \in Seq(T) /\ Len(s3) = n + 1 /\ s3[n + 1] = x
      /\ \A i \in 1..n : s3[i] = s[i]
  BY <1>1, <1>2, AppendProperties
<1>4. \A i \in 1..Len(s2) : s2[i] = s3[i]
  BY <1>1, <1>3
<1>5. s2 = s3
  BY <1>1, <1>3, <1>4, SeqEqual
<1> QED BY <1>2, <1>5

\* A part of a sequence, and the part that is one element longer
LEMMA OneFurther ==
  ASSUME NEW T, NEW s \in Seq(T), NEW k \in Nat, k < Len(s)
  PROVE  /\ SubSeq(s, 1, k) \in Seq(T) /\ Len(SubSeq(s, 1, k)) = k
         /\ SubSeq(s, 1, k + 1) = Append(SubSeq(s, 1, k), s[k + 1])
         /\ s[k + 1] \in T
<1>1. PICK n \in Nat : n = Len(s) /\ DOMAIN s = 1..n /\ k < n
  BY LenProperties
<1>2. \A i \in 1..n : s[i] \in T
  BY <1>1, ElementOfSeq
<1>3. PICK a, b : a = SubSeq(s, 1, k) /\ b = SubSeq(s, 1, k + 1)
  OBVIOUS
<1>4. /\ a \in Seq(T) /\ Len(a) = k /\ \A i \in 1..k : a[i] = s[i]
  <2>1. \A i \in 1..k : s[i] \in T
    BY <1>1, <1>2
  <2>2. /\ SubSeq(s, 1, k) \in Seq(T)
        /\ Len(SubSeq(s, 1, k)) = IF 1 <= k THEN k - 1 + 1 ELSE 0
        /\ \A i \in 1..(k - 1 + 1) : SubSeq(s, 1, k)[i] = s[1 + i - 1]
    BY <2>1, SubSeqProperties
  <2> QED BY <1>3, <2>2
<1>5. /\ b \in Seq(T) /\ Len(b) = k + 1 /\ \A i \in 1..(k + 1) : b[i] = s[i]
  <2>1. \A i \in 1..(k + 1) : s[i] \in T
    BY <1>1, <1>2
  <2>2. /\ SubSeq(s, 1, k + 1) \in Seq(T)
        /\ Len(SubSeq(s, 1, k + 1)) = IF 1 <= k + 1 THEN (k + 1) - 1 + 1 ELSE 0
        /\ \A i \in 1..((k + 1) - 1 + 1) : SubSeq(s, 1, k + 1)[i] = s[1 + i - 1]
    BY <2>1, SubSeqProperties
  <2> QED BY <1>3, <2>2
<1>6. k + 1 \in 1..n /\ s[k + 1] \in T
  BY <1>1, <1>2
<1>7. DOMAIN a = 1..k /\ b[Len(a) + 1] = s[k + 1] /\ \A i \in DOMAIN a : b[i] = a[i]
  BY <1>4, <1>5, LenProperties
<1>8. b = Append(a, s[k + 1])
  BY <1>4, <1>5, <1>6, <1>7, OneMore
<1> QED BY <1>3, <1>4, <1>6, <1>8

\* The longest part is the sequence.
LEMMA Whole ==
  ASSUME NEW T, NEW s \in Seq(T)
  PROVE  SubSeq(s, 1, Len(s)) = s
<1>1. PICK n \in Nat : n = Len(s) /\ DOMAIN s = 1..n
  BY LenProperties
<1>2. \A i \in 1..n : s[i] \in T
  BY <1>1, ElementOfSeq
<1>3. /\ SubSeq(s, 1, n) \in Seq(T)
      /\ Len(SubSeq(s, 1, n)) = IF 1 <= n THEN n - 1 + 1 ELSE 0
      /\ \A i \in 1..(n - 1 + 1) : SubSeq(s, 1, n)[i] = s[1 + i - 1]
  BY <1>2, SubSeqProperties
<1>4. Len(SubSeq(s, 1, n)) = n /\ \A i \in 1..n : SubSeq(s, 1, n)[i] = s[i]
  BY <1>3
<1> QED BY <1>1, <1>3, <1>4, SeqEqual

-----------------------------------------------------------------------------
\* One sequence after another

\* An element after two sequences is one after the second.
Joins(a, b, x) == Append(a \o b, x) = a \o Append(b, x)

LEMMA AppendConcat ==
  ASSUME NEW U, NEW a \in Seq(U), NEW b \in Seq(U), NEW x \in U
  PROVE  Joins(a, b, x)
<1>1. <<x>> \in Seq(U)
  OBVIOUS
<1>2. Append(a \o b, x) = (a \o b) \o <<x>> /\ Append(b, x) = b \o <<x>>
  BY ConcatProperties, AppendIsConcat
<1> QED BY <1>1, <1>2, ConcatAssociative DEF Joins

\* Elements after a few others
Fourth(a, b, c, d) == Append(<<a, b, c>>, d) = <<a, b, c, d>>

LEMMA AppendShort ==
  ASSUME NEW a, NEW b, NEW c, NEW d
  PROVE  /\ Append(<<>>, a) = <<a>> /\ Append(<<a>>, b) = <<a, b>>
         /\ Append(<<a, b>>, c) = <<a, b, c>> /\ Fourth(a, b, c, d)
<1>1. PICK T : T = {a, b, c, d}
  OBVIOUS
<1>2. a \in T /\ b \in T /\ c \in T /\ d \in T
  BY <1>1
<1>3. PICK s0, s1, s2, s3, s4 : /\ s0 = <<>> /\ s1 = <<a>> /\ s2 = <<a, b>> /\ s3 = <<a, b, c>>
                                /\ s4 = <<a, b, c, d>>
  OBVIOUS
<1>4. /\ s0 \in Seq(T) /\ Len(s0) = 0 /\ DOMAIN s0 = {}
      /\ s1 \in Seq(T) /\ Len(s1) = 1 /\ DOMAIN s1 = {1} /\ s1[1] = a
  BY ONLY <1>2, <1>3
<1>5. /\ s2 \in Seq(T) /\ Len(s2) = 2 /\ DOMAIN s2 = {1, 2} /\ s2[1] = a /\ s2[2] = b
  BY ONLY <1>2, <1>3
<1>6. /\ s3 \in Seq(T) /\ Len(s3) = 3 /\ DOMAIN s3 = {1, 2, 3}
      /\ s3[1] = a /\ s3[2] = b /\ s3[3] = c
  BY ONLY <1>2, <1>3
<1>7. /\ s4 \in Seq(T) /\ Len(s4) = 4
      /\ s4[1] = a /\ s4[2] = b /\ s4[3] = c /\ s4[4] = d
  BY ONLY <1>2, <1>3
<1>8. s1 = Append(s0, a)
  BY ONLY <1>2, <1>4, OneMore
<1>9. s2 = Append(s1, b)
  <2>1. Len(s2) = Len(s1) + 1 /\ s2[Len(s1) + 1] = b /\ \A i \in DOMAIN s1 : s2[i] = s1[i]
    BY <1>4, <1>5
  <2>2. Append(s1, b) = s2
    <3>1. s1 \in Seq(T) /\ b \in T /\ s2 \in Seq(T)
      BY <1>2, <1>4, <1>5
    <3> QED BY ONLY <2>1, <3>1, OneMore
  <2> QED BY <2>2
<1>10. s3 = Append(s2, c)
  <2>1. Len(s3) = Len(s2) + 1 /\ s3[Len(s2) + 1] = c /\ \A i \in DOMAIN s2 : s3[i] = s2[i]
    BY <1>5, <1>6
  <2> QED BY <1>2, <1>5, <1>6, <2>1, OneMore
<1>11. s4 = Append(s3, d)
  <2>1. Len(s4) = Len(s3) + 1 /\ s4[Len(s3) + 1] = d /\ \A i \in DOMAIN s3 : s4[i] = s3[i]
    BY <1>6, <1>7
  <2> QED BY <1>2, <1>6, <1>7, <2>1, OneMore
<1> QED BY <1>3, <1>8, <1>9, <1>10, <1>11 DEF Fourth

\* Three sequences in a row are one.
Regroups(a, b, c) == (a \o b) \o c = a \o (b \o c)

LEMMA Regrouped ==
  ASSUME NEW U, NEW a \in Seq(U), NEW b \in Seq(U), NEW c \in Seq(U)
  PROVE  Regroups(a, b, c)
BY ConcatAssociative DEF Regroups

-----------------------------------------------------------------------------
\* FlattenSeq

\* f[i] is the first i sequences, one after the other.
Flattens(f, seqs, n) ==
  /\ f = [i \in 1..n |-> f[i]]
  /\ \A i \in 1..n : f[i] = IF i = 1 THEN seqs[i] ELSE f[i - 1] \o seqs[i]

\* Its values, one from the other
LEMMA FlattenSteps ==
  ASSUME NEW f, NEW seqs, NEW n \in Nat, Flattens(f, seqs, n)
  PROVE  /\ n # 0 => f[1] = seqs[1]
         /\ \A i \in 1..n : i + 1 <= n => f[i + 1] = f[i] \o seqs[i + 1]
<1>1. ASSUME n # 0 PROVE f[1] = seqs[1]
  <2>1. 1 \in 1..n
    BY <1>1
  <2> QED BY <2>1 DEF Flattens
<1>2. ASSUME NEW i \in 1..n, i + 1 <= n PROVE f[i + 1] = f[i] \o seqs[i + 1]
  <2>1. i + 1 \in 1..n /\ i + 1 # 1 /\ (i + 1) - 1 = i
    BY <1>2
  <2>2. f[i + 1] = f[(i + 1) - 1] \o seqs[i + 1]
    BY <2>1 DEF Flattens
  <2> QED BY <2>1, <2>2
<1> QED BY <1>1, <1>2

\* There is one for every length.
LEMMA FlattenExists ==
  ASSUME NEW seqs, NEW n \in Nat
  PROVE  \A m \in 1..n : \E f : Flattens(f, seqs, m)
<1> DEFINE S == {m \in 1..n : \E f : Flattens(f, seqs, m)}
<1>1. 1 \in S \/ n = 0
  <2>1. Flattens([i \in 1..1 |-> seqs[i]], seqs, 1)
    BY DEF Flattens
  <2> QED BY <2>1
<1>2. ASSUME NEW m \in 1..n, m + 1 <= n, m \in S
      PROVE  m + 1 \in S
  <2>1. PICK f : Flattens(f, seqs, m)
    BY <1>2
  <2>2. PICK g : g = [i \in 1..(m + 1) |-> IF i = m + 1 THEN f[m] \o seqs[i] ELSE f[i]]
    OBVIOUS
  <2>3. ASSUME NEW i \in 1..(m + 1)
        PROVE  g[i] = IF i = 1 THEN seqs[i] ELSE g[i - 1] \o seqs[i]
    <3>1. CASE i = m + 1
      <4>1. m \in 1..(m + 1) /\ m # m + 1 /\ i # 1 /\ i - 1 = m
        BY <3>1
      <4>2. g[m] = f[m] /\ g[i] = f[m] \o seqs[i]
        BY <2>2, <3>1, <4>1
      <4> QED BY <4>1, <4>2
    <3>2. CASE i # m + 1
      <4>1. i \in 1..m /\ g[i] = f[i] /\ (i # 1 => g[i - 1] = f[i - 1])
        BY <2>2, <3>2
      <4> QED BY <2>1, <4>1 DEF Flattens
    <3> QED BY <3>1, <3>2
  <2>4. Flattens(g, seqs, m + 1)
    BY <2>2, <2>3 DEF Flattens
  <2> QED BY <1>2, <2>4
<1>3. 1..n \subseteq S
  BY <1>1, <1>2, Upwards
<1> QED BY <1>3

Agree(seqs, seqs2, n) == \A i \in 1..n : seqs[i] = seqs2[i]

\* There is one such function for the sequences in common.
LEMMA FlattenUnique ==
  ASSUME NEW seqs, NEW seqs2, NEW n \in Nat, NEW n2 \in Nat, n <= n2,
         Agree(seqs, seqs2, n),
         NEW f, NEW g, Flattens(f, seqs, n), Flattens(g, seqs2, n2)
  PROVE  \A i \in 1..n : f[i] = g[i]
<1> DEFINE S == {i \in 1..n : f[i] = g[i]}
<1>1. 1 \in S \/ n = 0
  <2>1. CASE n # 0
    <3>1. 1 \in 1..n /\ n2 # 0
      BY <2>1
    <3>2. f[1] = seqs[1]
      BY <2>1, FlattenSteps
    <3>4. g[1] = seqs2[1]
      BY <3>1, FlattenSteps
    <3>3. seqs[1] = seqs2[1]
      BY <3>1 DEF Agree
    <3> QED BY <3>1, <3>2, <3>3, <3>4
  <2> QED BY <2>1
<1>2. ASSUME NEW i \in 1..n, i + 1 <= n, i \in S
      PROVE  i + 1 \in S
  <2>1. i + 1 \in 1..n /\ i \in 1..n2 /\ i + 1 <= n2
    BY <1>2
  <2>2. f[i + 1] = f[i] \o seqs[i + 1] /\ g[i + 1] = g[i] \o seqs2[i + 1]
    BY <1>2, <2>1, FlattenSteps
  <2>3. seqs[i + 1] = seqs2[i + 1] /\ f[i] = g[i]
    BY <1>2, <2>1 DEF Agree
  <2>4. f[i + 1] = g[i + 1]
    BY <2>2, <2>3
  <2> QED BY <2>1, <2>4
<1>3. 1..n \subseteq S
  BY <1>1, <1>2, Upwards
<1> QED BY <1>3

\* Its values are sequences of the same elements.
LEMMA FlattenType ==
  ASSUME NEW T, NEW seqs, NEW n \in Nat, \A i \in 1..n : seqs[i] \in Seq(T),
         NEW f, Flattens(f, seqs, n)
  PROVE  \A i \in 1..n : f[i] \in Seq(T)
<1> DEFINE S == {i \in 1..n : f[i] \in Seq(T)}
<1>1. 1 \in S \/ n = 0
  <2>1. CASE n # 0
    <3>1. 1 \in 1..n
      BY <2>1
    <3>2. f[1] = seqs[1]
      BY <2>1, FlattenSteps
    <3> QED BY <3>1, <3>2
  <2> QED BY <2>1
<1>2. ASSUME NEW i \in 1..n, i + 1 <= n, i \in S
      PROVE  i + 1 \in S
  <2>1. i + 1 \in 1..n /\ seqs[i + 1] \in Seq(T) /\ f[i] \in Seq(T)
    BY <1>2
  <2>2. f[i + 1] = f[i] \o seqs[i + 1]
    BY <1>2, FlattenSteps
  <2>3. f[i + 1] \in Seq(T)
    BY <2>1, <2>2, ConcatProperties
  <2> QED BY <2>1, <2>3
<1>3. 1..n \subseteq S
  BY <1>1, <1>2, Upwards
<1> QED BY <1>3

\* FlattenSeq is its last value.
LEMMA FlattenIs ==
  ASSUME NEW T, NEW seqs \in Seq(T), seqs # <<>>
  PROVE  \E f : Flattens(f, seqs, Len(seqs)) /\ FlattenSeq(seqs) = f[Len(seqs)]
<1>1. PICK n \in Nat : n = Len(seqs) /\ n # 0
  BY EmptySeq, LenProperties
<1> DEFINE flatten == CHOOSE f : f = [i \in 1..n |-> IF i = 1 THEN seqs[i] ELSE f[i - 1] \o seqs[i]]
<1>2. PICK f : Flattens(f, seqs, n)
  <2>1. n \in 1..n
    BY <1>1
  <2> QED BY <2>1, FlattenExists
<1>3. f = [i \in 1..n |-> IF i = 1 THEN seqs[i] ELSE f[i - 1] \o seqs[i]]
  BY <1>2 DEF Flattens
<1>4. flatten = [i \in 1..n |-> IF i = 1 THEN seqs[i] ELSE flatten[i - 1] \o seqs[i]]
  BY <1>3
<1>5. FlattenSeq(seqs) = flatten[n]
  BY <1>1 DEF FlattenSeq
<1> HIDE DEF flatten
<1>6. Flattens(flatten, seqs, n)
  BY <1>4 DEF Flattens
<1> QED BY <1>1, <1>5, <1>6

\* A sequence of sequences is flattened one after the other.
LEMMA Flatten ==
  ASSUME NEW T
  PROVE  /\ FlattenSeq(<<>>) = <<>>
         /\ \A seqs \in Seq(Seq(T)) : FlattenSeq(seqs) \in Seq(T)
         /\ \A seqs \in Seq(Seq(T)), x \in Seq(T) :
              FlattenSeq(Append(seqs, x)) = FlattenSeq(seqs) \o x
<1>1. FlattenSeq(<<>>) = <<>>
  BY EmptySeq DEF FlattenSeq
<1>2. ASSUME NEW seqs \in Seq(Seq(T))
      PROVE  FlattenSeq(seqs) \in Seq(T)
  <2>1. CASE seqs = <<>>
    BY <1>1, <2>1, EmptySeq
  <2>2. CASE seqs # <<>>
    <3>1. PICK f : Flattens(f, seqs, Len(seqs)) /\ FlattenSeq(seqs) = f[Len(seqs)]
      BY <2>2, FlattenIs
    <3>2. /\ Len(seqs) \in Nat /\ Len(seqs) \in 1..Len(seqs)
          /\ \A i \in 1..Len(seqs) : seqs[i] \in Seq(T)
      BY <2>2, EmptySeq, LenProperties, ElementOfSeq
    <3> QED BY <3>1, <3>2, FlattenType
  <2> QED BY <2>1, <2>2
<1>3. ASSUME NEW seqs \in Seq(Seq(T)), NEW x \in Seq(T)
      PROVE  FlattenSeq(Append(seqs, x)) = FlattenSeq(seqs) \o x
  <2>1. PICK n \in Nat : n = Len(seqs)
    BY LenProperties
  <2>2. PICK all : all = Append(seqs, x)
    OBVIOUS
  <2>3. /\ all \in Seq(Seq(T)) /\ Len(all) = n + 1 /\ all # <<>>
        /\ \A i \in 1..n : seqs[i] = all[i]
        /\ all[n + 1] = x
    BY <2>1, <2>2, AppendProperties
  <2>4. PICK g : Flattens(g, all, n + 1) /\ FlattenSeq(all) = g[n + 1]
    BY <2>3, FlattenIs
  <2>5. CASE seqs = <<>>
    <3>1. n = 0
      BY <2>1, <2>5, EmptySeq
    <3>2. FlattenSeq(all) = x
      BY <2>3, <2>4, <3>1 DEF Flattens
    <3> QED BY <1>1, <2>2, <2>5, <3>2, ConcatEmptySeq
  <2>6. CASE seqs # <<>>
    <3>1. n # 0
      BY <2>1, <2>6, EmptySeq, LenProperties
    <3>2. PICK f : Flattens(f, seqs, n) /\ FlattenSeq(seqs) = f[n]
      BY <2>1, <2>6, FlattenIs
    <3>3. f[n] = g[n]
      <4>1. PICK n2 \in Nat : n2 = n + 1
        OBVIOUS
      <4>2. n <= n2 /\ n \in 1..n /\ Agree(seqs, all, n)
        BY <2>3, <3>1, <4>1 DEF Agree
      <4>3. Flattens(g, all, n2) /\ Flattens(f, seqs, n)
        BY <2>4, <3>2, <4>1
      <4>4. \A i \in 1..n : f[i] = g[i]
        BY ONLY <4>2, <4>3, FlattenUnique, n \in Nat, n2 \in Nat
      <4> QED BY <4>2, <4>4
    <3>4. g[n + 1] = g[n] \o all[n + 1]
      <4>1. n + 1 \in Nat /\ n \in 1..(n + 1) /\ n + 1 <= n + 1
        BY <3>1
      <4> QED BY <2>4, <4>1, FlattenSteps
    <3> QED BY <2>2, <2>3, <2>4, <3>2, <3>3, <3>4
  <2> QED BY <2>5, <2>6
<1> QED BY <1>1, <1>2, <1>3
=============================================================================
