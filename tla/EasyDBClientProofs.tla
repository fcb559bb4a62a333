------------------------- MODULE EasyDBClientProofs -------------------------
(***************************************************************************)
(* Theorems about EasyDBClient, for every schema, every program and every  *)
(* way the network cuts a packet.  First half: the server reads the        *)
(* request the method meant, a connection is lost over EXIT only, and no   *)
(* call waits for ever.  Second half, from "What was stored can be written *)
(* again": the method makes of the response what the server answered, and  *)
(* a scan is refused for three reasons only.                               *)
(***************************************************************************)
EXTENDS EasyDBClient, SequenceFacts

-----------------------------------------------------------------------------
\* Words

\* The words w are in b, from the place p on.
Lies(b, p, w) ==
  /\ p + Len(w) - 1 <= Len(b)
  /\ \A i \in 1..Len(w) : b[p + i - 1] = w[i]

\* An i64 is read as it was written.
LEMMA Words64 ==
  ASSUME NEW i \in Int
  PROVE  \E h, l \in Int : W64(i) = <<h, l>> /\ I64(h, l) = i
<1>1. PICK h, l : h = i \div 1000 /\ l = i % 1000
  OBVIOUS
<1>2. h \in Int /\ l \in Int /\ h * 1000 + l = i
  BY <1>1
<1>3. W64(i) = <<h, l>> /\ I64(h, l) = i
  BY <1>1, <1>2 DEF W64, I64, WordBase
<1> QED BY <1>2, <1>3

\* The words w are those of the value v.
IsWritten(v, w) ==
  /\ w \in Seq(Int) /\ Len(w) >= 2 /\ w[1] = v.type
  /\ v.type = NULL => Len(w) = 2 /\ w[2] = 0
  /\ v.type = TEXT => Len(w) = 2 + v.val /\ w[2] = 4 * v.val /\ \A i \in 1..v.val : w[i + 2] = v.val
  /\ v.type \in {INTEGER, FLOAT, FOREIGN} => Len(w) = 4 /\ w[2] = 8 /\ I64(w[3], w[4]) = v.val

LEMMA WordsOfValue ==
  ASSUME NEW v \in Writable
  PROVE  IsWritten(v, WriteValue(v))
<1>1. v.type \in {NULL, TEXT, INTEGER, FLOAT, FOREIGN} /\ v.val \in Int
  BY DEF Writable, Value, NULL, TEXT, INTEGER, FLOAT, FOREIGN
<1>a. /\ NULL \notin {TEXT, INTEGER, FLOAT, FOREIGN} /\ TEXT \notin {INTEGER, FLOAT, FOREIGN}
      /\ \A t \in {NULL, TEXT, INTEGER, FLOAT, FOREIGN} : t \in Int
  BY DEF NULL, TEXT, INTEGER, FLOAT, FOREIGN
<1>2. CASE v.type = NULL
  <2>1. PICK w : w = WriteValue(v)
    OBVIOUS
  <2>2. w = <<NULL, 0>>
    BY <1>2, <1>a, <2>1 DEF WriteValue
  <2>3. w \in Seq(Int) /\ Len(w) = 2 /\ w[1] = NULL /\ w[2] = 0
    BY <1>a, <2>2
  <2> QED BY <1>2, <1>a, <2>1, <2>3 DEF IsWritten
<1>3. CASE v.type = TEXT
  <2>1. PICK n \in Nat : n = v.val
    BY <1>3, <1>a DEF Writable
  <2>2. PICK h, t, w : h = <<TEXT, 4 * n>> /\ t = [i \in 1..n |-> n] /\ w = h \o t
    OBVIOUS
  <2>3. h \in Seq(Int) /\ Len(h) = 2 /\ h[1] = TEXT /\ h[2] = 4 * n
    BY <1>a, <2>2
  <2>4. t \in Seq(Int) /\ Len(t) = n /\ \A i \in 1..n : t[i] = n
    BY <2>2
  <2>5. WriteValue(v) = w
    BY <1>3, <1>a, <2>1, <2>2 DEF WriteValue, TextWords
  <2>6. /\ w \in Seq(Int) /\ Len(w) = 2 + n /\ w[1] = TEXT /\ w[2] = 4 * n
        /\ \A i \in 1..n : w[i + 2] = n
    <3>1. /\ w \in Seq(Int) /\ Len(w) = Len(h) + Len(t)
          /\ \A i \in 1..(Len(h) + Len(t)) : w[i] = IF i <= Len(h) THEN h[i] ELSE t[i - Len(h)]
      BY <2>2, <2>3, <2>4, ConcatProperties
    <3> QED BY <2>3, <2>4, <3>1
  <2> QED BY <1>3, <1>a, <2>1, <2>5, <2>6 DEF IsWritten
<1>4. CASE v.type \in {INTEGER, FLOAT, FOREIGN}
  <2>1. PICK a \in Int, c \in Int : W64(v.val) = <<a, c>> /\ I64(a, c) = v.val
    BY <1>1, Words64
  <2>2. PICK h, t, w : h = <<v.type, 8>> /\ t = <<a, c>> /\ w = h \o t
    OBVIOUS
  <2>3. h \in Seq(Int) /\ Len(h) = 2 /\ h[1] = v.type /\ h[2] = 8
    BY <1>1, <1>a, <2>2
  <2>4. t \in Seq(Int) /\ Len(t) = 2 /\ t[1] = a /\ t[2] = c
    BY <2>2
  <2>5. WriteValue(v) = w
    BY <1>4, <1>a, <2>1, <2>2 DEF WriteValue
  <2>6. w \in Seq(Int) /\ Len(w) = 4 /\ w[1] = v.type /\ w[2] = 8 /\ w[3] = a /\ w[4] = c
    <3>1. /\ w \in Seq(Int) /\ Len(w) = Len(h) + Len(t)
          /\ \A i \in 1..(Len(h) + Len(t)) : w[i] = IF i <= Len(h) THEN h[i] ELSE t[i - Len(h)]
      BY <2>2, <2>3, <2>4, ConcatProperties
    <3> QED BY <2>3, <2>4, <3>1
  <2> QED BY <1>4, <1>a, <2>1, <2>5, <2>6 DEF IsWritten
<1> QED BY <1>1, <1>2, <1>3, <1>4

\* A text is read as it was written; the loop of from_raw never ends on one of no words.
LEMMA TextRead ==
  ASSUME NEW n \in Nat, NEW words \in Seq(Int), Len(words) = n, \A i \in 1..n : words[i] = n
  PROVE  /\ TextOf(words) = n
         /\ NeverEnds(words) <=> n = 0
<1>1. DOMAIN words = 1..n
  BY LenProperties
<1>2. NeverEnds(words) <=> n = 0
  <2>1. n # 0 => n \in 1..n
    OBVIOUS
  <2> QED BY <1>1, <2>1 DEF NeverEnds
<1>3. TextOf(words) = n
  <2>1. PICK S : S = {i \in 1..Len(words) : words[i] # 0} \cup {0}
    OBVIOUS
  <2>2. n \in S /\ \A i \in S : n >= i
    BY <2>1
  <2>3. \A x \in S : (\A y \in S : x >= y) => x = n
    BY <2>1, <2>2
  <2>4. Max(S) = n
    BY <2>2, <2>3 DEF Max
  <2> QED BY <2>1, <2>4 DEF TextOf
<1> QED BY <1>2, <1>3

\* What the server makes of a value that was written at p
Reading(v, p) ==
  IF v = EmptyText THEN Endless
  ELSE [status |-> "read", value |-> v, at |-> p + Len(WriteValue(v))]

LEMMA ReadValue ==
  ASSUME NEW b \in Seq(Int), NEW p \in Nat \ {0}, NEW v \in Writable,
         Lies(b, p, WriteValue(v))
  PROVE  read_value(b, p) = Reading(v, p)
<1>1. PICK n \in Nat : n = Len(b) /\ DOMAIN b = 1..n
  BY LenProperties
<1>2. PICK w : w = WriteValue(v)
  OBVIOUS
<1>3. PICK k \in Nat : k = Len(w)
  BY <1>2, WordsOfValue, LenProperties DEF IsWritten
<1>4. IsWritten(v, w) /\ k >= 2 /\ p + k - 1 <= n /\ \A i \in 1..k : b[p + i - 1] = w[i]
  BY <1>1, <1>2, <1>3, WordsOfValue DEF Lies, IsWritten
<1>5. b[p] = v.type /\ b[p + 1] = w[2] /\ p + 1 <= Len(b)
  <2>1. 1 \in 1..k /\ 2 \in 1..k /\ p + 1 - 1 = p /\ p + 2 - 1 = p + 1
    BY <1>4
  <2>2. b[p + 1 - 1] = w[1] /\ b[p + 2 - 1] = w[2]
    BY <1>4, <2>1
  <2> QED BY <1>1, <1>4, <2>1, <2>2 DEF IsWritten
<1>6. v.type \in {NULL, TEXT, INTEGER, FLOAT, FOREIGN} /\ v = [type |-> v.type, val |-> v.val]
  BY DEF Writable, Value, NULL, TEXT, INTEGER, FLOAT, FOREIGN
<1>a. /\ NULL \notin {TEXT, INTEGER, FLOAT, FOREIGN} /\ TEXT \notin {INTEGER, FLOAT, FOREIGN}
      /\ {NULL, TEXT, INTEGER, FLOAT, FOREIGN} \subseteq NULL..FOREIGN
  BY DEF NULL, TEXT, INTEGER, FLOAT, FOREIGN
<1>7. CASE v.type = NULL
  <2>1. k = 2 /\ b[p + 1] = 0 /\ v = None
    BY <1>3, <1>4, <1>5, <1>7 DEF IsWritten, Writable
  <2>2. v # EmptyText
    BY <1>7, <1>a, <2>1 DEF EmptyText, None
  <2>3. read_value(b, p) = [status |-> "read", value |-> None, at |-> p + 2]
    BY <1>5, <1>7, <1>a, <2>1 DEF read_value
  <2> QED BY <1>2, <1>3, <2>1, <2>2, <2>3 DEF Reading
<1>8. CASE v.type \in {INTEGER, FLOAT, FOREIGN}
  <2>1. k = 4 /\ b[p + 1] = 8 /\ I64(w[3], w[4]) = v.val
    BY <1>3, <1>4, <1>5, <1>8 DEF IsWritten
  <2>2. b[p + 2] = w[3] /\ b[p + 3] = w[4] /\ p + 3 <= Len(b)
    <3>1. 3 \in 1..k /\ 4 \in 1..k /\ p + 3 - 1 = p + 2 /\ p + 4 - 1 = p + 3
      BY <2>1
    <3>2. b[p + 3 - 1] = w[3] /\ b[p + 4 - 1] = w[4]
      BY <1>4, <3>1
    <3> QED BY <1>1, <1>4, <2>1, <3>1, <3>2
  <2>3. v # EmptyText
    BY <1>8, <1>a DEF EmptyText
  <2>4. I64(b[p + 2], b[p + 3]) = v.val
    BY <2>1, <2>2
  <2>5. read_value(b, p) = [status |-> "read", at |-> p + 4,
                            value |-> [type |-> v.type, val |-> v.val]]
    <3>1. /\ ~(p + 1 > Len(b)) /\ b[p] # NULL /\ b[p] # TEXT
          /\ b[p] \in {INTEGER, FLOAT, FOREIGN} /\ b[p] \in NULL..FOREIGN
      BY <1>1, <1>4, <1>5, <1>8, <1>a
    <3>2. read_value(b, p) = [status |-> "read", at |-> p + 4,
                              value |-> [type |-> b[p], val |-> I64(b[p + 2], b[p + 3])]]
      BY <1>5, <2>1, <2>2, <3>1 DEF read_value
    <3> QED BY <1>5, <2>4, <3>2
  <2> QED BY <1>2, <1>3, <1>6, <2>1, <2>3, <2>5 DEF Reading
<1>9. CASE v.type = TEXT
  <2>1. PICK m \in Nat : m = v.val
    BY <1>9, <1>a DEF Writable
  <2>2. k = 2 + m /\ b[p + 1] = 4 * m /\ \A i \in 1..m : w[i + 2] = m
    BY <1>3, <1>4, <1>5, <1>9, <2>1 DEF IsWritten
  <2>3. (4 * m) \div 4 = m /\ ~(4 * m < 0)
    OBVIOUS
  <2>4. PICK text : text = SubSeq(b, p + 2, p + 1 + m)
    OBVIOUS
  <2>5. text \in Seq(Int) /\ Len(text) = m /\ \A i \in 1..m : text[i] = m
    <3>1. \A i \in (p + 2)..(p + 1 + m) : b[i] \in Int
      <4>1. (p + 2)..(p + 1 + m) \subseteq 1..n
        BY <1>4, <2>2
      <4> QED BY <1>1, <4>1, ElementOfSeq
    <3>2. /\ text \in Seq(Int)
          /\ Len(text) = IF p + 2 <= p + 1 + m THEN (p + 1 + m) - (p + 2) + 1 ELSE 0
          /\ \A i \in 1..((p + 1 + m) - (p + 2) + 1) : text[i] = b[p + 2 + i - 1]
      BY <2>4, <3>1, SubSeqProperties
    <3>3. ASSUME NEW i \in 1..m
          PROVE  text[i] = m
      <4>1. i + 2 \in 1..k /\ p + (i + 2) - 1 = p + 2 + i - 1
        BY <2>2
      <4>2. b[p + (i + 2) - 1] = w[i + 2]
        BY <1>4, <4>1
      <4>3. text[i] = b[p + 2 + i - 1]
        BY <3>2
      <4> QED BY <2>2, <4>1, <4>2, <4>3
    <3> QED BY <3>2, <3>3
  <2>6. p + 1 + m <= Len(b)
    BY <1>1, <1>4, <2>2
  <2>7. v = EmptyText <=> m = 0
    BY <1>6, <1>9, <2>1 DEF EmptyText
  <2>8. NeverEnds(text) <=> m = 0
    BY <2>5, TextRead
  <2>9. CASE m = 0
    <3>1. read_value(b, p) = Endless
      BY <1>5, <1>9, <1>a, <2>2, <2>3, <2>4, <2>6, <2>8, <2>9 DEF read_value
    <3> QED BY <2>7, <2>9, <3>1 DEF Reading
  <2>10. CASE m # 0
    <3>1. TextOf(text) = m
      BY <2>5, <2>10, TextRead
    <3>2. read_value(b, p) = [status |-> "read", at |-> p + 2 + m,
                              value |-> [type |-> TEXT, val |-> m]]
      BY SMTT(30), <1>5, <1>9, <1>a, <2>2, <2>3, <2>4, <2>6, <2>8, <2>10, <3>1 DEF read_value
    <3> QED BY <1>2, <1>3, <1>6, <1>9, <2>1, <2>2, <2>7, <2>10, <3>2 DEF Reading
  <2> QED BY <2>9, <2>10
<1> QED BY <1>6, <1>7, <1>8, <1>9

-----------------------------------------------------------------------------
\* Rows

\* The values of a row are written one after the other.
LEMMA WordsOfValues ==
  /\ WriteValues(<<>>) = <<>>
  /\ \A vs \in Seq(Writable) : WriteValues(vs) \in Seq(Int)
  /\ \A vs \in Seq(Writable), v \in Writable :
       WriteValues(Append(vs, v)) = WriteValues(vs) \o WriteValue(v)
<1>1. WriteValues(<<>>) = <<>>
  <2>1. PICK e : e = <<>>
    OBVIOUS
  <2>2. PICK m : m = [i \in DOMAIN e |-> WriteValue(e[i])]
    OBVIOUS
  <2>3. m = <<>>
    BY <2>1, <2>2, EmptySeq
  <2>4. FlattenSeq(m) = <<>>
    BY <2>3, Flatten
  <2>5. WriteValues(e) = FlattenSeq(m)
    BY <2>2 DEF WriteValues
  <2> QED BY <2>1, <2>4, <2>5
<1>2. ASSUME NEW vs \in Seq(Writable)
      PROVE  \E m \in Seq(Seq(Int)) : /\ m = [i \in DOMAIN vs |-> WriteValue(vs[i])]
                                      /\ Len(m) = Len(vs) /\ WriteValues(vs) = FlattenSeq(m)
  <2>1. PICK m : m = [i \in DOMAIN vs |-> WriteValue(vs[i])]
    OBVIOUS
  <2>2. \A i \in DOMAIN vs : m[i] \in Seq(Int)
    <3>1. \A i \in DOMAIN vs : vs[i] \in Writable
      BY ElementOfSeq, LenProperties DEF Writable
    <3> QED BY <2>1, <3>1, WordsOfValue DEF IsWritten
  <2>3. m \in Seq(Seq(Int)) /\ Len(m) = Len(vs)
    <3>1. m = [i \in DOMAIN vs |-> m[i]]
      BY <2>1
    <3> QED BY <2>2, <3>1, Mapped
  <2>4. WriteValues(vs) = FlattenSeq(m)
    BY <2>1 DEF WriteValues
  <2> QED BY <2>1, <2>3, <2>4
<1>3. ASSUME NEW vs \in Seq(Writable)
      PROVE  WriteValues(vs) \in Seq(Int)
  BY <1>2, Flatten
<1>4. ASSUME NEW vs \in Seq(Writable), NEW v \in Writable
      PROVE  WriteValues(Append(vs, v)) = WriteValues(vs) \o WriteValue(v)
  <2>1. PICK all, w : all = Append(vs, v) /\ w = WriteValue(v)
    OBVIOUS
  <2>2. PICK n \in Nat : n = Len(vs) /\ DOMAIN vs = 1..n
    BY LenProperties
  <2>3. all \in Seq(Writable) /\ Len(all) = n + 1 /\ DOMAIN all = 1..(n + 1)
        /\ all[n + 1] = v /\ \A i \in 1..n : all[i] = vs[i]
    BY <2>1, <2>2, AppendProperties
  <2>4. w \in Seq(Int)
    BY <2>1, WordsOfValue DEF IsWritten, Writable
  <2>5. PICK m \in Seq(Seq(Int)) : /\ m = [i \in DOMAIN vs |-> WriteValue(vs[i])]
                                   /\ Len(m) = Len(vs) /\ WriteValues(vs) = FlattenSeq(m)
    BY <1>2
  <2>6. PICK m2 \in Seq(Seq(Int)) : /\ m2 = [i \in DOMAIN all |-> WriteValue(all[i])]
                                    /\ Len(m2) = Len(all) /\ WriteValues(all) = FlattenSeq(m2)
    BY <1>2, <2>3
  <2>7. m2 = Append(m, w)
    <3>1. Len(m2) = Len(m) + 1 /\ DOMAIN m = 1..n
      BY <2>2, <2>3, <2>5, <2>6
    <3>2. m2[Len(m) + 1] = w
      BY <2>1, <2>2, <2>3, <2>5, <2>6
    <3>3. \A i \in DOMAIN m : m2[i] = m[i]
      BY <2>2, <2>3, <2>5, <2>6, <3>1
    <3> QED BY <2>4, <3>1, <3>2, <3>3, OneMore
  <2>8. FlattenSeq(Append(m, w)) = FlattenSeq(m) \o w
    BY <2>4, Flatten
  <2> QED BY <2>1, <2>5, <2>6, <2>7, <2>8
<1> QED BY <1>1, <1>3, <1>4

\* Nothing read
Start(p) == [status |-> "read", values |-> <<>>, at |-> p]

\* f[i] is what has been read of a row from p on when i values have.
Reads(f, b, p, n) ==
  /\ f = [i \in 0..n |-> f[i]]
  /\ \A i \in 0..n : f[i] = IF i = 0 THEN Start(p)
                            ELSE NextValue(b, f[i - 1])

LEMMA ReadsSteps ==
  ASSUME NEW f, NEW b, NEW p, NEW n \in Nat, Reads(f, b, p, n)
  PROVE  /\ f[0] = Start(p)
         /\ \A i \in 1..n : f[i] = NextValue(b, f[i - 1])
<1>1. 0 \in 0..n /\ \A i \in 1..n : i \in 0..n /\ i # 0
  OBVIOUS
<1> QED BY <1>1 DEF Reads

LEMMA ReadsExists ==
  ASSUME NEW b, NEW p, NEW n \in Nat
  PROVE  \E f : Reads(f, b, p, n)
<1> DEFINE S == {m \in 1..n : \E f : Reads(f, b, p, m)}
           x == Start(p)
<1>1. \E f : Reads(f, b, p, 0)
  <2>1. Reads([i \in 0..0 |-> x], b, p, 0)
    BY DEF Reads
  <2> QED BY <2>1
<1>2. ASSUME NEW m \in Nat, NEW f, Reads(f, b, p, m)
      PROVE  \E g : Reads(g, b, p, m + 1)
  <2>1. PICK g : g = [i \in 0..(m + 1) |-> IF i = m + 1 THEN NextValue(b, f[m]) ELSE f[i]]
    OBVIOUS
  <2>2. ASSUME NEW i \in 0..(m + 1)
        PROVE  g[i] = IF i = 0 THEN x ELSE NextValue(b, g[i - 1])
    <3>1. CASE i = m + 1
      <4>1. m \in 0..(m + 1) /\ m # m + 1 /\ i # 0 /\ i - 1 = m
        BY <3>1
      <4>2. g[m] = f[m] /\ g[i] = NextValue(b, f[m])
        BY <2>1, <3>1, <4>1
      <4> QED BY <4>1, <4>2
    <3>2. CASE i # m + 1
      <4>1. i \in 0..m /\ g[i] = f[i] /\ (i # 0 => g[i - 1] = f[i - 1])
        BY <2>1, <3>2
      <4> QED BY <1>2, <4>1 DEF Reads
    <3> QED BY <3>1, <3>2
  <2>3. Reads(g, b, p, m + 1)
    BY <2>1, <2>2 DEF Reads
  <2> QED BY <2>3
<1>3. 1 \in S \/ n = 0
  <2>1. \E f : Reads(f, b, p, 0 + 1)
    BY <1>1, <1>2
  <2> QED BY <2>1
<1>4. ASSUME NEW m \in 1..n, m + 1 <= n, m \in S
      PROVE  m + 1 \in S
  BY <1>2, <1>4
<1>5. 1..n \subseteq S
  BY <1>3, <1>4, Upwards
<1> QED BY <1>1, <1>5

LEMMA ReadsUnique ==
  ASSUME NEW b, NEW p, NEW n \in Nat, NEW n2 \in Nat, n <= n2,
         NEW f, NEW g, Reads(f, b, p, n), Reads(g, b, p, n2)
  PROVE  f[n] = g[n]
<1> DEFINE S == {i \in 1..n : f[i] = g[i]}
<1>1. f[0] = g[0]
  BY ReadsSteps
<1>2. ASSUME NEW i \in 1..n, f[i - 1] = g[i - 1]
      PROVE  f[i] = g[i]
  <2>1. i \in 1..n2
    OBVIOUS
  <2>2. f[i] = NextValue(b, f[i - 1]) /\ g[i] = NextValue(b, g[i - 1])
    BY <2>1, ReadsSteps
  <2> QED BY <1>2, <2>2
<1>3. 1 \in S \/ n = 0
  BY <1>1, <1>2
<1>4. ASSUME NEW i \in 1..n, i + 1 <= n, i \in S
      PROVE  i + 1 \in S
  BY <1>2, <1>4
<1>5. 1..n \subseteq S
  BY <1>3, <1>4, Upwards
<1> QED BY <1>1, <1>5

\* The loop of receive, one value after the other
LEMMA ReadOneMore ==
  ASSUME NEW b, NEW p
  PROVE  /\ read_values(b, p, 0) = Start(p)
         /\ \A n \in Nat : read_values(b, p, n + 1) = NextValue(b, read_values(b, p, n))
<1>1. ASSUME NEW n \in Nat
      PROVE  \E f : Reads(f, b, p, n) /\ read_values(b, p, n) = f[n]
  <2> DEFINE after == CHOOSE f : f = [i \in 0..n |->
                        IF i = 0 THEN Start(p)
                        ELSE NextValue(b, f[i - 1])]
  <2>1. PICK f : Reads(f, b, p, n)
    BY ReadsExists
  <2>2. f = [i \in 0..n |-> IF i = 0 THEN Start(p)
                            ELSE NextValue(b, f[i - 1])]
    BY <2>1 DEF Reads
  <2>3. after = [i \in 0..n |-> IF i = 0 THEN Start(p)
                                ELSE NextValue(b, after[i - 1])]
    BY <2>2
  <2>4. n = IF n > 0 THEN n ELSE 0
    OBVIOUS
  <2>5. read_values(b, p, n) = after[n]
    BY <2>4 DEF read_values, Start
  <2> HIDE DEF after
  <2>6. Reads(after, b, p, n)
    BY <2>3 DEF Reads
  <2> QED BY <2>5, <2>6
<1>2. read_values(b, p, 0) = Start(p)
  BY <1>1, ReadsSteps
<1>3. ASSUME NEW n \in Nat
      PROVE  read_values(b, p, n + 1) = NextValue(b, read_values(b, p, n))
  <2>1. PICK f : Reads(f, b, p, n) /\ read_values(b, p, n) = f[n]
    BY <1>1
  <2>2. PICK g : Reads(g, b, p, n + 1) /\ read_values(b, p, n + 1) = g[n + 1]
    BY <1>1
  <2>3. f[n] = g[n]
    BY <2>1, <2>2, ReadsUnique
  <2>4. g[n + 1] = NextValue(b, g[n + 1 - 1])
    <3>1. n + 1 \in 1..(n + 1) /\ n + 1 \in Nat
      OBVIOUS
    <3> QED BY <2>2, <3>1, ReadsSteps
  <2>5. n + 1 - 1 = n
    OBVIOUS
  <2> QED BY <2>1, <2>2, <2>3, <2>4, <2>5
<1> QED BY <1>2, <1>3

\* What lies in one piece lies in two.
LEMMA LiesApart ==
  ASSUME NEW b \in Seq(Int), NEW p \in Nat \ {0}, NEW u \in Seq(Int), NEW w \in Seq(Int),
         Lies(b, p, u \o w), NEW q, q = p + Len(u)
  PROVE  Lies(b, p, u) /\ Lies(b, q, w)
<1>1. PICK k \in Nat, l \in Nat, n \in Nat : k = Len(u) /\ l = Len(w) /\ n = Len(b)
  BY LenProperties
<1>2. PICK z : z = u \o w
  OBVIOUS
<1>3. Len(z) = k + l /\ \A i \in 1..(k + l) : z[i] = IF i <= k THEN u[i] ELSE w[i - k]
  BY <1>1, <1>2, ConcatProperties
<1>4. p + (k + l) - 1 <= n /\ \A i \in 1..(k + l) : b[p + i - 1] = z[i]
  BY <1>1, <1>2, <1>3 DEF Lies
<1>5. Lies(b, p, u)
  <2>1. p + k - 1 <= n
    BY <1>4
  <2>2. ASSUME NEW i \in 1..k
        PROVE  b[p + i - 1] = u[i]
    <3>1. i \in 1..(k + l) /\ i <= k
      OBVIOUS
    <3> QED BY <1>3, <1>4, <3>1
  <2> QED BY <1>1, <2>1, <2>2 DEF Lies
<1>6. ASSUME NEW i \in 1..l
      PROVE  b[(p + k) + i - 1] = w[i]
  <2>1. k + i \in 1..(k + l) /\ ~(k + i <= k) /\ (k + i) - k = i
        /\ p + (k + i) - 1 = (p + k) + i - 1
    OBVIOUS
  <2>2. b[p + (k + i) - 1] = z[k + i] /\ z[k + i] = w[(k + i) - k]
    BY <1>3, <1>4, <2>1
  <2> QED BY <2>1, <2>2
<1>7. Lies(b, p + k, w)
  BY <1>1, <1>4, <1>6 DEF Lies
<1> QED BY <1>1, <1>5, <1>7

\* What the server makes of a row that was written at p
HasEmpty(vs) == \E i \in DOMAIN vs : vs[i] = EmptyText

RowReading(vs, p) ==
  IF HasEmpty(vs) THEN Endless
  ELSE [status |-> "read", values |-> vs, at |-> p + Len(WriteValues(vs))]

RowIsRead(b, p, vs) ==
  Lies(b, p, WriteValues(vs)) => read_values(b, p, Len(vs)) = RowReading(vs, p)

LEMMA ReadNextValue ==
  ASSUME NEW b \in Seq(Int), NEW p \in Nat \ {0}, NEW vs \in Seq(Writable), NEW v \in Writable,
         RowIsRead(b, p, vs)
  PROVE  RowIsRead(b, p, Append(vs, v))
<1>1. PICK n \in Nat : n = Len(vs) /\ DOMAIN vs = 1..n
  BY LenProperties
<1>2. PICK all : all = Append(vs, v)
  OBVIOUS
<1>3. /\ Len(all) = n + 1 /\ DOMAIN all = 1..(n + 1)
      /\ all[n + 1] = v /\ \A i \in 1..n : all[i] = vs[i]
  BY <1>1, <1>2, AppendProperties
<1>4. PICK u \in Seq(Int), w \in Seq(Int) :
        u = WriteValues(vs) /\ w = WriteValue(v) /\ WriteValues(all) = u \o w
  BY <1>2, WordsOfValues, WordsOfValue DEF IsWritten, Writable
<1>5. PICK k \in Nat, l \in Nat : k = Len(u) /\ l = Len(w) /\ Len(u \o w) = k + l
  <2>1. Len(u) \in Nat /\ Len(w) \in Nat
    BY LenProperties
  <2>2. Len(u \o w) = Len(u) + Len(w)
    BY ConcatProperties
  <2> QED BY <2>1, <2>2
<1>6. HasEmpty(all) <=> HasEmpty(vs) \/ v = EmptyText
  <2>1. n + 1 \in 1..(n + 1) /\ \A i \in 1..(n + 1) : i \in 1..n \/ i = n + 1
    OBVIOUS
  <2>2. \A i \in 1..n : i \in 1..(n + 1)
    OBVIOUS
  <2>3. HasEmpty(all) <=> \E i \in 1..(n + 1) : all[i] = EmptyText
    BY <1>3 DEF HasEmpty
  <2>4. HasEmpty(vs) <=> \E i \in 1..n : vs[i] = EmptyText
    BY <1>1 DEF HasEmpty
  <2> QED BY ONLY <1>3, <2>1, <2>2, <2>3, <2>4
<1>7. ASSUME Lies(b, p, WriteValues(all))
      PROVE  read_values(b, p, n + 1) = RowReading(all, p)
  <2>1. Lies(b, p, u) /\ Lies(b, p + k, w)
    BY <1>4, <1>5, <1>7, LiesApart
  <2>2. PICK row : row = read_values(b, p, n)
    OBVIOUS
  <2>3. row = RowReading(vs, p) /\ read_values(b, p, n + 1) = NextValue(b, row)
    BY <1>1, <1>4, <2>1, <2>2, ReadOneMore DEF RowIsRead
  <2>4. CASE HasEmpty(vs)
    <3>1. row = Endless
      BY <2>3, <2>4 DEF RowReading
    <3>2. NextValue(b, row) = Endless
      BY <3>1 DEF NextValue, Endless
    <3> QED BY <1>6, <2>3, <2>4, <3>2 DEF RowReading
  <2>5. CASE ~HasEmpty(vs)
    <3>1. row = [status |-> "read", values |-> vs, at |-> p + k]
      BY <1>4, <1>5, <2>3, <2>5 DEF RowReading
    <3>2. row.status = "read" /\ row.values = vs /\ row.at = p + k
      BY <3>1
    <3>3. PICK read : read = read_value(b, p + k)
      OBVIOUS
    <3>4. read = Reading(v, p + k)
      <4>1. p + k \in Nat \ {0} /\ v \in Writable
        BY DEF Writable
      <4> QED BY <1>4, <2>1, <3>3, <4>1, ReadValue
    <3>5. CASE v = EmptyText
      <4>1. read = Endless
        BY <3>4, <3>5 DEF Reading
      <4>2. NextValue(b, row) = Endless
        BY <3>2, <3>3, <4>1 DEF NextValue, Endless
      <4> QED BY <1>6, <2>3, <3>5, <4>2 DEF RowReading
    <3>6. CASE v # EmptyText
      <4>1. read.status = "read" /\ read.value = v /\ read.at = p + k + l
        BY <1>4, <1>5, <3>4, <3>6 DEF Reading
      <4>2. NextValue(b, row) = [status |-> "read", values |-> all, at |-> p + k + l]
        BY <1>2, <3>2, <3>3, <4>1 DEF NextValue
      <4>3. RowReading(all, p) = [status |-> "read", values |-> all, at |-> p + (k + l)]
        BY <1>4, <1>5, <1>6, <2>5, <3>6 DEF RowReading
      <4> QED BY <2>3, <4>2, <4>3
    <3> QED BY <3>5, <3>6
  <2> QED BY <2>4, <2>5
<1> QED BY <1>2, <1>3, <1>7 DEF RowIsRead

LEMMA ReadValues ==
  ASSUME NEW b \in Seq(Int), NEW p \in Nat \ {0}, NEW vs \in Seq(Writable)
  PROVE  RowIsRead(b, p, vs)
<1>1. PICK n \in Nat : n = Len(vs)
  BY LenProperties
<1> DEFINE first(k) == SubSeq(vs, 1, k)
           S == {k \in 1..n : RowIsRead(b, p, first(k))}
<1>2. RowIsRead(b, p, <<>>)
  <2>1. PICK e : e = <<>>
    OBVIOUS
  <2>2. Len(e) = 0 /\ DOMAIN e = {} /\ WriteValues(e) = <<>> /\ Len(WriteValues(e)) = 0
    BY <2>1, WordsOfValues, EmptySeq
  <2>3. RowReading(e, p) = [status |-> "read", values |-> e, at |-> p]
    BY <2>2 DEF RowReading, HasEmpty
  <2>4. read_values(b, p, 0) = [status |-> "read", values |-> e, at |-> p]
    BY <2>1, ReadOneMore DEF Start
  <2> QED BY <2>1, <2>2, <2>3, <2>4 DEF RowIsRead
<1>3. ASSUME NEW k \in Nat, k < n, RowIsRead(b, p, first(k))
      PROVE  RowIsRead(b, p, first(k + 1))
  <2>1. PICK s, x : s = SubSeq(vs, 1, k) /\ x = vs[k + 1]
    OBVIOUS
  <2>2. s \in Seq(Writable) /\ SubSeq(vs, 1, k + 1) = Append(s, x) /\ x \in Writable
    BY <1>1, <1>3, <2>1, OneFurther
  <2>3. RowIsRead(b, p, s)
    BY <1>3, <2>1
  <2>4. RowIsRead(b, p, Append(s, x))
    BY <2>2, <2>3, ReadNextValue
  <2> QED BY <2>2, <2>4
<1>4. n # 0 => first(0) = <<>>
  BY <1>1, OneFurther, EmptySeq
<1>5. first(n) = vs
  BY <1>1, Whole
<1> HIDE DEF first
<1>6. 1 \in S \/ n = 0
  <2>1. CASE n # 0
    <3>1. 0 < n /\ 0 \in Nat /\ RowIsRead(b, p, first(0)) /\ 0 + 1 = 1 /\ 1 \in 1..n
      BY <1>2, <1>4, <2>1
    <3>2. RowIsRead(b, p, first(0 + 1))
      BY <1>3, <3>1
    <3> QED BY <3>1, <3>2
  <2> QED BY <2>1
<1>7. ASSUME NEW k \in 1..n, k + 1 <= n, k \in S
      PROVE  k + 1 \in S
  <2>1. k \in Nat /\ k < n /\ k + 1 \in 1..n /\ RowIsRead(b, p, first(k))
    BY <1>7
  <2>2. RowIsRead(b, p, first(k + 1))
    BY <1>3, <2>1
  <2> QED BY <2>1, <2>2
<1>8. 1..n \subseteq S
  <2> HIDE DEF S
  <2> QED BY <1>6, <1>7, Upwards
<1>9. CASE n = 0
  <2>1. vs = <<>>
    BY <1>1, <1>9, EmptySeq
  <2> QED BY <1>2, <2>1
<1>10. CASE n # 0
  <2>1. n \in 1..n
    BY <1>10
  <2>2. RowIsRead(b, p, first(n))
    BY <1>8, <2>1
  <2> QED BY <1>5, <2>2
<1> QED BY <1>9, <1>10

-----------------------------------------------------------------------------
\* Requests

\* What the methods of the client pack
Asks ==
       [command : {"Insert"}, table_id : Int, values : Seq(Writable)]
  \cup [command : {"Update"}, table_id : Int, object_id : Int, version : Int,
        values : Seq(Writable)]
  \cup [command : {"Drop", "Get"}, table_id : Int, object_id : Int]
  \cup [command : {"Query"}, table_id : Int, column_id : Int, operator : Int,
        value : Writable]

\* What the server makes of them
Understanding(req) ==
  IF HasEmptyText(req) THEN Endless ELSE [status |-> "read", request |-> req]

\* A packet is words, the first of which says what is asked.
IsPacket(packet, first) == packet \in Seq(Int) /\ packet # <<>> /\ packet[1] = first

LEMMA PacketOf ==
  ASSUME NEW h \in Seq(Int), Len(h) # 0, NEW t \in Seq(Int), NEW first, h[1] = first
  PROVE  IsPacket(h \o t, first) /\ Len(h \o t) = Len(h) + Len(t)
<1>1. PICK k, l, w : k \in Nat /\ l \in Nat /\ k = Len(h) /\ l = Len(t) /\ w = h \o t
  BY LenProperties
<1>2. w \in Seq(Int) /\ Len(w) = k + l /\ \A i \in 1..(k + l) : i <= k => w[i] = h[i]
  BY <1>1, ConcatProperties
<1>3. k # 0 /\ 1 \in 1..(k + l) /\ 1 <= k
  BY <1>1
<1>4. w # <<>> /\ w[1] = first
  BY <1>2, <1>3, EmptySeq
<1>5. Len(h \o t) = Len(h) + Len(t)
  BY <1>1, <1>2
<1> QED BY <1>1, <1>2, <1>4, <1>5 DEF IsPacket

\* Short sequences of words
LEMMA Lies1 ==
  ASSUME NEW b \in Seq(Int), NEW p \in Nat \ {0}, NEW x \in Int, Lies(b, p, <<x>>)
  PROVE  b[p] = x
<1>1. PICK w : w = <<x>>
  OBVIOUS
<1>2. Len(w) = 1 /\ w[1] = x
  BY <1>1
<1>3. b[p + 1 - 1] = w[1]
  BY <1>1, <1>2 DEF Lies
<1> QED BY <1>2, <1>3

LEMMA Lies2 ==
  ASSUME NEW b \in Seq(Int), NEW p \in Nat \ {0}, NEW x \in Int, NEW y \in Int,
         Lies(b, p, <<x, y>>)
  PROVE  b[p] = x /\ b[p + 1] = y
<1>1. PICK w : w = <<x, y>>
  OBVIOUS
<1>2. Len(w) = 2 /\ w[1] = x /\ w[2] = y
  BY <1>1
<1>3. b[p + 1 - 1] = w[1] /\ b[p + 2 - 1] = w[2]
  BY <1>1, <1>2 DEF Lies
<1> QED BY <1>2, <1>3

\* An i64, where it lies
LEMMA LiesKey ==
  ASSUME NEW b \in Seq(Int), NEW p \in Nat \ {0}, NEW i \in Int, Lies(b, p, W64(i))
  PROVE  I64(b[p], b[p + 1]) = i
<1>1. PICK h \in Int, l \in Int : W64(i) = <<h, l>> /\ I64(h, l) = i
  BY Words64
<1>2. b[p] = h /\ b[p + 1] = l
  BY <1>1, Lies2
<1> QED BY <1>1, <1>2

LEMMA WordsOfKey ==
  ASSUME NEW i \in Int
  PROVE  W64(i) \in Seq(Int) /\ Len(W64(i)) = 2
<1>1. PICK h \in Int, l \in Int : W64(i) = <<h, l>>
  BY Words64
<1> QED BY <1>1

\* The values of a row, after a request that is otherwise read
WithRow(vs, request) ==
  IF HasEmpty(vs) THEN Endless
  ELSE [status |-> "read", request |-> [request EXCEPT !.values = vs]]

LEMMA WithValuesRead ==
  ASSUME NEW b \in Seq(Int), NEW p \in Nat \ {0}, NEW vs \in Seq(Writable),
         Lies(b, p, WriteValues(vs)), NEW n, n = Len(vs), NEW request
  PROVE  WithValues(read_values(b, p, n), request) = WithRow(vs, request)
<1>1. PICK row : row = read_values(b, p, n)
  OBVIOUS
<1>2. row = RowReading(vs, p)
  BY <1>1, ReadValues DEF RowIsRead
<1>3. CASE HasEmpty(vs)
  <2>1. row = Endless
    BY <1>2, <1>3 DEF RowReading
  <2> QED BY <1>1, <1>3, <2>1 DEF WithValues, Endless, WithRow
<1>4. CASE ~HasEmpty(vs)
  <2>1. row.status = "read" /\ row.values = vs
    BY <1>2, <1>4 DEF RowReading
  <2> QED BY <1>1, <1>4, <2>1 DEF WithValues, WithRow
<1> QED BY <1>3, <1>4

LEMMA InsertRead ==
  ASSUME NEW t \in Int, NEW vs \in Seq(Writable), NEW req,
         req = [command |-> "Insert", table_id |-> t, values |-> vs]
  PROVE  /\ IsPacket(Request_packet(req), 1)
         /\ \A b \in Seq(Int) : Lies(b, 1, Request_packet(req)) => receive(b) = Understanding(req)
<1>1. PICK n \in Nat : n = Len(vs)
  BY LenProperties
<1>2. PICK h, ws : h = <<1, t, n>> /\ ws = WriteValues(vs)
  OBVIOUS
<1>3. h \in Seq(Int) /\ Len(h) = 3 /\ h[1] = 1 /\ h[2] = t /\ h[3] = n /\ ws \in Seq(Int)
  BY <1>1, <1>2, WordsOfValues
<1>4. req.command = "Insert" /\ req.table_id = t /\ req.values = vs
  OBVIOUS
<1>5. Request_packet(req) = h \o ws
  BY <1>1, <1>2, <1>4 DEF Request_packet
<1>6. IsPacket(h \o ws, 1)
  BY <1>3, PacketOf
<1>7. ASSUME NEW b \in Seq(Int), Lies(b, 1, h \o ws)
      PROVE  receive(b) = Understanding(req)
  <2>1. Lies(b, 1, h) /\ Lies(b, 4, ws)
    <3>1. 1 \in Nat \ {0} /\ 1 + Len(h) = 4
      BY <1>3
    <3> QED BY <1>3, <1>7, <3>1, LiesApart
  <2>2. b[1] = 1 /\ b[2] = t /\ b[3] = n
    BY <1>3, <2>1 DEF Lies
  <2>3. PICK request : request = [command |-> "Insert", table_id |-> t, values |-> <<>>]
    OBVIOUS
  <2>4. receive(b) = WithValues(read_values(b, 4, n), request)
    BY <2>2, <2>3 DEF receive
  <2>5. WithValues(read_values(b, 4, n), request) = WithRow(vs, request)
    <3>1. 4 \in Nat \ {0} /\ Lies(b, 4, WriteValues(vs))
      BY <1>2, <2>1
    <3> QED BY <1>1, <3>1, WithValuesRead
  <2>6. [request EXCEPT !.values = vs] = req
    BY <2>3
  <2>7. HasEmptyText(req) <=> HasEmpty(vs)
    BY <1>4 DEF HasEmptyText, HasEmpty
  <2> QED BY <2>4, <2>5, <2>6, <2>7 DEF Understanding, WithRow
<1> QED BY <1>5, <1>6, <1>7

LEMMA UpdateRead ==
  ASSUME NEW t \in Int, NEW o \in Int, NEW v \in Int, NEW vs \in Seq(Writable), NEW req,
         req = [command |-> "Update", table_id |-> t, object_id |-> o, version |-> v,
                values |-> vs]
  PROVE  /\ IsPacket(Request_packet(req), 2)
         /\ \A b \in Seq(Int) : Lies(b, 1, Request_packet(req)) => receive(b) = Understanding(req)
<1>1. PICK n \in Nat : n = Len(vs)
  BY LenProperties
<1>2. PICK h, key, ver, d, ws : /\ h = <<2, t>> /\ key = W64(o) /\ ver = W64(v) /\ d = <<n>>
                                /\ ws = WriteValues(vs)
  OBVIOUS
<1>3. /\ h \in Seq(Int) /\ Len(h) = 2 /\ h[1] = 2 /\ h[2] = t
      /\ key \in Seq(Int) /\ Len(key) = 2 /\ ver \in Seq(Int) /\ Len(ver) = 2
      /\ d \in Seq(Int) /\ Len(d) = 1 /\ ws \in Seq(Int)
  BY <1>1, <1>2, WordsOfValues, WordsOfKey
<1>4. /\ req.command = "Update" /\ req.table_id = t /\ req.object_id = o
      /\ req.version = v /\ req.values = vs
  OBVIOUS
<1>5. PICK w1, w2, w3 : w1 = h \o key /\ w2 = w1 \o ver /\ w3 = w2 \o d
  OBVIOUS
<1>6. Request_packet(req) = w3 \o ws
  BY <1>1, <1>2, <1>4, <1>5 DEF Request_packet
<1>7. w1 \in Seq(Int) /\ Len(w1) = 4 /\ IsPacket(w1, 2)
  <2>1. IsPacket(h \o key, 2) /\ Len(h \o key) = Len(h) + Len(key)
    <3>1. h \in Seq(Int) /\ Len(h) # 0 /\ h[1] = 2 /\ key \in Seq(Int)
      BY <1>3, <1>5 DEF IsPacket
    <3> QED BY ONLY <3>1, PacketOf
  <2> QED BY <1>3, <1>5, <2>1 DEF IsPacket
<1>8. w2 \in Seq(Int) /\ Len(w2) = 6 /\ IsPacket(w2, 2)
  <2>1. IsPacket(w1 \o ver, 2) /\ Len(w1 \o ver) = Len(w1) + Len(ver)
    <3>1. w1 \in Seq(Int) /\ Len(w1) # 0 /\ w1[1] = 2 /\ ver \in Seq(Int)
      BY <1>3, <1>5, <1>7 DEF IsPacket
    <3> QED BY ONLY <3>1, PacketOf
  <2> QED BY <1>3, <1>5, <1>7, <2>1 DEF IsPacket
<1>9. w3 \in Seq(Int) /\ Len(w3) = 7 /\ IsPacket(w3, 2)
  <2>1. IsPacket(w2 \o d, 2) /\ Len(w2 \o d) = Len(w2) + Len(d)
    <3>1. w2 \in Seq(Int) /\ Len(w2) # 0 /\ w2[1] = 2 /\ d \in Seq(Int)
      BY <1>3, <1>5, <1>8 DEF IsPacket
    <3> QED BY ONLY <3>1, PacketOf
  <2> QED BY <1>3, <1>5, <1>8, <2>1 DEF IsPacket
<1>10. IsPacket(w3 \o ws, 2)
  BY <1>3, <1>9, PacketOf DEF IsPacket
<1>11. ASSUME NEW b \in Seq(Int), Lies(b, 1, w3 \o ws)
       PROVE  receive(b) = Understanding(req)
  <2>1. Lies(b, 1, w3) /\ Lies(b, 8, ws)
    <3>1. 1 \in Nat \ {0} /\ 8 = 1 + Len(w3)
      BY <1>3, <1>9, <1>11
    <3>2. w3 \in Seq(Int) /\ ws \in Seq(Int)
      BY <1>3, <1>9
    <3> QED BY <1>11, <3>1, <3>2, LiesApart
  <2>2. Lies(b, 1, w2) /\ Lies(b, 7, d)
    <3>1. 1 \in Nat \ {0} /\ 7 = 1 + Len(w2)
      BY <1>3, <1>5, <1>8, <2>1
    <3> QED BY <1>3, <1>5, <1>8, <2>1, <3>1, LiesApart
  <2>3. Lies(b, 1, w1) /\ Lies(b, 5, ver)
    <3>1. 1 \in Nat \ {0} /\ 5 = 1 + Len(w1)
      BY <1>3, <1>5, <1>7, <2>2
    <3> QED BY <1>3, <1>5, <1>7, <2>2, <3>1, LiesApart
  <2>4. Lies(b, 1, h) /\ Lies(b, 3, key)
    <3>1. 1 \in Nat \ {0} /\ 3 = 1 + Len(h)
      BY <1>3, <1>5, <2>3
    <3> QED BY <1>3, <1>5, <2>3, <3>1, LiesApart
  <2>5. b[1] = 2 /\ b[2] = t
    BY <1>3, <2>4 DEF Lies
  <2>6. I64(b[3], b[4]) = o
    <3>1. 3 \in Nat \ {0} /\ 3 + 1 = 4 /\ Lies(b, 3, W64(o))
      BY <1>2, <2>4
    <3> QED BY <3>1, LiesKey
  <2>7. I64(b[5], b[6]) = v
    <3>1. 5 \in Nat \ {0} /\ 5 + 1 = 6 /\ Lies(b, 5, W64(v))
      BY <1>2, <2>3
    <3> QED BY <3>1, LiesKey
  <2>8. b[7] = n
    BY <1>2, <2>2, Lies1
  <2>9. PICK request : request = [command |-> "Update", table_id |-> t, object_id |-> o,
                                  version |-> v, values |-> <<>>]
    OBVIOUS
  <2>10. receive(b) = WithValues(read_values(b, 8, n), request)
    BY <2>5, <2>6, <2>7, <2>8, <2>9 DEF receive
  <2>11. WithValues(read_values(b, 8, n), request) = WithRow(vs, request)
    <3>1. 8 \in Nat \ {0} /\ Lies(b, 8, WriteValues(vs))
      BY <1>2, <2>1
    <3> QED BY <1>1, <3>1, WithValuesRead
  <2>12. [request EXCEPT !.values = vs] = req
    BY <2>9
  <2>13. HasEmptyText(req) <=> HasEmpty(vs)
    BY <1>4 DEF HasEmptyText, HasEmpty
  <2> QED BY <2>10, <2>11, <2>12, <2>13 DEF Understanding, WithRow
<1> QED BY <1>6, <1>10, <1>11

LEMMA KeyRead ==
  ASSUME NEW command \in {"Drop", "Get"}, NEW t \in Int, NEW o \in Int, NEW req,
         req = [command |-> command, table_id |-> t, object_id |-> o]
  PROVE  /\ IsPacket(Request_packet(req), IF command = "Drop" THEN 3 ELSE 4)
         /\ \A b \in Seq(Int) : Lies(b, 1, Request_packet(req)) => receive(b) = Understanding(req)
<1>1. PICK c \in Int : c = IF command = "Drop" THEN 3 ELSE 4
  OBVIOUS
<1>2. PICK h, key : h = <<c, t>> /\ key = W64(o)
  OBVIOUS
<1>3. /\ h \in Seq(Int) /\ Len(h) = 2 /\ h[1] = c /\ h[2] = t
      /\ key \in Seq(Int) /\ Len(key) = 2
  BY <1>2, WordsOfKey
<1>4. req.command = command /\ req.table_id = t /\ req.object_id = o
  OBVIOUS
<1>5. Request_packet(req) = h \o key
  BY <1>1, <1>2, <1>4 DEF Request_packet
<1>6. IsPacket(h \o key, c)
  BY <1>3, PacketOf
<1>7. ASSUME NEW b \in Seq(Int), Lies(b, 1, h \o key)
      PROVE  receive(b) = Understanding(req)
  <2>1. Lies(b, 1, h) /\ Lies(b, 3, key)
    <3>1. 1 \in Nat \ {0} /\ 3 = 1 + Len(h)
      BY <1>3, <1>7
    <3> QED BY <1>3, <1>7, <3>1, LiesApart
  <2>2. b[1] = c /\ b[2] = t
    BY <1>3, <2>1 DEF Lies
  <2>3. I64(b[3], b[4]) = o
    <3>1. 3 \in Nat \ {0} /\ 3 + 1 = 4 /\ Lies(b, 3, W64(o))
      BY <1>2, <2>1
    <3> QED BY <3>1, LiesKey
  <2>4. command = IF c = 3 THEN "Drop" ELSE "Get"
    BY <1>1
  <2>5. c \in {3, 4}
    BY <1>1
  <2>6. receive(b) = [status |-> "read", request |-> req]
    BY <2>2, <2>3, <2>4, <2>5 DEF receive, KeyRequest
  <2>7. ~HasEmptyText(req)
    BY <1>4 DEF HasEmptyText
  <2> QED BY <2>6, <2>7 DEF Understanding
<1> QED BY <1>1, <1>5, <1>6, <1>7

LEMMA QueryRead ==
  ASSUME NEW t \in Int, NEW i \in Int, NEW op \in Int, NEW v \in Writable, NEW req,
         req = [command |-> "Query", table_id |-> t, column_id |-> i, operator |-> op,
                value |-> v]
  PROVE  /\ IsPacket(Request_packet(req), 5)
         /\ \A b \in Seq(Int) : Lies(b, 1, Request_packet(req)) => receive(b) = Understanding(req)
<1>1. PICK h, w : h = <<5, t, i, op>> /\ w = WriteValue(v)
  OBVIOUS
<1>2. h \in Seq(Int) /\ Len(h) = 4 /\ h[1] = 5 /\ h[2] = t /\ h[3] = i /\ h[4] = op
  BY <1>1
<1>3. w \in Seq(Int)
  BY <1>1, WordsOfValue DEF IsWritten, Writable
<1>4. /\ req.command = "Query" /\ req.table_id = t /\ req.column_id = i
      /\ req.operator = op /\ req.value = v
  OBVIOUS
<1>5. Request_packet(req) = h \o w
  BY <1>1, <1>4 DEF Request_packet
<1>6. IsPacket(h \o w, 5)
  BY <1>2, <1>3, PacketOf, SMTT(20)
<1>7. ASSUME NEW b \in Seq(Int), Lies(b, 1, h \o w)
      PROVE  receive(b) = Understanding(req)
  <2>1. Lies(b, 1, h) /\ Lies(b, 5, w)
    <3>1. 1 \in Nat \ {0} /\ 5 = 1 + Len(h)
      BY <1>2, <1>3, <1>7
    <3> QED BY <1>2, <1>3, <1>7, <3>1, LiesApart
  <2>2. b[1] = 5 /\ b[2] = t /\ b[3] = i /\ b[4] = op
    BY <1>2, <2>1 DEF Lies
  <2>3. PICK read : read = read_value(b, 5)
    OBVIOUS
  <2>4. read = Reading(v, 5)
    <3>1. 5 \in Nat \ {0} /\ Lies(b, 5, WriteValue(v)) /\ v \in Writable
      BY <1>1, <2>1 DEF Writable
    <3> QED BY <2>3, <3>1, ReadValue
  <2>5. HasEmptyText(req) <=> v = EmptyText
    BY <1>4 DEF HasEmptyText
  <2>6. CASE v = EmptyText
    <3>1. read = Endless
      BY <2>4, <2>6 DEF Reading
    <3>2. receive(b) = Endless
      BY <2>2, <2>3, <3>1 DEF receive, Endless
    <3> QED BY <2>5, <2>6, <3>2 DEF Understanding
  <2>7. CASE v # EmptyText
    <3>1. read.status = "read" /\ read.value = v
      BY <2>4, <2>7 DEF Reading
    <3>2. receive(b) = [status |-> "read", request |-> req]
      BY <2>2, <2>3, <3>1 DEF receive
    <3> QED BY <2>5, <2>7, <3>2 DEF Understanding
  <2> QED BY <2>6, <2>7
<1> QED BY <1>5, <1>6, <1>7

\* Whatever follows it in the buffer, a packet of the client is read as it was meant.
LEMMA RequestRead ==
  ASSUME NEW req \in Asks
  PROVE  /\ \E c \in 1..5 : IsPacket(Request_packet(req), c)
         /\ \A b \in Seq(Int) : Lies(b, 1, Request_packet(req)) => receive(b) = Understanding(req)
<1>1. CASE req \in [command : {"Insert"}, table_id : Int, values : Seq(Writable)]
  <2>1. /\ req = [command |-> "Insert", table_id |-> req.table_id, values |-> req.values]
        /\ req.table_id \in Int /\ req.values \in Seq(Writable)
    BY <1>1
  <2> QED BY <2>1, InsertRead
<1>2. CASE req \in [command : {"Update"}, table_id : Int, object_id : Int, version : Int,
                    values : Seq(Writable)]
  <2>1. /\ req = [command |-> "Update", table_id |-> req.table_id, object_id |-> req.object_id,
                  version |-> req.version, values |-> req.values]
        /\ req.table_id \in Int /\ req.object_id \in Int /\ req.version \in Int
        /\ req.values \in Seq(Writable)
    BY <1>2
  <2> QED BY <2>1, UpdateRead
<1>3. CASE req \in [command : {"Drop", "Get"}, table_id : Int, object_id : Int]
  <2>1. /\ req = [command |-> req.command, table_id |-> req.table_id,
                  object_id |-> req.object_id]
        /\ req.command \in {"Drop", "Get"} /\ req.table_id \in Int /\ req.object_id \in Int
    BY <1>3
  <2> QED BY <2>1, KeyRead
<1>4. CASE req \in [command : {"Query"}, table_id : Int, column_id : Int, operator : Int,
                    value : Writable]
  <2>1. /\ req = [command |-> "Query", table_id |-> req.table_id, column_id |-> req.column_id,
                  operator |-> req.operator, value |-> req.value]
        /\ req.table_id \in Int /\ req.column_id \in Int /\ req.operator \in Int
        /\ req.value \in Writable
    BY <1>4
  <2> QED BY <2>1, QueryRead
<1> QED BY <1>1, <1>2, <1>3, <1>4 DEF Asks

\* An EXIT is read as one.
LEMMA ExitRead ==
  /\ IsPacket(Request_packet(ExitRequest), 6)
  /\ \A b \in Seq(Int) : b[1] = 6 =>
       receive(b).status = "read" /\ receive(b).request.command = "Exit"
<1>1. PICK w : w = <<6, 1>>
  OBVIOUS
<1>2. Request_packet(ExitRequest) = w
  BY <1>1 DEF Request_packet, ExitRequest
<1>3. IsPacket(w, 6)
  BY <1>1 DEF IsPacket
<1>4. ASSUME NEW b \in Seq(Int), b[1] = 6
      PROVE  receive(b).status = "read" /\ receive(b).request.command = "Exit"
  BY <1>4 DEF receive, ExitRequest
<1> QED BY <1>2, <1>3, <1>4

\* A column of a table
LEMMA ColumnFacts ==
  ASSUME NEW t \in TableIds, NEW i \in DOMAIN Schema[t]
  PROVE  Schema[t][i] \in Column
<1>1. Schema \in Seq(Seq(Column))
  BY SchemaAssumption
<1>2. Schema[t] \in Seq(Column)
  BY <1>1, LenProperties, ElementOfSeq DEF TableIds
<1> QED BY <1>2, LenProperties, ElementOfSeq

\* A value of the type that the client wants in a column can be packed as one of the
\* type of the column.
LEMMA PackedForColumn ==
  ASSUME NEW t \in TableIds, NEW i \in DOMAIN Schema[t], NEW v \in Argument,
         v.type = python_type(Schema[t][i])
  PROVE  [type |-> Schema[t][i].c_type, val |-> v.val] \in Writable
<1>1. PICK col \in Column : col = Schema[t][i]
  BY ColumnFacts
<1>2. col.c_type \in {INTEGER, FLOAT, TEXT, FOREIGN} /\ v.val \in Int
  BY DEF Column, Argument, Writable, Value
<1>a. /\ NULL \notin {INTEGER, FLOAT, TEXT, FOREIGN} /\ TEXT \notin {INTEGER, FLOAT, FOREIGN}
      /\ {INTEGER, FLOAT, TEXT, FOREIGN} \subseteq NULL..FOREIGN
  BY DEF NULL, TEXT, INTEGER, FLOAT, FOREIGN
<1>3. col.c_type = TEXT => v.val \in Nat
  BY <1>1, <1>a DEF python_type, Argument, Writable
<1>4. PICK w : w = [type |-> col.c_type, val |-> v.val]
  OBVIOUS
<1>5. w.type = col.c_type /\ w.val = v.val /\ w \in Value
  BY <1>2, <1>4, <1>a DEF Value
<1>6. w \in Writable
  BY <1>2, <1>3, <1>5, <1>a DEF Writable
<1> QED BY <1>1, <1>4, <1>5, <1>6 DEF Writable

LEMMA RowPacked ==
  ASSUME NEW t, NEW values \in Seq(Argument), check_values(t, values)
  PROVE  t \in TableIds /\ rowStruct(t, values) \in Seq(Writable)
<1>1. t \in TableIds /\ Len(values) = Len(Schema[t])
      /\ \A i \in DOMAIN values : values[i].type = python_type(Schema[t][i])
  BY DEF check_values
<1>2. DOMAIN values = DOMAIN Schema[t]
  <2>1. Schema \in Seq(Seq(Column))
    BY SchemaAssumption
  <2>2. Schema[t] \in Seq(Column)
    BY <1>1, <2>1, LenProperties, ElementOfSeq DEF TableIds
  <2> QED BY <1>1, <2>2, LenProperties
<1>3. PICK m : m = rowStruct(t, values)
  OBVIOUS
<1>4. m = [i \in DOMAIN values |-> [type |-> Schema[t][i].c_type, val |-> values[i].val]]
  BY <1>3 DEF rowStruct
<1>5. ASSUME NEW i \in DOMAIN values
      PROVE  m[i] \in Writable
  <2>1. values[i] \in Argument
    BY LenProperties, ElementOfSeq
  <2> QED BY <1>1, <1>2, <1>4, <2>1, PackedForColumn
<1>6. m = [i \in DOMAIN values |-> m[i]]
  BY <1>4
<1>7. m \in Seq(Writable)
  BY <1>5, <1>6, Mapped
<1> QED BY <1>1, <1>3, <1>7

\* What a method of the client asks for can be packed.
LEMMA CallsAsk ==
  ASSUME NEW c \in Calls, Accepted(c)
  PROVE  RequestOf(c) \in Asks
<1>1. CASE c \in [method : {"insert"}, table : Int, values : Seq(Argument)]
  <2>1. c.method = "insert" /\ c.table \in Int /\ c.values \in Seq(Argument)
    BY <1>1
  <2>2. rowStruct(c.table, c.values) \in Seq(Writable)
    BY <2>1, RowPacked DEF Accepted
  <2>3. RequestOf(c) = [command |-> "Insert", table_id |-> c.table,
                        values |-> rowStruct(c.table, c.values)]
    BY <2>1 DEF RequestOf, InsertRequest
  <2> QED BY <2>1, <2>2, <2>3 DEF Asks
<1>2. CASE c \in [method : {"update"}, table : Int, pk : Int, version : Int,
                  values : Seq(Argument)]
  <2>1. /\ c.method = "update" /\ c.table \in Int /\ c.pk \in Int /\ c.version \in Int
        /\ c.values \in Seq(Argument)
    BY <1>2
  <2>2. rowStruct(c.table, c.values) \in Seq(Writable)
    BY <2>1, RowPacked DEF Accepted
  <2>3. RequestOf(c) = [command |-> "Update", table_id |-> c.table, object_id |-> c.pk,
                        version |-> c.version, values |-> rowStruct(c.table, c.values)]
    BY <2>1 DEF RequestOf, UpdateRequest
  <2> QED BY <2>1, <2>2, <2>3 DEF Asks
<1>3. CASE c \in [method : {"drop", "get"}, table : Int, pk : Int]
  <2>1. c.method \in {"drop", "get"} /\ c.table \in Int /\ c.pk \in Int
    BY <1>3
  <2>2. RequestOf(c) = [command |-> IF c.method = "drop" THEN "Drop" ELSE "Get",
                        table_id |-> c.table, object_id |-> c.pk]
    BY <2>1 DEF RequestOf, KeyRequest
  <2> QED BY <2>1, <2>2 DEF Asks
<1>4. CASE c \in [method : {"scan"}, table : Int, op : Int, column : Int, value : Argument]
  <2>1. /\ c.method = "scan" /\ c.table \in Int /\ c.op \in Int /\ c.column \in Int
        /\ c.value \in Argument /\ check_scan(c.table, c.op, c.column, c.value)
    BY <1>4 DEF Accepted
  <2>2. PICK v : v = ScanRequest(c.table, c.op, c.column, c.value).value
    OBVIOUS
  <2>3. RequestOf(c) = [command |-> "Query", table_id |-> c.table, operator |-> c.op,
                        column_id |-> IF c.op = OP_AL THEN 0 ELSE c.column, value |-> v]
    BY <2>1, <2>2 DEF RequestOf, ScanRequest
  <2>4. v \in Writable
    <3>1. CASE c.op = OP_AL
      <4>1. v = None
        BY <2>2, <3>1 DEF ScanRequest
      <4>2. None \in Value /\ None.type = NULL /\ NULL # TEXT
        BY DEF None, Value, NULL, TEXT, FOREIGN
      <4> QED BY <4>1, <4>2 DEF Writable
    <3>2. CASE c.op # OP_AL /\ c.column = 0
      <4>1. v = [c.value EXCEPT !.type = FOREIGN]
        BY <2>2, <3>2 DEF ScanRequest
      <4>2. c.value \in Value
        BY <2>1 DEF Argument, Writable
      <4>3. v \in Value /\ v.type = FOREIGN
        BY <4>1, <4>2 DEF Value, NULL, FOREIGN
      <4>4. FOREIGN # NULL /\ FOREIGN # TEXT
        BY DEF NULL, TEXT, FOREIGN
      <4> QED BY <4>3, <4>4 DEF Writable
    <3>3. CASE c.op # OP_AL /\ c.column # 0
      <4>1. /\ c.table \in TableIds /\ c.column \in DOMAIN Schema[c.table]
            /\ c.value.type = python_type(Schema[c.table][c.column])
        BY <2>1, <3>3 DEF check_scan
      <4>2. v = [c.value EXCEPT !.type = Schema[c.table][c.column].c_type]
        BY <2>2, <3>3 DEF ScanRequest
      <4>3. c.value \in [type : NULL..FOREIGN, val : Int]
        BY <2>1 DEF Argument, Writable, Value
      <4>4. v = [type |-> Schema[c.table][c.column].c_type, val |-> c.value.val]
        BY <4>2, <4>3
      <4> QED BY <2>1, <4>1, <4>4, PackedForColumn
    <3> QED BY <3>1, <3>2, <3>3
  <2>5. (IF c.op = OP_AL THEN 0 ELSE c.column) \in Int
    BY <2>1
  <2> QED BY <2>1, <2>3, <2>4, <2>5 DEF Asks
<1> QED BY <1>1, <1>2, <1>3, <1>4, ClientAssumption

-----------------------------------------------------------------------------
\* The database: its rows fit their tables, whatever is asked of it.

RowOK(t, row) == row.version \in Nat /\ Fits(t, row.row_values)

DataInv ==
  /\ content = [t \in TableIds |-> content[t]]
  /\ row_count \in [TableIds -> Nat]
  /\ \A t \in TableIds : DOMAIN content[t] \subseteq 1..row_count[t]
  /\ \A t \in TableIds : \A o \in DOMAIN content[t] : RowOK(t, content[t][o])

\* The ids of some rows
SomeIds == {ids \in SUBSET Nat : \E n \in Nat : ids \subseteq 1..n}

Responses ==
       [kind : {"Error"}, code : Int]
  \cup [kind : {"Insert"}, id : Nat, version : Nat]
  \cup [kind : {"Update"}, version : Nat]
  \cup [kind : {"Get"}, version : Nat, values : Seq(Value)]
  \cup [kind : {"Query"}, ids : SomeIds]
  \cup [kind : {"Drop"}]

\* What a handler does to the database, and answers
Handled(req) ==
  /\ DataInv'
  /\ call' = [request |-> req, response |-> call'.response]
  /\ call'.response \in Responses

LEMMA ErrorsRespond ==
  ASSUME DataInv, NEW req, NEW code \in Int, Respond(req, Error(code)),
         UNCHANGED <<content, row_count>>
  PROVE  Handled(req)
<1>1. DataInv'
  BY DEF DataInv, RowOK, Fits
<1>2. call' = [request |-> req, response |-> Error(code)]
  BY DEF Respond
<1>3. Error(code) \in Responses
  BY DEF Error, Responses
<1> QED BY <1>1, <1>2, <1>3 DEF Handled

LEMMA CodesAreNumbers ==
  /\ NOT_FOUND \in Int /\ BAD_TABLE \in Int /\ BAD_QUERY \in Int /\ TXN_ABORT \in Int
  /\ BAD_VALUE \in Int /\ BAD_ROW \in Int /\ BAD_FOREIGN \in Int /\ UNIMPLEMENTED \in Int
  /\ OK \in Int /\ BAD_VALUE # OK /\ BAD_FOREIGN # OK
BY DEF NOT_FOUND, BAD_TABLE, BAD_QUERY, TXN_ABORT, BAD_VALUE, BAD_ROW, BAD_FOREIGN,
       UNIMPLEMENTED, OK

LEMMA CheckedValue ==
  ASSUME NEW col, NEW v
  PROVE  /\ check_value(col, v) \in {OK, BAD_VALUE, BAD_FOREIGN}
         /\ check_value(col, v) = OK => v.type \in {NULL, col.c_type}
BY CodesAreNumbers DEF check_value

LEMMA ValidFits ==
  ASSUME NEW t, NEW values \in Seq(Value), ValidRow(t, values)
  PROVE  t \in TableIds /\ Fits(t, values)
BY CheckedValue DEF ValidRow, Fits

LEMMA RowRefused ==
  ASSUME DataInv, NEW req, refuse_row(req)
  PROVE  Handled(req)
<1>1. PICK code \in RowErrors(req.table_id, req.values) : Respond(req, Error(code))
  BY DEF refuse_row
<1>2. code \in Int
  BY <1>1, CheckedValue, CodesAreNumbers DEF RowErrors
<1> QED BY <1>1, <1>2, ErrorsRespond DEF refuse_row

\* A row put in its place, new or not
Puts(t, id, row, table) ==
  /\ RowOK(t, row)
  /\ DOMAIN table = DOMAIN content[t] \cup {id}
  /\ \A o \in DOMAIN table : table[o] = IF o = id THEN row ELSE content[t][o]
  /\ content' = [content EXCEPT ![t] = table]

Counts(t, id) ==
  /\ row_count' \in [TableIds -> Nat]
  /\ \A u \in TableIds : row_count[u] <= row_count'[u]
  /\ id \in 1..row_count'[t]

LEMMA RowStored ==
  ASSUME DataInv, NEW t \in TableIds, NEW id, NEW row, NEW table,
         Puts(t, id, row, table), Counts(t, id)
  PROVE  DataInv'
<1>1. content' = [u \in TableIds |-> content'[u]]
  BY DEF DataInv, Puts
<1>2. ASSUME NEW u \in TableIds
      PROVE  /\ DOMAIN content'[u] \subseteq 1..row_count'[u]
             /\ \A o \in DOMAIN content'[u] : RowOK(u, content'[u][o])
  <2>1. row_count[u] \in Nat /\ row_count'[u] \in Nat /\ row_count[u] <= row_count'[u]
        /\ DOMAIN content[u] \subseteq 1..row_count[u]
    BY DEF DataInv, Counts
  <2>2. DOMAIN content[u] \subseteq 1..row_count'[u]
    BY <2>1
  <2>3. CASE u = t
    <3>1. content'[u] = table
      BY <2>3 DEF DataInv, Puts
    <3>2. \A o \in DOMAIN table : RowOK(t, table[o])
      BY DEF DataInv, Puts
    <3>3. id \in 1..row_count'[u]
      BY <2>3 DEF Counts
    <3> QED BY <2>2, <2>3, <3>1, <3>2, <3>3 DEF Puts
  <2>4. CASE u # t
    <3>1. content'[u] = content[u]
      BY <2>4 DEF DataInv, Puts
    <3> QED BY <2>2, <3>1 DEF DataInv
  <2> QED BY <2>3, <2>4
<1>3. row_count' \in [TableIds -> Nat]
  BY DEF Counts
<1> QED BY <1>1, <1>2, <1>3 DEF DataInv, RowOK, Fits

LEMMA InsertHandled ==
  ASSUME DataInv, NEW req, req.values \in Seq(Value), handle_insert(req)
  PROVE  Handled(req)
<1>1. CASE refuse_row(req)
  BY <1>1, RowRefused
<1>2. CASE ~refuse_row(req)
  <2>1. PICK t, id, values : t = req.table_id /\ id = row_count[t] + 1 /\ values = req.values
    OBVIOUS
  <2>2. /\ ValidRow(t, values)
        /\ row_count' = [row_count EXCEPT ![t] = id]
        /\ content' = [content EXCEPT ![t] =
             [o \in DOMAIN content[t] \cup {id} |->
                IF o = id THEN [version |-> 1, row_values |-> values] ELSE content[t][o]]]
        /\ Respond(req, Inserted(id, 1))
    BY <1>2, <2>1 DEF handle_insert, NextId
  <2>3. t \in TableIds /\ Fits(t, values)
    BY <2>1, <2>2, ValidFits
  <2>4. PICK row, table : /\ row = [version |-> 1, row_values |-> values]
                          /\ table = [o \in DOMAIN content[t] \cup {id} |->
                                        IF o = id THEN row ELSE content[t][o]]
    OBVIOUS
  <2>5. RowOK(t, row)
    BY <2>3, <2>4 DEF RowOK
  <2>6. row_count[t] \in Nat /\ id \in Nat
    BY <2>1, <2>3 DEF DataInv
  <2>7. row_count' \in [TableIds -> Nat] /\ row_count'[t] = id
        /\ \A u \in TableIds : row_count[u] <= row_count'[u]
    BY <2>1, <2>2, <2>3, <2>6 DEF DataInv
  <2>8. id \in 1..row_count'[t]
    BY <2>1, <2>6, <2>7
  <2>9. content' = [content EXCEPT ![t] = table]
    BY <2>2, <2>4
  <2>10. DOMAIN table = DOMAIN content[t] \cup {id}
         /\ \A o \in DOMAIN table : table[o] = IF o = id THEN row ELSE content[t][o]
    BY <2>4
  <2>11. DataInv'
    <3>1. Puts(t, id, row, table)
      BY <2>5, <2>9, <2>10 DEF Puts
    <3>2. Counts(t, id)
      BY <2>7, <2>8 DEF Counts
    <3> QED BY <2>3, <3>1, <3>2, RowStored
  <2>12. call' = [request |-> req, response |-> Inserted(id, 1)] /\ Inserted(id, 1) \in Responses
    BY <2>2, <2>6 DEF Respond, Inserted, Responses
  <2> QED BY <2>11, <2>12 DEF Handled
<1> QED BY <1>1, <1>2

LEMMA UpdateHandled ==
  ASSUME DataInv, NEW req, req.values \in Seq(Value), handle_update(req)
  PROVE  Handled(req)
<1>1. CASE refuse_row(req)
  BY <1>1, RowRefused
<1>2. CASE \E code \in {TXN_ABORT, NOT_FOUND} : Respond(req, Error(code))
           /\ UNCHANGED <<content, row_count>>
  BY <1>2, ErrorsRespond, CodesAreNumbers
<1>3. CASE /\ ValidRow(req.table_id, req.values)
           /\ Live(req.table_id, req.object_id)
           /\ content' = [content EXCEPT ![req.table_id] = [@ EXCEPT ![req.object_id] =
                [version |-> NextVersion(content[req.table_id][req.object_id]),
                 row_values |-> req.values]]]
           /\ Respond(req, Updated(NextVersion(content[req.table_id][req.object_id])))
           /\ UNCHANGED row_count
  <2>1. PICK t, o, values, new : /\ t = req.table_id /\ o = req.object_id /\ values = req.values
                                 /\ new = NextVersion(content[t][o])
    OBVIOUS
  <2>2. t \in TableIds /\ Fits(t, values) /\ o \in DOMAIN content[t]
    BY <1>3, <2>1, ValidFits DEF Live
  <2>3. new \in Nat
    BY <2>1, <2>2 DEF NextVersion, DataInv, RowOK
  <2>4. PICK row, table : /\ row = [version |-> new, row_values |-> values]
                          /\ table = [content[t] EXCEPT ![o] = row]
    OBVIOUS
  <2>5. RowOK(t, row)
    BY <2>2, <2>3, <2>4 DEF RowOK
  <2>6. DOMAIN table = DOMAIN content[t] \cup {o}
        /\ \A x \in DOMAIN table : table[x] = IF x = o THEN row ELSE content[t][x]
    BY <2>2, <2>4
  <2>7. content' = [content EXCEPT ![t] = table]
    BY <1>3, <2>1, <2>2, <2>4 DEF DataInv
  <2>8. /\ row_count' \in [TableIds -> Nat] /\ \A u \in TableIds : row_count[u] <= row_count'[u]
        /\ o \in 1..row_count'[t]
    BY <1>3, <2>2 DEF DataInv
  <2>9. DataInv'
    <3>1. Puts(t, o, row, table)
      BY <2>5, <2>6, <2>7 DEF Puts
    <3>2. Counts(t, o)
      BY <2>8 DEF Counts
    <3> QED BY <2>2, <3>1, <3>2, RowStored
  <2>10. call' = [request |-> req, response |-> Updated(new)] /\ Updated(new) \in Responses
    BY <1>3, <2>1, <2>3 DEF Respond, Updated, Responses
  <2> QED BY <2>9, <2>10 DEF Handled
<1> QED BY <1>1, <1>2, <1>3 DEF handle_update

LEMMA GetHandled ==
  ASSUME DataInv, NEW req, handle_get(req)
  PROVE  Handled(req)
<1>1. UNCHANGED <<content, row_count>>
  BY DEF handle_get
<1>2. CASE \E code \in {BAD_TABLE, NOT_FOUND} : Respond(req, Error(code))
  BY <1>1, <1>2, ErrorsRespond, CodesAreNumbers
<1>3. ASSUME Live(req.table_id, req.object_id),
             Respond(req, Got(content[req.table_id][req.object_id].version,
                              content[req.table_id][req.object_id].row_values))
      PROVE  Handled(req)
  <2>1. DataInv'
    BY <1>1 DEF DataInv, RowOK, Fits
  <2>2. PICK row : row = content[req.table_id][req.object_id]
    OBVIOUS
  <2>3. row.version \in Nat /\ row.row_values \in Seq(Value)
    BY <1>3, <2>2 DEF Live, DataInv, RowOK, Fits
  <2>4. Got(row.version, row.row_values) \in Responses
    BY <2>3 DEF Got, Responses
  <2>5. call' = [request |-> req, response |-> Got(row.version, row.row_values)]
    BY <1>3, <2>2 DEF Respond
  <2> QED BY <2>1, <2>4, <2>5 DEF Handled
<1> QED BY <1>2, <1>3 DEF handle_get

LEMMA QueryHandled ==
  ASSUME DataInv, NEW req, handle_query(req)
  PROVE  Handled(req)
<1>1. PICK t, col, op, v : /\ t = req.table_id /\ col = req.column_id /\ op = req.operator
                           /\ v = req.value
  OBVIOUS
<1>2. UNCHANGED <<content, row_count>> /\ Respond(req, QueryResponse(t, col, op, v))
  BY <1>1 DEF handle_query
<1>3. DataInv'
  BY <1>2 DEF DataInv, RowOK, Fits
<1>4. QueryResponse(t, col, op, v) \in Responses
  <2>1. Error(BAD_TABLE) \in Responses /\ Error(BAD_QUERY) \in Responses
    BY CodesAreNumbers DEF Error, Responses
  <2>2. CASE t \notin TableIds
    BY <2>1, <2>2 DEF QueryResponse
  <2>3. CASE t \in TableIds
    <3>1. PICK ids : ids = {o \in DOMAIN content[t] : Selected(t, o, col, op, v)}
      OBVIOUS
    <3>2. ids \in SUBSET (1..row_count[t]) /\ row_count[t] \in Nat
      BY <2>3, <3>1 DEF DataInv
    <3>3. Queried(ids) \in Responses
      <4>1. PICK n \in Nat : n = row_count[t] /\ ids \in SUBSET (1..n)
        BY <3>2
      <4>2. ids \in SUBSET Nat
        BY <4>1
      <4>3. ids \in SomeIds
        BY <4>1, <4>2 DEF SomeIds
      <4> QED BY <4>3 DEF Queried, Responses
    <3>4. QueryResponse(t, col, op, v) \in {Error(BAD_QUERY), Queried(ids)}
      BY <2>3, <3>1 DEF QueryResponse
    <3> QED BY <2>1, <3>3, <3>4
  <2> QED BY <2>2, <2>3
<1>5. call' = [request |-> req, response |-> QueryResponse(t, col, op, v)]
  BY <1>2 DEF Respond
<1> QED BY <1>3, <1>4, <1>5 DEF Handled

\* What a drop leaves
LEMMA WithoutKeeps ==
  ASSUME DataInv, NEW S, content' = Without(S), row_count' = row_count
  PROVE  DataInv'
<1>1. content' = [t \in TableIds |-> content'[t]]
  BY DEF Without
<1>2. ASSUME NEW t \in TableIds
      PROVE  /\ DOMAIN content'[t] \subseteq DOMAIN content[t]
             /\ \A o \in DOMAIN content'[t] : content'[t][o] = content[t][o]
  <2>1. PICK kept : kept = {o \in DOMAIN content[t] : [table_id |-> t, object_id |-> o] \notin S}
    OBVIOUS
  <2>2. content'[t] = Restrict(content[t], kept) /\ kept \subseteq DOMAIN content[t]
    BY <2>1 DEF Without
  <2>3. content'[t] = [o \in kept |-> content[t][o]]
    BY <2>2 DEF Restrict
  <2> QED BY <2>2, <2>3
<1> QED BY <1>1, <1>2 DEF DataInv, RowOK, Fits

LEMMA DropHandled ==
  ASSUME DataInv, NEW req, drop(req)
  PROVE  Handled(req)
<1>1. CASE refuse_drop(req)
  BY <1>1, ErrorsRespond, CodesAreNumbers DEF refuse_drop
<1>2. ASSUME NEW S, content' = Without(S), row_count' = row_count,
             NEW r \in {Dropped, Error(NOT_FOUND)}, Respond(req, r)
      PROVE  Handled(req)
  <2>1. r \in Responses
    BY <1>2, CodesAreNumbers DEF Dropped, Error, Responses
  <2>2. call' = [request |-> req, response |-> r]
    BY <1>2 DEF Respond
  <2> QED BY <1>2, <2>1, <2>2, WithoutKeeps DEF Handled
<1> QED BY <1>1, <1>2 DEF drop

\* What the database answers fits the types, and so do its rows afterwards.
LEMMA RequestHandled ==
  ASSUME DataInv, NEW req, handle_request(req),
         req.command \in {"Insert", "Update"} => req.values \in Seq(Value)
  PROVE  Handled(req)
<1>1. CASE req.command = "Exit" /\ Respond(req, Error(UNIMPLEMENTED))
           /\ UNCHANGED <<content, row_count>>
  BY <1>1, ErrorsRespond, CodesAreNumbers
<1> QED BY <1>1, InsertHandled, UpdateHandled, GetHandled, QueryHandled, DropHandled
        DEF handle_request, handle_in_one_step

-----------------------------------------------------------------------------
\* Whatever the buffer holds, what is read of it fits the types.

\* A set of numbers up to n that has one has a greatest one.
LEMMA Greatest ==
  ASSUME NEW n \in Nat, NEW S \in SUBSET (0..n), S # {}
  PROVE  Max(S) \in S
<1>1. PICK T : T = {n - i : i \in S}
  OBVIOUS
<1>2. T \in SUBSET Nat /\ T # {}
  <2>1. ASSUME NEW i \in S
        PROVE  n - i \in Nat
    <3>1. i \in 0..n
      OBVIOUS
    <3> QED BY <3>1
  <2>2. PICK i : i \in S
    OBVIOUS
  <2> QED BY <1>1, <2>1, <2>2
<1>3. PICK x \in T : \A y \in T : x <= y
  BY <1>2, Least
<1>4. PICK m \in S : x = n - m
  BY <1>1, <1>3
<1>5. \A i \in S : m >= i
  <2>1. ASSUME NEW i \in S
        PROVE  m >= i
    <3>1. n - m <= n - i
      BY <1>1, <1>3, <1>4
    <3>2. m \in Int /\ i \in Int
      OBVIOUS
    <3> QED BY <3>1, <3>2
  <2> QED BY <2>1
<1>6. \E z \in S : \A i \in S : z >= i
  BY <1>4, <1>5
<1> QED BY <1>6 DEF Max

LEMMA TextIsNumber ==
  ASSUME NEW words \in Seq(Int)
  PROVE  TextOf(words) \in Int
<1>1. PICK n \in Nat : n = Len(words)
  BY LenProperties
<1>2. PICK S : S = {i \in 1..n : words[i] # 0} \cup {0}
  OBVIOUS
<1>3. S \in SUBSET (0..n) /\ S # {}
  BY <1>2
<1>4. Max(S) \in S
  BY <1>3, Greatest
<1>5. Max(S) \in Int
  <2>1. Max(S) \in 0..n
    BY <1>3, <1>4
  <2> QED BY <2>1
<1>6. TextOf(words) \in {Max(S), -1}
  BY <1>1, <1>2 DEF TextOf
<1> QED BY <1>5, <1>6

LEMMA ValueTyped ==
  ASSUME NEW b \in Seq(Int), NEW p \in Nat \ {0}, NEW read, read = read_value(b, p),
         read.status = "read"
  PROVE  read.value \in Value /\ read.at \in Nat \ {0}
<1>1. PICK n \in Nat : n = Len(b) /\ DOMAIN b = 1..n
  BY LenProperties
<1>2. \A i \in 1..n : b[i] \in Int
  BY <1>1, ElementOfSeq
<1>3. Bad.status # "read" /\ Endless.status # "read"
  BY DEF Bad, Endless
<1>t. /\ NULL \notin {TEXT, INTEGER, FLOAT, FOREIGN} /\ TEXT \notin {INTEGER, FLOAT, FOREIGN}
      /\ {NULL, TEXT, INTEGER, FLOAT, FOREIGN} = NULL..FOREIGN
  BY DEF NULL, TEXT, INTEGER, FLOAT, FOREIGN
<1>4. p + 1 <= n /\ b[p] \in NULL..FOREIGN
  <2>1. CASE p + 1 > n
    BY <1>1, <1>3, <2>1 DEF read_value
  <2>2. CASE p + 1 <= n /\ b[p] \notin NULL..FOREIGN
    <3>1. read_value(b, p) = Bad
      BY <1>1, <1>t, <2>2 DEF read_value
    <3> QED BY <1>3, <3>1
  <2> QED BY <2>1, <2>2
<1>5. b[p] \in Int /\ b[p + 1] \in Int
  BY <1>2, <1>4
<1>6. CASE b[p] = NULL
  <2>1. read = [status |-> "read", value |-> None, at |-> p + 2]
    BY <1>1, <1>3, <1>4, <1>6, <1>t DEF read_value
  <2>2. None \in Value
    BY DEF None, Value, NULL, FOREIGN
  <2> QED BY <2>1, <2>2
<1>7. CASE b[p] \in {INTEGER, FLOAT, FOREIGN}
  <2>1. /\ p + 3 <= n
        /\ read = [status |-> "read", at |-> p + 4,
                   value |-> [type |-> b[p], val |-> I64(b[p + 2], b[p + 3])]]
    BY <1>1, <1>3, <1>4, <1>7, <1>t DEF read_value
  <2>2. b[p + 2] \in Int /\ b[p + 3] \in Int
    BY <1>2, <2>1
  <2>3. I64(b[p + 2], b[p + 3]) \in Int
    BY <2>2 DEF I64, WordBase
  <2>4. read.value = [type |-> b[p], val |-> I64(b[p + 2], b[p + 3])] /\ read.at = p + 4
    BY <2>1
  <2> QED BY <1>4, <2>3, <2>4 DEF Value
<1>8. CASE b[p] = TEXT
  <2>1. PICK k, text : k = b[p + 1] \div 4 /\ text = SubSeq(b, p + 2, p + 1 + k)
    OBVIOUS
  <2>2. k \in Int /\ (b[p + 1] >= 0 => k >= 0)
    <3>1. PICK size \in Int : size = b[p + 1]
      BY <1>5
    <3>2. k = size \div 4
      BY <2>1, <3>1
    <3> QED BY ONLY <3>1, <3>2
  <2>3. /\ ~(b[p + 1] < 0) /\ ~(p + 1 + k > n)
        /\ read = [status |-> "read", at |-> p + 2 + k,
                   value |-> [type |-> TEXT, val |-> TextOf(text)]]
    BY <1>1, <1>3, <1>4, <1>8, <1>t, <2>1 DEF read_value
  <2>4. k \in Nat
    BY <1>5, <2>2, <2>3
  <2>5. text \in Seq(Int)
    <3>1. \A i \in (p + 2)..(p + 1 + k) : b[i] \in Int
      BY <1>2, <2>3, <2>4
    <3>2. p + 2 \in Int /\ p + 1 + k \in Int
      BY <2>4
    <3> QED BY <2>1, <3>1, <3>2, SubSeqProperties
  <2>6. TextOf(text) \in Int
    BY <2>5, TextIsNumber
  <2>7. read.value = [type |-> TEXT, val |-> TextOf(text)] /\ read.at = p + 2 + k
    BY <2>3
  <2>8. TEXT \in NULL..FOREIGN
    BY <1>t
  <2> QED BY <2>4, <2>6, <2>7, <2>8 DEF Value
<1> QED BY <1>4, <1>6, <1>7, <1>8, <1>t

RowTyped(row) == row.status = "read" => row.values \in Seq(Value) /\ row.at \in Nat \ {0}

LEMMA ValuesTyped ==
  ASSUME NEW b \in Seq(Int), NEW p \in Nat \ {0}, NEW k \in Int
  PROVE  RowTyped(read_values(b, p, k))
<1>1. PICK n \in Nat : n = IF k > 0 THEN k ELSE 0
  OBVIOUS
<1>2. read_values(b, p, k) = read_values(b, p, n)
  <2>1. CASE k > 0
    BY <1>1, <2>1
  <2>2. CASE ~(k > 0)
    <3>1. n = 0 /\ (IF k > 0 THEN k ELSE 0) = 0 /\ (IF n > 0 THEN n ELSE 0) = 0
      BY <1>1, <2>2
    <3> QED BY <3>1 DEF read_values
  <2> QED BY <2>1, <2>2
<1> DEFINE S == {i \in 1..n : RowTyped(read_values(b, p, i))}
<1>3. RowTyped(read_values(b, p, 0))
  <2>1. <<>> \in Seq(Value)
    OBVIOUS
  <2>2. PICK row : row = read_values(b, p, 0)
    OBVIOUS
  <2>3. row.values = <<>> /\ row.at = p
    <3>1. row = Start(p)
      BY <2>2, ReadOneMore
    <3> QED BY <3>1 DEF Start
  <2>4. row.values \in Seq(Value) /\ row.at \in Nat \ {0}
    BY <2>1, <2>3
  <2> QED BY <2>2, <2>4 DEF RowTyped
<1>4. ASSUME NEW i \in Nat, RowTyped(read_values(b, p, i))
      PROVE  RowTyped(read_values(b, p, i + 1))
  <2>1. PICK row, v : row = read_values(b, p, i) /\ v = read_value(b, row.at)
    OBVIOUS
  <2>2. read_values(b, p, i + 1) = NextValue(b, row)
    BY <2>1, ReadOneMore
  <2>3. CASE row.status # "read"
    BY <2>2, <2>3 DEF NextValue, RowTyped
  <2>4. CASE row.status = "read" /\ v.status # "read"
    BY <2>1, <2>2, <2>4 DEF NextValue, RowTyped
  <2>5. CASE row.status = "read" /\ v.status = "read"
    <3>1. row.values \in Seq(Value) /\ row.at \in Nat \ {0}
      BY <1>4, <2>1, <2>5 DEF RowTyped
    <3>2. v.value \in Value /\ v.at \in Nat \ {0}
      BY <2>1, <2>5, <3>1, ValueTyped
    <3>3. NextValue(b, row) = [status |-> "read", values |-> Append(row.values, v.value),
                               at |-> v.at]
      BY <2>1, <2>5 DEF NextValue
    <3>4. Append(row.values, v.value) \in Seq(Value)
      BY <3>1, <3>2, AppendProperties
    <3>5. PICK next : next = read_values(b, p, i + 1)
      OBVIOUS
    <3>6. next.values = Append(row.values, v.value) /\ next.at = v.at
      BY <2>2, <3>3, <3>5
    <3>7. next.values \in Seq(Value) /\ next.at \in Nat \ {0}
      BY <3>2, <3>4, <3>6
    <3> QED BY <3>5, <3>7 DEF RowTyped
  <2> QED BY <2>3, <2>4, <2>5
<1>5. 1 \in S \/ n = 0
  <2>1. RowTyped(read_values(b, p, 0 + 1))
    BY <1>3, <1>4
  <2> QED BY <2>1
<1>6. ASSUME NEW i \in 1..n, i + 1 <= n, i \in S
      PROVE  i + 1 \in S
  BY <1>4, <1>6
<1>7. 1..n \subseteq S
  <2> HIDE DEF S
  <2> QED BY <1>5, <1>6, Upwards
<1> QED BY <1>2, <1>3, <1>7

\* A request that is read has the values of a row, where it has values.
LEMMA RequestTyped ==
  ASSUME NEW b \in Seq(Int), Len(b) > 7, NEW read, read = receive(b), read.status = "read",
         read.request.command \in {"Insert", "Update"}
  PROVE  read.request.values \in Seq(Value)
<1>1. b[3] \in Int /\ b[7] \in Int /\ b[1] \in Int
  BY LenProperties, ElementOfSeq
<1>2. ASSUME NEW p \in {4, 8}, NEW k \in Int, NEW request,
             read = WithValues(read_values(b, p, k), request),
             request \in [command : {"Insert"}, table_id : {b[2]}, values : {<<>>}]
                    \cup [command : {"Update"}, table_id : {b[2]}, object_id : {request.object_id},
                          version : {request.version}, values : {<<>>}]
      PROVE  read.request.values \in Seq(Value)
  <2>1. PICK row : row = read_values(b, p, k)
    OBVIOUS
  <2>2. RowTyped(row)
    BY <2>1, ValuesTyped
  <2>3. CASE row.status = "read"
    <3>1. read.request = [request EXCEPT !.values = row.values]
      BY <1>2, <2>1, <2>3 DEF WithValues
    <3>2. read.request.values = row.values
      BY <1>2, <3>1
    <3> QED BY <2>2, <2>3, <3>2 DEF RowTyped
  <2>4. CASE row.status # "read"
    BY <1>2, <2>1, <2>4 DEF WithValues
  <2> QED BY <2>3, <2>4
<1>3. CASE b[1] = 1
  <2>1. PICK request : request = [command |-> "Insert", table_id |-> b[2], values |-> <<>>]
    OBVIOUS
  <2>2. read = WithValues(read_values(b, 4, b[3]), request)
    BY <1>3, <2>1 DEF receive
  <2> QED BY <1>1, <1>2, <2>1, <2>2
<1>4. CASE b[1] = 2
  <2>1. PICK request : request = [command |-> "Update", table_id |-> b[2],
                                  object_id |-> I64(b[3], b[4]),
                                  version |-> I64(b[5], b[6]), values |-> <<>>]
    OBVIOUS
  <2>2. read = WithValues(read_values(b, 8, b[7]), request)
    BY <1>4, <2>1 DEF receive
  <2>3. request.object_id = I64(b[3], b[4]) /\ request.version = I64(b[5], b[6])
    BY <2>1
  <2> QED BY <1>1, <1>2, <2>1, <2>2, <2>3
<1>5. CASE b[1] \in {3, 4}
  BY <1>5 DEF receive, KeyRequest
<1>6. CASE b[1] = 5
  <2>1. PICK v : v = read_value(b, 5)
    OBVIOUS
  <2>2. read = IF v.status # "read" THEN v
               ELSE [status |-> "read",
                     request |-> [command |-> "Query", table_id |-> b[2],
                                  column_id |-> b[3], operator |-> b[4], value |-> v.value]]
    BY <1>6, <2>1 DEF receive
  <2> QED BY <2>2
<1>7. CASE b[1] = 6
  BY <1>7, ExitRead
<1>8. CASE b[1] \notin 1..6
  <2>1. receive(b) = Bad
    BY <1>1, <1>8 DEF receive
  <2> QED BY <2>1 DEF Bad
<1> QED BY <1>1, <1>3, <1>4, <1>5, <1>6, <1>7, <1>8

-----------------------------------------------------------------------------
\* What is answered is words.

Smaller(ids, x) == {j \in ids : j < x}

LEMMA SmallerFinite ==
  ASSUME NEW n \in Nat, NEW ids \in SUBSET (1..n), NEW x
  PROVE  /\ IsFiniteSet(ids) /\ Cardinality(ids) \in Nat
         /\ IsFiniteSet(Smaller(ids, x)) /\ Cardinality(Smaller(ids, x)) \in Nat
<1>1. IsFiniteSet(1..n)
  BY FS_Interval
<1>2. Smaller(ids, x) \subseteq ids
  BY DEF Smaller
<1> QED BY <1>1, <1>2, FS_Subset, FS_CardinalityType

\* Among some numbers there is one that any number of them, fewer than all, is before.
LEMMA HasSmaller ==
  ASSUME NEW n \in Nat, NEW ids \in SUBSET (1..n), NEW k \in Nat, k < Cardinality(ids)
  PROVE  \E id \in ids : Cardinality(Smaller(ids, id)) = k
<1> DEFINE T == {x \in Nat : Cardinality(Smaller(ids, x)) > k}
<1>a. \A j \in ids : j \in Int /\ j < n + 1 /\ ~(j < 0)
  <2>1. ASSUME NEW j \in ids PROVE j \in Int /\ j < n + 1 /\ ~(j < 0)
    <3>1. j \in 1..n
      OBVIOUS
    <3> QED BY <3>1
  <2> QED BY <2>1
<1>1. n + 1 \in T
  <2>1. Smaller(ids, n + 1) = ids
    BY <1>a DEF Smaller
  <2>2. Cardinality(Smaller(ids, n + 1)) > k
    <3>1. PICK c \in Nat : c = Cardinality(ids)
      BY SmallerFinite
    <3>2. k < c
      BY <3>1
    <3>3. Cardinality(Smaller(ids, n + 1)) = c
      BY <2>1, <3>1
    <3> QED BY <3>2, <3>3
  <2> QED BY <2>2
<1>2. PICK x \in T : \A y \in T : x <= y
  BY <1>1, Least
<1>3. x # 0
  <2>1. Smaller(ids, 0) = {}
    BY <1>a DEF Smaller
  <2> QED BY <2>1, FS_EmptySet
<1>4. PICK y \in Nat : x = y + 1
  <2>1. x \in Nat /\ x - 1 \in Nat /\ x = (x - 1) + 1
    BY <1>3
  <2> QED BY <2>1
<1>5. Cardinality(Smaller(ids, y)) <= k /\ Cardinality(Smaller(ids, x)) > k
  <2>1. ~(Cardinality(Smaller(ids, y)) > k)
    BY <1>2, <1>4
  <2>2. PICK c \in Nat : c = Cardinality(Smaller(ids, y))
    BY SmallerFinite
  <2>3. c <= k
    BY <2>1, <2>2
  <2> QED BY <1>2, <2>2, <2>3
<1>6. CASE y \notin ids
  <2>1. Smaller(ids, x) = Smaller(ids, y)
    <3>1. \A j \in ids : (j < x) <=> (j < y)
      BY <1>a, <1>4, <1>6
    <3> QED BY <3>1 DEF Smaller
  <2> QED BY <1>5, <2>1, SmallerFinite
<1>7. CASE y \in ids
  <2>1. Smaller(ids, x) = Smaller(ids, y) \cup {y} /\ y \notin Smaller(ids, y)
    <3>1. \A j \in ids : (j < x) <=> (j < y \/ j = y)
      BY <1>a, <1>4
    <3>2. ~(y < y)
      BY <1>4
    <3> QED BY <1>7, <3>1, <3>2 DEF Smaller
  <2>2. Cardinality(Smaller(ids, x)) = Cardinality(Smaller(ids, y)) + 1
    BY <2>1, SmallerFinite, FS_AddElement
  <2>3. Cardinality(Smaller(ids, y)) \in Nat
    BY SmallerFinite
  <2> QED BY <1>5, <1>7, <2>2, <2>3
<1> QED BY <1>6, <1>7

\* The ids of a query, in order
LEMMA InOrderOf ==
  ASSUME NEW n \in Nat, NEW ids \in SUBSET (1..n), NEW i \in 1..Cardinality(ids)
  PROVE  InOrder(ids)[i] \in ids /\ Cardinality(Smaller(ids, InOrder(ids)[i])) = i - 1
<1>1. i - 1 \in Nat /\ i - 1 < Cardinality(ids)
  <2>1. PICK c \in Nat : c = Cardinality(ids)
    BY SmallerFinite
  <2>2. i \in 1..c
    BY <2>1
  <2> QED BY <2>1, <2>2
<1>2. \E id \in ids : Cardinality({j \in ids : j < id}) = i - 1
  BY <1>1, HasSmaller DEF Smaller
<1>3. InOrder(ids)[i] = CHOOSE id \in ids : Cardinality({j \in ids : j < id}) = i - 1
  BY DEF InOrder
<1> QED BY <1>2, <1>3 DEF Smaller

\* A value that was read of a torn connection can be written as well.
LEMMA AnyValueWritten ==
  ASSUME NEW v \in Value
  PROVE  WriteValue(v) \in Seq(Int)
<1>1. v.type \in {NULL, TEXT, INTEGER, FLOAT, FOREIGN} /\ v.val \in Int
  BY DEF Value, NULL, TEXT, INTEGER, FLOAT, FOREIGN
<1>2. /\ NULL \notin {TEXT, INTEGER, FLOAT, FOREIGN} /\ TEXT \notin {INTEGER, FLOAT, FOREIGN}
      /\ \A t \in {NULL, TEXT, INTEGER, FLOAT, FOREIGN} : t \in Int
  BY DEF NULL, TEXT, INTEGER, FLOAT, FOREIGN
<1>3. CASE v.type = NULL
  BY <1>2, <1>3 DEF WriteValue
<1>4. CASE v.type = TEXT
  <2>1. PICK x, h, t : x \in Int /\ x = v.val /\ h = <<TEXT, 4 * x>> /\ t = TextWords(x)
    BY <1>1
  <2>2. h \in Seq(Int)
    BY <1>2, <2>1
  <2>3. t \in Seq(Int)
    <3>1. PICK k \in Nat : 1..x = 1..k
      <4>1. x \in Nat \/ 1..x = 1..0
        BY <2>1
      <4> QED BY <4>1
    <3>2. t = [i \in 1..k |-> x]
      BY <2>1, <3>1 DEF TextWords
    <3> QED BY <2>1, <3>2
  <2>4. WriteValue(v) = h \o t
    BY <1>2, <1>4, <2>1 DEF WriteValue
  <2> QED BY <2>2, <2>3, <2>4, ConcatProperties
<1>5. CASE v.type \in {INTEGER, FLOAT, FOREIGN}
  <2>1. PICK h, t : h = <<v.type, 8>> /\ t = W64(v.val)
    OBVIOUS
  <2>2. h \in Seq(Int) /\ t \in Seq(Int)
    BY <1>1, <1>2, <2>1, WordsOfKey
  <2>3. WriteValue(v) = h \o t
    BY <1>2, <1>5, <2>1 DEF WriteValue
  <2> QED BY <2>2, <2>3, ConcatProperties
<1> QED BY <1>1, <1>3, <1>4, <1>5

\* Pieces of words, one after the other
LEMMA PiecesTyped ==
  ASSUME NEW n \in Nat, NEW pieces, pieces = [i \in 1..n |-> pieces[i]],
         \A i \in 1..n : pieces[i] \in Seq(Int)
  PROVE  FlattenSeq(pieces) \in Seq(Int)
<1>1. pieces \in Seq(Seq(Int))
  OBVIOUS
<1> QED BY <1>1, Flatten

LEMMA AnyValuesWritten ==
  ASSUME NEW vs \in Seq(Value)
  PROVE  WriteValues(vs) \in Seq(Int)
<1>1. PICK n \in Nat : n = Len(vs) /\ DOMAIN vs = 1..n
  BY LenProperties
<1>2. PICK m : m = [i \in 1..n |-> WriteValue(vs[i])]
  OBVIOUS
<1>3. \A i \in 1..n : m[i] \in Seq(Int)
  <2>1. \A i \in 1..n : vs[i] \in Value
    BY <1>1, ElementOfSeq
  <2> QED BY <1>2, <2>1, AnyValueWritten
<1>4. m = [i \in 1..n |-> m[i]]
  BY <1>2
<1>5. WriteValues(vs) = FlattenSeq(m)
  BY <1>1, <1>2 DEF WriteValues
<1> QED BY <1>3, <1>4, <1>5, PiecesTyped

LEMMA ResponseTyped ==
  ASSUME NEW r \in Responses
  PROVE  Response_packet(r) \in Seq(Int) /\ Response_packet(r) # <<>>
<1>1. OK \in Int
  BY DEF OK
<1>a. PICK ok : ok = <<OK>>
  OBVIOUS
<1>b. ok \in Seq(Int) /\ Len(ok) # 0 /\ ok[1] = OK
  BY <1>1, <1>a
<1>2. CASE r \in [kind : {"Error"}, code : Int]
  <2>1. r.kind = "Error" /\ r.code \in Int
    BY <1>2
  <2>2. Response_packet(r) = <<r.code>>
    BY <2>1 DEF Response_packet
  <2> QED BY <2>1, <2>2
<1>3. CASE r \in [kind : {"Insert"}, id : Nat, version : Nat]
  <2>1. r.kind = "Insert" /\ r.id \in Int /\ r.version \in Int
    BY <1>3
  <2>2. PICK x, y, w : x = W64(r.id) /\ y = W64(r.version) /\ w = ok \o x
    OBVIOUS
  <2>3. x \in Seq(Int) /\ y \in Seq(Int)
    BY <2>1, <2>2, WordsOfKey
  <2>4. IsPacket(w, OK) /\ Len(w) # 0
    BY <1>b, <2>2, <2>3, PacketOf, EmptySeq DEF IsPacket
  <2>5. IsPacket(w \o y, OK)
    BY <2>3, <2>4, PacketOf DEF IsPacket
  <2>6. Response_packet(r) = w \o y
    BY <1>a, <2>1, <2>2 DEF Response_packet
  <2> QED BY <2>5, <2>6 DEF IsPacket
<1>4. CASE r \in [kind : {"Update"}, version : Nat]
  <2>1. r.kind = "Update" /\ r.version \in Int
    BY <1>4
  <2>2. PICK x : x = W64(r.version)
    OBVIOUS
  <2>3. IsPacket(ok \o x, OK)
    BY <1>b, <2>1, <2>2, WordsOfKey, PacketOf
  <2>4. Response_packet(r) = ok \o x
    BY <1>a, <2>1, <2>2 DEF Response_packet
  <2> QED BY <2>3, <2>4 DEF IsPacket
<1>5. CASE r \in [kind : {"Get"}, version : Nat, values : Seq(Value)]
  <2>1. r.kind = "Get" /\ r.version \in Int /\ r.values \in Seq(Value)
    BY <1>5
  <2>2. PICK x, y, z, w, u : /\ x = W64(r.version) /\ y = <<Len(r.values)>>
                             /\ z = WriteValues(r.values) /\ w = ok \o x /\ u = w \o y
    OBVIOUS
  <2>3. x \in Seq(Int) /\ y \in Seq(Int) /\ z \in Seq(Int)
    BY <2>1, <2>2, WordsOfKey, AnyValuesWritten, LenProperties
  <2>4. IsPacket(w, OK) /\ Len(w) # 0
    BY <1>b, <2>2, <2>3, PacketOf, EmptySeq DEF IsPacket
  <2>5. IsPacket(u, OK) /\ Len(u) # 0
    <3>1. IsPacket(w \o y, OK)
      BY <2>3, <2>4, PacketOf DEF IsPacket
    <3> QED BY <2>2, <3>1, EmptySeq DEF IsPacket
  <2>6. IsPacket(u \o z, OK)
    BY <2>3, <2>5, PacketOf DEF IsPacket
  <2>7. Response_packet(r) = u \o z
    BY <1>a, <2>1, <2>2 DEF Response_packet
  <2> QED BY <2>6, <2>7 DEF IsPacket
<1>6. CASE r \in [kind : {"Query"}, ids : SomeIds]
  <2>1. PICK n, ids : n \in Nat /\ ids \in SUBSET (1..n) /\ r.ids = ids /\ r.kind = "Query"
    BY <1>6 DEF SomeIds
  <2>2. PICK c \in Nat : c = Cardinality(ids)
    BY <2>1, SmallerFinite
  <2>3. PICK h, m : h = <<OK, c>> /\ m = [i \in 1..c |-> W64(InOrder(ids)[i])]
    OBVIOUS
  <2>4. h \in Seq(Int) /\ Len(h) # 0 /\ h[1] = OK
    BY <1>1, <2>3
  <2>5. FlattenSeq(m) \in Seq(Int)
    <3>1. \A i \in 1..c : InOrder(ids)[i] \in Int
      <4>1. ASSUME NEW i \in 1..c
            PROVE  InOrder(ids)[i] \in Int
        <5>1. InOrder(ids)[i] \in ids
          BY <2>1, <2>2, InOrderOf
        <5>2. \A j \in ids : j \in Int
          BY <2>1
        <5> QED BY <5>1, <5>2
      <4> QED BY <4>1
    <3>2. \A i \in 1..c : m[i] \in Seq(Int)
      BY <2>3, <3>1, WordsOfKey
    <3>3. m = [i \in 1..c |-> m[i]]
      BY <2>3
    <3> QED BY <3>2, <3>3, PiecesTyped
  <2>6. IsPacket(h \o FlattenSeq(m), OK)
    BY <2>4, <2>5, PacketOf
  <2>7. Response_packet(r) = h \o FlattenSeq(m)
    BY <2>1, <2>2, <2>3 DEF Response_packet
  <2> QED BY <2>6, <2>7 DEF IsPacket
<1>7. CASE r \in [kind : {"Drop"}]
  <2>1. Response_packet(r) = ok
    BY <1>7, <1>a DEF Response_packet
  <2> QED BY <1>a, <1>b, <2>1
<1> QED BY <1>2, <1>3, <1>4, <1>5, <1>6, <1>7 DEF Responses

-----------------------------------------------------------------------------
(***************************************************************************)
(* The invariant.  While a connection is not torn, the words on their way  *)
(* to the thread are none, or begin with an EXIT, or are the packet of the *)
(* call that waits, with nothing on its way back; nothing comes back that  *)
(* no call waits for; and a thread that is lost has read a request with an *)
(* empty text, that of the call that waits.                                *)
(***************************************************************************)
Typed ==
  /\ toServer \in Seq(Int) /\ toClient \in Seq(Int) /\ exits \in Nat
  /\ link \in {"new", "up", "refused", "ended"} /\ thread \in {"serving", "endless"}
  /\ asked \in {NoRequest, Connecting} \cup Asks

NothingAsked == toServer = <<>> \/ (exits > 0 /\ IsPacket(toServer, 6))
JustAsked    == asked \in Asks /\ toServer = Request_packet(asked) /\ toClient = <<>>

Fresh    == link = "new" => toServer = <<>>
Outgoing == link = "up" /\ ~torn => NothingAsked \/ JustAsked
Quiet    == asked = NoRequest /\ ~torn => toClient = <<>>
Stuck    == thread = "endless" =>
              /\ link = "up"
              /\ torn \/ (asked \in Asks /\ HasEmptyText(asked) /\ toClient = <<>>)

ClientInv ==
  /\ Typed /\ Fresh /\ Outgoing /\ Quiet /\ Stuck
  /\ DataInv
  /\ RequestUnderstood /\ LostOnlyByExit /\ CallsReturn

LEMMA NotAsks == NoRequest \notin Asks /\ Connecting \notin Asks /\ NoRequest # Connecting
BY DEF NoRequest, Connecting, Asks

LEMMA DataStays ==
  ASSUME DataInv, UNCHANGED database
  PROVE  DataInv'
BY DEF DataInv, RowOK, Fits, database

\* A call, an EXIT included, sends words when none are on their way but EXITs.
LEMMA SendStep ==
  ASSUME ClientInv, asked \notin Asks, NEW packet, NEW c, IsPacket(packet, c), SendWorks(packet)
  PROVE  /\ toServer' \in Seq(Int)
         /\ link \in {"up", "refused", "ended"}
         /\ link = "up" => toServer' # <<>>
         /\ link = "up" /\ ~torn =>
              \/ toServer = <<>> /\ toServer' = packet
              \/ exits > 0 /\ IsPacket(toServer', 6)
<1>1. packet \in Seq(Int) /\ toServer \in Seq(Int) /\ packet # <<>>
  BY DEF IsPacket, ClientInv, Typed
<1>2. CASE link = "up" /\ toServer' = toServer \o packet
  <2>1. toServer' \in Seq(Int)
    BY <1>1, <1>2, ConcatProperties
  <2>2. CASE toServer = <<>>
    <3>1. toServer' = packet
      BY <1>1, <1>2, <2>2, ConcatEmptySeq
    <3> QED BY <1>1, <1>2, <2>1, <2>2, <3>1
  <2>3. CASE toServer # <<>>
    <3>1. Len(toServer) # 0
      BY <1>1, <2>3, EmptySeq
    <3>2. PICK first : first = toServer[1]
      OBVIOUS
    <3>3. IsPacket(toServer \o packet, first)
      BY <1>1, <3>1, <3>2, PacketOf
    <3>4. ~torn => exits > 0 /\ IsPacket(toServer, 6)
      BY <1>2, <2>3 DEF ClientInv, Outgoing, NothingAsked, JustAsked
    <3>5. ~torn => exits > 0 /\ first = 6
      BY <3>2, <3>4 DEF IsPacket
    <3> QED BY <1>2, <2>1, <3>3, <3>5 DEF IsPacket
  <2> QED BY <2>2, <2>3
<1>3. CASE link \in {"refused", "ended"} /\ toServer' = toServer
  BY <1>1, <1>3
<1> QED BY <1>2, <1>3 DEF SendWorks

\* close, wherever it is called
LEMMA CloseStep ==
  ASSUME ClientInv, asked \notin Asks, NEW result, close(result)
  PROVE  /\ toServer' \in Seq(Int) /\ exits' \in Nat /\ exits' >= exits
         /\ link = "new" => toServer' = <<>>
         /\ link = "up" /\ ~torn => NothingAsked'
<1>1. exits \in Nat /\ toServer \in Seq(Int)
  BY DEF ClientInv, Typed
<1>2. CASE SendWorks(Request_packet(ExitRequest)) /\ exits' = exits + 1
  <2>1. PICK packet : packet = Request_packet(ExitRequest)
    OBVIOUS
  <2>2. IsPacket(packet, 6)
    BY <2>1, ExitRead
  <2>3. /\ toServer' \in Seq(Int) /\ link # "new"
        /\ link = "up" /\ ~torn =>
             \/ toServer = <<>> /\ toServer' = packet
             \/ exits > 0 /\ IsPacket(toServer', 6)
    BY <1>2, <2>1, <2>2, SendStep
  <2>4. exits' > 0 /\ exits' \in Nat /\ exits' >= exits
    BY <1>1, <1>2
  <2>5. link = "up" /\ ~torn => IsPacket(toServer', 6)
    BY <2>2, <2>3
  <2> QED BY <2>3, <2>4, <2>5 DEF NothingAsked, IsPacket
<1>3. CASE SendRaises /\ exits' = exits
  BY <1>1, <1>3 DEF SendRaises, ClientInv, Fresh
<1> QED BY <1>2, <1>3 DEF close

\* Before a call there is no answer yet.
LEMMA BeginFacts ==
  ASSUME Begin
  PROVE  asked = NoRequest /\ ~Answered' /\ UNCHANGED database
BY DEF Begin, NoAnswer, Answered

\* A thread that is lost is lost while a call waits, or the connection is torn.
LEMMA NotStuck ==
  ASSUME ClientInv, asked = NoRequest
  PROVE  thread = "serving" \/ (thread = "endless" /\ torn)
BY NotAsks DEF ClientInv, Typed, Stuck

LEMMA ConnectKeeps ==
  ASSUME ClientInv, Connect
  PROVE  ClientInv'
<1>1. /\ asked = NoRequest /\ ~Answered' /\ UNCHANGED database /\ link = "new"
      /\ torn' = torn /\ thread' = thread
  BY BeginFacts DEF Connect
<1>2. toServer = <<>> /\ Typed /\ thread # "endless"
  BY <1>1 DEF ClientInv, Fresh, Stuck
<1>3. RequestUnderstood' /\ DataInv' /\ Stuck'
  BY <1>1, <1>2, DataStays DEF RequestUnderstood, ClientInv, Stuck
<1>4. ASSUME NEW w \in {<<OK>>, <<SERVER_BUSY>>}, toClient' = w, link' \in {"up", "refused"},
             asked' = Connecting, exits' = exits, toServer' = toServer
      PROVE  ClientInv'
  <2>1. w \in Seq(Int) /\ w # <<>>
    <3>1. OK \in Int /\ SERVER_BUSY \in Int
      BY DEF OK, SERVER_BUSY
    <3>2. PICK x \in Int : w = <<x>>
      BY <1>4, <3>1
    <3> QED BY <3>2
  <2>2. Typed'
    BY <1>1, <1>2, <1>4, <2>1 DEF Typed
  <2>3. CallsReturn'
    BY <1>4, <2>1 DEF CallsReturn
  <2> QED BY <1>2, <1>3, <1>4, <2>2, <2>3, NotAsks
          DEF ClientInv, Fresh, Outgoing, Quiet, NothingAsked, LostOnlyByExit
<1>5. ASSUME close(Whether(FALSE)), link' = link, toClient' = toClient, asked' = asked
      PROVE  ClientInv'
  <2>1. toServer' \in Seq(Int) /\ exits' \in Nat /\ toServer' = <<>>
    BY <1>1, <1>5, CloseStep, NotAsks
  <2>2. Typed'
    BY <1>1, <1>2, <1>5, <2>1 DEF Typed
  <2> QED BY <1>1, <1>3, <1>5, <2>1, <2>2
          DEF ClientInv, Fresh, Outgoing, Quiet, LostOnlyByExit, CallsReturn
<1> QED BY <1>4, <1>5 DEF Connect

LEMMA CloseKeeps ==
  ASSUME ClientInv, Close \/ ConnectAgain
  PROVE  ClientInv'
<1>1. /\ asked = NoRequest /\ ~Answered' /\ UNCHANGED database
      /\ link' = link /\ toClient' = toClient /\ asked' = asked /\ torn' = torn /\ thread' = thread
      /\ \E result : close(result)
  BY BeginFacts DEF Close, ConnectAgain
<1>2. /\ toServer' \in Seq(Int) /\ exits' \in Nat /\ exits' >= exits
      /\ link = "new" => toServer' = <<>>
      /\ link = "up" /\ ~torn => NothingAsked'
  BY <1>1, CloseStep, NotAsks
<1>3. RequestUnderstood' /\ DataInv' /\ CallsReturn'
  BY <1>1, DataStays DEF RequestUnderstood, CallsReturn, ClientInv
<1>4. Typed' /\ Fresh' /\ Outgoing'
  BY <1>1, <1>2 DEF ClientInv, Typed, Fresh, Outgoing
<1>5. Quiet' /\ Stuck'
  BY <1>1 DEF ClientInv, Quiet, Stuck
<1>6. LostOnlyByExit'
  <2>1. exits \in Nat
    BY DEF ClientInv, Typed
  <2> QED BY <1>1, <1>2, <2>1 DEF ClientInv, LostOnlyByExit
<1> QED BY <1>3, <1>4, <1>5, <1>6 DEF ClientInv

LEMMA CallKeeps ==
  ASSUME ClientInv, Call
  PROVE  ClientInv'
<1>1. /\ asked = NoRequest /\ ~Answered' /\ UNCHANGED database
      /\ link' = link /\ toClient' = toClient /\ torn' = torn /\ thread' = thread /\ exits' = exits
  BY BeginFacts DEF Call
<1>2. RequestUnderstood' /\ DataInv'
  BY <1>1, DataStays DEF RequestUnderstood, ClientInv
<1>3. LostOnlyByExit'
  BY <1>1 DEF ClientInv, LostOnlyByExit
<1>4. CASE asked' = asked /\ toServer' = toServer
  <2>1. Outgoing'
    BY <1>1, <1>4, NotAsks DEF ClientInv, Outgoing, NothingAsked, JustAsked, IsPacket
  <2>2. CallsReturn'
    BY <1>1, <1>4 DEF CallsReturn
  <2> QED BY <1>1, <1>2, <1>3, <1>4, <2>1, <2>2 DEF ClientInv, Typed, Fresh, Quiet, Stuck
<1>5. ASSUME NEW c \in Calls, Accepted(c), SendWorks(Request_packet(RequestOf(c))),
             asked' = RequestOf(c)
      PROVE  ClientInv'
  <2>1. PICK req, packet : req = RequestOf(c) /\ packet = Request_packet(req)
    OBVIOUS
  <2>2. req \in Asks
    BY <1>5, <2>1, CallsAsk
  <2>3. PICK k : IsPacket(packet, k)
    BY <2>1, <2>2, RequestRead
  <2>4. /\ toServer' \in Seq(Int)
        /\ link \in {"up", "refused", "ended"}
        /\ link = "up" => toServer' # <<>>
        /\ link = "up" /\ ~torn =>
             \/ toServer = <<>> /\ toServer' = packet
             \/ exits > 0 /\ IsPacket(toServer', 6)
    BY <1>1, <1>5, <2>1, <2>3, NotAsks, SendStep
  <2>5. ~torn => toClient = <<>>
    BY <1>1 DEF ClientInv, Quiet
  <2>6. Typed' /\ Fresh' /\ Quiet'
    BY <1>1, <1>5, <2>1, <2>2, <2>4, NotAsks DEF ClientInv, Typed, Fresh, Quiet
  <2>7. Outgoing'
    BY <1>1, <1>5, <2>1, <2>2, <2>4, <2>5 DEF Outgoing, NothingAsked, JustAsked
  <2>8. Stuck' /\ CallsReturn'
    <3>1. thread = "serving" \/ (thread = "endless" /\ torn)
      BY <1>1, NotStuck
    <3>2. thread = "endless" => link = "up"
      BY DEF ClientInv, Stuck
    <3> QED BY <1>1, <2>4, <3>1, <3>2 DEF Stuck, CallsReturn
  <2> QED BY <1>2, <1>3, <2>6, <2>7, <2>8 DEF ClientInv
<1> QED BY <1>4, <1>5 DEF Call, SendRaises

\* What a read takes is there; and all of it, on a connection that is not torn then.
LEMMA TakenFacts ==
  ASSUME NEW stream \in Seq(Int), NEW size \in Nat, NEW n \in Taken(stream, size)
  PROVE  /\ n \in 1..Len(stream) /\ n <= size
         /\ After(stream, n) \in Seq(Int)
         /\ ~(n < Len(stream)) => n = Len(stream) /\ After(stream, n) = <<>>
<1>1. PICK k \in Nat : k = Len(stream) /\ DOMAIN stream = 1..k
  BY LenProperties
<1>2. n \in Nat /\ n <= size /\ n <= k /\ n > 0
  BY <1>1, ClientAssumption DEF Taken
<1>3. After(stream, n) = SubSeq(stream, n + 1, k)
  BY <1>1 DEF After
<1>4. SubSeq(stream, n + 1, k) \in Seq(Int)
  <2>1. \A i \in (n + 1)..k : stream[i] \in Int
    <3>1. \A i \in 1..k : stream[i] \in Int
      BY <1>1, ElementOfSeq
    <3> QED BY <1>2, <3>1
  <2>2. n + 1 \in Int
    BY <1>2
  <2> QED BY <2>1, <2>2, SubSeqProperties
<1>5. ASSUME ~(n < k)
      PROVE  n = k /\ SubSeq(stream, n + 1, k) = <<>>
  <2>1. n = k /\ n + 1 > k /\ n + 1 \in Int
    BY <1>2, <1>5
  <2>2. Len(SubSeq(stream, n + 1, k)) = 0
    BY <1>4, <2>1, SubSeqProperties
  <2> QED BY <1>4, <2>1, <2>2, EmptySeq
<1> QED BY <1>1, <1>2, <1>3, <1>4, <1>5

LEMMA ReceiveKeeps ==
  ASSUME ClientInv, Receive
  PROVE  ClientInv'
<1>1. /\ asked # NoRequest /\ asked' = NoRequest
      /\ UNCHANGED database /\ link' = link /\ answer' = answer /\ thread' = thread
  BY DEF Receive
<1>2. PICK n \in Taken(toClient, RecvWords) :
        /\ toClient' = After(toClient, n)
        /\ torn' = (torn \/ n < Len(toClient))
        /\ IF asked = Connecting THEN connect_result(SubSeq(toClient, 1, n))
           ELSE UNCHANGED <<toServer, exits>>
  BY DEF Receive
<1>3. /\ n \in 1..Len(toClient) /\ toClient' \in Seq(Int)
      /\ ~torn' => ~torn /\ toClient' = <<>>
  BY <1>2, TakenFacts, WordsAssumption DEF ClientInv, Typed
<1>4. toClient # <<>>
  <2>1. Len(<<>>) = 0
    OBVIOUS
  <2> QED BY <1>3, <2>1
<1>5. /\ toServer' \in Seq(Int) /\ exits' \in Nat /\ exits' >= exits
      /\ link = "new" => toServer' = <<>>
      /\ link = "up" /\ ~torn => NothingAsked'
  <2>1. CASE UNCHANGED <<toServer, exits>>
    BY <1>4, <2>1 DEF ClientInv, Typed, Fresh, Outgoing, NothingAsked, JustAsked, IsPacket
  <2>2. CASE asked = Connecting /\ close(Whether(FALSE))
    BY <2>2, CloseStep, NotAsks
  <2> QED BY <1>2, <2>1, <2>2 DEF connect_result
<1>6. Typed' /\ Fresh' /\ Outgoing' /\ Quiet'
  BY <1>1, <1>3, <1>5 DEF ClientInv, Typed, Fresh, Outgoing, Quiet
<1>7. Stuck'
  BY <1>1, <1>2, <1>4 DEF ClientInv, Stuck
<1>8. DataInv' /\ RequestUnderstood' /\ CallsReturn'
  BY <1>1, DataStays DEF ClientInv, RequestUnderstood, CallsReturn
<1>9. LostOnlyByExit'
  <2>1. exits \in Nat
    BY DEF ClientInv, Typed
  <2> QED BY <1>1, <1>3, <1>5, <2>1 DEF ClientInv, LostOnlyByExit
<1> QED BY <1>6, <1>7, <1>8, <1>9 DEF ClientInv

LEMMA ReceiveNothingKeeps ==
  ASSUME ClientInv, ReceiveNothing
  PROVE  ClientInv'
<1>1. /\ asked' = NoRequest /\ UNCHANGED <<net, exits>> /\ UNCHANGED database
      /\ link \in {"refused", "ended"} /\ toClient = <<>>
  BY DEF ReceiveNothing
<1>2. DataInv' /\ RequestUnderstood' /\ CallsReturn' /\ LostOnlyByExit'
  BY <1>1, DataStays DEF ClientInv, RequestUnderstood, CallsReturn, LostOnlyByExit, net
<1> QED BY <1>1, <1>2 DEF ClientInv, Typed, Fresh, Outgoing, Quiet, Stuck, net

-----------------------------------------------------------------------------
\* The thread

\* What was read, as it lies in the buffer
LEMMA BufferFacts ==
  ASSUME ClientInv, NEW n \in 1..Len(toServer), n <= PacketWords, NEW junk \in Junk,
         NEW b, b = Buffer(n, junk)
  PROVE  /\ b \in Seq(Int) /\ Len(b) > 7
         /\ n = Len(toServer) => Lies(b, 1, toServer)
<1>1. PICK k \in Nat : k = Len(toServer) /\ DOMAIN toServer = 1..k
  BY LenProperties DEF ClientInv, Typed
<1>2. \A i \in 1..k : toServer[i] \in Int
  BY <1>1, ElementOfSeq DEF ClientInv, Typed
<1>3. n \in Nat /\ n <= k /\ junk \in Int /\ PacketWords \in Nat /\ PacketWords > 7
  BY <1>1, ClientAssumption, WordsAssumption
<1>4. b = [i \in 1..PacketWords |-> IF i <= n THEN toServer[i] ELSE junk]
  BY DEF Buffer
<1>5. \A i \in 1..PacketWords : b[i] \in Int
  <2>1. ASSUME NEW i \in 1..PacketWords
        PROVE  b[i] \in Int
    <3>1. i <= n => i \in 1..k
      BY <1>3
    <3> QED BY <1>2, <1>3, <1>4, <3>1
  <2> QED BY <2>1
<1>6. b \in Seq(Int) /\ Len(b) = PacketWords
  BY <1>3, <1>4, <1>5
<1>7. ASSUME n = k
      PROVE  Lies(b, 1, toServer)
  <2>1. \A i \in 1..k : b[1 + i - 1] = toServer[i]
    <3>1. ASSUME NEW i \in 1..k
          PROVE  b[1 + i - 1] = toServer[i]
      <4>1. i \in 1..PacketWords /\ i <= n /\ 1 + i - 1 = i
        BY <1>3, <1>7
      <4> QED BY <1>4, <4>1
    <3> QED BY <3>1
  <2>2. 1 + k - 1 <= Len(b)
    BY <1>3, <1>6, <1>7
  <2> QED BY <1>1, <2>1, <2>2 DEF Lies
<1> QED BY <1>1, <1>3, <1>6, <1>7

\* All that was sent, in the buffer, is read as what was meant.
LEMMA UntornRead ==
  ASSUME ClientInv, link = "up", ~torn, toServer # <<>>,
         NEW b \in Seq(Int), Lies(b, 1, toServer), NEW read, read = receive(b)
  PROVE  \/ exits > 0 /\ read.status = "read" /\ read.request.command = "Exit"
         \/ asked \in Asks /\ toClient = <<>> /\ read = Understanding(asked)
<1>1. CASE exits > 0 /\ IsPacket(toServer, 6)
  <2>1. PICK k \in Nat : k = Len(toServer) /\ k # 0
    BY EmptySeq, LenProperties DEF ClientInv, Typed
  <2>2. 1 \in 1..k /\ 1 + 1 - 1 = 1
    BY <2>1
  <2>3. b[1] = 6
    BY <1>1, <2>1, <2>2 DEF Lies, IsPacket
  <2> QED BY <1>1, <2>3, ExitRead
<1>2. CASE JustAsked
  BY <1>2, RequestRead DEF JustAsked
<1> QED BY <1>1, <1>2 DEF ClientInv, Outgoing, NothingAsked

\* What all steps of the thread do: they take words, all of them if the connection is
\* not torn then.
Takes ==
  /\ link = "up" /\ thread = "serving"
  /\ toServer' \in Seq(Int)
  /\ ~torn' => ~torn /\ toServer' = <<>>
  /\ UNCHANGED <<asked, exits>>

LEMMA AnswerStays ==
  ASSUME ClientInv, Takes, UNCHANGED answer
  PROVE  RequestUnderstood'
BY DEF ClientInv, Takes, RequestUnderstood, Answered

LEMMA EndKeeps ==
  ASSUME ClientInv, Takes, NEW packet \in Seq(Int), End(packet),
         ~torn' => exits > 0 /\ packet = <<>>
  PROVE  ClientInv'
<1>1. /\ link' = "ended" /\ UNCHANGED database /\ answer' = answer /\ thread' = thread
      /\ toClient' = toClient \o packet \/ toClient' = <<>>
  BY DEF End
<1>2. toClient \in Seq(Int)
  BY DEF ClientInv, Typed
<1>3. Typed'
  <2>1. toClient' \in Seq(Int)
    <3>1. toClient \o packet \in Seq(Int) /\ <<>> \in Seq(Int)
      BY <1>2, ConcatProperties
    <3> QED BY <1>1, <3>1
  <2> QED BY <1>1, <2>1 DEF ClientInv, Takes, Typed
<1>4. Quiet'
  <2>1. ASSUME asked = NoRequest, ~torn'
        PROVE  toClient' = <<>>
    <3>1. toClient = <<>> /\ packet = <<>>
      BY <2>1 DEF Takes, ClientInv, Quiet
    <3>2. toClient \o packet = <<>>
      BY <3>1, ConcatEmptySeq
    <3> QED BY <1>1, <3>2
  <2> QED BY <2>1 DEF Takes, Quiet
<1>5. Fresh' /\ Outgoing' /\ Stuck' /\ CallsReturn'
  BY <1>1 DEF Takes, Fresh, Outgoing, Stuck, CallsReturn
<1>6. LostOnlyByExit'
  BY DEF Takes, LostOnlyByExit
<1>7. DataInv' /\ RequestUnderstood'
  BY <1>1, DataStays, AnswerStays DEF ClientInv
<1> QED BY <1>3, <1>4, <1>5, <1>6, <1>7 DEF ClientInv

LEMMA EndlessKeeps ==
  ASSUME ClientInv, Takes, thread' = "endless", UNCHANGED <<database, link, toClient, answer>>,
         ~torn' => asked \in Asks /\ HasEmptyText(asked) /\ toClient = <<>>
  PROVE  ClientInv'
<1>1. Typed' /\ Quiet'
  BY DEF ClientInv, Takes, Typed, Quiet
<1>2. Fresh' /\ Outgoing' /\ Stuck' /\ CallsReturn'
  BY DEF Takes, Fresh, Outgoing, NothingAsked, Stuck, CallsReturn
<1>3. LostOnlyByExit'
  BY DEF Takes, LostOnlyByExit
<1>4. DataInv' /\ RequestUnderstood'
  BY DataStays, AnswerStays DEF ClientInv
<1> QED BY <1>1, <1>2, <1>3, <1>4 DEF ClientInv

LEMMA AnswerKeeps ==
  ASSUME ClientInv, Takes, NEW req, Handled(req),
         toClient' = toClient \o Response_packet(call'.response),
         answer' = call', UNCHANGED <<link, thread>>,
         ~torn' => asked \in Asks /\ req = asked
  PROVE  ClientInv'
<1>1. PICK packet : packet = Response_packet(call'.response)
  OBVIOUS
<1>2. packet \in Seq(Int) /\ packet # <<>> /\ toClient \in Seq(Int)
  BY <1>1, ResponseTyped DEF Handled, ClientInv, Typed
<1>3. toClient' \in Seq(Int) /\ toClient' # <<>>
  <2>1. toClient' = toClient \o packet
    BY <1>1
  <2>2. CASE toClient = <<>>
    BY <1>2, <2>1, <2>2, ConcatEmptySeq
  <2>3. CASE toClient # <<>>
    <3>1. IsPacket(toClient \o packet, toClient[1])
      BY <1>2, <2>3, EmptySeq, PacketOf
    <3> QED BY <2>1, <3>1 DEF IsPacket
  <2> QED BY <2>2, <2>3
<1>4. Typed'
  BY <1>3 DEF ClientInv, Takes, Typed
<1>5. Quiet'
  BY NotAsks DEF Takes, Quiet
<1>6. Fresh' /\ Outgoing' /\ Stuck' /\ CallsReturn'
  BY <1>3 DEF Takes, Fresh, Outgoing, NothingAsked, Stuck, CallsReturn
<1>7. LostOnlyByExit'
  BY DEF Takes, LostOnlyByExit
<1>8. RequestUnderstood'
  <2>1. answer'.request = req
    BY DEF Handled
  <2> QED BY <2>1 DEF Takes, RequestUnderstood, Answered
<1> QED BY <1>4, <1>5, <1>6, <1>7, <1>8 DEF ClientInv, Handled

\* What the thread does with what it has read
Served(read) ==
  \/ read.status = "bad" /\ End(<<BAD_REQUEST>>)
  \/ /\ read.status = "endless" /\ thread' = "endless"
     /\ UNCHANGED <<database, link, toClient, answer>>
  \/ read.status = "read" /\ read.request.command = "Exit" /\ End(<<>>)
  \/ /\ read.status = "read" /\ read.request.command # "Exit"
     /\ handle_request(read.request)
     /\ toClient' = toClient \o Response_packet(call'.response)
     /\ answer' = call' /\ UNCHANGED <<link, thread>>

\* What it has read is what the call that waits asks, or the EXIT before that.
ReadWell(read) ==
  /\ ~torn' => \/ exits > 0 /\ read.status = "read" /\ read.request.command = "Exit"
               \/ /\ asked \in Asks /\ toClient = <<>>
                  /\ \/ read.status = "endless" /\ HasEmptyText(asked)
                     \/ read.status = "read" /\ read.request = asked /\ asked.command # "Exit"
  /\ read.status = "read" /\ read.request.command \in {"Insert", "Update"} =>
       read.request.values \in Seq(Value)

LEMMA ServeSteps ==
  ASSUME ClientInv, Serve
  PROVE  Takes /\ toServer # <<>> /\ \E read : Served(read) /\ ReadWell(read)
<1>1. PICK n, junk, b, read :
        /\ n \in Taken(toServer, PacketWords) /\ junk \in Junk
        /\ b = Buffer(n, junk) /\ read = receive(b)
        /\ toServer' = After(toServer, n)
        /\ torn' = (torn \/ n < Len(toServer))
        /\ Served(read)
  BY DEF Serve, Served
<1>2. link = "up" /\ thread = "serving" /\ UNCHANGED <<asked, exits>>
  BY DEF Serve
<1>3. /\ n \in 1..Len(toServer) /\ n <= PacketWords /\ After(toServer, n) \in Seq(Int)
      /\ ~(n < Len(toServer)) => n = Len(toServer) /\ After(toServer, n) = <<>>
  BY <1>1, TakenFacts, WordsAssumption DEF ClientInv, Typed
<1>4. Takes
  BY <1>1, <1>2, <1>3 DEF Takes
<1>5. b \in Seq(Int) /\ Len(b) > 7 /\ (n = Len(toServer) => Lies(b, 1, toServer))
  BY <1>1, <1>3, BufferFacts
<1>6. toServer # <<>>
  <2>1. Len(<<>>) = 0
    OBVIOUS
  <2> QED BY <1>3, <2>1
<1>7. ASSUME ~torn'
      PROVE  \/ exits > 0 /\ read.status = "read" /\ read.request.command = "Exit"
             \/ asked \in Asks /\ toClient = <<>> /\ read = Understanding(asked)
  <2>1. ~torn /\ Lies(b, 1, toServer)
    BY <1>1, <1>3, <1>5, <1>7
  <2> QED BY <1>1, <1>2, <1>5, <1>6, <2>1, UntornRead
<1>8. asked \in Asks /\ read = Understanding(asked) =>
        \/ read.status = "endless" /\ HasEmptyText(asked)
        \/ read.status = "read" /\ read.request = asked /\ asked.command # "Exit"
  <2>1. ASSUME NEW req \in Asks
        PROVE  req.command # "Exit"
    BY DEF Asks
  <2>2. CASE HasEmptyText(asked)
    <3>1. Understanding(asked).status = "endless"
      BY <2>2 DEF Understanding, Endless
    <3> QED BY <2>2, <3>1
  <2>3. CASE ~HasEmptyText(asked)
    <3>1. PICK u : u = [status |-> "read", request |-> asked]
      OBVIOUS
    <3>2. u.status = "read" /\ u.request = asked /\ Understanding(asked) = u
      BY <2>3, <3>1 DEF Understanding
    <3> QED BY <2>1, <3>2
  <2> QED BY <2>2, <2>3
<1>9. read.status = "read" /\ read.request.command \in {"Insert", "Update"} =>
        read.request.values \in Seq(Value)
  BY <1>1, <1>5, RequestTyped
<1>10. ReadWell(read)
  BY <1>7, <1>8, <1>9 DEF ReadWell
<1> QED BY <1>1, <1>4, <1>6, <1>10

LEMMA ServeKeeps ==
  ASSUME ClientInv, Serve
  PROVE  ClientInv'
<1>1. PICK read : Takes /\ Served(read) /\ ReadWell(read)
  BY ServeSteps
<1>2. CASE read.status = "bad" /\ End(<<BAD_REQUEST>>)
  <2>1. <<BAD_REQUEST>> \in Seq(Int)
    BY DEF BAD_REQUEST
  <2>2. torn'
    BY <1>1, <1>2 DEF ReadWell
  <2> QED BY <1>1, <1>2, <2>1, <2>2, EndKeeps
<1>3. CASE /\ read.status = "endless" /\ thread' = "endless"
           /\ UNCHANGED <<database, link, toClient, answer>>
  <2>1. ~torn' => asked \in Asks /\ HasEmptyText(asked) /\ toClient = <<>>
    BY <1>1, <1>3 DEF ReadWell
  <2> QED BY <1>1, <1>3, <2>1, EndlessKeeps
<1>4. CASE read.status = "read" /\ read.request.command = "Exit" /\ End(<<>>)
  <2>1. ~torn' => exits > 0
    BY <1>1, <1>4 DEF ReadWell
  <2>2. <<>> \in Seq(Int)
    OBVIOUS
  <2> QED BY <1>1, <1>4, <2>1, <2>2, EndKeeps
<1>5. CASE /\ read.status = "read" /\ read.request.command # "Exit"
           /\ handle_request(read.request)
           /\ toClient' = toClient \o Response_packet(call'.response)
           /\ answer' = call' /\ UNCHANGED <<link, thread>>
  <2>1. PICK req : req = read.request
    OBVIOUS
  <2>2. req.command \in {"Insert", "Update"} => req.values \in Seq(Value)
    BY <1>1, <1>5, <2>1 DEF ReadWell
  <2>3. Handled(req)
    BY <1>5, <2>1, <2>2, RequestHandled DEF ClientInv
  <2>4. ~torn' => asked \in Asks /\ req = asked
    BY <1>1, <1>5, <2>1 DEF ReadWell
  <2> QED BY <1>1, <1>5, <2>3, <2>4, AnswerKeeps
<1> QED BY <1>1, <1>2, <1>3, <1>4, <1>5 DEF Served

LEMMA OthersKeep ==
  ASSUME ClientInv, Others
  PROVE  ClientInv'
<1>1. /\ UNCHANGED <<net, asked, answer, exits>>
      /\ \E req \in Requests : handle_request(req)
  BY DEF Others, Next
<1>2. PICK req \in Requests : handle_request(req)
  BY <1>1
<1>3. req.command \in {"Insert", "Update"} => req.values \in Seq(Value)
  <2>1. Seq(Writable) \subseteq Seq(Value)
    BY DEF Writable
  <2> QED BY <2>1, ClientAssumption
<1>4. DataInv'
  BY <1>2, <1>3, RequestHandled DEF ClientInv, Handled
<1>5. RequestUnderstood' /\ LostOnlyByExit' /\ CallsReturn'
  BY <1>1 DEF ClientInv, RequestUnderstood, Answered, LostOnlyByExit, CallsReturn, net
<1>6. Typed' /\ Fresh' /\ Quiet' /\ Stuck'
  BY <1>1 DEF ClientInv, Typed, Fresh, Quiet, Stuck, net
<1>7. Outgoing'
  BY <1>1 DEF ClientInv, Outgoing, NothingAsked, JustAsked, net
<1> QED BY <1>4, <1>5, <1>6, <1>7 DEF ClientInv

LEMMA InitKeeps ==
  ASSUME ClientInit
  PROVE  ClientInv
<1>1. PICK rows : rows = Stored
  OBVIOUS
<1>2. rows \in [TableIds -> Seq(Seq(Writable))]
      /\ \A t \in TableIds : \A o \in DOMAIN rows[t] : Fits(t, rows[t][o])
  BY <1>1, ClientAssumption
<1>3. /\ content = [t \in TableIds |->
           [o \in DOMAIN rows[t] |-> [version |-> 1, row_values |-> rows[t][o]]]]
      /\ row_count = [t \in TableIds |-> Len(rows[t])]
  BY <1>1 DEF ClientInit
<1>4. ASSUME NEW t \in TableIds
      PROVE  /\ row_count[t] \in Nat /\ DOMAIN content[t] = 1..row_count[t]
             /\ \A o \in DOMAIN content[t] : RowOK(t, content[t][o])
  <2>1. rows[t] \in Seq(Seq(Writable))
    BY <1>2
  <2>2. Len(rows[t]) \in Nat /\ DOMAIN rows[t] = 1..Len(rows[t])
    BY <2>1, LenProperties
  <2>3. ASSUME NEW o \in DOMAIN rows[t]
        PROVE  RowOK(t, content[t][o])
    <3>1. content[t][o] = [version |-> 1, row_values |-> rows[t][o]]
      BY <1>3, <2>3
    <3>2. content[t][o].version = 1 /\ content[t][o].row_values = rows[t][o]
      BY <3>1
    <3> QED BY <1>2, <3>2 DEF RowOK
  <2>4. DOMAIN content[t] = DOMAIN rows[t] /\ row_count[t] = Len(rows[t])
    BY <1>3
  <2> QED BY <2>2, <2>3, <2>4
<1>5. DataInv
  <2>1. content = [t \in TableIds |-> content[t]] /\ row_count = [t \in TableIds |-> row_count[t]]
    BY <1>3
  <2> QED BY <1>4, <2>1 DEF DataInv
<1>6. Typed
  BY DEF ClientInit, Typed
<1>7. Fresh /\ Outgoing /\ Quiet /\ Stuck /\ LostOnlyByExit /\ CallsReturn /\ RequestUnderstood
  BY DEF ClientInit, Fresh, Outgoing, Quiet, Stuck, LostOnlyByExit, CallsReturn,
         RequestUnderstood
<1> QED BY <1>5, <1>6, <1>7 DEF ClientInv

LEMMA Unchanged ==
  ASSUME ClientInv, UNCHANGED clientVars
  PROVE  ClientInv'
<1>1. DataInv'
  BY DataStays DEF ClientInv, clientVars, database
<1>2. RequestUnderstood' /\ LostOnlyByExit' /\ CallsReturn'
  BY DEF ClientInv, clientVars, RequestUnderstood, Answered, LostOnlyByExit, CallsReturn
<1>3. Typed' /\ Fresh' /\ Quiet' /\ Stuck'
  BY DEF ClientInv, clientVars, Typed, Fresh, Quiet, Stuck
<1>4. Outgoing'
  BY DEF ClientInv, clientVars, Outgoing, NothingAsked, JustAsked
<1> QED BY <1>1, <1>2, <1>3, <1>4 DEF ClientInv

\* The invariant holds, whatever is stored at first, whatever the program and the other
\* clients do, and wherever the network cuts a packet.
THEOREM ClientInvariance == ClientSpec => []ClientInv
<1>1. ClientInit => ClientInv
  BY InitKeeps
<1>2. ClientInv /\ [ClientNext]_clientVars => ClientInv'
  BY ConnectKeeps, CloseKeeps, CallKeeps, ReceiveKeeps, ReceiveNothingKeeps, ServeKeeps,
     OthersKeep, Unchanged DEF ClientNext
<1> QED BY <1>1, <1>2, PTL DEF ClientSpec

\* The server handles the request that the method meant.
THEOREM RequestIsUnderstood == ClientSpec => []RequestUnderstood
<1>1. ClientInv => RequestUnderstood
  BY DEF ClientInv
<1> QED BY <1>1, ClientInvariance, PTL

\* A connection of a program that sends no EXIT is not closed, unless it is torn.
THEOREM LostByExit == ClientSpec => []LostOnlyByExit
<1>1. ClientInv => LostOnlyByExit
  BY DEF ClientInv
<1> QED BY <1>1, ClientInvariance, PTL

\* The program and the thread never wait for each other: only a thread that is lost over
\* an empty string lets a call wait for ever, on a connection that is not torn.
THEOREM NoDeadlock == ClientSpec => []CallsReturn
<1>1. ClientInv => CallsReturn
  BY DEF ClientInv
<1> QED BY <1>1, ClientInvariance, PTL

-----------------------------------------------------------------------------
(***************************************************************************)
(* What was stored can be written again, while no connection is torn: the  *)
(* values of a row are those of a request.                                 *)
(***************************************************************************)
WritableData ==
  \A t \in TableIds : \A o \in DOMAIN content[t] : content[t][o].row_values \in Seq(Writable)

\* The rows after a request are rows from before it, or have its values.
StoresOnly(req) ==
  \A t \in TableIds : \A o \in DOMAIN content'[t] :
    \/ o \in DOMAIN content[t] /\ content'[t][o].row_values = content[t][o].row_values
    \/ req.command \in {"Insert", "Update"} /\ content'[t][o].row_values = req.values

LEMMA NothingStored ==
  ASSUME NEW req, UNCHANGED content
  PROVE  StoresOnly(req)
BY DEF StoresOnly

\* A row in its place, new or not
Stores(t, id, row, table) ==
  /\ content' = [content EXCEPT ![t] = table]
  /\ DOMAIN table = DOMAIN content[t] \cup {id}
  /\ \A o \in DOMAIN table : table[o] = IF o = id THEN row ELSE content[t][o]

LEMMA RowIsStored ==
  ASSUME DataInv, NEW req, req.command \in {"Insert", "Update"}, NEW t \in TableIds, NEW id,
         NEW row, row.row_values = req.values, NEW table, Stores(t, id, row, table)
  PROVE  StoresOnly(req)
<1>1. ASSUME NEW u \in TableIds, NEW o \in DOMAIN content'[u]
      PROVE  \/ o \in DOMAIN content[u] /\ content'[u][o].row_values = content[u][o].row_values
             \/ content'[u][o].row_values = req.values
  <2>1. CASE u = t
    <3>1. content'[u] = table
      BY <2>1 DEF DataInv, Stores
    <3> QED BY <1>1, <2>1, <3>1 DEF Stores
  <2>2. CASE u # t
    <3>1. content'[u] = content[u]
      BY <2>2 DEF DataInv, Stores
    <3> QED BY <1>1, <3>1
  <2> QED BY <2>1, <2>2
<1> QED BY <1>1 DEF StoresOnly

LEMMA WithoutStores ==
  ASSUME NEW req, NEW S, content' = Without(S)
  PROVE  StoresOnly(req)
<1>1. ASSUME NEW t \in TableIds, NEW o \in DOMAIN content'[t]
      PROVE  o \in DOMAIN content[t] /\ content'[t][o] = content[t][o]
  <2>1. PICK kept : kept = {x \in DOMAIN content[t] : [table_id |-> t, object_id |-> x] \notin S}
    OBVIOUS
  <2>2. content'[t] = Restrict(content[t], kept) /\ kept \subseteq DOMAIN content[t]
    BY <2>1 DEF Without
  <2>3. content'[t] = [x \in kept |-> content[t][x]]
    BY <2>2 DEF Restrict
  <2> QED BY <1>1, <2>2, <2>3
<1> QED BY <1>1 DEF StoresOnly

LEMMA RequestStores ==
  ASSUME DataInv, NEW req, handle_request(req)
  PROVE  StoresOnly(req)
<1>1. CASE UNCHANGED content
  BY <1>1, NothingStored
<1>2. ASSUME NEW S, content' = Without(S)
      PROVE  StoresOnly(req)
  BY <1>2, WithoutStores
<1>3. CASE req.command = "Insert" /\ handle_insert(req) /\ ~UNCHANGED content
  <2>1. PICK t, id, values : t = req.table_id /\ id = row_count[t] + 1 /\ values = req.values
    OBVIOUS
  <2>2. /\ ValidRow(t, values)
        /\ content' = [content EXCEPT ![t] =
             [o \in DOMAIN content[t] \cup {id} |->
                IF o = id THEN [version |-> 1, row_values |-> values] ELSE content[t][o]]]
    BY <1>3, <2>1 DEF handle_insert, NextId, refuse_row
  <2>3. t \in TableIds
    BY <2>2 DEF ValidRow
  <2>4. PICK row, table : /\ row = [version |-> 1, row_values |-> values]
                          /\ table = [o \in DOMAIN content[t] \cup {id} |->
                                        IF o = id THEN row ELSE content[t][o]]
    OBVIOUS
  <2>5. content' = [content EXCEPT ![t] = table] /\ row.row_values = req.values
    BY <2>1, <2>2, <2>4
  <2>6. /\ DOMAIN table = DOMAIN content[t] \cup {id}
        /\ \A o \in DOMAIN table : table[o] = IF o = id THEN row ELSE content[t][o]
    BY <2>4
  <2>7. Stores(t, id, row, table)
    BY <2>5, <2>6 DEF Stores
  <2> QED BY <1>3, <2>3, <2>5, <2>7, RowIsStored
<1>4. CASE req.command = "Update" /\ handle_update(req) /\ ~UNCHANGED content
  <2>1. PICK t, o, values, new : /\ t = req.table_id /\ o = req.object_id /\ values = req.values
                                 /\ new = NextVersion(content[t][o])
    OBVIOUS
  <2>2. /\ Live(t, o)
        /\ content' = [content EXCEPT ![t] =
             [content[t] EXCEPT ![o] = [version |-> new, row_values |-> values]]]
    BY <1>4, <2>1 DEF handle_update, refuse_row, Live, DataInv
  <2>3. t \in TableIds /\ o \in DOMAIN content[t]
    BY <2>2 DEF Live
  <2>4. PICK row, table : /\ row = [version |-> new, row_values |-> values]
                          /\ table = [content[t] EXCEPT ![o] = row]
    OBVIOUS
  <2>5. content' = [content EXCEPT ![t] = table] /\ row.row_values = req.values
    BY <2>1, <2>2, <2>4
  <2>6. DOMAIN table = DOMAIN content[t] \cup {o}
        /\ \A x \in DOMAIN table : table[x] = IF x = o THEN row ELSE content[t][x]
    BY <2>3, <2>4
  <2>7. Stores(t, o, row, table)
    BY <2>5, <2>6 DEF Stores
  <2> QED BY <1>4, <2>3, <2>5, <2>7, RowIsStored
<1> QED BY <1>1, <1>2, <1>3, <1>4
        DEF handle_request, handle_in_one_step, handle_get, handle_query, drop, refuse_drop

LEMMA StaysWritable ==
  ASSUME DataInv, WritableData, NEW req, handle_request(req),
         req.command \in {"Insert", "Update"} => req.values \in Seq(Writable)
  PROVE  WritableData'
BY RequestStores DEF WritableData, StoresOnly

-----------------------------------------------------------------------------
\* What the client lets pass fits the schema.

\* The values are of the types of the columns.
FitsColumns(t, values) ==
  /\ values \in Seq(Writable)
  /\ Len(values) = Len(Schema[t])
  /\ \A i \in DOMAIN values : values[i].type = Schema[t][i].c_type

\* All rows, or the rows where a column compares with a value, or the id does
FitsQuery(t, col, op, v) ==
  \/ col = 0 /\ op = OP_AL /\ v = None
  \/ col = 0 /\ op \in {OP_EQ, OP_NE}
  \/ /\ col \in DOMAIN Schema[t]
     /\ op \in OP_EQ..OP_GE
     /\ v.type = Schema[t][col].c_type
     /\ v.type = FOREIGN => op \in {OP_EQ, OP_NE}

FitsSchema(req) ==
  /\ req.table_id \in TableIds
  /\ req.command \in {"Insert", "Update"} => FitsColumns(req.table_id, req.values)
  /\ req.command = "Query" => FitsQuery(req.table_id, req.column_id, req.operator, req.value)

LEMMA RowFits ==
  ASSUME NEW t, NEW values \in Seq(Argument), check_values(t, values)
  PROVE  t \in TableIds /\ FitsColumns(t, rowStruct(t, values))
<1>1. PICK m : m = rowStruct(t, values)
  OBVIOUS
<1>2. m = [i \in DOMAIN values |-> [type |-> Schema[t][i].c_type, val |-> values[i].val]]
  BY <1>1 DEF rowStruct
<1>3. t \in TableIds /\ m \in Seq(Writable)
  BY <1>1, RowPacked
<1>4. Len(m) = Len(Schema[t])
  <2>1. Len(values) = Len(Schema[t])
    BY DEF check_values
  <2>2. DOMAIN m = DOMAIN values
    BY <1>2
  <2>3. PICK a \in Nat, b \in Nat : a = Len(m) /\ b = Len(values) /\ 1..a = 1..b
    BY <1>3, <2>2, LenProperties
  <2>4. a = b
    BY <2>3
  <2> QED BY <2>1, <2>3, <2>4
<1>5. \A i \in DOMAIN m : m[i].type = Schema[t][i].c_type
  BY <1>2
<1> QED BY <1>1, <1>3, <1>4, <1>5 DEF FitsColumns

LEMMA CallsFit ==
  ASSUME NEW c \in Calls, Accepted(c)
  PROVE  FitsSchema(RequestOf(c))
<1>1. CASE c \in [method : {"insert"}, table : Int, values : Seq(Argument)]
  <2>1. c.method = "insert" /\ c.values \in Seq(Argument) /\ check_values(c.table, c.values)
    BY <1>1 DEF Accepted
  <2>2. RequestOf(c) = [command |-> "Insert", table_id |-> c.table,
                        values |-> rowStruct(c.table, c.values)]
    BY <2>1 DEF RequestOf, InsertRequest
  <2>3. PICK req : req = RequestOf(c)
    OBVIOUS
  <2>4. req.command = "Insert" /\ req.table_id = c.table /\ req.values = rowStruct(c.table, c.values)
    BY <2>2, <2>3
  <2> QED BY <2>1, <2>3, <2>4, RowFits DEF FitsSchema
<1>2. CASE c \in [method : {"update"}, table : Int, pk : Int, version : Int,
                  values : Seq(Argument)]
  <2>1. c.method = "update" /\ c.values \in Seq(Argument) /\ check_values(c.table, c.values)
    BY <1>2 DEF Accepted
  <2>2. RequestOf(c) = [command |-> "Update", table_id |-> c.table, object_id |-> c.pk,
                        version |-> c.version, values |-> rowStruct(c.table, c.values)]
    BY <2>1 DEF RequestOf, UpdateRequest
  <2>3. PICK req : req = RequestOf(c)
    OBVIOUS
  <2>4. req.command = "Update" /\ req.table_id = c.table /\ req.values = rowStruct(c.table, c.values)
    BY <2>2, <2>3
  <2> QED BY <2>1, <2>3, <2>4, RowFits DEF FitsSchema
<1>3. CASE c \in [method : {"drop", "get"}, table : Int, pk : Int]
  <2>1. c.method \in {"drop", "get"} /\ c.table \in TableIds
    BY <1>3 DEF Accepted
  <2>2. RequestOf(c) = [command |-> IF c.method = "drop" THEN "Drop" ELSE "Get",
                        table_id |-> c.table, object_id |-> c.pk]
    BY <2>1 DEF RequestOf, KeyRequest
  <2> QED BY <2>1, <2>2 DEF FitsSchema
<1>4. CASE c \in [method : {"scan"}, table : Int, op : Int, column : Int, value : Argument]
  <2>1. c.method = "scan" /\ c.op \in Int /\ check_scan(c.table, c.op, c.column, c.value)
        /\ c.value \in Argument
    BY <1>4 DEF Accepted
  <2>2. PICK t, op, col, v, req :
          /\ req = RequestOf(c) /\ t = c.table /\ op = c.op /\ v = req.value
          /\ col = IF op = OP_AL THEN 0 ELSE c.column
    OBVIOUS
  <2>3. /\ req.command = "Query" /\ req.table_id = t /\ req.operator = op /\ req.column_id = col
        /\ v = CASE op = OP_AL -> None
                 [] op # OP_AL /\ c.column = 0 -> [c.value EXCEPT !.type = FOREIGN]
                 [] OTHER -> [c.value EXCEPT !.type = Schema[t][c.column].c_type]
    BY <2>1, <2>2 DEF RequestOf, ScanRequest
  <2>4. t \in TableIds /\ FitsQuery(t, col, op, v)
    <3>1. CASE op = OP_AL
      BY <2>1, <2>2, <2>3, <3>1 DEF FitsQuery, check_scan
    <3>2. CASE op # OP_AL /\ c.column = 0
      <4>1. col = 0 /\ op \in {OP_EQ, OP_NE}
        <5>1. col = 0
          BY <2>2, <3>2
        <5>2. 0 \notin DOMAIN Schema[t]
          <6>1. Schema[t] \in Seq(Column)
            <7>1. Schema \in Seq(Seq(Column))
              BY SchemaAssumption
            <7> QED BY <2>1, <2>2, <7>1, LenProperties, ElementOfSeq DEF TableIds, check_scan
          <6>2. PICK n \in Nat : DOMAIN Schema[t] = 1..n
            BY <6>1, LenProperties
          <6> QED BY <6>2
        <5> QED BY <2>1, <2>2, <3>2, <5>1, <5>2 DEF check_scan
      <4> QED BY <2>1, <2>2, <4>1 DEF FitsQuery, check_scan
    <3>3. CASE op # OP_AL /\ c.column # 0
      <4>1. /\ c.table \in TableIds /\ c.column \in DOMAIN Schema[t] /\ col = c.column
            /\ Schema[t][c.column].c_type = FOREIGN => op \in {OP_EQ, OP_NE}
            /\ op \in OP_AL..OP_GE
        BY <2>1, <2>2, <3>3 DEF check_scan
      <4>2. op \in OP_EQ..OP_GE
        BY <2>1, <2>2, <3>3, <4>1 DEF OP_AL, OP_EQ, OP_GE
      <4>3. v.type = Schema[t][col].c_type
        <5>1. v = [c.value EXCEPT !.type = Schema[t][c.column].c_type]
          BY ONLY <2>3, <3>3
        <5>2. c.value \in [type : NULL..FOREIGN, val : Int]
          BY <2>1 DEF Argument, Writable, Value
        <5> QED BY <4>1, <5>1, <5>2
      <4> QED BY <2>2, <4>1, <4>2, <4>3 DEF FitsQuery
    <3> QED BY <3>1, <3>2, <3>3
  <2> QED BY <2>2, <2>3, <2>4 DEF FitsSchema
<1> QED BY <1>1, <1>2, <1>3, <1>4, ClientAssumption

-----------------------------------------------------------------------------
\* What the database answers to what the client lets pass.

\* The codes of these have a case in errorCheck.
Refusals == {NOT_FOUND, BAD_FOREIGN, TXN_ABORT, BAD_QUERY}

AnswerFits(req, response) ==
  /\ response \in Responses
  /\ response.kind = "Get" => response.values \in Seq(Writable)
  /\ \/ response.kind = req.command
     \/ response.kind = "Error" /\ response.code \in Refusals

\* What a handler answers
AnswersWell(req) ==
  /\ \/ call'.response.kind = req.command
     \/ call'.response.kind = "Error" /\ call'.response.code \in Refusals
  /\ call'.response.kind = "Get" => call'.response.values \in Seq(Writable)

LEMMA RefusedWell ==
  ASSUME NEW req, NEW code \in Refusals, Respond(req, Error(code))
  PROVE  AnswersWell(req)
<1>1. PICK r : r = Error(code) /\ call'.response = r
  BY DEF Respond
<1>2. r.kind = "Error" /\ r.code = code
  BY <1>1 DEF Error
<1> QED BY <1>1, <1>2 DEF AnswersWell

LEMMA Refused == {NOT_FOUND, BAD_FOREIGN, TXN_ABORT, BAD_QUERY} \subseteq Refusals
BY DEF Refusals

LEMMA DoneWell ==
  ASSUME NEW req, NEW r, Respond(req, r), r.kind = req.command, r.kind # "Error",
         r.kind = "Get" => r.values \in Seq(Writable)
  PROVE  AnswersWell(req)
<1>1. call'.response = r
  BY DEF Respond
<1> QED BY <1>1 DEF AnswersWell

LEMMA RowErrorsFit ==
  ASSUME NEW t \in TableIds, NEW values, FitsColumns(t, values)
  PROVE  RowErrors(t, values) \subseteq {BAD_FOREIGN}
<1>1. \A i \in DOMAIN values : check_value(Schema[t][i], values[i]) \in {OK, BAD_FOREIGN}
  <2>1. ASSUME NEW i \in DOMAIN values
        PROVE  check_value(Schema[t][i], values[i]) \in {OK, BAD_FOREIGN}
    <3>1. i \in DOMAIN Schema[t]
      <4>1. Schema \in Seq(Seq(Column))
        BY SchemaAssumption
      <4>2. Schema[t] \in Seq(Column)
        BY <4>1, LenProperties, ElementOfSeq DEF TableIds
      <4> QED BY <4>2, LenProperties DEF FitsColumns
    <3>2. PICK col : col = Schema[t][i]
      OBVIOUS
    <3>3. values[i].type = col.c_type /\ (col.c_type = FOREIGN => col.c_ref # 0)
      BY <3>1, <3>2, SchemaAssumption DEF FitsColumns
    <3>4. check_value(col, values[i]) \in {OK, BAD_FOREIGN}
      BY <3>3 DEF check_value
    <3> QED BY <3>2, <3>4
  <2> QED BY <2>1
<1> QED BY <1>1 DEF RowErrors, FitsColumns

LEMMA RowRefusedWell ==
  ASSUME NEW req, FitsSchema(req), req.command \in {"Insert", "Update"}, refuse_row(req)
  PROVE  AnswersWell(req)
<1>1. PICK code \in RowErrors(req.table_id, req.values) : Respond(req, Error(code))
  BY DEF refuse_row
<1>2. code = BAD_FOREIGN
  BY <1>1, RowErrorsFit DEF FitsSchema
<1> QED BY <1>1, <1>2, Refused, RefusedWell

LEMMA InsertWell ==
  ASSUME NEW req, FitsSchema(req), req.command = "Insert", handle_insert(req)
  PROVE  AnswersWell(req)
<1>1. CASE refuse_row(req)
  BY <1>1, RowRefusedWell
<1>2. ASSUME NEW id, Respond(req, Inserted(id, 1))
      PROVE  AnswersWell(req)
  <2>1. PICK r : r = Inserted(id, 1)
    OBVIOUS
  <2>2. r.kind = "Insert"
    BY <2>1 DEF Inserted
  <2> QED BY <1>2, <2>1, <2>2, DoneWell
<1> QED BY <1>1, <1>2 DEF handle_insert

LEMMA UpdateWell ==
  ASSUME NEW req, FitsSchema(req), req.command = "Update", handle_update(req)
  PROVE  AnswersWell(req)
<1>1. CASE refuse_row(req)
  BY <1>1, RowRefusedWell
<1>2. CASE Respond(req, Error(TXN_ABORT)) \/ Respond(req, Error(NOT_FOUND))
  BY <1>2, Refused, RefusedWell
<1>3. ASSUME NEW ver, Respond(req, Updated(ver))
      PROVE  AnswersWell(req)
  <2>1. PICK r : r = Updated(ver)
    OBVIOUS
  <2>2. r.kind = "Update"
    BY <2>1 DEF Updated
  <2> QED BY <1>3, <2>1, <2>2, DoneWell
<1> QED BY <1>1, <1>2, <1>3 DEF handle_update

LEMMA GetWell ==
  ASSUME WritableData, NEW req, FitsSchema(req), req.command = "Get", handle_get(req)
  PROVE  AnswersWell(req)
<1>1. CASE Respond(req, Error(NOT_FOUND))
  BY <1>1, Refused, RefusedWell
<1>2. ASSUME Live(req.table_id, req.object_id),
             Respond(req, Got(content[req.table_id][req.object_id].version,
                              content[req.table_id][req.object_id].row_values))
      PROVE  AnswersWell(req)
  <2>1. PICK row, r : row = content[req.table_id][req.object_id] /\ r = Got(row.version, row.row_values)
    OBVIOUS
  <2>2. r.kind = "Get" /\ r.values = row.row_values
    BY <2>1 DEF Got
  <2>3. r.values \in Seq(Writable)
    BY <1>2, <2>1, <2>2 DEF WritableData, Live
  <2> QED BY <1>2, <2>1, <2>2, <2>3, DoneWell
<1> QED BY <1>1, <1>2 DEF handle_get, FitsSchema

LEMMA DropWell ==
  ASSUME NEW req, FitsSchema(req), req.command = "Drop", drop(req)
  PROVE  AnswersWell(req)
<1>1. CASE Respond(req, Error(NOT_FOUND))
  BY <1>1, Refused, RefusedWell
<1>2. CASE Respond(req, Dropped)
  <2>1. Dropped.kind = "Drop"
    BY DEF Dropped
  <2> QED BY <1>2, <2>1, DoneWell
<1> QED BY <1>1, <1>2 DEF drop, refuse_drop, FitsSchema

LEMMA ScanWell ==
  ASSUME NEW req, FitsSchema(req), req.command = "Query", handle_query(req)
  PROVE  AnswersWell(req)
<1>1. PICK r : /\ r = QueryResponse(req.table_id, req.column_id, req.operator, req.value)
               /\ Respond(req, r)
  BY DEF handle_query
<1>2. req.table_id \in TableIds
  BY DEF FitsSchema
<1>3. PICK ids : r = Queried(ids) \/ r = Error(BAD_QUERY)
  BY <1>1, <1>2 DEF QueryResponse
<1>4. CASE r = Queried(ids)
  <2>1. r.kind = "Query"
    BY <1>4 DEF Queried
  <2> QED BY <1>1, <2>1, DoneWell
<1>5. CASE r = Error(BAD_QUERY)
  BY <1>1, <1>5, Refused, RefusedWell
<1> QED BY <1>3, <1>4, <1>5

LEMMA AnsweredWell ==
  ASSUME DataInv, WritableData, NEW req \in Asks, FitsSchema(req), handle_request(req)
  PROVE  AnswersWell(req)
<1>1. req.command # "Exit"
  BY DEF Asks
<1> QED BY <1>1, InsertWell, UpdateWell, GetWell, DropWell, ScanWell
        DEF handle_request, handle_in_one_step

-----------------------------------------------------------------------------
\* What a method makes of the packet of a response

LEMMA ErrorReceived ==
  ASSUME NEW command, NEW code \in Refusals, NEW r, r = <<code>>
  PROVE  /\ unpack(command, r).raised # "nothing"
         /\ code # BAD_QUERY => unpack(command, r) = Raised(Documented(code))
<1>1. PICK e : e = errorCheck(code)
  OBVIOUS
<1>2. e # "nothing" /\ (code # BAD_QUERY => e = Documented(code))
  <2>1. CASE code \in {BAD_FOREIGN, BAD_QUERY}
    BY <1>1, <2>1 DEF errorCheck, Documented, BAD_FOREIGN, BAD_QUERY, TXN_ABORT, NOT_FOUND, BAD_REQUEST,
                   BAD_TABLE, BAD_VALUE, BAD_ROW
  <2>2. CASE code = TXN_ABORT
    BY <1>1, <2>2 DEF errorCheck, Documented, BAD_FOREIGN, BAD_QUERY, TXN_ABORT, NOT_FOUND, BAD_REQUEST,
                   BAD_TABLE, BAD_VALUE, BAD_ROW
  <2>3. CASE code = NOT_FOUND
    BY <1>1, <2>3 DEF errorCheck, Documented, BAD_FOREIGN, BAD_QUERY, TXN_ABORT, NOT_FOUND, BAD_REQUEST,
                   BAD_TABLE, BAD_VALUE, BAD_ROW
  <2> QED BY <2>1, <2>2, <2>3 DEF Refusals
<1>3. PICK q : q = Error(code)
  OBVIOUS
<1>4. q.kind = "Error" /\ q.code = code
  BY <1>3 DEF Error
<1>5. raises(command, q) = e
  BY <1>1, <1>2, <1>4 DEF raises
<1>6. Checked(command, code) = Raised(e)
  BY <1>2, <1>3, <1>5 DEF Checked
<1>7. Len(r) = 1 /\ r[1] = code
  OBVIOUS
<1>8. unpack(command, r) = Raised(e)
  BY <1>1, <1>2, <1>6, <1>7 DEF unpack
<1>9. Raised(e).raised = e
  BY DEF Raised
<1> QED BY <1>2, <1>8, <1>9

LEMMA DropReceived ==
  ASSUME NEW r, r = <<OK>>
  PROVE  unpack("Drop", r) = Nothing
<1>1. errorCheck(OK) = "nothing"
  BY DEF errorCheck, OK, BAD_FOREIGN, BAD_QUERY, TXN_ABORT, NOT_FOUND, BAD_REQUEST
<1>2. PICK q : q = Error(OK)
  OBVIOUS
<1>3. q.kind = "Error" /\ q.code = OK
  BY <1>2 DEF Error
<1>4. raises("Drop", q) = "nothing"
  BY <1>1, <1>3 DEF raises
<1>5. Checked("Drop", OK) = Nothing
  BY <1>2, <1>4 DEF Checked
<1>6. Len(r) = 1 /\ r[1] = OK
  OBVIOUS
<1> QED BY <1>5, <1>6 DEF unpack

\* Two sequences of words
LEMMA Shorts ==
  ASSUME NEW s \in Seq(Int)
  PROVE  /\ Len(s) = 1 => s = <<s[1]>>
         /\ Len(s) = 2 => s = <<s[1], s[2]>>
<1>1. ASSUME Len(s) = 1 PROVE s = <<s[1]>>
  <2>1. PICK x \in Int : x = s[1]
    BY <1>1, ElementOfSeq
  <2>2. PICK z : z = <<x>>
    OBVIOUS
  <2>3. z \in Seq(Int) /\ Len(z) = 1 /\ z[1] = x
    BY <2>2
  <2>4. s = z
    BY <1>1, <2>1, <2>3, SeqEqual
  <2> QED BY <2>1, <2>2, <2>4
<1>2. ASSUME Len(s) = 2 PROVE s = <<s[1], s[2]>>
  <2>a. 1 \in 1..Len(s) /\ 2 \in 1..Len(s)
    BY <1>2
  <2>1. PICK x \in Int, y \in Int : x = s[1] /\ y = s[2]
    BY <2>a, ElementOfSeq
  <2>2. PICK z : z = <<x, y>>
    OBVIOUS
  <2>3. z \in Seq(Int) /\ Len(z) = 2 /\ z[1] = x /\ z[2] = y
    BY <2>2
  <2>4. s = z
    BY <1>2, <2>1, <2>3, SeqEqual, SMTT(20)
  <2> QED BY <2>1, <2>2, <2>4
<1> QED BY <1>1, <1>2

LEMMA LiesItself ==
  ASSUME NEW r \in Seq(Int)
  PROVE  Lies(r, 1, r)
<1>1. PICK n \in Nat : n = Len(r)
  BY LenProperties
<1>2. 1 + n - 1 <= n /\ \A i \in 1..n : 1 + i - 1 = i
  BY <1>1
<1> QED BY <1>1, <1>2 DEF Lies

\* A packet that begins with OK and a number
LEMMA OkNumber ==
  ASSUME NEW x \in Int, NEW w, w = <<OK>> \o W64(x)
  PROVE  /\ w \in Seq(Int) /\ Len(w) = 3
         /\ \A r \in Seq(Int) : Lies(r, 1, w) => r[1] = OK /\ I64(r[2], r[3]) = x
<1>1. PICK ok : ok = <<OK>>
  OBVIOUS
<1>2. OK \in Int
  BY DEF OK
<1>3. ok \in Seq(Int) /\ Len(ok) = 1
  BY <1>1, <1>2
<1>4. PICK u : u = W64(x) /\ w = ok \o u
  BY <1>1
<1>5. u \in Seq(Int) /\ Len(u) = 2
  BY <1>4, WordsOfKey
<1>6. w \in Seq(Int) /\ Len(w) = 3
  <2>1. ok \o u \in Seq(Int) /\ Len(ok \o u) = Len(ok) + Len(u)
    BY <1>3, <1>5, ConcatProperties
  <2> QED BY <1>3, <1>4, <1>5, <2>1
<1>7. ASSUME NEW r \in Seq(Int), Lies(r, 1, w)
      PROVE  r[1] = OK /\ I64(r[2], r[3]) = x
  <2>1. 1 \in Nat \ {0} /\ 2 \in Nat \ {0} /\ 2 = 1 + Len(ok)
    BY <1>3
  <2>2. Lies(r, 1, ok) /\ Lies(r, 2, u)
    BY ONLY <1>3, <1>4, <1>5, <1>7, <2>1, LiesApart
  <2>3. r[1] = OK
    BY <1>1, <1>2, <2>1, <2>2, Lies1
  <2>4. I64(r[2], r[2 + 1]) = x
    BY <1>4, <2>1, <2>2, LiesKey
  <2> QED BY <2>3, <2>4
<1> QED BY <1>6, <1>7

LEMMA UpdateReceived ==
  ASSUME NEW version \in Nat, NEW r, r = <<OK>> \o W64(version)
  PROVE  unpack("Update", r) = Numbers(<<version>>)
<1>1. r \in Seq(Int) /\ Len(r) = 3 /\ r[1] = OK /\ I64(r[2], r[3]) = version
  <2>1. version \in Int
    OBVIOUS
  <2>2. r \in Seq(Int) /\ Len(r) = 3
    BY <2>1, OkNumber
  <2> QED BY <2>1, <2>2, OkNumber, LiesItself
<1>2. PICK s : s = [i \in 1..1 |-> I64(r[2 * i], r[2 * i + 1])]
  OBVIOUS
<1>3. s = <<version>>
  <2>1. 1 \in 1..1 /\ 2 * 1 = 2 /\ 2 * 1 + 1 = 3 /\ \A i \in 1..1 : i = 1
    OBVIOUS
  <2>2. s[1] = version
    BY <1>1, <1>2, <2>1
  <2>3. s \in Seq(Int) /\ Len(s) = 1
    <3>1. PICK n \in Nat : n = 1
      OBVIOUS
    <3>2. s = [i \in 1..n |-> s[i]]
      BY <1>2, <3>1
    <3>3. \A i \in 1..n : s[i] \in Int
      BY <2>1, <2>2, <3>1
    <3>4. s \in Seq(Int) /\ Len(s) = n
      BY ONLY <3>2, <3>3, n \in Nat
    <3> QED BY <3>1, <3>4
  <2> QED BY <2>2, <2>3, Shorts
<1>4. unpack_numbers("Update", r, 1) = Numbers(s)
  BY <1>1, <1>2 DEF unpack_numbers
<1>5. unpack("Update", r) = unpack_numbers("Update", r, 1)
  BY <1>1 DEF unpack
<1> QED BY <1>3, <1>4, <1>5

LEMMA InsertReceived ==
  ASSUME NEW id \in Nat, NEW version \in Nat, NEW r, r = <<OK>> \o W64(id) \o W64(version)
  PROVE  unpack("Insert", r) = Numbers(<<id, version>>)
<1>a. id \in Int /\ version \in Int
  OBVIOUS
<1>1. PICK w, u : w = <<OK>> \o W64(id) /\ u = W64(version) /\ r = w \o u
  OBVIOUS
<1>2. w \in Seq(Int) /\ Len(w) = 3 /\ u \in Seq(Int) /\ Len(u) = 2
  BY <1>1, <1>a, OkNumber, WordsOfKey
<1>3. r \in Seq(Int) /\ Len(r) = 5
  <2>1. w \o u \in Seq(Int) /\ Len(w \o u) = Len(w) + Len(u)
    BY <1>2, ConcatProperties
  <2> QED BY <1>1, <1>2, <2>1
<1>4. 1 \in Nat \ {0} /\ 4 \in Nat \ {0} /\ 4 = 1 + Len(w)
  BY <1>2
<1>5. Lies(r, 1, w) /\ Lies(r, 4, u)
  <2>1. Lies(r, 1, w \o u)
    BY <1>1, <1>3, LiesItself
  <2> QED BY ONLY <1>2, <1>3, <1>4, <2>1, LiesApart
<1>6. r[1] = OK /\ I64(r[2], r[3]) = id
  BY <1>1, <1>3, <1>5, <1>a, OkNumber
<1>7. I64(r[4], r[4 + 1]) = version
  BY <1>1, <1>3, <1>4, <1>5, <1>a, LiesKey
<1>8. PICK s : s = [i \in 1..2 |-> I64(r[2 * i], r[2 * i + 1])]
  OBVIOUS
<1>9. s = <<id, version>>
  <2>1. /\ 1 \in 1..2 /\ 2 * 1 = 2 /\ 2 * 1 + 1 = 3 /\ 2 \in 1..2 /\ 2 * 2 = 4 /\ 2 * 2 + 1 = 4 + 1
        /\ \A i \in 1..2 : i = 1 \/ i = 2
    OBVIOUS
  <2>2. s[1] = id /\ s[2] = version
    BY <1>6, <1>7, <1>8, <2>1
  <2>3. s \in Seq(Int) /\ Len(s) = 2
    <3>1. PICK n \in Nat : n = 2
      OBVIOUS
    <3>2. s = [i \in 1..n |-> s[i]]
      BY <1>8, <3>1
    <3>3. \A i \in 1..n : s[i] \in Int
      BY <2>1, <2>2, <3>1
    <3>4. s \in Seq(Int) /\ Len(s) = n
      BY ONLY <3>2, <3>3, n \in Nat
    <3> QED BY <3>1, <3>4
  <2> QED BY <2>2, <2>3, Shorts
<1>10. unpack_numbers("Insert", r, 2) = Numbers(s)
  <2>1. ~(Len(r) < 1 + 2 * 2)
    BY <1>3
  <2> QED BY <1>6, <1>8, <2>1 DEF unpack_numbers
<1>11. unpack("Insert", r) = unpack_numbers("Insert", r, 2)
  BY <1>3 DEF unpack
<1> QED BY <1>9, <1>10, <1>11

\* Numbers, two words each
Pieces(s, k) == [i \in 1..k |-> W64(s[i])]

Pairs(f, s, k) ==
  /\ f \in Seq(Int) /\ Len(f) = 2 * k
  /\ \A i \in 1..k : I64(f[2 * i - 1], f[2 * i]) = s[i]

LEMMA NextPair ==
  ASSUME NEW k \in Nat, NEW s, \A i \in 1..(k + 1) : s[i] \in Int, Pairs(FlattenSeq(Pieces(s, k)), s, k)
  PROVE  Pairs(FlattenSeq(Pieces(s, k + 1)), s, k + 1)
<1>1. k + 1 \in 1..(k + 1) /\ (\A i \in 1..k : i \in 1..(k + 1))
      /\ \A i \in 1..(k + 1) : i \in 1..k \/ i = k + 1
  OBVIOUS
<1>2. PICK x, w : x = s[k + 1] /\ w = W64(x) /\ x \in Int
  BY <1>1
<1>3. w \in Seq(Int) /\ Len(w) = 2
  BY <1>2, WordsOfKey
<1>4. PICK m, m2 : m = Pieces(s, k) /\ m2 = Pieces(s, k + 1)
  OBVIOUS
<1>5. \A i \in 1..(k + 1) : W64(s[i]) \in Seq(Int)
  BY WordsOfKey
<1>6. m \in Seq(Seq(Int)) /\ Len(m) = k /\ m2 \in Seq(Seq(Int)) /\ Len(m2) = k + 1
  <2>1. /\ m = [i \in 1..k |-> m[i]] /\ m2 = [i \in 1..(k + 1) |-> m2[i]]
        /\ \A i \in 1..k : m[i] = W64(s[i])
        /\ \A i \in 1..(k + 1) : m2[i] = W64(s[i])
    BY <1>4 DEF Pieces
  <2>2. (\A i \in 1..k : m[i] \in Seq(Int)) /\ \A i \in 1..(k + 1) : m2[i] \in Seq(Int)
    BY <1>1, <1>5, <2>1
  <2>3. m \in Seq(Seq(Int)) /\ Len(m) = k
    <3>1. m = [i \in 1..k |-> m[i]] /\ \A i \in 1..k : m[i] \in Seq(Int)
      BY <2>1, <2>2
    <3> QED BY ONLY <3>1, k \in Nat
  <2>4. PICK l \in Nat : l = k + 1
    OBVIOUS
  <2>5. m2 \in Seq(Seq(Int)) /\ Len(m2) = l
    <3>1. m2 = [i \in 1..l |-> m2[i]] /\ \A i \in 1..l : m2[i] \in Seq(Int)
      BY <2>1, <2>2, <2>4
    <3> QED BY ONLY <3>1, l \in Nat
  <2> QED BY <2>3, <2>4, <2>5
<1>7. m2 = Append(m, w)
  <2>1. m2[k + 1] = w
    BY <1>1, <1>2, <1>4 DEF Pieces
  <2>2. \A i \in 1..k : m2[i] = m[i]
    BY <1>1, <1>4 DEF Pieces
  <2>3. DOMAIN m = 1..k
    BY <1>4 DEF Pieces
  <2> QED BY <1>3, <1>6, <2>1, <2>2, <2>3, OneMore
<1>8. PICK f, f2 : f = FlattenSeq(m) /\ f2 = FlattenSeq(m2)
  OBVIOUS
<1>9. f2 = f \o w
  <2>1. FlattenSeq(Append(m, w)) = FlattenSeq(m) \o w
    BY <1>3, <1>6, Flatten
  <2> QED BY <1>7, <1>8, <2>1
<1>10. f \in Seq(Int) /\ Len(f) = 2 * k /\ \A i \in 1..k : I64(f[2 * i - 1], f[2 * i]) = s[i]
  BY <1>4, <1>8 DEF Pairs
<1>11. f2 \in Seq(Int) /\ Len(f2) = 2 * k + 2
       /\ \A j \in 1..(2 * k + 2) : f2[j] = IF j <= 2 * k THEN f[j] ELSE w[j - 2 * k]
  <2>1. /\ f \o w \in Seq(Int) /\ Len(f \o w) = Len(f) + Len(w)
        /\ \A j \in 1..(Len(f) + Len(w)) :
             (f \o w)[j] = IF j <= Len(f) THEN f[j] ELSE w[j - Len(f)]
    BY <1>3, <1>10, ConcatProperties
  <2> QED BY <1>3, <1>9, <1>10, <2>1
<1>12. I64(w[1], w[2]) = x
  <2>1. PICK h \in Int, l \in Int : w = <<h, l>> /\ I64(h, l) = x
    BY <1>2, Words64
  <2>2. w[1] = h /\ w[2] = l
    BY <2>1
  <2> QED BY <2>1, <2>2
<1>13. ASSUME NEW i \in 1..(k + 1)
       PROVE  I64(f2[2 * i - 1], f2[2 * i]) = s[i]
  <2>1. CASE i \in 1..k
    <3>1. /\ 2 * i - 1 \in 1..(2 * k + 2) /\ 2 * i - 1 <= 2 * k
          /\ 2 * i \in 1..(2 * k + 2) /\ 2 * i <= 2 * k
      BY <2>1
    <3>2. f2[2 * i - 1] = f[2 * i - 1] /\ f2[2 * i] = f[2 * i]
      BY <1>11, <3>1
    <3> QED BY <1>10, <2>1, <3>2
  <2>2. CASE i = k + 1
    <3>1. /\ 2 * i - 1 \in 1..(2 * k + 2) /\ ~(2 * i - 1 <= 2 * k) /\ 2 * i - 1 - 2 * k = 1
          /\ 2 * i \in 1..(2 * k + 2) /\ ~(2 * i <= 2 * k) /\ 2 * i - 2 * k = 2
      BY <2>2
    <3>2. f2[2 * i - 1] = w[1] /\ f2[2 * i] = w[2]
      BY <1>11, <3>1
    <3> QED BY <1>2, <1>12, <2>2, <3>2
  <2> QED BY <1>1, <2>1, <2>2
<1> QED BY <1>4, <1>8, <1>11, <1>13 DEF Pairs

LEMMA AllPairs ==
  ASSUME NEW n \in Nat, NEW s, \A i \in 1..n : s[i] \in Int
  PROVE  Pairs(FlattenSeq(Pieces(s, n)), s, n)
<1> DEFINE P(k) == Pairs(FlattenSeq(Pieces(s, k)), s, k)
           S == {k \in 1..n : P(k)}
<1>1. P(0)
  <2>1. PICK m : m = Pieces(s, 0)
    OBVIOUS
  <2>2. m = <<>>
    BY <2>1, EmptySeq DEF Pieces
  <2>3. FlattenSeq(m) = <<>>
    BY <2>2, Flatten
  <2>4. Pairs(<<>>, s, 0)
    BY DEF Pairs
  <2> QED BY <2>1, <2>3, <2>4
<1>2. ASSUME NEW k \in Nat, k < n, P(k)
      PROVE  P(k + 1)
  <2>1. \A i \in 1..(k + 1) : s[i] \in Int
    BY <1>2
  <2> QED BY <1>2, <2>1, NextPair
<1> HIDE DEF P
<1>3. 1 \in S \/ n = 0
  <2>1. CASE n # 0
    <3>1. 0 < n /\ 0 \in Nat /\ 0 + 1 = 1 /\ 1 \in 1..n
      BY <2>1
    <3>2. P(0 + 1)
      BY <1>1, <1>2, <3>1
    <3> QED BY <3>1, <3>2
  <2> QED BY <2>1
<1>4. ASSUME NEW k \in 1..n, k + 1 <= n, k \in S
      PROVE  k + 1 \in S
  <2>1. k \in Nat /\ k < n /\ k + 1 \in 1..n /\ P(k)
    BY <1>4
  <2> QED BY <1>2, <2>1
<1>5. 1..n \subseteq S
  <2> HIDE DEF S
  <2> QED BY <1>3, <1>4, Upwards
<1>6. P(n)
  <2>1. n = 0 \/ n \in 1..n
    OBVIOUS
  <2> QED BY <1>1, <1>5, <2>1
<1> QED BY <1>6 DEF P

\* Every id of a query is in its place.
LEMMA InOrderAll ==
  ASSUME NEW n \in Nat, NEW ids \in SUBSET (1..n), NEW c \in Nat, c = Cardinality(ids)
  PROVE  {InOrder(ids)[i] : i \in 1..c} = ids
<1>1. ASSUME NEW i \in 1..c
      PROVE  InOrder(ids)[i] \in ids
  BY InOrderOf
<1>2. ASSUME NEW x \in ids
      PROVE  \E i \in 1..c : InOrder(ids)[i] = x
  <2>1. PICK k \in Nat : k = Cardinality(Smaller(ids, x))
    BY SmallerFinite
  <2>2. k < c
    <3>1. Smaller(ids, x) \subseteq ids /\ x \notin Smaller(ids, x)
      <4>1. x \in 1..n
        OBVIOUS
      <4>2. ~(x < x)
        BY <4>1
      <4> QED BY <4>2 DEF Smaller
    <3>2. IsFiniteSet(ids)
      BY SmallerFinite
    <3>3. Cardinality(Smaller(ids, x)) <= Cardinality(ids) /\ (k = c => Smaller(ids, x) = ids)
      BY <2>1, <3>1, <3>2, FS_Subset
    <3> QED BY <2>1, <3>1, <3>3
  <2>3. k + 1 \in 1..c /\ (k + 1) - 1 = k
    BY <2>2
  <2>4. PICK y : y = InOrder(ids)[k + 1]
    OBVIOUS
  <2>5. y \in ids /\ Cardinality(Smaller(ids, y)) = k
    BY <2>3, <2>4, InOrderOf
  <2>6. y = x
    <3>1. ASSUME NEW a \in ids, NEW b \in ids, a < b
          PROVE  Cardinality(Smaller(ids, a)) # Cardinality(Smaller(ids, b))
      <4>1. a \in 1..n /\ b \in 1..n
        OBVIOUS
      <4>2. Smaller(ids, a) \subseteq Smaller(ids, b)
        <5>1. \A j \in ids : j < a => j < b
          <6>1. ASSUME NEW j \in ids, j < a PROVE j < b
            <7>1. j \in 1..n
              OBVIOUS
            <7> QED BY <3>1, <4>1, <6>1, <7>1
          <6> QED BY <6>1
        <5> QED BY <5>1 DEF Smaller
      <4>3. a \in Smaller(ids, b) /\ a \notin Smaller(ids, a)
        <5>1. ~(a < a)
          BY <4>1
        <5> QED BY <3>1, <5>1 DEF Smaller
      <4>4. IsFiniteSet(Smaller(ids, b))
        BY SmallerFinite
      <4> QED BY <4>2, <4>3, <4>4, FS_Subset
    <3>2. x \in 1..n /\ y \in 1..n
      BY <2>5
    <3>3. x < y \/ y < x \/ y = x
      BY <3>2
    <3> QED BY <2>1, <2>5, <3>1, <3>3
  <2> QED BY <2>3, <2>4, <2>6
<1> QED BY <1>1, <1>2

LEMMA QueryReceived ==
  ASSUME NEW n \in Nat, NEW ids \in SUBSET (1..n), NEW r,
         r = <<OK, Cardinality(ids)>>
               \o FlattenSeq([i \in 1..Cardinality(ids) |-> W64(InOrder(ids)[i])])
  PROVE  unpack("Query", r) = Ids(ids)
<1>1. PICK c \in Nat : c = Cardinality(ids)
  BY SmallerFinite
<1>2. PICK s, h, f : s = InOrder(ids) /\ h = <<OK, c>> /\ f = FlattenSeq(Pieces(s, c)) /\ r = h \o f
  BY <1>1 DEF Pieces
<1>3. \A i \in 1..c : s[i] \in Int
  <2>1. ASSUME NEW i \in 1..c PROVE s[i] \in Int
    <3>1. s[i] \in ids
      BY <1>1, <1>2, InOrderOf
    <3>2. s[i] \in 1..n
      BY <3>1
    <3> QED BY <3>2
  <2> QED BY <2>1
<1>4. f \in Seq(Int) /\ Len(f) = 2 * c /\ \A i \in 1..c : I64(f[2 * i - 1], f[2 * i]) = s[i]
  BY <1>2, <1>3, AllPairs DEF Pairs
<1>5. OK \in Int
  BY DEF OK
<1>6. h \in Seq(Int) /\ Len(h) = 2 /\ h[1] = OK /\ h[2] = c
  BY <1>2, <1>5
<1>7. r \in Seq(Int) /\ Len(r) = 2 + 2 * c
      /\ \A j \in 1..(2 + 2 * c) : r[j] = IF j <= 2 THEN h[j] ELSE f[j - 2]
  <2>1. /\ h \o f \in Seq(Int) /\ Len(h \o f) = Len(h) + Len(f)
        /\ \A j \in 1..(Len(h) + Len(f)) :
             (h \o f)[j] = IF j <= Len(h) THEN h[j] ELSE f[j - Len(h)]
    BY <1>4, <1>6, ConcatProperties
  <2> QED BY <1>2, <1>4, <1>6, <2>1
<1>8. r[1] = OK /\ r[2] = c
  <2>1. 1 \in 1..(2 + 2 * c) /\ 1 <= 2 /\ 2 \in 1..(2 + 2 * c) /\ 2 <= 2
    OBVIOUS
  <2> QED BY <1>6, <1>7, <2>1
<1>9. ASSUME NEW i \in 1..c
      PROVE  I64(r[1 + 2 * i], r[2 + 2 * i]) = s[i]
  <2>1. /\ 1 + 2 * i \in 1..(2 + 2 * c) /\ ~(1 + 2 * i <= 2) /\ (1 + 2 * i) - 2 = 2 * i - 1
        /\ 2 + 2 * i \in 1..(2 + 2 * c) /\ ~(2 + 2 * i <= 2) /\ (2 + 2 * i) - 2 = 2 * i
    OBVIOUS
  <2>2. r[1 + 2 * i] = f[2 * i - 1] /\ r[2 + 2 * i] = f[2 * i]
    BY <1>7, <2>1
  <2> QED BY <1>4, <2>2
<1>10. unpack("Query", r) = unpack_scan(r)
  <2>1. Len(r) # 1
    BY <1>7
  <2> QED BY <2>1 DEF unpack
<1>11. {s[i] : i \in 1..c} = ids
  <2>1. {InOrder(ids)[i] : i \in 1..c} = ids
    BY <1>1, InOrderAll
  <2> QED BY ONLY <1>2, <2>1
<1>12. CASE c = 0
  <2>1. ids = {}
    BY <1>11, <1>12
  <2>2. unpack_scan(r) = Ids({})
    BY <1>7, <1>12 DEF unpack_scan
  <2> QED BY <1>10, <2>1, <2>2
<1>13. CASE c # 0
  <2>1. Len(r) # 2 /\ Len(r) >= 4 /\ ~(Len(r) < 4) /\ ~(Len(r) < 2 + 2 * r[2])
    BY <1>7, <1>8, <1>13
  <2>2. unpack_scan(r) = Ids({I64(r[1 + 2 * i], r[2 + 2 * i]) : i \in 1..r[2]})
    BY <1>8, <2>1 DEF unpack_scan
  <2>3. {I64(r[1 + 2 * i], r[2 + 2 * i]) : i \in 1..r[2]} = {s[i] : i \in 1..c}
    <3>1. r[2] = c
      BY <1>8
    <3>2. {I64(r[1 + 2 * i], r[2 + 2 * i]) : i \in 1..c} = {s[i] : i \in 1..c}
      BY ONLY <1>9, Zenon
    <3> QED BY ONLY <3>1, <3>2
  <2> QED BY <1>10, <1>11, <2>2, <2>3
<1> QED BY <1>12, <1>13

-----------------------------------------------------------------------------
\* The loop of get

FieldStart == [raised |-> "nothing", dec_val |-> None, list |-> <<>>, at |-> 5]

\* f[i] is what get has when it has read i fields.
Gets(f, r, n) ==
  /\ f = [i \in 0..n |-> f[i]]
  /\ \A i \in 0..n : f[i] = IF i = 0 THEN FieldStart ELSE NextField(r, f[i - 1])

LEMMA GetsSteps ==
  ASSUME NEW f, NEW r, NEW n \in Nat, Gets(f, r, n)
  PROVE  f[0] = FieldStart /\ \A i \in 1..n : f[i] = NextField(r, f[i - 1])
<1>1. 0 \in 0..n /\ \A i \in 1..n : i \in 0..n /\ i # 0
  OBVIOUS
<1> QED BY <1>1 DEF Gets

LEMMA GetsExists ==
  ASSUME NEW r, NEW n \in Nat
  PROVE  \E f : Gets(f, r, n)
<1> DEFINE S == {m \in 1..n : \E f : Gets(f, r, m)}
           x == FieldStart
<1>1. \E f : Gets(f, r, 0)
  <2>1. Gets([i \in 0..0 |-> x], r, 0)
    BY DEF Gets
  <2> QED BY <2>1
<1>2. ASSUME NEW m \in Nat, NEW f, Gets(f, r, m)
      PROVE  \E g : Gets(g, r, m + 1)
  <2>1. PICK g : g = [i \in 0..(m + 1) |-> IF i = m + 1 THEN NextField(r, f[m]) ELSE f[i]]
    OBVIOUS
  <2>2. ASSUME NEW i \in 0..(m + 1)
        PROVE  g[i] = IF i = 0 THEN x ELSE NextField(r, g[i - 1])
    <3>1. CASE i = m + 1
      <4>1. m \in 0..(m + 1) /\ m # m + 1 /\ i # 0 /\ i - 1 = m
        BY <3>1
      <4>2. g[m] = f[m] /\ g[i] = NextField(r, f[m])
        BY <2>1, <3>1, <4>1
      <4> QED BY <4>1, <4>2
    <3>2. CASE i # m + 1
      <4>1. i \in 0..m /\ g[i] = f[i] /\ (i # 0 => g[i - 1] = f[i - 1])
        BY <2>1, <3>2
      <4> QED BY <1>2, <4>1 DEF Gets
    <3> QED BY <3>1, <3>2
  <2>3. Gets(g, r, m + 1)
    BY <2>1, <2>2 DEF Gets
  <2> QED BY <2>3
<1>3. 1 \in S \/ n = 0
  <2>1. \E f : Gets(f, r, 0 + 1)
    BY <1>1, <1>2
  <2> QED BY <2>1
<1>4. ASSUME NEW m \in 1..n, m + 1 <= n, m \in S
      PROVE  m + 1 \in S
  BY <1>2, <1>4
<1>5. 1..n \subseteq S
  BY <1>3, <1>4, Upwards
<1> QED BY <1>1, <1>5

LEMMA GetsUnique ==
  ASSUME NEW r, NEW n \in Nat, NEW n2 \in Nat, n <= n2,
         NEW f, NEW g, Gets(f, r, n), Gets(g, r, n2)
  PROVE  f[n] = g[n]
<1> DEFINE S == {i \in 1..n : f[i] = g[i]}
<1>1. f[0] = g[0]
  BY GetsSteps
<1>2. ASSUME NEW i \in 1..n, f[i - 1] = g[i - 1]
      PROVE  f[i] = g[i]
  <2>1. i \in 1..n2
    OBVIOUS
  <2>2. f[i] = NextField(r, f[i - 1]) /\ g[i] = NextField(r, g[i - 1])
    BY <2>1, GetsSteps
  <2> QED BY <1>2, <2>2
<1>3. 1 \in S \/ n = 0
  BY <1>1, <1>2
<1>4. ASSUME NEW i \in 1..n, i + 1 <= n, i \in S
      PROVE  i + 1 \in S
  BY <1>2, <1>4
<1>5. 1..n \subseteq S
  BY <1>3, <1>4, Upwards
<1> QED BY <1>1, <1>5

LEMMA GetOneMore ==
  ASSUME NEW r
  PROVE  /\ get_values(r, 0) = FieldStart
         /\ \A n \in Nat : get_values(r, n + 1) = NextField(r, get_values(r, n))
<1>1. ASSUME NEW n \in Nat
      PROVE  \E f : Gets(f, r, n) /\ get_values(r, n) = f[n]
  <2> DEFINE after == CHOOSE f : f = [i \in 0..n |->
                        IF i = 0 THEN FieldStart ELSE NextField(r, f[i - 1])]
  <2>1. PICK f : Gets(f, r, n)
    BY GetsExists
  <2>2. f = [i \in 0..n |-> IF i = 0 THEN FieldStart ELSE NextField(r, f[i - 1])]
    BY <2>1 DEF Gets
  <2>3. after = [i \in 0..n |-> IF i = 0 THEN FieldStart ELSE NextField(r, after[i - 1])]
    BY <2>2
  <2>4. n = IF n > 0 THEN n ELSE 0
    OBVIOUS
  <2>5. get_values(r, n) = after[n]
    BY <2>4 DEF get_values, FieldStart
  <2> HIDE DEF after
  <2>6. Gets(after, r, n)
    BY <2>3 DEF Gets
  <2> QED BY <2>5, <2>6
<1>2. get_values(r, 0) = FieldStart
  BY <1>1, GetsSteps
<1>3. ASSUME NEW n \in Nat
      PROVE  get_values(r, n + 1) = NextField(r, get_values(r, n))
  <2>1. PICK f : Gets(f, r, n) /\ get_values(r, n) = f[n]
    BY <1>1
  <2>2. PICK g : Gets(g, r, n + 1) /\ get_values(r, n + 1) = g[n + 1]
    BY <1>1
  <2>3. f[n] = g[n]
    BY <2>1, <2>2, GetsUnique
  <2>4. g[n + 1] = NextField(r, g[n + 1 - 1])
    <3>1. n + 1 \in 1..(n + 1) /\ n + 1 \in Nat
      OBVIOUS
    <3> QED BY <2>2, <3>1, GetsSteps
  <2>5. n + 1 - 1 = n
    OBVIOUS
  <2> QED BY <2>1, <2>2, <2>3, <2>4, <2>5
<1> QED BY <1>2, <1>3

\* A field, as get shows it: a NULL as the value before it
Shown(f, v) == IF v.type = NULL THEN f.dec_val ELSE PyValue(v)

ShownAs(f, d, at) ==
  IF d = None THEN Raised("UnboundLocalError")
  ELSE [raised |-> "nothing", dec_val |-> d, list |-> Append(f.list, d), at |-> at]

FieldShown(f, v) == ShownAs(f, Shown(f, v), f.at + Len(WriteValue(v)))

LEMMA ReadField ==
  ASSUME NEW r \in Seq(Int), NEW f, f.at \in Nat \ {0}, f.raised = "nothing", NEW v \in Writable,
         Lies(r, f.at, WriteValue(v))
  PROVE  NextField(r, f) = FieldShown(f, v)
<1>1. PICK n \in Nat : n = Len(r) /\ DOMAIN r = 1..n
  BY LenProperties
<1>2. PICK w, p : w = WriteValue(v) /\ p = f.at
  OBVIOUS
<1>3. PICK k \in Nat : k = Len(w)
  BY <1>2, WordsOfValue, LenProperties DEF IsWritten
<1>4. IsWritten(v, w) /\ p \in Nat \ {0} /\ k >= 2 /\ p + k - 1 <= n
      /\ \A i \in 1..k : r[p + i - 1] = w[i]
  BY <1>1, <1>2, <1>3, WordsOfValue DEF Lies, IsWritten
<1>5. r[p] = v.type /\ r[p + 1] = w[2] /\ ~(p + 1 > Len(r))
  <2>1. 1 \in 1..k /\ 2 \in 1..k /\ p + 1 - 1 = p /\ p + 2 - 1 = p + 1
    BY <1>4
  <2>2. r[p + 1 - 1] = w[1] /\ r[p + 2 - 1] = w[2]
    BY <1>4, <2>1
  <2> QED BY <1>1, <1>4, <2>1, <2>2 DEF IsWritten
<1>6. v.type \in {NULL, TEXT, INTEGER, FLOAT, FOREIGN} /\ v = [type |-> v.type, val |-> v.val]
  BY DEF Writable, Value, NULL, TEXT, INTEGER, FLOAT, FOREIGN
<1>a. NULL \notin {TEXT, INTEGER, FLOAT, FOREIGN} /\ TEXT \notin {INTEGER, FLOAT, FOREIGN}
  BY DEF NULL, TEXT, INTEGER, FLOAT, FOREIGN
<1>b. FieldShown(f, v) = ShownAs(f, Shown(f, v), p + k)
  BY <1>2, <1>3 DEF FieldShown
<1>7. CASE v.type = NULL
  <2>1. k = 2 /\ r[p + 1] = 0
    BY <1>3, <1>4, <1>5, <1>7 DEF IsWritten
  <2>2. 0 \div 4 = 0 /\ ~(p + 1 + 0 > Len(r)) /\ p + 2 + 0 = p + k
    BY <1>1, <1>4, <2>1
  <2>3. PICK d : d = f.dec_val
    OBVIOUS
  <2>4. NextField(r, f) = ShownAs(f, d, p + 2 + 0)
    BY <1>2, <1>5, <1>7, <1>a, <2>1, <2>2, <2>3 DEF NextField, ShownAs
  <2>5. d = Shown(f, v)
    BY <1>7, <2>3 DEF Shown
  <2> QED BY ONLY <1>b, <2>2, <2>4, <2>5
<1>8. CASE v.type \in {INTEGER, FLOAT, FOREIGN}
  <2>1. k = 4 /\ r[p + 1] = 8 /\ I64(w[3], w[4]) = v.val
    BY <1>3, <1>4, <1>5, <1>8 DEF IsWritten
  <2>2. r[p + 2] = w[3] /\ r[p + 3] = w[4]
    <3>1. 3 \in 1..k /\ 4 \in 1..k /\ p + 3 - 1 = p + 2 /\ p + 4 - 1 = p + 3
      BY <2>1
    <3>2. r[p + 3 - 1] = w[3] /\ r[p + 4 - 1] = w[4]
      BY <1>4, <3>1
    <3> QED BY <3>1, <3>2
  <2>3. 8 \div 4 = 2 /\ ~(p + 1 + 2 > Len(r)) /\ p + 2 + 2 = p + k /\ ~(8 < 8)
    BY <1>1, <1>4, <2>1
  <2>4. PICK d : d = PyValue(v)
    OBVIOUS
  <2>5. d = PyValue([type |-> r[p], val |-> I64(r[p + 2], r[p + 3])])
    BY <1>5, <1>6, <2>1, <2>2, <2>4
  <2>6. NextField(r, f) = ShownAs(f, d, p + 2 + 2)
    BY <1>2, <1>5, <1>8, <1>a, <2>1, <2>3, <2>5 DEF NextField, ShownAs
  <2>7. d = Shown(f, v)
    BY <1>8, <1>a, <2>4 DEF Shown
  <2> QED BY ONLY <1>b, <2>3, <2>6, <2>7
<1>9. CASE v.type = TEXT
  <2>1. PICK m \in Nat : m = v.val
    BY <1>9, <1>a DEF Writable
  <2>2. k = 2 + m /\ r[p + 1] = 4 * m /\ \A i \in 1..m : w[i + 2] = m
    BY <1>3, <1>4, <1>5, <1>9, <2>1 DEF IsWritten
  <2>3. (4 * m) \div 4 = m /\ ~(p + 1 + m > Len(r)) /\ p + 2 + m = p + k
    BY <1>1, <1>4, <2>2
  <2>4. PICK text : text = SubSeq(r, p + 2, p + 1 + m)
    OBVIOUS
  <2>5. text \in Seq(Int) /\ Len(text) = m /\ \A i \in 1..m : text[i] = m
    <3>1. \A i \in (p + 2)..(p + 1 + m) : r[i] \in Int
      <4>1. (p + 2)..(p + 1 + m) \subseteq 1..n
        BY <1>4, <2>2
      <4> QED BY <1>1, <4>1, ElementOfSeq
    <3>2. /\ text \in Seq(Int)
          /\ Len(text) = IF p + 2 <= p + 1 + m THEN (p + 1 + m) - (p + 2) + 1 ELSE 0
          /\ \A i \in 1..((p + 1 + m) - (p + 2) + 1) : text[i] = r[p + 2 + i - 1]
      BY <1>4, <2>4, <3>1, SubSeqProperties
    <3>3. ASSUME NEW i \in 1..m
          PROVE  text[i] = m
      <4>1. i + 2 \in 1..k /\ p + (i + 2) - 1 = p + 2 + i - 1
        BY <1>4, <2>2
      <4>2. r[p + (i + 2) - 1] = w[i + 2]
        BY <1>4, <4>1
      <4>3. text[i] = r[p + 2 + i - 1]
        BY <1>4, <3>2
      <4> QED BY <2>2, <4>1, <4>2, <4>3
    <3> QED BY <1>4, <3>2, <3>3
  <2>6. TextOf(text) = m
    BY <2>5, TextRead
  <2>7. PICK d : d = [type |-> TEXT, val |-> TextOf(text)]
    OBVIOUS
  <2>8. d = v
    BY <1>6, <1>9, <2>1, <2>6, <2>7
  <2>a. PICK e : e = p + 2 + m
    OBVIOUS
  <2>b. e = p + k
    BY <2>a, <2>3
  <2>9. NextField(r, f) = ShownAs(f, d, e)
    BY <2>a, <1>2, <1>5, <1>9, <1>a, <2>2, <2>3, <2>4, <2>7 DEF NextField, ShownAs
  <2>10. d = Shown(f, v)
    BY <1>9, <1>a, <2>8 DEF Shown, PyValue
  <2> QED BY ONLY <1>b, <2>b, <2>9, <2>10
<1> QED BY <1>6, <1>7, <1>8, <1>9

-----------------------------------------------------------------------------
\* A row, as get shows it
NoneFirst(vs) == vs # <<>> /\ vs[1].type = NULL

\* What get has after the fields vs; it has a value to show again after the first
Shows(f, vs) ==
  IF NoneFirst(vs) THEN f = Raised("UnboundLocalError")
  ELSE /\ f.raised = "nothing" /\ f.at = 5 + Len(WriteValues(vs))
       /\ f.list \in Seq(Value) /\ MeansRow(f.list, vs)
       /\ IF vs = <<>> THEN f.dec_val = None
          ELSE f.dec_val = f.list[Len(vs)] /\ f.dec_val # None

RowIsShown(r, vs) ==
  Lies(r, 5, WriteValues(vs)) => Shows(get_values(r, Len(vs)), vs)

LEMMA PyValueShown ==
  ASSUME NEW v \in Writable, v.type # NULL
  PROVE  PyValue(v) \in Value /\ PyValue(v) # None
<1>1. v \in [type : NULL..FOREIGN, val : Int] /\ INTEGER \in NULL..FOREIGN /\ INTEGER # NULL
  BY DEF Writable, Value, NULL, INTEGER, FOREIGN
<1>2. PICK d : d = PyValue(v)
  OBVIOUS
<1>3. d = [type |-> IF v.type = FOREIGN THEN INTEGER ELSE v.type, val |-> v.val]
  BY <1>1, <1>2 DEF PyValue
<1>4. d \in Value /\ d.type # NULL
  BY <1>1, <1>3 DEF Value
<1>5. None.type = NULL
  BY DEF None
<1> QED BY <1>2, <1>4, <1>5

\* The rows of one more value
LEMMA MeansOneMore ==
  ASSUME NEW vs \in Seq(Writable), NEW v \in Writable, NEW list \in Seq(Value), NEW d \in Value,
         MeansRow(list, vs), v.type # NULL => d = PyValue(v)
  PROVE  MeansRow(Append(list, d), Append(vs, v)) /\ Append(list, d)[Len(vs) + 1] = d
<1>1. PICK n \in Nat : n = Len(vs) /\ DOMAIN vs = 1..n
  BY LenProperties
<1>2. Len(list) = n /\ \A i \in 1..n : vs[i].type # NULL => list[i] = PyValue(vs[i])
  <2>1. PICK l \in Nat : l = Len(list) /\ DOMAIN list = 1..l
    BY LenProperties
  <2>2. DOMAIN list = 1..n /\ \A i \in 1..n : vs[i].type # NULL => list[i] = PyValue(vs[i])
    BY <1>1 DEF MeansRow
  <2>3. l = n
    BY <2>1, <2>2
  <2> QED BY <2>1, <2>2, <2>3
<1>3. PICK all, list2 : all = Append(vs, v) /\ list2 = Append(list, d)
  OBVIOUS
<1>4. /\ DOMAIN all = 1..(n + 1) /\ all[n + 1] = v /\ \A i \in 1..n : all[i] = vs[i]
      /\ DOMAIN list2 = 1..(n + 1) /\ list2[n + 1] = d /\ \A i \in 1..n : list2[i] = list[i]
  BY <1>1, <1>2, <1>3, AppendProperties
<1>5. ASSUME NEW i \in 1..(n + 1), all[i].type # NULL
      PROVE  list2[i] = PyValue(all[i])
  <2>1. CASE i \in 1..n
    BY <1>2, <1>4, <1>5, <2>1
  <2>2. CASE i = n + 1
    BY <1>4, <1>5, <2>2
  <2>3. i \in 1..n \/ i = n + 1
    OBVIOUS
  <2> QED BY <2>1, <2>2, <2>3
<1>6. MeansRow(list2, all)
  BY <1>4, <1>5 DEF MeansRow
<1> QED BY <1>1, <1>3, <1>4, <1>6

LEMMA ShowNextField ==
  ASSUME NEW r \in Seq(Int), NEW vs \in Seq(Writable), NEW v \in Writable, RowIsShown(r, vs)
  PROVE  RowIsShown(r, Append(vs, v))
<1>1. PICK n \in Nat : n = Len(vs) /\ DOMAIN vs = 1..n
  BY LenProperties
<1>2. PICK all : all = Append(vs, v)
  OBVIOUS
<1>3. all \in Seq(Writable) /\ Len(all) = n + 1 /\ all[n + 1] = v /\ \A i \in 1..n : all[i] = vs[i]
  BY <1>1, <1>2, AppendProperties
<1>4. PICK u, w : u = WriteValues(vs) /\ w = WriteValue(v)
  OBVIOUS
<1>5. u \in Seq(Int) /\ w \in Seq(Int) /\ WriteValues(all) = u \o w
  BY <1>2, <1>4, WordsOfValues, WordsOfValue DEF IsWritten
<1>6. PICK k \in Nat, l \in Nat : k = Len(u) /\ l = Len(w) /\ Len(u \o w) = k + l
  <2>1. Len(u) \in Nat /\ Len(w) \in Nat
    BY <1>5, LenProperties
  <2>2. Len(u \o w) = Len(u) + Len(w)
    BY <1>5, ConcatProperties
  <2> QED BY <2>1, <2>2
<1>7. all # <<>> /\ (NoneFirst(all) <=> NoneFirst(vs) \/ (vs = <<>> /\ v.type = NULL))
  <2>1. all # <<>>
    BY <1>3, EmptySeq
  <2>2. CASE vs = <<>>
    <3>1. n = 0 /\ all[1] = v
      BY <1>1, <1>3, <2>2, EmptySeq
    <3> QED BY <2>1, <2>2, <3>1 DEF NoneFirst
  <2>3. CASE vs # <<>>
    <3>1. n # 0
      BY <1>1, <2>3, EmptySeq
    <3>2. 1 \in 1..n
      BY <3>1
    <3>3. all[1] = vs[1]
      BY <1>3, <3>2
    <3> QED BY <2>1, <2>3, <3>3 DEF NoneFirst
  <2> QED BY <2>1, <2>2, <2>3
<1>8. ASSUME Lies(r, 5, WriteValues(all))
      PROVE  Shows(get_values(r, n + 1), all)
  <2>1. Lies(r, 5, u) /\ Lies(r, 5 + k, w)
    <3>1. 5 \in Nat \ {0} /\ Lies(r, 5, u \o w) /\ 5 + k = 5 + Len(u)
      BY <1>5, <1>6, <1>8
    <3> QED BY <1>5, <3>1, LiesApart
  <2>2. PICK f : f = get_values(r, n)
    OBVIOUS
  <2>3. Shows(f, vs) /\ get_values(r, n + 1) = NextField(r, f)
    BY <1>1, <1>4, <2>1, <2>2, GetOneMore DEF RowIsShown
  <2>4. CASE NoneFirst(vs)
    <3>1. f = Raised("UnboundLocalError")
      BY <2>3, <2>4 DEF Shows
    <3>2. f.raised # "nothing"
      BY <3>1 DEF Raised
    <3>3. NextField(r, f) = f
      BY <3>2 DEF NextField
    <3> QED BY <1>7, <2>3, <2>4, <3>1, <3>3 DEF Shows
  <2>5. CASE ~NoneFirst(vs)
    <3>1. /\ f.raised = "nothing" /\ f.at = 5 + k
          /\ f.list \in Seq(Value) /\ MeansRow(f.list, vs)
          /\ vs = <<>> => f.dec_val = None
          /\ vs # <<>> => f.dec_val = f.list[n] /\ f.dec_val # None
      BY <1>1, <1>4, <1>6, <2>3, <2>5 DEF Shows
    <3>2. NextField(r, f) = FieldShown(f, v)
      <4>1. 5 + k \in Nat \ {0}
        OBVIOUS
      <4> QED BY <1>4, <2>1, <3>1, <4>1, ReadField
    <3>3. PICK d : d = Shown(f, v)
      OBVIOUS
    <3>4. CASE vs = <<>> /\ v.type = NULL
      <4>1. FieldShown(f, v) = Raised("UnboundLocalError")
        BY <3>1, <3>4 DEF FieldShown, ShownAs, Shown
      <4> QED BY <1>7, <2>3, <3>2, <3>4, <4>1 DEF Shows
    <3>5. CASE v.type = NULL => vs # <<>>
      <4>1. d \in Value /\ d # None /\ d = IF v.type = NULL THEN f.list[n] ELSE PyValue(v)
        <5>1. CASE v.type = NULL
          <6>1. d = f.list[n] /\ d # None
            BY <3>1, <3>3, <3>5, <5>1 DEF Shown
          <6>2. n \in DOMAIN f.list
            <7>1. n # 0
              BY <1>1, <3>5, <5>1, EmptySeq
            <7> QED BY <1>1, <3>1, <7>1 DEF MeansRow
          <6>3. d \in Value
            BY <3>1, <6>1, <6>2, LenProperties, ElementOfSeq
          <6> QED BY <5>1, <6>1, <6>3
        <5>2. CASE v.type # NULL
          BY <3>3, <5>2, PyValueShown DEF Shown
        <5> QED BY <5>1, <5>2
      <4>2. PICK g, list2 : g = NextField(r, f) /\ list2 = Append(f.list, d)
        OBVIOUS
      <4>3. g = [raised |-> "nothing", dec_val |-> d, list |-> list2, at |-> f.at + l]
        BY <1>4, <1>6, <3>2, <3>3, <4>1, <4>2 DEF FieldShown, ShownAs
      <4>4. g.raised = "nothing" /\ g.dec_val = d /\ g.list = list2 /\ g.at = 5 + (k + l)
        BY <3>1, <4>3
      <4>5. list2 \in Seq(Value)
        BY <3>1, <4>1, <4>2, AppendProperties
      <4>6. MeansRow(list2, all) /\ list2[n + 1] = d
        <5>1. PICK list : list = f.list
          OBVIOUS
        <5>2. list \in Seq(Value) /\ MeansRow(list, vs) /\ d \in Value
              /\ d = IF v.type = NULL THEN list[Len(vs)] ELSE PyValue(v)
          BY <1>1, <3>1, <4>1, <5>1
        <5>3. MeansRow(Append(list, d), Append(vs, v)) /\ Append(list, d)[Len(vs) + 1] = d
          BY <2>5, <3>5, <5>2, MeansOneMore
        <5> QED BY <1>1, <1>2, <4>2, <5>1, <5>3
      <4>7. ~NoneFirst(all) /\ Len(all) = n + 1 /\ Len(WriteValues(all)) = k + l
        BY <1>3, <1>5, <1>6, <1>7, <2>5, <3>5
      <4>8. Shows(g, all)
        BY <1>7, <4>1, <4>4, <4>5, <4>6, <4>7 DEF Shows
      <4> QED BY <2>3, <4>2, <4>8
    <3> QED BY <3>4, <3>5
  <2> QED BY <2>4, <2>5
<1> QED BY <1>2, <1>3, <1>8 DEF RowIsShown

LEMMA ShowRow ==
  ASSUME NEW r \in Seq(Int), NEW vs \in Seq(Writable)
  PROVE  RowIsShown(r, vs)
<1>1. PICK n \in Nat : n = Len(vs)
  BY LenProperties
<1> DEFINE first(k) == SubSeq(vs, 1, k)
           S == {k \in 1..n : RowIsShown(r, first(k))}
<1>2. RowIsShown(r, <<>>)
  <2>1. PICK e : e = <<>>
    OBVIOUS
  <2>2. Len(e) = 0 /\ DOMAIN e = {} /\ WriteValues(e) = <<>> /\ Len(WriteValues(e)) = 0
    BY <2>1, WordsOfValues, EmptySeq
  <2>3. PICK f : f = FieldStart
    OBVIOUS
  <2>4. f.raised = "nothing" /\ f.dec_val = None /\ f.list = e /\ f.at = 5
    BY <2>1, <2>3 DEF FieldStart
  <2>5. e \in Seq(Value) /\ MeansRow(e, e) /\ ~NoneFirst(e)
    BY <2>1, <2>2 DEF MeansRow, NoneFirst
  <2>6. Shows(f, e)
    BY <2>1, <2>2, <2>4, <2>5 DEF Shows
  <2>7. get_values(r, 0) = f
    BY <2>3, GetOneMore
  <2> QED BY <2>1, <2>2, <2>6, <2>7 DEF RowIsShown
<1>3. ASSUME NEW k \in Nat, k < n, RowIsShown(r, first(k))
      PROVE  RowIsShown(r, first(k + 1))
  <2>1. PICK s, x : s = SubSeq(vs, 1, k) /\ x = vs[k + 1]
    OBVIOUS
  <2>2. s \in Seq(Writable) /\ SubSeq(vs, 1, k + 1) = Append(s, x) /\ x \in Writable
    BY <1>1, <1>3, <2>1, OneFurther
  <2>3. RowIsShown(r, s)
    BY <1>3, <2>1
  <2>4. RowIsShown(r, Append(s, x))
    BY <2>2, <2>3, ShowNextField
  <2> QED BY <2>2, <2>4
<1>4. n # 0 => first(0) = <<>>
  BY <1>1, OneFurther, EmptySeq
<1>5. first(n) = vs
  BY <1>1, Whole
<1> HIDE DEF first
<1>6. 1 \in S \/ n = 0
  <2>1. CASE n # 0
    <3>1. 0 < n /\ 0 \in Nat /\ RowIsShown(r, first(0)) /\ 0 + 1 = 1 /\ 1 \in 1..n
      BY <1>2, <1>4, <2>1
    <3>2. RowIsShown(r, first(0 + 1))
      BY <1>3, <3>1
    <3> QED BY <3>1, <3>2
  <2> QED BY <2>1
<1>7. ASSUME NEW k \in 1..n, k + 1 <= n, k \in S
      PROVE  k + 1 \in S
  <2>1. k \in Nat /\ k < n /\ k + 1 \in 1..n /\ RowIsShown(r, first(k))
    BY <1>7
  <2>2. RowIsShown(r, first(k + 1))
    BY <1>3, <2>1
  <2> QED BY <2>1, <2>2
<1>8. 1..n \subseteq S
  <2> HIDE DEF S
  <2> QED BY <1>6, <1>7, Upwards
<1>9. CASE n = 0
  <2>1. vs = <<>>
    BY <1>1, <1>9, EmptySeq
  <2> QED BY <1>2, <2>1
<1>10. CASE n # 0
  <2>1. n \in 1..n
    BY <1>10
  <2>2. RowIsShown(r, first(n))
    BY <1>8, <2>1
  <2> QED BY <1>5, <2>2
<1> QED BY <1>9, <1>10

\* What get returns
GetMeans(result, version, vs) ==
  IF NoneFirst(vs) THEN result = Raised("UnboundLocalError")
  ELSE result.raised = "nothing" /\ result.version = version /\ MeansRow(result.list, vs)

LEMMA GetReceived ==
  ASSUME NEW version \in Nat, NEW vs \in Seq(Writable), NEW r,
         r = <<OK>> \o W64(version) \o <<Len(vs)>> \o WriteValues(vs)
  PROVE  GetMeans(unpack("Get", r), version, vs)
<1>1. PICK n \in Nat : n = Len(vs)
  BY LenProperties
<1>2. PICK w, y, u, z : /\ w = <<OK>> \o W64(version) /\ y = <<n>> /\ u = w \o y /\ z = WriteValues(vs)
                        /\ r = u \o z
  BY <1>1
<1>3. w \in Seq(Int) /\ Len(w) = 3 /\ y \in Seq(Int) /\ Len(y) = 1 /\ z \in Seq(Int)
  <2>1. version \in Int
    OBVIOUS
  <2>2. w \in Seq(Int) /\ Len(w) = 3
    BY <1>2, <2>1, OkNumber
  <2>3. y \in Seq(Int) /\ Len(y) = 1
    BY <1>2
  <2> QED BY <1>2, <2>2, <2>3, WordsOfValues
<1>4. u \in Seq(Int) /\ Len(u) = 4
  <2>1. w \o y \in Seq(Int) /\ Len(w \o y) = Len(w) + Len(y)
    BY <1>3, ConcatProperties
  <2> QED BY <1>2, <1>3, <2>1
<1>5. r \in Seq(Int) /\ Len(r) >= 4
  <2>1. u \o z \in Seq(Int) /\ Len(u \o z) = Len(u) + Len(z) /\ Len(z) \in Nat
    BY <1>3, <1>4, ConcatProperties, LenProperties
  <2> QED BY <1>2, <1>4, <2>1
<1>6. 1 \in Nat \ {0} /\ 4 \in Nat \ {0} /\ 4 = 1 + Len(w) /\ 5 = 1 + Len(u)
  BY <1>3, <1>4
<1>7. Lies(r, 1, u) /\ Lies(r, 5, z)
  <2>1. Lies(r, 1, u \o z)
    BY <1>2, <1>5, LiesItself
  <2> QED BY ONLY <1>3, <1>4, <1>5, <1>6, <2>1, LiesApart
<1>8. Lies(r, 1, w) /\ Lies(r, 4, y)
  <2>1. Lies(r, 1, w \o y)
    BY <1>2, <1>7
  <2> QED BY ONLY <1>3, <1>5, <1>6, <2>1, LiesApart
<1>9. I64(r[2], r[3]) = version /\ r[4] = n
  <2>1. version \in Int /\ n \in Int
    OBVIOUS
  <2>2. I64(r[2], r[3]) = version
    BY <1>2, <1>5, <1>8, <2>1, OkNumber
  <2>3. r[4] = n
    BY <1>2, <1>5, <1>6, <1>8, <2>1, Lies1
  <2> QED BY <2>2, <2>3
<1>10. PICK f : f = get_values(r, n)
  OBVIOUS
<1>11. Shows(f, vs)
  BY <1>1, <1>2, <1>5, <1>7, <1>10, ShowRow DEF RowIsShown
<1>12. PICK result : result = unpack("Get", r)
  OBVIOUS
<1>13. result = IF f.raised # "nothing" THEN Raised(f.raised) ELSE Fields(f.list, version)
  <2>1. ~(Len(r) < 4) /\ Len(r) # 1
    BY <1>5
  <2>2. unpack("Get", r) = unpack_get(r)
    BY <2>1 DEF unpack
  <2>3. unpack_get(r) = IF f.raised # "nothing" THEN Raised(f.raised)
                        ELSE Fields(f.list, I64(r[2], r[3]))
    BY <1>9, <1>10, <2>1 DEF unpack_get
  <2> QED BY <1>9, <1>12, <2>2, <2>3
<1>14. CASE NoneFirst(vs)
  <2>1. f = Raised("UnboundLocalError")
    BY <1>11, <1>14 DEF Shows
  <2>2. f.raised = "UnboundLocalError"
    BY <2>1 DEF Raised
  <2>3. result = Raised("UnboundLocalError")
    BY <1>13, <2>2
  <2> QED BY <1>12, <1>14, <2>3 DEF GetMeans
<1>15. CASE ~NoneFirst(vs)
  <2>1. f.raised = "nothing" /\ MeansRow(f.list, vs)
    BY <1>11, <1>15 DEF Shows
  <2>2. result = [raised |-> "nothing", list |-> f.list, version |-> version]
    BY <1>13, <2>1 DEF Fields
  <2>3. result.raised = "nothing" /\ result.version = version /\ result.list = f.list
    BY <2>2
  <2>4. MeansRow(result.list, vs)
    BY <2>1, <2>3
  <2> QED BY <1>12, <1>15, <2>3, <2>4 DEF GetMeans
<1> QED BY <1>14, <1>15

\* What a method makes of the packet of an answer is what the answer means.
LEMMA AnswerReceived ==
  ASSUME answer.request \in Asks, AnswerFits(answer.request, answer.response),
         NEW result, result = unpack(answer.request.command, Response_packet(answer.response))
  PROVE  Means(result, answer.response)
<1>1. PICK req, response, r, command :
        /\ req = answer.request /\ response = answer.response /\ r = Response_packet(response)
        /\ command = req.command
  OBVIOUS
<1>2. result = unpack(command, r) /\ AnswerFits(req, response)
  BY <1>1
<1>3. CASE response.kind = "Error"
  <2>1. command # "Error"
    BY <1>1 DEF Asks
  <2>2. PICK code : code = response.code /\ code \in Refusals
    BY <1>1, <1>2, <1>3, <2>1 DEF AnswerFits
  <2>3. r = <<code>>
    BY <1>1, <1>3, <2>2 DEF Response_packet
  <2>4. result.raised # "nothing" /\ (code # BAD_QUERY => result = Raised(Documented(code)))
    BY <1>2, <2>2, <2>3, ErrorReceived
  <2> QED BY <1>1, <1>3, <2>2, <2>4 DEF Means
<1>4. CASE response.kind # "Error"
  <2>1. response.kind = command /\ response \in Responses
    BY <1>1, <1>2, <1>4 DEF AnswerFits
  <2>2. CASE response \in [kind : {"Insert"}, id : Nat, version : Nat]
    <3>1. response.kind = "Insert" /\ response.id \in Nat /\ response.version \in Nat
      BY <2>2
    <3>2. PICK id \in Nat, version \in Nat : id = response.id /\ version = response.version
      BY <3>1
    <3>3. r = <<OK>> \o W64(id) \o W64(version)
      BY <1>1, <3>1, <3>2 DEF Response_packet
    <3>4. result = Numbers(<<id, version>>)
      BY <1>2, <2>1, <3>1, <3>3, InsertReceived
    <3> QED BY <1>1, <3>1, <3>2, <3>4 DEF Means
  <2>3. CASE response \in [kind : {"Update"}, version : Nat]
    <3>1. response.kind = "Update" /\ response.version \in Nat
      BY <2>3
    <3>2. PICK version \in Nat : version = response.version
      BY <3>1
    <3>3. r = <<OK>> \o W64(version)
      BY <1>1, <3>1, <3>2 DEF Response_packet
    <3>4. result = Numbers(<<version>>)
      BY <1>2, <2>1, <3>1, <3>3, UpdateReceived
    <3> QED BY <1>1, <3>1, <3>2, <3>4 DEF Means
  <2>4. CASE response \in [kind : {"Get"}, version : Nat, values : Seq(Value)]
    <3>1. response.kind = "Get" /\ response.version \in Nat /\ response.values \in Seq(Writable)
      BY <1>2, <2>4 DEF AnswerFits
    <3>2. PICK version, vs : /\ version = response.version /\ vs = response.values
                             /\ version \in Nat /\ vs \in Seq(Writable)
      BY <3>1
    <3>3. r = <<OK>> \o W64(version) \o <<Len(vs)>> \o WriteValues(vs)
      BY <1>1, <3>1, <3>2 DEF Response_packet
    <3>4. GetMeans(result, version, vs)
      BY <1>2, <2>1, <3>1, <3>2, <3>3, GetReceived
    <3> QED BY <1>1, <3>1, <3>2, <3>4 DEF Means, GetMeans, NoneFirst
  <2>5. CASE response \in [kind : {"Query"}, ids : SomeIds]
    <3>1. PICK n, ids : n \in Nat /\ ids \in SUBSET (1..n) /\ response.ids = ids
                        /\ response.kind = "Query"
      BY <2>5 DEF SomeIds
    <3>2. r = <<OK, Cardinality(ids)>>
                \o FlattenSeq([i \in 1..Cardinality(ids) |-> W64(InOrder(ids)[i])])
      BY <1>1, <3>1 DEF Response_packet
    <3>3. result = Ids(ids)
      BY <1>2, <2>1, <3>1, <3>2, QueryReceived
    <3> QED BY <1>1, <3>1, <3>3 DEF Means
  <2>6. CASE response \in [kind : {"Drop"}]
    <3>1. response.kind = "Drop"
      BY <2>6
    <3>2. r = <<OK>>
      BY <1>1, <3>1 DEF Response_packet
    <3>3. result = Nothing
      BY <1>2, <2>1, <3>1, <3>2, DropReceived
    <3> QED BY <1>1, <3>1, <3>3 DEF Means
  <2> QED BY <1>4, <2>1, <2>2, <2>3, <2>4, <2>5, <2>6 DEF Responses
<1> QED BY <1>3, <1>4

-----------------------------------------------------------------------------
(***************************************************************************)
(* The second invariant.  While a connection is not torn, what was stored  *)
(* can be written, the call that waits has passed the checks of the        *)
(* client, the answer of the thread to it fits it, and once it is given    *)
(* the packet of that answer is all that is on its way.                    *)
(***************************************************************************)
Waits == asked \in Asks => FitsSchema(asked)

AnswerInv ==
  /\ ~torn => WritableData
  /\ Waits
  /\ Answered => answer.request \in Asks /\ AnswerFits(answer.request, answer.response)
  /\ Answered /\ asked # NoRequest =>
       toServer = <<>> /\ toClient = Response_packet(answer.response)
  /\ ResultMeansAnswer

LEMMA BeginAnswers ==
  ASSUME AnswerInv, Begin, UNCHANGED torn, Waits'
  PROVE  AnswerInv'
<1>1. ~Answered' /\ content' = content
  BY BeginFacts DEF database
<1> QED BY <1>1 DEF AnswerInv, WritableData, ResultMeansAnswer

LEMMA ProgramAnswers ==
  ASSUME AnswerInv, Connect \/ ConnectAgain \/ Close \/ Call
  PROVE  AnswerInv'
<1>1. Begin /\ torn' = torn /\ asked = NoRequest
  BY DEF Connect, ConnectAgain, Close, Call, Begin
<1>2. Waits'
  <2>1. \/ asked' \in {NoRequest, Connecting}
        \/ \E c \in Calls : Accepted(c) /\ asked' = RequestOf(c)
    BY <1>1 DEF Connect, ConnectAgain, Close, Call
  <2>2. CASE asked' \in {NoRequest, Connecting}
    BY <2>2, NotAsks DEF Waits
  <2>3. ASSUME NEW c \in Calls, Accepted(c), asked' = RequestOf(c)
        PROVE  Waits'
    <3>1. PICK req : req = RequestOf(c) /\ FitsSchema(req)
      BY <2>3, CallsFit
    <3>2. asked' = req
      BY <2>3, <3>1
    <3> QED BY <3>1, <3>2 DEF Waits, FitsSchema
  <2> QED BY <2>1, <2>2, <2>3
<1> QED BY <1>1, <1>2, BeginAnswers

LEMMA ReceiveAnswers ==
  ASSUME ClientInv, AnswerInv, Receive
  PROVE  AnswerInv'
<1>1. /\ asked # NoRequest /\ asked' = NoRequest /\ content' = content /\ answer' = answer
  BY DEF Receive, database
<1>2. PICK n \in Taken(toClient, RecvWords) :
        /\ torn' = (torn \/ n < Len(toClient))
        /\ asked # Connecting => outcome' = unpack(asked.command, SubSeq(toClient, 1, n))
  BY DEF Receive
<1>3. ~(n < Len(toClient)) => n = Len(toClient)
  BY <1>2, TakenFacts, WordsAssumption DEF ClientInv, Typed
<1>4. Answered' => Answered
  BY <1>1, <1>2 DEF Answered
<1>5. ASSUME Answered'
      PROVE  Means(outcome', answer.response)
  <2>1. Answered /\ ~(n < Len(toClient))
    BY <1>2, <1>4, <1>5 DEF Answered
  <2>2. answer.request = asked /\ asked \in Asks /\ AnswerFits(asked, answer.response)
        /\ toClient = Response_packet(answer.response)
    BY <1>1, <2>1 DEF AnswerInv, ClientInv, RequestUnderstood
  <2>3. SubSeq(toClient, 1, n) = toClient
    BY <1>3, <2>1, Whole DEF ClientInv, Typed
  <2>4. outcome' = unpack(answer.request.command, Response_packet(answer.response))
    BY <1>2, <2>2, <2>3, NotAsks
  <2> QED BY <2>2, <2>4, AnswerReceived
<1>6. ResultMeansAnswer'
  BY <1>1, <1>5 DEF ResultMeansAnswer, Means
<1>7. Waits'
  BY <1>1, NotAsks DEF Waits
<1>8. ~torn' => WritableData'
  BY <1>1, <1>2 DEF AnswerInv, WritableData
<1> QED BY <1>1, <1>4, <1>6, <1>7, <1>8 DEF AnswerInv, AnswerFits

LEMMA ReceiveNothingAnswers ==
  ASSUME ClientInv, AnswerInv, ReceiveNothing
  PROVE  AnswerInv'
<1>1. /\ asked # NoRequest /\ asked' = NoRequest /\ toClient = <<>> /\ content' = content
      /\ answer' = answer /\ torn' = torn
  BY DEF ReceiveNothing, database, net
<1>2. ~Answered
  <2>1. ASSUME Answered
        PROVE  FALSE
    <3>1. answer.response \in Responses /\ toClient = Response_packet(answer.response)
      BY <1>1, <2>1 DEF AnswerInv, AnswerFits
    <3> QED BY <1>1, <3>1, ResponseTyped
  <2> QED BY <2>1
<1>3. ~Answered'
  BY <1>1, <1>2 DEF Answered
<1>4. Waits' /\ (~torn' => WritableData')
  BY <1>1, NotAsks DEF AnswerInv, Waits, WritableData
<1> QED BY <1>3, <1>4 DEF AnswerInv, ResultMeansAnswer

\* The thread answers the call that waits, which it has not answered, or no call.
LEMMA NotAnswered ==
  ASSUME AnswerInv, toServer # <<>>
  PROVE  Answered => asked = NoRequest
BY DEF AnswerInv

LEMMA NoneAnswered ==
  ASSUME AnswerInv, toServer # <<>>, Takes, UNCHANGED <<answer, outcome>>, UNCHANGED database
  PROVE  AnswerInv'
<1>1. asked' = asked /\ (~torn' => ~torn) /\ content' = content
  BY DEF Takes, database
<1>2. Answered' => Answered /\ asked' = NoRequest
  BY <1>1, NotAnswered DEF Answered
<1>3. Waits'
  BY <1>1 DEF AnswerInv, Waits, FitsSchema
<1>4. ~torn' => WritableData'
  BY <1>1 DEF AnswerInv, WritableData
<1>5. ResultMeansAnswer'
  BY <1>1, <1>2 DEF AnswerInv, ResultMeansAnswer, Means
<1> QED BY <1>2, <1>3, <1>4, <1>5 DEF AnswerInv, AnswerFits

LEMMA OneAnswered ==
  ASSUME ClientInv, AnswerInv, Takes, NEW req, handle_request(req),
         req.command \in {"Insert", "Update"} => req.values \in Seq(Value),
         toClient' = toClient \o Response_packet(call'.response), answer' = call',
         ~torn' => asked \in Asks /\ req = asked /\ toClient = <<>>
  PROVE  AnswerInv'
<1>1. asked' = asked /\ (~torn' => ~torn /\ toServer' = <<>>)
  BY DEF Takes
<1>2. Waits'
  BY <1>1 DEF AnswerInv, Waits, FitsSchema
<1>3. CASE torn'
  BY <1>2, <1>3 DEF AnswerInv, Answered, ResultMeansAnswer
<1>4. CASE ~torn'
  <2>1. asked \in Asks /\ req = asked /\ WritableData /\ DataInv /\ FitsSchema(req)
    BY <1>1, <1>4 DEF AnswerInv, Waits, ClientInv
  <2>2. AnswersWell(req)
    BY <2>1, AnsweredWell
  <2>3. Handled(req)
    BY <2>1, RequestHandled
  <2>4. WritableData'
    <3>1. req.command \in {"Insert", "Update"} => req.values \in Seq(Writable)
      BY <2>1 DEF FitsSchema, FitsColumns
    <3> QED BY <2>1, <3>1, StaysWritable
  <2>5. PICK response : response = call'.response
    OBVIOUS
  <2>6. answer'.request = req /\ answer'.response = response /\ response \in Responses
    BY <2>3, <2>5 DEF Handled
  <2>7. AnswerFits(req, response)
    BY <2>2, <2>5, <2>6 DEF AnswersWell, AnswerFits
  <2>8. toClient' = Response_packet(response)
    <3>1. PICK packet : packet = Response_packet(response)
      OBVIOUS
    <3>2. packet \in Seq(Int)
      BY <2>6, <3>1, ResponseTyped
    <3>3. toClient' = <<>> \o packet
      BY <1>4, <2>5, <3>1
    <3> QED BY <3>1, <3>2, <3>3, ConcatEmptySeq
  <2>9. asked' # NoRequest
    BY <1>1, <2>1, NotAsks
  <2>10. ResultMeansAnswer'
    BY <2>9 DEF ResultMeansAnswer
  <2>11. answer'.request \in Asks /\ AnswerFits(answer'.request, answer'.response)
    BY <2>1, <2>6, <2>7
  <2>12. toServer' = <<>> /\ toClient' = Response_packet(answer'.response)
    BY <1>1, <1>4, <2>6, <2>8
  <2> QED BY <1>2, <2>4, <2>10, <2>11, <2>12 DEF AnswerInv, AnswerFits
<1> QED BY <1>3, <1>4

LEMMA ServeAnswers ==
  ASSUME ClientInv, AnswerInv, Serve
  PROVE  AnswerInv'
<1>1. PICK read : Takes /\ toServer # <<>> /\ Served(read) /\ ReadWell(read)
  BY ServeSteps
<1>2. outcome' = outcome
  BY DEF Serve
<1>3. CASE UNCHANGED answer /\ UNCHANGED database
  BY <1>1, <1>2, <1>3, NoneAnswered
<1>4. CASE /\ read.status = "read" /\ read.request.command # "Exit"
           /\ handle_request(read.request)
           /\ toClient' = toClient \o Response_packet(call'.response)
           /\ answer' = call'
  <2>1. PICK req : req = read.request
    OBVIOUS
  <2>2. req.command \in {"Insert", "Update"} => req.values \in Seq(Value)
    BY <1>1, <1>4, <2>1 DEF ReadWell
  <2>3. ~torn' => asked \in Asks /\ req = asked /\ toClient = <<>>
    BY <1>1, <1>4, <2>1 DEF ReadWell
  <2> QED BY <1>1, <1>4, <2>1, <2>2, <2>3, OneAnswered
<1> QED BY <1>1, <1>3, <1>4 DEF Served, End

LEMMA OthersAnswer ==
  ASSUME ClientInv, AnswerInv, Others
  PROVE  AnswerInv'
<1>1. PICK req \in Requests : handle_request(req)
  BY DEF Others, Next
<1>2. UNCHANGED <<net, asked, answer, outcome>>
  BY DEF Others
<1>3. req.command \in {"Insert", "Update"} => req.values \in Seq(Writable)
  BY ClientAssumption
<1>4. ~torn' => WritableData'
  BY <1>1, <1>2, <1>3, StaysWritable DEF ClientInv, AnswerInv, net
<1>5. Waits'
  BY <1>2 DEF AnswerInv, Waits, FitsSchema
<1>6. ResultMeansAnswer'
  BY <1>2 DEF AnswerInv, ResultMeansAnswer, Means, Answered, net
<1>7. Answered' => Answered
  BY <1>2 DEF Answered, net
<1> QED BY <1>2, <1>4, <1>5, <1>6, <1>7 DEF AnswerInv, AnswerFits, net

LEMMA InitAnswers ==
  ASSUME ClientInit
  PROVE  AnswerInv
<1>1. ~Answered /\ asked = NoRequest
  BY DEF ClientInit, Answered, NoAnswer
<1>2. WritableData
  <2>1. ASSUME NEW t \in TableIds, NEW o \in DOMAIN content[t]
        PROVE  content[t][o].row_values \in Seq(Writable)
    <3>1. PICK rows : rows = Stored[t]
      OBVIOUS
    <3>2. rows \in Seq(Seq(Writable))
      BY <3>1, ClientAssumption
    <3>3. content[t] = [x \in DOMAIN rows |-> [version |-> 1, row_values |-> rows[x]]]
      BY <3>1 DEF ClientInit
    <3>4. o \in DOMAIN rows /\ content[t][o].row_values = rows[o]
      BY <2>1, <3>3
    <3> QED BY <3>2, <3>4, LenProperties, ElementOfSeq
  <2> QED BY <2>1 DEF WritableData
<1> QED BY <1>1, <1>2, NotAsks DEF AnswerInv, Waits, ResultMeansAnswer

LEMMA UnchangedAnswers ==
  ASSUME AnswerInv, UNCHANGED clientVars
  PROVE  AnswerInv'
<1>1. Waits' /\ (~torn' => WritableData')
  BY DEF clientVars, AnswerInv, Waits, FitsSchema, WritableData
<1>2. ResultMeansAnswer' /\ (Answered' => Answered)
  BY DEF clientVars, AnswerInv, ResultMeansAnswer, Means, Answered
<1> QED BY <1>1, <1>2 DEF clientVars, AnswerInv, AnswerFits

LEMMA StepAnswers ==
  ASSUME ClientInv, AnswerInv, [ClientNext]_clientVars
  PROVE  AnswerInv'
BY ProgramAnswers, ReceiveAnswers, ReceiveNothingAnswers, ServeAnswers, OthersAnswer,
   UnchangedAnswers DEF ClientNext

\* While the connection is not torn, the call that waits is one the client lets pass; once
\* it is answered nothing more is there to read but the packet of that answer.
THEOREM AnswerInvariance == ClientSpec => []AnswerInv
<1>1. ClientInit => AnswerInv
  BY InitAnswers
<1>2. ClientInv /\ AnswerInv /\ [ClientNext]_clientVars => AnswerInv'
  BY StepAnswers
<1> QED BY <1>1, <1>2, ClientInvariance, PTL DEF ClientSpec

\* A call returns or raises what the response of the server to it means: the exception that
\* exception.py has for an error, the stored row for a get.
THEOREM ResultsMeanAnswers == ClientSpec => []ResultMeansAnswer
<1>1. AnswerInv => ResultMeansAnswer
  BY DEF AnswerInv
<1> QED BY <1>1, AnswerInvariance, PTL
=============================================================================
