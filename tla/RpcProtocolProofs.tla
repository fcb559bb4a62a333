------------------------- MODULE RpcProtocolProofs -------------------------
(***************************************************************************)
(* Theorems about RpcProtocol, for every width of a byte and of the types, *)
(* every service, every program and wherever the streams are cut.          *)
(***************************************************************************)
EXTENDS RpcProtocol, SequenceFacts

-----------------------------------------------------------------------------
\* What is computed step by step

\* f[i] is what there is after i steps: step[i] makes it of what there was.
Computes(f, n, x, step) ==
  f = [i \in 0..n |-> IF i = 0 THEN x ELSE step[i][f[i - 1]]]

LEMMA ComputesSteps ==
  ASSUME NEW n \in Nat, NEW x, NEW step, NEW f, Computes(f, n, x, step)
  PROVE  f[0] = x /\ \A i \in 1..n : f[i] = step[i][f[i - 1]]
<1>1. 0 \in 0..n /\ \A i \in 1..n : i \in 0..n /\ i # 0
  OBVIOUS
<1> QED BY <1>1 DEF Computes

LEMMA ComputesExists ==
  ASSUME NEW n \in Nat, NEW x, NEW step
  PROVE  \E f : Computes(f, n, x, step)
<1> DEFINE S == {m \in 1..n : \E f : Computes(f, m, x, step)}
<1>1. \E f : Computes(f, 0, x, step)
  <2>1. Computes([i \in 0..0 |-> x], 0, x, step)
    BY DEF Computes
  <2> QED BY <2>1
<1>2. ASSUME NEW m \in Nat, NEW f, Computes(f, m, x, step)
      PROVE  \E g : Computes(g, m + 1, x, step)
  <2>1. PICK g : g = [i \in 0..(m + 1) |-> IF i = m + 1 THEN step[i][f[m]] ELSE f[i]]
    OBVIOUS
  <2>2. ASSUME NEW i \in 0..(m + 1)
        PROVE  g[i] = IF i = 0 THEN x ELSE step[i][g[i - 1]]
    <3>1. CASE i = m + 1
      <4>1. m \in 0..(m + 1) /\ m # m + 1 /\ i # 0 /\ i - 1 = m
        BY <3>1
      <4>2. g[m] = f[m] /\ g[i] = step[i][f[m]]
        BY <2>1, <3>1, <4>1
      <4> QED BY <4>1, <4>2
    <3>2. CASE i # m + 1
      <4>1. i \in 0..m /\ g[i] = f[i] /\ (i # 0 => g[i - 1] = f[i - 1])
        BY <2>1, <3>2
      <4> QED BY <1>2, <4>1 DEF Computes
    <3> QED BY <3>1, <3>2
  <2>3. Computes(g, m + 1, x, step)
    BY <2>1, <2>2 DEF Computes
  <2> QED BY <2>3
<1>3. 1 \in S \/ n = 0
  <2>1. \E f : Computes(f, 0 + 1, x, step)
    BY <1>1, <1>2
  <2> QED BY <2>1
<1>4. ASSUME NEW m \in 1..n, m + 1 <= n, m \in S
      PROVE  m + 1 \in S
  BY <1>2, <1>4
<1>5. 1..n \subseteq S
  BY <1>3, <1>4, Upwards
<1> QED BY <1>1, <1>5

LEMMA ComputesType ==
  ASSUME NEW n \in Nat, NEW S, NEW x \in S, NEW step \in [1..n -> [S -> S]],
         NEW f, Computes(f, n, x, step)
  PROVE  \A i \in 0..n : f[i] \in S
<1> DEFINE R == {i \in 1..n : f[i] \in S}
<1>1. f[0] = x /\ \A i \in 1..n : f[i] = step[i][f[i - 1]]
  BY ComputesSteps
<1>2. 1 \in R \/ n = 0
  <2>1. ASSUME n # 0 PROVE f[1] \in S
    <3>1. 1 \in 1..n /\ 1 - 1 = 0
      BY <2>1
    <3>2. f[1] = step[1][x]
      BY <1>1, <3>1
    <3>3. step[1] \in [S -> S]
      BY <3>1
    <3> QED BY <3>2, <3>3
  <2> QED BY <2>1
<1>3. ASSUME NEW i \in 1..n, i + 1 <= n, i \in R
      PROVE  i + 1 \in R
  <2>1. i + 1 \in 1..n /\ (i + 1) - 1 = i
    BY <1>3
  <2>2. f[i + 1] = step[i + 1][f[i]] /\ f[i] \in S
    BY <1>1, <1>3, <2>1
  <2>3. step[i + 1] \in [S -> S]
    BY <2>1
  <2> QED BY <2>1, <2>2, <2>3
<1>4. 1..n \subseteq R
  BY <1>2, <1>3, Upwards
<1> QED BY <1>1, <1>4

LEMMA ComputesUnique ==
  ASSUME NEW n \in Nat, NEW n2 \in Nat, n <= n2, NEW x, NEW step, NEW step2,
         \A i \in 1..n : step[i] = step2[i],
         NEW f, NEW g, Computes(f, n, x, step), Computes(g, n2, x, step2)
  PROVE  f[n] = g[n]
<1> DEFINE R == {i \in 1..n : f[i] = g[i]}
<1>1. f[0] = x /\ \A i \in 1..n : f[i] = step[i][f[i - 1]]
  BY ComputesSteps
<1>2. g[0] = x /\ \A i \in 1..n2 : g[i] = step2[i][g[i - 1]]
  BY ComputesSteps
<1>3. ASSUME NEW i \in 1..n, f[i - 1] = g[i - 1]
      PROVE  f[i] = g[i]
  BY <1>1, <1>2, <1>3
<1>4. 1 \in R \/ n = 0
  BY <1>1, <1>2, <1>3
<1>5. ASSUME NEW i \in 1..n, i + 1 <= n, i \in R
      PROVE  i + 1 \in R
  BY <1>3, <1>5
<1>6. 1..n \subseteq R
  BY <1>4, <1>5, Upwards
<1> QED BY <1>1, <1>2, <1>6

-----------------------------------------------------------------------------
\* Numbers and their bytes

Wider(n) == [i \in 1..n |-> [v \in Int |-> ByteValues * v]]

LEMMA PowerComputed ==
  ASSUME NEW n \in Nat
  PROVE  \E p : /\ Computes(p, n, 1, Wider(n)) /\ Power(n) = p[n]
                /\ \A i \in 0..n : p[i] \in Int
<1> DEFINE power == CHOOSE p : p = [k \in 0..n |-> IF k = 0 THEN 1 ELSE ByteValues * p[k - 1]]
<1>1. Wider(n) \in [1..n -> [Int -> Int]]
  BY ProtocolAssumption DEF Wider
<1>2. PICK f : Computes(f, n, 1, Wider(n))
  BY ComputesExists
<1>3. \A i \in 0..n : f[i] \in Int
  <2>1. 1 \in Int
    OBVIOUS
  <2> QED BY ONLY <1>1, <1>2, <2>1, n \in Nat, ComputesType
<1>4. f = [k \in 0..n |-> IF k = 0 THEN 1 ELSE ByteValues * f[k - 1]]
  <2>1. ASSUME NEW k \in 0..n, k # 0
        PROVE  Wider(n)[k][f[k - 1]] = ByteValues * f[k - 1]
    <3>1. k \in 1..n /\ k - 1 \in 0..n
      BY <2>1
    <3> QED BY <1>3, <3>1 DEF Wider
  <2> QED BY <1>2, <2>1 DEF Computes
<1>5. power = [k \in 0..n |-> IF k = 0 THEN 1 ELSE ByteValues * power[k - 1]]
  BY <1>4
<1>6. Power(n) = power[n]
  BY DEF Power
<1> HIDE DEF power
<1>7. \A i \in 0..n : power[i] = f[i]
  <2> DEFINE R == {i \in 1..n : power[i] = f[i]}
  <2>1. power[0] = 1 /\ f[0] = 1 /\ \A k \in 1..n : power[k] = ByteValues * power[k - 1] /\ f[k] = ByteValues * f[k - 1]
    BY <1>4, <1>5
  <2>2. 1 \in R \/ n = 0
    BY <2>1
  <2>3. ASSUME NEW i \in 1..n, i + 1 <= n, i \in R
        PROVE  i + 1 \in R
    BY <2>1, <2>3
  <2>4. 1..n \subseteq R
    BY <2>2, <2>3, Upwards
  <2> QED BY <2>1, <2>4
<1> QED BY <1>2, <1>3, <1>6, <1>7

\* A byte more has ByteValues times as many values.
LEMMA Powers ==
  /\ Power(0) = 1
  /\ \A n \in Nat : Power(n) \in Nat \ {0} /\ Power(n + 1) = ByteValues * Power(n)
<1>1. Power(0) = 1
  BY PowerComputed, ComputesSteps
<1>2. ASSUME NEW n \in Nat
      PROVE  Power(n) \in Int /\ Power(n + 1) = ByteValues * Power(n)
  <2>1. PICK f : Computes(f, n, 1, Wider(n)) /\ Power(n) = f[n] /\ \A i \in 0..n : f[i] \in Int
    BY PowerComputed
  <2>2. PICK g : /\ Computes(g, n + 1, 1, Wider(n + 1)) /\ Power(n + 1) = g[n + 1]
                 /\ \A i \in 0..(n + 1) : g[i] \in Int
    BY PowerComputed
  <2>3. \A i \in 1..n : Wider(n)[i] = Wider(n + 1)[i]
    BY DEF Wider
  <2>4. f[n] = g[n]
    <3>1. n + 1 \in Nat /\ n <= n + 1
      OBVIOUS
    <3> QED BY ONLY <2>1, <2>2, <2>3, <3>1, n \in Nat, ComputesUnique
  <2>5. g[n + 1] = Wider(n + 1)[n + 1][g[n]]
    <3>1. n + 1 \in 1..(n + 1) /\ (n + 1) - 1 = n /\ n + 1 \in Nat
      OBVIOUS
    <3> QED BY <2>2, <3>1, ComputesSteps
  <2>6. Wider(n + 1)[n + 1][g[n]] = ByteValues * g[n]
    BY <2>2 DEF Wider
  <2> QED BY <2>1, <2>2, <2>4, <2>5, <2>6
<1>3. ASSUME NEW n \in Nat
      PROVE  Power(n) \in Nat \ {0}
  <2> DEFINE R == {m \in 1..n : Power(m) \in Nat \ {0}}
  <2>1. ASSUME NEW m \in Nat, Power(m) \in Nat \ {0}
        PROVE  Power(m + 1) \in Nat \ {0}
    <3>1. PICK p \in Nat \ {0} : p = Power(m)
      BY <2>1
    <3>2. PICK b \in Nat \ {0} : b = ByteValues
      BY ProtocolAssumption
    <3>3. b * p \in Nat \ {0}
      OBVIOUS
    <3> QED BY <1>2, <3>1, <3>2, <3>3
  <2>2. 1 \in R \/ n = 0
    <3>1. Power(0 + 1) \in Nat \ {0}
      BY <1>1, <2>1
    <3> QED BY <3>1
  <2>3. ASSUME NEW m \in 1..n, m + 1 <= n, m \in R
        PROVE  m + 1 \in R
    BY <2>1, <2>3
  <2>4. 1..n \subseteq R
    BY <2>2, <2>3, Upwards
  <2> QED BY <1>1, <2>4
<1> QED BY <1>1, <1>2, <1>3

\* The arithmetic of one byte
LEMMA Division ==
  ASSUME NEW n \in Int, NEW d \in Nat \ {0}
  PROVE  n \div d \in Int /\ n % d \in 0..(d - 1) /\ n = d * (n \div d) + (n % d)
<1>1. PICK q, r : q = n \div d /\ r = n % d
  OBVIOUS
<1>2. n = d * q + r
  BY <1>1, SMTT(30)
<1>3. q \in Int /\ r \in 0..(d - 1)
  BY <1>1
<1>4. d * (n \div d) + (n % d) = d * q + r
  BY ONLY <1>1, Zenon
<1> QED BY ONLY <1>1, <1>2, <1>3, <1>4

LEMMA Remainder ==
  ASSUME NEW d \in Nat \ {0}, NEW q \in Int, NEW r \in 0..(d - 1), NEW n, n = d * q + r
  PROVE  n % d = r
BY SMTT(30)

LEMMA OneByte ==
  ASSUME NEW n \in Int, NEW p \in Nat \ {0}, NEW b \in Nat \ {0}
  PROVE  n % (b * p) = (n % p) + p * ((n \div p) % b)
<1>a. PICK pb : pb = b * p
  OBVIOUS
<1>1. PICK q \in Int, r \in 0..(p - 1) : q = n \div p /\ r = n % p /\ n = p * q + r
  BY Division
<1>2. PICK u \in Int, v \in 0..(b - 1) : v = q % b /\ q = b * u + v
  BY Division
<1>3. p * q = p * (b * u + v)
  BY <1>2
<1>4. p * (b * u + v) = pb * u + p * v
  BY <1>a
<1>5. n = pb * u + (r + p * v)
  <2>1. PICK x \in Int, y \in Int, z \in Int : x = p * q /\ y = pb * u /\ z = p * v
    BY <1>a
  <2>2. n = x + r /\ x = y + z /\ r \in Int
    BY <1>1, <1>3, <1>4, <2>1
  <2>3. n = y + (r + z)
    BY ONLY <2>2, x \in Int, y \in Int, z \in Int
  <2> QED BY <2>1, <2>3
<1>6. p * v \in Int /\ 0 <= p * v /\ p * v <= p * (b - 1)
  OBVIOUS
<1>7. p * (b - 1) = pb - p /\ pb \in Nat \ {0}
  BY <1>a
<1>8. r + p * v \in 0..(pb - 1)
  BY <1>6, <1>7
<1>9. n % pb = r + p * v
  <2>1. PICK w : w = r + p * v
    OBVIOUS
  <2>2. w \in 0..(pb - 1) /\ n = pb * u + w /\ pb \in Nat \ {0} /\ u \in Int
    BY <1>2, <1>5, <1>7, <1>8, <2>1
  <2>3. n % pb = w
    BY ONLY <2>2, Remainder
  <2> QED BY <2>1, <2>3
<1> QED BY <1>a, <1>1, <1>2, <1>9

Adds(bytes) == [k \in 1..Len(bytes) |-> [v \in Int |-> v + Power(k - 1) * bytes[k]]]

\* What Number adds up
LEMMA NumberComputed ==
  ASSUME NEW bytes \in Seq(Int), NEW n \in Nat, n = Len(bytes)
  PROVE  \E low : /\ low[0] = 0 /\ Number(bytes) = low[n]
                  /\ \A k \in 1..n : low[k] = low[k - 1] + Power(k - 1) * bytes[k]
<1> DEFINE low == CHOOSE f : f = [k \in 0..n |->
                    IF k = 0 THEN 0 ELSE f[k - 1] + Power(k - 1) * bytes[k]]
<1>1. \A k \in 1..n : k - 1 \in Nat /\ Power(k - 1) \in Int /\ bytes[k] \in Int
  BY Powers, ElementOfSeq
<1>2. Adds(bytes) \in [1..n -> [Int -> Int]]
  BY <1>1 DEF Adds
<1>3. PICK f : Computes(f, n, 0, Adds(bytes))
  BY ComputesExists
<1>4. \A i \in 0..n : f[i] \in Int
  <2>1. 0 \in Int
    OBVIOUS
  <2> QED BY ONLY <1>2, <1>3, <2>1, n \in Nat, ComputesType
<1>5. f = [k \in 0..n |-> IF k = 0 THEN 0 ELSE f[k - 1] + Power(k - 1) * bytes[k]]
  <2>1. ASSUME NEW k \in 0..n, k # 0
        PROVE  Adds(bytes)[k][f[k - 1]] = f[k - 1] + Power(k - 1) * bytes[k]
    <3>1. k \in 1..n /\ k - 1 \in 0..n
      BY <2>1
    <3> QED BY <1>4, <3>1 DEF Adds
  <2> QED BY <1>3, <2>1 DEF Computes
<1>6. low = [k \in 0..n |-> IF k = 0 THEN 0 ELSE low[k - 1] + Power(k - 1) * bytes[k]]
  BY <1>5
<1>7. Number(bytes) = low[n]
  BY DEF Number
<1> HIDE DEF low
<1>8. low[0] = 0 /\ \A k \in 1..n : low[k] = low[k - 1] + Power(k - 1) * bytes[k]
  BY <1>6
<1> QED BY <1>7, <1>8

\* The bytes of a number make the number again, as far as they can hold it.
LEMMA NumberOfBytes ==
  ASSUME NEW n \in Int, NEW size \in Nat, NEW bytes \in Seq(Int), Len(bytes) = size,
         \A i \in 1..size : bytes[i] = BytesOf(n, size)[i]
  PROVE  Number(bytes) = n % Power(size)
<1>1. PICK low : /\ low[0] = 0 /\ Number(bytes) = low[size]
                 /\ \A k \in 1..size : low[k] = low[k - 1] + Power(k - 1) * bytes[k]
  BY NumberComputed
<1> DEFINE R == {k \in 1..size : low[k] = n % Power(k)}
<1>2. low[0] = n % Power(0)
  <2>1. n % 1 = 0
    OBVIOUS
  <2> QED BY <1>1, <2>1, Powers
<1>3. ASSUME NEW k \in 0..(size - 1), low[k] = n % Power(k)
      PROVE  low[k + 1] = n % Power(k + 1)
  <2>1. k + 1 \in 1..size /\ (k + 1) - 1 = k /\ k \in Nat
    OBVIOUS
  <2>2. low[k + 1] = low[k] + Power(k) * bytes[k + 1]
    BY <1>1, <2>1
  <2>3. bytes[k + 1] = (n \div Power(k)) % ByteValues
    BY <2>1 DEF BytesOf
  <2>4. PICK p \in Nat \ {0}, b \in Nat \ {0} : p = Power(k) /\ b = ByteValues
    BY <2>1, Powers, ProtocolAssumption
  <2>a. PICK pb : pb = b * p
    OBVIOUS
  <2>5. n % pb = (n % p) + p * ((n \div p) % b)
    <3>1. n % (b * p) = (n % p) + p * ((n \div p) % b)
      BY ONLY n \in Int, p \in Nat \ {0}, b \in Nat \ {0}, OneByte, Zenon
    <3> QED BY <2>a, <3>1
  <2>6. Power(k + 1) = pb
    BY <2>1, <2>4, <2>a, Powers
  <2> QED BY <1>3, <2>2, <2>3, <2>4, <2>5, <2>6
<1>4. 1 \in R \/ size = 0
  <2>1. size # 0 => low[0 + 1] = n % Power(0 + 1)
    BY <1>2, <1>3
  <2> QED BY <2>1
<1>5. ASSUME NEW k \in 1..size, k + 1 <= size, k \in R
      PROVE  k + 1 \in R
  BY <1>3, <1>5
<1>6. 1..size \subseteq R
  BY <1>4, <1>5, Upwards
<1>7. low[size] = n % Power(size)
  BY <1>2, <1>6
<1> QED BY <1>1, <1>7

\* A number that fits is there again, and a negative one is its complement.
LEMMA NumberFits ==
  ASSUME NEW size \in Nat, NEW n \in Int, NEW p, p = Power(size), NEW m, m = n % p
  PROVE  /\ n \in 0..(p - 1) => m = n
         /\ -p <= 2 * n /\ 2 * n < p => n = IF 2 * m >= p THEN m - p ELSE m
<1>1. p \in Nat \ {0}
  BY Powers
<1>2. ASSUME n \in 0..(p - 1) PROVE m = n
  <2>1. PICK r \in 0..(p - 1) : r = n
    BY <1>2
  <2>2. n = p * 0 + r /\ 0 \in Int
    <3>1. p * 0 = 0
      BY <1>1
    <3> QED BY <2>1, <3>1
  <2>3. n % p = r
    BY ONLY <1>1, <2>2, r \in 0..(p - 1), Remainder
  <2> QED BY <2>1, <2>3
<1>3. ASSUME n < 0, -p <= 2 * n PROVE m = n + p
  <2>1. n = p * (-1) + (n + p) /\ n + p \in 0..(p - 1)
    <3>1. p * (-1) = -p
      BY <1>1
    <3> QED BY <1>1, <1>3, <3>1
  <2>2. PICK r \in 0..(p - 1) : r = n + p
    BY <2>1
  <2>3. n = p * (-1) + r /\ -1 \in Int
    BY <1>1, <2>1, <2>2
  <2>4. n % p = r
    BY ONLY <1>1, <2>3, r \in 0..(p - 1), Remainder
  <2> QED BY <2>2, <2>4
<1> QED BY <1>1, <1>2, <1>3

-----------------------------------------------------------------------------
\* Parts of sequences

\* The first k elements, and those after them
LEMMA FirstPart ==
  ASSUME NEW T, NEW b \in Seq(T), NEW k \in Nat, k <= Len(b), NEW s, s = SubSeq(b, 1, k)
  PROVE  s \in Seq(T) /\ Len(s) = k /\ \A i \in 1..k : s[i] = b[i]
<1>1. PICK n \in Nat : n = Len(b) /\ DOMAIN b = 1..n /\ k <= n
  BY LenProperties
<1>2. \A i \in 1..k : b[i] \in T
  BY <1>1, ElementOfSeq
<1>3. /\ SubSeq(b, 1, k) \in Seq(T)
      /\ Len(SubSeq(b, 1, k)) = IF 1 <= k THEN k - 1 + 1 ELSE 0
      /\ \A i \in 1..(k - 1 + 1) : SubSeq(b, 1, k)[i] = b[1 + i - 1]
  BY <1>2, SubSeqProperties
<1> QED BY <1>3

LEMMA RestPart ==
  ASSUME NEW T, NEW b \in Seq(T), NEW k \in Nat, k <= Len(b), NEW s,
         s = SubSeq(b, k + 1, Len(b))
  PROVE  s \in Seq(T) /\ Len(s) = Len(b) - k /\ \A i \in 1..Len(s) : s[i] = b[k + i]
<1>1. PICK n \in Nat : n = Len(b) /\ DOMAIN b = 1..n /\ k <= n
  BY LenProperties
<1>2. \A i \in (k + 1)..n : b[i] \in T
  BY <1>1, ElementOfSeq
<1>3. /\ SubSeq(b, k + 1, n) \in Seq(T)
      /\ Len(SubSeq(b, k + 1, n)) = IF k + 1 <= n THEN n - (k + 1) + 1 ELSE 0
      /\ \A i \in 1..(n - (k + 1) + 1) : SubSeq(b, k + 1, n)[i] = b[k + 1 + i - 1]
  BY <1>1, <1>2, SubSeqProperties
<1>4. Len(s) = n - k /\ s \in Seq(T)
  BY <1>1, <1>3
<1>5. ASSUME NEW i \in 1..(n - k) PROVE s[i] = b[k + i]
  <2>1. i \in 1..(n - (k + 1) + 1) /\ k + 1 + i - 1 = k + i
    OBVIOUS
  <2> QED BY <1>1, <1>3, <2>1
<1> QED BY <1>1, <1>4, <1>5

\* An element of two sequences in a row
Joined(s, a, b) ==
  /\ Len(s) = Len(a) + Len(b)
  /\ \A i \in 1..Len(a) : s[i] = a[i]
  /\ \A i \in 1..Len(b) : s[Len(a) + i] = b[i]

LEMMA ElementOf ==
  ASSUME NEW T, NEW a \in Seq(T), NEW b \in Seq(T), NEW s, s = a \o b
  PROVE  s \in Seq(T) /\ Joined(s, a, b)
<1>1. PICK m \in Nat, n \in Nat : m = Len(a) /\ n = Len(b)
  BY LenProperties
<1>2. s \in Seq(T) /\ Len(s) = m + n
  BY <1>1, ConcatProperties
<1>3. \A i \in 1..(m + n) : s[i] = IF i <= m THEN a[i] ELSE b[i - m]
  BY <1>1, ConcatProperties
<1>4. ASSUME NEW i \in 1..m PROVE s[i] = a[i]
  <2>1. i \in 1..(m + n) /\ i <= m
    OBVIOUS
  <2> QED BY <1>3, <2>1
<1>5. ASSUME NEW i \in 1..n PROVE s[m + i] = b[i]
  <2>1. m + i \in 1..(m + n) /\ ~(m + i <= m) /\ (m + i) - m = i
    OBVIOUS
  <2> QED BY <1>3, <2>1
<1> QED BY <1>1, <1>2, <1>4, <1>5 DEF Joined

\* b begins with x, or ends before x does.
Begins(b, x) == \A i \in 1..Len(b) : i <= Len(x) => b[i] = x[i]

LEMMA BeginsWhole ==
  ASSUME NEW T, NEW b \in Seq(T), NEW x \in Seq(T), Begins(b, x), Len(x) <= Len(b)
  PROVE  SubSeq(b, 1, Len(x)) = x
<1>0. PICK k \in Nat : k = Len(x)
  BY LenProperties
<1>1. PICK s : k = Len(x) /\ s = SubSeq(b, 1, k)
  BY <1>0
<1>2. s \in Seq(T) /\ Len(s) = k /\ \A i \in 1..k : s[i] = b[i]
  BY <1>1, FirstPart
<1>3. \A i \in 1..k : s[i] = x[i]
  <2>1. PICK n \in Nat : n = Len(b) /\ k <= n
    BY <1>1, LenProperties
  <2> QED BY <1>1, <1>2, <2>1 DEF Begins
<1>4. s = x
  BY <1>1, <1>2, <1>3, SeqEqual
<1> QED BY <1>1, <1>4

\* What is in two places in a row begins with the first message; without it the rest is.
LEMMA FirstMessage ==
  ASSUME NEW T, NEW b \in Seq(T), NEW c \in Seq(T), NEW x \in Seq(T), NEW r \in Seq(T),
         b \o c = x \o r
  PROVE  /\ Begins(b, x)
         /\ Len(x) <= Len(b) => SubSeq(b, Len(x) + 1, Len(b)) \o c = r
         /\ Len(b) + Len(c) = Len(x) + Len(r)
<1>1. PICK kb \in Nat, kc \in Nat, kx \in Nat, kr \in Nat :
        kb = Len(b) /\ kc = Len(c) /\ kx = Len(x) /\ kr = Len(r)
  BY LenProperties
<1>2. PICK s : s = b \o c /\ s = x \o r
  OBVIOUS
<1>a. s = b \o c
  BY <1>2
<1>b. s = x \o r
  BY <1>2
<1>3. /\ Len(s) = kb + kc /\ \A i \in 1..kb : s[i] = b[i]
      /\ \A i \in 1..kc : s[kb + i] = c[i]
  BY ONLY <1>1, <1>a, b \in Seq(T), c \in Seq(T), ElementOf DEF Joined
<1>4. /\ Len(s) = kx + kr /\ \A i \in 1..kx : s[i] = x[i]
      /\ \A i \in 1..kr : s[kx + i] = r[i]
  BY ONLY <1>1, <1>b, x \in Seq(T), r \in Seq(T), ElementOf DEF Joined
<1>5. Begins(b, x)
  BY <1>1, <1>3, <1>4 DEF Begins
<1>6. ASSUME kx <= kb
      PROVE  SubSeq(b, kx + 1, kb) \o c = r
  <2>1. PICK d : d = SubSeq(b, kx + 1, kb)
    OBVIOUS
  <2>2. d \in Seq(T) /\ Len(d) = kb - kx /\ \A i \in 1..(kb - kx) : d[i] = b[kx + i]
    BY <1>1, <1>6, <2>1, RestPart
  <2>3. PICK e : e = d \o c
    OBVIOUS
  <2>b. PICK kd \in Nat : kd = kb - kx
    BY <1>6
  <2>c. d \in Seq(T) /\ Len(d) = kd
    BY <2>2, <2>b
  <2>d. /\ e \in Seq(T) /\ Len(e) = kd + kc
        /\ \A i \in 1..kd : e[i] = d[i]
        /\ \A i \in 1..kc : e[kd + i] = c[i]
    <3>1. /\ e \in Seq(T) /\ Len(e) = Len(d) + Len(c)
          /\ \A i \in 1..Len(d) : e[i] = d[i]
          /\ \A i \in 1..Len(c) : e[Len(d) + i] = c[i]
      <4>1. e \in Seq(T) /\ Joined(e, d, c)
        BY ONLY <2>c, <2>3, c \in Seq(T), ElementOf
      <4> QED BY ONLY <4>1 DEF Joined
    <3> QED BY ONLY <1>1, <2>c, <3>1
  <2>4. /\ e \in Seq(T) /\ Len(e) = (kb - kx) + kc
        /\ \A i \in 1..(kb - kx) : e[i] = d[i]
        /\ \A i \in 1..kc : e[(kb - kx) + i] = c[i]
    BY <2>b, <2>d
  <2>5. ASSUME NEW i \in 1..kr
        PROVE  e[i] = r[i]
    <3>1. s[kx + i] = r[i]
      BY <1>4
    <3>2. CASE i <= kb - kx
      <4>1. i \in 1..(kb - kx) /\ kx + i \in 1..kb
        BY <3>2
      <4> QED BY <1>3, <2>2, <2>4, <3>1, <4>1
    <3>3. CASE i > kb - kx
      <4>1. PICK j \in 1..kc : i = (kb - kx) + j
        <5>1. i - (kb - kx) \in 1..kc
          BY <1>3, <1>4, <1>6, <3>3
        <5> QED BY <5>1
      <4>2. kx + i = kb + j
        BY <4>1
      <4> QED BY <1>3, <2>4, <3>1, <4>1, <4>2
    <3> QED BY <1>6, <3>2, <3>3
  <2>6. Len(e) = kr
    BY <1>3, <1>4, <2>4
  <2>7. e = r
    BY <1>1, <2>4, <2>5, <2>6, SeqEqual
  <2> QED BY <2>1, <2>3, <2>7
<1> QED BY <1>1, <1>3, <1>4, <1>5, <1>6

\* A read moves the beginning of a stream to the end of what was read before.
Moved(T, a, s, u, v) == u \in Seq(T) /\ v \in Seq(T) /\ (a \o u) \o v = a \o s

LEMMA ReadMoves ==
  ASSUME NEW T, NEW a \in Seq(T), NEW s \in Seq(T), NEW n \in Nat, n <= Len(s),
         NEW u, u = SubSeq(s, 1, n), NEW v, v = SubSeq(s, n + 1, Len(s))
  PROVE  Moved(T, a, s, u, v)
<1>1. u \in Seq(T) /\ Len(u) = n /\ \A i \in 1..n : u[i] = s[i]
  BY FirstPart
<1>2. PICK k \in Nat : k = Len(s) /\ n <= k
  BY LenProperties
<1>3. v \in Seq(T) /\ Len(v) = k - n /\ \A i \in 1..(k - n) : v[i] = s[n + i]
  BY <1>2, RestPart
<1>4. PICK w : w = u \o v
  OBVIOUS
<1>a. PICK m \in Nat : m = k - n
  <2>1. k - n \in Nat
    BY <1>2
  <2> QED BY <2>1
<1>b. v \in Seq(T) /\ Len(v) = m
  BY <1>3, <1>a
<1>c. /\ w \in Seq(T) /\ Len(w) = n + m
      /\ \A i \in 1..n : w[i] = u[i]
      /\ \A i \in 1..m : w[n + i] = v[i]
  <2>1. /\ w \in Seq(T) /\ Len(w) = Len(u) + Len(v)
        /\ \A i \in 1..Len(u) : w[i] = u[i]
        /\ \A i \in 1..Len(v) : w[Len(u) + i] = v[i]
    <3>1. w \in Seq(T) /\ Joined(w, u, v)
      BY ONLY <1>1, <1>b, <1>4, ElementOf
    <3> QED BY ONLY <3>1 DEF Joined
  <2> QED BY ONLY <1>1, <1>b, <2>1
<1>5. /\ w \in Seq(T) /\ Len(w) = n + (k - n)
      /\ \A i \in 1..n : w[i] = u[i]
      /\ \A i \in 1..(k - n) : w[n + i] = v[i]
  BY <1>a, <1>c
<1>6. ASSUME NEW i \in 1..k PROVE w[i] = s[i]
  <2>1. CASE i <= n
    BY <1>1, <1>5, <2>1
  <2>2. CASE i > n
    <3>1. PICK j \in 1..(k - n) : i = n + j
      <4>1. i - n \in 1..(k - n)
        BY <2>2
      <4> QED BY <4>1
    <3> QED BY <1>3, <1>5, <3>1
  <2> QED BY <2>1, <2>2
<1>7. w = s
  <2>1. Len(w) = k
    BY <1>2, <1>5
  <2>2. w \in Seq(T) /\ Len(s) = k /\ \A i \in 1..k : w[i] = s[i]
    BY <1>2, <1>5, <1>6
  <2> QED BY ONLY <2>1, <2>2, s \in Seq(T), SeqEqual
<1>8. (a \o u) \o v = a \o w
  <2>1. Regroups(a, u, v)
    BY ONLY u \in Seq(T), v \in Seq(T), a \in Seq(T), <1>1, <1>3, Regrouped
  <2> QED BY <1>4, <2>1 DEF Regroups
<1> QED BY <1>1, <1>3, <1>7, <1>8 DEF Moved

-----------------------------------------------------------------------------
\* A value and its bytes

NumberTypes == {"int", "unsigned", "bool", "long"}
Types == NumberTypes \cup {"void", "string"}

LEMMA BytesTyped ==
  ASSUME NEW n \in Int, NEW size \in Nat
  PROVE  BytesOf(n, size) \in Seq(Int) /\ Len(BytesOf(n, size)) = size
<1>1. PICK w : w = BytesOf(n, size)
  OBVIOUS
<1>2. ASSUME NEW i \in 1..size PROVE w[i] \in Int
  <2>1. i - 1 \in Nat
    OBVIOUS
  <2>2. PICK p \in Nat \ {0} : p = Power(i - 1)
    BY <2>1, Powers
  <2>3. PICK q \in Int : q = n \div p
    BY Division
  <2>4. q % ByteValues \in Int
    BY ProtocolAssumption, Division
  <2> QED BY <1>1, <2>2, <2>3, <2>4 DEF BytesOf
<1>3. w = [i \in 1..size |-> w[i]]
  BY <1>1 DEF BytesOf
<1>4. w \in [1..size -> Int]
  BY ONLY <1>2, <1>3
<1>5. w \in Seq(Int) /\ Len(w) = size
  BY ONLY <1>3, <1>4, size \in Nat, SeqDef, LenProperties
<1> QED BY <1>1, <1>5

\* A number is what its bytes say, negative or not.
LEMMA NumberEncoded ==
  ASSUME NEW type \in NumberTypes, NEW x, Fits(type, x)
  PROVE  /\ Encode(type, x) = BytesOf(x, Size[type]) /\ x \in Int /\ Size[type] \in Nat
         /\ \A b \in Seq(Int) : /\ Needed(type, b) = Size[type]
                                /\ Number(SubSeq(b, 1, Size[type])) = x % Power(Size[type])
                                     => Decoded(type, b) = x
<1>1. PICK size \in Nat : size = Size[type]
  BY ProtocolAssumption DEF NumberTypes
<1>2. PICK p \in Nat \ {0} : p = Power(size)
  BY Powers
<1>3. Encode(type, x) = BytesOf(x, size)
  BY <1>1 DEF Encode, NumberTypes
<1>4. x \in Int /\ IF type = "int" THEN -p <= 2 * x /\ 2 * x < p ELSE x \in 0..(p - 1)
  <2>1. CASE type = "int"
    <3>1. x \in Int /\ -Power(Size[type]) <= 2 * x /\ 2 * x < Power(Size[type])
      BY <2>1 DEF Fits
    <3> QED BY <1>1, <1>2, <2>1, <3>1
  <2>2. CASE type # "int"
    <3>1. x \in Nat /\ x < Power(Size[type])
      BY <2>2 DEF Fits, NumberTypes
    <3> QED BY <1>1, <1>2, <2>2, <3>1
  <2> QED BY <2>1, <2>2
<1>5. ASSUME NEW b \in Seq(Int) PROVE Needed(type, b) = size
  BY <1>1 DEF Needed, NumberTypes
<1>6. PICK m : m = x % p
  OBVIOUS
<1>7. x = IF type = "int" THEN (IF 2 * m >= p THEN m - p ELSE m) ELSE m
  BY <1>2, <1>4, <1>6, NumberFits
<1>8. ASSUME NEW b \in Seq(Int), Number(SubSeq(b, 1, size)) = m
      PROVE  Decoded(type, b) = x
  <2>1. CASE type = "int"
    <3>1. Decoded(type, b) = IF 2 * m >= p THEN m - p ELSE m
      BY <1>1, <1>2, <1>8, <2>1 DEF Decoded
    <3> QED BY <1>7, <2>1, <3>1
  <2>2. CASE type # "int"
    <3>1. Decoded(type, b) = m
      BY <1>1, <1>8, <2>2 DEF Decoded, NumberTypes
    <3> QED BY <1>7, <2>2, <3>1
  <2> QED BY <2>1, <2>2
<1> QED BY <1>1, <1>2, <1>3, <1>4, <1>5, <1>6, <1>8

\* What Decode does with bytes that are those of a value, as far as they go
ReadsBack(type, x) ==
  /\ Encode(type, x) \in Seq(Int)
  /\ \A b \in Seq(Int) : Begins(b, Encode(type, x)) =>
       /\ Decodes(type, b) <=> Len(Encode(type, x)) <= Len(b)
       /\ Len(Encode(type, x)) <= Len(b) =>
            Needed(type, b) = Len(Encode(type, x)) /\ Decoded(type, b) = x

LEMMA BytesRead ==
  ASSUME NEW n \in Int, NEW size \in Nat, NEW b \in Seq(Int),
         Begins(b, BytesOf(n, size)), size <= Len(b)
  PROVE  Number(SubSeq(b, 1, size)) = n % Power(size)
<1>1. PICK w : w = BytesOf(n, size)
  OBVIOUS
<1>2. w \in Seq(Int) /\ Len(w) = size
  BY <1>1, BytesTyped
<1>3. SubSeq(b, 1, size) = w
  BY <1>1, <1>2, BeginsWhole
<1>4. \A i \in 1..size : w[i] = BytesOf(n, size)[i]
  BY <1>1
<1>5. Number(w) = n % Power(size)
  BY ONLY <1>2, <1>4, n \in Int, size \in Nat, NumberOfBytes
<1> QED BY <1>3, <1>5

LEMMA NumberReadsBack ==
  ASSUME NEW type \in NumberTypes, NEW x, Fits(type, x)
  PROVE  ReadsBack(type, x)
<1>1. PICK w, size : w = Encode(type, x) /\ size = Size[type]
  OBVIOUS
<1>2. w = BytesOf(x, size) /\ x \in Int /\ size \in Nat
  BY <1>1, NumberEncoded
<1>3. w \in Seq(Int) /\ Len(w) = size
  BY <1>2, BytesTyped
<1>4. ASSUME NEW b \in Seq(Int), Begins(b, w)
      PROVE  /\ Needed(type, b) = size
             /\ size <= Len(b) => Decoded(type, b) = x
  <2>1. Needed(type, b) = size
    BY <1>1, NumberEncoded
  <2>2. ASSUME size <= Len(b) PROVE Decoded(type, b) = x
    <3>1. Number(SubSeq(b, 1, size)) = x % Power(size)
      BY <1>2, <1>4, <2>2, BytesRead
    <3> QED BY <1>1, <3>1, NumberEncoded
  <2> QED BY <2>1, <2>2
<1>5. ASSUME NEW b \in Seq(Int), Begins(b, w)
      PROVE  Decodes(type, b) <=> Len(w) <= Len(b)
  <2>1. PICK n \in Nat : n = Len(b)
    BY LenProperties
  <2> QED BY <1>2, <1>3, <1>4, <1>5, <2>1 DEF Decodes
<1> QED BY <1>1, <1>3, <1>4, <1>5 DEF ReadsBack

LEMMA VoidReadsBack ==
  ASSUME NEW x, Fits("void", x)
  PROVE  ReadsBack("void", x)
<1>1. x = <<>> /\ Encode("void", x) = <<>>
  BY DEF Fits, Encode
<1>2. ASSUME NEW b \in Seq(Int)
      PROVE  Needed("void", b) = 0 /\ Decodes("void", b) /\ Decoded("void", b) = <<>>
  <2>1. PICK n \in Nat : n = Len(b)
    BY LenProperties
  <2> QED BY <2>1 DEF Needed, Decodes, Decoded
<1>3. Len(<<>>) = 0 /\ <<>> \in Seq(Int) /\ \A b \in Seq(Int) : 0 <= Len(b)
  BY LenProperties, EmptySeq
<1> QED BY <1>1, <1>2, <1>3 DEF ReadsBack

\* A part in the middle
LEMMA MiddlePart ==
  ASSUME NEW T, NEW b \in Seq(T), NEW k \in Nat, NEW n \in Nat, k + n <= Len(b),
         NEW s, s = SubSeq(b, k + 1, k + n)
  PROVE  s \in Seq(T) /\ Len(s) = n /\ \A i \in 1..n : s[i] = b[k + i]
<1>1. PICK m \in Nat : m = Len(b) /\ DOMAIN b = 1..m /\ k + n <= m
  BY LenProperties
<1>2. \A i \in (k + 1)..(k + n) : b[i] \in T
  BY <1>1, ElementOfSeq
<1>3. PICK l \in Nat : l = k + n
  OBVIOUS
<1>4. /\ SubSeq(b, k + 1, l) \in Seq(T)
      /\ Len(SubSeq(b, k + 1, l)) = IF k + 1 <= l THEN l - (k + 1) + 1 ELSE 0
      /\ \A i \in 1..(l - (k + 1) + 1) : SubSeq(b, k + 1, l)[i] = b[k + 1 + i - 1]
  BY <1>2, <1>3, SubSeqProperties
<1>5. ASSUME NEW i \in 1..n PROVE s[i] = b[k + i]
  <2>1. i \in 1..(l - (k + 1) + 1) /\ k + 1 + i - 1 = k + i
    BY <1>3
  <2> QED BY <1>3, <1>4, <2>1
<1> QED BY <1>3, <1>4, <1>5

\* What begins with two sequences in a row begins with the first, and goes on with the second.
GoesOn(b, a, c) ==
  /\ Begins(b, a)
  /\ \A i \in 1..Len(c) : Len(a) + i <= Len(b) => b[Len(a) + i] = c[i]
  /\ Len(a) <= Len(b) => Begins(SubSeq(b, Len(a) + 1, Len(b)), c)

LEMMA BeginsTwo ==
  ASSUME NEW T, NEW b \in Seq(T), NEW a \in Seq(T), NEW c \in Seq(T),
         NEW s, s = a \o c, Begins(b, s)
  PROVE  GoesOn(b, a, c)
<1>1. PICK m \in Nat, n \in Nat, l \in Nat : m = Len(a) /\ n = Len(c) /\ l = Len(b)
  BY LenProperties
<1>2. /\ Len(s) = m + n /\ \A i \in 1..m : s[i] = a[i]
      /\ \A i \in 1..n : s[m + i] = c[i]
  <2>1. Joined(s, a, c)
    BY ElementOf
  <2> QED BY <1>1, <2>1 DEF Joined
<1>3. \A i \in 1..l : i <= m + n => b[i] = s[i]
  BY <1>1, <1>2 DEF Begins
<1>4. Begins(b, a)
  BY <1>1, <1>2, <1>3 DEF Begins
<1>5. ASSUME NEW i \in 1..n, m + i <= l PROVE b[m + i] = c[i]
  <2>1. PICK j \in 1..l : j = m + i
    BY <1>5
  <2>2. j <= m + n /\ s[j] = c[i]
    BY <1>2, <2>1
  <2>3. b[j] = s[j]
    BY <1>3, <2>2
  <2> QED BY <2>1, <2>2, <2>3
<1>6. ASSUME m <= l
      PROVE  Begins(SubSeq(b, m + 1, l), c)
  <2>1. PICK r : r = SubSeq(b, m + 1, l)
    OBVIOUS
  <2>2. Len(r) = l - m /\ \A i \in 1..(l - m) : r[i] = b[m + i]
    BY <1>1, <1>6, <2>1, RestPart
  <2>3. \A i \in 1..(l - m) : i <= n => r[i] = c[i]
    BY <1>5, <2>2
  <2> QED BY <1>1, <2>1, <2>2, <2>3 DEF Begins
<1> QED BY <1>1, <1>4, <1>5, <1>6 DEF GoesOn

LEMMA StringReadsBack ==
  ASSUME NEW x, Fits("string", x)
  PROVE  ReadsBack("string", x)
<1>1. PICK n \in Nat, size \in Nat, p \in Nat \ {0} :
        n = Len(x) /\ size = LengthSize /\ p = Power(size)
  <2>1. Len(x) \in Nat /\ LengthSize \in Nat /\ Power(LengthSize) \in Nat \ {0}
    BY ProtocolAssumption, Powers, LenProperties DEF Fits
  <2> QED BY <2>1
<1>2. x \in Seq(Int) /\ n < p
  <2>1. x \in Seq(0..(ByteValues - 1)) /\ n < p
    BY <1>1 DEF Fits
  <2>2. \A i \in 1..n : x[i] \in Int
    BY <1>1, <2>1, ElementOfSeq, ProtocolAssumption
  <2> QED BY <1>1, <2>1, <2>2
<1>3. PICK w : w = BytesOf(n, size)
  OBVIOUS
<1>4. w \in Seq(Int) /\ Len(w) = size
  BY <1>3, BytesTyped
<1>5. PICK all : all = w \o x
  OBVIOUS
<1>6. Encode("string", x) = all
  BY <1>1, <1>3, <1>5 DEF Encode
<1>7. all \in Seq(Int) /\ Len(all) = size + n
  <2>1. all \in Seq(Int) /\ Joined(all, w, x)
    BY ONLY <1>2, <1>4, <1>5, ElementOf
  <2> QED BY ONLY <1>1, <1>4, <2>1 DEF Joined
<1>8. ASSUME NEW b \in Seq(Int), Begins(b, all)
      PROVE  /\ Decodes("string", b) <=> size + n <= Len(b)
             /\ size + n <= Len(b) =>
                  Needed("string", b) = size + n /\ Decoded("string", b) = x
  <2>1. PICK l \in Nat : l = Len(b)
    BY LenProperties
  <2>2. Begins(b, w) /\ \A i \in 1..n : size + i <= l => b[size + i] = x[i]
    <3>1. GoesOn(b, w, x)
      BY ONLY <1>2, <1>4, <1>5, <1>8, b \in Seq(Int), BeginsTwo
    <3> QED BY ONLY <1>1, <1>4, <2>1, <3>1 DEF GoesOn
  <2>3. CASE l < size
    <3>1. Needed("string", b) = size + 0
      BY <1>1, <2>1, <2>3 DEF Needed
    <3> QED BY <2>1, <2>3, <3>1 DEF Decodes
  <2>4. CASE size <= l
    <3>1. Number(SubSeq(b, 1, size)) = n % p
      BY <1>1, <1>3, <2>1, <2>2, <2>4, BytesRead
    <3>2. n % p = n
      <4>1. PICK m : m = n % p
        OBVIOUS
      <4>2. n \in 0..(p - 1)
        BY <1>2
      <4>3. m = n
        BY <1>1, <4>1, <4>2, NumberFits
      <4> QED BY <4>1, <4>3
    <3>3. Needed("string", b) = size + n
      BY <1>1, <2>1, <2>4, <3>1, <3>2 DEF Needed
    <3>4. ASSUME size + n <= l PROVE Decoded("string", b) = x
      <4>1. PICK s : s = SubSeq(b, size + 1, size + n)
        OBVIOUS
      <4>2. s \in Seq(Int) /\ Len(s) = n /\ \A i \in 1..n : s[i] = b[size + i]
        BY <2>1, <3>4, <4>1, MiddlePart
      <4>3. \A i \in 1..n : s[i] = x[i]
        <5>1. \A i \in 1..n : size + i <= l
          BY <3>4
        <5> QED BY <2>2, <4>2, <5>1
      <4>4. s = x
        BY <1>1, <1>2, <4>2, <4>3, SeqEqual
      <4>5. Decoded("string", b) = s
        BY <1>1, <3>3, <4>1 DEF Decoded
      <4> QED BY <4>4, <4>5
    <3> QED BY <2>1, <3>3, <3>4 DEF Decodes
  <2> QED BY <2>1, <2>3, <2>4
<1> QED BY <1>6, <1>7, <1>8 DEF ReadsBack

\* Every value of every type is read back from its bytes, wherever they are cut.
LEMMA ValueReadsBack ==
  ASSUME NEW type \in Types, NEW x, Fits(type, x)
  PROVE  ReadsBack(type, x)
BY NumberReadsBack, VoidReadsBack, StringReadsBack DEF Types

-----------------------------------------------------------------------------
\* Arguments

\* Arguments of their types
Fitting(params, args) ==
  /\ args = [k \in DOMAIN params |-> args[k]]
  /\ \A k \in DOMAIN params : Fits(params[k], args[k])

\* The bytes of the first k arguments
Part(params, args, k) ==
  FlattenSeq(SubSeq([j \in DOMAIN params |-> Encode(params[j], args[j])], 1, k))

LEMMA PartSteps ==
  ASSUME NEW params \in Seq(Types), NEW args, Fitting(params, args), NEW n \in Nat,
         n = Len(params)
  PROVE  /\ Part(params, args, 0) = <<>> /\ Part(params, args, n) = EncodeArgs(params, args)
         /\ \A k \in 0..n : Part(params, args, k) \in Seq(Int)
         /\ \A k \in 0..(n - 1) :
              Part(params, args, k + 1) = Part(params, args, k) \o Encode(params[k + 1], args[k + 1])
<1>1. DOMAIN params = 1..n
  BY LenProperties
<1>2. \A k \in 1..n : ReadsBack(params[k], args[k])
  BY <1>1, ElementOfSeq, ValueReadsBack DEF Fitting
<1>3. PICK seqs : seqs = [j \in DOMAIN params |-> Encode(params[j], args[j])]
  OBVIOUS
<1>4. \A k \in 1..n : seqs[k] = Encode(params[k], args[k]) /\ seqs[k] \in Seq(Int)
  BY <1>1, <1>2, <1>3 DEF ReadsBack
<1>5. seqs \in Seq(Seq(Int)) /\ Len(seqs) = n
  <2>1. seqs \in [1..n -> Seq(Int)]
    <3>1. seqs = [k \in 1..n |-> seqs[k]]
      BY <1>1, <1>3
    <3> QED BY ONLY <1>4, <3>1
  <2> QED BY ONLY <2>1, n \in Nat, SeqDef, LenProperties
<1>6. \A k \in 0..n : Part(params, args, k) = FlattenSeq(SubSeq(seqs, 1, k))
  BY <1>3 DEF Part
<1>7. SubSeq(seqs, 1, 0) = <<>> /\ SubSeq(seqs, 1, n) = seqs
  <2>1. PICK none : none = SubSeq(seqs, 1, 0)
    OBVIOUS
  <2>2. none \in Seq(Seq(Int)) /\ Len(none) = 0
    BY <1>5, <2>1, FirstPart
  <2>3. none = <<>>
    BY <2>2, EmptySeq
  <2> QED BY <1>5, <2>1, <2>3, Whole
<1>8. ASSUME NEW k \in 0..(n - 1)
      PROVE  FlattenSeq(SubSeq(seqs, 1, k + 1)) = FlattenSeq(SubSeq(seqs, 1, k)) \o seqs[k + 1]
  <2>1. k \in Nat /\ k < Len(seqs)
    BY <1>5
  <2>2. /\ SubSeq(seqs, 1, k) \in Seq(Seq(Int)) /\ seqs[k + 1] \in Seq(Int)
        /\ SubSeq(seqs, 1, k + 1) = Append(SubSeq(seqs, 1, k), seqs[k + 1])
    BY <1>5, <2>1, OneFurther
  <2> QED BY <2>2, Flatten
<1>9. ASSUME NEW k \in 0..n PROVE FlattenSeq(SubSeq(seqs, 1, k)) \in Seq(Int)
  <2>1. k \in Nat /\ k <= Len(seqs)
    BY <1>5
  <2>2. SubSeq(seqs, 1, k) \in Seq(Seq(Int))
    BY <1>5, <2>1, FirstPart
  <2> QED BY <2>2, Flatten
<1>10. EncodeArgs(params, args) = FlattenSeq(seqs)
  BY <1>3 DEF EncodeArgs
<1>11. \A k \in 0..(n - 1) : k \in 0..n /\ k + 1 \in 0..n /\ k + 1 \in 1..n
  OBVIOUS
<1>12. 0 \in 0..n /\ n \in 0..n
  OBVIOUS
<1>13. Part(params, args, 0) = <<>> /\ Part(params, args, n) = EncodeArgs(params, args)
  BY <1>6, <1>7, <1>10, <1>12, Flatten
<1>14. \A k \in 0..(n - 1) :
         Part(params, args, k + 1) = Part(params, args, k) \o Encode(params[k + 1], args[k + 1])
  BY ONLY <1>4, <1>6, <1>8, <1>11
<1> QED BY <1>6, <1>9, <1>13, <1>14

\* What DecodeArgs goes through
DecodesEach(f, params, bytes, n) ==
  f = [k \in 0..n |-> IF k = 0 THEN [ok |-> TRUE, used |-> 0, args |-> <<>>]
                      ELSE DecodeNext(params[k], bytes, f[k - 1])]

LEMMA DecodesEachExists ==
  ASSUME NEW params, NEW bytes, NEW n \in Nat
  PROVE  \E f : DecodesEach(f, params, bytes, n)
<1> DEFINE S == {m \in 1..n : \E f : DecodesEach(f, params, bytes, m)}
<1>1. \E f : DecodesEach(f, params, bytes, 0)
  <2>1. DecodesEach([i \in 0..0 |-> [ok |-> TRUE, used |-> 0, args |-> <<>>]], params, bytes, 0)
    BY DEF DecodesEach
  <2> QED BY <2>1
<1>2. ASSUME NEW m \in Nat, NEW f, DecodesEach(f, params, bytes, m)
      PROVE  \E g : DecodesEach(g, params, bytes, m + 1)
  <2>1. PICK g : g = [i \in 0..(m + 1) |->
                        IF i = m + 1 THEN DecodeNext(params[i], bytes, f[m]) ELSE f[i]]
    OBVIOUS
  <2>2. ASSUME NEW i \in 0..(m + 1)
        PROVE  g[i] = IF i = 0 THEN [ok |-> TRUE, used |-> 0, args |-> <<>>]
                      ELSE DecodeNext(params[i], bytes, g[i - 1])
    <3>1. CASE i = m + 1
      <4>1. m \in 0..(m + 1) /\ m # m + 1 /\ i # 0 /\ i - 1 = m
        BY <3>1
      <4>2. g[m] = f[m] /\ g[i] = DecodeNext(params[i], bytes, f[m])
        BY <2>1, <3>1, <4>1
      <4> QED BY <4>1, <4>2
    <3>2. CASE i # m + 1
      <4>1. i \in 0..m /\ g[i] = f[i] /\ (i # 0 => g[i - 1] = f[i - 1])
        BY <2>1, <3>2
      <4> QED BY <1>2, <4>1 DEF DecodesEach
    <3> QED BY <3>1, <3>2
  <2>3. DecodesEach(g, params, bytes, m + 1)
    BY <2>1, <2>2 DEF DecodesEach
  <2> QED BY <2>3
<1>3. 1 \in S \/ n = 0
  <2>1. \E f : DecodesEach(f, params, bytes, 0 + 1)
    BY <1>1, <1>2
  <2> QED BY <2>1
<1>4. ASSUME NEW m \in 1..n, m + 1 <= n, m \in S
      PROVE  m + 1 \in S
  BY <1>2, <1>4
<1>5. 1..n \subseteq S
  BY <1>3, <1>4, Upwards
<1> QED BY <1>1, <1>5

DecodesInSteps(f, params, bytes, n) ==
  /\ f[0] = [ok |-> TRUE, used |-> 0, args |-> <<>>]
  /\ \A k \in 1..n : f[k] = DecodeNext(params[k], bytes, f[k - 1])
  /\ DecodeArgs(params, bytes) = f[n]

LEMMA DecodesFrom ==
  ASSUME NEW params, NEW bytes, NEW n \in Nat, n = Len(params)
  PROVE  \E f : DecodesInSteps(f, params, bytes, n)
<1> DEFINE first == CHOOSE f : f = [k \in 0..n |->
                      IF k = 0 THEN [ok |-> TRUE, used |-> 0, args |-> <<>>]
                      ELSE DecodeNext(params[k], bytes, f[k - 1])]
<1>1. PICK f : DecodesEach(f, params, bytes, n)
  BY DecodesEachExists
<1>2. f = [k \in 0..n |-> IF k = 0 THEN [ok |-> TRUE, used |-> 0, args |-> <<>>]
                          ELSE DecodeNext(params[k], bytes, f[k - 1])]
  BY <1>1 DEF DecodesEach
<1>3. first = [k \in 0..n |-> IF k = 0 THEN [ok |-> TRUE, used |-> 0, args |-> <<>>]
                              ELSE DecodeNext(params[k], bytes, first[k - 1])]
  BY <1>2
<1>4. DecodeArgs(params, bytes) = first[n]
  BY DEF DecodeArgs
<1> HIDE DEF first
<1>5. DecodesEach(first, params, bytes, n)
  BY <1>3 DEF DecodesEach
<1>6. /\ first[0] = [ok |-> TRUE, used |-> 0, args |-> <<>>]
      /\ \A k \in 1..n : first[k] = DecodeNext(params[k], bytes, first[k - 1])
  <2>1. 0 \in 0..n /\ \A k \in 1..n : k \in 0..n /\ k # 0
    OBVIOUS
  <2> QED BY <1>5, <2>1 DEF DecodesEach
<1> QED BY <1>4, <1>6 DEF DecodesInSteps

\* What there is after some arguments whose bytes are part
DecodedTo(after, part, b, args) ==
  IF Len(part) <= Len(b) THEN after = [ok |-> TRUE, used |-> Len(part), args |-> args]
  ELSE after = [ok |-> FALSE, used |-> after.used, args |-> after.args]

LEMMA NextRead ==
  ASSUME NEW type, NEW x, ReadsBack(type, x), NEW part \in Seq(Int), NEW b \in Seq(Int),
         NEW next, next = part \o Encode(type, x), Begins(b, next), NEW args, NEW before,
         DecodedTo(before, part, b, args)
  PROVE  DecodedTo(DecodeNext(type, b, before), next, b, Append(args, x))
<1>1. PICK code \in Seq(Int) : code = Encode(type, x)
  BY DEF ReadsBack
<1>2. PICK m \in Nat, n \in Nat, l \in Nat : m = Len(part) /\ n = Len(code) /\ l = Len(b)
  BY LenProperties
<1>3. Len(next) = m + n /\ GoesOn(b, part, code)
  <2>1. next = part \o code
    BY <1>1
  <2>2. Joined(next, part, code) /\ GoesOn(b, part, code)
    BY ONLY <2>1, part \in Seq(Int), code \in Seq(Int), b \in Seq(Int), Begins(b, next),
            ElementOf, BeginsTwo
  <2> QED BY <1>2, <2>2 DEF Joined
<1>4. PICK after : after = DecodeNext(type, b, before)
  OBVIOUS
<1>5. CASE m <= l
  <2>1. before = [ok |-> TRUE, used |-> m, args |-> args]
    BY <1>2, <1>5 DEF DecodedTo
  <2>2. before.ok = TRUE /\ before.used = m /\ before.args = args
    BY <2>1
  <2>3. PICK rest : rest = SubSeq(b, m + 1, l)
    OBVIOUS
  <2>4. rest \in Seq(Int) /\ Len(rest) = l - m /\ Begins(rest, code)
    <3>1. rest = SubSeq(b, m + 1, Len(b)) /\ m <= Len(b)
      BY <1>2, <1>5, <2>3
    <3>2. rest \in Seq(Int) /\ Len(rest) = Len(b) - m
      BY ONLY <3>1, m \in Nat, b \in Seq(Int), RestPart
    <3>3. Begins(rest, code)
      BY <1>2, <1>3, <1>5, <2>3 DEF GoesOn
    <3> QED BY <1>2, <3>2, <3>3
  <2>5. /\ Decodes(type, rest) <=> n <= l - m
        /\ n <= l - m => Needed(type, rest) = n /\ Decoded(type, rest) = x
    <3>1. ReadsBack(type, x)
      OBVIOUS
    <3> QED BY ONLY <1>1, <1>2, <2>4, <3>1 DEF ReadsBack
  <2>6. after = IF Decodes(type, rest)
                THEN [ok |-> TRUE, used |-> m + Needed(type, rest),
                      args |-> Append(args, Decoded(type, rest))]
                ELSE [before EXCEPT !.ok = FALSE]
    BY <1>2, <1>4, <2>2, <2>3 DEF DecodeNext
  <2>7. CASE n <= l - m
    <3>1. after = [ok |-> TRUE, used |-> m + n, args |-> Append(args, x)]
      BY <2>5, <2>6, <2>7
    <3> QED BY <1>2, <1>3, <1>4, <2>7, <3>1 DEF DecodedTo
  <2>8. CASE ~(n <= l - m)
    <3>1. after = [ok |-> FALSE, used |-> m, args |-> args]
      BY <2>1, <2>5, <2>6, <2>8
    <3>2. after = [ok |-> FALSE, used |-> after.used, args |-> after.args]
      BY <3>1
    <3> QED BY <1>2, <1>3, <1>4, <2>8, <3>2 DEF DecodedTo
  <2> QED BY <2>7, <2>8
<1>6. CASE ~(m <= l)
  <2>1. before = [ok |-> FALSE, used |-> before.used, args |-> before.args]
    BY <1>2, <1>6 DEF DecodedTo
  <2>2. before.ok = FALSE
    BY <2>1
  <2>3. after = [before EXCEPT !.ok = FALSE]
    BY <1>4, <2>2 DEF DecodeNext
  <2>4. after = [ok |-> FALSE, used |-> after.used, args |-> after.args]
    <3>1. PICK u, a : before = [ok |-> FALSE, used |-> u, args |-> a]
      BY <2>1
    <3>2. after = [ok |-> FALSE, used |-> u, args |-> a]
      BY <2>3, <3>1
    <3> QED BY <3>2
  <2> QED BY <1>2, <1>3, <1>4, <1>6, <2>4 DEF DecodedTo
<1> QED BY <1>5, <1>6

\* Arguments are read back from their bytes, wherever they are cut, and in them only.
LEMMA ArgumentsRead ==
  ASSUME NEW params \in Seq(Types), NEW args, Fitting(params, args), NEW b \in Seq(Int),
         Begins(b, EncodeArgs(params, args))
  PROVE  DecodedTo(DecodeArgs(params, b), EncodeArgs(params, args), b, args)
<1>1. PICK n \in Nat : n = Len(params) /\ DOMAIN params = 1..n
  BY LenProperties
<1> DEFINE part(k) == Part(params, args, k)
<1>2. /\ part(0) = <<>> /\ part(n) = EncodeArgs(params, args)
      /\ \A k \in 0..n : part(k) \in Seq(Int)
      /\ \A k \in 0..(n - 1) : part(k + 1) = part(k) \o Encode(params[k + 1], args[k + 1])
  BY <1>1, PartSteps
<1> HIDE DEF part
<1>3. \A k \in 1..n : ReadsBack(params[k], args[k])
  BY <1>1, ElementOfSeq, ValueReadsBack DEF Fitting
<1>4. PICK f : /\ f[0] = [ok |-> TRUE, used |-> 0, args |-> <<>>]
               /\ \A k \in 1..n : f[k] = DecodeNext(params[k], b, f[k - 1])
               /\ DecodeArgs(params, b) = f[n]
  <2>1. PICK f : DecodesInSteps(f, params, b, n)
    BY <1>1, DecodesFrom
  <2> QED BY <2>1 DEF DecodesInSteps
<1>5. args \in Seq({args[k] : k \in 1..n}) /\ Len(args) = n
  <2>1. args = [k \in 1..n |-> args[k]]
    BY <1>1 DEF Fitting
  <2>2. args \in [1..n -> {args[k] : k \in 1..n}]
    BY ONLY <2>1
  <2> QED BY ONLY <2>2, n \in Nat, SeqDef, LenProperties
<1>6. \A k \in 0..n : Begins(b, part(k))
  <2> DEFINE R == {j \in 1..(n + 1) : Begins(b, part(n + 1 - j))}
  <2>1. 1 \in R
    <3>1. n + 1 - 1 = n /\ 1 \in 1..(n + 1)
      OBVIOUS
    <3> QED BY <1>2, <3>1
  <2>2. ASSUME NEW j \in 1..(n + 1), j + 1 <= n + 1, j \in R
        PROVE  j + 1 \in R
    <3>1. PICK k \in 0..(n - 1) : k = n - j
      BY <2>2
    <3>2. n + 1 - j = k + 1 /\ n + 1 - (j + 1) = k /\ k \in 0..n
      BY <3>1
    <3>3. Begins(b, part(k + 1))
      <4>1. Begins(b, part(n + 1 - j))
        BY <2>2
      <4> QED BY ONLY <3>2, <4>1
    <3>4. part(k + 1) = part(k) \o Encode(params[k + 1], args[k + 1]) /\ k + 1 \in 1..n
      <4>1. k + 1 \in 1..n
        OBVIOUS
      <4> QED BY ONLY <1>2, <4>1, k \in 0..(n - 1)
    <3>5. Encode(params[k + 1], args[k + 1]) \in Seq(Int) /\ part(k) \in Seq(Int)
      BY <1>2, <1>3, <3>2, <3>4 DEF ReadsBack
    <3>6. GoesOn(b, part(k), Encode(params[k + 1], args[k + 1]))
      BY ONLY <3>3, <3>4, <3>5, b \in Seq(Int), BeginsTwo
    <3>7. Begins(b, part(k))
      BY <3>6 DEF GoesOn
    <3> QED BY <2>2, <3>2, <3>7
  <2>3. 1..(n + 1) \subseteq R
    <3>1. n + 1 \in Nat
      OBVIOUS
    <3> HIDE DEF R
    <3> QED BY ONLY <2>1, <2>2, <3>1, Upwards
  <2>4. ASSUME NEW k \in 0..n PROVE Begins(b, part(k))
    <3>1. PICK j \in 1..(n + 1) : j = n + 1 - k
      OBVIOUS
    <3>2. Begins(b, part(n + 1 - j))
      BY <2>3
    <3>3. n + 1 - j = k
      BY <3>1
    <3> QED BY <3>2, <3>3
  <2> QED BY <2>4
<1> DEFINE S == {k \in 1..n : DecodedTo(f[k], part(k), b, SubSeq(args, 1, k))}
<1>7. DecodedTo(f[0], part(0), b, SubSeq(args, 1, 0))
  <2>1. SubSeq(args, 1, 0) = <<>>
    <3>1. PICK none : none = SubSeq(args, 1, 0)
      OBVIOUS
    <3>2. Len(none) = 0 /\ none \in Seq({args[k] : k \in 1..n})
      BY <1>5, <3>1, FirstPart
    <3> QED BY <3>1, <3>2, EmptySeq
  <2>2. Len(<<>>) = 0 /\ 0 <= Len(b)
    BY EmptySeq, LenProperties
  <2> QED BY <1>2, <1>4, <2>1, <2>2 DEF DecodedTo
<1>8. ASSUME NEW k \in 0..(n - 1), DecodedTo(f[k], part(k), b, SubSeq(args, 1, k))
      PROVE  DecodedTo(f[k + 1], part(k + 1), b, SubSeq(args, 1, k + 1))
  <2>1. k \in 0..n /\ k + 1 \in 0..n /\ k + 1 \in 1..n /\ (k + 1) - 1 = k /\ k \in Nat /\ k < n
    OBVIOUS
  <2>2. part(k + 1) = part(k) \o Encode(params[k + 1], args[k + 1]) /\ part(k) \in Seq(Int)
    BY <1>2, <2>1
  <2>3. Begins(b, part(k + 1)) /\ ReadsBack(params[k + 1], args[k + 1])
    BY <1>3, <1>6, <2>1
  <2>4. SubSeq(args, 1, k + 1) = Append(SubSeq(args, 1, k), args[k + 1])
    BY <1>5, <2>1, OneFurther
  <2>5. DecodedTo(DecodeNext(params[k + 1], b, f[k]), part(k + 1), b,
                  Append(SubSeq(args, 1, k), args[k + 1]))
    BY ONLY <1>8, <2>2, <2>3, b \in Seq(Int), NextRead
  <2>6. f[k + 1] = DecodeNext(params[k + 1], b, f[k])
    BY <1>4, <2>1
  <2> QED BY <2>4, <2>5, <2>6
<1>9. 1 \in S \/ n = 0
  <2>1. ASSUME n # 0 PROVE DecodedTo(f[0 + 1], part(0 + 1), b, SubSeq(args, 1, 0 + 1))
    BY <1>7, <1>8, <2>1
  <2> QED BY <2>1
<1>10. ASSUME NEW k \in 1..n, k + 1 <= n, k \in S
       PROVE  k + 1 \in S
  BY <1>8, <1>10
<1>11. DecodedTo(f[n], part(n), b, SubSeq(args, 1, n))
  <2>1. 1..n \subseteq S
    BY <1>9, <1>10, Upwards
  <2> QED BY <1>7, <2>1
<1>12. SubSeq(args, 1, n) = args
  BY <1>5, Whole
<1> QED BY <1>2, <1>4, <1>11, <1>12

LEMMA ArgumentsEncoded ==
  ASSUME NEW params \in Seq(Types), NEW args, Fitting(params, args)
  PROVE  EncodeArgs(params, args) \in Seq(Int)
<1>1. PICK n \in Nat : n = Len(params)
  BY LenProperties
<1>2. n \in 0..n
  OBVIOUS
<1> QED BY <1>1, <1>2, PartSteps

-----------------------------------------------------------------------------
\* Requests and replies

LEMMA ProcedureTypes ==
  ASSUME NEW func \in DOMAIN Procedures
  PROVE  Procedures[func].params \in Seq(Types) /\ Procedures[func].result \in Types
<1>1. <<>> \in Seq(Types)
  BY EmptySeq
<1>2. /\ <<"int">> \in Seq(Types) /\ <<"unsigned">> \in Seq(Types) /\ <<"string">> \in Seq(Types)
      /\ <<"string", "int">> \in Seq(Types) /\ <<"int", "unsigned">> \in Seq(Types)
      /\ <<"string", "string">> \in Seq(Types)
  <2>1. "int" \in Types /\ "unsigned" \in Types /\ "string" \in Types
    BY DEF Types, NumberTypes
  <2> HIDE DEF Types
  <2> QED BY <2>1
<1>3. DOMAIN Procedures = 1..10
  BY DEF Procedures
<1>4. Procedures[1].params = <<"int">> /\ Procedures[1].result = "int"
  BY DEF Procedures
<1>5. Procedures[2].params = <<>> /\ Procedures[2].result = "void"
  BY DEF Procedures
<1>6. Procedures[3].params = <<>> /\ Procedures[3].result = "bool"
  BY DEF Procedures
<1>7. Procedures[4].params = <<"unsigned">> /\ Procedures[4].result = "string"
  BY DEF Procedures
<1>8. Procedures[5].params = <<"string">> /\ Procedures[5].result = "string"
  BY DEF Procedures
<1>9. Procedures[6].params = <<"string", "int">> /\ Procedures[6].result = "string"
  BY DEF Procedures
<1>10. Procedures[7].params = <<"string", "int">> /\ Procedures[7].result = "unsigned"
  BY DEF Procedures
<1>11. Procedures[8].params = <<"int", "unsigned">> /\ Procedures[8].result = "long"
  BY DEF Procedures
<1>12. Procedures[9].params = <<"string", "int">> /\ Procedures[9].result = "void"
  BY DEF Procedures
<1>13. Procedures[10].params = <<"string", "string">> /\ Procedures[10].result = "void"
  BY DEF Procedures
<1>14. "int" \in Types /\ "unsigned" \in Types /\ "string" \in Types /\ "void" \in Types
       /\ "bool" \in Types /\ "long" \in Types
  BY DEF Types, NumberTypes
<1>15. func = 1 \/ func = 2 \/ func = 3 \/ func = 4 \/ func = 5 \/ func = 6 \/ func = 7 \/ func = 8
       \/ func = 9 \/ func = 10
  BY <1>3
<1> QED
  <2>1. CASE func = 1 \/ func = 2 \/ func = 3
    BY ONLY <1>1, <1>2, <1>4, <1>5, <1>6, <1>14, <2>1
  <2>2. CASE func = 4 \/ func = 5 \/ func = 6
    BY ONLY <1>2, <1>7, <1>8, <1>9, <1>14, <2>2
  <2>3. CASE func = 7 \/ func = 8
    BY ONLY <1>2, <1>10, <1>11, <1>14, <2>3
  <2>4. CASE func = 9 \/ func = 10
    BY ONLY <1>2, <1>12, <1>13, <1>14, <2>4
  <2> QED BY <1>15, <2>1, <2>2, <2>3, <2>4

Exported(call) == Contains(Exports, call.func)
ResultBytes(call) == Encode(Procedures[call.func].result, Answer(call.func, call.args))

\* A call that gets its result, which has room in outbuf or not
Good(call, fits) == Exported(call) /\ fits

\* What the server answers
ReplyOf(call, fits) ==
  IF ~Exported(call) THEN <<ReplyType, PROG_MISMATCH>>
  ELSE IF fits THEN <<ReplyType, SUCCESS>> \o ResultBytes(call)
  ELSE <<ReplyType, GARBAGE_ARGS>>

\* A header and what follows it
Headed(s, first, second, body) ==
  /\ s \in Seq(Int) /\ s = <<first, second>> \o body
  /\ Len(s) = 2 + Len(body) /\ s[1] = first /\ s[2] = second

LEMMA HeaderFirst ==
  ASSUME NEW first \in Int, NEW second \in Int, NEW body \in Seq(Int)
  PROVE  Headed(<<first, second>> \o body, first, second, body)
<1>1. PICK h, s : h = <<first, second>> /\ s = h \o body
  OBVIOUS
<1>2. h \in Seq(Int) /\ Len(h) = 2 /\ h[1] = first /\ h[2] = second
  BY <1>1
<1>3. s \in Seq(Int) /\ Joined(s, h, body)
  BY ONLY <1>1, <1>2, body \in Seq(Int), ElementOf
<1>4. 1 \in 1..Len(h) /\ 2 \in 1..Len(h)
  BY <1>2
<1>5. s[1] = first /\ s[2] = second /\ Len(s) = 2 + Len(body)
  BY <1>2, <1>3, <1>4 DEF Joined
<1> QED BY <1>1, <1>3, <1>5 DEF Headed

\* What begins with a header and a body
LEMMA HeaderRead ==
  ASSUME NEW first \in Int, NEW second \in Int, NEW body \in Seq(Int), NEW s,
         Headed(s, first, second, body), NEW b \in Seq(Int), Begins(b, s)
  PROVE  /\ Len(b) >= 1 => b[1] = first
         /\ Len(b) >= 2 => b[2] = second /\ Begins(SubSeq(b, 3, Len(b)), body)
                           /\ SubSeq(b, 3, Len(b)) \in Seq(Int)
                           /\ Len(SubSeq(b, 3, Len(b))) = Len(b) - 2
<1>1. PICK l \in Nat, n \in Nat : l = Len(b) /\ n = Len(body)
  BY LenProperties
<1>2. Len(s) = 2 + n /\ s[1] = first /\ s[2] = second
  BY <1>1 DEF Headed
<1>3. /\ l >= 1 => b[1] = first
      /\ l >= 2 => b[2] = second
  <2>1. \A i \in 1..l : i <= 2 + n => b[i] = s[i]
    BY <1>1, <1>2 DEF Begins
  <2>2. l >= 1 => 1 \in 1..l /\ 1 <= 2 + n
    OBVIOUS
  <2>3. l >= 2 => 2 \in 1..l /\ 2 <= 2 + n
    OBVIOUS
  <2> QED BY <1>2, <2>1, <2>2, <2>3
<1>4. ASSUME l >= 2
      PROVE  /\ Begins(SubSeq(b, 3, l), body) /\ SubSeq(b, 3, l) \in Seq(Int)
             /\ Len(SubSeq(b, 3, l)) = l - 2
  <2>1. PICK h : h = <<first, second>>
    OBVIOUS
  <2>2. h \in Seq(Int) /\ Len(h) = 2 /\ s = h \o body
    BY <2>1 DEF Headed
  <2>3. GoesOn(b, h, body)
    BY ONLY <2>2, b \in Seq(Int), body \in Seq(Int), Begins(b, s), BeginsTwo
  <2>4. Begins(SubSeq(b, 2 + 1, l), body)
    BY <1>1, <1>4, <2>2, <2>3 DEF GoesOn
  <2>5. SubSeq(b, 2 + 1, l) \in Seq(Int) /\ Len(SubSeq(b, 2 + 1, l)) = l - 2
    BY <1>1, <1>4, RestPart
  <2> QED BY <2>4, <2>5
<1> QED BY <1>1, <1>3, <1>4

\* Where a procedure is looked up
LEMMA LookedUp ==
  ASSUME NEW func
  PROVE  /\ LookupExportFunction(func) \in Int /\ Len(Exports) \in Nat
         /\ IF Contains(Exports, func)
            THEN /\ LookupExportFunction(func) < Len(Exports)
                 /\ Exports[LookupExportFunction(func) + 1] = func
            ELSE ~(LookupExportFunction(func) < Len(Exports))
<1>1. PICK n \in Nat : n = Len(Exports) /\ DOMAIN Exports = 1..n /\ n < ByteValues
  BY ProtocolAssumption, LenProperties
<1>2. CASE Contains(Exports, func)
  <2>1. PICK i \in 1..n : Exports[i] = func
    BY <1>1, <1>2 DEF Contains
  <2>2. PICK j : j = CHOOSE k \in DOMAIN Exports : Exports[k] = func
    OBVIOUS
  <2>3. j \in 1..n /\ Exports[j] = func
    BY <1>1, <2>1, <2>2
  <2>4. LookupExportFunction(func) = j - 1
    BY <1>2, <2>2 DEF LookupExportFunction
  <2>5. j - 1 \in Int /\ j - 1 < n /\ (j - 1) + 1 = j
    BY <2>3
  <2> QED BY <1>1, <1>2, <2>3, <2>4, <2>5
<1>3. CASE ~Contains(Exports, func)
  <2>1. LookupExportFunction(func) = ByteValues - 1
    BY <1>3 DEF LookupExportFunction
  <2>2. ByteValues \in Nat
    BY ProtocolAssumption
  <2> QED BY <1>1, <1>3, <2>1, <2>2
<1> QED BY <1>2, <1>3

\* A request is a header and the arguments, which are of their types.
LEMMA Requested ==
  ASSUME NEW call, WellTyped(call)
  PROVE  /\ Procedures[call.func].params \in Seq(Types)
         /\ Fitting(Procedures[call.func].params, call.args)
         /\ EncodeArgs(Procedures[call.func].params, call.args) \in Seq(Int)
         /\ Headed(RequestOf(call), CallType, LookupExportFunction(call.func),
                   EncodeArgs(Procedures[call.func].params, call.args))
<1>1. PICK params, args : params = Procedures[call.func].params /\ args = call.args
  OBVIOUS
<1>2. params \in Seq(Types)
  BY <1>1, ProcedureTypes DEF WellTyped
<1>3. Fitting(params, args)
  <2>1. args = [k \in DOMAIN params |-> args[k]]
    BY <1>1 DEF WellTyped
  <2>2. DOMAIN args = DOMAIN params
    BY <2>1
  <2>3. \A k \in DOMAIN args : Fits(params[k], args[k])
    BY <1>1 DEF WellTyped
  <2> QED BY <2>1, <2>2, <2>3 DEF Fitting
<1>4. EncodeArgs(params, args) \in Seq(Int)
  BY <1>2, <1>3, ArgumentsEncoded
<1>5. Headed(<<CallType, LookupExportFunction(call.func)>> \o EncodeArgs(params, args),
             CallType, LookupExportFunction(call.func), EncodeArgs(params, args))
  <2>1. CallType \in Int /\ LookupExportFunction(call.func) \in Int
    BY LookedUp DEF CallType
  <2> QED BY <1>4, <2>1, HeaderFirst
<1> QED BY <1>1, <1>2, <1>3, <1>4, <1>5 DEF RequestOf

\* A reply is a header, and the result after it when there is one.
LEMMA Replied ==
  ASSUME NEW call, NEW fits \in BOOLEAN, WellTyped(call)
  PROVE  /\ ReadsBack(Procedures[call.func].result, Answer(call.func, call.args))
         /\ ResultBytes(call) \in Seq(Int)
         /\ Good(call, fits) => Headed(ReplyOf(call, fits), ReplyType, SUCCESS, ResultBytes(call))
         /\ ~Good(call, fits) => \E status \in Int \ {SUCCESS} :
                             Headed(ReplyOf(call, fits), ReplyType, status, <<>>)
<1>1. ReadsBack(Procedures[call.func].result, Answer(call.func, call.args))
  BY ProcedureTypes, ValueReadsBack DEF WellTyped
<1>2. ResultBytes(call) \in Seq(Int)
  BY <1>1 DEF ReadsBack, ResultBytes
<1>3. ReplyType \in Int /\ SUCCESS \in Int /\ PROG_MISMATCH \in Int \ {SUCCESS}
      /\ GARBAGE_ARGS \in Int \ {SUCCESS}
  BY DEF ReplyType, SUCCESS, PROG_MISMATCH, GARBAGE_ARGS
<1>4. ASSUME Good(call, fits)
      PROVE  Headed(ReplyOf(call, fits), ReplyType, SUCCESS, ResultBytes(call))
  <2>1. ReplyOf(call, fits) = <<ReplyType, SUCCESS>> \o ResultBytes(call)
    BY <1>4 DEF ReplyOf, Good
  <2> QED BY ONLY <1>2, <1>3, <2>1, HeaderFirst
<1>5. ASSUME ~Good(call, fits)
      PROVE  \E status \in Int \ {SUCCESS} : Headed(ReplyOf(call, fits), ReplyType, status, <<>>)
  <2>1. PICK status \in Int \ {SUCCESS} : ReplyOf(call, fits) = <<ReplyType, status>>
    BY <1>3, <1>5 DEF ReplyOf, Good
  <2>2. PICK h, none : h = <<ReplyType, status>> /\ none = <<>>
    OBVIOUS
  <2>3. h \in Seq(Int) /\ none \in Seq(Int)
    BY <1>3, <2>2
  <2>4. h \o none = h
    BY ONLY <2>2, <2>3, ConcatEmptySeq
  <2>5. Headed(<<ReplyType, status>> \o none, ReplyType, status, none)
    BY ONLY <1>3, <2>3, status \in Int \ {SUCCESS}, HeaderFirst
  <2>6. Headed(ReplyOf(call, fits), ReplyType, status, none)
    BY <2>1, <2>2, <2>4, <2>5
  <2> QED BY <2>2, <2>6
<1> QED BY <1>1, <1>2, <1>4, <1>5

\* What the server sees of a call whose request is the first in inbuf, as far as it is there
ServerSees(call) ==
  /\ RequestOf(call) \in Seq(Int) /\ HeaderSize <= Len(RequestOf(call))
  /\ Exported(call) =>
       /\ Waits <=> Len(inbuf) < Len(RequestOf(call))
       /\ ~Waits => /\ Known /\ Asked = call.func /\ Arguments.args = call.args
                    /\ HeaderSize + Arguments.used = Len(RequestOf(call))
  /\ ~Exported(call) => ~Known /\ (Waits <=> Len(inbuf) < HeaderSize)

LEMMA FirstRequest ==
  ASSUME NEW call, WellTyped(call), inbuf \in Seq(Int), Begins(inbuf, RequestOf(call))
  PROVE  ServerSees(call)
<1>1. PICK params, args : params = Procedures[call.func].params /\ args = call.args
  OBVIOUS
<1>2. PICK body \in Seq(Int) : body = EncodeArgs(params, args)
  BY <1>1, Requested
<1>3. PICK index \in Int : index = LookupExportFunction(call.func)
  BY LookedUp
<1>4. PICK s : s = RequestOf(call)
  OBVIOUS
<1>5. PICK k \in Nat, n \in Nat : k = Len(body) /\ n = Len(inbuf)
  BY LenProperties
<1>6. Headed(s, 0, index, body) /\ params \in Seq(Types) /\ Fitting(params, args)
  BY <1>1, <1>2, <1>3, <1>4, Requested DEF CallType
<1>7. s \in Seq(Int) /\ Len(s) = 2 + k
  BY <1>5, <1>6 DEF Headed
<1>8. PICK rest : rest = SubSeq(inbuf, 3, n)
  OBVIOUS
<1>9. /\ n >= 1 => inbuf[1] = 0
      /\ n >= 2 => inbuf[2] = index /\ Begins(rest, body) /\ rest \in Seq(Int) /\ Len(rest) = n - 2
  <2>1. Begins(inbuf, s) /\ 0 \in Int
    BY <1>4
  <2>2. /\ Len(inbuf) >= 1 => inbuf[1] = 0
        /\ Len(inbuf) >= 2 => /\ inbuf[2] = index /\ Begins(SubSeq(inbuf, 3, Len(inbuf)), body)
                              /\ SubSeq(inbuf, 3, Len(inbuf)) \in Seq(Int)
                              /\ Len(SubSeq(inbuf, 3, Len(inbuf))) = Len(inbuf) - 2
    BY ONLY <1>6, <2>1, inbuf \in Seq(Int), body \in Seq(Int), index \in Int, HeaderRead
  <2> QED BY ONLY <1>5, <1>8, <2>2
<1>10. CASE Exported(call)
  <2>1. index < Len(Exports) /\ Exports[index + 1] = call.func
    BY <1>3, <1>10, LookedUp DEF Exported
  <2>2. Known <=> n >= 2
    BY <1>5, <1>9, <2>1 DEF Known, HeaderSize, CallType
  <2>3. ASSUME n < 2 PROVE Waits
    BY <1>5, <2>3 DEF Waits, HeaderSize
  <2>4. ASSUME n >= 2
        PROVE  /\ Asked = call.func
               /\ Waits <=> n < 2 + k
               /\ ~Waits => Arguments.args = args /\ 2 + Arguments.used = 2 + k
    <3>1. Asked = call.func
      BY <1>9, <2>1, <2>4 DEF Asked
    <3>2. PICK found : found = DecodeArgs(params, rest)
      OBVIOUS
    <3>3. Arguments = found
      BY <1>1, <1>5, <1>8, <3>1, <3>2 DEF Arguments, HeaderSize
    <3>4. DecodedTo(found, body, rest, args)
      <4>1. DecodedTo(DecodeArgs(params, rest), EncodeArgs(params, args), rest, args)
        BY <1>2, <1>6, <1>9, <2>4, ArgumentsRead
      <4> QED BY <1>2, <3>2, <4>1
    <3>5. Waits <=> ~found.ok
      BY <1>5, <2>2, <2>4, <3>3 DEF Waits, HeaderSize
    <3>6. CASE k <= n - 2
      <4>1. found = [ok |-> TRUE, used |-> k, args |-> args]
        BY <1>5, <1>9, <2>4, <3>4, <3>6 DEF DecodedTo
      <4> QED BY <3>1, <3>3, <3>5, <3>6, <4>1
    <3>7. CASE ~(k <= n - 2)
      <4>1. found = [ok |-> FALSE, used |-> found.used, args |-> found.args]
        BY <1>5, <1>9, <2>4, <3>4, <3>7 DEF DecodedTo
      <4>2. Waits
        BY <3>5, <4>1
      <4> QED BY <3>1, <3>7, <4>2
    <3> QED BY <3>6, <3>7
  <2>5. Waits <=> n < 2 + k
    BY <2>3, <2>4
  <2>6. ~Waits => Known /\ Asked = call.func /\ Arguments.args = args /\ 2 + Arguments.used = 2 + k
    BY <2>2, <2>3, <2>4
  <2>7. Len(RequestOf(call)) = 2 + k /\ RequestOf(call) \in Seq(Int)
    BY <1>4, <1>7
  <2> QED BY ONLY <1>1, <1>5, <1>10, <2>5, <2>6, <2>7, k \in Nat DEF ServerSees, HeaderSize
<1>11. CASE ~Exported(call)
  <2>1. ~(index < Len(Exports))
    BY <1>3, <1>11, LookedUp DEF Exported
  <2>2. ~Known
    BY <1>5, <1>9, <2>1 DEF Known, HeaderSize
  <2>3. Waits <=> n < 2
    BY <1>5, <2>2 DEF Waits, HeaderSize
  <2> QED BY <1>4, <1>5, <1>7, <1>11, <2>2, <2>3 DEF ServerSees, HeaderSize
<1> QED BY <1>10, <1>11

\* What the client sees of the reply to the first call that waits, as far as it is there
ClientSees(call, fits) ==
  /\ ReplyOf(call, fits) \in Seq(Int) /\ HeaderSize <= Len(ReplyOf(call, fits))
  /\ Good(call, fits) =>
       /\ ~Fails /\ (Parses <=> Len(ReplyOf(call, fits)) <= Len(replies))
       /\ Parses => /\ Decoded(Expected, Payload) = Answer(call.func, call.args)
                    /\ HeaderSize + Taken(Expected) = Len(ReplyOf(call, fits))
  /\ ~Good(call, fits) => ~Parses /\ (Fails <=> Len(ReplyOf(call, fits)) <= Len(replies))

LEMMA FirstReply ==
  ASSUME NEW call, NEW fits \in BOOLEAN, WellTyped(call), replies \in Seq(Int), Begins(replies, ReplyOf(call, fits)),
         pending # <<>>, calls[Head(pending)].func = call.func
  PROVE  ClientSees(call, fits)
<1>1. PICK type, x : type = Procedures[call.func].result /\ x = Answer(call.func, call.args)
  OBVIOUS
<1>2. ReadsBack(type, x) /\ Expected = type
  BY <1>1, Replied DEF Expected
<1>3. PICK n, s : n = Len(replies) /\ s = ReplyOf(call, fits)
  OBVIOUS
<1>a. n \in Nat
  BY <1>3, LenProperties
<1>4. CASE Good(call, fits)
  <2>1. PICK body \in Seq(Int) : body = ResultBytes(call)
    BY Replied
  <2>2. PICK k \in Nat : k = Len(body)
    BY LenProperties
  <2>3. Headed(s, 1, 0, body) /\ Encode(type, x) = body
    BY <1>1, <1>3, <1>4, <2>1, Replied DEF ReplyType, SUCCESS, ResultBytes
  <2>4. s \in Seq(Int) /\ Len(s) = 2 + k
    BY <2>2, <2>3 DEF Headed
  <2>5. PICK rest : rest = SubSeq(replies, 3, n)
    OBVIOUS
  <2>6. /\ n >= 1 => replies[1] = 1
        /\ n >= 2 => /\ replies[2] = 0 /\ Begins(rest, body) /\ rest \in Seq(Int)
                     /\ Len(rest) = n - 2
    <3>1. Begins(replies, s) /\ 0 \in Int /\ 1 \in Int
      BY <1>3
    <3>2. /\ Len(replies) >= 1 => replies[1] = 1
          /\ Len(replies) >= 2 => /\ replies[2] = 0 /\ Begins(SubSeq(replies, 3, Len(replies)), body)
                                  /\ SubSeq(replies, 3, Len(replies)) \in Seq(Int)
                                  /\ Len(SubSeq(replies, 3, Len(replies))) = Len(replies) - 2
      BY ONLY <2>3, <3>1, replies \in Seq(Int), body \in Seq(Int), HeaderRead
    <3> QED BY ONLY <1>3, <2>5, <3>2
  <2>7. Payload = rest
    BY <1>3, <2>5 DEF Payload, HeaderSize
  <2>8. ~Fails
    BY <1>3, <1>a, <2>6 DEF Fails, HeaderSize, ReplyType, SUCCESS
  <2>9. n >= 2 => /\ Decodes(type, rest) <=> k <= n - 2
                  /\ k <= n - 2 => Needed(type, rest) = k /\ Decoded(type, rest) = x
    BY <1>2, <2>2, <2>3, <2>6 DEF ReadsBack
  <2>10. Parses <=> 2 + k <= n
    BY <1>2, <1>3, <1>a, <2>7, <2>8, <2>9 DEF Parses, HeaderSize
  <2>11. Parses => Decoded(Expected, Payload) = x /\ 2 + Taken(Expected) = 2 + k
    <3>1. ASSUME Parses
          PROVE  Needed(type, rest) = k /\ Decoded(type, rest) = x
      BY <1>a, <2>9, <2>10, <3>1
    <3> QED BY <1>2, <2>7, <3>1 DEF Taken
  <2> QED BY <1>1, <1>3, <1>a, <1>4, <2>4, <2>8, <2>10, <2>11 DEF ClientSees, HeaderSize
<1>5. CASE ~Good(call, fits)
  <2>a. PICK none : none = <<>>
    OBVIOUS
  <2>1. PICK status \in Int \ {0} : Headed(s, 1, status, none)
    BY <1>3, <1>5, <2>a, Replied DEF ReplyType, SUCCESS
  <2>2. s \in Seq(Int) /\ Len(s) = 2
    <3>1. Len(none) = 0
      BY <2>a, EmptySeq
    <3> QED BY <2>1, <3>1 DEF Headed
  <2>3. n >= 2 => replies[1] = 1 /\ replies[2] = status
    <3>1. Begins(replies, s) /\ status \in Int /\ 1 \in Int /\ none \in Seq(Int)
      BY <1>3, <2>a, <2>1, EmptySeq
    <3>2. /\ Len(replies) >= 1 => replies[1] = 1
          /\ Len(replies) >= 2 => replies[2] = status
      BY ONLY <2>1, <3>1, replies \in Seq(Int), HeaderRead
    <3> QED BY ONLY <1>3, <1>a, <3>2
  <2>4. Fails <=> n >= 2
    BY <1>3, <1>a, <2>1, <2>3 DEF Fails, HeaderSize, SUCCESS
  <2>5. ~Parses
    BY <1>3, <1>a, <2>4 DEF Parses, HeaderSize
  <2> QED BY <1>3, <1>a, <1>5, <2>2, <2>4, <2>5 DEF ClientSees, HeaderSize
<1> QED BY <1>4, <1>5

-----------------------------------------------------------------------------
\* Messages in a stream

\* The messages after the first n, up to the h-th; and in a stream
Window(messages, n, h) == [i \in 1..(h - n) |-> messages[n + i]]

Stream(messages, n, h) == FlattenSeq(Window(messages, n, h))

Messages(messages, n, h) == \A i \in (n + 1)..h : messages[i] \in Seq(Int)

LEMMA StreamTyped ==
  ASSUME NEW m, NEW n \in Nat, NEW h \in Nat, n <= h, Messages(m, n, h)
  PROVE  /\ Window(m, n, h) \in Seq(Seq(Int)) /\ Len(Window(m, n, h)) = h - n
         /\ Stream(m, n, h) \in Seq(Int)
<1>1. PICK k \in Nat : k = h - n
  OBVIOUS
<1>2. PICK s : s = Window(m, n, h)
  OBVIOUS
<1>3. \A i \in 1..k : s[i] = m[n + i] /\ s[i] \in Seq(Int)
  BY <1>1, <1>2 DEF Messages, Window
<1>4. s = [i \in 1..k |-> s[i]]
  BY <1>1, <1>2 DEF Window
<1>5. s \in [1..k -> Seq(Int)]
  BY ONLY <1>3, <1>4
<1>6. s \in Seq(Seq(Int)) /\ Len(s) = k
  BY ONLY <1>5, k \in Nat, SeqDef, LenProperties
<1>7. FlattenSeq(s) \in Seq(Int)
  BY <1>6, Flatten
<1> QED BY <1>1, <1>2, <1>6, <1>7 DEF Stream

LEMMA StreamEmpty ==
  ASSUME NEW m, NEW n \in Nat
  PROVE  Stream(m, n, n) = <<>>
<1>1. PICK s : s = Window(m, n, n)
  OBVIOUS
<1>2. s = <<>>
  <2>1. s \in Seq(Seq(Int)) /\ Len(s) = n - n
    BY <1>1, StreamTyped DEF Messages
  <2> QED BY <2>1, EmptySeq
<1> QED BY <1>1, <1>2, Flatten DEF Stream

\* A message more
LEMMA StreamMore ==
  ASSUME NEW m, NEW m2, NEW n \in Nat, NEW h \in Nat, n <= h, Messages(m, n, h),
         m2[h + 1] \in Seq(Int), \A i \in (n + 1)..h : m2[i] = m[i]
  PROVE  Stream(m2, n, h + 1) = Stream(m, n, h) \o m2[h + 1]
<1>1. PICK k \in Nat : k = h - n
  OBVIOUS
<1>2. PICK s, s2 : s = Window(m, n, h) /\ s2 = Window(m2, n, h + 1)
  OBVIOUS
<1>3. s \in Seq(Seq(Int)) /\ Len(s) = k
  BY <1>1, <1>2, StreamTyped
<1>4. Messages(m2, n, h + 1)
  <2>1. \A i \in (n + 1)..(h + 1) : i = h + 1 \/ i \in (n + 1)..h
    OBVIOUS
  <2> QED BY <2>1 DEF Messages
<1>5. s2 \in Seq(Seq(Int)) /\ Len(s2) = k + 1
  <2>1. n <= h + 1 /\ h + 1 \in Nat /\ (h + 1) - n = k + 1
    BY <1>1
  <2>2. s2 \in Seq(Seq(Int)) /\ Len(s2) = (h + 1) - n
    BY ONLY <1>2, <1>4, <2>1, n \in Nat, StreamTyped
  <2> QED BY <2>1, <2>2
<1>6. \A i \in 1..k : s2[i] = s[i]
  <2>1. \A i \in 1..(h + 1 - n) : s2[i] = m2[n + i]
    BY <1>2 DEF Window
  <2>2. \A i \in 1..(h - n) : s[i] = m[n + i]
    BY <1>2 DEF Window
  <2>3. ASSUME NEW i \in 1..k PROVE s2[i] = s[i]
    <3>1. PICK j \in (n + 1)..h : j = n + i
      BY <1>1
    <3>2. i \in 1..(h + 1 - n) /\ i \in 1..(h - n) /\ m2[j] = m[j]
      BY <1>1
    <3> QED BY <2>1, <2>2, <3>1, <3>2
  <2> QED BY <2>3
<1>7. s2[k + 1] = m2[h + 1]
  <2>1. k + 1 \in 1..(h + 1 - n) /\ n + (k + 1) = h + 1
    BY <1>1
  <2>2. s2[k + 1] = m2[n + (k + 1)]
    BY <1>2, <2>1 DEF Window
  <2> QED BY <2>1, <2>2
<1>8. s2 = Append(s, m2[h + 1])
  <2>1. DOMAIN s = 1..Len(s)
    BY <1>3, LenProperties
  <2> QED BY <1>3, <1>5, <1>6, <1>7, <2>1, OneMore
<1>9. FlattenSeq(s2) = FlattenSeq(s) \o m2[h + 1]
  BY <1>3, <1>8, Flatten
<1> QED BY <1>2, <1>9 DEF Stream

\* The first message, and the others
LEMMA StreamFirst ==
  ASSUME NEW m, NEW n \in Nat, NEW h \in Nat, n < h, Messages(m, n, h)
  PROVE  /\ Stream(m, n, h) = m[n + 1] \o Stream(m, n + 1, h)
         /\ m[n + 1] \in Seq(Int) /\ Stream(m, n + 1, h) \in Seq(Int)
<1>1. PICK k \in Nat : k = h - n /\ k # 0
  OBVIOUS
<1>2. m[n + 1] \in Seq(Int)
  BY DEF Messages
<1> DEFINE R == {i \in 1..k : Stream(m, n, n + i) = m[n + 1] \o Stream(m, n + 1, n + i)}
<1>3. 1 \in R
  <2>1. Stream(m, n, n) = <<>> /\ Stream(m, n + 1, n + 1) = <<>>
    BY StreamEmpty
  <2>2. Stream(m, n, n + 1) = <<>> \o m[n + 1]
    <3>1. Messages(m, n, n) /\ n <= n /\ \A i \in (n + 1)..n : m[i] = m[i]
      BY DEF Messages
    <3>2. Stream(m, n, n + 1) = Stream(m, n, n) \o m[n + 1]
      BY ONLY <1>2, <3>1, n \in Nat, StreamMore
    <3> QED BY <2>1, <3>2
  <2>3. <<>> \o m[n + 1] = m[n + 1] \o <<>>
    BY <1>2, ConcatEmptySeq
  <2>4. 1 \in 1..k
    BY <1>1
  <2> QED BY <2>1, <2>2, <2>3, <2>4
<1>4. ASSUME NEW i \in 1..k, i + 1 <= k, i \in R
      PROVE  i + 1 \in R
  <2>1. PICK l \in Nat : l = n + i
    OBVIOUS
  <2>2. n <= l /\ n + 1 <= l /\ l + 1 <= h /\ l + 1 = n + (i + 1) /\ n + 1 \in Nat
    BY <1>1, <1>4, <2>1
  <2>3. Messages(m, n, l) /\ Messages(m, n + 1, l) /\ m[l + 1] \in Seq(Int)
    BY <2>2 DEF Messages
  <2>4. PICK last, rest : last = m[l + 1] /\ rest = Stream(m, n + 1, l)
    OBVIOUS
  <2>5. last \in Seq(Int) /\ rest \in Seq(Int)
    BY <2>2, <2>3, <2>4, StreamTyped
  <2>6. Stream(m, n, l + 1) = Stream(m, n, l) \o m[l + 1]
    BY ONLY <2>2, <2>3, n \in Nat, l \in Nat, StreamMore
  <2>7. Stream(m, n + 1, l + 1) = Stream(m, n + 1, l) \o m[l + 1]
    <3>1. PICK n1 \in Nat : n1 = n + 1 /\ n1 <= l
      BY <2>2
    <3>2. Messages(m, n1, l)
      BY ONLY <2>3, <3>1
    <3>3. n1 <= l /\ m[l + 1] \in Seq(Int) /\ \A j \in (n1 + 1)..l : m[j] = m[j]
      BY ONLY <2>3, <3>1
    <3>4. Stream(m, n1, l + 1) = Stream(m, n1, l) \o m[l + 1]
      BY ONLY <3>2, <3>3, n1 \in Nat, l \in Nat, StreamMore
    <3> QED BY ONLY <3>1, <3>4
  <2>8. Stream(m, n, l) = m[n + 1] \o rest
    BY <1>4, <2>1, <2>4
  <2>9. (m[n + 1] \o rest) \o last = m[n + 1] \o (rest \o last)
    <3>1. Regroups(m[n + 1], rest, last)
      BY ONLY <1>2, <2>5, Regrouped
    <3> QED BY ONLY <3>1 DEF Regroups
  <2>10. Stream(m, n, l + 1) = m[n + 1] \o Stream(m, n + 1, l + 1)
    BY ONLY <2>4, <2>6, <2>7, <2>8, <2>9
  <2>11. Stream(m, n, n + (i + 1)) = m[n + 1] \o Stream(m, n + 1, n + (i + 1))
    BY ONLY <2>2, <2>10
  <2>12. i + 1 \in 1..k
    BY <1>4
  <2> QED BY <2>11, <2>12
<1> HIDE DEF R
<1>5. k \in R
  <2>1. 1..k \subseteq R
    BY ONLY <1>3, <1>4, k \in Nat, Upwards
  <2> QED BY <1>1, <2>1
<1>6. Stream(m, n + 1, h) \in Seq(Int)
  <2>1. n + 1 \in Nat /\ n + 1 <= h /\ Messages(m, n + 1, h)
    BY DEF Messages
  <2> QED BY <2>1, StreamTyped
<1>7. n + k = h
  BY <1>1
<1> QED BY <1>2, <1>5, <1>6, <1>7 DEF R

-----------------------------------------------------------------------------
\* The inductive invariant

Outcome(call) ==
  [func : {call.func}, args : {call.args}, value : {<<>>, Answer(call.func, call.args)},
   is : {"pending", "value", "error"}]

\* What becomes of the calls the program may make
Outcomes == UNION {Outcome(call) : call \in CallsMade}

Execution(call, fits) ==
  [func |-> call.func, args |-> call.args, result |-> Answer(call.func, call.args),
   fits |-> fits]

Executions == {Execution(call, fits) : call \in CallsMade, fits \in BOOLEAN}

TypeOK ==
  /\ calls \in Seq(Outcomes) /\ pending \in Seq(Nat) /\ executed \in Seq(Executions)
  /\ buf \in Seq(Int) /\ toServer \in Seq(Int) /\ toClient \in Seq(Int)
  /\ inbuf \in Seq(Int) /\ replies \in Seq(Int)
  /\ handling \in BOOLEAN /\ closing \in BOOLEAN
  /\ flush \in {"idle", "reading", "parsing", "failed"}
  /\ serverEnd \in {"open", "fin", "rst"}

Count == Len(calls)

\* The calls executed, and those whose reply the client has taken
Done == Len(executed)
Answered == Len(calls) - Len(pending)

\* The call whose result had no room, if there is one: it is the last one executed
Short == IF Done # 0 /\ ~executed[Done].fits THEN Done ELSE 0

\* What is to be of the calls: their requests and replies, those that get a result, and
\* what the service executes for them
Requests == [i \in 1..Count |-> RequestOf(calls[i])]
Replies  == [i \in 1..Count |-> ReplyOf(calls[i], i # Short)]
Goods    == {i \in 1..Count : Good(calls[i], i # Short)}
Runs     == [i \in 1..Count |-> Execution(calls[i], i # Short)]

\* The calls that were replied to: the last one may have been refused, and not executed.
Handled == IF closing /\ (Done = 0 \/ Done \in Goods) THEN Done + 1 ELSE Done

\* The service executes the calls in their order.  It closes the connection after the
\* first that gets no result, and not for another reason.
ExecutedOK ==
  /\ Done <= Count /\ \A i \in 1..Done : executed[i] = Runs[i]
  /\ Handled <= Count /\ 1..(Handled - 1) \subseteq Goods
  /\ closing => ~handling /\ Handled \in 1..Count /\ Handled \notin Goods
  /\ ~closing => 1..Done \subseteq Goods
  /\ Short # 0 => Refusable(calls[Short])
  /\ serverEnd # "open" => closing

\* On their way are the requests of the other calls.  When the server waits for bytes it
\* does not have a whole request.
RequestsOK ==
  ~closing =>
    /\ (inbuf \o toServer) \o buf = Stream(Requests, Done, Count)
    /\ ~handling => inbuf = <<>> \/ Len(inbuf) < Len(Requests[Done + 1])

\* The calls wait in their order, and those that do not have what the service returned.
PendingOK ==
  /\ Len(pending) <= Count /\ \A i \in 1..Len(pending) : pending[i] = Answered + i
  /\ Answered <= Handled /\ 1..Answered \subseteq Goods
  /\ \A i \in 1..Count :
       IF i <= Answered THEN calls[i].is = "value" /\ calls[i].value = Runs[i].result
       ELSE calls[i].is = "pending"

\* On their way back are the replies.  When Flush reads it does not have a whole one.
RepliesOK ==
  /\ replies \o toClient = Stream(Replies, Answered, Handled)
  /\ flush = "idle" =>
       ~closing /\ Answered = Done /\ replies = <<>> /\ toServer = <<>> /\ inbuf = <<>>
  /\ flush # "idle" => buf = <<>>
  /\ flush = "reading" => pending # <<>> /\ Len(replies) < Len(Replies[Answered + 1])

\* What is left when Flush has failed
FailedOK ==
  /\ closing /\ FailsOnlyWhenRefused
  /\ \A i \in 1..Count : calls[i].is = "value" => i <= Done /\ calls[i].value = Runs[i].result

IInv ==
  /\ TypeOK /\ ExecutedOK /\ RequestsOK
  /\ flush = "failed" => FailedOK
  /\ flush # "failed" => PendingOK /\ RepliesOK

\* A call with another outcome, and one without
Valued(c, v) == [[c EXCEPT !.is = "value"] EXCEPT !.value = v]
Failed(c) == [c EXCEPT !.is = "error"]

SameCall(c, d) == c.func = d.func /\ c.args = d.args

LEMMA OneOutcome ==
  ASSUME NEW c \in Outcomes
  PROVE  /\ WellTyped(c) /\ \A fits \in BOOLEAN : Execution(c, fits) \in Executions
         /\ Failed(c) \in Outcomes /\ Failed(c).is = "error" /\ SameCall(c, Failed(c))
         /\ \A v : /\ v = Answer(c.func, c.args) => Valued(c, v) \in Outcomes
                  /\ Valued(c, v).is = "value" /\ Valued(c, v).value = v
                  /\ SameCall(c, Valued(c, v))
<1>1. PICK call \in CallsMade : c \in Outcome(call)
  BY DEF Outcomes
<1>2. /\ c = [func |-> call.func, args |-> call.args, value |-> c.value, is |-> c.is]
      /\ c.value \in {<<>>, Answer(call.func, call.args)} /\ c.func = call.func /\ c.args = call.args
  BY <1>1 DEF Outcome
<1>3. WellTyped(c) /\ \A fits \in BOOLEAN : Execution(c, fits) \in Executions
  <2>1. WellTyped(call)
    BY ProtocolAssumption
  <2>2. \A fits \in BOOLEAN : Execution(c, fits) = Execution(call, fits)
    BY <1>2 DEF Execution
  <2>3. \A fits \in BOOLEAN : Execution(call, fits) \in Executions
    BY DEF Executions
  <2>4. WellTyped(c)
    BY <1>2, <2>1 DEF WellTyped
  <2> QED BY <2>2, <2>3, <2>4
<1>4. PICK old, was : c = [func |-> call.func, args |-> call.args, value |-> old, is |-> was]
                     /\ old \in {<<>>, Answer(call.func, call.args)}
  BY <1>2
<1>5. Failed(c) \in Outcomes /\ Failed(c).is = "error" /\ SameCall(c, Failed(c))
  <2>1. Failed(c) = [func |-> call.func, args |-> call.args, value |-> old, is |-> "error"]
    BY ONLY <1>4 DEF Failed
  <2>2. Failed(c) \in Outcome(call)
    BY ONLY <1>4, <2>1 DEF Outcome
  <2>3. SameCall(c, Failed(c)) /\ Failed(c).is = "error"
    BY ONLY <1>4, <2>1 DEF SameCall
  <2> QED BY <2>2, <2>3 DEF Outcomes
<1>6. ASSUME NEW v
      PROVE  /\ v = Answer(c.func, c.args) => Valued(c, v) \in Outcomes
             /\ Valued(c, v).is = "value" /\ Valued(c, v).value = v
             /\ SameCall(c, Valued(c, v))
  <2>1. PICK d : d = [c EXCEPT !.is = "value"]
    OBVIOUS
  <2>2. d = [func |-> call.func, args |-> call.args, value |-> old, is |-> "value"]
    BY ONLY <1>4, <2>1
  <2>3. Valued(c, v) = [d EXCEPT !.value = v]
    BY <2>1 DEF Valued
  <2>4. Valued(c, v) = [func |-> call.func, args |-> call.args, value |-> v, is |-> "value"]
    BY ONLY <2>2, <2>3
  <2>5. v = Answer(c.func, c.args) => Valued(c, v) \in Outcome(call)
    BY ONLY <1>2, <2>4 DEF Outcome
  <2>6. /\ Valued(c, v).is = "value" /\ Valued(c, v).value = v
        /\ SameCall(c, Valued(c, v))
    BY ONLY <1>4, <2>4 DEF SameCall
  <2> QED BY <2>5, <2>6 DEF Outcomes
<1> QED BY <1>3, <1>5, <1>6

\* The messages of the calls
CallsOK ==
  /\ Count \in Nat
  /\ \A i \in 1..Count :
       /\ calls[i] \in Outcomes /\ WellTyped(calls[i])
       /\ Requests[i] = RequestOf(calls[i]) /\ Replies[i] = ReplyOf(calls[i], i # Short)
       /\ Requests[i] \in Seq(Int) /\ Replies[i] \in Seq(Int)
       /\ Len(Requests[i]) \in Nat /\ Len(Requests[i]) >= 2
       /\ Len(Replies[i]) \in Nat /\ Len(Replies[i]) >= 2
       /\ i \in Goods <=> Good(calls[i], i # Short)
       /\ Runs[i] \in Executions /\ Runs[i] = Execution(calls[i], i # Short)
  /\ \A n \in Nat, h \in 0..Count : Messages(Requests, n, h) /\ Messages(Replies, n, h)

LEMMA CallsTyped ==
  ASSUME calls \in Seq(Outcomes)
  PROVE  CallsOK
<1>1. Count \in Nat
  BY LenProperties DEF Count
<1>2. ASSUME NEW i \in 1..Count
      PROVE  /\ calls[i] \in Outcomes /\ WellTyped(calls[i])
             /\ Requests[i] = RequestOf(calls[i]) /\ Replies[i] = ReplyOf(calls[i], i # Short)
             /\ Requests[i] \in Seq(Int) /\ Replies[i] \in Seq(Int)
             /\ Len(Requests[i]) \in Nat /\ Len(Requests[i]) >= 2
             /\ Len(Replies[i]) \in Nat /\ Len(Replies[i]) >= 2
             /\ i \in Goods <=> Good(calls[i], i # Short)
             /\ Runs[i] \in Executions /\ Runs[i] = Execution(calls[i], i # Short)
  <2>1. calls[i] \in Outcomes
    BY ElementOfSeq DEF Count
  <2>2. PICK c, fits : c = calls[i] /\ fits = (i # Short) /\ fits \in BOOLEAN
    OBVIOUS
  <2>3. WellTyped(c)
    BY <2>1, <2>2, OneOutcome
  <2>4. RequestOf(c) \in Seq(Int) /\ Len(RequestOf(c)) \in Nat /\ Len(RequestOf(c)) >= 2
    <3>1. PICK body, index : body \in Seq(Int) /\ Headed(RequestOf(c), CallType, index, body)
      BY <2>3, Requested
    <3>2. Len(body) \in Nat
      BY <3>1, LenProperties
    <3> QED BY <3>1, <3>2 DEF Headed
  <2>5. ReplyOf(c, fits) \in Seq(Int) /\ Len(ReplyOf(c, fits)) \in Nat /\ Len(ReplyOf(c, fits)) >= 2
    <3>1. PICK body, status : body \in Seq(Int) /\ Headed(ReplyOf(c, fits), ReplyType, status, body)
      BY <2>2, <2>3, Replied, EmptySeq
    <3>2. Len(body) \in Nat
      BY <3>1, LenProperties
    <3> QED BY <3>1, <3>2 DEF Headed
  <2>6. Requests[i] = RequestOf(c) /\ Replies[i] = ReplyOf(c, fits)
    BY <2>2 DEF Requests, Replies
  <2>7. i \in Goods <=> Good(c, fits)
    BY <2>2 DEF Goods
  <2>8. Execution(c, fits) \in Executions
    BY <2>1, <2>2, OneOutcome
  <2>9. Runs[i] = Execution(c, fits)
    BY <2>2 DEF Runs
  <2> QED BY <2>1, <2>2, <2>3, <2>4, <2>5, <2>6, <2>7, <2>8, <2>9
<1>3. ASSUME NEW n \in Nat, NEW h \in 0..Count
      PROVE  Messages(Requests, n, h) /\ Messages(Replies, n, h)
  BY <1>1, <1>2 DEF Messages
<1> QED BY <1>1, <1>2, <1>3 DEF CallsOK

-----------------------------------------------------------------------------
\* Both ends of the streams

LEMMA NotEmpty ==
  ASSUME NEW T, NEW s \in Seq(T)
  PROVE  Len(s) \in Nat /\ (s # <<>> <=> Len(s) # 0)
BY EmptySeq, LenProperties

LEMMA BothEmpty ==
  ASSUME NEW T, NEW a \in Seq(T), NEW b \in Seq(T), a \o b = <<>>
  PROVE  a = <<>> /\ b = <<>>
<1>1. PICK m \in Nat, n \in Nat : m = Len(a) /\ n = Len(b)
  BY LenProperties
<1>2. PICK s : s = a \o b
  OBVIOUS
<1>3. Len(s) = m + n
  <2>1. Joined(s, a, b)
    BY <1>2, ElementOf
  <2> QED BY <1>1, <2>1 DEF Joined
<1>4. Len(s) = 0
  BY <1>2, EmptySeq
<1> QED BY <1>1, <1>3, <1>4, NotEmpty

\* The first message of a stream that is in two places, b and then c
FirstIn(b, c, message, rest) ==
  /\ Begins(b, message)
  /\ Len(message) <= Len(b) => SubSeq(b, Len(message) + 1, Len(b)) \o c = rest

LEMMA FirstInStream ==
  ASSUME NEW m, NEW n \in Nat, NEW h \in Nat, n <= h, Messages(m, n, h),
         NEW b \in Seq(Int), NEW c \in Seq(Int), b \o c = Stream(m, n, h)
  PROVE  /\ b # <<>> => n < h
         /\ n < h => FirstIn(b, c, m[n + 1], Stream(m, n + 1, h))
<1>1. ASSUME ~(n < h) PROVE b = <<>>
  <2>1. Stream(m, n, h) = <<>>
    <3>1. n = h
      BY <1>1
    <3> QED BY <3>1, StreamEmpty
  <2> QED BY <2>1, BothEmpty
<1>2. ASSUME n < h PROVE FirstIn(b, c, m[n + 1], Stream(m, n + 1, h))
  <2>1. PICK x, r : x = m[n + 1] /\ r = Stream(m, n + 1, h)
    OBVIOUS
  <2>2. b \o c = x \o r /\ x \in Seq(Int) /\ r \in Seq(Int)
    BY <1>2, <2>1, StreamFirst
  <2>3. Begins(b, x) /\ (Len(x) <= Len(b) => SubSeq(b, Len(x) + 1, Len(b)) \o c = r)
    BY ONLY <2>2, b \in Seq(Int), c \in Seq(Int), FirstMessage
  <2> QED BY <2>1, <2>3 DEF FirstIn
<1> QED BY <1>1, <1>2

\* The server's buffer begins with the request of the next call.
NextRequest ==
  /\ Done \in Nat /\ Done + 1 \in 1..Count /\ ServerSees(calls[Done + 1])
  /\ FirstIn(inbuf, toServer \o buf, Requests[Done + 1], Stream(Requests, Done + 1, Count))

LEMMA ServerFirst ==
  ASSUME TypeOK, ExecutedOK, RequestsOK, ~closing, inbuf # <<>>
  PROVE  NextRequest
<1>1. CallsOK
  BY CallsTyped DEF TypeOK
<1>2. PICK n \in Nat, h \in Nat : n = Done /\ h = Count /\ n <= h
  <2>1. Done \in Nat /\ Count \in Nat /\ Done <= Count
    BY LenProperties DEF TypeOK, Done, Count, ExecutedOK
  <2> QED BY <2>1
<1>3. PICK rest : rest = toServer \o buf
  OBVIOUS
<1>4. inbuf \in Seq(Int) /\ toServer \in Seq(Int) /\ buf \in Seq(Int) /\ rest \in Seq(Int)
  BY <1>3, ConcatProperties DEF TypeOK
<1>5. inbuf \o rest = Stream(Requests, n, h)
  <2>1. (inbuf \o toServer) \o buf = Stream(Requests, n, h)
    BY <1>2 DEF RequestsOK
  <2>2. Regroups(inbuf, toServer, buf)
    BY ONLY <1>4, Regrouped
  <2> QED BY <1>3, <2>1, <2>2 DEF Regroups
<1>6. Messages(Requests, n, h)
  <2>1. h \in 0..h
    OBVIOUS
  <2> QED BY <1>1, <1>2, <2>1 DEF CallsOK
<1>7. n < h /\ FirstIn(inbuf, rest, Requests[n + 1], Stream(Requests, n + 1, h))
  BY ONLY <1>2, <1>4, <1>5, <1>6, inbuf # <<>>, n \in Nat, h \in Nat, FirstInStream
<1>8. n + 1 \in 1..h
  BY <1>7
<1>9. WellTyped(calls[n + 1]) /\ Requests[n + 1] = RequestOf(calls[n + 1])
  BY <1>1, <1>2, <1>8 DEF CallsOK
<1>10. ServerSees(calls[n + 1])
  <2>1. Begins(inbuf, RequestOf(calls[n + 1]))
    BY <1>7, <1>9 DEF FirstIn
  <2> QED BY <1>4, <1>9, <2>1, FirstRequest
<1> QED BY <1>2, <1>3, <1>7, <1>8, <1>10 DEF NextRequest

\* The client's bytes begin with the reply to the first call that waits.
NextReply ==
  /\ Answered \in Nat /\ Handled \in Nat /\ Answered + 1 \in 1..Count /\ Answered + 1 <= Handled
  /\ Head(pending) = Answered + 1 /\ ClientSees(calls[Answered + 1], Answered + 1 # Short)
  /\ FirstIn(replies, toClient, Replies[Answered + 1], Stream(Replies, Answered + 1, Handled))

\* The numbers of the calls
LEMMA Numbers ==
  ASSUME TypeOK, ExecutedOK
  PROVE  /\ Done \in Nat /\ Count \in Nat /\ Handled \in {Done, Done + 1}
         /\ Done <= Count /\ Handled <= Count
         /\ closing => Handled \in 1..Count /\ Handled \notin Goods
         /\ ~closing => Handled = Done
         /\ Len(pending) \in Nat
         /\ Answered = Count - Len(pending) /\ Answered \in Int
<1>1. Done \in Nat /\ Count \in Nat /\ Len(pending) \in Nat
  BY LenProperties DEF TypeOK, Done, Count
<1> QED BY <1>1 DEF ExecutedOK, Handled, Answered, Count

LEMMA ClientFirst ==
  ASSUME TypeOK, ExecutedOK, PendingOK, RepliesOK, replies # <<>>
  PROVE  pending # <<>> /\ NextReply
<1>1. CallsOK
  BY CallsTyped DEF TypeOK
<1>2. PICK n \in Nat, h \in Nat, l \in Nat, k \in Nat :
        /\ n = Answered /\ h = Handled /\ l = Count /\ k = Len(pending)
        /\ n <= h /\ h <= l /\ n = l - k
  <2>1. Answered \in Nat /\ Handled \in Nat
    BY Numbers DEF PendingOK
  <2> QED BY <2>1, Numbers DEF PendingOK
<1>3. replies \in Seq(Int) /\ toClient \in Seq(Int) /\ pending \in Seq(Nat)
  BY DEF TypeOK
<1>4. replies \o toClient = Stream(Replies, n, h)
  BY <1>2 DEF RepliesOK
<1>5. Messages(Replies, n, h)
  <2>1. h \in 0..Count
    BY <1>2
  <2> QED BY <1>1, <1>2, <2>1 DEF CallsOK
<1>6. n < h /\ FirstIn(replies, toClient, Replies[n + 1], Stream(Replies, n + 1, h))
  BY ONLY <1>2, <1>3, <1>4, <1>5, replies # <<>>, n \in Nat, h \in Nat, FirstInStream
<1>7. n + 1 \in 1..Count /\ n + 1 <= h /\ k # 0
  BY <1>2, <1>6
<1>8. pending # <<>> /\ Head(pending) = n + 1
  <2>1. pending # <<>>
    BY <1>2, <1>3, <1>7, NotEmpty
  <2>2. 1 \in 1..k /\ pending[1] = n + 1
    BY <1>2, <1>7 DEF PendingOK
  <2>3. Head(pending) = pending[1]
    OBVIOUS
  <2> QED BY <2>1, <2>2, <2>3
<1>9. WellTyped(calls[n + 1]) /\ Replies[n + 1] = ReplyOf(calls[n + 1], n + 1 # Short)
  BY <1>1, <1>7 DEF CallsOK
<1>10. ClientSees(calls[n + 1], n + 1 # Short)
  <2>1. Begins(replies, ReplyOf(calls[n + 1], n + 1 # Short)) /\ (n + 1 # Short) \in BOOLEAN
    BY <1>6, <1>9 DEF FirstIn
  <2>2. calls[Head(pending)].func = calls[n + 1].func
    BY <1>8
  <2> QED BY <1>3, <1>8, <1>9, <2>1, <2>2, FirstReply
<1> QED BY <1>2, <1>6, <1>7, <1>8, <1>10 DEF NextReply

-----------------------------------------------------------------------------
\* Every step preserves the invariant

\* The calls are those they were, and no other result is without room.
SameCalls ==
  /\ Count' = Count /\ Requests' = Requests /\ Replies' = Replies
  /\ Goods' = Goods /\ Runs' = Runs /\ Short' = Short
  /\ \A i \in 1..Count : Refusable(calls'[i]) <=> Refusable(calls[i])

\* What becomes of a call changes neither its request nor its reply.
LEMMA CallsKept ==
  ASSUME TypeOK, Len(calls') = Len(calls), executed' = executed,
         \A i \in 1..Count : calls'[i].func = calls[i].func /\ calls'[i].args = calls[i].args
  PROVE  SameCalls
<1>1. Count' = Count
  BY DEF Count
<1>2. Short' = Short
  BY DEF Short, Done
<1>3. ASSUME NEW i \in 1..Count
      PROVE  /\ RequestOf(calls'[i]) = RequestOf(calls[i])
             /\ \A fits : /\ ReplyOf(calls'[i], fits) = ReplyOf(calls[i], fits)
                          /\ Good(calls'[i], fits) <=> Good(calls[i], fits)
                          /\ Execution(calls'[i], fits) = Execution(calls[i], fits)
  <2>1. PICK c, d : c = calls[i] /\ d = calls'[i]
    OBVIOUS
  <2>2. c.func = d.func /\ c.args = d.args
    BY <2>1
  <2>3. RequestOf(d) = RequestOf(c)
    BY ONLY <2>2 DEF RequestOf
  <2>4. ResultBytes(d) = ResultBytes(c) /\ \A fits : Execution(d, fits) = Execution(c, fits)
    BY ONLY <2>2 DEF ResultBytes, Execution
  <2>5. Exported(d) <=> Exported(c)
    BY ONLY <2>2 DEF Exported
  <2>6. \A fits : Good(d, fits) <=> Good(c, fits)
    BY ONLY <2>5 DEF Good
  <2>7. \A fits : ReplyOf(d, fits) = ReplyOf(c, fits)
    BY ONLY <2>4, <2>5 DEF ReplyOf
  <2> QED BY <2>1, <2>3, <2>4, <2>6, <2>7
<1>4. Requests' = Requests /\ Replies' = Replies
  BY <1>1, <1>2, <1>3 DEF Requests, Replies
<1>5. Goods' = Goods /\ Runs' = Runs
  BY <1>1, <1>2, <1>3 DEF Goods, Runs
<1>6. ASSUME NEW i \in 1..Count PROVE Refusable(calls'[i]) <=> Refusable(calls[i])
  <2>1. PICK c, d : c = calls[i] /\ d = calls'[i]
    OBVIOUS
  <2>2. c.func = d.func /\ c.args = d.args
    BY <2>1
  <2>3. Refusable(d) <=> Refusable(c)
    BY ONLY <2>2 DEF Refusable
  <2> QED BY <2>1, <2>3
<1> QED BY <1>1, <1>2, <1>4, <1>5, <1>6 DEF SameCalls

LEMMA CallsUnchanged ==
  ASSUME calls' = calls, executed' = executed
  PROVE  SameCalls
<1>1. Count' = Count /\ Short' = Short
  BY DEF Count, Short, Done
<1>2. Requests' = Requests /\ Replies' = Replies
  BY <1>1 DEF Requests, Replies
<1>3. Goods' = Goods /\ Runs' = Runs
  BY <1>1 DEF Goods, Runs
<1>4. \A i \in 1..Count : Refusable(calls'[i]) <=> Refusable(calls[i])
  OBVIOUS
<1> QED BY <1>1, <1>2, <1>3, <1>4 DEF SameCalls

\* The call whose result had no room may still be refused.
LEMMA ShortRefusable ==
  ASSUME TypeOK, ExecutedOK, SameCalls
  PROVE  Short' # 0 => Refusable(calls'[Short'])
<1>1. Short' = Short /\ (Short # 0 => Refusable(calls[Short]))
  BY DEF SameCalls, ExecutedOK
<1>2. Short # 0 => Short \in 1..Count
  BY Numbers DEF Short
<1>3. Short # 0 => Refusable(calls'[Short])
  BY <1>1, <1>2 DEF SameCalls
<1> QED BY <1>1, <1>3

LEMMA InitInvariant ==
  ASSUME Init
  PROVE  IInv
<1>1. PICK none : none = <<>> /\ Len(none) = 0 /\ none \in Seq(Int) /\ none \in Seq(Nat)
                  /\ none \in Seq(Outcomes) /\ none \in Seq(Executions)
  BY EmptySeq
<1>2. /\ calls = none /\ pending = none /\ buf = none /\ flush = "idle" /\ toServer = none
      /\ toClient = none /\ inbuf = none /\ handling = FALSE /\ closing = FALSE
      /\ executed = none /\ replies = none /\ serverEnd = "open"
  BY <1>1 DEF Init
<1>3. TypeOK
  BY <1>1, <1>2 DEF TypeOK
<1>4. Count = 0 /\ Done = 0 /\ Answered = 0 /\ Handled = 0 /\ Short = 0
  BY <1>1, <1>2 DEF Count, Done, Answered, Handled, Short
<1>5. 1..0 = {} /\ 1..(0 - 1) = {}
  OBVIOUS
<1>6. ExecutedOK
  BY <1>2, <1>4, <1>5 DEF ExecutedOK
<1>7. none \o none = none
  BY <1>1, ConcatEmptySeq
<1>8. \A m : Stream(m, 0, 0) = none
  BY <1>1, StreamEmpty
<1>9. RequestsOK
  BY <1>2, <1>4, <1>7, <1>8, <1>1 DEF RequestsOK
<1>10. PendingOK
  BY <1>1, <1>2, <1>4, <1>5 DEF PendingOK
<1>11. RepliesOK
  BY <1>1, <1>2, <1>4, <1>7, <1>8 DEF RepliesOK
<1> QED BY <1>2, <1>3, <1>6, <1>9, <1>10, <1>11 DEF IInv

\* The parts of the invariant that what does not change leaves as they are
LEMMA ExecutedKept ==
  ASSUME ExecutedOK, calls' = calls, executed' = executed, closing' = closing,
         closing => handling' = FALSE, serverEnd' = serverEnd \/ closing
  PROVE  /\ ExecutedOK' /\ SameCalls
         /\ Done' = Done /\ Handled' = Handled
<1>1. SameCalls
  BY CallsUnchanged
<1>2. Done' = Done
  BY DEF Done
<1>3. Handled' = Handled
  BY <1>1, <1>2 DEF Handled, SameCalls
<1>4. Short # 0 => Refusable(calls[Short])
  BY DEF ExecutedOK
<1>5. (Short # 0 => Refusable(calls[Short]))'
  <2>1. Short' = Short
    BY <1>1 DEF SameCalls
  <2>2. Short' # 0 => Refusable(calls'[Short'])
    BY <1>4, <2>1
  <2> QED BY <2>2
<1>6. ExecutedOK'
  BY <1>1, <1>2, <1>3, <1>5 DEF ExecutedOK, SameCalls
<1> QED BY <1>1, <1>2, <1>3, <1>6

LEMMA PendingKept ==
  ASSUME PendingOK, calls' = calls, executed' = executed, pending' = pending,
         Handled' = Handled
  PROVE  PendingOK' /\ Answered' = Answered
<1>1. SameCalls
  BY CallsUnchanged
<1>2. Answered' = Answered
  BY DEF Answered
<1> QED BY <1>1, <1>2 DEF PendingOK, SameCalls

\* A Flush that has failed stays so: the server can only give up the connection.
LEMMA FailedKept ==
  ASSUME FailedOK, calls' = calls, executed' = executed, closing' = closing, flush' = flush,
         serverEnd' = serverEnd \/ serverEnd = "open"
  PROVE  FailedOK'
<1>1. SameCalls /\ Done' = Done
  BY CallsUnchanged DEF Done
<1>2. FailsOnlyWhenRefused'
  BY DEF FailedOK, FailsOnlyWhenRefused, Refusable
<1> QED BY <1>1, <1>2 DEF FailedOK, SameCalls

LEMMA FlushPreserves ==
  ASSUME IInv, Flush
  PROVE  IInv'
<1>1. /\ flush = "idle" /\ pending # <<>> /\ toServer' = toServer \o buf /\ buf' = <<>>
      /\ flush' = "reading"
      /\ calls' = calls /\ pending' = pending /\ toClient' = toClient /\ replies' = replies
      /\ inbuf' = inbuf /\ handling' = handling /\ closing' = closing /\ executed' = executed
      /\ serverEnd' = serverEnd
  BY DEF Flush, server
<1>2. TypeOK /\ ExecutedOK /\ RequestsOK /\ PendingOK /\ RepliesOK
  BY <1>1 DEF IInv
<1>3. inbuf \in Seq(Int) /\ toServer \in Seq(Int) /\ buf \in Seq(Int) /\ <<>> \in Seq(Int)
  BY <1>2, EmptySeq DEF TypeOK
<1>4. TypeOK'
  <2>1. toServer \o buf \in Seq(Int)
    BY <1>3, ConcatProperties
  <2> QED BY <1>1, <1>2, <1>3, <2>1 DEF TypeOK
<1>5. ExecutedOK' /\ SameCalls /\ Done' = Done /\ Handled' = Handled
  <2>1. closing => handling = FALSE
    BY <1>2 DEF ExecutedOK
  <2> QED BY <1>1, <1>2, <2>1, ExecutedKept
<1>6. RequestsOK'
  <2>1. (inbuf \o (toServer \o buf)) \o <<>> = (inbuf \o toServer) \o buf
    <3>1. Regroups(inbuf, toServer, buf)
      BY <1>3, Regrouped
    <3>2. inbuf \o (toServer \o buf) \in Seq(Int)
      BY <1>3, ConcatProperties
    <3>3. (inbuf \o (toServer \o buf)) \o <<>> = inbuf \o (toServer \o buf)
      BY <3>2, ConcatEmptySeq
    <3> QED BY <3>1, <3>3 DEF Regroups
  <2> QED BY <1>1, <1>2, <1>5, <2>1 DEF RequestsOK, SameCalls
<1>7. PendingOK' /\ Answered' = Answered
  BY <1>1, <1>2, <1>5, PendingKept
<1>8. Len(replies) < Len(Replies[Answered + 1])
  <2>1. replies = <<>>
    BY <1>1, <1>2 DEF RepliesOK
  <2>2. Len(pending) # 0 /\ pending \in Seq(Nat)
    BY <1>1, <1>2, NotEmpty DEF TypeOK
  <2>3. Answered + 1 \in 1..Count
    <3>1. Answered \in Nat
      BY <1>1, <1>2, Numbers DEF RepliesOK
    <3> QED BY <1>2, <2>2, <3>1, Numbers
  <2>4. CallsOK
    BY <1>2, CallsTyped DEF TypeOK
  <2>5. Len(Replies[Answered + 1]) \in Nat /\ Len(Replies[Answered + 1]) >= 2
    BY <2>3, <2>4 DEF CallsOK
  <2> QED BY <2>1, <2>5, EmptySeq
<1>9. RepliesOK'
  BY <1>1, <1>2, <1>5, <1>7, <1>8 DEF RepliesOK, SameCalls
<1> QED BY <1>1, <1>4, <1>5, <1>6, <1>7, <1>9 DEF IInv

LEMMA ServerReadsPreserves ==
  ASSUME IInv, ServerReads
  PROVE  IInv'
<1>1. PICK n \in 1..Len(toServer) :
        /\ inbuf' = inbuf \o SubSeq(toServer, 1, n)
        /\ toServer' = SubSeq(toServer, n + 1, Len(toServer))
  BY DEF ServerReads
<1>2. /\ handling' = ~closing /\ flush' = flush /\ buf' = buf
      /\ calls' = calls /\ pending' = pending /\ toClient' = toClient /\ replies' = replies
      /\ closing' = closing /\ executed' = executed /\ serverEnd' = serverEnd
  BY DEF ServerReads
<1>3. TypeOK /\ ExecutedOK /\ RequestsOK
  BY DEF IInv
<1>4. inbuf \in Seq(Int) /\ toServer \in Seq(Int) /\ buf \in Seq(Int)
  BY <1>3 DEF TypeOK
<1>5. n \in Nat /\ n <= Len(toServer) /\ toServer # <<>>
  <2>1. Len(toServer) \in Nat
    BY <1>4, NotEmpty
  <2> QED BY <1>4, <2>1, NotEmpty
<1>6. PICK u, v : u = SubSeq(toServer, 1, n) /\ v = SubSeq(toServer, n + 1, Len(toServer))
  OBVIOUS
<1>7. u \in Seq(Int) /\ v \in Seq(Int) /\ (inbuf \o u) \o v = inbuf \o toServer
  <2>1. Moved(Int, inbuf, toServer, u, v)
    BY ONLY <1>4, <1>5, <1>6, ReadMoves
  <2> QED BY ONLY <2>1 DEF Moved
<1>8. TypeOK'
  <2>1. inbuf \o u \in Seq(Int)
    BY <1>4, <1>7, ConcatProperties
  <2>2. handling' \in BOOLEAN
    BY <1>2, <1>3 DEF TypeOK
  <2> QED BY <1>1, <1>2, <1>3, <1>6, <1>7, <2>1, <2>2 DEF TypeOK
<1>9. ExecutedOK' /\ SameCalls /\ Done' = Done /\ Handled' = Handled
  BY <1>2, <1>3, ExecutedKept
<1>10. RequestsOK'
  BY <1>1, <1>2, <1>3, <1>6, <1>7, <1>9 DEF RequestsOK, SameCalls
<1>11. CASE flush = "failed"
  <2>1. FailedOK'
    BY <1>2, <1>11, FailedKept DEF IInv
  <2> QED BY <1>2, <1>8, <1>9, <1>10, <1>11, <2>1 DEF IInv
<1>12. CASE flush # "failed"
  <2>1. PendingOK /\ RepliesOK
    BY <1>12 DEF IInv
  <2>2. PendingOK' /\ Answered' = Answered
    BY <1>2, <1>9, <2>1, PendingKept
  <2>3. flush # "idle"
    BY <1>5, <2>1 DEF RepliesOK
  <2>4. RepliesOK'
    BY <1>2, <1>9, <2>1, <2>2, <2>3 DEF RepliesOK, SameCalls
  <2> QED BY <1>2, <1>8, <1>9, <1>10, <1>12, <2>2, <2>4 DEF IInv
<1> QED BY <1>11, <1>12

LEMMA RequestWaitsPreserves ==
  ASSUME IInv, RequestWaits
  PROVE  IInv'
<1>1. /\ handling /\ Waits /\ handling' = FALSE /\ flush' = flush /\ buf' = buf
      /\ calls' = calls /\ pending' = pending /\ toClient' = toClient /\ replies' = replies
      /\ closing' = closing /\ executed' = executed /\ inbuf' = inbuf /\ toServer' = toServer
      /\ serverEnd' = serverEnd
  BY DEF RequestWaits
<1>2. TypeOK /\ ExecutedOK /\ RequestsOK /\ ~closing
  BY <1>1 DEF IInv, ExecutedOK
<1>3. flush # "failed" /\ PendingOK /\ RepliesOK
  BY <1>2 DEF IInv, FailedOK
<1>4. TypeOK'
  BY <1>1, <1>2 DEF TypeOK
<1>5. ExecutedOK' /\ SameCalls /\ Done' = Done /\ Handled' = Handled
  BY <1>1, <1>2, ExecutedKept
<1>6. inbuf = <<>> \/ Len(inbuf) < Len(Requests[Done + 1])
  <2>1. ASSUME inbuf # <<>> PROVE Len(inbuf) < Len(Requests[Done + 1])
    <3>1. NextRequest /\ CallsOK
      BY <1>2, <2>1, ServerFirst, CallsTyped DEF TypeOK
    <3>2. PICK c : c = calls[Done + 1] /\ ServerSees(c) /\ Requests[Done + 1] = RequestOf(c)
      BY <3>1 DEF NextRequest, CallsOK
    <3>3. Len(inbuf) \in Nat /\ Len(RequestOf(c)) \in Nat
      BY <1>2, <3>2, LenProperties DEF TypeOK, ServerSees
    <3> QED BY <1>1, <3>2, <3>3 DEF ServerSees, HeaderSize
  <2> QED BY <2>1
<1>7. RequestsOK'
  BY <1>1, <1>2, <1>5, <1>6 DEF RequestsOK, SameCalls
<1>8. PendingOK' /\ Answered' = Answered
  BY <1>1, <1>3, <1>5, PendingKept
<1>9. RepliesOK'
  BY <1>1, <1>3, <1>5, <1>8 DEF RepliesOK, SameCalls
<1> QED BY <1>1, <1>3, <1>4, <1>5, <1>7, <1>8, <1>9 DEF IInv

LEMMA ClientReadsPreserves ==
  ASSUME IInv, ClientReads
  PROVE  IInv'
<1>1. PICK n \in 1..Len(toClient) :
        /\ replies' = replies \o SubSeq(toClient, 1, n)
        /\ toClient' = SubSeq(toClient, n + 1, Len(toClient))
  BY DEF ClientReads
<1>2. /\ flush = "reading" /\ flush' = "parsing" /\ buf' = buf
      /\ calls' = calls /\ pending' = pending /\ toServer' = toServer
      /\ inbuf' = inbuf /\ handling' = handling /\ closing' = closing /\ executed' = executed
      /\ serverEnd' = serverEnd
  BY DEF ClientReads, server
<1>3. TypeOK /\ ExecutedOK /\ RequestsOK /\ PendingOK /\ RepliesOK
  BY <1>2 DEF IInv
<1>4. replies \in Seq(Int) /\ toClient \in Seq(Int)
  BY <1>3 DEF TypeOK
<1>5. n \in Nat /\ n <= Len(toClient)
  <2>1. Len(toClient) \in Nat
    BY <1>4, NotEmpty
  <2> QED BY <1>4, <2>1
<1>6. PICK u, v : u = SubSeq(toClient, 1, n) /\ v = SubSeq(toClient, n + 1, Len(toClient))
  OBVIOUS
<1>7. u \in Seq(Int) /\ v \in Seq(Int) /\ (replies \o u) \o v = replies \o toClient
  <2>1. Moved(Int, replies, toClient, u, v)
    BY ONLY <1>4, <1>5, <1>6, ReadMoves
  <2> QED BY ONLY <2>1 DEF Moved
<1>8. TypeOK'
  <2>1. replies \o u \in Seq(Int)
    BY <1>4, <1>7, ConcatProperties
  <2> QED BY <1>1, <1>2, <1>3, <1>6, <1>7, <2>1 DEF TypeOK
<1>9. ExecutedOK' /\ SameCalls /\ Done' = Done /\ Handled' = Handled
  <2>1. closing => handling = FALSE
    BY <1>3 DEF ExecutedOK
  <2> QED BY <1>2, <1>3, <2>1, ExecutedKept
<1>10. RequestsOK'
  BY <1>2, <1>3, <1>9 DEF RequestsOK, SameCalls
<1>11. PendingOK' /\ Answered' = Answered
  BY <1>2, <1>3, <1>9, PendingKept
<1>12. RepliesOK'
  BY <1>1, <1>2, <1>3, <1>6, <1>7, <1>9, <1>11 DEF RepliesOK, SameCalls
<1> QED BY <1>2, <1>3, <1>8, <1>9, <1>10, <1>11, <1>12 DEF IInv

\* When no call waits there are no replies left.
LEMMA NoneWaits ==
  ASSUME TypeOK, ExecutedOK, RequestsOK, PendingOK, RepliesOK, pending = <<>>, flush # "idle"
  PROVE  /\ ~closing /\ Answered = Done /\ replies = <<>>
         /\ toServer = <<>> /\ inbuf = <<>>
<1>1. /\ Done \in Nat /\ Count \in Nat /\ Handled \in {Done, Done + 1} /\ Handled <= Count
      /\ closing => Handled \in 1..Count /\ Handled \notin Goods
      /\ ~closing => Handled = Done
      /\ Answered = Count - Len(pending)
  BY Numbers
<1>2. Answered = Count
  BY <1>1, EmptySeq
<1>3. Handled = Count /\ 1..Count \subseteq Goods
  BY <1>1, <1>2 DEF PendingOK
<1>4. ~closing /\ Done = Count
  BY <1>1, <1>3
<1>5. replies \o toClient = <<>>
  <2>1. replies \o toClient = Stream(Replies, Count, Count)
    BY <1>2, <1>3 DEF RepliesOK
  <2> QED BY <1>1, <2>1, StreamEmpty
<1>6. replies = <<>>
  BY <1>5, BothEmpty DEF TypeOK
<1>7. (inbuf \o toServer) \o buf = <<>>
  <2>1. (inbuf \o toServer) \o buf = Stream(Requests, Count, Count)
    BY <1>4 DEF RequestsOK
  <2> QED BY <1>1, <2>1, StreamEmpty
<1>8. inbuf = <<>> /\ toServer = <<>>
  <2>1. inbuf \in Seq(Int) /\ toServer \in Seq(Int) /\ buf \in Seq(Int)
    BY DEF TypeOK
  <2>2. inbuf \o toServer \in Seq(Int)
    BY <2>1, ConcatProperties
  <2>3. inbuf \o toServer = <<>>
    BY <1>7, <2>1, <2>2, BothEmpty
  <2> QED BY <2>1, <2>3, BothEmpty
<1> QED BY <1>2, <1>4, <1>6, <1>8

LEMMA ReplyWaitsPreserves ==
  ASSUME IInv, ReplyWaits
  PROVE  IInv'
<1>1. /\ flush = "parsing" /\ ~Fails /\ ~Parses
      /\ flush' = IF pending = <<>> THEN "idle" ELSE "reading"
      /\ calls' = calls /\ pending' = pending /\ toServer' = toServer /\ buf' = buf
      /\ toClient' = toClient /\ replies' = replies
      /\ inbuf' = inbuf /\ handling' = handling /\ closing' = closing /\ executed' = executed
      /\ serverEnd' = serverEnd
  BY DEF ReplyWaits, server
<1>2. TypeOK /\ ExecutedOK /\ RequestsOK /\ PendingOK /\ RepliesOK
  BY <1>1 DEF IInv
<1>3. TypeOK'
  BY <1>1, <1>2 DEF TypeOK
<1>4. ExecutedOK' /\ SameCalls /\ Done' = Done /\ Handled' = Handled
  <2>1. closing => handling = FALSE
    BY <1>2 DEF ExecutedOK
  <2> QED BY <1>1, <1>2, <2>1, ExecutedKept
<1>5. RequestsOK'
  BY <1>1, <1>2, <1>4 DEF RequestsOK, SameCalls
<1>6. PendingOK' /\ Answered' = Answered
  BY <1>1, <1>2, <1>4, PendingKept
<1>7. CASE pending = <<>>
  <2>1. /\ ~closing /\ Answered = Done /\ replies = <<>>
        /\ toServer = <<>> /\ inbuf = <<>>
    BY <1>1, <1>2, <1>7, NoneWaits
  <2>2. RepliesOK'
    BY <1>1, <1>2, <1>4, <1>6, <1>7, <2>1 DEF RepliesOK, SameCalls
  <2> QED BY <1>1, <1>3, <1>4, <1>5, <1>6, <1>7, <2>2 DEF IInv
<1>8. CASE pending # <<>>
  <2>1. Len(replies) < Len(Replies[Answered + 1])
    <3>1. CallsOK
      BY <1>2, CallsTyped DEF TypeOK
    <3>2. CASE replies = <<>>
      <4>1. pending \in Seq(Nat) /\ Len(pending) # 0
        BY <1>2, <1>8, NotEmpty DEF TypeOK
      <4>2. Answered + 1 \in 1..Count
        BY <1>2, <4>1, Numbers DEF PendingOK
      <4>3. Len(Replies[Answered + 1]) \in Nat /\ Len(Replies[Answered + 1]) >= 2
        BY <3>1, <4>2 DEF CallsOK
      <4> QED BY <3>2, <4>3, EmptySeq
    <3>3. CASE replies # <<>>
      <4>1. NextReply
        BY <1>2, <3>3, ClientFirst
      <4>2. PICK c, fits : /\ c = calls[Answered + 1] /\ ClientSees(c, fits)
                           /\ Replies[Answered + 1] = ReplyOf(c, fits)
        BY <3>1, <4>1 DEF NextReply, CallsOK
      <4>3. Len(replies) \in Nat /\ Len(ReplyOf(c, fits)) \in Nat
        BY <1>2, <4>2, LenProperties DEF TypeOK, ClientSees
      <4> QED BY <1>1, <4>2, <4>3 DEF ClientSees
    <3> QED BY <3>2, <3>3
  <2>2. RepliesOK'
    BY <1>1, <1>2, <1>4, <1>6, <1>8, <2>1 DEF RepliesOK, SameCalls
  <2> QED BY <1>1, <1>3, <1>4, <1>5, <1>6, <1>8, <2>2 DEF IInv
<1> QED BY <1>7, <1>8

\* The server's reply to the next call comes after the others.
LEMMA ReplyAdded ==
  ASSUME TypeOK, ExecutedOK, PendingOK, RepliesOK, ~closing, Done + 1 \in 1..Count,
         NEW m, \A i \in 1..Done : m[i] = Replies[i], m[Done + 1] \in Seq(Int)
  PROVE  /\ toClient \o m[Done + 1] \in Seq(Int)
         /\ replies \o (toClient \o m[Done + 1]) = Stream(m, Answered, Done + 1)
<1>1. CallsOK
  BY CallsTyped DEF TypeOK
<1>2. PICK reply \in Seq(Int) : reply = m[Done + 1]
  OBVIOUS
<1>3. PICK n \in Nat, d \in Nat : n = Answered /\ d = Done /\ n <= d
  BY Numbers DEF PendingOK
<1>4. replies \in Seq(Int) /\ toClient \in Seq(Int)
  BY DEF TypeOK
<1>5. replies \o toClient = Stream(Replies, n, d)
  <2>1. Handled = d
    BY <1>3, Numbers
  <2> QED BY <1>3, <2>1 DEF RepliesOK
<1>6. Messages(Replies, n, d)
  <2>1. d \in 0..Count
    BY <1>3, Numbers
  <2> QED BY <1>1, <1>3, <2>1 DEF CallsOK
<1>7. Stream(m, n, d + 1) = Stream(Replies, n, d) \o m[d + 1]
  <2>1. \A i \in (n + 1)..d : m[i] = Replies[i]
    <3>1. \A i \in (n + 1)..d : i \in 1..d
      OBVIOUS
    <3> QED BY <1>3, <3>1
  <2>2. m[d + 1] \in Seq(Int) /\ n <= d
    BY <1>3
  <2>3. PICK all : all = Replies
    OBVIOUS
  <2>4. Stream(m, n, d + 1) = Stream(all, n, d) \o m[d + 1]
    <3>1. Messages(all, n, d) /\ \A i \in (n + 1)..d : m[i] = all[i]
      BY <1>6, <2>1, <2>3
    <3> QED BY ONLY <2>2, <3>1, n \in Nat, d \in Nat, StreamMore
  <2> QED BY <2>3, <2>4
<1>8. (replies \o toClient) \o reply = replies \o (toClient \o reply)
  <2>1. Regroups(replies, toClient, reply)
    BY ONLY <1>4, reply \in Seq(Int), Regrouped
  <2> QED BY <2>1 DEF Regroups
<1>9. toClient \o reply \in Seq(Int)
  BY <1>4, ConcatProperties
<1> QED BY <1>2, <1>3, <1>5, <1>7, <1>8, <1>9

LEMMA RequestRefusedPreserves ==
  ASSUME IInv, RequestRefused
  PROVE  IInv'
<1>1. /\ handling /\ ~Waits /\ ~Known /\ closing' = TRUE /\ handling' = FALSE
      /\ toClient' = toClient \o <<ReplyType, PROG_MISMATCH>>
      /\ flush' = flush /\ buf' = buf /\ calls' = calls /\ pending' = pending
      /\ replies' = replies /\ executed' = executed /\ inbuf' = inbuf /\ toServer' = toServer
      /\ serverEnd' = serverEnd
  BY DEF RequestRefused
<1>2. TypeOK /\ ExecutedOK /\ RequestsOK /\ ~closing
  BY <1>1 DEF IInv, ExecutedOK
<1>3. flush # "failed" /\ PendingOK /\ RepliesOK
  BY <1>2 DEF IInv, FailedOK
<1>4. inbuf # <<>>
  BY <1>1, EmptySeq DEF Waits, HeaderSize
<1>5. NextRequest /\ SameCalls
  BY <1>1, <1>2, <1>4, ServerFirst, CallsUnchanged
<1>6. PICK c : c = calls[Done + 1]
  OBVIOUS
<1>7. ~Exported(c)
  BY <1>1, <1>5, <1>6 DEF NextRequest, ServerSees
<1>8. Done + 1 \in 1..Count /\ Done \in Nat /\ Done + 1 \notin Goods
  BY <1>5, <1>6, <1>7 DEF NextRequest, Goods, Good
<1>9. toClient' = toClient \o Replies[Done + 1] /\ Replies[Done + 1] \in Seq(Int)
  <2>1. Replies[Done + 1] = ReplyOf(c, Done + 1 # Short)
    BY <1>6, <1>8 DEF Replies
  <2>2. Replies[Done + 1] \in Seq(Int)
    BY <1>2, <1>8, CallsTyped DEF TypeOK, CallsOK
  <2> QED BY <1>1, <1>7, <2>1, <2>2 DEF ReplyOf
<1>10. TypeOK' /\ replies' \o toClient' = Stream(Replies, Answered, Done + 1)
  <2>1. /\ toClient' \in Seq(Int)
        /\ replies \o toClient' = Stream(Replies, Answered, Done + 1)
    <3>1. PICK m : m = Replies
      OBVIOUS
    <3>2. /\ toClient \o m[Done + 1] \in Seq(Int)
          /\ replies \o (toClient \o m[Done + 1]) = Stream(m, Answered, Done + 1)
      <4>1. (\A i \in 1..Done : m[i] = Replies[i]) /\ m[Done + 1] \in Seq(Int)
        BY <1>9, <3>1
      <4> QED BY <1>2, <1>3, <1>8, <4>1, ReplyAdded
    <3> QED BY <1>9, <3>1, <3>2
  <2> QED BY <1>1, <1>2, <2>1 DEF TypeOK
<1>11. Done' = Done /\ Answered' = Answered
  BY <1>1 DEF Done, Answered
<1>12. 1..Done \subseteq Goods
  BY <1>2 DEF ExecutedOK
<1>13. Handled' = Done + 1 /\ Handled = Done
  <2>1. Done = 0 \/ Done \in Goods
    BY <1>8, <1>12
  <2>2. Goods' = Goods
    BY <1>5 DEF SameCalls
  <2> QED BY <1>1, <1>2, <1>11, <2>1, <2>2, Numbers DEF Handled
<1>14. ExecutedOK'
  <2>1. 1..((Done + 1) - 1) \subseteq Goods
    BY <1>8, <1>12
  <2>2. Done + 1 <= Count
    BY <1>8
  <2>3. Short' # 0 => Refusable(calls'[Short'])
    BY <1>2, <1>5, ShortRefusable
  <2>4. serverEnd' # "open" => closing'
    BY <1>1
  <2> QED BY <1>1, <1>2, <1>5, <1>8, <1>11, <1>13, <2>1, <2>2, <2>3, <2>4 DEF ExecutedOK, SameCalls
<1>15. RequestsOK'
  BY <1>1 DEF RequestsOK
<1>16. PendingOK'
  <2>1. Answered <= Done + 1
    BY <1>2, <1>3, <1>8, <1>13, Numbers DEF PendingOK
  <2> QED BY <1>1, <1>3, <1>5, <1>11, <1>13, <2>1 DEF PendingOK, SameCalls
<1>17. RepliesOK'
  <2>1. flush # "idle"
    BY <1>3, <1>4 DEF RepliesOK
  <2> QED BY <1>1, <1>3, <1>5, <1>10, <1>11, <1>13, <2>1 DEF RepliesOK, SameCalls
<1> QED BY <1>1, <1>3, <1>10, <1>14, <1>15, <1>16, <1>17 DEF IInv

\* What the service has executed after the next call, whose result has room or not
NextExecuted(fits) ==
  /\ executed' \in Seq(Executions) /\ Done' = Done + 1 /\ Count' = Count /\ Requests' = Requests
  /\ Short' = IF fits THEN 0 ELSE Done + 1
  /\ \A i \in 1..(Done + 1) : executed'[i] = Runs'[i]
  /\ \A i \in 1..Done : Replies'[i] = Replies[i] /\ Runs'[i] = Runs[i] /\ i \in Goods'
  /\ Replies'[Done + 1] = ReplyOf(calls[Done + 1], fits)
  /\ Done + 1 \in Goods' <=> Good(calls[Done + 1], fits)

LEMMA ExecutedMore ==
  ASSUME TypeOK, ExecutedOK, ~closing, calls' = calls, Done + 1 \in 1..Count,
         NEW fits \in BOOLEAN, executed' = Append(executed, Execution(calls[Done + 1], fits))
  PROVE  NextExecuted(fits)
<1>1. CallsOK
  BY CallsTyped DEF TypeOK
<1>2. PICK n \in Nat : n = Done /\ n = Len(executed) /\ n + 1 \in 1..Count
  <2>1. Done \in Nat
    BY Numbers
  <2> QED BY <2>1 DEF Done
<1>3. PICK c, x : c = calls[n + 1] /\ x = Execution(c, fits)
  OBVIOUS
<1>4. x \in Executions
  BY <1>1, <1>2, <1>3, OneOutcome DEF CallsOK
<1>5. executed \in Seq(Executions)
  BY DEF TypeOK
<1>6. /\ executed' \in Seq(Executions) /\ Len(executed') = n + 1 /\ executed'[n + 1] = x
      /\ \A i \in 1..n : executed'[i] = executed[i]
  BY <1>2, <1>3, <1>4, <1>5, AppendProperties
<1>7. (\A i \in 1..n : executed[i] = Runs[i]) /\ 1..n \subseteq Goods
  BY <1>2 DEF ExecutedOK
<1>8. Short = 0
  <2>1. ASSUME n # 0 PROVE n # Short
    <3>1. n \in Goods
      BY <1>7, <2>1
    <3> QED BY <3>1 DEF Goods, Good
  <2> QED BY <1>2, <2>1 DEF Short
<1>9. Done' = n + 1 /\ Count' = Count /\ Requests' = Requests
  <2>1. Count' = Count
    BY DEF Count
  <2>2. Requests' = Requests
    BY <2>1 DEF Requests
  <2> QED BY <1>6, <2>1, <2>2 DEF Done
<1>10. Short' = IF fits THEN 0 ELSE n + 1
  <2>1. x.fits = fits
    BY <1>3 DEF Execution
  <2>2. Short' = IF n + 1 # 0 /\ ~executed'[n + 1].fits THEN n + 1 ELSE 0
    BY <1>9 DEF Short
  <2> QED BY <1>6, <2>1, <2>2
<1>11. Count \in Nat /\ \A i \in 1..(n + 1) : i \in 1..Count
  BY <1>1, <1>2 DEF CallsOK
<1>12. ASSUME NEW i \in 1..n
       PROVE  Replies'[i] = Replies[i] /\ Runs'[i] = Runs[i] /\ i \in Goods'
  <2>1. i # Short /\ i # Short' /\ i \in 1..Count /\ i \in 1..Count'
    BY <1>8, <1>9, <1>10, <1>11
  <2>2. Replies'[i] = Replies[i]
    BY <2>1 DEF Replies
  <2>3. Runs'[i] = Runs[i]
    BY <2>1 DEF Runs
  <2>4. i \in Goods'
    BY <1>7, <2>1 DEF Goods
  <2> QED BY <2>2, <2>3, <2>4
<1>13. n + 1 # Short' <=> fits
  BY <1>10
<1>14. PICK other \in BOOLEAN : other = (n + 1 # Short') /\ other = fits
  BY <1>13
<1>15. /\ Replies'[n + 1] = ReplyOf(c, fits) /\ Runs'[n + 1] = x
       /\ n + 1 \in Goods' <=> Good(c, fits)
  <2>1. n + 1 \in 1..Count'
    BY <1>2, <1>9
  <2>2. Replies'[n + 1] = ReplyOf(c, n + 1 # Short')
    BY <1>3, <2>1 DEF Replies
  <2>3. Runs'[n + 1] = Execution(c, n + 1 # Short')
    BY <1>3, <2>1 DEF Runs
  <2>4. n + 1 \in Goods' <=> Good(c, n + 1 # Short')
    BY <1>3, <2>1 DEF Goods
  <2> QED BY <1>3, <1>14, <2>2, <2>3, <2>4
<1>16. ASSUME NEW i \in 1..(n + 1) PROVE executed'[i] = Runs'[i]
  <2>1. i = n + 1 \/ i \in 1..n
    OBVIOUS
  <2> QED BY <1>6, <1>7, <1>12, <1>15, <2>1
<1> QED BY <1>2, <1>3, <1>6, <1>9, <1>10, <1>12, <1>15, <1>16 DEF NextExecuted

LEMMA ExecutePreserves ==
  ASSUME IInv, Execute
  PROVE  IInv'
<1> DEFINE result == Answer(Asked, Arguments.args)
           bytes == Encode(Procedures[Asked].result, result)
<1>1. PICK room \in Rooms :
      /\ handling /\ ~Waits /\ Known
      /\ executed' = Append(executed, [func |-> Asked, args |-> Arguments.args, result |-> result,
                                       fits |-> ResultFits(bytes, room)])
      /\ IF ResultFits(bytes, room)
         THEN /\ toClient' = toClient \o <<ReplyType, SUCCESS>> \o bytes
              /\ inbuf' = SubSeq(inbuf, HeaderSize + Arguments.used + 1, Len(inbuf))
              /\ handling' = handling /\ closing' = closing
         ELSE /\ toClient' = toClient \o <<ReplyType, GARBAGE_ARGS>>
              /\ closing' = TRUE /\ handling' = FALSE /\ inbuf' = inbuf
      /\ flush' = flush /\ buf' = buf /\ calls' = calls /\ pending' = pending
      /\ replies' = replies /\ toServer' = toServer /\ serverEnd' = serverEnd
  BY DEF Execute
<1> HIDE DEF result, bytes
<1>a. PICK fits \in BOOLEAN : fits = ResultFits(bytes, room)
  <2>1. ResultFits(bytes, room) \in BOOLEAN
    BY DEF ResultFits
  <2> QED BY <2>1
<1>2. TypeOK /\ ExecutedOK /\ RequestsOK /\ ~closing
  BY <1>1 DEF IInv, ExecutedOK
<1>3. flush # "failed" /\ PendingOK /\ RepliesOK
  BY <1>2 DEF IInv, FailedOK
<1>4. inbuf # <<>>
  BY <1>1, EmptySeq DEF Waits, HeaderSize
<1>5. NextRequest
  BY <1>2, <1>4, ServerFirst
<1>6. PICK c : c = calls[Done + 1]
  OBVIOUS
<1>7. /\ Exported(c) /\ Asked = c.func /\ Arguments.args = c.args
      /\ Len(RequestOf(c)) <= Len(inbuf) /\ HeaderSize + Arguments.used = Len(RequestOf(c))
  <2>1. ServerSees(c)
    BY <1>5, <1>6 DEF NextRequest
  <2>2. Len(inbuf) \in Nat /\ Len(RequestOf(c)) \in Nat
    BY <1>2, <2>1, LenProperties DEF TypeOK, ServerSees
  <2> QED BY <1>1, <2>1, <2>2 DEF ServerSees
<1>8. Done + 1 \in 1..Count /\ Done \in Nat
  BY <1>5 DEF NextRequest
<1>9. bytes = ResultBytes(c) /\ executed' = Append(executed, Execution(c, fits))
  BY <1>1, <1>a, <1>7 DEF bytes, result, ResultBytes, Execution
<1>10. NextExecuted(fits)
  BY <1>1, <1>2, <1>6, <1>8, <1>9, ExecutedMore
<1>11. Answered' = Answered
  BY <1>1 DEF Answered
<1>12. /\ executed' \in Seq(Executions) /\ Done' = Done + 1 /\ Count' = Count
       /\ Requests' = Requests /\ Short' = IF fits THEN 0 ELSE Done + 1
       /\ \A i \in 1..(Done + 1) : executed'[i] = Runs'[i]
       /\ \A i \in 1..Done : Replies'[i] = Replies[i] /\ Runs'[i] = Runs[i] /\ i \in Goods'
       /\ Replies'[Done + 1] = ReplyOf(c, fits)
  BY <1>6, <1>10 DEF NextExecuted
<1>13. Done + 1 \in Goods' <=> fits
  BY <1>6, <1>7, <1>10 DEF NextExecuted, Good
<1>14. WellTyped(c) /\ ResultBytes(c) \in Seq(Int)
  <2>1. WellTyped(c)
    BY <1>2, <1>6, <1>8, CallsTyped DEF TypeOK, CallsOK
  <2> QED BY <2>1, Replied
<1>15. toClient' = toClient \o Replies'[Done + 1] /\ Replies'[Done + 1] \in Seq(Int)
  <2>1. CASE fits
    <3>1. ReplyOf(c, fits) = <<ReplyType, SUCCESS>> \o bytes
      BY <1>7, <1>9, <2>1 DEF ReplyOf
    <3>2. PICK head : head = <<ReplyType, SUCCESS>>
      OBVIOUS
    <3>3. head \in Seq(Int)
      BY <3>2 DEF ReplyType, SUCCESS
    <3>4. toClient \in Seq(Int) /\ bytes \in Seq(Int)
      BY <1>2, <1>9, <1>14 DEF TypeOK
    <3>5. (toClient \o head) \o bytes = toClient \o (head \o bytes) /\ head \o bytes \in Seq(Int)
      <4>1. Regroups(toClient, head, bytes)
        BY ONLY <3>3, <3>4, Regrouped
      <4> QED BY <3>3, <3>4, <4>1, ConcatProperties DEF Regroups
    <3> QED BY <1>1, <1>a, <1>12, <2>1, <3>1, <3>2, <3>5
  <2>2. CASE ~fits
    <3>1. ReplyOf(c, fits) = <<ReplyType, GARBAGE_ARGS>>
      BY <1>7, <2>2 DEF ReplyOf
    <3>2. <<ReplyType, GARBAGE_ARGS>> \in Seq(Int)
      BY DEF ReplyType, GARBAGE_ARGS
    <3> QED BY <1>1, <1>a, <1>12, <2>2, <3>1, <3>2
  <2> QED BY <2>1, <2>2
<1>16. toClient' \in Seq(Int) /\ replies \o toClient' = Stream(Replies', Answered, Done + 1)
  <2>1. PICK m : m = Replies'
    OBVIOUS
  <2>2. /\ toClient \o m[Done + 1] \in Seq(Int)
        /\ replies \o (toClient \o m[Done + 1]) = Stream(m, Answered, Done + 1)
    <3>1. (\A i \in 1..Done : m[i] = Replies[i]) /\ m[Done + 1] \in Seq(Int)
      BY <1>12, <1>15, <2>1
    <3> QED BY <1>2, <1>3, <1>8, <3>1, ReplyAdded
  <2> QED BY <1>15, <2>1, <2>2
<1>17. Handled = Done /\ Handled' = Done + 1
  <2>1. Handled = Done
    BY <1>2, Numbers
  <2>2. ~closing' \/ (Done + 1 # 0 /\ Done + 1 \notin Goods')
    <3>1. CASE fits
      BY <1>1, <1>a, <1>2, <3>1
    <3>2. CASE ~fits
      BY <1>8, <1>13, <3>2
    <3> QED BY <3>1, <3>2
  <2> QED BY <1>12, <2>1, <2>2 DEF Handled
<1>18. Short' # 0 => Refusable(calls'[Short'])
  <2>1. SUFFICES ASSUME Short' # 0 PROVE Refusable(calls'[Short'])
    OBVIOUS
  <2>2. ~fits /\ Short' = Done + 1 /\ calls' = calls
    BY <1>1, <1>12, <2>1
  <2>3. ~(Len(ResultBytes(c)) <= room)
    BY <1>a, <1>9, <2>2 DEF ResultFits
  <2>4. Refusable(c)
    BY <2>3 DEF Refusable, ResultBytes
  <2> QED BY <1>6, <2>2, <2>4
<1>19. ExecutedOK'
  <2>1. 1..((Done + 1) - 1) \subseteq Goods'
    BY <1>8, <1>12
  <2>2. Done + 1 <= Count
    BY <1>8
  <2>3. closing' => ~handling' /\ Done + 1 \notin Goods'
    BY <1>1, <1>a, <1>2, <1>13
  <2>4. ~closing' => 1..(Done + 1) \subseteq Goods'
    <3>1. ASSUME ~closing' PROVE Done + 1 \in Goods'
      BY <1>1, <1>a, <1>13, <3>1
    <3>2. \A i \in 1..(Done + 1) : i = Done + 1 \/ i \in 1..Done
      BY <1>8
    <3> QED BY <1>12, <3>1, <3>2
  <2>5. serverEnd' = "open"
    BY <1>1, <1>2 DEF ExecutedOK
  <2> QED BY <1>8, <1>12, <1>17, <1>18, <2>1, <2>2, <2>3, <2>4, <2>5 DEF ExecutedOK
<1>20. PendingOK'
  <2>1. Answered <= Done /\ Answered <= Done + 1 /\ Answered \in Int /\ Count \in Nat
    BY <1>2, <1>3, <1>8, <1>17, Numbers DEF PendingOK
  <2>2. \A i \in 1..Len(pending) : pending'[i] = Answered + i
    BY <1>1, <1>3 DEF PendingOK
  <2>3. \A i \in 1..Answered : i \in 1..Done
    BY <1>8, <2>1
  <2>4. 1..Answered \subseteq Goods'
    BY <1>12, <2>3
  <2>5. ASSUME NEW i \in 1..Count
        PROVE  IF i <= Answered THEN calls'[i].is = "value" /\ calls'[i].value = Runs'[i].result
               ELSE calls'[i].is = "pending"
    <3>1. IF i <= Answered THEN calls[i].is = "value" /\ calls[i].value = Runs[i].result
          ELSE calls[i].is = "pending"
      BY <1>3 DEF PendingOK
    <3>2. i <= Answered => Runs'[i] = Runs[i]
      <4>1. i <= Answered => i \in 1..Answered
        BY <2>1
      <4> QED BY <1>12, <2>3, <4>1
    <3> QED BY <1>1, <3>1, <3>2
  <2>6. Len(pending') <= Count
    BY <1>1, <1>3 DEF PendingOK
  <2>7. Len(pending') = Len(pending)
    BY <1>1
  <2> QED BY <1>11, <1>12, <1>17, <2>1, <2>2, <2>4, <2>5, <2>6, <2>7 DEF PendingOK
<1>21. RepliesOK'
  <2>1. flush # "idle"
    BY <1>3, <1>4 DEF RepliesOK
  <2>2. ASSUME flush = "reading"
        PROVE  pending # <<>> /\ Len(replies) < Len(Replies'[Answered + 1])
    <3>1. pending # <<>> /\ Len(replies) < Len(Replies[Answered + 1])
      BY <1>3, <2>2 DEF RepliesOK
    <3>2. Answered \in Nat /\ Answered <= Done
      BY <1>2, <1>3, <1>8, <1>17, Numbers DEF PendingOK
    <3>3. CASE Answered + 1 \in 1..Done
      BY <1>12, <3>1, <3>3
    <3>4. CASE ~(Answered + 1 \in 1..Done)
      <4>1. Answered = Done
        BY <1>8, <3>2, <3>4
      <4>2. replies \o toClient = <<>>
        <5>1. replies \o toClient = Stream(Replies, Done, Done)
          BY <1>3, <1>17, <4>1 DEF RepliesOK
        <5> QED BY <1>8, <5>1, StreamEmpty
      <4>3. replies = <<>>
        BY <1>2, <4>2, BothEmpty DEF TypeOK
      <4>4. Len(Replies'[Done + 1]) \in Nat /\ Len(Replies'[Done + 1]) >= 2
        <5>1. PICK body, status : /\ body \in Seq(Int)
                                  /\ Headed(ReplyOf(c, fits), ReplyType, status, body)
          BY <1>14, Replied, EmptySeq
        <5>2. Len(body) \in Nat
          BY <5>1, LenProperties
        <5> QED BY <1>12, <5>1, <5>2 DEF Headed
      <4> QED BY <3>1, <4>1, <4>3, <4>4, EmptySeq
    <3> QED BY <3>3, <3>4
  <2> QED BY <1>1, <1>3, <1>16, <1>11, <1>17, <2>1, <2>2 DEF RepliesOK
<1>22. TypeOK' /\ RequestsOK'
  <2>1. PICK k \in Nat : k = Len(RequestOf(c)) /\ k <= Len(inbuf)
    <3>1. RequestOf(c) \in Seq(Int)
      BY <1>5, <1>6 DEF NextRequest, ServerSees
    <3> QED BY <1>7, <3>1, LenProperties
  <2>2. inbuf \in Seq(Int) /\ toServer \in Seq(Int) /\ buf \in Seq(Int)
    BY <1>2 DEF TypeOK
  <2>3. CASE fits
    <3>1. inbuf' = SubSeq(inbuf, k + 1, Len(inbuf)) /\ handling' /\ ~closing'
      BY <1>1, <1>a, <1>2, <1>7, <2>1, <2>3
    <3>2. inbuf' \in Seq(Int)
      BY <2>1, <2>2, <3>1, RestPart
    <3>3. inbuf' \o (toServer \o buf) = Stream(Requests, Done + 1, Count)
      <4>1. Requests[Done + 1] = RequestOf(c)
        BY <1>6, <1>8 DEF Requests
      <4> QED BY <1>5, <2>1, <3>1, <4>1 DEF NextRequest, FirstIn
    <3>4. (inbuf' \o toServer) \o buf = inbuf' \o (toServer \o buf)
      <4>1. Regroups(inbuf', toServer, buf)
        BY ONLY <2>2, <3>2, Regrouped
      <4> QED BY <4>1 DEF Regroups
    <3>5. RequestsOK'
      BY <1>1, <1>12, <3>1, <3>3, <3>4 DEF RequestsOK
    <3>6. TypeOK'
      BY <1>1, <1>a, <1>2, <1>12, <1>16, <2>3, <3>2 DEF TypeOK
    <3> QED BY <3>5, <3>6
  <2>4. CASE ~fits
    <3>1. RequestsOK'
      BY <1>1, <1>a, <2>4 DEF RequestsOK
    <3>2. TypeOK'
      BY <1>1, <1>a, <1>2, <1>12, <1>16, <2>4 DEF TypeOK
    <3> QED BY <3>1, <3>2
  <2> QED BY <2>3, <2>4
<1> QED BY <1>1, <1>3, <1>19, <1>20, <1>21, <1>22 DEF IInv

\* The first call that waits gets its value.
Gets(h, v) == calls' = [calls EXCEPT ![h].is = "value", ![h].value = v]

LEMMA CallGets ==
  ASSUME TypeOK, NEW h \in 1..Count, NEW v, v = Answer(calls[h].func, calls[h].args), Gets(h, v),
         executed' = executed
  PROVE  /\ calls' \in Seq(Outcomes) /\ SameCalls
         /\ calls'[h].is = "value" /\ calls'[h].value = v
         /\ \A i \in 1..Count : i # h => calls'[i] = calls[i]
<1>1. PICK n \in Nat : n = Count /\ n = Len(calls) /\ DOMAIN calls = 1..n
  BY LenProperties DEF TypeOK, Count
<1>2. PICK c : c = calls[h]
  OBVIOUS
<1>3. \A i \in 1..n : calls[i] \in Outcomes
  BY <1>1, ElementOfSeq DEF TypeOK
<1>4. PICK d : d = Valued(c, v)
  OBVIOUS
<1>5. d \in Outcomes /\ d.func = c.func /\ d.args = c.args /\ d.is = "value" /\ d.value = v
  <2>1. c \in Outcomes /\ v = Answer(c.func, c.args)
    BY <1>1, <1>2, <1>3
  <2> QED BY <1>4, <2>1, OneOutcome DEF SameCall
<1>6. calls' = [calls EXCEPT ![h] = d]
  <2>1. PICK mid : mid = [calls EXCEPT ![h].is = "value"]
    OBVIOUS
  <2>2. calls' = [mid EXCEPT ![h].value = v]
    BY <2>1 DEF Gets
  <2>3. calls = [i \in 1..n |-> calls[i]]
    BY <1>1 DEF TypeOK
  <2>4. mid = [i \in 1..n |-> IF i = h THEN [c EXCEPT !.is = "value"] ELSE calls[i]]
    BY <1>1, <1>2, <2>1, <2>3
  <2>5. calls' = [i \in 1..n |-> IF i = h THEN d ELSE calls[i]]
    BY <1>1, <1>4, <2>2, <2>4 DEF Valued
  <2> QED BY <1>1, <2>3, <2>5
<1>7. calls' \in Seq(Outcomes) /\ Len(calls') = n
      /\ \A i \in 1..n : calls'[i] = IF i = h THEN d ELSE calls[i]
  BY <1>1, <1>5, <1>6, ExceptSeq DEF TypeOK
<1>8. SameCalls
  BY <1>1, <1>2, <1>5, <1>7, CallsKept
<1> QED BY <1>1, <1>5, <1>7, <1>8

LEMMA HandleResponsePreserves ==
  ASSUME IInv, HandleResponse
  PROVE  IInv'
<1>1. /\ flush = "parsing" /\ Parses /\ Gets(Head(pending), Decoded(Expected, Payload))
      /\ pending' = Tail(pending)
      /\ replies' = SubSeq(replies, HeaderSize + Taken(Expected) + 1, Len(replies))
      /\ flush' = flush /\ buf' = buf /\ toServer' = toServer /\ toClient' = toClient
      /\ inbuf' = inbuf /\ handling' = handling /\ closing' = closing /\ executed' = executed
      /\ serverEnd' = serverEnd
  BY DEF HandleResponse, server, Gets
<1>2. TypeOK /\ ExecutedOK /\ RequestsOK /\ PendingOK /\ RepliesOK
  BY <1>1 DEF IInv
<1>3. replies # <<>>
  BY <1>1, EmptySeq DEF Parses, HeaderSize
<1>4. pending # <<>> /\ NextReply /\ CallsOK
  BY <1>2, <1>3, ClientFirst, CallsTyped DEF TypeOK
<1>5. PICK n \in Nat : n = Answered /\ n + 1 \in 1..Count /\ n + 1 <= Handled
  BY <1>4 DEF NextReply
<1>6. PICK c, fits : c = calls[n + 1] /\ fits = (n + 1 # Short)
  OBVIOUS
<1>7. ClientSees(c, fits) /\ Head(pending) = n + 1
  BY <1>4, <1>5, <1>6 DEF NextReply
<1>8. /\ Good(c, fits) /\ Len(ReplyOf(c, fits)) <= Len(replies) /\ ReplyOf(c, fits) \in Seq(Int)
      /\ Decoded(Expected, Payload) = Answer(c.func, c.args)
      /\ HeaderSize + Taken(Expected) = Len(ReplyOf(c, fits))
  BY <1>1, <1>7 DEF ClientSees
<1>9. PICK v : v = Decoded(Expected, Payload)
  OBVIOUS
<1>10. /\ calls' \in Seq(Outcomes) /\ SameCalls
       /\ calls'[n + 1].is = "value" /\ calls'[n + 1].value = v
       /\ \A i \in 1..Count : i # n + 1 => calls'[i] = calls[i]
  <2>1. Gets(n + 1, v) /\ v = Answer(calls[n + 1].func, calls[n + 1].args)
    BY <1>1, <1>6, <1>7, <1>8, <1>9
  <2> QED BY <1>1, <1>2, <1>5, <2>1, CallGets
<1>11. PICK k \in Nat : k = Len(pending) /\ k # 0 /\ n = Count - k
  <2>1. pending \in Seq(Nat)
    BY <1>2 DEF TypeOK
  <2> QED BY <1>2, <1>4, <1>5, <2>1, NotEmpty, Numbers
<1>12. /\ pending' \in Seq(Nat) /\ Len(pending') = k - 1
       /\ \A i \in 1..(k - 1) : pending'[i] = pending[i + 1]
  BY <1>1, <1>2, <1>4, <1>11, HeadTailProperties DEF TypeOK
<1>13. Answered' = n + 1
  <2>1. Len(calls') = Count
    BY <1>10 DEF SameCalls, Count
  <2>2. Count \in Nat
    BY <1>2, Numbers
  <2> QED BY <1>11, <1>12, <2>1, <2>2 DEF Answered
<1>14. PICK l \in Nat : l = Len(ReplyOf(c, fits)) /\ l <= Len(replies)
  BY <1>8, LenProperties
<1>15. replies' = SubSeq(replies, l + 1, Len(replies)) /\ replies' \in Seq(Int)
  <2>1. replies' = SubSeq(replies, l + 1, Len(replies)) /\ replies \in Seq(Int)
    BY <1>1, <1>2, <1>8, <1>14 DEF TypeOK
  <2> QED BY <1>14, <2>1, RestPart
<1>16. replies' \o toClient = Stream(Replies, n + 1, Handled)
  <2>1. Replies[n + 1] = ReplyOf(c, fits)
    BY <1>4, <1>5, <1>6 DEF CallsOK
  <2> QED BY <1>4, <1>5, <1>14, <1>15, <2>1 DEF NextReply, FirstIn
<1>17. Done' = Done /\ Handled' = Handled
  <2>1. Done' = Done
    BY <1>1 DEF Done
  <2> QED BY <1>1, <1>10, <2>1 DEF Handled, SameCalls
<1>18. TypeOK'
  BY <1>1, <1>2, <1>10, <1>12, <1>15 DEF TypeOK
<1>19. ExecutedOK'
  <2>1. (Short # 0 => Refusable(calls[Short]))'
    <3>1. Short' # 0 => Refusable(calls'[Short'])
      BY <1>2, <1>10, ShortRefusable
    <3> QED BY <3>1
  <2> QED BY <1>1, <1>2, <1>10, <1>17, <2>1 DEF ExecutedOK, SameCalls
<1>20. RequestsOK'
  BY <1>1, <1>2, <1>10, <1>17 DEF RequestsOK, SameCalls
<1>21. PendingOK'
  <2>1. Len(pending') <= Count /\ Count \in Nat
    BY <1>2, <1>11, <1>12, Numbers DEF PendingOK
  <2>2. ASSUME NEW i \in 1..Len(pending') PROVE pending'[i] = n + 1 + i
    <3>1. i \in 1..(k - 1) /\ i + 1 \in 1..k
      BY <1>11, <1>12, <2>2
    <3>2. pending[i + 1] = n + (i + 1)
      BY <1>2, <1>5, <1>11, <3>1 DEF PendingOK
    <3> QED BY <1>12, <3>1, <3>2
  <2>3. 1..(n + 1) \subseteq Goods
    <3>1. n + 1 \in Goods
      BY <1>4, <1>5, <1>6, <1>8 DEF CallsOK
    <3>2. \A i \in 1..(n + 1) : i = n + 1 \/ i \in 1..n
      OBVIOUS
    <3> QED BY <1>2, <1>5, <3>1, <3>2 DEF PendingOK
  <2>4. ASSUME NEW i \in 1..Count
        PROVE  IF i <= n + 1 THEN calls'[i].is = "value" /\ calls'[i].value = Runs[i].result
               ELSE calls'[i].is = "pending"
    <3>1. CASE i = n + 1
      <4>1. Runs[i].result = v
        <5>1. Runs[i] = Execution(c, fits)
          BY <1>4, <1>5, <1>6, <3>1 DEF CallsOK
        <5>2. Execution(c, fits).result = Answer(c.func, c.args)
          BY DEF Execution
        <5> QED BY <1>8, <1>9, <5>1, <5>2
      <4> QED BY <1>10, <3>1, <4>1
    <3>2. CASE i # n + 1
      <4>1. calls'[i] = calls[i] /\ (i <= n + 1 <=> i <= n)
        BY <1>10, <3>2
      <4> QED BY <1>2, <1>5, <3>2, <4>1 DEF PendingOK
    <3> QED BY <3>1, <3>2
  <2> QED BY <1>5, <1>10, <1>13, <1>17, <2>1, <2>2, <2>3, <2>4 DEF PendingOK, SameCalls
<1>22. RepliesOK'
  BY <1>1, <1>2, <1>10, <1>13, <1>16, <1>17 DEF RepliesOK, SameCalls
<1> QED BY <1>1, <1>18, <1>19, <1>20, <1>21, <1>22 DEF IInv

\* While Flush reads and no reply is on its way, every call that was handled was answered,
\* and none was refused.
LEMMA NothingComes ==
  ASSUME TypeOK, ExecutedOK, PendingOK, RepliesOK, flush = "reading", toClient = <<>>
  PROVE  Answered = Handled /\ ~closing
<1>1. CallsOK
  BY CallsTyped DEF TypeOK
<1>2. replies \in Seq(Int) /\ <<>> \in Seq(Int)
  BY EmptySeq DEF TypeOK
<1>3. Len(replies) < Len(Replies[Answered + 1])
  BY DEF RepliesOK
<1>4. PICK n \in Nat, h \in Nat, l \in Nat :
        n = Answered /\ h = Handled /\ l = Count /\ n <= h /\ h <= l
  BY Numbers DEF PendingOK
<1>5. n = h
  <2>1. SUFFICES ASSUME n < h PROVE FALSE
    BY <1>4
  <2>2. PICK x, r : x = Replies[n + 1] /\ r = Stream(Replies, n + 1, h)
    OBVIOUS
  <2>3. Messages(Replies, n, h)
    <3>1. h \in 0..Count
      BY <1>4
    <3> QED BY <1>1, <1>4, <3>1 DEF CallsOK
  <2>4. Stream(Replies, n, h) = x \o r /\ x \in Seq(Int) /\ r \in Seq(Int)
    BY <2>1, <2>2, <2>3, StreamFirst
  <2>5. replies \o <<>> = x \o r
    BY <1>1, <1>4, <2>4 DEF RepliesOK
  <2>6. Len(replies) + Len(<<>>) = Len(x) + Len(r)
    BY ONLY <1>2, <2>4, <2>5, FirstMessage
  <2>7. Len(replies) \in Nat /\ Len(x) \in Nat /\ Len(r) \in Nat /\ Len(<<>>) = 0
    BY <1>2, <2>4, LenProperties, EmptySeq
  <2>8. Len(replies) < Len(x)
    BY <1>3, <1>4, <2>2
  <2> QED BY ONLY <2>6, <2>7, <2>8
<1>6. ~closing
  <2>1. closing => h \in 1..l /\ h \notin Goods
    BY <1>1, <1>4 DEF ExecutedOK
  <2>2. 1..n \subseteq Goods
    BY <1>1, <1>4 DEF PendingOK
  <2> QED BY <1>5, <2>1, <2>2
<1> QED BY <1>4, <1>5, <1>6

\* When Flush fails, a call was refused; unless the connection was reset the client had the
\* replies to all the calls before that one.
LEMMA FailPreserves ==
  ASSUME IInv, Fail, flush # "failed", closing, serverEnd # "rst" => Handled = Answered + 1
  PROVE  IInv'
<1>1. /\ calls' = [x \in DOMAIN calls |->
                     IF Contains(pending, x) THEN Failed(calls[x]) ELSE calls[x]]
      /\ flush' = "failed" /\ pending' = <<>> /\ replies' = replies
      /\ buf' = buf /\ toServer' = toServer /\ toClient' = toClient
      /\ inbuf' = inbuf /\ handling' = handling /\ closing' = closing /\ executed' = executed
      /\ serverEnd' = serverEnd
  BY DEF Fail, server, Failed
<1>2. TypeOK /\ ExecutedOK /\ RequestsOK /\ PendingOK /\ RepliesOK /\ CallsOK
  BY CallsTyped DEF IInv, TypeOK
<1>3. /\ Done \in Nat /\ Count \in Nat /\ Handled \in {Done, Done + 1}
      /\ Handled \in 1..Count /\ Handled \notin Goods
  BY <1>2, Numbers
<1>4. PICK n \in Nat : n = Answered /\ n < Handled /\ n <= Done
  <2>1. Answered \in Nat /\ Answered <= Handled
    BY <1>2, Numbers DEF PendingOK
  <2>2. Answered # Handled
    <3>1. 1..Answered \subseteq Goods
      BY <1>2 DEF PendingOK
    <3>2. Handled \in 1..Handled
      BY <1>3
    <3> QED BY <1>3, <3>1, <3>2
  <2> QED BY <1>3, <2>1, <2>2
<1>5. Refusable(calls[Handled])
  <2>1. PICK c : c = calls[Handled]
    OBVIOUS
  <2>2. ~Exported(c) \/ Handled = Short
    BY <1>3, <2>1 DEF Goods, Good
  <2>3. CASE ~Exported(c)
    BY <2>1, <2>3 DEF Refusable, Exported
  <2>4. CASE Handled = Short
    BY <1>2, <1>3, <2>4 DEF ExecutedOK
  <2> QED BY <2>2, <2>3, <2>4
<1>10. PICK k \in Nat : k = Len(pending) /\ n = Count - k /\ DOMAIN calls = 1..Count
  <2>1. Len(pending) \in Nat /\ DOMAIN calls = 1..Count
    BY <1>2, LenProperties DEF TypeOK, Count
  <2> QED BY <1>2, <1>4, <2>1, Numbers
<1>11. ASSUME NEW x \in 1..Count
       PROVE  Contains(pending, x) <=> n < x
  <2>1. \A i \in 1..k : pending[i] = n + i
    BY <1>2, <1>4, <1>10 DEF PendingOK
  <2>2. ASSUME NEW i \in 1..k, pending[i] = x PROVE n < x
    BY <2>1, <2>2
  <2>3. ASSUME n < x PROVE \E i \in 1..k : pending[i] = x
    <3>1. PICK i \in 1..k : x = n + i
      <4>1. x - n \in 1..k /\ x = n + (x - n)
        BY <1>3, <1>10, <2>3
      <4> QED BY <4>1
    <3> QED BY <2>1, <3>1
  <2> QED BY <1>10, <2>2, <2>3 DEF Contains
<1>12. /\ DOMAIN calls' = 1..Count
       /\ \A i \in 1..Count : calls'[i] = IF n < i THEN Failed(calls[i]) ELSE calls[i]
  BY <1>1, <1>10, <1>11
<1>13. \A i \in 1..Count : /\ calls[i] \in Outcomes /\ Failed(calls[i]) \in Outcomes
                           /\ Failed(calls[i]).is = "error" /\ SameCall(calls[i], Failed(calls[i]))
  BY <1>2, OneOutcome DEF CallsOK
<1>14. calls' \in Seq(Outcomes) /\ Len(calls') = Count
  <2>1. calls' = [i \in 1..Count |-> calls'[i]]
    BY <1>1, <1>10
  <2>2. \A i \in 1..Count : calls'[i] \in Outcomes
    BY <1>12, <1>13
  <2>3. calls' \in [1..Count -> Outcomes]
    BY ONLY <2>1, <2>2
  <2> QED BY ONLY <1>3, <2>3, SeqDef, LenProperties
<1>15. SameCalls
  <2>1. \A i \in 1..Count : calls'[i].func = calls[i].func /\ calls'[i].args = calls[i].args
    BY <1>12, <1>13 DEF SameCall
  <2>2. Len(calls') = Len(calls)
    BY <1>14 DEF Count
  <2> QED BY <1>1, <1>2, <2>1, <2>2, CallsKept
<1>16. Done' = Done /\ Handled' = Handled
  <2>1. Done' = Done
    BY <1>1 DEF Done
  <2> QED BY <1>1, <1>15, <2>1 DEF Handled, SameCalls
<1>17. TypeOK'
  <2>1. <<>> \in Seq(Nat)
    BY EmptySeq
  <2> QED BY <1>1, <1>2, <1>14, <2>1 DEF TypeOK
<1>18. ExecutedOK' /\ RequestsOK'
  <2>1. Short' # 0 => Refusable(calls'[Short'])
    BY <1>2, <1>15, ShortRefusable
  <2> QED BY <1>1, <1>2, <1>15, <1>16, <2>1 DEF ExecutedOK, RequestsOK, SameCalls
<1>19. \A i \in 1..Count : calls'[i].is = IF i <= n THEN "value" ELSE "error"
  <2>1. \A i \in 1..Count : i <= n => calls[i].is = "value"
    BY <1>2, <1>4 DEF PendingOK
  <2>2. \A i \in 1..Count : n < i <=> ~(i <= n)
    BY <1>3
  <2> QED BY <1>12, <1>13, <2>1, <2>2
<1>20. FailsOnlyWhenRefused'
  <2>1. PICK h \in 1..Count : h = Handled
    BY <1>3
  <2>2. Refusable(calls'[h])
    BY <1>5, <1>15, <2>1 DEF SameCalls
  <2>3. n \in 0..(h - 1) /\ (serverEnd' # "rst" => n = h - 1)
    BY <1>1, <1>4, <2>1
  <2>4. \A i \in DOMAIN calls' : calls'[i].is = IF i <= n THEN "value" ELSE "error"
    BY <1>12, <1>19
  <2>5. h \in DOMAIN calls'
    BY <1>12
  <2> QED BY <2>2, <2>3, <2>4, <2>5 DEF FailsOnlyWhenRefused
<1>21. ASSUME NEW i \in 1..Count, calls'[i].is = "value"
       PROVE  i <= Done /\ calls'[i].value = Runs[i].result
  <2>1. i <= n /\ i <= Done
    BY <1>3, <1>4, <1>19, <1>21
  <2>2. calls'[i] = calls[i]
    BY <1>12, <2>1
  <2> QED BY <1>2, <1>4, <2>1, <2>2 DEF PendingOK
<1>22. FailedOK'
  BY <1>1, <1>15, <1>16, <1>20, <1>21 DEF FailedOK, SameCalls
<1> QED BY <1>1, <1>17, <1>18, <1>22 DEF IInv

LEMMA FlushFailsPreserves ==
  ASSUME IInv, FlushFails
  PROVE  IInv'
<1>1. flush = "parsing" /\ (Fails \/ (pending = <<>> /\ replies # <<>>)) /\ Fail
  BY DEF FlushFails
<1>2. TypeOK /\ ExecutedOK /\ RequestsOK /\ PendingOK /\ RepliesOK
  BY <1>1 DEF IInv
<1>3. replies # <<>>
  BY <1>1, EmptySeq DEF Fails, HeaderSize
<1>4. pending # <<>> /\ NextReply /\ CallsOK
  BY <1>2, <1>3, ClientFirst, CallsTyped DEF TypeOK
<1>5. PICK n \in Nat : n = Answered /\ n + 1 \in 1..Count /\ n + 1 <= Handled
  BY <1>4 DEF NextReply
<1>6. PICK c, fits : c = calls[n + 1] /\ fits = (n + 1 # Short)
  OBVIOUS
<1>7. ~Good(c, fits) /\ n + 1 \notin Goods
  <2>1. Fails /\ ClientSees(c, fits)
    BY <1>1, <1>4, <1>5, <1>6 DEF NextReply
  <2>2. ~Good(c, fits)
    BY <2>1 DEF ClientSees
  <2> QED BY <1>4, <1>5, <1>6, <2>2 DEF CallsOK
<1>8. /\ Done \in Nat /\ Count \in Nat /\ Handled \in {Done, Done + 1} /\ Handled <= Count
      /\ ~closing => Handled = Done
  BY <1>2, Numbers
<1>9. closing /\ Handled = n + 1 /\ n <= Done
  <2>1. ~(n + 1 \in 1..(Handled - 1))
    BY <1>2, <1>7 DEF ExecutedOK
  <2>2. Handled = n + 1
    BY <1>5, <1>8, <2>1
  <2>3. closing
    <3>1. ~closing => n + 1 \in 1..Done
      BY <1>8, <2>2
    <3> QED BY <1>2, <1>7, <3>1 DEF ExecutedOK
  <2> QED BY <1>8, <2>2, <2>3
<1> QED BY <1>1, <1>5, <1>9, FailPreserves

LEMMA FlushReadFailsPreserves ==
  ASSUME IInv, FlushReadFails
  PROVE  IInv'
<1>1. flush = "reading" /\ Fail /\ serverEnd # "open"
      /\ (serverEnd # "rst" => toClient = <<>>)
  BY DEF FlushReadFails
<1>2. TypeOK /\ ExecutedOK /\ PendingOK /\ RepliesOK
  BY <1>1 DEF IInv
<1>3. closing
  BY <1>1, <1>2 DEF ExecutedOK
<1>4. serverEnd = "rst"
  BY <1>1, <1>2, <1>3, NothingComes
<1> QED BY <1>1, <1>3, <1>4, FailPreserves

LEMMA CloseConnectionPreserves ==
  ASSUME IInv, CloseConnection
  PROVE  IInv'
<1>1. /\ closing /\ ~handling /\ serverEnd = "open" /\ serverEnd' \in {"fin", "rst"}
      /\ toServer' = <<>> /\ flush' = flush /\ buf' = buf /\ calls' = calls
      /\ pending' = pending /\ toClient' = toClient /\ replies' = replies
      /\ inbuf' = inbuf /\ handling' = handling /\ closing' = closing /\ executed' = executed
  BY DEF CloseConnection
<1>2. TypeOK /\ ExecutedOK
  BY DEF IInv
<1>3. TypeOK'
  <2>1. <<>> \in Seq(Int)
    BY EmptySeq
  <2> QED BY <1>1, <1>2, <2>1 DEF TypeOK
<1>4. ExecutedOK' /\ SameCalls /\ Done' = Done /\ Handled' = Handled
  <2>1. handling' = FALSE
    BY <1>1, <1>2 DEF TypeOK
  <2> QED BY <1>1, <1>2, <2>1, ExecutedKept
<1>5. RequestsOK'
  BY <1>1 DEF RequestsOK
<1>6. CASE flush = "failed"
  <2>1. FailedOK'
    BY <1>1, <1>6, FailedKept DEF IInv
  <2> QED BY <1>1, <1>3, <1>4, <1>5, <1>6, <2>1 DEF IInv
<1>7. CASE flush # "failed"
  <2>1. PendingOK /\ RepliesOK
    BY <1>7 DEF IInv
  <2>2. PendingOK' /\ Answered' = Answered
    BY <1>1, <1>4, <2>1, PendingKept
  <2>3. flush # "idle"
    BY <1>1, <2>1 DEF RepliesOK
  <2>4. RepliesOK'
    BY <1>1, <1>4, <2>1, <2>2, <2>3 DEF RepliesOK, SameCalls
  <2> QED BY <1>1, <1>3, <1>4, <1>5, <1>7, <2>2, <2>4 DEF IInv
<1> QED BY <1>6, <1>7

LEMMA CallPreserves ==
  ASSUME IInv, NEW call \in CallsMade, Call(call)
  PROVE  IInv'
<1>1. PICK c : c = [func |-> call.func, args |-> call.args, value |-> <<>>, is |-> "pending"]
  OBVIOUS
<1>2. /\ flush = "idle" /\ calls' = Append(calls, c) /\ buf' = buf \o RequestOf(call)
      /\ pending' = Append(pending, Len(calls) + 1)
      /\ flush' = flush /\ toServer' = toServer /\ toClient' = toClient /\ replies' = replies
      /\ inbuf' = inbuf /\ handling' = handling /\ closing' = closing /\ executed' = executed
      /\ serverEnd' = serverEnd
  BY <1>1 DEF Call, server
<1>3. TypeOK /\ ExecutedOK /\ RequestsOK /\ PendingOK /\ RepliesOK /\ CallsOK
  BY <1>2, CallsTyped DEF IInv, TypeOK
<1>4. /\ ~closing /\ Answered = Done /\ replies = <<>> /\ toServer = <<>> /\ inbuf = <<>>
  BY <1>2, <1>3 DEF RepliesOK
<1>5. PICK l \in Nat, n \in Nat, k \in Nat :
        l = Count /\ l = Len(calls) /\ n = Done /\ k = Len(pending) /\ n <= l /\ n = l - k
  <2>1. Count \in Nat /\ Done \in Nat /\ Len(pending) \in Nat /\ Done <= Count
        /\ Answered = Count - Len(pending)
    BY <1>3, Numbers
  <2> QED BY <1>4, <2>1 DEF Count
<1>6. c \in Outcomes /\ c.func = call.func /\ c.args = call.args /\ c.is = "pending"
  <2>1. c \in Outcome(call)
    BY <1>1 DEF Outcome
  <2> QED BY <1>1, <2>1 DEF Outcomes
<1>7. RequestOf(c) = RequestOf(call) /\ RequestOf(c) \in Seq(Int)
  <2>1. RequestOf(c) = RequestOf(call)
    BY <1>6 DEF RequestOf
  <2>2. WellTyped(c)
    BY <1>6, OneOutcome
  <2> QED BY <2>1, <2>2, Requested DEF Headed
<1>8. /\ calls' \in Seq(Outcomes) /\ Len(calls') = l + 1 /\ calls'[l + 1] = c
      /\ \A i \in 1..l : calls'[i] = calls[i]
  BY <1>2, <1>3, <1>5, <1>6, AppendProperties DEF TypeOK
<1>9. /\ pending' \in Seq(Nat) /\ Len(pending') = k + 1 /\ pending'[k + 1] = l + 1
      /\ \A i \in 1..k : pending'[i] = pending[i]
  BY <1>2, <1>3, <1>5, AppendProperties DEF TypeOK
<1>10. Count' = l + 1 /\ Done' = n /\ Answered' = n
  <2>1. Answered' = (l + 1) - (k + 1)
    BY <1>8, <1>9 DEF Answered
  <2> QED BY <1>2, <1>5, <1>8, <2>1 DEF Count, Done
<1>11. /\ \A i \in 1..l : /\ Requests'[i] = Requests[i] /\ Runs'[i] = Runs[i]
                          /\ i \in Goods' <=> i \in Goods
       /\ Requests'[l + 1] = RequestOf(c)
  <2>1. \A i \in 1..l : i \in 1..(l + 1)
    OBVIOUS
  <2>2. l + 1 \in 1..(l + 1)
    OBVIOUS
  <2>3. \A i \in 1..l : Requests'[i] = Requests[i]
    BY <1>5, <1>8, <1>10, <2>1 DEF Requests
  <2>a. Short' = Short /\ Short # l + 1
    BY <1>2, <1>5, <1>10 DEF Short
  <2>4. \A i \in 1..l : Runs'[i] = Runs[i]
    BY <1>5, <1>8, <1>10, <2>1, <2>a DEF Runs
  <2>5. \A i \in 1..l : i \in Goods' <=> i \in Goods
    BY <1>5, <1>8, <1>10, <2>1, <2>a DEF Goods
  <2>6. Requests'[l + 1] = RequestOf(c)
    BY <1>8, <1>10, <2>2 DEF Requests
  <2> QED BY <2>3, <2>4, <2>5, <2>6
<1>12. Handled = n /\ Handled' = n
  <2>1. Handled' = n
    BY <1>2, <1>4, <1>10 DEF Handled
  <2> QED BY <1>3, <1>4, <1>5, <2>1, Numbers
<1>13. TypeOK'
  <2>1. buf' \in Seq(Int)
    BY <1>2, <1>3, <1>7, ConcatProperties DEF TypeOK
  <2> QED BY <1>2, <1>3, <1>8, <1>9, <2>1 DEF TypeOK
<1>14. 1..n \subseteq Goods'
  <2>1. 1..n \subseteq Goods
    BY <1>3, <1>4, <1>5 DEF ExecutedOK
  <2>2. \A i \in 1..n : i \in 1..l
    BY <1>5
  <2> QED BY <1>11, <2>1, <2>2
<1>15. ExecutedOK'
  <2>1. \A i \in 1..n : executed[i] = Runs'[i]
    <3>1. \A i \in 1..n : i \in 1..l /\ executed[i] = Runs[i]
      BY <1>3, <1>5 DEF ExecutedOK
    <3> QED BY <1>11, <3>1
  <2>2. n <= l + 1 /\ 1..(n - 1) \subseteq Goods'
    BY <1>5, <1>14
  <2>3. Short' # 0 => Refusable(calls'[Short'])
    <3>1. Short' = Short /\ (Short # 0 => Short \in 1..l)
      BY <1>2, <1>5, <1>10 DEF Short
    <3>2. Short # 0 => Refusable(calls[Short])
      BY <1>3 DEF ExecutedOK
    <3>3. Short # 0 => calls'[Short] = calls[Short]
      BY <1>8, <3>1
    <3> QED BY <3>1, <3>2, <3>3
  <2>4. serverEnd' # "open" => closing'
    BY <1>2, <1>3 DEF ExecutedOK
  <2> QED BY <1>2, <1>4, <1>10, <1>12, <1>14, <2>1, <2>2, <2>3, <2>4 DEF ExecutedOK
<1>16. RequestsOK'
  <2>1. PICK all, r : all = inbuf \o toServer /\ r = RequestOf(c)
    OBVIOUS
  <2>2. all \in Seq(Int) /\ buf \in Seq(Int) /\ r \in Seq(Int)
    BY <1>3, <1>7, <2>1, ConcatProperties DEF TypeOK
  <2>3. all \o (buf \o r) = (all \o buf) \o r
    <3>1. Regroups(all, buf, r)
      BY ONLY <2>2, Regrouped
    <3> QED BY <3>1 DEF Regroups
  <2>4. all \o buf = Stream(Requests, n, l)
    BY <1>3, <1>4, <1>5, <2>1 DEF RequestsOK
  <2>5. Stream(Requests', n, l + 1) = Stream(Requests, n, l) \o Requests'[l + 1]
    <3>1. Messages(Requests, n, l)
      <4>1. l \in 0..Count
        BY <1>5
      <4> QED BY <1>3, <1>5, <4>1 DEF CallsOK
    <3>2. PICK m, m2 : m = Requests /\ m2 = Requests'
      OBVIOUS
    <3>3. m2[l + 1] \in Seq(Int) /\ \A i \in (n + 1)..l : m2[i] = m[i]
      <4>1. \A i \in (n + 1)..l : i \in 1..l
        OBVIOUS
      <4> QED BY <1>7, <1>11, <3>2, <4>1
    <3>4. Stream(m2, n, l + 1) = Stream(m, n, l) \o m2[l + 1]
      <4>1. Messages(m, n, l) /\ n <= l
        BY <1>5, <3>1, <3>2
      <4> QED BY ONLY <3>3, <4>1, n \in Nat, l \in Nat, StreamMore
    <3> QED BY <3>2, <3>4
  <2>6. (inbuf' \o toServer') \o buf' = Stream(Requests', n, l + 1)
    BY <1>2, <1>7, <1>11, <2>1, <2>3, <2>4, <2>5
  <2> QED BY <1>2, <1>4, <1>10, <2>6 DEF RequestsOK
<1>17. PendingOK'
  <2>1. ASSUME NEW i \in 1..(k + 1) PROVE pending'[i] = n + i
    <3>1. CASE i = k + 1
      BY <1>5, <1>9, <3>1
    <3>2. CASE i # k + 1
      <4>1. i \in 1..k
        BY <3>2
      <4> QED BY <1>3, <1>4, <1>5, <1>9, <4>1 DEF PendingOK
    <3> QED BY <3>1, <3>2
  <2>2. ASSUME NEW i \in 1..(l + 1)
        PROVE  IF i <= n THEN calls'[i].is = "value" /\ calls'[i].value = Runs'[i].result
               ELSE calls'[i].is = "pending"
    <3>1. CASE i = l + 1
      <4>1. ~(i <= n)
        BY <1>5, <3>1
      <4> QED BY <1>6, <1>8, <3>1, <4>1
    <3>2. CASE i # l + 1
      <4>1. i \in 1..l
        BY <3>2
      <4>2. calls'[i] = calls[i] /\ Runs'[i] = Runs[i]
        BY <1>8, <1>11, <4>1
      <4> QED BY <1>3, <1>4, <1>5, <4>1, <4>2 DEF PendingOK
    <3> QED BY <3>1, <3>2
  <2>3. k + 1 <= l + 1
    BY <1>5
  <2>4. /\ Len(pending') <= Count' /\ \A i \in 1..Len(pending') : pending'[i] = Answered' + i
        /\ Answered' <= Handled' /\ 1..Answered' \subseteq Goods'
    BY <1>9, <1>10, <1>12, <1>14, <2>1, <2>3
  <2>5. \A i \in 1..Count' :
          IF i <= Answered' THEN calls'[i].is = "value" /\ calls'[i].value = Runs'[i].result
          ELSE calls'[i].is = "pending"
    BY <1>10, <2>2
  <2> QED BY <2>4, <2>5 DEF PendingOK
<1>18. RepliesOK'
  <2>1. \A m : Stream(m, n, n) = <<>>
    BY StreamEmpty
  <2>2. replies \o toClient = <<>>
    BY <1>3, <1>4, <1>5, <1>12, <2>1 DEF RepliesOK
  <2> QED BY <1>2, <1>4, <1>10, <1>12, <2>1, <2>2 DEF RepliesOK
<1> QED BY <1>2, <1>13, <1>15, <1>16, <1>17, <1>18 DEF IInv

LEMMA StepPreserves ==
  ASSUME IInv, [Next]_vars
  PROVE  IInv'
<1>1. CASE UNCHANGED vars
  <2>1. /\ calls' = calls /\ pending' = pending /\ buf' = buf /\ flush' = flush
        /\ toServer' = toServer /\ toClient' = toClient /\ inbuf' = inbuf
        /\ handling' = handling /\ closing' = closing /\ executed' = executed /\ replies' = replies
        /\ serverEnd' = serverEnd
    BY <1>1 DEF vars
  <2>2. TypeOK /\ ExecutedOK /\ RequestsOK
    BY DEF IInv
  <2>3. TypeOK'
    BY <2>1, <2>2 DEF TypeOK
  <2>4. ExecutedOK' /\ SameCalls /\ Done' = Done /\ Handled' = Handled
    <3>1. closing => handling = FALSE
      BY <2>2 DEF ExecutedOK, TypeOK
    <3> QED BY <2>1, <2>2, <3>1, ExecutedKept
  <2>5. RequestsOK'
    BY <2>1, <2>2, <2>4 DEF RequestsOK, SameCalls
  <2>6. CASE flush = "failed"
    <3>1. FailedOK'
      BY <2>1, <2>6, FailedKept DEF IInv
    <3> QED BY <2>1, <2>3, <2>4, <2>5, <2>6, <3>1 DEF IInv
  <2>7. CASE flush # "failed"
    <3>1. PendingOK /\ RepliesOK
      BY <2>7 DEF IInv
    <3>2. PendingOK' /\ Answered' = Answered
      BY <2>1, <2>4, <3>1, PendingKept
    <3>3. RepliesOK'
      BY <2>1, <2>4, <3>1, <3>2 DEF RepliesOK, SameCalls
    <3> QED BY <2>1, <2>3, <2>4, <2>5, <2>7, <3>2, <3>3 DEF IInv
  <2> QED BY <2>6, <2>7
<1>2. ASSUME NEW call \in CallsMade, Call(call) PROVE IInv'
  BY <1>2, CallPreserves
<1>3. CASE Flush
  BY <1>3, FlushPreserves
<1>4. CASE ServerReads
  BY <1>4, ServerReadsPreserves
<1>5. CASE RequestWaits
  BY <1>5, RequestWaitsPreserves
<1>6. CASE RequestRefused
  BY <1>6, RequestRefusedPreserves
<1>7. CASE Execute
  BY <1>7, ExecutePreserves
<1>8. CASE ClientReads
  BY <1>8, ClientReadsPreserves
<1>9. CASE HandleResponse
  BY <1>9, HandleResponsePreserves
<1>10. CASE ReplyWaits
  BY <1>10, ReplyWaitsPreserves
<1>11. CASE FlushFails
  BY <1>11, FlushFailsPreserves
<1>12. CASE CloseConnection
  BY <1>12, CloseConnectionPreserves
<1>13. CASE FlushReadFails
  BY <1>13, FlushReadFailsPreserves
<1> QED
  BY <1>1, <1>2, <1>3, <1>4, <1>5, <1>6, <1>7, <1>8, <1>9, <1>10, <1>11, <1>12, <1>13 DEF Next

\* Both sides agree, at every step, on which bytes are on their way in each direction: the
\* requests the server has not handled, and the replies the client has not taken.
THEOREM StreamsAgree == Spec => []IInv
<1>1. Init => IInv
  BY InitInvariant
<1>2. IInv /\ [Next]_vars => IInv'
  BY StepPreserves
<1> QED BY <1>1, <1>2, PTL DEF Spec

-----------------------------------------------------------------------------
\* What the invariant says

LEMMA InvariantMatches ==
  ASSUME IInv
  PROVE  CallsMatch
<1>1. TypeOK /\ ExecutedOK /\ CallsOK
  BY CallsTyped DEF IInv, TypeOK
<1>2. /\ Done \in Nat /\ Count \in Nat /\ Handled \in {Done, Done + 1} /\ Done <= Count
      /\ closing => Handled \in 1..Count /\ Handled \notin Goods
      /\ ~closing => Handled = Done
  BY <1>1, Numbers
<1>3. DOMAIN executed = 1..Done /\ DOMAIN calls = 1..Count
  BY <1>1, LenProperties DEF TypeOK, Done, Count
<1>4. ASSUME NEW i \in 1..Done
      PROVE  /\ executed[i] = Runs[i] /\ executed[i].func = calls[i].func
             /\ executed[i].args = calls[i].args
  <2>1. i \in 1..Count
    BY <1>2
  <2>2. executed[i] = Execution(calls[i], i # Short) /\ executed[i] = Runs[i]
    BY <1>1, <2>1 DEF ExecutedOK, CallsOK
  <2> QED BY <2>2 DEF Execution
<1>5. ASSUME NEW i \in 1..Count, calls[i].is = "value"
      PROVE  i <= Done /\ calls[i].value = Runs[i].result
  <2>1. CASE flush = "failed"
    BY <1>5, <2>1 DEF IInv, FailedOK
  <2>2. CASE flush # "failed"
    <3>1. PendingOK
      BY <2>2 DEF IInv
    <3>2. i <= Answered /\ calls[i].value = Runs[i].result
      BY <1>5, <3>1 DEF PendingOK
    <3>3. Answered \in Int /\ Answered <= Handled /\ i \in Goods
      <4>1. Answered \in Int /\ Answered <= Handled
        BY <1>1, <3>1, Numbers DEF PendingOK
      <4> QED BY <3>1, <3>2, <4>1 DEF PendingOK
    <3>4. i <= Done
      BY <1>2, <3>2, <3>3
    <3> QED BY <3>2, <3>4
  <2> QED BY <2>1, <2>2
<1>6. \A i \in 1..Count : calls[i].is = "value" =>
        i <= Len(executed) /\ calls[i].value = executed[i].result
  <2>1. ASSUME NEW i \in 1..Count, calls[i].is = "value"
        PROVE  i <= Done /\ calls[i].value = executed[i].result
    <3>1. i <= Done /\ calls[i].value = Runs[i].result
      BY <1>5, <2>1
    <3>2. i \in 1..Done
      BY <1>2, <3>1
    <3> QED BY <1>4, <3>1, <3>2
  <2> QED BY <2>1 DEF Done
<1> QED BY <1>2, <1>3, <1>4, <1>6 DEF CallsMatch, Done, Count

LEMMA InvariantNeverStuck ==
  ASSUME IInv
  PROVE  FlushNeverStuck
<1> SUFFICES ASSUME flush = "reading", toClient = <<>>, toServer = <<>>, ~handling,
                    serverEnd # "rst"
             PROVE  FALSE
  BY DEF FlushNeverStuck
<1>1. TypeOK /\ ExecutedOK /\ RequestsOK /\ PendingOK /\ RepliesOK /\ CallsOK
  BY CallsTyped DEF IInv, TypeOK
<1>2. /\ replies \in Seq(Int) /\ inbuf \in Seq(Int) /\ <<>> \in Seq(Int) /\ pending \in Seq(Nat)
  BY <1>1, EmptySeq DEF TypeOK
<1>3. buf = <<>> /\ pending # <<>> /\ Len(replies) < Len(Replies[Answered + 1])
  BY <1>1 DEF RepliesOK
<1>4. PICK n \in Nat, h \in Nat, l \in Nat, d \in Nat :
        /\ n = Answered /\ h = Handled /\ l = Count /\ d = Done /\ n <= h /\ h <= l /\ n < l
        /\ h \in {d, d + 1} /\ d <= l
  <2>1. Len(pending) # 0
    BY <1>2, <1>3, NotEmpty
  <2> QED BY <1>1, <2>1, Numbers DEF PendingOK
<1>5. n = h /\ ~closing
  BY <1>1, <1>4, NothingComes
<1>7. d = n
  BY <1>1, <1>4, <1>5, Numbers
<1>8. PICK x, r : x = Requests[d + 1] /\ r = Stream(Requests, d + 1, l)
  OBVIOUS
<1>9. Stream(Requests, d, l) = x \o r /\ x \in Seq(Int) /\ r \in Seq(Int)
  <2>1. Messages(Requests, d, l)
    <3>1. l \in 0..Count
      BY <1>4
    <3> QED BY <1>1, <1>4, <3>1 DEF CallsOK
  <2>2. d < l
    BY <1>4, <1>7
  <2> QED BY <1>8, <2>1, <2>2, StreamFirst
<1>10. inbuf \o <<>> = x \o r
  <2>1. (inbuf \o <<>>) \o <<>> = x \o r
    BY <1>1, <1>3, <1>4, <1>5, <1>9 DEF RequestsOK
  <2>2. inbuf \o <<>> = inbuf
    BY <1>2, ConcatEmptySeq
  <2> QED BY <2>1, <2>2
<1>11. Len(inbuf) + Len(<<>>) = Len(x) + Len(r)
  BY ONLY <1>2, <1>9, <1>10, FirstMessage
<1>12. Len(inbuf) \in Nat /\ Len(x) \in Nat /\ Len(r) \in Nat /\ Len(<<>>) = 0
  BY <1>2, <1>9, LenProperties, EmptySeq
<1>13. Len(x) >= 2
  <2>1. d + 1 \in 1..Count
    BY <1>4, <1>7
  <2> QED BY <1>1, <1>8, <2>1 DEF CallsOK
<1>14. inbuf = <<>> \/ Len(inbuf) < Len(x)
  BY <1>1, <1>4, <1>5, <1>8 DEF RequestsOK
<1> QED BY <1>11, <1>12, <1>13, <1>14

\* The service executes the calls that were sent, each once, in their order and with the
\* arguments the program gave, and every Result that has a value has the one the service
\* returned for its call.
THEOREM CallsAlwaysMatch == Spec => []CallsMatch
<1>1. IInv => CallsMatch
  BY InvariantMatches
<1> QED BY <1>1, StreamsAgree, PTL

\* Flush never waits for bytes that will not come.
THEOREM FlushesHearMore == Spec => []FlushNeverStuck
<1>1. IInv => FlushNeverStuck
  BY InvariantNeverStuck
<1> QED BY <1>1, StreamsAgree, PTL

\* Flush fails for a call that the service may refuse, and for no other.  The calls before
\* it have their values and the others errors; after a reset some of those before it have
\* errors too, and they are the last of them.
THEOREM FailuresAreRefusals == Spec => []FailsOnlyWhenRefused
<1>1. IInv => FailsOnlyWhenRefused
  BY DEF IInv, FailedOK, FailsOnlyWhenRefused
<1> QED BY <1>1, StreamsAgree, PTL
=============================================================================
