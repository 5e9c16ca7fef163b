--------------------------- MODULE ClvmCodecProofs ---------------------------
(***************************************************************************)
(* What ts/src/clvm.ts reads, hashes and writes, for blobs and trees of    *)
(* any size.  The parser keeps to a function from the places of the blob   *)
(* to the nodes that are encoded there (Reading); what each stack still    *)
(* holds is a run of a machine that does one thing at a time (Runs), and   *)
(* a run that is left gives the tree, its hash or its octets.              *)
(***************************************************************************)
EXTENDS InputProofs, ClvmValues, FiniteSetTheorems

-----------------------------------------------------------------------------
(* Powers of two.                                                          *)
LEMMA TwoPowers ==
  ASSUME NEW n \in Nat
  PROVE  2^n \in Nat /\ 2^n >= 1 /\ 2^(n + 1) = 2 * 2^n
<1> DEFINE S == 1..n
           P == SUBSET S
           Q == {x \cup {n + 1} : x \in P}
<1>1. IsFiniteSet(S) /\ Cardinality(S) = n BY FS_Interval
<1>2. IsFiniteSet(P) /\ Cardinality(P) = 2^n BY <1>1, FS_SUBSET
<1>3. Cardinality(P) \in Nat BY <1>2, FS_CardinalityType
<1>4. IsFiniteSet(1..(n + 1)) /\ Cardinality(1..(n + 1)) = n + 1 BY FS_Interval
<1>5. Cardinality(SUBSET (1..(n + 1))) = 2^(n + 1) BY <1>4, FS_SUBSET
<1>6. SUBSET (1..(n + 1)) = P \cup Q
  <2>1. \A x \in SUBSET (1..(n + 1)) : x \in P \/ x \in Q
    <3> SUFFICES ASSUME NEW x \in SUBSET (1..(n + 1)), x \notin P PROVE x \in Q OBVIOUS
    <3>1. n + 1 \in x OBVIOUS
    <3>2. x \ {n + 1} \in P OBVIOUS
    <3>3. x = (x \ {n + 1}) \cup {n + 1} BY <3>1
    <3> QED BY <3>2, <3>3
  <2>2. \A x \in P : x \in SUBSET (1..(n + 1)) /\ x \cup {n + 1} \in SUBSET (1..(n + 1))
    OBVIOUS
  <2>3. \A x \in Q : x \in SUBSET (1..(n + 1)) BY <2>2
  <2>4. \A x \in P : x \in SUBSET (1..(n + 1)) BY <2>2
  <2> HIDE DEF P, Q
  <2> QED BY <2>1, <2>3, <2>4
<1>7. P \cap Q = {}
  <2>1. n + 1 \notin S OBVIOUS
  <2> QED BY <2>1
<1>8. ExistsBijection(P, Q)
  <2> DEFINE f == [x \in P |-> x \cup {n + 1}]
  <2>1. f \in Surjection(P, Q) BY DEF Surjection
  <2>2. f \in Injection(P, Q)
    <3>1. n + 1 \notin S OBVIOUS
    <3>2. ASSUME NEW x \in P, NEW y \in P, f[x] = f[y] PROVE x = y
      BY <3>1, <3>2
    <3>3. f \in [P -> Q] OBVIOUS
    <3> HIDE DEF f, P, Q
    <3>4. \A x, y \in P : f[x] = f[y] => x = y BY <3>2
    <3> QED BY <3>3, <3>4 DEF Injection, IsInjective
  <2> QED BY <2>1, <2>2 DEF ExistsBijection, Bijection
<1>9. IsFiniteSet(Q) /\ Cardinality(Q) = Cardinality(P) BY <1>2, <1>8, FS_Bijection
<1>10. Cardinality(P \cup Q) = Cardinality(P) + Cardinality(Q) - Cardinality(P \cap Q)
  BY <1>2, <1>9, FS_Union
<1>11. Cardinality(P \cap Q) = 0 BY <1>7, FS_EmptySet
<1>12. 2^(n + 1) = 2 * 2^n
  <2>1. 2^(n + 1) = Cardinality(P \cup Q) BY <1>5, <1>6
  <2>2. Cardinality(P \cup Q) = Cardinality(P) + Cardinality(P) BY <1>3, <1>9, <1>10, <1>11
  <2> HIDE DEF P, Q
  <2> QED BY <1>2, <1>3, <2>1, <2>2
<1>13. Cardinality(P) # 0
  <2>1. {} \in P OBVIOUS
  <2> QED BY <1>2, <2>1, FS_EmptySet
<1> QED BY <1>2, <1>3, <1>12, <1>13

LEMMA PowersMultiply ==
  ASSUME NEW a \in Nat, NEW b \in Nat
  PROVE  2^(a + b) = 2^a * 2^b
<1> DEFINE T == {k \in Nat : 2^(a + k) = 2^a * 2^k}
<1>1. 2^0 = 1
  <2>1. IsFiniteSet({}) /\ Cardinality({}) = 0 BY FS_EmptySet
  <2>2. Cardinality(SUBSET {}) = 2^0 BY <2>1, FS_SUBSET
  <2>3. SUBSET {} = {{}} OBVIOUS
  <2> QED BY <2>2, <2>3, FS_Singleton
<1>2. 2^a \in Nat BY TwoPowers
<1>3. 0 \in T BY <1>1, <1>2
<1>4. ASSUME NEW k \in Nat, k \in T PROVE k + 1 \in T
  <2>1. a + k \in Nat /\ a + (k + 1) = (a + k) + 1 OBVIOUS
  <2>2. 2^((a + k) + 1) = 2 * 2^(a + k) BY <2>1, TwoPowers
  <2>3. 2^(k + 1) = 2 * 2^k /\ 2^k \in Nat BY TwoPowers
  <2>4. 2^(a + k) = 2^a * 2^k BY <1>4
  <2> DEFINE x == 2^a
             y == 2^k
  <2>5. x \in Nat /\ y \in Nat BY <1>2, <2>3
  <2>6. 2 * (x * y) = x * (2 * y)
    <3> HIDE DEF x, y
    <3> QED BY <2>5
  <2>7. 2^(a + (k + 1)) = 2^a * 2^(k + 1) BY <2>1, <2>2, <2>3, <2>4, <2>6
  <2> QED BY <2>7
<1>5. T = Nat
  <2>1. \A k \in Nat : k \in T => k + 1 \in T BY <1>4
  <2> HIDE DEF T
  <2>2. T \in SUBSET Nat BY DEF T
  <2> QED BY <1>3, <2>1, <2>2, SetInduction
<1> QED BY <1>5

LEMMA PowersOfTwoGrow ==
  ASSUME NEW a \in Nat, NEW b \in Nat, a <= b
  PROVE  2^a <= 2^b
<1>1. b - a \in Nat /\ a + (b - a) = b OBVIOUS
<1>2. 2^a \in Nat /\ 2^(b - a) \in Nat /\ 2^(b - a) >= 1 BY <1>1, TwoPowers
<1>3. 2^b = 2^a * 2^(b - a)
  <2> DEFINE d == b - a
  <2>1. d \in Nat /\ a + d = b BY <1>1
  <2> HIDE DEF d
  <2>2. 2^(a + d) = 2^a * 2^d BY <2>1, PowersMultiply
  <2> QED BY <2>1, <2>2 DEF d
<1> DEFINE x == 2^a
           y == 2^(b - a)
<1>4. x \in Nat /\ y \in Nat /\ y >= 1 BY <1>2
<1>5. x * y >= x
  <2> HIDE DEF x, y
  <2> QED BY <1>4
<1> QED BY <1>3, <1>5

-----------------------------------------------------------------------------
(* Octets and headers.                                                     *)
LEMMA Widths ==
  /\ OctetBits \in Nat /\ OctetBits >= 3 /\ LongHeader \in Nat /\ LongHeader >= 1
  /\ LongHeader <= OctetBits - 2
  /\ LongWritten \in Nat /\ LongWritten >= 1 /\ LongWritten <= LongHeader
  /\ 2^OctetBits \in Nat /\ 2^OctetBits >= 2
  /\ Octet = 0..(2^OctetBits - 1) /\ ConsOctet \in Octet /\ ConsOctet = 2^OctetBits - 1
<1>1. OctetBits \in Nat /\ LongHeader \in 1..(OctetBits - 2) /\ LongWritten \in 1..LongHeader
  BY CodecAssumption
<1>2. OctetBits - 1 \in Nat /\ (OctetBits - 1) + 1 = OctetBits BY <1>1
<1>3. 2^(OctetBits - 1) \in Nat /\ 2^(OctetBits - 1) >= 1 BY <1>2, TwoPowers
<1>4. 2^OctetBits = 2 * 2^(OctetBits - 1)
  <2> DEFINE m == OctetBits - 1
  <2>1. m \in Nat /\ m + 1 = OctetBits BY <1>2
  <2> HIDE DEF m
  <2>2. 2^(m + 1) = 2 * 2^m BY <2>1, TwoPowers
  <2> QED BY <2>1, <2>2 DEF m
<1>5. 2^OctetBits \in Nat /\ 2^OctetBits >= 2 BY <1>3, <1>4
<1> QED BY <1>1, <1>5 DEF Octet, ConsOctet

LEMMA FirstOctets ==
  ASSUME NEW k \in 0..OctetBits
  PROVE  /\ FirstOf(k) \in Octet
         /\ k = 0 => FirstOf(k) = 0
         /\ k = OctetBits => FirstOf(k) = ConsOctet
         /\ k < OctetBits => /\ 2^(OctetBits - 1 - k) \in Nat /\ 2^(OctetBits - 1 - k) >= 1
                             /\ FirstOf(k + 1) = FirstOf(k) + 2^(OctetBits - 1 - k)
<1>1. OctetBits \in Nat /\ 2^OctetBits \in Nat BY Widths
<1> DEFINE d == OctetBits - k
<1>2. d \in Nat /\ d <= OctetBits BY <1>1
<1>3. 2^d \in Nat /\ 2^d >= 1 /\ 2^d <= 2^OctetBits
  <2> HIDE DEF d
  <2> QED BY <1>1, <1>2, TwoPowers, PowersOfTwoGrow
<1>4. FirstOf(k) = 2^OctetBits - 2^d BY DEF FirstOf
<1>5. FirstOf(k) \in Octet
  <2> HIDE DEF d
  <2> QED BY <1>1, <1>3, <1>4, Widths
<1>6. k = 0 => d = OctetBits BY <1>1
<1>7. k = OctetBits => FirstOf(k) = ConsOctet
  <2> SUFFICES ASSUME k = OctetBits PROVE FirstOf(k) = ConsOctet OBVIOUS
  <2>1. d = 0 BY <1>1
  <2>2. 2^0 = 1
    <3>1. IsFiniteSet({}) /\ Cardinality({}) = 0 BY FS_EmptySet
    <3>2. Cardinality(SUBSET {}) = 2^0 BY <3>1, FS_SUBSET
    <3>3. SUBSET {} = {{}} OBVIOUS
    <3> QED BY <3>2, <3>3, FS_Singleton
  <2> HIDE DEF d
  <2> QED BY <1>1, <1>4, <2>1, <2>2 DEF ConsOctet
<1>8. ASSUME k < OctetBits
      PROVE  /\ 2^(OctetBits - 1 - k) \in Nat /\ 2^(OctetBits - 1 - k) >= 1
             /\ FirstOf(k + 1) = FirstOf(k) + 2^(OctetBits - 1 - k)
  <2> DEFINE e == OctetBits - 1 - k
  <2>1. e \in Nat /\ e + 1 = d /\ OctetBits - (k + 1) = e BY <1>1, <1>8
  <2>2. FirstOf(k + 1) = 2^OctetBits - 2^e BY <2>1 DEF FirstOf
  <2>3. 2^e \in Nat /\ 2^e >= 1 /\ 2^d = 2 * 2^e
    <3> HIDE DEF e, d
    <3> QED BY <2>1, TwoPowers
  <2> HIDE DEF d
  <2>4. FirstOf(k + 1) = FirstOf(k) + 2^e
    <3> HIDE DEF e
    <3> QED BY <1>1, <1>3, <1>4, <2>2, <2>3
  <2> QED BY <2>3, <2>4
<1>9. k = 0 => FirstOf(k) = 0 BY <1>1, <1>4, <1>6
<1> QED BY <1>5, <1>7, <1>8, <1>9

LEMMA FirstOctetsGrow ==
  ASSUME NEW j \in 0..OctetBits, NEW k \in 0..OctetBits, j < k
  PROVE  FirstOf(j + 1) <= FirstOf(k)
<1>1. OctetBits \in Nat /\ 2^OctetBits \in Nat BY Widths
<1> DEFINE a == OctetBits - k
           b == OctetBits - (j + 1)
<1>2. a \in Nat /\ b \in Nat /\ a <= b BY <1>1
<1>3. 2^a <= 2^b /\ 2^a \in Nat /\ 2^b \in Nat
  <2> HIDE DEF a, b
  <2> QED BY <1>2, PowersOfTwoGrow, TwoPowers
<1>4. FirstOf(k) = 2^OctetBits - 2^a /\ FirstOf(j + 1) = 2^OctetBits - 2^b BY DEF FirstOf
<1> HIDE DEF a, b
<1> QED BY <1>1, <1>3, <1>4

(* k is how many ones o starts with.                                       *)
Heads(o, k) ==
  /\ k \in 0..OctetBits /\ FirstOf(k) <= o
  /\ k < OctetBits => o < FirstOf(k + 1)

LEMMA OneHeader ==
  ASSUME NEW o \in Octet, NEW j, NEW k, Heads(o, j), Heads(o, k)
  PROVE  j = k
<1>1. /\ OctetBits \in Nat /\ j \in 0..OctetBits /\ k \in 0..OctetBits
      /\ 2^OctetBits \in Nat /\ Octet = 0..(2^OctetBits - 1)
  BY Widths DEF Heads
<1>2. ASSUME NEW x, NEW y, Heads(o, x), Heads(o, y), x < y PROVE FALSE
  <2>1. x \in 0..OctetBits /\ y \in 0..OctetBits /\ x + 1 \in 0..OctetBits BY <1>1, <1>2 DEF Heads
  <2>2. FirstOf(x + 1) <= FirstOf(y) BY <1>2, <2>1, FirstOctetsGrow
  <2>3. o < FirstOf(x + 1) /\ FirstOf(y) <= o BY <1>1, <1>2, <2>1 DEF Heads
  <2>4. FirstOf(x + 1) \in Octet /\ FirstOf(y) \in Octet BY <2>1, FirstOctets
  <2> QED BY <1>1, <2>2, <2>3, <2>4
<1>3. ~(j < k) /\ ~(k < j) BY <1>2
<1> QED BY <1>1, <1>3

LEMMA HeaderHeads ==
  ASSUME NEW o \in Octet
  PROVE  Heads(o, HeaderOf(o))
<1>1. OctetBits \in Nat /\ 2^OctetBits \in Nat /\ Octet = 0..(2^OctetBits - 1) BY Widths
<1> DEFINE T == {k \in Nat : k = OctetBits \/ (k < OctetBits /\ o < FirstOf(k + 1))}
<1>2. T \in SUBSET Nat /\ T # {} BY <1>1
<1>3. PICK k \in T : \A j \in T : k <= j
  <2> HIDE DEF T
  <2> QED BY <1>2, LeastNatural
<1>4. k \in 0..OctetBits /\ (k < OctetBits => o < FirstOf(k + 1)) BY <1>1
<1>5. FirstOf(k) <= o
  <2>1. CASE k = 0 BY <1>1, <2>1, <1>4, FirstOctets
  <2>2. CASE k # 0
    <3>1. k - 1 \in Nat /\ k - 1 < OctetBits /\ (k - 1) + 1 = k BY <1>1, <1>4, <2>2
    <3>2. k - 1 \notin T
      <4> HIDE DEF T
      <4> QED BY <1>3, <1>4, <3>1
    <3>3. ~(o < FirstOf(k)) BY <3>1, <3>2
    <3>4. FirstOf(k) \in Octet BY <1>4, FirstOctets
    <3> QED BY <1>1, <3>3, <3>4
  <2> QED BY <2>1, <2>2
<1>6. \E j \in 0..OctetBits : FirstOf(j) <= o /\ (j < OctetBits => o < FirstOf(j + 1))
  BY <1>4, <1>5
<1> QED BY <1>6 DEF HeaderOf, Heads

(* The size that a header of k octets, the first of them at i, declares.   *)
Sizes(size, i, k) ==
  /\ size[1] = blob[i] - FirstOf(k)
  /\ \A j \in 2..k : size[j] = (size[j - 1] * 2^OctetBits + blob[i + j - 1]) % 2^SizeBits

LEMMA SizeIterates ==
  ASSUME blob \in Seq(Octet), NEW i \in 1..Len(blob), NEW k \in 1..OctetBits,
         Heads(blob[i], k), i + k - 1 <= Len(blob)
  PROVE  \E size : Sizes(size, i, k) /\ SizeAt(i) = size[k]
<1>1. /\ Len(blob) \in Nat /\ \A j \in 1..Len(blob) : blob[j] \in Octet
      /\ OctetBits \in Nat /\ 2^OctetBits \in Nat /\ Octet = 0..(2^OctetBits - 1)
      /\ SizeBits \in Nat /\ 2^SizeBits \in Nat /\ 2^SizeBits >= 1
  <2>1. SizeBits \in Nat
    <3>1. SizeBits \in Nat BY CodecAssumption
    <3> QED BY <3>1
  <2> QED BY <2>1, Widths, TwoPowers
<1>2. HeaderOf(blob[i]) = k
  <2>1. blob[i] \in Octet BY <1>1
  <2> QED BY <2>1, HeaderHeads, OneHeader
<1> DEFINE Body(f, j) == IF j = 1 THEN blob[i] - FirstOf(k)
                         ELSE (f[j - 1] * 2^OctetBits + blob[i + j - 1]) % 2^SizeBits
           Rec(f) == f = [j \in 1..k |-> Body(f, j)]
           c == blob[i] - FirstOf(k)
           h == [x \in Nat \X (1..(k - 1)) |->
                   (x[1] * 2^OctetBits + blob[i + x[2]]) % 2^SizeBits]
<1>3. c \in Nat
  <2>1. FirstOf(k) \in Octet /\ FirstOf(k) <= blob[i] /\ blob[i] \in Octet
    BY <1>1, FirstOctets DEF Heads
  <2> QED BY <1>1, <2>1
<1>4. \A v \in Nat : \A m \in 1..(k - 1) :
        h[<<v, m>>] = (v * 2^OctetBits + blob[i + m]) % 2^SizeBits
  OBVIOUS
<1>5. h \in [Nat \X (1..(k - 1)) -> Nat]
  <2>1. ASSUME NEW v \in Nat, NEW m \in 1..(k - 1)
        PROVE  (v * 2^OctetBits + blob[i + m]) % 2^SizeBits \in Nat
    <3>1. i + m \in 1..Len(blob) BY <1>1
    <3>2. blob[i + m] \in Nat BY <1>1, <3>1
    <3> DEFINE p == 2^OctetBits
               w == v * p + blob[i + m]
               b == 2^SizeBits
    <3>3. w \in Nat /\ b \in Nat /\ b >= 1
      <4>1. p \in Nat BY <1>1
      <4>2. v * p \in Nat
        <5> HIDE DEF p
        <5> QED BY <4>1
      <4>3. b \in Nat /\ b >= 1 BY <1>1
      <4> HIDE DEF b, p
      <4> QED BY <3>2, <4>2, <4>3
    <3>4. (w % b) \in Nat
      <4> HIDE DEF w, b
      <4> QED BY <3>3
    <3> QED BY <3>4
  <2> QED BY <2>1
<1> HIDE DEF h, c
<1>6. PICK g \in [0..(k - 1) -> Nat] : g[0] = c /\ \A m \in 1..(k - 1) : g[m] = h[<<g[m - 1], m>>]
  <2>1. k - 1 \in Nat OBVIOUS
  <2> DEFINE n == k - 1
  <2>2. n \in Nat /\ h \in [Nat \X (1..n) -> Nat] BY <1>5, <2>1
  <2> HIDE DEF n
  <2>3. Iterates(Nat, c, n, h) BY <1>3, <2>2, Recursion
  <2> QED BY <2>3 DEF Iterates, n
<1> DEFINE f == [j \in 1..k |-> g[j - 1]]
<1>7. Rec(f)
  <2>1. ASSUME NEW j \in 1..k PROVE f[j] = Body(f, j)
    <3>1. CASE j = 1
      <4>1. f[1] = g[0] OBVIOUS
      <4> QED BY <1>6, <3>1, <4>1 DEF c
    <3>2. CASE j # 1
      <4>1. j - 1 \in 1..(k - 1) /\ j - 1 \in 1..k /\ (j - 1) - 1 \in 0..(k - 1) BY <3>2
      <4>2. f[j] = g[j - 1] /\ f[j - 1] = g[(j - 1) - 1] BY <4>1
      <4>3. g[j - 1] = h[<<g[(j - 1) - 1], j - 1>>] BY <1>6, <4>1
      <4>4. g[(j - 1) - 1] \in Nat BY <1>6, <4>1
      <4>5. g[j - 1] = (g[(j - 1) - 1] * 2^OctetBits + blob[i + (j - 1)]) % 2^SizeBits
        BY <1>4, <4>1, <4>3, <4>4
      <4>6. i + (j - 1) = i + j - 1 OBVIOUS
      <4> QED BY <3>2, <4>2, <4>5, <4>6
    <3> QED BY <3>1, <3>2
  <2>2. f = [j \in 1..k |-> f[j]] OBVIOUS
  <2> HIDE DEF Body, f
  <2> QED BY <2>1, <2>2
<1> DEFINE size == CHOOSE s : Rec(s)
<1>8. Rec(size)
  <2> HIDE DEF Rec
  <2> QED BY <1>7
<1>9. SizeAt(i) = size[k] BY <1>2 DEF SizeAt
<1>10. \A j \in 1..k : size[j] = Body(size, j)
  <2> HIDE DEF Body
  <2> QED BY <1>8
<1> HIDE DEF size
<1>11. Sizes(size, i, k)
  <2>1. 1 \in 1..k OBVIOUS
  <2>2. \A j \in 2..k : j \in 1..k /\ j # 1 OBVIOUS
  <2> QED BY <1>10, <2>1, <2>2 DEF Sizes
<1> QED BY <1>9, <1>11

-----------------------------------------------------------------------------
(* Division.                                                               *)
LEMMA Divides ==
  ASSUME NEW v \in Int, NEW m \in Nat, m >= 1
  PROVE  /\ v \div m \in Int /\ v % m \in 0..(m - 1)
         /\ v = m * (v \div m) + (v % m)
OBVIOUS

LEMMA RemainderIs ==
  ASSUME NEW m \in Nat, m >= 1, NEW z \in Int, NEW r \in 0..(m - 1), NEW v \in Int, v = m * z + r
  PROVE  v % m = r /\ v \div m = z
<1> DEFINE q == v \div m
           d == v % m
<1>1. q \in Int /\ d \in 0..(m - 1) /\ v = m * q + d BY Divides
<1> HIDE DEF q, d
<1>2. q * m + d = z * m + r BY <1>1
<1>3. d \in Digit(m) /\ r \in Digit(m) BY <1>1 DEF Digit
<1>4. q = z /\ d = r BY <1>1, <1>2, <1>3, UniqueDivision
<1> QED BY <1>4 DEF q, d

LEMMA MultiplesVanish ==
  ASSUME NEW m \in Nat, m >= 1, NEW z \in Int, NEW y \in Int
  PROVE  (m * z + y) % m = y % m
<1> DEFINE q == y \div m
           r == y % m
           v == m * z + y
<1>1. q \in Int /\ r \in 0..(m - 1) /\ y = m * q + r BY Divides
<1> HIDE DEF q, r
<1>2. m * z \in Int /\ m * q \in Int /\ m * (z + q) = m * z + m * q /\ z + q \in Int BY <1>1
<1>3. v \in Int /\ v = m * (z + q) + r BY <1>1, <1>2
<1> HIDE DEF v
<1>4. v % m = r BY <1>1, <1>2, <1>3, RemainderIs
<1> QED BY <1>4 DEF v, r

Mod(v, m) == v % m

LEMMA ModSteps ==
  ASSUME NEW m \in Nat, m >= 1, NEW v \in Nat, NEW w \in Nat, Mod(v, m) = Mod(w, m),
         NEW base \in Nat, NEW d \in Nat
  PROVE  Mod(v * base + d, m) = Mod(w * base + d, m)
<1> DEFINE q == v \div m
           h == w \div m
           r == v % m
           y == r * base + d
<1>1. q \in Int /\ h \in Int /\ r \in 0..(m - 1) /\ v = m * q + r /\ w = m * h + r
  <2>1. q \in Int /\ r \in 0..(m - 1) /\ v = m * q + r BY Divides
  <2>2. h \in Int /\ w = m * h + (w % m) BY Divides
  <2>3. w % m = r BY DEF Mod
  <2> QED BY <2>1, <2>2, <2>3
<1> HIDE DEF q, h, r
<1>2. r \in Nat /\ q * base \in Int /\ h * base \in Int BY <1>1
<1>3. v * base = m * (q * base) + r * base /\ w * base = m * (h * base) + r * base
  <2>1. (m * q + r) * base = m * (q * base) + r * base BY <1>1, <1>2
  <2>2. (m * h + r) * base = m * (h * base) + r * base BY <1>1, <1>2
  <2> QED BY <1>1, <2>1, <2>2
<1>4. y \in Int /\ r * base \in Int BY <1>2
<1> DEFINE a == q * base
           b == h * base
<1>5. a \in Int /\ b \in Int /\ m * a \in Int /\ m * b \in Int BY <1>2
<1>6. v * base + d = m * a + y /\ w * base + d = m * b + y
  <2> DEFINE u == r * base
             ma == m * a
             mb == m * b
             vb == v * base
             wb == w * base
  <2>1. u \in Int /\ ma \in Int /\ mb \in Int /\ vb = ma + u /\ wb = mb + u BY <1>3, <1>4, <1>5
  <2>2. y = u + d OBVIOUS
  <2> HIDE DEF u, ma, mb, vb, wb, y
  <2>3. vb + d = ma + y /\ wb + d = mb + y BY <2>1, <2>2
  <2> QED BY <2>3 DEF vb, wb, ma, mb
<1> HIDE DEF a, b, y
<1>7. (m * a + y) % m = y % m /\ (m * b + y) % m = y % m BY <1>4, <1>5, MultiplesVanish
<1> QED BY <1>6, <1>7 DEF Mod

LEMMA ModIs ==
  ASSUME NEW m \in Nat, m >= 1, NEW v \in Nat
  PROVE  Mod(v, m) \in 0..(m - 1) /\ Mod(v, m) <= v /\ (v < m => Mod(v, m) = v)
<1>1. Mod(v, m) \in 0..(m - 1) /\ v = m * (v \div m) + Mod(v, m) /\ v \div m \in Int
  BY Divides DEF Mod
<1>2. v < m => Mod(v, m) = v
  <2> SUFFICES ASSUME v < m PROVE Mod(v, m) = v OBVIOUS
  <2>1. v \in 0..(m - 1) /\ v = m * 0 + v OBVIOUS
  <2> QED BY <2>1, RemainderIs DEF Mod
<1> QED BY <1>1, <1>2

LEMMA PowerOfNothing == 2^0 = 1
<1>1. IsFiniteSet({}) /\ Cardinality({}) = 0 BY FS_EmptySet
<1>2. Cardinality(SUBSET {}) = 2^0 BY <1>1, FS_SUBSET
<1>3. SUBSET {} = {{}} OBVIOUS
<1> QED BY <1>2, <1>3, FS_Singleton

-----------------------------------------------------------------------------
(* The ones that an octet starts with.                                     *)
LEMMA PowersSplit ==
  ASSUME NEW k \in 0..OctetBits
  PROVE  LET d == 2^(OctetBits - k) IN
         /\ d \in Nat /\ d >= 1 /\ 2^k \in Nat /\ 2^k >= 1
         /\ 2^OctetBits = d * 2^k /\ FirstOf(k) = d * (2^k - 1)
<1> DEFINE e == OctetBits - k
           d == 2^e
           t == 2^k
<1>1. e \in Nat /\ k \in Nat /\ e + k = OctetBits BY Widths
<1> HIDE DEF e
<1>2. d \in Nat /\ d >= 1 /\ t \in Nat /\ t >= 1 BY <1>1, TwoPowers
<1>3. 2^(e + k) = d * t BY <1>1, PowersMultiply
<1>4. FirstOf(k) = 2^OctetBits - d BY DEF FirstOf, e
<1> HIDE DEF d, t
<1>5. d * t \in Nat /\ d * (t - 1) = d * t - d BY <1>2
<1> QED BY <1>1, <1>2, <1>3, <1>4, <1>5 DEF d, t, e

LEMMA QuotientIs ==
  ASSUME NEW v \in Nat, NEW m \in Nat, m >= 1, NEW z \in Int
  PROVE  v \div m = z <=> m * z <= v /\ v < m * z + m
<1> DEFINE q == v \div m
           r == v % m
<1>1. q \in Int /\ r \in 0..(m - 1) /\ v = m * q + r BY Divides
<1>2. m * z \in Int /\ m * q \in Int OBVIOUS
<1>3. ASSUME m * z <= v, v < m * z + m PROVE v \div m = z
  <2> DEFINE s == v - m * z
  <2>1. s \in 0..(m - 1) /\ v = m * z + s BY <1>2, <1>3
  <2> HIDE DEF s
  <2> QED BY <2>1, RemainderIs
<1> HIDE DEF q, r
<1>4. ASSUME q = z PROVE m * z <= v /\ v < m * z + m BY <1>1, <1>2, <1>4
<1> QED BY <1>3, <1>4 DEF q

OnesLead(o, k) ==
  /\ o \div 2^(OctetBits - k) = 2^k - 1
  /\ k < OctetBits => o \div 2^(OctetBits - k - 1) = 2 * (2^k - 1)

LEMMA OnesAreHeads ==
  ASSUME NEW o \in Octet, NEW k \in 0..OctetBits
  PROVE  OnesLead(o, k) <=> Heads(o, k)
<1> DEFINE d == 2^(OctetBits - k)
           t == 2^k
           e == 2^(OctetBits - 1 - k)
<1>1. o \in Nat /\ o < 2^OctetBits /\ OctetBits \in Nat BY Widths
<1>2. d \in Nat /\ d >= 1 /\ t \in Nat /\ t >= 1 /\ 2^OctetBits = d * t /\ FirstOf(k) = d * (t - 1)
  BY PowersSplit
<1>3. k < OctetBits => e \in Nat /\ e >= 1 /\ d = 2 * e /\ FirstOf(k + 1) = FirstOf(k) + e
  <2> SUFFICES ASSUME k < OctetBits
               PROVE  e \in Nat /\ e >= 1 /\ d = 2 * e /\ FirstOf(k + 1) = FirstOf(k) + e
    OBVIOUS
  <2>1. e \in Nat /\ e >= 1 /\ FirstOf(k + 1) = FirstOf(k) + e BY FirstOctets
  <2> DEFINE h == OctetBits - 1 - k
  <2>2. h \in Nat /\ h + 1 = OctetBits - k BY <1>1
  <2> HIDE DEF h
  <2>3. 2^(h + 1) = 2 * 2^h BY <2>2, TwoPowers
  <2> QED BY <2>1, <2>2, <2>3 DEF h
<1>4. OctetBits - k - 1 = OctetBits - 1 - k BY <1>1
<1>5. OnesLead(o, k) <=> /\ o \div d = t - 1
                         /\ k < OctetBits => o \div e = 2 * (t - 1)
  BY <1>4 DEF OnesLead
<1>6. Heads(o, k) <=> /\ d * (t - 1) <= o
                      /\ k < OctetBits => o < d * (t - 1) + e
  BY <1>2, <1>3 DEF Heads
<1> HIDE DEF d, t, e
<1>7. d * (t - 1) \in Int /\ d * (t - 1) + d = d * t /\ t - 1 \in Int /\ 2 * (t - 1) \in Int
  BY <1>2
<1>8. o \div d = t - 1 <=> d * (t - 1) <= o
  <2>1. o \div d = t - 1 <=> d * (t - 1) <= o /\ o < d * (t - 1) + d
    BY <1>1, <1>2, <1>7, QuotientIs
  <2> QED BY <1>1, <1>2, <1>7, <2>1
<1>9. ASSUME k < OctetBits
      PROVE  o \div e = 2 * (t - 1) <=> d * (t - 1) <= o /\ o < d * (t - 1) + e
  <2> DEFINE z == 2 * (t - 1)
  <2>1. z \in Int BY <1>7
  <2>2. e * z = d * (t - 1)
    <3>1. e * (2 * (t - 1)) = (2 * e) * (t - 1) BY <1>2, <1>3, <1>9
    <3> QED BY <1>3, <1>9, <3>1
  <2> HIDE DEF z
  <2>3. o \div e = z <=> e * z <= o /\ o < e * z + e BY <1>1, <1>3, <1>9, <2>1, QuotientIs
  <2> QED BY <2>2, <2>3 DEF z
<1> QED BY <1>5, <1>6, <1>8, <1>9

LEMMA LeadingOnesHead ==
  ASSUME NEW o \in Octet
  PROVE  LeadingOnes(o) = HeaderOf(o)
<1>1. Heads(o, HeaderOf(o)) /\ HeaderOf(o) \in 0..OctetBits BY HeaderHeads DEF Heads
<1>2. \A k \in 0..OctetBits : OnesLead(o, k) <=> Heads(o, k) BY OnesAreHeads
<1>3. \E k \in 0..OctetBits : OnesLead(o, k) BY <1>1, <1>2
<1>4. LeadingOnes(o) = CHOOSE k \in 0..OctetBits : OnesLead(o, k) BY DEF LeadingOnes, OnesLead
<1>5. LeadingOnes(o) \in 0..OctetBits /\ OnesLead(o, LeadingOnes(o)) BY <1>3, <1>4
<1> QED BY <1>1, <1>2, <1>5, OneHeader

-----------------------------------------------------------------------------
(* The size that a header of k octets declares, computed without loss.     *)
Exact(size, b, i, k) ==
  /\ size[1] = b[i] - FirstOf(k)
  /\ \A j \in 2..k : size[j] = size[j - 1] * 2^OctetBits + b[i + j - 1]

LEMMA ExactSizes ==
  ASSUME NEW b \in Seq(Octet), NEW i \in 1..Len(b), NEW k \in 1..(OctetBits - 1), i + k - 1 <= Len(b)
  PROVE  \E size : /\ Exact(size, b, i, k)
                   /\ Unsigned(SubSeq(b, i, i + k - 1))
                        = size[k] + FirstOf(k) * 2^((k - 1) * OctetBits)
<1>1. /\ Len(b) \in Nat /\ OctetBits \in Nat /\ 2^OctetBits \in Nat /\ Octet \subseteq Int
      /\ \A j \in 1..Len(b) : b[j] \in Octet
  BY Widths
<1> DEFINE digits == SubSeq(b, i, i + k - 1)
           base == 2^OctetBits
           f == FirstOf(k)
           P(n) == 2^(n * OctetBits)
<1>2. /\ digits \in Seq(Int) /\ Len(digits) = k
      /\ \A j \in 1..k : digits[j] = b[i + j - 1]
  <2>1. \A j \in i..(i + k - 1) : b[j] \in Int
    <3> SUFFICES ASSUME NEW j \in i..(i + k - 1) PROVE b[j] \in Int OBVIOUS
    <3>1. j \in 1..Len(b) BY <1>1
    <3> QED BY <1>1, <3>1
  <2>2. /\ digits \in Seq(Int)
        /\ Len(digits) = (IF i <= i + k - 1 THEN (i + k - 1) - i + 1 ELSE 0)
        /\ \A j \in 1..((i + k - 1) - i + 1) : digits[j] = b[i + j - 1]
    BY <2>1, SubSeqProperties
  <2>3. (i + k - 1) - i + 1 = k /\ i <= i + k - 1 OBVIOUS
  <2> HIDE DEF digits
  <2> QED BY <2>2, <2>3
<1>3. base \in Int BY <1>1
<1> HIDE DEF digits
<1>4. PICK value : Values(value, digits, base) /\ Horner(digits, base) = value[Len(digits)]
  <2> HIDE DEF base
  <2> QED BY <1>2, <1>3, HornerUnrolls
<1>5. /\ value[0] = 0
      /\ \A j \in 1..k : value[j] = value[j - 1] * base + b[i + j - 1]
      /\ \A j \in 0..k : value[j] \in Int
  <2> HIDE DEF base
  <2> QED BY <1>2, <1>4 DEF Values
<1>6. f \in Int
  <2>1. k \in 0..OctetBits BY <1>1
  <2> QED BY <1>1, <2>1, FirstOctets
<1>7. \A n \in Nat : P(n) \in Int /\ P(n + 1) = P(n) * base
  <2> SUFFICES ASSUME NEW n \in Nat PROVE P(n) \in Int /\ P(n + 1) = P(n) * base OBVIOUS
  <2>1. n * OctetBits \in Nat /\ (n + 1) * OctetBits = n * OctetBits + OctetBits BY <1>1
  <2> DEFINE e == n * OctetBits
  <2> HIDE DEF e
  <2>2. 2^(e + OctetBits) = 2^e * 2^OctetBits /\ 2^e \in Nat
    BY <1>1, <2>1, PowersMultiply, TwoPowers DEF e
  <2>3. 2^((n + 1) * OctetBits) = 2^(e + OctetBits) BY <2>1 DEF e
  <2> QED BY <2>2, <2>3 DEF e
<1>8. P(0) = 1
  <2>1. 0 * OctetBits = 0 BY <1>1
  <2> QED BY <2>1, PowerOfNothing
<1> DEFINE size == [j \in 1..k |-> value[j] - f * P(j - 1)]
<1>9. size[1] = b[i] - f
  <2>1. 1 \in 1..k /\ 1 - 1 = 0 /\ i + 1 - 1 = i OBVIOUS
  <2>2. size[1] = value[1] - f * P(0) BY <2>1
  <2>3. value[1] = value[0] * base + b[i] BY <1>5, <2>1
  <2>4. value[1] = b[i]
    <3>1. 0 * base = 0 BY <1>3
    <3>2. b[i] \in Int BY <1>1
    <3> HIDE DEF base
    <3> QED BY <1>5, <2>3, <3>1, <3>2
  <2> HIDE DEF P, f, size
  <2>5. f * P(0) = f BY <1>6, <1>8
  <2> QED BY <2>2, <2>4, <2>5
<1>10. ASSUME NEW j \in 2..k PROVE size[j] = size[j - 1] * base + b[i + j - 1]
  <2>1. /\ j \in 1..k /\ j - 1 \in 1..k /\ j - 1 \in 0..k /\ (j - 1) - 1 = j - 2 /\ j - 2 \in Nat
        /\ (j - 2) + 1 = j - 1
    OBVIOUS
  <2>2. size[j] = value[j] - f * P(j - 1) /\ size[j - 1] = value[j - 1] - f * P(j - 2)
    BY <2>1
  <2>3. value[j] = value[j - 1] * base + b[i + j - 1] /\ value[j - 1] \in Int BY <1>5, <2>1
  <2>4. P(j - 1) = P(j - 2) * base /\ P(j - 2) \in Int
    <3> HIDE DEF P, base
    <3>1. P((j - 2) + 1) = P(j - 2) * base /\ P(j - 2) \in Int BY <1>7, <2>1
    <3> QED BY <2>1, <3>1
  <2>5. b[i + j - 1] \in Int
    <3>1. i + j - 1 \in 1..Len(b) BY <1>1
    <3> QED BY <1>1, <3>1
  <2> DEFINE v == value[j - 1]
             p == P(j - 2)
             d == b[i + j - 1]
  <2>6. v \in Int /\ p \in Int /\ d \in Int BY <2>3, <2>4, <2>5
  <2>7. size[j] = (v * base + d) - f * (p * base) /\ size[j - 1] = v - f * p
    BY <2>2, <2>3, <2>4
  <2> HIDE DEF v, p, d, size, base, f, P
  <2>8. (v - f * p) * base = v * base - f * (p * base)
    <3> DEFINE x == f * p
    <3>1. x \in Int /\ x * base = f * (p * base) BY <1>3, <1>6, <2>6
    <3> HIDE DEF x
    <3>2. (v - x) * base = v * base - x * base BY <1>3, <2>6, <3>1
    <3> QED BY <3>1, <3>2 DEF x
  <2>9. v * base \in Int /\ f * (p * base) \in Int BY <1>3, <1>6, <2>6
  <2>10. size[j] = size[j - 1] * base + d BY <2>6, <2>7, <2>8, <2>9
  <2> QED BY <2>10 DEF d
<1>11. Exact(size, b, i, k)
  <2> HIDE DEF size
  <2> QED BY <1>9, <1>10 DEF Exact
<1>12. Unsigned(digits) = size[k] + f * P(k - 1)
  <2>1. k \in 1..k /\ k \in 0..k /\ k - 1 \in Nat OBVIOUS
  <2>2. size[k] = value[k] - f * P(k - 1) BY <2>1
  <2>3. value[k] \in Int BY <1>5, <2>1
  <2>4. P(k - 1) \in Int
    <3> HIDE DEF P
    <3> QED BY <1>7, <2>1
  <2> DEFINE x == f * P(k - 1)
  <2>5. x \in Int
    <3> HIDE DEF f, P
    <3> QED BY <1>6, <2>4
  <2>6. Unsigned(digits) = value[k] BY <1>2, <1>4 DEF Unsigned
  <2> HIDE DEF size, x
  <2>7. Unsigned(digits) = size[k] + x BY <2>2, <2>3, <2>5, <2>6 DEF x
  <2> QED BY <2>7 DEF x
<1> HIDE DEF size
<1> QED BY <1>11, <1>12 DEF digits

(* A header of k octets declares no more than it has bits for.             *)
LEMMA SizesAreBounded ==
  ASSUME NEW b \in Seq(Octet), NEW i \in 1..Len(b), NEW k \in 1..(OctetBits - 1),
         Heads(b[i], k), i + k - 1 <= Len(b), NEW size, Exact(size, b, i, k)
  PROVE  /\ \A j \in 1..k : size[j] \in Nat
         /\ size[k] < Capacity(k)
<1>1. /\ Len(b) \in Nat /\ \A j \in 1..Len(b) : b[j] \in Octet
      /\ OctetBits \in Nat /\ 2^OctetBits \in Nat /\ Octet = 0..(2^OctetBits - 1)
      /\ 2^OctetBits >= 1
  BY Widths
<1> DEFINE Bits(j) == OctetBits - 1 - k + (j - 1) * OctetBits
           T == {m \in Nat : m + 1 <= k => size[m + 1] \in Nat /\ size[m + 1] < 2^Bits(m + 1)}
<1>2. \A m \in Nat : Bits(m + 1) \in Nat /\ Bits((m + 1) + 1) = Bits(m + 1) + OctetBits
  <2> SUFFICES ASSUME NEW m \in Nat
               PROVE Bits(m + 1) \in Nat /\ Bits((m + 1) + 1) = Bits(m + 1) + OctetBits OBVIOUS
  <2>1. (m + 1) - 1 = m /\ ((m + 1) + 1) - 1 = m + 1 OBVIOUS
  <2>2. m * OctetBits \in Nat /\ (m + 1) * OctetBits = m * OctetBits + OctetBits BY <1>1
  <2> DEFINE d == OctetBits - 1 - k
             x == m * OctetBits
  <2>3. d \in Nat BY <1>1
  <2>4. Bits(m + 1) = d + x /\ Bits((m + 1) + 1) = d + (x + OctetBits) BY <2>1, <2>2
  <2> HIDE DEF d, x, Bits
  <2>5. x \in Nat BY <2>2 DEF x
  <2> QED BY <1>1, <2>3, <2>4, <2>5
<1>3. 0 \in T
  <2>0. k \in 0..OctetBits /\ k < OctetBits BY <1>1
  <2>1. FirstOf(k) \in Octet /\ FirstOf(k) <= b[i] /\ b[i] \in Octet
        /\ FirstOf(k + 1) = FirstOf(k) + 2^(OctetBits - 1 - k) /\ b[i] < FirstOf(k + 1)
        /\ 2^(OctetBits - 1 - k) \in Nat
    BY <1>1, <2>0, FirstOctets DEF Heads
  <2>2. Bits(0 + 1) = OctetBits - 1 - k BY <1>1
  <2>3. size[0 + 1] = b[i] - FirstOf(k) BY DEF Exact
  <2>4. size[0 + 1] \in Nat /\ size[0 + 1] < 2^(OctetBits - 1 - k) BY <1>1, <2>1, <2>3
  <2> HIDE DEF Bits
  <2> QED BY <2>2, <2>4
<1>4. ASSUME NEW m \in Nat, m \in T, (m + 1) + 1 <= k
      PROVE  size[(m + 1) + 1] \in Nat /\ size[(m + 1) + 1] < 2^Bits((m + 1) + 1)
  <2> DEFINE l == m + 1
             v == size[l]
             p == 2^OctetBits
             c == 2^Bits(l)
             o == b[i + l]
             w == v * p + o
  <2>1. v \in Nat /\ v < c
    <3> HIDE DEF Bits
    <3> QED BY <1>4
  <2>2. c \in Nat /\ p \in Nat /\ p >= 1
    <3>1. Bits(m + 1) \in Nat BY <1>2
    <3> HIDE DEF Bits
    <3> QED BY <1>1, <3>1, TwoPowers
  <2>3. o \in Nat /\ o < p
    <3>1. i + l \in 1..Len(b) BY <1>1, <1>4
    <3> QED BY <1>1, <3>1
  <2>4. size[l + 1] = w
    <3>1. l + 1 \in 2..k /\ (l + 1) - 1 = l /\ i + (l + 1) - 1 = i + l BY <1>4
    <3> QED BY <3>1 DEF Exact
  <2>5. 2^Bits(l + 1) = c * p
    <3> DEFINE e == Bits(l)
    <3>1. e \in Nat /\ Bits(l + 1) = e + OctetBits BY <1>2
    <3> HIDE DEF e, Bits
    <3>2. 2^(e + OctetBits) = 2^e * 2^OctetBits BY <1>1, <3>1, PowersMultiply
    <3> QED BY <3>1, <3>2 DEF e
  <2> HIDE DEF v, p, c, o
  <2>6. w \in Nat /\ w < c * p
    <3>1. v * p \in Nat /\ (v + 1) * p <= c * p /\ (v + 1) * p = v * p + p
      <4>1. v + 1 <= c BY <2>1, <2>2
      <4> QED BY <2>1, <2>2, <4>1
    <3>2. c * p \in Nat BY <2>2
    <3> QED BY <2>2, <2>3, <3>1, <3>2
  <2> HIDE DEF w
  <2>7. size[l + 1] \in Nat /\ size[l + 1] < c * p BY <2>4, <2>6
  <2> HIDE DEF Bits
  <2> QED BY <2>5, <2>7
<1>5. T = Nat
  <2>1. ASSUME NEW m \in Nat, m \in T PROVE m + 1 \in T
    <3> HIDE DEF Bits
    <3> QED BY <1>4, <2>1
  <2>2. \A m \in Nat : m \in T => m + 1 \in T BY <2>1
  <2> HIDE DEF T
  <2>3. T \in SUBSET Nat BY DEF T
  <2> QED BY <1>3, <2>2, <2>3, SetInduction
<1>6. ASSUME NEW j \in 1..k PROVE size[j] \in Nat /\ size[j] < 2^Bits(j)
  <2> DEFINE m == j - 1
  <2>1. m \in Nat /\ m + 1 = j /\ m + 1 <= k OBVIOUS
  <2> HIDE DEF m
  <2>2. m \in T BY <1>5, <2>1
  <2> HIDE DEF Bits
  <2> QED BY <2>1, <2>2
<1>7. k \in 1..k OBVIOUS
<1>8. size[k] < 2^Bits(k) BY <1>6, <1>7
<1> QED BY <1>6, <1>8 DEF Capacity

(* It is what the octets of the header declare, the ones taken off.        *)
LEMMA DeclaredIsExact ==
  ASSUME NEW b \in Seq(Octet), NEW i \in 1..Len(b), NEW k \in 1..(OctetBits - 1),
         Heads(b[i], k), i + k - 1 <= Len(b)
  PROVE  \E size : /\ Exact(size, b, i, k) /\ \A j \in 1..k : size[j] \in Nat
                   /\ DeclaredSize(b, i, k) = size[k]
                   /\ DeclaredSize(b, i, k) \in Nat /\ DeclaredSize(b, i, k) < Capacity(k)
<1>1. PICK size : /\ Exact(size, b, i, k)
                  /\ Unsigned(SubSeq(b, i, i + k - 1))
                       = size[k] + FirstOf(k) * 2^((k - 1) * OctetBits)
  BY ExactSizes
<1>2. (\A j \in 1..k : size[j] \in Nat) /\ size[k] < Capacity(k) BY <1>1, SizesAreBounded
<1> DEFINE e == 2^(OctetBits - 1 - k)
           p == 2^((k - 1) * OctetBits)
           t == 2^k
           c == Capacity(k)
           w == size[k]
           f == FirstOf(k)
<1>3. OctetBits \in Nat /\ k \in 0..OctetBits /\ k < OctetBits BY Widths
<1>4. e \in Nat /\ e >= 1 /\ t \in Nat /\ p \in Nat /\ p >= 1 /\ f = (2 * e) * (t - 1)
  <2> DEFINE h == OctetBits - 1 - k
             g == (k - 1) * OctetBits
  <2>1. h \in Nat /\ h + 1 = OctetBits - k BY <1>3
  <2>2. g \in Nat
    <3>1. k - 1 \in Nat OBVIOUS
    <3> QED BY <1>3, <3>1
  <2> HIDE DEF h, g
  <2>3. 2^(h + 1) = 2 * 2^h /\ 2^h \in Nat /\ 2^h >= 1 BY <2>1, TwoPowers
  <2>4. 2^g \in Nat /\ 2^g >= 1 BY <2>2, TwoPowers
  <2>5. 2^k \in Nat /\ FirstOf(k) = 2^(OctetBits - k) * (2^k - 1) BY <1>3, PowersSplit
  <2> QED BY <2>1, <2>3, <2>4, <2>5 DEF h, g
<1>5. c = e * p /\ 2^(k * OctetBits - k - 1) = c
  <2> DEFINE h == OctetBits - 1 - k
             g == (k - 1) * OctetBits
             l == k * OctetBits
  <2>1. h \in Nat BY <1>3
  <2>2. g \in Nat /\ l \in Nat /\ g = l - OctetBits
    <3>1. k - 1 \in Nat /\ (k - 1) * OctetBits = k * OctetBits - OctetBits BY <1>3
    <3> QED BY <1>3, <3>1
  <2> HIDE DEF g, l
  <2>3. l - k - 1 = h + g BY <1>3, <2>2
  <2>4. Capacity(k) = 2^(h + g) BY DEF Capacity, g
  <2> HIDE DEF h
  <2>5. 2^(h + g) = 2^h * 2^g BY <2>1, <2>2, PowersMultiply
  <2> QED BY <2>3, <2>4, <2>5 DEF h, g, l
<1>6. DeclaredSize(b, i, k) = (w + f * p) % c BY <1>1, <1>5 DEF DeclaredSize
<1>7. w \in Nat /\ w < c BY <1>2
<1> HIDE DEF e, p, t, c, w, f
<1> DEFINE z == 2 * (t - 1)
<1>8. z \in Int BY <1>4
<1>9. f * p = c * z
  <2>1. ((2 * e) * (t - 1)) * p = (e * p) * (2 * (t - 1)) BY <1>4
  <2> QED BY <1>4, <1>5, <2>1
<1>10. c \in Nat /\ c >= 1 BY <1>4, <1>5
<1> HIDE DEF z
<1>11. w + f * p = c * z + w /\ c * z + w \in Int BY <1>7, <1>8, <1>9, <1>10
<1>12. (c * z + w) % c = w
  <2>1. w \in 0..(c - 1) BY <1>7, <1>10
  <2> QED BY <1>8, <1>10, <1>11, <2>1, RemainderIs
<1>13. DeclaredSize(b, i, k) = w BY <1>6, <1>11, <1>12
<1> QED BY <1>1, <1>2, <1>7, <1>13 DEF w, c

(* readSize computes it in SizeBits bits.                                  *)
SizeIn(b, i, k) ==
  IF k = 1 THEN DeclaredSize(b, i, k) ELSE DeclaredSize(b, i, k) % 2^SizeBits

LEMMA SizesWrap ==
  ASSUME blob \in Seq(Octet), NEW i \in 1..Len(blob), NEW k \in 1..(OctetBits - 1),
         Heads(blob[i], k), i + k - 1 <= Len(blob)
  PROVE  SizeAt(i) = SizeIn(blob, i, k)
<1>1. /\ Len(blob) \in Nat /\ \A j \in 1..Len(blob) : blob[j] \in Octet
      /\ OctetBits \in Nat /\ 2^OctetBits \in Nat /\ Octet = 0..(2^OctetBits - 1)
      /\ SizeBits \in Nat /\ 2^SizeBits \in Nat /\ 2^SizeBits >= 1
  <2>1. SizeBits \in Nat BY CodecAssumption
  <2> QED BY <2>1, Widths, TwoPowers
<1>2. PICK exact : /\ Exact(exact, blob, i, k) /\ \A j \in 1..k : exact[j] \in Nat
                   /\ DeclaredSize(blob, i, k) = exact[k]
  BY DeclaredIsExact
<1>3. k \in 1..OctetBits BY <1>1
<1>4. PICK size : Sizes(size, i, k) /\ SizeAt(i) = size[k] BY <1>3, SizeIterates
<1> DEFINE M == 2^SizeBits
           p == 2^OctetBits
           T == {m \in Nat : m + 1 <= k => size[m + 1] \in Nat /\ Mod(size[m + 1], M) = Mod(exact[m + 1], M)}
<1>5. size[1] = exact[1] /\ exact[1] \in Nat
  <2>1. 1 \in 1..k OBVIOUS
  <2>2. size[1] = exact[1] BY <1>2, <1>4 DEF Sizes, Exact
  <2> QED BY <1>2, <2>1, <2>2
<1>6. ASSUME NEW m \in Nat, (m + 1) + 1 <= k
      PROVE  /\ size[(m + 1) + 1] = Mod(size[m + 1] * p + blob[i + (m + 1)], M)
             /\ exact[(m + 1) + 1] = exact[m + 1] * p + blob[i + (m + 1)]
             /\ blob[i + (m + 1)] \in Nat /\ exact[m + 1] \in Nat
  <2>1. (m + 1) + 1 \in 2..k /\ ((m + 1) + 1) - 1 = m + 1 /\ i + ((m + 1) + 1) - 1 = i + (m + 1)
    BY <1>6
  <2>2. i + (m + 1) \in 1..Len(blob) /\ m + 1 \in 1..k BY <1>1, <1>6
  <2>3. blob[i + (m + 1)] \in Nat BY <1>1, <2>2
  <2> QED BY <1>2, <1>4, <2>1, <2>2, <2>3 DEF Sizes, Exact, Mod
<1>7. ASSUME NEW m \in Nat, (m + 1) + 1 <= k, size[m + 1] \in Nat, Mod(size[m + 1], M) = Mod(exact[m + 1], M)
      PROVE  size[(m + 1) + 1] \in Nat /\ size[(m + 1) + 1] = Mod(exact[(m + 1) + 1], M)
  <2> DEFINE v == size[m + 1]
             w == exact[m + 1]
             d == blob[i + (m + 1)]
  <2>1. v \in Nat /\ w \in Nat /\ d \in Nat /\ Mod(v, M) = Mod(w, M) BY <1>6, <1>7
  <2>2. size[(m + 1) + 1] = Mod(v * p + d, M) /\ exact[(m + 1) + 1] = w * p + d BY <1>6, <1>7
  <2>3. p \in Nat /\ M \in Nat /\ M >= 1 BY <1>1
  <2> HIDE DEF v, w, d, p, M
  <2>4. Mod(v * p + d, M) = Mod(w * p + d, M) BY <2>1, <2>3, ModSteps
  <2>5. Mod(v * p + d, M) \in Nat
    <3>1. v * p \in Nat BY <2>1, <2>3
    <3> DEFINE y == v * p + d
    <3>2. y \in Nat BY <2>1, <3>1
    <3> HIDE DEF y
    <3>3. Mod(y, M) \in 0..(M - 1) BY <2>3, <3>2, ModIs
    <3>4. Mod(y, M) \in Nat BY <2>3, <3>3
    <3> QED BY <3>4 DEF y
  <2> QED BY <2>2, <2>4, <2>5
<1>8. 0 \in T
  <2>1. 0 + 1 = 1 OBVIOUS
  <2> HIDE DEF M
  <2> QED BY <1>5, <2>1
<1>9. ASSUME NEW m \in Nat, m \in T PROVE m + 1 \in T
  <2> SUFFICES ASSUME (m + 1) + 1 <= k
               PROVE  /\ size[(m + 1) + 1] \in Nat
                      /\ Mod(size[(m + 1) + 1], M) = Mod(exact[(m + 1) + 1], M)
    OBVIOUS
  <2>1. size[m + 1] \in Nat /\ Mod(size[m + 1], M) = Mod(exact[m + 1], M) BY <1>9
  <2>2. size[(m + 1) + 1] \in Nat /\ size[(m + 1) + 1] = Mod(exact[(m + 1) + 1], M) BY <1>7, <2>1
  <2>3. exact[(m + 1) + 1] \in Nat
    <3>1. (m + 1) + 1 \in 1..k OBVIOUS
    <3> QED BY <1>2, <3>1
  <2> DEFINE y == exact[(m + 1) + 1]
  <2>4. y \in Nat BY <2>3
  <2> HIDE DEF y
  <2>5. Mod(Mod(y, M), M) = Mod(y, M)
    <3>1. M \in Nat /\ M >= 1 BY <1>1
    <3> HIDE DEF M
    <3>2. Mod(y, M) \in 0..(M - 1) BY <2>4, <3>1, ModIs
    <3>3. Mod(y, M) \in Nat /\ Mod(y, M) < M BY <3>1, <3>2
    <3> QED BY <3>1, <3>3, ModIs
  <2> QED BY <2>2, <2>5 DEF y
<1>10. T = Nat
  <2>1. \A m \in Nat : m \in T => m + 1 \in T BY <1>9
  <2> HIDE DEF T
  <2>2. T \in SUBSET Nat BY DEF T
  <2> QED BY <1>8, <2>1, <2>2, SetInduction
<1>11. CASE k = 1 BY <1>2, <1>4, <1>5, <1>11 DEF SizeIn
<1>12. CASE k # 1
  <2> DEFINE m == k - 2
  <2>1. m \in Nat /\ (m + 1) + 1 = k /\ m + 1 <= k BY <1>12
  <2> HIDE DEF m
  <2>2. m \in T BY <1>10, <2>1
  <2>3. size[m + 1] \in Nat /\ Mod(size[m + 1], M) = Mod(exact[m + 1], M) BY <2>1, <2>2
  <2>4. (m + 1) + 1 <= k BY <2>1
  <2>5. size[(m + 1) + 1] = Mod(exact[(m + 1) + 1], M) BY <1>7, <2>1, <2>3, <2>4
  <2> QED BY <1>2, <1>4, <1>12, <2>1, <2>5 DEF SizeIn, Mod
<1> QED BY <1>11, <1>12

LEMMA SizeInIs ==
  ASSUME NEW b \in Seq(Octet), NEW i \in 1..Len(b), NEW k \in 1..(OctetBits - 1),
         Heads(b[i], k), i + k - 1 <= Len(b)
  PROVE  /\ SizeIn(b, i, k) \in Nat /\ SizeIn(b, i, k) < Capacity(k)
         /\ DeclaredSize(b, i, k) < 2^SizeBits => SizeIn(b, i, k) = DeclaredSize(b, i, k)
<1> DEFINE d == DeclaredSize(b, i, k)
           M == 2^SizeBits
           c == Capacity(k)
           r == Mod(d, M)
<1>1. d \in Nat /\ d < c BY DeclaredIsExact
<1>2. M \in Nat /\ M >= 1
  <2>1. SizeBits \in Nat BY CodecAssumption
  <2> QED BY <2>1, TwoPowers
<1>3. SizeIn(b, i, k) = IF k = 1 THEN d ELSE r BY DEF SizeIn, Mod
<1>6. c \in Nat
  <2>1. OctetBits \in Nat BY Widths
  <2> DEFINE e == OctetBits - 1 - k
             g == k - 1
             h == g * OctetBits
  <2>2. e \in Nat /\ g \in Nat BY <2>1
  <2>3. h \in Nat
    <3> HIDE DEF g
    <3> QED BY <2>1, <2>2
  <2>4. c = 2^(e + h) BY DEF Capacity
  <2> HIDE DEF e, h, c
  <2>5. e + h \in Nat BY <2>2, <2>3
  <2> QED BY <2>4, <2>5, TwoPowers
<1> HIDE DEF d, M, c
<1>4. r \in 0..(M - 1) /\ r <= d /\ (d < M => r = d) BY <1>1, <1>2, ModIs
<1>5. r \in Nat BY <1>2, <1>4
<1> HIDE DEF r
<1>7. SizeIn(b, i, k) \in Nat /\ SizeIn(b, i, k) <= d /\ (d < M => SizeIn(b, i, k) = d)
  BY <1>1, <1>3, <1>4, <1>5
<1> QED BY <1>1, <1>6, <1>7 DEF d, M, c

LEMMA SizeIs ==
  ASSUME blob \in Seq(Octet), NEW i \in 1..Len(blob), NEW k \in 1..(OctetBits - 1),
         Heads(blob[i], k), i + k - 1 <= Len(blob)
  PROVE  SizeAt(i) \in Nat /\ SizeAt(i) < Capacity(k)
BY SizesWrap, SizeInIs

-----------------------------------------------------------------------------
(* Trees.                                                                  *)
Leaves == [atom : Seq(Octet)]
Joined(N) == [{"left", "right"} -> N]

LEMMA NodesUnroll ==
  /\ Nodes[0] = Leaves
  /\ \A h \in Nat : Nodes[h + 1] = Leaves \cup Joined(Nodes[h])
<1> DEFINE Body(f, h) == Leaves \cup IF h = 0 THEN {} ELSE Joined(f[h - 1])
           Upto(f, m) == f = [h \in 0..m |-> Body(f, h)]
           Rec(f) == f = [h \in Nat |-> Body(f, h)]
           T == {m \in Nat : \E f : Upto(f, m)}
<1>1. 0 \in T
  <2> DEFINE f == [h \in 0..0 |-> Leaves]
  <2>1. \A h \in 0..0 : h = 0 OBVIOUS
  <2>2. \A h \in 0..0 : Body(f, h) = Leaves BY <2>1
  <2>3. f = [h \in 0..0 |-> Body(f, h)]
    <3> HIDE DEF Body
    <3> QED BY <2>2
  <2> QED BY <2>3
<1>2. ASSUME NEW m \in Nat, m \in T PROVE m + 1 \in T
  <2>1. PICK f : Upto(f, m) BY <1>2
  <2> DEFINE g == [h \in 0..(m + 1) |-> IF h <= m THEN f[h] ELSE Leaves \cup Joined(f[m])]
  <2>2. \A h \in 0..m : g[h] = f[h] /\ f[h] = Body(f, h)
    <3>1. \A h \in 0..m : f[h] = Body(f, h) 
      <4> HIDE DEF Body
      <4> QED BY <2>1
    <3> QED BY <3>1
  <2>3. g[m + 1] = Leaves \cup Joined(f[m]) OBVIOUS
  <2>4. DOMAIN g = 0..(m + 1) /\ g = [h \in 0..(m + 1) |-> g[h]] OBVIOUS
  <2> HIDE DEF g
  <2>5. \A h \in 0..(m + 1) : g[h] = Body(g, h)
    <3> SUFFICES ASSUME NEW h \in 0..(m + 1) PROVE g[h] = Body(g, h) OBVIOUS
    <3>1. CASE h = m + 1
      <4>1. h # 0 /\ h - 1 = m /\ m \in 0..m /\ g[m] = f[m] BY <2>2, <3>1
      <4> QED BY <2>3, <3>1, <4>1
    <3>2. CASE h # m + 1 /\ h # 0
      <4>1. h \in 0..m /\ h - 1 \in 0..m BY <3>2
      <4>2. g[h - 1] = f[h - 1] /\ g[h] = f[h] /\ f[h] = Body(f, h) BY <2>2, <4>1
      <4> QED BY <4>2
    <3>3. CASE h = 0
      <4>1. h \in 0..m BY <3>3
      <4> QED BY <2>2, <3>3, <4>1
    <3> QED BY <3>1, <3>2, <3>3
  <2>6. Upto(g, m + 1)
    <3> HIDE DEF Body
    <3> QED BY <2>4, <2>5
  <2> QED BY <2>6
<1>3. T = Nat
  <2>1. \A m \in Nat : m \in T => m + 1 \in T BY <1>2
  <2> HIDE DEF T
  <2>2. T \in SUBSET Nat BY DEF T
  <2> QED BY <1>1, <2>1, <2>2, SetInduction
<1> DEFINE F(m) == CHOOSE f : Upto(f, m)
<1>4. \A m \in Nat : \A h \in 0..m : F(m)[h] = Body(F(m), h)
  <2> SUFFICES ASSUME NEW m \in Nat PROVE \A h \in 0..m : F(m)[h] = Body(F(m), h) OBVIOUS
  <2>1. m \in T BY <1>3
  <2>2. Upto(F(m), m)
    <3> HIDE DEF Upto
    <3> QED BY <2>1
  <2> HIDE DEF Body, F
  <2> QED BY <2>2
<1> HIDE DEF F
<1>5. ASSUME NEW m \in Nat, NEW l \in Nat PROVE \A h \in Nat : h <= m /\ h <= l => F(m)[h] = F(l)[h]
  <2> DEFINE U == {h \in Nat : h <= m /\ h <= l => F(m)[h] = F(l)[h]}
  <2>1. 0 \in U
    <3>1. 0 \in 0..m /\ 0 \in 0..l OBVIOUS
    <3> QED BY <1>4, <3>1
  <2>2. ASSUME NEW h \in Nat, h \in U PROVE h + 1 \in U
    <3> SUFFICES ASSUME h + 1 <= m, h + 1 <= l PROVE F(m)[h + 1] = F(l)[h + 1] OBVIOUS
    <3>1. h + 1 \in 0..m /\ h + 1 \in 0..l /\ h + 1 # 0 /\ (h + 1) - 1 = h OBVIOUS
    <3>2. F(m)[h] = F(l)[h] BY <2>2
    <3>3. F(m)[h + 1] = Leaves \cup Joined(F(m)[h]) BY <1>4, <3>1
    <3>4. F(l)[h + 1] = Leaves \cup Joined(F(l)[h]) BY <1>4, <3>1
    <3> QED BY <3>2, <3>3, <3>4
  <2>3. U = Nat
    <3>1. \A h \in Nat : h \in U => h + 1 \in U BY <2>2
    <3> HIDE DEF U
    <3>2. U \in SUBSET Nat BY DEF U
    <3> QED BY <2>1, <3>1, <3>2, SetInduction
  <2> QED BY <2>3
<1> DEFINE all == [h \in Nat |-> F(h)[h]]
<1>6. Rec(all)
  <2>1. \A h \in Nat : all[h] = Body(all, h)
    <3> SUFFICES ASSUME NEW h \in Nat PROVE all[h] = Body(all, h) OBVIOUS
    <3>1. all[h] = Body(F(h), h) BY <1>4
    <3>2. CASE h = 0 BY <3>1, <3>2
    <3>3. CASE h # 0
      <4>1. h - 1 \in Nat /\ h - 1 <= h BY <3>3
      <4>2. all[h - 1] = F(h - 1)[h - 1] BY <4>1
      <4>3. F(h - 1)[h - 1] = F(h)[h - 1] BY <1>5, <4>1
      <4> QED BY <3>1, <3>3, <4>2, <4>3
    <3> QED BY <3>2, <3>3
  <2>2. all = [h \in Nat |-> all[h]] OBVIOUS
  <2> HIDE DEF all, Body
  <2> QED BY <2>1, <2>2
<1>7. Nodes = CHOOSE f : Rec(f) BY DEF Nodes, Leaves, Joined
<1>8. Rec(Nodes)
  <2> HIDE DEF Rec
  <2> QED BY <1>6, <1>7
<1>9. \A h \in Nat : Nodes[h] = Body(Nodes, h)
  <2> HIDE DEF Body
  <2> QED BY <1>8
<1>10. \A h \in Nat : Nodes[h + 1] = Leaves \cup Joined(Nodes[h])
  <2> SUFFICES ASSUME NEW h \in Nat PROVE Nodes[h + 1] = Leaves \cup Joined(Nodes[h]) OBVIOUS
  <2>1. h + 1 \in Nat /\ h + 1 # 0 /\ (h + 1) - 1 = h OBVIOUS
  <2> QED BY <1>9, <2>1
<1> QED BY <1>9, <1>10

LEMMA LeafFields ==
  ASSUME NEW s PROVE ~isPair(Leaf(s)) /\ Leaf(s).atom = s
BY DEF Leaf, isPair

LEMMA PairFields ==
  ASSUME NEW l, NEW r PROVE isPair(Pair(l, r)) /\ Pair(l, r).left = l /\ Pair(l, r).right = r
BY DEF Pair, isPair

LEMMA LeafIsNode ==
  ASSUME NEW s \in Seq(Octet), NEW h \in Nat PROVE Leaf(s) \in Nodes[h]
<1>1. Leaf(s) \in Leaves BY DEF Leaf, Leaves
<1>2. CASE h = 0 BY <1>1, <1>2, NodesUnroll
<1>3. CASE h # 0
  <2>1. h - 1 \in Nat /\ (h - 1) + 1 = h BY <1>3
  <2>2. Nodes[h] = Leaves \cup Joined(Nodes[h - 1]) BY <2>1, NodesUnroll
  <2> QED BY <1>1, <2>2
<1> QED BY <1>2, <1>3

LEMMA PairIsNode ==
  ASSUME NEW h \in Nat, NEW l \in Nodes[h], NEW r \in Nodes[h]
  PROVE  Pair(l, r) \in Nodes[h + 1]
<1>1. Pair(l, r) \in Joined(Nodes[h]) BY DEF Pair, Joined
<1> QED BY <1>1, NodesUnroll

(* A node is an atom or the pair of two lower nodes.                       *)
LEMMA NodeCases ==
  ASSUME NEW h \in Nat, NEW n \in Nodes[h]
  PROVE  IF isPair(n)
           THEN /\ h - 1 \in Nat /\ n.left \in Nodes[h - 1] /\ n.right \in Nodes[h - 1]
                /\ n = Pair(n.left, n.right)
           ELSE n.atom \in Seq(Octet) /\ n = Leaf(n.atom)
<1>1. ASSUME n \in Leaves PROVE ~isPair(n) /\ n.atom \in Seq(Octet) /\ n = Leaf(n.atom)
  BY <1>1 DEF Leaves, isPair, Leaf
<1>2. CASE h = 0 BY <1>1, <1>2, NodesUnroll
<1>3. CASE h # 0
  <2>1. h - 1 \in Nat /\ (h - 1) + 1 = h BY <1>3
  <2>2. n \in Leaves \/ n \in Joined(Nodes[h - 1]) BY <2>1, NodesUnroll
  <2>3. ASSUME n \in Joined(Nodes[h - 1])
        PROVE  /\ isPair(n) /\ n.left \in Nodes[h - 1] /\ n.right \in Nodes[h - 1]
               /\ n = Pair(n.left, n.right)
    BY <2>3 DEF Joined, isPair, Pair
  <2> QED BY <1>1, <2>1, <2>2, <2>3
<1> QED BY <1>2, <1>3

LEMMA NodesGrow ==
  ASSUME NEW h \in Nat PROVE Nodes[h] \subseteq Nodes[h + 1]
<1> DEFINE T == {k \in Nat : Nodes[k] \subseteq Nodes[k + 1]}
<1>1. 0 \in T
  <2>1. Nodes[0] = Leaves /\ Nodes[0 + 1] = Leaves \cup Joined(Nodes[0]) BY NodesUnroll
  <2> QED BY <2>1
<1>2. ASSUME NEW k \in Nat, k \in T PROVE k + 1 \in T
  <2>1. /\ Nodes[k + 1] = Leaves \cup Joined(Nodes[k])
        /\ Nodes[(k + 1) + 1] = Leaves \cup Joined(Nodes[k + 1])
    BY NodesUnroll
  <2>2. Nodes[k] \subseteq Nodes[k + 1] BY <1>2
  <2>3. Joined(Nodes[k]) \subseteq Joined(Nodes[k + 1]) BY <2>2 DEF Joined
  <2>4. Nodes[k + 1] \subseteq Nodes[(k + 1) + 1] BY <2>1, <2>3
  <2> QED BY <2>4
<1>3. T = Nat
  <2>1. \A k \in Nat : k \in T => k + 1 \in T BY <1>2
  <2> HIDE DEF T
  <2>2. T \in SUBSET Nat BY DEF T
  <2> QED BY <1>1, <2>1, <2>2, SetInduction
<1> QED BY <1>3

LEMMA NodesMonotone ==
  ASSUME NEW h \in Nat, NEW m \in Nat, h <= m PROVE Nodes[h] \subseteq Nodes[m]
<1> DEFINE T == {k \in Nat : Nodes[h] \subseteq Nodes[h + k]}
<1>1. 0 \in T OBVIOUS
<1>2. ASSUME NEW k \in Nat, k \in T PROVE k + 1 \in T
  <2>1. h + k \in Nat /\ h + (k + 1) = (h + k) + 1 OBVIOUS
  <2>2. Nodes[h + k] \subseteq Nodes[(h + k) + 1] BY <2>1, NodesGrow
  <2>3. Nodes[h] \subseteq Nodes[h + (k + 1)] BY <1>2, <2>1, <2>2
  <2> QED BY <2>3
<1>3. T = Nat
  <2>1. \A k \in Nat : k \in T => k + 1 \in T BY <1>2
  <2> HIDE DEF T
  <2>2. T \in SUBSET Nat BY DEF T
  <2> QED BY <1>1, <2>1, <2>2, SetInduction
<1>4. m - h \in Nat /\ h + (m - h) = m OBVIOUS
<1>5. m - h \in T BY <1>3, <1>4
<1> QED BY <1>4, <1>5

LEMMA NodeParts ==
  ASSUME NEW n \in Node
  PROVE  IF isPair(n)
           THEN n.left \in Node /\ n.right \in Node /\ n = Pair(n.left, n.right)
           ELSE n.atom \in Seq(Octet) /\ n = Leaf(n.atom)
<1>1. MaxBlob \in Nat BY CodecAssumption
<1>2. CASE isPair(n)
  <2>1. /\ MaxBlob - 1 \in Nat /\ n = Pair(n.left, n.right)
        /\ n.left \in Nodes[MaxBlob - 1] /\ n.right \in Nodes[MaxBlob - 1]
    BY <1>1, <1>2, NodeCases DEF Node
  <2>2. Nodes[MaxBlob - 1] \subseteq Nodes[MaxBlob] BY <1>1, <2>1, NodesMonotone
  <2> QED BY <1>2, <2>1, <2>2 DEF Node
<1>3. CASE ~isPair(n) BY <1>1, <1>3, NodeCases DEF Node
<1> QED BY <1>2, <1>3

(* Induction: T is the set of the trees that have the property.            *)
LEMMA TreeInduction ==
  ASSUME NEW T, \A n \in Node : ~isPair(n) => n \in T,
         \A n \in Node : isPair(n) /\ n.left \in T /\ n.right \in T => n \in T
  PROVE  \A n \in Node : n \in T
<1>0. MaxBlob \in Nat BY CodecAssumption
<1> DEFINE U == {k \in Nat : k <= MaxBlob => Nodes[k] \subseteq T}
<1>1. ASSUME NEW k \in Nat, k <= MaxBlob, NEW n \in Nodes[k], ~isPair(n) PROVE n \in T
  <2>1. Nodes[k] \subseteq Node BY <1>0, <1>1, NodesMonotone DEF Node
  <2> QED BY <1>1, <2>1
<1>2. 0 \in U
  <2>1. \A n \in Nodes[0] : ~isPair(n) BY NodeCases
  <2> QED BY <1>1, <2>1
<1>3. ASSUME NEW k \in Nat, k \in U PROVE k + 1 \in U
  <2> SUFFICES ASSUME k + 1 <= MaxBlob, NEW n \in Nodes[k + 1] PROVE n \in T OBVIOUS
  <2>1. k + 1 \in Nat /\ (k + 1) - 1 = k OBVIOUS
  <2>2. CASE ~isPair(n) BY <1>1, <2>1, <2>2
  <2>3. CASE isPair(n)
    <3>1. n.left \in Nodes[k] /\ n.right \in Nodes[k] BY <2>1, <2>3, NodeCases
    <3>2. Nodes[k] \subseteq T BY <1>0, <1>3
    <3>3. Nodes[k + 1] \subseteq Node BY <1>0, NodesMonotone DEF Node
    <3> QED BY <2>3, <3>1, <3>2, <3>3
  <2> QED BY <2>2, <2>3
<1>4. U = Nat
  <2>1. \A k \in Nat : k \in U => k + 1 \in U BY <1>3
  <2> HIDE DEF U
  <2>2. U \in SUBSET Nat BY DEF U
  <2> QED BY <1>2, <2>1, <2>2, SetInduction
<1>5. MaxBlob \in U BY <1>0, <1>4
<1> QED BY <1>0, <1>5 DEF Node

-----------------------------------------------------------------------------
(* A function on trees: leaf says what it is of an atom, join what of a    *)
(* pair, given what it is of the two parts.                                *)
Recursive(f, V, leaf, join) ==
  /\ f \in [Node -> V]
  /\ \A n \in Node : ~isPair(n) => f[n] = leaf[n]
  /\ \A n \in Node : isPair(n) => f[n] = join[<<n, f[n.left], f[n.right]>>]

LEMMA TreeRecursion ==
  ASSUME NEW V, NEW leaf \in [Node -> V], NEW join \in [Node \X V \X V -> V]
  PROVE  \E f : Recursive(f, V, leaf, join)
<1> DEFINE Body(f, n) == IF isPair(n) THEN join[<<n, f[n.left], f[n.right]>>] ELSE leaf[n]
           Upto(f, k) == f = [n \in Nodes[k] |-> Body(f, n)]
           T == {k \in Nat : \E f : Upto(f, k)}
<1>1. 0 \in T
  <2> DEFINE f == [n \in Nodes[0] |-> leaf[n]]
  <2>1. \A n \in Nodes[0] : ~isPair(n) BY NodeCases
  <2>2. \A n \in Nodes[0] : leaf[n] = Body(f, n) BY <2>1
  <2>3. f = [n \in Nodes[0] |-> Body(f, n)]
    <3> HIDE DEF Body
    <3> QED BY <2>2
  <2> QED BY <2>3
<1>2. ASSUME NEW k \in Nat, k \in T PROVE k + 1 \in T
  <2>1. PICK f : Upto(f, k) BY <1>2
  <2> DEFINE g == [n \in Nodes[k + 1] |-> IF n \in Nodes[k] THEN f[n] ELSE Body(f, n)]
  <2>2. \A n \in Nodes[k] : f[n] = Body(f, n)
    <3> HIDE DEF Body
    <3> QED BY <2>1
  <2>3. Nodes[k] \subseteq Nodes[k + 1] BY NodesGrow
  <2>4. \A n \in Nodes[k] : g[n] = f[n] BY <2>3
  <2>5. \A n \in Nodes[k + 1] : g[n] = Body(f, n)
    <3> HIDE DEF Body
    <3> QED BY <2>2
  <2>6. g = [n \in Nodes[k + 1] |-> g[n]] OBVIOUS
  <2> HIDE DEF g
  <2>7. \A n \in Nodes[k + 1] : g[n] = Body(g, n)
    <3> SUFFICES ASSUME NEW n \in Nodes[k + 1] PROVE g[n] = Body(g, n) OBVIOUS
    <3>1. CASE ~isPair(n) BY <2>5, <3>1
    <3>2. CASE isPair(n)
      <4>1. k + 1 \in Nat /\ (k + 1) - 1 = k OBVIOUS
      <4>2. n.left \in Nodes[k] /\ n.right \in Nodes[k] BY <3>2, <4>1, NodeCases
      <4> QED BY <2>4, <2>5, <3>2, <4>2
    <3> QED BY <3>1, <3>2
  <2>8. Upto(g, k + 1)
    <3> HIDE DEF Body
    <3> QED BY <2>6, <2>7
  <2> QED BY <2>8
<1>3. T = Nat
  <2>1. \A k \in Nat : k \in T => k + 1 \in T BY <1>2
  <2> HIDE DEF T
  <2>2. T \in SUBSET Nat BY DEF T
  <2> QED BY <1>1, <2>1, <2>2, SetInduction
<1>4. MaxBlob \in T BY <1>3, CodecAssumption
<1>5. PICK f : Upto(f, MaxBlob) BY <1>4
<1>6. /\ DOMAIN f = Node /\ f = [n \in Node |-> f[n]]
      /\ \A n \in Node : f[n] = Body(f, n)
  <2> HIDE DEF Body
  <2> QED BY <1>5 DEF Node
<1>7. \A n \in Node : f[n] \in V
  <2> DEFINE U == {n \in Node : f[n] \in V}
  <2>1. \A n \in Node : ~isPair(n) => n \in U BY <1>6
  <2>2. ASSUME NEW n \in Node, isPair(n), n.left \in U, n.right \in U PROVE n \in U
    <3>1. f[n] = join[<<n, f[n.left], f[n.right]>>] BY <1>6, <2>2
    <3>2. <<n, f[n.left], f[n.right]>> \in Node \X V \X V BY <2>2
    <3> QED BY <3>1, <3>2
  <2> HIDE DEF U
  <2>3. \A n \in Node : n \in U BY <2>1, <2>2, TreeInduction
  <2> QED BY <2>3 DEF U
<1>8. f \in [Node -> V]
  <2> HIDE DEF Body
  <2> QED BY <1>6, <1>7
<1> QED BY <1>6, <1>8 DEF Recursive

LEMMA StackNeededUnrolls ==
  ASSUME NEW n \in Node
  PROVE  /\ StackNeeded[n] \in Nat /\ StackNeeded[n] >= 1
         /\ ~isPair(n) => StackNeeded[n] = 1
         /\ isPair(n) => /\ StackNeeded[n] >= StackNeeded[n.left] + 2
                         /\ StackNeeded[n] >= StackNeeded[n.right] + 1
                         /\ \/ StackNeeded[n] = StackNeeded[n.left] + 2
                            \/ StackNeeded[n] = StackNeeded[n.right] + 1
<1> DEFINE Greater(l, r) == IF l + 2 > r + 1 THEN l + 2 ELSE r + 1
           leaf == [m \in Node |-> 1]
           join == [x \in Node \X Nat \X Nat |-> Greater(x[2], x[3])]
           Body(f, m) ==
             IF ~isPair(m) THEN 1
             ELSE LET l == f[m.left] + 2
                      r == f[m.right] + 1
                  IN  IF l > r THEN l ELSE r
           Rec(f) == f = [m \in Node |-> Body(f, m)]
<1>1. /\ leaf \in [Node -> Nat] /\ \A m \in Node : leaf[m] = 1
      /\ join \in [Node \X Nat \X Nat -> Nat]
      /\ \A m \in Node : \A l, r \in Nat : join[<<m, l, r>>] = Greater(l, r)
  OBVIOUS
<1> HIDE DEF leaf, join
<1>2. PICK f : Recursive(f, Nat, leaf, join) BY <1>1, TreeRecursion
<1>3. Rec(f)
  <2>1. ASSUME NEW m \in Node PROVE f[m] = Body(f, m)
    <3>1. CASE isPair(m)
      <4>1. f[m] = join[<<m, f[m.left], f[m.right]>>] BY <1>2, <3>1 DEF Recursive
      <4>2. f[m.left] \in Nat /\ f[m.right] \in Nat BY <1>2, <3>1, NodeParts DEF Recursive
      <4>3. join[<<m, f[m.left], f[m.right]>>] = Greater(f[m.left], f[m.right])
        <5> HIDE DEF Greater
        <5> QED BY <1>1, <4>2
      <4> QED BY <3>1, <4>1, <4>2, <4>3
    <3>2. CASE ~isPair(m) BY <1>1, <1>2, <3>2 DEF Recursive
    <3> QED BY <3>1, <3>2
  <2>2. f = [m \in Node |-> f[m]] BY <1>2 DEF Recursive
  <2> HIDE DEF Body
  <2> QED BY <2>1, <2>2
<1>4. Rec(StackNeeded)
  <2>1. StackNeeded = CHOOSE g : Rec(g) BY DEF StackNeeded
  <2> HIDE DEF Rec
  <2> QED BY <1>3, <2>1
<1>5. \A m \in Node : StackNeeded[m] = Body(StackNeeded, m)
  <2> HIDE DEF Body
  <2> QED BY <1>4
<1>6. \A m \in Node : StackNeeded[m] \in Nat /\ StackNeeded[m] >= 1
  <2> DEFINE T == {m \in Node : StackNeeded[m] \in Nat /\ StackNeeded[m] >= 1}
  <2>1. \A m \in Node : ~isPair(m) => m \in T BY <1>5
  <2>2. \A m \in Node : isPair(m) /\ m.left \in T /\ m.right \in T => m \in T BY <1>5
  <2> HIDE DEF T
  <2>3. \A m \in Node : m \in T BY <2>1, <2>2, TreeInduction
  <2> QED BY <2>3 DEF T
<1>7. isPair(n) => n.left \in Node /\ n.right \in Node BY NodeParts
<1> QED BY <1>5, <1>6, <1>7

LEMMA TreeHashUnrolls ==
  ASSUME NEW n \in Node
  PROVE  TreeHash[n] = IF isPair(n) THEN pairHash(TreeHash[n.left], TreeHash[n.right])
                       ELSE atomHash(n.atom)
<1> DEFINE Body(f, m) ==
             IF isPair(m) THEN pairHash(f[m.left], f[m.right]) ELSE atomHash(m.atom)
           Upto(f, k) == f = [m \in Nodes[k] |-> Body(f, m)]
           Rec(f) == f = [m \in Node |-> Body(f, m)]
           T == {k \in Nat : \E f : Upto(f, k)}
<1>1. 0 \in T
  <2> DEFINE f == [m \in Nodes[0] |-> atomHash(m.atom)]
  <2>1. \A m \in Nodes[0] : ~isPair(m) BY NodeCases
  <2>2. \A m \in Nodes[0] : atomHash(m.atom) = Body(f, m) BY <2>1
  <2>3. f = [m \in Nodes[0] |-> Body(f, m)]
    <3> HIDE DEF Body
    <3> QED BY <2>2
  <2> QED BY <2>3
<1>2. ASSUME NEW k \in Nat, k \in T PROVE k + 1 \in T
  <2>1. PICK f : Upto(f, k) BY <1>2
  <2> DEFINE g == [m \in Nodes[k + 1] |-> IF m \in Nodes[k] THEN f[m] ELSE Body(f, m)]
  <2>2. \A m \in Nodes[k] : f[m] = Body(f, m)
    <3> HIDE DEF Body
    <3> QED BY <2>1
  <2>3. Nodes[k] \subseteq Nodes[k + 1] BY NodesGrow
  <2>4. \A m \in Nodes[k] : g[m] = f[m] BY <2>3
  <2>5. \A m \in Nodes[k + 1] : g[m] = Body(f, m)
    <3> HIDE DEF Body
    <3> QED BY <2>2
  <2>6. g = [m \in Nodes[k + 1] |-> g[m]] OBVIOUS
  <2> HIDE DEF g
  <2>7. \A m \in Nodes[k + 1] : g[m] = Body(g, m)
    <3> SUFFICES ASSUME NEW m \in Nodes[k + 1] PROVE g[m] = Body(g, m) OBVIOUS
    <3>1. CASE ~isPair(m) BY <2>5, <3>1
    <3>2. CASE isPair(m)
      <4>1. k + 1 \in Nat /\ (k + 1) - 1 = k OBVIOUS
      <4>2. m.left \in Nodes[k] /\ m.right \in Nodes[k] BY <3>2, <4>1, NodeCases
      <4> QED BY <2>4, <2>5, <3>2, <4>2
    <3> QED BY <3>1, <3>2
  <2>8. Upto(g, k + 1)
    <3> HIDE DEF Body
    <3> QED BY <2>6, <2>7
  <2> QED BY <2>8
<1>3. T = Nat
  <2>1. \A k \in Nat : k \in T => k + 1 \in T BY <1>2
  <2> HIDE DEF T
  <2>2. T \in SUBSET Nat BY DEF T
  <2> QED BY <1>1, <2>1, <2>2, SetInduction
<1>4. \E f : Rec(f)
  <2>1. MaxBlob \in T BY <1>3, CodecAssumption
  <2> QED BY <2>1 DEF Node
<1>5. Rec(TreeHash)
  <2>1. TreeHash = CHOOSE g : Rec(g) BY DEF TreeHash
  <2> HIDE DEF Rec
  <2> QED BY <1>4, <2>1
<1>6. TreeHash[n] = Body(TreeHash, n)
  <2> HIDE DEF Body
  <2> QED BY <1>5
<1> QED BY <1>6

-----------------------------------------------------------------------------
(* A machine with a stack of things to do, the next one last: from a it    *)
(* comes to b when all are done, each by a step on what the machine is at. *)
Runs(X, todo, Step, a, b) ==
  \E m \in [0..Len(todo) -> X] :
    /\ m[Len(todo)] = a /\ m[0] = b
    /\ \A k \in 1..Len(todo) : <<k, todo[k], m[k], m[k - 1]>> \in Step

LEMMA NothingToDo ==
  ASSUME NEW X, NEW Step, NEW a, NEW b
  PROVE  Runs(X, << >>, Step, a, b) <=> a \in X /\ a = b
<1>1. Len(<< >>) = 0 OBVIOUS
<1>2. ASSUME a \in X, a = b PROVE Runs(X, << >>, Step, a, b)
  <2> DEFINE m == [k \in 0..0 |-> a]
  <2>1. m \in [0..0 -> X] /\ m[0] = a /\ 1..0 = {} BY <1>2
  <2> HIDE DEF m
  <2> QED BY <1>1, <1>2, <2>1 DEF Runs
<1>3. ASSUME Runs(X, << >>, Step, a, b) PROVE a \in X /\ a = b
  BY <1>1, <1>3 DEF Runs
<1> QED BY <1>2, <1>3

(* The last thing to do is done first.                                     *)
RunsOn(X, todo, x, Step, a, b) ==
  \E c \in X : <<Len(todo) + 1, x, a, c>> \in Step /\ Runs(X, todo, Step, c, b)

LEMMA OneMoreToDo ==
  ASSUME NEW S, NEW todo \in Seq(S), NEW x \in S, NEW X, NEW Step, NEW a, NEW b
  PROVE  Runs(X, Append(todo, x), Step, a, b) <=> a \in X /\ RunsOn(X, todo, x, Step, a, b)
<1> DEFINE more == Append(todo, x)
           n == Len(todo)
<1>1. /\ n \in Nat /\ Len(more) = n + 1 /\ more[n + 1] = x
      /\ \A k \in 1..n : more[k] = todo[k]
  OBVIOUS
<1> HIDE DEF more, n
<1>2. ASSUME Runs(X, more, Step, a, b)
      PROVE  a \in X /\ \E c \in X : <<n + 1, x, a, c>> \in Step /\ Runs(X, todo, Step, c, b)
  <2>1. PICK m \in [0..(n + 1) -> X] :
          /\ m[n + 1] = a /\ m[0] = b
          /\ \A k \in 1..(n + 1) : <<k, more[k], m[k], m[k - 1]>> \in Step
    BY <1>1, <1>2 DEF Runs
  <2> DEFINE l == [k \in 0..n |-> m[k]]
  <2>2. l \in [0..n -> X] /\ \A k \in 0..n : l[k] = m[k] BY <1>1
  <2> HIDE DEF l
  <2>3. \A k \in 1..n : <<k, todo[k], l[k], l[k - 1]>> \in Step
    <3> SUFFICES ASSUME NEW k \in 1..n PROVE <<k, todo[k], l[k], l[k - 1]>> \in Step OBVIOUS
    <3>1. k \in 0..n /\ k - 1 \in 0..n /\ k \in 1..(n + 1) BY <1>1
    <3>2. l[k] = m[k] /\ l[k - 1] = m[k - 1] /\ more[k] = todo[k] BY <1>1, <2>2, <3>1
    <3> QED BY <2>1, <3>1, <3>2
  <2>4. l[n] = m[n] /\ l[0] = b /\ m[n] \in X /\ a \in X
    <3>1. n \in 0..n /\ 0 \in 0..n /\ n \in 0..(n + 1) /\ n + 1 \in 0..(n + 1) BY <1>1
    <3> QED BY <2>1, <2>2, <3>1
  <2>5. Runs(X, todo, Step, m[n], b) BY <2>2, <2>3, <2>4 DEF Runs, n
  <2>6. <<n + 1, x, a, m[n]>> \in Step
    <3>1. n + 1 \in 1..(n + 1) /\ (n + 1) - 1 = n BY <1>1
    <3> QED BY <1>1, <2>1, <3>1
  <2> QED BY <2>4, <2>5, <2>6
<1>3. ASSUME a \in X, NEW c \in X, <<n + 1, x, a, c>> \in Step, Runs(X, todo, Step, c, b)
      PROVE  Runs(X, more, Step, a, b)
  <2>1. PICK l \in [0..n -> X] :
          /\ l[n] = c /\ l[0] = b
          /\ \A k \in 1..n : <<k, todo[k], l[k], l[k - 1]>> \in Step
    BY <1>3 DEF Runs, n
  <2> DEFINE m == [k \in 0..(n + 1) |-> IF k = n + 1 THEN a ELSE l[k]]
  <2>2. m \in [0..(n + 1) -> X] /\ m[n + 1] = a /\ \A k \in 0..n : m[k] = l[k]
    BY <1>1, <1>3
  <2> HIDE DEF m
  <2>3. ASSUME NEW k \in 1..(n + 1) PROVE <<k, more[k], m[k], m[k - 1]>> \in Step
    <3>1. CASE k = n + 1
      <4>1. k - 1 = n /\ n \in 0..n BY <1>1, <3>1
      <4>2. m[k - 1] = c BY <2>1, <2>2, <4>1
      <4> QED BY <1>1, <1>3, <2>2, <3>1, <4>2
    <3>2. CASE k # n + 1
      <4>1. k \in 1..n /\ k \in 0..n /\ k - 1 \in 0..n BY <1>1, <3>2
      <4>2. m[k] = l[k] /\ m[k - 1] = l[k - 1] /\ more[k] = todo[k] BY <1>1, <2>2, <4>1
      <4> QED BY <2>1, <4>1, <4>2
    <3> QED BY <3>1, <3>2
  <2>4. m[0] = b
    <3>1. 0 \in 0..n BY <1>1
    <3> QED BY <2>1, <2>2, <3>1
  <2> QED BY <1>1, <2>2, <2>3, <2>4 DEF Runs
<1> QED BY <1>2, <1>3 DEF more, n, RunsOn

(* The stacks.                                                             *)
LEMMA PoppedStack ==
  ASSUME NEW S, NEW s \in Seq(S), s # << >>
  PROVE  /\ Popped(s) \in Seq(S) /\ Len(s) \in Nat \ {0} /\ Len(Popped(s)) = Len(s) - 1
         /\ \A k \in 1..(Len(s) - 1) : Popped(s)[k] = s[k]
         /\ Top(s) = s[Len(s)] /\ s[Len(s)] \in S
<1>1. Len(s) \in Nat \ {0} BY EmptySeq
<1>2. \A i \in 1..(Len(s) - 1) : s[i] \in S BY <1>1, ElementOfSeq
<1>3. s[Len(s)] \in S BY <1>1, ElementOfSeq
<1> DEFINE m == Len(s) - 1
<1>4. 1 \in Int /\ m \in Int /\ \A i \in 1..m : s[i] \in S BY <1>1, <1>2
<1> HIDE DEF m
<1>5. /\ SubSeq(s, 1, m) \in Seq(S) /\ Len(SubSeq(s, 1, m)) = (IF 1 <= m THEN m - 1 + 1 ELSE 0)
      /\ \A i \in 1..(m - 1 + 1) : SubSeq(s, 1, m)[i] = s[1 + i - 1]
  BY <1>4, SubSeqProperties
<1>6. m \in Nat /\ m = Len(s) - 1 BY <1>1 DEF m
<1>7. /\ Popped(s) \in Seq(S) /\ Len(Popped(s)) = m
      /\ \A i \in 1..m : Popped(s)[i] = s[i]
  <2>1. Popped(s) = SubSeq(s, 1, m) BY DEF Popped, m
  <2>2. Len(SubSeq(s, 1, m)) = m
    <3>1. CASE m = 0 BY <1>5, <3>1
    <3>2. CASE m # 0 BY <1>5, <1>6, <3>2
    <3> QED BY <3>1, <3>2
  <2>3. \A i \in 1..m : SubSeq(s, 1, m)[i] = s[i]
    <3>1. \A i \in 1..m : i \in 1..(m - 1 + 1) /\ 1 + i - 1 = i BY <1>6
    <3> QED BY <1>5, <3>1
  <2> QED BY <1>5, <2>1, <2>2, <2>3
<1> QED BY <1>1, <1>3, <1>6, <1>7 DEF Top

LEMMA PushedThree ==
  ASSUME NEW S, NEW s \in Seq(S), NEW a \in S, NEW b \in S, NEW c \in S
  PROVE  /\ s \o <<a, b, c>> \in Seq(S) /\ Len(s) \in Nat /\ Len(s \o <<a, b, c>>) = Len(s) + 3
         /\ \A k \in 1..Len(s) : (s \o <<a, b, c>>)[k] = s[k]
         /\ (s \o <<a, b, c>>)[Len(s) + 1] = a
         /\ (s \o <<a, b, c>>)[Len(s) + 2] = b
         /\ (s \o <<a, b, c>>)[Len(s) + 3] = c
<1>1. <<a, b, c>> \in Seq(S) /\ Len(<<a, b, c>>) = 3
      /\ <<a, b, c>>[1] = a /\ <<a, b, c>>[2] = b /\ <<a, b, c>>[3] = c
  OBVIOUS
<1> DEFINE t == <<a, b, c>>
<1> HIDE DEF t
<1>2. /\ s \o t \in Seq(S) /\ Len(s) \in Nat /\ Len(s \o t) = Len(s) + Len(t)
      /\ \A i \in 1..(Len(s) + Len(t)) : (s \o t)[i] = IF i <= Len(s) THEN s[i] ELSE t[i - Len(s)]
  BY <1>1, ConcatProperties, LenProperties DEF t
<1>3. Len(t) = 3 /\ t[1] = a /\ t[2] = b /\ t[3] = c BY <1>1 DEF t
<1>4. /\ s \o t \in Seq(S) /\ Len(s) \in Nat /\ Len(s \o t) = Len(s) + 3
      /\ \A k \in 1..Len(s) : (s \o t)[k] = s[k]
      /\ (s \o t)[Len(s) + 1] = a /\ (s \o t)[Len(s) + 2] = b /\ (s \o t)[Len(s) + 3] = c
  BY <1>2, <1>3
<1> QED BY <1>4 DEF t

LEMMA StackTop ==
  ASSUME NEW S, NEW s \in Seq(S), s # << >>
  PROVE  s = Append(Popped(s), Top(s)) /\ Popped(s) \in Seq(S) /\ Top(s) \in S
         /\ Len(s) = Len(Popped(s)) + 1 /\ Len(Popped(s)) \in Nat
<1>1. /\ Popped(s) \in Seq(S) /\ Len(s) \in Nat \ {0} /\ Len(Popped(s)) = Len(s) - 1
      /\ \A k \in 1..(Len(s) - 1) : Popped(s)[k] = s[k]
      /\ Top(s) = s[Len(s)] /\ s[Len(s)] \in S
  BY PoppedStack
<1> DEFINE t == Append(Popped(s), Top(s))
<1>2. /\ t \in Seq(S) /\ Len(t) = Len(s)
      /\ \A k \in 1..(Len(s) - 1) : t[k] = s[k]
      /\ t[Len(s)] = s[Len(s)]
  BY <1>1
<1> HIDE DEF t
<1>3. \A k \in 1..Len(s) : t[k] = s[k] BY <1>1, <1>2
<1>4. t = s BY <1>2, <1>3, SeqEqual
<1> QED BY <1>1, <1>4 DEF t

LEMMA PushedAre ==
  ASSUME NEW S, NEW s \in Seq(S), NEW x \in S, NEW y \in S, NEW z \in S
  PROVE  /\ s \o <<x, y, z>> = Append(Append(Append(s, x), y), z)
         /\ s \o <<x, y>> = Append(Append(s, x), y)
         /\ s \o << >> = s
OBVIOUS

-----------------------------------------------------------------------------
(* What is encoded from each of n places on: an atom, or the pair of two   *)
(* nodes of which the second starts where the first ends.                  *)
Joins(f, i) == UNION {{<<Pair(l[1], r[1]), r[2]>> : r \in f[l[2]]} : l \in f[i + 1]}

From(f, i, n, pairs, atom) == IF i > n THEN {} ELSE IF i \in pairs THEN Joins(f, i) ELSE atom[i]

Encodes(f, n, pairs, atom) == f = [i \in 1..(n + 1) |-> From(f, i, n, pairs, atom)]

GoesOn(f, m, n) == \A i \in m..(n + 1) : \A x \in f[i] : x[2] \in (i + 1)..(n + 1)

AtomsGoOn(atom, n) == \A i \in 1..n : \A x \in atom[i] : x[2] \in (i + 1)..(n + 1)

LEMMA JoinsAre ==
  ASSUME NEW f, NEW i, NEW x
  PROVE  x \in Joins(f, i) <=>
           \E l \in f[i + 1] : \E r \in f[l[2]] : x = <<Pair(l[1], r[1]), r[2]>>
BY DEF Joins

LEMMA JoinsAgree ==
  ASSUME NEW n \in Nat, NEW i \in 1..n, NEW f, NEW g,
         \A j \in (i + 1)..(n + 1) : f[j] = g[j], GoesOn(f, i + 1, n)
  PROVE  Joins(f, i) = Joins(g, i)
<1>1. i + 1 \in (i + 1)..(n + 1) OBVIOUS
<1>2. f[i + 1] = g[i + 1] BY <1>1
<1>3. \A l \in f[i + 1] : f[l[2]] = g[l[2]]
  <2> SUFFICES ASSUME NEW l \in f[i + 1] PROVE f[l[2]] = g[l[2]] OBVIOUS
  <2>1. l[2] \in (i + 1 + 1)..(n + 1) BY <1>1 DEF GoesOn
  <2>2. l[2] \in (i + 1)..(n + 1) BY <2>1
  <2> QED BY <2>2
<1>4. \A x : x \in Joins(f, i) <=> x \in Joins(g, i) BY <1>2, <1>3, JoinsAre
<1>5. \A x \in Joins(f, i) : x \in Joins(g, i) BY <1>4
<1>6. \A x \in Joins(g, i) : x \in Joins(f, i) BY <1>4
<1> QED BY <1>5, <1>6

LEMMA JoinsGoOn ==
  ASSUME NEW n \in Nat, NEW i \in 1..n, NEW f, GoesOn(f, i + 1, n), NEW x \in Joins(f, i)
  PROVE  x[2] \in (i + 1)..(n + 1)
<1>1. PICK l \in f[i + 1] : \E r \in f[l[2]] : x = <<Pair(l[1], r[1]), r[2]>> BY JoinsAre
<1>2. PICK r \in f[l[2]] : x = <<Pair(l[1], r[1]), r[2]>> BY <1>1
<1>3. l[2] \in (i + 2)..(n + 1)
  <2>1. i + 1 \in (i + 1)..(n + 1) /\ i + 1 + 1 = i + 2 OBVIOUS
  <2> QED BY <2>1 DEF GoesOn
<1>4. l[2] \in (i + 1)..(n + 1) BY <1>3
<1>5. r[2] \in (l[2] + 1)..(n + 1) BY <1>4 DEF GoesOn
<1> QED BY <1>2, <1>3, <1>5

LEMMA SomethingEncodes ==
  ASSUME NEW n \in Nat, NEW pairs, NEW atom, AtomsGoOn(atom, n)
  PROVE  \E f : Encodes(f, n, pairs, atom)
<1> DEFINE Upto(f, m) == f = [i \in m..(n + 1) |-> From(f, i, n, pairs, atom)]
           T == {k \in Nat : k <= n => \E f : Upto(f, n + 1 - k) /\ GoesOn(f, n + 1 - k, n)}
<1>1. T \in SUBSET Nat OBVIOUS
<1>2. 0 \in T
  <2> DEFINE f == [i \in (n + 1)..(n + 1) |-> {}]
  <2>1. \A i \in (n + 1)..(n + 1) : From(f, i, n, pairs, atom) = {} BY DEF From
  <2>2. f = [i \in (n + 1)..(n + 1) |-> From(f, i, n, pairs, atom)]
    <3> HIDE DEF f
    <3>1. f = [i \in (n + 1)..(n + 1) |-> {}] BY DEF f
    <3> QED BY <2>1, <3>1
  <2>3. GoesOn(f, n + 1, n) BY DEF GoesOn
  <2>4. n + 1 - 0 = n + 1 OBVIOUS
  <2> HIDE DEF f
  <2> QED BY <2>2, <2>3, <2>4
<1>3. ASSUME NEW k \in Nat, k \in T PROVE k + 1 \in T
  <2> SUFFICES ASSUME k + 1 <= n
               PROVE  \E g : Upto(g, n + 1 - (k + 1)) /\ GoesOn(g, n + 1 - (k + 1), n)
    OBVIOUS
  <2> DEFINE i == n - k
  <2>1. i \in 1..n /\ n + 1 - k = i + 1 /\ n + 1 - (k + 1) = i /\ k <= n OBVIOUS
  <2>2. PICK f : Upto(f, i + 1) /\ GoesOn(f, i + 1, n) BY <1>3, <2>1
  <2> HIDE DEF T, i
  <2> DEFINE g == [j \in i..(n + 1) |-> IF j = i THEN From(f, i, n, pairs, atom) ELSE f[j]]
  <2>3. /\ g[i] = From(f, i, n, pairs, atom)
        /\ \A j \in (i + 1)..(n + 1) : g[j] = f[j] /\ f[j] = From(f, j, n, pairs, atom)
    <3>1. i \in i..(n + 1) /\ \A j \in (i + 1)..(n + 1) : j \in i..(n + 1) /\ j # i BY <2>1
    <3>2. g[i] = From(f, i, n, pairs, atom) /\ \A j \in (i + 1)..(n + 1) : g[j] = f[j]
      BY <3>1
    <3>3. \A j \in (i + 1)..(n + 1) : f[j] = From(f, j, n, pairs, atom) BY <2>2
    <3> QED BY <3>2, <3>3
  <2>4. \A j \in i..(n + 1) : g[j] = From(f, j, n, pairs, atom)
    <3> SUFFICES ASSUME NEW j \in i..(n + 1) PROVE g[j] = From(f, j, n, pairs, atom) OBVIOUS
    <3>1. j = i \/ j \in (i + 1)..(n + 1) BY <2>1
    <3> QED BY <2>3, <3>1
  <2>5. \A j \in i..n : GoesOn(f, j + 1, n)
    <3>1. \A j \in i..n : \A h \in (j + 1)..(n + 1) : h \in (i + 1)..(n + 1) BY <2>1
    <3> QED BY <2>2, <3>1 DEF GoesOn
  <2>6. g = [j \in i..(n + 1) |-> g[j]] OBVIOUS
  <2> HIDE DEF g
  <2>7. \A j \in i..(n + 1) : From(f, j, n, pairs, atom) = From(g, j, n, pairs, atom)
    <3> SUFFICES ASSUME NEW j \in i..(n + 1)
                 PROVE  From(f, j, n, pairs, atom) = From(g, j, n, pairs, atom)
      OBVIOUS
    <3>1. CASE j > n BY <3>1 DEF From
    <3>2. CASE ~(j > n)
      <4>1. j \in 1..n /\ j \in i..n BY <2>1, <3>2
      <4>2. \A h \in (j + 1)..(n + 1) : f[h] = g[h]
        <5>1. \A h \in (j + 1)..(n + 1) : h \in (i + 1)..(n + 1) BY <2>1, <4>1
        <5> QED BY <2>3, <5>1
      <4>3. GoesOn(f, j + 1, n) BY <2>5, <4>1
      <4>4. Joins(f, j) = Joins(g, j) BY <4>1, <4>2, <4>3, JoinsAgree
      <4> QED BY <4>4 DEF From
    <3> QED BY <3>1, <3>2
  <2>8. Upto(g, i) BY <2>4, <2>6, <2>7
  <2>9. GoesOn(g, i, n)
    <3> SUFFICES ASSUME NEW j \in i..(n + 1), NEW x \in g[j] PROVE x[2] \in (j + 1)..(n + 1)
      BY DEF GoesOn
    <3>1. x \in From(f, j, n, pairs, atom) BY <2>4
    <3>2. j \in 1..n /\ j \in i..n /\ (x \in Joins(f, j) \/ x \in atom[j]) BY <2>1, <3>1 DEF From
    <3>3. CASE x \in Joins(f, j) BY <2>5, <3>2, <3>3, JoinsGoOn
    <3>4. CASE x \in atom[j] BY <3>2, <3>4 DEF AtomsGoOn
    <3> QED BY <3>2, <3>3, <3>4
  <2> QED BY <2>1, <2>8, <2>9
<1>4. n \in T
  <2> HIDE DEF T
  <2> QED BY <1>1, <1>2, <1>3, SetInduction
<1>5. PICK f : Upto(f, n + 1 - n) BY <1>4
<1>6. n + 1 - n = 1 OBVIOUS
<1> QED BY <1>5, <1>6 DEF Encodes

LEMMA EncodesUnrolls ==
  ASSUME NEW n \in Nat, NEW pairs, NEW atom, NEW f, Encodes(f, n, pairs, atom)
  PROVE  /\ f[n + 1] = {}
         /\ \A i \in 1..n : f[i] = IF i \in pairs THEN Joins(f, i) ELSE atom[i]
<1>1. \A i \in 1..(n + 1) : f[i] = From(f, i, n, pairs, atom) BY DEF Encodes
<1>2. n + 1 \in 1..(n + 1) /\ n + 1 > n /\ \A i \in 1..n : i \in 1..(n + 1) /\ ~(i > n) OBVIOUS
<1> QED BY <1>1, <1>2 DEF From

(* Induction on what is encoded from a place on.                           *)
HoldsOfAtoms(n, pairs, atom, T) ==
  \A i \in 1..n : \A x \in atom[i] : i \notin pairs => <<i, x>> \in T

HoldsOfPairs(n, pairs, f, T) ==
  \A i \in 1..n : \A l \in f[i + 1] : \A r \in f[l[2]] :
    /\ i \in pairs /\ <<i + 1, l>> \in T /\ <<l[2], r>> \in T
    /\ l[2] \in (i + 2)..n /\ r[2] \in (l[2] + 1)..(n + 1)
    => <<i, <<Pair(l[1], r[1]), r[2]>>>> \in T

LEMMA PlaceInduction ==
  ASSUME NEW n \in Nat, NEW pairs, NEW atom, NEW f, Encodes(f, n, pairs, atom), AtomsGoOn(atom, n),
         NEW T, HoldsOfAtoms(n, pairs, atom, T), HoldsOfPairs(n, pairs, f, T)
  PROVE  \A i \in 1..n : \A x \in f[i] : <<i, x>> \in T /\ x[2] \in (i + 1)..(n + 1)
<1> DEFINE Good(i) == \A x \in f[i] : <<i, x>> \in T /\ x[2] \in (i + 1)..(n + 1)
           S == {k \in Nat : \A i \in 1..n : i > n - k => Good(i)}
<1>1. f[n + 1] = {} /\ \A i \in 1..n : f[i] = IF i \in pairs THEN Joins(f, i) ELSE atom[i]
  BY EncodesUnrolls
<1>2. S \in SUBSET Nat OBVIOUS
<1>3. 0 \in S
  <2>1. \A i \in 1..n : ~(i > n - 0) OBVIOUS
  <2> QED BY <2>1
<1>4. ASSUME NEW k \in Nat, k \in S PROVE k + 1 \in S
  <2> SUFFICES ASSUME NEW i \in 1..n, i > n - (k + 1) PROVE Good(i) OBVIOUS
  <2>1. \A j \in 1..n : j > i => Good(j)
    <3>1. \A j \in 1..n : j > i => j > n - k OBVIOUS
    <3> QED BY <1>4, <3>1
  <2> HIDE DEF S
  <2> SUFFICES ASSUME NEW x \in f[i] PROVE <<i, x>> \in T /\ x[2] \in (i + 1)..(n + 1) OBVIOUS
  <2>2. CASE i \notin pairs
    <3>1. x \in atom[i] BY <1>1, <2>2
    <3> QED BY <2>2, <3>1 DEF AtomsGoOn, HoldsOfAtoms
  <2>3. CASE i \in pairs
    <3>1. x \in Joins(f, i) BY <1>1, <2>3
    <3>2. PICK l \in f[i + 1] : \E r \in f[l[2]] : x = <<Pair(l[1], r[1]), r[2]>>
      BY <3>1, JoinsAre
    <3>3. PICK r \in f[l[2]] : x = <<Pair(l[1], r[1]), r[2]>> BY <3>2
    <3>4. i + 1 \in 1..n /\ i + 1 > i
      <4>1. i + 1 # n + 1 BY <1>1, <3>2
      <4> QED BY <4>1
    <3>5. <<i + 1, l>> \in T /\ l[2] \in (i + 2)..(n + 1)
      <4>1. Good(i + 1) BY <2>1, <3>4
      <4>2. l[2] \in (i + 1 + 1)..(n + 1) BY <4>1
      <4> QED BY <4>1, <4>2
    <3>6. l[2] \in 1..n /\ l[2] > i /\ l[2] \in (i + 2)..n
      <4>1. l[2] # n + 1 BY <1>1, <3>3
      <4> QED BY <3>5, <4>1
    <3>7. <<l[2], r>> \in T /\ r[2] \in (l[2] + 1)..(n + 1)
      <4>1. Good(l[2]) BY <2>1, <3>6
      <4> QED BY <4>1
    <3>8. <<i, <<Pair(l[1], r[1]), r[2]>>>> \in T BY <2>3, <3>2, <3>3, <3>5, <3>6, <3>7 DEF HoldsOfPairs
    <3>9. x[2] = r[2] BY <3>3
    <3> QED BY <3>3, <3>6, <3>7, <3>8, <3>9
  <2> QED BY <2>2, <2>3
<1>5. n \in S
  <2> HIDE DEF S
  <2> QED BY <1>2, <1>3, <1>4, SetInduction
<1>6. \A i \in 1..n : i > n - n OBVIOUS
<1> QED BY <1>5, <1>6

LEMMA JoinedAt ==
  ASSUME NEW n \in Nat, NEW pairs, NEW atom, NEW f, Encodes(f, n, pairs, atom),
         NEW i \in 1..n, i \in pairs, NEW l \in f[i + 1], NEW r \in f[l[2]]
  PROVE  <<Pair(l[1], r[1]), r[2]>> \in f[i]
<1>1. f[i] = Joins(f, i) BY EncodesUnrolls
<1> DEFINE x == <<Pair(l[1], r[1]), r[2]>>
<1>2. x \in Joins(f, i) BY JoinsAre
<1> HIDE DEF x
<1> QED BY <1>1, <1>2 DEF x

LEMMA JoinedFrom ==
  ASSUME NEW n \in Nat, NEW pairs, NEW atom, NEW f, Encodes(f, n, pairs, atom),
         NEW i \in 1..n, i \in pairs, NEW x \in f[i]
  PROVE  \E l \in f[i + 1] : \E r \in f[l[2]] : x = <<Pair(l[1], r[1]), r[2]>>
<1>1. f[i] = Joins(f, i) BY EncodesUnrolls
<1> QED BY <1>1, JoinsAre

Places(f, n) == (1..n) \X UNION {f[i] : i \in 1..n}

LEMMA PlacesAre ==
  ASSUME NEW f, NEW n, NEW i \in 1..n, NEW x \in f[i] PROVE <<i, x>> \in Places(f, n)
BY DEF Places

(* At most one node is encoded from a place on, and no higher than the     *)
(* places left allow.                                                      *)
LEMMA OneNodeEach ==
  ASSUME NEW n \in Nat, NEW pairs, NEW atom, NEW f, Encodes(f, n, pairs, atom), AtomsGoOn(atom, n),
         \A i \in 1..n : \A x \in atom[i] : \A y \in atom[i] : y = x
  PROVE  \A i \in 1..n : \A x \in f[i] : \A y \in f[i] : y = x
<1> DEFINE T == {z \in Places(f, n) : \A y \in f[z[1]] : y = z[2]}
<1>1. ASSUME NEW i \in 1..n, NEW x \in f[i], \A y \in f[i] : y = x PROVE <<i, x>> \in T
  BY <1>1, PlacesAre
<1>2. ASSUME NEW i, NEW x, <<i, x>> \in T PROVE \A y \in f[i] : y = x
  BY <1>2
<1> HIDE DEF T
<1>3. ASSUME NEW i \in 1..n, NEW x \in atom[i], i \notin pairs PROVE <<i, x>> \in T
  <2>1. f[i] = atom[i] BY <1>3, EncodesUnrolls
  <2> QED BY <1>1, <2>1
<1>4. ASSUME NEW i \in 1..n, NEW l \in f[i + 1], NEW r \in f[l[2]], i \in pairs,
             <<i + 1, l>> \in T, <<l[2], r>> \in T
      PROVE  <<i, <<Pair(l[1], r[1]), r[2]>>>> \in T
  <2> DEFINE x == <<Pair(l[1], r[1]), r[2]>>
  <2>1. x \in f[i] BY <1>4, JoinedAt
  <2>2. \A y \in f[i + 1] : y = l BY <1>2, <1>4
  <2>3. \A y \in f[l[2]] : y = r BY <1>2, <1>4
  <2>4. ASSUME NEW y \in f[i] PROVE y = x
    <3>1. PICK h \in f[i + 1] : \E s \in f[h[2]] : y = <<Pair(h[1], s[1]), s[2]>>
      BY <1>4, JoinedFrom
    <3>2. PICK s \in f[h[2]] : y = <<Pair(h[1], s[1]), s[2]>> BY <3>1
    <3>3. h = l BY <2>2
    <3>4. s = r BY <2>3, <3>2, <3>3
    <3> QED BY <3>2, <3>3, <3>4
  <2> HIDE DEF x
  <2>5. <<i, x>> \in T BY <1>1, <2>1, <2>4
  <2> QED BY <2>5 DEF x
<1>5. HoldsOfAtoms(n, pairs, atom, T) /\ HoldsOfPairs(n, pairs, f, T)
  BY <1>3, <1>4 DEF HoldsOfAtoms, HoldsOfPairs
<1>6. \A i \in 1..n : \A x \in f[i] : <<i, x>> \in T BY <1>5, PlaceInduction
<1> QED BY <1>2, <1>6

LEMMA HeightsFit ==
  ASSUME NEW n \in Nat, NEW pairs, NEW atom, NEW f, Encodes(f, n, pairs, atom), AtomsGoOn(atom, n),
         \A i \in 1..n : \A x \in atom[i] : \E s \in Seq(Octet) : x[1] = Leaf(s)
  PROVE  \A i \in 1..n : \A x \in f[i] : x[1] \in Nodes[n - i]
<1> DEFINE T == {z \in Places(f, n) : z[2][1] \in Nodes[n - z[1]]}
<1>1. ASSUME NEW i \in 1..n, NEW x \in f[i], x[1] \in Nodes[n - i] PROVE <<i, x>> \in T
  BY <1>1, PlacesAre
<1>2. ASSUME NEW i, NEW x, <<i, x>> \in T PROVE x[1] \in Nodes[n - i]
  BY <1>2
<1> HIDE DEF T
<1>3. ASSUME NEW i \in 1..n, NEW x \in atom[i], i \notin pairs PROVE <<i, x>> \in T
  <2>1. f[i] = atom[i] BY <1>3, EncodesUnrolls
  <2>2. PICK s \in Seq(Octet) : x[1] = Leaf(s) BY <1>3
  <2>3. n - i \in Nat OBVIOUS
  <2> DEFINE h == n - i
  <2> HIDE DEF h
  <2>4. Leaf(s) \in Nodes[h] BY <2>3, LeafIsNode DEF h
  <2> QED BY <1>1, <2>1, <2>2, <2>4 DEF h
<1>4. ASSUME NEW i \in 1..n, NEW l \in f[i + 1], NEW r \in f[l[2]], i \in pairs,
             <<i + 1, l>> \in T, <<l[2], r>> \in T, l[2] \in (i + 2)..n
      PROVE  <<i, <<Pair(l[1], r[1]), r[2]>>>> \in T
  <2> DEFINE x == <<Pair(l[1], r[1]), r[2]>>
             h == n - (i + 1)
             g == n - l[2]
             a == l[1]
             b == r[1]
  <2>1. x \in f[i] BY <1>4, JoinedAt
  <2>2. a \in Nodes[h] /\ b \in Nodes[g] BY <1>2, <1>4
  <2>3. h \in Nat /\ g \in Nat /\ g <= h /\ n - i = h + 1 BY <1>4
  <2>4. x[1] = Pair(a, b) OBVIOUS
  <2> HIDE DEF h, g, x, a, b
  <2>5. Nodes[g] \subseteq Nodes[h] BY <2>3, NodesMonotone
  <2>6. b \in Nodes[h] BY <2>2, <2>5
  <2>7. Pair(a, b) \in Nodes[h + 1] BY <2>2, <2>3, <2>6, PairIsNode
  <2>8. <<i, x>> \in T BY <1>1, <2>1, <2>3, <2>4, <2>7
  <2> QED BY <2>8 DEF x
<1>5. HoldsOfAtoms(n, pairs, atom, T) /\ HoldsOfPairs(n, pairs, f, T)
  BY <1>3, <1>4 DEF HoldsOfAtoms, HoldsOfPairs
<1>6. \A i \in 1..n : \A x \in f[i] : <<i, x>> \in T BY <1>5, PlaceInduction
<1> QED BY <1>2, <1>6

LEMMA EncodedGoesOn ==
  ASSUME NEW n \in Nat, NEW pairs, NEW atom, NEW f, Encodes(f, n, pairs, atom), AtomsGoOn(atom, n)
  PROVE  GoesOn(f, 1, n)
<1>1. HoldsOfAtoms(n, pairs, atom, Places(f, n)) /\ HoldsOfPairs(n, pairs, f, Places(f, n))
  <2>1. ASSUME NEW i \in 1..n, NEW x \in atom[i], i \notin pairs PROVE <<i, x>> \in Places(f, n)
    <3>1. f[i] = atom[i] BY <2>1, EncodesUnrolls
    <3> QED BY <3>1, PlacesAre
  <2>2. ASSUME NEW i \in 1..n, NEW l \in f[i + 1], NEW r \in f[l[2]], i \in pairs
        PROVE  <<i, <<Pair(l[1], r[1]), r[2]>>>> \in Places(f, n)
    BY <2>2, JoinedAt, PlacesAre
  <2> QED BY <2>1, <2>2 DEF HoldsOfAtoms, HoldsOfPairs
<1>2. \A i \in 1..n : \A x \in f[i] : x[2] \in (i + 1)..(n + 1) BY <1>1, PlaceInduction
<1>3. f[n + 1] = {} BY EncodesUnrolls
<1> QED BY <1>2, <1>3 DEF GoesOn

-----------------------------------------------------------------------------
(* What the parser reads from each place of a blob on.                     *)
ConsPlaces(b) == {i \in 1..Len(b) : b[i] = ConsOctet}

LastOf(b, i) == i + HeaderOf(b[i]) - 1 + SizeIn(b, i, HeaderOf(b[i]))

AtomsIn(b) ==
  [i \in 1..Len(b) |->
     IF HeaderOf(b[i]) = 0 THEN {<<Leaf(<<b[i]>>), i + 1>>}
     ELSE IF HeaderOf(b[i]) > LongHeader \/ i + HeaderOf(b[i]) - 1 > Len(b) THEN {}
     ELSE IF LastOf(b, i) > Len(b) THEN {}
     ELSE {<<Leaf(SubSeq(b, i + HeaderOf(b[i]), LastOf(b, i))), LastOf(b, i) + 1>>}]

Reading(b) == CHOOSE f : Encodes(f, Len(b), ConsPlaces(b), AtomsIn(b))

LEMMA OctetsOf ==
  ASSUME NEW b \in Seq(Octet), NEW i \in 1..Len(b)
  PROVE  /\ b[i] \in Octet /\ Len(b) \in Nat /\ HeaderOf(b[i]) \in 0..OctetBits
         /\ Heads(b[i], HeaderOf(b[i]))
<1>1. b[i] \in Octet /\ Len(b) \in Nat OBVIOUS
<1> QED BY <1>1, HeaderHeads DEF Heads

LEMMA ConsHeads ==
  ASSUME NEW o \in Octet
  PROVE  HeaderOf(o) = OctetBits <=> o = ConsOctet
<1>1. OctetBits \in Nat /\ Octet = 0..(2^OctetBits - 1) /\ 2^OctetBits \in Nat
      /\ ConsOctet = 2^OctetBits - 1
  BY Widths
<1>2. FirstOf(OctetBits) = ConsOctet
  <2>1. OctetBits \in 0..OctetBits BY <1>1
  <2> QED BY <2>1, FirstOctets
<1>3. ASSUME o = ConsOctet PROVE HeaderOf(o) = OctetBits
  <2>1. Heads(o, OctetBits) BY <1>1, <1>2, <1>3 DEF Heads
  <2> QED BY <2>1, HeaderHeads, OneHeader
<1>4. ASSUME HeaderOf(o) = OctetBits PROVE o = ConsOctet
  <2>1. ConsOctet <= o BY <1>2, <1>4, HeaderHeads DEF Heads
  <2> QED BY <1>1, <2>1
<1> QED BY <1>3, <1>4

(* An atom's octets.                                                       *)
IsSpan(b, i, first, last) ==
  /\ last \in i..Len(b) /\ first \in i..(last + 1)
  /\ SubSeq(b, first, last) \in Seq(Octet)
  /\ Len(SubSeq(b, first, last)) = last - first + 1

LEMMA SpanIs ==
  ASSUME NEW b \in Seq(Octet), NEW i \in 1..Len(b), NEW last \in i..Len(b), NEW first \in i..(last + 1)
  PROVE  IsSpan(b, i, first, last)
<1>1. Len(b) \in Nat /\ \A j \in 1..Len(b) : b[j] \in Octet OBVIOUS
<1>2. first \in Int /\ last \in Int /\ \A j \in first..last : b[j] \in Octet
  <2> SUFFICES ASSUME NEW j \in first..last PROVE b[j] \in Octet BY <1>1
  <2>1. j \in 1..Len(b) BY <1>1
  <2> QED BY <1>1, <2>1
<1>3. /\ SubSeq(b, first, last) \in Seq(Octet)
      /\ Len(SubSeq(b, first, last)) = (IF first <= last THEN last - first + 1 ELSE 0)
  BY <1>2, SubSeqProperties
<1>4. Len(SubSeq(b, first, last)) = last - first + 1 BY <1>1, <1>3
<1> QED BY <1>3, <1>4 DEF IsSpan

LEMMA SingleOctet ==
  ASSUME NEW b \in Seq(Octet), NEW i \in 1..Len(b)
  PROVE  SubSeq(b, i, i) = <<b[i]>>
<1>1. IsSpan(b, i, i, i) BY SpanIs
<1>2. SubSeq(b, i, i) \in Seq(Octet) /\ Len(SubSeq(b, i, i)) = 1 BY <1>1 DEF IsSpan
<1>3. SubSeq(b, i, i)[1] = b[i]
  <2>1. i \in Int /\ \A j \in i..i : b[j] \in Octet OBVIOUS
  <2>2. \A j \in 1..(i - i + 1) : SubSeq(b, i, i)[j] = b[i + j - 1] BY <2>1, SubSeqProperties
  <2>3. 1 \in 1..(i - i + 1) /\ i + 1 - 1 = i OBVIOUS
  <2> QED BY <2>2, <2>3
<1> DEFINE s == SubSeq(b, i, i)
           o == b[i]
<1>4. s \in Seq(Octet) /\ Len(s) = 1 /\ s[1] = o /\ o \in Octet BY <1>2, <1>3
<1> HIDE DEF s, o
<1>5. s = <<o>> BY <1>4
<1> QED BY <1>5 DEF s, o

LEMMA AtomsAre ==
  ASSUME NEW b \in Seq(Octet), NEW i \in 1..Len(b), NEW x \in AtomsIn(b)[i]
  PROVE  LET k == HeaderOf(b[i])
             first == i + k
             last == IF k = 0 THEN i ELSE LastOf(b, i)
             start == IF k = 0 THEN i ELSE first
         IN  /\ x = <<Leaf(SubSeq(b, start, last)), last + 1>>
             /\ IsSpan(b, i, start, last)
             /\ k # 0 => k \in 1..LongHeader /\ i + k - 1 <= Len(b)
<1> DEFINE k == HeaderOf(b[i])
<1>1. k \in 0..OctetBits /\ Heads(b[i], k) /\ Len(b) \in Nat BY OctetsOf
<1>2. CASE k = 0
  <2>1. x = <<Leaf(<<b[i]>>), i + 1>> BY <1>2 DEF AtomsIn
  <2>2. IsSpan(b, i, i, i) BY SpanIs
  <2> QED BY <1>2, <2>1, <2>2, SingleOctet
<1>3. CASE k # 0
  <2>1. /\ ~(k > LongHeader \/ i + k - 1 > Len(b)) /\ ~(LastOf(b, i) > Len(b))
        /\ x = <<Leaf(SubSeq(b, i + k, LastOf(b, i))), LastOf(b, i) + 1>>
    BY <1>3 DEF AtomsIn
  <2>2. k \in 1..(OctetBits - 1) /\ k \in 1..LongHeader /\ i + k - 1 <= Len(b)
    <3>1. k <= LongHeader /\ i + k - 1 <= Len(b)
      <4>1. k \in Int /\ LongHeader \in Int /\ i + k - 1 \in Int /\ Len(b) \in Int BY <1>1, Widths
      <4>2. ~(k > LongHeader) /\ ~(i + k - 1 > Len(b)) BY <2>1
      <4> HIDE DEF k
      <4> QED BY <4>1, <4>2
    <3> HIDE DEF k
    <3> QED BY <1>1, <1>3, <3>1, Widths
  <2>3. SizeIn(b, i, k) \in Nat BY <1>1, <2>2, SizeInIs
  <2>4. LastOf(b, i) = i + k - 1 + SizeIn(b, i, k) BY DEF LastOf
  <2> HIDE DEF k
  <2>5. LastOf(b, i) \in i..Len(b) /\ i + k \in i..(LastOf(b, i) + 1)
    BY <1>1, <2>1, <2>2, <2>3, <2>4
  <2>6. IsSpan(b, i, i + k, LastOf(b, i)) BY <2>5, SpanIs
  <2> QED BY <1>3, <2>1, <2>2, <2>6 DEF k
<1> QED BY <1>2, <1>3

LEMMA AtomsAreWell ==
  ASSUME NEW b \in Seq(Octet)
  PROVE  /\ AtomsGoOn(AtomsIn(b), Len(b))
         /\ \A i \in 1..Len(b) : \A x \in AtomsIn(b)[i] : \A y \in AtomsIn(b)[i] : y = x
         /\ \A i \in 1..Len(b) : \A x \in AtomsIn(b)[i] : \E s \in Seq(Octet) : x[1] = Leaf(s)
<1>1. ASSUME NEW i \in 1..Len(b), NEW x \in AtomsIn(b)[i]
      PROVE  /\ x[2] \in (i + 1)..(Len(b) + 1) /\ \E s \in Seq(Octet) : x[1] = Leaf(s)
             /\ \A y \in AtomsIn(b)[i] : y = x
  <2> DEFINE last == IF HeaderOf(b[i]) = 0 THEN i ELSE LastOf(b, i)
             start == IF HeaderOf(b[i]) = 0 THEN i ELSE i + HeaderOf(b[i])
             z == <<Leaf(SubSeq(b, start, last)), last + 1>>
  <2>1. x = z /\ IsSpan(b, i, start, last) BY AtomsAre
  <2>2. \A y \in AtomsIn(b)[i] : y = z BY AtomsAre
  <2>3. x[1] = Leaf(SubSeq(b, start, last)) /\ x[2] = last + 1 BY <2>1
  <2> HIDE DEF start, last, z
  <2>4. last \in i..Len(b) /\ Len(b) \in Nat /\ SubSeq(b, start, last) \in Seq(Octet)
    BY <2>1 DEF IsSpan
  <2>5. x[2] \in (i + 1)..(Len(b) + 1) BY <2>3, <2>4
  <2>6. \E s \in Seq(Octet) : x[1] = Leaf(s) BY <2>3, <2>4
  <2>7. \A y \in AtomsIn(b)[i] : y = x BY <2>1, <2>2
  <2> QED BY <2>5, <2>6, <2>7
<1> QED BY <1>1 DEF AtomsGoOn

LEMMA ReadingEncodes ==
  ASSUME NEW b \in Seq(Octet)
  PROVE  Encodes(Reading(b), Len(b), ConsPlaces(b), AtomsIn(b))
<1>1. Len(b) \in Nat OBVIOUS
<1>2. \E f : Encodes(f, Len(b), ConsPlaces(b), AtomsIn(b)) BY <1>1, AtomsAreWell, SomethingEncodes
<1> QED BY <1>2 DEF Reading

LEMMA ReadingIs ==
  ASSUME NEW b \in Seq(Octet), NEW i \in 1..Len(b), NEW x \in Reading(b)[i]
  PROVE  /\ x[2] \in (i + 1)..(Len(b) + 1) /\ x[1] \in Nodes[Len(b) - i]
         /\ \A y \in Reading(b)[i] : y = x
<1> DEFINE f == Reading(b)
           n == Len(b)
           atom == AtomsIn(b)
           pairs == ConsPlaces(b)
<1>1. n \in Nat /\ i \in 1..n OBVIOUS
<1>2. Encodes(f, n, pairs, atom) BY ReadingEncodes
<1>3. /\ AtomsGoOn(atom, n)
      /\ \A j \in 1..n : \A z \in atom[j] : \A y \in atom[j] : y = z
      /\ \A j \in 1..n : \A z \in atom[j] : \E s \in Seq(Octet) : z[1] = Leaf(s)
  BY AtomsAreWell
<1> HIDE DEF f, n, atom, pairs
<1>4. \A j \in 1..n : \A z \in f[j] : \A y \in f[j] : y = z BY <1>1, <1>2, <1>3, OneNodeEach
<1>5. \A j \in 1..n : \A z \in f[j] : z[1] \in Nodes[n - j] BY <1>1, <1>2, <1>3, HeightsFit
<1>6. GoesOn(f, 1, n) BY <1>1, <1>2, <1>3, EncodedGoesOn
<1>7. i \in 1..(n + 1) BY <1>1
<1> QED BY <1>1, <1>4, <1>5, <1>6, <1>7 DEF GoesOn, f, n

(* One step of the parser reads what is read from where it stands.         *)
LEMMA AtomAtIs ==
  ASSUME blob \in Seq(Octet), Len(blob) <= MaxBlob, NEW i \in 1..Len(blob)
  PROVE  LET k == HeaderOf(blob[i]) IN
         /\ AtomAt(i) <=> k = 0 \/ (k <= LongHeader /\ i + k - 1 <= Len(blob)
                                                    /\ LastOf(blob, i) <= Len(blob))
         /\ AtomAt(i) => AtomSpan(i) = IF k = 0 THEN <<i, i>> ELSE <<i + k, LastOf(blob, i)>>
<1> DEFINE k == HeaderOf(blob[i])
<1>1. k \in 0..OctetBits /\ Heads(blob[i], k) /\ Len(blob) \in Nat BY OctetsOf
<1>2. MaxBlob \in Nat BY CodecAssumption
<1>3. CASE k = 0
  <2>1. AtomAt(i) BY <1>1, <1>3 DEF AtomAt
  <2>2. AtomSpan(i) = <<i, i>> BY <1>3 DEF AtomSpan
  <2> QED BY <1>3, <2>1, <2>2
<1>4. CASE k # 0
  <2>1. AtomAt(i) <=> /\ k <= LongHeader /\ i + k - 1 <= Len(blob) /\ SizeAt(i) <= MaxBlob
                      /\ i + k - 1 + SizeAt(i) <= Len(blob)
    <3>1. k > 0 BY <1>1, <1>4
    <3> QED BY <3>1 DEF AtomAt
  <2>2. AtomSpan(i) = <<i + k, i + k - 1 + SizeAt(i)>> BY <1>4 DEF AtomSpan
  <2>3. LastOf(blob, i) = i + k - 1 + SizeIn(blob, i, k) BY DEF LastOf
  <2> HIDE DEF k
  <2>4. ASSUME k <= LongHeader, i + k - 1 <= Len(blob)
        PROVE  SizeAt(i) = SizeIn(blob, i, k) /\ SizeIn(blob, i, k) \in Nat
    <3>1. k \in 1..(OctetBits - 1) BY <1>1, <1>4, <2>4, Widths
    <3> QED BY <1>1, <2>4, <3>1, SizesWrap, SizeInIs
  <2>5. AtomAt(i) <=> k <= LongHeader /\ i + k - 1 <= Len(blob) /\ LastOf(blob, i) <= Len(blob)
    <3>1. CASE k <= LongHeader /\ i + k - 1 <= Len(blob)
      <4> DEFINE z == SizeIn(blob, i, k)
      <4>1. SizeAt(i) = z /\ z \in Nat BY <2>4, <3>1
      <4> HIDE DEF z
      <4>2. i + k - 1 + z <= Len(blob) => z <= MaxBlob BY <1>1, <1>2, <1>4, <4>1
      <4> QED BY <2>1, <2>3, <3>1, <4>1, <4>2 DEF z
    <3>2. CASE ~(k <= LongHeader /\ i + k - 1 <= Len(blob)) BY <2>1, <3>2
    <3> QED BY <3>1, <3>2
  <2>6. AtomAt(i) => AtomSpan(i) = <<i + k, LastOf(blob, i)>> BY <2>2, <2>3, <2>4, <2>5
  <2> QED BY <1>4, <2>5, <2>6 DEF k
<1> QED BY <1>3, <1>4

LEMMA ParserReads ==
  ASSUME blob \in Seq(Octet), Len(blob) <= MaxBlob, NEW i \in 1..Len(blob)
  PROVE  LET first == AtomSpan(i)[1]
             last == AtomSpan(i)[2]
         IN  /\ blob[i] = ConsOctet =>
                  ~AtomAt(i) /\ i \in ConsPlaces(blob)
             /\ AtomAt(i) => /\ Reading(blob)[i] = {<<Leaf(SubSeq(blob, first, last)), last + 1>>}
                             /\ IsSpan(blob, i, first, last)
             /\ ~AtomAt(i) /\ blob[i] # ConsOctet => Reading(blob)[i] = {}
<1> DEFINE k == HeaderOf(blob[i])
<1>1. k \in 0..OctetBits /\ Heads(blob[i], k) /\ Len(blob) \in Nat /\ blob[i] \in Octet BY OctetsOf
<1>2. k = OctetBits <=> blob[i] = ConsOctet BY <1>1, ConsHeads
<1>3. Reading(blob)[i] = IF i \in ConsPlaces(blob) THEN Joins(Reading(blob), i) ELSE AtomsIn(blob)[i]
  <2>1. Encodes(Reading(blob), Len(blob), ConsPlaces(blob), AtomsIn(blob)) BY ReadingEncodes
  <2> QED BY <1>1, <2>1, EncodesUnrolls
<1>4. i \in ConsPlaces(blob) <=> blob[i] = ConsOctet BY DEF ConsPlaces
<1>5. /\ AtomAt(i) <=> k = 0 \/ (k <= LongHeader /\ i + k - 1 <= Len(blob)
                                                 /\ LastOf(blob, i) <= Len(blob))
      /\ AtomAt(i) => AtomSpan(i) = IF k = 0 THEN <<i, i>> ELSE <<i + k, LastOf(blob, i)>>
  BY AtomAtIs
<1>6. AtomsIn(blob)[i] =
        IF k = 0 THEN {<<Leaf(<<blob[i]>>), i + 1>>}
        ELSE IF k > LongHeader \/ i + k - 1 > Len(blob) THEN {}
        ELSE IF LastOf(blob, i) > Len(blob) THEN {}
        ELSE {<<Leaf(SubSeq(blob, i + k, LastOf(blob, i))), LastOf(blob, i) + 1>>}
  BY DEF AtomsIn
<1>7. LastOf(blob, i) \in Int \/ ~(k <= LongHeader /\ i + k - 1 <= Len(blob)) \/ k = 0
  <2> SUFFICES ASSUME k <= LongHeader, i + k - 1 <= Len(blob), k # 0 PROVE LastOf(blob, i) \in Int
    OBVIOUS
  <2>1. LastOf(blob, i) = i + k - 1 + SizeIn(blob, i, k) BY DEF LastOf
  <2> HIDE DEF k
  <2>2. k \in 1..(OctetBits - 1) BY <1>1, Widths
  <2>3. SizeIn(blob, i, k) \in Nat BY <1>1, <2>2, SizeInIs
  <2> QED BY <2>1, <2>2, <2>3, Widths
<1>8. blob[i] = ConsOctet => ~AtomAt(i) /\ i \in ConsPlaces(blob)
  <2> HIDE DEF k
  <2> QED BY <1>1, <1>2, <1>4, <1>5, Widths
<1>9. ASSUME AtomAt(i)
      PROVE  LET first == AtomSpan(i)[1]
                 last == AtomSpan(i)[2]
             IN  /\ Reading(blob)[i] = {<<Leaf(SubSeq(blob, first, last)), last + 1>>}
                 /\ IsSpan(blob, i, first, last)
  <2> DEFINE first == IF k = 0 THEN i ELSE i + k
             last == IF k = 0 THEN i ELSE LastOf(blob, i)
             x == <<Leaf(SubSeq(blob, first, last)), last + 1>>
  <2>1. AtomSpan(i)[1] = first /\ AtomSpan(i)[2] = last BY <1>5, <1>9
  <2>2. Reading(blob)[i] = AtomsIn(blob)[i] BY <1>3, <1>4, <1>8, <1>9
  <2>3. AtomsIn(blob)[i] = {x}
    <3>1. CASE k = 0 BY <1>6, <3>1, SingleOctet
    <3>2. CASE k # 0
      <4>1. ~(k > LongHeader) /\ ~(i + k - 1 > Len(blob)) /\ ~(LastOf(blob, i) > Len(blob))
        <5>1. k <= LongHeader /\ i + k - 1 <= Len(blob) /\ LastOf(blob, i) <= Len(blob)
          BY <1>5, <1>9, <3>2
        <5>2. LastOf(blob, i) \in Int BY <1>7, <3>2, <5>1
        <5> HIDE DEF k
        <5> QED BY <1>1, <5>1, <5>2, Widths
      <4> QED BY <1>6, <3>2, <4>1
    <3> QED BY <3>1, <3>2
  <2>4. x \in AtomsIn(blob)[i] BY <2>3
  <2>5. IsSpan(blob, i, first, last) BY <2>4, AtomsAre
  <2> HIDE DEF first, last
  <2> QED BY <2>1, <2>2, <2>3, <2>5
<1>10. ASSUME ~AtomAt(i), blob[i] # ConsOctet PROVE Reading(blob)[i] = {}
  <2>1. Reading(blob)[i] = AtomsIn(blob)[i] BY <1>3, <1>4, <1>10
  <2>2. k # 0 /\ (k > LongHeader \/ i + k - 1 > Len(blob) \/ LastOf(blob, i) > Len(blob))
    <3>1. k # 0 /\ ~(k <= LongHeader /\ i + k - 1 <= Len(blob) /\ LastOf(blob, i) <= Len(blob))
      BY <1>5, <1>10
    <3> HIDE DEF k
    <3> QED BY <1>1, <1>7, <3>1, Widths
  <2> QED BY <1>6, <2>1, <2>2
<1> QED BY <1>8, <1>9, <1>10

-----------------------------------------------------------------------------
(* Where the operations stood that read the values: the operation at k     *)
(* gives one value; one that joins takes those that k + 2 and k + 1 gave.  *)
Op == {"read", "cons"}

Deepens(k, op, a, c) ==
  IF op = "cons"
    THEN \E s \in Seq(Nat) : a = Append(Append(s, k + 2), k + 1) /\ c = Append(s, k)
    ELSE c = Append(a, k)

DepthStep ==
  {x \in Nat \X Op \X Seq(Nat) \X Seq(Nat) : Deepens(x[1], x[2], x[3], x[4])}

Depths(todo, a) == Runs(Seq(Nat), todo, DepthStep, a, <<1>>)

LEMMA DepthStepIs ==
  ASSUME NEW k \in Nat, NEW op \in Op, NEW a \in Seq(Nat), NEW c \in Seq(Nat)
  PROVE  <<k, op, a, c>> \in DepthStep <=> Deepens(k, op, a, c)
BY DEF DepthStep

LEMMA ReadDepth ==
  ASSUME NEW todo \in Seq(Op), NEW a \in Seq(Nat)
  PROVE  Depths(Append(todo, "read"), a) <=> Depths(todo, Append(a, Len(todo) + 1))
<1> DEFINE k == Len(todo) + 1
           c == Append(a, k)
<1>1. k \in Nat /\ "read" \in Op /\ c \in Seq(Nat) BY DEF Op
<1>2. \A x \in Seq(Nat) : <<k, "read", a, x>> \in DepthStep <=> x = c
  <2> HIDE DEF c
  <2>1. \A x : Deepens(k, "read", a, x) <=> x = c BY DEF Deepens, c
  <2> QED BY <1>1, <2>1, DepthStepIs
<1> HIDE DEF c
<1>3. Depths(Append(todo, "read"), a) <=>
        \E x \in Seq(Nat) : <<k, "read", a, x>> \in DepthStep /\ Depths(todo, x)
  <2> DEFINE X == Seq(Nat)
             op == "read"
             b == <<1>>
  <2>1. a \in X /\ op \in Op BY <1>1
  <2> HIDE DEF X, op, b, k
  <2>2. Runs(X, Append(todo, op), DepthStep, a, b) <=> RunsOn(X, todo, op, DepthStep, a, b)
    BY <2>1, OneMoreToDo
  <2> QED BY <2>2 DEF Depths, RunsOn, X, op, b, k
<1> QED BY <1>1, <1>2, <1>3 DEF c

LEMMA JoinDepth ==
  ASSUME NEW todo \in Seq(Op), NEW a \in Seq(Nat)
  PROVE  LET k == Len(todo) + 1 IN
         Depths(Append(todo, "cons"), a) <=>
           \E s \in Seq(Nat) : a = Append(Append(s, k + 2), k + 1) /\ Depths(todo, Append(s, k))
<1> DEFINE k == Len(todo) + 1
<1>1. k \in Nat /\ "cons" \in Op BY DEF Op
<1>2. \A x \in Seq(Nat) : <<k, "cons", a, x>> \in DepthStep <=>
        \E s \in Seq(Nat) : a = Append(Append(s, k + 2), k + 1) /\ x = Append(s, k)
  <2>1. \A x \in Seq(Nat) : <<k, "cons", a, x>> \in DepthStep <=> Deepens(k, "cons", a, x)
    BY <1>1, DepthStepIs
  <2> QED BY <2>1 DEF Deepens
<1>3. Depths(Append(todo, "cons"), a) <=>
        \E x \in Seq(Nat) : <<k, "cons", a, x>> \in DepthStep /\ Depths(todo, x)
  <2> DEFINE X == Seq(Nat)
             op == "cons"
             b == <<1>>
  <2>1. a \in X /\ op \in Op BY <1>1
  <2> HIDE DEF X, op, b, k
  <2>2. Runs(X, Append(todo, op), DepthStep, a, b) <=> RunsOn(X, todo, op, DepthStep, a, b)
    BY <2>1, OneMoreToDo
  <2> QED BY <2>2 DEF Depths, RunsOn, X, op, b, k
<1>4. \A s \in Seq(Nat) : Append(s, k) \in Seq(Nat) BY <1>1
<1> HIDE DEF k
<1> QED BY <1>2, <1>3, <1>4 DEF k

(* A node that an operation at d read without going beyond the bound.      *)
Placed(d, n) ==
  /\ d \in 1..(2 * MaxDepth) /\ n \in Nodes[2 * MaxDepth - d]
  /\ d - 1 + StackNeeded[n] <= 2 * MaxDepth

LEMMA PlacedIsNode ==
  ASSUME NEW d, NEW n, Placed(d, n) PROVE n \in Node /\ StackNeeded[n] \in Nat
<1>1. MaxBlob \in Nat /\ MaxDepth \in Nat /\ 2 * MaxDepth <= MaxBlob
  BY CodecAssumption, BoundsAssumption
<1>2. d \in 1..(2 * MaxDepth) /\ n \in Nodes[2 * MaxDepth - d] BY DEF Placed
<1>3. 2 * MaxDepth - d \in Nat /\ 2 * MaxDepth - d <= MaxBlob BY <1>1, <1>2
<1>4. Nodes[2 * MaxDepth - d] \subseteq Nodes[MaxBlob]
  <2> DEFINE h == 2 * MaxDepth - d
  <2>1. h \in Nat /\ h <= MaxBlob BY <1>3
  <2> HIDE DEF h
  <2>2. Nodes[h] \subseteq Nodes[MaxBlob] BY <1>1, <2>1, NodesMonotone
  <2> QED BY <2>2 DEF h
<1>5. n \in Node BY <1>2, <1>4 DEF Node
<1> QED BY <1>5, StackNeededUnrolls

LEMMA AtomPlaced ==
  ASSUME NEW d \in 1..(2 * MaxDepth), NEW s \in Seq(Octet) PROVE Placed(d, Leaf(s))
<1>1. MaxBlob \in Nat /\ MaxDepth \in Nat BY CodecAssumption
<1>2. 2 * MaxDepth - d \in Nat BY <1>1
<1>3. Leaf(s) \in Nodes[2 * MaxDepth - d] BY <1>2, LeafIsNode
<1>4. Leaf(s) \in Node BY <1>1, LeafIsNode DEF Node
<1>5. StackNeeded[Leaf(s)] = 1 BY <1>4, LeafFields, StackNeededUnrolls
<1> QED BY <1>1, <1>3, <1>5 DEF Placed

LEMMA PairPlaced ==
  ASSUME NEW d \in Nat \ {0}, NEW l, NEW r, Placed(d + 2, l), Placed(d + 1, r)
  PROVE  Placed(d, Pair(l, r))
<1>1. MaxBlob \in Nat /\ MaxDepth \in Nat /\ 2 * MaxDepth <= MaxBlob
  BY CodecAssumption, BoundsAssumption
<1> DEFINE h == 2 * MaxDepth - (d + 1)
           p == Pair(l, r)
<1>2. /\ d + 2 <= 2 * MaxDepth /\ d \in 1..(2 * MaxDepth)
      /\ l \in Nodes[2 * MaxDepth - (d + 2)] /\ r \in Nodes[h]
      /\ d + 1 + StackNeeded[l] <= 2 * MaxDepth /\ d + StackNeeded[r] <= 2 * MaxDepth
  <2>1. (d + 2) - 1 = d + 1 /\ (d + 1) - 1 = d OBVIOUS
  <2> QED BY <1>1, <2>1 DEF Placed
<1>3. h \in Nat /\ h + 1 = 2 * MaxDepth - d /\ 2 * MaxDepth - (d + 2) \in Nat
      /\ 2 * MaxDepth - (d + 2) <= h /\ h + 1 <= MaxBlob
  BY <1>1, <1>2
<1>4. l \in Nodes[h]
  <2> DEFINE g == 2 * MaxDepth - (d + 2)
  <2>1. g \in Nat /\ g <= h /\ l \in Nodes[g] BY <1>2, <1>3
  <2> HIDE DEF g, h
  <2>2. Nodes[g] \subseteq Nodes[h] BY <1>3, <2>1, NodesMonotone
  <2> QED BY <2>1, <2>2
<1>5. p \in Nodes[h + 1]
  <2> HIDE DEF h
  <2> QED BY <1>2, <1>3, <1>4, PairIsNode
<1>6. p \in Node
  <2> HIDE DEF h, p
  <2>1. Nodes[h + 1] \subseteq Nodes[MaxBlob] BY <1>1, <1>3, NodesMonotone
  <2> QED BY <1>5, <2>1 DEF Node
<1>7. isPair(p) /\ p.left = l /\ p.right = r BY PairFields
<1> HIDE DEF p
<1>8. StackNeeded[l] \in Nat /\ StackNeeded[r] \in Nat BY PlacedIsNode
<1>9. /\ StackNeeded[p] \in Nat
      /\ StackNeeded[p] = StackNeeded[l] + 2 \/ StackNeeded[p] = StackNeeded[r] + 1
  BY <1>6, <1>7, StackNeededUnrolls
<1>10. d - 1 + StackNeeded[p] <= 2 * MaxDepth BY <1>1, <1>2, <1>8, <1>9
<1> HIDE DEF h
<1> QED BY <1>2, <1>3, <1>5, <1>10 DEF Placed, p

-----------------------------------------------------------------------------
(* What the parser has read stands where the operations still to do will   *)
(* look for it, and was read within the bound.                             *)
DepthsAre(D, todo, nodes) ==
  /\ D \in Seq(Nat) /\ Len(D) = Len(nodes) /\ Depths(todo, D)
  /\ \A j \in 1..Len(nodes) : Placed(D[j], nodes[j])

LEMMA TwoOnTop ==
  ASSUME NEW S, NEW s \in Seq(S), Len(s) >= 2
  PROVE  /\ Popped(Popped(s)) \in Seq(S) /\ Top(Popped(s)) \in S /\ Top(s) \in S
         /\ Popped(s) \in Seq(S) /\ Popped(s) # << >>
         /\ s = Append(Append(Popped(Popped(s)), Top(Popped(s))), Top(s))
<1>1. s # << >> OBVIOUS
<1>2. /\ s = Append(Popped(s), Top(s)) /\ Popped(s) \in Seq(S) /\ Top(s) \in S
      /\ Len(Popped(s)) = Len(s) - 1
  BY <1>1, StackTop
<1> DEFINE p == Popped(s)
<1> HIDE DEF p
<1>3. p # << >> /\ p \in Seq(S)
  <2>1. Len(p) >= 1 BY <1>2 DEF p
  <2> QED BY <1>2, <2>1 DEF p
<1>4. p = Append(Popped(p), Top(p)) /\ Popped(p) \in Seq(S) /\ Top(p) \in S BY <1>3, StackTop
<1> QED BY <1>2, <1>3, <1>4 DEF p

(* Appending twice: what is on top and what is below.                      *)
LEMMA TwoAppended ==
  ASSUME NEW S, NEW s \in Seq(S), NEW x \in S, NEW y \in S
  PROVE  LET t == Append(Append(s, x), y) IN
         /\ t \in Seq(S) /\ Len(t) = Len(s) + 2 /\ Len(s) \in Nat
         /\ t[Len(s) + 1] = x /\ t[Len(s) + 2] = y
         /\ \A j \in 1..Len(s) : t[j] = s[j]
OBVIOUS

LEMMA OneAppended ==
  ASSUME NEW S, NEW s \in Seq(S), NEW x \in S
  PROVE  LET t == Append(s, x) IN
         /\ t \in Seq(S) /\ Len(t) = Len(s) + 1 /\ Len(s) \in Nat
         /\ t[Len(s) + 1] = x
         /\ \A j \in 1..Len(s) : t[j] = s[j]
OBVIOUS

LEMMA PlacedAppends ==
  ASSUME NEW D \in Seq(Nat), NEW nodes \in Seq(Node), Len(D) = Len(nodes),
         \A j \in 1..Len(nodes) : Placed(D[j], nodes[j]), NEW d, NEW n, Placed(d, n)
  PROVE  /\ Append(D, d) \in Seq(Nat) /\ Append(nodes, n) \in Seq(Node)
         /\ Len(Append(D, d)) = Len(Append(nodes, n))
         /\ \A j \in 1..Len(Append(nodes, n)) : Placed(Append(D, d)[j], Append(nodes, n)[j])
<1>1. d \in Nat /\ n \in Node
  <2>1. d \in 1..(2 * MaxDepth) /\ MaxDepth \in Nat BY CodecAssumption DEF Placed
  <2> QED BY <2>1, PlacedIsNode
<1> DEFINE E == Append(D, d)
           more == Append(nodes, n)
<1>2. /\ E \in Seq(Nat) /\ Len(E) = Len(D) + 1 /\ Len(D) \in Nat /\ E[Len(D) + 1] = d
      /\ \A j \in 1..Len(D) : E[j] = D[j]
  BY <1>1
<1>3. /\ more \in Seq(Node) /\ Len(more) = Len(nodes) + 1 /\ more[Len(nodes) + 1] = n
      /\ \A j \in 1..Len(nodes) : more[j] = nodes[j]
  BY <1>1
<1> HIDE DEF E, more
<1>4. ASSUME NEW j \in 1..Len(more) PROVE Placed(E[j], more[j])
  <2>1. CASE j = Len(D) + 1 BY <1>2, <1>3, <2>1
  <2>2. CASE j # Len(D) + 1
    <3>1. j \in 1..Len(D) BY <1>2, <1>3, <2>2
    <3> QED BY <1>2, <1>3, <3>1
  <2> QED BY <2>1, <2>2
<1> QED BY <1>2, <1>3, <1>4 DEF E, more

LEMMA JoinPlaces ==
  ASSUME NEW todo \in Seq(Op), NEW nodes \in Seq(Node), NEW D, DepthsAre(D, Append(todo, "cons"), nodes)
  PROVE  /\ Len(nodes) >= 2
         /\ \E E : DepthsAre(E, todo, Append(Popped(Popped(nodes)), Pair(Top(Popped(nodes)), Top(nodes))))
<1> DEFINE k == Len(todo) + 1
<1>1. k \in Nat \ {0} OBVIOUS
<1>2. PICK s \in Seq(Nat) : D = Append(Append(s, k + 2), k + 1) /\ Depths(todo, Append(s, k))
  BY JoinDepth DEF DepthsAre
<1> HIDE DEF k
<1>3. /\ Len(D) = Len(s) + 2 /\ Len(s) \in Nat /\ D[Len(s) + 1] = k + 2 /\ D[Len(s) + 2] = k + 1
      /\ \A j \in 1..Len(s) : D[j] = s[j]
  <2>1. k + 2 \in Nat /\ k + 1 \in Nat BY <1>1
  <2> QED BY <1>2, <2>1, TwoAppended
<1>4. Len(nodes) = Len(s) + 2 /\ \A j \in 1..Len(nodes) : Placed(D[j], nodes[j])
  BY <1>3 DEF DepthsAre
<1> DEFINE rest == Popped(Popped(nodes))
           l == Top(Popped(nodes))
           r == Top(nodes)
<1>5. /\ rest \in Seq(Node) /\ l \in Node /\ r \in Node /\ nodes = Append(Append(rest, l), r)
  <2>1. Len(nodes) >= 2 BY <1>3, <1>4
  <2> QED BY <2>1, TwoOnTop
<1> HIDE DEF rest, l, r
<1>6. /\ Len(nodes) = Len(rest) + 2 /\ nodes[Len(rest) + 1] = l /\ nodes[Len(rest) + 2] = r
      /\ \A j \in 1..Len(rest) : nodes[j] = rest[j]
  BY <1>5, TwoAppended
<1>7. Len(rest) = Len(s) /\ Len(rest) \in Nat BY <1>3, <1>4, <1>5, <1>6
<1>8. Placed(k + 2, l) /\ Placed(k + 1, r)
  <2>1. Len(s) + 1 \in 1..Len(nodes) /\ Len(s) + 2 \in 1..Len(nodes) BY <1>3, <1>4
  <2> QED BY <1>3, <1>4, <1>6, <1>7, <2>1
<1>9. \A j \in 1..Len(rest) : Placed(s[j], rest[j])
  <2> SUFFICES ASSUME NEW j \in 1..Len(rest) PROVE Placed(s[j], rest[j]) OBVIOUS
  <2>1. j \in 1..Len(nodes) /\ j \in 1..Len(s) BY <1>3, <1>4, <1>7
  <2> QED BY <1>3, <1>4, <1>6, <2>1
<1>10. Placed(k, Pair(l, r)) BY <1>1, <1>8, PairPlaced
<1>11. DepthsAre(Append(s, k), todo, Append(rest, Pair(l, r)))
  <2> DEFINE p == Pair(l, r)
             D2 == Append(s, k)
             read2 == Append(rest, p)
  <2> HIDE DEF p
  <2>1. Placed(k, p) BY <1>10 DEF p
  <2>2. /\ D2 \in Seq(Nat) /\ Len(D2) = Len(read2)
        /\ \A j \in 1..Len(read2) : Placed(D2[j], read2[j])
    BY <1>5, <1>7, <1>9, <2>1, PlacedAppends
  <2> HIDE DEF D2, read2
  <2>3. DepthsAre(D2, todo, read2) BY <1>2, <2>2 DEF DepthsAre, D2
  <2> QED BY <2>3 DEF D2, read2, p
<1> QED BY <1>3, <1>4, <1>11 DEF rest, l, r

LEMMA ReadPlaces ==
  ASSUME NEW todo \in Seq(Op), NEW nodes \in Seq(Node), NEW D, DepthsAre(D, Append(todo, "read"), nodes),
         NEW n, Placed(Len(todo) + 1, n)
  PROVE  DepthsAre(Append(D, Len(todo) + 1), todo, Append(nodes, n))
<1>1. Depths(todo, Append(D, Len(todo) + 1)) BY ReadDepth DEF DepthsAre
<1> DEFINE k == Len(todo) + 1
<1> HIDE DEF k
<1>2. Placed(k, n) BY DEF k
<1>3. /\ Append(D, k) \in Seq(Nat) /\ Len(Append(D, k)) = Len(Append(nodes, n))
      /\ \A j \in 1..Len(Append(nodes, n)) : Placed(Append(D, k)[j], Append(nodes, n)[j])
  BY <1>2, PlacedAppends DEF DepthsAre
<1> QED BY <1>1, <1>3 DEF DepthsAre, k

LEMMA OpenPlaces ==
  ASSUME NEW todo \in Seq(Op), NEW D, NEW nodes, DepthsAre(D, Append(todo, "read"), nodes)
  PROVE  DepthsAre(D, Append(Append(Append(todo, "cons"), "read"), "read"), nodes)
<1> DEFINE k == Len(todo) + 1
           c == Append(todo, "cons")
           cr == Append(c, "read")
<1>1. D \in Seq(Nat) /\ "cons" \in Op /\ "read" \in Op BY DEF DepthsAre, Op
<1>2. Depths(todo, Append(D, k)) BY <1>1, ReadDepth DEF DepthsAre
<1>3. k \in Nat /\ c \in Seq(Op) /\ Len(c) + 1 = k + 1 /\ cr \in Seq(Op) /\ Len(cr) + 1 = k + 2
  BY <1>1
<1> DEFINE E == Append(D, k + 2)
           F == Append(E, k + 1)
<1>4. E \in Seq(Nat) /\ F \in Seq(Nat) BY <1>1, <1>3
<1>5. Depths(c, F) BY <1>1, <1>2, <1>4, JoinDepth
<1> HIDE DEF c, cr, E, F
<1>6. Depths(cr, E) BY <1>3, <1>4, <1>5, ReadDepth DEF cr, F
<1>7. Depths(Append(cr, "read"), D) BY <1>1, <1>3, <1>6, ReadDepth DEF E
<1> QED BY <1>7 DEF DepthsAre, c, cr

-----------------------------------------------------------------------------
(* What the operations still to do will read: the trees read so far, from  *)
(* p octets on, become root, which ends before the octet at end.           *)
Tree == UNION {Nodes[h] : h \in Nat}

ReadsTrees(nodes, n) ==
  /\ nodes[n + 1] = {}
  /\ \A i \in 1..n : \A y \in nodes[i] :
       y[1] \in Tree /\ y[2] \in (i + 1)..(n + 1) /\ y = <<y[1], y[2]>>

Progress(n) == Seq(Tree) \X (0..n)

Advances(nodes, op, a, c) ==
  IF op = "cons"
    THEN \E s \in Seq(Tree) : \E l \in Tree : \E r \in Tree :
           a[1] = Append(Append(s, l), r) /\ c = <<Append(s, Pair(l, r)), a[2]>>
    ELSE \E y \in nodes[a[2] + 1] : c = <<Append(a[1], y[1]), y[2] - 1>>

AdvanceStep(nodes, n) ==
  {x \in Nat \X Op \X Progress(n) \X Progress(n) : Advances(nodes, x[2], x[3], x[4])}

Completes(nodes, n, todo, vals, p, root, end) ==
  Runs(Progress(n), todo, AdvanceStep(nodes, n), <<vals, p>>, <<<<root>>, end - 1>>)

LEMMA TreesPair == ASSUME NEW l \in Tree, NEW r \in Tree PROVE Pair(l, r) \in Tree
<1>1. PICK g \in Nat : l \in Nodes[g] BY DEF Tree
<1>2. PICK h \in Nat : r \in Nodes[h] BY DEF Tree
<1> DEFINE m == IF g > h THEN g ELSE h
<1>3. m \in Nat /\ g <= m /\ h <= m OBVIOUS
<1> HIDE DEF m
<1>4. Nodes[g] \subseteq Nodes[m] BY <1>3, NodesMonotone
<1>5. Nodes[h] \subseteq Nodes[m] BY <1>3, NodesMonotone
<1>6. Pair(l, r) \in Nodes[m + 1] BY <1>1, <1>2, <1>3, <1>4, <1>5, PairIsNode
<1>7. m + 1 \in Nat BY <1>3
<1> QED BY <1>6, <1>7 DEF Tree

LEMMA NodesAreTrees == Node \subseteq Tree
<1>1. MaxBlob \in Nat BY CodecAssumption
<1> QED BY <1>1 DEF Node, Tree

LEMMA StepIs ==
  ASSUME NEW nodes, NEW n, NEW k \in Nat, NEW op \in Op, NEW a \in Progress(n), NEW c \in Progress(n)
  PROVE  <<k, op, a, c>> \in AdvanceStep(nodes, n) <=> Advances(nodes, op, a, c)
BY DEF AdvanceStep

LEMMA NextCompletes ==
  ASSUME NEW nodes, NEW n, NEW todo \in Seq(Op), NEW op \in Op, NEW vals, NEW p, NEW root, NEW end,
         <<vals, p>> \in Progress(n)
  PROVE  Completes(nodes, n, Append(todo, op), vals, p, root, end) <=>
           \E c \in Progress(n) :
             /\ Advances(nodes, op, <<vals, p>>, c)
             /\ Completes(nodes, n, todo, c[1], c[2], root, end)
<1> DEFINE X == Progress(n)
           a == <<vals, p>>
           b == <<<<root>>, end - 1>>
           S == AdvanceStep(nodes, n)
<1>1. a \in X /\ Len(todo) + 1 \in Nat OBVIOUS
<1>2. \A c \in X : c = <<c[1], c[2]>> BY DEF Progress
<1>3. \A c \in X : <<Len(todo) + 1, op, a, c>> \in S <=> Advances(nodes, op, a, c)
  BY <1>1, StepIs
<1> HIDE DEF X, a, b, S
<1>4. Runs(X, Append(todo, op), S, a, b) <=> RunsOn(X, todo, op, S, a, b)
  BY <1>1, OneMoreToDo
<1>5. Runs(X, Append(todo, op), S, a, b) <=>
        \E c \in X : Advances(nodes, op, a, c) /\ Runs(X, todo, S, c, b)
  BY <1>3, <1>4 DEF RunsOn
<1>6. \A c \in X : Runs(X, todo, S, c, b) <=> Completes(nodes, n, todo, c[1], c[2], root, end)
  BY <1>2 DEF Completes, X, S, b
<1>7. Runs(X, Append(todo, op), S, a, b) <=> Completes(nodes, n, Append(todo, op), vals, p, root, end)
  BY DEF Completes, X, S, b, a
<1> QED BY <1>5, <1>6, <1>7 DEF X, a

IsAll(vals, p, root, end) == vals = <<root>> /\ p = end - 1

LEMMA DoneCompletes ==
  ASSUME NEW nodes, NEW n \in Nat, NEW vals \in Seq(Tree), NEW p \in 0..n, NEW root, NEW end \in Int
  PROVE  Completes(nodes, n, << >>, vals, p, root, end) <=> IsAll(vals, p, root, end)
<1> DEFINE X == Progress(n)
           a == <<vals, p>>
           b == <<<<root>>, end - 1>>
           S == AdvanceStep(nodes, n)
<1>1. a \in X BY DEF Progress
<1>2. a = b <=> vals = <<root>> /\ p = end - 1 OBVIOUS
<1> HIDE DEF X, a, b, S
<1>3. Runs(X, << >>, S, a, b) <=> a \in X /\ a = b BY NothingToDo
<1> QED BY <1>1, <1>2, <1>3 DEF Completes, IsAll, X, S, a, b

LEMMA ReadCompletes ==
  ASSUME NEW nodes, NEW n \in Nat, ReadsTrees(nodes, n), NEW todo \in Seq(Op), NEW vals \in Seq(Tree),
         NEW p \in 0..n, NEW root, NEW end
  PROVE  Completes(nodes, n, Append(todo, "read"), vals, p, root, end) <=>
           \E y \in nodes[p + 1] : Completes(nodes, n, todo, Append(vals, y[1]), y[2] - 1, root, end)
<1>1. <<vals, p>> \in Progress(n) /\ "read" \in Op /\ "read" # "cons" BY DEF Progress, Op
<1>2. ASSUME NEW y \in nodes[p + 1]
      PROVE  <<Append(vals, y[1]), y[2] - 1>> \in Progress(n)
  <2>1. p + 1 \in 1..n
    <3>1. p + 1 # n + 1 BY <1>2 DEF ReadsTrees
    <3> QED BY <3>1
  <2>2. y[1] \in Tree /\ y[2] \in (p + 1 + 1)..(n + 1) BY <2>1 DEF ReadsTrees
  <2>3. Append(vals, y[1]) \in Seq(Tree) /\ y[2] - 1 \in 0..n BY <2>2
  <2> QED BY <2>3 DEF Progress
<1>3. \A c : Advances(nodes, "read", <<vals, p>>, c) <=>
        \E y \in nodes[p + 1] : c = <<Append(vals, y[1]), y[2] - 1>>
  BY DEF Advances
<1>4. Completes(nodes, n, Append(todo, "read"), vals, p, root, end) <=>
        \E c \in Progress(n) :
          /\ Advances(nodes, "read", <<vals, p>>, c)
          /\ Completes(nodes, n, todo, c[1], c[2], root, end)
  BY <1>1, NextCompletes
<1>5. ASSUME NEW c \in Progress(n), NEW y \in nodes[p + 1], c = <<Append(vals, y[1]), y[2] - 1>>,
             Completes(nodes, n, todo, c[1], c[2], root, end)
      PROVE  Completes(nodes, n, todo, Append(vals, y[1]), y[2] - 1, root, end)
  <2>1. c[1] = Append(vals, y[1]) /\ c[2] = y[2] - 1 BY <1>5
  <2> QED BY <1>5, <2>1
<1>6. ASSUME NEW y \in nodes[p + 1],
             Completes(nodes, n, todo, Append(vals, y[1]), y[2] - 1, root, end)
      PROVE  \E c \in Progress(n) : /\ Advances(nodes, "read", <<vals, p>>, c)
                                    /\ Completes(nodes, n, todo, c[1], c[2], root, end)
  <2> DEFINE c == <<Append(vals, y[1]), y[2] - 1>>
  <2>1. c[1] = Append(vals, y[1]) /\ c[2] = y[2] - 1 OBVIOUS
  <2>2. c \in Progress(n) /\ Advances(nodes, "read", <<vals, p>>, c) BY <1>2, <1>3
  <2>3. Completes(nodes, n, todo, c[1], c[2], root, end) BY <1>6, <2>1
  <2> HIDE DEF c
  <2> QED BY <2>2, <2>3
<1> QED BY <1>3, <1>4, <1>5, <1>6

CompletesPair(nodes, n, todo, vals, p, root, end) ==
  \E s \in Seq(Tree) : \E l \in Tree : \E r \in Tree :
    /\ vals = Append(Append(s, l), r)
    /\ Completes(nodes, n, todo, Append(s, Pair(l, r)), p, root, end)

LEMMA JoinCompletes ==
  ASSUME NEW nodes, NEW n \in Nat, NEW todo \in Seq(Op), NEW vals \in Seq(Tree),
         NEW p \in 0..n, NEW root, NEW end
  PROVE  Completes(nodes, n, Append(todo, "cons"), vals, p, root, end) <=>
           CompletesPair(nodes, n, todo, vals, p, root, end)
<1>1. <<vals, p>> \in Progress(n) /\ "cons" \in Op BY DEF Progress, Op
<1>2. \A c : Advances(nodes, "cons", <<vals, p>>, c) <=>
        \E s \in Seq(Tree) : \E l \in Tree : \E r \in Tree :
          vals = Append(Append(s, l), r) /\ c = <<Append(s, Pair(l, r)), p>>
  BY DEF Advances
<1>3. Completes(nodes, n, Append(todo, "cons"), vals, p, root, end) <=>
        \E c \in Progress(n) :
          /\ Advances(nodes, "cons", <<vals, p>>, c)
          /\ Completes(nodes, n, todo, c[1], c[2], root, end)
  BY <1>1, NextCompletes
<1>4. ASSUME NEW s \in Seq(Tree), NEW l \in Tree, NEW r \in Tree, vals = Append(Append(s, l), r)
      PROVE  LET c == <<Append(s, Pair(l, r)), p>> IN
             /\ c \in Progress(n) /\ Advances(nodes, "cons", <<vals, p>>, c)
             /\ c[1] = Append(s, Pair(l, r)) /\ c[2] = p
  <2>1. Append(s, Pair(l, r)) \in Seq(Tree)
    <3> DEFINE q == Pair(l, r)
    <3>1. q \in Tree BY TreesPair
    <3> HIDE DEF q
    <3>2. Append(s, q) \in Seq(Tree) BY <3>1
    <3> QED BY <3>2 DEF q
  <2>2. <<Append(s, Pair(l, r)), p>> \in Progress(n) BY <2>1 DEF Progress
  <2> QED BY <1>2, <1>4, <2>2
<1>5. ASSUME NEW c \in Progress(n), Advances(nodes, "cons", <<vals, p>>, c),
             Completes(nodes, n, todo, c[1], c[2], root, end)
      PROVE  \E s \in Seq(Tree) : \E l \in Tree : \E r \in Tree :
               /\ vals = Append(Append(s, l), r)
               /\ Completes(nodes, n, todo, Append(s, Pair(l, r)), p, root, end)
  <2>0. PICK s \in Seq(Tree) : \E l \in Tree : \E r \in Tree :
          vals = Append(Append(s, l), r) /\ c = <<Append(s, Pair(l, r)), p>>
    BY <1>5 DEF Advances
  <2>1. PICK l \in Tree, r \in Tree :
          vals = Append(Append(s, l), r) /\ c = <<Append(s, Pair(l, r)), p>>
    BY <2>0
  <2>2. c[1] = Append(s, Pair(l, r)) /\ c[2] = p BY <2>1
  <2>3. Completes(nodes, n, todo, Append(s, Pair(l, r)), p, root, end) BY <1>5, <2>2
  <2> QED BY <2>1, <2>3
<1>6. ASSUME NEW s \in Seq(Tree), NEW l \in Tree, NEW r \in Tree, vals = Append(Append(s, l), r),
             Completes(nodes, n, todo, Append(s, Pair(l, r)), p, root, end)
      PROVE  Completes(nodes, n, Append(todo, "cons"), vals, p, root, end)
  <2> DEFINE c == <<Append(s, Pair(l, r)), p>>
  <2>1. /\ c \in Progress(n) /\ Advances(nodes, "cons", <<vals, p>>, c)
        /\ c[1] = Append(s, Pair(l, r)) /\ c[2] = p
    BY <1>4, <1>6
  <2>2. Completes(nodes, n, todo, c[1], c[2], root, end) BY <1>6, <2>1
  <2> HIDE DEF c
  <2> QED BY <1>3, <2>1, <2>2
<1> QED BY <1>3, <1>5, <1>6 DEF CompletesPair

(* Nothing else is on top of what was appended.                            *)
LEMMA AppendedAre ==
  ASSUME NEW S, NEW s \in Seq(S), NEW t \in Seq(S), NEW x \in S, NEW y \in S,
         Append(s, x) = Append(t, y)
  PROVE  s = t /\ x = y
<1> DEFINE u == Append(s, x)
<1>1. u \in Seq(S) /\ Len(u) = Len(s) + 1 /\ u[Len(s) + 1] = x /\ \A j \in 1..Len(s) : u[j] = s[j]
  OBVIOUS
<1>2. Len(u) = Len(t) + 1 /\ u[Len(t) + 1] = y /\ \A j \in 1..Len(t) : u[j] = t[j]
  <2> DEFINE v == Append(t, y)
  <2>1. Len(v) = Len(t) + 1 /\ v[Len(t) + 1] = y /\ \A j \in 1..Len(t) : v[j] = t[j] OBVIOUS
  <2> QED BY <2>1
<1> HIDE DEF u
<1>3. Len(s) = Len(t) /\ Len(s) \in Nat BY <1>1, <1>2
<1>4. \A j \in 1..Len(s) : s[j] = t[j] BY <1>1, <1>2, <1>3
<1> QED BY <1>1, <1>2, <1>3, <1>4

(* The operations of a pair read what is encoded from its first octet on.  *)
LEMMA JoinedCompletes ==
  ASSUME NEW nodes, NEW n \in Nat, NEW todo \in Seq(Op), NEW vals \in Seq(Tree), NEW l \in Tree,
         NEW r \in Tree, NEW p \in 0..n, NEW root, NEW end
  PROVE  Completes(nodes, n, Append(todo, "cons"), Append(Append(vals, l), r), p, root, end) <=>
         Completes(nodes, n, todo, Append(vals, Pair(l, r)), p, root, end)
<1> DEFINE w == Append(Append(vals, l), r)
<1>1. w \in Seq(Tree) OBVIOUS
<1>2. Completes(nodes, n, Append(todo, "cons"), w, p, root, end) <=>
        \E s \in Seq(Tree) : \E x \in Tree : \E y \in Tree :
          /\ w = Append(Append(s, x), y)
          /\ Completes(nodes, n, todo, Append(s, Pair(x, y)), p, root, end)
  <2> HIDE DEF w
  <2>1. Completes(nodes, n, Append(todo, "cons"), w, p, root, end) <=>
        CompletesPair(nodes, n, todo, w, p, root, end)
    BY <1>1, JoinCompletes
  <2> QED BY <2>1 DEF CompletesPair
<1>3. ASSUME NEW s \in Seq(Tree), NEW x \in Tree, NEW y \in Tree, w = Append(Append(s, x), y)
      PROVE  s = vals /\ x = l /\ y = r
  <2>1. Append(Append(s, x), y) = Append(Append(vals, l), r) BY <1>3
  <2> HIDE DEF w
  <2> DEFINE a == Append(s, x)
             b == Append(vals, l)
  <2>2. a \in Seq(Tree) /\ b \in Seq(Tree) OBVIOUS
  <2>3. Append(a, y) = Append(b, r) BY <2>1
  <2> HIDE DEF a, b
  <2>4. a = b /\ y = r BY <2>2, <2>3, AppendedAre
  <2>5. Append(s, x) = Append(vals, l) BY <2>4 DEF a, b
  <2>6. s = vals /\ x = l BY <2>5, AppendedAre
  <2> QED BY <2>4, <2>6
<1> HIDE DEF w
<1>4. w = Append(Append(vals, l), r) BY DEF w
<1> QED BY <1>2, <1>3, <1>4

LEMMA OpenCompletes ==
  ASSUME NEW nodes, NEW n \in Nat, ReadsTrees(nodes, n), NEW todo \in Seq(Op), NEW vals \in Seq(Tree),
         NEW p \in 0..(n - 1), NEW root, NEW end, nodes[p + 1] = Joins(nodes, p + 1)
  PROVE  Completes(nodes, n, Append(todo, "read"), vals, p, root, end) <=>
         Completes(nodes, n, Append(Append(Append(todo, "cons"), "read"), "read"), vals, p + 1, root, end)
<1> DEFINE c == Append(todo, "cons")
           cr == Append(c, "read")
           Ends(v, q) == Completes(nodes, n, todo, v, q, root, end)
<1>1. c \in Seq(Op) /\ cr \in Seq(Op) /\ p \in 0..n /\ p + 1 \in 0..n /\ p + 1 \in 1..n BY DEF Op
<1> HIDE DEF c, cr
<1>2. ASSUME NEW y \in nodes[p + 1 + 1]
      PROVE  /\ y[1] \in Tree /\ y[2] - 1 \in 0..n /\ (y[2] - 1) + 1 = y[2]
             /\ Append(vals, y[1]) \in Seq(Tree)
  <2>1. p + 1 + 1 \in 1..n
    <3>1. p + 1 + 1 # n + 1 BY <1>2 DEF ReadsTrees
    <3> QED BY <3>1
  <2>2. y[1] \in Tree /\ y[2] \in (p + 1 + 1 + 1)..(n + 1) BY <2>1 DEF ReadsTrees
  <2> QED BY <2>2
<1>3. ASSUME NEW y \in nodes[p + 1 + 1], NEW z \in nodes[y[2]]
      PROVE  /\ z[1] \in Tree /\ z[2] - 1 \in 0..n
             /\ Append(Append(vals, y[1]), z[1]) \in Seq(Tree)
  <2>1. y[1] \in Tree /\ y[2] - 1 \in 0..n /\ (y[2] - 1) + 1 = y[2] BY <1>2
  <2>2. Append(vals, y[1]) \in Seq(Tree) BY <1>2
  <2>3. y[2] # n + 1 BY <1>3 DEF ReadsTrees
  <2> DEFINE k == y[2]
             vs == Append(vals, y[1])
  <2>4. k - 1 \in 0..n /\ (k - 1) + 1 = k /\ k # n + 1 BY <2>1, <2>3
  <2>5. z \in nodes[k] BY <1>3
  <2>6. vs \in Seq(Tree) BY <2>2
  <2> HIDE DEF k, vs
  <2>7. k \in 1..n BY <2>4
  <2>8. z[1] \in Tree /\ z[2] \in (k + 1)..(n + 1) BY <2>5, <2>7 DEF ReadsTrees
  <2>9. z[2] - 1 \in 0..n BY <2>7, <2>8
  <2>10. Append(vs, z[1]) \in Seq(Tree) BY <2>6, <2>8
  <2> QED BY <2>8, <2>9, <2>10 DEF vs
<1>4. Completes(nodes, n, Append(todo, "read"), vals, p, root, end) <=>
        \E x \in nodes[p + 1] : Ends(Append(vals, x[1]), x[2] - 1)
  BY <1>1, ReadCompletes
<1>5. Completes(nodes, n, Append(cr, "read"), vals, p + 1, root, end) <=>
        \E y \in nodes[p + 1 + 1] : Completes(nodes, n, cr, Append(vals, y[1]), y[2] - 1, root, end)
  BY <1>1, ReadCompletes
<1>6. ASSUME NEW y \in nodes[p + 1 + 1]
      PROVE  Completes(nodes, n, cr, Append(vals, y[1]), y[2] - 1, root, end) <=>
               \E z \in nodes[y[2]] :
                 Completes(nodes, n, c, Append(Append(vals, y[1]), z[1]), z[2] - 1, root, end)
  <2> DEFINE v == Append(vals, y[1])
             q == y[2] - 1
  <2>1. v \in Seq(Tree) /\ q \in 0..n /\ q + 1 = y[2] BY <1>2
  <2> HIDE DEF v, q
  <2>2. Completes(nodes, n, cr, v, q, root, end) <=>
          \E z \in nodes[q + 1] : Completes(nodes, n, c, Append(v, z[1]), z[2] - 1, root, end)
    BY <1>1, <2>1, ReadCompletes DEF cr
  <2> QED BY <2>1, <2>2 DEF v, q
<1>7. ASSUME NEW y \in nodes[p + 1 + 1], NEW z \in nodes[y[2]]
      PROVE  Completes(nodes, n, c, Append(Append(vals, y[1]), z[1]), z[2] - 1, root, end) <=>
             Ends(Append(vals, Pair(y[1], z[1])), z[2] - 1)
  <2> DEFINE l == y[1]
             r == z[1]
             q == z[2] - 1
  <2>1. l \in Tree /\ r \in Tree /\ q \in 0..n BY <1>2, <1>3
  <2> HIDE DEF l, r, q
  <2>2. Completes(nodes, n, c, Append(Append(vals, l), r), q, root, end) <=>
        Completes(nodes, n, todo, Append(vals, Pair(l, r)), q, root, end)
    BY <2>1, JoinedCompletes DEF c
  <2> QED BY <2>2 DEF l, r, q
<1>8. \A x : x \in nodes[p + 1] <=>
        \E y \in nodes[p + 1 + 1] : \E z \in nodes[y[2]] : x = <<Pair(y[1], z[1]), z[2]>>
  BY JoinsAre
<1>9. (\E x \in nodes[p + 1] : Ends(Append(vals, x[1]), x[2] - 1)) <=>
      \E y \in nodes[p + 1 + 1] : \E z \in nodes[y[2]] : Ends(Append(vals, Pair(y[1], z[1])), z[2] - 1)
  <2> HIDE DEF Ends
  <2>1. ASSUME NEW x \in nodes[p + 1], Ends(Append(vals, x[1]), x[2] - 1)
        PROVE  \E y \in nodes[p + 1 + 1] : \E z \in nodes[y[2]] :
                 Ends(Append(vals, Pair(y[1], z[1])), z[2] - 1)
    <3>1. PICK y \in nodes[p + 1 + 1] : \E z \in nodes[y[2]] : x = <<Pair(y[1], z[1]), z[2]>>
      BY <1>8
    <3>2. PICK z \in nodes[y[2]] : x = <<Pair(y[1], z[1]), z[2]>> BY <3>1
    <3>3. x[1] = Pair(y[1], z[1]) /\ x[2] = z[2] BY <3>2
    <3>4. Ends(Append(vals, Pair(y[1], z[1])), z[2] - 1) BY <2>1, <3>3
    <3> QED BY <3>4
  <2>2. ASSUME NEW y \in nodes[p + 1 + 1], NEW z \in nodes[y[2]],
               Ends(Append(vals, Pair(y[1], z[1])), z[2] - 1)
        PROVE  \E x \in nodes[p + 1] : Ends(Append(vals, x[1]), x[2] - 1)
    <3> DEFINE x == <<Pair(y[1], z[1]), z[2]>>
    <3>1. x \in nodes[p + 1] BY <1>8
    <3>2. x[1] = Pair(y[1], z[1]) /\ x[2] = z[2] OBVIOUS
    <3> HIDE DEF x
    <3>3. Ends(Append(vals, x[1]), x[2] - 1) BY <2>2, <3>2
    <3> QED BY <3>1, <3>3
  <2> QED BY <2>1, <2>2
<1>10. (\E y \in nodes[p + 1 + 1] : Completes(nodes, n, cr, Append(vals, y[1]), y[2] - 1, root, end)) <=>
       \E y \in nodes[p + 1 + 1] : \E z \in nodes[y[2]] : Ends(Append(vals, Pair(y[1], z[1])), z[2] - 1)
  <2> HIDE DEF Ends
  <2> QED BY <1>6, <1>7
<1> QED BY <1>4, <1>5, <1>9, <1>10 DEF c, cr

-----------------------------------------------------------------------------
(* What is read stands no deeper on the stack than the whole tree needs.   *)
Below(D, vals, root) ==
  \A j \in 1..Len(vals) : vals[j] \in Node /\ D[j] - 1 + StackNeeded[vals[j]] <= StackNeeded[root]

NeedsStack(nodes, n, todo, root, end) ==
  \A vals \in Seq(Tree) : \A D \in Seq(Nat) : \A p \in 0..n :
    Len(D) = Len(vals) /\ Depths(todo, D) /\ Completes(nodes, n, todo, vals, p, root, end)
    => Below(D, vals, root) /\ Len(todo) <= StackNeeded[root]

LEMMA NothingNeedsStack ==
  ASSUME NEW nodes, NEW n \in Nat, NEW root \in Node, NEW end \in Int
  PROVE  NeedsStack(nodes, n, << >>, root, end)
<1> SUFFICES ASSUME NEW vals \in Seq(Tree), NEW D \in Seq(Nat), NEW p \in 0..n, Depths(<< >>, D),
                    Completes(nodes, n, << >>, vals, p, root, end)
             PROVE  Below(D, vals, root) /\ 0 <= StackNeeded[root]
  BY DEF NeedsStack
<1>1. vals = <<root>> BY DoneCompletes DEF IsAll
<1>2. D = <<1>>
  <2> DEFINE X == Seq(Nat)
             b == <<1>>
  <2> HIDE DEF X, b
  <2>1. Runs(X, << >>, DepthStep, D, b) BY DEF Depths, X, b
  <2>2. D = b BY <2>1, NothingToDo
  <2> QED BY <2>2 DEF b
<1>3. StackNeeded[root] \in Nat BY StackNeededUnrolls
<1>4. Len(vals) = 1 /\ vals[1] = root /\ D[1] = 1 BY <1>1, <1>2
<1> HIDE DEF Below
<1>5. \A j \in 1..Len(vals) : vals[j] = root /\ D[j] - 1 + StackNeeded[root] = StackNeeded[root]
  <2>1. \A j \in 1..Len(vals) : j = 1 BY <1>4
  <2> QED BY <1>3, <1>4, <2>1
<1>6. Below(D, vals, root)
  <2> SUFFICES ASSUME NEW j \in 1..Len(vals)
               PROVE  vals[j] \in Node /\ D[j] - 1 + StackNeeded[vals[j]] <= StackNeeded[root]
    BY DEF Below
  <2>1. vals[j] = root /\ D[j] - 1 + StackNeeded[root] = StackNeeded[root] BY <1>5
  <2> QED BY <1>3, <2>1
<1> QED BY <1>3, <1>6

LEMMA ReadNeedsStack ==
  ASSUME NEW nodes, NEW n \in Nat, ReadsTrees(nodes, n), NEW todo \in Seq(Op), NEW root \in Node,
         NEW end \in Int, NeedsStack(nodes, n, todo, root, end)
  PROVE  NeedsStack(nodes, n, Append(todo, "read"), root, end)
<1> DEFINE more == Append(todo, "read")
           k == Len(todo) + 1
<1>1. Len(more) = k /\ k \in Nat /\ k >= 1 OBVIOUS
<1> SUFFICES ASSUME NEW vals \in Seq(Tree), NEW D \in Seq(Nat), NEW p \in 0..n, Len(D) = Len(vals),
                    Depths(more, D), Completes(nodes, n, more, vals, p, root, end)
             PROVE  Below(D, vals, root) /\ Len(more) <= StackNeeded[root]
  BY DEF NeedsStack
<1>2. Depths(todo, Append(D, k)) BY ReadDepth
<1>3. PICK y \in nodes[p + 1] : Completes(nodes, n, todo, Append(vals, y[1]), y[2] - 1, root, end)
  BY ReadCompletes
<1>4. y[1] \in Tree /\ y[2] - 1 \in 0..n
  <2>1. p + 1 \in 1..n
    <3>1. p + 1 # n + 1 BY <1>3 DEF ReadsTrees
    <3> QED BY <3>1
  <2>2. y[1] \in Tree /\ y[2] \in (p + 1 + 1)..(n + 1) BY <2>1 DEF ReadsTrees
  <2> QED BY <2>2
<1> HIDE DEF k, more
<1> DEFINE v == Append(vals, y[1])
           E == Append(D, k)
<1>5. /\ v \in Seq(Tree) /\ Len(v) = Len(vals) + 1 /\ v[Len(vals) + 1] = y[1]
      /\ \A j \in 1..Len(vals) : v[j] = vals[j]
  BY <1>4
<1>6. /\ E \in Seq(Nat) /\ Len(E) = Len(D) + 1 /\ E[Len(D) + 1] = k
      /\ \A j \in 1..Len(D) : E[j] = D[j]
  BY <1>1
<1> HIDE DEF v, E
<1>7. Below(E, v, root)
  <2> DEFINE q == y[2] - 1
  <2>1. q \in 0..n /\ Completes(nodes, n, todo, v, q, root, end) BY <1>3, <1>4 DEF v
  <2>2. Depths(todo, E) /\ Len(E) = Len(v) BY <1>2, <1>5, <1>6 DEF E
  <2> HIDE DEF q
  <2> QED BY <1>5, <1>6, <2>1, <2>2 DEF NeedsStack
<1>8. Below(D, vals, root)
  <2> SUFFICES ASSUME NEW j \in 1..Len(vals)
               PROVE  vals[j] \in Node /\ D[j] - 1 + StackNeeded[vals[j]] <= StackNeeded[root]
    BY DEF Below
  <2>1. j \in 1..Len(v) /\ v[j] = vals[j] /\ E[j] = D[j] BY <1>5, <1>6
  <2> QED BY <1>7, <2>1 DEF Below
<1>9. k <= StackNeeded[root]
  <2>1. Len(vals) + 1 \in 1..Len(v) BY <1>5
  <2>2. y[1] \in Node /\ k - 1 + StackNeeded[y[1]] <= StackNeeded[root]
    BY <1>5, <1>6, <1>7, <2>1 DEF Below
  <2>3. StackNeeded[y[1]] \in Nat /\ StackNeeded[y[1]] >= 1 /\ StackNeeded[root] \in Nat
    BY <2>2, StackNeededUnrolls
  <2> QED BY <1>1, <2>2, <2>3
<1> QED BY <1>1, <1>8, <1>9

LEMMA JoinNeedsStack ==
  ASSUME NEW nodes, NEW n \in Nat, NEW todo \in Seq(Op), NEW root \in Node,
         NEW end \in Int, NeedsStack(nodes, n, todo, root, end)
  PROVE  NeedsStack(nodes, n, Append(todo, "cons"), root, end)
<1> DEFINE more == Append(todo, "cons")
           k == Len(todo) + 1
<1>1. Len(more) = k /\ k \in Nat /\ k >= 1 OBVIOUS
<1> SUFFICES ASSUME NEW vals \in Seq(Tree), NEW D \in Seq(Nat), NEW p \in 0..n, Len(D) = Len(vals),
                    Depths(more, D), Completes(nodes, n, more, vals, p, root, end)
             PROVE  Below(D, vals, root) /\ Len(more) <= StackNeeded[root]
  BY DEF NeedsStack
<1>2. PICK s \in Seq(Nat) : D = Append(Append(s, k + 2), k + 1) /\ Depths(todo, Append(s, k))
  BY JoinDepth
<1>3. CompletesPair(nodes, n, todo, vals, p, root, end) BY JoinCompletes
<1>4. PICK w \in Seq(Tree) : \E l \in Tree : \E r \in Tree :
             /\ vals = Append(Append(w, l), r)
             /\ Completes(nodes, n, todo, Append(w, Pair(l, r)), p, root, end)
  BY <1>3 DEF CompletesPair
<1>5. PICK l \in Tree, r \in Tree :
             /\ vals = Append(Append(w, l), r)
             /\ Completes(nodes, n, todo, Append(w, Pair(l, r)), p, root, end)
  BY <1>4
<1> HIDE DEF k, more
<1> DEFINE m == Len(w)
           q == Pair(l, r)
           v == Append(w, q)
           E == Append(s, k)
<1>6. /\ Len(vals) = m + 2 /\ m \in Nat /\ vals[m + 1] = l /\ vals[m + 2] = r
      /\ \A j \in 1..m : vals[j] = w[j]
  BY <1>5, TwoAppended
<1>7. /\ Len(D) = Len(s) + 2 /\ Len(s) \in Nat /\ D[Len(s) + 1] = k + 2 /\ D[Len(s) + 2] = k + 1
      /\ \A j \in 1..Len(s) : D[j] = s[j]
  <2>1. k + 2 \in Nat /\ k + 1 \in Nat BY <1>1
  <2> QED BY <1>2, <2>1, TwoAppended
<1>8. Len(s) = m BY <1>6, <1>7
<1>9. q \in Tree /\ isPair(q) /\ q.left = l /\ q.right = r BY TreesPair, PairFields
<1> HIDE DEF q
<1>10. v \in Seq(Tree) /\ Len(v) = m + 1 /\ v[m + 1] = q /\ \A j \in 1..m : v[j] = w[j]
  BY <1>9
<1>11. E \in Seq(Nat) /\ Len(E) = m + 1 /\ E[m + 1] = k /\ \A j \in 1..m : E[j] = s[j]
  <2>1. E \in Seq(Nat) /\ Len(E) = Len(s) + 1 /\ E[Len(s) + 1] = k /\ \A j \in 1..Len(s) : E[j] = s[j]
    BY <1>1
  <2> HIDE DEF E, m
  <2> QED BY <1>8, <2>1
<1> HIDE DEF v, E, m
<1>12. Below(E, v, root)
  <2>1. Completes(nodes, n, todo, v, p, root, end) BY <1>5 DEF v, q
  <2>2. Depths(todo, E) /\ Len(E) = Len(v) BY <1>2, <1>10, <1>11 DEF E
  <2> QED BY <1>10, <1>11, <2>1, <2>2 DEF NeedsStack
<1>13. q \in Node /\ k - 1 + StackNeeded[q] <= StackNeeded[root]
  <2>1. m + 1 \in 1..Len(v) BY <1>6, <1>10
  <2> QED BY <1>10, <1>11, <1>12, <2>1 DEF Below
<1>14. l \in Node /\ r \in Node BY <1>9, <1>13, NodeParts
<1>15. /\ StackNeeded[q] \in Nat /\ StackNeeded[l] \in Nat /\ StackNeeded[r] \in Nat
       /\ StackNeeded[root] \in Nat /\ StackNeeded[q] >= 1
       /\ StackNeeded[q] >= StackNeeded[l] + 2 /\ StackNeeded[q] >= StackNeeded[r] + 1
  BY <1>9, <1>13, <1>14, StackNeededUnrolls
<1>16. ASSUME NEW j \in 1..Len(vals)
       PROVE  vals[j] \in Node /\ D[j] - 1 + StackNeeded[vals[j]] <= StackNeeded[root]
  <2>1. CASE j = m + 1
    <3>1. vals[j] = l /\ D[j] = k + 2 BY <1>6, <1>7, <1>8, <2>1
    <3> DEFINE x == StackNeeded[l]
               y == StackNeeded[q]
               z == StackNeeded[root]
    <3>2. x \in Nat /\ y \in Nat /\ z \in Nat /\ y >= x + 2 /\ k - 1 + y <= z BY <1>13, <1>15
    <3> HIDE DEF x, y, z
    <3>3. (k + 2) - 1 + x <= z BY <1>1, <3>2
    <3> QED BY <1>14, <3>1, <3>3 DEF x, z
  <2>2. CASE j = m + 2
    <3>1. vals[j] = r /\ D[j] = k + 1 BY <1>6, <1>7, <1>8, <2>2
    <3> DEFINE x == StackNeeded[r]
               y == StackNeeded[q]
               z == StackNeeded[root]
    <3>2. x \in Nat /\ y \in Nat /\ z \in Nat /\ y >= x + 1 /\ k - 1 + y <= z BY <1>13, <1>15
    <3> HIDE DEF x, y, z
    <3>3. (k + 1) - 1 + x <= z BY <1>1, <3>2
    <3> QED BY <1>14, <3>1, <3>3 DEF x, z
  <2>3. CASE j # m + 1 /\ j # m + 2
    <3>1. j \in 1..m /\ j \in 1..Len(v) BY <1>6, <1>10, <2>3
    <3>2. vals[j] = v[j] /\ D[j] = E[j] BY <1>6, <1>7, <1>8, <1>10, <1>11, <3>1
    <3> QED BY <1>12, <3>1, <3>2 DEF Below
  <2> QED BY <2>1, <2>2, <2>3
<1>17. k <= StackNeeded[root] BY <1>1, <1>13, <1>15
<1> QED BY <1>1, <1>16, <1>17 DEF Below

LEMMA AllNeedStack ==
  ASSUME NEW nodes, NEW n \in Nat, ReadsTrees(nodes, n), NEW todo \in Seq(Op), NEW root \in Node,
         NEW end \in Int
  PROVE  NeedsStack(nodes, n, todo, root, end)
<1> DEFINE T == {m \in Nat : \A t \in Seq(Op) : Len(t) = m => NeedsStack(nodes, n, t, root, end)}
<1>1. 0 \in T
  <2> SUFFICES ASSUME NEW t \in Seq(Op), Len(t) = 0 PROVE NeedsStack(nodes, n, t, root, end) OBVIOUS
  <2>1. t = << >> OBVIOUS
  <2> QED BY <2>1, NothingNeedsStack
<1>2. ASSUME NEW m \in Nat, m \in T PROVE m + 1 \in T
  <2> SUFFICES ASSUME NEW t \in Seq(Op), Len(t) = m + 1 PROVE NeedsStack(nodes, n, t, root, end) OBVIOUS
  <2> DEFINE u == Popped(t)
  <2>1. /\ t = Append(u, Top(t)) /\ u \in Seq(Op) /\ Top(t) \in Op /\ Len(u) = m
    <3>1. t # << >> OBVIOUS
    <3>2. /\ t = Append(u, Top(t)) /\ u \in Seq(Op) /\ Top(t) \in Op
          /\ Len(t) = Len(u) + 1 /\ Len(u) \in Nat
      BY <3>1, StackTop
    <3> QED BY <3>2
  <2> HIDE DEF u
  <2>2. NeedsStack(nodes, n, u, root, end) BY <1>2, <2>1
  <2>3. CASE Top(t) = "read" BY <2>1, <2>2, <2>3, ReadNeedsStack
  <2>4. CASE Top(t) = "cons" BY <2>1, <2>2, <2>4, JoinNeedsStack
  <2> QED BY <2>1, <2>3, <2>4 DEF Op
<1>3. T = Nat
  <2>1. \A m \in Nat : m \in T => m + 1 \in T BY <1>2
  <2> HIDE DEF T
  <2>2. T \in SUBSET Nat BY DEF T
  <2> QED BY <1>1, <2>1, <2>2, SetInduction
<1>4. Len(todo) \in T BY <1>3
<1> QED BY <1>4

-----------------------------------------------------------------------------
(* The reading of a blob that is not too long is typed.                    *)
LEMMA ReadingTyped ==
  ASSUME NEW b \in Seq(Octet)
  PROVE  ReadsTrees(Reading(b), Len(b))
<1>1. Len(b) \in Nat OBVIOUS
<1>2. Reading(b)[Len(b) + 1] = {} BY <1>1, ReadingEncodes, EncodesUnrolls
<1>3. ASSUME NEW i \in 1..Len(b), NEW y \in Reading(b)[i]
      PROVE  y[1] \in Tree /\ y[2] \in (i + 1)..(Len(b) + 1) /\ y = <<y[1], y[2]>>
  <2>1. y[2] \in (i + 1)..(Len(b) + 1) /\ y[1] \in Nodes[Len(b) - i] BY ReadingIs
  <2>2. y[1] \in Tree
    <3> DEFINE h == Len(b) - i
    <3>1. h \in Nat BY <1>1
    <3> HIDE DEF h
    <3> QED BY <2>1, <3>1 DEF Tree, h
  <2>3. y = <<y[1], y[2]>>
    <3>1. Reading(b)[i] = IF i \in ConsPlaces(b) THEN Joins(Reading(b), i) ELSE AtomsIn(b)[i]
      BY <1>1, ReadingEncodes, EncodesUnrolls
    <3>2. CASE i \in ConsPlaces(b)
      <4>1. y \in Joins(Reading(b), i) BY <3>1, <3>2
      <4>2. PICK l \in Reading(b)[i + 1] : \E r \in Reading(b)[l[2]] : y = <<Pair(l[1], r[1]), r[2]>>
        BY <4>1, JoinsAre
      <4>3. PICK r \in Reading(b)[l[2]] : y = <<Pair(l[1], r[1]), r[2]>> BY <4>2
      <4> QED BY <4>3
    <3>3. CASE i \notin ConsPlaces(b)
      <4>1. y \in AtomsIn(b)[i] BY <3>1, <3>3
      <4> DEFINE last == IF HeaderOf(b[i]) = 0 THEN i ELSE LastOf(b, i)
                 start == IF HeaderOf(b[i]) = 0 THEN i ELSE i + HeaderOf(b[i])
                 z == <<Leaf(SubSeq(b, start, last)), last + 1>>
      <4>2. y = z BY <4>1, AtomsAre
      <4> HIDE DEF start, last
      <4> QED BY <4>2
    <3> QED BY <3>2, <3>3
  <2> QED BY <2>1, <2>2, <2>3
<1> QED BY <1>2, <1>3 DEF ReadsTrees

(* Its nodes are within the model's.                                       *)
LEMMA ReadingNodes ==
  ASSUME NEW b \in Seq(Octet), Len(b) <= MaxBlob, NEW i \in 1..Len(b), NEW y \in Reading(b)[i]
  PROVE  y[1] \in Node
<1> DEFINE h == Len(b) - i
<1>1. h \in Nat /\ h <= MaxBlob /\ MaxBlob \in Nat BY CodecAssumption
<1>2. y[1] \in Nodes[h] BY ReadingIs
<1> HIDE DEF h
<1>3. Nodes[h] \subseteq Nodes[MaxBlob] BY <1>1, NodesMonotone
<1> QED BY <1>2, <1>3 DEF Node

-----------------------------------------------------------------------------
(* The parser keeps to what is encoded from the first octet on.            *)
ReadsOn(b, todo, vals, p) ==
  \A root \in Tree : \A end \in Nat :
    <<root, end>> \in Reading(b)[1] <=> Completes(Reading(b), Len(b), todo, vals, p, root, end)

ParserInv ==
  /\ blob \in Seq(Octet) /\ at \in 0..Len(blob)
  /\ ops \in Seq(Op) /\ values \in Seq(Node)
  /\ \E D : DepthsAre(D, ops, values)
  /\ Len(blob) <= MaxBlob => ReadsOn(blob, ops, values, at)

LEMMA ParserInitially == CodecInit => ParserInv
<1> SUFFICES ASSUME CodecInit PROVE ParserInv OBVIOUS
<1>1. /\ blob \in Seq(Octet) /\ at = 0 /\ ops = <<"read">> /\ values = << >>
  BY CodecAssumption DEF CodecInit, CodecStart
<1> DEFINE none == << >>
<1>2. none \in Seq(Op) /\ Len(none) = 0 /\ "read" \in Op /\ ops = Append(none, "read") BY <1>1 DEF Op
<1>3. \E D : DepthsAre(D, ops, values)
  <2> DEFINE D == << >>
             one == <<1>>
             X == Seq(Nat)
  <2>1. D \in Seq(Nat) /\ Len(D) = 0 /\ Append(D, 0 + 1) = one /\ one \in X OBVIOUS
  <2>2. Depths(none, one)
    <3> HIDE DEF one, X
    <3>1. Runs(X, << >>, DepthStep, one, one) BY <2>1, NothingToDo
    <3> QED BY <3>1 DEF Depths, X, one
  <2> HIDE DEF one
  <2>3. Depths(Append(none, "read"), D)
    <3> HIDE DEF none, D
    <3> QED BY <1>2, <2>1, <2>2, ReadDepth
  <2>4. Depths(ops, D) /\ Len(values) = 0 BY <1>1, <1>2, <2>3
  <2>5. DepthsAre(D, ops, values)
    <3> HIDE DEF D
    <3> QED BY <2>1, <2>4 DEF DepthsAre
  <2> QED BY <2>5
<1>4. ReadsOn(blob, ops, values, at)
  <2> SUFFICES ASSUME NEW root \in Tree, NEW end \in Nat
               PROVE  <<root, end>> \in Reading(blob)[1] <=>
                      Completes(Reading(blob), Len(blob), ops, values, at, root, end)
    BY DEF ReadsOn
  <2> DEFINE f == Reading(blob)
             n == Len(blob)
  <2>1. n \in Nat /\ 0 \in 0..n /\ ReadsTrees(f, n) BY <1>1, ReadingTyped
  <2>2. values \in Seq(Tree) /\ values = none BY <1>1
  <2> HIDE DEF none, f, n
  <2>3. Completes(f, n, ops, values, 0, root, end) <=>
          \E y \in f[0 + 1] : Completes(f, n, none, Append(values, y[1]), y[2] - 1, root, end)
    BY <1>2, <2>1, <2>2, ReadCompletes
  <2>4. ASSUME NEW y \in f[0 + 1]
        PROVE  /\ y[1] \in Tree /\ y[2] \in Nat /\ y[2] - 1 \in 0..n /\ y = <<y[1], y[2]>>
               /\ Append(values, y[1]) \in Seq(Tree) /\ Append(values, y[1]) = <<y[1]>>
    <3>1. 0 + 1 \in 1..n
      <4>2. f[n + 1] = {} BY <2>1 DEF ReadsTrees
      <4>3. n # 0
        <5>1. n = 0 => 0 + 1 = n + 1 OBVIOUS
        <5> QED BY <2>4, <4>2, <5>1
      <4> QED BY <2>1, <4>3
    <3>2. y[1] \in Tree /\ y[2] \in (0 + 1 + 1)..(n + 1) /\ y = <<y[1], y[2]>>
      BY <2>1, <3>1 DEF ReadsTrees
    <3>3. y[2] \in Nat /\ y[2] - 1 \in 0..n BY <2>1, <3>2
    <3>4. Append(values, y[1]) \in Seq(Tree) /\ Append(values, y[1]) = <<y[1]>>
      BY <1>1, <2>2, <3>2
    <3> QED BY <3>2, <3>3, <3>4
  <2>5. ASSUME NEW y \in f[0 + 1]
        PROVE  Completes(f, n, none, Append(values, y[1]), y[2] - 1, root, end) <=> y = <<root, end>>
    <3> DEFINE v == Append(values, y[1])
               q == y[2] - 1
    <3>1. v \in Seq(Tree) /\ q \in 0..n /\ v = <<y[1]>> BY <2>4
    <3> HIDE DEF v, q
    <3>2. Completes(f, n, none, v, q, root, end) <=> v = <<root>> /\ q = end - 1
      <4>1. end \in Int OBVIOUS
      <4>2. Completes(f, n, << >>, v, q, root, end) <=> IsAll(v, q, root, end)
        BY <2>1, <3>1, <4>1, DoneCompletes
      <4> QED BY <4>2 DEF none, IsAll
    <3>3. v = <<root>> <=> y[1] = root BY <3>1
    <3>4. q = end - 1 <=> y[2] = end BY <2>4 DEF q
    <3>5. y = <<root, end>> <=> y[1] = root /\ y[2] = end BY <2>4
    <3> QED BY <3>2, <3>3, <3>4, <3>5 DEF v, q
  <2>6. 0 + 1 = 1 OBVIOUS
  <2>7. <<root, end>> \in f[1] <=> Completes(f, n, ops, values, 0, root, end)
    BY <2>3, <2>5, <2>6
  <2> QED BY <1>1, <2>7 DEF f, n
<1> QED BY <1>1, <1>2, <1>3, <1>4 DEF ParserInv

LEMMA ReadsOnAtom ==
  ASSUME NEW b \in Seq(Octet), NEW todo \in Seq(Op), NEW vals \in Seq(Tree), NEW p \in 0..(Len(b) - 1),
         NEW x, x \in Tree, NEW next \in (p + 2)..(Len(b) + 1), Reading(b)[p + 1] = {<<x, next>>},
         ReadsOn(b, Append(todo, "read"), vals, p)
  PROVE  ReadsOn(b, todo, Append(vals, x), next - 1)
<1> SUFFICES ASSUME NEW root \in Tree, NEW end \in Nat
             PROVE  <<root, end>> \in Reading(b)[1] <=>
                    Completes(Reading(b), Len(b), todo, Append(vals, x), next - 1, root, end)
  BY DEF ReadsOn
<1>1. <<root, end>> \in Reading(b)[1] <=>
        Completes(Reading(b), Len(b), Append(todo, "read"), vals, p, root, end)
  BY DEF ReadsOn
<1> DEFINE f == Reading(b)
           n == Len(b)
<1>2. n \in Nat /\ p \in 0..n /\ ReadsTrees(f, n) BY ReadingTyped
<1>3. f[p + 1] = {<<x, next>>} OBVIOUS
<1> HIDE DEF f, n
<1>4. Completes(f, n, Append(todo, "read"), vals, p, root, end) <=>
        \E y \in f[p + 1] : Completes(f, n, todo, Append(vals, y[1]), y[2] - 1, root, end)
  BY <1>2, ReadCompletes
<1>5. ASSUME NEW y \in f[p + 1] PROVE y[1] = x /\ y[2] = next BY <1>3
<1>6. <<x, next>> \in f[p + 1] BY <1>3
<1>7. (\E y \in f[p + 1] : Completes(f, n, todo, Append(vals, y[1]), y[2] - 1, root, end)) <=>
      Completes(f, n, todo, Append(vals, x), next - 1, root, end)
  BY <1>5, <1>6
<1> QED BY <1>1, <1>4, <1>7 DEF f, n

LEMMA ReadsOnPair ==
  ASSUME NEW b \in Seq(Octet), NEW todo \in Seq(Op), NEW vals \in Seq(Tree), NEW p \in 0..(Len(b) - 1),
         b[p + 1] = ConsOctet, ReadsOn(b, Append(todo, "read"), vals, p)
  PROVE  ReadsOn(b, Append(Append(Append(todo, "cons"), "read"), "read"), vals, p + 1)
<1> DEFINE f == Reading(b)
           n == Len(b)
           more == Append(Append(Append(todo, "cons"), "read"), "read")
<1>1. n \in Nat /\ p \in 0..(n - 1) /\ p + 1 \in 1..n /\ ReadsTrees(f, n) BY ReadingTyped
<1>2. f[p + 1] = Joins(f, p + 1)
  <2>1. p + 1 \in ConsPlaces(b) BY <1>1 DEF ConsPlaces
  <2> QED BY <1>1, <2>1, ReadingEncodes, EncodesUnrolls
<1> SUFFICES ASSUME NEW root \in Tree, NEW end \in Nat
             PROVE  <<root, end>> \in f[1] <=> Completes(f, n, more, vals, p + 1, root, end)
  BY DEF ReadsOn
<1>3. <<root, end>> \in f[1] <=> Completes(f, n, Append(todo, "read"), vals, p, root, end)
  BY DEF ReadsOn
<1> HIDE DEF f, n
<1>4. Completes(f, n, Append(todo, "read"), vals, p, root, end) <=>
      Completes(f, n, more, vals, p + 1, root, end)
  BY <1>1, <1>2, OpenCompletes
<1> QED BY <1>3, <1>4

LEMMA ReadsOnJoin ==
  ASSUME NEW b \in Seq(Octet), NEW todo \in Seq(Op), NEW vals \in Seq(Tree), NEW l \in Tree,
         NEW r \in Tree, NEW p \in 0..Len(b),
         ReadsOn(b, Append(todo, "cons"), Append(Append(vals, l), r), p)
  PROVE  ReadsOn(b, todo, Append(vals, Pair(l, r)), p)
<1> DEFINE f == Reading(b)
           n == Len(b)
<1>1. n \in Nat /\ p \in 0..n OBVIOUS
<1> SUFFICES ASSUME NEW root \in Tree, NEW end \in Nat
             PROVE  <<root, end>> \in f[1] <=>
                    Completes(f, n, todo, Append(vals, Pair(l, r)), p, root, end)
  BY DEF ReadsOn
<1>2. <<root, end>> \in f[1] <=>
      Completes(f, n, Append(todo, "cons"), Append(Append(vals, l), r), p, root, end)
  BY DEF ReadsOn
<1> HIDE DEF f, n
<1>3. Completes(f, n, Append(todo, "cons"), Append(Append(vals, l), r), p, root, end) <=>
      Completes(f, n, todo, Append(vals, Pair(l, r)), p, root, end)
  BY <1>1, JoinedCompletes
<1> QED BY <1>2, <1>3

-----------------------------------------------------------------------------
(* The steps of the parser.                                                *)
LEMMA TurnIs ==
  ASSUME ParserInv, NEW op, Turn(op)
  PROVE  /\ ops = Append(Popped(ops), op) /\ Popped(ops) \in Seq(Op)
         /\ Len(Popped(ops)) + 1 \in 1..(2 * MaxDepth) /\ Len(blob) <= MaxBlob
         /\ Len(blob) \in Nat /\ MaxDepth \in Nat
<1>1. MaxDepth \in Nat /\ MaxBlob \in Nat BY CodecAssumption
<1>2. ops \in Seq(Op) /\ ops # << >> /\ Top(ops) = op /\ ~(Len(ops) > 2 * MaxDepth)
      /\ ~(Len(blob) > MaxBlob) /\ blob \in Seq(Octet)
  BY DEF Turn, ParserInv, TooLong, TooDeep
<1>3. /\ ops = Append(Popped(ops), Top(ops)) /\ Popped(ops) \in Seq(Op)
      /\ Len(ops) = Len(Popped(ops)) + 1 /\ Len(Popped(ops)) \in Nat
  BY <1>2, StackTop
<1>4. Len(blob) \in Nat BY <1>2
<1> QED BY <1>1, <1>2, <1>3, <1>4

LEMMA JoinsPairKeeps ==
  ASSUME ParserInv, JoinsPair PROVE ParserInv'
<1> DEFINE todo == Popped(ops)
           rest == Popped(Popped(values))
           l == Top(Popped(values))
           r == Top(values)
<1>1. /\ values' = Append(rest, Pair(l, r)) /\ ops' = todo /\ blob' = blob /\ at' = at
  BY DEF JoinsPair
<1>2. ops = Append(todo, "cons") /\ todo \in Seq(Op) BY TurnIs DEF JoinsPair
<1>3. blob \in Seq(Octet) /\ at \in 0..Len(blob) /\ values \in Seq(Node) BY DEF ParserInv
<1>4. PICK D : DepthsAre(D, ops, values) BY DEF ParserInv
<1>5. Len(values) >= 2 /\ \E E : DepthsAre(E, todo, Append(rest, Pair(l, r)))
  <2> HIDE DEF todo
  <2> QED BY <1>2, <1>3, <1>4, JoinPlaces
<1>6. /\ rest \in Seq(Node) /\ l \in Node /\ r \in Node
      /\ values = Append(Append(rest, l), r)
  BY <1>3, <1>5, TwoOnTop
<1> HIDE DEF todo, rest, l, r
<1>7. PICK E : DepthsAre(E, todo, Append(rest, Pair(l, r))) BY <1>5
<1> DEFINE q == Pair(l, r)
<1> HIDE DEF q
<1>8. Append(rest, q) \in Seq(Node)
  <2>1. q \in Node
    <3> DEFINE v == Append(rest, q)
    <3>1. Len(v) = Len(rest) + 1 /\ v[Len(rest) + 1] = q /\ Len(rest) \in Nat BY <1>6
    <3> HIDE DEF v
    <3>2. Len(rest) + 1 \in 1..Len(v) BY <3>1
    <3>3. Placed(E[Len(rest) + 1], v[Len(rest) + 1]) BY <1>7, <3>2 DEF DepthsAre, v, q
    <3> QED BY <3>1, <3>3, PlacedIsNode
  <2> QED BY <1>6, <2>1
<1>9. Len(blob) <= MaxBlob => ReadsOn(blob, todo, Append(rest, q), at)
  <2> SUFFICES ASSUME Len(blob) <= MaxBlob PROVE ReadsOn(blob, todo, Append(rest, q), at) OBVIOUS
  <2>1. ReadsOn(blob, ops, values, at) BY DEF ParserInv
  <2>2. rest \in Seq(Tree) /\ l \in Tree /\ r \in Tree
    <3>1. \A x \in Node : x \in Tree BY NodesAreTrees
    <3> QED BY <1>6, <3>1
  <2>3. ReadsOn(blob, Append(todo, "cons"), Append(Append(rest, l), r), at) BY <1>2, <1>6, <2>1
  <2> QED BY <1>2, <1>3, <2>2, <2>3, ReadsOnJoin DEF q
<1>10. DepthsAre(E, ops', values') BY <1>1, <1>7
<1>11. values' = Append(rest, q) BY <1>1 DEF q
<1> QED BY <1>1, <1>2, <1>3, <1>8, <1>9, <1>10, <1>11 DEF ParserInv

LEMMA TakesAtomKeeps ==
  ASSUME ParserInv, TakesAtom PROVE ParserInv'
<1> DEFINE todo == Popped(ops)
           i == at + 1
           first == AtomSpan(i)[1]
           last == AtomSpan(i)[2]
           x == Leaf(SubSeq(blob, first, last))
<1>1. /\ values' = Append(values, x) /\ at' = last /\ ops' = todo /\ blob' = blob /\ AtomAt(i)
  BY DEF TakesAtom
<1>2. /\ ops = Append(todo, "read") /\ todo \in Seq(Op) /\ Len(todo) + 1 \in 1..(2 * MaxDepth)
      /\ Len(blob) <= MaxBlob /\ Len(blob) \in Nat
  BY TurnIs DEF TakesAtom
<1>3. blob \in Seq(Octet) /\ at \in 0..Len(blob) /\ values \in Seq(Node) BY DEF ParserInv
<1>4. PICK D : DepthsAre(D, ops, values) BY DEF ParserInv
<1>5. i \in 1..Len(blob)
  <2>1. i <= Len(blob) BY <1>1 DEF AtomAt
  <2> QED BY <1>2, <1>3, <2>1
<1>6. Reading(blob)[i] = {<<x, last + 1>>} /\ IsSpan(blob, i, first, last)
  BY <1>1, <1>2, <1>3, <1>5, ParserReads
<1>7. last \in i..Len(blob) /\ SubSeq(blob, first, last) \in Seq(Octet) BY <1>6 DEF IsSpan
<1>8. Placed(Len(todo) + 1, x)
  <2> DEFINE s == SubSeq(blob, first, last)
             d == Len(todo) + 1
  <2>1. s \in Seq(Octet) /\ d \in 1..(2 * MaxDepth) BY <1>2, <1>7
  <2> HIDE DEF s, d
  <2>2. Placed(d, Leaf(s)) BY <2>1, AtomPlaced
  <2> QED BY <2>2 DEF s, d
<1> HIDE DEF todo, i, last, x
<1>9. DepthsAre(Append(D, Len(todo) + 1), todo, Append(values, x))
  BY <1>2, <1>3, <1>4, <1>8, ReadPlaces
<1>10. x \in Node BY <1>8, PlacedIsNode
<1>11. ReadsOn(blob, todo, Append(values, x), at')
  <2>1. ReadsOn(blob, Append(todo, "read"), values, at) BY <1>2 DEF ParserInv
  <2>2. values \in Seq(Tree) /\ x \in Tree
    <3>1. \A y \in Node : y \in Tree BY NodesAreTrees
    <3> QED BY <1>3, <1>10, <3>1
  <2> DEFINE next == last + 1
  <2>3. at \in 0..(Len(blob) - 1) /\ next \in (at + 2)..(Len(blob) + 1) /\ next - 1 = last
    <3>1. i = at + 1 BY DEF i
    <3> QED BY <1>2, <1>3, <1>5, <1>7, <3>1
  <2>4. Reading(blob)[at + 1] = {<<x, next>>} BY <1>6 DEF i
  <2> HIDE DEF next
  <2>5. ReadsOn(blob, todo, Append(values, x), next - 1)
    BY <1>2, <1>3, <2>1, <2>2, <2>3, <2>4, ReadsOnAtom
  <2> QED BY <1>1, <2>3, <2>5
<1>12. Append(values, x) \in Seq(Node) /\ last \in 0..Len(blob)
  <2>1. i = at + 1 BY DEF i
  <2> QED BY <1>2, <1>3, <1>7, <1>10, <2>1
<1>13. \E E : DepthsAre(E, ops', values') BY <1>1, <1>9
<1> QED BY <1>1, <1>2, <1>3, <1>11, <1>12, <1>13 DEF ParserInv

LEMMA OpensPairKeeps ==
  ASSUME ParserInv, OpensPair PROVE ParserInv'
<1> DEFINE todo == Popped(ops)
           more == Append(Append(Append(todo, "cons"), "read"), "read")
<1>1. /\ values' = values /\ at' = at + 1 /\ blob' = blob /\ at < Len(blob)
      /\ blob[at + 1] = ConsOctet /\ ops' = todo \o <<"cons", "read", "read">>
  BY DEF OpensPair
<1>2. /\ ops = Append(todo, "read") /\ todo \in Seq(Op) /\ Len(blob) <= MaxBlob /\ Len(blob) \in Nat
  BY TurnIs DEF OpensPair
<1>3. blob \in Seq(Octet) /\ at \in 0..Len(blob) /\ values \in Seq(Node) BY DEF ParserInv
<1>4. PICK D : DepthsAre(D, ops, values) BY DEF ParserInv
<1>5. "cons" \in Op /\ "read" \in Op BY DEF Op
<1> HIDE DEF todo
<1>6. ops' = more BY <1>1, <1>2, <1>5, PushedAre
<1>7. more \in Seq(Op) BY <1>2, <1>5
<1>8. DepthsAre(D, more, values) BY <1>2, <1>4, OpenPlaces
<1>9. ReadsOn(blob, more, values, at + 1)
  <2>1. ReadsOn(blob, Append(todo, "read"), values, at) BY <1>2 DEF ParserInv
  <2>2. values \in Seq(Tree)
    <3>1. \A y \in Node : y \in Tree BY NodesAreTrees
    <3> QED BY <1>3, <3>1
  <2>3. at \in 0..(Len(blob) - 1) BY <1>1, <1>2, <1>3
  <2> QED BY <1>1, <1>2, <1>3, <2>1, <2>2, <2>3, ReadsOnPair
<1> HIDE DEF more
<1>10. \E E : DepthsAre(E, ops', values') BY <1>1, <1>6, <1>8
<1>11. at + 1 \in 0..Len(blob) BY <1>1, <1>2, <1>3
<1> QED BY <1>1, <1>3, <1>6, <1>7, <1>9, <1>10, <1>11 DEF ParserInv

LEMMA ParserStays ==
  ASSUME ParserInv, UNCHANGED parser PROVE ParserInv'
<1>1. blob' = blob /\ at' = at /\ ops' = ops /\ values' = values BY DEF parser
<1>2. PICK D : DepthsAre(D, ops, values) BY DEF ParserInv
<1>3. DepthsAre(D, ops', values') BY <1>1, <1>2
<1> QED BY <1>1, <1>3 DEF ParserInv

-----------------------------------------------------------------------------
(* What the parser ends with.                                              *)
LEMMA NothingDepths ==
  ASSUME NEW D, Depths(<< >>, D) PROVE D = <<1>>
<1> DEFINE X == Seq(Nat)
           one == <<1>>
<1>1. Runs(X, << >>, DepthStep, D, one) BY DEF Depths
<1> HIDE DEF X, one
<1>2. D = one BY <1>1, NothingToDo
<1> QED BY <1>2 DEF one

LEMMA ParserEnds ==
  ASSUME ParserInv, ops = << >>
  PROVE  /\ Len(values) = 1 /\ values = <<values[1]>> /\ values[1] \in Node
         /\ StackNeeded[values[1]] <= 2 * MaxDepth
         /\ Len(blob) <= MaxBlob => <<values[1], at + 1>> \in Reading(blob)[1]
<1>1. PICK D : DepthsAre(D, ops, values) BY DEF ParserInv
<1>2. D = <<1>>
  <2>1. Depths(<< >>, D) BY <1>1 DEF DepthsAre
  <2> QED BY <2>1, NothingDepths
<1>3. Len(values) = 1 /\ values \in Seq(Node)
  <2>1. Len(D) = 1 BY <1>2
  <2> QED BY <1>1, <2>1 DEF DepthsAre, ParserInv
<1>4. values = <<values[1]>> /\ values[1] \in Node BY <1>3
<1>5. StackNeeded[values[1]] <= 2 * MaxDepth
  <2>1. D[1] = 1 /\ 1 \in 1..Len(values) BY <1>2, <1>3
  <2>2. Placed(1, values[1]) BY <1>1, <2>1 DEF DepthsAre
  <2>3. StackNeeded[values[1]] \in Nat /\ MaxDepth \in Nat BY <2>2, PlacedIsNode, CodecAssumption
  <2> QED BY <2>2, <2>3 DEF Placed
<1>6. ASSUME Len(blob) <= MaxBlob PROVE <<values[1], at + 1>> \in Reading(blob)[1]
  <2> DEFINE root == values[1]
             end == at + 1
             f == Reading(blob)
             n == Len(blob)
  <2>1. n \in Nat /\ at \in 0..n /\ end \in Nat /\ end \in Int /\ end - 1 = at BY DEF ParserInv
  <2>2. root \in Tree BY <1>4, NodesAreTrees
  <2>3. values \in Seq(Tree)
    <3>1. \A y \in Node : y \in Tree BY NodesAreTrees
    <3> QED BY <1>3, <3>1
  <2>4. ReadsOn(blob, << >>, values, at) BY <1>6 DEF ParserInv
  <2>5. values = <<root>> BY <1>4
  <2> HIDE DEF root, end, f, n
  <2>6. IsAll(values, at, root, end) BY <2>1, <2>5 DEF IsAll
  <2>7. Completes(f, n, << >>, values, at, root, end) BY <2>1, <2>3, <2>6, DoneCompletes
  <2>8. <<root, end>> \in f[1] BY <2>1, <2>2, <2>4, <2>7 DEF ReadsOn, f, n
  <2> QED BY <2>8 DEF root, end, f
<1> QED BY <1>3, <1>4, <1>5, <1>6

(* What it refuses is too deep, if it is anything.                         *)
IsTooDeep(b) ==
  \A root \in Node : <<root, Len(b) + 1>> \in Reading(b)[1] => StackNeeded[root] > 2 * MaxDepth

LEMMA DeepRefused ==
  ASSUME ParserInv, ~TooLong, NEW root \in Node, <<root, Len(blob) + 1>> \in Reading(blob)[1],
         \/ TooDeep(ops)
         \/ Turn("read") /\ ~AtomAt(at + 1) /\ ~(at < Len(blob) /\ blob[at + 1] = ConsOctet)
         \/ ops = << >> /\ at # Len(blob)
  PROVE  StackNeeded[root] > 2 * MaxDepth
<1> DEFINE f == Reading(blob)
           n == Len(blob)
           end == n + 1
<1>1. /\ n \in Nat /\ at \in 0..n /\ end \in Nat /\ end \in Int /\ blob \in Seq(Octet) /\ n <= MaxBlob
      /\ ReadsTrees(f, n)
  <2>1. blob \in Seq(Octet) /\ at \in 0..Len(blob) BY DEF ParserInv
  <2>2. ReadsTrees(Reading(blob), Len(blob)) BY <2>1, ReadingTyped
  <2>3. MaxBlob \in Nat BY CodecAssumption
  <2> QED BY <2>1, <2>2, <2>3 DEF TooLong
<1>2. root \in Tree BY NodesAreTrees
<1>3. values \in Seq(Tree) /\ ops \in Seq(Op)
  <2>1. \A y \in Node : y \in Tree BY NodesAreTrees
  <2> QED BY <2>1 DEF ParserInv
<1>4. ReadsOn(blob, ops, values, at) BY <1>1 DEF ParserInv
<1>5. <<root, end>> \in f[1] OBVIOUS
<1>6. PICK D : DepthsAre(D, ops, values) BY DEF ParserInv
<1> HIDE DEF f, n, end
<1>7. Completes(f, n, ops, values, at, root, end)
  BY <1>1, <1>2, <1>4, <1>5 DEF ReadsOn, f, n
<1>8. CASE TooDeep(ops)
  <2>1. NeedsStack(f, n, ops, root, end) BY <1>1, <1>3, AllNeedStack
  <2>2. D \in Seq(Nat) /\ Len(D) = Len(values) /\ Depths(ops, D) BY <1>6 DEF DepthsAre
  <2>3. Len(ops) <= StackNeeded[root] BY <1>1, <1>3, <1>7, <2>1, <2>2 DEF NeedsStack
  <2>4. Len(ops) > 2 * MaxDepth BY <1>8 DEF TooDeep
  <2>5. StackNeeded[root] \in Nat /\ Len(ops) \in Nat /\ MaxDepth \in Nat
    BY <1>3, StackNeededUnrolls, CodecAssumption
  <2> QED BY <2>3, <2>4, <2>5
<1>9. CASE Turn("read") /\ ~AtomAt(at + 1) /\ ~(at < Len(blob) /\ blob[at + 1] = ConsOctet)
  <2> DEFINE todo == Popped(ops)
  <2>1. ops = Append(todo, "read") /\ todo \in Seq(Op) BY <1>9, TurnIs
  <2> HIDE DEF todo
  <2>2. f[at + 1] = {}
    <3>1. CASE at = n
      BY <1>1, <3>1 DEF ReadsTrees
    <3>2. CASE at # n
      <4>1. at + 1 \in 1..Len(blob) /\ at < Len(blob) /\ Len(blob) <= MaxBlob BY <1>1, <3>2 DEF n
      <4> DEFINE i == at + 1
      <4>2. i \in 1..Len(blob) /\ ~AtomAt(i) /\ blob[i] # ConsOctet BY <1>9, <4>1
      <4> HIDE DEF i
      <4>3. Reading(blob)[i] = {} BY <1>1, <4>1, <4>2, ParserReads
      <4> QED BY <4>3 DEF i, f
    <3> QED BY <3>1, <3>2
  <2>3. \E y \in f[at + 1] : Completes(f, n, todo, Append(values, y[1]), y[2] - 1, root, end)
    <3>1. Completes(f, n, Append(todo, "read"), values, at, root, end) BY <1>7, <2>1
    <3> QED BY <1>1, <1>3, <2>1, <3>1, ReadCompletes
  <2> QED BY <2>2, <2>3
<1>10. CASE ops = << >> /\ at # Len(blob)
  <2>1. Completes(f, n, << >>, values, at, root, end) BY <1>7, <1>10
  <2>2. IsAll(values, at, root, end) BY <1>1, <1>3, <2>1, DoneCompletes
  <2>3. at = end - 1 BY <2>2 DEF IsAll
  <2>4. end - 1 = n BY <1>1 DEF end
  <2> QED BY <1>10, <2>3, <2>4 DEF n
<1> QED BY <1>8, <1>9, <1>10

(* What has been decided once the parser is done.                          *)
Decided ==
  /\ stage = "malformed" => Len(blob) > MaxBlob \/ IsTooDeep(blob)
  /\ stage \notin {"parsing", "malformed"} => ops = << >> /\ at = Len(blob) /\ Len(blob) <= MaxBlob

LEMMA RefusesDecides ==
  ASSUME ParserInv, Refuses PROVE Decided'
<1>1. blob' = blob /\ stage' = "malformed" BY DEF Refuses, parser
<1>2. Len(blob) > MaxBlob \/ IsTooDeep(blob)
  <2>1. CASE TooLong BY <2>1 DEF TooLong
  <2>2. CASE ~TooLong
    <3> SUFFICES ASSUME NEW root \in Node, <<root, Len(blob) + 1>> \in Reading(blob)[1]
                 PROVE  StackNeeded[root] > 2 * MaxDepth
      BY DEF IsTooDeep
    <3>1. \/ TooDeep(ops)
          \/ Turn("read") /\ ~AtomAt(at + 1) /\ ~(at < Len(blob) /\ blob[at + 1] = ConsOctet)
          \/ ops = << >> /\ at # Len(blob)
      BY <2>2 DEF Refuses
    <3> QED BY <2>2, <3>1, DeepRefused
  <2> QED BY <2>1, <2>2
<1> QED BY <1>1, <1>2 DEF Decided, IsTooDeep

LEMMA ReturnsDecides ==
  ASSUME ParserInv, Returns PROVE Decided'
<1>1. /\ blob' = blob /\ ops' = ops /\ at' = at /\ stage' = "hashing" /\ ops = << >> /\ at = Len(blob)
      /\ ~TooLong
  BY DEF Returns, parser
<1>2. Len(blob) <= MaxBlob
  <2>1. Len(blob) \in Nat /\ MaxBlob \in Nat BY CodecAssumption DEF ParserInv
  <2> QED BY <1>1, <2>1 DEF TooLong
<1> QED BY <1>1, <1>2 DEF Decided

(* Later steps decide nothing else.                                        *)
LEMMA DecidedStays ==
  ASSUME Decided, blob' = blob, ops' = ops, at' = at,
         stage' # stage => stage' # "malformed" /\ stage \in {"hashing", "writing"}
  PROVE  Decided'
BY DEF Decided

-----------------------------------------------------------------------------
(* What is left to hash: a frame gives the hash of its node; one that is   *)
(* expanded takes the two hashes of the node's parts for it.               *)
Frames == Node \X BOOLEAN
Joining(fr) == isPair(fr[1]) /\ fr[2]
Hashes == {TreeHash[n] : n \in Node}

Combines(fr, a, c) ==
  IF Joining(fr)
    THEN \E s \in Seq(Hashes) :
           /\ a = Append(Append(s, TreeHash[fr[1].left]), TreeHash[fr[1].right])
           /\ c = Append(s, TreeHash[fr[1]])
    ELSE c = Append(a, TreeHash[fr[1]])

HashStep ==
  {x \in Nat \X Frames \X Seq(Hashes) \X Seq(Hashes) : Combines(x[2], x[3], x[4])}

HashesTo(todo, a, h) == Runs(Seq(Hashes), todo, HashStep, a, <<h>>)

LEMMA HashStepIs ==
  ASSUME NEW k \in Nat, NEW fr \in Frames, NEW a \in Seq(Hashes), NEW c \in Seq(Hashes)
  PROVE  <<k, fr, a, c>> \in HashStep <=> Combines(fr, a, c)
BY DEF HashStep

LEMMA NextHashes ==
  ASSUME NEW todo \in Seq(Frames), NEW fr \in Frames, NEW a \in Seq(Hashes), NEW h
  PROVE  HashesTo(Append(todo, fr), a, h) <=>
           \E c \in Seq(Hashes) : Combines(fr, a, c) /\ HashesTo(todo, c, h)
<1> DEFINE X == Seq(Hashes)
           b == <<h>>
           k == Len(todo) + 1
<1>1. k \in Nat /\ a \in X OBVIOUS
<1>2. \A c \in X : <<k, fr, a, c>> \in HashStep <=> Combines(fr, a, c) BY <1>1, HashStepIs
<1> HIDE DEF X, b, k
<1>3. Runs(X, Append(todo, fr), HashStep, a, b) <=> RunsOn(X, todo, fr, HashStep, a, b)
  BY <1>1, OneMoreToDo
<1> QED BY <1>2, <1>3 DEF HashesTo, RunsOn, X, b, k

LEMMA GivenHash ==
  ASSUME NEW todo \in Seq(Frames), NEW fr \in Frames, ~Joining(fr), NEW a \in Seq(Hashes), NEW h
  PROVE  HashesTo(Append(todo, fr), a, h) <=> HashesTo(todo, Append(a, TreeHash[fr[1]]), h)
<1> DEFINE c == Append(a, TreeHash[fr[1]])
<1>1. c \in Seq(Hashes)
  <2>1. TreeHash[fr[1]] \in Hashes BY DEF Hashes, Frames
  <2> QED BY <2>1
<1>2. \A x \in Seq(Hashes) : Combines(fr, a, x) <=> x = c BY DEF Combines
<1> HIDE DEF c
<1> QED BY <1>1, <1>2, NextHashes DEF c

HashesPairTo(todo, n, a, h) ==
  \E s \in Seq(Hashes) :
    /\ a = Append(Append(s, TreeHash[n.left]), TreeHash[n.right])
    /\ HashesTo(todo, Append(s, TreeHash[n]), h)

LEMMA JoinedHash ==
  ASSUME NEW todo \in Seq(Frames), NEW fr \in Frames, Joining(fr), NEW a \in Seq(Hashes), NEW h
  PROVE  HashesTo(Append(todo, fr), a, h) <=> HashesPairTo(todo, fr[1], a, h)
<1>1. \A s \in Seq(Hashes) : Append(s, TreeHash[fr[1]]) \in Seq(Hashes)
  <2>1. TreeHash[fr[1]] \in Hashes BY DEF Hashes, Frames
  <2> QED BY <2>1
<1>2. \A x \in Seq(Hashes) : Combines(fr, a, x) <=>
        \E s \in Seq(Hashes) : /\ a = Append(Append(s, TreeHash[fr[1].left]), TreeHash[fr[1].right])
                               /\ x = Append(s, TreeHash[fr[1]])
  BY DEF Combines
<1>3. HashesTo(Append(todo, fr), a, h) <=>
        \E c \in Seq(Hashes) : Combines(fr, a, c) /\ HashesTo(todo, c, h)
  BY NextHashes
<1> QED BY <1>1, <1>2, <1>3 DEF HashesPairTo

(* A pair is expanded.                                                     *)
LEMMA ExpandedHash ==
  ASSUME NEW todo \in Seq(Frames), NEW n \in Node, isPair(n), NEW a \in Seq(Hashes), NEW h,
         HashesTo(Append(todo, <<n, FALSE>>), a, h)
  PROVE  HashesTo(Append(Append(Append(todo, <<n, TRUE>>), <<n.right, FALSE>>), <<n.left, FALSE>>), a, h)
<1> DEFINE closed == <<n, FALSE>>
           open == <<n, TRUE>>
           right == <<n.right, FALSE>>
           left == <<n.left, FALSE>>
           hl == TreeHash[n.left]
           hr == TreeHash[n.right]
           hn == TreeHash[n]
<1>1. n.left \in Node /\ n.right \in Node BY NodeParts
<1>2. /\ closed \in Frames /\ open \in Frames /\ right \in Frames /\ left \in Frames
      /\ closed[1] = n /\ open[1] = n /\ right[1] = n.right /\ left[1] = n.left
      /\ ~Joining(closed) /\ Joining(open) /\ ~Joining(right) /\ ~Joining(left)
  BY <1>1 DEF Frames, Joining
<1>3. hl \in Hashes /\ hr \in Hashes /\ hn \in Hashes BY <1>1 DEF Hashes
<1>4. HashesTo(Append(todo, closed), a, h) OBVIOUS
<1> HIDE DEF closed, open, right, left
<1>5. HashesTo(todo, Append(a, hn), h) BY <1>2, <1>4, GivenHash
<1> DEFINE al == Append(a, hl)
           alr == Append(al, hr)
           one == Append(todo, open)
           two == Append(one, right)
<1>6. al \in Seq(Hashes) /\ alr \in Seq(Hashes) /\ one \in Seq(Frames) /\ two \in Seq(Frames)
  BY <1>2, <1>3
<1>7. HashesPairTo(todo, n, alr, h) BY <1>5 DEF HashesPairTo
<1> HIDE DEF al, alr, one, two, hl, hr, hn
<1>8. HashesTo(one, alr, h) BY <1>2, <1>6, <1>7, JoinedHash DEF one
<1>9. HashesTo(two, al, h)
  <2>1. HashesTo(one, Append(al, TreeHash[right[1]]), h) BY <1>2, <1>8 DEF alr, hr
  <2> QED BY <1>2, <1>6, <2>1, GivenHash DEF two
<1>10. HashesTo(Append(two, left), a, h)
  <2>1. HashesTo(two, Append(a, TreeHash[left[1]]), h) BY <1>2, <1>9 DEF al, hl
  <2> QED BY <1>2, <1>6, <2>1, GivenHash
<1> QED BY <1>10 DEF two, one, open, right, left

-----------------------------------------------------------------------------
(* A frame stands no deeper than the bound leaves room for its node.       *)
Roomy(k, fr) == ~Joining(fr) => k - 1 + StackNeeded[fr[1]] <= 2 * MaxDepth

FramesFit(s) == \A k \in 1..Len(s) : Roomy(k, s[k])

LEMMA FitsOfMore ==
  ASSUME NEW s \in Seq(Frames), NEW fr \in Frames
  PROVE  FramesFit(Append(s, fr)) <=> FramesFit(s) /\ Roomy(Len(s) + 1, fr)
<1> DEFINE t == Append(s, fr)
           n == Len(s)
<1>1. /\ t \in Seq(Frames) /\ Len(t) = n + 1 /\ n \in Nat /\ t[n + 1] = fr
      /\ \A j \in 1..n : t[j] = s[j]
  BY OneAppended
<1> HIDE DEF t, n
<1>2. n + 1 \in 1..(n + 1) /\ \A j \in 1..n : j \in 1..(n + 1) BY <1>1
<1>3. ASSUME FramesFit(t) PROVE FramesFit(s) /\ Roomy(n + 1, fr)
  <2>1. Roomy(n + 1, t[n + 1]) BY <1>1, <1>2, <1>3 DEF FramesFit
  <2>2. ASSUME NEW j \in 1..n PROVE Roomy(j, s[j])
    <3>1. j \in 1..Len(t) /\ t[j] = s[j] BY <1>1, <1>2
    <3>2. Roomy(j, t[j]) BY <1>3, <3>1 DEF FramesFit
    <3> QED BY <3>1, <3>2
  <2> QED BY <1>1, <2>1, <2>2 DEF FramesFit, n
<1>4. ASSUME FramesFit(s), Roomy(n + 1, fr) PROVE FramesFit(t)
  <2>1. ASSUME NEW j \in 1..Len(t) PROVE Roomy(j, t[j])
    <3>1. j \in 1..n \/ j = n + 1 BY <1>1
    <3>2. CASE j \in 1..n
      <4>1. Roomy(j, s[j]) BY <1>4, <3>2 DEF FramesFit, n
      <4> QED BY <1>1, <3>2, <4>1
    <3>3. CASE j = n + 1 BY <1>1, <1>4, <3>3
    <3> QED BY <3>1, <3>2, <3>3
  <2> QED BY <2>1 DEF FramesFit
<1> QED BY <1>3, <1>4 DEF t, n

(* There is room for the parts of a pair that fits.                        *)
LEMMA ExpandedFits ==
  ASSUME NEW s \in Seq(Frames), NEW n \in Node, isPair(n), FramesFit(Append(s, <<n, FALSE>>))
  PROVE  /\ Len(s) <= 2 * MaxDepth
         /\ FramesFit(Append(Append(Append(s, <<n, TRUE>>), <<n.right, FALSE>>), <<n.left, FALSE>>))
<1> DEFINE closed == <<n, FALSE>>
           open == <<n, TRUE>>
           right == <<n.right, FALSE>>
           left == <<n.left, FALSE>>
           one == Append(s, open)
           two == Append(one, right)
           k == Len(s) + 1
<1>1. n.left \in Node /\ n.right \in Node BY NodeParts
<1>2. /\ closed \in Frames /\ open \in Frames /\ right \in Frames /\ left \in Frames
      /\ closed[1] = n /\ open[1] = n /\ right[1] = n.right /\ left[1] = n.left
      /\ ~Joining(closed) /\ Joining(open)
  BY <1>1 DEF Frames, Joining
<1>3. /\ StackNeeded[n] \in Nat /\ StackNeeded[n.left] \in Nat /\ StackNeeded[n.right] \in Nat
      /\ StackNeeded[n] >= StackNeeded[n.left] + 2 /\ StackNeeded[n] >= StackNeeded[n.right] + 1
      /\ StackNeeded[n] >= 1 /\ MaxDepth \in Nat
  BY <1>1, StackNeededUnrolls, CodecAssumption
<1>4. FramesFit(Append(s, closed)) OBVIOUS
<1>5. one \in Seq(Frames) /\ Len(one) = k /\ two \in Seq(Frames) /\ Len(two) = k + 1 /\ k \in Nat
  BY <1>2
<1> HIDE DEF closed, open, right, left, one, two
<1>6. FramesFit(s) /\ Roomy(k, closed) BY <1>2, <1>4, FitsOfMore
<1>7. k - 1 + StackNeeded[n] <= 2 * MaxDepth BY <1>2, <1>6 DEF Roomy
<1>8. Roomy(k, open) BY <1>2 DEF Roomy
<1>9. Roomy(k + 1, right)
  <2>1. k + 1 - 1 + StackNeeded[n.right] <= 2 * MaxDepth BY <1>3, <1>5, <1>7
  <2> QED BY <1>2, <2>1 DEF Roomy
<1>10. Roomy(k + 2, left)
  <2>1. k + 2 - 1 + StackNeeded[n.left] <= 2 * MaxDepth BY <1>3, <1>5, <1>7
  <2> QED BY <1>2, <2>1 DEF Roomy
<1>11. FramesFit(one) BY <1>2, <1>6, <1>8, FitsOfMore DEF one
<1>12. FramesFit(two) BY <1>2, <1>5, <1>9, <1>11, FitsOfMore DEF two
<1>13. FramesFit(Append(two, left))
  <2>1. Len(two) + 1 = k + 2 BY <1>5
  <2> QED BY <1>2, <1>5, <1>10, <1>12, <2>1, FitsOfMore
<1>14. Len(s) <= 2 * MaxDepth BY <1>3, <1>5, <1>7
<1> QED BY <1>13, <1>14 DEF one, two, open, right, left

-----------------------------------------------------------------------------
(* The hasher: what is on its stacks becomes the hash of the tree, and the *)
(* bound on its stack is never met.                                        *)
HasherInv ==
  /\ stage = "parsing" => out = << >>
  /\ stage = "hashing" =>
       /\ stack \in Seq(Frames) /\ out \in Seq(Hashes)
       /\ HashesTo(stack, out, TreeHash[values[1]])
       /\ FramesFit(stack)
  /\ stage \in {"writing", "unwritable", "done"} => out = <<TreeHash[values[1]]>>
  /\ stage # "unhashable"

LEMMA ReturnsHashes ==
  ASSUME ParserInv, HasherInv, Returns PROVE HasherInv'
<1>1. /\ stage = "parsing" /\ stage' = "hashing" /\ values' = values /\ out' = out /\ ops = << >>
      /\ stack' = << <<values[1], FALSE>> >>
  BY DEF Returns, parser, hasher
<1> DEFINE fr == <<values[1], FALSE>>
           h == TreeHash[values[1]]
           none == << >>
<1>2. values[1] \in Node /\ StackNeeded[values[1]] <= 2 * MaxDepth BY <1>1, ParserEnds
<1>3. StackNeeded[values[1]] \in Nat BY <1>2, StackNeededUnrolls
<1>4. fr \in Frames /\ fr[1] = values[1] /\ ~Joining(fr) /\ h \in Hashes
  BY <1>2 DEF Frames, Joining, Hashes
<1>5. /\ none \in Seq(Frames) /\ none \in Seq(Hashes) /\ stack' = Append(none, fr) /\ out' = none
      /\ Append(none, h) = <<h>> /\ Len(none) = 0
  BY <1>1 DEF HasherInv
<1>6. HashesTo(Append(none, fr), none, h)
  <2> DEFINE X == Seq(Hashes)
             one == <<h>>
  <2>1. one \in X BY <1>4
  <2> HIDE DEF X, one
  <2>2. Runs(X, << >>, HashStep, one, one) BY <2>1, NothingToDo
  <2>3. HashesTo(none, Append(none, h), h) BY <1>5, <2>2 DEF HashesTo, X, one
  <2> HIDE DEF fr, none
  <2>4. HashesTo(none, Append(none, TreeHash[fr[1]]), h) BY <1>4, <2>3
  <2> QED BY <1>4, <1>5, <2>4, GivenHash
<1>7. FramesFit(Append(none, fr))
  <2>1. Roomy(0 + 1, fr) BY <1>2, <1>3, <1>4 DEF Roomy
  <2>2. FramesFit(none) BY <1>5 DEF FramesFit
  <2> HIDE DEF fr, none
  <2> QED BY <1>4, <1>5, <2>1, <2>2, FitsOfMore
<1>8. stack' \in Seq(Frames) /\ out' \in Seq(Hashes) BY <1>4, <1>5
<1> QED BY <1>1, <1>5, <1>6, <1>7, <1>8 DEF HasherInv

(* The frame on top.                                                       *)
LEMMA TopFrame ==
  ASSUME HasherInv, Hashing
  PROVE  /\ stack = Append(Popped(stack), Frame) /\ Popped(stack) \in Seq(Frames) /\ Frame \in Frames
         /\ Frame[1] \in Node /\ Frame = <<Frame[1], Frame[2]>> /\ Frame[2] \in BOOLEAN
         /\ out \in Seq(Hashes) /\ HashesTo(Append(Popped(stack), Frame), out, TreeHash[values[1]])
         /\ FramesFit(Append(Popped(stack), Frame)) /\ FramesFit(Popped(stack))
<1>1. /\ stack \in Seq(Frames) /\ stack # << >> /\ out \in Seq(Hashes) /\ FramesFit(stack)
      /\ HashesTo(stack, out, TreeHash[values[1]])
  BY DEF Hashing, HasherInv
<1>2. stack = Append(Popped(stack), Frame) /\ Popped(stack) \in Seq(Frames) /\ Frame \in Frames
  BY <1>1, StackTop DEF Frame
<1>3. FramesFit(Popped(stack))
  <2>1. FramesFit(Append(Popped(stack), Frame)) BY <1>1, <1>2
  <2> QED BY <1>2, <2>1, FitsOfMore
<1>4. Frame[1] \in Node /\ Frame = <<Frame[1], Frame[2]>> /\ Frame[2] \in BOOLEAN BY <1>2 DEF Frames
<1> QED BY <1>1, <1>2, <1>3, <1>4

LEMMA HashesAtomKeeps ==
  ASSUME HasherInv, HashesAtom PROVE HasherInv'
<1>1. /\ Hashing /\ ~isPair(Frame[1]) /\ out' = Append(out, atomHash(Frame[1].atom))
      /\ stack' = Popped(stack) /\ values' = values /\ stage' = stage /\ stage = "hashing"
  BY DEF HashesAtom, Hashing, parser
<1> DEFINE todo == Popped(stack)
           fr == Frame
           h == TreeHash[values[1]]
<1>2. /\ todo \in Seq(Frames) /\ fr \in Frames /\ fr[1] \in Node /\ out \in Seq(Hashes)
      /\ HashesTo(Append(todo, fr), out, h) /\ FramesFit(todo)
  BY <1>1, TopFrame
<1>3. TreeHash[fr[1]] = atomHash(fr[1].atom) BY <1>1, <1>2, TreeHashUnrolls
<1>4. ~Joining(fr) BY <1>1 DEF Joining
<1>5. stack' = todo /\ out' = Append(out, TreeHash[fr[1]]) BY <1>1, <1>3
<1> HIDE DEF todo, fr
<1>6. HashesTo(todo, Append(out, TreeHash[fr[1]]), h) BY <1>2, <1>4, GivenHash
<1>7. Append(out, TreeHash[fr[1]]) \in Seq(Hashes)
  <2>1. TreeHash[fr[1]] \in Hashes BY <1>2 DEF Hashes
  <2> QED BY <1>2, <2>1
<1> QED BY <1>1, <1>2, <1>5, <1>6, <1>7 DEF HasherInv

LEMMA HashesPairKeeps ==
  ASSUME HasherInv, HashesPair PROVE HasherInv'
<1>1. /\ Hashing /\ isPair(Frame[1]) /\ Frame[2]
      /\ out' = Append(Popped(Popped(out)), pairHash(Top(Popped(out)), Top(out)))
      /\ stack' = Popped(stack) /\ values' = values /\ stage' = stage /\ stage = "hashing"
  BY DEF HashesPair, Hashing, parser
<1> DEFINE todo == Popped(stack)
           fr == Frame
           h == TreeHash[values[1]]
<1>2. /\ todo \in Seq(Frames) /\ fr \in Frames /\ fr[1] \in Node /\ out \in Seq(Hashes)
      /\ HashesTo(Append(todo, fr), out, h) /\ FramesFit(todo)
  BY <1>1, TopFrame
<1>3. Joining(fr) BY <1>1 DEF Joining
<1> DEFINE hl == TreeHash[fr[1].left]
           hr == TreeHash[fr[1].right]
           hn == TreeHash[fr[1]]
<1>4. hn = pairHash(hl, hr) BY <1>1, <1>2, TreeHashUnrolls
<1>5. hl \in Hashes /\ hr \in Hashes /\ hn \in Hashes
  <2>1. fr[1].left \in Node /\ fr[1].right \in Node BY <1>1, <1>2, NodeParts
  <2> QED BY <1>2, <2>1 DEF Hashes
<1> HIDE DEF todo, fr, hl, hr, hn
<1>6. PICK s \in Seq(Hashes) : out = Append(Append(s, hl), hr) /\ HashesTo(todo, Append(s, hn), h)
  <2>1. HashesPairTo(todo, fr[1], out, h) BY <1>2, <1>3, JoinedHash
  <2> QED BY <2>1 DEF HashesPairTo, hl, hr, hn
<1>7. out' = Append(s, hn)
  <2>1. Len(out) >= 2
    <3>1. Len(out) = Len(s) + 2 /\ Len(s) \in Nat BY <1>5, <1>6, TwoAppended
    <3> QED BY <3>1
  <2> DEFINE r == Popped(Popped(out))
             x == Top(Popped(out))
             y == Top(out)
  <2>2. r \in Seq(Hashes) /\ x \in Hashes /\ y \in Hashes /\ out = Append(Append(r, x), y)
    BY <1>2, <2>1, TwoOnTop
  <2>3. out' = Append(r, pairHash(x, y)) BY <1>1
  <2> HIDE DEF r, x, y
  <2>4. Append(r, x) = Append(s, hl) /\ y = hr
    <3> DEFINE rx == Append(r, x)
               sl == Append(s, hl)
    <3>1. rx \in Seq(Hashes) /\ sl \in Seq(Hashes) /\ Append(rx, y) = Append(sl, hr)
      BY <1>5, <1>6, <2>2
    <3> HIDE DEF rx, sl
    <3>2. rx = sl /\ y = hr BY <1>5, <2>2, <3>1, AppendedAre
    <3> QED BY <3>2 DEF rx, sl
  <2>5. r = s /\ x = hl BY <1>5, <2>2, <2>4, AppendedAre
  <2> QED BY <1>4, <2>3, <2>4, <2>5
<1>8. Append(s, hn) \in Seq(Hashes) BY <1>5
<1>9. stack' = todo BY <1>1 DEF todo
<1> QED BY <1>1, <1>2, <1>6, <1>7, <1>8, <1>9 DEF HasherInv

LEMMA ExpandsKeeps ==
  ASSUME HasherInv, Expands PROVE HasherInv'
<1>1. /\ Hashing /\ isPair(Frame[1]) /\ ~Frame[2] /\ out' = out /\ values' = values
      /\ stage = "hashing"
      /\ IF TooDeep(Popped(stack)) THEN stage' = "unhashable" /\ stack' = stack
         ELSE stack' = Unfolded /\ stage' = stage
  BY DEF Expands, Hashing, parser, hasher
<1> DEFINE todo == Popped(stack)
           n == Frame[1]
           h == TreeHash[values[1]]
           open == <<n, TRUE>>
           right == <<n.right, FALSE>>
           left == <<n.left, FALSE>>
           more == Append(Append(Append(todo, open), right), left)
<1>2. /\ todo \in Seq(Frames) /\ Frame \in Frames /\ n \in Node /\ out \in Seq(Hashes)
      /\ HashesTo(Append(todo, Frame), out, h) /\ FramesFit(Append(todo, Frame))
      /\ Frame = <<n, Frame[2]>> /\ Frame[2] \in BOOLEAN
  BY <1>1, TopFrame
<1>3. Frame = <<n, FALSE>> BY <1>1, <1>2
<1>4. n.left \in Node /\ n.right \in Node BY <1>1, <1>2, NodeParts
<1>5. open \in Frames /\ right \in Frames /\ left \in Frames BY <1>2, <1>4 DEF Frames
<1>6. Unfolded = more
  <2>1. Unfolded = todo \o <<open, right, left>> BY DEF Unfolded
  <2> HIDE DEF todo, open, right, left
  <2> QED BY <1>2, <1>5, <2>1, PushedAre
<1>7. isPair(n) BY <1>1
<1> HIDE DEF todo, n
<1>8. Len(todo) <= 2 * MaxDepth /\ FramesFit(more) BY <1>2, <1>3, <1>7, ExpandedFits
<1>9. HashesTo(more, out, h) BY <1>2, <1>3, <1>7, ExpandedHash
<1>10. more \in Seq(Frames) BY <1>2, <1>5
<1>11. ~TooDeep(Popped(stack))
  <2>1. Len(todo) \in Nat /\ MaxDepth \in Nat BY <1>2, CodecAssumption
  <2> QED BY <1>8, <2>1 DEF TooDeep, todo
<1> HIDE DEF more
<1>12. stack' = more /\ stage' = "hashing" BY <1>1, <1>6, <1>11
<1> QED BY <1>1, <1>2, <1>8, <1>9, <1>10, <1>12 DEF HasherInv

LEMMA HashedKeeps ==
  ASSUME HasherInv, Hashed
  PROVE  HasherInv' /\ out = <<TreeHash[values[1]]>>
<1>1. /\ stage = "hashing" /\ stack = << >> /\ stage' = "writing" /\ values' = values /\ out' = out
  BY DEF Hashed, parser, hasher
<1> DEFINE X == Seq(Hashes)
           b == <<TreeHash[values[1]]>>
<1>2. Runs(X, << >>, HashStep, out, b) BY <1>1 DEF HasherInv, HashesTo
<1> HIDE DEF X, b
<1>3. out = b BY <1>2, NothingToDo
<1> QED BY <1>1, <1>3 DEF HasherInv, b

-----------------------------------------------------------------------------
(* The header that is written before n octets.                             *)
HeaderLength(n) ==
  CHOOSE j \in 1..LongWritten : n < Capacity(j) /\ \A h \in 1..(j - 1) : n >= Capacity(h)

Place(k, j) == 2^((k - j) * OctetBits)

HeaderOctet(n, k, j) == (IF j = 1 THEN FirstOf(k) ELSE 0) + ((n \div Place(k, j)) % 2^OctetBits)

LEMMA CapacityIs ==
  ASSUME NEW k \in 1..LongHeader
  PROVE  /\ Capacity(k) \in Nat /\ 2^(OctetBits - 1 - k) \in Nat /\ 2^(OctetBits - 1 - k) >= 1
         /\ Place(k, 1) \in Nat /\ Place(k, 1) >= 1
         /\ Capacity(k) = 2^(OctetBits - 1 - k) * Place(k, 1)
<1> DEFINE a == OctetBits - 1 - k
           b == (k - 1) * OctetBits
<1>1. k - 1 \in Nat /\ OctetBits \in Nat /\ a \in Nat BY Widths
<1>2. b \in Nat BY <1>1
<1>3. Capacity(k) = 2^(a + b) BY DEF Capacity
<1>4. Place(k, 1) = 2^b BY DEF Place
<1> HIDE DEF a, b
<1>5. 2^(a + b) = 2^a * 2^b BY <1>1, <1>2, PowersMultiply
<1>6. a + b \in Nat BY <1>1, <1>2
<1> DEFINE c == a + b
<1> HIDE DEF c
<1>7. 2^c \in Nat BY <1>6, TwoPowers DEF c
<1>8. 2^a \in Nat /\ 2^a >= 1 BY <1>1, TwoPowers
<1>9. 2^b \in Nat /\ 2^b >= 1 BY <1>2, TwoPowers
<1> QED BY <1>3, <1>4, <1>5, <1>7, <1>8, <1>9 DEF a, c

LEMMA ProductsGrow ==
  ASSUME NEW m \in Nat, NEW a \in Int, NEW b \in Int, a <= b
  PROVE  m * a <= m * b
<1>1. m * b - m * a = m * (b - a) OBVIOUS
<1> DEFINE d == b - a
<1>2. d \in Nat OBVIOUS
<1> HIDE DEF d
<1>3. m * d \in Nat BY <1>2
<1>4. m * b - m * a \in Nat BY <1>1, <1>3 DEF d
<1> QED BY <1>4

LEMMA HeaderLengthIs ==
  ASSUME NEW n \in Nat, n < Capacity(LongWritten)
  PROVE  LET k == HeaderLength(n) IN
         k \in 1..LongWritten /\ n < Capacity(k) /\ \A h \in 1..(k - 1) : n >= Capacity(h)
<1> DEFINE T == {j \in Nat : j \in 1..LongWritten /\ n < Capacity(j)}
           P(j) == n < Capacity(j) /\ \A h \in 1..(j - 1) : n >= Capacity(h)
<1>1. LongWritten \in 1..LongWritten /\ LongWritten \in Nat BY Widths
<1>2. T # {} /\ T \in SUBSET Nat BY <1>1
<1>3. PICK m \in T : \A k \in T : m <= k
  <2> HIDE DEF T
  <2> QED BY <1>2, LeastNatural
<1>4. P(m)
  <2>1. n < Capacity(m) BY <1>3
  <2>2. ASSUME NEW h \in 1..(m - 1) PROVE n >= Capacity(h)
    <3>1. h \in Nat /\ h \in 1..LongWritten /\ ~(m <= h) /\ h \in 1..LongHeader
      BY <1>1, <1>3, Widths
    <3>2. ~(n < Capacity(h)) BY <1>3, <3>1
    <3>3. Capacity(h) \in Nat BY <3>1, CapacityIs
    <3> QED BY <3>2, <3>3
  <2> QED BY <2>1, <2>2
<1>5. \E j \in 1..LongWritten : P(j) BY <1>3, <1>4
<1>6. HeaderLength(n) = CHOOSE j \in 1..LongWritten : P(j) BY DEF HeaderLength
<1> HIDE DEF P
<1>7. HeaderLength(n) \in 1..LongWritten /\ P(HeaderLength(n)) BY <1>5, <1>6
<1> QED BY <1>7 DEF P

LEMMA FirstHeaderOctet ==
  ASSUME NEW k \in 1..LongHeader, NEW n \in Nat, n < Capacity(k)
  PROVE  /\ n \div Place(k, 1) \in Nat
         /\ HeaderOctet(n, k, 1) = FirstOf(k) + n \div Place(k, 1)
         /\ HeaderOctet(n, k, 1) \in Octet /\ Heads(HeaderOctet(n, k, 1), k)
<1> DEFINE m == Place(k, 1)
           c == 2^(OctetBits - 1 - k)
           d == n \div m
           w == 2^OctetBits
<1>1. m \in Nat /\ m >= 1 /\ c \in Nat /\ c >= 1 /\ n < c * m BY CapacityIs
<1>2. k \in 0..OctetBits /\ k < OctetBits /\ k + 1 \in 0..OctetBits /\ w \in Nat /\ w >= 2 BY Widths
<1>3. /\ FirstOf(k) \in Octet /\ FirstOf(k + 1) \in Octet /\ FirstOf(k + 1) = FirstOf(k) + c
  <2>1. FirstOf(k) \in Octet /\ FirstOf(k + 1) = FirstOf(k) + 2^(OctetBits - 1 - k)
    BY <1>2, FirstOctets
  <2>2. FirstOf(k + 1) \in Octet BY <1>2, FirstOctets
  <2> QED BY <2>1, <2>2
<1>4. Octet = 0..(w - 1) BY Widths
<1> HIDE DEF m, c, w
<1>5. d \in Int /\ n % m \in 0..(m - 1) /\ n = m * d + (n % m) BY <1>1, Divides
<1> DEFINE r == n % m
<1> HIDE DEF d, r
<1>6. d \in Int /\ r \in 0..(m - 1) /\ n = m * d + r BY <1>5 DEF d, r
<1>7. d >= 0
  <2> SUFFICES ASSUME d <= -1 PROVE FALSE BY <1>6
  <2>1. m * d <= m * (-1) BY <1>1, <1>6, ProductsGrow
  <2>2. m * (-1) = -m /\ m * d \in Int BY <1>1, <1>6
  <2> QED BY <1>6, <2>1, <2>2, <1>1
<1>8. d < c
  <2> SUFFICES ASSUME c <= d PROVE FALSE BY <1>1, <1>6
  <2>1. m * c <= m * d BY <1>1, <1>6, ProductsGrow
  <2>2. m * c = c * m /\ m * c \in Int /\ m * d \in Int BY <1>1, <1>6
  <2> QED BY <1>1, <1>6, <2>1, <2>2
<1>9. d \in Nat /\ d < w /\ FirstOf(k) + d \in Octet BY <1>2, <1>3, <1>4, <1>6, <1>7, <1>8, <1>1
<1>10. d % w = d BY <1>2, <1>9
<1>11. HeaderOctet(n, k, 1) = FirstOf(k) + d BY <1>10 DEF HeaderOctet, d, m, w
<1>12. Heads(FirstOf(k) + d, k)
  <2> DEFINE f == FirstOf(k)
             g == FirstOf(k + 1)
  <2>1. f \in Nat /\ g = f + c BY <1>2, <1>3, <1>4
  <2> HIDE DEF f, g
  <2>2. f <= f + d /\ f + d < g BY <1>1, <1>8, <1>9, <2>1
  <2> QED BY <1>2, <2>2 DEF Heads, f, g
<1> QED BY <1>9, <1>11, <1>12 DEF d, m

LEMMA PlaceIs ==
  ASSUME NEW k \in 1..LongHeader, NEW j \in 1..k
  PROVE  /\ Place(k, j) \in Nat /\ Place(k, j) >= 1
         /\ Place(k, k) = 1
         /\ j < k => Place(k, j) = Place(k, j + 1) * 2^OctetBits
<1> DEFINE e == (k - j) * OctetBits
<1>1. k - j \in Nat /\ OctetBits \in Nat BY Widths
<1>2. e \in Nat BY <1>1
<1> HIDE DEF e
<1>3. 2^e \in Nat /\ 2^e >= 1 BY <1>2, TwoPowers
<1>4. Place(k, j) = 2^e BY DEF Place, e
<1>5. Place(k, k) = 1
  <2>1. (k - k) * OctetBits = 0 BY <1>1
  <2>2. Place(k, k) = 2^0 BY <2>1 DEF Place
  <2> QED BY <2>2, PowerOfNothing
<1>6. ASSUME j < k PROVE Place(k, j) = Place(k, j + 1) * 2^OctetBits
  <2> DEFINE b == (k - (j + 1)) * OctetBits
  <2>1. k - (j + 1) \in Nat BY <1>6
  <2>2. b \in Nat /\ e = b + OctetBits BY <1>1, <2>1 DEF e
  <2> HIDE DEF b
  <2>3. 2^(b + OctetBits) = 2^b * 2^OctetBits BY <1>1, <2>2, PowersMultiply
  <2>4. Place(k, j + 1) = 2^b BY DEF Place, b
  <2> QED BY <1>4, <2>2, <2>3, <2>4
<1> QED BY <1>3, <1>4, <1>5, <1>6

LEMMA HeaderIs ==
  ASSUME NEW n \in Nat, n < Capacity(LongWritten)
  PROVE  LET k == HeaderLength(n) IN
         /\ HeaderFor(n) \in Seq(Octet) /\ Len(HeaderFor(n)) = k /\ k \in 1..LongHeader
         /\ \A j \in 1..k : HeaderFor(n)[j] = HeaderOctet(n, k, j)
         /\ Heads(HeaderFor(n)[1], k)
         /\ n < Capacity(k) /\ \A h \in 1..(k - 1) : n >= Capacity(h)
<1> DEFINE k == HeaderLength(n)
           s == [j \in 1..k |-> HeaderOctet(n, k, j)]
<1>1. k \in 1..LongWritten /\ n < Capacity(k) /\ \A h \in 1..(k - 1) : n >= Capacity(h)
  BY HeaderLengthIs
<1>2. HeaderFor(n) = s BY DEF HeaderFor, HeaderLength, HeaderOctet, Place
<1>3. k \in 1..LongHeader /\ k \in Nat BY <1>1, Widths
<1> HIDE DEF k
<1>4. ASSUME NEW j \in 1..k PROVE HeaderOctet(n, k, j) \in Octet
  <2>1. CASE j = 1 BY <1>1, <1>3, <2>1, FirstHeaderOctet
  <2>2. CASE j # 1
    <3> DEFINE q == n \div Place(k, j)
               w == 2^OctetBits
    <3>1. Place(k, j) \in Nat /\ Place(k, j) >= 1 BY <1>3, PlaceIs
    <3>2. q \in Int BY <3>1, Divides
    <3>3. w \in Nat /\ w >= 1 /\ Octet = 0..(w - 1) BY Widths
    <3> HIDE DEF q, w
    <3>4. q % w \in 0..(w - 1) BY <3>2, <3>3, Divides
    <3>5. HeaderOctet(n, k, j) = 0 + (q % w) BY <2>2 DEF HeaderOctet, q, w
    <3> QED BY <3>3, <3>4, <3>5
  <2> QED BY <2>1, <2>2
<1>5. s \in Seq(Octet) /\ Len(s) = k /\ \A j \in 1..k : s[j] = HeaderOctet(n, k, j)
  BY <1>3, <1>4
<1>6. 1 \in 1..k /\ Heads(HeaderOctet(n, k, 1), k) BY <1>1, <1>3, FirstHeaderOctet
<1> HIDE DEF s
<1> QED BY <1>1, <1>2, <1>3, <1>5, <1>6 DEF k

-----------------------------------------------------------------------------
(* What serialize writes for a tree; an atom that is too large is written  *)
(* here as a longer sequence, so that it is not one that was read.         *)
AtomOctets(s) == IF Len(s) < Capacity(LongWritten) THEN encodeAtom(s) ELSE <<0>> \o s

Serializes(f) ==
  Recursive(f, Seq(Octet),
            [n \in Node |-> IF isPair(n) THEN << >> ELSE AtomOctets(n.atom)],
            [x \in Node \X Seq(Octet) \X Seq(Octet) |-> (<<ConsOctet>> \o x[2]) \o x[3]])

Serial == CHOOSE f : Serializes(f)

LEMMA AtomOctetsAre ==
  ASSUME NEW s \in Seq(Octet)
  PROVE  AtomOctets(s) \in Seq(Octet) /\ Len(AtomOctets(s)) >= 1 /\ Len(AtomOctets(s)) >= Len(s)
<1>1. Len(s) \in Nat OBVIOUS
<1>2. CASE ~(Len(s) < Capacity(LongWritten))
  <2>1. AtomOctets(s) = <<0>> \o s BY <1>2 DEF AtomOctets
  <2> DEFINE z == <<0>>
  <2>2. z \in Seq(Octet) /\ Len(z) = 1
    <3>1. 0 \in Octet BY Widths
    <3> QED BY <3>1
  <2> HIDE DEF z
  <2>3. z \o s \in Seq(Octet) /\ Len(z \o s) = Len(z) + Len(s) BY <2>2, ConcatProperties
  <2> QED BY <1>1, <2>1, <2>2, <2>3 DEF z
<1>3. CASE Len(s) < Capacity(LongWritten)
  <2>1. AtomOctets(s) = encodeAtom(s) BY <1>3 DEF AtomOctets
  <2>2. CASE Len(s) = 1 /\ s[1] < FirstOf(1) BY <2>1, <2>2 DEF encodeAtom
  <2>3. CASE ~(Len(s) = 1 /\ s[1] < FirstOf(1))
    <3> DEFINE h == HeaderFor(Len(s))
    <3>1. encodeAtom(s) = h \o s BY <2>3 DEF encodeAtom
    <3>2. h \in Seq(Octet) /\ Len(h) >= 1
      <4> DEFINE n == Len(s)
      <4> HIDE DEF n
      <4>1. n \in Nat /\ n < Capacity(LongWritten) BY <1>1, <1>3 DEF n
      <4>2. HeaderFor(n) \in Seq(Octet) /\ Len(HeaderFor(n)) \in 1..LongHeader BY <4>1, HeaderIs
      <4>3. Len(HeaderFor(n)) >= 1 BY <4>2, Widths
      <4> QED BY <4>2, <4>3 DEF n
    <3> HIDE DEF h
    <3>3. h \o s \in Seq(Octet) /\ Len(h \o s) = Len(h) + Len(s) /\ Len(h) \in Nat
      BY <3>2, ConcatProperties
    <3> QED BY <1>1, <2>1, <3>1, <3>2, <3>3
  <2> QED BY <2>2, <2>3
<1> QED BY <1>2, <1>3

LEMMA SerialIs == Serializes(Serial)
<1> DEFINE V == Seq(Octet)
           leaf == [n \in Node |-> IF isPair(n) THEN << >> ELSE AtomOctets(n.atom)]
           join == [x \in Node \X V \X V |-> (<<ConsOctet>> \o x[2]) \o x[3]]
<1>1. leaf \in [Node -> V]
  <2>1. ASSUME NEW n \in Node PROVE (IF isPair(n) THEN << >> ELSE AtomOctets(n.atom)) \in V
    <3>1. ~isPair(n) => n.atom \in Seq(Octet) BY NodeParts
    <3>2. ~isPair(n) => AtomOctets(n.atom) \in V BY <3>1, AtomOctetsAre
    <3> QED BY <3>2
  <2> QED BY <2>1
<1>2. join \in [Node \X V \X V -> V]
  <2>1. ASSUME NEW x \in Node \X V \X V PROVE (<<ConsOctet>> \o x[2]) \o x[3] \in V
    <3> DEFINE c == <<ConsOctet>>
               l == x[2]
               r == x[3]
    <3>1. c \in V /\ l \in V /\ r \in V
      <4>1. ConsOctet \in Octet BY Widths
      <4> QED BY <4>1
    <3> HIDE DEF c, l, r
    <3>2. (c \o l) \o r \in V
      <4>1. c \o l \in V BY <3>1, ConcatProperties
      <4> QED BY <3>1, <4>1, ConcatProperties
    <3> QED BY <3>2 DEF c, l, r
  <2> QED BY <2>1
<1> HIDE DEF leaf, join, V
<1>3. \E f : Recursive(f, V, leaf, join) BY <1>1, <1>2, TreeRecursion
<1>4. \E f : Serializes(f) BY <1>3 DEF Serializes, V, leaf, join
<1> QED BY <1>4 DEF Serial

LEMMA SerialUnrolls ==
  ASSUME NEW n \in Node
  PROVE  /\ Serial[n] \in Seq(Octet) /\ Len(Serial[n]) \in Nat /\ Len(Serial[n]) >= 1
         /\ ~isPair(n) => Serial[n] = AtomOctets(n.atom) /\ Len(Serial[n]) >= Len(n.atom)
         /\ isPair(n) => /\ Serial[n] = (<<ConsOctet>> \o Serial[n.left]) \o Serial[n.right]
                         /\ Len(Serial[n]) = 1 + Len(Serial[n.left]) + Len(Serial[n.right])
<1>1. \A m \in Node : Serial[m] \in Seq(Octet)
  <2>1. Serial \in [Node -> Seq(Octet)] BY SerialIs DEF Serializes, Recursive
  <2> QED BY <2>1
<1>2. CASE ~isPair(n)
  <2> DEFINE leaf == [m \in Node |-> IF isPair(m) THEN << >> ELSE AtomOctets(m.atom)]
  <2>1. leaf[n] = AtomOctets(n.atom) BY <1>2
  <2> HIDE DEF leaf
  <2>2. Serial[n] = leaf[n] BY <1>2, SerialIs DEF Serializes, Recursive, leaf
  <2>3. n.atom \in Seq(Octet) BY <1>2, NodeParts
  <2>4. Len(AtomOctets(n.atom)) >= 1 /\ Len(AtomOctets(n.atom)) >= Len(n.atom) BY <2>3, AtomOctetsAre
  <2>5. Serial[n] = AtomOctets(n.atom) BY <2>1, <2>2
  <2>6. Len(Serial[n]) \in Nat BY <1>1
  <2> QED BY <1>1, <1>2, <2>4, <2>5, <2>6
<1>3. CASE isPair(n)
  <2> DEFINE V == Seq(Octet)
             join == [x \in Node \X V \X V |-> (<<ConsOctet>> \o x[2]) \o x[3]]
             l == Serial[n.left]
             r == Serial[n.right]
             c == <<ConsOctet>>
             t == <<n, l, r>>
  <2>1. n.left \in Node /\ n.right \in Node BY <1>3, NodeParts
  <2>2. l \in V /\ r \in V BY <1>1, <2>1
  <2>3. c \in V /\ Len(c) = 1
    <3>1. ConsOctet \in Octet BY Widths
    <3> QED BY <3>1
  <2>4. join[t] = (c \o l) \o r
    <3>1. t \in Node \X V \X V /\ t[2] = l /\ t[3] = r BY <2>2
    <3> HIDE DEF t, c, l, r
    <3> QED BY <3>1 DEF c
  <2>5. Serial[n] = join[t]
    <3> HIDE DEF join
    <3> QED BY <1>3, SerialIs DEF Serializes, Recursive, join
  <2> HIDE DEF l, r, c, V, join, t
  <2>6. /\ Serial[n] = (c \o l) \o r /\ Len((c \o l) \o r) = 1 + Len(l) + Len(r)
        /\ Len(l) \in Nat /\ Len(r) \in Nat
    <3> DEFINE cl == c \o l
    <3>1. cl \in V /\ Len(cl) = 1 + Len(l) BY <2>2, <2>3, ConcatProperties DEF V
    <3>2. Len(l) \in Nat /\ Len(r) \in Nat BY <2>2 DEF V
    <3> HIDE DEF cl
    <3>3. Len(cl \o r) = Len(cl) + Len(r) BY <2>2, <3>1, ConcatProperties DEF V
    <3> QED BY <2>4, <2>5, <3>1, <3>2, <3>3 DEF cl
  <2>7. Len(Serial[n]) = 1 + Len(l) + Len(r) /\ Len(Serial[n]) \in Nat /\ Len(Serial[n]) >= 1 BY <2>6
  <2> QED BY <1>1, <1>3, <2>6, <2>7 DEF l, r, c
<1> QED BY <1>2, <1>3

-----------------------------------------------------------------------------
(* What is left to write.                                                  *)
WriteStep ==
  {x \in Nat \X Node \X Seq(Octet) \X Seq(Octet) : x[4] = x[3] \o Serial[x[2]]}

WritesTo(todo, a, b) == Runs(Seq(Octet), todo, WriteStep, a, b)

LEMMA WriteStepIs ==
  ASSUME NEW k \in Nat, NEW n \in Node, NEW a \in Seq(Octet), NEW c \in Seq(Octet)
  PROVE  <<k, n, a, c>> \in WriteStep <=> c = a \o Serial[n]
<1> DEFINE x == <<k, n, a, c>>
<1>1. x \in Nat \X Node \X Seq(Octet) \X Seq(Octet) /\ x[4] = c /\ x[3] = a /\ x[2] = n OBVIOUS
<1> HIDE DEF x
<1> QED BY <1>1 DEF WriteStep, x

LEMMA NextWrites ==
  ASSUME NEW todo \in Seq(Node), NEW n \in Node, NEW a \in Seq(Octet), NEW b
  PROVE  WritesTo(Append(todo, n), a, b) <=> WritesTo(todo, a \o Serial[n], b)
<1> DEFINE X == Seq(Octet)
           k == Len(todo) + 1
           d == a \o Serial[n]
<1>1. k \in Nat /\ a \in X /\ d \in X
  <2>1. Serial[n] \in Seq(Octet) BY SerialUnrolls
  <2> QED BY <2>1, ConcatProperties
<1>2. \A c \in X : <<k, n, a, c>> \in WriteStep <=> c = d BY <1>1, WriteStepIs
<1> HIDE DEF X, k, d
<1>3. Runs(X, Append(todo, n), WriteStep, a, b) <=> RunsOn(X, todo, n, WriteStep, a, b)
  BY <1>1, OneMoreToDo
<1> QED BY <1>1, <1>2, <1>3 DEF WritesTo, RunsOn, X, k, d

(* The octet that opens a pair, then its two nodes.                        *)
LEMMA OpenedWrites ==
  ASSUME NEW todo \in Seq(Node), NEW n \in Node, isPair(n), NEW a \in Seq(Octet), NEW b,
         WritesTo(Append(todo, n), a, b)
  PROVE  WritesTo(Append(Append(todo, n.right), n.left), a \o <<ConsOctet>>, b)
<1> DEFINE l == Serial[n.left]
           r == Serial[n.right]
           c == <<ConsOctet>>
           ac == a \o c
           acl == ac \o l
           cl == c \o l
           one == Append(todo, n.right)
<1>1. n.left \in Node /\ n.right \in Node BY NodeParts
<1>2. l \in Seq(Octet) /\ r \in Seq(Octet) BY <1>1, SerialUnrolls
<1>3. c \in Seq(Octet)
  <2>1. ConsOctet \in Octet BY Widths
  <2> QED BY <2>1
<1>4. Serial[n] = cl \o r BY SerialUnrolls
<1>5. one \in Seq(Node) BY <1>1
<1> HIDE DEF one, l, r, c
<1>6. ac \in Seq(Octet) /\ cl \in Seq(Octet) BY <1>2, <1>3, ConcatProperties
<1>7. acl = a \o cl BY <1>2, <1>3, ConcatAssociative
<1> HIDE DEF ac, cl
<1>8. (a \o cl) \o r = a \o (cl \o r) BY <1>2, <1>6, ConcatAssociative
<1>9. acl \in Seq(Octet) BY <1>2, <1>6, ConcatProperties
<1> HIDE DEF acl
<1>10. WritesTo(todo, acl \o r, b)
  <2>1. WritesTo(todo, a \o Serial[n], b) BY NextWrites
  <2> QED BY <1>4, <1>7, <1>8, <2>1
<1>11. WritesTo(one, acl, b) BY <1>1, <1>9, <1>10, NextWrites DEF one, r
<1>12. WritesTo(Append(one, n.left), ac, b) BY <1>1, <1>5, <1>6, <1>11, NextWrites DEF acl, l
<1> QED BY <1>12 DEF one, ac, c

(* Every node takes an octet at least.                                     *)
Grows(todo) ==
  \A a \in Seq(Octet) : \A b \in Seq(Octet) : WritesTo(todo, a, b) => Len(a) + Len(todo) <= Len(b)

LEMMA WritesGrow ==
  ASSUME NEW todo \in Seq(Node)
  PROVE  Grows(todo)
<1> DEFINE T == {m \in Nat : \A t \in Seq(Node) : Len(t) = m => Grows(t)}
<1>1. 0 \in T
  <2> SUFFICES ASSUME NEW t \in Seq(Node), Len(t) = 0 PROVE Grows(t) OBVIOUS
  <2>1. t = << >> OBVIOUS
  <2>2. ASSUME NEW a \in Seq(Octet), NEW b \in Seq(Octet), WritesTo(t, a, b)
        PROVE  Len(a) + Len(t) <= Len(b)
    <3>1. a = b BY <2>1, <2>2, NothingToDo DEF WritesTo
    <3> QED BY <3>1
  <2> QED BY <2>2 DEF Grows
<1>2. ASSUME NEW m \in Nat, m \in T PROVE m + 1 \in T
  <2> SUFFICES ASSUME NEW t \in Seq(Node), Len(t) = m + 1 PROVE Grows(t) OBVIOUS
  <2> DEFINE u == Popped(t)
             n == Top(t)
  <2>1. /\ t = Append(u, n) /\ u \in Seq(Node) /\ n \in Node /\ Len(u) = m
    <3>1. t # << >> OBVIOUS
    <3>2. /\ t = Append(u, n) /\ u \in Seq(Node) /\ n \in Node
          /\ Len(t) = Len(u) + 1 /\ Len(u) \in Nat
      BY <3>1, StackTop
    <3> QED BY <3>2
  <2> HIDE DEF u, n
  <2>2. Grows(u) BY <1>2, <2>1
  <2>3. ASSUME NEW a \in Seq(Octet), NEW b \in Seq(Octet), WritesTo(t, a, b)
        PROVE  Len(a) + Len(t) <= Len(b)
    <3> DEFINE d == a \o Serial[n]
    <3>1. Serial[n] \in Seq(Octet) /\ Len(Serial[n]) \in Nat /\ Len(Serial[n]) >= 1
      BY <2>1, SerialUnrolls
    <3>2. d \in Seq(Octet) /\ Len(d) = Len(a) + Len(Serial[n]) BY <3>1, ConcatProperties
    <3>3. WritesTo(u, d, b) BY <2>1, <2>3, NextWrites
    <3> HIDE DEF d
    <3>4. Len(d) + Len(u) <= Len(b) BY <2>2, <3>2, <3>3 DEF Grows
    <3>5. Len(a) \in Nat /\ Len(b) \in Nat /\ Len(d) \in Nat BY <3>2
    <3> QED BY <2>1, <3>1, <3>2, <3>4, <3>5
  <2> QED BY <2>3 DEF Grows
<1>3. T = Nat
  <2>1. \A m \in Nat : m \in T => m + 1 \in T BY <1>2
  <2> HIDE DEF T
  <2>2. T \in SUBSET Nat BY DEF T
  <2> QED BY <1>1, <2>1, <2>2, SetInduction
<1>4. Len(todo) \in T BY <1>3
<1> QED BY <1>4

-----------------------------------------------------------------------------
(* A tree is never written longer than what it was read from.              *)
LEMMA AtomNoLonger ==
  ASSUME NEW b \in Seq(Octet), Len(b) <= MaxBlob, NEW i \in 1..Len(b), NEW x \in AtomsIn(b)[i]
  PROVE  Len(Serial[x[1]]) <= x[2] - i
<1> DEFINE k == HeaderOf(b[i])
           last == IF k = 0 THEN i ELSE LastOf(b, i)
           start == IF k = 0 THEN i ELSE i + k
           s == SubSeq(b, start, last)
           n == Len(s)
<1>1. /\ x = <<Leaf(s), last + 1>> /\ IsSpan(b, i, start, last)
      /\ k # 0 => k \in 1..LongHeader /\ i + k - 1 <= Len(b)
  BY AtomsAre
<1>2. s \in Seq(Octet) /\ last \in i..Len(b) /\ n = last - start + 1 BY <1>1 DEF IsSpan
<1>3. k \in 0..OctetBits /\ Heads(b[i], k) /\ Len(b) \in Nat /\ b[i] \in Octet BY OctetsOf
<1>4. n \in Nat /\ last \in Int BY <1>2, <1>3
<1>5. MaxBlob \in Nat /\ MaxBlob < Capacity(LongWritten) /\ Capacity(LongWritten) \in Nat
  <2>1. LongWritten \in 1..LongHeader BY Widths
  <2>2. Capacity(LongWritten) \in Nat BY <2>1, CapacityIs
  <2> QED BY <2>2, CodecAssumption, BoundsAssumption
<1>6. x[1] = Leaf(s) /\ x[2] = last + 1
  <2> HIDE DEF s, last
  <2> QED BY <1>1
<1>7. Serial[x[1]] = AtomOctets(s)
  <2>1. Leaf(s) \in Nodes[MaxBlob] BY <1>2, <1>5, LeafIsNode
  <2>2. Leaf(s) \in Node BY <2>1 DEF Node
  <2> HIDE DEF s
  <2>3. ~isPair(Leaf(s)) /\ Leaf(s).atom = s BY LeafFields
  <2> QED BY <1>6, <2>2, <2>3, SerialUnrolls
<1>8. n <= last - i + 1
  <2>1. start >= i BY <1>3
  <2>2. start \in Int BY <1>3
  <2> HIDE DEF start, last, n, s
  <2> QED BY <1>2, <1>4, <2>1, <2>2
<1>9. n < Capacity(LongWritten)
  <2> HIDE DEF last, n, s, start
  <2>1. n <= Len(b) BY <1>2, <1>3, <1>4, <1>8
  <2> QED BY <1>3, <1>4, <1>5, <2>1
<1>10. AtomOctets(s) = encodeAtom(s)
  <2> HIDE DEF s
  <2> QED BY <1>9 DEF AtomOctets, n
<1>11. CASE n = 1 /\ s[1] < FirstOf(1)
  <2>1. encodeAtom(s) = s BY <1>11 DEF encodeAtom
  <2>2. Len(Serial[x[1]]) = n BY <1>7, <1>10, <2>1
  <2> HIDE DEF n, last
  <2> QED BY <1>3, <1>4, <1>6, <1>8, <2>2
<1>12. CASE ~(n = 1 /\ s[1] < FirstOf(1))
  <2>1. encodeAtom(s) = HeaderFor(n) \o s BY <1>12 DEF encodeAtom
  <2>2. k # 0
    <3> SUFFICES ASSUME k = 0 PROVE FALSE OBVIOUS
    <3>1. s = SubSeq(b, i, i) BY <3>1
    <3>2. s = <<b[i]>> BY <3>1, SingleOctet
    <3>3. n = 1 /\ s[1] = b[i] BY <3>2
    <3>4. b[i] < FirstOf(0 + 1) BY <1>3, Widths DEF Heads
    <3> QED BY <1>12, <3>3, <3>4
  <2>3. k \in 1..LongHeader /\ n = last - (i + k) + 1 /\ last = LastOf(b, i) /\ i + k - 1 <= Len(b)
    BY <1>1, <1>2, <2>2
  <2> DEFINE z == SizeIn(b, i, k)
  <2>4. z \in Nat /\ z < Capacity(k)
    <3>1. k \in 1..(OctetBits - 1) BY <2>3, Widths
    <3> QED BY <1>3, <2>3, <3>1, SizeInIs
  <2>5. n < Capacity(k)
    <3>1. last = i + k - 1 + z BY <2>3 DEF LastOf
    <3> HIDE DEF z, last, n, k
    <3>2. i \in Int /\ k \in Int BY <2>3, Widths
    <3>3. n = z BY <1>4, <2>3, <2>4, <3>1, <3>2
    <3> QED BY <2>4, <3>3
  <2> DEFINE h == HeaderFor(n)
             j == HeaderLength(n)
  <2>6. h \in Seq(Octet) /\ Len(h) = j /\ j \in 1..LongHeader /\ \A g \in 1..(j - 1) : n >= Capacity(g)
    <3> HIDE DEF n
    <3> QED BY <1>4, <1>9, HeaderIs
  <2> HIDE DEF h, j
  <2>7. j <= k
    <3> SUFFICES ASSUME ~(j <= k) PROVE FALSE OBVIOUS
    <3>1. k \in 1..(j - 1) BY <2>3, <2>6, Widths
    <3>2. n >= Capacity(k) BY <2>6, <3>1
    <3>3. Capacity(k) \in Nat BY <2>3, CapacityIs
    <3> HIDE DEF n, k
    <3> QED BY <1>4, <2>5, <3>2, <3>3
  <2>8. Len(h \o s) = j + n BY <1>2, <2>6, ConcatProperties
  <2>9. Len(Serial[x[1]]) = j + n BY <1>7, <1>10, <2>1, <2>8 DEF h
  <2>10. j \in Nat /\ k \in Nat BY <2>3, <2>6, Widths
  <2> HIDE DEF n, k, last
  <2> QED BY <1>4, <1>6, <2>3, <2>7, <2>9, <2>10
<1> QED BY <1>11, <1>12

LEMMA NoLonger ==
  ASSUME NEW b \in Seq(Octet), Len(b) <= MaxBlob, NEW i \in 1..Len(b), NEW x \in Reading(b)[i]
  PROVE  Len(Serial[x[1]]) <= x[2] - i
<1> DEFINE n == Len(b)
           f == Reading(b)
           T == {p \in Places(f, n) : Len(Serial[p[2][1]]) <= p[2][2] - p[1]}
<1>1. n \in Nat /\ Encodes(f, n, ConsPlaces(b), AtomsIn(b)) /\ AtomsGoOn(AtomsIn(b), n)
  BY ReadingEncodes, AtomsAreWell
<1>2. HoldsOfAtoms(n, ConsPlaces(b), AtomsIn(b), T)
  <2> SUFFICES ASSUME NEW j \in 1..n, NEW y \in AtomsIn(b)[j], j \notin ConsPlaces(b)
               PROVE  <<j, y>> \in T
    BY DEF HoldsOfAtoms
  <2>1. f[j] = AtomsIn(b)[j]
    <3> HIDE DEF f, n
    <3> QED BY <1>1, EncodesUnrolls
  <2>2. <<j, y>> \in Places(f, n)
    <3>1. y \in f[j] BY <2>1
    <3> HIDE DEF f, n
    <3> QED BY <3>1, PlacesAre
  <2>3. Len(Serial[y[1]]) <= y[2] - j BY AtomNoLonger
  <2> QED BY <2>2, <2>3
<1>3. HoldsOfPairs(n, ConsPlaces(b), f, T)
  <2> SUFFICES ASSUME NEW j \in 1..n, NEW l \in f[j + 1], NEW r \in f[l[2]], j \in ConsPlaces(b),
                      <<j + 1, l>> \in T, <<l[2], r>> \in T,
                      l[2] \in (j + 2)..n, r[2] \in (l[2] + 1)..(n + 1)
               PROVE  <<j, <<Pair(l[1], r[1]), r[2]>>>> \in T
    BY DEF HoldsOfPairs
  <2> DEFINE q == Pair(l[1], r[1])
             y == <<q, r[2]>>
  <2>1. y \in f[j]
    <3> HIDE DEF f, n
    <3> QED BY <1>1, JoinedAt
  <2>2. <<j, y>> \in Places(f, n)
    <3> HIDE DEF f, n, y
    <3> QED BY <2>1, PlacesAre
  <2>3. Len(Serial[l[1]]) <= l[2] - (j + 1) /\ Len(Serial[r[1]]) <= r[2] - l[2] OBVIOUS
  <2>4. q \in Node /\ l[1] \in Node /\ r[1] \in Node
    <3>1. y[1] \in Node BY <2>1, ReadingNodes
    <3>2. q \in Node BY <3>1
    <3>3. isPair(q) /\ q.left = l[1] /\ q.right = r[1] BY PairFields
    <3> HIDE DEF q
    <3> QED BY <3>2, <3>3, NodeParts
  <2>5. Len(Serial[q]) = 1 + Len(Serial[l[1]]) + Len(Serial[r[1]])
    <3>1. isPair(q) /\ q.left = l[1] /\ q.right = r[1] BY PairFields
    <3> HIDE DEF q
    <3> QED BY <2>4, <3>1, SerialUnrolls
  <2>6. Len(Serial[l[1]]) \in Nat /\ Len(Serial[r[1]]) \in Nat BY <2>4, SerialUnrolls
  <2>7. l[2] \in Int /\ r[2] \in Int /\ j \in Int BY <1>1
  <2>8. Len(Serial[q]) <= r[2] - j
    <3> DEFINE ll == Len(Serial[l[1]])
               lr == Len(Serial[r[1]])
               lq == Len(Serial[q])
               e == l[2]
               g == r[2]
    <3>1. ll <= e - (j + 1) /\ lr <= g - e /\ lq = 1 + ll + lr /\ ll \in Nat /\ lr \in Nat
          /\ e \in Int /\ g \in Int /\ j \in Int
      BY <2>3, <2>5, <2>6, <2>7
    <3> HIDE DEF ll, lr, lq, e, g
    <3>2. lq <= g - j BY <3>1
    <3> QED BY <3>2 DEF lq, g
  <2>9. y[1] = q /\ y[2] = r[2]
    <3> HIDE DEF q
    <3> QED OBVIOUS
  <2> HIDE DEF y, q
  <2>10. <<j, y>> \in T BY <2>2, <2>8, <2>9
  <2> QED BY <2>10 DEF y, q
<1> HIDE DEF T, f, n
<1>4. i \in 1..n /\ x \in f[i] BY DEF n, f
<1>5. <<i, x>> \in T BY <1>1, <1>2, <1>3, <1>4, PlaceInduction
<1> QED BY <1>5 DEF T

-----------------------------------------------------------------------------
(* The writer: what it has written and will write is what the tree is      *)
(* serialized as, which is no longer than the blob.                        *)
WriterInv ==
  /\ stage \in {"parsing", "hashing"} => chunks = << >> /\ steps = 0
  /\ stage = "writing" =>
       /\ stack \in Seq(Node) /\ chunks \in Seq(Octet) /\ steps \in Nat /\ steps <= Len(chunks)
       /\ WritesTo(stack, chunks, Serial[values[1]])
  /\ stage = "done" => chunks = Serial[values[1]]
  /\ stage # "unwritable"

(* What was read is written in the octets that there are.                  *)
LEMMA RootIsWritable ==
  ASSUME ParserInv, Decided, stage \notin {"parsing", "malformed"}
  PROVE  /\ values[1] \in Node /\ Serial[values[1]] \in Seq(Octet)
         /\ Len(Serial[values[1]]) <= Len(blob) /\ Len(Serial[values[1]]) <= MaxSteps
         /\ Len(Serial[values[1]]) < Capacity(LongWritten)
         /\ Len(blob) <= MaxBlob
<1> DEFINE root == values[1]
           x == <<root, at + 1>>
           n == Len(Serial[root])
<1>1. ops = << >> /\ at = Len(blob) /\ Len(blob) <= MaxBlob BY DEF Decided
<1>2. root \in Node /\ x \in Reading(blob)[1] BY <1>1, ParserEnds
<1>3. blob \in Seq(Octet) /\ Len(blob) \in Nat BY DEF ParserInv
<1>4. MaxBlob \in Nat /\ MaxSteps \in Nat /\ MaxBlob <= MaxSteps /\ MaxBlob < Capacity(LongWritten)
      /\ Capacity(LongWritten) \in Nat
  <2>1. LongWritten \in 1..LongHeader BY Widths
  <2>2. Capacity(LongWritten) \in Nat BY <2>1, CapacityIs
  <2> QED BY <2>2, CodecAssumption, BoundsAssumption
<1>5. Serial[root] \in Seq(Octet) /\ n \in Nat BY <1>2, SerialUnrolls
<1>6. n <= Len(blob)
  <2>1. x[1] = root /\ x[2] = at + 1 OBVIOUS
  <2> HIDE DEF x, root
  <2>2. 1 \in 1..Len(blob)
    <3>1. Len(blob) # 0
      <4> SUFFICES ASSUME Len(blob) = 0 PROVE FALSE OBVIOUS
      <4>1. ReadsTrees(Reading(blob), Len(blob)) BY <1>3, ReadingTyped
      <4>2. Reading(blob)[Len(blob) + 1] = {} BY <4>1 DEF ReadsTrees
      <4>3. Len(blob) + 1 = 1 OBVIOUS
      <4> QED BY <1>2, <4>2, <4>3
    <3> QED BY <1>3, <3>1
  <2>3. Len(Serial[x[1]]) <= x[2] - 1 BY <1>1, <1>2, <1>3, <2>2, NoLonger
  <2> QED BY <1>1, <1>3, <2>1, <2>3
<1> HIDE DEF root, n
<1>7. n <= MaxSteps /\ n < Capacity(LongWritten) BY <1>1, <1>3, <1>4, <1>5, <1>6
<1> QED BY <1>1, <1>2, <1>5, <1>6, <1>7 DEF root, n

LEMMA HashedWrites ==
  ASSUME ParserInv, Decided, WriterInv, Hashed PROVE WriterInv'
<1>1. /\ stage = "hashing" /\ stage' = "writing" /\ values' = values /\ stack' = <<values[1]>>
      /\ chunks' = chunks /\ steps' = steps
  BY DEF Hashed, parser, writer
<1> DEFINE n == values[1]
           none == << >>
           s == Serial[n]
<1>2. n \in Node BY <1>1, RootIsWritable
<1>3. chunks = none /\ steps = 0 /\ none \in Seq(Octet) /\ none \in Seq(Node) /\ Len(none) = 0
  BY <1>1 DEF WriterInv
<1>4. stack' = Append(none, n) /\ stack' \in Seq(Node) BY <1>1, <1>2
<1>5. WritesTo(Append(none, n), none, s)
  <2>1. s \in Seq(Octet) /\ none \o s = s
    <3>1. s \in Seq(Octet) BY <1>2, SerialUnrolls
    <3> HIDE DEF s
    <3> QED BY <3>1, ConcatEmptySeq
  <2> DEFINE X == Seq(Octet)
  <2>2. s \in X BY <2>1
  <2> HIDE DEF X, s
  <2>3. Runs(X, << >>, WriteStep, s, s) BY <2>2, NothingToDo
  <2>4. WritesTo(none, s, s) BY <2>3 DEF WritesTo, X
  <2>5. WritesTo(none, none \o s, s) BY <2>1, <2>4
  <2> HIDE DEF none, n
  <2> QED BY <1>2, <1>3, <2>5, NextWrites DEF s
<1> QED BY <1>1, <1>3, <1>4, <1>5 DEF WriterInv

LEMMA WritesKeeps ==
  ASSUME ParserInv, Decided, WriterInv, Writes PROVE WriterInv'
<1> DEFINE n == Top(stack)
           todo == Popped(stack)
           root == values[1]
           goal == Serial[root]
<1>1. stage = "writing" /\ stack # << >> /\ values' = values BY DEF Writes, parser
<1>2. /\ stack \in Seq(Node) /\ chunks \in Seq(Octet) /\ steps \in Nat /\ steps <= Len(chunks)
      /\ WritesTo(stack, chunks, goal)
  BY <1>1 DEF WriterInv
<1>3. stack = Append(todo, n) /\ todo \in Seq(Node) /\ n \in Node /\ Len(stack) = Len(todo) + 1
      /\ Len(todo) \in Nat
  BY <1>1, <1>2, StackTop
<1>4. /\ goal \in Seq(Octet) /\ Len(goal) <= MaxSteps /\ Len(goal) < Capacity(LongWritten)
      /\ Len(goal) \in Nat /\ MaxSteps \in Nat /\ Len(chunks) \in Nat
      /\ Capacity(LongWritten) \in Nat
  <2>1. LongWritten \in 1..LongHeader BY Widths
  <2>2. Capacity(LongWritten) \in Nat BY <2>1, CapacityIs
  <2> QED BY <1>1, <1>2, <2>2, RootIsWritable, CodecAssumption
<1> HIDE DEF n, todo, goal
<1>5. Serial[n] \in Seq(Octet) /\ Len(Serial[n]) \in Nat /\ Len(Serial[n]) >= 1
  BY <1>3, SerialUnrolls
<1> DEFINE more == chunks \o Serial[n]
<1>6. more \in Seq(Octet) /\ Len(more) = Len(chunks) + Len(Serial[n])
  BY <1>2, <1>5, ConcatProperties
<1> HIDE DEF more
<1>7. WritesTo(todo, more, goal)
  <2>1. WritesTo(Append(todo, n), chunks, goal) BY <1>2, <1>3
  <2> QED BY <1>2, <1>3, <2>1, NextWrites DEF more
<1>8. Len(more) + Len(todo) <= Len(goal)
  <2>1. Grows(todo) BY <1>3, WritesGrow
  <2> QED BY <1>4, <1>6, <1>7, <2>1 DEF Grows
<1>9. steps < MaxSteps /\ Len(Serial[n]) < Capacity(LongWritten)
  BY <1>2, <1>3, <1>4, <1>5, <1>6, <1>8
<1>10. ~(~isPair(n) /\ Len(n.atom) >= Capacity(LongWritten))
  <2> SUFFICES ASSUME ~isPair(n), Len(n.atom) >= Capacity(LongWritten) PROVE FALSE OBVIOUS
  <2>1. Len(Serial[n]) >= Len(n.atom) BY <1>3, SerialUnrolls
  <2>2. n.atom \in Seq(Octet) BY <1>3, NodeParts
  <2>3. Len(n.atom) \in Nat BY <2>2
  <2> QED BY <1>4, <1>5, <1>9, <2>1, <2>3
<1>11. ~(steps >= MaxSteps) BY <1>2, <1>4, <1>9
<1>12. /\ chunks' = chunks \o (IF isPair(n) THEN <<ConsOctet>> ELSE encodeAtom(n.atom))
       /\ stack' = todo \o (IF isPair(n) THEN <<n.right, n.left>> ELSE << >>)
       /\ steps' = steps + 1 /\ stage' = stage
  BY <1>10, <1>11 DEF Writes, n, todo
<1>13. CASE isPair(n)
  <2> DEFINE c == <<ConsOctet>>
             one == Append(todo, n.right)
             two == Append(one, n.left)
  <2>1. n.left \in Node /\ n.right \in Node BY <1>3, <1>13, NodeParts
  <2>2. stack' = two
    <3>1. stack' = todo \o <<n.right, n.left>> BY <1>12, <1>13
    <3>2. todo \o <<n.right, n.left>> = two BY <1>3, <2>1, PushedAre
    <3> QED BY <3>1, <3>2
  <2>3. chunks' = chunks \o c BY <1>12, <1>13
  <2>4. c \in Seq(Octet) /\ Len(c) = 1
    <3>1. ConsOctet \in Octet BY Widths
    <3> QED BY <3>1
  <2>5. two \in Seq(Node) BY <1>3, <2>1
  <2>6. WritesTo(two, chunks \o c, goal)
    <3>1. WritesTo(Append(todo, n), chunks, goal) BY <1>2, <1>3
    <3> HIDE DEF goal
    <3> QED BY <1>2, <1>3, <1>13, <3>1, OpenedWrites
  <2> HIDE DEF c, one, two
  <2>7. chunks \o c \in Seq(Octet) /\ Len(chunks \o c) = Len(chunks) + 1
    BY <1>2, <2>4, ConcatProperties
  <2>8. steps + 1 \in Nat /\ steps + 1 <= Len(chunks \o c) BY <1>2, <1>4, <2>7
  <2> QED BY <1>1, <1>12, <2>2, <2>3, <2>5, <2>6, <2>7, <2>8 DEF WriterInv, goal
<1>14. CASE ~isPair(n)
  <2>1. n.atom \in Seq(Octet) BY <1>3, <1>14, NodeParts
  <2>2. Serial[n] = encodeAtom(n.atom)
    <3>1. Serial[n] = AtomOctets(n.atom) BY <1>3, <1>14, SerialUnrolls
    <3>2. Len(n.atom) \in Nat BY <2>1
    <3>3. Len(n.atom) < Capacity(LongWritten) BY <1>4, <1>10, <1>14, <3>2
    <3> QED BY <3>1, <3>3 DEF AtomOctets
  <2>3. chunks' = more BY <1>12, <1>14, <2>2 DEF more
  <2>4. stack' = todo
    <3>1. stack' = todo \o << >> BY <1>12, <1>14
    <3> QED BY <1>3, <3>1, ConcatEmptySeq
  <2>5. steps + 1 \in Nat /\ steps + 1 <= Len(more) BY <1>2, <1>4, <1>5, <1>6
  <2> QED BY <1>1, <1>3, <1>6, <1>7, <1>12, <2>3, <2>4, <2>5 DEF WriterInv, goal
<1> QED BY <1>13, <1>14

LEMMA WrittenKeeps ==
  ASSUME WriterInv, Written PROVE WriterInv'
<1>1. /\ stage = "writing" /\ stack = << >> /\ stage' = "done" /\ values' = values
      /\ chunks' = chunks
  BY DEF Written, parser, writer
<1> DEFINE X == Seq(Octet)
           goal == Serial[values[1]]
<1>2. Runs(X, << >>, WriteStep, chunks, goal) BY <1>1 DEF WriterInv, WritesTo
<1> HIDE DEF X, goal
<1>3. chunks = goal BY <1>2, NothingToDo
<1> QED BY <1>1, <1>3 DEF WriterInv, goal

-----------------------------------------------------------------------------
(* The inductive invariant of the codec.                                   *)
CodecInv == ParserInv /\ Decided /\ HasherInv /\ WriterInv

LEMMA CodecInitially == CodecInit => CodecInv
<1> SUFFICES ASSUME CodecInit PROVE CodecInv OBVIOUS
<1>1. stage = "parsing" /\ out = << >> /\ chunks = << >> /\ steps = 0 BY DEF CodecInit, CodecStart
<1>2. ParserInv BY ParserInitially
<1>3. Decided BY <1>1 DEF Decided
<1>4. HasherInv BY <1>1 DEF HasherInv
<1>5. WriterInv BY <1>1 DEF WriterInv
<1> QED BY <1>2, <1>3, <1>4, <1>5 DEF CodecInv

LEMMA ParsingKeeps ==
  ASSUME CodecInv, JoinsPair \/ OpensPair \/ TakesAtom PROVE CodecInv'
<1>1. ParserInv'
  BY JoinsPairKeeps, OpensPairKeeps, TakesAtomKeeps DEF CodecInv
<1>2. stage = "parsing" /\ stage' = "parsing" /\ out' = out /\ chunks' = chunks /\ steps' = steps
  BY DEF JoinsPair, OpensPair, TakesAtom, Turn, hasher, writer
<1>3. Decided' BY <1>2 DEF Decided
<1>4. HasherInv' BY <1>2 DEF CodecInv, HasherInv
<1>5. WriterInv' BY <1>2 DEF CodecInv, WriterInv
<1> QED BY <1>1, <1>3, <1>4, <1>5 DEF CodecInv

LEMMA RefusesKeeps ==
  ASSUME CodecInv, Refuses PROVE CodecInv'
<1>1. ParserInv' BY ParserStays DEF Refuses, CodecInv
<1>2. Decided' BY RefusesDecides DEF CodecInv
<1>3. stage' = "malformed" BY DEF Refuses
<1> QED BY <1>1, <1>2, <1>3 DEF CodecInv, HasherInv, WriterInv

LEMMA ReturnsKeeps ==
  ASSUME CodecInv, Returns PROVE CodecInv'
<1>1. ParserInv' BY ParserStays DEF Returns, CodecInv
<1>2. Decided' BY ReturnsDecides DEF CodecInv
<1>3. HasherInv' BY ReturnsHashes DEF CodecInv
<1>4. stage = "parsing" /\ stage' = "hashing" /\ chunks' = chunks /\ steps' = steps
  BY DEF Returns, writer
<1>5. WriterInv' BY <1>4 DEF CodecInv, WriterInv
<1> QED BY <1>1, <1>2, <1>3, <1>5 DEF CodecInv

LEMMA HashingKeeps ==
  ASSUME CodecInv, HashesAtom \/ HashesPair \/ Expands PROVE CodecInv'
<1>1. ParserInv' BY ParserStays DEF HashesAtom, HashesPair, Expands, CodecInv
<1>2. HasherInv' BY HashesAtomKeeps, HashesPairKeeps, ExpandsKeeps DEF CodecInv
<1>3. /\ stage = "hashing" /\ stage' \in {"hashing", "unhashable"} /\ chunks' = chunks /\ steps' = steps
      /\ blob' = blob /\ ops' = ops /\ at' = at
  BY DEF HashesAtom, HashesPair, Expands, Hashing, writer, parser
<1>4. Decided' BY <1>3, DecidedStays DEF CodecInv
<1>5. stage' # "unhashable" BY <1>2 DEF HasherInv
<1>6. WriterInv' BY <1>3, <1>5 DEF CodecInv, WriterInv
<1> QED BY <1>1, <1>2, <1>4, <1>6 DEF CodecInv

LEMMA WritingKeeps ==
  ASSUME CodecInv, Hashed \/ Writes \/ Written PROVE CodecInv'
<1>1. ParserInv' BY ParserStays DEF Hashed, Writes, Written, CodecInv
<1>2. /\ stage \in {"hashing", "writing"} /\ stage' \in {"writing", "unwritable", "done"}
      /\ blob' = blob /\ ops' = ops /\ at' = at /\ values' = values /\ out' = out
  BY DEF Hashed, Writes, Written, parser, hasher
<1>3. Decided' BY <1>2, DecidedStays DEF CodecInv
<1>4. WriterInv' BY HashedWrites, WritesKeeps, WrittenKeeps DEF CodecInv
<1>5. HasherInv'
  <2>1. CASE Hashed BY <2>1, HashedKeeps DEF CodecInv
  <2>2. CASE Writes \/ Written
    <3>1. stage = "writing" BY <2>2 DEF Writes, Written
    <3> QED BY <1>2, <3>1 DEF CodecInv, HasherInv
  <2> QED BY <2>1, <2>2
<1> QED BY <1>1, <1>3, <1>4, <1>5 DEF CodecInv

LEMMA CodecStays ==
  ASSUME CodecInv, UNCHANGED codecVars PROVE CodecInv'
<1>1. /\ UNCHANGED parser /\ stage' = stage /\ stack' = stack /\ out' = out /\ chunks' = chunks
      /\ steps' = steps
  BY DEF codecVars, hasher, writer
<1>2. blob' = blob /\ at' = at /\ ops' = ops /\ values' = values BY <1>1 DEF parser
<1>3. ParserInv' BY <1>1, ParserStays DEF CodecInv
<1>4. Decided' BY <1>1, <1>2 DEF CodecInv, Decided
<1>5. HasherInv' BY <1>1, <1>2 DEF CodecInv, HasherInv
<1>6. WriterInv' BY <1>1, <1>2 DEF CodecInv, WriterInv
<1> QED BY <1>3, <1>4, <1>5, <1>6 DEF CodecInv

LEMMA CodecStep == CodecInv /\ [CodecNext]_codecVars => CodecInv'
<1> SUFFICES ASSUME CodecInv, [CodecNext]_codecVars PROVE CodecInv' OBVIOUS
<1> QED BY ParsingKeeps, RefusesKeeps, ReturnsKeeps, HashingKeeps, WritingKeeps, CodecStays
        DEF CodecNext

(* The machines of clvm.ts keep the invariant whatever the blob.           *)
THEOREM CodecInvariance == CodecSpec => []CodecInv
BY CodecInitially, CodecStep, PTL DEF CodecSpec

(* No pop of deserialize or of sha256tree comes back empty: the casts of   *)
(* clvm.ts are safe for every blob a full node may send.                   *)
THEOREM CastsAreSafe == CodecSpec => []PopsAreDefined
<1>1. CodecInv => PopsAreDefined
  <2> SUFFICES ASSUME CodecInv PROVE PopsAreDefined OBVIOUS
  <2>1. ASSUME ops # << >>, Top(ops) = "cons" PROVE Len(values) >= 2
    <3> DEFINE todo == Popped(ops)
    <3>1. ops \in Seq(Op) /\ values \in Seq(Node) BY DEF CodecInv, ParserInv
    <3>2. ops = Append(todo, Top(ops)) /\ todo \in Seq(Op) BY <2>1, <3>1, StackTop
    <3> HIDE DEF todo
    <3>3. PICK D : DepthsAre(D, Append(todo, "cons"), values)
      BY <2>1, <3>2 DEF CodecInv, ParserInv
    <3> QED BY <3>1, <3>2, <3>3, JoinPlaces
  <2>2. ASSUME ops = << >> PROVE Len(values) = 1 BY <2>2, ParserEnds DEF CodecInv
  <2>3. ASSUME Hashing, isPair(Frame[1]), Frame[2] PROVE Len(out) >= 2
    <3> DEFINE todo == Popped(stack)
               fr == Frame
               h == TreeHash[values[1]]
    <3>1. /\ todo \in Seq(Frames) /\ fr \in Frames /\ out \in Seq(Hashes)
          /\ HashesTo(Append(todo, fr), out, h)
      BY <2>3, TopFrame DEF CodecInv
    <3>2. Joining(fr) /\ isPair(fr[1]) /\ fr[1] \in Node BY <2>3, <3>1 DEF Joining, Frames
    <3> HIDE DEF todo, fr
    <3>3. HashesPairTo(todo, fr[1], out, h) BY <3>1, <3>2, JoinedHash
    <3> DEFINE hl == TreeHash[fr[1].left]
               hr == TreeHash[fr[1].right]
    <3>4. hl \in Hashes /\ hr \in Hashes
      <4>1. fr[1].left \in Node /\ fr[1].right \in Node BY <3>2, NodeParts
      <4> QED BY <4>1 DEF Hashes
    <3> HIDE DEF hl, hr
    <3>5. PICK s \in Seq(Hashes) : out = Append(Append(s, hl), hr)
      BY <3>3 DEF HashesPairTo, hl, hr
    <3>6. Len(out) = Len(s) + 2 /\ Len(s) \in Nat BY <3>4, <3>5, TwoAppended
    <3> QED BY <3>6
  <2>4. ASSUME stage = "hashing", stack = << >> PROVE Len(out) = 1
    <3> DEFINE X == Seq(Hashes)
               b == <<TreeHash[values[1]]>>
    <3>1. Runs(X, << >>, HashStep, out, b) BY <2>4 DEF CodecInv, HasherInv, HashesTo
    <3> HIDE DEF X, b
    <3>2. out = b BY <3>1, NothingToDo
    <3> QED BY <3>2 DEF b
  <2> QED BY <2>1, <2>2, <2>3, <2>4 DEF PopsAreDefined
<1> QED BY <1>1, CodecInvariance, PTL

(* A blob that deserialize takes is hashed and written: neither sha256tree *)
(* nor serialize, which count other things, ever meets its bound.          *)
THEOREM WhatIsReadIsHashed == CodecSpec => []WhatParsesHashes
<1>1. CodecInv => WhatParsesHashes
  BY DEF CodecInv, HasherInv, WriterInv, WhatParsesHashes
<1> QED BY <1>1, CodecInvariance, PTL

-----------------------------------------------------------------------------
(* The reference: what a blob encodes from each place on.                  *)
DeclaredLast(b, i, k) == i + k - 1 + DeclaredSize(b, i, k)

DeclaredAt(b, i, k) ==
  IF k = 0 THEN {<<Leaf(<<b[i]>>), i + 1>>}
  ELSE IF k > LongHeader \/ i + k - 1 > Len(b) THEN {}
  ELSE IF DeclaredLast(b, i, k) > Len(b) THEN {}
  ELSE {<<Leaf(SubSeq(b, i + k, DeclaredLast(b, i, k))), DeclaredLast(b, i, k) + 1>>}

DeclaredAtoms(b) == [i \in 1..Len(b) |-> DeclaredAt(b, i, HeaderOf(b[i]))]

(* Two readings agree from each of the places S on, when S has the places  *)
(* where what they read from there goes on, and their atoms agree there.   *)
Agree(f, g, S, j) == f[j] = g[j] /\ \A x \in f[j] : x[2] \in S

LEMMA EncodingsAgree ==
  ASSUME NEW n \in Nat, NEW pairs, NEW a, NEW c, NEW f, NEW g, NEW S,
         AtomsGoOn(a, n), Encodes(f, n, pairs, a), Encodes(g, n, pairs, c),
         \A j \in 1..n : j \in S /\ j \in pairs => j + 1 \in S,
         \A j \in 1..n : j \in S /\ j \notin pairs => Agree(a, c, S, j)
  PROVE  \A j \in 1..(n + 1) : j \in S => Agree(f, g, S, j)
<1> DEFINE Upon(m) == \A j \in m..(n + 1) : j \in S => Agree(f, g, S, j)
           T == {k \in Nat : k <= n => Upon(n + 1 - k)}
<1>1. GoesOn(f, 1, n) BY EncodedGoesOn
<1>2. f[n + 1] = {} /\ g[n + 1] = {} BY EncodesUnrolls
<1>3. 0 \in T
  <2>1. \A j \in (n + 1 - 0)..(n + 1) : j = n + 1 OBVIOUS
  <2> QED BY <1>2, <2>1 DEF Agree
<1>4. ASSUME NEW k \in Nat, k \in T PROVE k + 1 \in T
  <2> SUFFICES ASSUME k + 1 <= n, NEW j \in (n + 1 - (k + 1))..(n + 1), j \in S
               PROVE  Agree(f, g, S, j)
    OBVIOUS
  <2>1. Upon(n + 1 - k) BY <1>4
  <2>2. CASE j \in (n + 1 - k)..(n + 1) BY <2>1, <2>2
  <2>3. CASE j \notin (n + 1 - k)..(n + 1)
    <3>1. j = n - k /\ j \in 1..n /\ j + 1 = n + 1 - k BY <2>3
    <3>2. Upon(j + 1) BY <2>1, <3>1
    <3>3. f[j] = IF j \in pairs THEN Joins(f, j) ELSE a[j] BY <3>1, EncodesUnrolls
    <3>4. g[j] = IF j \in pairs THEN Joins(g, j) ELSE c[j] BY <3>1, EncodesUnrolls
    <3>5. CASE j \notin pairs
      <4>1. Agree(a, c, S, j) BY <3>1, <3>5
      <4> QED BY <3>3, <3>4, <3>5, <4>1 DEF Agree
    <3>6. CASE j \in pairs
      <4>1. j + 1 \in (j + 1)..(n + 1) /\ j + 1 \in 1..(n + 1) /\ j + 1 \in S BY <3>1, <3>6
      <4>2. f[j + 1] = g[j + 1] /\ \A l \in f[j + 1] : l[2] \in S
        <5> HIDE DEF T
        <5> QED BY <3>2, <4>1 DEF Agree
      <4>3. ASSUME NEW l \in f[j + 1]
            PROVE  f[l[2]] = g[l[2]] /\ \A r \in f[l[2]] : r[2] \in S
        <5>1. l[2] \in (j + 1 + 1)..(n + 1) BY <1>1, <4>1 DEF GoesOn
        <5>2. l[2] \in (j + 1)..(n + 1) /\ l[2] \in S BY <3>1, <4>2, <5>1
        <5> HIDE DEF T
        <5> QED BY <3>2, <5>2 DEF Agree
      <4>4. \A x : x \in Joins(f, j) <=> x \in Joins(g, j) BY <4>2, <4>3, JoinsAre
      <4>5. Joins(f, j) = Joins(g, j)
        <5>1. \A x \in Joins(f, j) : x \in Joins(g, j) BY <4>4
        <5>2. \A x \in Joins(g, j) : x \in Joins(f, j) BY <4>4
        <5> QED BY <5>1, <5>2
      <4>6. ASSUME NEW x \in Joins(f, j) PROVE x[2] \in S
        <5>1. PICK l \in f[j + 1] : \E r \in f[l[2]] : x = <<Pair(l[1], r[1]), r[2]>>
          BY JoinsAre
        <5>2. PICK r \in f[l[2]] : x = <<Pair(l[1], r[1]), r[2]>> BY <5>1
        <5>3. r[2] \in S BY <4>3
        <5> QED BY <5>2, <5>3
      <4> QED BY <3>3, <3>4, <3>6, <4>5, <4>6 DEF Agree
    <3> QED BY <3>5, <3>6
  <2> QED BY <2>2, <2>3
<1>5. T = Nat
  <2>1. \A m \in Nat : m \in T => m + 1 \in T BY <1>4
  <2> HIDE DEF T
  <2>2. T \in SUBSET Nat BY DEF T
  <2> QED BY <1>3, <2>1, <2>2, SetInduction
<1>6. \A j \in 1..n : j \in S => Agree(f, g, S, j)
  <2>1. n \in T
    <3> HIDE DEF T
    <3> QED BY <1>5
  <2>2. n + 1 - n = 1 /\ n <= n OBVIOUS
  <2>3. Upon(1) BY <2>1, <2>2
  <2> QED BY <2>3
<1>7. ASSUME NEW j \in 1..(n + 1), j \in S PROVE Agree(f, g, S, j)
  <2>1. j \in 1..n \/ j = n + 1 OBVIOUS
  <2> QED BY <1>2, <1>6, <1>7, <2>1 DEF Agree
<1> QED BY <1>7

LEMMA DeclaredAtomsGoOn ==
  ASSUME NEW b \in Seq(Octet)
  PROVE  AtomsGoOn(DeclaredAtoms(b), Len(b))
<1> SUFFICES ASSUME NEW i \in 1..Len(b), NEW x \in DeclaredAtoms(b)[i]
             PROVE  x[2] \in (i + 1)..(Len(b) + 1)
  BY DEF AtomsGoOn
<1> DEFINE k == HeaderOf(b[i])
           d == DeclaredSize(b, i, k)
           last == DeclaredLast(b, i, k)
<1>1. Len(b) \in Nat /\ k \in 0..OctetBits /\ Heads(b[i], k) BY OctetsOf
<1>2. x \in DeclaredAt(b, i, k) BY DEF DeclaredAtoms
<1>3. CASE k = 0
  <2>1. x[2] = i + 1 BY <1>2, <1>3 DEF DeclaredAt
  <2> QED BY <1>1, <2>1
<1>4. CASE k # 0
  <2> DEFINE s == Leaf(SubSeq(b, i + k, last))
             y == <<s, last + 1>>
  <2>1. /\ ~(k > LongHeader) /\ ~(i + k - 1 > Len(b)) /\ ~(last > Len(b))
        /\ x = y
    BY <1>2, <1>4 DEF DeclaredAt
  <2>2. k \in 1..(OctetBits - 1) /\ i + k - 1 <= Len(b) BY <1>1, <1>4, <2>1, Widths
  <2>3. d \in Nat BY <1>1, <2>2, DeclaredIsExact
  <2>4. last = i + k - 1 + d BY DEF DeclaredLast
  <2>5. x[2] = last + 1
    <3> HIDE DEF s, last
    <3> QED BY <2>1
  <2>6. k \in Nat /\ k >= 1 BY <1>1, <1>4
  <2> HIDE DEF k, d, last
  <2>7. last \in Int /\ last >= i /\ last <= Len(b) BY <1>1, <2>1, <2>3, <2>4, <2>6
  <2> QED BY <1>1, <2>5, <2>7
<1> QED BY <1>3, <1>4

LEMMA NodesInEncodes ==
  ASSUME NEW b \in Seq(Octet)
  PROVE  Encodes(NodesIn(b), Len(b), ConsPlaces(b), DeclaredAtoms(b))
<1> DEFINE n == Len(b)
           Body(f, i) ==
             IF i > Len(b) THEN {}
             ELSE LET k == LeadingOnes(b[i])
                      last == i + k - 1 + DeclaredSize(b, i, k)
                  IN
               IF k = OctetBits
                 THEN UNION {{<<Pair(l[1], r[1]), r[2]>> : r \in f[l[2]]} : l \in f[i + 1]}
               ELSE IF k = 0 THEN {<<Leaf(<<b[i]>>), i + 1>>}
               ELSE IF k > LongHeader \/ i + k - 1 > Len(b) THEN {}
               ELSE IF last > Len(b) THEN {}
               ELSE {<<Leaf(SubSeq(b, i + k, last)), last + 1>>}
           Rec(f) == f = [i \in 1..(n + 1) |-> Body(f, i)]
           P == ConsPlaces(b)
           A == DeclaredAtoms(b)
<1>1. n \in Nat /\ AtomsGoOn(A, n) BY DeclaredAtomsGoOn
<1>2. ASSUME NEW f, NEW i \in 1..(n + 1) PROVE Body(f, i) = From(f, i, n, P, A)
  <2>1. CASE i > n BY <2>1 DEF From
  <2>2. CASE ~(i > n)
    <3>1. i \in 1..Len(b) BY <1>1, <2>2
    <3> DEFINE k == HeaderOf(b[i])
    <3>2. LeadingOnes(b[i]) = k /\ b[i] \in Octet BY <3>1, OctetsOf, LeadingOnesHead
    <3>3. k = OctetBits <=> i \in P
      <4>1. k = OctetBits <=> b[i] = ConsOctet BY <3>2, ConsHeads
      <4> QED BY <3>1, <4>1 DEF ConsPlaces
    <3> HIDE DEF k
    <3>4. CASE k = OctetBits
      <4>1. Body(f, i) = Joins(f, i) BY <2>2, <3>2, <3>4 DEF Joins
      <4> HIDE DEF Body, P, A
      <4> QED BY <2>2, <3>3, <3>4, <4>1 DEF From
    <3>5. CASE k # OctetBits
      <4>1. Body(f, i) = DeclaredAt(b, i, k)
        BY <2>2, <3>2, <3>5 DEF DeclaredAt, DeclaredLast
      <4>2. A[i] = DeclaredAt(b, i, k) BY <3>1 DEF DeclaredAtoms, k
      <4> HIDE DEF Body, P, A
      <4> QED BY <2>2, <3>3, <3>5, <4>1, <4>2 DEF From
    <3> QED BY <3>4, <3>5
  <2> QED BY <2>1, <2>2
<1>3. \A f : Rec(f) <=> Encodes(f, n, P, A)
  <2> HIDE DEF Body, P, A, n
  <2> SUFFICES ASSUME NEW f PROVE Rec(f) <=> Encodes(f, n, P, A) OBVIOUS
  <2>1. \A i \in 1..(n + 1) : Body(f, i) = From(f, i, n, P, A) BY <1>2
  <2>2. [i \in 1..(n + 1) |-> Body(f, i)] = [i \in 1..(n + 1) |-> From(f, i, n, P, A)] BY <2>1
  <2> QED BY <2>2 DEF Encodes
<1>4. \E f : Rec(f)
  <2> HIDE DEF P, A, n, Rec
  <2> QED BY <1>1, <1>3, SomethingEncodes
<1>5. Rec(NodesIn(b))
  <2>1. NodesIn(b) = CHOOSE f : Rec(f) BY DEF NodesIn
  <2> HIDE DEF Rec
  <2> QED BY <1>4, <2>1
<1> HIDE DEF Rec
<1> QED BY <1>3, <1>5

(* The places where nodes start: one after another, each after the last.   *)
LEMMA AfterIs ==
  ASSUME NEW b \in Seq(Octet), NEW i \in 1..Len(b)
  PROVE  LET k == HeaderOf(b[i]) IN
         After(b, i) = IF k \in {0, OctetBits} THEN i + 1
                       ELSE IF k > LongHeader \/ i + k - 1 > Len(b) THEN i
                       ELSE DeclaredLast(b, i, k) + 1
<1> DEFINE k == HeaderOf(b[i])
<1>1. LeadingOnes(b[i]) = k BY LeadingOnesHead, OctetsOf
<1>2. Len(b) \in Nat /\ k \in 0..OctetBits /\ Heads(b[i], k) /\ ~(i > Len(b)) BY OctetsOf
<1>3. CASE k \in {0, OctetBits} \/ k > LongHeader \/ i + k - 1 > Len(b)
  BY <1>1, <1>2, <1>3 DEF After
<1>4. CASE ~(k \in {0, OctetBits} \/ k > LongHeader \/ i + k - 1 > Len(b))
  <2> DEFINE d == DeclaredSize(b, i, k)
  <2>1. k \in 1..(OctetBits - 1) /\ i + k - 1 <= Len(b) BY <1>2, <1>4, Widths
  <2>2. d \in Nat BY <1>2, <2>1, DeclaredIsExact
  <2>3. After(b, i) = i + k + d BY <1>1, <1>2, <1>4 DEF After
  <2>4. DeclaredLast(b, i, k) = i + k - 1 + d BY DEF DeclaredLast
  <2> HIDE DEF k, d
  <2>5. i + k + d = (i + k - 1 + d) + 1 BY <2>1, <2>2
  <2> QED BY <1>4, <2>3, <2>4, <2>5 DEF k
<1> QED BY <1>3, <1>4

LEMMA AfterTyped ==
  ASSUME NEW b \in Seq(Octet), NEW i \in Nat, i >= 1
  PROVE  After(b, i) \in Nat /\ After(b, i) >= 1
<1>1. CASE i > Len(b) BY <1>1 DEF After
<1>2. CASE ~(i > Len(b))
  <2> DEFINE k == HeaderOf(b[i])
             d == DeclaredSize(b, i, k)
  <2>1. i \in 1..Len(b) BY <1>2
  <2>2. Len(b) \in Nat /\ k \in 0..OctetBits /\ Heads(b[i], k) BY <2>1, OctetsOf
  <2>3. CASE k \in {0, OctetBits} \/ k > LongHeader \/ i + k - 1 > Len(b)
    <3>1. After(b, i) = i + 1 \/ After(b, i) = i BY <2>1, <2>3, AfterIs
    <3> QED BY <3>1
  <2>4. CASE ~(k \in {0, OctetBits} \/ k > LongHeader \/ i + k - 1 > Len(b))
    <3>1. k \in 1..(OctetBits - 1) /\ i + k - 1 <= Len(b) BY <2>1, <2>2, <2>4, Widths
    <3>2. d \in Nat BY <2>1, <2>2, <3>1, DeclaredIsExact
    <3>3. After(b, i) = (i + k - 1 + d) + 1 BY <2>1, <2>4, AfterIs DEF DeclaredLast
    <3> HIDE DEF k, d
    <3> QED BY <3>1, <3>2, <3>3
  <2> QED BY <2>3, <2>4
<1> QED BY <1>1, <1>2

LEMMA StartsAre ==
  ASSUME NEW b \in Seq(Octet)
  PROVE  \E place : /\ place[0] = 1
                    /\ \A m \in 1..Len(b) : place[m] = After(b, place[m - 1])
                    /\ Starts(b) = {place[m] : m \in 0..Len(b)}
<1> DEFINE n == Len(b)
           P == {i \in Nat : i >= 1}
           h == [x \in P \X (1..n) |-> After(b, x[1])]
           Body(f, m) == IF m = 0 THEN 1 ELSE After(b, f[m - 1])
           Rec(f) == f = [m \in 0..n |-> Body(f, m)]
<1>1. n \in Nat /\ 1 \in P OBVIOUS
<1>2. h \in [P \X (1..n) -> P]
  <2>1. \A i \in P : After(b, i) \in P BY AfterTyped
  <2> HIDE DEF P, n
  <2> QED BY <2>1
<1>3. \A i \in P : \A m \in 1..n : h[<<i, m>>] = After(b, i) OBVIOUS
<1> HIDE DEF P, n, h
<1>4. PICK g \in [0..n -> P] : g[0] = 1 /\ \A m \in 1..n : g[m] = h[<<g[m - 1], m>>]
  <2>1. Iterates(P, 1, n, h) BY <1>1, <1>2, Recursion
  <2> QED BY <2>1 DEF Iterates
<1>5. Rec(g)
  <2>1. ASSUME NEW m \in 0..n PROVE g[m] = Body(g, m)
    <3>1. CASE m = 0 BY <1>4, <3>1
    <3>2. CASE m # 0
      <4>1. m \in 1..n /\ m - 1 \in 0..n BY <1>1, <3>2
      <4>2. g[m - 1] \in P /\ g[m] = h[<<g[m - 1], m>>] BY <1>4, <4>1
      <4>3. g[m] = After(b, g[m - 1]) BY <1>3, <4>1, <4>2
      <4> QED BY <3>2, <4>3
    <3> QED BY <3>1, <3>2
  <2>2. g = [m \in 0..n |-> g[m]] OBVIOUS
  <2> HIDE DEF Body
  <2> QED BY <2>1, <2>2
<1> DEFINE place == CHOOSE f : Rec(f)
<1>6. Rec(place)
  <2> HIDE DEF Rec
  <2> QED BY <1>5
<1>7. Starts(b) = {place[m] : m \in 0..n} BY DEF Starts, n
<1>8. \A m \in 0..n : place[m] = Body(place, m)
  <2> HIDE DEF Body, place
  <2> QED BY <1>6
<1> HIDE DEF place
<1>9. place[0] = 1
  <2>1. 0 \in 0..n BY <1>1
  <2> QED BY <1>8, <2>1
<1>10. \A m \in 1..n : place[m] = After(b, place[m - 1])
  <2>1. \A m \in 1..n : m \in 0..n /\ m # 0 BY <1>1
  <2> QED BY <1>8, <2>1
<1> QED BY <1>7, <1>9, <1>10 DEF n

(* A start that goes on is followed by another, and is one of the first    *)
(* Len(b): every start goes on by an octet at least.                       *)
LEMMA StartsGoOn ==
  ASSUME NEW b \in Seq(Octet)
  PROVE  \E S : /\ 1 \in S /\ S \cap (1..Len(b)) \subseteq Starts(b)
                /\ \A i \in S \cap (1..Len(b)) : After(b, i) > i => After(b, i) \in S
<1>1. PICK place : /\ place[0] = 1
                   /\ \A m \in 1..Len(b) : place[m] = After(b, place[m - 1])
                   /\ Starts(b) = {place[m] : m \in 0..Len(b)}
  BY StartsAre
<1> DEFINE n == Len(b)
           S == {i \in Nat : i >= 1 /\ \E m \in 0..n : i = place[m] /\ m < i}
<1>2. n \in Nat OBVIOUS
<1>3. 1 \in S
  <2>1. 0 \in 0..n /\ 1 = place[0] /\ 0 < 1 BY <1>1, <1>2
  <2> QED BY <2>1
<1>4. S \cap (1..n) \subseteq Starts(b) BY <1>1
<1>5. ASSUME NEW i \in S \cap (1..n), After(b, i) > i PROVE After(b, i) \in S
  <2>1. PICK m \in 0..n : i = place[m] /\ m < i BY <1>5
  <2>2. i \in 1..n /\ m + 1 \in 1..n /\ (m + 1) - 1 = m /\ m + 1 \in 0..n BY <1>2, <1>5, <2>1
  <2>3. place[m + 1] = After(b, i) BY <1>1, <2>1, <2>2
  <2>4. After(b, i) \in Nat /\ After(b, i) >= 1 BY <2>2, AfterTyped
  <2> DEFINE y == After(b, i)
  <2>5. y \in Nat /\ y >= 1 /\ m + 1 < y /\ y = place[m + 1]
    <3>1. y > i /\ y \in Nat /\ y >= 1 BY <1>5, <2>4
    <3> HIDE DEF y, S
    <3>2. m + 1 < y BY <2>1, <2>2, <3>1
    <3> QED BY <2>3, <3>1, <3>2 DEF y
  <2> HIDE DEF y
  <2>6. y \in S BY <2>2, <2>5
  <2> QED BY <2>6 DEF y
<1> HIDE DEF S
<1> QED BY <1>3, <1>4, <1>5

(* Where the sizes fit the parser's numbers, they are what it reads.       *)
LEMMA SizesAreRead ==
  ASSUME NEW b \in Seq(Octet), SizesFit(b), NEW i \in 1..Len(b), i \in Starts(b),
         NEW k \in 1..LongHeader, Heads(b[i], k), i + k - 1 <= Len(b)
  PROVE  SizeIn(b, i, k) = DeclaredSize(b, i, k)
<1> DEFINE d == DeclaredSize(b, i, k)
<1>1. k \in 1..(OctetBits - 1) /\ Len(b) \in Nat /\ b[i] \in Octet BY Widths, OctetsOf
<1>2. d \in Nat /\ d < Capacity(k) BY <1>1, DeclaredIsExact
<1>3. d < 2^SizeBits
  <2>1. CASE k = LongHeader
    <3>1. i <= Len(b) - LongHeader + 1 BY <1>1, <2>1, Widths
    <3>2. LeadingOnes(b[i]) = LongHeader
      <4>1. LeadingOnes(b[i]) = HeaderOf(b[i]) BY <1>1, LeadingOnesHead
      <4>2. HeaderOf(b[i]) = k BY <1>1, HeaderHeads, OneHeader
      <4> QED BY <2>1, <4>1, <4>2
    <3> QED BY <2>1, <3>1, <3>2 DEF SizesFit
  <2>2. CASE k # LongHeader
    <3> DEFINE e == OctetBits - 1 - k + (k - 1) * OctetBits
    <3>1. e \in Nat /\ e <= SizeBits /\ SizeBits \in Nat
      <4>1. OctetBits \in Nat /\ OctetBits >= 3 /\ k \in Nat /\ k + 1 <= LongHeader /\ LongHeader \in Nat
            /\ k <= OctetBits - 1
        BY <1>1, <2>2, Widths
      <4>2. SizeBits \in Nat /\ (LongHeader - 1) * OctetBits - LongHeader <= SizeBits
        <5>1. (LongHeader - 1) * OctetBits - LongHeader \in 0..SizeBits /\ SizeBits \in Nat
          BY CodecAssumption
        <5> QED BY <5>1
      <4> DEFINE m == LongHeader - 1
                 p == OctetBits - 1
      <4>3. m * p = m * OctetBits - m
        <5>1. m \in Int /\ OctetBits \in Int BY <4>1
        <5> HIDE DEF m
        <5> QED BY <5>1
      <4>4. p * k <= p * m
        <5>1. p \in Nat /\ k \in Int /\ m \in Int /\ k <= m BY <4>1
        <5> HIDE DEF p, m
        <5> QED BY <5>1, ProductsGrow
      <4>5. p * k = k * OctetBits - k /\ p * m = m * p
        <5>1. m \in Int /\ OctetBits \in Int /\ k \in Int BY <4>1
        <5> HIDE DEF m
        <5> QED BY <5>1
      <4>6. e = k * OctetBits - k - 1
        <5>1. OctetBits \in Int /\ k \in Int BY <4>1
        <5> QED BY <5>1
      <4>7. e \in Nat
        <5>1. (k - 1) * OctetBits \in Nat BY <1>1, <4>1
        <5> DEFINE z == (k - 1) * OctetBits
        <5> HIDE DEF z
        <5>2. z \in Nat BY <5>1 DEF z
        <5> QED BY <4>1, <5>2 DEF z
      <4> DEFINE x == k * OctetBits
                 y == m * OctetBits
      <4>8. x \in Int /\ y \in Int /\ m \in Int /\ x - k <= y - m /\ y - LongHeader <= SizeBits
            /\ e = x - k - 1 /\ LongHeader = m + 1
        BY <4>1, <4>2, <4>3, <4>4, <4>5, <4>6
      <4> HIDE DEF x, y, m, e
      <4>9. e <= SizeBits BY <4>1, <4>2, <4>8
      <4> QED BY <4>2, <4>7, <4>9
    <3>2. Capacity(k) = 2^e BY DEF Capacity
    <3> HIDE DEF e
    <3>3. 2^e <= 2^SizeBits BY <3>1, PowersOfTwoGrow
    <3>4. 2^e \in Nat /\ 2^SizeBits \in Nat BY <3>1, TwoPowers
    <3> QED BY <1>2, <3>2, <3>3, <3>4
  <2> QED BY <2>1, <2>2
<1> QED BY <1>1, <1>3, SizeInIs

LEMMA DeclaredAreRead ==
  ASSUME NEW b \in Seq(Octet), SizesFit(b), NEW i \in 1..Len(b), i \in Starts(b)
  PROVE  DeclaredAtoms(b)[i] = AtomsIn(b)[i]
<1> DEFINE k == HeaderOf(b[i])
<1>1. k \in 0..OctetBits /\ Heads(b[i], k) /\ Len(b) \in Nat BY OctetsOf
<1>2. DeclaredAtoms(b)[i] = DeclaredAt(b, i, k) BY DEF DeclaredAtoms
<1>3. AtomsIn(b)[i] =
        IF k = 0 THEN {<<Leaf(<<b[i]>>), i + 1>>}
        ELSE IF k > LongHeader \/ i + k - 1 > Len(b) THEN {}
        ELSE IF LastOf(b, i) > Len(b) THEN {}
        ELSE {<<Leaf(SubSeq(b, i + k, LastOf(b, i))), LastOf(b, i) + 1>>}
  BY DEF AtomsIn
<1>4. CASE k = 0 BY <1>2, <1>3, <1>4 DEF DeclaredAt
<1>5. CASE k # 0 /\ (k > LongHeader \/ i + k - 1 > Len(b)) BY <1>2, <1>3, <1>5 DEF DeclaredAt
<1>6. CASE k # 0 /\ ~(k > LongHeader) /\ ~(i + k - 1 > Len(b))
  <2>1. k \in 1..LongHeader /\ i + k - 1 <= Len(b) BY <1>1, <1>6, Widths
  <2>2. SizeIn(b, i, k) = DeclaredSize(b, i, k) BY <1>1, <2>1, SizesAreRead
  <2>3. LastOf(b, i) = DeclaredLast(b, i, k) BY <2>2 DEF LastOf, DeclaredLast
  <2> HIDE DEF k
  <2> QED BY <1>2, <1>3, <1>6, <2>3 DEF DeclaredAt
<1> QED BY <1>4, <1>5, <1>6

(* After an atom, the next node starts.                                    *)
LEMMA AtomEnds ==
  ASSUME NEW b \in Seq(Octet), NEW i \in 1..Len(b), NEW x \in DeclaredAtoms(b)[i],
         b[i] # ConsOctet
  PROVE  x[2] = After(b, i) /\ After(b, i) > i
<1> DEFINE k == HeaderOf(b[i])
<1>1. k \in 0..OctetBits /\ Heads(b[i], k) /\ Len(b) \in Nat /\ b[i] \in Octet BY OctetsOf
<1>2. x \in DeclaredAt(b, i, k) BY DEF DeclaredAtoms
<1>3. k # OctetBits BY <1>1, ConsHeads
<1>4. x[2] \in (i + 1)..(Len(b) + 1) BY DeclaredAtomsGoOn DEF AtomsGoOn
<1>5. x[2] = After(b, i)
  <2>1. CASE k = 0
    <3>1. x[2] = i + 1 BY <1>2, <2>1 DEF DeclaredAt
    <3> QED BY <2>1, <3>1, AfterIs
  <2>2. CASE k # 0
    <3> DEFINE last == DeclaredLast(b, i, k)
               s == Leaf(SubSeq(b, i + k, last))
               y == <<s, last + 1>>
    <3>1. ~(k > LongHeader) /\ ~(i + k - 1 > Len(b)) /\ x = y BY <1>2, <2>2 DEF DeclaredAt
    <3>2. After(b, i) = last + 1 BY <1>3, <2>2, <3>1, AfterIs
    <3> HIDE DEF s, last
    <3> QED BY <3>1, <3>2
  <2> QED BY <2>1, <2>2
<1> QED BY <1>4, <1>5

LEMMA NodesInAreRead ==
  ASSUME NEW b \in Seq(Octet), SizesFit(b)
  PROVE  NodesIn(b)[1] = Reading(b)[1]
<1> DEFINE n == Len(b)
           P == ConsPlaces(b)
<1>1. n \in Nat /\ AtomsGoOn(DeclaredAtoms(b), n) BY DeclaredAtomsGoOn
<1>2. Encodes(Reading(b), n, P, AtomsIn(b)) BY ReadingEncodes
<1>3. Encodes(NodesIn(b), n, P, DeclaredAtoms(b)) BY NodesInEncodes
<1>4. PICK S : /\ 1 \in S /\ S \cap (1..n) \subseteq Starts(b)
               /\ \A i \in S \cap (1..n) : After(b, i) > i => After(b, i) \in S
  BY StartsGoOn
<1>5. ASSUME NEW j \in 1..n, j \in S, j \in P PROVE j + 1 \in S
  <2>1. b[j] = ConsOctet BY <1>5 DEF ConsPlaces
  <2>2. HeaderOf(b[j]) = OctetBits
    <3>1. b[j] \in Octet BY OctetsOf
    <3> QED BY <2>1, <3>1, ConsHeads
  <2>3. After(b, j) = j + 1 BY <2>2, AfterIs
  <2>4. j + 1 > j BY <1>1
  <2> QED BY <1>4, <1>5, <2>3, <2>4
<1>6. ASSUME NEW j \in 1..n, j \in S, j \notin P
      PROVE  Agree(DeclaredAtoms(b), AtomsIn(b), S, j)
  <2>1. j \in Starts(b) /\ b[j] # ConsOctet BY <1>4, <1>6 DEF ConsPlaces
  <2>2. DeclaredAtoms(b)[j] = AtomsIn(b)[j] BY <2>1, DeclaredAreRead
  <2>3. \A x \in DeclaredAtoms(b)[j] : x[2] \in S
    <3> SUFFICES ASSUME NEW x \in DeclaredAtoms(b)[j] PROVE x[2] \in S OBVIOUS
    <3>1. x[2] = After(b, j) /\ After(b, j) > j BY <2>1, AtomEnds
    <3> QED BY <1>4, <1>6, <3>1
  <2> QED BY <2>2, <2>3 DEF Agree
<1>7. 1 \in 1..(n + 1) BY <1>1
<1> HIDE DEF n, P
<1>8. \A j \in 1..(n + 1) : j \in S => Agree(NodesIn(b), Reading(b), S, j)
  BY <1>1, <1>2, <1>3, <1>5, <1>6, EncodingsAgree
<1> QED BY <1>4, <1>7, <1>8 DEF Agree

-----------------------------------------------------------------------------
LEMMA EncodedIs ==
  ASSUME NEW b, NEW n
  PROVE  n \in Encoded(b) <=> \E y \in NodesIn(b)[1] : y[1] = n /\ y[2] = Len(b) + 1
BY DEF Encoded

(* Of the blobs whose sizes fit readSize's numbers, deserialize takes just *)
(* the encodings of trees, within the bounds on octets and on its stack,   *)
(* and gives the tree that the octets encode.                              *)
THEOREM ParserIsExact == CodecSpec => []ReadsTheEncodedTree
<1>1. ASSUME CodecInv PROVE ReadsTheEncodedTree
  <2> SUFFICES ASSUME SizesFit(blob)
               PROVE  /\ Parsed => Encoded(blob) = {values[1]}
                      /\ stage = "malformed" =>
                           \/ Len(blob) > MaxBlob
                           \/ \A n \in Encoded(blob) : StackNeeded[n] > 2 * MaxDepth
    BY DEF ReadsTheEncodedTree
  <2> DEFINE b == blob
             f == Reading(b)
  <2>1. b \in Seq(Octet) /\ Len(b) \in Nat /\ MaxBlob \in Nat BY <1>1, CodecAssumption DEF CodecInv, ParserInv
  <2>2. NodesIn(b)[1] = f[1] BY <2>1, NodesInAreRead
  <2>3. ReadsTrees(f, Len(b)) BY <2>1, ReadingTyped
  <2>4. ASSUME NEW y \in f[1] PROVE 1 \in 1..Len(b) /\ y = <<y[1], y[2]>>
    <3>1. Len(b) # 0
      <4> SUFFICES ASSUME Len(b) = 0 PROVE FALSE OBVIOUS
      <4>1. Len(b) + 1 = 1 OBVIOUS
      <4>2. f[Len(b) + 1] = {} BY <2>3 DEF ReadsTrees
      <4> QED BY <2>4, <4>1, <4>2
    <3>2. 1 \in 1..Len(b) BY <2>1, <3>1
    <3> HIDE DEF f, b
    <3>3. y = <<y[1], y[2]>> BY <2>3, <2>4, <3>2 DEF ReadsTrees
    <3> QED BY <3>2, <3>3
  <2> HIDE DEF f
  <2>5. ASSUME Parsed PROVE Encoded(b) = {values[1]}
    <3> DEFINE root == values[1]
               x == <<root, Len(b) + 1>>
    <3>1. ops = << >> /\ at = Len(b) /\ Len(b) <= MaxBlob
      <4>1. stage \notin {"parsing", "malformed"} BY <2>5 DEF Parsed
      <4> QED BY <1>1, <4>1 DEF CodecInv, Decided
    <3>2. x \in f[1] BY <1>1, <3>1, ParserEnds DEF CodecInv, f
    <3>3. x[1] = root /\ x[2] = Len(b) + 1 OBVIOUS
    <3> HIDE DEF x, b, root
    <3>4. root \in Encoded(b) BY <2>2, <3>2, <3>3, EncodedIs
    <3>5. ASSUME NEW n \in Encoded(b) PROVE n = root
      <4>1. PICK y \in f[1] : y[1] = n /\ y[2] = Len(b) + 1 BY <2>2, <3>5, EncodedIs
      <4>2. 1 \in 1..Len(b) BY <2>4, <4>1
      <4>3. y = x BY <2>1, <3>2, <4>1, <4>2, ReadingIs DEF f
      <4> QED BY <3>3, <4>1, <4>3
    <3> QED BY <3>4, <3>5 DEF root
  <2>6. ASSUME stage = "malformed", ~(Len(b) > MaxBlob), NEW n \in Encoded(b)
        PROVE  StackNeeded[n] > 2 * MaxDepth
    <3> DEFINE e == Len(b) + 1
    <3>1. PICK y \in f[1] : y[1] = n /\ y[2] = e BY <2>2, <2>6, EncodedIs
    <3>2. 1 \in 1..Len(b) /\ y = <<y[1], y[2]>> BY <2>4, <3>1
    <3> HIDE DEF e
    <3>3. <<n, e>> \in f[1] BY <3>1, <3>2
    <3>4. n \in Node
      <4>1. Len(b) <= MaxBlob BY <2>1, <2>6
      <4>2. y[1] \in Node BY <2>1, <3>1, <3>2, <4>1, ReadingNodes DEF f
      <4> QED BY <3>1, <4>2
    <3>5. IsTooDeep(b) BY <1>1, <2>6 DEF CodecInv, Decided
    <3> QED BY <3>3, <3>4, <3>5 DEF IsTooDeep, e, f
  <2> QED BY <2>5, <2>6
<1> QED BY <1>1, CodecInvariance, PTL

-----------------------------------------------------------------------------
(* A header that was written declares the size it was written for.         *)
LEMMA NestedQuotients ==
  ASSUME NEW z \in Nat, NEW m \in Nat, m >= 1, NEW w \in Nat, w >= 1
  PROVE  z \div (m * w) = (z \div m) \div w
<1> DEFINE q == z \div m
           p == q \div w
           r == z % m
           u == q % w
           mw == m * w
<1>1. q \in Int /\ r \in 0..(m - 1) /\ z = m * q + r BY Divides
<1>2. p \in Int /\ u \in 0..(w - 1) /\ q = w * p + u
  <2> HIDE DEF q
  <2> QED BY <1>1, Divides
<1>3. mw \in Nat /\ mw >= 1
  <2>1. mw \in Nat BY DEF mw
  <2>2. m * 1 <= m * w BY ProductsGrow
  <2> QED BY <2>1, <2>2
<1> HIDE DEF q, r, p, u
<1>4. m * (w * p) <= m * q
  <2> DEFINE a == w * p
  <2>1. a \in Int /\ a <= q BY <1>1, <1>2
  <2> HIDE DEF a
  <2>2. m * a <= m * q BY <1>1, <2>1, ProductsGrow
  <2> QED BY <2>2 DEF a
<1>5. m * (q + 1) <= m * (w * p + w)
  <2> DEFINE a == w * p + w
             c == q + 1
  <2>1. a \in Int /\ c \in Int /\ c <= a BY <1>1, <1>2
  <2> HIDE DEF a, c
  <2>2. m * c <= m * a BY <2>1, ProductsGrow
  <2> QED BY <2>2 DEF a, c
<1>6. m * (w * p) = mw * p /\ m * (w * p + w) = mw * p + mw /\ m * (q + 1) = m * q + m
  BY <1>1, <1>2
<1>7. mw * p <= z /\ z < mw * p + mw
  <2> DEFINE a == mw * p
             c == m * q
  <2>1. a \in Int /\ c \in Int /\ a <= c /\ c + m <= a + mw /\ z = c + r
    BY <1>1, <1>2, <1>3, <1>4, <1>5, <1>6
  <2> HIDE DEF a, c, mw
  <2>2. a <= z /\ z < a + mw BY <1>1, <1>3, <2>1
  <2> QED BY <2>2 DEF a
<1> HIDE DEF mw
<1>8. z \div mw = p BY <1>2, <1>3, <1>7, QuotientIs
<1> QED BY <1>8 DEF p, q, mw

Stands(b, i, s) == i + Len(s) - 1 <= Len(b) /\ \A j \in 1..Len(s) : b[i + j - 1] = s[j]

LEMMA StandsInParts ==
  ASSUME NEW b \in Seq(Octet), NEW i \in Nat \ {0}, NEW s \in Seq(Octet), NEW t \in Seq(Octet),
         Stands(b, i, s \o t)
  PROVE  Stands(b, i, s) /\ Stands(b, i + Len(s), t)
<1> DEFINE u == s \o t
           m == Len(s)
           n == Len(t)
<1>1. Len(u) = m + n /\ m \in Nat /\ n \in Nat /\ Len(b) \in Nat BY ConcatProperties
<1>2. \A j \in 1..(m + n) : u[j] = IF j <= m THEN s[j] ELSE t[j - m] BY ConcatProperties
<1>3. i + (m + n) - 1 <= Len(b) /\ \A j \in 1..(m + n) : b[i + j - 1] = u[j] BY <1>1 DEF Stands
<1> HIDE DEF u, m, n
<1>4. ASSUME NEW j \in 1..m PROVE b[i + j - 1] = s[j]
  <2>1. j \in 1..(m + n) /\ j <= m BY <1>1
  <2> QED BY <1>2, <1>3, <2>1
<1>5. ASSUME NEW j \in 1..n PROVE b[i + m + j - 1] = t[j]
  <2> DEFINE g == m + j
  <2>1. g \in 1..(m + n) /\ ~(g <= m) /\ g - m = j /\ i + g - 1 = i + m + j - 1 BY <1>1
  <2> HIDE DEF g
  <2>2. u[g] = t[g - m] BY <1>2, <2>1
  <2>3. b[i + g - 1] = u[g] BY <1>3, <2>1
  <2> QED BY <2>1, <2>2, <2>3
<1>6. i + m - 1 <= Len(b) /\ i + m + n - 1 <= Len(b) BY <1>1, <1>3
<1> QED BY <1>4, <1>5, <1>6 DEF Stands, m, n

LEMMA HeaderDeclares ==
  ASSUME NEW b \in Seq(Octet), NEW i \in 1..Len(b), NEW n \in Nat, n < Capacity(LongWritten),
         Stands(b, i, HeaderFor(n))
  PROVE  LET k == HeaderLength(n) IN
         /\ k \in 1..LongHeader /\ i + k - 1 <= Len(b) /\ Heads(b[i], k)
         /\ DeclaredSize(b, i, k) = n
<1> DEFINE k == HeaderLength(n)
           h == HeaderFor(n)
           w == 2^OctetBits
<1>1. /\ Len(h) = k /\ k \in 1..LongHeader /\ \A j \in 1..k : h[j] = HeaderOctet(n, k, j)
      /\ Heads(h[1], k) /\ n < Capacity(k)
  BY HeaderIs
<1> HIDE DEF k, h
<1>2. i + k - 1 <= Len(b) /\ \A j \in 1..k : b[i + j - 1] = HeaderOctet(n, k, j)
  BY <1>1 DEF Stands, h
<1>3. k \in Nat /\ k >= 1 /\ k \in 1..(OctetBits - 1) /\ k \in 0..OctetBits BY <1>1, Widths
<1>4. b[i] = HeaderOctet(n, k, 1) /\ Heads(b[i], k)
  <2>1. 1 \in 1..k /\ i + 1 - 1 = i BY <1>3
  <2>2. b[i + 1 - 1] = HeaderOctet(n, k, 1) BY <1>2, <2>1
  <2>3. b[i] = HeaderOctet(n, k, 1) BY <2>1, <2>2
  <2> QED BY <1>1, <2>1, <2>3
<1>5. PICK size : /\ Exact(size, b, i, k) /\ \A j \in 1..k : size[j] \in Nat
                  /\ DeclaredSize(b, i, k) = size[k]
  BY <1>2, <1>3, <1>4, DeclaredIsExact
<1>6. w \in Nat /\ w >= 2 /\ w >= 1 BY Widths
<1> HIDE DEF w
<1>7. \A j \in Nat : j + 1 <= k => size[j + 1] = n \div Place(k, j + 1)
  <2> DEFINE T == {j \in Nat : j + 1 <= k => size[j + 1] = n \div Place(k, j + 1)}
  <2>1. 0 \in T
    <3>1. size[1] = b[i] - FirstOf(k) BY <1>5 DEF Exact
    <3>2. HeaderOctet(n, k, 1) = FirstOf(k) + n \div Place(k, 1) /\ n \div Place(k, 1) \in Nat
      BY <1>1, FirstHeaderOctet
    <3>3. FirstOf(k) \in Int
      <4>1. FirstOf(k) \in Octet BY <1>3, FirstOctets
      <4> QED BY <4>1, Widths
    <3> DEFINE d == n \div Place(k, 1)
    <3> HIDE DEF d
    <3>4. size[1] = d BY <1>4, <3>1, <3>2, <3>3 DEF d
    <3>5. 0 + 1 = 1 OBVIOUS
    <3> QED BY <3>4, <3>5 DEF d
  <2>2. ASSUME NEW j \in Nat, j \in T PROVE j + 1 \in T
    <3> SUFFICES ASSUME j + 1 + 1 <= k PROVE size[j + 1 + 1] = n \div Place(k, j + 1 + 1) OBVIOUS
    <3> DEFINE m == Place(k, j + 2)
               q == n \div m
    <3>1. j + 1 + 1 = j + 2 /\ j + 2 \in 2..k /\ j + 2 - 1 = j + 1 /\ j + 1 \in 1..k /\ j + 1 < k
          /\ j + 2 \in 1..k
      BY <1>3
    <3>2. m \in Nat /\ m >= 1 BY <1>1, <3>1, PlaceIs
    <3>3. Place(k, j + 1) = m * w
      <4>1. Place(k, j + 1) = Place(k, j + 1 + 1) * 2^OctetBits BY <1>1, <3>1, PlaceIs
      <4> QED BY <3>1, <4>1 DEF w
    <3>4. size[j + 1] = n \div (m * w)
      <4>1. size[j + 1] = n \div Place(k, j + 1) BY <2>2, <3>1, <1>3
      <4> QED BY <3>3, <4>1
    <3>5. n \div (m * w) = q \div w
      <4> HIDE DEF m
      <4> QED BY <1>6, <3>2, NestedQuotients
    <3>6. HeaderOctet(n, k, j + 2) = q % w
      <4>1. j + 2 # 1 OBVIOUS
      <4>2. HeaderOctet(n, k, j + 2) = 0 + (q % w) BY <4>1 DEF HeaderOctet, w
      <4>3. q % w \in Int
        <5>1. q \in Int
          <6> HIDE DEF m
          <6> QED BY <3>2, Divides
        <5> HIDE DEF q
        <5> QED BY <1>6, <5>1, Divides
      <4> HIDE DEF q
      <4> DEFINE v == q % w
      <4> HIDE DEF v
      <4> QED BY <4>2, <4>3 DEF v
    <3>7. size[j + 2] = size[j + 1] * w + b[i + (j + 2) - 1]
      <4>1. size[j + 2] = size[j + 2 - 1] * 2^OctetBits + b[i + (j + 2) - 1] BY <1>5, <3>1 DEF Exact
      <4> QED BY <3>1, <4>1 DEF w
    <3>8. b[i + (j + 2) - 1] = HeaderOctet(n, k, j + 2) BY <1>2, <3>1
    <3>9. size[j + 2] = (q \div w) * w + (q % w) BY <3>4, <3>5, <3>6, <3>7, <3>8
    <3>10. q \in Int
      <4> HIDE DEF m
      <4> QED BY <3>2, Divides
    <3> HIDE DEF q
    <3>11. q \div w \in Int /\ q % w \in 0..(w - 1) /\ q = w * (q \div w) + (q % w)
      BY <1>6, <3>10, Divides
    <3>12. size[j + 2] = q
      <4> DEFINE x == q \div w
                 v == q % w
      <4> HIDE DEF x, v
      <4>1. x \in Int /\ v \in Int /\ q = w * x + v /\ size[j + 2] = x * w + v
        BY <1>6, <3>9, <3>11 DEF x, v
      <4> QED BY <1>6, <4>1
    <3> QED BY <3>1, <3>12 DEF q, m
  <2>3. T = Nat
    <3>1. \A m \in Nat : m \in T => m + 1 \in T BY <2>2
    <3> HIDE DEF T
    <3>2. T \in SUBSET Nat BY DEF T
    <3> QED BY <2>1, <3>1, <3>2, SetInduction
  <2> QED BY <2>3
<1>8. size[k] = n
  <2>1. k - 1 \in Nat /\ k - 1 + 1 = k BY <1>3
  <2>2. size[k] = n \div Place(k, k) BY <1>7, <2>1
  <2>3. Place(k, k) = 1
    <3>1. k \in 1..k BY <1>3
    <3> QED BY <1>1, <3>1, PlaceIs
  <2>4. n \div 1 = n OBVIOUS
  <2> QED BY <2>2, <2>3, <2>4
<1> QED BY <1>1, <1>2, <1>4, <1>5, <1>8 DEF k

-----------------------------------------------------------------------------
(* The octets of a tree encode it wherever they stand.                     *)
LEMMA StandingIs ==
  ASSUME NEW b \in Seq(Octet), NEW i \in Nat \ {0}, NEW s \in Seq(Octet), Stands(b, i, s),
         NEW last, last = i + Len(s) - 1
  PROVE  SubSeq(b, i, last) = s
<1> DEFINE n == Len(s)
           t == SubSeq(b, i, last)
<1>1. n \in Nat /\ Len(b) \in Nat /\ last = i + n - 1 /\ last <= Len(b) BY DEF Stands
<1>2. \A j \in 1..n : b[i + j - 1] = s[j] BY DEF Stands
<1>3. Len(t) = n /\ \A j \in 1..n : t[j] = b[i + j - 1]
  <2>1. i \in Int /\ last \in Int /\ \A j \in i..last : b[j] \in Octet
    <3>1. \A j \in i..last : j \in 1..Len(b) BY <1>1
    <3> QED BY <1>1, <3>1
  <2>2. /\ t \in Seq(Octet) /\ Len(t) = IF i <= last THEN last - i + 1 ELSE 0
        /\ \A j \in 1..(last - i + 1) : t[j] = b[i + j - 1]
    BY <2>1, SubSeqProperties
  <2>3. last - i + 1 = n BY <1>1
  <2>4. Len(t) = n
    <3>1. CASE n = 0 BY <1>1, <2>2, <3>1
    <3>2. CASE n # 0 BY <1>1, <2>2, <2>3, <3>2
    <3> QED BY <3>1, <3>2
  <2> QED BY <2>2, <2>3, <2>4
<1>4. t \in Seq(Octet)
  <2>1. i \in Int /\ last \in Int /\ \A j \in i..last : b[j] \in Octet
    <3>1. \A j \in i..last : j \in 1..Len(b) BY <1>1
    <3> QED BY <1>1, <3>1
  <2> QED BY <2>1, SubSeqProperties
<1>5. t = [j \in 1..n |-> t[j]] /\ s = [j \in 1..n |-> s[j]] BY <1>3, <1>4
<1> HIDE DEF t, n
<1> QED BY <1>2, <1>3, <1>5 DEF t

(* An atom.                                                                *)
LEMMA AtomStands ==
  ASSUME NEW b \in Seq(Octet), NEW i \in 1..Len(b), NEW s \in Seq(Octet),
         Len(s) < Capacity(LongWritten), Stands(b, i, encodeAtom(s))
  PROVE  <<Leaf(s), i + Len(encodeAtom(s))>> \in NodesIn(b)[i]
<1> DEFINE k == HeaderOf(b[i])
           z == Len(s)
           e == encodeAtom(s)
<1>1. /\ k \in 0..OctetBits /\ Heads(b[i], k) /\ Len(b) \in Nat /\ b[i] \in Octet /\ z \in Nat
  BY OctetsOf
<1>2. ASSUME k # OctetBits PROVE NodesIn(b)[i] = DeclaredAt(b, i, k)
  <2>1. i \notin ConsPlaces(b)
    <3>1. b[i] # ConsOctet BY <1>1, <1>2, ConsHeads
    <3> QED BY <3>1 DEF ConsPlaces
  <2>2. DeclaredAtoms(b)[i] = DeclaredAt(b, i, k) BY DEF DeclaredAtoms
  <2>3. NodesIn(b)[i] = DeclaredAtoms(b)[i] BY <1>1, <2>1, NodesInEncodes, EncodesUnrolls
  <2> QED BY <2>2, <2>3
<1>3. CASE z = 1 /\ s[1] < FirstOf(1)
  <2>1. e = s BY <1>3 DEF encodeAtom
  <2>2. b[i] = s[1]
    <3>1. 1 \in 1..Len(s) /\ i + 1 - 1 = i BY <1>3
    <3>2. b[i + 1 - 1] = s[1] BY <2>1, <3>1 DEF Stands
    <3> QED BY <3>1, <3>2
  <2>3. k = 0
    <3>1. FirstOf(0) = 0 /\ 0 \in 0..OctetBits
      <4>1. 0 \in 0..OctetBits BY Widths
      <4> QED BY <4>1, FirstOctets
    <3>2. b[i] >= 0 /\ 0 + 1 = 1 BY <1>1, Widths
    <3>3. Heads(b[i], 0) BY <1>3, <2>2, <3>1, <3>2 DEF Heads
    <3> HIDE DEF k
    <3> QED BY <1>1, <3>3, OneHeader
  <2>4. NodesIn(b)[i] = {<<Leaf(<<b[i]>>), i + 1>>}
    <3>1. k # OctetBits BY <2>3, Widths
    <3> HIDE DEF k
    <3> QED BY <1>2, <2>3, <3>1 DEF DeclaredAt
  <2>5. s = <<b[i]>> BY <1>3, <2>2
  <2>6. Len(e) = 1 BY <1>3, <2>1
  <2>7. <<Leaf(<<b[i]>>), i + 1>> \in NodesIn(b)[i] BY <2>4
  <2> HIDE DEF e
  <2> QED BY <2>5, <2>6, <2>7 DEF e
<1>4. CASE ~(z = 1 /\ s[1] < FirstOf(1))
  <2> DEFINE h == HeaderFor(z)
             m == HeaderLength(z)
  <2>1. e = h \o s BY <1>4 DEF encodeAtom
  <2>2. h \in Seq(Octet) /\ Len(h) = m /\ m \in 1..LongHeader
    <3> HIDE DEF z
    <3>1. z < Capacity(LongWritten) BY DEF z
    <3> QED BY <1>1, <3>1, HeaderIs
  <2>3. Stands(b, i, h) /\ Stands(b, i + m, s)
    <3>1. i \in Nat \ {0} BY <1>1
    <3>2. Stands(b, i, h \o s) BY <2>1
    <3> HIDE DEF h, m
    <3>3. Stands(b, i, h) /\ Stands(b, i + Len(h), s) BY <2>2, <3>1, <3>2, StandsInParts
    <3> QED BY <2>2, <3>3
  <2>4. i + m - 1 <= Len(b) /\ Heads(b[i], m) /\ DeclaredSize(b, i, m) = z
    <3>1. z < Capacity(LongWritten) /\ Stands(b, i, HeaderFor(z)) BY <2>3
    <3> HIDE DEF z
    <3> QED BY <1>1, <3>1, HeaderDeclares
  <2> HIDE DEF h, m
  <2>5. k = m /\ m \in Nat /\ m >= 1 /\ m # OctetBits /\ m # 0 /\ ~(m > LongHeader)
    <3>1. k = m
      <4> HIDE DEF k
      <4> QED BY <1>1, <2>4, OneHeader
    <3> QED BY <2>2, <3>1, Widths
  <2> DEFINE last == DeclaredLast(b, i, m)
             y == <<Leaf(SubSeq(b, i + m, last)), last + 1>>
  <2>6. last = i + m - 1 + z BY <2>4 DEF DeclaredLast
  <2>7. last <= Len(b) /\ last \in Int
    <3>1. i + m + z - 1 <= Len(b) BY <2>3 DEF Stands
    <3> HIDE DEF last, z
    <3> QED BY <1>1, <2>5, <2>6, <3>1
  <2>8. NodesIn(b)[i] = {y}
    <3>1. ~(last > Len(b)) /\ ~(i + m - 1 > Len(b))
      <4> HIDE DEF last
      <4> QED BY <1>1, <2>4, <2>5, <2>7
    <3>2. NodesIn(b)[i] = DeclaredAt(b, i, m) BY <1>2, <2>5
    <3> QED BY <2>5, <3>1, <3>2 DEF DeclaredAt
  <2>9. SubSeq(b, i + m, last) = s
    <3>1. i + m \in Nat \ {0} BY <1>1, <2>5
    <3>2. last = i + m + Len(s) - 1 BY <1>1, <2>5, <2>6
    <3> DEFINE j == i + m
    <3> HIDE DEF j, last
    <3>3. j \in Nat \ {0} /\ last = j + Len(s) - 1 /\ Stands(b, j, s) BY <2>3, <3>1, <3>2 DEF j
    <3> QED BY <3>3, StandingIs DEF j
  <2>10. last + 1 = i + Len(e)
    <3>1. Len(e) = m + z
      <4>1. Len(h \o s) = Len(h) + Len(s) BY <2>2, ConcatProperties
      <4> QED BY <2>1, <2>2, <4>1 DEF h
    <3> HIDE DEF last, z, e
    <3> QED BY <1>1, <2>5, <2>6, <3>1
  <2>11. y \in NodesIn(b)[i] BY <2>8
  <2> HIDE DEF last, e
  <2>12. y = <<Leaf(s), i + Len(e)>> BY <2>9, <2>10
  <2> HIDE DEF y
  <2> QED BY <2>11, <2>12 DEF e
<1> QED BY <1>3, <1>4

StandsFor(n) ==
  \A b \in Seq(Octet) : \A i \in 1..Len(b) :
    Len(Serial[n]) < Capacity(LongWritten) /\ Stands(b, i, Serial[n])
    => <<n, i + Len(Serial[n])>> \in NodesIn(b)[i]

LEMMA CapacityWritten == Capacity(LongWritten) \in Nat
<1>1. LongWritten \in 1..LongHeader BY Widths
<1> QED BY <1>1, CapacityIs

LEMMA LeafStands ==
  ASSUME NEW n \in Node, ~isPair(n) PROVE StandsFor(n)
<1> DEFINE s == n.atom
<1>1. s \in Seq(Octet) /\ n = Leaf(s) BY NodeParts
<1>2. Serial[n] = AtomOctets(s) /\ Len(Serial[n]) >= Len(s) /\ Len(Serial[n]) \in Nat BY SerialUnrolls
<1> HIDE DEF s
<1> SUFFICES ASSUME NEW b \in Seq(Octet), NEW i \in 1..Len(b),
                    Len(Serial[n]) < Capacity(LongWritten), Stands(b, i, Serial[n])
             PROVE  <<n, i + Len(Serial[n])>> \in NodesIn(b)[i]
  BY DEF StandsFor
<1>3. Len(s) < Capacity(LongWritten)
  <2>1. Len(s) \in Nat BY <1>1
  <2> QED BY <1>2, <2>1, CapacityWritten
<1>4. Serial[n] = encodeAtom(s) BY <1>2, <1>3 DEF AtomOctets
<1>5. Stands(b, i, encodeAtom(s)) BY <1>4
<1>6. <<Leaf(s), i + Len(encodeAtom(s))>> \in NodesIn(b)[i] BY <1>1, <1>3, <1>5, AtomStands
<1> QED BY <1>1, <1>4, <1>6

LEMMA PairStands ==
  ASSUME NEW n \in Node, isPair(n), StandsFor(n.left), StandsFor(n.right) PROVE StandsFor(n)
<1> DEFINE l == Serial[n.left]
           r == Serial[n.right]
           c == <<ConsOctet>>
           cl == c \o l
<1>1. n.left \in Node /\ n.right \in Node /\ n = Pair(n.left, n.right) BY NodeParts
<1>2. l \in Seq(Octet) /\ r \in Seq(Octet) /\ Len(l) \in Nat /\ Len(r) \in Nat
      /\ Len(l) >= 1 /\ Len(r) >= 1
  BY <1>1, SerialUnrolls
<1>3. Serial[n] = cl \o r /\ Len(Serial[n]) = 1 + Len(l) + Len(r) BY SerialUnrolls
<1>4. c \in Seq(Octet) /\ Len(c) = 1 /\ c[1] = ConsOctet
  <2>1. ConsOctet \in Octet BY Widths
  <2> QED BY <2>1
<1> SUFFICES ASSUME NEW b \in Seq(Octet), NEW i \in 1..Len(b),
                    Len(Serial[n]) < Capacity(LongWritten), Stands(b, i, Serial[n])
             PROVE  <<n, i + Len(Serial[n])>> \in NodesIn(b)[i]
  BY DEF StandsFor
<1>5. Stands(b, i, cl \o r) BY <1>3
<1> HIDE DEF l, r, c
<1>6. cl \in Seq(Octet) /\ Len(cl) = 1 + Len(l) BY <1>2, <1>4, ConcatProperties
<1>7. i \in Nat \ {0} /\ Len(b) \in Nat BY OctetsOf
<1>8. Stands(b, i, cl) /\ Stands(b, i + Len(cl), r)
  <2> HIDE DEF cl
  <2> QED BY <1>2, <1>5, <1>6, <1>7, StandsInParts
<1>9. Stands(b, i, c) /\ Stands(b, i + 1, l)
  <2>1. Stands(b, i, c) /\ Stands(b, i + Len(c), l) BY <1>2, <1>4, <1>7, <1>8, StandsInParts
  <2> QED BY <1>4, <2>1
<1> HIDE DEF cl
<1>10. b[i] = ConsOctet
  <2>1. 1 \in 1..Len(c) /\ i + 1 - 1 = i BY <1>4, <1>7
  <2>2. b[i + 1 - 1] = c[1] BY <1>9, <2>1 DEF Stands
  <2> QED BY <1>4, <2>1, <2>2
<1> DEFINE j == i + 1
           m == i + 1 + Len(l)
           x == <<n.left, m>>
           y == <<n.right, m + Len(r)>>
<1>11. j \in 1..Len(b) /\ m \in 1..Len(b) /\ m = j + Len(l) /\ m = i + Len(cl)
  <2>1. j + Len(l) - 1 <= Len(b) BY <1>9 DEF Stands
  <2>2. m + Len(r) - 1 <= Len(b)
    <3>1. i + Len(cl) + Len(r) - 1 <= Len(b) BY <1>8 DEF Stands
    <3> QED BY <1>2, <1>6, <1>7, <3>1
  <2> QED BY <1>2, <1>6, <1>7, <2>1, <2>2
<1>12. Len(l) < Capacity(LongWritten) /\ Len(r) < Capacity(LongWritten)
  BY <1>2, <1>3, CapacityWritten
<1> HIDE DEF j, m
<1>13. x \in NodesIn(b)[j]
  <2>1. Stands(b, j, l) BY <1>9 DEF j
  <2>2. <<n.left, j + Len(l)>> \in NodesIn(b)[j] BY <1>11, <1>12, <2>1 DEF StandsFor, l
  <2> QED BY <1>11, <2>2
<1>14. y \in NodesIn(b)[m]
  <2>1. Stands(b, m, r) BY <1>8, <1>11
  <2> QED BY <1>11, <1>12, <2>1 DEF StandsFor, r
<1>15. x[1] = n.left /\ x[2] = m /\ y[1] = n.right /\ y[2] = m + Len(r) OBVIOUS
<1> HIDE DEF x, y
<1>16. <<Pair(x[1], y[1]), y[2]>> \in NodesIn(b)[i]
  <2>1. i \in ConsPlaces(b) BY <1>10 DEF ConsPlaces
  <2>2. x \in NodesIn(b)[i + 1] /\ y \in NodesIn(b)[x[2]] BY <1>13, <1>14, <1>15 DEF j
  <2>3. Len(b) \in Nat /\ Encodes(NodesIn(b), Len(b), ConsPlaces(b), DeclaredAtoms(b))
    BY <1>7, NodesInEncodes
  <2> QED BY <2>1, <2>2, <2>3, JoinedAt
<1>17. m + Len(r) = i + Len(Serial[n]) BY <1>2, <1>3, <1>7 DEF m
<1> QED BY <1>1, <1>15, <1>16, <1>17

LEMMA TreeStands ==
  ASSUME NEW n \in Node PROVE StandsFor(n)
<1> DEFINE T == {m \in Node : StandsFor(m)}
<1>1. \A m \in Node : ~isPair(m) => m \in T BY LeafStands
<1>2. \A m \in Node : isPair(m) /\ m.left \in T /\ m.right \in T => m \in T BY PairStands
<1> HIDE DEF T
<1>3. \A m \in Node : m \in T BY <1>1, <1>2, TreeInduction
<1> QED BY <1>3 DEF T

(* What a tree is serialized as encodes that tree and no other.            *)
LEMMA SerialEncodes ==
  ASSUME NEW n \in Node, Len(Serial[n]) < Capacity(LongWritten)
  PROVE  Encoded(Serial[n]) = {n}
<1> DEFINE b == Serial[n]
           f == NodesIn(b)
           x == <<n, 1 + Len(b)>>
<1>1. b \in Seq(Octet) /\ Len(b) \in Nat /\ 1 \in 1..Len(b)
  <2>1. b \in Seq(Octet) /\ Len(b) \in Nat /\ Len(b) >= 1 BY SerialUnrolls
  <2> HIDE DEF b
  <2> QED BY <2>1
<1>2. x \in f[1]
  <2>1. Stands(b, 1, b)
    <3>1. 1 + Len(b) - 1 <= Len(b) /\ \A j \in 1..Len(b) : 1 + j - 1 = j BY <1>1
    <3> QED BY <3>1 DEF Stands
  <2>2. StandsFor(n) BY TreeStands
  <2> QED BY <1>1, <2>1, <2>2 DEF StandsFor
<1>3. x[1] = n /\ x[2] = Len(b) + 1 BY <1>1
<1> HIDE DEF b, x
<1>4. n \in Encoded(b) BY <1>2, <1>3, EncodedIs
<1>5. \A i \in 1..Len(b) : \A u \in DeclaredAtoms(b)[i] : \A v \in DeclaredAtoms(b)[i] : v = u
  <2> SUFFICES ASSUME NEW i \in 1..Len(b), NEW u \in DeclaredAtoms(b)[i], NEW v \in DeclaredAtoms(b)[i]
               PROVE  v = u
    OBVIOUS
  <2> DEFINE k == HeaderOf(b[i])
  <2>1. u \in DeclaredAt(b, i, k) /\ v \in DeclaredAt(b, i, k) BY DEF DeclaredAtoms
  <2> HIDE DEF k
  <2> QED BY <2>1 DEF DeclaredAt
<1>6. ASSUME NEW m \in Encoded(b) PROVE m = n
  <2>1. PICK y \in f[1] : y[1] = m /\ y[2] = Len(b) + 1 BY <1>6, EncodedIs
  <2>2. Encodes(f, Len(b), ConsPlaces(b), DeclaredAtoms(b)) /\ AtomsGoOn(DeclaredAtoms(b), Len(b))
    BY <1>1, NodesInEncodes, DeclaredAtomsGoOn
  <2> HIDE DEF f
  <2>3. y = x BY <1>1, <1>2, <1>5, <2>1, <2>2, OneNodeEach
  <2> QED BY <1>3, <2>1, <2>3
<1> QED BY <1>4, <1>6 DEF b

(* What serialize writes is read as the tree that was written, and takes   *)
(* no more octets than the tree was read from.                             *)
THEOREM WritingIsInverse == CodecSpec => []WritesBack
<1>1. ASSUME CodecInv PROVE WritesBack
  <2> SUFFICES ASSUME stage = "done"
               PROVE  Encoded(chunks) = {values[1]} /\ Len(chunks) <= Len(blob)
    BY DEF WritesBack
  <2>1. chunks = Serial[values[1]] BY <1>1 DEF CodecInv, WriterInv
  <2>2. /\ values[1] \in Node /\ Len(Serial[values[1]]) <= Len(blob)
        /\ Len(Serial[values[1]]) < Capacity(LongWritten)
    BY <1>1, RootIsWritable DEF CodecInv
  <2> QED BY <2>1, <2>2, SerialEncodes
<1> QED BY <1>1, CodecInvariance, PTL

-----------------------------------------------------------------------------
(* The nodes of a tree, and how far it goes to the right.                  *)
LEMMA SubNodesUnroll ==
  ASSUME NEW n \in Node
  PROVE  /\ SubNodes[n] \in SUBSET Node
         /\ SubNodes[n] = {n} \cup IF isPair(n) THEN SubNodes[n.left] \cup SubNodes[n.right] ELSE {}
<1> DEFINE V == SUBSET Node
           leaf == [m \in Node |-> {m}]
           join == [x \in Node \X V \X V |-> {x[1]} \cup (x[2] \cup x[3])]
           Body(f, m) == {m} \cup IF isPair(m) THEN f[m.left] \cup f[m.right] ELSE {}
           Rec(f) == f = [m \in Node |-> Body(f, m)]
<1>1. /\ leaf \in [Node -> V] /\ \A m \in Node : leaf[m] = {m}
      /\ join \in [Node \X V \X V -> V]
      /\ \A m \in Node : \A l, r \in V : join[<<m, l, r>>] = {m} \cup (l \cup r)
  OBVIOUS
<1> HIDE DEF leaf, join
<1>2. PICK f : Recursive(f, V, leaf, join)
  <2> HIDE DEF V
  <2> QED BY <1>1, TreeRecursion
<1>3. Rec(f)
  <2>1. ASSUME NEW m \in Node PROVE f[m] = Body(f, m)
    <3>1. CASE isPair(m)
      <4>1. f[m] = join[<<m, f[m.left], f[m.right]>>] BY <1>2, <3>1 DEF Recursive
      <4>2. f[m.left] \in V /\ f[m.right] \in V
        <5>1. m.left \in Node /\ m.right \in Node BY <3>1, NodeParts
        <5> HIDE DEF V
        <5> QED BY <1>2, <5>1 DEF Recursive
      <4>3. join[<<m, f[m.left], f[m.right]>>] = {m} \cup (f[m.left] \cup f[m.right])
        <5> HIDE DEF V
        <5> QED BY <1>1, <4>2
      <4> QED BY <3>1, <4>1, <4>3
    <3>2. CASE ~isPair(m)
      <4>1. f[m] = leaf[m] BY <1>2, <3>2 DEF Recursive
      <4> QED BY <1>1, <3>2, <4>1
    <3> QED BY <3>1, <3>2
  <2>2. f = [m \in Node |-> f[m]] BY <1>2 DEF Recursive
  <2> HIDE DEF Body
  <2> QED BY <2>1, <2>2
<1>4. Rec(SubNodes)
  <2>1. SubNodes = CHOOSE g : Rec(g) BY DEF SubNodes
  <2> HIDE DEF Rec
  <2> QED BY <1>3, <2>1
<1>5. \A m \in Node : SubNodes[m] = Body(SubNodes, m)
  <2> HIDE DEF Body
  <2> QED BY <1>4
<1>6. \A m \in Node : SubNodes[m] \in V
  <2> DEFINE T == {m \in Node : SubNodes[m] \in V}
  <2>1. \A m \in Node : ~isPair(m) => m \in T BY <1>5
  <2>2. \A m \in Node : isPair(m) /\ m.left \in T /\ m.right \in T => m \in T BY <1>5
  <2> HIDE DEF T
  <2>3. \A m \in Node : m \in T BY <2>1, <2>2, TreeInduction
  <2> QED BY <2>3 DEF T
<1> QED BY <1>5, <1>6

LEMMA SpineUnrolls ==
  ASSUME NEW n \in Node
  PROVE  /\ Spine[n] \in Nat
         /\ Spine[n] = IF isPair(n) THEN 1 + Spine[n.right] ELSE 0
<1> DEFINE leaf == [m \in Node |-> 0]
           join == [x \in Node \X Nat \X Nat |-> 1 + x[3]]
           Body(f, m) == IF isPair(m) THEN 1 + f[m.right] ELSE 0
           Rec(f) == f = [m \in Node |-> Body(f, m)]
<1>1. /\ leaf \in [Node -> Nat] /\ \A m \in Node : leaf[m] = 0
      /\ join \in [Node \X Nat \X Nat -> Nat]
      /\ \A m \in Node : \A l, r \in Nat : join[<<m, l, r>>] = 1 + r
  OBVIOUS
<1> HIDE DEF leaf, join
<1>2. PICK f : Recursive(f, Nat, leaf, join) BY <1>1, TreeRecursion
<1>3. Rec(f)
  <2>1. ASSUME NEW m \in Node PROVE f[m] = Body(f, m)
    <3>1. CASE isPair(m)
      <4>1. f[m] = join[<<m, f[m.left], f[m.right]>>] BY <1>2, <3>1 DEF Recursive
      <4>2. f[m.left] \in Nat /\ f[m.right] \in Nat BY <1>2, <3>1, NodeParts DEF Recursive
      <4> QED BY <1>1, <3>1, <4>1, <4>2
    <3>2. CASE ~isPair(m) BY <1>1, <1>2, <3>2 DEF Recursive
    <3> QED BY <3>1, <3>2
  <2>2. f = [m \in Node |-> f[m]] BY <1>2 DEF Recursive
  <2> HIDE DEF Body
  <2> QED BY <2>1, <2>2
<1>4. Rec(Spine)
  <2>1. Spine = CHOOSE g : Rec(g) BY DEF Spine
  <2> HIDE DEF Rec
  <2> QED BY <1>3, <2>1
<1>5. \A m \in Node : Spine[m] = Body(Spine, m)
  <2> HIDE DEF Body
  <2> QED BY <1>4
<1>6. \A m \in Node : Spine[m] \in Nat
  <2> DEFINE T == {m \in Node : Spine[m] \in Nat}
  <2>1. \A m \in Node : ~isPair(m) => m \in T BY <1>5
  <2>2. \A m \in Node : isPair(m) /\ m.left \in T /\ m.right \in T => m \in T BY <1>5
  <2> HIDE DEF T
  <2>3. \A m \in Node : m \in T BY <2>1, <2>2, TreeInduction
  <2> QED BY <2>3 DEF T
<1> QED BY <1>5, <1>6

LEMMA EndingUnrolls ==
  ASSUME NEW n \in Node
  PROVE  Ending[n] = IF isPair(n) THEN Ending[n.right] ELSE n
<1> DEFINE leaf == [m \in Node |-> m]
           join == [x \in Node \X Node \X Node |-> x[3]]
           Body(f, m) == IF isPair(m) THEN f[m.right] ELSE m
           Rec(f) == f = [m \in Node |-> Body(f, m)]
<1>1. /\ leaf \in [Node -> Node] /\ \A m \in Node : leaf[m] = m
      /\ join \in [Node \X Node \X Node -> Node]
      /\ \A m \in Node : \A l, r \in Node : join[<<m, l, r>>] = r
  OBVIOUS
<1> HIDE DEF leaf, join
<1>2. PICK f : Recursive(f, Node, leaf, join) BY <1>1, TreeRecursion
<1>3. Rec(f)
  <2>1. ASSUME NEW m \in Node PROVE f[m] = Body(f, m)
    <3>1. CASE isPair(m)
      <4>1. f[m] = join[<<m, f[m.left], f[m.right]>>] BY <1>2, <3>1 DEF Recursive
      <4>2. f[m.left] \in Node /\ f[m.right] \in Node BY <1>2, <3>1, NodeParts DEF Recursive
      <4> QED BY <1>1, <3>1, <4>1, <4>2
    <3>2. CASE ~isPair(m) BY <1>1, <1>2, <3>2 DEF Recursive
    <3> QED BY <3>1, <3>2
  <2>2. f = [m \in Node |-> f[m]] BY <1>2 DEF Recursive
  <2> HIDE DEF Body
  <2> QED BY <2>1, <2>2
<1>4. Rec(Ending)
  <2>1. Ending = CHOOSE g : Rec(g) BY DEF Ending
  <2> HIDE DEF Rec
  <2> QED BY <1>3, <2>1
<1>5. \A m \in Node : Ending[m] = Body(Ending, m)
  <2> HIDE DEF Body
  <2> QED BY <1>4
<1> QED BY <1>5

-----------------------------------------------------------------------------
(* What toList is at after k items, however far it would go on.            *)
Follows(f, n) == f[0] = n /\ \A k \in Nat : f[k + 1] = f[k].right

Ends(f, k) == (\A j \in 0..(k - 1) : isPair(f[j])) /\ f[k] = Nil

LEMMA ItemsAre ==
  ASSUME NEW n
  PROVE  \E f : /\ Follows(f, n)
                /\ \A Lengths : ItemsOf(n, Lengths) =
                     {[j \in 1..k |-> f[j - 1].left] : k \in {j \in Lengths : Ends(f, j)}}
<1> DEFINE Body(f, k) == IF k = 0 THEN n ELSE f[k - 1].right
           Upto(f, m) == f = [k \in 0..m |-> Body(f, k)]
           Rec(f) == f = [k \in Nat |-> Body(f, k)]
           T == {m \in Nat : \E f : Upto(f, m)}
<1>1. 0 \in T
  <2> DEFINE f == [k \in 0..0 |-> n]
  <2>1. \A k \in 0..0 : k = 0 OBVIOUS
  <2>2. \A k \in 0..0 : Body(f, k) = n BY <2>1
  <2>3. f = [k \in 0..0 |-> Body(f, k)]
    <3> HIDE DEF Body
    <3> QED BY <2>2
  <2> QED BY <2>3
<1>2. ASSUME NEW m \in Nat, m \in T PROVE m + 1 \in T
  <2>1. PICK f : Upto(f, m) BY <1>2
  <2> DEFINE g == [k \in 0..(m + 1) |-> IF k <= m THEN f[k] ELSE f[m].right]
  <2>2. \A k \in 0..m : g[k] = f[k] /\ f[k] = Body(f, k)
    <3>1. \A k \in 0..m : f[k] = Body(f, k)
      <4> HIDE DEF Body
      <4> QED BY <2>1
    <3> QED BY <3>1
  <2>3. g[m + 1] = f[m].right OBVIOUS
  <2>4. DOMAIN g = 0..(m + 1) /\ g = [k \in 0..(m + 1) |-> g[k]] OBVIOUS
  <2> HIDE DEF g
  <2>5. \A k \in 0..(m + 1) : g[k] = Body(g, k)
    <3> SUFFICES ASSUME NEW k \in 0..(m + 1) PROVE g[k] = Body(g, k) OBVIOUS
    <3>1. CASE k = m + 1
      <4>1. k # 0 /\ k - 1 = m /\ m \in 0..m /\ g[m] = f[m] BY <2>2, <3>1
      <4> QED BY <2>3, <3>1, <4>1
    <3>2. CASE k # m + 1 /\ k # 0
      <4>1. k \in 0..m /\ k - 1 \in 0..m BY <3>2
      <4>2. g[k - 1] = f[k - 1] /\ g[k] = f[k] /\ f[k] = Body(f, k) BY <2>2, <4>1
      <4> QED BY <4>2
    <3>3. CASE k = 0
      <4>1. k \in 0..m BY <3>3
      <4> QED BY <2>2, <3>3, <4>1
    <3> QED BY <3>1, <3>2, <3>3
  <2>6. Upto(g, m + 1)
    <3> HIDE DEF Body
    <3> QED BY <2>4, <2>5
  <2> QED BY <2>6
<1>3. T = Nat
  <2>1. \A m \in Nat : m \in T => m + 1 \in T BY <1>2
  <2> HIDE DEF T
  <2>2. T \in SUBSET Nat BY DEF T
  <2> QED BY <1>1, <2>1, <2>2, SetInduction
<1> DEFINE F(m) == CHOOSE f : Upto(f, m)
<1>4. \A m \in Nat : \A k \in 0..m : F(m)[k] = Body(F(m), k)
  <2> SUFFICES ASSUME NEW m \in Nat PROVE \A k \in 0..m : F(m)[k] = Body(F(m), k) OBVIOUS
  <2>1. m \in T BY <1>3
  <2>2. Upto(F(m), m)
    <3> HIDE DEF Upto
    <3> QED BY <2>1
  <2> HIDE DEF Body, F
  <2> QED BY <2>2
<1> HIDE DEF F
<1>5. ASSUME NEW m \in Nat, NEW l \in Nat PROVE \A k \in Nat : k <= m /\ k <= l => F(m)[k] = F(l)[k]
  <2> DEFINE U == {k \in Nat : k <= m /\ k <= l => F(m)[k] = F(l)[k]}
  <2>1. 0 \in U
    <3>1. 0 \in 0..m /\ 0 \in 0..l OBVIOUS
    <3> QED BY <1>4, <3>1
  <2>2. ASSUME NEW k \in Nat, k \in U PROVE k + 1 \in U
    <3> SUFFICES ASSUME k + 1 <= m, k + 1 <= l PROVE F(m)[k + 1] = F(l)[k + 1] OBVIOUS
    <3>1. k + 1 \in 0..m /\ k + 1 \in 0..l /\ k + 1 # 0 /\ (k + 1) - 1 = k OBVIOUS
    <3>2. F(m)[k] = F(l)[k] BY <2>2
    <3>3. F(m)[k + 1] = F(m)[k].right BY <1>4, <3>1
    <3>4. F(l)[k + 1] = F(l)[k].right BY <1>4, <3>1
    <3> QED BY <3>2, <3>3, <3>4
  <2>3. U = Nat
    <3>1. \A k \in Nat : k \in U => k + 1 \in U BY <2>2
    <3> HIDE DEF U
    <3>2. U \in SUBSET Nat BY DEF U
    <3> QED BY <2>1, <3>1, <3>2, SetInduction
  <2> QED BY <2>3
<1> DEFINE all == [k \in Nat |-> F(k)[k]]
<1>6. Rec(all)
  <2>1. \A k \in Nat : all[k] = Body(all, k)
    <3> SUFFICES ASSUME NEW k \in Nat PROVE all[k] = Body(all, k) OBVIOUS
    <3>1. all[k] = Body(F(k), k) BY <1>4
    <3>2. CASE k = 0 BY <3>1, <3>2
    <3>3. CASE k # 0
      <4>1. k - 1 \in Nat /\ k - 1 <= k BY <3>3
      <4>2. all[k - 1] = F(k - 1)[k - 1] BY <4>1
      <4>3. F(k - 1)[k - 1] = F(k)[k - 1] BY <1>5, <4>1
      <4> QED BY <3>1, <3>3, <4>2, <4>3
    <3> QED BY <3>2, <3>3
  <2>2. all = [k \in Nat |-> all[k]] OBVIOUS
  <2> HIDE DEF all, Body
  <2> QED BY <2>1, <2>2
<1> DEFINE g == CHOOSE f : Rec(f)
<1>7. Rec(g)
  <2> HIDE DEF Rec
  <2> QED BY <1>6
<1>8. ASSUME NEW Lengths
      PROVE  ItemsOf(n, Lengths) =
               {[j \in 1..k |-> g[j - 1].left] : k \in {j \in Lengths : Ends(g, j)}}
  BY DEF ItemsOf, Ends
<1> HIDE DEF g
<1>9. \A k \in Nat : g[k] = Body(g, k)
  <2> HIDE DEF Body
  <2> QED BY <1>7
<1>10. Follows(g, n)
  <2>1. g[0] = n BY <1>9
  <2>2. ASSUME NEW k \in Nat PROVE g[k + 1] = g[k].right
    <3>1. k + 1 \in Nat /\ k + 1 # 0 /\ (k + 1) - 1 = k OBVIOUS
    <3> QED BY <1>9, <3>1
  <2> QED BY <2>1, <2>2 DEF Follows
<1> QED BY <1>8, <1>10

(* Along its spine a tree is made of pairs, and what the spine ends at is  *)
(* an atom.                                                                *)
LEMMA SpineGoes ==
  ASSUME NEW n \in Node, NEW f, Follows(f, n), NEW k \in 0..Spine[n]
  PROVE  /\ f[k] \in Node /\ Spine[f[k]] = Spine[n] - k /\ Ending[f[k]] = Ending[n]
         /\ isPair(f[k]) <=> k < Spine[n]
         /\ k = Spine[n] => f[k] = Ending[n]
<1> DEFINE s == Spine[n]
           Good(j) == f[j] \in Node /\ Spine[f[j]] = s - j /\ Ending[f[j]] = Ending[n]
           T == {j \in Nat : j <= s => Good(j)}
<1>0. s \in Nat /\ f[0] = n /\ \A j \in Nat : f[j + 1] = f[j].right BY SpineUnrolls DEF Follows
<1> HIDE DEF s
<1>1. 0 \in T BY <1>0 DEF s
<1>2. ASSUME NEW j \in Nat, j \in T, j + 1 <= s PROVE Good(j + 1)
  <2>1. Good(j) BY <1>0, <1>2
  <2> DEFINE m == f[j]
  <2>2. m \in Node /\ Spine[m] = s - j /\ Ending[m] = Ending[n] BY <2>1
  <2>3. f[j + 1] = m.right BY <1>0
  <2> HIDE DEF m
  <2>4. Spine[m] = IF isPair(m) THEN 1 + Spine[m.right] ELSE 0 BY <2>2, SpineUnrolls
  <2>5. isPair(m) BY <1>0, <1>2, <2>2, <2>4
  <2>6. m.right \in Node BY <2>2, <2>5, NodeParts
  <2>7. Spine[m.right] \in Nat BY <2>6, SpineUnrolls
  <2>8. Spine[m.right] = s - (j + 1) BY <1>0, <2>2, <2>4, <2>5, <2>7
  <2>9. Ending[m.right] = Ending[n] BY <2>2, <2>5, EndingUnrolls
  <2> QED BY <2>3, <2>6, <2>8, <2>9
<1>3. T = Nat
  <2>1. \A j \in Nat : j \in T => j + 1 \in T BY <1>2
  <2> HIDE DEF T
  <2>2. T \in SUBSET Nat BY DEF T
  <2> QED BY <1>1, <2>1, <2>2, SetInduction
<1>4. k \in Nat /\ k <= s BY <1>0 DEF s
<1>5. Good(k) BY <1>3, <1>4
<1> DEFINE m == f[k]
<1>6. m \in Node /\ Spine[m] = s - k /\ Ending[m] = Ending[n] BY <1>5
<1> HIDE DEF m
<1>7. Spine[m] \in Nat /\ Spine[m] = IF isPair(m) THEN 1 + Spine[m.right] ELSE 0 BY <1>6, SpineUnrolls
<1>8. isPair(m) => Spine[m.right] \in Nat BY <1>6, NodeParts, SpineUnrolls
<1>9. isPair(m) <=> k < s BY <1>0, <1>4, <1>6, <1>7, <1>8
<1>10. k = s => m = Ending[n] BY <1>0, <1>6, <1>9, EndingUnrolls
<1> QED BY <1>6, <1>9, <1>10 DEF m, s

(* toList comes to an end just when the spine ends in nil, and there.      *)
LEMMA EndsAtSpine ==
  ASSUME NEW n \in Node, NEW f, Follows(f, n), NEW k \in Nat
  PROVE  Ends(f, k) <=> k = Spine[n] /\ Ending[n] = Nil
<1> DEFINE s == Spine[n]
<1>1. s \in Nat BY SpineUnrolls
<1>2. \A j \in 0..s : /\ isPair(f[j]) <=> j < s
                      /\ j = s => f[j] = Ending[n]
  <2> SUFFICES ASSUME NEW j \in 0..s PROVE (isPair(f[j]) <=> j < s) /\ (j = s => f[j] = Ending[n])
    OBVIOUS
  <2> QED BY SpineGoes
<1> HIDE DEF s
<1>3. ~isPair(Nil) BY LeafFields DEF Nil
<1>4. ASSUME Ends(f, k) PROVE k = s /\ Ending[n] = Nil
  <2>1. ~(k < s)
    <3> SUFFICES ASSUME k < s PROVE FALSE OBVIOUS
    <3>1. k \in 0..s BY <1>1
    <3> QED BY <1>2, <1>3, <1>4, <3>1 DEF Ends
  <2>2. ~(s < k)
    <3> SUFFICES ASSUME s < k PROVE FALSE OBVIOUS
    <3>1. s \in 0..(k - 1) /\ s \in 0..s BY <1>1
    <3> QED BY <1>1, <1>2, <1>4, <3>1 DEF Ends
  <2>3. k = s BY <1>1, <2>1, <2>2
  <2> QED BY <1>1, <1>2, <1>4, <2>3 DEF Ends
<1>5. ASSUME k = s, Ending[n] = Nil PROVE Ends(f, k)
  <2>1. \A j \in 0..(k - 1) : isPair(f[j]) BY <1>1, <1>2, <1>5
  <2>2. f[k] = Nil BY <1>1, <1>2, <1>5
  <2> QED BY <2>1, <2>2 DEF Ends
<1> QED BY <1>4, <1>5 DEF s
(* fromList puts the nodes of a spine together again.                      *)
LEMMA ListRebuilt ==
  ASSUME NEW n \in Node, NEW f, Follows(f, n), Ending[n] = Nil
  PROVE  fromList([j \in 1..Spine[n] |-> f[j - 1].left]) = n
<1> DEFINE s == Spine[n]
           items == [j \in 1..s |-> f[j - 1].left]
           Body(g, k) == IF k = 0 THEN Nil ELSE Pair(items[s + 1 - k], g[k - 1])
           Rec(g) == g = [k \in 0..s |-> Body(g, k)]
           h == [k \in 0..s |-> f[s - k]]
<1>1. s \in Nat /\ f[0] = n BY SpineUnrolls DEF Follows
<1>2. Len(items) = s BY <1>1
<1>3. ASSUME NEW j \in 0..s PROVE j = s => f[j] = Nil
  BY <1>3, SpineGoes
<1>4. ASSUME NEW j \in 0..s, j < s PROVE f[j] = Pair(f[j].left, f[j + 1])
  <2>1. f[j] \in Node /\ isPair(f[j]) BY <1>4, SpineGoes
  <2>2. f[j + 1] = f[j].right
    <3>1. j \in Nat BY <1>1
    <3> QED BY <3>1 DEF Follows
  <2>3. f[j] = Pair(f[j].left, f[j].right) BY <2>1, NodeParts
  <2> QED BY <2>2, <2>3
<1> HIDE DEF s
<1>5. \A k \in 0..s : h[k] = Body(h, k)
  <2> SUFFICES ASSUME NEW k \in 0..s PROVE h[k] = Body(h, k) OBVIOUS
  <2>1. s - k \in 0..s /\ h[k] = f[s - k] BY <1>1
  <2>2. CASE k = 0 BY <1>1, <1>3, <2>1, <2>2
  <2>3. CASE k # 0
    <3>1. k - 1 \in 0..s /\ s - (k - 1) = (s - k) + 1 /\ s - k < s /\ s + 1 - k \in 1..s /\ (s + 1 - k) - 1 = s - k
      BY <1>1, <2>3
    <3>2. h[k - 1] = f[(s - k) + 1] BY <3>1
    <3>3. items[s + 1 - k] = f[s - k].left BY <3>1
    <3>4. f[s - k] = Pair(f[s - k].left, f[(s - k) + 1]) BY <1>4, <2>1, <3>1
    <3> HIDE DEF h, items
    <3> QED BY <2>1, <2>3, <3>2, <3>3, <3>4
  <2> QED BY <2>2, <2>3
<1>6. Rec(h)
  <2>1. h = [k \in 0..s |-> h[k]] OBVIOUS
  <2> HIDE DEF h, Body
  <2> QED BY <1>5, <2>1
<1> DEFINE g == CHOOSE x : Rec(x)
<1>7. Rec(g)
  <2> HIDE DEF Rec, h
  <2> QED BY <1>6
<1>8. fromList(items) = g[s]
  <2> HIDE DEF items
  <2> QED BY <1>2 DEF fromList
<1> HIDE DEF g
<1>9. \A k \in 0..s : g[k] = Body(g, k)
  <2> HIDE DEF Body
  <2> QED BY <1>7
<1> HIDE DEF items
<1>10. g[s] = h[s]
  <2> DEFINE T == {k \in Nat : k <= s => g[k] = h[k]}
  <2>1. 0 \in T
    <3>1. 0 \in 0..s BY <1>1
    <3> HIDE DEF h
    <3> QED BY <1>5, <1>9, <3>1
  <2>2. ASSUME NEW k \in Nat, k \in T, k + 1 <= s PROVE g[k + 1] = h[k + 1]
    <3>1. k + 1 \in 0..s /\ k + 1 # 0 /\ (k + 1) - 1 = k BY <1>1, <2>2
    <3> HIDE DEF h
    <3>2. g[k] = h[k] BY <1>1, <2>2
    <3>3. g[k + 1] = Pair(items[s + 1 - (k + 1)], g[k]) BY <1>9, <3>1
    <3>4. h[k + 1] = Pair(items[s + 1 - (k + 1)], h[k]) BY <1>5, <3>1
    <3> QED BY <3>2, <3>3, <3>4
  <2>3. T = Nat
    <3>1. \A k \in Nat : k \in T => k + 1 \in T BY <2>2
    <3> HIDE DEF T
    <3>2. T \in SUBSET Nat BY DEF T
    <3> QED BY <2>1, <3>1, <3>2, SetInduction
  <2>4. s \in T BY <1>1, <2>3
  <2> HIDE DEF h
  <2> QED BY <1>1, <2>4
<1>11. h[s] = n
  <2>1. s \in 0..s /\ s - s = 0 BY <1>1
  <2> QED BY <1>1, <2>1
<1> QED BY <1>8, <1>10, <1>11 DEF s, items

(* A tree that was read: it and all its nodes are nodes.                   *)
LEMMA ReadTreeIs ==
  ASSUME CodecInv, stage = "done"
  PROVE  /\ values[1] \in Node /\ out = <<TreeHash[values[1]]>>
         /\ SubNodes[values[1]] \in SUBSET Node
<1>1. values[1] \in Node BY RootIsWritable DEF CodecInv
<1>2. out = <<TreeHash[values[1]]>> BY DEF CodecInv, HasherInv
<1> QED BY <1>1, <1>2, SubNodesUnroll

(* toList takes a proper list, of no more items than its bound, into its   *)
(* items, and anything else into nothing; fromList makes the list again.   *)
THEOREM ListsAreExact == CodecSpec => []ListsAreWhole
<1>1. ASSUME CodecInv, stage = "done", NEW n \in SubNodes[values[1]]
      PROVE  /\ \A items \in toList(n) : fromList(items) = n
             /\ toList(n) = {} <=> Ending[n] # Nil \/ Spine[n] > MaxDepth + 1
  <2>1. n \in Node /\ MaxDepth \in Nat BY <1>1, ReadTreeIs, CodecAssumption
  <2> DEFINE L == 0..(MaxDepth + 1)
             s == Spine[n]
  <2>2. PICK f : /\ Follows(f, n)
                 /\ \A Lengths : ItemsOf(n, Lengths) =
                      {[j \in 1..k |-> f[j - 1].left] : k \in {j \in Lengths : Ends(f, j)}}
    BY ItemsAre
  <2>3. toList(n) = {[j \in 1..k |-> f[j - 1].left] : k \in {j \in L : Ends(f, j)}}
    BY <2>2 DEF toList
  <2>4. ASSUME NEW k \in L PROVE Ends(f, k) <=> k = s /\ Ending[n] = Nil
    BY <2>1, <2>2, <2>4, EndsAtSpine
  <2>5. s \in Nat BY <2>1, SpineUnrolls
  <2>6. ASSUME NEW items \in toList(n) PROVE fromList(items) = n
    <3>1. PICK k \in L : Ends(f, k) /\ items = [j \in 1..k |-> f[j - 1].left]
      <4> HIDE DEF L
      <4> QED BY <2>3, <2>6
    <3>2. k = s /\ Ending[n] = Nil BY <2>4, <3>1
    <3> QED BY <2>1, <2>2, <3>1, <3>2, ListRebuilt
  <2>7. toList(n) = {} <=> \A k \in L : ~Ends(f, k)
    <3> HIDE DEF L
    <3> QED BY <2>3
  <2>8. s \in L <=> ~(s > MaxDepth + 1) BY <2>1, <2>5
  <2>9. toList(n) = {} <=> Ending[n] # Nil \/ s > MaxDepth + 1
    <3> HIDE DEF L, s
    <3> QED BY <2>4, <2>7, <2>8
  <2> QED BY <2>6, <2>9
<1>2. CodecInv => ListsAreWhole BY <1>1 DEF ListsAreWhole
<1> QED BY <1>2, CodecInvariance, PTL

-----------------------------------------------------------------------------
(* Hashes tell trees apart.                                                *)
LEMMA HashesDiffer ==
  ASSUME NEW s, NEW t, NEW x, NEW y, NEW z, NEW w
  PROVE  /\ atomHash(s) # pairHash(x, y)
         /\ atomHash(s) = atomHash(t) <=> s = t
         /\ pairHash(x, y) = pairHash(z, w) <=> x = z /\ y = w
<1> DEFINE a == atomHash(s)
           b == atomHash(t)
           p == pairHash(x, y)
           q == pairHash(z, w)
<1>1. a.hashed = s /\ b.hashed = t /\ DOMAIN a = {"hashed"} BY DEF atomHash
<1>2. /\ p.first = x /\ p.second = y /\ q.first = z /\ q.second = w
      /\ DOMAIN p = {"first", "second"}
  BY DEF pairHash
<1>3. s = t => a = b OBVIOUS
<1>4. x = z /\ y = w => p = q OBVIOUS
<1> HIDE DEF a, b, p, q
<1>5. a # p BY <1>1, <1>2
<1> QED BY <1>1, <1>2, <1>3, <1>4, <1>5 DEF a, b, p, q

LEMMA HashOfAtom ==
  ASSUME NEW n \in Node, NEW s
  PROVE  TreeHash[n] = atomHash(s) <=> ~isPair(n) /\ n.atom = s
<1>1. CASE isPair(n)
  <2>1. TreeHash[n] = pairHash(TreeHash[n.left], TreeHash[n.right]) BY <1>1, TreeHashUnrolls
  <2> QED BY <1>1, <2>1, HashesDiffer
<1>2. CASE ~isPair(n)
  <2>1. TreeHash[n] = atomHash(n.atom) BY <1>2, TreeHashUnrolls
  <2> QED BY <1>2, <2>1, HashesDiffer
<1> QED BY <1>1, <1>2

LEMMA HashOfPair ==
  ASSUME NEW n \in Node, NEW x, NEW y
  PROVE  TreeHash[n] = pairHash(x, y) <=> isPair(n) /\ TreeHash[n.left] = x /\ TreeHash[n.right] = y
<1>1. CASE isPair(n)
  <2>1. TreeHash[n] = pairHash(TreeHash[n.left], TreeHash[n.right]) BY <1>1, TreeHashUnrolls
  <2> QED BY <1>1, <2>1, HashesDiffer
<1>2. CASE ~isPair(n)
  <2>1. TreeHash[n] = atomHash(n.atom) BY <1>2, TreeHashUnrolls
  <2> QED BY <1>2, <2>1, HashesDiffer
<1> QED BY <1>1, <1>2

LEMMA HashIsInjective ==
  ASSUME NEW n \in Node, NEW m \in Node, TreeHash[n] = TreeHash[m]
  PROVE  n = m
<1> DEFINE T == {x \in Node : \A y \in Node : TreeHash[x] = TreeHash[y] => x = y}
<1>1. ASSUME NEW x \in Node, ~isPair(x) PROVE x \in T
  <2> SUFFICES ASSUME NEW y \in Node, TreeHash[x] = TreeHash[y] PROVE x = y OBVIOUS
  <2>1. TreeHash[x] = atomHash(x.atom) BY <1>1, TreeHashUnrolls
  <2>2. ~isPair(y) /\ y.atom = x.atom BY <2>1, HashOfAtom
  <2>3. x = Leaf(x.atom) /\ y = Leaf(y.atom) BY <1>1, <2>2, NodeParts
  <2> QED BY <2>2, <2>3
<1>2. ASSUME NEW x \in Node, isPair(x), x.left \in T, x.right \in T PROVE x \in T
  <2> SUFFICES ASSUME NEW y \in Node, TreeHash[x] = TreeHash[y] PROVE x = y OBVIOUS
  <2>1. TreeHash[y] = pairHash(TreeHash[x.left], TreeHash[x.right]) BY <1>2, TreeHashUnrolls
  <2>2. isPair(y) /\ TreeHash[y.left] = TreeHash[x.left] /\ TreeHash[y.right] = TreeHash[x.right]
    BY <2>1, HashOfPair
  <2>3. y.left \in Node /\ y.right \in Node /\ y = Pair(y.left, y.right) BY <2>2, NodeParts
  <2>4. x.left = y.left /\ x.right = y.right BY <1>2, <2>2, <2>3
  <2>5. x = Pair(x.left, x.right) BY <1>2, NodeParts
  <2> QED BY <2>3, <2>4, <2>5
<1> HIDE DEF T
<1>3. \A x \in Node : x \in T BY <1>1, <1>2, TreeInduction
<1> QED BY <1>3 DEF T

-----------------------------------------------------------------------------
(* A layer of a curried program, by its hash.                              *)
LayerHash(code, q, r) ==
  pairHash(atomHash(<<code>>), pairHash(pairHash(QUOTE_HASH, q), pairHash(r, NIL_HASH)))

LEMMA OpHashed ==
  ASSUME NEW n \in Node, NEW code
  PROVE  TreeHash[n] = atomHash(<<code>>) <=> IsOp(n, code)
<1> DEFINE s == <<code>>
<1>1. IsOp(n, code) <=> ~isPair(n) /\ n.atom = s BY DEF IsOp
<1> HIDE DEF s
<1>2. TreeHash[n] = atomHash(s) <=> ~isPair(n) /\ n.atom = s BY HashOfAtom
<1> QED BY <1>1, <1>2 DEF s

LEMMA NilHashed ==
  ASSUME NEW n \in Node
  PROVE  TreeHash[n] = NIL_HASH <=> n = Nil
<1> DEFINE s == << >>
<1>1. NIL_HASH = atomHash(s) /\ Nil = Leaf(s) BY DEF NIL_HASH, Nil
<1> HIDE DEF s
<1>2. TreeHash[n] = atomHash(s) <=> ~isPair(n) /\ n.atom = s BY HashOfAtom
<1>3. ~isPair(n) => n = Leaf(n.atom) BY NodeParts
<1>4. n = Leaf(s) => ~isPair(n) /\ n.atom = s BY LeafFields
<1> QED BY <1>1, <1>2, <1>3, <1>4

(* A layer, by its nodes.                                                  *)
LEMMA LayerNodes ==
  ASSUME NEW n \in Node, isPair(n), isPair(n.right), isPair(n.right.left), isPair(n.right.right)
  PROVE  /\ n.left \in Node /\ n.right \in Node /\ n.right.left \in Node /\ n.right.right \in Node
         /\ n.right.left.left \in Node /\ n.right.left.right \in Node
         /\ n.right.right.left \in Node /\ n.right.right.right \in Node
<1>1. n.left \in Node /\ n.right \in Node BY NodeParts
<1>2. n.right.left \in Node /\ n.right.right \in Node BY <1>1, NodeParts
<1>3. n.right.left.left \in Node /\ n.right.left.right \in Node BY <1>2, NodeParts
<1>4. n.right.right.left \in Node /\ n.right.right.right \in Node BY <1>2, NodeParts
<1> QED BY <1>1, <1>2, <1>3, <1>4

LEMMA LayerHashed ==
  ASSUME NEW n \in Node, NEW code, NEW q, NEW r
  PROVE  TreeHash[n] = LayerHash(code, q, r) <=>
           IsLayer(n, code) /\ TreeHash[Quoted(n)] = q /\ TreeHash[Rest(n)] = r
<1> DEFINE op == atomHash(<<code>>)
           quoted == pairHash(QUOTE_HASH, q)
           rest == pairHash(r, NIL_HASH)
           Shape == isPair(n) /\ isPair(n.right) /\ isPair(n.right.left) /\ isPair(n.right.right)
<1>1. TreeHash[n] = LayerHash(code, q, r) <=>
        isPair(n) /\ TreeHash[n.left] = op /\ TreeHash[n.right] = pairHash(quoted, rest)
  <2>1. LayerHash(code, q, r) = pairHash(op, pairHash(quoted, rest)) BY DEF LayerHash
  <2> HIDE DEF op, quoted, rest
  <2> QED BY <2>1, HashOfPair
<1>2. isPair(n) => n.left \in Node /\ n.right \in Node BY NodeParts
<1>3. isPair(n) => /\ TreeHash[n.left] = op <=> IsOp(n.left, code)
                   /\ TreeHash[n.right] = pairHash(quoted, rest) <=>
                        isPair(n.right) /\ TreeHash[n.right.left] = quoted /\ TreeHash[n.right.right] = rest
  <2>1. isPair(n) => (TreeHash[n.left] = op <=> IsOp(n.left, code)) BY <1>2, OpHashed
  <2> HIDE DEF op, quoted, rest
  <2> QED BY <1>2, <2>1, HashOfPair
<1>4. isPair(n) /\ isPair(n.right) => n.right.left \in Node /\ n.right.right \in Node BY <1>2, NodeParts
<1>5. isPair(n) /\ isPair(n.right) =>
        /\ TreeHash[n.right.left] = quoted <=>
             isPair(n.right.left) /\ TreeHash[n.right.left.left] = QUOTE_HASH /\ TreeHash[n.right.left.right] = q
        /\ TreeHash[n.right.right] = rest <=>
             isPair(n.right.right) /\ TreeHash[n.right.right.left] = r /\ TreeHash[n.right.right.right] = NIL_HASH
  BY <1>4, HashOfPair
<1>6. Shape => /\ TreeHash[n.right.left.left] = QUOTE_HASH <=> IsOp(n.right.left.left, 1)
               /\ TreeHash[n.right.right.right] = NIL_HASH <=> n.right.right.right = Nil
  <2> SUFFICES ASSUME Shape PROVE /\ TreeHash[n.right.left.left] = QUOTE_HASH <=> IsOp(n.right.left.left, 1)
                                  /\ TreeHash[n.right.right.right] = NIL_HASH <=> n.right.right.right = Nil
    OBVIOUS
  <2>1. n.right.left.left \in Node /\ n.right.right.right \in Node BY LayerNodes
  <2> QED BY <2>1, OpHashed, NilHashed DEF QUOTE_HASH
<1>7. IsLayer(n, code) <=> /\ Shape /\ IsOp(n.left, code) /\ IsOp(n.right.left.left, 1)
                           /\ n.right.right.right = Nil
  BY DEF IsLayer
<1> HIDE DEF op, quoted, rest
<1> QED BY <1>1, <1>3, <1>5, <1>6, <1>7 DEF Quoted, Rest

LEMMA LayerParts ==
  ASSUME NEW n \in Node, NEW code, IsLayer(n, code)
  PROVE  /\ Quoted(n) \in Node /\ Rest(n) \in Node
         /\ Quoted(n) \in SubNodes[n] /\ SubNodes[Rest(n)] \subseteq SubNodes[n]
<1>1. isPair(n) /\ isPair(n.right) /\ isPair(n.right.left) /\ isPair(n.right.right) BY DEF IsLayer
<1>2. /\ n.left \in Node /\ n.right \in Node /\ n.right.left \in Node /\ n.right.right \in Node
      /\ n.right.left.left \in Node /\ n.right.left.right \in Node
      /\ n.right.right.left \in Node /\ n.right.right.right \in Node
  BY <1>1, LayerNodes
<1>3. ASSUME NEW m \in Node PROVE m \in SubNodes[m] BY SubNodesUnroll
<1>4. ASSUME NEW m \in Node, isPair(m)
      PROVE  SubNodes[m.left] \subseteq SubNodes[m] /\ SubNodes[m.right] \subseteq SubNodes[m]
  BY <1>4, SubNodesUnroll
<1>5. SubNodes[n.right] \subseteq SubNodes[n] BY <1>1, <1>4
<1>6. SubNodes[n.right.left] \subseteq SubNodes[n] BY <1>1, <1>2, <1>4, <1>5
<1>7. SubNodes[n.right.right] \subseteq SubNodes[n] BY <1>1, <1>2, <1>4, <1>5
<1>8. SubNodes[n.right.left.right] \subseteq SubNodes[n] BY <1>1, <1>2, <1>4, <1>6
<1>9. SubNodes[n.right.right.left] \subseteq SubNodes[n] BY <1>1, <1>2, <1>4, <1>7
<1>10. n.right.left.right \in SubNodes[n] BY <1>2, <1>3, <1>8
<1> QED BY <1>2, <1>9, <1>10 DEF Quoted, Rest

-----------------------------------------------------------------------------
(* What uncurry is at after k arguments, and when it comes to an end.      *)
Peels(f, n) == f[0] = Rest(n) /\ \A k \in 0..MaxDepth : f[k + 1] = Rest(f[k])

Peeled(f, k) == (\A j \in 0..(k - 1) : IsLayer(f[j], 4)) /\ IsOp(f[k], 1)

Peelings(f, n) == {<<Quoted(n), [j \in 1..k |-> Quoted(f[j - 1])]>> :
                     k \in {j \in 0..(MaxDepth + 1) : Peeled(f, j)}}

LEMMA UncurryIs ==
  ASSUME NEW n
  PROVE  \E f : Peels(f, n) /\ uncurry(n) = IF IsLayer(n, 2) THEN Peelings(f, n) ELSE {}
<1> DEFINE Body(f, k) == IF k = 0 THEN Rest(n) ELSE Rest(f[k - 1])
           Upto(f, m) == f = [k \in 0..m |-> Body(f, k)]
           T == {m \in Nat : \E f : Upto(f, m)}
           M == MaxDepth + 1
<1>1. 0 \in T
  <2> DEFINE f == [k \in 0..0 |-> Rest(n)]
  <2>1. \A k \in 0..0 : k = 0 OBVIOUS
  <2>2. \A k \in 0..0 : Body(f, k) = Rest(n) BY <2>1
  <2>3. f = [k \in 0..0 |-> Body(f, k)]
    <3> HIDE DEF Body
    <3> QED BY <2>2
  <2> QED BY <2>3
<1>2. ASSUME NEW m \in Nat, m \in T PROVE m + 1 \in T
  <2>1. PICK f : Upto(f, m) BY <1>2
  <2> DEFINE g == [k \in 0..(m + 1) |-> IF k <= m THEN f[k] ELSE Rest(f[m])]
  <2>2. \A k \in 0..m : g[k] = f[k] /\ f[k] = Body(f, k)
    <3>1. \A k \in 0..m : f[k] = Body(f, k)
      <4> HIDE DEF Body
      <4> QED BY <2>1
    <3> QED BY <3>1
  <2>3. g[m + 1] = Rest(f[m]) OBVIOUS
  <2>4. DOMAIN g = 0..(m + 1) /\ g = [k \in 0..(m + 1) |-> g[k]] OBVIOUS
  <2> HIDE DEF g
  <2>5. \A k \in 0..(m + 1) : g[k] = Body(g, k)
    <3> SUFFICES ASSUME NEW k \in 0..(m + 1) PROVE g[k] = Body(g, k) OBVIOUS
    <3>1. CASE k = m + 1
      <4>1. k # 0 /\ k - 1 = m /\ m \in 0..m /\ g[m] = f[m] BY <2>2, <3>1
      <4> QED BY <2>3, <3>1, <4>1
    <3>2. CASE k # m + 1 /\ k # 0
      <4>1. k \in 0..m /\ k - 1 \in 0..m BY <3>2
      <4>2. g[k - 1] = f[k - 1] /\ g[k] = f[k] /\ f[k] = Body(f, k) BY <2>2, <4>1
      <4> QED BY <3>2, <4>2
    <3>3. CASE k = 0
      <4>1. k \in 0..m BY <3>3
      <4> QED BY <2>2, <3>3, <4>1
    <3> QED BY <3>1, <3>2, <3>3
  <2>6. Upto(g, m + 1)
    <3> HIDE DEF Body
    <3> QED BY <2>4, <2>5
  <2> QED BY <2>6
<1>3. T = Nat
  <2>1. \A m \in Nat : m \in T => m + 1 \in T BY <1>2
  <2> HIDE DEF T
  <2>2. T \in SUBSET Nat BY DEF T
  <2> QED BY <1>1, <2>1, <2>2, SetInduction
<1>4. MaxDepth \in Nat /\ M \in Nat BY CodecAssumption
<1> DEFINE g == CHOOSE f : Upto(f, M)
<1>5. Upto(g, M)
  <2>1. \E f : Upto(f, M) BY <1>3, <1>4
  <2> HIDE DEF Upto
  <2> QED BY <2>1
<1>6. uncurry(n) = IF IsLayer(n, 2) THEN Peelings(g, n) ELSE {} BY DEF uncurry, Peelings, Peeled
<1> HIDE DEF g
<1>7. \A k \in 0..M : g[k] = Body(g, k)
  <2> HIDE DEF Body, M
  <2> QED BY <1>5
<1>8. Peels(g, n)
  <2>1. g[0] = Rest(n) BY <1>4, <1>7
  <2>2. ASSUME NEW k \in 0..MaxDepth PROVE g[k + 1] = Rest(g[k])
    <3>1. k + 1 \in 0..M /\ k + 1 # 0 /\ (k + 1) - 1 = k BY <1>4
    <3> QED BY <1>7, <3>1
  <2> QED BY <2>1, <2>2 DEF Peels
<1> QED BY <1>6, <1>8

(* The hashes of the environments from the innermost on.                   *)
Wraps(g, hs) ==
  g[0] = QUOTE_HASH /\ \A k \in 1..Len(hs) : g[k] = LayerHash(4, hs[Len(hs) + 1 - k], g[k - 1])

LEMMA CurriedIs ==
  ASSUME NEW modHash, NEW hs, Len(hs) \in Nat
  PROVE  \E g : Wraps(g, hs) /\ curriedPuzzleHash(modHash, hs) = LayerHash(2, modHash, g[Len(hs)])
<1> DEFINE n == Len(hs)
           Body(f, k) == IF k = 0 THEN QUOTE_HASH
                         ELSE pairHash(CONS_HASH, pairHash(pairHash(QUOTE_HASH, hs[n + 1 - k]),
                                                           pairHash(f[k - 1], NIL_HASH)))
           Next(f, k) == LayerHash(4, hs[n + 1 - k], f[k - 1])
           Upto(f, m) == f = [k \in 0..m |-> Body(f, k)]
           T == {m \in Nat : \E f : Upto(f, m)}
<1>0. \A f, k : Body(f, k) = IF k = 0 THEN QUOTE_HASH ELSE Next(f, k) BY DEF LayerHash, CONS_HASH
<1>1. 0 \in T
  <2> DEFINE f == [k \in 0..0 |-> QUOTE_HASH]
  <2>1. \A k \in 0..0 : k = 0 OBVIOUS
  <2>2. \A k \in 0..0 : Body(f, k) = QUOTE_HASH BY <2>1
  <2>3. f = [k \in 0..0 |-> Body(f, k)]
    <3> HIDE DEF Body
    <3> QED BY <2>2
  <2> QED BY <2>3
<1>2. ASSUME NEW m \in Nat, m \in T PROVE m + 1 \in T
  <2>1. PICK f : Upto(f, m) BY <1>2
  <2> DEFINE g == [k \in 0..(m + 1) |-> IF k <= m THEN f[k] ELSE Body(f, m + 1)]
  <2>2. \A k \in 0..m : f[k] = Body(f, k)
    <3> HIDE DEF Body
    <3> QED BY <2>1
  <2>3. \A k \in 0..m : g[k] = f[k] OBVIOUS
  <2>4. g[m + 1] = Body(f, m + 1)
    <3> HIDE DEF Body
    <3> QED OBVIOUS
  <2>5. g = [k \in 0..(m + 1) |-> g[k]] OBVIOUS
  <2> HIDE DEF g
  <2>6. \A k \in 0..(m + 1) : g[k] = Body(g, k)
    <3> SUFFICES ASSUME NEW k \in 0..(m + 1) PROVE g[k] = Body(g, k) OBVIOUS
    <3>1. g[k] = Body(f, k)
      <4> HIDE DEF Body
      <4>1. CASE k = m + 1 BY <2>4, <4>1
      <4>2. CASE k # m + 1
        <5>1. k \in 0..m BY <4>2
        <5> QED BY <2>2, <2>3, <5>1
      <4> QED BY <4>1, <4>2
    <3>2. CASE k = 0 BY <3>1, <3>2
    <3>3. CASE k # 0
      <4>1. k - 1 \in 0..m BY <3>3
      <4>2. g[k - 1] = f[k - 1] BY <2>3, <4>1
      <4> QED BY <3>1, <3>3, <4>2
    <3> QED BY <3>2, <3>3
  <2>7. Upto(g, m + 1)
    <3> HIDE DEF Body
    <3> QED BY <2>5, <2>6
  <2>8. \E h : Upto(h, m + 1)
    <3> HIDE DEF Upto
    <3> QED BY <2>7
  <2> HIDE DEF Upto
  <2> QED BY <2>8
<1>3. T = Nat
  <2>1. \A m \in Nat : m \in T => m + 1 \in T BY <1>2
  <2> HIDE DEF T
  <2>2. T \in SUBSET Nat BY DEF T
  <2> QED BY <1>1, <2>1, <2>2, SetInduction
<1> DEFINE g == CHOOSE f : Upto(f, n)
<1>4. Upto(g, n)
  <2>1. n \in T BY <1>3
  <2> HIDE DEF Upto
  <2> QED BY <2>1
<1>5. curriedPuzzleHash(modHash, hs) = LayerHash(2, modHash, g[n])
  BY DEF curriedPuzzleHash, LayerHash, APPLY_HASH
<1> HIDE DEF g
<1>6. \A k \in 0..n : g[k] = Body(g, k)
  <2> HIDE DEF Body
  <2> QED BY <1>4
<1> HIDE DEF Body, Next
<1>7. \A k \in 0..n : g[k] = IF k = 0 THEN QUOTE_HASH ELSE Next(g, k) BY <1>0, <1>6
<1>8. g[0] = QUOTE_HASH /\ \A k \in 1..n : g[k] = Next(g, k) BY <1>7
<1>9. Wraps(g, hs) BY <1>8 DEF Wraps, Next
<1> QED BY <1>5, <1>9
-----------------------------------------------------------------------------
(* Layer by layer, what uncurry peels off is what the hash was made of.    *)
LEMMA PeelingGoes ==
  ASSUME NEW n \in Node, NEW f, Peels(f, n), NEW k \in 0..(MaxDepth + 1), IsLayer(n, 2),
         \A j \in 0..(k - 1) : IsLayer(f[j], 4)
  PROVE  \A j \in 0..k : f[j] \in Node /\ SubNodes[f[j]] \subseteq SubNodes[n]
<1> DEFINE T == {j \in Nat : j <= k => f[j] \in Node /\ SubNodes[f[j]] \subseteq SubNodes[n]}
<1>0. MaxDepth \in Nat /\ k \in Nat /\ k <= MaxDepth + 1 BY CodecAssumption
<1>1. 0 \in T
  <2>1. f[0] = Rest(n) BY DEF Peels
  <2> QED BY <2>1, LayerParts
<1>2. ASSUME NEW j \in Nat, j \in T, j + 1 <= k
      PROVE  f[j + 1] \in Node /\ SubNodes[f[j + 1]] \subseteq SubNodes[n]
  <2>1. j \in 0..MaxDepth /\ j \in 0..(k - 1) BY <1>0, <1>2
  <2>2. f[j] \in Node /\ SubNodes[f[j]] \subseteq SubNodes[n] BY <1>0, <1>2
  <2>3. f[j + 1] = Rest(f[j]) BY <2>1 DEF Peels
  <2>4. IsLayer(f[j], 4) BY <2>1
  <2>5. Rest(f[j]) \in Node /\ SubNodes[Rest(f[j])] \subseteq SubNodes[f[j]] BY <2>2, <2>4, LayerParts
  <2> QED BY <2>2, <2>3, <2>5
<1>3. T = Nat
  <2>1. \A j \in Nat : j \in T => j + 1 \in T BY <1>2
  <2> HIDE DEF T
  <2>2. T \in SUBSET Nat BY DEF T
  <2> QED BY <1>1, <2>1, <2>2, SetInduction
<1> QED BY <1>0, <1>3

(* The arguments that were peeled off hash to these.                       *)
PeelsTo(f, k, hs) == Peeled(f, k) /\ \A j \in 0..(k - 1) : TreeHash[Quoted(f[j])] = hs[j + 1]

LEMMA PeeledAreWrapped ==
  ASSUME NEW n \in Node, NEW f, Peels(f, n), NEW k \in 0..(MaxDepth + 1), IsLayer(n, 2),
         NEW hs, Len(hs) = k, NEW g, Wraps(g, hs), PeelsTo(f, k, hs)
  PROVE  TreeHash[f[0]] = g[k]
<1> DEFINE T == {j \in Nat : j <= k => TreeHash[f[k - j]] = g[j]}
<1>0. MaxDepth \in Nat /\ k \in Nat /\ k <= MaxDepth + 1 BY CodecAssumption
<1>1. \A j \in 0..k : f[j] \in Node
  <2>1. \A j \in 0..(k - 1) : IsLayer(f[j], 4) BY DEF PeelsTo, Peeled
  <2> QED BY <2>1, PeelingGoes
<1>2. 0 \in T
  <2>1. IsOp(f[k], 1) /\ f[k] \in Node BY <1>0, <1>1 DEF PeelsTo, Peeled
  <2>2. TreeHash[f[k]] = QUOTE_HASH BY <2>1, OpHashed DEF QUOTE_HASH
  <2>3. g[0] = QUOTE_HASH /\ k - 0 = k BY <1>0 DEF Wraps
  <2> QED BY <2>2, <2>3
<1>3. ASSUME NEW j \in Nat, j \in T, j + 1 <= k PROVE TreeHash[f[k - (j + 1)]] = g[j + 1]
  <2> DEFINE i == k - (j + 1)
  <2>1. i \in 0..k /\ i \in 0..(k - 1) /\ i \in 0..MaxDepth /\ i + 1 = k - j /\ j + 1 \in 1..Len(hs)
        /\ Len(hs) + 1 - (j + 1) = i + 1 /\ (j + 1) - 1 = j
    BY <1>0, <1>3
  <2>2. TreeHash[f[i + 1]] = g[j] BY <1>0, <1>3, <2>1
  <2>3. g[j + 1] = LayerHash(4, hs[i + 1], g[j])
    <3>1. g[j + 1] = LayerHash(4, hs[Len(hs) + 1 - (j + 1)], g[(j + 1) - 1]) BY <2>1 DEF Wraps
    <3> QED BY <2>1, <3>1
  <2> HIDE DEF i
  <2>4. IsLayer(f[i], 4) /\ TreeHash[Quoted(f[i])] = hs[i + 1] BY <2>1 DEF PeelsTo, Peeled
  <2>5. f[i + 1] = Rest(f[i]) BY <2>1 DEF Peels
  <2>6. f[i] \in Node BY <1>1, <2>1
  <2>7. TreeHash[f[i]] = LayerHash(4, hs[i + 1], g[j]) BY <2>2, <2>4, <2>5, <2>6, LayerHashed
  <2> QED BY <2>3, <2>7 DEF i
<1>4. T = Nat
  <2>1. \A j \in Nat : j \in T => j + 1 \in T BY <1>3
  <2> HIDE DEF T
  <2>2. T \in SUBSET Nat BY DEF T
  <2> QED BY <1>2, <2>1, <2>2, SetInduction
<1>5. k \in T /\ k - k = 0 BY <1>0, <1>4
<1> QED BY <1>0, <1>5

LEMMA WrappedArePeeled ==
  ASSUME NEW n \in Node, NEW f, Peels(f, n), NEW k \in 0..(MaxDepth + 1), IsLayer(n, 2),
         NEW hs, Len(hs) = k, NEW g, Wraps(g, hs), TreeHash[f[0]] = g[k]
  PROVE  PeelsTo(f, k, hs)
<1> DEFINE Good(j) == /\ f[j] \in Node /\ TreeHash[f[j]] = g[k - j]
                      /\ j > 0 => /\ IsLayer(f[j - 1], 4)
                                  /\ TreeHash[Quoted(f[j - 1])] = hs[j]
           T == {j \in Nat : j <= k => Good(j)}
<1>0. MaxDepth \in Nat /\ k \in Nat /\ k <= MaxDepth + 1 BY CodecAssumption
<1>1. 0 \in T
  <2>1. f[0] = Rest(n) /\ Rest(n) \in Node BY LayerParts DEF Peels
  <2>2. k - 0 = k BY <1>0
  <2> QED BY <2>1, <2>2
<1>2. ASSUME NEW j \in Nat, j \in T, j + 1 <= k PROVE Good(j + 1)
  <2>1. f[j] \in Node /\ TreeHash[f[j]] = g[k - j] BY <1>0, <1>2
  <2>2. /\ j \in 0..MaxDepth /\ k - j \in 1..Len(hs) /\ Len(hs) + 1 - (k - j) = j + 1
        /\ (k - j) - 1 = k - (j + 1) /\ (j + 1) - 1 = j
    BY <1>0, <1>2
  <2>3. g[k - j] = LayerHash(4, hs[j + 1], g[k - (j + 1)])
    <3>1. g[k - j] = LayerHash(4, hs[Len(hs) + 1 - (k - j)], g[(k - j) - 1]) BY <2>2 DEF Wraps
    <3> QED BY <2>2, <3>1
  <2>4. f[j + 1] = Rest(f[j]) BY <2>2 DEF Peels
  <2> DEFINE m == f[j]
             q == hs[j + 1]
             r == g[k - (j + 1)]
  <2>5. m \in Node /\ TreeHash[m] = LayerHash(4, q, r) BY <2>1, <2>3
  <2> HIDE DEF m, q, r
  <2>6. IsLayer(m, 4) /\ TreeHash[Quoted(m)] = q /\ TreeHash[Rest(m)] = r BY <2>5, LayerHashed
  <2>7. Rest(m) \in Node BY <2>5, <2>6, LayerParts
  <2> QED BY <2>2, <2>4, <2>6, <2>7 DEF m, q, r
<1>3. T = Nat
  <2>1. \A j \in Nat : j \in T => j + 1 \in T BY <1>2
  <2> HIDE DEF T
  <2>2. T \in SUBSET Nat BY DEF T
  <2> QED BY <1>1, <2>1, <2>2, SetInduction
<1>4. ASSUME NEW j \in 0..k PROVE Good(j) BY <1>0, <1>3
<1> HIDE DEF T
<1>5. ASSUME NEW j \in 0..(k - 1) PROVE IsLayer(f[j], 4) /\ TreeHash[Quoted(f[j])] = hs[j + 1]
  <2>1. j + 1 \in 0..k /\ j + 1 > 0 /\ (j + 1) - 1 = j BY <1>0
  <2>2. Good(j + 1) BY <1>4, <2>1
  <2> QED BY <2>1, <2>2
<1>6. IsOp(f[k], 1)
  <2>1. k \in 0..k /\ k - k = 0 BY <1>0
  <2>2. f[k] \in Node /\ TreeHash[f[k]] = g[0] BY <1>4, <2>1
  <2>3. TreeHash[f[k]] = atomHash(<<1>>) BY <2>2 DEF Wraps, QUOTE_HASH
  <2> QED BY <2>2, <2>3, OpHashed
<1> QED BY <1>5, <1>6 DEF PeelsTo, Peeled
HashesOf(args) == [k \in 1..Len(args) |-> TreeHash[args[k]]]

(* What uncurry finds, and what a tree's hash is that of, in parts.        *)
LEMMA UncurriedAre ==
  ASSUME NEW n \in Node, NEW c, c \in uncurry(n), Len(c[2]) <= 2
  PROVE  /\ c \in SubNodes[n] \X BoundedSeq(SubNodes[n], 2)
         /\ curriedPuzzleHash(TreeHash[c[1]], HashesOf(c[2])) = TreeHash[n]
<1>1. PICK f : Peels(f, n) /\ uncurry(n) = IF IsLayer(n, 2) THEN Peelings(f, n) ELSE {}
  BY UncurryIs
<1>2. IsLayer(n, 2) /\ c \in Peelings(f, n) BY <1>1
<1>3. PICK k \in 0..(MaxDepth + 1) :
        Peeled(f, k) /\ c = <<Quoted(n), [j \in 1..k |-> Quoted(f[j - 1])]>>
  BY <1>2 DEF Peelings
<1> DEFINE args == [j \in 1..k |-> Quoted(f[j - 1])]
           hs == HashesOf(args)
<1>4. c = <<Quoted(n), args>> /\ c[1] = Quoted(n) /\ c[2] = args BY <1>3
<1>5. MaxDepth \in Nat /\ k \in Nat /\ Len(args) = k BY CodecAssumption
<1>6. k \in 0..2 BY <1>4, <1>5
<1>7. \A j \in 0..k : f[j] \in Node /\ SubNodes[f[j]] \subseteq SubNodes[n]
  <2>1. \A j \in 0..(k - 1) : IsLayer(f[j], 4) BY <1>3 DEF Peeled
  <2> QED BY <1>1, <1>2, <2>1, PeelingGoes
<1>8. ASSUME NEW j \in 1..k PROVE args[j] \in SubNodes[n] /\ args[j] = Quoted(f[j - 1])
  <2>1. j - 1 \in 0..(k - 1) /\ j - 1 \in 0..k BY <1>5
  <2>2. IsLayer(f[j - 1], 4) BY <1>3, <2>1 DEF Peeled
  <2>3. Quoted(f[j - 1]) \in SubNodes[f[j - 1]] BY <1>7, <2>1, <2>2, LayerParts
  <2> QED BY <1>7, <2>1, <2>3
<1>9. args \in BoundedSeq(SubNodes[n], 2)
  <2>1. args \in [1..k -> SubNodes[n]] BY <1>8
  <2> HIDE DEF args
  <2> QED BY <1>6, <2>1 DEF BoundedSeq, SeqOf
<1>10. Quoted(n) \in SubNodes[n] BY <1>2, LayerParts
<1>11. Len(hs) = k /\ \A j \in 1..k : hs[j] = TreeHash[args[j]]
  <2> HIDE DEF args
  <2> QED BY <1>5 DEF HashesOf
<1>12. PeelsTo(f, k, hs)
  <2>1. ASSUME NEW j \in 0..(k - 1) PROVE TreeHash[Quoted(f[j])] = hs[j + 1]
    <3>1. j + 1 \in 1..k /\ (j + 1) - 1 = j BY <1>5
    <3>2. hs[j + 1] = TreeHash[args[j + 1]] BY <1>11, <3>1
    <3>3. args[j + 1] = Quoted(f[(j + 1) - 1]) BY <1>8, <3>1
    <3> QED BY <3>1, <3>2, <3>3
  <2> HIDE DEF hs
  <2> QED BY <1>3, <2>1 DEF PeelsTo
<1> DEFINE q == TreeHash[Quoted(n)]
<1> HIDE DEF hs, args, q
<1>13. PICK g : Wraps(g, hs) /\ curriedPuzzleHash(q, hs) = LayerHash(2, q, g[k])
  BY <1>5, <1>11, CurriedIs
<1>14. TreeHash[f[0]] = g[k] BY <1>1, <1>2, <1>11, <1>12, <1>13, PeeledAreWrapped
<1>15. TreeHash[n] = LayerHash(2, q, g[k])
  <2>1. TreeHash[Rest(n)] = g[k] BY <1>1, <1>14 DEF Peels
  <2> QED BY <1>2, <2>1, LayerHashed DEF q
<1>16. curriedPuzzleHash(TreeHash[c[1]], HashesOf(c[2])) = TreeHash[n]
  BY <1>4, <1>13, <1>15 DEF hs, q
<1> QED BY <1>4, <1>9, <1>10, <1>16

LEMMA AreUncurried ==
  ASSUME NEW n \in Node, MaxDepth >= 1, NEW c \in SubNodes[n] \X BoundedSeq(SubNodes[n], 2),
         curriedPuzzleHash(TreeHash[c[1]], HashesOf(c[2])) = TreeHash[n]
  PROVE  c \in uncurry(n) /\ Len(c[2]) <= 2
<1> DEFINE args == c[2]
           hs == HashesOf(args)
           q == TreeHash[c[1]]
<1>1. c[1] \in SubNodes[n] /\ args \in BoundedSeq(SubNodes[n], 2) /\ c = <<c[1], args>> OBVIOUS
<1> HIDE DEF args
<1>2. PICK k \in 0..2 : args \in [1..k -> SubNodes[n]] BY <1>1 DEF BoundedSeq, SeqOf
<1>3. Len(args) = k BY <1>2
<1>4. SubNodes[n] \in SUBSET Node BY SubNodesUnroll
<1>5. k \in 0..(MaxDepth + 1) /\ k \in Nat /\ MaxDepth \in Nat BY CodecAssumption
<1>6. Len(hs) = k /\ \A j \in 1..k : hs[j] = TreeHash[args[j]] BY <1>3, <1>5 DEF HashesOf
<1> HIDE DEF hs, q
<1>7. curriedPuzzleHash(q, hs) = TreeHash[n] BY DEF hs, q, args
<1>8. PICK g : Wraps(g, hs) /\ curriedPuzzleHash(q, hs) = LayerHash(2, q, g[k])
  BY <1>5, <1>6, CurriedIs
<1>9. TreeHash[n] = LayerHash(2, q, g[k]) BY <1>7, <1>8
<1>10. IsLayer(n, 2) /\ TreeHash[Quoted(n)] = q /\ TreeHash[Rest(n)] = g[k]
  BY <1>9, LayerHashed
<1>11. c[1] = Quoted(n)
  <2>1. Quoted(n) \in Node /\ c[1] \in Node BY <1>1, <1>4, <1>10, LayerParts
  <2> QED BY <1>10, <2>1, HashIsInjective DEF q
<1>12. PICK f : Peels(f, n) /\ uncurry(n) = IF IsLayer(n, 2) THEN Peelings(f, n) ELSE {}
  BY UncurryIs
<1>13. TreeHash[f[0]] = g[k] BY <1>10, <1>12 DEF Peels
<1>14. PeelsTo(f, k, hs) BY <1>5, <1>6, <1>8, <1>10, <1>12, <1>13, WrappedArePeeled
<1>15. \A j \in 0..k : f[j] \in Node
  <2>1. \A j \in 0..(k - 1) : IsLayer(f[j], 4) BY <1>14 DEF PeelsTo, Peeled
  <2> QED BY <1>5, <1>10, <1>12, <2>1, PeelingGoes
<1>16. ASSUME NEW j \in 1..k PROVE args[j] = Quoted(f[j - 1])
  <2> DEFINE i == j - 1
  <2>1. i \in 0..(k - 1) /\ i \in 0..k /\ i + 1 = j BY <1>5
  <2> HIDE DEF i
  <2>2. TreeHash[Quoted(f[i])] = hs[i + 1] BY <1>14, <2>1 DEF PeelsTo
  <2>3. f[i] \in Node /\ IsLayer(f[i], 4) BY <1>14, <1>15, <2>1 DEF PeelsTo, Peeled
  <2>4. Quoted(f[i]) \in Node BY <2>3, LayerParts
  <2>5. hs[i + 1] = TreeHash[args[j]] /\ args[j] \in Node BY <1>2, <1>4, <1>6, <2>1
  <2>6. Quoted(f[i]) = args[j] BY <2>2, <2>4, <2>5, HashIsInjective
  <2> QED BY <2>6 DEF i
<1>17. args = [j \in 1..k |-> Quoted(f[j - 1])]
  <2>1. args = [j \in 1..k |-> args[j]] BY <1>2
  <2> QED BY <1>16, <2>1
<1>18. Peeled(f, k) BY <1>14 DEF PeelsTo
<1>19. c = <<Quoted(n), [j \in 1..k |-> Quoted(f[j - 1])]>> BY <1>1, <1>11, <1>17
<1>20. c \in Peelings(f, n) BY <1>5, <1>18, <1>19 DEF Peelings
<1>21. c \in uncurry(n) BY <1>10, <1>12, <1>20
<1> QED BY <1>3, <1>5, <1>21 DEF args

(* sha256tree gives the hash of the tree; and a hash computed from the     *)
(* hashes of a module and its arguments is that of a tree just when        *)
(* uncurry finds them in it.                                               *)
THEOREM HashesAreExact == CodecSpec => []HashesAgree
<1>1. ASSUME CodecInv, stage = "done" PROVE MaxDepth >= 1
  <2>1. ops = << >> BY <1>1 DEF CodecInv, Decided
  <2>2. values[1] \in Node /\ StackNeeded[values[1]] <= 2 * MaxDepth
    BY <1>1, <2>1, ParserEnds DEF CodecInv
  <2> QED BY <2>2, StackNeededUnrolls, CodecAssumption
<1>2. ASSUME CodecInv, stage = "done", NEW n, n = values[1]
      PROVE  /\ out = <<TreeHash[n]>>
             /\ {c \in uncurry(n) : Len(c[2]) <= 2} =
                  {c \in SubNodes[n] \X BoundedSeq(SubNodes[n], 2) :
                     curriedPuzzleHash(TreeHash[c[1]], HashesOf(c[2])) = out[1]}
  <2>1. n \in Node /\ out = <<TreeHash[n]>> BY <1>2, ReadTreeIs
  <2>2. out[1] = TreeHash[n] BY <2>1
  <2>3. \A c : c \in uncurry(n) /\ Len(c[2]) <= 2 =>
                 /\ c \in SubNodes[n] \X BoundedSeq(SubNodes[n], 2)
                 /\ curriedPuzzleHash(TreeHash[c[1]], HashesOf(c[2])) = TreeHash[n]
    BY <2>1, UncurriedAre
  <2>4. \A c \in SubNodes[n] \X BoundedSeq(SubNodes[n], 2) :
          curriedPuzzleHash(TreeHash[c[1]], HashesOf(c[2])) = TreeHash[n]
            => c \in uncurry(n) /\ Len(c[2]) <= 2
    <3> SUFFICES ASSUME NEW c \in SubNodes[n] \X BoundedSeq(SubNodes[n], 2),
                        curriedPuzzleHash(TreeHash[c[1]], HashesOf(c[2])) = TreeHash[n]
                 PROVE  c \in uncurry(n) /\ Len(c[2]) <= 2
      OBVIOUS
    <3> QED BY <1>1, <1>2, <2>1, AreUncurried
  <2> QED BY <2>1, <2>2, <2>3, <2>4
<1>3. CodecInv => HashesAgree BY <1>2 DEF HashesAgree, HashesOf
<1> QED BY <1>3, CodecInvariance, PTL

-----------------------------------------------------------------------------
(* Two's complement.                                                       *)
OctetValues == 2^OctetBits
Span(n) == 2^(n * OctetBits)
Half == FirstOf(1)

LEMMA Halves ==
  /\ OctetValues \in Nat /\ Half \in Nat /\ Half >= 1 /\ OctetValues = 2 * Half
  /\ Half = 2^(OctetBits - 1) /\ Octet = Digit(OctetValues) /\ OctetValues - 1 = ConsOctet
<1>1. OctetBits \in Nat /\ OctetBits >= 3 /\ OctetValues \in Nat /\ Octet = 0..(OctetValues - 1)
      /\ ConsOctet = OctetValues - 1
  BY Widths DEF OctetValues
<1> DEFINE m == OctetBits - 1
<1>2. m \in Nat /\ m + 1 = OctetBits BY <1>1
<1>3. Half = OctetValues - 2^m BY DEF Half, FirstOf, OctetValues
<1> HIDE DEF m
<1>4. 2^m \in Nat /\ 2^m >= 1 /\ 2^(m + 1) = 2 * 2^m BY <1>2, TwoPowers
<1>5. OctetValues = 2 * 2^m BY <1>2, <1>4 DEF OctetValues
<1>6. Half = 2^m BY <1>3, <1>4, <1>5
<1> QED BY <1>1, <1>4, <1>5, <1>6 DEF m, Digit

LEMMA Spans ==
  ASSUME NEW n \in Nat
  PROVE  /\ Span(n) \in Nat /\ Span(n) >= 1 /\ Span(0) = 1
         /\ Span(n + 1) = Span(n) * OctetValues
         /\ Half * Span(n) \in Nat /\ Half * Span(n) >= Span(n)
         /\ Span(n + 1) = 2 * (Half * Span(n))
         /\ 2^((n + 1) * OctetBits - 1) = Half * Span(n)
<1>1. OctetBits \in Nat /\ OctetBits >= 3 BY Widths
<1> DEFINE a == n * OctetBits
           c == OctetBits - 1
           e == (n + 1) * OctetBits
<1>2. a \in Nat /\ c \in Nat /\ e = a + OctetBits /\ e - 1 = a + c
  <2>1. a \in Nat BY <1>1
  <2>2. e = a + OctetBits BY <1>1
  <2> HIDE DEF a, e
  <2> QED BY <1>1, <2>1, <2>2
<1>3. Span(n) = 2^a /\ Span(n + 1) = 2^e BY DEF Span
<1>4. Span(0) = 1
  <2>1. 0 * OctetBits = 0 BY <1>1
  <2> QED BY <2>1, PowerOfNothing DEF Span
<1> HIDE DEF a, e
<1>5. 2^a \in Nat /\ 2^a >= 1 BY <1>2, TwoPowers
<1>6. 2^e = 2^a * OctetValues BY <1>1, <1>2, PowersMultiply DEF OctetValues
<1>7. 2^(e - 1) = 2^a * Half
  <2> HIDE DEF c
  <2>1. 2^(a + c) = 2^a * 2^c BY <1>2, PowersMultiply
  <2>2. 2^c = Half BY Halves DEF c
  <2> QED BY <1>2, <2>1, <2>2
<1> DEFINE w == Span(n)
<1>8. w \in Nat /\ w >= 1 /\ Span(n + 1) = w * OctetValues /\ 2^(e - 1) = w * Half
  BY <1>3, <1>5, <1>6, <1>7
<1> HIDE DEF w
<1>9. Half * w \in Nat /\ Half * w >= w /\ w * Half = Half * w
  <2> DEFINE h == Half
  <2>1. h \in Nat /\ h >= 1 BY Halves
  <2> HIDE DEF h
  <2>2. h * w \in Nat /\ w * h = h * w BY <1>8, <2>1
  <2>3. h * w = (h - 1) * w + w /\ (h - 1) * w \in Nat BY <1>8, <2>1
  <2>4. h * w >= w
    <3> DEFINE y == (h - 1) * w
    <3> HIDE DEF y
    <3> QED BY <1>8, <2>3 DEF y
  <2> QED BY <2>2, <2>4 DEF h
<1>10. w * OctetValues = 2 * (Half * w)
  <2> DEFINE h == Half
  <2>1. h \in Nat /\ OctetValues = 2 * h BY Halves
  <2> HIDE DEF h
  <2>2. w * (2 * h) = 2 * (h * w) BY <1>8, <2>1
  <2> QED BY <2>1, <2>2 DEF h
<1> QED BY <1>4, <1>8, <1>9, <1>10 DEF w, e

LEMMA FitsIs ==
  ASSUME NEW v \in Int, NEW n \in Nat
  PROVE  /\ Fits(v, 0) <=> v = 0
         /\ Fits(v, n + 1) <=> -(Half * Span(n)) <= v /\ v < Half * Span(n)
<1>1. n + 1 # 0 OBVIOUS
<1>2. 2^((n + 1) * OctetBits - 1) = Half * Span(n) BY Spans
<1> QED BY <1>1, <1>2 DEF Fits

LEMMA SpansGrow ==
  ASSUME NEW m \in Nat, NEW n \in Nat, m <= n
  PROVE  Half * Span(m) <= Half * Span(n)
<1>1. OctetBits \in Nat BY Widths
<1>2. m * OctetBits \in Nat /\ n * OctetBits \in Nat /\ m * OctetBits <= n * OctetBits
  <2>1. n * OctetBits = m * OctetBits + (n - m) * OctetBits BY <1>1
  <2>2. (n - m) * OctetBits \in Nat /\ m * OctetBits \in Nat BY <1>1
  <2> DEFINE a == n * OctetBits
             b == m * OctetBits
             c == (n - m) * OctetBits
  <2> HIDE DEF a, b, c
  <2>3. a \in Nat /\ b \in Nat /\ b <= a BY <2>1, <2>2 DEF a, b, c
  <2> QED BY <2>3 DEF a, b
<1>3. Span(m) <= Span(n)
  <2> DEFINE a == n * OctetBits
             b == m * OctetBits
  <2>1. a \in Nat /\ b \in Nat /\ b <= a BY <1>2
  <2> HIDE DEF a, b
  <2>2. 2^b <= 2^a BY <2>1, PowersOfTwoGrow
  <2> QED BY <2>2 DEF a, b, Span
<1> DEFINE x == Span(m)
           y == Span(n)
           h == Half
<1>4. x \in Nat /\ y \in Nat /\ x <= y /\ h \in Nat BY <1>3, Spans, Halves
<1> HIDE DEF x, y, h
<1>5. h * y = h * x + h * (y - x) /\ h * (y - x) \in Nat /\ h * x \in Nat BY <1>4
<1>6. h * x <= h * y
  <2> DEFINE p == h * x
             q == h * y
             r == h * (y - x)
  <2> HIDE DEF p, q, r
  <2> QED BY <1>5 DEF p, q, r
<1> QED BY <1>6 DEF x, y, h

(* No fewer octets hold a number that needs the highest bit of the last.   *)
LEMMA NotFits ==
  ASSUME NEW v \in Int, v # 0, NEW m \in Nat,
         m >= 1 => v >= Half * Span(m - 1) \/ v < -(Half * Span(m - 1))
  PROVE  \A j \in 0..m : ~Fits(v, j)
<1> SUFFICES ASSUME NEW j \in 0..m PROVE ~Fits(v, j) OBVIOUS
<1>1. CASE j = 0 BY <1>1, FitsIs
<1>2. CASE j # 0
  <2> DEFINE i == j - 1
             a == Half * Span(i)
             c == Half * Span(m - 1)
  <2>1. i \in Nat /\ j = i + 1 /\ m - 1 \in Nat /\ i <= m - 1 /\ m >= 1 BY <1>2
  <2>2. a <= c
    <3> HIDE DEF i
    <3> QED BY <2>1, SpansGrow
  <2>3. a \in Nat /\ c \in Nat
    <3> HIDE DEF i
    <3> QED BY <2>1, Spans
  <2>4. Fits(v, j) <=> -a <= v /\ v < a
    <3> HIDE DEF i
    <3> QED BY <2>1, FitsIs
  <2>5. v >= c \/ v < -c BY <2>1
  <2> HIDE DEF a, c
  <2> QED BY <2>2, <2>3, <2>4, <2>5
<1> QED BY <1>1, <1>2

-----------------------------------------------------------------------------
(* What a sequence of octets is as a number, and what its first octet is   *)
(* of it.                                                                  *)
LEMMA UnsignedIs ==
  ASSUME NEW s \in Seq(Octet) PROVE Unsigned(s) = Horner(s, OctetValues)
BY DEF Unsigned, OctetValues

LEMMA UnsignedEmpty == << >> \in Seq(Octet) /\ Unsigned(<< >>) = 0
<1> DEFINE z == << >>
<1>1. z \in Seq(Octet) OBVIOUS
<1>2. OctetValues \in Int BY Halves
<1>3. Horner(z, OctetValues) = 0 BY <1>2, HornerEmpty
<1> HIDE DEF z
<1>4. Unsigned(z) = Horner(z, OctetValues) BY <1>1, UnsignedIs
<1> QED BY <1>1, <1>3, <1>4 DEF z

LEMMA UnsignedOfFront ==
  ASSUME NEW s \in Seq(Octet), s # << >>
  PROVE  \E t \in Seq(Octet), d \in Octet :
           /\ s = Append(t, d) /\ Len(t) = Len(s) - 1
           /\ Unsigned(s) = Unsigned(t) * OctetValues + d
<1> DEFINE t == SubSeq(s, 1, Len(s) - 1)
           d == s[Len(s)]
<1>1. OctetValues \in Nat /\ Octet = Digit(OctetValues) BY Halves
<1>2. /\ t \in Seq(Octet) /\ d \in Octet /\ s = Append(t, d) /\ Len(t) = Len(s) - 1
      /\ Horner(s, OctetValues) = Horner(t, OctetValues) * OctetValues + d
  BY <1>1, HornerOfFront
<1>3. Unsigned(s) = Horner(s, OctetValues) /\ Unsigned(t) = Horner(t, OctetValues)
  BY <1>2, UnsignedIs
<1> HIDE DEF t, d
<1> QED BY <1>2, <1>3

LEMMA UnsignedAppends ==
  ASSUME NEW s \in Seq(Octet), NEW d \in Octet
  PROVE  Unsigned(Append(s, d)) = Unsigned(s) * OctetValues + d
<1>1. OctetValues \in Nat /\ Octet = Digit(OctetValues) BY Halves
<1>2. s \in Seq(Int) /\ d \in Int BY <1>1, DigitsAreInts DEF Digit
<1>3. Append(s, d) \in Seq(Octet) OBVIOUS
<1>4. Unsigned(s) = Horner(s, OctetValues) BY UnsignedIs
<1>5. Unsigned(Append(s, d)) = Horner(Append(s, d), OctetValues) BY <1>3, UnsignedIs
<1>6. Horner(Append(s, d), OctetValues) = Horner(s, OctetValues) * OctetValues + d
  BY <1>1, <1>2, HornerAppends
<1> QED BY <1>4, <1>5, <1>6

LEMMA UnsignedBelow ==
  ASSUME NEW s \in Seq(Octet)
  PROVE  Unsigned(s) \in Nat /\ Unsigned(s) < Span(Len(s))
<1> DEFINE Good(t) == Unsigned(t) \in Nat /\ Unsigned(t) < Span(Len(t))
           T == {n \in Nat : \A t \in Seq(Octet) : Len(t) = n => Good(t)}
<1>0. OctetValues \in Nat /\ Octet = Digit(OctetValues) BY Halves
<1>1. 0 \in T
  <2>1. ASSUME NEW t \in Seq(Octet), Len(t) = 0 PROVE Good(t)
    <3>1. t = << >> BY <2>1, EmptySeq
    <3>2. Unsigned(t) = 0 BY <3>1, UnsignedEmpty
    <3>3. Span(0) = 1 BY Spans
    <3> QED BY <2>1, <3>2, <3>3
  <2> QED BY <2>1
<1>2. ASSUME NEW n \in Nat, n \in T PROVE n + 1 \in T
  <2>1. ASSUME NEW t \in Seq(Octet), Len(t) = n + 1 PROVE Good(t)
    <3>1. t # << >> BY <2>1
    <3>2. PICK u \in Seq(Octet), d \in Octet :
            t = Append(u, d) /\ Len(u) = Len(t) - 1 /\ Unsigned(t) = Unsigned(u) * OctetValues + d
      BY <3>1, UnsignedOfFront
    <3>3. Len(u) = n BY <2>1, <3>2
    <3>4. Unsigned(u) \in Nat /\ Unsigned(u) < Span(n) BY <1>2, <3>3
    <3>5. Span(n) \in Nat /\ Span(n + 1) = Span(n) * OctetValues BY Spans
    <3> DEFINE x == Unsigned(u)
               w == Span(n)
               b == OctetValues
    <3>6. x \in Nat /\ w \in Nat /\ b \in Nat /\ x < w /\ d \in 0..(b - 1) BY <1>0, <3>4, <3>5 DEF Digit
    <3>7. Unsigned(t) = x * b + d /\ Span(n + 1) = w * b BY <3>2, <3>5
    <3> HIDE DEF x, w, b
    <3>8. x * b \in Nat /\ w * b = x * b + b + (w - x - 1) * b /\ (w - x - 1) * b \in Nat BY <3>6
    <3>9. x * b + d < w * b
      <4> DEFINE p == x * b
                 q == w * b
                 r == (w - x - 1) * b
      <4>1. p \in Nat /\ q = p + b + r /\ r \in Nat BY <3>8
      <4> HIDE DEF p, q, r
      <4>2. p + d < q BY <3>6, <4>1
      <4> QED BY <4>2 DEF p, q
    <3>10. x * b + d \in Nat
      <4> DEFINE p == x * b
      <4>1. p \in Nat BY <3>8
      <4> HIDE DEF p
      <4>2. p + d \in Nat BY <3>6, <4>1
      <4> QED BY <4>2 DEF p
    <3> QED BY <2>1, <3>7, <3>9, <3>10
  <2> HIDE DEF Good
  <2> QED BY <2>1
<1>3. T = Nat
  <2>1. \A n \in Nat : n \in T => n + 1 \in T BY <1>2
  <2> HIDE DEF T
  <2>2. T \in SUBSET Nat BY DEF T
  <2> QED BY <1>1, <2>1, <2>2, SetInduction
<1>4. Len(s) \in T BY <1>3
<1>5. Good(s)
  <2> HIDE DEF Good
  <2> QED BY <1>4
<1> QED BY <1>5

LEMMA UnsignedPrefixed ==
  ASSUME NEW s \in Seq(Octet), NEW o \in Octet
  PROVE  Unsigned(<<o>> \o s) = o * Span(Len(s)) + Unsigned(s)
<1> DEFINE p == <<o>>
           Good(t) == Unsigned(p \o t) = o * Span(Len(t)) + Unsigned(t)
           T == {n \in Nat : \A t \in Seq(Octet) : Len(t) = n => Good(t)}
<1>0. OctetValues \in Nat /\ Octet = Digit(OctetValues) /\ p \in Seq(Octet) /\ o \in Nat BY Halves DEF Digit
<1>1. 0 \in T
  <2>1. ASSUME NEW t \in Seq(Octet), Len(t) = 0 PROVE Good(t)
    <3>1. t = << >> /\ p \o << >> = p BY <2>1, EmptySeq
    <3>2. Unsigned(t) = 0 BY <3>1, UnsignedEmpty
    <3>3. Span(Len(t)) = 1 BY <2>1, Spans
    <3>4. Unsigned(p) = o
      <4> DEFINE z == << >>
      <4>1. z \in Seq(Octet) /\ p = Append(z, o) BY UnsignedEmpty
      <4>2. Unsigned(z) = 0 BY UnsignedEmpty
      <4> HIDE DEF z
      <4>3. Unsigned(Append(z, o)) = Unsigned(z) * OctetValues + o BY <4>1, UnsignedAppends
      <4>4. Unsigned(p) = 0 * OctetValues + o
        <5> HIDE DEF p
        <5> QED BY <4>1, <4>2, <4>3
      <4> HIDE DEF p
      <4> QED BY <1>0, <4>4
    <3>5. p \o t = p BY <3>1
    <3> HIDE DEF p
    <3> QED BY <1>0, <3>2, <3>3, <3>4, <3>5
  <2> HIDE DEF Good
  <2> QED BY <2>1
<1> HIDE DEF p
<1>2. ASSUME NEW n \in Nat, n \in T PROVE n + 1 \in T
  <2>1. ASSUME NEW t \in Seq(Octet), Len(t) = n + 1 PROVE Good(t)
    <3>1. t # << >> BY <2>1
    <3>2. PICK u \in Seq(Octet), d \in Octet :
            t = Append(u, d) /\ Len(u) = Len(t) - 1 /\ Unsigned(t) = Unsigned(u) * OctetValues + d
      BY <3>1, UnsignedOfFront
    <3>3. Len(u) = n BY <2>1, <3>2
    <3>4. Unsigned(p \o u) = o * Span(n) + Unsigned(u) BY <1>2, <3>3
    <3>5. p \o t = Append(p \o u, d) /\ p \o u \in Seq(Octet) BY <1>0, <3>2, PrefixAppended
    <3>6. Unsigned(p \o t) = Unsigned(p \o u) * OctetValues + d
      <4> DEFINE v == p \o u
      <4>1. v \in Seq(Octet) /\ p \o t = Append(v, d) BY <3>5
      <4> HIDE DEF v
      <4>2. Unsigned(Append(v, d)) = Unsigned(v) * OctetValues + d BY <4>1, UnsignedAppends
      <4> QED BY <4>1, <4>2 DEF v
    <3>7. Span(n) \in Nat /\ Span(n + 1) = Span(n) * OctetValues BY Spans
    <3>8. Unsigned(u) \in Nat BY UnsignedBelow
    <3> DEFINE x == Unsigned(u)
               w == Span(n)
               b == OctetValues
    <3>9. x \in Nat /\ w \in Nat /\ b \in Nat /\ d \in Nat BY <1>0, <3>7, <3>8 DEF Digit
    <3>10. Unsigned(t) = x * b + d /\ Span(n + 1) = w * b /\ Unsigned(p \o t) = (o * w + x) * b + d
      BY <3>2, <3>4, <3>6, <3>7
    <3> HIDE DEF x, w, b
    <3>11. (o * w + x) * b + d = o * (w * b) + (x * b + d) BY <1>0, <3>9
    <3> QED BY <2>1, <3>10, <3>11
  <2> HIDE DEF Good
  <2> QED BY <2>1
<1>3. T = Nat
  <2>1. \A n \in Nat : n \in T => n + 1 \in T BY <1>2
  <2> HIDE DEF T
  <2>2. T \in SUBSET Nat BY DEF T
  <2> QED BY <1>1, <2>1, <2>2, SetInduction
<1>4. Len(s) \in T BY <1>3
<1>5. Good(s)
  <2> HIDE DEF Good
  <2> QED BY <1>4
<1> QED BY <1>5 DEF p

(* A number starts with its first octet.                                   *)
LEMMA UnsignedLeads ==
  ASSUME NEW s \in Seq(Octet), s # << >>
  PROVE  /\ Len(s) - 1 \in Nat /\ s[1] \in Octet
         /\ s[1] * Span(Len(s) - 1) \in Nat
         /\ s[1] * Span(Len(s) - 1) <= Unsigned(s)
         /\ Unsigned(s) < s[1] * Span(Len(s) - 1) + Span(Len(s) - 1)
<1> DEFINE o == s[1]
           t == Tail(s)
<1>1. o \in Octet /\ t \in Seq(Octet) /\ Len(t) = Len(s) - 1 /\ Len(t) \in Nat OBVIOUS
<1>2. s = <<o>> \o t OBVIOUS
<1> HIDE DEF o, t
<1>3. Unsigned(s) = o * Span(Len(t)) + Unsigned(t) BY <1>1, <1>2, UnsignedPrefixed
<1>4. Unsigned(t) \in Nat /\ Unsigned(t) < Span(Len(t)) BY <1>1, UnsignedBelow
<1>5. Span(Len(t)) \in Nat BY <1>1, Spans
<1>6. o \in Nat BY <1>1, Halves DEF Digit
<1> DEFINE w == Span(Len(t))
           y == o * w
<1>7. y \in Nat /\ w \in Nat BY <1>5, <1>6
<1>8. Unsigned(s) = y + Unsigned(t) /\ Unsigned(t) < w BY <1>3, <1>4
<1> HIDE DEF y
<1>9. y <= Unsigned(s) /\ Unsigned(s) < y + w
  <2> HIDE DEF w
  <2> QED BY <1>4, <1>7, <1>8
<1> QED BY <1>1, <1>7, <1>9 DEF o, y

(* The highest bit is a half of all that the octets hold.                  *)
LEMMA SignIs ==
  ASSUME NEW s \in Seq(Octet), s # << >>
  PROVE  HasSign(s) <=> Unsigned(s) >= Half * Span(Len(s) - 1)
<1> DEFINE o == s[1]
           w == Span(Len(s) - 1)
           h == Half
           u == Unsigned(s)
<1>1. o \in Nat /\ w \in Nat /\ h \in Nat /\ u \in Nat
  <2>1. Len(s) - 1 \in Nat /\ o \in Octet BY UnsignedLeads
  <2>2. w \in Nat BY <2>1, Spans
  <2>3. o \in Nat /\ h \in Nat BY <2>1, Halves DEF Digit
  <2> QED BY <2>2, <2>3, UnsignedBelow
<1>2. o * w <= u /\ u < o * w + w BY UnsignedLeads
<1>3. HasSign(s) <=> o >= h BY DEF HasSign, Half
<1> HIDE DEF o, w, h, u
<1>4. ASSUME o >= h PROVE u >= h * w
  <2>1. o * w = h * w + (o - h) * w /\ (o - h) * w \in Nat /\ h * w \in Nat BY <1>1, <1>4
  <2> DEFINE p == o * w
             q == h * w
             r == (o - h) * w
  <2>2. p = q + r /\ r \in Nat /\ q \in Nat /\ p <= u BY <1>2, <2>1
  <2> HIDE DEF p, q, r
  <2>3. u >= q BY <1>1, <2>2
  <2> QED BY <2>3 DEF q
<1>5. ASSUME o < h PROVE u < h * w
  <2>1. h * w = o * w + w + (h - o - 1) * w /\ (h - o - 1) * w \in Nat /\ o * w \in Nat BY <1>1, <1>5
  <2> DEFINE p == o * w
             q == h * w
             r == (h - o - 1) * w
  <2>2. q = p + w + r /\ r \in Nat /\ p \in Nat /\ u < p + w BY <1>2, <2>1
  <2> HIDE DEF p, q, r
  <2>3. u < q BY <1>1, <2>2
  <2> QED BY <2>3 DEF q
<1>6. h * w \in Nat BY <1>1
<1> DEFINE q == h * w
<1>7. q \in Nat /\ (o >= h => u >= q) /\ (o < h => u < q) BY <1>4, <1>5, <1>6
<1> HIDE DEF q
<1>8. HasSign(s) <=> u >= q BY <1>1, <1>3, <1>7
<1> QED BY <1>8 DEF q, h, w, u
-----------------------------------------------------------------------------
(* The octets shifted out of a negative number.                            *)
SignedDigits(s, v) ==
  /\ s \in Seq(Octet) /\ v = Unsigned(s) - Span(Len(s))
  /\ s # << >> => s[1] # ConsOctet

LEMMA NegativeDigits ==
  ASSUME NEW value \in Int, value < 0
  PROVE  SignedDigits(DigitsOf(value, OctetValues), value)
<1> DEFINE base == OctetValues
           n == -1 - value
<1>0. /\ n \in Nat /\ value = -1 - n
      /\ base \in Nat /\ base >= 2 /\ Octet = 0..(base - 1) /\ ConsOctet = base - 1
  BY Halves DEF Digit
<1>1. PICK g : Digits(g, TRUE, n, base) /\ DigitsOf(value, base) = g[value]
  <2>1. PICK g : /\ Digits(g, value < 0, Distance(value), base)
                 /\ DigitsOf(value, base) = g[value]
    BY <1>0, DigitsUnroll
  <2>2. Distance(value) = n BY DEF Distance
  <2>3. (value < 0) = TRUE OBVIOUS
  <2>4. Digits(g, TRUE, n, base) BY <2>1, <2>2, <2>3
  <2> QED BY <2>1, <2>4
<1>2. /\ g[-1] = << >>
      /\ \A m \in 1..n : g[-1 - m] = Append(g[(-1 - m) \div base], (-1 - m) % base)
  <2>1. At(TRUE, 0) = -1 /\ \A m \in 1..n : At(TRUE, m) = -1 - m BY DEF At
  <2> QED BY <1>1, <2>1 DEF Digits
<1> HIDE DEF n, base
<1> DEFINE T == {k \in Nat : \A m \in 0..k : m <= n => SignedDigits(g[-1 - m], -1 - m)}
<1>3. 0 \in T
  <2>1. SignedDigits(<< >>, -1)
    <3>1. Span(0) = 1 BY Spans
    <3>2. Len(<< >>) = 0 OBVIOUS
    <3> QED BY <3>1, <3>2, UnsignedEmpty DEF SignedDigits
  <2>2. \A m \in 0..0 : -1 - m = -1 OBVIOUS
  <2> QED BY <1>2, <2>1, <2>2
<1>4. ASSUME NEW k \in Nat, k \in T, k + 1 <= n PROVE SignedDigits(g[-1 - (k + 1)], -1 - (k + 1))
  <2> DEFINE v == -1 - (k + 1)
             q == v \div base
             r == v % base
  <2>1. PICK j \in 0..k : q = -1 - j
    <3>1. PICK j \in 0..k : At(TRUE, k + 1) \div base = At(TRUE, j) BY <1>0, DivisionShrinks
    <3> QED BY <3>1 DEF At
  <2>2. v \in Int /\ v < -1 OBVIOUS
  <2>3. g[v] = Append(g[q], r)
    <3>1. k + 1 \in 1..n BY <1>0, <1>4
    <3> QED BY <1>2, <3>1
  <2> HIDE DEF v
  <2>4. r \in 0..(base - 1) /\ v = base * q + r /\ q \in Int BY <1>0, <2>2, DivisionLeaves
  <2> HIDE DEF q, r
  <2> DEFINE s == g[q]
             u == Unsigned(s)
             w == Span(Len(s))
  <2>5. SignedDigits(s, q)
    <3>1. j <= n /\ j \in Nat BY <1>0, <1>4
    <3>2. SignedDigits(g[-1 - j], -1 - j) BY <1>4, <3>1
    <3> QED BY <2>1, <3>2
  <2>6. s \in Seq(Octet) /\ q = u - w /\ (s # << >> => s[1] # ConsOctet) BY <2>5 DEF SignedDigits
  <2> HIDE DEF s
  <2>7. r \in Octet BY <1>0, <2>4
  <2>8. Append(s, r) \in Seq(Octet) /\ Len(Append(s, r)) = Len(s) + 1 /\ Len(s) \in Nat BY <2>6, <2>7
  <2>9. Unsigned(Append(s, r)) = u * base + r BY <2>6, <2>7, UnsignedAppends DEF base
  <2>10. Span(Len(s) + 1) = w * base /\ w \in Nat BY <2>8, Spans DEF base
  <2>11. u \in Nat BY <2>6, UnsignedBelow
  <2>12. v = (u * base + r) - w * base
    <3> HIDE DEF u, w
    <3>1. base * q = u * base - w * base BY <1>0, <2>6, <2>10, <2>11
    <3>2. u * base \in Nat /\ w * base \in Nat BY <1>0, <2>10, <2>11
    <3> DEFINE x == u * base
               y == w * base
               z == base * q
    <3>3. x \in Nat /\ y \in Nat /\ z = x - y /\ v = z + r BY <2>4, <3>1, <3>2
    <3> HIDE DEF x, y, z
    <3>4. v = (x + r) - y BY <2>4, <3>3
    <3> QED BY <3>4 DEF x, y
  <2>13. Append(s, r)[1] # ConsOctet
    <3>1. CASE s = << >>
      <4>1. u = 0 /\ w = 1
        <5>1. Len(<< >>) = 0 /\ Span(0) = 1 BY Spans
        <5> QED BY <3>1, <5>1, UnsignedEmpty
      <4>2. q = -1 BY <2>6, <4>1
      <4>3. r = v + base BY <1>0, <2>2, <2>4, <4>2
      <4>4. r # base - 1 BY <1>0, <2>2, <4>3
      <4>5. Append(<< >>, r)[1] = r OBVIOUS
      <4> QED BY <1>0, <3>1, <4>4, <4>5
    <3>2. CASE s # << >>
      <4>1. Len(s) \in Nat \ {0} BY <2>6, <3>2, EmptySeq
      <4>2. Append(s, r)[1] = s[1] BY <2>6, <2>7, <4>1, AppendProperties
      <4> QED BY <2>6, <3>2, <4>2
    <3> QED BY <3>1, <3>2
  <2>14. SignedDigits(Append(s, r), v)
    <3> DEFINE a == Append(s, r)
    <3>1. a \in Seq(Octet) /\ Len(a) = Len(s) + 1 /\ Unsigned(a) = u * base + r /\ a[1] # ConsOctet
      BY <2>8, <2>9, <2>13
    <3> HIDE DEF a, u, w
    <3>2. Span(Len(a)) = w * base BY <2>10, <3>1
    <3>3. v = Unsigned(a) - Span(Len(a)) BY <2>12, <3>1, <3>2
    <3>4. SignedDigits(a, v) BY <3>1, <3>3 DEF SignedDigits
    <3> QED BY <3>4 DEF a
  <2> QED BY <2>3, <2>14 DEF v, s
<1>5. T = Nat
  <2>1. ASSUME NEW k \in Nat, k \in T PROVE k + 1 \in T
    <3>1. \A m \in 0..(k + 1) : m \in 0..k \/ m = k + 1 OBVIOUS
    <3> QED BY <1>4, <2>1, <3>1
  <2>2. \A k \in Nat : k \in T => k + 1 \in T BY <2>1
  <2> HIDE DEF T
  <2>3. T \in SUBSET Nat BY DEF T
  <2> QED BY <1>3, <2>2, <2>3, SetInduction
<1>6. SignedDigits(g[value], value)
  <2>1. n \in T
    <3> HIDE DEF T
    <3> QED BY <1>0, <1>5
  <2>2. n \in 0..n /\ n <= n BY <1>0
  <2>3. SignedDigits(g[-1 - n], -1 - n) BY <2>1, <2>2
  <2> QED BY <1>0, <2>3
<1> QED BY <1>1, <1>6 DEF base

LEMMA NaturalDigits ==
  ASSUME NEW value \in Nat
  PROVE  LET s == DigitsOf(value, OctetValues)
         IN  s \in Seq(Octet) /\ value = Unsigned(s) /\ (s # << >> => s[1] # 0)
<1> DEFINE s == DigitsOf(value, OctetValues)
<1>1. OctetValues \in Nat /\ OctetValues >= 2 /\ Octet = Digit(OctetValues) BY Halves
<1>2. IsNumeral(s, OctetValues) /\ Horner(s, OctetValues) = value BY <1>1, NumeralOf
<1> HIDE DEF s
<1>3. s \in Seq(Octet) /\ (s # << >> => s[1] # 0) BY <1>1, <1>2 DEF IsNumeral
<1>4. value = Unsigned(s) BY <1>2, <1>3, UnsignedIs
<1> QED BY <1>3, <1>4 DEF s
-----------------------------------------------------------------------------
LEMMA DenotesIs ==
  ASSUME NEW v \in Int, NEW s \in Seq(Octet), NEW z \in Int,
         v - Unsigned(s) = Span(Len(s)) * z, Fits(v, Len(s))
  PROVE  Denotes(s, v)
<1> DEFINE w == Span(Len(s))
           d == v - Unsigned(s)
<1>1. Len(s) \in Nat /\ w \in Nat /\ w >= 1 BY Spans
<1>2. d \in Int /\ d = w * z + 0 BY <1>1, UnsignedBelow
<1>3. Denotes(s, v) <=> Fits(v, Len(s)) /\ d % w = 0 BY DEF Denotes, Span
<1> HIDE DEF w, d
<1>4. d % w = 0 BY <1>1, <1>2, RemainderIs
<1> QED BY <1>3, <1>4

(* An atom is read as the number it denotes.                               *)
LEMMA AtomIsRead ==
  ASSUME NEW s \in Seq(Octet), NEW v, v = Unsigned(s) - IF HasSign(s) THEN Span(Len(s)) ELSE 0
  PROVE  v \in Int /\ Denotes(s, v)
<1> DEFINE u == Unsigned(s)
           w == Span(Len(s))
<1>1. u \in Nat /\ u < w /\ w \in Nat /\ Len(s) \in Nat BY UnsignedBelow, Spans
<1>2. v \in Int /\ v - u = w * (IF HasSign(s) THEN -1 ELSE 0)
  <2>1. v = u - IF HasSign(s) THEN w ELSE 0 OBVIOUS
  <2> HIDE DEF u, w
  <2> QED BY <1>1, <2>1
<1>3. Fits(v, Len(s))
  <2>1. CASE s = << >>
    <3>1. ~HasSign(s) BY <2>1 DEF HasSign
    <3>2. v = 0 BY <2>1, <3>1, UnsignedEmpty
    <3>3. Len(s) = 0 BY <2>1
    <3> QED BY <3>2, <3>3, FitsIs
  <2>2. CASE s # << >>
    <3> DEFINE k == Len(s) - 1
               h == Half * Span(k)
    <3>1. k \in Nat /\ k + 1 = Len(s) BY <2>2
    <3>2. h \in Nat /\ w = 2 * h
      <4>1. Span(k + 1) = 2 * h /\ h \in Nat
        <5> HIDE DEF k
        <5> QED BY <3>1, Spans
      <4> QED BY <3>1, <4>1
    <3>3. HasSign(s) <=> u >= h BY <2>2, SignIs
    <3>4. v = u - IF HasSign(s) THEN w ELSE 0 OBVIOUS
    <3>5. -h <= v /\ v < h
      <4> HIDE DEF u, w, h
      <4> QED BY <1>1, <3>2, <3>3, <3>4
    <3>6. Fits(v, k + 1) <=> -h <= v /\ v < h
      <4> HIDE DEF k
      <4> QED BY <1>2, <3>1, FitsIs
    <3> QED BY <3>1, <3>5, <3>6
  <2> QED BY <2>1, <2>2
<1>4. Denotes(s, v)
  <2> DEFINE z == IF HasSign(s) THEN -1 ELSE 0
  <2>1. z \in Int /\ v - Unsigned(s) = Span(Len(s)) * z BY <1>2
  <2> HIDE DEF z
  <2> QED BY <1>2, <1>3, <2>1, DenotesIs
<1> QED BY <1>2, <1>4

(* An octet in front, and what fits with it.                               *)
LEMMA OctetInFront ==
  ASSUME NEW s \in Seq(Octet), NEW o \in Octet
  PROVE  /\ <<o>> \o s \in Seq(Octet) /\ Len(<<o>> \o s) = Len(s) + 1
         /\ Unsigned(<<o>> \o s) = o * Span(Len(s)) + Unsigned(s)
BY UnsignedPrefixed

(* What is written of a number denotes it, in as few octets as can be.     *)
Shortest(s, v) == Denotes(s, v) /\ \A j \in 0..(Len(s) - 1) : ~Fits(v, j)

LEMMA ZeroIsWritten == Shortest(<< >>, 0)
<1>1. Len(<< >>) = 0 /\ Span(0) = 1 BY Spans
<1>2. Fits(0, 0) BY FitsIs
<1>3. 0 - Unsigned(<< >>) = Span(0) * 0 BY <1>1, UnsignedEmpty
<1>4. Denotes(<< >>, 0)
  <2> DEFINE s == << >>
  <2>1. /\ s \in Seq(Octet) /\ 0 \in Int /\ Fits(0, Len(s))
        /\ 0 - Unsigned(s) = Span(Len(s)) * 0
    BY <1>1, <1>2, <1>3, UnsignedEmpty
  <2> HIDE DEF s
  <2>2. Denotes(s, 0) BY <2>1, DenotesIs
  <2> QED BY <2>2 DEF s
<1>5. \A j \in 0..(0 - 1) : FALSE OBVIOUS
<1> QED BY <1>1, <1>4, <1>5 DEF Shortest

(* Numbers that need all the bits of the octets but that of the sign.      *)
LEMMA PlainIsWritten ==
  ASSUME NEW s \in Seq(Octet), s # << >>, NEW v \in Int, v # 0, NEW z \in {-1, 0},
         v = Unsigned(s) + z * Span(Len(s)), z = -1 <=> HasSign(s),
         z = 0 => s[1] # 0, z = -1 => s[1] # ConsOctet
  PROVE  Shortest(s, v)
<1> DEFINE k == Len(s) - 1
           w == Span(k)
           h == Half * w
           u == Unsigned(s)
           o == s[1]
           y == o * w
<1>1. k \in Nat /\ k + 1 = Len(s) BY UnsignedLeads
<1>2. /\ w \in Nat /\ w >= 1 /\ h \in Nat /\ h >= w
      /\ Span(Len(s)) = w * OctetValues /\ Span(Len(s)) = 2 * h
  <2> HIDE DEF k
  <2>1. /\ Span(k + 1) = Span(k) * OctetValues /\ Span(k + 1) = 2 * (Half * Span(k))
        /\ Span(k) \in Nat /\ Span(k) >= 1
        /\ Half * Span(k) \in Nat /\ Half * Span(k) >= Span(k)
    BY <1>1, Spans
  <2> QED BY <1>1, <2>1
<1>3. u \in Nat /\ u < Span(Len(s)) BY UnsignedBelow
<1>4. HasSign(s) <=> u >= h BY SignIs
<1>5. y \in Nat /\ y <= u /\ u < y + w /\ o \in Octet BY UnsignedLeads
<1>6. OctetValues \in Nat /\ Octet = 0..(OctetValues - 1) /\ ConsOctet = OctetValues - 1 BY Halves DEF Digit
<1>7. v - u = Span(Len(s)) * z /\ v = u + z * (2 * h) BY <1>1, <1>2, <1>3
<1>8. -h <= v /\ v < h
  <2> HIDE DEF u, h
  <2> DEFINE x == z * (2 * h)
  <2>1. v = u + x BY <1>7
  <2>2. z = 0 => x = 0 BY <1>2
  <2>3. z = -1 => x = -(2 * h) BY <1>2
  <2> HIDE DEF x
  <2>4. CASE z = 0 BY <1>2, <1>3, <1>4, <2>1, <2>2, <2>4
  <2>5. CASE z = -1 BY <1>2, <1>3, <1>4, <2>1, <2>3, <2>5
  <2> QED BY <2>4, <2>5
<1>9. Denotes(s, v)
  <2>1. Fits(v, k + 1)
    <3> HIDE DEF k
    <3> QED BY <1>1, <1>8, FitsIs
  <2> QED BY <1>1, <1>7, <2>1, DenotesIs
<1>10. v >= w \/ v < -w
  <2>1. CASE z = 0
    <3>1. v = u
      <4>1. z * Span(Len(s)) = 0 BY <1>2, <2>1
      <4> QED BY <1>3, <4>1
    <3>2. o >= 1 BY <1>5, <1>6, <2>1
    <3>3. y >= w
      <4> HIDE DEF o, w
      <4>1. o \in Nat /\ o >= 1 BY <1>5, <1>6, <3>2
      <4>2. o * w = (o - 1) * w + w /\ (o - 1) * w \in Nat BY <1>2, <4>1
      <4> DEFINE p == (o - 1) * w
      <4>3. p \in Nat /\ y = p + w BY <4>2
      <4> HIDE DEF p, y
      <4> QED BY <1>2, <4>3
    <3> HIDE DEF u, w, y
    <3> QED BY <1>2, <1>3, <1>5, <3>1, <3>3
  <2>2. CASE z = -1
    <3>1. o <= OctetValues - 2 BY <1>5, <1>6, <2>2
    <3>2. v = u - w * OctetValues
      <4>1. z * Span(Len(s)) = -Span(Len(s)) BY <1>2, <2>2
      <4> QED BY <1>2, <1>3, <4>1
    <3>3. w * OctetValues \in Nat /\ y + w + w <= w * OctetValues
      <4> DEFINE b == OctetValues
      <4>1. o \in Nat /\ b \in Nat /\ o <= b - 2 BY <1>5, <1>6, <3>1
      <4> HIDE DEF o, w, b
      <4>2. w * b = o * w + w + w + (b - 2 - o) * w /\ (b - 2 - o) * w \in Nat /\ w * b \in Nat BY <1>2, <4>1
      <4> DEFINE p == (b - 2 - o) * w
                 q == w * b
      <4>3. p \in Nat /\ q \in Nat /\ q = y + w + w + p BY <4>2
      <4> HIDE DEF p, q, y
      <4>4. q \in Nat /\ y + w + w <= q BY <1>2, <1>5, <4>3
      <4> QED BY <4>4 DEF q, b
    <3> DEFINE q == w * OctetValues
    <3>4. v = u - q /\ q \in Nat /\ y + w + w <= q BY <3>2, <3>3
    <3> HIDE DEF q, u, w, y
    <3> QED BY <1>2, <1>3, <1>5, <3>4
  <2> QED BY <2>1, <2>2
<1>11. k >= 1 => v >= Half * Span(k - 1) \/ v < -(Half * Span(k - 1))
  <2> SUFFICES ASSUME k >= 1 PROVE v >= Half * Span(k - 1) \/ v < -(Half * Span(k - 1)) OBVIOUS
  <2> DEFINE i == k - 1
             a == Half * Span(i)
  <2>1. i \in Nat /\ i + 1 = k BY <1>1
  <2>2. a \in Nat /\ w = 2 * a
    <3>1. Span(i + 1) = 2 * a /\ a \in Nat
      <4> HIDE DEF i
      <4> QED BY <2>1, Spans
    <3> QED BY <2>1, <3>1
  <2> HIDE DEF a, w
  <2>3. v >= a \/ v < -a BY <1>10, <2>2
  <2> QED BY <2>3 DEF a
<1>12. \A j \in 0..k : ~Fits(v, j)
  <2> HIDE DEF k
  <2> QED BY <1>1, <1>11, NotFits
<1> QED BY <1>9, <1>12 DEF Shortest

(* Numbers that need an octet for the sign alone.                          *)
LEMMA SignedIsWritten ==
  ASSUME NEW s \in Seq(Octet), NEW v \in Int, v # 0, NEW z \in {-1, 0}, NEW o \in Octet,
         v = Unsigned(s) + z * Span(Len(s)), z = -1 => ~HasSign(s) /\ o = ConsOctet,
         z = 0 => HasSign(s) /\ o = 0
  PROVE  Shortest(<<o>> \o s, v)
<1> DEFINE k == Len(s)
           w == Span(k)
           u == Unsigned(s)
           t == <<o>> \o s
           b == OctetValues
<1>1. k \in Nat /\ t \in Seq(Octet) /\ Len(t) = k + 1 /\ Unsigned(t) = o * w + u BY OctetInFront
<1>2. w \in Nat /\ w >= 1 /\ Half * w \in Nat /\ Half * w >= w /\ Span(k + 1) = w * b
  <2> HIDE DEF k
  <2> QED BY <1>1, Spans
<1>3. u \in Nat /\ u < w BY UnsignedBelow
<1>4. b \in Nat /\ ConsOctet = b - 1 BY Halves
<1>5. v = u + z * w OBVIOUS
<1>6. Fits(v, k + 1)
  <2> DEFINE h == Half * w
  <2>1. h \in Nat /\ h >= w BY <1>2
  <2>2. Fits(v, k + 1) <=> -h <= v /\ v < h
    <3> HIDE DEF k
    <3> QED BY <1>1, FitsIs
  <2>3. -h <= v /\ v < h
    <3>1. z * w = 0 \/ z * w = -w BY <1>2
    <3> DEFINE y == z * w
    <3>2. v = u + y /\ (y = 0 \/ y = -w) BY <1>5, <3>1
    <3> HIDE DEF h, w, u, y
    <3> QED BY <1>2, <1>3, <2>1, <3>2
  <2> QED BY <2>2, <2>3
<1>7. v - Unsigned(t) = Span(Len(t)) * z
  <2>1. CASE z = 0
    <3>1. o * w = 0 /\ z * w = 0 /\ Span(Len(t)) * z = 0 BY <1>1, <1>2, <1>4, <2>1
    <3> QED BY <1>1, <1>3, <1>5, <3>1
  <2>2. CASE z = -1
    <3>1. o = b - 1 BY <1>4, <2>2
    <3> HIDE DEF w, b, u, t
    <3>2. o * w = w * b - w /\ z * w = -w /\ w * b \in Nat BY <1>2, <1>4, <2>2, <3>1
    <3> DEFINE q == w * b
               y == o * w
    <3>3. q \in Nat /\ y = q - w /\ v = u - w /\ Unsigned(t) = y + u /\ Span(Len(t)) = q
      BY <1>1, <1>2, <1>3, <1>5, <3>2
    <3>4. Span(Len(t)) * z = -q BY <2>2, <3>3
    <3> HIDE DEF q, y
    <3> QED BY <1>2, <1>3, <3>3, <3>4
  <2> QED BY <2>1, <2>2
<1>8. Denotes(t, v)
  <2> HIDE DEF t
  <2> QED BY <1>1, <1>6, <1>7, DenotesIs
<1>9. k >= 1 => v >= Half * Span(k - 1) \/ v < -(Half * Span(k - 1))
  <2> SUFFICES ASSUME k >= 1 PROVE v >= Half * Span(k - 1) \/ v < -(Half * Span(k - 1)) OBVIOUS
  <2> DEFINE i == k - 1
             a == Half * Span(i)
  <2>1. i \in Nat /\ i + 1 = k /\ s # << >> BY <1>1
  <2>2. a \in Nat /\ w = 2 * a
    <3>1. Span(i + 1) = 2 * a /\ a \in Nat
      <4> HIDE DEF i
      <4> QED BY <2>1, Spans
    <3> QED BY <2>1, <3>1
  <2>3. HasSign(s) <=> u >= a BY <2>1, SignIs
  <2>4. z = 0 => v = u /\ HasSign(s) BY <1>2, <1>3, <1>5
  <2>5. z = -1 => v = u - w /\ ~HasSign(s) BY <1>2, <1>3, <1>5
  <2> HIDE DEF a, w, u
  <2>6. v >= a \/ v < -a BY <1>3, <2>2, <2>3, <2>4, <2>5
  <2> QED BY <2>6 DEF a
<1>10. \A j \in 0..k : ~Fits(v, j)
  <2> HIDE DEF k
  <2> QED BY <1>1, <1>9, NotFits
<1>11. Len(t) - 1 = k BY <1>1
<1> HIDE DEF t
<1>12. Shortest(t, v) BY <1>8, <1>10, <1>11 DEF Shortest
<1> QED BY <1>12 DEF t

LEMMA IntIsWritten ==
  ASSUME NEW v \in Int
  PROVE  Shortest(intToAtom(v), v)
<1> DEFINE s == DigitsOf(v, OctetValues)
<1>1. intToAtom(v) = IF v < 0 /\ ~HasSign(s) THEN <<ConsOctet>> \o s
                     ELSE IF v > 0 /\ HasSign(s) THEN <<0>> \o s
                     ELSE s
  BY DEF intToAtom, OctetValues
<1>2. ConsOctet \in Octet /\ 0 \in Octet
  <2>1. OctetValues \in Nat /\ OctetValues >= 2 /\ Octet = 0..(OctetValues - 1) /\ OctetValues - 1 = ConsOctet
    BY Halves DEF Digit
  <2> QED BY <2>1
<1>3. CASE v < 0
  <2>1. s \in Seq(Octet) /\ v = Unsigned(s) - Span(Len(s)) /\ (s # << >> => s[1] # ConsOctet)
    BY <1>3, NegativeDigits DEF SignedDigits
  <2> HIDE DEF s
  <2>2. Unsigned(s) \in Nat /\ Span(Len(s)) \in Nat
    <3>1. Len(s) \in Nat BY <2>1
    <3> QED BY <2>1, <3>1, UnsignedBelow, Spans
  <2>3. v = Unsigned(s) + (-1) * Span(Len(s)) BY <2>1, <2>2
  <2> DEFINE z == -1
  <2>4. z \in {-1, 0} /\ z = -1 /\ z # 0 /\ v = Unsigned(s) + z * Span(Len(s)) BY <2>3
  <2> HIDE DEF z
  <2>5. CASE HasSign(s)
    <3>1. s # << >> BY <2>5 DEF HasSign
    <3>2. Shortest(s, v) BY <1>3, <2>1, <2>4, <2>5, <3>1, PlainIsWritten
    <3> QED BY <1>1, <1>3, <2>5, <3>2
  <2>6. CASE ~HasSign(s)
    <3>1. Shortest(<<ConsOctet>> \o s, v) BY <1>2, <1>3, <2>1, <2>4, <2>6, SignedIsWritten
    <3> QED BY <1>1, <1>3, <2>6, <3>1
  <2> QED BY <2>5, <2>6
<1>4. CASE v >= 0
  <2>1. s \in Seq(Octet) /\ v = Unsigned(s) /\ (s # << >> => s[1] # 0)
    <3>1. v \in Nat BY <1>4
    <3> QED BY <3>1, NaturalDigits
  <2> HIDE DEF s
  <2>2. Span(Len(s)) \in Nat
    <3>1. Len(s) \in Nat BY <2>1
    <3> QED BY <3>1, Spans
  <2>3. v = Unsigned(s) + 0 * Span(Len(s)) BY <2>1, <2>2
  <2> DEFINE z == 0
  <2>4. z \in {-1, 0} /\ z = 0 /\ z # -1 /\ v = Unsigned(s) + z * Span(Len(s)) BY <2>3
  <2> HIDE DEF z
  <2>5. CASE v = 0
    <3>1. s = << >>
      <4> SUFFICES ASSUME s # << >> PROVE FALSE OBVIOUS
      <4> DEFINE o == s[1]
                 w == Span(Len(s) - 1)
      <4>1. Len(s) - 1 \in Nat /\ o \in Octet /\ o # 0 /\ o * w <= Unsigned(s) BY <2>1, UnsignedLeads
      <4>2. w \in Nat /\ w >= 1 BY <4>1, Spans
      <4>3. o \in Nat BY <4>1, Halves DEF Digit
      <4> HIDE DEF o, w
      <4>4. o * w >= 1
        <5>1. o * w = (o - 1) * w + w /\ (o - 1) * w \in Nat BY <4>1, <4>2, <4>3
        <5> DEFINE p == (o - 1) * w
                   q == o * w
        <5>2. p \in Nat /\ q = p + w BY <5>1
        <5> HIDE DEF p, q
        <5>3. q >= 1 BY <4>2, <5>2
        <5> QED BY <5>3 DEF q
      <4>5. o * w \in Nat BY <4>2, <4>3
      <4> DEFINE q == o * w
      <4>6. q \in Nat /\ q >= 1 /\ q <= 0 BY <2>1, <2>5, <4>1, <4>4, <4>5
      <4> HIDE DEF q
      <4> QED BY <4>6
    <3> QED BY <1>1, <2>5, <3>1, ZeroIsWritten
  <2>6. CASE v # 0 /\ HasSign(s)
    <3>1. Shortest(<<0>> \o s, v) BY <1>2, <2>1, <2>4, <2>6, SignedIsWritten
    <3> QED BY <1>1, <1>4, <2>6, <3>1
  <2>7. CASE v # 0 /\ ~HasSign(s)
    <3>1. s # << >> BY <2>1, <2>7, UnsignedEmpty
    <3>2. Shortest(s, v) BY <2>1, <2>4, <2>7, <3>1, PlainIsWritten
    <3> QED BY <1>1, <1>4, <2>7, <3>2
  <2> QED BY <2>5, <2>6, <2>7
<1> QED BY <1>3, <1>4

(* An atom of no more octets than asInt reads is read as the number that   *)
(* it denotes in two's complement, and that number is written in the       *)
(* fewest octets that denote it.                                           *)
THEOREM IntegersAreExact == CodecSpec => []IntegersSurvive
<1>1. ASSUME CodecInv, stage = "done", NEW n \in {m \in SubNodes[values[1]] : ~isPair(m)}
      PROVE  /\ asInt(n) = {} => Len(n.atom) > MaxIntOctets
             /\ \A v \in asInt(n) :
                  /\ Denotes(n.atom, v) /\ Denotes(intToAtom(v), v)
                  /\ \A shorter \in 0..(Len(intToAtom(v)) - 1) : ~Fits(v, shorter)
  <2> DEFINE s == n.atom
             value == Unsigned(s) - IF HasSign(s) THEN Span(Len(s)) ELSE 0
  <2>1. n \in Node /\ ~isPair(n) BY <1>1, ReadTreeIs
  <2>2. s \in Seq(Octet) BY <2>1, NodeParts
  <2>3. asInt(n) = IF Len(s) > MaxIntOctets THEN {} ELSE {value} BY <2>1 DEF asInt, HasSign, Span
  <2> HIDE DEF s
  <2>4. value \in Int /\ Denotes(s, value) BY <2>2, AtomIsRead
  <2> HIDE DEF value
  <2>5. Shortest(intToAtom(value), value) BY <2>4, IntIsWritten
  <2>6. asInt(n) = {} => Len(s) > MaxIntOctets BY <2>3
  <2>7. \A v \in asInt(n) : v = value BY <2>3
  <2> QED BY <2>4, <2>5, <2>6, <2>7 DEF Shortest, s
<1>2. CodecInv => IntegersSurvive BY <1>1 DEF IntegersSurvive
<1> QED BY <1>2, CodecInvariance, PTL
=============================================================================
