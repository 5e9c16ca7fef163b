----------------------------- MODULE InputProofs ------------------------------
(***************************************************************************)
(* What a caller sends, for inputs of any size: the identifier, the header *)
(* of preferences and the gates of resolve.  First what these proofs and   *)
(* those about trees rest on: induction over the naturals in a form that   *)
(* needs no operator, functions defined by recursion, and what Horner and  *)
(* DigitsOf compute.                                                       *)
(***************************************************************************)
EXTENDS FrontDoor, SequenceTheorems, WellFoundedInduction, TLAPS

(* The naturals are well ordered.                                          *)
LEMMA LeastNatural ==
  ASSUME NEW T \in SUBSET Nat, T # {}
  PROVE  \E m \in T : \A k \in T : m <= k
<1> DEFINE R == OpToRel(<, Nat)
<1>1. IsWellFoundedOn(R, Nat) BY NatLessThanWellFounded
<1>2. \A x, y \in Nat : <<x, y>> \in R <=> x < y BY DEF OpToRel
<1> HIDE DEF R
<1>3. PICK m \in T : \A k \in T : <<k, m>> \notin R BY <1>1, WFMin
<1>4. \A k \in T : ~(k < m) BY <1>2, <1>3
<1>5. \A k \in T : m <= k BY <1>4
<1> QED BY <1>5

(* Induction: T is the set of the numbers that have the property.          *)
LEMMA SetInduction ==
  ASSUME NEW T \in SUBSET Nat, 0 \in T, \A n \in Nat : n \in T => n + 1 \in T
  PROVE  T = Nat
<1> SUFFICES ASSUME Nat \ T # {} PROVE FALSE OBVIOUS
<1>1. PICK m \in Nat \ T : \A k \in Nat \ T : m <= k BY LeastNatural
<1>2. m # 0 OBVIOUS
<1>3. m - 1 \in T BY <1>1, <1>2
<1> QED BY <1>3, <1>2

(* There is a function on 0..n that starts with c and goes on with h.      *)
Iterates(S, c, n, h) ==
  \E f \in [0..n -> S] : f[0] = c /\ \A k \in 1..n : f[k] = h[<<f[k - 1], k>>]

LEMMA Recursion ==
  ASSUME NEW S, NEW c \in S, NEW n \in Nat, NEW h \in [S \X (1..n) -> S]
  PROVE  Iterates(S, c, n, h)
<1> DEFINE Steps(f, m) == f[0] = c /\ \A k \in 1..m : f[k] = h[<<f[k - 1], k>>]
           T == {m \in Nat : m <= n => \E f \in [0..m -> S] : Steps(f, m)}
<1>1. 0 \in T
  <2>1. [k \in 0..0 |-> c] \in [0..0 -> S] /\ Steps([k \in 0..0 |-> c], 0) OBVIOUS
  <2> QED BY <2>1
<1>2. ASSUME NEW m \in Nat, m \in T, m + 1 <= n PROVE \E f \in [0..(m + 1) -> S] : Steps(f, m + 1)
  <2>1. PICK f \in [0..m -> S] : Steps(f, m) BY <1>2
  <2> DEFINE g == [k \in 0..(m + 1) |-> IF k <= m THEN f[k] ELSE h[<<f[m], m + 1>>]]
  <2>2. \A k \in 0..m : g[k] = f[k] OBVIOUS
  <2>3. g[m + 1] = h[<<f[m], m + 1>>] /\ h[<<f[m], m + 1>>] \in S
    <3>1. f[m] \in S /\ m + 1 \in 1..n BY <1>2
    <3> QED BY <3>1
  <2>4. g \in [0..(m + 1) -> S] BY <2>3
  <2> HIDE DEF g
  <2>5. \A k \in 1..m : g[k] = h[<<g[k - 1], k>>] BY <2>1, <2>2
  <2>6. \A k \in 1..(m + 1) : g[k] = h[<<g[k - 1], k>>] BY <2>2, <2>3, <2>5
  <2>7. g[0] = c BY <2>1, <2>2
  <2> QED BY <2>4, <2>6, <2>7
<1>3. T = Nat
  <2>1. \A m \in Nat : m \in T => m + 1 \in T BY <1>2
  <2> HIDE DEF T
  <2>2. T \in SUBSET Nat BY DEF T
  <2> QED BY <1>1, <2>1, <2>2, SetInduction
<1>4. n \in T BY <1>3
<1> QED BY <1>4 DEF Iterates

-----------------------------------------------------------------------------
(* The values of the loop that reads digits.                               *)
Values(value, digits, base) ==
  /\ value \in [0..Len(digits) -> Int]
  /\ value[0] = 0
  /\ \A k \in 1..Len(digits) : value[k] = value[k - 1] * base + digits[k]

LEMMA ValuesAgree ==
  ASSUME NEW digits \in Seq(Int), NEW base \in Int, NEW m \in 0..Len(digits),
         NEW more \in Seq(Int), Len(more) >= m, \A k \in 1..m : more[k] = digits[k],
         NEW f, NEW g, Values(f, digits, base), Values(g, more, base)
  PROVE  f[m] = g[m]
<1> DEFINE T == {k \in Nat : k <= m => f[k] = g[k]}
<1>0. m \in Nat /\ Len(digits) \in Nat /\ Len(more) \in Nat OBVIOUS
<1>1. 0 \in T BY DEF Values
<1>2. ASSUME NEW k \in Nat, k \in T, k + 1 <= m PROVE f[k + 1] = g[k + 1]
  <2>1. k + 1 \in 1..Len(digits) /\ k + 1 \in 1..Len(more) /\ k + 1 \in 1..m BY <1>0, <1>2
  <2>2. (k + 1) - 1 = k OBVIOUS
  <2>3. f[k + 1] = f[k] * base + digits[k + 1] BY <2>1, <2>2 DEF Values
  <2>4. g[k + 1] = g[k] * base + more[k + 1] BY <2>1, <2>2 DEF Values
  <2>5. f[k] = g[k] BY <1>2
  <2> QED BY <2>1, <2>3, <2>4, <2>5
<1>3. T = Nat
  <2>1. \A k \in Nat : k \in T => k + 1 \in T BY <1>2
  <2> HIDE DEF T
  <2>2. T \in SUBSET Nat BY DEF T
  <2> QED BY <1>1, <2>1, <2>2, SetInduction
<1> QED BY <1>0, <1>3

LEMMA HornerUnrolls ==
  ASSUME NEW digits \in Seq(Int), NEW base \in Int
  PROVE  \E value : Values(value, digits, base) /\ Horner(digits, base) = value[Len(digits)]
<1> DEFINE n == Len(digits)
           Step(v, k) == v * base + digits[k]
           h == [x \in Int \X (1..n) |-> Step(x[1], x[2])]
           Rec(f) == f = [k \in 0..n |-> IF k = 0 THEN 0 ELSE f[k - 1] * base + digits[k]]
<1>1. n \in Nat /\ \A k \in 1..n : digits[k] \in Int OBVIOUS
<1>2. h \in [Int \X (1..n) -> Int] BY <1>1
<1>3. PICK f \in [0..n -> Int] : f[0] = 0 /\ \A k \in 1..n : f[k] = h[<<f[k - 1], k>>]
  <2>1. 0 \in Int /\ n \in Nat BY <1>1
  <2> HIDE DEF h, n
  <2>2. Iterates(Int, 0, n, h) BY <1>2, <2>1, Recursion
  <2> QED BY <2>2 DEF Iterates
<1>4. \A k \in 1..n : f[k] = f[k - 1] * base + digits[k]
  <2> SUFFICES ASSUME NEW k \in 1..n PROVE f[k] = f[k - 1] * base + digits[k] OBVIOUS
  <2>1. k - 1 \in 0..n /\ f[k - 1] \in Int BY <1>1
  <2> QED BY <1>3, <2>1
<1>5. Rec(f)
  <2>1. \A k \in 0..n : k # 0 => k \in 1..n BY <1>1
  <2> QED BY <1>3, <1>4, <2>1
<1> DEFINE g == CHOOSE x : Rec(x)
<1>6. Rec(g)
  <2> HIDE DEF Rec
  <2> QED BY <1>5
<1>7. Horner(digits, base) = g[n] BY DEF Horner
<1> HIDE DEF g
<1>8. DOMAIN g = 0..n /\ g[0] = 0 /\ \A k \in 1..n : g[k] = g[k - 1] * base + digits[k]
  <2>1. g = [k \in 0..n |-> IF k = 0 THEN 0 ELSE g[k - 1] * base + digits[k]] BY <1>6
  <2>2. DOMAIN g = 0..n BY <2>1
  <2>3. \A k \in 0..n : g[k] = IF k = 0 THEN 0 ELSE g[k - 1] * base + digits[k] BY <2>1
  <2> QED BY <1>1, <2>2, <2>3
<1>9. g = f
  <2> DEFINE T == {k \in Nat : k <= n => g[k] = f[k]}
  <2>1. 0 \in T BY <1>3, <1>8
  <2>2. \A k \in Nat : k \in T => k + 1 \in T
    <3> SUFFICES ASSUME NEW k \in Nat, k \in T, k + 1 <= n PROVE g[k + 1] = f[k + 1] OBVIOUS
    <3>1. k + 1 \in 1..n /\ (k + 1) - 1 = k BY <1>1
    <3> QED BY <1>1, <1>4, <1>8, <3>1
  <2>3. T = Nat
    <3> HIDE DEF T
    <3>1. T \in SUBSET Nat BY DEF T
    <3> QED BY <2>1, <2>2, <3>1, SetInduction
  <2>4. \A k \in 0..n : g[k] = f[k] BY <1>1, <2>3
  <2>5. g = [k \in 0..n |-> g[k]] BY <1>6, <1>8
  <2> QED BY <2>4, <2>5
<1> QED BY <1>3, <1>4, <1>7, <1>9 DEF Values

(* What Horner computes, one digit at a time.                              *)
LEMMA HornerEmpty ==
  ASSUME NEW base \in Int PROVE Horner(<< >>, base) = 0
<1>1. << >> \in Seq(Int) /\ Len(<< >>) = 0 OBVIOUS
<1> QED BY <1>1, HornerUnrolls DEF Values

LEMMA HornerAppends ==
  ASSUME NEW s \in Seq(Int), NEW d \in Int, NEW base \in Int
  PROVE  /\ Horner(s, base) \in Int
         /\ Horner(Append(s, d), base) = Horner(s, base) * base + d
<1> DEFINE t == Append(s, d)
<1>1. /\ t \in Seq(Int) /\ Len(s) \in Nat /\ Len(t) = Len(s) + 1
      /\ \A k \in 1..Len(s) : t[k] = s[k]
      /\ t[Len(s) + 1] = d
  OBVIOUS
<1> HIDE DEF t
<1>2. PICK f : Values(f, s, base) /\ Horner(s, base) = f[Len(s)] BY HornerUnrolls
<1>3. PICK g : Values(g, t, base) /\ Horner(t, base) = g[Len(t)] BY <1>1, HornerUnrolls
<1>4. f[Len(s)] = g[Len(s)]
  <2> DEFINE m == Len(s)
  <2>1. m \in 0..Len(s) /\ Len(t) >= m BY <1>1
  <2>2. t \in Seq(Int) /\ \A k \in 1..m : t[k] = s[k] BY <1>1
  <2> HIDE DEF m
  <2>3. f[m] = g[m] BY <1>2, <1>3, <2>1, <2>2, ValuesAgree
  <2> QED BY <2>3 DEF m
<1>5. Len(s) + 1 \in 1..Len(t) /\ (Len(s) + 1) - 1 = Len(s) BY <1>1
<1>6. g[Len(s) + 1] = g[Len(s)] * base + d BY <1>1, <1>3, <1>5 DEF Values
<1>7. f[Len(s)] \in Int BY <1>1, <1>2 DEF Values
<1> QED BY <1>1, <1>2, <1>3, <1>4, <1>6, <1>7 DEF t

-----------------------------------------------------------------------------
(* The numbers on one side of zero, by their distance from what is left in *)
(* the end.                                                                *)
At(neg, m) == IF neg THEN -1 - m ELSE m

Stop(value) == At(value < 0, 0)
Distance(value) == IF value < 0 THEN -1 - value ELSE value

LEMMA DivisionLeaves ==
  ASSUME NEW v \in Int, NEW base \in Nat, base >= 2
  PROVE  /\ v \div base \in Int /\ v % base \in 0..(base - 1)
         /\ v = base * (v \div base) + (v % base)
OBVIOUS

LEMMA DivisionShrinks ==
  ASSUME NEW neg \in BOOLEAN, NEW m \in Nat, NEW base \in Nat, base >= 2
  PROVE  \E j \in 0..m : At(neg, m + 1) \div base = At(neg, j)
<1> DEFINE v == At(neg, m + 1)
           q == v \div base
           j == IF neg THEN -1 - q ELSE q
<1>1. v \in Int /\ (neg => v = -2 - m) /\ (~neg => v = m + 1) BY DEF At
<1> HIDE DEF v
<1>2. q \in Int /\ v % base \in 0..(base - 1) /\ v = base * q + (v % base)
  BY <1>1, DivisionLeaves
<1> HIDE DEF q
<1>3. CASE neg
  <2>1. q <= -1
    <3> SUFFICES ASSUME q >= 0 PROVE FALSE BY <1>2
    <3>1. base * q >= 0 BY <1>2
    <3> QED BY <1>1, <1>2, <1>3, <3>1
  <2>2. q >= -1 - m
    <3> SUFFICES ASSUME q <= -2 - m PROVE FALSE BY <1>2
    <3>1. base * q <= base * (-2 - m) BY <1>2
    <3>2. base * (-2 - m) <= 2 * (-2 - m) BY <1>2
    <3>3. base * (-2 - m) + base <= -2 - m
      <4>1. base * (-2 - m) + base = base * (-1 - m) BY <1>2
      <4>2. base * (-1 - m) <= 2 * (-1 - m) BY <1>2
      <4>3. base * (-1 - m) \in Int OBVIOUS
      <4> QED BY <4>1, <4>2, <4>3
    <3>4. base * q \in Int /\ base * (-2 - m) \in Int BY <1>2
    <3> QED BY <1>1, <1>2, <1>3, <3>1, <3>3, <3>4
  <2>3. j \in 0..m /\ q = At(neg, j) BY <1>2, <1>3, <2>1, <2>2 DEF At
  <2> QED BY <2>3 DEF q, v
<1>4. CASE ~neg
  <2>1. q >= 0
    <3> SUFFICES ASSUME q <= -1 PROVE FALSE BY <1>2
    <3>1. base * q <= base * (-1) BY <1>2
    <3>2. base * q \in Int BY <1>2
    <3> QED BY <1>1, <1>2, <1>4, <3>1, <3>2
  <2>2. q <= m
    <3> SUFFICES ASSUME q >= m + 1 PROVE FALSE BY <1>2
    <3>1. base * q >= 2 * q BY <1>2, <2>1
    <3>2. base * q \in Int BY <1>2
    <3> QED BY <1>1, <1>2, <1>4, <3>1, <3>2
  <2>3. j \in 0..m /\ q = At(neg, j) BY <1>2, <1>4, <2>1, <2>2 DEF At
  <2> QED BY <2>3 DEF q, v
<1> QED BY <1>3, <1>4

(* The digits of all numbers up to a distance.                             *)
Digits(g, neg, n, base) ==
  /\ g[At(neg, 0)] = << >>
  /\ \A m \in 1..n :
       g[At(neg, m)] = Append(g[At(neg, m) \div base], At(neg, m) % base)

LEMMA DigitsUnroll ==
  ASSUME NEW value \in Int, NEW base \in Nat, base >= 2
  PROVE  \E g : /\ Digits(g, value < 0, Distance(value), base)
                /\ DigitsOf(value, base) = g[value]
<1> DEFINE neg == value < 0
           n == Distance(value)
           stop == IF value < 0 THEN -1 ELSE 0
           Dom == (value..stop) \cup (stop..value)
           Upto(m) == {At(neg, k) : k \in 0..m}
           Body(f, v) == IF v = stop THEN << >> ELSE Append(f[v \div base], v % base)
           Rec(f, m) == f = [v \in Upto(m) |-> Body(f, v)]
           T == {m \in Nat : \E f : Rec(f, m)}
<1>0. /\ neg \in BOOLEAN /\ n \in Nat /\ stop = At(neg, 0) /\ value = At(neg, n)
      /\ \A k, m \in Nat : At(neg, k) \in Int /\ (At(neg, k) = At(neg, m) => k = m)
  BY DEF At, Distance
<1>1. Dom = Upto(n)
  <2>1. \A v \in Dom : v = At(neg, IF neg THEN -1 - v ELSE v)
                       /\ (IF neg THEN -1 - v ELSE v) \in 0..n
    BY DEF At, Distance
  <2>2. \A k \in 0..n : At(neg, k) \in Dom BY DEF At, Distance
  <2> QED BY <2>1, <2>2
<1>2. 0 \in T
  <2> DEFINE f == [v \in Upto(0) |-> << >>]
  <2>1. \A v \in Upto(0) : v = stop BY <1>0
  <2>2. \A v \in Upto(0) : Body(f, v) = << >> BY <2>1
  <2>3. Rec(f, 0) BY <2>2
  <2> QED BY <2>3
<1>3. ASSUME NEW m \in Nat, m \in T PROVE m + 1 \in T
  <2>1. PICK f : Rec(f, m) BY <1>3
  <2> DEFINE g == [v \in Upto(m + 1) |-> Body(f, v)]
  <2>2. \A v \in Upto(m) : f[v] = Body(f, v) BY <2>1
  <2>3. Upto(m) \subseteq Upto(m + 1) OBVIOUS
  <2>4. \A v \in Upto(m) : g[v] = f[v] BY <2>2, <2>3
  <2>5. ASSUME NEW v \in Upto(m + 1), v # stop PROVE v \div base \in Upto(m)
    <3>1. PICK k \in 0..(m + 1) : v = At(neg, k) BY <2>5
    <3>2. k # 0 BY <1>0, <2>5, <3>1
    <3>3. k - 1 \in Nat /\ (k - 1) + 1 = k /\ k - 1 <= m BY <3>1, <3>2
    <3>4. PICK j \in 0..(k - 1) : v \div base = At(neg, j)
      <4> HIDE DEF neg
      <4> QED BY <1>0, <3>1, <3>3, DivisionShrinks
    <3>5. j \in 0..m BY <3>3, <3>4
    <3> QED BY <3>4, <3>5
  <2>6. \A v \in Upto(m + 1) : Body(g, v) = Body(f, v)
    <3> HIDE DEF g, Upto, stop
    <3> QED BY <2>4, <2>5
  <2>7. Rec(g, m + 1)
    <3> HIDE DEF Upto, Body
    <3> QED BY <2>6
  <2> HIDE DEF Rec, g
  <2>8. \E x : Rec(x, m + 1) BY <2>7
  <2> QED BY <2>8
<1>4. T = Nat
  <2> HIDE DEF T
  <2>1. T \in SUBSET Nat BY DEF T
  <2>2. \A m \in Nat : m \in T => m + 1 \in T BY <1>3
  <2> QED BY <1>2, <2>1, <2>2, SetInduction
<1>5. n \in T BY <1>0, <1>4
<1>6. \E f : Rec(f, n) BY <1>5
<1> DEFINE Whole(f) == f = [v \in Dom |-> Body(f, v)]
           g == CHOOSE f : Whole(f)
<1>7. \E f : Whole(f)
  <2> HIDE DEF Upto, Dom, Body
  <2> QED BY <1>1, <1>6
<1>8. Whole(g)
  <2> HIDE DEF Whole
  <2> QED BY <1>7
<1>9. DigitsOf(value, base) = g[value] BY DEF DigitsOf
<1> HIDE DEF g
<1>10. \A v \in Dom : g[v] = Body(g, v)
  <2> HIDE DEF Body, Dom
  <2> QED BY <1>8
<1>11. \A m \in 0..n : At(neg, m) \in Dom /\ (m # 0 => At(neg, m) # stop)
  <2>1. \A m \in 0..n : At(neg, m) \in Upto(n) OBVIOUS
  <2> HIDE DEF Upto, Dom, neg, stop
  <2> QED BY <1>0, <1>1, <2>1
<1>12. g[At(neg, 0)] = << >> /\ \A m \in 1..n :
         g[At(neg, m)] = Append(g[At(neg, m) \div base], At(neg, m) % base)
  <2>1. 0 \in 0..n /\ \A m \in 1..n : m \in 0..n /\ m # 0 BY <1>0
  <2> HIDE DEF Dom, neg, n, stop
  <2> QED BY <1>0, <1>10, <1>11, <2>1
<1> QED BY <1>9, <1>12 DEF Digits

-----------------------------------------------------------------------------
LEMMA FrontAndLast ==
  ASSUME NEW S, NEW s \in Seq(S), s # << >>
  PROVE  /\ SubSeq(s, 1, Len(s) - 1) \in Seq(S) /\ s[Len(s)] \in S
         /\ Len(SubSeq(s, 1, Len(s) - 1)) = Len(s) - 1 /\ Len(s) - 1 \in Nat
         /\ s = Append(SubSeq(s, 1, Len(s) - 1), s[Len(s)])
<1> DEFINE n == Len(s)
           t == SubSeq(s, 1, n - 1)
<1>1. n \in Nat /\ n # 0 BY EmptySeq
<1>2. /\ t \in Seq(S) /\ Len(t) = n - 1 /\ \A k \in 1..(n - 1) : t[k] = s[k]
      /\ s[n] \in S
  <2>1. n \in 1..Len(s) /\ n - 1 \in 0..Len(s) /\ n - 1 \in Nat BY <1>1
  <2>2. \A k \in 1..(n - 1) : k \in 1..Len(s) BY <1>1
  <2>3. s[n] \in S BY <2>1
  <2>4. t \in Seq(S) /\ Len(t) = n - 1 /\ \A k \in 1..(n - 1) : t[k] = s[k]
    <3> DEFINE m == n - 1
    <3>1. m \in Nat /\ 1 \in Int /\ m \in Int /\ \A i \in 1..m : s[i] \in S
      BY <2>1, <2>2, ElementOfSeq
    <3> HIDE DEF m
    <3>2. /\ SubSeq(s, 1, m) \in Seq(S) /\ Len(SubSeq(s, 1, m)) = (IF 1 <= m THEN m - 1 + 1 ELSE 0)
          /\ \A i \in 1..(m - 1 + 1) : SubSeq(s, 1, m)[i] = s[1 + i - 1]
      BY <3>1, SubSeqProperties
    <3>3. /\ SubSeq(s, 1, m) \in Seq(S) /\ Len(SubSeq(s, 1, m)) = m
          /\ \A i \in 1..m : SubSeq(s, 1, m)[i] = s[i]
      BY <3>1, <3>2
    <3> QED BY <3>3 DEF m
  <2> QED BY <2>3, <2>4
<1>3. /\ Append(t, s[n]) \in Seq(S) /\ Len(Append(t, s[n])) = n
      /\ \A k \in 1..(n - 1) : Append(t, s[n])[k] = t[k]
      /\ Append(t, s[n])[n] = s[n]
  <2> HIDE DEF t, n
  <2> QED BY <1>1, <1>2
<1>4. \A k \in 1..n : s[k] = Append(t, s[n])[k]
  <2> HIDE DEF t
  <2>1. \A k \in 1..n : k \in 1..(n - 1) \/ k = n BY <1>1
  <2> QED BY <1>2, <1>3, <2>1
<1>5. s = Append(t, s[n])
  <2> HIDE DEF t
  <2> QED BY <1>3, <1>4, SeqEqual
<1> QED BY <1>1, <1>2, <1>5

(* A sequence of digits, and one that does not start with zero.            *)
Digit(base) == 0..(base - 1)
IsNumeral(s, base) == s \in Seq(Digit(base)) /\ (s # << >> => s[1] # 0)

LEMMA DigitsAreInts ==
  ASSUME NEW base \in Nat, NEW s \in Seq(Digit(base))
  PROVE  s \in Seq(Int) /\ Horner(s, base) \in Int
<1>1. Digit(base) \subseteq Int BY DEF Digit
<1>2. s \in Seq(Int) BY <1>1, SeqMonotonic
<1> QED BY <1>2, HornerAppends

LEMMA HornerOfFront ==
  ASSUME NEW base \in Nat, NEW s \in Seq(Digit(base)), s # << >>
  PROVE  LET t == SubSeq(s, 1, Len(s) - 1)
             d == s[Len(s)]
         IN  /\ t \in Seq(Digit(base)) /\ d \in Digit(base) /\ s = Append(t, d)
             /\ Len(t) = Len(s) - 1 /\ Len(t) \in Nat
             /\ Horner(t, base) \in Int
             /\ Horner(s, base) = Horner(t, base) * base + d
<1> DEFINE t == SubSeq(s, 1, Len(s) - 1)
           d == s[Len(s)]
<1>1. /\ t \in Seq(Digit(base)) /\ d \in Digit(base) /\ s = Append(t, d)
      /\ Len(t) = Len(s) - 1 /\ Len(t) \in Nat
  BY FrontAndLast
<1> HIDE DEF t, d
<1>2. d \in Int BY <1>1 DEF Digit
<1>3. t \in Seq(Int) /\ Horner(t, base) \in Int BY <1>1, DigitsAreInts
<1>4. Horner(s, base) = Horner(t, base) * base + d BY <1>1, <1>2, <1>3, HornerAppends
<1> QED BY <1>1, <1>3, <1>4 DEF t, d

LEMMA HornerIsNatural ==
  ASSUME NEW base \in Nat, NEW s \in Seq(Digit(base))
  PROVE  Horner(s, base) \in Nat
<1> DEFINE P(n) == \A t \in Seq(Digit(base)) : Len(t) = n => Horner(t, base) \in Nat
           T == {n \in Nat : P(n)}
<1>1. 0 \in T
  <2>1. ASSUME NEW t \in Seq(Digit(base)), Len(t) = 0 PROVE Horner(t, base) \in Nat
    <3>1. t = << >> BY <2>1, EmptySeq
    <3> QED BY <3>1, HornerEmpty
  <2> QED BY <2>1
<1>2. ASSUME NEW n \in Nat, n \in T PROVE n + 1 \in T
  <2>1. ASSUME NEW t \in Seq(Digit(base)), Len(t) = n + 1 PROVE Horner(t, base) \in Nat
    <3>1. t # << >> BY <2>1
    <3> DEFINE u == SubSeq(t, 1, Len(t) - 1)
               d == t[Len(t)]
    <3>2. /\ u \in Seq(Digit(base)) /\ d \in Digit(base) /\ Len(u) = Len(t) - 1
          /\ Horner(t, base) = Horner(u, base) * base + d
      BY <3>1, HornerOfFront
    <3> HIDE DEF u, d
    <3>3. Horner(u, base) \in Nat BY <1>2, <2>1, <3>2
    <3>4. d \in Nat BY <3>2 DEF Digit
    <3>5. Horner(u, base) * base \in Nat BY <3>3
    <3> QED BY <3>2, <3>4, <3>5
  <2> QED BY <2>1
<1>3. T = Nat
  <2> HIDE DEF T
  <2>1. T \in SUBSET Nat BY DEF T
  <2>2. \A n \in Nat : n \in T => n + 1 \in T BY <1>2
  <2> QED BY <1>1, <2>1, <2>2, SetInduction
<1>4. P(Len(s)) BY <1>3
<1> QED BY <1>4

LEMMA NumeralFront ==
  ASSUME NEW base \in Nat, NEW s, IsNumeral(s, base), s # << >>
  PROVE  LET t == SubSeq(s, 1, Len(s) - 1)
             d == s[Len(s)]
         IN  /\ IsNumeral(t, base) /\ d \in Digit(base) /\ s = Append(t, d)
             /\ Len(t) = Len(s) - 1 /\ Len(t) \in Nat
             /\ Horner(t, base) \in Nat
             /\ Horner(s, base) = Horner(t, base) * base + d
             /\ t = << >> => d # 0
<1> DEFINE t == SubSeq(s, 1, Len(s) - 1)
           d == s[Len(s)]
<1>1. s \in Seq(Digit(base)) /\ s[1] # 0 BY DEF IsNumeral
<1>2. /\ t \in Seq(Digit(base)) /\ d \in Digit(base) /\ s = Append(t, d)
      /\ Len(t) = Len(s) - 1 /\ Len(t) \in Nat
      /\ Horner(s, base) = Horner(t, base) * base + d
  BY <1>1, HornerOfFront
<1> HIDE DEF t, d
<1>3. Horner(t, base) \in Nat BY <1>2, HornerIsNatural
<1>4. t # << >> => t[1] = s[1]
  <2>1. ASSUME t # << >> PROVE 1 \in 1..Len(t) BY <1>2, <2>1, EmptySeq
  <2>2. \A k \in 1..Len(t) : Append(t, d)[k] = t[k] BY <1>2
  <2> QED BY <1>2, <2>1, <2>2
<1>5. t = << >> => d = s[1]
  <2>1. Append(<< >>, d)[1] = d OBVIOUS
  <2> QED BY <1>2, <2>1
<1> QED BY <1>1, <1>2, <1>3, <1>4, <1>5 DEF t, d, IsNumeral

LEMMA NumeralsArePositive ==
  ASSUME NEW base \in Nat, NEW s, IsNumeral(s, base), s # << >>, base >= 1
  PROVE  Horner(s, base) > 0
<1> DEFINE P(n) == \A t : IsNumeral(t, base) /\ t # << >> /\ Len(t) = n => Horner(t, base) > 0
           T == {n \in Nat : P(n)}
<1>1. 0 \in T
  <2>1. \A t : IsNumeral(t, base) /\ Len(t) = 0 => t = << >> BY EmptySeq DEF IsNumeral
  <2> QED BY <2>1
<1>2. ASSUME NEW n \in Nat, n \in T PROVE n + 1 \in T
  <2>1. ASSUME NEW t, IsNumeral(t, base), t # << >>, Len(t) = n + 1 PROVE Horner(t, base) > 0
    <3> DEFINE u == SubSeq(t, 1, Len(t) - 1)
               d == t[Len(t)]
    <3>1. /\ IsNumeral(u, base) /\ d \in Digit(base) /\ Len(u) = Len(t) - 1
          /\ Horner(u, base) \in Nat
          /\ Horner(t, base) = Horner(u, base) * base + d
          /\ u = << >> => d # 0
      BY <2>1, NumeralFront
    <3> HIDE DEF u, d
    <3>2. d \in Nat BY <3>1 DEF Digit
    <3>3. CASE u = << >>
      <4>1. Horner(u, base) = 0 BY <3>3, HornerEmpty
      <4> QED BY <3>1, <3>2, <3>3, <4>1
    <3>4. CASE u # << >>
      <4>1. Horner(u, base) > 0 BY <1>2, <2>1, <3>1, <3>4
      <4>2. Horner(u, base) * base >= Horner(u, base) BY <3>1
      <4>3. Horner(u, base) * base \in Int BY <3>1
      <4> QED BY <3>1, <3>2, <4>1, <4>2, <4>3
    <3> QED BY <3>3, <3>4
  <2> QED BY <2>1
<1>3. T = Nat
  <2> HIDE DEF T
  <2>1. T \in SUBSET Nat BY DEF T
  <2>2. \A n \in Nat : n \in T => n + 1 \in T BY <1>2
  <2> QED BY <1>1, <2>1, <2>2, SetInduction
<1>4. Len(s) \in Nat BY DEF IsNumeral
<1>5. P(Len(s)) BY <1>3, <1>4
<1> QED BY <1>5

(* Quotient and remainder are unique.                                      *)
LEMMA UniqueDivision ==
  ASSUME NEW base \in Nat, NEW p \in Int, NEW q \in Int,
         NEW d \in Digit(base), NEW e \in Digit(base), p * base + d = q * base + e
  PROVE  p = q /\ d = e
<1>1. d \in Int /\ e \in Int /\ 0 <= d /\ d < base /\ 0 <= e /\ e < base BY DEF Digit
<1>2. p * base \in Int /\ q * base \in Int OBVIOUS
<1>3. ASSUME p < q PROVE FALSE
  <2>1. (p + 1) * base <= q * base BY <1>3
  <2>2. (p + 1) * base = p * base + base OBVIOUS
  <2> QED BY <1>1, <1>2, <2>1, <2>2
<1>4. ASSUME q < p PROVE FALSE
  <2>1. (q + 1) * base <= p * base BY <1>4
  <2>2. (q + 1) * base = q * base + base OBVIOUS
  <2> QED BY <1>1, <1>2, <2>1, <2>2
<1>5. p = q BY <1>3, <1>4
<1> QED BY <1>1, <1>2, <1>5

(* A number has one numeral.                                               *)
LEMMA NumeralsAreUnique ==
  ASSUME NEW base \in Nat, base >= 1, NEW s, NEW t, IsNumeral(s, base), IsNumeral(t, base),
         Horner(s, base) = Horner(t, base)
  PROVE  s = t
<1> DEFINE P(n) == \A x, y : /\ IsNumeral(x, base) /\ IsNumeral(y, base) /\ Len(x) = n
                             /\ Horner(x, base) = Horner(y, base)
                             => x = y
           T == {n \in Nat : P(n)}
<1>1. 0 \in T
  <2>1. ASSUME NEW x, NEW y, IsNumeral(x, base), IsNumeral(y, base), Len(x) = 0,
               Horner(x, base) = Horner(y, base)
        PROVE  x = y
    <3>1. x = << >> BY <2>1, EmptySeq DEF IsNumeral
    <3>2. Horner(y, base) = 0 BY <2>1, <3>1, HornerEmpty
    <3>3. y = << >> BY <2>1, <3>2, NumeralsArePositive
    <3> QED BY <3>1, <3>3
  <2> QED BY <2>1
<1>2. ASSUME NEW n \in Nat, n \in T PROVE n + 1 \in T
  <2>1. ASSUME NEW x, NEW y, IsNumeral(x, base), IsNumeral(y, base), Len(x) = n + 1,
               Horner(x, base) = Horner(y, base)
        PROVE  x = y
    <3> DEFINE u == SubSeq(x, 1, Len(x) - 1)
               d == x[Len(x)]
               v == SubSeq(y, 1, Len(y) - 1)
               e == y[Len(y)]
    <3>1. x # << >> BY <2>1
    <3>2. y # << >>
      <4>1. Horner(x, base) > 0 BY <2>1, <3>1, NumeralsArePositive
      <4>2. Horner(<< >>, base) = 0 BY HornerEmpty
      <4> QED BY <2>1, <4>1, <4>2
    <3>3. /\ IsNumeral(u, base) /\ d \in Digit(base) /\ x = Append(u, d) /\ Len(u) = Len(x) - 1
          /\ Horner(u, base) \in Nat /\ Horner(x, base) = Horner(u, base) * base + d
      BY <2>1, <3>1, NumeralFront
    <3>4. /\ IsNumeral(v, base) /\ e \in Digit(base) /\ y = Append(v, e)
          /\ Horner(v, base) \in Nat /\ Horner(y, base) = Horner(v, base) * base + e
      BY <2>1, <3>2, NumeralFront
    <3> HIDE DEF u, d, v, e
    <3>5. Horner(u, base) = Horner(v, base) /\ d = e
      <4>1. Horner(u, base) \in Int /\ Horner(v, base) \in Int BY <3>3, <3>4
      <4>2. Horner(u, base) * base + d = Horner(v, base) * base + e BY <2>1, <3>3, <3>4
      <4> DEFINE p == Horner(u, base)
                 q == Horner(v, base)
      <4>3. p \in Int /\ q \in Int /\ p * base + d = q * base + e BY <4>1, <4>2
      <4> HIDE DEF p, q
      <4>4. p = q /\ d = e BY <3>3, <3>4, <4>3, UniqueDivision
      <4> QED BY <4>4 DEF p, q
    <3>6. u = v BY <1>2, <2>1, <3>3, <3>4, <3>5
    <3> QED BY <3>3, <3>4, <3>5, <3>6
  <2> QED BY <2>1
<1>3. T = Nat
  <2> HIDE DEF T
  <2>1. T \in SUBSET Nat BY DEF T
  <2>2. \A n \in Nat : n \in T => n + 1 \in T BY <1>2
  <2> QED BY <1>1, <2>1, <2>2, SetInduction
<1>4. Len(s) \in Nat BY DEF IsNumeral
<1>5. P(Len(s)) BY <1>3, <1>4
<1> QED BY <1>5

-----------------------------------------------------------------------------
(* What DigitsOf gives for a natural number is its numeral.                *)
LEMMA NumeralOf ==
  ASSUME NEW value \in Nat, NEW base \in Nat, base >= 2
  PROVE  /\ IsNumeral(DigitsOf(value, base), base)
         /\ Horner(DigitsOf(value, base), base) = value
<1> DEFINE Good(s, v) == IsNumeral(s, base) /\ Horner(s, base) = v
<1>1. PICK g : Digits(g, FALSE, value, base) /\ DigitsOf(value, base) = g[value]
  <2>1. PICK g : /\ Digits(g, value < 0, Distance(value), base)
                 /\ DigitsOf(value, base) = g[value]
    BY DigitsUnroll
  <2>2. ~(value < 0) /\ Distance(value) = value BY DEF Distance
  <2>3. (value < 0) = FALSE BY <2>2
  <2>4. Digits(g, FALSE, value, base) BY <2>1, <2>2, <2>3 DEF Digits, At
  <2> QED BY <2>1, <2>4
<1>2. /\ g[0] = << >>
      /\ \A m \in 1..value : g[m] = Append(g[m \div base], m % base)
  BY <1>1 DEF Digits, At
<1> DEFINE T == {n \in Nat : \A m \in 0..n : m <= value => Good(g[m], m)}
<1>3. 0 \in T
  <2>1. Good(<< >>, 0) BY HornerEmpty DEF IsNumeral
  <2> HIDE DEF Good
  <2> QED BY <1>2, <2>1
<1>4. ASSUME NEW n \in Nat, n \in T, n + 1 <= value PROVE Good(g[n + 1], n + 1)
  <2> DEFINE q == (n + 1) \div base
             r == (n + 1) % base
  <2>1. q \in 0..n
    <3>1. PICK j \in 0..n : At(FALSE, n + 1) \div base = At(FALSE, j) BY DivisionShrinks
    <3> QED BY <3>1 DEF At
  <2>2. r \in 0..(base - 1) /\ n + 1 = base * q + r /\ n + 1 \in Int BY DivisionLeaves
  <2>3. g[n + 1] = Append(g[q], r)
    <3>1. n + 1 \in 1..value BY <1>4
    <3> QED BY <1>2, <3>1
  <2> HIDE DEF q, r
  <2>4. Good(g[q], q)
    <3> HIDE DEF Good
    <3> QED BY <1>4, <2>1
  <2>5. g[q] \in Seq(Digit(base)) /\ r \in Digit(base) /\ r \in Int
    BY <2>2, <2>4 DEF Digit, IsNumeral
  <2>6. g[q] \in Seq(Int) BY <2>5, DigitsAreInts
  <2>7. Horner(Append(g[q], r), base) = q * base + r BY <2>4, <2>5, <2>6, HornerAppends
  <2>8. Append(g[q], r) \in Seq(Digit(base)) BY <2>5, AppendProperties
  <2>9. Append(g[q], r)[1] # 0
    <3>1. CASE g[q] = << >>
      <4>1. q = 0 BY <2>4, <3>1, HornerEmpty
      <4>2. r = n + 1 BY <2>1, <2>2, <4>1
      <4>3. Append(<< >>, r)[1] = r OBVIOUS
      <4> QED BY <3>1, <4>2, <4>3
    <3>2. CASE g[q] # << >>
      <4>1. Len(g[q]) \in Nat \ {0} BY <2>5, <3>2, EmptySeq
      <4>2. Append(g[q], r)[1] = g[q][1] BY <2>5, <4>1, AppendProperties
      <4> QED BY <2>4, <3>2, <4>2 DEF IsNumeral
    <3> QED BY <3>1, <3>2
  <2>10. q * base + r = n + 1 BY <2>1, <2>2
  <2> QED BY <2>3, <2>7, <2>8, <2>9, <2>10 DEF IsNumeral
<1>5. T = Nat
  <2>1. ASSUME NEW n \in Nat, n \in T PROVE n + 1 \in T
    <3>1. \A m \in 0..(n + 1) : m \in 0..n \/ m = n + 1 OBVIOUS
    <3> HIDE DEF Good
    <3> QED BY <1>4, <2>1, <3>1
  <2> HIDE DEF T
  <2>2. T \in SUBSET Nat BY DEF T
  <2> QED BY <1>3, <2>1, <2>2, SetInduction
<1>6. Good(g[value], value)
  <2> HIDE DEF Good
  <2>1. value \in T BY <1>5
  <2> QED BY <2>1
<1> QED BY <1>1, <1>6

-----------------------------------------------------------------------------
(* Zeros in front change nothing.                                          *)
LEMMA PrefixAppended ==
  ASSUME NEW S, NEW p \in Seq(S), NEW s \in Seq(S), NEW d \in S
  PROVE  p \o Append(s, d) = Append(p \o s, d)
<1>1. Append(s, d) = s \o <<d>> BY AppendIsConcat
<1>2. Append(p \o s, d) = (p \o s) \o <<d>> BY AppendIsConcat
<1>3. <<d>> \in Seq(S) OBVIOUS
<1> QED BY <1>1, <1>2, <1>3, ConcatAssociative

LEMMA HornerSkipsZeros ==
  ASSUME NEW base \in Nat, base >= 1, NEW p \in Seq(Digit(base)), \A k \in 1..Len(p) : p[k] = 0,
         NEW s \in Seq(Digit(base))
  PROVE  Horner(p \o s, base) = Horner(s, base)
<1> DEFINE P(n) == \A t \in Seq(Digit(base)) :
                     Len(t) = n /\ (\A k \in 1..n : t[k] = 0) => Horner(t, base) = 0
           T == {n \in Nat : P(n)}
<1>1. 0 \in T
  <2>1. \A t \in Seq(Digit(base)) : Len(t) = 0 => t = << >> BY EmptySeq
  <2> QED BY <2>1, HornerEmpty
<1>2. ASSUME NEW n \in Nat, n \in T PROVE n + 1 \in T
  <2>1. ASSUME NEW t \in Seq(Digit(base)), Len(t) = n + 1, \A k \in 1..(n + 1) : t[k] = 0
        PROVE  Horner(t, base) = 0
    <3>1. t # << >> BY <2>1
    <3> DEFINE u == SubSeq(t, 1, Len(t) - 1)
               d == t[Len(t)]
    <3>2. /\ u \in Seq(Digit(base)) /\ d \in Digit(base) /\ t = Append(u, d)
          /\ Len(u) = Len(t) - 1 /\ Horner(t, base) = Horner(u, base) * base + d
      BY <3>1, HornerOfFront
    <3>3. d = 0 BY <2>1
    <3> HIDE DEF u, d
    <3>4. \A k \in 1..n : u[k] = 0 BY <2>1, <3>2
    <3>5. Horner(u, base) = 0 BY <1>2, <2>1, <3>2, <3>4
    <3> QED BY <3>2, <3>3, <3>5
  <2> QED BY <2>1
<1>3. T = Nat
  <2> HIDE DEF T
  <2>1. T \in SUBSET Nat BY DEF T
  <2>2. \A n \in Nat : n \in T => n + 1 \in T BY <1>2
  <2> QED BY <1>1, <2>1, <2>2, SetInduction
<1>4. Horner(p, base) = 0
  <2>1. P(Len(p)) BY <1>3
  <2> QED BY <2>1
<1> DEFINE Q(n) == \A t \in Seq(Digit(base)) :
                     Len(t) = n => Horner(p \o t, base) = Horner(t, base)
           U == {n \in Nat : Q(n)}
<1>5. 0 \in U
  <2>1. ASSUME NEW t \in Seq(Digit(base)), Len(t) = 0 PROVE Horner(p \o t, base) = Horner(t, base)
    <3>1. t = << >> BY <2>1, EmptySeq
    <3>2. p \o << >> = p BY ConcatEmptySeq
    <3> QED BY <1>4, <3>1, <3>2, HornerEmpty
  <2> QED BY <2>1
<1>6. ASSUME NEW n \in Nat, n \in U PROVE n + 1 \in U
  <2>1. ASSUME NEW t \in Seq(Digit(base)), Len(t) = n + 1
        PROVE  Horner(p \o t, base) = Horner(t, base)
    <3>1. t # << >> BY <2>1
    <3> DEFINE u == SubSeq(t, 1, Len(t) - 1)
               d == t[Len(t)]
    <3>2. /\ u \in Seq(Digit(base)) /\ d \in Digit(base) /\ t = Append(u, d)
          /\ Len(u) = Len(t) - 1 /\ Horner(t, base) = Horner(u, base) * base + d
      BY <3>1, HornerOfFront
    <3> HIDE DEF u, d
    <3>3. p \o t = Append(p \o u, d) BY <3>2, PrefixAppended
    <3>4. p \o u \in Seq(Digit(base)) BY <3>2
    <3>5. p \o u \in Seq(Int) /\ d \in Int BY <3>2, <3>4, DigitsAreInts DEF Digit
    <3>6. Horner(p \o t, base) = Horner(p \o u, base) * base + d
      <4> DEFINE v == p \o u
      <4>1. v \in Seq(Int) /\ d \in Int /\ base \in Int BY <3>5
      <4> HIDE DEF v
      <4>2. Horner(Append(v, d), base) = Horner(v, base) * base + d BY <4>1, HornerAppends
      <4> QED BY <3>3, <4>2 DEF v
    <3>7. Horner(p \o u, base) = Horner(u, base) BY <1>6, <2>1, <3>2
    <3> QED BY <3>2, <3>6, <3>7
  <2> QED BY <2>1
<1>7. U = Nat
  <2> HIDE DEF U
  <2>1. U \in SUBSET Nat BY DEF U
  <2>2. \A n \in Nat : n \in U => n + 1 \in U BY <1>6
  <2> QED BY <1>5, <2>1, <2>2, SetInduction
<1>8. Q(Len(s)) BY <1>7
<1> QED BY <1>8

-----------------------------------------------------------------------------
(* Powers, and what a number of a given length can be.                     *)
LEMMA PowerUnfolds ==
  ASSUME NEW base \in Nat, base >= 1, NEW n \in Nat
  PROVE  /\ Power(base, 0) = 1
         /\ Power(base, n + 1) = Power(base, n) * base
         /\ Power(base, n) \in Nat /\ Power(base, n) >= 1
<1> DEFINE s(m) == [k \in 1..(m + 1) |-> IF k = 1 THEN 1 ELSE 0]
           T == {m \in Nat : Power(base, m) \in Nat /\ Power(base, m) >= 1}
<1>1. \A m \in Nat : s(m) \in Seq(Int) /\ Len(s(m)) = m + 1 OBVIOUS
<1>2. ASSUME NEW m \in Nat PROVE s(m + 1) = Append(s(m), 0)
  <2> DEFINE t == s(m)
             u == s(m + 1)
  <2>1. u \in Seq(Int) /\ Len(u) = (m + 1) + 1 /\ \A k \in 1..((m + 1) + 1) : u[k] = IF k = 1 THEN 1 ELSE 0
    BY <1>1
  <2>2. t \in Seq(Int) /\ Len(t) = m + 1 /\ \A k \in 1..(m + 1) : t[k] = IF k = 1 THEN 1 ELSE 0
    BY <1>1
  <2> HIDE DEF t, u, s
  <2>3. Append(t, 0) \in Seq(Int) /\ Len(Append(t, 0)) = m + 2
        /\ \A k \in 1..(m + 2) : Append(t, 0)[k] = IF k = 1 THEN 1 ELSE 0
    BY <2>2, AppendProperties
  <2>4. u = Append(t, 0) BY <2>1, <2>3, SeqEqual
  <2> QED BY <2>4 DEF t, u
<1>3. \A m \in Nat : Power(base, m) = Horner(s(m), base) BY DEF Power
<1>4. ASSUME NEW m \in Nat PROVE Power(base, m + 1) = Power(base, m) * base /\ Power(base, m) \in Int
  <2> DEFINE t == s(m)
  <2>1. t \in Seq(Int) /\ 0 \in Int /\ base \in Int BY <1>1
  <2>2. Power(base, m) = Horner(t, base) BY <1>3
  <2>3. Power(base, m + 1) = Horner(Append(t, 0), base)
    <3> HIDE DEF s
    <3>1. m + 1 \in Nat OBVIOUS
    <3> QED BY <1>2, <1>3, <3>1
  <2> HIDE DEF t
  <2>4. Horner(t, base) \in Int /\ Horner(Append(t, 0), base) = Horner(t, base) * base + 0
    BY <2>1, HornerAppends
  <2>5. Horner(t, base) * base \in Int BY <2>1, <2>4
  <2> QED BY <2>2, <2>3, <2>4, <2>5
<1>5. Power(base, 0) = 1
  <2>1. << >> \in Seq(Int) /\ 1 \in Int /\ base \in Int OBVIOUS
  <2>2. Horner(Append(<< >>, 1), base) = Horner(<< >>, base) * base + 1 BY <2>1, HornerAppends
  <2>3. Horner(<< >>, base) = 0 BY HornerEmpty
  <2>4. Append(<< >>, 1) = <<1>> OBVIOUS
  <2>5. s(0) = <<1>>
    <3>1. s(0) \in Seq(Int) /\ Len(s(0)) = 1 /\ s(0)[1] = 1 OBVIOUS
    <3>2. <<1>> \in Seq(Int) /\ Len(<<1>>) = 1 /\ <<1>>[1] = 1 OBVIOUS
    <3> HIDE DEF s
    <3> QED BY <3>1, <3>2, SeqEqual
  <2>6. 0 * base + 1 = 1 OBVIOUS
  <2>7. Power(base, 0) = Horner(s(0), base) BY <1>3
  <2> HIDE DEF s
  <2> QED BY <2>2, <2>3, <2>4, <2>5, <2>6, <2>7
<1>6. ASSUME NEW m \in Nat, m \in T PROVE m + 1 \in T
  <2> DEFINE p == Power(base, m)
  <2>1. p \in Nat /\ p >= 1 /\ Power(base, m + 1) = p * base BY <1>4, <1>6
  <2> HIDE DEF p
  <2>2. p * base \in Nat /\ p * base >= 1 * base BY <2>1
  <2> QED BY <2>1, <2>2
<1>7. T = Nat
  <2>1. 0 \in T BY <1>5
  <2> HIDE DEF T
  <2>2. T \in SUBSET Nat BY DEF T
  <2>3. \A m \in Nat : m \in T => m + 1 \in T BY <1>6
  <2> QED BY <2>1, <2>2, <2>3, SetInduction
<1>8. n \in T BY <1>7
<1>9. Power(base, n) \in Nat /\ Power(base, n) >= 1 BY <1>8
<1>10. Power(base, n + 1) = Power(base, n) * base BY <1>4
<1> QED BY <1>5, <1>9, <1>10

LEMMA PowersGrow ==
  ASSUME NEW base \in Nat, base >= 1, NEW n \in Nat, NEW m \in 0..n
  PROVE  Power(base, m) <= Power(base, n)
<1> DEFINE T == {k \in Nat : Power(base, m) <= Power(base, m + k)}
<1>1. \A k \in Nat : Power(base, k) \in Nat BY PowerUnfolds
<1>2. 0 \in T
  <2>1. Power(base, m) \in Nat /\ m + 0 = m BY <1>1
  <2> QED BY <2>1
<1>3. ASSUME NEW k \in Nat, k \in T PROVE k + 1 \in T
  <2> DEFINE p == Power(base, m + k)
  <2>1. m + k \in Nat /\ m + (k + 1) = (m + k) + 1 OBVIOUS
  <2>2. p \in Nat /\ Power(base, m + (k + 1)) = p * base BY <2>1, PowerUnfolds
  <2>3. Power(base, m) \in Nat /\ Power(base, m) <= p BY <1>1, <1>3
  <2> HIDE DEF p
  <2>4. p * base >= p * 1 /\ p * base \in Nat BY <2>2
  <2> QED BY <2>2, <2>3, <2>4
<1>4. T = Nat
  <2> HIDE DEF T
  <2>1. T \in SUBSET Nat BY DEF T
  <2>2. \A k \in Nat : k \in T => k + 1 \in T BY <1>3
  <2> QED BY <1>2, <2>1, <2>2, SetInduction
<1>5. n - m \in Nat /\ m + (n - m) = n OBVIOUS
<1>6. n - m \in T BY <1>4, <1>5
<1> QED BY <1>5, <1>6

LEMMA HornerBelowPower ==
  ASSUME NEW base \in Nat, base >= 1, NEW s \in Seq(Digit(base))
  PROVE  Horner(s, base) < Power(base, Len(s))
<1> DEFINE P(n) == \A t \in Seq(Digit(base)) : Len(t) = n => Horner(t, base) < Power(base, n)
           T == {n \in Nat : P(n)}
<1>1. 0 \in T
  <2>1. \A t \in Seq(Digit(base)) : Len(t) = 0 => t = << >> BY EmptySeq
  <2>2. Horner(<< >>, base) < Power(base, 0) BY HornerEmpty, PowerUnfolds
  <2> QED BY <2>1, <2>2
<1>2. ASSUME NEW n \in Nat, n \in T PROVE n + 1 \in T
  <2>1. ASSUME NEW t \in Seq(Digit(base)), Len(t) = n + 1
        PROVE  Horner(t, base) < Power(base, n + 1)
    <3>1. t # << >> BY <2>1
    <3> DEFINE u == SubSeq(t, 1, Len(t) - 1)
               d == t[Len(t)]
    <3>2. /\ u \in Seq(Digit(base)) /\ d \in Digit(base) /\ Len(u) = Len(t) - 1
          /\ Horner(t, base) = Horner(u, base) * base + d /\ Horner(u, base) \in Int
      BY <3>1, HornerOfFront
    <3> HIDE DEF u, d
    <3>3. Len(u) = n BY <2>1, <3>2
    <3> DEFINE h == Horner(u, base)
               p == Power(base, n)
    <3>4. h \in Int /\ p \in Nat /\ h < p /\ Power(base, n + 1) = p * base
          /\ Horner(t, base) = h * base + d
      BY <1>2, <3>2, <3>3, PowerUnfolds
    <3> HIDE DEF h, p
    <3>5. (h + 1) * base <= p * base BY <3>4
    <3>6. (h + 1) * base = h * base + base BY <3>4
    <3>7. d \in Int /\ d < base BY <3>2 DEF Digit
    <3>8. h * base \in Int /\ p * base \in Int BY <3>4
    <3> QED BY <3>4, <3>5, <3>6, <3>7, <3>8
  <2> QED BY <2>1
<1>3. T = Nat
  <2> HIDE DEF T
  <2>1. T \in SUBSET Nat BY DEF T
  <2>2. \A n \in Nat : n \in T => n + 1 \in T BY <1>2
  <2> QED BY <1>1, <2>1, <2>2, SetInduction
<1>4. P(Len(s)) BY <1>3
<1> QED BY <1>4

LEMMA NumeralReachesPower ==
  ASSUME NEW base \in Nat, base >= 1, NEW s, IsNumeral(s, base), s # << >>
  PROVE  Len(s) - 1 \in Nat /\ Power(base, Len(s) - 1) <= Horner(s, base)
<1> DEFINE P(n) == \A t : IsNumeral(t, base) /\ Len(t) = n + 1 => Power(base, n) <= Horner(t, base)
           T == {n \in Nat : P(n)}
<1>1. ASSUME NEW t, IsNumeral(t, base), NEW n \in Nat, Len(t) = n + 1, n # 0 => n - 1 \in T
      PROVE  Power(base, n) <= Horner(t, base)
  <2>1. t # << >> BY <1>1
  <2> DEFINE u == SubSeq(t, 1, Len(t) - 1)
             d == t[Len(t)]
  <2>2. /\ IsNumeral(u, base) /\ d \in Digit(base) /\ Len(u) = Len(t) - 1
        /\ Horner(u, base) \in Nat /\ Horner(t, base) = Horner(u, base) * base + d
        /\ u = << >> => d # 0
    BY <1>1, <2>1, NumeralFront
  <2> HIDE DEF u, d
  <2>3. Len(u) = n /\ d \in Nat BY <1>1, <2>2 DEF Digit
  <2>4. CASE n = 0
    <3>1. u = << >> BY <2>2, <2>3, <2>4, EmptySeq DEF IsNumeral
    <3>2. Horner(u, base) = 0 BY <3>1, HornerEmpty
    <3>3. Power(base, 0) = 1 BY PowerUnfolds
    <3>4. 0 * base + d = d BY <2>3
    <3> QED BY <2>2, <2>3, <2>4, <3>1, <3>2, <3>3, <3>4
  <2>5. CASE n # 0
    <3> DEFINE h == Horner(u, base)
               p == Power(base, n - 1)
    <3>1. n - 1 \in Nat /\ (n - 1) + 1 = n BY <2>5
    <3>2. p \in Nat /\ Power(base, n) = p * base BY <3>1, PowerUnfolds
    <3>3. h \in Nat /\ p <= h /\ Horner(t, base) = h * base + d BY <1>1, <2>2, <2>3, <2>5, <3>1
    <3> HIDE DEF h, p
    <3>4. p * base <= h * base /\ p * base \in Nat /\ h * base \in Nat BY <3>2, <3>3
    <3> QED BY <2>3, <3>2, <3>3, <3>4
  <2> QED BY <2>4, <2>5
<1>2. 0 \in T BY <1>1
<1>3. ASSUME NEW n \in Nat, n \in T PROVE n + 1 \in T
  <2>1. n + 1 \in Nat /\ (n + 1) - 1 = n OBVIOUS
  <2> HIDE DEF T
  <2>2. \A t : IsNumeral(t, base) /\ Len(t) = (n + 1) + 1 => Power(base, n + 1) <= Horner(t, base)
    BY <1>1, <1>3, <2>1
  <2> QED BY <2>1, <2>2 DEF T
<1>4. T = Nat
  <2> HIDE DEF T
  <2>1. T \in SUBSET Nat BY DEF T
  <2>2. \A n \in Nat : n \in T => n + 1 \in T BY <1>3
  <2> QED BY <1>2, <2>1, <2>2, SetInduction
<1>5. Len(s) \in Nat \ {0} BY EmptySeq DEF IsNumeral
<1>6. Len(s) - 1 \in Nat /\ (Len(s) - 1) + 1 = Len(s) BY <1>5
<1>7. P(Len(s) - 1) BY <1>4, <1>6
<1> QED BY <1>6, <1>7

(* A number below a power has no more digits than that.                    *)
LEMMA NumeralLength ==
  ASSUME NEW base \in Nat, base >= 1, NEW s, IsNumeral(s, base), NEW n \in Nat,
         Horner(s, base) < Power(base, n)
  PROVE  Len(s) <= n
<1> SUFFICES ASSUME Len(s) > n PROVE FALSE
  <2>1. Len(s) \in Nat BY DEF IsNumeral
  <2> QED BY <2>1
<1>1. s # << >> BY DEF IsNumeral
<1>2. Len(s) - 1 \in Nat /\ Power(base, Len(s) - 1) <= Horner(s, base)
  BY <1>1, NumeralReachesPower
<1>3. n \in 0..(Len(s) - 1) BY <1>2
<1> DEFINE m == Len(s) - 1
<1>4. m \in Nat /\ n \in 0..m BY <1>2, <1>3
<1> HIDE DEF m
<1>5. Power(base, n) <= Power(base, m) BY <1>4, PowersGrow
<1>6. Power(base, n) \in Nat /\ Power(base, m) \in Nat BY <1>4, PowerUnfolds
<1>7. Horner(s, base) \in Nat BY HornerIsNatural DEF IsNumeral
<1> QED BY <1>2, <1>5, <1>6, <1>7 DEF m
-----------------------------------------------------------------------------
MediaRange == [media : Media, parameters : Seq(Parameter)]

LEMMA RangeFields ==
  ASSUME NEW r \in MediaRange
  PROVE  /\ r.media \in Media /\ r.parameters \in Seq(Parameter)
         /\ Len(r.parameters) \in Nat
         /\ \A k \in 1..Len(r.parameters) :
              /\ r.parameters[k] \in Parameter
              /\ r.parameters[k].number \in Int /\ r.parameters[k].finite \in BOOLEAN
<1>1. r.media \in Media /\ r.parameters \in Seq(Parameter) BY DEF MediaRange
<1>2. Len(r.parameters) \in Nat BY <1>1
<1>3. \A k \in 1..Len(r.parameters) : r.parameters[k] \in Parameter BY <1>1
<1>4. \A p \in Parameter : p.number \in Int /\ p.finite \in BOOLEAN BY DEF Parameter
<1> QED BY <1>1, <1>2, <1>3, <1>4

(* A range has one place that its first q, or its end, can be.             *)
LEMMA CutIsUnique ==
  ASSUME NEW r \in MediaRange, NEW k \in 1..(Len(r.parameters) + 1), IsCut(r, k)
  PROVE  Cut(r) = k
<1>1. Len(r.parameters) \in Nat BY RangeFields
<1>2. ASSUME NEW j \in 1..(Len(r.parameters) + 1), IsCut(r, j), j < k PROVE FALSE
  <2>1. j \in 1..(k - 1) /\ j <= Len(r.parameters) BY <1>1, <1>2
  <2> QED BY <1>2, <2>1 DEF IsCut, NoQ
<1>3. ASSUME NEW j \in 1..(Len(r.parameters) + 1), IsCut(r, j), k < j PROVE FALSE
  <2>1. k \in 1..(j - 1) /\ k <= Len(r.parameters) BY <1>1, <1>3
  <2> QED BY <1>3, <2>1 DEF IsCut, NoQ
<1>4. \A j \in 1..(Len(r.parameters) + 1) : IsCut(r, j) => j = k
  <2> SUFFICES ASSUME NEW j \in 1..(Len(r.parameters) + 1), IsCut(r, j) PROVE j = k
    OBVIOUS
  <2>1. j \in Int /\ k \in Int BY <1>1
  <2>2. ~(j < k) /\ ~(k < j) BY <1>2, <1>3
  <2> QED BY <2>1, <2>2
<1> QED BY <1>4 DEF Cut

LEMMA ConcretenessOf ==
  /\ Concreteness("exact") = 3 /\ Concreteness("application") = 2
  /\ Concreteness("any") = 1 /\ Concreteness("other") = 0
  /\ \A m \in Media : Concreteness(m) \in 0..3
BY DEF Concreteness, Media

-----------------------------------------------------------------------------
(* Better is a strict order on ranks, in which what is not better than a   *)
(* rank is not better than what is better than it.                         *)
Ranks == [concreteness : 0..3, parameters : Nat, quality : Int]

LEMMA BetterIsAnOrder ==
  ASSUME NEW a \in Ranks, NEW b \in Ranks, NEW c \in Ranks
  PROVE  /\ ~Better(a, a)
         /\ Better(a, b) /\ ~Better(c, b) => ~Better(c, a)
<1>1. \A x \in Ranks : x.concreteness \in Int /\ x.parameters \in Int /\ x.quality \in Int
  BY DEF Ranks
<1> QED BY <1>1 DEF Better

LEMMA RankType ==
  ASSUME NEW r \in MediaRange, Cut(r) \in 1..(Len(r.parameters) + 1), Fallback \in Int
  PROVE  Rank(r) \in Ranks
<1>1. Cut(r) - 1 \in Nat /\ Cut(r) \in Int /\ Len(r.parameters) \in Nat BY RangeFields
<1>2. Weight(r) \in Int
  <2>1. CASE Cut(r) <= Len(r.parameters)
    <3>1. Cut(r) \in 1..Len(r.parameters) BY <1>1, <2>1
    <3>2. r.parameters[Cut(r)].number \in Int BY <3>1, RangeFields
    <3> QED BY <3>2 DEF Weight
  <2>2. CASE ~(Cut(r) <= Len(r.parameters)) BY <2>2 DEF Weight
  <2> QED BY <2>1, <2>2
<1>3. Concreteness(r.media) \in 0..3 BY ConcretenessOf, RangeFields
<1> QED BY <1>1, <1>2, <1>3 DEF Rank, Ranks

-----------------------------------------------------------------------------
LEMMA HereFields ==
  ASSUME AcceptTypeOK, entry <= Len(header)
  PROVE  /\ entry \in 1..Len(header) /\ Here \in MediaRange
         /\ Len(Here.parameters) \in Nat /\ Here.media \in Media
<1>1. header \in Seq(MediaRange) /\ entry \in 1..(Len(header) + 1) BY DEF AcceptTypeOK, MediaRange
<1>2. Len(header) \in Nat BY <1>1
<1>3. entry \in 1..Len(header) BY <1>1, <1>2
<1>4. header[entry] \in MediaRange BY <1>1, <1>3
<1> QED BY <1>3, <1>4, RangeFields DEF Here

(* The next range starts from nothing.                                     *)
LEMMA FreshRange ==
  ASSUME AcceptTypeOK, entry <= Len(header), Continues, header' = header
  PROVE  RangeSoFar'
<1>1. header \in Seq(MediaRange) BY DEF AcceptTypeOK, MediaRange
<1>2. entry \in Int /\ entry >= 1 /\ Len(header) \in Nat BY <1>1 DEF AcceptTypeOK
<1> SUFFICES ASSUME entry + 1 <= Len(header)
             PROVE  /\ read' <= Len(header[entry + 1].parameters)
                    /\ header[entry + 1].media = "other" => read' = 0
                    /\ ~seenQuality' => matched' = read' /\ quality' = Fallback
                    /\ read' = 0 /\ ~seenQuality'
  BY DEF RangeSoFar, Continues, Here
<1>3. entry + 1 \in 1..Len(header) BY <1>2
<1>4. header[entry + 1] \in MediaRange BY <1>1, <1>3
<1>5. Len(header[entry + 1].parameters) \in Nat BY <1>4, RangeFields
<1> QED BY <1>5 DEF Continues

(* A range that is left behind without competing must not match.           *)
LEMMA LeftBehind ==
  ASSUME AcceptTypeOK, BestSoFar, entry <= Len(header), Continues, header' = header,
         best' = best, ~Matches(Here)
  PROVE  BestSoFar'
<1>1. entry \in Int /\ entry >= 1 BY DEF AcceptTypeOK
<1>2. 1..(entry' - 1) = 1..entry /\ 1..entry = (1..(entry - 1)) \cup {entry}
  BY <1>1 DEF Continues
<1>3. ~Matches(header[entry]) BY DEF Here
<1>4. \A j \in 1..entry : Matches(header[j]) => j \in 1..(entry - 1) BY <1>1, <1>3
<1>5. \A i \in 1..(entry - 1) : i \in 1..entry BY <1>1
<1> QED BY <1>2, <1>4, <1>5 DEF BestSoFar

LEMMA SkippedDoesNotMatch ==
  ASSUME AcceptInv, SkipsRange
  PROVE  ~Matches(Here)
<1>1. AcceptTypeOK /\ RangeSoFar /\ entry <= Len(header) BY DEF AcceptInv, SkipsRange, Negotiating
<1>2. Here \in MediaRange /\ Here.media \in Media /\ Len(Here.parameters) \in Nat
  BY <1>1, HereFields
<1>3. CASE Concreteness(Here.media) = 0
  <2>1. Here.media = "other" BY <1>2, <1>3, ConcretenessOf DEF Media
  <2> QED BY <2>1 DEF Matches
<1>4. CASE /\ read < Len(Here.parameters) /\ ~seenQuality
           /\ Here.parameters[read + 1].name # "q"
           /\ ~mediaParameterSatisfied(Here.parameters[read + 1])
  <2>1. read \in Nat BY <1>1 DEF AcceptTypeOK
  <2>2. read + 1 \in 1..Len(Here.parameters) BY <1>2, <1>4, <2>1
  <2>3. \A k \in 1..read : Here.parameters[k].name # "q"
    BY <1>1, <1>4 DEF RangeSoFar, Satisfied
  <2>4. NoQ(Here, read + 1)
    <3>1. \A k \in 1..(read + 1) : k \in 1..read \/ k = read + 1 BY <2>1
    <3> QED BY <1>4, <2>3, <3>1 DEF NoQ
  <2>5. ~Satisfied(Here, read + 1) BY <1>4 DEF Satisfied, mediaParameterSatisfied
  <2> QED BY <2>2, <2>4, <2>5 DEF Matches
<1> QED BY <1>3, <1>4 DEF SkipsRange

(* The range that competes matches, and is ranked by what was read of it.  *)
LEMMA EndedRange ==
  ASSUME AcceptInv, EndsRange
  PROVE  /\ Matches(Here) /\ Cut(Here) \in 1..(Len(Here.parameters) + 1)
         /\ IsCut(Here, Cut(Here))
         /\ Rank(Here) = [concreteness |-> Concreteness(Here.media),
                          parameters |-> matched, quality |-> quality]
<1>1. AcceptTypeOK /\ RangeSoFar /\ entry <= Len(header) BY DEF AcceptInv, EndsRange, Negotiating
<1>2. Here \in MediaRange /\ Here.media \in Media /\ Len(Here.parameters) \in Nat
  BY <1>1, HereFields
<1>3. read = Len(Here.parameters) /\ Here.media # "other" BY ConcretenessOf DEF EndsRange
<1>4. CASE ~seenQuality
  <2>1. \A k \in 1..read : Satisfied(Here, k) BY <1>1, <1>4 DEF RangeSoFar
  <2>2. matched = read /\ quality = Fallback BY <1>1, <1>4 DEF RangeSoFar
  <2>3. Matches(Here) BY <1>3, <2>1 DEF Matches
  <2>4. IsCut(Here, read + 1)
    <3>1. (read + 1) - 1 = read BY <1>2, <1>3
    <3>2. ~(read + 1 <= Len(Here.parameters)) BY <1>2, <1>3
    <3> QED BY <2>1, <3>1, <3>2 DEF IsCut, NoQ, Satisfied
  <2>5. read + 1 \in 1..(Len(Here.parameters) + 1) BY <1>2, <1>3
  <2>6. Cut(Here) = read + 1 BY <1>2, <2>4, <2>5, CutIsUnique
  <2>7. Weight(Here) = quality BY <1>2, <1>3, <2>2, <2>6 DEF Weight
  <2>8. Cut(Here) - 1 = matched BY <1>2, <1>3, <2>2, <2>6
  <2> QED BY <2>3, <2>4, <2>5, <2>6, <2>7, <2>8 DEF Rank
<1>5. CASE seenQuality
  <2>1. PICK q \in 1..read :
          /\ Here.parameters[q].name = "q" /\ matched = q - 1
          /\ \A k \in 1..(q - 1) : Satisfied(Here, k)
          /\ quality = IF Here.parameters[q].finite THEN Here.parameters[q].number ELSE Fallback
    BY <1>1, <1>5 DEF RangeSoFar
  <2>2. q \in 1..(Len(Here.parameters) + 1) /\ q \in 1..Len(Here.parameters) /\ q \in Int
    BY <1>2, <1>3
  <2>3. IsCut(Here, q) BY <2>1 DEF IsCut, NoQ, Satisfied
  <2>4. Cut(Here) = q BY <1>2, <2>2, <2>3, CutIsUnique
  <2>5. Matches(Here)
    <3>1. ASSUME NEW k \in 1..Len(Here.parameters), NoQ(Here, k) PROVE k \in 1..(q - 1)
      <4>1. ~(q \in 1..k) BY <2>1, <3>1 DEF NoQ
      <4> QED BY <1>2, <2>2, <4>1
    <3> QED BY <1>3, <2>1, <3>1 DEF Matches
  <2>6. Weight(Here) = quality BY <1>2, <2>1, <2>2, <2>4 DEF Weight
  <2> QED BY <2>1, <2>2, <2>3, <2>4, <2>5, <2>6 DEF Rank
<1> QED BY <1>4, <1>5

-----------------------------------------------------------------------------
LEMMA StartAccept ==
  ASSUME header \in Seq(MediaRange), AcceptStart
  PROVE  AcceptInv
<1>1. header \in Seq(MediaRange) /\ Fallback \in Int BY AcceptAssumption
<1>2. Len(header) \in Nat BY <1>1
<1>3. AcceptTypeOK
  <2>1. entry \in 1..(Len(header) + 1) BY <1>2 DEF AcceptStart
  <2>2. best \in [concreteness : 0..3, parameters : Nat, quality : Int]
    BY DEF AcceptStart, Nothing
  <2> QED BY <1>1, <2>1, <2>2 DEF AcceptStart, AcceptTypeOK, MediaRange
<1>4. RangeSoFar
  <2>1. CASE entry <= Len(header)
    <3>1. Len(Here.parameters) \in Nat BY <1>3, <2>1, HereFields
    <3> QED BY <3>1 DEF RangeSoFar, AcceptStart
  <2> QED BY <2>1 DEF RangeSoFar
<1>5. BestSoFar BY DEF BestSoFar, AcceptStart
<1> QED BY <1>3, <1>4, <1>5 DEF AcceptInv, AcceptStart

(* A step of the parameter loop leaves the ranges before this one alone.   *)
LEMMA ParameterKeepsBest ==
  ASSUME AcceptInv, NEW p, NextParameter(p)
  PROVE  /\ BestSoFar' /\ verdict' = "none" /\ entry' <= Len(header')
         /\ Here' = Here /\ p = Here.parameters[read + 1] /\ read' = read + 1
         /\ read \in Nat /\ read' \in Nat /\ read' <= Len(Here.parameters)
         /\ Here.media # "other" /\ p \in Parameter
<1>1. AcceptTypeOK /\ BestSoFar /\ entry <= Len(header)
  BY DEF AcceptInv, NextParameter, Negotiating
<1>2. Here \in MediaRange /\ Len(Here.parameters) \in Nat BY <1>1, HereFields
<1>3. header' = header /\ entry' = entry /\ best' = best /\ verdict' = verdict
  BY DEF NextParameter
<1>4. BestSoFar' BY <1>1, <1>3 DEF BestSoFar
<1>5. read \in Nat /\ read < Len(Here.parameters) BY <1>1 DEF AcceptTypeOK, NextParameter
<1>6. read + 1 \in 1..Len(Here.parameters) BY <1>2, <1>5
<1>7. p \in Parameter BY <1>2, <1>6, RangeFields DEF NextParameter
<1>8. Here.media # "other" BY ConcretenessOf DEF NextParameter
<1> QED BY <1>1, <1>2, <1>3, <1>4, <1>5, <1>7, <1>8 DEF NextParameter, Negotiating, Here

LEMMA QualityStep ==
  ASSUME AcceptInv, NEW p, ReadsQuality(p)
  PROVE  AcceptInv'
<1>1. NextParameter(p) /\ ~seenQuality /\ p.name = "q" BY DEF ReadsQuality
<1>2. /\ BestSoFar' /\ verdict' = "none" /\ entry' <= Len(header')
      /\ Here' = Here /\ p = Here.parameters[read + 1] /\ read' = read + 1
      /\ read \in Nat /\ read' \in Nat /\ read' <= Len(Here.parameters)
      /\ Here.media # "other" /\ p \in Parameter
  BY <1>1, ParameterKeepsBest
<1>3. AcceptTypeOK /\ RangeSoFar /\ entry <= Len(header)
  BY <1>1 DEF AcceptInv, NextParameter, Negotiating
<1>4. matched = read /\ quality = Fallback /\ \A k \in 1..read : Satisfied(Here, k)
  BY <1>1, <1>3 DEF RangeSoFar
<1>5. /\ seenQuality' = TRUE /\ matched' = matched
      /\ quality' = IF p.finite THEN p.number ELSE Fallback
  BY <1>4 DEF ReadsQuality
<1>6. p.finite \in BOOLEAN /\ p.number \in Int BY <1>2 DEF Parameter
<1>7. AcceptTypeOK'
  BY <1>1, <1>2, <1>3, <1>5, <1>6, AcceptAssumption DEF AcceptTypeOK, NextParameter
<1>8. RangeSoFar'
  <2>1. read + 1 \in 1..read' /\ (read + 1) - 1 = read BY <1>2
  <2>2. \A k \in 1..((read + 1) - 1) : Satisfied(Here', k) BY <1>2, <1>4, <2>1
  <2> QED BY <1>1, <1>2, <1>4, <1>5, <2>1, <2>2 DEF RangeSoFar
<1> QED BY <1>2, <1>7, <1>8 DEF AcceptInv

LEMMA ExtensionStep ==
  ASSUME AcceptInv, NEW p, ReadsExtension(p)
  PROVE  AcceptInv'
<1>1. NextParameter(p) /\ seenQuality BY DEF ReadsExtension
<1>2. /\ BestSoFar' /\ verdict' = "none" /\ entry' <= Len(header')
      /\ Here' = Here /\ read' = read + 1
      /\ read \in Nat /\ read' \in Nat /\ read' <= Len(Here.parameters)
      /\ Here.media # "other"
  BY <1>1, ParameterKeepsBest
<1>3. AcceptTypeOK /\ RangeSoFar /\ entry <= Len(header)
  BY <1>1 DEF AcceptInv, NextParameter, Negotiating
<1>4. AcceptTypeOK' BY <1>1, <1>2, <1>3 DEF AcceptTypeOK, NextParameter, ReadsExtension
<1>5. RangeSoFar'
  <2>1. PICK q \in 1..read :
          /\ Here.parameters[q].name = "q" /\ matched = q - 1
          /\ \A k \in 1..(q - 1) : Satisfied(Here, k)
          /\ quality = IF Here.parameters[q].finite THEN Here.parameters[q].number ELSE Fallback
    BY <1>1, <1>3 DEF RangeSoFar
  <2>2. q \in 1..read' BY <1>2
  <2>3. matched' = matched /\ quality' = quality /\ seenQuality' = seenQuality BY DEF ReadsExtension
  <2> QED BY <1>1, <1>2, <2>1, <2>2, <2>3 DEF RangeSoFar
<1> QED BY <1>2, <1>4, <1>5 DEF AcceptInv

LEMMA SatisfiedStep ==
  ASSUME AcceptInv, NEW p, ReadsSatisfied(p)
  PROVE  AcceptInv'
<1>1. NextParameter(p) /\ ~seenQuality /\ mediaParameterSatisfied(p) BY DEF ReadsSatisfied
<1>2. /\ BestSoFar' /\ verdict' = "none" /\ entry' <= Len(header')
      /\ Here' = Here /\ p = Here.parameters[read + 1] /\ read' = read + 1
      /\ read \in Nat /\ read' \in Nat /\ read' <= Len(Here.parameters)
      /\ Here.media # "other"
  BY <1>1, ParameterKeepsBest
<1>3. AcceptTypeOK /\ RangeSoFar /\ entry <= Len(header)
  BY <1>1 DEF AcceptInv, NextParameter, Negotiating
<1>4. AcceptTypeOK' BY <1>1, <1>2, <1>3 DEF AcceptTypeOK, NextParameter, ReadsSatisfied
<1>5. RangeSoFar'
  <2>1. matched = read /\ quality = Fallback /\ \A k \in 1..read : Satisfied(Here, k)
    BY <1>1, <1>3 DEF RangeSoFar
  <2>2. Satisfied(Here, read + 1) BY <1>1, <1>2 DEF Satisfied, mediaParameterSatisfied
  <2>3. \A k \in 1..read' : k \in 1..read \/ k = read + 1 BY <1>2
  <2>4. matched' = read' /\ quality' = quality /\ seenQuality' = seenQuality
    BY <1>2, <2>1 DEF ReadsSatisfied
  <2> QED BY <1>1, <1>2, <2>1, <2>2, <2>3, <2>4 DEF RangeSoFar
<1> QED BY <1>2, <1>4, <1>5 DEF AcceptInv

LEMMA SkipStep == AcceptInv /\ SkipsRange => AcceptInv'
<1> SUFFICES ASSUME AcceptInv, SkipsRange PROVE AcceptInv' OBVIOUS
<1>1. /\ AcceptTypeOK /\ BestSoFar /\ entry <= Len(header) /\ verdict = "none"
      /\ Continues /\ header' = header /\ best' = best /\ verdict' = verdict
  BY DEF AcceptInv, SkipsRange, Negotiating
<1>2. BestSoFar' BY <1>1, LeftBehind, SkippedDoesNotMatch
<1>3. RangeSoFar' BY <1>1, FreshRange
<1>4. entry \in 1..Len(header) /\ Len(header) \in Nat BY <1>1, HereFields DEF AcceptTypeOK
<1>5. entry + 1 \in 1..(Len(header) + 1) BY <1>4
<1>6. AcceptTypeOK' BY <1>1, <1>5, AcceptAssumption DEF AcceptTypeOK, Continues
<1> QED BY <1>1, <1>2, <1>3, <1>6 DEF AcceptInv

LEMMA EndStep == AcceptInv /\ EndsRange => AcceptInv'
<1> SUFFICES ASSUME AcceptInv, EndsRange PROVE AcceptInv' OBVIOUS
<1> DEFINE this == [concreteness |-> Concreteness(Here.media),
                    parameters |-> matched, quality |-> quality]
<1>1. /\ AcceptTypeOK /\ BestSoFar /\ entry <= Len(header) /\ verdict = "none"
      /\ Continues /\ header' = header /\ verdict' = verdict
      /\ best' = IF Better(this, best) THEN this ELSE best
  BY DEF AcceptInv, EndsRange, Negotiating
<1>2. Matches(Here) /\ Cut(Here) \in 1..(Len(Here.parameters) + 1) /\ IsCut(Here, Cut(Here))
      /\ Rank(Here) = this
  BY EndedRange
<1>3. header \in Seq(MediaRange) /\ Here \in MediaRange /\ Here = header[entry]
      /\ entry \in 1..Len(header) /\ Len(header) \in Nat /\ Here.media \in Media
  BY <1>1, HereFields DEF AcceptTypeOK, MediaRange, Here
<1>4. this \in Ranks BY <1>2, <1>3, RankType, AcceptAssumption
<1>5. best \in Ranks BY <1>1 DEF AcceptTypeOK, Ranks
<1>6. this.concreteness > 0
  <2>1. Concreteness(Here.media) > 0 BY DEF EndsRange
  <2> QED BY <2>1
<1> HIDE DEF this
<1>7. entry \in Int /\ entry >= 1 /\ 1..(entry' - 1) = 1..entry BY <1>1, <1>3 DEF Continues
<1>8. \A j \in 1..entry : j \in 1..(entry - 1) \/ j = entry BY <1>7
<1>9. \A j \in 1..(entry - 1) : j \in 1..entry BY <1>7
<1>10. entry \in 1..entry BY <1>7
<1>11. ASSUME NEW j \in 1..entry, Matches(header[j])
       PROVE  /\ Cut(header[j]) \in 1..(Len(header[j].parameters) + 1)
              /\ IsCut(header[j], Cut(header[j]))
              /\ ~Better(Rank(header[j]), best')
  <2>1. CASE j = entry
    <3>1. ~Better(this, best') BY <1>1, <1>4, <1>5, BetterIsAnOrder
    <3> QED BY <1>2, <1>3, <2>1, <3>1
  <2>2. CASE j \in 1..(entry - 1)
    <3>1. /\ Cut(header[j]) \in 1..(Len(header[j].parameters) + 1)
          /\ IsCut(header[j], Cut(header[j])) /\ ~Better(Rank(header[j]), best)
      BY <1>1, <1>11, <2>2 DEF BestSoFar
    <3>2. j \in 1..Len(header) BY <1>3, <1>7
    <3>3. header[j] \in MediaRange BY <1>3, <3>2
    <3>4. Rank(header[j]) \in Ranks BY <3>1, <3>3, RankType, AcceptAssumption
    <3>5. ~Better(Rank(header[j]), best') BY <1>1, <1>4, <1>5, <3>1, <3>4, BetterIsAnOrder
    <3> QED BY <3>1, <3>5
  <2> QED BY <1>8, <2>1, <2>2
<1>12. \E i \in 1..entry : Matches(header[i]) /\ best' = Rank(header[i])
  <2>1. CASE Better(this, best) BY <1>1, <1>2, <1>3, <1>10, <2>1
  <2>2. CASE ~Better(this, best)
    <3>1. best' = best BY <1>1, <2>2
    <3>2. best # Nothing
      <4>1. this.concreteness \in Int BY <1>4 DEF Ranks
      <4>2. Better(this, Nothing) BY <1>6, <4>1 DEF Better, Nothing
      <4> QED BY <2>2, <4>2
    <3>3. \E i \in 1..(entry - 1) : Matches(header[i]) /\ best = Rank(header[i])
      BY <1>1, <3>2 DEF BestSoFar
    <3> QED BY <1>9, <3>1, <3>3
  <2> QED BY <2>1, <2>2
<1>13. BestSoFar' BY <1>1, <1>7, <1>11, <1>12 DEF BestSoFar
<1>14. RangeSoFar' BY <1>1, FreshRange
<1>15. entry + 1 \in 1..(Len(header) + 1) BY <1>3
<1>16. best' \in Ranks BY <1>1, <1>4, <1>5
<1>17. AcceptTypeOK' BY <1>1, <1>15, <1>16, AcceptAssumption DEF AcceptTypeOK, Continues, Ranks
<1> QED BY <1>1, <1>13, <1>14, <1>17 DEF AcceptInv

LEMMA DecideStep == AcceptInv /\ Decides => AcceptInv'
<1> SUFFICES ASSUME AcceptInv, Decides PROVE AcceptInv' OBVIOUS
<1>1. AcceptTypeOK /\ RangeSoFar /\ BestSoFar BY DEF AcceptInv
<1>2. /\ header' = header /\ entry' = entry /\ read' = read /\ matched' = matched
      /\ quality' = quality /\ seenQuality' = seenQuality /\ best' = best
  BY DEF Decides, range
<1>3. verdict' = IF header = << >> \/ best.quality > 0 THEN "produced" ELSE "refused"
  BY DEF Decides
<1>4. AcceptTypeOK'
  <2>1. verdict' \in {"none", "produced", "refused"} BY <1>3
  <2> QED BY <1>1, <1>2, <2>1 DEF AcceptTypeOK
<1>5. RangeSoFar' BY <1>1, <1>2 DEF RangeSoFar, Here
<1>6. BestSoFar' BY <1>1, <1>2 DEF BestSoFar
<1>7. entry = Len(header) + 1
  <2>1. Len(header) \in Nat /\ entry \in 1..(Len(header) + 1) BY <1>1 DEF AcceptTypeOK
  <2> QED BY <2>1 DEF Decides
<1> QED BY <1>2, <1>3, <1>4, <1>5, <1>6, <1>7 DEF AcceptInv

LEMMA NegotiationStep == AcceptInv /\ [AcceptNext]_acceptVars => AcceptInv'
<1> SUFFICES ASSUME AcceptInv, [AcceptNext]_acceptVars PROVE AcceptInv' OBVIOUS
<1>1. CASE SkipsRange BY <1>1, SkipStep
<1>2. CASE Reads
  <2>1. PICK p : ReadsQuality(p) \/ ReadsExtension(p) \/ ReadsSatisfied(p) BY <1>2 DEF Reads
  <2> QED BY <2>1, QualityStep, ExtensionStep, SatisfiedStep
<1>3. CASE EndsRange BY <1>3, EndStep
<1>4. CASE Decides BY <1>4, DecideStep
<1>5. CASE UNCHANGED acceptVars
  BY <1>5 DEF AcceptInv, AcceptTypeOK, RangeSoFar, BestSoFar, Here, acceptVars, range
<1> QED BY <1>1, <1>2, <1>3, <1>4, <1>5 DEF AcceptNext

(* What the loops know of the header holds at every step of them, whatever *)
(* the header: the best range so far is the most specific one that was     *)
(* read and matches.                                                       *)
THEOREM NegotiationInvariant == AcceptSpec => []AcceptInv
<1>1. AcceptInit => AcceptInv
  BY StartAccept, AcceptAssumption DEF AcceptInit, MediaRange
<1> QED BY <1>1, NegotiationStep, PTL DEF AcceptSpec

-----------------------------------------------------------------------------
(* A narrower range ranks better, and of two ranges the one that ranks     *)
(* better by more than its quality is narrower.                            *)
LEMMA NarrowerRanksBetter ==
  ASSUME NEW r \in MediaRange, NEW s \in MediaRange, Matches(r), Matches(s),
         Cut(r) \in 1..(Len(r.parameters) + 1), Cut(s) \in 1..(Len(s.parameters) + 1)
  PROVE  /\ Narrower(r, s) => Better(Rank(r), Rank(s))
         /\ ~Narrower(r, s) /\ ~Better(Rank(s), Rank(r)) =>
              ~(Weight(s) > Weight(r))
<1>1. r.media \in {"exact", "application", "any"} /\ s.media \in {"exact", "application", "any"}
  BY RangeFields DEF Matches, Media
<1>2. Cut(r) \in Int /\ Cut(s) \in Int BY RangeFields
<1>3. /\ Concreteness(r.media) > Concreteness(s.media) <=> s.media \in Wider(r.media)
      /\ Concreteness(r.media) = Concreteness(s.media) <=> r.media = s.media
      /\ Concreteness(r.media) \in Int /\ Concreteness(s.media) \in Int
  BY <1>1, ConcretenessOf DEF Wider
<1>4. /\ Rank(r).concreteness = Concreteness(r.media) /\ Rank(r).parameters = Cut(r) - 1
      /\ Rank(s).concreteness = Concreteness(s.media) /\ Rank(s).parameters = Cut(s) - 1
      /\ Rank(r).quality = Weight(r) /\ Rank(s).quality = Weight(s)
  BY DEF Rank
<1>5. Narrower(r, s) => Better(Rank(r), Rank(s))
  BY <1>2, <1>3, <1>4 DEF Narrower, Better
<1>6. ASSUME ~Narrower(r, s), ~Better(Rank(s), Rank(r)) PROVE ~(Weight(s) > Weight(r))
  <2>1. Concreteness(r.media) = Concreteness(s.media) BY <1>3, <1>4, <1>6 DEF Narrower, Better
  <2>2. Cut(r) = Cut(s) BY <1>2, <1>3, <1>4, <1>6, <2>1 DEF Narrower, Better
  <2> QED BY <1>2, <1>4, <1>6, <2>1, <2>2 DEF Better
<1> QED BY <1>5, <1>6

LEMMA InvariantDecides == AcceptInv => NegotiationIsRight
<1> SUFFICES ASSUME AcceptInv, verdict # "none"
             PROVE  verdict = "produced" <=> Acceptable(header)
  BY DEF NegotiationIsRight
<1>1. /\ AcceptTypeOK /\ BestSoFar
      /\ verdict = "produced" <=> header = << >> \/ best.quality > 0
  BY DEF AcceptInv
<1>2. header \in Seq(MediaRange) BY <1>1 DEF AcceptTypeOK, MediaRange
<1>3. Len(header) \in Nat /\ entry = Len(header) + 1 BY <1>2 DEF AcceptInv
<1>4. entry - 1 = Len(header) BY <1>3
<1>5. \A j \in 1..Len(header) : header[j] \in MediaRange BY <1>2
<1>6. \A j \in 1..Len(header) : Matches(header[j]) =>
        /\ Cut(header[j]) \in 1..(Len(header[j].parameters) + 1)
        /\ ~Better(Rank(header[j]), best)
  BY <1>1, <1>4 DEF BestSoFar
<1>7. CASE best = Nothing /\ \A j \in 1..Len(header) : ~Matches(header[j])
  BY <1>1, <1>7 DEF Acceptable, Nothing
<1>8. CASE \E i \in 1..Len(header) : Matches(header[i]) /\ best = Rank(header[i])
  <2>1. PICK i \in 1..Len(header) : Matches(header[i]) /\ best = Rank(header[i]) BY <1>8
  <2>2. best.quality = Weight(header[i]) BY <2>1 DEF Rank
  <2>3. ASSUME best.quality > 0 PROVE Acceptable(header)
    <3>1. \A j \in 1..Len(header) : Matches(header[j]) => ~Narrower(header[j], header[i])
      BY <1>5, <1>6, <2>1, NarrowerRanksBetter
    <3> QED BY <2>1, <2>2, <2>3, <3>1 DEF Acceptable
  <2>4. ASSUME Acceptable(header), header # << >> PROVE best.quality > 0
    <3>1. PICK k \in 1..Len(header) :
            /\ Matches(header[k]) /\ Weight(header[k]) > 0
            /\ \A j \in 1..Len(header) : Matches(header[j]) => ~Narrower(header[j], header[k])
      BY <2>4 DEF Acceptable
    <3>2. ~Narrower(header[i], header[k]) /\ ~Better(Rank(header[k]), Rank(header[i]))
      BY <1>6, <2>1, <3>1
    <3>3. ~(Weight(header[k]) > Weight(header[i]))
      BY <1>5, <1>6, <2>1, <3>1, <3>2, NarrowerRanksBetter
    <3>4. Weight(header[k]) \in Int /\ Weight(header[i]) \in Int
      BY <1>5, <1>6, <2>1, <3>1, RankType, AcceptAssumption DEF Rank, Ranks
    <3> QED BY <2>2, <3>1, <3>3, <3>4
  <2> QED BY <1>1, <2>3, <2>4 DEF Acceptable
<1> QED BY <1>1, <1>4, <1>7, <1>8 DEF BestSoFar

(* The verdict on a header is that of RFC 9110: one of the most specific   *)
(* ranges that match has a quality above zero; whatever the header's       *)
(* length, the order of its ranges and the order of their parameters.      *)
THEOREM NegotiationIsCorrect == AcceptSpec => []NegotiationIsRight
BY NegotiationInvariant, InvariantDecides, PTL

-----------------------------------------------------------------------------
(* A string of digits is its leading zeros and a numeral.                  *)
LEMMA ZerosAre ==
  ASSUME NEW base \in Nat, base >= 1, NEW n \in Nat
  PROVE  /\ Zeros(n) \in Seq(Digit(base)) /\ Len(Zeros(n)) = n
         /\ \A k \in 1..n : Zeros(n)[k] = 0
<1>1. 0 \in Digit(base) BY DEF Digit
<1> QED BY <1>1 DEF Zeros

LEMMA PaddingUnique ==
  ASSUME NEW base \in Nat, base >= 1, NEW n \in Nat, NEW u, IsNumeral(u, base)
  PROVE  Padding(Zeros(n) \o u) = n
<1> DEFINE z == Zeros(n)
           s == z \o u
<1>1. z \in Seq(Digit(base)) /\ Len(z) = n /\ \A k \in 1..n : z[k] = 0 BY ZerosAre
<1>2. u \in Seq(Digit(base)) /\ Len(u) \in Nat BY DEF IsNumeral
<1> HIDE DEF z
<1>3. /\ s \in Seq(Digit(base)) /\ Len(s) = n + Len(u)
      /\ \A k \in 1..n : s[k] = 0
      /\ Len(u) # 0 => s[n + 1] = u[1]
  <2>1. \A k \in 1..(n + Len(u)) : s[k] = IF k <= n THEN z[k] ELSE u[k - n]
    BY <1>1, <1>2, ConcatProperties
  <2>2. \A k \in 1..n : k \in 1..(n + Len(u)) /\ k <= n BY <1>2
  <2>3. Len(u) # 0 => n + 1 \in 1..(n + Len(u)) /\ ~(n + 1 <= n) /\ (n + 1) - n = 1 BY <1>2
  <2>4. \A k \in 1..n : s[k] = 0 BY <1>1, <2>1, <2>2
  <2>5. Len(u) # 0 => s[n + 1] = u[1] BY <2>1, <2>3
  <2>6. s \in Seq(Digit(base)) /\ Len(s) = n + Len(u) BY <1>1, <1>2, ConcatProperties
  <2> QED BY <2>4, <2>5, <2>6
<1> HIDE DEF s
<1> DEFINE Is(m) == /\ \A k \in 1..m : s[k] = 0
                    /\ m < Len(s) => s[m + 1] # 0
<1>4. n \in 0..Len(s) /\ Is(n)
  <2>1. n < Len(s) => u # << >> BY <1>2, <1>3
  <2>2. n < Len(s) => s[n + 1] = u[1] /\ u[1] # 0 BY <1>2, <1>3, <2>1 DEF IsNumeral
  <2> QED BY <1>2, <1>3, <2>2
<1>5. ASSUME NEW m \in 0..Len(s), Is(m) PROVE m = n
  <2>1. m \in Nat /\ Len(s) \in Nat BY <1>2, <1>3
  <2>2. ASSUME m < n PROVE FALSE
    <3>1. m + 1 \in 1..n /\ m < Len(s) BY <1>4, <2>1, <2>2
    <3> QED BY <1>4, <1>5, <3>1
  <2>3. ASSUME n < m PROVE FALSE
    <3>1. n + 1 \in 1..m /\ n < Len(s) BY <1>4, <2>1, <2>3
    <3> QED BY <1>4, <1>5, <3>1
  <2> QED BY <2>1, <2>2, <2>3
<1>6. Padding(s) = CHOOSE m \in 0..Len(s) : Is(m) BY DEF Padding
<1>7. Padding(s) = n
  <2> HIDE DEF Is
  <2> QED BY <1>4, <1>5, <1>6
<1> QED BY <1>7 DEF s, z

Splits(s, n, u, base) ==
  n \in 0..Len(s) /\ IsNumeral(u, base) /\ Len(u) = Len(s) - n /\ s = Zeros(n) \o u

LEMMA SplitsAtPadding ==
  ASSUME NEW base \in Nat, base >= 1, NEW s \in Seq(Digit(base))
  PROVE  \E n, u : Splits(s, n, u, base)
<1> DEFINE P(m) == \A t \in Seq(Digit(base)) : Len(t) = m => \E n, u : Splits(t, n, u, base)
           T == {m \in Nat : P(m)}
<1>1. 0 \in T
  <2>1. ASSUME NEW t \in Seq(Digit(base)), Len(t) = 0
        PROVE  \E n, u : Splits(t, n, u, base)
    <3>1. t = << >> BY <2>1, EmptySeq
    <3>2. IsNumeral(<< >>, base) /\ Len(<< >>) = 0 BY DEF IsNumeral
    <3>3. Zeros(0) = << >> BY EmptySeq, ZerosAre
    <3>4. Zeros(0) \o << >> = << >> BY <3>3, ConcatEmptySeq
    <3>5. Splits(t, 0, << >>, base) BY <2>1, <3>1, <3>2, <3>4 DEF Splits
    <3> QED BY <3>5
  <2> QED BY <2>1
<1>2. ASSUME NEW m \in Nat, m \in T PROVE m + 1 \in T
  <2>1. ASSUME NEW t \in Seq(Digit(base)), Len(t) = m + 1
        PROVE  \E n, u : Splits(t, n, u, base)
    <3>1. t # << >> BY <2>1
    <3> DEFINE v == SubSeq(t, 1, Len(t) - 1)
               d == t[Len(t)]
    <3>2. /\ v \in Seq(Digit(base)) /\ d \in Digit(base) /\ t = Append(v, d) /\ Len(v) = Len(t) - 1
      BY <3>1, HornerOfFront
    <3> HIDE DEF v, d
    <3>3. Len(v) = m BY <2>1, <3>2
    <3>0. PICK n, u : Splits(v, n, u, base) BY <1>2, <3>2, <3>3
    <3>4. n \in 0..m /\ IsNumeral(u, base) /\ Len(u) = m - n /\ v = Zeros(n) \o u
      BY <3>0, <3>3 DEF Splits
    <3>5. /\ Zeros(n) \in Seq(Digit(base)) /\ Len(Zeros(n)) = n /\ u \in Seq(Digit(base))
          /\ \A k \in 1..n : Zeros(n)[k] = 0
      BY <3>4, ZerosAre DEF IsNumeral
    <3>6. CASE u = << >> /\ d = 0
      <4>1. n = m BY <3>4, <3>6
      <4>2. v = Zeros(m) BY <3>4, <3>5, <3>6, <4>1, ConcatEmptySeq
      <4>3. /\ Zeros(m) \in Seq(Digit(base)) /\ Len(Zeros(m)) = m
            /\ \A k \in 1..m : Zeros(m)[k] = 0
        BY <3>5, <4>1
      <4>4. /\ Zeros(m + 1) \in Seq(Digit(base)) /\ Len(Zeros(m + 1)) = m + 1
            /\ \A k \in 1..(m + 1) : Zeros(m + 1)[k] = 0
        BY ZerosAre
      <4>5. Append(Zeros(m), 0) = Zeros(m + 1)
        <5> DEFINE a == Zeros(m)
                   b == Zeros(m + 1)
        <5>1. a \in Seq(Digit(base)) /\ Len(a) = m /\ \A k \in 1..m : a[k] = 0 BY <4>3
        <5>2. b \in Seq(Digit(base)) /\ Len(b) = m + 1 /\ \A k \in 1..(m + 1) : b[k] = 0 BY <4>4
        <5> HIDE DEF a, b
        <5>3. /\ Append(a, 0) \in Seq(Digit(base)) /\ Len(Append(a, 0)) = m + 1
              /\ \A k \in 1..(m + 1) : Append(a, 0)[k] = 0
          BY <3>2, <3>6, <5>1, AppendProperties
        <5>4. a \in Seq(Digit(base)) /\ b \in Seq(Digit(base)) BY <5>1, <5>2
        <5>5. Append(a, 0) = b BY <5>2, <5>3, SeqEqual
        <5> QED BY <5>5 DEF a, b
      <4>6. Zeros(m + 1) \o << >> = Zeros(m + 1) BY <4>4, ConcatEmptySeq
      <4>7. IsNumeral(<< >>, base) /\ Len(<< >>) = (m + 1) - (m + 1) BY DEF IsNumeral
      <4>8. t = Zeros(m + 1) \o << >> BY <3>2, <3>6, <4>2, <4>5, <4>6
      <4>9. m + 1 \in 0..(m + 1) OBVIOUS
      <4>10. Splits(t, m + 1, << >>, base) BY <2>1, <4>7, <4>8, <4>9 DEF Splits
      <4> QED BY <4>10
    <3>7. CASE ~(u = << >> /\ d = 0)
      <4> DEFINE w == Append(u, d)
      <4>1. /\ w \in Seq(Digit(base)) /\ Len(w) = Len(u) + 1
            /\ \A k \in 1..Len(u) : w[k] = u[k]
            /\ w[Len(u) + 1] = d
        BY <3>2, <3>5, AppendProperties
      <4>2. w[1] # 0
        <5>1. CASE u = << >>
          <6>1. Len(u) + 1 = 1 BY <5>1
          <6> QED BY <3>7, <4>1, <5>1, <6>1
        <5>2. CASE u # << >>
          <6>1. 1 \in 1..Len(u) /\ u[1] # 0 BY <3>4, <3>5, <5>2, EmptySeq DEF IsNumeral
          <6> QED BY <4>1, <6>1
        <5> QED BY <5>1, <5>2
      <4>3. IsNumeral(w, base) /\ Len(w) = (m + 1) - n BY <3>4, <4>1, <4>2 DEF IsNumeral
      <4>4. t = Zeros(n) \o w
        <5> DEFINE z == Zeros(n)
        <5>1. z \in Seq(Digit(base)) /\ t = Append(z \o u, d) BY <3>2, <3>4, <3>5
        <5> HIDE DEF z
        <5>2. z \o Append(u, d) = Append(z \o u, d) BY <3>2, <3>5, <5>1, PrefixAppended
        <5> QED BY <5>1, <5>2 DEF z
      <4>5. n \in 0..(m + 1) BY <3>4
      <4> HIDE DEF w
      <4>6. Splits(t, n, w, base) BY <2>1, <4>3, <4>4, <4>5 DEF Splits
      <4> QED BY <4>6
    <3> QED BY <3>6, <3>7
  <2> QED BY <2>1
<1>3. T = Nat
  <2> HIDE DEF T
  <2>1. T \in SUBSET Nat BY DEF T
  <2>2. \A n \in Nat : n \in T => n + 1 \in T BY <1>2
  <2> QED BY <1>1, <2>1, <2>2, SetInduction
<1>4. Len(s) \in T
  <2> HIDE DEF T
  <2> QED BY <1>3
<1> QED BY <1>4

(* The two conversions of identifier.ts, from one base to the other.       *)
Converted(s, from, to) == Zeros(Padding(s)) \o DigitsOf(Horner(s, from), to)

ConvertsPart(s, from, to, n, u, v) ==
  /\ IsNumeral(v, to) /\ Horner(v, to) = Horner(u, from)
  /\ Converted(s, from, to) = Zeros(n) \o v
  /\ Converted(s, from, to) \in Seq(Digit(to))
  /\ Len(Converted(s, from, to)) = n + Len(v)

LEMMA ConversionSplits ==
  ASSUME NEW from \in Nat, from >= 2, NEW to \in Nat, to >= 2, NEW s \in Seq(Digit(from))
  PROVE  \E n, u, v : Splits(s, n, u, from) /\ ConvertsPart(s, from, to, n, u, v)
<1>0. PICK n, u : Splits(s, n, u, from) BY SplitsAtPadding
<1>1. n \in 0..Len(s) /\ IsNumeral(u, from) /\ Len(u) = Len(s) - n /\ s = Zeros(n) \o u
  BY <1>0 DEF Splits
<1>2. n \in Nat /\ u \in Seq(Digit(from)) BY <1>1 DEF IsNumeral
<1>3. Padding(s) = n BY <1>1, <1>2, PaddingUnique
<1>4. Horner(s, from) = Horner(u, from)
  <2>1. Zeros(n) \in Seq(Digit(from)) /\ Len(Zeros(n)) = n /\ \A k \in 1..n : Zeros(n)[k] = 0
    BY <1>2, ZerosAre
  <2> DEFINE z == Zeros(n)
  <2>2. z \in Seq(Digit(from)) /\ \A k \in 1..Len(z) : z[k] = 0 BY <2>1
  <2>3. s = z \o u BY <1>1
  <2> HIDE DEF z
  <2> QED BY <1>2, <2>2, <2>3, HornerSkipsZeros
<1>5. Horner(u, from) \in Nat BY <1>2, HornerIsNatural
<1> DEFINE h == Horner(u, from)
           v == DigitsOf(h, to)
<1>6. IsNumeral(v, to) /\ Horner(v, to) = h BY <1>5, NumeralOf
<1>7. Converted(s, from, to) = Zeros(n) \o v BY <1>3, <1>4 DEF Converted
<1>8. Zeros(n) \o v \in Seq(Digit(to)) /\ Len(Zeros(n) \o v) = n + Len(v)
  <2>1. Zeros(n) \in Seq(Digit(to)) /\ Len(Zeros(n)) = n BY <1>2, ZerosAre
  <2>2. v \in Seq(Digit(to)) BY <1>6 DEF IsNumeral
  <2> HIDE DEF v
  <2> QED BY <2>1, <2>2, ConcatProperties
<1> HIDE DEF v
<1>9. ConvertsPart(s, from, to, n, u, v) BY <1>6, <1>7, <1>8 DEF ConvertsPart
<1> QED BY <1>0, <1>9

(* Converting back gives what was converted.                               *)
LEMMA ConversionReturns ==
  ASSUME NEW from \in Nat, from >= 2, NEW to \in Nat, to >= 2, NEW s \in Seq(Digit(from))
  PROVE  /\ Converted(s, from, to) \in Seq(Digit(to))
         /\ Converted(Converted(s, from, to), to, from) = s
<1>0. PICK n, u, v : Splits(s, n, u, from) /\ ConvertsPart(s, from, to, n, u, v)
  BY ConversionSplits
<1>1. /\ n \in 0..Len(s) /\ IsNumeral(u, from) /\ s = Zeros(n) \o u
      /\ IsNumeral(v, to) /\ Horner(v, to) = Horner(u, from)
      /\ Converted(s, from, to) = Zeros(n) \o v
      /\ Converted(s, from, to) \in Seq(Digit(to))
  BY <1>0 DEF Splits, ConvertsPart
<1>2. n \in Nat BY <1>1
<1> DEFINE t == Converted(s, from, to)
<1>3. t = Zeros(n) \o v /\ t \in Seq(Digit(to)) BY <1>1
<1> HIDE DEF t
<1>4. Padding(t) = n BY <1>1, <1>2, <1>3, PaddingUnique
<1>5. Horner(t, to) = Horner(v, to)
  <2> DEFINE z == Zeros(n)
  <2>1. z \in Seq(Digit(to)) /\ \A k \in 1..Len(z) : z[k] = 0 BY <1>2, ZerosAre
  <2>2. t = z \o v /\ v \in Seq(Digit(to)) BY <1>1, <1>3 DEF IsNumeral
  <2> HIDE DEF z
  <2> QED BY <2>1, <2>2, HornerSkipsZeros
<1>6. Horner(u, from) \in Nat BY <1>1, HornerIsNatural DEF IsNumeral
<1> DEFINE h == Horner(u, from)
           w == DigitsOf(h, from)
<1>7. IsNumeral(w, from) /\ Horner(w, from) = h BY <1>6, NumeralOf
<1>8. w = u
  <2> HIDE DEF w
  <2> QED BY <1>1, <1>7, NumeralsAreUnique
<1>9. Converted(t, to, from) = Zeros(n) \o w BY <1>1, <1>4, <1>5 DEF Converted
<1> QED BY <1>1, <1>3, <1>8, <1>9 DEF t

-----------------------------------------------------------------------------
(* Powers of the two bases, so many octets and characters less.            *)
LEMMA FewerOctetsFewerChars ==
  ASSUME NEW n \in 0..IdSize
  PROVE  n <= MaxChars /\ Power(OctetBase, IdSize - n) <= Power(Alphabet, MaxChars - n)
<1>0. /\ Alphabet \in Nat /\ Alphabet >= 2 /\ OctetBase \in Nat /\ OctetBase >= 2
      /\ Alphabet <= OctetBase /\ IdSize \in Nat /\ MaxChars \in Nat
  BY IdentifierAssumption
<1> DEFINE P(k) == k <= IdSize =>
                     k <= MaxChars /\ Power(OctetBase, IdSize - k) <= Power(Alphabet, MaxChars - k)
           T == {k \in Nat : P(k)}
<1>1. 0 \in T
  <2>1. IdSize - 0 = IdSize /\ MaxChars - 0 = MaxChars BY <1>0
  <2> QED BY <1>0, <2>1, IdentifierAssumption
<1>2. ASSUME NEW k \in Nat, k \in T, k + 1 <= IdSize
      PROVE  k + 1 <= MaxChars
             /\ Power(OctetBase, IdSize - (k + 1)) <= Power(Alphabet, MaxChars - (k + 1))
  <2> DEFINE m == IdSize - (k + 1)
             x == Power(OctetBase, m)
  <2>1. m \in Nat /\ IdSize - k = m + 1 BY <1>0, <1>2
  <2>2. x \in Nat /\ x >= 1 /\ Power(OctetBase, IdSize - k) = x * OctetBase
    BY <1>0, <2>1, PowerUnfolds
  <2>3. k <= MaxChars /\ Power(OctetBase, IdSize - k) <= Power(Alphabet, MaxChars - k)
    BY <1>0, <1>2
  <2> HIDE DEF x
  <2>4. k # MaxChars
    <3> SUFFICES ASSUME k = MaxChars PROVE FALSE OBVIOUS
    <3>1. MaxChars - k = 0 BY <1>0
    <3>2. Power(Alphabet, 0) = 1 BY <1>0, PowerUnfolds
    <3>3. x * OctetBase <= 1 BY <2>2, <2>3, <3>1, <3>2
    <3>4. x * OctetBase >= 1 * OctetBase /\ x * OctetBase \in Nat BY <1>0, <2>2
    <3> QED BY <1>0, <3>3, <3>4
  <2> DEFINE j == MaxChars - (k + 1)
             y == Power(Alphabet, j)
  <2>5. j \in Nat /\ MaxChars - k = j + 1 BY <1>0, <2>3, <2>4
  <2>6. y \in Nat /\ Power(Alphabet, MaxChars - k) = y * Alphabet BY <1>0, <2>5, PowerUnfolds
  <2> HIDE DEF y
  <2>7. x * OctetBase <= y * Alphabet BY <2>2, <2>3, <2>6
  <2>8. x <= y
    <3> SUFFICES ASSUME y + 1 <= x PROVE FALSE BY <2>2, <2>6
    <3>1. (y + 1) * OctetBase <= x * OctetBase BY <1>0, <2>2, <2>6
    <3>2. (y + 1) * OctetBase = y * OctetBase + OctetBase BY <1>0, <2>6
    <3>3. y * Alphabet <= y * OctetBase BY <1>0, <2>6
    <3>4. x * OctetBase \in Nat /\ y * OctetBase \in Nat /\ y * Alphabet \in Nat
      BY <1>0, <2>2, <2>6
    <3> QED BY <1>0, <2>7, <3>1, <3>2, <3>3, <3>4
  <2>9. k + 1 <= MaxChars BY <1>0, <2>3, <2>4
  <2> QED BY <2>8, <2>9 DEF x, y
<1>3. T = Nat
  <2>1. \A k \in Nat : k \in T => k + 1 \in T BY <1>2
  <2> HIDE DEF T
  <2>2. T \in SUBSET Nat BY DEF T
  <2> QED BY <1>1, <2>1, <2>2, SetInduction
<1>4. n \in T
  <2> HIDE DEF T
  <2> QED BY <1>0, <1>3
<1> QED BY <1>0, <1>4

LEMMA Bases ==
  /\ Alphabet \in Nat /\ Alphabet >= 2 /\ OctetBase \in Nat /\ OctetBase >= 2
  /\ IdSize \in Nat /\ IdSize >= 1 /\ MaxChars \in Nat
  /\ LauncherId = {l \in Seq(Digit(OctetBase)) : Len(l) = IdSize}
<1>1. /\ Alphabet \in Nat /\ Alphabet >= 2 /\ OctetBase \in Nat /\ OctetBase >= 2
      /\ IdSize \in Nat /\ IdSize >= 1 /\ MaxChars \in Nat
  BY IdentifierAssumption
<1>2. \A l \in LauncherId : l \in Seq(Digit(OctetBase)) /\ Len(l) = IdSize
  BY <1>1 DEF LauncherId, Digit
<1>3. \A l \in Seq(Digit(OctetBase)) : Len(l) = IdSize => l \in LauncherId
  <2> SUFFICES ASSUME NEW l \in Seq(Digit(OctetBase)), Len(l) = IdSize PROVE l \in LauncherId
    OBVIOUS
  <2>1. l \in [1..Len(l) -> Digit(OctetBase)] OBVIOUS
  <2> QED BY <2>1 DEF LauncherId, Digit
<1> QED BY <1>1, <1>2, <1>3

(* Every launcher ID has a name that is no longer than parseDid reads.     *)
LEMMA NameLength ==
  ASSUME NEW l \in LauncherId
  PROVE  Len(Converted(l, OctetBase, Alphabet)) \in 1..MaxChars
<1>1. l \in Seq(Digit(OctetBase)) /\ Len(l) = IdSize BY Bases
<1>0. PICK n, u, v : /\ Splits(l, n, u, OctetBase)
                     /\ ConvertsPart(l, OctetBase, Alphabet, n, u, v)
  BY <1>1, Bases, ConversionSplits
<1>2. /\ n \in 0..Len(l) /\ IsNumeral(u, OctetBase) /\ Len(u) = Len(l) - n
      /\ IsNumeral(v, Alphabet) /\ Horner(v, Alphabet) = Horner(u, OctetBase)
      /\ Len(Converted(l, OctetBase, Alphabet)) = n + Len(v)
  BY <1>0 DEF Splits, ConvertsPart
<1>3. n \in 0..IdSize /\ Len(u) = IdSize - n /\ IdSize - n \in Nat BY <1>1, <1>2, Bases
<1>4. n <= MaxChars /\ Power(OctetBase, IdSize - n) <= Power(Alphabet, MaxChars - n)
  BY <1>3, FewerOctetsFewerChars
<1>5. MaxChars - n \in Nat BY <1>3, <1>4, Bases
<1>6. Horner(u, OctetBase) < Power(OctetBase, IdSize - n)
  <2>1. u \in Seq(Digit(OctetBase)) BY <1>2 DEF IsNumeral
  <2>2. OctetBase \in Nat /\ OctetBase >= 1 BY Bases
  <2>3. Horner(u, OctetBase) < Power(OctetBase, Len(u)) BY <2>1, <2>2, HornerBelowPower
  <2> QED BY <1>3, <2>3
<1>7. Len(v) <= MaxChars - n /\ Len(v) \in Nat
  <2>1. Horner(v, Alphabet) < Power(Alphabet, MaxChars - n)
    <3>1. Horner(v, Alphabet) \in Nat BY <1>2, Bases, HornerIsNatural DEF IsNumeral
    <3>2. Power(OctetBase, IdSize - n) \in Nat /\ Power(Alphabet, MaxChars - n) \in Nat
      <4> DEFINE i == IdSize - n
                 j == MaxChars - n
      <4>1. i \in Nat /\ j \in Nat BY <1>3, <1>5
      <4>2. OctetBase \in Nat /\ OctetBase >= 1 /\ Alphabet \in Nat /\ Alphabet >= 1 BY Bases
      <4> HIDE DEF i, j
      <4>3. Power(OctetBase, i) \in Nat /\ Power(Alphabet, j) \in Nat
        BY <4>1, <4>2, PowerUnfolds
      <4> QED BY <4>3 DEF i, j
    <3> QED BY <1>2, <1>4, <1>6, <3>1, <3>2
  <2>2. Len(v) \in Nat BY <1>2 DEF IsNumeral
  <2>3. Len(v) <= MaxChars - n
    <3> DEFINE m == MaxChars - n
    <3>1. m \in Nat /\ Horner(v, Alphabet) < Power(Alphabet, m) BY <1>5, <2>1
    <3> HIDE DEF m
    <3>2. Len(v) <= m BY <1>2, <3>1, Bases, NumeralLength
    <3> QED BY <3>2 DEF m
  <2> QED BY <2>2, <2>3
<1>8. n + Len(v) >= 1
  <2> SUFFICES ASSUME n = 0 PROVE Len(v) >= 1 BY <1>3, <1>7
  <2>1. u # << >> BY <1>3, Bases
  <2>2. Horner(u, OctetBase) > 0 BY <1>2, <2>1, Bases, NumeralsArePositive
  <2>3. v # << >> BY <1>2, <2>2, Bases, HornerEmpty
  <2> QED BY <1>2, <1>7, <2>3, EmptySeq DEF IsNumeral
<1> QED BY <1>2, <1>3, <1>5, <1>7, <1>8, Bases

(* formatDid and parseDid are inverse to one another.                      *)
LEMMA FormattedParses ==
  ASSUME NEW l \in LauncherId
  PROVE  parseDid(formatDid(l)) = {l}
<1> DEFINE t == Converted(l, OctetBase, Alphabet)
<1>1. l \in Seq(Digit(OctetBase)) /\ Len(l) = IdSize BY Bases
<1>2. t \in Seq(Digit(Alphabet)) /\ Converted(t, Alphabet, OctetBase) = l
  BY <1>1, Bases, ConversionReturns
<1>3. Len(t) \in 1..MaxChars BY NameLength
<1>4. b58encode(l) = t BY DEF b58encode, Converted
<1> HIDE DEF t
<1>5. b58decode(t) = l BY <1>2 DEF b58decode, Converted
<1>6. \A k \in 1..Len(t) : t[k] < Alphabet
  <2>1. \A d \in Digit(Alphabet) : d < Alphabet BY Bases DEF Digit
  <2>2. \A k \in 1..Len(t) : t[k] \in Digit(Alphabet) BY <1>2
  <2> QED BY <2>1, <2>2
<1>7. formatDid(l).prefixed /\ formatDid(l).name = t BY <1>4 DEF formatDid
<1> QED BY <1>1, <1>3, <1>5, <1>6, <1>7 DEF parseDid

LEMMA ParsedFormats ==
  ASSUME NEW did \in [prefixed : BOOLEAN, name : Seq(Char)], NEW l \in parseDid(did)
  PROVE  l \in LauncherId /\ formatDid(l) = did
<1>1. /\ did.prefixed /\ \A k \in 1..Len(did.name) : did.name[k] < Alphabet
      /\ Len(b58decode(did.name)) = IdSize /\ l = b58decode(did.name)
  BY DEF parseDid
<1> DEFINE s == did.name
<1>2. s \in Seq(Digit(Alphabet))
  <2>1. s \in Seq(Char) OBVIOUS
  <2>2. \A k \in 1..Len(s) : s[k] \in Char BY <2>1
  <2>3. \A c \in Char : c < Alphabet => c \in Digit(Alphabet) BY Bases DEF Char, Digit
  <2>4. \A k \in 1..Len(s) : s[k] \in Digit(Alphabet) BY <1>1, <2>2, <2>3
  <2> HIDE DEF s
  <2>5. s = [k \in 1..Len(s) |-> s[k]] /\ Len(s) \in Nat BY <2>1
  <2> QED BY <2>4, <2>5
<1>3. did = [prefixed |-> TRUE, name |-> s] BY <1>1
<1>4. l = Converted(s, Alphabet, OctetBase) BY <1>1 DEF b58decode, Converted
<1> HIDE DEF s
<1>5. l \in Seq(Digit(OctetBase)) /\ Converted(l, OctetBase, Alphabet) = s
  BY <1>2, <1>4, Bases, ConversionReturns
<1>6. Len(l) = IdSize BY <1>1
<1>7. b58encode(l) = s BY <1>5 DEF b58encode, Converted
<1> QED BY <1>3, <1>5, <1>6, <1>7, Bases DEF formatDid

-----------------------------------------------------------------------------
(* The gates, in their order.                                              *)
Accepted == {"options", "unsupportedResolutionOption", "identifier", "invalidDid", "tracing"}
Current == {"identifier", "invalidDid", "tracing"}

(* The inductive invariant: every gate behind the call was passed for the  *)
(* arguments of this call, and the one that refused it was not.            *)
FrontInv ==
  /\ caller \in Callers /\ AcceptInv
  /\ gate \in {"accept", "representationNotSupported"} \cup Accepted
  /\ IF caller.accept = << >> THEN verdict = "none" ELSE header = caller.accept[1]
  /\ gate = "representationNotSupported" => caller.accept # << >> /\ verdict = "refused"
  /\ gate \in Accepted => caller.accept = << >> \/ verdict = "produced"
  /\ gate = "unsupportedResolutionOption" => caller.version # {}
  /\ gate \in Current => caller.version = {}
  /\ gate = "invalidDid" => parseDid(caller.did) = {}
  /\ gate = "tracing" => launcher = parseDid(caller.did)

LEMMA CallerFields ==
  ASSUME NEW c \in Callers
  PROVE  /\ c.accept # << >> => c.accept[1] \in Seq(MediaRange)
         /\ c.version \subseteq {"versionId", "versionTime"}
         /\ c.did \in [prefixed : BOOLEAN, name : Seq(Char)]
<1>1. /\ c.accept \in {<< >>} \cup [1..1 -> Headers]
      /\ c.version \subseteq {"versionId", "versionTime"}
      /\ c.did \in [prefixed : BOOLEAN, name : Seq(Char)]
  BY FrontAssumption
<1>2. ASSUME c.accept # << >> PROVE c.accept[1] \in Headers BY <1>1, <1>2
<1>3. Headers \subseteq Seq(MediaRange) BY AcceptAssumption DEF MediaRange
<1> QED BY <1>1, <1>2, <1>3

LEMMA FrontInitially == FrontInit => FrontInv
<1> SUFFICES ASSUME FrontInit PROVE FrontInv OBVIOUS
<1>1. caller \in Callers /\ gate = "accept" /\ AcceptStart BY DEF FrontInit
<1>2. header = IF caller.accept = << >> THEN << >> ELSE caller.accept[1] BY DEF FrontInit
<1>3. header \in Seq(MediaRange)
  <2>1. CASE caller.accept = << >> BY <1>2, <2>1
  <2>2. CASE caller.accept # << >> BY <1>1, <1>2, <2>2, CallerFields
  <2> QED BY <2>1, <2>2
<1>4. AcceptInv BY <1>1, <1>3, StartAccept
<1> QED BY <1>1, <1>2, <1>4 DEF FrontInv, Accepted, Current, AcceptStart

LEMMA FrontStep == FrontInv /\ [FrontNext]_frontVars => FrontInv'
<1> SUFFICES ASSUME FrontInv, [FrontNext]_frontVars PROVE FrontInv' OBVIOUS
<1> USE DEF FrontInv, Accepted, Current
<1>1. CASE UNCHANGED acceptVars
  <2>1. AcceptInv' BY <1>1, NegotiationStep
  <2>2. header' = header /\ verdict' = verdict BY <1>1 DEF acceptVars
  <2>3. CASE NoPreference BY <2>1, <2>2, <2>3 DEF NoPreference
  <2>4. CASE Negotiated
    <3>1. verdict \in {"none", "produced", "refused"} BY DEF AcceptInv, AcceptTypeOK
    <3> QED BY <2>1, <2>2, <2>4, <3>1 DEF Negotiated
  <2>5. CASE ChecksOptions
    <3>1. caller.version \subseteq {"versionId", "versionTime"} BY CallerFields
    <3>2. gate' = IF caller.version = {} THEN "identifier" ELSE "unsupportedResolutionOption"
      BY <2>5, <3>1 DEF ChecksOptions
    <3> QED BY <2>1, <2>2, <2>5, <3>2 DEF ChecksOptions
  <2>6. CASE ParsesIdentifier BY <2>1, <2>2, <2>6 DEF ParsesIdentifier
  <2>7. CASE UNCHANGED frontVars BY <2>1, <2>2, <2>7 DEF frontVars
  <2>8. CASE Negotiates BY <2>1, <2>2, <2>8 DEF Negotiates
  <2> QED BY <2>3, <2>4, <2>5, <2>6, <2>7, <2>8 DEF FrontNext
<1>2. CASE Negotiates
  <2>1. AcceptInv' BY <1>2, NegotiationStep DEF Negotiates
  <2>2. header' = header
    BY <1>2 DEF Negotiates, AcceptNext, SkipsRange, Reads, ReadsQuality, ReadsExtension,
      ReadsSatisfied, NextParameter, EndsRange, Decides
  <2> QED BY <1>2, <2>1, <2>2 DEF Negotiates
<1> QED BY <1>1, <1>2 DEF FrontNext, NoPreference, Negotiated, ChecksOptions,
      ParsesIdentifier, frontVars

(* Every gate of resolve that a call has passed was opened by what the     *)
(* call asks for.                                                          *)
THEOREM FrontInvariance == FrontSpec => []FrontInv
BY FrontInitially, FrontStep, PTL DEF FrontSpec

(* Whatever the call asks for, it is refused for the first thing that      *)
(* stands against it, and goes on only if nothing does.                    *)
THEOREM RefusalsAreInOrder == FrontSpec => []RefusedInOrder
<1>1. FrontInv => RefusedInOrder
  <2> SUFFICES ASSUME FrontInv PROVE RefusedInOrder OBVIOUS
  <2>1. verdict # "none" => (verdict = "produced" <=> Acceptable(header))
    BY InvariantDecides DEF FrontInv, NegotiationIsRight
  <2> QED BY <2>1 DEF FrontInv, RefusedInOrder, Accepted, Current
<1> QED BY <1>1, FrontInvariance, PTL

(* Identifiers and launcher IDs correspond one to one, for launcher IDs of *)
(* any size over alphabets of any size: base58 returns what it was given,  *)
(* leading zero octets included, and the longest name is within the bound  *)
(* of parseDid.                                                            *)
THEOREM NamesAreExact == FrontSpec => []NamesMatchLaunchers
<1>1. FrontInv => NamesMatchLaunchers
  <2> SUFFICES ASSUME FrontInv PROVE NamesMatchLaunchers OBVIOUS
  <2>1. caller.did \in [prefixed : BOOLEAN, name : Seq(Char)] BY CallerFields DEF FrontInv
  <2>2. gate = "tracing" => \A l \in launcher : l \in LauncherId /\ formatDid(l) = caller.did
    BY <2>1, ParsedFormats DEF FrontInv
  <2>3. gate = "invalidDid" => \A l \in LauncherId : formatDid(l) # caller.did
    BY FormattedParses DEF FrontInv
  <2> QED BY <2>2, <2>3 DEF NamesMatchLaunchers
<1> QED BY <1>1, FrontInvariance, PTL
=============================================================================
