------------------------ MODULE CandidateSearchProofs ------------------------
(***************************************************************************)
(* The search is complete within its bounds, for every solution and every  *)
(* value of the bounds.                                                    *)
(***************************************************************************)
EXTENDS CandidateSearch, FiniteSetTheorems, TLAPS

(* An image has no more elements than the set it is the image of.          *)
LEMMA ImageBound ==
  ASSUME NEW S, IsFiniteSet(S), NEW f
  PROVE  IsFiniteSet({f[x] : x \in S}) /\ Cardinality({f[x] : x \in S}) <= Cardinality(S)
<1> DEFINE g == [x \in S |-> f[x]]
           T == {f[x] : x \in S}
<1>1. g \in Surjection(S, T) BY DEF Surjection
<1> QED BY <1>1, FS_Surjection

(* A tree of n pairs has at most 2n + 1 nodes.                             *)
LEMMA NodesBound ==
  ASSUME IsFiniteSet(tree)
  PROVE  /\ IsFiniteSet(Nodes) /\ Cardinality(Nodes) \in Nat
         /\ Cardinality(tree) \in Nat
         /\ Cardinality(Nodes) <= 2 * Cardinality(tree) + 1
<1> DEFINE Side(d) == {Append(p, d) : p \in tree}
<1>1. ASSUME NEW d \in Dir
      PROVE  /\ IsFiniteSet(Side(d)) /\ Cardinality(Side(d)) \in Nat
             /\ Cardinality(Side(d)) <= Cardinality(tree)
  <2> DEFINE f == [p \in tree |-> Append(p, d)]
  <2>1. Side(d) = {f[p] : p \in tree} OBVIOUS
  <2>2. IsFiniteSet({f[p] : p \in tree}) /\ Cardinality({f[p] : p \in tree}) <= Cardinality(tree)
    BY ImageBound
  <2> QED BY <2>1, <2>2, FS_CardinalityType
<1>2. "car" \in Dir /\ "cdr" \in Dir BY DEF Dir
<1> DEFINE Sides == Side("car") \cup Side("cdr")
<1> HIDE DEF Side
<1>3. IsFiniteSet(Sides) /\ Cardinality(Sides) <= 2 * Cardinality(tree)
  <2>1. IsFiniteSet(Sides)
    /\ Cardinality(Sides) = Cardinality(Side("car")) + Cardinality(Side("cdr"))
                            - Cardinality(Side("car") \cap Side("cdr"))
    BY <1>1, <1>2, FS_Union
  <2>2. IsFiniteSet(Side("car") \cap Side("cdr")) BY <1>1, <1>2, FS_Subset
  <2>3. Cardinality(Side("car") \cap Side("cdr")) \in Nat BY <2>2, FS_CardinalityType
  <2> QED BY <1>1, <1>2, <2>1, <2>3, FS_CardinalityType
<1>4. Nodes = Sides \cup {<< >>} BY DEF Nodes, Side, Dir
<1> HIDE DEF Sides
<1>5. IsFiniteSet(Nodes) /\ Cardinality(Nodes) <= Cardinality(Sides) + 1
  <2>1. IsFiniteSet(Sides \cup {<< >>})
        /\ Cardinality(Sides \cup {<< >>}) =
             IF << >> \in Sides THEN Cardinality(Sides) ELSE Cardinality(Sides) + 1
    BY <1>3, FS_AddElement
  <2>2. Cardinality(Sides) \in Nat BY <1>3, FS_CardinalityType
  <2> QED BY <1>4, <2>1, <2>2
<1>6. Cardinality(Sides) \in Nat /\ Cardinality(Nodes) \in Nat /\ Cardinality(tree) \in Nat
  BY <1>3, <1>5, FS_CardinalityType
<1> QED BY <1>3, <1>5, <1>6

-----------------------------------------------------------------------------
(* Positions and the traversal.                                            *)
LEMMA RootType == << >> \in Position /\ \A q : q \in Position => Under(<< >>, q)
BY DEF Position, Under

LEMMA UnderTrans ==
  ASSUME NEW a \in Position, NEW b \in Position, NEW q \in Position, Under(a, b), Under(b, q)
  PROVE  Under(a, q)
BY DEF Position, Under

LEMMA ChildType ==
  ASSUME NEW p \in Position, NEW d \in Dir
  PROVE  /\ Append(p, d) \in Position /\ Len(Append(p, d)) = Len(p) + 1
         /\ Append(p, d)[Len(p) + 1] = d
         /\ \A i \in 1..Len(p) : Append(p, d)[i] = p[i]
         /\ Under(p, Append(p, d))
BY DEF Position, Under

(* A position above a pair is the position of a pair.                      *)
LEMMA AbovePair ==
  ASSUME tree \in Tree, NEW p \in tree, NEW s \in Position, Under(s, p)
  PROVE  s \in tree
<1>1. p \in Position BY DEF Tree
<1>2. Len(s) \in 0..Len(p) BY <1>1 DEF Under, Position
<1>3. SubSeq(p, 1, Len(s)) = s BY <1>1, <1>2 DEF Under, Position
<1> QED BY <1>2, <1>3 DEF Tree

LEMMA NodesType ==
  ASSUME tree \in Tree
  PROVE  /\ Nodes \subseteq Position /\ tree \subseteq Nodes /\ tree \subseteq Position
         /\ \A p \in tree, d \in Dir : Append(p, d) \in Nodes
<1>1. tree \subseteq Position BY DEF Tree
<1>2. \A p \in tree, d \in Dir : Append(p, d) \in Nodes BY DEF Nodes
<1>3. ASSUME NEW q \in Nodes PROVE q \in Position
  <2>1. CASE q = << >> BY <2>1, RootType
  <2>2. CASE \E p \in tree, d \in Dir : q = Append(p, d)
    <3>1. PICK p \in tree, d \in Dir : q = Append(p, d) BY <2>2
    <3>2. p \in Position BY <1>1
    <3> QED BY <3>1, <3>2, ChildType
  <2> QED BY <2>1, <2>2 DEF Nodes
<1>4. ASSUME NEW p \in tree PROVE p \in Nodes
  <2>1. p \in Seq(Dir) BY <1>1 DEF Position
  <2>2. CASE Len(p) = 0
    <3>1. p = << >> BY <2>1, <2>2
    <3> QED BY <3>1 DEF Nodes
  <2>3. CASE Len(p) # 0
    <3>1. Len(p) - 1 \in 0..Len(p) BY <2>1, <2>3
    <3>2. SubSeq(p, 1, Len(p) - 1) \in tree BY <3>1 DEF Tree
    <3>3. p[Len(p)] \in Dir BY <2>1, <2>3
    <3>4. Append(SubSeq(p, 1, Len(p) - 1), p[Len(p)]) \in Nodes BY <1>2, <3>2, <3>3
    <3>5. p = Append(SubSeq(p, 1, Len(p) - 1), p[Len(p)]) BY <2>1, <2>3
    <3> QED BY <3>4, <3>5
  <2> QED BY <2>2, <2>3
<1> QED BY <1>1, <1>2, <1>3, <1>4

(* What is below a node that is no pair is the node itself; what is below  *)
(* a pair is the pair, or below one of its children.                       *)
LEMMA BelowAtom ==
  ASSUME tree \in Tree, NEW s \in Position, s \notin tree, NEW q \in Nodes, Under(s, q)
  PROVE  q = s
<1>1. q \in Position BY NodesType
<1>2. CASE q = << >> BY <1>1, <1>2 DEF Under, Position
<1>3. ASSUME NEW p \in tree, NEW d \in Dir, q = Append(p, d) PROVE q = s
  <2>1. p \in Position BY DEF Tree
  <2>2. Len(q) = Len(p) + 1 /\ \A i \in 1..Len(p) : q[i] = p[i] BY <1>3, <2>1, ChildType
  <2>3. CASE Len(s) <= Len(p)
    <3>1. Under(s, p) BY <2>1, <2>2, <2>3 DEF Under, Position
    <3> QED BY <2>1, <3>1, AbovePair
  <2>4. CASE Len(s) = Len(q) BY <1>1, <2>4 DEF Under, Position
  <2>5. Len(s) \in Nat /\ Len(p) \in Nat /\ Len(s) <= Len(q)
    BY <2>1 DEF Under, Position
  <2> QED BY <2>2, <2>3, <2>4, <2>5
<1> QED BY <1>2, <1>3 DEF Nodes

LEMMA BelowPair ==
  ASSUME NEW s \in Position, NEW q \in Position, Under(s, q), q # s
  PROVE  Under(Append(s, "car"), q) \/ Under(Append(s, "cdr"), q)
<1>1. Len(s) < Len(q)
  <2>1. CASE Len(s) = Len(q) BY <2>1 DEF Under, Position
  <2> QED BY <2>1 DEF Under, Position
<1>2. q[Len(s) + 1] \in Dir BY <1>1 DEF Position
<1>3. PICK d \in Dir : q[Len(s) + 1] = d BY <1>2
<1>4. Under(Append(s, d), q) BY <1>1, <1>3 DEF Under, Position
<1> QED BY <1>4 DEF Dir

(* Popping a node uses up that node, and no other.                         *)
LEMMA PopStep ==
  ASSUME tree \in Tree, NEW s \in Seq(Nodes), s # << >>, Apart(s), NEW N, N \subseteq Nodes
  PROVE  /\ Popped(s) \in Seq(Nodes) /\ Apart(Popped(s))
         /\ Below(Popped(s), N) = Below(s, N) \ {Head(s)}
<1> DEFINE h == s[1]
           P == Popped(s)
<1>1. /\ Head(s) = h /\ h \in Nodes /\ h \in Position /\ Len(s) \in Nat \ {0}
      /\ \A i \in 1..Len(s) : s[i] \in Nodes /\ s[i] \in Position
  BY NodesType
<1>2. Tail(s) \in Seq(Nodes) /\ Len(Tail(s)) = Len(s) - 1
      /\ \A i \in 1..(Len(s) - 1) : Tail(s)[i] = s[i + 1]
  BY <1>1
<1>3. Under(h, h) BY <1>1 DEF Under, Position
<1>4. \A i \in 1..Len(s) : i # 1 => ~Under(h, s[i]) /\ ~Under(s[i], h)
  BY <1>1 DEF Apart
<1>5. CASE h \notin tree
  <2>1. P = Tail(s) BY <1>1, <1>5 DEF Popped
  <2>2. P \in Seq(Nodes) BY <1>2, <2>1
  <2>3. Apart(P)
    <3> SUFFICES ASSUME NEW i \in 1..Len(P), NEW j \in 1..Len(P), i # j
                 PROVE  ~Under(P[i], P[j])
      BY DEF Apart
    <3>1. P[i] = s[i + 1] /\ P[j] = s[j + 1] /\ i + 1 \in 1..Len(s) /\ j + 1 \in 1..Len(s)
      BY <1>1, <1>2, <2>1
    <3>2. i + 1 # j + 1 OBVIOUS
    <3> QED BY <3>1, <3>2 DEF Apart
  <2>4. ASSUME NEW q \in Below(P, N) PROVE q \in Below(s, N) \ {h}
    <3>1. PICK i \in 1..Len(P) : Under(P[i], q) BY DEF Below
    <3>2. i + 1 \in 1..Len(s) /\ i + 1 # 1 /\ P[i] = s[i + 1] BY <1>1, <1>2, <2>1
    <3>3. Under(s[i + 1], q) BY <3>1, <3>2
    <3>4. q # h BY <1>4, <3>2, <3>3
    <3> QED BY <3>2, <3>3, <3>4 DEF Below
  <2>5. ASSUME NEW q \in Below(s, N), q # h PROVE q \in Below(P, N)
    <3>1. PICK i \in 1..Len(s) : Under(s[i], q) BY DEF Below
    <3>2. q \in Nodes /\ q \in N BY DEF Below
    <3>3. i # 1 BY <1>1, <1>5, <2>5, <3>1, <3>2, BelowAtom
    <3>4. i - 1 \in 1..Len(P) /\ P[i - 1] = s[i] BY <1>1, <1>2, <2>1, <3>3
    <3> QED BY <3>1, <3>2, <3>4 DEF Below
  <2> HIDE DEF P
  <2>6. Below(P, N) = Below(s, N) \ {h} BY <2>4, <2>5
  <2> QED BY <1>1, <2>2, <2>3, <2>6 DEF P
<1>6. CASE h \in tree
  <2> DEFINE a == Append(h, "car")
             b == Append(h, "cdr")
  <2>1. P = <<a, b>> \o Tail(s) BY <1>1, <1>6 DEF Popped
  <2>2. "car" \in Dir /\ "cdr" \in Dir BY DEF Dir
  <2>3. /\ a \in Nodes /\ b \in Nodes /\ a \in Position /\ b \in Position
        /\ Len(a) = Len(h) + 1 /\ Len(b) = Len(h) + 1
        /\ a[Len(h) + 1] = "car" /\ b[Len(h) + 1] = "cdr"
        /\ Under(h, a) /\ Under(h, b)
        /\ \A i \in 1..Len(h) : a[i] = h[i] /\ b[i] = h[i]
    BY <1>1, <1>6, <2>2, ChildType, NodesType
  <2> HIDE DEF a, b
  <2>4. /\ P \in Seq(Nodes) /\ Len(P) = Len(s) + 1 /\ P[1] = a /\ P[2] = b
        /\ \A i \in 2..Len(s) : P[i + 1] = s[i]
    <3>1. <<a, b>> \in Seq(Nodes) /\ Len(<<a, b>>) = 2 BY <2>3
    <3>2. P \in Seq(Nodes) BY <1>2, <2>1, <3>1
    <3>3. Len(P) = Len(s) + 1 BY <1>1, <1>2, <2>1, <3>1
    <3>4. P[1] = a /\ P[2] = b BY <1>1, <1>2, <2>1, <3>1
    <3>5. ASSUME NEW i \in 2..Len(s) PROVE P[i + 1] = s[i]
      <4>1. P[i + 1] = Tail(s)[i - 1] BY <1>1, <1>2, <2>1, <3>1
      <4> QED BY <1>1, <1>2, <4>1
    <3> QED BY <3>2, <3>3, <3>4, <3>5
  <2> HIDE DEF P
  <2>5. Len(h) \in Nat BY <1>1 DEF Position
  <2>6. ~Under(a, b) /\ ~Under(b, a) BY <2>3, <2>5 DEF Under
  <2>7. ASSUME NEW c \in {a, b}, NEW i \in 2..Len(s)
        PROVE  ~Under(c, s[i]) /\ ~Under(s[i], c)
    <3>1. c \in Position /\ Under(h, c) /\ Len(c) = Len(h) + 1
          /\ \A k \in 1..Len(h) : c[k] = h[k]
      BY <2>3
    <3>2. s[i] \in Position /\ ~Under(h, s[i]) /\ ~Under(s[i], h) BY <1>1, <1>4
    <3>3. ~Under(c, s[i]) BY <1>1, <3>1, <3>2, UnderTrans
    <3>4. ASSUME Under(s[i], c) PROVE FALSE
      <4>1. Len(s[i]) \in Nat /\ Len(s[i]) <= Len(h) + 1 BY <3>1, <3>2, <3>4 DEF Under, Position
      <4>2. CASE Len(s[i]) <= Len(h)
        <5>1. Under(s[i], h) BY <2>5, <3>1, <3>4, <4>1, <4>2 DEF Under
        <5> QED BY <3>2, <5>1
      <4>3. CASE Len(s[i]) = Len(h) + 1
        <5>1. Under(h, s[i]) BY <2>5, <3>1, <3>4, <4>3 DEF Under
        <5> QED BY <3>2, <5>1
      <4> QED BY <2>5, <4>1, <4>2, <4>3
    <3> QED BY <3>3, <3>4
  <2>8. \A i \in 1..Len(P) :
          \/ i = 1 /\ P[i] = a
          \/ i = 2 /\ P[i] = b
          \/ i - 1 \in 2..Len(s) /\ P[i] = s[i - 1]
    <3> TAKE i \in 1..Len(P)
    <3>1. CASE i > 2
      <4>1. i - 1 \in 2..Len(s) BY <1>1, <2>4, <3>1
      <4>2. P[(i - 1) + 1] = s[i - 1] BY <2>4, <4>1
      <4>3. (i - 1) + 1 = i OBVIOUS
      <4> QED BY <4>1, <4>2, <4>3
    <3>2. CASE i = 1 \/ i = 2 BY <2>4, <3>2
    <3> QED BY <3>1, <3>2
  <2>9. Apart(P)
    <3> SUFFICES ASSUME NEW i \in 1..Len(P), NEW j \in 1..Len(P), i # j
                 PROVE  ~Under(P[i], P[j])
      BY DEF Apart
    <3>1. CASE i <= 2 /\ j <= 2 BY <2>6, <2>8, <3>1
    <3>2. CASE i <= 2 /\ j > 2 BY <2>7, <2>8, <3>2
    <3>3. CASE i > 2 /\ j <= 2 BY <2>7, <2>8, <3>3
    <3>4. CASE i > 2 /\ j > 2
      <4>1. P[i] = s[i - 1] /\ P[j] = s[j - 1] /\ i - 1 \in 1..Len(s) /\ j - 1 \in 1..Len(s)
        BY <2>8, <3>4
      <4>2. i - 1 # j - 1 OBVIOUS
      <4> QED BY <4>1, <4>2 DEF Apart
    <3> QED BY <3>1, <3>2, <3>3, <3>4
  <2>10. ASSUME NEW q \in Below(P, N) PROVE q \in Below(s, N) \ {h}
    <3>1. PICK i \in 1..Len(P) : Under(P[i], q) BY DEF Below
    <3>2. q \in N /\ q \in Position BY NodesType DEF Below
    <3>3. CASE P[i] \in {a, b}
      <4>1. Under(h, q) BY <1>1, <2>3, <3>1, <3>2, <3>3, UnderTrans
      <4>2. q # h BY <2>3, <2>5, <3>1, <3>3 DEF Under
      <4>3. 1 \in 1..Len(s) BY <1>1
      <4> QED BY <3>2, <4>1, <4>2, <4>3 DEF Below
    <3>4. CASE i - 1 \in 2..Len(s) /\ P[i] = s[i - 1]
      <4>1. i - 1 \in 1..Len(s) /\ i - 1 # 1 /\ Under(s[i - 1], q) BY <3>1, <3>4
      <4>2. q # h BY <1>4, <4>1
      <4> QED BY <3>2, <4>1, <4>2 DEF Below
    <3> QED BY <2>8, <3>3, <3>4
  <2>11. ASSUME NEW q \in Below(s, N), q # h PROVE q \in Below(P, N)
    <3>1. PICK i \in 1..Len(s) : Under(s[i], q) BY DEF Below
    <3>2. q \in N /\ q \in Position BY NodesType DEF Below
    <3>3. CASE i = 1
      <4>1. Under(a, q) \/ Under(b, q) BY <1>1, <2>11, <3>1, <3>2, <3>3, BelowPair DEF a, b
      <4>2. 1 \in 1..Len(P) /\ 2 \in 1..Len(P) BY <1>1, <2>4
      <4> QED BY <2>4, <3>2, <4>1, <4>2 DEF Below
    <3>4. CASE i # 1
      <4>1. i \in 2..Len(s) /\ i + 1 \in 1..Len(P) BY <1>1, <2>4, <3>4
      <4>2. P[i + 1] = s[i] BY <2>4, <4>1
      <4> QED BY <3>1, <3>2, <4>1, <4>2 DEF Below
    <3> QED BY <3>3, <3>4
  <2>12. Below(P, N) = Below(s, N) \ {h} BY <2>10, <2>11
  <2> QED BY <1>1, <2>4, <2>9, <2>12 DEF P
<1> QED BY <1>5, <1>6

-----------------------------------------------------------------------------
(* The sets that are counted are finite.                                   *)
LEMMA OpFacts ==
  /\ IsFiniteSet(Op)
  /\ \A i \in 1..6 : OpOrder[i] \in Op
  /\ \A o \in Op : \E i \in 1..6 : o = OpOrder[i]
  /\ \A o \in Op : \A p : Made(o, p) # Identity /\ Made(o, p) # Unknown /\ Made(o, p)[1] = o
<1>1. IsFiniteSet(1..6)
  <2>1. 1 \in Int /\ 6 \in Int OBVIOUS
  <2> QED BY <2>1, FS_Interval
<1>2. IsFiniteSet({OpOrder[i] : i \in 1..6}) BY <1>1, ImageBound
<1>3. \A o \in Op : o # "identity" /\ o # "unknown" BY DEF Op, OpOrder
<1>4. \A o \in Op : \A p : Made(o, p)[1] = o BY DEF Made
<1>5. \A o \in Op : \A p : Made(o, p) # Identity /\ Made(o, p) # Unknown
  BY <1>3, <1>4 DEF Identity, Unknown
<1> QED BY <1>2, <1>4, <1>5 DEF Op

LEMMA CountsAreFinite ==
  ASSUME IsFiniteSet(tree), DOMAIN recognized \subseteq tree,
         NEW N, N \subseteq Nodes, NEW s
  PROVE  /\ IsFiniteSet(Candidates) /\ Cardinality(Candidates) \in Nat
         /\ IsFiniteSet(Named) /\ Cardinality(Named) <= Cardinality(DOMAIN recognized)
         /\ Cardinality(Named) \in Nat /\ Cardinality(DOMAIN recognized) \in Nat
         /\ IsFiniteSet(N) /\ Cardinality(N) \in Nat
         /\ IsFiniteSet(Below(s, N)) /\ Cardinality(Below(s, N)) \in Nat
         /\ Cardinality(Below(s, N)) <= Cardinality(N)
<1>1. IsFiniteSet(Candidates)
  <2> DEFINE F == {d \in Op \X tree : Fits(d[1], d[2])}
             f == [c \in F |-> Made(c[1], c[2])]
  <2>1. IsFiniteSet(Op \X tree) BY OpFacts, FS_Product
  <2>2. IsFiniteSet(F) BY <2>1, FS_Subset
  <2>3. Candidates = {f[c] : c \in F} BY DEF Candidates
  <2> HIDE DEF F, f
  <2>4. IsFiniteSet({f[c] : c \in F}) BY <2>2, ImageBound
  <2> QED BY <2>3, <2>4
<1>2. IsFiniteSet(Named) /\ Cardinality(Named) <= Cardinality(DOMAIN recognized)
      /\ IsFiniteSet(DOMAIN recognized)
  <2> DEFINE f == [p \in DOMAIN recognized |-> Made(recognized[p], p)]
  <2>1. IsFiniteSet(DOMAIN recognized) BY FS_Subset
  <2>2. /\ IsFiniteSet({f[p] : p \in DOMAIN recognized})
        /\ Cardinality({f[p] : p \in DOMAIN recognized}) <= Cardinality(DOMAIN recognized)
    BY <2>1, ImageBound
  <2>3. Named = {f[p] : p \in DOMAIN recognized} BY DEF Named
  <2> QED BY <2>1, <2>2, <2>3
<1>3. IsFiniteSet(N) BY NodesBound, FS_Subset
<1>4. Below(s, N) \subseteq N BY DEF Below
<1>5. IsFiniteSet(Below(s, N)) /\ Cardinality(Below(s, N)) <= Cardinality(N)
  BY <1>3, <1>4, FS_Subset
<1> QED BY <1>1, <1>2, <1>3, <1>5, FS_CardinalityType

(* A popped node that was counted below the stack is counted no more.      *)
LEMMA PopCounts ==
  ASSUME tree \in Tree, IsFiniteSet(tree), DOMAIN recognized \subseteq tree,
         NEW s \in Seq(Nodes), s # << >>, Apart(s), NEW N, N \subseteq Nodes
  PROVE  /\ Cardinality(Below(Popped(s), N)) <= Cardinality(Below(s, N))
         /\ Head(s) \in N =>
              Cardinality(Below(Popped(s), N)) = Cardinality(Below(s, N)) - 1
<1>1. Below(Popped(s), N) = Below(s, N) \ {Head(s)} BY PopStep
<1>2. IsFiniteSet(Below(s, N)) /\ Cardinality(Below(s, N)) \in Nat BY CountsAreFinite
<1>3. Cardinality(Below(Popped(s), N)) <= Cardinality(Below(s, N))
  BY <1>1, <1>2, FS_Subset
<1>4. Head(s) \in N => Head(s) \in Below(s, N)
  <2>1. Head(s) = s[1] /\ 1 \in 1..Len(s) /\ s[1] \in Position BY NodesType
  <2>2. Under(s[1], s[1]) BY <2>1 DEF Under, Position
  <2> QED BY <2>1, <2>2 DEF Below
<1> QED BY <1>1, <1>2, <1>3, <1>4, FS_RemoveElement

(* As long as the stack leads to q, q is still to be counted.              *)
LEMMA StillBelow ==
  ASSUME IsFiniteSet(tree), DOMAIN recognized \subseteq tree,
         NEW s, NEW N, N \subseteq Nodes, NEW q \in N, \E i \in 1..Len(s) : Under(s[i], q)
  PROVE  Cardinality(Below(s, N)) >= 1
<1>1. q \in Below(s, N) BY DEF Below
<1>2. IsFiniteSet(Below(s, N)) /\ Cardinality(Below(s, N)) \in Nat BY CountsAreFinite
<1>3. Cardinality(Below(s, N)) # 0 BY <1>1, <1>2, FS_EmptySet
<1> QED BY <1>2, <1>3

-----------------------------------------------------------------------------
(* What a step leaves alone when it leaves the spend alone.                *)
LEMMA SpendUnchanged ==
  ASSUME UNCHANGED spendVars
  PROVE  /\ Nodes' = Nodes /\ Candidates' = Candidates /\ Named' = Named
         /\ Explained' = Explained /\ Pinned' = Pinned
         /\ ScanSuffices' = ScanSuffices /\ BackstopSuffices' = BackstopSuffices
<1>1. tree' = tree /\ shaped' = shaped /\ recognized' = recognized /\ want' = want /\ at' = at
  BY DEF spendVars
<1>2. Candidates' = Candidates BY <1>1 DEF Candidates, Fits, Reads
<1>3. Nodes' = Nodes BY <1>1 DEF Nodes
<1>4. Named' = Named BY <1>1 DEF Named
<1>5. Explained' = Explained BY <1>1 DEF Explained, Fits, Reads
<1>6. Pinned' = Pinned BY <1>1 DEF Pinned
<1>7. ScanSuffices' = ScanSuffices BY <1>1 DEF ScanSuffices
<1>8. BackstopSuffices' = BackstopSuffices BY <1>1, <1>2 DEF BackstopSuffices
<1> QED BY <1>2, <1>3, <1>4, <1>5, <1>6, <1>7, <1>8

-----------------------------------------------------------------------------
(* The invariant holds at first, and every step keeps it.                  *)
LEMMA SearchInit == Init => SearchInv
<1> SUFFICES ASSUME Init PROVE SearchInv OBVIOUS
<1>1. tree \in Tree /\ IsFiniteSet(tree) BY SearchAssumption DEF Init
<1>2. DOMAIN recognized \subseteq tree /\ \A p \in DOMAIN recognized : recognized[p] \in Op
  <2>1. PICK P \in SUBSET tree : recognized \in [P -> Op] BY DEF Init, Recognitions
  <2> QED BY <2>1
<1>3. shaped \subseteq Op BY DEF Init, Shapes, Op, OpOrder
<1>4. Explained
  <2>1. CASE want \in {Identity, Unknown} BY <2>1 DEF Explained
  <2>2. CASE \E o \in Op, p \in tree : Fits(o, p) /\ want = Made(o, p) /\ at = p
    BY <2>2 DEF Explained
  <2> QED BY <2>1, <2>2 DEF Init
<1>5. SearchTypeOK
  <2>1. << << >> >> \in Seq(Nodes) BY DEF Nodes
  <2> QED BY <1>1, <1>2, <1>3, <2>1 DEF Init, SearchTypeOK, Phases
<1>6. SearchIsBounded
  <2>1. Cardinality({}) = 0 BY FS_EmptySet
  <2>2. Len(pairs) = 0 BY DEF Init
  <2> QED BY <2>1, <2>2, SearchAssumption DEF Init, SearchIsBounded
<1>7. ScanOK /\ IdentifiedOK /\ CollectOK /\ ExhaustiveOK
  BY DEF Init, ScanOK, IdentifiedOK, CollectOK, ExhaustiveOK
<1> QED BY <1>4, <1>5, <1>6, <1>7 DEF Init, SearchInv

LEMMA OfferIdentityStep ==
  ASSUME SearchInv, OfferIdentity
  PROVE  SearchInv'
<1>1. UNCHANGED spendVars /\ phase = "identity" /\ UNCHANGED <<stack, visited, pairs, todo, seen, produced>>
  BY DEF OfferIdentity
<1>2. /\ tree' = tree /\ shaped' = shaped /\ recognized' = recognized /\ want' = want /\ at' = at
      /\ stack = << << >> >> /\ visited = 0 /\ todo = << >> /\ seen = {} /\ pairs = << >>
      /\ outcome = "searching"
  BY <1>1 DEF spendVars, SearchInv
<1>3. SearchTypeOK'
  BY <1>1, <1>2, SpendUnchanged DEF SearchInv, SearchTypeOK, OfferIdentity, Phases
<1>4. SearchIsBounded' BY <1>1 DEF SearchInv, SearchIsBounded
<1>5. ScanOK'
  <2> SUFFICES ASSUME phase' = "scan" PROVE ScanOK' BY DEF ScanOK
  <2>1. Apart(stack') BY <1>1, <1>2 DEF Apart
  <2>2. Cardinality(Below(stack, Nodes)) <= Cardinality(Nodes) /\ Cardinality(Below(stack, Nodes)) \in Nat
    BY CountsAreFinite DEF SearchInv, SearchTypeOK
  <2>3. visited' + Cardinality(Below(stack', Nodes')) <= Cardinality(Nodes')
    BY <1>1, <1>2, <2>2, SpendUnchanged
  <2>4. Pinned => at \in tree BY DEF Pinned, SearchInv, SearchTypeOK
  <2>5. tree \subseteq Position BY DEF SearchInv, SearchTypeOK, Tree
  <2>6. Pinned' => \E i \in 1..Len(stack') : Under(stack'[i], at')
    <3>1. 1 \in 1..Len(stack) /\ stack[1] = << >> BY <1>2
    <3> QED BY <1>1, <1>2, <2>4, <2>5, <3>1, RootType, SpendUnchanged
  <2> QED BY <2>1, <2>3, <2>6 DEF ScanOK
<1>6. IdentifiedOK' BY <1>1, <1>2 DEF OfferIdentity, IdentifiedOK
<1> QED BY <1>1, <1>2, <1>3, <1>4, <1>5, <1>6, SpendUnchanged
        DEF OfferIdentity, SearchInv, CollectOK, ExhaustiveOK

LEMMA ScanStep ==
  ASSUME SearchInv, Scan
  PROVE  SearchInv'
<1> DEFINE h == Head(stack)
<1>1. /\ UNCHANGED spendVars /\ phase = "scan" /\ stack # << >> /\ visited < MaxVisited
      /\ UNCHANGED <<phase, pairs, seen, produced, outcome>>
      /\ visited' = visited + 1 /\ stack' = Popped(stack)
      /\ todo' = IF h \in DOMAIN recognized THEN Append(todo, <<recognized[h], h>>) ELSE todo
  BY DEF Scan
<1>2. tree' = tree /\ shaped' = shaped /\ recognized' = recognized /\ want' = want /\ at' = at
  BY <1>1 DEF spendVars
<1>3. /\ tree \in Tree /\ IsFiniteSet(tree) /\ DOMAIN recognized \subseteq tree
      /\ \A p \in DOMAIN recognized : recognized[p] \in Op
      /\ stack \in Seq(Nodes) /\ todo \in Seq(Op \X tree) /\ visited \in Nat
  BY DEF SearchInv, SearchTypeOK
<1>4. /\ Apart(stack)
      /\ visited + Cardinality(Below(stack, Nodes)) <= Cardinality(Nodes)
      /\ Pinned => \/ \E i \in 1..Len(todo) : todo[i][2] = at
                   \/ \E i \in 1..Len(stack) : Under(stack[i], at)
  BY <1>1 DEF SearchInv, ScanOK
<1>5. stack' \in Seq(Nodes) /\ Apart(stack') /\ Below(stack', Nodes) = Below(stack, Nodes) \ {h}
  BY <1>1, <1>3, <1>4, PopStep
<1>6. h \in Nodes BY <1>1, <1>3
<1>7. /\ todo' \in Seq(Op \X tree) /\ Len(todo') >= Len(todo)
      /\ \A i \in 1..Len(todo) : todo'[i] = todo[i]
      /\ \A i \in 1..Len(todo') :
           \/ i \in 1..Len(todo)
           \/ h \in DOMAIN recognized /\ todo'[i] = <<recognized[h], h>>
      /\ h \in DOMAIN recognized => todo'[Len(todo')] = <<recognized[h], h>>
                                    /\ Len(todo') \in 1..Len(todo')
  <2>1. CASE h \notin DOMAIN recognized BY <1>1, <1>3, <2>1
  <2>2. CASE h \in DOMAIN recognized
    <3> DEFINE e == <<recognized[h], h>>
    <3>1. e \in Op \X tree BY <1>3, <2>2
    <3> HIDE DEF e
    <3>2. todo' = Append(todo, e) BY <1>1, <2>2 DEF e
    <3> QED BY <1>3, <2>2, <3>1, <3>2 DEF e
  <2> QED BY <2>1, <2>2
<1>8. SearchTypeOK'
  BY <1>1, <1>2, <1>5, <1>7, SpendUnchanged DEF SearchInv, SearchTypeOK
<1>9. SearchIsBounded' BY <1>1, <1>3, SearchAssumption DEF SearchInv, SearchIsBounded
<1>10. ScanOK'
  <2>1. Cardinality(Below(Popped(stack), Nodes)) = Cardinality(Below(stack, Nodes)) - 1
    BY <1>1, <1>3, <1>4, <1>6, PopCounts
  <2>2. Cardinality(Below(stack, Nodes)) \in Nat /\ Cardinality(Nodes) \in Nat
    BY <1>3, CountsAreFinite
  <2>3. visited' + Cardinality(Below(stack', Nodes')) <= Cardinality(Nodes')
    BY <1>1, <1>3, <1>4, <2>1, <2>2, SpendUnchanged
  <2>4. ASSUME Pinned 
        PROVE  \/ \E i \in 1..Len(todo') : todo'[i][2] = at
               \/ \E i \in 1..Len(stack') : Under(stack'[i], at)
    <3>1. at \in DOMAIN recognized /\ at \in Nodes BY <1>3, <2>4, NodesType DEF Pinned
    <3>2. CASE \E i \in 1..Len(todo) : todo[i][2] = at BY <1>3, <1>7, <3>2
    <3>3. CASE \E i \in 1..Len(stack) : Under(stack[i], at)
      <4>1. at \in Below(stack, Nodes) BY <3>1, <3>3 DEF Below
      <4>2. CASE at = h BY <1>7, <3>1, <4>2
      <4>3. CASE at # h
        <5>1. at \in Below(stack', Nodes) BY <1>5, <4>1, <4>3
        <5> QED BY <5>1 DEF Below
      <4> QED BY <4>2, <4>3
    <3> QED BY <1>4, <2>4, <3>2, <3>3
  <2> QED BY <1>1, <1>2, <1>5, <2>3, <2>4, SpendUnchanged DEF ScanOK
<1>11. IdentifiedOK'
  <2>1. \A i \in 1..Len(todo) :
          todo[i][2] \in DOMAIN recognized /\ todo[i][1] = recognized[todo[i][2]]
    BY <1>1 DEF SearchInv, IdentifiedOK
  <2>2. \A i \in 1..Len(todo') :
          todo'[i][2] \in DOMAIN recognized /\ todo'[i][1] = recognized[todo'[i][2]]
    BY <1>7, <2>1
  <2> QED BY <1>1, <1>2, <2>2, SpendUnchanged DEF SearchInv, IdentifiedOK
<1> QED BY <1>1, <1>2, <1>8, <1>9, <1>10, <1>11, SpendUnchanged
        DEF SearchInv, CollectOK, ExhaustiveOK

LEMMA ScanEndsStep ==
  ASSUME SearchInv, ScanEnds
  PROVE  SearchInv'
<1>1. /\ UNCHANGED spendVars /\ phase = "scan" /\ phase' = "identified"
      /\ stack = << >> \/ visited >= MaxVisited
      /\ UNCHANGED <<stack, visited, pairs, todo, seen, produced, outcome>>
  BY DEF ScanEnds
<1>2. tree' = tree /\ shaped' = shaped /\ recognized' = recognized /\ want' = want /\ at' = at
  BY <1>1 DEF spendVars
<1>3. /\ tree \in Tree /\ IsFiniteSet(tree) /\ DOMAIN recognized \subseteq tree
      /\ stack \in Seq(Nodes) /\ visited \in Nat
  BY DEF SearchInv, SearchTypeOK
<1>4. ASSUME Pinned, ScanSuffices PROVE \E i \in 1..Len(todo) : todo[i][2] = at
  <2>1. at \in Nodes BY <1>3, <1>4, NodesType DEF Pinned
  <2>2. ASSUME \E i \in 1..Len(stack) : Under(stack[i], at) PROVE FALSE
    <3>1. Cardinality(Below(stack, Nodes)) >= 1 BY <1>3, <2>1, <2>2, StillBelow
    <3>2. stack # << >> BY <1>3, <2>2
    <3>3. visited + Cardinality(Below(stack, Nodes)) <= Cardinality(Nodes)
      BY <1>1 DEF SearchInv, ScanOK
    <3>4. /\ Cardinality(Nodes) <= 2 * Cardinality(tree) + 1
          /\ Cardinality(Nodes) \in Nat /\ Cardinality(tree) \in Nat
      BY <1>3, NodesBound
    <3>5. Cardinality(Below(stack, Nodes)) \in Nat BY <1>3, CountsAreFinite
    <3> QED BY <1>1, <1>3, <1>4, <3>1, <3>2, <3>3, <3>4, <3>5, SearchAssumption DEF ScanSuffices
  <2> QED BY <1>1, <1>4, <2>2 DEF SearchInv, ScanOK
<1>5. SearchTypeOK' BY <1>1, <1>2, SpendUnchanged DEF SearchInv, SearchTypeOK, Phases
<1>6. SearchIsBounded' BY <1>1 DEF SearchInv, SearchIsBounded
<1>7. IdentifiedOK' BY <1>1, <1>2, <1>4, SpendUnchanged DEF SearchInv, IdentifiedOK
<1> QED BY <1>1, <1>2, <1>5, <1>6, <1>7, SpendUnchanged
        DEF SearchInv, ScanOK, CollectOK, ExhaustiveOK

LEMMA OfferStep ==
  ASSUME SearchInv, Offer
  PROVE  SearchInv'
<1> DEFINE o == Head(todo)[1]
           p == Head(todo)[2]
<1>1. /\ UNCHANGED spendVars /\ phase \in {"identified", "exhaustive"} /\ todo # << >>
      /\ todo' = Tail(todo) /\ UNCHANGED <<stack, visited, pairs>>
      /\ IF Passes(o, p)
           THEN UNCHANGED <<seen, produced, phase, outcome>>
           ELSE /\ seen' = seen \cup {Made(o, p)}
                /\ produced' = produced + 1
                /\ IF Made(o, p) = want
                     THEN phase' = "done" /\ outcome' = "derived"
                     ELSE UNCHANGED <<phase, outcome>>
  BY DEF Offer
<1>2. tree' = tree /\ shaped' = shaped /\ recognized' = recognized /\ want' = want /\ at' = at
  BY <1>1 DEF spendVars
<1>3. /\ tree \in Tree /\ IsFiniteSet(tree) /\ DOMAIN recognized \subseteq tree
      /\ \A q \in DOMAIN recognized : recognized[q] \in Op
      /\ todo \in Seq(Op \X tree) /\ produced \in Nat
  BY DEF SearchInv, SearchTypeOK
<1>4. Head(todo) = todo[1] /\ 1 \in 1..Len(todo) /\ o \in Op /\ p \in tree
  BY <1>1, <1>3
<1>5. /\ todo' \in Seq(Op \X tree) /\ Len(todo') = Len(todo) - 1 /\ Len(todo) \in Nat \ {0}
      /\ \A i \in 1..Len(todo') : i + 1 \in 1..Len(todo) /\ todo'[i] = todo[i + 1]
      /\ \A i \in 1..Len(todo) : i # 1 => i - 1 \in 1..Len(todo') /\ todo'[i - 1] = todo[i]
  BY <1>1, <1>3
<1> HIDE DEF o, p
<1>6. outcome = "searching" /\ want \notin seen /\ seen \subseteq Candidates
  BY <1>1 DEF SearchInv
<1>7. /\ IsFiniteSet(Candidates) /\ Cardinality(Candidates) \in Nat
      /\ IsFiniteSet(Named) /\ Cardinality(Named) <= Cardinality(DOMAIN recognized)
      /\ Cardinality(Named) \in Nat /\ Cardinality(DOMAIN recognized) \in Nat
  BY <1>3, CountsAreFinite
<1>8. IsFiniteSet(seen) /\ Cardinality(seen) \in Nat BY <1>6, <1>7, FS_Subset, FS_CardinalityType
<1>9. produced = 1 + Cardinality(seen) /\ produced <= MaxCandidates
  BY DEF SearchInv, SearchIsBounded
<1>10. ASSUME ~Passes(o, p)
       PROVE  /\ Made(o, p) \in Candidates /\ Made(o, p) \notin seen
              /\ Cardinality(seen') = Cardinality(seen) + 1 /\ produced < MaxCandidates
  <2>1. Fits(o, p) /\ Made(o, p) \notin seen /\ produced < MaxCandidates
    BY <1>3, <1>10, SearchAssumption DEF Passes
  <2>2. Made(o, p) \in Candidates
    <3>1. <<o, p>> \in {d \in Op \X tree : Fits(d[1], d[2])} BY <1>4, <2>1
    <3> QED BY <3>1 DEF Candidates
  <2>3. Cardinality(seen \cup {Made(o, p)}) = Cardinality(seen) + 1
    BY <1>8, <2>1, FS_AddElement
  <2> QED BY <1>1, <1>10, <2>1, <2>2, <2>3
<1>11. SearchTypeOK'
  <2>1. /\ phase' \in Phases /\ produced' \in Nat
        /\ outcome' \in {"searching", "derived", "unverifiable"}
    BY <1>1, <1>3, <1>6 DEF Phases
  <2> QED BY <1>1, <1>2, <1>5, <2>1, SpendUnchanged DEF SearchInv, SearchTypeOK
<1>12. SearchIsBounded'
  <2>1. CASE Passes(o, p) BY <1>1, <2>1 DEF SearchInv, SearchIsBounded
  <2>2. CASE ~Passes(o, p)
    <3>1. produced' = produced + 1 BY <1>1, <2>2
    <3> QED BY <1>1, <1>3, <1>8, <1>9, <1>10, <2>2, <3>1, SearchAssumption
            DEF SearchInv, SearchIsBounded
  <2> QED BY <2>1, <2>2
<1>13. seen' \subseteq Candidates' BY <1>1, <1>6, <1>10, SpendUnchanged
<1>14. /\ (phase = "done" <=> outcome # "searching")'
       /\ (outcome = "searching" => want \notin seen)'
       /\ outcome' # "unverifiable" /\ phase' \in {phase, "done"}
  BY <1>1, <1>2, <1>6
(* The candidate wanted is never passed over below the bound.              *)
<1>15. ASSUME Made(o, p) = want, Fits(o, p), NEW B, IsFiniteSet(B), seen \subseteq B, want \in B,
              Cardinality(B) <= MaxCandidates - 1
       PROVE  phase' = "done"
  <2>1. seen \cup {want} \subseteq B BY <1>15
  <2>2. Cardinality(seen \cup {want}) = Cardinality(seen) + 1 BY <1>6, <1>8, FS_AddElement
  <2>3. Cardinality(seen \cup {want}) <= Cardinality(B) /\ Cardinality(B) \in Nat
    BY <1>15, <2>1, FS_Subset, FS_CardinalityType
  <2>4. ~(produced >= MaxCandidates) BY <1>8, <1>9, <1>15, <2>2, <2>3, SearchAssumption
  <2>5. ~Passes(o, p) BY <1>6, <1>15, <2>4 DEF Passes
  <2> QED BY <1>1, <1>15, <2>5
<1>16. IdentifiedOK'
  <2> SUFFICES ASSUME phase' = "identified" PROVE IdentifiedOK'
    BY <1>1, <1>14 DEF IdentifiedOK
  <2>1. phase = "identified" BY <1>14
  <2>2. /\ seen \subseteq Named
        /\ \A i \in 1..Len(todo) :
             todo[i][2] \in DOMAIN recognized /\ todo[i][1] = recognized[todo[i][2]]
        /\ Pinned /\ ScanSuffices => \E i \in 1..Len(todo) : todo[i][2] = at
    BY <2>1 DEF SearchInv, IdentifiedOK
  <2>3. p \in DOMAIN recognized /\ o = recognized[p] BY <1>4, <2>2 DEF o, p
  <2>4. seen' \subseteq Named BY <1>1, <2>2, <2>3 DEF Named
  <2>5. \A i \in 1..Len(todo') :
          todo'[i][2] \in DOMAIN recognized /\ todo'[i][1] = recognized[todo'[i][2]]
    BY <1>5, <2>2
  <2>6. ASSUME Pinned, ScanSuffices PROVE \E i \in 1..Len(todo') : todo'[i][2] = at
    <3>1. PICK i \in 1..Len(todo) : todo[i][2] = at BY <2>2, <2>6
    <3>2. CASE i # 1 BY <1>5, <3>1, <3>2
    <3>3. CASE i = 1
      <4>1. p = at /\ o = recognized[at] /\ Made(o, p) = want
        BY <1>4, <2>3, <2>6, <3>1, <3>3 DEF p, Pinned
      <4>2. want \in Named BY <2>3, <4>1 DEF Named
      <4>3. want # Identity /\ want # Unknown BY <1>4, <4>1, OpFacts
      <4>4. PICK c \in Op : Fits(c, at) /\ want = Made(c, at)
        BY <4>3 DEF SearchInv, Explained
      <4>5. c = o BY <1>4, <4>1, <4>4, OpFacts
      <4>6. Cardinality(Named) <= MaxCandidates - 1
        BY <1>7, <2>6, SearchAssumption DEF ScanSuffices
      <4> QED BY <1>7, <1>15, <2>2, <4>1, <4>2, <4>4, <4>5, <4>6
    <3> QED BY <3>2, <3>3
  <2> QED BY <1>1, <1>2, <2>4, <2>5, <2>6, SpendUnchanged DEF IdentifiedOK
<1>17. ExhaustiveOK'
  <2> SUFFICES ASSUME phase' = "exhaustive", want # Unknown, BackstopSuffices
               PROVE  \E i \in 1..Len(todo') :
                        Fits(todo'[i][1], todo'[i][2]) /\ Made(todo'[i][1], todo'[i][2]) = want
    BY <1>1, <1>2, SpendUnchanged DEF ExhaustiveOK, Fits, Reads, Made
  <2>1. phase = "exhaustive" BY <1>14
  <2>2. PICK i \in 1..Len(todo) :
          Fits(todo[i][1], todo[i][2]) /\ Made(todo[i][1], todo[i][2]) = want
    BY <2>1 DEF SearchInv, ExhaustiveOK
  <2>3. CASE i # 1 BY <1>5, <2>2, <2>3
  <2>4. CASE i = 1
    <3>1. Fits(o, p) /\ Made(o, p) = want BY <1>4, <2>2, <2>4 DEF o, p
    <3>2. want \in Candidates
      <4>1. <<o, p>> \in {d \in Op \X tree : Fits(d[1], d[2])} BY <1>4, <3>1
      <4> QED BY <3>1, <4>1 DEF Candidates
    <3>3. Cardinality(Candidates) <= MaxCandidates - 1
      BY <1>7, SearchAssumption DEF BackstopSuffices
    <3> QED BY <1>6, <1>7, <1>15, <3>1, <3>2, <3>3
  <2> QED BY <2>3, <2>4
<1> QED BY <1>1, <1>2, <1>11, <1>12, <1>13, <1>14, <1>16, <1>17, SpendUnchanged
        DEF SearchInv, ScanOK, CollectOK

LEMMA IdentifiedEndsStep ==
  ASSUME SearchInv, IdentifiedEnds
  PROVE  SearchInv'
<1>1. /\ UNCHANGED spendVars /\ phase = "identified" /\ todo = << >> /\ phase' = "collect"
      /\ stack' = << << >> >>
      /\ UNCHANGED <<visited, pairs, todo, seen, produced, outcome>>
  BY DEF IdentifiedEnds
<1>2. tree' = tree /\ shaped' = shaped /\ recognized' = recognized /\ want' = want /\ at' = at
  BY <1>1 DEF spendVars
<1>3. /\ tree \in Tree /\ IsFiniteSet(tree) /\ DOMAIN recognized \subseteq tree
      /\ pairs = << >> /\ outcome = "searching" /\ want # Identity
  BY <1>1 DEF SearchInv, SearchTypeOK
<1>4. SearchTypeOK'
  <2>1. << << >> >> \in Seq(Nodes) BY DEF Nodes
  <2> QED BY <1>1, <1>2, <2>1, SpendUnchanged DEF SearchInv, SearchTypeOK, Phases
<1>5. SearchIsBounded' BY <1>1 DEF SearchInv, SearchIsBounded
<1>6. ~(Pinned /\ ScanSuffices) BY <1>1 DEF SearchInv, IdentifiedOK
<1>7. CollectOK'
  <2>1. Apart(stack') BY <1>1 DEF Apart
  <2>2. tree \subseteq Nodes /\ tree \subseteq Position BY <1>3, NodesType
  <2>3. Cardinality(Below(stack', tree)) <= Cardinality(tree)
        /\ Cardinality(Below(stack', tree)) \in Nat
    BY <1>3, <2>2, CountsAreFinite
  <2>4. Len(pairs') = 0 BY <1>1, <1>3
  <2>5. Len(pairs') + Cardinality(Below(stack', tree')) <= Cardinality(tree')
    BY <1>2, <2>3, <2>4
  <2>6. want # Unknown => \E i \in 1..Len(stack') : Under(stack'[i], at)
    <3>1. 1 \in 1..Len(stack') /\ stack'[1] = << >> BY <1>1
    <3>2. want # Unknown => at \in tree BY <1>3 DEF SearchInv, Explained
    <3> QED BY <2>2, <3>1, <3>2, RootType
  <2> QED BY <1>1, <1>2, <2>1, <2>5, <2>6 DEF CollectOK
<1> QED BY <1>1, <1>2, <1>3, <1>4, <1>5, <1>6, <1>7, SpendUnchanged
        DEF SearchInv, ScanOK, IdentifiedOK, ExhaustiveOK

LEMMA CollectStep ==
  ASSUME SearchInv, Collect
  PROVE  SearchInv'
<1> DEFINE h == Head(stack)
<1>1. /\ UNCHANGED spendVars /\ phase = "collect" /\ stack # << >>
      /\ Len(pairs) < MaxCandidates /\ stack' = Popped(stack)
      /\ pairs' = IF h \in tree THEN Append(pairs, h) ELSE pairs
      /\ UNCHANGED <<phase, visited, todo, seen, produced, outcome>>
  BY DEF Collect
<1>2. tree' = tree /\ shaped' = shaped /\ recognized' = recognized /\ want' = want /\ at' = at
  BY <1>1 DEF spendVars
<1>3. /\ tree \in Tree /\ IsFiniteSet(tree) /\ DOMAIN recognized \subseteq tree
      /\ stack \in Seq(Nodes) /\ pairs \in Seq(tree) /\ want # Identity
  BY <1>1 DEF SearchInv, SearchTypeOK
<1>4. /\ todo = << >> /\ Apart(stack)
      /\ Len(pairs) + Cardinality(Below(stack, tree)) <= Cardinality(tree)
      /\ want # Unknown => \/ \E i \in 1..Len(pairs) : pairs[i] = at
                           \/ \E i \in 1..Len(stack) : Under(stack[i], at)
  BY <1>1 DEF SearchInv, CollectOK
<1>5. tree \subseteq Nodes BY <1>3, NodesType
<1>6. stack' \in Seq(Nodes) /\ Apart(stack') /\ Below(stack', tree) = Below(stack, tree) \ {h}
  BY <1>1, <1>3, <1>4, <1>5, PopStep
<1> HIDE DEF h
<1>7. /\ pairs' \in Seq(tree) /\ Len(pairs) \in Nat
      /\ Len(pairs') = Len(pairs) + (IF h \in tree THEN 1 ELSE 0)
      /\ \A i \in 1..Len(pairs) : i \in 1..Len(pairs') /\ pairs'[i] = pairs[i]
      /\ h \in tree => Len(pairs') \in 1..Len(pairs') /\ pairs'[Len(pairs')] = h
  <2>1. CASE h \in tree BY <1>1, <1>3, <2>1
  <2>2. CASE h \notin tree BY <1>1, <1>3, <2>2
  <2> QED BY <2>1, <2>2
<1>8. SearchTypeOK'
  BY <1>1, <1>2, <1>6, <1>7, SpendUnchanged DEF SearchInv, SearchTypeOK
<1>9. SearchIsBounded' BY <1>1, <1>7, SearchAssumption DEF SearchInv, SearchIsBounded
<1>10. CollectOK'
  <2>1. /\ Cardinality(Below(Popped(stack), tree)) <= Cardinality(Below(stack, tree))
        /\ h \in tree =>
             Cardinality(Below(Popped(stack), tree)) = Cardinality(Below(stack, tree)) - 1
    BY <1>1, <1>3, <1>4, <1>5, PopCounts DEF h
  <2>2. /\ Cardinality(Below(stack, tree)) \in Nat /\ Cardinality(tree) \in Nat
        /\ Cardinality(Below(Popped(stack), tree)) \in Nat
    BY <1>3, <1>5, CountsAreFinite
  <2>3. Len(pairs') + Cardinality(Below(stack', tree')) <= Cardinality(tree')
    <3>1. stack' = Popped(stack) /\ tree' = tree BY <1>1, <1>2
    <3>2. Len(pairs') + Cardinality(Below(Popped(stack), tree)) <= Cardinality(tree)
      BY <1>4, <1>7, <2>1, <2>2
    <3> QED BY <3>1, <3>2
  <2>4. ASSUME want # Unknown
        PROVE  \/ \E i \in 1..Len(pairs') : pairs'[i] = at
               \/ \E i \in 1..Len(stack') : Under(stack'[i], at)
    <3>1. at \in tree BY <1>3, <2>4 DEF SearchInv, Explained
    <3>2. CASE \E i \in 1..Len(pairs) : pairs[i] = at BY <1>7, <3>2
    <3>3. CASE \E i \in 1..Len(stack) : Under(stack[i], at)
      <4>1. at \in Below(stack, tree) BY <3>1, <3>3 DEF Below
      <4>2. CASE at = h BY <1>7, <3>1, <4>2
      <4>3. CASE at # h
        <5>1. at \in Below(stack', tree) BY <1>6, <4>1, <4>3
        <5> QED BY <5>1 DEF Below
      <4> QED BY <4>2, <4>3
    <3> QED BY <1>4, <2>4, <3>2, <3>3
  <2> QED BY <1>1, <1>2, <1>4, <1>6, <2>3, <2>4 DEF CollectOK
<1> QED BY <1>1, <1>2, <1>3, <1>8, <1>9, <1>10, SpendUnchanged
        DEF SearchInv, ScanOK, IdentifiedOK, ExhaustiveOK

LEMMA CollectEndsStep ==
  ASSUME SearchInv, CollectEnds
  PROVE  SearchInv'
<1>1. /\ UNCHANGED spendVars /\ phase = "collect" /\ phase' = "exhaustive"
      /\ stack = << >> \/ Len(pairs) >= MaxCandidates
      /\ todo' = [j \in 1..(6 * Len(pairs)) |->
                    <<OpOrder[((j - 1) % 6) + 1], pairs[((j - 1) \div 6) + 1]>>]
      /\ UNCHANGED <<stack, visited, pairs, seen, produced, outcome>>
  BY DEF CollectEnds
<1>2. tree' = tree /\ shaped' = shaped /\ recognized' = recognized /\ want' = want /\ at' = at
  BY <1>1 DEF spendVars
<1>3. /\ tree \in Tree /\ IsFiniteSet(tree) /\ DOMAIN recognized \subseteq tree
      /\ stack \in Seq(Nodes) /\ pairs \in Seq(tree) /\ want # Identity /\ Len(pairs) \in Nat
  BY <1>1 DEF SearchInv, SearchTypeOK
<1>4. \A j \in 1..(6 * Len(pairs)) :
        ((j - 1) % 6) + 1 \in 1..6 /\ ((j - 1) \div 6) + 1 \in 1..Len(pairs)
  BY <1>3
<1>5. todo' \in Seq(Op \X tree) /\ Len(todo') = 6 * Len(pairs)
  <2>1. 6 * Len(pairs) \in Nat BY <1>3
  <2>2. \A j \in 1..(6 * Len(pairs)) :
          <<OpOrder[((j - 1) % 6) + 1], pairs[((j - 1) \div 6) + 1]>> \in Op \X tree
    BY <1>3, <1>4, OpFacts
  <2> QED BY <1>1, <2>1, <2>2
<1>6. ASSUME want # Unknown, BackstopSuffices
      PROVE  \E j \in 1..Len(todo') :
               Fits(todo'[j][1], todo'[j][2]) /\ Made(todo'[j][1], todo'[j][2]) = want
  <2>1. at \in tree /\ \E o \in Op : Fits(o, at) /\ want = Made(o, at)
    BY <1>3, <1>6 DEF SearchInv, Explained
  <2>2. tree \subseteq Nodes BY <1>3, NodesType
  <2>3. ASSUME \E i \in 1..Len(stack) : Under(stack[i], at) PROVE FALSE
    <3>1. Cardinality(Below(stack, tree)) >= 1 BY <1>3, <2>1, <2>2, <2>3, StillBelow
    <3>2. stack # << >> BY <1>3, <2>3
    <3>3. Len(pairs) + Cardinality(Below(stack, tree)) <= Cardinality(tree)
      BY <1>1 DEF SearchInv, CollectOK
    <3>4. Cardinality(Below(stack, tree)) \in Nat /\ Cardinality(tree) \in Nat
      BY <1>3, <2>2, CountsAreFinite
    <3> QED BY <1>1, <1>3, <1>6, <3>1, <3>2, <3>3, <3>4, SearchAssumption DEF BackstopSuffices
  <2>4. PICK i \in 1..Len(pairs) : pairs[i] = at
    BY <1>1, <1>6, <2>3 DEF SearchInv, CollectOK
  <2>5. PICK k \in 1..6 : Fits(OpOrder[k], at) /\ want = Made(OpOrder[k], at)
    BY <2>1, OpFacts
  <2> DEFINE j == 6 * (i - 1) + k
  <2>6. j \in 1..(6 * Len(pairs)) /\ ((j - 1) % 6) + 1 = k /\ ((j - 1) \div 6) + 1 = i
    BY <1>3
  <2>7. todo'[j] = <<OpOrder[k], at>> BY <1>1, <2>4, <2>6
  <2> QED BY <1>5, <2>5, <2>6, <2>7
<1>7. SearchTypeOK' BY <1>1, <1>2, <1>5, SpendUnchanged DEF SearchInv, SearchTypeOK, Phases
<1>8. SearchIsBounded' BY <1>1 DEF SearchInv, SearchIsBounded
<1>9. ExhaustiveOK'
  BY <1>1, <1>2, <1>6, SpendUnchanged DEF ExhaustiveOK, Fits, Reads, Made
<1> QED BY <1>1, <1>2, <1>3, <1>7, <1>8, <1>9, SpendUnchanged
        DEF SearchInv, ScanOK, IdentifiedOK, CollectOK

LEMMA GiveUpStep ==
  ASSUME SearchInv, GiveUp
  PROVE  SearchInv'
<1>1. /\ UNCHANGED spendVars /\ phase = "exhaustive" /\ todo = << >>
      /\ phase' = "done" /\ outcome' = "unverifiable"
      /\ UNCHANGED <<stack, visited, pairs, todo, seen, produced>>
  BY DEF GiveUp
<1>2. tree' = tree /\ shaped' = shaped /\ recognized' = recognized /\ want' = want /\ at' = at
  BY <1>1 DEF spendVars
<1>3. want # Unknown => ~BackstopSuffices BY <1>1 DEF SearchInv, ExhaustiveOK
<1>4. SearchTypeOK' BY <1>1, <1>2, SpendUnchanged DEF SearchInv, SearchTypeOK, Phases
<1>5. SearchIsBounded' BY <1>1 DEF SearchInv, SearchIsBounded
<1> QED BY <1>1, <1>2, <1>3, <1>4, <1>5, SpendUnchanged
        DEF SearchInv, ScanOK, IdentifiedOK, CollectOK, ExhaustiveOK

LEMMA SearchStutter ==
  ASSUME SearchInv, UNCHANGED vars
  PROVE  SearchInv'
<1>1. UNCHANGED spendVars BY DEF vars
<1>2. /\ tree' = tree /\ shaped' = shaped /\ recognized' = recognized /\ want' = want /\ at' = at
      /\ UNCHANGED <<phase, stack, visited, pairs, todo, seen, produced, outcome>>
  BY <1>1 DEF spendVars, vars
<1>3. SearchTypeOK' BY <1>1, <1>2, SpendUnchanged DEF SearchInv, SearchTypeOK
<1>4. SearchIsBounded' BY <1>2 DEF SearchInv, SearchIsBounded
<1>5. ScanOK' BY <1>1, <1>2, SpendUnchanged DEF SearchInv, ScanOK
<1>6. IdentifiedOK' BY <1>1, <1>2, SpendUnchanged DEF SearchInv, IdentifiedOK
<1>7. CollectOK' BY <1>1, <1>2, SpendUnchanged DEF SearchInv, CollectOK
<1>8. ExhaustiveOK'
  BY <1>1, <1>2, SpendUnchanged DEF SearchInv, ExhaustiveOK, Fits, Reads, Made
<1> QED BY <1>1, <1>2, <1>3, <1>4, <1>5, <1>6, <1>7, <1>8, SpendUnchanged DEF SearchInv

LEMMA SearchStep ==
  ASSUME SearchInv, [Next]_vars
  PROVE  SearchInv'
<1>1. CASE OfferIdentity BY <1>1, OfferIdentityStep
<1>2. CASE Scan BY <1>2, ScanStep
<1>3. CASE ScanEnds BY <1>3, ScanEndsStep
<1>4. CASE Offer BY <1>4, OfferStep
<1>5. CASE IdentifiedEnds BY <1>5, IdentifiedEndsStep
<1>6. CASE Collect BY <1>6, CollectStep
<1>7. CASE CollectEnds BY <1>7, CollectEndsStep
<1>8. CASE GiveUp BY <1>8, GiveUpStep
<1>9. CASE UNCHANGED vars BY <1>9, SearchStutter
<1> QED BY <1>1, <1>2, <1>3, <1>4, <1>5, <1>6, <1>7, <1>8, <1>9 DEF Next

-----------------------------------------------------------------------------
(* The invariant of the search: what the stack still leads to, what todo   *)
(* holds and what was seen account for every candidate of the spend.       *)
THEOREM SearchInvariance == Spec => []SearchInv
<1>1. Init => SearchInv BY SearchInit
<1>2. SearchInv /\ [Next]_vars => SearchInv' BY SearchStep
<1> QED BY <1>1, <1>2, PTL DEF Spec

(* No solution makes the search visit, collect or produce past its bounds. *)
THEOREM Boundedness == Spec => []SearchIsBounded
<1>1. SearchInv => SearchIsBounded BY DEF SearchInv
<1> QED BY <1>1, SearchInvariance, PTL

(* candidateStates with deriveVerifiedState: whatever the table recognizes *)
(* and in whatever order candidates come, a spend the resolver understands *)
(* is refused only when its solution exceeds the exhaustive search.        *)
THEOREM Completeness == Spec => []OnlyLargeSolutionsAreRefused
<1>1. SearchInv => OnlyLargeSolutionsAreRefused
  <2> SUFFICES ASSUME SearchInv, outcome = "unverifiable", want # Unknown
               PROVE  \/ Cardinality(Candidates) >= MaxCandidates
                      \/ Cardinality(tree) > MaxCandidates
    BY DEF OnlyLargeSolutionsAreRefused
  <2>1. Cardinality(Candidates) \in Nat /\ Cardinality(tree) \in Nat
    <3>1. tree \subseteq Nodes BY NodesType DEF SearchInv, SearchTypeOK
    <3> QED BY <3>1, CountsAreFinite DEF SearchInv, SearchTypeOK
  <2>2. ~BackstopSuffices BY DEF SearchInv
  <2> QED BY <2>1, <2>2, SearchAssumption DEF BackstopSuffices
<1> QED BY <1>1, SearchInvariance, PTL

(* The identified candidates come before the exhaustive ones: an operation *)
(* the pinned table names is not crowded out by the rest of the solution.  *)
THEOREM PinnedCompleteness == Spec => []PinnedOperationIsDerived
<1>1. SearchInv => PinnedOperationIsDerived
  <2> SUFFICES ASSUME SearchInv, outcome = "unverifiable", Pinned
               PROVE  \/ 2 * Cardinality(tree) + 1 > MaxVisited
                      \/ Cardinality(DOMAIN recognized) >= MaxCandidates
    BY DEF PinnedOperationIsDerived, Pinned
  <2>1. Cardinality(DOMAIN recognized) \in Nat /\ Cardinality(tree) \in Nat
    <3>1. tree \subseteq Nodes BY NodesType DEF SearchInv, SearchTypeOK
    <3> QED BY <3>1, CountsAreFinite DEF SearchInv, SearchTypeOK
  <2>2. ~ScanSuffices BY DEF SearchInv
  <2> QED BY <2>1, <2>2, SearchAssumption DEF ScanSuffices
<1> QED BY <1>1, SearchInvariance, PTL
=============================================================================
