--------------------------- MODULE SingletonProofs ---------------------------
(***************************************************************************)
(* Lemmas on chains, their views and the coins on them, for the drivers of *)
(* both languages.                                                         *)
(***************************************************************************)
EXTENDS Singleton, FiniteSetTheorems, SequenceTheorems, TLAPS

-----------------------------------------------------------------------------
(* Paths and views.                                                        *)

(* The tip of a chain is a path as long as the chain.                      *)
LEMMA TipType ==
  ASSUME NEW v \in Seq(Link)
  PROVE  Tip(v) \in Path /\ Len(Tip(v)) = Len(v)
<1>1. Len(v) \in Nat /\ \A i \in 1..Len(v) : v[i].st \in State \cup {Launcher}
  <2>1. \A i \in 1..Len(v) : v[i] \in Link OBVIOUS
  <2>2. \A l \in Link : l.st \in State \cup {Launcher} BY DEF Link
  <2> QED BY <2>1, <2>2
<1>2. Tip(v) \in Seq(State \cup {Launcher})
  BY <1>1 DEF Tip
<1> QED BY <1>1, <1>2 DEF Tip, Path

(* A prefix of a sequence has the type of the sequence.                    *)
LEMMA PrefixType ==
  ASSUME NEW S, NEW s \in Seq(S), NEW n \in 0..Len(s)
  PROVE  /\ SubSeq(s, 1, n) \in Seq(S)
         /\ Len(SubSeq(s, 1, n)) = n
         /\ \A i \in 1..n : SubSeq(s, 1, n)[i] = s[i]
BY SubSeqProperties

(* What the node says of any coin is a coin record.                        *)
LEMMA RecordType ==
  ASSUME NEW v \in Seq(Link), NEW id \in Path
  PROVE  RecordOf(v, id) \in CoinRecord
<1>1. Len(id) \in Nat BY DEF Path
<1>2. CASE Len(id) < Len(v)
  <2>1. Len(id) + 1 \in 1..Len(v) BY <1>1, <1>2
  <2>2. v[Len(id) + 1] \in Link BY <2>1
  <2> QED BY <1>2, <2>2 DEF RecordOf, CoinRecord, Link
<1>3. CASE ~(Len(id) < Len(v))
  BY <1>3 DEF RecordOf, CoinRecord
<1> QED BY <1>2, <1>3

LEMMA ChildrenType ==
  ASSUME NEW v \in Seq(Link), NEW id \in Path
  PROVE  /\ ChildrenOf(v, id) \subseteq CoinRecord
         /\ \A r \in ChildrenOf(v, id) :
              /\ Len(id) < Len(v)
              /\ r = RecordOf(v, SubSeq(Tip(v), 1, Len(id) + 1))
              /\ Len(r.id) = Len(id) + 1
              /\ ~r.spent => r.id = Tip(v)
<1>0. Len(id) \in Nat /\ Len(v) \in Nat BY DEF Path
<1>1. CASE OnChain(v, id) /\ Len(id) < Len(v)
  <2>1. Tip(v) \in Path /\ Len(Tip(v)) = Len(v) BY TipType
  <2>2. Len(id) + 1 \in 0..Len(Tip(v)) BY <1>0, <1>1, <2>1
  <2> DEFINE p == SubSeq(Tip(v), 1, Len(id) + 1)
  <2>3. p \in Path /\ Len(p) = Len(id) + 1
    BY <2>1, <2>2, PrefixType DEF Path
  <2>4. RecordOf(v, p) \in CoinRecord BY <2>3, RecordType
  <2>5. RecordOf(v, p).id = p /\ (RecordOf(v, p).spent <=> Len(p) < Len(v))
    BY DEF RecordOf
  <2>6. ~RecordOf(v, p).spent => p = Tip(v)
    <3>1. SUFFICES ASSUME ~(Len(p) < Len(v)) PROVE p = Tip(v) BY <2>5
    <3>2. Len(id) + 1 = Len(Tip(v)) BY <1>0, <1>1, <2>1, <2>3, <3>1
    <3> QED BY <2>1, <3>2, SubSeqFull DEF Path
  <2> QED BY <1>1, <2>3, <2>4, <2>5, <2>6 DEF ChildrenOf
<1>2. CASE ~(OnChain(v, id) /\ Len(id) < Len(v))
  BY <1>2 DEF ChildrenOf
<1> QED BY <1>1, <1>2

(* A view is a prefix of the chain, the chain itself among them.           *)
LEMMA ViewsType ==
  ASSUME NEW v \in Seq(Link)
  PROVE  /\ v \in Views(v)
         /\ \A w \in Views(v) :
              /\ w \in Seq(Link)
              /\ Len(w) <= Len(v)
              /\ w # << >> => v # << >> /\ w[1] = v[1]
<1>0. Len(v) \in Nat /\ Lag \in Nat BY SingletonAssumption
<1>1. v \in Views(v)
  <2>1. Len(v) \in {m \in 0..Len(v) : m + Lag >= Len(v) /\ (m \in {1, 2} => m = Len(v))}
    BY <1>0
  <2> QED BY <2>1, SubSeqFull DEF Views
<1>2. ASSUME NEW w \in Views(v)
      PROVE  w \in Seq(Link) /\ Len(w) <= Len(v) /\ (w # << >> => v # << >> /\ w[1] = v[1])
  <2>1. PICK n \in 0..Len(v) : w = SubSeq(v, 1, n) BY DEF Views
  <2>2. w \in Seq(Link) /\ Len(w) = n /\ \A i \in 1..n : w[i] = v[i] BY <2>1, PrefixType
  <2>3. w # << >> => n > 0 BY <2>2, EmptySeq
  <2> QED BY <1>0, <2>2, <2>3
<1> QED BY <1>1, <1>2

-----------------------------------------------------------------------------
(* The record of a spent coin that is true of a view.                      *)
HoldsOn(v, r) ==
  /\ r.id \in Path /\ OnChain(v, r.id)
  /\ r.spent /\ Len(r.id) < Len(v) /\ r.at = v[Len(r.id) + 1].blk

(* What the node says of a spent coin holds.                               *)
LEMMA RecordHolds ==
  ASSUME NEW v \in Seq(Link), NEW id \in Path, OnChain(v, id), Len(id) < Len(v)
  PROVE  HoldsOn(v, RecordOf(v, id)) /\ RecordOf(v, id).id = id
BY DEF HoldsOn, RecordOf

(* It has one child, the next coin of the view.                            *)
LEMMA TheOneChild ==
  ASSUME NEW v \in Seq(Link), NEW r, HoldsOn(v, r)
  PROVE  LET p == SubSeq(Tip(v), 1, Len(r.id) + 1)
         IN  /\ ChildrenOf(v, r.id) = {RecordOf(v, p)}
             /\ p \in Path /\ Len(p) = Len(r.id) + 1
             /\ OnChain(v, p) /\ RecordOf(v, r.id).at = r.at
<1>1. Len(r.id) \in Nat /\ Len(v) \in Nat /\ Len(r.id) < Len(v) BY DEF HoldsOn, Path
<1>2. Tip(v) \in Path /\ Len(Tip(v)) = Len(v) BY TipType
<1> DEFINE n == Len(r.id) + 1
           p == SubSeq(Tip(v), 1, n)
<1>3. n \in 0..Len(Tip(v)) /\ n <= Len(v) /\ n \in Nat BY <1>1, <1>2
<1>4. p \in Path /\ Len(p) = n /\ \A i \in 1..n : p[i] = Tip(v)[i]
  <2> HIDE DEF n
  <2> QED BY <1>2, <1>3, PrefixType DEF Path
<1>5. OnChain(v, p)
  <2>1. \A i \in 1..n : p[i] = v[i].st BY <1>1, <1>3, <1>4 DEF Tip
  <2> HIDE DEF n, p
  <2> QED BY <1>3, <1>4, <2>1 DEF OnChain
<1>6. ChildrenOf(v, r.id) = {RecordOf(v, p)} BY <1>1 DEF HoldsOn, ChildrenOf
<1>7. RecordOf(v, r.id).at = r.at BY <1>1 DEF HoldsOn, RecordOf
<1> QED BY <1>4, <1>5, <1>6, <1>7

(* A longer view leaves all of it true.                                    *)
LEMMA HoldsLonger ==
  ASSUME NEW v \in Seq(Link), NEW w \in Seq(Link), Len(v) <= Len(w),
         \A i \in 1..Len(v) : v[i] = w[i]
  PROVE  /\ \A r : HoldsOn(v, r) => HoldsOn(w, r)
         /\ \A id \in Path : OnChain(v, id) => OnChain(w, id)
<1>1. Len(v) \in Nat /\ Len(w) \in Nat OBVIOUS
<1>2. \A id \in Path : Len(id) \in Nat BY DEF Path
<1>3. ASSUME NEW id \in Path, OnChain(v, id) PROVE OnChain(w, id)
  BY <1>1, <1>2, <1>3 DEF OnChain
<1>4. ASSUME NEW r, HoldsOn(v, r) PROVE HoldsOn(w, r)
  <2>1. r.id \in Path /\ Len(r.id) \in Nat /\ Len(r.id) < Len(v) BY <1>2, <1>4 DEF HoldsOn
  <2>2. Len(r.id) + 1 \in 1..Len(v) BY <1>1, <2>1
  <2> QED BY <1>1, <1>3, <1>4, <2>1, <2>2 DEF HoldsOn
<1> QED BY <1>3, <1>4

-----------------------------------------------------------------------------
(* The environment's steps keep the chain a chain of this DID.             *)
LEMMA ChainStep ==
  ASSUME ChainTypeOK, kind \notin Singletons => Len(chain) = 1, ChainNext
  PROVE  /\ ChainTypeOK'
         /\ kind' = kind
         /\ kind \notin Singletons => Len(chain') = 1
<1> USE DEF ChainTypeOK
<1>1. CASE Create
  <2>1. PICK s \in State : chain' = Created(s, reorgs) BY <1>1 DEF Create
  <2>2. Created(s, reorgs) \in Seq(Link) /\ Created(s, reorgs)[1].st = Launcher
    BY DEF Created, LauncherLink, Link
  <2> QED BY <1>1, <2>1, <2>2 DEF Create
<1>2. CASE Grow
  <2>1. PICK s \in State, b \in 0..reorgs : chain' = Append(chain, [st |-> s, blk |-> b])
    BY <1>2 DEF Grow
  <2>2. [st |-> s, blk |-> b] \in Link BY DEF Link
  <2>3. Len(chain) > 1 /\ chain # << >> BY <1>2 DEF Grow, Established
  <2>4. chain' \in Seq(Link) /\ chain'[1] = chain[1] BY <2>1, <2>2, <2>3
  <2> QED BY <1>2, <2>3, <2>4 DEF Grow
<1>3. CASE Reorg
  <2>1. PICK n \in {0} \cup 3..(Len(chain) - 1) : n < Len(chain) /\ chain' = SubSeq(chain, 1, n)
    BY <1>3 DEF Reorg
  <2>2. n \in 0..Len(chain) BY <2>1
  <2>3. chain' \in Seq(Link) /\ Len(chain') = n /\ \A i \in 1..n : chain'[i] = chain[i]
    BY <2>1, <2>2, PrefixType
  <2>4. chain' # << >> => n > 0 BY <2>2, <2>3, EmptySeq
  <2> QED BY <1>3, <2>2, <2>3, <2>4 DEF Reorg
<1> QED BY <1>1, <1>2, <1>3 DEF ChainNext
=============================================================================
