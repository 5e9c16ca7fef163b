---------------------------- MODULE ResolverProofs ----------------------------
(***************************************************************************)
(* Proofs about Resolver, for any number of calls, states, generations,    *)
(* reorganizations and any lag of the replicas.                            *)
(***************************************************************************)
EXTENDS Resolver, SingletonProofs, FiniteSetTheorems, SequenceTheorems, TLAPS

-----------------------------------------------------------------------------
(* What an answer tells the call that receives it.                         *)

(* An answer that carries data was computed from a view of the call.       *)
LEMMA Provenance ==
  ASSUME Inv, NEW c \in Call, Running(c), reply[c].kind \in {"data", "absent"}
  PROVE  \E v \in seen[c] : v \in Seq(Link) /\ reply[c] \in Answers(v, c)
<1>1. ReplyOK(c) /\ seen[c] \subseteq Seq(Link) BY DEF Inv, CallOK, TypeOK
<1>2. reply[c] # NoReply /\ \A k \in Faults : reply[c] # Failure(k)
  BY DEF NoReply, Failure, Faults
<1> QED BY <1>1, <1>2 DEF ReplyOK

LEMMA OneRecord ==
  ASSUME NEW v \in Seq(Link), NEW id \in Path, NEW r, r = RecordAnswer(v, id)
  PROVE  /\ r.kind = "data" =>
              OnChain(v, id) /\ Only(r) = RecordOf(v, id) /\ Only(r) \in CoinRecord
         /\ r.kind = "absent" => ~OnChain(v, id)
         /\ r \in Reply
<1>1. RecordOf(v, id) \in CoinRecord BY RecordType
<1> QED BY <1>1 DEF RecordAnswer, Data, Failure, Only, Reply, ReplyKinds

LEMMA LauncherReply ==
  ASSUME Inv, NEW c \in Call, pc[c] = "launcher"
  PROVE  /\ reply[c].kind = "data" =>
              LET r == Only(reply[c]) IN
                /\ r \in CoinRecord /\ r.id # << >>
                /\ r.spent => kind \in Singletons
                /\ ~r.spent => \E v \in seen[c] : ~Established(v)
         /\ reply[c].kind = "absent" => \E v \in seen[c] : ~Established(v)
<1>0. Running(c) /\ SeenOK(c) BY DEF Running, InFlight, Inv, CallOK
<1>1. SUFFICES ASSUME reply[c].kind \in {"data", "absent"}
      PROVE  /\ reply[c].kind = "data" =>
                  LET r == Only(reply[c]) IN
                    /\ r \in CoinRecord /\ r.id # << >>
                    /\ r.spent => kind \in Singletons
                    /\ ~r.spent => \E v \in seen[c] : ~Established(v)
             /\ reply[c].kind = "absent" => \E v \in seen[c] : ~Established(v)
  OBVIOUS
<1>2. PICK v \in seen[c] : v \in Seq(Link) /\ reply[c] \in Answers(v, c)
  BY <1>0, <1>1, Provenance
<1>3. reply[c] = RecordAnswer(v, <<Launcher>>) BY <1>2 DEF Answers
<1>4. <<Launcher>> \in Path /\ <<Launcher>> # << >> /\ Len(<<Launcher>>) = 1 BY DEF Path
<1>5. CASE reply[c].kind = "data"
  <2>1. Only(reply[c]) = RecordOf(v, <<Launcher>>) /\ Only(reply[c]) \in CoinRecord
    BY <1>2, <1>3, <1>4, <1>5, OneRecord
  <2>2. Only(reply[c]).id = <<Launcher>> /\ (Only(reply[c]).spent <=> 1 < Len(v))
    <3>1. /\ RecordOf(v, <<Launcher>>).id = <<Launcher>>
          /\ RecordOf(v, <<Launcher>>).spent <=> Len(<<Launcher>>) < Len(v)
      BY DEF RecordOf
    <3> QED BY <2>1, <1>4, <3>1
  <2>3. kind \notin Singletons => Len(v) <= 1 BY <1>0, <1>2 DEF SeenOK
  <2>4. Len(v) \in Nat BY <1>2
  <2>5. Only(reply[c]).id # << >> BY <2>2, <1>4
  <2>6. Only(reply[c]).spent => kind \in Singletons BY <2>2, <2>3, <2>4
  <2>7. ~Only(reply[c]).spent => ~Established(v) BY <2>2, <2>4 DEF Established
  <2> QED BY <1>2, <1>5, <2>1, <2>5, <2>6, <2>7
<1>6. CASE reply[c].kind = "absent"
  <2>1. ~OnChain(v, <<Launcher>>) BY <1>2, <1>3, <1>4, <1>6, OneRecord
  <2>2. v # << >> => v[1].st = Launcher BY <1>0, <1>2 DEF SeenOK
  <2>3. v = << >>
    <3>1. SUFFICES ASSUME v # << >> PROVE FALSE OBVIOUS
    <3>2. Len(v) \in Nat \ {0} BY <1>2, <3>1, EmptySeq
    <3>3. OnChain(v, <<Launcher>>) BY <2>2, <3>1, <3>2 DEF OnChain
    <3> QED BY <2>1, <3>3
  <2>4. ~Established(v) BY <2>3 DEF Established
  <2> QED BY <1>6, <1>2, <2>4
<1> QED BY <1>1, <1>5, <1>6

LEMMA PrelauncherReply ==
  ASSUME Inv, NEW c \in Call, pc[c] = "prelauncher"
  PROVE  /\ reply[c].kind = "data" => Only(reply[c]) \in CoinRecord
         /\ reply[c].kind = "absent" => \E v \in seen[c] : ~Established(v)
<1>0. Running(c) BY DEF Running, InFlight
<1>1. SUFFICES ASSUME reply[c].kind \in {"data", "absent"}
      PROVE  /\ reply[c].kind = "data" => Only(reply[c]) \in CoinRecord
             /\ reply[c].kind = "absent" => \E v \in seen[c] : ~Established(v)
  OBVIOUS
<1>2. PICK v \in seen[c] : v \in Seq(Link) /\ reply[c] \in Answers(v, c)
  BY <1>0, <1>1, Provenance
<1>3. reply[c] \in PrelauncherAnswers(v) BY <1>2 DEF Answers
<1>4. << >> \in Path /\ OnChain(v, << >>) BY <1>2 DEF Path, OnChain
<1>5. CASE reply[c] = RecordAnswer(v, << >>)
  BY <1>2, <1>4, <1>5, OneRecord
<1>6. CASE v = << >> /\ reply[c] = Failure("absent")
  BY <1>2, <1>6 DEF Established, Failure
<1> QED BY <1>3, <1>5, <1>6 DEF PrelauncherAnswers

LEMMA FastReply ==
  ASSUME Inv, NEW c \in Call, pc[c] = "fast", UsableInfo(reply[c])
  PROVE  /\ Only(reply[c]) \in CoinRecord
         /\ \E v \in seen[c] : Established(v) /\ Only(reply[c]).id = Tip(v)
<1>1. Running(c) /\ reply[c].kind = "data" /\ reply[c].body # {}
  BY DEF Running, InFlight, UsableInfo
<1>2. PICK v \in seen[c] : v \in Seq(Link) /\ reply[c] \in Answers(v, c)
  BY <1>1, Provenance
<1>3. reply[c] \in SingletonInfoAnswers(v) BY <1>2 DEF Answers
<1>4. Established(v) /\ \E n \in 2..Len(v) : reply[c] = Data({RecordOf(v, SubSeq(Tip(v), 1, n))})
  <2>1. reply[c] # Failure("unimplemented") /\ reply[c] # Data({})
    BY <1>1 DEF Failure, Data
  <2>2. serves /\ Established(v) BY <1>3, <2>1 DEF SingletonInfoAnswers
  <2> QED BY <1>3, <2>2 DEF SingletonInfoAnswers
<1>5. PICK n \in 2..Len(v) : reply[c] = Data({RecordOf(v, SubSeq(Tip(v), 1, n))}) BY <1>4
<1>6. Tip(v) \in Path /\ Len(Tip(v)) = Len(v) /\ Len(v) \in Nat BY <1>2, TipType
<1> DEFINE p == SubSeq(Tip(v), 1, n)
<1>7. p \in Path /\ Len(p) = n BY <1>6, PrefixType DEF Path
<1>8. Only(reply[c]) = RecordOf(v, p) BY <1>5 DEF Only, Data
<1>9. RecordOf(v, p) \in CoinRecord BY <1>2, <1>7, RecordType
<1>10. ~(Len(p) < Len(v))
  <2>1. ~RecordOf(v, p).spent BY <1>8 DEF UsableInfo
  <2> QED BY <2>1 DEF RecordOf
<1>11. p = Tip(v) BY <1>6, <1>7, <1>10, SubSeqFull DEF Path
<1>12. Only(reply[c]).id = p BY <1>8 DEF RecordOf
<1> QED BY <1>2, <1>4, <1>8, <1>9, <1>11, <1>12

LEMMA FrontType ==
  ASSUME NEW id \in Path, id # << >>
  PROVE  Front(id) \in Path
<1>1. Len(id) \in Nat \ {0} BY EmptySeq DEF Path
<1>2. Len(id) - 1 \in 0..Len(id) BY <1>1
<1> QED BY <1>2, PrefixType DEF Front, Path

LEMMA CurIsTip ==
  ASSUME Inv, NEW c \in Call, pc[c] \in {"fastParent", "spend", "genesis"}
  PROVE  cur[c].id \in Path /\ cur[c].id # << >>
<1>1. PICK v \in seen[c] : Established(v) /\ cur[c].id = Tip(v)
  BY DEF Inv, CallOK, CurOK
<1>2. v \in Seq(Link) BY DEF Inv, TypeOK
<1>3. Tip(v) \in Path /\ Len(Tip(v)) > 1 BY <1>1, <1>2, TipType DEF Established
<1> QED BY <1>1, <1>3

LEMMA FastParentReply ==
  ASSUME Inv, NEW c \in Call, pc[c] = "fastParent", reply[c].kind = "data"
  PROVE  Only(reply[c]) \in CoinRecord
<1>1. Running(c) BY DEF Running, InFlight
<1>2. PICK v \in seen[c] : v \in Seq(Link) /\ reply[c] \in Answers(v, c)
  BY <1>1, Provenance
<1>3. reply[c] = RecordAnswer(v, Front(cur[c].id)) BY <1>2 DEF Answers
<1>4. Front(cur[c].id) \in Path BY CurIsTip, FrontType
<1> QED BY <1>2, <1>3, <1>4, OneRecord

LEMMA ChildrenReply ==
  ASSUME Inv, NEW c \in Call, pc[c] = "children", reply[c].kind = "data",
         Cardinality(reply[c].body) = 1
  PROVE  /\ Only(reply[c]) \in CoinRecord /\ Only(reply[c]).id # << >>
         /\ ~Only(reply[c]).spent =>
              \E v \in seen[c] : Established(v) /\ Only(reply[c]).id = Tip(v)
<1>1. Running(c) BY DEF Running, InFlight
<1>2. PICK v \in seen[c] : v \in Seq(Link) /\ reply[c] \in Answers(v, c)
  BY <1>1, Provenance
<1>3. reply[c].body = ChildrenOf(v, rec[c].id) BY <1>2 DEF Answers, Data
<1>4. reply[c].body # {} BY FS_EmptySet
<1>5. Only(reply[c]) \in ChildrenOf(v, rec[c].id) BY <1>3, <1>4 DEF Only
<1>6. rec[c].id \in Path /\ rec[c].id # << >>
  BY DEF Inv, TypeOK, CallOK, WalkOK, CoinRecord
<1>7. Len(rec[c].id) \in Nat \ {0} /\ Len(v) \in Nat BY <1>2, <1>6, EmptySeq DEF Path
<1>8. Only(reply[c]) \in CoinRecord /\ Len(rec[c].id) < Len(v)
      /\ Len(Only(reply[c]).id) = Len(rec[c].id) + 1
      /\ (~Only(reply[c]).spent => Only(reply[c]).id = Tip(v))
  BY <1>2, <1>5, <1>6, ChildrenType
<1>9. Only(reply[c]).id # << >> BY <1>7, <1>8
<1>10. Established(v) BY <1>7, <1>8 DEF Established
<1> QED BY <1>2, <1>8, <1>9, <1>10

LEMMA SpendReply ==
  ASSUME Inv, NEW c \in Call, pc[c] \in {"spend", "genesis"}, reply[c].kind = "data"
  PROVE  StateOf(Only(reply[c]).id) \in State \cup {Launcher}
<1>1. Running(c) BY DEF Running, InFlight
<1>2. PICK v \in seen[c] : v \in Seq(Link) /\ reply[c] \in Answers(v, c)
  BY <1>1, Provenance
<1>3. PICK id \in Path : \E at : reply[c] = SpendAnswer(v, id, at)
  <2>1. rec[c].id \in Path BY DEF Inv, TypeOK, CoinRecord
  <2>2. << >> \in Path BY DEF Path
  <2> QED BY <1>2, <2>1, <2>2 DEF Answers
<1>4. reply[c].body = ChildrenOf(v, id) /\ ChildrenOf(v, id) # {}
  BY <1>3 DEF SpendAnswer, Data, Failure
<1>5. Only(reply[c]) \in ChildrenOf(v, id) BY <1>4 DEF Only
<1>6. Only(reply[c]) \in CoinRecord /\ Len(Only(reply[c]).id) = Len(id) + 1
  BY <1>2, <1>5, ChildrenType
<1>7. Only(reply[c]).id \in Path /\ Len(id) \in Nat BY <1>6 DEF CoinRecord, Path
<1>8. Len(Only(reply[c]).id) \in 1..Len(Only(reply[c]).id) BY <1>6, <1>7
<1> QED BY <1>7, <1>8, ElementOfSeq DEF StateOf, Path

-----------------------------------------------------------------------------
(* Every answer a node may give is a reply.                                *)
LEMMA AnswersType ==
  ASSUME Inv, NEW c \in Call, Running(c), NEW v \in seen[c] \cup Views(chain)
  PROVE  Answers(v, c) \subseteq Reply
<1>1. v \in Seq(Link) BY ViewsType DEF Inv, TypeOK, ChainTypeOK
<1>2. rec[c].id \in Path /\ << >> \in Path /\ <<Launcher>> \in Path
  BY DEF Inv, TypeOK, CoinRecord, Path
<1>3. \A id \in Path : RecordAnswer(v, id) \in Reply BY <1>1, OneRecord
<1>4. \A id \in Path : \A at : SpendAnswer(v, id, at) \in Reply /\ Data(ChildrenOf(v, id)) \in Reply
  BY <1>1, ChildrenType DEF SpendAnswer, Data, Failure, Reply, ReplyKinds, Faults
<1>5. CASE pc[c] = "launcher" BY <1>2, <1>3, <1>5 DEF Answers
<1>6. CASE pc[c] = "prelauncher"
  <2>1. Failure("absent") \in Reply BY DEF Failure, Reply, ReplyKinds
  <2> QED BY <1>2, <1>3, <1>6, <2>1 DEF Answers, PrelauncherAnswers
<1>7. CASE pc[c] = "fast"
  <2>1. Failure("unimplemented") \in Reply /\ Data({}) \in Reply
    BY DEF Failure, Data, Reply, ReplyKinds
  <2>2. Tip(v) \in Path /\ Len(Tip(v)) = Len(v) BY <1>1, TipType
  <2>3. ASSUME NEW n \in 2..Len(v)
        PROVE  Data({RecordOf(v, SubSeq(Tip(v), 1, n))}) \in Reply
    <3>1. n \in 0..Len(Tip(v)) BY <2>2
    <3>2. SubSeq(Tip(v), 1, n) \in Path BY <2>2, <3>1, PrefixType DEF Path
    <3>3. RecordOf(v, SubSeq(Tip(v), 1, n)) \in CoinRecord BY <1>1, <3>2, RecordType
    <3> QED BY <3>3 DEF Data, Reply, ReplyKinds
  <2> QED BY <1>7, <2>1, <2>3 DEF Answers, SingletonInfoAnswers
<1>8. CASE pc[c] = "fastParent"
  <2>1. Front(cur[c].id) \in Path BY <1>8, CurIsTip, FrontType
  <2> QED BY <1>3, <1>8, <2>1 DEF Answers
<1>9. CASE pc[c] = "children" BY <1>2, <1>4, <1>9 DEF Answers
<1>10. CASE pc[c] = "spend" BY <1>2, <1>4, <1>10 DEF Answers
<1>11. CASE pc[c] = "genesis" BY <1>2, <1>4, <1>11 DEF Answers
<1> QED BY <1>5, <1>6, <1>7, <1>8, <1>9, <1>10, <1>11 DEF Running, InFlight

(* Outcomes depend on the kind of the DID and on the views of the call.    *)
LEMMA SameOutcomes ==
  ASSUME NEW c \in Call, kind' = kind, seen'[c] = seen[c]
  PROVE  Promise!Outcomes(c)' = Promise!Outcomes(c)
BY DEF Promise!Outcomes, Promise!Errors, Promise!Documents

(* A call whose variables a step leaves alone keeps its invariant.         *)
LEMMA Frame ==
  ASSUME NEW c \in Call, CallOK(c),
         UNCHANGED <<chainVars, serves>>,
         pc'[c] = pc[c], reply'[c] = reply[c], rec'[c] = rec[c], cur'[c] = cur[c],
         pre'[c] = pre[c], gens'[c] = gens[c], derived'[c] = derived[c],
         result'[c] = result[c], seen'[c] = seen[c]
  PROVE  CallOK(c)'
<1> USE DEF chainVars
<1>1. SeenOK(c)' BY DEF CallOK, SeenOK, Running, Views
<1>2. \A v : Answers(v, c)' = Answers(v, c)
  BY DEF Answers, PrelauncherAnswers, SingletonInfoAnswers
<1>3. ReplyOK(c)' BY <1>2 DEF CallOK, ReplyOK, Running
<1>4. WalkOK(c)' /\ CurOK(c)' /\ DerivedOK(c)' BY DEF CallOK, WalkOK, CurOK, DerivedOK
<1>5. Promise!Outcomes(c)' = Promise!Outcomes(c) BY SameOutcomes
<1>6. ResultOK(c)' BY <1>5 DEF CallOK, ResultOK
<1> QED BY <1>1, <1>3, <1>4, <1>6 DEF CallOK

(* A step of one call keeps the invariant when it does so for that call.   *)
LEMMA OneCallMoves ==
  ASSUME Inv, NEW c \in Call, TypeOK', UNCHANGED <<chainVars, serves>>, CallOK(c)',
         \A d \in Call \ {c} :
           /\ pc'[d] = pc[d] /\ reply'[d] = reply[d] /\ rec'[d] = rec[d] /\ cur'[d] = cur[d]
           /\ pre'[d] = pre[d] /\ gens'[d] = gens[d] /\ derived'[d] = derived[d]
           /\ result'[d] = result[d] /\ seen'[d] = seen[d]
  PROVE  Inv'
<1>1. ASSUME NEW d \in Call \ {c} PROVE CallOK(d)'
  BY <1>1, Frame DEF Inv
<1>2. kind' = kind /\ chain' = chain BY DEF chainVars
<1> QED BY <1>1, <1>2 DEF Inv

(* The outcomes a view justifies.                                          *)
LEMMA Justified ==
  ASSUME NEW c \in Call
  PROVE  /\ Error("internalError") \in Promise!Outcomes(c)
         /\ Error("unverifiableState") \in Promise!Outcomes(c)
         /\ kind \in {"idle", "ordinary"} \/ (\E v \in seen[c] : ~Established(v))
              => Error("notFound") \in Promise!Outcomes(c)
         /\ \A v \in seen[c], g \in BOOLEAN :
              /\ Established(v) /\ StateOf(Tip(v)) \notin Opaque
              /\ kind \in {"julia", "legacy"} /\ (g => kind = "julia")
              => Document(Tip(v), StateOf(Tip(v)), g) \in Promise!Outcomes(c)
<1>1. \A e : Error(e) = Promise!Error(e) BY DEF Error, Promise!Error
<1>2. \A p, s, g : Document(p, s, g) = Promise!Document(p, s, g)
  BY DEF Document, Promise!Document
<1>3. Error("internalError") \in Promise!Errors(c) /\ Error("unverifiableState") \in Promise!Errors(c)
  BY <1>1 DEF Promise!Errors
<1>4. kind \in {"idle", "ordinary"} \/ (\E v \in seen[c] : ~Established(v))
        => Error("notFound") \in Promise!Errors(c)
  BY <1>1 DEF Promise!Errors, Promise!Established, Established
<1>5. ASSUME NEW v \in seen[c], NEW g \in BOOLEAN,
             Established(v), StateOf(Tip(v)) \notin Opaque, g => kind = "julia"
      PROVE  Document(Tip(v), StateOf(Tip(v)), g) \in Promise!Documents(c)
  <2>1. v \in {w \in seen[c] : Promise!Established(w) /\ Promise!StateOf(Promise!Tip(w)) \notin Opaque}
    BY <1>5 DEF Promise!Established, Established, Promise!StateOf, StateOf, Promise!Tip, Tip
  <2>2. g \in (IF kind = "julia" THEN BOOLEAN ELSE {FALSE}) BY <1>5
  <2>3. Promise!Document(Promise!Tip(v), Promise!StateOf(Promise!Tip(v)), g) \in Promise!Documents(c)
    <3> DEFINE S == {w \in seen[c] : Promise!Established(w) /\ Promise!StateOf(Promise!Tip(w)) \notin Opaque}
    <3> DEFINE T == IF kind = "julia" THEN BOOLEAN ELSE {FALSE}
    <3> DEFINE D(w, h) == Promise!Document(Promise!Tip(w), Promise!StateOf(Promise!Tip(w)), h)
    <3>1. v \in S /\ g \in T BY <2>1, <2>2
    <3>2. Promise!Documents(c) = {D(w, h) : w \in S, h \in T} BY DEF Promise!Documents
    <3> HIDE DEF S, T, D
    <3>3. D(v, g) \in {D(w, h) : w \in S, h \in T} BY <3>1
    <3>4. D(v, g) \in Promise!Documents(c) BY <3>2, <3>3
    <3> QED BY <3>4 DEF D
  <2> QED BY <1>2, <2>3 DEF Promise!StateOf, StateOf, Promise!Tip, Tip
<1> QED BY <1>3, <1>4, <1>5 DEF Promise!Outcomes, Promise!Resolvable

(* A document is about the tip of a view and shows the state it commits.   *)
LEMMA DocumentShape ==
  ASSUME NEW c \in Call, NEW r \in Promise!Documents(c)
  PROVE  \E v \in seen[c] :
           /\ r.out = "document" /\ r.coin = Tip(v)
           /\ r.st = StateOf(Tip(v)) /\ StateOf(Tip(v)) \notin Opaque
<1> DEFINE S == {w \in seen[c] : Promise!Established(w) /\ Promise!StateOf(Promise!Tip(w)) \notin Opaque}
<1> DEFINE T == IF kind = "julia" THEN BOOLEAN ELSE {FALSE}
<1> DEFINE D(w, h) == Promise!Document(Promise!Tip(w), Promise!StateOf(Promise!Tip(w)), h)
<1>1. Promise!Documents(c) = {D(w, h) : w \in S, h \in T} BY DEF Promise!Documents
<1> HIDE DEF S, T, D
<1>2. PICK v \in S, g \in T : r = D(v, g) BY <1>1
<1>3. v \in seen[c] /\ Promise!StateOf(Promise!Tip(v)) \notin Opaque BY DEF S
<1>4. /\ r.out = "document" /\ r.coin = Promise!Tip(v)
      /\ r.st = Promise!StateOf(Promise!Tip(v))
  BY <1>2 DEF D, Promise!Document
<1> QED BY <1>3, <1>4 DEF Promise!StateOf, StateOf, Promise!Tip, Tip

LEMMA ErrorType ==
  ASSUME NEW e \in ErrorOutcomes \cup {"none"}
  PROVE  Error(e) \in Result
BY DEF Error, Result, Path

(* A Receive takes the answer off the wire, so that the views and the      *)
(* answer of its call are in order whatever else it does.                  *)
LEMMA ReceiveFrame ==
  ASSUME Inv, NEW c \in Call, NEW p \in InFlight, Take(c, p)
  PROVE  /\ SeenOK(c)' /\ ReplyOK(c)'
         /\ Promise!Outcomes(c)' = Promise!Outcomes(c)
         /\ reply' \in [Call -> Reply]
         /\ \A d \in Call \ {c} : reply'[d] = reply[d] /\ seen'[d] = seen[d]
<1> USE DEF Take, chainVars, historyVars
<1>1. Running(c) BY DEF Running
<1>2. SeenOK(c)' BY <1>1 DEF Inv, CallOK, SeenOK, Views
<1>3. reply'[c] = NoReply /\ NoReply \in Reply
  BY DEF Inv, TypeOK, NoReply, Reply, ReplyKinds
<1>4. ReplyOK(c)' BY <1>3 DEF ReplyOK, NoReply
<1>5. Promise!Outcomes(c)' = Promise!Outcomes(c) BY SameOutcomes
<1> QED BY <1>2, <1>3, <1>4, <1>5 DEF Inv, TypeOK

-----------------------------------------------------------------------------
(* The steps of the calls, one lemma per action or group of alike actions. *)

LEMMA BeginStep ==
  ASSUME Inv, NEW c \in Call, Begin(c)
  PROVE  Inv'
<1> USE DEF Begin, Goto
<1>0. chain \in Seq(Link) /\ seen'[c] = Views(chain) /\ pc'[c] = "launcher"
  BY DEF Inv, TypeOK, ChainTypeOK
<1>1. Views(chain) \subseteq Seq(Link) BY <1>0, ViewsType
<1>2. TypeOK' BY <1>1 DEF Inv, TypeOK, ChainTypeOK, chainVars, PCs, InFlight
<1>3. SeenOK(c)'
  <2>1. ASSUME NEW v \in Views(chain)
        PROVE  (v # << >> => v[1].st = Launcher) /\ (kind \notin Singletons => Len(v) <= 1)
    BY <1>0, ViewsType DEF Inv, TypeOK, ChainTypeOK
  <2> QED BY <1>0, <2>1 DEF SeenOK, chainVars, Views
<1>4. reply[c] = reply'[c] /\ gens'[c] = gens[c] /\ result'[c] = result[c] OBVIOUS
<1>5. ReplyOK(c)'
  <2>1. reply[c] = NoReply BY DEF Inv, CallOK, ReplyOK, Running, InFlight
  <2> QED BY <1>4, <2>1 DEF ReplyOK, NoReply
<1>6. WalkOK(c)' /\ CurOK(c)' /\ DerivedOK(c)'
  BY <1>0, <1>4 DEF Inv, CallOK, WalkOK, CurOK, DerivedOK
<1>7. ResultOK(c)' BY <1>0, <1>4 DEF Inv, CallOK, ResultOK, NoResult
<1>8. CallOK(c)' BY <1>3, <1>5, <1>6, <1>7 DEF CallOK
<1> QED BY <1>2, <1>8, OneCallMoves

LEMMA RefuseStep ==
  ASSUME Inv, NEW c \in Call, Refuse(c)
  PROVE  Inv'
<1> USE DEF Refuse, Finish, historyVars
<1>0. PICK e \in RequestErrors : result' = [result EXCEPT ![c] = Error(e)]
  OBVIOUS
<1>1. Error(e) \in Result BY ErrorType DEF ErrorOutcomes
<1>2. TypeOK' BY <1>0, <1>1 DEF Inv, TypeOK, ChainTypeOK, chainVars, PCs
<1>3. /\ pc'[c] = "done" /\ result'[c] = Error(e)
      /\ reply'[c] = NoReply /\ seen'[c] = {}
  BY <1>0 DEF Inv, TypeOK, CallOK, ReplyOK, ResultOK, Running, InFlight
<1>4. SeenOK(c)' BY <1>3 DEF Inv, CallOK, SeenOK, Running, InFlight, chainVars
<1>5. ReplyOK(c)' BY <1>3 DEF ReplyOK, NoReply
<1>6. WalkOK(c)' /\ CurOK(c)' /\ DerivedOK(c)'
  BY <1>3 DEF Inv, CallOK, WalkOK, CurOK, DerivedOK, InFlight
<1>7. ResultOK(c)' BY <1>3 DEF ResultOK
<1>8. CallOK(c)' BY <1>4, <1>5, <1>6, <1>7 DEF CallOK
<1> QED BY <1>2, <1>8, OneCallMoves

(* The wire: only reply (and history, and the signal) changes.             *)
LEMMA WireStep ==
  ASSUME Inv, NEW c \in Call, Answer(c) \/ Fail(c) \/ Timeout(c) \/ Abort(c)
  PROVE  Inv'
<1> USE DEF Lose
<1>1. /\ UNCHANGED <<chainVars, serves, clientVars, seen, shrunk>>
      /\ aborted' \in [Call -> BOOLEAN] /\ faulted' \in [Call -> BOOLEAN]
      /\ \/ reply' = reply
         \/ Running(c) /\ \E k \in Faults : reply' = [reply EXCEPT ![c] = Failure(k)]
         \/ Running(c) /\ \E v \in seen[c] : \E r \in Answers(v, c) : reply' = [reply EXCEPT ![c] = r]
  <2>1. CASE Answer(c)
    <3>1. Views(chain) \subseteq seen[c] BY <2>1 DEF Answer, Inv, CallOK, SeenOK, Running
    <3> QED BY <2>1, <3>1 DEF Answer, Running, historyVars, Inv, TypeOK
  <2>2. CASE Fail(c) BY <2>2 DEF Fail, Running, Inv, TypeOK
  <2>3. CASE Timeout(c) BY <2>3 DEF Timeout, Running, Inv, TypeOK, Faults
  <2>4. CASE Abort(c) BY <2>4 DEF Abort, Running, Inv, TypeOK, Faults
  <2> QED BY <2>1, <2>2, <2>3, <2>4
<1>2. reply' \in [Call -> Reply]
  <2>1. \A k \in Faults : Failure(k) \in Reply BY DEF Failure, Faults, Reply, ReplyKinds
  <2>2. Running(c) => \A v \in seen[c] : Answers(v, c) \subseteq Reply BY AnswersType
  <2> QED BY <1>1, <2>1, <2>2 DEF Inv, TypeOK
<1>3. TypeOK' BY <1>1, <1>2 DEF Inv, TypeOK, ChainTypeOK, chainVars, clientVars
<1>4. \A v : Answers(v, c)' = Answers(v, c)
  BY <1>1 DEF Answers, PrelauncherAnswers, SingletonInfoAnswers, clientVars
<1>5. ReplyOK(c)'
  BY <1>1, <1>4 DEF Inv, TypeOK, CallOK, ReplyOK, Running, clientVars
<1>6. SeenOK(c)' BY <1>1 DEF Inv, CallOK, SeenOK, Running, Views, clientVars, chainVars
<1>7. WalkOK(c)' /\ CurOK(c)' /\ DerivedOK(c)'
  BY <1>1 DEF Inv, CallOK, WalkOK, CurOK, DerivedOK, clientVars, chainVars
<1>8. Promise!Outcomes(c)' = Promise!Outcomes(c)
  BY <1>1, SameOutcomes DEF chainVars
<1>9. ResultOK(c)' BY <1>1, <1>8 DEF Inv, CallOK, ResultOK, clientVars
<1>10. CallOK(c)' BY <1>5, <1>6, <1>7, <1>9 DEF CallOK
<1> QED BY <1>1, <1>3, <1>10, OneCallMoves DEF clientVars, Inv, TypeOK

(* The chain moves: every call's views grow.                               *)
LEMMA EnvironmentStep ==
  ASSUME Inv, Environment
  PROVE  Inv'
<1> USE DEF Environment, clientVars
<1>1. ChainTypeOK' /\ kind' = kind /\ (kind \notin Singletons => Len(chain') = 1)
  BY ChainStep DEF Inv, TypeOK
<1>2. \A v \in Views(chain') :
        v \in Seq(Link) /\ Len(v) <= Len(chain') /\ (v # << >> => v[1].st = Launcher)
  BY <1>1, ViewsType DEF ChainTypeOK
<1>3. \A c \in Call : seen[c] \subseteq seen'[c] /\ seen'[c] \subseteq seen[c] \cup Views(chain')
  OBVIOUS
<1>4. TypeOK' BY <1>1, <1>2, <1>3 DEF Inv, TypeOK
<1>5. ASSUME NEW c \in Call PROVE CallOK(c)'
  <2>0. CallOK(c) BY DEF Inv
  <2>1. SeenOK(c)'
    <3>1. Running(c) => Views(chain') \subseteq seen'[c] OBVIOUS
    <3>2. \A v \in seen'[c] : (v # << >> => v[1].st = Launcher) /\ (kind \notin Singletons => Len(v) <= 1)
      BY <1>1, <1>2, <1>3, <2>0 DEF CallOK, SeenOK
    <3>3. Views(chain)' = Views(chain') BY DEF Views
    <3> QED BY <1>1, <3>1, <3>2, <3>3 DEF SeenOK, Running
  <2>2. \A v : Answers(v, c)' = Answers(v, c)
    BY DEF Answers, PrelauncherAnswers, SingletonInfoAnswers
  <2>3. ReplyOK(c)' BY <1>3, <2>0, <2>2 DEF CallOK, ReplyOK, Running
  <2>4. WalkOK(c)' /\ CurOK(c)' /\ DerivedOK(c)'
    BY <1>1, <1>3, <2>0 DEF CallOK, WalkOK, CurOK, DerivedOK
  <2>5. pc[c] = "done" => Promise!Outcomes(c)' = Promise!Outcomes(c)
    <3>1. pc[c] = "done" => seen'[c] = seen[c] BY DEF Running, InFlight
    <3>2. kind' = kind BY <1>1
    <3> HIDE DEF Environment
    <3> QED BY <3>1, <3>2, SameOutcomes
  <2>6. pc[c] \in {"idle", "done"} => seen'[c] = seen[c] BY DEF Running, InFlight
  <2>7. ResultOK(c)' BY <2>0, <2>5, <2>6 DEF CallOK, ResultOK
  <2> QED BY <2>1, <2>3, <2>4, <2>7 DEF CallOK
<1> QED BY <1>1, <1>4, <1>5 DEF Inv

-----------------------------------------------------------------------------
(* The Receive steps.  Each ends in Finish or Goto; Settled is what such   *)
(* an end leaves to show.                                                  *)
Settled(c) ==
  /\ pc' \in [Call -> PCs] /\ result' \in [Call -> Result]
  /\ WalkOK(c)' /\ CurOK(c)' /\ DerivedOK(c)' /\ ResultOK(c)'
  /\ \A d \in Call \ {c} : pc'[d] = pc[d] /\ result'[d] = result[d]

LEMMA Finished ==
  ASSUME Inv, NEW c \in Call, NEW p \in InFlight, Take(c, p), gens'[c] <= MaxGenerations,
         NEW r, r \in Result, r \in Promise!Outcomes(c), Finish(c, r)
  PROVE  Settled(c)
<1>1. pc'[c] = "done" /\ result'[c] = r /\ pc' \in [Call -> PCs] /\ result' \in [Call -> Result]
      /\ \A d \in Call \ {c} : pc'[d] = pc[d] /\ result'[d] = result[d]
  BY DEF Finish, Inv, TypeOK, PCs
<1>2. WalkOK(c)' /\ CurOK(c)' /\ DerivedOK(c)'
  BY <1>1 DEF WalkOK, CurOK, DerivedOK, InFlight
<1>3. r \in Promise!Outcomes(c)' BY ReceiveFrame
<1>4. ResultOK(c)' BY <1>1, <1>3 DEF ResultOK
<1> QED BY <1>1, <1>2, <1>4 DEF Settled

LEMMA FinishedInError ==
  ASSUME Inv, NEW c \in Call, NEW p \in InFlight, Take(c, p), gens'[c] <= MaxGenerations,
         NEW e \in {"internalError", "unverifiableState", "notFound"},
         e = "notFound" =>
           kind \in {"idle", "ordinary"} \/ \E v \in seen[c] : ~Established(v),
         Finish(c, Error(e))
  PROVE  Settled(c)
<1>1. Error(e) \in Result BY ErrorType DEF ErrorOutcomes
<1>2. Error(e) \in Promise!Outcomes(c) BY Justified
<1> QED BY <1>1, <1>2, Finished

LEMMA Continues ==
  ASSUME Inv, NEW c \in Call, NEW p \in InFlight, Take(c, p),
         NEW q \in InFlight, Goto(c, q)
  PROVE  /\ pc'[c] = q /\ pc' \in [Call -> PCs] /\ result' \in [Call -> Result]
         /\ ResultOK(c)'
         /\ \A d \in Call \ {c} : pc'[d] = pc[d] /\ result'[d] = result[d]
<1>1. pc'[c] = q /\ pc' \in [Call -> PCs] /\ result' = result
      /\ \A d \in Call \ {c} : pc'[d] = pc[d]
  BY DEF Goto, Inv, TypeOK, PCs
<1>2. pc[c] # "done" /\ pc'[c] # "done" /\ pc'[c] # "idle" BY <1>1 DEF Take, InFlight
<1>3. ResultOK(c)' BY <1>1, <1>2 DEF Inv, CallOK, ResultOK, NoResult
<1> QED BY <1>1, <1>3 DEF Inv, TypeOK

LEMMA WalkFromStep ==
  ASSUME Inv, NEW c \in Call, NEW p \in InFlight, Take(c, p), kind \in Singletons,
         NEW r \in CoinRecord, r.id # << >>,
         NEW g \in Nat, g <= MaxGenerations, WalkFrom(c, r, g)
  PROVE  /\ Settled(c)
         /\ rec' \in [Call -> CoinRecord] /\ gens' \in [Call -> Nat]
         /\ \A d \in Call \ {c} : rec'[d] = rec[d] /\ gens'[d] = gens[d]
<1>1. rec'[c] = r /\ gens'[c] = g
      /\ rec' \in [Call -> CoinRecord] /\ gens' \in [Call -> Nat]
      /\ \A d \in Call \ {c} : rec'[d] = rec[d] /\ gens'[d] = gens[d]
  BY DEF WalkFrom, Inv, TypeOK
<1>2. MaxGenerations \in Nat /\ kind' = kind BY ResolverAssumption DEF Take, chainVars
<1>3. CASE g >= MaxGenerations
  BY <1>1, <1>3, FinishedInError DEF WalkFrom
<1>4. CASE ~(g >= MaxGenerations)
  <2>1. Goto(c, "children") BY <1>4 DEF WalkFrom
  <2>2. "children" \in InFlight BY DEF InFlight
  <2>3. pc'[c] = "children" BY <2>1, <2>2, Continues
  <2>4. WalkOK(c)' BY <1>1, <1>2, <1>4, <2>3 DEF WalkOK
  <2>5. CurOK(c)' /\ DerivedOK(c)' BY <2>3 DEF CurOK, DerivedOK
  <2> QED BY <1>1, <2>1, <2>2, <2>4, <2>5, Continues DEF Settled
<1> QED BY <1>1, <1>3, <1>4

(* A settled call keeps the invariant once its other variables are typed.  *)
LEMMA Settles ==
  ASSUME Inv, NEW c \in Call, NEW p \in InFlight, Take(c, p), Settled(c), enabled' \in BOOLEAN,
         rec' \in [Call -> CoinRecord], cur' \in [Call -> CoinRecord], pre' \in [Call -> CoinRecord],
         gens' \in [Call -> Nat], derived' \in [Call -> State \cup {Launcher}],
         \A d \in Call \ {c} :
           rec'[d] = rec[d] /\ cur'[d] = cur[d] /\ pre'[d] = pre[d]
             /\ gens'[d] = gens[d] /\ derived'[d] = derived[d]
  PROVE  Inv'
<1>1. UNCHANGED <<chainVars, serves, aborted, historyVars>> BY DEF Take
<1>2. TypeOK'
  BY <1>1, ReceiveFrame DEF Settled, Inv, TypeOK, ChainTypeOK, chainVars, historyVars
<1>3. CallOK(c)' BY ReceiveFrame DEF Settled, CallOK
<1> QED BY <1>1, <1>2, <1>3, OneCallMoves, ReceiveFrame DEF Settled

LEMMA ReceiveLauncherStep ==
  ASSUME Inv, NEW c \in Call, ReceiveLauncher(c)
  PROVE  Inv'
<1>1. "launcher" \in InFlight /\ "prelauncher" \in InFlight BY DEF InFlight
<1>2. /\ Take(c, "launcher") /\ pc[c] = "launcher" /\ UNCHANGED <<enabled, cur, pre, gens, derived>>
      /\ gens'[c] <= MaxGenerations
  BY DEF ReceiveLauncher, Take, Inv, CallOK, WalkOK
<1>3. Settled(c) /\ rec' \in [Call -> CoinRecord] /\ \A d \in Call \ {c} : rec'[d] = rec[d]
  <2> DEFINE r == Only(reply[c])
  <2>1. CASE NoCoin(c, "notFound") /\ UNCHANGED rec
    <3>1. CASE ReportsCoinAbsent(reply[c])
      <4>1. \E v \in seen[c] : ~Established(v) BY <1>2, <3>1, LauncherReply DEF ReportsCoinAbsent
      <4>2. Finish(c, Error("notFound")) BY <2>1, <3>1 DEF NoCoin
      <4>3. Settled(c) BY <1>1, <1>2, <4>1, <4>2, FinishedInError
      <4> QED BY <2>1, <4>3 DEF Inv, TypeOK
    <3>2. CASE ~ReportsCoinAbsent(reply[c])
      <4>1. Finish(c, Error("internalError")) BY <2>1, <3>2 DEF NoCoin
      <4>2. Settled(c) BY <1>1, <1>2, <4>1, FinishedInError
      <4> QED BY <2>1, <4>2 DEF Inv, TypeOK
    <3> QED BY <3>1, <3>2
  <2>2. CASE reply[c].kind = "data" /\ kind # "ordinary" /\ r.spent
    <3>1. rec' = [rec EXCEPT ![c] = r] /\ Goto(c, "prelauncher")
      BY <2>2 DEF ReceiveLauncher, NoCoin
    <3>2. r \in CoinRecord /\ r.id # << >> /\ kind \in Singletons BY <1>2, <2>2, LauncherReply
    <3>3. rec'[c] = r /\ rec' \in [Call -> CoinRecord] /\ \A d \in Call \ {c} : rec'[d] = rec[d]
      BY <3>1, <3>2 DEF Inv, TypeOK
    <3>4. pc'[c] = "prelauncher" BY <1>1, <1>2, <3>1, Continues
    <3>5. WalkOK(c)' /\ CurOK(c)' /\ DerivedOK(c)'
      BY <1>2, <3>2, <3>3, <3>4 DEF WalkOK, CurOK, DerivedOK, Take, chainVars
    <3> QED BY <1>1, <1>2, <3>1, <3>3, <3>5, Continues DEF Settled
  <2>3. CASE reply[c].kind = "data" /\ ~(kind # "ordinary" /\ r.spent)
    <3>1. Finish(c, Error("notFound")) /\ UNCHANGED rec BY <2>3 DEF ReceiveLauncher, NoCoin
    <3>2. kind = "ordinary" \/ \E v \in seen[c] : ~Established(v)
      BY <1>2, <2>3, LauncherReply
    <3>3. Settled(c) BY <1>1, <1>2, <3>1, <3>2, FinishedInError
    <3> QED BY <3>1, <3>3 DEF Inv, TypeOK
  <2> QED BY <2>1, <2>2, <2>3 DEF ReceiveLauncher
<1> QED BY <1>1, <1>2, <1>3, Settles DEF Inv, TypeOK

LEMMA ReceivePrelauncherStep ==
  ASSUME Inv, NEW c \in Call, ReceivePrelauncher(c)
  PROVE  Inv'
<1>1. "prelauncher" \in InFlight /\ "fast" \in InFlight BY DEF InFlight
<1>2. /\ Take(c, "prelauncher") /\ pc[c] = "prelauncher" /\ UNCHANGED <<enabled, cur, derived>>
      /\ gens[c] <= MaxGenerations /\ kind \in Singletons
      /\ rec[c] \in CoinRecord /\ rec[c].id # << >>
  BY <1>1 DEF ReceivePrelauncher, Take, Inv, CallOK, WalkOK, TypeOK
<1>3. CASE NoCoin(c, "notFound") /\ UNCHANGED <<pre, rec, gens>>
  <2>1. CASE ReportsCoinAbsent(reply[c])
    <3>1. \E v \in seen[c] : ~Established(v) BY <1>2, <2>1, PrelauncherReply DEF ReportsCoinAbsent
    <3>2. Finish(c, Error("notFound")) BY <1>3, <2>1 DEF NoCoin
    <3>3. Settled(c) BY <1>1, <1>2, <1>3, <3>1, <3>2, FinishedInError
    <3> QED BY <1>1, <1>2, <1>3, <3>3, Settles DEF Inv, TypeOK
  <2>2. CASE ~ReportsCoinAbsent(reply[c])
    <3>1. Finish(c, Error("internalError")) BY <1>3, <2>2 DEF NoCoin
    <3>2. Settled(c) BY <1>1, <1>2, <1>3, <3>1, FinishedInError
    <3> QED BY <1>1, <1>2, <1>3, <3>2, Settles DEF Inv, TypeOK
  <2> QED BY <2>1, <2>2
<1>4. CASE reply[c].kind = "data" /\ pre' = [pre EXCEPT ![c] = Only(reply[c])] /\ TryFastPath(c)
  <2>1. Only(reply[c]) \in CoinRecord BY <1>2, <1>4, PrelauncherReply
  <2>2. pre' \in [Call -> CoinRecord] /\ \A d \in Call \ {c} : pre'[d] = pre[d]
    BY <1>4, <2>1 DEF Inv, TypeOK
  <2>3. CASE enabled
    <3>1. Goto(c, "fast") /\ UNCHANGED <<rec, gens>> BY <1>4, <2>3 DEF TryFastPath
    <3>2. pc'[c] = "fast" BY <1>1, <1>2, <3>1, Continues
    <3>3. WalkOK(c)' /\ CurOK(c)' /\ DerivedOK(c)'
      BY <1>2, <3>1, <3>2 DEF WalkOK, CurOK, DerivedOK, Take, chainVars
    <3>4. Settled(c) BY <1>1, <1>2, <3>1, <3>3, Continues DEF Settled
    <3> QED BY <1>1, <1>2, <2>2, <3>1, <3>4, Settles DEF Inv, TypeOK
  <2>4. CASE ~enabled
    <3>1. WalkFrom(c, rec[c], 0) BY <1>4, <2>4 DEF TryFastPath
    <3>2. 0 <= MaxGenerations BY ResolverAssumption
    <3>3. /\ Settled(c)
          /\ rec' \in [Call -> CoinRecord] /\ gens' \in [Call -> Nat]
          /\ \A d \in Call \ {c} : rec'[d] = rec[d] /\ gens'[d] = gens[d]
      BY <1>1, <1>2, <3>1, <3>2, WalkFromStep
    <3> QED BY <1>1, <1>2, <2>2, <3>3, Settles DEF Inv, TypeOK
  <2> QED BY <2>3, <2>4
<1> QED BY <1>3, <1>4 DEF ReceivePrelauncher

LEMMA ReceiveFastStep ==
  ASSUME Inv, NEW c \in Call, ReceiveFast(c)
  PROVE  Inv'
<1>1. "fast" \in InFlight /\ "fastParent" \in InFlight BY DEF InFlight
<1>2. /\ Take(c, "fast") /\ pc[c] = "fast" /\ UNCHANGED <<pre, derived>>
      /\ enabled' \in BOOLEAN
      /\ gens[c] <= MaxGenerations /\ kind \in Singletons
      /\ rec[c] \in CoinRecord /\ rec[c].id # << >>
  BY <1>1 DEF ReceiveFast, Take, Inv, CallOK, WalkOK, TypeOK
<1>3. CASE UsableInfo(reply[c])
  <2>1. /\ cur' = [cur EXCEPT ![c] = Only(reply[c])]
        /\ Goto(c, "fastParent") /\ UNCHANGED <<rec, gens>>
    BY <1>3 DEF ReceiveFast
  <2>2. Only(reply[c]) \in CoinRecord
        /\ \E v \in seen[c] : Established(v) /\ Only(reply[c]).id = Tip(v)
    BY <1>2, <1>3, FastReply
  <2>3. pc'[c] = "fastParent" BY <1>1, <1>2, <2>1, Continues
  <2>4. cur' \in [Call -> CoinRecord] /\ cur'[c] = Only(reply[c])
        /\ \A d \in Call \ {c} : cur'[d] = cur[d]
    BY <2>1, <2>2 DEF Inv, TypeOK
  <2>5. WalkOK(c)' /\ DerivedOK(c)'
    BY <1>2, <2>1, <2>3 DEF WalkOK, DerivedOK, Take, chainVars
  <2>6. CurOK(c)' BY <1>2, <2>2, <2>4 DEF CurOK, Take, historyVars
  <2>7. Settled(c) BY <1>1, <1>2, <2>1, <2>5, <2>6, Continues DEF Settled
  <2> QED BY <1>1, <1>2, <2>1, <2>4, <2>7, Settles DEF Inv, TypeOK
<1>4. CASE ~UsableInfo(reply[c])
  <2>1. WalkFrom(c, rec[c], 0) /\ UNCHANGED cur BY <1>4 DEF ReceiveFast
  <2>2. 0 <= MaxGenerations BY ResolverAssumption
  <2>3. /\ Settled(c)
        /\ rec' \in [Call -> CoinRecord] /\ gens' \in [Call -> Nat]
        /\ \A d \in Call \ {c} : rec'[d] = rec[d] /\ gens'[d] = gens[d]
    BY <1>1, <1>2, <2>1, <2>2, WalkFromStep
  <2> QED BY <1>1, <1>2, <2>1, <2>3, Settles DEF Inv, TypeOK
<1> QED BY <1>3, <1>4

LEMMA ReceiveFastParentStep ==
  ASSUME Inv, NEW c \in Call, ReceiveFastParent(c)
  PROVE  Inv'
<1>1. "fastParent" \in InFlight /\ "spend" \in InFlight BY DEF InFlight
<1>2. /\ Take(c, "fastParent") /\ pc[c] = "fastParent" /\ UNCHANGED <<enabled, pre, cur, derived>>
      /\ gens[c] <= MaxGenerations /\ kind \in Singletons
      /\ rec[c] \in CoinRecord /\ rec[c].id # << >>
  BY <1>1 DEF ReceiveFastParent, Take, Inv, CallOK, WalkOK, TypeOK
<1>3. CASE /\ reply[c].kind = "data" /\ rec' = [rec EXCEPT ![c] = Only(reply[c])]
           /\ Goto(c, "spend") /\ UNCHANGED gens
  <2>1. rec' \in [Call -> CoinRecord] /\ \A d \in Call \ {c} : rec'[d] = rec[d]
    BY <1>2, <1>3, FastParentReply DEF Inv, TypeOK
  <2>2. pc'[c] = "spend" BY <1>1, <1>2, <1>3, Continues
  <2>3. WalkOK(c)' /\ DerivedOK(c)'
    BY <1>2, <1>3, <2>2 DEF WalkOK, DerivedOK, Take, chainVars
  <2>4. CurOK(c)'
    BY <1>2 DEF Inv, CallOK, CurOK, Take, historyVars
  <2>5. Settled(c) BY <1>1, <1>2, <1>3, <2>3, <2>4, Continues DEF Settled
  <2> QED BY <1>1, <1>2, <1>3, <2>1, <2>5, Settles DEF Inv, TypeOK
<1>4. CASE WalkFrom(c, rec[c], 0)
  <2>1. 0 <= MaxGenerations BY ResolverAssumption
  <2>2. /\ Settled(c)
        /\ rec' \in [Call -> CoinRecord] /\ gens' \in [Call -> Nat]
        /\ \A d \in Call \ {c} : rec'[d] = rec[d] /\ gens'[d] = gens[d]
    BY <1>1, <1>2, <1>4, <2>1, WalkFromStep
  <2> QED BY <1>1, <1>2, <2>2, Settles DEF Inv, TypeOK
<1>5. CASE Finish(c, Error("internalError")) /\ UNCHANGED <<rec, gens>>
  <2>1. Settled(c) BY <1>1, <1>2, <1>5, FinishedInError
  <2> QED BY <1>1, <1>2, <1>5, <2>1, Settles DEF Inv, TypeOK
<1> QED BY <1>3, <1>4, <1>5 DEF ReceiveFastParent

LEMMA ReceiveChildrenStep ==
  ASSUME Inv, NEW c \in Call, ReceiveChildren(c)
  PROVE  Inv'
<1>1. "children" \in InFlight /\ "spend" \in InFlight BY DEF InFlight
<1>2. /\ Take(c, "children") /\ pc[c] = "children" /\ UNCHANGED <<enabled, pre, derived>>
      /\ gens[c] < MaxGenerations /\ kind \in Singletons
      /\ gens[c] \in Nat /\ MaxGenerations \in Nat
  BY <1>1, ResolverAssumption DEF ReceiveChildren, Take, Inv, CallOK, WalkOK, TypeOK
<1>3. CASE reply[c].kind # "data" \/ Cardinality(reply[c].body) # 1
  <2>1. Finish(c, Error("internalError")) /\ UNCHANGED <<rec, cur, gens>>
    BY <1>3 DEF ReceiveChildren
  <2>2. Settled(c) BY <1>1, <1>2, <2>1, FinishedInError
  <2> QED BY <1>1, <1>2, <2>1, <2>2, Settles DEF Inv, TypeOK
<1>4. CASE reply[c].kind = "data" /\ Cardinality(reply[c].body) = 1
  <2> DEFINE child == Only(reply[c])
  <2>1. /\ child \in CoinRecord /\ child.id # << >>
        /\ ~child.spent => \E v \in seen[c] : Established(v) /\ child.id = Tip(v)
    BY <1>2, <1>4, ChildrenReply
  <2>2. CASE child.spent
    <3>1. WalkFrom(c, child, gens[c] + 1) /\ UNCHANGED cur BY <1>4, <2>2 DEF ReceiveChildren
    <3>2. gens[c] + 1 \in Nat /\ gens[c] + 1 <= MaxGenerations BY <1>2
    <3>3. /\ Settled(c)
          /\ rec' \in [Call -> CoinRecord] /\ gens' \in [Call -> Nat]
          /\ \A d \in Call \ {c} : rec'[d] = rec[d] /\ gens'[d] = gens[d]
      BY <1>1, <1>2, <2>1, <3>1, <3>2, WalkFromStep
    <3> QED BY <1>1, <1>2, <3>1, <3>3, Settles DEF Inv, TypeOK
  <2>3. CASE ~child.spent
    <3>1. /\ cur' = [cur EXCEPT ![c] = child] /\ gens' = [gens EXCEPT ![c] = @ + 1]
          /\ Goto(c, "spend") /\ UNCHANGED rec
      BY <1>4, <2>3 DEF ReceiveChildren
    <3>2. cur' \in [Call -> CoinRecord] /\ cur'[c] = child /\ \A d \in Call \ {c} : cur'[d] = cur[d]
      BY <2>1, <3>1 DEF Inv, TypeOK
    <3>3. gens' \in [Call -> Nat] /\ gens'[c] <= MaxGenerations /\ \A d \in Call \ {c} : gens'[d] = gens[d]
      BY <1>2, <3>1 DEF Inv, TypeOK
    <3>4. pc'[c] = "spend" BY <1>1, <1>2, <3>1, Continues
    <3>5. WalkOK(c)' /\ DerivedOK(c)'
      BY <1>2, <3>3, <3>4 DEF WalkOK, DerivedOK, Take, chainVars
    <3>6. CurOK(c)' BY <1>2, <2>1, <2>3, <3>2 DEF CurOK, Take, historyVars
    <3>7. Settled(c) BY <1>1, <1>2, <3>1, <3>5, <3>6, Continues DEF Settled
    <3> QED BY <1>1, <1>2, <3>1, <3>2, <3>3, <3>7, Settles DEF Inv, TypeOK
  <2> QED BY <2>2, <2>3
<1> QED BY <1>3, <1>4

(* A document about the coin a call carries is justified by the view this  *)
(* coin was the tip of.                                                    *)
LEMMA DocumentFinish ==
  ASSUME Inv, NEW c \in Call, NEW p \in {"spend", "genesis"}, Take(c, p),
         gens'[c] <= MaxGenerations,
         NEW s, s = StateOf(cur[c].id), s \notin Opaque,
         NEW g \in BOOLEAN, kind \in {"julia", "legacy"}, g => kind = "julia",
         Finish(c, Document(cur[c].id, s, g))
  PROVE  Settled(c)
<1>1. PICK v \in seen[c] : Established(v) /\ cur[c].id = Tip(v)
  BY DEF Take, Inv, CallOK, CurOK
<1>2. Document(cur[c].id, s, g) \in Promise!Outcomes(c) BY <1>1, Justified
<1>3. Document(cur[c].id, s, g) \in Result
  <2>1. cur[c].id \in Path /\ cur[c].id # << >> BY CurIsTip DEF Take
  <2>2. Len(cur[c].id) \in 1..Len(cur[c].id) BY <2>1, EmptySeq DEF Path
  <2>3. s \in State \cup {Launcher} BY <2>1, <2>2, ElementOfSeq DEF StateOf, Path
  <2> QED BY <2>1, <2>3 DEF Document, Result
<1>4. p \in InFlight BY DEF InFlight
<1> QED BY <1>2, <1>3, <1>4, Finished

LEMMA ReceiveSpendStep ==
  ASSUME Inv, NEW c \in Call, ReceiveSpend(c)
  PROVE  Inv'
<1>1. "spend" \in InFlight /\ "genesis" \in InFlight BY DEF InFlight
<1>2. /\ Take(c, "spend") /\ pc[c] = "spend" /\ UNCHANGED <<enabled, rec, cur, pre, gens>>
      /\ gens'[c] <= MaxGenerations /\ kind \in Singletons
  BY <1>1 DEF ReceiveSpend, Take, Inv, CallOK, WalkOK
<1>3. CASE UNCHANGED derived /\ \E e \in {"internalError", "unverifiableState"} : Finish(c, Error(e))
  <2>1. Settled(c) BY <1>1, <1>2, <1>3, FinishedInError
  <2> QED BY <1>1, <1>2, <1>3, <2>1, Settles DEF Inv, TypeOK
<1>4. ASSUME NEW s, s = StateOf(cur[c].id), s \in (State \cup {Launcher}) \ Opaque, kind # "foreign",
             derived' = [derived EXCEPT ![c] = s],
             IF kind = "julia" /\ pre[c].spent
               THEN Goto(c, "genesis")
               ELSE Finish(c, Document(cur[c].id, s, FALSE))
      PROVE  Inv'
  <2>2. derived' \in [Call -> State \cup {Launcher}] /\ derived'[c] = s
        /\ \A d \in Call \ {c} : derived'[d] = derived[d]
    BY <1>4 DEF Inv, TypeOK
  <2>3. s = StateOf(cur[c].id) /\ s \notin Opaque BY <1>4
  <2>4. CASE kind = "julia" /\ pre[c].spent
    <3>1. Goto(c, "genesis") BY <1>4, <2>4
    <3>2. pc'[c] = "genesis" BY <1>1, <1>2, <3>1, Continues
    <3>3. WalkOK(c)' BY <1>2, <3>2 DEF WalkOK, Take, chainVars
    <3>4. CurOK(c)' BY <1>2 DEF Inv, CallOK, CurOK, Take, historyVars
    <3>5. DerivedOK(c)' BY <1>2, <2>2, <2>3, <2>4 DEF DerivedOK, Take, chainVars
    <3>6. Settled(c) BY <1>1, <1>2, <3>1, <3>3, <3>4, <3>5, Continues DEF Settled
    <3> QED BY <1>1, <1>2, <2>2, <3>6, Settles DEF Inv, TypeOK
  <2>5. CASE ~(kind = "julia" /\ pre[c].spent)
    <3>1. Finish(c, Document(cur[c].id, s, FALSE)) BY <1>4, <2>5
    <3>2. kind \in {"julia", "legacy"} BY <1>2, <1>4 DEF Singletons
    <3>3. Settled(c) BY <1>2, <2>3, <3>1, <3>2, DocumentFinish
    <3> QED BY <1>1, <1>2, <2>2, <3>3, Settles DEF Inv, TypeOK
  <2> QED BY <2>4, <2>5
<1>5. CASE reply[c].kind = "data" /\ kind # "foreign"
  <2>1. PICK others \in SUBSET State :
          LET verified == Verified(c, Only(reply[c]), others) IN
          \/ verified = {} /\ Finish(c, Error("unverifiableState")) /\ UNCHANGED derived
          \/ \E s \in verified :
               /\ derived' = [derived EXCEPT ![c] = s]
               /\ IF kind = "julia" /\ pre[c].spent
                    THEN Goto(c, "genesis")
                    ELSE Finish(c, Document(cur[c].id, s, FALSE))
    BY <1>5 DEF ReceiveSpend
  <2>2. CASE \E s \in Verified(c, Only(reply[c]), others) :
               /\ derived' = [derived EXCEPT ![c] = s]
               /\ IF kind = "julia" /\ pre[c].spent
                    THEN Goto(c, "genesis")
                    ELSE Finish(c, Document(cur[c].id, s, FALSE))
    <3>1. PICK s \in Verified(c, Only(reply[c]), others) :
            /\ derived' = [derived EXCEPT ![c] = s]
            /\ IF kind = "julia" /\ pre[c].spent
                 THEN Goto(c, "genesis")
                 ELSE Finish(c, Document(cur[c].id, s, FALSE))
      BY <2>2
    <3>2. s = StateOf(cur[c].id) /\ s \notin Opaque BY <3>1 DEF Verified, Candidates
    <3>3. s \in State \cup {Launcher}
      <4>1. cur[c].id \in Path /\ cur[c].id # << >> BY <1>2, CurIsTip
      <4>2. Len(cur[c].id) \in 1..Len(cur[c].id) BY <4>1, EmptySeq DEF Path
      <4> QED BY <3>2, <4>1, <4>2, ElementOfSeq DEF StateOf, Path
    <3> QED BY <1>4, <1>5, <3>1, <3>2, <3>3
  <2> QED BY <1>3, <2>1, <2>2
<1> QED BY <1>3, <1>5 DEF ReceiveSpend

LEMMA ReceiveGenesisStep ==
  ASSUME Inv, NEW c \in Call, ReceiveGenesis(c)
  PROVE  Inv'
<1>1. "genesis" \in InFlight BY DEF InFlight
<1>2. /\ Take(c, "genesis") /\ pc[c] = "genesis"
      /\ UNCHANGED <<enabled, rec, cur, pre, gens, derived>>
      /\ gens'[c] <= MaxGenerations
      /\ kind = "julia" /\ derived[c] = StateOf(cur[c].id) /\ derived[c] \notin Opaque
  BY DEF ReceiveGenesis, Take, Inv, CallOK, WalkOK, DerivedOK
<1>3. CASE reply[c].kind = "data"
  <2>1. Finish(c, Document(cur[c].id, derived[c], TRUE)) BY <1>3 DEF ReceiveGenesis
  <2>2. Settled(c) BY <1>2, <2>1, DocumentFinish
  <2> QED BY <1>1, <1>2, <2>2, Settles DEF Inv, TypeOK
<1>4. CASE reply[c].kind # "data"
  <2>1. Finish(c, Error("internalError")) BY <1>4 DEF ReceiveGenesis
  <2>2. Settled(c) BY <1>1, <1>2, <2>1, FinishedInError
  <2> QED BY <1>1, <1>2, <2>2, Settles DEF Inv, TypeOK
<1> QED BY <1>3, <1>4

-----------------------------------------------------------------------------
(* The invariant.                                                          *)

LEMMA InitInv == Init => Inv
<1>1. SUFFICES ASSUME Init PROVE Inv OBVIOUS
<1>2. ChainTypeOK /\ (kind \notin Singletons => Len(chain) = 1)
  <2>1. \A b \in Nat : LauncherLink(b) \in Link BY DEF LauncherLink, Link
  <2>2. \A s \in State : Created(s, 0) \in Seq(Link) /\ Created(s, 0)[1].st = Launcher
    BY DEF Created, LauncherLink, Link
  <2>3. << >> \in Seq(Link) /\ <<LauncherLink(0)>> \in Seq(Link)
        /\ <<LauncherLink(0)>>[1].st = Launcher /\ Len(<<LauncherLink(0)>>) = 1
    BY <2>1 DEF LauncherLink
  <2>4. kind \in Kinds BY <1>1, SingletonAssumption DEF Init, ChainInit
  <2> QED BY <1>1, <2>2, <2>3, <2>4 DEF Init, ChainInit, ChainTypeOK
<1>3. NoRecord \in CoinRecord /\ NoReply \in Reply /\ NoResult \in Result
  BY ErrorType DEF NoRecord, CoinRecord, Path, NoReply, Reply, ReplyKinds, NoResult
<1>4. TypeOK BY <1>1, <1>2, <1>3 DEF Init, TypeOK, PCs
<1>5. ASSUME NEW c \in Call PROVE CallOK(c)
  <2>1. /\ pc[c] = "idle" /\ reply[c] = NoReply /\ gens[c] = 0 /\ seen[c] = {}
        /\ result[c] = NoResult
    BY <1>1 DEF Init
  <2>2. SeenOK(c) BY <2>1 DEF SeenOK, Running, InFlight
  <2>3. WalkOK(c) BY <2>1, ResolverAssumption DEF WalkOK, InFlight
  <2> QED BY <2>1, <2>2, <2>3 DEF CallOK, ReplyOK, CurOK, DerivedOK, ResultOK
<1> QED BY <1>2, <1>4, <1>5 DEF Inv

LEMMA NextInv == Inv /\ [Next]_vars => Inv'
<1>1. SUFFICES ASSUME Inv, [Next]_vars PROVE Inv' OBVIOUS
<1>2. CASE Environment BY <1>1, <1>2, EnvironmentStep
<1>3. ASSUME NEW c \in Call, Begin(c) PROVE Inv' BY <1>1, <1>3, BeginStep
<1>4. ASSUME NEW c \in Call, Refuse(c) PROVE Inv' BY <1>1, <1>4, RefuseStep
<1>5. ASSUME NEW c \in Call, Receive(c) PROVE Inv'
  BY <1>1, <1>5, ReceiveLauncherStep, ReceivePrelauncherStep, ReceiveFastStep,
     ReceiveFastParentStep, ReceiveChildrenStep, ReceiveSpendStep, ReceiveGenesisStep
     DEF Receive
<1>6. ASSUME NEW c \in Call, Answer(c) \/ Fail(c) \/ Timeout(c) \/ Abort(c) PROVE Inv'
  BY <1>1, <1>6, WireStep
<1>7. CASE UNCHANGED vars
  <2>1. ASSUME NEW c \in Call PROVE CallOK(c)'
    BY <1>1, <1>7, <2>1, Frame DEF Inv, vars, clientVars, historyVars
  <2>2. TypeOK'
    BY <1>1, <1>7 DEF Inv, TypeOK, ChainTypeOK, vars, clientVars, historyVars, chainVars
  <2> QED BY <1>1, <1>7, <2>1, <2>2 DEF Inv, vars, chainVars
<1> QED BY <1>1, <1>2, <1>3, <1>4, <1>5, <1>6, <1>7 DEF Next

(* The inductive invariant holds: what a call carries across an await      *)
(* was true of the chain at some moment of that call.                      *)
THEOREM Invariance == Spec => []Inv
<1>1. Init => Inv BY InitInv
<1>2. Inv /\ [Next]_vars => Inv' BY NextInv
<1> QED BY <1>1, <1>2, PTL DEF Spec

(* A document describes a coin that was the tip during the call.           *)
THEOREM Currency == Spec => []CurrentDuringCall
<1>1. Inv => CurrentDuringCall
  <2>1. SUFFICES ASSUME Inv, NEW c \in Call, Served(c)
        PROVE  \E v \in seen[c] : result[c].coin = Tip(v)
    BY DEF CurrentDuringCall
  <2>2. result[c] \in Promise!Outcomes(c)
    BY <2>1 DEF Inv, CallOK, ResultOK, Served, Error, RequestErrors
  <2>3. result[c] \in Promise!Documents(c)
    BY <2>1, <2>2 DEF Promise!Outcomes, Promise!Errors, Promise!Error, Served
  <2> QED BY <2>3, DocumentShape
<1> QED BY <1>1, Invariance, PTL

(* notFound is never the consequence of a failure.                         *)
THEOREM AbsenceIsTrue == Spec => []NotFoundIsTrue
<1>1. Inv => NotFoundIsTrue
  <2>1. SUFFICES ASSUME Inv, NEW c \in Call, result[c].out = "notFound"
        PROVE  kind \in {"idle", "ordinary"} \/ \E v \in seen[c] : ~Established(v)
    BY DEF NotFoundIsTrue
  <2>2. pc[c] = "done" BY <2>1 DEF Inv, CallOK, ResultOK, NoResult, Error
  <2>3. result[c] \in Promise!Outcomes(c)
    BY <2>1, <2>2 DEF Inv, CallOK, ResultOK, Error, RequestErrors
  <2>4. \A r \in Promise!Documents(c) : r.out = "document" BY DocumentShape
  <2>5. result[c] \in Promise!Errors(c) BY <2>1, <2>3, <2>4 DEF Promise!Outcomes
  <2> QED BY <2>1, <2>5 DEF Promise!Errors, Promise!Error, Promise!Established, Established
<1> QED BY <1>1, Invariance, PTL

(* No walk goes past the bound.                                            *)
THEOREM BoundedWalk == Spec => []WalkIsBounded
<1>1. Inv => WalkIsBounded BY DEF Inv, CallOK, WalkOK, WalkIsBounded
<1> QED BY <1>1, Invariance, PTL

(* The shared flag falls only on an endpoint without the extension.        *)
THEOREM HonestDowngrade == Spec => OnlyUnimplementedDisables
<1>1. Inv /\ [Next]_vars => [enabled /\ ~enabled' => ~serves]_vars
  <2>1. SUFFICES ASSUME Inv, Next, enabled, ~enabled' PROVE ~serves OBVIOUS
  <2>2. PICK c \in Call : ReceiveFast(c)
    BY <2>1 DEF Next, Environment, clientVars, Begin, Refuse, Receive, ReceiveLauncher,
       ReceivePrelauncher, ReceiveFastParent, ReceiveChildren, ReceiveSpend, ReceiveGenesis,
       Answer, Fail, Timeout, Abort
  <2>3. pc[c] = "fast" /\ reply[c].kind = "unimplemented"
    BY <2>1, <2>2 DEF ReceiveFast, Take, DisablesFastPath
  <2>4. reply[c] # NoReply /\ \A k \in Faults : reply[c] # Failure(k)
    BY <2>3 DEF NoReply, Failure, Faults
  <2>5. PICK v \in seen[c] : reply[c] \in Answers(v, c)
    BY <2>1, <2>4 DEF Inv, CallOK, ReplyOK
  <2>6. reply[c] \in SingletonInfoAnswers(v) BY <2>3, <2>5 DEF Answers
  <2> QED BY <2>3, <2>6 DEF SingletonInfoAnswers, Data
<1> QED BY <1>1, Invariance, PTL DEF Spec, OnlyUnimplementedDisables

(* Once the shared flag is off no call of the client asks for the extension *)
(* again; a call that has asked already is not asked to stop.              *)
THEOREM SwitchStaysOff == Spec => DisabledStaysOff
<1>1. Inv /\ [Next]_vars =>
        [~enabled => /\ ~enabled'
                     /\ \A c \in Call : pc'[c] = "fast" => pc[c] = "fast"]_vars
  <2>1. SUFFICES ASSUME Inv, Next, ~enabled
                 PROVE  ~enabled' /\ \A c \in Call : pc'[c] = "fast" => pc[c] = "fast"
    OBVIOUS
  <2>2. DOMAIN pc = Call BY <2>1 DEF Inv, TypeOK
  <2>3. \A c \in Call : \A p :
          pc' = [pc EXCEPT ![c] = p] /\ p # "fast" =>
            \A d \in Call : pc'[d] = "fast" => pc[d] = "fast"
    BY <2>2
  <2>4. CASE Environment BY <2>1, <2>4 DEF Environment, clientVars
  <2>5. ASSUME NEW c \in Call, Begin(c) \/ Refuse(c)
        PROVE  ~enabled' /\ \A d \in Call : pc'[d] = "fast" => pc[d] = "fast"
    <3>1. enabled' = enabled /\ \E p \in {"launcher", "done"} : pc' = [pc EXCEPT ![c] = p]
      BY <2>5 DEF Begin, Refuse, Goto, Finish
    <3> QED BY <2>1, <2>3, <3>1
  <2>6. ASSUME NEW c \in Call, Answer(c) \/ Fail(c) \/ Timeout(c) \/ Abort(c)
        PROVE  ~enabled' /\ \A d \in Call : pc'[d] = "fast" => pc[d] = "fast"
    BY <2>1, <2>6 DEF Answer, Fail, Timeout, Abort, clientVars
  <2>7. ASSUME NEW c \in Call, Receive(c)
        PROVE  ~enabled' /\ \A d \in Call : pc'[d] = "fast" => pc[d] = "fast"
    <3>1. ~enabled'
      BY <2>1, <2>7 DEF Receive, ReceiveLauncher, ReceivePrelauncher, ReceiveFast,
         ReceiveFastParent, ReceiveChildren, ReceiveSpend, ReceiveGenesis
    <3>2. \E p \in PCs \ {"fast"} : pc' = [pc EXCEPT ![c] = p]
      BY <2>1, <2>7 DEF Receive, ReceiveLauncher, ReceivePrelauncher, ReceiveFast,
         ReceiveFastParent, ReceiveChildren, ReceiveSpend, ReceiveGenesis, NoCoin,
         TryFastPath, WalkFrom, Goto, Finish, PCs, InFlight
    <3> QED BY <2>3, <3>1, <3>2
  <2> QED BY <2>1, <2>4, <2>5, <2>6, <2>7 DEF Next
<1> QED BY <1>1, Invariance, PTL DEF Spec, DisabledStaysOff

-----------------------------------------------------------------------------
(* The genesis key.                                                        *)

(* What the prelauncher's record, read once, says to the end of the call.  *)
PreOK(c) ==
  pc[c] \in InFlight \ {"launcher", "prelauncher"} => pre[c].spent \/ << >> \in seen[c]

GenesisOK(c) ==
  Served(c) /\ kind = "julia" /\ ~result[c].genesis => << >> \in seen[c]

GenesisInv == \A c \in Call : PreOK(c) /\ GenesisOK(c)

(* Only a view without the DID shows its prelauncher unspent.              *)
LEMMA UnspentPrelauncher ==
  ASSUME Inv, NEW c \in Call, pc[c] = "prelauncher", reply[c].kind = "data"
  PROVE  Only(reply[c]).spent \/ << >> \in seen[c]
<1>1. Running(c) BY DEF Running, InFlight
<1>2. PICK v \in seen[c] : v \in Seq(Link) /\ reply[c] \in Answers(v, c) BY <1>1, Provenance
<1>3. reply[c] = RecordAnswer(v, << >>)
  BY <1>2 DEF Answers, PrelauncherAnswers, Failure
<1>4. << >> \in Path BY DEF Path
<1>5. Only(reply[c]) = RecordOf(v, << >>) BY <1>2, <1>3, <1>4, OneRecord
<1>6. Only(reply[c]).spent <=> 0 < Len(v)
  <2>1. RecordOf(v, << >>).spent <=> Len(<< >>) < Len(v) BY DEF RecordOf
  <2>2. Len(<< >>) = 0 BY EmptySeq
  <2> QED BY <1>5, <2>1, <2>2
<1>7. v = << >> \/ 0 < Len(v) BY <1>2, EmptySeq
<1> QED BY <1>2, <1>6, <1>7

(* A step of one call leaves the others' records and results alone.        *)
LEMMA GenesisFrame ==
  ASSUME GenesisInv, Inv, NEW c \in Call, kind' = kind, seen' = seen,
         \A d \in Call \ {c} : pc'[d] = pc[d] /\ pre'[d] = pre[d] /\ result'[d] = result[d],
         PreOK(c)', GenesisOK(c)'
  PROVE  GenesisInv'
BY DEF GenesisInv, PreOK, GenesisOK, Served

LEMMA GenesisReceived ==
  ASSUME GenesisInv, Inv, NEW c \in Call, Receive(c)
  PROVE  GenesisInv'
<1>1. PICK p \in InFlight : Take(c, p)
  BY DEF Receive, ReceiveLauncher, ReceivePrelauncher, ReceiveFast, ReceiveFastParent,
     ReceiveChildren, ReceiveSpend, ReceiveGenesis, InFlight
<1>2. kind' = kind /\ seen' = seen BY <1>1 DEF Take, chainVars, historyVars
<1>3. (\E q \in InFlight : Goto(c, q)) \/ (\E r : Finish(c, r))
  BY DEF Receive, ReceiveLauncher, ReceivePrelauncher, ReceiveFast, ReceiveFastParent,
     ReceiveChildren, ReceiveSpend, ReceiveGenesis, NoCoin, TryFastPath, WalkFrom, InFlight
<1>4. \A d \in Call \ {c} : pc'[d] = pc[d] /\ pre'[d] = pre[d] /\ result'[d] = result[d]
  <2>1. \A d \in Call \ {c} : pc'[d] = pc[d] /\ result'[d] = result[d]
    BY <1>3 DEF Goto, Finish, Inv, TypeOK
  <2>2. pre' = pre \/ pre' = [pre EXCEPT ![c] = Only(reply[c])]
    BY DEF Receive, ReceiveLauncher, ReceivePrelauncher, ReceiveFast, ReceiveFastParent,
       ReceiveChildren, ReceiveSpend, ReceiveGenesis
  <2>3. \A d \in Call \ {c} : pre'[d] = pre[d] BY <2>2 DEF Inv, TypeOK
  <2> QED BY <2>1, <2>3
<1>5. \A e \in ErrorOutcomes : ~Served(c)' \/ result'[c] # Error(e)
  <2>1. \A e \in ErrorOutcomes : Error(e).out # "document"
    BY DEF Error, ErrorOutcomes, RequestErrors
  <2> QED BY <2>1 DEF Served
<1>6. \A q \in InFlight : Goto(c, q) => pc'[c] = q BY DEF Goto, Inv, TypeOK
<1>7. \A r : Finish(c, r) => pc'[c] = "done" /\ result'[c] = r BY DEF Finish, Inv, TypeOK
<1>8. pre[c].spent \/ << >> \in seen[c] \/ pc[c] \in {"launcher", "prelauncher"}
  BY <1>1 DEF GenesisInv, PreOK, Take, InFlight
<1>9. CASE ReceiveLauncher(c)
  <2>1. (\E e \in ErrorOutcomes : Finish(c, Error(e))) \/ Goto(c, "prelauncher")
    BY <1>9 DEF ReceiveLauncher, NoCoin, ErrorOutcomes
  <2>2. pc'[c] = "prelauncher" \/ (pc'[c] = "done" /\ \E e \in ErrorOutcomes : result'[c] = Error(e))
    BY <2>1, <1>6, <1>7 DEF InFlight
  <2>3. PreOK(c)' /\ GenesisOK(c)' BY <1>5, <2>2 DEF PreOK, GenesisOK, InFlight, Served
  <2> QED BY <1>2, <1>4, <2>3, GenesisFrame
<1>10. CASE ReceivePrelauncher(c)
  <2>1. CASE \E e \in ErrorOutcomes : Finish(c, Error(e))
    <3>1. pc'[c] = "done" /\ \E e \in ErrorOutcomes : result'[c] = Error(e) BY <2>1, <1>7
    <3>2. PreOK(c)' /\ GenesisOK(c)' BY <1>5, <3>1 DEF PreOK, GenesisOK, InFlight, Served
    <3> QED BY <1>2, <1>4, <3>2, GenesisFrame
  <2>2. CASE ~\E e \in ErrorOutcomes : Finish(c, Error(e))
    <3>1. reply[c].kind = "data" /\ pre' = [pre EXCEPT ![c] = Only(reply[c])] /\ TryFastPath(c)
      BY <1>10, <2>2 DEF ReceivePrelauncher, NoCoin, ErrorOutcomes
    <3>2. pre'[c].spent \/ << >> \in seen[c]
      BY <1>10, <3>1, UnspentPrelauncher DEF ReceivePrelauncher, Take, Inv, TypeOK
    <3>3. Goto(c, "fast") \/ Goto(c, "children") BY <2>2, <3>1 DEF TryFastPath, WalkFrom, ErrorOutcomes
    <3>4. pc'[c] \in InFlight BY <3>3, <1>6 DEF InFlight
    <3>5. PreOK(c)' /\ GenesisOK(c)' BY <1>2, <3>2, <3>4 DEF PreOK, GenesisOK, InFlight, Served
    <3> QED BY <1>2, <1>4, <3>5, GenesisFrame
  <2> QED BY <2>1, <2>2
<1>11. CASE ReceiveFast(c) \/ ReceiveFastParent(c) \/ ReceiveChildren(c)
  <2>1. /\ pre' = pre
        /\ pc[c] \notin {"launcher", "prelauncher"}
        /\ (\E e \in ErrorOutcomes : Finish(c, Error(e))) \/ (\E q \in InFlight : Goto(c, q))
    BY <1>11 DEF ReceiveFast, ReceiveFastParent, ReceiveChildren, Take, WalkFrom, InFlight,
       ErrorOutcomes
  <2>2. (pc'[c] = "done" /\ \E e \in ErrorOutcomes : result'[c] = Error(e)) \/ pc'[c] \in InFlight
    BY <2>1, <1>6, <1>7
  <2>3. PreOK(c)' /\ GenesisOK(c)'
    BY <1>2, <1>5, <1>8, <2>1, <2>2 DEF PreOK, GenesisOK, InFlight, Served
  <2> QED BY <1>2, <1>4, <2>3, GenesisFrame
<1>12. CASE ReceiveSpend(c)
  <2>1. pre' = pre /\ pc[c] \notin {"launcher", "prelauncher"}
    BY <1>12 DEF ReceiveSpend, Take
  <2>2. \/ \E e \in ErrorOutcomes : Finish(c, Error(e))
        \/ Goto(c, "genesis")
        \/ ~(kind = "julia" /\ pre[c].spent) /\ \E s : Finish(c, Document(cur[c].id, s, FALSE))
    BY <1>12 DEF ReceiveSpend, ErrorOutcomes
  <2>3. CASE \E e \in ErrorOutcomes : Finish(c, Error(e))
    <3>1. pc'[c] = "done" /\ \E e \in ErrorOutcomes : result'[c] = Error(e) BY <2>3, <1>7
    <3>2. PreOK(c)' /\ GenesisOK(c)' BY <1>5, <3>1 DEF PreOK, GenesisOK, InFlight, Served
    <3> QED BY <1>2, <1>4, <3>2, GenesisFrame
  <2>4. CASE Goto(c, "genesis")
    <3>1. pc'[c] = "genesis" BY <2>4, <1>6 DEF InFlight
    <3>2. PreOK(c)' /\ GenesisOK(c)'
      BY <1>2, <1>8, <2>1, <3>1 DEF PreOK, GenesisOK, InFlight, Served
    <3> QED BY <1>2, <1>4, <3>2, GenesisFrame
  <2>5. CASE ~(kind = "julia" /\ pre[c].spent) /\ \E s : Finish(c, Document(cur[c].id, s, FALSE))
    <3>1. pc'[c] = "done" BY <2>5, <1>7
    <3>2. kind = "julia" => << >> \in seen[c] BY <1>8, <2>1, <2>5
    <3>3. PreOK(c)' /\ GenesisOK(c)' BY <1>2, <3>1, <3>2 DEF PreOK, GenesisOK, InFlight
    <3> QED BY <1>2, <1>4, <3>3, GenesisFrame
  <2> QED BY <2>2, <2>3, <2>4, <2>5
<1>13. CASE ReceiveGenesis(c)
  <2>1. pc'[c] = "done"
        /\ (result'[c] = Error("internalError") \/ result'[c] = Document(cur[c].id, derived[c], TRUE))
    BY <1>13, <1>7 DEF ReceiveGenesis
  <2>2. PreOK(c)' /\ GenesisOK(c)'
    BY <1>5, <2>1 DEF PreOK, GenesisOK, InFlight, Served, Document, ErrorOutcomes
  <2> QED BY <1>2, <1>4, <2>2, GenesisFrame
<1> QED BY <1>9, <1>10, <1>11, <1>12, <1>13 DEF Receive

(* An RPC that fails ends the call without a document; nothing but a view  *)
(* without the DID makes a document of did:julia go without its key.       *)
THEOREM GenesisKept == Spec => []GenesisIsKept
<1>1. Init => GenesisInv
  BY DEF Init, GenesisInv, PreOK, GenesisOK, InFlight, Served
<1>2. ASSUME Inv, GenesisInv, [Next]_vars PROVE GenesisInv'
  <2>1. CASE UNCHANGED vars
    BY <1>2, <2>1 DEF vars, clientVars, chainVars, historyVars, GenesisInv, PreOK, GenesisOK, Served
  <2>2. CASE Environment
    <3>1. \A c \in Call : seen[c] \subseteq seen'[c] BY <2>2 DEF Environment
    <3>2. pc' = pc /\ pre' = pre /\ result' = result BY <2>2 DEF Environment, clientVars
    <3>3. \A c \in Call : Served(c)' => Served(c)
      BY <3>2 DEF Served
    <3>4. kind' = kind
      BY <2>2 DEF Environment, ChainNext, Create, Grow, Reorg
    <3> QED BY <1>2, <3>1, <3>2, <3>3, <3>4 DEF GenesisInv, PreOK, GenesisOK
  <2>3. ASSUME NEW c \in Call, Answer(c) \/ Fail(c) \/ Timeout(c) \/ Abort(c)
        PROVE  GenesisInv'
    BY <1>2, <2>3 DEF Answer, Fail, Timeout, Abort, clientVars, chainVars, historyVars,
       GenesisInv, PreOK, GenesisOK, Served
  <2>4. ASSUME NEW c \in Call, Begin(c) PROVE GenesisInv'
    <3>1. /\ pc' = [pc EXCEPT ![c] = "launcher"] /\ pre' = pre /\ result' = result /\ kind' = kind
          /\ seen' = [seen EXCEPT ![c] = Views(chain)]
      BY <2>4 DEF Begin, Goto, chainVars
    <3>2. pc'[c] = "launcher" BY <1>2, <3>1 DEF Inv, TypeOK
    <3>3. \A d \in Call \ {c} : pc'[d] = pc[d] /\ seen'[d] = seen[d]
      BY <1>2, <3>1 DEF Inv, TypeOK
    <3> QED BY <1>2, <3>1, <3>2, <3>3 DEF GenesisInv, PreOK, GenesisOK, Served, InFlight
  <2>5. ASSUME NEW c \in Call, Refuse(c) PROVE GenesisInv'
    <3>1. PICK e \in RequestErrors : Finish(c, Error(e)) BY <2>5 DEF Refuse
    <3>2. pc'[c] = "done" /\ result'[c].out # "document"
      BY <1>2, <3>1 DEF Finish, Inv, TypeOK, Error, RequestErrors
    <3>3. \A d \in Call \ {c} : pc'[d] = pc[d] /\ pre'[d] = pre[d] /\ result'[d] = result[d]
      BY <1>2, <2>5, <3>1 DEF Refuse, Finish, Inv, TypeOK
    <3>4. PreOK(c)' /\ GenesisOK(c)' BY <3>2 DEF PreOK, GenesisOK, InFlight, Served
    <3> QED BY <1>2, <2>5, <3>3, <3>4, GenesisFrame DEF Refuse, chainVars, historyVars
  <2>6. ASSUME NEW c \in Call, Receive(c) PROVE GenesisInv'
    BY <1>2, <2>6, GenesisReceived
  <2> QED BY <1>2, <2>1, <2>2, <2>3, <2>4, <2>5, <2>6 DEF Next
<1>3. GenesisInv => GenesisIsKept BY DEF GenesisInv, GenesisOK, GenesisIsKept
<1> QED BY <1>1, <1>2, <1>3, Invariance, PTL DEF Spec

-----------------------------------------------------------------------------
(* Under growth alone.  As long as no reorganization took coins away under *)
(* a call, all the views it has seen are prefixes of the chain.            *)
Prefix(v) == Len(v) <= Len(chain) /\ \A i \in 1..Len(v) : v[i] = chain[i]

GrownOK(c) == Running(c) /\ ~shrunk[c] => \A v \in seen[c] : Prefix(v)

(* The coin whose spend is fetched is the parent of the current one.       *)
NextOK(c) == pc[c] \in {"spend", "genesis"} => Len(cur[c].id) = Len(rec[c].id) + 1

(* A call that has not begun has walked nowhere.                           *)
FreshOK(c) == pc[c] = "idle" => gens[c] = 0

UnverifiedOK(c) ==
  result[c].out = "unverifiableState" =>
    \/ kind = "foreign"
    \/ shrunk[c]
    \/ \E v \in seen[c] : Unexplained(v)

(* A call that nothing disturbs, at a node none of whose replicas is late. *)
Calm(c) ==
  /\ Lag = 0 /\ kind \in {"julia", "legacy"}
  /\ ~faulted[c] /\ ~shrunk[c]
  /\ \A v \in seen[c] : Established(v)

(* What such a call carries is true of the view v.                         *)
Carried(v, c) ==
  /\ pc[c] \in {"launcher", "prelauncher", "fast", "fastParent"} => gens[c] = 0
  /\ pc[c] \in {"prelauncher", "fast", "fastParent"} => rec[c].id = <<Launcher>>
  /\ pc[c] \in InFlight \ {"launcher"} => HoldsOn(v, rec[c])
  /\ pc[c] \in InFlight \ {"launcher", "prelauncher"} => pre[c].id = << >> /\ HoldsOn(v, pre[c])
  /\ pc[c] = "children" => Len(rec[c].id) = gens[c] + 1
  /\ pc[c] = "fastParent" => OnChain(v, cur[c].id) /\ Len(cur[c].id) > 1

ServedOK(c) ==
  Undisturbed(c) /\ kind \in {"julia", "legacy"} =>
    \/ Served(c) /\ result[c].genesis = (kind = "julia")
    \/ /\ result[c].out = "unverifiableState"
       /\ \E v \in seen[c] : Unexplained(v)
    \/ /\ result[c].out = "internalError"
       /\ \E v \in seen[c] : Len(v) - 1 > MaxGenerations

CalmOK(c) ==
  Calm(c) =>
    /\ Running(c) => Carried(chain, c)
    /\ Running(c) /\ reply[c] # NoReply =>
         \E v \in seen[c] : reply[c] \in Answers(v, c) /\ Carried(v, c)
    /\ ServedOK(c)

Truth(c) == GrownOK(c) /\ NextOK(c) /\ FreshOK(c) /\ UnverifiedOK(c) /\ CalmOK(c)

TruthInv == Inv /\ \A c \in Call : Truth(c)

(* A call whose variables a step leaves alone keeps it.                    *)
LEMMA TruthFrame ==
  ASSUME NEW c \in Call, Truth(c),
         UNCHANGED <<chainVars, serves>>,
         pc'[c] = pc[c], reply'[c] = reply[c], rec'[c] = rec[c], cur'[c] = cur[c],
         pre'[c] = pre[c], gens'[c] = gens[c], result'[c] = result[c],
         seen'[c] = seen[c], faulted'[c] = faulted[c], shrunk'[c] = shrunk[c]
  PROVE  Truth(c)'
<1> USE DEF chainVars
<1>1. GrownOK(c)' /\ NextOK(c)' /\ FreshOK(c)' /\ UnverifiedOK(c)'
  BY DEF Truth, GrownOK, NextOK, FreshOK, UnverifiedOK, Running, Prefix, StateOf, Tip
<1>2. \A v : Answers(v, c)' = Answers(v, c)
  BY DEF Answers, PrelauncherAnswers, SingletonInfoAnswers
<1>3. \A v : Carried(v, c)' = Carried(v, c) BY DEF Carried
<1>4. Carried(chain, c)' = Carried(chain, c) BY DEF Carried, HoldsOn, OnChain
<1>5. Calm(c)' = Calm(c) BY DEF Calm
<1>6. ServedOK(c)' = ServedOK(c) BY DEF ServedOK, Undisturbed, Served, Established, StateOf, Tip
<1>7. CalmOK(c)' BY <1>2, <1>3, <1>4, <1>5, <1>6 DEF Truth, CalmOK, Running
<1> QED BY <1>1, <1>7 DEF Truth

(* A step of one call keeps the truth when it does so for that call.       *)
LEMMA OneCallTrue ==
  ASSUME TruthInv, NEW c \in Call, Inv', UNCHANGED <<chainVars, serves>>, Truth(c)',
         \A d \in Call \ {c} :
           /\ pc'[d] = pc[d] /\ reply'[d] = reply[d] /\ rec'[d] = rec[d] /\ cur'[d] = cur[d]
           /\ pre'[d] = pre[d] /\ gens'[d] = gens[d] /\ result'[d] = result[d]
           /\ seen'[d] = seen[d] /\ faulted'[d] = faulted[d] /\ shrunk'[d] = shrunk[d]
  PROVE  TruthInv'
<1>1. ASSUME NEW d \in Call \ {c} PROVE Truth(d)'
  BY <1>1, TruthFrame DEF TruthInv
<1> QED BY <1>1 DEF TruthInv

(* What the spend of the parent reveals is the current coin: both are the  *)
(* next coin of one path.                                                  *)
LEMMA SpendIsCurrent ==
  ASSUME Inv, NEW c \in Call, GrownOK(c), NextOK(c), ~shrunk[c],
         pc[c] = "spend", reply[c].kind = "data"
  PROVE  /\ Only(reply[c]).id = cur[c].id
         /\ \E w \in seen[c] : w # << >> /\ Established(w) /\ cur[c].id = Tip(w)
         /\ rec[c].id = Front(cur[c].id)
<1>1. Running(c) BY DEF Running, InFlight
<1>2. PICK v \in seen[c] : v \in Seq(Link) /\ reply[c] \in Answers(v, c)
  BY <1>1, Provenance
<1>3. PICK w \in seen[c] : Established(w) /\ cur[c].id = Tip(w)
  BY DEF Inv, CallOK, CurOK
<1>4. w \in Seq(Link) /\ Prefix(v) /\ Prefix(w) BY <1>1, <1>2 DEF Inv, TypeOK, GrownOK
<1>5. rec[c].id \in Path /\ Len(rec[c].id) \in Nat BY DEF Inv, TypeOK, CoinRecord, Path
<1>6. reply[c].body = ChildrenOf(v, rec[c].id) /\ ChildrenOf(v, rec[c].id) # {}
  BY <1>2 DEF Answers, SpendAnswer, Data, Failure
<1>7. Only(reply[c]) \in ChildrenOf(v, rec[c].id) BY <1>6 DEF Only
<1> DEFINE n == Len(rec[c].id) + 1
           p == SubSeq(Tip(v), 1, n)
<1>8. Len(rec[c].id) < Len(v) /\ Only(reply[c]) = RecordOf(v, p)
  BY <1>2, <1>5, <1>7, ChildrenType
<1>9. Only(reply[c]).id = p BY <1>8 DEF RecordOf
<1>10. n \in Nat /\ n <= Len(v) /\ Len(v) \in Nat BY <1>2, <1>5, <1>8
<1>11. Len(w) = n
  <2>1. Len(Tip(w)) = Len(w) BY <1>4, TipType
  <2> QED BY <1>3, <2>1 DEF NextOK
<1>12. p = Tip(w)
  <2> HIDE DEF n
  <2>1. p = [i \in 1..n |-> v[i].st] BY <1>10 DEF Tip
  <2>2. \A i \in 1..n : v[i] = w[i] BY <1>4, <1>10, <1>11 DEF Prefix
  <2> QED BY <1>11, <2>1, <2>2 DEF Tip
<1>13. w # << >> BY <1>3 DEF Established
<1>14. rec[c].id = Front(cur[c].id)
  <2>1. cur[c].id = SubSeq(Tip(v), 1, n) /\ Tip(v) \in Path /\ Len(Tip(v)) = Len(v)
    BY <1>2, <1>3, <1>12, TipType
  <2>2. OnChain(v, rec[c].id) BY <1>6 DEF ChildrenOf
  <2> DEFINE m == Len(rec[c].id)
  <2>3. m \in Nat /\ n = m + 1 /\ rec[c].id \in Seq(State \cup {Launcher})
        /\ \A i \in 1..m : rec[c].id[i] = v[i].st
    BY <1>5, <2>2 DEF OnChain, Path
  <2> HIDE DEF n, m
  <2>4. cur[c].id = [i \in 1..n |-> v[i].st] BY <1>10, <2>1 DEF Tip
  <2>5. Len(cur[c].id) = n BY <1>10, <2>4
  <2>6. Front(cur[c].id) = [i \in 1..m |-> v[i].st] BY <2>3, <2>4, <2>5 DEF Front
  <2>7. rec[c].id = [i \in 1..m |-> rec[c].id[i]] BY <2>3 DEF m
  <2> QED BY <2>3, <2>6, <2>7
<1> QED BY <1>3, <1>9, <1>12, <1>13, <1>14

(* What a Receive finds: under a calm call an answer from a view of which  *)
(* all it carries is true.                                                 *)
LEMMA Taken ==
  ASSUME TruthInv, NEW c \in Call, NEW p \in InFlight, Take(c, p)
  PROVE  /\ Truth(c) /\ Running(c) /\ UNCHANGED <<kind, chain, chainVars, serves>>
         /\ reply'[c] = NoReply /\ seen'[c] = seen[c]
         /\ faulted'[c] = faulted[c] /\ shrunk'[c] = shrunk[c]
         /\ GrownOK(c)' /\ Calm(c)' = Calm(c)
         /\ Calm(c) => \E v \in seen[c] :
              /\ v \in Seq(Link) /\ Len(v) \in Nat /\ Len(v) > 1 /\ v[1].st = Launcher
              /\ Prefix(v) /\ reply[c] \in Answers(v, c) /\ Carried(v, c)
<1> USE DEF Take, chainVars, historyVars
<1>1. Truth(c) /\ Running(c) /\ SeenOK(c) /\ seen[c] \subseteq Seq(Link)
  BY DEF TruthInv, Inv, CallOK, TypeOK, Running
<1>2. reply'[c] = NoReply BY DEF TruthInv, Inv, TypeOK
<1>3. GrownOK(c)' BY <1>1 DEF Truth, GrownOK, Prefix
<1>4. Calm(c)' = Calm(c) BY DEF Calm
<1>5. ASSUME Calm(c)
      PROVE  \E v \in seen[c] :
               /\ v \in Seq(Link) /\ Len(v) \in Nat /\ Len(v) > 1 /\ v[1].st = Launcher
               /\ Prefix(v) /\ reply[c] \in Answers(v, c) /\ Carried(v, c)
  <2>1. PICK v \in seen[c] : reply[c] \in Answers(v, c) /\ Carried(v, c)
    BY <1>1, <1>5 DEF Truth, CalmOK
  <2>2. v \in Seq(Link) /\ Len(v) \in Nat /\ Len(v) > 1 BY <1>1, <1>5 DEF Calm, Established
  <2>3. v # << >> BY <2>2
  <2>4. v[1].st = Launcher /\ Prefix(v) BY <1>1, <1>5, <2>3 DEF SeenOK, Truth, GrownOK, Calm
  <2> QED BY <2>1, <2>2, <2>4
<1> QED BY <1>1, <1>2, <1>3, <1>4, <1>5

LEMMA Lifted ==
  ASSUME Inv, NEW v \in Seq(Link), Prefix(v)
  PROVE  /\ \A r : HoldsOn(v, r) => HoldsOn(chain, r)
         /\ \A id \in Path : OnChain(v, id) => OnChain(chain, id)
BY HoldsLonger DEF Inv, TypeOK, ChainTypeOK, Prefix

(* What a Receive has to leave.                                            *)
LEMMA TrueAgain ==
  ASSUME TruthInv, NEW c \in Call, NEW p \in InFlight, Take(c, p), Inv',
         NextOK(c)', UnverifiedOK(c)',
         Calm(c) => ServedOK(c)',
         Calm(c) /\ Running(c)' =>
           \E v \in seen[c] : v \in Seq(Link) /\ Prefix(v) /\ Carried(v, c)',
         \A d \in Call \ {c} :
           /\ pc'[d] = pc[d] /\ rec'[d] = rec[d] /\ cur'[d] = cur[d] /\ pre'[d] = pre[d]
           /\ gens'[d] = gens[d] /\ result'[d] = result[d]
  PROVE  TruthInv'
<1>1. /\ UNCHANGED <<kind, chain, chainVars, serves>>
      /\ reply'[c] = NoReply /\ GrownOK(c)' /\ Calm(c)' = Calm(c)
  BY Taken
<1>2. Calm(c) /\ Running(c)' => Carried(chain, c)'
  <2> SUFFICES ASSUME Calm(c), Running(c)' PROVE Carried(chain, c)' OBVIOUS
  <2>1. PICK v \in seen[c] : v \in Seq(Link) /\ Prefix(v) /\ Carried(v, c)' OBVIOUS
  <2>2. /\ \A r : HoldsOn(v, r) => HoldsOn(chain, r)
        /\ \A id \in Path : OnChain(v, id) => OnChain(chain, id)
    BY <2>1, Lifted DEF TruthInv
  <2>3. cur'[c].id \in Path BY DEF Inv, TypeOK, CoinRecord
  <2>4. chain' = chain BY <1>1
  <2> QED BY <2>1, <2>2, <2>3, <2>4 DEF Carried
<1>3. CalmOK(c)' BY <1>1, <1>2 DEF CalmOK
<1>4. Truth(c)'
  <2>1. chain \in seen[c] /\ seen'[c] = seen[c]
    BY Taken, ViewsType DEF TruthInv, Inv, TypeOK, ChainTypeOK, CallOK, SeenOK
  <2>2. FreshOK(c)' BY <2>1 DEF FreshOK, Inv, CallOK, ResultOK
  <2> QED BY <1>1, <1>3, <2>2 DEF Truth
<1>5. \A d \in Call \ {c} :
        reply'[d] = reply[d] /\ seen'[d] = seen[d] /\ faulted'[d] = faulted[d] /\ shrunk'[d] = shrunk[d]
  BY ReceiveFrame DEF Take, historyVars, TruthInv
<1> QED BY <1>1, <1>4, <1>5, OneCallTrue

LEMMA Goes ==
  ASSUME TruthInv, NEW c \in Call, NEW p \in InFlight, Take(c, p), NEW q \in InFlight, Goto(c, q)
  PROVE  /\ pc'[c] = q /\ UnverifiedOK(c)' /\ ServedOK(c)'
         /\ \A d \in Call \ {c} : pc'[d] = pc[d] /\ result'[d] = result[d]
<1>1. pc'[c] = q /\ result' = result /\ \A d \in Call \ {c} : pc'[d] = pc[d]
  BY DEF Goto, TruthInv, Inv, TypeOK
<1>2. result'[c] = NoResult BY <1>1 DEF TruthInv, Inv, CallOK, ResultOK, Take, InFlight
<1>3. UnverifiedOK(c)' BY <1>2 DEF UnverifiedOK, NoResult, Error
<1>4. pc'[c] # "done" BY <1>1 DEF InFlight
<1>5. ServedOK(c)' BY <1>4 DEF ServedOK, Undisturbed
<1> QED BY <1>1, <1>3, <1>5

LEMMA Ends ==
  ASSUME TruthInv, NEW c \in Call, NEW p \in InFlight, Take(c, p), NEW r, Finish(c, r)
  PROVE  /\ pc'[c] = "done" /\ result'[c] = r /\ ~Running(c)' /\ NextOK(c)'
         /\ r.out # "unverifiableState" => UnverifiedOK(c)'
         /\ \A d \in Call \ {c} : pc'[d] = pc[d] /\ result'[d] = result[d]
<1>1. pc'[c] = "done" /\ result'[c] = r
      /\ \A d \in Call \ {c} : pc'[d] = pc[d] /\ result'[d] = result[d]
  BY DEF Finish, TruthInv, Inv, TypeOK
<1> QED BY <1>1 DEF Running, InFlight, NextOK, UnverifiedOK

LEMMA TrueLauncher ==
  ASSUME TruthInv, NEW c \in Call, ReceiveLauncher(c), Inv'
  PROVE  TruthInv'
<1>1. "launcher" \in InFlight /\ "prelauncher" \in InFlight BY DEF InFlight
<1>2. Take(c, "launcher") /\ pc[c] = "launcher" /\ UNCHANGED <<cur, pre, gens>>
  BY DEF ReceiveLauncher, Take
<1>3. CASE /\ reply[c].kind = "data" /\ kind # "ordinary" /\ Only(reply[c]).spent
           /\ rec' = [rec EXCEPT ![c] = Only(reply[c])] /\ Goto(c, "prelauncher")
  <2>1. pc'[c] = "prelauncher" /\ UnverifiedOK(c)' /\ ServedOK(c)'
        /\ \A d \in Call \ {c} : pc'[d] = pc[d] /\ result'[d] = result[d]
    BY <1>1, <1>2, <1>3, Goes
  <2>2. rec'[c] = Only(reply[c]) /\ \A d \in Call \ {c} : rec'[d] = rec[d]
    BY <1>3 DEF TruthInv, Inv, TypeOK
  <2>3. ASSUME Calm(c)
        PROVE  \E v \in seen[c] : v \in Seq(Link) /\ Prefix(v) /\ Carried(v, c)'
    <3>1. PICK v \in seen[c] :
            /\ v \in Seq(Link) /\ Len(v) \in Nat /\ Len(v) > 1 /\ v[1].st = Launcher
            /\ Prefix(v) /\ reply[c] \in Answers(v, c) /\ Carried(v, c)
      BY <1>1, <1>2, <2>3, Taken
    <3>2. <<Launcher>> \in Path /\ Len(<<Launcher>>) = 1 /\ OnChain(v, <<Launcher>>)
      BY <3>1 DEF Path, OnChain
    <3>3. reply[c] = RecordAnswer(v, <<Launcher>>) BY <1>2, <3>1 DEF Answers
    <3>4. rec'[c] = RecordOf(v, <<Launcher>>) BY <1>3, <2>2, <3>1, <3>2, <3>3, OneRecord
    <3>5. HoldsOn(v, rec'[c]) /\ rec'[c].id = <<Launcher>> BY <3>1, <3>2, <3>4, RecordHolds
    <3>6. gens'[c] = 0 BY <1>2, <3>1 DEF Carried
    <3>7. Carried(v, c)' BY <2>1, <3>5, <3>6 DEF Carried
    <3> QED BY <3>1, <3>7
  <2>4. NextOK(c)' BY <2>1 DEF NextOK
  <2> QED BY <1>1, <1>2, <2>1, <2>2, <2>3, <2>4, TrueAgain
<1>4. CASE /\ Finish(c, Error("notFound")) \/ Finish(c, Error("internalError"))
           /\ UNCHANGED rec
           /\ ~(/\ reply[c].kind = "data" /\ kind # "ordinary" /\ Only(reply[c]).spent)
  <2>1. ~Running(c)' /\ NextOK(c)' /\ UnverifiedOK(c)'
        /\ \A d \in Call \ {c} : pc'[d] = pc[d] /\ result'[d] = result[d]
    BY <1>1, <1>2, <1>4, Ends DEF Error
  <2>2. ~Calm(c)
    <3> SUFFICES ASSUME Calm(c) PROVE FALSE OBVIOUS
    <3>1. PICK v \in seen[c] :
            /\ v \in Seq(Link) /\ Len(v) \in Nat /\ Len(v) > 1 /\ v[1].st = Launcher
            /\ Prefix(v) /\ reply[c] \in Answers(v, c) /\ Carried(v, c)
      BY <1>1, <1>2, Taken
    <3>2. <<Launcher>> \in Path /\ Len(<<Launcher>>) = 1 /\ OnChain(v, <<Launcher>>)
      BY <3>1 DEF Path, OnChain
    <3>3. reply[c] = RecordAnswer(v, <<Launcher>>) BY <1>2, <3>1 DEF Answers
    <3>4. reply[c].kind = "data" BY <3>2, <3>3 DEF RecordAnswer, Data
    <3>5. Only(reply[c]) = RecordOf(v, <<Launcher>>) BY <3>1, <3>2, <3>3, <3>4, OneRecord
    <3>6. Only(reply[c]).spent BY <3>1, <3>2, <3>5, RecordHolds DEF HoldsOn
    <3> QED BY <1>4, <3>4, <3>6 DEF Calm
  <2> QED BY <1>1, <1>2, <1>4, <2>1, <2>2, TrueAgain
<1> QED BY <1>3, <1>4 DEF ReceiveLauncher, NoCoin

LEMMA TrueWalk ==
  ASSUME TruthInv, NEW c \in Call, NEW p \in InFlight, Take(c, p),
         NEW r, NEW g \in Nat, WalkFrom(c, r, g)
  PROVE  /\ rec'[c] = r /\ gens'[c] = g /\ NextOK(c)' /\ UnverifiedOK(c)'
         /\ g < MaxGenerations => pc'[c] = "children" /\ ServedOK(c)'
         /\ g >= MaxGenerations => ~Running(c)' /\ result'[c] = Error("internalError")
         /\ \A d \in Call \ {c} :
              rec'[d] = rec[d] /\ gens'[d] = gens[d] /\ pc'[d] = pc[d] /\ result'[d] = result[d]
<1>1. /\ rec'[c] = r /\ gens'[c] = g
      /\ \A d \in Call \ {c} : rec'[d] = rec[d] /\ gens'[d] = gens[d]
  BY DEF WalkFrom, TruthInv, Inv, TypeOK
<1>2. "children" \in InFlight /\ MaxGenerations \in Nat BY ResolverAssumption DEF InFlight
<1>3. CASE g >= MaxGenerations
  <2>1. Finish(c, Error("internalError")) BY <1>3 DEF WalkFrom
  <2> QED BY <1>1, <1>2, <1>3, <2>1, Ends DEF Error
<1>4. CASE ~(g >= MaxGenerations)
  <2>1. Goto(c, "children") BY <1>4 DEF WalkFrom
  <2>2. pc'[c] = "children" /\ UnverifiedOK(c)' /\ ServedOK(c)'
        /\ \A d \in Call \ {c} : pc'[d] = pc[d] /\ result'[d] = result[d]
    BY <1>2, <2>1, Goes
  <2>3. NextOK(c)' BY <2>2 DEF NextOK
  <2> QED BY <1>1, <1>2, <1>4, <2>2, <2>3
<1> QED BY <1>3, <1>4

(* A call that falls back walks from the launcher, at generation zero.     *)
LEMMA TrueFallback ==
  ASSUME TruthInv, NEW c \in Call, NEW p \in {"prelauncher", "fast", "fastParent"}, Take(c, p),
         WalkFrom(c, rec[c], 0)
  PROVE  /\ NextOK(c)' /\ UnverifiedOK(c)' /\ ServedOK(c)'
         /\ \A v : Carried(v, c) /\ pre'[c].id = << >> /\ HoldsOn(v, pre'[c]) => Carried(v, c)'
         /\ \A d \in Call \ {c} :
              rec'[d] = rec[d] /\ gens'[d] = gens[d] /\ pc'[d] = pc[d] /\ result'[d] = result[d]
<1>1. 0 < MaxGenerations /\ 0 \in Nat /\ p \in InFlight BY ResolverAssumption DEF InFlight
<1>2. /\ rec'[c] = rec[c] /\ gens'[c] = 0 /\ NextOK(c)' /\ UnverifiedOK(c)'
      /\ pc'[c] = "children" /\ ServedOK(c)'
      /\ \A d \in Call \ {c} :
           rec'[d] = rec[d] /\ gens'[d] = gens[d] /\ pc'[d] = pc[d] /\ result'[d] = result[d]
  BY <1>1, TrueWalk
<1>3. pc[c] = p BY DEF Take
<1>4. ASSUME NEW v, Carried(v, c), pre'[c].id = << >>, HoldsOn(v, pre'[c]) PROVE Carried(v, c)'
  <2>1. rec[c].id = <<Launcher>> /\ HoldsOn(v, rec[c]) BY <1>1, <1>3, <1>4 DEF Carried
  <2>2. Len(rec'[c].id) = gens'[c] + 1 BY <1>2, <2>1
  <2> QED BY <1>2, <1>4, <2>1, <2>2 DEF Carried
<1> QED BY <1>2, <1>4

LEMMA TruePrelauncher ==
  ASSUME TruthInv, NEW c \in Call, ReceivePrelauncher(c), Inv'
  PROVE  TruthInv'
<1>1. "prelauncher" \in InFlight /\ "fast" \in InFlight BY DEF InFlight
<1>2. Take(c, "prelauncher") /\ pc[c] = "prelauncher" /\ UNCHANGED cur
  BY DEF ReceivePrelauncher, Take
<1>3. << >> \in Path /\ Len(<< >>) = 0 BY DEF Path
<1>4. ASSUME Calm(c)
      PROVE  /\ reply[c].kind = "data"
             /\ \E v \in seen[c] :
                  /\ v \in Seq(Link) /\ Prefix(v) /\ Carried(v, c)
                  /\ HoldsOn(v, Only(reply[c])) /\ Only(reply[c]).id = << >>
  <2>1. PICK v \in seen[c] :
          /\ v \in Seq(Link) /\ Len(v) \in Nat /\ Len(v) > 1 /\ v[1].st = Launcher
          /\ Prefix(v) /\ reply[c] \in Answers(v, c) /\ Carried(v, c)
    BY <1>1, <1>2, <1>4, Taken
  <2>2. OnChain(v, << >>) BY <2>1 DEF OnChain
  <2>3. reply[c] = RecordAnswer(v, << >>)
    <3>1. v # << >> BY <2>1
    <3>2. reply[c] \in PrelauncherAnswers(v) BY <1>2, <2>1 DEF Answers
    <3> QED BY <3>1, <3>2 DEF PrelauncherAnswers
  <2>4. reply[c].kind = "data" BY <2>2, <2>3 DEF RecordAnswer, Data
  <2>5. Only(reply[c]) = RecordOf(v, << >>) BY <1>3, <2>1, <2>3, <2>4, OneRecord
  <2> QED BY <1>3, <2>1, <2>2, <2>4, <2>5, RecordHolds
<1>5. CASE NoCoin(c, "notFound") /\ UNCHANGED <<pre, rec, gens>>
  <2>1. Finish(c, Error("notFound")) \/ Finish(c, Error("internalError")) BY <1>5 DEF NoCoin
  <2>2. ~Running(c)' /\ NextOK(c)' /\ UnverifiedOK(c)'
        /\ \A d \in Call \ {c} : pc'[d] = pc[d] /\ result'[d] = result[d]
    BY <1>1, <1>2, <2>1, Ends DEF Error
  <2>3. ~Calm(c) BY <1>4, <1>5 DEF NoCoin
  <2> QED BY <1>1, <1>2, <1>5, <2>2, <2>3, TrueAgain
<1>6. CASE reply[c].kind = "data" /\ pre' = [pre EXCEPT ![c] = Only(reply[c])] /\ TryFastPath(c)
  <2>1. pre'[c] = Only(reply[c]) /\ \A d \in Call \ {c} : pre'[d] = pre[d]
    BY <1>6 DEF TruthInv, Inv, TypeOK
  <2>2. CASE enabled
    <3>1. Goto(c, "fast") /\ UNCHANGED <<rec, gens>> BY <1>6, <2>2 DEF TryFastPath
    <3>2. pc'[c] = "fast" /\ UnverifiedOK(c)' /\ ServedOK(c)'
          /\ \A d \in Call \ {c} : pc'[d] = pc[d] /\ result'[d] = result[d]
      BY <1>1, <1>2, <3>1, Goes
    <3>3. \A v : Carried(v, c) /\ pre'[c].id = << >> /\ HoldsOn(v, pre'[c]) => Carried(v, c)'
      BY <1>1, <1>2, <3>1, <3>2 DEF Carried
    <3>4. NextOK(c)' BY <3>2 DEF NextOK
    <3>5. Calm(c) => \E v \in seen[c] : v \in Seq(Link) /\ Prefix(v) /\ Carried(v, c)'
      BY <1>4, <2>1, <3>3
    <3> QED BY <1>1, <1>2, <2>1, <3>1, <3>2, <3>4, <3>5, TrueAgain
  <2>3. CASE ~enabled
    <3>1. WalkFrom(c, rec[c], 0) BY <1>6, <2>3 DEF TryFastPath
    <3>2. /\ NextOK(c)' /\ UnverifiedOK(c)' /\ ServedOK(c)'
          /\ \A v : Carried(v, c) /\ pre'[c].id = << >> /\ HoldsOn(v, pre'[c]) => Carried(v, c)'
          /\ \A d \in Call \ {c} :
               rec'[d] = rec[d] /\ gens'[d] = gens[d] /\ pc'[d] = pc[d] /\ result'[d] = result[d]
      BY <1>2, <3>1, TrueFallback
    <3>3. Calm(c) => \E v \in seen[c] : v \in Seq(Link) /\ Prefix(v) /\ Carried(v, c)'
      BY <1>4, <2>1, <3>2
    <3> QED BY <1>1, <1>2, <2>1, <3>2, <3>3, TrueAgain
  <2> QED BY <2>2, <2>3
<1> QED BY <1>5, <1>6 DEF ReceivePrelauncher

LEMMA TrueFast ==
  ASSUME TruthInv, NEW c \in Call, ReceiveFast(c), Inv'
  PROVE  TruthInv'
<1>1. "fast" \in InFlight /\ "fastParent" \in InFlight BY DEF InFlight
<1>2. Take(c, "fast") /\ pc[c] = "fast" /\ UNCHANGED pre BY DEF ReceiveFast, Take
<1>3. \A v : Carried(v, c) => pre'[c].id = << >> /\ HoldsOn(v, pre'[c])
  BY <1>1, <1>2 DEF Carried
<1>4. CASE UsableInfo(reply[c])
  <2>1. /\ cur' = [cur EXCEPT ![c] = Only(reply[c])]
        /\ Goto(c, "fastParent") /\ UNCHANGED <<rec, gens>>
    BY <1>4 DEF ReceiveFast
  <2>2. cur'[c] = Only(reply[c]) /\ \A d \in Call \ {c} : cur'[d] = cur[d]
    BY <2>1 DEF TruthInv, Inv, TypeOK
  <2>3. pc'[c] = "fastParent" /\ UnverifiedOK(c)' /\ ServedOK(c)'
        /\ \A d \in Call \ {c} : pc'[d] = pc[d] /\ result'[d] = result[d]
    BY <1>1, <1>2, <2>1, Goes
  <2>4. NextOK(c)' BY <2>3 DEF NextOK
  <2>5. ASSUME Calm(c)
        PROVE  \E v \in seen[c] : v \in Seq(Link) /\ Prefix(v) /\ Carried(v, c)'
    <3>1. PICK v \in seen[c] :
            /\ v \in Seq(Link) /\ Len(v) \in Nat /\ Len(v) > 1 /\ v[1].st = Launcher
            /\ Prefix(v) /\ reply[c] \in Answers(v, c) /\ Carried(v, c)
      BY <1>1, <1>2, <2>5, Taken
    <3>2. reply[c] \in SingletonInfoAnswers(v) BY <1>2, <3>1 DEF Answers
    <3>3. \E n \in 2..Len(v) : reply[c] = Data({RecordOf(v, SubSeq(Tip(v), 1, n))})
      <4>1. reply[c] # Failure("unimplemented") /\ reply[c] # Data({})
        BY <1>4 DEF UsableInfo, Failure, Data
      <4>2. serves /\ Established(v) BY <3>2, <4>1 DEF SingletonInfoAnswers
      <4> QED BY <3>2, <4>2 DEF SingletonInfoAnswers
    <3>4. PICK n \in 2..Len(v) : reply[c] = Data({RecordOf(v, SubSeq(Tip(v), 1, n))}) BY <3>3
    <3> DEFINE q == SubSeq(Tip(v), 1, n)
    <3>5. cur'[c].id = q
      <4>1. cur'[c] = RecordOf(v, q) BY <2>2, <3>4 DEF Only, Data
      <4> QED BY <4>1 DEF RecordOf
    <3>6. Tip(v) \in Path /\ Len(Tip(v)) = Len(v) BY <3>1, TipType
    <3>7. q \in Path /\ Len(q) = n /\ \A i \in 1..n : q[i] = Tip(v)[i]
      BY <3>1, <3>6, PrefixType DEF Path
    <3>8. OnChain(v, q)
      <4>1. \A i \in 1..n : q[i] = v[i].st BY <3>1, <3>7 DEF Tip
      <4> HIDE DEF q
      <4> QED BY <3>1, <3>7, <4>1 DEF OnChain
    <3>9. n > 1 BY <3>1
    <3>10. rec'[c] = rec[c] /\ gens'[c] = gens[c] BY <2>1
    <3>11. Carried(v, c)'
      <4> HIDE DEF q
      <4> QED BY <1>1, <1>2, <1>3, <2>3, <3>1, <3>5, <3>7, <3>8, <3>9, <3>10 DEF Carried
    <3> QED BY <3>1, <3>11
  <2> QED BY <1>1, <1>2, <2>1, <2>2, <2>3, <2>4, <2>5, TrueAgain
<1>5. CASE ~UsableInfo(reply[c])
  <2>1. WalkFrom(c, rec[c], 0) /\ UNCHANGED cur BY <1>5 DEF ReceiveFast
  <2>2. /\ NextOK(c)' /\ UnverifiedOK(c)' /\ ServedOK(c)'
        /\ \A v : Carried(v, c) /\ pre'[c].id = << >> /\ HoldsOn(v, pre'[c]) => Carried(v, c)'
        /\ \A d \in Call \ {c} :
             rec'[d] = rec[d] /\ gens'[d] = gens[d] /\ pc'[d] = pc[d] /\ result'[d] = result[d]
    BY <1>2, <2>1, TrueFallback
  <2>3. Calm(c) => \E v \in seen[c] : v \in Seq(Link) /\ Prefix(v) /\ Carried(v, c)'
    BY <1>1, <1>2, <1>3, <2>2, Taken
  <2> QED BY <1>1, <1>2, <2>1, <2>2, <2>3, TrueAgain
<1> QED BY <1>4, <1>5

(* The parent of a coin is the coin before it on its path.                 *)
LEMMA FrontOnChain ==
  ASSUME NEW v \in Seq(Link), NEW id \in Path, id # << >>
  PROVE  /\ Front(id) \in Path /\ Len(id) = Len(Front(id)) + 1
         /\ OnChain(v, id) => OnChain(v, Front(id)) /\ Len(Front(id)) < Len(v)
<1>1. Len(id) \in Nat \ {0} /\ Len(v) \in Nat BY EmptySeq DEF Path
<1> DEFINE n == Len(id) - 1
<1>2. n \in 0..Len(id) /\ n + 1 = Len(id) BY <1>1
<1>3. Front(id) \in Path /\ Len(Front(id)) = n /\ \A i \in 1..n : Front(id)[i] = id[i]
  <2>1. Front(id) = SubSeq(id, 1, n) BY DEF Front
  <2> HIDE DEF n
  <2> QED BY <1>2, <2>1, PrefixType DEF Path
<1>4. OnChain(v, id) => OnChain(v, Front(id)) /\ Len(Front(id)) < Len(v)
  <2> HIDE DEF n
  <2> QED BY <1>1, <1>2, <1>3 DEF OnChain
<1> QED BY <1>2, <1>3, <1>4

LEMMA TrueFastParent ==
  ASSUME TruthInv, NEW c \in Call, ReceiveFastParent(c), Inv'
  PROVE  TruthInv'
<1>1. "fastParent" \in InFlight /\ "spend" \in InFlight BY DEF InFlight
<1>2. Take(c, "fastParent") /\ pc[c] = "fastParent" /\ UNCHANGED <<pre, cur>>
  BY DEF ReceiveFastParent, Take
<1>3. \A v : Carried(v, c) => pre'[c].id = << >> /\ HoldsOn(v, pre'[c])
  BY <1>1, <1>2 DEF Carried
<1>4. cur[c].id \in Path /\ cur[c].id # << >> BY <1>2, CurIsTip DEF TruthInv
<1>5. ASSUME reply[c].kind = "data"
      PROVE  Len(cur[c].id) = Len(Only(reply[c]).id) + 1
  <2>1. PICK v \in seen[c] : v \in Seq(Link) /\ reply[c] \in Answers(v, c)
    BY <1>1, <1>2, <1>5, Provenance DEF TruthInv, Running
  <2>2. reply[c] = RecordAnswer(v, Front(cur[c].id)) BY <1>2, <2>1 DEF Answers
  <2>3. Front(cur[c].id) \in Path /\ Len(cur[c].id) = Len(Front(cur[c].id)) + 1
    BY <1>4, <2>1, FrontOnChain
  <2>4. Only(reply[c]) = RecordOf(v, Front(cur[c].id)) BY <1>5, <2>1, <2>2, <2>3, OneRecord
  <2>5. Only(reply[c]).id = Front(cur[c].id) BY <2>4 DEF RecordOf
  <2> QED BY <2>3, <2>5
<1>6. ASSUME Calm(c)
      PROVE  /\ reply[c].kind = "data"
             /\ \E v \in seen[c] :
                  /\ v \in Seq(Link) /\ Prefix(v) /\ Carried(v, c)
                  /\ HoldsOn(v, Only(reply[c]))
  <2>1. PICK v \in seen[c] :
          /\ v \in Seq(Link) /\ Len(v) \in Nat /\ Len(v) > 1 /\ v[1].st = Launcher
          /\ Prefix(v) /\ reply[c] \in Answers(v, c) /\ Carried(v, c)
    BY <1>1, <1>2, <1>6, Taken
  <2>2. reply[c] = RecordAnswer(v, Front(cur[c].id)) BY <1>2, <2>1 DEF Answers
  <2>3. OnChain(v, cur[c].id) BY <1>2, <2>1 DEF Carried
  <2>4. Front(cur[c].id) \in Path /\ OnChain(v, Front(cur[c].id)) /\ Len(Front(cur[c].id)) < Len(v)
    BY <1>4, <2>1, <2>3, FrontOnChain
  <2>5. reply[c].kind = "data" BY <2>2, <2>4 DEF RecordAnswer, Data
  <2>6. Only(reply[c]) = RecordOf(v, Front(cur[c].id)) BY <2>1, <2>2, <2>4, <2>5, OneRecord
  <2> QED BY <2>1, <2>4, <2>5, <2>6, RecordHolds
<1>7. CASE /\ reply[c].kind = "data" /\ Only(reply[c]).spent
           /\ rec' = [rec EXCEPT ![c] = Only(reply[c])]
           /\ Goto(c, "spend") /\ UNCHANGED gens
  <2>1. pc'[c] = "spend" /\ UnverifiedOK(c)' /\ ServedOK(c)'
        /\ \A d \in Call \ {c} : pc'[d] = pc[d] /\ result'[d] = result[d]
    BY <1>1, <1>2, <1>7, Goes
  <2>2. rec'[c] = Only(reply[c]) /\ \A d \in Call \ {c} : rec'[d] = rec[d]
    BY <1>7 DEF TruthInv, Inv, TypeOK
  <2>3. NextOK(c)' BY <1>2, <1>5, <1>7, <2>2 DEF NextOK
  <2>4. Calm(c) => \E v \in seen[c] : v \in Seq(Link) /\ Prefix(v) /\ Carried(v, c)'
    <3>1. \A v : Carried(v, c) /\ HoldsOn(v, rec'[c]) => Carried(v, c)'
      BY <1>3, <2>1 DEF Carried
    <3> QED BY <1>6, <2>2, <3>1
  <2> QED BY <1>1, <1>2, <1>7, <2>1, <2>2, <2>3, <2>4, TrueAgain
<1>8. CASE WalkFrom(c, rec[c], 0)
  <2>1. /\ NextOK(c)' /\ UnverifiedOK(c)' /\ ServedOK(c)'
        /\ \A v : Carried(v, c) /\ pre'[c].id = << >> /\ HoldsOn(v, pre'[c]) => Carried(v, c)'
        /\ \A d \in Call \ {c} :
             rec'[d] = rec[d] /\ gens'[d] = gens[d] /\ pc'[d] = pc[d] /\ result'[d] = result[d]
    BY <1>2, <1>8, TrueFallback
  <2>2. Calm(c) => \E v \in seen[c] : v \in Seq(Link) /\ Prefix(v) /\ Carried(v, c)'
    BY <1>3, <1>6, <2>1
  <2> QED BY <1>1, <1>2, <2>1, <2>2, TrueAgain
<1>9. CASE reply[c].kind # "data" /\ Finish(c, Error("internalError")) /\ UNCHANGED <<rec, gens>>
  <2>1. ~Running(c)' /\ NextOK(c)' /\ UnverifiedOK(c)'
        /\ \A d \in Call \ {c} : pc'[d] = pc[d] /\ result'[d] = result[d]
    BY <1>1, <1>2, <1>9, Ends DEF Error
  <2>2. ~Calm(c) BY <1>6, <1>9
  <2> QED BY <1>1, <1>2, <1>9, <2>1, <2>2, TrueAgain
<1> QED BY <1>7, <1>8, <1>9 DEF ReceiveFastParent

LEMMA TrueChildren ==
  ASSUME TruthInv, NEW c \in Call, ReceiveChildren(c), Inv'
  PROVE  TruthInv'
<1>1. "children" \in InFlight /\ "spend" \in InFlight BY DEF InFlight
<1>2. Take(c, "children") /\ pc[c] = "children" /\ UNCHANGED pre
  BY DEF ReceiveChildren, Take
<1>3. gens[c] \in Nat /\ gens[c] + 1 \in Nat /\ MaxGenerations \in Nat /\ rec[c].id \in Path
  BY ResolverAssumption DEF TruthInv, Inv, TypeOK, CoinRecord
<1>4. ASSUME reply[c].kind = "data", Cardinality(reply[c].body) = 1
      PROVE  Len(Only(reply[c]).id) = Len(rec[c].id) + 1
  <2>1. PICK v \in seen[c] : v \in Seq(Link) /\ reply[c] \in Answers(v, c)
    BY <1>1, <1>2, <1>4, Provenance DEF TruthInv, Running
  <2>2. reply[c].body = ChildrenOf(v, rec[c].id) BY <1>2, <2>1 DEF Answers, Data
  <2>3. reply[c].body # {} BY <1>4, FS_EmptySet
  <2>4. Only(reply[c]) \in ChildrenOf(v, rec[c].id) BY <2>2, <2>3 DEF Only
  <2> QED BY <1>3, <2>1, <2>4, ChildrenType
<1>5. ASSUME Calm(c)
      PROVE  /\ reply[c].kind = "data" /\ Cardinality(reply[c].body) = 1
             /\ Len(Only(reply[c]).id) = gens[c] + 2
             /\ \E v \in seen[c] :
                  /\ v \in Seq(Link) /\ Prefix(v) /\ Carried(v, c)
                  /\ Only(reply[c]).spent =>
                       HoldsOn(v, Only(reply[c])) /\ gens[c] + 1 < Len(v) - 1
  <2>1. PICK v \in seen[c] :
          /\ v \in Seq(Link) /\ Len(v) \in Nat /\ Len(v) > 1 /\ v[1].st = Launcher
          /\ Prefix(v) /\ reply[c] \in Answers(v, c) /\ Carried(v, c)
    BY <1>1, <1>2, <1>5, Taken
  <2> DEFINE p == SubSeq(Tip(v), 1, Len(rec[c].id) + 1)
  <2>2. HoldsOn(v, rec[c]) /\ Len(rec[c].id) = gens[c] + 1
    BY <1>1, <1>2, <2>1 DEF Carried
  <2>3. /\ ChildrenOf(v, rec[c].id) = {RecordOf(v, p)}
        /\ p \in Path /\ Len(p) = Len(rec[c].id) + 1 /\ OnChain(v, p)
    BY <2>1, <2>2, TheOneChild
  <2>4. reply[c] = Data({RecordOf(v, p)}) BY <1>2, <2>1, <2>3 DEF Answers
  <2> HIDE DEF p
  <2>5. reply[c].kind = "data" /\ reply[c].body = {RecordOf(v, p)} /\ Only(reply[c]) = RecordOf(v, p)
    BY <2>4 DEF Data, Only
  <2>6. Cardinality(reply[c].body) = 1 BY <2>5, FS_Singleton
  <2>7. RecordOf(v, p).id = p /\ (RecordOf(v, p).spent => Len(p) < Len(v)) BY DEF RecordOf
  <2>8. Len(p) = gens[c] + 2 BY <1>3, <2>2, <2>3
  <2>9. Only(reply[c]).spent => HoldsOn(v, Only(reply[c])) BY <2>1, <2>3, <2>5, <2>7, RecordHolds
  <2>10. Only(reply[c]).spent => gens[c] + 1 < Len(v) - 1 BY <1>3, <2>1, <2>5, <2>7, <2>8
  <2> QED BY <2>1, <2>5, <2>6, <2>7, <2>8, <2>9, <2>10
<1>6. CASE /\ ~(reply[c].kind = "data" /\ Cardinality(reply[c].body) = 1)
           /\ Finish(c, Error("internalError")) /\ UNCHANGED <<rec, cur, gens>>
  <2>1. ~Running(c)' /\ NextOK(c)' /\ UnverifiedOK(c)'
        /\ \A d \in Call \ {c} : pc'[d] = pc[d] /\ result'[d] = result[d]
    BY <1>1, <1>2, <1>6, Ends DEF Error
  <2>2. ~Calm(c) BY <1>5, <1>6
  <2> QED BY <1>1, <1>2, <1>6, <2>1, <2>2, TrueAgain
<1>7. CASE /\ Only(reply[c]).spent /\ WalkFrom(c, Only(reply[c]), gens[c] + 1) /\ UNCHANGED cur
  <2> DEFINE g == gens[c] + 1
  <2>1. g \in Nat /\ g = gens[c] + 1 BY <1>3
  <2>2. WalkFrom(c, Only(reply[c]), g) BY <1>7
  <2> HIDE DEF g
  <2>3. /\ rec'[c] = Only(reply[c]) /\ gens'[c] = g /\ NextOK(c)' /\ UnverifiedOK(c)'
        /\ g < MaxGenerations => pc'[c] = "children" /\ ServedOK(c)'
        /\ g >= MaxGenerations => ~Running(c)' /\ result'[c] = Error("internalError")
        /\ \A d \in Call \ {c} :
             rec'[d] = rec[d] /\ gens'[d] = gens[d] /\ pc'[d] = pc[d] /\ result'[d] = result[d]
    BY <1>1, <1>2, <2>1, <2>2, TrueWalk
  <2>4. ASSUME Calm(c) PROVE ServedOK(c)'
    <3>1. PICK v \in seen[c] : gens[c] + 1 < Len(v) - 1 BY <1>5, <1>7, <2>4
    <3>2. CASE g < MaxGenerations BY <2>3, <3>2
    <3>3. CASE ~(g < MaxGenerations)
      <4>1. result'[c].out = "internalError" BY <1>3, <2>1, <2>3, <3>3 DEF Error
      <4>2. v \in Seq(Link) BY DEF TruthInv, Inv, TypeOK
      <4>3. Len(v) \in Nat BY <4>2
      <4>4. Len(v) - 1 > MaxGenerations BY <1>3, <2>1, <3>1, <3>3, <4>3
      <4>5. seen'[c] = seen[c] BY <1>2 DEF Take, historyVars
      <4> QED BY <4>1, <4>4, <4>5 DEF ServedOK
    <3> QED BY <3>2, <3>3
  <2>5. ASSUME Calm(c), Running(c)'
        PROVE  \E v \in seen[c] : v \in Seq(Link) /\ Prefix(v) /\ Carried(v, c)'
    <3>1. pc'[c] = "children" BY <1>3, <2>1, <2>3, <2>5
    <3>2. PICK v \in seen[c] : /\ v \in Seq(Link) /\ Prefix(v) /\ Carried(v, c)
                               /\ HoldsOn(v, Only(reply[c]))
      BY <1>5, <1>7, <2>5
    <3>3. pre'[c].id = << >> /\ HoldsOn(v, pre'[c]) BY <1>1, <1>2, <3>2 DEF Carried
    <3>4. Len(rec'[c].id) = gens'[c] + 1 BY <1>3, <1>5, <2>1, <2>3, <2>5
    <3> QED BY <2>3, <3>1, <3>2, <3>3, <3>4 DEF Carried
  <2> QED BY <1>1, <1>2, <1>7, <2>3, <2>4, <2>5, TrueAgain
<1>8. CASE /\ reply[c].kind = "data" /\ Cardinality(reply[c].body) = 1
           /\ cur' = [cur EXCEPT ![c] = Only(reply[c])]
           /\ gens' = [gens EXCEPT ![c] = @ + 1] /\ Goto(c, "spend") /\ UNCHANGED rec
  <2>1. pc'[c] = "spend" /\ UnverifiedOK(c)' /\ ServedOK(c)'
        /\ \A d \in Call \ {c} : pc'[d] = pc[d] /\ result'[d] = result[d]
    BY <1>1, <1>2, <1>8, Goes
  <2>2. /\ cur'[c] = Only(reply[c])
        /\ \A d \in Call \ {c} : cur'[d] = cur[d] /\ gens'[d] = gens[d]
    BY <1>8 DEF TruthInv, Inv, TypeOK
  <2>3. NextOK(c)' BY <1>4, <1>8, <2>2 DEF NextOK
  <2>4. Calm(c) => \E v \in seen[c] : v \in Seq(Link) /\ Prefix(v) /\ Carried(v, c)'
    <3>1. \A v : Carried(v, c) => Carried(v, c)' BY <1>1, <1>2, <1>8, <2>1 DEF Carried
    <3> QED BY <1>5, <3>1
  <2> QED BY <1>1, <1>2, <1>8, <2>1, <2>2, <2>3, <2>4, TrueAgain
<1> QED BY <1>6, <1>7, <1>8 DEF ReceiveChildren

LEMMA TrueSpend ==
  ASSUME TruthInv, NEW c \in Call, ReceiveSpend(c), Inv'
  PROVE  TruthInv'
<1>1. "spend" \in InFlight /\ "genesis" \in InFlight BY DEF InFlight
<1>2. Take(c, "spend") /\ pc[c] = "spend" /\ UNCHANGED <<rec, cur, pre, gens>>
      /\ seen'[c] = seen[c] /\ shrunk'[c] = shrunk[c] /\ kind' = kind
      /\ Truth(c) /\ Inv
  BY DEF ReceiveSpend, Take, chainVars, historyVars, TruthInv
<1>3. ASSUME Calm(c)
      PROVE  /\ reply[c].kind = "data" /\ kind \in {"julia", "legacy"} /\ pre[c].spent
             /\ \E v \in seen[c] : v \in Seq(Link) /\ Prefix(v) /\ Carried(v, c)
  <2>1. PICK v \in seen[c] :
          /\ v \in Seq(Link) /\ Len(v) \in Nat /\ Len(v) > 1 /\ v[1].st = Launcher
          /\ Prefix(v) /\ reply[c] \in Answers(v, c) /\ Carried(v, c)
    BY <1>1, <1>2, <1>3, Taken
  <2>2. HoldsOn(v, rec[c]) /\ HoldsOn(v, pre[c]) BY <1>1, <1>2, <2>1 DEF Carried
  <2>3. ChildrenOf(v, rec[c].id) # {} /\ RecordOf(v, rec[c].id).at = rec[c].at
    BY <2>1, <2>2, TheOneChild
  <2>4. reply[c] = Data(ChildrenOf(v, rec[c].id))
    BY <1>2, <2>1, <2>3 DEF Answers, SpendAnswer
  <2> QED BY <1>3, <2>1, <2>2, <2>4 DEF Data, Calm, HoldsOn
<1>4. ASSUME reply[c].kind = "data", ~shrunk[c],
             NEW others, Verified(c, Only(reply[c]), others) = {}
      PROVE  \E v \in seen[c] : Unexplained(v)
  <2>1. /\ Only(reply[c]).id = cur[c].id
        /\ \E w \in seen[c] : w # << >> /\ Established(w) /\ cur[c].id = Tip(w)
        /\ rec[c].id = Front(cur[c].id)
    BY <1>2, <1>4, SpendIsCurrent DEF Truth
  <2> DEFINE s == StateOf(cur[c].id)
             p == StateOf(Front(cur[c].id))
  <2>2. s \in Opaque \/ <<p, s>> \in Unknown BY <1>4, <2>1 DEF Verified, Candidates
  <2>3. PICK w \in seen[c] : Established(w) /\ cur[c].id = Tip(w) BY <2>1
  <2> QED BY <2>2, <2>3 DEF Unexplained
<1>5. CASE reply[c].kind # "data" /\ Finish(c, Error("internalError"))
  <2>1. ~Running(c)' /\ NextOK(c)' /\ UnverifiedOK(c)'
        /\ \A d \in Call \ {c} : pc'[d] = pc[d] /\ result'[d] = result[d]
    BY <1>1, <1>2, <1>5, Ends DEF Error
  <2>2. ~Calm(c) BY <1>3, <1>5
  <2> QED BY <1>1, <1>2, <1>5, <2>1, <2>2, TrueAgain
<1>6. CASE kind = "foreign" /\ \E e \in {"unverifiableState", "internalError"} : Finish(c, Error(e))
  <2>1. PICK e \in {"unverifiableState", "internalError"} : Finish(c, Error(e)) BY <1>6
  <2>2. ~Running(c)' /\ NextOK(c)'
        /\ \A d \in Call \ {c} : pc'[d] = pc[d] /\ result'[d] = result[d]
    BY <1>1, <1>2, <2>1, Ends
  <2>3. UnverifiedOK(c)' BY <1>2, <1>6 DEF UnverifiedOK
  <2>4. ~Calm(c) BY <1>6 DEF Calm
  <2> QED BY <1>1, <1>2, <2>2, <2>3, <2>4, TrueAgain
<1>7. CASE /\ reply[c].kind = "data"
           /\ \E others : Verified(c, Only(reply[c]), others) = {}
           /\ Finish(c, Error("unverifiableState"))
  <2>1. ~Running(c)' /\ NextOK(c)' /\ result'[c] = Error("unverifiableState")
        /\ \A d \in Call \ {c} : pc'[d] = pc[d] /\ result'[d] = result[d]
    BY <1>1, <1>2, <1>7, Ends
  <2>2. UnverifiedOK(c)'
    <3>1. CASE shrunk[c] BY <1>2, <3>1 DEF UnverifiedOK
    <3>2. CASE ~shrunk[c]
      <4>1. PICK v \in seen[c] : Unexplained(v) BY <1>4, <1>7, <3>2
      <4>2. v \in seen'[c] BY <1>2, <4>1
      <4> QED BY <4>1, <4>2 DEF UnverifiedOK, StateOf, Tip
    <3> QED BY <3>1, <3>2
  <2>3. ASSUME Calm(c) PROVE ServedOK(c)'
    <3>1. PICK v \in seen[c] : Unexplained(v) BY <1>4, <1>7, <2>3 DEF Calm
    <3>2. v \in seen'[c] BY <1>2, <3>1
    <3>3. result'[c].out = "unverifiableState" BY <2>1 DEF Error
    <3> QED BY <3>1, <3>2, <3>3 DEF ServedOK, StateOf, Tip
  <2> QED BY <1>1, <1>2, <1>7, <2>1, <2>2, <2>3, TrueAgain
<1>8. CASE Goto(c, "genesis")
  <2>1. pc'[c] = "genesis" /\ UnverifiedOK(c)' /\ ServedOK(c)'
        /\ \A d \in Call \ {c} : pc'[d] = pc[d] /\ result'[d] = result[d]
    BY <1>1, <1>2, <1>8, Goes
  <2>2. NextOK(c)' BY <1>2 DEF Truth, NextOK
  <2>3. Calm(c) => \E v \in seen[c] : v \in Seq(Link) /\ Prefix(v) /\ Carried(v, c)'
    <3>1. \A v : Carried(v, c) => Carried(v, c)' BY <1>1, <1>2, <2>1 DEF Carried
    <3> QED BY <1>3, <3>1
  <2> QED BY <1>1, <1>2, <2>1, <2>2, <2>3, TrueAgain
<1>9. CASE /\ ~(kind = "julia" /\ pre[c].spent)
           /\ \E s : Finish(c, Document(cur[c].id, s, FALSE))
  <2>0. PICK s : Finish(c, Document(cur[c].id, s, FALSE)) BY <1>9
  <2> DEFINE r == Document(cur[c].id, s, FALSE)
  <2>1. r.out = "document" /\ r.genesis = FALSE BY DEF Document
  <2>2. Finish(c, r) BY <2>0
  <2> HIDE DEF r
  <2>3. ~Running(c)' /\ NextOK(c)' /\ UnverifiedOK(c)' /\ pc'[c] = "done" /\ result'[c] = r
        /\ \A d \in Call \ {c} : pc'[d] = pc[d] /\ result'[d] = result[d]
    BY <1>1, <1>2, <2>1, <2>2, Ends
  <2>4. ASSUME Calm(c) PROVE ServedOK(c)'
    <3>1. kind' # "julia" BY <1>2, <1>3, <1>9, <2>4
    <3>2. Served(c)' BY <2>1, <2>3 DEF Served
    <3>3. result'[c].genesis = FALSE BY <2>1, <2>3
    <3> QED BY <3>1, <3>2, <3>3 DEF ServedOK
  <2> QED BY <1>1, <1>2, <2>3, <2>4, TrueAgain
<1>10. \/ reply[c].kind # "data" /\ Finish(c, Error("internalError"))
       \/ kind = "foreign" /\ \E e \in {"unverifiableState", "internalError"} : Finish(c, Error(e))
       \/ /\ reply[c].kind = "data"
          /\ \/ /\ \E others : Verified(c, Only(reply[c]), others) = {}
                /\ Finish(c, Error("unverifiableState"))
             \/ Goto(c, "genesis")
             \/ /\ ~(kind = "julia" /\ pre[c].spent)
                /\ \E s : Finish(c, Document(cur[c].id, s, FALSE))
  BY DEF ReceiveSpend
<1> QED BY <1>5, <1>6, <1>7, <1>8, <1>9, <1>10

LEMMA TrueGenesis ==
  ASSUME TruthInv, NEW c \in Call, ReceiveGenesis(c), Inv'
  PROVE  TruthInv'
<1>1. "genesis" \in InFlight BY DEF InFlight
<1>2. Take(c, "genesis") /\ pc[c] = "genesis" /\ UNCHANGED <<rec, cur, pre, gens>> /\ kind' = kind
  BY DEF ReceiveGenesis, Take, chainVars
<1>3. kind = "julia" BY <1>2 DEF TruthInv, Inv, CallOK, DerivedOK
<1>4. Calm(c) => reply[c].kind = "data"
  <2> SUFFICES ASSUME Calm(c) PROVE reply[c].kind = "data" OBVIOUS
  <2>1. PICK v \in seen[c] :
          /\ v \in Seq(Link) /\ Len(v) \in Nat /\ Len(v) > 1 /\ v[1].st = Launcher
          /\ Prefix(v) /\ reply[c] \in Answers(v, c) /\ Carried(v, c)
    BY <1>1, <1>2, Taken
  <2>2. pre[c].id = << >> /\ HoldsOn(v, pre[c]) BY <1>1, <1>2, <2>1 DEF Carried
  <2>3. ChildrenOf(v, << >>) # {} /\ RecordOf(v, << >>).at = pre[c].at
    BY <2>1, <2>2, TheOneChild
  <2>4. reply[c] = Data(ChildrenOf(v, << >>)) BY <1>2, <2>1, <2>3 DEF Answers, SpendAnswer
  <2> QED BY <2>4 DEF Data
<1>5. CASE reply[c].kind = "data"
  <2> DEFINE r == Document(cur[c].id, derived[c], TRUE)
  <2>1. r.out = "document" /\ r.genesis = TRUE BY DEF Document
  <2>2. Finish(c, r) BY <1>5 DEF ReceiveGenesis
  <2> HIDE DEF r
  <2>3. ~Running(c)' /\ NextOK(c)' /\ UnverifiedOK(c)' /\ pc'[c] = "done" /\ result'[c] = r
        /\ \A d \in Call \ {c} : pc'[d] = pc[d] /\ result'[d] = result[d]
    BY <1>1, <1>2, <2>1, <2>2, Ends
  <2>4. ServedOK(c)'
    <3>1. kind' = "julia" BY <1>2, <1>3
    <3>2. Served(c)' BY <2>1, <2>3 DEF Served
    <3>3. result'[c].genesis = TRUE BY <2>1, <2>3
    <3> QED BY <3>1, <3>2, <3>3 DEF ServedOK
  <2> QED BY <1>1, <1>2, <2>3, <2>4, TrueAgain
<1>6. CASE reply[c].kind # "data"
  <2>1. Finish(c, Error("internalError")) BY <1>6 DEF ReceiveGenesis
  <2>2. ~Running(c)' /\ NextOK(c)' /\ UnverifiedOK(c)'
        /\ \A d \in Call \ {c} : pc'[d] = pc[d] /\ result'[d] = result[d]
    BY <1>1, <1>2, <2>1, Ends DEF Error
  <2> QED BY <1>1, <1>2, <1>4, <1>6, <2>2, TrueAgain
<1> QED BY <1>5, <1>6

(* A view is a prefix of the chain, and the chain itself when no replica   *)
(* is late.                                                                *)
LEMMA ViewsArePrefixes ==
  ASSUME NEW w \in Seq(Link)
  PROVE  /\ \A v \in Views(w) : Len(v) <= Len(w) /\ \A i \in 1..Len(v) : v[i] = w[i]
         /\ Lag = 0 => Views(w) = {w}
<1>1. Len(w) \in Nat OBVIOUS
<1>2. ASSUME NEW v \in Views(w)
      PROVE  Len(v) <= Len(w) /\ \A i \in 1..Len(v) : v[i] = w[i]
  <2>1. PICK n \in 0..Len(w) : v = SubSeq(w, 1, n) BY DEF Views
  <2>2. Len(v) = n /\ \A i \in 1..n : v[i] = w[i] BY <1>1, <2>1, PrefixType
  <2> QED BY <1>1, <2>2
<1>3. Lag = 0 => Views(w) = {w}
  <2>1. SUFFICES ASSUME Lag = 0 PROVE Views(w) = {w} OBVIOUS
  <2>2. w \in Views(w) BY <1>1, ViewsType
  <2>3. ASSUME NEW v \in Views(w) PROVE v = w
    <3>1. PICK n \in 0..Len(w) : n + Lag >= Len(w) /\ v = SubSeq(w, 1, n) BY DEF Views
    <3>2. n = Len(w) BY <1>1, <2>1, <3>1
    <3> QED BY <1>1, <3>1, <3>2, SubSeqFull
  <2> QED BY <2>2, <2>3
<1> QED BY <1>2, <1>3

(* Without a reorganization the chain only becomes longer.                 *)
LEMMA ChainGrows ==
  ASSUME ChainTypeOK, kind \notin Singletons => Len(chain) = 1, ChainNext,
         ~(Len(chain') < Len(chain))
  PROVE  /\ chain' \in Seq(Link) /\ Len(chain) <= Len(chain')
         /\ \A i \in 1..Len(chain) : chain[i] = chain'[i]
<1>1. chain \in Seq(Link) /\ chain' \in Seq(Link) /\ Len(chain) \in Nat /\ Len(chain') \in Nat
  BY ChainStep DEF ChainTypeOK
<1>2. CASE Create
  <2>1. Len(chain) = 0 BY <1>2 DEF Create
  <2> QED BY <1>1, <2>1
<1>3. CASE Grow
  <2>1. PICK e : chain' = Append(chain, e) /\ e \in Link
    <3>1. PICK s \in State, b \in 0..reorgs : chain' = Append(chain, [st |-> s, blk |-> b])
      BY <1>3 DEF Grow
    <3>2. [st |-> s, blk |-> b] \in Link BY DEF Link, ChainTypeOK
    <3> QED BY <3>1, <3>2
  <2> QED BY <1>1, <2>1
<1>4. CASE Reorg
  <2>1. PICK n \in {0} \cup 3..(Len(chain) - 1) : n < Len(chain) /\ chain' = SubSeq(chain, 1, n)
    BY <1>4 DEF Reorg
  <2>2. Len(chain') = n BY <1>1, <2>1
  <2> QED BY <1>1, <2>1, <2>2
<1> QED BY <1>2, <1>3, <1>4 DEF ChainNext

LEMMA TrueBegin ==
  ASSUME TruthInv, NEW c \in Call, Begin(c), Inv'
  PROVE  TruthInv'
<1>0. Inv /\ Truth(c) /\ ChainTypeOK /\ UNCHANGED <<chainVars, serves, chain>>
  BY DEF TruthInv, Inv, TypeOK, Begin, chainVars
<1>1. /\ pc'[c] = "launcher" /\ result'[c] = NoResult /\ seen'[c] = Views(chain)
      /\ reply'[c] = NoReply /\ gens'[c] = 0
  <2>1. pc[c] = "idle" BY DEF Begin
  <2>2. result[c] = NoResult /\ reply[c] = NoReply
    BY <1>0, <2>1 DEF Inv, CallOK, ResultOK, ReplyOK, Running, InFlight
  <2>3. gens[c] = 0 BY <1>0, <2>1 DEF Truth, FreshOK
  <2> QED BY <1>0, <2>2, <2>3 DEF Begin, Goto, Inv, TypeOK
<1>2. GrownOK(c)' BY <1>0, <1>1, ViewsArePrefixes DEF GrownOK, Prefix, ChainTypeOK
<1>3. NextOK(c)' /\ FreshOK(c)' /\ UnverifiedOK(c)'
  BY <1>1 DEF NextOK, FreshOK, UnverifiedOK, NoResult, Error
<1>4. Carried(chain, c)' BY <1>1 DEF Carried, InFlight
<1>5. ServedOK(c)' BY <1>1 DEF ServedOK, Undisturbed
<1>6. CalmOK(c)' BY <1>1, <1>4, <1>5 DEF CalmOK
<1>7. Truth(c)' BY <1>2, <1>3, <1>6 DEF Truth
<1> QED BY <1>0, <1>7, OneCallTrue DEF Begin, Goto, Inv, TypeOK

LEMMA TrueRefuse ==
  ASSUME TruthInv, NEW c \in Call, Refuse(c), Inv'
  PROVE  TruthInv'
<1>0. Inv /\ UNCHANGED <<chainVars, serves, historyVars>> BY DEF TruthInv, Refuse
<1>1. PICK e \in RequestErrors : Finish(c, Error(e)) BY DEF Refuse
<1>2. pc'[c] = "done" /\ result'[c] = Error(e) /\ seen'[c] = {}
  BY <1>0, <1>1 DEF Refuse, Finish, historyVars, Inv, TypeOK, CallOK, ResultOK
<1>3. GrownOK(c)' /\ NextOK(c)' /\ FreshOK(c)' /\ ~Running(c)'
  BY <1>2 DEF GrownOK, NextOK, FreshOK, Running, InFlight
<1>4. UnverifiedOK(c)' BY <1>2 DEF UnverifiedOK, Error, RequestErrors
<1>5. ServedOK(c)' BY <1>2 DEF ServedOK, Undisturbed
<1>6. Truth(c)' BY <1>3, <1>4, <1>5 DEF Truth, CalmOK
<1> QED BY <1>0, <1>1, <1>6, OneCallTrue DEF Refuse, Finish, historyVars, Inv, TypeOK

LEMMA TrueWire ==
  ASSUME TruthInv, NEW c \in Call, Answer(c) \/ Fail(c) \/ Timeout(c) \/ Abort(c), Inv'
  PROVE  TruthInv'
<1>0. Inv /\ Truth(c) /\ ChainTypeOK BY DEF TruthInv, Inv, TypeOK
<1>1. /\ UNCHANGED <<chainVars, serves, clientVars, seen, shrunk>>
      /\ \A d \in Call \ {c} : reply'[d] = reply[d] /\ faulted'[d] = faulted[d]
  BY <1>0 DEF Answer, Fail, Timeout, Abort, Lose, historyVars, Inv, TypeOK
<1>2. \/ reply'[c] = reply[c] /\ faulted'[c] = faulted[c]
      \/ Running(c) /\ faulted'[c]
      \/ /\ Running(c) /\ faulted'[c] = faulted[c]
         /\ \E v \in Views(chain) : reply'[c] \in Answers(v, c)
  <2>1. CASE Answer(c) BY <1>0, <2>1 DEF Answer, historyVars, Running, Inv, TypeOK
  <2>2. CASE Fail(c) BY <1>0, <2>2 DEF Fail, Lose, Running, Inv, TypeOK
  <2>3. CASE Timeout(c) BY <1>0, <2>3 DEF Timeout, Lose, Running, Inv, TypeOK
  <2>4. CASE Abort(c) BY <1>0, <2>4 DEF Abort, Lose, Running, Inv, TypeOK
  <2> QED BY <2>1, <2>2, <2>3, <2>4
<1>3. Truth(c)'
  <2>1. CASE reply'[c] = reply[c] /\ faulted'[c] = faulted[c]
    BY <1>0, <1>1, <2>1, TruthFrame DEF clientVars
  <2>2. CASE Running(c) /\ ~(reply'[c] = reply[c] /\ faulted'[c] = faulted[c])
    <3> USE DEF clientVars, chainVars
    <3>1. GrownOK(c)' /\ NextOK(c)' /\ FreshOK(c)' /\ UnverifiedOK(c)'
      BY <1>0, <1>1 DEF Truth, GrownOK, NextOK, FreshOK, UnverifiedOK, Running, Prefix, StateOf, Tip
    <3>2. ASSUME Calm(c)' PROVE Calm(c) /\ Carried(chain, c) /\ chain \in seen[c]
      <4>1. Calm(c) BY <1>1, <1>2, <2>2, <3>2 DEF Calm
      <4>2. chain \in seen[c]
        BY <1>0, <2>2, ViewsType DEF Inv, CallOK, SeenOK, ChainTypeOK
      <4> QED BY <1>0, <2>2, <4>1, <4>2 DEF Truth, CalmOK
    <3>3. \A v : (Carried(v, c)' <=> Carried(v, c)) /\ Answers(v, c)' = Answers(v, c)
      BY <1>1 DEF Carried, Answers, PrelauncherAnswers, SingletonInfoAnswers
    <3>4. Carried(chain, c)' <=> Carried(chain, c) BY <1>1 DEF Carried
    <3>5. Calm(c)' => reply'[c] \in Answers(chain, c)
      <4> SUFFICES ASSUME Calm(c)' PROVE reply'[c] \in Answers(chain, c) OBVIOUS
      <4>1. ~faulted'[c] /\ Lag = 0 BY DEF Calm
      <4>2. PICK v \in Views(chain) : reply'[c] \in Answers(v, c) BY <1>2, <2>2, <4>1
      <4> QED BY <1>0, <4>1, <4>2, ViewsArePrefixes DEF ChainTypeOK
    <3>6. ServedOK(c)' BY <1>1, <2>2 DEF ServedOK, Undisturbed, Running, InFlight
    <3>7. CalmOK(c)'
      <4> SUFFICES ASSUME Calm(c)'
                   PROVE  /\ Carried(chain, c)'
                          /\ \E v \in seen'[c] : reply'[c] \in Answers(v, c)' /\ Carried(v, c)'
        BY <3>6 DEF CalmOK
      <4> QED BY <1>1, <3>2, <3>3, <3>4, <3>5
    <3> QED BY <3>1, <3>7 DEF Truth
  <2> QED BY <1>2, <2>1, <2>2
<1> QED BY <1>0, <1>1, <1>3, OneCallTrue DEF clientVars

LEMMA TrueEnvironment ==
  ASSUME TruthInv, Environment, Inv'
  PROVE  TruthInv'
<1>0. /\ Inv /\ ChainTypeOK /\ (kind \notin Singletons => Len(chain) = 1)
      /\ ChainNext /\ ChainTypeOK' /\ kind' = kind
      /\ UNCHANGED <<serves, clientVars, reply, faulted>>
  BY ChainStep DEF TruthInv, Inv, TypeOK, Environment
<1>1. ASSUME NEW c \in Call PROVE Truth(c)'
  <2> USE DEF clientVars
  <2>0. Truth(c) /\ SeenOK(c) /\ ResultOK(c) BY DEF TruthInv, Inv, CallOK
  <2>1. NextOK(c)' /\ FreshOK(c)' BY <1>0, <2>0 DEF Truth, NextOK, FreshOK
  <2>2. CASE ~Running(c)
    <3>1. seen'[c] = seen[c] /\ (shrunk'[c] <=> shrunk[c]) BY <2>2 DEF Environment
    <3>2. GrownOK(c)' /\ ~Running(c)' BY <1>0, <2>2 DEF GrownOK, Running
    <3>3. UnverifiedOK(c)' BY <1>0, <2>0, <3>1 DEF Truth, UnverifiedOK, StateOf, Tip
    <3>4. Calm(c)' => Calm(c) BY <1>0, <3>1 DEF Calm, Established
    <3>5. ServedOK(c)' <=> ServedOK(c)
      BY <1>0, <3>1 DEF ServedOK, Undisturbed, Served, Established, StateOf, Tip
    <3>6. CalmOK(c)' BY <2>0, <3>2, <3>4, <3>5 DEF Truth, CalmOK
    <3> QED BY <2>1, <3>2, <3>3, <3>6 DEF Truth
  <2>3. CASE Running(c)
    <3>1. /\ Running(c)' /\ pc'[c] # "done" /\ result'[c] = NoResult
          /\ seen'[c] = seen[c] \cup Views(chain')
          /\ ~shrunk'[c] => ~shrunk[c] /\ ~(Len(chain') < Len(chain))
      BY <1>0, <2>0, <2>3 DEF Environment, Running, InFlight, ResultOK
    <3>2. UnverifiedOK(c)' /\ ServedOK(c)'
      <4>1. result'[c].out = "none" BY <3>1 DEF NoResult, Error
      <4>2. UnverifiedOK(c)' BY <4>1 DEF UnverifiedOK
      <4>3. ~Undisturbed(c)' BY <3>1 DEF Undisturbed
      <4> QED BY <4>2, <4>3 DEF ServedOK
    <3>3. ~shrunk'[c] => /\ chain' \in Seq(Link) /\ Len(chain) <= Len(chain')
                         /\ \A i \in 1..Len(chain) : chain[i] = chain'[i]
      BY <1>0, <3>1, ChainGrows
    <3>4. GrownOK(c)'
      <4> SUFFICES ASSUME ~shrunk'[c], NEW v \in seen'[c]
                   PROVE  Len(v) <= Len(chain') /\ \A i \in 1..Len(v) : v[i] = chain'[i]
        BY DEF GrownOK, Prefix
      <4>1. CASE v \in Views(chain') BY <3>3, <4>1, ViewsArePrefixes
      <4>2. CASE v \in seen[c]
        <5>1. Prefix(v) BY <2>0, <2>3, <3>1, <4>2 DEF Truth, GrownOK
        <5>2. v \in Seq(Link) /\ chain \in Seq(Link)
          BY <1>0, <4>2 DEF Inv, TypeOK, ChainTypeOK
        <5>3. Len(v) \in Nat /\ Len(chain) \in Nat BY <5>2
        <5> QED BY <3>3, <5>1, <5>3 DEF Prefix
      <4> QED BY <3>1, <4>1, <4>2
    <3>5. CalmOK(c)'
      <4> SUFFICES ASSUME Calm(c)'
                   PROVE  /\ Carried(chain, c)'
                          /\ reply'[c] # NoReply =>
                               \E v \in seen'[c] : reply'[c] \in Answers(v, c)' /\ Carried(v, c)'
        BY <3>2 DEF CalmOK
      <4>1. Calm(c) BY <1>0, <3>1 DEF Calm, Established
      <4>2. \A v : (Carried(v, c)' <=> Carried(v, c)) /\ Answers(v, c)' = Answers(v, c)
        BY <1>0 DEF Carried, Answers, PrelauncherAnswers, SingletonInfoAnswers
      <4>3. Carried(chain, c) BY <2>0, <2>3, <4>1 DEF Truth, CalmOK
      <4>4. Carried(chain', c)
        <5>1. /\ \A r : HoldsOn(chain, r) => HoldsOn(chain', r)
              /\ \A id \in Path : OnChain(chain, id) => OnChain(chain', id)
          <6>1. ~shrunk'[c] BY DEF Calm
          <6>2. chain \in Seq(Link) BY <1>0 DEF ChainTypeOK
          <6> QED BY <3>3, <6>1, <6>2, HoldsLonger
        <5>2. cur[c].id \in Path BY <1>0 DEF Inv, TypeOK, CoinRecord
        <5> QED BY <4>3, <5>1, <5>2 DEF Carried
      <4>5. Carried(chain, c)' BY <1>0, <4>4 DEF Carried
      <4>6. reply[c] # NoReply => \E v \in seen[c] : reply[c] \in Answers(v, c) /\ Carried(v, c)
        BY <2>0, <2>3, <4>1 DEF Truth, CalmOK
      <4> QED BY <1>0, <3>1, <4>2, <4>5, <4>6
    <3> QED BY <2>1, <3>2, <3>4, <3>5 DEF Truth
  <2> QED BY <2>2, <2>3
<1> QED BY <1>1 DEF TruthInv

LEMMA TruthInit == Init => TruthInv
<1> SUFFICES ASSUME Init PROVE TruthInv OBVIOUS
<1>1. Inv BY InitInv
<1>2. ASSUME NEW c \in Call PROVE Truth(c)
  <2>1. pc[c] = "idle" /\ gens[c] = 0 /\ result[c] = NoResult BY DEF Init
  <2>2. ~Running(c) /\ ~Undisturbed(c) BY <2>1 DEF Running, InFlight, Undisturbed
  <2>3. UnverifiedOK(c) BY <2>1 DEF UnverifiedOK, NoResult, Error
  <2> QED BY <2>1, <2>2, <2>3 DEF Truth, GrownOK, NextOK, FreshOK, CalmOK, ServedOK
<1> QED BY <1>1, <1>2 DEF TruthInv

LEMMA TruthStep == TruthInv /\ [Next]_vars => TruthInv'
<1> SUFFICES ASSUME TruthInv, [Next]_vars PROVE TruthInv' OBVIOUS
<1>1. Inv' BY NextInv DEF TruthInv
<1>2. CASE Environment BY <1>1, <1>2, TrueEnvironment
<1>3. ASSUME NEW c \in Call, Begin(c) PROVE TruthInv' BY <1>1, <1>3, TrueBegin
<1>4. ASSUME NEW c \in Call, Refuse(c) PROVE TruthInv' BY <1>1, <1>4, TrueRefuse
<1>5. ASSUME NEW c \in Call, Receive(c) PROVE TruthInv'
  BY <1>1, <1>5, TrueLauncher, TruePrelauncher, TrueFast, TrueFastParent, TrueChildren,
     TrueSpend, TrueGenesis
     DEF Receive
<1>6. ASSUME NEW c \in Call, Answer(c) \/ Fail(c) \/ Timeout(c) \/ Abort(c) PROVE TruthInv'
  BY <1>1, <1>6, TrueWire
<1>7. CASE UNCHANGED vars
  <2>1. ASSUME NEW c \in Call PROVE Truth(c)'
    BY <1>7, <2>1, TruthFrame DEF TruthInv, vars, clientVars, historyVars
  <2> QED BY <1>1, <2>1 DEF TruthInv
<1> QED BY <1>2, <1>3, <1>4, <1>5, <1>6, <1>7 DEF Next

(* unverifiableState is an answer about the DID: outside a reorganization  *)
(* the coin whose spend was fetched was the parent of the coin taken for   *)
(* the current one (traceSingleton), so that the state refused is the      *)
(* state of a tip.                                                         *)
THEOREM RefusalIsTrue == Spec => []UnverifiableIsTrue
<1>1. TruthInv => UnverifiableIsTrue BY DEF TruthInv, Truth, UnverifiedOK, UnverifiableIsTrue
<1> QED BY <1>1, TruthInit, TruthStep, PTL DEF Spec

(* A call under which nothing failed is served, on the fast path and on    *)
(* the walk alike, however late the index of get_singleton_info: of the    *)
(* records traceSingleton carries from one request to the next none goes   *)
(* stale when the chain only grows.                                        *)
THEOREM UndisturbedServed == Spec => []UndisturbedCallsAreServed
<1>1. TruthInv => UndisturbedCallsAreServed
  <2> SUFFICES ASSUME TruthInv, NEW c \in Call, Undisturbed(c), kind \in {"julia", "legacy"}
               PROVE  \/ Served(c) /\ result[c].genesis = (kind = "julia")
                      \/ /\ result[c].out = "unverifiableState"
                         /\ \E v \in seen[c] : Unexplained(v)
                      \/ /\ result[c].out = "internalError"
                         /\ \E v \in seen[c] : Len(v) - 1 > MaxGenerations
    BY DEF UndisturbedCallsAreServed
  <2>1. Calm(c) BY DEF Calm, Undisturbed
  <2>2. ServedOK(c) BY <2>1 DEF TruthInv, Truth, CalmOK
  <2> QED BY <2>2 DEF ServedOK
<1> QED BY <1>1, TruthInit, TruthStep, PTL DEF Spec

(* The spend a document is built from created the coin it describes: as    *)
(* the views of a call grow from one another, the parent that              *)
(* traceSingleton leaves behind has no other child.                        *)
THEOREM OwnSpend == Spec => DerivesFromItsOwnSpend
<1>1. ASSUME TruthInv, [Next]_vars, NEW c \in Call, pc[c] = "spend", ~shrunk[c],
             pc'[c] = "genesis" \/ Served(c)'
      PROVE  Only(reply[c]).id = cur[c].id
  <2>1. pc'[c] # "spend" /\ Inv BY <1>1 DEF Served, TruthInv
  <2>2. PICK d \in Call : Begin(d) \/ Refuse(d) \/ Receive(d)
    BY <1>1, <2>1 DEF Next, vars, clientVars, Environment, Answer, Fail, Timeout, Abort
  <2>3. d = c
    <3>1. \E p \in PCs : pc' = [pc EXCEPT ![d] = p]
      BY <2>2 DEF Begin, Refuse, Receive, ReceiveLauncher, ReceivePrelauncher, ReceiveFast,
         ReceiveFastParent, ReceiveChildren, ReceiveSpend, ReceiveGenesis, NoCoin,
         TryFastPath, WalkFrom, Goto, Finish, PCs, InFlight
    <3> QED BY <1>1, <2>1, <3>1 DEF Inv, TypeOK
  <2>4. ReceiveSpend(c)
    BY <1>1, <2>2, <2>3 DEF Begin, Refuse, Receive, ReceiveLauncher, ReceivePrelauncher,
       ReceiveFast, ReceiveFastParent, ReceiveChildren, ReceiveGenesis, Take
  <2>5. reply[c].kind = "data"
    <3>1. SUFFICES ASSUME Finish(c, Error("internalError")) PROVE FALSE
      BY <2>4 DEF ReceiveSpend
    <3>2. pc'[c] = "done" /\ result'[c].out = "internalError"
      BY <2>1, <3>1 DEF Finish, Inv, TypeOK, Error
    <3> QED BY <1>1, <3>2 DEF Served
  <2> QED BY <1>1, <2>1, <2>5, SpendIsCurrent DEF TruthInv, Truth
<1>2. TruthInv /\ [Next]_vars =>
        [\A c \in Call :
           /\ pc[c] = "spend" /\ ~shrunk[c]
           /\ pc'[c] = "genesis" \/ Served(c)'
           => Only(reply[c]).id = cur[c].id]_vars
  BY <1>1
<1> QED BY <1>2, TruthInit, TruthStep, PTL DEF Spec, DerivesFromItsOwnSpend

-----------------------------------------------------------------------------
(* The refinement.                                                         *)

(* A step that starts or ends a call is the abstract step; every other     *)
(* step of a call is a stutter.                                            *)
THEOREM Implementation == Spec => ImplementsResolution
<1> DEFINE stutter == UNCHANGED Promise!resolutionVars
<1> USE DEF Promise!resolutionVars, Promise!chainVars
<1>0. ASSUME NEW c \in Call, NEW q, pc' = [pc EXCEPT ![c] = q], Inv
      PROVE  /\ q \in InFlight => statusBar' = [statusBar EXCEPT ![c] = "running"]
             /\ q = "done" => statusBar' = [statusBar EXCEPT ![c] = "done"]
  BY <1>0 DEF statusBar, Inv, TypeOK, InFlight
<1>1. Init => Promise!ResolutionInit
  BY DEF Init, Promise!ResolutionInit, statusBar, NoResult, Error, Promise!Error,
     ChainInit, Promise!ChainInit, Created, Promise!Created, LauncherLink, Promise!LauncherLink,
     Singletons, Promise!Singletons
<1>2. ASSUME Inv, [Next]_vars
      PROVE  [Promise!ResolutionNext]_(Promise!resolutionVars)
  <2>1. CASE Environment
    <3>1. ChainNext => Promise!ChainNext
      BY DEF ChainNext, Promise!ChainNext, Create, Promise!Create, Grow, Promise!Grow,
         Reorg, Promise!Reorg, Created, Promise!Created, LauncherLink, Promise!LauncherLink,
         Singletons, Promise!Singletons, Established, Promise!Established
    <3>2. \A c \in Call : Running(c) <=> statusBar[c] = "running"
      BY <1>2 DEF Inv, TypeOK, statusBar, Running, InFlight, PCs
    <3>3. Views(chain') = Promise!Views(chain') BY DEF Views, Promise!Views
    <3>4. statusBar' = statusBar /\ result' = result
      BY <2>1 DEF Environment, clientVars, statusBar
    <3>5. Promise!ChainMoves
      BY <2>1, <3>1, <3>2, <3>3, <3>4 DEF Environment, Promise!ChainMoves
    <3> QED BY <3>5 DEF Promise!ResolutionNext
  <2>2. ASSUME NEW c \in Call, Begin(c) PROVE Promise!ResolutionNext
    <3>1. statusBar[c] = "idle" BY <2>2 DEF Begin, statusBar
    <3>2. statusBar' = [statusBar EXCEPT ![c] = "running"]
      BY <1>0, <1>2, <2>2 DEF Begin, Goto, InFlight
    <3>3. Promise!Start(c)
      BY <2>2, <3>1, <3>2 DEF Begin, Goto, Promise!Start, chainVars, Views, Promise!Views
    <3> QED BY <3>3 DEF Promise!ResolutionNext
  <2>3. ASSUME NEW c \in Call, Refuse(c) PROVE Promise!ResolutionNext
    <3>1. statusBar[c] = "idle" BY <2>3 DEF Refuse, statusBar
    <3>2. statusBar' = [statusBar EXCEPT ![c] = "done"]
      BY <1>0, <1>2, <2>3 DEF Refuse, Finish
    <3>3. Promise!RefuseRequest(c)
      BY <2>3, <3>1, <3>2 DEF Refuse, Finish, Promise!RefuseRequest, chainVars, historyVars,
         Error, Promise!Error, RequestErrors, Promise!RequestErrors
    <3> QED BY <3>3 DEF Promise!ResolutionNext
  <2>4. ASSUME NEW c \in Call, Receive(c)
        PROVE  Promise!ResolutionNext \/ stutter
    <3>1. PICK p \in InFlight : Take(c, p)
      BY <2>4 DEF Receive, ReceiveLauncher, ReceivePrelauncher, ReceiveFast, ReceiveFastParent,
         ReceiveChildren, ReceiveSpend, ReceiveGenesis, InFlight
    <3>2. UNCHANGED <<kind, chain, reorgs, seen>> BY <3>1 DEF Take, chainVars, historyVars
    <3>3. statusBar[c] = "running" BY <3>1 DEF Take, statusBar, InFlight
    <3>4. (\E q \in InFlight : Goto(c, q)) \/ (\E r : Finish(c, r))
      BY <2>4 DEF Receive, ReceiveLauncher, ReceivePrelauncher, ReceiveFast, ReceiveFastParent,
         ReceiveChildren, ReceiveSpend, ReceiveGenesis, InFlight, NoCoin, TryFastPath, WalkFrom
    <3>5. CASE \E q \in InFlight : Goto(c, q)
      <4>1. PICK q \in InFlight : Goto(c, q) BY <3>5
      <4>2. pc' = [pc EXCEPT ![c] = q] /\ q # "idle" /\ q # "done" /\ result' = result
        BY <4>1 DEF Goto, InFlight
      <4>3. statusBar' = [statusBar EXCEPT ![c] = "running"] BY <1>0, <1>2, <4>2
      <4>4. statusBar' = statusBar BY <3>3, <4>3 DEF statusBar
      <4> QED BY <3>2, <4>2, <4>4
    <3>6. CASE \E r : Finish(c, r)
      <4>1. PICK r : Finish(c, r) BY <3>6
      <4>2. pc' = [pc EXCEPT ![c] = "done"] /\ result' = [result EXCEPT ![c] = r]
        BY <4>1 DEF Finish
      <4>3. statusBar' = [statusBar EXCEPT ![c] = "done"] BY <1>0, <1>2, <4>2
      <4>4. r \in Promise!Outcomes(c)
        <5>1. Inv' BY <1>2, NextInv
        <5>2. pc'[c] = "done" /\ result'[c] = r BY <1>2, <4>2 DEF Inv, TypeOK
        <5>3. chain \in seen[c]
          BY <1>2, <3>1, ViewsType DEF Take, Inv, CallOK, SeenOK, Running, TypeOK, ChainTypeOK
        <5>4. Promise!Outcomes(c)' = Promise!Outcomes(c) BY <3>2, SameOutcomes
        <5> QED BY <3>2, <5>1, <5>2, <5>3, <5>4 DEF Inv, CallOK, ResultOK
      <4>5. Promise!Return(c)
        BY <3>2, <3>3, <4>2, <4>3, <4>4 DEF Promise!Return
      <4> QED BY <4>5 DEF Promise!ResolutionNext
    <3> QED BY <3>4, <3>5, <3>6
  <2>5. ASSUME NEW c \in Call, Answer(c) \/ Fail(c) \/ Timeout(c) \/ Abort(c)
        PROVE  stutter
    BY <2>5 DEF Answer, Fail, Timeout, Abort, clientVars, chainVars, historyVars, statusBar
  <2>6. CASE UNCHANGED vars
    BY <2>6 DEF vars, clientVars, chainVars, historyVars, statusBar
  <2> QED BY <1>2, <2>1, <2>2, <2>3, <2>4, <2>5, <2>6 DEF Next
<1> QED BY <1>1, <1>2, Invariance, PTL DEF Spec, ImplementsResolution, Promise!ResolutionSpec
=============================================================================
