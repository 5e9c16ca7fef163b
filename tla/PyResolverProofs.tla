--------------------------- MODULE PyResolverProofs ---------------------------
(***************************************************************************)
(* The Python driver keeps the promise of the TypeScript driver, for any   *)
(* states, reorganizations and walks, and any lag of the replicas.         *)
(***************************************************************************)
EXTENDS PyResolver, SingletonProofs, FiniteSetTheorems, SequenceTheorems, TLAPS

(* The inductive invariant: what the data a request leaves behind says of  *)
(* the views the call has seen.                                            *)
SeenOK ==
  /\ seen \subseteq Seq(Link)
  /\ at \in Requests => Views(chain) \subseteq seen
  /\ at = "idle" => seen = {}
  /\ \A v \in seen :
       /\ v # << >> => v[1].st = Launcher
       /\ kind \notin Singletons => Len(v) <= 1

(* Past the launcher the DID is a singleton's, and the record walked from  *)
(* is no prelauncher.                                                      *)
WalkOK ==
  /\ record.id \in Path
  /\ at \in Requests \ {"launcher"} => kind \in Singletons
  /\ at \in {"prelauncher", "children"} => record.id # << >>

(* The walk ended at the tip of a view.                                    *)
CurrentOK ==
  at \in {"spend", "genesis"} => \E v \in seen : Established(v) /\ record.id = Tip(v)

(* The state that was read can be a state of this DID, or is not its.      *)
StateOK ==
  at = "genesis" =>
    IF kind = "foreign" THEN state # StateOf(record.id) ELSE state \notin Opaque

ResultOK ==
  /\ at # "done" => result = Outcome("none")
  /\ at = "done" =>
       \/ seen = {} /\ result = Outcome("invalidDid")
       \/ outcomeBar["py"] \in Promise!Outcomes("py")

PyInv ==
  /\ ChainTypeOK /\ (kind \notin Singletons => Len(chain) = 1)
  /\ at \in Requests \cup {"idle", "done"}
  /\ SeenOK /\ WalkOK /\ CurrentOK /\ StateOK /\ ResultOK

-----------------------------------------------------------------------------
(* What the promise allows this call.                                      *)
LEMMA AllowedErrors ==
  /\ Promise!Error("internalError") \in Promise!Outcomes("py")
  /\ Promise!Error("unverifiableState") \in Promise!Outcomes("py")
  /\ kind \in {"idle", "ordinary"} \/ (\E v \in seen : ~Established(v)) =>
       Promise!Error("notFound") \in Promise!Outcomes("py")
BY DEF Promise!Outcomes, Promise!Errors, Promise!Established, Established, Py

LEMMA AllowedDocuments ==
  ASSUME kind \in {"julia", "legacy"}, NEW v \in seen, Established(v),
         StateOf(Tip(v)) \notin Opaque,
         NEW g \in BOOLEAN, g => kind = "julia"
  PROVE  Promise!Document(Tip(v), StateOf(Tip(v)), g) \in Promise!Outcomes("py")
<1> DEFINE S == {w \in seen : Promise!Established(w) /\ Promise!StateOf(Promise!Tip(w)) \notin Opaque}
           T == IF kind = "julia" THEN BOOLEAN ELSE {FALSE}
           D(w, h) == Promise!Document(Promise!Tip(w), Promise!StateOf(Promise!Tip(w)), h)
<1>1. v \in S
  BY DEF Promise!Established, Established, Promise!StateOf, StateOf, Promise!Tip, Tip
<1>2. g \in T OBVIOUS
<1>3. Promise!Documents("py") = {D(w, h) : w \in S, h \in T} BY DEF Promise!Documents, Py
<1> HIDE DEF S, T, D
<1>4. D(v, g) \in Promise!Documents("py") BY <1>1, <1>2, <1>3
<1>5. Promise!Document(Tip(v), StateOf(Tip(v)), g) \in Promise!Documents("py")
  BY <1>4 DEF D, Promise!StateOf, StateOf, Promise!Tip, Tip
<1> QED BY <1>5 DEF Promise!Outcomes, Promise!Resolvable

(* How a step's result is read: an error as an error.                      *)
LEMMA ReadAsError ==
  ASSUME NEW e, e # "document", result' = Outcome(e)
  PROVE  /\ e = "raised" \/ (e = "notFound" /\ fault' = "refused")
              => outcomeBar'["py"] = Promise!Error("internalError")
         /\ ~(e = "raised" \/ (e = "notFound" /\ fault' = "refused"))
              => outcomeBar'["py"] = Promise!Error(e)
<1>1. /\ result'.out = e /\ result'.coin = << >> /\ result'.st = Launcher /\ result'.genesis = FALSE
  BY DEF Outcome
<1>2. outcomeBar'["py"] =
        IF ShownAs' = result'.out
          THEN [out |-> result'.out, coin |-> result'.coin, st |-> result'.st,
                genesis |-> result'.genesis /\ kind' = "julia"]
          ELSE [out |-> ShownAs', coin |-> << >>, st |-> Launcher, genesis |-> FALSE]
  BY DEF outcomeBar, Py
<1>3. (result'.genesis /\ kind' = "julia") = FALSE BY <1>1
<1>4. outcomeBar'["py"] = Promise!Error(ShownAs') BY <1>1, <1>2, <1>3 DEF Promise!Error
<1> QED BY <1>1, <1>4 DEF ShownAs

(* A document as it is, or as a state that could not be verified.          *)
LEMMA ReadAsDocument ==
  ASSUME NEW s, NEW g \in BOOLEAN, result' = Envelope(s, g)
  PROVE  /\ s # StateOf(record.id) => outcomeBar'["py"] = Promise!Error("unverifiableState")
         /\ s = StateOf(record.id) =>
              outcomeBar'["py"] = Promise!Document(record.id, s, g /\ kind' = "julia")
<1>1. /\ result'.out = "document" /\ result'.coin = record.id /\ result'.st = s
      /\ result'.genesis = g /\ result'.verified = (s = StateOf(record.id))
  BY DEF Envelope
<1>2. outcomeBar'["py"] =
        IF ShownAs' = result'.out
          THEN [out |-> result'.out, coin |-> result'.coin, st |-> result'.st,
                genesis |-> result'.genesis /\ kind' = "julia"]
          ELSE [out |-> ShownAs', coin |-> << >>, st |-> Launcher, genesis |-> FALSE]
  BY DEF outcomeBar, Py
<1>3. CASE s # StateOf(record.id)
  <2>1. ShownAs' = "unverifiableState" BY <1>1, <1>3 DEF ShownAs
  <2> QED BY <1>1, <1>2, <1>3, <2>1 DEF Promise!Error
<1>4. CASE s = StateOf(record.id)
  <2>1. ShownAs' = "document" BY <1>1, <1>4 DEF ShownAs
  <2> QED BY <1>1, <1>2, <1>4, <2>1 DEF Promise!Document
<1> QED BY <1>3, <1>4

LEMMA SameOutcomes ==
  ASSUME kind' = kind, seen' = seen
  PROVE  Promise!Outcomes("py")' = Promise!Outcomes("py")
BY DEF Promise!Outcomes, Promise!Errors, Promise!Documents, Py

-----------------------------------------------------------------------------
(* A step of the call leaves the chain and the views alone.                *)
LEMMA StillSeen ==
  ASSUME PyInv, at \in Requests, UNCHANGED <<chainVars, seen>>
  PROVE  /\ ChainTypeOK' /\ (kind' \notin Singletons => Len(chain') = 1)
         /\ at' \in Requests \cup {"done"} => SeenOK'
         /\ Promise!Outcomes("py")' = Promise!Outcomes("py")
<1>1. kind' = kind /\ chain' = chain /\ reorgs' = reorgs /\ seen' = seen BY DEF chainVars
<1>2. Views(chain)' = Views(chain) BY <1>1 DEF Views
<1>3. at' \in Requests \cup {"done"} => SeenOK'
  BY <1>1, <1>2 DEF PyInv, SeenOK, Requests
<1> QED BY <1>1, <1>3, SameOutcomes DEF PyInv, ChainTypeOK

LEMMA Finished ==
  ASSUME PyInv, at \in Requests, at' = "done", UNCHANGED <<chainVars, seen, record>>,
         outcomeBar'["py"] \in Promise!Outcomes("py")
  PROVE  PyInv'
<1>1. ChainTypeOK' /\ (kind' \notin Singletons => Len(chain') = 1) /\ SeenOK'
      /\ Promise!Outcomes("py")' = Promise!Outcomes("py")
  BY StillSeen
<1>2. at' \notin Requests BY DEF Requests
<1>3. WalkOK' /\ CurrentOK' /\ StateOK'
  BY <1>2 DEF PyInv, WalkOK, CurrentOK, StateOK, Requests
<1>4. ResultOK' BY <1>1 DEF ResultOK
<1> QED BY <1>1, <1>3, <1>4 DEF PyInv

LEMMA FinishedInError ==
  ASSUME PyInv, at \in Requests, UNCHANGED <<chainVars, seen, record>>,
         NEW e, Finish(Outcome(e)),
         \/ e \in {"internalError", "raised"}
         \/ e = "notFound" /\ fault' = "refused"
         \/ e = "notFound" /\ (kind \in {"idle", "ordinary"} \/ \E v \in seen : ~Established(v))
  PROVE  PyInv'
<1>1. at' = "done" /\ result' = Outcome(e) /\ e # "document" BY DEF Finish
<1>2. outcomeBar'["py"] \in Promise!Outcomes("py") BY <1>1, ReadAsError, AllowedErrors
<1> QED BY <1>1, <1>2, Finished

LEMMA Answering ==
  ASSUME PyInv, at \in Requests, NEW v \in Views(chain)
  PROVE  v \in seen /\ v \in Seq(Link) /\ Len(v) \in Nat
BY DEF PyInv, SeenOK

-----------------------------------------------------------------------------
LEMMA LaunchStep ==
  ASSUME PyInv, NEW v \in Views(chain), Launch(v)
  PROVE  PyInv'
<1>1. at = "launcher" /\ at \in Requests /\ UNCHANGED <<chainVars, fault, seen>>
  BY DEF Launch, Answered, Requests
<1>2. v \in seen /\ v \in Seq(Link) /\ Len(v) \in Nat BY <1>1, Answering
<1>3. /\ RecordOf(v, <<Launcher>>).id = <<Launcher>>
      /\ RecordOf(v, <<Launcher>>).spent <=> 1 < Len(v)
  BY DEF RecordOf
<1>4. CASE OnChain(v, <<Launcher>>) /\ kind # "ordinary" /\ RecordOf(v, <<Launcher>>).spent
  <2>1. at' = "prelauncher" /\ result' = result /\ record' = RecordOf(v, <<Launcher>>)
    BY <1>4 DEF Launch, Goto
  <2>2. kind \in Singletons BY <1>2, <1>3, <1>4 DEF PyInv, SeenOK
  <2>3. <<Launcher>> \in Path /\ <<Launcher>> # << >> BY DEF Path
  <2>4. ChainTypeOK' /\ (kind' \notin Singletons => Len(chain') = 1) /\ SeenOK'
    BY <1>1, <2>1, StillSeen DEF Requests
  <2>5. WalkOK' BY <1>1, <1>3, <2>1, <2>2, <2>3 DEF WalkOK, chainVars
  <2>6. CurrentOK' /\ StateOK' /\ ResultOK'
    BY <1>1, <2>1 DEF PyInv, CurrentOK, StateOK, ResultOK
  <2> QED BY <2>1, <2>4, <2>5, <2>6 DEF PyInv, Requests
<1>5. CASE ~(OnChain(v, <<Launcher>>) /\ kind # "ordinary" /\ RecordOf(v, <<Launcher>>).spent)
  <2>1. Finish(Outcome("notFound")) /\ record' = record BY <1>5 DEF Launch
  <2>2. kind = "ordinary" \/ ~Established(v)
    <3>1. SUFFICES ASSUME Established(v) PROVE kind = "ordinary" OBVIOUS
    <3>2. 1 < Len(v) /\ v # << >> BY <1>2, <3>1 DEF Established
    <3>3. v[1].st = Launcher BY <1>2, <3>2 DEF PyInv, SeenOK
    <3>4. OnChain(v, <<Launcher>>) BY <1>2, <3>2, <3>3 DEF OnChain
    <3> QED BY <1>3, <1>5, <3>2, <3>4
  <2> QED BY <1>1, <1>2, <2>1, <2>2, FinishedInError
<1> QED BY <1>4, <1>5

LEMMA PrelaunchStep ==
  ASSUME PyInv, NEW v \in Views(chain), Prelaunch(v)
  PROVE  PyInv'
<1>1. at = "prelauncher" /\ at \in Requests /\ UNCHANGED <<chainVars, fault, seen, record>>
  BY DEF Prelaunch, Answered, Requests
<1>2. CASE Goto("children")
  <2>1. at' = "children" /\ result' = result BY <1>2 DEF Goto
  <2>2. ChainTypeOK' /\ (kind' \notin Singletons => Len(chain') = 1) /\ SeenOK'
    BY <1>1, <2>1, StillSeen DEF Requests
  <2>3. WalkOK' BY <1>1, <2>1 DEF PyInv, WalkOK, chainVars, Requests
  <2>4. CurrentOK' /\ StateOK' /\ ResultOK'
    BY <1>1, <2>1 DEF PyInv, CurrentOK, StateOK, ResultOK
  <2> QED BY <2>1, <2>2, <2>3, <2>4 DEF PyInv, Requests
<1>3. CASE v = << >> /\ Finish(Outcome("notFound"))
  <2>1. v \in seen /\ ~Established(v) BY <1>1, <1>3, Answering DEF Established
  <2> QED BY <1>1, <1>3, <2>1, FinishedInError
<1> QED BY <1>2, <1>3 DEF Prelaunch

LEMMA DescendStep ==
  ASSUME PyInv, NEW v \in Views(chain), Descend(v)
  PROVE  PyInv'
<1>1. at = "children" /\ at \in Requests /\ UNCHANGED <<chainVars, fault, seen>>
  BY DEF Descend, Answered, Requests
<1>2. v \in seen /\ v \in Seq(Link) /\ Len(v) \in Nat BY <1>1, Answering
<1>3. CASE Cardinality(ChildrenOf(v, record.id)) # 1
  <2>1. Finish(Outcome("internalError")) /\ record' = record BY <1>3 DEF Descend
  <2> QED BY <1>1, <2>1, FinishedInError
<1>4. CASE Cardinality(ChildrenOf(v, record.id)) = 1
  <2> DEFINE child == CHOOSE r \in ChildrenOf(v, record.id) : TRUE
  <2>1. ChildrenOf(v, record.id) # {} BY <1>4, FS_EmptySet
  <2>2. child \in ChildrenOf(v, record.id) BY <2>1
  <2>3. record' = child /\ Goto(IF child.spent THEN "children" ELSE "spend")
    BY <1>4 DEF Descend
  <2> HIDE DEF child
  <2>4. record.id \in Path /\ record.id # << >> /\ kind \in Singletons
    BY <1>1 DEF PyInv, WalkOK, Requests
  <2>5. /\ child \in CoinRecord /\ Len(record.id) < Len(v)
        /\ Len(child.id) = Len(record.id) + 1
        /\ ~child.spent => child.id = Tip(v)
    BY <1>2, <2>2, <2>4, ChildrenType
  <2>6. Len(record.id) \in Nat \ {0} BY <2>4, EmptySeq DEF Path
  <2>7. child.id \in Path /\ child.id # << >> /\ Established(v)
    BY <1>2, <2>5, <2>6 DEF CoinRecord, Established
  <2>8. at' \in {"children", "spend"} /\ (at' = "spend" => ~child.spent) /\ result' = result
    BY <2>3 DEF Goto
  <2>9. ChainTypeOK' /\ (kind' \notin Singletons => Len(chain') = 1) /\ SeenOK'
    BY <1>1, <2>8, StillSeen DEF Requests
  <2>10. WalkOK' BY <1>1, <2>3, <2>4, <2>7 DEF WalkOK, chainVars
  <2>11. CurrentOK'
    <3>1. SUFFICES ASSUME at' = "spend"
          PROVE \E w \in seen : Established(w) /\ child.id = Tip(w)
      BY <1>1, <2>3, <2>8 DEF CurrentOK, Established, Tip
    <3> QED BY <1>2, <2>5, <2>7, <2>8, <3>1
  <2>12. StateOK' /\ ResultOK' BY <1>1, <2>8 DEF PyInv, StateOK, ResultOK
  <2> QED BY <2>8, <2>9, <2>10, <2>11, <2>12 DEF PyInv, Requests
<1> QED BY <1>3, <1>4

(* A document of the coin that was reached is allowed, or unverified.      *)
LEMMA FinishedInDocument ==
  ASSUME PyInv, at \in {"spend", "genesis"}, UNCHANGED <<chainVars, seen, record>>,
         NEW s, NEW g \in BOOLEAN, Finish(Envelope(s, g)),
         IF kind = "foreign" THEN s # StateOf(record.id) ELSE s \notin Opaque
  PROVE  PyInv'
<1>1. at' = "done" /\ result' = Envelope(s, g) /\ kind' = kind BY DEF Finish, chainVars
<1>2. at \in Requests \ {"launcher"} BY DEF Requests
<1>3. outcomeBar'["py"] \in Promise!Outcomes("py")
  <2>1. CASE s # StateOf(record.id) BY <1>1, <2>1, ReadAsDocument, AllowedErrors
  <2>2. CASE s = StateOf(record.id)
    <3>1. kind \in {"julia", "legacy"} BY <1>2, <2>2 DEF PyInv, WalkOK, Singletons
    <3>2. PICK v \in seen : Established(v) /\ record.id = Tip(v) BY DEF PyInv, CurrentOK
    <3> DEFINE h == g /\ kind = "julia"
    <3>3. h \in BOOLEAN /\ (h => kind = "julia") OBVIOUS
    <3>4. outcomeBar'["py"] = Promise!Document(record.id, s, h)
      BY <1>1, <2>2, ReadAsDocument
    <3> HIDE DEF h
    <3>5. StateOf(Tip(v)) \notin Opaque BY <2>2, <3>1, <3>2
    <3>6. Promise!Document(Tip(v), StateOf(Tip(v)), h) \in Promise!Outcomes("py")
      BY <3>1, <3>2, <3>3, <3>5, AllowedDocuments
    <3> QED BY <2>2, <3>2, <3>4, <3>6
  <2> QED BY <2>1, <2>2
<1> QED BY <1>1, <1>2, <1>3, Finished

LEMMA ReadStateStep ==
  ASSUME PyInv, NEW v \in Views(chain), ReadState(v)
  PROVE  PyInv'
<1>1. at = "spend" /\ at \in Requests /\ UNCHANGED <<chainVars, fault, seen, record>>
  BY DEF ReadState, Answered, Requests
<1>2. CASE Finish(Outcome("internalError")) BY <1>1, <1>2, FinishedInError
<1>3. ASSUME NEW child \in SpendOf(v, parent), NEW s \in Remarked(child), state' = s,
             IF prelauncher.spent THEN Goto("genesis") ELSE Finish(Envelope(s, FALSE))
      PROVE  PyInv'
  <2>1. IF kind = "foreign" THEN s # StateOf(record.id) ELSE s \notin Opaque
    BY <1>3 DEF Remarked
  <2>2. CASE Goto("genesis")
    <3>1. at' = "genesis" /\ result' = result BY <2>2 DEF Goto
    <3>2. ChainTypeOK' /\ (kind' \notin Singletons => Len(chain') = 1) /\ SeenOK'
      BY <1>1, <3>1, StillSeen DEF Requests
    <3>3. WalkOK' BY <1>1, <3>1 DEF PyInv, WalkOK, chainVars, Requests
    <3>4. CurrentOK' BY <1>1, <3>1 DEF PyInv, CurrentOK, Established, Tip
    <3>5. StateOK' BY <1>1, <1>3, <2>1, <3>1 DEF StateOK, StateOf, chainVars
    <3>6. ResultOK' BY <1>1, <3>1 DEF PyInv, ResultOK
    <3> QED BY <3>1, <3>2, <3>3, <3>4, <3>5, <3>6 DEF PyInv, Requests
  <2>3. CASE Finish(Envelope(s, FALSE)) BY <1>1, <2>1, <2>3, FinishedInDocument
  <2> QED BY <1>3, <2>2, <2>3
<1> QED BY <1>2, <1>3 DEF ReadState

LEMMA ReadGenesisStep ==
  ASSUME PyInv, NEW v \in Views(chain), ReadGenesis(v)
  PROVE  PyInv'
<1>1. at = "genesis" /\ at \in Requests /\ UNCHANGED <<chainVars, fault, seen, record>>
  BY DEF ReadGenesis, Answered, callVars, Requests
<1>2. CASE Finish(Outcome("internalError")) BY <1>1, <1>2, FinishedInError
<1>3. ASSUME NEW g \in BOOLEAN, Finish(Envelope(state, g)) PROVE PyInv'
  BY <1>1, <1>3, FinishedInDocument DEF PyInv, StateOK
<1> QED BY <1>2, <1>3 DEF ReadGenesis

LEMMA EnvironmentStep ==
  ASSUME PyInv, Environment
  PROVE  /\ PyInv' /\ kind' = kind /\ outcomeBar' = outcomeBar
         /\ at \notin Requests => seen' = seen
<1>1. /\ ChainTypeOK' /\ kind' = kind /\ (kind \notin Singletons => Len(chain') = 1)
  BY ChainStep DEF PyInv, Environment
<1>2. /\ at' = at /\ record' = record /\ state' = state /\ result' = result /\ fault' = fault
      /\ seen' = IF at \in Requests THEN seen \cup Views(chain') ELSE seen
  BY DEF Environment, callVars
<1>3. SeenOK'
  <2>1. \A w \in Views(chain') : /\ w \in Seq(Link)
                                 /\ w # << >> => w[1].st = Launcher
                                 /\ kind \notin Singletons => Len(w) <= 1
    <3>1. chain' \in Seq(Link) /\ (chain' # << >> => chain'[1].st = Launcher)
      BY <1>1 DEF ChainTypeOK
    <3> QED BY <1>1, <3>1, ViewsType
  <2>2. Views(chain)' = Views(chain') BY DEF Views
  <2> QED BY <1>1, <1>2, <2>1, <2>2 DEF PyInv, SeenOK, Requests
<1>4. WalkOK' /\ StateOK' BY <1>1, <1>2 DEF PyInv, WalkOK, StateOK, StateOf
<1>5. CurrentOK'
  <2>1. seen \subseteq seen' BY <1>2
  <2> QED BY <1>2, <2>1 DEF PyInv, CurrentOK, Established, Tip
<1>6. outcomeBar' = outcomeBar BY <1>1, <1>2 DEF outcomeBar, ShownAs
<1>7. ResultOK'
  <2>1. CASE at = "done"
    <3>1. seen' = seen BY <1>2, <2>1 DEF Requests
    <3>2. Promise!Outcomes("py")' = Promise!Outcomes("py") BY <1>1, <3>1, SameOutcomes
    <3> QED BY <1>2, <1>6, <3>1, <3>2 DEF PyInv, ResultOK
  <2>2. CASE at # "done" BY <1>2, <2>2 DEF PyInv, ResultOK
  <2> QED BY <2>1, <2>2
<1> QED BY <1>1, <1>2, <1>3, <1>4, <1>5, <1>6, <1>7 DEF PyInv

LEMMA BeginStep ==
  ASSUME PyInv, Begin PROVE PyInv'
<1>1. at' = "launcher" /\ result' = result /\ seen' = Views(chain) /\ at = "idle"
      /\ chain' = chain /\ kind' = kind /\ reorgs' = reorgs /\ record' = record
  BY DEF Begin, Goto, chainVars, callVars
<1>2. Views(chain)' = Views(chain) BY <1>1 DEF Views
<1>3. \A w \in Views(chain) : /\ w \in Seq(Link)
                              /\ w # << >> => w[1].st = Launcher
                              /\ kind \notin Singletons => Len(w) <= 1
  <2>1. chain \in Seq(Link) /\ (chain # << >> => chain[1].st = Launcher)
        /\ (kind \notin Singletons => Len(chain) = 1)
    BY DEF PyInv, ChainTypeOK
  <2> QED BY <2>1, ViewsType
<1>4. SeenOK' BY <1>1, <1>2, <1>3 DEF SeenOK
<1>5. WalkOK' /\ CurrentOK' /\ StateOK' /\ ResultOK'
  BY <1>1 DEF PyInv, WalkOK, CurrentOK, StateOK, ResultOK
<1> QED BY <1>1, <1>4, <1>5 DEF PyInv, ChainTypeOK, Requests

LEMMA InvalidDidStep ==
  ASSUME PyInv, InvalidDid PROVE PyInv'
<1>1. at' = "done" /\ result' = Outcome("invalidDid") /\ seen' = seen /\ at = "idle" /\ seen = {}
      /\ chain' = chain /\ kind' = kind /\ reorgs' = reorgs /\ record' = record
  BY DEF InvalidDid, Finish, chainVars, callVars, PyInv, SeenOK
<1>2. SeenOK' /\ WalkOK' /\ CurrentOK' /\ StateOK' /\ ResultOK'
  BY <1>1 DEF PyInv, SeenOK, WalkOK, CurrentOK, StateOK, ResultOK, Requests
<1> QED BY <1>1, <1>2 DEF PyInv, ChainTypeOK

LEMMA FaultStep ==
  ASSUME PyInv, Raises \/ Refused PROVE PyInv'
<1>1. at \in Requests /\ UNCHANGED <<chainVars, seen, record>> BY DEF Raises, Refused, callVars
<1>2. CASE Raises
  <2>1. Finish(Outcome("raised")) BY <1>2 DEF Raises
  <2> QED BY <1>1, <2>1, FinishedInError
<1>3. CASE Refused
  <2>1. fault' = "refused"
        /\ Finish(Outcome(IF at \in {"launcher", "prelauncher"} THEN "notFound" ELSE "internalError"))
    BY <1>3 DEF Refused
  <2> QED BY <1>1, <2>1, FinishedInError
<1> QED BY <1>2, <1>3

-----------------------------------------------------------------------------
LEMMA PyInitially == PyInit => PyInv
<1> SUFFICES ASSUME PyInit PROVE PyInv OBVIOUS
<1>1. ChainTypeOK /\ (kind \notin Singletons => Len(chain) = 1)
  <2>1. kind \in Kinds /\ reorgs \in Nat BY SingletonAssumption DEF PyInit, ChainInit
  <2>2. \A n \in Nat : LauncherLink(n) \in Link BY DEF LauncherLink, Link
  <2>3. \A s \in State : Created(s, 0) \in Seq(Link) /\ Created(s, 0)[1].st = Launcher
    BY DEF Created, LauncherLink, Link
  <2>4. << >> \in Seq(Link) /\ <<LauncherLink(0)>> \in Seq(Link)
        /\ <<LauncherLink(0)>>[1].st = Launcher /\ Len(<<LauncherLink(0)>>) = 1
    BY <2>2 DEF LauncherLink
  <2> QED BY <2>1, <2>3, <2>4 DEF PyInit, ChainInit, ChainTypeOK
<1>2. SeenOK /\ WalkOK BY DEF PyInit, SeenOK, WalkOK, NoRecord, Path, Requests
<1>3. CurrentOK /\ StateOK /\ ResultOK BY DEF PyInit, CurrentOK, StateOK, ResultOK
<1> QED BY <1>1, <1>2, <1>3 DEF PyInit, PyInv

LEMMA PyStep == PyInv /\ [PyNext]_pyVars => PyInv'
<1> SUFFICES ASSUME PyInv, [PyNext]_pyVars PROVE PyInv' OBVIOUS
<1>1. CASE UNCHANGED pyVars
  <2>1. /\ kind' = kind /\ chain' = chain /\ reorgs' = reorgs /\ at' = at /\ record' = record
        /\ state' = state /\ result' = result /\ fault' = fault /\ seen' = seen
    BY <1>1 DEF pyVars, chainVars, callVars
  <2>2. outcomeBar' = outcomeBar /\ Promise!Outcomes("py")' = Promise!Outcomes("py")
    BY <2>1, SameOutcomes DEF outcomeBar, ShownAs
  <2>3. SeenOK' /\ WalkOK' /\ CurrentOK' /\ StateOK'
    BY <2>1 DEF PyInv, SeenOK, WalkOK, CurrentOK, StateOK, Views, StateOf, Established, Tip
  <2>4. ResultOK' BY <2>1, <2>2 DEF PyInv, ResultOK
  <2> QED BY <2>1, <2>3, <2>4 DEF PyInv, ChainTypeOK
<1>2. CASE PyNext
  <2>1. CASE Advance
    BY <2>1, LaunchStep, PrelaunchStep, DescendStep, ReadStateStep, ReadGenesisStep DEF Advance
  <2> QED BY <1>2, <2>1, EnvironmentStep, BeginStep, InvalidDidStep, FaultStep DEF PyNext
<1> QED BY <1>1, <1>2

(* What the data of a call says of the views it has seen, at every step.   *)
THEOREM PyInvariance == PySpec => []PyInv
BY PyInitially, PyStep, PTL DEF PySpec

(* The Python driver keeps the promise of the TypeScript driver once its   *)
(* results are rewritten in the three ways outcomeBar names: no outage is  *)
(* an answer, and a document said to be verified describes a coin that was *)
(* current during the call and the state it commits to.                    *)
THEOREM PyImplementation == PySpec => PyImplementsResolution
<1> DEFINE stutter == UNCHANGED Promise!resolutionVars
<1> USE DEF Promise!resolutionVars, Promise!chainVars
<1>1. PyInit => Promise!ResolutionInit
  <2> SUFFICES ASSUME PyInit PROVE Promise!ResolutionInit OBVIOUS
  <2>1. result = Outcome("none") /\ fault = "none" /\ at = "idle" /\ seen = {} BY DEF PyInit
  <2>2. /\ result.out = "none" /\ result.coin = << >> /\ result.st = Launcher
        /\ result.genesis = FALSE
    BY <2>1 DEF Outcome
  <2>3. (result.genesis /\ kind = "julia") = FALSE BY <2>2
  <2>4. ShownAs = result.out BY <2>1, <2>2 DEF ShownAs
  <2>5. outcomeBar = [c \in Py |-> Promise!Error("none")]
    BY <2>2, <2>3, <2>4 DEF outcomeBar, Promise!Error
  <2>6. statusBar = [c \in Py |-> "idle"] BY <2>1 DEF statusBar, Requests
  <2>7. Promise!ChainInit
    BY DEF PyInit, ChainInit, Promise!ChainInit, Created, Promise!Created, LauncherLink,
       Promise!LauncherLink, Singletons, Promise!Singletons
  <2> QED BY <2>1, <2>5, <2>6, <2>7 DEF Promise!ResolutionInit
<1>2. ASSUME PyInv, [PyNext]_pyVars
      PROVE  [Promise!ResolutionNext]_(Promise!resolutionVars)
  <2>0. "py" \in Py /\ Py = {"py"} BY DEF Py
  <2>1. CASE Environment
    <3>1. ChainNext => Promise!ChainNext
      BY DEF ChainNext, Promise!ChainNext, Create, Promise!Create, Grow, Promise!Grow,
         Reorg, Promise!Reorg, Created, Promise!Created, LauncherLink, Promise!LauncherLink,
         Singletons, Promise!Singletons, Established, Promise!Established
    <3>2. at \in Requests <=> statusBar["py"] = "running"
      BY <1>2 DEF PyInv, statusBar, Py, Requests
    <3>3. Views(chain') = Promise!Views(chain') BY DEF Views, Promise!Views
    <3>4. statusBar' = statusBar /\ outcomeBar' = outcomeBar
      BY <1>2, <2>1, EnvironmentStep DEF Environment, statusBar
    <3>5. [c \in Py |-> seen'] =
            [c \in Py |-> IF statusBar[c] = "running" THEN [d \in Py |-> seen][c] \cup Promise!Views(chain')
                          ELSE [d \in Py |-> seen][c]]
      BY <2>0, <2>1, <3>2, <3>3 DEF Environment
    <3>6. Promise!ChainMoves
      BY <2>1, <3>1, <3>4, <3>5 DEF Environment, Promise!ChainMoves
    <3> QED BY <3>6 DEF Promise!ResolutionNext
  <2>2. CASE Begin
    <3>1. at = "idle" /\ at' = "launcher" /\ result' = result /\ seen' = Views(chain)
          /\ chain' = chain /\ kind' = kind /\ reorgs' = reorgs /\ fault' = fault
      BY <2>2 DEF Begin, Goto, chainVars
    <3>2. statusBar["py"] = "idle" BY <3>1 DEF statusBar, Py, Requests
    <3>3. statusBar' = [statusBar EXCEPT !["py"] = "running"]
      BY <3>1 DEF statusBar, Py, Requests
    <3>4. [c \in Py |-> seen'] = [[c \in Py |-> seen] EXCEPT !["py"] = Promise!Views(chain)]
      BY <2>0, <3>1 DEF Views, Promise!Views
    <3>5. outcomeBar' = outcomeBar BY <3>1 DEF outcomeBar, ShownAs
    <3>6. Promise!Start("py") BY <3>1, <3>2, <3>3, <3>4, <3>5 DEF Promise!Start
    <3> QED BY <2>0, <3>6 DEF Promise!ResolutionNext
  <2>3. ASSUME at' = "done", at # "done", UNCHANGED <<chainVars, seen>>,
               NEW r, outcomeBar'["py"] = r
        PROVE  /\ statusBar' = [statusBar EXCEPT !["py"] = "done"]
               /\ outcomeBar' = [outcomeBar EXCEPT !["py"] = r]
               /\ UNCHANGED <<kind, chain, reorgs, seen>>
    <3>1. statusBar' = [statusBar EXCEPT !["py"] = "done"]
      BY <2>3 DEF statusBar, Py, Requests
    <3>2. DOMAIN outcomeBar' = Py /\ DOMAIN outcomeBar = Py
          /\ outcomeBar' = [c \in Py |-> outcomeBar'[c]]
      BY DEF outcomeBar
    <3>3. outcomeBar' = [outcomeBar EXCEPT !["py"] = r]
      <4> HIDE DEF outcomeBar
      <4>1. outcomeBar' = [c \in Py |-> r] BY <2>0, <2>3, <3>2
      <4>2. outcomeBar = [c \in Py |-> outcomeBar[c]] BY DEF outcomeBar
      <4> QED BY <2>0, <3>2, <4>1, <4>2
    <3> QED BY <2>3, <3>1, <3>3 DEF chainVars
  <2>4. CASE InvalidDid
    <3>1. at = "idle" /\ at' = "done" /\ UNCHANGED <<chainVars, seen>> /\ fault' = fault
          /\ result' = Outcome("invalidDid")
      BY <2>4 DEF InvalidDid, Finish
    <3>2. statusBar["py"] = "idle" BY <3>1 DEF statusBar, Py, Requests
    <3>3. outcomeBar'["py"] = Promise!Error("invalidDid") BY <3>1, ReadAsError
    <3>4. Promise!RefuseRequest("py")
      BY <2>3, <3>1, <3>2, <3>3 DEF Promise!RefuseRequest, Promise!RequestErrors
    <3> QED BY <2>0, <3>4 DEF Promise!ResolutionNext
  <2>5. CASE Advance \/ Raises \/ Refused
    <3>1. at \in Requests /\ UNCHANGED <<chainVars, seen>>
      BY <2>5 DEF Advance, Raises, Refused, Launch, Prelaunch, Descend, ReadState, ReadGenesis,
         Answered, Requests
    <3>2. \/ at' = "done"
          \/ at' \in Requests /\ result' = result /\ fault' = fault
      BY <2>5 DEF Advance, Raises, Refused, Launch, Prelaunch, Descend, ReadState, ReadGenesis,
         Answered, Requests, Goto, Finish
    <3>3. CASE at' = "done"
      <4>1. PyInv' BY <1>2, PyStep
      <4>2. chain \in seen
        BY <1>2, <3>1, ViewsType DEF PyInv, SeenOK, ChainTypeOK
      <4>3. outcomeBar'["py"] \in Promise!Outcomes("py")
        BY <3>1, <3>3, <4>1, <4>2, SameOutcomes DEF PyInv, ResultOK, chainVars
      <4>4. statusBar["py"] = "running" /\ at # "done" BY <3>1 DEF statusBar, Py, Requests
      <4>5. Promise!Return("py")
        BY <2>3, <3>1, <3>3, <4>3, <4>4 DEF Promise!Return
      <4> QED BY <2>0, <4>5 DEF Promise!ResolutionNext
    <3>4. CASE at' \in Requests /\ result' = result /\ fault' = fault
      <4>1. statusBar' = statusBar BY <3>1, <3>4 DEF statusBar
      <4>2. outcomeBar' = outcomeBar BY <3>1, <3>4 DEF outcomeBar, ShownAs, chainVars
      <4> QED BY <3>1, <4>1, <4>2 DEF chainVars
    <3> QED BY <3>2, <3>3, <3>4
  <2>6. CASE UNCHANGED pyVars
    BY <2>6 DEF pyVars, chainVars, statusBar, outcomeBar, ShownAs
  <2> QED BY <1>2, <2>1, <2>2, <2>4, <2>5, <2>6 DEF PyNext
<1> QED BY <1>1, <1>2, PyInvariance, PTL DEF PySpec, PyImplementsResolution, Promise!ResolutionSpec

-----------------------------------------------------------------------------
(* An undisturbed call.  The chain only grew under it, so what its records *)
(* said still holds.                                                       *)
Calm ==
  /\ ~disturbed /\ fault = "none" /\ kind \in {"julia", "legacy"}
  /\ \A v \in seen : Established(v)

Holds(r) ==
  /\ r.id \in Path /\ OnChain(chain, r.id)
  /\ r.spent /\ Len(r.id) < Len(chain) /\ r.at = chain[Len(r.id) + 1].blk

CalmOK ==
  Calm =>
    /\ at \in {"prelauncher", "children"} => Holds(record)
    /\ at \in {"children", "spend", "genesis"} => prelauncher.id = << >> /\ Holds(prelauncher)
    /\ at \in {"spend", "genesis"} =>
         /\ Holds(parent)
         /\ record.id = SubSeq(Tip(chain), 1, Len(parent.id) + 1)
    /\ at = "genesis" => state = StateOf(record.id)

CalmInv == PyInv /\ CalmOK /\ UndisturbedIsVerified

LEMMA HoldsRecord ==
  ASSUME chain \in Seq(Link), NEW id \in Path, OnChain(chain, id), Len(id) < Len(chain)
  PROVE  Holds(RecordOf(chain, id)) /\ RecordOf(chain, id).id = id
BY DEF Holds, RecordOf

(* The one child of a coin whose record still holds.                       *)
LEMMA TheChild ==
  ASSUME chain \in Seq(Link), NEW r, Holds(r)
  PROVE  /\ ChildrenOf(chain, r.id) = {RecordOf(chain, SubSeq(Tip(chain), 1, Len(r.id) + 1))}
         /\ SpendOf(chain, r) = ChildrenOf(chain, r.id)
         /\ SubSeq(Tip(chain), 1, Len(r.id) + 1) \in Path
         /\ Len(SubSeq(Tip(chain), 1, Len(r.id) + 1)) = Len(r.id) + 1
         /\ OnChain(chain, SubSeq(Tip(chain), 1, Len(r.id) + 1))
<1>1. Len(r.id) \in Nat /\ Len(chain) \in Nat /\ Len(r.id) < Len(chain) BY DEF Holds, Path
<1>2. Tip(chain) \in Path /\ Len(Tip(chain)) = Len(chain) BY TipType
<1> DEFINE n == Len(r.id) + 1
           p == SubSeq(Tip(chain), 1, n)
<1>3. n \in 0..Len(Tip(chain)) /\ n <= Len(chain) /\ n \in Nat BY <1>1, <1>2
<1>4. p \in Path /\ Len(p) = n /\ \A i \in 1..n : p[i] = Tip(chain)[i]
  <2> HIDE DEF n
  <2> QED BY <1>2, <1>3, PrefixType DEF Path
<1>5. OnChain(chain, p)
  <2>1. \A i \in 1..n : p[i] = chain[i].st BY <1>1, <1>3, <1>4 DEF Tip
  <2> HIDE DEF n, p
  <2> QED BY <1>3, <1>4, <2>1 DEF OnChain
<1>6. ChildrenOf(chain, r.id) = {RecordOf(chain, p)} BY <1>1 DEF Holds, ChildrenOf
<1>7. RecordOf(chain, r.id).at = r.at BY <1>1 DEF Holds, RecordOf
<1> QED BY <1>4, <1>5, <1>6, <1>7 DEF SpendOf, Holds

(* Growth leaves all of it true.                                           *)
LEMMA GrowthKeeps ==
  ASSUME chain \in Seq(Link), NEW e, chain' = Append(chain, e), NEW r, Holds(r)
  PROVE  /\ Holds(r)'
         /\ SubSeq(Tip(chain), 1, Len(r.id) + 1)' = SubSeq(Tip(chain), 1, Len(r.id) + 1)
<1>1. Len(r.id) \in Nat /\ Len(chain) \in Nat /\ Len(r.id) < Len(chain) BY DEF Holds, Path
<1>2. Len(chain') = Len(chain) + 1 /\ \A i \in 1..Len(chain) : chain'[i] = chain[i] BY <1>1
<1>3. Holds(r)' BY <1>1, <1>2 DEF Holds, OnChain
<1> DEFINE n == Len(r.id) + 1
<1>4. n \in Nat /\ n <= Len(chain) BY <1>1
<1>5. /\ SubSeq(Tip(chain), 1, n) = [i \in 1..n |-> chain[i].st]
      /\ SubSeq(Tip(chain'), 1, n) = [i \in 1..n |-> chain'[i].st]
  BY <1>1, <1>2, <1>4 DEF Tip
<1>6. [i \in 1..n |-> chain'[i].st] = [i \in 1..n |-> chain[i].st] BY <1>2, <1>4
<1> QED BY <1>3, <1>5, <1>6 DEF Tip

(* An answer under a calm call comes from the chain itself.                *)
LEMMA CalmAnswer ==
  ASSUME CalmInv, at \in Requests, NEW v \in Views(chain), NEW p \in Requests, Answered(p, v), Calm'
  PROVE  /\ Calm /\ v = chain /\ chain \in Seq(Link) /\ chain \in seen /\ Established(chain)
         /\ kind \in {"julia", "legacy"} /\ kind' = kind /\ chain' = chain /\ seen' = seen
         /\ Len(chain) \in Nat /\ Len(chain) > 1
<1>1. kind' = kind /\ chain' = chain /\ seen' = seen /\ fault' = fault
  BY DEF Answered, chainVars
<1>2. ~disturbed /\ v = chain BY DEF Calm, Answered
<1>3. Calm BY <1>1, <1>2 DEF Calm, Established
<1>4. chain \in Seq(Link) /\ chain \in seen
  BY ViewsType DEF CalmInv, PyInv, SeenOK, ChainTypeOK
<1> QED BY <1>1, <1>2, <1>3, <1>4 DEF Calm, Established

LEMMA CalmLaunch ==
  ASSUME CalmInv, NEW v \in Views(chain), Launch(v), Calm'
  PROVE  at' = "prelauncher" /\ Holds(record)'
<1>1. at = "launcher" /\ at \in Requests /\ Answered("launcher", v) BY DEF Launch, Answered, Requests
<1>2. /\ v = chain /\ chain \in Seq(Link) /\ kind \in {"julia", "legacy"} /\ chain' = chain
      /\ Len(chain) > 1 /\ Len(chain) \in Nat /\ chain \in seen
  BY <1>1, CalmAnswer DEF Requests
<1>3. <<Launcher>> \in Path /\ Len(<<Launcher>>) = 1 /\ OnChain(chain, <<Launcher>>)
  <2>1. chain[1].st = Launcher BY <1>2 DEF CalmInv, PyInv, SeenOK
  <2> QED BY <1>2, <2>1 DEF Path, OnChain
<1>4. Holds(RecordOf(chain, <<Launcher>>)) /\ RecordOf(chain, <<Launcher>>).spent
  BY <1>2, <1>3, HoldsRecord DEF Holds
<1>5. at' = "prelauncher" /\ record' = RecordOf(chain, <<Launcher>>)
  BY <1>2, <1>3, <1>4 DEF Launch, Goto
<1> QED BY <1>2, <1>4, <1>5 DEF Holds, OnChain

LEMMA CalmPrelaunch ==
  ASSUME CalmInv, NEW v \in Views(chain), Prelaunch(v), Calm'
  PROVE  at' = "children" /\ Holds(record)' /\ prelauncher'.id = << >> /\ Holds(prelauncher)'
<1>1. at = "prelauncher" /\ at \in Requests /\ Answered("prelauncher", v) /\ record' = record
  BY DEF Prelaunch, Answered, Requests
<1>2. /\ Calm /\ v = chain /\ chain \in Seq(Link) /\ chain' = chain
      /\ Len(chain) > 1 /\ Len(chain) \in Nat
  BY <1>1, CalmAnswer DEF Requests
<1>3. << >> \in Path /\ Len(<< >>) = 0 /\ OnChain(chain, << >>) BY <1>2 DEF Path, OnChain
<1>4. Holds(RecordOf(chain, << >>)) /\ RecordOf(chain, << >>).id = << >>
  BY <1>2, <1>3, HoldsRecord
<1>5. at' = "children" /\ prelauncher' = RecordOf(chain, << >>) BY <1>2 DEF Prelaunch, Goto
<1>6. Holds(record) BY <1>1, <1>2 DEF CalmInv, CalmOK
<1> QED BY <1>1, <1>2, <1>4, <1>5, <1>6 DEF Holds, OnChain

LEMMA CalmDescend ==
  ASSUME CalmInv, NEW v \in Views(chain), Descend(v), Calm'
  PROVE  /\ at' \in {"children", "spend"} /\ prelauncher' = prelauncher /\ chain' = chain
         /\ at' = "children" => Holds(record)'
         /\ at' = "spend" => Holds(parent)' /\ record'.id = SubSeq(Tip(chain), 1, Len(parent'.id) + 1)
<1>1. at = "children" /\ at \in Requests /\ Answered("children", v) /\ prelauncher' = prelauncher
  BY DEF Descend, Answered, Requests
<1>2. Calm /\ v = chain /\ chain \in Seq(Link) /\ chain' = chain /\ Len(chain) \in Nat
  BY <1>1, CalmAnswer DEF Requests
<1>3. Holds(record) BY <1>1, <1>2 DEF CalmInv, CalmOK
<1> DEFINE p == SubSeq(Tip(chain), 1, Len(record.id) + 1)
<1>4. /\ ChildrenOf(chain, record.id) = {RecordOf(chain, p)}
      /\ p \in Path /\ OnChain(chain, p) /\ Len(p) = Len(record.id) + 1
  BY <1>2, <1>3, TheChild
<1> HIDE DEF p
<1>5. Cardinality(ChildrenOf(chain, record.id)) = 1 BY <1>4, FS_Singleton
<1>6. parent' = record /\ record' = RecordOf(chain, p)
      /\ Goto(IF RecordOf(chain, p).spent THEN "children" ELSE "spend")
  <2>1. (CHOOSE r \in ChildrenOf(chain, record.id) : TRUE) = RecordOf(chain, p) BY <1>4
  <2> QED BY <1>2, <1>5, <2>1 DEF Descend
<1>7. at' \in {"children", "spend"} /\ (at' = "children" => RecordOf(chain, p).spent)
  BY <1>6 DEF Goto
<1>8. Len(p) \in Nat BY <1>4 DEF Path
<1>9. at' = "children" => Holds(RecordOf(chain, p))
  BY <1>2, <1>4, <1>7, HoldsRecord DEF RecordOf
<1>10. at' = "children" => Holds(record)' BY <1>2, <1>6, <1>9 DEF Holds, OnChain
<1>11. Holds(parent)' BY <1>2, <1>3, <1>6 DEF Holds, OnChain
<1>12. record'.id = SubSeq(Tip(chain), 1, Len(parent'.id) + 1)
  BY <1>6 DEF RecordOf, p
<1> QED BY <1>1, <1>2, <1>7, <1>10, <1>11, <1>12

(* The outcomes of an undisturbed call.                                    *)
LEMMA CalmDocument ==
  ASSUME NEW s, NEW g \in BOOLEAN, Finish(Envelope(s, g)), s = StateOf(record.id),
         kind' = kind, kind = "julia" => g
  PROVE  UndisturbedIsVerified'
<1>1. result'.out = "document" /\ result'.verified /\ result'.genesis = g
  BY DEF Finish, Envelope
<1> QED BY <1>1 DEF UndisturbedIsVerified

LEMMA CalmReadState ==
  ASSUME CalmInv, NEW v \in Views(chain), ReadState(v), Calm'
  PROVE  /\ at' \in {"genesis", "done"} /\ chain' = chain
         /\ UNCHANGED <<record, parent, prelauncher>>
         /\ at' = "genesis" => state' = StateOf(record.id)
         /\ UndisturbedIsVerified'
<1>1. at = "spend" /\ at \in Requests /\ Answered("spend", v)
      /\ UNCHANGED <<record, parent, prelauncher>>
  BY DEF ReadState, Answered, Requests
<1>2. /\ Calm /\ v = chain /\ chain \in Seq(Link) /\ chain' = chain /\ kind' = kind /\ seen' = seen
      /\ kind # "foreign"
  BY <1>1, CalmAnswer DEF Requests
<1>3. Holds(parent) /\ record.id = SubSeq(Tip(chain), 1, Len(parent.id) + 1)
      /\ Holds(prelauncher)
  BY <1>1, <1>2 DEF CalmInv, CalmOK
<1>4. SpendOf(chain, parent) = {RecordOf(chain, record.id)} BY <1>2, <1>3, TheChild
<1>5. RecordOf(chain, record.id).id = record.id /\ prelauncher.spent BY <1>3 DEF RecordOf, Holds
<1>6. \A child \in SpendOf(chain, parent) : Remarked(child) = {StateOf(record.id)} \ Opaque
  BY <1>2, <1>4, <1>5 DEF Remarked
<1>7. CASE StateOf(record.id) \in Opaque
  <2>1. PICK w \in seen : Established(w) /\ record.id = Tip(w)
    BY <1>1 DEF CalmInv, PyInv, CurrentOK
  <2>2. at' = "done" /\ result'.out = "internalError"
    <3>1. \A child \in SpendOf(v, parent) : Remarked(child) = {} BY <1>2, <1>6, <1>7
    <3>2. Finish(Outcome("internalError")) BY <3>1 DEF ReadState
    <3> QED BY <3>2 DEF Finish, Outcome
  <2>3. \E w2 \in seen' : StateOf(Tip(w2)) \in Opaque BY <1>2, <1>7, <2>1
  <2>4. UndisturbedIsVerified' BY <2>2, <2>3 DEF UndisturbedIsVerified, StateOf, Tip
  <2> QED BY <1>1, <1>2, <2>2, <2>4
<1>8. CASE StateOf(record.id) \notin Opaque
  <2>1. state' = StateOf(record.id) /\ Goto("genesis")
    BY <1>2, <1>4, <1>5, <1>6, <1>8 DEF ReadState
  <2>2. at' = "genesis" BY <2>1 DEF Goto
  <2>3. UndisturbedIsVerified' BY <2>2 DEF UndisturbedIsVerified
  <2> QED BY <1>1, <1>2, <2>1, <2>2, <2>3
<1> QED BY <1>7, <1>8

LEMMA CalmReadGenesis ==
  ASSUME CalmInv, NEW v \in Views(chain), ReadGenesis(v), Calm'
  PROVE  at' = "done" /\ UndisturbedIsVerified'
<1>1. at = "genesis" /\ at \in Requests /\ Answered("genesis", v)
  BY DEF ReadGenesis, Answered, Requests
<1>2. Calm /\ v = chain /\ chain \in Seq(Link) /\ kind' = kind
  BY <1>1, CalmAnswer DEF Requests
<1>3. Holds(prelauncher) /\ state = StateOf(record.id) BY <1>1, <1>2 DEF CalmInv, CalmOK
<1>4. SpendOf(chain, prelauncher) # {}
  <2>1. SpendOf(chain, prelauncher) =
          {RecordOf(chain, SubSeq(Tip(chain), 1, Len(prelauncher.id) + 1))}
    BY <1>2, <1>3, TheChild
  <2> QED BY <2>1
<1>5. PICK g \in BOOLEAN : (kind = "julia" => g) /\ Finish(Envelope(state, g))
  BY <1>2, <1>4 DEF ReadGenesis
<1> QED BY <1>2, <1>3, <1>5, CalmDocument DEF Finish

LEMMA CalmEnvironment ==
  ASSUME CalmInv, Environment PROVE CalmOK' /\ UndisturbedIsVerified'
<1>1. /\ UNCHANGED <<at, record, parent, prelauncher, state, result, fault>>
      /\ kind' = kind /\ ChainNext
  BY EnvironmentStep DEF CalmInv, Environment, callVars
<1>2. CASE at \in Requests
  <2> SUFFICES ASSUME Calm' PROVE CalmOK' /\ UndisturbedIsVerified' BY DEF CalmOK, UndisturbedIsVerified, Calm
  <2>1. UndisturbedIsVerified' BY <1>1, <1>2 DEF UndisturbedIsVerified, Requests
  <2>2. /\ seen \subseteq seen' /\ ~disturbed' /\ (disturbed' = (disturbed \/ Len(chain') < Len(chain)))
        /\ \A v \in seen' : Established(v)
    BY <1>2 DEF Environment, Calm
  <2>3. Calm /\ chain \in Seq(Link) /\ chain \in seen
    BY <1>1, <1>2, <2>2, ViewsType DEF Calm, CalmInv, PyInv, SeenOK, ChainTypeOK
  <2>4. Grow
    <3>1. Len(chain) > 1 /\ ~(Len(chain') < Len(chain)) BY <2>2, <2>3 DEF Established
    <3>2. ~Create BY <3>1 DEF Create
    <3>3. ~Reorg
      <4> SUFFICES ASSUME Reorg PROVE FALSE OBVIOUS
      <4>1. PICK n \in {0} \cup 3..(Len(chain) - 1) : n < Len(chain) /\ chain' = SubSeq(chain, 1, n)
        BY DEF Reorg
      <4>2. Len(chain') = n BY <2>3, <4>1
      <4> QED BY <3>1, <4>1, <4>2
    <3> QED BY <1>1, <3>2, <3>3 DEF ChainNext
  <2>5. PICK e : chain' = Append(chain, e) BY <2>4 DEF Grow
  <2>6. PICK r, q, m : r = record /\ q = parent /\ m = prelauncher OBVIOUS
  <2>7. Holds(r) => Holds(r)' BY <2>3, <2>5, GrowthKeeps
  <2>8. Holds(m) => Holds(m)' BY <2>3, <2>5, GrowthKeeps
  <2>9. Holds(q) => /\ Holds(q)'
                    /\ SubSeq(Tip(chain), 1, Len(q.id) + 1)' = SubSeq(Tip(chain), 1, Len(q.id) + 1)
    BY <2>3, <2>5, GrowthKeeps
  <2>10. /\ Holds(record) => Holds(record)'
         /\ Holds(prelauncher) => Holds(prelauncher)'
         /\ Holds(parent) => Holds(parent)'
    BY <1>1, <2>6, <2>7, <2>8, <2>9 DEF Holds, OnChain
  <2>11. Holds(parent) => SubSeq(Tip(chain), 1, Len(parent.id) + 1)' = SubSeq(Tip(chain), 1, Len(parent.id) + 1)
    BY <1>1, <2>6, <2>9 DEF Tip
  <2>12. state = StateOf(record.id) => state' = StateOf(record.id)' BY <1>1 DEF StateOf
  <2>13. CalmOK' BY <1>1, <2>3, <2>10, <2>11, <2>12 DEF CalmInv, CalmOK
  <2> QED BY <2>1, <2>13
<1>3. CASE at \notin Requests
  <2>1. seen' = seen /\ (disturbed => disturbed') BY <1>3 DEF Environment
  <2>2. UndisturbedIsVerified'
    BY <1>1, <2>1 DEF CalmInv, UndisturbedIsVerified, Established, StateOf, Tip
  <2> QED BY <1>1, <1>3, <2>2 DEF CalmOK, Requests
<1> QED BY <1>2, <1>3

LEMMA CalmAdvance ==
  ASSUME CalmInv, Advance PROVE CalmOK' /\ UndisturbedIsVerified'
<1> SUFFICES ASSUME Calm' PROVE CalmOK' /\ UndisturbedIsVerified'
  BY DEF CalmOK, UndisturbedIsVerified, Calm
<1>1. PICK v \in Views(chain) :
        Launch(v) \/ Prelaunch(v) \/ Descend(v) \/ ReadState(v) \/ ReadGenesis(v)
  BY DEF Advance
<1>2. CASE Launch(v)
  <2>1. at' = "prelauncher" /\ Holds(record)' BY <1>2, CalmLaunch
  <2> QED BY <2>1 DEF CalmOK, UndisturbedIsVerified
<1>3. CASE Prelaunch(v)
  <2>1. at' = "children" /\ Holds(record)' /\ prelauncher'.id = << >> /\ Holds(prelauncher)'
    BY <1>3, CalmPrelaunch
  <2> QED BY <2>1 DEF CalmOK, UndisturbedIsVerified
<1>4. CASE Descend(v)
  <2>1. /\ at' \in {"children", "spend"} /\ prelauncher' = prelauncher /\ chain' = chain
        /\ at' = "children" => Holds(record)'
        /\ at' = "spend" => Holds(parent)' /\ record'.id = SubSeq(Tip(chain), 1, Len(parent'.id) + 1)
    BY <1>4, CalmDescend
  <2>2. prelauncher.id = << >> /\ Holds(prelauncher)
    <3>1. at = "children" /\ at \in Requests /\ Answered("children", v)
      BY <1>4 DEF Descend, Answered, Requests
    <3>2. Calm BY <3>1, CalmAnswer DEF Requests
    <3> QED BY <3>1, <3>2 DEF CalmInv, CalmOK
  <2>3. Holds(prelauncher)' BY <2>1, <2>2 DEF Holds, OnChain
  <2>4. at' = "spend" => record'.id = SubSeq(Tip(chain), 1, Len(parent.id) + 1)'
    BY <2>1 DEF Tip
  <2> QED BY <2>1, <2>2, <2>3, <2>4 DEF CalmOK, UndisturbedIsVerified
<1>5. CASE ReadState(v)
  <2>1. /\ at' \in {"genesis", "done"} /\ chain' = chain
        /\ UNCHANGED <<record, parent, prelauncher>>
        /\ at' = "genesis" => state' = StateOf(record.id)
        /\ UndisturbedIsVerified'
    BY <1>5, CalmReadState
  <2>2. at = "spend" /\ Calm
    <3>1. at = "spend" /\ at \in Requests /\ Answered("spend", v)
      BY <1>5 DEF ReadState, Answered, Requests
    <3> QED BY <3>1, CalmAnswer DEF Requests
  <2>3. /\ prelauncher.id = << >> /\ Holds(prelauncher) /\ Holds(parent)
        /\ record.id = SubSeq(Tip(chain), 1, Len(parent.id) + 1)
    BY <2>2 DEF CalmInv, CalmOK
  <2>4. Holds(prelauncher)' /\ Holds(parent)' BY <2>1, <2>3 DEF Holds, OnChain
  <2>5. /\ prelauncher'.id = << >>
        /\ record'.id = SubSeq(Tip(chain), 1, Len(parent.id) + 1)'
        /\ at' = "genesis" => state' = StateOf(record.id)'
    BY <2>1, <2>3 DEF Tip, StateOf
  <2> QED BY <2>1, <2>4, <2>5 DEF CalmOK
<1>6. CASE ReadGenesis(v)
  <2>1. at' = "done" /\ UndisturbedIsVerified' BY <1>6, CalmReadGenesis
  <2> QED BY <2>1 DEF CalmOK
<1> QED BY <1>1, <1>2, <1>3, <1>4, <1>5, <1>6

LEMMA CalmStep == CalmInv /\ [PyNext]_pyVars => CalmInv'
<1> SUFFICES ASSUME CalmInv, [PyNext]_pyVars PROVE CalmInv' OBVIOUS
<1>1. PyInv' BY PyStep DEF CalmInv
<1> SUFFICES CalmOK' /\ UndisturbedIsVerified' BY <1>1 DEF CalmInv
<1>2. CASE Begin
  <2>1. at' = "launcher" BY <1>2 DEF Begin, Goto
  <2> QED BY <2>1 DEF CalmOK, UndisturbedIsVerified
<1>3. CASE InvalidDid
  <2>1. at' = "done" /\ seen' = seen /\ seen = {}
    BY <1>3 DEF InvalidDid, Finish, CalmInv, PyInv, SeenOK
  <2> QED BY <2>1 DEF CalmOK, UndisturbedIsVerified
<1>4. CASE Raises \/ Refused
  <2>1. at' = "done" /\ fault' # "none" BY <1>4 DEF Raises, Refused, Finish
  <2> QED BY <2>1 DEF CalmOK, UndisturbedIsVerified
<1>5. CASE UNCHANGED pyVars
  <2>1. /\ UNCHANGED <<kind, chain, at, record, parent, prelauncher, state>>
        /\ UNCHANGED <<result, fault, seen, disturbed>>
    BY <1>5 DEF pyVars, chainVars, callVars
  <2>2. UndisturbedIsVerified'
    BY <2>1 DEF CalmInv, UndisturbedIsVerified, Established, StateOf, Tip
  <2>3. CalmOK'
    BY <2>1 DEF CalmInv, CalmOK, Calm, Holds, OnChain, Established, StateOf, Tip
  <2> QED BY <2>2, <2>3
<1> QED BY <1>2, <1>3, <1>4, <1>5, CalmEnvironment, CalmAdvance DEF PyNext

(* A call nothing disturbed serves the DID with its state verified, however *)
(* the chain grew while it walked: of the records it carries from one       *)
(* request to the next none goes stale under growth alone (__init__.py,     *)
(* trace_singleton).                                                        *)
THEOREM PyUndisturbed == PySpec => []UndisturbedIsVerified
<1>1. PyInit => CalmInv
  <2> SUFFICES ASSUME PyInit PROVE CalmInv OBVIOUS
  <2>1. at = "idle" BY DEF PyInit
  <2> QED BY <2>1, PyInitially DEF CalmInv, CalmOK, UndisturbedIsVerified
<1>2. CalmInv => UndisturbedIsVerified BY DEF CalmInv
<1> QED BY <1>1, <1>2, CalmStep, PTL DEF PySpec
=============================================================================
