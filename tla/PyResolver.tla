------------------------------ MODULE PyResolver ------------------------------
(***************************************************************************)
(* The Python reference resolver: resolve() of src/did_julia/__init__.py   *)
(* with trace_singleton, the reading of the REMARKed state and the genesis *)
(* key.  It is synchronous: between two of its requests nothing runs but   *)
(* the chain, so the answer to a request and the code up to the next one   *)
(* are one action.  It has no fast path, no generation bound, and tells no *)
(* absence from a refusal.                                                 *)
(***************************************************************************)
EXTENDS Singleton, FiniteSets

VARIABLES
  at,           \* the request in progress, or "idle", "done"
  record,       \* the coin record walked from, the current one in the end
  parent,       \* the record before it
  prelauncher,  \* the prelauncher's record
  state,        \* the state the last spend REMARKed
  result,       \* what resolve returned, or "raised"
  fault,        \* history: how a request failed, or "none"
  seen,         \* history: the views in force while it ran
  disturbed     \* history: did coins vanish, or a late replica answer?

callVars == <<record, parent, prelauncher, state>>
pyVars == <<chainVars, at, callVars, result, fault, seen, disturbed>>

Requests == {"launcher", "prelauncher", "children", "spend", "genesis"}

NoRecord == [id |-> << >>, spent |-> FALSE, at |-> 0]

Outcome(e) == [out |-> e, coin |-> << >>, st |-> Launcher, genesis |-> FALSE, verified |-> FALSE]

(* The document is served whether verify_state says yes or no.             *)
Envelope(s, g) ==
  [out |-> "document", coin |-> record.id, st |-> s, genesis |-> g,
   verified |-> s = StateOf(record.id)]

Goto(p) == at' = p /\ UNCHANGED result
Finish(r) == at' = "done" /\ result' = r

-----------------------------------------------------------------------------
Begin ==
  /\ at = "idle"
  /\ Goto("launcher")
  /\ seen' = Views(chain)
  /\ UNCHANGED <<chainVars, callVars, fault, disturbed>>

InvalidDid ==
  /\ at = "idle"
  /\ Finish(Outcome("invalidDid"))
  /\ UNCHANGED <<chainVars, callVars, fault, seen, disturbed>>

(* Mutant: an outage caught where a refusal is, and taken for absence.     *)
CatchesOutages ==
  /\ at \in Requests
  /\ fault' = "outage"
  /\ Finish(Outcome(IF at \in {"launcher", "prelauncher"} THEN "notFound" ELSE "raised"))
  /\ UNCHANGED <<chainVars, callVars, seen, disturbed>>

(* A connection, a status, the timer or a body that is no JSON: requests   *)
(* raises, and resolve lets it through.                                    *)
Raises ==
  /\ at \in Requests
  /\ fault' = "outage"
  /\ Finish(Outcome("raised"))
  /\ UNCHANGED <<chainVars, callVars, seen, disturbed>>

(* success: false.  get_coin_record_by_name makes it None, an absence.     *)
Refused ==
  /\ at \in Requests
  /\ fault' = "refused"
  /\ Finish(Outcome(IF at \in {"launcher", "prelauncher"} THEN "notFound" ELSE "internalError"))
  /\ UNCHANGED <<chainVars, callVars, seen, disturbed>>

(* The answer comes from the view v.                                       *)
Answered(p, v) ==
  /\ at = p
  /\ disturbed' = (disturbed \/ v # chain)
  /\ UNCHANGED <<chainVars, fault, seen>>

Launch(v) ==
  /\ Answered("launcher", v)
  /\ UNCHANGED <<parent, prelauncher, state>>
  /\ IF OnChain(v, <<Launcher>>) /\ kind # "ordinary" /\ RecordOf(v, <<Launcher>>).spent
       THEN Goto("prelauncher") /\ record' = RecordOf(v, <<Launcher>>)
       ELSE Finish(Outcome("notFound")) /\ UNCHANGED record

(* A node may know the coin before it is spent, or not.  The launcher's    *)
(* record said that it is spent, so the loop is entered.                   *)
Prelaunch(v) ==
  /\ Answered("prelauncher", v)
  /\ UNCHANGED <<record, parent, state>>
  /\ \/ OnChain(v, << >>) /\ Goto("children") /\ prelauncher' = RecordOf(v, << >>)
     \/ v = << >> /\ Finish(Outcome("notFound")) /\ UNCHANGED prelauncher

(* One turn of the loop of trace_singleton, which nothing bounds.          *)
Descend(v) ==
  /\ Answered("children", v)
  /\ UNCHANGED <<prelauncher, state>>
  /\ IF Cardinality(ChildrenOf(v, record.id)) # 1
       THEN Finish(Outcome("internalError")) /\ UNCHANGED <<record, parent>>
       ELSE LET child == CHOOSE r \in ChildrenOf(v, record.id) : TRUE IN
            /\ parent' = record
            /\ record' = child
            /\ Goto(IF child.spent THEN "children" ELSE "spend")

(* The spend of a coin, if it was confirmed in that block: what it made.   *)
SpendOf(v, r) ==
  IF OnChain(v, r.id) /\ RecordOf(v, r.id).at = r.at THEN ChildrenOf(v, r.id) ELSE {}

(* The state a spend of the parent REMARKs.  The spend of another          *)
(* singleton carries none, or one its coin does not commit to.             *)
Remarked(child) ==
  IF kind = "foreign" THEN State \ {StateOf(record.id)} ELSE {StateOf(child.id)} \ Opaque

(* The state is read but not held against the coin yet; then the genesis   *)
(* key is fetched, if the prelauncher's record said that it is spent.      *)
ReadState(v) ==
  /\ Answered("spend", v)
  /\ UNCHANGED <<record, parent, prelauncher>>
  /\ \/ /\ kind = "foreign" \/ \A child \in SpendOf(v, parent) : Remarked(child) = {}
        /\ Finish(Outcome("internalError"))
        /\ UNCHANGED state
     \/ \E child \in SpendOf(v, parent) : \E s \in Remarked(child) :
          /\ state' = s
          /\ IF prelauncher.spent THEN Goto("genesis") ELSE Finish(Envelope(s, FALSE))

(* Mutant: the state held against the coin it was read from.               *)
VerifiesParent(v) ==
  /\ Answered("genesis", v)
  /\ UNCHANGED callVars
  /\ \/ SpendOf(v, prelauncher) = {} /\ Finish(Outcome("internalError"))
     \/ /\ SpendOf(v, prelauncher) # {}
        /\ \E g \in IF kind = "julia" THEN {TRUE} ELSE BOOLEAN :
             Finish([Envelope(state, g) EXCEPT !.verified = (state = StateOf(parent.id))])

(* The prelauncher's reveal carries one key, or is none of a did:julia;    *)
(* nothing asks whether it is bound to the launcher id.                    *)
ReadGenesis(v) ==
  /\ Answered("genesis", v)
  /\ UNCHANGED callVars
  /\ \/ SpendOf(v, prelauncher) = {} /\ Finish(Outcome("internalError"))
     \/ /\ SpendOf(v, prelauncher) # {}
        /\ \E g \in IF kind = "julia" THEN {TRUE} ELSE BOOLEAN : Finish(Envelope(state, g))

Advance == \E v \in Views(chain) :
  Launch(v) \/ Prelaunch(v) \/ Descend(v) \/ ReadState(v) \/ ReadGenesis(v)

-----------------------------------------------------------------------------
Environment ==
  /\ ChainNext
  /\ seen' = IF at \in Requests THEN seen \cup Views(chain') ELSE seen
  /\ disturbed' = (disturbed \/ (at \in Requests /\ Len(chain') < Len(chain)))
  /\ UNCHANGED <<at, callVars, result, fault>>

PyInit ==
  /\ ChainInit
  /\ at = "idle" /\ result = Outcome("none") /\ fault = "none"
  /\ record = NoRecord /\ parent = NoRecord /\ prelauncher = NoRecord
  /\ state = Launcher
  /\ seen = {} /\ disturbed = FALSE

PyNext == Environment \/ Begin \/ InvalidDid \/ Raises \/ Refused \/ Advance

PySpec == PyInit /\ [][PyNext]_pyVars

-----------------------------------------------------------------------------
(***************************************************************************)
(* The promise of the TypeScript driver, and what has to be rewritten of   *)
(* a result for the Python driver to keep it: a request that raises is an  *)
(* internalError, and so is a refusal reported as an absence; a document   *)
(* that was not verified is an unverifiableState; and the genesis key of a *)
(* DID that does not bind it is not shown.                                 *)
(***************************************************************************)
Py == {"py"}

statusBar == [c \in Py |-> IF at \in Requests THEN "running" ELSE at]

ShownAs ==
  IF result.out = "raised" \/ (result.out = "notFound" /\ fault = "refused")
    THEN "internalError"
  ELSE IF result.out = "document" /\ ~result.verified THEN "unverifiableState"
  ELSE result.out

outcomeBar ==
  [c \in Py |->
     IF ShownAs = result.out
       THEN [out |-> result.out, coin |-> result.coin, st |-> result.st,
             genesis |-> result.genesis /\ kind = "julia"]
       ELSE [out |-> ShownAs, coin |-> << >>, st |-> Launcher, genesis |-> FALSE]]

Promise == INSTANCE Resolution
  WITH Call <- Py, status <- statusBar, outcome <- outcomeBar, seen <- [c \in Py |-> seen]

(* Read so, the two implementations of one method promise the same: an     *)
(* outage is never an answer, and a document that says it is verified      *)
(* describes a coin that was current during the call and its state.        *)
PyImplementsResolution == Promise!ResolutionSpec

(* A call whose requests all succeeded, under which no coin vanished and   *)
(* no replica was late, serves the DID, and serves it verified: the flag   *)
(* that tells a caller to distrust a document is raised by nothing but a   *)
(* reorganization or a singleton that is no did:julia.                     *)
UndisturbedIsVerified ==
  /\ at = "done" /\ seen # {} /\ fault = "none" /\ ~disturbed
  /\ kind \in {"julia", "legacy"} /\ \A v \in seen : Established(v)
  => \/ /\ result.out = "document" /\ result.verified
        /\ kind = "julia" => result.genesis
     \/ result.out = "internalError" /\ \E v \in seen : StateOf(Tip(v)) \in Opaque
=============================================================================
