------------------------------ MODULE Resolution ------------------------------
(***************************************************************************)
(* What a resolution promises its caller, without RPCs, fast path, walk or *)
(* shared client: a call runs while the chain moves, and returns in one    *)
(* step an outcome that some moment of its run justifies.  Resolver is     *)
(* shown to implement this.                                                *)
(***************************************************************************)
EXTENDS Singleton

CONSTANTS Call

VARIABLES
  status,    \* "idle", "running" or "done"
  outcome,   \* what the call returned
  seen       \* the views in force while it ran

resolutionVars == <<chainVars, status, outcome, seen>>

RequestErrors == {"representationNotSupported", "unsupportedResolutionOption", "invalidDid"}
Error(e) == [out |-> e, coin |-> << >>, st |-> Launcher, genesis |-> FALSE]
Document(coin, st, g) == [out |-> "document", coin |-> coin, st |-> st, genesis |-> g]

Resolvable == {"julia", "legacy"}

(* A document describes a coin that was the DID's unspent coin during the  *)
(* call, and shows exactly the state this coin commits to, which is one    *)
(* the resolver understands; a genesis key is shown only for a DID whose   *)
(* spends bind it to the launcher id.                                      *)
Documents(c) ==
  {Document(Tip(v), StateOf(Tip(v)), g) :
     v \in {w \in seen[c] : Established(w) /\ StateOf(Tip(w)) \notin Opaque},
     g \in IF kind = "julia" THEN BOOLEAN ELSE {FALSE}}

(* An error never claims an absence the chain did not show.                *)
Errors(c) ==
  {Error("internalError"), Error("unverifiableState")}
    \cup (IF kind \in {"idle", "ordinary"} \/ \E v \in seen[c] : ~Established(v)
            THEN {Error("notFound")} ELSE {})

Outcomes(c) ==
  Errors(c) \cup (IF kind \in Resolvable THEN Documents(c) ELSE {})

ResolutionInit ==
  /\ ChainInit
  /\ status = [c \in Call |-> "idle"]
  /\ outcome = [c \in Call |-> Error("none")]
  /\ seen = [c \in Call |-> {}]

Start(c) ==
  /\ status[c] = "idle"
  /\ status' = [status EXCEPT ![c] = "running"]
  /\ seen' = [seen EXCEPT ![c] = Views(chain)]
  /\ UNCHANGED <<chainVars, outcome>>

RefuseRequest(c) ==
  /\ status[c] = "idle"
  /\ status' = [status EXCEPT ![c] = "done"]
  /\ \E e \in RequestErrors : outcome' = [outcome EXCEPT ![c] = Error(e)]
  /\ UNCHANGED <<chainVars, seen>>

Return(c) ==
  /\ status[c] = "running"
  /\ status' = [status EXCEPT ![c] = "done"]
  /\ \E r \in Outcomes(c) : outcome' = [outcome EXCEPT ![c] = r]
  /\ UNCHANGED <<chainVars, seen>>

ChainMoves ==
  /\ ChainNext
  /\ seen' = [c \in Call |->
                IF status[c] = "running" THEN seen[c] \cup Views(chain') ELSE seen[c]]
  /\ UNCHANGED <<status, outcome>>

ResolutionNext ==
  \/ ChainMoves
  \/ \E c \in Call : Start(c) \/ RefuseRequest(c) \/ Return(c)

ResolutionSpec == ResolutionInit /\ [][ResolutionNext]_resolutionVars
=============================================================================
