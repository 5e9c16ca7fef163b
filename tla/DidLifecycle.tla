----------------------------- MODULE DidLifecycle -----------------------------
(***************************************************************************)
(* The life of one did:julia DID, and what the resolver says of it after   *)
(* every spend.  Who may make which spend is decided by the puzzles of     *)
(* julia_did_chialisp, which are not in this repository: the guards below  *)
(* are the control paths parseState weighs for its deactivation verdict.   *)
(* They ask for no more than those, so the puzzles, which also check       *)
(* delays, allow no step that is missing here.  The states the spends lead *)
(* to are those of ts/src/transitions.ts, which the repository pins to the *)
(* compiled puzzles with recorded vectors.  How much of a value an         *)
(* operation insists on is not known here, so any of them may install a    *)
(* malformed one, and any solution may hold 48-octet atoms that are no     *)
(* signer's key.                                                           *)
(***************************************************************************)
EXTENDS DidState

CONSTANTS
  Config,      \* what the owner may install in slot 4
  Setup,       \* the recovery configurations a DID may be created with
  Install,     \* what a recovery, or a predecessor, may install in slots 4 to 6
  Extra,       \* the 48-octet atoms a solution may hold besides its signers' keys
  MaxSpends    \* bound: spends after the creation

ASSUME DidLifecycleAssumption ==
  /\ Config \subseteq Auths
  /\ Setup \subseteq Recoveries
  /\ Install \subseteq Triple
  /\ Extra \subseteq Key \cup {Zero}
  /\ MaxSpends \in Nat

VARIABLES
  coin,        \* the unspent coin, that is the state it commits to
  spend,       \* the spend that created it
  genesis,     \* the key of the prelauncher
  bound,       \* does parent-info re-derive the launcher id?
  signed,      \* history: keys that proved membership in slot 4 as it is
  delegated,   \* history: has anybody but the owner made a spend?
  spends       \* spends after the creation

vars == <<coin, spend, genesis, bound, signed, delegated, spends>>

SingleKey(k) == [root |-> {k}, need |-> 1]
Inert == [root |-> {Zero}, need |-> 1]

Leaves(auth) == IF auth \in {Nil, Malformed} THEN {} ELSE auth.root \ {Zero}

(* The signer sets a configuration accepts.                                *)
Quorums(auth) ==
  IF auth = Malformed \/ AuthDead(auth) THEN {}
  ELSE {S \in SUBSET Leaves(auth) : Cardinality(S) >= auth.need}

NoValues == [auth |-> Nil, custodians |-> {}, recovery |-> Nil, pointer |-> Nil]

(* A spend whose solution has the values sol, the public keys S, with      *)
(* their Merkle paths into the root of the configuration by (or no keys),  *)
(* and more atoms of their length.                                         *)
Confirm(new, sol, S, by) ==
  /\ spends < MaxSpends
  /\ coin' = new
  /\ \E more \in SUBSET Extra : spend' = [prev |-> coin, sol |-> sol, keys |-> S \cup more]
  /\ signed' = (IF new.auth = coin.auth THEN signed ELSE {})
                 \cup (IF by = new.auth THEN S ELSE {})
  /\ delegated' = (delegated \/ S = {} \/ by # coin.auth)
  /\ spends' = spends + 1
  /\ UNCHANGED <<genesis, bound>>

OwnerConfirms(new, sol) == \E S \in Quorums(coin.auth) : Confirm(new, sol, S, coin.auth)

OthersConfirm(new, sol) == Confirm(new, sol, {}, Nil)

CustodianConfirms(new, sol) == coin.custodians # {} /\ OthersConfirm(new, sol)

Current == coin.version = "current"

-----------------------------------------------------------------------------
(* Signing, presenting, announcing: the state stays as it is.              *)
PassThrough == OwnerConfirms(coin, NoValues) \/ CustodianConfirms(coin, NoValues)

OwnerRekeys ==
  /\ Current
  /\ \E a \in Config :
       LET sol == [NoValues EXCEPT !.auth = a] IN OwnerConfirms(Rekey(coin, sol), sol)

(* The owner or a custodian repoints the document.                         *)
PointerSet ==
  /\ Current
  /\ \E p \in Pointers :
       LET sol == [NoValues EXCEPT !.pointer = p] IN
       OwnerConfirms(DidDocSet(coin, sol), sol) \/ CustodianConfirms(DidDocSet(coin, sol), sol)

AgentsLive == InLayout(coin.recovery) /\ coin.recovery.agents # {}

AgentsInitiate ==
  /\ Current /\ AgentsLive
  /\ \E t \in Install :
       LET sol == [NoValues EXCEPT !.auth = t.auth, !.custodians = t.custodians,
                                   !.recovery = t.recovery]
       IN  OthersConfirm(RecoveryInitiate(coin, sol), sol)

AgentsCancel ==
  /\ Current /\ AgentsLive
  /\ OthersConfirm(RecoveryCancel(coin), NoValues)

(* Once the delay is over anyone may do this.                              *)
AnyoneCompletes ==
  /\ Current /\ coin.pending # Nil
  /\ OthersConfirm(RecoveryComplete(coin), NoValues)

PrerotationLive ==
  /\ InLayout(coin.recovery)
  /\ coin.recovery.pre # Malformed /\ PrerotationCommitted(coin.recovery)

PrerotatedKeysTakeOver ==
  /\ Current /\ PrerotationLive
  /\ \E S \in Quorums(coin.recovery.pre), a \in Config :
       LET sol == [NoValues EXCEPT !.auth = a]
       IN  Confirm(RecoveryPrerotation(coin, sol), sol, S, coin.recovery.pre)

(* Somebody can still spend the coin.                                      *)
Controlled ==
  \/ Quorums(coin.auth) # {}
  \/ coin.custodians # {}
  \/ coin.recovery = Predecessor
  \/ AgentsLive
  \/ PrerotationLive
  \/ coin.pending # Nil

(* A predecessor of the puzzle rewrites the state by rules this resolver   *)
(* does not have, for whoever controls the DID.                            *)
PredecessorRewrites ==
  /\ ~Current /\ Controlled
  /\ \E t \in Install :
       OthersConfirm([coin EXCEPT !.auth = t.auth, !.custodians = t.custodians,
                                  !.recovery = t.recovery], NoValues)

-----------------------------------------------------------------------------
(* The eve spend re-emits the state the DID was created with; its          *)
(* operation solution is empty.                                            *)
Init ==
  \E v \in {"current", "predecessor"}, w \in {7, 8}, k \in Key, r \in Setup :
    /\ v = "current" => w = 8
    /\ bound \in {b \in BOOLEAN : v = "current" => b}
    /\ genesis = k
    /\ coin = [version |-> v, width |-> w, delay |-> 0, auth |-> SingleKey(k),
               custodians |-> {}, recovery |-> r, pointer |-> Nil, pending |-> Nil]
    /\ spend = [prev |-> coin, sol |-> Nil, keys |-> {}]
    /\ signed = {} /\ delegated = FALSE
    /\ spends = 0

Next ==
  \/ PassThrough \/ OwnerRekeys \/ PointerSet
  \/ AgentsInitiate \/ AgentsCancel \/ AnyoneCompletes
  \/ PrerotatedKeysTakeOver \/ PredecessorRewrites

Spec == Init /\ [][Next]_vars

-----------------------------------------------------------------------------
(* The resolution of the DID as it is now: resolve() on a quiet chain.     *)
Serves == Derives(spend, coin)

CandidateKeys == RevealedKeys(spend, coin) \cup (IF bound THEN {genesis} ELSE {})

DidDocument == Document(coin, CandidateKeys)

(* The keys whose membership in the current root the chain shows.          *)
Proven == (signed \cup (IF bound THEN {genesis} ELSE {})) \cap Leaves(coin.auth)

SingleKeyDid == \E k \in Key : coin.auth = SingleKey(k)

LifecycleTypeOK ==
  /\ coin \in JuliaDidState
  /\ spend \in Spend
  /\ genesis \in Key /\ bound \in BOOLEAN
  /\ signed \subseteq Key /\ delegated \in BOOLEAN
  /\ spends \in Nat

(* The inductive invariant.  A recovery can be pending only while the      *)
(* agents that armed it are in slot 6, which is why the verdict of         *)
(* parseState, that never looks at slot 8, is right about pending ones;    *)
(* and the last spend of a DID its owner operates shows all the keys there *)
(* are.                                                                    *)
LifecycleInv ==
  /\ LifecycleTypeOK
  /\ coin.version = "predecessor" \/ coin.width = 8
  /\ coin.version = "current" => bound
  /\ coin.pending # Nil => Current /\ AgentsLive
  /\ signed \subseteq Leaves(coin.auth)
  /\ SingleKeyDid /\ ~delegated => signed = RevealedKeys(spend, coin) \cap Leaves(coin.auth)

-----------------------------------------------------------------------------
(* Spec 7.4, bricking is permanent: once the resolver reports a DID as     *)
(* deactivated, nobody ever spends it again, no recovery completes, and    *)
(* the report stays true.                                                  *)
DeactivatedIsForever ==
  [][Serves /\ DidDocument.deactivated => UNCHANGED <<coin, spend>>]_vars

(* And no DID is left that nobody can spend and that is not reported so,   *)
(* whichever of the two encodings of "dead" each slot ended up with.       *)
BrickedIsReported == Serves /\ ~Controlled => DidDocument.deactivated

(* Spec 8.2, for a DID its owner alone has operated: exactly the keys the  *)
(* chain proves are listed, through rekeys forth and back and pointer      *)
(* updates in between.                                                     *)
OwnerKeysAreListed ==
  Serves /\ SingleKeyDid /\ ~delegated => DidDocument.keys = Proven

-----------------------------------------------------------------------------
(* Spec 8.2 as written: "any key revealed in a spend solution whose        *)
(* validated Merkle path terminates in the current root" is listed.  The   *)
(* code looks at the most recent spend only, even when that spend left     *)
(* slot 4 alone.                                                           *)
EnumerationRule ==
  Serves /\ Current /\ SingleKeyDid /\ spend.prev.auth = coin.auth =>
    Proven \subseteq DidDocument.keys

(* Spec 8.2 as written: a resolver lists "exactly those public keys" it    *)
(* can prove, and by 7.3 the all-zero value is "not a valid BLS12-381      *)
(* public key".  The code takes any 48-octet atom for a key, and that      *)
(* atom's one-leaf tree is the sentinel.                                   *)
ListedKeysAreKeys == Serves /\ Current => DidDocument.keys \subseteq Key

(* Spec 8.3 as written: juliaRecoveryPending is "true while a time-locked  *)
(* recovery is armed (slot 3 nonzero)".  The code looks at slot 8.         *)
PendingWhileArmed ==
  Serves /\ ~DidDocument.deactivated => (DidDocument.pending <=> coin.delay # 0)

(* ADR 0001 as written: "A DID on a predecessor puzzle still resolves when *)
(* its most recent spend changed no state".  The code refuses any state    *)
(* that is not eight slots wide.                                           *)
UnchangedPredecessorResolves ==
  ~Current /\ spend.prev = coin => Serves
=============================================================================
