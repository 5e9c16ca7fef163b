------------------------------- MODULE DidState -------------------------------
(***************************************************************************)
(* The eight slots of a did:julia singleton and what the resolver computes *)
(* from them: parseState and the candidate derivation of ts/src/state.ts,  *)
(* the six transitions of ts/src/transitions.ts and the document of        *)
(* ts/src/diddoc.ts.                                                       *)
(*                                                                         *)
(* A Merkle tree is the set of its leaves, so singleKeyRoot(k) is {k} and  *)
(* the inert-tree sentinel is {Zero}.  A puzzle hash commits to the state, *)
(* so a coin IS the state it commits to.  Slot 2, the launcher id, is the  *)
(* same in every state of one DID and left out.  A slot the resolver would *)
(* refuse to read is Malformed; no operation writes slots 1 and 2.         *)
(***************************************************************************)
EXTENDS Naturals, FiniteSets

CONSTANTS
  Key,         \* BLS public keys somebody holds
  Zero,        \* the all-zero key, which nobody can
  Did,         \* custodians and recovery agents
  Pointer,     \* DataLayer launcher ids, for slot 7
  Malformed,   \* a value parseState throws on: no list, a pair for an atom, ...
  Nil,         \* the empty atom
  Predecessor  \* a slot 6 that is not in the current layout

Trees == {{Zero}} \cup ((SUBSET Key) \ {{}})

(* Slot 4, or a pre-rotation: the key tree and how many signers it takes,  *)
(* never more than it has leaves.                                          *)
AuthConfig ==
  {a \in [root : Trees, need : Nat \ {0}] : a.need <= Cardinality(a.root)}

Auths == AuthConfig \cup {Nil, Malformed}
Custodians == {Malformed} \cup SUBSET Did
Delays == Nat \cup {Malformed}
Pointers == Pointer \cup {Nil, Malformed}

(* Slot 6 in the current layout: the pre-rotated configuration, the tree   *)
(* of agents (empty for no classes and for its sentinel), and the delay.   *)
RecoveryConfig == [pre : Auths, agents : SUBSET Did, delay : Delays]

Recoveries == RecoveryConfig \cup {Nil, Predecessor}
Triple == [auth : Auths, custodians : Custodians, recovery : Recoveries]

(* version is slot 1, width the number of slots, delay slot 3, pending     *)
(* slot 8 (Nil too in a seven-slot state of a predecessor).                *)
JuliaDidState ==
  [version : {"current", "predecessor"}, width : {7, 8}, delay : Delays,
   auth : Auths, custodians : Custodians, recovery : Recoveries,
   pointer : Pointers, pending : Triple \cup {Nil}]

(* What an operation may read from its solution, by the field it goes to.  *)
Solution ==
  [auth : Auths, custodians : Custodians, recovery : Recoveries, pointer : Pointers]

(* The constants stand for different atoms and shapes.                     *)
ASSUME DidStateAssumption ==
  /\ Zero \notin Key
  /\ Malformed \notin Pointer \cup AuthConfig \cup Nat \cup {Nil}
  /\ \A C \in SUBSET Did : C # Malformed
  /\ Nil \notin AuthConfig \cup RecoveryConfig \cup Triple \cup Solution
  /\ Predecessor \notin RecoveryConfig \cup {Nil}

-----------------------------------------------------------------------------
(* Slot 6 can be taken apart: path access raises on another shape.         *)
InLayout(r) == r \notin {Nil, Predecessor}

(* parseRecovery refuses no other layout, only a bad value in its own.     *)
RecoveryParses(r) == InLayout(r) => r.pre # Malformed /\ r.delay # Malformed

(* parseState.  A state that does not parse is never served.               *)
Parses(s) ==
  /\ s.width = 8
  /\ Malformed \notin {s.delay, s.auth, s.custodians, s.pointer}
  /\ RecoveryParses(s.recovery)

(* From here to Deactivated of a state that parses.                        *)
Disabled(auth) == auth.root = {Zero}

(* Mutant: only the empty encoding recognized.                             *)
DeadOnlyWhenEmpty(auth) == auth = Nil

AuthDead(auth) == auth = Nil \/ Disabled(auth)

PrerotationCommitted(r) == r.pre # Nil /\ ~Disabled(r.pre)

(* Mutant: an unrecognized layout taken for no recovery.                   *)
DeadWhenUnparsed(r) ==
  \/ r \in {Nil, Predecessor}
  \/ r.agents = {} /\ ~PrerotationCommitted(r)

(* An unrecognized layout is conservatively treated as live.               *)
RecoveryDead(r) ==
  \/ r = Nil
  \/ r # Predecessor /\ r.agents = {} /\ ~PrerotationCommitted(r)

Deactivated(s) ==
  AuthDead(s.auth) /\ s.custodians = {} /\ RecoveryDead(s.recovery)

RecoveryPending(s) == s.pending # Nil

-----------------------------------------------------------------------------
(* The transitions.  The rest of the new state comes from the old one.     *)
Rekey(s, sol) == [s EXCEPT !.width = 8, !.auth = sol.auth, !.pending = Nil]

DidDocSet(s, sol) == [s EXCEPT !.width = 8, !.pointer = sol.pointer, !.pending = Nil]

(* The delay comes from the current configuration, not from the solution.  *)
RecoveryInitiate(s, sol) ==
  [s EXCEPT !.width = 8, !.delay = s.recovery.delay,
            !.pending = [auth |-> sol.auth, custodians |-> sol.custodians,
                         recovery |-> sol.recovery]]

RecoveryCancel(s) == [s EXCEPT !.width = 8, !.delay = 0, !.pending = Nil]

(* Mutant: the parked triple is left in slot 8.                            *)
CompletesWithoutClearing(s) ==
  [s EXCEPT !.delay = 0, !.auth = s.pending.auth,
            !.custodians = s.pending.custodians, !.recovery = s.pending.recovery]

RecoveryComplete(s) ==
  [s EXCEPT !.delay = 0, !.pending = Nil, !.auth = s.pending.auth,
            !.custodians = s.pending.custodians, !.recovery = s.pending.recovery]

(* The committed configuration takes over and the solution commits the     *)
(* next; the agents and their delay stay.                                  *)
RecoveryPrerotation(s, sol) ==
  [s EXCEPT !.width = 8, !.delay = 0, !.pending = Nil, !.auth = s.recovery.pre,
            !.recovery.pre = sol.auth]

(* candidateStates: the unchanged state, then every transition applied to  *)
(* what the spend reveals, where its shape fits.  A solution without a     *)
(* (puzzle . solution) pair, Nil here, offers nothing more.                *)
Candidates(s, sol) ==
  {s} \cup
  (IF sol = Nil THEN {}
   ELSE {Rekey(s, sol), DidDocSet(s, sol), RecoveryCancel(s)}
          \cup (IF InLayout(s.recovery)
                  THEN {RecoveryInitiate(s, sol), RecoveryPrerotation(s, sol)} ELSE {})
          \cup (IF s.pending # Nil THEN {RecoveryComplete(s)} ELSE {}))

-----------------------------------------------------------------------------
(* A spend, as get_puzzle_and_solution reveals it: the state before it,    *)
(* the solution of its operation, and the 48-octet atoms in that solution, *)
(* its signers' keys and whatever else has this length.                    *)
Spend ==
  [prev : JuliaDidState, sol : Solution \cup {Nil}, keys : SUBSET (Key \cup {Zero})]

(* deriveVerifiedState: does some candidate hash to the unspent coin?      *)
Derives(spend, coin) == Parses(coin) /\ coin \in Candidates(spend.prev, spend.sol)

(* Mutant: keys of a spend that changed nothing at all.                    *)
KeysOfUnchanged(spend, s) == IF spend.prev = s THEN spend.keys ELSE {}

(* The 48-octet atoms of the last spend, if it left slot 4 as it was.      *)
RevealedKeys(spend, s) == IF spend.prev.auth = s.auth THEN spend.keys ELSE {}

KeyProvablyCurrent(s, k) == s.auth # Nil /\ s.auth.root = {k}

(* buildDocument, as far as it depends on how the state came about.        *)
Document(s, candidateKeys) ==
  IF Deactivated(s)
    THEN [deactivated |-> TRUE, keys |-> {}, pending |-> FALSE]
    ELSE [deactivated |-> FALSE,
          keys |-> {k \in candidateKeys : KeyProvablyCurrent(s, k)},
          pending |-> RecoveryPending(s)]
=============================================================================
