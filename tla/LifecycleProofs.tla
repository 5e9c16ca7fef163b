---------------------------- MODULE LifecycleProofs ----------------------------
(* Proofs about DidLifecycle: the inductive invariant, and from it what    *)
(* the resolver's deactivation verdict and key list mean for every set of  *)
(* keys, custodians and configurations, and any number of spends.          *)
EXTENDS DidLifecycle, FiniteSetTheorems, TLAPS

(* A configuration that is not dead can be satisfied by all its keys.      *)
LEMMA LiveQuorum ==
  ASSUME NEW auth \in Auths, auth # Malformed
  PROVE  Quorums(auth) = {} <=> AuthDead(auth)
<1>1. CASE AuthDead(auth)
  BY <1>1 DEF Quorums
<1>2. CASE ~AuthDead(auth)
  <2>1. auth \in AuthConfig
    BY <1>2 DEF AuthDead, Auths
  <2>2. auth.root \in SUBSET Key /\ auth.need <= Cardinality(auth.root)
    BY <1>2, <2>1 DEF AuthDead, Disabled, AuthConfig, Trees
  <2>3. Leaves(auth) = auth.root
    BY <1>2, <2>2, DidStateAssumption DEF Leaves, AuthDead
  <2>4. Leaves(auth) \in Quorums(auth)
    BY <1>2, <2>2, <2>3 DEF Quorums
  <2> QED BY <1>2, <2>4
<1> QED BY <1>1, <1>2

(* One key that can sign alone.                                            *)
LEMMA SingleKeyLeaves ==
  ASSUME NEW k \in Key
  PROVE  SingleKey(k) \in AuthConfig /\ SingleKey(k) \notin {Nil, Malformed}
         /\ Leaves(SingleKey(k)) = {k}
<1>1. Cardinality({k}) = 1 /\ {k} \in Trees
  BY FS_Singleton DEF Trees
<1>2. SingleKey(k) \in AuthConfig /\ SingleKey(k).root = {k}
  BY <1>1 DEF SingleKey, AuthConfig
<1>3. SingleKey(k) \notin {Nil, Malformed} /\ k # Zero
  BY <1>2, DidStateAssumption
<1> QED BY <1>2, <1>3 DEF Leaves

(* Signers hold keys, so they are somebody.                                *)
LEMMA QuorumKeys ==
  ASSUME NEW auth \in Auths, NEW S \in Quorums(auth)
  PROVE  S \subseteq Key /\ S # {} /\ auth \in AuthConfig /\ S \subseteq auth.root
<1>1. auth # Malformed /\ ~AuthDead(auth) /\ S \subseteq Leaves(auth) /\ Cardinality(S) >= auth.need
  BY DEF Quorums
<1>2. auth \in AuthConfig
  BY <1>1 DEF AuthDead, Auths
<1>3. auth.root \in SUBSET Key /\ auth.need \in Nat \ {0}
  BY <1>1, <1>2 DEF AuthDead, Disabled, AuthConfig, Trees
<1>4. S \subseteq auth.root
  BY <1>1 DEF Leaves, AuthDead
<1>5. S # {}
  BY <1>1, <1>3, FS_EmptySet
<1> QED BY <1>2, <1>3, <1>4, <1>5

(* What the resolver calls deactivated is what nobody can spend.           *)
LEMMA DeadMeansUncontrolled ==
  ASSUME LifecycleInv, Parses(coin)
  PROVE  Deactivated(coin) <=> ~Controlled
<1>1. /\ coin.auth \in Auths /\ coin.recovery \in Recoveries /\ coin.auth # Malformed
      /\ InLayout(coin.recovery) => coin.recovery.pre # Malformed
  BY DEF LifecycleInv, LifecycleTypeOK, JuliaDidState, Parses, RecoveryParses
<1>2. AuthDead(coin.auth) <=> Quorums(coin.auth) = {}
  BY <1>1, LiveQuorum
<1>3. RecoveryDead(coin.recovery) <=>
        coin.recovery # Predecessor /\ ~AgentsLive /\ ~PrerotationLive
  BY <1>1, DidStateAssumption DEF RecoveryDead, AgentsLive, PrerotationLive, InLayout
<1>4. coin.pending # Nil => AgentsLive
  BY DEF LifecycleInv
<1> QED BY <1>2, <1>3, <1>4 DEF Deactivated, Controlled
-----------------------------------------------------------------------------
(* The transitions lead from states to states.                             *)
LEMMA TransitionsTyped ==
  ASSUME NEW s \in JuliaDidState, NEW sol \in Solution
  PROVE  /\ Rekey(s, sol) \in JuliaDidState
         /\ DidDocSet(s, sol) \in JuliaDidState
         /\ RecoveryCancel(s) \in JuliaDidState
         /\ InLayout(s.recovery) => RecoveryInitiate(s, sol) \in JuliaDidState
         /\ InLayout(s.recovery) => RecoveryPrerotation(s, sol) \in JuliaDidState
         /\ s.pending # Nil => RecoveryComplete(s) \in JuliaDidState
<1>1. Rekey(s, sol) \in JuliaDidState
  BY DEF Rekey, JuliaDidState, Solution
<1>2. DidDocSet(s, sol) \in JuliaDidState
  BY DEF DidDocSet, JuliaDidState, Solution
<1>3. RecoveryCancel(s) \in JuliaDidState
  BY DEF RecoveryCancel, JuliaDidState, Delays
<1>4. ASSUME InLayout(s.recovery)
      PROVE  RecoveryInitiate(s, sol) \in JuliaDidState
  <2>1. s.recovery.delay \in Delays
    BY <1>4 DEF InLayout, JuliaDidState, Recoveries, RecoveryConfig
  <2>2. [auth |-> sol.auth, custodians |-> sol.custodians, recovery |-> sol.recovery] \in Triple
    BY DEF Solution, Triple
  <2> QED BY <2>1, <2>2 DEF RecoveryInitiate, JuliaDidState
<1>5. ASSUME InLayout(s.recovery)
      PROVE  RecoveryPrerotation(s, sol) \in JuliaDidState
  <2>1. s.recovery \in RecoveryConfig
    BY <1>5 DEF InLayout, JuliaDidState, Recoveries
  <2>2. s.recovery.pre \in Auths /\ sol.auth \in Auths
    BY <2>1 DEF RecoveryConfig, Solution
  <2>3. [s.recovery EXCEPT !.pre = sol.auth] \in Recoveries
    BY <2>1, <2>2 DEF RecoveryConfig, Recoveries
  <2> QED BY <2>2, <2>3 DEF RecoveryPrerotation, JuliaDidState, Delays
<1>6. ASSUME s.pending # Nil
      PROVE  RecoveryComplete(s) \in JuliaDidState
  <2>1. s.pending \in Triple
    BY <1>6 DEF JuliaDidState
  <2>2. s.pending.auth \in Auths /\ s.pending.custodians \in Custodians
          /\ s.pending.recovery \in Recoveries
    BY <2>1 DEF Triple
  <2> QED BY <2>2 DEF RecoveryComplete, JuliaDidState, Delays
<1> QED BY <1>1, <1>2, <1>3, <1>4, <1>5, <1>6

(* The agents of a state are live.                                         *)
Armable(s) == InLayout(s.recovery) /\ s.recovery.agents # {}

(* One spend keeps the invariant, whoever makes it.                        *)
LEMMA SpendKeepsInv ==
  ASSUME LifecycleInv,
         NEW new \in JuliaDidState, NEW sol \in Solution, NEW S \in SUBSET Key, NEW by,
         Confirm(new, sol, S, by),
         S # {} => by \in AuthConfig /\ S \subseteq by.root,
         new.version = coin.version,
         Current => new.width = 8,
         new.pending # Nil => Current /\ Armable(new)
  PROVE  LifecycleInv'
<1>0. PICK more \in SUBSET Extra : spend' = [prev |-> coin, sol |-> sol, keys |-> S \cup more]
  BY DEF Confirm
<1>1. /\ coin' = new /\ genesis' = genesis /\ bound' = bound
      /\ signed' = (IF new.auth = coin.auth THEN signed ELSE {})
                     \cup (IF by = new.auth THEN S ELSE {})
      /\ delegated' = (delegated \/ S = {} \/ by # coin.auth)
      /\ spends' = spends + 1
  BY DEF Confirm
<1>2. LifecycleTypeOK
  BY DEF LifecycleInv
<1>3. coin.version \in {"current", "predecessor"} /\ new.version \in {"current", "predecessor"}
  BY <1>2 DEF LifecycleTypeOK, JuliaDidState
<1>4. LifecycleTypeOK'
  <2>1. spend' \in Spend
    <3>1. S \cup more \in SUBSET (Key \cup {Zero})
      BY DidLifecycleAssumption
    <3> QED BY <1>0, <1>2, <3>1 DEF LifecycleTypeOK, Spend
  <2>2. signed' \subseteq Key
    BY <1>1, <1>2 DEF LifecycleTypeOK
  <2>3. delegated' \in BOOLEAN
    BY <1>1, <1>2 DEF LifecycleTypeOK
  <2> QED BY <1>1, <1>2, <2>1, <2>2, <2>3 DEF LifecycleTypeOK
<1>5. (coin.version = "predecessor" \/ coin.width = 8)'
  BY <1>1, <1>3 DEF Current
<1>6. (coin.version = "current" => bound)'
  BY <1>1 DEF LifecycleInv
<1>7. (coin.pending # Nil => Current /\ AgentsLive)'
  BY <1>1 DEF AgentsLive, Armable, Current
<1>9. (signed \subseteq Leaves(coin.auth))'
  <2>1. S # {} /\ by = new.auth => S \subseteq Leaves(new.auth)
    BY DidStateAssumption DEF Leaves
  <2> QED BY <1>1, <2>1 DEF LifecycleInv
<1>10. (SingleKeyDid /\ ~delegated => signed = RevealedKeys(spend, coin) \cap Leaves(coin.auth))'
  <2>1. SUFFICES ASSUME NEW k \in Key, new.auth = SingleKey(k), ~delegated'
                 PROVE  signed' = RevealedKeys(spend', new) \cap Leaves(new.auth)
    BY <1>1 DEF SingleKeyDid
  <2>2. by = coin.auth /\ S # {}
    BY <1>1, <2>1
  <2>3. RevealedKeys(spend', new) = IF coin.auth = new.auth THEN S \cup more ELSE {}
    BY <1>0 DEF RevealedKeys
  <2>4. CASE new.auth = coin.auth
    <3>1. Leaves(coin.auth) = {k} /\ S = {k}
      <4>1. Leaves(new.auth) = {k} BY <2>1, SingleKeyLeaves
      <4>2. S \subseteq {k} BY <2>1, <2>2, <2>4 DEF SingleKey
      <4> QED BY <2>2, <2>4, <4>1, <4>2
    <3>2. signed \subseteq {k}
      BY <3>1 DEF LifecycleInv
    <3> QED BY <1>1, <2>2, <2>3, <2>4, <3>1, <3>2
  <2>5. CASE new.auth # coin.auth
    BY <1>1, <2>2, <2>3, <2>5
  <2> QED BY <2>4, <2>5
<1> QED BY <1>4, <1>5, <1>6, <1>7, <1>9, <1>10 DEF LifecycleInv

(* What a new state must be for the spend into it to keep the invariant.   *)
Proper(new, sol) ==
  /\ new \in JuliaDidState /\ sol \in Solution
  /\ new.version = coin.version
  /\ Current => new.width = 8
  /\ new.pending # Nil => Current /\ Armable(new)

LEMMA OwnerKeepsInv ==
  ASSUME LifecycleInv, NEW new, NEW sol, Proper(new, sol), OwnerConfirms(new, sol)
  PROVE  LifecycleInv'
<1>1. PICK S \in Quorums(coin.auth) : Confirm(new, sol, S, coin.auth)
  BY DEF OwnerConfirms
<1>2. coin.auth \in Auths
  BY DEF LifecycleInv, LifecycleTypeOK, JuliaDidState
<1>3. S \subseteq Key /\ coin.auth \in AuthConfig /\ S \subseteq coin.auth.root
  BY <1>2, QuorumKeys
<1> QED BY <1>1, <1>3, SpendKeepsInv DEF Proper

LEMMA OthersKeepInv ==
  ASSUME LifecycleInv, NEW new, NEW sol, Proper(new, sol), OthersConfirm(new, sol)
  PROVE  LifecycleInv'
BY SpendKeepsInv DEF Proper, OthersConfirm

(* The initial states satisfy the invariant.                               *)
LEMMA InitInv == Init => LifecycleInv
<1>1. SUFFICES ASSUME NEW v \in {"current", "predecessor"}, NEW w \in {7, 8},
                      NEW k \in Key, NEW r \in Setup,
                      v = "current" => w = 8,
                      bound \in {b \in BOOLEAN : v = "current" => b},
                      genesis = k,
                      coin = [version |-> v, width |-> w, delay |-> 0, auth |-> SingleKey(k),
                              custodians |-> {}, recovery |-> r, pointer |-> Nil,
                              pending |-> Nil],
                      spend = [prev |-> coin, sol |-> Nil, keys |-> {}],
                      signed = {}, delegated = FALSE, spends = 0
               PROVE  LifecycleInv
  BY DEF Init
<1>2. SingleKey(k) \in Auths
  BY SingleKeyLeaves DEF Auths
<1>3. r \in Recoveries
  BY DidLifecycleAssumption
<1>4. coin \in JuliaDidState
  BY <1>1, <1>2, <1>3 DEF JuliaDidState, Delays, Custodians, Pointers
<1>5. spend \in Spend
  BY <1>1, <1>4 DEF Spend
<1>6. LifecycleTypeOK
  BY <1>1, <1>4, <1>5 DEF LifecycleTypeOK
<1>7. signed = RevealedKeys(spend, coin) \cap Leaves(coin.auth)
  BY <1>1 DEF RevealedKeys
<1> QED BY <1>1, <1>6, <1>7 DEF LifecycleInv

(* Every step keeps it.                                                    *)
LEMMA StepInv == LifecycleInv /\ [Next]_vars => LifecycleInv'
<1> SUFFICES ASSUME LifecycleInv, [Next]_vars PROVE LifecycleInv'
  OBVIOUS
<1>1. coin \in JuliaDidState /\ coin.auth \in Auths /\ coin.recovery \in Recoveries
        /\ coin.version \in {"current", "predecessor"}
        /\ (Current => coin.width = 8)
        /\ (coin.pending # Nil => Current /\ Armable(coin))
  BY DEF LifecycleInv, LifecycleTypeOK, JuliaDidState, Current, Armable, AgentsLive
<1>2. NoValues \in Solution
  BY DEF NoValues, Solution, Auths, Custodians, Recoveries, Pointers
<1>4. \A a \in Config : a \in Auths
  BY DidLifecycleAssumption
<1>5. \A t \in Install : t.auth \in Auths /\ t.custodians \in Custodians /\ t.recovery \in Recoveries
  BY DidLifecycleAssumption DEF Triple
<1>6. CASE PassThrough
  <2>1. Proper(coin, NoValues)
    BY <1>1, <1>2 DEF Proper
  <2> QED BY <1>6, <2>1, OwnerKeepsInv, OthersKeepInv DEF PassThrough, CustodianConfirms
<1>7. CASE OwnerRekeys
  <2>1. PICK a \in Config :
          OwnerConfirms(Rekey(coin, [NoValues EXCEPT !.auth = a]), [NoValues EXCEPT !.auth = a])
    BY <1>7 DEF OwnerRekeys
  <2> DEFINE sol == [NoValues EXCEPT !.auth = a]
  <2>2. sol \in Solution
    BY <1>2, <1>4 DEF Solution
  <2>3. Rekey(coin, sol) \in JuliaDidState
    BY <1>1, <2>2, TransitionsTyped
  <2>5. Rekey(coin, sol).version = coin.version /\ Rekey(coin, sol).width = 8
          /\ Rekey(coin, sol).pending = Nil
    BY <1>1 DEF Rekey, JuliaDidState
  <2>6. Proper(Rekey(coin, sol), sol)
    BY <2>2, <2>3, <2>5 DEF Proper
  <2> QED BY <2>1, <2>6, OwnerKeepsInv
<1>8. CASE PointerSet
  <2>1. PICK p \in Pointers :
          LET sol == [NoValues EXCEPT !.pointer = p] IN
            \/ OwnerConfirms(DidDocSet(coin, sol), sol)
            \/ OthersConfirm(DidDocSet(coin, sol), sol)
    BY <1>8 DEF PointerSet, CustodianConfirms
  <2> DEFINE sol == [NoValues EXCEPT !.pointer = p]
  <2>2. sol \in Solution
    BY <1>2 DEF Solution
  <2>3. DidDocSet(coin, sol) \in JuliaDidState
    BY <1>1, <2>2, TransitionsTyped
  <2>5. DidDocSet(coin, sol).version = coin.version /\ DidDocSet(coin, sol).width = 8
          /\ DidDocSet(coin, sol).pending = Nil
    BY <1>1 DEF DidDocSet, JuliaDidState
  <2>6. Proper(DidDocSet(coin, sol), sol)
    BY <2>2, <2>3, <2>5 DEF Proper
  <2> QED BY <2>1, <2>6, OwnerKeepsInv, OthersKeepInv
<1>9. CASE AgentsInitiate
  <2>1. PICK t \in Install :
          LET sol == [NoValues EXCEPT !.auth = t.auth, !.custodians = t.custodians,
                                      !.recovery = t.recovery]
          IN  OthersConfirm(RecoveryInitiate(coin, sol), sol)
    BY <1>9 DEF AgentsInitiate
  <2> DEFINE sol == [NoValues EXCEPT !.auth = t.auth, !.custodians = t.custodians,
                                     !.recovery = t.recovery]
             new == RecoveryInitiate(coin, sol)
  <2>2. sol \in Solution
    BY <1>2, <1>4, <1>5 DEF Solution
  <2>3. Current /\ InLayout(coin.recovery) /\ coin.recovery.agents # {}
    BY <1>9 DEF AgentsInitiate, AgentsLive
  <2>4. new \in JuliaDidState
    BY <1>1, <2>2, <2>3, TransitionsTyped
  <2>6. new.version = coin.version /\ new.width = 8 /\ new.recovery = coin.recovery
    BY <1>1 DEF RecoveryInitiate, JuliaDidState
  <2>7. Proper(new, sol)
    BY <2>2, <2>3, <2>4, <2>6 DEF Proper, Armable
  <2> QED BY <2>1, <2>7, OthersKeepInv
<1>10. CASE AgentsCancel
  <2>1. RecoveryCancel(coin) \in JuliaDidState
    BY <1>1, <1>2, TransitionsTyped
  <2>3. RecoveryCancel(coin).version = coin.version /\ RecoveryCancel(coin).width = 8
          /\ RecoveryCancel(coin).pending = Nil
    BY <1>1 DEF RecoveryCancel, JuliaDidState
  <2>4. Proper(RecoveryCancel(coin), NoValues)
    BY <1>2, <2>1, <2>3 DEF Proper
  <2> QED BY <1>10, <2>4, OthersKeepInv DEF AgentsCancel
<1>11. CASE AnyoneCompletes
  <2>1. coin.pending # Nil /\ coin.width = 8
    BY <1>1, <1>11 DEF AnyoneCompletes
  <2>2. RecoveryComplete(coin) \in JuliaDidState
    BY <1>1, <1>2, <2>1, TransitionsTyped
  <2>4. RecoveryComplete(coin).version = coin.version /\ RecoveryComplete(coin).width = 8
          /\ RecoveryComplete(coin).pending = Nil
    BY <1>1, <2>1 DEF RecoveryComplete, JuliaDidState
  <2>5. Proper(RecoveryComplete(coin), NoValues)
    BY <1>2, <2>2, <2>4 DEF Proper
  <2> QED BY <1>11, <2>5, OthersKeepInv DEF AnyoneCompletes
<1>12. CASE PrerotatedKeysTakeOver
  <2>1. PICK S \in Quorums(coin.recovery.pre), a \in Config :
          LET sol == [NoValues EXCEPT !.auth = a]
          IN  Confirm(RecoveryPrerotation(coin, sol), sol, S, coin.recovery.pre)
    BY <1>12 DEF PrerotatedKeysTakeOver
  <2> DEFINE sol == [NoValues EXCEPT !.auth = a]
             new == RecoveryPrerotation(coin, sol)
  <2>2. sol \in Solution
    BY <1>2, <1>4 DEF Solution
  <2>3. InLayout(coin.recovery)
    BY <1>12 DEF PrerotatedKeysTakeOver, PrerotationLive
  <2>4. coin.recovery.pre \in Auths
    BY <1>1, <2>3 DEF InLayout, Recoveries, RecoveryConfig
  <2>5. S \subseteq Key /\ coin.recovery.pre \in AuthConfig /\ S \subseteq coin.recovery.pre.root
    BY <2>4, QuorumKeys
  <2>6. new \in JuliaDidState
    BY <1>1, <2>2, <2>3, TransitionsTyped
  <2>8. new.version = coin.version /\ new.width = 8 /\ new.pending = Nil
    BY <1>1 DEF RecoveryPrerotation, JuliaDidState
  <2> HIDE DEF new, sol
  <2> QED BY <2>1, <2>2, <2>5, <2>6, <2>8, SpendKeepsInv DEF new, sol
<1>13. CASE PredecessorRewrites
  <2>1. PICK t \in Install :
          OthersConfirm([coin EXCEPT !.auth = t.auth, !.custodians = t.custodians,
                                     !.recovery = t.recovery], NoValues)
    BY <1>13 DEF PredecessorRewrites
  <2> DEFINE new == [coin EXCEPT !.auth = t.auth, !.custodians = t.custodians,
                                 !.recovery = t.recovery]
  <2>2. new \in JuliaDidState
    BY <1>1, <1>4, <1>5 DEF JuliaDidState
  <2>3. new.version = coin.version /\ new.pending = coin.pending
    BY <1>1 DEF JuliaDidState
  <2>4. ~Current
    BY <1>13 DEF PredecessorRewrites
  <2>5. Proper(new, NoValues)
    BY <1>1, <1>2, <2>2, <2>3, <2>4 DEF Proper
  <2> QED BY <2>1, <2>5, OthersKeepInv
<1>14. CASE UNCHANGED vars
  BY <1>14 DEF vars, LifecycleInv, LifecycleTypeOK, Current, AgentsLive, SingleKeyDid
<1> QED BY <1>6, <1>7, <1>8, <1>9, <1>10, <1>11, <1>12, <1>13, <1>14 DEF Next

-----------------------------------------------------------------------------
(* LifecycleInv holds of every life of a DID.                              *)
THEOREM LifecycleInvariance == Spec => []LifecycleInv
<1>1. Init => LifecycleInv
  BY InitInv
<1>2. LifecycleInv /\ [Next]_vars => LifecycleInv'
  BY StepInv
<1> QED BY <1>1, <1>2, PTL DEF Spec

(* Bricking is permanent (spec 7.4): no step is possible in a state that   *)
(* buildDocument reports as deactivated, so a resolver that has once said  *)
(* so is right for good.                                                   *)
THEOREM Permanence == Spec => DeactivatedIsForever
<1>1. LifecycleInv /\ [Next]_vars => (Serves /\ DidDocument.deactivated => UNCHANGED <<coin, spend>>)
  <2> SUFFICES ASSUME LifecycleInv, [Next]_vars, Serves, DidDocument.deactivated
               PROVE  UNCHANGED <<coin, spend>>
    OBVIOUS
  <2>1. Deactivated(coin)
    BY DEF DidDocument, Document
  <2>2. ~Controlled
    BY <2>1, DeadMeansUncontrolled DEF Serves, Derives
  <2>3. ~PassThrough /\ ~OwnerRekeys /\ ~PointerSet
    BY <2>2 DEF PassThrough, OwnerRekeys, PointerSet, OwnerConfirms, CustodianConfirms, Controlled
  <2>4. ~AgentsInitiate /\ ~AgentsCancel /\ ~AnyoneCompletes
    BY <2>2 DEF AgentsInitiate, AgentsCancel, AnyoneCompletes, Controlled
  <2>5. ~PrerotatedKeysTakeOver /\ ~PredecessorRewrites
    BY <2>2 DEF PrerotatedKeysTakeOver, PredecessorRewrites, Controlled
  <2>6. UNCHANGED vars
    BY <2>3, <2>4, <2>5 DEF Next
  <2> QED BY <2>6 DEF vars
<1>2. LifecycleInv /\ [Next]_vars => [Serves /\ DidDocument.deactivated => UNCHANGED <<coin, spend>>]_vars
  BY <1>1
<1> QED BY <1>2, LifecycleInvariance, PTL DEF Spec, DeactivatedIsForever

(* The converse: a DID that nobody can spend any more is reported so.      *)
THEOREM Bricking == Spec => []BrickedIsReported
<1>1. LifecycleInv => BrickedIsReported
  BY DeadMeansUncontrolled DEF BrickedIsReported, Serves, Derives, DidDocument, Document
<1> QED BY <1>1, LifecycleInvariance, PTL

(* The owner's own spends keep the key list exact.                         *)
THEOREM Enumeration == Spec => []OwnerKeysAreListed
<1>1. LifecycleInv => OwnerKeysAreListed
  <2> SUFFICES ASSUME LifecycleInv, NEW k \in Key, coin.auth = SingleKey(k), ~delegated
               PROVE  DidDocument.keys = Proven
    BY DEF OwnerKeysAreListed, SingleKeyDid
  <2>1. signed = RevealedKeys(spend, coin) \cap Leaves(coin.auth)
    BY DEF LifecycleInv, SingleKeyDid
  <2>2. coin.auth # Nil /\ coin.auth.root = {k}
    BY SingleKeyLeaves DEF SingleKey
  <2>3. k # Zero
    BY DidStateAssumption
  <2>4. ~Deactivated(coin)
    BY <2>2, <2>3 DEF Deactivated, AuthDead, Disabled
  <2>5. DidDocument.keys = CandidateKeys \cap {k}
    BY <2>2, <2>4 DEF DidDocument, Document, KeyProvablyCurrent
  <2>6. Leaves(coin.auth) = {k}
    BY SingleKeyLeaves
  <2> QED BY <2>1, <2>5, <2>6 DEF Proven, CandidateKeys
<1> QED BY <1>1, LifecycleInvariance, PTL
=============================================================================
