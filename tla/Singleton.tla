------------------------------ MODULE Singleton ------------------------------
(***************************************************************************)
(* The part of the Chia blockchain a did:julia resolver can see: one       *)
(* singleton, from its prelauncher coin to its unspent tip.  None of it is *)
(* code of this repository; it is what ts/src/chain.ts takes for granted   *)
(* of the node it asks.                                                    *)
(*                                                                         *)
(* A coin id hashes the parent's id together with the coin's own puzzle    *)
(* hash and amount (coinId in ts/src/chain.ts), so an id stands for the    *)
(* whole path from the prelauncher to the coin.  Here it IS that path: the *)
(* prelauncher is the empty sequence, the launcher is <<Launcher>>, and    *)
(* every later generation appends the eight-slot state its puzzle hash     *)
(* commits to.  The chain is the path to the tip, with the block each coin *)
(* was confirmed in.                                                       *)
(***************************************************************************)
EXTENDS Naturals, Sequences

(***************************************************************************)
(* "julia"    a DID created by the current prelauncher;                    *)
(* "legacy"   a DID whose parent-info does not re-derive the launcher id   *)
(*            because it predates that prelauncher;                        *)
(* "foreign"  some other singleton;                                        *)
(* "idle"     a launcher coin that was never spent;                        *)
(* "ordinary" a coin that is not a launcher.                               *)
(***************************************************************************)
Kinds == {"julia", "legacy", "foreign", "idle", "ordinary"}

CONSTANTS
  State,       \* eight-slot states, told apart by the hash that commits them
  Opaque,      \* the states whose parsing or puzzle version the resolver refuses
  Target,      \* what the 32 octets of a DID may name, see Kinds
  Launcher,    \* the puzzle hash in the launcher's place on the path
  MaxLength,   \* bound: coins on the path, the launcher included
  MaxReorgs,   \* bound: reorganizations
  Lag          \* coins by which a replica behind the endpoint may be late

ASSUME SingletonAssumption ==
  /\ Opaque \subseteq State
  /\ Target \subseteq Kinds
  /\ Launcher \notin State
  /\ MaxLength \in Nat /\ MaxReorgs \in Nat /\ Lag \in Nat

VARIABLES
  kind,        \* what the 32 octets of the DID name
  chain,       \* the coins after the prelauncher, oldest first
  reorgs       \* reorganizations so far

chainVars == <<kind, chain, reorgs>>

Singletons == {"julia", "legacy", "foreign"}

Link == [st : State \cup {Launcher}, blk : Nat]
Path == Seq(State \cup {Launcher})
CoinRecord == [id : Path, spent : BOOLEAN, at : Nat]

(* A coin is on a chain v when its path is a prefix of v's.                *)
OnChain(v, id) == Len(id) <= Len(v) /\ \A i \in 1..Len(id) : id[i] = v[i].st

(* The unspent coin of a chain.                                            *)
Tip(v) == [i \in 1..Len(v) |-> v[i].st]

(* What the node says of a coin: spent when a later coin follows it, with  *)
(* the block that later coin was confirmed in as its spent_block_index.    *)
RecordOf(v, id) ==
  [id |-> id,
   spent |-> Len(id) < Len(v),
   at |-> IF Len(id) < Len(v) THEN v[Len(id) + 1].blk ELSE 0]

(* The odd-amount child the spend of a coin created, if it was spent.      *)
ChildrenOf(v, id) ==
  IF OnChain(v, id) /\ Len(id) < Len(v)
    THEN {RecordOf(v, SubSeq(Tip(v), 1, Len(id) + 1))}
    ELSE {}

StateOf(id) == id[Len(id)]

(* The DID exists once its launcher is spent.                              *)
Established(v) == Len(v) > 1

(***************************************************************************)
(* The chains an answer may be computed from: the current one and, behind  *)
(* a gateway whose replicas are late, a prefix of it.  The launcher, the   *)
(* eve coin and its child are confirmed by one spend bundle (spec 7.1), so *)
(* no replica separates them.                                              *)
(***************************************************************************)
Views(v) ==
  {SubSeq(v, 1, n) :
     n \in {m \in 0..Len(v) : m + Lag >= Len(v) /\ (m \in {1, 2} => m = Len(v))}}

-----------------------------------------------------------------------------
LauncherLink(b) == [st |-> Launcher, blk |-> b]

(* A created singleton: launcher, eve coin and the coin the eve spend made *)
(* by re-emitting the initial state.                                       *)
Created(s, b) == <<LauncherLink(b), [st |-> s, blk |-> b], [st |-> s, blk |-> b]>>

ChainInit ==
  /\ kind \in Target
  /\ reorgs = 0
  /\ IF kind \in Singletons
       THEN chain \in {<< >>} \cup {Created(s, 0) : s \in State}
       ELSE chain = <<LauncherLink(0)>>

Create ==
  /\ kind \in Singletons
  /\ chain = << >>
  /\ \E s \in State : chain' = Created(s, reorgs)
  /\ UNCHANGED <<kind, reorgs>>

(* The DID is spent.  After a reorganization the same spend may be         *)
(* confirmed in the block it had before, or in another one.                *)
Grow ==
  /\ Established(chain)
  /\ Len(chain) < MaxLength
  /\ \E s \in State, b \in 0..reorgs : chain' = Append(chain, [st |-> s, blk |-> b])
  /\ UNCHANGED <<kind, reorgs>>

(* The last blocks are abandoned; the spends in them may be confirmed      *)
(* again, in other blocks, or be replaced by others.                       *)
Reorg ==
  /\ kind \in Singletons
  /\ reorgs < MaxReorgs
  /\ \E n \in {0} \cup 3..(Len(chain) - 1) :
       /\ n < Len(chain)
       /\ chain' = SubSeq(chain, 1, n)
  /\ reorgs' = reorgs + 1
  /\ UNCHANGED kind

ChainNext == Create \/ Grow \/ Reorg

ChainTypeOK ==
  /\ kind \in Kinds
  /\ chain \in Seq(Link)
  /\ reorgs \in Nat
  /\ chain # << >> => chain[1].st = Launcher
=============================================================================
