--------------------------- MODULE CandidateSearch ---------------------------
(***************************************************************************)
(* The search for the state transition behind a spend: candidateStates of  *)
(* ts/src/transitions.ts as deriveVerifiedState of ts/src/state.ts consumes*)
(* it, one popped node or one offered candidate per step.  DidState takes  *)
(* this search for complete; here are its three bounds.                    *)
(*                                                                         *)
(* A solution is a binary tree, and the tree is the set of the positions   *)
(* of its pairs: a position is the path of cars and cdrs that leads to it, *)
(* and a node that is not in the set is an atom.                           *)
(***************************************************************************)
EXTENDS Naturals, Sequences, FiniteSets

CONSTANTS
  Solutions,      \* the operation solutions a spend may carry
  MaxRecognized,  \* bound: pairs of a solution the pinned table names
  MaxVisited,     \* MAX_DEPTH * 8, nodes the scan for known puzzles pops
  MaxCandidates   \* MAX_CANDIDATES, candidates offered, and pairs collected

Dir == {"car", "cdr"}
Position == Seq(Dir)

(* Is q at s or below it?                                                  *)
Under(s, q) == Len(s) <= Len(q) /\ \A i \in 1..Len(s) : s[i] = q[i]

Tree ==
  {t \in SUBSET Position : \A p \in t : \A n \in 0..Len(p) : SubSeq(p, 1, n) \in t}

ASSUME SearchAssumption ==
  /\ Solutions \subseteq Tree
  /\ \A t \in Solutions : IsFiniteSet(t)
  /\ MaxRecognized \in Nat
  /\ MaxVisited \in Nat
  /\ MaxCandidates \in Nat \ {0}

(* The operations, in the order they are tried, and how many elements of   *)
(* the solution each of them reads.                                        *)
OpOrder == <<"rekey", "DIDdoc_set", "recovery_initiate", "recovery_cancel",
             "recovery_complete", "recovery_prerotation">>
Op == {OpOrder[i] : i \in 1..6}
Needs == [rekey |-> 1, DIDdoc_set |-> 1, recovery_initiate |-> 5,
          recovery_cancel |-> 0, recovery_complete |-> 0, recovery_prerotation |-> 3]

VARIABLES
  tree,        \* the operation solution of the spend
  shaped,      \* the operations the pre-spend state has the shape for
  recognized,  \* what the puzzle-hash table makes of the cars it knows
  want,        \* the candidate that hashes to the unspent coin
  at,          \* the pair whose operation made it
  phase,       \* "identity", "scan", "identified", "collect", "exhaustive", "done"
  stack,       \* nodes still to be visited, the next one first
  visited,     \* nodes the scan has popped
  pairs,       \* pairs collected, in order
  todo,        \* transitions still to be offered, with their pair
  seen,        \* candidates offered, the identity aside
  produced,    \* candidates counted
  outcome      \* "searching", "derived" or "unverifiable"

spendVars == <<tree, shaped, recognized, want, at>>
vars == <<spendVars, phase, stack, visited, pairs, todo, seen, produced, outcome>>

Identity == <<"identity", << >>>>
Unknown == <<"unknown", << >>>>

(* A transition gets the cdr of its pair, and raises where a path runs off *)
(* the end of the solution or of the state.                                *)
Reads(p, n) == \A k \in 1..n : p \o [i \in 1..k |-> "cdr"] \in tree

Fits(o, p) == o \in shaped /\ Reads(p, Needs[o])

(* The candidate a transition makes: the two that read no solution make    *)
(* the same one of every pair.                                             *)
Made(o, p) == <<o, IF Needs[o] = 0 THEN << >> ELSE p>>

-----------------------------------------------------------------------------
(* Mutants: the car of a pair never looked into; an atom left on the stack.*)
FollowsTheSpine(s) ==
  IF Head(s) \in tree THEN <<Append(Head(s), "cdr")>> \o Tail(s) ELSE Tail(s)

KeepsAtoms(s) ==
  IF Head(s) \in tree
    THEN <<Append(Head(s), "car"), Append(Head(s), "cdr")>> \o Tail(s)
    ELSE s

(* Pop a node; the children of a pair are pushed, the car to be next.      *)
Popped(s) ==
  IF Head(s) \in tree
    THEN <<Append(Head(s), "car"), Append(Head(s), "cdr")>> \o Tail(s)
    ELSE Tail(s)

(* The identity candidate comes first.                                     *)
OfferIdentity ==
  /\ phase = "identity"
  /\ IF want = Identity
       THEN phase' = "done" /\ outcome' = "derived"
       ELSE phase' = "scan" /\ UNCHANGED outcome
  /\ UNCHANGED <<spendVars, stack, visited, pairs, todo, seen, produced>>

(* revealedPuzzles: the pairs whose car is a known puzzle.                 *)
Scan ==
  /\ phase = "scan" /\ stack # << >> /\ visited < MaxVisited
  /\ visited' = visited + 1
  /\ stack' = Popped(stack)
  /\ todo' = IF Head(stack) \in DOMAIN recognized
               THEN Append(todo, <<recognized[Head(stack)], Head(stack)>>) ELSE todo
  /\ UNCHANGED <<spendVars, phase, pairs, seen, produced, outcome>>

ScanEnds ==
  /\ phase = "scan" /\ (stack = << >> \/ visited >= MaxVisited)
  /\ phase' = "identified"
  /\ UNCHANGED <<spendVars, stack, visited, pairs, todo, seen, produced, outcome>>

(* Mutants: the count off by one; a candidate for each operation only.     *)
CountsOneMore(o, p) == produced > MaxCandidates \/ ~Fits(o, p) \/ Made(o, p) \in seen

OnePerOperation(o, p) ==
  \/ produced >= MaxCandidates
  \/ ~Fits(o, p)
  \/ \E q \in tree : Made(o, q) \in seen

(* Nothing is offered past the bound, nor where the shape does not fit,    *)
(* nor twice.                                                              *)
Passes(o, p) == produced >= MaxCandidates \/ ~Fits(o, p) \/ Made(o, p) \in seen

(* The next candidate is made and hashed; the one that matches ends it.    *)
Offer ==
  /\ phase \in {"identified", "exhaustive"} /\ todo # << >>
  /\ todo' = Tail(todo)
  /\ LET o == Head(todo)[1]  p == Head(todo)[2] IN
     IF Passes(o, p)
       THEN UNCHANGED <<seen, produced, phase, outcome>>
       ELSE /\ seen' = seen \cup {Made(o, p)}
            /\ produced' = produced + 1
            /\ IF Made(o, p) = want
                 THEN phase' = "done" /\ outcome' = "derived"
                 ELSE UNCHANGED <<phase, outcome>>
  /\ UNCHANGED <<spendVars, stack, visited, pairs>>

IdentifiedEnds ==
  /\ phase = "identified" /\ todo = << >>
  /\ phase' = "collect"
  /\ stack' = << << >> >>
  /\ UNCHANGED <<spendVars, visited, pairs, todo, seen, produced, outcome>>

(* allPairs: the search space of the exhaustive backstop.                  *)
Collect ==
  /\ phase = "collect" /\ stack # << >> /\ Len(pairs) < MaxCandidates
  /\ stack' = Popped(stack)
  /\ pairs' = IF Head(stack) \in tree THEN Append(pairs, Head(stack)) ELSE pairs
  /\ UNCHANGED <<spendVars, phase, visited, todo, seen, produced, outcome>>

(* Every transition with every pair.                                       *)
CollectEnds ==
  /\ phase = "collect" /\ (stack = << >> \/ Len(pairs) >= MaxCandidates)
  /\ phase' = "exhaustive"
  /\ todo' = [j \in 1..(6 * Len(pairs)) |->
                <<OpOrder[((j - 1) % 6) + 1], pairs[((j - 1) \div 6) + 1]>>]
  /\ UNCHANGED <<spendVars, stack, visited, pairs, seen, produced, outcome>>

(* No candidate is left: UnverifiableStateError.                           *)
GiveUp ==
  /\ phase = "exhaustive" /\ todo = << >>
  /\ phase' = "done" /\ outcome' = "unverifiable"
  /\ UNCHANGED <<spendVars, stack, visited, pairs, todo, seen, produced>>

-----------------------------------------------------------------------------
(* An eight-slot state has the shape for the operations that rearrange its *)
(* own slots, and for the others when slot 6 or slot 8 can be taken apart. *)
Shapes ==
  {{"rekey", "DIDdoc_set", "recovery_cancel"} \cup a \cup b :
     a \in {{}, {"recovery_initiate", "recovery_prerotation"}},
     b \in {{}, {"recovery_complete"}}}

(* Any pairs may happen to reveal known puzzles; a table that is stale     *)
(* knows fewer.                                                            *)
Recognitions(t) ==
  UNION {[P -> Op] : P \in {Q \in SUBSET t : Cardinality(Q) <= MaxRecognized}}

Init ==
  /\ tree \in Solutions
  /\ shaped \in Shapes
  /\ recognized \in Recognitions(tree)
  /\ \/ want \in {Identity, Unknown} /\ at = << >>
     \/ \E o \in Op, p \in tree : Fits(o, p) /\ want = Made(o, p) /\ at = p
  /\ phase = "identity"
  /\ stack = << << >> >>
  /\ visited = 0
  /\ pairs = << >>
  /\ todo = << >>
  /\ seen = {}
  /\ produced = 1
  /\ outcome = "searching"

Next ==
  \/ OfferIdentity \/ Scan \/ ScanEnds \/ Offer
  \/ IdentifiedEnds \/ Collect \/ CollectEnds \/ GiveUp

(* The search is synchronous code: it runs.                                *)
Spec == Init /\ [][Next]_vars
FairSpec == Spec /\ WF_vars(Next)

-----------------------------------------------------------------------------
(* The nodes of the solution, and those a stack still leads to.            *)
Nodes == {<< >>} \cup {Append(p, d) : p \in tree, d \in Dir}
Below(s, N) == {q \in N : \E i \in 1..Len(s) : Under(s[i], q)}

Phases == {"identity", "scan", "identified", "collect", "exhaustive", "done"}

SearchTypeOK ==
  /\ tree \in Tree /\ IsFiniteSet(tree)
  /\ shaped \subseteq Op
  /\ DOMAIN recognized \subseteq tree /\ \A p \in DOMAIN recognized : recognized[p] \in Op
  /\ phase \in Phases
  /\ stack \in Seq(Nodes) /\ pairs \in Seq(tree) /\ todo \in Seq(Op \X tree)
  /\ visited \in Nat /\ produced \in Nat
  /\ outcome \in {"searching", "derived", "unverifiable"}

(* The different candidates that can be made of the spend.                 *)
Candidates == {Made(c[1], c[2]) : c \in {d \in Op \X tree : Fits(d[1], d[2])}}

(* A spend of an operation the search knows.                               *)
Explained ==
  want \notin {Identity, Unknown} =>
    /\ at \in tree
    /\ \E o \in Op : Fits(o, at) /\ want = Made(o, at)

(* The pinned table names the operation, and its bounds are not reached.   *)
Pinned == at \in DOMAIN recognized /\ want = Made(recognized[at], at)
Named == {Made(recognized[p], p) : p \in DOMAIN recognized}
ScanSuffices ==
  2 * Cardinality(tree) + 1 <= MaxVisited /\ Cardinality(DOMAIN recognized) < MaxCandidates

(* The exhaustive search reaches every pair and every candidate.           *)
BackstopSuffices ==
  Cardinality(Candidates) < MaxCandidates /\ Cardinality(tree) <= MaxCandidates

(* The search ends within its bounds, whatever the solution.               *)
SearchIsBounded ==
  /\ visited <= MaxVisited
  /\ Len(pairs) <= MaxCandidates
  /\ produced <= MaxCandidates
  /\ produced = 1 + Cardinality(seen)

(* No node on the stack lies below another.                                *)
Apart(s) == \A i, j \in 1..Len(s) : i # j => ~Under(s[i], s[j])

(* While the tree is traversed, what is below the stack and what was       *)
(* popped are disjoint: each pop uses up one node, and the node wanted is  *)
(* in todo or still to come.                                               *)
ScanOK ==
  phase = "scan" =>
    /\ Apart(stack)
    /\ visited + Cardinality(Below(stack, Nodes)) <= Cardinality(Nodes)
    /\ Pinned => \/ \E i \in 1..Len(todo) : todo[i][2] = at
                 \/ \E i \in 1..Len(stack) : Under(stack[i], at)

IdentifiedOK ==
  phase \in {"scan", "identified"} =>
    /\ seen \subseteq Named
    /\ \A i \in 1..Len(todo) :
         todo[i][2] \in DOMAIN recognized /\ todo[i][1] = recognized[todo[i][2]]
    /\ phase = "identified" /\ Pinned /\ ScanSuffices => \E i \in 1..Len(todo) : todo[i][2] = at

CollectOK ==
  phase = "collect" =>
    /\ todo = << >>
    /\ Apart(stack)
    /\ Len(pairs) + Cardinality(Below(stack, tree)) <= Cardinality(tree)
    /\ want # Unknown => \/ \E i \in 1..Len(pairs) : pairs[i] = at
                         \/ \E i \in 1..Len(stack) : Under(stack[i], at)

ExhaustiveOK ==
  phase = "exhaustive" /\ want # Unknown /\ BackstopSuffices =>
    \E i \in 1..Len(todo) :
      Fits(todo[i][1], todo[i][2]) /\ Made(todo[i][1], todo[i][2]) = want

(* The inductive invariant.                                                *)
SearchInv ==
  /\ SearchTypeOK
  /\ Explained
  /\ SearchIsBounded
  /\ seen \subseteq Candidates
  /\ phase = "done" <=> outcome # "searching"
  /\ outcome = "searching" => want \notin seen
  /\ phase \notin {"identity", "done"} => want # Identity
  /\ phase = "identity" =>
       stack = << << >> >> /\ visited = 0 /\ todo = << >> /\ seen = {}
  /\ phase \in {"identity", "scan", "identified"} => pairs = << >>
  /\ ScanOK /\ IdentifiedOK /\ CollectOK /\ ExhaustiveOK
  /\ phase \in {"collect", "exhaustive"} \/ outcome = "unverifiable" => ~(Pinned /\ ScanSuffices)
  /\ outcome = "unverifiable" /\ want # Unknown => ~BackstopSuffices

(* A spend the resolver understands is refused only when the solution is   *)
(* too large for the exhaustive search, whatever the table recognizes: no  *)
(* pair is skipped and no candidate lost to another that was offered twice *)
(* or did not fit.                                                         *)
OnlyLargeSolutionsAreRefused ==
  outcome = "unverifiable" /\ want # Unknown =>
    \/ Cardinality(Candidates) >= MaxCandidates
    \/ Cardinality(tree) > MaxCandidates

(* An operation the pinned table names is found however many candidates    *)
(* the rest of the solution makes, as long as the scan gets there.         *)
PinnedOperationIsDerived ==
  /\ outcome = "unverifiable"
  /\ at \in DOMAIN recognized /\ want = Made(recognized[at], at)
  => \/ 2 * Cardinality(tree) + 1 > MaxVisited
     \/ Cardinality(DOMAIN recognized) >= MaxCandidates

(* The search ends.                                                        *)
SearchEnds == <>(phase = "done")

(* ADR 0001 as written: every transition is tried "against every solution  *)
(* subtree (bounded), so a stale puzzle-hash table costs performance,      *)
(* never correctness".  The exhaustive search is cut off at 4096           *)
(* candidates and the scan at 16384 nodes, so a solution that the scan     *)
(* covers may be refused when the table is stale.                          *)
StaleTableCostsNoCorrectness ==
  outcome = "unverifiable" /\ want # Unknown => 2 * Cardinality(tree) + 1 > MaxVisited
=============================================================================
