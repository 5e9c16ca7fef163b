-------------------------- MODULE MCCandidateSearch ---------------------------
(* Small instances of CandidateSearch for TLC.                             *)
EXTENDS CandidateSearch

Short == UNION {[1..n -> Dir] : n \in 0..3}

Closed(t) == \A p \in t : \A n \in 0..Len(p) : SubSeq(p, 1, n) \in t

(* All trees of up to n pairs.                                             *)
Small(n) == {t \in SUBSET Short : Cardinality(t) <= n /\ Closed(t)}

(* A list of n elements, and the pair of an atom and that list.            *)
List(n) == {[i \in 1..k |-> "cdr"] : k \in 0..(n - 1)}

SmallTrees == Small(3) \cup {List(4), List(6)}
=============================================================================
