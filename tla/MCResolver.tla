------------------------------ MODULE MCResolver ------------------------------
(* Small instances of Resolver for TLC.                                    *)
EXTENDS Resolver, TLC

CONSTANTS c1, c2, a, b, x

OneCall == {c1}
TwoCalls == {c1, c2}
KnownStates == {a, b}
WithOpaque == {a, x}
OpaqueState == {x}
UnknownFromOpaque == {<<x, a>>}
UnknownBetweenKnown == {<<a, b>>}
CurrentOrNone == Kinds \ {"legacy"}
WithLegacy == {"julia", "legacy"}

(* Calls of one client differ in nothing but their names.                  *)
CallsAlike == Permutations(TwoCalls)
=============================================================================
