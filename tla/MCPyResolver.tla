----------------------------- MODULE MCPyResolver -----------------------------
(* A small instance of PyResolver for TLC.                                 *)
EXTENDS PyResolver

CONSTANTS a, b, x

ThreeStates == {a, b, x}
OpaqueState == {x}
AnyKind == Kinds
=============================================================================
