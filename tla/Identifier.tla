------------------------------ MODULE Identifier ------------------------------
(***************************************************************************)
(* The did:julia identifier: ts/src/identifier.ts.  A character is its     *)
(* index in the alphabet, any other character is Alphabet; an octet is a   *)
(* number below OctetBase.                                                 *)
(***************************************************************************)
EXTENDS Numerals

CONSTANTS
  Alphabet,   \* characters of the alphabet: 58
  OctetBase,  \* 256
  IdSize,     \* LAUNCHER_ID_SIZE
  MaxChars    \* MAX_IDENTIFIER_CHARS

ASSUME IdentifierAssumption ==
  /\ Alphabet \in Nat \ {0, 1} /\ OctetBase \in Nat \ {0, 1}
  /\ Alphabet <= OctetBase
  /\ IdSize \in Nat \ {0} /\ MaxChars \in Nat
  (* 32 octets have 44 characters at most. *)
  /\ Power(OctetBase, IdSize) <= Power(Alphabet, MaxChars)

Char == 0 .. Alphabet
LauncherId == [1..IdSize -> 0 .. OctetBase - 1]

(* How many leading zero octets, or characters "1", s has.                 *)
Padding(s) ==
  CHOOSE n \in 0..Len(s) :
    /\ \A k \in 1..n : s[k] = 0
    /\ n < Len(s) => s[n + 1] # 0

Zeros(n) == [k \in 1..n |-> 0]

(* Mutant: the leading zeros dropped.                                      *)
EncodesValue(raw) == DigitsOf(Horner(raw, OctetBase), Alphabet)

b58encode(raw) == Zeros(Padding(raw)) \o DigitsOf(Horner(raw, OctetBase), Alphabet)

b58decode(encoded) ==
  Zeros(Padding(encoded)) \o DigitsOf(Horner(encoded, Alphabet), OctetBase)

(* The launcher ID a DID names, as a set: empty where parseDid throws.     *)
parseDid(did) ==
  IF /\ did.prefixed
     /\ Len(did.name) \in 1..MaxChars
     /\ \A k \in 1..Len(did.name) : did.name[k] < Alphabet
     /\ Len(b58decode(did.name)) = IdSize
  THEN {b58decode(did.name)}
  ELSE {}

formatDid(launcher) == [prefixed |-> TRUE, name |-> b58encode(launcher)]
=============================================================================
