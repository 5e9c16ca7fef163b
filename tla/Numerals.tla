------------------------------- MODULE Numerals -------------------------------
(***************************************************************************)
(* Numbers as sequences of digits, the most significant first: the loops   *)
(* of ts/src/identifier.ts and ts/src/clvm.ts that read and write them.    *)
(***************************************************************************)
EXTENDS Integers, Sequences

(* value = value * base + digit, over the digits.                          *)
Horner(digits, base) ==
  LET value[k \in 0..Len(digits)] ==
        IF k = 0 THEN 0 ELSE value[k - 1] * base + digits[k]
  IN  value[Len(digits)]

(* The digits that are shifted out of a number until nothing but its sign  *)
(* is left: none for 0 and for -1.                                         *)
DigitsOf(value, base) ==
  LET stop == IF value < 0 THEN -1 ELSE 0
      digits[v \in (value..stop) \cup (stop..value)] ==
        IF v = stop THEN << >> ELSE Append(digits[v \div base], v % base)
  IN  digits[value]

(* base to the power n: a one and n zeros.                                 *)
Power(base, n) == Horner([k \in 1..(n + 1) |-> IF k = 1 THEN 1 ELSE 0], base)
=============================================================================
