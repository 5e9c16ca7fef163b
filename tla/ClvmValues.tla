------------------------------ MODULE ClvmValues ------------------------------
(***************************************************************************)
(* The functions of ts/src/clvm.ts on the trees that ClvmCodec reads:      *)
(* currying, lists and integers, and what the codec is held against.       *)
(* A function that returns null or throws gives the empty set.             *)
(***************************************************************************)
EXTENDS ClvmCodec, Numerals, SequencesExt

CONSTANTS
  MaxIntOctets  \* octets of the longest integer asInt reads: 6

ASSUME ValuesAssumption == MaxIntOctets \in Nat

Nil == Leaf(<< >>)
IsOp(n, code) == ~isPair(n) /\ n.atom = <<code>>

QUOTE_HASH == atomHash(<<1>>)
APPLY_HASH == atomHash(<<2>>)
CONS_HASH == atomHash(<<4>>)
NIL_HASH == atomHash(<< >>)

(* Mutant: the arguments curried in the opposite order.                    *)
CurriedBackwards(modHash, argHashes) ==
  LET env[k \in 0..Len(argHashes)] ==
        IF k = 0 THEN QUOTE_HASH
        ELSE pairHash(CONS_HASH, pairHash(pairHash(QUOTE_HASH, argHashes[k]),
                                          pairHash(env[k - 1], NIL_HASH)))
  IN  pairHash(APPLY_HASH, pairHash(pairHash(QUOTE_HASH, modHash),
                                    pairHash(env[Len(argHashes)], NIL_HASH)))

(* env[k]: the environment after k arguments, the last one first.          *)
curriedPuzzleHash(modHash, argHashes) ==
  LET n == Len(argHashes)
      env[k \in 0..n] ==
        IF k = 0 THEN QUOTE_HASH
        ELSE pairHash(CONS_HASH, pairHash(pairHash(QUOTE_HASH, argHashes[n + 1 - k]),
                                          pairHash(env[k - 1], NIL_HASH)))
  IN  pairHash(APPLY_HASH, pairHash(pairHash(QUOTE_HASH, modHash), pairHash(env[n], NIL_HASH)))

(* One layer (op (q . x) rest) of a curried program or of its environment. *)
IsLayer(n, code) ==
  /\ isPair(n) /\ IsOp(n.left, code)
  /\ isPair(n.right) /\ isPair(n.right.left) /\ IsOp(n.right.left.left, 1)
  /\ isPair(n.right.right) /\ n.right.right.right = Nil

Quoted(n) == n.right.left.right
Rest(n) == n.right.right.left

(* env[k]: what the loop is at after k arguments.                          *)
uncurry(n) ==
  IF ~IsLayer(n, 2) THEN {}
  ELSE LET env[k \in 0..(MaxDepth + 1)] == IF k = 0 THEN Rest(n) ELSE Rest(env[k - 1])
           Ends(k) == (\A j \in 0..(k - 1) : IsLayer(env[j], 4)) /\ IsOp(env[k], 1)
       IN  {<<Quoted(n), [j \in 1..k |-> Quoted(env[j - 1])]>> :
              k \in {j \in 0..(MaxDepth + 1) : Ends(j)}}

(* The items of n, if they are in Lengths.                                 *)
ItemsOf(n, Lengths) ==
  LET current[k \in Nat] == IF k = 0 THEN n ELSE current[k - 1].right
      Ends(k) == (\A j \in 0..(k - 1) : isPair(current[j])) /\ current[k] = Nil
  IN  {[j \in 1..k |-> current[j - 1].left] : k \in {j \in Lengths : Ends(j)}}

(* Mutant: the bound tested after the item was added.                      *)
OneItemLess(n) == ItemsOf(n, 0..MaxDepth)

toList(n) == ItemsOf(n, 0..(MaxDepth + 1))

(* node[k]: the list of the last k items.                                  *)
fromList(items) ==
  LET n == Len(items)
      node[k \in 0..n] == IF k = 0 THEN Nil ELSE Pair(items[n + 1 - k], node[k - 1])
  IN  node[n]

-----------------------------------------------------------------------------
Unsigned(s) == Horner(s, 2^OctetBits)

asInt(n) ==
  IF isPair(n) \/ Len(n.atom) > MaxIntOctets THEN {}
  ELSE {Unsigned(n.atom)
          - IF n.atom # << >> /\ n.atom[1] >= FirstOf(1) THEN 2^(Len(n.atom) * OctetBits) ELSE 0}

HasSign(s) == s # << >> /\ s[1] >= FirstOf(1)

(* Mutant: no octet put in front for the sign of a positive number.        *)
NoSignOctet(value) ==
  LET s == DigitsOf(value, 2^OctetBits)
  IN  IF value < 0 /\ ~HasSign(s) THEN <<ConsOctet>> \o s ELSE s

intToAtom(value) ==
  LET s == DigitsOf(value, 2^OctetBits)
  IN  IF value < 0 /\ ~HasSign(s) THEN <<ConsOctet>> \o s
      ELSE IF value > 0 /\ HasSign(s) THEN <<0>> \o s
      ELSE s

-----------------------------------------------------------------------------
(* The reference: the tree that a blob encodes.                            *)

(* The number of leading ones of an octet, and the size that a header of k *)
(* octets declares, as one number with the k ones taken off.               *)
LeadingOnes(o) ==
  CHOOSE k \in 0..OctetBits :
    /\ o \div 2^(OctetBits - k) = 2^k - 1
    /\ k < OctetBits => o \div 2^(OctetBits - k - 1) = 2 * (2^k - 1)

DeclaredSize(b, i, k) ==
  Unsigned(SubSeq(b, i, i + k - 1)) % 2^(k * OctetBits - k - 1)

(* The node encoded from each place on, with the place after it.           *)
NodesIn(b) ==
  LET from[i \in 1..(Len(b) + 1)] ==
        IF i > Len(b) THEN {}
        ELSE LET k == LeadingOnes(b[i])
                 last == i + k - 1 + DeclaredSize(b, i, k)
             IN
          IF k = OctetBits
            THEN UNION {{<<Pair(l[1], r[1]), r[2]>> : r \in from[l[2]]} : l \in from[i + 1]}
          ELSE IF k = 0 THEN {<<Leaf(<<b[i]>>), i + 1>>}
          ELSE IF k > LongHeader \/ i + k - 1 > Len(b) THEN {}
          ELSE IF last > Len(b) THEN {}
          ELSE {<<Leaf(SubSeq(b, i + k, last)), last + 1>>}
  IN  from

Encoded(b) == {x[1] : x \in {y \in NodesIn(b)[1] : y[2] = Len(b) + 1}}

(* The operations on the parser's stack when it reads the node it stacks   *)
(* most for: two more for the left of a pair, one more for the right.      *)
StackNeeded[n \in Node] ==
  IF ~isPair(n) THEN 1
  ELSE LET l == StackNeeded[n.left] + 2
           r == StackNeeded[n.right] + 1
       IN  IF l > r THEN l ELSE r

TreeHash[n \in Node] ==
  IF isPair(n) THEN pairHash(TreeHash[n.left], TreeHash[n.right]) ELSE atomHash(n.atom)

SubNodes[n \in Node] ==
  {n} \cup IF isPair(n) THEN SubNodes[n.left] \cup SubNodes[n.right] ELSE {}

Spine[n \in Node] == IF isPair(n) THEN 1 + Spine[n.right] ELSE 0
Ending[n \in Node] == IF isPair(n) THEN Ending[n.right] ELSE n

Parsed == stage \notin {"idle", "parsing", "malformed"}

(* The places where the octets that a header declares, and what does not   *)
(* belong to an atom, put the start of a node: an octet inside an atom is  *)
(* never one of them, whatever it is.                                      *)
After(b, i) ==
  IF i > Len(b) THEN i
  ELSE LET k == LeadingOnes(b[i]) IN
    IF k \in {0, OctetBits} THEN i + 1
    ELSE IF k > LongHeader \/ i + k - 1 > Len(b) THEN i
    ELSE i + k + DeclaredSize(b, i, k)

Starts(b) ==
  LET place[m \in 0..Len(b)] == IF m = 0 THEN 1 ELSE After(b, place[m - 1])
  IN  {place[m] : m \in 0..Len(b)}

(* readSize computes in SizeBits bits: a longer size in a header of the    *)
(* longest kind is read modulo 2^SizeBits.                                 *)
SizesFit(b) ==
  \A i \in Starts(b) :
    i <= Len(b) - LongHeader + 1 /\ LeadingOnes(b[i]) = LongHeader
      => DeclaredSize(b, i, LongHeader) < 2^SizeBits

(* A blob none of whose headers declares a size of more bits than readSize *)
(* computes in is accepted just when it is the encoding of a tree and      *)
(* nothing more, within the bounds on octets and on the stack; it is read  *)
(* as that tree.                                                           *)
ReadsTheEncodedTree ==
  SizesFit(blob) =>
    /\ Parsed => Encoded(blob) = {values[1]}
    /\ stage = "malformed" =>
         \/ Len(blob) > MaxBlob
         \/ \A n \in Encoded(blob) : StackNeeded[n] > 2 * MaxDepth

(* What serialize writes is read as the tree it wrote, and is the shortest *)
(* encoding: never longer than the blob the tree was read from.            *)
WritesBack == stage = "done" => Encoded(chunks) = {values[1]} /\ Len(chunks) <= Len(blob)

(* The two stacks of sha256tree meet in the hash of the tree as the        *)
(* recursive definition gives it.  The hash of a curried program computed  *)
(* from the hashes of its parts is that same hash, and uncurry finds those *)
(* parts and no others, so that a puzzle hash rebuilt from parts can be    *)
(* compared with one that was read.                                        *)
HashesAgree ==
  stage = "done" =>
    LET Hashes(args) == [k \in 1..Len(args) |-> TreeHash[args[k]]]
        n == values[1]
    IN  /\ out = <<TreeHash[n]>>
        /\ {c \in uncurry(n) : Len(c[2]) <= 2} =
             {c \in SubNodes[n] \X BoundedSeq(SubNodes[n], 2) :
                curriedPuzzleHash(TreeHash[c[1]], Hashes(c[2])) = out[1]}

(* A proper list is taken apart into what it was built from, up to the     *)
(* bound on its items, and nothing else is a list.                         *)
ListsAreWhole ==
  stage = "done" =>
    \A n \in SubNodes[values[1]] :
      /\ \A items \in toList(n) : fromList(items) = n
      /\ toList(n) = {} <=> Ending[n] # Nil \/ Spine[n] > MaxDepth + 1

(* s denotes v in two's complement.                                        *)
Fits(v, n) == IF n = 0 THEN v = 0 ELSE -(2^(n * OctetBits - 1)) <= v /\ v < 2^(n * OctetBits - 1)

Denotes(s, v) == Fits(v, Len(s)) /\ (v - Unsigned(s)) % 2^(Len(s) * OctetBits) = 0

(* An integer is read with its sign, however many octets it was padded to, *)
(* and written in the fewest that denote it: the coin ids computed from an *)
(* amount are those of the chain.                                          *)
IntegersSurvive ==
  stage = "done" =>
    \A n \in {m \in SubNodes[values[1]] : ~isPair(m)} :
      /\ asInt(n) = {} => Len(n.atom) > MaxIntOctets
      /\ \A v \in asInt(n) :
           /\ Denotes(n.atom, v) /\ Denotes(intToAtom(v), v)
           /\ \A shorter \in 0..(Len(intToAtom(v)) - 1) : ~Fits(v, shorter)
=============================================================================
