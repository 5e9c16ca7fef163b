------------------------------ MODULE ClvmCodec -------------------------------
(***************************************************************************)
(* The stack machines of ts/src/clvm.ts: deserialize reads a blob, one     *)
(* step per turn of its loop; sha256tree hashes the tree, and serialize    *)
(* writes it back.  The wire format is that of clvm.ts for octets of any   *)
(* width: an octet that starts with k ones starts a header of k octets.    *)
(***************************************************************************)
EXTENDS Integers, Sequences

CONSTANTS
  OctetBits,   \* 8
  LongHeader,  \* octets of the longest header that is read: 5
  LongWritten, \* of the longest that is written: 3
  SizeBits,    \* the width of the sizes that readSize computes: 32
  MaxBlob,     \* MAX_BLOB_BYTES
  MaxDepth,    \* MAX_DEPTH
  MaxSteps,    \* nodes serialize will write
  Blobs        \* what a full node may send

Octet == 0 .. 2^OctetBits - 1
ConsOctet == 2^OctetBits - 1

ASSUME CodecAssumption ==
  /\ OctetBits \in Nat /\ SizeBits \in Nat /\ LongWritten \in 1..LongHeader
  /\ LongHeader \in 1..(OctetBits - 2)
  /\ (LongHeader - 1) * OctetBits - LongHeader \in 0..SizeBits
  /\ MaxBlob \in Nat /\ MaxDepth \in Nat /\ MaxSteps \in Nat
  /\ Blobs \subseteq Seq(Octet)

VARIABLES
  blob,    \* the serialized object
  at,      \* octets read of it
  ops,     \* operations to do, the next one last
  values,  \* nodes read, the last one last
  stack,   \* sha256tree's frames, then serialize's nodes
  out,     \* hashes
  chunks,  \* octets written
  steps,   \* nodes written
  stage    \* "parsing", "hashing", "writing", "done" or what was thrown

parser == <<blob, at, ops, values>>
hasher == <<out>>
writer == <<chunks, steps>>
codecVars == <<parser, stack, hasher, writer, stage>>

(* The nodes of trees no higher than the longest blob could encode.        *)
Nodes[height \in Nat] ==
  [atom : Seq(Octet)]
    \cup IF height = 0 THEN {} ELSE [{"left", "right"} -> Nodes[height - 1]]

Node == Nodes[MaxBlob]

(* A node, and a hash: sha256 is taken to be injective.                    *)
Leaf(s) == [atom |-> s]
Pair(l, r) == [left |-> l, right |-> r]
isPair(n) == "left" \in DOMAIN n

atomHash(s) == [hashed |-> s]
pairHash(l, r) == [first |-> l, second |-> r]

Top(s) == s[Len(s)]
Popped(s) == SubSeq(s, 1, Len(s) - 1)

-----------------------------------------------------------------------------
(* The smallest octet that starts with k ones, and how many ones o starts  *)
(* with.                                                                   *)
FirstOf(k) == 2^OctetBits - 2^(OctetBits - k)

HeaderOf(o) ==
  CHOOSE k \in 0..OctetBits : FirstOf(k) <= o /\ (k < OctetBits => o < FirstOf(k + 1))

(* The size a header declares, its first octet at i: the loops of readSize *)
(* shift numbers of 32 bits.                                               *)
SizeAt(i) ==
  LET k == HeaderOf(blob[i])
      size[j \in 1..k] ==
        IF j = 1 THEN blob[i] - FirstOf(k)
        ELSE (size[j - 1] * 2^OctetBits + blob[i + j - 1]) % 2^SizeBits
  IN  size[k]

(* An atom starts at i: an octet that is its own, or a header and all the  *)
(* octets it declares.                                                     *)
AtomAt(i) ==
  /\ i <= Len(blob)
  /\ LET k == HeaderOf(blob[i]) IN
     k > 0 =>
       /\ k <= LongHeader
       /\ i + k - 1 <= Len(blob)
       /\ SizeAt(i) <= MaxBlob
       /\ i + k - 1 + SizeAt(i) <= Len(blob)

(* Where the atom that starts at i starts and ends.                        *)
AtomSpan(i) ==
  LET k == HeaderOf(blob[i])
  IN  IF k = 0 THEN <<i, i>> ELSE <<i + k, i + k - 1 + SizeAt(i)>>

-----------------------------------------------------------------------------
TooLong == Len(blob) > MaxBlob

TooDeep(s) == Len(s) > 2 * MaxDepth

Turn(op) ==
  /\ stage = "parsing" /\ ~TooLong
  /\ ops # << >> /\ ~TooDeep(ops) /\ Top(ops) = op

JoinsPair ==
  /\ Turn("cons")
  /\ values' = Append(Popped(Popped(values)), Pair(Top(Popped(values)), Top(values)))
  /\ ops' = Popped(ops)
  /\ UNCHANGED <<blob, at, stack, hasher, writer, stage>>

(* Mutant: the pair joined before its second node was read.                *)
JoinsEarly ==
  /\ Turn("read") /\ at < Len(blob) /\ blob[at + 1] = ConsOctet
  /\ at' = at + 1
  /\ ops' = Popped(ops) \o <<"read", "cons", "read">>
  /\ UNCHANGED <<blob, values, stack, hasher, writer, stage>>

OpensPair ==
  /\ Turn("read") /\ at < Len(blob) /\ blob[at + 1] = ConsOctet
  /\ at' = at + 1
  /\ ops' = Popped(ops) \o <<"cons", "read", "read">>
  /\ UNCHANGED <<blob, values, stack, hasher, writer, stage>>

TakesAtom ==
  /\ Turn("read") /\ AtomAt(at + 1)
  /\ LET span == AtomSpan(at + 1)
     IN  /\ values' = Append(values, Leaf(SubSeq(blob, span[1], span[2])))
         /\ at' = span[2]
  /\ ops' = Popped(ops)
  /\ UNCHANGED <<blob, stack, hasher, writer, stage>>

(* deserialize throws.                                                     *)
Refuses ==
  /\ stage = "parsing"
  /\ \/ TooLong
     \/ TooDeep(ops)
     \/ Turn("read") /\ ~AtomAt(at + 1) /\ ~(at < Len(blob) /\ blob[at + 1] = ConsOctet)
     \/ ops = << >> /\ at # Len(blob)
  /\ stage' = "malformed"
  /\ UNCHANGED <<parser, stack, hasher, writer>>

(* Mutant: what follows the object is ignored.                             *)
IgnoresTrailing ==
  /\ stage = "parsing" /\ ~TooLong /\ ops = << >>
  /\ stage' = "hashing"
  /\ stack' = << <<values[1], FALSE>> >>
  /\ UNCHANGED <<parser, hasher, writer>>

(* deserialize returns, and the tree is hashed.                            *)
Returns ==
  /\ stage = "parsing" /\ ~TooLong /\ ops = << >> /\ at = Len(blob)
  /\ stage' = "hashing"
  /\ stack' = << <<values[1], FALSE>> >>
  /\ UNCHANGED <<parser, hasher, writer>>

-----------------------------------------------------------------------------
Hashing == stage = "hashing" /\ stack # << >>
Frame == Top(stack)

HashesAtom ==
  /\ Hashing /\ ~isPair(Frame[1])
  /\ out' = Append(out, atomHash(Frame[1].atom))
  /\ stack' = Popped(stack)
  /\ UNCHANGED <<parser, writer, stage>>

HashesPair ==
  /\ Hashing /\ isPair(Frame[1]) /\ Frame[2]
  /\ out' = Append(Popped(Popped(out)), pairHash(Top(Popped(out)), Top(out)))
  /\ stack' = Popped(stack)
  /\ UNCHANGED <<parser, writer, stage>>

Unfolded ==
  Popped(stack)
    \o << <<Frame[1], TRUE>>, <<Frame[1].right, FALSE>>, <<Frame[1].left, FALSE>> >>

(* Mutant: the bound counted as the depth of the tree.                     *)
ExpandsToDepth ==
  /\ Hashing /\ isPair(Frame[1]) /\ ~Frame[2]
  /\ IF Len(Popped(stack)) > MaxDepth
       THEN stage' = "unhashable" /\ UNCHANGED stack
       ELSE stack' = Unfolded /\ UNCHANGED stage
  /\ UNCHANGED <<parser, hasher, writer>>

(* The bound is tested once the frame is popped; past it sha256tree throws. *)
Expands ==
  /\ Hashing /\ isPair(Frame[1]) /\ ~Frame[2]
  /\ IF TooDeep(Popped(stack))
       THEN stage' = "unhashable" /\ UNCHANGED stack
       ELSE stack' = Unfolded /\ UNCHANGED stage
  /\ UNCHANGED <<parser, hasher, writer>>

Hashed ==
  /\ stage = "hashing" /\ stack = << >>
  /\ stage' = "writing"
  /\ stack' = <<values[1]>>
  /\ UNCHANGED <<parser, hasher, writer>>

-----------------------------------------------------------------------------
(* The header of an atom of n octets: the shortest of those that are       *)
(* written whose bits hold n.                                              *)
Capacity(k) == 2^(OctetBits - 1 - k + (k - 1) * OctetBits)

(* Whatever is read can be written: 2^19 octets are less than 10^6 nodes,  *)
(* and less than the 2^20 of the largest atom.  And the bound on octets    *)
(* leaves room for trees of any depth the parser takes.                    *)
ASSUME BoundsAssumption ==
  MaxBlob <= MaxSteps /\ MaxBlob < Capacity(LongWritten) /\ 2 * MaxDepth <= MaxBlob

(* Mutant: a size that just does not fit the header.                       *)
TightHeader(n) ==
  LET k == CHOOSE j \in 1..LongWritten : n <= Capacity(j) /\ \A h \in 1..(j - 1) : n > Capacity(h)
  IN  [j \in 1..k |-> (IF j = 1 THEN FirstOf(k) ELSE 0)
                        + ((n \div 2^((k - j) * OctetBits)) % 2^OctetBits)]

HeaderFor(n) ==
  LET k == CHOOSE j \in 1..LongWritten : n < Capacity(j) /\ \A h \in 1..(j - 1) : n >= Capacity(h)
  IN  [j \in 1..k |-> (IF j = 1 THEN FirstOf(k) ELSE 0)
                        + ((n \div 2^((k - j) * OctetBits)) % 2^OctetBits)]

encodeAtom(s) ==
  IF Len(s) = 1 /\ s[1] < FirstOf(1) THEN s ELSE HeaderFor(Len(s)) \o s

(* serialize: too many nodes, or an atom too large, and it throws.         *)
Writes ==
  /\ stage = "writing" /\ stack # << >>
  /\ LET n == Top(stack) IN
     IF steps >= MaxSteps \/ (~isPair(n) /\ Len(n.atom) >= Capacity(LongWritten))
       THEN stage' = "unwritable" /\ UNCHANGED <<stack, writer>>
       ELSE /\ chunks' = chunks \o (IF isPair(n) THEN <<ConsOctet>> ELSE encodeAtom(n.atom))
            /\ stack' = Popped(stack) \o (IF isPair(n) THEN <<n.right, n.left>> ELSE << >>)
            /\ steps' = steps + 1
            /\ UNCHANGED stage
  /\ UNCHANGED <<parser, hasher>>

Written ==
  /\ stage = "writing" /\ stack = << >>
  /\ stage' = "done"
  /\ UNCHANGED <<parser, stack, hasher, writer>>

-----------------------------------------------------------------------------
CodecStart ==
  /\ at = 0 /\ ops = <<"read">> /\ values = << >>
  /\ stack = << >> /\ out = << >> /\ chunks = << >> /\ steps = 0

CodecInit == blob \in Blobs /\ CodecStart /\ stage = "parsing"

CodecNext ==
  \/ JoinsPair \/ OpensPair \/ TakesAtom \/ Refuses \/ Returns
  \/ HashesAtom \/ HashesPair \/ Expands \/ Hashed
  \/ Writes \/ Written

CodecSpec == CodecInit /\ [][CodecNext]_codecVars

-----------------------------------------------------------------------------
(* No pop comes back empty, although the code casts what it gives: the two *)
(* nodes of a pair are there when the pair is joined, their two hashes     *)
(* when it is hashed, and one of either is left in the end, whatever the   *)
(* blob.                                                                   *)
PopsAreDefined ==
  /\ ops # << >> /\ Top(ops) = "cons" => Len(values) >= 2
  /\ ops = << >> => Len(values) = 1
  /\ Hashing /\ isPair(Frame[1]) /\ Frame[2] => Len(out) >= 2
  /\ stage = "hashing" /\ stack = << >> => Len(out) = 1

(* A blob that deserialize accepts is never too deep for sha256tree nor    *)
(* too large for serialize, although the three count different things.     *)
WhatParsesHashes == stage \notin {"unhashable", "unwritable"}
=============================================================================
