------------------------------- MODULE MCInputs -------------------------------
(***************************************************************************)
(* A small instance of the two specifications that read what the caller    *)
(* and the chain send, FrontDoor and ClvmCodec.  They share nothing: a     *)
(* behaviour runs one of them while the other is idle.                     *)
(***************************************************************************)
EXTENDS FrontDoor, ClvmValues

UpTo(S, n) == UNION {[1..k -> S] : k \in 0..n}

(* Headers: every two ranges with up to two parameters, three with one.    *)
Quality(n) == [name |-> "q", finite |-> TRUE, number |-> n, utf8 |-> FALSE]
Unparseable == [name |-> "q", finite |-> FALSE, number |-> 0, utf8 |-> FALSE]
Charset(good) == [name |-> "charset", finite |-> FALSE, number |-> 0, utf8 |-> good]

Ranges(P, n) ==
  [media : Media \ {"other"}, parameters : UpTo(P, n)]
    \cup {[media |-> "other", parameters |-> << >>]}

SmallHeaders ==
  UpTo(Ranges({Quality(0), Quality(2), Unparseable, Charset(TRUE), Charset(FALSE)}, 2), 1)
    \cup [1..2 -> Ranges({Quality(0), Quality(2), Charset(TRUE)}, 2)]
    \cup [1..3 -> Ranges({Quality(0), Charset(TRUE)}, 1)]

(* Callers: every header with one DID; every short name; and all ways to   *)
(* have something against the header, the version and the DID at once.     *)
Names == UpTo(Char, 4)
SomeDid == [prefixed |-> TRUE, name |-> <<1, 0, 2>>]
OtherMethod == [SomeDid EXCEPT !.prefixed = FALSE]
RefusedHeader == <<[media |-> "exact", parameters |-> <<Quality(0)>>]>>

SmallCallers ==
  [accept : {<<h>> : h \in SmallHeaders}, version : {{}}, did : {SomeDid}]
    \cup [accept : {<< >>}, version : {{}}, did : [prefixed : BOOLEAN, name : Names]]
    \cup [accept : {<< >>, << << >> >>, <<RefusedHeader>>},
          version : SUBSET {"versionId", "versionTime"}, did : {SomeDid, OtherMethod}]

(* Octets of four bits: 0-7 stand for themselves, 8-11 start a header of   *)
(* one octet, 12 and 13 one of two, 14 none, 15 a pair.                    *)

RECURSIVE Nested(_)
Nested(turns) ==
  IF turns = << >> THEN <<8>>
  ELSE IF turns[1] = "left" THEN <<15>> \o Nested(Tail(turns)) \o <<8>>
  ELSE <<15, 8>> \o Nested(Tail(turns))

Repeat(x, n) == [k \in 1..n |-> x]

(* Trees about the bound on the stack, which a turn to the left takes two  *)
(* places of and a turn to the right one.                                  *)
DeepBlobs ==
  UNION {{Nested(Repeat("left", l) \o Repeat("right", r)),
          Nested(Repeat("right", r) \o Repeat("left", l))} :
           <<l, r>> \in {x \in (0..8) \X (0..15) : 2 * x[1] + x[2] \in 11..15}}

(* (a (q . mod) env), with up to two arguments.                            *)
RECURSIVE Environment(_)
Environment(args) ==
  IF args = << >> THEN <<1>>
  ELSE <<15, 4, 15, 15, 1>> \o args[1] \o <<15>> \o Environment(Tail(args)) \o <<8>>

Curried(mod, args) == <<15, 2, 15, 15, 1>> \o mod \o <<15>> \o Environment(args) \o <<8>>

CurriedBlobs ==
  {Curried(mod, args) : mod \in {<<3>>, <<15, 3, 4>>},
                        args \in UpTo({<<1>>, <<5>>, <<15, 6, 8>>}, 2)}

(* Atoms of all two octets; of sizes about the limits of a header; padded. *)
AtomBlobs ==
  {<<10, x, y>> : x \in Octet, y \in Octet}
    \cup {<<11, x, 7, 15>> : x \in Octet}
    \cup {<<12, n>> \o Repeat(7, m) : n \in 0..15, m \in 0..16}

(* Sizes of more bits than the parser's numbers have.                      *)
WideBlobs == {<<13, n>> \o Repeat(7, m) : n \in {0, 1, 2}, m \in 0..2}

SmallBlobs ==
  UpTo({1, 8, 9, 10, 12, 14, 15}, 4) \cup [1..5 -> {0, 8, 10, 12, 15}]
    \cup DeepBlobs \cup CurriedBlobs \cup AtomBlobs \cup WideBlobs

-----------------------------------------------------------------------------
inputVars == <<frontVars, codecVars>>

FrontIdle ==
  /\ caller = [accept |-> << >>, version |-> {}, did |-> SomeDid]
  /\ gate = "idle" /\ launcher = {} /\ header = << >> /\ AcceptStart

CodecIdle == blob = << >> /\ CodecStart /\ stage = "idle"

Init == (FrontInit /\ CodecIdle) \/ (FrontIdle /\ CodecInit)

Next == (FrontNext /\ UNCHANGED codecVars) \/ (CodecNext /\ UNCHANGED frontVars)

Spec == Init /\ [][Next]_inputVars
=============================================================================
