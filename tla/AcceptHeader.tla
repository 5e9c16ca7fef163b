----------------------------- MODULE AcceptHeader -----------------------------
(***************************************************************************)
(* Whether the caller's accept value asks for the one representation there *)
(* is: producesRepresentation of ts/src/resolver.ts, one step per media    *)
(* range and per media parameter.                                          *)
(*                                                                         *)
(* A header is the sequence of its ranges, as split(",") and split(";")    *)
(* leave them; a header of white space is the empty sequence.              *)
(***************************************************************************)
EXTENDS Integers, Sequences

CONSTANTS
  Headers,  \* accept values
  Fallback  \* the quality of a range that names none: 1

Media == {"exact", "application", "any", "other"}

(* What the code tells apart of a parameter: its name, whether its value   *)
(* is a finite number, and which, and whether it is UTF-8.                 *)
Parameter == [name : {"q", "charset", "profile"}, finite : BOOLEAN, number : Int,
              utf8 : BOOLEAN]

ASSUME AcceptAssumption ==
  /\ Headers \subseteq Seq([media : Media, parameters : Seq(Parameter)])
  /\ Fallback \in Int /\ Fallback > 0

VARIABLES
  header,   \* the value
  entry,    \* the range the loop is at
  read,     \* how many of its parameters were read
  matched,  \* "parameters": those that the representation satisfies
  quality, seenQuality,
  best,     \* the most specific range so far; concreteness 0 for null
  verdict   \* "none", "produced" or "refused"

range == <<entry, read, matched, quality, seenQuality>>
acceptVars == <<header, range, best, verdict>>


Concreteness(m) ==
  CASE m = "exact" -> 3 [] m = "application" -> 2 [] m = "any" -> 1 [] m = "other" -> 0

mediaParameterSatisfied(p) == p.name = "charset" /\ p.utf8

(* Mutant: the two dimensions of specificity added up.                     *)
Summed(a, b) ==
  \/ a.concreteness + a.parameters > b.concreteness + b.parameters
  \/ a.concreteness + a.parameters = b.concreteness + b.parameters /\ a.quality > b.quality

(* Lexicographic: concreteness, then matched parameters, then quality.     *)
Better(a, b) ==
  \/ a.concreteness > b.concreteness
  \/ /\ a.concreteness = b.concreteness
     /\ \/ a.parameters > b.parameters
        \/ a.parameters = b.parameters /\ a.quality > b.quality

Nothing == [concreteness |-> 0, parameters |-> 0, quality |-> 0]

-----------------------------------------------------------------------------
Here == header[entry]
Negotiating == verdict = "none" /\ entry <= Len(header)

(* continue: the loop goes to the next range.                              *)
Continues ==
  /\ entry' = entry + 1
  /\ read' = 0 /\ matched' = 0
  /\ quality' = Fallback /\ seenQuality' = FALSE

(* A range of another type, or one whose parameters before q ask for more  *)
(* than the representation carries, does not match.                        *)
SkipsRange ==
  /\ Negotiating
  /\ \/ Concreteness(Here.media) = 0
     \/ /\ read < Len(Here.parameters) /\ ~seenQuality
        /\ Here.parameters[read + 1].name # "q"
        /\ ~mediaParameterSatisfied(Here.parameters[read + 1])
  /\ Continues
  /\ UNCHANGED <<header, best, verdict>>

NextParameter(p) ==
  /\ Negotiating /\ Concreteness(Here.media) > 0
  /\ read < Len(Here.parameters) /\ p = Here.parameters[read + 1]
  /\ read' = read + 1
  /\ UNCHANGED <<header, entry, best, verdict>>

(* The first q; an unparseable one is ignored.                             *)
ReadsQuality(p) ==
  /\ NextParameter(p) /\ ~seenQuality /\ p.name = "q"
  /\ seenQuality' = TRUE
  /\ quality' = IF p.finite THEN p.number ELSE quality
  /\ UNCHANGED matched

(* What follows q is an accept extension.                                  *)
ReadsExtension(p) ==
  /\ NextParameter(p) /\ seenQuality
  /\ UNCHANGED <<matched, quality, seenQuality>>

ReadsSatisfied(p) ==
  /\ NextParameter(p) /\ ~seenQuality /\ p.name # "q" /\ mediaParameterSatisfied(p)
  /\ matched' = matched + 1
  /\ UNCHANGED <<quality, seenQuality>>

(* All parameters were read: the range competes.                           *)
EndsRange ==
  /\ Negotiating /\ Concreteness(Here.media) > 0
  /\ read = Len(Here.parameters)
  /\ LET this == [concreteness |-> Concreteness(Here.media),
                  parameters |-> matched, quality |-> quality]
     IN  best' = IF Better(this, best) THEN this ELSE best
  /\ Continues
  /\ UNCHANGED <<header, verdict>>

Decides ==
  /\ verdict = "none" /\ entry > Len(header)
  /\ verdict' = IF header = << >> \/ best.quality > 0 THEN "produced" ELSE "refused"
  /\ UNCHANGED <<header, range, best>>

-----------------------------------------------------------------------------
AcceptStart ==
  /\ entry = 1 /\ read = 0 /\ matched = 0
  /\ quality = Fallback /\ seenQuality = FALSE
  /\ best = Nothing /\ verdict = "none"

AcceptInit == header \in Headers /\ AcceptStart

Reads ==
  /\ Negotiating /\ read < Len(Here.parameters)
  /\ LET p == Here.parameters[read + 1]
     IN  ReadsQuality(p) \/ ReadsExtension(p) \/ ReadsSatisfied(p)

AcceptNext == SkipsRange \/ Reads \/ EndsRange \/ Decides

AcceptSpec == AcceptInit /\ [][AcceptNext]_acceptVars

-----------------------------------------------------------------------------
(* RFC 9110 12.5.1, as resolver.ts:74-93 reads it.  The parameters before  *)
(* the first q are part of the range and all have to be satisfied.         *)
NoQ(r, k) == \A j \in 1..k : r.parameters[j].name # "q"
Satisfied(r, k) == r.parameters[k].name = "charset" /\ r.parameters[k].utf8

Matches(r) ==
  /\ r.media # "other"
  /\ \A k \in 1..Len(r.parameters) : NoQ(r, k) => Satisfied(r, k)

(* The place of the first q, or one past the last parameter.               *)
IsCut(r, k) ==
  /\ NoQ(r, k - 1)
  /\ k <= Len(r.parameters) => r.parameters[k].name = "q"

Cut(r) == CHOOSE k \in 1..(Len(r.parameters) + 1) : IsCut(r, k)

Weight(r) ==
  IF Cut(r) <= Len(r.parameters) /\ r.parameters[Cut(r)].finite
    THEN r.parameters[Cut(r)].number ELSE Fallback

(* The types that a type is narrower than.                                 *)
Wider(m) ==
  CASE m = "exact" -> {"application", "any"} [] m = "application" -> {"any"} [] OTHER -> {}

Narrower(r, s) ==
  \/ s.media \in Wider(r.media)
  \/ r.media = s.media /\ Cut(r) > Cut(s)

(* One of the most specific ranges that match has a quality above zero.    *)
Acceptable(h) ==
  \/ h = << >>
  \/ \E i \in 1..Len(h) :
       /\ Matches(h[i]) /\ Weight(h[i]) > 0
       /\ \A j \in 1..Len(h) : Matches(h[j]) => ~Narrower(h[j], h[i])

(* Whatever the order of the ranges and of their parameters, the caller is *)
(* served just when one of the most specific ranges that match allows it.  *)
NegotiationIsRight ==
  verdict # "none" => (verdict = "produced" <=> Acceptable(header))

-----------------------------------------------------------------------------
AcceptTypeOK ==
  /\ header \in Seq([media : Media, parameters : Seq(Parameter)])
  /\ entry \in 1..(Len(header) + 1) /\ read \in Nat /\ matched \in Nat
  /\ quality \in Int /\ seenQuality \in BOOLEAN
  /\ best \in [concreteness : 0..3, parameters : Nat, quality : Int]
  /\ verdict \in {"none", "produced", "refused"}

(* What the loop knows of the range it is at.                              *)
RangeSoFar ==
  entry <= Len(header) =>
    /\ read <= Len(Here.parameters)
    /\ Here.media = "other" => read = 0
    /\ ~seenQuality =>
         matched = read /\ quality = Fallback /\ \A k \in 1..read : Satisfied(Here, k)
    /\ seenQuality =>
         \E q \in 1..read :
           /\ Here.parameters[q].name = "q" /\ matched = q - 1
           /\ \A k \in 1..(q - 1) : Satisfied(Here, k)
           /\ quality = IF Here.parameters[q].finite THEN Here.parameters[q].number ELSE Fallback

Rank(r) ==
  [concreteness |-> Concreteness(r.media), parameters |-> Cut(r) - 1, quality |-> Weight(r)]

(* The best range is one of those read, and none of those is better.       *)
BestSoFar ==
  /\ \/ best = Nothing /\ \A j \in 1..(entry - 1) : ~Matches(header[j])
     \/ \E i \in 1..(entry - 1) : Matches(header[i]) /\ best = Rank(header[i])
  /\ \A j \in 1..(entry - 1) :
       Matches(header[j]) =>
         /\ Cut(header[j]) \in 1..(Len(header[j].parameters) + 1)
         /\ IsCut(header[j], Cut(header[j]))
         /\ ~Better(Rank(header[j]), best)

(* The inductive invariant.                                                *)
AcceptInv ==
  /\ AcceptTypeOK /\ RangeSoFar /\ BestSoFar
  /\ verdict # "none" =>
       /\ entry = Len(header) + 1
       /\ verdict = "produced" <=> header = << >> \/ best.quality > 0
=============================================================================
