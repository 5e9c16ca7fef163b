------------------------------ MODULE FrontDoor -------------------------------
(***************************************************************************)
(* What resolve of ts/src/resolver.ts does before its first request: the   *)
(* accept value is negotiated, an option for another version refused, the  *)
(* identifier parsed, in this order.  Resolver starts where this ends.     *)
(***************************************************************************)
EXTENDS AcceptHeader, Identifier

CONSTANTS
  Callers  \* the arguments resolve may be called with

(* accept is empty where the caller gives none.                            *)
ASSUME FrontAssumption ==
  Callers \subseteq
    [accept : {<< >>} \cup [1..1 -> Headers],
     version : SUBSET {"versionId", "versionTime"},
     did : [prefixed : BOOLEAN, name : Seq(Char)]]

VARIABLES
  caller,   \* the arguments of the call
  gate,     \* "accept", "options", "identifier", or how the call goes on
  launcher  \* the launcher ID it goes on with, as a set

frontVars == <<caller, gate, launcher, acceptVars>>

Refusals == {"representationNotSupported", "unsupportedResolutionOption", "invalidDid"}

(* accept is undefined.                                                    *)
NoPreference ==
  /\ gate = "accept" /\ caller.accept = << >>
  /\ gate' = "options"
  /\ UNCHANGED <<caller, launcher, acceptVars>>

Negotiates ==
  /\ gate = "accept" /\ caller.accept # << >>
  /\ AcceptNext
  /\ UNCHANGED <<caller, gate, launcher>>

Negotiated ==
  /\ gate = "accept" /\ verdict # "none"
  /\ gate' = IF verdict = "produced" THEN "options" ELSE "representationNotSupported"
  /\ UNCHANGED <<caller, launcher, acceptVars>>

(* Mutant: the options looked at before the accept value is negotiated.    *)
ChecksOptionsFirst ==
  /\ \/ gate = "options"
     \/ gate = "accept" /\ caller.version # {}
  /\ gate' = IF caller.version # {} THEN "unsupportedResolutionOption" ELSE "identifier"
  /\ UNCHANGED <<caller, launcher, acceptVars>>

ChecksOptions ==
  /\ gate = "options"
  /\ gate' = IF \E option \in {"versionId", "versionTime"} : option \in caller.version
               THEN "unsupportedResolutionOption" ELSE "identifier"
  /\ UNCHANGED <<caller, launcher, acceptVars>>

ParsesIdentifier ==
  /\ gate = "identifier"
  /\ launcher' = parseDid(caller.did)
  /\ gate' = IF parseDid(caller.did) = {} THEN "invalidDid" ELSE "tracing"
  /\ UNCHANGED <<caller, acceptVars>>

FrontInit ==
  /\ caller \in Callers /\ gate = "accept" /\ launcher = {}
  /\ header = IF caller.accept = << >> THEN << >> ELSE caller.accept[1]
  /\ AcceptStart

FrontNext == NoPreference \/ Negotiates \/ Negotiated \/ ChecksOptions \/ ParsesIdentifier

FrontSpec == FrontInit /\ [][FrontNext]_frontVars

-----------------------------------------------------------------------------
(* A call that goes on to the chain asked for what there is: a header that *)
(* allows the representation, no version; one that is refused was refused  *)
(* for the first thing that stood against it.                              *)
RefusedInOrder ==
  LET acceptable == caller.accept = << >> \/ Acceptable(caller.accept[1])
      current == caller.version = {}
  IN  /\ gate = "representationNotSupported" => ~acceptable
      /\ gate = "unsupportedResolutionOption" => acceptable /\ ~current
      /\ gate \in {"invalidDid", "tracing"} => acceptable /\ current

(* Identifiers and launcher IDs correspond one to one: the identifier a    *)
(* launcher ID was parsed from is the one it is formatted to, and what     *)
(* formatDid gives for any launcher ID, whatever zero octets it starts     *)
(* with, is never refused.                                                 *)
NamesMatchLaunchers ==
  /\ gate = "tracing" => \A l \in launcher : l \in LauncherId /\ formatDid(l) = caller.did
  /\ gate = "invalidDid" => \A l \in LauncherId : formatDid(l) # caller.did
=============================================================================
