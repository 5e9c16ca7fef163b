---------------------------- MODULE HttpTransport ----------------------------
(***************************************************************************)
(* One request of the client: httpTransport and readBoundedText of         *)
(* ts/src/chain.ts, with the timer, the caller's abort signal and the      *)
(* streamed response that race each other in it.  What Resolver takes for  *)
(* one answer or one outage is here a sequence of steps.                   *)
(*                                                                         *)
(* A body is a sequence of octets of three kinds: "ascii", and the "lead"  *)
(* and "trail" of a character of two octets, so that a chunk can end       *)
(* within a character.                                                     *)
(***************************************************************************)
EXTENDS Naturals, Sequences

CONSTANTS
  Requests,  \* the requests of the client, each made once
  Signals,   \* AbortSignals of callers; the requests of a call share one
  NoSignal,  \* a call without one
  Bodies,    \* response bodies
  Limit      \* MAX_RESPONSE_BYTES

Octet == {"ascii", "lead", "trail"}

ASSUME TransportAssumption ==
  /\ Bodies \subseteq Seq(Octet)
  /\ Limit \in Nat
  /\ NoSignal \notin Signals

VARIABLES
  phase,      \* "idle", "fetching", "reading", "buffering", "cancelling", "settled"
  signal,     \* the signal a request was given
  armed,      \* requests whose timer is set
  listening,  \* requests whose onAbort listens to their signal
  fired,      \* signals that were aborted
  aborted,    \* requests whose controller was aborted
  body,       \* what the endpoint sends
  total,      \* octets read
  held,       \* octets the decoder holds back
  text,       \* text decoded
  result      \* "none", "answer", "status", "oversized", "notJson" or "failed"

control == <<phase, armed, listening, aborted, result>>
response == <<body, total, held, text>>
vars == <<control, signal, fired, response>>

InFlight(q) == phase[q] \notin {"idle", "settled"}

(* Octets that are no whole character become the replacement character.    *)
WellPlaced(s, i) ==
  \/ s[i] = "ascii"
  \/ s[i] = "lead" /\ i < Len(s) /\ s[i + 1] = "trail"
  \/ s[i] = "trail" /\ i > 1 /\ s[i - 1] = "lead"

Decoded(s) == [i \in 1..Len(s) |-> IF WellPlaced(s, i) THEN s[i] ELSE "replacement"]

(* A decoder that streams waits for the rest of a character.               *)
EndsOpen(s) == Len(s) > 0 /\ s[Len(s)] = "lead"
Complete(s) == IF EndsOpen(s) THEN SubSeq(s, 1, Len(s) - 1) ELSE s
HeldBack(s) == IF EndsOpen(s) THEN <<"lead">> ELSE << >>

-----------------------------------------------------------------------------
(* Mutant: the listener left behind.                                       *)
LeavesListener(q, r) ==
  /\ phase' = [phase EXCEPT ![q] = "settled"]
  /\ result' = [result EXCEPT ![q] = r]
  /\ armed' = armed \ {q}
  /\ UNCHANGED listening

(* The request returns or throws, and finally clears up.                   *)
Settles(q, r) ==
  /\ phase' = [phase EXCEPT ![q] = "settled"]
  /\ result' = [result EXCEPT ![q] = r]
  /\ armed' = armed \ {q}
  /\ listening' = listening \ {q}

(* Mutants: the caller's signal not listened to; no timer.                 *)
IgnoresSignal(q, s) ==
  /\ phase[q] = "idle"
  /\ phase' = [phase EXCEPT ![q] = "fetching"]
  /\ signal' = [signal EXCEPT ![q] = s]
  /\ armed' = armed \cup {q}
  /\ UNCHANGED <<listening, fired, aborted, response, result>>

SetsNoTimer(q, s) ==
  /\ phase[q] = "idle"
  /\ phase' = [phase EXCEPT ![q] = "fetching"]
  /\ signal' = [signal EXCEPT ![q] = s]
  /\ listening' = IF s = NoSignal THEN listening ELSE listening \cup {q}
  /\ UNCHANGED <<armed, fired, aborted, response, result>>

(* The timer is set, the signal listened to, the request sent.  A signal   *)
(* that was aborted before will not tell.                                  *)
Start(q, s) ==
  /\ phase[q] = "idle"
  /\ phase' = [phase EXCEPT ![q] = "fetching"]
  /\ signal' = [signal EXCEPT ![q] = s]
  /\ armed' = armed \cup {q}
  /\ listening' = IF s = NoSignal THEN listening ELSE listening \cup {q}
  /\ UNCHANGED <<fired, aborted, response, result>>

(* fetch resolves with the head of the response.  A missing content-length *)
(* reads as 0; one that is there need not be the length of what follows.   *)
Responds(q, b, ok, declared, streamed) ==
  /\ phase[q] = "fetching" /\ q \notin aborted
  /\ IF ~ok \/ declared > Limit
       THEN /\ Settles(q, IF ok THEN "oversized" ELSE "status")
            /\ UNCHANGED body
       ELSE /\ phase' = [phase EXCEPT ![q] = IF streamed THEN "reading" ELSE "buffering"]
            /\ body' = [body EXCEPT ![q] = b]
            /\ UNCHANGED <<armed, listening, result>>
  /\ UNCHANGED <<signal, fired, aborted, total, held, text>>

(* Mutants: the limit itself refused; each chunk decoded on its own.       *)
RefusesLimit(n) == n >= Limit

DecodesAlone(q, chunk) ==
  /\ text' = [text EXCEPT ![q] = @ \o Decoded(chunk)]
  /\ UNCHANGED held

Exceeds(n) == n > Limit

(* decoder.decode(value, {stream: true})                                   *)
Decodes(q, chunk) ==
  LET in == held[q] \o chunk IN
  /\ text' = [text EXCEPT ![q] = @ \o Decoded(Complete(in))]
  /\ held' = [held EXCEPT ![q] = HeldBack(in)]

(* reader.read resolves with n octets.                                     *)
Reads(q, n) ==
  /\ phase[q] = "reading" /\ q \notin aborted
  /\ n \in 1..(Len(body[q]) - total[q])
  /\ total' = [total EXCEPT ![q] = @ + n]
  /\ IF Exceeds(total[q] + n)
       THEN phase' = [phase EXCEPT ![q] = "cancelling"] /\ UNCHANGED <<held, text>>
       ELSE /\ Decodes(q, SubSeq(body[q], total[q] + 1, total[q] + n))
            /\ UNCHANGED phase
  /\ UNCHANGED <<signal, armed, listening, fired, aborted, body, result>>

(* reader.cancel settles; the timer cannot interrupt it.                   *)
Cancelled(q) ==
  /\ phase[q] = "cancelling"
  /\ Settles(q, "oversized")
  /\ UNCHANGED <<signal, fired, aborted, response>>

(* Mutant: an answer taken although the request was aborted.               *)
AnswersLate(q, json) ==
  /\ phase[q] = "reading" /\ total[q] = Len(body[q])
  /\ text' = [text EXCEPT ![q] = @ \o Decoded(held[q])]
  /\ held' = [held EXCEPT ![q] = << >>]
  /\ Settles(q, IF json THEN "answer" ELSE "notJson")
  /\ UNCHANGED <<signal, fired, aborted, body, total>>

(* reader.read is done; the decoder gives up what it held back, and the    *)
(* text is parsed.                                                         *)
ReadsEnd(q, json) ==
  /\ phase[q] = "reading" /\ q \notin aborted /\ total[q] = Len(body[q])
  /\ text' = [text EXCEPT ![q] = @ \o Decoded(held[q])]
  /\ held' = [held EXCEPT ![q] = << >>]
  /\ Settles(q, IF json THEN "answer" ELSE "notJson")
  /\ UNCHANGED <<signal, fired, aborted, body, total>>

(* A response without a stream: response.text().                           *)
Buffers(q, json) ==
  /\ phase[q] = "buffering" /\ q \notin aborted
  /\ text' = [text EXCEPT ![q] = Decoded(body[q])]
  /\ total' = [total EXCEPT ![q] = Len(body[q])]
  /\ Settles(q, IF json THEN "answer" ELSE "notJson")
  /\ UNCHANGED <<signal, fired, aborted, body, held>>

(* What is awaited rejects: an aborted controller, or the network.         *)
Rejects(q) ==
  /\ phase[q] \in {"fetching", "reading", "buffering"}
  /\ Settles(q, "failed")
  /\ UNCHANGED <<signal, fired, aborted, response>>

Interrupted(q) == q \in aborted /\ Rejects(q)
NetworkFails(q) == q \notin aborted /\ Rejects(q)

TimerFires(q) ==
  /\ q \in armed
  /\ armed' = armed \ {q}
  /\ aborted' = aborted \cup {q}
  /\ UNCHANGED <<phase, signal, listening, fired, response, result>>

(* The caller aborts: onAbort of every request that listens runs.          *)
Abort(s) ==
  /\ s \in Signals \ fired
  /\ fired' = fired \cup {s}
  /\ aborted' = aborted \cup {q \in listening : signal[q] = s}
  /\ UNCHANGED <<phase, signal, armed, listening, response, result>>

-----------------------------------------------------------------------------
Init ==
  /\ phase = [q \in Requests |-> "idle"]
  /\ signal = [q \in Requests |-> NoSignal]
  /\ armed = {} /\ listening = {} /\ fired = {} /\ aborted = {}
  /\ body = [q \in Requests |-> << >>]
  /\ total = [q \in Requests |-> 0]
  /\ held = [q \in Requests |-> << >>]
  /\ text = [q \in Requests |-> << >>]
  /\ result = [q \in Requests |-> "none"]

Step(q) ==
  \/ \E s \in Signals \cup {NoSignal} : Start(q, s)
  \/ \E b \in Bodies, ok, streamed \in BOOLEAN, declared \in {0, Limit, Limit + 1} :
       Responds(q, b, ok, declared, streamed)
  \/ \E n \in 1..(Len(body[q]) - total[q]) : Reads(q, n)
  \/ Cancelled(q)
  \/ \E json \in BOOLEAN : ReadsEnd(q, json) \/ Buffers(q, json)
  \/ Interrupted(q) \/ NetworkFails(q)
  \/ TimerFires(q)

Next == (\E q \in Requests : Step(q)) \/ (\E s \in Signals : Abort(s))

Spec == Init /\ [][Next]_vars

(* Timers fire, the rejection of an aborted await is delivered, and a      *)
(* stream settles its cancel.  Nothing is assumed of the endpoint.         *)
FairSpec ==
  /\ Spec
  /\ \A q \in Requests :
       WF_vars(TimerFires(q)) /\ WF_vars(Interrupted(q)) /\ WF_vars(Cancelled(q))

-----------------------------------------------------------------------------
TransportTypeOK ==
  /\ phase \in [Requests -> {"idle", "fetching", "reading", "buffering", "cancelling", "settled"}]
  /\ signal \in [Requests -> Signals \cup {NoSignal}]
  /\ armed \subseteq Requests /\ listening \subseteq Requests /\ aborted \subseteq Requests
  /\ fired \subseteq Signals
  /\ body \in [Requests -> Seq(Octet)] /\ held \in [Requests -> Seq(Octet)]
  /\ text \in [Requests -> Seq(Octet \cup {"replacement"})]
  /\ total \in [Requests -> Nat]
  /\ result \in [Requests -> {"none", "answer", "status", "oversized", "notJson", "failed"}]

(* What is parsed is the body the endpoint sent, however it was cut into   *)
(* chunks: no character is broken, lost or left in the decoder, and the    *)
(* limit does not cut a body short.                                        *)
AnswersAreWhole ==
  \A q \in Requests : result[q] \in {"answer", "notJson"} => text[q] = Decoded(body[q])

(* A stream is read to the limit and no further: nothing past it is kept,  *)
(* and only a body that does exceed it is refused for its length.          *)
StreamsAreBounded ==
  \A q \in Requests :
    /\ phase[q] = "reading" => total[q] <= Limit /\ Len(text[q]) + Len(held[q]) = total[q]
    /\ phase[q] = "cancelling" => total[q] > Limit /\ Len(text[q]) + Len(held[q]) <= Limit

(* The timer and the listener live as long as the request, so that one     *)
(* signal shared by the thousands of requests of a walk collects none; a   *)
(* request that answered is never aborted afterwards.                      *)
NothingOutlivesTheRequest ==
  /\ listening = {q \in Requests : InFlight(q) /\ signal[q] # NoSignal}
  /\ \A q \in Requests :
       /\ q \in armed => InFlight(q)
       /\ InFlight(q) => q \in armed \cup aborted
       /\ result[q] \in {"answer", "notJson", "status"} => q \notin aborted

(* What the decoder was given by the octets read so far.                   *)
DecodedSoFar(q) ==
  LET s == SubSeq(body[q], 1, total[q]) IN
  /\ total[q] <= Len(body[q])
  /\ phase[q] = "reading" => text[q] = Decoded(Complete(s)) /\ held[q] = HeldBack(s)
  /\ phase[q] \in {"idle", "fetching", "buffering"} =>
       total[q] = 0 /\ held[q] = << >> /\ text[q] = << >>
  /\ phase[q] = "settled" <=> result[q] # "none"

(* The inductive invariant.                                                *)
TransportInv ==
  /\ TransportTypeOK
  /\ \A q \in Requests : DecodedSoFar(q)
  /\ AnswersAreWhole /\ StreamsAreBounded /\ NothingOutlivesTheRequest

(***************************************************************************)
(* The transport implements Request: what goes on between the head of a    *)
(* response and its end is one step, the one in which the request settles. *)
(***************************************************************************)
StageOf(q) ==
  IF ~InFlight(q) THEN (IF phase[q] = "idle" THEN "unsent" ELSE "settled")
  ELSE IF q \in aborted THEN "given up" ELSE "open"

stageBar == [q \in Requests |-> StageOf(q)]

replyBar ==
  [q \in Requests |-> IF result[q] = "answer" THEN [kind |-> "answer", text |-> text[q]]
                      ELSE [kind |-> result[q]]]

Promise == INSTANCE Request
             WITH Texts <- {Decoded(b) : b \in Bodies}, stage <- stageBar, reply <- replyBar

(* A request settles once, with the whole text of one response or with a   *)
(* fault, and never with an answer once its timer or signal gave it up,    *)
(* however the chunks, the timer, the signal and the network interleave.   *)
ImplementsRequest == Promise!RequestSpec

(* An abort reaches every request in flight under its signal, and none     *)
(* under another.                                                          *)
AbortReachesItsRequests ==
  [][\A s \in fired' \ fired :
       aborted' \ aborted = {q \in Requests \ aborted : InFlight(q) /\ signal[q] = s}]_vars

(* Whatever the endpoint does or leaves undone, a request that was sent    *)
(* settles.                                                                *)
EveryRequestSettles ==
  \A q \in Requests : phase[q] = "fetching" ~> phase[q] = "settled"
=============================================================================
