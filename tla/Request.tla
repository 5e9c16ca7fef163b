-------------------------------- MODULE Request --------------------------------
(***************************************************************************)
(* What the client promises of its HTTP requests: each is sent, perhaps    *)
(* given up, and settles once, in one step, with the whole text of the     *)
(* response or with a fault.  Resolver takes a request for this: Answer,   *)
(* Fail, Timeout and Abort are its steps.                                  *)
(***************************************************************************)
CONSTANTS
  Requests,
  Texts      \* the texts of whole responses

VARIABLES
  stage,     \* "unsent", "open", "given up" or "settled"
  reply      \* what the caller gets

requestVars == <<stage, reply>>

NoReply == [kind |-> "none"]
TextOf(t) == [kind |-> "answer", text |-> t]
Fault(k) == [kind |-> k]

Faults == {"status", "oversized", "notJson", "failed"}

(* Of a request that was given up, these.                                  *)
LateFaults == {"oversized", "failed"}

Settle(q, from, r) ==
  /\ stage[q] = from
  /\ stage' = [stage EXCEPT ![q] = "settled"]
  /\ reply' = [reply EXCEPT ![q] = r]

Send(q) ==
  /\ stage[q] = "unsent"
  /\ stage' = [stage EXCEPT ![q] = "open"]
  /\ UNCHANGED reply

(* A timer gives up one request, a signal all those of its calls.          *)
GiveUp(Q) ==
  /\ \A q \in Q : stage[q] = "open"
  /\ stage' = [q \in Requests |-> IF q \in Q THEN "given up" ELSE stage[q]]
  /\ UNCHANGED reply

(* Only a request that was not given up is answered.                       *)
Answered(q) == \E t \in Texts : Settle(q, "open", TextOf(t))

Failed(q) ==
  \/ \E k \in Faults : Settle(q, "open", Fault(k))
  \/ \E k \in LateFaults : Settle(q, "given up", Fault(k))

RequestInit ==
  /\ stage = [q \in Requests |-> "unsent"]
  /\ reply = [q \in Requests |-> NoReply]

RequestNext ==
  \/ \E q \in Requests : Send(q) \/ Answered(q) \/ Failed(q)
  \/ \E Q \in SUBSET Requests : GiveUp(Q)

RequestSpec == RequestInit /\ [][RequestNext]_requestVars
=============================================================================
