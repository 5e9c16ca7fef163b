----------------------------- MODULE MCLifecycle ------------------------------
(* Small instances of DidLifecycle for TLC.                                *)
EXTENDS DidLifecycle

CONSTANTS k1, k2, d1, p1

Keys == {k1, k2}
Dids == {d1}
OnePointer == {p1}

Both == [root |-> Keys, need |-> 2]
Configs == {SingleKey(k1), SingleKey(k2), Both, Inert, Nil, Malformed}

Agents == [pre |-> SingleKey(k2), agents |-> Dids, delay |-> 1]
NoAgents(pre) == [pre |-> pre, agents |-> {}, delay |-> 1]
BadAgents == [pre |-> Malformed, agents |-> Dids, delay |-> Malformed]
Setups == {Nil, Predecessor, Agents, BadAgents, NoAgents(Inert), NoAgents(SingleKey(k2))}

(* Two ways to brick the DID, every single way to leave it alive, and a    *)
(* malformed value in each of the three slots.                             *)
Slots(a, C, r) == [auth |-> a, custodians |-> C, recovery |-> r]
Installs ==
  {Slots(Nil, {}, Nil), Slots(Inert, {}, NoAgents(Inert)),
   Slots(SingleKey(k1), {}, Agents), Slots(SingleKey(k2), {}, Nil), Slots(Both, {}, Nil),
   Slots(Inert, Dids, Nil), Slots(Inert, {}, Agents), Slots(Nil, {}, NoAgents(SingleKey(k2))),
   Slots(Nil, {}, Predecessor), Slots(Malformed, {}, Agents),
   Slots(SingleKey(k1), Malformed, Agents), Slots(Nil, {}, BadAgents)}

(* Agents and no pre-rotation.                                             *)
OnlyAgents == {[Agents EXCEPT !.pre = Nil]}

Nothing == {}
OwnersAndZero == {k2, Zero}
=============================================================================
