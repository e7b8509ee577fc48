----------------------------- MODULE MCTransport -----------------------------
(* The transport of one participant: its negotiation (Negotiation), and    *)
(* the packets of one of its down tracks (Forwarding).  Packets need no    *)
(* more of the negotiation than that it once came to an end, which         *)
(* Forwarding leaves open, so the two are explored one at a time.          *)
EXTENDS Negotiation, Forwarding

CONSTANTS low, high

VARIABLE part  \* "negotiation" or "forwarding"

----------------------------------------------------------------------------
\* Late packets and gaps in each of two layers, padding-only packets among
\* them; the numbers come round the cycle.
const_Incoming == [f \in {low, high} |-> IF f = low THEN 15..17 ELSE 12..13]
const_PaddingOnly == [f \in {low, high} |-> {16}]
const_FrameEnds == [f \in {low, high} |-> {12, 13, 15, 17}]
const_KeyFrames == [f \in {low, high} |-> IF f = low THEN {15} ELSE {12}]
const_Numbers == 12..18

----------------------------------------------------------------------------
\* Each part begins in its initial states and goes on alone; the other just stays as
\* it is while it is explored.
MCInit == Init /\ ForwardingInit /\ part \in {"negotiation", "forwarding"}

MCNext ==
  /\ UNCHANGED part
  /\ \/ part = "negotiation" /\ Next /\ UNCHANGED forwardingVars
     \/ part = "forwarding" /\ ForwardingNext /\ UNCHANGED vars

\* Only the negotiation promises anything under fairness; where it stays as it is at
\* first, nothing that is fair can happen.
MCSpec == MCInit /\ [][MCNext]_<<part, vars, forwardingVars>> /\ Fairness

=============================================================================
