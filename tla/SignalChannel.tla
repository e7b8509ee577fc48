---------------------------- MODULE SignalChannel ----------------------------
(***************************************************************************)
(* What the signalling relay promises to the two ends of a participant's   *)
(* signal connection: in each direction the messages accepted by the sink  *)
(* come out of the source once each, in the order they were accepted, with *)
(* none missing in between.  Messages are numbered 1, 2, ... as they are   *)
(* accepted.  The channel may stop short at any point (a session that      *)
(* ends), so nothing here says that a message does arrive.                 *)
(***************************************************************************)
EXTENDS Integers, Sequences

CONSTANTS
  Directions  \* the directions of a connection: requests and responses

VARIABLES
  accepted,   \* per direction: how many messages WriteMessage has accepted
  delivered   \* per direction: the messages put in the receiver's channel

chanVars == <<accepted, delivered>>

Init ==
  /\ accepted  = [d \in Directions |-> 0]
  /\ delivered = [d \in Directions |-> <<>>]

\* The sink takes one more message.
Accept(d) ==
  /\ accepted' = [accepted EXCEPT ![d] = @ + 1]
  /\ UNCHANGED delivered

\* The receiver's channel gets the next message in order.
Deliver(d) ==
  /\ Len(delivered[d]) < accepted[d]
  /\ delivered' = [delivered EXCEPT ![d] = Append(@, Len(@) + 1)]
  /\ UNCHANGED accepted

Next == \E d \in Directions : Accept(d) \/ Deliver(d)

Spec == Init /\ [][Next]_chanVars
=============================================================================
