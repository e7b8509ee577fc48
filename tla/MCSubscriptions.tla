-------------------------- MODULE MCSubscriptions --------------------------
(* What lies between a publisher and those it is heard by: the             *)
(* subscriptions of one participant (Subscriptions), the qualities asked   *)
(* of the publisher (Dynacast) and its data messages (DataMessages).  Each *)
(* leaves open what the others do, so they are explored one at a time.     *)
EXTENDS Subscriptions, Dynacast, DataMessages

CONSTANTS t1, t2, t3, v, w, d1, d2, d3, s1, s2, s3, s4, sender, p1, p2

VARIABLE part  \* "subscriptions", "dynacast" or "data"

\* Two tracks are published one after the other under one id, and one under another.
const_IdOf == [t \in {t1, t2, t3} |-> IF t = t3 THEN w ELSE v]

\* A publisher that sent its first message to another node, and two participants: the
\* third message is for one of them, by its identity, the fourth for one by its id and
\* for the other by its identity.
const_Came == [s \in {sender} |-> 1]
const_Dest == [s \in {sender} |-> [n \in 1..4 |-> IF n = 3 THEN {p1} ELSE {p1, p2}]]
const_Named == [s \in {sender} |-> [n \in 1..4 |->
                   IF n = 3 THEN {p1} ELSE IF n = 4 THEN {p2} ELSE {}]]

\* Each part begins in its initial states and goes on alone; the others just stay as
\* they are while it is explored.
MCInit ==
  /\ Init /\ DynacastInit /\ DataInit
  /\ part \in {"subscriptions", "dynacast", "data"}
  /\ part = "data" \/ next[sender] = 2

MCNext ==
  /\ UNCHANGED part
  /\ \/ part = "subscriptions" /\ Next /\ UNCHANGED <<dynacastVars, dataVars>>
     \/ part = "dynacast" /\ DynacastNext /\ UNCHANGED <<vars, dataVars>>
     \/ part = "data" /\ DataNext /\ UNCHANGED <<vars, dynacastVars>>

\* Only the subscriptions promise anything under fairness; where they stay as they are
\* at first, nothing that is fair can happen.
MCSpec == MCInit /\ [][MCNext]_<<part, vars, dynacastVars, dataVars>> /\ Fairness

=============================================================================
