---------------------------- MODULE MCSignalRelay ----------------------------
(* Both directions of a session, of which only one is used at a time: the   *)
(* two share the stream and its closing, and nothing else.                  *)
EXTENDS SignalRelay

\* Nothing was written to, and nothing ended in, direction d.
Unused(d) == accepted[d] = 0 /\ ~draining[d] /\ copier[d] # "stop" /\ ~chanClosed[d]

OneUsed == \A d, e \in Directions : d # e => Unused(d) \/ Unused(e)

\* Two requests, with two packets in the receive buffer, or three responses
\* with one: requests survive no failed send, so the third adds nothing there.
Bounded == accepted["req"] <= 2 /\ Len(recv["res"]) <= 1

MCSpec == Init /\ [][Next /\ OneUsed' /\ Bounded']_vars /\ Fairness

=============================================================================
