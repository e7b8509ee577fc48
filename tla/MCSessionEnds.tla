---------------------------- MODULE MCSessionEnds ----------------------------
(* The two ends of a session: the page of the browser (BoticalClient) and  *)
(* the sessions of one identity in one room of the node (RoomSession).     *)
(* The page depends on the node only for the events of the SDK, which      *)
(* BoticalClient leaves open, so the two are explored one at a time; the   *)
(* other stays as it is at first, where nothing that is fair can happen.   *)
EXTENDS BoticalClient

CONSTANTS node, noNodeRoom, c1, c2, noConn, alice

VARIABLES
  focus,      \* the end that is explored
  mapped, created, shut, closer, toClose, holds, members, sources, janitor,
  pc, seen, at, identity, who,
  state, isClosed, listening, leaving, removing, leftTimer, ended, worker

nodeVars ==
  <<mapped, created, shut, closer, toClose, holds, members, sources, janitor,
    pc, seen, at, identity, who,
    state, isClosed, listening, leaving, removing, leftTimer, ended, worker>>

Node ==
  INSTANCE RoomSession WITH Rooms <- {node}, NoRoom <- noNodeRoom,
                            Conns <- {c1, c2}, NoConn <- noConn, Identities <- {alice}

MCInit == Init /\ Node!Init /\ focus \in {"page", "node"}

\* (The node may stop, and that is no deadlock; the page always goes on.)
MCNext ==
  \/ focus = "page" /\ Next /\ UNCHANGED <<focus, nodeVars>>
  \/ focus = "node" /\ Node!Next /\ UNCHANGED <<focus, vars>>
  \/ focus = "node" /\ UNCHANGED <<focus, vars, nodeVars>>

MCSpec ==
  MCInit /\ [][MCNext]_<<focus, vars, nodeVars>> /\ Fairness /\ Node!Fairness

\* A closed participant does not stay in the room's maps: the promise of
\* RoomSession, with one room.
ClosedLeaves == Node!ClosedLeaves

=============================================================================
