----------------------------- MODULE NodeProofs -----------------------------
(***************************************************************************)
(* Proofs about a media node and the nodes beside it: which node has the   *)
(* room of a name (RoomPlacement), the tracks a participant publishes and  *)
(* the supervisor that watches over them (Publishing), and the numbers of  *)
(* the packets that are forwarded to a subscriber (Forwarding).            *)
(***************************************************************************)
EXTENDS RoomPlacement, Publishing, Forwarding, SequenceTheorems, FunctionTheorems,
        FiniteSetTheorems, TLAPS

----------------------------------------------------------------------------
(***************************************************************************)
(* RoomPlacement, for any calls, nodes and number of faults. The room of a *)
(* name is where it is routed to and has the id of its entry; PlacementInv *)
(* says why, call by call, until a route or an entry was overtaken.        *)
(***************************************************************************)
Stages == {"start", "set", "route", "arrive", "get", "lock", "load", "store", "unlock", "map",
           "in", "delete", "wait", "unknown", "drop", "done"}

\* The values of the variables, and where a call knows which node it goes to.
PlacementTypes ==
  /\ route \in Nodes \cup {NoNode} /\ up \subseteq Nodes
  /\ stored \in Calls \cup {NoCall} /\ roomLock \in Calls \cup {NoCall}
  /\ roomAt \in [Nodes -> Calls \cup {NoCall}]
  /\ room \in [Calls -> {"none", "open", "closed", "forgotten", "gone"}]
  /\ id \in [Calls -> Calls \cup {NoCall}]
  /\ todo \in [Calls -> SUBSET {"route", "store"}]
  /\ stage \in [Calls -> Stages]
  /\ node \in [Calls -> Nodes \cup {NoNode}]
  /\ saw \in [Calls -> Calls \cup {NoCall} \cup Nodes \cup {NoNode}]
  /\ causes \subseteq {"route", "entry"}
  /\ \A c \in Calls : Inside(c) \/ stage[c] \in {"set", "arrive"} => node[c] \in Nodes

\* A call that made a room is past the steps that change where the call goes, so the
\* room stays on its node, and it has an id; a session arrives at a node that runs.
CallOf(c) ==
  /\ room[c] # "none" => stage[c] \in {"in", "delete", "wait", "unknown", "drop", "done"}
  /\ stage[c] \in {"store", "unlock", "map"} \/ room[c] # "none" => id[c] \in Calls
  /\ todo[c] # {} => room[c] # "none"
  /\ stage[c] = "arrive" => node[c] \in up

\* As long as no route was overtaken: who is about to get a room, or has one open, is
\* on the node the name is routed to, and who is about to set the route saw none that
\* runs.
RouteOf(c) ==
  /\ Inside(c) \/ Open(c) => node[c] = route /\ route \in up
  /\ stage[c] = "set" => saw[c] \notin up

\* As long as no entry was: the lock is held from reading to writing, so what is
\* written is the id of whoever has a room, and what a room has is what is stored.
EntryOf(c) ==
  /\ stage[c] \in {"load", "store"} => roomLock = c
  /\ stage[c] = "store" => ~Overtaken(id[c])
  /\ stage[c] \in {"unlock", "map"} \/ Open(c) => id[c] = stored /\ stored \in Calls

PlacementInv ==
  /\ PlacementTypes
  /\ \A c \in Calls : CallOf(c)
  /\ "route" \notin causes => \A c \in Calls : RouteOf(c)
  /\ "entry" \notin causes => \A c \in Calls : EntryOf(c)

\* Every action keeps the types.
LEMMA TypesKept ==
  ASSUME PlacementTypes, PlacementNext
  PROVE  PlacementTypes'
<1> USE DEF PlacementTypes, Stages, sharedVars, nodeVars, placedVars, callVars, Go, End, Inside
<1>1. ASSUME NEW c \in Calls, SelectNode(c) PROVE PlacementTypes'
  <2>1. CASE ~UNCHANGED causes
    <3>1. PICK n \in Nodes : node' = [node EXCEPT ![c] = n]
      BY <1>1, <2>1 DEF SelectNode
    <3>2. stage' = [stage EXCEPT ![c] = "set"] /\ saw' = [saw EXCEPT ![c] = route]
      BY <1>1, <2>1 DEF SelectNode
    <3>3. UNCHANGED <<sharedVars, nodeVars, placedVars>> /\ causes' \subseteq causes \cup {"route"}
      BY <1>1, <2>1 DEF SelectNode
    <3> QED
      BY <3>1, <3>2, <3>3
  <2>2. CASE UNCHANGED causes
    BY <1>1, <2>2 DEF SelectNode
  <2> QED
    BY <2>1, <2>2
<1>2. ASSUME NEW c \in Calls, SetNode(c) PROVE PlacementTypes'
  BY <1>2 DEF SetNode
<1>3. ASSUME NEW c \in Calls, StartDelete(c) PROVE PlacementTypes'
  BY <1>3 DEF StartDelete
<1>4. ASSUME NEW c \in Calls, Route(c) PROVE PlacementTypes'
  BY <1>4 DEF Route
<1>5. ASSUME NEW c \in Calls, Arrive(c) PROVE PlacementTypes'
  BY <1>5 DEF Arrive
<1>6. ASSUME NEW c \in Calls, Get(c) PROVE PlacementTypes'
  BY <1>6 DEF Get, Open
<1>7. ASSUME NEW c \in Calls, LockRoom(c) PROVE PlacementTypes'
  BY <1>7 DEF LockRoom
<1>8. ASSUME NEW c \in Calls, LoadRoom(c) PROVE PlacementTypes'
  BY <1>8 DEF LoadRoom
<1>9. ASSUME NEW c \in Calls, StoreRoom(c) PROVE PlacementTypes'
  BY <1>9 DEF StoreRoom
<1>10. ASSUME NEW c \in Calls, UnlockRoom(c) PROVE PlacementTypes'
  BY <1>10 DEF UnlockRoom
<1>11. ASSUME NEW c \in Calls, MapRoom(c) PROVE PlacementTypes'
  BY <1>11 DEF MapRoom, Open
<1>12. ASSUME NEW c \in Calls, Release(c) PROVE PlacementTypes'
  BY <1>12 DEF Release
<1>13. ASSUME NEW c \in Calls, CloseRoom(c) PROVE PlacementTypes'
  BY <1>13 DEF CloseRoom, Open
<1>14. ASSUME NEW c \in Calls, DropAgain(c) PROVE PlacementTypes'
  BY <1>14 DEF DropAgain, Drops
<1>15. ASSUME NEW c \in Calls, CloseIdleRoom(c) PROVE PlacementTypes'
  BY <1>15 DEF CloseIdleRoom, Open
<1>16. ASSUME NEW c \in Calls, Forget(c) PROVE PlacementTypes'
  BY <1>16 DEF Forget
<1>17. ASSUME NEW c \in Calls, ClearRoute(c) PROVE PlacementTypes'
  BY <1>17 DEF ClearRoute, Cleared
<1>18. ASSUME NEW c \in Calls, DropRoom(c) PROVE PlacementTypes'
  BY <1>18 DEF DropRoom, Cleared, Drops
<1>19. CASE Expire
  BY <1>19 DEF Expire, Fault
<1>20. ASSUME NEW n \in Nodes, Late(n) PROVE PlacementTypes'
  BY <1>20 DEF Late, Fault
<1>21. ASSUME NEW n \in Nodes, InTime(n) PROVE PlacementTypes'
  BY <1>21 DEF InTime
<1>22. ASSUME NEW n \in Nodes, Crash(n) PROVE PlacementTypes'
  BY <1>22 DEF Crash, Fault
<1>23. ASSUME NEW c \in Calls, WriteEntry(c) PROVE PlacementTypes'
  BY <1>23 DEF WriteEntry
<1>24. ASSUME NEW c \in Calls, DropUnknown(c) PROVE PlacementTypes'
  BY <1>24 DEF DropUnknown, Drops
<1> QED
  BY <1>1, <1>2, <1>3, <1>4, <1>5, <1>6, <1>7, <1>8, <1>9, <1>10, <1>11, <1>12, <1>13,
     <1>14, <1>15, <1>16, <1>17, <1>18, <1>19, <1>20, <1>21, <1>22, <1>23, <1>24
     DEF PlacementNext

\* What was overtaken stays so.
LEMMA CausesGrow == PlacementNext => causes \subseteq causes'
BY DEF PlacementNext, Drops, Expire, Late, InTime, Crash,
   SelectNode, SetNode, StartDelete, Route, Arrive, Get, LockRoom, LoadRoom, StoreRoom, UnlockRoom,
   MapRoom, Release, CloseRoom, DropAgain, CloseIdleRoom, Forget, ClearRoute, DropRoom,
   WriteEntry, DropUnknown

LEMMA CallsKept ==
  ASSUME PlacementInv, PlacementNext, NEW d \in Calls
  PROVE  CallOf(d)'
<1>0. PlacementTypes /\ PlacementTypes' /\ CallOf(d)
  BY TypesKept DEF PlacementInv
<1> USE DEF PlacementTypes, Stages, sharedVars, nodeVars, placedVars, callVars, Go, End, CallOf, Inside
<1>1. ASSUME NEW c \in Calls, SelectNode(c) PROVE CallOf(d)'
  BY <1>0, <1>1 DEF SelectNode
<1>2. ASSUME NEW c \in Calls, SetNode(c) PROVE CallOf(d)'
  BY <1>0, <1>2 DEF SetNode
<1>3. ASSUME NEW c \in Calls, StartDelete(c) PROVE CallOf(d)'
  BY <1>0, <1>3 DEF StartDelete
<1>4. ASSUME NEW c \in Calls, Route(c) PROVE CallOf(d)'
  BY <1>0, <1>4 DEF Route
<1>5. ASSUME NEW c \in Calls, Arrive(c) PROVE CallOf(d)'
  BY <1>0, <1>5 DEF Arrive
<1>6. ASSUME NEW c \in Calls, Get(c) PROVE CallOf(d)'
  BY <1>0, <1>6 DEF Get, Open
<1>7. ASSUME NEW c \in Calls, LockRoom(c) PROVE CallOf(d)'
  BY <1>0, <1>7 DEF LockRoom
<1>8. ASSUME NEW c \in Calls, LoadRoom(c) PROVE CallOf(d)'
  BY <1>0, <1>8 DEF LoadRoom
<1>9. ASSUME NEW c \in Calls, StoreRoom(c) PROVE CallOf(d)'
  BY <1>0, <1>9 DEF StoreRoom
<1>10. ASSUME NEW c \in Calls, UnlockRoom(c) PROVE CallOf(d)'
  BY <1>0, <1>10 DEF UnlockRoom
<1>11. ASSUME NEW c \in Calls, MapRoom(c) PROVE CallOf(d)'
  BY <1>0, <1>11 DEF MapRoom, Open
<1>12. ASSUME NEW c \in Calls, Release(c) PROVE CallOf(d)'
  BY <1>0, <1>12 DEF Release
<1>13. ASSUME NEW c \in Calls, CloseRoom(c) PROVE CallOf(d)'
  BY <1>0, <1>13 DEF CloseRoom, Open
<1>14. ASSUME NEW c \in Calls, DropAgain(c) PROVE CallOf(d)'
  BY <1>0, <1>14 DEF DropAgain, Drops
<1>15. ASSUME NEW c \in Calls, CloseIdleRoom(c) PROVE CallOf(d)'
  BY <1>0, <1>15 DEF CloseIdleRoom, Open
<1>16. ASSUME NEW c \in Calls, Forget(c) PROVE CallOf(d)'
  BY <1>0, <1>16 DEF Forget
<1>17. ASSUME NEW c \in Calls, ClearRoute(c) PROVE CallOf(d)'
  BY <1>0, <1>17 DEF ClearRoute, Cleared
<1>18. ASSUME NEW c \in Calls, DropRoom(c) PROVE CallOf(d)'
  BY <1>0, <1>18 DEF DropRoom, Cleared, Drops
<1>19. CASE Expire
  BY <1>0, <1>19 DEF Expire, Fault
<1>20. ASSUME NEW n \in Nodes, Late(n) PROVE CallOf(d)'
  BY <1>0, <1>20 DEF Late, Fault
<1>21. ASSUME NEW n \in Nodes, InTime(n) PROVE CallOf(d)'
  BY <1>0, <1>21 DEF InTime
<1>22. ASSUME NEW n \in Nodes, Crash(n) PROVE CallOf(d)'
  BY <1>0, <1>22 DEF Crash, Fault
<1>23. ASSUME NEW c \in Calls, WriteEntry(c) PROVE CallOf(d)'
  BY <1>0, <1>23 DEF WriteEntry
<1>24. ASSUME NEW c \in Calls, DropUnknown(c) PROVE CallOf(d)'
  BY <1>0, <1>24 DEF DropUnknown, Drops
<1> QED
  BY <1>1, <1>2, <1>3, <1>4, <1>5, <1>6, <1>7, <1>8, <1>9, <1>10, <1>11, <1>12, <1>13,
     <1>14, <1>15, <1>16, <1>17, <1>18, <1>19, <1>20, <1>21, <1>22, <1>23, <1>24
     DEF PlacementNext

LEMMA RoutesKept ==
  ASSUME PlacementInv, PlacementNext, "route" \notin causes', NEW d \in Calls
  PROVE  RouteOf(d)'
<1>0. PlacementTypes /\ PlacementTypes' /\ CallOf(d)
  BY TypesKept DEF PlacementInv
<1>a. \A c \in Calls : RouteOf(c)
  BY CausesGrow DEF PlacementInv
<1> USE DEF PlacementTypes, Stages, sharedVars, nodeVars, placedVars, callVars, Go, End, CallOf,
            RouteOf, Inside, Open
<1>1. ASSUME NEW c \in Calls, SelectNode(c) PROVE RouteOf(d)'
  BY <1>0, <1>a, PlacementNames, <1>1 DEF SelectNode
<1>2. ASSUME NEW c \in Calls, SetNode(c) PROVE RouteOf(d)'
  BY <1>0, <1>a, PlacementNames, <1>2 DEF SetNode
<1>3. ASSUME NEW c \in Calls, StartDelete(c) PROVE RouteOf(d)'
  BY <1>0, <1>a, PlacementNames, <1>3 DEF StartDelete
<1>4. ASSUME NEW c \in Calls, Route(c) PROVE RouteOf(d)'
  BY <1>0, <1>a, PlacementNames, <1>4 DEF Route
<1>5. ASSUME NEW c \in Calls, Arrive(c) PROVE RouteOf(d)'
  BY <1>0, <1>a, PlacementNames, <1>5 DEF Arrive
<1>6. ASSUME NEW c \in Calls, Get(c) PROVE RouteOf(d)'
  BY <1>0, <1>a, PlacementNames, <1>6 DEF Get, Open
<1>7. ASSUME NEW c \in Calls, LockRoom(c) PROVE RouteOf(d)'
  BY <1>0, <1>a, PlacementNames, <1>7 DEF LockRoom
<1>8. ASSUME NEW c \in Calls, LoadRoom(c) PROVE RouteOf(d)'
  BY <1>0, <1>a, PlacementNames, <1>8 DEF LoadRoom
<1>9. ASSUME NEW c \in Calls, StoreRoom(c) PROVE RouteOf(d)'
  BY <1>0, <1>a, PlacementNames, <1>9 DEF StoreRoom
<1>10. ASSUME NEW c \in Calls, UnlockRoom(c) PROVE RouteOf(d)'
  BY <1>0, <1>a, PlacementNames, <1>10 DEF UnlockRoom
<1>11. ASSUME NEW c \in Calls, MapRoom(c) PROVE RouteOf(d)'
  BY <1>0, <1>a, PlacementNames, <1>11 DEF MapRoom, Open
<1>12. ASSUME NEW c \in Calls, Release(c) PROVE RouteOf(d)'
  BY <1>0, <1>a, PlacementNames, <1>12 DEF Release
<1>13. ASSUME NEW c \in Calls, CloseRoom(c) PROVE RouteOf(d)'
  BY <1>0, <1>a, PlacementNames, <1>13 DEF CloseRoom, Open
<1>14. ASSUME NEW c \in Calls, DropAgain(c) PROVE RouteOf(d)'
  BY <1>0, <1>a, PlacementNames, <1>14 DEF DropAgain, Drops
<1>15. ASSUME NEW c \in Calls, CloseIdleRoom(c) PROVE RouteOf(d)'
  BY <1>0, <1>a, PlacementNames, <1>15 DEF CloseIdleRoom, Open
<1>16. ASSUME NEW c \in Calls, Forget(c) PROVE RouteOf(d)'
  BY <1>0, <1>a, PlacementNames, <1>16 DEF Forget
<1>17. ASSUME NEW c \in Calls, ClearRoute(c) PROVE RouteOf(d)'
  BY <1>0, <1>a, PlacementNames, <1>17 DEF ClearRoute, Cleared
<1>18. ASSUME NEW c \in Calls, DropRoom(c) PROVE RouteOf(d)'
  BY <1>0, <1>a, PlacementNames, <1>18 DEF DropRoom, Cleared, Drops
<1>19. CASE Expire
  BY <1>0, <1>a, PlacementNames, <1>19 DEF Expire, Fault
<1>20. ASSUME NEW n \in Nodes, Late(n) PROVE RouteOf(d)'
  BY <1>0, <1>a, PlacementNames, <1>20 DEF Late, Fault
<1>21. ASSUME NEW n \in Nodes, InTime(n) PROVE RouteOf(d)'
  BY <1>0, <1>a, PlacementNames, <1>21 DEF InTime
<1>22. ASSUME NEW n \in Nodes, Crash(n) PROVE RouteOf(d)'
  BY <1>0, <1>a, PlacementNames, <1>22 DEF Crash, Fault
<1>23. ASSUME NEW c \in Calls, WriteEntry(c) PROVE RouteOf(d)'
  BY <1>0, <1>a, PlacementNames, <1>23 DEF WriteEntry
<1>24. ASSUME NEW c \in Calls, DropUnknown(c) PROVE RouteOf(d)'
  BY <1>0, <1>a, PlacementNames, <1>24 DEF DropUnknown, Drops
<1> QED
  BY <1>1, <1>2, <1>3, <1>4, <1>5, <1>6, <1>7, <1>8, <1>9, <1>10, <1>11, <1>12, <1>13,
     <1>14, <1>15, <1>16, <1>17, <1>18, <1>19, <1>20, <1>21, <1>22, <1>23, <1>24
     DEF PlacementNext

LEMMA EntriesKept ==
  ASSUME PlacementInv, PlacementNext, "entry" \notin causes', NEW d \in Calls
  PROVE  EntryOf(d)'
<1>0. PlacementTypes /\ PlacementTypes' /\ CallOf(d)
  BY TypesKept DEF PlacementInv
<1>a. \A c \in Calls : EntryOf(c)
  BY CausesGrow DEF PlacementInv
<1> USE DEF PlacementTypes, Stages, sharedVars, nodeVars, placedVars, callVars, Go, End, CallOf,
            EntryOf, Inside, Open, Overtaken
<1>1. ASSUME NEW c \in Calls, SelectNode(c) PROVE EntryOf(d)'
  BY <1>0, <1>a, PlacementNames, <1>1 DEF SelectNode
<1>2. ASSUME NEW c \in Calls, SetNode(c) PROVE EntryOf(d)'
  BY <1>0, <1>a, PlacementNames, <1>2 DEF SetNode
<1>3. ASSUME NEW c \in Calls, StartDelete(c) PROVE EntryOf(d)'
  BY <1>0, <1>a, PlacementNames, <1>3 DEF StartDelete
<1>4. ASSUME NEW c \in Calls, Route(c) PROVE EntryOf(d)'
  BY <1>0, <1>a, PlacementNames, <1>4 DEF Route
<1>5. ASSUME NEW c \in Calls, Arrive(c) PROVE EntryOf(d)'
  BY <1>0, <1>a, PlacementNames, <1>5 DEF Arrive
<1>6. ASSUME NEW c \in Calls, Get(c) PROVE EntryOf(d)'
  BY <1>0, <1>a, PlacementNames, <1>6 DEF Get, Open
<1>7. ASSUME NEW c \in Calls, LockRoom(c) PROVE EntryOf(d)'
  BY <1>0, <1>a, PlacementNames, <1>7 DEF LockRoom
<1>8. ASSUME NEW c \in Calls, LoadRoom(c) PROVE EntryOf(d)'
  <2>1. \A x \in Calls : /\ stage[x] \in {"unlock", "map"} \/ Open(x) => x # c
                         /\ stage'[x] \in {"unlock", "map"} <=> stage[x] \in {"unlock", "map"}
                         /\ Open(x)' <=> Open(x)
    BY <1>0, <1>8 DEF LoadRoom, PlacementInv
  <2>2. \A x \in Calls : x # c => id'[x] = id[x] /\ stage'[x] = stage[x]
    BY <1>8 DEF LoadRoom
  <2>3. stage'[c] = "store" /\ id'[c] = (IF stored = NoCall THEN c ELSE stored) /\ roomLock' = c
    BY <1>0, <1>a, <1>8 DEF LoadRoom
  <2>4. stored' = stored /\ roomLock' = roomLock
    BY <1>8 DEF LoadRoom
  <2>5. CASE d = c
    <3>1. \A x \in Calls : stage[x] \in {"unlock", "map"} \/ Open(x) => id[x] = id'[c]
      BY <1>a, <2>3, PlacementNames
    <3> QED
      BY <2>1, <2>2, <2>3, <2>5, <3>1
  <2>6. CASE d # c
    BY <1>a, <2>1, <2>2, <2>3, <2>4, <2>6
  <2> QED
    BY <2>5, <2>6
<1>9. ASSUME NEW c \in Calls, StoreRoom(c) PROVE EntryOf(d)'
  <2>1. /\ stage[c] = "store" /\ roomLock = c /\ id[c] \in Calls
        /\ \A x \in Calls : stage[x] \in {"unlock", "map"} \/ Open(x) => id[x] = id[c]
    BY <1>0, <1>a, <1>9 DEF StoreRoom, PlacementInv
  <2>2. /\ stored' = id[c] /\ id' = id /\ roomLock' = roomLock /\ room' = room
        /\ stage' = [stage EXCEPT ![c] = "unlock"]
    BY <1>9 DEF StoreRoom
  <2>3. CASE d = c
    BY <1>0, <2>1, <2>2, <2>3
  <2>4. CASE d # c
    BY <1>0, <1>a, <2>1, <2>2, <2>4
  <2> QED
    BY <2>3, <2>4
<1>10. ASSUME NEW c \in Calls, UnlockRoom(c) PROVE EntryOf(d)'
  <2>1. \A x \in Calls : stage'[x] \in {"unlock", "map"} \/ Open(x)'
                           => stage[x] \in {"unlock", "map"} \/ Open(x)
    BY <1>0, <1>10 DEF UnlockRoom
  <2>2. stage'[d] \in {"load", "store"} => stage'[d] = stage[d] /\ d # c
    BY <1>0, <1>10 DEF UnlockRoom
  <2>3. id' = id /\ stored' = stored /\ (roomLock = d /\ d # c => roomLock' = d)
    BY <1>10 DEF UnlockRoom
  <2> QED
    BY <1>0, <1>a, <2>1, <2>2, <2>3
<1>11. ASSUME NEW c \in Calls, MapRoom(c) PROVE EntryOf(d)'
  <2>1. \A x \in Calls : stage'[x] \in {"unlock", "map"} \/ Open(x)'
                           => (stage[x] \in {"unlock", "map"} \/ Open(x)) /\ id'[x] = id[x]
    <3>1. room[c] = "none" /\ stage[c] = "map"
      BY <1>0, <1>11 DEF MapRoom, PlacementInv
    <3> QED
      BY <1>0, <1>11, <3>1 DEF MapRoom
  <2>2. stage'[d] \in {"load", "store"} => stage'[d] = stage[d] /\ d # c /\ id'[d] = id[d]
    BY <1>0, <1>11 DEF MapRoom
  <2>3. roomLock' = roomLock /\ stored' = stored
    BY <1>11 DEF MapRoom
  <2> QED
    BY <1>0, <1>a, <2>1, <2>2, <2>3
<1>12. ASSUME NEW c \in Calls, Release(c) PROVE EntryOf(d)'
  BY <1>0, <1>a, PlacementNames, <1>12 DEF Release
<1>13. ASSUME NEW c \in Calls, CloseRoom(c) PROVE EntryOf(d)'
  BY <1>0, <1>a, PlacementNames, <1>13 DEF CloseRoom, Open
<1>14. ASSUME NEW c \in Calls, DropAgain(c) PROVE EntryOf(d)'
  BY <1>0, <1>a, PlacementNames, <1>14 DEF DropAgain, Drops
<1>15. ASSUME NEW c \in Calls, CloseIdleRoom(c) PROVE EntryOf(d)'
  BY <1>0, <1>a, PlacementNames, <1>15 DEF CloseIdleRoom, Open
<1>16. ASSUME NEW c \in Calls, Forget(c) PROVE EntryOf(d)'
  BY <1>0, <1>a, PlacementNames, <1>16 DEF Forget
<1>17. ASSUME NEW c \in Calls, ClearRoute(c) PROVE EntryOf(d)'
  BY <1>0, <1>a, PlacementNames, <1>17 DEF ClearRoute, Cleared
<1>18. ASSUME NEW c \in Calls, DropRoom(c) PROVE EntryOf(d)'
  BY <1>0, <1>a, PlacementNames, <1>18 DEF DropRoom, Cleared, Drops
<1>19. CASE Expire
  BY <1>0, <1>a, PlacementNames, <1>19 DEF Expire, Fault
<1>20. ASSUME NEW n \in Nodes, Late(n) PROVE EntryOf(d)'
  BY <1>0, <1>a, PlacementNames, <1>20 DEF Late, Fault
<1>21. ASSUME NEW n \in Nodes, InTime(n) PROVE EntryOf(d)'
  BY <1>0, <1>a, PlacementNames, <1>21 DEF InTime
<1>22. ASSUME NEW n \in Nodes, Crash(n) PROVE EntryOf(d)'
  BY <1>0, <1>a, PlacementNames, <1>22 DEF Crash, Fault
<1>23. ASSUME NEW c \in Calls, WriteEntry(c) PROVE EntryOf(d)'
  BY <1>0, <1>a, PlacementNames, <1>23 DEF WriteEntry
<1>24. ASSUME NEW c \in Calls, DropUnknown(c) PROVE EntryOf(d)'
  BY <1>0, <1>a, PlacementNames, <1>24 DEF DropUnknown, Drops
<1> QED
  BY <1>1, <1>2, <1>3, <1>4, <1>5, <1>6, <1>7, <1>8, <1>9, <1>10, <1>11, <1>12, <1>13,
     <1>14, <1>15, <1>16, <1>17, <1>18, <1>19, <1>20, <1>21, <1>22, <1>23, <1>24
     DEF PlacementNext

LEMMA PlacementStarts == PlacementInit => PlacementInv
BY PlacementNames DEF PlacementInit, PlacementInv, PlacementTypes, Stages, CallOf, RouteOf, EntryOf,
   Inside, Open, Overtaken

LEMMA PlacementStep == PlacementInv /\ [PlacementNext]_placementVars => PlacementInv'
<1> SUFFICES ASSUME PlacementInv, [PlacementNext]_placementVars PROVE PlacementInv'
  OBVIOUS
<1>1. CASE PlacementNext
  <2>1. PlacementTypes' /\ \A c \in Calls : CallOf(c)'
    BY <1>1, TypesKept, CallsKept DEF PlacementInv
  <2>2. "route" \notin causes' => \A c \in Calls : RouteOf(c)'
    BY <1>1, RoutesKept
  <2>3. "entry" \notin causes' => \A c \in Calls : EntryOf(c)'
    BY <1>1, EntriesKept
  <2> QED
    BY <2>1, <2>2, <2>3 DEF PlacementInv
<1>2. CASE UNCHANGED placementVars
  BY <1>2 DEF placementVars, sharedVars, nodeVars, placedVars, callVars, PlacementInv, PlacementTypes,
     CallOf, RouteOf, EntryOf, Inside, Open, Overtaken
<1> QED
  BY <1>1, <1>2

\* Theorem.  Whatever calls, nodes and faults there are, a name has one room across
\* the nodes until a route or an entry was overtaken (roomallocator.go,
\* redisrouter.go, redisstore.go, roommanager.go).
THEOREM NamePlacedOnce == PlacementSpec => []PlacedOnce
<1>1. PlacementInv => PlacedOnce
  BY DEF PlacementInv, RouteOf, EntryOf, PlacedOnce, OneNode, OneId, Open
<1> QED
  BY <1>1, PlacementStarts, PlacementStep, PTL DEF PlacementSpec

----------------------------------------------------------------------------
(***************************************************************************)
(* Publishing, for any cids, goroutines, requests and changes of the       *)
(* permission. PublishingInv says who is about to do what the code owes:   *)
(* let a queued request go on, tell of one that may, take a closed track   *)
(* off the list and close what is not allowed any more.                    *)
(***************************************************************************)
Doings == {"look", "retry", "tell", "hook", "check", "close", "unlist", "clear", "unqueue"}
Track == [n : Nat, sid : Nat, cid : Cids \cup {"none"}]
Item == [do : Doings, track : Track, cid : Cids \cup {"none"}]

\* A call for media names a cid; one to tell names a request that was made.
WorkTypes ==
  /\ work \in [Threads -> Seq(Item)]
  /\ \A x \in ToDo : (x.do = "look" => x.cid \in Cids) /\ (x.do = "tell" => x.track.n \in 1..asked)

\* A track in the list is there under its own sid, and no request is newer than the last.
TrackTypes ==
  /\ DOMAIN published \subseteq 1..asked
  /\ \A s \in DOMAIN published : published[s] \in Track /\ published[s].sid = s
  /\ open \subseteq Track /\ missed \subseteq Track /\ hooked \subseteq open
  /\ \A r \in open \cup missed : r.n <= asked

\* The requests of a cid are served in the order of their numbers, and each becomes a
\* track at most once.
QueueOf(c) ==
  LET infos == pending[c].infos IN
  /\ c \in Cids /\ pending[c] \in [infos : Seq(Track), queued : BOOLEAN] /\ infos # <<>>
  /\ \A i \in 1..Len(infos) :
       /\ infos[i].cid = c /\ infos[i].n \in 1..asked /\ infos[i].sid \in 1..asked
       /\ infos[i] \notin open \cup missed
       /\ \A j \in 1..Len(infos) : i < j => infos[i].n < infos[j].n

PublishingState ==
  /\ asked \in Nat /\ permitted \in BOOLEAN
  /\ waiting \in Seq(Cids) /\ told \subseteq 1..asked
  /\ lock \in Threads \cup {NoThread}
  /\ WorkTypes /\ TrackTypes /\ missed \cap open = {}
  /\ \A c \in DOMAIN pending : QueueOf(c)

\* Who lets a request go on looks at the media that waits next,
Followed(calls) ==
  \A i \in 1..Len(calls) : calls[i].do = "unqueue" => i < Len(calls) /\ calls[i + 1] = Retry

\* and a track that closed is taken off the list before that.
LetsGoOn(calls, r) ==
  \E i \in 1..Len(calls) :
    /\ i + 2 <= Len(calls)
    /\ calls[i] = OfTrack("unlist", r) /\ calls[i + 2] = OfTrack("unqueue", r)

ListedOf(s) ==
  \/ published[s] \in open \cup missed
  \/ \E t \in Threads : LetsGoOn(work[t], published[s])

ProceedsOf(c) ==
  LET r == Head(pending[c].infos) IN
  IF pending[c].queued
  THEN \/ \E o \in open \cup missed : o.cid = c
       \/ \E call \in ToDo : call.do = "unqueue" /\ call.cid = c
  ELSE /\ r.n \in told \/ OfTrack("tell", r) \in ToDo
       /\ c \in ToSet(waiting) => LooksAgain

PublishingInv ==
  /\ PublishingState
  /\ \A t \in Threads : Followed(work[t])
  /\ \A s \in DOMAIN published : ListedOf(s)
  /\ \A c \in DOMAIN pending : ProceedsOf(c)
  /\ RevokedIsGone

----------------------------------------------------------------------------
\* What is left of a goroutine's calls once the first is served.
Rest(t) == IF work[t] = <<>> THEN <<>> ELSE Tail(work[t])

LEMMA Members ==
  ASSUME NEW w \in [Threads -> Seq(Item)], NEW x
  PROVE  x \in UNION {{w[t][i] : i \in DOMAIN w[t]} : t \in Threads}
           <=> \E t \in Threads : \E i \in 1..Len(w[t]) : x = w[t][i]
<1>1. \A t \in Threads : DOMAIN w[t] = 1..Len(w[t])
  BY LenProperties
<1> QED
  BY <1>1

LEMMA Doing ==
  ASSUME work \in [Threads -> Seq(Item)], NEW x
  PROVE  x \in ToDo <=> \E t \in Threads : \E i \in 1..Len(work[t]) : x = work[t][i]
  BY Members DEF ToDo

\* A goroutine's first call, if it has one, is replaced by others.
LEMMA Serves ==
  ASSUME work \in [Threads -> Seq(Item)], NEW t \in Threads, NEW calls \in Seq(Item),
         work' = [work EXCEPT ![t] = calls \o Rest(t)]
  PROVE  /\ work' \in [Threads -> Seq(Item)]
         /\ Len(work'[t]) = Len(calls) + Len(Rest(t))
         /\ Len(calls) \in Nat /\ Len(Rest(t)) \in Nat /\ Len(work[t]) \in Nat
         /\ \A i \in 1..Len(calls) : work'[t][i] = calls[i]
         /\ \A i \in 1..Len(Rest(t)) : work'[t][Len(calls) + i] = work[t][i + 1]
         /\ Len(Rest(t)) = IF work[t] = <<>> THEN 0 ELSE Len(work[t]) - 1
         /\ work[t] # <<>> => work[t][1] = Head(work[t]) /\ Len(work[t]) >= 1
         /\ work[t] = <<>> => Len(work[t]) = 0
         /\ \A u \in Threads \ {t} : work'[u] = work[u]
<1>1. work[t] \in Seq(Item) /\ Len(work[t]) \in Nat
  BY LenProperties
<1>2. /\ Rest(t) \in Seq(Item) /\ Len(Rest(t)) \in Nat
      /\ Len(Rest(t)) = IF work[t] = <<>> THEN 0 ELSE Len(work[t]) - 1
      /\ \A i \in 1..Len(Rest(t)) : Rest(t)[i] = work[t][i + 1]
  <2>1. CASE work[t] = <<>>
    BY <2>1 DEF Rest
  <2>2. CASE work[t] # <<>>
    <3>1. Rest(t) = Tail(work[t])
      BY <2>2 DEF Rest
    <3>2. /\ Tail(work[t]) \in Seq(Item) /\ Len(Tail(work[t])) = Len(work[t]) - 1
          /\ \A i \in 1..Len(Tail(work[t])) : Tail(work[t])[i] = work[t][i + 1]
      BY <1>1, <2>2, HeadTailProperties
    <3>3. Len(Tail(work[t])) \in Nat
      BY <3>2, LenProperties
    <3> QED
      BY <2>2, <3>1, <3>2, <3>3
  <2> QED
    BY <2>1, <2>2
<1>3. /\ calls \o Rest(t) \in Seq(Item) /\ Len(calls) \in Nat
      /\ Len(calls \o Rest(t)) = Len(calls) + Len(Rest(t))
      /\ \A i \in 1..Len(calls) + Len(Rest(t)) : (calls \o Rest(t))[i] =
           IF i <= Len(calls) THEN calls[i] ELSE Rest(t)[i - Len(calls)]
  BY <1>2, ConcatProperties, LenProperties
<1>4. work'[t] = calls \o Rest(t) /\ \A u \in Threads \ {t} : work'[u] = work[u]
  OBVIOUS
<1>5. work' \in [Threads -> Seq(Item)]
  BY <1>3
<1>6. \A i \in 1..Len(calls) : work'[t][i] = calls[i]
  BY <1>2, <1>3, <1>4
<1>7. \A i \in 1..Len(Rest(t)) : work'[t][Len(calls) + i] = work[t][i + 1]
  <2> TAKE i \in 1..Len(Rest(t))
  <2>1. /\ Len(calls) + i \in 1..Len(calls) + Len(Rest(t)) /\ ~(Len(calls) + i <= Len(calls))
        /\ Len(calls) + i - Len(calls) = i
    BY <1>2, <1>3
  <2> QED
    BY <1>2, <1>3, <1>4, <2>1
<1>8. (work[t] # <<>> => work[t][1] = Head(work[t]) /\ Len(work[t]) >= 1)
      /\ (work[t] = <<>> => Len(work[t]) = 0)
  BY <1>1
<1> QED
  BY <1>1, <1>2, <1>3, <1>4, <1>5, <1>6, <1>7, <1>8

\* What is to be done afterwards.
LEMMA StillToDo ==
  ASSUME work \in [Threads -> Seq(Item)], NEW t \in Threads, NEW calls \in Seq(Item),
         work' = [work EXCEPT ![t] = calls \o Rest(t)]
  PROVE  /\ \A x \in ToDo : x \in ToDo' \/ (work[t] # <<>> /\ x = Head(work[t]))
         /\ \A i \in 1..Len(calls) : calls[i] \in ToDo'
         /\ \A x \in ToDo' : x \in ToDo \/ \E i \in 1..Len(calls) : x = calls[i]
<1>1. \A x : x \in ToDo <=> \E u \in Threads : \E i \in 1..Len(work[u]) : x = work[u][i]
  BY Doing
<1>2. work' \in [Threads -> Seq(Item)]
  BY Serves
<1>3. \A x : x \in ToDo' <=> \E u \in Threads : \E i \in 1..Len(work'[u]) : x = work'[u][i]
  BY <1>2, Members DEF ToDo
<1>4. /\ Len(work'[t]) = Len(calls) + Len(Rest(t))
      /\ Len(calls) \in Nat /\ Len(Rest(t)) \in Nat /\ Len(work[t]) \in Nat
      /\ Len(Rest(t)) = IF work[t] = <<>> THEN 0 ELSE Len(work[t]) - 1
      /\ work[t] = <<>> => Len(work[t]) = 0
  BY Serves
<1>5. \A k \in 1..Len(Rest(t)) : work'[t][Len(calls) + k] = work[t][k + 1]
  BY Serves
<1>6. ASSUME NEW x \in ToDo PROVE x \in ToDo' \/ (work[t] # <<>> /\ x = Head(work[t]))
  <2>0. PICK u \in Threads : \E i \in 1..Len(work[u]) : x = work[u][i]
    BY <1>1
  <2>1. PICK i \in 1..Len(work[u]) : x = work[u][i]
    BY <2>0
  <2>2. CASE u # t
    <3>1. work'[u] = work[u]
      BY <2>2, Serves
    <3> QED
      BY <1>3, <2>1, <3>1
  <2>3. CASE u = t /\ i # 1
    <3>1. PICK k \in 1..Len(Rest(t)) : i = k + 1
      <4>1. i \in 1..Len(work[t]) /\ i # 1
        BY <2>1, <2>3
      <4>2. i - 1 \in 1..Len(Rest(t)) /\ i = (i - 1) + 1
        BY <1>4, <4>1
      <4> QED
        BY <4>2
    <3>2. Len(calls) + k \in 1..Len(work'[t]) /\ work'[t][Len(calls) + k] = x
      BY <1>4, <1>5, <2>1, <2>3, <3>1
    <3> QED
      BY <1>3, <3>2
  <2>4. CASE u = t /\ i = 1
    BY <2>1, <2>4, Serves
  <2> QED
    BY <2>2, <2>3, <2>4
<1>7. ASSUME NEW i \in 1..Len(calls) PROVE calls[i] \in ToDo'
  <2>1. i \in 1..Len(work'[t]) /\ work'[t][i] = calls[i]
    BY Serves
  <2> QED
    BY <1>3, <2>1
<1>8. ASSUME NEW x \in ToDo' PROVE x \in ToDo \/ \E i \in 1..Len(calls) : x = calls[i]
  <2>0. PICK u \in Threads : \E i \in 1..Len(work'[u]) : x = work'[u][i]
    BY <1>3
  <2>1. PICK i \in 1..Len(work'[u]) : x = work'[u][i]
    BY <2>0
  <2>2. CASE u # t
    <3>1. work'[u] = work[u]
      BY <2>2, Serves
    <3> QED
      BY <1>1, <2>1, <3>1
  <2>3. CASE u = t /\ i \in 1..Len(calls)
    <3>1. work'[t][i] = calls[i]
      BY <2>3, Serves
    <3> QED
      BY <2>1, <2>3, <3>1
  <2>4. CASE u = t /\ i \notin 1..Len(calls)
    <3>1. PICK k \in 1..Len(Rest(t)) : i = Len(calls) + k
      <4>1. i \in 1..Len(work'[t]) /\ i \notin 1..Len(calls)
        BY <2>1, <2>4
      <4>2. i - Len(calls) \in 1..Len(Rest(t)) /\ i = Len(calls) + (i - Len(calls))
        BY <1>4, <4>1
      <4> QED
        BY <4>2
    <3>2. k + 1 \in 1..Len(work[t]) /\ work[t][k + 1] = x
      <4>1. k + 1 \in 1..Len(work[t])
        BY <1>4
      <4>2. x = work'[t][Len(calls) + k]
        BY <2>1, <2>4, <3>1
      <4> QED
        BY <1>5, <4>1, <4>2
    <3> QED
      BY <1>1, <3>2
  <2> QED
    BY <2>2, <2>3, <2>4
<1> QED
  BY <1>6, <1>7, <1>8

LEMMA StaysFollowed ==
  ASSUME work \in [Threads -> Seq(Item)], NEW t \in Threads, NEW calls \in Seq(Item),
         work' = [work EXCEPT ![t] = calls \o Rest(t)],
         \A u \in Threads : Followed(work[u]), Followed(calls)
  PROVE  \A u \in Threads : Followed(work'[u])
<1>1. /\ Len(work'[t]) = Len(calls) + Len(Rest(t))
      /\ Len(calls) \in Nat /\ Len(Rest(t)) \in Nat /\ Len(work[t]) \in Nat
      /\ Len(Rest(t)) = IF work[t] = <<>> THEN 0 ELSE Len(work[t]) - 1
      /\ work[t] = <<>> => Len(work[t]) = 0
  BY Serves
<1>2. \A k \in 1..Len(calls) : work'[t][k] = calls[k]
  BY Serves
<1>3. \A k \in 1..Len(Rest(t)) : work'[t][Len(calls) + k] = work[t][k + 1]
  BY Serves
<1>4. ASSUME NEW u \in Threads \ {t} PROVE Followed(work'[u])
  BY Serves
<1>5. ASSUME NEW i \in 1..Len(work'[t]), work'[t][i].do = "unqueue"
      PROVE  i < Len(work'[t]) /\ work'[t][i + 1] = Retry
  <2>1. CASE i \in 1..Len(calls)
    <3>1. i < Len(calls) /\ calls[i + 1] = Retry
      BY <1>2, <1>5, <2>1 DEF Followed
    <3>2. i + 1 \in 1..Len(calls) /\ i < Len(work'[t])
      BY <1>1, <2>1, <3>1
    <3> QED
      BY <1>2, <3>1, <3>2
  <2>2. CASE i \notin 1..Len(calls)
    <3>1. PICK k \in 1..Len(Rest(t)) : i = Len(calls) + k
      <4>1. i - Len(calls) \in 1..Len(Rest(t)) /\ i = Len(calls) + (i - Len(calls))
        BY <1>1, <2>2
      <4> QED
        BY <4>1
    <3>2. k + 1 \in 1..Len(work[t])
      BY <1>1
    <3>3. work[t][k + 1].do = "unqueue"
      BY <1>3, <1>5, <3>1
    <3>4. k + 1 < Len(work[t]) /\ work[t][(k + 1) + 1] = Retry
      BY <3>2, <3>3 DEF Followed
    <3>5. k + 1 \in 1..Len(Rest(t)) /\ i + 1 = Len(calls) + (k + 1) /\ i < Len(work'[t])
      BY <1>1, <3>1, <3>4
    <3>6. work'[t][Len(calls) + (k + 1)] = work[t][(k + 1) + 1]
      BY <1>3, <3>5
    <3> QED
      BY <3>4, <3>5, <3>6
  <2> QED
    BY <2>1, <2>2
<1>6. Followed(work'[t])
  BY <1>5 DEF Followed
<1> QED
  BY <1>4, <1>6

\* A track that is about to let the next request go on still is, unless it is just
\* taken off the list.
LEMMA StillGoesOn ==
  ASSUME work \in [Threads -> Seq(Item)], NEW t \in Threads, NEW calls \in Seq(Item),
         work' = [work EXCEPT ![t] = calls \o Rest(t)],
         NEW r, NEW u \in Threads, LetsGoOn(work[u], r)
  PROVE  \/ \E v \in Threads : LetsGoOn(work'[v], r)
         \/ work[t] # <<>> /\ Head(work[t]) = OfTrack("unlist", r)
<1>1. /\ Len(work'[t]) = Len(calls) + Len(Rest(t))
      /\ Len(calls) \in Nat /\ Len(Rest(t)) \in Nat /\ Len(work[t]) \in Nat
      /\ Len(Rest(t)) = IF work[t] = <<>> THEN 0 ELSE Len(work[t]) - 1
      /\ work[t] = <<>> => Len(work[t]) = 0
      /\ work[t] # <<>> => work[t][1] = Head(work[t])
  BY Serves
<1>2. \A k \in 1..Len(Rest(t)) : work'[t][Len(calls) + k] = work[t][k + 1]
  BY Serves
<1>3. CASE u # t
  <2>1. work'[u] = work[u]
    BY <1>3, Serves
  <2> QED
    BY <2>1
<1>4. CASE u = t
  <2>1. PICK i \in 1..Len(work[t]) :
          /\ i + 2 <= Len(work[t])
          /\ work[t][i] = OfTrack("unlist", r) /\ work[t][i + 2] = OfTrack("unqueue", r)
    BY <1>4 DEF LetsGoOn
  <2>2. CASE i = 1
    <3>1. work[t] # <<>>
      BY <1>1, <2>1
    <3> QED
      BY <1>1, <2>1, <2>2, <3>1
  <2>3. CASE i # 1
    <3>1. PICK k \in 1..Len(Rest(t)) : i = k + 1
      <4>1. i - 1 \in 1..Len(Rest(t)) /\ i = (i - 1) + 1
        BY <1>1, <2>1, <2>3
      <4> QED
        BY <4>1
    <3>2. k + 2 \in 1..Len(Rest(t))
      BY <1>1, <2>1, <3>1
    <3>3. /\ work'[t][Len(calls) + k] = work[t][k + 1]
          /\ work'[t][Len(calls) + (k + 2)] = work[t][(k + 2) + 1]
      BY <1>2, <3>2
    <3>4. /\ i = k + 1 /\ i + 2 = (k + 2) + 1 /\ (Len(calls) + k) + 2 = Len(calls) + (k + 2)
          /\ Len(calls) + k \in 1..Len(work'[t]) /\ (Len(calls) + k) + 2 <= Len(work'[t])
      BY <1>1, <3>1, <3>2
    <3>5. /\ work'[t][Len(calls) + k] = OfTrack("unlist", r)
          /\ work'[t][(Len(calls) + k) + 2] = OfTrack("unqueue", r)
      BY <2>1, <3>3, <3>4
    <3> QED
      BY <3>4, <3>5 DEF LetsGoOn
  <2> QED
    BY <2>2, <2>3
<1> QED
  BY <1>3, <1>4

LEMMA GoesOnNow ==
  ASSUME work \in [Threads -> Seq(Item)], NEW t \in Threads, NEW calls \in Seq(Item),
         work' = [work EXCEPT ![t] = calls \o Rest(t)],
         NEW r, LetsGoOn(calls, r)
  PROVE  LetsGoOn(work'[t], r)
<1>1. /\ Len(work'[t]) = Len(calls) + Len(Rest(t))
      /\ Len(calls) \in Nat /\ Len(Rest(t)) \in Nat
  BY Serves
<1>2. \A k \in 1..Len(calls) : work'[t][k] = calls[k]
  BY Serves
<1>3. PICK i \in 1..Len(calls) :
        /\ i + 2 <= Len(calls)
        /\ calls[i] = OfTrack("unlist", r) /\ calls[i + 2] = OfTrack("unqueue", r)
  BY DEF LetsGoOn
<1>4. i + 2 \in 1..Len(calls) /\ i \in 1..Len(work'[t]) /\ i + 2 <= Len(work'[t])
  BY <1>1, <1>3
<1> QED
  BY <1>2, <1>3, <1>4 DEF LetsGoOn

\* What LetsGoOn says of a goroutine's calls says that one is to be made.
LEMMA GoingOnToDo ==
  ASSUME work \in [Threads -> Seq(Item)], NEW u \in Threads, NEW r, LetsGoOn(work[u], r)
  PROVE  OfTrack("unqueue", r) \in ToDo
<1>1. PICK i \in 1..Len(work[u]) : i + 2 <= Len(work[u]) /\ work[u][i + 2] = OfTrack("unqueue", r)
  BY DEF LetsGoOn
<1>2. Len(work[u]) \in Nat
  BY LenProperties
<1>3. i + 2 \in 1..Len(work[u])
  BY <1>1, <1>2
<1> QED
  BY <1>1, <1>3, Doing

LEMMA Items ==
  /\ Retry \in Item
  /\ \A c \in Cids : LookAt(c) \in Item /\ LookAt(c).do = "look" /\ LookAt(c).cid = c
  /\ \A do \in Doings, r \in Track :
       /\ OfTrack(do, r) \in Item
       /\ OfTrack(do, r).do = do /\ OfTrack(do, r).track = r /\ OfTrack(do, r).cid = r.cid
  /\ Retry.do = "retry"
  BY DEF Item, Track, Doings, Retry, LookAt, OfTrack, Call, NoTrack, Request

LEMMA IdleStarts ==
  ASSUME NEW t \in Threads, NEW calls \in Seq(Item), work[t] = <<>>,
         work' = [work EXCEPT ![t] = calls]
  PROVE  work' = [work EXCEPT ![t] = calls \o Rest(t)]
<1>1. calls \o Rest(t) = calls
  BY ConcatEmptySeq DEF Rest
<1> QED
  BY <1>1

LEMMA ThenServes ==
  ASSUME NEW t, NEW calls, work[t] # <<>>, Then(t, calls)
  PROVE  work' = [work EXCEPT ![t] = calls \o Rest(t)]
  BY DEF Then, Rest

\* What a goroutine serves is one of the calls to be made.
LEMMA ServesOne ==
  ASSUME WorkTypes, NEW t \in Threads, work[t] # <<>>
  PROVE  This(t) \in Item /\ This(t) \in ToDo /\ This(t) = work[t][1]
<1>1. work \in [Threads -> Seq(Item)] /\ work[t] \in Seq(Item)
  BY DEF WorkTypes
<1>2. This(t) \in Item /\ This(t) = work[t][1] /\ 1 \in 1..Len(work[t])
  BY <1>1, HeadTailProperties, EmptySeq DEF This
<1>3. This(t) \in ToDo
  BY <1>1, <1>2, Doing
<1> QED
  BY <1>2, <1>3

----------------------------------------------------------------------------
\* What a step that serves a call has to show for each part of the invariant.

LEMMA WorkKept ==
  ASSUME PublishingInv, NEW t \in Threads, NEW calls \in Seq(Item),
         work' = [work EXCEPT ![t] = calls \o Rest(t)],
         asked' \in Nat, asked <= asked',
         \A i \in 1..Len(calls) :
           /\ calls[i].do = "look" => calls[i].cid \in Cids
           /\ calls[i].do = "tell" => calls[i].track.n \in 1..asked',
         Followed(calls)
  PROVE  WorkTypes' /\ \A u \in Threads : Followed(work[u])'
<1>1. work \in [Threads -> Seq(Item)] /\ asked \in Nat
  BY DEF PublishingInv, PublishingState, WorkTypes
<1>2. work' \in [Threads -> Seq(Item)]
  BY <1>1, Serves
<1>3. ASSUME NEW x \in ToDo'
      PROVE  (x.do = "look" => x.cid \in Cids) /\ (x.do = "tell" => x.track.n \in 1..asked')
  <2>1. x \in ToDo \/ \E i \in 1..Len(calls) : x = calls[i]
    BY <1>1, StillToDo
  <2>2. CASE x \in ToDo
    <3>1. (x.do = "look" => x.cid \in Cids) /\ (x.do = "tell" => x.track.n \in 1..asked)
      BY <2>2 DEF PublishingInv, PublishingState, WorkTypes
    <3>2. 1..asked \subseteq 1..asked'
      BY <1>1
    <3> QED
      BY <3>1, <3>2
  <2> QED
    BY <2>1, <2>2
<1>4. WorkTypes'
  BY <1>2, <1>3 DEF WorkTypes
<1>5. \A u \in Threads : Followed(work[u])
  BY DEF PublishingInv
<1>6. \A u \in Threads : Followed(work'[u])
  BY <1>1, <1>5, StaysFollowed
<1> QED
  BY <1>4, <1>6 DEF Followed

LEMMA ListedKept ==
  ASSUME PublishingInv, NEW t \in Threads, NEW calls \in Seq(Item),
         work' = [work EXCEPT ![t] = calls \o Rest(t)],
         NEW s \in DOMAIN published, published'[s] = published[s],
         published[s] \in open => published[s] \in open' \cup missed' \/ LetsGoOn(calls, published[s]),
         missed \subseteq missed',
         work[t] = <<>> \/ This(t) # OfTrack("unlist", published[s])
  PROVE  ListedOf(s)'
<1>1. work \in [Threads -> Seq(Item)]
  BY DEF PublishingInv, PublishingState, WorkTypes
<1>2. ListedOf(s)
  BY DEF PublishingInv
<1>3. CASE published[s] \in missed
  BY <1>3 DEF ListedOf
<1>4. CASE published[s] \in open
  <2>1. CASE LetsGoOn(calls, published[s])
    <3>1. LetsGoOn(work'[t], published[s])
      BY <1>1, <2>1, GoesOnNow
    <3> QED
      BY <3>1 DEF ListedOf, LetsGoOn
  <2>2. CASE published[s] \in open' \cup missed'
    BY <2>2 DEF ListedOf
  <2> QED
    BY <1>4, <2>1, <2>2
<1>5. ASSUME NEW u \in Threads, LetsGoOn(work[u], published[s]) PROVE ListedOf(s)'
  <2>1. ~(work[t] # <<>> /\ Head(work[t]) = OfTrack("unlist", published[s]))
    BY DEF This
  <2>2. \E v \in Threads : LetsGoOn(work'[v], published[s])
    BY <1>1, <1>5, <2>1, StillGoesOn
  <2>3. \E v \in Threads : LetsGoOn(work'[v], published'[s])
    BY <2>2
  <2> QED
    BY <2>3 DEF ListedOf, LetsGoOn
<1> QED
  BY <1>2, <1>3, <1>4, <1>5 DEF ListedOf

LEMMA ProceedsKept ==
  ASSUME PublishingInv, NEW t \in Threads, NEW calls \in Seq(Item),
         work' = [work EXCEPT ![t] = calls \o Rest(t)],
         NEW c \in DOMAIN pending, Head(pending'[c].infos) = Head(pending[c].infos),
         pending'[c].queued = pending[c].queued,
         told \subseteq told',
         \A o \in open \cup missed :
           o \in open' \cup missed' \/ \E i \in 1..Len(calls) : calls[i] = OfTrack("unqueue", o),
         ToSet(waiting)' \cap {c} \subseteq ToSet(waiting) \cap {c} \/ pending[c].queued,
         \/ work[t] = <<>>
         \/ This(t).do \notin {"tell", "retry", "unqueue"}
         \/ This(t).do = "tell" /\ This(t).track.n \in told'
         \/ This(t).do = "retry" /\ c \notin ToSet(waiting)'
         \/ This(t).do = "unqueue" /\ This(t).cid # c
  PROVE  ProceedsOf(c)'
<1>1. work \in [Threads -> Seq(Item)] /\ ProceedsOf(c)
  BY DEF PublishingInv, PublishingState, WorkTypes
<1>2. \A x \in ToDo : x \in ToDo' \/ (work[t] # <<>> /\ x = This(t))
  BY <1>1, StillToDo DEF This
<1>3. CASE pending[c].queued
  <2>1. CASE \E call \in ToDo : call.do = "unqueue" /\ call.cid = c
    BY <1>2, <1>3, <2>1 DEF ProceedsOf
  <2>2. ASSUME NEW o \in open \cup missed, o.cid = c PROVE ProceedsOf(c)'
    <3>1. CASE o \in open' \cup missed'
      BY <1>3, <2>2, <3>1 DEF ProceedsOf
    <3>2. CASE \E i \in 1..Len(calls) : calls[i] = OfTrack("unqueue", o)
      <4>1. OfTrack("unqueue", o) \in ToDo'
        <5>1. \A i \in 1..Len(calls) : calls[i] \in ToDo'
          BY <1>1, StillToDo
        <5> QED
          BY <3>2, <5>1
      <4>2. OfTrack("unqueue", o).do = "unqueue" /\ OfTrack("unqueue", o).cid = c
        BY <2>2 DEF OfTrack, Call
      <4> QED
        BY <1>3, <4>1, <4>2 DEF ProceedsOf
    <3> QED
      BY <2>2, <3>1, <3>2
  <2> QED
    BY <1>1, <1>3, <2>1, <2>2 DEF ProceedsOf
<1>4. CASE ~pending[c].queued
  <2>1. LET r == Head(pending[c].infos)
        IN  OfTrack("tell", r) \in ToDo => OfTrack("tell", r) \in ToDo' \/ r.n \in told'
    BY <1>2 DEF OfTrack, Call
  <2>2. Retry \in ToDo => Retry \in ToDo' \/ c \notin ToSet(waiting)'
    BY <1>2, Items
  <2> QED
    BY <1>1, <1>4, <2>1, <2>2 DEF ProceedsOf, LooksAgain
<1> QED
  BY <1>3, <1>4

LEMMA RevokedKept ==
  ASSUME PublishingInv, NEW t \in Threads, NEW calls \in Seq(Item),
         work' = [work EXCEPT ![t] = calls \o Rest(t)],
         ~permitted, NEW s \in DOMAIN published, published'[s] = published[s],
         published[s] \in open' => published[s] \in open,
         work[t] = <<>> \/ This(t).do \notin {"check", "close"}
  PROVE  published'[s] \in open' =>
           {OfTrack("close", published[s]), OfTrack("check", published[s])} \cap ToDo' # {}
<1>1. work \in [Threads -> Seq(Item)] /\ RevokedIsGone
  BY DEF PublishingInv, PublishingState, WorkTypes
<1>2. \A x \in ToDo : x.do \in {"check", "close"} => x \in ToDo'
  BY <1>1, StillToDo DEF This
<1>3. /\ OfTrack("close", published[s]).do = "close"
      /\ OfTrack("check", published[s]).do = "check"
  BY DEF OfTrack, Call
<1>4. published[s] \in open =>
        {OfTrack("close", published[s]), OfTrack("check", published[s])} \cap ToDo # {}
  BY <1>1 DEF RevokedIsGone
<1> QED
  BY <1>2, <1>3, <1>4

LEMMA StateKept ==
  ASSUME PublishingInv, NEW t \in Threads, NEW calls \in Seq(Item),
         work' = [work EXCEPT ![t] = calls \o Rest(t)],
         \A i \in 1..Len(calls) :
           /\ calls[i].do = "look" => calls[i].cid \in Cids
           /\ calls[i].do = "tell" => calls[i].track.n \in 1..asked,
         Followed(calls),
         asked' = asked, permitted' \in BOOLEAN, lock' \in Threads \cup {NoThread},
         told' \subseteq 1..asked, waiting' \in Seq(Cids),
         DOMAIN published' \subseteq DOMAIN published,
         \A s \in DOMAIN published' : published'[s] = published[s],
         open' \subseteq open, missed' \subseteq missed \cup open, hooked' \subseteq open',
         missed' \cap open' = {},
         DOMAIN pending' \subseteq DOMAIN pending,
         \A c \in DOMAIN pending' :
           /\ pending'[c].infos = pending[c].infos
           /\ pending'[c] \in [infos : Seq(Track), queued : BOOLEAN]
  PROVE  PublishingState' /\ \A u \in Threads : Followed(work[u])'
<1>1. asked \in Nat /\ TrackTypes /\ \A c \in DOMAIN pending : QueueOf(c)
  BY DEF PublishingInv, PublishingState
<1>2. asked' \in Nat /\ asked <= asked'
  BY <1>1
<1>3. WorkTypes' /\ \A u \in Threads : Followed(work[u])'
  BY <1>2, WorkKept
<1>4. TrackTypes'
  BY <1>1 DEF TrackTypes
<1>5. ASSUME NEW c \in DOMAIN pending' PROVE QueueOf(c)'
  <2>1. QueueOf(c) /\ pending'[c].infos = pending[c].infos
        /\ pending'[c] \in [infos : Seq(Track), queued : BOOLEAN]
    BY <1>1, <1>5
  <2>2. open' \cup missed' \subseteq open \cup missed
    OBVIOUS
  <2> QED
    BY <2>1, <2>2 DEF QueueOf
<1> QED
  BY <1>1, <1>3, <1>4, <1>5 DEF PublishingState

\* A step that closes nothing, lets nothing go on and takes nothing off the list.
LEMMA QuietStep ==
  ASSUME PublishingInv, NEW t \in Threads, NEW calls \in Seq(Item),
         work' = [work EXCEPT ![t] = calls \o Rest(t)],
         \A i \in 1..Len(calls) :
           /\ calls[i].do = "look" => calls[i].cid \in Cids
           /\ calls[i].do # "tell",
         Followed(calls),
         UNCHANGED <<pending, published, open, missed, permitted, asked>>,
         lock' \in Threads \cup {NoThread}, hooked' \subseteq open,
         told \subseteq told', told' \subseteq 1..asked, waiting' \in Seq(Cids),
         \A c \in DOMAIN pending : c \in ToSet(waiting)' => c \in ToSet(waiting) \/ pending[c].queued,
         \/ work[t] = <<>>
         \/ This(t).do \in {"look", "hook", "clear"}
         \/ This(t).do = "tell" /\ This(t).track.n \in told'
         \/ This(t).do = "retry" /\ waiting' = <<>>
         \/ This(t).do = "check" /\ permitted
  PROVE  PublishingInv'
<1>1. PublishingState
  BY DEF PublishingInv
<1>2. PublishingState' /\ \A u \in Threads : Followed(work[u])'
  <2>1. \A c \in DOMAIN pending : pending[c] \in [infos : Seq(Track), queued : BOOLEAN]
    BY <1>1 DEF PublishingState, QueueOf
  <2> QED
    BY <1>1, <2>1, StateKept DEF PublishingState, TrackTypes
<1>3. ASSUME NEW s \in DOMAIN published' PROVE ListedOf(s)'
  <2>1. work[t] = <<>> \/ This(t) # OfTrack("unlist", published[s])
    BY DEF OfTrack, Call
  <2> QED
    BY <1>3, <2>1, ListedKept
<1>4. ASSUME NEW c \in DOMAIN pending' PROVE ProceedsOf(c)'
  <2>1. waiting' = <<>> => ToSet(waiting)' = {}
    BY DEF ToSet
  <2> QED
    BY <1>4, <2>1, ProceedsKept
<1>5. RevokedIsGone'
  <2> SUFFICES ASSUME ~permitted', NEW s \in DOMAIN published', published'[s] \in open'
               PROVE  {OfTrack("close", published'[s]), OfTrack("check", published'[s])} \cap ToDo' # {}
    BY DEF RevokedIsGone, OfTrack
  <2> QED
    BY RevokedKept
<1> QED
  BY <1>2, <1>3, <1>4, <1>5 DEF PublishingInv

----------------------------------------------------------------------------
\* The steps, one lemma for each that is more than that.

LEMMA One ==
  ASSUME NEW x \in Item
  PROVE  <<x>> \in Seq(Item) /\ Len(<<x>>) = 1 /\ <<x>>[1] = x
  OBVIOUS

LEMMA QuietSteps ==
  ASSUME PublishingInv, NEW t \in Threads,
         \/ \E c \in Cids : MediaArrives(t, c)
         \/ t = Signal /\ HandleOffer
         \/ \E r \in open : ReceiverCloses(t, r)
         \/ LookFindsTrack(t) \/ Hook(t) \/ Clear(t)
  PROVE  PublishingInv'
<1>0. PublishingState /\ WorkTypes /\ TrackTypes /\ lock \in Threads \cup {NoThread}
  BY DEF PublishingInv, PublishingState
<1>1. ASSUME NEW c \in Cids, MediaArrives(t, c) PROVE PublishingInv'
  <2>1. /\ work[t] = <<>> /\ work' = [work EXCEPT ![t] = <<LookAt(c)>>]
        /\ UNCHANGED <<pending, published, open, hooked, missed, lock, permitted, told, waiting, asked>>
    BY <1>1 DEF MediaArrives, tracks
  <2>2. /\ <<LookAt(c)>> \in Seq(Item) /\ Len(<<LookAt(c)>>) = 1
        /\ LookAt(c).do = "look" /\ LookAt(c).cid \in Cids
    BY Items, One
  <2>3. Followed(<<LookAt(c)>>)
    BY <2>2 DEF Followed
  <2>4. work' = [work EXCEPT ![t] = <<LookAt(c)>> \o Rest(t)]
    BY <2>1, <2>2, <2>3, IdleStarts
  <2>5. \A i \in 1..Len(<<LookAt(c)>>) :
          /\ <<LookAt(c)>>[i].do = "look" => <<LookAt(c)>>[i].cid \in Cids
          /\ <<LookAt(c)>>[i].do # "tell"
    BY <2>1, <2>2, <2>3
  <2>6. told \subseteq told' /\ told' \subseteq 1..asked /\ waiting' \in Seq(Cids)
         /\ ToSet(waiting)' = ToSet(waiting)
    BY <1>0, <2>1 DEF PublishingState, ToSet
  <2>7. hooked \subseteq open /\ lock' \in Threads \cup {NoThread} /\ hooked' \subseteq open
    BY <1>0, <2>1 DEF TrackTypes
  <2> QED
    BY ONLY PublishingInv, t \in Threads, <2>1, <2>2, <2>3, <2>4, <2>5, <2>7, <2>6, QuietStep
<1>2. CASE t = Signal /\ HandleOffer
  <2>1. /\ work[t] = <<>> /\ work' = [work EXCEPT ![t] = <<Retry>>]
        /\ UNCHANGED <<pending, published, open, hooked, missed, lock, permitted, told, waiting, asked>>
    BY <1>2 DEF HandleOffer, tracks, bounds
  <2>2. <<Retry>> \in Seq(Item) /\ Len(<<Retry>>) = 1 /\ Retry.do = "retry"
    BY Items, One
  <2>3. Followed(<<Retry>>)
    BY <2>2 DEF Followed
  <2>4. work' = [work EXCEPT ![t] = <<Retry>> \o Rest(t)]
    BY <2>1, <2>2, <2>3, IdleStarts
  <2>5. \A i \in 1..Len(<<Retry>>) :
          /\ <<Retry>>[i].do = "look" => <<Retry>>[i].cid \in Cids
          /\ <<Retry>>[i].do # "tell"
    BY <2>1, <2>2, <2>3
  <2>6. told \subseteq told' /\ told' \subseteq 1..asked /\ waiting' \in Seq(Cids)
         /\ ToSet(waiting)' = ToSet(waiting)
    BY <1>0, <2>1 DEF PublishingState, ToSet
  <2>7. hooked \subseteq open /\ lock' \in Threads \cup {NoThread} /\ hooked' \subseteq open
    BY <1>0, <2>1 DEF TrackTypes
  <2> QED
    BY ONLY PublishingInv, t \in Threads, <2>1, <2>2, <2>3, <2>4, <2>5, <2>7, <2>6, QuietStep
<1>3. ASSUME NEW r \in open, ReceiverCloses(t, r) PROVE PublishingInv'
  <2>1. /\ work[t] = <<>> /\ work' = [work EXCEPT ![t] = <<OfTrack("close", r)>>]
        /\ UNCHANGED <<pending, published, open, hooked, missed, lock, permitted, told, waiting, asked>>
    BY <1>3 DEF ReceiverCloses, tracks
  <2>2. r \in Track /\ "close" \in Doings
    BY <1>0 DEF TrackTypes, Doings
  <2>3. OfTrack("close", r) \in Item /\ OfTrack("close", r).do = "close"
    BY <2>2, Items
  <2>4. <<OfTrack("close", r)>> \in Seq(Item) /\ Len(<<OfTrack("close", r)>>) = 1
    BY <2>3, One
  <2>5. Followed(<<OfTrack("close", r)>>)
    BY <2>3, <2>4 DEF Followed
  <2>6. work' = [work EXCEPT ![t] = <<OfTrack("close", r)>> \o Rest(t)]
    BY <2>1, <2>3, <2>4, <2>5, IdleStarts
  <2>7. \A i \in 1..Len(<<OfTrack("close", r)>>) :
          /\ <<OfTrack("close", r)>>[i].do = "look" => <<OfTrack("close", r)>>[i].cid \in Cids
          /\ <<OfTrack("close", r)>>[i].do # "tell"
    BY <2>1, <2>3, <2>4, <2>5
  <2>8. told \subseteq told' /\ told' \subseteq 1..asked /\ waiting' \in Seq(Cids)
         /\ ToSet(waiting)' = ToSet(waiting)
    BY <1>0, <2>1 DEF PublishingState, ToSet
  <2>9. hooked \subseteq open /\ lock' \in Threads \cup {NoThread} /\ hooked' \subseteq open
    BY <1>0, <2>1 DEF TrackTypes
  <2> QED
    BY ONLY PublishingInv, t \in Threads, <2>1, <2>3, <2>4, <2>5, <2>6, <2>7, <2>9, <2>8, QuietStep
<1>4. CASE LookFindsTrack(t)
  <2>1. PICK r \in Listed(This(t).cid) : Then(t, <<OfTrack("check", r)>>)
    BY <1>4 DEF LookFindsTrack
  <2>2. r \in Track /\ "check" \in Doings
    BY <1>0, <2>1 DEF Listed, TrackTypes, Doings
  <2>3. OfTrack("check", r) \in Item /\ OfTrack("check", r).do = "check"
    BY <2>2, Items
  <2>4. <<OfTrack("check", r)>> \in Seq(Item) /\ Len(<<OfTrack("check", r)>>) = 1
    BY <2>3, One
  <2>5. Followed(<<OfTrack("check", r)>>)
    BY <2>3, <2>4 DEF Followed
  <2>6. /\ work[t] # <<>> /\ This(t).do = "look"
        /\ UNCHANGED <<pending, published, open, hooked, missed, lock, permitted, told, waiting, asked>>
    BY <1>4 DEF LookFindsTrack, Does, This, tracks, bounds
  <2>7. work' = [work EXCEPT ![t] = <<OfTrack("check", r)>> \o Rest(t)]
    BY <2>1, <2>3, <2>4, <2>5, <2>6, ThenServes
  <2>8. \A i \in 1..Len(<<OfTrack("check", r)>>) :
          /\ <<OfTrack("check", r)>>[i].do = "look" => <<OfTrack("check", r)>>[i].cid \in Cids
          /\ <<OfTrack("check", r)>>[i].do # "tell"
    BY <2>1, <2>3, <2>4, <2>5, <2>6
  <2>9. told \subseteq told' /\ told' \subseteq 1..asked /\ waiting' \in Seq(Cids)
         /\ ToSet(waiting)' = ToSet(waiting)
    BY <1>0, <2>6 DEF PublishingState, ToSet
  <2>10. hooked \subseteq open /\ lock' \in Threads \cup {NoThread} /\ hooked' \subseteq open
    BY <1>0, <2>6 DEF TrackTypes
  <2> QED
    BY ONLY PublishingInv, t \in Threads, <2>1, <2>3, <2>4, <2>5, <2>6, <2>7, <2>8, <2>10, <2>9, QuietStep
<1>5. CASE Hook(t) \/ Clear(t)
  <2>1. /\ Then(t, <<>>) /\ work[t] # <<>> /\ This(t).do \in {"hook", "clear"}
        /\ UNCHANGED <<pending, published, open, missed, permitted, told, waiting, asked>>
        /\ lock' \in {lock, NoThread} /\ hooked' \subseteq hooked \cup open
    BY <1>5 DEF Hook, Clear, Does, This, tracks, bounds
  <2>2. <<>> \in Seq(Item) /\ Len(<<>>) = 0 /\ Followed(<<>>)
    BY DEF Followed
  <2>3. work' = [work EXCEPT ![t] = <<>> \o Rest(t)]
    BY <2>1, <2>2, ThenServes
  <2>4. \A i \in 1..Len(<<>>) :
          /\ <<>>[i].do = "look" => <<>>[i].cid \in Cids
          /\ <<>>[i].do # "tell"
    BY <2>1, <2>2
  <2>5. told \subseteq told' /\ told' \subseteq 1..asked /\ waiting' \in Seq(Cids)
         /\ ToSet(waiting)' = ToSet(waiting)
    BY <1>0, <2>1 DEF PublishingState, ToSet
  <2>6. hooked \subseteq open /\ lock' \in Threads \cup {NoThread} /\ hooked' \subseteq open
    BY <1>0, <2>1 DEF TrackTypes
  <2> QED
    BY ONLY PublishingInv, t \in Threads, <2>1, <2>2, <2>3, <2>4, <2>6, <2>5, QuietStep
<1> QED
  BY <1>1, <1>2, <1>3, <1>4, <1>5

LEMMA NoCalls ==
  /\ <<>> \in Seq(Item) /\ Len(<<>>) = 0 /\ Followed(<<>>)
  /\ \A i \in 1..Len(<<>>) :
       /\ <<>>[i].do = "look" => <<>>[i].cid \in Cids
       /\ <<>>[i].do # "tell"
  BY DEF Followed

LEMMA TellStep ==
  ASSUME PublishingInv, NEW t \in Threads, Tell(t) PROVE PublishingInv'
<1>1. PublishingState /\ WorkTypes /\ TrackTypes /\ lock \in Threads \cup {NoThread}
  BY DEF PublishingInv, PublishingState
<1>2. /\ work[t] # <<>> /\ This(t).do = "tell" /\ Then(t, <<>>)
      /\ told' = told \cup {This(t).track.n}
      /\ UNCHANGED <<pending, published, open, hooked, missed, lock, permitted, waiting, asked>>
  BY DEF Tell, Does, This, tracks, bounds
<1>3. This(t).track.n \in 1..asked
  BY <1>1, <1>2, ServesOne DEF WorkTypes
<1>4. /\ told \subseteq told' /\ told' \subseteq 1..asked /\ waiting' \in Seq(Cids)
      /\ This(t).track.n \in told' /\ ToSet(waiting)' = ToSet(waiting)
  BY <1>1, <1>2, <1>3 DEF PublishingState, ToSet
<1>5. hooked' \subseteq open /\ lock' \in Threads \cup {NoThread}
  BY <1>1, <1>2 DEF TrackTypes
<1>6. work' = [work EXCEPT ![t] = <<>> \o Rest(t)]
  BY <1>2, ThenServes
<1>7. \A c \in DOMAIN pending : c \in ToSet(waiting)' => c \in ToSet(waiting) \/ pending[c].queued
  BY <1>4
<1> QED
  BY ONLY PublishingInv, t \in Threads, <1>2, <1>4, <1>5, <1>6, <1>7, NoCalls, QuietStep

LEMMA TakeStep ==
  ASSUME PublishingInv, NEW t \in Threads, TakeWaiting(t) PROVE PublishingInv'
<1> DEFINE calls == [i \in DOMAIN waiting |-> LookAt(waiting[i])]
<1>1. PublishingState /\ TrackTypes /\ lock \in Threads \cup {NoThread} /\ waiting \in Seq(Cids)
      /\ told \subseteq 1..asked
  BY DEF PublishingInv, PublishingState
<1>2. /\ work[t] # <<>> /\ This(t).do = "retry" /\ Then(t, calls)
      /\ waiting' = <<>>
      /\ UNCHANGED <<pending, published, open, hooked, missed, lock, permitted, told, asked>>
  BY DEF TakeWaiting, Does, This, tracks, bounds
<1>3. /\ calls \in Seq(Item) /\ Len(calls) = Len(waiting)
      /\ \A i \in 1..Len(calls) : calls[i].do = "look" /\ calls[i].cid \in Cids
  <2>1. DOMAIN waiting = 1..Len(waiting) /\ Len(waiting) \in Nat
        /\ \A i \in 1..Len(waiting) : waiting[i] \in Cids
    BY <1>1
  <2>2. \A i \in 1..Len(waiting) :
          LookAt(waiting[i]) \in Item /\ LookAt(waiting[i]).do = "look" /\ LookAt(waiting[i]).cid \in Cids
    BY <2>1, Items
  <2>3. calls \in [1..Len(waiting) -> Item]
    BY <2>1, <2>2
  <2> QED
    BY <2>1, <2>2, <2>3
<1>4. Followed(calls)
  BY <1>3 DEF Followed
<1>5. ToSet(waiting)' = {} /\ waiting' \in Seq(Cids)
  BY <1>2 DEF ToSet
<1>6. hooked' \subseteq open /\ lock' \in Threads \cup {NoThread}
  BY <1>1, <1>2 DEF TrackTypes
<1>7. work' = [work EXCEPT ![t] = calls \o Rest(t)]
  BY <1>2, ThenServes
<1>8. \A i \in 1..Len(calls) :
        /\ calls[i].do = "look" => calls[i].cid \in Cids
        /\ calls[i].do # "tell"
  BY <1>3
<1> HIDE DEF calls
<1> QED
  BY <1>1, <1>2, <1>3, <1>4, <1>5, <1>6, <1>7, <1>8, QuietStep

LEMMA WaitStep ==
  ASSUME PublishingInv, NEW t \in Threads, LookWaits(t) PROVE PublishingInv'
<1> DEFINE c == This(t).cid
<1>1. PublishingState /\ WorkTypes /\ TrackTypes /\ lock \in Threads \cup {NoThread}
      /\ waiting \in Seq(Cids) /\ told \subseteq 1..asked
  BY DEF PublishingInv, PublishingState
<1>2. /\ work[t] # <<>> /\ This(t).do = "look" /\ Then(t, <<>>)
      /\ waiting' = Append(waiting, c)
      /\ RequestsFor(c) = {} \/ \E d \in RequestsFor(c) : pending[d].queued
      /\ UNCHANGED <<pending, published, open, hooked, missed, lock, permitted, told, asked>>
  BY DEF LookWaits, Does, This, tracks, bounds
<1>3. c \in Cids
  BY <1>1, <1>2, ServesOne DEF WorkTypes
<1> HIDE DEF c
<1>4. waiting' \in Seq(Cids) /\ ToSet(waiting)' = ToSet(waiting) \cup {c}
  <2>1. /\ Append(waiting, c) \in Seq(Cids) /\ Len(Append(waiting, c)) = Len(waiting) + 1
        /\ \A i \in 1..Len(waiting) : Append(waiting, c)[i] = waiting[i]
        /\ Append(waiting, c)[Len(waiting) + 1] = c
    BY <1>1, <1>3, AppendProperties
  <2>2. Len(waiting) \in Nat /\ DOMAIN waiting = 1..Len(waiting)
        /\ DOMAIN Append(waiting, c) = 1..Len(Append(waiting, c))
    BY <1>1, <2>1
  <2> QED
    BY <1>2, <2>1, <2>2 DEF ToSet
<1>5. c \in DOMAIN pending => pending[c].queued
  BY <1>2 DEF RequestsFor
<1>6. hooked' \subseteq open /\ lock' \in Threads \cup {NoThread}
  BY <1>1, <1>2 DEF TrackTypes
<1>7. work' = [work EXCEPT ![t] = <<>> \o Rest(t)]
  BY <1>2, ThenServes
<1>8. \A d \in DOMAIN pending : d \in ToSet(waiting)' => d \in ToSet(waiting) \/ pending[d].queued
  BY <1>4, <1>5
<1>9. told \subseteq told' /\ told' \subseteq 1..asked
  BY <1>1, <1>2
<1> QED
  BY ONLY PublishingInv, t \in Threads, <1>2, <1>4, <1>6, <1>7, <1>8, <1>9, NoCalls, QuietStep

LEMMA Removal ==
  ASSUME NEW r \in Track
  PROVE  /\ RemovePublished(r) \in Seq(Item) /\ Len(RemovePublished(r)) = 2
         /\ RemovePublished(r)[1] = OfTrack("close", r) /\ RemovePublished(r)[2] = OfTrack("unlist", r)
<1>1. OfTrack("close", r) \in Item /\ OfTrack("unlist", r) \in Item
  BY Items DEF Doings
<1> QED
  BY <1>1 DEF RemovePublished

LEMMA CheckStep ==
  ASSUME PublishingInv, NEW t \in Threads, Check(t) PROVE PublishingInv'
<1> DEFINE r == This(t).track
           calls == IF permitted THEN <<>> ELSE RemovePublished(r)
<1>1. PublishingState /\ WorkTypes /\ TrackTypes /\ lock \in Threads \cup {NoThread}
      /\ waiting \in Seq(Cids) /\ told \subseteq 1..asked /\ permitted \in BOOLEAN
      /\ missed \cap open = {}
      /\ \A c \in DOMAIN pending : pending[c] \in [infos : Seq(Track), queued : BOOLEAN]
  BY DEF PublishingInv, PublishingState, QueueOf
<1>2. /\ work[t] # <<>> /\ This(t).do = "check" /\ Then(t, calls)
      /\ UNCHANGED <<pending, published, open, hooked, missed, lock, permitted, told, waiting, asked>>
  BY DEF Check, Does, This, tracks, bounds
<1>3. r \in Track
  BY <1>1, <1>2, ServesOne DEF Item
<1>4. work' = [work EXCEPT ![t] = calls \o Rest(t)]
  BY <1>2, ThenServes
<1>5. hooked' \subseteq open /\ lock' \in Threads \cup {NoThread}
  BY <1>1, <1>2 DEF TrackTypes
<1>6. CASE permitted
  <2>1. work' = [work EXCEPT ![t] = <<>> \o Rest(t)]
    BY <1>4, <1>6
  <2>2. ToSet(waiting)' = ToSet(waiting)
    BY <1>2 DEF ToSet
  <2> QED
    BY ONLY PublishingInv, t \in Threads, <1>1, <1>2, <1>5, <1>6, <2>1, <2>2, NoCalls, QuietStep
<1>7. CASE ~permitted
  <2>1. /\ calls \in Seq(Item) /\ Len(calls) = 2
        /\ calls[1] = OfTrack("close", r) /\ calls[2] = OfTrack("unlist", r)
    BY <1>3, <1>7, Removal
  <2>2. OfTrack("close", r).do = "close" /\ OfTrack("unlist", r).do = "unlist"
    BY DEF OfTrack, Call
  <2> HIDE DEF calls, r
  <2>3. \A i \in 1..Len(calls) : calls[i].do \in {"close", "unlist"}
    BY <2>1, <2>2
  <2>4. Followed(calls) /\ \A i \in 1..Len(calls) :
          /\ calls[i].do = "look" => calls[i].cid \in Cids
          /\ calls[i].do = "tell" => calls[i].track.n \in 1..asked
    BY <2>3 DEF Followed
  <2>5. PublishingState' /\ \A u \in Threads : Followed(work[u])'
    BY <1>1, <1>2, <1>4, <1>5, <2>1, <2>4, StateKept
  <2>6. ASSUME NEW s \in DOMAIN published' PROVE ListedOf(s)'
    <3>1. This(t) # OfTrack("unlist", published[s])
      BY <1>2 DEF OfTrack, Call
    <3> QED
      BY <1>2, <1>4, <2>1, <2>6, <3>1, ListedKept
  <2>7. ASSUME NEW c \in DOMAIN pending' PROVE ProceedsOf(c)'
    <3>1. ToSet(waiting)' = ToSet(waiting)
      BY <1>2 DEF ToSet
    <3> QED
      BY <1>2, <1>4, <2>1, <2>7, <3>1, ProceedsKept
  <2>8. RevokedIsGone'
    <3>1. work \in [Threads -> Seq(Item)] /\ RevokedIsGone
      BY DEF PublishingInv, PublishingState, WorkTypes
    <3>2. \A x \in ToDo : x \in ToDo' \/ x = This(t)
      BY <1>4, <2>1, <3>1, StillToDo DEF This
    <3>3. OfTrack("close", r) \in ToDo'
      <4>1. 1 \in 1..Len(calls)
        BY <2>1
      <4>2. calls[1] \in ToDo'
        BY <1>4, <2>1, <3>1, <4>1, StillToDo
      <4> QED
        BY <2>1, <4>2
    <3>4. ASSUME NEW s \in DOMAIN published, published[s] \in open
          PROVE  {OfTrack("close", published[s]), OfTrack("check", published[s])} \cap ToDo' # {}
      <4>1. {OfTrack("close", published[s]), OfTrack("check", published[s])} \cap ToDo # {}
        BY <1>7, <3>1, <3>4 DEF RevokedIsGone
      <4>2. OfTrack("close", published[s]) # This(t)
        BY <1>2 DEF OfTrack, Call
      <4>3. OfTrack("check", published[s]) = This(t) => published[s] = r
        BY DEF OfTrack, Call, r
      <4> QED
        BY <3>2, <3>3, <4>1, <4>2, <4>3
    <3> QED
      BY <1>2, <3>4 DEF RevokedIsGone, OfTrack
  <2> QED
    BY <2>5, <2>6, <2>7, <2>8 DEF PublishingInv
<1> QED
  BY <1>1, <1>6, <1>7

LEMMA UnlistStep ==
  ASSUME PublishingInv, NEW t \in Threads, Unlist(t) PROVE PublishingInv'
<1> DEFINE r == This(t).track
<1>1. PublishingState /\ WorkTypes /\ TrackTypes /\ lock \in Threads \cup {NoThread}
      /\ waiting \in Seq(Cids) /\ told \subseteq 1..asked /\ permitted \in BOOLEAN
      /\ missed \cap open = {}
      /\ \A c \in DOMAIN pending : pending[c] \in [infos : Seq(Track), queued : BOOLEAN]
  BY DEF PublishingInv, PublishingState, QueueOf
<1>2. /\ work[t] # <<>> /\ This(t).do = "unlist" /\ Then(t, <<>>)
      /\ published' = Without(published, {r.sid})
      /\ UNCHANGED <<pending, open, hooked, missed, lock, permitted, told, waiting, asked>>
  BY DEF Unlist, Does, This, bounds
<1> HIDE DEF r
<1>3. DOMAIN published' = DOMAIN published \ {r.sid}
      /\ \A s \in DOMAIN published' : published'[s] = published[s]
  BY <1>2 DEF Without
<1>4. work' = [work EXCEPT ![t] = <<>> \o Rest(t)]
  BY <1>2, ThenServes
<1>5. hooked' \subseteq open /\ lock' \in Threads \cup {NoThread}
  BY <1>1, <1>2 DEF TrackTypes
<1>6. PublishingState' /\ \A u \in Threads : Followed(work[u])'
  <2>1. \A i \in 1..Len(<<>>) :
          /\ <<>>[i].do = "look" => <<>>[i].cid \in Cids
          /\ <<>>[i].do = "tell" => <<>>[i].track.n \in 1..asked
    OBVIOUS
  <2> QED
    BY <1>1, <1>2, <1>3, <1>4, <1>5, <2>1, NoCalls, StateKept
<1>7. ASSUME NEW s \in DOMAIN published' PROVE ListedOf(s)'
  <2>1. s \in DOMAIN published /\ published'[s] = published[s] /\ s # r.sid
    BY <1>3, <1>7
  <2>2. published[s].sid = s
    BY <1>1, <2>1 DEF TrackTypes
  <2>3. This(t) # OfTrack("unlist", published[s])
    BY <2>1, <2>2 DEF OfTrack, Call, r
  <2> QED
    BY <1>2, <1>4, <2>1, <2>3, NoCalls, ListedKept
<1>8. ASSUME NEW c \in DOMAIN pending' PROVE ProceedsOf(c)'
  <2>1. ToSet(waiting)' = ToSet(waiting)
    BY <1>2 DEF ToSet
  <2> QED
    BY <1>2, <1>4, <1>8, <2>1, NoCalls, ProceedsKept
<1>9. RevokedIsGone'
  <2> SUFFICES ASSUME ~permitted, NEW s \in DOMAIN published', published'[s] \in open'
               PROVE  {OfTrack("close", published'[s]), OfTrack("check", published'[s])} \cap ToDo' # {}
    BY <1>2 DEF RevokedIsGone, OfTrack
  <2>1. s \in DOMAIN published /\ published'[s] = published[s]
    BY <1>3
  <2> QED
    BY <1>2, <1>4, <2>1, NoCalls, RevokedKept
<1> QED
  BY <1>6, <1>7, <1>8, <1>9 DEF PublishingInv

LEMMA Closing ==
  ASSUME NEW r \in Track
  PROVE  /\ OnClose(r) \in Seq(Item)
         /\ \A i \in 1..Len(OnClose(r)) : OnClose(r)[i].do \notin {"look", "tell"}
         /\ Followed(OnClose(r))
         /\ r \in hooked =>
              /\ Len(OnClose(r)) = 4
              /\ OnClose(r)[1] = OfTrack("unlist", r) /\ OnClose(r)[3] = OfTrack("unqueue", r)
<1>1. /\ OfTrack("unlist", r) \in Item /\ OfTrack("clear", r) \in Item
      /\ OfTrack("unqueue", r) \in Item /\ Retry \in Item
      /\ OfTrack("unlist", r).do = "unlist" /\ OfTrack("clear", r).do = "clear"
      /\ OfTrack("unqueue", r).do = "unqueue" /\ Retry.do = "retry"
  BY Items DEF Doings
<1>2. CASE r \in hooked
  <2>1. OnClose(r) = <<OfTrack("unlist", r), OfTrack("clear", r), OfTrack("unqueue", r), Retry>>
    BY <1>2 DEF OnClose
  <2>2. /\ OnClose(r) \in Seq(Item) /\ Len(OnClose(r)) = 4
        /\ OnClose(r)[1] = OfTrack("unlist", r) /\ OnClose(r)[2] = OfTrack("clear", r)
        /\ OnClose(r)[3] = OfTrack("unqueue", r) /\ OnClose(r)[4] = Retry
    BY <1>1, <2>1
  <2>3. ASSUME NEW i \in 1..Len(OnClose(r))
        PROVE  /\ OnClose(r)[i].do \notin {"look", "tell"}
               /\ OnClose(r)[i].do = "unqueue" => i = 3
    <3>1. i = 1 \/ i = 2 \/ i = 3 \/ i = 4
      BY <2>2
    <3> QED
      BY <1>1, <2>2, <3>1
  <2>4. Followed(OnClose(r))
    BY <2>2, <2>3 DEF Followed
  <2> QED
    BY <2>2, <2>3, <2>4
<1>3. CASE r \notin hooked
  <2>1. OnClose(r) = <<OfTrack("unlist", r)>>
    BY <1>3 DEF OnClose
  <2>2. OnClose(r) \in Seq(Item) /\ Len(OnClose(r)) = 1 /\ OnClose(r)[1] = OfTrack("unlist", r)
    BY <1>1, <2>1
  <2> QED
    BY <1>1, <1>3, <2>2 DEF Followed
<1> QED
  BY <1>2, <1>3

LEMMA CloseStep ==
  ASSUME PublishingInv, NEW t \in Threads, Close(t) PROVE PublishingInv'
<1> DEFINE r == This(t).track
           calls == IF r \in open THEN OnClose(r) ELSE <<>>
<1>1. PublishingState /\ WorkTypes /\ TrackTypes /\ lock \in Threads \cup {NoThread}
      /\ waiting \in Seq(Cids) /\ told \subseteq 1..asked /\ permitted \in BOOLEAN
      /\ missed \cap open = {}
      /\ \A c \in DOMAIN pending : pending[c] \in [infos : Seq(Track), queued : BOOLEAN]
  BY DEF PublishingInv, PublishingState, QueueOf
<1>2. /\ work[t] # <<>> /\ This(t).do = "close" /\ Then(t, calls)
      /\ open' = open \ {r} /\ hooked' = hooked \ {r}
      /\ missed' = IF r \in open \ hooked THEN missed \cup {r} ELSE missed
      /\ UNCHANGED <<pending, published, lock, permitted, told, waiting, asked>>
  BY DEF Close, Does, This, bounds
<1>3. r \in Track
  BY <1>1, <1>2, ServesOne DEF Item
<1>4. work' = [work EXCEPT ![t] = calls \o Rest(t)]
  BY <1>2, ThenServes
<1>5. hooked' \subseteq open' /\ lock' \in Threads \cup {NoThread} /\ hooked \subseteq open
  BY <1>1, <1>2 DEF TrackTypes
<1>6. /\ calls \in Seq(Item) /\ Followed(calls)
      /\ \A i \in 1..Len(calls) : calls[i].do \notin {"look", "tell"}
  BY <1>3, Closing, NoCalls
<1>7. r \in hooked => LetsGoOn(calls, r) /\ \E i \in 1..Len(calls) : calls[i] = OfTrack("unqueue", r)
  <2> SUFFICES ASSUME r \in hooked
               PROVE  LetsGoOn(calls, r) /\ \E i \in 1..Len(calls) : calls[i] = OfTrack("unqueue", r)
    OBVIOUS
  <2>1. Len(calls) = 4 /\ calls[1] = OfTrack("unlist", r) /\ calls[3] = OfTrack("unqueue", r)
    BY <1>3, <1>5, Closing
  <2> HIDE DEF calls, r
  <2>2. 1 \in 1..Len(calls) /\ 3 \in 1..Len(calls) /\ 1 + 2 = 3 /\ 1 + 2 <= Len(calls)
    BY <2>1
  <2> QED
    BY <2>1, <2>2 DEF LetsGoOn
<1> HIDE DEF calls
<1>8. PublishingState' /\ \A u \in Threads : Followed(work[u])'
  <2>1. /\ open' \subseteq open /\ missed' \subseteq missed \cup open /\ missed' \cap open' = {}
    BY <1>1, <1>2
  <2> QED
    BY <1>1, <1>2, <1>4, <1>5, <1>6, <2>1, StateKept
<1>9. ASSUME NEW s \in DOMAIN published' PROVE ListedOf(s)'
  <2>1. This(t) # OfTrack("unlist", published[s])
    BY <1>2 DEF OfTrack, Call
  <2>2. missed \subseteq missed'
        /\ (published[s] \in open =>
              published[s] \in open' \cup missed' \/ LetsGoOn(calls, published[s]))
    BY <1>2, <1>7
  <2> QED
    BY <1>2, <1>4, <1>6, <1>9, <2>1, <2>2, ListedKept
<1>10. ASSUME NEW c \in DOMAIN pending' PROVE ProceedsOf(c)'
  <2>1. ToSet(waiting)' = ToSet(waiting)
    BY <1>2 DEF ToSet
  <2>2. \A o \in open \cup missed :
          o \in open' \cup missed' \/ \E i \in 1..Len(calls) : calls[i] = OfTrack("unqueue", o)
    BY <1>2, <1>7
  <2>3. This(t).do \notin {"tell", "retry", "unqueue"}
    BY <1>2
  <2> QED
    BY <1>2, <1>4, <1>6, <1>10, <2>1, <2>2, <2>3, ProceedsKept
<1>11. RevokedIsGone'
  <2>1. work \in [Threads -> Seq(Item)] /\ RevokedIsGone
    BY DEF PublishingInv, PublishingState, WorkTypes
  <2>2. \A x \in ToDo : x \in ToDo' \/ x = This(t)
    BY <1>4, <1>6, <2>1, StillToDo DEF This
  <2>3. ASSUME ~permitted, NEW s \in DOMAIN published, published[s] \in open'
        PROVE  {OfTrack("close", published[s]), OfTrack("check", published[s])} \cap ToDo' # {}
    <3>1. {OfTrack("close", published[s]), OfTrack("check", published[s])} \cap ToDo # {}
      BY <1>2, <2>1, <2>3 DEF RevokedIsGone
    <3>2. OfTrack("check", published[s]) # This(t)
      BY <1>2 DEF OfTrack, Call
    <3>3. OfTrack("close", published[s]) # This(t)
      <4>1. OfTrack("close", published[s]).track = published[s] /\ published[s] # r
        BY <1>2, <2>3 DEF OfTrack, Call
      <4> QED
        BY <4>1
    <3> QED
      BY <2>2, <3>1, <3>2, <3>3
  <2> QED
    BY <1>2, <2>3 DEF RevokedIsGone, OfTrack
<1> QED
  BY <1>8, <1>9, <1>10, <1>11 DEF PublishingInv

LEMMA UnqueueStep ==
  ASSUME PublishingInv, NEW t \in Threads, Unqueue(t) PROVE PublishingInv'
<1> DEFINE c == This(t).cid
<1>1. PublishingState /\ WorkTypes /\ TrackTypes /\ lock \in Threads \cup {NoThread}
      /\ waiting \in Seq(Cids) /\ told \subseteq 1..asked /\ permitted \in BOOLEAN
      /\ missed \cap open = {} /\ (\A d \in DOMAIN pending : QueueOf(d))
      /\ \A u \in Threads : Followed(work[u])
  BY DEF PublishingInv, PublishingState
<1>2. /\ work[t] # <<>> /\ This(t).do = "unqueue" /\ Then(t, <<>>)
      /\ pending' = IF c \in DOMAIN pending THEN [pending EXCEPT ![c].queued = FALSE] ELSE pending
      /\ told' = IF c \in DOMAIN pending THEN told \cup {Head(pending[c].infos).n} ELSE told
      /\ UNCHANGED <<published, open, hooked, missed, lock, permitted, waiting, asked>>
  BY DEF Unqueue, Does, This, bounds
<1>3. work' = [work EXCEPT ![t] = <<>> \o Rest(t)]
  BY <1>2, ThenServes
<1>4. This(t) = work[t][1]
  BY <1>1, <1>2, ServesOne
<1> HIDE DEF c
<1>5. /\ DOMAIN pending' = DOMAIN pending
      /\ \A d \in DOMAIN pending : /\ pending'[d].infos = pending[d].infos
                                   /\ pending'[d] \in [infos : Seq(Track), queued : BOOLEAN]
                                   /\ d # c => pending'[d].queued = pending[d].queued
      /\ c \in DOMAIN pending => pending'[c].queued = FALSE
  <2>1. \A d \in DOMAIN pending : pending[d] \in [infos : Seq(Track), queued : BOOLEAN]
    BY <1>1 DEF QueueOf
  <2> QED
    BY <1>2, <2>1
<1>6. hooked' \subseteq open /\ lock' \in Threads \cup {NoThread}
  BY <1>1, <1>2 DEF TrackTypes
<1>7. told' \subseteq 1..asked
  <2>1. ASSUME c \in DOMAIN pending PROVE Head(pending[c].infos).n \in 1..asked
    <3>1. QueueOf(c)
      BY <1>1, <2>1
    <3>2. pending[c].infos \in Seq(Track) /\ pending[c].infos # <<>>
      BY <3>1 DEF QueueOf
    <3>3. Head(pending[c].infos) = pending[c].infos[1] /\ 1 \in 1..Len(pending[c].infos)
      BY <3>2, EmptySeq
    <3> QED
      BY <3>1, <3>3 DEF QueueOf
  <2> QED
    BY <1>1, <1>2, <2>1
<1>8. PublishingState' /\ \A u \in Threads : Followed(work[u])'
  <2>1. \A i \in 1..Len(<<>>) :
          /\ <<>>[i].do = "look" => <<>>[i].cid \in Cids
          /\ <<>>[i].do = "tell" => <<>>[i].track.n \in 1..asked
    OBVIOUS
  <2> QED
    BY <1>1, <1>2, <1>3, <1>5, <1>6, <1>7, <2>1, NoCalls, StateKept
<1>9. ASSUME NEW s \in DOMAIN published' PROVE ListedOf(s)'
  <2>1. This(t) # OfTrack("unlist", published[s])
    BY <1>2 DEF OfTrack, Call
  <2> QED
    BY <1>2, <1>3, <1>9, <2>1, NoCalls, ListedKept
<1>10. ASSUME NEW d \in DOMAIN pending' PROVE ProceedsOf(d)'
  <2>1. CASE d # c
    <3>1. ToSet(waiting)' = ToSet(waiting)
      BY <1>2 DEF ToSet
    <3>2. /\ d \in DOMAIN pending /\ pending'[d].queued = pending[d].queued
          /\ Head(pending'[d].infos) = Head(pending[d].infos)
      BY <1>5, <1>10, <2>1
    <3>3. This(t).do = "unqueue" /\ This(t).cid # d /\ told \subseteq told'
      BY <1>2, <2>1 DEF c
    <3> QED
      BY <1>2, <1>3, <3>1, <3>2, <3>3, NoCalls, ProceedsKept
  <2>2. CASE d = c
    <3>1. pending'[d].queued = FALSE /\ Head(pending'[d].infos).n \in told'
      BY <1>2, <1>5, <1>10, <2>2
    <3>2. Retry \in ToDo'
      <4>1. work \in [Threads -> Seq(Item)] /\ work[t] \in Seq(Item) /\ Len(work[t]) \in Nat
        BY <1>1, LenProperties DEF WorkTypes
      <4>2. 1 \in 1..Len(work[t])
        BY <1>2, <4>1, EmptySeq
      <4>3. 1 < Len(work[t]) /\ work[t][1 + 1] = Retry
        BY <1>1, <1>2, <1>4, <4>2 DEF Followed
      <4>4. 1 + 1 \in 1..Len(work[t])
        BY <4>1, <4>3
      <4>5. Retry \in ToDo
        BY <4>1, <4>3, <4>4, Doing
      <4>6. Retry # This(t)
        BY <1>2, Items
      <4> QED
        BY <1>3, <4>1, <4>5, <4>6, NoCalls, StillToDo DEF This
    <3> QED
      BY <3>1, <3>2 DEF ProceedsOf, LooksAgain
  <2> QED
    BY <2>1, <2>2
<1>11. RevokedIsGone'
  <2> SUFFICES ASSUME ~permitted, NEW s \in DOMAIN published', published'[s] \in open'
               PROVE  {OfTrack("close", published'[s]), OfTrack("check", published'[s])} \cap ToDo' # {}
    BY <1>2 DEF RevokedIsGone, OfTrack
  <2> QED
    BY <1>2, <1>3, NoCalls, RevokedKept
<1> QED
  BY <1>8, <1>9, <1>10, <1>11 DEF PublishingInv

\* The list that SetPermission walks has every track there is.
LEMMA WholeList ==
  ASSUME asked \in Nat, TrackTypes, NEW order \in SetToSeqs(Range(published))
  PROVE  /\ order \in Seq(Track)
         /\ \A s \in DOMAIN published : \E k \in 1..Len(order) : order[k] = published[s]
<1> DEFINE R == Range(published)
           D == 1..Cardinality(R)
<1>1. IsFiniteSet(R)
  <2>1. IsFiniteSet(1..asked)
    BY FS_Interval
  <2>2. IsFiniteSet(DOMAIN published)
    BY <2>1, FS_Subset DEF TrackTypes
  <2>3. [s \in DOMAIN published |-> published[s]] \in Surjection(DOMAIN published, R)
    BY DEF Surjection, Range
  <2> QED
    BY <2>2, <2>3, FS_Surjection
<1>2. Cardinality(R) \in Nat
  BY <1>1, FS_CardinalityType
<1>3. order \in [D -> R] /\ \A i, j \in D : i # j => order[i] # order[j]
  BY DEF SetToSeqs
<1>4. IsFiniteSet(D) /\ Cardinality(D) = Cardinality(R)
  BY <1>2, FS_Interval
<1>5. order \in Injection(D, R)
  BY <1>3 DEF Injection, IsInjective
<1>6. order \in Surjection(D, R)
  BY <1>1, <1>4, <1>5, FS_Injection
<1>7. R \subseteq Track
  BY DEF Range, TrackTypes
<1>8. order \in Seq(Track) /\ Len(order) = Cardinality(R)
  BY <1>2, <1>3, <1>7
<1>9. ASSUME NEW s \in DOMAIN published PROVE \E k \in 1..Len(order) : order[k] = published[s]
  <2>1. published[s] \in R
    BY DEF Range
  <2> QED
    BY <1>6, <1>8, <2>1 DEF Surjection
<1> QED
  BY <1>8, <1>9

LEMMA PermissionStep ==
  ASSUME PublishingInv, NEW t \in Threads, SetPermission(t) PROVE PublishingInv'
<1>1. PublishingState /\ WorkTypes /\ TrackTypes /\ lock \in Threads \cup {NoThread}
      /\ waiting \in Seq(Cids) /\ told \subseteq 1..asked /\ permitted \in BOOLEAN
      /\ missed \cap open = {} /\ asked \in Nat
      /\ \A c \in DOMAIN pending : pending[c] \in [infos : Seq(Track), queued : BOOLEAN]
  BY DEF PublishingInv, PublishingState, QueueOf
<1>2. /\ work[t] = <<>> /\ permitted' = ~permitted
      /\ UNCHANGED <<pending, published, open, hooked, missed, lock, told, waiting, asked>>
  BY DEF SetPermission, tracks
<1>3. CASE permitted'
  <2>1. work' = work
    BY <1>3 DEF SetPermission
  <2>2. ~permitted
    BY <1>2, <1>3
  <2>3. PublishingState' /\ \A u \in Threads : Followed(work'[u])
    BY <1>1, <1>2, <2>1 DEF PublishingInv, PublishingState, WorkTypes, TrackTypes, ToDo, QueueOf
  <2>4. (\A s \in DOMAIN published : ListedOf(s)') /\ \A c \in DOMAIN pending : ProceedsOf(c)'
    BY <1>2, <2>1 DEF PublishingInv, ListedOf, LetsGoOn, ProceedsOf, LooksAgain, ToDo, ToSet
  <2>5. RevokedIsGone'
    BY <1>3 DEF RevokedIsGone
  <2> QED
    BY <1>2, <2>3, <2>4, <2>5 DEF PublishingInv, Followed
<1>4. CASE ~permitted'
  <2>1. PICK order \in SetToSeqs(Range(published)) :
          work' = [work EXCEPT ![t] = [i \in 1..2 * Len(order) |->
                     RemovePublished(order[(i + 1) \div 2])[2 - (i % 2)]]]
    BY <1>4 DEF SetPermission
  <2> DEFINE calls == [i \in 1..2 * Len(order) |->
                        RemovePublished(order[(i + 1) \div 2])[2 - (i % 2)]]
  <2>2. /\ order \in Seq(Track) /\ Len(order) \in Nat
        /\ \A s \in DOMAIN published : \E k \in 1..Len(order) : order[k] = published[s]
    BY <1>1, WholeList, LenProperties
  <2>3. ASSUME NEW i \in 1..2 * Len(order)
        PROVE  calls[i] \in Item /\ calls[i].do \in {"close", "unlist"}
    <3>1. (i + 1) \div 2 \in 1..Len(order) /\ (2 - (i % 2) = 1 \/ 2 - (i % 2) = 2)
      BY <2>2
    <3>2. order[(i + 1) \div 2] \in Track
      BY <2>2, <3>1
    <3>3. calls[i] \in {OfTrack("close", order[(i + 1) \div 2]), OfTrack("unlist", order[(i + 1) \div 2])}
      BY <3>1, <3>2, Removal
    <3> QED
      BY <3>2, <3>3, Items DEF Doings
  <2>4. calls \in Seq(Item) /\ Len(calls) = 2 * Len(order)
    BY <2>2, <2>3
  <2>5. ASSUME NEW s \in DOMAIN published
        PROVE  \E i \in 1..Len(calls) : calls[i] = OfTrack("close", published[s])
    <3>1. PICK k \in 1..Len(order) : order[k] = published[s]
      BY <2>2
    <3>2. /\ 2 * k - 1 \in 1..2 * Len(order)
          /\ ((2 * k - 1) + 1) \div 2 = k /\ 2 - ((2 * k - 1) % 2) = 1
      BY <2>2
    <3>3. order[k] \in Track
      BY <2>2
    <3>4. calls[2 * k - 1] = OfTrack("close", order[k])
      BY <3>2, <3>3, Removal
    <3> QED
      BY <2>4, <3>1, <3>2, <3>4
  <2> HIDE DEF calls
  <2>6. work' = [work EXCEPT ![t] = calls \o Rest(t)]
    BY <1>2, <2>1, <2>4, IdleStarts DEF calls
  <2>7. Followed(calls) /\ \A i \in 1..Len(calls) :
          /\ calls[i].do = "look" => calls[i].cid \in Cids
          /\ calls[i].do = "tell" => calls[i].track.n \in 1..asked
    BY <2>3, <2>4 DEF Followed
  <2>8. PublishingState' /\ \A u \in Threads : Followed(work[u])'
    <3>1. permitted' \in BOOLEAN /\ hooked' \subseteq open' /\ lock' \in Threads \cup {NoThread}
      BY <1>1, <1>2 DEF TrackTypes
    <3> QED
      BY <1>1, <1>2, <2>4, <2>6, <2>7, <3>1, StateKept
  <2>9. ASSUME NEW s \in DOMAIN published' PROVE ListedOf(s)'
    BY <1>2, <2>4, <2>6, <2>9, ListedKept
  <2>10. ASSUME NEW c \in DOMAIN pending' PROVE ProceedsOf(c)'
    <3>1. ToSet(waiting)' = ToSet(waiting)
      BY <1>2 DEF ToSet
    <3> QED
      BY <1>2, <2>4, <2>6, <2>10, <3>1, ProceedsKept
  <2>11. RevokedIsGone'
    <3>1. work \in [Threads -> Seq(Item)]
      BY <1>1 DEF WorkTypes
    <3>2. \A s \in DOMAIN published : OfTrack("close", published[s]) \in ToDo'
      BY <2>4, <2>5, <2>6, <3>1, StillToDo
    <3> QED
      BY <1>2, <3>2 DEF RevokedIsGone, OfTrack
  <2> QED
    BY <2>8, <2>9, <2>10, <2>11 DEF PublishingInv
<1> QED
  BY <1>3, <1>4

LEMMA AddStep ==
  ASSUME PublishingInv, NEW c \in Cids, AddTrack(c) PROVE PublishingInv'
<1> DEFINE more == c \in DOMAIN pending
           queue == more \/ Listed(c) # {}
           r == Request(asked + 1, IF more THEN Head(pending[c].infos).sid ELSE asked + 1, c)
           calls == IF queue THEN <<>> ELSE <<OfTrack("tell", r), Retry>>
<1>1. PublishingState /\ WorkTypes /\ TrackTypes /\ lock \in Threads \cup {NoThread}
      /\ waiting \in Seq(Cids) /\ told \subseteq 1..asked /\ permitted \in BOOLEAN
      /\ missed \cap open = {} /\ asked \in Nat /\ \A d \in DOMAIN pending : QueueOf(d)
  BY DEF PublishingInv, PublishingState
<1>2. /\ work[Signal] = <<>> /\ permitted /\ asked' = asked + 1
      /\ pending' = IF more THEN [pending EXCEPT ![c].infos = Append(@, r)]
                    ELSE Put(pending, c, [infos |-> <<r>>, queued |-> queue])
      /\ work' = IF queue THEN work ELSE [work EXCEPT ![Signal] = <<OfTrack("tell", r), Retry>>]
      /\ UNCHANGED <<published, open, hooked, missed, lock, permitted, told, waiting>>
  BY DEF AddTrack, tracks
<1>3. r \in Track /\ r.n = asked + 1 /\ r.sid \in 1..asked + 1 /\ r.cid = c
  <2>1. ASSUME more PROVE Head(pending[c].infos).sid \in 1..asked
    <3>1. QueueOf(c)
      BY <1>1, <2>1
    <3>2. pending[c].infos \in Seq(Track) /\ pending[c].infos # <<>>
      BY <3>1 DEF QueueOf
    <3>3. Head(pending[c].infos) = pending[c].infos[1] /\ 1 \in 1..Len(pending[c].infos)
      BY <3>2, EmptySeq
    <3> QED
      BY <3>1, <3>3 DEF QueueOf
  <2>2. (IF more THEN Head(pending[c].infos).sid ELSE asked + 1) \in 1..asked + 1
    BY <1>1, <2>1
  <2> QED
    BY <1>1, <2>2 DEF Track, Request
<1> HIDE DEF r
<1>4. /\ calls \in Seq(Item) /\ Followed(calls)
      /\ \A i \in 1..Len(calls) :
           /\ calls[i].do = "look" => calls[i].cid \in Cids
           /\ calls[i].do = "tell" => calls[i].track.n \in 1..asked + 1
      /\ ~queue => Len(calls) = 2 /\ calls[1] = OfTrack("tell", r) /\ calls[2] = Retry
  <2>1. CASE queue
    BY <2>1, NoCalls
  <2>2. CASE ~queue
    <3>1. OfTrack("tell", r) \in Item /\ OfTrack("tell", r).do = "tell" /\ OfTrack("tell", r).track = r
          /\ Retry \in Item /\ Retry.do = "retry"
      BY <1>3, Items DEF Doings
    <3>2. calls \in Seq(Item) /\ Len(calls) = 2 /\ calls[1] = OfTrack("tell", r) /\ calls[2] = Retry
      BY <2>2, <3>1
    <3>3. r.n \in 1..asked + 1
      BY <1>1, <1>3
    <3>4. \A i \in 1..Len(calls) : i = 1 \/ i = 2
      BY <3>2
    <3> QED
      BY <2>2, <3>1, <3>2, <3>3, <3>4 DEF Followed
  <2> QED
    BY <2>1, <2>2
<1>5. Signal \in Threads /\ work' = [work EXCEPT ![Signal] = calls \o Rest(Signal)]
  <2>1. work' = [work EXCEPT ![Signal] = calls]
    BY <1>1, <1>2 DEF WorkTypes
  <2> QED
    BY <1>2, <1>4, <2>1, IdleStarts, PublishingThreads
<1> HIDE DEF calls, queue
<1>6. \A d \in DOMAIN pending' \ {c} : d \in DOMAIN pending /\ pending'[d] = pending[d]
  BY <1>2 DEF Put
<1>7. \A d \in DOMAIN pending' \ {c} : QueueOf(d)'
  <2> SUFFICES ASSUME NEW d \in DOMAIN pending' \ {c} PROVE QueueOf(d)'
    OBVIOUS
  <2>1. QueueOf(d) /\ pending'[d] = pending[d] /\ UNCHANGED <<open, missed>>
    BY <1>1, <1>2, <1>6
  <2>2. 1..asked \subseteq 1..asked'
    BY <1>1, <1>2
  <2> QED
    BY <2>1, <2>2 DEF QueueOf
<1>8. c \in DOMAIN pending' /\ QueueOf(c)'
  <2>1. r \notin open \cup missed
    BY <1>1, <1>3 DEF TrackTypes
  <2>2. CASE more
    <3> DEFINE infos == pending[c].infos
    <3>1. /\ QueueOf(c) /\ c \in DOMAIN pending' /\ pending'[c].infos = Append(infos, r)
          /\ pending'[c].queued = pending[c].queued /\ infos \in Seq(Track)
          /\ pending'[c] = [pending[c] EXCEPT !.infos = Append(infos, r)]
      BY <1>1, <1>2, <2>2 DEF QueueOf
    <3>2. pending'[c] \in [infos : Seq(Track), queued : BOOLEAN]
      <4>1. Append(infos, r) \in Seq(Track)
        BY <1>3, <3>1, AppendProperties
      <4>2. pending[c] \in [infos : Seq(Track), queued : BOOLEAN]
        BY <3>1 DEF QueueOf
      <4> QED
        BY ONLY <3>1, <4>1, <4>2
    <3>3. /\ Append(infos, r) # <<>> /\ Len(Append(infos, r)) = Len(infos) + 1
          /\ Len(infos) \in Nat
          /\ \A i \in 1..Len(infos) : Append(infos, r)[i] = infos[i]
          /\ Append(infos, r)[Len(infos) + 1] = r
      BY <1>3, <3>1, AppendProperties, LenProperties
    <3>4. ASSUME NEW i \in 1..Len(Append(infos, r))
          PROVE  LET a == Append(infos, r) IN
                 /\ a[i].cid = c /\ a[i].n \in 1..asked + 1 /\ a[i].sid \in 1..asked + 1
                 /\ a[i] \notin open \cup missed
                 /\ \A j \in 1..Len(a) : i < j => a[i].n < a[j].n
      <4> DEFINE a == Append(infos, r)
      <4>1. \A j \in 1..Len(infos) : a[j] = infos[j] /\ a[j].n \in 1..asked
        BY <3>1, <3>3 DEF QueueOf
      <4>2. CASE i \in 1..Len(infos)
        <5>1. a[i] = infos[i] /\ a[i].n \in 1..asked /\ 1..asked \subseteq 1..asked + 1
          BY <1>1, <2>2, <4>1, <4>2
        <5>2. a[i].cid = c /\ a[i].sid \in 1..asked /\ a[i] \notin open \cup missed
          BY <3>1, <4>2, <5>1 DEF QueueOf
        <5>3. ASSUME NEW j \in 1..Len(a), i < j PROVE a[i].n < a[j].n
          <6>1. CASE j \in 1..Len(infos)
            BY <3>1, <4>1, <4>2, <5>3, <6>1 DEF QueueOf
          <6>2. CASE j = Len(infos) + 1
            <7>1. a[j] = r /\ a[j].n = asked + 1
              BY <1>3, <3>3, <6>2
            <7> QED
              BY <1>1, <5>1, <7>1
          <6> QED
            BY SMTT(30), <3>3, <6>1, <6>2
        <5> QED
          BY <5>1, <5>2, <5>3
      <4>3. CASE i = Len(infos) + 1
        <5>1. a[i] = r /\ \A j \in 1..Len(a) : ~(i < j)
          BY <3>3, <4>3
        <5> QED
          BY <1>1, <1>3, <2>1, <5>1
      <4>4. i \in 1..Len(infos) \/ i = Len(infos) + 1
        BY <3>3
      <4> QED
        BY <4>2, <4>3, <4>4
    <3>5. UNCHANGED <<open, missed>> /\ asked' = asked + 1
      BY <1>2
    <3> HIDE DEF infos
    <3> QED
      BY <3>1, <3>2, <3>3, <3>4, <3>5 DEF QueueOf
  <2>3. CASE ~more
    <3>1. c \in DOMAIN pending' /\ pending'[c] = [infos |-> <<r>>, queued |-> queue]
      BY <1>2, <2>3 DEF Put
    <3>2. queue \in BOOLEAN
      BY DEF queue
    <3>3. <<r>> \in Seq(Track) /\ <<r>> # <<>> /\ Len(<<r>>) = 1 /\ <<r>>[1] = r
      BY <1>3
    <3>4. asked + 1 \in 1..asked + 1
      BY <1>1
    <3>5. pending'[c].infos = <<r>> /\ pending'[c] \in [infos : Seq(Track), queued : BOOLEAN]
      BY <3>1, <3>2, <3>3
    <3>6. UNCHANGED <<open, missed>> /\ asked' = asked + 1
      BY <1>2
    <3> QED
      BY <1>3, <2>1, <3>1, <3>3, <3>4, <3>5, <3>6 DEF QueueOf
  <2> QED
    BY <2>2, <2>3
<1>9. PublishingState' /\ \A u \in Threads : Followed(work[u])'
  <2>1. asked' \in Nat /\ asked <= asked' /\ 1..asked \subseteq 1..asked'
    BY <1>1, <1>2
  <2>2. WorkTypes' /\ \A u \in Threads : Followed(work[u])'
    BY <1>2, <1>4, <1>5, <2>1, WorkKept
  <2>3. TrackTypes'
    <3>1. \A q \in open \cup missed : q.n <= asked'
      <4> SUFFICES ASSUME NEW q \in open \cup missed PROVE q.n <= asked'
        OBVIOUS
      <4>1. q.n \in Nat /\ q.n <= asked
        BY <1>1 DEF TrackTypes, Track
      <4> QED
        BY <1>1, <2>1, <4>1
    <3> QED
      BY <1>1, <1>2, <2>1, <3>1 DEF TrackTypes
  <2>4. \A d \in DOMAIN pending' : QueueOf(d)'
    BY <1>7, <1>8
  <2> QED
    BY <1>1, <1>2, <2>1, <2>2, <2>3, <2>4 DEF PublishingState
<1>10. ASSUME NEW s \in DOMAIN published' PROVE ListedOf(s)'
  BY <1>2, <1>4, <1>5, <1>10, ListedKept
<1>11. ASSUME NEW d \in DOMAIN pending' PROVE ProceedsOf(d)'
  <2>1. ToSet(waiting)' = ToSet(waiting)
    BY <1>2 DEF ToSet
  <2>2. CASE d # c
    <3>1. d \in DOMAIN pending /\ pending'[d] = pending[d]
      BY <1>6, <1>11, <2>2
    <3> QED
      BY <1>2, <1>4, <1>5, <2>1, <3>1, ProceedsKept
  <2>3. CASE d = c /\ more
    <3>1. QueueOf(c)
      BY <1>1, <2>3
    <3>2. pending[c].infos \in Seq(Track) /\ pending[c].infos # <<>>
          /\ pending'[c].infos = Append(pending[c].infos, r)
          /\ pending'[c].queued = pending[c].queued
      BY <1>2, <2>3, <3>1 DEF QueueOf
    <3>3. Head(Append(pending[c].infos, r)) = Head(pending[c].infos)
      BY <3>2, HeadTailAppend
    <3> QED
      BY <1>2, <1>4, <1>5, <2>1, <2>3, <3>2, <3>3, ProceedsKept
  <2>4. CASE d = c /\ ~more
    <3>1. pending'[c] = [infos |-> <<r>>, queued |-> queue] /\ Head(<<r>>) = r
      BY <1>2, <2>4 DEF Put
    <3>2. work \in [Threads -> Seq(Item)]
      BY <1>1 DEF WorkTypes
    <3>3. CASE queue
      <4>1. PICK s \in DOMAIN published : published[s].cid = c
        BY <2>4, <3>3 DEF queue, Listed
      <4>2. ListedOf(s)
        BY DEF PublishingInv
      <4>3. CASE published[s] \in open \cup missed
        BY <1>2, <2>4, <3>1, <3>3, <4>1, <4>3 DEF ProceedsOf
      <4>4. ASSUME NEW u \in Threads, LetsGoOn(work[u], published[s]) PROVE ProceedsOf(c)'
        <5>1. OfTrack("unqueue", published[s]) \in ToDo
          BY <3>2, <4>4, GoingOnToDo
        <5>2. OfTrack("unqueue", published[s]) \in ToDo'
          BY <1>2, <1>4, <1>5, <3>2, <5>1, StillToDo
        <5>3. OfTrack("unqueue", published[s]).do = "unqueue"
              /\ OfTrack("unqueue", published[s]).cid = c
          BY <4>1 DEF OfTrack, Call
        <5> QED
          BY <3>1, <3>3, <5>2, <5>3 DEF ProceedsOf
      <4> QED
        BY <2>4, <4>2, <4>3, <4>4 DEF ListedOf
    <3>4. CASE ~queue
      <4>1. 1 \in 1..Len(calls) /\ 2 \in 1..Len(calls)
        BY <1>4, <3>4
      <4>2. calls[1] \in ToDo' /\ calls[2] \in ToDo'
        BY <1>4, <1>5, <3>2, <4>1, StillToDo
      <4> QED
        BY <1>4, <2>4, <3>1, <3>4, <4>2 DEF ProceedsOf, LooksAgain
    <3> QED
      BY <3>3, <3>4
  <2> QED
    BY <2>2, <2>3, <2>4
<1>12. RevokedIsGone'
  BY <1>2 DEF RevokedIsGone
<1> QED
  BY <1>9, <1>10, <1>11, <1>12 DEF PublishingInv

LEMMA PublishStep ==
  ASSUME PublishingInv, NEW t \in Threads, LookPublishes(t) PROVE PublishingInv'
<1>1. PublishingState /\ WorkTypes /\ TrackTypes /\ lock \in Threads \cup {NoThread}
      /\ waiting \in Seq(Cids) /\ told \subseteq 1..asked /\ permitted \in BOOLEAN
      /\ missed \cap open = {} /\ asked \in Nat /\ \A d \in DOMAIN pending : QueueOf(d)
  BY DEF PublishingInv, PublishingState
<1>2. PICK d \in RequestsFor(This(t).cid) :
        LET r == Head(pending[d].infos) IN
        /\ published' = IF r.sid \in DOMAIN published THEN published ELSE Put(published, r.sid, r)
        /\ open' = open \cup {r}
        /\ pending' = Served(d)
        /\ Then(t, <<OfTrack("hook", r), OfTrack("check", r)>>)
  BY DEF LookPublishes
<1>3. /\ work[t] # <<>> /\ This(t).do = "look" /\ lock' = t
      /\ UNCHANGED <<hooked, missed, permitted, told, waiting, asked>>
  BY DEF LookPublishes, Does, This, bounds
<1> DEFINE infos == pending[d].infos
           r == Head(infos)
           calls == <<OfTrack("hook", r), OfTrack("check", r)>>
<1>4. d \in DOMAIN pending /\ QueueOf(d)
  BY <1>1, <1>2 DEF RequestsFor
<1>5. /\ infos \in Seq(Track) /\ infos # <<>> /\ Len(infos) \in Nat /\ 1 \in 1..Len(infos)
      /\ r = infos[1] /\ r \in Track
  BY <1>4, EmptySeq, LenProperties, HeadTailProperties DEF QueueOf
<1>6. /\ r.cid = d /\ r.n \in 1..asked /\ r.sid \in 1..asked /\ r \notin open \cup missed
      /\ \A j \in 2..Len(infos) : r.n < infos[j].n
  BY <1>4, <1>5 DEF QueueOf
<1>7. /\ calls \in Seq(Item) /\ Len(calls) = 2
      /\ calls[1] = OfTrack("hook", r) /\ calls[2] = OfTrack("check", r)
  BY <1>5, Items DEF Doings
<1>8. OfTrack("hook", r).do = "hook" /\ OfTrack("check", r).do = "check"
  BY DEF OfTrack, Call
<1>9. work' = [work EXCEPT ![t] = calls \o Rest(t)]
  BY <1>2, <1>3, ThenServes
<1>10. open' = open \cup {r} /\ pending' = Served(d)
       /\ published' = IF r.sid \in DOMAIN published THEN published ELSE Put(published, r.sid, r)
  BY <1>2
<1> HIDE DEF calls, r
<1>11. Followed(calls) /\ \A i \in 1..Len(calls) :
         /\ calls[i].do = "look" => calls[i].cid \in Cids
         /\ calls[i].do = "tell" => calls[i].track.n \in 1..asked
  <2>1. \A i \in 1..Len(calls) : calls[i].do \in {"hook", "check"}
    BY <1>7, <1>8
  <2> QED
    BY <2>1 DEF Followed
<1>12. \A s \in DOMAIN published' :
         (s \in DOMAIN published /\ published'[s] = published[s]) \/ (s = r.sid /\ published'[s] = r)
  BY <1>10 DEF Put
<1>13. \A e \in DOMAIN pending' \ {d} : e \in DOMAIN pending /\ pending'[e] = pending[e]
  BY <1>10 DEF Served, Without
<1>14. ASSUME d \in DOMAIN pending'
       PROVE  pending'[d] = [infos |-> Tail(infos), queued |-> TRUE] /\ Len(infos) # 1
  BY <1>4, <1>10, <1>14 DEF Served, Without
<1> HIDE DEF infos
<1>15. ASSUME NEW e \in DOMAIN pending' \ {d} PROVE QueueOf(e)'
  <2>1. QueueOf(e) /\ pending'[e] = pending[e] /\ e # d
    BY <1>1, <1>13
  <2>2. \A i \in 1..Len(pending[e].infos) : pending[e].infos[i].cid = e
    BY <2>1 DEF QueueOf
  <2>3. \A i \in 1..Len(pending[e].infos) : pending[e].infos[i] \notin open' \cup missed'
    BY <1>3, <1>6, <1>10, <2>1, <2>2 DEF QueueOf
  <2> QED
    BY <1>3, <2>1, <2>3 DEF QueueOf
<1>16. ASSUME d \in DOMAIN pending' PROVE QueueOf(d)'
  <2> DEFINE a == Tail(infos)
  <2>1. pending'[d] = [infos |-> a, queued |-> TRUE] /\ Len(infos) # 1
    BY <1>14, <1>16
  <2>2. /\ a \in Seq(Track) /\ Len(a) = Len(infos) - 1 /\ Len(a) \in Nat
        /\ \A i \in 1..Len(a) : a[i] = infos[i + 1]
    BY <1>5, HeadTailProperties, LenProperties
  <2>3. a # <<>>
    <3>1. Len(a) # 0
      BY <1>5, <2>1, <2>2
    <3>2. Len(<<>>) = 0
      OBVIOUS
    <3> HIDE DEF a
    <3> QED
      BY ONLY <3>1, <3>2
  <2>4. ASSUME NEW i \in 1..Len(a)
        PROVE  /\ a[i].cid = d /\ a[i].n \in 1..asked /\ a[i].sid \in 1..asked
               /\ a[i] \notin open' \cup missed'
               /\ \A j \in 1..Len(a) : i < j => a[i].n < a[j].n
    <3>1. i + 1 \in 1..Len(infos) /\ i + 1 \in 2..Len(infos) /\ a[i] = infos[i + 1]
      BY <1>5, <2>2
    <3>2. a[i].cid = d /\ a[i].n \in 1..asked /\ a[i].sid \in 1..asked /\ a[i] \notin open \cup missed
      BY <1>4, <3>1 DEF QueueOf, infos
    <3>3. a[i] # r
      <4>1. r.n < a[i].n /\ r.n \in 1..asked
        BY <1>6, <3>1
      <4> QED
        BY <1>1, <4>1
    <3>4. ASSUME NEW j \in 1..Len(a), i < j PROVE a[i].n < a[j].n
      <4>1. j + 1 \in 1..Len(infos) /\ i + 1 < j + 1 /\ a[j] = infos[j + 1]
        BY <1>5, <2>2, <3>4
      <4> QED
        BY <1>4, <3>1, <4>1 DEF QueueOf, infos
    <3> QED
      BY <1>3, <1>10, <3>2, <3>3, <3>4
  <2>5. d \in Cids /\ pending'[d].infos = a /\ pending'[d] \in [infos : Seq(Track), queued : BOOLEAN]
    BY <1>4, <2>1, <2>2 DEF QueueOf
  <2> HIDE DEF a
  <2> QED
    BY <1>3, <2>3, <2>4, <2>5 DEF QueueOf
<1>17. PublishingState' /\ \A u \in Threads : Followed(work[u])'
  <2>1. asked' \in Nat /\ asked <= asked' /\ asked' = asked
    BY <1>1, <1>3
  <2>2. WorkTypes' /\ \A u \in Threads : Followed(work[u])'
    BY <1>7, <1>9, <1>11, <2>1, WorkKept
  <2>3. TrackTypes'
    <3>1. DOMAIN published' \subseteq 1..asked'
      BY <1>1, <1>6, <1>12, <2>1 DEF TrackTypes
    <3>2. \A s \in DOMAIN published' : published'[s] \in Track /\ published'[s].sid = s
      BY <1>1, <1>5, <1>12 DEF TrackTypes
    <3>3. open' \subseteq Track /\ missed' \subseteq Track /\ hooked' \subseteq open'
      BY <1>1, <1>3, <1>5, <1>10 DEF TrackTypes
    <3>4. r.n <= asked
      BY <1>1, <1>6
    <3>5. \A q \in open' \cup missed' : q.n <= asked'
      BY <1>1, <1>3, <1>10, <3>4 DEF TrackTypes
    <3> QED
      BY <3>1, <3>2, <3>3, <3>5 DEF TrackTypes
  <2>4. \A e \in DOMAIN pending' : QueueOf(e)'
    BY <1>15, <1>16
  <2>5. missed' \cap open' = {}
    BY <1>1, <1>3, <1>6, <1>10
  <2> QED
    BY <1>1, <1>3, <2>1, <2>2, <2>3, <2>4, <2>5 DEF PublishingState
<1>18. ASSUME NEW s \in DOMAIN published' PROVE ListedOf(s)'
  <2>1. CASE s \in DOMAIN published /\ published'[s] = published[s]
    <3>1. This(t) # OfTrack("unlist", published[s])
      BY <1>3 DEF OfTrack, Call
    <3>2. missed \subseteq missed' /\ (published[s] \in open => published[s] \in open' \cup missed')
      BY <1>3, <1>10
    <3> QED
      BY <1>7, <1>9, <2>1, <3>1, <3>2, ListedKept
  <2>2. CASE published'[s] = r
    BY <1>10, <2>2 DEF ListedOf
  <2> QED
    BY <1>12, <1>18, <2>1, <2>2
<1>19. ASSUME NEW e \in DOMAIN pending' PROVE ProceedsOf(e)'
  <2>1. CASE e # d
    <3>1. e \in DOMAIN pending /\ pending'[e] = pending[e]
      BY <1>13, <1>19, <2>1
    <3>2. ToSet(waiting)' = ToSet(waiting)
      BY <1>3 DEF ToSet
    <3>3. \A o \in open \cup missed : o \in open' \cup missed'
      BY <1>3, <1>10
    <3>4. This(t).do \notin {"tell", "retry", "unqueue"} /\ told \subseteq told'
      BY <1>3
    <3> QED
      BY <1>7, <1>9, <3>1, <3>2, <3>3, <3>4, ProceedsKept
  <2>2. CASE e = d
    <3>1. pending'[d].queued = TRUE
      BY <1>14, <1>19, <2>2
    <3> QED
      BY <1>6, <1>10, <2>2, <3>1 DEF ProceedsOf
  <2> QED
    BY <2>1, <2>2
<1>20. RevokedIsGone'
  <2> SUFFICES ASSUME ~permitted, NEW s \in DOMAIN published', published'[s] \in open'
               PROVE  {OfTrack("close", published'[s]), OfTrack("check", published'[s])} \cap ToDo' # {}
    BY <1>3 DEF RevokedIsGone, OfTrack
  <2>1. CASE published'[s] = r
    <3>1. 2 \in 1..Len(calls) /\ work \in [Threads -> Seq(Item)]
      BY <1>1, <1>7 DEF WorkTypes
    <3>2. calls[2] \in ToDo'
      BY <1>7, <1>9, <3>1, StillToDo
    <3> QED
      BY <1>7, <2>1, <3>2
  <2>2. CASE published'[s] # r
    <3>1. s \in DOMAIN published /\ published'[s] = published[s] /\ published[s] \in open
      BY <1>10, <1>12, <2>2
    <3>2. This(t).do \notin {"check", "close"}
      BY <1>3
    <3> QED
      BY <1>7, <1>9, <3>1, <3>2, RevokedKept
  <2> QED
    BY <2>1, <2>2
<1> QED
  BY <1>17, <1>18, <1>19, <1>20 DEF PublishingInv

LEMMA PublishingStarts == PublishingInit => PublishingInv
<1> SUFFICES ASSUME PublishingInit PROVE PublishingInv
  OBVIOUS
<1>1. /\ work = [t \in Threads |-> <<>>] /\ pending = <<>> /\ published = <<>> /\ waiting = <<>>
      /\ open = {} /\ missed = {} /\ hooked = {} /\ told = {} /\ asked = 0 /\ permitted = TRUE
      /\ lock = NoThread
  BY DEF PublishingInit
<1>2. DOMAIN pending = {} /\ DOMAIN published = {} /\ waiting \in Seq(Cids)
  BY <1>1
<1>3. work \in [Threads -> Seq(Item)] /\ \A t \in Threads : Len(work[t]) = 0 /\ DOMAIN work[t] = {}
  BY <1>1
<1>4. ToDo = {}
  BY <1>3 DEF ToDo
<1>5. WorkTypes /\ TrackTypes
  BY <1>1, <1>2, <1>3, <1>4 DEF WorkTypes, TrackTypes
<1>6. \A t \in Threads : Followed(work[t])
  BY <1>3 DEF Followed
<1>7. PublishingState
  BY <1>1, <1>2, <1>5 DEF PublishingState
<1> QED
  BY <1>1, <1>2, <1>6, <1>7 DEF PublishingInv, RevokedIsGone

LEMMA PublishingStep == PublishingInv /\ [PublishingNext]_publishingVars => PublishingInv'
<1> SUFFICES ASSUME PublishingInv, [PublishingNext]_publishingVars PROVE PublishingInv'
  OBVIOUS
<1>1. ASSUME UNCHANGED <<work, pending, published, waiting, open, missed, hooked, told, asked,
                         permitted, lock>>
      PROVE  PublishingInv'
  <2>1. PublishingState'
    BY <1>1 DEF PublishingInv, PublishingState, WorkTypes, TrackTypes, QueueOf, Followed, ToDo
  <2>2. \A t \in Threads : Followed(work[t])'
    BY <1>1 DEF PublishingInv, PublishingState, Followed
  <2>3. \A s \in DOMAIN published' : ListedOf(s)'
    BY <1>1 DEF PublishingInv, ListedOf, ToDo
  <2>4. \A d \in DOMAIN pending' : ProceedsOf(d)'
    BY <1>1 DEF PublishingInv, LetsGoOn, ProceedsOf, LooksAgain, ToDo, ToSet
  <2>5. RevokedIsGone'
    BY <1>1 DEF PublishingInv, RevokedIsGone, ToDo
  <2> QED
    BY <2>1, <2>2, <2>3, <2>4, <2>5 DEF PublishingInv
<1>2. CASE FindIdle \/ DeleteIdle \/ UNCHANGED publishingVars
  BY <1>1, <1>2 DEF FindIdle, DeleteIdle, publishingVars, tracks, bounds
<1>3. ASSUME NEW c \in Cids, AddTrack(c) PROVE PublishingInv'
  BY <1>3, AddStep
<1>4. ASSUME NEW c \in Cids, NEW t \in Threads, MediaArrives(t, c) PROVE PublishingInv'
  BY <1>4, QuietSteps
<1>5. CASE HandleOffer
  BY <1>5, PublishingThreads, QuietSteps
<1>6. ASSUME NEW t \in Threads,
             \/ \E r \in open : ReceiverCloses(t, r)
             \/ LookFindsTrack(t) \/ Hook(t) \/ Clear(t)
      PROVE  PublishingInv'
  BY <1>6, QuietSteps
<1>7. ASSUME NEW t \in Threads,
             \/ SetPermission(t) \/ Tell(t) \/ TakeWaiting(t) \/ LookWaits(t) \/ LookPublishes(t)
             \/ Check(t) \/ Close(t) \/ Unlist(t) \/ Unqueue(t)
      PROVE  PublishingInv'
  BY <1>7, PermissionStep, TellStep, TakeStep, WaitStep, PublishStep, CheckStep, CloseStep,
     UnlistStep, UnqueueStep
<1> QED
  BY <1>2, <1>3, <1>4, <1>5, <1>6, <1>7 DEF PublishingNext

THEOREM PublishingInvariant == PublishingSpec => []PublishingInv
  BY PublishingStarts, PublishingStep, PTL DEF PublishingSpec

\* Publishing (SetPermission, mediaTrackReceived, onMediaTrack), for any tracks and
\* goroutines: once the permission is gone, whatever is in the list and open is about
\* to be closed, also what was published while the list was walked.
THEOREM RevokedTracksGo == PublishingSpec => []RevokedIsGone
<1>1. PublishingInv => RevokedIsGone
  BY DEF PublishingInv
<1> QED
  BY <1>1, PublishingInvariant, PTL

\* Publishing (AddTrack, mediaTrackReceived, the callbacks of MediaTrackReceiver.Close):
\* a request is queued only as long as a track of its cid is open, or was closed before
\* the participant hooked on to it, or is about to let it go on; one that may go on has
\* been told or is about to be, and media that waits for it is looked at again.
THEOREM NoRequestStuck == PublishingSpec => []RequestsProceed
<1>1. PublishingInv => RequestsProceed
  <2> SUFFICES ASSUME PublishingInv PROVE RequestsProceed
    OBVIOUS
  <2>1. PublishingTypes
    BY DEF PublishingInv, PublishingState, TrackTypes, QueueOf, PublishingTypes
  <2>2. \A c \in DOMAIN pending : ProceedsOf(c)
    BY DEF PublishingInv
  <2> QED
    BY <2>1, <2>2 DEF RequestsProceed, ProceedsOf
<1> QED
  BY <1>1, PublishingInvariant, PTL

----------------------------------------------------------------------------
(***************************************************************************)
(* The supervisor's monitors. What one expects is an end, before it a      *)
(* start, and so on, so its length says it all: with a track published it  *)
(* is odd, without one even, and there are half as many starts.            *)
(***************************************************************************)
Awaits(n) == [i \in 1..n |-> IF (n - i) % 2 = 0 THEN "end" ELSE "start"]
Starts(d) == {i \in DOMAIN d : d[i] = "start"}

\* A monitor that awaits k starts.
AwaitsStarts(m, k) ==
  /\ k \in Nat
  /\ m \in [desired : Seq({"start", "end"}), track : Track]
  /\ m.desired = Awaits(IF m.track = NoTrack THEN 2 * k ELSE 2 * k + 1)

LEMMA AwaitsType ==
  ASSUME NEW n \in Nat
  PROVE  /\ Awaits(n) \in Seq({"start", "end"}) /\ Len(Awaits(n)) = n
         /\ \A i \in 1..n : Awaits(n)[i] = IF (n - i) % 2 = 0 THEN "end" ELSE "start"
  BY DEF Awaits

LEMMA StartsCounted ==
  ASSUME NEW k \in Nat, NEW n \in {2 * k, 2 * k + 1}
  PROVE  Cardinality(Starts(Awaits(n))) = k
<1> DEFINE S == Starts(Awaits(n))
           f == [j \in 1..k |-> n + 1 - 2 * j]
<1>1. n \in Nat /\ S = {i \in 1..n : (n - i) % 2 # 0}
  <2>1. n \in Nat
    OBVIOUS
  <2>2. DOMAIN Awaits(n) = 1..n
    BY <2>1, AwaitsType
  <2> QED
    BY <2>1, <2>2, AwaitsType DEF Starts
<1>2. IsFiniteSet(1..k) /\ Cardinality(1..k) = k
  BY FS_Interval
<1>3. ASSUME NEW j \in 1..k PROVE f[j] \in S
  <2>1. n + 1 - 2 * j \in 1..n /\ (n - (n + 1 - 2 * j)) % 2 # 0
    OBVIOUS
  <2> QED
    BY <1>1, <2>1
<1>4. ASSUME NEW i \in 1..k, NEW j \in 1..k, f[i] = f[j] PROVE i = j
  BY <1>1, <1>4
<1>5. ASSUME NEW s \in S PROVE \E j \in 1..k : f[j] = s
  <2>1. s \in 1..n /\ (n - s) % 2 # 0
    BY <1>1
  <2>2. (n + 1 - s) \div 2 \in 1..k /\ n + 1 - 2 * ((n + 1 - s) \div 2) = s
    BY <1>1, <2>1
  <2> QED
    BY <2>2
<1>6. f \in Bijection(1..k, S)
  BY <1>3, <1>4, <1>5, Fun_IsBij
<1> QED
  BY SMTT(30), ZenonT(30), <1>2, <1>6, FS_Bijection, Fun_ExistsBij DEF ExistsBijection

LEMMA AwaitsMore ==
  ASSUME NEW n \in Nat
  PROVE  Awaits(n) \o <<"start", "end">> = Awaits(n + 2)
<1> DEFINE a == Awaits(n)
           b == Awaits(n + 2)
           t == <<"start", "end">>
<1>1. /\ a \in Seq({"start", "end"}) /\ Len(a) = n
      /\ \A i \in 1..n : a[i] = IF (n - i) % 2 = 0 THEN "end" ELSE "start"
  BY AwaitsType
<1>2. /\ b \in Seq({"start", "end"}) /\ Len(b) = n + 2
      /\ \A i \in 1..n + 2 : b[i] = IF (n + 2 - i) % 2 = 0 THEN "end" ELSE "start"
  BY AwaitsType, n + 2 \in Nat
<1> HIDE DEF a, b
<1>3. t \in Seq({"start", "end"}) /\ Len(t) = 2 /\ t[1] = "start" /\ t[2] = "end"
  OBVIOUS
<1> HIDE DEF t
<1>4. /\ a \o t \in Seq({"start", "end"}) /\ Len(a \o t) = n + 2
      /\ \A i \in 1..n + 2 : (a \o t)[i] = IF i <= n THEN a[i] ELSE t[i - n]
  <2>1. /\ a \o t \in Seq({"start", "end"}) /\ Len(a \o t) = Len(a) + Len(t)
        /\ \A i \in 1..Len(a) + Len(t) : (a \o t)[i] = IF i <= Len(a) THEN a[i] ELSE t[i - Len(a)]
    BY <1>1, <1>3, ConcatProperties
  <2> QED
    BY ONLY <1>1, <1>3, <2>1
<1>5. ASSUME NEW i \in 1..n + 2 PROVE (a \o t)[i] = b[i]
  <2>1. CASE i <= n
    <3>1. (n + 2 - i) % 2 = (n - i) % 2
      BY <2>1
    <3> QED
      BY <1>1, <1>2, <1>4, <2>1, <3>1
  <2>2. CASE i = n + 1
    <3>1. (n + 2 - i) % 2 = 1 /\ i - n = 1
      BY <2>2
    <3> QED
      BY <1>2, <1>3, <1>4, <2>2, <3>1
  <2>3. CASE i = n + 2
    <3>1. (n + 2 - i) % 2 = 0 /\ i - n = 2
      BY <2>3
    <3> QED
      BY <1>2, <1>3, <1>4, <2>3, <3>1
  <2>4. i <= n \/ i = n + 1 \/ i = n + 2
    OBVIOUS
  <2> QED
    BY ONLY <2>1, <2>2, <2>3, <2>4
<1>6. a \o t = b
  BY <1>2, <1>4, <1>5, SeqEqual
<1> QED
  BY <1>6 DEF a, b, t

LEMMA AwaitsLess ==
  ASSUME NEW n \in Nat \ {0}
  PROVE  /\ Awaits(n) # <<>> /\ Tail(Awaits(n)) = Awaits(n - 1)
         /\ Head(Awaits(n)) = "start" <=> n % 2 = 0
<1> DEFINE a == Awaits(n)
           b == Awaits(n - 1)
<1>1. /\ a \in Seq({"start", "end"}) /\ Len(a) = n
      /\ \A i \in 1..n : a[i] = IF (n - i) % 2 = 0 THEN "end" ELSE "start"
  BY AwaitsType
<1>2. /\ b \in Seq({"start", "end"}) /\ Len(b) = n - 1
      /\ \A i \in 1..n - 1 : b[i] = IF (n - 1 - i) % 2 = 0 THEN "end" ELSE "start"
  BY AwaitsType, n - 1 \in Nat
<1> HIDE DEF a, b
<1>3. a # <<>>
  BY <1>1, EmptySeq
<1>4. /\ Tail(a) \in Seq({"start", "end"}) /\ Len(Tail(a)) = n - 1 /\ Head(a) = a[1]
      /\ \A i \in 1..n - 1 : Tail(a)[i] = a[i + 1]
  BY <1>1, <1>3, HeadTailProperties
<1>5. ASSUME NEW i \in 1..n - 1 PROVE Tail(a)[i] = b[i]
  <2>1. n - (i + 1) = n - 1 - i /\ i + 1 \in 1..n
    OBVIOUS
  <2> QED
    BY <1>1, <1>2, <1>4, <2>1
<1>6. Tail(a) = b
  BY <1>2, <1>4, <1>5, SeqEqual
<1>7. a[1] = "start" <=> n % 2 = 0
  <2>1. (n - 1) % 2 = 0 <=> n % 2 # 0
    OBVIOUS
  <2> QED
    BY <1>1, <2>1
<1> QED
  BY <1>3, <1>4, <1>6, <1>7 DEF a, b

LEMMA AwaitsHead ==
  ASSUME NEW m, NEW k, AwaitsStarts(m, k)
  PROVE  /\ m.track = NoTrack /\ k = 0 => m.desired = <<>>
         /\ m.track = NoTrack /\ k # 0 =>
              m.desired # <<>> /\ Head(m.desired) = "start" /\ Tail(m.desired) = Awaits(2 * k - 1)
         /\ m.track # NoTrack =>
              m.desired # <<>> /\ Head(m.desired) # "start" /\ Tail(m.desired) = Awaits(2 * k)
<1>0. k \in Nat /\ m.desired = Awaits(IF m.track = NoTrack THEN 2 * k ELSE 2 * k + 1)
  BY DEF AwaitsStarts
<1>1. CASE m.track = NoTrack /\ k = 0
  <2>1. m.desired = Awaits(0) /\ Awaits(0) \in Seq({"start", "end"}) /\ Len(Awaits(0)) = 0
    BY <1>0, <1>1, AwaitsType
  <2> QED
    BY <1>1, <2>1, EmptySeq
<1>2. CASE m.track = NoTrack /\ k # 0
  <2>1. m.desired = Awaits(2 * k) /\ 2 * k \in Nat \ {0} /\ (2 * k) % 2 = 0
    BY <1>0, <1>2
  <2> QED
    BY <1>2, <2>1, AwaitsLess
<1>3. CASE m.track # NoTrack
  <2>1. m.desired = Awaits(2 * k + 1) /\ 2 * k + 1 \in Nat \ {0} /\ (2 * k + 1) % 2 # 0
        /\ (2 * k + 1) - 1 = 2 * k
    BY <1>0, <1>3
  <2>2. Tail(Awaits(2 * k + 1)) = Awaits((2 * k + 1) - 1)
    BY <2>1, AwaitsLess
  <2> QED
    BY <1>3, <2>1, <2>2, AwaitsLess
<1> QED
  BY <1>1, <1>2, <1>3

LEMMA MonitorExpects ==
  ASSUME NEW m, NEW k, AwaitsStarts(m, k)
  PROVE  Cardinality(Starts(m.desired)) = k /\ (IdleMonitor(m) => k = 0)
<1>1. k \in Nat /\ m.desired = Awaits(IF m.track = NoTrack THEN 2 * k ELSE 2 * k + 1)
  BY DEF AwaitsStarts
<1>2. Cardinality(Starts(m.desired)) = k
  BY <1>1, StartsCounted
<1> QED
  BY <1>2, AwaitsHead DEF IdleMonitor

\* There is nothing to settle.
LEMMA MonitorSettled ==
  ASSUME NEW m, NEW k, AwaitsStarts(m, k)
  PROVE  Settled(m) = m
  BY AwaitsHead DEF Settled

LEMMA MonitorStarts == AwaitsStarts([desired |-> <<>>, track |-> NoTrack], 0)
<1>1. Awaits(0) \in Seq({"start", "end"}) /\ Len(Awaits(0)) = 0
  BY AwaitsType
<1>2. Awaits(0) = <<>> /\ <<>> \in Seq({"start", "end"})
  BY <1>1, EmptySeq
<1>3. NoTrack \in Track
  BY DEF NoTrack, Request, Track
<1> QED
  BY <1>2, <1>3 DEF AwaitsStarts

LEMMA MonitorAdds ==
  ASSUME NEW m, NEW k, AwaitsStarts(m, k)
  PROVE  LET q == Settled([m EXCEPT !.desired = @ \o <<"start", "end">>])
         IN  AwaitsStarts(q, k + 1) /\ q.track = m.track
<1> DEFINE q == [m EXCEPT !.desired = @ \o <<"start", "end">>]
           n == IF m.track = NoTrack THEN 2 * k ELSE 2 * k + 1
<1>1. /\ k \in Nat /\ m \in [desired : Seq({"start", "end"}), track : Track]
      /\ m.desired = Awaits(n) /\ n \in Nat
  BY DEF AwaitsStarts
<1>2. m.desired \o <<"start", "end">> = Awaits(n + 2) /\ Awaits(n + 2) \in Seq({"start", "end"})
  BY <1>1, AwaitsMore, AwaitsType, n + 2 \in Nat
<1>3. /\ q \in [desired : Seq({"start", "end"}), track : Track]
      /\ q.desired = Awaits(n + 2) /\ q.track = m.track
  BY <1>1, <1>2
<1>4. n + 2 = IF q.track = NoTrack THEN 2 * (k + 1) ELSE 2 * (k + 1) + 1
  BY <1>1, <1>3
<1>5. q.desired = Awaits(IF q.track = NoTrack THEN 2 * (k + 1) ELSE 2 * (k + 1) + 1)
  BY <1>3, <1>4
<1>6. k + 1 \in Nat
  BY <1>1
<1>7. AwaitsStarts(q, k + 1)
  BY ONLY <1>3, <1>5, <1>6 DEF AwaitsStarts
<1> QED
  BY <1>3, <1>7, MonitorSettled

\* A track that is published begins what was expected, unless another is still there.
LEMMA MonitorSets ==
  ASSUME NEW m, NEW k, AwaitsStarts(m, k), NEW r \in Track, r # NoTrack,
         k # 0 \/ m.track # NoTrack
  PROVE  LET q == Settled([m EXCEPT !.track = r])
         IN  AwaitsStarts(q, IF m.track = NoTrack THEN k - 1 ELSE k) /\ q.track = r
<1> DEFINE q == [m EXCEPT !.track = r]
<1>1. /\ k \in Nat /\ m \in [desired : Seq({"start", "end"}), track : Track]
  BY DEF AwaitsStarts
<1>2. /\ q \in [desired : Seq({"start", "end"}), track : Track]
      /\ q.desired = m.desired /\ q.track = r
  BY <1>1
<1>3. CASE m.track = NoTrack
  <2>1. m.desired # <<>> /\ Head(m.desired) = "start" /\ Tail(m.desired) = Awaits(2 * k - 1)
    BY <1>3, AwaitsHead
  <2>2. Settled(q) = [q EXCEPT !.desired = Tail(@)]
    BY <1>2, <2>1 DEF Settled
  <2>3. /\ Settled(q).desired = Awaits(2 * k - 1) /\ Settled(q).track = r
        /\ Settled(q) \in [desired : Seq({"start", "end"}), track : Track]
    <3>1. Awaits(2 * k - 1) \in Seq({"start", "end"})
      BY <1>1, <1>3, AwaitsType, 2 * k - 1 \in Nat
    <3> QED
      BY <1>2, <2>1, <2>2, <3>1
  <2>4. k - 1 \in Nat /\ 2 * (k - 1) + 1 = 2 * k - 1
    BY <1>1, <1>3
  <2>5. Awaits(2 * (k - 1) + 1) = Awaits(2 * k - 1)
    BY <2>4
  <2> QED
    BY <1>3, <2>3, <2>4, <2>5 DEF AwaitsStarts
<1>4. CASE m.track # NoTrack
  <2>1. AwaitsStarts(q, k)
    BY <1>1, <1>2, <1>4 DEF AwaitsStarts
  <2> QED
    BY <1>2, <1>4, <2>1, MonitorSettled
<1> QED
  BY <1>3, <1>4

\* A track that is not published any more ends it.
LEMMA MonitorClears ==
  ASSUME NEW m, NEW k, AwaitsStarts(m, k), m.track # NoTrack
  PROVE  LET q == Settled([m EXCEPT !.track = NoTrack])
         IN  AwaitsStarts(q, k) /\ q.track = NoTrack
<1> DEFINE q == [m EXCEPT !.track = NoTrack]
<1>1. /\ k \in Nat /\ m \in [desired : Seq({"start", "end"}), track : Track]
      /\ NoTrack \in Track
  BY DEF AwaitsStarts, NoTrack, Request, Track
<1>2. /\ q \in [desired : Seq({"start", "end"}), track : Track]
      /\ q.desired = m.desired /\ q.track = NoTrack
  BY <1>1
<1>3. m.desired # <<>> /\ Head(m.desired) # "start" /\ Tail(m.desired) = Awaits(2 * k)
  BY AwaitsHead
<1>4. Settled(q) = [q EXCEPT !.desired = Tail(@)]
  BY <1>2, <1>3 DEF Settled
<1>5. Awaits(2 * k) \in Seq({"start", "end"})
  BY <1>1, AwaitsType, 2 * k \in Nat
<1>6. /\ Settled(q).desired = Awaits(2 * k) /\ Settled(q).track = NoTrack
      /\ Settled(q) \in [desired : Seq({"start", "end"}), track : Track]
  BY <1>2, <1>3, <1>4, <1>5
<1> QED
  BY <1>1, <1>6 DEF AwaitsStarts

----------------------------------------------------------------------------
\* The tracks whose end the supervisor has yet to hear of, the requests of an id, and the
\* ids of which a request may go on.
Clearing == {x.track : x \in {y \in ToDo : y.do = "clear"}}
Unheard == open \cup missed \cup Clearing
Asks(s) == {r \in Requests : r.sid = s}
Going == {Head(pending[c].infos).sid : c \in {d \in DOMAIN pending : ~pending[d].queued}}

\* A monitor awaits a start for each request of its id and knows of no track that is
\* over; with requests that went on early it may await more, and know of any.
MonitorOf(s) ==
  LET m == monitors[s]
      n == Cardinality(Asks(s)) IN
  /\ m.track # NoTrack => m.track.sid = s
  /\ \E k \in Nat :
       /\ AwaitsStarts(m, k) /\ n <= k
       /\ s \notin early => k = n /\ (m.track # NoTrack => m.track \in Unheard)

\* A request goes on once all tracks of its id are over, so that the track it becomes is
\* the one that its monitor knows; what is idle has no request and gets none any more.
MonitorInv ==
  /\ \A x \in ToDo : x.do = "clear" => x = OfTrack("clear", x.track)
  /\ \A r \in Unheard : r.sid \in 1..asked
  /\ \A r, q \in Requests : r.sid = q.sid <=> r.cid = q.cid
  /\ DOMAIN monitors \subseteq 1..asked
  /\ \A s \in DOMAIN monitors : MonitorOf(s)
  /\ \A s \in Going : s \in early \/ \A r \in Unheard : r.sid # s
  /\ \A r \in Clearing : r.sid \in early \/ r \notin open
  /\ \A r \in open : r.sid \in early \/ (r.sid \in DOMAIN monitors /\ monitors[r.sid].track = r)
  /\ \A s \in removable :
       /\ s \in 1..asked /\ Asks(s) = {}
       /\ \A r \in open : r.sid = s => s \in early
  /\ \A r \in Requests : r.sid \in DOMAIN monitors

LEMMA OverUnheard == \A s : Over(s) <=> \A r \in Unheard : r.sid # s
  BY DEF Over, Unheard, Clearing

\* Steps after which the same tracks are unheard of and the same requests wait.
LEMMA MonitorsKept ==
  ASSUME MonitorInv,
         \A x \in ToDo' : x.do = "clear" => x = OfTrack("clear", x.track),
         UNCHANGED <<monitors, asked, removable>>,
         Unheard' = Unheard, Requests' = Requests, early \subseteq early', open' \subseteq open,
         \A s \in Going' : s \in Going \/ s \in early' \/ Over(s),
         \A r \in Clearing' : r \in Clearing \/ r \notin open'
  PROVE  MonitorInv'
<1>1. \A s : Asks(s)' = Asks(s)
  BY DEF Asks
<1>2. ASSUME NEW s \in DOMAIN monitors' PROVE MonitorOf(s)'
  <2>1. MonitorOf(s) /\ monitors'[s] = monitors[s] /\ Asks(s)' = Asks(s)
    BY <1>1, <1>2 DEF MonitorInv
  <2> QED
    BY <2>1 DEF MonitorOf
<1>3. \A s \in Going' : s \in early' \/ \A r \in Unheard' : r.sid # s
  BY OverUnheard DEF MonitorInv
<1>4. \A r \in Clearing' : r.sid \in early' \/ r \notin open'
  BY DEF MonitorInv
<1>5. \A r \in open' : r.sid \in early' \/ (r.sid \in DOMAIN monitors' /\ monitors'[r.sid] .track = r)
  BY DEF MonitorInv
<1>6. ASSUME NEW s \in removable'
      PROVE  /\ s \in 1..asked' /\ Asks(s)' = {}
             /\ \A r \in open' : r.sid = s => s \in early'
  BY <1>1, <1>6 DEF MonitorInv
<1>7. (\A r \in Unheard' : r.sid \in 1..asked') /\ (\A r, q \in Requests' : r.sid = q.sid <=> r.cid = q.cid)
  BY DEF MonitorInv
<1>8. DOMAIN monitors' \subseteq 1..asked' /\ \A r \in Requests' : r.sid \in DOMAIN monitors'
  BY DEF MonitorInv
<1> QED
  BY <1>2, <1>3, <1>4, <1>5, <1>6, <1>7, <1>8 DEF MonitorInv

LEMMA ClearsKept ==
  ASSUME MonitorInv, work \in [Threads -> Seq(Item)], NEW t \in Threads, NEW calls \in Seq(Item),
         work' = [work EXCEPT ![t] = calls \o Rest(t)],
         \A i \in 1..Len(calls) : calls[i].do # "clear",
         work[t] = <<>> \/ This(t).do # "clear"
  PROVE  /\ Clearing' = Clearing
         /\ \A x \in ToDo' : x.do = "clear" => x = OfTrack("clear", x.track)
<1>1. \A x \in ToDo : x \in ToDo' \/ x.do # "clear"
  BY StillToDo DEF This
<1>2. ASSUME NEW x \in ToDo' PROVE x \in ToDo \/ x.do # "clear"
  <2>1. x \in ToDo \/ \E i \in 1..Len(calls) : x = calls[i]
    BY StillToDo
  <2> QED
    BY <2>1
<1>3. {y \in ToDo' : y.do = "clear"} = {y \in ToDo : y.do = "clear"}
  BY <1>1, <1>2
<1> QED
  BY <1>2, <1>3 DEF Clearing, MonitorInv

\* Steps that tell the supervisor nothing.
LEMMA MonitorsQuiet ==
  ASSUME MonitorInv, work \in [Threads -> Seq(Item)], NEW t \in Threads, NEW calls \in Seq(Item),
         work' = [work EXCEPT ![t] = calls \o Rest(t)],
         \A i \in 1..Len(calls) : calls[i].do # "clear",
         work[t] = <<>> \/ This(t).do # "clear",
         UNCHANGED <<pending, open, missed, early, monitors, asked, removable>>
  PROVE  MonitorInv'
<1>1. Clearing' = Clearing /\ \A x \in ToDo' : x.do = "clear" => x = OfTrack("clear", x.track)
  BY ClearsKept
<1>2. Unheard' = Unheard /\ Requests' = Requests /\ Going' = Going
  BY <1>1 DEF Unheard, Requests, Going
<1> QED
  BY <1>1, <1>2, MonitorsKept

LEMMA MonitorsStay ==
  ASSUME MonitorInv, UNCHANGED <<work, pending, open, missed, early, monitors, asked, removable>>
  PROVE  MonitorInv'
<1>1. ToDo' = ToDo
  BY DEF ToDo
<1>2. Clearing' = Clearing /\ Requests' = Requests /\ Going' = Going
  BY <1>1 DEF Clearing, Requests, Going
<1>3. Unheard' = Unheard
  BY <1>2 DEF Unheard
<1>4. \A x \in ToDo' : x.do = "clear" => x = OfTrack("clear", x.track)
  BY <1>1 DEF MonitorInv
<1> QED
  BY <1>2, <1>3, <1>4, MonitorsKept

LEMMA SilentSteps ==
  ASSUME PublishingInv, MonitorInv, NEW t \in Threads,
         \/ \E c \in Cids : MediaArrives(t, c)
         \/ t = Signal /\ HandleOffer
         \/ \E r \in open : ReceiverCloses(t, r)
         \/ SetPermission(t) \/ Tell(t) \/ TakeWaiting(t) \/ LookFindsTrack(t) \/ LookWaits(t)
         \/ Hook(t) \/ Check(t) \/ Unlist(t)
  PROVE  MonitorInv'
<1>0. work \in [Threads -> Seq(Item)] /\ WorkTypes /\ TrackTypes /\ asked \in Nat
      /\ waiting \in Seq(Cids)
  BY DEF PublishingInv, PublishingState, WorkTypes
<1>1. UNCHANGED <<pending, open, missed, early, monitors, asked, removable>>
  BY DEF MediaArrives, HandleOffer, ReceiverCloses, SetPermission, Tell, TakeWaiting,
         LookFindsTrack, LookWaits, Hook, Check, Unlist, tracks, bounds
<1>2. ASSUME NEW calls \in Seq(Item), work' = [work EXCEPT ![t] = calls \o Rest(t)],
             \A i \in 1..Len(calls) : calls[i].do # "clear",
             work[t] = <<>> \/ This(t).do # "clear"
      PROVE  MonitorInv'
  BY <1>0, <1>1, <1>2, MonitorsQuiet
<1>3. ASSUME NEW x \in Item, x.do # "clear",
             \/ work[t] = <<>> /\ work' = [work EXCEPT ![t] = <<x>>]
             \/ work[t] # <<>> /\ This(t).do # "clear" /\ Then(t, <<x>>)
      PROVE  MonitorInv'
  <2>1. <<x>> \in Seq(Item) /\ \A i \in 1..Len(<<x>>) : <<x>>[i].do # "clear"
    BY <1>3, One
  <2>2. work' = [work EXCEPT ![t] = <<x>> \o Rest(t)]
    BY <1>3, <2>1, IdleStarts, ThenServes
  <2>3. work[t] = <<>> \/ This(t).do # "clear"
    BY <1>3
  <2> QED
    BY ONLY <1>2, <2>1, <2>2, <2>3
<1>4. ASSUME work[t] # <<>>, This(t).do # "clear", Then(t, <<>>) PROVE MonitorInv'
  <2>1. work' = [work EXCEPT ![t] = <<>> \o Rest(t)]
    BY <1>4, ThenServes
  <2>2. <<>> \in Seq(Item) /\ \A i \in 1..Len(<<>>) : <<>>[i].do # "clear"
    OBVIOUS
  <2> QED
    BY ONLY <1>2, <1>4, <2>1, <2>2
<1>5. ASSUME NEW c \in Cids, MediaArrives(t, c) PROVE MonitorInv'
  BY <1>3, <1>5, Items DEF MediaArrives
<1>6. CASE t = Signal /\ HandleOffer
  BY <1>3, <1>6, Items DEF HandleOffer
<1>7. ASSUME NEW r \in open, ReceiverCloses(t, r) PROVE MonitorInv'
  <2>1. OfTrack("close", r) \in Item /\ OfTrack("close", r).do = "close"
    BY <1>0, Items DEF TrackTypes, Doings
  <2> QED
    BY <1>3, <1>7, <2>1 DEF ReceiverCloses
<1>8. CASE SetPermission(t)
  <2>1. CASE permitted'
    BY <1>1, <1>8, <2>1, MonitorsStay DEF SetPermission
  <2>2. CASE ~permitted'
    <3>1. PICK order \in SetToSeqs(Range(published)) :
            work' = [work EXCEPT ![t] = [i \in 1..2 * Len(order) |->
                       RemovePublished(order[(i + 1) \div 2])[2 - (i % 2)]]]
      BY <1>8, <2>2 DEF SetPermission
    <3> DEFINE calls == [i \in 1..2 * Len(order) |->
                          RemovePublished(order[(i + 1) \div 2])[2 - (i % 2)]]
    <3>2. order \in Seq(Track) /\ Len(order) \in Nat
      BY <1>0, WholeList, LenProperties
    <3>3. ASSUME NEW i \in 1..2 * Len(order) PROVE calls[i] \in Item /\ calls[i].do # "clear"
      <4>1. (i + 1) \div 2 \in 1..Len(order) /\ (2 - (i % 2) = 1 \/ 2 - (i % 2) = 2)
        BY <3>2
      <4>2. order[(i + 1) \div 2] \in Track
        BY <3>2, <4>1
      <4>3. calls[i] \in {OfTrack("close", order[(i + 1) \div 2]), OfTrack("unlist", order[(i + 1) \div 2])}
        BY <4>1, <4>2, Removal
      <4> QED
        BY <4>2, <4>3, Items DEF Doings
    <3>4. calls \in Seq(Item) /\ Len(calls) = 2 * Len(order)
      BY <3>2, <3>3
    <3> HIDE DEF calls
    <3>5. work[t] = <<>>
      BY <1>8 DEF SetPermission
    <3>6. work' = [work EXCEPT ![t] = calls \o Rest(t)]
      BY <3>1, <3>4, <3>5, IdleStarts DEF calls
    <3> QED
      BY <1>2, <3>3, <3>4, <3>5, <3>6
  <2> QED
    BY <2>1, <2>2
<1>9. CASE TakeWaiting(t)
  <2> DEFINE calls == [i \in DOMAIN waiting |-> LookAt(waiting[i])]
  <2>1. calls \in Seq(Item) /\ Len(calls) = Len(waiting)
        /\ \A i \in 1..Len(calls) : calls[i].do # "clear"
    <3>1. DOMAIN waiting = 1..Len(waiting) /\ Len(waiting) \in Nat
          /\ \A i \in 1..Len(waiting) : waiting[i] \in Cids
      BY <1>0
    <3>2. \A i \in 1..Len(waiting) : LookAt(waiting[i]) \in Item /\ LookAt(waiting[i]).do = "look"
      BY <3>1, Items
    <3> QED
      BY <3>1, <3>2
  <2>2. work[t] # <<>> /\ This(t).do = "retry" /\ Then(t, calls)
    BY <1>9 DEF TakeWaiting, Does, This
  <2> HIDE DEF calls
  <2>3. work' = [work EXCEPT ![t] = calls \o Rest(t)]
    BY <2>2, ThenServes
  <2> QED
    BY <1>2, <2>1, <2>2, <2>3
<1>10. CASE LookFindsTrack(t)
  <2>1. PICK r \in Listed(This(t).cid) : Then(t, <<OfTrack("check", r)>>)
    BY <1>10 DEF LookFindsTrack
  <2>2. r \in Track
    BY <1>0, <2>1 DEF Listed, TrackTypes
  <2>3. OfTrack("check", r) \in Item /\ OfTrack("check", r).do = "check"
    BY <2>2, Items DEF Doings
  <2>4. work[t] # <<>> /\ This(t).do = "look"
    BY <1>10 DEF LookFindsTrack, Does, This
  <2> QED
    BY <1>3, <2>1, <2>3, <2>4
<1>11. CASE Tell(t) \/ LookWaits(t) \/ Hook(t) \/ Unlist(t)
  BY <1>4, <1>11 DEF Tell, LookWaits, Hook, Unlist, Does, This
<1>12. CASE Check(t)
  <2> DEFINE r == This(t).track
  <2>1. work[t] # <<>> /\ This(t).do = "check"
        /\ Then(t, IF permitted THEN <<>> ELSE RemovePublished(r))
    BY <1>12 DEF Check, Does, This
  <2>2. r \in Track
    BY <1>0, <2>1, ServesOne DEF Item
  <2>3. CASE permitted
    BY <1>4, <2>1, <2>3
  <2>4. CASE ~permitted
    <3>1. /\ RemovePublished(r) \in Seq(Item) /\ Len(RemovePublished(r)) = 2
          /\ RemovePublished(r)[1].do = "close" /\ RemovePublished(r)[2].do = "unlist"
      <4>1. OfTrack("close", r).do = "close" /\ OfTrack("unlist", r).do = "unlist"
        BY DEF OfTrack, Call
      <4> QED
        BY <2>2, <4>1, Removal
    <3>2. \A i \in 1..Len(RemovePublished(r)) : RemovePublished(r)[i].do # "clear"
      BY <3>1
    <3>3. work' = [work EXCEPT ![t] = RemovePublished(r) \o Rest(t)]
      BY <2>1, <2>4, ThenServes
    <3> QED
      BY <1>2, <2>1, <3>1, <3>2, <3>3
  <2> QED
    BY <2>3, <2>4
<1> QED
  BY <1>5, <1>6, <1>7, <1>8, <1>9, <1>10, <1>11, <1>12

\* A closed track is unheard of until its monitor is cleared.
LEMMA CloseKeepsMonitors ==
  ASSUME PublishingInv, MonitorInv, NEW t \in Threads, Close(t) PROVE MonitorInv'
<1> DEFINE r == This(t).track
           calls == IF r \in open THEN OnClose(r) ELSE <<>>
<1>0. work \in [Threads -> Seq(Item)] /\ WorkTypes /\ TrackTypes
  BY DEF PublishingInv, PublishingState, WorkTypes
<1>1. /\ work[t] # <<>> /\ This(t).do = "close" /\ Then(t, calls)
      /\ open' = open \ {r} /\ missed' = IF r \in open \ hooked THEN missed \cup {r} ELSE missed
      /\ UNCHANGED <<pending, early, monitors, asked, removable>>
  BY DEF Close, Does, This, bounds
<1>2. r \in Track
  BY <1>0, <1>1, ServesOne DEF Item
<1>3. work' = [work EXCEPT ![t] = calls \o Rest(t)]
  BY <1>1, ThenServes
<1>4. Requests' = Requests /\ Going' = Going /\ hooked \subseteq open
  BY <1>0, <1>1 DEF Requests, Going, TrackTypes
<1>5. CASE r \notin hooked
  <2>1. OnClose(r) = <<OfTrack("unlist", r)>> /\ OfTrack("unlist", r) \in Item
        /\ OfTrack("unlist", r).do = "unlist"
    BY <1>2, <1>5, Items DEF OnClose, Doings
  <2>2. calls \in Seq(Item) /\ \A i \in 1..Len(calls) : calls[i].do # "clear"
    <3>1. CASE r \in open
      BY <2>1, <3>1, One
    <3>2. CASE r \notin open
      BY <3>2
    <3> QED
      BY <3>1, <3>2
  <2> HIDE DEF calls
  <2>3. Clearing' = Clearing /\ \A x \in ToDo' : x.do = "clear" => x = OfTrack("clear", x.track)
    BY <1>0, <1>1, <1>3, <2>2, ClearsKept
  <2>4. open' \cup missed' = open \cup missed
    BY <1>1, <1>5
  <2>5. Unheard' = Unheard
    BY <2>3, <2>4 DEF Unheard
  <2> QED
    BY <1>1, <1>4, <2>3, <2>5, MonitorsKept
<1>6. CASE r \in hooked
  <2>1. calls = <<OfTrack("unlist", r), OfTrack("clear", r), OfTrack("unqueue", r), Retry>>
    BY <1>4, <1>6 DEF OnClose
  <2>2. /\ OfTrack("unlist", r) \in Item /\ OfTrack("clear", r) \in Item
        /\ OfTrack("unqueue", r) \in Item /\ Retry \in Item
        /\ OfTrack("unlist", r).do = "unlist" /\ OfTrack("clear", r).do = "clear"
        /\ OfTrack("clear", r).track = r
        /\ OfTrack("unqueue", r).do = "unqueue" /\ Retry.do = "retry"
    BY <1>2, Items DEF Doings
  <2> HIDE DEF calls
  <2>3. /\ calls \in Seq(Item) /\ Len(calls) = 4
        /\ calls[1] = OfTrack("unlist", r) /\ calls[2] = OfTrack("clear", r)
        /\ calls[3] = OfTrack("unqueue", r) /\ calls[4] = Retry
    BY <2>1, <2>2
  <2>4. ASSUME NEW i \in 1..Len(calls), calls[i].do = "clear" PROVE calls[i] = OfTrack("clear", r)
    <3>1. i = 1 \/ i = 2 \/ i = 3 \/ i = 4
      BY <2>3
    <3> QED
      BY <2>2, <2>3, <2>4, <3>1
  <2>5. \A x \in ToDo' : x.do = "clear" => x \in ToDo \/ x = OfTrack("clear", r)
    <3>1. \A x \in ToDo' : x \in ToDo \/ \E i \in 1..Len(calls) : x = calls[i]
      BY <1>0, <1>3, <2>3, StillToDo
    <3> QED
      BY <2>4, <3>1
  <2>6. \A x \in ToDo : x.do = "clear" => x \in ToDo'
    BY <1>0, <1>1, <1>3, <2>3, StillToDo DEF This
  <2>7. OfTrack("clear", r) \in ToDo'
    <3>1. 2 \in 1..Len(calls)
      BY <2>3
    <3>2. calls[2] \in ToDo'
      BY <1>0, <1>3, <2>3, <3>1, StillToDo
    <3> QED
      BY <2>3, <3>2
  <2>8. Clearing' = Clearing \cup {r}
    <3>1. {y \in ToDo' : y.do = "clear"} = {y \in ToDo : y.do = "clear"} \cup {OfTrack("clear", r)}
      BY <2>2, <2>5, <2>6, <2>7
    <3> QED
      BY <2>2, <3>1 DEF Clearing
  <2>9. \A x \in ToDo' : x.do = "clear" => x = OfTrack("clear", x.track)
    BY <2>2, <2>5 DEF MonitorInv
  <2>10. r \in open /\ missed' = missed
    BY <1>1, <1>4, <1>6
  <2>11. Unheard' = Unheard
    BY <1>1, <2>8, <2>10 DEF Unheard
  <2> QED
    BY <1>1, <1>4, <2>8, <2>9, <2>11, MonitorsKept
<1> QED
  BY <1>5, <1>6

\* Whoever goes on early is in early.
LEMMA UnqueueKeepsMonitors ==
  ASSUME PublishingInv, MonitorInv, NEW t \in Threads, Unqueue(t) PROVE MonitorInv'
<1> DEFINE c == This(t).cid
<1>0. work \in [Threads -> Seq(Item)] /\ \A d \in DOMAIN pending : QueueOf(d)
  BY DEF PublishingInv, PublishingState, WorkTypes
<1>1. /\ work[t] # <<>> /\ This(t).do = "unqueue" /\ Then(t, <<>>)
      /\ pending' = IF c \in DOMAIN pending THEN [pending EXCEPT ![c].queued = FALSE] ELSE pending
      /\ early' = IF c \in DOMAIN pending
                  THEN early \cup {s \in {Head(pending[c].infos).sid} : ~Over(s)} ELSE early
      /\ UNCHANGED <<open, missed, monitors, asked, removable>>
  BY DEF Unqueue, Does, This, bounds
<1>2. work' = [work EXCEPT ![t] = <<>> \o Rest(t)]
  BY <1>1, ThenServes
<1> HIDE DEF c
<1>3. Clearing' = Clearing /\ \A x \in ToDo' : x.do = "clear" => x = OfTrack("clear", x.track)
  <2>1. <<>> \in Seq(Item) /\ \A i \in 1..Len(<<>>) : <<>>[i].do # "clear"
    OBVIOUS
  <2>2. work[t] = <<>> \/ This(t).do # "clear"
    BY <1>1
  <2> QED
    BY ONLY MonitorInv, t \in Threads, <1>0, <1>2, <2>1, <2>2, ClearsKept
<1>4. Unheard' = Unheard
  BY <1>1, <1>3 DEF Unheard
<1>5. /\ DOMAIN pending' = DOMAIN pending
      /\ \A d \in DOMAIN pending : /\ pending'[d].infos = pending[d].infos
                                   /\ d # c => pending'[d].queued = pending[d].queued
  <2>1. \A d \in DOMAIN pending : pending[d] \in [infos : Seq(Track), queued : BOOLEAN]
    BY <1>0 DEF QueueOf
  <2> QED
    BY <1>1, <2>1
<1>6. Requests' = Requests
  BY <1>5 DEF Requests
<1>7. ASSUME NEW s \in Going' PROVE s \in Going \/ s \in early' \/ Over(s)
  <2>1. PICK d \in DOMAIN pending' : ~pending'[d].queued /\ s = Head(pending'[d].infos).sid
    BY <1>7 DEF Going
  <2>2. d \in DOMAIN pending /\ s = Head(pending[d].infos).sid
    BY <1>5, <2>1
  <2>3. CASE d # c
    BY <1>5, <2>1, <2>2, <2>3 DEF Going
  <2>4. CASE d = c
    BY <1>1, <2>2, <2>4
  <2> QED
    BY <2>3, <2>4
<1>8. early \subseteq early'
  BY <1>1
<1> QED
  BY <1>1, <1>3, <1>4, <1>6, <1>7, <1>8, MonitorsKept

LEMMA ClearKeepsMonitors ==
  ASSUME PublishingInv, MonitorInv, NEW t \in Threads, Clear(t) PROVE MonitorInv'
<1> DEFINE r == This(t).track
<1>0. work \in [Threads -> Seq(Item)] /\ WorkTypes
  BY DEF PublishingInv, PublishingState, WorkTypes
<1>1. /\ work[t] # <<>> /\ This(t).do = "clear" /\ Then(t, <<>>)
      /\ monitors' = ClearPublishedTrack(r)
      /\ UNCHANGED <<pending, open, missed, early, asked, removable>>
  BY DEF Clear, Does, This, tracks, bounds
<1>2. This(t) \in ToDo /\ This(t) = OfTrack("clear", r) /\ r \in Clearing /\ r \in Track
  BY <1>0, <1>1, ServesOne DEF MonitorInv, Clearing, Item
<1>3. work' = [work EXCEPT ![t] = <<>> \o Rest(t)]
  BY <1>1, ThenServes
<1>4. /\ \A x \in ToDo : x \in ToDo' \/ x = This(t)
      /\ \A x \in ToDo' : x \in ToDo
  <2>1. <<>> \in Seq(Item) /\ Len(<<>>) = 0
    OBVIOUS
  <2>2. /\ \A x \in ToDo : x \in ToDo' \/ (work[t] # <<>> /\ x = Head(work[t]))
        /\ \A x \in ToDo' : x \in ToDo \/ \E i \in 1..Len(<<>>) : x = <<>>[i]
    BY ONLY t \in Threads, <1>0, <1>3, <2>1, StillToDo
  <2> QED
    BY <2>1, <2>2 DEF This
<1>5. Clearing' \subseteq Clearing /\ Clearing \subseteq Clearing' \cup {r}
  BY <1>2, <1>4 DEF Clearing, OfTrack, Call
<1>6. Unheard' \subseteq Unheard /\ Unheard \subseteq Unheard' \cup {r}
  BY <1>1, <1>5 DEF Unheard
<1>7. Requests' = Requests /\ Going' = Going /\ \A s : Asks(s)' = Asks(s)
  BY <1>1 DEF Requests, Going, Asks
<1>8. r \in Unheard /\ r # NoTrack /\ r.sid \in 1..asked
  <2>1. r \in Unheard /\ r.sid \in 1..asked
    BY <1>2 DEF Unheard, MonitorInv
  <2>2. NoTrack.sid = 0
    BY DEF NoTrack, Request
  <2> QED
    BY <2>1, <2>2
<1> HIDE DEF r
<1>9. /\ DOMAIN monitors' = DOMAIN monitors
      /\ \A s \in DOMAIN monitors :
           monitors'[s] = IF s = r.sid
                          THEN Settled(IF monitors[s].track = r THEN [monitors[s] EXCEPT !.track = NoTrack]
                                       ELSE monitors[s])
                          ELSE monitors[s]
  BY <1>1 DEF ClearPublishedTrack
<1>10. ASSUME NEW s \in DOMAIN monitors
       PROVE  /\ monitors[s].track # r => monitors'[s] = monitors[s]
              /\ monitors[s].track = r =>
                   /\ s = r.sid /\ monitors'[s].track = NoTrack
                   /\ \A k \in Nat : AwaitsStarts(monitors[s], k) => AwaitsStarts(monitors'[s], k)
  <2>1. MonitorOf(s)
    BY DEF MonitorInv
  <2>2. PICK k \in Nat : AwaitsStarts(monitors[s], k)
    BY <2>1 DEF MonitorOf
  <2>3. CASE monitors[s].track # r
    BY <1>9, <2>2, <2>3, MonitorSettled
  <2>4. CASE monitors[s].track = r
    <3>1. s = r.sid
      BY <1>8, <2>1, <2>4 DEF MonitorOf
    <3>2. monitors'[s] = Settled([monitors[s] EXCEPT !.track = NoTrack])
      BY <1>9, <2>4, <3>1
    <3> QED
      BY <1>8, <2>2, <2>4, <3>1, <3>2, MonitorClears
  <2> QED
    BY <2>3, <2>4
<1>11. ASSUME NEW s \in DOMAIN monitors' PROVE MonitorOf(s)'
  <2>1. s \in DOMAIN monitors /\ MonitorOf(s) /\ Asks(s)' = Asks(s) /\ early' = early
    BY <1>1, <1>7, <1>9, <1>11 DEF MonitorInv
  <2>2. PICK k \in Nat :
          /\ AwaitsStarts(monitors[s], k) /\ Cardinality(Asks(s)) <= k
          /\ s \notin early =>
               k = Cardinality(Asks(s)) /\ (monitors[s].track # NoTrack => monitors[s].track \in Unheard)
    BY <2>1 DEF MonitorOf
  <2>3. AwaitsStarts(monitors'[s], k) /\ (monitors'[s].track # NoTrack => monitors'[s].track.sid = s)
    BY <1>10, <2>1, <2>2 DEF MonitorOf
  <2>4. s \notin early => (monitors'[s].track # NoTrack => monitors'[s].track \in Unheard')
    BY <1>6, <1>10, <2>1, <2>2
  <2> QED
    BY <2>1, <2>2, <2>3, <2>4 DEF MonitorOf
<1>12. \A q \in open' : q.sid \in early' \/ (q.sid \in DOMAIN monitors' /\ monitors'[q.sid].track = q)
  <2> SUFFICES ASSUME NEW q \in open, q.sid \notin early
               PROVE  q.sid \in DOMAIN monitors' /\ monitors'[q.sid].track = q
    BY <1>1
  <2>1. q.sid \in DOMAIN monitors /\ monitors[q.sid].track = q /\ q # r
    BY <1>2 DEF MonitorInv
  <2> QED
    BY <1>9, <1>10, <2>1
<1>13. \A x \in ToDo' : x.do = "clear" => x = OfTrack("clear", x.track)
  BY <1>4 DEF MonitorInv
<1>14. (\A q \in Unheard' : q.sid \in 1..asked')
       /\ (\A s \in Going' : s \in early' \/ \A q \in Unheard' : q.sid # s)
       /\ (\A q \in Clearing' : q.sid \in early' \/ q \notin open')
  BY <1>1, <1>5, <1>6, <1>7 DEF MonitorInv
<1>15. (\A q, p \in Requests' : q.sid = p.sid <=> q.cid = p.cid)
       /\ DOMAIN monitors' \subseteq 1..asked' /\ (\A q \in Requests' : q.sid \in DOMAIN monitors')
  BY <1>1, <1>7, <1>9 DEF MonitorInv
<1>16. \A s \in removable' :
         s \in 1..asked' /\ Asks(s)' = {} /\ \A q \in open' : q.sid = s => s \in early'
  BY <1>1, <1>7 DEF MonitorInv
<1> QED
  BY <1>11, <1>12, <1>13, <1>14, <1>15, <1>16 DEF MonitorInv

\* Asks(s), which is finite: the requests of one id are those of one cid.
LEMMA RequestsAre ==
  ASSUME NEW p, \A c \in DOMAIN p : p[c].infos \in Seq(Track), NEW r
  PROVE  r \in UNION {ToSet(p[c].infos) : c \in DOMAIN p}
           <=> \E c \in DOMAIN p : \E i \in 1..Len(p[c].infos) : r = p[c].infos[i]
<1>1. \A c \in DOMAIN p : DOMAIN p[c].infos = 1..Len(p[c].infos)
  BY LenProperties
<1> QED
  BY <1>1 DEF ToSet

LEMMA RequestsKnown ==
  ASSUME PublishingInv
  PROVE  /\ \A r : r \in Requests <=>
              \E c \in DOMAIN pending : \E i \in 1..Len(pending[c].infos) : r = pending[c].infos[i]
         /\ \A r \in Requests :
              /\ r \in Track /\ r.cid \in DOMAIN pending /\ r.sid \in 1..asked /\ r.n \in 1..asked
              /\ r \notin open \cup missed
              /\ \E i \in 1..Len(pending[r.cid].infos) : r = pending[r.cid].infos[i]
<1>1. \A c \in DOMAIN pending : QueueOf(c) /\ pending[c].infos \in Seq(Track)
  BY DEF PublishingInv, PublishingState, QueueOf
<1>2. \A r : r \in Requests <=>
         \E c \in DOMAIN pending : \E i \in 1..Len(pending[c].infos) : r = pending[c].infos[i]
  BY <1>1, RequestsAre DEF Requests
<1>3. ASSUME NEW r \in Requests
      PROVE  /\ r \in Track /\ r.cid \in DOMAIN pending /\ r.sid \in 1..asked /\ r.n \in 1..asked
             /\ r \notin open \cup missed
             /\ \E i \in 1..Len(pending[r.cid].infos) : r = pending[r.cid].infos[i]
  <2>1. PICK c \in DOMAIN pending : \E i \in 1..Len(pending[c].infos) : r = pending[c].infos[i]
    BY <1>2
  <2>2. PICK i \in 1..Len(pending[c].infos) : r = pending[c].infos[i]
    BY <2>1
  <2>3. r.cid = c /\ r.n \in 1..asked /\ r.sid \in 1..asked /\ r \notin open \cup missed /\ r \in Track
    BY <1>1, <2>2 DEF QueueOf
  <2> QED
    BY <2>2, <2>3
<1> QED
  BY <1>2, <1>3

LEMMA HeadsAreRequests ==
  ASSUME PublishingInv, NEW c \in DOMAIN pending
  PROVE  /\ Head(pending[c].infos) \in Requests /\ Head(pending[c].infos).cid = c
         /\ Head(pending[c].infos) = pending[c].infos[1] /\ 1 \in 1..Len(pending[c].infos)
<1>1. QueueOf(c)
  BY DEF PublishingInv, PublishingState
<1>2. pending[c].infos \in Seq(Track) /\ pending[c].infos # <<>>
  BY <1>1 DEF QueueOf
<1>3. Head(pending[c].infos) = pending[c].infos[1] /\ 1 \in 1..Len(pending[c].infos)
  BY <1>2, EmptySeq
<1>4. pending[c].infos[1] \in Requests
  BY <1>3, RequestsKnown
<1>5. pending[c].infos[1].cid = c
  BY <1>1, <1>3 DEF QueueOf
<1> QED
  BY <1>3, <1>4, <1>5

LEMMA AsksFinite ==
  ASSUME PublishingInv, MonitorInv, NEW s
  PROVE  IsFiniteSet(Asks(s)) /\ Cardinality(Asks(s)) \in Nat
<1>1. CASE Asks(s) = {}
  BY <1>1, FS_EmptySet
<1>2. ASSUME NEW r \in Asks(s) PROVE IsFiniteSet(Asks(s))
  <2> DEFINE infos == pending[r.cid].infos
             f == [i \in 1..Len(infos) |-> infos[i]]
             n == Len(infos)
  <2>1. r \in Requests /\ r.sid = s
    BY <1>2 DEF Asks
  <2>2. r.cid \in DOMAIN pending /\ infos \in Seq(Track) /\ Len(infos) \in Nat
    BY <2>1, RequestsKnown, LenProperties DEF PublishingInv, PublishingState, QueueOf
  <2>3. IsFiniteSet(1..Len(infos))
    <3>1. n \in Int
      BY <2>2
    <3> HIDE DEF n
    <3>2. IsFiniteSet(1..n)
      BY <3>1, FS_Interval
    <3> QED
      BY <3>2 DEF n
  <2>4. f \in Surjection(1..Len(infos), {infos[i] : i \in 1..Len(infos)})
    BY DEF Surjection
  <2>5. IsFiniteSet({infos[i] : i \in 1..Len(infos)})
    BY <2>3, <2>4, FS_Surjection
  <2>6. Asks(s) \subseteq {infos[i] : i \in 1..Len(infos)}
    <3> SUFFICES ASSUME NEW q \in Asks(s) PROVE \E i \in 1..Len(infos) : q = infos[i]
      OBVIOUS
    <3>1. q \in Requests /\ q.cid = r.cid
      BY <2>1 DEF Asks, MonitorInv
    <3> QED
      BY <3>1, RequestsKnown
  <2> QED
    BY <2>5, <2>6, FS_Subset
<1>3. IsFiniteSet(Asks(s))
  BY <1>1, <1>2
<1> QED
  BY <1>3, FS_CardinalityType

LEMMA IdleKeepsMonitors ==
  ASSUME PublishingInv, MonitorInv, FindIdle \/ DeleteIdle PROVE MonitorInv'
<1>1. CASE FindIdle
  <2>1. /\ removable' = {s \in DOMAIN monitors : IdleMonitor(monitors[s])}
        /\ UNCHANGED <<pending, open, missed, early, monitors, work, asked>>
    BY <1>1 DEF FindIdle, tracks, bounds
  <2>2. ToDo' = ToDo
    BY <2>1 DEF ToDo
  <2>3. Clearing' = Clearing /\ Requests' = Requests /\ Going' = Going
    BY <2>1, <2>2 DEF Clearing, Requests, Going
  <2>4. Unheard' = Unheard /\ \A s : Asks(s)' = Asks(s)
    BY <2>1, <2>3 DEF Unheard, Asks
  <2>5. ASSUME NEW s \in removable'
        PROVE  /\ s \in 1..asked' /\ Asks(s)' = {}
               /\ \A r \in open' : r.sid = s => s \in early'
    <3>1. s \in DOMAIN monitors /\ MonitorOf(s) /\ monitors[s].track = NoTrack /\ s \in 1..asked
      BY <2>1, <2>5 DEF IdleMonitor, MonitorInv
    <3>2. Cardinality(Asks(s)) <= 0
      <4>1. PICK k \in Nat : AwaitsStarts(monitors[s], k) /\ Cardinality(Asks(s)) <= k
        BY <3>1 DEF MonitorOf
      <4>2. k = 0
        BY <2>1, <2>5, <4>1, MonitorExpects
      <4> QED
        BY <4>1, <4>2
    <3>3. Asks(s) = {}
      <4>1. Cardinality(Asks(s)) = 0
        BY <3>2, AsksFinite
      <4> QED
        BY <4>1, AsksFinite, FS_EmptySet
    <3>4. ASSUME NEW r \in open, r.sid = s PROVE s \in early
      <4>1. r \in Unheard /\ r.sid \in 1..asked
        BY DEF Unheard, MonitorInv
      <4>2. r # NoTrack
        BY <4>1 DEF NoTrack, Request
      <4> QED
        BY <3>1, <3>4, <4>2 DEF MonitorInv
    <3> QED
      BY <2>1, <2>4, <3>1, <3>3, <3>4
  <2>6. ASSUME NEW s \in DOMAIN monitors' PROVE MonitorOf(s)'
    <3>1. MonitorOf(s)
      BY <2>1, <2>6 DEF MonitorInv
    <3> QED
      BY <2>1, <2>4, <3>1 DEF MonitorOf
  <2>7. \A x \in ToDo' : x.do = "clear" => x = OfTrack("clear", x.track)
    BY <2>2 DEF MonitorInv
  <2> QED
    BY <2>1, <2>3, <2>4, <2>5, <2>6, <2>7 DEF MonitorInv
<1>2. CASE DeleteIdle
  <2>1. /\ monitors' = Without(monitors, removable) /\ removable' = {}
        /\ UNCHANGED <<pending, open, missed, early, work, asked>>
    BY <1>2 DEF DeleteIdle, tracks, bounds
  <2>2. ToDo' = ToDo
    BY <2>1 DEF ToDo
  <2>3. Clearing' = Clearing /\ Requests' = Requests /\ Going' = Going
    BY <2>1, <2>2 DEF Clearing, Requests, Going
  <2>4. Unheard' = Unheard /\ \A s : Asks(s)' = Asks(s)
    BY <2>1, <2>3 DEF Unheard, Asks
  <2>5. /\ DOMAIN monitors' = DOMAIN monitors \ removable
        /\ \A s \in DOMAIN monitors' : monitors'[s] = monitors[s]
    BY <2>1 DEF Without
  <2>6. ASSUME NEW s \in DOMAIN monitors' PROVE MonitorOf(s)'
    <3>1. MonitorOf(s) /\ monitors'[s] = monitors[s]
      BY <2>5, <2>6 DEF MonitorInv
    <3> QED
      BY <2>1, <2>4, <3>1 DEF MonitorOf
  <2>7. \A r \in Requests' : r.sid \in DOMAIN monitors'
    <3> SUFFICES ASSUME NEW r \in Requests PROVE r.sid \in DOMAIN monitors'
      BY <2>3
    <3>1. r \in Asks(r.sid) /\ r.sid \in DOMAIN monitors
      BY DEF Asks, MonitorInv
    <3>2. r.sid \notin removable
      BY <3>1 DEF MonitorInv
    <3> QED
      BY <2>5, <3>1, <3>2
  <2>8. \A r \in open' : r.sid \in early' \/ (r.sid \in DOMAIN monitors' /\ monitors'[r.sid].track = r)
    BY <2>1, <2>5 DEF MonitorInv
  <2>9. \A x \in ToDo' : x.do = "clear" => x = OfTrack("clear", x.track)
    BY <2>2 DEF MonitorInv
  <2> QED
    BY <2>1, <2>3, <2>4, <2>5, <2>6, <2>7, <2>8, <2>9 DEF MonitorInv
<1> QED
  BY <1>1, <1>2

\* A new request: an id of its own unless it joins the requests of its cid.
LEMMA AddKeepsMonitors ==
  ASSUME PublishingInv, MonitorInv, NEW c \in Cids, AddTrack(c) PROVE MonitorInv'
<1> DEFINE more == c \in DOMAIN pending
           queue == more \/ Listed(c) # {}
           sid == IF more THEN Head(pending[c].infos).sid ELSE asked + 1
           r == Request(asked + 1, sid, c)
           calls == IF queue THEN <<>> ELSE <<OfTrack("tell", r), Retry>>
           idle == [desired |-> <<>>, track |-> NoTrack]
           old(s) == IF s \in DOMAIN monitors THEN monitors[s] ELSE idle
<1>1. /\ asked \in Nat /\ work \in [Threads -> Seq(Item)] /\ Signal \in Threads
      /\ \A d \in DOMAIN pending : pending[d].infos \in Seq(Track)
  BY PublishingThreads DEF PublishingInv, PublishingState, WorkTypes, QueueOf
<1>2. \A d \in DOMAIN pending' : pending'[d].infos \in Seq(Track)
  <2>1. PublishingInv'
    BY AddStep
  <2> QED
    BY <2>1 DEF PublishingInv, PublishingState, QueueOf
<1>3. /\ work[Signal] = <<>> /\ asked' = asked + 1
      /\ pending' = IF more THEN [pending EXCEPT ![c].infos = Append(@, r)]
                    ELSE Put(pending, c, [infos |-> <<r>>, queued |-> queue])
      /\ work' = IF queue THEN work ELSE [work EXCEPT ![Signal] = <<OfTrack("tell", r), Retry>>]
      /\ monitors' = AddPublication(sid)
      /\ UNCHANGED <<open, missed, early, removable>>
  BY DEF AddTrack, tracks, Request
<1>4. /\ more => \E h \in Requests : h = Head(pending[c].infos) /\ h.cid = c /\ h.sid = sid
      /\ ~more => sid = asked + 1
  BY HeadsAreRequests
<1>5. r.n = asked + 1 /\ r.sid = sid /\ r.cid = c /\ sid \in 1..asked + 1 /\ r \in Track
  <2>1. sid \in 1..asked + 1
    BY <1>1, <1>4, RequestsKnown
  <2> QED
    BY <1>1, <2>1 DEF Request, Track
<1>6. \A q \in Requests : q # r /\ (q.sid = sid <=> q.cid = c)
  <2> SUFFICES ASSUME NEW q \in Requests PROVE q # r /\ (q.sid = sid <=> q.cid = c)
    OBVIOUS
  <2>1. q.n \in 1..asked /\ q.sid \in 1..asked /\ q.cid \in DOMAIN pending
    BY RequestsKnown
  <2>2. q # r
    BY <1>1, <1>5, <2>1
  <2>3. CASE more
    BY <1>4, <2>2, <2>3 DEF MonitorInv
  <2>4. CASE ~more
    BY <1>1, <1>4, <2>1, <2>2, <2>4
  <2> QED
    BY <2>3, <2>4
<1> HIDE DEF r, sid
<1>7. /\ c \in DOMAIN pending' /\ DOMAIN pending' = DOMAIN pending \cup {c}
      /\ \A d \in DOMAIN pending' \ {c} : pending'[d] = pending[d]
      /\ more => /\ pending'[c].infos = Append(pending[c].infos, r)
                 /\ pending'[c].queued = pending[c].queued
      /\ ~more => pending'[c].infos = <<r>>
  BY <1>3 DEF Put, PublishingInv, PublishingState, QueueOf
<1>8. \A x : x \in Requests' <=> x \in Requests \/ x = r
  <2> SUFFICES ASSUME NEW x PROVE x \in Requests' <=> x \in Requests \/ x = r
    OBVIOUS
  <2>1. x \in Requests' <=> \E d \in DOMAIN pending' : \E i \in 1..Len(pending'[d].infos) : x = pending'[d].infos[i]
    <3> DEFINE p == pending'
    <3>1. Requests' = UNION {ToSet(p[d].infos) : d \in DOMAIN p}
      BY DEF Requests
    <3>2. \A d \in DOMAIN p : p[d].infos \in Seq(Track)
      BY <1>2
    <3> HIDE DEF p
    <3>3. x \in UNION {ToSet(p[d].infos) : d \in DOMAIN p}
            <=> \E d \in DOMAIN p : \E i \in 1..Len(p[d].infos) : x = p[d].infos[i]
      <4>1. \A d \in DOMAIN p : DOMAIN p[d].infos = 1..Len(p[d].infos)
        BY <3>2, LenProperties
      <4> QED
        BY <4>1 DEF ToSet
    <3> QED
      BY <3>1, <3>3 DEF p
  <2>2. x \in Requests <=> \E d \in DOMAIN pending : \E i \in 1..Len(pending[d].infos) : x = pending[d].infos[i]
    BY RequestsKnown
  <2>3. CASE more
    <3>1. /\ \A i \in 1..Len(pending'[c].infos) :
               i \in 1..Len(pending[c].infos) \/ pending'[c].infos[i] = r
          /\ \A i \in 1..Len(pending[c].infos) :
               i \in 1..Len(pending'[c].infos) /\ pending'[c].infos[i] = pending[c].infos[i]
          /\ \E i \in 1..Len(pending'[c].infos) : pending'[c].infos[i] = r
      <4> DEFINE a == pending[c].infos
                 b == Append(a, r)
      <4>1. a \in Seq(Track) /\ pending'[c].infos = b
        BY <1>1, <1>7, <2>3
      <4> HIDE DEF a
      <4>2. /\ b \in Seq(Track) /\ Len(a) \in Nat /\ Len(b) = Len(a) + 1 /\ b[Len(a) + 1] = r
            /\ \A i \in 1..Len(a) : b[i] = a[i]
        BY <1>5, <4>1, AppendProperties, LenProperties
      <4> HIDE DEF b
      <4>3. \A i \in 1..Len(b) : i \in 1..Len(a) \/ i = Len(a) + 1
        BY <4>2
      <4>4. Len(a) + 1 \in 1..Len(b) /\ \A i \in 1..Len(a) : i \in 1..Len(b)
        BY <4>2
      <4> QED
        BY <4>1, <4>2, <4>3, <4>4 DEF a
    <3>2. (\E i \in 1..Len(pending'[c].infos) : x = pending'[c].infos[i])
            <=> x = r \/ \E i \in 1..Len(pending[c].infos) : x = pending[c].infos[i]
      BY ONLY <3>1
    <3>3. /\ DOMAIN pending' = DOMAIN pending /\ c \in DOMAIN pending
          /\ \A d \in DOMAIN pending \ {c} : pending'[d] = pending[d]
      BY <1>7, <2>3
    <3> QED
      BY ONLY <2>1, <2>2, <3>2, <3>3
  <2>4. CASE ~more
    <3>1. Len(pending'[c].infos) = 1 /\ pending'[c].infos[1] = r
      <4>1. Len(<<r>>) = 1 /\ <<r>>[1] = r
        OBVIOUS
      <4> QED
        BY ONLY <1>7, <2>4, <4>1
    <3>2. (\E i \in 1..Len(pending'[c].infos) : x = pending'[c].infos[i]) <=> x = r
      BY <3>1
    <3> QED
      BY <1>7, <2>1, <2>2, <2>4, <3>2
  <2> QED
    BY <2>3, <2>4
<1>9. \A s : Asks(s)' = IF s = sid THEN Asks(s) \cup {r} ELSE Asks(s)
  BY <1>5, <1>8 DEF Asks
<1>10. \A s : Cardinality(Asks(s)') = IF s = sid THEN Cardinality(Asks(s)) + 1 ELSE Cardinality(Asks(s))
  <2>1. r \notin Asks(sid) /\ IsFiniteSet(Asks(sid)) /\ Cardinality(Asks(sid)) \in Nat
    BY <1>6, AsksFinite DEF Asks
  <2>2. Cardinality(Asks(sid) \cup {r}) = Cardinality(Asks(sid)) + 1
    BY <2>1, FS_AddElement
  <2> QED
    BY <1>9, <2>2
<1>11. Clearing' = Clearing /\ \A x \in ToDo' : x.do = "clear" => x = OfTrack("clear", x.track)
  <2>1. CASE queue
    <3>1. ToDo' = ToDo
      BY <1>3, <2>1 DEF ToDo
    <3> QED
      BY <3>1 DEF Clearing, MonitorInv
  <2>2. CASE ~queue
    <3>1. /\ OfTrack("tell", r) \in Item /\ OfTrack("tell", r).do = "tell"
          /\ Retry \in Item /\ Retry.do = "retry"
      BY <1>5, Items DEF Doings
    <3>2. calls \in Seq(Item) /\ \A i \in 1..Len(calls) : calls[i].do # "clear"
      <4>1. calls \in Seq(Item) /\ Len(calls) = 2 /\ calls[1] = OfTrack("tell", r) /\ calls[2] = Retry
        BY <2>2, <3>1
      <4>2. \A i \in 1..Len(calls) : i = 1 \/ i = 2
        BY <4>1
      <4> QED
        BY <3>1, <4>1, <4>2
    <3>3. work' = [work EXCEPT ![Signal] = calls]
      BY <1>3, <2>2
    <3> HIDE DEF calls
    <3>4. work' = [work EXCEPT ![Signal] = calls \o Rest(Signal)]
      BY <1>1, <1>3, <3>2, <3>3, IdleStarts
    <3> QED
      BY <1>1, <1>3, <3>2, <3>4, ClearsKept
  <2> QED
    BY <2>1, <2>2
<1>12. Unheard' = Unheard
  BY <1>3, <1>11 DEF Unheard
<1>13. /\ DOMAIN monitors' = DOMAIN monitors \cup {sid}
       /\ \A s \in DOMAIN monitors \ {sid} : monitors'[s] = monitors[s]
       /\ monitors'[sid] = Settled([old(sid) EXCEPT !.desired = @ \o <<"start", "end">>])
  BY <1>3 DEF AddPublication, Put
<1>14. PICK k \in Nat :
         /\ AwaitsStarts(old(sid), k) /\ Cardinality(Asks(sid)) <= k
         /\ old(sid).track # NoTrack => old(sid).track.sid = sid
         /\ sid \notin early =>
              k = Cardinality(Asks(sid)) /\ (old(sid).track # NoTrack => old(sid).track \in Unheard)
  <2>1. CASE sid \in DOMAIN monitors
    <3>1. MonitorOf(sid) /\ old(sid) = monitors[sid]
      BY <2>1 DEF MonitorInv
    <3> QED
      BY <3>1 DEF MonitorOf
  <2>2. CASE sid \notin DOMAIN monitors
    <3>1. Asks(sid) = {} /\ Cardinality(Asks(sid)) = 0
      <4>1. Asks(sid) = {}
        BY <2>2 DEF Asks, MonitorInv
      <4> QED
        BY <4>1, FS_EmptySet
    <3>2. old(sid) = idle /\ idle.track = NoTrack /\ AwaitsStarts(idle, 0)
      BY <2>2, MonitorStarts
    <3> QED
      BY <3>1, <3>2
  <2> QED
    BY <2>1, <2>2
<1>15. AwaitsStarts(monitors'[sid], k + 1) /\ monitors'[sid].track = old(sid).track
  BY <1>13, <1>14, MonitorAdds
<1>16. ASSUME NEW s \in DOMAIN monitors' PROVE MonitorOf(s)'
  <2>1. CASE s = sid
    <3>1. Cardinality(Asks(s)') = Cardinality(Asks(s)) + 1 /\ Cardinality(Asks(s)) \in Nat
      BY <1>10, <2>1, AsksFinite
    <3>2. /\ k + 1 \in Nat /\ AwaitsStarts(monitors'[s], k + 1) /\ Cardinality(Asks(s)') <= k + 1
          /\ s \notin early => k + 1 = Cardinality(Asks(s)')
      BY <1>14, <1>15, <2>1, <3>1
    <3>3. /\ monitors'[s].track # NoTrack => monitors'[s].track.sid = s
          /\ s \notin early => (monitors'[s].track # NoTrack => monitors'[s].track \in Unheard)
      BY <1>14, <1>15, <2>1
    <3> QED
      BY <1>3, <1>12, <3>2, <3>3 DEF MonitorOf
  <2>2. CASE s # sid
    <3>1. s \in DOMAIN monitors /\ MonitorOf(s) /\ monitors'[s] = monitors[s]
      BY <1>13, <1>16, <2>2 DEF MonitorInv
    <3>2. Cardinality(Asks(s)') = Cardinality(Asks(s))
      BY <1>10, <2>2
    <3> QED
      BY <1>3, <1>12, <3>1, <3>2 DEF MonitorOf
  <2> QED
    BY <2>1, <2>2
<1>17. ASSUME NEW s \in Going' PROVE s \in early' \/ \A q \in Unheard' : q.sid # s
  <2>1. PICK d \in DOMAIN pending' : ~pending'[d].queued /\ s = Head(pending'[d].infos).sid
    BY <1>17 DEF Going
  <2>2. CASE s \in Going
    BY <1>3, <1>12, <2>2 DEF MonitorInv
  <2>3. CASE d # c
    BY <1>7, <2>1, <2>2, <2>3 DEF Going
  <2>4. CASE d = c /\ more
    <3>1. Head(Append(pending[c].infos, r)) = Head(pending[c].infos)
      BY <1>1, <1>5, <2>4, HeadsAreRequests, AppendProperties
    <3> QED
      BY <1>7, <2>1, <2>2, <2>4, <3>1 DEF Going
  <2>5. CASE d = c /\ ~more
    <3>1. s = asked + 1
      BY <1>4, <1>5, <1>7, <2>1, <2>5
    <3> QED
      BY <1>1, <1>12, <3>1 DEF MonitorInv
  <2> QED
    BY <2>3, <2>4, <2>5
<1>18. 1..asked \subseteq 1..asked' /\ sid \in 1..asked'
  BY <1>1, <1>3, <1>5
<1>19. ASSUME NEW s \in removable'
       PROVE  s \in 1..asked' /\ Asks(s)' = {} /\ \A q \in open' : q.sid = s => s \in early'
  <2>1. s \in 1..asked /\ Asks(s) = {} /\ \A q \in open : q.sid = s => s \in early
    BY <1>3, <1>19 DEF MonitorInv
  <2>2. s # sid
    BY <1>1, <1>4, <2>1 DEF Asks
  <2> QED
    BY <1>3, <1>9, <1>18, <2>1, <2>2
<1>20. ASSUME NEW q \in open', q.sid \notin early'
       PROVE  q.sid \in DOMAIN monitors' /\ monitors'[q.sid].track = q
  <2>1. q.sid \in DOMAIN monitors /\ monitors[q.sid].track = q
    BY <1>3, <1>20 DEF MonitorInv
  <2> QED
    BY <1>13, <1>15, <2>1
<1>21. \A q, p \in Requests' : q.sid = p.sid <=> q.cid = p.cid
  BY <1>5, <1>6, <1>8 DEF MonitorInv
<1>22. (\A q \in Unheard' : q.sid \in 1..asked') /\ (\A q \in Clearing' : q.sid \in early' \/ q \notin open')
       /\ DOMAIN monitors' \subseteq 1..asked' /\ (\A q \in Requests' : q.sid \in DOMAIN monitors')
  BY <1>3, <1>5, <1>8, <1>11, <1>12, <1>13, <1>18 DEF MonitorInv
<1> QED
  BY <1>11, <1>16, <1>17, <1>19, <1>20, <1>21, <1>22 DEF MonitorInv

\* A request becomes the track that its monitor awaits: the tracks of its id before it
\* are over, or it went on early.
LEMMA PublishKeepsMonitors ==
  ASSUME PublishingInv, MonitorInv, NEW t \in Threads, LookPublishes(t) PROVE MonitorInv'
<1>1. work \in [Threads -> Seq(Item)]
  BY DEF PublishingInv, PublishingState, WorkTypes
<1>2. PICK d \in RequestsFor(This(t).cid) :
        LET r == Head(pending[d].infos) IN
        /\ ~pending[d].queued
        /\ monitors' = SetPublishedTrack(r)
        /\ open' = open \cup {r}
        /\ pending' = Served(d)
        /\ Then(t, <<OfTrack("hook", r), OfTrack("check", r)>>)
  BY DEF LookPublishes
<1>3. /\ work[t] # <<>> /\ This(t).do = "look"
      /\ UNCHANGED <<missed, early, asked, removable>>
  BY DEF LookPublishes, Does, This, bounds
<1> DEFINE infos == pending[d].infos
           r == Head(infos)
           calls == <<OfTrack("hook", r), OfTrack("check", r)>>
<1>4. d \in DOMAIN pending /\ QueueOf(d) /\ infos \in Seq(Track) /\ infos # <<>> /\ Len(infos) \in Nat
  BY <1>2 DEF RequestsFor, PublishingInv, PublishingState, QueueOf
<1>5. r \in Requests /\ r.cid = d /\ r = infos[1] /\ 1 \in 1..Len(infos) /\ r.sid \in Going
  BY <1>2, <1>4, HeadsAreRequests DEF Going
<1>6. r \in Track /\ r # NoTrack /\ r.sid \in 1..asked /\ r.sid \in DOMAIN monitors /\ r \notin open \cup missed
  <2>1. r \in Track /\ r.sid \in 1..asked /\ r.n \in 1..asked /\ r \notin open \cup missed
    BY <1>5, RequestsKnown
  <2>2. NoTrack.n = 0 /\ 0 \notin 1..asked
    BY DEF NoTrack, Request
  <2> QED
    BY <1>5, <2>1, <2>2 DEF MonitorInv
<1>7. /\ open' = open \cup {r} /\ pending' = Served(d) /\ monitors' = SetPublishedTrack(r)
      /\ work' = [work EXCEPT ![t] = calls \o Rest(t)]
  BY <1>2, <1>3, ThenServes
<1>8. calls \in Seq(Item) /\ \A i \in 1..Len(calls) : calls[i].do # "clear"
  <2>1. /\ OfTrack("hook", r) \in Item /\ OfTrack("hook", r).do = "hook"
        /\ OfTrack("check", r) \in Item /\ OfTrack("check", r).do = "check"
    BY <1>6, Items DEF Doings
  <2>2. /\ calls \in Seq(Item) /\ Len(calls) = 2
        /\ calls[1] = OfTrack("hook", r) /\ calls[2] = OfTrack("check", r)
    BY <2>1
  <2>3. \A i \in 1..Len(calls) : i = 1 \/ i = 2
    BY <2>2
  <2> QED
    BY <2>1, <2>2, <2>3
<1> HIDE DEF r, calls
<1>9. Clearing' = Clearing /\ \A x \in ToDo' : x.do = "clear" => x = OfTrack("clear", x.track)
  BY <1>1, <1>3, <1>7, <1>8, ClearsKept
<1>10. Unheard' = Unheard \cup {r}
  BY <1>3, <1>7, <1>9 DEF Unheard
<1>11. r.sid \in early \/ \A q \in Unheard : q.sid # r.sid
  BY <1>5 DEF MonitorInv
<1>12. \A e \in DOMAIN pending' \ {d} : e \in DOMAIN pending /\ pending'[e] = pending[e]
  BY <1>7 DEF Served, Without
<1>13. \A e \in DOMAIN pending \ {d} : e \in DOMAIN pending'
  BY <1>7 DEF Served, Without
<1>14. ASSUME d \in DOMAIN pending'
       PROVE  pending'[d].infos = Tail(infos) /\ pending'[d].queued /\ Len(infos) # 1
  BY <1>4, <1>7, <1>14 DEF Served, Without
<1>15. d \notin DOMAIN pending' => Len(infos) = 1
  BY <1>4, <1>7 DEF Served
<1>16. \A x : x \in Requests' <=> x \in Requests /\ x # r
  <2> SUFFICES ASSUME NEW x PROVE x \in Requests' <=> x \in Requests /\ x # r
    OBVIOUS
  <2>1. x \in Requests' <=> \E e \in DOMAIN pending' : \E i \in 1..Len(pending'[e].infos) : x = pending'[e].infos[i]
    <3> DEFINE p == pending'
    <3>1. Requests' = UNION {ToSet(p[e].infos) : e \in DOMAIN p}
      BY DEF Requests
    <3>2. \A e \in DOMAIN p : p[e].infos \in Seq(Track)
      <4>1. PublishingInv'
        BY PublishStep
      <4> QED
        BY <4>1 DEF PublishingInv, PublishingState, QueueOf
    <3> HIDE DEF p
    <3>3. x \in UNION {ToSet(p[e].infos) : e \in DOMAIN p}
            <=> \E e \in DOMAIN p : \E i \in 1..Len(p[e].infos) : x = p[e].infos[i]
      <4>1. \A e \in DOMAIN p : DOMAIN p[e].infos = 1..Len(p[e].infos)
        BY <3>2, LenProperties
      <4> QED
        BY <4>1 DEF ToSet
    <3> QED
      BY <3>1, <3>3 DEF p
  <2>2. x \in Requests <=> \E e \in DOMAIN pending : \E i \in 1..Len(pending[e].infos) : x = pending[e].infos[i]
    BY RequestsKnown
  <2>3. \A e \in DOMAIN pending \ {d} : \A i \in 1..Len(pending[e].infos) : pending[e].infos[i] # r
    <3> SUFFICES ASSUME NEW e \in DOMAIN pending \ {d}, NEW i \in 1..Len(pending[e].infos)
                 PROVE  pending[e].infos[i].cid = e
      BY <1>5
    <3> QED
      BY DEF PublishingInv, PublishingState, QueueOf
  <2>4. \A i \in 1..Len(infos) : infos[i] = r <=> i = 1
    <3> SUFFICES ASSUME NEW i \in 1..Len(infos), i # 1 PROVE infos[i] # r
      BY <1>5
    <3>1. 1 < i /\ r.n < infos[i].n /\ r.n \in 1..asked
      BY <1>4, <1>5 DEF QueueOf
    <3> QED
      BY <3>1
  <2>5. (\E i \in 1..Len(infos) : x = infos[i] /\ x # r)
          <=> d \in DOMAIN pending' /\ \E i \in 1..Len(pending'[d].infos) : x = pending'[d].infos[i]
    <3>1. CASE d \notin DOMAIN pending'
      <4>1. \A i \in 1..Len(infos) : i = 1
        <5>1. Len(infos) = 1 /\ \A i \in 1..1 : i = 1
          BY <1>15, <3>1
        <5> QED
          BY ONLY <5>1
      <4> QED
        BY <2>4, <3>1, <4>1
    <3>2. CASE d \in DOMAIN pending'
      <4> DEFINE a == Tail(infos)
      <4>1. pending'[d].infos = a
        BY <1>14, <3>2
      <4>2. Len(a) = Len(infos) - 1 /\ \A i \in 1..Len(a) : a[i] = infos[i + 1]
        BY <1>4, HeadTailProperties
      <4> HIDE DEF a, infos
      <4>3. \A i \in 1..Len(a) : i + 1 \in 1..Len(infos) /\ i + 1 # 1
        BY <1>4, <4>2
      <4>4. \A i \in 1..Len(infos) : i = 1 \/ (i - 1 \in 1..Len(a) /\ a[i - 1] = infos[i])
        BY <1>4, <4>2
      <4> QED
        BY <2>4, <3>2, <4>1, <4>2, <4>3, <4>4
    <3> QED
      BY <3>1, <3>2
  <2> HIDE DEF infos
  <2>6. \A e \in DOMAIN pending' : e = d \/ (e \in DOMAIN pending \ {d} /\ pending'[e] = pending[e])
    BY <1>12
  <2>7. \A e \in DOMAIN pending : e = d \/ (e \in DOMAIN pending' \ {d} /\ pending'[e] = pending[e])
    BY <1>12, <1>13
  <2>8. ASSUME x \in Requests' PROVE x \in Requests /\ x # r
    BY <1>4, <2>1, <2>2, <2>3, <2>5, <2>6, <2>8 DEF infos
  <2>9. ASSUME x \in Requests, x # r PROVE x \in Requests'
    BY <2>1, <2>2, <2>5, <2>7, <2>9 DEF infos
  <2> QED
    BY <2>8, <2>9
<1> HIDE DEF infos
<1>17. \A s : Asks(s)' = IF s = r.sid THEN Asks(s) \ {r} ELSE Asks(s)
  BY <1>16 DEF Asks
<1>18. \A s : /\ s = r.sid => Cardinality(Asks(s)') = Cardinality(Asks(s)) - 1 /\ Cardinality(Asks(s)) \in Nat \ {0}
              /\ s # r.sid => Cardinality(Asks(s)') = Cardinality(Asks(s))
  <2> SUFFICES ASSUME NEW s, s = r.sid
               PROVE  Cardinality(Asks(s)') = Cardinality(Asks(s)) - 1 /\ Cardinality(Asks(s)) \in Nat \ {0}
    BY <1>17
  <2>1. r \in Asks(s) /\ IsFiniteSet(Asks(s)) /\ Cardinality(Asks(s)) \in Nat
    BY <1>5, AsksFinite DEF Asks
  <2>2. Cardinality(Asks(s) \ {r}) = Cardinality(Asks(s)) - 1
    BY <2>1, FS_RemoveElement
  <2>3. Cardinality(Asks(s)) # 0
    BY <2>1, FS_EmptySet
  <2> QED
    BY <1>17, <2>1, <2>2, <2>3
<1>19. /\ DOMAIN monitors' = DOMAIN monitors
       /\ \A s \in DOMAIN monitors :
            monitors'[s] = IF s = r.sid THEN Settled([monitors[s] EXCEPT !.track = r]) ELSE monitors[s]
  BY <1>6, <1>7 DEF SetPublishedTrack
<1>20. ASSUME NEW s \in DOMAIN monitors', s = r.sid
       PROVE  monitors'[s].track = r /\ MonitorOf(s)'
  <2>1. s \in DOMAIN monitors /\ MonitorOf(s) /\ monitors'[s] = Settled([monitors[s] EXCEPT !.track = r])
    BY <1>19, <1>20 DEF MonitorInv
  <2>2. PICK k \in Nat :
          /\ AwaitsStarts(monitors[s], k) /\ Cardinality(Asks(s)) <= k
          /\ s \notin early =>
               k = Cardinality(Asks(s)) /\ (monitors[s].track # NoTrack => monitors[s].track \in Unheard)
    BY <2>1 DEF MonitorOf
  <2> DEFINE k2 == IF monitors[s].track = NoTrack THEN k - 1 ELSE k
  <2>3. k # 0
    BY <1>18, <1>20, <2>2
  <2>4. AwaitsStarts(monitors'[s], k2) /\ monitors'[s].track = r
    BY <1>6, <2>1, <2>2, <2>3, MonitorSets
  <2>5. k2 \in Nat /\ Cardinality(Asks(s)') <= k2
    BY <1>18, <1>20, <2>2, <2>3
  <2>6. s \notin early => monitors[s].track = NoTrack
    BY <1>11, <1>20, <2>1, <2>2 DEF MonitorOf
  <2>7. s \notin early => k2 = Cardinality(Asks(s)')
    BY <1>18, <1>20, <2>2, <2>6
  <2> HIDE DEF k2
  <2>8. early' = early /\ r \in Unheard'
    BY <1>3, <1>10
  <2> QED
    BY ONLY <1>20, <2>4, <2>5, <2>7, <2>8 DEF MonitorOf
<1>21. ASSUME NEW s \in DOMAIN monitors' PROVE MonitorOf(s)'
  <2>1. CASE s = r.sid
    BY <1>20, <2>1
  <2>2. CASE s # r.sid
    <3>1. MonitorOf(s) /\ monitors'[s] = monitors[s] /\ Cardinality(Asks(s)') = Cardinality(Asks(s))
      BY <1>18, <1>19, <1>21, <2>2 DEF MonitorInv
    <3> QED
      BY <1>3, <1>10, <3>1 DEF MonitorOf
  <2> QED
    BY <2>1, <2>2
<1>22. ASSUME NEW s \in Going' PROVE s \in early' \/ \A q \in Unheard' : q.sid # s
  <2>1. PICK e \in DOMAIN pending' : ~pending'[e].queued /\ s = Head(pending'[e].infos).sid
    BY <1>22 DEF Going
  <2>2. e # d /\ e \in DOMAIN pending /\ pending'[e] = pending[e]
    BY <1>12, <1>14, <2>1
  <2>3. s \in Going /\ s # r.sid
    <3>1. Head(pending[e].infos) \in Requests /\ Head(pending[e].infos).cid = e
      BY <2>2, HeadsAreRequests
    <3> QED
      BY <1>5, <2>1, <2>2, <3>1 DEF Going, MonitorInv
  <2> QED
    BY <1>3, <1>10, <2>3 DEF MonitorInv
<1>23. ASSUME NEW q \in Clearing', q.sid \notin early' PROVE q \notin open'
  <2>1. q \in Clearing /\ q \in Unheard /\ q.sid \notin early
    BY <1>3, <1>9, <1>23 DEF Unheard
  <2> QED
    BY <1>7, <1>11, <2>1 DEF MonitorInv
<1>24. ASSUME NEW q \in open', q.sid \notin early'
       PROVE  q.sid \in DOMAIN monitors' /\ monitors'[q.sid].track = q
  <2>1. CASE q = r
    BY <1>6, <1>19, <1>20, <2>1
  <2>2. CASE q # r
    <3>1. q \in open /\ q \in Unheard /\ q.sid \notin early
      BY <1>3, <1>7, <1>24, <2>2 DEF Unheard
    <3>2. q.sid \in DOMAIN monitors /\ monitors[q.sid].track = q /\ q.sid # r.sid
      BY <1>11, <3>1 DEF MonitorInv
    <3> QED
      BY <1>19, <3>2
  <2> QED
    BY <2>1, <2>2
<1>25. ASSUME NEW s \in removable'
       PROVE  s \in 1..asked' /\ Asks(s)' = {} /\ \A q \in open' : q.sid = s => s \in early'
  <2>1. s \in 1..asked /\ Asks(s) = {} /\ \A q \in open : q.sid = s => s \in early
    BY <1>3, <1>25 DEF MonitorInv
  <2>2. s # r.sid
    BY <1>5, <2>1 DEF Asks
  <2> QED
    BY <1>3, <1>7, <1>17, <2>1, <2>2
<1>26. \A q, p \in Requests' : q.sid = p.sid <=> q.cid = p.cid
  BY <1>16 DEF MonitorInv
<1>27. (\A q \in Unheard' : q.sid \in 1..asked') /\ DOMAIN monitors' \subseteq 1..asked'
       /\ (\A q \in Requests' : q.sid \in DOMAIN monitors')
  BY <1>3, <1>6, <1>10, <1>16, <1>19 DEF MonitorInv
<1> QED
  BY <1>9, <1>21, <1>22, <1>23, <1>24, <1>25, <1>26, <1>27 DEF MonitorInv

LEMMA MonitorsStart == PublishingInit => MonitorInv
<1> SUFFICES ASSUME PublishingInit PROVE MonitorInv
  OBVIOUS
<1>1. ToDo = {} /\ Requests = {} /\ Going = {}
  BY DEF PublishingInit, ToDo, Requests, Going
<1>2. Clearing = {} /\ Unheard = {}
  BY <1>1 DEF PublishingInit, Clearing, Unheard
<1>3. DOMAIN monitors = {} /\ open = {} /\ removable = {}
  BY DEF PublishingInit
<1> QED
  BY <1>1, <1>2, <1>3 DEF MonitorInv

LEMMA MonitorsStep ==
  PublishingInv /\ MonitorInv /\ [PublishingNext]_publishingVars => MonitorInv'
<1> SUFFICES ASSUME PublishingInv, MonitorInv, [PublishingNext]_publishingVars PROVE MonitorInv'
  OBVIOUS
<1>1. ASSUME NEW c \in Cids, AddTrack(c) PROVE MonitorInv'
  BY <1>1, AddKeepsMonitors
<1>2. ASSUME NEW c \in Cids, NEW t \in Threads, MediaArrives(t, c) PROVE MonitorInv'
  BY <1>2, SilentSteps
<1>3. CASE HandleOffer
  BY <1>3, SilentSteps, PublishingThreads
<1>4. ASSUME NEW t \in Threads,
             \/ \E r \in open : ReceiverCloses(t, r)
             \/ SetPermission(t) \/ Tell(t) \/ TakeWaiting(t) \/ LookFindsTrack(t) \/ LookWaits(t)
             \/ Hook(t) \/ Check(t) \/ Unlist(t)
      PROVE  MonitorInv'
  BY <1>4, SilentSteps
<1>5. ASSUME NEW t \in Threads, LookPublishes(t) \/ Close(t) \/ Clear(t) \/ Unqueue(t)
      PROVE  MonitorInv'
  BY <1>5, PublishKeepsMonitors, CloseKeepsMonitors, ClearKeepsMonitors, UnqueueKeepsMonitors
<1>6. CASE FindIdle \/ DeleteIdle
  BY <1>6, IdleKeepsMonitors
<1>7. CASE UNCHANGED publishingVars
  BY <1>7, MonitorsStay DEF publishingVars, tracks, bounds
<1> QED
  BY <1>1, <1>2, <1>3, <1>4, <1>5, <1>6, <1>7 DEF PublishingNext

\* Publishing (AddTrack, addMediaTrack, checkPublications and the callbacks of
\* MediaTrackReceiver.Close), for any tracks and goroutines: the supervisor expects of an
\* id what was asked of it and has not happened, knows of the track that is open and of
\* none that is over, and deletes no monitor under a publication, except for ids of
\* which a request went on early.
THEOREM MonitorsAgree == PublishingSpec => []MonitorsMatch
<1>1. PublishingInv /\ MonitorInv => MonitorsMatch
  <2> SUFFICES ASSUME PublishingInv, MonitorInv PROVE MonitorsMatch
    OBVIOUS
  <2>1. ASSUME NEW s \in DOMAIN monitors, s \notin early
        PROVE  /\ Expected(s) = Cardinality({r \in Requests : r.sid = s})
               /\ monitors[s].track # NoTrack =>
                    \/ monitors[s].track \in open \cup missed
                    \/ OfTrack("clear", monitors[s].track) \in ToDo
    <3>1. PICK k \in Nat :
            /\ AwaitsStarts(monitors[s], k)
            /\ k = Cardinality(Asks(s)) /\ (monitors[s].track # NoTrack => monitors[s].track \in Unheard)
      BY <2>1 DEF MonitorInv, MonitorOf
    <3>2. Expected(s) = Cardinality({r \in Requests : r.sid = s})
      BY <3>1, MonitorExpects DEF Expected, Starts, Asks
    <3>3. ASSUME NEW r \in Clearing PROVE OfTrack("clear", r) \in ToDo
      BY <3>3 DEF Clearing, MonitorInv
    <3> QED
      BY <3>1, <3>2, <3>3 DEF Unheard
  <2>2. /\ \A r \in open : r.sid \in early \/ (r.sid \in DOMAIN monitors /\ monitors[r.sid].track = r)
        /\ \A r \in Requests : r.sid \in DOMAIN monitors
    BY DEF MonitorInv
  <2> QED
    BY <2>1, <2>2 DEF MonitorsMatch
<1> QED
  BY <1>1, PublishingInvariant, MonitorsStart, MonitorsStep, PTL DEF PublishingSpec

----------------------------------------------------------------------------
(***************************************************************************)
(* Forwarding, for any feeds, packets, bursts and sizes. First the maps of *)
(* RangeMap: ordered ones give later keys later numbers, and each          *)
(* operation keeps the keys up to where it changes the map, but for the    *)
(* oldest it forgets (Follows). Then MungerInv: the numbers of the packets *)
(* that have not come are free, and every packet that got a number still   *)
(* has it in the map.                                                      *)
(***************************************************************************)
\* A map whose ranges are in order, and so are the numbers they stand for.
Ordered(R) ==
  /\ R \in Seq(SnRange) /\ R # <<>>
  /\ \A i \in Closed(R) : R[i].start <= R[i].end
  /\ \A i, j \in 1..Len(R) :
       i < j => /\ R[i].end < R[j].start
                /\ R[i].end - R[i].value < R[j].start - R[j].value

\* The number of a key, and of the first key.
Number(R, key) == key - ValueAt(R, key)
First(R) == R[1].start - R[1].value

\* P comes after R: it has forgotten keys, but those up to top it has are as they were.
Follows(P, R, top) ==
  /\ P[1].start >= R[1].start /\ First(P) >= First(R)
  /\ \A k \in Nat :
       k <= top =>
         /\ Has(P, k) => Has(R, k) /\ ValueAt(P, k) = ValueAt(R, k)
         /\ Has(R, k) => Has(P, k) \/ (k < P[1].start /\ Number(R, k) < First(P))

\* Ordered maps are well typed.
LEMMA OrderedTypes ==
  ASSUME NEW R, Ordered(R)
  PROVE  /\ Len(R) \in Nat \ {0}
         /\ \A i \in 1..Len(R) : R[i] \in SnRange /\ R[i].start \in Nat /\ R[i].end \in Int /\ R[i].value \in Int
         /\ OpenRange(R).start \in Nat /\ OpenRange(R).value \in Int
<1>1. R \in Seq(SnRange) /\ R # <<>>
  BY DEF Ordered
<1>2. Len(R) \in Nat \ {0} /\ \A i \in 1..Len(R) : R[i] \in SnRange
  BY <1>1
<1>3. \A i \in 1..Len(R) : R[i].start \in Nat /\ R[i].end \in Int /\ R[i].value \in Int
  BY <1>2 DEF SnRange
<1> QED
  BY <1>2, <1>3 DEF OpenRange

\* The open range gives its value to the keys from its start on,
LEMMA InOpen ==
  ASSUME NEW R, Ordered(R), NEW k \in Int, k >= OpenRange(R).start
  PROVE  Has(R, k) /\ ValueAt(R, k) = OpenRange(R).value
BY DEF Has, ValueAt

\* a closed one to those in it.
LEMMA InClosed ==
  ASSUME NEW R, Ordered(R), NEW k \in Int, NEW i \in Closed(R), k \in R[i].start..R[i].end
  PROVE  Has(R, k) /\ ValueAt(R, k) = R[i].value /\ k < OpenRange(R).start
<1>1. i \in 1..Len(R) /\ Len(R) \in 1..Len(R) /\ i < Len(R)
  BY OrderedTypes DEF Closed
<1>2. k < OpenRange(R).start
  <2>1. R[i].end < R[Len(R)].start
    BY <1>1 DEF Ordered
  <2>2. R[i].start \in Nat /\ R[i].end \in Int /\ R[Len(R)].start \in Nat
    BY <1>1, OrderedTypes
  <2> QED
    BY <2>1, <2>2 DEF OpenRange
<1>3. \A j \in Closed(R) : k \in R[j].start..R[j].end => j = i
  <2> SUFFICES ASSUME NEW j \in Closed(R), k \in R[j].start..R[j].end, j # i PROVE FALSE
    OBVIOUS
  <2>1. j \in 1..Len(R) /\ (i < j \/ j < i)
    BY OrderedTypes DEF Closed
  <2> QED
    BY SMTT(30), <2>1, <1>1, OrderedTypes DEF Ordered
<1> QED
  BY <1>2, <1>3, OrderedTypes DEF Has, ValueAt

\* A key that a map has is in one of its ranges.
LEMMA Found ==
  ASSUME NEW R, Ordered(R), NEW k \in Int, Has(R, k)
  PROVE  \E i \in 1..Len(R) :
           /\ ValueAt(R, k) = R[i].value /\ R[i].start <= k
           /\ i < Len(R) => k <= R[i].end
<1>1. CASE k >= OpenRange(R).start
  BY <1>1, OrderedTypes DEF ValueAt, OpenRange
<1>2. CASE ~(k >= OpenRange(R).start)
  <2>1. PICK i \in Closed(R) : k \in R[i].start..R[i].end
    BY <1>2 DEF Has
  <2> QED
    BY <2>1, InClosed, OrderedTypes DEF Closed
<1> QED
  BY <1>1, <1>2

\* Later keys have later numbers.
LEMMA Monotone ==
  ASSUME NEW R, Ordered(R), NEW j \in Int, NEW k \in Int, j < k, Has(R, j), Has(R, k)
  PROVE  Number(R, j) < Number(R, k)
<1>1. PICK p \in 1..Len(R) : /\ ValueAt(R, j) = R[p].value /\ R[p].start <= j
                             /\ p < Len(R) => j <= R[p].end
  BY Found
<1>2. PICK q \in 1..Len(R) : /\ ValueAt(R, k) = R[q].value /\ R[q].start <= k
                             /\ q < Len(R) => k <= R[q].end
  BY Found
<1>3. p <= q
  BY <1>1, <1>2, OrderedTypes DEF Ordered
<1>4. CASE p = q
  BY <1>1, <1>2, <1>4, OrderedTypes DEF Number
<1>5. CASE p < q
  <2>1. j <= R[p].end /\ R[p].end - R[p].value < R[q].start - R[q].value
    BY <1>1, <1>5, OrderedTypes DEF Ordered
  <2>2. R[p].end \in Int /\ R[p].value \in Int /\ R[q].start \in Int /\ R[q].value \in Int
    BY OrderedTypes
  <2> QED
    BY SMTT(30), <1>1, <1>2, <2>1, <2>2 DEF Number
<1> QED
  BY <1>3, <1>4, <1>5, OrderedTypes

\* No key has a number below that of the first key.
LEMMA FirstIsFirst ==
  ASSUME NEW R, Ordered(R), NEW k \in Int, Has(R, k)
  PROVE  /\ R[1].start <= k /\ First(R) <= Number(R, k)
         /\ Has(R, R[1].start) /\ Number(R, R[1].start) = First(R)
<1>1. PICK p \in 1..Len(R) : /\ ValueAt(R, k) = R[p].value /\ R[p].start <= k
                             /\ p < Len(R) => k <= R[p].end
  BY Found
<1>2. R[1].start <= k /\ First(R) <= Number(R, k)
  <2>1. 1 \in 1..Len(R) /\ R[1].start \in Nat /\ R[1].value \in Int
        /\ R[1].end \in Int /\ R[p].start \in Nat /\ R[p].value \in Int
    BY OrderedTypes
  <2>2. CASE p = 1
    BY <1>1, <2>1, <2>2 DEF First, Number
  <2>3. CASE p # 1
    <3>1. R[1].start <= R[1].end
      BY <2>3, OrderedTypes DEF Ordered, Closed
    <3>2. R[1].end < R[p].start /\ R[1].end - R[1].value < R[p].start - R[p].value
      BY SMTT(30), <2>1, <2>3 DEF Ordered
    <3>3. R[1].start <= R[p].start /\ First(R) <= R[p].start - R[p].value
      BY SMTT(30), <2>1, <3>1, <3>2 DEF First
    <3>4. R[p].start - R[p].value <= Number(R, k) /\ First(R) \in Int
      BY <1>1, <2>1 DEF Number, First
    <3> QED
      BY <1>1, <2>1, <3>3, <3>4 DEF Number
  <2> QED
    BY <2>2, <2>3
<1>3. Has(R, R[1].start) /\ ValueAt(R, R[1].start) = R[1].value
  <2>1. CASE Len(R) = 1
    BY <2>1, InOpen, OrderedTypes DEF OpenRange
  <2>2. CASE Len(R) > 1
    <3>1. 1 \in Closed(R) /\ R[1].start \in R[1].start..R[1].end
      BY <2>2, OrderedTypes DEF Closed, Ordered
    <3> QED
      BY <3>1, InClosed, OrderedTypes
  <2>3. Len(R) = 1 \/ Len(R) > 1
    <3>1. Len(R) \in Nat \ {0}
      BY OrderedTypes, Zenon
    <3> QED
      BY <3>1
  <2> QED
    BY <2>1, <2>2, <2>3
<1> QED
  BY <1>2, <1>3 DEF First, Number

\* Following is transitive.
LEMMA FollowsOn ==
  ASSUME NEW R, NEW Q, NEW P, Ordered(R), Ordered(Q), Ordered(P), NEW top \in Int,
         Follows(Q, R, top), Follows(P, Q, top)
  PROVE  Follows(P, R, top)
<1>1. /\ Q[1].start >= R[1].start /\ First(Q) >= First(R)
      /\ P[1].start >= Q[1].start /\ First(P) >= First(Q)
  BY DEF Follows
<1>2. /\ R[1].start \in Nat /\ Q[1].start \in Nat /\ P[1].start \in Nat
      /\ First(R) \in Int /\ First(Q) \in Int /\ First(P) \in Int
  BY SMTT(30), OrderedTypes DEF First
<1>3. ASSUME NEW k \in Nat, k <= top
      PROVE  /\ Has(P, k) => Has(R, k) /\ ValueAt(P, k) = ValueAt(R, k)
             /\ Has(R, k) => Has(P, k) \/ (k < P[1].start /\ Number(R, k) < First(P))
  <2>1. Has(P, k) => Has(R, k) /\ ValueAt(P, k) = ValueAt(R, k)
    BY <1>3 DEF Follows
  <2>2. CASE Has(R, k) /\ Has(Q, k)
    <3>1. Number(Q, k) = Number(R, k)
      BY <1>3, <2>2 DEF Follows, Number
    <3> QED
      BY <1>3, <2>1, <2>2, <3>1 DEF Follows
  <2>3. CASE Has(R, k) /\ ~Has(Q, k)
    <3>1. k < Q[1].start /\ Number(R, k) < First(Q)
      BY <1>3, <2>3 DEF Follows
    <3>2. Number(R, k) \in Int
      <4>1. ValueAt(R, k) \in Int
        BY SMTT(30), <2>3, Found, OrderedTypes
      <4> QED
        BY <4>1 DEF Number
    <3> QED
      BY <1>1, <1>2, <2>1, <3>1, <3>2
  <2> QED
    BY <2>1, <2>2, <2>3
<1> QED
  BY <1>1, <1>2, <1>3 DEF Follows

\* Pruning forgets the oldest ranges.
LEMMA PruneFollows ==
  ASSUME NEW R, Ordered(R), NEW size \in Nat, NEW top \in Int
  PROVE  /\ Ordered(Prune(R, size)) /\ OpenRange(Prune(R, size)) = OpenRange(R)
         /\ Follows(Prune(R, size), R, top)
<1> DEFINE P == Prune(R, size)
           d == Len(R) - size - 1
<1>0. Len(R) \in Nat \ {0} /\ R \in Seq(SnRange)
  BY OrderedTypes DEF Ordered
<1>1. CASE Len(R) <= size + 1
  <2>1. P = R
    BY <1>0, <1>1 DEF Prune
  <2>2. First(R) \in Int /\ R[1].start \in Nat
    BY <1>0, OrderedTypes DEF First
  <2> QED
    BY <2>1, <2>2 DEF Follows
<1>2. CASE Len(R) > size + 1
  <2>1. d \in Nat \ {0} /\ P = SubSeq(R, d + 1, Len(R))
    BY <1>0, <1>2 DEF Prune
  <2>2. Len(P) = size + 1 /\ P \in Seq(SnRange)
    BY <1>0, <2>1, SubSeqProperties
  <2>3. \A i \in 1..Len(P) : P[i] = R[i + d] /\ i + d \in 1..Len(R)
    BY <1>0, <2>1, <2>2, SubSeqProperties
  <2>4. OpenRange(P) = OpenRange(R)
    BY <1>0, <2>1, <2>2, <2>3 DEF OpenRange
  <2>5. Ordered(P)
    <3>1. \A i \in Closed(P) : P[i].start <= P[i].end
      <4> SUFFICES ASSUME NEW i \in Closed(P) PROVE P[i].start <= P[i].end
        OBVIOUS
      <4>1. i \in 1..Len(P) /\ i + d \in Closed(R)
        BY <1>0, <2>1, <2>2 DEF Closed
      <4> QED
        BY <2>3, <4>1 DEF Ordered
    <3>2. ASSUME NEW i \in 1..Len(P), NEW j \in 1..Len(P), i < j
          PROVE  /\ P[i].end < P[j].start
                 /\ P[i].end - P[i].value < P[j].start - P[j].value
      <4>1. i + d \in 1..Len(R) /\ j + d \in 1..Len(R) /\ i + d < j + d
        BY <2>1, <2>2, <2>3, <3>2
      <4> QED
        BY <2>3, <4>1 DEF Ordered
    <3> QED
      BY <2>2, <3>1, <3>2 DEF Ordered
  <2>6. P[1] = R[d + 1] /\ d + 1 \in 1..Len(R) /\ 1 \in 1..Len(R)
    BY <1>0, <2>1, <2>2, <2>3
  <2>7. Has(R, P[1].start) /\ ValueAt(R, P[1].start) = P[1].value
    <3>1. CASE size = 0
      BY <2>2, <2>4, <3>1, InOpen, OrderedTypes, <2>5 DEF OpenRange
    <3>2. CASE size # 0
      <4>1. 1 \in Closed(P) /\ d + 1 \in Closed(R) /\ P[1].start \in R[d + 1].start..R[d + 1].end
        BY SMTT(30), <1>0, <2>1, <2>2, <2>5, <2>6, <3>2, OrderedTypes DEF Closed, Ordered
      <4> QED
        BY <2>5, <2>6, <4>1, InClosed, OrderedTypes
    <3> QED
      BY <3>1, <3>2
  <2>8. P[1].start >= R[1].start /\ First(P) >= First(R)
    <3>1. P[1].start \in Int
      BY <2>6, OrderedTypes
    <3> QED
      BY <2>7, <3>1, FirstIsFirst DEF First, Number
  <2>9. ASSUME NEW k \in Nat
        PROVE  /\ Has(P, k) => Has(R, k) /\ ValueAt(P, k) = ValueAt(R, k)
               /\ Has(R, k) => Has(P, k) \/ (k < P[1].start /\ Number(R, k) < First(P))
    <3>1. CASE k >= OpenRange(R).start
      BY <2>4, <2>5, <3>1, InOpen
    <3>2. CASE ~(k >= OpenRange(R).start) /\ Has(P, k)
      <4>1. PICK i \in Closed(P) : k \in P[i].start..P[i].end
        BY <2>4, <3>2 DEF Has
      <4>2. i + d \in Closed(R) /\ P[i] = R[i + d]
        BY <1>0, <2>1, <2>2, <2>3, <4>1 DEF Closed
      <4> QED
        BY <2>5, <3>2, <4>1, <4>2, InClosed
    <3>3. CASE ~(k >= OpenRange(R).start) /\ Has(R, k) /\ ~Has(P, k)
      <4>1. PICK i \in Closed(R) : k \in R[i].start..R[i].end
        BY <3>3 DEF Has
      <4>2. i <= d
        <5> SUFFICES ASSUME i > d PROVE FALSE
          BY <2>1 DEF Closed
        <5>1. i - d \in Closed(P) /\ P[i - d] = R[i]
          BY <1>0, <2>1, <2>2, <2>3, <4>1 DEF Closed
        <5> QED
          BY <2>5, <3>3, <4>1, <5>1, InClosed
      <4>3. k < P[1].start
        <5>1. i \in 1..Len(R) /\ i < d + 1
          BY <1>0, <2>1, <4>2 DEF Closed
        <5>2. R[i].end < R[d + 1].start
          BY <2>6, <5>1 DEF Ordered
        <5>3. R[i].end \in Int /\ R[d + 1].start \in Int /\ R[i].start \in Int
          BY <2>6, <5>1, OrderedTypes
        <5> QED
          BY <2>6, <4>1, <5>2, <5>3
      <4>4. Number(R, k) < Number(R, P[1].start)
        BY <2>6, <2>7, <3>3, <4>3, OrderedTypes, Monotone
      <4> QED
        BY <2>7, <3>3, <4>3, <4>4 DEF Number, First
    <3> QED
      BY <3>1, <3>2, <3>3
  <2> QED
    BY <2>4, <2>5, <2>8, <2>9 DEF Follows
<1> QED
  BY <1>0, <1>1, <1>2

\* Splitting closes the open range and begins another.
LEMMA SplitFollows ==
  ASSUME NEW R, Ordered(R), NEW size \in Nat, NEW end \in Nat, NEW start \in Nat,
         NEW value \in Int,
         OpenRange(R).start <= end, end < start,
         end - OpenRange(R).value < start - value
  PROVE  LET P == Split(R, size, end, start, value) IN
         /\ Ordered(P) /\ OpenRange(P).start = start /\ OpenRange(P).value = value
         /\ Follows(P, R, end)
         /\ \A k \in end + 1..start - 1 : ~Has(P, k)
<1> DEFINE L == Len(R)
           C == [R EXCEPT ![L].end = end]
           new == [start |-> start, end |-> 0, value |-> value]
           Q == Append(C, new)
<1>0. L \in Nat \ {0} /\ R \in Seq(SnRange)
  BY OrderedTypes DEF Ordered
<1>1. /\ C \in Seq(SnRange) /\ Len(C) = L
      /\ \A i \in 1..L : C[i].start = R[i].start /\ C[i].value = R[i].value
      /\ \A i \in 1..L : i < L => C[i] = R[i]
      /\ C[L].end = end
  <2>1. R \in [1..L -> SnRange] /\ L \in 1..L
    BY <1>0
  <2>2. R[L] = [start |-> R[L].start, end |-> R[L].end, value |-> R[L].value]
        /\ R[L].start \in Nat /\ R[L].value \in Int
    BY <2>1 DEF SnRange
  <2> DEFINE r == [start |-> R[L].start, end |-> end, value |-> R[L].value]
  <2>3. C = [R EXCEPT ![L] = r] /\ r \in SnRange
    <3>1. r \in SnRange
      BY <2>2 DEF SnRange
    <3>2. R[L] \in [start : Nat, end : Int, value : Int]
      BY <2>1 DEF SnRange
    <3>3. [R[L] EXCEPT !.end = end] = r
      BY <3>2
    <3>4. C = [R EXCEPT ![L] = [R[L] EXCEPT !.end = end]]
      OBVIOUS
    <3> QED
      BY <3>1, <3>3, <3>4
  <2>4. C \in [1..L -> SnRange]
    BY <2>1, <2>3
  <2>5. C[L] = r /\ \A i \in 1..L : i < L => C[i] = R[i]
    BY <2>1, <2>3
  <2>6. C \in Seq(SnRange) /\ Len(C) = L
    BY <1>0, <2>4
  <2> HIDE DEF C
  <2>7. C[L].start = R[L].start /\ C[L].value = R[L].value /\ C[L].end = end
    BY <2>5
  <2>8. \A i \in 1..L : C[i].start = R[i].start /\ C[i].value = R[i].value
    <3> TAKE i \in 1..L
    <3>1. CASE i = L
      BY <2>7, <3>1
    <3>2. CASE i # L
      BY <1>0, <2>5, <3>2
    <3> QED
      BY <3>1, <3>2
  <2> QED
    BY <2>5, <2>6, <2>7, <2>8
<1>2. new \in SnRange
  BY DEF SnRange
<1>3. /\ Q \in Seq(SnRange) /\ Len(Q) = L + 1 /\ Q[L + 1] = new
      /\ \A i \in 1..L : Q[i] = C[i]
  <2> HIDE DEF C
  <2> QED
    BY <1>0, <1>1, <1>2, AppendProperties
<1> HIDE DEF C, Q
<1>4. /\ \A i \in 1..L : Q[i].start = R[i].start /\ Q[i].value = R[i].value
      /\ \A i \in 1..L : i < L => Q[i] = R[i]
      /\ Q[L].end = end
  <2>1. L \in 1..L
    BY <1>0
  <2> QED
    BY <1>1, <1>3, <2>1
<1>5. OpenRange(Q) = new /\ Closed(Q) = 1..L
  BY <1>0, <1>3 DEF OpenRange, Closed
<1>6. R[L].start <= end /\ end - R[L].value < start - value
  BY DEF OpenRange
<1>7. Ordered(Q)
  <2>1. ASSUME NEW i \in Closed(Q) PROVE Q[i].start <= Q[i].end
    <3>1. CASE i = L
      BY <1>0, <1>4, <1>6, <3>1
    <3>2. CASE i # L
      BY SMTT(30), <1>0, <1>4, <1>5, <3>2 DEF Ordered, Closed
    <3> QED
      BY <3>1, <3>2
  <2>2. ASSUME NEW i \in 1..Len(Q), NEW j \in 1..Len(Q), i < j
        PROVE  /\ Q[i].end < Q[j].start
               /\ Q[i].end - Q[i].value < Q[j].start - Q[j].value
    <3>1. i \in 1..L
      BY <1>0, <1>3, <2>2
    <3>2. CASE j \in 1..L
      BY <1>0, <1>4, <2>2, <3>1, <3>2 DEF Ordered
    <3>3. CASE j = L + 1 /\ i = L
      BY <1>0, <1>3, <1>4, <1>6, <3>3
    <3>4. CASE j = L + 1 /\ i # L
      <4>1. i < L /\ L \in 1..L
        BY <1>0, <3>1, <3>4
      <4>2. R[i].end < R[L].start /\ R[i].end - R[i].value < R[L].start - R[L].value
        BY <3>1, <4>1 DEF Ordered
      <4>3. /\ R[i].end \in Int /\ R[i].value \in Int
            /\ R[L].start \in Int /\ R[L].value \in Int
        BY <3>1, <4>1, OrderedTypes
      <4>4. Q[i].end = R[i].end /\ Q[i].value = R[i].value /\ Q[j].start = start /\ Q[j].value = value
        BY <1>3, <1>4, <3>1, <3>4, <4>1
      <4> QED
        <5>1. R[i].end < start /\ R[i].end - R[i].value < start - value
          BY SMTT(30), <1>6, <4>2, <4>3
        <5> QED
          BY <4>4, <5>1
    <3> QED
      BY <1>0, <1>3, <3>2, <3>3, <3>4
  <2> QED
    BY <1>3, <2>1, <2>2 DEF Ordered
<1>8. Follows(Q, R, end)
  <2>1. Q[1].start = R[1].start /\ First(Q) = First(R) /\ R[1].start \in Nat /\ First(R) \in Int
    BY <1>0, <1>4, OrderedTypes DEF First
  <2>2. ASSUME NEW k \in Nat, k <= end
        PROVE  /\ Has(Q, k) => Has(R, k) /\ ValueAt(Q, k) = ValueAt(R, k)
               /\ Has(R, k) => Has(Q, k)
    <3>1. CASE k >= OpenRange(R).start
      <4>1. L \in Closed(Q) /\ k \in Q[L].start..Q[L].end /\ Q[L].value = OpenRange(R).value
        BY SMTT(30), <1>0, <1>4, <1>5, <2>2, <3>1, OrderedTypes DEF OpenRange
      <4> QED
        BY <1>7, <3>1, <4>1, InClosed, InOpen
    <3>2. CASE ~(k >= OpenRange(R).start) /\ Has(Q, k)
      <4>1. PICK i \in Closed(Q) : k \in Q[i].start..Q[i].end
        BY <1>2, <1>5, <2>2, <3>2 DEF Has
      <4>2. i # L
        BY <1>0, <1>4, <3>2, <4>1, OrderedTypes DEF OpenRange
      <4>3. i \in Closed(R) /\ Q[i] = R[i]
        BY <1>0, <1>4, <1>5, <4>2 DEF Closed
      <4> QED
        BY <1>7, <3>2, <4>1, <4>3, InClosed
    <3>3. CASE ~(k >= OpenRange(R).start) /\ Has(R, k)
      <4>1. PICK i \in Closed(R) : k \in R[i].start..R[i].end
        BY <3>3 DEF Has
      <4>2. i \in Closed(Q) /\ Q[i] = R[i]
        BY <1>0, <1>4, <1>5 DEF Closed
      <4> QED
        BY <1>7, <3>3, <4>1, <4>2, InClosed
    <3> QED
      BY <3>1, <3>2, <3>3
  <2> QED
    BY <2>1, <2>2 DEF Follows
<1>9. \A k \in end + 1..start - 1 : ~Has(Q, k)
  <2> SUFFICES ASSUME NEW k \in end + 1..start - 1, Has(Q, k) PROVE FALSE
    OBVIOUS
  <2>1. PICK i \in Closed(Q) : k \in Q[i].start..Q[i].end
    BY <1>5 DEF Has
  <2>2. CASE i = L
    BY <1>0, <1>4, <2>1, <2>2
  <2>3. CASE i # L
    <3>1. i \in 1..L /\ i < L /\ L \in 1..L
      BY <1>0, <1>5, <2>3
    <3>2. Q[i].end < R[L].start
      BY <1>4, <3>1 DEF Ordered
    <3>3. Q[i].end \in Int /\ R[L].start \in Int /\ Q[i].start \in Int
      <4>1. Q[i] = R[i]
        BY <1>4, <3>1
      <4>2. R[i].end \in Int /\ R[i].start \in Nat /\ R[L].start \in Nat
        BY <3>1, OrderedTypes
      <4> QED
        BY <4>1, <4>2
    <3> QED
      BY <1>6, <2>1, <3>2, <3>3
  <2> QED
    BY <2>2, <2>3
<1>10. Split(R, size, end, start, value) = Prune(Q, size)
  BY DEF Split, Q, C
<1> DEFINE P == Prune(Q, size)
<1>11. Ordered(P) /\ OpenRange(P) = new /\ Follows(P, Q, end) /\ Follows(P, Q, start)
  BY <1>5, <1>7, PruneFollows
<1> HIDE DEF P
<1>12. Follows(P, R, end)
  BY <1>7, <1>8, <1>11, FollowsOn
<1>13. \A k \in end + 1..start - 1 : ~Has(P, k)
  BY <1>9, <1>11 DEF Follows
<1> QED
  BY <1>10, <1>11, <1>12, <1>13 DEF P

\* What ExcludeRange and DecValue do with the keys after the open range's start.
LEMMA ExcludeFollows ==
  ASSUME NEW R, Ordered(R), NEW size \in Nat, NEW from \in Nat, NEW to \in Nat,
         OpenRange(R).start <= from, from <= to
  PROVE  LET P == ExcludeRange(R, size, from, to) IN
         /\ Ordered(P) /\ OpenRange(P).start = to + 1
         /\ OpenRange(P).value = OpenRange(R).value + (to - from + 1)
         /\ Follows(P, R, from - 1)
         /\ \A k \in from..to : ~Has(P, k)
<1> DEFINE value == OpenRange(R).value + (to - from + 1)
           L == Len(R)
<1>0. L \in Nat \ {0} /\ OpenRange(R).start \in Nat /\ value \in Int
  BY OrderedTypes
<1>1. CASE OpenRange(R).start < from
  <2> DEFINE e == from - 1
             s == to + 1
  <2>1. ExcludeRange(R, size, from, to) = Split(R, size, e, s, value)
    BY <1>0, <1>1 DEF ExcludeRange
  <2>2. /\ e \in Nat /\ s \in Nat /\ OpenRange(R).start <= e /\ e < s
        /\ e - OpenRange(R).value < s - value
    BY SMTT(30), <1>0, <1>1, OrderedTypes
  <2>3. e + 1 = from /\ s - 1 = to
    OBVIOUS
  <2> HIDE DEF e, s, value
  <2>4. LET P == Split(R, size, e, s, value) IN
        /\ Ordered(P) /\ OpenRange(P).start = s /\ OpenRange(P).value = value
        /\ Follows(P, R, e)
        /\ \A k \in e + 1..s - 1 : ~Has(P, k)
    BY <1>0, <2>2, SplitFollows
  <2> QED
    BY <2>1, <2>3, <2>4 DEF e, s, value
<1>2. CASE OpenRange(R).start = from
  <2> DEFINE new == [start |-> to + 1, end |-> 0, value |-> value]
             P == [R EXCEPT ![L] = new]
  <2>1. ExcludeRange(R, size, from, to) = P
    BY <1>0, <1>2 DEF ExcludeRange
  <2>2. R \in [1..L -> SnRange] /\ L \in 1..L /\ new \in SnRange
    <3>1. new \in SnRange
      BY <1>0 DEF SnRange
    <3>2. R \in Seq(SnRange)
      BY DEF Ordered
    <3> QED
      BY <1>0, <3>1, <3>2
  <2>3. P \in Seq(SnRange) /\ Len(P) = L
    BY <1>0, <2>2
  <2>4. P[L] = new /\ \A i \in 1..L : i < L => P[i] = R[i]
    <3> HIDE DEF new
    <3> QED
      BY <1>0, <2>2
  <2> HIDE DEF P
  <2>5. OpenRange(P) = new /\ Closed(P) = Closed(R)
    BY <2>3, <2>4 DEF OpenRange, Closed
  <2>6. R[L].start = from /\ R[L].value \in Int
    BY <1>2, <2>2, OrderedTypes DEF OpenRange
  <2>7. Ordered(P)
    <3>1. \A i \in Closed(P) : P[i].start <= P[i].end
      BY <1>0, <2>4, <2>5 DEF Ordered, Closed
    <3>2. ASSUME NEW i \in 1..Len(P), NEW j \in 1..Len(P), i < j
          PROVE  /\ P[i].end < P[j].start
                 /\ P[i].end - P[i].value < P[j].start - P[j].value
      <4>1. i \in 1..L /\ j \in 1..L /\ P[i] = R[i]
        BY <1>0, <2>3, <2>4, <3>2
      <4>2. R[i].end < R[j].start /\ R[i].end - R[i].value < R[j].start - R[j].value
        BY <3>2, <4>1 DEF Ordered
      <4>3. CASE j < L
        BY <2>4, <4>1, <4>2, <4>3
      <4>4. CASE j = L
        <5>1. R[i].end \in Int /\ R[i].value \in Int /\ OpenRange(R).value = R[L].value
          BY <4>1, OrderedTypes DEF OpenRange
        <5>2. R[i].end < to + 1 /\ R[i].end - R[i].value < (to + 1) - value
          BY SMTT(30), <2>6, <4>2, <4>4, <5>1
        <5> QED
          BY <2>4, <4>1, <4>4, <5>2
      <4> QED
        BY <1>0, <4>1, <4>3, <4>4
    <3> QED
      BY <2>3, <3>1, <3>2 DEF Ordered
  <2>8. P[1].start >= R[1].start /\ First(P) >= First(R)
    <3>1. CASE L = 1
      BY <2>4, <2>6, <3>1 DEF First, OpenRange
    <3>2. CASE L # 1
      <4>1. 1 \in 1..L /\ P[1] = R[1]
        <5>1. 1 \in 1..L /\ 1 < L
          <6> HIDE DEF L
          <6> QED
            BY <1>0, <3>2
        <5> QED
          BY <2>4, <5>1
      <4>2. R[1].start \in Int /\ R[1].value \in Int
        BY <4>1, OrderedTypes
      <4> QED
        BY <4>1, <4>2 DEF First
    <3> QED
      BY <3>1, <3>2
  <2>9. ASSUME NEW k \in Nat, k <= from - 1
        PROVE  /\ Has(P, k) => Has(R, k) /\ ValueAt(P, k) = ValueAt(R, k)
               /\ Has(R, k) => Has(P, k)
    <3>1. \A i \in Closed(P) : P[i] = R[i]
      BY <1>0, <2>4, <2>5 DEF Closed
    <3>2. ~(k >= OpenRange(R).start) /\ ~(k >= OpenRange(P).start)
      BY <1>2, <2>5, <2>9
    <3>3. ASSUME NEW i \in Closed(P), k \in P[i].start..P[i].end
          PROVE  Has(P, k) /\ Has(R, k) /\ ValueAt(P, k) = ValueAt(R, k)
      BY <2>5, <2>7, <3>1, <3>3, InClosed
    <3> QED
      BY <2>5, <3>1, <3>2, <3>3 DEF Has
  <2>10. \A k \in from..to : ~Has(P, k)
    <3> SUFFICES ASSUME NEW k \in from..to, Has(P, k) PROVE FALSE
      OBVIOUS
    <3>1. PICK i \in Closed(P) : k \in P[i].start..P[i].end
      BY <2>5 DEF Has
    <3>2. i \in 1..L /\ i < L /\ P[i] = R[i]
      BY <1>0, <2>4, <2>5, <3>1 DEF Closed
    <3>3. R[i].end < from /\ R[i].end \in Int /\ R[i].start \in Int
      BY SMTT(30), <2>2, <2>6, <3>2, OrderedTypes DEF Ordered
    <3> QED
      BY <3>1, <3>2, <3>3
  <2> QED
    BY <2>1, <2>5, <2>7, <2>8, <2>9, <2>10 DEF Follows
<1> QED
  BY <1>0, <1>1, <1>2

\* DecValue takes from the numbers' offset of later keys and keeps those up to end.
LEMMA DecFollows ==
  ASSUME NEW R, Ordered(R), NEW size \in Nat, NEW end \in Nat, NEW dec \in Nat,
         OpenRange(R).start <= end + 1
  PROVE  LET P == DecValue(R, size, end, dec) IN
         /\ Ordered(P) /\ OpenRange(P).start = end + 1
         /\ OpenRange(P).value = OpenRange(R).value - dec
         /\ Follows(P, R, end)
<1> DEFINE L == Len(R)
           value == OpenRange(R).value - dec
<1>0. L \in Nat \ {0} /\ OpenRange(R).start \in Nat /\ value \in Int
  BY OrderedTypes
<1>1. CASE OpenRange(R).start <= end
  <2> DEFINE s == end + 1
  <2>1. DecValue(R, size, end, dec) = Split(R, size, end, s, value)
    BY <1>0, <1>1 DEF DecValue
  <2>2. s \in Nat /\ end < s /\ end - OpenRange(R).value < s - value
    BY <1>0, OrderedTypes
  <2> HIDE DEF s, value
  <2>3. LET P == Split(R, size, end, s, value) IN
        /\ Ordered(P) /\ OpenRange(P).start = s /\ OpenRange(P).value = value
        /\ Follows(P, R, end)
    BY <1>0, <1>1, <2>2, SplitFollows
  <2> QED
    BY <2>1, <2>3 DEF s, value
<1>2. CASE OpenRange(R).start = end + 1
  <2> DEFINE P == [R EXCEPT ![L].value = @ - dec]
             r == [start |-> R[L].start, end |-> R[L].end, value |-> value]
  <2>1. DecValue(R, size, end, dec) = P
    BY <1>0, <1>2 DEF DecValue
  <2>2. R \in [1..L -> SnRange] /\ L \in 1..L
    BY <1>0 DEF Ordered
  <2>3. P = [R EXCEPT ![L] = r] /\ r \in SnRange
    <3>1. R[L] \in [start : Nat, end : Int, value : Int]
      BY <2>2 DEF SnRange
    <3>2. [R[L] EXCEPT !.value = @ - dec] = r
      BY <3>1 DEF OpenRange
    <3>3. P = [R EXCEPT ![L] = [R[L] EXCEPT !.value = @ - dec]]
      OBVIOUS
    <3>4. r \in SnRange
      BY <1>0, <3>1 DEF SnRange
    <3> QED
      BY <3>2, <3>3, <3>4
  <2>4. P \in Seq(SnRange) /\ Len(P) = L
    BY <1>0, <2>2, <2>3
  <2>5. P[L] = r /\ \A i \in 1..L : i < L => P[i] = R[i]
    BY <2>2, <2>3
  <2> HIDE DEF P
  <2>6. R[L].start = end + 1 /\ R[L].value \in Int /\ R[L].value = OpenRange(R).value
    BY <1>2, <2>2, OrderedTypes DEF OpenRange
  <2>7. OpenRange(P).start = end + 1 /\ OpenRange(P).value = value /\ Closed(P) = Closed(R)
    BY <2>4, <2>5, <2>6 DEF OpenRange, Closed
  <2>8. Ordered(P)
    <3>1. \A i \in Closed(P) : P[i].start <= P[i].end
      BY <1>0, <2>5, <2>7 DEF Ordered, Closed
    <3>2. ASSUME NEW i \in 1..Len(P), NEW j \in 1..Len(P), i < j
          PROVE  /\ P[i].end < P[j].start
                 /\ P[i].end - P[i].value < P[j].start - P[j].value
      <4>1. i \in 1..L /\ j \in 1..L /\ P[i] = R[i]
        BY <1>0, <2>4, <2>5, <3>2
      <4>2. R[i].end < R[j].start /\ R[i].end - R[i].value < R[j].start - R[j].value
        BY <3>2, <4>1 DEF Ordered
      <4>3. CASE j < L
        BY <2>5, <4>1, <4>2, <4>3
      <4>4. CASE j = L
        <5>1. R[i].end \in Int /\ R[i].value \in Int
          BY <4>1, OrderedTypes
        <5>2. P[j].start = R[j].start /\ P[j].value = R[j].value - dec
          BY <2>5, <2>6, <4>4
        <5> QED
          BY SMTT(30), <2>6, <4>1, <4>2, <4>4, <5>1, <5>2
      <4> QED
        BY <1>0, <4>1, <4>3, <4>4
    <3> QED
      BY <2>4, <3>1, <3>2 DEF Ordered
  <2>9. P[1].start >= R[1].start /\ First(P) >= First(R)
    <3>1. CASE L = 1
      BY <2>5, <2>6, <3>1 DEF First, OpenRange
    <3>2. CASE L # 1
      <4>1. 1 \in 1..L /\ P[1] = R[1]
        <5>1. 1 \in 1..L /\ 1 < L
          <6> HIDE DEF L
          <6> QED
            BY <1>0, <3>2
        <5> QED
          BY <2>5, <5>1
      <4>2. R[1].start \in Int /\ R[1].value \in Int
        BY <4>1, OrderedTypes
      <4> QED
        BY <4>1, <4>2 DEF First
    <3> QED
      BY <3>1, <3>2
  <2>10. ASSUME NEW k \in Nat, k <= end
         PROVE  /\ Has(P, k) => Has(R, k) /\ ValueAt(P, k) = ValueAt(R, k)
                /\ Has(R, k) => Has(P, k)
    <3>1. \A i \in Closed(P) : P[i] = R[i]
      BY <1>0, <2>5, <2>7 DEF Closed
    <3>2. ~(k >= OpenRange(R).start) /\ ~(k >= OpenRange(P).start)
      BY <1>2, <2>7, <2>10
    <3>3. ASSUME NEW i \in Closed(P), k \in P[i].start..P[i].end
          PROVE  Has(P, k) /\ Has(R, k) /\ ValueAt(P, k) = ValueAt(R, k)
      BY <2>7, <2>8, <3>1, <3>3, InClosed
    <3> QED
      BY <2>7, <3>1, <3>2, <3>3 DEF Has
  <2> QED
    BY <2>1, <2>7, <2>8, <2>9, <2>10 DEF Follows
<1> QED
  BY <1>0, <1>1, <1>2

----------------------------------------------------------------------------
\* While a feed is forwarded, the open range gives the next packet the next number.
NextNumber == last = highest - OpenRange(ranges).value

\* The number of a packet that has not come is not used, that of one that has is, and so
\* is the last.
FreeNumbers ==
  /\ \A sn \in 0..highest :
       Has(ranges, sn) /\ sn \notin got[feed] /\ LateNumber(sn) \in Numbers
       => given[LateNumber(sn)] = Nothing
  /\ \A sn \in got[feed] \ before :
       /\ sn <= highest
       /\ Has(ranges, sn) => LateNumber(sn) \in Numbers /\ given[LateNumber(sn)] # Nothing
  /\ before \subseteq got[feed] /\ highest \in got[feed] \ before
  /\ last \in Numbers /\ given[last] # Nothing

\* A packet that was given a number in this turn has it still, or is older than the
\* ranges, and so is its number.
MediaNumbers ==
  \A n \in Numbers :
    given[n].kind = "media" /\ given[n].turn = turn =>
      LET sn == given[n].sn IN
      /\ sn <= highest
      /\ \/ Has(ranges, sn) /\ LateNumber(sn) = n
         \/ sn < ranges[1].start /\ n < First(ranges)

\* A number that nobody got is that of a packet.
Covered ==
  \A n \in Numbers :
    n >= First(ranges) /\ n <= last /\ given[n] = Nothing
    => \E sn \in ranges[1].start..highest : Has(ranges, sn) /\ LateNumber(sn) = n

\* What the munger knows. Only a forwarded feed has a map that means anything, and before
\* the first packet or padding nothing was given.
MungerInv ==
  /\ InSourceOrder
  /\ Ordered(ranges)
  /\ IF started THEN OpenRange(ranges).start <= highest + 1 ELSE feed = NoFeed
  /\ \A n \in Numbers : ~started \/ n > last => given[n] = Nothing
  /\ \A n \in Numbers : given[n].turn <= turn
  /\ feed # NoFeed => NextNumber /\ FreeNumbers /\ MediaNumbers /\ Covered

\* What a map is after ClearAndResetValue.
LEMMA ResetIs ==
  ASSUME NEW start \in Nat, NEW value \in Int
  PROVE  LET R == Reset(start, value) IN
         /\ Ordered(R) /\ OpenRange(R).start = start /\ OpenRange(R).value = value
         /\ R[1].start = start /\ First(R) = start - value
         /\ \A k \in Int : Has(R, k) <=> k >= start
         /\ \A k \in Int : k >= start => ValueAt(R, k) = value
<1> DEFINE new == [start |-> start, end |-> 0, value |-> value]
           R == <<new>>
<1>1. Reset(start, value) = R /\ new \in SnRange
  BY DEF Reset, SnRange
<1>2. R \in Seq(SnRange) /\ Len(R) = 1 /\ R[1] = new /\ R # <<>>
  BY <1>1
<1> HIDE DEF R
<1>3. OpenRange(R) = new /\ Closed(R) = {}
  BY <1>2 DEF OpenRange, Closed
<1>4. Ordered(R)
  BY <1>2, <1>3 DEF Ordered
<1>5. \A k \in Int : Has(R, k) <=> k >= start
  BY <1>3 DEF Has
<1>6. \A k \in Int : k >= start => ValueAt(R, k) = value
  BY <1>3 DEF ValueAt
<1> QED
  BY <1>1, <1>2, <1>3, <1>4, <1>5, <1>6 DEF First

\* A key that a map has has a number.
LEMMA NumberIsInt ==
  ASSUME NEW R, Ordered(R), NEW k \in Int, Has(R, k)
  PROVE  ValueAt(R, k) \in Int /\ Number(R, k) \in Int
BY Found, OrderedTypes DEF Number

\* The numbers of packets to come follow the last one, those of earlier ones do not.
LEMMA NumbersAhead ==
  ASSUME MungerInv, feed # NoFeed, NEW k \in Nat
  PROVE  /\ highest \in Nat /\ last \in Nat
         /\ k > highest => /\ Has(ranges, k) /\ LateNumber(k) = last + (k - highest)
                           /\ ValueAt(ranges, k) = OpenRange(ranges).value
         /\ k <= highest /\ Has(ranges, k) => LateNumber(k) <= last
<1>1. Ordered(ranges) /\ NextNumber /\ ForwardingTypes /\ OpenRange(ranges).start <= highest + 1
  BY DEF MungerInv, InSourceOrder
<1>2. highest \in Nat /\ last \in Nat /\ OpenRange(ranges).value \in Int /\ OpenRange(ranges).start \in Nat
  BY <1>1, OrderedTypes DEF ForwardingTypes
<1>3. ASSUME NEW j \in Nat, j > highest
      PROVE  /\ Has(ranges, j) /\ LateNumber(j) = last + (j - highest)
             /\ ValueAt(ranges, j) = OpenRange(ranges).value
  <2>1. j >= OpenRange(ranges).start
    BY <1>1, <1>2, <1>3 DEF NextNumber
  <2>2. Has(ranges, j) /\ ValueAt(ranges, j) = OpenRange(ranges).value
    BY <1>1, <2>1, InOpen
  <2> QED
    BY <1>1, <1>2, <2>2 DEF NextNumber, LateNumber
<1>4. ASSUME k <= highest, Has(ranges, k) PROVE LateNumber(k) <= last
  <2>1. Has(ranges, highest + 1) /\ LateNumber(highest + 1) = last + 1
    BY <1>2, <1>3
  <2>2. Number(ranges, k) < Number(ranges, highest + 1)
    BY <1>1, <1>2, <1>4, <2>1, Monotone
  <2>3. Number(ranges, k) \in Int
    BY <1>1, <1>4, NumberIsInt
  <2> QED
    BY <1>2, <2>1, <2>2, <2>3 DEF Number, LateNumber
<1> QED
  BY <1>2, <1>3, <1>4

\* Excluding has the type of a map, whichever map it is.
LEMMA ExcludeTypes ==
  ASSUME NEW R \in Seq(SnRange), R # <<>>, NEW size \in Nat, NEW from \in Nat, NEW to \in Nat
  PROVE  ExcludeRange(R, size, from, to) \in Seq(SnRange) /\ ExcludeRange(R, size, from, to) # <<>>
<1> DEFINE L == Len(R)
           value == OpenRange(R).value + (to - from + 1)
           new == [start |-> to + 1, end |-> 0, value |-> value]
<1>1. L \in Nat \ {0} /\ R \in [1..L -> SnRange] /\ L \in 1..L
  OBVIOUS
<1>2. R[L] \in [start : Nat, end : Int, value : Int]
  BY <1>1 DEF SnRange
<1>3. new \in SnRange
  BY <1>2 DEF OpenRange, SnRange
<1>4. ASSUME NEW Q \in Seq(SnRange), Q # <<>>
      PROVE  Prune(Q, size) \in Seq(SnRange) /\ Prune(Q, size) # <<>>
  <2>1. CASE Len(Q) > size + 1
    <3> DEFINE S == SubSeq(Q, Len(Q) - size, Len(Q))
    <3>1. Prune(Q, size) = S /\ Len(Q) \in Nat
      BY <2>1 DEF Prune
    <3>2. S \in Seq(SnRange) /\ Len(S) = size + 1
      BY <2>1, <3>1, SubSeqProperties
    <3> HIDE DEF S
    <3> QED
      BY <3>1, <3>2
  <2>2. CASE ~(Len(Q) > size + 1)
    BY <1>4, <2>2 DEF Prune
  <2> QED
    BY <2>1, <2>2
<1>5. CASE OpenRange(R).start > from
  BY <1>5 DEF ExcludeRange
<1>6. CASE ~(OpenRange(R).start > from) /\ OpenRange(R).start = from
  <2>1. ExcludeRange(R, size, from, to) = [R EXCEPT ![L] = new]
    BY <1>6 DEF ExcludeRange
  <2> HIDE DEF new
  <2> QED
    BY <1>1, <1>3, <2>1
<1>7. CASE ~(OpenRange(R).start > from) /\ OpenRange(R).start # from
  <2> DEFINE C == [R EXCEPT ![L].end = from - 1]
             r == [start |-> R[L].start, end |-> from - 1, value |-> R[L].value]
  <2>1. C = [R EXCEPT ![L] = r] /\ r \in SnRange
    <3>1. [R[L] EXCEPT !.end = from - 1] = r
      BY <1>2
    <3>2. C = [R EXCEPT ![L] = [R[L] EXCEPT !.end = from - 1]]
      OBVIOUS
    <3>3. r \in SnRange
      BY <1>2 DEF SnRange
    <3> QED
      BY <3>1, <3>2, <3>3
  <2>2. C \in Seq(SnRange)
    <3> HIDE DEF r
    <3> QED
      BY <1>1, <2>1
  <2> HIDE DEF C
  <2>3. Append(C, new) \in Seq(SnRange) /\ Append(C, new) # <<>>
    <3> HIDE DEF new
    <3> QED
      BY <1>3, <2>2, AppendProperties
  <2>4. ExcludeRange(R, size, from, to) = Prune(Append(C, new), size)
    BY <1>7 DEF ExcludeRange, Split, C
  <2> QED
    BY <1>4, <2>3, <2>4
<1> QED
  BY <1>5, <1>6, <1>7

\* What giving a number does to the types.
LEMMA SendTypes ==
  ASSUME ForwardingTypes, NEW f \in Feeds, NEW sn \in Nat, NEW n, NEW t \in Nat, Send(f, sn, n, t)
  PROVE  /\ n \in Numbers /\ n \in Nat
         /\ flight' \in [Feeds -> Packet] /\ given' \in [Numbers -> Contents]
<1>1. n \in Numbers /\ n \in Nat
  BY ForwardingConstants DEF Send, MayGive
<1>2. Media(t, sn) \in Contents /\ [number |-> n, sn |-> sn] \in Packet
  BY <1>1 DEF Media, Contents, Packet
<1> QED
  BY <1>1, <1>2 DEF Send, ForwardingTypes

\* Nor does withholding one break them.
LEMMA WithholdTypes ==
  ASSUME ForwardingTypes, NEW n, Withhold(n)
  PROVE  /\ n \in Numbers /\ n \in Nat
         /\ flight' = flight /\ given' \in [Numbers -> Contents]
<1>1. n \in Numbers /\ n \in Nat
  BY ForwardingConstants DEF Withhold, MayGive
<1>2. Withheld \in Contents
  BY DEF Withheld, Contents
<1> QED
  BY <1>1, <1>2 DEF Withhold, ForwardingTypes

\* Nor does the arrival of a packet.
LEMMA ArrivesTypes ==
  ASSUME ForwardingTypes, NEW f \in Feeds, NEW sn \in Incoming[f], Arrives(f, sn)
  PROVE  sn \in Nat /\ got' \in [Feeds -> SUBSET Nat]
BY ForwardingConstants DEF Arrives, ForwardingTypes

\* Every action keeps the types; of the map, DecValue needs that it is ordered.
LEMMA ForwardingTypesKept ==
  ASSUME MungerInv, ForwardingNext
  PROVE  ForwardingTypes'
<1>0. ForwardingTypes /\ Ordered(ranges)
  BY DEF MungerInv, InSourceOrder
<1>a. ranges \in Seq(SnRange) /\ OpenRange(ranges).start \in Nat /\ OpenRange(ranges).value \in Int
  BY <1>0, OrderedTypes DEF Ordered
<1>1. ASSUME NEW f \in Feeds, NEW sn \in Incoming[f], InOrder(f, sn) PROVE ForwardingTypes'
  <2> DEFINE n == sn - ValueAt(ranges, highest + 1)
  <2>1. Arrives(f, sn) /\ UNCHANGED <<started, feed, ranges, before, padding, seqr, turn>>
        /\ highest' = sn /\ last' = n /\ boundary' = (sn \in FrameEnds[f])
        /\ (Send(f, sn, n, turn) \/ Withhold(n))
    BY <1>1 DEF InOrder
  <2> HIDE DEF n
  <2>2. sn \in Nat /\ got' \in [Feeds -> SUBSET Nat] /\ turn \in Nat
    BY <1>0, <2>1, ArrivesTypes DEF ForwardingTypes
  <2>3. n \in Nat /\ flight' \in [Feeds -> Packet] /\ given' \in [Numbers -> Contents]
    BY <1>0, <2>1, <2>2, SendTypes, WithholdTypes DEF ForwardingTypes
  <2> QED
    BY <1>0, <2>1, <2>2, <2>3 DEF ForwardingTypes
<1>2. ASSUME NEW f \in Feeds, NEW sn \in Incoming[f], Drop(f, sn) PROVE ForwardingTypes'
  <2>1. Arrives(f, sn) /\ ranges' = Exclude(sn) /\ highest' = sn
        /\ UNCHANGED <<started, feed, last, boundary, before, flight, padding, seqr, turn, given>>
    BY <1>2 DEF Drop
  <2>2. sn \in Nat /\ got' \in [Feeds -> SUBSET Nat]
    BY <1>0, <2>1, ArrivesTypes
  <2>3. ranges' \in Seq(SnRange) /\ ranges' # <<>>
    BY <1>0, <1>a, <2>1, <2>2, ExcludeTypes, ForwardingConstants DEF Exclude, ForwardingTypes
  <2> QED
    BY <1>0, <2>1, <2>2, <2>3 DEF ForwardingTypes
<1>3. ASSUME NEW f \in Feeds, NEW sn \in Incoming[f], LatePacket(f, sn) PROVE ForwardingTypes'
  <2>1. Arrives(f, sn) /\ UNCHANGED <<munger, before, padding, seqr, turn>>
        /\ \/ Send(f, sn, LateNumber(sn), turn)
           \/ Withhold(LateNumber(sn))
           \/ UNCHANGED <<flight, given>>
    BY <1>3 DEF LatePacket
  <2>2. sn \in Nat /\ got' \in [Feeds -> SUBSET Nat] /\ turn \in Nat
    BY <1>0, <2>1, ArrivesTypes DEF ForwardingTypes
  <2>3. flight' \in [Feeds -> Packet] /\ given' \in [Numbers -> Contents]
    BY <1>0, <2>1, <2>2, SendTypes, WithholdTypes DEF ForwardingTypes
  <2> QED
    BY <1>0, <2>1, <2>2, <2>3 DEF ForwardingTypes, munger
<1>4. ASSUME NEW f \in Feeds, NEW sn \in Incoming[f], NEW n, SwitchTo(f, sn, n),
             started' = TRUE
      PROVE  ForwardingTypes'
  <2>1. Arrives(f, sn) /\ feed' = f /\ turn' = turn + 1 /\ before' = got[f]
        /\ highest' = sn /\ last' = n /\ boundary' = (sn \in FrameEnds[f])
        /\ ranges' = Reset(sn, sn - n) /\ Send(f, sn, n, turn + 1)
        /\ UNCHANGED <<padding, seqr>>
    BY <1>4 DEF SwitchTo
  <2>2. sn \in Nat /\ got' \in [Feeds -> SUBSET Nat] /\ turn + 1 \in Nat
    BY <1>0, <2>1, ArrivesTypes DEF ForwardingTypes
  <2>3. n \in Nat /\ flight' \in [Feeds -> Packet] /\ given' \in [Numbers -> Contents]
    BY <1>0, <2>1, <2>2, SendTypes
  <2>4. ranges' \in Seq(SnRange) /\ ranges' # <<>>
    <3>1. sn - n \in Int
      BY <2>2, <2>3
    <3>2. Ordered(Reset(sn, sn - n))
      BY <2>2, <3>1, ResetIs
    <3> QED
      BY <2>1, <3>2 DEF Ordered
  <2> QED
    BY <1>0, <1>4, <2>1, <2>2, <2>3, <2>4 DEF ForwardingTypes
<1>5. CASE Resync
  BY <1>0, <1>5 DEF Resync, ForwardingTypes
<1>6. ASSUME NEW num \in 1..MaxBurst, WritePadding(num) PROVE ForwardingTypes'
  <2> DEFINE from == (IF started THEN last ELSE Dummy) + 1
             to == from + num - 1
             top == IF started THEN highest ELSE Dummy - 1
             map == IF started THEN ranges ELSE Reset(Dummy, 0)
  <2>1. /\ padding' = [from |-> from, to |-> to]
        /\ highest' = top /\ last' = to /\ boundary' = TRUE /\ started' = TRUE
        /\ ranges' = DecValue(map, Ranges, top, num)
        /\ given' = [n \in Numbers |-> IF n \in from..to THEN Padding ELSE given[n]]
        /\ UNCHANGED <<feed, got, before, flight, seqr, turn>>
    BY <1>6 DEF WritePadding
  <2>2. from \in Nat /\ to \in Nat /\ top \in Nat /\ num \in Nat
    BY SMTT(30), <1>0, ForwardingConstants DEF ForwardingTypes
  <2>3. ranges' \in Seq(SnRange) /\ ranges' # <<>>
    <3>1. Ordered(map) /\ OpenRange(map).start <= top + 1
      <4>1. CASE started
        BY <1>0, <4>1 DEF MungerInv
      <4>2. CASE ~started
        <5>1. Dummy \in Nat /\ 0 \in Int /\ Dummy - 1 + 1 = Dummy
          BY ForwardingConstants
        <5>2. Ordered(Reset(Dummy, 0)) /\ OpenRange(Reset(Dummy, 0)).start = Dummy
          BY <5>1, ResetIs
        <5> QED
          BY <4>2, <5>1, <5>2
      <4> QED
        BY <4>1, <4>2
    <3> HIDE DEF map, top, to
    <3>2. Ordered(DecValue(map, Ranges, top, num))
      BY <2>2, <3>1, DecFollows, ForwardingConstants
    <3> QED
      BY <2>1, <3>2 DEF Ordered
  <2>4. given' \in [Numbers -> Contents]
    BY <1>0, <2>1 DEF ForwardingTypes, Contents, Padding
  <2> QED
    BY <1>0, <2>1, <2>2, <2>3, <2>4 DEF ForwardingTypes
<1>7. ASSUME NEW f \in Feeds, Push(f) PROVE ForwardingTypes'
  <2> DEFINE p == flight[f]
             s == Begun(p.number)
  <2>1. /\ flight' = [flight EXCEPT ![f] = NoPacket]
        /\ UNCHANGED <<munger, got, before, padding, turn, given>>
        /\ \/ seqr' = s
           \/ seqr' = [s EXCEPT !.highest = IF p.number > @ THEN p.number ELSE @,
                                !.meta = [k \in DOMAIN @ |->
                                   IF k = SlotOf(s, p.number) THEN p
                                   ELSE IF k \in Skipped(s, p.number) THEN Invalid ELSE @[k]]]
    BY <1>7 DEF Push
  <2>2. p \in Packet /\ p.number \in Nat
    BY <1>0 DEF ForwardingTypes, Packet
  <2>3. s \in Sequencers /\ s.ranges # <<>>
    BY <1>0, <2>2 DEF ForwardingTypes, Begun, Sequencers
  <2> HIDE DEF s, p
  <2>4. NoPacket \in Packet /\ Invalid \in Packet
    BY DEF NoPacket, Invalid, Packet
  <2>5. seqr' \in Sequencers /\ seqr'.ranges # <<>>
    <3>1. CASE seqr' = s
      BY <2>3, <3>1
    <3>2. CASE seqr' # s
      <4> DEFINE h == IF p.number > s.highest THEN p.number ELSE s.highest
                 m == [k \in DOMAIN s.meta |->
                         IF k = SlotOf(s, p.number) THEN p
                         ELSE IF k \in Skipped(s, p.number) THEN Invalid ELSE s.meta[k]]
      <4>1. seqr' = [s EXCEPT !.highest = h, !.meta = m]
        BY <2>1, <2>3, <3>2 DEF Sequencers
      <4>2. h \in Nat /\ m \in [0..(Slots - 1) -> Packet]
        BY <2>2, <2>3, <2>4 DEF Sequencers
      <4> HIDE DEF h, m
      <4> QED
        BY <2>3, <4>1, <4>2 DEF Sequencers
    <3> QED
      BY <3>1, <3>2
  <2> QED
    BY <1>0, <2>1, <2>4, <2>5 DEF ForwardingTypes, munger
<1>8. CASE PushPadding
  <2>1. /\ padding' = NoBurst /\ UNCHANGED <<munger, got, before, flight, turn, given>>
        /\ \/ seqr' = seqr
           \/ seqr' = [seqr EXCEPT !.meta = [k \in DOMAIN @ |->
                         IF k \in Wasted(seqr, padding) THEN Invalid ELSE @[k]]]
           \/ seqr' = [seqr EXCEPT !.highest = padding.to,
                         !.ranges = ExcludeRange(@, SeqRanges, padding.from, padding.to)]
    BY <1>8 DEF PushPadding
  <2>2. /\ seqr \in Sequencers /\ seqr.ranges # <<>> /\ padding.from \in Nat /\ padding.to \in Nat
        /\ NoBurst \in [from : Nat, to : Nat] /\ Invalid \in Packet
    BY <1>0 DEF ForwardingTypes, Sequencers, NoBurst, Invalid, Packet
  <2>3. CASE seqr' = seqr
    BY <1>0, <2>1, <2>2, <2>3 DEF ForwardingTypes, munger
  <2>4. CASE seqr' = [seqr EXCEPT !.meta = [k \in DOMAIN @ |->
                        IF k \in Wasted(seqr, padding) THEN Invalid ELSE @[k]]]
    <3> DEFINE m == [k \in DOMAIN seqr.meta |->
                       IF k \in Wasted(seqr, padding) THEN Invalid ELSE seqr.meta[k]]
    <3>1. seqr' = [seqr EXCEPT !.meta = m]
      BY <2>2, <2>4 DEF Sequencers
    <3>2. m \in [0..(Slots - 1) -> Packet]
      BY <2>2 DEF Sequencers
    <3> HIDE DEF m
    <3>3. seqr' \in Sequencers /\ seqr'.ranges # <<>>
      BY <2>2, <3>1, <3>2 DEF Sequencers
    <3> QED
      BY <1>0, <2>1, <2>2, <3>3 DEF ForwardingTypes, munger
  <2>5. CASE seqr' = [seqr EXCEPT !.highest = padding.to,
                        !.ranges = ExcludeRange(@, SeqRanges, padding.from, padding.to)]
    <3> DEFINE r == ExcludeRange(seqr.ranges, SeqRanges, padding.from, padding.to)
    <3>1. seqr' = [seqr EXCEPT !.highest = padding.to, !.ranges = r]
      BY <2>2, <2>5 DEF Sequencers
    <3>2. SeqRanges \in Nat
      BY ForwardingConstants DEF SeqRanges
    <3>3. r \in Seq(SnRange) /\ r # <<>>
      BY <2>2, <3>2, ExcludeTypes DEF Sequencers
    <3> HIDE DEF r
    <3>4. seqr' \in Sequencers /\ seqr'.ranges # <<>>
      BY <2>2, <3>1, <3>3 DEF Sequencers
    <3> QED
      BY <1>0, <2>1, <2>2, <3>4 DEF ForwardingTypes, munger
  <2> QED
    BY <2>1, <2>3, <2>4, <2>5
<1> QED
  BY <1>1, <1>2, <1>3, <1>4, <1>5, <1>6, <1>7, <1>8 DEF ForwardingNext, Start, SwitchFeed

\* A number fits a packet that is between those before and after it in its turn.
Fits(n, sn, t) ==
  \A m \in Numbers :
    given[m].kind = "media" /\ given[m].turn = t =>
      (m < n => given[m].sn < sn) /\ (n < m => sn < given[m].sn)

LEMMA RisingKept ==
  ASSUME ForwardingTypes, Rising, NEW n \in Numbers, NEW sn \in Nat, NEW t \in Nat,
         given' = [given EXCEPT ![n] = Media(t, sn)], Fits(n, sn, t)
  PROVE  Rising'
<1> SUFFICES ASSUME NEW m \in Numbers, NEW k \in Numbers, m < k,
                    given'[m].kind = "media", given'[k].kind = "media",
                    given'[m].turn = given'[k].turn
             PROVE  given'[m].sn < given'[k].sn
  BY DEF Rising
<1>1. m \in Nat /\ k \in Nat /\ m # k
  BY ForwardingConstants
<1>2. given \in [Numbers -> Contents]
  BY DEF ForwardingTypes
<1>3. \A j \in Numbers : given'[j] = IF j = n THEN Media(t, sn) ELSE given[j]
  BY <1>2
<1>4. Media(t, sn).turn = t /\ Media(t, sn).sn = sn
  BY DEF Media
<1>5. CASE m = n
  BY <1>1, <1>3, <1>4, <1>5 DEF Fits
<1>6. CASE k = n
  BY <1>1, <1>3, <1>4, <1>6 DEF Fits
<1>7. CASE m # n /\ k # n
  BY <1>3, <1>7 DEF Rising
<1> QED
  BY <1>5, <1>6, <1>7

\* A packet in order is given the next number, however far ahead it is: the numbers
\* in between stay those of the packets in between.
LEMMA InOrderKeeps ==
  ASSUME MungerInv, ForwardingTypes', NEW f \in Feeds, NEW sn \in Incoming[f], InOrder(f, sn)
  PROVE  MungerInv' /\ Kept
<1> DEFINE n == sn - ValueAt(ranges, highest + 1)
<1>0. /\ ForwardingTypes /\ Rising /\ Ordered(ranges) /\ started /\ feed # NoFeed
      /\ OpenRange(ranges).start <= highest + 1
      /\ NextNumber /\ FreeNumbers /\ MediaNumbers /\ Covered
      /\ \A k \in Numbers : k > last => given[k] = Nothing
      /\ \A k \in Numbers : given[k].turn <= turn
  BY ForwardingConstants DEF MungerInv, InSourceOrder, InOrder
<1>1. /\ feed = f /\ Arrives(f, sn)
      /\ UNCHANGED <<started, feed, ranges, before, padding, seqr, turn>>
      /\ sn > highest /\ highest' = sn /\ last' = n
      /\ (Send(f, sn, n, turn) \/ Withhold(n))
  <2>1. sn \in Nat /\ highest \in Nat
    BY <1>0, ForwardingConstants DEF ForwardingTypes
  <2> QED
    BY <1>0, <2>1 DEF InOrder
<1>2. /\ sn \in Nat /\ highest \in Nat /\ last \in Nat /\ turn \in Nat
      /\ given \in [Numbers -> Contents] /\ Numbers \subseteq Nat
  BY <1>0, ForwardingConstants DEF ForwardingTypes
<1>3. /\ n = last + (sn - highest) /\ LateNumber(sn) = n /\ Has(ranges, sn)
      /\ OpenRange(ranges).value \in Int
  <2>1. highest + 1 \in Nat /\ highest + 1 > highest
    BY <1>2
  <2>2. ValueAt(ranges, highest + 1) = OpenRange(ranges).value
    BY <1>0, <2>1, NumbersAhead
  <2>3. Has(ranges, sn) /\ LateNumber(sn) = last + (sn - highest)
        /\ ValueAt(ranges, sn) = OpenRange(ranges).value
    BY <1>0, <1>1, <1>2, NumbersAhead
  <2> QED
    BY <1>0, <2>2, <2>3, OrderedTypes DEF LateNumber
<1> HIDE DEF n
<1>4. n \in Numbers /\ n \in Nat /\ n > last /\ given[n] = Nothing
  <2>1. n \in Numbers
    BY <1>1 DEF Send, Withhold, MayGive
  <2> QED
    BY <1>0, <1>1, <1>2, <1>3, <2>1
<1>5. PICK content \in {Media(turn, sn), Withheld} : given' = [given EXCEPT ![n] = content]
  BY <1>1 DEF Send, Withhold
<1>6. \A k \in Numbers : given'[k] = IF k = n THEN content ELSE given[k]
  BY <1>2, <1>4, <1>5
<1>7. Kept
  BY <1>4, <1>6 DEF Kept
<1>8. got' = [got EXCEPT ![f] = @ \cup {sn}] /\ got'[f] = got[f] \cup {sn}
  BY <1>0, <1>1 DEF Arrives, ForwardingTypes
<1>9. Rising'
  <2>1. CASE content = Withheld
    <3>1. \A k \in Numbers : given'[k].kind = "media" => given'[k] = given[k]
      BY <1>6, <2>1 DEF Withheld
    <3> QED
      BY <1>0, <3>1 DEF Rising
  <2>2. CASE content = Media(turn, sn)
    <3>1. \A m \in Numbers :
            given[m].kind = "media" /\ given[m].turn = turn => m <= last /\ given[m].sn <= highest
      BY <1>0, <1>2 DEF MediaNumbers, Nothing
    <3>2. \A m \in Numbers : given[m].sn \in Nat
      BY <1>2 DEF Contents
    <3>3. Fits(n, sn, turn)
      <4> SUFFICES ASSUME NEW m \in Numbers, given[m].kind = "media", given[m].turn = turn
                   PROVE  given[m].sn < sn /\ ~(n < m)
        BY DEF Fits
      <4>1. m <= last /\ given[m].sn <= highest /\ given[m].sn \in Nat /\ m \in Nat
        BY <1>2, <3>1, <3>2
      <4> QED
        BY <1>1, <1>2, <1>4, <4>1
    <3>4. given' = [given EXCEPT ![n] = Media(turn, sn)]
      BY <1>5, <2>2
    <3>5. ForwardingTypes /\ Rising /\ n \in Numbers /\ sn \in Nat /\ turn \in Nat
      BY <1>0, <1>2, <1>4
    <3> QED
      BY <3>3, <3>4, <3>5, RisingKept
  <2> QED
    BY <1>5, <2>1, <2>2
<1>10. \A k \in Numbers : /\ ~started' \/ k > last' => given'[k] = Nothing
                          /\ given'[k].turn <= turn'
  <2>1. content.turn <= turn
    BY <1>2, <1>5 DEF Media, Withheld
  <2>2. ASSUME NEW k \in Numbers, k > n PROVE given'[k] = Nothing
    <3>1. k \in Nat /\ k > last /\ k # n
      BY <1>2, <1>4, <2>2
    <3> QED
      BY <1>0, <1>6, <3>1
  <2>3. \A k \in Numbers : given'[k].turn <= turn
    BY <1>0, <1>6, <2>1
  <2> QED
    BY <1>0, <1>1, <2>2, <2>3
<1>11. NextNumber' /\ OpenRange(ranges').start <= highest' + 1
  <2>1. OpenRange(ranges') = OpenRange(ranges) /\ OpenRange(ranges).start \in Nat
    BY <1>0, <1>1, OrderedTypes
  <2>2. last = highest - OpenRange(ranges).value
    BY <1>0 DEF NextNumber
  <2>3. n = sn - OpenRange(ranges).value
    BY <1>2, <1>3, <2>2
  <2>4. NextNumber'
    BY <1>1, <2>1, <2>3 DEF NextNumber
  <2>5. OpenRange(ranges').start <= sn + 1
    BY <1>0, <1>1, <1>2, <2>1
  <2> QED
    BY <1>1, <2>4, <2>5
<1>12. \A k : LateNumber(k)' = LateNumber(k)
  BY <1>1 DEF LateNumber
<1>13. FreeNumbers'
  <2>1. ASSUME NEW k \in 0..sn, Has(ranges, k), k \notin got'[f], LateNumber(k) \in Numbers
        PROVE  given'[LateNumber(k)] = Nothing
    <3>1. k # sn /\ k \notin got[f]
      BY <1>8, <2>1
    <3>2. CASE k <= highest
      <4>1. LateNumber(k) <= last
        BY <1>0, <2>1, <3>2, NumbersAhead
      <4>2. k \in 0..highest /\ k \notin got[feed]
        BY <1>1, <1>2, <2>1, <3>1, <3>2
      <4>3. given[LateNumber(k)] = Nothing
        BY <1>0, <2>1, <4>2 DEF FreeNumbers
      <4>4. LateNumber(k) # n
        BY <1>2, <1>4, <2>1, <4>1
      <4> QED
        BY <1>6, <2>1, <4>3, <4>4
    <3>3. CASE k > highest
      <4>1. LateNumber(k) = last + (k - highest)
        BY <1>0, <2>1, <3>3, NumbersAhead
      <4> QED
        BY <1>0, <1>2, <1>3, <1>6, <2>1, <3>1, <3>3, <4>1
    <3> QED
      BY <1>2, <3>2, <3>3
  <2>2. given'[n] # Nothing
    BY <1>4, <1>5, <1>6 DEF Media, Withheld, Nothing
  <2>3. ASSUME NEW k \in got'[f] \ before
        PROVE  /\ k <= sn
               /\ Has(ranges, k) => LateNumber(k) \in Numbers /\ given'[LateNumber(k)] # Nothing
    <3>1. CASE k = sn
      BY <1>2, <1>3, <1>4, <2>2, <3>1
    <3>2. CASE k # sn
      <4>1. k \in got[feed] \ before /\ k \in Nat
        BY <1>0, <1>1, <1>8, <2>3, <3>2 DEF ForwardingTypes
      <4>2. k <= highest
        BY <1>0, <4>1 DEF FreeNumbers
      <4>3. ASSUME Has(ranges, k)
            PROVE  LateNumber(k) \in Numbers /\ given'[LateNumber(k)] # Nothing
        <5>1. LateNumber(k) \in Numbers /\ given[LateNumber(k)] # Nothing
          BY <1>0, <4>1, <4>3 DEF FreeNumbers
        <5> QED
          BY <1>7, <5>1 DEF Kept
      <4> QED
        BY <1>1, <1>2, <4>1, <4>2, <4>3
    <3> QED
      BY <3>1, <3>2
  <2>4. before \subseteq got'[f] /\ sn \in got'[f] \ before
    BY <1>0, <1>1, <1>8 DEF FreeNumbers, Arrives
  <2> QED
    BY <1>1, <1>4, <1>12, <2>1, <2>2, <2>3, <2>4 DEF FreeNumbers
<1>14. MediaNumbers'
  <2> SUFFICES ASSUME NEW k \in Numbers, given'[k].kind = "media", given'[k].turn = turn
               PROVE  /\ given'[k].sn <= sn
                      /\ \/ Has(ranges, given'[k].sn) /\ LateNumber(given'[k].sn) = k
                         \/ given'[k].sn < ranges[1].start /\ k < First(ranges)
    BY <1>1, <1>12 DEF MediaNumbers, First
  <2>1. CASE k = n
    <3>1. given'[k].sn = sn
      BY <1>4, <1>5, <1>6, <2>1 DEF Media, Withheld
    <3> QED
      BY <1>2, <1>3, <2>1, <3>1
  <2>2. CASE k # n
    <3>1. given[k].sn \in Nat
      BY <1>2 DEF Contents
    <3> QED
      BY <1>0, <1>1, <1>2, <1>6, <2>2, <3>1 DEF MediaNumbers
  <2> QED
    BY <2>1, <2>2
<1>15. Covered'
  <2> SUFFICES ASSUME NEW k \in Numbers, k >= First(ranges), k <= n, given'[k] = Nothing
               PROVE  \E j \in ranges[1].start..sn : Has(ranges, j) /\ LateNumber(j) = k
    BY <1>1, <1>12 DEF Covered, First
  <2>1. CASE k <= last
    <3>1. PICK j \in ranges[1].start..highest : Has(ranges, j) /\ LateNumber(j) = k
      BY <1>0, <1>4, <1>6, <2>1 DEF Covered
    <3>2. ranges[1].start \in Nat
      BY <1>0, OrderedTypes
    <3> QED
      BY <1>1, <1>2, <3>1, <3>2
  <2>2. CASE k > last
    <3> DEFINE j == highest + (k - last)
    <3>1. j \in Nat /\ j > highest /\ j <= sn
      BY <1>2, <1>3, <2>2
    <3>2. Has(ranges, j) /\ LateNumber(j) = k
      BY <1>0, <1>2, <3>1, NumbersAhead
    <3>3. ranges[1].start <= j /\ ranges[1].start \in Nat
      BY <1>0, <3>1, <3>2, FirstIsFirst, OrderedTypes
    <3> QED
      BY <3>1, <3>2, <3>3
  <2> QED
    BY <1>2, <2>1, <2>2
<1> QED
  BY <1>0, <1>1, <1>7, <1>9, <1>10, <1>11, <1>13, <1>14, <1>15 DEF MungerInv, InSourceOrder

\* What the munger knows survives in a map that follows.
LEMMA MapKeeps ==
  ASSUME MungerInv, feed # NoFeed, NEW P, Ordered(P), Follows(P, ranges, highest)
  PROVE  /\ \A k \in 0..highest :
              Has(P, k) /\ k \notin got[feed] /\ Number(P, k) \in Numbers
              => given[Number(P, k)] = Nothing
         /\ \A k \in got[feed] \ before :
              /\ k <= highest
              /\ Has(P, k) => Number(P, k) \in Numbers /\ given[Number(P, k)] # Nothing
         /\ \A n \in Numbers :
              given[n].kind = "media" /\ given[n].turn = turn =>
                /\ given[n].sn <= highest
                /\ \/ Has(P, given[n].sn) /\ Number(P, given[n].sn) = n
                   \/ given[n].sn < P[1].start /\ n < First(P)
         /\ \A n \in Numbers :
              n >= First(P) /\ n <= last /\ given[n] = Nothing
              => \E k \in P[1].start..highest : Has(P, k) /\ Number(P, k) = n
<1>1. /\ ForwardingTypes /\ Ordered(ranges)
      /\ FreeNumbers /\ MediaNumbers /\ Covered
  BY DEF MungerInv, InSourceOrder
<1>2. /\ highest \in Nat /\ last \in Nat /\ given \in [Numbers -> Contents] /\ Numbers \subseteq Nat
      /\ P[1].start \in Nat /\ First(P) \in Int /\ ranges[1].start \in Nat /\ First(ranges) \in Int
      /\ P[1].start >= ranges[1].start /\ First(P) >= First(ranges)
  BY SMTT(30), <1>1, OrderedTypes, ForwardingConstants DEF ForwardingTypes, First, Follows
<1>3. \A k \in Nat : LateNumber(k) = Number(ranges, k)
  BY DEF LateNumber, Number
<1>4. ASSUME NEW k \in 0..highest, Has(P, k)
      PROVE  k \in Nat /\ Has(ranges, k) /\ LateNumber(k) = Number(P, k)
  BY <1>2, <1>4 DEF Follows, LateNumber, Number
<1>5. ASSUME NEW k \in 0..highest, Has(ranges, k)
      PROVE  \/ Has(P, k) /\ Number(P, k) = LateNumber(k)
             \/ k < P[1].start /\ LateNumber(k) < First(P)
  BY <1>2, <1>3, <1>5 DEF Follows, LateNumber, Number
<1>6. \A k \in 0..highest :
        Has(P, k) /\ k \notin got[feed] /\ Number(P, k) \in Numbers => given[Number(P, k)] = Nothing
  <2> SUFFICES ASSUME NEW k \in 0..highest, Has(P, k), k \notin got[feed], Number(P, k) \in Numbers
               PROVE  given[Number(P, k)] = Nothing
    OBVIOUS
  <2>1. Has(ranges, k) /\ LateNumber(k) = Number(P, k)
    BY <1>4
  <2> QED
    BY <1>1, <2>1 DEF FreeNumbers
<1>7. ASSUME NEW k \in got[feed] \ before
      PROVE  /\ k <= highest
             /\ Has(P, k) => Number(P, k) \in Numbers /\ given[Number(P, k)] # Nothing
  <2>1. k \in 0..highest /\ k <= highest
    <3>1. k \in Nat
      BY <1>1 DEF MungerInv, ForwardingTypes
    <3> QED
      BY <1>1, <1>2, <3>1 DEF FreeNumbers
  <2>2. ASSUME Has(P, k) PROVE Number(P, k) \in Numbers /\ given[Number(P, k)] # Nothing
    <3>1. Has(ranges, k) /\ LateNumber(k) = Number(P, k)
      BY <1>4, <2>1, <2>2
    <3> QED
      BY <1>1, <3>1 DEF FreeNumbers
  <2> QED
    BY <2>1, <2>2
<1>8. ASSUME NEW n \in Numbers, given[n].kind = "media", given[n].turn = turn
      PROVE  /\ given[n].sn <= highest
             /\ \/ Has(P, given[n].sn) /\ Number(P, given[n].sn) = n
                \/ given[n].sn < P[1].start /\ n < First(P)
  <2> DEFINE k == given[n].sn
  <2>1. k \in Nat /\ n \in Nat
    BY <1>2 DEF Contents
  <2>2. k <= highest /\ \/ Has(ranges, k) /\ LateNumber(k) = n
                        \/ k < ranges[1].start /\ n < First(ranges)
    BY <1>1, <1>8 DEF MediaNumbers
  <2> HIDE DEF k
  <2>3. CASE Has(ranges, k) /\ LateNumber(k) = n
    <3>1. k \in 0..highest
      BY <1>2, <2>1, <2>2
    <3> QED
      BY <1>5, <2>2, <2>3, <3>1 DEF k
  <2>4. CASE k < ranges[1].start /\ n < First(ranges)
    <3>1. k < P[1].start /\ n < First(P)
      BY <1>2, <2>1, <2>4
    <3> QED
      BY <2>2, <3>1 DEF k
  <2> QED
    BY <2>2, <2>3, <2>4
<1>9. ASSUME NEW n \in Numbers, n >= First(P), n <= last, given[n] = Nothing
      PROVE  \E k \in P[1].start..highest : Has(P, k) /\ Number(P, k) = n
  <2>1. n \in Nat /\ n >= First(ranges)
    BY <1>2, <1>9
  <2>2. PICK k \in ranges[1].start..highest : Has(ranges, k) /\ LateNumber(k) = n
    BY <1>1, <1>9, <2>1 DEF Covered
  <2>3. k \in 0..highest /\ k \in Int
    BY <1>2, <2>2
  <2>4. Has(P, k) /\ Number(P, k) = n
    BY <1>2, <1>5, <1>9, <2>1, <2>2, <2>3
  <2>5. P[1].start <= k
    BY <2>3, <2>4, FirstIsFirst
  <2> QED
    BY <1>2, <2>3, <2>4, <2>5
<1> QED
  BY <1>6, <1>7, <1>8, <1>9

\* A dropped packet has no number in the new map, and the next one has its number.
LEMMA DropKeeps ==
  ASSUME MungerInv, ForwardingTypes', NEW f \in Feeds, NEW sn \in Incoming[f], Drop(f, sn)
  PROVE  MungerInv' /\ Kept
<1>1. /\ feed = f /\ Arrives(f, sn) /\ sn = highest + 1 /\ highest' = sn
      /\ ranges' = Exclude(sn)
      /\ UNCHANGED <<started, feed, last, boundary, before, flight, padding, seqr, turn, given>>
  BY DEF Drop
<1>2. /\ ForwardingTypes /\ Rising /\ Ordered(ranges) /\ started /\ feed # NoFeed
      /\ OpenRange(ranges).start <= highest + 1
      /\ NextNumber
      /\ \A k \in Numbers : k > last => given[k] = Nothing
      /\ \A k \in Numbers : given[k].turn <= turn
  BY <1>1, ForwardingConstants DEF MungerInv, InSourceOrder
<1>3. /\ sn \in Nat /\ highest \in Nat /\ last \in Nat /\ Numbers \subseteq Nat
      /\ given \in [Numbers -> Contents]
  BY <1>1, <1>2, ForwardingConstants DEF ForwardingTypes
<1>4. /\ Ordered(ranges') /\ OpenRange(ranges').start = sn + 1
      /\ OpenRange(ranges').value = OpenRange(ranges).value + 1
      /\ Follows(ranges', ranges, highest)
      /\ ~Has(ranges', sn)
  <2>1. OpenRange(ranges).start <= sn /\ sn <= sn /\ Ranges \in Nat
    BY <1>1, <1>2, <1>3, ForwardingConstants
  <2>2. LET P == ExcludeRange(ranges, Ranges, sn, sn) IN
        /\ Ordered(P) /\ OpenRange(P).start = sn + 1
        /\ OpenRange(P).value = OpenRange(ranges).value + (sn - sn + 1)
        /\ Follows(P, ranges, sn - 1)
        /\ \A k \in sn..sn : ~Has(P, k)
    BY <1>2, <1>3, <2>1, ExcludeFollows
  <2>3. sn - sn + 1 = 1 /\ sn - 1 = highest /\ sn \in sn..sn
    BY <1>1, <1>3
  <2> QED
    BY <1>1, <2>2, <2>3 DEF Exclude
<1>5. NextNumber' /\ OpenRange(ranges').start <= highest' + 1
  <2>1. OpenRange(ranges).value \in Int
    BY <1>2, OrderedTypes
  <2> QED
    BY <1>1, <1>2, <1>3, <1>4, <2>1 DEF NextNumber
<1>6. got' = [got EXCEPT ![f] = @ \cup {sn}] /\ got'[f] = got[f] \cup {sn}
  BY <1>1, <1>2 DEF Arrives, ForwardingTypes
<1>7. \A k : LateNumber(k)' = Number(ranges', k)
  BY DEF LateNumber, Number
<1>8. FreeNumbers'
  <2>1. ASSUME NEW k \in 0..sn, Has(ranges', k), k \notin got'[f], Number(ranges', k) \in Numbers
        PROVE  given[Number(ranges', k)] = Nothing
    <3>1. k \in 0..highest /\ k \notin got[f]
      BY <1>1, <1>3, <1>6, <2>1
    <3> QED
      BY <1>1, <1>2, <1>4, <2>1, <3>1, MapKeeps
  <2>2. ASSUME NEW k \in got'[f] \ before
        PROVE  /\ k <= sn
               /\ Has(ranges', k) => /\ Number(ranges', k) \in Numbers
                                     /\ given[Number(ranges', k)] # Nothing
    <3>1. CASE k = sn
      BY <1>3, <1>4, <3>1
    <3>2. CASE k # sn
      <4>1. k \in got[feed] \ before /\ k \in Nat
        BY <1>1, <1>2, <1>6, <2>2, <3>2 DEF ForwardingTypes
      <4>2. /\ k <= highest
            /\ Has(ranges', k) => /\ Number(ranges', k) \in Numbers
                                  /\ given[Number(ranges', k)] # Nothing
        BY <1>2, <1>4, <4>1, MapKeeps
      <4> QED
        BY <1>1, <1>3, <4>1, <4>2
    <3> QED
      BY <3>1, <3>2
  <2>3. /\ before \subseteq got'[f] /\ sn \in got'[f] \ before
        /\ last \in Numbers /\ given[last] # Nothing
    <3>1. FreeNumbers
      BY <1>2 DEF MungerInv
    <3> QED
      BY <1>1, <1>6, <3>1 DEF FreeNumbers, Arrives
  <2> QED
    BY <1>1, <1>7, <2>1, <2>2, <2>3 DEF FreeNumbers
<1>9. MediaNumbers'
  <2> SUFFICES ASSUME NEW n \in Numbers, given[n].kind = "media", given[n].turn = turn
               PROVE  /\ given[n].sn <= sn
                      /\ \/ Has(ranges', given[n].sn) /\ Number(ranges', given[n].sn) = n
                         \/ given[n].sn < ranges'[1].start /\ n < First(ranges')
    BY <1>1, <1>7 DEF MediaNumbers, First
  <2>1. /\ given[n].sn <= highest
        /\ \/ Has(ranges', given[n].sn) /\ Number(ranges', given[n].sn) = n
           \/ given[n].sn < ranges'[1].start /\ n < First(ranges')
    BY <1>2, <1>4, MapKeeps
  <2>2. given[n].sn \in Nat
    BY <1>3 DEF Contents
  <2> QED
    BY <1>1, <1>3, <2>1, <2>2
<1>10. Covered'
  <2> SUFFICES ASSUME NEW n \in Numbers, n >= First(ranges'), n <= last, given[n] = Nothing
               PROVE  \E k \in ranges'[1].start..sn : Has(ranges', k) /\ Number(ranges', k) = n
    BY <1>1, <1>7 DEF Covered, First
  <2>1. PICK k \in ranges'[1].start..highest : Has(ranges', k) /\ Number(ranges', k) = n
    BY <1>2, <1>4, MapKeeps
  <2>2. ranges'[1].start \in Nat
    BY <1>4, OrderedTypes
  <2> QED
    BY <1>1, <1>3, <2>1, <2>2
<1>11. Rising' /\ Kept
  BY <1>1, <1>2 DEF Rising, Kept
<1> QED
  BY <1>1, <1>2, <1>4, <1>5, <1>8, <1>9, <1>10, <1>11 DEF MungerInv, InSourceOrder

\* The number of a late packet was left for it, and lies between those of its neighbours.
LEMMA LateKeeps ==
  ASSUME MungerInv, ForwardingTypes', NEW f \in Feeds, NEW sn \in Incoming[f], LatePacket(f, sn)
  PROVE  MungerInv' /\ Kept
<1>1. /\ feed = f /\ Arrives(f, sn) /\ sn < highest
      /\ UNCHANGED <<started, feed, highest, last, ranges, before, turn>>
      /\ IF Has(ranges, sn) /\ LateNumber(sn) < last
         THEN Send(f, sn, LateNumber(sn), turn) \/ Withhold(LateNumber(sn))
         ELSE UNCHANGED given
  BY DEF LatePacket, munger
<1>2. /\ ForwardingTypes /\ Rising /\ Ordered(ranges) /\ started /\ feed # NoFeed
      /\ OpenRange(ranges).start <= highest + 1
      /\ NextNumber /\ FreeNumbers /\ MediaNumbers /\ Covered
      /\ \A k \in Numbers : k > last => given[k] = Nothing
      /\ \A k \in Numbers : given[k].turn <= turn
  BY <1>1, ForwardingConstants DEF MungerInv, InSourceOrder
<1>3. /\ sn \in Nat /\ highest \in Nat /\ last \in Nat /\ turn \in Nat /\ Numbers \subseteq Nat
      /\ given \in [Numbers -> Contents]
  BY <1>1, <1>2, ForwardingConstants DEF ForwardingTypes
<1>4. got' = [got EXCEPT ![f] = @ \cup {sn}] /\ got'[f] = got[f] \cup {sn} /\ sn \notin got[f]
  BY <1>1, <1>2 DEF Arrives, ForwardingTypes
<1>5. \A k : LateNumber(k)' = LateNumber(k)
  BY <1>1 DEF LateNumber
<1>6. CASE ~(Has(ranges, sn) /\ LateNumber(sn) < last)
  <2>0. UNCHANGED given
    BY <1>1, <1>6
  <2>1. NextNumber' /\ MediaNumbers' /\ Covered' /\ Rising' /\ Kept
    BY <1>1, <1>2, <1>5, <2>0 DEF NextNumber, MediaNumbers, Covered, Rising, Kept
  <2>2. ~Has(ranges, sn)
    <3> SUFFICES ASSUME Has(ranges, sn) PROVE FALSE
      OBVIOUS
    <3>1. LateNumber(sn) <= last /\ LateNumber(sn) \in Int
      BY <1>1, <1>2, <1>3, NumbersAhead, NumberIsInt DEF LateNumber, Number
    <3>2. LateNumber(sn) = last /\ sn \in 0..highest /\ sn \notin got[feed]
      BY <1>1, <1>3, <1>4, <1>6, <3>1
    <3> QED
      BY <1>2, <3>2 DEF FreeNumbers
  <2>3. FreeNumbers'
    <3>1. \A k \in got'[f] \ before : k = sn \/ k \in got[feed] \ before
      BY <1>1, <1>4
    <3>2. before \subseteq got'[f] /\ highest \in got'[f] \ before
      BY <1>1, <1>2, <1>4 DEF FreeNumbers
    <3>3. sn <= highest
      BY <1>1, <1>3
    <3> QED
      BY <1>1, <1>2, <1>4, <1>5, <2>0, <2>2, <3>1, <3>2, <3>3 DEF FreeNumbers
  <2> QED
    BY <1>1, <1>2, <2>0, <2>1, <2>3 DEF MungerInv, InSourceOrder
<1>7. CASE Has(ranges, sn) /\ LateNumber(sn) < last
  <2> DEFINE n == LateNumber(sn)
  <2>0. n \in Numbers /\ n \in Nat /\ n < last
    BY <1>1, <1>3, <1>7 DEF Send, Withhold, MayGive
  <2>1. PICK content \in {Media(turn, sn), Withheld} :
          n \in Numbers /\ n \in Nat /\ n < last /\ given' = [given EXCEPT ![n] = content]
    BY <1>1, <1>7, <2>0 DEF Send, Withhold
  <2>2. given[n] = Nothing
    <3>1. sn \in 0..highest /\ sn \notin got[feed]
      BY <1>1, <1>3, <1>4
    <3> QED
      BY <1>2, <1>7, <2>1, <3>1 DEF FreeNumbers
  <2>3. \A k \in Numbers : given'[k] = IF k = n THEN content ELSE given[k]
    BY <1>3, <2>1
  <2>4. \A k \in Nat : Has(ranges, k) /\ LateNumber(k) = n => k = sn
    <3> SUFFICES ASSUME NEW k \in Nat, Has(ranges, k), LateNumber(k) = n, k # sn PROVE FALSE
      OBVIOUS
    <3>1. Number(ranges, k) = Number(ranges, sn) /\ Number(ranges, k) \in Int
      BY <2>1 DEF LateNumber, Number
    <3>2. k < sn \/ sn < k
      BY <1>3
    <3>3. Number(ranges, k) < Number(ranges, sn) \/ Number(ranges, sn) < Number(ranges, k)
      BY <1>2, <1>3, <1>7, <3>2, Monotone
    <3> QED
      BY <3>1, <3>3
  <2>5. n >= First(ranges) /\ sn >= ranges[1].start
        /\ First(ranges) \in Int /\ ranges[1].start \in Nat
    BY <1>2, <1>3, <1>7, FirstIsFirst, OrderedTypes DEF LateNumber, Number, First
  <2> HIDE DEF n
  <2>6. Kept
    BY <2>2, <2>3 DEF Kept
  <2>7. Rising'
    <3>1. ASSUME NEW m \in Numbers, given[m].kind = "media", given[m].turn = turn
          PROVE  (m < n => given[m].sn < sn) /\ (n < m => sn < given[m].sn)
      <4> DEFINE k == given[m].sn
      <4>1. k \in Nat /\ m \in Nat
        BY <1>3 DEF Contents
      <4>2. \/ Has(ranges, k) /\ LateNumber(k) = m
            \/ k < ranges[1].start /\ m < First(ranges)
        BY <1>2, <3>1 DEF MediaNumbers
      <4> HIDE DEF k
      <4>3. CASE Has(ranges, k) /\ LateNumber(k) = m
        <5>1. Number(ranges, k) = m /\ Number(ranges, sn) = n
          BY <4>3 DEF LateNumber, Number, n
        <5>2. (k < sn => m < n) /\ (sn < k => n < m)
          BY <1>2, <1>3, <1>7, <4>1, <4>3, <5>1, Monotone
        <5>3. k = sn => m = n
          BY <5>1
        <5> QED
          BY <1>3, <2>1, <4>1, <5>2, <5>3 DEF k
      <4>4. CASE k < ranges[1].start /\ m < First(ranges)
        <5>1. k < sn /\ m < n
          BY <1>3, <2>1, <2>5, <4>1, <4>4
        <5> QED
          BY <2>1, <4>1, <5>1 DEF k
      <4> QED
        BY <4>2, <4>3, <4>4
    <3>2. ForwardingTypes /\ Rising /\ n \in Numbers /\ sn \in Nat /\ turn \in Nat
      BY <1>2, <1>3, <2>1
    <3>3. Fits(n, sn, turn)
      BY <3>1 DEF Fits
    <3>4. CASE content = Media(turn, sn)
      <4>1. given' = [given EXCEPT ![n] = Media(turn, sn)]
        BY <2>1, <3>4
      <4> QED
        BY <3>2, <3>3, <4>1, RisingKept
    <3>5. CASE content = Withheld
      <4>1. \A k \in Numbers : given'[k].kind = "media" => given'[k] = given[k]
        BY <2>3, <3>5 DEF Withheld
      <4> QED
        BY <3>2, <4>1 DEF Rising
    <3> QED
      BY <2>1, <3>4, <3>5
  <2>8. \A k \in Numbers : (k > last => given'[k] = Nothing) /\ given'[k].turn <= turn
    <3>1. content.turn <= turn
      BY <1>3, <2>1 DEF Media, Withheld
    <3>2. ASSUME NEW k \in Numbers, k > last PROVE given'[k] = Nothing
      <4>1. k # n
        BY <1>3, <2>1, <3>2
      <4> QED
        BY <1>2, <2>3, <3>2, <4>1
    <3>3. ASSUME NEW k \in Numbers PROVE given'[k].turn <= turn
      BY <1>2, <1>3, <2>3, <3>1
    <3> QED
      BY <3>2, <3>3
  <2>9. NextNumber'
    BY <1>1, <1>2 DEF NextNumber
  <2>10. content # Nothing /\ (content.kind = "media" => content.sn = sn)
    BY <2>1 DEF Media, Withheld, Nothing
  <2>11. FreeNumbers'
    <3>1. ASSUME NEW k \in 0..highest, Has(ranges, k), k \notin got'[f], LateNumber(k) \in Numbers
          PROVE  given'[LateNumber(k)] = Nothing
      <4>1. k # sn /\ k \notin got[feed] /\ k \in Nat
        BY <1>1, <1>4, <3>1
      <4>2. LateNumber(k) # n
        BY <2>4, <3>1, <4>1
      <4> QED
        BY <1>2, <2>3, <3>1, <4>1, <4>2 DEF FreeNumbers
    <3>2. ASSUME NEW k \in got'[f] \ before
          PROVE  /\ k <= highest
                 /\ Has(ranges, k) => LateNumber(k) \in Numbers /\ given'[LateNumber(k)] # Nothing
      <4>1. CASE k = sn
        BY <1>1, <1>3, <2>1, <2>3, <2>10, <4>1 DEF n
      <4>2. CASE k # sn
        <5>1. k \in got[feed] \ before
          BY <1>1, <1>4, <3>2, <4>2
        <5> QED
          BY <1>2, <2>6, <5>1 DEF FreeNumbers, Kept
      <4> QED
        BY <4>1, <4>2
    <3>3. /\ before \subseteq got'[f] /\ highest \in got'[f] \ before
          /\ last \in Numbers /\ given'[last] # Nothing
      BY <1>1, <1>2, <1>4, <2>6 DEF FreeNumbers, Kept
    <3> QED
      BY <1>1, <1>5, <3>1, <3>2, <3>3 DEF FreeNumbers
  <2>12. MediaNumbers'
    <3> SUFFICES ASSUME NEW k \in Numbers, given'[k].kind = "media", given'[k].turn = turn
                 PROVE  /\ given'[k].sn <= highest
                        /\ \/ Has(ranges, given'[k].sn) /\ LateNumber(given'[k].sn) = k
                           \/ given'[k].sn < ranges[1].start /\ k < First(ranges)
      BY <1>1, <1>5 DEF MediaNumbers, First
    <3>1. CASE k = n
      <4>1. given'[k].sn = sn
        BY <2>3, <2>10, <3>1
      <4> QED
        BY <1>1, <1>3, <1>7, <3>1, <4>1 DEF n
    <3>2. CASE k # n
      BY <1>2, <2>3, <3>2 DEF MediaNumbers
    <3> QED
      BY <3>1, <3>2
  <2>13. Covered'
    <3> SUFFICES ASSUME NEW k \in Numbers, k >= First(ranges), k <= last, given'[k] = Nothing
                 PROVE  \E j \in ranges[1].start..highest : Has(ranges, j) /\ LateNumber(j) = k
      BY <1>1, <1>5 DEF Covered, First
    <3>1. given[k] = Nothing
      BY <2>3, <2>10
    <3> QED
      BY <1>2, <3>1 DEF Covered
  <2> QED
    BY <1>1, <1>2, <2>6, <2>7, <2>8, <2>9, <2>11, <2>12, <2>13 DEF MungerInv, InSourceOrder
<1> QED
  BY <1>1, <1>6, <1>7

\* The first packet of a feed begins a map and a turn.
LEMMA SwitchKeeps ==
  ASSUME MungerInv, ForwardingTypes', started', NEW f \in Feeds, NEW sn \in Incoming[f],
         NEW n, SwitchTo(f, sn, n), ~started \/ n > last
  PROVE  MungerInv' /\ Kept
<1>1. /\ Arrives(f, sn) /\ feed' = f /\ turn' = turn + 1 /\ before' = got[f]
      /\ highest' = sn /\ last' = n /\ ranges' = Reset(sn, sn - n)
      /\ Send(f, sn, n, turn + 1)
  BY DEF SwitchTo
<1>2. /\ ForwardingTypes /\ Rising
      /\ \A k \in Numbers : ~started \/ k > last => given[k] = Nothing
      /\ \A k \in Numbers : given[k].turn <= turn
  BY DEF MungerInv, InSourceOrder
<1>3. /\ sn \in Nat /\ last \in Nat /\ turn \in Nat /\ Numbers \subseteq Nat
      /\ given \in [Numbers -> Contents] /\ f # NoFeed
  BY <1>1, <1>2, ForwardingConstants DEF ForwardingTypes
<1>4. /\ n \in Numbers /\ n \in Nat /\ given[n] = Nothing
      /\ given' = [given EXCEPT ![n] = Media(turn + 1, sn)]
  BY <1>1, <1>2, <1>3 DEF Send, MayGive
<1>5. \A k \in Numbers : given'[k] = IF k = n THEN Media(turn + 1, sn) ELSE given[k]
  BY <1>3, <1>4
<1>6. /\ Media(turn + 1, sn) # Nothing /\ Media(turn + 1, sn).sn = sn
      /\ Media(turn + 1, sn).turn = turn + 1
  BY DEF Media, Nothing
<1>7. /\ Ordered(ranges') /\ OpenRange(ranges').start = sn /\ OpenRange(ranges').value = sn - n
      /\ ranges'[1].start = sn /\ First(ranges') = n
      /\ \A k \in Int : Has(ranges', k) <=> k >= sn
      /\ \A k \in Int : k >= sn => ValueAt(ranges', k) = sn - n
  <2> DEFINE v == sn - n
  <2>1. v \in Int /\ sn - v = n
    BY <1>3, <1>4
  <2> HIDE DEF v
  <2>2. LET R == Reset(sn, v) IN
        /\ Ordered(R) /\ OpenRange(R).start = sn /\ OpenRange(R).value = v
        /\ R[1].start = sn /\ First(R) = sn - v
        /\ \A k \in Int : Has(R, k) <=> k >= sn
        /\ \A k \in Int : k >= sn => ValueAt(R, k) = v
    BY <1>3, <2>1, ResetIs
  <2> QED
    BY <1>1, <2>1, <2>2 DEF v
<1>8. LateNumber(sn)' = n /\ Has(ranges', sn)
  <2>1. ValueAt(ranges', sn) = sn - n /\ Has(ranges', sn)
    BY <1>3, <1>7
  <2> QED
    BY <1>3, <1>4, <2>1 DEF LateNumber
<1>9. Kept
  BY <1>4, <1>5 DEF Kept
<1>10. Rising'
  <2>1. \A m \in Numbers : given[m].turn # turn + 1
    <3> SUFFICES ASSUME NEW m \in Numbers PROVE given[m].turn # turn + 1
      OBVIOUS
    <3>1. given[m].turn \in Nat /\ given[m].turn <= turn
      BY <1>2, <1>3 DEF Contents
    <3> QED
      BY <1>3, <3>1
  <2> DEFINE t == turn + 1
  <2>2. /\ ForwardingTypes /\ Rising /\ n \in Numbers /\ sn \in Nat /\ t \in Nat
        /\ given' = [given EXCEPT ![n] = Media(t, sn)]
        /\ \A m \in Numbers : given[m].turn # t
    BY <1>2, <1>3, <1>4, <2>1
  <2> HIDE DEF t
  <2>3. Fits(n, sn, t)
    BY <2>2 DEF Fits
  <2> QED
    BY <2>2, <2>3, RisingKept
<1>11. \A k \in Numbers : (k > n => given'[k] = Nothing) /\ given'[k].turn <= turn + 1
  <2>1. ASSUME NEW k \in Numbers, k > n PROVE given'[k] = Nothing
    <3>1. k # n /\ (~started \/ k > last)
      BY <1>3, <1>4, <2>1
    <3> QED
      BY <1>2, <1>5, <3>1
  <2>2. ASSUME NEW k \in Numbers PROVE given'[k].turn <= turn + 1
    <3>1. given[k].turn \in Nat /\ given[k].turn <= turn
      BY <1>2, <1>3 DEF Contents
    <3> QED
      BY <1>3, <1>5, <1>6, <3>1
  <2> QED
    BY <2>1, <2>2
<1>12. NextNumber' /\ OpenRange(ranges').start <= highest' + 1
  BY <1>1, <1>3, <1>4, <1>7 DEF NextNumber
<1>13. got'[f] = got[f] \cup {sn} /\ got'[f] \ before' = {sn}
  BY <1>1, <1>2 DEF Arrives, ForwardingTypes
<1>14. FreeNumbers'
  <2>1. ASSUME NEW k \in 0..sn, Has(ranges', k) PROVE k = sn
    BY <1>3, <1>7, <2>1
  <2>2. given'[n] # Nothing
    BY <1>4, <1>5, <1>6
  <2>3. before' \subseteq got'[f] /\ sn \in got'[f]
    BY <1>1, <1>13
  <2>4. sn <= sn
    BY <1>3
  <2> QED
    BY <1>1, <1>4, <1>8, <1>13, <2>1, <2>2, <2>3, <2>4 DEF FreeNumbers
<1>15. MediaNumbers'
  <2>0. (\A k : LateNumber(k)' = Number(ranges', k)) /\ Number(ranges', sn) = n
    BY <1>8 DEF LateNumber, Number
  <2> SUFFICES ASSUME NEW k \in Numbers, given'[k].kind = "media", given'[k].turn = turn + 1
               PROVE  /\ given'[k].sn <= sn
                      /\ Has(ranges', given'[k].sn) /\ Number(ranges', given'[k].sn) = k
    BY <1>1, <2>0 DEF MediaNumbers, First
  <2>1. k = n
    <3> SUFFICES ASSUME k # n PROVE FALSE
      OBVIOUS
    <3>1. given[k].turn = turn + 1 /\ given[k].turn <= turn
      BY <1>2, <1>5
    <3> QED
      BY <1>3, <3>1
  <2>2. given'[k].sn = sn
    BY <1>5, <1>6, <2>1
  <2> QED
    BY <1>3, <1>8, <2>0, <2>1, <2>2
<1>16. Covered'
  <2> SUFFICES ASSUME NEW k \in Numbers, k >= n, k <= n, given'[k] = Nothing PROVE FALSE
    BY <1>1, <1>7 DEF Covered, First
  <2>1. k = n
    BY <1>3, <1>4
  <2> QED
    BY <1>5, <1>6, <2>1
<1> QED
  BY <1>1, <1>7, <1>9, <1>10, <1>11, <1>12, <1>14, <1>15, <1>16 DEF MungerInv, InSourceOrder

\* Padding takes the numbers after the last; the packets to come move up.
LEMMA PaddingKeeps ==
  ASSUME MungerInv, ForwardingTypes', NEW num \in 1..MaxBurst, WritePadding(num)
  PROVE  MungerInv' /\ Kept
<1> DEFINE from == (IF started THEN last ELSE Dummy) + 1
           to == from + num - 1
           top == IF started THEN highest ELSE Dummy - 1
           map == IF started THEN ranges ELSE Reset(Dummy, 0)
<1>1. /\ started' = TRUE /\ highest' = top /\ last' = to
      /\ ranges' = DecValue(map, Ranges, top, num)
      /\ given' = [n \in Numbers |-> IF n \in from..to THEN Padding ELSE given[n]]
      /\ UNCHANGED <<feed, got, before, turn>>
  BY DEF WritePadding
<1>2. /\ ForwardingTypes /\ Rising /\ Ordered(ranges)
      /\ IF started THEN OpenRange(ranges).start <= highest + 1 ELSE feed = NoFeed
      /\ \A k \in Numbers : ~started \/ k > last => given[k] = Nothing
      /\ \A k \in Numbers : given[k].turn <= turn
      /\ feed # NoFeed => started /\ NextNumber /\ FreeNumbers
  BY DEF MungerInv, InSourceOrder
<1>3. /\ highest \in Nat /\ last \in Nat /\ turn \in Nat /\ Numbers \subseteq Nat
      /\ given \in [Numbers -> Contents] /\ num \in Nat
      /\ Dummy \in Nat \ {0} /\ Ranges \in Nat
  BY <1>2, ForwardingConstants DEF ForwardingTypes
<1>4. from \in Nat /\ to \in Nat /\ top \in Nat /\ num >= 1
  BY <1>3
<1>5. Ordered(map) /\ OpenRange(map).start <= top + 1
  <2>1. CASE started
    BY <1>2, <2>1
  <2>2. CASE ~started
    <3>1. Dummy \in Nat /\ 0 \in Int /\ Dummy - 1 + 1 = Dummy
      BY <1>3
    <3>2. Ordered(Reset(Dummy, 0)) /\ OpenRange(Reset(Dummy, 0)).start = Dummy
      BY <3>1, ResetIs
    <3> QED
      BY <2>2, <3>1, <3>2
  <2> QED
    BY <2>1, <2>2
<1>6. started => map = ranges /\ top = highest /\ from = last + 1 /\ to = last + num
  BY <1>3
<1>7. to = from + num - 1
  OBVIOUS
<1> HIDE DEF map, top, from, to
<1>8. /\ Ordered(ranges') /\ OpenRange(ranges').start = top + 1
      /\ OpenRange(ranges').value = OpenRange(map).value - num
      /\ Follows(ranges', map, top)
  BY <1>1, <1>3, <1>4, <1>5, DecFollows
<1>9. \A k \in Numbers : given'[k] = IF k \in from..to THEN Padding ELSE given[k]
  BY <1>1
<1>10. \A k \in Numbers : k >= from => given[k] = Nothing
  <2> SUFFICES ASSUME NEW k \in Numbers, k >= from PROVE given[k] = Nothing
    OBVIOUS
  <2>1. CASE ~started
    BY <1>2, <2>1
  <2>2. CASE started
    <3>1. k > last
      BY <1>3, <1>6, <2>2
    <3> QED
      BY <1>2, <3>1
  <2> QED
    BY <2>1, <2>2
<1>11. Padding # Nothing /\ Padding.kind # "media" /\ Padding.turn = 0
  BY DEF Padding, Nothing
<1>12. Kept
  <2>1. \A k \in Numbers : k \in from..to => given[k] = Nothing
    BY <1>3, <1>10
  <2> QED
    BY <1>9, <2>1 DEF Kept
<1>13. \A k \in Numbers : given'[k].kind = "media" => given'[k] = given[k]
  BY <1>9, <1>11
<1>14. Rising'
  BY <1>2, <1>13 DEF Rising
<1>15. \A k \in Numbers : (k > to => given'[k] = Nothing) /\ given'[k].turn <= turn
  <2>1. ASSUME NEW k \in Numbers, k > to PROVE given'[k] = Nothing
    <3>1. k >= from /\ k \notin from..to
      BY <1>3, <1>4, <1>7, <2>1
    <3> QED
      BY <1>9, <1>10, <3>1
  <2>2. ASSUME NEW k \in Numbers PROVE given'[k].turn <= turn
    BY <1>2, <1>3, <1>9, <1>11
  <2> QED
    BY <2>1, <2>2
<1>16. OpenRange(ranges').start <= highest' + 1
  BY <1>1, <1>4, <1>8
<1>17. ASSUME feed # NoFeed
       PROVE  NextNumber' /\ FreeNumbers' /\ MediaNumbers' /\ Covered'
  <2>1. /\ started /\ map = ranges /\ top = highest /\ from = last + 1 /\ to = last + num
        /\ Follows(ranges', ranges, highest)
    BY <1>2, <1>6, <1>8, <1>17
  <2>2. OpenRange(ranges).value \in Int
    BY <1>2, OrderedTypes
  <2>3. NextNumber'
    BY <1>1, <1>2, <1>3, <1>8, <1>17, <2>1, <2>2 DEF NextNumber
  <2>4. \A k : LateNumber(k)' = Number(ranges', k)
    BY DEF LateNumber, Number
  <2>5. ASSUME NEW k \in 0..highest, Has(ranges', k), Number(ranges', k) \in Numbers
        PROVE  given'[Number(ranges', k)] = given[Number(ranges', k)]
    <3>1. k \in Nat /\ k <= highest
      BY <1>3
    <3>2. Has(ranges, k) /\ LateNumber(k) = Number(ranges', k)
      BY <2>1, <2>5, <3>1 DEF Follows, LateNumber, Number
    <3>3. Number(ranges', k) <= last
      BY <1>17, <3>1, <3>2, NumbersAhead
    <3>4. Number(ranges', k) \notin from..to
      BY <1>3, <2>1, <2>5, <3>3
    <3> QED
      BY <1>9, <2>5, <3>4
  <2>6. FreeNumbers'
    <3>1. ASSUME NEW k \in 0..highest, Has(ranges', k), k \notin got[feed],
                 Number(ranges', k) \in Numbers
          PROVE  given'[Number(ranges', k)] = Nothing
      BY <1>8, <1>17, <2>1, <2>5, <3>1, MapKeeps
    <3>2. ASSUME NEW k \in got[feed] \ before
          PROVE  /\ k <= highest
                 /\ Has(ranges', k) => /\ Number(ranges', k) \in Numbers
                                       /\ given'[Number(ranges', k)] # Nothing
      <4>1. /\ k <= highest
            /\ Has(ranges', k) => /\ Number(ranges', k) \in Numbers
                                  /\ given[Number(ranges', k)] # Nothing
        BY <1>8, <1>17, <2>1, MapKeeps
      <4> QED
        BY <1>12, <4>1 DEF Kept
    <3>3. to \in Numbers /\ given'[to] # Nothing
      <4>1. to \in from..to /\ to \in Numbers
        <5>1. to \in from..to
          BY <1>4, <1>7
        <5>2. from..to \subseteq Numbers
          BY DEF WritePadding, from, to
        <5> QED
          BY <5>1, <5>2
      <4> QED
        BY <1>9, <1>11, <4>1
    <3>4. before \subseteq got[feed] /\ highest \in got[feed] \ before
      BY <1>2, <1>17 DEF FreeNumbers
    <3> QED
      BY <1>1, <2>1, <2>4, <3>1, <3>2, <3>3, <3>4 DEF FreeNumbers
  <2>7. MediaNumbers'
    <3> SUFFICES ASSUME NEW n \in Numbers, given'[n].kind = "media", given'[n].turn = turn
                 PROVE  /\ given'[n].sn <= highest
                        /\ \/ Has(ranges', given'[n].sn) /\ Number(ranges', given'[n].sn) = n
                           \/ given'[n].sn < ranges'[1].start /\ n < First(ranges')
      BY <1>1, <2>1, <2>4 DEF MediaNumbers, First
    <3>1. given'[n] = given[n]
      BY <1>13
    <3> QED
      BY <1>8, <1>17, <2>1, <3>1, MapKeeps
  <2>8. Covered'
    <3> SUFFICES ASSUME NEW n \in Numbers, n >= First(ranges'), n <= to, given'[n] = Nothing
                 PROVE  \E k \in ranges'[1].start..highest : Has(ranges', k) /\ Number(ranges', k) = n
      BY <1>1, <2>1, <2>4 DEF Covered, First
    <3>1. n \notin from..to /\ given[n] = Nothing
      BY <1>9, <1>11
    <3>2. n <= last
      BY <1>3, <2>1, <3>1
    <3> QED
      BY <1>8, <1>17, <2>1, <3>1, <3>2, MapKeeps
  <2> QED
    BY <2>3, <2>6, <2>7, <2>8
<1> QED
  BY <1>1, <1>8, <1>12, <1>14, <1>15, <1>16, <1>17 DEF MungerInv, InSourceOrder

\* Nothing of it changes when the numbers, the map and what came stay as they are.
LEMMA MungerStays ==
  ASSUME MungerInv, ForwardingTypes', UNCHANGED <<started, highest, last, ranges, got, before, turn, given>>,
         feed' \in {feed, NoFeed}
  PROVE  MungerInv' /\ Kept
<1>1. Rising' /\ Kept
  BY DEF MungerInv, InSourceOrder, Rising, Kept
<1>2. \A k : LateNumber(k)' = LateNumber(k)
  BY DEF LateNumber
<1>3. ASSUME feed' # NoFeed
      PROVE  NextNumber' /\ FreeNumbers' /\ MediaNumbers' /\ Covered'
  <2>1. feed' = feed /\ NextNumber /\ FreeNumbers /\ MediaNumbers /\ Covered
    BY <1>3 DEF MungerInv
  <2> QED
    BY <1>2, <2>1 DEF NextNumber, FreeNumbers, MediaNumbers, Covered, First
<1> QED
  BY <1>1, <1>3 DEF MungerInv, InSourceOrder

\* The munger's invariant is inductive, and no step takes a number back.
LEMMA MungerInvStep ==
  ASSUME MungerInv, [ForwardingNext]_forwardingVars
  PROVE  MungerInv' /\ Kept
<1>1. CASE ForwardingNext
  <2>1. ForwardingTypes'
    BY <1>1, ForwardingTypesKept
  <2>2. ASSUME NEW f \in Feeds, NEW sn \in Incoming[f], InOrder(f, sn)
        PROVE  MungerInv' /\ Kept
    BY <2>1, <2>2, InOrderKeeps
  <2>3. ASSUME NEW f \in Feeds, NEW sn \in Incoming[f], Drop(f, sn)
        PROVE  MungerInv' /\ Kept
    BY <2>1, <2>3, DropKeeps
  <2>4. ASSUME NEW f \in Feeds, NEW sn \in Incoming[f], LatePacket(f, sn)
        PROVE  MungerInv' /\ Kept
    BY <2>1, <2>4, LateKeeps
  <2>5. ASSUME NEW f \in Feeds, NEW sn \in Incoming[f], Start(f, sn)
        PROVE  MungerInv' /\ Kept
    BY <2>1, <2>5, SwitchKeeps DEF Start
  <2>6. ASSUME NEW f \in Feeds, NEW sn \in Incoming[f], SwitchFeed(f, sn)
        PROVE  MungerInv' /\ Kept
    <3> DEFINE n == last + 1
    <3>1. started /\ started' /\ SwitchTo(f, sn, n)
      BY <2>6 DEF SwitchFeed
    <3>2. n > last
      BY DEF MungerInv, InSourceOrder, ForwardingTypes
    <3> HIDE DEF n
    <3> QED
      BY <2>1, <3>1, <3>2, SwitchKeeps
  <2>7. ASSUME NEW num \in 1..MaxBurst, WritePadding(num)
        PROVE  MungerInv' /\ Kept
    BY <2>1, <2>7, PaddingKeeps
  <2>8. CASE Resync \/ PushPadding \/ \E f \in Feeds : Push(f)
    <3>1. UNCHANGED <<started, highest, last, ranges, got, before, turn, given>> /\ feed' \in {feed, NoFeed}
      BY <2>8 DEF Resync, PushPadding, Push, munger
    <3> QED
      BY <2>1, <3>1, MungerStays
  <2> QED
    BY <1>1, <2>2, <2>3, <2>4, <2>5, <2>6, <2>7, <2>8 DEF ForwardingNext
<1>2. CASE UNCHANGED forwardingVars
  <2>1. ForwardingTypes'
    BY <1>2 DEF forwardingVars, munger, MungerInv, InSourceOrder, ForwardingTypes
  <2> QED
    BY <1>2, <2>1, MungerStays DEF forwardingVars, munger
<1> QED
  BY <1>1, <1>2

\* It holds before the first packet.
LEMMA MungerInvInit ==
  ASSUME ForwardingInit
  PROVE  MungerInv
<1>1. /\ started = FALSE /\ feed = NoFeed /\ highest = 0 /\ last = 0 /\ boundary = FALSE
      /\ ranges = Reset(0, 0) /\ got = [f \in Feeds |-> {}] /\ before = {}
      /\ flight = [f \in Feeds |-> NoPacket] /\ padding = NoBurst /\ turn = 0
      /\ given = [n \in Numbers |-> Nothing]
      /\ seqr = [initialized |-> FALSE, start |-> 0, highest |-> 0, ranges |-> Reset(0, 0),
                 meta |-> [s \in 0..(Slots - 1) |-> Invalid]]
  BY DEF ForwardingInit
<1>2. Ordered(Reset(0, 0)) /\ Reset(0, 0) \in Seq(SnRange) /\ Reset(0, 0) # <<>>
  <2>1. 0 \in Nat /\ 0 \in Int
    OBVIOUS
  <2>2. Ordered(Reset(0, 0))
    BY <2>1, ResetIs
  <2> QED
    BY <2>2 DEF Ordered
<1>3. Invalid \in Packet /\ NoPacket \in Packet /\ NoBurst \in [from : Nat, to : Nat]
      /\ Nothing \in Contents
  BY DEF Invalid, NoPacket, NoBurst, Nothing, Packet, Contents
<1>4. seqr \in Sequencers /\ seqr.ranges # <<>>
  <2> DEFINE m == [s \in 0..(Slots - 1) |-> Invalid]
  <2>1. m \in [0..(Slots - 1) -> Packet]
    BY <1>3
  <2> HIDE DEF m
  <2> QED
    BY <1>1, <1>2, <2>1 DEF Sequencers, m
<1>5. ForwardingTypes
  BY <1>1, <1>2, <1>3, <1>4 DEF ForwardingTypes
<1>6. Rising /\ \A n \in Numbers : given[n].turn <= turn
  BY <1>1 DEF Rising, Nothing
<1> QED
  BY <1>1, <1>2, <1>5, <1>6 DEF MungerInv, InSourceOrder

\* So it always holds.
LEMMA MungerKeeps == ForwardingSpec => [](MungerInv) /\ GivenOnce
<1>1. MungerInv /\ [ForwardingNext]_forwardingVars => MungerInv' /\ [Kept]_forwardingVars
  BY MungerInvStep
<1> QED
  BY <1>1, MungerInvInit, PTL DEF ForwardingSpec, GivenOnce

\* A number that RTPMunger gave to a packet, to padding, or to nothing for good is never
\* given again, whatever is dropped, late, padded or switched.
THEOREM NumbersGivenOnce == ForwardingSpec => GivenOnce
BY MungerKeeps

\* Within a turn the numbers are in the order of the packets, late ones included.
THEOREM NumbersInOrder == ForwardingSpec => []InSourceOrder
<1>1. MungerInv => InSourceOrder
  BY DEF MungerInv
<1> QED
  BY <1>1, MungerKeeps, PTL

\* A number that was passed over was withheld from a packet, or is kept for one that may
\* still come, as far back as the ranges go: dropping a packet in its turn leaves no hole.
THEOREM UnusedAreReserved == ForwardingSpec => []UnusedIsReserved
<1>1. MungerInv => UnusedIsReserved
  <2> SUFFICES ASSUME MungerInv, feed # NoFeed, NEW n \in Numbers,
                      n >= ranges[1].start - ranges[1].value, n < last, given[n] = Nothing
               PROVE  \E sn \in ranges[1].start..(highest - 1) :
                        sn \notin got[feed] \ before /\ Has(ranges, sn) /\ LateNumber(sn) = n
    BY DEF UnusedIsReserved
  <2>1. /\ ForwardingTypes /\ Ordered(ranges) /\ FreeNumbers /\ Covered
        /\ n <= last /\ highest \in Nat /\ ranges[1].start \in Nat
    BY OrderedTypes, ForwardingConstants DEF MungerInv, InSourceOrder, ForwardingTypes
  <2>2. PICK sn \in ranges[1].start..highest : Has(ranges, sn) /\ LateNumber(sn) = n
    BY <2>1 DEF Covered, First
  <2>3. sn \notin got[feed] \ before /\ sn # highest
    BY <2>1, <2>2 DEF FreeNumbers
  <2> QED
    BY <2>1, <2>2, <2>3
<1> QED
  BY <1>1, MungerKeeps, PTL

----------------------------------------------------------------------------
\* A packet with a number was sent under it.
Sent(p) ==
  p # Invalid =>
    /\ p.number \in Numbers
    /\ given[p.number].kind = "media" /\ given[p.number].sn = p.sn

\* On the way to the sequencer and in its slots are packets that were sent.
RecordedInv ==
  /\ \A f \in Feeds : Sent(flight[f])
  /\ \A s \in 0..(Slots - 1) : Sent(seqr.meta[s])

\* What getExtPacketMetas answers was sent, under a number that is x on the wire.
AnswersWereSent ==
  \A x \in 0..(Cycle - 1) :
    LET p == Answer(x) IN
    p # Invalid => /\ p.number % Cycle = x
                   /\ given[p.number].kind = "media" /\ given[p.number].sn = p.sn

\* What was sent stays sent.
LEMMA SentStays ==
  ASSUME Kept, NEW p, Sent(p)
  PROVE  Sent(p)'
<1> SUFFICES ASSUME p # Invalid
             PROVE  /\ p.number \in Numbers
                    /\ given'[p.number].kind = "media" /\ given'[p.number].sn = p.sn
  BY DEF Sent
<1>1. p.number \in Numbers /\ given[p.number].kind = "media" /\ given[p.number].sn = p.sn
  BY DEF Sent
<1>2. given[p.number] # Nothing
  BY <1>1 DEF Nothing
<1> QED
  BY <1>1, <1>2 DEF Kept

\* What is on the way to the sequencer, or in it, was sent.
LEMMA RecordedStep ==
  ASSUME MungerInv, RecordedInv, [ForwardingNext]_forwardingVars
  PROVE  RecordedInv'
<1>0. Kept /\ ForwardingTypes /\ ForwardingTypes'
  BY MungerInvStep DEF MungerInv, InSourceOrder
<1>1. /\ flight \in [Feeds -> Packet] /\ seqr \in Sequencers
      /\ seqr.meta \in [0..(Slots - 1) -> Packet]
  BY <1>0 DEF ForwardingTypes, Sequencers
<1>2. \A p : Sent(p) => Sent(p)'
  BY <1>0, SentStays
<1>3. ASSUME UNCHANGED flight PROVE \A f \in Feeds : Sent(flight[f])'
  BY <1>2, <1>3 DEF RecordedInv, Sent
<1>4. ASSUME UNCHANGED seqr PROVE \A s \in 0..(Slots - 1) : Sent(seqr.meta[s])'
  BY <1>2, <1>4 DEF RecordedInv, Sent
<1>5. ASSUME NEW f \in Feeds, NEW sn \in Incoming[f], NEW n, NEW t, Send(f, sn, n, t), UNCHANGED seqr
      PROVE  RecordedInv'
  <2> DEFINE q == [number |-> n, sn |-> sn]
  <2>1. n \in Numbers /\ flight' = [flight EXCEPT ![f] = q] /\ given' = [given EXCEPT ![n] = Media(t, sn)]
    BY <1>5 DEF Send, MayGive
  <2>2. given'[n].kind = "media" /\ given'[n].sn = sn
    BY <1>0, <2>1 DEF ForwardingTypes, Media
  <2>3. q.number = n /\ q.sn = sn
    OBVIOUS
  <2> HIDE DEF q
  <2>4. ASSUME NEW g \in Feeds PROVE Sent(flight[g])'
    <3>1. CASE g = f
      <4>1. flight'[g] = q
        BY <1>1, <2>1, <3>1
      <4> QED
        BY <2>1, <2>2, <2>3, <4>1 DEF Sent
    <3>2. CASE g # f
      <4>1. flight'[g] = flight[g] /\ Sent(flight[g])
        BY <1>1, <2>1, <3>2 DEF RecordedInv
      <4> QED
        BY <1>2, <4>1 DEF Sent
    <3> QED
      BY <3>1, <3>2
  <2> QED
    BY <1>4, <1>5, <2>4 DEF RecordedInv
<1>6. ASSUME UNCHANGED <<flight, seqr>> PROVE RecordedInv'
  BY <1>3, <1>4, <1>6 DEF RecordedInv
<1>7. ASSUME NEW f \in Feeds, Push(f) PROVE RecordedInv'
  <2> DEFINE p == flight[f]
             s == Begun(p.number)
             m == [k \in DOMAIN s.meta |->
                     IF k = SlotOf(s, p.number) THEN p
                     ELSE IF k \in Skipped(s, p.number) THEN Invalid ELSE s.meta[k]]
  <2>1. /\ flight' = [flight EXCEPT ![f] = NoPacket]
        /\ \/ seqr' = s
           \/ seqr' = [s EXCEPT !.highest = IF p.number > @ THEN p.number ELSE @,
                                !.meta = [k \in DOMAIN @ |->
                                   IF k = SlotOf(s, p.number) THEN p
                                   ELSE IF k \in Skipped(s, p.number) THEN Invalid ELSE @[k]]]
    BY <1>7 DEF Push
  <2>2. Sent(p) /\ Sent(Invalid) /\ NoPacket = Invalid
    BY DEF RecordedInv, Sent, NoPacket, Invalid
  <2>3. s.meta = seqr.meta /\ DOMAIN s = DOMAIN seqr
    BY <1>1 DEF Begun, Sequencers
  <2>4. seqr'.meta = seqr.meta \/ seqr'.meta = m
    BY <1>1, <2>1, <2>3 DEF Sequencers
  <2>5. \A k \in 0..(Slots - 1) : m[k] \in {p, Invalid, seqr.meta[k]}
    <3> HIDE DEF s, p
    <3> QED
      BY <1>1, <2>3
  <2> HIDE DEF m, s, p
  <2>6. ASSUME NEW k \in 0..(Slots - 1) PROVE Sent(seqr.meta[k])'
    <3>1. seqr'.meta[k] \in {p, Invalid, seqr.meta[k]}
      BY <2>4, <2>5
    <3>2. Sent(seqr.meta[k])
      BY DEF RecordedInv
    <3> QED
      BY <1>2, <2>2, <3>1, <3>2 DEF Sent
  <2>7. ASSUME NEW g \in Feeds PROVE Sent(flight[g])'
    <3>1. flight'[g] \in {Invalid, flight[g]}
      BY <1>1, <2>1, <2>2
    <3>2. Sent(flight[g])
      BY DEF RecordedInv
    <3> QED
      BY <1>2, <2>2, <3>1, <3>2 DEF Sent
  <2> QED
    BY <2>6, <2>7 DEF RecordedInv
<1>8. CASE PushPadding
  <2>1. \A k \in 0..(Slots - 1) : seqr'.meta[k] \in {Invalid, seqr.meta[k]}
    BY <1>1, <1>8 DEF PushPadding, Sequencers
  <2>2. ASSUME NEW k \in 0..(Slots - 1) PROVE Sent(seqr.meta[k])'
    <3>1. Sent(seqr.meta[k]) /\ Sent(Invalid)
      BY DEF RecordedInv, Sent
    <3> QED
      BY <1>2, <2>1, <3>1 DEF Sent
  <2> QED
    BY <1>3, <1>8, <2>2 DEF PushPadding, RecordedInv
<1>9. CASE UNCHANGED forwardingVars
  BY <1>6, <1>9 DEF forwardingVars
<1>10. ASSUME NEW f \in Feeds, NEW sn \in Incoming[f],
              InOrder(f, sn) \/ Drop(f, sn) \/ LatePacket(f, sn) \/ Start(f, sn) \/ SwitchFeed(f, sn)
       PROVE  RecordedInv'
  <2>1. UNCHANGED seqr /\ (UNCHANGED flight \/ \E n, t : Send(f, sn, n, t))
    BY <1>10 DEF InOrder, Withhold, Drop, LatePacket, Start, SwitchFeed, SwitchTo
  <2> QED
    BY <1>5, <1>6, <2>1
<1>11. CASE Resync \/ \E num \in 1..MaxBurst : WritePadding(num)
  BY <1>6, <1>11 DEF Resync, WritePadding
<1> QED
  BY <1>7, <1>8, <1>9, <1>10, <1>11 DEF ForwardingNext

\* A packet the sequencer finds for a number on the wire was sent under a number that
\* stands for it there.
THEOREM AnswersHold == ForwardingSpec => []AnswersWereSent
<1>1. ForwardingInit => RecordedInv
  BY DEF ForwardingInit, RecordedInv, Sent, NoPacket, Invalid
<1>2. MungerInv /\ RecordedInv /\ [ForwardingNext]_forwardingVars => RecordedInv'
  BY RecordedStep
<1>3. MungerInv /\ RecordedInv => AnswersWereSent
  <2> SUFFICES ASSUME MungerInv, RecordedInv, NEW x \in 0..(Cycle - 1), Answer(x) # Invalid
               PROVE  /\ Answer(x).number % Cycle = x
                      /\ given[Answer(x).number].kind = "media"
                      /\ given[Answer(x).number].sn = Answer(x).sn
    BY DEF AnswersWereSent
  <2> DEFINE n == Meant(x)
             R == seqr.ranges
             k == SlotOf(seqr, n)
  <2>1. Answer(x) = seqr.meta[k] /\ Has(R, n) /\ seqr.meta[k].number % Cycle = x
    BY DEF Answer
  <2>2. R \in Seq(SnRange) /\ R # <<>> /\ n \in Int
    BY ForwardingConstants DEF MungerInv, InSourceOrder, ForwardingTypes, Sequencers, Meant
  <2> HIDE DEF n, R
  <2>3. ValueAt(R, n) \in Int
    <3>1. Len(R) \in 1..Len(R) /\ \A i \in 1..Len(R) : R[i].value \in Int
      <4>1. Len(R) \in Nat \ {0} /\ \A i \in 1..Len(R) : R[i] \in SnRange
        BY <2>2
      <4>2. \A i \in 1..Len(R) : R[i].value \in Int
        BY <4>1 DEF SnRange
      <4> QED
        BY <4>1, <4>2
    <3>2. CASE n >= OpenRange(R).start
      BY <3>1, <3>2 DEF ValueAt, OpenRange
    <3>3. CASE ~(n >= OpenRange(R).start)
      <4>1. PICK i \in Closed(R) : n \in R[i].start..R[i].end
        BY <2>1, <3>3 DEF Has
      <4>2. \A j \in Closed(R) : R[j].value \in Int
        BY <3>1 DEF Closed
      <4> QED
        BY <3>3, <4>1, <4>2 DEF ValueAt
    <3> QED
      BY <3>2, <3>3
  <2>4. k \in 0..(Slots - 1)
    BY <2>2, <2>3, ForwardingConstants DEF SlotOf, Adjusted, R
  <2> HIDE DEF k
  <2>5. Sent(seqr.meta[k])
    BY <2>4 DEF RecordedInv
  <2> QED
    BY <2>1, <2>5 DEF Sent
<1> QED
  BY <1>1, <1>2, <1>3, MungerKeeps, PTL DEF ForwardingSpec

----------------------------------------------------------------------------
(***************************************************************************)
(* The sequencer's answers. Slots are numbers less padding, modulo the     *)
(* size: first remainders, then the map of RangeMap as the sequencer uses   *)
(* it (Spaced: what it has forgotten is a ring back), then SequencerInv,    *)
(* which says where every recorded packet is and how far a burst of         *)
(* padding may lag behind.                                                 *)
(***************************************************************************)
\* The remainder of a number, and of what is a multiple away.
LEMMA Remainder ==
  ASSUME NEW s \in Nat \ {0}, NEW a \in Int
  PROVE  /\ a % s \in 0..(s - 1) /\ a \div s \in Int
         /\ a = s * (a \div s) + (a % s)
OBVIOUS

LEMMA RemainderIs ==
  ASSUME NEW s \in Nat \ {0}, NEW q \in Int, NEW r \in 0..(s - 1)
  PROVE  (s * q + r) % s = r
OBVIOUS

\* Two numbers less than s apart have different remainders.
LEMMA SameRemainder ==
  ASSUME NEW s \in Nat \ {0}, NEW a \in Int, NEW b \in Int, a % s = b % s, a - b < s, b - a < s
  PROVE  a = b
<1> DEFINE q == (a \div s) - (b \div s)
<1>1. q \in Int /\ a - b = s * q
  BY Remainder
<1> HIDE DEF q
<1>2. q < 1 /\ q > -1
  BY <1>1
<1> QED
  BY <1>1, <1>2

\* A number less than a cycle back is the one that its remainder means,
LEMMA MeantIs ==
  ASSUME NEW s \in Nat \ {0}, NEW h \in Int, NEW n \in Int, n <= h, h - n < s
  PROVE  h - ((h - (n % s)) % s) = n
<1>1. n % s \in Int /\ h - (n % s) = s * (n \div s) + (h - n)
  BY Remainder
<1>2. h - n \in 0..(s - 1) /\ n \div s \in Int
  BY Remainder
<1> DEFINE q == n \div s
           r == h - n
           e == h - (n % s)
<1>3. q \in Int /\ r \in 0..(s - 1) /\ e = s * q + r
  BY <1>1, <1>2
<1>5. h - r = n
  OBVIOUS
<1> HIDE DEF q, r, e
<1>4. e % s = r
  BY <1>3, RemainderIs
<1> QED
  BY <1>4, <1>5 DEF e

\* and what a remainder means has it.
LEMMA MeantHas ==
  ASSUME NEW s \in Nat \ {0}, NEW h \in Int, NEW x \in 0..(s - 1)
  PROVE  LET n == h - ((h - x) % s) IN n \in Int /\ n <= h /\ h - n < s /\ n % s = x
<1> DEFINE r == (h - x) % s
           q == (h - x) \div s
           n == h - r
<1>1. r \in 0..(s - 1) /\ q \in Int /\ h - x = s * q + r
  BY Remainder
<1>3. n = h - r
  OBVIOUS
<1> HIDE DEF r, q, n
<1>2. n = s * q + x
  BY <1>1, <1>3
<1>4. n % s = x
  BY <1>1, <1>2, RemainderIs
<1>5. n \in Int /\ n <= h /\ h - n < s
  BY <1>1, <1>3
<1> QED
  BY <1>4, <1>5 DEF n, r

\* A map of so many ranges that every two of them are two keys apart, and the offsets
\* grow: it goes as far back as the slots do.
Spaced(R, size) ==
  /\ Len(R) <= size + 1
  /\ R[1].start = 0 \/ Len(R) = size + 1
  /\ \A i, j \in 1..Len(R) :
       i < j => R[i].value <= R[j].value /\ R[j].start - R[i].start >= 2 * (j - i)

\* One more range, two keys on and with no less an offset.
LEMMA OneMore ==
  ASSUME NEW L \in Nat \ {0}, NEW a \in [1..L + 1 -> Int], NEW v \in [1..L + 1 -> Int],
         \A i, j \in 1..L : i < j => v[i] <= v[j] /\ a[j] - a[i] >= 2 * (j - i),
         v[L] <= v[L + 1], a[L + 1] - a[L] >= 2
  PROVE  \A i, j \in 1..L + 1 : i < j => v[i] <= v[j] /\ a[j] - a[i] >= 2 * (j - i)
<1> SUFFICES ASSUME NEW i \in 1..L + 1, NEW j \in 1..L + 1, i < j
             PROVE  v[i] <= v[j] /\ a[j] - a[i] >= 2 * (j - i)
  OBVIOUS
<1>1. i \in 1..L /\ L \in 1..L
  OBVIOUS
<1>2. CASE j \in 1..L
  BY <1>2, <1>1
<1>3. CASE j = L + 1
  <2>1. v[i] <= v[L] /\ a[L] - a[i] >= 2 * (L - i)
    <3>1. CASE i = L
      BY <3>1
    <3>2. CASE i < L
      BY <1>1, <3>2
    <3> QED
      BY <1>1, <3>1, <3>2
  <2>2. /\ a[i] \in Int /\ a[L] \in Int /\ a[L + 1] \in Int
        /\ v[i] \in Int /\ v[L] \in Int /\ v[L + 1] \in Int /\ i \in Int /\ L \in Int
    BY <1>1
  <2>3. v[i] <= v[L + 1] /\ a[L + 1] - a[i] >= 2 * (L + 1 - i)
    <3> DEFINE p == a[i]  q == a[L]  s == a[L + 1]  k == L - i
               x == v[i]  y == v[L]  z == v[L + 1]
    <3>1. /\ p \in Int /\ q \in Int /\ s \in Int /\ k \in Int /\ q - p >= 2 * k /\ s - q >= 2
          /\ x \in Int /\ y \in Int /\ z \in Int /\ x <= y /\ y <= z
      BY <2>1, <2>2
    <3>2. 2 * (L + 1 - i) = 2 * k + 2
      BY ONLY <2>2
    <3> HIDE DEF p, q, s, k, x, y, z
    <3>3. x <= z /\ s - p >= 2 * k + 2
      BY ONLY <3>1
    <3> QED
      BY ONLY <3>2, <3>3 DEF p, s, x, z
  <2> QED
    BY ONLY <2>3, <1>3
<1> QED
  BY <1>2, <1>3

LEMMA ExcludeSpaced ==
  ASSUME NEW R, Ordered(R), NEW size \in Nat \ {0}, Spaced(R, size),
         NEW from \in Nat \ {0}, NEW to \in Nat, OpenRange(R).start <= from, from <= to
  PROVE  Spaced(ExcludeRange(R, size, from, to), size)
<1> DEFINE L == Len(R)
           value == OpenRange(R).value + (to - from + 1)
           new == [start |-> to + 1, end |-> 0, value |-> value]
<1>1. /\ L \in Nat \ {0} /\ R \in Seq(SnRange) /\ R \in [1..L -> SnRange] /\ OpenRange(R) = R[L]
      /\ R[L].start \in Nat /\ R[L].value \in Int
      /\ \A i \in 1..L : R[i].start \in Nat /\ R[i].value \in Int
  <2>1. L \in Nat \ {0} /\ R \in Seq(SnRange)
    BY OrderedTypes DEF Ordered
  <2>2. R \in [1..L -> SnRange] /\ L \in 1..L
    BY <2>1
  <2>3. \A i \in 1..L : R[i].start \in Nat /\ R[i].value \in Int
    BY ONLY <2>2 DEF SnRange
  <2>4. OpenRange(R) = R[L]
    BY DEF OpenRange
  <2> QED
    BY ONLY <2>1, <2>2, <2>3, <2>4
<1>2. new \in SnRange /\ new.start = to + 1 /\ new.value = R[L].value + (to - from + 1)
  BY <1>1 DEF SnRange
<1>3. /\ \A i, j \in 1..L : i < j => R[i].value <= R[j].value /\ R[j].start - R[i].start >= 2 * (j - i)
      /\ L <= size + 1 /\ (R[1].start = 0 \/ L = size + 1)
  BY DEF Spaced
<1>4. OpenRange(R).start = from => ExcludeRange(R, size, from, to) = [R EXCEPT ![L] = new]
  BY DEF ExcludeRange
<1>5. OpenRange(R).start < from =>
        ExcludeRange(R, size, from, to) = Prune(Append([R EXCEPT ![L].end = from - 1], new), size)
  BY <1>1 DEF ExcludeRange, Split
<1> HIDE DEF L, new, value
<1>6. CASE OpenRange(R).start = from
  <2> DEFINE Q == [R EXCEPT ![L] = new]
  <2>1. Q \in [1..L -> SnRange] /\ Q[L] = new /\ \A i \in 1..L : i # L => Q[i] = R[i]
    BY <1>1, <1>2
  <2> HIDE DEF Q
  <2>2. Q \in Seq(SnRange) /\ Len(Q) = L
    BY <1>1, <2>1
  <2>3. L # 1
    BY <1>1, <1>3, <1>6
  <2> DEFINE K == L - 1
             a == [i \in 1..L |-> Q[i].start]
             v == [i \in 1..L |-> Q[i].value]
  <2>4. K \in Nat \ {0} /\ K + 1 = L /\ K \in 1..L /\ K # L /\ K < L
    BY <1>1, <2>3
  <2>5. /\ \A i \in 1..K : Q[i] = R[i] /\ a[i] = R[i].start /\ v[i] = R[i].value
        /\ a[L] = to + 1 /\ v[L] = R[L].value + (to - from + 1)
        /\ a \in [1..L -> Int] /\ v \in [1..L -> Int]
    <3>1. \A i \in 1..K : i \in 1..L /\ i # L
      BY <2>4
    <3>2. \A i \in 1..L : Q[i].start \in Int /\ Q[i].value \in Int
      BY <2>1 DEF SnRange
    <3> QED
      BY <1>1, <1>2, <2>1, <3>1, <3>2
  <2>9. \A i \in 1..L : a[i] = Q[i].start /\ v[i] = Q[i].value
    OBVIOUS
  <2> HIDE DEF a, v, K
  <2>6. R[L].value >= R[K].value /\ R[L].start - R[K].start >= 2 /\ R[K].value \in Int /\ R[K].start \in Int
    BY <1>1, <1>3, <2>4
  <2>7. K \in 1..K /\ v[K] <= v[L] /\ a[L] - a[K] >= 2
    <3>1. K \in 1..K /\ v[K] = R[K].value /\ a[K] = R[K].start
      BY <2>4, <2>5
    <3>2. R[L].start = from
      BY <1>1, <1>6
    <3>3. a[L] - a[K] >= 2
      BY <2>5, <2>6, <3>1, <3>2
    <3>4. v[K] <= v[L]
      <4>1. \A x, y, z \in Int : x >= y /\ z >= 0 => y <= x + z
        OBVIOUS
      <4>2. to - from + 1 \in Int /\ to - from + 1 >= 0
        OBVIOUS
      <4>3. R[K].value <= R[L].value + (to - from + 1)
        BY ONLY <1>1, <2>6, <4>1, <4>2
      <4> QED
        BY ONLY <2>5, <3>1, <4>3
    <3> QED
      BY <3>1, <3>3, <3>4
  <2>8. \A i, j \in 1..K : i < j => v[i] <= v[j] /\ a[j] - a[i] >= 2 * (j - i)
    <3>1. \A i \in 1..K : i \in 1..L
      BY <2>4
    <3> QED
      BY <1>3, <2>5, <3>1
  <2>10. \A i, j \in 1..K + 1 : i < j => v[i] <= v[j] /\ a[j] - a[i] >= 2 * (j - i)
    BY <2>4, <2>5, <2>7, <2>8, OneMore
  <2>11. Q[1].start = 0 \/ Len(Q) = size + 1
    <3>1. 1 \in 1..K
      BY <2>4
    <3> QED
      BY <1>3, <2>2, <2>5, <3>1
  <2>12. Spaced(Q, size)
    <3>1. \A i, j \in 1..Len(Q) : i < j => Q[i].value <= Q[j].value /\ Q[j].start - Q[i].start >= 2 * (j - i)
      BY <2>2, <2>4, <2>9, <2>10
    <3> QED
      BY <1>3, <2>2, <2>11, <3>1 DEF Spaced
  <2> QED
    BY <1>4, <1>6, <2>12 DEF Q
<1>7. CASE OpenRange(R).start < from
  <2> DEFINE C == [R EXCEPT ![L].end = from - 1]
             Q == Append(C, new)
             a == [i \in 1..L + 1 |-> Q[i].start]
             v == [i \in 1..L + 1 |-> Q[i].value]
  <2>1. /\ C \in Seq(SnRange) /\ Len(C) = L
        /\ \A i \in 1..L : C[i].start = R[i].start /\ C[i].value = R[i].value
    <3>1. L \in 1..L
      BY <1>1
    <3>2. R[L] = [start |-> R[L].start, end |-> R[L].end, value |-> R[L].value]
      BY <1>1, <3>1 DEF SnRange
    <3>3. [R[L] EXCEPT !.end = from - 1] \in SnRange
      BY <1>1, <3>1, <3>2 DEF SnRange
    <3>4. C \in [1..L -> SnRange]
      BY <1>1, <3>1, <3>3
    <3>5. C \in Seq(SnRange) /\ Len(C) = L
      BY <3>4, <1>1
    <3>6. \A i \in 1..L : C[i].start = R[i].start /\ C[i].value = R[i].value
      BY <1>1, <3>1, <3>2
    <3> QED
      BY <3>5, <3>6
  <2> HIDE DEF C
  <2>2. /\ Q \in Seq(SnRange) /\ Len(Q) = L + 1 /\ Q[L + 1] = new
        /\ \A i \in 1..L : Q[i] = C[i]
    BY <1>1, <1>2, <2>1
  <2> HIDE DEF Q
  <2>3. /\ \A i \in 1..L : Q[i].start = R[i].start /\ Q[i].value = R[i].value
        /\ \A i \in 1..L : a[i] = R[i].start /\ v[i] = R[i].value
        /\ a[L + 1] = to + 1 /\ v[L + 1] = R[L].value + (to - from + 1)
        /\ a \in [1..L + 1 -> Int] /\ v \in [1..L + 1 -> Int]
    <3>1. \A i \in 1..L : i \in 1..L + 1 /\ Q[i].start = R[i].start /\ Q[i].value = R[i].value
      BY <1>1, <2>1, <2>2
    <3>2. \A i \in 1..L + 1 : Q[i].start \in Int /\ Q[i].value \in Int
      <4>1. \A i \in 1..L + 1 : Q[i] \in SnRange
        BY <2>2
      <4> QED
        BY <4>1 DEF SnRange
    <3>3. L + 1 \in 1..L + 1
      BY <1>1
    <3> QED
      BY <1>2, <2>2, <3>1, <3>2, <3>3
  <2>4. \A i \in 1..L + 1 : a[i] = Q[i].start /\ v[i] = Q[i].value
    OBVIOUS
  <2>5. L \in 1..L /\ v[L] <= v[L + 1] /\ a[L + 1] - a[L] >= 2
    <3>1. L \in 1..L
      BY <1>1
    <3>2. /\ a[L] = R[L].start /\ v[L] = R[L].value
          /\ a[L + 1] = to + 1 /\ v[L + 1] = R[L].value + (to - from + 1)
      BY <2>3, <3>1
    <3>3. /\ R[L].start \in Nat /\ R[L].value \in Int /\ from \in Nat /\ to \in Nat
          /\ R[L].start < from /\ from <= to
      BY <1>1, <1>7
    <3> HIDE DEF a, v
    <3> QED
      BY ONLY <3>1, <3>2, <3>3
  <2>6. \A i, j \in 1..L : i < j => v[i] <= v[j] /\ a[j] - a[i] >= 2 * (j - i)
    BY <1>3, <2>3
  <2> HIDE DEF a, v
  <2>7. \A i, j \in 1..L + 1 : i < j => v[i] <= v[j] /\ a[j] - a[i] >= 2 * (j - i)
    BY <1>1, <2>3, <2>5, <2>6, OneMore
  <2>8. CASE Len(Q) > size + 1
    <3> DEFINE P == SubSeq(Q, Len(Q) - size, Len(Q))
    <3>1. Prune(Q, size) = P
      BY <2>8 DEF Prune
    <3>2. L = size + 1 /\ Len(Q) = size + 2
      BY <1>1, <1>3, <2>2, <2>8
    <3>3. Len(P) = size + 1 /\ \A i \in 1..size + 1 : P[i] = Q[i + 1]
      BY <2>2, <3>2
    <3> HIDE DEF P
    <3>4. ASSUME NEW i \in 1..Len(P), NEW j \in 1..Len(P), i < j
          PROVE  P[i].value <= P[j].value /\ P[j].start - P[i].start >= 2 * (j - i)
      <4> DEFINE c == i + 1
                 d == j + 1
      <4>1. i \in 1..size + 1 /\ j \in 1..size + 1
        BY <3>3
      <4>2. c \in 1..L + 1 /\ d \in 1..L + 1 /\ c < d /\ d - c = j - i
        BY <3>2, <3>4, <4>1
      <4>3. P[i] = Q[c] /\ P[j] = Q[d]
        BY <3>3, <4>1
      <4> HIDE DEF c, d
      <4>4. P[i].start = a[c] /\ P[i].value = v[c] /\ P[j].start = a[d] /\ P[j].value = v[d]
        BY <2>4, <4>2, <4>3
      <4>5. v[c] <= v[d] /\ a[d] - a[c] >= 2 * (d - c)
        BY <2>7, <4>2
      <4> QED
        BY <4>2, <4>4, <4>5
    <3>5. Spaced(P, size)
      BY <3>3, <3>4 DEF Spaced
    <3> QED
      BY <1>5, <1>7, <3>1, <3>5 DEF Q, C
  <2>9. CASE ~(Len(Q) > size + 1)
    <3>1. Prune(Q, size) = Q
      BY <2>9 DEF Prune
    <3>2. L < size + 1 /\ Len(Q) <= size + 1
      BY <1>1, <2>2, <2>9
    <3>3. 1 \in 1..L /\ Q[1].start = 0
      BY <1>1, <1>3, <2>3, <3>2
    <3>4. \A i, j \in 1..Len(Q) : i < j => Q[i].value <= Q[j].value /\ Q[j].start - Q[i].start >= 2 * (j - i)
      BY <2>2, <2>4, <2>7
    <3>5. Spaced(Q, size)
      BY <3>2, <3>3, <3>4 DEF Spaced
    <3> QED
      BY <1>5, <1>7, <3>1, <3>5 DEF Q, C
  <2> QED
    BY <2>8, <2>9
<1> QED
  BY <1>1, <1>6, <1>7

\* What is less than twice its size back is not older than the map.
LEMMA GoesBack ==
  ASSUME NEW R, Ordered(R), NEW size \in Nat \ {0}, Spaced(R, size),
         NEW h \in Int, OpenRange(R).start <= h + 1,
         NEW n \in Nat, h - n < 2 * size
  PROVE  R[1].start <= n
<1>1. Len(R) \in Nat \ {0} /\ R[1].start \in Nat /\ R[Len(R)].start \in Nat /\ OpenRange(R) = R[Len(R)]
  BY OrderedTypes DEF OpenRange
<1>2. CASE R[1].start = 0
  BY <1>2
<1>3. CASE Len(R) = size + 1
  <2>1. 1 \in 1..Len(R) /\ Len(R) \in 1..Len(R) /\ 1 < Len(R)
    BY <1>3
  <2>2. R[Len(R)].start - R[1].start >= 2 * (Len(R) - 1)
    BY <2>1 DEF Spaced
  <2>3. 2 * (Len(R) - 1) = 2 * size
    BY <1>3
  <2> QED
    BY <1>1, <2>2, <2>3
<1> QED
  BY <1>2, <1>3 DEF Spaced

\* Keys are as near in number as they are, at most.
LEMMA Nearer ==
  ASSUME NEW R, Ordered(R), NEW size \in Nat, Spaced(R, size),
         NEW h \in Nat, OpenRange(R).start <= h + 1,
         NEW n \in Nat, Has(R, n), n <= h
  PROVE  LET top == h - OpenRange(R).value IN
         top \in Int /\ Number(R, n) \in Int /\ Number(R, n) <= top /\ top - Number(R, n) <= h - n
<1>1. PICK p \in 1..Len(R) : /\ ValueAt(R, n) = R[p].value /\ R[p].start <= n
                             /\ p < Len(R) => n <= R[p].end
  BY Found
<1>2. /\ Len(R) \in Nat \ {0} /\ OpenRange(R) = R[Len(R)]
      /\ R[Len(R)].start \in Nat /\ R[Len(R)].value \in Int
      /\ R[p].value \in Int /\ R[p].end \in Int
  BY OrderedTypes DEF OpenRange
<1>3. CASE p = Len(R)
  BY <1>1, <1>2, <1>3 DEF Number
<1>4. CASE p < Len(R)
  <2>1. R[p].value <= R[Len(R)].value
    BY <1>2, <1>4 DEF Spaced
  <2>2. R[p].end - R[p].value < R[Len(R)].start - R[Len(R)].value
    BY <1>2, <1>4 DEF Ordered
  <2> DEFINE v == R[p].value
             w == R[Len(R)].value
             b == R[Len(R)].start
  <2>4. v \in Int /\ w \in Int /\ b \in Int /\ v <= w /\ n - v < b - w /\ b <= h + 1
    BY <1>1, <1>2, <1>4, <2>1, <2>2
  <2>5. OpenRange(R).value = w /\ Number(R, n) = n - v
    BY <1>1, <1>2 DEF Number
  <2> HIDE DEF v, w, b
  <2> QED
    BY <2>4, <2>5
<1> QED
  BY <1>2, <1>3, <1>4

\* The ranges of the sequencer go back as far as its slots, to before what was not
\* excluded: what is not in them is padding.
MapInv ==
  LET R == seqr.ranges IN
  /\ Ordered(R) /\ Spaced(R, SeqRanges)
  /\ OpenRange(R).start <= seqr.highest + 1
  /\ seqr.start <= seqr.highest
  /\ IF seqr.initialized THEN seqr.highest \in Numbers /\ given[seqr.highest] # Nothing
     ELSE seqr.highest = 0 /\ OpenRange(R).start = 0
  /\ \A n \in Numbers : R[1].start <= n /\ ~Has(R, n) => given[n].kind = "padding"

\* A burst that is on its way has its numbers, and the other packets are not far ahead.
BurstInv ==
  padding # NoBurst =>
    /\ padding.from \in 1..padding.to
    /\ \A n \in padding.from..padding.to : n \in Numbers /\ given[n].kind = "padding"
    /\ seqr.highest - padding.from <= MaxLag
    /\ \A f \in Feeds : flight[f].number - padding.from <= MaxLag

\* A recorded packet is in its slot until the sequencer is a ring further on.
InSlot(n) == seqr.meta[SlotOf(seqr, n)] = [number |-> n, sn |-> given[n].sn]
SlotsInv ==
  /\ \A n \in Numbers :
       Recorded(n) =>
         /\ seqr.initialized /\ n <= seqr.highest
         /\ n >= seqr.start /\ seqr.highest - n < Slots => InSlot(n)
  /\ \A k \in 0..(Slots - 1) : seqr.meta[k] # Invalid => seqr.meta[k].number <= seqr.highest

SequencerInv == MapInv /\ BurstInv /\ SlotsInv

\* The ranges the sequencer keeps go back a ring.
LEMMA RangesCoverSlots == SeqRanges \in Nat \ {0} /\ Slots <= 2 * SeqRanges
<1> DEFINE s == Slots + 1
<1>1. Slots \in Nat \ {0} /\ s \in Int /\ 2 \in Nat \ {0}
  BY ForwardingConstants
<1>2. s = Slots + 1
  OBVIOUS
<1> HIDE DEF s
<1>3. s % 2 \in 0..1 /\ s \div 2 \in Int /\ s = 2 * (s \div 2) + (s % 2)
  BY <1>1, Remainder
<1>4. s \div 2 >= 1 /\ Slots <= 2 * (s \div 2)
  BY <1>1, <1>2, <1>3
<1> QED
  BY <1>3, <1>4 DEF SeqRanges, s

\* What is not a ring back is in the map, if what is not older than the map is, and its
\* slot is none of a later number's.
LEMMA RecentHas ==
  ASSUME NEW R, Ordered(R), Spaced(R, SeqRanges), NEW h \in Nat, OpenRange(R).start <= h + 1,
         NEW n \in Nat, n <= h, h - n < Slots, R[1].start <= n => Has(R, n)
  PROVE  LET top == h - OpenRange(R).value IN
         /\ Has(R, n) /\ top \in Int /\ Number(R, n) \in Int
         /\ Number(R, n) <= top /\ top - Number(R, n) <= h - n
<1>1. SeqRanges \in Nat \ {0} /\ Slots <= 2 * SeqRanges /\ Slots \in Nat
  BY RangesCoverSlots, ForwardingConstants
<1>2. R[1].start <= n
  <2>1. h - n < 2 * SeqRanges /\ h \in Int
    BY <1>1
  <2> QED
    BY <1>1, <2>1, GoesBack
<1> QED
  BY <1>1, <1>2, Nearer

\* The types of the sequencer, as they are used.
LEMMA SequencerTypes ==
  ASSUME MungerInv
  PROVE  /\ seqr.highest \in Nat /\ seqr.start \in Nat /\ seqr.initialized \in BOOLEAN
         /\ seqr.meta \in [0..(Slots - 1) -> Packet] /\ DOMAIN seqr.meta = 0..(Slots - 1)
         /\ seqr.ranges \in Seq(SnRange) /\ seqr \in Sequencers
         /\ flight \in [Feeds -> Packet] /\ given \in [Numbers -> Contents]
         /\ padding \in [from : Nat, to : Nat]
BY DEF MungerInv, InSourceOrder, ForwardingTypes, Sequencers

\* A number that was given stays what it was.
LEMMA KeptIs ==
  ASSUME Kept, NEW n \in Numbers, given[n].kind # "nothing"
  PROVE  given'[n] = given[n]
BY DEF Kept, Nothing

\* A step of the munger records nothing and leaves the sequencer alone.
LEMMA MungerLeavesSlots ==
  ASSUME MungerInv, MapInv, SlotsInv, Kept, UNCHANGED seqr,
         \A n \in Numbers : Recorded(n)' => Recorded(n)
  PROVE  MapInv' /\ SlotsInv'
<1>1. MapInv'
  <2>1. seqr.initialized => given'[seqr.highest] # Nothing
    BY DEF MapInv, Kept
  <2>2. \A n \in Numbers : given[n].kind = "padding" => given'[n].kind = "padding"
    BY KeptIs
  <2> QED
    BY <2>1, <2>2 DEF MapInv
<1>2. ASSUME NEW n \in Numbers, Recorded(n)'
      PROVE  /\ seqr.initialized /\ n <= seqr.highest
             /\ n >= seqr.start /\ seqr.highest - n < Slots => InSlot(n)'
  <2>1. Recorded(n) /\ given'[n] = given[n]
    BY <1>2, KeptIs DEF Recorded
  <2>2. InSlot(n)' <=> InSlot(n)
    BY <2>1 DEF InSlot
  <2> QED
    BY <2>1, <2>2 DEF SlotsInv
<1> QED
  BY <1>1, <1>2 DEF SlotsInv

\* A number on its way to the sequencer is not recorded yet.
LEMMA SendRecordsNothing ==
  ASSUME MungerInv, 0 \notin Numbers, NEW f \in Feeds, NEW sn, NEW n, NEW t,
         flight[f] = NoPacket, Send(f, sn, n, t)
  PROVE  /\ \A m \in Numbers : Recorded(m)' => Recorded(m)
         /\ \A g \in Feeds : flight'[g].number \in {n, flight[g].number}
<1>1. /\ flight' = [flight EXCEPT ![f] = [number |-> n, sn |-> sn]]
      /\ given' = [given EXCEPT ![n] = Media(t, sn)] /\ n \in Numbers
  BY DEF Send, MayGive
<1>2. /\ flight'[f].number = n /\ \A g \in Feeds : g # f => flight'[g] = flight[g]
      /\ \A m \in Numbers : m # n => given'[m] = given[m]
  BY <1>1, SequencerTypes
<1>3. ASSUME NEW m \in Numbers, Recorded(m)' PROVE Recorded(m)
  <2>1. m # n /\ given[m].kind = "media" /\ \A g \in Feeds : g # f => flight[g].number # m
    BY <1>2, <1>3 DEF Recorded
  <2>2. flight[f].number = 0
    BY DEF NoPacket
  <2> QED
    BY <2>1, <2>2 DEF Recorded
<1> QED
  BY <1>2, <1>3

\* Nor does anything come to be recorded while no packet is sent.
LEMMA QuietRecordsNothing ==
  ASSUME UNCHANGED flight, \A n \in Numbers : given'[n] = given[n] \/ given'[n].kind # "media",
         NEW n \in Numbers, Recorded(n)'
  PROVE  Recorded(n)
BY DEF Recorded

\* A burst stays what it is while the sequencer stays and no number is far ahead of it.
LEMMA BurstStays ==
  ASSUME MungerInv, BurstInv, Kept, UNCHANGED <<seqr, padding>>,
         padding # NoBurst => \A f \in Feeds : flight'[f].number - padding.from <= MaxLag
  PROVE  BurstInv'
<1>1. \A n \in Numbers : given[n].kind = "padding" => given'[n].kind = "padding"
  BY KeptIs
<1> QED
  BY <1>1 DEF BurstInv

\* The steps of the munger that number packets or leave numbers out.
LEMMA PacketsLeaveSlots ==
  ASSUME MungerInv, RecordedInv, SequencerInv, 0 \notin Numbers, Kept,
         NEW f \in Feeds, NEW sn \in Incoming[f],
         InOrder(f, sn) \/ Drop(f, sn) \/ LatePacket(f, sn) \/ Start(f, sn) \/ SwitchFeed(f, sn)
  PROVE  SequencerInv'
<1>1. flight[f] = NoPacket /\ UNCHANGED <<seqr, padding>>
  BY DEF InOrder, Drop, LatePacket, Start, SwitchFeed, SwitchTo, Arrives
<1>2. \/ \E n, t : Send(f, sn, n, t)
      \/ \E n : Withhold(n)
      \/ UNCHANGED <<flight, given>>
  BY DEF InOrder, Drop, LatePacket, Start, SwitchFeed, SwitchTo
<1>3. CASE \E n, t : Send(f, sn, n, t)
  <2>1. PICK n, t : Send(f, sn, n, t)
    BY <1>3
  <2>2. \A m \in Numbers : Recorded(m)' => Recorded(m)
    BY <1>1, <2>1, SendRecordsNothing
  <2>3. \A g \in Feeds : flight'[g].number \in {n, flight[g].number}
    BY <1>1, <2>1, SendRecordsNothing
  <2>4. padding # NoBurst => \A g \in Feeds : flight'[g].number - padding.from <= MaxLag
    BY <2>1, <2>3 DEF Send, MayGive, SequencerInv, BurstInv
  <2> QED
    BY <1>1, <2>2, <2>4, MungerLeavesSlots, BurstStays DEF SequencerInv
<1>4. CASE UNCHANGED flight /\ \A n \in Numbers : given'[n] = given[n] \/ given'[n].kind # "media"
  <2>1. \A m \in Numbers : Recorded(m)' => Recorded(m)
    BY <1>4, QuietRecordsNothing
  <2>2. padding # NoBurst => \A g \in Feeds : flight'[g].number - padding.from <= MaxLag
    BY <1>4 DEF SequencerInv, BurstInv
  <2> QED
    BY <1>1, <2>1, <2>2, MungerLeavesSlots, BurstStays DEF SequencerInv
<1>5. ASSUME NEW n, Withhold(n)
      PROVE  UNCHANGED flight /\ \A m \in Numbers : given'[m] = given[m] \/ given'[m].kind # "media"
  BY <1>5, SequencerTypes DEF Withhold, Withheld
<1>6. CASE \E n : Withhold(n)
  BY <1>4, <1>5, <1>6
<1>7. CASE UNCHANGED <<flight, given>>
  BY <1>4, <1>7
<1> QED
  BY <1>2, <1>3, <1>6, <1>7

\* A burst gets numbers that follow all that are recorded or on their way.
LEMMA PaddingLeavesSlots ==
  ASSUME MungerInv, RecordedInv, SequencerInv, MaxLag \in Nat, Kept,
         NEW num \in 1..MaxBurst, WritePadding(num)
  PROVE  SequencerInv'
<1> DEFINE from == (IF started THEN last ELSE Dummy) + 1
           to == from + num - 1
<1>1. /\ from..to \subseteq Numbers /\ padding' = [from |-> from, to |-> to]
      /\ given' = [n \in Numbers |-> IF n \in from..to THEN Padding ELSE given[n]]
      /\ UNCHANGED <<flight, seqr>>
  BY DEF WritePadding
<1>2. from \in Nat \ {0} /\ to \in Nat /\ from <= to /\ (started => from = last + 1)
  BY ForwardingConstants DEF MungerInv, InSourceOrder, ForwardingTypes
<1> HIDE DEF from, to
<1>3. \A n \in Numbers : given[n].kind # "nothing" => n < from
  <2> SUFFICES ASSUME NEW n \in Numbers, given[n].kind # "nothing" PROVE n < from
    OBVIOUS
  <2>1. started /\ ~(n > last)
    BY DEF MungerInv, Nothing
  <2> QED
    BY <1>2, <2>1, ForwardingConstants DEF MungerInv, InSourceOrder, ForwardingTypes
<1>4. seqr.highest <= from
  <2>1. CASE seqr.initialized
    <3>1. seqr.highest \in Numbers /\ given[seqr.highest] # Nothing
      BY <2>1 DEF SequencerInv, MapInv
    <3>2. seqr.highest \in Nat /\ (started /\ ~(seqr.highest > last))
      BY <3>1, ForwardingConstants DEF MungerInv
    <3> QED
      BY <1>2, <3>2 DEF MungerInv, InSourceOrder, ForwardingTypes
  <2>2. CASE ~seqr.initialized
    BY <1>2, <2>2 DEF SequencerInv, MapInv
  <2> QED
    BY <2>1, <2>2
<1>5. \A f \in Feeds : flight[f].number <= from /\ flight[f].number \in Nat
  <2> SUFFICES ASSUME NEW f \in Feeds PROVE flight[f].number <= from /\ flight[f].number \in Nat
    OBVIOUS
  <2>1. flight[f].number \in Nat
    BY SequencerTypes DEF Packet
  <2>2. CASE flight[f] = Invalid
    BY <1>2, <2>1, <2>2 DEF Invalid
  <2>3. CASE flight[f] # Invalid
    <3>1. flight[f].number \in Numbers /\ given[flight[f].number].kind = "media"
      BY <2>3 DEF RecordedInv, Sent
    <3>2. flight[f].number < from
      BY <1>3, <3>1
    <3> QED
      BY <1>2, <2>1, <3>2
  <2> QED
    BY <2>2, <2>3
<1>6. BurstInv'
  <2>1. padding'.from = from /\ padding'.to = to
    BY <1>1
  <2>2. \A n \in from..to : n \in Numbers /\ given'[n].kind = "padding"
    BY <1>1 DEF Padding
  <2>3. seqr.highest - from <= MaxLag /\ \A f \in Feeds : flight[f].number - from <= MaxLag
    BY <1>2, <1>4, <1>5, SequencerTypes
  <2>4. from \in 1..to
    BY <1>2
  <2> QED
    BY <1>1, <2>1, <2>2, <2>3, <2>4 DEF BurstInv
<1>7. \A m \in Numbers : Recorded(m)' => Recorded(m)
  BY <1>1, QuietRecordsNothing DEF Padding
<1> QED
  BY <1>1, <1>6, <1>7, MungerLeavesSlots DEF SequencerInv

\* Recording a packet keeps the others that are less than a ring back.
LEMMA PushKeepsSlots ==
  ASSUME MungerInv, RecordedInv, SequencerInv, MaxLag \in Nat, 0 \notin Numbers,
         NEW f \in Feeds, Push(f)
  PROVE  SequencerInv'
<1> DEFINE p == flight[f]
           n == p.number
           s == Begun(n)
           R == seqr.ranges
           h == s.highest
           top == h - OpenRange(R).value
           old == TooOld(s, n)
           put == [k \in DOMAIN s.meta |->
                     IF k = SlotOf(s, n) THEN p
                     ELSE IF k \in Skipped(s, n) THEN Invalid ELSE s.meta[k]]
           pushed == [s EXCEPT !.highest = IF n > @ THEN n ELSE @,
                               !.meta = [k \in DOMAIN @ |->
                                  IF k = SlotOf(s, n) THEN p
                                  ELSE IF k \in Skipped(s, n) THEN Invalid ELSE @[k]]]
<1>1. /\ p # NoPacket /\ flight' = [flight EXCEPT ![f] = NoPacket]
      /\ seqr' = IF old THEN s ELSE pushed
      /\ UNCHANGED <<padding, given>>
  BY DEF Push
<1>2. /\ n \in Numbers /\ n \in Nat /\ given[n].kind = "media"
      /\ p = [number |-> n, sn |-> given[n].sn]
  <2>1. p \in Packet /\ Sent(p)
    BY SequencerTypes DEF RecordedInv
  <2>2. n \in Numbers /\ given[n].kind = "media" /\ given[n].sn = p.sn
    BY <1>1, <2>1 DEF Sent, NoPacket, Invalid
  <2>3. p = [number |-> p.number, sn |-> p.sn] /\ n \in Nat
    BY <2>1 DEF Packet
  <2> QED
    BY <2>2, <2>3
<1> HIDE DEF p, n
<1>3. /\ Ordered(R) /\ Spaced(R, SeqRanges) /\ OpenRange(R).start \in Nat /\ OpenRange(R).value \in Int
      /\ \A m \in Numbers : R[1].start <= m /\ ~Has(R, m) => given[m].kind = "padding"
  BY OrderedTypes DEF SequencerInv, MapInv
<1>4. /\ s \in Sequencers /\ s.ranges = R /\ s.meta = seqr.meta /\ s.initialized = TRUE
      /\ h \in Nat /\ s.start \in Nat /\ s.start <= h /\ h \in Numbers /\ given[h] # Nothing
      /\ OpenRange(R).start <= h + 1 /\ seqr.highest <= h
      /\ seqr.initialized => s = seqr
      /\ ~seqr.initialized => h = n
  <2>1. CASE seqr.initialized
    <3>1. s = seqr
      BY <2>1 DEF Begun
    <3>2. seqr.initialized = TRUE
      BY <2>1, SequencerTypes
    <3> HIDE DEF s
    <3> QED
      BY <2>1, <3>1, <3>2, SequencerTypes DEF SequencerInv, MapInv
  <2>2. CASE ~seqr.initialized
    <3>1. s = [seqr EXCEPT !.initialized = TRUE, !.start = n, !.highest = n]
      BY <2>2 DEF Begun
    <3>2. /\ s \in Sequencers /\ s.ranges = R /\ s.meta = seqr.meta /\ s.initialized = TRUE
          /\ s.highest = n /\ s.start = n
      <4> HIDE DEF s
      <4> QED
        BY <1>2, <3>1, SequencerTypes DEF Sequencers
    <3>3. seqr.highest = 0 /\ OpenRange(R).start = 0
      BY <2>2 DEF SequencerInv, MapInv
    <3> HIDE DEF s, R
    <3> QED
      BY <1>2, <2>2, <3>2, <3>3 DEF Nothing
  <2> QED
    BY <2>1, <2>2
<1>5. /\ top \in Int /\ HighestAdjusted(s) = top
      /\ \A m : Adjusted(s, m) = Number(R, m)
      /\ \A m : SlotOf(s, m) = Number(R, m) % Slots
  BY <1>3, <1>4 DEF HighestAdjusted, SlotOf, Adjusted, Number
<1>6. /\ \A k \in 0..(Slots - 1) :
           put[k] = IF k = SlotOf(s, n) THEN p ELSE IF k \in Skipped(s, n) THEN Invalid ELSE seqr.meta[k]
      /\ seqr'.ranges = R /\ seqr'.start = s.start /\ seqr'.initialized = TRUE
      /\ old => seqr'.highest = h /\ seqr'.meta = seqr.meta
      /\ ~old => seqr'.highest = (IF n > h THEN n ELSE h) /\ seqr'.meta = put
  <2>1. DOMAIN s.meta = 0..(Slots - 1)
    BY <1>4, SequencerTypes
  <2>2. pushed.ranges = s.ranges /\ pushed.start = s.start /\ pushed.initialized = s.initialized
        /\ pushed.highest = (IF n > h THEN n ELSE h) /\ pushed.meta = put
    <3> HIDE DEF s
    <3> QED
      BY <1>4 DEF Sequencers
  <2> HIDE DEF s, pushed, old
  <2> QED
    BY <1>1, <1>4, <2>1, <2>2
<1>7. old <=> (n < s.start \/ (n < h /\ ~Has(R, n)) \/ Number(R, n) - top <= -Slots)
  <2>1. Adjusted(s, n) = Number(R, n) /\ HighestAdjusted(s) = top /\ s.ranges = R /\ s.highest = h
    BY <1>4, <1>5
  <2> HIDE DEF s, R, top, h, put, pushed
  <2> QED
    BY <2>1 DEF TooOld
<1>8. \A k : k \in Skipped(s, n) <=> \E j \in (top + 1)..(Number(R, n) - 1) : k = j % Slots
  BY <1>5 DEF Skipped
<1> DEFINE g == seqr'.highest
<1> HIDE DEF s, R, top, old, put, pushed, h
<1>9. Slots \in Nat \ {0} /\ Numbers \subseteq Nat
  BY ForwardingConstants
<1>10. \A m \in Numbers : given[m].kind # "padding" => (R[1].start <= m => Has(R, m))
  BY <1>3
<1>11. n > h => Has(R, n) /\ Number(R, n) = n - OpenRange(R).value /\ Number(R, n) - top = n - h
  <2> SUFFICES ASSUME n > h PROVE Has(R, n) /\ Number(R, n) = n - OpenRange(R).value
                                  /\ Number(R, n) - top = n - h
    OBVIOUS
  <2>1. n >= OpenRange(R).start
    BY <1>2, <1>3, <1>4
  <2>2. Has(R, n) /\ ValueAt(R, n) = OpenRange(R).value
    BY <1>2, <1>3, <2>1, InOpen
  <2> QED
    BY <1>2, <1>3, <1>4, <2>2 DEF Number, top
<1>12. g \in {n, h} /\ h <= g /\ n <= g /\ g \in Nat /\ g \in Numbers /\ (old => g = h)
  <2>1. n > h => ~old
    BY <1>2, <1>4, <1>7, <1>9, <1>11
  <2> QED
    BY <1>2, <1>4, <1>6, <2>1
<1>13. MapInv'
  <2>1. given[g] # Nothing
    BY <1>2, <1>4, <1>12 DEF Nothing
  <2>2. OpenRange(R).start <= g + 1 /\ s.start <= g
    BY <1>3, <1>4, <1>12
  <2> QED
    BY <1>1, <1>3, <1>6, <1>12, <2>1, <2>2 DEF MapInv
<1>14. BurstInv'
  <2> SUFFICES ASSUME padding # NoBurst
               PROVE  g - padding.from <= MaxLag
                      /\ \A e \in Feeds : flight'[e].number - padding.from <= MaxLag
    BY <1>1 DEF BurstInv, SequencerInv
  <2>1. /\ padding.from \in Nat /\ padding.from >= 1 /\ seqr.highest - padding.from <= MaxLag
        /\ \A e \in Feeds : flight[e].number - padding.from <= MaxLag
    BY SequencerTypes DEF SequencerInv, BurstInv
  <2>2. n - padding.from <= MaxLag
    BY <2>1 DEF n, p
  <2>3. \A e \in Feeds : flight'[e].number \in {0, flight[e].number}
    BY <1>1, SequencerTypes DEF NoPacket
  <2>4. g - padding.from <= MaxLag
    <3>1. h = seqr.highest \/ h = n
      BY <1>4 DEF h
    <3> QED
      BY <1>12, <2>1, <2>2, <3>1
  <2> QED
    BY <2>1, <2>3, <2>4
<1>15. ASSUME NEW k \in 0..(Slots - 1), seqr'.meta[k] # Invalid PROVE seqr'.meta[k].number <= g
  <2>1. seqr'.meta[k] \in {p, Invalid, seqr.meta[k]}
    BY <1>6
  <2>2. p.number <= g
    BY <1>12 DEF n
  <2>3. seqr.meta[k] # Invalid => seqr.meta[k].number <= g
    <3>1. seqr.meta[k].number \in Nat
      BY SequencerTypes DEF Packet
    <3>2. seqr.meta[k] # Invalid => seqr.meta[k].number <= seqr.highest
      BY DEF SequencerInv, SlotsInv
    <3> QED
      BY <1>4, <1>12, <3>1, <3>2, SequencerTypes
  <2> QED
    BY <1>15, <2>1, <2>2, <2>3
<1>16. ASSUME NEW m \in Numbers, Recorded(m)'
       PROVE  /\ m <= g
              /\ m >= s.start /\ g - m < Slots => seqr'.meta[SlotOf(seqr', m)] = [number |-> m, sn |-> given[m].sn]
  <2>1. /\ m \in Nat /\ given[m].kind = "media" /\ SlotOf(seqr', m) = Number(R, m) % Slots
        /\ \A e \in Feeds : flight'[e].number # m
    BY <1>1, <1>6, <1>9, <1>16 DEF Recorded, SlotOf, Adjusted, Number
  <2>2. m # n => Recorded(m)
    <3> SUFFICES ASSUME m # n, NEW e \in Feeds PROVE flight[e].number # m
      BY <2>1 DEF Recorded
    <3>1. e # f => flight'[e] = flight[e]
      BY <1>1, SequencerTypes
    <3> QED
      BY <2>1, <3>1 DEF n, p
  <2>3. m # n => /\ s = seqr /\ h = seqr.highest /\ m <= h
                 /\ m >= s.start /\ h - m < Slots =>
                      seqr.meta[Number(R, m) % Slots] = [number |-> m, sn |-> given[m].sn]
    <3>1. m # n => /\ seqr.initialized /\ m <= seqr.highest
                   /\ m >= seqr.start /\ seqr.highest - m < Slots => InSlot(m)
      BY <2>2 DEF SequencerInv, SlotsInv
    <3>2. seqr.initialized => s = seqr /\ h = seqr.highest
      BY <1>4 DEF h
    <3>3. SlotOf(s, m) = Number(R, m) % Slots
      BY <1>5
    <3> QED
      BY <3>1, <3>2, <3>3 DEF InSlot
  <2>4. m <= g
    BY <1>4, <1>12, <2>1, <2>3
  <2> SUFFICES ASSUME m >= s.start, g - m < Slots
               PROVE  seqr'.meta[Number(R, m) % Slots] = [number |-> m, sn |-> given[m].sn]
    BY <2>1, <2>4
  <2>5. m <= h => /\ h - m < Slots /\ Has(R, m) /\ Number(R, m) \in Int
                  /\ Number(R, m) <= top /\ top - Number(R, m) <= h - m
    <3> SUFFICES ASSUME m <= h
                 PROVE  /\ h - m < Slots /\ Has(R, m) /\ Number(R, m) \in Int
                        /\ Number(R, m) <= top /\ top - Number(R, m) <= h - m
      OBVIOUS
    <3>1. h - m < Slots
      BY <1>4, <1>9, <1>12, <2>1
    <3>2. R[1].start <= m => Has(R, m)
      BY <1>10, <2>1
    <3> QED
      BY <1>3, <1>4, <2>1, <3>1, <3>2, RecentHas DEF top
  <2>6. CASE m = n
    <3>1. Number(R, n) \in Int /\ ~old
      <4>1. CASE n <= h
        <5>1. Number(R, n) \in Int /\ Has(R, n) /\ top - Number(R, n) < Slots
          BY <1>2, <1>4, <1>5, <1>9, <2>5, <2>6, <4>1
        <5> QED
          BY <1>2, <1>4, <1>5, <1>7, <1>9, <2>6, <5>1
      <4>2. CASE n > h
        BY <1>2, <1>3, <1>4, <1>5, <1>7, <1>9, <1>11, <4>2
      <4> QED
        BY <1>2, <1>4, <4>1, <4>2
    <3>2. Number(R, n) % Slots \in 0..(Slots - 1)
      BY <1>9, <3>1, Remainder
    <3> QED
      BY <1>2, <1>5, <1>6, <2>6, <3>1, <3>2
  <2>7. CASE m # n /\ old
    BY <1>6, <1>12, <2>3, <2>7
  <2>8. CASE m # n /\ ~old
    <3>1. /\ m <= h /\ h - m < Slots /\ Has(R, m) /\ Number(R, m) \in Int
          /\ Number(R, m) <= top /\ top - Number(R, m) <= h - m
          /\ seqr.meta[Number(R, m) % Slots] = [number |-> m, sn |-> given[m].sn]
      BY <2>3, <2>5, <2>8
    <3>2. /\ Number(R, n) \in Int /\ Number(R, n) # Number(R, m)
          /\ Number(R, n) - Number(R, m) < Slots /\ Number(R, m) - Number(R, n) < Slots
      <4>1. CASE n > h
        <5>1. Number(R, n) \in Int /\ Number(R, n) = top + (n - h) /\ g = n
          BY <1>2, <1>3, <1>4, <1>5, <1>11, <1>12, <4>1
        <5> QED
          BY <1>2, <1>4, <1>5, <1>9, <2>1, <3>1, <4>1, <5>1
      <4>2. CASE n <= h
        <5>1. Has(R, n)
          <6>1. CASE n < h
            BY <1>7, <2>8, <6>1
          <6>2. CASE n = h
            <7>1. R[1].start <= n => Has(R, n)
              BY <1>2, <1>10
            <7>2. h - n < Slots
              BY <1>4, <1>9, <6>2
            <7> QED
              BY <1>2, <1>3, <1>4, <4>2, <7>1, <7>2, RecentHas
          <6> QED
            BY <1>2, <1>4, <4>2, <6>1, <6>2
        <5>2. Number(R, n) \in Int /\ Number(R, n) <= top
          BY <1>2, <1>3, <1>4, <4>2, <5>1, RangesCoverSlots, Nearer DEF top
        <5>3. Number(R, n) - top > -Slots
          BY <1>5, <1>7, <1>9, <2>8, <5>2
        <5>4. Number(R, n) # Number(R, m)
          BY <1>2, <1>3, <2>1, <2>8, <3>1, <5>1, <5>2, Monotone
        <5> QED
          BY <1>4, <1>5, <1>9, <2>1, <3>1, <5>2, <5>3, <5>4
      <4> QED
        BY <1>2, <1>4, <4>1, <4>2
    <3>3. Number(R, m) % Slots # Number(R, n) % Slots
      BY <1>9, <3>1, <3>2, SameRemainder
    <3>4. Number(R, m) % Slots \notin Skipped(s, n)
      <4> SUFFICES ASSUME NEW j \in (top + 1)..(Number(R, n) - 1),
                          Number(R, m) % Slots = j % Slots
                   PROVE  FALSE
        BY <1>8
      <4>1. j \in Int /\ j > Number(R, m) /\ j - Number(R, m) < Slots
        BY <1>5, <1>9, <3>1, <3>2
      <4>2. Number(R, m) - j < Slots
        BY <1>9, <3>1, <4>1
      <4> QED
        BY <1>9, <3>1, <4>1, <4>2, SameRemainder
    <3>5. Number(R, m) % Slots \in 0..(Slots - 1)
      BY <1>9, <3>1, Remainder
    <3> QED
      BY <1>5, <1>6, <2>8, <3>1, <3>3, <3>4, <3>5
  <2> QED
    BY <2>6, <2>7, <2>8
<1>17. SlotsInv'
  <2>1. \A m \in Numbers : given'[m] = given[m]
    BY <1>1
  <2> QED
    BY <1>6, <1>15, <1>16, <2>1 DEF SlotsInv, InSlot
<1> QED
  BY <1>13, <1>14, <1>17 DEF SequencerInv
\* A burst that is recorded in time is excluded, one that is late has its own slots wasted.
LEMMA PaddingKeepsSlots ==
  ASSUME MungerInv, RecordedInv, SequencerInv, MaxLag \in Nat, MaxLag < Slots, PushPadding
  PROVE  SequencerInv'
<1> DEFINE R == seqr.ranges
           h == seqr.highest
           from == padding.from
           to == padding.to
           burst == padding
<1>1. padding # NoBurst /\ padding' = NoBurst /\ UNCHANGED <<flight, given>>
  BY DEF PushPadding
<1>2. /\ h \in Nat /\ from \in Nat \ {0} /\ to \in Nat /\ from <= to /\ h - from <= MaxLag
      /\ \A n \in from..to : n \in Numbers /\ given[n].kind = "padding"
  BY <1>1, SequencerTypes DEF SequencerInv, BurstInv
<1>3. /\ Ordered(R) /\ Spaced(R, SeqRanges) /\ OpenRange(R).start <= h + 1 /\ seqr.start <= h
      /\ OpenRange(R).start \in Nat /\ OpenRange(R).value \in Int /\ R[1].start \in Nat
      /\ seqr.initialized => h \in Numbers /\ given[h] # Nothing
      /\ \A n \in Numbers : R[1].start <= n /\ ~Has(R, n) => given[n].kind = "padding"
  BY OrderedTypes DEF SequencerInv, MapInv
<1>4. Slots \in Nat \ {0} /\ Numbers \subseteq Nat /\ SeqRanges \in Nat \ {0}
  BY ForwardingConstants, RangesCoverSlots
<1>5. BurstInv'
  BY <1>1 DEF BurstInv
<1>6. \A n \in Numbers : (Recorded(n)' <=> Recorded(n)) /\ given'[n] = given[n]
  BY <1>1 DEF Recorded
<1>7. /\ \A n \in Numbers :
           Recorded(n) =>
             /\ seqr.initialized /\ n <= h /\ given[n].kind = "media"
             /\ n >= seqr.start /\ h - n < Slots => InSlot(n)
      /\ \A k \in 0..(Slots - 1) : seqr.meta[k] # Invalid => seqr.meta[k].number <= h
  BY DEF SequencerInv, SlotsInv, Recorded
<1>8. CASE ~seqr.initialized
  <2>1. UNCHANGED seqr
    BY <1>8 DEF PushPadding
  <2> QED
    BY <1>1, <1>5, <1>6, <2>1 DEF SequencerInv, MapInv, SlotsInv, InSlot
<1>9. CASE seqr.initialized /\ from <= h
  <2> DEFINE W == Wasted(seqr, burst)
             put == [k \in DOMAIN seqr.meta |-> IF k \in W THEN Invalid ELSE seqr.meta[k]]
  <2>1. seqr' = [seqr EXCEPT !.meta = put]
    BY <1>9 DEF PushPadding
  <2>2. /\ \A k \in 0..(Slots - 1) : put[k] = IF k \in W THEN Invalid ELSE seqr.meta[k]
        /\ \A k : k \in W => \E w \in from..to :
                              /\ w < h /\ Has(R, w) /\ k = Number(R, w) % Slots
    BY SequencerTypes DEF Wasted, SlotOf, Adjusted, Number
  <2> HIDE DEF put, W
  <2>3. /\ seqr'.meta = put /\ seqr'.ranges = R /\ seqr'.highest = h /\ seqr'.start = seqr.start
        /\ seqr'.initialized = seqr.initialized
    BY <2>1, SequencerTypes DEF Sequencers
  <2>4. MapInv'
    BY <1>1, <1>3, <1>9, <2>3 DEF MapInv
  <2>5. ASSUME NEW n \in Numbers, Recorded(n), n >= seqr.start, h - n < Slots PROVE InSlot(n)'
    <3> DEFINE top == h - OpenRange(R).value
    <3>1. /\ n \in Nat /\ n <= h /\ given[n].kind = "media"
          /\ seqr.meta[Number(R, n) % Slots] = [number |-> n, sn |-> given[n].sn]
      BY <1>4, <1>7, <2>5 DEF InSlot, SlotOf, Adjusted, Number
    <3>2. R[1].start <= n => Has(R, n)
      BY <1>3, <3>1
    <3>3. /\ Has(R, n) /\ top \in Int /\ Number(R, n) \in Int
          /\ Number(R, n) <= top /\ top - Number(R, n) <= h - n
      BY <1>2, <1>3, <2>5, <3>1, <3>2, RecentHas
    <3> HIDE DEF top
    <3>4. Number(R, n) % Slots \in 0..(Slots - 1)
      BY <1>4, <3>3, Remainder
    <3>5. Number(R, n) % Slots \notin W
      <4> SUFFICES ASSUME Number(R, n) % Slots \in W PROVE FALSE
        OBVIOUS
      <4>1. PICK w \in from..to : w < h /\ Has(R, w) /\ Number(R, n) % Slots = Number(R, w) % Slots
        BY <2>2
      <4>2. w \in Nat /\ w # n /\ w <= h /\ h - w < Slots
        BY <1>2, <1>4, <3>1, <4>1
      <4>3. Number(R, w) \in Int /\ Number(R, w) <= top /\ top - Number(R, w) <= h - w
        BY <1>2, <1>3, <1>4, <4>1, <4>2, Nearer DEF top
      <4>4. Number(R, w) # Number(R, n)
        <5>1. w < n \/ n < w
          BY <3>1, <4>2
        <5> QED
          BY <1>3, <3>1, <3>3, <4>1, <4>2, <4>3, <5>1, Monotone
      <4>5. Number(R, w) - Number(R, n) < Slots /\ Number(R, n) - Number(R, w) < Slots
        BY <1>2, <1>4, <2>5, <3>1, <3>3, <4>2, <4>3
      <4> QED
        BY <1>4, <3>3, <4>1, <4>3, <4>4, <4>5, SameRemainder
    <3>6. seqr'.meta[Number(R, n) % Slots] = [number |-> n, sn |-> given[n].sn]
      BY <2>2, <2>3, <3>1, <3>4, <3>5
    <3> QED
      BY <1>6, <2>3, <3>6 DEF InSlot, SlotOf, Adjusted, Number
  <2>6. \A k \in 0..(Slots - 1) : seqr'.meta[k] # Invalid => seqr'.meta[k].number <= h
    BY <1>7, <2>2, <2>3
  <2>7. SlotsInv'
    BY <1>6, <1>7, <2>3, <2>5, <2>6 DEF SlotsInv
  <2> QED
    BY <1>5, <2>4, <2>7 DEF SequencerInv
<1>10. CASE seqr.initialized /\ h < from
  <2> DEFINE P == ExcludeRange(R, SeqRanges, from, to)
  <2>1. seqr' = [seqr EXCEPT !.highest = to, !.ranges = P]
    <3>1. ~(from <= h)
      BY <1>2, <1>10
    <3> QED
      BY <1>10, <3>1 DEF PushPadding
  <2>2. OpenRange(R).start <= from
    BY <1>2, <1>3, <1>10
  <2>3. /\ Ordered(P) /\ OpenRange(P).start = to + 1 /\ Follows(P, R, from - 1)
    <3>1. from \in Nat /\ SeqRanges \in Nat
      BY <1>2, <1>4
    <3> HIDE DEF R, from, to, P
    <3>2. LET Q == ExcludeRange(R, SeqRanges, from, to) IN
          /\ Ordered(Q) /\ OpenRange(Q).start = to + 1
          /\ OpenRange(Q).value = OpenRange(R).value + (to - from + 1)
          /\ Follows(Q, R, from - 1)
          /\ \A k \in from..to : ~Has(Q, k)
      BY <1>2, <1>3, <2>2, <3>1, ExcludeFollows, Zenon
    <3> QED
      BY <3>2 DEF P
  <2>4. Spaced(P, SeqRanges)
    BY <1>2, <1>3, <1>4, <2>2, ExcludeSpaced
  <2> HIDE DEF P
  <2>5. /\ seqr'.meta = seqr.meta /\ seqr'.ranges = P /\ seqr'.highest = to /\ seqr'.start = seqr.start
        /\ seqr'.initialized = seqr.initialized
    BY <2>1, SequencerTypes DEF Sequencers
  <2>6. P[1].start \in Nat
    BY <2>3, OrderedTypes
  <2>7. ASSUME NEW n \in Numbers, P[1].start <= n, ~Has(P, n) PROVE given[n].kind = "padding"
    <3>1. n \in Nat
      BY <1>4
    <3>2. CASE n < from
      <4>1. ~Has(R, n)
        <5>1. n <= from - 1
          BY <1>2, <3>1, <3>2
        <5> QED
          BY <2>3, <2>6, <2>7, <3>1, <5>1 DEF Follows
      <4>2. R[1].start <= n
        <5>1. R[1].start <= P[1].start
          BY <1>3, <2>3, <2>6 DEF Follows
        <5> QED
          BY <1>3, <2>6, <2>7, <3>1, <5>1
      <4> QED
        BY <1>3, <4>1, <4>2
    <3>3. CASE from <= n /\ n <= to
      BY <1>2, <3>1, <3>3
    <3>4. CASE n > to
      <4>1. n >= OpenRange(P).start
        BY <1>2, <2>3, <3>1, <3>4
      <4> QED
        BY <2>3, <2>7, <3>1, <4>1, InOpen
    <3> QED
      BY <1>2, <3>1, <3>2, <3>3, <3>4
  <2>8. MapInv'
    <3>1. to \in Numbers /\ given[to] # Nothing
      BY <1>2 DEF Nothing
    <3>2. OpenRange(P).start <= to + 1 /\ seqr.start <= to
      BY <1>2, <1>3, <1>10, <2>3, SequencerTypes
    <3> QED
      BY <1>1, <1>10, <2>3, <2>4, <2>5, <2>7, <3>1, <3>2 DEF MapInv
  <2>9. ASSUME NEW n \in Numbers, Recorded(n) PROVE n <= to /\ n <= h /\ n \in Nat
    BY <1>2, <1>4, <1>7, <1>10, <2>9
  <2>10. ASSUME NEW n \in Numbers, Recorded(n), n >= seqr.start, to - n < Slots PROVE InSlot(n)'
    <3>1. n \in Nat /\ n <= h /\ n <= to /\ given[n].kind = "media" /\ h - n < Slots
      BY <1>2, <1>4, <1>7, <1>10, <2>9, <2>10
    <3>2. P[1].start <= n => Has(P, n)
      BY <2>7, <3>1
    <3>3. Has(P, n)
      BY <1>2, <2>3, <2>4, <2>10, <3>1, <3>2, RecentHas
    <3>4. ValueAt(P, n) = ValueAt(R, n)
      <4>1. n <= from - 1
        BY <1>2, <1>10, <3>1
      <4> QED
        BY <2>3, <3>1, <3>3, <4>1 DEF Follows
    <3>5. InSlot(n)
      BY <1>7, <2>10, <3>1
    <3> QED
      BY <1>6, <2>5, <3>4, <3>5 DEF InSlot, SlotOf, Adjusted
  <2>11. ASSUME NEW k \in 0..(Slots - 1), seqr.meta[k] # Invalid PROVE seqr.meta[k].number <= to
    <3>1. seqr.meta[k].number \in Nat /\ seqr.meta[k].number <= h
      BY <1>7, <2>11, SequencerTypes DEF Packet
    <3> QED
      BY <1>2, <1>10, <3>1
  <2>12. SlotsInv'
    BY <1>6, <1>10, <2>5, <2>9, <2>10, <2>11 DEF SlotsInv
  <2> QED
    BY <1>5, <2>8, <2>12 DEF SequencerInv
<1> QED
  BY <1>2, <1>8, <1>9, <1>10

\* The sequencer's part of the invariant holds as long as the slots outlast an unrecorded
\* burst.
LEMMA SequencerStep ==
  ASSUME MungerInv, RecordedInv, SequencerInv, [ForwardingNext]_forwardingVars,
         MaxLag \in Nat, MaxLag < Slots, 0 \notin Numbers
  PROVE  SequencerInv'
<1>0. Kept
  BY MungerInvStep
<1>1. CASE Resync \/ UNCHANGED forwardingVars
  <2>1. UNCHANGED <<seqr, padding, flight, given>>
    BY <1>1 DEF Resync, forwardingVars
  <2>2. \A n \in Numbers : Recorded(n)' => Recorded(n)
    BY <2>1, QuietRecordsNothing
  <2>3. padding # NoBurst => \A f \in Feeds : flight'[f].number - padding.from <= MaxLag
    BY <2>1 DEF SequencerInv, BurstInv
  <2> QED
    BY <1>0, <2>1, <2>2, <2>3, MungerLeavesSlots, BurstStays DEF SequencerInv
<1>2. ASSUME NEW f \in Feeds, NEW sn \in Incoming[f],
             InOrder(f, sn) \/ Drop(f, sn) \/ LatePacket(f, sn) \/ Start(f, sn) \/ SwitchFeed(f, sn)
      PROVE  SequencerInv'
  BY <1>0, <1>2, PacketsLeaveSlots
<1>3. ASSUME NEW f \in Feeds, Push(f) PROVE SequencerInv'
  BY <1>3, PushKeepsSlots
<1>4. ASSUME NEW num \in 1..MaxBurst, WritePadding(num) PROVE SequencerInv'
  BY <1>0, <1>4, PaddingLeavesSlots
<1>5. CASE PushPadding
  BY <1>5, PaddingKeepsSlots
<1> QED
  BY <1>1, <1>2, <1>3, <1>4, <1>5 DEF ForwardingNext

LEMMA SequencerInit ==
  ASSUME ForwardingInit
  PROVE  SequencerInv
<1> DEFINE R == Reset(0, 0)
<1>1. /\ padding = NoBurst /\ given = [n \in Numbers |-> Nothing]
      /\ seqr.ranges = R /\ seqr.start = 0 /\ seqr.highest = 0 /\ seqr.initialized = FALSE
      /\ seqr.meta = [s \in 0..(Slots - 1) |-> Invalid]
  BY DEF ForwardingInit
<1>2. 0 \in Nat /\ 0 \in Int /\ SeqRanges \in Nat \ {0} /\ Numbers \subseteq Nat
  BY RangesCoverSlots, ForwardingConstants
<1>3. Ordered(R) /\ OpenRange(R).start = 0 /\ \A k \in Int : Has(R, k) <=> k >= 0
  BY <1>2, ResetIs
<1>4. Spaced(R, SeqRanges)
  <2>1. Len(R) = 1 /\ R[1].start = 0
    BY DEF Reset
  <2> HIDE DEF R
  <2> QED
    BY <1>2, <2>1 DEF Spaced
<1> HIDE DEF R
<1>5. MapInv
  BY <1>1, <1>2, <1>3, <1>4 DEF MapInv
<1>6. \A n \in Numbers : ~Recorded(n)
  BY <1>1 DEF Recorded, Nothing
<1> QED
  BY <1>1, <1>5, <1>6 DEF SequencerInv, BurstInv, SlotsInv

\* A packet recorded less than a ring back is found under its number.
LEMMA SlotsAnswer ==
  ASSUME MungerInv, SequencerInv, 2 * Slots <= Cycle
  PROVE  RecentIsAnswered
<1> SUFFICES ASSUME seqr.initialized, NEW n \in Numbers, Recorded(n), n >= seqr.start,
                    n <= seqr.highest, seqr.highest - n < Slots
             PROVE  Answer(n % Cycle) = [number |-> n, sn |-> given[n].sn]
  BY DEF RecentIsAnswered
<1> DEFINE R == seqr.ranges
           h == seqr.highest
           x == n % Cycle
           p == [number |-> n, sn |-> given[n].sn]
           back == HighestAdjusted(seqr) - Adjusted(seqr, n)
<1>1. /\ n \in Nat /\ h \in Nat /\ Slots \in Nat \ {0} /\ Cycle \in Nat \ {0}
      /\ given[n].kind = "media" /\ InSlot(n)
  BY SequencerTypes, ForwardingConstants DEF SequencerInv, SlotsInv, Recorded
<1>2. Meant(x) = n
  <2>1. h - n < Cycle
    BY <1>1
  <2>2. n <= h
    OBVIOUS
  <2> QED
    <3> DEFINE m == h - ((h - (n % Cycle)) % Cycle)
    <3>1. m = n
      <4>1. h \in Int /\ n \in Int
        BY <1>1
      <4> HIDE DEF h
      <4> QED
        BY <1>1, <2>1, <2>2, <4>1, MeantIs, Zenon
    <3> QED
      BY <3>1 DEF Meant
<1>3. Has(R, n) /\ back >= 0 /\ back < Slots
  <2>1. /\ Ordered(R) /\ Spaced(R, SeqRanges) /\ OpenRange(R).start <= h + 1
        /\ R[1].start <= n => Has(R, n)
    BY <1>1 DEF SequencerInv, MapInv
  <2> DEFINE top == h - OpenRange(R).value
  <2>2. /\ Has(R, n) /\ top \in Int /\ Number(R, n) \in Int
        /\ Number(R, n) <= top /\ top - Number(R, n) <= h - n
    BY <1>1, <2>1, RecentHas
  <2>3. back = top - Number(R, n)
    BY DEF HighestAdjusted, Adjusted, Number
  <2> HIDE DEF top, back
  <2> QED
    BY <1>1, <2>2, <2>3
<1>4. h - n <= Cycle \div 2
  <2>1. Cycle % 2 \in 0..1 /\ Cycle \div 2 \in Int /\ Cycle = 2 * (Cycle \div 2) + (Cycle % 2)
    BY <1>1, Remainder
  <2> QED
    BY <1>1, <2>1
<1>5. p.number % Cycle = x /\ seqr.meta[SlotOf(seqr, n)] = p
  BY <1>1 DEF InSlot
<1> QED
  BY <1>2, <1>3, <1>4, <1>5 DEF Answer

\* A packet that is found and was numbered less than a cycle ago has the number that
\* was meant.
LEMMA AnswersMeant ==
  ASSUME MungerInv, RecordedInv, SequencerInv, AnswersWereSent
  PROVE  AnswersAreRight
<1> SUFFICES ASSUME NEW x \in 0..(Cycle - 1), Answer(x) # Invalid,
                    seqr.highest - Answer(x).number < Cycle
             PROVE  Answer(x).number = Meant(x)
  BY DEF AnswersAreRight, AnswersWereSent
<1> DEFINE p == Answer(x)
           n == Meant(x)
           h == seqr.highest
           k == SlotOf(seqr, n)
<1>1. p = seqr.meta[k] /\ p.number % Cycle = x /\ seqr.initialized /\ Has(seqr.ranges, n)
  BY DEF Answer
<1>2. Cycle \in Nat \ {0} /\ Slots \in Nat \ {0} /\ h \in Nat /\ Numbers \subseteq Nat
  BY SequencerTypes, ForwardingConstants
<1>3. n \in Int /\ n <= h /\ h - n < Cycle /\ n % Cycle = x
  <2>1. h \in Int
    BY <1>2
  <2>2. n = h - ((h - x) % Cycle)
    BY DEF Meant
  <2> HIDE DEF h, n
  <2>3. LET m == h - ((h - x) % Cycle) IN m \in Int /\ m <= h /\ h - m < Cycle /\ m % Cycle = x
    BY <1>2, <2>1, MeantHas, Zenon
  <2> QED
    BY <2>2, <2>3, Zenon
<1> HIDE DEF n
<1>4. k \in 0..(Slots - 1)
  <2>1. Number(seqr.ranges, n) \in Int
    BY <1>1, <1>3, NumberIsInt DEF SequencerInv, MapInv
  <2> QED
    BY <1>2, <2>1, Remainder DEF SlotOf, Adjusted, Number
<1> HIDE DEF k
<1>5. p.number \in Numbers /\ p.number <= h /\ h \in Numbers
  BY <1>1, <1>4 DEF RecordedInv, Sent, SequencerInv, SlotsInv, MapInv
<1>6. h - p.number < Cycle /\ p.number \in Nat
  BY <1>2, <1>5
<1> HIDE DEF p, h
<1>7. p.number - n < Cycle /\ n - p.number < Cycle
  BY <1>2, <1>3, <1>5, <1>6
<1>8. p.number = n
  BY <1>1, <1>2, <1>3, <1>6, <1>7, SameRemainder
<1> QED
  BY <1>8 DEF p, n

\* What the sequencer's steps rest on.
LEMMA SentAnswers == ForwardingSpec => [](MungerInv /\ RecordedInv /\ AnswersWereSent)
<1>1. ForwardingInit => RecordedInv
  BY DEF ForwardingInit, RecordedInv, Sent, NoPacket, Invalid
<1>2. MungerInv /\ RecordedInv /\ [ForwardingNext]_forwardingVars => RecordedInv'
  BY RecordedStep
<1> QED
  BY <1>1, <1>2, MungerKeeps, AnswersHold, PTL DEF ForwardingSpec

LEMMA SequencerKeeps ==
  ASSUME MaxLag \in Nat, MaxLag < Slots, 0 \notin Numbers
  PROVE  ForwardingSpec => []SequencerInv
<1>1. ForwardingInit => SequencerInv
  BY SequencerInit
<1>2. MungerInv /\ RecordedInv /\ SequencerInv /\ [ForwardingNext]_forwardingVars => SequencerInv'
  BY SequencerStep
<1> QED
  BY <1>1, <1>2, SentAnswers, PTL DEF ForwardingSpec

\* A packet that was recorded less than a ring of numbers ago is found when it is asked for
\* again, whatever padding was sent between and in whichever order they were recorded, if no
\* burst of padding is a ring late (0 stands for no packet).
THEOREM RecentAnswered ==
  ASSUME MaxLag \in Nat, MaxLag < Slots, 2 * Slots <= Cycle, 0 \notin Numbers
  PROVE  ForwardingSpec => []RecentIsAnswered
<1>1. MungerInv /\ SequencerInv => RecentIsAnswered
  BY SlotsAnswer
<1> QED
  BY <1>1, SentAnswers, SequencerKeeps, PTL

\* All that a subscriber relies on holds, for any number of packets and however often the
\* numbers come round on the wire: they are in the order of the source, none is left out
\* that is not withheld or kept for a packet to come, and what is asked for again is
\* answered with the packet that was sent.
THEOREM NumbersAgree ==
  ASSUME MaxLag \in Nat, MaxLag < Slots, 2 * Slots <= Cycle, 0 \notin Numbers
  PROVE  ForwardingSpec => []NumbersMatch
<1>1. MungerInv /\ RecordedInv /\ SequencerInv /\ AnswersWereSent => AnswersAreRight
  BY AnswersMeant
<1>2. InSourceOrder /\ UnusedIsReserved /\ AnswersAreRight /\ RecentIsAnswered => NumbersMatch
  BY DEF NumbersMatch
<1> QED
  BY <1>1, <1>2, SentAnswers, SequencerKeeps, RecentAnswered, NumbersInOrder,
     UnusedAreReserved, PTL

=============================================================================
