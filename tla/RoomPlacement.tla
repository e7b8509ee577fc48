---------------------------- MODULE RoomPlacement ----------------------------
(***************************************************************************)
(* Where the room of a name lives when there are several nodes             *)
(* (pkg/service/roomallocator.go, pkg/service/redisstore.go,               *)
(* pkg/routing/redisrouter.go, pkg/service/roommanager.go).                *)
(*                                                                         *)
(* A call, to join, create or delete the room, reads which node the name   *)
(* is routed to, gives it one if there is none or it does not seem to      *)
(* live, and goes to that node.  There the room in memory is taken, or a   *)
(* new one is made with the id its entry in the store has, which is read   *)
(* and written under a lock that expires.  A room that is open writes its  *)
(* entry again, without the lock, whenever something of it changes; one    *)
(* that closes clears what the name is routed to and the entry, whosoever  *)
(* they are by then.                                                       *)
(*                                                                         *)
(* A room, its id and a lock's token have the name of the call that made   *)
(* them.  Left out: limits, participants (RoomSession), the rest of what   *)
(* a room's entry says, and errors of the store; a crashed node does not   *)
(* come back, for a node that starts has a new id.                         *)
(***************************************************************************)
EXTENDS FiniteSets, Naturals

CONSTANTS
  Calls,      \* calls of the services
  NoCall,     \* stands for no call
  Kinds,      \* per call: what it may be of "join", "create", "delete"
  Nodes,      \* media nodes
  NoNode,     \* stands for no node
  MaxFaults   \* locks that expire, statistics that are late and nodes that crash

ASSUME PlacementNames == NoCall \notin Calls /\ NoNode \notin Nodes

VARIABLES
  route,      \* NodeRoomKey: the node the name is routed to
  stored,     \* RoomsKey: the id in the room's entry
  roomLock,   \* RoomLockPrefix: the call whose token it holds
  up,         \* nodes that run
  late,       \* nodes whose statistics are older than AvailableSeconds
  roomAt,     \* per node: RoomManager.rooms[name]
  room,       \* per room: "none", "open", "closed", "forgotten", "gone"
  id,         \* per room: the id it has or is about to get
  todo        \* per forgotten room: what deleteRoom has still to clear

sharedVars == <<route, stored, roomLock>>
nodeVars == <<up, late>>
placedVars == <<roomAt, room, id, todo>>

VARIABLES
  kind,       \* per call: what it is
  stage,      \* per call: where it is
  node,       \* per call: the node it goes to
  saw,        \* per call: what it goes by: the node SelectRoomNode found,
              \* lastSeenRoom, then the room it holds or closes
  causes,     \* ghost: what was overtaken, the "route" or the "entry"
  faults      \* bound: what went wrong so far

callVars == <<kind, stage, node, saw>>

placementVars == <<sharedVars, nodeVars, placedVars, callVars, causes, faults>>

PlacementInit ==
  /\ route = NoNode /\ stored = NoCall /\ roomLock = NoCall
  /\ up = Nodes /\ late = {}
  /\ roomAt = [n \in Nodes |-> NoCall]
  /\ room = [c \in Calls |-> "none"] /\ id = [c \in Calls |-> NoCall]
  /\ todo = [c \in Calls |-> {}]
  /\ kind \in {k \in [Calls -> {"join", "create", "delete"}] : \A c \in Calls : k[c] \in Kinds[c]}
  /\ stage = [c \in Calls |-> "start"]
  /\ node = [c \in Calls |-> NoNode] /\ saw = [c \in Calls |-> NoCall]
  /\ causes = {} /\ faults = 0

Open(r) == r # NoCall /\ room[r] = "open"
Go(c, to) == stage' = [stage EXCEPT ![c] = to]

\* A call has ended: only where its room is still matters.
End(c) ==
  /\ Go(c, "done")
  /\ node' = [node EXCEPT ![c] = IF room[c] = "none" THEN NoNode ELSE @]
  /\ saw' = [saw EXCEPT ![c] = NoCall]

\* Calls that getOrCreateRoom will give a room on the node they are at.
Inside(c) == stage[c] \in {"get", "lock", "load", "store", "unlock", "map"}

----------------------------------------------------------------------------
(* On the node a call came in at: SelectRoomNode, then the router.         *)

\* Mutant: whether the name has a node already is not asked.
MutSelectNode(c) ==
  /\ stage[c] = "start" /\ kind[c] # "delete"
  /\ \E n \in Nodes \ late : node' = [node EXCEPT ![c] = n]
  /\ saw' = [saw EXCEPT ![c] = route]
  /\ Go(c, "set")
  /\ UNCHANGED <<sharedVars, nodeVars, placedVars, kind, causes, faults>>

\* SelectRoomNode finds a node that seems to live, or picks one that does.
SelectNode(c) ==
  /\ stage[c] = "start" /\ kind[c] # "delete"
  /\ \/ route # NoNode /\ route \notin late /\ Go(c, "route") /\ UNCHANGED <<node, saw, causes>>
     \/ Nodes \subseteq late /\ End(c) /\ UNCHANGED causes
     \/ /\ route = NoNode \/ route \in late
        /\ \E n \in Nodes \ late : node' = [node EXCEPT ![c] = n]
        /\ saw' = [saw EXCEPT ![c] = route]
        /\ Go(c, "set")
        /\ causes' = causes \cup (IF route \in up THEN {"route"} ELSE {})
  /\ UNCHANGED <<sharedVars, nodeVars, placedVars, kind, faults>>

\* SetNodeForRoom asks nothing: another call may have set a node meanwhile.
SetNode(c) ==
  /\ stage[c] = "set"
  /\ route' = node[c]
  /\ causes' = causes \cup (IF route \notin {saw[c], node[c], NoNode} THEN {"route"} ELSE {})
  /\ Go(c, "route")
  /\ UNCHANGED <<stored, roomLock, nodeVars, placedVars, kind, node, saw, faults>>

\* RoomService.DeleteRoom wants an entry, and selects no node.
StartDelete(c) ==
  /\ stage[c] = "start" /\ kind[c] = "delete"
  /\ Go(c, IF stored = NoCall THEN "done" ELSE "route")
  /\ UNCHANGED <<sharedVars, nodeVars, placedVars, kind, node, saw, causes, faults>>

\* CreateRoom and StartParticipantSignal of the router send the call to the node,
\* where only a session is asked whether it is for that node.
Route(c) ==
  /\ stage[c] = "route"
  /\ \/ /\ route \in up
        /\ node' = [node EXCEPT ![c] = route]
        /\ saw' = [saw EXCEPT ![c] = NoCall]
        /\ Go(c, IF kind[c] = "join" THEN "arrive" ELSE "get")
     \/ route \notin up /\ End(c)
  /\ UNCHANGED <<sharedVars, nodeVars, placedVars, kind, causes, faults>>

\* HandleSession refuses a session that is for another node by now.
Arrive(c) ==
  /\ stage[c] = "arrive"
  /\ \/ route = node[c] /\ Go(c, "get") /\ UNCHANGED <<node, saw>>
     \/ route # node[c] /\ End(c)
  /\ UNCHANGED <<sharedVars, nodeVars, placedVars, kind, causes, faults>>

----------------------------------------------------------------------------
(* getOrCreateRoom, and CreateRoom of the allocator in it.                 *)

\* A room that is open is held; else the entry decides what the new one is.
Get(c) ==
  LET r == roomAt[node[c]] IN
  /\ stage[c] = "get"
  /\ saw' = [saw EXCEPT ![c] = r]
  /\ Go(c, IF Open(r) THEN "in" ELSE "lock")
  /\ UNCHANGED <<sharedVars, nodeVars, placedVars, kind, node, causes, faults>>

\* Mutant: a lock that is held is taken all the same.
MutLockRoom(c) ==
  /\ stage[c] = "lock"
  /\ roomLock' = c /\ Go(c, "load")
  /\ UNCHANGED <<route, stored, nodeVars, placedVars, kind, node, saw, causes, faults>>

\* LockRoom takes the lock, or gives up after the time a lock lasts.
LockRoom(c) ==
  /\ stage[c] = "lock"
  /\ \/ roomLock = NoCall /\ roomLock' = c /\ Go(c, "load") /\ UNCHANGED <<node, saw>>
     \/ roomLock # NoCall /\ End(c) /\ UNCHANGED roomLock
  /\ UNCHANGED <<route, stored, nodeVars, placedVars, kind, causes, faults>>

\* The id of the entry, or a new one,
LoadRoom(c) ==
  /\ stage[c] = "load"
  /\ id' = [id EXCEPT ![c] = IF stored = NoCall THEN c ELSE stored]
  /\ Go(c, "store")
  /\ UNCHANGED <<sharedVars, nodeVars, roomAt, room, todo, kind, node, saw, causes, faults>>

\* is what the entry says from then on.
StoreRoom(c) ==
  /\ stage[c] = "store"
  /\ stored' = id[c]
  /\ Go(c, "unlock")
  /\ UNCHANGED <<route, roomLock, nodeVars, placedVars, kind, node, saw, causes, faults>>

\* UnlockRoom leaves a lock with another token alone.
UnlockRoom(c) ==
  /\ stage[c] = "unlock"
  /\ roomLock' = IF roomLock = c THEN NoCall ELSE roomLock
  /\ Go(c, "map")
  /\ UNCHANGED <<route, stored, nodeVars, placedVars, kind, node, saw, causes, faults>>

\* Another call may have opened a room meanwhile: that is held if it is still open,
\* and else replaced once it is the one last seen.
MapRoom(c) ==
  LET r == roomAt[node[c]] IN
  /\ stage[c] = "map"
  /\ \/ /\ r = saw[c]
        /\ roomAt' = [roomAt EXCEPT ![node[c]] = c]
        /\ room' = [room EXCEPT ![c] = "open"]
        /\ saw' = [saw EXCEPT ![c] = c]
        /\ Go(c, "in") /\ UNCHANGED id
     \/ /\ r # saw[c] /\ Open(r)
        /\ id' = [id EXCEPT ![c] = NoCall]
        /\ saw' = [saw EXCEPT ![c] = r]
        /\ Go(c, "in") /\ UNCHANGED <<roomAt, room>>
     \/ /\ r # saw[c] /\ ~Open(r)
        /\ saw' = [saw EXCEPT ![c] = r]
        /\ UNCHANGED <<roomAt, room, id, stage>>
  /\ UNCHANGED <<sharedVars, nodeVars, todo, kind, node, causes, faults>>

\* StartSession and CreateRoom release the room; DeleteRoom goes on.
Release(c) ==
  /\ stage[c] = "in"
  /\ IF kind[c] = "delete" THEN Go(c, "delete") /\ UNCHANGED <<node, saw>> ELSE End(c)
  /\ UNCHANGED <<sharedVars, nodeVars, placedVars, kind, causes, faults>>

----------------------------------------------------------------------------
(* The room writes its entry: persistRoomForParticipantCount for whoever   *)
(* joins and leaves, and OnRoomUpdated.                                    *)

\* The entry is overtaken by an id that the one who opens a room, or has one open,
\* has not.
Overtaken(r) ==
  \E c \in Calls : id[c] # r /\ (stage[c] \in {"unlock", "map"} \/ Open(c))

\* Whether the room has closed is asked before, if at all: what it writes may be late,
\* long after, as long as its node runs.
WriteEntry(r) ==
  /\ room[r] # "none" /\ node[r] \in up
  /\ stored' = id[r]
  /\ causes' = causes \cup (IF Overtaken(id[r]) THEN {"entry"} ELSE {})
  /\ UNCHANGED <<route, roomLock, nodeVars, placedVars, callVars, faults>>

----------------------------------------------------------------------------
(* Rooms close: Room.Close, and deleteRoom in its OnClose.                 *)

\* A room nobody holds is closed once it is idle.
CloseIdleRoom(r) ==
  /\ Open(r) /\ \A c \in Calls : stage[c] = "in" => saw[c] # r
  /\ room' = [room EXCEPT ![r] = "closed"]
  /\ UNCHANGED <<sharedVars, nodeVars, roomAt, id, todo, callVars, causes, faults>>

\* A node with a room that is not deleted yet may serve the room's topic,
Listens(n) == \E r \in Calls : node[r] = n /\ room[r] \in {"open", "closed", "forgotten"}

\* and DeleteRoom, where it is called, closes the room of the node and waits for that.
\* If the node's map has none it is about to delete the entry, and with nobody to
\* serve the topic the call fails.
CloseRoom(c) ==
  /\ stage[c] = "delete"
  /\ \/ (\A r \in Calls : ~Open(r)) /\ End(c) /\ UNCHANGED room
     \/ \E n \in up :
          /\ Listens(n) /\ roomAt[n] = NoCall
          /\ saw' = [saw EXCEPT ![c] = n]
          /\ Go(c, "unknown") /\ UNCHANGED <<room, node>>
     \/ \E n \in up :
          /\ roomAt[n] # NoCall
          /\ saw' = [saw EXCEPT ![c] = roomAt[n]]
          /\ IF Open(roomAt[n])
             THEN room' = [room EXCEPT ![roomAt[n]] = "closed"] /\ Go(c, "wait")
             ELSE Go(c, "drop") /\ UNCHANGED room
          /\ UNCHANGED node
  /\ UNCHANGED <<sharedVars, nodeVars, roomAt, id, todo, kind, causes, faults>>

\* deleteRoom takes the name out of the map, whichever room it stands for,
Forget(r) ==
  /\ room[r] = "closed"
  /\ roomAt' = [roomAt EXCEPT ![node[r]] = NoCall]
  /\ room' = [room EXCEPT ![r] = "forgotten"]
  /\ todo' = [todo EXCEPT ![r] = {"route", "store"}]
  /\ UNCHANGED <<sharedVars, nodeVars, id, callVars, causes, faults>>

Cleared(r, what) ==
  /\ what \in todo[r]
  /\ todo' = [todo EXCEPT ![r] = @ \ {what}]
  /\ room' = [room EXCEPT ![r] = IF todo[r] = {what} THEN "gone" ELSE @]

\* then ClearRoomState whatever node the name is routed to,
ClearRoute(r) ==
  /\ Cleared(r, "route")
  /\ route' = NoNode
  /\ causes' = causes \cup
       (IF \E c \in Calls : node[c] = route /\ (Inside(c) \/ Open(c))
        THEN {"route"} ELSE {})
  /\ UNCHANGED <<stored, roomLock, nodeVars, roomAt, id, callVars, faults>>

\* The entry is deleted after the one who opens a room, or has one open, wrote it.
Drops ==
  /\ stored' = NoCall
  /\ causes' = causes \cup
       (IF \E c \in Calls : id[c] = stored /\ (stage[c] \in {"unlock", "map"} \/ Open(c))
        THEN {"entry"} ELSE {})

\* and DeleteRoom of the store the entry.
DropRoom(r) ==
  /\ Cleared(r, "store")
  /\ Drops
  /\ UNCHANGED <<route, roomLock, nodeVars, roomAt, id, callVars, faults>>

\* So does RoomManager.DeleteRoom for a room it does not know.
DropUnknown(c) ==
  /\ stage[c] = "unknown"
  /\ Drops
  /\ Go(c, "drop")
  /\ UNCHANGED <<route, roomLock, nodeVars, placedVars, kind, node, saw, faults>>

\* RoomService.DeleteRoom deletes the entry once more.
DropAgain(c) ==
  /\ stage[c] = "drop" \/ (stage[c] = "wait" /\ room[saw[c]] = "gone")
  /\ Drops
  /\ End(c)
  /\ UNCHANGED <<route, roomLock, nodeVars, placedVars, kind, faults>>

----------------------------------------------------------------------------
(* What goes wrong.                                                        *)

Fault == faults < MaxFaults /\ faults' = faults + 1

\* The lock expires while the one who took it, if it lives, is slow.
Expire ==
  /\ Fault
  /\ roomLock # NoCall
  /\ roomLock' = NoCall
  /\ causes' = causes \cup (IF stage[roomLock] \in {"load", "store"} THEN {"entry"} ELSE {})
  /\ UNCHANGED <<route, stored, nodeVars, placedVars, callVars>>

\* A node's statistics are old, because it is slow or because it has crashed.
Late(n) ==
  /\ (n \in up /\ Fault) \/ (n \notin up /\ UNCHANGED faults)
  /\ n \notin late /\ late' = late \cup {n}
  /\ UNCHANGED <<sharedVars, up, placedVars, callVars, causes>>

InTime(n) ==
  /\ n \in late \cap up /\ late' = late \ {n}
  /\ UNCHANGED <<sharedVars, up, placedVars, callVars, causes, faults>>

\* A node crashes with its rooms and the calls on it; what is shared stays, and so
\* does the node for whoever asks before its statistics are old.
Crash(n) ==
  LET gone == {r \in Calls : node[r] = n /\ room[r] \in {"open", "closed", "forgotten"}}
      there == {c \in Calls : \/ node[c] = n /\ (Inside(c) \/ stage[c] \in {"arrive", "in"})
                              \/ stage[c] = "wait" /\ saw[c] \in gone
                              \/ stage[c] = "unknown" /\ saw[c] = n} IN
  /\ Fault
  /\ n \in up /\ up' = up \ {n}
  /\ roomAt' = [roomAt EXCEPT ![n] = NoCall]
  /\ room' = [r \in Calls |-> IF r \in gone THEN "gone" ELSE room[r]]
  /\ todo' = [r \in Calls |-> IF r \in gone THEN {} ELSE todo[r]]
  /\ stage' = [c \in Calls |-> IF c \in there THEN "done" ELSE stage[c]]
  /\ UNCHANGED <<sharedVars, late, id, kind, node, saw, causes>>

PlacementNext ==
  \/ \E c \in Calls :
       \/ SelectNode(c) \/ SetNode(c) \/ StartDelete(c) \/ Route(c) \/ Arrive(c)
       \/ Get(c) \/ LockRoom(c) \/ LoadRoom(c) \/ StoreRoom(c) \/ UnlockRoom(c) \/ MapRoom(c)
       \/ WriteEntry(c) \/ Release(c) \/ CloseRoom(c) \/ DropUnknown(c) \/ DropAgain(c)
       \/ CloseIdleRoom(c) \/ Forget(c) \/ ClearRoute(c) \/ DropRoom(c)
  \/ Expire
  \/ \E n \in Nodes : Late(n) \/ InTime(n) \/ Crash(n)

PlacementSpec == PlacementInit /\ [][PlacementNext]_placementVars

\* Once both have been overtaken, nothing below says anything more.
Undecided == causes # {"route", "entry"}

----------------------------------------------------------------------------
\* Safety.  The room is open on one node only, unless two calls chose a node at
\* once, a node that was late had it, or a room that closed cleared the route of
\* its successor: every other order of calls, closings and crashes is covered by
\* what SelectRoomNode asks and HandleSession checks.
OneNode ==
  \A r, s \in Calls : Open(r) /\ Open(s) /\ node[r] # node[s]
                        => "route" \in causes

\* Safety.  The rooms open for a name have one id, unless a lock expired while it
\* was needed, the entry was deleted under an open room, or a room that had closed
\* wrote its old id over the one of a room that was open or about to be.
OneId ==
  \A r, s \in Calls : Open(r) /\ Open(s) /\ id[r] # id[s]
                        => "entry" \in causes

\* Safety.  A name has one room: the two together, across nodes.
PlacedOnce == OneNode /\ OneId

\* Refuted by the code, which sets and clears the route without asking what it is:
\* two calls that both find no node open the room on two.
NeverTwo == \A r, s \in Calls : Open(r) /\ Open(s) => node[r] = node[s]

=============================================================================
