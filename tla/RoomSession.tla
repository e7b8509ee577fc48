----------------------------- MODULE RoomSession -----------------------------
(***************************************************************************)
(* Sessions and rooms on one media node (pkg/service/roommanager.go,       *)
(* pkg/rtc/room.go, pkg/rtc/participant.go).                               *)
(*                                                                         *)
(* StartSession finds or creates the room of a name and holds it, then     *)
(* resumes the participant of an identity or replaces it by a new one.  A  *)
(* worker per connection reads its request source.  Participants close for *)
(* many reasons and from many goroutines, leave the room's maps, and rooms *)
(* close when they have been empty for long enough or are deleted.         *)
(*                                                                         *)
(* There is one room name, the unit of everything here; Rooms are the room *)
(* objects created for it one after the other.  A connection is a          *)
(* WebSocket's request source and response sink; a participant is named    *)
(* after the connection it was created for.  A step is what happens under  *)
(* one lock or between two, so that every window of the code is there.     *)
(* Clients, their transports and the room store are external.  Left out:   *)
(* dependent participants (agents, egress), MaxParticipants, simulated     *)
(* disconnects, one-shot signalling, and response sinks (SignalRelay).     *)
(***************************************************************************)
EXTENDS FiniteSets

CONSTANTS
  Rooms,       \* room objects
  NoRoom,      \* stands for no room
  Conns,       \* connections
  NoConn,      \* stands for no connection
  Identities   \* participant identities

ASSUME NoRoomAssumption == NoRoom \notin Rooms
ASSUME NoConnAssumption == NoConn \notin Conns

VARIABLES
  mapped,    \* RoomManager.rooms[name]
  created,   \* rooms that exist
  shut,      \* rooms whose closed channel is closed
  closer,    \* per room: Close is "none", "closing" participants, "done"
  toClose,   \* per room: the participants Close has still to close
  holds,     \* per room: the sessions counted in Room.holds
  members,   \* per room: Room.participants
  sources,   \* per room: Room.participantRequestSources
  janitor    \* the room CloseIfEmpty has found to be idle and will close

roomVars == <<mapped, created, shut, closer, toClose, holds, members, sources, janitor>>

VARIABLES
  pc,        \* per connection: where StartSession is
  seen,      \* per connection: lastSeenRoom
  at,        \* per connection: the room StartSession got
  identity,  \* per connection: ParticipantInit.Identity
  who        \* per connection: the participant it serves

sessionVars == <<pc, seen, at, identity, who>>

VARIABLES
  state,     \* per participant: "none", "joining", "joined", "active", "disconnected"
  isClosed,  \* participants whose Close has begun
  listening, \* participants that have the room as listener
  leaving,   \* participants out of the maps that RemoveParticipant has yet to close
  removing,  \* participants whose state change has RemoveParticipant pending
  leftTimer  \* participants whose disconnect timer runs

participantVars == <<state, isClosed, listening, leaving, removing, leftTimer>>

VARIABLES
  ended,     \* connections whose request source is closed
  worker     \* per connection: rtcSessionWorker is "none", "run", "lost", "done"

workerVars == <<ended, worker>>

vars == <<roomVars, sessionVars, participantVars, workerVars>>

Init ==
  /\ mapped    = NoRoom
  /\ created   = {}
  /\ shut      = {}
  /\ closer    = [r \in Rooms |-> "none"]
  /\ toClose   = [r \in Rooms |-> {}]
  /\ holds     = [r \in Rooms |-> {}]
  /\ members   = [r \in Rooms |-> [i \in Identities |-> NoConn]]
  /\ sources   = [r \in Rooms |-> [i \in Identities |-> NoConn]]
  /\ janitor   = NoRoom
  /\ pc        = [c \in Conns |-> "none"]
  /\ seen      = [c \in Conns |-> NoRoom]
  /\ at        = [c \in Conns |-> NoRoom]
  /\ identity  \in [Conns -> Identities]
  /\ who       = [c \in Conns |-> NoConn]
  /\ state     = [c \in Conns |-> "none"]
  /\ isClosed  = {}
  /\ listening = {}
  /\ leaving   = {}
  /\ removing  = {}
  /\ leftTimer = {}
  /\ ended     = {}
  /\ worker    = [c \in Conns |-> "none"]

-----------------------------------------------------------------------------
(* Participant.Close: its first caller sets isClosed and goes on to the    *)
(* end; for every other one it returns at once.                            *)

BeginClose(p) ==
  /\ isClosed' = isClosed \cup {p}
  /\ leftTimer' = leftTimer \ {p}

\* Mutant: the state change does not remove the participant.
MutCloseParticipantStays(p) ==
  /\ p \in isClosed
  /\ state[p] # "disconnected"
  /\ state' = [state EXCEPT ![p] = "disconnected"]
  /\ UNCHANGED <<roomVars, sessionVars, isClosed, listening, leaving, removing,
                 leftTimer, workerVars>>

\* The rest of Close: the state change goes to the listener, and its goroutine
\* removes the participant from the room (onStateChange).
CloseParticipant(p) ==
  /\ p \in isClosed
  /\ state[p] # "disconnected"
  /\ state' = [state EXCEPT ![p] = "disconnected"]
  /\ removing' = removing \cup ({p} \cap listening)
  /\ UNCHANGED <<roomVars, sessionVars, isClosed, listening, leaving, leftTimer, workerVars>>

\* Mutant: a duplicate is taken out of the maps and not closed.
MutRemoveFromForgets(r, i, P) ==
  IF members[r][i] \in P
    THEN /\ members' = [members EXCEPT ![r][i] = NoConn]
         /\ sources' = [sources EXCEPT ![r][i] = NoConn]
         /\ UNCHANGED leaving
    ELSE UNCHANGED <<members, sources, leaving>>

\* What RemoveParticipant does under the room's lock, for identity i and a
\* participant in P: nothing if the session has been replaced meanwhile.
RemoveFrom(r, i, P) ==
  IF members[r][i] \in P
    THEN /\ members' = [members EXCEPT ![r][i] = NoConn]
         /\ sources' = [sources EXCEPT ![r][i] = NoConn]
         /\ leaving' = leaving \cup {members[r][i]}
    ELSE UNCHANGED <<members, sources, leaving>>

\* RemoveParticipant after its lock: the listener is cleared and the
\* participant closed.
FinishRemoval(p) ==
  /\ p \in leaving
  /\ leaving'   = leaving \ {p}
  /\ listening' = listening \ {p}
  /\ BeginClose(p)
  /\ UNCHANGED <<roomVars, sessionVars, state, removing, workerVars>>

-----------------------------------------------------------------------------
(* getOrCreateRoom.                                                        *)

\* The room of the name is read under the manager's read lock.
StartSession(c) ==
  /\ pc[c] = "none"
  /\ pc'   = [pc EXCEPT ![c] = "hold"]
  /\ seen' = [seen EXCEPT ![c] = mapped]
  /\ UNCHANGED <<roomVars, at, identity, who, participantVars, workerVars>>

\* Room.Hold, on the room last seen: if it fails a new one is created.
HoldSeen(c) ==
  /\ pc[c] = "hold"
  /\ IF seen[c] # NoRoom /\ seen[c] \notin shut
       THEN /\ holds' = [holds EXCEPT ![seen[c]] = @ \cup {c}]
            /\ at' = [at EXCEPT ![c] = seen[c]]
            /\ seen' = [seen EXCEPT ![c] = NoRoom]
            /\ pc' = [pc EXCEPT ![c] = "find"]
       ELSE /\ pc' = [pc EXCEPT ![c] = "create"]
            /\ UNCHANGED <<holds, at, seen>>
  /\ UNCHANGED <<mapped, created, shut, closer, toClose, members, sources,
                 janitor, identity, who, participantVars, workerVars>>

\* Under the manager's lock: another room is there than the one last seen.
SeeOther(c) ==
  /\ pc[c] = "create"
  /\ mapped # seen[c]
  /\ seen' = [seen EXCEPT ![c] = mapped]
  /\ pc' = [pc EXCEPT ![c] = "hold"]
  /\ UNCHANGED <<roomVars, at, identity, who, participantVars, workerVars>>

\* Under the manager's lock: the new room takes the place of the closed one.
CreateRoom(c, r) ==
  /\ pc[c] = "create"
  /\ mapped = seen[c]
  /\ r \in Rooms \ created
  /\ created' = created \cup {r}
  /\ mapped' = r
  /\ at' = [at EXCEPT ![c] = r]
  /\ seen' = [seen EXCEPT ![c] = NoRoom]
  /\ pc' = [pc EXCEPT ![c] = "created"]
  /\ UNCHANGED <<shut, closer, toClose, holds, members, sources, janitor,
                 identity, who, participantVars, workerVars>>

\* newRoom.Hold(), whose result is not looked at.
HoldCreated(c) ==
  /\ pc[c] = "created"
  /\ holds' = IF at[c] \in shut THEN holds ELSE [holds EXCEPT ![at[c]] = @ \cup {c}]
  /\ pc' = [pc EXCEPT ![c] = "find"]
  /\ UNCHANGED <<mapped, created, shut, closer, toClose, members, sources,
                 janitor, seen, at, identity, who, participantVars, workerVars>>

\* The room cannot be stored or its topics not be registered.
CreateFails(c) ==
  /\ pc[c] = "create"
  /\ pc' = [pc EXCEPT ![c] = "done"]
  /\ ended' = ended \cup {c}
  /\ UNCHANGED <<roomVars, seen, at, identity, who, participantVars, worker>>

-----------------------------------------------------------------------------
(* StartSession with the room held.                                        *)

\* StartSession returns and releases its hold.
Return(c) ==
  /\ pc' = [pc EXCEPT ![c] = "done"]
  /\ holds' = [holds EXCEPT ![at[c]] = @ \ {c}]

\* It returns with an error, and its caller closes the connection.
Fail(c) == Return(c) /\ ended' = ended \cup {c}

\* With ParticipantInit.Reconnect: there is a participant to resume, or nothing
\* to resume and the client has to reconnect in full.
FindToResume(c) ==
  LET p == members[at[c]][identity[c]] IN
  /\ pc[c] = "find"
  /\ IF p # NoConn /\ p \notin isClosed
       THEN /\ who' = [who EXCEPT ![c] = p]
            /\ pc' = [pc EXCEPT ![c] = "resume"]
            /\ UNCHANGED <<holds, ended>>
       ELSE Fail(c) /\ UNCHANGED who
  /\ UNCHANGED <<mapped, created, shut, closer, toClose, members, sources, janitor,
                 seen, at, identity, participantVars, worker>>

\* Without: the participant that has the identity is to be removed.
FindDuplicate(c) ==
  LET p == members[at[c]][identity[c]] IN
  /\ pc[c] = "find"
  /\ who' = [who EXCEPT ![c] = p]
  /\ pc' = [pc EXCEPT ![c] = IF p = NoConn THEN "join" ELSE "replace"]
  /\ UNCHANGED <<roomVars, seen, at, identity, participantVars, workerVars>>

\* RemoveParticipant for the duplicate, by participant ID.
RemoveDuplicate(c) ==
  /\ pc[c] = "replace"
  /\ RemoveFrom(at[c], identity[c], {who[c]})
  /\ pc' = [pc EXCEPT ![c] = "join"]
  /\ UNCHANGED <<mapped, created, shut, closer, toClose, holds, janitor, seen, at,
                 identity, who, state, isClosed, listening, removing, leftTimer,
                 workerVars>>

\* Mutant: Join does not look whether the room is closed.
MutMayJoinClosed(r, i) == members[r][i] = NoConn

\* Mutant: Join does not look whether the identity is taken.
MutMayJoinTwice(r, i) == r \notin shut

\* Room.Join, under the room's lock: open, and the identity free.
MayJoin(r, i) == r \notin shut /\ members[r][i] = NoConn

\* When RemoveParticipant has returned, NewParticipant and Room.Join: the
\* participant is in the maps if the room is open and the identity free, and
\* joined if the response could be sent.  If Join fails, StartSession closes the
\* participant.  (The code waits for its own RemoveParticipant only; here for one
\* begun elsewhere too.)
Join(c) ==
  LET r == at[c]
      i == identity[c]
  IN
  /\ pc[c] = "join"
  /\ who[c] \notin leaving
  /\ who' = [who EXCEPT ![c] = c]
  /\ listening' = listening \cup {c}
  /\ IF MayJoin(r, i)
       THEN /\ members' = [members EXCEPT ![r][i] = c]
            /\ sources' = [sources EXCEPT ![r][i] = c]
       ELSE UNCHANGED <<members, sources>>
  /\ \/ /\ MayJoin(r, i)
        /\ state' = [state EXCEPT ![c] = "joined"]
        /\ pc' = [pc EXCEPT ![c] = "register"]
        /\ UNCHANGED <<isClosed, leftTimer, holds, ended>>
     \/ /\ state' = [state EXCEPT ![c] = "joining"]
        /\ BeginClose(c)
        /\ Fail(c)
  /\ UNCHANGED <<mapped, created, shut, closer, toClose, janitor, seen, at, identity,
                 leaving, removing, worker>>

\* The participant's RPC topics are registered and the worker started, or the
\* registration fails and the participant is closed.
Register(c) ==
  /\ pc[c] = "register"
  /\ \/ /\ Return(c)
        /\ worker' = [worker EXCEPT ![c] = "run"]
        /\ UNCHANGED <<isClosed, leftTimer, ended>>
     \/ BeginClose(c) /\ Fail(c) /\ UNCHANGED worker
  /\ UNCHANGED <<mapped, created, shut, closer, toClose, members, sources, janitor,
                 seen, at, identity, who, state, listening, leaving, removing>>

-----------------------------------------------------------------------------
(* ResumeParticipant.                                                      *)

\* ReplaceParticipantRequestSource: the source that is there is closed.
ResumeSource(c) ==
  LET r == at[c]
      i == identity[c]
  IN
  /\ pc[c] = "resume"
  /\ pc' = [pc EXCEPT ![c] = "restart"]
  /\ ended' = (ended \cup {sources[r][i]}) \ {NoConn}
  /\ sources' = [sources EXCEPT ![r][i] = c]
  /\ UNCHANGED <<mapped, created, shut, closer, toClose, holds, members, janitor,
                 seen, at, identity, who, participantVars, worker>>

\* The rest: with the response sent, ICERestart stops the disconnect timer and
\* the worker is started; otherwise StartSession fails.
ResumeRestart(c) ==
  /\ pc[c] = "restart"
  /\ \/ /\ Return(c)
        /\ leftTimer' = leftTimer \ {who[c]}
        /\ worker' = [worker EXCEPT ![c] = "run"]
        /\ UNCHANGED ended
     \/ Fail(c) /\ UNCHANGED <<leftTimer, worker>>
  /\ UNCHANGED <<mapped, created, shut, closer, toClose, members, sources, janitor,
                 seen, at, identity, who, state, isClosed, listening,
                 leaving, removing>>

-----------------------------------------------------------------------------
(* rtcSessionWorker.                                                       *)

\* The participant is disconnected.
WorkerStops(c) ==
  /\ worker[c] = "run"
  /\ state[who[c]] = "disconnected"
  /\ worker' = [worker EXCEPT ![c] = "done"]
  /\ ended' = ended \cup {c}
  /\ UNCHANGED <<roomVars, sessionVars, participantVars>>

\* The source is closed: if it is still the one of the identity, the signal
\* connection is lost, else a resume has replaced it.
WorkerReadsEnd(c) ==
  /\ worker[c] = "run"
  /\ c \in ended
  /\ worker' = [worker EXCEPT ![c] =
                  IF sources[at[c]][identity[c]] = c THEN "lost" ELSE "done"]
  /\ UNCHANGED <<roomVars, sessionVars, participantVars, ended>>

\* HandleSignalSourceClose: a participant that never connected a transport is
\* closed.  One that is not active may have connected its secondary transport.
HandleSignalSourceClose(c) ==
  /\ worker[c] = "lost"
  /\ worker' = [worker EXCEPT ![c] = "done"]
  /\ \/ state[who[c]] # "active" /\ BeginClose(who[c])
     \/ UNCHANGED <<isClosed, leftTimer>>
  /\ UNCHANGED <<roomVars, sessionVars, state, listening, leaving, removing, ended>>

\* A leave request (onLeave).
HandleLeaveRequest(c) ==
  /\ worker[c] = "run"
  /\ c \notin ended
  /\ RemoveFrom(at[c], identity[c], {who[c]})
  /\ UNCHANGED <<mapped, created, shut, closer, toClose, holds, janitor, sessionVars,
                 state, isClosed, listening, removing, leftTimer, workerVars>>

\* The client or the network ends a connection.
ConnectionEnds(c) ==
  /\ pc[c] = "done"
  /\ ended' = ended \cup {c}
  /\ UNCHANGED <<roomVars, sessionVars, participantVars, worker>>

-----------------------------------------------------------------------------
(* Participants.                                                           *)

\* The primary transport connects for the first time.
Connect(p) ==
  /\ state[p] = "joined"
  /\ state' = [state EXCEPT ![p] = "active"]
  /\ UNCHANGED <<roomVars, sessionVars, isClosed, listening, leaving, removing,
                 leftTimer, workerVars>>

\* onAnyTransportFailed starts the disconnect timer.  After Close it is of no
\* effect.
TransportFails(p) ==
  /\ state[p] = "active"
  /\ p \notin isClosed
  /\ leftTimer' = leftTimer \cup {p}
  /\ UNCHANGED <<roomVars, sessionVars, state, isClosed, listening, leaving,
                 removing, workerVars>>

\* The disconnect timer fires.
DisconnectTimeout(p) ==
  /\ p \in leftTimer
  /\ BeginClose(p)
  /\ UNCHANGED <<roomVars, sessionVars, state, listening, leaving, removing, workerVars>>

\* IssueFullReconnect, after an error of negotiation, publication, subscription
\* or data channel.
IssueFullReconnect(p) ==
  /\ state[p] \in {"joined", "active"}
  /\ BeginClose(p)
  /\ UNCHANGED <<roomVars, sessionVars, state, listening, leaving, removing, workerVars>>

\* The goroutine of onStateChange removes a disconnected participant.
RemoveDisconnected(p) ==
  /\ p \in removing
  /\ removing' = removing \ {p}
  /\ RemoveFrom(at[p], identity[p], {p})
  /\ UNCHANGED <<mapped, created, shut, closer, toClose, holds, janitor, sessionVars,
                 state, isClosed, listening, leftTimer, workerVars>>

\* A minute after Join: a participant that is not active is removed (Verify).
JoinTimeout(p) ==
  /\ state[p] \in {"joining", "joined"}
  /\ members[at[p]][identity[p]] = p
  /\ RemoveFrom(at[p], identity[p], {p})
  /\ UNCHANGED <<mapped, created, shut, closer, toClose, holds, janitor, sessionVars,
                 state, isClosed, listening, removing, leftTimer, workerVars>>

\* RoomManager.RemoveParticipant, by identity.
RemoveParticipant(i) ==
  /\ mapped # NoRoom
  /\ RemoveFrom(mapped, i, Conns)
  /\ UNCHANGED <<mapped, created, shut, closer, toClose, holds, janitor, sessionVars,
                 state, isClosed, listening, removing, leftTimer, workerVars>>

-----------------------------------------------------------------------------
(* Rooms.                                                                  *)

Members(r) == {members[r][i] : i \in Identities} \ {NoConn}

\* Close closes the closed channel once, under the room's lock, and goes on
\* with the participants that are there.
BeginCloseRoom(r) ==
  /\ r \notin shut
  /\ shut' = shut \cup {r}
  /\ closer' = [closer EXCEPT ![r] = "closing"]
  /\ toClose' = [toClose EXCEPT ![r] = Members(r)]

\* CloseIdleRooms looks at the mapped room: CloseIfEmpty finds it idle, past
\* its timeout, and unlocks it.
CloseIfEmpty ==
  /\ janitor = NoRoom
  /\ mapped # NoRoom
  /\ mapped \notin shut
  /\ holds[mapped] = {}
  /\ Members(mapped) = {}
  /\ janitor' = mapped
  /\ UNCHANGED <<mapped, created, shut, closer, toClose, holds, members, sources,
                 sessionVars, participantVars, workerVars>>

\* CloseIfEmpty calls Close, which returns if the room is closed.
CloseIdle ==
  /\ janitor # NoRoom
  /\ \/ BeginCloseRoom(janitor)
     \/ janitor \in shut /\ UNCHANGED <<shut, closer, toClose>>
  /\ janitor' = NoRoom
  /\ UNCHANGED <<mapped, created, holds, members, sources, sessionVars,
                 participantVars, workerVars>>

\* RoomManager.DeleteRoom.
DeleteRoom ==
  /\ mapped # NoRoom
  /\ BeginCloseRoom(mapped)
  /\ UNCHANGED <<mapped, created, holds, members, sources, janitor, sessionVars,
                 participantVars, workerVars>>

\* Close closes the next participant.
CloseMember(r) ==
  /\ \E p \in toClose[r] :
       /\ toClose' = [toClose EXCEPT ![r] = @ \ {p}]
       /\ BeginClose(p)
  /\ UNCHANGED <<mapped, created, shut, closer, holds, members, sources, janitor,
                 sessionVars, state, listening, leaving, removing, workerVars>>

\* Close calls onClose, in which deleteRoom deletes the room of the name.
RoomClosed(r) ==
  /\ closer[r] = "closing"
  /\ toClose[r] = {}
  /\ closer' = [closer EXCEPT ![r] = "done"]
  /\ mapped' = NoRoom
  /\ UNCHANGED <<created, shut, toClose, holds, members, sources, janitor,
                 sessionVars, participantVars, workerVars>>

-----------------------------------------------------------------------------
SessionStep(c) ==
  \/ HoldSeen(c) \/ SeeOther(c) \/ (\E r \in Rooms : CreateRoom(c, r))
  \/ CreateFails(c) \/ HoldCreated(c) \/ FindToResume(c) \/ FindDuplicate(c)
  \/ RemoveDuplicate(c) \/ Join(c) \/ Register(c)
  \/ ResumeSource(c) \/ ResumeRestart(c)

WorkerStep(c) == WorkerStops(c) \/ WorkerReadsEnd(c) \/ HandleSignalSourceClose(c)

RemovalStep(p) == CloseParticipant(p) \/ FinishRemoval(p) \/ RemoveDisconnected(p)

CloseStep(r) == CloseMember(r) \/ RoomClosed(r)

Next ==
  \/ \E c \in Conns :
       \/ StartSession(c) \/ SessionStep(c) \/ WorkerStep(c) \/ HandleLeaveRequest(c)
       \/ ConnectionEnds(c) \/ RemovalStep(c) \/ Connect(c) \/ TransportFails(c)
       \/ DisconnectTimeout(c) \/ IssueFullReconnect(c) \/ JoinTimeout(c)
  \/ \E i \in Identities : RemoveParticipant(i)
  \/ CloseIfEmpty \/ CloseIdle \/ DeleteRoom
  \/ \E r \in Rooms : CloseStep(r)

\* Goroutines that can run do run, timers fire, and the janitor comes round.
\* Nothing is assumed of clients, their transports or administrators.
Fairness ==
  /\ \A c \in Conns :
       /\ WF_vars(SessionStep(c)) /\ WF_vars(WorkerStep(c))
       /\ WF_vars(CloseParticipant(c)) /\ WF_vars(FinishRemoval(c))
       /\ WF_vars(RemoveDisconnected(c)) /\ WF_vars(JoinTimeout(c))
  /\ WF_vars(CloseIfEmpty) /\ WF_vars(CloseIdle)
  /\ \A r \in Rooms : WF_vars(CloseStep(r))

Spec == Init /\ [][Next]_vars

FairSpec == Spec /\ Fairness

-----------------------------------------------------------------------------
(* Properties.                                                             *)

RoomTypes ==
  /\ mapped    \in Rooms \cup {NoRoom}
  /\ created   \subseteq Rooms
  /\ shut      \subseteq Rooms
  /\ closer    \in [Rooms -> {"none", "closing", "done"}]
  /\ toClose   \in [Rooms -> SUBSET Conns]
  /\ holds     \in [Rooms -> SUBSET Conns]
  /\ members   \in [Rooms -> [Identities -> Conns \cup {NoConn}]]
  /\ sources   \in [Rooms -> [Identities -> Conns \cup {NoConn}]]
  /\ janitor   \in Rooms \cup {NoRoom}

SessionTypes ==
  /\ pc        \in [Conns -> {"none", "hold", "create", "created", "find", "replace",
                              "join", "register", "resume", "restart", "done"}]
  /\ seen      \in [Conns -> Rooms \cup {NoRoom}]
  /\ at        \in [Conns -> Rooms \cup {NoRoom}]
  /\ identity  \in [Conns -> Identities]
  /\ who       \in [Conns -> Conns \cup {NoConn}]

ParticipantTypes ==
  /\ state     \in [Conns -> {"none", "joining", "joined", "active", "disconnected"}]
  /\ isClosed  \subseteq Conns
  /\ listening \subseteq Conns
  /\ leaving   \subseteq Conns
  /\ removing  \subseteq Conns
  /\ leftTimer \subseteq Conns
  /\ ended     \subseteq Conns
  /\ worker    \in [Conns -> {"none", "run", "lost", "done"}]

TypeOK == RoomTypes /\ SessionTypes /\ ParticipantTypes

Looking == {"none", "hold", "create"}

\* There is a participant p.
Exists(p) == p \in Conns /\ state[p] # "none"

\* A session past getOrCreateRoom has a room, and its participant appears with
\* Join, under the name of the connection.
Placed(c) ==
  /\ pc[c] \in Looking => at[c] = NoRoom
  /\ pc[c] \notin Looking \cup {"done"} => at[c] \in Rooms
  /\ pc[c] \in Looking \cup {"created", "find", "replace", "join"} =>
       state[c] = "none"
  /\ pc[c] \in {"replace", "resume", "restart", "register"} => Exists(who[c])
  /\ pc[c] = "register" => who[c] = c
  /\ worker[c] # "none" => pc[c] = "done"
  /\ worker[c] \in {"run", "lost"} => Exists(who[c]) /\ at[c] \in Rooms
  /\ Exists(c) => at[c] \in Rooms
  /\ c \in isClosed \cup listening \cup leaving \cup removing \cup leftTimer =>
       Exists(c)
  /\ \A r \in Rooms : c \in toClose[r] => Exists(c)

\* A participant in a room's map joined that room under that identity.
Mapped(r, i) ==
  members[r][i] # NoConn =>
    /\ state[members[r][i]] # "none"
    /\ at[members[r][i]] = r /\ identity[members[r][i]] = i

\* Every participant that is not being closed is in its room's map, or has just
\* been taken out to be closed: so a room has at most one for an identity,
\* whatever sessions, removals and closings overlap (Join, RemoveParticipant).
NoStray ==
  \A p \in Conns :
    state[p] # "none" /\ p \notin isClosed =>
      members[at[p]][identity[p]] = p \/ p \in leaving

\* Close leaves no participant behind: once a room is closed none joins, and
\* those that had joined are closed, or about to be by Close or by their
\* removal (Close, Join).
ClosedRoomIsEmpty ==
  \A p \in Conns :
    state[p] # "none" /\ p \notin isClosed /\ at[p] \in shut =>
      p \in leaving \/ p \in toClose[at[p]]

\* The inductive invariant.
SessionInv ==
  /\ TypeOK
  /\ \A c \in Conns : Placed(c)
  /\ \A r \in Rooms, i \in Identities : Mapped(r, i)
  /\ NoStray
  /\ ClosedRoomIsEmpty

\* A closed participant does not stay in the room's maps: somebody removes it,
\* although RemoveParticipant and Close call each other and each acts only the
\* first time.
ClosedLeaves ==
  \A p \in Conns :
    p \in isClosed ~> at[p] = NoRoom \/ members[at[p]][identity[p]] # p

\* The check of CloseIfEmpty still holds when it closes the room: "CloseIfEmpty
\* closes the room if all participants had left, or it's still empty past
\* timeout" (room.go 761).
OnlyEmptyCloses ==
  [][\A r \in Rooms : janitor = r /\ CloseIdle /\ r \notin shut => Members(r) = {}]_vars

\* A room is kept "open after everyone leaves" for a number of seconds only
\* (config-sample.yaml 181): one that is there is closed in the end, or has a
\* participant or a session over and over.
EmptyRoomCloses ==
  \A r \in Rooms :
    r \in created ~> r \in shut \/ Members(r) # {} \/ holds[r] # {}
=============================================================================
