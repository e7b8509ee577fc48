------------------------- MODULE RoomSessionProofs -------------------------
(***************************************************************************)
(* Proofs about RoomSession: SessionInv is inductive, so a participant     *)
(* that is not being closed is in its room's maps, and a closed room keeps *)
(* none, however many rooms, connections and identities there are.         *)
(***************************************************************************)
EXTENDS RoomSession, TLAPS

\* What RemoveFrom does: a participant is out of the map only if it was of P and
\* is now to be closed.
Removed(r, i, P) ==
  /\ members' \in [Rooms -> [Identities -> Conns \cup {NoConn}]]
  /\ sources' \in [Rooms -> [Identities -> Conns \cup {NoConn}]]
  /\ leaving \subseteq leaving' /\ leaving' \subseteq Conns
  /\ \A d \in leaving' : d \in leaving \/ Exists(d)
  /\ \A q \in Rooms, j \in Identities :
       members'[q][j] = members[q][j]
         \/ (members'[q][j] = NoConn /\ members[q][j] \in leaving')

LEMMA RemoveFromEffect ==
  ASSUME TypeOK, (\A r \in Rooms, i \in Identities : Mapped(r, i)),
         NEW r \in Rooms, NEW i \in Identities, NEW P \in SUBSET Conns,
         RemoveFrom(r, i, P)
  PROVE  Removed(r, i, P)
<1>1. CASE members[r][i] \in P
  <2>1. members[r][i] \in Conns /\ members[r][i] # NoConn
    BY <1>1, NoConnAssumption
  <2>2. /\ members' = [members EXCEPT ![r][i] = NoConn]
        /\ sources' = [sources EXCEPT ![r][i] = NoConn]
        /\ leaving' = leaving \cup {members[r][i]}
    BY <1>1 DEF RemoveFrom
  <2>3. Exists(members[r][i])
    BY <2>1 DEF Mapped, Exists
  <2>4. /\ members' \in [Rooms -> [Identities -> Conns \cup {NoConn}]]
        /\ sources' \in [Rooms -> [Identities -> Conns \cup {NoConn}]]
    BY <2>2 DEF TypeOK, RoomTypes
  <2>5. \A q \in Rooms, j \in Identities :
          members'[q][j] = members[q][j]
            \/ (members'[q][j] = NoConn /\ members[q][j] \in leaving')
    <3> SUFFICES ASSUME NEW q \in Rooms, NEW j \in Identities
                 PROVE  members'[q][j] = members[q][j]
                   \/ (members'[q][j] = NoConn /\ members[q][j] \in leaving')
      OBVIOUS
    <3>1. CASE q = r /\ j = i
      <4>1. members'[q][j] = NoConn
        BY <2>2, <3>1 DEF TypeOK, RoomTypes
      <4> QED
        BY <2>2, <3>1, <4>1
    <3>2. CASE q # r \/ j # i
      <4>1. members'[q][j] = members[q][j]
        BY <2>2, <3>2 DEF TypeOK, RoomTypes
      <4> QED
        BY <4>1
    <3> QED
      BY <3>1, <3>2
  <2>6. leaving \subseteq leaving' /\ leaving' \subseteq Conns
    BY <2>1, <2>2 DEF TypeOK, ParticipantTypes
  <2>7. \A d \in leaving' : d \in leaving \/ Exists(d)
    BY <2>2, <2>3
  <2> QED
    BY <2>4, <2>5, <2>6, <2>7 DEF Removed
<1>2. CASE members[r][i] \notin P
  <2>1. members' = members /\ sources' = sources /\ leaving' = leaving
    BY <1>2 DEF RemoveFrom
  <2>2. /\ members' \in [Rooms -> [Identities -> Conns \cup {NoConn}]]
        /\ sources' \in [Rooms -> [Identities -> Conns \cup {NoConn}]]
    BY <2>1 DEF TypeOK, RoomTypes
  <2>3. leaving \subseteq leaving' /\ leaving' \subseteq Conns
    BY <2>1 DEF TypeOK, ParticipantTypes
  <2>4. /\ \A d \in leaving' : d \in leaving
        /\ \A q \in Rooms, j \in Identities : members'[q][j] = members[q][j]
    BY <2>1
  <2> QED
    BY <2>2, <2>3, <2>4 DEF Removed
<1> QED
  BY <1>1, <1>2

\* Whom a session finds under its identity.
LEMMA FoundType ==
  ASSUME TypeOK, (\A d \in Conns : Placed(d)),
         (\A r \in Rooms, i \in Identities : Mapped(r, i)),
         NEW c \in Conns, pc[c] = "find"
  PROVE  /\ at[c] \in Rooms
         /\ members[at[c]][identity[c]] \in Conns \cup {NoConn}
         /\ \/ members[at[c]][identity[c]] = NoConn
            \/ Exists(members[at[c]][identity[c]])
<1>1. at[c] \in Rooms /\ identity[c] \in Identities
  BY DEF Placed, Looking, TypeOK, SessionTypes
<1>2. members[at[c]][identity[c]] \in Conns \cup {NoConn}
  BY <1>1 DEF TypeOK, RoomTypes
<1>3. Mapped(at[c], identity[c])
  BY <1>1
<1> QED
  BY <1>1, <1>2, <1>3 DEF Mapped, Exists

\* Return keeps the types of what it sets.
LEMMA ReturnEffect ==
  ASSUME TypeOK, NEW c \in Conns, at[c] \in Rooms, Return(c)
  PROVE  /\ holds' \in [Rooms -> SUBSET Conns]
         /\ pc' = [pc EXCEPT ![c] = "done"]
<1>1. holds[at[c]] \ {c} \in SUBSET Conns
  BY DEF TypeOK, RoomTypes
<1> QED
  BY <1>1 DEF Return, TypeOK, RoomTypes

\* Every step keeps the variables of the rooms in their types.
LEMMA RoomTypesStep ==
  ASSUME TypeOK, (\A d \in Conns : Placed(d)), (\A r \in Rooms,
     i \in Identities : Mapped(r, i)), [Next]_vars
  PROVE  RoomTypes'
<1>1. ASSUME NEW c \in Conns, StartSession(c)
      PROVE  RoomTypes'
  BY <1>1 DEF StartSession, roomVars, sessionVars, participantVars,
     workerVars, TypeOK, RoomTypes, SessionTypes, ParticipantTypes,
     Members, Placed, Exists, Looking
<1>2. ASSUME NEW c \in Conns, HoldSeen(c)
      PROVE  RoomTypes'
  <2>1. CASE seen[c] # NoRoom /\ seen[c] \notin shut
    <3>1. seen[c] \in Rooms /\ holds' = [holds EXCEPT ![seen[c]] = holds[seen[c]] \cup {c}]
      BY <1>2, <2>1 DEF HoldSeen, TypeOK, SessionTypes
    <3>2. holds[seen[c]] \cup {c} \in SUBSET Conns
      BY <3>1 DEF TypeOK, RoomTypes
    <3>3. holds' \in [Rooms -> SUBSET Conns]
      BY <3>1, <3>2 DEF TypeOK, RoomTypes
    <3> QED
      BY <1>2, <3>3 DEF HoldSeen, TypeOK, RoomTypes
  <2>2. CASE ~(seen[c] # NoRoom /\ seen[c] \notin shut)
    BY <1>2, <2>2 DEF HoldSeen, TypeOK, RoomTypes
  <2> QED
    BY <2>1, <2>2
<1>3. ASSUME NEW c \in Conns, SeeOther(c)
      PROVE  RoomTypes'
  BY <1>3 DEF SeeOther, roomVars, sessionVars, participantVars, workerVars,
     TypeOK, RoomTypes, SessionTypes, ParticipantTypes, Members, Placed,
     Exists, Looking
<1>4. ASSUME NEW c \in Conns, NEW r \in Rooms, CreateRoom(c, r)
      PROVE  RoomTypes'
  BY <1>4 DEF CreateRoom, roomVars, sessionVars, participantVars,
     workerVars, TypeOK, RoomTypes, SessionTypes, ParticipantTypes,
     Members, Placed, Exists, Looking
<1>5. ASSUME NEW c \in Conns, HoldCreated(c)
      PROVE  RoomTypes'
  <2>1. Placed(c) /\ pc[c] = "created"
    BY <1>5 DEF HoldCreated
  <2>2. at[c] \in Rooms
    BY <2>1 DEF Placed, Looking
  <2>3. holds[at[c]] \cup {c} \in SUBSET Conns
    BY <2>2 DEF TypeOK, RoomTypes
  <2>4. holds' = holds \/ holds' = [holds EXCEPT ![at[c]] = holds[at[c]] \cup {c}]
    BY <1>5 DEF HoldCreated
  <2>5. holds' \in [Rooms -> SUBSET Conns]
    BY <2>2, <2>3, <2>4 DEF TypeOK, RoomTypes
  <2> QED
    BY <1>5, <2>5 DEF HoldCreated, TypeOK, RoomTypes
<1>6. ASSUME NEW c \in Conns, CreateFails(c)
      PROVE  RoomTypes'
  BY <1>6 DEF CreateFails, roomVars, sessionVars, participantVars,
     workerVars, TypeOK, RoomTypes, SessionTypes, ParticipantTypes,
     Members, Placed, Exists, Looking
<1>7. ASSUME NEW c \in Conns, FindToResume(c)
      PROVE  RoomTypes'
  <2>1. Placed(c) /\ pc[c] = "find"
    BY <1>7 DEF FindToResume
  <2>2. at[c] \in Rooms
    BY <2>1 DEF Placed, Looking
  <2>3. holds' = holds \/ Return(c)
    BY <1>7 DEF FindToResume, Fail
  <2>4. holds' \in [Rooms -> SUBSET Conns]
    BY <2>2, <2>3, ReturnEffect DEF TypeOK, RoomTypes
  <2> QED
    BY <1>7, <2>4 DEF FindToResume, TypeOK, RoomTypes
<1>8. ASSUME NEW c \in Conns, FindDuplicate(c)
      PROVE  RoomTypes'
  BY <1>8 DEF FindDuplicate, roomVars, sessionVars, participantVars,
     workerVars, TypeOK, RoomTypes, SessionTypes, ParticipantTypes,
     Members, Placed, Exists, Looking
<1>9. ASSUME NEW c \in Conns, RemoveDuplicate(c)
      PROVE  RoomTypes'
  <2>1. at[c] \in Rooms /\ identity[c] \in Identities /\ {who[c]} \subseteq Conns
    <3>1. Placed(c) /\ pc[c] = "replace"
      BY <1>9 DEF RemoveDuplicate
    <3>2. at[c] \in Rooms /\ who[c] \in Conns
      BY <3>1 DEF Placed, Exists, Looking
    <3> QED
      BY <3>2 DEF TypeOK, SessionTypes
  <2>2. RemoveFrom(at[c], identity[c], {who[c]})
    BY <1>9 DEF RemoveDuplicate
  <2>3. Removed(at[c], identity[c], {who[c]})
    BY <2>1, <2>2, RemoveFromEffect
  <2> QED
    BY <1>9, <2>1, <2>3 DEF RemoveDuplicate, Removed, sessionVars,
       workerVars, TypeOK, RoomTypes
<1>10. ASSUME NEW c \in Conns, Join(c)
      PROVE  RoomTypes'
  <2>1. Placed(c) /\ pc[c] = "join"
    BY <1>10 DEF Join
  <2>2. at[c] \in Rooms
    BY <2>1 DEF Placed, Looking
  <2>3. holds' = holds \/ Return(c)
    BY <1>10 DEF Join, Fail
  <2>4. holds' \in [Rooms -> SUBSET Conns]
    BY <2>2, <2>3, ReturnEffect DEF TypeOK, RoomTypes
  <2>5. /\ members' \in [Rooms -> [Identities -> Conns \cup {NoConn}]]
        /\ sources' \in [Rooms -> [Identities -> Conns \cup {NoConn}]]
    <3>1. CASE MayJoin(at[c], identity[c])
      <4>1. /\ members' = [members EXCEPT ![at[c]][identity[c]] = c]
            /\ sources' = [sources EXCEPT ![at[c]][identity[c]] = c]
        BY <1>10, <3>1 DEF Join
      <4> QED
        BY <2>2, <4>1 DEF TypeOK, RoomTypes, SessionTypes
    <3>2. CASE ~MayJoin(at[c], identity[c])
      BY <1>10, <3>2 DEF Join, TypeOK, RoomTypes
    <3> QED
      BY <3>1, <3>2
  <2> QED
    BY <1>10, <2>4, <2>5 DEF Join, TypeOK, RoomTypes
<1>11. ASSUME NEW c \in Conns, Register(c)
      PROVE  RoomTypes'
  <2>1. Placed(c) /\ pc[c] = "register"
    BY <1>11 DEF Register
  <2>2. at[c] \in Rooms
    BY <2>1 DEF Placed, Looking
  <2>3. holds' = holds \/ Return(c)
    BY <1>11 DEF Register, Fail
  <2>4. holds' \in [Rooms -> SUBSET Conns]
    BY <2>2, <2>3, ReturnEffect DEF TypeOK, RoomTypes
  <2> QED
    BY <1>11, <2>4 DEF Register, TypeOK, RoomTypes
<1>12. ASSUME NEW c \in Conns, ResumeSource(c)
      PROVE  RoomTypes'
  BY <1>12 DEF ResumeSource, roomVars, sessionVars, participantVars,
     workerVars, TypeOK, RoomTypes, SessionTypes, ParticipantTypes,
     Members, Placed, Exists, Looking
<1>13. ASSUME NEW c \in Conns, ResumeRestart(c)
      PROVE  RoomTypes'
  <2>1. Placed(c) /\ pc[c] = "restart"
    BY <1>13 DEF ResumeRestart
  <2>2. at[c] \in Rooms
    BY <2>1 DEF Placed, Looking
  <2>3. holds' = holds \/ Return(c)
    BY <1>13 DEF ResumeRestart, Fail
  <2>4. holds' \in [Rooms -> SUBSET Conns]
    BY <2>2, <2>3, ReturnEffect DEF TypeOK, RoomTypes
  <2> QED
    BY <1>13, <2>4 DEF ResumeRestart, TypeOK, RoomTypes
<1>14. ASSUME NEW c \in Conns, WorkerStops(c)
      PROVE  RoomTypes'
  BY <1>14 DEF WorkerStops, roomVars, sessionVars, participantVars,
     workerVars, TypeOK, RoomTypes, SessionTypes, ParticipantTypes,
     Members, Placed, Exists, Looking
<1>15. ASSUME NEW c \in Conns, WorkerReadsEnd(c)
      PROVE  RoomTypes'
  BY <1>15 DEF WorkerReadsEnd, roomVars, sessionVars, participantVars,
     workerVars, TypeOK, RoomTypes, SessionTypes, ParticipantTypes,
     Members, Placed, Exists, Looking
<1>16. ASSUME NEW c \in Conns, HandleSignalSourceClose(c)
      PROVE  RoomTypes'
  BY <1>16 DEF HandleSignalSourceClose, BeginClose, roomVars, sessionVars,
     participantVars, workerVars, TypeOK, RoomTypes, SessionTypes,
     ParticipantTypes, Members, Placed, Exists, Looking
<1>17. ASSUME NEW c \in Conns, HandleLeaveRequest(c)
      PROVE  RoomTypes'
  <2>1. at[c] \in Rooms /\ identity[c] \in Identities /\ {who[c]} \subseteq Conns
    BY <1>17 DEF HandleLeaveRequest, Placed, Exists, Looking, TypeOK,
       RoomTypes, SessionTypes, ParticipantTypes
  <2>2. RemoveFrom(at[c], identity[c], {who[c]})
    BY <1>17 DEF HandleLeaveRequest
  <2>3. Removed(at[c], identity[c], {who[c]})
    BY <2>1, <2>2, RemoveFromEffect
  <2> QED
    BY <1>17, <2>1, <2>3 DEF HandleLeaveRequest, Removed, sessionVars,
       workerVars, TypeOK, RoomTypes
<1>18. ASSUME NEW c \in Conns, ConnectionEnds(c)
      PROVE  RoomTypes'
  BY <1>18 DEF ConnectionEnds, roomVars, sessionVars, participantVars,
     workerVars, TypeOK, RoomTypes, SessionTypes, ParticipantTypes,
     Members, Placed, Exists, Looking
<1>19. ASSUME NEW c \in Conns, CloseParticipant(c)
      PROVE  RoomTypes'
  BY <1>19 DEF CloseParticipant, roomVars, sessionVars, participantVars,
     workerVars, TypeOK, RoomTypes, SessionTypes, ParticipantTypes,
     Members, Placed, Exists, Looking
<1>20. ASSUME NEW c \in Conns, FinishRemoval(c)
      PROVE  RoomTypes'
  BY <1>20 DEF FinishRemoval, BeginClose, roomVars, sessionVars,
     participantVars, workerVars, TypeOK, RoomTypes, SessionTypes,
     ParticipantTypes, Members, Placed, Exists, Looking
<1>21. ASSUME NEW c \in Conns, RemoveDisconnected(c)
      PROVE  RoomTypes'
  <2>1. at[c] \in Rooms /\ identity[c] \in Identities /\ {c} \subseteq Conns
    BY <1>21 DEF RemoveDisconnected, Placed, Exists, Looking, TypeOK,
       RoomTypes, SessionTypes, ParticipantTypes
  <2>2. RemoveFrom(at[c], identity[c], {c})
    BY <1>21 DEF RemoveDisconnected
  <2>3. Removed(at[c], identity[c], {c})
    BY <2>1, <2>2, RemoveFromEffect
  <2> QED
    BY <1>21, <2>1, <2>3 DEF RemoveDisconnected, Removed, sessionVars,
       workerVars, TypeOK, RoomTypes
<1>22. ASSUME NEW c \in Conns, Connect(c)
      PROVE  RoomTypes'
  BY <1>22 DEF Connect, roomVars, sessionVars, participantVars, workerVars,
     TypeOK, RoomTypes, SessionTypes, ParticipantTypes, Members, Placed,
     Exists, Looking
<1>23. ASSUME NEW c \in Conns, TransportFails(c)
      PROVE  RoomTypes'
  BY <1>23 DEF TransportFails, roomVars, sessionVars, participantVars,
     workerVars, TypeOK, RoomTypes, SessionTypes, ParticipantTypes,
     Members, Placed, Exists, Looking
<1>24. ASSUME NEW c \in Conns, DisconnectTimeout(c)
      PROVE  RoomTypes'
  BY <1>24 DEF DisconnectTimeout, BeginClose, roomVars, sessionVars,
     participantVars, workerVars, TypeOK, RoomTypes, SessionTypes,
     ParticipantTypes, Members, Placed, Exists, Looking
<1>25. ASSUME NEW c \in Conns, IssueFullReconnect(c)
      PROVE  RoomTypes'
  BY <1>25 DEF IssueFullReconnect, BeginClose, roomVars, sessionVars,
     participantVars, workerVars, TypeOK, RoomTypes, SessionTypes,
     ParticipantTypes, Members, Placed, Exists, Looking
<1>26. ASSUME NEW c \in Conns, JoinTimeout(c)
      PROVE  RoomTypes'
  <2>1. at[c] \in Rooms /\ identity[c] \in Identities /\ {c} \subseteq Conns
    BY <1>26 DEF JoinTimeout, Placed, Exists, Looking, TypeOK, RoomTypes,
       SessionTypes, ParticipantTypes
  <2>2. RemoveFrom(at[c], identity[c], {c})
    BY <1>26 DEF JoinTimeout
  <2>3. Removed(at[c], identity[c], {c})
    BY <2>1, <2>2, RemoveFromEffect
  <2> QED
    BY <1>26, <2>1, <2>3 DEF JoinTimeout, Removed, sessionVars, workerVars,
       TypeOK, RoomTypes
<1>27. ASSUME NEW i \in Identities, RemoveParticipant(i)
      PROVE  RoomTypes'
  <2>1. mapped \in Rooms /\ i \in Identities /\ Conns \subseteq Conns
    BY <1>27 DEF RemoveParticipant, Placed, Exists, Looking, TypeOK,
       RoomTypes, SessionTypes, ParticipantTypes
  <2>2. RemoveFrom(mapped, i, Conns)
    BY <1>27 DEF RemoveParticipant
  <2>3. Removed(mapped, i, Conns)
    BY <2>1, <2>2, RemoveFromEffect
  <2> QED
    BY <1>27, <2>1, <2>3 DEF RemoveParticipant, Removed, sessionVars,
       workerVars, TypeOK, RoomTypes
<1>28. CASE CloseIfEmpty
  BY <1>28 DEF CloseIfEmpty, roomVars, sessionVars, participantVars,
     workerVars, TypeOK, RoomTypes, SessionTypes, ParticipantTypes,
     Members, Placed, Exists, Looking
<1>29. CASE CloseIdle
  <2>1. CASE BeginCloseRoom(janitor)
    <3>1. janitor \in Rooms /\ Members(janitor) \in SUBSET Conns
      BY <1>29 DEF CloseIdle, Members, TypeOK, RoomTypes
    <3>2. /\ shut' \subseteq Rooms
          /\ closer' \in [Rooms -> {"none", "closing", "done"}]
          /\ toClose' \in [Rooms -> SUBSET Conns]
      BY <2>1, <3>1 DEF BeginCloseRoom, TypeOK, RoomTypes
    <3> QED
      BY <1>29, <3>2 DEF CloseIdle, TypeOK, RoomTypes
  <2>2. CASE UNCHANGED <<shut, closer, toClose>>
    BY <1>29, <2>2 DEF CloseIdle, TypeOK, RoomTypes
  <2> QED
    BY <1>29, <2>1, <2>2 DEF CloseIdle
<1>30. CASE DeleteRoom
  BY <1>30 DEF DeleteRoom, BeginCloseRoom, roomVars, sessionVars,
     participantVars, workerVars, TypeOK, RoomTypes, SessionTypes,
     ParticipantTypes, Members, Placed, Exists, Looking
<1>31. ASSUME NEW r \in Rooms, CloseMember(r)
      PROVE  RoomTypes'
  BY <1>31 DEF CloseMember, BeginClose, roomVars, sessionVars,
     participantVars, workerVars, TypeOK, RoomTypes, SessionTypes,
     ParticipantTypes, Members, Placed, Exists, Looking
<1>32. ASSUME NEW r \in Rooms, RoomClosed(r)
      PROVE  RoomTypes'
  BY <1>32 DEF RoomClosed, roomVars, sessionVars, participantVars,
     workerVars, TypeOK, RoomTypes, SessionTypes, ParticipantTypes,
     Members, Placed, Exists, Looking
<1>33. CASE UNCHANGED vars
  BY <1>33 DEF vars, roomVars, sessionVars, participantVars, workerVars,
     TypeOK, RoomTypes, SessionTypes, ParticipantTypes, Members, Placed,
     Exists, Looking
<1> QED
  BY <1>1, <1>2, <1>3, <1>4, <1>5, <1>6, <1>7, <1>8, <1>9, <1>10, <1>11,
     <1>12, <1>13, <1>14, <1>15, <1>16, <1>17, <1>18, <1>19, <1>20, <1>21,
     <1>22, <1>23, <1>24, <1>25, <1>26, <1>27, <1>28, <1>29, <1>30, <1>31,
     <1>32, <1>33 DEF Next, SessionStep, WorkerStep, RemovalStep, CloseStep

\* Every step keeps the variables of the sessions in their types.
LEMMA SessionTypesStep ==
  ASSUME TypeOK, (\A d \in Conns : Placed(d)), (\A r \in Rooms,
     i \in Identities : Mapped(r, i)), [Next]_vars
  PROVE  SessionTypes'
<1>1. ASSUME NEW c \in Conns, StartSession(c)
      PROVE  SessionTypes'
  BY <1>1 DEF StartSession, roomVars, sessionVars, participantVars,
     workerVars, TypeOK, RoomTypes, SessionTypes
<1>2. ASSUME NEW c \in Conns, HoldSeen(c)
      PROVE  SessionTypes'
  BY <1>2 DEF HoldSeen, roomVars, sessionVars, participantVars, workerVars,
     TypeOK, RoomTypes, SessionTypes
<1>3. ASSUME NEW c \in Conns, SeeOther(c)
      PROVE  SessionTypes'
  BY <1>3 DEF SeeOther, roomVars, sessionVars, participantVars, workerVars,
     TypeOK, RoomTypes, SessionTypes
<1>4. ASSUME NEW c \in Conns, NEW r \in Rooms, CreateRoom(c, r)
      PROVE  SessionTypes'
  BY <1>4 DEF CreateRoom, roomVars, sessionVars, participantVars,
     workerVars, TypeOK, RoomTypes, SessionTypes
<1>5. ASSUME NEW c \in Conns, HoldCreated(c)
      PROVE  SessionTypes'
  BY <1>5 DEF HoldCreated, roomVars, sessionVars, participantVars,
     workerVars, TypeOK, RoomTypes, SessionTypes
<1>6. ASSUME NEW c \in Conns, CreateFails(c)
      PROVE  SessionTypes'
  BY <1>6 DEF CreateFails, roomVars, sessionVars, participantVars,
     workerVars, TypeOK, RoomTypes, SessionTypes
<1>7. ASSUME NEW c \in Conns, FindToResume(c)
      PROVE  SessionTypes'
  <2> DEFINE found == members[at[c]][identity[c]]
  <2>1. CASE found # NoConn /\ found \notin isClosed
    <3>1. found \in Conns \cup {NoConn}
      BY <1>7, FoundType DEF FindToResume
    <3> QED
      BY <1>7, <2>1, <3>1 DEF FindToResume, TypeOK, SessionTypes
  <2>2. CASE ~(found # NoConn /\ found \notin isClosed)
    BY <1>7, <2>2 DEF FindToResume, Fail, Return, TypeOK, SessionTypes
  <2> QED
    BY <2>1, <2>2
<1>8. ASSUME NEW c \in Conns, FindDuplicate(c)
      PROVE  SessionTypes'
  <2>1. members[at[c]][identity[c]] \in Conns \cup {NoConn}
    BY <1>8, FoundType DEF FindDuplicate
  <2> QED
    BY <1>8, <2>1 DEF FindDuplicate, TypeOK, SessionTypes
<1>9. ASSUME NEW c \in Conns, RemoveDuplicate(c)
      PROVE  SessionTypes'
  BY <1>9 DEF RemoveDuplicate, RemoveFrom, roomVars, sessionVars,
     participantVars, workerVars, TypeOK, RoomTypes, SessionTypes
<1>10. ASSUME NEW c \in Conns, Join(c)
      PROVE  SessionTypes'
  <2>1. pc' \in [Conns -> {"none", "hold", "create", "created", "find", "replace",
                            "join", "register", "resume", "restart", "done"}]
    BY <1>10 DEF Join, Fail, Return, TypeOK, SessionTypes
  <2> QED
    BY <1>10, <2>1 DEF Join, TypeOK, SessionTypes
<1>11. ASSUME NEW c \in Conns, Register(c)
      PROVE  SessionTypes'
  BY <1>11 DEF Register, BeginClose, Fail, Return, roomVars, sessionVars,
     participantVars, workerVars, TypeOK, RoomTypes, SessionTypes
<1>12. ASSUME NEW c \in Conns, ResumeSource(c)
      PROVE  SessionTypes'
  BY <1>12 DEF ResumeSource, roomVars, sessionVars, participantVars,
     workerVars, TypeOK, RoomTypes, SessionTypes
<1>13. ASSUME NEW c \in Conns, ResumeRestart(c)
      PROVE  SessionTypes'
  BY <1>13 DEF ResumeRestart, Fail, Return, roomVars, sessionVars,
     participantVars, workerVars, TypeOK, RoomTypes, SessionTypes
<1>14. ASSUME NEW c \in Conns, WorkerStops(c)
      PROVE  SessionTypes'
  BY <1>14 DEF WorkerStops, roomVars, sessionVars, participantVars,
     workerVars, TypeOK, RoomTypes, SessionTypes
<1>15. ASSUME NEW c \in Conns, WorkerReadsEnd(c)
      PROVE  SessionTypes'
  BY <1>15 DEF WorkerReadsEnd, roomVars, sessionVars, participantVars,
     workerVars, TypeOK, RoomTypes, SessionTypes
<1>16. ASSUME NEW c \in Conns, HandleSignalSourceClose(c)
      PROVE  SessionTypes'
  BY <1>16 DEF HandleSignalSourceClose, BeginClose, roomVars, sessionVars,
     participantVars, workerVars, TypeOK, RoomTypes, SessionTypes
<1>17. ASSUME NEW c \in Conns, HandleLeaveRequest(c)
      PROVE  SessionTypes'
  BY <1>17 DEF HandleLeaveRequest, RemoveFrom, roomVars, sessionVars,
     participantVars, workerVars, TypeOK, RoomTypes, SessionTypes
<1>18. ASSUME NEW c \in Conns, ConnectionEnds(c)
      PROVE  SessionTypes'
  BY <1>18 DEF ConnectionEnds, roomVars, sessionVars, participantVars,
     workerVars, TypeOK, RoomTypes, SessionTypes
<1>19. ASSUME NEW c \in Conns, CloseParticipant(c)
      PROVE  SessionTypes'
  BY <1>19 DEF CloseParticipant, roomVars, sessionVars, participantVars,
     workerVars, TypeOK, RoomTypes, SessionTypes
<1>20. ASSUME NEW c \in Conns, FinishRemoval(c)
      PROVE  SessionTypes'
  BY <1>20 DEF FinishRemoval, BeginClose, roomVars, sessionVars,
     participantVars, workerVars, TypeOK, RoomTypes, SessionTypes
<1>21. ASSUME NEW c \in Conns, RemoveDisconnected(c)
      PROVE  SessionTypes'
  BY <1>21 DEF RemoveDisconnected, RemoveFrom, roomVars, sessionVars,
     participantVars, workerVars, TypeOK, RoomTypes, SessionTypes
<1>22. ASSUME NEW c \in Conns, Connect(c)
      PROVE  SessionTypes'
  BY <1>22 DEF Connect, roomVars, sessionVars, participantVars, workerVars,
     TypeOK, RoomTypes, SessionTypes
<1>23. ASSUME NEW c \in Conns, TransportFails(c)
      PROVE  SessionTypes'
  BY <1>23 DEF TransportFails, roomVars, sessionVars, participantVars,
     workerVars, TypeOK, RoomTypes, SessionTypes
<1>24. ASSUME NEW c \in Conns, DisconnectTimeout(c)
      PROVE  SessionTypes'
  BY <1>24 DEF DisconnectTimeout, BeginClose, roomVars, sessionVars,
     participantVars, workerVars, TypeOK, RoomTypes, SessionTypes
<1>25. ASSUME NEW c \in Conns, IssueFullReconnect(c)
      PROVE  SessionTypes'
  BY <1>25 DEF IssueFullReconnect, BeginClose, roomVars, sessionVars,
     participantVars, workerVars, TypeOK, RoomTypes, SessionTypes
<1>26. ASSUME NEW c \in Conns, JoinTimeout(c)
      PROVE  SessionTypes'
  BY <1>26 DEF JoinTimeout, RemoveFrom, roomVars, sessionVars,
     participantVars, workerVars, TypeOK, RoomTypes, SessionTypes
<1>27. ASSUME NEW i \in Identities, RemoveParticipant(i)
      PROVE  SessionTypes'
  BY <1>27 DEF RemoveParticipant, RemoveFrom, roomVars, sessionVars,
     participantVars, workerVars, TypeOK, RoomTypes, SessionTypes
<1>28. CASE CloseIfEmpty
  BY <1>28 DEF CloseIfEmpty, roomVars, sessionVars, participantVars,
     workerVars, TypeOK, RoomTypes, SessionTypes
<1>29. CASE CloseIdle
  BY <1>29 DEF CloseIdle, BeginCloseRoom, roomVars, sessionVars,
     participantVars, workerVars, TypeOK, RoomTypes, SessionTypes
<1>30. CASE DeleteRoom
  BY <1>30 DEF DeleteRoom, BeginCloseRoom, roomVars, sessionVars,
     participantVars, workerVars, TypeOK, RoomTypes, SessionTypes
<1>31. ASSUME NEW r \in Rooms, CloseMember(r)
      PROVE  SessionTypes'
  BY <1>31 DEF CloseMember, BeginClose, roomVars, sessionVars,
     participantVars, workerVars, TypeOK, RoomTypes, SessionTypes
<1>32. ASSUME NEW r \in Rooms, RoomClosed(r)
      PROVE  SessionTypes'
  BY <1>32 DEF RoomClosed, roomVars, sessionVars, participantVars,
     workerVars, TypeOK, RoomTypes, SessionTypes
<1>33. CASE UNCHANGED vars
  BY <1>33 DEF vars, roomVars, sessionVars, participantVars, workerVars,
     TypeOK, RoomTypes, SessionTypes
<1> QED
  BY <1>1, <1>2, <1>3, <1>4, <1>5, <1>6, <1>7, <1>8, <1>9, <1>10, <1>11,
     <1>12, <1>13, <1>14, <1>15, <1>16, <1>17, <1>18, <1>19, <1>20, <1>21,
     <1>22, <1>23, <1>24, <1>25, <1>26, <1>27, <1>28, <1>29, <1>30, <1>31,
     <1>32, <1>33 DEF Next, SessionStep, WorkerStep, RemovalStep, CloseStep

\* Every step keeps the variables of the participants and workers in their
\* types.
LEMMA ParticipantTypesStep ==
  ASSUME TypeOK, (\A d \in Conns : Placed(d)), (\A r \in Rooms,
     i \in Identities : Mapped(r, i)), [Next]_vars
  PROVE  ParticipantTypes'
<1>1. ASSUME NEW c \in Conns, StartSession(c)
      PROVE  ParticipantTypes'
  BY <1>1 DEF StartSession, roomVars, sessionVars, participantVars,
     workerVars, TypeOK, RoomTypes, SessionTypes, ParticipantTypes, Placed,
     Exists, Looking
<1>2. ASSUME NEW c \in Conns, HoldSeen(c)
      PROVE  ParticipantTypes'
  BY <1>2 DEF HoldSeen, roomVars, sessionVars, participantVars, workerVars,
     TypeOK, RoomTypes, SessionTypes, ParticipantTypes, Placed, Exists,
     Looking
<1>3. ASSUME NEW c \in Conns, SeeOther(c)
      PROVE  ParticipantTypes'
  BY <1>3 DEF SeeOther, roomVars, sessionVars, participantVars, workerVars,
     TypeOK, RoomTypes, SessionTypes, ParticipantTypes, Placed, Exists,
     Looking
<1>4. ASSUME NEW c \in Conns, NEW r \in Rooms, CreateRoom(c, r)
      PROVE  ParticipantTypes'
  BY <1>4 DEF CreateRoom, roomVars, sessionVars, participantVars,
     workerVars, TypeOK, RoomTypes, SessionTypes, ParticipantTypes, Placed,
     Exists, Looking
<1>5. ASSUME NEW c \in Conns, HoldCreated(c)
      PROVE  ParticipantTypes'
  BY <1>5 DEF HoldCreated, roomVars, sessionVars, participantVars,
     workerVars, TypeOK, RoomTypes, SessionTypes, ParticipantTypes, Placed,
     Exists, Looking
<1>6. ASSUME NEW c \in Conns, CreateFails(c)
      PROVE  ParticipantTypes'
  BY <1>6 DEF CreateFails, roomVars, sessionVars, participantVars,
     workerVars, TypeOK, RoomTypes, SessionTypes, ParticipantTypes, Placed,
     Exists, Looking
<1>7. ASSUME NEW c \in Conns, FindToResume(c)
      PROVE  ParticipantTypes'
  BY <1>7 DEF FindToResume, Fail, Return, roomVars, sessionVars,
     participantVars, workerVars, TypeOK, RoomTypes, SessionTypes,
     ParticipantTypes, Placed, Exists, Looking
<1>8. ASSUME NEW c \in Conns, FindDuplicate(c)
      PROVE  ParticipantTypes'
  BY <1>8 DEF FindDuplicate, roomVars, sessionVars, participantVars,
     workerVars, TypeOK, RoomTypes, SessionTypes, ParticipantTypes, Placed,
     Exists, Looking
<1>9. ASSUME NEW c \in Conns, RemoveDuplicate(c)
      PROVE  ParticipantTypes'
  <2>1. at[c] \in Rooms /\ identity[c] \in Identities /\ {who[c]} \subseteq Conns
    <3>1. Placed(c) /\ pc[c] = "replace"
      BY <1>9 DEF RemoveDuplicate
    <3>2. at[c] \in Rooms /\ who[c] \in Conns
      BY <3>1 DEF Placed, Exists, Looking
    <3> QED
      BY <3>2 DEF TypeOK, SessionTypes
  <2>2. RemoveFrom(at[c], identity[c], {who[c]})
    BY <1>9 DEF RemoveDuplicate
  <2>3. Removed(at[c], identity[c], {who[c]})
    BY <2>1, <2>2, RemoveFromEffect
  <2> QED
    BY <1>9, <2>1, <2>3 DEF RemoveDuplicate, Removed, sessionVars,
       workerVars, TypeOK, RoomTypes, SessionTypes, ParticipantTypes
<1>10. ASSUME NEW c \in Conns, Join(c)
      PROVE  ParticipantTypes'
  <2>1. ended' \subseteq Conns /\ leftTimer' \subseteq Conns
    BY <1>10 DEF Join, BeginClose, Fail, TypeOK, ParticipantTypes
  <2>2. isClosed' \subseteq Conns
    BY <1>10 DEF Join, BeginClose, TypeOK, ParticipantTypes
  <2>3. state' \in [Conns -> {"none", "joining", "joined", "active", "disconnected"}]
    BY <1>10 DEF Join, TypeOK, ParticipantTypes
  <2> QED
    BY <1>10, <2>1, <2>2, <2>3 DEF Join, TypeOK, ParticipantTypes
<1>11. ASSUME NEW c \in Conns, Register(c)
      PROVE  ParticipantTypes'
  <2>1. ended' \subseteq Conns /\ leftTimer' \subseteq Conns
    BY <1>11 DEF Register, BeginClose, Fail, TypeOK, ParticipantTypes
  <2>2. isClosed' \subseteq Conns
    BY <1>11 DEF Register, BeginClose, TypeOK, ParticipantTypes
  <2>3. worker' \in [Conns -> {"none", "run", "lost", "done"}]
    BY <1>11 DEF Register, TypeOK, ParticipantTypes
  <2> QED
    BY <1>11, <2>1, <2>2, <2>3 DEF Register, TypeOK, ParticipantTypes
<1>12. ASSUME NEW c \in Conns, ResumeSource(c)
      PROVE  ParticipantTypes'
  BY <1>12 DEF ResumeSource, roomVars, sessionVars, participantVars,
     workerVars, TypeOK, RoomTypes, SessionTypes, ParticipantTypes, Placed,
     Exists, Looking
<1>13. ASSUME NEW c \in Conns, ResumeRestart(c)
      PROVE  ParticipantTypes'
  <2>1. ended' \subseteq Conns /\ leftTimer' \subseteq Conns
    BY <1>13 DEF ResumeRestart, Fail, TypeOK, ParticipantTypes
  <2>3. worker' \in [Conns -> {"none", "run", "lost", "done"}]
    BY <1>13 DEF ResumeRestart, TypeOK, ParticipantTypes
  <2> QED
    BY <1>13, <2>1, <2>3 DEF ResumeRestart, TypeOK, ParticipantTypes
<1>14. ASSUME NEW c \in Conns, WorkerStops(c)
      PROVE  ParticipantTypes'
  BY <1>14 DEF WorkerStops, roomVars, sessionVars, participantVars,
     workerVars, TypeOK, RoomTypes, SessionTypes, ParticipantTypes, Placed,
     Exists, Looking
<1>15. ASSUME NEW c \in Conns, WorkerReadsEnd(c)
      PROVE  ParticipantTypes'
  BY <1>15 DEF WorkerReadsEnd, roomVars, sessionVars, participantVars,
     workerVars, TypeOK, RoomTypes, SessionTypes, ParticipantTypes, Placed,
     Exists, Looking
<1>16. ASSUME NEW c \in Conns, HandleSignalSourceClose(c)
      PROVE  ParticipantTypes'
  BY <1>16 DEF HandleSignalSourceClose, BeginClose, roomVars, sessionVars,
     participantVars, workerVars, TypeOK, RoomTypes, SessionTypes,
     ParticipantTypes, Placed, Exists, Looking
<1>17. ASSUME NEW c \in Conns, HandleLeaveRequest(c)
      PROVE  ParticipantTypes'
  <2>1. at[c] \in Rooms /\ identity[c] \in Identities /\ {who[c]} \subseteq Conns
    BY <1>17 DEF HandleLeaveRequest, Placed, Exists, Looking, TypeOK,
       RoomTypes, SessionTypes, ParticipantTypes
  <2>2. RemoveFrom(at[c], identity[c], {who[c]})
    BY <1>17 DEF HandleLeaveRequest
  <2>3. Removed(at[c], identity[c], {who[c]})
    BY <2>1, <2>2, RemoveFromEffect
  <2> QED
    BY <1>17, <2>1, <2>3 DEF HandleLeaveRequest, Removed, sessionVars,
       workerVars, TypeOK, RoomTypes, SessionTypes, ParticipantTypes
<1>18. ASSUME NEW c \in Conns, ConnectionEnds(c)
      PROVE  ParticipantTypes'
  BY <1>18 DEF ConnectionEnds, roomVars, sessionVars, participantVars,
     workerVars, TypeOK, RoomTypes, SessionTypes, ParticipantTypes, Placed,
     Exists, Looking
<1>19. ASSUME NEW c \in Conns, CloseParticipant(c)
      PROVE  ParticipantTypes'
  BY <1>19 DEF CloseParticipant, roomVars, sessionVars, participantVars,
     workerVars, TypeOK, RoomTypes, SessionTypes, ParticipantTypes, Placed,
     Exists, Looking
<1>20. ASSUME NEW c \in Conns, FinishRemoval(c)
      PROVE  ParticipantTypes'
  BY <1>20 DEF FinishRemoval, BeginClose, roomVars, sessionVars,
     participantVars, workerVars, TypeOK, RoomTypes, SessionTypes,
     ParticipantTypes, Placed, Exists, Looking
<1>21. ASSUME NEW c \in Conns, RemoveDisconnected(c)
      PROVE  ParticipantTypes'
  <2>1. at[c] \in Rooms /\ identity[c] \in Identities /\ {c} \subseteq Conns
    BY <1>21 DEF RemoveDisconnected, Placed, Exists, Looking, TypeOK,
       RoomTypes, SessionTypes, ParticipantTypes
  <2>2. RemoveFrom(at[c], identity[c], {c})
    BY <1>21 DEF RemoveDisconnected
  <2>3. Removed(at[c], identity[c], {c})
    BY <2>1, <2>2, RemoveFromEffect
  <2> QED
    BY <1>21, <2>1, <2>3 DEF RemoveDisconnected, Removed, sessionVars,
       workerVars, TypeOK, RoomTypes, SessionTypes, ParticipantTypes
<1>22. ASSUME NEW c \in Conns, Connect(c)
      PROVE  ParticipantTypes'
  BY <1>22 DEF Connect, roomVars, sessionVars, participantVars, workerVars,
     TypeOK, RoomTypes, SessionTypes, ParticipantTypes, Placed, Exists,
     Looking
<1>23. ASSUME NEW c \in Conns, TransportFails(c)
      PROVE  ParticipantTypes'
  BY <1>23 DEF TransportFails, roomVars, sessionVars, participantVars,
     workerVars, TypeOK, RoomTypes, SessionTypes, ParticipantTypes, Placed,
     Exists, Looking
<1>24. ASSUME NEW c \in Conns, DisconnectTimeout(c)
      PROVE  ParticipantTypes'
  BY <1>24 DEF DisconnectTimeout, BeginClose, roomVars, sessionVars,
     participantVars, workerVars, TypeOK, RoomTypes, SessionTypes,
     ParticipantTypes, Placed, Exists, Looking
<1>25. ASSUME NEW c \in Conns, IssueFullReconnect(c)
      PROVE  ParticipantTypes'
  BY <1>25 DEF IssueFullReconnect, BeginClose, roomVars, sessionVars,
     participantVars, workerVars, TypeOK, RoomTypes, SessionTypes,
     ParticipantTypes, Placed, Exists, Looking
<1>26. ASSUME NEW c \in Conns, JoinTimeout(c)
      PROVE  ParticipantTypes'
  <2>1. at[c] \in Rooms /\ identity[c] \in Identities /\ {c} \subseteq Conns
    BY <1>26 DEF JoinTimeout, Placed, Exists, Looking, TypeOK, RoomTypes,
       SessionTypes, ParticipantTypes
  <2>2. RemoveFrom(at[c], identity[c], {c})
    BY <1>26 DEF JoinTimeout
  <2>3. Removed(at[c], identity[c], {c})
    BY <2>1, <2>2, RemoveFromEffect
  <2> QED
    BY <1>26, <2>1, <2>3 DEF JoinTimeout, Removed, sessionVars, workerVars,
       TypeOK, RoomTypes, SessionTypes, ParticipantTypes
<1>27. ASSUME NEW i \in Identities, RemoveParticipant(i)
      PROVE  ParticipantTypes'
  <2>1. mapped \in Rooms /\ i \in Identities /\ Conns \subseteq Conns
    BY <1>27 DEF RemoveParticipant, Placed, Exists, Looking, TypeOK,
       RoomTypes, SessionTypes, ParticipantTypes
  <2>2. RemoveFrom(mapped, i, Conns)
    BY <1>27 DEF RemoveParticipant
  <2>3. Removed(mapped, i, Conns)
    BY <2>1, <2>2, RemoveFromEffect
  <2> QED
    BY <1>27, <2>1, <2>3 DEF RemoveParticipant, Removed, sessionVars,
       workerVars, TypeOK, RoomTypes, SessionTypes, ParticipantTypes
<1>28. CASE CloseIfEmpty
  BY <1>28 DEF CloseIfEmpty, roomVars, sessionVars, participantVars,
     workerVars, TypeOK, RoomTypes, SessionTypes, ParticipantTypes, Placed,
     Exists, Looking
<1>29. CASE CloseIdle
  BY <1>29 DEF CloseIdle, BeginCloseRoom, roomVars, sessionVars,
     participantVars, workerVars, TypeOK, RoomTypes, SessionTypes,
     ParticipantTypes, Placed, Exists, Looking
<1>30. CASE DeleteRoom
  BY <1>30 DEF DeleteRoom, BeginCloseRoom, roomVars, sessionVars,
     participantVars, workerVars, TypeOK, RoomTypes, SessionTypes,
     ParticipantTypes, Placed, Exists, Looking
<1>31. ASSUME NEW r \in Rooms, CloseMember(r)
      PROVE  ParticipantTypes'
  BY <1>31 DEF CloseMember, BeginClose, roomVars, sessionVars,
     participantVars, workerVars, TypeOK, RoomTypes, SessionTypes,
     ParticipantTypes, Placed, Exists, Looking
<1>32. ASSUME NEW r \in Rooms, RoomClosed(r)
      PROVE  ParticipantTypes'
  BY <1>32 DEF RoomClosed, roomVars, sessionVars, participantVars,
     workerVars, TypeOK, RoomTypes, SessionTypes, ParticipantTypes, Placed,
     Exists, Looking
<1>33. CASE UNCHANGED vars
  BY <1>33 DEF vars, roomVars, sessionVars, participantVars, workerVars,
     TypeOK, RoomTypes, SessionTypes, ParticipantTypes, Placed, Exists,
     Looking
<1> QED
  BY <1>1, <1>2, <1>3, <1>4, <1>5, <1>6, <1>7, <1>8, <1>9, <1>10, <1>11,
     <1>12, <1>13, <1>14, <1>15, <1>16, <1>17, <1>18, <1>19, <1>20, <1>21,
     <1>22, <1>23, <1>24, <1>25, <1>26, <1>27, <1>28, <1>29, <1>30, <1>31,
     <1>32, <1>33 DEF Next, SessionStep, WorkerStep, RemovalStep, CloseStep

\* Every step keeps the sessions past getOrCreateRoom in a room.
LEMMA PlacedStep ==
  ASSUME NEW p \in Conns, TypeOK, (\A d \in Conns : Placed(d)),
     (\A r \in Rooms, i \in Identities : Mapped(r, i)), [Next]_vars
  PROVE  Placed(p)'
<1>1. ASSUME NEW c \in Conns, StartSession(c)
      PROVE  Placed(p)'
  BY <1>1 DEF StartSession, roomVars, sessionVars, participantVars,
     workerVars, TypeOK, RoomTypes, SessionTypes, ParticipantTypes, Placed,
     Exists, Looking, Mapped
<1>2. ASSUME NEW c \in Conns, HoldSeen(c)
      PROVE  Placed(p)'
  BY <1>2 DEF HoldSeen, roomVars, sessionVars, participantVars, workerVars,
     TypeOK, RoomTypes, SessionTypes, ParticipantTypes, Placed, Exists,
     Looking, Mapped
<1>3. ASSUME NEW c \in Conns, SeeOther(c)
      PROVE  Placed(p)'
  BY <1>3 DEF SeeOther, roomVars, sessionVars, participantVars, workerVars,
     TypeOK, RoomTypes, SessionTypes, ParticipantTypes, Placed, Exists,
     Looking, Mapped
<1>4. ASSUME NEW c \in Conns, NEW r \in Rooms, CreateRoom(c, r)
      PROVE  Placed(p)'
  BY <1>4 DEF CreateRoom, roomVars, sessionVars, participantVars,
     workerVars, TypeOK, RoomTypes, SessionTypes, ParticipantTypes, Placed,
     Exists, Looking, Mapped
<1>5. ASSUME NEW c \in Conns, HoldCreated(c)
      PROVE  Placed(p)'
  BY <1>5 DEF HoldCreated, roomVars, sessionVars, participantVars,
     workerVars, TypeOK, RoomTypes, SessionTypes, ParticipantTypes, Placed,
     Exists, Looking, Mapped
<1>6. ASSUME NEW c \in Conns, CreateFails(c)
      PROVE  Placed(p)'
  BY <1>6 DEF CreateFails, roomVars, sessionVars, participantVars,
     workerVars, TypeOK, RoomTypes, SessionTypes, ParticipantTypes, Placed,
     Exists, Looking, Mapped
<1>7. ASSUME NEW c \in Conns, FindToResume(c)
      PROVE  Placed(p)'
  <2> DEFINE found == members[at[c]][identity[c]]
  <2>1. pc[c] = "find"
    BY <1>7 DEF FindToResume
  <2>2. at[c] \in Rooms /\ (found = NoConn \/ Exists(found))
    BY <2>1, FoundType
  <2>3. \/ /\ pc' = [pc EXCEPT ![c] = "resume"] /\ found # NoConn
           /\ who' = [who EXCEPT ![c] = found]
        \/ pc' = [pc EXCEPT ![c] = "done"] /\ who' = who
    <3>1. CASE found # NoConn /\ found \notin isClosed
      BY <1>7, <3>1 DEF FindToResume
    <3>2. CASE ~(found # NoConn /\ found \notin isClosed)
      BY <1>7, <3>2 DEF FindToResume, Fail, Return
    <3> QED
      BY <3>1, <3>2
  <2> HIDE DEF found
  <2>4. UNCHANGED <<at, state, isClosed, listening, leaving, removing, leftTimer,
                    worker, toClose>>
    BY <1>7 DEF FindToResume, participantVars
  <2>5. CASE p = c
    <3>1. pc'[c] = "done"
            \/ (pc'[c] = "resume" /\ who'[c] = found /\ found # NoConn)
      BY <2>3 DEF TypeOK, SessionTypes
    <3>2. worker[c] = "none"
      BY <2>1 DEF Placed
    <3>3. CASE pc'[c] = "done"
      BY <2>2, <2>4, <2>5, <3>2, <3>3 DEF Placed, Exists, Looking
    <3>4. CASE pc'[c] = "resume" /\ who'[c] = found /\ found # NoConn
      BY <2>2, <2>4, <2>5, <3>2, <3>4 DEF Placed, Exists, Looking
    <3> QED
      BY <3>1, <3>3, <3>4
  <2>6. CASE p # c
    <3>1. pc'[p] = pc[p] /\ who'[p] = who[p]
      BY <2>3, <2>6 DEF TypeOK, SessionTypes
    <3> QED
      BY <2>4, <3>1 DEF Placed, Exists, Looking
  <2> QED
    BY <2>5, <2>6
<1>8. ASSUME NEW c \in Conns, FindDuplicate(c)
      PROVE  Placed(p)'
  <2> DEFINE found == members[at[c]][identity[c]]
  <2>1. pc[c] = "find"
    BY <1>8 DEF FindDuplicate
  <2>2. at[c] \in Rooms /\ (found = NoConn \/ Exists(found))
    BY <2>1, FoundType
  <2> HIDE DEF found
  <2>3. worker[c] = "none"
    BY <2>1 DEF Placed
  <2>4. /\ pc'[c] = "join" \/ (pc'[c] = "replace" /\ found # NoConn)
        /\ who'[c] = found
        /\ \A d \in Conns \ {c} : pc'[d] = pc[d] /\ who'[d] = who[d]
    BY <1>8 DEF FindDuplicate, TypeOK, SessionTypes, found
  <2>5. UNCHANGED <<at, state, isClosed, listening, leaving, removing, leftTimer,
                    worker, toClose>>
    BY <1>8 DEF FindDuplicate, roomVars, participantVars, workerVars
  <2>6. CASE p = c
    BY <2>1, <2>2, <2>3, <2>4, <2>5, <2>6 DEF Placed, Exists, Looking
  <2>7. CASE p # c
    BY <2>4, <2>5, <2>7 DEF Placed, Exists, Looking
  <2> QED
    BY <2>6, <2>7
<1>9. ASSUME NEW c \in Conns, RemoveDuplicate(c)
      PROVE  Placed(p)'
  <2>1. at[c] \in Rooms /\ identity[c] \in Identities /\ {who[c]} \subseteq Conns
    <3>1. Placed(c) /\ pc[c] = "replace"
      BY <1>9 DEF RemoveDuplicate
    <3>2. at[c] \in Rooms /\ who[c] \in Conns
      BY <3>1 DEF Placed, Exists, Looking
    <3> QED
      BY <3>2 DEF TypeOK, SessionTypes
  <2>2. RemoveFrom(at[c], identity[c], {who[c]})
    BY <1>9 DEF RemoveDuplicate
  <2>3. Removed(at[c], identity[c], {who[c]})
    BY <2>1, <2>2, RemoveFromEffect
  <2> QED
    BY <1>9, <2>1, <2>3 DEF RemoveDuplicate, Removed, sessionVars,
       workerVars, Placed, Exists, Looking
<1>10. ASSUME NEW c \in Conns, Join(c)
      PROVE  Placed(p)'
  <2>1. Placed(c) /\ pc[c] = "join"
    BY <1>10 DEF Join
  <2>2. at[c] \in Rooms /\ state[c] = "none" /\ worker[c] = "none"
    BY <2>1 DEF Placed, Looking
  <2>3. /\ UNCHANGED <<at, removing, leaving, worker, toClose>>
        /\ who'[c] = c /\ state'[c] # "none"
        /\ pc'[c] \in {"register", "done"}
    BY <1>10 DEF Join, Fail, Return, TypeOK, SessionTypes, ParticipantTypes
  <2>4. CASE p = c
    BY <2>2, <2>3, <2>4 DEF Placed, Exists, Looking
  <2>5. CASE p # c
    <3>1. pc'[p] = pc[p] /\ who'[p] = who[p] /\ state'[p] = state[p]
      BY <1>10, <2>5 DEF Join, Fail, Return, TypeOK, SessionTypes, ParticipantTypes
    <3>2. /\ p \in isClosed' => p \in isClosed
          /\ p \in listening' => p \in listening
          /\ p \in leftTimer' => p \in leftTimer
      BY <1>10, <2>5 DEF Join, BeginClose
    <3>3. \A d : Exists(d) => Exists(d)'
      BY <1>10 DEF Join, Exists, TypeOK, ParticipantTypes
    <3>4. Exists(p)' <=> Exists(p)
      BY <3>1 DEF Exists
    <3> QED
      BY <2>3, <3>1, <3>2, <3>3, <3>4 DEF Placed
  <2> QED
    BY <2>4, <2>5
<1>11. ASSUME NEW c \in Conns, Register(c)
      PROVE  Placed(p)'
  <2>1. Placed(c) /\ pc[c] = "register"
    BY <1>11 DEF Register
  <2>2. at[c] \in Rooms /\ who[c] = c /\ Exists(c)
    BY <2>1 DEF Placed, Looking
  <2>3. UNCHANGED <<at, who, state, listening, removing, leaving, toClose>>
    BY <1>11 DEF Register
  <2>4. CASE p = c
    <3>1. pc'[c] = "done"
      BY <1>11 DEF Register, Fail, Return, TypeOK, SessionTypes
    <3> QED
      BY <2>2, <2>3, <2>4, <3>1 DEF Placed, Exists, Looking
  <2>5. CASE p # c
    <3>1. pc'[p] = pc[p] /\ worker'[p] = worker[p]
      BY <1>11, <2>5 DEF Register, Fail, Return, TypeOK, SessionTypes,
         ParticipantTypes
    <3>2. /\ p \in isClosed' => p \in isClosed
          /\ p \in leftTimer' => p \in leftTimer
      BY <1>11, <2>5 DEF Register, BeginClose
    <3> QED
      BY <2>3, <3>1, <3>2 DEF Placed, Exists
  <2> QED
    BY <2>4, <2>5
<1>12. ASSUME NEW c \in Conns, ResumeSource(c)
      PROVE  Placed(p)'
  BY <1>12 DEF ResumeSource, roomVars, sessionVars, participantVars,
     workerVars, TypeOK, RoomTypes, SessionTypes, ParticipantTypes, Placed,
     Exists, Looking, Mapped
<1>13. ASSUME NEW c \in Conns, ResumeRestart(c)
      PROVE  Placed(p)'
  BY SMTT(30), <1>13 DEF ResumeRestart, Fail, Return, roomVars, sessionVars,
     participantVars, workerVars, TypeOK, RoomTypes, SessionTypes,
     ParticipantTypes, Placed, Exists, Looking, Mapped
<1>14. ASSUME NEW c \in Conns, WorkerStops(c)
      PROVE  Placed(p)'
  BY <1>14 DEF WorkerStops, roomVars, sessionVars, participantVars,
     workerVars, TypeOK, RoomTypes, SessionTypes, ParticipantTypes, Placed,
     Exists, Looking, Mapped
<1>15. ASSUME NEW c \in Conns, WorkerReadsEnd(c)
      PROVE  Placed(p)'
  BY <1>15 DEF WorkerReadsEnd, roomVars, sessionVars, participantVars,
     workerVars, TypeOK, RoomTypes, SessionTypes, ParticipantTypes, Placed,
     Exists, Looking, Mapped
<1>16. ASSUME NEW c \in Conns, HandleSignalSourceClose(c)
      PROVE  Placed(p)'
  BY <1>16 DEF HandleSignalSourceClose, BeginClose, roomVars, sessionVars,
     participantVars, workerVars, TypeOK, RoomTypes, SessionTypes,
     ParticipantTypes, Placed, Exists, Looking, Mapped
<1>17. ASSUME NEW c \in Conns, HandleLeaveRequest(c)
      PROVE  Placed(p)'
  <2>1. at[c] \in Rooms /\ identity[c] \in Identities /\ {who[c]} \subseteq Conns
    BY <1>17 DEF HandleLeaveRequest, Placed, Exists, Looking, TypeOK,
       RoomTypes, SessionTypes, ParticipantTypes
  <2>2. RemoveFrom(at[c], identity[c], {who[c]})
    BY <1>17 DEF HandleLeaveRequest
  <2>3. Removed(at[c], identity[c], {who[c]})
    BY <2>1, <2>2, RemoveFromEffect
  <2> QED
    BY <1>17, <2>1, <2>3 DEF HandleLeaveRequest, Removed, sessionVars,
       workerVars, Placed, Exists, Looking
<1>18. ASSUME NEW c \in Conns, ConnectionEnds(c)
      PROVE  Placed(p)'
  BY <1>18 DEF ConnectionEnds, roomVars, sessionVars, participantVars,
     workerVars, TypeOK, RoomTypes, SessionTypes, ParticipantTypes, Placed,
     Exists, Looking, Mapped
<1>19. ASSUME NEW c \in Conns, CloseParticipant(c)
      PROVE  Placed(p)'
  BY <1>19 DEF CloseParticipant, roomVars, sessionVars, participantVars,
     workerVars, TypeOK, RoomTypes, SessionTypes, ParticipantTypes, Placed,
     Exists, Looking, Mapped
<1>20. ASSUME NEW c \in Conns, FinishRemoval(c)
      PROVE  Placed(p)'
  BY <1>20 DEF FinishRemoval, BeginClose, roomVars, sessionVars,
     participantVars, workerVars, TypeOK, RoomTypes, SessionTypes,
     ParticipantTypes, Placed, Exists, Looking, Mapped
<1>21. ASSUME NEW c \in Conns, RemoveDisconnected(c)
      PROVE  Placed(p)'
  <2>1. at[c] \in Rooms /\ identity[c] \in Identities /\ {c} \subseteq Conns
    BY <1>21 DEF RemoveDisconnected, Placed, Exists, Looking, TypeOK,
       RoomTypes, SessionTypes, ParticipantTypes
  <2>2. RemoveFrom(at[c], identity[c], {c})
    BY <1>21 DEF RemoveDisconnected
  <2>3. Removed(at[c], identity[c], {c})
    BY <2>1, <2>2, RemoveFromEffect
  <2> QED
    BY <1>21, <2>1, <2>3 DEF RemoveDisconnected, Removed, sessionVars,
       workerVars, Placed, Exists, Looking
<1>22. ASSUME NEW c \in Conns, Connect(c)
      PROVE  Placed(p)'
  BY <1>22 DEF Connect, roomVars, sessionVars, participantVars, workerVars,
     TypeOK, RoomTypes, SessionTypes, ParticipantTypes, Placed, Exists,
     Looking, Mapped
<1>23. ASSUME NEW c \in Conns, TransportFails(c)
      PROVE  Placed(p)'
  BY <1>23 DEF TransportFails, roomVars, sessionVars, participantVars,
     workerVars, TypeOK, RoomTypes, SessionTypes, ParticipantTypes, Placed,
     Exists, Looking, Mapped
<1>24. ASSUME NEW c \in Conns, DisconnectTimeout(c)
      PROVE  Placed(p)'
  BY <1>24 DEF DisconnectTimeout, BeginClose, roomVars, sessionVars,
     participantVars, workerVars, TypeOK, RoomTypes, SessionTypes,
     ParticipantTypes, Placed, Exists, Looking, Mapped
<1>25. ASSUME NEW c \in Conns, IssueFullReconnect(c)
      PROVE  Placed(p)'
  BY <1>25 DEF IssueFullReconnect, BeginClose, roomVars, sessionVars,
     participantVars, workerVars, TypeOK, RoomTypes, SessionTypes,
     ParticipantTypes, Placed, Exists, Looking, Mapped
<1>26. ASSUME NEW c \in Conns, JoinTimeout(c)
      PROVE  Placed(p)'
  <2>1. at[c] \in Rooms /\ identity[c] \in Identities /\ {c} \subseteq Conns
    BY <1>26 DEF JoinTimeout, Placed, Exists, Looking, TypeOK, RoomTypes,
       SessionTypes, ParticipantTypes
  <2>2. RemoveFrom(at[c], identity[c], {c})
    BY <1>26 DEF JoinTimeout
  <2>3. Removed(at[c], identity[c], {c})
    BY <2>1, <2>2, RemoveFromEffect
  <2> QED
    BY <1>26, <2>1, <2>3 DEF JoinTimeout, Removed, sessionVars, workerVars,
       Placed, Exists, Looking
<1>27. ASSUME NEW i \in Identities, RemoveParticipant(i)
      PROVE  Placed(p)'
  <2>1. mapped \in Rooms /\ i \in Identities /\ Conns \subseteq Conns
    BY <1>27 DEF RemoveParticipant, Placed, Exists, Looking, TypeOK,
       RoomTypes, SessionTypes, ParticipantTypes
  <2>2. RemoveFrom(mapped, i, Conns)
    BY <1>27 DEF RemoveParticipant
  <2>3. Removed(mapped, i, Conns)
    BY <2>1, <2>2, RemoveFromEffect
  <2> QED
    BY <1>27, <2>1, <2>3 DEF RemoveParticipant, Removed, sessionVars,
       workerVars, Placed, Exists, Looking
<1>28. CASE CloseIfEmpty
  BY <1>28 DEF CloseIfEmpty, roomVars, sessionVars, participantVars,
     workerVars, TypeOK, RoomTypes, SessionTypes, ParticipantTypes, Placed,
     Exists, Looking, Mapped
<1>29. CASE CloseIdle
  <2>1. ASSUME NEW r \in Rooms, p \in Members(r)
        PROVE  Exists(p)
    BY <2>1 DEF Members, Mapped, Exists
  <2>2. toClose' = toClose \/ toClose' = [toClose EXCEPT ![janitor] = Members(janitor)]
    BY <1>29 DEF CloseIdle, BeginCloseRoom
  <2>3. \A r \in Rooms : p \in toClose'[r] => p \in toClose[r] \/ p \in Members(r)
    BY <2>2 DEF TypeOK, RoomTypes
  <2> QED
    BY <1>29, <2>1, <2>3 DEF CloseIdle, sessionVars, participantVars, workerVars, Placed,
       Exists, Looking
<1>30. CASE DeleteRoom
  <2>1. ASSUME NEW r \in Rooms, p \in Members(r)
        PROVE  Exists(p)
    BY <2>1 DEF Members, Mapped, Exists
  <2>2. toClose' = toClose \/ toClose' = [toClose EXCEPT ![mapped] = Members(mapped)]
    BY <1>30 DEF DeleteRoom, BeginCloseRoom
  <2>3. \A r \in Rooms : p \in toClose'[r] => p \in toClose[r] \/ p \in Members(r)
    BY <2>2 DEF TypeOK, RoomTypes
  <2> QED
    BY <1>30, <2>1, <2>3 DEF DeleteRoom, sessionVars, participantVars, workerVars, Placed,
       Exists, Looking
<1>31. ASSUME NEW r \in Rooms, CloseMember(r)
      PROVE  Placed(p)'
  BY <1>31 DEF CloseMember, BeginClose, roomVars, sessionVars,
     participantVars, workerVars, TypeOK, RoomTypes, SessionTypes,
     ParticipantTypes, Placed, Exists, Looking, Mapped
<1>32. ASSUME NEW r \in Rooms, RoomClosed(r)
      PROVE  Placed(p)'
  BY <1>32 DEF RoomClosed, roomVars, sessionVars, participantVars,
     workerVars, TypeOK, RoomTypes, SessionTypes, ParticipantTypes, Placed,
     Exists, Looking, Mapped
<1>33. CASE UNCHANGED vars
  BY <1>33 DEF vars, roomVars, sessionVars, participantVars, workerVars,
     TypeOK, RoomTypes, SessionTypes, ParticipantTypes, Placed, Exists,
     Looking, Mapped
<1> QED
  BY <1>1, <1>2, <1>3, <1>4, <1>5, <1>6, <1>7, <1>8, <1>9, <1>10, <1>11,
     <1>12, <1>13, <1>14, <1>15, <1>16, <1>17, <1>18, <1>19, <1>20, <1>21,
     <1>22, <1>23, <1>24, <1>25, <1>26, <1>27, <1>28, <1>29, <1>30, <1>31,
     <1>32, <1>33 DEF Next, SessionStep, WorkerStep, RemovalStep, CloseStep

\* Every step keeps the maps of a room to those who joined it.
LEMMA MappedStep ==
  ASSUME NEW q \in Rooms, NEW j \in Identities, TypeOK,
     (\A d \in Conns : Placed(d)), (\A r \in Rooms,
     i \in Identities : Mapped(r, i)), [Next]_vars
  PROVE  Mapped(q, j)'
<1>1. ASSUME NEW c \in Conns, StartSession(c)
      PROVE  Mapped(q, j)'
  BY <1>1 DEF StartSession, roomVars, sessionVars, participantVars,
     workerVars, TypeOK, RoomTypes, SessionTypes, ParticipantTypes, Placed,
     Exists, Looking, Mapped
<1>2. ASSUME NEW c \in Conns, HoldSeen(c)
      PROVE  Mapped(q, j)'
  BY <1>2 DEF HoldSeen, roomVars, sessionVars, participantVars, workerVars,
     TypeOK, RoomTypes, SessionTypes, ParticipantTypes, Placed, Exists,
     Looking, Mapped
<1>3. ASSUME NEW c \in Conns, SeeOther(c)
      PROVE  Mapped(q, j)'
  BY <1>3 DEF SeeOther, roomVars, sessionVars, participantVars, workerVars,
     TypeOK, RoomTypes, SessionTypes, ParticipantTypes, Placed, Exists,
     Looking, Mapped
<1>4. ASSUME NEW c \in Conns, NEW r \in Rooms, CreateRoom(c, r)
      PROVE  Mapped(q, j)'
  BY <1>4 DEF CreateRoom, roomVars, sessionVars, participantVars,
     workerVars, TypeOK, RoomTypes, SessionTypes, ParticipantTypes, Placed,
     Exists, Looking, Mapped
<1>5. ASSUME NEW c \in Conns, HoldCreated(c)
      PROVE  Mapped(q, j)'
  BY <1>5 DEF HoldCreated, roomVars, sessionVars, participantVars,
     workerVars, TypeOK, RoomTypes, SessionTypes, ParticipantTypes, Placed,
     Exists, Looking, Mapped
<1>6. ASSUME NEW c \in Conns, CreateFails(c)
      PROVE  Mapped(q, j)'
  BY <1>6 DEF CreateFails, roomVars, sessionVars, participantVars,
     workerVars, TypeOK, RoomTypes, SessionTypes, ParticipantTypes, Placed,
     Exists, Looking, Mapped
<1>7. ASSUME NEW c \in Conns, FindToResume(c)
      PROVE  Mapped(q, j)'
  BY <1>7 DEF FindToResume, Fail, Return, roomVars, sessionVars,
     participantVars, workerVars, TypeOK, RoomTypes, SessionTypes,
     ParticipantTypes, Placed, Exists, Looking, Mapped
<1>8. ASSUME NEW c \in Conns, FindDuplicate(c)
      PROVE  Mapped(q, j)'
  BY <1>8 DEF FindDuplicate, roomVars, sessionVars, participantVars,
     workerVars, TypeOK, RoomTypes, SessionTypes, ParticipantTypes, Placed,
     Exists, Looking, Mapped
<1>9. ASSUME NEW c \in Conns, RemoveDuplicate(c)
      PROVE  Mapped(q, j)'
  <2>1. at[c] \in Rooms /\ identity[c] \in Identities /\ {who[c]} \subseteq Conns
    <3>1. Placed(c) /\ pc[c] = "replace"
      BY <1>9 DEF RemoveDuplicate
    <3>2. at[c] \in Rooms /\ who[c] \in Conns
      BY <3>1 DEF Placed, Exists, Looking
    <3> QED
      BY <3>2 DEF TypeOK, SessionTypes
  <2>2. RemoveFrom(at[c], identity[c], {who[c]})
    BY <1>9 DEF RemoveDuplicate
  <2>3. Removed(at[c], identity[c], {who[c]})
    BY <2>1, <2>2, RemoveFromEffect
  <2> QED
    BY <1>9, <2>1, <2>3 DEF RemoveDuplicate, Removed, sessionVars,
       workerVars, Mapped, Exists
<1>10. ASSUME NEW c \in Conns, Join(c)
      PROVE  Mapped(q, j)'
  <2>1. /\ at' = at /\ identity' = identity
        /\ at[c] \in Rooms /\ identity[c] \in Identities
    <3>1. Placed(c) /\ pc[c] = "join"
      BY <1>10 DEF Join
    <3> QED
      BY <1>10, <3>1 DEF Join, Placed, Looking, TypeOK, SessionTypes
  <2>2. /\ state'[c] # "none"
        /\ \A d \in Conns : state[d] # "none" => state'[d] # "none"
    BY <1>10 DEF Join, TypeOK, ParticipantTypes
  <2>3. CASE members'[q][j] = members[q][j]
    BY SMTT(30), <2>1, <2>2, <2>3 DEF Mapped, TypeOK, RoomTypes
  <2>4. CASE members'[q][j] # members[q][j]
    <3>1. members' = [members EXCEPT ![at[c]][identity[c]] = c]
      BY <1>10, <2>4 DEF Join
    <3>2. q = at[c] /\ j = identity[c] /\ members'[q][j] = c
      BY <2>1, <2>4, <3>1 DEF TypeOK, RoomTypes
    <3> QED
      BY <2>1, <2>2, <3>2 DEF Mapped
  <2> QED
    BY <2>3, <2>4
<1>11. ASSUME NEW c \in Conns, Register(c)
      PROVE  Mapped(q, j)'
  BY <1>11 DEF Register, BeginClose, Fail, Return, roomVars, sessionVars,
     participantVars, workerVars, TypeOK, RoomTypes, SessionTypes,
     ParticipantTypes, Placed, Exists, Looking, Mapped
<1>12. ASSUME NEW c \in Conns, ResumeSource(c)
      PROVE  Mapped(q, j)'
  BY <1>12 DEF ResumeSource, roomVars, sessionVars, participantVars,
     workerVars, TypeOK, RoomTypes, SessionTypes, ParticipantTypes, Placed,
     Exists, Looking, Mapped
<1>13. ASSUME NEW c \in Conns, ResumeRestart(c)
      PROVE  Mapped(q, j)'
  BY <1>13 DEF ResumeRestart, Fail, Return, roomVars, sessionVars,
     participantVars, workerVars, TypeOK, RoomTypes, SessionTypes,
     ParticipantTypes, Placed, Exists, Looking, Mapped
<1>14. ASSUME NEW c \in Conns, WorkerStops(c)
      PROVE  Mapped(q, j)'
  BY <1>14 DEF WorkerStops, roomVars, sessionVars, participantVars,
     workerVars, TypeOK, RoomTypes, SessionTypes, ParticipantTypes, Placed,
     Exists, Looking, Mapped
<1>15. ASSUME NEW c \in Conns, WorkerReadsEnd(c)
      PROVE  Mapped(q, j)'
  BY <1>15 DEF WorkerReadsEnd, roomVars, sessionVars, participantVars,
     workerVars, TypeOK, RoomTypes, SessionTypes, ParticipantTypes, Placed,
     Exists, Looking, Mapped
<1>16. ASSUME NEW c \in Conns, HandleSignalSourceClose(c)
      PROVE  Mapped(q, j)'
  BY <1>16 DEF HandleSignalSourceClose, BeginClose, roomVars, sessionVars,
     participantVars, workerVars, TypeOK, RoomTypes, SessionTypes,
     ParticipantTypes, Placed, Exists, Looking, Mapped
<1>17. ASSUME NEW c \in Conns, HandleLeaveRequest(c)
      PROVE  Mapped(q, j)'
  <2>1. at[c] \in Rooms /\ identity[c] \in Identities /\ {who[c]} \subseteq Conns
    BY <1>17 DEF HandleLeaveRequest, Placed, Exists, Looking, TypeOK,
       RoomTypes, SessionTypes, ParticipantTypes
  <2>2. RemoveFrom(at[c], identity[c], {who[c]})
    BY <1>17 DEF HandleLeaveRequest
  <2>3. Removed(at[c], identity[c], {who[c]})
    BY <2>1, <2>2, RemoveFromEffect
  <2> QED
    BY <1>17, <2>1, <2>3 DEF HandleLeaveRequest, Removed, sessionVars,
       workerVars, Mapped, Exists
<1>18. ASSUME NEW c \in Conns, ConnectionEnds(c)
      PROVE  Mapped(q, j)'
  BY <1>18 DEF ConnectionEnds, roomVars, sessionVars, participantVars,
     workerVars, TypeOK, RoomTypes, SessionTypes, ParticipantTypes, Placed,
     Exists, Looking, Mapped
<1>19. ASSUME NEW c \in Conns, CloseParticipant(c)
      PROVE  Mapped(q, j)'
  BY <1>19 DEF CloseParticipant, roomVars, sessionVars, participantVars,
     workerVars, TypeOK, RoomTypes, SessionTypes, ParticipantTypes, Placed,
     Exists, Looking, Mapped
<1>20. ASSUME NEW c \in Conns, FinishRemoval(c)
      PROVE  Mapped(q, j)'
  BY <1>20 DEF FinishRemoval, BeginClose, roomVars, sessionVars,
     participantVars, workerVars, TypeOK, RoomTypes, SessionTypes,
     ParticipantTypes, Placed, Exists, Looking, Mapped
<1>21. ASSUME NEW c \in Conns, RemoveDisconnected(c)
      PROVE  Mapped(q, j)'
  <2>1. at[c] \in Rooms /\ identity[c] \in Identities /\ {c} \subseteq Conns
    BY <1>21 DEF RemoveDisconnected, Placed, Exists, Looking, TypeOK,
       RoomTypes, SessionTypes, ParticipantTypes
  <2>2. RemoveFrom(at[c], identity[c], {c})
    BY <1>21 DEF RemoveDisconnected
  <2>3. Removed(at[c], identity[c], {c})
    BY <2>1, <2>2, RemoveFromEffect
  <2> QED
    BY <1>21, <2>1, <2>3 DEF RemoveDisconnected, Removed, sessionVars,
       workerVars, Mapped, Exists
<1>22. ASSUME NEW c \in Conns, Connect(c)
      PROVE  Mapped(q, j)'
  BY <1>22 DEF Connect, roomVars, sessionVars, participantVars, workerVars,
     TypeOK, RoomTypes, SessionTypes, ParticipantTypes, Placed, Exists,
     Looking, Mapped
<1>23. ASSUME NEW c \in Conns, TransportFails(c)
      PROVE  Mapped(q, j)'
  BY <1>23 DEF TransportFails, roomVars, sessionVars, participantVars,
     workerVars, TypeOK, RoomTypes, SessionTypes, ParticipantTypes, Placed,
     Exists, Looking, Mapped
<1>24. ASSUME NEW c \in Conns, DisconnectTimeout(c)
      PROVE  Mapped(q, j)'
  BY <1>24 DEF DisconnectTimeout, BeginClose, roomVars, sessionVars,
     participantVars, workerVars, TypeOK, RoomTypes, SessionTypes,
     ParticipantTypes, Placed, Exists, Looking, Mapped
<1>25. ASSUME NEW c \in Conns, IssueFullReconnect(c)
      PROVE  Mapped(q, j)'
  BY <1>25 DEF IssueFullReconnect, BeginClose, roomVars, sessionVars,
     participantVars, workerVars, TypeOK, RoomTypes, SessionTypes,
     ParticipantTypes, Placed, Exists, Looking, Mapped
<1>26. ASSUME NEW c \in Conns, JoinTimeout(c)
      PROVE  Mapped(q, j)'
  <2>1. at[c] \in Rooms /\ identity[c] \in Identities /\ {c} \subseteq Conns
    BY <1>26 DEF JoinTimeout, Placed, Exists, Looking, TypeOK, RoomTypes,
       SessionTypes, ParticipantTypes
  <2>2. RemoveFrom(at[c], identity[c], {c})
    BY <1>26 DEF JoinTimeout
  <2>3. Removed(at[c], identity[c], {c})
    BY <2>1, <2>2, RemoveFromEffect
  <2> QED
    BY <1>26, <2>1, <2>3 DEF JoinTimeout, Removed, sessionVars, workerVars,
       Mapped, Exists
<1>27. ASSUME NEW i \in Identities, RemoveParticipant(i)
      PROVE  Mapped(q, j)'
  <2>1. mapped \in Rooms /\ i \in Identities /\ Conns \subseteq Conns
    BY <1>27 DEF RemoveParticipant, Placed, Exists, Looking, TypeOK,
       RoomTypes, SessionTypes, ParticipantTypes
  <2>2. RemoveFrom(mapped, i, Conns)
    BY <1>27 DEF RemoveParticipant
  <2>3. Removed(mapped, i, Conns)
    BY <2>1, <2>2, RemoveFromEffect
  <2> QED
    BY <1>27, <2>1, <2>3 DEF RemoveParticipant, Removed, sessionVars,
       workerVars, Mapped, Exists
<1>28. CASE CloseIfEmpty
  BY <1>28 DEF CloseIfEmpty, roomVars, sessionVars, participantVars,
     workerVars, TypeOK, RoomTypes, SessionTypes, ParticipantTypes, Placed,
     Exists, Looking, Mapped
<1>29. CASE CloseIdle
  BY <1>29 DEF CloseIdle, BeginCloseRoom, roomVars, sessionVars,
     participantVars, workerVars, TypeOK, RoomTypes, SessionTypes,
     ParticipantTypes, Placed, Exists, Looking, Mapped
<1>30. CASE DeleteRoom
  BY <1>30 DEF DeleteRoom, BeginCloseRoom, roomVars, sessionVars,
     participantVars, workerVars, TypeOK, RoomTypes, SessionTypes,
     ParticipantTypes, Placed, Exists, Looking, Mapped
<1>31. ASSUME NEW r \in Rooms, CloseMember(r)
      PROVE  Mapped(q, j)'
  BY <1>31 DEF CloseMember, BeginClose, roomVars, sessionVars,
     participantVars, workerVars, TypeOK, RoomTypes, SessionTypes,
     ParticipantTypes, Placed, Exists, Looking, Mapped
<1>32. ASSUME NEW r \in Rooms, RoomClosed(r)
      PROVE  Mapped(q, j)'
  BY <1>32 DEF RoomClosed, roomVars, sessionVars, participantVars,
     workerVars, TypeOK, RoomTypes, SessionTypes, ParticipantTypes, Placed,
     Exists, Looking, Mapped
<1>33. CASE UNCHANGED vars
  BY <1>33 DEF vars, roomVars, sessionVars, participantVars, workerVars,
     TypeOK, RoomTypes, SessionTypes, ParticipantTypes, Placed, Exists,
     Looking, Mapped
<1> QED
  BY <1>1, <1>2, <1>3, <1>4, <1>5, <1>6, <1>7, <1>8, <1>9, <1>10, <1>11,
     <1>12, <1>13, <1>14, <1>15, <1>16, <1>17, <1>18, <1>19, <1>20, <1>21,
     <1>22, <1>23, <1>24, <1>25, <1>26, <1>27, <1>28, <1>29, <1>30, <1>31,
     <1>32, <1>33 DEF Next, SessionStep, WorkerStep, RemovalStep, CloseStep

\* What NoStray and ClosedRoomIsEmpty say of one participant.
Accounted(p) ==
  state[p] # "none" /\ p \notin isClosed =>
    members[at[p]][identity[p]] = p \/ p \in leaving

Emptied(p) ==
  state[p] # "none" /\ p \notin isClosed /\ at[p] \in shut =>
    p \in leaving \/ p \in toClose[at[p]]

\* Every step keeps a participant mapped, leaving or closed.
LEMMA AccountedStep ==
  ASSUME NEW p \in Conns, TypeOK, (\A d \in Conns : Placed(d)),
     (\A r \in Rooms, i \in Identities : Mapped(r, i)), Accounted(p),
     [Next]_vars
  PROVE  Accounted(p)'
<1>1. ASSUME NEW c \in Conns, StartSession(c)
      PROVE  Accounted(p)'
  BY <1>1 DEF StartSession, roomVars, sessionVars, participantVars,
     workerVars, TypeOK, RoomTypes, SessionTypes, ParticipantTypes, Placed,
     Exists, Looking, Mapped, Accounted
<1>2. ASSUME NEW c \in Conns, HoldSeen(c)
      PROVE  Accounted(p)'
  <2>1. Placed(c) /\ pc[c] = "hold"
    BY <1>2 DEF HoldSeen
  <2>2. state[c] = "none"
    BY <2>1 DEF Placed, Looking
  <2>3. p # c => at'[p] = at[p]
    BY <1>2 DEF HoldSeen, TypeOK, SessionTypes
  <2>4. UNCHANGED <<state, isClosed, leaving, members, identity, shut, toClose>>
    BY <1>2 DEF HoldSeen, participantVars
  <2> QED
    BY <2>2, <2>3, <2>4 DEF Accounted
<1>3. ASSUME NEW c \in Conns, SeeOther(c)
      PROVE  Accounted(p)'
  BY <1>3 DEF SeeOther, roomVars, sessionVars, participantVars, workerVars,
     TypeOK, RoomTypes, SessionTypes, ParticipantTypes, Placed, Exists,
     Looking, Mapped, Accounted
<1>4. ASSUME NEW c \in Conns, NEW r \in Rooms, CreateRoom(c, r)
      PROVE  Accounted(p)'
  BY <1>4 DEF CreateRoom, roomVars, sessionVars, participantVars,
     workerVars, TypeOK, RoomTypes, SessionTypes, ParticipantTypes, Placed,
     Exists, Looking, Mapped, Accounted
<1>5. ASSUME NEW c \in Conns, HoldCreated(c)
      PROVE  Accounted(p)'
  BY <1>5 DEF HoldCreated, roomVars, sessionVars, participantVars,
     workerVars, TypeOK, RoomTypes, SessionTypes, ParticipantTypes, Placed,
     Exists, Looking, Mapped, Accounted
<1>6. ASSUME NEW c \in Conns, CreateFails(c)
      PROVE  Accounted(p)'
  BY <1>6 DEF CreateFails, roomVars, sessionVars, participantVars,
     workerVars, TypeOK, RoomTypes, SessionTypes, ParticipantTypes, Placed,
     Exists, Looking, Mapped, Accounted
<1>7. ASSUME NEW c \in Conns, FindToResume(c)
      PROVE  Accounted(p)'
  BY <1>7 DEF FindToResume, Fail, Return, roomVars, sessionVars,
     participantVars, workerVars, TypeOK, RoomTypes, SessionTypes,
     ParticipantTypes, Placed, Exists, Looking, Mapped, Accounted
<1>8. ASSUME NEW c \in Conns, FindDuplicate(c)
      PROVE  Accounted(p)'
  BY <1>8 DEF FindDuplicate, roomVars, sessionVars, participantVars,
     workerVars, TypeOK, RoomTypes, SessionTypes, ParticipantTypes, Placed,
     Exists, Looking, Mapped, Accounted
<1>9. ASSUME NEW c \in Conns, RemoveDuplicate(c)
      PROVE  Accounted(p)'
  <2>1. at[c] \in Rooms /\ identity[c] \in Identities /\ {who[c]} \subseteq Conns
    <3>1. Placed(c) /\ pc[c] = "replace"
      BY <1>9 DEF RemoveDuplicate
    <3>2. at[c] \in Rooms /\ who[c] \in Conns
      BY <3>1 DEF Placed, Exists, Looking
    <3> QED
      BY <3>2 DEF TypeOK, SessionTypes
  <2>2. RemoveFrom(at[c], identity[c], {who[c]})
    BY <1>9 DEF RemoveDuplicate
  <2>3. Removed(at[c], identity[c], {who[c]})
    BY <2>1, <2>2, RemoveFromEffect
  <2> QED
    BY <1>9, <2>1, <2>3, NoConnAssumption DEF RemoveDuplicate, Removed,
       sessionVars, workerVars, Accounted, Exists, Placed, TypeOK, RoomTypes,
       SessionTypes, ParticipantTypes
<1>10. ASSUME NEW c \in Conns, Join(c)
      PROVE  Accounted(p)'
  <2>1. /\ at' = at /\ identity' = identity /\ leaving' = leaving
        /\ at[c] \in Rooms /\ identity[c] \in Identities
    <3>1. Placed(c) /\ pc[c] = "join"
      BY <1>10 DEF Join
    <3> QED
      BY <1>10, <3>1 DEF Join, Placed, Looking, TypeOK, SessionTypes
  <2>2. isClosed \subseteq isClosed'
    BY <1>10 DEF Join, BeginClose
  <2>3. CASE p = c
    <3>1. CASE c \in isClosed'
      BY <2>3, <3>1 DEF Accounted
    <3>2. CASE c \notin isClosed'
      <4>1. MayJoin(at[c], identity[c])
        BY <1>10, <3>2 DEF Join, BeginClose
      <4>2. members' = [members EXCEPT ![at[c]][identity[c]] = c]
        BY <1>10, <4>1 DEF Join
      <4>3. members'[at[c]][identity[c]] = c
        BY <2>1, <4>2 DEF TypeOK, RoomTypes
      <4> QED
        BY <2>1, <2>3, <4>3 DEF Accounted
    <3> QED
      BY <3>1, <3>2
  <2>4. CASE p # c
    <3>1. state'[p] = state[p]
      BY <1>10, <2>4 DEF Join, TypeOK, ParticipantTypes
    <3>2. CASE ~MayJoin(at[c], identity[c])
      <4>1. members' = members
        BY <1>10, <3>2 DEF Join
      <4> QED
        BY <2>1, <2>2, <3>1, <4>1 DEF Accounted
    <3>3. CASE MayJoin(at[c], identity[c])
      <4>1. members[at[c]][identity[c]] = NoConn
        BY <3>3 DEF MayJoin
      <4>2. members' = [members EXCEPT ![at[c]][identity[c]] = c]
        BY <1>10, <3>3 DEF Join
      <4>3. ASSUME NEW q \in Rooms, NEW j \in Identities, members[q][j] = p
            PROVE  members'[q][j] = p
        <5>1. ~(q = at[c] /\ j = identity[c])
          BY <4>1, <4>3, NoConnAssumption
        <5> QED
          BY <2>1, <4>2, <4>3, <5>1 DEF TypeOK, RoomTypes
      <4>4. Exists(p) => at[p] \in Rooms /\ identity[p] \in Identities
        BY DEF Placed, TypeOK, SessionTypes
      <4> QED
        BY <2>1, <2>2, <3>1, <4>3, <4>4 DEF Accounted, Exists
    <3> QED
      BY <3>2, <3>3
  <2> QED
    BY <2>3, <2>4
<1>11. ASSUME NEW c \in Conns, Register(c)
      PROVE  Accounted(p)'
  BY <1>11 DEF Register, BeginClose, Fail, Return, roomVars, sessionVars,
     participantVars, workerVars, TypeOK, RoomTypes, SessionTypes,
     ParticipantTypes, Placed, Exists, Looking, Mapped, Accounted
<1>12. ASSUME NEW c \in Conns, ResumeSource(c)
      PROVE  Accounted(p)'
  BY <1>12 DEF ResumeSource, roomVars, sessionVars, participantVars,
     workerVars, TypeOK, RoomTypes, SessionTypes, ParticipantTypes, Placed,
     Exists, Looking, Mapped, Accounted
<1>13. ASSUME NEW c \in Conns, ResumeRestart(c)
      PROVE  Accounted(p)'
  BY <1>13 DEF ResumeRestart, Fail, Return, roomVars, sessionVars,
     participantVars, workerVars, TypeOK, RoomTypes, SessionTypes,
     ParticipantTypes, Placed, Exists, Looking, Mapped, Accounted
<1>14. ASSUME NEW c \in Conns, WorkerStops(c)
      PROVE  Accounted(p)'
  BY <1>14 DEF WorkerStops, roomVars, sessionVars, participantVars,
     workerVars, TypeOK, RoomTypes, SessionTypes, ParticipantTypes, Placed,
     Exists, Looking, Mapped, Accounted
<1>15. ASSUME NEW c \in Conns, WorkerReadsEnd(c)
      PROVE  Accounted(p)'
  BY <1>15 DEF WorkerReadsEnd, roomVars, sessionVars, participantVars,
     workerVars, TypeOK, RoomTypes, SessionTypes, ParticipantTypes, Placed,
     Exists, Looking, Mapped, Accounted
<1>16. ASSUME NEW c \in Conns, HandleSignalSourceClose(c)
      PROVE  Accounted(p)'
  BY <1>16 DEF HandleSignalSourceClose, BeginClose, roomVars, sessionVars,
     participantVars, workerVars, TypeOK, RoomTypes, SessionTypes,
     ParticipantTypes, Placed, Exists, Looking, Mapped, Accounted
<1>17. ASSUME NEW c \in Conns, HandleLeaveRequest(c)
      PROVE  Accounted(p)'
  <2>1. at[c] \in Rooms /\ identity[c] \in Identities /\ {who[c]} \subseteq Conns
    BY <1>17 DEF HandleLeaveRequest, Placed, Exists, Looking, TypeOK,
       RoomTypes, SessionTypes, ParticipantTypes
  <2>2. RemoveFrom(at[c], identity[c], {who[c]})
    BY <1>17 DEF HandleLeaveRequest
  <2>3. Removed(at[c], identity[c], {who[c]})
    BY <2>1, <2>2, RemoveFromEffect
  <2> QED
    BY <1>17, <2>1, <2>3, NoConnAssumption DEF HandleLeaveRequest, Removed,
       sessionVars, workerVars, Accounted, Exists, Placed, TypeOK, RoomTypes,
       SessionTypes, ParticipantTypes
<1>18. ASSUME NEW c \in Conns, ConnectionEnds(c)
      PROVE  Accounted(p)'
  BY <1>18 DEF ConnectionEnds, roomVars, sessionVars, participantVars,
     workerVars, TypeOK, RoomTypes, SessionTypes, ParticipantTypes, Placed,
     Exists, Looking, Mapped, Accounted
<1>19. ASSUME NEW c \in Conns, CloseParticipant(c)
      PROVE  Accounted(p)'
  BY <1>19 DEF CloseParticipant, roomVars, sessionVars, participantVars,
     workerVars, TypeOK, RoomTypes, SessionTypes, ParticipantTypes, Placed,
     Exists, Looking, Mapped, Accounted
<1>20. ASSUME NEW c \in Conns, FinishRemoval(c)
      PROVE  Accounted(p)'
  BY <1>20 DEF FinishRemoval, BeginClose, roomVars, sessionVars,
     participantVars, workerVars, TypeOK, RoomTypes, SessionTypes,
     ParticipantTypes, Placed, Exists, Looking, Mapped, Accounted
<1>21. ASSUME NEW c \in Conns, RemoveDisconnected(c)
      PROVE  Accounted(p)'
  <2>1. at[c] \in Rooms /\ identity[c] \in Identities /\ {c} \subseteq Conns
    BY <1>21 DEF RemoveDisconnected, Placed, Exists, Looking, TypeOK,
       RoomTypes, SessionTypes, ParticipantTypes
  <2>2. RemoveFrom(at[c], identity[c], {c})
    BY <1>21 DEF RemoveDisconnected
  <2>3. Removed(at[c], identity[c], {c})
    BY <2>1, <2>2, RemoveFromEffect
  <2> QED
    BY <1>21, <2>1, <2>3, NoConnAssumption DEF RemoveDisconnected, Removed,
       sessionVars, workerVars, Accounted, Exists, Placed, TypeOK, RoomTypes,
       SessionTypes, ParticipantTypes
<1>22. ASSUME NEW c \in Conns, Connect(c)
      PROVE  Accounted(p)'
  BY <1>22 DEF Connect, roomVars, sessionVars, participantVars, workerVars,
     TypeOK, RoomTypes, SessionTypes, ParticipantTypes, Placed, Exists,
     Looking, Mapped, Accounted
<1>23. ASSUME NEW c \in Conns, TransportFails(c)
      PROVE  Accounted(p)'
  BY <1>23 DEF TransportFails, roomVars, sessionVars, participantVars,
     workerVars, TypeOK, RoomTypes, SessionTypes, ParticipantTypes, Placed,
     Exists, Looking, Mapped, Accounted
<1>24. ASSUME NEW c \in Conns, DisconnectTimeout(c)
      PROVE  Accounted(p)'
  BY <1>24 DEF DisconnectTimeout, BeginClose, roomVars, sessionVars,
     participantVars, workerVars, TypeOK, RoomTypes, SessionTypes,
     ParticipantTypes, Placed, Exists, Looking, Mapped, Accounted
<1>25. ASSUME NEW c \in Conns, IssueFullReconnect(c)
      PROVE  Accounted(p)'
  BY <1>25 DEF IssueFullReconnect, BeginClose, roomVars, sessionVars,
     participantVars, workerVars, TypeOK, RoomTypes, SessionTypes,
     ParticipantTypes, Placed, Exists, Looking, Mapped, Accounted
<1>26. ASSUME NEW c \in Conns, JoinTimeout(c)
      PROVE  Accounted(p)'
  <2>1. at[c] \in Rooms /\ identity[c] \in Identities /\ {c} \subseteq Conns
    BY <1>26 DEF JoinTimeout, Placed, Exists, Looking, TypeOK, RoomTypes,
       SessionTypes, ParticipantTypes
  <2>2. RemoveFrom(at[c], identity[c], {c})
    BY <1>26 DEF JoinTimeout
  <2>3. Removed(at[c], identity[c], {c})
    BY <2>1, <2>2, RemoveFromEffect
  <2> QED
    BY <1>26, <2>1, <2>3, NoConnAssumption DEF JoinTimeout, Removed,
       sessionVars, workerVars, Accounted, Exists, Placed, TypeOK, RoomTypes,
       SessionTypes, ParticipantTypes
<1>27. ASSUME NEW i \in Identities, RemoveParticipant(i)
      PROVE  Accounted(p)'
  <2>1. mapped \in Rooms /\ i \in Identities /\ Conns \subseteq Conns
    BY <1>27 DEF RemoveParticipant, Placed, Exists, Looking, TypeOK,
       RoomTypes, SessionTypes, ParticipantTypes
  <2>2. RemoveFrom(mapped, i, Conns)
    BY <1>27 DEF RemoveParticipant
  <2>3. Removed(mapped, i, Conns)
    BY <2>1, <2>2, RemoveFromEffect
  <2> QED
    BY <1>27, <2>1, <2>3, NoConnAssumption DEF RemoveParticipant, Removed,
       sessionVars, workerVars, Accounted, Exists, Placed, TypeOK, RoomTypes,
       SessionTypes, ParticipantTypes
<1>28. CASE CloseIfEmpty
  BY <1>28 DEF CloseIfEmpty, roomVars, sessionVars, participantVars,
     workerVars, TypeOK, RoomTypes, SessionTypes, ParticipantTypes, Placed,
     Exists, Looking, Mapped, Accounted
<1>29. CASE CloseIdle
  BY <1>29 DEF CloseIdle, BeginCloseRoom, roomVars, sessionVars,
     participantVars, workerVars, TypeOK, RoomTypes, SessionTypes,
     ParticipantTypes, Placed, Exists, Looking, Mapped, Accounted
<1>30. CASE DeleteRoom
  BY <1>30 DEF DeleteRoom, BeginCloseRoom, roomVars, sessionVars,
     participantVars, workerVars, TypeOK, RoomTypes, SessionTypes,
     ParticipantTypes, Placed, Exists, Looking, Mapped, Accounted
<1>31. ASSUME NEW r \in Rooms, CloseMember(r)
      PROVE  Accounted(p)'
  BY <1>31 DEF CloseMember, BeginClose, roomVars, sessionVars,
     participantVars, workerVars, TypeOK, RoomTypes, SessionTypes,
     ParticipantTypes, Placed, Exists, Looking, Mapped, Accounted
<1>32. ASSUME NEW r \in Rooms, RoomClosed(r)
      PROVE  Accounted(p)'
  BY <1>32 DEF RoomClosed, roomVars, sessionVars, participantVars,
     workerVars, TypeOK, RoomTypes, SessionTypes, ParticipantTypes, Placed,
     Exists, Looking, Mapped, Accounted
<1>33. CASE UNCHANGED vars
  BY <1>33 DEF vars, roomVars, sessionVars, participantVars, workerVars,
     TypeOK, RoomTypes, SessionTypes, ParticipantTypes, Placed, Exists,
     Looking, Mapped, Accounted
<1> QED
  BY <1>1, <1>2, <1>3, <1>4, <1>5, <1>6, <1>7, <1>8, <1>9, <1>10, <1>11,
     <1>12, <1>13, <1>14, <1>15, <1>16, <1>17, <1>18, <1>19, <1>20, <1>21,
     <1>22, <1>23, <1>24, <1>25, <1>26, <1>27, <1>28, <1>29, <1>30, <1>31,
     <1>32, <1>33 DEF Next, SessionStep, WorkerStep, RemovalStep, CloseStep

\* Every step keeps a participant of a closed room leaving, or to be closed.
LEMMA EmptiedStep ==
  ASSUME NEW p \in Conns, TypeOK, (\A d \in Conns : Placed(d)),
     (\A r \in Rooms, i \in Identities : Mapped(r, i)), Accounted(p),
     Emptied(p), [Next]_vars
  PROVE  Emptied(p)'
<1>1. ASSUME NEW c \in Conns, StartSession(c)
      PROVE  Emptied(p)'
  BY <1>1 DEF StartSession, roomVars, sessionVars, participantVars,
     workerVars, TypeOK, RoomTypes, SessionTypes, ParticipantTypes, Placed,
     Exists, Looking, Mapped, Accounted, Emptied, Members
<1>2. ASSUME NEW c \in Conns, HoldSeen(c)
      PROVE  Emptied(p)'
  <2>1. Placed(c) /\ pc[c] = "hold"
    BY <1>2 DEF HoldSeen
  <2>2. state[c] = "none"
    BY <2>1 DEF Placed, Looking
  <2>3. p # c => at'[p] = at[p]
    BY <1>2 DEF HoldSeen, TypeOK, SessionTypes
  <2>4. UNCHANGED <<state, isClosed, leaving, members, identity, shut, toClose>>
    BY <1>2 DEF HoldSeen, participantVars
  <2> QED
    BY <2>2, <2>3, <2>4 DEF Emptied
<1>3. ASSUME NEW c \in Conns, SeeOther(c)
      PROVE  Emptied(p)'
  BY <1>3 DEF SeeOther, roomVars, sessionVars, participantVars, workerVars,
     TypeOK, RoomTypes, SessionTypes, ParticipantTypes, Placed, Exists,
     Looking, Mapped, Accounted, Emptied, Members
<1>4. ASSUME NEW c \in Conns, NEW r \in Rooms, CreateRoom(c, r)
      PROVE  Emptied(p)'
  BY <1>4 DEF CreateRoom, roomVars, sessionVars, participantVars,
     workerVars, TypeOK, RoomTypes, SessionTypes, ParticipantTypes, Placed,
     Exists, Looking, Mapped, Accounted, Emptied, Members
<1>5. ASSUME NEW c \in Conns, HoldCreated(c)
      PROVE  Emptied(p)'
  BY <1>5 DEF HoldCreated, roomVars, sessionVars, participantVars,
     workerVars, TypeOK, RoomTypes, SessionTypes, ParticipantTypes, Placed,
     Exists, Looking, Mapped, Accounted, Emptied, Members
<1>6. ASSUME NEW c \in Conns, CreateFails(c)
      PROVE  Emptied(p)'
  BY <1>6 DEF CreateFails, roomVars, sessionVars, participantVars,
     workerVars, TypeOK, RoomTypes, SessionTypes, ParticipantTypes, Placed,
     Exists, Looking, Mapped, Accounted, Emptied, Members
<1>7. ASSUME NEW c \in Conns, FindToResume(c)
      PROVE  Emptied(p)'
  BY <1>7 DEF FindToResume, Fail, Return, roomVars, sessionVars,
     participantVars, workerVars, TypeOK, RoomTypes, SessionTypes,
     ParticipantTypes, Placed, Exists, Looking, Mapped, Accounted, Emptied,
     Members
<1>8. ASSUME NEW c \in Conns, FindDuplicate(c)
      PROVE  Emptied(p)'
  BY <1>8 DEF FindDuplicate, roomVars, sessionVars, participantVars,
     workerVars, TypeOK, RoomTypes, SessionTypes, ParticipantTypes, Placed,
     Exists, Looking, Mapped, Accounted, Emptied, Members
<1>9. ASSUME NEW c \in Conns, RemoveDuplicate(c)
      PROVE  Emptied(p)'
  <2>1. at[c] \in Rooms /\ identity[c] \in Identities /\ {who[c]} \subseteq Conns
    <3>1. Placed(c) /\ pc[c] = "replace"
      BY <1>9 DEF RemoveDuplicate
    <3>2. at[c] \in Rooms /\ who[c] \in Conns
      BY <3>1 DEF Placed, Exists, Looking
    <3> QED
      BY <3>2 DEF TypeOK, SessionTypes
  <2>2. RemoveFrom(at[c], identity[c], {who[c]})
    BY <1>9 DEF RemoveDuplicate
  <2>3. Removed(at[c], identity[c], {who[c]})
    BY <2>1, <2>2, RemoveFromEffect
  <2> QED
    BY <1>9, <2>1, <2>3 DEF RemoveDuplicate, Removed, sessionVars,
       workerVars, Emptied
<1>10. ASSUME NEW c \in Conns, Join(c)
      PROVE  Emptied(p)'
  BY <1>10 DEF Join, MayJoin, BeginClose, Fail, Return, roomVars,
     sessionVars, participantVars, workerVars, TypeOK, RoomTypes,
     SessionTypes, ParticipantTypes, Placed, Exists, Looking, Mapped,
     Accounted, Emptied, Members
<1>11. ASSUME NEW c \in Conns, Register(c)
      PROVE  Emptied(p)'
  BY <1>11 DEF Register, BeginClose, Fail, Return, roomVars, sessionVars,
     participantVars, workerVars, TypeOK, RoomTypes, SessionTypes,
     ParticipantTypes, Placed, Exists, Looking, Mapped, Accounted, Emptied,
     Members
<1>12. ASSUME NEW c \in Conns, ResumeSource(c)
      PROVE  Emptied(p)'
  BY <1>12 DEF ResumeSource, roomVars, sessionVars, participantVars,
     workerVars, TypeOK, RoomTypes, SessionTypes, ParticipantTypes, Placed,
     Exists, Looking, Mapped, Accounted, Emptied, Members
<1>13. ASSUME NEW c \in Conns, ResumeRestart(c)
      PROVE  Emptied(p)'
  BY <1>13 DEF ResumeRestart, Fail, Return, roomVars, sessionVars,
     participantVars, workerVars, TypeOK, RoomTypes, SessionTypes,
     ParticipantTypes, Placed, Exists, Looking, Mapped, Accounted, Emptied,
     Members
<1>14. ASSUME NEW c \in Conns, WorkerStops(c)
      PROVE  Emptied(p)'
  BY <1>14 DEF WorkerStops, roomVars, sessionVars, participantVars,
     workerVars, TypeOK, RoomTypes, SessionTypes, ParticipantTypes, Placed,
     Exists, Looking, Mapped, Accounted, Emptied, Members
<1>15. ASSUME NEW c \in Conns, WorkerReadsEnd(c)
      PROVE  Emptied(p)'
  BY <1>15 DEF WorkerReadsEnd, roomVars, sessionVars, participantVars,
     workerVars, TypeOK, RoomTypes, SessionTypes, ParticipantTypes, Placed,
     Exists, Looking, Mapped, Accounted, Emptied, Members
<1>16. ASSUME NEW c \in Conns, HandleSignalSourceClose(c)
      PROVE  Emptied(p)'
  BY <1>16 DEF HandleSignalSourceClose, BeginClose, roomVars, sessionVars,
     participantVars, workerVars, TypeOK, RoomTypes, SessionTypes,
     ParticipantTypes, Placed, Exists, Looking, Mapped, Accounted, Emptied,
     Members
<1>17. ASSUME NEW c \in Conns, HandleLeaveRequest(c)
      PROVE  Emptied(p)'
  <2>1. at[c] \in Rooms /\ identity[c] \in Identities /\ {who[c]} \subseteq Conns
    BY <1>17 DEF HandleLeaveRequest, Placed, Exists, Looking, TypeOK,
       RoomTypes, SessionTypes, ParticipantTypes
  <2>2. RemoveFrom(at[c], identity[c], {who[c]})
    BY <1>17 DEF HandleLeaveRequest
  <2>3. Removed(at[c], identity[c], {who[c]})
    BY <2>1, <2>2, RemoveFromEffect
  <2> QED
    BY <1>17, <2>1, <2>3 DEF HandleLeaveRequest, Removed, sessionVars,
       workerVars, Emptied
<1>18. ASSUME NEW c \in Conns, ConnectionEnds(c)
      PROVE  Emptied(p)'
  BY <1>18 DEF ConnectionEnds, roomVars, sessionVars, participantVars,
     workerVars, TypeOK, RoomTypes, SessionTypes, ParticipantTypes, Placed,
     Exists, Looking, Mapped, Accounted, Emptied, Members
<1>19. ASSUME NEW c \in Conns, CloseParticipant(c)
      PROVE  Emptied(p)'
  BY <1>19 DEF CloseParticipant, roomVars, sessionVars, participantVars,
     workerVars, TypeOK, RoomTypes, SessionTypes, ParticipantTypes, Placed,
     Exists, Looking, Mapped, Accounted, Emptied, Members
<1>20. ASSUME NEW c \in Conns, FinishRemoval(c)
      PROVE  Emptied(p)'
  BY <1>20 DEF FinishRemoval, BeginClose, roomVars, sessionVars,
     participantVars, workerVars, TypeOK, RoomTypes, SessionTypes,
     ParticipantTypes, Placed, Exists, Looking, Mapped, Accounted, Emptied,
     Members
<1>21. ASSUME NEW c \in Conns, RemoveDisconnected(c)
      PROVE  Emptied(p)'
  <2>1. at[c] \in Rooms /\ identity[c] \in Identities /\ {c} \subseteq Conns
    BY <1>21 DEF RemoveDisconnected, Placed, Exists, Looking, TypeOK,
       RoomTypes, SessionTypes, ParticipantTypes
  <2>2. RemoveFrom(at[c], identity[c], {c})
    BY <1>21 DEF RemoveDisconnected
  <2>3. Removed(at[c], identity[c], {c})
    BY <2>1, <2>2, RemoveFromEffect
  <2> QED
    BY <1>21, <2>1, <2>3 DEF RemoveDisconnected, Removed, sessionVars,
       workerVars, Emptied
<1>22. ASSUME NEW c \in Conns, Connect(c)
      PROVE  Emptied(p)'
  BY <1>22 DEF Connect, roomVars, sessionVars, participantVars, workerVars,
     TypeOK, RoomTypes, SessionTypes, ParticipantTypes, Placed, Exists,
     Looking, Mapped, Accounted, Emptied, Members
<1>23. ASSUME NEW c \in Conns, TransportFails(c)
      PROVE  Emptied(p)'
  BY <1>23 DEF TransportFails, roomVars, sessionVars, participantVars,
     workerVars, TypeOK, RoomTypes, SessionTypes, ParticipantTypes, Placed,
     Exists, Looking, Mapped, Accounted, Emptied, Members
<1>24. ASSUME NEW c \in Conns, DisconnectTimeout(c)
      PROVE  Emptied(p)'
  BY <1>24 DEF DisconnectTimeout, BeginClose, roomVars, sessionVars,
     participantVars, workerVars, TypeOK, RoomTypes, SessionTypes,
     ParticipantTypes, Placed, Exists, Looking, Mapped, Accounted, Emptied,
     Members
<1>25. ASSUME NEW c \in Conns, IssueFullReconnect(c)
      PROVE  Emptied(p)'
  BY <1>25 DEF IssueFullReconnect, BeginClose, roomVars, sessionVars,
     participantVars, workerVars, TypeOK, RoomTypes, SessionTypes,
     ParticipantTypes, Placed, Exists, Looking, Mapped, Accounted, Emptied,
     Members
<1>26. ASSUME NEW c \in Conns, JoinTimeout(c)
      PROVE  Emptied(p)'
  <2>1. at[c] \in Rooms /\ identity[c] \in Identities /\ {c} \subseteq Conns
    BY <1>26 DEF JoinTimeout, Placed, Exists, Looking, TypeOK, RoomTypes,
       SessionTypes, ParticipantTypes
  <2>2. RemoveFrom(at[c], identity[c], {c})
    BY <1>26 DEF JoinTimeout
  <2>3. Removed(at[c], identity[c], {c})
    BY <2>1, <2>2, RemoveFromEffect
  <2> QED
    BY <1>26, <2>1, <2>3 DEF JoinTimeout, Removed, sessionVars, workerVars,
       Emptied
<1>27. ASSUME NEW i \in Identities, RemoveParticipant(i)
      PROVE  Emptied(p)'
  <2>1. mapped \in Rooms /\ i \in Identities /\ Conns \subseteq Conns
    BY <1>27 DEF RemoveParticipant, Placed, Exists, Looking, TypeOK,
       RoomTypes, SessionTypes, ParticipantTypes
  <2>2. RemoveFrom(mapped, i, Conns)
    BY <1>27 DEF RemoveParticipant
  <2>3. Removed(mapped, i, Conns)
    BY <2>1, <2>2, RemoveFromEffect
  <2> QED
    BY <1>27, <2>1, <2>3 DEF RemoveParticipant, Removed, sessionVars,
       workerVars, Emptied
<1>28. CASE CloseIfEmpty
  BY <1>28 DEF CloseIfEmpty, roomVars, sessionVars, participantVars,
     workerVars, TypeOK, RoomTypes, SessionTypes, ParticipantTypes, Placed,
     Exists, Looking, Mapped, Accounted, Emptied, Members
<1>29. CASE CloseIdle
  <2>1. Exists(p) /\ p \notin isClosed => at[p] \in Rooms /\ identity[p] \in Identities
    BY DEF Placed, TypeOK, SessionTypes
  <2>2. ASSUME NEW r \in Rooms, NEW i \in Identities, members[r][i] = p
        PROVE  p \in Members(r)
    BY <2>2, NoConnAssumption DEF Members
  <2>3. UNCHANGED <<state, at, identity, isClosed, leaving>>
    BY <1>29 DEF CloseIdle, sessionVars, participantVars
  <2>4. CASE UNCHANGED <<shut, closer, toClose>>
    BY <2>3, <2>4 DEF Emptied
  <2>5. CASE BeginCloseRoom(janitor)
    <3>1. janitor \in Rooms
      BY <1>29 DEF CloseIdle, TypeOK, RoomTypes
    <3>2. /\ shut' = shut \cup {janitor}
          /\ toClose'[janitor] = Members(janitor)
          /\ \A r \in Rooms \ {janitor} : toClose'[r] = toClose[r]
      BY <2>5, <3>1 DEF BeginCloseRoom, TypeOK, RoomTypes
    <3> QED
      BY <2>1, <2>2, <2>3, <3>2 DEF Emptied, Accounted, Exists
  <2> QED
    BY <1>29, <2>4, <2>5 DEF CloseIdle
<1>30. CASE DeleteRoom
  <2>1. Exists(p) /\ p \notin isClosed => at[p] \in Rooms /\ identity[p] \in Identities
    BY DEF Placed, TypeOK, SessionTypes
  <2>2. ASSUME NEW r \in Rooms, NEW i \in Identities, members[r][i] = p
        PROVE  p \in Members(r)
    BY <2>2, NoConnAssumption DEF Members
  <2>3. UNCHANGED <<state, at, identity, isClosed, leaving>>
    BY <1>30 DEF DeleteRoom, sessionVars, participantVars
  <2>4. CASE UNCHANGED <<shut, closer, toClose>>
    BY <2>3, <2>4 DEF Emptied
  <2>5. CASE BeginCloseRoom(mapped)
    <3>1. mapped \in Rooms
      BY <1>30 DEF DeleteRoom, TypeOK, RoomTypes
    <3>2. /\ shut' = shut \cup {mapped}
          /\ toClose'[mapped] = Members(mapped)
          /\ \A r \in Rooms \ {mapped} : toClose'[r] = toClose[r]
      BY <2>5, <3>1 DEF BeginCloseRoom, TypeOK, RoomTypes
    <3> QED
      BY <2>1, <2>2, <2>3, <3>2 DEF Emptied, Accounted, Exists
  <2> QED
    BY <1>30, <2>4, <2>5 DEF DeleteRoom
<1>31. ASSUME NEW r \in Rooms, CloseMember(r)
      PROVE  Emptied(p)'
  BY <1>31 DEF CloseMember, BeginClose, roomVars, sessionVars,
     participantVars, workerVars, TypeOK, RoomTypes, SessionTypes,
     ParticipantTypes, Placed, Exists, Looking, Mapped, Accounted, Emptied,
     Members
<1>32. ASSUME NEW r \in Rooms, RoomClosed(r)
      PROVE  Emptied(p)'
  BY <1>32 DEF RoomClosed, roomVars, sessionVars, participantVars,
     workerVars, TypeOK, RoomTypes, SessionTypes, ParticipantTypes, Placed,
     Exists, Looking, Mapped, Accounted, Emptied, Members
<1>33. CASE UNCHANGED vars
  BY <1>33 DEF vars, roomVars, sessionVars, participantVars, workerVars,
     TypeOK, RoomTypes, SessionTypes, ParticipantTypes, Placed, Exists,
     Looking, Mapped, Accounted, Emptied, Members
<1> QED
  BY <1>1, <1>2, <1>3, <1>4, <1>5, <1>6, <1>7, <1>8, <1>9, <1>10, <1>11,
     <1>12, <1>13, <1>14, <1>15, <1>16, <1>17, <1>18, <1>19, <1>20, <1>21,
     <1>22, <1>23, <1>24, <1>25, <1>26, <1>27, <1>28, <1>29, <1>30, <1>31,
     <1>32, <1>33 DEF Next, SessionStep, WorkerStep, RemovalStep, CloseStep

\* Initially there is nobody.
LEMMA InitSession == Init => SessionInv
<1> SUFFICES ASSUME Init PROVE SessionInv
  OBVIOUS
<1>1. TypeOK
  BY DEF Init, TypeOK, RoomTypes, SessionTypes, ParticipantTypes
<1>2. ASSUME NEW c \in Conns PROVE Placed(c)
  BY <1>1 DEF Init, Placed, Exists, Looking
<1>3. ASSUME NEW r \in Rooms, NEW i \in Identities PROVE Mapped(r, i)
  BY DEF Init, Mapped
<1>4. NoStray /\ ClosedRoomIsEmpty
  BY DEF Init, NoStray, ClosedRoomIsEmpty
<1> QED
  BY <1>1, <1>2, <1>3, <1>4 DEF SessionInv

\* SessionInv is inductive.
LEMMA StepSession == SessionInv /\ [Next]_vars => SessionInv'
<1> SUFFICES ASSUME SessionInv, [Next]_vars PROVE SessionInv'
  OBVIOUS
<1>1. /\ TypeOK
      /\ \A d \in Conns : Placed(d)
      /\ \A r \in Rooms, i \in Identities : Mapped(r, i)
      /\ \A p \in Conns : Accounted(p) /\ Emptied(p)
  BY DEF SessionInv, NoStray, ClosedRoomIsEmpty, Accounted, Emptied
<1>2. TypeOK'
  BY <1>1, RoomTypesStep, SessionTypesStep, ParticipantTypesStep DEF TypeOK
<1>3. ASSUME NEW p \in Conns
      PROVE  Placed(p)' /\ Accounted(p)' /\ Emptied(p)'
  BY <1>1, PlacedStep, AccountedStep, EmptiedStep
<1>4. ASSUME NEW q \in Rooms, NEW j \in Identities PROVE Mapped(q, j)'
  BY <1>1, MappedStep
<1> QED
  BY <1>2, <1>3, <1>4 DEF SessionInv, NoStray, ClosedRoomIsEmpty, Accounted,
     Emptied

\* SessionInv is an invariant: sessions, removals and closings may overlap in
\* any way (StartSession, RemoveParticipant, Room.Close).
THEOREM SessionInvariant == Spec => []SessionInv
BY InitSession, StepSession, PTL DEF Spec

\* A participant that is not being closed is in its room's map, or has just been
\* taken out of it: an identity never has two (Join, RemoveParticipant).
THEOREM NoStrayInvariant == Spec => []NoStray
<1>1. SessionInv => NoStray
  BY DEF SessionInv
<1> QED
  BY <1>1, SessionInvariant, PTL

\* A closed room keeps no participant that is not about to be closed (Close).
THEOREM ClosedRoomInvariant == Spec => []ClosedRoomIsEmpty
<1>1. SessionInv => ClosedRoomIsEmpty
  BY DEF SessionInv
<1> QED
  BY <1>1, SessionInvariant, PTL
=============================================================================
