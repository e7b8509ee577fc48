------------------------ MODULE AgentDispatchProofs ------------------------
(***************************************************************************)
(* Proofs about AgentDispatch, for any number of dispatches and workers:   *)
(* DispatchInv is inductive, and the safety properties follow from it.     *)
(***************************************************************************)
EXTENDS AgentDispatch, TLAPS

\* The worker that an assigned job was sent to is one of the workers.
LEMMA AgentType ==
  ASSUME NEW d \in Dispatches, HasAgent(d)
  PROVE  Agent(d) \in Workers /\ <<Agent(d), d>> \in assigned
BY DEF HasAgent, Agent

\* Every step keeps the variables of the room in their types.
LEMMA RoomTypesInvariance ==
  ASSUME TypeOK, [Next]_vars
  PROVE  RoomTypes'
<1>1. ASSUME NEW d \in Dispatches, CreateDispatch(d)
      PROVE  RoomTypes'
  BY <1>1, NoWorkerAssumption DEF CreateDispatch, roomVars, handlerVars,
     agentVars, TypeOK, RoomTypes, WorkerTypes, HandlerTypes, AgentTypes
<1>2. ASSUME NEW d \in Dispatches, LaunchRoomAgent(d)
      PROVE  RoomTypes'
  BY <1>2, NoWorkerAssumption DEF LaunchRoomAgent, roomVars, handlerVars,
     agentVars, TypeOK, RoomTypes, WorkerTypes, HandlerTypes, AgentTypes
<1>3. ASSUME NEW d \in Dispatches, LookUp(d)
      PROVE  RoomTypes'
  BY <1>3, NoWorkerAssumption DEF LookUp, roomVars, handlerVars, agentVars,
     TypeOK, RoomTypes, WorkerTypes, HandlerTypes, AgentTypes
<1>4. ASSUME NEW d \in Dispatches, RequestReturns(d)
      PROVE  RoomTypes'
  BY <1>4, NoWorkerAssumption DEF RequestReturns, roomVars, handlerVars,
     agentVars, TypeOK, RoomTypes, WorkerTypes, HandlerTypes, AgentTypes
<1>5. ASSUME NEW d \in Dispatches, RequestTimesOut(d)
      PROVE  RoomTypes'
  BY <1>5, NoWorkerAssumption DEF RequestTimesOut, roomVars, handlerVars,
     agentVars, TypeOK, RoomTypes, WorkerTypes, HandlerTypes, AgentTypes
<1>6. ASSUME NEW d \in Dispatches, HandleNewJob(d)
      PROVE  RoomTypes'
  BY <1>6, NoWorkerAssumption DEF HandleNewJob, roomVars, handlerVars,
     agentVars, TypeOK, RoomTypes, WorkerTypes, HandlerTypes, AgentTypes
<1>7. ASSUME NEW d \in Dispatches, NEW w \in Workers, SelectWorker(d, w)
      PROVE  RoomTypes'
  BY <1>7, NoWorkerAssumption DEF SelectWorker, roomVars, handlerVars,
     agentVars, Registered, TypeOK, RoomTypes, WorkerTypes, HandlerTypes, AgentTypes
<1>8. ASSUME NEW d \in Dispatches, SelectFails(d)
      PROVE  RoomTypes'
  BY <1>8, NoWorkerAssumption DEF SelectFails, roomVars, handlerVars,
     agentVars, TypeOK, RoomTypes, WorkerTypes, HandlerTypes, AgentTypes
<1>9. ASSUME NEW d \in Dispatches, SendAssignment(d)
      PROVE  RoomTypes'
  BY <1>9, NoWorkerAssumption DEF SendAssignment, roomVars, handlerVars,
     agentVars, TypeOK, RoomTypes, WorkerTypes, HandlerTypes, AgentTypes
<1>10. ASSUME NEW d \in Dispatches, RecordRunning(d)
      PROVE  RoomTypes'
  BY <1>10, NoWorkerAssumption DEF RecordRunning, roomVars, handlerVars,
     agentVars, TypeOK, RoomTypes, WorkerTypes, HandlerTypes, AgentTypes
<1>11. ASSUME NEW d \in Dispatches, AwaitFails(d)
      PROVE  RoomTypes'
  BY <1>11, NoWorkerAssumption DEF AwaitFails, roomVars, handlerVars,
     agentVars, TypeOK, RoomTypes, WorkerTypes, HandlerTypes, AgentTypes
<1>12. ASSUME NEW d \in Dispatches, AwaitTerminated(d)
      PROVE  RoomTypes'
  BY <1>12, NoWorkerAssumption DEF AwaitTerminated, roomVars, handlerVars,
     agentVars, TypeOK, RoomTypes, WorkerTypes, HandlerTypes, AgentTypes
<1>13. ASSUME NEW d \in Dispatches, MapJob(d)
      PROVE  RoomTypes'
  BY <1>13, NoWorkerAssumption DEF MapJob, roomVars, handlerVars, agentVars,
     TypeOK, RoomTypes, WorkerTypes, HandlerTypes, AgentTypes
<1>14. ASSUME NEW d \in Dispatches, RegisterTopic(d)
      PROVE  RoomTypes'
  BY <1>14, NoWorkerAssumption DEF RegisterTopic, roomVars, handlerVars,
     agentVars, TypeOK, RoomTypes, WorkerTypes, HandlerTypes, AgentTypes
<1>15. ASSUME NEW d \in Dispatches, NEW a \in {"yes", "no", "terminate"}, HandleAvailability(d, a)
      PROVE  RoomTypes'
  BY <1>15, NoWorkerAssumption DEF HandleAvailability, roomVars, handlerVars,
     agentVars, TypeOK, RoomTypes, WorkerTypes, HandlerTypes, AgentTypes
<1>16. ASSUME NEW d \in Dispatches, AgentJoins(d)
      PROVE  RoomTypes'
  BY <1>16, NoWorkerAssumption DEF AgentJoins, roomVars, handlerVars,
     agentVars, HasAgent, TypeOK, RoomTypes, WorkerTypes, HandlerTypes, AgentTypes
<1>17. ASSUME NEW d \in Dispatches, AgentLeaves(d)
      PROVE  RoomTypes'
  BY <1>17, NoWorkerAssumption DEF AgentLeaves, roomVars, handlerVars,
     agentVars, RemoveAgent, TypeOK, RoomTypes, WorkerTypes, HandlerTypes, AgentTypes
<1>18. ASSUME NEW d \in Dispatches, ReportEnd(d)
      PROVE  RoomTypes'
  BY <1>18, NoWorkerAssumption, AgentType DEF ReportEnd, roomVars,
     handlerVars, agentVars, TypeOK, RoomTypes, WorkerTypes, HandlerTypes, AgentTypes
<1>19. ASSUME NEW d \in Dispatches, DeregisterJob(d)
      PROVE  RoomTypes'
  BY <1>19, NoWorkerAssumption DEF DeregisterJob, roomVars, handlerVars,
     agentVars, TypeOK, RoomTypes, WorkerTypes, HandlerTypes, AgentTypes
<1>20. ASSUME NEW d \in Dispatches, TerminateLeft(d)
      PROVE  RoomTypes'
  BY <1>20, NoWorkerAssumption DEF TerminateLeft, roomVars, handlerVars,
     agentVars, SendTermination, Terminable, TerminateFails, TypeOK, RoomTypes, WorkerTypes, HandlerTypes, AgentTypes
<1>21. ASSUME NEW d \in Dispatches, LeftTerminated(d)
      PROVE  RoomTypes'
  BY <1>21, NoWorkerAssumption DEF LeftTerminated, roomVars, handlerVars,
     agentVars, EndRunning, TypeOK, RoomTypes, WorkerTypes, HandlerTypes, AgentTypes
<1>22. ASSUME NEW d \in Dispatches, DeleteDispatch(d)
      PROVE  RoomTypes'
  BY <1>22, NoWorkerAssumption DEF DeleteDispatch, roomVars, handlerVars,
     agentVars, TypeOK, RoomTypes, WorkerTypes, HandlerTypes, AgentTypes
<1>23. ASSUME NEW d \in Dispatches, DeleteLooks(d)
      PROVE  RoomTypes'
  BY <1>23, NoWorkerAssumption DEF DeleteLooks, roomVars, handlerVars,
     agentVars, TypeOK, RoomTypes, WorkerTypes, HandlerTypes, AgentTypes
<1>24. ASSUME NEW d \in Dispatches, DeleteWaits(d)
      PROVE  RoomTypes'
  BY <1>24, NoWorkerAssumption DEF DeleteWaits, roomVars, handlerVars,
     agentVars, TypeOK, RoomTypes, WorkerTypes, HandlerTypes, AgentTypes
<1>25. ASSUME NEW d \in Dispatches, DeleteTerminates(d)
      PROVE  RoomTypes'
  BY <1>25, NoWorkerAssumption DEF DeleteTerminates, roomVars, handlerVars,
     agentVars, SendTermination, Terminable, TerminateFails, TypeOK, RoomTypes, WorkerTypes, HandlerTypes, AgentTypes
<1>26. ASSUME NEW d \in Dispatches, DeleteTerminated(d)
      PROVE  RoomTypes'
  BY <1>26, NoWorkerAssumption DEF DeleteTerminated, roomVars, handlerVars,
     agentVars, EndRunning, TypeOK, RoomTypes, WorkerTypes, HandlerTypes, AgentTypes
<1>27. ASSUME NEW d \in Dispatches, DeleteRemoves(d)
      PROVE  RoomTypes'
  BY <1>27, NoWorkerAssumption DEF DeleteRemoves, roomVars, handlerVars,
     agentVars, RemoveAgent, TypeOK, RoomTypes, WorkerTypes, HandlerTypes, AgentTypes
<1>28. ASSUME NEW w \in Workers, RegisterWorker(w)
      PROVE  RoomTypes'
  BY <1>28, NoWorkerAssumption DEF RegisterWorker, roomVars, handlerVars,
     agentVars, TypeOK, RoomTypes, WorkerTypes, HandlerTypes, AgentTypes
<1>29. ASSUME NEW w \in Workers, DeregisterWorker(w)
      PROVE  RoomTypes'
  BY <1>29, NoWorkerAssumption DEF DeregisterWorker, roomVars, handlerVars,
     agentVars, TypeOK, RoomTypes, WorkerTypes, HandlerTypes, AgentTypes
<1>30. ASSUME NEW w \in Workers, CloseWorker(w)
      PROVE  RoomTypes'
  BY <1>30, NoWorkerAssumption DEF CloseWorker, roomVars, handlerVars,
     agentVars, TypeOK, RoomTypes, WorkerTypes, HandlerTypes, AgentTypes
<1>31. ASSUME NEW w \in Workers, NEW drained \in BOOLEAN, LoseWorker(w, drained)
      PROVE  RoomTypes'
  BY <1>31, NoWorkerAssumption DEF LoseWorker, roomVars, handlerVars,
     agentVars, TypeOK, RoomTypes, WorkerTypes, HandlerTypes, AgentTypes
<1>32. CASE DropCache
  BY <1>32, NoWorkerAssumption DEF DropCache, roomVars, handlerVars,
     agentVars, TypeOK, RoomTypes, WorkerTypes, HandlerTypes, AgentTypes
<1>33. CASE UNCHANGED vars
  BY <1>33 DEF vars, roomVars, handlerVars, agentVars, TypeOK, RoomTypes, WorkerTypes, HandlerTypes, AgentTypes
<1> QED
  BY <1>1, <1>2, <1>3, <1>4, <1>5, <1>6, <1>7, <1>8, <1>9, <1>10, <1>11,
     <1>12, <1>13, <1>14, <1>15, <1>16, <1>17, <1>18, <1>19, <1>20, <1>21,
     <1>22, <1>23, <1>24, <1>25, <1>26, <1>27, <1>28, <1>29, <1>30, <1>31,
     <1>32, <1>33
  DEF Next

\* Every step keeps the variables of the workers in their types.
LEMMA WorkerTypesInvariance ==
  ASSUME TypeOK, [Next]_vars
  PROVE  WorkerTypes'
<1>1. ASSUME NEW d \in Dispatches, CreateDispatch(d)
      PROVE  WorkerTypes'
  BY <1>1, NoWorkerAssumption DEF CreateDispatch, roomVars, handlerVars,
     agentVars, TypeOK, RoomTypes, WorkerTypes, HandlerTypes, AgentTypes
<1>2. ASSUME NEW d \in Dispatches, LaunchRoomAgent(d)
      PROVE  WorkerTypes'
  BY <1>2, NoWorkerAssumption DEF LaunchRoomAgent, roomVars, handlerVars,
     agentVars, TypeOK, RoomTypes, WorkerTypes, HandlerTypes, AgentTypes
<1>3. ASSUME NEW d \in Dispatches, LookUp(d)
      PROVE  WorkerTypes'
  BY <1>3, NoWorkerAssumption DEF LookUp, roomVars, handlerVars, agentVars,
     TypeOK, RoomTypes, WorkerTypes, HandlerTypes, AgentTypes
<1>4. ASSUME NEW d \in Dispatches, RequestReturns(d)
      PROVE  WorkerTypes'
  BY <1>4, NoWorkerAssumption DEF RequestReturns, roomVars, handlerVars,
     agentVars, TypeOK, RoomTypes, WorkerTypes, HandlerTypes, AgentTypes
<1>5. ASSUME NEW d \in Dispatches, RequestTimesOut(d)
      PROVE  WorkerTypes'
  BY <1>5, NoWorkerAssumption DEF RequestTimesOut, roomVars, handlerVars,
     agentVars, TypeOK, RoomTypes, WorkerTypes, HandlerTypes, AgentTypes
<1>6. ASSUME NEW d \in Dispatches, HandleNewJob(d)
      PROVE  WorkerTypes'
  BY <1>6, NoWorkerAssumption DEF HandleNewJob, roomVars, handlerVars,
     agentVars, TypeOK, RoomTypes, WorkerTypes, HandlerTypes, AgentTypes
<1>7. ASSUME NEW d \in Dispatches, NEW w \in Workers, SelectWorker(d, w)
      PROVE  WorkerTypes'
  BY <1>7, NoWorkerAssumption DEF SelectWorker, roomVars, handlerVars,
     agentVars, Registered, TypeOK, RoomTypes, WorkerTypes, HandlerTypes, AgentTypes
<1>8. ASSUME NEW d \in Dispatches, SelectFails(d)
      PROVE  WorkerTypes'
  BY <1>8, NoWorkerAssumption DEF SelectFails, roomVars, handlerVars,
     agentVars, TypeOK, RoomTypes, WorkerTypes, HandlerTypes, AgentTypes
<1>9. ASSUME NEW d \in Dispatches, SendAssignment(d)
      PROVE  WorkerTypes'
  BY <1>9, NoWorkerAssumption DEF SendAssignment, roomVars, handlerVars,
     agentVars, TypeOK, RoomTypes, WorkerTypes, HandlerTypes, AgentTypes
<1>10. ASSUME NEW d \in Dispatches, RecordRunning(d)
      PROVE  WorkerTypes'
  BY <1>10, NoWorkerAssumption DEF RecordRunning, roomVars, handlerVars,
     agentVars, TypeOK, RoomTypes, WorkerTypes, HandlerTypes, AgentTypes
<1>11. ASSUME NEW d \in Dispatches, AwaitFails(d)
      PROVE  WorkerTypes'
  BY <1>11, NoWorkerAssumption DEF AwaitFails, roomVars, handlerVars,
     agentVars, TypeOK, RoomTypes, WorkerTypes, HandlerTypes, AgentTypes
<1>12. ASSUME NEW d \in Dispatches, AwaitTerminated(d)
      PROVE  WorkerTypes'
  BY <1>12, NoWorkerAssumption DEF AwaitTerminated, roomVars, handlerVars,
     agentVars, TypeOK, RoomTypes, WorkerTypes, HandlerTypes, AgentTypes
<1>13. ASSUME NEW d \in Dispatches, MapJob(d)
      PROVE  WorkerTypes'
  BY <1>13, NoWorkerAssumption DEF MapJob, roomVars, handlerVars, agentVars,
     TypeOK, RoomTypes, WorkerTypes, HandlerTypes, AgentTypes
<1>14. ASSUME NEW d \in Dispatches, RegisterTopic(d)
      PROVE  WorkerTypes'
  BY <1>14, NoWorkerAssumption DEF RegisterTopic, roomVars, handlerVars,
     agentVars, TypeOK, RoomTypes, WorkerTypes, HandlerTypes, AgentTypes
<1>15. ASSUME NEW d \in Dispatches, NEW a \in {"yes", "no", "terminate"}, HandleAvailability(d, a)
      PROVE  WorkerTypes'
  BY <1>15, NoWorkerAssumption DEF HandleAvailability, roomVars, handlerVars,
     agentVars, TypeOK, RoomTypes, WorkerTypes, HandlerTypes, AgentTypes
<1>16. ASSUME NEW d \in Dispatches, AgentJoins(d)
      PROVE  WorkerTypes'
  BY <1>16, NoWorkerAssumption DEF AgentJoins, roomVars, handlerVars,
     agentVars, HasAgent, TypeOK, RoomTypes, WorkerTypes, HandlerTypes, AgentTypes
<1>17. ASSUME NEW d \in Dispatches, AgentLeaves(d)
      PROVE  WorkerTypes'
  BY <1>17, NoWorkerAssumption DEF AgentLeaves, roomVars, handlerVars,
     agentVars, RemoveAgent, TypeOK, RoomTypes, WorkerTypes, HandlerTypes, AgentTypes
<1>18. ASSUME NEW d \in Dispatches, ReportEnd(d)
      PROVE  WorkerTypes'
  BY <1>18, NoWorkerAssumption, AgentType DEF ReportEnd, roomVars,
     handlerVars, agentVars, TypeOK, RoomTypes, WorkerTypes, HandlerTypes, AgentTypes
<1>19. ASSUME NEW d \in Dispatches, DeregisterJob(d)
      PROVE  WorkerTypes'
  BY <1>19, NoWorkerAssumption DEF DeregisterJob, roomVars, handlerVars,
     agentVars, TypeOK, RoomTypes, WorkerTypes, HandlerTypes, AgentTypes
<1>20. ASSUME NEW d \in Dispatches, TerminateLeft(d)
      PROVE  WorkerTypes'
  BY <1>20, NoWorkerAssumption DEF TerminateLeft, roomVars, handlerVars,
     agentVars, SendTermination, Terminable, TerminateFails, TypeOK, RoomTypes, WorkerTypes, HandlerTypes, AgentTypes
<1>21. ASSUME NEW d \in Dispatches, LeftTerminated(d)
      PROVE  WorkerTypes'
  BY <1>21, NoWorkerAssumption DEF LeftTerminated, roomVars, handlerVars,
     agentVars, EndRunning, TypeOK, RoomTypes, WorkerTypes, HandlerTypes, AgentTypes
<1>22. ASSUME NEW d \in Dispatches, DeleteDispatch(d)
      PROVE  WorkerTypes'
  BY <1>22, NoWorkerAssumption DEF DeleteDispatch, roomVars, handlerVars,
     agentVars, TypeOK, RoomTypes, WorkerTypes, HandlerTypes, AgentTypes
<1>23. ASSUME NEW d \in Dispatches, DeleteLooks(d)
      PROVE  WorkerTypes'
  BY <1>23, NoWorkerAssumption DEF DeleteLooks, roomVars, handlerVars,
     agentVars, TypeOK, RoomTypes, WorkerTypes, HandlerTypes, AgentTypes
<1>24. ASSUME NEW d \in Dispatches, DeleteWaits(d)
      PROVE  WorkerTypes'
  BY <1>24, NoWorkerAssumption DEF DeleteWaits, roomVars, handlerVars,
     agentVars, TypeOK, RoomTypes, WorkerTypes, HandlerTypes, AgentTypes
<1>25. ASSUME NEW d \in Dispatches, DeleteTerminates(d)
      PROVE  WorkerTypes'
  BY <1>25, NoWorkerAssumption DEF DeleteTerminates, roomVars, handlerVars,
     agentVars, SendTermination, Terminable, TerminateFails, TypeOK, RoomTypes, WorkerTypes, HandlerTypes, AgentTypes
<1>26. ASSUME NEW d \in Dispatches, DeleteTerminated(d)
      PROVE  WorkerTypes'
  BY <1>26, NoWorkerAssumption DEF DeleteTerminated, roomVars, handlerVars,
     agentVars, EndRunning, TypeOK, RoomTypes, WorkerTypes, HandlerTypes, AgentTypes
<1>27. ASSUME NEW d \in Dispatches, DeleteRemoves(d)
      PROVE  WorkerTypes'
  BY <1>27, NoWorkerAssumption DEF DeleteRemoves, roomVars, handlerVars,
     agentVars, RemoveAgent, TypeOK, RoomTypes, WorkerTypes, HandlerTypes, AgentTypes
<1>28. ASSUME NEW w \in Workers, RegisterWorker(w)
      PROVE  WorkerTypes'
  BY <1>28, NoWorkerAssumption DEF RegisterWorker, roomVars, handlerVars,
     agentVars, TypeOK, RoomTypes, WorkerTypes, HandlerTypes, AgentTypes
<1>29. ASSUME NEW w \in Workers, DeregisterWorker(w)
      PROVE  WorkerTypes'
  BY <1>29, NoWorkerAssumption DEF DeregisterWorker, roomVars, handlerVars,
     agentVars, TypeOK, RoomTypes, WorkerTypes, HandlerTypes, AgentTypes
<1>30. ASSUME NEW w \in Workers, CloseWorker(w)
      PROVE  WorkerTypes'
  BY <1>30, NoWorkerAssumption DEF CloseWorker, roomVars, handlerVars,
     agentVars, TypeOK, RoomTypes, WorkerTypes, HandlerTypes, AgentTypes
<1>31. ASSUME NEW w \in Workers, NEW drained \in BOOLEAN, LoseWorker(w, drained)
      PROVE  WorkerTypes'
  BY <1>31, NoWorkerAssumption DEF LoseWorker, roomVars, handlerVars,
     agentVars, TypeOK, RoomTypes, WorkerTypes, HandlerTypes, AgentTypes
<1>32. CASE DropCache
  BY <1>32, NoWorkerAssumption DEF DropCache, roomVars, handlerVars,
     agentVars, TypeOK, RoomTypes, WorkerTypes, HandlerTypes, AgentTypes
<1>33. CASE UNCHANGED vars
  BY <1>33 DEF vars, roomVars, handlerVars, agentVars, TypeOK, RoomTypes, WorkerTypes, HandlerTypes, AgentTypes
<1> QED
  BY <1>1, <1>2, <1>3, <1>4, <1>5, <1>6, <1>7, <1>8, <1>9, <1>10, <1>11,
     <1>12, <1>13, <1>14, <1>15, <1>16, <1>17, <1>18, <1>19, <1>20, <1>21,
     <1>22, <1>23, <1>24, <1>25, <1>26, <1>27, <1>28, <1>29, <1>30, <1>31,
     <1>32, <1>33
  DEF Next

\* Every step keeps the variables of the agent handler in their types.
LEMMA HandlerTypesInvariance ==
  ASSUME TypeOK, [Next]_vars
  PROVE  HandlerTypes'
<1>1. ASSUME NEW d \in Dispatches, CreateDispatch(d)
      PROVE  HandlerTypes'
  BY <1>1, NoWorkerAssumption DEF CreateDispatch, roomVars, handlerVars,
     agentVars, TypeOK, RoomTypes, WorkerTypes, HandlerTypes, AgentTypes
<1>2. ASSUME NEW d \in Dispatches, LaunchRoomAgent(d)
      PROVE  HandlerTypes'
  BY <1>2, NoWorkerAssumption DEF LaunchRoomAgent, roomVars, handlerVars,
     agentVars, TypeOK, RoomTypes, WorkerTypes, HandlerTypes, AgentTypes
<1>3. ASSUME NEW d \in Dispatches, LookUp(d)
      PROVE  HandlerTypes'
  BY <1>3, NoWorkerAssumption DEF LookUp, roomVars, handlerVars, agentVars,
     TypeOK, RoomTypes, WorkerTypes, HandlerTypes, AgentTypes
<1>4. ASSUME NEW d \in Dispatches, RequestReturns(d)
      PROVE  HandlerTypes'
  BY <1>4, NoWorkerAssumption DEF RequestReturns, roomVars, handlerVars,
     agentVars, TypeOK, RoomTypes, WorkerTypes, HandlerTypes, AgentTypes
<1>5. ASSUME NEW d \in Dispatches, RequestTimesOut(d)
      PROVE  HandlerTypes'
  BY <1>5, NoWorkerAssumption DEF RequestTimesOut, roomVars, handlerVars,
     agentVars, TypeOK, RoomTypes, WorkerTypes, HandlerTypes, AgentTypes
<1>6. ASSUME NEW d \in Dispatches, HandleNewJob(d)
      PROVE  HandlerTypes'
  BY <1>6, NoWorkerAssumption DEF HandleNewJob, roomVars, handlerVars,
     agentVars, TypeOK, RoomTypes, WorkerTypes, HandlerTypes, AgentTypes
<1>7. ASSUME NEW d \in Dispatches, NEW w \in Workers, SelectWorker(d, w)
      PROVE  HandlerTypes'
  BY <1>7, NoWorkerAssumption DEF SelectWorker, roomVars, handlerVars,
     agentVars, Registered, TypeOK, RoomTypes, WorkerTypes, HandlerTypes, AgentTypes
<1>8. ASSUME NEW d \in Dispatches, SelectFails(d)
      PROVE  HandlerTypes'
  BY <1>8, NoWorkerAssumption DEF SelectFails, roomVars, handlerVars,
     agentVars, TypeOK, RoomTypes, WorkerTypes, HandlerTypes, AgentTypes
<1>9. ASSUME NEW d \in Dispatches, SendAssignment(d)
      PROVE  HandlerTypes'
  BY <1>9, NoWorkerAssumption DEF SendAssignment, roomVars, handlerVars,
     agentVars, TypeOK, RoomTypes, WorkerTypes, HandlerTypes, AgentTypes
<1>10. ASSUME NEW d \in Dispatches, RecordRunning(d)
      PROVE  HandlerTypes'
  BY <1>10, NoWorkerAssumption DEF RecordRunning, roomVars, handlerVars,
     agentVars, TypeOK, RoomTypes, WorkerTypes, HandlerTypes, AgentTypes
<1>11. ASSUME NEW d \in Dispatches, AwaitFails(d)
      PROVE  HandlerTypes'
  BY <1>11, NoWorkerAssumption DEF AwaitFails, roomVars, handlerVars,
     agentVars, TypeOK, RoomTypes, WorkerTypes, HandlerTypes, AgentTypes
<1>12. ASSUME NEW d \in Dispatches, AwaitTerminated(d)
      PROVE  HandlerTypes'
  BY <1>12, NoWorkerAssumption DEF AwaitTerminated, roomVars, handlerVars,
     agentVars, TypeOK, RoomTypes, WorkerTypes, HandlerTypes, AgentTypes
<1>13. ASSUME NEW d \in Dispatches, MapJob(d)
      PROVE  HandlerTypes'
  BY <1>13, NoWorkerAssumption DEF MapJob, roomVars, handlerVars, agentVars,
     TypeOK, RoomTypes, WorkerTypes, HandlerTypes, AgentTypes
<1>14. ASSUME NEW d \in Dispatches, RegisterTopic(d)
      PROVE  HandlerTypes'
  BY <1>14, NoWorkerAssumption DEF RegisterTopic, roomVars, handlerVars,
     agentVars, TypeOK, RoomTypes, WorkerTypes, HandlerTypes, AgentTypes
<1>15. ASSUME NEW d \in Dispatches, NEW a \in {"yes", "no", "terminate"}, HandleAvailability(d, a)
      PROVE  HandlerTypes'
  BY <1>15, NoWorkerAssumption DEF HandleAvailability, roomVars, handlerVars,
     agentVars, TypeOK, RoomTypes, WorkerTypes, HandlerTypes, AgentTypes
<1>16. ASSUME NEW d \in Dispatches, AgentJoins(d)
      PROVE  HandlerTypes'
  BY <1>16, NoWorkerAssumption DEF AgentJoins, roomVars, handlerVars,
     agentVars, HasAgent, TypeOK, RoomTypes, WorkerTypes, HandlerTypes, AgentTypes
<1>17. ASSUME NEW d \in Dispatches, AgentLeaves(d)
      PROVE  HandlerTypes'
  BY <1>17, NoWorkerAssumption DEF AgentLeaves, roomVars, handlerVars,
     agentVars, RemoveAgent, TypeOK, RoomTypes, WorkerTypes, HandlerTypes, AgentTypes
<1>18. ASSUME NEW d \in Dispatches, ReportEnd(d)
      PROVE  HandlerTypes'
  BY <1>18, NoWorkerAssumption, AgentType DEF ReportEnd, roomVars,
     handlerVars, agentVars, TypeOK, RoomTypes, WorkerTypes, HandlerTypes, AgentTypes
<1>19. ASSUME NEW d \in Dispatches, DeregisterJob(d)
      PROVE  HandlerTypes'
  BY <1>19, NoWorkerAssumption DEF DeregisterJob, roomVars, handlerVars,
     agentVars, TypeOK, RoomTypes, WorkerTypes, HandlerTypes, AgentTypes
<1>20. ASSUME NEW d \in Dispatches, TerminateLeft(d)
      PROVE  HandlerTypes'
  BY <1>20, NoWorkerAssumption DEF TerminateLeft, roomVars, handlerVars,
     agentVars, SendTermination, Terminable, TerminateFails, TypeOK, RoomTypes, WorkerTypes, HandlerTypes, AgentTypes
<1>21. ASSUME NEW d \in Dispatches, LeftTerminated(d)
      PROVE  HandlerTypes'
  BY <1>21, NoWorkerAssumption DEF LeftTerminated, roomVars, handlerVars,
     agentVars, EndRunning, TypeOK, RoomTypes, WorkerTypes, HandlerTypes, AgentTypes
<1>22. ASSUME NEW d \in Dispatches, DeleteDispatch(d)
      PROVE  HandlerTypes'
  BY <1>22, NoWorkerAssumption DEF DeleteDispatch, roomVars, handlerVars,
     agentVars, TypeOK, RoomTypes, WorkerTypes, HandlerTypes, AgentTypes
<1>23. ASSUME NEW d \in Dispatches, DeleteLooks(d)
      PROVE  HandlerTypes'
  BY <1>23, NoWorkerAssumption DEF DeleteLooks, roomVars, handlerVars,
     agentVars, TypeOK, RoomTypes, WorkerTypes, HandlerTypes, AgentTypes
<1>24. ASSUME NEW d \in Dispatches, DeleteWaits(d)
      PROVE  HandlerTypes'
  BY <1>24, NoWorkerAssumption DEF DeleteWaits, roomVars, handlerVars,
     agentVars, TypeOK, RoomTypes, WorkerTypes, HandlerTypes, AgentTypes
<1>25. ASSUME NEW d \in Dispatches, DeleteTerminates(d)
      PROVE  HandlerTypes'
  BY <1>25, NoWorkerAssumption DEF DeleteTerminates, roomVars, handlerVars,
     agentVars, SendTermination, Terminable, TerminateFails, TypeOK, RoomTypes, WorkerTypes, HandlerTypes, AgentTypes
<1>26. ASSUME NEW d \in Dispatches, DeleteTerminated(d)
      PROVE  HandlerTypes'
  BY <1>26, NoWorkerAssumption DEF DeleteTerminated, roomVars, handlerVars,
     agentVars, EndRunning, TypeOK, RoomTypes, WorkerTypes, HandlerTypes, AgentTypes
<1>27. ASSUME NEW d \in Dispatches, DeleteRemoves(d)
      PROVE  HandlerTypes'
  BY <1>27, NoWorkerAssumption DEF DeleteRemoves, roomVars, handlerVars,
     agentVars, RemoveAgent, TypeOK, RoomTypes, WorkerTypes, HandlerTypes, AgentTypes
<1>28. ASSUME NEW w \in Workers, RegisterWorker(w)
      PROVE  HandlerTypes'
  BY <1>28, NoWorkerAssumption DEF RegisterWorker, roomVars, handlerVars,
     agentVars, TypeOK, RoomTypes, WorkerTypes, HandlerTypes, AgentTypes
<1>29. ASSUME NEW w \in Workers, DeregisterWorker(w)
      PROVE  HandlerTypes'
  BY <1>29, NoWorkerAssumption DEF DeregisterWorker, roomVars, handlerVars,
     agentVars, TypeOK, RoomTypes, WorkerTypes, HandlerTypes, AgentTypes
<1>30. ASSUME NEW w \in Workers, CloseWorker(w)
      PROVE  HandlerTypes'
  BY <1>30, NoWorkerAssumption DEF CloseWorker, roomVars, handlerVars,
     agentVars, TypeOK, RoomTypes, WorkerTypes, HandlerTypes, AgentTypes
<1>31. ASSUME NEW w \in Workers, NEW drained \in BOOLEAN, LoseWorker(w, drained)
      PROVE  HandlerTypes'
  BY <1>31, NoWorkerAssumption DEF LoseWorker, roomVars, handlerVars,
     agentVars, TypeOK, RoomTypes, WorkerTypes, HandlerTypes, AgentTypes
<1>32. CASE DropCache
  BY <1>32, NoWorkerAssumption DEF DropCache, roomVars, handlerVars,
     agentVars, TypeOK, RoomTypes, WorkerTypes, HandlerTypes, AgentTypes
<1>33. CASE UNCHANGED vars
  BY <1>33 DEF vars, roomVars, handlerVars, agentVars, TypeOK, RoomTypes, WorkerTypes, HandlerTypes, AgentTypes
<1> QED
  BY <1>1, <1>2, <1>3, <1>4, <1>5, <1>6, <1>7, <1>8, <1>9, <1>10, <1>11,
     <1>12, <1>13, <1>14, <1>15, <1>16, <1>17, <1>18, <1>19, <1>20, <1>21,
     <1>22, <1>23, <1>24, <1>25, <1>26, <1>27, <1>28, <1>29, <1>30, <1>31,
     <1>32, <1>33
  DEF Next

\* Every step keeps the variables of the agents in their types.
LEMMA AgentTypesInvariance ==
  ASSUME TypeOK, \A y \in Dispatches : RequestInv(y), [Next]_vars
  PROVE  AgentTypes'
<1>1. ASSUME NEW d \in Dispatches, CreateDispatch(d)
      PROVE  AgentTypes'
  BY <1>1, NoWorkerAssumption DEF CreateDispatch, roomVars, handlerVars,
     agentVars, TypeOK, RoomTypes, HandlerTypes, AgentTypes, RequestInv
<1>2. ASSUME NEW d \in Dispatches, LaunchRoomAgent(d)
      PROVE  AgentTypes'
  BY <1>2, NoWorkerAssumption DEF LaunchRoomAgent, roomVars, handlerVars,
     agentVars, TypeOK, RoomTypes, HandlerTypes, AgentTypes, RequestInv
<1>3. ASSUME NEW d \in Dispatches, LookUp(d)
      PROVE  AgentTypes'
  BY <1>3, NoWorkerAssumption DEF LookUp, roomVars, handlerVars, agentVars,
     TypeOK, RoomTypes, HandlerTypes, AgentTypes, RequestInv
<1>4. ASSUME NEW d \in Dispatches, RequestReturns(d)
      PROVE  AgentTypes'
  BY <1>4, NoWorkerAssumption DEF RequestReturns, roomVars, handlerVars,
     agentVars, TypeOK, RoomTypes, HandlerTypes, AgentTypes, RequestInv
<1>5. ASSUME NEW d \in Dispatches, RequestTimesOut(d)
      PROVE  AgentTypes'
  BY <1>5, NoWorkerAssumption DEF RequestTimesOut, roomVars, handlerVars,
     agentVars, TypeOK, RoomTypes, HandlerTypes, AgentTypes, RequestInv
<1>6. ASSUME NEW d \in Dispatches, HandleNewJob(d)
      PROVE  AgentTypes'
  BY <1>6, NoWorkerAssumption DEF HandleNewJob, roomVars, handlerVars,
     agentVars, TypeOK, RoomTypes, HandlerTypes, AgentTypes, RequestInv
<1>7. ASSUME NEW d \in Dispatches, NEW w \in Workers, SelectWorker(d, w)
      PROVE  AgentTypes'
  BY <1>7, NoWorkerAssumption DEF SelectWorker, roomVars, handlerVars,
     agentVars, Registered, TypeOK, RoomTypes, HandlerTypes, AgentTypes, RequestInv
<1>8. ASSUME NEW d \in Dispatches, SelectFails(d)
      PROVE  AgentTypes'
  BY <1>8, NoWorkerAssumption DEF SelectFails, roomVars, handlerVars,
     agentVars, TypeOK, RoomTypes, HandlerTypes, AgentTypes, RequestInv
<1>9. ASSUME NEW d \in Dispatches, SendAssignment(d)
      PROVE  AgentTypes'
  BY <1>9, NoWorkerAssumption DEF SendAssignment, roomVars, handlerVars,
     agentVars, TypeOK, RoomTypes, HandlerTypes, AgentTypes, RequestInv
<1>10. ASSUME NEW d \in Dispatches, RecordRunning(d)
      PROVE  AgentTypes'
  BY <1>10, NoWorkerAssumption DEF RecordRunning, roomVars, handlerVars,
     agentVars, TypeOK, RoomTypes, HandlerTypes, AgentTypes, RequestInv
<1>11. ASSUME NEW d \in Dispatches, AwaitFails(d)
      PROVE  AgentTypes'
  BY <1>11, NoWorkerAssumption DEF AwaitFails, roomVars, handlerVars,
     agentVars, TypeOK, RoomTypes, HandlerTypes, AgentTypes, RequestInv
<1>12. ASSUME NEW d \in Dispatches, AwaitTerminated(d)
      PROVE  AgentTypes'
  BY <1>12, NoWorkerAssumption DEF AwaitTerminated, roomVars, handlerVars,
     agentVars, TypeOK, RoomTypes, HandlerTypes, AgentTypes, RequestInv
<1>13. ASSUME NEW d \in Dispatches, MapJob(d)
      PROVE  AgentTypes'
  BY <1>13, NoWorkerAssumption DEF MapJob, roomVars, handlerVars, agentVars,
     TypeOK, RoomTypes, HandlerTypes, AgentTypes, RequestInv
<1>14. ASSUME NEW d \in Dispatches, RegisterTopic(d)
      PROVE  AgentTypes'
  BY <1>14, NoWorkerAssumption DEF RegisterTopic, roomVars, handlerVars,
     agentVars, TypeOK, RoomTypes, HandlerTypes, AgentTypes, RequestInv
<1>15. ASSUME NEW d \in Dispatches, NEW a \in {"yes", "no", "terminate"}, HandleAvailability(d, a)
      PROVE  AgentTypes'
  BY <1>15, NoWorkerAssumption DEF HandleAvailability, roomVars, handlerVars,
     agentVars, TypeOK, RoomTypes, HandlerTypes, AgentTypes, RequestInv
<1>16. ASSUME NEW d \in Dispatches, AgentJoins(d)
      PROVE  AgentTypes'
  BY <1>16, NoWorkerAssumption DEF AgentJoins, roomVars, handlerVars,
     agentVars, HasAgent, TypeOK, RoomTypes, HandlerTypes, AgentTypes, RequestInv
<1>17. ASSUME NEW d \in Dispatches, AgentLeaves(d)
      PROVE  AgentTypes'
  BY <1>17, NoWorkerAssumption DEF AgentLeaves, roomVars, handlerVars,
     agentVars, RemoveAgent, TypeOK, RoomTypes, HandlerTypes, AgentTypes, RequestInv
<1>18. ASSUME NEW d \in Dispatches, ReportEnd(d)
      PROVE  AgentTypes'
  BY <1>18, NoWorkerAssumption, AgentType DEF ReportEnd, roomVars,
     handlerVars, agentVars, TypeOK, RoomTypes, HandlerTypes, AgentTypes, RequestInv
<1>19. ASSUME NEW d \in Dispatches, DeregisterJob(d)
      PROVE  AgentTypes'
  BY <1>19, NoWorkerAssumption DEF DeregisterJob, roomVars, handlerVars,
     agentVars, TypeOK, RoomTypes, HandlerTypes, AgentTypes, RequestInv
<1>20. ASSUME NEW d \in Dispatches, TerminateLeft(d)
      PROVE  AgentTypes'
  BY <1>20, NoWorkerAssumption DEF TerminateLeft, roomVars, handlerVars,
     agentVars, SendTermination, Terminable, TerminateFails, TypeOK, RoomTypes, HandlerTypes, AgentTypes, RequestInv
<1>21. ASSUME NEW d \in Dispatches, LeftTerminated(d)
      PROVE  AgentTypes'
  BY <1>21, NoWorkerAssumption DEF LeftTerminated, roomVars, handlerVars,
     agentVars, EndRunning, TypeOK, RoomTypes, HandlerTypes, AgentTypes, RequestInv
<1>22. ASSUME NEW d \in Dispatches, DeleteDispatch(d)
      PROVE  AgentTypes'
  BY <1>22, NoWorkerAssumption DEF DeleteDispatch, roomVars, handlerVars,
     agentVars, TypeOK, RoomTypes, HandlerTypes, AgentTypes, RequestInv
<1>23. ASSUME NEW d \in Dispatches, DeleteLooks(d)
      PROVE  AgentTypes'
  BY <1>23, NoWorkerAssumption DEF DeleteLooks, roomVars, handlerVars,
     agentVars, TypeOK, RoomTypes, HandlerTypes, AgentTypes, RequestInv
<1>24. ASSUME NEW d \in Dispatches, DeleteWaits(d)
      PROVE  AgentTypes'
  BY <1>24, NoWorkerAssumption DEF DeleteWaits, roomVars, handlerVars,
     agentVars, TypeOK, RoomTypes, HandlerTypes, AgentTypes, RequestInv
<1>25. ASSUME NEW d \in Dispatches, DeleteTerminates(d)
      PROVE  AgentTypes'
  BY <1>25, NoWorkerAssumption DEF DeleteTerminates, roomVars, handlerVars,
     agentVars, SendTermination, Terminable, TerminateFails, TypeOK, RoomTypes, HandlerTypes, AgentTypes, RequestInv
<1>26. ASSUME NEW d \in Dispatches, DeleteTerminated(d)
      PROVE  AgentTypes'
  BY <1>26, NoWorkerAssumption DEF DeleteTerminated, roomVars, handlerVars,
     agentVars, EndRunning, TypeOK, RoomTypes, HandlerTypes, AgentTypes, RequestInv
<1>27. ASSUME NEW d \in Dispatches, DeleteRemoves(d)
      PROVE  AgentTypes'
  BY <1>27, NoWorkerAssumption DEF DeleteRemoves, roomVars, handlerVars,
     agentVars, RemoveAgent, TypeOK, RoomTypes, HandlerTypes, AgentTypes, RequestInv
<1>28. ASSUME NEW w \in Workers, RegisterWorker(w)
      PROVE  AgentTypes'
  BY <1>28, NoWorkerAssumption DEF RegisterWorker, roomVars, handlerVars,
     agentVars, TypeOK, RoomTypes, HandlerTypes, AgentTypes, RequestInv
<1>29. ASSUME NEW w \in Workers, DeregisterWorker(w)
      PROVE  AgentTypes'
  BY <1>29, NoWorkerAssumption DEF DeregisterWorker, roomVars, handlerVars,
     agentVars, TypeOK, RoomTypes, HandlerTypes, AgentTypes, RequestInv
<1>30. ASSUME NEW w \in Workers, CloseWorker(w)
      PROVE  AgentTypes'
  BY <1>30, NoWorkerAssumption DEF CloseWorker, roomVars, handlerVars,
     agentVars, TypeOK, RoomTypes, HandlerTypes, AgentTypes, RequestInv
<1>31. ASSUME NEW w \in Workers, NEW drained \in BOOLEAN, LoseWorker(w, drained)
      PROVE  AgentTypes'
  BY <1>31, NoWorkerAssumption DEF LoseWorker, roomVars, handlerVars,
     agentVars, TypeOK, RoomTypes, HandlerTypes, AgentTypes, RequestInv
<1>32. CASE DropCache
  BY <1>32, NoWorkerAssumption DEF DropCache, roomVars, handlerVars,
     agentVars, TypeOK, RoomTypes, HandlerTypes, AgentTypes, RequestInv
<1>33. CASE UNCHANGED vars
  BY <1>33 DEF vars, roomVars, handlerVars, agentVars, TypeOK, RoomTypes, HandlerTypes, AgentTypes, RequestInv
<1> QED
  BY <1>1, <1>2, <1>3, <1>4, <1>5, <1>6, <1>7, <1>8, <1>9, <1>10, <1>11,
     <1>12, <1>13, <1>14, <1>15, <1>16, <1>17, <1>18, <1>19, <1>20, <1>21,
     <1>22, <1>23, <1>24, <1>25, <1>26, <1>27, <1>28, <1>29, <1>30, <1>31,
     <1>32, <1>33
  DEF Next

\* Every step keeps the progress of a request consistent.
LEMMA RequestInvariance ==
  ASSUME TypeOK, NEW x \in Dispatches, RequestInv(x), RunningInv(x), [Next]_vars
  PROVE  RequestInv(x)'
<1>1. ASSUME NEW d \in Dispatches, CreateDispatch(d)
      PROVE  RequestInv(x)'
  BY <1>1, NoWorkerAssumption DEF CreateDispatch, roomVars, handlerVars,
     agentVars, TypeOK, RoomTypes, HandlerTypes, AgentTypes, RequestInv
<1>2. ASSUME NEW d \in Dispatches, LaunchRoomAgent(d)
      PROVE  RequestInv(x)'
  BY <1>2, NoWorkerAssumption DEF LaunchRoomAgent, roomVars, handlerVars,
     agentVars, TypeOK, RoomTypes, HandlerTypes, AgentTypes, RequestInv
<1>3. ASSUME NEW d \in Dispatches, LookUp(d)
      PROVE  RequestInv(x)'
  BY <1>3, NoWorkerAssumption DEF LookUp, roomVars, handlerVars, agentVars,
     TypeOK, RoomTypes, HandlerTypes, AgentTypes, RequestInv
<1>4. ASSUME NEW d \in Dispatches, RequestReturns(d)
      PROVE  RequestInv(x)'
  BY <1>4, NoWorkerAssumption DEF RequestReturns, roomVars, handlerVars,
     agentVars, TypeOK, RoomTypes, HandlerTypes, AgentTypes, RequestInv
<1>5. ASSUME NEW d \in Dispatches, RequestTimesOut(d)
      PROVE  RequestInv(x)'
  BY <1>5, NoWorkerAssumption DEF RequestTimesOut, roomVars, handlerVars,
     agentVars, TypeOK, RoomTypes, HandlerTypes, AgentTypes, RequestInv
<1>6. ASSUME NEW d \in Dispatches, HandleNewJob(d)
      PROVE  RequestInv(x)'
  BY <1>6, NoWorkerAssumption DEF HandleNewJob, roomVars, handlerVars,
     agentVars, TypeOK, RoomTypes, HandlerTypes, AgentTypes, RequestInv
<1>7. ASSUME NEW d \in Dispatches, NEW w \in Workers, SelectWorker(d, w)
      PROVE  RequestInv(x)'
  BY <1>7, NoWorkerAssumption DEF SelectWorker, roomVars, handlerVars,
     agentVars, Registered, TypeOK, RoomTypes, HandlerTypes, AgentTypes, RequestInv
<1>8. ASSUME NEW d \in Dispatches, SelectFails(d)
      PROVE  RequestInv(x)'
  BY <1>8, NoWorkerAssumption DEF SelectFails, roomVars, handlerVars,
     agentVars, TypeOK, RoomTypes, HandlerTypes, AgentTypes, RequestInv
<1>9. ASSUME NEW d \in Dispatches, SendAssignment(d)
      PROVE  RequestInv(x)'
  BY <1>9, NoWorkerAssumption DEF SendAssignment, roomVars, handlerVars,
     agentVars, TypeOK, RoomTypes, HandlerTypes, AgentTypes, RequestInv
<1>10. ASSUME NEW d \in Dispatches, RecordRunning(d)
      PROVE  RequestInv(x)'
  BY <1>10, NoWorkerAssumption DEF RecordRunning, roomVars, handlerVars,
     agentVars, TypeOK, RoomTypes, HandlerTypes, AgentTypes, RequestInv
<1>11. ASSUME NEW d \in Dispatches, AwaitFails(d)
      PROVE  RequestInv(x)'
  BY <1>11, NoWorkerAssumption DEF AwaitFails, roomVars, handlerVars,
     agentVars, TypeOK, RoomTypes, HandlerTypes, AgentTypes, RequestInv
<1>12. ASSUME NEW d \in Dispatches, AwaitTerminated(d)
      PROVE  RequestInv(x)'
  BY <1>12, NoWorkerAssumption DEF AwaitTerminated, roomVars, handlerVars,
     agentVars, TypeOK, RoomTypes, HandlerTypes, AgentTypes, RequestInv
<1>13. ASSUME NEW d \in Dispatches, MapJob(d)
      PROVE  RequestInv(x)'
  BY <1>13, NoWorkerAssumption DEF MapJob, roomVars, handlerVars, agentVars,
     TypeOK, RoomTypes, HandlerTypes, AgentTypes, RequestInv
<1>14. ASSUME NEW d \in Dispatches, RegisterTopic(d)
      PROVE  RequestInv(x)'
  BY <1>14, NoWorkerAssumption DEF RegisterTopic, roomVars, handlerVars,
     agentVars, TypeOK, RoomTypes, HandlerTypes, AgentTypes, RequestInv
<1>15. ASSUME NEW d \in Dispatches, NEW a \in {"yes", "no", "terminate"}, HandleAvailability(d, a)
      PROVE  RequestInv(x)'
  BY <1>15, NoWorkerAssumption DEF HandleAvailability, roomVars, handlerVars,
     agentVars, TypeOK, RoomTypes, HandlerTypes, AgentTypes, RequestInv
<1>16. ASSUME NEW d \in Dispatches, AgentJoins(d)
      PROVE  RequestInv(x)'
  BY <1>16, NoWorkerAssumption DEF AgentJoins, roomVars, handlerVars,
     agentVars, HasAgent, TypeOK, RoomTypes, HandlerTypes, AgentTypes, RequestInv
<1>17. ASSUME NEW d \in Dispatches, AgentLeaves(d)
      PROVE  RequestInv(x)'
  BY <1>17, NoWorkerAssumption DEF AgentLeaves, roomVars, handlerVars,
     agentVars, RemoveAgent, TypeOK, RoomTypes, HandlerTypes, AgentTypes, RequestInv
<1>18. ASSUME NEW d \in Dispatches, ReportEnd(d)
      PROVE  RequestInv(x)'
  BY <1>18, NoWorkerAssumption, AgentType DEF ReportEnd, roomVars,
     handlerVars, agentVars, TypeOK, RoomTypes, HandlerTypes, AgentTypes, RequestInv
<1>19. ASSUME NEW d \in Dispatches, DeregisterJob(d)
      PROVE  RequestInv(x)'
  BY <1>19, NoWorkerAssumption DEF DeregisterJob, roomVars, handlerVars,
     agentVars, TypeOK, RoomTypes, HandlerTypes, AgentTypes, RequestInv
<1>20. ASSUME NEW d \in Dispatches, TerminateLeft(d)
      PROVE  RequestInv(x)'
  BY <1>20, NoWorkerAssumption DEF TerminateLeft, roomVars, handlerVars,
     agentVars, SendTermination, Terminable, TerminateFails, TypeOK, RoomTypes, HandlerTypes, AgentTypes, RequestInv
<1>21. ASSUME NEW d \in Dispatches, LeftTerminated(d)
      PROVE  RequestInv(x)'
  BY <1>21, NoWorkerAssumption DEF LeftTerminated, roomVars, handlerVars,
     agentVars, EndRunning, TypeOK, RoomTypes, HandlerTypes, AgentTypes, RequestInv
<1>22. ASSUME NEW d \in Dispatches, DeleteDispatch(d)
      PROVE  RequestInv(x)'
  BY <1>22, NoWorkerAssumption DEF DeleteDispatch, roomVars, handlerVars,
     agentVars, TypeOK, RoomTypes, HandlerTypes, AgentTypes, RequestInv
<1>23. ASSUME NEW d \in Dispatches, DeleteLooks(d)
      PROVE  RequestInv(x)'
  BY <1>23, NoWorkerAssumption DEF DeleteLooks, roomVars, handlerVars,
     agentVars, TypeOK, RoomTypes, HandlerTypes, AgentTypes, RequestInv
<1>24. ASSUME NEW d \in Dispatches, DeleteWaits(d)
      PROVE  RequestInv(x)'
  BY <1>24, NoWorkerAssumption DEF DeleteWaits, roomVars, handlerVars,
     agentVars, TypeOK, RoomTypes, HandlerTypes, AgentTypes, RequestInv
<1>25. ASSUME NEW d \in Dispatches, DeleteTerminates(d)
      PROVE  RequestInv(x)'
  BY <1>25, NoWorkerAssumption DEF DeleteTerminates, roomVars, handlerVars,
     agentVars, SendTermination, Terminable, TerminateFails, TypeOK, RoomTypes, HandlerTypes, AgentTypes, RequestInv
<1>26. ASSUME NEW d \in Dispatches, DeleteTerminated(d)
      PROVE  RequestInv(x)'
  BY <1>26, NoWorkerAssumption DEF DeleteTerminated, roomVars, handlerVars,
     agentVars, EndRunning, TypeOK, RoomTypes, HandlerTypes, AgentTypes, RequestInv
<1>27. ASSUME NEW d \in Dispatches, DeleteRemoves(d)
      PROVE  RequestInv(x)'
  BY <1>27, NoWorkerAssumption DEF DeleteRemoves, roomVars, handlerVars,
     agentVars, RemoveAgent, TypeOK, RoomTypes, HandlerTypes, AgentTypes, RequestInv
<1>28. ASSUME NEW w \in Workers, RegisterWorker(w)
      PROVE  RequestInv(x)'
  BY <1>28, NoWorkerAssumption DEF RegisterWorker, roomVars, handlerVars,
     agentVars, TypeOK, RoomTypes, HandlerTypes, AgentTypes, RequestInv
<1>29. ASSUME NEW w \in Workers, DeregisterWorker(w)
      PROVE  RequestInv(x)'
  BY <1>29, NoWorkerAssumption DEF DeregisterWorker, roomVars, handlerVars,
     agentVars, TypeOK, RoomTypes, HandlerTypes, AgentTypes, RequestInv
<1>30. ASSUME NEW w \in Workers, CloseWorker(w)
      PROVE  RequestInv(x)'
  BY <1>30, NoWorkerAssumption DEF CloseWorker, roomVars, handlerVars,
     agentVars, TypeOK, RoomTypes, HandlerTypes, AgentTypes, RequestInv
<1>31. ASSUME NEW w \in Workers, NEW drained \in BOOLEAN, LoseWorker(w, drained)
      PROVE  RequestInv(x)'
  BY <1>31, NoWorkerAssumption DEF LoseWorker, roomVars, handlerVars,
     agentVars, TypeOK, RoomTypes, HandlerTypes, AgentTypes, RequestInv
<1>32. CASE DropCache
  BY <1>32, NoWorkerAssumption DEF DropCache, roomVars, handlerVars,
     agentVars, TypeOK, RoomTypes, HandlerTypes, AgentTypes, RequestInv
<1>33. CASE UNCHANGED vars
  BY <1>33 DEF vars, roomVars, handlerVars, agentVars, TypeOK, RoomTypes, HandlerTypes, AgentTypes, RequestInv
<1> QED
  BY <1>1, <1>2, <1>3, <1>4, <1>5, <1>6, <1>7, <1>8, <1>9, <1>10, <1>11,
     <1>12, <1>13, <1>14, <1>15, <1>16, <1>17, <1>18, <1>19, <1>20, <1>21,
     <1>22, <1>23, <1>24, <1>25, <1>26, <1>27, <1>28, <1>29, <1>30, <1>31,
     <1>32, <1>33
  DEF Next

\* Every step keeps running jobs with the worker the request is at.
LEMMA RunningInvariance ==
  ASSUME TypeOK, NEW x \in Dispatches, RequestInv(x), RunningInv(x), [Next]_vars
  PROVE  RunningInv(x)'
<1>1. ASSUME NEW d \in Dispatches, CreateDispatch(d)
      PROVE  RunningInv(x)'
  BY <1>1, NoWorkerAssumption DEF CreateDispatch, roomVars, handlerVars,
     agentVars, TypeOK, WorkerTypes, HandlerTypes, RequestInv, RunningInv
<1>2. ASSUME NEW d \in Dispatches, LaunchRoomAgent(d)
      PROVE  RunningInv(x)'
  BY <1>2, NoWorkerAssumption DEF LaunchRoomAgent, roomVars, handlerVars,
     agentVars, TypeOK, WorkerTypes, HandlerTypes, RequestInv, RunningInv
<1>3. ASSUME NEW d \in Dispatches, LookUp(d)
      PROVE  RunningInv(x)'
  BY <1>3, NoWorkerAssumption DEF LookUp, roomVars, handlerVars, agentVars,
     TypeOK, WorkerTypes, HandlerTypes, RequestInv, RunningInv
<1>4. ASSUME NEW d \in Dispatches, RequestReturns(d)
      PROVE  RunningInv(x)'
  BY <1>4, NoWorkerAssumption DEF RequestReturns, roomVars, handlerVars,
     agentVars, TypeOK, WorkerTypes, HandlerTypes, RequestInv, RunningInv
<1>5. ASSUME NEW d \in Dispatches, RequestTimesOut(d)
      PROVE  RunningInv(x)'
  BY <1>5, NoWorkerAssumption DEF RequestTimesOut, roomVars, handlerVars,
     agentVars, TypeOK, WorkerTypes, HandlerTypes, RequestInv, RunningInv
<1>6. ASSUME NEW d \in Dispatches, HandleNewJob(d)
      PROVE  RunningInv(x)'
  BY <1>6, NoWorkerAssumption DEF HandleNewJob, roomVars, handlerVars,
     agentVars, TypeOK, WorkerTypes, HandlerTypes, RequestInv, RunningInv
<1>7. ASSUME NEW d \in Dispatches, NEW w \in Workers, SelectWorker(d, w)
      PROVE  RunningInv(x)'
  BY <1>7, NoWorkerAssumption DEF SelectWorker, roomVars, handlerVars,
     agentVars, Registered, TypeOK, WorkerTypes, HandlerTypes, RequestInv, RunningInv
<1>8. ASSUME NEW d \in Dispatches, SelectFails(d)
      PROVE  RunningInv(x)'
  BY <1>8, NoWorkerAssumption DEF SelectFails, roomVars, handlerVars,
     agentVars, TypeOK, WorkerTypes, HandlerTypes, RequestInv, RunningInv
<1>9. ASSUME NEW d \in Dispatches, SendAssignment(d)
      PROVE  RunningInv(x)'
  BY <1>9, NoWorkerAssumption DEF SendAssignment, roomVars, handlerVars,
     agentVars, TypeOK, WorkerTypes, HandlerTypes, RequestInv, RunningInv
<1>10. ASSUME NEW d \in Dispatches, RecordRunning(d)
      PROVE  RunningInv(x)'
  BY <1>10, NoWorkerAssumption DEF RecordRunning, roomVars, handlerVars,
     agentVars, TypeOK, WorkerTypes, HandlerTypes, RequestInv, RunningInv
<1>11. ASSUME NEW d \in Dispatches, AwaitFails(d)
      PROVE  RunningInv(x)'
  BY <1>11, NoWorkerAssumption DEF AwaitFails, roomVars, handlerVars,
     agentVars, TypeOK, WorkerTypes, HandlerTypes, RequestInv, RunningInv
<1>12. ASSUME NEW d \in Dispatches, AwaitTerminated(d)
      PROVE  RunningInv(x)'
  BY <1>12, NoWorkerAssumption DEF AwaitTerminated, roomVars, handlerVars,
     agentVars, TypeOK, WorkerTypes, HandlerTypes, RequestInv, RunningInv
<1>13. ASSUME NEW d \in Dispatches, MapJob(d)
      PROVE  RunningInv(x)'
  BY <1>13, NoWorkerAssumption DEF MapJob, roomVars, handlerVars, agentVars,
     TypeOK, WorkerTypes, HandlerTypes, RequestInv, RunningInv
<1>14. ASSUME NEW d \in Dispatches, RegisterTopic(d)
      PROVE  RunningInv(x)'
  BY <1>14, NoWorkerAssumption DEF RegisterTopic, roomVars, handlerVars,
     agentVars, TypeOK, WorkerTypes, HandlerTypes, RequestInv, RunningInv
<1>15. ASSUME NEW d \in Dispatches, NEW a \in {"yes", "no", "terminate"}, HandleAvailability(d, a)
      PROVE  RunningInv(x)'
  BY <1>15, NoWorkerAssumption DEF HandleAvailability, roomVars, handlerVars,
     agentVars, TypeOK, WorkerTypes, HandlerTypes, RequestInv, RunningInv
<1>16. ASSUME NEW d \in Dispatches, AgentJoins(d)
      PROVE  RunningInv(x)'
  BY <1>16, NoWorkerAssumption DEF AgentJoins, roomVars, handlerVars,
     agentVars, HasAgent, TypeOK, WorkerTypes, HandlerTypes, RequestInv, RunningInv
<1>17. ASSUME NEW d \in Dispatches, AgentLeaves(d)
      PROVE  RunningInv(x)'
  BY <1>17, NoWorkerAssumption DEF AgentLeaves, roomVars, handlerVars,
     agentVars, RemoveAgent, TypeOK, WorkerTypes, HandlerTypes, RequestInv, RunningInv
<1>18. ASSUME NEW d \in Dispatches, ReportEnd(d)
      PROVE  RunningInv(x)'
  BY <1>18, NoWorkerAssumption, AgentType DEF ReportEnd, roomVars,
     handlerVars, agentVars, TypeOK, WorkerTypes, HandlerTypes, RequestInv, RunningInv
<1>19. ASSUME NEW d \in Dispatches, DeregisterJob(d)
      PROVE  RunningInv(x)'
  BY <1>19, NoWorkerAssumption DEF DeregisterJob, roomVars, handlerVars,
     agentVars, TypeOK, WorkerTypes, HandlerTypes, RequestInv, RunningInv
<1>20. ASSUME NEW d \in Dispatches, TerminateLeft(d)
      PROVE  RunningInv(x)'
  BY <1>20, NoWorkerAssumption DEF TerminateLeft, roomVars, handlerVars,
     agentVars, SendTermination, Terminable, TerminateFails, TypeOK, WorkerTypes, HandlerTypes, RequestInv, RunningInv
<1>21. ASSUME NEW d \in Dispatches, LeftTerminated(d)
      PROVE  RunningInv(x)'
  BY <1>21, NoWorkerAssumption DEF LeftTerminated, roomVars, handlerVars,
     agentVars, EndRunning, TypeOK, WorkerTypes, HandlerTypes, RequestInv, RunningInv
<1>22. ASSUME NEW d \in Dispatches, DeleteDispatch(d)
      PROVE  RunningInv(x)'
  BY <1>22, NoWorkerAssumption DEF DeleteDispatch, roomVars, handlerVars,
     agentVars, TypeOK, WorkerTypes, HandlerTypes, RequestInv, RunningInv
<1>23. ASSUME NEW d \in Dispatches, DeleteLooks(d)
      PROVE  RunningInv(x)'
  BY <1>23, NoWorkerAssumption DEF DeleteLooks, roomVars, handlerVars,
     agentVars, TypeOK, WorkerTypes, HandlerTypes, RequestInv, RunningInv
<1>24. ASSUME NEW d \in Dispatches, DeleteWaits(d)
      PROVE  RunningInv(x)'
  BY <1>24, NoWorkerAssumption DEF DeleteWaits, roomVars, handlerVars,
     agentVars, TypeOK, WorkerTypes, HandlerTypes, RequestInv, RunningInv
<1>25. ASSUME NEW d \in Dispatches, DeleteTerminates(d)
      PROVE  RunningInv(x)'
  BY <1>25, NoWorkerAssumption DEF DeleteTerminates, roomVars, handlerVars,
     agentVars, SendTermination, Terminable, TerminateFails, TypeOK, WorkerTypes, HandlerTypes, RequestInv, RunningInv
<1>26. ASSUME NEW d \in Dispatches, DeleteTerminated(d)
      PROVE  RunningInv(x)'
  BY <1>26, NoWorkerAssumption DEF DeleteTerminated, roomVars, handlerVars,
     agentVars, EndRunning, TypeOK, WorkerTypes, HandlerTypes, RequestInv, RunningInv
<1>27. ASSUME NEW d \in Dispatches, DeleteRemoves(d)
      PROVE  RunningInv(x)'
  BY <1>27, NoWorkerAssumption DEF DeleteRemoves, roomVars, handlerVars,
     agentVars, RemoveAgent, TypeOK, WorkerTypes, HandlerTypes, RequestInv, RunningInv
<1>28. ASSUME NEW w \in Workers, RegisterWorker(w)
      PROVE  RunningInv(x)'
  BY <1>28, NoWorkerAssumption DEF RegisterWorker, roomVars, handlerVars,
     agentVars, TypeOK, WorkerTypes, HandlerTypes, RequestInv, RunningInv
<1>29. ASSUME NEW w \in Workers, DeregisterWorker(w)
      PROVE  RunningInv(x)'
  BY <1>29, NoWorkerAssumption DEF DeregisterWorker, roomVars, handlerVars,
     agentVars, TypeOK, WorkerTypes, HandlerTypes, RequestInv, RunningInv
<1>30. ASSUME NEW w \in Workers, CloseWorker(w)
      PROVE  RunningInv(x)'
  BY <1>30, NoWorkerAssumption DEF CloseWorker, roomVars, handlerVars,
     agentVars, TypeOK, WorkerTypes, HandlerTypes, RequestInv, RunningInv
<1>31. ASSUME NEW w \in Workers, NEW drained \in BOOLEAN, LoseWorker(w, drained)
      PROVE  RunningInv(x)'
  BY <1>31, NoWorkerAssumption DEF LoseWorker, roomVars, handlerVars,
     agentVars, TypeOK, WorkerTypes, HandlerTypes, RequestInv, RunningInv
<1>32. CASE DropCache
  BY <1>32, NoWorkerAssumption DEF DropCache, roomVars, handlerVars,
     agentVars, TypeOK, WorkerTypes, HandlerTypes, RequestInv, RunningInv
<1>33. CASE UNCHANGED vars
  BY <1>33 DEF vars, roomVars, handlerVars, agentVars, TypeOK, WorkerTypes, HandlerTypes, RequestInv, RunningInv
<1> QED
  BY <1>1, <1>2, <1>3, <1>4, <1>5, <1>6, <1>7, <1>8, <1>9, <1>10, <1>11,
     <1>12, <1>13, <1>14, <1>15, <1>16, <1>17, <1>18, <1>19, <1>20, <1>21,
     <1>22, <1>23, <1>24, <1>25, <1>26, <1>27, <1>28, <1>29, <1>30, <1>31,
     <1>32, <1>33
  DEF Next

\* Every step keeps running jobs known to the handler.
LEMMA KnownInvariance ==
  ASSUME TypeOK, NEW x \in Dispatches, RequestInv(x), RunningInv(x), KnownInv(x), [Next]_vars
  PROVE  KnownInv(x)'
<1>1. ASSUME NEW d \in Dispatches, CreateDispatch(d)
      PROVE  KnownInv(x)'
  BY <1>1, NoWorkerAssumption DEF CreateDispatch, roomVars, handlerVars,
     agentVars, TypeOK, WorkerTypes, HandlerTypes, AgentTypes, RunningInv, KnownInv
<1>2. ASSUME NEW d \in Dispatches, LaunchRoomAgent(d)
      PROVE  KnownInv(x)'
  BY <1>2, NoWorkerAssumption DEF LaunchRoomAgent, roomVars, handlerVars,
     agentVars, TypeOK, WorkerTypes, HandlerTypes, AgentTypes, RunningInv, KnownInv
<1>3. ASSUME NEW d \in Dispatches, LookUp(d)
      PROVE  KnownInv(x)'
  BY <1>3, NoWorkerAssumption DEF LookUp, roomVars, handlerVars, agentVars,
     TypeOK, WorkerTypes, HandlerTypes, AgentTypes, RunningInv, KnownInv
<1>4. ASSUME NEW d \in Dispatches, RequestReturns(d)
      PROVE  KnownInv(x)'
  BY <1>4, NoWorkerAssumption DEF RequestReturns, roomVars, handlerVars,
     agentVars, TypeOK, WorkerTypes, HandlerTypes, AgentTypes, RunningInv, KnownInv
<1>5. ASSUME NEW d \in Dispatches, RequestTimesOut(d)
      PROVE  KnownInv(x)'
  BY <1>5, NoWorkerAssumption DEF RequestTimesOut, roomVars, handlerVars,
     agentVars, TypeOK, WorkerTypes, HandlerTypes, AgentTypes, RunningInv, KnownInv
<1>6. ASSUME NEW d \in Dispatches, HandleNewJob(d)
      PROVE  KnownInv(x)'
  BY <1>6, NoWorkerAssumption DEF HandleNewJob, roomVars, handlerVars,
     agentVars, TypeOK, WorkerTypes, HandlerTypes, AgentTypes, RunningInv, KnownInv
<1>7. ASSUME NEW d \in Dispatches, NEW w \in Workers, SelectWorker(d, w)
      PROVE  KnownInv(x)'
  BY <1>7, NoWorkerAssumption DEF SelectWorker, roomVars, handlerVars,
     agentVars, Registered, TypeOK, WorkerTypes, HandlerTypes, AgentTypes, RunningInv, KnownInv
<1>8. ASSUME NEW d \in Dispatches, SelectFails(d)
      PROVE  KnownInv(x)'
  BY <1>8, NoWorkerAssumption DEF SelectFails, roomVars, handlerVars,
     agentVars, TypeOK, WorkerTypes, HandlerTypes, AgentTypes, RunningInv, KnownInv
<1>9. ASSUME NEW d \in Dispatches, SendAssignment(d)
      PROVE  KnownInv(x)'
  BY <1>9, NoWorkerAssumption DEF SendAssignment, roomVars, handlerVars,
     agentVars, TypeOK, WorkerTypes, HandlerTypes, AgentTypes, RunningInv, KnownInv
<1>10. ASSUME NEW d \in Dispatches, RecordRunning(d)
      PROVE  KnownInv(x)'
  BY <1>10, NoWorkerAssumption DEF RecordRunning, roomVars, handlerVars,
     agentVars, TypeOK, WorkerTypes, HandlerTypes, AgentTypes, RunningInv, KnownInv
<1>11. ASSUME NEW d \in Dispatches, AwaitFails(d)
      PROVE  KnownInv(x)'
  BY <1>11, NoWorkerAssumption DEF AwaitFails, roomVars, handlerVars,
     agentVars, TypeOK, WorkerTypes, HandlerTypes, AgentTypes, RunningInv, KnownInv
<1>12. ASSUME NEW d \in Dispatches, AwaitTerminated(d)
      PROVE  KnownInv(x)'
  BY <1>12, NoWorkerAssumption DEF AwaitTerminated, roomVars, handlerVars,
     agentVars, TypeOK, WorkerTypes, HandlerTypes, AgentTypes, RunningInv, KnownInv
<1>13. ASSUME NEW d \in Dispatches, MapJob(d)
      PROVE  KnownInv(x)'
  BY <1>13, NoWorkerAssumption DEF MapJob, roomVars, handlerVars, agentVars,
     TypeOK, WorkerTypes, HandlerTypes, AgentTypes, RunningInv, KnownInv
<1>14. ASSUME NEW d \in Dispatches, RegisterTopic(d)
      PROVE  KnownInv(x)'
  BY <1>14, NoWorkerAssumption DEF RegisterTopic, roomVars, handlerVars,
     agentVars, TypeOK, WorkerTypes, HandlerTypes, AgentTypes, RunningInv, KnownInv
<1>15. ASSUME NEW d \in Dispatches, NEW a \in {"yes", "no", "terminate"}, HandleAvailability(d, a)
      PROVE  KnownInv(x)'
  BY <1>15, NoWorkerAssumption DEF HandleAvailability, roomVars, handlerVars,
     agentVars, TypeOK, WorkerTypes, HandlerTypes, AgentTypes, RunningInv, KnownInv
<1>16. ASSUME NEW d \in Dispatches, AgentJoins(d)
      PROVE  KnownInv(x)'
  BY <1>16, NoWorkerAssumption DEF AgentJoins, roomVars, handlerVars,
     agentVars, HasAgent, TypeOK, WorkerTypes, HandlerTypes, AgentTypes, RunningInv, KnownInv
<1>17. ASSUME NEW d \in Dispatches, AgentLeaves(d)
      PROVE  KnownInv(x)'
  BY <1>17, NoWorkerAssumption DEF AgentLeaves, roomVars, handlerVars,
     agentVars, RemoveAgent, TypeOK, WorkerTypes, HandlerTypes, AgentTypes, RunningInv, KnownInv
<1>18. ASSUME NEW d \in Dispatches, ReportEnd(d)
      PROVE  KnownInv(x)'
  BY <1>18, NoWorkerAssumption, AgentType DEF ReportEnd, roomVars,
     handlerVars, agentVars, TypeOK, WorkerTypes, HandlerTypes, AgentTypes, RunningInv, KnownInv
<1>19. ASSUME NEW d \in Dispatches, DeregisterJob(d)
      PROVE  KnownInv(x)'
  BY <1>19, NoWorkerAssumption DEF DeregisterJob, roomVars, handlerVars,
     agentVars, TypeOK, WorkerTypes, HandlerTypes, AgentTypes, RunningInv, KnownInv
<1>20. ASSUME NEW d \in Dispatches, TerminateLeft(d)
      PROVE  KnownInv(x)'
  BY <1>20, NoWorkerAssumption DEF TerminateLeft, roomVars, handlerVars,
     agentVars, SendTermination, Terminable, TerminateFails, TypeOK, WorkerTypes, HandlerTypes, AgentTypes, RunningInv, KnownInv
<1>21. ASSUME NEW d \in Dispatches, LeftTerminated(d)
      PROVE  KnownInv(x)'
  BY <1>21, NoWorkerAssumption DEF LeftTerminated, roomVars, handlerVars,
     agentVars, EndRunning, TypeOK, WorkerTypes, HandlerTypes, AgentTypes, RunningInv, KnownInv
<1>22. ASSUME NEW d \in Dispatches, DeleteDispatch(d)
      PROVE  KnownInv(x)'
  BY <1>22, NoWorkerAssumption DEF DeleteDispatch, roomVars, handlerVars,
     agentVars, TypeOK, WorkerTypes, HandlerTypes, AgentTypes, RunningInv, KnownInv
<1>23. ASSUME NEW d \in Dispatches, DeleteLooks(d)
      PROVE  KnownInv(x)'
  BY <1>23, NoWorkerAssumption DEF DeleteLooks, roomVars, handlerVars,
     agentVars, TypeOK, WorkerTypes, HandlerTypes, AgentTypes, RunningInv, KnownInv
<1>24. ASSUME NEW d \in Dispatches, DeleteWaits(d)
      PROVE  KnownInv(x)'
  BY <1>24, NoWorkerAssumption DEF DeleteWaits, roomVars, handlerVars,
     agentVars, TypeOK, WorkerTypes, HandlerTypes, AgentTypes, RunningInv, KnownInv
<1>25. ASSUME NEW d \in Dispatches, DeleteTerminates(d)
      PROVE  KnownInv(x)'
  BY <1>25, NoWorkerAssumption DEF DeleteTerminates, roomVars, handlerVars,
     agentVars, SendTermination, Terminable, TerminateFails, TypeOK, WorkerTypes, HandlerTypes, AgentTypes, RunningInv, KnownInv
<1>26. ASSUME NEW d \in Dispatches, DeleteTerminated(d)
      PROVE  KnownInv(x)'
  BY <1>26, NoWorkerAssumption DEF DeleteTerminated, roomVars, handlerVars,
     agentVars, EndRunning, TypeOK, WorkerTypes, HandlerTypes, AgentTypes, RunningInv, KnownInv
<1>27. ASSUME NEW d \in Dispatches, DeleteRemoves(d)
      PROVE  KnownInv(x)'
  BY <1>27, NoWorkerAssumption DEF DeleteRemoves, roomVars, handlerVars,
     agentVars, RemoveAgent, TypeOK, WorkerTypes, HandlerTypes, AgentTypes, RunningInv, KnownInv
<1>28. ASSUME NEW w \in Workers, RegisterWorker(w)
      PROVE  KnownInv(x)'
  BY <1>28, NoWorkerAssumption DEF RegisterWorker, roomVars, handlerVars,
     agentVars, TypeOK, WorkerTypes, HandlerTypes, AgentTypes, RunningInv, KnownInv
<1>29. ASSUME NEW w \in Workers, DeregisterWorker(w)
      PROVE  KnownInv(x)'
  BY <1>29, NoWorkerAssumption DEF DeregisterWorker, roomVars, handlerVars,
     agentVars, TypeOK, WorkerTypes, HandlerTypes, AgentTypes, RunningInv, KnownInv
<1>30. ASSUME NEW w \in Workers, CloseWorker(w)
      PROVE  KnownInv(x)'
  BY <1>30, NoWorkerAssumption DEF CloseWorker, roomVars, handlerVars,
     agentVars, TypeOK, WorkerTypes, HandlerTypes, AgentTypes, RunningInv, KnownInv
<1>31. ASSUME NEW w \in Workers, NEW drained \in BOOLEAN, LoseWorker(w, drained)
      PROVE  KnownInv(x)'
  BY <1>31, NoWorkerAssumption DEF LoseWorker, roomVars, handlerVars,
     agentVars, TypeOK, WorkerTypes, HandlerTypes, AgentTypes, RunningInv, KnownInv
<1>32. CASE DropCache
  BY <1>32, NoWorkerAssumption DEF DropCache, roomVars, handlerVars,
     agentVars, TypeOK, WorkerTypes, HandlerTypes, AgentTypes, RunningInv, KnownInv
<1>33. CASE UNCHANGED vars
  BY <1>33 DEF vars, roomVars, handlerVars, agentVars, TypeOK, WorkerTypes, HandlerTypes, AgentTypes, RunningInv, KnownInv
<1> QED
  BY <1>1, <1>2, <1>3, <1>4, <1>5, <1>6, <1>7, <1>8, <1>9, <1>10, <1>11,
     <1>12, <1>13, <1>14, <1>15, <1>16, <1>17, <1>18, <1>19, <1>20, <1>21,
     <1>22, <1>23, <1>24, <1>25, <1>26, <1>27, <1>28, <1>29, <1>30, <1>31,
     <1>32, <1>33
  DEF Next

\* Every step keeps ended agents on their way out.
LEMMA AgentInvariance ==
  ASSUME TypeOK, NEW x \in Dispatches, AgentInv(x), [Next]_vars
  PROVE  AgentInv(x)'
<1>1. ASSUME NEW d \in Dispatches, CreateDispatch(d)
      PROVE  AgentInv(x)'
  BY <1>1, NoWorkerAssumption DEF CreateDispatch, roomVars, handlerVars,
     agentVars, TypeOK, RoomTypes, AgentTypes, AgentInv
<1>2. ASSUME NEW d \in Dispatches, LaunchRoomAgent(d)
      PROVE  AgentInv(x)'
  BY <1>2, NoWorkerAssumption DEF LaunchRoomAgent, roomVars, handlerVars,
     agentVars, TypeOK, RoomTypes, AgentTypes, AgentInv
<1>3. ASSUME NEW d \in Dispatches, LookUp(d)
      PROVE  AgentInv(x)'
  BY <1>3, NoWorkerAssumption DEF LookUp, roomVars, handlerVars, agentVars,
     TypeOK, RoomTypes, AgentTypes, AgentInv
<1>4. ASSUME NEW d \in Dispatches, RequestReturns(d)
      PROVE  AgentInv(x)'
  BY <1>4, NoWorkerAssumption DEF RequestReturns, roomVars, handlerVars,
     agentVars, TypeOK, RoomTypes, AgentTypes, AgentInv
<1>5. ASSUME NEW d \in Dispatches, RequestTimesOut(d)
      PROVE  AgentInv(x)'
  BY <1>5, NoWorkerAssumption DEF RequestTimesOut, roomVars, handlerVars,
     agentVars, TypeOK, RoomTypes, AgentTypes, AgentInv
<1>6. ASSUME NEW d \in Dispatches, HandleNewJob(d)
      PROVE  AgentInv(x)'
  BY <1>6, NoWorkerAssumption DEF HandleNewJob, roomVars, handlerVars,
     agentVars, TypeOK, RoomTypes, AgentTypes, AgentInv
<1>7. ASSUME NEW d \in Dispatches, NEW w \in Workers, SelectWorker(d, w)
      PROVE  AgentInv(x)'
  BY <1>7, NoWorkerAssumption DEF SelectWorker, roomVars, handlerVars,
     agentVars, Registered, TypeOK, RoomTypes, AgentTypes, AgentInv
<1>8. ASSUME NEW d \in Dispatches, SelectFails(d)
      PROVE  AgentInv(x)'
  BY <1>8, NoWorkerAssumption DEF SelectFails, roomVars, handlerVars,
     agentVars, TypeOK, RoomTypes, AgentTypes, AgentInv
<1>9. ASSUME NEW d \in Dispatches, SendAssignment(d)
      PROVE  AgentInv(x)'
  BY <1>9, NoWorkerAssumption DEF SendAssignment, roomVars, handlerVars,
     agentVars, TypeOK, RoomTypes, AgentTypes, AgentInv
<1>10. ASSUME NEW d \in Dispatches, RecordRunning(d)
      PROVE  AgentInv(x)'
  BY <1>10, NoWorkerAssumption DEF RecordRunning, roomVars, handlerVars,
     agentVars, TypeOK, RoomTypes, AgentTypes, AgentInv
<1>11. ASSUME NEW d \in Dispatches, AwaitFails(d)
      PROVE  AgentInv(x)'
  BY <1>11, NoWorkerAssumption DEF AwaitFails, roomVars, handlerVars,
     agentVars, TypeOK, RoomTypes, AgentTypes, AgentInv
<1>12. ASSUME NEW d \in Dispatches, AwaitTerminated(d)
      PROVE  AgentInv(x)'
  BY <1>12, NoWorkerAssumption DEF AwaitTerminated, roomVars, handlerVars,
     agentVars, TypeOK, RoomTypes, AgentTypes, AgentInv
<1>13. ASSUME NEW d \in Dispatches, MapJob(d)
      PROVE  AgentInv(x)'
  BY <1>13, NoWorkerAssumption DEF MapJob, roomVars, handlerVars, agentVars,
     TypeOK, RoomTypes, AgentTypes, AgentInv
<1>14. ASSUME NEW d \in Dispatches, RegisterTopic(d)
      PROVE  AgentInv(x)'
  BY <1>14, NoWorkerAssumption DEF RegisterTopic, roomVars, handlerVars,
     agentVars, TypeOK, RoomTypes, AgentTypes, AgentInv
<1>15. ASSUME NEW d \in Dispatches, NEW a \in {"yes", "no", "terminate"}, HandleAvailability(d, a)
      PROVE  AgentInv(x)'
  BY <1>15, NoWorkerAssumption DEF HandleAvailability, roomVars, handlerVars,
     agentVars, TypeOK, RoomTypes, AgentTypes, AgentInv
<1>16. ASSUME NEW d \in Dispatches, AgentJoins(d)
      PROVE  AgentInv(x)'
  BY <1>16, NoWorkerAssumption DEF AgentJoins, roomVars, handlerVars,
     agentVars, HasAgent, TypeOK, RoomTypes, AgentTypes, AgentInv
<1>17. ASSUME NEW d \in Dispatches, AgentLeaves(d)
      PROVE  AgentInv(x)'
  BY <1>17, NoWorkerAssumption DEF AgentLeaves, roomVars, handlerVars,
     agentVars, RemoveAgent, TypeOK, RoomTypes, AgentTypes, AgentInv
<1>18. ASSUME NEW d \in Dispatches, ReportEnd(d)
      PROVE  AgentInv(x)'
  BY <1>18, NoWorkerAssumption, AgentType DEF ReportEnd, roomVars,
     handlerVars, agentVars, TypeOK, RoomTypes, AgentTypes, AgentInv
<1>19. ASSUME NEW d \in Dispatches, DeregisterJob(d)
      PROVE  AgentInv(x)'
  BY <1>19, NoWorkerAssumption DEF DeregisterJob, roomVars, handlerVars,
     agentVars, TypeOK, RoomTypes, AgentTypes, AgentInv
<1>20. ASSUME NEW d \in Dispatches, TerminateLeft(d)
      PROVE  AgentInv(x)'
  BY <1>20, NoWorkerAssumption DEF TerminateLeft, roomVars, handlerVars,
     agentVars, SendTermination, Terminable, TerminateFails, TypeOK, RoomTypes, AgentTypes, AgentInv
<1>21. ASSUME NEW d \in Dispatches, LeftTerminated(d)
      PROVE  AgentInv(x)'
  BY <1>21, NoWorkerAssumption DEF LeftTerminated, roomVars, handlerVars,
     agentVars, EndRunning, TypeOK, RoomTypes, AgentTypes, AgentInv
<1>22. ASSUME NEW d \in Dispatches, DeleteDispatch(d)
      PROVE  AgentInv(x)'
  BY <1>22, NoWorkerAssumption DEF DeleteDispatch, roomVars, handlerVars,
     agentVars, TypeOK, RoomTypes, AgentTypes, AgentInv
<1>23. ASSUME NEW d \in Dispatches, DeleteLooks(d)
      PROVE  AgentInv(x)'
  BY <1>23, NoWorkerAssumption DEF DeleteLooks, roomVars, handlerVars,
     agentVars, TypeOK, RoomTypes, AgentTypes, AgentInv
<1>24. ASSUME NEW d \in Dispatches, DeleteWaits(d)
      PROVE  AgentInv(x)'
  BY <1>24, NoWorkerAssumption DEF DeleteWaits, roomVars, handlerVars,
     agentVars, TypeOK, RoomTypes, AgentTypes, AgentInv
<1>25. ASSUME NEW d \in Dispatches, DeleteTerminates(d)
      PROVE  AgentInv(x)'
  BY <1>25, NoWorkerAssumption DEF DeleteTerminates, roomVars, handlerVars,
     agentVars, SendTermination, Terminable, TerminateFails, TypeOK, RoomTypes, AgentTypes, AgentInv
<1>26. ASSUME NEW d \in Dispatches, DeleteTerminated(d)
      PROVE  AgentInv(x)'
  BY <1>26, NoWorkerAssumption DEF DeleteTerminated, roomVars, handlerVars,
     agentVars, EndRunning, TypeOK, RoomTypes, AgentTypes, AgentInv
<1>27. ASSUME NEW d \in Dispatches, DeleteRemoves(d)
      PROVE  AgentInv(x)'
  BY <1>27, NoWorkerAssumption DEF DeleteRemoves, roomVars, handlerVars,
     agentVars, RemoveAgent, TypeOK, RoomTypes, AgentTypes, AgentInv
<1>28. ASSUME NEW w \in Workers, RegisterWorker(w)
      PROVE  AgentInv(x)'
  BY <1>28, NoWorkerAssumption DEF RegisterWorker, roomVars, handlerVars,
     agentVars, TypeOK, RoomTypes, AgentTypes, AgentInv
<1>29. ASSUME NEW w \in Workers, DeregisterWorker(w)
      PROVE  AgentInv(x)'
  BY <1>29, NoWorkerAssumption DEF DeregisterWorker, roomVars, handlerVars,
     agentVars, TypeOK, RoomTypes, AgentTypes, AgentInv
<1>30. ASSUME NEW w \in Workers, CloseWorker(w)
      PROVE  AgentInv(x)'
  BY <1>30, NoWorkerAssumption DEF CloseWorker, roomVars, handlerVars,
     agentVars, TypeOK, RoomTypes, AgentTypes, AgentInv
<1>31. ASSUME NEW w \in Workers, NEW drained \in BOOLEAN, LoseWorker(w, drained)
      PROVE  AgentInv(x)'
  BY <1>31, NoWorkerAssumption DEF LoseWorker, roomVars, handlerVars,
     agentVars, TypeOK, RoomTypes, AgentTypes, AgentInv
<1>32. CASE DropCache
  BY <1>32, NoWorkerAssumption DEF DropCache, roomVars, handlerVars,
     agentVars, TypeOK, RoomTypes, AgentTypes, AgentInv
<1>33. CASE UNCHANGED vars
  BY <1>33 DEF vars, roomVars, handlerVars, agentVars, TypeOK, RoomTypes, AgentTypes, AgentInv
<1> QED
  BY <1>1, <1>2, <1>3, <1>4, <1>5, <1>6, <1>7, <1>8, <1>9, <1>10, <1>11,
     <1>12, <1>13, <1>14, <1>15, <1>16, <1>17, <1>18, <1>19, <1>20, <1>21,
     <1>22, <1>23, <1>24, <1>25, <1>26, <1>27, <1>28, <1>29, <1>30, <1>31,
     <1>32, <1>33
  DEF Next

\* The initial states satisfy the invariant.
LEMMA InitDispatchInv == Init => DispatchInv
<1> SUFFICES ASSUME Init PROVE DispatchInv
  OBVIOUS
<1>1. TypeOK
  BY DEF Init, TypeOK, RoomTypes, WorkerTypes, HandlerTypes, AgentTypes
<1>2. ASSUME NEW d \in Dispatches
      PROVE  RequestInv(d) /\ RunningInv(d) /\ KnownInv(d) /\ AgentInv(d)
  BY NoWorkerAssumption DEF Init, RequestInv, RunningInv, KnownInv, AgentInv
<1> QED
  BY <1>1, <1>2 DEF DispatchInv

\* DispatchInv is an invariant: every launch, request, job and agent is where
\* the other parts of the system take it to be.
THEOREM DispatchInvariant == Spec => []DispatchInv
<1>1. Init => DispatchInv
  BY InitDispatchInv
<1>2. DispatchInv /\ [Next]_vars => DispatchInv'
  <2> SUFFICES ASSUME DispatchInv, [Next]_vars PROVE DispatchInv'
    OBVIOUS
  <2>1. /\ TypeOK
        /\ \A d \in Dispatches :
             RequestInv(d) /\ RunningInv(d) /\ KnownInv(d) /\ AgentInv(d)
    BY DEF DispatchInv
  <2>2. TypeOK'
    BY <2>1, RoomTypesInvariance, WorkerTypesInvariance, HandlerTypesInvariance,
       AgentTypesInvariance DEF TypeOK
  <2>3. \A d \in Dispatches : RequestInv(d)'
    BY <2>1, RequestInvariance
  <2>4. \A d \in Dispatches : RunningInv(d)'
    BY <2>1, RunningInvariance
  <2>5. \A d \in Dispatches : AgentInv(d)'
    BY <2>1, AgentInvariance
  <2>6. \A d \in Dispatches : KnownInv(d)'
    BY <2>1, KnownInvariance
  <2> QED
    BY <2>2, <2>3, <2>4, <2>5, <2>6 DEF DispatchInv
<1> QED
  BY <1>1, <1>2, PTL DEF Spec

\* A job is never assigned to two workers, whichever workers a request tries,
\* however late they answer (AssignJob, JobRequest).
THEOREM OneAssignment == Spec => []AtMostOneAssignment
<1>1. DispatchInv => AtMostOneAssignment
  BY DEF DispatchInv, RequestInv, AtMostOneAssignment
<1> QED
  BY <1>1, DispatchInvariant, PTL

\* A launch that ends without a job, its RPC not having failed at the caller,
\* has not given the job to any worker (LaunchJob).
THEOREM NoOrphan == Spec => []NoOrphanAgent
<1>1. DispatchInv => NoOrphanAgent
  BY DEF DispatchInv, RequestInv, NoOrphanAgent
<1> QED
  BY <1>1, DispatchInvariant, PTL

\* A job the room knows of that runs on a connected worker can be terminated
\* through JobTerminate.
THEOREM Terminability == Spec => []RunningIsTerminable
<1>1. DispatchInv => RunningIsTerminable
  BY DEF DispatchInv, TypeOK, RoomTypes, RequestInv, KnownInv,
     RunningIsTerminable
<1> QED
  BY <1>1, DispatchInvariant, PTL

\* An agent that was told to end is out of the room when the deletion of its
\* dispatch is over, unless an RPC failed.
THEOREM DeletionRemoves == Spec => []DeleteRemovesAgent
<1>1. DispatchInv => DeleteRemovesAgent
  BY DEF DispatchInv, AgentInv, DeleteRemovesAgent
<1> QED
  BY <1>1, DispatchInvariant, PTL
=============================================================================
