---------------------------- MODULE AgentDispatch ----------------------------
(***************************************************************************)
(* Dispatching an agent to a room (pkg/rtc/room.go, pkg/agent/client.go,   *)
(* pkg/agent/worker.go, pkg/service/agentservice.go).                      *)
(*                                                                         *)
(* The room keeps agent dispatches and launches a job for each; the agent  *)
(* client looks up whether a worker of that name exists and sends a        *)
(* JobRequest RPC; the agent handler picks a worker, asks whether it is    *)
(* available and assigns the job, trying another worker when it is not.    *)
(* Deleting a dispatch waits for its pending launch and terminates its     *)
(* job.  Every step is what happens inside one critical section of the     *)
(* code, so all the windows between two locks are there.                   *)
(*                                                                         *)
(* The dispatches are for one agent name and the room job type, as the     *)
(* token server and the agent process of this repository use them, so a    *)
(* dispatch has one launch and its job is named after it.  External: the   *)
(* RPC bus (a request may fail or time out at the caller) and the worker   *)
(* processes.                                                              *)
(***************************************************************************)
EXTENDS Integers, FiniteSets

CONSTANTS
  Dispatches,  \* agent dispatches of the room, and their jobs
  Workers,     \* worker connections, each with a worker ID of its own
  NoWorker     \* stands for no worker

ASSUME NoWorkerAssumption == NoWorker \notin Workers

VARIABLES
  dispatches,  \* Room.agentDispatches
  adder,       \* AddAgentDispatch: "none", "created" (in the map), "done"
  launch,      \* launching goroutine: "none", "lookup", "request", "respond", "done"
  jobs,        \* dispatches whose State.Jobs holds the job
  agentJobs,   \* Room.agentParticpants: jobs whose agent is known by identity
  inRoom,      \* agents (by job) that are participants of the room
  leaving,     \* jobs whose agent left: TerminateJob is about to be sent
  deleter,     \* DeleteAgentDispatch: "none", "start", "waiting", "terminate",
               \* "sent" (the termination), "remove" (the participant), "done"
  rpcFailed,   \* a TerminateJob or JobRequest RPC for the job failed
  cache,       \* agentClient's cached agent names: "none", "known", "unknown"
  notice       \* a WorkerRegistered message is on its way

roomVars == <<dispatches, adder, launch, jobs, agentJobs, inRoom, leaving,
              deleter, rpcFailed, cache, notice>>

VARIABLES
  worker,      \* per worker: "new", "registered", "lost" (read loop ended),
               \* "deregistered", "closed"
  cancelled,   \* workers whose context is cancelled (Worker.Close)
  request,     \* JobRequest: "none", "select", "await", "assigned" (sent),
               \* "running" (in runningJobs), "mapped" (in jobToWorker),
               \* "reply", "failed"
  target,      \* the worker the request is at
  attempted,   \* workers the request has tried
  answer,      \* availability channel: "none", "yes", "no", "terminate"
  running,     \* per worker: Worker.runningJobs
  jobToWorker, \* AgentHandler.jobToWorker
  topics,      \* jobs with a registered JobTerminate topic
  topicFailed, \* jobs whose topic failed to be registered, which is only logged
  ending       \* jobs whose final status is being handled

handlerVars == <<worker, cancelled, request, target, attempted, answer,
                 running, jobToWorker, topics, topicFailed, ending>>

VARIABLES
  assigned,    \* <<worker, job>> pairs for which an assignment was sent
  told,        \* jobs whose worker was sent a termination
  finished,    \* jobs whose agent has ended
  terminating  \* jobs with a termination sent for an agent that left, whose
               \* status is still to be updated

agentVars == <<assigned, told, finished, terminating>>

vars == <<roomVars, handlerVars, agentVars>>

Init ==
  /\ dispatches  = {}
  /\ adder       = [d \in Dispatches |-> "none"]
  /\ launch      = [d \in Dispatches |-> "none"]
  /\ jobs        = {}
  /\ agentJobs   = {}
  /\ inRoom      = {}
  /\ leaving     = {}
  /\ deleter     = [d \in Dispatches |-> "none"]
  /\ rpcFailed   = {}
  /\ cache       = "none"
  /\ notice      = FALSE
  /\ worker      = [w \in Workers |-> "new"]
  /\ cancelled   = {}
  /\ request     = [d \in Dispatches |-> "none"]
  /\ target      = [d \in Dispatches |-> NoWorker]
  /\ attempted   = [d \in Dispatches |-> {}]
  /\ answer      = [d \in Dispatches |-> "none"]
  /\ running     = [w \in Workers |-> {}]
  /\ jobToWorker = [d \in Dispatches |-> NoWorker]
  /\ topics      = {}
  /\ topicFailed = {}
  /\ ending      = {}
  /\ assigned    = {}
  /\ told        = {}
  /\ finished    = {}
  /\ terminating = {}

Registered == {w \in Workers : worker[w] \in {"registered", "lost"}}

\* Mutant: jobsLaunching's channel is never closed.
MutPendingForever(d) == launch[d] # "none"

\* The job of d is being launched (agentDispatch.pending).
Pending(d) == launch[d] \in {"lookup", "request", "respond"}

-----------------------------------------------------------------------------
(* The room: adding a dispatch and launching its job.                      *)

\* createAgentDispatch, from the CreateDispatch RPC: in the map under the
\* lock, then stored outside it.
CreateDispatch(d) ==
  /\ adder[d] = "none"
  /\ adder' = [adder EXCEPT ![d] = "created"]
  /\ dispatches' = dispatches \cup {d}
  /\ UNCHANGED <<launch, jobs, agentJobs, inRoom, leaving, deleter, rpcFailed,
                 cache, notice, handlerVars, agentVars>>

\* launchRoomAgents: jobsLaunching, then go LaunchJob.
LaunchRoomAgent(d) ==
  /\ adder[d] = "created"
  /\ adder' = [adder EXCEPT ![d] = "done"]
  /\ launch' = [launch EXCEPT ![d] = "lookup"]
  /\ UNCHANGED <<dispatches, jobs, agentJobs, inRoom, leaving, deleter,
                 rpcFailed, cache, notice, handlerVars, agentVars>>

\* getDispatcher: the cached names, or a CheckEnabled RPC that may fail and
\* then leaves a cache without names; no worker known, no job.
LookUp(d) ==
  /\ launch[d] = "lookup"
  /\ cache' \in IF cache = "none"
                  THEN {IF Registered # {} THEN "known" ELSE "unknown", "unknown"}
                  ELSE {cache}
  /\ launch' = [launch EXCEPT ![d] = IF cache' = "known" THEN "request" ELSE "done"]
  /\ request' = [request EXCEPT ![d] = IF cache' = "known" THEN "select" ELSE @]
  /\ UNCHANGED <<dispatches, adder, jobs, agentJobs, inRoom, leaving, deleter,
                 rpcFailed, notice, worker, cancelled, target, attempted,
                 answer, running, jobToWorker, topics, topicFailed, ending,
                 agentVars>>

\* The cache is dropped on a WorkerRegistered message, or has expired.
DropCache ==
  /\ notice \/ cache # "none"
  /\ notice' = FALSE
  /\ cache' = "none"
  /\ UNCHANGED <<dispatches, adder, launch, jobs, agentJobs, inRoom, leaving,
                 deleter, rpcFailed, handlerVars, agentVars>>

\* The JobRequest RPC returns to LaunchJob.
RequestReturns(d) ==
  /\ launch[d] = "request"
  /\ request[d] \in {"reply", "failed"}
  /\ launch' = [launch EXCEPT ![d] = IF request[d] = "reply" THEN "respond" ELSE "done"]
  /\ UNCHANGED <<dispatches, adder, jobs, agentJobs, inRoom, leaving, deleter,
                 rpcFailed, cache, notice, handlerVars, agentVars>>

\* The RPC fails at the caller, whatever became of the request.
RequestTimesOut(d) ==
  /\ launch[d] = "request"
  /\ launch' = [launch EXCEPT ![d] = "done"]
  /\ rpcFailed' = rpcFailed \cup {d}
  /\ UNCHANGED <<dispatches, adder, jobs, agentJobs, inRoom, leaving, deleter,
                 cache, notice, handlerVars, agentVars>>

\* handleNewJobs: the job joins its dispatch, and its agent is known by the
\* identity the worker chose (none when it answered with terminate).
HandleNewJob(d) ==
  /\ launch[d] = "respond"
  /\ launch' = [launch EXCEPT ![d] = "done"]
  /\ jobs' = jobs \cup {d}
  /\ agentJobs' = IF answer[d] = "terminate" THEN agentJobs ELSE agentJobs \cup {d}
  /\ UNCHANGED <<dispatches, adder, inRoom, leaving, deleter, rpcFailed, cache,
                 notice, handlerVars, agentVars>>

-----------------------------------------------------------------------------
(* The agent handler: workers come and go.                                 *)

\* registerWorker; the first worker of the name is announced.
RegisterWorker(w) ==
  /\ worker[w] = "new"
  /\ worker' = [worker EXCEPT ![w] = "registered"]
  /\ notice' = (notice \/ Registered = {})
  /\ UNCHANGED <<dispatches, adder, launch, jobs, agentJobs, inRoom, leaving,
                 deleter, rpcFailed, cache, cancelled, request, target,
                 attempted, answer, running, jobToWorker, topics,
                 topicFailed, ending, agentVars>>

\* The worker's read loop ends: its connection broke, or DrainConnections
\* closed it, which also cancels its context.
LoseWorker(w, drained) ==
  /\ worker[w] = "registered"
  /\ worker' = [worker EXCEPT ![w] = "lost"]
  /\ cancelled' = IF drained THEN cancelled \cup {w} ELSE cancelled
  /\ UNCHANGED <<roomVars, request, target, attempted, answer, running,
                 jobToWorker, topics, topicFailed, ending, agentVars>>

\* Mutant: deregisterJob for every job the worker was asked for, whichever
\* worker runs it now.
MutDeregisterWorkerAsked(w) ==
  LET asked == {d \in Dispatches : w \in attempted[d]} IN
  /\ worker[w] = "lost"
  /\ worker' = [worker EXCEPT ![w] = "deregistered"]
  /\ topics' = topics \ asked
  /\ jobToWorker' = [d \in Dispatches |->
                       IF d \in asked THEN NoWorker ELSE jobToWorker[d]]
  /\ UNCHANGED <<roomVars, cancelled, request, target, attempted, answer,
                 running, topicFailed, ending, agentVars>>

\* deregisterWorker, with deregisterJob for each of its running jobs.
DeregisterWorker(w) ==
  /\ worker[w] = "lost"
  /\ worker' = [worker EXCEPT ![w] = "deregistered"]
  /\ topics' = topics \ running[w]
  /\ jobToWorker' = [d \in Dispatches |->
                       IF d \in running[w] THEN NoWorker ELSE jobToWorker[d]]
  /\ UNCHANGED <<roomVars, cancelled, request, target, attempted, answer,
                 running, topicFailed, ending, agentVars>>

\* Worker.Close after deregistration.
CloseWorker(w) ==
  /\ worker[w] = "deregistered"
  /\ worker' = [worker EXCEPT ![w] = "closed"]
  /\ cancelled' = cancelled \cup {w}
  /\ UNCHANGED <<roomVars, request, target, attempted, answer, running,
                 jobToWorker, topics, topicFailed, ending, agentVars>>

-----------------------------------------------------------------------------
(* The agent handler: JobRequest and Worker.AssignJob.                     *)

\* selectWorkerWeightedByLoad: some worker was not tried yet.  Rounding of the
\* loads may make it return the first of the list, tried or not.
SelectWorker(d, w) ==
  /\ request[d] = "select"
  /\ Registered \ attempted[d] # {}
  /\ w \in Registered
  /\ request' = [request EXCEPT ![d] = "await"]
  /\ target' = [target EXCEPT ![d] = w]
  /\ attempted' = [attempted EXCEPT ![d] = @ \cup {w}]
  /\ answer' = [answer EXCEPT ![d] = "none"]
  /\ UNCHANGED <<roomVars, worker, cancelled, running, jobToWorker, topics,
                 topicFailed, ending, agentVars>>

\* None is left, or none of them reports capacity.
SelectFails(d) ==
  /\ request[d] = "select"
  /\ request' = [request EXCEPT ![d] = "failed"]
  /\ UNCHANGED <<roomVars, worker, cancelled, target, attempted, answer,
                 running, jobToWorker, topics, topicFailed, ending, agentVars>>

\* HandleAvailability: the first answer goes to the waiting AssignJob.
HandleAvailability(d, a) ==
  /\ request[d] = "await"
  /\ answer[d] = "none"
  /\ worker[target[d]] = "registered"
  /\ answer' = [answer EXCEPT ![d] = a]
  /\ UNCHANGED <<roomVars, worker, cancelled, request, target, attempted,
                 running, jobToWorker, topics, topicFailed, ending, agentVars>>

\* Mutant: the request still waits after the assignment went out.
MutSendAssignmentWaits(d) ==
  /\ request[d] = "await"
  /\ answer[d] = "yes"
  /\ assigned' = assigned \cup {<<target[d], d>>}
  /\ UNCHANGED <<roomVars, worker, cancelled, request, target, attempted, answer,
                 running, jobToWorker, topics, topicFailed, ending, told,
                 finished, terminating>>

\* AssignJob got "available": the assignment goes out.
SendAssignment(d) ==
  /\ request[d] = "await"
  /\ answer[d] = "yes"
  /\ request' = [request EXCEPT ![d] = "assigned"]
  /\ assigned' = assigned \cup {<<target[d], d>>}
  /\ UNCHANGED <<roomVars, worker, cancelled, target, attempted, answer,
                 running, jobToWorker, topics, topicFailed, ending, told,
                 finished, terminating>>

\* Mutant: a cancelled worker makes AssignJob fail after the assignment.
MutRecordRunningFails(d) ==
  /\ request[d] = "assigned"
  /\ request' = [request EXCEPT ![d] =
                   IF target[d] \in cancelled THEN "failed" ELSE "running"]
  /\ running' = [running EXCEPT ![target[d]] = @ \cup {d}]
  /\ UNCHANGED <<roomVars, worker, cancelled, target, attempted, answer,
                 jobToWorker, topics, topicFailed, ending, agentVars>>

\* AssignJob: the job joins runningJobs.
RecordRunning(d) ==
  /\ request[d] = "assigned"
  /\ request' = [request EXCEPT ![d] = "running"]
  /\ running' = [running EXCEPT ![target[d]] = @ \cup {d}]
  /\ UNCHANGED <<roomVars, worker, cancelled, target, attempted, answer,
                 jobToWorker, topics, topicFailed, ending, agentVars>>

\* AssignJob returns without assigning: the worker is not available or its
\* context is cancelled (try another), or the answer or the caller timed out
\* (give up).  Go's select may prefer these to an answer that is there.
AwaitFails(d) ==
  /\ request[d] = "await"
  /\ \/ /\ answer[d] = "no" \/ target[d] \in cancelled
        /\ request' = [request EXCEPT ![d] = "select"]
     \/ request' = [request EXCEPT ![d] = "failed"]
  /\ UNCHANGED <<roomVars, worker, cancelled, target, attempted, answer,
                 running, jobToWorker, topics, topicFailed, ending, agentVars>>

\* AssignJob got "terminate": the job counts as successful and is not run.
AwaitTerminated(d) ==
  /\ request[d] = "await"
  /\ answer[d] = "terminate"
  /\ request' = [request EXCEPT ![d] = "reply"]
  /\ UNCHANGED <<roomVars, worker, cancelled, target, attempted, answer,
                 running, jobToWorker, topics, topicFailed, ending, agentVars>>

\* JobRequest: jobToWorker under the handler's lock.
MapJob(d) ==
  /\ request[d] = "running"
  /\ request' = [request EXCEPT ![d] = "mapped"]
  /\ jobToWorker' = [jobToWorker EXCEPT ![d] = target[d]]
  /\ UNCHANGED <<roomVars, worker, cancelled, target, attempted, answer,
                 running, topics, topicFailed, ending, agentVars>>

\* JobRequest: RegisterJobTerminateTopic outside it, then the reply.  That the
\* topic could not be registered is only logged.
RegisterTopic(d) ==
  /\ request[d] = "mapped"
  /\ request' = [request EXCEPT ![d] = "reply"]
  /\ \/ /\ topics' = topics \cup {d}
        /\ UNCHANGED topicFailed
     \/ /\ topicFailed' = topicFailed \cup {d}
        /\ UNCHANGED topics
  /\ UNCHANGED <<roomVars, worker, cancelled, target, attempted, answer,
                 running, jobToWorker, ending, agentVars>>

-----------------------------------------------------------------------------
(* The agents (external) and what the code does when they act.             *)

Agent(d) == CHOOSE w \in Workers : <<w, d>> \in assigned

HasAgent(d) == \E w \in Workers : <<w, d>> \in assigned

\* An assigned agent joins the room, unless it was told to end.
AgentJoins(d) ==
  /\ HasAgent(d)
  /\ d \notin inRoom \cup told \cup finished
  /\ inRoom' = inRoom \cup {d}
  /\ UNCHANGED <<dispatches, adder, launch, jobs, agentJobs, leaving, deleter,
                 rpcFailed, cache, notice, handlerVars, agentVars>>

\* Mutant: the agent's job is terminated and the agent stays.
MutRemoveAgentStays(d) ==
  /\ UNCHANGED inRoom
  /\ agentJobs' = IF d \in inRoom THEN agentJobs \ {d} ELSE agentJobs
  /\ leaving' = leaving \cup (inRoom \cap agentJobs \cap {d})

\* RemoveParticipant for an agent: a known agent job is terminated.
RemoveAgent(d) ==
  /\ inRoom' = inRoom \ {d}
  /\ agentJobs' = IF d \in inRoom THEN agentJobs \ {d} ELSE agentJobs
  /\ leaving' = leaving \cup (inRoom \cap agentJobs \cap {d})

\* The agent leaves the room and ends.
AgentLeaves(d) ==
  /\ d \in inRoom
  /\ RemoveAgent(d)
  /\ finished' = finished \cup {d}
  /\ UNCHANGED <<dispatches, adder, launch, jobs, deleter, rpcFailed, cache,
                 notice, handlerVars, assigned, told, terminating>>

\* The worker reports the end of a job (HandleUpdateJob, UpdateJobStatus): it
\* leaves runningJobs if it is there, and the handler goes on either way.
ReportEnd(d) ==
  /\ HasAgent(d)
  /\ worker[Agent(d)] = "registered"
  /\ d \in finished \cup told
  /\ d \notin ending
  /\ ending' = ending \cup {d}
  /\ finished' = finished \cup {d}
  /\ running' = [running EXCEPT ![Agent(d)] = @ \ {d}]
  /\ UNCHANGED <<roomVars, worker, cancelled, request, target, attempted,
                 answer, jobToWorker, topics, topicFailed, assigned, told,
                 terminating>>

\* deregisterJob after a final status.
DeregisterJob(d) ==
  /\ d \in ending
  /\ ending' = ending \ {d}
  /\ jobToWorker' = [jobToWorker EXCEPT ![d] = NoWorker]
  /\ topics' = topics \ {d}
  /\ UNCHANGED <<roomVars, worker, cancelled, request, target, attempted,
                 answer, running, topicFailed, agentVars>>

-----------------------------------------------------------------------------
(* Terminating jobs.                                                       *)

\* JobTerminate can find the job: topic, worker and running job are there.
Terminable(d) ==
  /\ d \in topics
  /\ jobToWorker[d] # NoWorker
  /\ d \in running[jobToWorker[d]]

\* JobTerminate and Worker.TerminateJob, up to the lock of UpdateJobStatus: the
\* worker is told.
SendTermination(d) ==
  /\ Terminable(d)
  /\ told' = told \cup {d}
  /\ UNCHANGED <<handlerVars, assigned, finished>>

\* UpdateJobStatus: the job leaves runningJobs.
EndRunning(d) ==
  /\ running' = [running EXCEPT ![target[d]] = @ \ {d}]
  /\ UNCHANGED <<worker, cancelled, request, target, attempted, answer,
                 jobToWorker, topics, topicFailed, ending, assigned, told,
                 finished>>

\* The RPC does not reach the handler, or finds no job.
TerminateFails(d) ==
  /\ rpcFailed' = rpcFailed \cup {d}
  /\ UNCHANGED <<handlerVars, agentVars>>

\* RemoveParticipant's goroutine for an agent that left.
TerminateLeft(d) ==
  /\ d \in leaving
  /\ leaving' = leaving \ {d}
  /\ \/ /\ SendTermination(d)
        /\ terminating' = terminating \cup {d}
        /\ UNCHANGED rpcFailed
     \/ TerminateFails(d)
  /\ UNCHANGED <<dispatches, adder, launch, jobs, agentJobs, inRoom, deleter,
                 cache, notice>>

LeftTerminated(d) ==
  /\ d \in terminating
  /\ terminating' = terminating \ {d}
  /\ EndRunning(d)
  /\ UNCHANGED roomVars

\* DeleteAgentDispatch takes the dispatch out of the map.
DeleteDispatch(d) ==
  /\ d \in dispatches
  /\ dispatches' = dispatches \ {d}
  /\ deleter' = [deleter EXCEPT ![d] = "start"]
  /\ UNCHANGED <<adder, launch, jobs, agentJobs, inRoom, leaving, rpcFailed,
                 cache, notice, handlerVars, agentVars>>

\* waitForPendingJobs: the launches that are pending when it looks.
DeleteLooks(d) ==
  /\ deleter[d] = "start"
  /\ deleter' = [deleter EXCEPT ![d] = IF Pending(d) THEN "waiting" ELSE "terminate"]
  /\ UNCHANGED <<dispatches, adder, launch, jobs, agentJobs, inRoom, leaving,
                 rpcFailed, cache, notice, handlerVars, agentVars>>

DeleteWaits(d) ==
  /\ deleter[d] = "waiting"
  /\ ~Pending(d)
  /\ deleter' = [deleter EXCEPT ![d] = "terminate"]
  /\ UNCHANGED <<dispatches, adder, launch, jobs, agentJobs, inRoom, leaving,
                 rpcFailed, cache, notice, handlerVars, agentVars>>

\* No job: nothing to do.  TerminateJob failed: on to the next.
DeleteTerminates(d) ==
  /\ deleter[d] = "terminate"
  /\ \/ /\ d \notin jobs
        /\ deleter' = [deleter EXCEPT ![d] = "done"]
        /\ UNCHANGED <<rpcFailed, handlerVars, agentVars>>
     \/ /\ d \in jobs
        /\ TerminateFails(d)
        /\ deleter' = [deleter EXCEPT ![d] = "done"]
     \/ /\ d \in jobs
        /\ SendTermination(d)
        /\ deleter' = [deleter EXCEPT ![d] = "sent"]
        /\ UNCHANGED <<rpcFailed, terminating>>
  /\ UNCHANGED <<dispatches, adder, launch, jobs, agentJobs, inRoom, leaving,
                 cache, notice>>

\* TerminateJob succeeded: wait (with a timeout) for the agent to leave, if it
\* is there.  It fails if the job is not running any more, or if the reply of
\* the RPC is lost.
DeleteTerminated(d) ==
  /\ deleter[d] = "sent"
  /\ EndRunning(d)
  /\ \/ /\ d \in running[target[d]]
        /\ deleter' = [deleter EXCEPT ![d] = IF d \in inRoom THEN "remove" ELSE "done"]
        /\ UNCHANGED rpcFailed
     \/ /\ deleter' = [deleter EXCEPT ![d] = "done"]
        /\ rpcFailed' = rpcFailed \cup {d}
  /\ UNCHANGED <<dispatches, adder, launch, jobs, agentJobs, inRoom, leaving,
                 cache, notice, terminating>>

\* The agent left or the wait timed out: it is removed from the room.
DeleteRemoves(d) ==
  /\ deleter[d] = "remove"
  /\ deleter' = [deleter EXCEPT ![d] = "done"]
  /\ RemoveAgent(d)
  /\ UNCHANGED <<dispatches, adder, launch, jobs, rpcFailed, cache, notice,
                 handlerVars, agentVars>>

-----------------------------------------------------------------------------
LaunchStep(d) ==
  LookUp(d) \/ RequestReturns(d) \/ RequestTimesOut(d) \/ HandleNewJob(d)

RequestStep(d) ==
  \/ \E w \in Workers : SelectWorker(d, w)
  \/ SelectFails(d) \/ SendAssignment(d) \/ RecordRunning(d)
  \/ AwaitFails(d) \/ AwaitTerminated(d) \/ MapJob(d) \/ RegisterTopic(d)

DeleteStep(d) ==
  \/ DeleteLooks(d) \/ DeleteWaits(d) \/ DeleteTerminates(d)
  \/ DeleteTerminated(d) \/ DeleteRemoves(d)

Next ==
  \/ \E d \in Dispatches :
       \/ CreateDispatch(d) \/ LaunchRoomAgent(d)
       \/ LookUp(d) \/ RequestReturns(d) \/ RequestTimesOut(d) \/ HandleNewJob(d)
       \/ \E w \in Workers : SelectWorker(d, w)
       \/ SelectFails(d) \/ SendAssignment(d) \/ RecordRunning(d)
       \/ AwaitFails(d) \/ AwaitTerminated(d) \/ MapJob(d) \/ RegisterTopic(d)
       \/ \E a \in {"yes", "no", "terminate"} : HandleAvailability(d, a)
       \/ AgentJoins(d) \/ AgentLeaves(d) \/ ReportEnd(d) \/ DeregisterJob(d)
       \/ TerminateLeft(d) \/ LeftTerminated(d) \/ DeleteDispatch(d)
       \/ DeleteLooks(d) \/ DeleteWaits(d) \/ DeleteTerminates(d)
       \/ DeleteTerminated(d) \/ DeleteRemoves(d)
  \/ \E w \in Workers :
       \/ RegisterWorker(w) \/ DeregisterWorker(w) \/ CloseWorker(w)
       \/ \E drained \in BOOLEAN : LoseWorker(w, drained)
  \/ DropCache

\* The goroutines of the room and of the agent handler run; AssignJob ends by
\* its timeout.  Nothing is assumed of the workers.
Fairness ==
  \A d \in Dispatches :
    /\ WF_vars(LaunchRoomAgent(d)) /\ WF_vars(LaunchStep(d))
    /\ WF_vars(RequestStep(d)) /\ WF_vars(DeleteStep(d))

Spec == Init /\ [][Next]_vars

FairSpec == Spec /\ Fairness

-----------------------------------------------------------------------------
(* Properties.                                                             *)

\* Types of all variables, one part per place they are kept.
RoomTypes ==
  /\ dispatches  \subseteq Dispatches
  /\ adder       \in [Dispatches -> {"none", "created", "done"}]
  /\ launch      \in [Dispatches -> {"none", "lookup", "request", "respond", "done"}]
  /\ jobs        \subseteq Dispatches
  /\ agentJobs   \subseteq Dispatches
  /\ inRoom      \subseteq Dispatches
  /\ leaving     \subseteq Dispatches
  /\ deleter     \in [Dispatches ->
                       {"none", "start", "waiting", "terminate", "sent", "remove", "done"}]
  /\ rpcFailed   \subseteq Dispatches
  /\ cache       \in {"none", "known", "unknown"}
  /\ notice      \in BOOLEAN

WorkerTypes ==
  /\ worker      \in [Workers -> {"new", "registered", "lost", "deregistered", "closed"}]
  /\ cancelled   \subseteq Workers
  /\ running     \in [Workers -> SUBSET Dispatches]

HandlerTypes ==
  /\ request     \in [Dispatches -> {"none", "select", "await", "assigned",
                                     "running", "mapped", "reply", "failed"}]
  /\ target      \in [Dispatches -> Workers \cup {NoWorker}]
  /\ attempted   \in [Dispatches -> SUBSET Workers]
  /\ answer      \in [Dispatches -> {"none", "yes", "no", "terminate"}]
  /\ jobToWorker \in [Dispatches -> Workers \cup {NoWorker}]
  /\ topics      \subseteq Dispatches
  /\ topicFailed \subseteq Dispatches
  /\ ending      \subseteq Dispatches

AgentTypes ==
  /\ assigned    \subseteq Workers \X Dispatches
  /\ told        \subseteq Dispatches
  /\ finished    \subseteq Dispatches
  /\ terminating \subseteq Dispatches

TypeOK == RoomTypes /\ WorkerTypes /\ HandlerTypes /\ AgentTypes

\* The progress of a launch, of its request and of what the worker was sent:
\* a request exists from LookUp on, it has sent an assignment if and only if it
\* got past the wait for an answer, and then to its last target only.
RequestInv(d) ==
  /\ adder[d] # "done" => launch[d] = "none"
  /\ launch[d] \in {"none", "lookup"} => request[d] = "none"
  /\ launch[d] = "respond" => request[d] = "reply"
  /\ d \in jobs => launch[d] = "done" /\ request[d] = "reply"
  /\ launch[d] = "done" /\ d \notin jobs \cup rpcFailed => request[d] \in {"none", "failed"}
  /\ request[d] \in {"select", "await", "assigned", "running", "mapped"} /\ launch[d] = "done"
       => d \in rpcFailed
  /\ request[d] \in {"none", "select", "await", "failed"} =>
       \A w \in Workers : <<w, d>> \notin assigned
  /\ request[d] \in {"await", "assigned", "running", "mapped", "reply"} => target[d] \in Workers
  /\ request[d] \in {"assigned", "running", "mapped"} => <<target[d], d>> \in assigned
  /\ \A w \in Workers : <<w, d>> \in assigned => w = target[d]

\* A running job is the target's, and the target did connect.
RunningInv(d) ==
  /\ \A w \in Workers : target[d] = w => worker[w] # "new"
  /\ \A w \in Workers : d \in running[w] =>
       w = target[d] /\ request[d] \in {"running", "mapped", "reply"}

\* Unless its worker is gone or has reported its end, the handler knows the
\* worker of a running job once it is mapped, and has its topic once it replied,
\* if it could be registered.
KnownInv(d) ==
  /\ d \in ending => d \in finished
  /\ \A w \in Workers : worker[w] = "registered" /\ d \in running[w] /\ d \notin finished =>
       /\ request[d] \in {"mapped", "reply"} => jobToWorker[d] = w
       /\ request[d] = "reply" => d \in topics \cup topicFailed

\* An agent that was told to end, or has left, is on its way out of the room.
AgentInv(d) ==
  /\ d \in dispatches => adder[d] # "none" /\ deleter[d] = "none"
  /\ adder[d] = "none" => deleter[d] = "none"
  /\ d \in told /\ d \in inRoom => deleter[d] \in {"sent", "remove"} \/ d \in rpcFailed
  /\ d \in leaving => d \notin inRoom /\ d \in told \cup finished
  /\ d \in inRoom => d \notin finished \/ d \in told
  /\ deleter[d] \in {"sent", "remove"} => d \in told

\* The inductive invariant.
DispatchInv ==
  /\ TypeOK
  /\ \A d \in Dispatches : RequestInv(d) /\ RunningInv(d)
  /\ \A d \in Dispatches : KnownInv(d) /\ AgentInv(d)

\* A job is assigned to at most one worker, although JobRequest goes from
\* worker to worker and answers may be late (AssignJob, JobRequest).
AtMostOneAssignment ==
  \A d \in Dispatches : \A v, w \in Workers :
    <<v, d>> \in assigned /\ <<w, d>> \in assigned => v = w

\* When a launch ends without a job, and not because the RPC failed at the
\* caller, no worker was given the job: the room knows of every agent that may
\* come (LaunchJob, JobRequest).
NoOrphanAgent ==
  \A d \in Dispatches :
    launch[d] = "done" /\ d \notin jobs \cup rpcFailed =>
      \A w \in Workers : <<w, d>> \notin assigned

\* A job the room knows of, running on a connected worker and not over, is found
\* by a termination, whatever came between the locks of JobRequest (MapJob,
\* RegisterTopic) and those of the messages and disconnections of the workers it
\* tried.  Only a job whose topic failed to be registered has none: the code logs
\* that and replies as if it had (agentservice.go 412-415).
RunningIsTerminable ==
  \A d \in jobs \ finished : \A w \in Workers :
    worker[w] = "registered" /\ d \in running[w] =>
      jobToWorker[d] = w /\ d \in topics \cup topicFailed

\* DeleteAgentDispatch makes sure that an agent it terminated does not stay in
\* the room (jobs launched before the deletion, RPCs that did not fail).  A job
\* that its worker ends while the termination is on its way is one of those that
\* fail: TerminateJob returns the error of UpdateJobStatus, and the deletion goes
\* on without a look at the room (room.go 916-918).
DeleteRemovesAgent ==
  \A d \in Dispatches :
    deleter[d] = "done" /\ d \in (jobs \cap told) \ rpcFailed => d \notin inRoom

\* "ensure that all pending jobs are created before terminating jobs attached
\* to an agent dispatch" (room.go 173-175): when a deletion is over no job of
\* that dispatch is being launched.
NoLaunchAfterDelete ==
  \A d \in Dispatches : deleter[d] = "done" => ~Pending(d)

\* A deletion ends, and so does every launch it waits for, however the workers
\* behave.
DeleteEnds == \A d \in Dispatches : deleter[d] = "start" ~> deleter[d] = "done"
=============================================================================
