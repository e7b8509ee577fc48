------------------------------ MODULE MCAgents ------------------------------
(* The dispatch of an agent (AgentDispatch), and the queues that the       *)
(* callbacks of the node and the jobs of its agents go through (OpsQueue,  *)
(* IncrementalDispatcher).  Each leaves open what the others do, so they   *)
(* are explored one at a time.                                             *)
EXTENDS AgentDispatch, OpsQueue, IncrementalDispatcher

VARIABLE part  \* "dispatch", "queue" or "dispatcher"

\* Each part begins in its initial states and goes on alone; the others just stay as
\* they are while it is explored.
MCInit ==
  /\ Init /\ QueueInit /\ DispatcherInit
  /\ part \in {"dispatch", "queue", "dispatcher"}

MCNext ==
  /\ UNCHANGED part
  /\ \/ part = "dispatch" /\ Next /\ UNCHANGED <<queueVars, dispatcherVars>>
     \/ part = "queue" /\ QueueNext /\ UNCHANGED <<vars, dispatcherVars>>
     \/ part = "dispatcher" /\ DispatcherNext /\ UNCHANGED <<vars, queueVars>>

\* Only the dispatch promises anything under fairness; where it stays as it is at first,
\* nothing that is fair can happen.
MCSpec == MCInit /\ [][MCNext]_<<part, vars, queueVars, dispatcherVars>> /\ Fairness

=============================================================================
