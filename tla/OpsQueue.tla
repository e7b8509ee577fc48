------------------------------ MODULE OpsQueue ------------------------------
(***************************************************************************)
(* The queue of operations that transports, participants, dynacast, stream *)
(* allocators and telemetry run their callbacks from                       *)
(* (pkg/utils/opsqueue.go).                                                *)
(*                                                                         *)
(* Anybody enqueues; one goroutine takes the operations one by one and     *)
(* runs them without the lock.  It sleeps on a channel of one place that   *)
(* is only sent to by the operation that finds the queue empty, and that   *)
(* Stop closes.  An operation is the number it is enqueued under.          *)
(***************************************************************************)
EXTENDS Integers, Sequences

CONSTANTS
  FlushOnStop,  \* OpsQueueParams.FlushOnStop
  MaxOps        \* bound: operations enqueued

VARIABLES
  ops,        \* the operations that wait
  wake,       \* whether the wake channel holds a token
  isStarted,
  isStopped,  \* and the wake channel is closed
  process,     \* process: "none", "sleep", "look", "run", "done" (doneChan is closed)
  current,    \* the operation that runs
  taken,      \* ghost: the operations that were accepted
  ran         \* ghost: the operations that have run, in that order

queueVars == <<ops, wake, isStarted, isStopped, process, current, taken, ran>>

QueueInit ==
  /\ ops = <<>> /\ wake = FALSE
  /\ isStarted = FALSE /\ isStopped = FALSE
  /\ process = "none" /\ current = 0
  /\ taken = 0 /\ ran = <<>>

Start ==
  /\ ~isStarted /\ isStarted' = TRUE
  /\ process' = "sleep"
  /\ UNCHANGED <<ops, wake, isStopped, current, taken, ran>>

Stop ==
  /\ ~isStopped /\ isStopped' = TRUE
  /\ UNCHANGED <<ops, wake, isStarted, process, current, taken, ran>>

\* Mutant: the length is looked at before the operation is in.
MutEnqueue ==
  /\ ~isStopped
  /\ taken < MaxOps /\ taken' = taken + 1
  /\ ops' = Append(ops, taken + 1)
  /\ wake' = (wake \/ Len(ops) = 1)
  /\ UNCHANGED <<isStarted, isStopped, process, current, ran>>

\* The first operation wakes the goroutine; a token that is there already will do.
Enqueue ==
  /\ ~isStopped
  /\ taken < MaxOps /\ taken' = taken + 1
  /\ ops' = Append(ops, taken + 1)
  /\ wake' = (wake \/ Len(ops') = 1)
  /\ UNCHANGED <<isStarted, isStopped, process, current, ran>>

\* process receives a token, or that the channel is closed.
Wake ==
  /\ wake \/ isStopped
  /\ process = "sleep" /\ process' = "look"
  /\ wake' = FALSE
  /\ UNCHANGED <<ops, isStarted, isStopped, current, taken, ran>>

\* It ends when it is stopped, and has flushed what it is to flush,
End ==
  /\ process = "look" /\ isStopped /\ (~FlushOnStop \/ ops = <<>>)
  /\ process' = "done"
  /\ UNCHANGED <<ops, wake, isStarted, isStopped, current, taken, ran>>

\* sleeps when there is nothing to do,
Sleep ==
  /\ process = "look" /\ ~isStopped /\ ops = <<>>
  /\ process' = "sleep"
  /\ UNCHANGED <<ops, wake, isStarted, isStopped, current, taken, ran>>

\* and else takes the first operation
Take ==
  /\ process = "look" /\ (~isStopped \/ FlushOnStop) /\ ops # <<>>
  /\ current' = Head(ops) /\ ops' = Tail(ops)
  /\ process' = "run"
  /\ UNCHANGED <<wake, isStarted, isStopped, taken, ran>>

\* and runs it.
Run ==
  /\ process = "run" /\ process' = "look"
  /\ ran' = Append(ran, current) /\ current' = 0
  /\ UNCHANGED <<ops, wake, isStarted, isStopped, taken>>

QueueNext == Start \/ Stop \/ Enqueue \/ Wake \/ End \/ Sleep \/ Take \/ Run

QueueSpec == QueueInit /\ [][QueueNext]_queueVars

----------------------------------------------------------------------------
Running == IF process = "run" THEN <<current>> ELSE <<>>

\* Safety.  What has run, runs and waits is what was accepted, each once and in the
\* order it came, whatever was enqueued while another operation ran.
InOrder ==
  LET all == ran \o Running \o ops IN
  Len(all) = taken /\ \A i \in 1..taken : all[i] = i

\* Safety.  The goroutine does not sleep on operations that wait: the token of the
\* one that found the queue empty is still there, or the channel is closed.
ProcessWakes == process = "sleep" /\ ops # <<>> => wake \/ isStopped

\* Safety.  After doneChan is closed nothing is left of a queue that flushes.
Flushed == process = "done" /\ FlushOnStop => Len(ran) = taken

QueueKeeps == InOrder /\ ProcessWakes /\ Flushed

=============================================================================
