----------------------------- MODULE SignalRelay -----------------------------
(***************************************************************************)
(* The signalling relay of the LiveKit server (pkg/routing/signal.go,      *)
(* pkg/routing/messagechannel.go, pkg/service/signal.go): the node that    *)
(* holds a participant's WebSocket (the "client" end) and the node that    *)
(* hosts the room (the "media" end) exchange signal messages over one      *)
(* psrpc stream.  Requests go from client to media and responses go back.  *)
(*                                                                         *)
(* In each direction a signalMessageSink queues messages and one writer    *)
(* goroutine sends the whole queue in a packet that carries the sequence   *)
(* number of its first message; a send whose acknowledgement does not come *)
(* in time is retried, with whatever was queued meanwhile, until a         *)
(* deadline.  At the other end a copier goroutine skips what it has seen,  *)
(* stops at a gap, and puts the rest in a bounded MessageChannel.          *)
(*                                                                         *)
(* The stream is external (psrpc).  It is modelled from how signal.go uses *)
(* it: Send returns nil only if the packet reached the peer's receive      *)
(* buffer, an error says nothing about that, and a packet may be lost, be  *)
(* late or arrive again.                                                   *)
(***************************************************************************)
EXTENDS Integers, Sequences

CONSTANTS
  Directions,   \* the directions considered: "req", "res" or both
  MaxMsgs,      \* bound on the messages accepted in each direction
  ChanSize,     \* capacity of a MessageChannel (DefaultMessageChannelSize)
  StreamBuffer, \* capacity of a stream's receive buffer (StreamBufferSize)
  MaxTries      \* bound on the retries that fit before RetryTimeout

ASSUME BoundsAssumption ==
  /\ Directions \subseteq {"req", "res"}
  /\ MaxMsgs \in Nat
  /\ ChanSize \in Nat \ {0}
  /\ StreamBuffer \in Nat \ {0}
  /\ MaxTries \in Nat

Ends == {"client", "media"}

Src(d) == IF d = "req" THEN "client" ELSE "media"
Dst(d) == IF d = "req" THEN "media" ELSE "client"

\* The sink of requests is built with CloseOnFailure and BlockOnClose, the
\* sink of responses with neither.
CloseOnFailure(d) == d = "req"
BlockOnClose(d) == d = "req"

VARIABLES
  session,    \* "new", "started" (client end up), "relayed" (both), "failed"
  accepted,   \* per direction: messages taken by WriteMessage, numbered from 1
  seq,        \* sink: number of messages sent or given up before the queue
  queue,      \* sink: messages waiting to be sent
  draining,   \* sink: Close has been called
  blocked,    \* sink: a Close call is waiting for the stream to be done
  writer,     \* writer goroutine: "idle", "loop" (about to send), "send"
  sending,    \* the packet the writer is sending
  acked,      \* the peer's receive buffer has taken that packet
  tries,      \* failed sends since the last one that succeeded
  drained,    \* the writer ended because its close packet was acknowledged
  gaveUp,     \* the writer dropped its queue at the deadline at least once
  wire,       \* every packet handed to the network
  recv,       \* packets in the receive buffer of the stream
  copier,     \* copier: "idle", "run", "put", "closed" (by a close packet), "stop"
  rseq,       \* copier: next sequence number it expects
  rbuf,       \* copier: messages of the current packet not yet in the channel
  rclose,     \* copier: the current packet carries the close mark
  delivered,  \* messages put in the MessageChannel so far
  taken,      \* how many of those its reader has taken
  chanClosed, \* the MessageChannel is closed
  closed      \* per end: the stream is closed there (Stream.Err() # nil)

sinkVars   == <<accepted, seq, queue, draining, blocked>>
writerVars == <<writer, sending, acked, tries, drained, gaveUp>>
copierVars == <<copier, rseq, rbuf, rclose, delivered>>
vars == <<session, sinkVars, writerVars, wire, recv, copierVars, taken,
          chanClosed, closed>>

Packet == [dir : Directions, seq : Nat, msgs : Seq(Nat), close : BOOLEAN]

NoPacket(d) == [dir |-> d, seq |-> 0, msgs |-> <<>>, close |-> FALSE]

Init ==
  /\ session    = "new"
  /\ accepted   = [d \in Directions |-> 0]
  /\ seq        = [d \in Directions |-> 0]
  /\ queue      = [d \in Directions |-> <<>>]
  /\ draining   = [d \in Directions |-> FALSE]
  /\ blocked    = [d \in Directions |-> FALSE]
  /\ writer     = [d \in Directions |-> "idle"]
  /\ sending    = [d \in Directions |-> NoPacket(d)]
  /\ acked      = [d \in Directions |-> FALSE]
  /\ tries      = [d \in Directions |-> 0]
  /\ drained    = [d \in Directions |-> FALSE]
  /\ gaveUp     = [d \in Directions |-> FALSE]
  /\ wire       = {}
  /\ recv       = [d \in Directions |-> <<>>]
  /\ copier     = [d \in Directions |-> "idle"]
  /\ rseq       = [d \in Directions |-> 0]
  /\ rbuf       = [d \in Directions |-> <<>>]
  /\ rclose     = [d \in Directions |-> FALSE]
  /\ delivered  = [d \in Directions |-> <<>>]
  /\ taken      = [d \in Directions |-> 0]
  /\ chanClosed = [d \in Directions |-> FALSE]
  /\ closed     = [e \in Ends |-> FALSE]

-----------------------------------------------------------------------------
(* Setting the session up.                                                 *)

\* End e starts copying what arrives from the stream to its MessageChannel.
StartCopiers(e) ==
  [d \in Directions |-> IF Dst(d) = e THEN "run" ELSE copier[d]]

\* StartParticipantSignal: the start-session packet is sent outside the
\* numbered flow.  When it is acknowledged the client end gets its sink and
\* its copier of responses; when it is not, the stream is closed.
StartParticipantSignal ==
  /\ session = "new"
  /\ \/ /\ session' = "started"
        /\ copier' = StartCopiers("client")
        /\ UNCHANGED closed
     \/ /\ session' = "failed"
        /\ closed' = [closed EXCEPT !["client"] = TRUE]
        /\ UNCHANGED copier
  /\ UNCHANGED <<sinkVars, writerVars, wire, recv, rseq, rbuf, rclose,
                 delivered, taken, chanClosed>>

\* RelaySignal at the media end: takes the start-session packet, creates the
\* response sink and starts the copier of requests.  What HandleSession then
\* does (write responses, or fail and Close the sink) are later steps.
RelaySignal ==
  /\ session = "started"
  /\ session' = "relayed"
  /\ copier' = StartCopiers("media")
  /\ UNCHANGED <<sinkVars, writerVars, wire, recv, rseq, rbuf, rclose,
                 delivered, taken, chanClosed, closed>>

\* The sink of direction d exists.
SinkUp(d) == IF d = "req" THEN session \in {"started", "relayed"}
                          ELSE session = "relayed"

-----------------------------------------------------------------------------
(* signalMessageSink.                                                      *)

\* go s.write() unless the writer is already running.
WakeWriter(d) ==
  /\ writer' = [writer EXCEPT ![d] = IF @ = "idle" THEN "loop" ELSE @]
  /\ tries' = [tries EXCEPT ![d] = IF writer[d] = "idle" THEN 0 ELSE @]

\* WriteMessage: refused once the stream is closed or the sink draining.
WriteMessage(d) ==
  /\ SinkUp(d)
  /\ ~closed[Src(d)]
  /\ ~draining[d]
  /\ accepted[d] < MaxMsgs
  /\ accepted' = [accepted EXCEPT ![d] = @ + 1]
  /\ queue' = [queue EXCEPT ![d] = Append(@, accepted[d] + 1)]
  /\ WakeWriter(d)
  /\ UNCHANGED <<session, seq, draining, blocked, sending, acked, drained,
                 gaveUp, wire, recv, copierVars, taken, chanClosed, closed>>

\* Close: starts draining; the sink of requests then waits for the stream.
CloseSink(d) ==
  /\ SinkUp(d)
  /\ draining' = [draining EXCEPT ![d] = TRUE]
  /\ blocked' = [blocked EXCEPT ![d] = BlockOnClose(d)]
  /\ WakeWriter(d)
  /\ UNCHANGED <<session, accepted, seq, queue, sending, acked, drained,
                 gaveUp, wire, recv, copierVars, taken, chanClosed, closed>>

\* The blocked Close call returns when the stream's context is done.
CloseReturns(d) ==
  /\ blocked[d]
  /\ closed[Src(d)]
  /\ blocked' = [blocked EXCEPT ![d] = FALSE]
  /\ UNCHANGED <<session, accepted, seq, queue, draining, writerVars, wire,
                 recv, copierVars, taken, chanClosed, closed>>

\* Mutant: the stream stays open.
MutWriterExitOpen(d, closeStream) ==
  writer' = [writer EXCEPT ![d] = "idle"] /\ UNCHANGED closed

\* The writer leaves its loop: a draining sink closes the stream.
WriterExit(d, closeStream) ==
  /\ writer' = [writer EXCEPT ![d] = "idle"]
  /\ closed' = [closed EXCEPT ![Src(d)] = @ \/ closeStream]

\* Top of the loop in write(): nothing to do, or the stream is gone.
WriteNothing(d) ==
  /\ writer[d] = "loop"
  /\ (~draining[d] /\ queue[d] = <<>>) \/ closed[Src(d)]
  /\ WriterExit(d, draining[d])
  /\ UNCHANGED <<session, sinkVars, sending, acked, tries, drained, gaveUp,
                 wire, recv, copierVars, taken, chanClosed>>

\* Top of the loop in write(): the whole queue goes out in one packet and
\* the lock is released while it is being sent.
WriteSend(d) ==
  LET p == [dir |-> d, seq |-> seq[d], msgs |-> queue[d], close |-> draining[d]]
  IN
  /\ writer[d] = "loop"
  /\ draining[d] \/ queue[d] # <<>>
  /\ ~closed[Src(d)]
  /\ writer' = [writer EXCEPT ![d] = "send"]
  /\ sending' = [sending EXCEPT ![d] = p]
  /\ acked' = [acked EXCEPT ![d] = FALSE]
  /\ wire' = wire \cup {p}
  /\ UNCHANGED <<session, sinkVars, tries, drained, gaveUp, recv, copierVars,
                 taken, chanClosed, closed>>

\* Send returned nil: what was sent leaves the queue, and a packet with the
\* close mark is the last one.
SendOk(d) ==
  LET n == Len(sending[d].msgs) IN
  /\ writer[d] = "send"
  /\ acked[d]
  /\ seq' = [seq EXCEPT ![d] = @ + n]
  /\ queue' = [queue EXCEPT ![d] = SubSeq(@, n + 1, Len(@))]
  /\ tries' = [tries EXCEPT ![d] = 0]
  /\ IF sending[d].close
       THEN /\ WriterExit(d, draining[d])
            /\ drained' = [drained EXCEPT ![d] = TRUE]
       ELSE /\ writer' = [writer EXCEPT ![d] = "loop"]
            /\ UNCHANGED <<closed, drained>>
  /\ UNCHANGED <<session, accepted, draining, blocked, sending, acked,
                 gaveUp, wire, recv, copierVars, taken, chanClosed>>

\* Send failed before the deadline: the loop sends the queue again.
SendRetry(d) ==
  /\ writer[d] = "send"
  /\ tries[d] < MaxTries
  /\ tries' = [tries EXCEPT ![d] = @ + 1]
  /\ writer' = [writer EXCEPT ![d] = "loop"]
  /\ UNCHANGED <<session, sinkVars, sending, acked, drained, gaveUp, wire,
                 recv, copierVars, taken, chanClosed, closed>>

\* Mutant: the numbers of the dropped messages are used again.
MutSendGiveUpKeepsSeq(d) ==
  /\ writer[d] = "send"
  /\ queue' = [queue EXCEPT ![d] = <<>>]
  /\ gaveUp' = [gaveUp EXCEPT ![d] = TRUE]
  /\ WriterExit(d, draining[d] \/ CloseOnFailure(d))
  /\ UNCHANGED <<session, accepted, seq, draining, blocked, sending, acked,
                 tries, drained, wire, recv, copierVars, taken, chanClosed>>

\* Send failed past the deadline: the queue is dropped but its numbers are
\* used up, so that the peer can tell.
SendGiveUp(d) ==
  /\ writer[d] = "send"
  /\ seq' = [seq EXCEPT ![d] = @ + Len(queue[d])]
  /\ queue' = [queue EXCEPT ![d] = <<>>]
  /\ gaveUp' = [gaveUp EXCEPT ![d] = TRUE]
  /\ WriterExit(d, draining[d] \/ CloseOnFailure(d))
  /\ UNCHANGED <<session, accepted, draining, blocked, sending, acked, tries,
                 drained, wire, recv, copierVars, taken, chanClosed>>

-----------------------------------------------------------------------------
(* The stream (external).                                                  *)

\* A packet reaches the peer's receive buffer, which acknowledges it.  A full
\* buffer drops the packet without acknowledging it.
DeliverPacket(p) ==
  LET d == p.dir IN
  /\ p \in wire
  /\ ~closed[Dst(d)]
  /\ Len(recv[d]) < StreamBuffer
  /\ recv' = [recv EXCEPT ![d] = Append(@, p)]
  /\ acked' = [acked EXCEPT ![d] = @ \/ (writer[d] = "send" /\ sending[d] = p)]
  /\ UNCHANGED <<session, sinkVars, writer, sending, tries, drained, gaveUp,
                 wire, copierVars, taken, chanClosed, closed>>

\* An end closes because the other end has, or because its context is
\* cancelled or its server killed.
StreamCloses(e) ==
  /\ session # "new"
  /\ ~closed[e]
  /\ closed' = [closed EXCEPT ![e] = TRUE]
  /\ UNCHANGED <<session, sinkVars, writerVars, wire, recv, copierVars, taken,
                 chanClosed>>

-----------------------------------------------------------------------------
(* CopySignalStreamToMessageChannel and signalMessageReader.Read.          *)

\* Mutant: the number of messages already read is off by one.
MutFreshSkipsOne(p, n) == SubSeq(p.msgs, n - p.seq + 2, Len(p.msgs))

\* Mutant: what was already read is not skipped.
MutFreshRepeats(p, n) == p.msgs

\* What a packet holds beyond the messages already read.
Fresh(p, n) ==
  LET seen == IF n - p.seq > Len(p.msgs) THEN Len(p.msgs) ELSE n - p.seq
  IN  SubSeq(p.msgs, seen + 1, Len(p.msgs))

\* The copier returns and its goroutine closes the MessageChannel.
CopierEnds(d, how) ==
  /\ copier' = [copier EXCEPT ![d] = how]
  /\ chanClosed' = [chanClosed EXCEPT ![d] = TRUE]

\* ErrSignalMessageDropped: the packet starts past the expected number.
ReadGap(d) ==
  /\ copier[d] = "run"
  /\ recv[d] # <<>>
  /\ rseq[d] < Head(recv[d]).seq
  /\ recv' = [recv EXCEPT ![d] = Tail(@)]
  /\ CopierEnds(d, "stop")
  /\ UNCHANGED <<session, sinkVars, writerVars, wire, rseq, rbuf, rclose,
                 delivered, taken, closed>>

\* Read: skip what has been seen and hand the rest to the channel.
ReadPacket(d) ==
  LET p == Head(recv[d])
      new == Fresh(p, rseq[d])
  IN
  /\ copier[d] = "run"
  /\ recv[d] # <<>>
  /\ rseq[d] >= p.seq
  /\ recv' = [recv EXCEPT ![d] = Tail(@)]
  /\ rbuf' = [rbuf EXCEPT ![d] = new]
  /\ rseq' = [rseq EXCEPT ![d] = @ + Len(new)]
  /\ rclose' = [rclose EXCEPT ![d] = p.close]
  /\ copier' = [copier EXCEPT ![d] = "put"]
  /\ UNCHANGED <<session, sinkVars, writerVars, wire, delivered, taken,
                 chanClosed, closed>>

\* The channel has room.
CanPut(d) == ~chanClosed[d] /\ Len(delivered[d]) - taken[d] < ChanSize

\* MessageChannel.WriteMessage succeeds.
PutMessage(d) ==
  /\ copier[d] = "put"
  /\ rbuf[d] # <<>>
  /\ CanPut(d)
  /\ delivered' = [delivered EXCEPT ![d] = Append(@, Head(rbuf[d]))]
  /\ rbuf' = [rbuf EXCEPT ![d] = Tail(@)]
  /\ UNCHANGED <<session, sinkVars, writerVars, wire, recv, copier, rseq,
                 rclose, taken, chanClosed, closed>>

\* MessageChannel.WriteMessage fails: the channel is full or was closed.
PutFails(d) ==
  /\ copier[d] = "put"
  /\ rbuf[d] # <<>>
  /\ ~CanPut(d)
  /\ CopierEnds(d, "stop")
  /\ UNCHANGED <<session, sinkVars, writerVars, wire, recv, rseq, rbuf, rclose,
                 delivered, taken, closed>>

\* The packet is done: back to the stream, or close it on the close mark.
PacketDone(d) ==
  /\ copier[d] = "put"
  /\ rbuf[d] = <<>>
  /\ IF rclose[d]
       THEN /\ CopierEnds(d, "closed")
            /\ closed' = [closed EXCEPT ![Dst(d)] = TRUE]
       ELSE /\ copier' = [copier EXCEPT ![d] = "run"]
            /\ UNCHANGED <<chanClosed, closed>>
  /\ UNCHANGED <<session, sinkVars, writerVars, wire, recv, rseq, rbuf, rclose,
                 delivered, taken>>

\* The stream's channel is closed and empty.
ReadEnd(d) ==
  /\ copier[d] = "run"
  /\ recv[d] = <<>>
  /\ closed[Dst(d)]
  /\ CopierEnds(d, "stop")
  /\ UNCHANGED <<session, sinkVars, writerVars, wire, recv, rseq, rbuf, rclose,
                 delivered, taken, closed>>

\* The reader of the MessageChannel takes a message.
TakeMessage(d) ==
  /\ taken[d] < Len(delivered[d])
  /\ taken' = [taken EXCEPT ![d] = @ + 1]
  /\ UNCHANGED <<session, sinkVars, writerVars, wire, recv, copierVars,
                 chanClosed, closed>>

\* The reader closes its source (the WebSocket is gone).
CloseSource(d) ==
  /\ copier[d] # "idle"
  /\ ~chanClosed[d]
  /\ chanClosed' = [chanClosed EXCEPT ![d] = TRUE]
  /\ UNCHANGED <<session, sinkVars, writerVars, wire, recv, copierVars, taken,
                 closed>>

-----------------------------------------------------------------------------
WriterStep(d) == WriteNothing(d) \/ WriteSend(d) \/ SendOk(d) \/ SendRetry(d)
            \/ SendGiveUp(d)

Next ==
  \/ StartParticipantSignal
  \/ RelaySignal
  \/ \E d \in Directions : WriteMessage(d)
  \/ \E d \in Directions : CloseSink(d)
  \/ \E d \in Directions : CloseReturns(d)
  \/ \E d \in Directions : WriteNothing(d)
  \/ \E d \in Directions : WriteSend(d)
  \/ \E d \in Directions : SendOk(d)
  \/ \E d \in Directions : SendRetry(d)
  \/ \E d \in Directions : SendGiveUp(d)
  \/ \E p \in wire : DeliverPacket(p)
  \/ \E e \in Ends : StreamCloses(e)
  \/ \E d \in Directions : ReadGap(d)
  \/ \E d \in Directions : ReadPacket(d)
  \/ \E d \in Directions : PutMessage(d)
  \/ \E d \in Directions : PutFails(d)
  \/ \E d \in Directions : PacketDone(d)
  \/ \E d \in Directions : ReadEnd(d)
  \/ \E d \in Directions : TakeMessage(d)
  \/ \E d \in Directions : CloseSource(d)

\* The goroutines run: the writer (whose Send returns by its timeout), and a
\* Close call that may return.
Fairness == \A d \in Directions : WF_vars(WriterStep(d)) /\ WF_vars(CloseReturns(d))

Spec == Init /\ [][Next]_vars

FairSpec == Spec /\ Fairness

-----------------------------------------------------------------------------
(* Invariants.                                                             *)

\* Types of all variables, one part per actor.
SinkTypes ==
  /\ accepted   \in [Directions -> Nat]
  /\ seq        \in [Directions -> Nat]
  /\ queue      \in [Directions -> Seq(Nat)]
  /\ draining   \in [Directions -> BOOLEAN]
  /\ blocked    \in [Directions -> BOOLEAN]

WriterTypes ==
  /\ writer     \in [Directions -> {"idle", "loop", "send"}]
  /\ sending    \in [Directions -> Packet]
  /\ acked      \in [Directions -> BOOLEAN]
  /\ tries      \in [Directions -> Nat]
  /\ drained    \in [Directions -> BOOLEAN]
  /\ gaveUp     \in [Directions -> BOOLEAN]

CopierTypes ==
  /\ copier     \in [Directions -> {"idle", "run", "put", "closed", "stop"}]
  /\ rseq       \in [Directions -> Nat]
  /\ rbuf       \in [Directions -> Seq(Nat)]
  /\ rclose     \in [Directions -> BOOLEAN]
  /\ delivered  \in [Directions -> Seq(Nat)]

StreamTypes ==
  /\ session    \in {"new", "started", "relayed", "failed"}
  /\ wire       \subseteq Packet
  /\ recv       \in [Directions -> Seq(Packet)]
  /\ taken      \in [Directions -> Nat]
  /\ chanClosed \in [Directions -> BOOLEAN]
  /\ closed     \in [Ends -> BOOLEAN]

TypeOK == SinkTypes /\ WriterTypes /\ CopierTypes /\ StreamTypes

\* s holds the consecutive messages that follow message number n.
Consecutive(s, n) == \A i \in 1..Len(s) : s[i] = n + i

\* The queue holds exactly the accepted messages past seq, in order.
QueueInv(d) ==
  /\ seq[d] + Len(queue[d]) = accepted[d]
  /\ Consecutive(queue[d], seq[d])

\* A packet carries consecutive accepted messages from its sequence number
\* on; one with the close mark carries the last that will ever be accepted.
PacketInv(p) ==
  /\ p.seq + Len(p.msgs) <= accepted[p.dir]
  /\ Consecutive(p.msgs, p.seq)
  /\ p.close => draining[p.dir] /\ p.seq + Len(p.msgs) = accepted[p.dir]

\* While a packet is being sent the queue still starts with its messages.
SendInv(d) ==
  writer[d] = "send" =>
    /\ sending[d] \in wire
    /\ sending[d].dir = d
    /\ sending[d].seq = seq[d]
    /\ Len(sending[d].msgs) <= Len(queue[d])

RecvInv(d) == \A i \in 1..Len(recv[d]) : recv[d][i] \in wire /\ recv[d][i].dir = d

\* A copier runs only once its end of the stream is set up.
SessionInv(d) ==
  /\ session \in {"new", "failed"} => copier[d] = "idle"
  /\ session = "started" /\ Dst(d) = "media" => copier[d] = "idle"

\* The reader's sequence number accounts for what was delivered and what the
\* copier holds.
CopierInv(d) ==
  /\ Consecutive(delivered[d], 0)
  /\ Consecutive(rbuf[d], Len(delivered[d]))
  /\ rseq[d] = Len(delivered[d]) + Len(rbuf[d])
  /\ rseq[d] <= accepted[d]
  /\ copier[d] \in {"idle", "run", "closed"} => rbuf[d] = <<>>
  /\ copier[d] = "put" /\ rclose[d] => draining[d] /\ rseq[d] = accepted[d]
  /\ copier[d] = "closed" => draining[d] /\ rseq[d] = accepted[d]

\* The close packet is where the peer's copier will find it, or was found.
CloseArrived(d) ==
  \/ copier[d] = "stop"
  \/ rseq[d] = accepted[d]
  \/ \E i \in 1..Len(recv[d]) : recv[d][i].close

DrainInv(d) ==
  /\ writer[d] = "send" /\ acked[d] /\ sending[d].close => CloseArrived(d)
  /\ drained[d] => draining[d] /\ CloseArrived(d)

\* The inductive invariant.
RelayInv ==
  /\ TypeOK
  /\ \A p \in wire : PacketInv(p)
  /\ \A d \in Directions : QueueInv(d) /\ SendInv(d) /\ RecvInv(d)
  /\ \A d \in Directions : SessionInv(d) /\ CopierInv(d) /\ DrainInv(d)

\* Messages come out of the relay once each and in the order they went in,
\* with none missing before the last that did, whatever is retried after a
\* timeout, arrives late or arrives twice (write, Read).
DeliveredInOrder ==
  \A d \in Directions :
    /\ Len(delivered[d]) <= accepted[d]
    /\ Consecutive(delivered[d], 0)

\* A copier that closes its stream because of a close mark has put every
\* message that was ever accepted in the channel: closing a sink loses nothing
\* unless the stream fails (signal.go 218-220).
CloseMeansComplete ==
  \A d \in Directions :
    copier[d] = "closed" => Len(delivered[d]) = accepted[d]

\* When the writer ended on an acknowledged close packet, the Close call did
\* what its comment is about (leave messages are not dropped from the queue):
\* unless the peer's copier stopped early, all messages are with it.
DrainedReachesPeer ==
  \A d \in Directions :
    drained[d] /\ copier[d] # "stop" =>
      \/ rseq[d] = accepted[d]
      \/ \E i \in 1..Len(recv[d]) :
           recv[d][i].seq + Len(recv[d][i].msgs) = accepted[d]

-----------------------------------------------------------------------------
(* Temporal properties.                                                    *)

\* Close of the request sink, which blocks the caller until the stream is
\* done, always returns: the writer drains, or gives up and closes.
CloseUnblocks == \A d \in Directions : blocked[d] ~> ~blocked[d]

Channel ==
  INSTANCE SignalChannel WITH Directions <- Directions,
                              accepted <- accepted, delivered <- delivered

\* Each direction behaves as an ordered exactly-once channel.
ImplementsChannel == Channel!Spec
=============================================================================
