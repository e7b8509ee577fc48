-------------------------- MODULE SignalRelayProofs --------------------------
(***************************************************************************)
(* Proofs about SignalRelay, for every set of directions, message bound,   *)
(* buffer capacity and number of retries: the inductive invariant RelayInv *)
(* holds, hence messages are delivered in order and exactly once, a close  *)
(* mark means that everything was delivered, and the relay implements the  *)
(* abstract SignalChannel.                                                 *)
(***************************************************************************)
EXTENDS SignalRelay, SequenceTheorems, TLAPS

-----------------------------------------------------------------------------
(* Lemmas about sequences of consecutive messages.                         *)

\* Appending the next number keeps a sequence consecutive.
LEMMA ConsecutiveAppend ==
  ASSUME NEW s \in Seq(Nat), NEW n \in Nat, NEW m \in Nat,
         Consecutive(s, n), m = n + Len(s) + 1
  PROVE  Consecutive(Append(s, m), n)
  BY AppendProperties DEF Consecutive

\* Dropping the first k messages moves the start by k.
LEMMA ConsecutiveDrop ==
  ASSUME NEW s \in Seq(Nat), NEW n \in Nat, NEW k \in 0..Len(s),
         Consecutive(s, n)
  PROVE  /\ SubSeq(s, k + 1, Len(s)) \in Seq(Nat)
         /\ Len(SubSeq(s, k + 1, Len(s))) = Len(s) - k
         /\ Consecutive(SubSeq(s, k + 1, Len(s)), n + k)
<1> DEFINE t == SubSeq(s, k + 1, Len(s))
<1>1. Len(s) \in Nat /\ \A i \in 1..Len(s) : s[i] \in Nat
  BY LenProperties, ElementOfSeq
<1>2. t \in Seq(Nat) /\ Len(t) = Len(s) - k
      /\ \A i \in 1..(Len(s) - k) : t[i] = s[k + i]
  <2>1. \A i \in (k + 1)..Len(s) : s[i] \in Nat
    BY <1>1
  <2>2. /\ t \in Seq(Nat)
        /\ Len(t) = IF k + 1 <= Len(s) THEN Len(s) - (k + 1) + 1 ELSE 0
        /\ \A i \in 1..(Len(s) - (k + 1) + 1) : t[i] = s[(k + 1) + i - 1]
    BY <1>1, <2>1, SubSeqProperties, k + 1 \in Int, Len(s) \in Int
  <2> QED
    BY <1>1, <2>2
<1>3. Consecutive(t, n + k)
  BY <1>1, <1>2 DEF Consecutive
<1> QED
  BY <1>2, <1>3

\* Taking the head off a consecutive sequence.
LEMMA ConsecutiveTail ==
  ASSUME NEW s \in Seq(Nat), NEW n \in Nat, s # <<>>, Consecutive(s, n)
  PROVE  /\ Head(s) = n + 1
         /\ Tail(s) \in Seq(Nat)
         /\ Len(Tail(s)) = Len(s) - 1
         /\ Consecutive(Tail(s), n + 1)
<1>1. Len(s) \in Nat \ {0} /\ Head(s) = s[1]
  BY EmptySeq, LenProperties
<1> QED
  BY <1>1, HeadTailProperties DEF Consecutive

\* What Read keeps of a packet p when n messages were read before: the
\* messages from n on, none if the packet ends before.
LEMMA FreshProperties ==
  ASSUME NEW p \in Packet, NEW n \in Nat, p.seq <= n, Consecutive(p.msgs, p.seq)
  PROVE  /\ Fresh(p, n) \in Seq(Nat)
         /\ Len(Fresh(p, n)) = IF p.seq + Len(p.msgs) > n
                                 THEN p.seq + Len(p.msgs) - n ELSE 0
         /\ Consecutive(Fresh(p, n), n)
<1> DEFINE len == Len(p.msgs)
           k == IF n - p.seq > len THEN len ELSE n - p.seq
<1>1. p.msgs \in Seq(Nat) /\ p.seq \in Nat /\ len \in Nat
  BY LenProperties DEF Packet
<1>2. k \in 0..len
  BY <1>1
<1>3. /\ Fresh(p, n) \in Seq(Nat)
      /\ Len(Fresh(p, n)) = len - k
      /\ Consecutive(Fresh(p, n), p.seq + k)
  BY <1>1, <1>2, ConsecutiveDrop DEF Fresh
<1>4. CASE n - p.seq > len
  BY <1>1, <1>3, <1>4 DEF Consecutive
<1>5. CASE ~(n - p.seq > len)
  BY <1>1, <1>3, <1>5
<1> QED
  BY <1>4, <1>5

-----------------------------------------------------------------------------
(* Types.                                                                  *)

LEMMA InitTypeOK == Init => TypeOK
<1> SUFFICES ASSUME Init PROVE TypeOK
  OBVIOUS
<1>1. <<>> \in Seq(Nat) /\ <<>> \in Seq(Packet)
  BY EmptySeq
<1>2. \A d \in Directions : NoPacket(d) \in Packet
  BY <1>1 DEF NoPacket, Packet
<1>3. SinkTypes
  BY <1>1 DEF Init, SinkTypes
<1>4. WriterTypes
  BY <1>2 DEF Init, WriterTypes
<1>5. CopierTypes
  BY <1>1 DEF Init, CopierTypes
<1>6. StreamTypes
  BY <1>1 DEF Init, StreamTypes
<1> QED
  BY <1>3, <1>4, <1>5, <1>6 DEF TypeOK

\* Only WriteMessage, CloseSink, CloseReturns, SendOk and SendGiveUp touch
\* the sink.
LEMMA SinkTypesStep ==
  ASSUME TypeOK, [Next]_vars
  PROVE  SinkTypes'
<1> USE DEF SinkTypes
<1>0. SinkTypes /\ WriterTypes
  BY DEF TypeOK
<1>1. ASSUME UNCHANGED sinkVars
      PROVE  SinkTypes'
  BY <1>0, <1>1 DEF sinkVars
<1>2. ASSUME NEW d \in Directions, WriteMessage(d)
      PROVE  SinkTypes'
  <2>1. Append(queue[d], accepted[d] + 1) \in Seq(Nat)
    BY <1>0, AppendProperties
  <2> QED
    BY <1>0, <1>2, <2>1 DEF WriteMessage
<1>3. ASSUME NEW d \in Directions, CloseSink(d)
      PROVE  SinkTypes'
  BY <1>0, <1>3 DEF CloseSink, BlockOnClose
<1>4. ASSUME NEW d \in Directions, CloseReturns(d)
      PROVE  SinkTypes'
  BY <1>0, <1>4 DEF CloseReturns
<1>5. ASSUME NEW d \in Directions, SendOk(d)
      PROVE  SinkTypes'
  <2> DEFINE n == Len(sending[d].msgs)
  <2>1. n \in Nat
    BY <1>0, LenProperties DEF WriterTypes, Packet
  <2>2. SubSeq(queue[d], n + 1, Len(queue[d])) \in Seq(Nat)
    <3>1. Len(queue[d]) \in Nat /\ \A i \in 1..Len(queue[d]) : queue[d][i] \in Nat
      BY <1>0, LenProperties, ElementOfSeq
    <3> QED
      BY <2>1, <3>1, SubSeqProperties
  <2>3. /\ seq' = [seq EXCEPT ![d] = @ + n]
        /\ queue' = [queue EXCEPT ![d] = SubSeq(@, n + 1, Len(@))]
        /\ UNCHANGED <<accepted, draining, blocked>>
    BY <1>5 DEF SendOk
  <2> HIDE DEF n
  <2> QED
    BY <1>0, <2>1, <2>2, <2>3
<1>6. ASSUME NEW d \in Directions, SendGiveUp(d)
      PROVE  SinkTypes'
  <2>1. Len(queue[d]) \in Nat /\ <<>> \in Seq(Nat)
    BY <1>0, LenProperties, EmptySeq
  <2> QED
    BY <1>0, <1>6, <2>1 DEF SendGiveUp
<1>7. CASE UNCHANGED vars
  BY <1>1, <1>7 DEF vars
<1> QED
  BY <1>1, <1>2, <1>3, <1>4, <1>5, <1>6, <1>7
     DEF Next, StartParticipantSignal, RelaySignal, WriteNothing, WriteSend,
         SendRetry, DeliverPacket, StreamCloses, ReadGap, ReadPacket,
         PutMessage, PutFails, PacketDone, ReadEnd, TakeMessage, CloseSource

\* The steps of the writer, those that wake it, and the acknowledgement of a
\* packet touch the writer.
LEMMA WriterTypesStep ==
  ASSUME TypeOK, [Next]_vars
  PROVE  WriterTypes'
<1> USE DEF WriterTypes
<1>0. SinkTypes /\ WriterTypes /\ StreamTypes
  BY DEF TypeOK
<1>1. ASSUME UNCHANGED writerVars
      PROVE  WriterTypes'
  BY <1>0, <1>1 DEF writerVars
<1>2. ASSUME NEW d \in Directions, WakeWriter(d),
             UNCHANGED <<sending, acked, drained, gaveUp>>
      PROVE  WriterTypes'
  BY <1>0, <1>2 DEF WakeWriter
<1>3. ASSUME NEW d \in Directions, WriteNothing(d)
      PROVE  WriterTypes'
  BY <1>0, <1>3 DEF WriteNothing, WriterExit
<1>4. ASSUME NEW d \in Directions, WriteSend(d)
      PROVE  WriterTypes'
  <2>1. [dir |-> d, seq |-> seq[d], msgs |-> queue[d], close |-> draining[d]]
          \in Packet
    BY <1>0 DEF Packet, SinkTypes
  <2> QED
    BY <1>0, <1>4, <2>1 DEF WriteSend
<1>5. ASSUME NEW d \in Directions, SendOk(d)
      PROVE  WriterTypes'
  BY <1>0, <1>5 DEF SendOk, WriterExit
<1>6. ASSUME NEW d \in Directions, SendRetry(d)
      PROVE  WriterTypes'
  BY <1>0, <1>6 DEF SendRetry
<1>7. ASSUME NEW d \in Directions, SendGiveUp(d)
      PROVE  WriterTypes'
  BY <1>0, <1>7 DEF SendGiveUp, WriterExit
<1>8. ASSUME NEW p \in wire, DeliverPacket(p)
      PROVE  WriterTypes'
  BY <1>0, <1>8 DEF DeliverPacket
<1>9. CASE UNCHANGED vars
  BY <1>1, <1>9 DEF vars
<1> QED
  BY <1>1, <1>2, <1>3, <1>4, <1>5, <1>6, <1>7, <1>8, <1>9
     DEF Next, StartParticipantSignal, RelaySignal, WriteMessage, CloseSink,
         CloseReturns, StreamCloses, ReadGap, ReadPacket, PutMessage,
         PutFails, PacketDone, ReadEnd, TakeMessage, CloseSource

\* The steps of the copier, and those that start it, touch the copier.
LEMMA CopierTypesStep ==
  ASSUME TypeOK, [Next]_vars
  PROVE  CopierTypes'
<1> USE DEF CopierTypes
<1>0. CopierTypes /\ StreamTypes
  BY DEF TypeOK
<1>1. ASSUME UNCHANGED copierVars
      PROVE  CopierTypes'
  BY <1>0, <1>1 DEF copierVars
<1>2. ASSUME NEW e \in Ends, copier' = StartCopiers(e),
             UNCHANGED <<rseq, rbuf, rclose, delivered>>
      PROVE  CopierTypes'
  BY <1>0, <1>2 DEF StartCopiers
<1>3. ASSUME NEW d \in Directions, NEW how \in {"closed", "stop"},
             CopierEnds(d, how), UNCHANGED <<rseq, rbuf, rclose, delivered>>
      PROVE  CopierTypes'
  BY <1>0, <1>3 DEF CopierEnds
<1>4. ASSUME NEW d \in Directions, ReadPacket(d)
      PROVE  CopierTypes'
  <2> DEFINE p == Head(recv[d])
             new == Fresh(p, rseq[d])
  <2>1. p \in Packet
    BY <1>0, <1>4, HeadTailProperties DEF ReadPacket, StreamTypes
  <2>2. new \in Seq(Nat)
    <3>1. /\ p.msgs \in Seq(Nat) /\ p.seq \in Nat
          /\ Len(p.msgs) \in Nat
          /\ \A i \in 1..Len(p.msgs) : p.msgs[i] \in Nat
      BY <2>1, LenProperties, ElementOfSeq DEF Packet
    <3>2. ASSUME NEW m \in Nat
          PROVE  SubSeq(p.msgs, m + 1, Len(p.msgs)) \in Seq(Nat)
      BY <3>1, SubSeqProperties
    <3>3. rseq[d] \in Nat /\ rseq[d] >= p.seq
      BY <1>0, <1>4 DEF ReadPacket
    <3> QED
      BY <3>1, <3>2, <3>3 DEF Fresh
  <2>3. Len(new) \in Nat
    BY <2>2, LenProperties
  <2>4. p.close \in BOOLEAN
    BY <2>1 DEF Packet
  <2>5. /\ rbuf' = [rbuf EXCEPT ![d] = new]
        /\ rseq' = [rseq EXCEPT ![d] = @ + Len(new)]
        /\ rclose' = [rclose EXCEPT ![d] = p.close]
        /\ copier' = [copier EXCEPT ![d] = "put"]
        /\ UNCHANGED delivered
    BY <1>4 DEF ReadPacket
  <2> HIDE DEF new, p
  <2> QED
    BY <1>0, <2>2, <2>3, <2>4, <2>5
<1>5. ASSUME NEW d \in Directions, PutMessage(d)
      PROVE  CopierTypes'
  <2>1. Head(rbuf[d]) \in Nat /\ Tail(rbuf[d]) \in Seq(Nat)
    BY <1>0, <1>5, HeadTailProperties DEF PutMessage
  <2>2. Append(delivered[d], Head(rbuf[d])) \in Seq(Nat)
    BY <1>0, <2>1, AppendProperties
  <2> QED
    BY <1>0, <1>5, <2>1, <2>2 DEF PutMessage
<1>6. ASSUME NEW d \in Directions, PacketDone(d)
      PROVE  CopierTypes'
  BY <1>0, <1>6 DEF PacketDone, CopierEnds
<1>7. CASE UNCHANGED vars
  BY <1>1, <1>7 DEF vars
<1>8. CASE StartParticipantSignal \/ RelaySignal
  BY <1>1, <1>2, <1>8
     DEF StartParticipantSignal, RelaySignal, Ends, copierVars
<1> QED
  BY <1>1, <1>3, <1>4, <1>5, <1>6, <1>7, <1>8
     DEF Next, WriteMessage, CloseSink, CloseReturns, WriteNothing, WriteSend,
         SendOk, SendRetry, SendGiveUp, DeliverPacket, StreamCloses, ReadGap,
         PutFails, ReadEnd, TakeMessage, CloseSource

LEMMA StreamTypesStep ==
  ASSUME TypeOK, [Next]_vars
  PROVE  StreamTypes'
<1> USE DEF StreamTypes
<1>0. StreamTypes /\ SinkTypes
  BY DEF TypeOK
<1>1. ASSUME UNCHANGED <<session, wire, recv, taken, chanClosed, closed>>
      PROVE  StreamTypes'
  BY <1>0, <1>1
<1>2. CASE StartParticipantSignal \/ RelaySignal
  BY <1>0, <1>2 DEF StartParticipantSignal, RelaySignal
<1>3. ASSUME NEW d \in Directions, NEW b, WriterExit(d, b),
             b \in BOOLEAN,
             UNCHANGED <<session, wire, recv, taken, chanClosed>>
      PROVE  StreamTypes'
  BY <1>0, <1>3 DEF WriterExit
<1>4. ASSUME NEW d \in Directions, WriteSend(d)
      PROVE  StreamTypes'
  <2>1. [dir |-> d, seq |-> seq[d], msgs |-> queue[d], close |-> draining[d]]
          \in Packet
    BY <1>0 DEF Packet, SinkTypes
  <2> QED
    BY <1>0, <1>4, <2>1 DEF WriteSend
<1>5. ASSUME NEW d \in Directions, SendOk(d)
      PROVE  StreamTypes'
  BY <1>0, <1>5 DEF SendOk, WriterExit
<1>6. ASSUME NEW p \in wire, DeliverPacket(p)
      PROVE  StreamTypes'
  <2>1. p.dir \in Directions /\ Append(recv[p.dir], p) \in Seq(Packet)
    BY <1>0, AppendProperties DEF Packet
  <2> QED
    BY <1>0, <1>6, <2>1 DEF DeliverPacket
<1>7. ASSUME NEW e \in Ends, StreamCloses(e)
      PROVE  StreamTypes'
  BY <1>0, <1>7 DEF StreamCloses
<1>8. ASSUME NEW d \in Directions, ReadGap(d) \/ ReadPacket(d)
      PROVE  StreamTypes'
  <2>1. Tail(recv[d]) \in Seq(Packet)
    BY <1>0, <1>8, HeadTailProperties DEF ReadGap, ReadPacket
  <2> QED
    BY <1>0, <1>8, <2>1 DEF ReadGap, ReadPacket, CopierEnds
<1>9. ASSUME NEW d \in Directions, PutFails(d) \/ ReadEnd(d)
      PROVE  StreamTypes'
  BY <1>0, <1>9 DEF PutFails, ReadEnd, CopierEnds
<1>13. ASSUME NEW d \in Directions, PacketDone(d)
       PROVE  StreamTypes'
  <2>1. UNCHANGED <<session, wire, recv, taken>>
    BY <1>13 DEF PacketDone
  <2>2. \/ /\ chanClosed' = [chanClosed EXCEPT ![d] = TRUE]
           /\ closed' = [closed EXCEPT ![Dst(d)] = TRUE]
        \/ UNCHANGED <<chanClosed, closed>>
    BY <1>13 DEF PacketDone, CopierEnds
  <2> QED
    BY <1>0, <2>1, <2>2
<1>10. ASSUME NEW d \in Directions, TakeMessage(d)
       PROVE  StreamTypes'
  BY <1>0, <1>10 DEF TakeMessage
<1>14. ASSUME NEW d \in Directions, CloseSource(d)
       PROVE  StreamTypes'
  BY <1>0, <1>14 DEF CloseSource
<1>11. CASE UNCHANGED vars
  BY <1>1, <1>11 DEF vars
<1>12. ASSUME NEW d \in Directions, WriteNothing(d) \/ SendGiveUp(d)
       PROVE  StreamTypes'
  <2>1. draining[d] \in BOOLEAN /\ (draining[d] \/ CloseOnFailure(d)) \in BOOLEAN
    BY <1>0 DEF SinkTypes
  <2> QED
    BY <1>3, <1>12, <2>1 DEF WriteNothing, SendGiveUp
<1> QED
  BY <1>1, <1>2, <1>4, <1>5, <1>6, <1>7, <1>8, <1>9, <1>10, <1>11, <1>12,
     <1>13, <1>14 DEF Next, WriteMessage, CloseSink, CloseReturns, SendRetry, PutMessage

LEMMA NextTypeOK == TypeOK /\ [Next]_vars => TypeOK'
  BY SinkTypesStep, WriterTypesStep, CopierTypesStep, StreamTypesStep DEF TypeOK

-----------------------------------------------------------------------------
(* What a step does to the sink, as far as the invariants are concerned.   *)

\* Messages are only ever added, and none once the sink is draining.
LEMMA AcceptedGrows ==
  ASSUME TypeOK, [Next]_vars, NEW d \in Directions
  PROVE  /\ accepted[d] <= accepted'[d]
         /\ draining[d] => draining'[d] /\ accepted'[d] = accepted[d]
<1> USE DEF SinkTypes
<1>0. SinkTypes
  BY DEF TypeOK
<1>1. ASSUME UNCHANGED <<accepted, draining>>
      PROVE  /\ accepted[d] <= accepted'[d]
             /\ draining[d] => draining'[d] /\ accepted'[d] = accepted[d]
  BY <1>0, <1>1
<1>2. ASSUME NEW c \in Directions, WriteMessage(c)
      PROVE  /\ accepted[d] <= accepted'[d]
             /\ draining[d] => draining'[d] /\ accepted'[d] = accepted[d]
  BY <1>0, <1>2 DEF WriteMessage
<1>3. ASSUME NEW c \in Directions, CloseSink(c)
      PROVE  /\ accepted[d] <= accepted'[d]
             /\ draining[d] => draining'[d] /\ accepted'[d] = accepted[d]
  BY <1>0, <1>3 DEF CloseSink
<1>4. CASE UNCHANGED vars
  BY <1>1, <1>4 DEF vars, sinkVars
<1> QED
  BY <1>1, <1>2, <1>3, <1>4
     DEF Next, sinkVars, StartParticipantSignal, RelaySignal, WriteNothing,
         WriteSend, SendRetry, DeliverPacket, StreamCloses, ReadGap,
         ReadPacket, PutMessage, PutFails, PacketDone, ReadEnd, TakeMessage,
         CloseSource, CloseReturns, SendOk, SendGiveUp

\* So a packet that was right stays right.
LEMMA PacketStaysRight ==
  ASSUME TypeOK, [Next]_vars, NEW p \in Packet, PacketInv(p)
  PROVE  PacketInv(p)'
<1>1. p.dir \in Directions /\ p.seq \in Nat /\ Len(p.msgs) \in Nat
  BY LenProperties DEF Packet
<1>2. /\ accepted[p.dir] <= accepted'[p.dir]
      /\ draining[p.dir] => /\ draining'[p.dir]
                            /\ accepted'[p.dir] = accepted[p.dir]
  BY <1>1, AcceptedGrows
<1>3. accepted[p.dir] \in Nat /\ accepted'[p.dir] \in Nat
  BY <1>1, SinkTypesStep DEF TypeOK, SinkTypes
<1> QED
  BY <1>1, <1>2, <1>3 DEF PacketInv, Consecutive

\* The packet a writer makes of its queue is right.
LEMMA QueuePacketRight ==
  ASSUME TypeOK, NEW d \in Directions, QueueInv(d), WriteSend(d)
  PROVE  /\ wire' = wire \cup {sending'[d]}
         /\ sending'[d] = [dir |-> d, seq |-> seq[d], msgs |-> queue[d],
                           close |-> draining[d]]
         /\ sending'[d] \in Packet
         /\ PacketInv(sending'[d])
<1> DEFINE p == [dir |-> d, seq |-> seq[d], msgs |-> queue[d],
                 close |-> draining[d]]
<1>1. p \in Packet
  BY DEF Packet, TypeOK, SinkTypes
<1>2. wire' = wire \cup {p} /\ sending'[d] = p
  BY DEF WriteSend, TypeOK, WriterTypes
<1>3. accepted[d] \in Nat
  BY DEF TypeOK, SinkTypes
<1>4. PacketInv(p)
  BY <1>3 DEF PacketInv, QueueInv
<1> QED
  BY <1>1, <1>2, <1>4

\* Every packet on the wire stays right.
LEMMA WireInvStep ==
  ASSUME RelayInv, [Next]_vars
  PROVE  \A p \in wire' : PacketInv(p)'
<1>0. TypeOK
  BY DEF RelayInv
<1>1. ASSUME NEW p \in wire PROVE PacketInv(p)'
  BY <1>0, PacketStaysRight DEF RelayInv, TypeOK, StreamTypes
<1>2. ASSUME NEW d \in Directions, WriteSend(d)
      PROVE  \A p \in wire' : PacketInv(p)'
  <2>1. /\ sending'[d] \in Packet
        /\ PacketInv(sending'[d])
        /\ wire' = wire \cup {sending'[d]}
    BY <1>0, <1>2, QueuePacketRight DEF RelayInv
  <2>2. ASSUME NEW q \in Packet, PacketInv(q) PROVE PacketInv(q)'
    BY <1>0, <2>2, PacketStaysRight
  <2>3. ASSUME NEW q, q = sending'[d] PROVE PacketInv(q)'
    BY <2>1, <2>2, <2>3
  <2> QED
    BY <1>1, <2>1, <2>3
<1>3. CASE UNCHANGED wire
  BY <1>1, <1>3
<1> QED
  BY <1>2, <1>3
     DEF Next, vars, StartParticipantSignal, RelaySignal, WriteNothing,
         WriteMessage, SendRetry, DeliverPacket, StreamCloses, ReadGap,
         ReadPacket, PutMessage, PutFails, PacketDone, ReadEnd, TakeMessage,
         CloseSource, CloseReturns, SendOk, SendGiveUp, CloseSink

\* The queue keeps exactly the accepted messages past seq.
LEMMA QueueInvStep ==
  ASSUME RelayInv, [Next]_vars, NEW d \in Directions
  PROVE  QueueInv(d)'
<1>0. /\ QueueInv(d) /\ SendInv(d)
      /\ queue \in [Directions -> Seq(Nat)]
      /\ seq \in [Directions -> Nat] /\ accepted \in [Directions -> Nat]
      /\ Len(queue[d]) \in Nat
      /\ sending[d] \in Packet
  BY LenProperties DEF RelayInv, TypeOK, SinkTypes, WriterTypes
<1>1. ASSUME UNCHANGED <<accepted, seq, queue>>
      PROVE  QueueInv(d)'
  BY <1>0, <1>1 DEF QueueInv, Consecutive
<1>2. ASSUME NEW c \in Directions, WriteMessage(c)
      PROVE  QueueInv(d)'
  <2>1. CASE c = d
    <3> DEFINE q == Append(queue[d], accepted[d] + 1)
    <3>1. Consecutive(q, seq[d])
      BY <1>0, ConsecutiveAppend DEF QueueInv
    <3>2. Len(q) = Len(queue[d]) + 1
      BY <1>0, AppendProperties
    <3>3. queue'[d] = q /\ seq'[d] = seq[d] /\ accepted'[d] = accepted[d] + 1
      BY <1>0, <1>2, <2>1 DEF WriteMessage
    <3> HIDE DEF q
    <3>4. seq'[d] + Len(queue'[d]) = accepted'[d]
      BY <1>0, <3>2, <3>3 DEF QueueInv
    <3>5. Consecutive(queue'[d], seq'[d])
      BY <3>1, <3>3
    <3>6. Consecutive(queue[d], seq[d])' <=> Consecutive(queue'[d], seq'[d])
      BY DEF Consecutive
    <3> QED
      BY <3>4, <3>5, <3>6 DEF QueueInv
  <2>2. CASE c # d
    BY <1>0, <1>2, <2>2 DEF WriteMessage, QueueInv, Consecutive
  <2> QED
    BY <2>1, <2>2
<1>3. ASSUME NEW c \in Directions, SendOk(c)
      PROVE  QueueInv(d)'
  <2>1. CASE c = d
    <3> DEFINE n == Len(sending[d].msgs)
               q == SubSeq(queue[d], n + 1, Len(queue[d]))
    <3>1. n \in 0..Len(queue[d])
      BY <1>0, <1>3, <2>1, LenProperties DEF SendOk, SendInv, Packet
    <3>2. Len(q) = Len(queue[d]) - n /\ Consecutive(q, seq[d] + n)
      BY <1>0, <3>1, ConsecutiveDrop DEF QueueInv
    <3>3. queue'[d] = q /\ seq'[d] = seq[d] + n /\ accepted'[d] = accepted[d]
      BY <1>0, <1>3, <2>1 DEF SendOk
    <3> HIDE DEF n, q
    <3>4. seq'[d] + Len(queue'[d]) = accepted'[d]
      BY <1>0, <3>1, <3>2, <3>3 DEF QueueInv
    <3>5. Consecutive(queue'[d], seq'[d])
      BY <3>2, <3>3
    <3>6. Consecutive(queue[d], seq[d])' <=> Consecutive(queue'[d], seq'[d])
      BY DEF Consecutive
    <3> QED
      BY <3>4, <3>5, <3>6 DEF QueueInv
  <2>2. CASE c # d
    <3>1. queue'[d] = queue[d] /\ seq'[d] = seq[d] /\ accepted' = accepted
      BY <1>0, <1>3, <2>2 DEF SendOk
    <3> QED
      BY <1>0, <3>1 DEF QueueInv, Consecutive
  <2> QED
    BY <2>1, <2>2
<1>4. ASSUME NEW c \in Directions, SendGiveUp(c)
      PROVE  QueueInv(d)'
  <2>1. CASE c = d
    <3>1. /\ queue'[d] = <<>> /\ seq'[d] = seq[d] + Len(queue[d])
          /\ accepted' = accepted
      BY <1>0, <1>4, <2>1 DEF SendGiveUp
    <3> QED
      BY <1>0, <3>1 DEF QueueInv, Consecutive
  <2>2. CASE c # d
    BY <1>0, <1>4, <2>2 DEF SendGiveUp, QueueInv, Consecutive
  <2> QED
    BY <2>1, <2>2
<1> QED
  BY <1>1, <1>2, <1>3, <1>4
     DEF Next, vars, sinkVars, StartParticipantSignal, RelaySignal,
         WriteNothing, WriteSend, SendRetry, DeliverPacket, StreamCloses,
         ReadGap, ReadPacket, PutMessage, PutFails, PacketDone, ReadEnd,
         TakeMessage, CloseSource, CloseReturns, CloseSink

\* The queue still starts with the messages being sent.
LEMMA SendInvStep ==
  ASSUME RelayInv, [Next]_vars, NEW d \in Directions
  PROVE  SendInv(d)'
<1>0. /\ QueueInv(d) /\ SendInv(d) /\ TypeOK
      /\ queue \in [Directions -> Seq(Nat)]
      /\ seq \in [Directions -> Nat]
      /\ writer \in [Directions -> {"idle", "loop", "send"}]
      /\ Len(queue[d]) \in Nat
      /\ Len(sending[d].msgs) \in Nat
  BY LenProperties DEF RelayInv, TypeOK, SinkTypes, WriterTypes, Packet
<1>1. ASSUME UNCHANGED <<sending, seq, queue>>, wire \subseteq wire',
             writer'[d] = "send" => writer[d] = "send"
      PROVE  SendInv(d)'
  BY <1>0, <1>1 DEF SendInv
<1>2. ASSUME NEW c \in Directions, WriteMessage(c)
      PROVE  SendInv(d)'
  <2>1. Len(queue'[d]) \in Nat /\ Len(queue'[d]) >= Len(queue[d])
    BY <1>0, <1>2, AppendProperties DEF WriteMessage, TypeOK, SinkTypes
  <2>2. /\ writer'[d] = "send" => writer[d] = "send"
        /\ UNCHANGED <<sending, seq, wire>>
    BY <1>0, <1>2 DEF WriteMessage, WakeWriter
  <2> QED
    BY <1>0, <2>1, <2>2 DEF SendInv
<1>3. ASSUME NEW c \in Directions, CloseSink(c)
      PROVE  SendInv(d)'
  BY <1>0, <1>1, <1>3 DEF CloseSink, WakeWriter
<1>4. ASSUME NEW c \in Directions, WriteNothing(c)
      PROVE  SendInv(d)'
  BY <1>0, <1>1, <1>4 DEF WriteNothing, WriterExit, sinkVars
<1>5. ASSUME NEW c \in Directions, SendRetry(c)
      PROVE  SendInv(d)'
  BY <1>0, <1>1, <1>5 DEF SendRetry, sinkVars
<1>6. ASSUME NEW c \in Directions, WriteSend(c)
      PROVE  SendInv(d)'
  <2>1. CASE c = d
    <3>1. /\ wire' = wire \cup {sending'[d]}
          /\ sending'[d] = [dir |-> d, seq |-> seq[d], msgs |-> queue[d],
                            close |-> draining[d]]
      BY <1>0, <1>6, <2>1, QueuePacketRight
    <3>2. UNCHANGED <<seq, queue>>
      BY <1>6 DEF WriteSend, sinkVars
    <3> QED
      BY <1>0, <3>1, <3>2 DEF SendInv
  <2>2. CASE c # d
    <3>1. /\ sending'[d] = sending[d] /\ writer'[d] = writer[d]
          /\ wire \subseteq wire' /\ UNCHANGED <<seq, queue>>
      BY <1>0, <1>6, <2>2 DEF WriteSend, sinkVars, TypeOK, WriterTypes
    <3> QED
      BY <1>0, <3>1 DEF SendInv
  <2> QED
    BY <2>1, <2>2
<1>7. ASSUME NEW c \in Directions, SendOk(c) \/ SendGiveUp(c)
      PROVE  SendInv(d)'
  <2>1. CASE c = d
    <3>1. writer'[d] # "send"
      BY <1>0, <1>7, <2>1 DEF SendOk, SendGiveUp, WriterExit
    <3> QED
      BY <3>1 DEF SendInv
  <2>2. CASE c # d
    <3>1. /\ sending' = sending /\ writer'[d] = writer[d] /\ wire' = wire
          /\ seq'[d] = seq[d] /\ queue'[d] = queue[d]
      BY <1>0, <1>7, <2>2 DEF SendOk, SendGiveUp, WriterExit
    <3> QED
      BY <1>0, <3>1 DEF SendInv
  <2> QED
    BY <2>1, <2>2
<1> QED
  BY <1>1, <1>2, <1>3, <1>4, <1>5, <1>6, <1>7
     DEF Next, vars, sinkVars, writerVars, StartParticipantSignal,
         RelaySignal, DeliverPacket, StreamCloses, ReadGap, ReadPacket,
         PutMessage, PutFails, PacketDone, ReadEnd, TakeMessage, CloseSource,
         CloseReturns

\* What is in the receive buffer came over the wire in that direction.
LEMMA RecvInvStep ==
  ASSUME RelayInv, [Next]_vars, NEW d \in Directions
  PROVE  RecvInv(d)'
<1>0. /\ RecvInv(d) /\ recv \in [Directions -> Seq(Packet)]
      /\ wire \subseteq Packet
      /\ Len(recv[d]) \in Nat
  BY LenProperties DEF RelayInv, TypeOK, StreamTypes
<1>1. ASSUME recv'[d] = recv[d], wire \subseteq wire'
      PROVE  RecvInv(d)'
  BY <1>0, <1>1 DEF RecvInv
<1>2. ASSUME NEW p \in wire, DeliverPacket(p)
      PROVE  RecvInv(d)'
  <2>1. CASE p.dir = d
    <3>1. recv'[d] = Append(recv[d], p) /\ wire' = wire
      BY <1>0, <1>2, <2>1 DEF DeliverPacket
    <3>2. /\ Len(recv'[d]) = Len(recv[d]) + 1
          /\ \A i \in 1..Len(recv[d]) : recv'[d][i] = recv[d][i]
          /\ recv'[d][Len(recv[d]) + 1] = p
      BY <1>0, <3>1, AppendProperties
    <3> QED
      BY <1>0, <2>1, <3>1, <3>2 DEF RecvInv
  <2>2. CASE p.dir # d
    BY <1>0, <1>1, <1>2, <2>2 DEF DeliverPacket
  <2> QED
    BY <2>1, <2>2
<1>3. ASSUME NEW c \in Directions, ReadGap(c) \/ ReadPacket(c)
      PROVE  RecvInv(d)'
  <2>1. CASE c = d
    <3>1. recv'[d] = Tail(recv[d]) /\ wire' = wire /\ recv[d] # <<>>
      BY <1>0, <1>3, <2>1 DEF ReadGap, ReadPacket
    <3>2. /\ Len(recv'[d]) = Len(recv[d]) - 1
          /\ \A i \in 1..Len(recv'[d]) : recv'[d][i] = recv[d][i + 1]
      BY <1>0, <3>1, HeadTailProperties
    <3> QED
      BY <1>0, <3>1, <3>2 DEF RecvInv
  <2>2. CASE c # d
    BY <1>0, <1>1, <1>3, <2>2 DEF ReadGap, ReadPacket
  <2> QED
    BY <2>1, <2>2
<1>4. ASSUME NEW c \in Directions, WriteSend(c)
      PROVE  RecvInv(d)'
  BY <1>1, <1>4 DEF WriteSend
<1> QED
  BY <1>1, <1>2, <1>3, <1>4
     DEF Next, vars, StartParticipantSignal, RelaySignal, WriteNothing,
         WriteMessage, SendRetry, StreamCloses, PutMessage, PutFails,
         PacketDone, ReadEnd, TakeMessage, CloseSource, CloseReturns, SendOk,
         SendGiveUp, CloseSink

\* The head of the receive buffer is a right packet of that direction.
LEMMA HeadRight ==
  ASSUME RelayInv, NEW d \in Directions, recv[d] # <<>>
  PROVE  /\ Head(recv[d]) \in Packet
         /\ Head(recv[d]).dir = d
         /\ PacketInv(Head(recv[d]))
<1>1. Len(recv[d]) \in Nat \ {0} /\ recv[d] \in Seq(Packet)
  BY EmptySeq DEF RelayInv, TypeOK, StreamTypes
<1>2. Head(recv[d]) = recv[d][1] /\ 1 \in 1..Len(recv[d])
  BY <1>1
<1> QED
  BY <1>1, <1>2 DEF RelayInv, RecvInv, TypeOK, StreamTypes

\* The reader's count of messages agrees with what was delivered.
LEMMA CopierInvStep ==
  ASSUME RelayInv, [Next]_vars, NEW d \in Directions
  PROVE  CopierInv(d)'
<1>0. /\ CopierInv(d) /\ TypeOK
      /\ accepted[d] \in Nat /\ accepted'[d] \in Nat
      /\ rbuf \in [Directions -> Seq(Nat)] /\ rseq \in [Directions -> Nat]
      /\ delivered \in [Directions -> Seq(Nat)]
      /\ copier \in [Directions -> {"idle", "run", "put", "closed", "stop"}]
      /\ rclose \in [Directions -> BOOLEAN]
      /\ Len(rbuf[d]) \in Nat /\ Len(delivered[d]) \in Nat
  BY SinkTypesStep, LenProperties DEF RelayInv, TypeOK, SinkTypes, CopierTypes
<1>a. /\ accepted[d] <= accepted'[d]
      /\ draining[d] => draining'[d] /\ accepted'[d] = accepted[d]
  BY <1>0, AcceptedGrows
<1>1. ASSUME copier'[d] = copier[d], rseq'[d] = rseq[d], rbuf'[d] = rbuf[d],
             rclose'[d] = rclose[d], delivered'[d] = delivered[d]
      PROVE  CopierInv(d)'
  BY <1>0, <1>a, <1>1 DEF CopierInv, Consecutive
<1>2. ASSUME NEW e \in Ends, copier' = StartCopiers(e), copier[d] = "idle",
             UNCHANGED <<rseq, rbuf, rclose, delivered>>
      PROVE  CopierInv(d)'
  <2>1. copier'[d] \in {"idle", "run"}
    BY <1>0, <1>2 DEF StartCopiers
  <2> QED
    BY <1>0, <1>a, <1>2, <2>1 DEF CopierInv, Consecutive
<1>3. ASSUME copier'[d] = "stop",
             UNCHANGED <<rseq, rbuf, rclose, delivered>>
      PROVE  CopierInv(d)'
  BY <1>0, <1>a, <1>3 DEF CopierInv, Consecutive
<1>4. ASSUME NEW c \in Directions, ReadGap(c) \/ PutFails(c) \/ ReadEnd(c)
      PROVE  CopierInv(d)'
  <2>1. /\ copier' = [copier EXCEPT ![c] = "stop"]
        /\ UNCHANGED <<rseq, rbuf, rclose, delivered>>
    BY <1>4 DEF ReadGap, PutFails, ReadEnd, CopierEnds
  <2>2. CASE c = d
    BY <1>0, <1>3, <2>1, <2>2
  <2>3. CASE c # d
    BY <1>0, <1>1, <2>1, <2>3
  <2> QED
    BY <2>2, <2>3
<1>5. ASSUME NEW c \in Directions, ReadPacket(c)
      PROVE  CopierInv(d)'
  <2>1. CASE c = d
    <3> DEFINE p == Head(recv[d])
               new == Fresh(p, rseq[d])
    <3>1. p \in Packet /\ p.dir = d /\ PacketInv(p)
      BY <1>5, <2>1, HeadRight DEF ReadPacket
    <3>2. p.seq \in Nat /\ Len(p.msgs) \in Nat /\ p.close \in BOOLEAN
      BY <3>1, LenProperties DEF Packet
    <3>3. rseq[d] \in Nat /\ p.seq <= rseq[d]
      BY <1>0, <1>5, <2>1, <3>2 DEF ReadPacket
    <3>4. /\ new \in Seq(Nat)
          /\ Len(new) = IF p.seq + Len(p.msgs) > rseq[d]
                          THEN p.seq + Len(p.msgs) - rseq[d] ELSE 0
          /\ Consecutive(new, rseq[d])
      BY <3>1, <3>3, FreshProperties DEF PacketInv
    <3>5. /\ rbuf'[d] = new /\ rseq'[d] = rseq[d] + Len(new)
          /\ rclose'[d] = p.close /\ copier'[d] = "put"
          /\ delivered' = delivered
          /\ accepted' = accepted /\ draining' = draining
      BY <1>0, <1>5, <2>1 DEF ReadPacket, sinkVars
    <3>6. rbuf[d] = <<>> /\ rseq[d] = Len(delivered[d])
      BY <1>0, <1>5, <2>1 DEF CopierInv, ReadPacket
    <3>7. rseq'[d] <= accepted'[d]
      <4>1. p.seq + Len(p.msgs) <= accepted[d] /\ rseq[d] <= accepted[d]
        BY <1>0, <3>1 DEF PacketInv, CopierInv
      <4> HIDE DEF p, new
      <4> QED
        BY SMTT(30), <1>0, <4>1, <3>2, <3>3, <3>4, <3>5
    <3>8. rclose'[d] => draining'[d] /\ rseq'[d] = accepted'[d]
      <4> SUFFICES ASSUME p.close
                   PROVE  draining'[d] /\ rseq'[d] = accepted'[d]
        BY <3>5
      <4>1. draining[d] /\ p.seq + Len(p.msgs) = accepted[d]
        BY <3>1 DEF PacketInv
      <4>2. rseq[d] <= accepted[d]
        BY <1>0 DEF CopierInv
      <4> HIDE DEF p, new
      <4> QED
        BY SMTT(30), <1>0, <4>1, <4>2, <3>2, <3>3, <3>4, <3>5
    <3>9. Consecutive(delivered'[d], 0) /\ Consecutive(rbuf'[d], Len(delivered'[d]))
      BY <1>0, <3>4, <3>5, <3>6 DEF CopierInv
    <3> HIDE DEF p, new
    <3> QED
      BY <1>0, <3>3, <3>4, <3>5, <3>6, <3>7, <3>8, <3>9
         DEF CopierInv, Consecutive
  <2>2. CASE c # d
    BY <1>0, <1>1, <1>5, <2>2 DEF ReadPacket
  <2> QED
    BY <2>1, <2>2
<1>6. ASSUME NEW c \in Directions, PutMessage(c)
      PROVE  CopierInv(d)'
  <2>1. CASE c = d
    <3>1. /\ copier[d] = "put" /\ rbuf[d] # <<>>
          /\ delivered'[d] = Append(delivered[d], Head(rbuf[d]))
          /\ rbuf'[d] = Tail(rbuf[d])
          /\ copier' = copier /\ rseq' = rseq /\ rclose' = rclose
          /\ accepted' = accepted /\ draining' = draining
      BY <1>0, <1>6, <2>1 DEF PutMessage, sinkVars
    <3>2. /\ Head(rbuf[d]) = Len(delivered[d]) + 1
          /\ Len(rbuf'[d]) = Len(rbuf[d]) - 1
          /\ Consecutive(rbuf'[d], Len(delivered[d]) + 1)
      BY <1>0, <3>1, ConsecutiveTail DEF CopierInv
    <3>3. Len(delivered'[d]) = Len(delivered[d]) + 1
      BY <1>0, <3>1, <3>2, AppendProperties
    <3>4. Consecutive(delivered'[d], 0)
      BY <1>0, <3>1, <3>2, ConsecutiveAppend DEF CopierInv
    <3>5. Consecutive(rbuf'[d], Len(delivered'[d]))
      BY <3>2, <3>3
    <3>6. rseq'[d] = Len(delivered'[d]) + Len(rbuf'[d])
      BY <1>0, <3>1, <3>2, <3>3 DEF CopierInv
    <3> QED
      BY <1>0, <3>1, <3>4, <3>5, <3>6 DEF CopierInv, Consecutive
  <2>2. CASE c # d
    BY <1>0, <1>1, <1>6, <2>2 DEF PutMessage
  <2> QED
    BY <2>1, <2>2
<1>7. ASSUME NEW c \in Directions, PacketDone(c)
      PROVE  CopierInv(d)'
  <2>1. CASE c = d
    <3>1. /\ copier[d] = "put" /\ rbuf[d] = <<>>
          /\ copier'[d] = IF rclose[d] THEN "closed" ELSE "run"
          /\ rbuf' = rbuf /\ rseq' = rseq /\ rclose' = rclose
          /\ delivered' = delivered
      BY <1>0, <1>7, <2>1 DEF PacketDone, CopierEnds
    <3> QED
      BY <1>0, <1>a, <3>1 DEF CopierInv, Consecutive
  <2>2. CASE c # d
    <3>1. /\ copier'[d] = copier[d]
          /\ UNCHANGED <<rseq, rbuf, rclose, delivered>>
      BY <1>0, <1>7, <2>2 DEF PacketDone, CopierEnds
    <3> QED
      BY <1>1, <3>1
  <2> QED
    BY <2>1, <2>2
<1>8. CASE UNCHANGED copierVars
  BY <1>1, <1>8 DEF copierVars
<1>9. CASE StartParticipantSignal \/ RelaySignal
  <2>1. copier'[d] = copier[d] \/ copier[d] = "idle"
    BY <1>0, <1>9 DEF StartParticipantSignal, RelaySignal, StartCopiers,
       RelayInv, SessionInv, Ends, Dst
  <2>2. UNCHANGED <<rseq, rbuf, rclose, delivered>>
    BY <1>9 DEF StartParticipantSignal, RelaySignal
  <2>3. CASE copier'[d] = copier[d]
    BY <1>1, <2>2, <2>3
  <2>4. CASE copier[d] = "idle"
    BY <1>1, <1>2, <1>9, <2>2, <2>4
       DEF StartParticipantSignal, RelaySignal, Ends
  <2> QED
    BY <2>1, <2>3, <2>4
<1> QED
  BY <1>4, <1>5, <1>6, <1>7, <1>8, <1>9
     DEF Next, vars, WriteNothing, WriteMessage, SendRetry, StreamCloses,
         WriteSend, DeliverPacket, TakeMessage, CloseSource, CloseReturns,
         SendOk, SendGiveUp, CloseSink

\* A session moves on, and starts a copier, one end at a time.
LEMMA SessionInvStep ==
  ASSUME RelayInv, [Next]_vars, NEW d \in Directions
  PROVE  SessionInv(d)'
<1>0. /\ SessionInv(d)
      /\ copier \in [Directions -> {"idle", "run", "put", "closed", "stop"}]
  BY DEF RelayInv, TypeOK, CopierTypes
<1>1. ASSUME session' = session, copier[d] = "idle" => copier'[d] = "idle"
      PROVE  SessionInv(d)'
  BY <1>0, <1>1 DEF SessionInv
<1>2. CASE StartParticipantSignal \/ RelaySignal
  BY <1>0, <1>2 DEF StartParticipantSignal, RelaySignal, StartCopiers,
     SessionInv, Dst
<1>3. ASSUME NEW c \in Directions,
             \/ ReadGap(c) \/ PutFails(c) \/ ReadEnd(c) \/ ReadPacket(c)
             \/ PacketDone(c)
      PROVE  SessionInv(d)'
  <2>1. session' = session /\ copier[c] # "idle"
    BY <1>3 DEF ReadGap, PutFails, ReadEnd, ReadPacket, PacketDone
  <2>2. c # d => copier'[d] = copier[d]
    BY <1>0, <1>3
       DEF ReadGap, PutFails, ReadEnd, ReadPacket, PacketDone, CopierEnds
  <2> QED
    BY <1>1, <2>1, <2>2
<1> QED
  BY <1>1, <1>2, <1>3
     DEF Next, vars, WriteNothing, WriteMessage, SendRetry, StreamCloses,
         WriteSend, DeliverPacket, TakeMessage, CloseSource, CloseReturns,
         SendOk, SendGiveUp, CloseSink, PutMessage, copierVars

-----------------------------------------------------------------------------
(* The close mark is not lost.                                             *)

\* A step of the stream or of the copier does not lose the close mark.
LEMMA ArrivedStep ==
  ASSUME RelayInv, [Next]_vars, NEW d \in Directions, CloseArrived(d),
         draining[d]
  PROVE  CloseArrived(d)'
<1>0. /\ TypeOK /\ CopierInv(d) /\ RecvInv(d)
      /\ copier \in [Directions -> {"idle", "run", "put", "closed", "stop"}]
      /\ rseq \in [Directions -> Nat] /\ accepted[d] \in Nat
      /\ recv \in [Directions -> Seq(Packet)] /\ Len(recv[d]) \in Nat
  BY LenProperties DEF RelayInv, TypeOK, CopierTypes, StreamTypes, SinkTypes
<1>1. accepted'[d] = accepted[d]
  BY <1>0, AcceptedGrows
<1>2. ASSUME copier'[d] = copier[d] \/ copier[d] # "stop",
             rseq'[d] = rseq[d], recv'[d] = recv[d]
      PROVE  CloseArrived(d)'
  BY <1>1, <1>2 DEF CloseArrived
<1>3. ASSUME NEW p \in wire, DeliverPacket(p)
      PROVE  CloseArrived(d)'
  <2>1. CASE p.dir = d
    <3>1. /\ recv'[d] = Append(recv[d], p)
          /\ copier' = copier /\ rseq' = rseq
      BY <1>0, <1>3, <2>1 DEF DeliverPacket, copierVars
    <3>2. /\ Len(recv'[d]) = Len(recv[d]) + 1
          /\ \A i \in 1..Len(recv[d]) : recv'[d][i] = recv[d][i]
      BY <1>0, <3>1, AppendProperties DEF RelayInv, TypeOK, StreamTypes
    <3> QED
      BY <1>0, <1>1, <3>1, <3>2 DEF CloseArrived
  <2>2. CASE p.dir # d
    BY <1>0, <1>2, <1>3, <2>2 DEF DeliverPacket, copierVars
  <2> QED
    BY <2>1, <2>2
<1>4. ASSUME NEW c \in Directions, ReadPacket(c)
      PROVE  CloseArrived(d)'
  <2>1. CASE c = d
    <3> DEFINE p == Head(recv[d])
               new == Fresh(p, rseq[d])
    <3>1. /\ copier[d] = "run" /\ recv[d] # <<>> /\ p.seq <= rseq[d]
          /\ recv'[d] = Tail(recv[d]) /\ rseq'[d] = rseq[d] + Len(new)
      <4>1. p.seq \in Nat
        BY <1>4, <2>1, HeadRight DEF ReadPacket, Packet
      <4> QED
        BY <1>0, <1>4, <2>1, <4>1 DEF ReadPacket
    <3>2. p \in Packet /\ p.dir = d /\ PacketInv(p)
      BY <3>1, HeadRight
    <3>3. p.seq \in Nat /\ Len(p.msgs) \in Nat
      BY <3>2, LenProperties DEF Packet
    <3>4. /\ new \in Seq(Nat)
          /\ Len(new) = IF p.seq + Len(p.msgs) > rseq[d]
                          THEN p.seq + Len(p.msgs) - rseq[d] ELSE 0
      BY <1>0, <3>1, <3>2, FreshProperties DEF PacketInv
    <3>5. CASE p.close
      <4>1. p.seq + Len(p.msgs) = accepted[d] /\ rseq[d] <= accepted[d]
        BY <1>0, <3>2, <3>5 DEF PacketInv, CopierInv
      <4> HIDE DEF p, new
      <4>2. rseq'[d] = accepted[d]
        BY SMTT(30), <1>0, <3>1, <3>3, <3>4, <4>1
      <4> QED
        BY <1>1, <4>2 DEF CloseArrived
    <3>6. CASE rseq[d] = accepted[d]
      <4>1. p.seq + Len(p.msgs) <= accepted[d]
        BY <3>2 DEF PacketInv
      <4> HIDE DEF p, new
      <4>2. rseq'[d] = accepted[d]
        BY SMTT(30), <1>0, <3>1, <3>3, <3>4, <3>6, <4>1
      <4> QED
        BY <1>1, <4>2 DEF CloseArrived
    <3>7. CASE ~p.close /\ rseq[d] # accepted[d]
      <4>1. PICK i \in 1..Len(recv[d]) : recv[d][i].close
        BY <3>1, <3>7 DEF CloseArrived
      <4>2. /\ Len(recv'[d]) = Len(recv[d]) - 1
            /\ \A j \in 1..Len(recv'[d]) : recv'[d][j] = recv[d][j + 1]
        BY <1>0, <3>1, HeadTailProperties
      <4>3. p = recv[d][1]
        OBVIOUS
      <4>4. i - 1 \in 1..Len(recv'[d]) /\ recv'[d][i - 1] = recv[d][i]
        BY <1>0, <3>7, <4>1, <4>2, <4>3
      <4> QED
        BY <4>1, <4>4 DEF CloseArrived
    <3> QED
      BY <3>5, <3>6, <3>7
  <2>2. CASE c # d
    BY <1>0, <1>2, <1>4, <2>2 DEF ReadPacket
  <2> QED
    BY <2>1, <2>2
<1>5. ASSUME NEW c \in Directions, ReadGap(c)
      PROVE  CloseArrived(d)'
  <2>1. CASE c = d
    BY <1>0, <1>5, <2>1 DEF ReadGap, CopierEnds, CloseArrived
  <2>2. CASE c # d
    BY <1>0, <1>2, <1>5, <2>2 DEF ReadGap, CopierEnds
  <2> QED
    BY <2>1, <2>2
<1>6. ASSUME NEW c \in Directions, PutFails(c) \/ ReadEnd(c) \/ PacketDone(c)
      PROVE  CloseArrived(d)'
  <2>1. /\ copier'[d] = copier[d] \/ copier[d] # "stop"
        /\ rseq' = rseq /\ recv' = recv
    BY <1>0, <1>6 DEF PutFails, ReadEnd, PacketDone, CopierEnds
  <2> QED
    BY <1>2, <2>1
<1>7. CASE StartParticipantSignal \/ RelaySignal
  <2>1. /\ copier'[d] = copier[d] \/ copier[d] # "stop"
        /\ rseq' = rseq /\ recv' = recv
    BY <1>0, <1>7 DEF StartParticipantSignal, RelaySignal, StartCopiers,
       RelayInv, SessionInv, Dst
  <2> QED
    BY <1>2, <2>1
<1>8. ASSUME NEW c \in Directions, PutMessage(c)
      PROVE  CloseArrived(d)'
  BY <1>2, <1>8 DEF PutMessage
<1> QED
  BY <1>2, <1>3, <1>4, <1>5, <1>6, <1>7, <1>8
     DEF Next, vars, WriteNothing, WriteMessage, SendRetry, StreamCloses,
         WriteSend, TakeMessage, CloseSource, CloseReturns, SendOk,
         SendGiveUp, CloseSink, copierVars

LEMMA DrainInvStep ==
  ASSUME RelayInv, [Next]_vars, NEW d \in Directions
  PROVE  DrainInv(d)'
<1>0. /\ TypeOK /\ DrainInv(d) /\ SendInv(d)
      /\ writer \in [Directions -> {"idle", "loop", "send"}]
      /\ acked \in [Directions -> BOOLEAN]
      /\ sending \in [Directions -> Packet]
      /\ drained \in [Directions -> BOOLEAN]
      /\ recv \in [Directions -> Seq(Packet)] /\ Len(recv[d]) \in Nat
  BY LenProperties DEF RelayInv, TypeOK, WriterTypes, StreamTypes
<1>a. writer[d] = "send" /\ sending[d].close => draining[d]
  BY <1>0 DEF RelayInv, SendInv, PacketInv
<1>b. draining[d] => draining'[d]
  BY <1>0, AcceptedGrows
\* A step that neither acknowledges a packet nor ends the writer.
<1>1. ASSUME writer'[d] = "send" /\ acked'[d] =>
               writer[d] = "send" /\ acked[d] /\ sending'[d] = sending[d],
             drained'[d] = drained[d]
      PROVE  DrainInv(d)'
  <2>1. CASE draining[d] /\ CloseArrived(d)
    BY <1>b, <2>1, ArrivedStep DEF DrainInv
  <2>2. CASE ~(draining[d] /\ CloseArrived(d))
    BY <1>0, <1>1, <1>a, <2>2 DEF DrainInv
  <2> QED
    BY <2>1, <2>2
<1>2. ASSUME NEW c \in Directions, SendOk(c)
      PROVE  DrainInv(d)'
  <2>1. CASE c = d
    <3>1. /\ writer'[d] # "send" /\ writer[d] = "send" /\ acked[d]
          /\ drained'[d] = (drained[d] \/ sending[d].close)
      BY <1>0, <1>2, <2>1 DEF SendOk, WriterExit, Packet
    <3>2. CASE drained[d] \/ sending[d].close
      <4>1. draining[d] /\ CloseArrived(d)
        BY <1>0, <1>a, <3>1, <3>2 DEF DrainInv
      <4> QED
        BY <1>b, <3>1, <4>1, ArrivedStep DEF DrainInv
    <3>3. CASE ~(drained[d] \/ sending[d].close)
      BY <3>1, <3>3 DEF DrainInv
    <3> QED
      BY <3>2, <3>3
  <2>2. CASE c # d
    <3>1. /\ writer'[d] = writer[d] /\ drained'[d] = drained[d]
          /\ acked' = acked /\ sending' = sending
      BY <1>0, <1>2, <2>2 DEF SendOk, WriterExit
    <3> QED
      BY <1>1, <3>1
  <2> QED
    BY <2>1, <2>2
<1>3. ASSUME NEW p \in wire, DeliverPacket(p)
      PROVE  DrainInv(d)'
  <2>1. CASE p.dir = d /\ sending[d] = p /\ p.close /\ writer[d] = "send"
    <3>1. recv'[d] = Append(recv[d], p)
      BY <1>0, <1>3, <2>1 DEF DeliverPacket
    <3>2. /\ Len(recv'[d]) = Len(recv[d]) + 1
          /\ recv'[d][Len(recv[d]) + 1] = p
      BY <1>0, <2>1, <3>1, AppendProperties
    <3>3. CloseArrived(d)'
      BY <1>0, <2>1, <3>2 DEF CloseArrived
    <3> QED
      BY <1>a, <1>b, <2>1, <3>3 DEF DrainInv
  <2>2. CASE p.dir = d /\ ~(sending[d] = p /\ p.close /\ writer[d] = "send")
    <3>1. /\ writer' = writer /\ sending' = sending /\ drained' = drained
          /\ acked'[d] = (acked[d] \/ (writer[d] = "send" /\ sending[d] = p))
      BY <1>0, <1>3, <2>2 DEF DeliverPacket
    <3>2. CASE sending[d].close
      BY <1>0, <1>1, <2>2, <3>1, <3>2
    <3>3. CASE ~sending[d].close
      <4>1. CASE drained[d]
        BY <1>0, <1>b, <3>1, <3>3, <4>1, ArrivedStep DEF DrainInv
      <4>2. CASE ~drained[d]
        BY <3>1, <3>3, <4>2 DEF DrainInv
      <4> QED
        BY <4>1, <4>2
    <3> QED
      BY <3>2, <3>3
  <2>3. CASE p.dir # d
    BY <1>0, <1>1, <1>3, <2>3 DEF DeliverPacket
  <2> QED
    BY <2>1, <2>2, <2>3
<1>4. ASSUME NEW c \in Directions, WriteSend(c)
      PROVE  DrainInv(d)'
  <2>1. CASE c = d
    <3>1. ~acked'[d] /\ drained' = drained
      BY <1>0, <1>4, <2>1 DEF WriteSend
    <3> QED
      BY <1>1, <3>1
  <2>2. CASE c # d
    <3>1. /\ writer'[d] = writer[d] /\ sending'[d] = sending[d]
          /\ acked'[d] = acked[d] /\ drained' = drained
      BY <1>0, <1>4, <2>2 DEF WriteSend
    <3> QED
      BY <1>1, <3>1
  <2> QED
    BY <2>1, <2>2
<1>5. ASSUME NEW c \in Directions, SendGiveUp(c)
      PROVE  DrainInv(d)'
  <2>1. /\ writer'[d] \in {writer[d], "idle"}
        /\ UNCHANGED <<sending, acked, drained>>
    BY <1>0, <1>5 DEF SendGiveUp, WriterExit
  <2> QED
    BY <1>1, <2>1
<1>6. ASSUME NEW c \in Directions,
             \/ WriteMessage(c) \/ CloseSink(c) \/ WriteNothing(c)
             \/ SendRetry(c)
      PROVE  DrainInv(d)'
  <2>1. /\ writer'[d] = "send" => writer[d] = "send"
        /\ UNCHANGED <<sending, acked, drained>>
    BY <1>0, <1>6 DEF WriteMessage, CloseSink, WriteNothing, SendRetry,
       WakeWriter, WriterExit
  <2> QED
    BY <1>1, <2>1
<1>7. CASE UNCHANGED writerVars
  BY <1>1, <1>7 DEF writerVars
<1> QED
  BY <1>2, <1>3, <1>4, <1>5, <1>6, <1>7
     DEF Next, vars, StartParticipantSignal, RelaySignal, StreamCloses,
         ReadGap, ReadPacket, PutMessage, PutFails, PacketDone, ReadEnd,
         TakeMessage, CloseSource, CloseReturns

-----------------------------------------------------------------------------
(* The theorems.                                                           *)

LEMMA InitRelayInv == Init => RelayInv
<1> SUFFICES ASSUME Init PROVE RelayInv
  OBVIOUS
<1>1. TypeOK
  BY InitTypeOK
<1>2. ASSUME NEW d \in Directions
      PROVE  /\ QueueInv(d) /\ SendInv(d) /\ RecvInv(d)
             /\ SessionInv(d) /\ CopierInv(d) /\ DrainInv(d)
  BY DEF Init, QueueInv, SendInv, RecvInv, SessionInv, CopierInv, DrainInv,
     Consecutive
<1>3. wire = {}
  BY DEF Init
<1> QED
  BY <1>1, <1>2, <1>3 DEF RelayInv

\* The inductive invariant: the queue, the packets on the wire, the receive
\* buffer and the copier agree on the numbering of the accepted messages.
THEOREM RelayInvariant == Spec => []RelayInv
<1>1. RelayInv /\ [Next]_vars => RelayInv'
  <2> SUFFICES ASSUME RelayInv, [Next]_vars PROVE RelayInv'
    OBVIOUS
  <2>1. TypeOK'
    BY NextTypeOK DEF RelayInv
  <2>2. \A p \in wire' : PacketInv(p)'
    BY WireInvStep
  <2>3. ASSUME NEW d \in Directions
        PROVE  /\ QueueInv(d)' /\ SendInv(d)' /\ RecvInv(d)'
               /\ SessionInv(d)' /\ CopierInv(d)' /\ DrainInv(d)'
    BY QueueInvStep, SendInvStep, RecvInvStep, SessionInvStep, CopierInvStep,
       DrainInvStep
  <2> QED
    BY <2>1, <2>2, <2>3 DEF RelayInv
<1> QED
  BY <1>1, InitRelayInv, PTL DEF Spec

\* Messages are delivered once each and in the order they were accepted
\* (signalMessageSink.write, signalMessageReader.Read).
THEOREM InOrder == Spec => []DeliveredInOrder
<1>1. RelayInv => DeliveredInOrder
  <2> SUFFICES ASSUME RelayInv, NEW d \in Directions
               PROVE  Len(delivered[d]) <= accepted[d] /\ Consecutive(delivered[d], 0)
    BY DEF DeliveredInOrder
  <2>1. /\ Len(delivered[d]) \in Nat /\ Len(rbuf[d]) \in Nat
        /\ accepted[d] \in Nat /\ rseq[d] \in Nat
    BY LenProperties DEF RelayInv, TypeOK, SinkTypes, CopierTypes
  <2>2. /\ Consecutive(delivered[d], 0)
        /\ rseq[d] = Len(delivered[d]) + Len(rbuf[d]) /\ rseq[d] <= accepted[d]
    BY DEF RelayInv, CopierInv
  <2>3. Len(delivered[d]) <= accepted[d]
    <3> DEFINE m == Len(delivered[d])
               n == Len(rbuf[d])
    <3>1. m \in Nat /\ n \in Nat /\ m + n <= accepted[d]
      BY <2>1, <2>2
    <3> HIDE DEF m, n
    <3>2. m <= accepted[d]
      BY <2>1, <3>1
    <3> QED
      BY <3>2 DEF m
  <2> QED
    BY <2>2, <2>3
<1> QED
  BY <1>1, RelayInvariant, PTL

\* A copier that ends on a close mark has delivered everything that was
\* accepted (CopySignalStreamToMessageChannel).
THEOREM CloseComplete == Spec => []CloseMeansComplete
<1>1. RelayInv => CloseMeansComplete
  <2> SUFFICES ASSUME RelayInv, NEW d \in Directions, copier[d] = "closed"
               PROVE  Len(delivered[d]) = accepted[d]
    BY DEF CloseMeansComplete
  <2>1. Len(delivered[d]) \in Nat
    BY LenProperties DEF RelayInv, TypeOK, CopierTypes
  <2>2. rbuf[d] = <<>> /\ rseq[d] = accepted[d]
        /\ rseq[d] = Len(delivered[d]) + Len(rbuf[d])
    BY DEF RelayInv, CopierInv
  <2> QED
    BY <2>1, <2>2
<1> QED
  BY <1>1, RelayInvariant, PTL

\* An acknowledged close packet means that nothing accepted was lost on the
\* way to the peer's copier (signalMessageSink.Close and write).
THEOREM DrainComplete == Spec => []DrainedReachesPeer
<1>1. RelayInv => DrainedReachesPeer
  BY DEF RelayInv, DrainInv, CloseArrived, RecvInv, PacketInv,
     DrainedReachesPeer
<1> QED
  BY <1>1, RelayInvariant, PTL

\* The relay implements the abstract channel: every step accepts a message,
\* delivers the next one, or changes nothing the channel knows of.
THEOREM Refinement == Spec => ImplementsChannel
<1>1. Init => Channel!Init
  BY DEF Init, Channel!Init
<1>2. ASSUME RelayInv, [Next]_vars
      PROVE  [Channel!Next]_(Channel!chanVars)
  <2> USE DEF Channel!Next, Channel!chanVars
  <2>0. /\ accepted \in [Directions -> Nat]
        /\ delivered \in [Directions -> Seq(Nat)]
        /\ \A d \in Directions : Len(delivered[d]) \in Nat
        /\ \A d \in Directions : Len(rbuf[d]) \in Nat /\ rbuf[d] \in Seq(Nat)
    BY <1>2, LenProperties DEF RelayInv, TypeOK, SinkTypes, CopierTypes
  <2>1. ASSUME NEW d \in Directions, WriteMessage(d)
        PROVE  Channel!Accept(d)
    BY <2>1 DEF WriteMessage, copierVars, Channel!Accept
  <2>2. ASSUME NEW d \in Directions, PutMessage(d)
        PROVE  Channel!Deliver(d)
    <3>0. /\ Consecutive(rbuf[d], Len(delivered[d]))
          /\ rseq[d] = Len(delivered[d]) + Len(rbuf[d])
          /\ rseq[d] <= accepted[d]
      BY <1>2 DEF RelayInv, CopierInv
    <3>1. /\ rbuf[d] # <<>>
          /\ Head(rbuf[d]) = Len(delivered[d]) + 1
          /\ Len(delivered[d]) + Len(rbuf[d]) <= accepted[d]
      <4>1. rbuf[d] # <<>>
        BY <2>2 DEF PutMessage
      <4>2. /\ rbuf[d] \in Seq(Nat) /\ Len(delivered[d]) \in Nat
            /\ Len(rbuf[d]) \in Nat /\ accepted[d] \in Nat
        BY <2>0
      <4>3. Head(rbuf[d]) = Len(delivered[d]) + 1
        BY <3>0, <4>1, <4>2, ConsecutiveTail
      <4>4. Len(delivered[d]) + Len(rbuf[d]) <= accepted[d]
        BY <3>0
      <4> QED
        BY <4>1, <4>3, <4>4
    <3>2. Len(rbuf[d]) \in Nat \ {0}
      BY <2>0, <3>1, EmptySeq
    <3>3. /\ Len(delivered[d]) < accepted[d]
      <4>1. Len(delivered[d]) \in Nat /\ accepted[d] \in Nat
        BY <2>0
      <4> DEFINE m == Len(delivered[d])
                 n == Len(rbuf[d])
      <4>2. m + n <= accepted[d] /\ m \in Nat /\ n \in Nat \ {0}
        BY <3>1, <3>2, <4>1
      <4> HIDE DEF m, n
      <4>3. m < accepted[d]
        BY <4>1, <4>2
      <4> QED
        BY <4>3 DEF m
    <3> QED
      BY <2>0, <2>2, <3>1, <3>3 DEF PutMessage, sinkVars, Channel!Deliver
  <2>3. CASE UNCHANGED <<accepted, delivered>>
    BY <2>3
  <2> QED
    BY <1>2, <2>1, <2>2, <2>3
       DEF Next, vars, sinkVars, copierVars, StartParticipantSignal,
           RelaySignal, CloseSink, CloseReturns, WriteNothing, WriteSend,
           SendOk, SendRetry, SendGiveUp, DeliverPacket, StreamCloses,
           ReadGap, ReadPacket, PutFails, PacketDone, ReadEnd, TakeMessage,
           CloseSource
<1> QED
  BY <1>1, <1>2, RelayInvariant, PTL DEF Spec, ImplementsChannel, Channel!Spec
=============================================================================
