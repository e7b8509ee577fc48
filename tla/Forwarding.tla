----------------------------- MODULE Forwarding -----------------------------
(***************************************************************************)
(* How the packets of one video down track get their sequence numbers and  *)
(* are found again when the subscriber asks for them: RTPMunger under the  *)
(* Forwarder's lock, and the sequencer under its own.                      *)
(*                                                                         *)
(* A number is given under the first lock and recorded under the second, so *)
(* that packets of two layers and a burst of padding may be recorded in    *)
(* another order than they were numbered in.  Incoming packets are their   *)
(* extended sequence numbers; timestamps and payloads are left out, and    *)
(* the choice of layers (videolayerselector, stream allocation) is open.   *)
(***************************************************************************)
EXTENDS RangeMap, FiniteSets

CONSTANTS
  Feeds,        \* the layers, each a stream of its own
  NoFeed,
  Incoming,     \* the sequence numbers each feed may bring,
  PaddingOnly,  \* those without a payload,
  FrameEnds,    \* those that carry the marker
  KeyFrames,    \* and those at which forwarding may switch to the feed
  Dummy,        \* where numbers begin if padding is sent before any packet
  MaxBurst,     \* padding packets sent at a time
  Ranges,       \* ranges RTPMunger keeps
  Slots,        \* size of the sequencer
  Cycle,        \* 2^16: numbers on the wire are taken modulo this
  Numbers,      \* a bound: the numbers given,
  MaxLag        \* and another: how far they run ahead of an unrecorded burst

ASSUME ForwardingConstants ==
  /\ NoFeed \notin Feeds
  /\ Incoming \in [Feeds -> SUBSET Nat]
  /\ Numbers \subseteq Nat
  /\ Dummy \in Nat \ {0} /\ MaxBurst \in Nat
  /\ Ranges \in Nat \ {0} /\ Slots \in Nat \ {0} /\ Cycle \in Nat \ {0}

VARIABLES
  started,    \* Forwarder.started
  feed,       \* lastSSRC: the feed that is forwarded, if any
  highest,    \* RTPMunger.extHighestIncomingSN
  last,       \* extLastSN
  boundary,   \* lastMarker
  ranges,     \* snRangeMap
  got,        \* what the munger has seen of each feed
  before,     \* and had seen of the one that is forwarded when it was switched to
  flight,     \* the packet of each feed that has its number but no slot yet
  padding,    \* and the burst of padding
  seqr,       \* the sequencer
  turn,       \* how often the feed was switched
  given       \* what each number was given to

munger == <<started, feed, highest, last, boundary, ranges>>
forwardingVars == <<munger, got, before, flight, padding, seqr, turn, given>>

Nothing == [kind |-> "nothing", turn |-> 0, sn |-> 0]
Padding == [kind |-> "padding", turn |-> 0, sn |-> 0]
Withheld == [kind |-> "withheld", turn |-> 0, sn |-> 0]
Media(t, sn) == [kind |-> "media", turn |-> t, sn |-> sn]

NoPacket == [number |-> 0, sn |-> 0]
NoBurst == [from |-> 0, to |-> 0]
Invalid == [number |-> 0, sn |-> 0]

ForwardingInit ==
  /\ started = FALSE
  /\ feed = NoFeed
  /\ highest = 0 /\ last = 0 /\ boundary = FALSE
  /\ ranges = Reset(0, 0)
  /\ got = [f \in Feeds |-> {}] /\ before = {}
  /\ flight = [f \in Feeds |-> NoPacket]
  /\ padding = NoBurst
  /\ seqr = [initialized |-> FALSE, start |-> 0, highest |-> 0, ranges |-> Reset(0, 0),
            meta |-> [s \in 0..(Slots - 1) |-> Invalid]]
  /\ turn = 0
  /\ given = [n \in Numbers |-> Nothing]

----------------------------------------------------------------------------
(* The munger: GetTranslationParams, with the forwarder locked.            *)

\* The writer of a feed takes the packets one by one, and each once.
Arrives(f, sn) ==
  /\ flight[f] = NoPacket
  /\ sn \in Incoming[f] \ got[f]
  /\ got' = [got EXCEPT ![f] = @ \cup {sn}]

MayGive(n) == n \in Numbers /\ (padding # NoBurst => n - padding.from <= MaxLag)

\* The number is used for the packet, which is then on its way to the sequencer;
Send(f, sn, n, t) ==
  /\ MayGive(n)
  /\ flight' = [flight EXCEPT ![f] = [number |-> n, sn |-> sn]]
  /\ given' = [given EXCEPT ![n] = Media(t, sn)]

\* or the number is used up and the packet is not sent: it follows a gap or is late,
\* and is not selected (getTranslationParamsVideo), its picture is no longer known
\* (translateCodecHeader), or its layer is being left for lack of bandwidth.
Withhold(n) ==
  /\ MayGive(n)
  /\ given' = [given EXCEPT ![n] = Withheld]
  /\ UNCHANGED flight

\* UpdateAndGetSnTs of a packet in order: it may leave a gap behind.
InOrder(f, sn) ==
  LET n == sn - ValueAt(ranges, highest + 1) IN
  /\ feed = f
  /\ Arrives(f, sn)
  /\ sn > highest + 1 \/ (sn = highest + 1 /\ sn \notin PaddingOnly[f])
  /\ highest' = sn /\ last' = n /\ boundary' = (sn \in FrameEnds[f])
  /\ Send(f, sn, n, turn) \/ Withhold(n)
  /\ UNCHANGED <<started, feed, ranges, before, padding, seqr, turn>>

\* Mutant: a dropped packet is only forgotten.
MutExclude(sn) == ranges

\* A contiguous packet that is not forwarded leaves no hole: it has no payload,
\* or PacketDropped puts the munger back to where it was before the packet.
\* (extSecondLastSN and secondLastMarker are only there to do so.)
Exclude(sn) == ExcludeRange(ranges, Ranges, sn, sn)
Drop(f, sn) ==
  /\ feed = f
  /\ Arrives(f, sn)
  /\ sn = highest + 1
  /\ highest' = sn
  /\ ranges' = Exclude(sn)
  /\ UNCHANGED <<started, feed, last, boundary, before, flight, padding, seqr, turn, given>>

\* A late packet has the number that was left for it, if there is one, and is sent
\* under it or not at all: nobody else will use it.
LateNumber(sn) == sn - ValueAt(ranges, sn)
LatePacket(f, sn) ==
  /\ feed = f
  /\ Arrives(f, sn)
  /\ sn < highest
  /\ IF Has(ranges, sn) /\ LateNumber(sn) < last
     THEN Send(f, sn, LateNumber(sn), turn) \/ Withhold(LateNumber(sn))
     ELSE UNCHANGED <<flight, given>>
  /\ UNCHANGED <<munger, before, padding, seqr, turn>>

\* processSourceSwitch: the first packet keeps its number (SetLastSnTs), later
\* feeds go on where the last number was (UpdateSnTsOffsets).
SwitchTo(f, sn, n) ==
  /\ Arrives(f, sn)
  /\ sn \in KeyFrames[f]
  /\ feed # f
  /\ feed' = f /\ turn' = turn + 1 /\ before' = got[f]
  /\ highest' = sn /\ last' = n /\ boundary' = (sn \in FrameEnds[f])
  /\ ranges' = Reset(sn, sn - n)
  /\ Send(f, sn, n, turn + 1)
  /\ UNCHANGED <<padding, seqr>>

Start(f, sn) == ~started /\ started' = TRUE /\ SwitchTo(f, sn, sn)
SwitchFeed(f, sn) == started /\ UNCHANGED started /\ SwitchTo(f, sn, last + 1)

\* Muting, pausing for lack of bandwidth, a new receiver: wait for a key frame.
Resync ==
  /\ feed # NoFeed
  /\ feed' = NoFeed
  /\ UNCHANGED <<started, highest, last, boundary, ranges, got, before, flight,
                 padding, seqr, turn, given>>

\* WritePaddingRTP: numbers for a burst, at the end of a frame, or forced while
\* no feed is forwarded.  A track that has not started begins at a number of
\* its own (maybeStart).
WritePadding(num) ==
  LET from == (IF started THEN last ELSE Dummy) + 1
      to == from + num - 1
      top == IF started THEN highest ELSE Dummy - 1
      map == IF started THEN ranges ELSE Reset(Dummy, 0) IN
  /\ padding = NoBurst
  /\ from..to \subseteq Numbers
  /\ boundary \/ feed = NoFeed
  /\ started' = TRUE
  /\ highest' = top /\ last' = to /\ boundary' = TRUE
  /\ ranges' = DecValue(map, Ranges, top, num)
  /\ padding' = [from |-> from, to |-> to]
  /\ given' = [n \in Numbers |-> IF n \in from..to THEN Padding ELSE given[n]]
  /\ UNCHANGED <<feed, got, before, flight, seqr, turn>>

----------------------------------------------------------------------------
(* The sequencer.                                                          *)

\* The ranges it keeps: "assume run lengths of at least 2".
SeqRanges == (Slots + 1) \div 2

\* Mutant: a slot is looked up with the offset of the latest packet, not of its own.
MutAdjusted(s, n) == n - OpenRange(s.ranges).value

Adjusted(s, n) == n - ValueAt(s.ranges, n)
HighestAdjusted(s) == s.highest - OpenRange(s.ranges).value
SlotOf(s, n) == Adjusted(s, n) % Slots

\* The slots of the numbers that were skipped are invalidated.
Skipped(s, n) ==
  {m % Slots : m \in (HighestAdjusted(s) + 1)..(Adjusted(s, n) - 1)}

\* The first packet sets the start.
Begun(n) ==
  IF seqr.initialized THEN seqr
  ELSE [seqr EXCEPT !.initialized = TRUE, !.start = n, !.highest = n]

\* A packet is too old for the sequencer.
TooOld(s, n) ==
  \/ n < s.start
  \/ n < s.highest /\ ~Has(s.ranges, n)
  \/ Adjusted(s, n) - HighestAdjusted(s) <= -Slots

Push(f) ==
  LET p == flight[f]
      s == Begun(p.number) IN
  /\ p # NoPacket
  /\ flight' = [flight EXCEPT ![f] = NoPacket]
  /\ seqr' = IF TooOld(s, p.number) THEN s
            ELSE [s EXCEPT !.highest = IF p.number > @ THEN p.number ELSE @,
                           !.meta = [k \in DOMAIN @ |->
                              IF k = SlotOf(s, p.number) THEN p
                              ELSE IF k \in Skipped(s, p.number) THEN Invalid ELSE @[k]]]
  /\ UNCHANGED <<munger, got, before, padding, turn, given>>

\* A burst that comes late cannot be excluded any more: its slots are wasted.
Wasted(s, burst) ==
  {SlotOf(s, n) : n \in {m \in burst.from..burst.to :
                           /\ m < s.highest /\ m - s.highest >= -Slots
                           /\ Has(s.ranges, m)}}

PushPadding ==
  /\ padding # NoBurst
  /\ padding' = NoBurst
  /\ seqr' = IF ~seqr.initialized THEN seqr
            ELSE IF padding.from <= seqr.highest
            THEN [seqr EXCEPT !.meta = [k \in DOMAIN @ |->
                    IF k \in Wasted(seqr, padding) THEN Invalid ELSE @[k]]]
            ELSE [seqr EXCEPT !.highest = padding.to,
                    !.ranges = ExcludeRange(@, SeqRanges, padding.from, padding.to)]
  /\ UNCHANGED <<munger, got, before, flight, turn, given>>

\* getExtPacketMetas, for a number on the wire: the most recent number it can
\* stand for,
Meant(x) == seqr.highest - ((seqr.highest - x) % Cycle)
\* and the packet that is sent again, or none.
Answer(x) ==
  LET n == Meant(x)
      back == HighestAdjusted(seqr) - Adjusted(seqr, n)
      p == seqr.meta[SlotOf(seqr, n)] IN
  IF /\ seqr.initialized
     /\ seqr.highest - n <= Cycle \div 2
     /\ Has(seqr.ranges, n)
     /\ back >= 0 /\ back < Slots
     /\ p.number % Cycle = x
  THEN p ELSE Invalid

----------------------------------------------------------------------------
ForwardingNext ==
  \/ \E f \in Feeds :
       \/ \E sn \in Incoming[f] :
            InOrder(f, sn) \/ Drop(f, sn) \/ LatePacket(f, sn) \/ Start(f, sn) \/ SwitchFeed(f, sn)
       \/ Push(f)
  \/ \E num \in 1..MaxBurst : WritePadding(num)
  \/ Resync
  \/ PushPadding

ForwardingSpec == ForwardingInit /\ [][ForwardingNext]_forwardingVars

----------------------------------------------------------------------------
(* Properties.                                                             *)

Contents == [kind : {"nothing", "padding", "withheld", "media"}, turn : Nat, sn : Nat]
SnRange == [start : Nat, end : Int, value : Int]
Packet == [number : Nat, sn : Nat]
Sequencers ==
  [initialized : BOOLEAN, start : Nat, highest : Nat, ranges : Seq(SnRange),
   meta : [0..(Slots - 1) -> Packet]]

ForwardingTypes ==
  /\ started \in BOOLEAN /\ feed \in Feeds \cup {NoFeed} /\ boundary \in BOOLEAN
  /\ highest \in Nat /\ last \in Nat /\ turn \in Nat
  /\ ranges \in Seq(SnRange) /\ ranges # <<>>
  /\ got \in [Feeds -> SUBSET Nat] /\ before \subseteq Nat
  /\ flight \in [Feeds -> Packet]
  /\ padding \in [from : Nat, to : Nat]
  /\ seqr \in Sequencers /\ seqr.ranges # <<>>
  /\ given \in [Numbers -> Contents]

\* A number that was given to a packet, to padding, or to nothing for good is
\* never given to anything else: what the subscriber receives, loses and asks
\* for again under a number is one packet.
Kept == \A n \in Numbers : given[n] # Nothing => given'[n] = given[n]
GivenOnce == [][Kept]_forwardingVars

\* Within a turn, numbers are in the order of the packets, late ones included:
\* what the subscriber puts in order by number is in order.  (With the types.)
Rising ==
  \A m \in Numbers : given[m].kind = "media" =>
    \A n \in Numbers :
      m < n /\ given[n].kind = "media" /\ given[m].turn = given[n].turn
        => given[m].sn < given[n].sn
InSourceOrder == ForwardingTypes /\ Rising

\* A number up to the last that was given to nothing is kept for a packet that has
\* not come yet, unless it is older than the ranges.  So a packet that is dropped in
\* its turn (Drop) leaves no hole, with padding and late packets around it; the holes
\* that stay are the numbers withheld from packets behind a gap, from late ones and
\* for lack of bandwidth, and those of packets lost for good.  (A hole looks like a
\* loss to the subscriber.)
UnusedIsReserved ==
  feed # NoFeed =>
    \A n \in Numbers :
      /\ n >= ranges[1].start - ranges[1].value /\ n < last
      /\ given[n] = Nothing
      => \E sn \in ranges[1].start..(highest - 1) :
           /\ sn \notin got[feed] \ before
           /\ Has(ranges, sn) /\ LateNumber(sn) = n

\* A packet sent again was sent under a number that is, on the wire, the one asked
\* for; and it is the most recent number that can be meant, unless the slot has kept
\* the packet for a whole cycle of numbers.  (It does where, time after time, the
\* number of that slot is withheld or late and padding follows: PushPadding goes on
\* to the end of the burst and invalidates nothing before it.)
AnswersAreRight ==
  \A x \in 0..(Cycle - 1) :
    LET p == Answer(x) IN
    p # Invalid => /\ p.number % Cycle = x
                   /\ given[p.number].kind = "media" /\ given[p.number].sn = p.sn
                   /\ seqr.highest - p.number < Cycle => p.number = Meant(x)

\* Every packet recorded among the last Slots numbers can be asked for again,
\* whatever padding was sent between and in whichever order they were recorded.
Recorded(n) ==
  /\ given[n].kind = "media"
  /\ \A f \in Feeds : flight[f].number # n
RecentIsAnswered ==
  seqr.initialized =>
    \A n \in Numbers :
      /\ Recorded(n) /\ n >= seqr.start
      /\ n <= seqr.highest /\ seqr.highest - n < Slots
      => Answer(n % Cycle) = [number |-> n, sn |-> given[n].sn]

\* All of it: numbers are in the order of the source and none is left out that is not
\* withheld or kept for a packet to come, and a recent number asked for again is
\* answered with its packet.
NumbersMatch == InSourceOrder /\ UnusedIsReserved /\ AnswersAreRight /\ RecentIsAnswered

=============================================================================
