-------------------------- MODULE StreamAllocator --------------------------
(***************************************************************************)
(* How the video tracks of one subscriber share its channel:               *)
(* pkg/sfu/streamallocator, on the allocations of VideoAllocation.         *)
(*                                                                         *)
(* The allocator handles events one at a time, in the order of its queue;  *)
(* a handler is one step.  Feeds, mutes, maximum layers and priorities     *)
(* change at any time, and the bandwidth estimator (BWE) changes its state *)
(* and tells so in an event.  Probing is by padding; left out are probing  *)
(* by media (ProbeModeMedia), the least capacity (MinChannelCapacity), the *)
(* overridden one (a debugging aid) and the probe's own clusters.          *)
(***************************************************************************)
EXTENDS VideoAllocation, Sequences, SequencesExt

CONSTANTS
  Tracks,
  Managed,     \* all but screen shares of one layer
  Upstreams,       \* what a publisher may send: [available, rate]
  MaxLayers,   \* what a subscriber may ask for
  Capacities,  \* what the BWE may estimate
  MaxChanges   \* a bound: changes from outside

ASSUME AllocatorAssumption ==
  /\ IsFiniteSet(Tracks)
  /\ Upstreams \subseteq [available : SUBSET (0..MaxSpatial), rate : [Layers -> Nat]]
  /\ MaxLayers \subseteq Layers
  /\ Capacities \subseteq Nat /\ Capacities # {} /\ IsFiniteSet(Capacities)

VARIABLES
  videoTracks,     \* the forwarder of each track that is subscribed to
  upstream,       \* what its publisher sends
  priority,
  dirty,      \* Track.isDirty
  stream,     \* Track.streamState
  queue,      \* eventsQueue
  allPending, \* isAllocateAllPending
  allocatorState,      \* "stable" or "deficient"
  capacity,   \* committedChannelCapacity
  allowPause,
  congestion, \* the state of the BWE
  probe,      \* a probe: none, asked of the prober, or active (activeProbeClusterId)
  changes

outside == <<upstream, priority, changes>>
allocatorVars == <<videoTracks, outside, dirty, stream, queue, allPending, allocatorState,
                   capacity, allowPause, congestion, probe>>

EventOf(kind) == [kind |-> kind, track |-> "", from |-> "none", to |-> "none", value |-> 0]
AllocateTrack(t) == [EventOf("track") EXCEPT !.track = t]
Resume(t) == [EventOf("resume") EXCEPT !.track = t]

New == [muted |-> FALSE, pubMuted |-> FALSE, max |-> <<MaxSpatial, MaxTemporal>>,
        current |-> NoLayer, target |-> NoLayer, request |-> -1, deficient |-> FALSE,
        requested |-> 0, reason |-> "none"]

\* The tracks were added one after the other; none was allocated yet.  (They are
\* sent alike at first, a bound: a feed changes at any time.)
AllocatorInit ==
  /\ videoTracks = [t \in Tracks |-> New]
  /\ upstream \in {[t \in Tracks |-> f] : f \in Upstreams}
  /\ priority = [t \in Tracks |-> 1]
  /\ dirty = Tracks
  /\ stream = [t \in Tracks |-> "inactive"]
  /\ queue \in {[i \in DOMAIN o |-> AllocateTrack(o[i])] : o \in SetToSeqs(Tracks)}
  /\ allPending = FALSE
  /\ allocatorState = "stable"
  /\ capacity = Max(Capacities)
  /\ allowPause \in BOOLEAN
  /\ congestion = "none" /\ probe = "none"
  /\ changes = 0

Here == DOMAIN videoTracks
Rate(t) == upstream[t].rate
Usage(ts) == MapThenSumSet(LAMBDA t : Needed(ts[t], Rate(t)), DOMAIN ts)
Deficient(ts) == {t \in DOMAIN ts \cap Managed : ts[t].deficient}

----------------------------------------------------------------------------
(* What happens outside, and the events it posts.                          *)

Change == changes < MaxChanges /\ changes' = changes + 1

\* maybePostEventAllocateTrack: one event of a track at a time.
Post(t) ==
  IF t \in Here /\ t \notin dirty
  THEN dirty' = dirty \cup {t} /\ queue' = Append(queue, AllocateTrack(t))
  ELSE UNCHANGED <<dirty, queue>>

AddDownTrack(t) ==
  /\ Change
  /\ t \notin Here
  /\ videoTracks' = [u \in Here \cup {t} |-> IF u = t THEN New ELSE videoTracks[u]]
  /\ stream' = [u \in Here \cup {t} |-> IF u = t THEN "inactive" ELSE stream[u]]
  /\ dirty' = dirty \cup {t} /\ queue' = Append(queue, AllocateTrack(t))
  /\ UNCHANGED <<upstream, priority, allPending, allocatorState, capacity, allowPause,
                 congestion, probe>>

\* Mutant: the allocator looks no more after a track was removed.
MutRemoveDownTrack(t) ==
  /\ Change
  /\ t \in Here
  /\ videoTracks' = [u \in Here \ {t} |-> videoTracks[u]]
  /\ stream' = [u \in Here \ {t} |-> stream[u]]
  /\ dirty' = dirty \ {t}
  /\ UNCHANGED <<upstream, priority, queue, allPending, allocatorState, capacity,
                 allowPause, congestion, probe>>

RemoveDownTrack(t) ==
  /\ Change
  /\ t \in Here
  /\ videoTracks' = [u \in Here \ {t} |-> videoTracks[u]]
  /\ stream' = [u \in Here \ {t} |-> stream[u]]
  /\ dirty' = dirty \ {t}
  /\ queue' = Append(queue, EventOf("adjust"))
  /\ UNCHANGED <<upstream, priority, allPending, allocatorState, capacity, allowPause,
                 congestion, probe>>

\* Layers start and stop, bitrates become known: only then is there an event.
FeedChanges(t, f) ==
  /\ Change
  /\ t \in Here /\ f # upstream[t]
  /\ upstream' = [upstream EXCEPT ![t] = f]
  /\ IF \/ f.available # upstream[t].available
        \/ \E l \in Layers : (f.rate[l] = 0) # (upstream[t].rate[l] = 0)
     THEN Post(t)
     ELSE UNCHANGED <<dirty, queue>>
  /\ UNCHANGED <<videoTracks, priority, stream, allPending, allocatorState, capacity,
                 allowPause, congestion, probe>>

\* A subscriber's mute is ignored while the stream is paused (IsSubscribeMutable).
SetMuted(t, muted, pubMuted) ==
  /\ Change
  /\ t \in Here
  /\ muted # videoTracks[t].muted \/ pubMuted # videoTracks[t].pubMuted
  /\ muted /\ ~videoTracks[t].muted => stream[t] # "paused"
  /\ videoTracks' = [videoTracks EXCEPT ![t] = Muted(@, muted, pubMuted)]
  /\ Post(t)
  /\ UNCHANGED <<upstream, priority, stream, allPending, allocatorState, capacity,
                 allowPause, congestion, probe>>

SetMax(t, l) ==
  /\ Change
  /\ t \in Here /\ l # videoTracks[t].max
  /\ videoTracks' = [videoTracks EXCEPT ![t] = WithMax(@, l)]
  /\ Post(t)
  /\ UNCHANGED <<upstream, priority, stream, allPending, allocatorState, capacity,
                 allowPause, congestion, probe>>

SetTrackPriority(t, n) ==
  /\ Change
  /\ t \in Here /\ n # priority[t]
  /\ priority' = [priority EXCEPT ![t] = n]
  /\ allPending' = TRUE
  /\ queue' = IF allPending THEN queue ELSE Append(queue, EventOf("all"))
  /\ UNCHANGED <<videoTracks, upstream, dirty, stream, allocatorState, capacity, allowPause,
                 congestion, probe>>

\* A key frame of a spatial layer: the forwarder switches to it, and resumes.
KeyFrame(t, s) ==
  /\ t \in Here /\ s \in upstream[t].available
  /\ Valid(videoTracks[t].target)
  /\ Selects(videoTracks[t], s)
  /\ videoTracks' = [videoTracks EXCEPT ![t] = Selected(@, s)]
  /\ queue' = IF Valid(videoTracks[t].current) THEN queue ELSE Append(queue, Resume(t))
  /\ UNCHANGED <<outside, dirty, stream, allPending, allocatorState, capacity, allowPause,
                 congestion, probe>>

\* The BWE finds the channel clear, at risk, or congested (again), with an estimate.
CongestionChanges(to, value) ==
  /\ Change
  /\ to # congestion \/ to = "congested"
  /\ congestion' = to
  /\ queue' = Append(queue, [EventOf("congestion") EXCEPT !.from = congestion, !.to = to,
                                                        !.value = value])
  /\ UNCHANGED <<videoTracks, upstream, priority, dirty, stream, allPending, allocatorState,
                 capacity, allowPause, probe>>

SetAllowPause ==
  /\ Change
  /\ allowPause' = ~allowPause
  /\ UNCHANGED <<videoTracks, upstream, priority, dirty, stream, queue, allPending,
                 allocatorState, capacity, congestion, probe>>

----------------------------------------------------------------------------
(* The allocator.                                                          *)

\* A handler ends: the tracks are ts, and the state is what they make of it
\* (adjustState, setState); a stable allocator starts the BWE anew.
AdjustState(ts) ==
  LET to == IF Deficient(ts) # {} THEN "deficient" ELSE "stable" IN
  /\ videoTracks' = ts
  /\ allocatorState' = to
  /\ IF to = "stable" /\ allocatorState # to
     THEN congestion' = "none" /\ probe' = "none"
     ELSE UNCHANGED <<congestion, probe>>
SameState(ts) ==
  /\ videoTracks' = ts
  /\ UNCHANGED <<allocatorState, congestion, probe>>

\* updateStreamStateChange: what the subscriber is told of the tracks that were
\* allocated anew.
Told(ts, done) ==
  stream' = [t \in Here |->
               IF t \notin done THEN stream[t]
               ELSE CASE ts[t].reason \in {"muted", "pubMuted"} -> "inactive"
                      [] ts[t].reason = "bandwidth" -> "paused"
                      [] OTHER -> stream[t]]

\* maybeBoostDeficientTracks: as long as something fits, a track of the highest
\* priority moves to its next higher layer; which one of them is left open.
Candidates(b) ==
  LET S == {t \in Deficient(b.tracks) : Boostable(b.tracks[t], Rate(t), b.room)} IN
  IF b.room <= 0 THEN {}
  ELSE {t \in S : \A u \in S : priority[t] >= priority[u]}
\* Mutant: a track that is boosted leaves the headroom as it was.
MutBoostOne(b) ==
  IF Candidates(b) = {} THEN {b}
  ELSE {[b EXCEPT !.tracks[t] = Boosted(@, Rate(t))] : t \in Candidates(b)}

BoostOne(b) ==
  IF Candidates(b) = {} THEN {b}
  ELSE {[tracks |-> [b.tracks EXCEPT ![t] = Boosted(@, Rate(t))],
         room |-> b.room - (Rate(t)[NextHigher(b.tracks[t], Rate(t))]
                              - RateOf(b.tracks[t].target, Rate(t)))] :
        t \in Candidates(b)}
Boost(ts, channel) ==
  LET after[n \in 0..(Cardinality(Tracks) * Cardinality(Layers))] ==
        IF n = 0 THEN {[tracks |-> ts, room |-> channel - Usage(ts)]}
        ELSE UNION {BoostOne(b) : b \in after[n - 1]} IN
  {b.tracks : b \in after[Cardinality(Tracks) * Cardinality(Layers)]}

\* Orders in which sorting may put tracks: by priority and maximum, falling, and by
\* priority, rising, the distances to what is desired aside.
Sorted(S) ==
  {o \in SetToSeqs(S) : \A i, j \in DOMAIN o : i < j =>
     \/ priority[o[i]] > priority[o[j]]
     \/ /\ priority[o[i]] = priority[o[j]]
        /\ ~Above(videoTracks[o[j]].max, videoTracks[o[i]].max)}
SortedRising(S) ==
  {o \in SetToSeqs(S) : \A i, j \in DOMAIN o : i < j => priority[o[i]] <= priority[o[j]]}
Raised ==
  [i \in 1..((MaxSpatial + 1) * (MaxTemporal + 1)) |->
     <<(i - 1) \div (MaxTemporal + 1), (i - 1) % (MaxTemporal + 1)>>]

\* allocateAllTracks: unmanaged tracks get what they want, the managed ones are
\* offered each layer in turn; without any capacity left they are paused.
OfferTo(layer, a, t) ==
  LET p == Offered(videoTracks[t], Rate(t), a.layers[t], layer, a.left, allowPause) IN
  [layers |-> [a.layers EXCEPT ![t] = p],
   left |-> IF p = a.layers[t] THEN a.left
            ELSE Max({0, a.left - (RateOf(p, Rate(t)) - RateOf(a.layers[t], Rate(t)))})]
OfferEach(layer, a, order) == FoldLeft(LAMBDA b, t : OfferTo(layer, b, t), a, order)
AllocateAll(channel, order) ==
  LET optimal == [t \in Here \ Managed |->
                    AllocateOptimal(videoTracks[t], Rate(t), upstream[t].available, FALSE)]
      used == MapThenSumSet(LAMBDA t : optimal[t].requested, DOMAIN optimal)
      left == Max({0, channel - used})
      offers == FoldLeft(LAMBDA a, layer : OfferEach(layer, a, order),
                         [layers |-> [t \in Here \cap Managed |-> NoLayer], left |-> left],
                         Raised) IN
  [t \in Here |->
     IF t \notin Managed THEN optimal[t]
     ELSE IF left = 0 /\ allowPause THEN Paused(videoTracks[t], Rate(t))
     ELSE AllocateCommit(videoTracks[t], Rate(t), offers.layers[t])]

AllocateAllTracks(channel) ==
  \E order \in Sorted(Here \cap Managed) :
    LET ts == AllocateAll(channel, order) IN
    /\ AdjustState(ts)
    /\ Told(ts, Here)

----------------------------------------------------------------------------
(* Handlers: each takes the first event.                                   *)

HandleEvent(kind) == queue # <<>> /\ Head(queue).kind = kind /\ queue' = Tail(queue)
Gone == Head(queue).track \notin Here

HandleGone ==
  /\ \E kind \in {"track", "resume"} : HandleEvent(kind)
  /\ Gone
  /\ dirty' = dirty \ {Head(queue).track}
  /\ UNCHANGED <<videoTracks, outside, stream, allPending, allocatorState, capacity,
                 allowPause, congestion, probe>>

\* allocateTrack: a track that needs not share, or while there is enough, gets
\* what it wants.
Free(t) == (allocatorState = "stable" /\ congestion # "congested") \/ t \notin Managed
HandleFree ==
  /\ HandleEvent("track") /\ ~Gone
  /\ dirty' = dirty \ {Head(queue).track}
  /\ LET t == Head(queue).track
         ts == [videoTracks EXCEPT ![t] = AllocateOptimal(@, Rate(t), upstream[t].available,
                                                     congestion = "early")] IN
     /\ Free(t)
     /\ SameState(ts)
     /\ Told(ts, {t})
  /\ UNCHANGED <<outside, allPending, capacity, allowPause>>

\* A track that gives back is moved down, and others are boosted with it.
HandleGivesBack ==
  /\ HandleEvent("track") /\ ~Gone
  /\ dirty' = dirty \ {Head(queue).track}
  /\ LET t == Head(queue).track
         p == CooperativeLayer(videoTracks[t], Rate(t))
         ts == [videoTracks EXCEPT ![t] = AllocateCommit(@, Rate(t), p)] IN
     /\ ~Free(t)
     /\ Above(videoTracks[t].target, p)
     /\ \E us \in Boost(ts, capacity) :
          AdjustState(us) /\ Told(us, {u \in Here : us[u] # videoTracks[u]} \cup {t})
  /\ UNCHANGED <<outside, allPending, capacity, allowPause>>

\* A track that is as it should be.
HandleNothing ==
  /\ HandleEvent("track") /\ ~Gone
  /\ dirty' = dirty \ {Head(queue).track}
  /\ ~Free(Head(queue).track)
  /\ LET x == videoTracks[Head(queue).track] IN
     CooperativeLayer(x, Rate(Head(queue).track)) = x.target
  /\ UNCHANGED <<videoTracks, outside, stream, allPending, allocatorState, capacity,
                 allowPause, congestion, probe>>

\* A track that needs more takes the best layer that fits in the headroom;
\* or others give what it needs to begin, one after the other; or it is paused.
FitLayer(t, room, a, layer) ==
  LET p == Offered(videoTracks[t], Rate(t), a.layer, layer, room, allowPause) IN
  IF a.done THEN a
  ELSE IF p # a.layer /\ RateOf(p, Rate(t)) - RateOf(a.layer, Rate(t)) > room
  THEN [a EXCEPT !.layer = p, !.done = TRUE]
  ELSE IF p # a.layer THEN [a EXCEPT !.layer = p, !.best = p] ELSE a
Fitting(t) ==
  LET room == capacity - Usage([u \in Here \ {t} |-> videoTracks[u]])
      none == [layer |-> NoLayer, best |-> NoLayer, done |-> FALSE] IN
  IF room <= 0 THEN none
  ELSE FoldLeft(LAMBDA a, layer : FitLayer(t, room, a, layer), none, Raised)

NeedsMore(t) ==
  /\ HandleEvent("track") /\ ~Gone
  /\ t = Head(queue).track
  /\ dirty' = dirty \ {t}
  /\ ~Free(t)
  /\ Above(CooperativeLayer(videoTracks[t], Rate(t)), videoTracks[t].target)

HandleFits(t) ==
  /\ NeedsMore(t)
  /\ Valid(Fitting(t).best)
  /\ LET ts == IF Above(Fitting(t).best, videoTracks[t].target)
               THEN [videoTracks EXCEPT ![t] = AllocateCommit(@, Rate(t), Fitting(t).layer)]
               ELSE videoTracks IN
     AdjustState(ts) /\ Told(ts, {u \in {t} : ts # videoTracks})
  /\ UNCHANGED <<outside, allPending, capacity, allowPause>>

\* The offers of the others in their order, up to what is needed.
Contribute(need, a, u) ==
  LET saves == BestWeighted(videoTracks[u], Rate(u)).saves IN
  IF (a.sum > 0 /\ a.sum >= need) \/ saves <= 0 THEN a
  ELSE [sum |-> a.sum + saves, from |-> a.from \cup {u}]
Contributors(order, need) ==
  FoldLeft(LAMBDA a, u : Contribute(need, a, u), [sum |-> 0, from |-> {}], order)

HandleRedistributes(t) ==
  /\ NeedsMore(t)
  /\ ~Valid(Fitting(t).best)
  /\ \E order \in SortedRising((Here \cap Managed) \ {t}) :
       LET p == CooperativeLayer(videoTracks[t], Rate(t))
           need == Delta(videoTracks[t], Rate(t), p)
           given == Contributors(order, need)
           enough == given.sum >= need
           from == IF enough THEN given.from ELSE {}
           ts == [u \in Here |->
                    LET x == videoTracks[u] IN
                    IF u = t
                    THEN IF enough \/ ~allowPause THEN AllocateCommit(x, Rate(u), p)
                         ELSE Paused(x, Rate(u))
                    ELSE IF u \in from
                    THEN AllocateCommit(x, Rate(u), BestWeighted(x, Rate(u)).layer)
                    ELSE x] IN
       AdjustState(ts) /\ Told(ts, from \cup {t})
  /\ UNCHANGED <<outside, allPending, capacity, allowPause>>

HandleAll ==
  /\ HandleEvent("all")
  /\ allPending' = FALSE
  /\ IF allocatorState = "deficient" THEN AllocateAllTracks(capacity)
     ELSE UNCHANGED <<videoTracks, stream, allocatorState, congestion, probe>>
  /\ UNCHANGED <<outside, dirty, capacity, allowPause>>

HandleAdjust ==
  /\ HandleEvent("adjust")
  /\ AdjustState(videoTracks)
  /\ UNCHANGED <<outside, dirty, stream, allPending, capacity, allowPause>>

HandleResume ==
  /\ HandleEvent("resume") /\ ~Gone
  /\ stream' = [stream EXCEPT ![Head(queue).track] = "active"]
  /\ UNCHANGED <<videoTracks, outside, dirty, allPending, allocatorState, capacity,
                 allowPause, congestion, probe>>

\* handleSignalCongestionStateChange: what was on hold is released when the channel
\* is clear; congestion that no probe has caused means to share what is left.
Released(e) == e.from = "early" /\ e.to = "none" /\ allocatorState = "stable"
HandleClear ==
  /\ HandleEvent("congestion")
  /\ Head(queue).to # "congested" \/ probe = "active"
  /\ LET ts == IF Released(Head(queue))
               THEN [t \in Here |->
                       AllocateOptimal(videoTracks[t], Rate(t), upstream[t].available,
                                       FALSE)]
               ELSE videoTracks IN
     SameState(ts) /\ Told(ts, {t \in Here : Released(Head(queue))})
  /\ UNCHANGED <<outside, dirty, allPending, capacity, allowPause>>
HandleCongested ==
  /\ HandleEvent("congestion")
  /\ Head(queue).to = "congested" /\ probe # "active"
  /\ capacity' = Head(queue).value
  /\ AllocateAllTracks(Head(queue).value)
  /\ UNCHANGED <<outside, dirty, allPending, allowPause>>

\* maybeProbe, in a ping, if there is a track to probe for; and the prober begins.
Probeable(x, r) ==
  /\ Valid(x.target) => x.target = x.current
  /\ \E l \in Layers : Above(l, x.target) /\ r[l] # 0 /\ r[l] >= RateOf(x.target, r)
AskProbe ==
  /\ allocatorState = "deficient" /\ congestion = "none" /\ probe = "none"
  /\ \E t \in Deficient(videoTracks) : Probeable(videoTracks[t], Rate(t))
  /\ probe' = "asked"
  /\ UNCHANGED <<videoTracks, outside, dirty, stream, queue, allPending, allocatorState,
                 capacity, allowPause, congestion>>
ProbeBegins ==
  /\ probe = "asked"
  /\ probe' = "active"
  /\ UNCHANGED <<videoTracks, outside, dirty, stream, queue, allPending, allocatorState,
                 capacity, allowPause, congestion>>

\* handleSignalPeriodicPing: a probe that is finalized, without congestion, boosts
\* deficient tracks with the capacity it has found.
FinalizeProbe(value) ==
  /\ probe = "active"
  /\ IF congestion = "none"
     THEN /\ capacity' = Max({capacity, value})
          /\ IF Max({capacity, value}) <= Usage(videoTracks)
             THEN UNCHANGED <<videoTracks, allocatorState, stream>>
             ELSE \E us \in Boost(videoTracks, Max({capacity, value})) :
                    /\ videoTracks' = us
                    /\ allocatorState' = IF Deficient(us) # {} THEN "deficient" ELSE "stable"
                    /\ Told(us, {u \in Here : us[u] # videoTracks[u]})
     ELSE UNCHANGED <<videoTracks, allocatorState, stream, capacity>>
  /\ probe' = "none" /\ congestion' = "none"
  /\ UNCHANGED <<outside, dirty, queue, allPending, allowPause>>

\* and a BWE that stays congested while all is paused is reset.
ResetBWE ==
  /\ allowPause /\ allocatorState = "deficient" /\ congestion # "none"
  /\ congestion' = "none" /\ probe' = "none"
  /\ UNCHANGED <<videoTracks, outside, dirty, stream, queue, allPending, allocatorState,
                 capacity, allowPause>>

AllocatorNext ==
  \/ \E t \in Tracks :
       \/ AddDownTrack(t) \/ RemoveDownTrack(t)
       \/ \E f \in Upstreams : FeedChanges(t, f)
       \/ \E muted, pubMuted \in BOOLEAN : SetMuted(t, muted, pubMuted)
       \/ \E l \in MaxLayers : SetMax(t, l)
       \/ \E n \in 1..2 : SetTrackPriority(t, n)
       \/ \E s \in 0..MaxSpatial : KeyFrame(t, s)
       \/ HandleFits(t) \/ HandleRedistributes(t)
  \/ \E to \in {"none", "early", "congested"}, value \in Capacities :
       CongestionChanges(to, value)
  \/ SetAllowPause
  \/ HandleGone \/ HandleFree \/ HandleGivesBack \/ HandleNothing
  \/ HandleAll \/ HandleAdjust \/ HandleResume \/ HandleClear \/ HandleCongested
  \/ AskProbe \/ ProbeBegins \/ ResetBWE
  \/ \E value \in Capacities : FinalizeProbe(value)

AllocatorSpec == AllocatorInit /\ [][AllocatorNext]_allocatorVars

----------------------------------------------------------------------------
(* Properties.                                                             *)

\* The allocator is deficient exactly when a track is: it would else probe for
\* nobody for ever, or give everything to a track as if there was enough.  (A
\* track that is removed is noticed a while later.)
StateMatches ==
  \/ (allocatorState = "deficient") = (Deficient(videoTracks) # {})
  \/ \E i \in DOMAIN queue : queue[i].kind = "adjust"

\* When the allocator is stable and has nothing to handle, nobody is left
\* without a layer who was paused, or came, while there was congestion.
StableServes ==
  allocatorState = "stable" /\ queue = <<>> /\ congestion = "none" =>
    \A t \in Here :
      LET x == videoTracks[t] IN
      Valid(x.target) \/ OptimalNeeded(x, Rate(t), x.max) = 0

\* The state of the allocator fits its tracks: it is deficient while one of them is, and
\* leaves nobody without when it is not.
StateFits == StateMatches /\ StableServes

\* Tracks that go on with a layer they may not have, while what they may have is not
\* sent: what they take is given away nevertheless ("opportunistic forwarding resuming
\* might trigger congestion again").
Opportunistic ==
  {t \in Here : LET x == videoTracks[t] IN
     /\ ~AnyMuted(x) /\ OptimalNeeded(x, Rate(t), x.max) = 0
     /\ RateOf(x.current, Rate(t)) > 0}

\* Sharing keeps within the capacity: where tracks may be paused, a handler that
\* shares never lets them use more than there is, unless they did so before; nor does
\* a boost.  (A track that moves down may use more than before where layers were not
\* measured.  HandleFits: see FittingFits.)
Exceeds == Usage(videoTracks') > Max({capacity', Usage(videoTracks)})
Keeps ==
  allowPause /\ Exceeds =>
    /\ \A v \in Capacities : ~FinalizeProbe(v)
    /\ Opportunistic = {} =>
         /\ Here \subseteq Managed => ~HandleAll /\ ~HandleCongested
         /\ \A t \in Here : ~HandleRedistributes(t)
    /\ HandleGivesBack =>
         \A u \in Here : u # Head(queue).track => videoTracks'[u] = videoTracks[u]
KeepsWithin == [][Keeps]_allocatorVars

\* A track that is fitted in the headroom fits: "found layer that can fit in
\* available headroom".
FittingFits ==
  [][\A t \in Here : allowPause /\ HandleFits(t) => ~Exceeds]_allocatorVars

=============================================================================
