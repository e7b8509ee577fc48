-------------------------- MODULE VideoAllocation --------------------------
(***************************************************************************)
(* What a Forwarder makes of its layers: the allocations of one video      *)
(* track, as operators on the state x of its forwarder and the bitrates r  *)
(* of its feed (pkg/sfu/forwarder.go).  Each is what the code does under   *)
(* the forwarder's lock and yields the new state.                          *)
(*                                                                         *)
(* A layer is <<spatial, temporal>>; a bitrate of 0 is a layer that is not *)
(* sent or not measured yet.  Every layer was seen once (maxSeenLayer is   *)
(* the highest).  The distance to the desired layer, which only orders     *)
(* tracks, and what H264 makes of a temporal layer (1589-1592) are left    *)
(* out.                                                                    *)
(***************************************************************************)
EXTENDS Integers, FiniteSets, FiniteSetsExt

CONSTANTS
  MaxSpatial, MaxTemporal,  \* DefaultMaxLayerSpatial, DefaultMaxLayerTemporal
  Overshoot,                \* IsOvershootOkay: a higher layer than the maximum will do
  SpatialCost               \* TransitionCostSpatial

ASSUME LayersAssumption ==
  MaxSpatial \in Nat /\ MaxTemporal \in Nat /\ Overshoot \in BOOLEAN /\ SpatialCost \in Nat

Layers == (0..MaxSpatial) \X (0..MaxTemporal)
NoLayer == <<-1, -1>>
Valid(l) == l[1] # -1 /\ l[2] # -1
Above(l, k) == l[1] > k[1] \/ (l[1] = k[1] /\ l[2] > k[2])

Reasons == {"none", "muted", "pubMuted", "dry", "bandwidth"}
Forwarders == [muted : BOOLEAN, pubMuted : BOOLEAN, max : Layers,
               current : Layers \cup {NoLayer}, target : Layers \cup {NoLayer},
               request : -1..MaxSpatial, deficient : BOOLEAN, requested : Nat,
               reason : Reasons]

AnyMuted(x) == x.muted \/ x.pubMuted

----------------------------------------------------------------------------
(* Layers with a bitrate.                                                  *)

Within(l) == {k \in Layers : k[1] <= l[1] /\ k[2] <= l[2]}
HighestIn(S, r) ==
  LET T == {l \in S : r[l] # 0} IN
  IF T = {} THEN NoLayer ELSE CHOOSE l \in T : \A k \in T : ~Above(k, l)
LowestIn(S, r) ==
  LET T == {l \in S : r[l] # 0} IN
  IF T = {} THEN NoLayer ELSE CHOOSE l \in T : \A k \in T : ~Above(l, k)
RateOf(l, r) == IF Valid(l) THEN r[l] ELSE 0

\* getOptimalBandwidthNeeded, of the highest layer up to l.
OptimalNeeded(x, r, l) == IF AnyMuted(x) THEN 0 ELSE RateOf(HighestIn(Within(l), r), r)
\* getBandwidthNeeded: when the target is not measured, what was requested last.
Needed(x, r) == IF RateOf(x.target, r) > 0 THEN r[x.target] ELSE x.requested

\* updateAllocation, setTargetLayer: without a target the forwarder resyncs.
Updated(x, target, request, deficient, requested, reason) ==
  [x EXCEPT !.target = target, !.request = IF Valid(target) THEN request ELSE -1,
            !.current = IF Valid(target) THEN @ ELSE NoLayer,
            !.deficient = deficient, !.requested = requested, !.reason = reason]

\* SetMaxSpatialLayer: a track without a target, unless it is muted or waits for
\* bandwidth, is given the new maximum at once.
WithMax(x, l) ==
  LET y == [x EXCEPT !.max = l] IN
  IF \/ l[1] = x.max[1] \/ Valid(x.target) \/ x.deficient
     \/ x.reason \in {"muted", "pubMuted"}
  THEN y
  ELSE Updated(y, l, l[1], FALSE, 0, x.reason)

\* Mute, PubMute: the packets that come are not forwarded.
Muted(x, muted, pubMuted) ==
  [x EXCEPT !.muted = muted, !.pubMuted = pubMuted,
            !.current = IF (muted /\ ~x.muted) \/ (pubMuted /\ ~x.pubMuted)
                        THEN NoLayer ELSE @]

\* Simulcast.Select, on a key frame of a spatial layer: it is nearer to the target,
\* or not above the maximum any more; at the maximum the target follows.
Selects(x, s) ==
  /\ ~AnyMuted(x)
  /\ \/ x.current[1] < s /\ s <= x.target[1]
     \/ x.target[1] <= s /\ s < x.current[1]
     \/ x.max[1] < x.current[1] /\ s <= x.max[1]
Selected(x, s) ==
  [x EXCEPT !.current = <<s, x.target[2]>>,
            !.target[1] = IF s >= x.max[1] \/ s = MaxSpatial THEN s ELSE @]

----------------------------------------------------------------------------
(* Allocations without and with a channel to share.                        *)

\* AllocateOptimal, of the available spatial layers; on hold nothing is raised.
AllocateOptimal(x, r, available, hold) ==
  LET within == {s \in available : s <= x.max[1]}
      wish == IF within # {} THEN Max(within)
              ELSE IF available # {} /\ Overshoot THEN Max(available) ELSE -1
      lowest == IF available = {} THEN 0 ELSE Min(available)
      target ==
        IF Valid(x.current)
        THEN IF wish = -1 \/ (wish = x.request /\ x.current[1] = wish)
             THEN <<x.current[1], x.max[2]>>
             ELSE IF hold THEN <<lowest, 0>> ELSE <<wish, x.max[2]>>
        ELSE IF hold THEN <<lowest, 0>>
        ELSE <<IF Overshoot THEN MaxSpatial ELSE x.max[1], x.max[2]>>
      request == IF Valid(x.current) \/ hold THEN target[1]
                 ELSE IF wish = -1 THEN x.max[1] ELSE wish IN
  IF x.muted THEN Updated(x, NoLayer, -1, FALSE, 0, "muted")
  ELSE IF x.pubMuted THEN Updated(x, NoLayer, -1, FALSE, 0, "pubMuted")
  ELSE Updated(x, target, request, FALSE, OptimalNeeded(x, r, target),
               IF OptimalNeeded(x, r, x.max) = 0 THEN "dry" ELSE "none")

\* ProvisionalAllocate: the layer that is allocated provisionally when `layer` is
\* offered to a track that has p so far.  (Without overshoot, as it is called.)
Offered(x, r, p, layer, capacity, allowPause) ==
  IF AnyMuted(x) \/ Above(layer, x.max) \/ r[layer] = 0 THEN p
  ELSE IF r[layer] <= capacity + RateOf(p, r) THEN layer
  ELSE IF ~allowPause /\ (~Valid(p) \/ ~Above(layer, p)) THEN layer
  ELSE p

\* ProvisionalAllocateGetCooperativeTransition: the layer to move to without
\* taking more, or the least to begin with.
CooperativeLayer(x, r) ==
  LET maximal == HighestIn(Within(x.max), r)
      minimal == LowestIn(Within(x.max), r) IN
  IF AnyMuted(x) THEN NoLayer
  ELSE IF Valid(x.target)
  THEN IF Valid(maximal) /\ Above(x.target, maximal) THEN maximal
       ELSE IF Valid(maximal) /\ r[x.target] # 0 THEN x.target
       ELSE x.current
  ELSE IF Valid(minimal) THEN minimal ELSE x.current

\* What a track that is to move from its target to l takes more.
Delta(x, r, l) ==
  IF ~AnyMuted(x) /\ l = x.target /\ RateOf(l, r) # 0 THEN 0
  ELSE (IF AnyMuted(x) THEN 0 ELSE RateOf(l, r)) - Needed(x, r)

\* ProvisionalAllocateGetBestWeightedTransition: the layer that saves most for
\* its cost, and what it saves; the lowest of equal ones.
Saving(x, r, l) == Max({0, Needed(x, r) - r[l]})
TransitionCost(x, r, l) ==
  LET reachable == Max({k[2] : k \in {j \in Within(x.max) : r[j] # 0}}) IN
  (IF x.target[1] # l[1] THEN SpatialCost ELSE 0)
    + (reachable + 1) * (x.target[1] - l[1]) + (x.target[2] - l[2])
Better(x, r, l, k) ==
  LET a == Saving(x, r, l) * TransitionCost(x, r, k)
      b == Saving(x, r, k) * TransitionCost(x, r, l) IN
  \/ a > b
  \/ a = b /\ Saving(x, r, l) > Saving(x, r, k)
  \/ a = b /\ Saving(x, r, l) = Saving(x, r, k) /\ Above(k, l)
BestWeighted(x, r) ==
  LET offers == {l \in Within(x.target) \ {x.target} : Saving(x, r, l) > 0}
      best == CHOOSE l \in offers : \A k \in offers \ {l} : Better(x, r, l, k) IN
  IF AnyMuted(x) THEN [layer |-> NoLayer, saves |-> Needed(x, r)]
  ELSE IF HighestIn(Within(x.max), r) = NoLayer
  THEN [layer |-> x.current, saves |-> Needed(x, r)]
  ELSE IF offers = {} THEN [layer |-> NoLayer, saves |-> 0]
  ELSE [layer |-> best, saves |-> Saving(x, r, best)]

\* ProvisionalAllocateCommit.
AllocateCommit(x, r, p) ==
  LET optimal == OptimalNeeded(x, r, x.max)
      deficient == ~Above(p, x.max) /\ RateOf(p, r) < optimal
      resumes == IF Valid(x.current) /\ x.current[1] <= x.max[1] THEN x.current ELSE p IN
  IF x.muted THEN Updated(x, p, p[1], FALSE, 0, "muted")
  ELSE IF x.pubMuted THEN Updated(x, p, p[1], FALSE, 0, "pubMuted")
  ELSE IF optimal = 0
  THEN IF Valid(p) THEN Updated(x, p, p[1], FALSE, r[p], "none")
       ELSE Updated(x, resumes, resumes[1], FALSE, 0, "dry")
  ELSE Updated(x, p, p[1], deficient, RateOf(p, r),
               IF deficient /\ ~Valid(p) THEN "bandwidth" ELSE "none")

\* AllocateNextHigher, in a capacity (the track is deficient and does not
\* overshoot): the layer it would move to,
NextHigher(x, r) ==
  LowestIn({l \in Layers : \/ l[1] = x.target[1] /\ l[2] \in (x.target[2] + 1)..x.max[2]
                           \/ l[1] \in (x.target[1] + 1)..x.max[1] /\ l[2] <= x.max[2]}, r)
\* whether it fits, and the move.
Boostable(x, r, capacity) ==
  /\ x.deficient
  /\ Valid(NextHigher(x, r))
  /\ r[NextHigher(x, r)] - RateOf(x.target, r) <= capacity
Boosted(x, r) ==
  LET l == NextHigher(x, r) IN
  Updated(x, l, l[1], ~Above(l, x.max) /\ r[l] < OptimalNeeded(x, r, x.max), r[l], "none")

\* Pause.
Paused(x, r) ==
  LET dry == OptimalNeeded(x, r, x.max) = 0
      reason == IF x.muted THEN "muted" ELSE IF x.pubMuted THEN "pubMuted"
                ELSE IF dry THEN "dry" ELSE "bandwidth" IN
  Updated(x, NoLayer, -1, reason = "bandwidth", 0, reason)

----------------------------------------------------------------------------
(* A mutant: a track that is paused is not deficient.                      *)
=============================================================================
