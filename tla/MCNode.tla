------------------------------- MODULE MCNode -------------------------------
(* The parts of a media node of which only safety is checked: the sessions *)
(* of one identity (RoomSession), the node a room has among several        *)
(* (RoomPlacement), the publications of a participant (Publishing) and the *)
(* channel of one subscriber (StreamAllocator).  The parts are layers      *)
(* apart in the code and each leaves open what the others do, so they are  *)
(* explored one at a time.                                                 *)
EXTENDS RoomSession, RoomPlacement, Publishing, StreamAllocator, TLC

CONSTANTS r1, r2, c1, c2, signal

VARIABLE part  \* "sessions", "placement", "publishing" or "allocation"

\* The names of connections and room objects mean nothing, nor do those of tracks and
\* goroutines, or calls and nodes, for which they stand in other parts.
Symmetry == Permutations({r1, r2}) \cup Permutations({c1, c2})

----------------------------------------------------------------------------
\* Two joins and a call that deletes the room, on two nodes.  (Two tracks of a client
\* are published, with two goroutines beside the one of its signals.)
const_Kinds == [c \in {r1, r2, signal} |-> IF c = signal THEN {"delete"} ELSE {"join"}]

\* Two of the calls and a fault, or all three.
FaultOrThird == faults = 0 \/ stage[signal] = "start"

----------------------------------------------------------------------------
\* Two tracks of two spatial and two temporal layers, of which all or none are sent:
\* together they may need twice what the channel has, or it has no more than the lowest
\* layer of one.
Rates(a, b, c, d) == (<<0, 0>> :> a) @@ (<<0, 1>> :> b) @@ (<<1, 0>> :> c) @@ (<<1, 1>> :> d)
const_Upstreams == {[available |-> {0, 1}, rate |-> Rates(1, 2, 3, 4)],
                    [available |-> {}, rate |-> Rates(0, 0, 0, 0)]}
const_MaxLayers == {<<0, 1>>, <<1, 1>>}

----------------------------------------------------------------------------
\* Each part begins in its initial states and goes on alone; the others just stay as
\* they are while it is explored.
NoTracks ==
  /\ videoTracks = <<>> /\ upstream = <<>> /\ priority = <<>> /\ changes = 0
  /\ dirty = {} /\ stream = <<>> /\ queue = <<>> /\ allPending = FALSE
  /\ allocatorState = "stable" /\ capacity = 0 /\ allowPause = FALSE
  /\ congestion = "none" /\ probe = "none"

MCInit ==
  /\ Init /\ PlacementInit /\ PublishingInit
  /\ \/ part \in {"sessions", "placement", "publishing"} /\ NoTracks
     \/ part = "allocation" /\ AllocatorInit

MCNext ==
  /\ UNCHANGED part
  /\ \/ /\ part = "sessions" /\ Next
        /\ UNCHANGED <<placementVars, publishingVars, allocatorVars>>
     \/ /\ part = "placement" /\ Undecided /\ PlacementNext /\ FaultOrThird'
        /\ UNCHANGED <<vars, publishingVars, allocatorVars>>
     \/ /\ part = "publishing" /\ PublishingNext
        /\ UNCHANGED <<vars, placementVars, allocatorVars>>
     \/ /\ part = "allocation" /\ AllocatorNext
        /\ UNCHANGED <<vars, placementVars, publishingVars>>

MCSpec ==
  MCInit /\ [][MCNext]_<<part, vars, placementVars, publishingVars, allocatorVars>>

=============================================================================
