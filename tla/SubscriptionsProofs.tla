------------------------ MODULE SubscriptionsProofs ------------------------
(***************************************************************************)
(* Proofs about Subscriptions, for any number of tracks, ids and down      *)
(* tracks and any limit: the counter of subscribed tracks is right, the    *)
(* limit holds, a closed track keeps no subscriber and a denied one is     *)
(* revoked, however subscribing, closing and revoking interleave.          *)
(***************************************************************************)
EXTENDS Subscriptions, FiniteSetTheorems, TLAPS

HeldAll == \A s \in Subs : HeldInv(s)
MapAll == \A i \in Ids : MapInv(i)
InfosAll == (\A i \in Ids : InfosInv(i)) /\ \A t \in announcing : life[t] # "new"
DownAll == \A d \in Downs : DownInv(d)

\* A step lets go of no down track and takes none, and what is in use stays of its id.
SameHeld ==
  \A s \in Subs :
    /\ sub'[s].held = sub[s].held
    /\ sub[s].held # NoDown \/ worker.sub = s => sub'[s].of = sub[s].of
\* A step only asks down tracks to close.
OnlyAsked ==
  \A d \in Downs :
    /\ down'[d].of = down[d].of /\ down'[d].by = down[d].by
    /\ down'[d].stage = down[d].stage
         \/ (down[d].stage = "live" /\ down'[d].stage = "asked")

CountAll == count = Cardinality(Held) /\ count <= Limit

\* The two properties of forwarding tracks, for one down track.
ClosedOf(f) ==
  down[f].stage = "live" /\ life[down[f].of] = "closed"
    => worker.at = "recheck" /\ worker.down = f
DeniedOf(f) ==
  down[f].stage = "live" /\ ~allowed[IdOf[down[f].of]] /\ Published(down[f].of)
    => IdOf[down[f].of] \in revoking \/ down[f].late

\* RemoveSubscriber only asks: of each down track nothing but the stage changes.
LEMMA AskedEffect ==
  ASSUME TypeOK, NEW ts
  PROVE  /\ Asked(ts) \in [Downs -> DownTrack]
         /\ \A d \in Downs :
              /\ Asked(ts)[d].of = down[d].of /\ Asked(ts)[d].by = down[d].by
              /\ Asked(ts)[d].late = down[d].late
              /\ Asked(ts)[d].stage = IF down[d].of \in ts /\ down[d].stage = "live"
                                      THEN "asked" ELSE down[d].stage
<1>1. \A d \in Downs : down[d] \in DownTrack
  BY DEF TypeOK, WorkTypes
<1>2. \A d \in Downs : [down[d] EXCEPT !.stage = "asked"] \in DownTrack
  BY <1>1 DEF DownTrack, Stages
<1> QED
  BY <1>1, <1>2 DEF Asked, DownTrack

\* A finished down track is forgotten unless the worker or a subscription has it.
LEMMA FinishEffect ==
  ASSUME TypeOK, NEW d \in Downs
  PROVE  /\ Finish(d) \in DownTrack
         /\ \/ Finish(d).of = NoTrack /\ Finish(d).stage = "free" /\ Finish(d).by = NoSub
               /\ worker.down # d /\ \A i \in Subs : sub[i].held # d
            \/ /\ Finish(d).of = down[d].of /\ Finish(d).stage = "done"
               /\ Finish(d).by = down[d].by
<1>1. down[d] \in DownTrack
  BY DEF TypeOK, WorkTypes
<1>2. Free \in DownTrack
  BY DEF Free, DownTrack, Stages
<1>3. [down[d] EXCEPT !.stage = "done"] \in DownTrack
  BY <1>1 DEF DownTrack, Stages
<1> QED
  BY <1>1, <1>2, <1>3 DEF Finish, Free, DownTrack

\* Ceasing to want an id changes nothing that its subscription holds.
LEMMA UndesiredEffect ==
  ASSUME TypeOK, NEW i \in Subs
  PROVE  /\ Undesired(i) \in [Subs -> Subscription]
         /\ \A j \in Subs : /\ Undesired(i)[j].held = sub[j].held
                           /\ Undesired(i)[j].of = sub[j].of
                           /\ Undesired(i)[j].kind = sub[j].kind
<1>1. \A j \in Subs : sub[j] \in Subscription
  BY DEF TypeOK, SubTypes
<1>2. [[sub[i] EXCEPT !.desired = FALSE] EXCEPT !.watch = "none"] \in Subscription
  BY <1>1 DEF Subscription
<1>3. Undesired(i) = [sub EXCEPT ![i] = [[sub[i] EXCEPT !.desired = FALSE] EXCEPT !.watch = "none"]]
  BY DEF Undesired, TypeOK, SubTypes
<1> QED
  BY <1>1, <1>2, <1>3 DEF TypeOK, SubTypes, Subscription

\* Close asks the held down tracks to close, and lets go of nothing itself.
LEMMA CloseEffect ==
  ASSUME TypeOK, Close
  PROVE  /\ sub' \in [Subs -> Subscription] /\ down' \in [Downs -> DownTrack]
         /\ \A j \in Subs : sub'[j].held = sub[j].held /\ sub'[j].of = sub[j].of
         /\ \A d \in Downs :
              /\ down'[d].of = down[d].of /\ down'[d].by = down[d].by
              /\ down'[d].late = down[d].late
              /\ \/ down'[d].stage = down[d].stage
                 \/ down[d].stage = "live" /\ down'[d].stage = "asked"
<1> DEFINE held == {i \in Ids : Known(i) /\ sub[entry[i]].held # NoDown}
<1>1. sub' = [s \in Subs |-> IF \E i \in held : entry[i] = s THEN Undesired(s)[s] ELSE sub[s]]
  BY DEF Close
<1>2. \A i \in Subs : /\ Undesired(i)[i] \in Subscription
                      /\ Undesired(i)[i].held = sub[i].held
                      /\ Undesired(i)[i].of = sub[i].of
  BY UndesiredEffect
<1>3. \A i \in Subs : sub[i] \in Subscription
  BY DEF TypeOK, SubTypes
<1>4. /\ sub' \in [Subs -> Subscription]
      /\ \A j \in Subs : sub'[j].held = sub[j].held /\ sub'[j].of = sub[j].of
  <2> HIDE DEF held
  <2> QED
    BY <1>1, <1>2, <1>3
<1>5. down' = [d \in Downs |-> IF down[d].stage = "live" /\ \E i \in held : sub[entry[i]].held = d
                              THEN [down[d] EXCEPT !.stage = "asked"] ELSE down[d]]
  BY DEF Close
<1>6. \A d \in Downs : down[d] \in DownTrack /\ [down[d] EXCEPT !.stage = "asked"] \in DownTrack
  BY DEF TypeOK, WorkTypes, DownTrack, Stages
<1>7. \A d \in Downs : /\ [down[d] EXCEPT !.stage = "asked"].of = down[d].of
                       /\ [down[d] EXCEPT !.stage = "asked"].by = down[d].by
                       /\ [down[d] EXCEPT !.stage = "asked"].late = down[d].late
                       /\ [down[d] EXCEPT !.stage = "asked"].stage = "asked"
  BY <1>6 DEF DownTrack
<1> HIDE DEF held
<1> QED
  BY <1>4, <1>5, <1>6, <1>7

\* Taking an object out of a list leaves a list of objects that were in it.
LEMMA WithoutEffect ==
  ASSUME NEW list \in Seq(Tracks), NEW t \in Tracks
  PROVE  /\ Without(list, t) \in Seq(Tracks)
         /\ \A n \in 1..Len(Without(list, t)) : \E k \in 1..Len(list) : Without(list, t)[n] = list[k]
<1>1. CASE t \in ToSet(list)
  <2> DEFINE k == CHOOSE n \in 1..Len(list) : list[n] = t
  <2>1. k \in 1..Len(list)
    BY <1>1 DEF ToSet
  <2>2. Without(list, t) = RemoveAt(list, k)
    BY <1>1 DEF Without
  <2> HIDE DEF k
  <2>3. /\ RemoveAt(list, k) \in Seq(Tracks)
        /\ Len(RemoveAt(list, k)) = Len(list) - 1
        /\ \A n \in 1..Len(list) - 1 :
             RemoveAt(list, k)[n] = IF n < k THEN list[n] ELSE list[n + 1]
    <3> DEFINE A == SubSeq(list, 1, k - 1)
               B == SubSeq(list, k + 1, Len(list))
    <3>1. A \in Seq(Tracks) /\ Len(A) = k - 1 /\ \A n \in 1..k - 1 : A[n] = list[n]
      BY <2>1
    <3>2. /\ B \in Seq(Tracks) /\ Len(B) = Len(list) - k
          /\ \A n \in 1..Len(list) - k : B[n] = list[n + k]
      BY <2>1
    <3>3. RemoveAt(list, k) = A \o B
      BY DEF RemoveAt
    <3> HIDE DEF A, B
    <3>4. A \o B \in Seq(Tracks) /\ Len(A \o B) = Len(list) - 1
      <4>1. A \o B \in Seq(Tracks) /\ Len(A \o B) = Len(A) + Len(B)
        BY SMTT(30), <3>1, <3>2
      <4> QED
        BY <2>1, <3>1, <3>2, <4>1
    <3>5. ASSUME NEW n \in 1..Len(list) - 1
          PROVE  (A \o B)[n] = IF n < k THEN list[n] ELSE list[n + 1]
      <4>1. CASE n < k
        BY <2>1, <3>1, <3>2, <4>1
      <4>2. CASE ~(n < k)
        <5>1. (A \o B)[n] = B[n - (k - 1)] /\ n - (k - 1) \in 1..Len(list) - k
          BY <2>1, <3>1, <3>2, <4>2
        <5> QED
          BY <2>1, <3>2, <4>2, <5>1
      <4>3. k \in Int /\ n \in Int
        BY <2>1
      <4> QED
        BY <4>1, <4>2, <4>3
    <3> QED
      BY <3>3, <3>4, <3>5
  <2> QED
    BY <2>1, <2>2, <2>3
<1>2. CASE t \notin ToSet(list)
  BY <1>2 DEF Without
<1> QED
  BY <1>1, <1>2

\* The idle worker is a worker.
LEMMA IdleType ==
  Idle \in [at : Places, sub : Subs \cup {NoSub}, track : Tracks \cup {NoTrack},
           down : Downs \cup {NoDown}, late : BOOLEAN]
BY SubscriptionsAssumption DEF Idle, Places

\* Every step keeps the types of the published tracks.
LEMMA TrackTypesStep ==
  ASSUME TypeOK,
         [Next]_vars
  PROVE  TrackTypes'
<1>1. ASSUME NEW t \in Tracks, Publish(t)
      PROVE  TrackTypes'
  BY <1>1, SubscriptionsAssumption DEF Publish, Event, Published, TypeOK,
     TrackTypes
<1>2. ASSUME NEW t \in Tracks, Announce(t)
      PROVE  TrackTypes'
  BY <1>2, SubscriptionsAssumption DEF Announce, TypeOK, TrackTypes
<1>3. ASSUME NEW t \in Tracks, SetClosing(t)
      PROVE  TrackTypes'
  BY <1>3, SubscriptionsAssumption DEF SetClosing, Event, TypeOK, TrackTypes
<1>4. ASSUME NEW t \in Tracks, CloseTrack(t)
      PROVE  TrackTypes'
  BY <1>4, SubscriptionsAssumption DEF CloseTrack, Asked, TypeOK, TrackTypes
<1>5. CASE Leave
  BY <1>5, SubscriptionsAssumption DEF Leave, Event, Published, TypeOK,
     TrackTypes
<1>6. ASSUME NEW t \in Tracks, Unlist(t)
      PROVE  TrackTypes'
  <2>1. infos[IdOf[t]] \in Seq(Tracks) /\ IdOf[t] \in Ids
    BY SubscriptionsAssumption DEF TypeOK, TrackTypes
  <2>2. Without(infos[IdOf[t]], t) \in Seq(Tracks)
    BY <2>1, WithoutEffect
  <2> QED
    BY <1>6, <2>1, <2>2 DEF Unlist, TypeOK, TrackTypes
<1>7. ASSUME NEW t \in Tracks, NotifyRemoved(t)
      PROVE  TrackTypes'
  BY <1>7, SubscriptionsAssumption DEF NotifyRemoved, TypeOK, TrackTypes
<1>8. ASSUME NEW i \in Ids, SetPermission(i)
      PROVE  TrackTypes'
  BY <1>8, SubscriptionsAssumption DEF SetPermission, Event, pubVars, TypeOK,
     TrackTypes
<1>9. ASSUME NEW i \in Ids, Subscribe(i)
      PROVE  TrackTypes'
  BY <1>9, SubscriptionsAssumption DEF Subscribe, Event, pubVars, TypeOK,
     TrackTypes
<1>10. ASSUME NEW i \in Ids, Unsubscribe(i)
      PROVE  TrackTypes'
  BY <1>10, SubscriptionsAssumption DEF Unsubscribe, Event, Undesired,
     Dropped, pubVars, TypeOK, TrackTypes
<1>11. CASE Close
  BY <1>11, SubscriptionsAssumption DEF Close, Event, pubVars, TypeOK, TrackTypes
<1>12. CASE UNCHANGED <<life, removing, announcing, left, infos, events>>
  BY <1>12, SubscriptionsAssumption DEF TypeOK, TrackTypes
<1>13. CASE UNCHANGED vars
  BY <1>13, <1>12 DEF vars, pubVars, noteVars, permVars, mapVars, subVars
<1>14. ASSUME NEW d \in Downs, CloseDown(d)
      PROVE  TrackTypes'
  BY <1>14, <1>12 DEF CloseDown, pubVars, noteVars, permVars, mapVars, subVars
<1>15. ASSUME NEW d \in Downs, LeaveMap(d)
      PROVE  TrackTypes'
  BY <1>15, <1>12 DEF LeaveMap, pubVars, noteVars, permVars, mapVars, subVars
<1>16. ASSUME NEW d \in Downs, EarlyHandler(d)
      PROVE  TrackTypes'
  BY <1>16, <1>12 DEF EarlyHandler, pubVars, noteVars, permVars, mapVars, subVars
<1>17. ASSUME NEW d \in Downs, Handler(d)
      PROVE  TrackTypes'
  BY <1>17, <1>12 DEF Handler, pubVars, noteVars, permVars, mapVars, subVars
<1>18. ASSUME NEW d \in Downs, Unmark(d)
      PROVE  TrackTypes'
  BY <1>18, <1>12 DEF Unmark, pubVars, noteVars, permVars, mapVars, subVars
<1>19. ASSUME NEW d \in Downs, RemoveTrackLocal(d)
      PROVE  TrackTypes'
  BY <1>19, <1>12 DEF RemoveTrackLocal, pubVars, noteVars, permVars, mapVars, subVars
<1>20. ASSUME NEW i \in Ids, RevokeDisallowed(i)
      PROVE  TrackTypes'
  BY <1>20, <1>12 DEF RevokeDisallowed, pubVars, noteVars, permVars, mapVars, subVars
<1>21. ASSUME NEW i \in Ids, DropObserver(i)
      PROVE  TrackTypes'
  BY <1>21, <1>12 DEF DropObserver, pubVars, noteVars, permVars, mapVars, subVars
<1>22. ASSUME NEW t \in Tracks, RemovedResolves(t)
      PROVE  TrackTypes'
  BY <1>22, <1>12 DEF RemovedResolves, pubVars, noteVars, permVars, mapVars, subVars
<1>23. ASSUME NEW t \in Tracks, HandleSourceTrackRemoved(t)
      PROVE  TrackTypes'
  BY <1>23, <1>12 DEF HandleSourceTrackRemoved, pubVars, noteVars, permVars,
     mapVars, subVars
<1>24. ASSUME NEW s \in Subs, Resolve(s)
      PROVE  TrackTypes'
  BY <1>24, <1>12 DEF Resolve, pubVars, noteVars, permVars, mapVars, subVars
<1>25. ASSUME NEW s \in Subs, TrackNotFound(s)
      PROVE  TrackTypes'
  BY <1>25, <1>12 DEF TrackNotFound, pubVars, noteVars, permVars, mapVars, subVars
<1>26. CASE Watch
  BY <1>26, <1>12 DEF Watch, pubVars, noteVars, permVars, mapVars, subVars
<1>27. CASE Enter
  BY <1>27, <1>12 DEF Enter, pubVars, noteVars, permVars, mapVars, subVars
<1>28. CASE Insert
  BY <1>28, <1>12 DEF Insert, pubVars, noteVars, permVars, mapVars, subVars
<1>29. CASE Recheck
  BY <1>29, <1>12 DEF Recheck, pubVars, noteVars, permVars, mapVars, subVars
<1>30. CASE Attach
  BY <1>30, <1>12 DEF Attach, pubVars, noteVars, permVars, mapVars, subVars
<1>31. CASE Hold
  BY <1>31, <1>12 DEF Hold, pubVars, noteVars, permVars, mapVars, subVars
<1>32. ASSUME NEW s \in Subs, ReconcileUnsubscribe(s)
      PROVE  TrackTypes'
  BY <1>32, <1>12 DEF ReconcileUnsubscribe, pubVars, noteVars, permVars,
     mapVars, subVars
<1>33. ASSUME NEW t \in Tracks, RemoveSubscriber(t)
      PROVE  TrackTypes'
  BY <1>33, <1>12 DEF RemoveSubscriber, pubVars, noteVars, permVars, mapVars, subVars
<1>34. ASSUME NEW s \in Subs, Cleanup(s)
      PROVE  TrackTypes'
  BY <1>34, <1>12 DEF Cleanup, pubVars, noteVars, permVars, mapVars, subVars
<1>35. ASSUME NEW i \in Ids, Store(i)
      PROVE  TrackTypes'
  BY <1>35, <1>12 DEF Store, pubVars, noteVars, permVars,
     mapVars, subVars
<1>36. ASSUME NEW i \in Ids, Desire(i)
      PROVE  TrackTypes'
  BY <1>36, <1>12 DEF Desire, pubVars, noteVars, permVars,
     mapVars, subVars
<1>37. ASSUME NEW ss \in SUBSET {entry[i] : i \in {j \in Ids : Known(j)}}, Collect(ss)
      PROVE  TrackTypes'
  BY <1>37, <1>12 DEF Collect, pubVars, noteVars, permVars,
     mapVars, subVars
<1>38. ASSUME NEW s \in Subs, LetBe(s)
      PROVE  TrackTypes'
  BY <1>38, <1>12 DEF LetBe, pubVars, noteVars, permVars,
     mapVars, subVars
<1> QED
  BY <1>1, <1>2, <1>3, <1>4, <1>5, <1>6, <1>7, <1>8, <1>9, <1>10, <1>11,
     <1>13, <1>14, <1>15, <1>16, <1>17, <1>18, <1>19, <1>20, <1>21, <1>22,
     <1>23, <1>24, <1>25, <1>26, <1>27, <1>28, <1>29, <1>30, <1>31, <1>32,
     <1>33, <1>34, <1>35, <1>36, <1>37, <1>38 DEF Next, Reconcile,
     AddSubscriber, DownStep, TrackStep

\* Every step keeps the types of observers and permissions.
LEMMA NoteTypesStep ==
  ASSUME TypeOK,
         [Next]_vars
  PROVE  NoteTypes'
<1>1. ASSUME NEW t \in Tracks, NotifyRemoved(t)
      PROVE  NoteTypes'
  BY <1>1, SubscriptionsAssumption DEF NotifyRemoved, permVars, TypeOK,
     NoteTypes, MaxPending
<1>2. ASSUME NEW i \in Ids, SetPermission(i)
      PROVE  NoteTypes'
  BY <1>2, SubscriptionsAssumption DEF SetPermission, Event, noteVars,
     TypeOK, NoteTypes, MaxPending
<1>3. ASSUME NEW i \in Ids, RevokeDisallowed(i)
      PROVE  NoteTypes'
  BY <1>3, SubscriptionsAssumption DEF RevokeDisallowed, Asked, Published,
     noteVars, TypeOK, NoteTypes, MaxPending
<1>4. ASSUME NEW i \in Ids, Unsubscribe(i)
      PROVE  NoteTypes'
  <2>1. entry[i] \in Subs /\ sub[entry[i]] \in Subscription
    BY <1>4 DEF Unsubscribe, Desired, Known, TypeOK, MapTypes, SubTypes
  <2>2. dropping' \in [Ids -> Nat]
    BY <1>4, <2>1 DEF Unsubscribe, Dropped, Subscription, TypeOK, NoteTypes
  <2> QED
    BY <1>4, <2>2 DEF Unsubscribe, permVars, TypeOK, NoteTypes
<1>5. ASSUME NEW i \in Ids, DropObserver(i)
      PROVE  NoteTypes'
  BY <1>5, SubscriptionsAssumption DEF DropObserver, permVars, TypeOK,
     NoteTypes, MaxPending
<1>6. ASSUME NEW t \in Tracks, RemovedResolves(t)
      PROVE  NoteTypes'
  BY <1>6, SubscriptionsAssumption DEF RemovedResolves, permVars, TypeOK,
     NoteTypes, MaxPending
<1>7. ASSUME NEW t \in Tracks, HandleSourceTrackRemoved(t)
      PROVE  NoteTypes'
  BY <1>7, SubscriptionsAssumption DEF HandleSourceTrackRemoved, Undesired,
     Dropped, permVars, TypeOK, NoteTypes, MaxPending
<1>8. CASE Close
  <2>1. dropping' \in [Ids -> Nat]
    BY <1>8 DEF Close, TypeOK, NoteTypes
  <2> QED
    BY <1>8, <2>1 DEF Close, permVars, TypeOK, NoteTypes
<1>9. ASSUME NEW s \in Subs, TrackNotFound(s)
      PROVE  NoteTypes'
  <2>1. sub[s] \in Subscription
    BY DEF TypeOK, SubTypes
  <2>2. dropping' \in [Ids -> Nat]
    BY <1>9, <2>1 DEF TrackNotFound, Dropped, Subscription, TypeOK, NoteTypes
  <2> QED
    BY <1>9, <2>2 DEF TrackNotFound, permVars, TypeOK, NoteTypes
<1>10. CASE Watch
  BY <1>10, SubscriptionsAssumption DEF Watch, CanAdd, Idle, permVars,
     TypeOK, NoteTypes, MaxPending
<1>11. ASSUME NEW s \in Subs, ReconcileUnsubscribe(s)
      PROVE  NoteTypes'
  <2> DEFINE t == down[sub[s].held].of
  <2>1. unsub[t] < MaxPending /\ unsub' = [unsub EXCEPT ![t] = @ + 1]
    BY <1>11 DEF ReconcileUnsubscribe
  <2>2. UNCHANGED <<observed, dropping, callback, allowed, revoking>>
    BY <1>11 DEF ReconcileUnsubscribe, noteVars, permVars
  <2> HIDE DEF t
  <2>3. ASSUME NEW u \in Tracks
        PROVE  unsub'[u] \in 0..MaxPending
    <3>1. unsub[u] \in 0..MaxPending /\ MaxPending = 1
      BY DEF TypeOK, NoteTypes, MaxPending
    <3>2. CASE u = t
      <4>1. unsub'[u] = unsub[u] + 1 /\ unsub[u] < MaxPending
        BY <2>1, <3>2 DEF TypeOK, NoteTypes
      <4> QED
        BY <3>1, <4>1
    <3>3. CASE u # t
      BY <2>1, <3>1, <3>3 DEF TypeOK, NoteTypes
    <3> QED
      BY <3>2, <3>3
  <2>4. unsub' \in [Tracks -> 0..MaxPending]
    BY <2>1, <2>3 DEF TypeOK, NoteTypes
  <2> QED
    BY <2>2, <2>4 DEF TypeOK, NoteTypes
<1>12. ASSUME NEW t \in Tracks, RemoveSubscriber(t)
      PROVE  NoteTypes'
  BY <1>12, SubscriptionsAssumption DEF RemoveSubscriber, Asked, noteVars,
     permVars, TypeOK, NoteTypes, MaxPending
<1>13. CASE UNCHANGED <<observed, dropping, callback, allowed, revoking, unsub>>
  BY <1>13, SubscriptionsAssumption DEF TypeOK, NoteTypes, MaxPending
<1>14. CASE UNCHANGED vars
  BY <1>14, <1>13 DEF vars, pubVars, noteVars, permVars, mapVars, subVars
<1>15. ASSUME NEW d \in Downs, CloseDown(d)
      PROVE  NoteTypes'
  BY <1>15, <1>13 DEF CloseDown, pubVars, noteVars, permVars, mapVars, subVars
<1>16. ASSUME NEW d \in Downs, LeaveMap(d)
      PROVE  NoteTypes'
  BY <1>16, <1>13 DEF LeaveMap, pubVars, noteVars, permVars, mapVars, subVars
<1>17. ASSUME NEW d \in Downs, EarlyHandler(d)
      PROVE  NoteTypes'
  BY <1>17, <1>13 DEF EarlyHandler, pubVars, noteVars, permVars, mapVars, subVars
<1>18. ASSUME NEW d \in Downs, Handler(d)
      PROVE  NoteTypes'
  BY <1>18, <1>13 DEF Handler, pubVars, noteVars, permVars, mapVars, subVars
<1>19. ASSUME NEW d \in Downs, Unmark(d)
      PROVE  NoteTypes'
  BY <1>19, <1>13 DEF Unmark, pubVars, noteVars, permVars, mapVars, subVars
<1>20. ASSUME NEW d \in Downs, RemoveTrackLocal(d)
      PROVE  NoteTypes'
  BY <1>20, <1>13 DEF RemoveTrackLocal, pubVars, noteVars, permVars, mapVars, subVars
<1>21. ASSUME NEW t \in Tracks, Publish(t)
      PROVE  NoteTypes'
  BY <1>21, <1>13 DEF Publish, pubVars, noteVars, permVars, mapVars, subVars
<1>22. ASSUME NEW t \in Tracks, Announce(t)
      PROVE  NoteTypes'
  BY <1>22, <1>13 DEF Announce, pubVars, noteVars, permVars, mapVars, subVars
<1>23. ASSUME NEW t \in Tracks, SetClosing(t)
      PROVE  NoteTypes'
  BY <1>23, <1>13 DEF SetClosing, pubVars, noteVars, permVars, mapVars, subVars
<1>24. ASSUME NEW t \in Tracks, CloseTrack(t)
      PROVE  NoteTypes'
  BY <1>24, <1>13 DEF CloseTrack, pubVars, noteVars, permVars, mapVars, subVars
<1>25. CASE Leave
  BY <1>25, <1>13 DEF Leave, pubVars, noteVars, permVars, mapVars, subVars
<1>26. ASSUME NEW t \in Tracks, Unlist(t)
      PROVE  NoteTypes'
  BY <1>26, <1>13 DEF Unlist, pubVars, noteVars, permVars, mapVars, subVars
<1>27. ASSUME NEW i \in Ids, Subscribe(i)
      PROVE  NoteTypes'
  BY <1>27, <1>13 DEF Subscribe, pubVars, noteVars, permVars, mapVars, subVars
<1>28. ASSUME NEW s \in Subs, Resolve(s)
      PROVE  NoteTypes'
  BY <1>28, <1>13 DEF Resolve, pubVars, noteVars, permVars, mapVars, subVars
<1>29. CASE Enter
  BY <1>29, <1>13 DEF Enter, pubVars, noteVars, permVars, mapVars, subVars
<1>30. CASE Insert
  BY <1>30, <1>13 DEF Insert, pubVars, noteVars, permVars, mapVars, subVars
<1>31. CASE Recheck
  BY <1>31, <1>13 DEF Recheck, pubVars, noteVars, permVars, mapVars, subVars
<1>32. CASE Attach
  BY <1>32, <1>13 DEF Attach, pubVars, noteVars, permVars, mapVars, subVars
<1>33. CASE Hold
  BY <1>33, <1>13 DEF Hold, pubVars, noteVars, permVars, mapVars, subVars
<1>34. ASSUME NEW s \in Subs, Cleanup(s)
      PROVE  NoteTypes'
  BY <1>34, <1>13 DEF Cleanup, pubVars, noteVars, permVars, mapVars, subVars
<1>35. ASSUME NEW i \in Ids, Store(i)
      PROVE  NoteTypes'
  BY <1>35, <1>13 DEF Store, pubVars, noteVars, permVars,
     mapVars, subVars
<1>36. ASSUME NEW i \in Ids, Desire(i)
      PROVE  NoteTypes'
  BY <1>36, <1>13 DEF Desire, pubVars, noteVars, permVars,
     mapVars, subVars
<1>37. ASSUME NEW ss \in SUBSET {entry[i] : i \in {j \in Ids : Known(j)}}, Collect(ss)
      PROVE  NoteTypes'
  BY <1>37, <1>13 DEF Collect, pubVars, noteVars, permVars,
     mapVars, subVars
<1>38. ASSUME NEW s \in Subs, LetBe(s)
      PROVE  NoteTypes'
  BY <1>38, <1>13 DEF LetBe, pubVars, noteVars, permVars,
     mapVars, subVars
<1> QED
  BY <1>1, <1>2, <1>3, <1>4, <1>5, <1>6, <1>7, <1>8, <1>9, <1>10, <1>11,
     <1>12, <1>14, <1>15, <1>16, <1>17, <1>18, <1>19, <1>20, <1>21, <1>22,
     <1>23, <1>24, <1>25, <1>26, <1>27, <1>28, <1>29, <1>30, <1>31, <1>32,
     <1>33, <1>34, <1>35, <1>36, <1>37, <1>38 DEF Next, Reconcile,
     AddSubscriber, DownStep, TrackStep

\* So is a subscription of a slot that has never been used.
LEMMA BlankType == Blank \in Subscription /\ Blank.held = NoDown
BY SubscriptionsAssumption DEF Blank, New, Subscription

\* Every step keeps the types of the subscriptions.
LEMMA SubTypesStep ==
  ASSUME TypeOK, WorkerInv,
         [Next]_vars
  PROVE  SubTypes'
<1>1. ASSUME NEW d \in Downs, Handler(d)
      PROVE  SubTypes'
  BY <1>1, SubscriptionsAssumption DEF Handler, Finish, TypeOK, SubTypes,
     WorkTypes, WorkerInv, Subscription
<1>2. ASSUME NEW d \in Downs, Unmark(d)
      PROVE  SubTypes'
  BY <1>2, SubscriptionsAssumption DEF Unmark, TypeOK, SubTypes, WorkTypes,
     WorkerInv, Subscription
<1>3. ASSUME NEW t \in Tracks, NotifyRemoved(t)
      PROVE  SubTypes'
  <2>1. \A s \in Subs : sub[s] \in Subscription /\ [sub[s] EXCEPT !.watch = "stale"] \in Subscription
    BY DEF TypeOK, SubTypes, Subscription
  <2>2. sub' \in [Subs -> Subscription]
    BY <1>3, <2>1 DEF NotifyRemoved
  <2> QED
    BY <1>3, <2>2 DEF NotifyRemoved, TypeOK, SubTypes
<1>4. ASSUME NEW i \in Ids, Subscribe(i)
      PROVE  SubTypes'
  <2>1. Known(i) => entry[i] \in Subs
    BY DEF Known, TypeOK, MapTypes
  <2> QED
    <3>1. CASE Known(i)
      <4>1. [sub[entry[i]] EXCEPT !.desired = TRUE] \in Subscription
        BY <2>1, <3>1 DEF TypeOK, SubTypes, Subscription
      <4>2. sub' = [sub EXCEPT ![entry[i]] = [sub[entry[i]] EXCEPT !.desired = TRUE]]
        BY <1>4, <3>1 DEF Subscribe, TypeOK, SubTypes
      <4> QED
        BY <1>4, <2>1, <3>1, <4>1, <4>2 DEF Subscribe, TypeOK, SubTypes
    <3>2. CASE ~Known(i)
      BY <1>4, <3>2 DEF Subscribe, TypeOK, SubTypes
    <3> QED
      BY <3>1, <3>2
<1>5. ASSUME NEW i \in Ids, Unsubscribe(i)
      PROVE  SubTypes'
  <2>1. entry[i] \in Subs
    BY <1>5 DEF Unsubscribe, Desired, Known, TypeOK, MapTypes
  <2>2. Undesired(entry[i]) \in [Subs -> Subscription]
    BY <2>1, UndesiredEffect
  <2> QED
    BY <1>5, <2>2, <2>1 DEF Unsubscribe, TypeOK, SubTypes
<1>6. ASSUME NEW t \in Tracks, HandleSourceTrackRemoved(t)
      PROVE  SubTypes'
  <2>1. entry[IdOf[t]] \in Subs \cup {NoSub}
    BY SubscriptionsAssumption DEF TypeOK, MapTypes
  <2>2. entry[IdOf[t]] # NoSub => Undesired(entry[IdOf[t]]) \in [Subs -> Subscription]
    BY <2>1, UndesiredEffect
  <2> QED
    BY <1>6, <2>2 DEF HandleSourceTrackRemoved, TypeOK, SubTypes
<1>7. CASE Close
  BY <1>7, CloseEffect DEF Close, TypeOK, SubTypes
<1>8. ASSUME NEW s \in Subs, TrackNotFound(s)
      PROVE  SubTypes'
  <2>1. Undesired(s) \in [Subs -> Subscription]
    BY UndesiredEffect
  <2> QED
    BY <1>8, <2>1 DEF TrackNotFound, TypeOK, SubTypes
<1>9. CASE Watch
  BY SMTT(30), <1>9, SubscriptionsAssumption DEF Watch, CanAdd, Idle, TypeOK, SubTypes,
     WorkTypes, WorkerInv, Subscription
<1>10. CASE Enter
  BY <1>10, SubscriptionsAssumption DEF Enter, At, Idle, TypeOK, SubTypes,
     WorkTypes, WorkerInv, Subscription
<1>11. CASE Hold
  <2>1. worker.sub \in Subs /\ worker.down \in Downs /\ sub[worker.sub] \in Subscription
    BY <1>11 DEF Hold, TypeOK, SubTypes, WorkTypes, WorkerInv
  <2>2. [sub[worker.sub] EXCEPT !.held = worker.down] \in Subscription
    BY <2>1 DEF Subscription
  <2>3. sub' = [sub EXCEPT ![worker.sub] = [sub[worker.sub] EXCEPT !.held = worker.down]]
    BY <1>11 DEF Hold, TypeOK, SubTypes
  <2>4. sub' \in [Subs -> Subscription]
    BY <2>1, <2>2, <2>3 DEF TypeOK, SubTypes
  <2>5. IdOf[worker.track] \in Ids
    BY <1>11, SubscriptionsAssumption DEF Hold, WorkerInv
  <2> QED
    BY <1>11, <2>4, <2>5 DEF Hold, TypeOK, SubTypes
<1>12. ASSUME NEW s \in Subs, Cleanup(s)
      PROVE  SubTypes'
  <2>1. Blank \in Subscription
    BY BlankType
  <2> QED
    BY <1>12, <2>1 DEF Cleanup, TypeOK, SubTypes
<1>13. CASE UNCHANGED <<sub, count, marked, closed>>
  BY <1>13, SubscriptionsAssumption DEF TypeOK, SubTypes, WorkTypes,
     WorkerInv, Subscription
<1>14. CASE UNCHANGED vars
  BY <1>14, <1>13 DEF vars, pubVars, noteVars, permVars, mapVars, subVars
<1>15. ASSUME NEW d \in Downs, CloseDown(d)
      PROVE  SubTypes'
  BY <1>15, <1>13 DEF CloseDown, pubVars, noteVars, permVars, mapVars, subVars
<1>16. ASSUME NEW d \in Downs, LeaveMap(d)
      PROVE  SubTypes'
  BY <1>16, <1>13 DEF LeaveMap, pubVars, noteVars, permVars, mapVars, subVars
<1>17. ASSUME NEW d \in Downs, EarlyHandler(d)
      PROVE  SubTypes'
  BY <1>17, <1>13 DEF EarlyHandler, pubVars, noteVars, permVars, mapVars, subVars
<1>18. ASSUME NEW d \in Downs, RemoveTrackLocal(d)
      PROVE  SubTypes'
  BY <1>18, <1>13 DEF RemoveTrackLocal, pubVars, noteVars, permVars, mapVars, subVars
<1>19. ASSUME NEW t \in Tracks, Publish(t)
      PROVE  SubTypes'
  BY <1>19, <1>13 DEF Publish, pubVars, noteVars, permVars, mapVars, subVars
<1>20. ASSUME NEW t \in Tracks, Announce(t)
      PROVE  SubTypes'
  BY <1>20, <1>13 DEF Announce, pubVars, noteVars, permVars, mapVars, subVars
<1>21. ASSUME NEW t \in Tracks, SetClosing(t)
      PROVE  SubTypes'
  BY <1>21, <1>13 DEF SetClosing, pubVars, noteVars, permVars, mapVars, subVars
<1>22. ASSUME NEW t \in Tracks, CloseTrack(t)
      PROVE  SubTypes'
  BY <1>22, <1>13 DEF CloseTrack, pubVars, noteVars, permVars, mapVars, subVars
<1>23. CASE Leave
  BY <1>23, <1>13 DEF Leave, pubVars, noteVars, permVars, mapVars, subVars
<1>24. ASSUME NEW t \in Tracks, Unlist(t)
      PROVE  SubTypes'
  BY <1>24, <1>13 DEF Unlist, pubVars, noteVars, permVars, mapVars, subVars
<1>25. ASSUME NEW i \in Ids, SetPermission(i)
      PROVE  SubTypes'
  BY <1>25, <1>13 DEF SetPermission, pubVars, noteVars, permVars, mapVars, subVars
<1>26. ASSUME NEW i \in Ids, RevokeDisallowed(i)
      PROVE  SubTypes'
  BY <1>26, <1>13 DEF RevokeDisallowed, pubVars, noteVars, permVars, mapVars, subVars
<1>27. ASSUME NEW i \in Ids, DropObserver(i)
      PROVE  SubTypes'
  BY <1>27, <1>13 DEF DropObserver, pubVars, noteVars, permVars, mapVars, subVars
<1>28. ASSUME NEW t \in Tracks, RemovedResolves(t)
      PROVE  SubTypes'
  BY <1>28, <1>13 DEF RemovedResolves, pubVars, noteVars, permVars, mapVars, subVars
<1>29. ASSUME NEW s \in Subs, Resolve(s)
      PROVE  SubTypes'
  BY <1>29, <1>13 DEF Resolve, pubVars, noteVars, permVars, mapVars, subVars
<1>30. CASE Insert
  BY <1>30, <1>13 DEF Insert, pubVars, noteVars, permVars, mapVars, subVars
<1>31. CASE Recheck
  BY <1>31, <1>13 DEF Recheck, pubVars, noteVars, permVars, mapVars, subVars
<1>32. CASE Attach
  BY <1>32, <1>13 DEF Attach, pubVars, noteVars, permVars, mapVars, subVars
<1>33. ASSUME NEW s \in Subs, ReconcileUnsubscribe(s)
      PROVE  SubTypes'
  BY <1>33, <1>13 DEF ReconcileUnsubscribe, pubVars, noteVars, permVars,
     mapVars, subVars
<1>34. ASSUME NEW t \in Tracks, RemoveSubscriber(t)
      PROVE  SubTypes'
  BY <1>34, <1>13 DEF RemoveSubscriber, pubVars, noteVars, permVars, mapVars, subVars
<1>35. ASSUME NEW i \in Ids, Store(i)
      PROVE  SubTypes'
  <2>1. New(i) \in Subscription
    BY DEF New, Subscription
  <2> QED
    BY <1>35, <2>1 DEF Store, TypeOK, SubTypes
<1>36. ASSUME NEW i \in Ids, Desire(i)
      PROVE  SubTypes'
  <2>1. Known(i) => entry[i] \in Subs
    BY DEF Known, TypeOK, MapTypes
  <2> QED
    BY <1>36, <2>1 DEF Desire, TypeOK, SubTypes, Subscription
<1>37. ASSUME NEW ss \in SUBSET {entry[i] : i \in {j \in Ids : Known(j)}}, Collect(ss)
      PROVE  SubTypes'
  BY <1>37, <1>13 DEF Collect, pubVars, noteVars, permVars,
     mapVars, subVars
<1>38. ASSUME NEW s \in Subs, LetBe(s)
      PROVE  SubTypes'
  BY <1>38, <1>13 DEF LetBe, pubVars, noteVars, permVars,
     mapVars, subVars
<1> QED
  BY <1>1, <1>2, <1>3, <1>4, <1>5, <1>6, <1>7, <1>8, <1>9, <1>10, <1>11,
     <1>12, <1>14, <1>15, <1>16, <1>17, <1>18, <1>19, <1>20, <1>21, <1>22,
     <1>23, <1>24, <1>25, <1>26, <1>27, <1>28, <1>29, <1>30, <1>31, <1>32,
     <1>33, <1>34, <1>35, <1>36, <1>37, <1>38 DEF Next, Reconcile,
     AddSubscriber, DownStep, TrackStep

\* Every step keeps the types of the worker and the down tracks.
LEMMA WorkTypesStep ==
  ASSUME TypeOK, WorkerInv,
         [Next]_vars
  PROVE  WorkTypes'
<1>1. ASSUME NEW d \in Downs, CloseDown(d)
      PROVE  WorkTypes'
  BY <1>1, SubscriptionsAssumption, IdleType DEF CloseDown, TypeOK,
     WorkTypes, WorkerInv, DownTrack, Stages, Places, Free
<1>2. ASSUME NEW d \in Downs, LeaveMap(d)
      PROVE  WorkTypes'
  <2>1. PICK s \in {"handle", "early"} : down' = [down EXCEPT ![d] = [down[d] EXCEPT !.stage = s]]
    BY <1>2 DEF LeaveMap, TypeOK, WorkTypes
  <2>2. [down[d] EXCEPT !.stage = s] \in DownTrack
    BY DEF TypeOK, WorkTypes, DownTrack, Stages
  <2> QED
    BY <1>2, <2>1, <2>2 DEF LeaveMap, TypeOK, WorkTypes
<1>3. ASSUME NEW d \in Downs, EarlyHandler(d)
      PROVE  WorkTypes'
  BY <1>3, FinishEffect DEF EarlyHandler, TypeOK, WorkTypes
<1>4. ASSUME NEW d \in Downs, Handler(d)
      PROVE  WorkTypes'
  <2>1. [down[d] EXCEPT !.stage = "unmark"] \in DownTrack
    BY DEF TypeOK, WorkTypes, DownTrack, Stages
  <2>2. \/ down' = [down EXCEPT ![d] = Finish(d)]
        \/ down' = [down EXCEPT ![d] = [down[d] EXCEPT !.stage = "unmark"]]
    BY <1>4 DEF Handler, TypeOK, WorkTypes
  <2> QED
    BY <1>4, <2>1, <2>2, FinishEffect DEF Handler, TypeOK, WorkTypes
<1>5. ASSUME NEW d \in Downs, Unmark(d)
      PROVE  WorkTypes'
  BY <1>5, SubscriptionsAssumption, IdleType DEF Unmark, TypeOK, WorkTypes,
     WorkerInv, DownTrack, Stages, Places, Free
<1>6. ASSUME NEW d \in Downs, RemoveTrackLocal(d)
      PROVE  WorkTypes'
  BY <1>6, FinishEffect DEF RemoveTrackLocal, TypeOK, WorkTypes
<1>7. ASSUME NEW t \in Tracks, CloseTrack(t)
      PROVE  WorkTypes'
  BY <1>7, AskedEffect DEF CloseTrack, TypeOK, WorkTypes
<1>8. ASSUME NEW i \in Ids, SetPermission(i)
      PROVE  WorkTypes'
  BY SMTT(30), ZenonT(30), <1>8, SubscriptionsAssumption, IdleType DEF SetPermission, Event,
     TypeOK, WorkTypes, WorkerInv, DownTrack, Stages, Places, Free
<1>9. ASSUME NEW i \in Ids, RevokeDisallowed(i)
      PROVE  WorkTypes'
  BY <1>9, AskedEffect DEF RevokeDisallowed, TypeOK, WorkTypes
<1>10. CASE Close
  BY <1>10, CloseEffect DEF Close, TypeOK, WorkTypes
<1>11. ASSUME NEW s \in Subs, Resolve(s)
      PROVE  WorkTypes'
  <2>1. sub[s].of \in Ids
    BY DEF TypeOK, SubTypes, Subscription
  <2>2. Resolved(sub[s].of) \in Tracks
    BY <1>11, <2>1 DEF Resolve, Resolved, TypeOK, TrackTypes
  <2> QED
    BY <1>11, <2>2 DEF Resolve, Idle, TypeOK, WorkTypes, Places
<1>12. CASE Watch
  BY <1>12, SubscriptionsAssumption, IdleType DEF Watch, CanAdd, Idle,
     TypeOK, WorkTypes, WorkerInv, DownTrack, Stages, Places, Free
<1>13. CASE Enter
  BY <1>13, IdleType DEF Enter, At, TypeOK, WorkTypes, Places
<1>14. CASE Insert
  BY <1>14, SubscriptionsAssumption, IdleType DEF Insert, TypeOK, WorkTypes,
     WorkerInv, DownTrack, Stages, Places, Free
<1>15. CASE Recheck
  <2>1. Asked({worker.track}) \in [Downs -> DownTrack]
    BY AskedEffect
  <2>2. Free \in DownTrack
    BY DEF Free, DownTrack, Stages
  <2>3. down' \in [Downs -> DownTrack]
    BY <1>15, <2>1, <2>2 DEF Recheck, TypeOK, WorkTypes
  <2> QED
    BY SMTT(30), <1>15, <2>3, IdleType DEF Recheck, At, TypeOK, WorkTypes, Places
<1>16. CASE Attach
  BY SMTT(30), ZenonT(30), <1>16, SubscriptionsAssumption, IdleType DEF Attach, At, TypeOK,
     WorkTypes, WorkerInv, DownTrack, Stages, Places, Free
<1>17. CASE Hold
  BY <1>17, SubscriptionsAssumption, IdleType DEF Hold, Idle, TypeOK,
     WorkTypes, WorkerInv, DownTrack, Stages, Places, Free
<1>18. ASSUME NEW t \in Tracks, RemoveSubscriber(t)
      PROVE  WorkTypes'
  BY <1>18, AskedEffect DEF RemoveSubscriber, TypeOK, WorkTypes
<1>19. CASE UNCHANGED <<worker, down>>
  BY <1>19, SubscriptionsAssumption, IdleType DEF TypeOK, WorkTypes,
     WorkerInv, DownTrack, Stages, Places, Free
<1>20. CASE UNCHANGED vars
  BY <1>20, <1>19 DEF vars, pubVars, noteVars, permVars, mapVars, subVars
<1>21. ASSUME NEW t \in Tracks, Publish(t)
      PROVE  WorkTypes'
  BY <1>21, <1>19 DEF Publish, pubVars, noteVars, permVars, mapVars, subVars
<1>22. ASSUME NEW t \in Tracks, Announce(t)
      PROVE  WorkTypes'
  BY <1>22, <1>19 DEF Announce, pubVars, noteVars, permVars, mapVars, subVars
<1>23. ASSUME NEW t \in Tracks, SetClosing(t)
      PROVE  WorkTypes'
  BY <1>23, <1>19 DEF SetClosing, pubVars, noteVars, permVars, mapVars, subVars
<1>24. CASE Leave
  BY <1>24, <1>19 DEF Leave, pubVars, noteVars, permVars, mapVars, subVars
<1>25. ASSUME NEW t \in Tracks, Unlist(t)
      PROVE  WorkTypes'
  BY <1>25, <1>19 DEF Unlist, pubVars, noteVars, permVars, mapVars, subVars
<1>26. ASSUME NEW t \in Tracks, NotifyRemoved(t)
      PROVE  WorkTypes'
  BY <1>26, <1>19 DEF NotifyRemoved, pubVars, noteVars, permVars, mapVars, subVars
<1>27. ASSUME NEW i \in Ids, Subscribe(i)
      PROVE  WorkTypes'
  BY <1>27, <1>19 DEF Subscribe, pubVars, noteVars, permVars, mapVars, subVars
<1>28. ASSUME NEW i \in Ids, Unsubscribe(i)
      PROVE  WorkTypes'
  BY <1>28, <1>19 DEF Unsubscribe, pubVars, noteVars, permVars, mapVars, subVars
<1>29. ASSUME NEW i \in Ids, DropObserver(i)
      PROVE  WorkTypes'
  BY <1>29, <1>19 DEF DropObserver, pubVars, noteVars, permVars, mapVars, subVars
<1>30. ASSUME NEW t \in Tracks, RemovedResolves(t)
      PROVE  WorkTypes'
  BY <1>30, <1>19 DEF RemovedResolves, pubVars, noteVars, permVars, mapVars, subVars
<1>31. ASSUME NEW t \in Tracks, HandleSourceTrackRemoved(t)
      PROVE  WorkTypes'
  BY <1>31, <1>19 DEF HandleSourceTrackRemoved, pubVars, noteVars, permVars,
     mapVars, subVars
<1>32. ASSUME NEW s \in Subs, TrackNotFound(s)
      PROVE  WorkTypes'
  BY <1>32, <1>19 DEF TrackNotFound, pubVars, noteVars, permVars, mapVars, subVars
<1>33. ASSUME NEW s \in Subs, ReconcileUnsubscribe(s)
      PROVE  WorkTypes'
  BY <1>33, <1>19 DEF ReconcileUnsubscribe, pubVars, noteVars, permVars,
     mapVars, subVars
<1>34. ASSUME NEW s \in Subs, Cleanup(s)
      PROVE  WorkTypes'
  BY <1>34, <1>19 DEF Cleanup, pubVars, noteVars, permVars, mapVars, subVars
<1>35. ASSUME NEW i \in Ids, Store(i)
      PROVE  WorkTypes'
  BY <1>35, <1>19 DEF Store, pubVars, noteVars, permVars,
     mapVars, subVars
<1>36. ASSUME NEW i \in Ids, Desire(i)
      PROVE  WorkTypes'
  BY <1>36, <1>19 DEF Desire, pubVars, noteVars, permVars,
     mapVars, subVars
<1>37. ASSUME NEW ss \in SUBSET {entry[i] : i \in {j \in Ids : Known(j)}}, Collect(ss)
      PROVE  WorkTypes'
  BY <1>37, <1>19 DEF Collect, pubVars, noteVars, permVars,
     mapVars, subVars
<1>38. ASSUME NEW s \in Subs, LetBe(s)
      PROVE  WorkTypes'
  BY <1>38, <1>19 DEF LetBe, pubVars, noteVars, permVars,
     mapVars, subVars
<1> QED
  BY <1>1, <1>2, <1>3, <1>4, <1>5, <1>6, <1>7, <1>8, <1>9, <1>10, <1>11,
     <1>12, <1>13, <1>14, <1>15, <1>16, <1>17, <1>18, <1>20, <1>21, <1>22,
     <1>23, <1>24, <1>25, <1>26, <1>27, <1>28, <1>29, <1>30, <1>31, <1>32,
     <1>33, <1>34, <1>35, <1>36, <1>37, <1>38 DEF Next, Reconcile,
     AddSubscriber, DownStep, TrackStep

\* These steps change subscriptions, but not what they hold.
LEMMA SameHeldEffect ==
  ASSUME TypeOK, WorkerInv
  PROVE
         /\ \A t \in Tracks : NotifyRemoved(t) => SameHeld
         /\ \A i \in Ids : Subscribe(i) => SameHeld
         /\ \A i \in Ids : Unsubscribe(i) => SameHeld
         /\ \A t \in Tracks : HandleSourceTrackRemoved(t) => SameHeld
         /\ \A s \in Subs : TrackNotFound(s) => SameHeld
         /\ Watch => SameHeld
         /\ \A s \in Subs : Cleanup(s) => SameHeld
         /\ \A i \in Ids : Store(i) => SameHeld
         /\ \A i \in Ids : Desire(i) => SameHeld
<1>1. \A s \in Subs : sub[s] \in Subscription /\ sub \in [Subs -> Subscription]
  BY DEF TypeOK, SubTypes
<1>2. \A i \in Ids : entry[i] \in Subs \cup {NoSub}
  BY DEF TypeOK, MapTypes
<1>3. ASSUME NEW t \in Tracks, NotifyRemoved(t)
      PROVE  SameHeld
  BY <1>3, <1>1 DEF NotifyRemoved, SameHeld, Subscription
<1>4. ASSUME NEW i \in Ids, Subscribe(i)
      PROVE  SameHeld
  BY <1>4, <1>1, <1>2 DEF Subscribe, Known, SameHeld, Subscription
<1>5. ASSUME NEW i \in Ids, Unsubscribe(i)
      PROVE  SameHeld
  BY <1>5, <1>2, UndesiredEffect DEF Unsubscribe, Desired, Known, SameHeld
<1>6. ASSUME NEW t \in Tracks, HandleSourceTrackRemoved(t)
      PROVE  SameHeld
  BY <1>6, <1>2, UndesiredEffect, SubscriptionsAssumption DEF HandleSourceTrackRemoved, SameHeld
<1>7. ASSUME NEW s \in Subs, TrackNotFound(s)
      PROVE  SameHeld
  BY <1>7, UndesiredEffect DEF TrackNotFound, SameHeld
<1>8. ASSUME Watch
      PROVE  SameHeld
  <2>1. worker.sub \in Subs
    BY <1>8 DEF Watch, WorkerInv
  <2> QED
    BY <1>8, <1>1, <2>1 DEF Watch, SameHeld, Subscription
<1>9. ASSUME NEW s \in Subs, Cleanup(s)
      PROVE  SameHeld
  <2>1. worker.sub # s
    BY <1>9, SubscriptionsAssumption DEF Cleanup, Reconciles, WorkerInv
  <2>2. \A j \in Subs : sub'[j] = IF j = s THEN Blank ELSE sub[j]
    BY <1>9, <1>1 DEF Cleanup
  <2>3. sub[s].held = NoDown
    BY <1>9 DEF Cleanup
  <2> QED
    BY <2>1, <2>2, <2>3, BlankType DEF SameHeld
<1>10. ASSUME NEW i \in Ids, Store(i)
      PROVE  SameHeld
  <2> DEFINE s == CHOOSE x \in Subs : Unused(x)
  <2>1. s \in Subs /\ Unused(s) /\ sub' = [sub EXCEPT ![s] = New(i)]
    BY <1>10 DEF Store
  <2> HIDE DEF s
  <2>2. \A j \in Subs : sub'[j] = IF j = s THEN New(i) ELSE sub[j]
    BY <1>1, <2>1
  <2>3. New(i).held = NoDown
    BY DEF New
  <2> QED
    BY <2>1, <2>2, <2>3 DEF Unused, SameHeld
<1>11. ASSUME NEW i \in Ids, Desire(i)
      PROVE  SameHeld
  BY <1>11, <1>1, <1>2 DEF Desire, Known, SameHeld, Subscription
<1> QED
  BY <1>3, <1>4, <1>5, <1>6, <1>7, <1>8, <1>9, <1>10, <1>11

\* These steps ask down tracks to close, and change nothing else of them that
\* the invariant is about.
LEMMA AsksEffect ==
  ASSUME TypeOK
  PROVE
         /\ \A t \in Tracks : CloseTrack(t) => OnlyAsked
         /\ \A i \in Ids : SetPermission(i) => OnlyAsked
         /\ \A i \in Ids : RevokeDisallowed(i) => OnlyAsked
         /\ \A t \in Tracks : RemoveSubscriber(t) => OnlyAsked
<1>1. ASSUME NEW t \in Tracks, CloseTrack(t)
      PROVE  OnlyAsked
  BY <1>1, AskedEffect DEF CloseTrack, OnlyAsked
<1>2. ASSUME NEW i \in Ids, SetPermission(i)
      PROVE  OnlyAsked
  BY <1>2 DEF SetPermission, OnlyAsked, TypeOK, WorkTypes, DownTrack
<1>3. ASSUME NEW i \in Ids, RevokeDisallowed(i)
      PROVE  OnlyAsked
  BY <1>3, AskedEffect DEF RevokeDisallowed, OnlyAsked
<1>4. ASSUME NEW t \in Tracks, RemoveSubscriber(t)
      PROVE  OnlyAsked
  BY <1>4, AskedEffect DEF RemoveSubscriber, OnlyAsked
<1> QED
  BY <1>1, <1>2, <1>3, <1>4

\* The close handler lets go of its own track, or finds nothing to let go of.
LEMMA HandlerEffect ==
  ASSUME TypeOK, WorkerInv, HeldAll, DownAll, NEW d \in Downs, Handler(d)
  PROVE  LET i == down[d].by IN
         /\ i \in Subs /\ down[d].of \in Tracks
         /\ \A e \in Downs : e # d => down'[e] = down[e]
         /\ UNCHANGED <<worker, life, allowed>>
         /\ \/ /\ sub[i].held = NoDown /\ UNCHANGED <<sub, count>>
               /\ down'[d] = Finish(d)
            \/ /\ sub[i].held = d /\ sub'[i].held = NoDown /\ count' = count - 1
               /\ \A j \in Subs : j # i => sub'[j].held = sub[j].held
               /\ \A j \in Subs : sub'[j].of = sub[j].of
               /\ down'[d].of = down[d].of /\ down'[d].stage = "unmark"
               /\ down'[d].by = down[d].by
<1> DEFINE i == down[d].by
<1>1. down[d].stage = "handle" /\ down[d].by # NoSub /\ DownInv(d)
  BY DEF Handler, DownAll, DownInv
<1>2. down[d].of \in Tracks /\ i \in Subs
  BY <1>1, SubscriptionsAssumption DEF DownInv, TypeOK, WorkTypes, DownTrack
<1>3. sub[i].held = d \/ (worker.down = d /\ worker.sub = i /\ worker.at = "hold")
  BY <1>1 DEF DownInv
<1>4. \A e \in Downs : e # d => down'[e] = down[e]
  BY DEF Handler, TypeOK, WorkTypes
<1>5. UNCHANGED <<worker, life, allowed>>
  BY DEF Handler, pubVars, permVars
<1>6. CASE sub[i].held = NoDown
  BY <1>1, <1>2, <1>4, <1>5, <1>6 DEF Handler, TypeOK, WorkTypes
<1>7. CASE sub[i].held # NoDown
  <2>1. ~(worker.down = d /\ worker.sub = i /\ worker.at = "hold")
    BY <1>7 DEF WorkerInv
  <2>2. /\ sub' = [sub EXCEPT ![i].held = NoDown] /\ count' = count - 1
        /\ down' = [down EXCEPT ![d].stage = "unmark"]
    BY <1>7 DEF Handler
  <2>3. /\ sub'[i].held = NoDown
        /\ \A j \in Subs : j # i => sub'[j].held = sub[j].held
        /\ \A j \in Subs : sub'[j].of = sub[j].of
    BY <1>2, <2>2 DEF TypeOK, SubTypes, Subscription
  <2>4. /\ down'[d].of = down[d].of /\ down'[d].stage = "unmark"
        /\ down'[d].by = down[d].by
    BY <2>2 DEF TypeOK, WorkTypes, DownTrack
  <2> QED
    BY <1>1, <1>2, <1>3, <1>4, <1>5, <2>1, <2>2, <2>3, <2>4
<1> QED
  BY <1>6, <1>7

\* Rechecking a track that has closed asks its down tracks, and gives up the new
\* one if it has finished.
LEMMA RecheckEffect ==
  ASSUME TypeOK, Recheck
  PROVE  /\ UNCHANGED <<life, allowed, sub, count>>
         /\ \/ /\ life[worker.track] = "open" /\ UNCHANGED down
               /\ worker' = [worker EXCEPT !.at = "attach"]
            \/ /\ life[worker.track] # "open" /\ worker' = Idle
               /\ \A d \in Downs :
                    \/ /\ down'[d].of = down[d].of /\ down'[d].by = down[d].by
                       /\ down'[d].late = down[d].late
                       /\ down'[d].stage =
                            IF down[d].of = worker.track /\ down[d].stage = "live"
                            THEN "asked" ELSE down[d].stage
                    \/ d = worker.down /\ down'[d] = Free
<1>1. UNCHANGED <<life, allowed, sub, count>>
  BY DEF Recheck, pubVars, permVars, mapVars, subVars
<1>2. CASE life[worker.track] = "open"
  BY <1>1, <1>2 DEF Recheck, At
<1>3. CASE life[worker.track] # "open"
  <2> DEFINE asked == Asked({worker.track})
  <2>1. worker' = Idle
    BY <1>3 DEF Recheck
  <2>2. down' = [asked EXCEPT ![worker.down] =
                   IF asked[worker.down].stage = "done" THEN Free ELSE asked[worker.down]]
    BY <1>3 DEF Recheck
  <2>3. /\ asked \in [Downs -> DownTrack]
        /\ \A d \in Downs :
             /\ asked[d].of = down[d].of /\ asked[d].by = down[d].by
             /\ asked[d].late = down[d].late
             /\ asked[d].stage = IF down[d].of = worker.track /\ down[d].stage = "live"
                                 THEN "asked" ELSE down[d].stage
    BY AskedEffect
  <2> HIDE DEF asked
  <2>4. \A d \in Downs : down'[d] = asked[d] \/ (d = worker.down /\ down'[d] = Free)
    BY <2>2, <2>3
  <2> QED
    BY <1>1, <1>3, <2>1, <2>3, <2>4
<1> QED
  BY <1>2, <1>3

\* A subscription that keeps its down track, or loses it, keeps its invariant as
\* long as the down track stays one of the same object.
LEMMA KeepsHeldInv ==
  ASSUME TypeOK, NEW j \in Subs, HeldInv(j),
         sub'[j].held \in {sub[j].held, NoDown},
         sub[j].held # NoDown => sub'[j].of = sub[j].of,
         \A d \in Downs :
           d = sub[j].held => down'[d].of = down[d].of /\ down'[d].by = down[d].by
  PROVE  HeldInv(j)'
<1>1. sub[j].held \in Downs \cup {NoDown}
  BY DEF TypeOK, SubTypes, Subscription
<1> QED
  BY <1>1, SubscriptionsAssumption DEF HeldInv

\* A down track keeps its invariant under a step that lets go of nothing and asks
\* it to close at most.
LEMMA KeepsDownInv ==
  ASSUME TypeOK, NEW e \in Downs, DownInv(e), SameHeld,
         worker.down = e =>
           worker'.down = e /\ worker'.sub = worker.sub /\ worker'.at = worker.at,
         \A t \in Tracks : life'[t] = "new" => life[t] = "new",
         down'[e].of = down[e].of, down'[e].by = down[e].by,
         \/ down'[e].stage = down[e].stage
         \/ down[e].stage = "live" /\ down'[e].stage = "asked"
  PROVE  DownInv(e)'
<1>1. down[e].of \in Tracks \cup {NoTrack} /\ down[e].by \in Subs \cup {NoSub}
  BY DEF TypeOK, WorkTypes, DownTrack
<1>2. down[e].of # NoTrack => down[e].of \in Tracks
  BY <1>1
<1>3. (\E i \in Subs : sub[i].held = e) => \E i \in Subs : sub'[i].held = e
  BY DEF SameHeld
<1> QED
  BY <1>1, <1>2, <1>3 DEF DownInv, SameHeld

\* A finished down track satisfies the invariant of down tracks.
LEMMA FinishedDown ==
  ASSUME TypeOK, NEW d \in Downs, DownInv(d), down[d].of # NoTrack,
         down'[d] = Finish(d), UNCHANGED life
  PROVE  DownInv(d)'
<1>1. \/ down'[d].of = NoTrack /\ down'[d].stage = "free" /\ down'[d].by = NoSub
      \/ down'[d].of = down[d].of /\ down'[d].stage = "done"
  BY FinishEffect
<1> QED
  BY <1>1 DEF DownInv

\* Every list keeps to objects of its id that have been published.
LEMMA InfosStep ==
  ASSUME TypeOK, InfosAll,
         [Next]_vars
  PROVE  InfosAll'
<1>1. ASSUME NEW t \in Tracks, Publish(t)
      PROVE  InfosAll'
  BY <1>1, SubscriptionsAssumption DEF Publish, Event, Published, InfosAll,
     InfosInv, TypeOK, TrackTypes
<1>2. ASSUME NEW t \in Tracks, Announce(t)
      PROVE  InfosAll'
  BY <1>2, SubscriptionsAssumption DEF Announce, InfosAll, InfosInv, TypeOK,
     TrackTypes
<1>3. ASSUME NEW t \in Tracks, SetClosing(t)
      PROVE  InfosAll'
  BY <1>3, SubscriptionsAssumption DEF SetClosing, Event, InfosAll, InfosInv,
     TypeOK, TrackTypes
<1>4. ASSUME NEW t \in Tracks, CloseTrack(t)
      PROVE  InfosAll'
  BY <1>4, SubscriptionsAssumption DEF CloseTrack, Asked, InfosAll, InfosInv,
     TypeOK, TrackTypes
<1>5. ASSUME NEW t \in Tracks, Unlist(t)
      PROVE  InfosAll'
  <2>1. infos[IdOf[t]] \in Seq(Tracks) /\ IdOf[t] \in Ids
    BY SubscriptionsAssumption DEF TypeOK, TrackTypes
  <2>2. UNCHANGED <<life, announcing>>
    BY <1>5 DEF Unlist
  <2>3. \A j \in Ids : infos'[j] = infos[j] \/ (j = IdOf[t] /\ infos'[j] = Without(infos[j], t))
    BY <1>5, <2>1 DEF Unlist, TypeOK, TrackTypes
  <2> QED
    <3>1. ASSUME NEW j \in Ids
          PROVE  InfosInv(j)'
      <4>1. CASE infos'[j] = infos[j]
        BY <2>2, <4>1 DEF InfosAll, InfosInv
      <4>2. CASE j = IdOf[t] /\ infos'[j] = Without(infos[j], t)
        <5> DEFINE rest == Without(infos[j], t)
        <5>1. \A n \in 1..Len(rest) : \E k \in 1..Len(infos[j]) : rest[n] = infos[j][k]
          BY <2>1, <4>2, WithoutEffect
        <5>2. \A k \in 1..Len(infos[j]) : IdOf[infos[j][k]] = j /\ life[infos[j][k]] # "new"
          BY DEF InfosAll, InfosInv
        <5>3. infos'[j] = rest
          BY <4>2
        <5> HIDE DEF rest
        <5>4. \A n \in 1..Len(rest) : IdOf[rest[n]] = j /\ life'[rest[n]] # "new"
          BY <5>1, <5>2, <2>2
        <5> QED
          BY <5>3, <5>4 DEF InfosInv
      <4> QED
        BY <2>3, <4>1, <4>2
    <3> QED
      BY <2>2, <3>1 DEF InfosAll
<1>6. CASE UNCHANGED <<infos, life, announcing>>
  BY <1>6, SubscriptionsAssumption DEF InfosAll, InfosInv, TypeOK, TrackTypes
<1>7. CASE UNCHANGED vars
  BY <1>7, <1>6 DEF vars, pubVars, noteVars, permVars, mapVars, subVars
<1>8. ASSUME NEW d \in Downs, CloseDown(d)
      PROVE  InfosAll'
  BY <1>8, <1>6 DEF CloseDown, pubVars, noteVars, permVars, mapVars, subVars
<1>9. ASSUME NEW d \in Downs, LeaveMap(d)
      PROVE  InfosAll'
  BY <1>9, <1>6 DEF LeaveMap, pubVars, noteVars, permVars, mapVars, subVars
<1>10. ASSUME NEW d \in Downs, EarlyHandler(d)
      PROVE  InfosAll'
  BY <1>10, <1>6 DEF EarlyHandler, pubVars, noteVars, permVars, mapVars, subVars
<1>11. ASSUME NEW d \in Downs, Handler(d)
      PROVE  InfosAll'
  BY <1>11, <1>6 DEF Handler, pubVars, noteVars, permVars, mapVars, subVars
<1>12. ASSUME NEW d \in Downs, Unmark(d)
      PROVE  InfosAll'
  BY <1>12, <1>6 DEF Unmark, pubVars, noteVars, permVars, mapVars, subVars
<1>13. ASSUME NEW d \in Downs, RemoveTrackLocal(d)
      PROVE  InfosAll'
  BY <1>13, <1>6 DEF RemoveTrackLocal, pubVars, noteVars, permVars, mapVars, subVars
<1>14. CASE Leave
  BY <1>14, <1>6 DEF Leave, pubVars, noteVars, permVars, mapVars, subVars
<1>15. ASSUME NEW t \in Tracks, NotifyRemoved(t)
      PROVE  InfosAll'
  BY <1>15, <1>6 DEF NotifyRemoved, pubVars, noteVars, permVars, mapVars, subVars
<1>16. ASSUME NEW i \in Ids, SetPermission(i)
      PROVE  InfosAll'
  BY <1>16, <1>6 DEF SetPermission, pubVars, noteVars, permVars, mapVars, subVars
<1>17. ASSUME NEW i \in Ids, RevokeDisallowed(i)
      PROVE  InfosAll'
  BY <1>17, <1>6 DEF RevokeDisallowed, pubVars, noteVars, permVars, mapVars, subVars
<1>18. ASSUME NEW i \in Ids, Subscribe(i)
      PROVE  InfosAll'
  BY <1>18, <1>6 DEF Subscribe, pubVars, noteVars, permVars, mapVars, subVars
<1>19. ASSUME NEW i \in Ids, Unsubscribe(i)
      PROVE  InfosAll'
  BY <1>19, <1>6 DEF Unsubscribe, pubVars, noteVars, permVars, mapVars, subVars
<1>20. ASSUME NEW i \in Ids, DropObserver(i)
      PROVE  InfosAll'
  BY <1>20, <1>6 DEF DropObserver, pubVars, noteVars, permVars, mapVars, subVars
<1>21. ASSUME NEW t \in Tracks, RemovedResolves(t)
      PROVE  InfosAll'
  BY <1>21, <1>6 DEF RemovedResolves, pubVars, noteVars, permVars, mapVars, subVars
<1>22. ASSUME NEW t \in Tracks, HandleSourceTrackRemoved(t)
      PROVE  InfosAll'
  BY <1>22, <1>6 DEF HandleSourceTrackRemoved, pubVars, noteVars, permVars,
     mapVars, subVars
<1>23. CASE Close
  BY <1>23, <1>6 DEF Close, pubVars, noteVars, permVars, mapVars, subVars
<1>24. ASSUME NEW s \in Subs, Resolve(s)
      PROVE  InfosAll'
  BY <1>24, <1>6 DEF Resolve, pubVars, noteVars, permVars, mapVars, subVars
<1>25. ASSUME NEW s \in Subs, TrackNotFound(s)
      PROVE  InfosAll'
  BY <1>25, <1>6 DEF TrackNotFound, pubVars, noteVars, permVars, mapVars, subVars
<1>26. CASE Watch
  BY <1>26, <1>6 DEF Watch, pubVars, noteVars, permVars, mapVars, subVars
<1>27. CASE Enter
  BY <1>27, <1>6 DEF Enter, pubVars, noteVars, permVars, mapVars, subVars
<1>28. CASE Insert
  BY <1>28, <1>6 DEF Insert, pubVars, noteVars, permVars, mapVars, subVars
<1>29. CASE Recheck
  BY <1>29, <1>6 DEF Recheck, pubVars, noteVars, permVars, mapVars, subVars
<1>30. CASE Attach
  BY <1>30, <1>6 DEF Attach, pubVars, noteVars, permVars, mapVars, subVars
<1>31. CASE Hold
  BY <1>31, <1>6 DEF Hold, pubVars, noteVars, permVars, mapVars, subVars
<1>32. ASSUME NEW s \in Subs, ReconcileUnsubscribe(s)
      PROVE  InfosAll'
  BY <1>32, <1>6 DEF ReconcileUnsubscribe, pubVars, noteVars, permVars,
     mapVars, subVars
<1>33. ASSUME NEW t \in Tracks, RemoveSubscriber(t)
      PROVE  InfosAll'
  BY <1>33, <1>6 DEF RemoveSubscriber, pubVars, noteVars, permVars, mapVars, subVars
<1>34. ASSUME NEW s \in Subs, Cleanup(s)
      PROVE  InfosAll'
  BY <1>34, <1>6 DEF Cleanup, pubVars, noteVars, permVars, mapVars, subVars
<1>35. ASSUME NEW i \in Ids, Store(i)
      PROVE  InfosAll'
  BY <1>35, <1>6 DEF Store, pubVars, noteVars, permVars,
     mapVars, subVars
<1>36. ASSUME NEW i \in Ids, Desire(i)
      PROVE  InfosAll'
  BY <1>36, <1>6 DEF Desire, pubVars, noteVars, permVars,
     mapVars, subVars
<1>37. ASSUME NEW ss \in SUBSET {entry[i] : i \in {j \in Ids : Known(j)}}, Collect(ss)
      PROVE  InfosAll'
  BY <1>37, <1>6 DEF Collect, pubVars, noteVars, permVars,
     mapVars, subVars
<1>38. ASSUME NEW s \in Subs, LetBe(s)
      PROVE  InfosAll'
  BY <1>38, <1>6 DEF LetBe, pubVars, noteVars, permVars,
     mapVars, subVars
<1> QED
  BY <1>1, <1>2, <1>3, <1>4, <1>5, <1>7, <1>8, <1>9, <1>10, <1>11, <1>12,
     <1>13, <1>14, <1>15, <1>16, <1>17, <1>18, <1>19, <1>20, <1>21, <1>22,
     <1>23, <1>24, <1>25, <1>26, <1>27, <1>28, <1>29, <1>30, <1>31, <1>32,
     <1>33, <1>34, <1>35, <1>36, <1>37, <1>38 DEF Next, Reconcile,
     AddSubscriber, DownStep, TrackStep

\* What a subscription holds stays a down track made for its id.
LEMMA HeldStep ==
  ASSUME TypeOK, WorkerInv, HeldAll, DownAll,
         [Next]_vars
  PROVE  HeldAll'
<1>1. ASSUME NEW d \in Downs, CloseDown(d)
      PROVE  HeldAll'
  BY <1>1, SubscriptionsAssumption DEF CloseDown, subVars, HeldAll, HeldInv,
     WorkerInv, TypeOK, WorkTypes, SubTypes, TrackTypes
<1>2. ASSUME NEW d \in Downs, LeaveMap(d)
      PROVE  HeldAll'
  BY <1>2, SubscriptionsAssumption DEF LeaveMap, subVars, HeldAll, HeldInv,
     WorkerInv, TypeOK, WorkTypes, SubTypes, TrackTypes
<1>3. ASSUME NEW d \in Downs, EarlyHandler(d)
      PROVE  HeldAll'
  BY <1>3, SubscriptionsAssumption DEF EarlyHandler, Finish, subVars,
     HeldAll, HeldInv, WorkerInv, TypeOK, WorkTypes, SubTypes, TrackTypes
<1>4. ASSUME NEW d \in Downs, Handler(d)
      PROVE  HeldAll'
  <2>1. ASSUME NEW j \in Subs
        PROVE  HeldInv(j)'
    <3>1. sub'[j].held \in {sub[j].held, NoDown} /\ sub'[j].of = sub[j].of
      BY <1>4, HandlerEffect
    <3>2. \A e \in Downs : e = sub[j].held => /\ down'[e].of = down[e].of
                                               /\ down'[e].by = down[e].by
      BY <1>4, HandlerEffect, FinishEffect
    <3> QED
      BY <3>1, <3>2, KeepsHeldInv DEF HeldAll
  <2> QED
    BY <2>1 DEF HeldAll
<1>5. ASSUME NEW d \in Downs, Unmark(d)
      PROVE  HeldAll'
  BY <1>5, SubscriptionsAssumption DEF Unmark, HeldAll, HeldInv, WorkerInv,
     TypeOK, WorkTypes, SubTypes, TrackTypes
<1>6. ASSUME NEW d \in Downs, RemoveTrackLocal(d)
      PROVE  HeldAll'
  BY <1>6, SubscriptionsAssumption DEF RemoveTrackLocal, Finish, subVars,
     HeldAll, HeldInv, WorkerInv, TypeOK, WorkTypes, SubTypes, TrackTypes
<1>7. ASSUME NEW t \in Tracks, CloseTrack(t)
      PROVE  HeldAll'
  BY <1>7, AsksEffect, KeepsHeldInv DEF CloseTrack, HeldAll, OnlyAsked,
     subVars
<1>8. ASSUME NEW t \in Tracks, NotifyRemoved(t)
      PROVE  HeldAll'
  BY <1>8, SameHeldEffect, KeepsHeldInv DEF NotifyRemoved, HeldAll, SameHeld
<1>9. ASSUME NEW i \in Ids, SetPermission(i)
      PROVE  HeldAll'
  BY <1>9, AsksEffect, KeepsHeldInv DEF SetPermission, HeldAll, OnlyAsked,
     subVars
<1>10. ASSUME NEW i \in Ids, RevokeDisallowed(i)
      PROVE  HeldAll'
  BY <1>10, AsksEffect, KeepsHeldInv DEF RevokeDisallowed, HeldAll, OnlyAsked,
     subVars
<1>11. ASSUME NEW i \in Ids, Subscribe(i)
      PROVE  HeldAll'
  BY <1>11, SameHeldEffect, KeepsHeldInv DEF Subscribe, HeldAll, SameHeld
<1>12. ASSUME NEW i \in Ids, Unsubscribe(i)
      PROVE  HeldAll'
  BY <1>12, SameHeldEffect, KeepsHeldInv DEF Unsubscribe, HeldAll, SameHeld
<1>13. ASSUME NEW t \in Tracks, HandleSourceTrackRemoved(t)
      PROVE  HeldAll'
  BY <1>13, SameHeldEffect, KeepsHeldInv DEF HandleSourceTrackRemoved,
     HeldAll, SameHeld
<1>14. CASE Close
  BY <1>14, CloseEffect, KeepsHeldInv DEF HeldAll
<1>15. ASSUME NEW s \in Subs, TrackNotFound(s)
      PROVE  HeldAll'
  BY <1>15, SameHeldEffect, KeepsHeldInv DEF TrackNotFound, HeldAll, SameHeld
<1>16. CASE Watch
  BY <1>16, SameHeldEffect, KeepsHeldInv DEF Watch, HeldAll, SameHeld
<1>17. CASE Insert
  <2>1. PICK f \in Downs : /\ down[f] = Free
                          /\ \A d \in Downs : d # f => down'[d] = down[d]
    BY <1>17 DEF Insert, TypeOK, WorkTypes
  <2>2. down[f].of = NoTrack /\ UNCHANGED sub
    BY <1>17, <2>1 DEF Free, Insert, subVars
  <2> QED
    BY <2>1, <2>2 DEF HeldAll, HeldInv, TypeOK, SubTypes, Subscription
<1>18. CASE Recheck
  <2>1. \A i \in Subs : sub[i].held # worker.down
    BY <1>18, SubscriptionsAssumption DEF Recheck, WorkerInv, HeldAll, HeldInv
  <2> QED
    BY <1>18, <2>1, RecheckEffect DEF HeldAll, HeldInv, TypeOK, SubTypes, Subscription
<1>19. CASE Attach
  BY <1>19, SubscriptionsAssumption DEF Attach, At, subVars, HeldAll,
     HeldInv, WorkerInv, TypeOK, WorkTypes, SubTypes, TrackTypes
<1>20. CASE Hold
  BY <1>20, SubscriptionsAssumption DEF Hold, Idle, HeldAll, HeldInv,
     WorkerInv, TypeOK, WorkTypes, SubTypes, TrackTypes
<1>21. ASSUME NEW t \in Tracks, RemoveSubscriber(t)
      PROVE  HeldAll'
  BY <1>21, AsksEffect, KeepsHeldInv DEF RemoveSubscriber, HeldAll, OnlyAsked,
     subVars
<1>22. ASSUME NEW s \in Subs, Cleanup(s)
      PROVE  HeldAll'
  BY <1>22, SameHeldEffect, KeepsHeldInv DEF Cleanup, HeldAll, SameHeld
<1>23. CASE UNCHANGED <<sub, down>>
  BY <1>23, SubscriptionsAssumption DEF HeldAll, HeldInv, WorkerInv, TypeOK,
     WorkTypes, SubTypes, TrackTypes
<1>24. CASE UNCHANGED vars
  BY <1>24, <1>23 DEF vars, pubVars, noteVars, permVars, mapVars, subVars
<1>25. ASSUME NEW t \in Tracks, Publish(t)
      PROVE  HeldAll'
  BY <1>25, <1>23 DEF Publish, pubVars, noteVars, permVars, mapVars, subVars
<1>26. ASSUME NEW t \in Tracks, Announce(t)
      PROVE  HeldAll'
  BY <1>26, <1>23 DEF Announce, pubVars, noteVars, permVars, mapVars, subVars
<1>27. ASSUME NEW t \in Tracks, SetClosing(t)
      PROVE  HeldAll'
  BY <1>27, <1>23 DEF SetClosing, pubVars, noteVars, permVars, mapVars, subVars
<1>28. CASE Leave
  BY <1>28, <1>23 DEF Leave, pubVars, noteVars, permVars, mapVars, subVars
<1>29. ASSUME NEW t \in Tracks, Unlist(t)
      PROVE  HeldAll'
  BY <1>29, <1>23 DEF Unlist, pubVars, noteVars, permVars, mapVars, subVars
<1>30. ASSUME NEW i \in Ids, DropObserver(i)
      PROVE  HeldAll'
  BY <1>30, <1>23 DEF DropObserver, pubVars, noteVars, permVars, mapVars, subVars
<1>31. ASSUME NEW t \in Tracks, RemovedResolves(t)
      PROVE  HeldAll'
  BY <1>31, <1>23 DEF RemovedResolves, pubVars, noteVars, permVars, mapVars, subVars
<1>32. ASSUME NEW s \in Subs, Resolve(s)
      PROVE  HeldAll'
  BY <1>32, <1>23 DEF Resolve, pubVars, noteVars, permVars, mapVars, subVars
<1>33. CASE Enter
  BY <1>33, <1>23 DEF Enter, pubVars, noteVars, permVars, mapVars, subVars
<1>34. ASSUME NEW s \in Subs, ReconcileUnsubscribe(s)
      PROVE  HeldAll'
  BY <1>34, <1>23 DEF ReconcileUnsubscribe, pubVars, noteVars, permVars,
     mapVars, subVars
<1>35. ASSUME NEW i \in Ids, Store(i)
      PROVE  HeldAll'
  BY <1>35, SameHeldEffect, KeepsHeldInv DEF Store, HeldAll, SameHeld
<1>36. ASSUME NEW i \in Ids, Desire(i)
      PROVE  HeldAll'
  BY <1>36, SameHeldEffect, KeepsHeldInv DEF Desire, HeldAll, SameHeld
<1>37. ASSUME NEW ss \in SUBSET {entry[i] : i \in {j \in Ids : Known(j)}}, Collect(ss)
      PROVE  HeldAll'
  BY <1>37, <1>23 DEF Collect, pubVars, noteVars, permVars,
     mapVars, subVars
<1>38. ASSUME NEW s \in Subs, LetBe(s)
      PROVE  HeldAll'
  BY <1>38, <1>23 DEF LetBe, pubVars, noteVars, permVars,
     mapVars, subVars
<1> QED
  BY <1>1, <1>2, <1>3, <1>4, <1>5, <1>6, <1>7, <1>8, <1>9, <1>10, <1>11,
     <1>12, <1>13, <1>14, <1>15, <1>16, <1>17, <1>18, <1>19, <1>20, <1>21,
     <1>22, <1>24, <1>25, <1>26, <1>27, <1>28, <1>29, <1>30, <1>31, <1>32,
     <1>33, <1>34, <1>35, <1>36, <1>37, <1>38 DEF Next, Reconcile,
     AddSubscriber, DownStep, TrackStep

\* What the worker knows stays true.
LEMMA WorkerStep ==
  ASSUME TypeOK, WorkerInv, InfosAll, HeldAll, DownAll,
         [Next]_vars
  PROVE  WorkerInv'
<1>1. ASSUME NEW d \in Downs, CloseDown(d)
      PROVE  WorkerInv'
  BY <1>1, SubscriptionsAssumption DEF CloseDown, pubVars, permVars, mapVars, subVars,
     WorkerInv, InfosAll, InfosInv, TypeOK, WorkTypes, SubTypes, TrackTypes
<1>2. ASSUME NEW d \in Downs, LeaveMap(d)
      PROVE  WorkerInv'
  BY <1>2, SubscriptionsAssumption DEF LeaveMap, pubVars, permVars, mapVars, subVars,
     WorkerInv, InfosAll, InfosInv, TypeOK, WorkTypes, SubTypes, TrackTypes
<1>3. ASSUME NEW d \in Downs, EarlyHandler(d)
      PROVE  WorkerInv'
  BY <1>3, SubscriptionsAssumption DEF EarlyHandler, Finish, pubVars,
     permVars, mapVars, subVars, WorkerInv, InfosAll, InfosInv, TypeOK, WorkTypes,
     SubTypes, TrackTypes
<1>4. ASSUME NEW d \in Downs, Handler(d)
      PROVE  WorkerInv'
  <2>1. count' \in Int /\ count' <= count
    BY <1>4, HandlerEffect DEF TypeOK, SubTypes
  <2>2. worker.down = d => down'[d].of = down[d].of /\ down'[d].by = down[d].by
    BY <1>4, HandlerEffect, FinishEffect
  <2> QED
    BY <1>4, <2>1, <2>2, HandlerEffect, SubscriptionsAssumption DEF WorkerInv, TypeOK, WorkTypes, SubTypes
<1>5. ASSUME NEW d \in Downs, Unmark(d)
      PROVE  WorkerInv'
  BY <1>5, SubscriptionsAssumption DEF Unmark, pubVars, permVars, WorkerInv,
     InfosAll, InfosInv, TypeOK, WorkTypes, SubTypes, TrackTypes
<1>6. ASSUME NEW d \in Downs, RemoveTrackLocal(d)
      PROVE  WorkerInv'
  BY <1>6, SubscriptionsAssumption DEF RemoveTrackLocal, Finish, pubVars,
     permVars, mapVars, subVars, WorkerInv, InfosAll, InfosInv, TypeOK, WorkTypes,
     SubTypes, TrackTypes
<1>7. ASSUME NEW t \in Tracks, Publish(t)
      PROVE  WorkerInv'
  BY <1>7, SubscriptionsAssumption DEF Publish, Event, Published, permVars,
     mapVars, subVars, WorkerInv, InfosAll, InfosInv, TypeOK, WorkTypes, SubTypes,
     TrackTypes
<1>8. ASSUME NEW t \in Tracks, SetClosing(t)
      PROVE  WorkerInv'
  BY <1>8, SubscriptionsAssumption DEF SetClosing, Event, permVars, mapVars, subVars,
     WorkerInv, InfosAll, InfosInv, TypeOK, WorkTypes, SubTypes, TrackTypes
<1>9. ASSUME NEW t \in Tracks, CloseTrack(t)
      PROVE  WorkerInv'
  BY <1>9, SubscriptionsAssumption DEF CloseTrack, Asked, permVars, mapVars, subVars,
     WorkerInv, InfosAll, InfosInv, TypeOK, WorkTypes, SubTypes, TrackTypes
<1>10. ASSUME NEW t \in Tracks, NotifyRemoved(t)
      PROVE  WorkerInv'
  BY <1>10, SameHeldEffect, SubscriptionsAssumption DEF NotifyRemoved, SameHeld, WorkerInv,
     pubVars, permVars, TypeOK, WorkTypes
<1>11. ASSUME NEW i \in Ids, SetPermission(i)
      PROVE  WorkerInv'
  <2>1. OnlyAsked /\ UNCHANGED <<life, sub, count>>
    BY <1>11, AsksEffect DEF SetPermission, pubVars, subVars
  <2>2. \A j \in Ids : j # i => allowed'[j] = allowed[j]
    BY <1>11 DEF SetPermission, TypeOK, NoteTypes
  <2>3. /\ worker'.at = worker.at /\ worker'.sub = worker.sub /\ worker'.track = worker.track
        /\ worker'.down = worker.down
        /\ worker'.late = IF worker.at \in {"enter", "insert"} /\ IdOf[worker.track] = i
                         THEN ~allowed'[i] ELSE worker.late
    BY <1>11 DEF SetPermission, TypeOK, WorkTypes
  <2>4. worker.at # "idle" => worker.track \in Tracks /\ IdOf[worker.track] \in Ids
    BY SubscriptionsAssumption DEF WorkerInv
  <2>5. worker.down # NoDown => worker.down \in Downs
    BY DEF TypeOK, WorkTypes
  <2>6. worker.at \in {"enter", "insert"} /\ ~allowed'[IdOf[worker.track]] => worker'.late
    BY <2>2, <2>3, <2>4 DEF WorkerInv
  <2>7. worker.down # NoDown => /\ down'[worker.down].of = down[worker.down].of
                               /\ down'[worker.down].by = down[worker.down].by
    BY <2>1, <2>5 DEF OnlyAsked
  <2> QED
    BY <2>1, <2>3, <2>6, <2>7 DEF WorkerInv
<1>12. ASSUME NEW i \in Ids, RevokeDisallowed(i)
      PROVE  WorkerInv'
  BY <1>12, SubscriptionsAssumption DEF RevokeDisallowed, Asked, Published,
     pubVars, subVars, WorkerInv, InfosAll, InfosInv, TypeOK, WorkTypes,
     SubTypes, TrackTypes
<1>13. ASSUME NEW i \in Ids, Subscribe(i)
      PROVE  WorkerInv'
  BY <1>13, SameHeldEffect, SubscriptionsAssumption DEF Subscribe, SameHeld, WorkerInv,
     pubVars, permVars, TypeOK, WorkTypes
<1>14. ASSUME NEW i \in Ids, Unsubscribe(i)
      PROVE  WorkerInv'
  BY <1>14, SameHeldEffect, SubscriptionsAssumption DEF Unsubscribe, SameHeld, WorkerInv,
     pubVars, permVars, TypeOK, WorkTypes
<1>15. ASSUME NEW t \in Tracks, HandleSourceTrackRemoved(t)
      PROVE  WorkerInv'
  BY <1>15, SameHeldEffect, SubscriptionsAssumption DEF HandleSourceTrackRemoved,
     SameHeld, WorkerInv, pubVars, permVars, TypeOK, WorkTypes
<1>16. CASE Close
  <2>1. /\ worker.at = "idle" /\ UNCHANGED <<worker, life, count, allowed>>
        /\ \A d \in Downs : down'[d].of = down[d].of
    BY <1>16, CloseEffect DEF Close, pubVars, permVars
  <2> QED
    BY <2>1 DEF WorkerInv
<1>17. ASSUME NEW s \in Subs, Resolve(s)
      PROVE  WorkerInv'
  <2> DEFINE i == sub[s].of
  <2>1. infos[i] # <<>> /\ Resolved(i) = Head(infos[i]) /\ life[Resolved(i)] = "open"
    BY <1>17 DEF Resolve, Resolved
  <2>2. Resolved(i) \in Tracks /\ IdOf[Resolved(i)] = i
    <3>1. i \in Ids
      BY DEF TypeOK, SubTypes, Subscription
    <3> QED
      BY <2>1, <3>1 DEF InfosAll, InfosInv, TypeOK, TrackTypes
  <2>3. sub[s].held = NoDown /\ UNCHANGED <<sub, life, count, down>>
    BY <1>17 DEF Resolve, NeedsSubscribe, pubVars, subVars
  <2>4. /\ worker'.at = "watch" /\ worker'.sub = s /\ worker'.track = Resolved(i)
        /\ worker'.down = NoDown
    BY <1>17, IdleType DEF Resolve, Idle
  <2> HIDE DEF i
  <2>5. IdOf[Resolved(i)] = sub[s].of
    BY <2>2 DEF i
  <2> QED
    BY <2>1, <2>2, <2>3, <2>4, <2>5 DEF WorkerInv
<1>18. ASSUME NEW s \in Subs, TrackNotFound(s)
      PROVE  WorkerInv'
  BY <1>18, SameHeldEffect, SubscriptionsAssumption DEF TrackNotFound, SameHeld, WorkerInv,
     pubVars, permVars, TypeOK, WorkTypes
<1>19. CASE Watch
  BY <1>19, SubscriptionsAssumption DEF Watch, CanAdd, Idle, pubVars,
     permVars, WorkerInv, InfosAll, InfosInv, TypeOK, WorkTypes, SubTypes,
     TrackTypes
<1>20. CASE Enter
  <2>1. UNCHANGED <<life, sub, count, down, allowed>>
    BY <1>20 DEF Enter, pubVars, subVars, permVars
  <2>2. \/ worker'.at = "idle" /\ worker'.down = NoDown
           /\ worker'.sub = NoSub
        \/ worker' = [worker EXCEPT !.at = "insert"]
    BY <1>20, IdleType DEF Enter, At, Idle
  <2> QED
    BY <1>20, <2>1, <2>2 DEF Enter, WorkerInv, TypeOK, WorkTypes, Places
<1>21. CASE Insert
  BY <1>21, SubscriptionsAssumption DEF Insert, pubVars, permVars, mapVars, subVars,
     WorkerInv, InfosAll, InfosInv, TypeOK, WorkTypes, SubTypes, TrackTypes
<1>22. CASE Recheck
  <2>1. Idle.at = "idle" /\ Idle.down = NoDown /\ Idle.sub = NoSub
    BY DEF Idle
  <2>2. \/ worker'.at = "idle" /\ worker'.down = NoDown /\ worker'.sub = NoSub
        \/ worker' = [worker EXCEPT !.at = "attach"] /\ UNCHANGED down
    BY <1>22, <2>1, RecheckEffect
  <2> QED
    BY <1>22, <2>2, RecheckEffect DEF Recheck, WorkerInv, TypeOK, WorkTypes, Places
<1>23. CASE Attach
  BY <1>23, SubscriptionsAssumption DEF Attach, At, pubVars, permVars,
     mapVars, subVars, WorkerInv, InfosAll, InfosInv, TypeOK, WorkTypes, SubTypes,
     TrackTypes
<1>24. CASE Hold
  BY <1>24, SubscriptionsAssumption DEF Hold, Idle, pubVars, permVars,
     WorkerInv, InfosAll, InfosInv, TypeOK, WorkTypes, SubTypes, TrackTypes
<1>25. ASSUME NEW t \in Tracks, RemoveSubscriber(t)
      PROVE  WorkerInv'
  BY <1>25, SubscriptionsAssumption DEF RemoveSubscriber, Asked, pubVars,
     permVars, mapVars, subVars, WorkerInv, InfosAll, InfosInv, TypeOK, WorkTypes,
     SubTypes, TrackTypes
<1>26. ASSUME NEW s \in Subs, Cleanup(s)
      PROVE  WorkerInv'
  BY <1>26, SameHeldEffect, SubscriptionsAssumption DEF Cleanup, SameHeld, WorkerInv,
     pubVars, permVars, TypeOK, WorkTypes
<1>27. CASE UNCHANGED <<worker, life, sub, count, allowed, down>>
  BY <1>27, SubscriptionsAssumption DEF WorkerInv, InfosAll, InfosInv,
     TypeOK, WorkTypes, SubTypes, TrackTypes
<1>28. CASE UNCHANGED vars
  BY <1>28, <1>27 DEF vars, pubVars, noteVars, permVars, mapVars, subVars
<1>29. ASSUME NEW t \in Tracks, Announce(t)
      PROVE  WorkerInv'
  BY <1>29, <1>27 DEF Announce, pubVars, noteVars, permVars, mapVars, subVars
<1>30. CASE Leave
  BY <1>30, <1>27 DEF Leave, pubVars, noteVars, permVars, mapVars, subVars
<1>31. ASSUME NEW t \in Tracks, Unlist(t)
      PROVE  WorkerInv'
  BY <1>31, <1>27 DEF Unlist, pubVars, noteVars, permVars, mapVars, subVars
<1>32. ASSUME NEW i \in Ids, DropObserver(i)
      PROVE  WorkerInv'
  BY <1>32, <1>27 DEF DropObserver, pubVars, noteVars, permVars, mapVars, subVars
<1>33. ASSUME NEW t \in Tracks, RemovedResolves(t)
      PROVE  WorkerInv'
  BY <1>33, <1>27 DEF RemovedResolves, pubVars, noteVars, permVars, mapVars, subVars
<1>34. ASSUME NEW s \in Subs, ReconcileUnsubscribe(s)
      PROVE  WorkerInv'
  BY <1>34, <1>27 DEF ReconcileUnsubscribe, pubVars, noteVars, permVars,
     mapVars, subVars
<1>35. ASSUME NEW i \in Ids, Store(i)
      PROVE  WorkerInv'
  BY <1>35, SameHeldEffect, SubscriptionsAssumption DEF Store, SameHeld, WorkerInv,
     pubVars, permVars, TypeOK, WorkTypes
<1>36. ASSUME NEW i \in Ids, Desire(i)
      PROVE  WorkerInv'
  BY <1>36, SameHeldEffect, SubscriptionsAssumption DEF Desire, SameHeld, WorkerInv,
     pubVars, permVars, TypeOK, WorkTypes
<1>37. ASSUME NEW ss \in SUBSET {entry[i] : i \in {j \in Ids : Known(j)}}, Collect(ss)
      PROVE  WorkerInv'
  BY <1>37, <1>27 DEF Collect, pubVars, noteVars, permVars,
     mapVars, subVars
<1>38. ASSUME NEW s \in Subs, LetBe(s)
      PROVE  WorkerInv'
  BY <1>38, <1>27 DEF LetBe, pubVars, noteVars, permVars,
     mapVars, subVars
<1> QED
  BY <1>1, <1>2, <1>3, <1>4, <1>5, <1>6, <1>7, <1>8, <1>9, <1>10, <1>11,
     <1>12, <1>13, <1>14, <1>15, <1>16, <1>17, <1>18, <1>19, <1>20, <1>21,
     <1>22, <1>23, <1>24, <1>25, <1>26, <1>28, <1>29, <1>30, <1>31, <1>32,
     <1>33, <1>34, <1>35, <1>36, <1>37, <1>38 DEF Next, Reconcile,
     AddSubscriber, DownStep, TrackStep

\* Forwarding down tracks stay held or in the hands of the worker.
LEMMA DownInvStep ==
  ASSUME TypeOK, WorkerInv, HeldAll, DownAll, NEW e \in Downs,
         [Next]_vars
  PROVE  DownInv(e)'
<1>1. ASSUME NEW d \in Downs, CloseDown(d)
      PROVE  DownInv(e)'
  BY <1>1, SubscriptionsAssumption DEF CloseDown, pubVars, subVars, DownAll,
     DownInv, WorkerInv, HeldAll, HeldInv, TypeOK, WorkTypes, SubTypes,
     TrackTypes
<1>2. ASSUME NEW d \in Downs, LeaveMap(d)
      PROVE  DownInv(e)'
  BY <1>2, SubscriptionsAssumption DEF LeaveMap, pubVars, subVars, DownAll,
     DownInv, WorkerInv, HeldAll, HeldInv, TypeOK, WorkTypes, SubTypes,
     TrackTypes
<1>3. ASSUME NEW d \in Downs, EarlyHandler(d)
      PROVE  DownInv(e)'
  <2>1. /\ \A f \in Downs : f # d => down'[f] = down[f]
        /\ down'[d] = Finish(d) /\ down[d].of # NoTrack
    BY <1>3 DEF EarlyHandler, TypeOK, WorkTypes, DownAll, DownInv
  <2>2. UNCHANGED <<worker, life, sub>>
    BY <1>3 DEF EarlyHandler, pubVars, subVars
  <2>3. CASE e = d
    BY <2>1, <2>2, <2>3, FinishedDown DEF DownAll
  <2>4. CASE e # d
    BY <2>1, <2>2, <2>4, KeepsDownInv DEF DownAll, SameHeld
  <2> QED
    BY <2>3, <2>4
<1>4. ASSUME NEW d \in Downs, Handler(d)
      PROVE  DownInv(e)'
  <2> DEFINE i == down[d].by
  <2>1. /\ UNCHANGED <<worker, life>>
        /\ \A f \in Downs : f # d => down'[f] = down[f]
        /\ i \in Subs /\ down[d].of \in Tracks
    BY <1>4, HandlerEffect
  <2>2. CASE sub[i].held = NoDown /\ UNCHANGED sub /\ down'[d] = Finish(d)
    <3>1. CASE e = d
      BY <2>1, <2>2, <3>1, FinishedDown, SubscriptionsAssumption DEF DownAll
    <3>2. CASE e # d
      BY <2>1, <2>2, <3>2, KeepsDownInv DEF DownAll, SameHeld
    <3> QED
      BY <3>1, <3>2
  <2>3. CASE /\ sub[i].held = d
             /\ \A j \in Subs : j # i => sub'[j].held = sub[j].held
             /\ down'[d].of = down[d].of /\ down'[d].stage = "unmark"
             /\ down'[d].by = down[d].by
    <3>1. CASE e = d
      BY <2>1, <2>3, <3>1, SubscriptionsAssumption DEF DownAll, DownInv
    <3>2. CASE e # d
      <4>1. down[e].of # NoTrack => IdOf[down[e].of] \in Ids
        BY SubscriptionsAssumption DEF TypeOK, WorkTypes, DownTrack
      <4>2. DownInv(e) /\ down'[e] = down[e]
        BY <2>1, <3>2 DEF DownAll
      <4>3. \A j \in Subs : sub[j].held = e => sub'[j].held = e
        BY <2>3, <3>2
      <4>4. down[e].by # NoSub => down[e].by \in Subs
        BY DEF TypeOK, WorkTypes, DownTrack
      <4> QED
        BY <2>1, <4>1, <4>2, <4>3, <4>4 DEF DownInv
    <3> QED
      BY <3>1, <3>2
  <2> QED
    BY <1>4, <2>2, <2>3, HandlerEffect
<1>5. ASSUME NEW d \in Downs, Unmark(d)
      PROVE  DownInv(e)'
  BY <1>5, SubscriptionsAssumption DEF Unmark, pubVars, DownAll, DownInv,
     WorkerInv, HeldAll, HeldInv, TypeOK, WorkTypes, SubTypes, TrackTypes
<1>6. ASSUME NEW d \in Downs, RemoveTrackLocal(d)
      PROVE  DownInv(e)'
  <2>1. /\ \A f \in Downs : f # d => down'[f] = down[f]
        /\ down'[d] = Finish(d) /\ down[d].of # NoTrack
    BY <1>6 DEF RemoveTrackLocal, TypeOK, WorkTypes, DownAll, DownInv
  <2>2. UNCHANGED <<worker, life, sub>>
    BY <1>6 DEF RemoveTrackLocal, pubVars, subVars
  <2>3. CASE e = d
    BY <2>1, <2>2, <2>3, FinishedDown DEF DownAll
  <2>4. CASE e # d
    BY <2>1, <2>2, <2>4, KeepsDownInv DEF DownAll, SameHeld
  <2> QED
    BY <2>3, <2>4
<1>7. ASSUME NEW t \in Tracks, Publish(t)
      PROVE  DownInv(e)'
  BY <1>7, SubscriptionsAssumption DEF Publish, Event, Published, subVars,
     DownAll, DownInv, WorkerInv, HeldAll, HeldInv, TypeOK, WorkTypes,
     SubTypes, TrackTypes
<1>8. ASSUME NEW t \in Tracks, SetClosing(t)
      PROVE  DownInv(e)'
  BY <1>8, SubscriptionsAssumption DEF SetClosing, Event, subVars, DownAll,
     DownInv, WorkerInv, HeldAll, HeldInv, TypeOK, WorkTypes, SubTypes,
     TrackTypes
<1>9. ASSUME NEW t \in Tracks, CloseTrack(t)
      PROVE  DownInv(e)'
  <2>1. SameHeld
    BY <1>9 DEF CloseTrack, SameHeld, subVars
  <2>2. worker.down = e =>
           worker'.down = e /\ worker'.sub = worker.sub /\ worker'.at = worker.at
    BY <1>9 DEF CloseTrack, TypeOK, WorkTypes
  <2>3. \A u \in Tracks : life'[u] = "new" => life[u] = "new"
    BY <1>9 DEF CloseTrack, pubVars, TypeOK, TrackTypes
  <2> QED
    BY <1>9, <2>1, <2>2, <2>3, AsksEffect, KeepsDownInv DEF OnlyAsked, DownAll
<1>10. ASSUME NEW t \in Tracks, NotifyRemoved(t)
      PROVE  DownInv(e)'
  <2>1. SameHeld /\ UNCHANGED <<life, down>>
    BY <1>10, SameHeldEffect DEF NotifyRemoved, pubVars
  <2>2. worker.down = e =>
           worker'.down = e /\ worker'.sub = worker.sub /\ worker'.at = worker.at
    BY <1>10, SubscriptionsAssumption DEF NotifyRemoved, WorkerInv
  <2> QED
    BY <2>1, <2>2, KeepsDownInv DEF DownAll
<1>11. ASSUME NEW i \in Ids, SetPermission(i)
      PROVE  DownInv(e)'
  <2>1. SameHeld
    BY <1>11 DEF SetPermission, SameHeld, subVars
  <2>2. worker.down = e =>
           worker'.down = e /\ worker'.sub = worker.sub /\ worker'.at = worker.at
    BY <1>11 DEF SetPermission, TypeOK, WorkTypes
  <2>3. \A u \in Tracks : life'[u] = "new" => life[u] = "new"
    BY <1>11 DEF SetPermission, pubVars, TypeOK, TrackTypes
  <2> QED
    BY <1>11, <2>1, <2>2, <2>3, AsksEffect, KeepsDownInv DEF OnlyAsked, DownAll
<1>12. ASSUME NEW i \in Ids, RevokeDisallowed(i)
      PROVE  DownInv(e)'
  <2>1. SameHeld
    BY <1>12 DEF RevokeDisallowed, SameHeld, subVars
  <2>2. worker.down = e =>
           worker'.down = e /\ worker'.sub = worker.sub /\ worker'.at = worker.at
    BY <1>12 DEF RevokeDisallowed, TypeOK, WorkTypes
  <2>3. \A u \in Tracks : life'[u] = "new" => life[u] = "new"
    BY <1>12 DEF RevokeDisallowed, pubVars, TypeOK, TrackTypes
  <2> QED
    BY <1>12, <2>1, <2>2, <2>3, AsksEffect, KeepsDownInv DEF OnlyAsked, DownAll
<1>13. ASSUME NEW i \in Ids, Subscribe(i)
      PROVE  DownInv(e)'
  <2>1. SameHeld /\ UNCHANGED <<life, down>>
    BY <1>13, SameHeldEffect DEF Subscribe, pubVars
  <2>2. worker.down = e =>
           worker'.down = e /\ worker'.sub = worker.sub /\ worker'.at = worker.at
    BY <1>13, SubscriptionsAssumption DEF Subscribe, WorkerInv
  <2> QED
    BY <2>1, <2>2, KeepsDownInv DEF DownAll
<1>14. ASSUME NEW i \in Ids, Unsubscribe(i)
      PROVE  DownInv(e)'
  <2>1. SameHeld /\ UNCHANGED <<life, down>>
    BY <1>14, SameHeldEffect DEF Unsubscribe, pubVars
  <2>2. worker.down = e =>
           worker'.down = e /\ worker'.sub = worker.sub /\ worker'.at = worker.at
    BY <1>14, SubscriptionsAssumption DEF Unsubscribe, WorkerInv
  <2> QED
    BY <2>1, <2>2, KeepsDownInv DEF DownAll
<1>15. ASSUME NEW t \in Tracks, HandleSourceTrackRemoved(t)
      PROVE  DownInv(e)'
  <2>1. SameHeld /\ UNCHANGED <<life, down>>
    BY <1>15, SameHeldEffect DEF HandleSourceTrackRemoved, pubVars
  <2>2. worker.down = e =>
           worker'.down = e /\ worker'.sub = worker.sub /\ worker'.at = worker.at
    BY <1>15, SubscriptionsAssumption DEF HandleSourceTrackRemoved, WorkerInv
  <2> QED
    BY <2>1, <2>2, KeepsDownInv DEF DownAll
<1>16. CASE Close
  <2>1. UNCHANGED <<worker, life>>
    BY <1>16 DEF Close, pubVars
  <2> QED
    BY <1>16, <2>1, CloseEffect, KeepsDownInv DEF DownAll, SameHeld
<1>17. ASSUME NEW s \in Subs, Resolve(s)
      PROVE  DownInv(e)'
  BY <1>17, SubscriptionsAssumption DEF Resolve, NeedsSubscribe, Reconciles,
     Resolved, Idle, pubVars, subVars, DownAll, DownInv, WorkerInv, HeldAll,
     HeldInv, TypeOK, WorkTypes, SubTypes, TrackTypes
<1>18. ASSUME NEW s \in Subs, TrackNotFound(s)
      PROVE  DownInv(e)'
  <2>1. SameHeld /\ UNCHANGED <<life, down>>
    BY <1>18, SameHeldEffect DEF TrackNotFound, pubVars
  <2>2. worker.down = e =>
           worker'.down = e /\ worker'.sub = worker.sub /\ worker'.at = worker.at
    BY <1>18, SubscriptionsAssumption DEF TrackNotFound, WorkerInv
  <2> QED
    BY <2>1, <2>2, KeepsDownInv DEF DownAll
<1>19. CASE Watch
  <2>1. SameHeld /\ UNCHANGED <<life, down>>
    BY <1>19, SameHeldEffect DEF Watch, pubVars
  <2>2. worker.down = e =>
           worker'.down = e /\ worker'.sub = worker.sub /\ worker'.at = worker.at
    BY <1>19, SubscriptionsAssumption DEF Watch, WorkerInv
  <2> QED
    BY <2>1, <2>2, KeepsDownInv DEF DownAll
<1>20. CASE Enter
  BY <1>20, SubscriptionsAssumption DEF Enter, At, Idle, pubVars, DownAll,
     DownInv, WorkerInv, HeldAll, HeldInv, TypeOK, WorkTypes, SubTypes,
     TrackTypes
<1>21. CASE Insert
  BY <1>21, SubscriptionsAssumption DEF Insert, pubVars, subVars, DownAll,
     DownInv, WorkerInv, HeldAll, HeldInv, TypeOK, WorkTypes, SubTypes,
     TrackTypes
<1>22. CASE Recheck
  <2>1. worker.at = "recheck" /\ down[worker.down].of = worker.track
    BY <1>22 DEF Recheck, WorkerInv
  <2>2. CASE life[worker.track] = "open"
    BY <1>22, <2>1, <2>2, RecheckEffect DEF DownAll, DownInv, TypeOK, WorkTypes
  <2>3. CASE life[worker.track] # "open"
    BY <1>22, <2>1, <2>3, RecheckEffect DEF DownAll, DownInv, Free
  <2> QED
    BY <2>2, <2>3
<1>23. CASE Attach
  BY <1>23, SubscriptionsAssumption DEF Attach, At, pubVars, subVars,
     DownAll, DownInv, WorkerInv, HeldAll, HeldInv, TypeOK, WorkTypes,
     SubTypes, TrackTypes
<1>24. CASE Hold
  BY <1>24, SubscriptionsAssumption DEF Hold, Idle, pubVars, DownAll,
     DownInv, WorkerInv, HeldAll, HeldInv, TypeOK, WorkTypes, SubTypes,
     TrackTypes
<1>25. ASSUME NEW t \in Tracks, RemoveSubscriber(t)
      PROVE  DownInv(e)'
  <2>1. SameHeld
    BY <1>25 DEF RemoveSubscriber, SameHeld, subVars
  <2>2. worker.down = e =>
           worker'.down = e /\ worker'.sub = worker.sub /\ worker'.at = worker.at
    BY <1>25 DEF RemoveSubscriber, TypeOK, WorkTypes
  <2>3. \A u \in Tracks : life'[u] = "new" => life[u] = "new"
    BY <1>25 DEF RemoveSubscriber, pubVars, TypeOK, TrackTypes
  <2> QED
    BY <1>25, <2>1, <2>2, <2>3, AsksEffect, KeepsDownInv DEF OnlyAsked, DownAll
<1>26. ASSUME NEW s \in Subs, Cleanup(s)
      PROVE  DownInv(e)'
  <2>1. SameHeld /\ UNCHANGED <<life, down>>
    BY <1>26, SameHeldEffect DEF Cleanup, pubVars
  <2>2. worker.down = e =>
           worker'.down = e /\ worker'.sub = worker.sub /\ worker'.at = worker.at
    BY <1>26, SubscriptionsAssumption DEF Cleanup, WorkerInv
  <2> QED
    BY <2>1, <2>2, KeepsDownInv DEF DownAll
<1>27. CASE UNCHANGED <<down, life, worker, sub>>
  BY <1>27, SubscriptionsAssumption DEF DownAll, DownInv, WorkerInv, HeldAll,
     HeldInv, TypeOK, WorkTypes, SubTypes, TrackTypes
<1>28. CASE UNCHANGED vars
  BY <1>28, <1>27 DEF vars, pubVars, noteVars, permVars, mapVars, subVars
<1>29. ASSUME NEW t \in Tracks, Announce(t)
      PROVE  DownInv(e)'
  BY <1>29, <1>27 DEF Announce, pubVars, noteVars, permVars, mapVars, subVars
<1>30. CASE Leave
  BY <1>30, <1>27 DEF Leave, pubVars, noteVars, permVars, mapVars, subVars
<1>31. ASSUME NEW t \in Tracks, Unlist(t)
      PROVE  DownInv(e)'
  BY <1>31, <1>27 DEF Unlist, pubVars, noteVars, permVars, mapVars, subVars
<1>32. ASSUME NEW i \in Ids, DropObserver(i)
      PROVE  DownInv(e)'
  BY <1>32, <1>27 DEF DropObserver, pubVars, noteVars, permVars, mapVars, subVars
<1>33. ASSUME NEW t \in Tracks, RemovedResolves(t)
      PROVE  DownInv(e)'
  BY <1>33, <1>27 DEF RemovedResolves, pubVars, noteVars, permVars, mapVars, subVars
<1>34. ASSUME NEW s \in Subs, ReconcileUnsubscribe(s)
      PROVE  DownInv(e)'
  BY <1>34, <1>27 DEF ReconcileUnsubscribe, pubVars, noteVars, permVars,
     mapVars, subVars
<1>35. ASSUME NEW i \in Ids, Store(i)
      PROVE  DownInv(e)'
  <2>1. SameHeld /\ UNCHANGED <<life, down, worker>>
    BY <1>35, SameHeldEffect DEF Store, pubVars
  <2> QED
    BY <2>1, KeepsDownInv DEF DownAll
<1>36. ASSUME NEW i \in Ids, Desire(i)
      PROVE  DownInv(e)'
  <2>1. SameHeld /\ UNCHANGED <<life, down, worker>>
    BY <1>36, SameHeldEffect DEF Desire, pubVars
  <2> QED
    BY <2>1, KeepsDownInv DEF DownAll
<1>37. ASSUME NEW ss \in SUBSET {entry[i] : i \in {j \in Ids : Known(j)}}, Collect(ss)
      PROVE  DownInv(e)'
  BY <1>37, <1>27 DEF Collect, pubVars, noteVars, permVars,
     mapVars, subVars
<1>38. ASSUME NEW s \in Subs, LetBe(s)
      PROVE  DownInv(e)'
  BY <1>38, <1>27 DEF LetBe, pubVars, noteVars, permVars,
     mapVars, subVars
<1> QED
  BY <1>1, <1>2, <1>3, <1>4, <1>5, <1>6, <1>7, <1>8, <1>9, <1>10, <1>11,
     <1>12, <1>13, <1>14, <1>15, <1>16, <1>17, <1>18, <1>19, <1>20, <1>21,
     <1>22, <1>23, <1>24, <1>25, <1>26, <1>28, <1>29, <1>30, <1>31, <1>32,
     <1>33, <1>34, <1>35, <1>36, <1>37, <1>38 DEF Next, Reconcile,
     AddSubscriber, DownStep, TrackStep

\* The counter follows what is held, and stays within the limit.
LEMMA CountStep ==
  ASSUME TypeOK, WorkerInv, HeldAll, DownAll, CountAll,
         [Next]_vars
  PROVE  CountAll'
<1>1. ASSUME NEW d \in Downs, Handler(d)
      PROVE  CountAll'
  <2> DEFINE i == down[d].by
  <2>1. CASE UNCHANGED <<sub, count>>
    BY <2>1 DEF CountAll, Held
  <2>2. CASE sub[i].held = d /\ sub'[i].held = NoDown /\ count' = count - 1
               /\ \A j \in Subs : j # i => sub'[j].held = sub[j].held
    <3>1. i \in Held /\ Held' = Held \ {i}
      BY <1>1, <2>2, HandlerEffect, SubscriptionsAssumption DEF Held
    <3>2. IsFiniteSet(Held)
      BY SubscriptionsAssumption, FS_Subset DEF Held
    <3>3. Cardinality(Held \ {i}) = Cardinality(Held) - 1
      BY <3>1, <3>2, FS_RemoveElement
    <3> QED
      BY <2>2, <3>1, <3>3, SubscriptionsAssumption DEF CountAll, TypeOK, SubTypes
  <2> QED
    BY <1>1, <2>1, <2>2, HandlerEffect
<1>2. ASSUME NEW t \in Tracks, NotifyRemoved(t)
      PROVE  CountAll'
  BY <1>2, SameHeldEffect, SubscriptionsAssumption DEF NotifyRemoved,
     CountAll, Held, SameHeld, subVars
<1>3. ASSUME NEW i \in Ids, Subscribe(i)
      PROVE  CountAll'
  BY <1>3, SameHeldEffect, SubscriptionsAssumption DEF Subscribe, CountAll,
     Held, SameHeld, subVars
<1>4. ASSUME NEW i \in Ids, Unsubscribe(i)
      PROVE  CountAll'
  BY <1>4, SameHeldEffect, SubscriptionsAssumption DEF Unsubscribe, CountAll,
     Held, SameHeld, subVars
<1>5. ASSUME NEW t \in Tracks, HandleSourceTrackRemoved(t)
      PROVE  CountAll'
  BY <1>5, SameHeldEffect,
     SubscriptionsAssumption DEF HandleSourceTrackRemoved, CountAll, Held,
     SameHeld, subVars
<1>6. CASE Close
  <2>1. Held' = Held
    BY <1>6, CloseEffect DEF Held
  <2> QED
    BY <1>6, <2>1 DEF Close, CountAll
<1>7. ASSUME NEW s \in Subs, TrackNotFound(s)
      PROVE  CountAll'
  BY <1>7, SameHeldEffect, SubscriptionsAssumption DEF TrackNotFound,
     CountAll, Held, SameHeld, subVars
<1>8. CASE Watch
  BY <1>8, SameHeldEffect, SubscriptionsAssumption DEF Watch, CountAll, Held,
     SameHeld, subVars
<1>9. CASE Hold
  <2>1. /\ worker.sub \in Subs /\ worker.down # NoDown /\ count < Limit /\ count' = count + 1
        /\ sub[worker.sub].held = NoDown
    BY <1>9 DEF Hold, WorkerInv, TypeOK, WorkTypes
  <2>2. \A j \in Subs : sub'[j].held = IF j = worker.sub THEN worker.down ELSE sub[j].held
    BY <1>9 DEF Hold, TypeOK, SubTypes, Subscription
  <2>3. Held' = Held \cup {worker.sub} /\ worker.sub \notin Held
    BY <2>1, <2>2 DEF Held
  <2>4. IsFiniteSet(Held)
    BY SubscriptionsAssumption, FS_Subset DEF Held
  <2>5. Cardinality(Held \cup {worker.sub}) = Cardinality(Held) + 1
    BY <2>3, <2>4, FS_AddElement
  <2> QED
    BY <2>1, <2>3, <2>5, SubscriptionsAssumption DEF CountAll, TypeOK, SubTypes
<1>10. ASSUME NEW s \in Subs, Cleanup(s)
      PROVE  CountAll'
  BY <1>10, SameHeldEffect, SubscriptionsAssumption DEF Cleanup, CountAll,
     Held, SameHeld, subVars
<1>11. CASE UNCHANGED <<count, sub>>
  BY <1>11, SubscriptionsAssumption DEF CountAll, Held, TypeOK, WorkTypes,
     SubTypes, TrackTypes
<1>12. CASE UNCHANGED vars
  BY <1>12, <1>11 DEF vars, pubVars, noteVars, permVars, mapVars, subVars
<1>13. ASSUME NEW d \in Downs, CloseDown(d)
      PROVE  CountAll'
  BY <1>13, <1>11 DEF CloseDown, pubVars, noteVars, permVars, mapVars, subVars
<1>14. ASSUME NEW d \in Downs, LeaveMap(d)
      PROVE  CountAll'
  BY <1>14, <1>11 DEF LeaveMap, pubVars, noteVars, permVars, mapVars, subVars
<1>15. ASSUME NEW d \in Downs, EarlyHandler(d)
      PROVE  CountAll'
  BY <1>15, <1>11 DEF EarlyHandler, pubVars, noteVars, permVars, mapVars, subVars
<1>16. ASSUME NEW d \in Downs, Unmark(d)
      PROVE  CountAll'
  BY <1>16, <1>11 DEF Unmark, pubVars, noteVars, permVars, mapVars, subVars
<1>17. ASSUME NEW d \in Downs, RemoveTrackLocal(d)
      PROVE  CountAll'
  BY <1>17, <1>11 DEF RemoveTrackLocal, pubVars, noteVars, permVars, mapVars, subVars
<1>18. ASSUME NEW t \in Tracks, Publish(t)
      PROVE  CountAll'
  BY <1>18, <1>11 DEF Publish, pubVars, noteVars, permVars, mapVars, subVars
<1>19. ASSUME NEW t \in Tracks, Announce(t)
      PROVE  CountAll'
  BY <1>19, <1>11 DEF Announce, pubVars, noteVars, permVars, mapVars, subVars
<1>20. ASSUME NEW t \in Tracks, SetClosing(t)
      PROVE  CountAll'
  BY <1>20, <1>11 DEF SetClosing, pubVars, noteVars, permVars, mapVars, subVars
<1>21. ASSUME NEW t \in Tracks, CloseTrack(t)
      PROVE  CountAll'
  BY <1>21, <1>11 DEF CloseTrack, pubVars, noteVars, permVars, mapVars, subVars
<1>22. CASE Leave
  BY <1>22, <1>11 DEF Leave, pubVars, noteVars, permVars, mapVars, subVars
<1>23. ASSUME NEW t \in Tracks, Unlist(t)
      PROVE  CountAll'
  BY <1>23, <1>11 DEF Unlist, pubVars, noteVars, permVars, mapVars, subVars
<1>24. ASSUME NEW i \in Ids, SetPermission(i)
      PROVE  CountAll'
  BY <1>24, <1>11 DEF SetPermission, pubVars, noteVars, permVars, mapVars, subVars
<1>25. ASSUME NEW i \in Ids, RevokeDisallowed(i)
      PROVE  CountAll'
  BY <1>25, <1>11 DEF RevokeDisallowed, pubVars, noteVars, permVars, mapVars, subVars
<1>26. ASSUME NEW i \in Ids, DropObserver(i)
      PROVE  CountAll'
  BY <1>26, <1>11 DEF DropObserver, pubVars, noteVars, permVars, mapVars, subVars
<1>27. ASSUME NEW t \in Tracks, RemovedResolves(t)
      PROVE  CountAll'
  BY <1>27, <1>11 DEF RemovedResolves, pubVars, noteVars, permVars, mapVars, subVars
<1>28. ASSUME NEW s \in Subs, Resolve(s)
      PROVE  CountAll'
  BY <1>28, <1>11 DEF Resolve, pubVars, noteVars, permVars, mapVars, subVars
<1>29. CASE Enter
  BY <1>29, <1>11 DEF Enter, pubVars, noteVars, permVars, mapVars, subVars
<1>30. CASE Insert
  BY <1>30, <1>11 DEF Insert, pubVars, noteVars, permVars, mapVars, subVars
<1>31. CASE Recheck
  BY <1>31, <1>11 DEF Recheck, pubVars, noteVars, permVars, mapVars, subVars
<1>32. CASE Attach
  BY <1>32, <1>11 DEF Attach, pubVars, noteVars, permVars, mapVars, subVars
<1>33. ASSUME NEW s \in Subs, ReconcileUnsubscribe(s)
      PROVE  CountAll'
  BY <1>33, <1>11 DEF ReconcileUnsubscribe, pubVars, noteVars, permVars,
     mapVars, subVars
<1>34. ASSUME NEW t \in Tracks, RemoveSubscriber(t)
      PROVE  CountAll'
  BY <1>34, <1>11 DEF RemoveSubscriber, pubVars, noteVars, permVars, mapVars, subVars
<1>35. ASSUME NEW i \in Ids, Store(i)
      PROVE  CountAll'
  BY <1>35, SameHeldEffect, SubscriptionsAssumption DEF Store, CountAll, Held,
     SameHeld
<1>36. ASSUME NEW i \in Ids, Desire(i)
      PROVE  CountAll'
  BY <1>36, SameHeldEffect, SubscriptionsAssumption DEF Desire, CountAll, Held,
     SameHeld
<1>37. ASSUME NEW ss \in SUBSET {entry[i] : i \in {j \in Ids : Known(j)}}, Collect(ss)
      PROVE  CountAll'
  BY <1>37, <1>11 DEF Collect, pubVars, noteVars, permVars,
     mapVars, subVars
<1>38. ASSUME NEW s \in Subs, LetBe(s)
      PROVE  CountAll'
  BY <1>38, <1>11 DEF LetBe, pubVars, noteVars, permVars,
     mapVars, subVars
<1> QED
  BY <1>1, <1>2, <1>3, <1>4, <1>5, <1>6, <1>7, <1>8, <1>9, <1>10, <1>12,
     <1>13, <1>14, <1>15, <1>16, <1>17, <1>18, <1>19, <1>20, <1>21, <1>22,
     <1>23, <1>24, <1>25, <1>26, <1>27, <1>28, <1>29, <1>30, <1>31, <1>32,
     <1>33, <1>34, <1>35, <1>36, <1>37, <1>38 DEF Next, Reconcile,
     AddSubscriber, DownStep, TrackStep

\* A track that has closed keeps no subscriber but the one being rechecked.
LEMMA ClosedStep ==
  ASSUME TypeOK, WorkerInv, HeldAll, DownAll, NEW e \in Downs, ClosedOf(e),
         [Next]_vars
  PROVE  ClosedOf(e)'
<1>1. ASSUME NEW d \in Downs, CloseDown(d)
      PROVE  ClosedOf(e)'
  <2>1. \A f \in Downs : /\ down'[f].stage = "live" => down[f].stage = "live"
                         /\ down'[f].of = down[f].of /\ down'[f].late = down[f].late
    BY <1>1 DEF CloseDown, TypeOK, WorkTypes, DownTrack
  <2>9. UNCHANGED <<worker, life>>
    BY <1>1 DEF CloseDown, pubVars, permVars
  <2> QED
    BY <2>1, <2>9 DEF ClosedOf
<1>2. ASSUME NEW d \in Downs, LeaveMap(d)
      PROVE  ClosedOf(e)'
  <2>1. \A f \in Downs : /\ down'[f].stage = "live" => down[f].stage = "live"
                         /\ down'[f].of = down[f].of /\ down'[f].late = down[f].late
    BY <1>2 DEF LeaveMap, TypeOK, WorkTypes, DownTrack
  <2>9. UNCHANGED <<worker, life>>
    BY <1>2 DEF LeaveMap, pubVars, permVars
  <2> QED
    BY <2>1, <2>9 DEF ClosedOf
<1>3. ASSUME NEW d \in Downs, EarlyHandler(d)
      PROVE  ClosedOf(e)'
  <2>1. \A f \in Downs : /\ down'[f].stage = "live" => f # d
                         /\ f # d => down'[f] = down[f]
    BY <1>3, FinishEffect DEF EarlyHandler, TypeOK, WorkTypes
  <2>9. UNCHANGED <<worker, life>>
    BY <1>3 DEF EarlyHandler, pubVars, permVars
  <2> QED
    BY <2>1, <2>9 DEF ClosedOf
<1>4. ASSUME NEW d \in Downs, Handler(d)
      PROVE  ClosedOf(e)'
  <2>1. \A f \in Downs : /\ down'[f].stage = "live" => f # d
                         /\ f # d => down'[f] = down[f]
    <3>1. Finish(d).stage # "live"
      <4>1. down[d].stage = "handle"
        BY <1>4 DEF Handler
      <4> QED
        BY <4>1, FinishEffect
    <3>2. down'[d].stage # "live" /\ \A f \in Downs : f # d => down'[f] = down[f]
      BY <1>4, <3>1, HandlerEffect
    <3> QED
      BY <3>2
  <2>9. UNCHANGED <<worker, life>>
    BY <1>4 DEF Handler, pubVars, permVars
  <2> QED
    BY <2>1, <2>9 DEF ClosedOf
<1>5. ASSUME NEW d \in Downs, Unmark(d)
      PROVE  ClosedOf(e)'
  <2>1. \A f \in Downs : /\ down'[f].stage = "live" => down[f].stage = "live"
                         /\ down'[f].of = down[f].of /\ down'[f].late = down[f].late
    BY <1>5 DEF Unmark, TypeOK, WorkTypes, DownTrack
  <2>9. UNCHANGED <<worker, life>>
    BY <1>5 DEF Unmark, pubVars, permVars
  <2> QED
    BY <2>1, <2>9 DEF ClosedOf
<1>6. ASSUME NEW d \in Downs, RemoveTrackLocal(d)
      PROVE  ClosedOf(e)'
  <2>1. \A f \in Downs : /\ down'[f].stage = "live" => f # d
                         /\ f # d => down'[f] = down[f]
    BY <1>6, FinishEffect DEF RemoveTrackLocal, TypeOK, WorkTypes
  <2>9. UNCHANGED <<worker, life>>
    BY <1>6 DEF RemoveTrackLocal, pubVars, permVars
  <2> QED
    BY <2>1, <2>9 DEF ClosedOf
<1>7. ASSUME NEW t \in Tracks, Publish(t)
      PROVE  ClosedOf(e)'
  <2>1. \A u \in Tracks : life[u] # "new" => (life'[u] = "closed" <=> life[u] = "closed")
    BY <1>7 DEF Publish, TypeOK, TrackTypes
  <2>2. \A u \in Tracks : life[u] # "new" => (Published(u)' <=> Published(u))
    BY <1>7 DEF Publish, Published, TypeOK, TrackTypes
  <2>3. \A f \in Downs : down[f].stage = "live" => down[f].of \in Tracks /\ life[down[f].of] # "new"
    BY DEF DownAll, DownInv, TypeOK, WorkTypes, DownTrack
  <2>4. UNCHANGED <<worker, down, allowed, revoking>>
    BY <1>7 DEF Publish, permVars
  <2> QED
    BY <2>1, <2>2, <2>3, <2>4 DEF ClosedOf
<1>8. ASSUME NEW t \in Tracks, SetClosing(t)
      PROVE  ClosedOf(e)'
  <2>1. \A u \in Tracks : life[u] # "new" => (life'[u] = "closed" <=> life[u] = "closed")
    BY <1>8 DEF SetClosing, TypeOK, TrackTypes
  <2>2. \A u \in Tracks : life[u] # "new" => (Published(u)' <=> Published(u))
    BY <1>8 DEF SetClosing, Published, TypeOK, TrackTypes
  <2>3. \A f \in Downs : down[f].stage = "live" => down[f].of \in Tracks /\ life[down[f].of] # "new"
    BY DEF DownAll, DownInv, TypeOK, WorkTypes, DownTrack
  <2>4. UNCHANGED <<worker, down, allowed, revoking>>
    BY <1>8 DEF SetClosing, permVars
  <2> QED
    BY <2>1, <2>2, <2>3, <2>4 DEF ClosedOf
<1>9. ASSUME NEW t \in Tracks, CloseTrack(t)
      PROVE  ClosedOf(e)'
  <2>1. \A f \in Downs : /\ down'[f].of = down[f].of /\ down'[f].late = down[f].late
                         /\ down'[f].stage = "live" => down[f].stage = "live" /\ down[f].of # t
    BY <1>9, AskedEffect DEF CloseTrack
  <2>2. \A u \in Tracks : u # t => life'[u] = life[u]
    BY <1>9 DEF CloseTrack, TypeOK, TrackTypes
  <2>3. \A f \in Downs : down[f].stage = "live" => down[f].of \in Tracks
    BY DEF DownAll, DownInv, TypeOK, WorkTypes, DownTrack
  <2>4. UNCHANGED <<worker, allowed, revoking>>
    BY <1>9 DEF CloseTrack, permVars
  <2> QED
    BY <2>1, <2>2, <2>3, <2>4 DEF ClosedOf
<1>10. ASSUME NEW i \in Ids, SetPermission(i)
      PROVE  ClosedOf(e)'
  <2>1. \A f \in Downs : down'[f].of = down[f].of /\ down'[f].stage = down[f].stage
    BY <1>10 DEF SetPermission, TypeOK, WorkTypes, DownTrack
  <2>2. worker'.at = worker.at /\ worker'.down = worker.down
    BY <1>10 DEF SetPermission, TypeOK, WorkTypes
  <2> QED
    BY <1>10, <2>1, <2>2 DEF SetPermission, pubVars, ClosedOf
<1>11. ASSUME NEW i \in Ids, RevokeDisallowed(i)
      PROVE  ClosedOf(e)'
  <2>1. \A f \in Downs : /\ down'[f].of = down[f].of
                         /\ down'[f].stage = "live" => down[f].stage = "live"
    BY <1>11, AskedEffect DEF RevokeDisallowed
  <2>2. UNCHANGED <<life, worker>>
    BY <1>11 DEF RevokeDisallowed, pubVars
  <2> QED
    BY <2>1, <2>2 DEF ClosedOf
<1>12. CASE Close
  <2>1. \A f \in Downs : /\ down'[f].of = down[f].of /\ down'[f].late = down[f].late
                         /\ down'[f].stage = "live" => down[f].stage = "live"
    BY <1>12, CloseEffect
  <2>9. UNCHANGED <<worker, life>>
    BY <1>12 DEF Close, pubVars, permVars
  <2> QED
    BY <2>1, <2>9 DEF ClosedOf
<1>13. ASSUME NEW s \in Subs, Resolve(s)
      PROVE  ClosedOf(e)'
  BY <1>13 DEF Resolve, NeedsSubscribe, Reconciles, Resolved, Idle, pubVars,
     ClosedOf, TypeOK, WorkTypes
<1>14. CASE Watch
  BY <1>14 DEF Watch, CanAdd, Idle, pubVars, ClosedOf, TypeOK, WorkTypes
<1>15. CASE Enter
  BY <1>15 DEF Enter, At, Idle, pubVars, ClosedOf, TypeOK, WorkTypes
<1>16. CASE Insert
  <2>1. PICK g \in Downs : /\ down'[g] = [of |-> worker.track, by |-> NoSub, stage |-> "live",
                                        late |-> worker.late]
                          /\ worker'.at = "recheck" /\ worker'.down = g
                          /\ \A f \in Downs : f # g => down'[f] = down[f]
    BY <1>16 DEF Insert, TypeOK, WorkTypes
  <2>2. down'[g].of = worker.track /\ down'[g].late = worker.late
    BY <2>1
  <2> QED
    BY <1>16, <2>1, <2>2 DEF Insert, pubVars, ClosedOf
<1>17. CASE Recheck
  <2>1. worker.at = "recheck" /\ down[worker.down].of = worker.track
    BY <1>17 DEF Recheck, WorkerInv
  <2>2. Free.stage = "free"
    BY DEF Free
  <2>3. CASE life[worker.track] = "open"
    <3>1. UNCHANGED <<down, life>>
      BY <1>17, <2>3, RecheckEffect
    <3> QED
      BY <2>1, <2>3, <3>1 DEF ClosedOf
  <2>4. CASE life[worker.track] # "open"
    <3>1. UNCHANGED life /\ \A f \in Downs : down'[f].stage = "live" =>
            down'[f].of = down[f].of /\ down[f].stage = "live" /\ down[f].of # worker.track
      BY <1>17, <2>2, <2>4, RecheckEffect
    <3> QED
      BY <2>1, <3>1 DEF ClosedOf
  <2> QED
    BY <2>3, <2>4
<1>18. CASE Attach
  <2>1. \A f \in Downs : /\ down'[f].stage = "live" => down[f].stage = "live"
                         /\ down'[f].of = down[f].of /\ down'[f].late = down[f].late
    BY <1>18 DEF Attach, WorkerInv, TypeOK, WorkTypes, DownTrack
  <2>2. UNCHANGED <<life, allowed, revoking>> /\ worker.at = "attach"
    BY <1>18 DEF Attach, pubVars, permVars
  <2> QED
    BY <2>1, <2>2 DEF ClosedOf
<1>19. CASE Hold
  BY <1>19 DEF Hold, Idle, pubVars, ClosedOf, TypeOK, WorkTypes
<1>20. ASSUME NEW t \in Tracks, RemoveSubscriber(t)
      PROVE  ClosedOf(e)'
  <2>1. \A f \in Downs : /\ down'[f].of = down[f].of /\ down'[f].late = down[f].late
                         /\ down'[f].stage = "live" => down[f].stage = "live"
    BY <1>20, AskedEffect DEF RemoveSubscriber
  <2>9. UNCHANGED <<worker, life>>
    BY <1>20 DEF RemoveSubscriber, pubVars, permVars
  <2> QED
    BY <2>1, <2>9 DEF ClosedOf
<1>21. CASE UNCHANGED <<life, worker, down>>
  BY <1>21 DEF ClosedOf, TypeOK, WorkTypes
<1>22. CASE UNCHANGED vars
  BY <1>22, <1>21 DEF vars, pubVars, noteVars, permVars, mapVars, subVars
<1>23. ASSUME NEW t \in Tracks, Announce(t)
      PROVE  ClosedOf(e)'
  BY <1>23, <1>21 DEF Announce, pubVars, noteVars, permVars, mapVars, subVars
<1>24. CASE Leave
  BY <1>24, <1>21 DEF Leave, pubVars, noteVars, permVars, mapVars, subVars
<1>25. ASSUME NEW t \in Tracks, Unlist(t)
      PROVE  ClosedOf(e)'
  BY <1>25, <1>21 DEF Unlist, pubVars, noteVars, permVars, mapVars, subVars
<1>26. ASSUME NEW t \in Tracks, NotifyRemoved(t)
      PROVE  ClosedOf(e)'
  BY <1>26, <1>21 DEF NotifyRemoved, pubVars, noteVars, permVars, mapVars, subVars
<1>27. ASSUME NEW i \in Ids, Subscribe(i)
      PROVE  ClosedOf(e)'
  BY <1>27, <1>21 DEF Subscribe, pubVars, noteVars, permVars, mapVars, subVars
<1>28. ASSUME NEW i \in Ids, Unsubscribe(i)
      PROVE  ClosedOf(e)'
  BY <1>28, <1>21 DEF Unsubscribe, pubVars, noteVars, permVars, mapVars, subVars
<1>29. ASSUME NEW i \in Ids, DropObserver(i)
      PROVE  ClosedOf(e)'
  BY <1>29, <1>21 DEF DropObserver, pubVars, noteVars, permVars, mapVars, subVars
<1>30. ASSUME NEW t \in Tracks, RemovedResolves(t)
      PROVE  ClosedOf(e)'
  BY <1>30, <1>21 DEF RemovedResolves, pubVars, noteVars, permVars, mapVars, subVars
<1>31. ASSUME NEW t \in Tracks, HandleSourceTrackRemoved(t)
      PROVE  ClosedOf(e)'
  BY <1>31, <1>21 DEF HandleSourceTrackRemoved, pubVars, noteVars, permVars,
     mapVars, subVars
<1>32. ASSUME NEW s \in Subs, TrackNotFound(s)
      PROVE  ClosedOf(e)'
  BY <1>32, <1>21 DEF TrackNotFound, pubVars, noteVars, permVars, mapVars, subVars
<1>33. ASSUME NEW s \in Subs, ReconcileUnsubscribe(s)
      PROVE  ClosedOf(e)'
  BY <1>33, <1>21 DEF ReconcileUnsubscribe, pubVars, noteVars, permVars,
     mapVars, subVars
<1>34. ASSUME NEW s \in Subs, Cleanup(s)
      PROVE  ClosedOf(e)'
  BY <1>34, <1>21 DEF Cleanup, pubVars, noteVars, permVars, mapVars, subVars
<1>35. ASSUME NEW i \in Ids, Store(i)
      PROVE  ClosedOf(e)'
  BY <1>35, <1>21 DEF Store, pubVars, noteVars, permVars,
     mapVars, subVars
<1>36. ASSUME NEW i \in Ids, Desire(i)
      PROVE  ClosedOf(e)'
  BY <1>36, <1>21 DEF Desire, pubVars, noteVars, permVars,
     mapVars, subVars
<1>37. ASSUME NEW ss \in SUBSET {entry[i] : i \in {j \in Ids : Known(j)}}, Collect(ss)
      PROVE  ClosedOf(e)'
  BY <1>37, <1>21 DEF Collect, pubVars, noteVars, permVars,
     mapVars, subVars
<1>38. ASSUME NEW s \in Subs, LetBe(s)
      PROVE  ClosedOf(e)'
  BY <1>38, <1>21 DEF LetBe, pubVars, noteVars, permVars,
     mapVars, subVars
<1> QED
  BY <1>1, <1>2, <1>3, <1>4, <1>5, <1>6, <1>7, <1>8, <1>9, <1>10, <1>11,
     <1>12, <1>13, <1>14, <1>15, <1>16, <1>17, <1>18, <1>19, <1>20, <1>22,
     <1>23, <1>24, <1>25, <1>26, <1>27, <1>28, <1>29, <1>30, <1>31, <1>32,
     <1>33, <1>34, <1>35, <1>36, <1>37, <1>38 DEF Next, Reconcile,
     AddSubscriber, DownStep, TrackStep

\* A denied track is only forwarded while its revocation is due.
LEMMA DeniedStep ==
  ASSUME TypeOK, WorkerInv, HeldAll, DownAll, NEW e \in Downs, DeniedOf(e),
         [Next]_vars
  PROVE  DeniedOf(e)'
<1>1. ASSUME NEW d \in Downs, CloseDown(d)
      PROVE  DeniedOf(e)'
  <2>1. \A f \in Downs : /\ down'[f].stage = "live" => down[f].stage = "live"
                         /\ down'[f].of = down[f].of /\ down'[f].late = down[f].late
    BY <1>1 DEF CloseDown, TypeOK, WorkTypes, DownTrack
  <2>9. UNCHANGED <<life, allowed, revoking>>
    BY <1>1 DEF CloseDown, pubVars, permVars
  <2> QED
    BY <2>1, <2>9 DEF DeniedOf, Published
<1>2. ASSUME NEW d \in Downs, LeaveMap(d)
      PROVE  DeniedOf(e)'
  <2>1. \A f \in Downs : /\ down'[f].stage = "live" => down[f].stage = "live"
                         /\ down'[f].of = down[f].of /\ down'[f].late = down[f].late
    BY <1>2 DEF LeaveMap, TypeOK, WorkTypes, DownTrack
  <2>9. UNCHANGED <<life, allowed, revoking>>
    BY <1>2 DEF LeaveMap, pubVars, permVars
  <2> QED
    BY <2>1, <2>9 DEF DeniedOf, Published
<1>3. ASSUME NEW d \in Downs, EarlyHandler(d)
      PROVE  DeniedOf(e)'
  <2>1. \A f \in Downs : /\ down'[f].stage = "live" => f # d
                         /\ f # d => down'[f] = down[f]
    BY <1>3, FinishEffect DEF EarlyHandler, TypeOK, WorkTypes
  <2>9. UNCHANGED <<life, allowed, revoking>>
    BY <1>3 DEF EarlyHandler, pubVars, permVars
  <2> QED
    BY <2>1, <2>9 DEF DeniedOf, Published
<1>4. ASSUME NEW d \in Downs, Handler(d)
      PROVE  DeniedOf(e)'
  <2>1. \A f \in Downs : /\ down'[f].stage = "live" => f # d
                         /\ f # d => down'[f] = down[f]
    <3>1. Finish(d).stage # "live"
      <4>1. down[d].stage = "handle"
        BY <1>4 DEF Handler
      <4> QED
        BY <4>1, FinishEffect
    <3>2. down'[d].stage # "live" /\ \A f \in Downs : f # d => down'[f] = down[f]
      BY <1>4, <3>1, HandlerEffect
    <3> QED
      BY <3>2
  <2>9. UNCHANGED <<life, allowed, revoking>>
    BY <1>4 DEF Handler, pubVars, permVars
  <2> QED
    BY <2>1, <2>9 DEF DeniedOf, Published
<1>5. ASSUME NEW d \in Downs, Unmark(d)
      PROVE  DeniedOf(e)'
  <2>1. \A f \in Downs : /\ down'[f].stage = "live" => down[f].stage = "live"
                         /\ down'[f].of = down[f].of /\ down'[f].late = down[f].late
    BY <1>5 DEF Unmark, TypeOK, WorkTypes, DownTrack
  <2>9. UNCHANGED <<life, allowed, revoking>>
    BY <1>5 DEF Unmark, pubVars, permVars
  <2> QED
    BY <2>1, <2>9 DEF DeniedOf, Published
<1>6. ASSUME NEW d \in Downs, RemoveTrackLocal(d)
      PROVE  DeniedOf(e)'
  <2>1. \A f \in Downs : /\ down'[f].stage = "live" => f # d
                         /\ f # d => down'[f] = down[f]
    BY <1>6, FinishEffect DEF RemoveTrackLocal, TypeOK, WorkTypes
  <2>9. UNCHANGED <<life, allowed, revoking>>
    BY <1>6 DEF RemoveTrackLocal, pubVars, permVars
  <2> QED
    BY <2>1, <2>9 DEF DeniedOf, Published
<1>7. ASSUME NEW t \in Tracks, Publish(t)
      PROVE  DeniedOf(e)'
  <2>1. \A u \in Tracks : life[u] # "new" => (life'[u] = "closed" <=> life[u] = "closed")
    BY <1>7 DEF Publish, TypeOK, TrackTypes
  <2>2. \A u \in Tracks : life[u] # "new" => (Published(u)' <=> Published(u))
    BY <1>7 DEF Publish, Published, TypeOK, TrackTypes
  <2>3. \A f \in Downs : down[f].stage = "live" => down[f].of \in Tracks /\ life[down[f].of] # "new"
    BY DEF DownAll, DownInv, TypeOK, WorkTypes, DownTrack
  <2>4. UNCHANGED <<worker, down, allowed, revoking>>
    BY <1>7 DEF Publish, permVars
  <2> QED
    BY <2>1, <2>2, <2>3, <2>4 DEF DeniedOf
<1>8. ASSUME NEW t \in Tracks, SetClosing(t)
      PROVE  DeniedOf(e)'
  <2>1. \A u \in Tracks : life[u] # "new" => (life'[u] = "closed" <=> life[u] = "closed")
    BY <1>8 DEF SetClosing, TypeOK, TrackTypes
  <2>2. \A u \in Tracks : life[u] # "new" => (Published(u)' <=> Published(u))
    BY <1>8 DEF SetClosing, Published, TypeOK, TrackTypes
  <2>3. \A f \in Downs : down[f].stage = "live" => down[f].of \in Tracks /\ life[down[f].of] # "new"
    BY DEF DownAll, DownInv, TypeOK, WorkTypes, DownTrack
  <2>4. UNCHANGED <<worker, down, allowed, revoking>>
    BY <1>8 DEF SetClosing, permVars
  <2> QED
    BY <2>1, <2>2, <2>3, <2>4 DEF DeniedOf
<1>9. ASSUME NEW t \in Tracks, CloseTrack(t)
      PROVE  DeniedOf(e)'
  <2>1. \A f \in Downs : /\ down'[f].of = down[f].of /\ down'[f].late = down[f].late
                         /\ down'[f].stage = "live" => down[f].stage = "live" /\ down[f].of # t
    BY <1>9, AskedEffect DEF CloseTrack
  <2>2. \A u \in Tracks : u # t => life'[u] = life[u]
    BY <1>9 DEF CloseTrack, TypeOK, TrackTypes
  <2>3. \A f \in Downs : down[f].stage = "live" => down[f].of \in Tracks
    BY DEF DownAll, DownInv, TypeOK, WorkTypes, DownTrack
  <2>4. UNCHANGED <<worker, allowed, revoking>>
    BY <1>9 DEF CloseTrack, permVars
  <2> QED
    BY <2>1, <2>2, <2>3, <2>4 DEF DeniedOf, Published
<1>10. ASSUME NEW i \in Ids, SetPermission(i)
      PROVE  DeniedOf(e)'
  <2>1. \A f \in Downs : /\ down'[f].of = down[f].of /\ down'[f].stage = down[f].stage
                         /\ IdOf[down[f].of] # i => down'[f].late = down[f].late
    BY <1>10 DEF SetPermission, TypeOK, WorkTypes, DownTrack
  <2>2. /\ \A j \in Ids : j # i => allowed'[j] = allowed[j]
        /\ ~allowed'[i] => i \in revoking'
        /\ revoking \subseteq revoking'
    BY <1>10 DEF SetPermission, TypeOK, NoteTypes
  <2>3. \A f \in Downs : down[f].stage = "live" => IdOf[down[f].of] \in Ids
    BY SubscriptionsAssumption DEF DownAll, DownInv, TypeOK, WorkTypes, DownTrack
  <2>4. UNCHANGED life
    BY <1>10 DEF SetPermission, pubVars
  <2>5. ASSUME down'[e].stage = "live",
               ~allowed'[IdOf[down'[e].of]], Published(down[e].of)'
        PROVE  IdOf[down'[e].of] \in revoking' \/ down'[e].late
    <3>1. down[e].stage = "live" /\ down'[e].of = down[e].of /\ Published(down[e].of)
      BY <2>1, <2>4, <2>5 DEF Published
    <3>2. CASE IdOf[down[e].of] = i
      BY <2>2, <2>5, <3>1, <3>2
    <3>3. CASE IdOf[down[e].of] # i
      BY <2>1, <2>2, <2>3, <2>5, <3>1, <3>3 DEF DeniedOf
    <3> QED
      BY <3>2, <3>3
  <2> QED
    BY <2>5 DEF DeniedOf
<1>11. ASSUME NEW i \in Ids, RevokeDisallowed(i)
      PROVE  DeniedOf(e)'
  <2> DEFINE ts == {t \in Tracks : IdOf[t] = i /\ Published(t)}
  <2>1. \A f \in Downs : /\ down'[f].of = down[f].of /\ down'[f].late = down[f].late
                         /\ down'[f].stage = "live" => down[f].stage = "live" /\ down[f].of \notin ts
    BY <1>11, AskedEffect DEF RevokeDisallowed
  <2>2. \A f \in Downs : down[f].stage = "live" => down[f].of \in Tracks
    BY DEF DownAll, DownInv, TypeOK, WorkTypes, DownTrack
  <2>3. UNCHANGED <<life, allowed>> /\ revoking' = revoking \ {i}
    BY <1>11 DEF RevokeDisallowed, pubVars
  <2>4. ASSUME down'[e].stage = "live",
               ~allowed'[IdOf[down'[e].of]], Published(down[e].of)'
        PROVE  IdOf[down'[e].of] \in revoking' \/ down'[e].late
    <3>1. /\ down[e].stage = "live" /\ down'[e].of = down[e].of /\ Published(down[e].of)
          /\ IdOf[down[e].of] # i /\ down'[e].late = down[e].late
      BY <2>1, <2>2, <2>3, <2>4 DEF Published
    <3> QED
      BY <2>3, <2>4, <3>1 DEF DeniedOf
  <2> QED
    BY <2>4 DEF DeniedOf
<1>12. CASE Close
  <2>1. \A f \in Downs : /\ down'[f].of = down[f].of /\ down'[f].late = down[f].late
                         /\ down'[f].stage = "live" => down[f].stage = "live"
    BY <1>12, CloseEffect
  <2>9. UNCHANGED <<life, allowed, revoking>>
    BY <1>12 DEF Close, pubVars, permVars
  <2> QED
    BY <2>1, <2>9 DEF DeniedOf, Published
<1>13. CASE Insert
  <2>1. PICK g \in Downs : /\ down'[g] = [of |-> worker.track, by |-> NoSub, stage |-> "live",
                                        late |-> worker.late]
                          /\ worker'.at = "recheck" /\ worker'.down = g
                          /\ \A f \in Downs : f # g => down'[f] = down[f]
    BY <1>13 DEF Insert, TypeOK, WorkTypes
  <2>2. down'[g].of = worker.track /\ down'[g].late = worker.late
    BY <2>1
  <2>3. worker.at = "insert" /\ worker.track \in Tracks
    BY <1>13 DEF Insert, WorkerInv
  <2>4. ~allowed[IdOf[worker.track]] => worker.late
    BY <2>3 DEF WorkerInv
  <2>5. UNCHANGED <<life, allowed, revoking>>
    BY <1>13 DEF Insert, pubVars, permVars
  <2> QED
    BY <2>1, <2>2, <2>3, <2>4, <2>5 DEF DeniedOf, Published
<1>14. CASE Recheck
  <2>1. Free.stage = "free"
    BY DEF Free
  <2>2. /\ UNCHANGED <<life, allowed>>
        /\ \A f \in Downs : down'[f].stage = "live" =>
            down'[f].of = down[f].of /\ down[f].stage = "live" /\ down'[f].late = down[f].late
    BY <1>14, <2>1, RecheckEffect
  <2>3. UNCHANGED revoking
    BY <1>14 DEF Recheck, permVars
  <2> QED
    BY <2>2, <2>3 DEF DeniedOf, Published
<1>15. CASE Attach
  <2>1. \A f \in Downs : /\ down'[f].stage = "live" => down[f].stage = "live"
                         /\ down'[f].of = down[f].of /\ down'[f].late = down[f].late
    BY <1>15 DEF Attach, WorkerInv, TypeOK, WorkTypes, DownTrack
  <2>2. UNCHANGED <<life, allowed, revoking>> /\ worker.at = "attach"
    BY <1>15 DEF Attach, pubVars, permVars
  <2> QED
    BY <2>1, <2>2 DEF DeniedOf, Published
<1>16. ASSUME NEW t \in Tracks, RemoveSubscriber(t)
      PROVE  DeniedOf(e)'
  <2>1. \A f \in Downs : /\ down'[f].of = down[f].of /\ down'[f].late = down[f].late
                         /\ down'[f].stage = "live" => down[f].stage = "live"
    BY <1>16, AskedEffect DEF RemoveSubscriber
  <2>9. UNCHANGED <<life, allowed, revoking>>
    BY <1>16 DEF RemoveSubscriber, pubVars, permVars
  <2> QED
    BY <2>1, <2>9 DEF DeniedOf, Published
<1>17. CASE UNCHANGED <<life, down, allowed, revoking>>
  BY <1>17 DEF DeniedOf, Published, TypeOK, WorkTypes
<1>18. CASE UNCHANGED vars
  BY <1>18, <1>17 DEF vars, pubVars, noteVars, permVars, mapVars, subVars
<1>19. ASSUME NEW t \in Tracks, Announce(t)
      PROVE  DeniedOf(e)'
  BY <1>19, <1>17 DEF Announce, pubVars, noteVars, permVars, mapVars, subVars
<1>20. CASE Leave
  BY <1>20, <1>17 DEF Leave, pubVars, noteVars, permVars, mapVars, subVars
<1>21. ASSUME NEW t \in Tracks, Unlist(t)
      PROVE  DeniedOf(e)'
  BY <1>21, <1>17 DEF Unlist, pubVars, noteVars, permVars, mapVars, subVars
<1>22. ASSUME NEW t \in Tracks, NotifyRemoved(t)
      PROVE  DeniedOf(e)'
  BY <1>22, <1>17 DEF NotifyRemoved, pubVars, noteVars, permVars, mapVars, subVars
<1>23. ASSUME NEW i \in Ids, Subscribe(i)
      PROVE  DeniedOf(e)'
  BY <1>23, <1>17 DEF Subscribe, pubVars, noteVars, permVars, mapVars, subVars
<1>24. ASSUME NEW i \in Ids, Unsubscribe(i)
      PROVE  DeniedOf(e)'
  BY <1>24, <1>17 DEF Unsubscribe, pubVars, noteVars, permVars, mapVars, subVars
<1>25. ASSUME NEW i \in Ids, DropObserver(i)
      PROVE  DeniedOf(e)'
  BY <1>25, <1>17 DEF DropObserver, pubVars, noteVars, permVars, mapVars, subVars
<1>26. ASSUME NEW t \in Tracks, RemovedResolves(t)
      PROVE  DeniedOf(e)'
  BY <1>26, <1>17 DEF RemovedResolves, pubVars, noteVars, permVars, mapVars, subVars
<1>27. ASSUME NEW t \in Tracks, HandleSourceTrackRemoved(t)
      PROVE  DeniedOf(e)'
  BY <1>27, <1>17 DEF HandleSourceTrackRemoved, pubVars, noteVars, permVars,
     mapVars, subVars
<1>28. ASSUME NEW s \in Subs, Resolve(s)
      PROVE  DeniedOf(e)'
  BY <1>28, <1>17 DEF Resolve, pubVars, noteVars, permVars, mapVars, subVars
<1>29. ASSUME NEW s \in Subs, TrackNotFound(s)
      PROVE  DeniedOf(e)'
  BY <1>29, <1>17 DEF TrackNotFound, pubVars, noteVars, permVars, mapVars, subVars
<1>30. CASE Watch
  BY <1>30, <1>17 DEF Watch, pubVars, noteVars, permVars, mapVars, subVars
<1>31. CASE Enter
  BY <1>31, <1>17 DEF Enter, pubVars, noteVars, permVars, mapVars, subVars
<1>32. CASE Hold
  BY <1>32, <1>17 DEF Hold, pubVars, noteVars, permVars, mapVars, subVars
<1>33. ASSUME NEW s \in Subs, ReconcileUnsubscribe(s)
      PROVE  DeniedOf(e)'
  BY <1>33, <1>17 DEF ReconcileUnsubscribe, pubVars, noteVars, permVars,
     mapVars, subVars
<1>34. ASSUME NEW s \in Subs, Cleanup(s)
      PROVE  DeniedOf(e)'
  BY <1>34, <1>17 DEF Cleanup, pubVars, noteVars, permVars, mapVars, subVars
<1>35. ASSUME NEW i \in Ids, Store(i)
      PROVE  DeniedOf(e)'
  BY <1>35, <1>17 DEF Store, pubVars, noteVars, permVars,
     mapVars, subVars
<1>36. ASSUME NEW i \in Ids, Desire(i)
      PROVE  DeniedOf(e)'
  BY <1>36, <1>17 DEF Desire, pubVars, noteVars, permVars,
     mapVars, subVars
<1>37. ASSUME NEW ss \in SUBSET {entry[i] : i \in {j \in Ids : Known(j)}}, Collect(ss)
      PROVE  DeniedOf(e)'
  BY <1>37, <1>17 DEF Collect, pubVars, noteVars, permVars,
     mapVars, subVars
<1>38. ASSUME NEW s \in Subs, LetBe(s)
      PROVE  DeniedOf(e)'
  BY <1>38, <1>17 DEF LetBe, pubVars, noteVars, permVars,
     mapVars, subVars
<1> QED
  BY <1>1, <1>2, <1>3, <1>4, <1>5, <1>6, <1>7, <1>8, <1>9, <1>10, <1>11,
     <1>12, <1>13, <1>14, <1>15, <1>16, <1>18, <1>19, <1>20, <1>21, <1>22,
     <1>23, <1>24, <1>25, <1>26, <1>27, <1>28, <1>29, <1>30, <1>31, <1>32,
     <1>33, <1>34, <1>35, <1>36, <1>37, <1>38 DEF Next, Reconcile,
     AddSubscriber, DownStep, TrackStep


\* The map keeps to subscriptions of its ids.
LEMMA MapStep ==
  ASSUME TypeOK, MapAll, WorkerInv,
         [Next]_vars
  PROVE  MapTypes' /\ MapAll'
<1>1. \A i \in Ids : entry[i] \in Subs \cup {NoSub}
  BY DEF TypeOK, MapTypes
<1>2. ASSUME UNCHANGED <<missed, wanting, entry, listed>>,
             \A s \in Subs : sub'[s].of = sub[s].of
      PROVE  MapTypes' /\ MapAll'
  BY <1>1, <1>2 DEF MapAll, MapInv, Known, TypeOK, MapTypes
<1>3. ASSUME UNCHANGED <<missed, wanting, entry, sub>>, listed' \subseteq Subs
      PROVE  MapTypes' /\ MapAll'
  BY <1>3 DEF MapAll, MapInv, Known, TypeOK, MapTypes
<1>4. ASSUME NEW d \in Downs, CloseDown(d)
      PROVE  MapTypes' /\ MapAll'
  BY <1>4, <1>2 DEF CloseDown, mapVars, subVars
<1>5. ASSUME NEW d \in Downs, LeaveMap(d)
      PROVE  MapTypes' /\ MapAll'
  BY <1>5, <1>2 DEF LeaveMap, mapVars, subVars
<1>6. ASSUME NEW d \in Downs, EarlyHandler(d)
      PROVE  MapTypes' /\ MapAll'
  BY <1>6, <1>2 DEF EarlyHandler, mapVars, subVars
<1>7. ASSUME NEW d \in Downs, Unmark(d)
      PROVE  MapTypes' /\ MapAll'
  BY <1>7, <1>2 DEF Unmark, mapVars, subVars
<1>8. ASSUME NEW d \in Downs, RemoveTrackLocal(d)
      PROVE  MapTypes' /\ MapAll'
  BY <1>8, <1>2 DEF RemoveTrackLocal, mapVars, subVars
<1>9. ASSUME NEW t \in Tracks, Publish(t)
      PROVE  MapTypes' /\ MapAll'
  BY <1>9, <1>2 DEF Publish, mapVars, subVars
<1>10. ASSUME NEW t \in Tracks, Announce(t)
      PROVE  MapTypes' /\ MapAll'
  BY <1>10, <1>2 DEF Announce, mapVars, subVars
<1>11. ASSUME NEW t \in Tracks, SetClosing(t)
      PROVE  MapTypes' /\ MapAll'
  BY <1>11, <1>2 DEF SetClosing, mapVars, subVars
<1>12. ASSUME NEW t \in Tracks, CloseTrack(t)
      PROVE  MapTypes' /\ MapAll'
  BY <1>12, <1>2 DEF CloseTrack, mapVars, subVars
<1>13. ASSUME NEW t \in Tracks, Unlist(t)
      PROVE  MapTypes' /\ MapAll'
  BY <1>13, <1>2 DEF Unlist, mapVars, subVars
<1>14. ASSUME NEW t \in Tracks, RemovedResolves(t)
      PROVE  MapTypes' /\ MapAll'
  BY <1>14, <1>2 DEF RemovedResolves, mapVars, subVars
<1>15. ASSUME NEW t \in Tracks, RemoveSubscriber(t)
      PROVE  MapTypes' /\ MapAll'
  BY <1>15, <1>2 DEF RemoveSubscriber, mapVars, subVars
<1>16. ASSUME NEW i \in Ids, SetPermission(i)
      PROVE  MapTypes' /\ MapAll'
  BY <1>16, <1>2 DEF SetPermission, mapVars, subVars
<1>17. ASSUME NEW i \in Ids, RevokeDisallowed(i)
      PROVE  MapTypes' /\ MapAll'
  BY <1>17, <1>2 DEF RevokeDisallowed, mapVars, subVars
<1>18. ASSUME NEW i \in Ids, DropObserver(i)
      PROVE  MapTypes' /\ MapAll'
  BY <1>18, <1>2 DEF DropObserver, mapVars, subVars
<1>19. CASE Leave
  BY <1>19, <1>2 DEF Leave, mapVars, subVars
<1>20. CASE Enter
  BY <1>20, <1>2 DEF Enter, mapVars, subVars
<1>21. CASE Insert
  BY <1>21, <1>2 DEF Insert, mapVars, subVars
<1>22. CASE Recheck
  BY <1>22, <1>2 DEF Recheck, mapVars, subVars
<1>23. CASE Attach
  BY <1>23, <1>2 DEF Attach, mapVars, subVars
<1>24. ASSUME NEW s \in Subs, Resolve(s)
      PROVE  MapTypes' /\ MapAll'
  BY <1>24, <1>3 DEF Resolve, Turn, subVars, TypeOK, MapTypes
<1>25. ASSUME NEW s \in Subs, ReconcileUnsubscribe(s)
      PROVE  MapTypes' /\ MapAll'
  BY <1>25, <1>3 DEF ReconcileUnsubscribe, Turn, subVars, TypeOK, MapTypes
<1>26. ASSUME NEW s \in Subs, LetBe(s)
      PROVE  MapTypes' /\ MapAll'
  BY <1>26, <1>3 DEF LetBe, Turn, subVars, TypeOK, MapTypes
<1>27. ASSUME NEW ss \in SUBSET {entry[i] : i \in {j \in Ids : Known(j)}}, Collect(ss)
      PROVE  MapTypes' /\ MapAll'
  BY <1>27, <1>1, <1>3 DEF Collect, Known, subVars
<1>28. ASSUME NEW d \in Downs, Handler(d)
      PROVE  MapTypes' /\ MapAll'
  <2>1. \A s \in Subs : sub'[s].of = sub[s].of
    BY <1>28 DEF Handler, TypeOK, SubTypes, Subscription
  <2> QED
    BY <1>28, <2>1, <1>2 DEF Handler, mapVars
<1>29. ASSUME NEW t \in Tracks, NotifyRemoved(t)
      PROVE  MapTypes' /\ MapAll'
  <2>1. \A s \in Subs : sub'[s].of = sub[s].of
    BY <1>29 DEF NotifyRemoved, TypeOK, SubTypes, Subscription
  <2> QED
    BY <1>29, <2>1, <1>2 DEF NotifyRemoved, mapVars
<1>30. ASSUME NEW i \in Ids, Unsubscribe(i)
      PROVE  MapTypes' /\ MapAll'
  BY <1>30, <1>1, <1>2, UndesiredEffect DEF Unsubscribe, Desired, Known, mapVars
<1>31. ASSUME NEW t \in Tracks, HandleSourceTrackRemoved(t)
      PROVE  MapTypes' /\ MapAll'
  <2>1. entry[IdOf[t]] \in Subs \cup {NoSub}
    BY <1>1, SubscriptionsAssumption
  <2> QED
    BY <1>31, <2>1, <1>2, UndesiredEffect DEF HandleSourceTrackRemoved, mapVars
<1>32. CASE Watch
  <2>1. worker.sub \in Subs
    BY <1>32 DEF Watch, WorkerInv
  <2>2. \A s \in Subs : sub'[s].of = sub[s].of
    BY <1>32, <2>1 DEF Watch, TypeOK, SubTypes, Subscription
  <2> QED
    BY <1>32, <2>2, <1>2 DEF Watch, mapVars
<1>33. CASE Hold
  <2>1. worker.sub \in Subs
    BY <1>33 DEF Hold, WorkerInv
  <2>2. \A s \in Subs : sub'[s].of = sub[s].of
    BY <1>33, <2>1 DEF Hold, TypeOK, SubTypes, Subscription
  <2> QED
    BY <1>33, <2>2, <1>2 DEF Hold, mapVars
<1>34. CASE Close
  <2>1. \A s \in Subs : sub'[s].of = sub[s].of
    BY <1>34, CloseEffect
  <2> QED
    BY <1>34, <1>1, <2>1 DEF Close, MapAll, MapInv, Known, TypeOK, MapTypes
<1>35. ASSUME NEW s \in Subs, TrackNotFound(s)
      PROVE  MapTypes' /\ MapAll'
  <2>1. \A j \in Subs : sub'[j].of = sub[j].of
    BY <1>35, UndesiredEffect DEF TrackNotFound
  <2> QED
    BY <1>35, <1>1, <2>1 DEF TrackNotFound, Turn, MapAll, MapInv, Known, TypeOK, MapTypes
<1>36. ASSUME NEW i \in Ids, Subscribe(i)
      PROVE  MapTypes' /\ MapAll'
  <2>1. \A s \in Subs : sub'[s].of = sub[s].of
    BY <1>36, <1>1 DEF Subscribe, Known, TypeOK, SubTypes, Subscription
  <2>2. missed' \in [Ids -> Nat]
    BY <1>36 DEF Subscribe, TypeOK, MapTypes
  <2> QED
    BY <1>36, <1>1, <2>1, <2>2 DEF Subscribe, MapAll, MapInv, Known, TypeOK, MapTypes
<1>37. ASSUME NEW i \in Ids, Desire(i)
      PROVE  MapTypes' /\ MapAll'
  <2>1. \A s \in Subs : sub'[s].of = sub[s].of
    BY <1>37, <1>1 DEF Desire, Known, TypeOK, SubTypes, Subscription
  <2>2. wanting' \in [Ids -> Nat]
    BY <1>37 DEF Desire, TypeOK, MapTypes
  <2> QED
    BY <1>37, <1>1, <2>1, <2>2 DEF Desire, MapAll, MapInv, Known, TypeOK, MapTypes
<1>38. ASSUME NEW i \in Ids, Store(i)
      PROVE  MapTypes' /\ MapAll'
  <2> DEFINE s == CHOOSE x \in Subs : Unused(x)
  <2>1. /\ s \in Subs /\ Unused(s)
        /\ sub' = [sub EXCEPT ![s] = New(i)] /\ entry' = [entry EXCEPT ![i] = s]
    BY <1>38 DEF Store
  <2> HIDE DEF s
  <2>2. \A j \in Subs : sub'[j] = IF j = s THEN New(i) ELSE sub[j]
    BY <2>1 DEF TypeOK, SubTypes
  <2>3. \A j \in Ids : entry'[j] = (IF j = i THEN s ELSE entry[j]) /\ entry[j] # s
    BY <2>1 DEF Unused, TypeOK, MapTypes
  <2>4. New(i).of = i
    BY DEF New
  <2>5. MapAll'
    BY <2>1, <2>2, <2>3, <2>4 DEF MapAll, MapInv, Known, TypeOK, MapTypes
  <2>6. missed' \in [Ids -> Nat] /\ wanting' \in [Ids -> Nat] /\ listed' = listed
    BY <1>38 DEF Store, TypeOK, MapTypes
  <2>7. entry' \in [Ids -> Subs \cup {NoSub}]
    BY <2>1 DEF TypeOK, MapTypes
  <2> QED
    BY <2>5, <2>6, <2>7 DEF TypeOK, MapTypes
<1>39. ASSUME NEW s \in Subs, Cleanup(s)
      PROVE  MapTypes' /\ MapAll'
  <2>1. \A j \in Subs : sub'[j] = IF j = s THEN Blank ELSE sub[j]
    BY <1>39 DEF Cleanup, TypeOK, SubTypes
  <2>2. \A j \in Ids : entry'[j] = IF j = sub[s].of THEN NoSub ELSE entry[j]
    BY <1>39 DEF Cleanup, TypeOK, MapTypes
  <2>3. MapAll'
    BY <1>1, <2>1, <2>2 DEF MapAll, MapInv, Known
  <2> QED
    BY <1>39, <2>3 DEF Cleanup, Turn, TypeOK, MapTypes
<1>40. CASE UNCHANGED vars
  BY <1>40, <1>2 DEF vars, mapVars, subVars
<1> QED
  BY <1>4, <1>5, <1>6, <1>7, <1>8, <1>9, <1>10, <1>11, <1>12, <1>13, <1>14,
     <1>15, <1>16, <1>17, <1>18, <1>19, <1>20, <1>21, <1>22, <1>23, <1>24,
     <1>25, <1>26, <1>27, <1>28, <1>29, <1>30, <1>31, <1>32, <1>33, <1>34,
     <1>35, <1>36, <1>37, <1>38, <1>39, <1>40
     DEF Next, Reconcile, AddSubscriber, DownStep, TrackStep

\* The parts of the inductive invariant, as the lemmas above name them.
LEMMA InvParts ==
  /\ SubscriptionsInv <=> (/\ TypeOK /\ HeldAll /\ MapAll /\ InfosAll /\ DownAll
                           /\ WorkerInv /\ CountAll)
  /\ SubscriptionsInv' <=> (/\ TypeOK' /\ HeldAll' /\ MapAll' /\ InfosAll' /\ DownAll'
                            /\ WorkerInv' /\ CountAll')
  BY DEF SubscriptionsInv, HeldAll, MapAll, InfosAll, DownAll, CountAll

\* The invariant holds initially: nothing is published, held or forwarded.
LEMMA InitInv ==
  ASSUME Init
  PROVE  SubscriptionsInv
<1>1. TypeOK
  <2>1. TrackTypes /\ NoteTypes
    <3>1. <<>> \in Seq(Tracks) /\ 0 \in 0..MaxEvents /\ 0 \in 0..MaxPending
      BY SubscriptionsAssumption DEF MaxPending
    <3>2. TrackTypes
      BY <3>1 DEF Init, TrackTypes
    <3>3. NoteTypes
      BY <3>1 DEF Init, NoteTypes
    <3> QED
      BY <3>2, <3>3
  <2>2. SubTypes
    <3>2. sub \in [Subs -> Subscription]
      BY BlankType DEF Init
    <3>3. count \in Int /\ marked \subseteq Ids
      BY DEF Init
    <3>4. closed \in BOOLEAN
      BY DEF Init
    <3> QED
      BY <3>2, <3>3, <3>4 DEF SubTypes
  <2>4. MapTypes
    BY DEF Init, MapTypes
  <2>3. WorkTypes
    <3>1. Free \in DownTrack
      BY DEF Free, DownTrack, Stages
    <3> QED
      BY <3>1, IdleType DEF Init, WorkTypes
  <2> QED
    BY <2>1, <2>2, <2>3, <2>4 DEF TypeOK
<1>2. HeldAll /\ InfosAll /\ MapAll
  BY BlankType DEF MapAll, MapInv, Known, Init, HeldAll, InfosAll, HeldInv, InfosInv
<1>3. DownAll
  BY DEF Init, Free, DownAll, DownInv
<1>4. WorkerInv
  BY DEF Init, Idle, WorkerInv
<1>5. CountAll
  <2>1. Held = {}
    BY BlankType DEF Init, Held
  <2> QED
    BY <2>1, FS_EmptySet, SubscriptionsAssumption DEF Init, CountAll
<1> QED
  BY <1>1, <1>2, <1>3, <1>4, <1>5, InvParts

\* Every step keeps the invariant.
LEMMA StepInv ==
  ASSUME SubscriptionsInv, [Next]_vars
  PROVE  SubscriptionsInv'
<1>1. TypeOK /\ HeldAll /\ MapAll /\ InfosAll /\ DownAll /\ WorkerInv /\ CountAll
  BY InvParts
<1>2. TypeOK'
  BY <1>1, TrackTypesStep, NoteTypesStep, MapStep, SubTypesStep, WorkTypesStep DEF TypeOK
<1>3. HeldAll' /\ MapAll' /\ InfosAll' /\ WorkerInv' /\ CountAll'
  BY <1>1, HeldStep, MapStep, InfosStep, WorkerStep, CountStep
<1>4. DownAll'
  BY <1>1, DownInvStep DEF DownAll
<1> QED
  BY <1>2, <1>3, <1>4, InvParts

\* No more forwards than the limit: what forwards is held, or in the hands of a
\* worker that saw room for one more.
LEMMA ForwardingBounded ==
  ASSUME SubscriptionsInv
  PROVE  WithinLimit
<1> DEFINE heldDowns == {sub[i].held : i \in Held}
           f == [i \in Held |-> sub[i].held]
<1>1. IsFiniteSet(Held) /\ Cardinality(Held) \in Nat
  BY SubscriptionsAssumption, FS_Subset, FS_CardinalityType DEF Held
<1>2. f \in Surjection(Held, heldDowns)
  BY DEF Surjection
<1>3. /\ IsFiniteSet(heldDowns) /\ Cardinality(heldDowns) \in Nat
      /\ Cardinality(heldDowns) <= Cardinality(Held)
  <2> HIDE DEF f, heldDowns
  <2> QED
    BY <1>1, <1>2, FS_Surjection, FS_CardinalityType
<1>4. Forwarding \subseteq heldDowns \cup {worker.down}
  BY SubscriptionsAssumption DEF SubscriptionsInv, DownInv, Forwarding, Held
<1>5. /\ Cardinality(Held) <= Limit /\ Limit \in Nat
      /\ worker.down # NoDown => Cardinality(Held) < Limit
  BY SubscriptionsAssumption DEF SubscriptionsInv, WorkerInv
<1> HIDE DEF f, heldDowns
<1>6. /\ IsFiniteSet(heldDowns \cup {worker.down})
      /\ Cardinality(heldDowns \cup {worker.down}) \in Nat
      /\ Cardinality(heldDowns \cup {worker.down}) <= Cardinality(heldDowns) + 1
  BY <1>3, FS_AddElement
<1>7. CASE worker.down # NoDown
  <2>1. Cardinality(Forwarding) <= Cardinality(heldDowns \cup {worker.down})
    BY <1>4, <1>6, FS_Subset
  <2>2. Cardinality(Forwarding) \in Nat
    BY <1>4, <1>6, FS_Subset, FS_CardinalityType
  <2> QED
    BY <1>1, <1>3, <1>5, <1>6, <1>7, <2>1, <2>2 DEF WithinLimit
<1>8. CASE worker.down = NoDown
  <2>1. Forwarding \subseteq heldDowns
    BY <1>4, <1>8, SubscriptionsAssumption DEF Forwarding
  <2>2. Cardinality(Forwarding) <= Cardinality(heldDowns)
    BY <1>3, <2>1, FS_Subset
  <2>3. Cardinality(Forwarding) \in Nat
    BY <1>3, <2>1, FS_Subset, FS_CardinalityType
  <2> QED
    BY <1>1, <1>3, <1>5, <2>2, <2>3 DEF WithinLimit
<1> QED
  BY <1>7, <1>8

\* The invariant that the others rest on: types, what is held and by whom, what
\* the worker may rely on between its steps, and the counter.
THEOREM SubscriptionsInvariant == Spec => []SubscriptionsInv
<1>1. Init => SubscriptionsInv
  BY InitInv
<1>2. SubscriptionsInv /\ [Next]_vars => SubscriptionsInv'
  BY StepInv
<1> QED
  BY <1>1, <1>2, PTL DEF Spec

\* The counter that the limit is checked against is the number of subscriptions
\* that hold a down track, however close handlers and subscribing interleave.
THEOREM CounterIsExact == Spec => []CountMatches
<1>1. SubscriptionsInv => CountMatches
  BY DEF SubscriptionsInv, CountMatches
<1> QED
  BY <1>1, SubscriptionsInvariant, PTL

\* The subscriber is never sent more tracks than SubscriptionLimitVideo.
THEOREM LimitIsKept == Spec => []WithinLimit
<1>1. SubscriptionsInv => WithinLimit
  BY ForwardingBounded
<1> QED
  BY <1>1, SubscriptionsInvariant, PTL

\* Together: the counter is exact, and with it no more tracks than the limit are sent.
THEOREM LimitAlwaysCounts == Spec => []LimitCounts
  BY CounterIsExact, LimitIsKept, PTL DEF LimitCounts

\* A closed track forwards to nobody, except between AddSubscriber's insertion
\* and its second look at the state.
THEOREM ClosedTracksAreLeft == Spec => []ClosedHasNoSubscriber
<1>1. Init => ClosedHasNoSubscriber
  BY DEF Init, Free, ClosedHasNoSubscriber, Forwarding
<1>2. SubscriptionsInv /\ ClosedHasNoSubscriber /\ [Next]_vars => ClosedHasNoSubscriber'
  <2>1. /\ ClosedHasNoSubscriber <=> \A f \in Downs : ClosedOf(f)
        /\ ClosedHasNoSubscriber' <=> \A f \in Downs : ClosedOf(f)'
    BY DEF ClosedHasNoSubscriber, Forwarding, ClosedOf
  <2> QED
    BY <2>1, InvParts, ClosedStep
<1> QED
  BY <1>1, <1>2, SubscriptionsInvariant, PTL DEF Spec

\* A denied track is revoked: it is forwarded no longer than the revocation is
\* due, unless it was being subscribed while it was denied.
THEOREM DeniedTracksAreRevoked == Spec => []DeniedIsRevoked
<1>1. Init => DeniedIsRevoked
  BY DEF Init, Free, DeniedIsRevoked, Forwarding
<1>2. SubscriptionsInv /\ DeniedIsRevoked /\ [Next]_vars => DeniedIsRevoked'
  <2>1. /\ DeniedIsRevoked <=> \A f \in Downs : DeniedOf(f)
        /\ DeniedIsRevoked' <=> \A f \in Downs : DeniedOf(f)'
    BY DEF DeniedIsRevoked, Forwarding, DeniedOf
  <2> QED
    BY <2>1, InvParts, DeniedStep
<1> QED
  BY <1>1, <1>2, SubscriptionsInvariant, PTL DEF Spec

=============================================================================
