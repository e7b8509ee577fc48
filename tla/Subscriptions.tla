---------------------------- MODULE Subscriptions ----------------------------
(***************************************************************************)
(* How one subscriber comes to receive, and stops receiving, the tracks of *)
(* one publisher: the reconciling worker of SubscriptionManager, the       *)
(* subscribers a published track keeps (MediaTrackReceiver and             *)
(* MediaTrackSubscriptions), the room's RoomTrackManager with its          *)
(* notifiers, and the publisher's permissions (UpTrackManager).            *)
(*                                                                         *)
(* The same track id may be published again under a new track object when  *)
(* the previous one has closed, so objects and ids are apart.  Everything  *)
(* the code starts with "go" is a step of its own here: the announcement   *)
(* of a publication, the removed-observers, RemoveObserver, RemoveSubscriber*)
(* of an unsubscribe, the closing of a down track and its handler.         *)
(*                                                                         *)
(* Nor is the same id one subscription: SubscribeToTrack looks an id up and *)
(* stores a new subscription under two locks, so that a second call may    *)
(* replace what the worker or a down track goes on using.                  *)
(*                                                                         *)
(* Left out: data tracks, one-shot signalling and synchronous subscribing, *)
(* UpdateSubscribedTrackSettings (which creates a subscription nobody wants *)
(* yet), down tracks that are resumed, binding and its errors.             *)
(***************************************************************************)
EXTENDS Integers, FiniteSets, SequencesExt

CONSTANTS
  Ids,        \* track ids
  Tracks,     \* published track objects
  IdOf,       \* the id each object is published under
  Downs,      \* slots for down tracks; a finished one is used again
  Subs,       \* slots for subscriptions (trackSubscription); unused ones are used again
  NoTrack, NoDown, NoSub,
  Limit,      \* SubscriptionLimitVideo: every track is a video track
  MaxEvents   \* how many things subscriber and publisher do

ASSUME SubscriptionsAssumption ==
  /\ Ids # {}
  /\ IsFiniteSet(Subs) /\ IsFiniteSet(Downs)
  /\ IdOf \in [Tracks -> Ids]
  /\ NoTrack \notin Tracks /\ NoDown \notin Downs /\ NoSub \notin Subs
  /\ Limit \in Nat /\ MaxEvents \in Nat

VARIABLES
  life,       \* MediaTrackReceiver.state of each object
  removing,   \* how far RoomTrackManager.RemoveTrack of it has come
  announcing, \* objects whose handleTrackPublished goroutine has yet to run
  left,       \* the publisher has left the room
  infos,      \* RoomTrackManager.tracks
  observed,   \* the subscriber is an observer of the id's removed notifier
  dropping,   \* RemoveObserver goroutines on their way to that notifier
  callback,   \* removed-observers notified of an object's removal
  allowed,    \* the publisher lets the subscriber have the id
  revoking,   \* UpdateSubscriptionPermission has yet to revoke
  missed,     \* SubscribeToTrack calls that found no subscription of the id
  wanting,    \* and those that have stored one and have yet to desire it
  entry,      \* SubscriptionManager.subscriptions
  listed,     \* what reconcileWorker has taken from it and has yet to reconcile
  sub,        \* the subscriptions
  count,      \* subscribedVideoCount
  marked,     \* ids in subscribedTo of the publisher
  unsub,      \* RemoveSubscriber goroutines of unsubscribe, by object
  worker,     \* where reconcileSubscription is
  down,       \* the down tracks
  closed,     \* SubscriptionManager.Close has been called
  events      \* what they have done

pubVars == <<life, removing, announcing, left, infos>>
noteVars == <<observed, dropping, callback>>
permVars == <<allowed, revoking>>
mapVars == <<missed, wanting, entry, listed>>
subVars == <<sub, count, marked, closed>>
vars == <<pubVars, noteVars, permVars, mapVars, subVars, unsub, worker, down, events>>

\* A bound: the RemoveSubscriber goroutines of one track followed at a time.
\* (They only repeat each other.)
MaxPending == 1

Idle == [at |-> "idle", sub |-> NoSub, track |-> NoTrack, down |-> NoDown, late |-> FALSE]
New(i) == [of |-> i, desired |-> FALSE, kind |-> FALSE, watch |-> "none", held |-> NoDown]
Blank == New(CHOOSE i \in Ids : TRUE)
Free == [of |-> NoTrack, by |-> NoSub, stage |-> "free", late |-> FALSE]

Init ==
  /\ life = [t \in Tracks |-> "new"]
  /\ removing = [t \in Tracks |-> "no"]
  /\ announcing = {}
  /\ left = FALSE
  /\ infos = [i \in Ids |-> <<>>]
  /\ observed = [i \in Ids |-> FALSE]
  /\ dropping = [i \in Ids |-> 0]
  /\ callback = [t \in Tracks |-> "none"]
  /\ allowed = [i \in Ids |-> TRUE]
  /\ revoking = {}
  /\ missed = [i \in Ids |-> 0]
  /\ wanting = [i \in Ids |-> 0]
  /\ entry = [i \in Ids |-> NoSub]
  /\ listed = {}
  /\ sub = [s \in Subs |-> Blank]
  /\ count = 0
  /\ marked = {}
  /\ unsub = [t \in Tracks |-> 0]
  /\ worker = Idle
  /\ down = [d \in Downs |-> Free]
  /\ closed = FALSE
  /\ events = 0

\* An action of someone outside: a choice, never an obligation.
Event == events < MaxEvents /\ events' = events + 1

----------------------------------------------------------------------------
(* Down tracks.                                                            *)

\* The down tracks in a published track's subscribedTracks.
InMap(d, t) == down[d].of = t /\ down[d].stage \in {"live", "asked", "shut"}

\* RemoveSubscriber, for the subscribers of the objects in ts: close each
\* down track in a goroutine, which closes it once however often it is asked.
Asked(ts) ==
  [d \in Downs |-> IF down[d].of \in ts /\ down[d].stage = "live"
                   THEN [down[d] EXCEPT !.stage = "asked"] ELSE down[d]]

\* A down track nothing runs for any more is forgotten unless someone keeps it.
Finish(d) ==
  IF worker.down = d \/ \E s \in Subs : sub[s].held = d
  THEN [down[d] EXCEPT !.stage = "done"] ELSE Free

\* CloseWithFlush: forwarding ends, and OnDownTrackClose goes on in a goroutine.
CloseDown(d) ==
  /\ down[d].stage = "asked"
  /\ down' = [down EXCEPT ![d].stage = "shut"]
  /\ UNCHANGED <<pubVars, noteVars, permVars, mapVars, subVars, unsub, worker, events>>

\* OnDownTrackClosed takes it out of subscribedTracks, and Close starts the
\* handler that is installed at this moment.
LeaveMap(d) ==
  /\ down[d].stage = "shut"
  /\ down' = [down EXCEPT ![d].stage = IF down[d].by # NoSub THEN "handle" ELSE "early"]
  /\ UNCHANGED <<pubVars, noteVars, permVars, mapVars, subVars, unsub, worker, events>>

\* The handler AddSubscriber installed: take the sender off the connection.
EarlyHandler(d) ==
  /\ down[d].stage = "early"
  /\ down' = [down EXCEPT ![d] = Finish(d)]
  /\ UNCHANGED <<pubVars, noteVars, permVars, mapVars, subVars, unsub, worker, events>>

\* Mutant: the close handler counts without looking whether it released anything.
MutHandlerAlwaysCounts(d) ==
  /\ down[d].stage = "handle"
  /\ sub' = [sub EXCEPT ![down[d].by].held = NoDown]
  /\ count' = count - 1
  /\ down' = [down EXCEPT ![d].stage = "unmark"]
  /\ UNCHANGED <<pubVars, noteVars, permVars, mapVars, marked, closed, unsub, worker, events>>

\* Mutant: the close handler counts only for a subscription that is still wanted.
MutHandlerCountsWanted(d) ==
  LET s == down[d].by IN
  /\ down[d].stage = "handle"
  /\ IF sub[s].held = NoDown
     THEN /\ down' = [down EXCEPT ![d] = Finish(d)]
          /\ UNCHANGED <<sub, count>>
     ELSE /\ sub' = [sub EXCEPT ![s].held = NoDown]
          /\ count' = IF sub[s].desired THEN count - 1 ELSE count
          /\ down' = [down EXCEPT ![d].stage = "unmark"]
  /\ UNCHANGED <<pubVars, noteVars, permVars, mapVars, marked, closed, unsub, worker, events>>

\* handleSubscribedTrackClose, in three steps: the subscription lets go of its
\* track, the publisher is unmarked, and the sender leaves the connection.
Handler(d) ==
  LET s == down[d].by IN
  /\ down[d].stage = "handle"
  /\ IF sub[s].held = NoDown
     THEN /\ down' = [down EXCEPT ![d] = Finish(d)]
          /\ UNCHANGED <<sub, count>>
     ELSE /\ sub' = [sub EXCEPT ![s].held = NoDown]
          /\ count' = count - 1
          /\ down' = [down EXCEPT ![d].stage = "unmark"]
  /\ UNCHANGED <<pubVars, noteVars, permVars, mapVars, marked, closed, unsub, worker, events>>

Unmark(d) ==
  /\ down[d].stage = "unmark"
  /\ marked' = marked \ {IdOf[down[d].of]}
  /\ down' = [down EXCEPT ![d].stage = "release"]
  /\ UNCHANGED <<pubVars, noteVars, permVars, mapVars, sub, count, closed, unsub, worker, events>>

RemoveTrackLocal(d) ==
  /\ down[d].stage = "release"
  /\ down' = [down EXCEPT ![d] = Finish(d)]
  /\ UNCHANGED <<pubVars, noteVars, permVars, mapVars, subVars, unsub, worker, events>>

----------------------------------------------------------------------------
(* The publisher.                                                          *)

\* publishedTracks holds the object from its publication until it has closed,
\* and a queued publication of the same id waits for that.
Published(t) == life[t] \in {"open", "closing"}

Publish(t) ==
  /\ Event
  /\ ~left
  /\ life[t] = "new"
  /\ \A u \in Tracks : IdOf[u] = IdOf[t] => ~Published(u)
  /\ life' = [life EXCEPT ![t] = "open"]
  /\ announcing' = announcing \cup {t}
  /\ UNCHANGED <<removing, left, infos, noteVars, permVars, mapVars, subVars, unsub, worker, down>>

\* handleTrackPublished runs in a goroutine: Room.onTrackPublished, AddTrack.
Announce(t) ==
  /\ t \in announcing
  /\ announcing' = announcing \ {t}
  /\ infos' = [infos EXCEPT ![IdOf[t]] = Append(@, t)]
  /\ UNCHANGED <<life, removing, left, noteVars, permVars, mapVars, subVars, unsub, worker, down, events>>

\* The end of a track: SetClosing; then its receivers and with them its
\* subscribers are removed and it is closed, which unlists it unless the
\* publisher's leaving has.
SetClosing(t) ==
  /\ IF left THEN UNCHANGED events ELSE Event
  /\ life[t] = "open"
  /\ left => removing[t] = "done"
  /\ life' = [life EXCEPT ![t] = "closing"]
  /\ UNCHANGED <<removing, announcing, left, infos, noteVars, permVars, mapVars, subVars,
                 unsub, worker, down>>

CloseTrack(t) ==
  /\ life[t] = "closing"
  /\ life' = [life EXCEPT ![t] = "closed"]
  /\ removing' = [removing EXCEPT ![t] = IF @ = "no" THEN "due" ELSE @]
  /\ down' = Asked({t})
  /\ UNCHANGED <<announcing, left, infos, noteVars, permVars, mapVars, subVars, unsub, worker, events>>

\* Room.RemoveParticipant: the publisher is out of the room and its tracks are
\* unlisted before they are closed.  (Its last publication has been announced.)
Leave ==
  /\ Event
  /\ ~left
  /\ announcing = {}
  /\ left' = TRUE
  /\ removing' = [t \in Tracks |-> IF Published(t) THEN "due" ELSE removing[t]]
  /\ UNCHANGED <<life, announcing, infos, noteVars, permVars, mapVars, subVars, unsub, worker, down>>

\* (An object is announced once, so it is in the list at most once.)
Without(list, t) ==
  IF t \in ToSet(list) THEN RemoveAt(list, CHOOSE n \in 1..Len(list) : list[n] = t) ELSE list

\* RoomTrackManager.RemoveTrack: out of the list; then the observers of the
\* removed notifier are called in a goroutine and the notifiers are dropped.
Unlist(t) ==
  /\ removing[t] = "due"
  /\ removing' = [removing EXCEPT ![t] = IF t \in ToSet(infos[IdOf[t]]) THEN "notify" ELSE "done"]
  /\ infos' = [infos EXCEPT ![IdOf[t]] = Without(@, t)]
  /\ UNCHANGED <<life, announcing, left, noteVars, permVars, mapVars, subVars, unsub, worker, down, events>>

NotifyRemoved(t) ==
  LET i == IdOf[t] IN
  /\ removing[t] = "notify"
  /\ removing' = [removing EXCEPT ![t] = "done"]
  /\ callback' = [callback EXCEPT ![t] = IF observed[i] THEN "resolve" ELSE @]
  /\ observed' = [observed EXCEPT ![i] = FALSE]
  /\ dropping' = [dropping EXCEPT ![i] = 0]
  /\ sub' = [s \in Subs |-> IF sub[s].of = i /\ sub[s].watch = "current"
                            THEN [sub[s] EXCEPT !.watch = "stale"] ELSE sub[s]]
  /\ UNCHANGED <<life, announcing, left, infos, permVars, mapVars, count, marked, closed,
                 unsub, worker, down, events>>

\* UpdateSubscriptionPermission stores the permissions, and then closes the
\* down tracks of those who may not have the tracks any more.
SetPermission(i) ==
  /\ Event
  /\ ~left
  /\ revoking = {}
  /\ allowed' = [allowed EXCEPT ![i] = ~@]
  /\ revoking' = IF allowed'[i] THEN revoking ELSE revoking \cup {i}
  /\ worker' = IF worker.at \in {"enter", "insert"} /\ IdOf[worker.track] = i
                THEN [worker EXCEPT !.late = ~allowed'[i]] ELSE worker
  /\ down' = [d \in Downs |-> IF down[d].of # NoTrack /\ IdOf[down[d].of] = i
                              THEN [down[d] EXCEPT !.late = FALSE] ELSE down[d]]
  /\ UNCHANGED <<pubVars, noteVars, mapVars, subVars, unsub>>

RevokeDisallowed(i) ==
  /\ i \in revoking
  /\ revoking' = revoking \ {i}
  /\ down' = Asked({t \in Tracks : IdOf[t] = i /\ Published(t)})
  /\ UNCHANGED <<pubVars, noteVars, allowed, mapVars, subVars, unsub, worker, events>>

----------------------------------------------------------------------------
(* The subscriber's wishes.                                                *)

\* setDesired(false), handleSourceTrackRemoved: what is not desired is not
\* watched either; the observer is removed in a goroutine.
Dropped(s) ==
  dropping' = [dropping EXCEPT ![sub[s].of] = IF sub[s].watch = "current" THEN @ + 1 ELSE @]
Undesired(s) == [sub EXCEPT ![s].desired = FALSE, ![s].watch = "none"]

Known(i) == entry[i] # NoSub
Desired(i) == Known(i) /\ sub[entry[i]].desired

\* SubscribeToTrack, from the subscriber or from Room.onTrackPublished, by any
\* number of goroutines: the first look at the map,
Subscribe(i) ==
  /\ Event
  /\ ~Desired(i)
  /\ IF Known(i)
     THEN sub' = [sub EXCEPT ![entry[i]].desired = TRUE] /\ UNCHANGED missed
     ELSE missed' = [missed EXCEPT ![i] = @ + 1] /\ UNCHANGED sub
  /\ UNCHANGED <<pubVars, noteVars, permVars, wanting, entry, listed, count, marked,
                 closed, unsub, worker, down>>

\* a new subscription, which replaces one that was stored meanwhile,
Unused(s) ==
  /\ \A i \in Ids : entry[i] # s
  /\ s \notin listed /\ worker.sub # s /\ sub[s].held = NoDown
Store(i) ==
  LET s == CHOOSE x \in Subs : Unused(x) IN
  /\ missed[i] > 0
  /\ \E x \in Subs : Unused(x)
  /\ missed' = [missed EXCEPT ![i] = @ - 1]
  /\ wanting' = [wanting EXCEPT ![i] = @ + 1]
  /\ entry' = [entry EXCEPT ![i] = s]
  /\ sub' = [sub EXCEPT ![s] = New(i)]
  /\ UNCHANGED <<pubVars, noteVars, permVars, listed, count, marked, closed, unsub,
                 worker, down, events>>

\* and the second look, which may find another subscription or none.
Desire(i) ==
  /\ wanting[i] > 0
  /\ wanting' = [wanting EXCEPT ![i] = @ - 1]
  /\ sub' = IF Known(i) THEN [sub EXCEPT ![entry[i]].desired = TRUE] ELSE sub
  /\ UNCHANGED <<pubVars, noteVars, permVars, missed, entry, listed, count, marked,
                 closed, unsub, worker, down, events>>

Unsubscribe(i) ==
  /\ Event
  /\ Desired(i)
  /\ sub' = Undesired(entry[i]) /\ Dropped(entry[i])
  /\ UNCHANGED <<pubVars, observed, callback, permVars, mapVars, count, marked, closed,
                 unsub, worker, down>>

DropObserver(i) ==
  /\ dropping[i] > 0
  /\ dropping' = [dropping EXCEPT ![i] = @ - 1]
  /\ observed' = [observed EXCEPT ![i] = FALSE]
  /\ UNCHANGED <<pubVars, callback, permVars, mapVars, subVars, unsub, worker, down, events>>

\* GetTrackInfo: the earliest object of the id, unless it is closing.
Resolved(i) ==
  IF infos[i] # <<>> /\ life[Head(infos[i])] = "open" THEN Head(infos[i]) ELSE NoTrack

\* The observer of the removed notifier looks the id up again, and ends the
\* subscription when there is nothing to subscribe to.
RemovedResolves(t) ==
  /\ callback[t] = "resolve"
  /\ callback' = [callback EXCEPT ![t] = IF Resolved(IdOf[t]) = NoTrack THEN "remove" ELSE "none"]
  /\ UNCHANGED <<pubVars, observed, dropping, permVars, mapVars, subVars, unsub, worker, down, events>>

HandleSourceTrackRemoved(t) ==
  LET s == entry[IdOf[t]] IN
  /\ callback[t] = "remove"
  /\ callback' = [callback EXCEPT ![t] = "none"]
  /\ IF s # NoSub THEN sub' = Undesired(s) /\ Dropped(s) ELSE UNCHANGED <<sub, dropping>>
  /\ UNCHANGED <<pubVars, observed, permVars, mapVars, count, marked, closed, unsub,
                 worker, down, events>>

\* SubscriptionManager.Close, once the worker has stopped: whatever the
\* subscriptions in the map hold is closed, directly.
Close ==
  LET held == {i \in Ids : Known(i) /\ sub[entry[i]].held # NoDown} IN
  /\ Event
  /\ ~closed
  /\ worker.at = "idle"
  /\ closed' = TRUE
  /\ listed' = {}
  /\ sub' = [s \in Subs |-> IF \E i \in held : entry[i] = s THEN Undesired(s)[s] ELSE sub[s]]
  /\ dropping' = [i \in Ids |-> dropping[i] +
                    (IF i \in held /\ sub[entry[i]].watch = "current" THEN 1 ELSE 0)]
  /\ down' = [d \in Downs |-> IF down[d].stage = "live" /\ \E i \in held : sub[entry[i]].held = d
                              THEN [down[d] EXCEPT !.stage = "asked"] ELSE down[d]]
  /\ UNCHANGED <<pubVars, observed, callback, permVars, missed, wanting, entry, count,
                 marked, unsub, worker>>

----------------------------------------------------------------------------
(* The worker.  Its ticker takes every subscription from the map that needs *)
(* something, and queueReconcile those it is given or all; they are then   *)
(* reconciled one after the other, as they are when their turn comes.      *)
(* queueReconcile, the changed notifiers and the wait for pending          *)
(* unsubscribes only change which of them are taken and when.              *)

Needy == {entry[i] : i \in {j \in Ids : Known(j) /\
                              ~(sub[entry[j]].desired /\ sub[entry[j]].held # NoDown)}}
Collect(ss) ==
  /\ ~closed
  /\ worker.at = "idle"
  /\ listed = {} /\ ss # {}
  /\ listed' = ss
  /\ UNCHANGED <<pubVars, noteVars, permVars, missed, wanting, entry, subVars, unsub,
                 worker, down, events>>

Reconciles(s) == s \in listed /\ worker.at = "idle"
\* One that goes on leaves the list.
Turn(s) == listed' = listed \ {s} /\ UNCHANGED <<missed, wanting>>
\* A subscription whose kind is known does not even look while at the limit.
AtLimit(s) == sub[s].kind /\ count >= Limit
NeedsSubscribe(s) ==
  Reconciles(s) /\ sub[s].desired /\ sub[s].held = NoDown /\ ~AtLimit(s)

At(place) == worker' = [worker EXCEPT !.at = place]

\* Nothing to do (or, already followed by MaxPending: what is still under way).
LetBe(s) ==
  /\ Reconciles(s)
  /\ \/ sub[s].desired /\ (sub[s].held # NoDown \/ AtLimit(s))
     \/ ~sub[s].desired /\ sub[s].held # NoDown /\ unsub[down[sub[s].held].of] = MaxPending
  /\ Turn(s)
  /\ UNCHANGED <<pubVars, noteVars, permVars, entry, subVars, unsub, worker, down, events>>

\* subscribe: look the id up.
Resolve(s) ==
  LET i == sub[s].of IN
  /\ NeedsSubscribe(s)
  /\ Resolved(i) # NoTrack
  /\ worker' = [Idle EXCEPT !.at = "watch", !.sub = s, !.track = Resolved(i)]
  /\ Turn(s)
  /\ UNCHANGED <<pubVars, noteVars, permVars, entry, subVars, unsub, down, events>>

\* Mutant: a track that is not found is looked for for ever.
MutTrackNotFoundWaits(s) ==
  /\ NeedsSubscribe(s)
  /\ Resolved(sub[s].of) = NoTrack
  /\ Turn(s)
  /\ UNCHANGED <<pubVars, noteVars, permVars, entry, subVars, unsub, worker, down, events>>

\* ErrTrackNotFound for longer than notFoundTimeout: give the wish up.
TrackNotFound(s) ==
  /\ NeedsSubscribe(s)
  /\ Resolved(sub[s].of) = NoTrack
  /\ Turn(s)
  /\ sub' = Undesired(s) /\ Dropped(s)
  /\ UNCHANGED <<pubVars, observed, callback, permVars, entry, count, marked, closed,
                 unsub, worker, down, events>>

\* Mutant: the capacity is looked at only before the kind of the track is known.
MutCanAddUnlimited(i) == allowed[i] /\ ~left

\* Mutant: the permission that came with the lookup is not looked at.
MutCanAddDenied(i) == count < Limit /\ ~left

\* Observe the removed notifier that came with the lookup (which may have been
\* dropped since) unless it is the one observed already; then the limit and the permission, which were read with the lookup.
CanAdd(i) == count < Limit /\ allowed[i] /\ ~left
Watch ==
  LET i == IdOf[worker.track]
      gone == removing[worker.track] = "done" IN
  /\ worker.at = "watch"
  /\ sub' = [sub EXCEPT ![worker.sub].watch = IF gone THEN "stale" ELSE "current",
                        ![worker.sub].kind = TRUE]
  /\ observed' = [observed EXCEPT ![i] = @ \/ (~gone /\ sub[worker.sub].watch # "current")]
  /\ worker' = IF CanAdd(i) THEN [worker EXCEPT !.at = "enter", !.late = FALSE] ELSE Idle
  /\ UNCHANGED <<pubVars, dropping, callback, permVars, mapVars, count, marked, closed, unsub,
                 down, events>>

\* MediaTrackReceiver.AddSubscriber: the track must be open (ErrNotOpen), and
\* not have the subscriber (errAlreadySubscribed, which is no error).
Enter ==
  LET there == \E d \in Downs : InMap(d, worker.track) IN
  /\ worker.at = "enter"
  /\ IF life[worker.track] = "open" /\ ~there THEN At("insert") ELSE worker' = Idle
  /\ marked' = IF life[worker.track] = "open" /\ there THEN marked \cup {IdOf[worker.track]} ELSE marked
  /\ UNCHANGED <<pubVars, noteVars, permVars, mapVars, sub, count, closed, unsub, down, events>>

\* MediaTrackSubscriptions.AddSubscriber: a down track, its sender on the peer
\* connection, an early close handler, and a place in subscribedTracks.
Insert ==
  LET d == CHOOSE e \in Downs : down[e] = Free IN
  /\ worker.at = "insert"
  /\ \E e \in Downs : down[e] = Free
  /\ down' = [down EXCEPT ![d] = [of |-> worker.track, by |-> NoSub, stage |-> "live",
                                  late |-> worker.late]]
  /\ worker' = [worker EXCEPT !.at = "recheck", !.down = d, !.late = FALSE]
  /\ UNCHANGED <<pubVars, noteVars, permVars, mapVars, subVars, unsub, events>>

\* Mutant: addSubscriber does not look again whether the track is still open.
MutRecheckTrusts ==
  /\ worker.at = "recheck"
  /\ At("attach")
  /\ UNCHANGED <<pubVars, noteVars, permVars, mapVars, subVars, unsub, down, events>>

\* The track may have been closed meanwhile: then remove the subscriber again.
Recheck ==
  LET open == life[worker.track] = "open" IN
  /\ worker.at = "recheck"
  /\ IF open THEN At("attach") ELSE worker' = Idle
  /\ down' = IF open THEN down
             ELSE [Asked({worker.track}) EXCEPT
                     ![worker.down] = IF @.stage = "done" THEN Free ELSE @]
  /\ UNCHANGED <<pubVars, noteVars, permVars, mapVars, subVars, unsub, events>>

\* SubscriptionManager.addSubscriber: install the handler,
Attach ==
  /\ worker.at = "attach"
  /\ down' = [down EXCEPT ![worker.down].by = worker.sub]
  /\ At("hold")
  /\ UNCHANGED <<pubVars, noteVars, permVars, mapVars, subVars, unsub, events>>

\* and hold, count and mark the new track.
Hold ==
  /\ worker.at = "hold"
  /\ sub' = [sub EXCEPT ![worker.sub].held = worker.down]
  /\ count' = count + 1
  /\ marked' = marked \cup {IdOf[worker.track]}
  /\ worker' = Idle
  /\ UNCHANGED <<pubVars, noteVars, permVars, mapVars, closed, unsub, down, events>>

\* unsubscribe: RemoveSubscriber in a goroutine, again at every reconcile until
\* the close handler has let go of the track.
ReconcileUnsubscribe(s) ==
  LET t == down[sub[s].held].of IN
  /\ Reconciles(s)
  /\ ~sub[s].desired /\ sub[s].held # NoDown
  /\ unsub[t] < MaxPending
  /\ unsub' = [unsub EXCEPT ![t] = @ + 1]
  /\ Turn(s)
  /\ UNCHANGED <<pubVars, noteVars, permVars, entry, subVars, worker, down, events>>

RemoveSubscriber(t) ==
  /\ unsub[t] > 0
  /\ unsub' = [unsub EXCEPT ![t] = @ - 1]
  /\ down' = Asked({t})
  /\ UNCHANGED <<pubVars, noteVars, permVars, mapVars, subVars, worker, events>>

\* What nobody wants is deleted from the map, or whatever is there in its place.
\* (Nothing else keeps it, so its slot is as new.)
Cleanup(s) ==
  /\ Reconciles(s)
  /\ ~sub[s].desired /\ sub[s].held = NoDown
  /\ entry' = [entry EXCEPT ![sub[s].of] = NoSub]
  /\ sub' = [sub EXCEPT ![s] = Blank]
  /\ Turn(s)
  /\ UNCHANGED <<pubVars, noteVars, permVars, count, marked, closed, unsub, worker, down, events>>

----------------------------------------------------------------------------
Reconcile(s) ==
  Resolve(s) \/ TrackNotFound(s) \/ ReconcileUnsubscribe(s) \/ Cleanup(s) \/ LetBe(s)
AddSubscriber == Watch \/ Enter \/ Insert \/ Recheck \/ Attach \/ Hold
DownStep(d) ==
  CloseDown(d) \/ LeaveMap(d) \/ EarlyHandler(d) \/ Handler(d) \/ Unmark(d) \/ RemoveTrackLocal(d)
TrackStep(t) ==
  \/ Announce(t) \/ CloseTrack(t) \/ Unlist(t) \/ NotifyRemoved(t)
  \/ RemovedResolves(t) \/ HandleSourceTrackRemoved(t)

Next ==
  \/ \E t \in Tracks : Publish(t) \/ SetClosing(t) \/ TrackStep(t) \/ RemoveSubscriber(t)
  \/ \E i \in Ids : \/ Subscribe(i) \/ Unsubscribe(i) \/ SetPermission(i)
                    \/ DropObserver(i) \/ RevokeDisallowed(i)
                    \/ Store(i) \/ Desire(i)
  \/ \E ss \in SUBSET {entry[i] : i \in {j \in Ids : Known(j)}} : Collect(ss)
  \/ \E s \in Subs : Reconcile(s)
  \/ \E d \in Downs : DownStep(d)
  \/ AddSubscriber
  \/ Leave \/ Close

Spec == Init /\ [][Next]_vars

\* Goroutines run and so does the worker, whose ticker comes again and again, and
\* a publisher that left has its tracks closed.  Nobody needs to publish, wish, permit or leave.
Fairness ==
  /\ \A t \in Tracks : /\ WF_vars(TrackStep(t)) /\ WF_vars(RemoveSubscriber(t))
                        /\ WF_vars(left /\ SetClosing(t))
  /\ \A i \in Ids : /\ WF_vars(Store(i)) /\ WF_vars(Desire(i))
                     /\ WF_vars(DropObserver(i)) /\ WF_vars(RevokeDisallowed(i))
  /\ SF_vars(Collect(Needy)) /\ WF_vars(\E s \in Subs : Reconcile(s))
  /\ \A d \in Downs : WF_vars(DownStep(d))
  /\ WF_vars(AddSubscriber)

FairSpec == Spec /\ Fairness

----------------------------------------------------------------------------
(* Properties.                                                             *)

Stages == {"free", "live", "asked", "shut", "early", "handle", "unmark", "release", "done"}
Places == {"idle", "watch", "enter", "insert", "recheck", "attach", "hold"}

TrackTypes ==
  /\ life \in [Tracks -> {"new", "open", "closing", "closed"}]
  /\ removing \in [Tracks -> {"no", "due", "notify", "done"}]
  /\ announcing \subseteq Tracks /\ left \in BOOLEAN
  /\ infos \in [Ids -> Seq(Tracks)]
  /\ events \in 0..MaxEvents

NoteTypes ==
  /\ observed \in [Ids -> BOOLEAN]
  /\ dropping \in [Ids -> Nat]
  /\ callback \in [Tracks -> {"none", "resolve", "remove"}]
  /\ allowed \in [Ids -> BOOLEAN] /\ revoking \subseteq Ids
  /\ unsub \in [Tracks -> 0..MaxPending]

Subscription == [of : Ids, desired : BOOLEAN, kind : BOOLEAN,
                 watch : {"none", "current", "stale"}, held : Downs \cup {NoDown}]
DownTrack == [of : Tracks \cup {NoTrack}, by : Subs \cup {NoSub}, stage : Stages, late : BOOLEAN]

MapTypes ==
  /\ missed \in [Ids -> Nat] /\ wanting \in [Ids -> Nat]
  /\ entry \in [Ids -> Subs \cup {NoSub}]
  /\ listed \subseteq Subs

SubTypes ==
  /\ sub \in [Subs -> Subscription]
  /\ count \in Int /\ marked \subseteq Ids /\ closed \in BOOLEAN

WorkTypes ==
  /\ worker \in [at : Places, sub : Subs \cup {NoSub}, track : Tracks \cup {NoTrack},
                 down : Downs \cup {NoDown}, late : BOOLEAN]
  /\ down \in [Downs -> DownTrack]

TypeOK == TrackTypes /\ NoteTypes /\ MapTypes /\ SubTypes /\ WorkTypes

Held == {s \in Subs : sub[s].held # NoDown}
Forwarding == {d \in Downs : down[d].stage = "live"}

\* What a subscription holds was made for its id, and for itself.
HeldInv(s) ==
  LET d == sub[s].held IN
  d # NoDown => down[d].of # NoTrack /\ IdOf[down[d].of] = sub[s].of /\ down[d].by = s

\* A down track that forwards is held, or in the worker's hands; and one whose
\* close will be handled is the one its subscription holds or is about to.
DownInv(d) ==
  /\ down[d].stage = "free" <=> down[d].of = NoTrack
  /\ down[d].of # NoTrack => life[down[d].of] # "new"
  /\ down[d].stage = "live" => worker.down = d \/ \E s \in Subs : sub[s].held = d
  /\ down[d].stage = "handle" => down[d].by # NoSub
  /\ down[d].by # NoSub /\ down[d].stage \in {"live", "asked", "shut", "handle"}
       => \/ sub[down[d].by].held = d
          \/ worker.down = d /\ worker.sub = down[d].by /\ worker.at = "hold"

\* What the worker knows while it adds a subscriber.
WorkerInv ==
  /\ worker.at = "idle" => worker.sub = NoSub
  /\ worker.at # "idle" =>
       /\ worker.sub \in Subs /\ worker.track \in Tracks
       /\ IdOf[worker.track] = sub[worker.sub].of
       /\ life[worker.track] # "new"
       /\ sub[worker.sub].held = NoDown
  /\ worker.at \notin {"idle", "watch"} => count < Limit
  /\ worker.at \in {"enter", "insert"} /\ ~allowed[IdOf[worker.track]] => worker.late
  /\ IF worker.at \in {"recheck", "attach", "hold"}
     THEN /\ worker.down # NoDown /\ down[worker.down].of = worker.track
          /\ down[worker.down].by = (IF worker.at = "hold" THEN worker.sub ELSE NoSub)
     ELSE worker.down = NoDown

\* What the map holds and what the worker has taken from it is of the right id.
MapInv(i) == Known(i) => sub[entry[i]].of = i

\* Each id lists objects of its own.
InfosInv(i) ==
  \A n \in 1..Len(infos[i]) : IdOf[infos[i][n]] = i /\ life[infos[i][n]] # "new"

\* The inductive invariant; the first three properties below are part of it or
\* follow from it.
SubscriptionsInv ==
  /\ TypeOK
  /\ \A s \in Subs : HeldInv(s)
  /\ \A i \in Ids : MapInv(i) /\ InfosInv(i)
  /\ \A d \in Downs : DownInv(d)
  /\ WorkerInv
  /\ \A t \in announcing : life[t] # "new"
  /\ count = Cardinality(Held) /\ count <= Limit

\* The subscribed counter is the number of subscriptions that hold a track,
\* however closing and subscribing interleave: a handler that finds nothing to
\* let go of must not count either.  (The limit is checked against it.)
CountMatches == count = Cardinality(Held)

\* No more down tracks forward to the subscriber than its limit allows.
WithinLimit == Cardinality(Forwarding) <= Limit

\* Safety.  The limit holds, and the counter it is checked against is right, for one
\* that had drifted would shift the limit for the rest of the session.
LimitCounts == CountMatches /\ WithinLimit

\* A track that closes while a subscriber is being added does not keep it: what
\* still forwards a closed track is about to be removed by AddSubscriber itself.
ClosedHasNoSubscriber ==
  \A d \in Forwarding : life[down[d].of] = "closed" => worker.at = "recheck" /\ worker.down = d

\* A track that is denied to the subscriber is forwarded only until the
\* revocation has run, or when it was being subscribed during the denial.
DeniedIsRevoked ==
  \A d \in Forwarding : LET i == IdOf[down[d].of] IN
    ~allowed[i] /\ Published(down[d].of) => i \in revoking \/ down[d].late

\* A subscription that holds a down track whose close handler has already run:
\* nothing will release it.
Stuck(i) == \E s \in Subs :
  sub[s].of = i /\ sub[s].held # NoDown /\ down[sub[s].held].stage = "done"

\* A subscription that is not in the map any more and holds a down track: it is
\* never reconciled again.
Replaced(i) == \E s \in Subs : sub[s].of = i /\ sub[s].held # NoDown /\ entry[i] # s

\* What the subscriber receives comes to agree with what it wants and may have:
\* a track it holds is forwarded, a wish that holds nothing is one it may not
\* have yet (and not for a track that is gone), and nothing else is forwarded.
\* (Unless a close handler came too early, or a second SubscribeToTrack replaced
\* the subscription.)
Agrees(i) ==
  LET forwards == \E d \in Forwarding : IdOf[down[d].of] = i IN
  IF Desired(i) /\ ~closed
  THEN IF sub[entry[i]].held # NoDown THEN forwards
       ELSE count >= Limit \/ (Resolved(i) # NoTrack /\ ~allowed[i])
  ELSE ~forwards
Settles == \A i \in Ids : []<>(Stuck(i) \/ Replaced(i) \/ Agrees(i))

\* A subscription whose track has closed goes back to wanting one.
ClosedIsReleased == \A i \in Ids : ~Stuck(i)

\* The removed-observer of an id ends the subscription only when there is nothing
\* to subscribe to: not "unsubscribe, track is still available".
StillAvailable ==
  [][\A t \in Tracks : HandleSourceTrackRemoved(t) /\ Desired(IdOf[t])
                         => Resolved(IdOf[t]) = NoTrack]_vars

=============================================================================
