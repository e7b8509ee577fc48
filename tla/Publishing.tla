----------------------------- MODULE Publishing -----------------------------
(***************************************************************************)
(* How a participant publishes tracks: its requests (AddTrack), the media  *)
(* that arrives for them (onMediaTrack), the closing of tracks, the loss   *)
(* of the permission to publish, and the supervisor that watches over it   *)
(* all (pkg/rtc/participant.go, uptrackmanager.go, supervisor).            *)
(*                                                                         *)
(* A client may ask for a track it still publishes; the request is queued  *)
(* until that track is closed.  Media may come before its request can be   *)
(* served; it waits and is looked at again.  Closing a track from within a *)
(* goroutine that looks at media looks at media again, so a goroutine is   *)
(* the sequence of the calls it has yet to make.  All tracks are of one    *)
(* kind; muting, codecs and migrated tracks are left out.                  *)
(***************************************************************************)
EXTENDS Naturals, FiniteSets, SequencesExt

CONSTANTS
  Cids,        \* the client's ids of its tracks
  Threads,     \* goroutines
  Signal,      \* the one that handles the client's requests, one by one
  NoThread,
  MaxRequests, \* bounds: requests,
  MaxRemotes,  \* remote tracks,
  MaxEvents    \* closed receivers and changes of the permission

ASSUME PublishingThreads == Signal \in Threads

VARIABLES
  pending,    \* pendingTracks: the requests of a cid that are not served yet
  waiting,    \* pendingRemoteTracks: media without a request
  published,  \* UpTrackManager.publishedTracks
  open,       \* the tracks that are not closed,
  hooked,     \* and those among them whose participant is told when they are
  missed,     \* tracks that were closed before,
  early,      \* and ids of requests that went on though a track of the id was not over
  lock,       \* who holds pendingTracksLock across steps
  told,       \* requests the client was told it may go on with
  permitted,  \* CanPublishSource
  monitors,   \* ParticipantSupervisor.publications
  removable,  \* removablePublications of a check under way
  work,       \* the calls each goroutine has yet to make
  asked, remotes, events

bounds == <<asked, remotes, events>>
tracks == <<published, open, hooked, missed, early>>
publishingVars ==
  <<pending, waiting, tracks, lock, told, permitted, monitors, removable, work, bounds>>

\* A request, and the track it becomes: requests of one cid that wait together
\* share the track id (setTrackID).
Request(n, sid, cid) == [n |-> n, sid |-> sid, cid |-> cid]
NoTrack == Request(0, 0, "none")

Call(do, track, cid) == [do |-> do, track |-> track, cid |-> cid]
LookAt(c) == Call("look", NoTrack, c)
Retry == Call("retry", NoTrack, "none")
OfTrack(do, r) == Call(do, r, r.cid)

PublishingInit ==
  /\ pending = <<>> /\ waiting = <<>>
  /\ published = <<>> /\ open = {} /\ hooked = {} /\ missed = {} /\ early = {}
  /\ lock = NoThread
  /\ told = {}
  /\ permitted = TRUE
  /\ monitors = <<>> /\ removable = {}
  /\ work = [t \in Threads |-> <<>>]
  /\ asked = 0 /\ remotes = 0 /\ events = 0

Without(f, keys) == [k \in DOMAIN f \ keys |-> f[k]]
Put(f, key, value) == [k \in DOMAIN f \cup {key} |-> IF k = key THEN value ELSE f[k]]
Listed(c) == {published[s] : s \in {x \in DOMAIN published : published[x].cid = c}}

----------------------------------------------------------------------------
(* The supervisor's monitor of a track: what it expects next, in pairs of a *)
(* start and an end, and the track that is published.                      *)

\* update: a start is over once there is a track, an end once there is none.
\* (They alternate, so at most one is.)
Settled(m) ==
  IF m.desired # <<>> /\ (Head(m.desired) = "start") = (m.track # NoTrack)
  THEN [m EXCEPT !.desired = Tail(@)] ELSE m

AddPublication(sid) ==
  LET m == IF sid \in DOMAIN monitors THEN monitors[sid] ELSE [desired |-> <<>>, track |-> NoTrack]
  IN Put(monitors, sid, Settled([m EXCEPT !.desired = @ \o <<"start", "end">>]))

SetPublishedTrack(r) ==
  IF r.sid \in DOMAIN monitors
  THEN [monitors EXCEPT ![r.sid] = Settled([@ EXCEPT !.track = r])] ELSE monitors

\* Mutant: a published track is not awaited any more, but stays known after it closed.
MutClearPublishedTrack(r) == monitors

ClearPublishedTrack(r) ==
  IF r.sid \in DOMAIN monitors
  THEN [monitors EXCEPT ![r.sid] =
          Settled(IF @.track = r THEN [@ EXCEPT !.track = NoTrack] ELSE @)]
  ELSE monitors

\* checkPublications finds the monitors that are idle under one lock and
\* deletes them under another.
IdleMonitor(m) == m.desired = <<>> /\ m.track = NoTrack
FindIdle ==
  /\ removable = {}
  /\ removable' = {s \in DOMAIN monitors : IdleMonitor(monitors[s])}
  /\ removable' # {}
  /\ UNCHANGED <<pending, waiting, tracks, lock, told, permitted, monitors, work, bounds>>
DeleteIdle ==
  /\ removable # {}
  /\ monitors' = Without(monitors, removable)
  /\ removable' = {}
  /\ UNCHANGED <<pending, waiting, tracks, lock, told, permitted, work, bounds>>

----------------------------------------------------------------------------
(* What starts a goroutine, or gives it something to do.                   *)

Unlocked == lock = NoThread
Event == events < MaxEvents /\ events' = events + 1

\* AddTrack: a request is queued behind the track, or the request, there is.
AddTrack(c) ==
  LET n == asked + 1
      more == c \in DOMAIN pending
      queue == more \/ Listed(c) # {}
      r == Request(n, IF more THEN Head(pending[c].infos).sid ELSE n, c) IN
  /\ work[Signal] = <<>> /\ Unlocked
  /\ asked < MaxRequests /\ asked' = n
  /\ permitted
  /\ monitors' = AddPublication(r.sid)
  /\ pending' = IF more THEN [pending EXCEPT ![c].infos = Append(@, r)]
               ELSE Put(pending, c, [infos |-> <<r>>, queued |-> queue])
  /\ work' = IF queue THEN work ELSE [work EXCEPT ![Signal] = <<OfTrack("tell", r), Retry>>]
  /\ UNCHANGED <<waiting, tracks, lock, told, permitted, removable, remotes, events>>

\* An offer of the client ends by looking at the media that waits.
HandleOffer ==
  /\ work[Signal] = <<>> /\ waiting # <<>>
  /\ work' = [work EXCEPT ![Signal] = <<Retry>>]
  /\ UNCHANGED <<pending, waiting, tracks, lock, told, permitted, monitors, removable, bounds>>

\* onMediaTrack: media arrives, one remote track for each layer that is sent.
MediaArrives(t, c) ==
  /\ t # Signal /\ work[t] = <<>>
  /\ remotes < MaxRemotes /\ remotes' = remotes + 1
  /\ c \in DOMAIN pending \/ Listed(c) # {}
  /\ work' = [work EXCEPT ![t] = <<LookAt(c)>>]
  /\ UNCHANGED <<pending, waiting, tracks, lock, told, permitted, monitors, removable,
                 asked, events>>

\* The receiver of a track ends.
ReceiverCloses(t, r) ==
  /\ Event
  /\ t # Signal /\ work[t] = <<>>
  /\ r \in hooked
  /\ work' = [work EXCEPT ![t] = <<OfTrack("close", r)>>]
  /\ UNCHANGED <<pending, waiting, tracks, lock, told, permitted, monitors, removable,
                 asked, remotes>>

\* SetPermission: what is published without permission is removed.
RemovePublished(r) == <<OfTrack("close", r), OfTrack("unlist", r)>>
SetPermission(t) ==
  /\ Event
  /\ t # Signal /\ work[t] = <<>>
  /\ permitted' = ~permitted
  /\ \E order \in SetToSeqs(Range(published)) :
       work' = IF permitted' THEN work
               ELSE [work EXCEPT ![t] = [i \in 1..2 * Len(order) |->
                       RemovePublished(order[(i + 1) \div 2])[2 - (i % 2)]]]
  /\ UNCHANGED <<pending, waiting, tracks, lock, told, monitors, removable, asked, remotes>>

----------------------------------------------------------------------------
(* The calls.                                                              *)

ToDo == UNION {{work[t][i] : i \in DOMAIN work[t]} : t \in Threads}
Does(t, do) == work[t] # <<>> /\ Head(work[t]).do = do
This(t) == Head(work[t])
\* A call is replaced by the calls it makes.
Then(t, calls) == work' = [work EXCEPT ![t] = calls \o Tail(@)]

\* sendTrackPublished
Tell(t) ==
  /\ Does(t, "tell")
  /\ told' = told \cup {This(t).track.n}
  /\ Then(t, <<>>)
  /\ UNCHANGED <<pending, waiting, tracks, lock, permitted, monitors, removable, bounds>>

\* handlePendingRemoteTracks
TakeWaiting(t) ==
  /\ Does(t, "retry") /\ Unlocked
  /\ waiting' = <<>>
  /\ Then(t, [i \in DOMAIN waiting |-> LookAt(waiting[i])])
  /\ UNCHANGED <<pending, tracks, lock, told, permitted, monitors, removable, bounds>>

\* getPendingTrack: the request of the id, or else one of the same kind, and not
\* one that is queued.
RequestsFor(c) == IF c \in DOMAIN pending THEN {c} ELSE DOMAIN pending

\* mediaTrackReceived, with the lock held: media of a track that is published,
LookFindsTrack(t) ==
  /\ Does(t, "look") /\ Unlocked
  /\ \E r \in Listed(This(t).cid) : Then(t, <<OfTrack("check", r)>>)
  /\ UNCHANGED <<pending, waiting, tracks, lock, told, permitted, monitors, removable, bounds>>

\* or media that has to wait,
LookWaits(t) ==
  LET c == This(t).cid IN
  /\ Does(t, "look") /\ Unlocked
  /\ Listed(c) = {}
  /\ RequestsFor(c) = {} \/ \E d \in RequestsFor(c) : pending[d].queued
  /\ waiting' = Append(waiting, c)
  /\ Then(t, <<>>)
  /\ UNCHANGED <<pending, tracks, lock, told, permitted, monitors, removable, bounds>>

\* or media that makes a request a track (addMediaTrack).
Served(d) ==
  IF Len(pending[d].infos) = 1 THEN Without(pending, {d})
  ELSE [pending EXCEPT ![d] = [infos |-> Tail(@.infos), queued |-> TRUE]]
LookPublishes(t) ==
  LET c == This(t).cid IN
  /\ Does(t, "look") /\ Unlocked
  /\ Listed(c) = {}
  /\ \E d \in RequestsFor(c) :
       LET r == Head(pending[d].infos) IN
       /\ ~pending[d].queued
       /\ monitors' = SetPublishedTrack(r)
       /\ published' = IF r.sid \in DOMAIN published THEN published ELSE Put(published, r.sid, r)
       /\ open' = open \cup {r}
       /\ pending' = Served(d)
       /\ Then(t, <<OfTrack("hook", r), OfTrack("check", r)>>)
  /\ lock' = t
  /\ UNCHANGED <<waiting, hooked, missed, early, told, permitted, removable, bounds>>

\* The participant wants to know when the track closes, which may be too late.
Hook(t) ==
  /\ Does(t, "hook")
  /\ hooked' = hooked \cup ({This(t).track} \cap open)
  /\ lock' = NoThread
  /\ Then(t, <<>>)
  /\ UNCHANGED <<pending, waiting, published, open, missed, early, told, permitted, monitors,
                 removable, bounds>>

\* Mutant: the permission is not looked at again once the media has arrived.
MutCheck(t) ==
  /\ Does(t, "check")
  /\ Then(t, <<>>)
  /\ UNCHANGED <<pending, waiting, tracks, lock, told, permitted, monitors, removable, bounds>>

\* onMediaTrack goes on: the permission may be gone.
Check(t) ==
  /\ Does(t, "check")
  /\ Then(t, IF permitted THEN <<>> ELSE RemovePublished(This(t).track))
  /\ UNCHANGED <<pending, waiting, tracks, lock, told, permitted, monitors, removable, bounds>>

\* Mutant: the next request is let go on, and media that waits is not looked at.
MutOnClose(r) ==
  IF r \in hooked
  THEN <<OfTrack("unlist", r), OfTrack("clear", r), OfTrack("unqueue", r)>>
  ELSE <<OfTrack("unlist", r)>>

\* MediaTrackReceiver.Close: whoever comes first runs the callbacks.
OnClose(r) ==
  IF r \in hooked
  THEN <<OfTrack("unlist", r), OfTrack("clear", r), OfTrack("unqueue", r), Retry>>
  ELSE <<OfTrack("unlist", r)>>
Close(t) ==
  LET r == This(t).track IN
  /\ Does(t, "close")
  /\ open' = open \ {r} /\ hooked' = hooked \ {r}
  /\ missed' = IF r \in open \ hooked THEN missed \cup {r} ELSE missed
  /\ Then(t, IF r \in open THEN OnClose(r) ELSE <<>>)
  /\ UNCHANGED <<pending, waiting, published, early, lock, told, permitted, monitors, removable, bounds>>

Unlist(t) ==
  /\ Does(t, "unlist")
  /\ published' = Without(published, {This(t).track.sid})
  /\ Then(t, <<>>)
  /\ UNCHANGED <<pending, waiting, open, hooked, missed, early, lock, told, permitted, monitors,
                 removable, bounds>>

Clear(t) ==
  /\ Does(t, "clear")
  /\ monitors' = ClearPublishedTrack(This(t).track)
  /\ Then(t, <<>>)
  /\ UNCHANGED <<pending, waiting, tracks, lock, told, permitted, removable, bounds>>

\* The next request of the cid may go on, whichever track it waits for: one of its id
\* may not be over, or may have been closed unnoticed.
Over(s) ==
  /\ \A r \in open \cup missed : r.sid # s
  /\ \A x \in ToDo : x.do = "clear" => x.track.sid # s
Unqueue(t) ==
  LET c == This(t).cid IN
  /\ Does(t, "unqueue") /\ Unlocked
  /\ pending' = IF c \in DOMAIN pending THEN [pending EXCEPT ![c].queued = FALSE] ELSE pending
  /\ told' = IF c \in DOMAIN pending THEN told \cup {Head(pending[c].infos).n} ELSE told
  /\ early' = IF c \in DOMAIN pending
              THEN early \cup {s \in {Head(pending[c].infos).sid} : ~Over(s)} ELSE early
  /\ Then(t, <<>>)
  /\ UNCHANGED <<waiting, published, open, hooked, missed, lock, permitted, monitors,
                 removable, bounds>>

PublishingNext ==
  \/ \E c \in Cids : AddTrack(c) \/ \E t \in Threads : MediaArrives(t, c)
  \/ HandleOffer
  \/ \E t \in Threads :
       \/ \E r \in open : ReceiverCloses(t, r)
       \/ SetPermission(t)
       \/ Tell(t) \/ TakeWaiting(t)
       \/ LookFindsTrack(t) \/ LookWaits(t) \/ LookPublishes(t) \/ Hook(t) \/ Check(t)
       \/ Close(t) \/ Unlist(t) \/ Clear(t) \/ Unqueue(t)
  \/ FindIdle \/ DeleteIdle

PublishingSpec == PublishingInit /\ [][PublishingNext]_publishingVars

----------------------------------------------------------------------------
(* Properties.                                                             *)

\* Whether a goroutine will look at the media that waits.
LooksAgain == Retry \in ToDo

PublishingTypes ==
  /\ DOMAIN pending \subseteq Cids
  /\ \A c \in DOMAIN pending : pending[c].infos # <<>> /\ pending[c].queued \in BOOLEAN
  /\ waiting \in Seq(Cids)
  /\ \A s \in DOMAIN published : published[s].sid = s
  /\ hooked \subseteq open /\ missed \cap open = {}
  /\ lock \in Threads \cup {NoThread}
  /\ told \subseteq 1..asked

\* No request waits for ever behind a track that is gone, and no media for a
\* request that is there: the one is queued only as long as a track of its cid is
\* open or about to let it go on, the other is looked at again once its request
\* may be served.  The client was told, or is about to be.  (A track that was
\* closed before the participant hooked on to it, participant.go:3317-3339, leaves
\* the request behind it queued for good.)
RequestsProceed ==
  /\ PublishingTypes
  /\ \A c \in DOMAIN pending :
       LET r == Head(pending[c].infos) IN
       IF pending[c].queued
       THEN \/ \E o \in open \cup missed : o.cid = c
            \/ \E call \in ToDo : call.do = "unqueue" /\ call.cid = c
       ELSE /\ r.n \in told \/ OfTrack("tell", r) \in ToDo
            /\ c \in ToSet(waiting) => LooksAgain

\* The supervisor expects of each track id what was asked of it and has not
\* happened, and no monitor is deleted under a publication: so it reports no
\* publication that has happened, and misses none that has not.  (Except for ids
\* of which a request was let go on while an earlier track of the id was open, had
\* been closed unnoticed or was still to be cleared, by the callback of an older
\* track of the cid: participant.go:3317-3356.)
Expected(s) == Cardinality({i \in DOMAIN monitors[s].desired : monitors[s].desired[i] = "start"})
Requests == UNION {ToSet(pending[c].infos) : c \in DOMAIN pending}
MonitorsMatch ==
  /\ \A s \in DOMAIN monitors \ early :
       /\ Expected(s) = Cardinality({r \in Requests : r.sid = s})
       /\ monitors[s].track # NoTrack =>
            \/ monitors[s].track \in open \cup missed
            \/ OfTrack("clear", monitors[s].track) \in ToDo
  /\ \A r \in {o \in open : o.sid \notin early} :
       r.sid \in DOMAIN monitors /\ monitors[r.sid].track = r
  /\ \A r \in Requests : r.sid \in DOMAIN monitors

\* Once the permission is gone, every track in the list is about to be closed, also
\* one that was published while the list was walked.
RevokedIsGone ==
  ~permitted =>
    \A s \in DOMAIN published :
      LET r == published[s] IN
      r \in open => {OfTrack("close", r), OfTrack("check", r)} \cap ToDo # {}

\* At most one open track of a cid is in the list, and every open track is.  Not
\* so: RemovePublishedTrack closes a track and then deletes its id, under which the
\* next request may have been published meanwhile (uptrackmanager.go:277-283).
EveryTrackListed == \A r \in open : r.sid \in DOMAIN published /\ published[r.sid] = r

=============================================================================
