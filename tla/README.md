# Verification of botical-voice

This directory holds TLA+ models of botical-voice, a voice assistant made of

* a browser client and a small Bun server (`src/client`, `src/src`),
* the LiveKit media server it runs as a child process (`src/livekit-server`, Go),

with TLC configurations that check the models on small instances, and TLAPS
proofs of what matters most for instances of any size. Line numbers below are
those of the repository's files. `PROJECT.json` names, for every definition, the
lines it stands for, and for every hazard the line where it bites.

    tlc -config MCNode.cfg MCNode.tla               # model-check one run
    tlapm RoomSessionProofs.tla                     # check the proofs of a module

## 1. The system and its parts

A page asks the Bun server for a token; the Bun server creates an *agent
dispatch* at the media server and signs the token. The page opens a WebSocket to
a *signal node*, which relays its messages to the *media node* that holds the
room. There a *session* joins the room as a *participant*: two peer connections
(*transports*) negotiated over the relay, tracks published and subscribed, RTP
packets forwarded from the *buffers* of the publisher to the *down tracks* of
the subscribers. The dispatch makes the room ask the *agent handler* for a
worker, whose agent joins the same room.

| Component | State | Operations | Talks to | Hard | Must hold |
|---|---|---|---|---|---|
| **Signal relay** `routing/signal.go`, `messagechannel.go`, `service/signal.go` | per direction: queue, sequence number, draining flag, writer flag, reader's sequence number, bounded channel | WriteMessage, Close, write, Read, copy loop, RelaySignal | psrpc stream; session | retry of a delivered packet, close while sending, full channel | messages in order, once, none missing; Close returns; nothing lost on a clean close |
| **Agent dispatch** `rtc/room.go`, `agent/worker.go`, `agent/client.go`, `service/agentservice.go` | dispatches with pending counts and jobs; workers with running jobs; job→worker map, topics, enabled cache | create, launch, JobRequest, AssignJob, UpdateJobStatus, TerminateJob, Delete, register and deregister | room, workers (WebSocket), psrpc | request, status, worker loss and deletion interleave between five locks | one assignment, no orphan agent, every running job terminable, deletions end and remove the agent |
| **Session lifecycle** `service/roommanager.go`, `rtc/room.go`, `rtc/participant.go` | map of rooms; holds, participants, request sources and closed flag of each; state, closed flag, listener and timers of participants | StartSession, getOrCreateRoom, Join, Resume, RemoveParticipant, CloseIfEmpty, Close, DeleteRoom, worker | relay, store, transports | locks released between check and act; Close and Remove call each other | one live participant per identity, none in a closed room, closed ones leave, only idle rooms close, idle rooms close |
| **Botical client** `client/src/room.ts`, `voice-state.ts`, `src/token-server.ts` | room, reconnect timer, voice flag, audio elements | connect, Disconnected, Reconnecting, voice click, track events, token request | livekit-client, token server | module variables used after an await | one connection at a time; button, indicator, audio and microphone agree; always reconnects |
| **Botical page** `client/src/main.ts`, `chat.ts` | transcript segments, settings | add or update a segment | client | interim and final segments out of order | a final segment is not followed by its interim one |
| **Process supervisor** `src/livekit-server.ts`, `main.ts`, `agent.ts` | child handle, port probe, timers | start, stop, wait for port | OS | stop during start, timers left behind | start settles; no child left running |
| **Transport negotiation** `rtc/transport.go` | negotiation state, offer and answer ids, cached candidates, restart flags, timers | Negotiate, offer, answer, ICE restart, candidates, Close | pion, signalling | an event queue fed by timers, pion callbacks and the peer | one offer outstanding; a requested negotiation is not forgotten; candidates not lost or mixed |
| **Transport manager** `rtc/transportmanager.go` | publisher and subscriber transport, ICE config, fallback counters, migration | negotiate, ICE failure, fall back to TCP and TLS, reconnect | transports, participant | two transports fail in any order | fallback is monotone until it succeeds |
| **Participant** `rtc/participant*.go` | state, pending tracks, update cache, migration state, listener | AddTrack, publish, mute, SendParticipantUpdate, close | room, transports, supervisor | updates versioned and sent under different locks | versions never go back at the client |
| **Subscriptions** `rtc/subscriptionmanager.go`, `mediatracksubscriptions.go`, `roomtrackmanager.go` | desired and actual subscription per track, permissions, retry counters | subscribe, unsubscribe, reconcile, track added and removed | published media, notifiers | desired state changes while a subscribe runs | the actual state ends up as desired; a denied track is not forwarded |
| **Published media** `rtc/mediatrack*.go`, `wrappedreceiver.go`, `uptrackmanager.go` | receivers per codec, potential codecs, subscribers | add receiver, subscribe, close | subscriptions, buffers | receivers arrive and close in any order | a closed track has no subscriber |
| **Supervisor** `rtc/supervisor/*` | publication monitors | set, check, clear | participant | transitions out of order | an error only for a publication that did time out |
| **Signalling codec** `rtc/signalling/*` | none | encode, decode | participant | – | – |
| **Dynacast** `rtc/dynacast/*` | wanted quality per subscriber and node, committed quality, debounce | notify, update, commit | subscriptions, published media | debounced lowering against immediate raising | committed quality covers every subscriber |
| **Ordered queues and notifiers** `utils/opsqueue.go`, `incrementaldispatcher.go`, `changenotifier.go` | operations, started and stopped flags, waiters | Enqueue, Stop, Add, Done, notify | everything | stop during an operation, late consumers | order kept, all or none after a stop; each consumer sees every item |
| **RTP forwarding** `sfu/forwarder.go`, `rtpmunger.go`, `sequencer.go`, `downtrack.go` | sequence offset and ranges, timestamps, cache | update, pad, resume, retransmit | buffers, allocator | 16-bit wrap, reordering, layer switch | outgoing numbers unique and without unexplained gaps |
| **Buffers and NACK** `sfu/buffer/*` | packets, missing list, retry times | push, read, nack | forwarding | wrap, duplicates, limits | a missing packet is asked for at most a bounded number of times |
| **Stream allocation** `sfu/streamallocator`, `bwe`, `ccutils` | state, allocations, probe cluster | estimate, allocate, probe, pause | down tracks | probes against estimates arriving late | never more allocated than committed; deficient tracks get their layers back |
| **Codec and header parsing** `sfu/codecmunger`, `rtpextension` | wrap-around state | parse, munge | forwarding | wrap-around | picture ids continuous |
| **Tracking, scoring, statistics** `sfu/streamtracker`, `connectionquality`, `rtpstats`, `audio` | counters | observe, snapshot | forwarding | – | – |
| **Node registry and placement** `routing/*router.go`, `selector`, `roomallocator.go` | node statistics, room→node map | register, select, set node | Redis | stale node | a room is on one live node |
| **Data messages** `rtc/room.go`, `rtc/participant.go` | last number, cache, migration wait, per participant the first message while connecting | receive, cache, forward, replay, resend | participants | a publisher moves between nodes; a participant connects while a message is handed out | each message once, in order, none missing |
| **Room store** `service/redisstore.go`, `localstore.go` | rooms, participants, dispatches, lock | store, load, delete, lock, unlock | Redis | lock expiry | a lock is released by its holder only |
| **Other services** `service/sip.go`, `ingress.go`, `egress.go`, `whipservice.go`, `turn.go`, `auth.go` | none of their own | validate, forward | other processes | – | – |
| **Telemetry and metrics** `telemetry`, `metric` | counters | record | observers | – | – |
| **Configuration and entry points** `config`, `clientconfiguration`, `cmd` | read once | – | – | – | – |

Of the table, the page, the process supervisor, the transport manager, the
signalling codec, buffers and NACK, header parsing, tracking and statistics,
the other services, telemetry and configuration are not modelled (section 7);
the others are, in whole or in the parts `PROJECT.json` ("components") names.

## 2. The modules

| Module | What it is |
|---|---|
| `SignalChannel` | what one direction of the relay promises: an ordered channel that delivers each message once and may stop early |
| `SignalRelay` | the relay: sinks, writer goroutines, psrpc stream, readers, copiers, channels, both directions; implements `SignalChannel` |
| `AgentDispatch` | room side, handler side and workers of agent jobs |
| `BoticalClient` | the browser client with the token endpoint |
| `RoomSession` | sessions, participants and rooms of one name on a media node |
| `RoomPlacement` | the room of one name among several nodes: routes, entries, locks, crashes |
| `Publishing` | the tracks of one participant, from request to close, and the supervisor's monitors |
| `Negotiation` | offers, answers and ICE restarts between two ends of a peer connection |
| `Subscriptions` | one subscriber and the tracks of one publisher |
| `Dynacast` | the quality asked of a publisher, from the wishes of its subscribers |
| `DataMessages` | the reliable messages of publishers that may move between nodes |
| `RangeMap` | the map of ranges behind the munger, as operators on a sequence |
| `Forwarding` | sequence numbers of one down track and its retransmission cache |
| `VideoAllocation` | what a `Forwarder` makes of its layers, as operators |
| `StreamAllocator` | the allocator that shares the channel of one subscriber |
| `OpsQueue`, `IncrementalDispatcher` | the queue that callbacks go through, and the list that jobs are handed on by |
| `SignalRelayProofs`, `AgentDispatchProofs`, `BoticalClientProofs`, `RoomSessionProofs`, `NegotiationProofs`, `SubscriptionsProofs` | the proofs of the module of that name |
| `DeliveryProofs` | the proofs of `DataMessages`, `OpsQueue`, `IncrementalDispatcher`, `Dynacast` and `StreamAllocator` |
| `NodeProofs` | the proofs of `RoomPlacement`, `Publishing` and `Forwarding` |
| `MCSignalRelay`, `MCAgents`, `MCSessionEnds`, `MCTransport`, `MCNode`, `MCSubscriptions` | instances for TLC |

An MC module that names several parts explores them one at a time: `part` (or
`focus`) is chosen at first and never changes, and the other parts stay in an
initial state. The parts of one MC module share no variable; each leaves open
what the others do to it (a session does not know on which of several nodes its
room is, an allocator's bitrates are whatever they are). They share a run, not
a composition.

Operators named `Mut...` stand next to the definition they vary. Each is that
definition with one plausible bug (a dropped guard, a missing reset, a swapped
order), and no specification uses it; `PROJECT.json` ("mutants") says which
property the bug breaks. They show that each property says something about the
code and not only about the model.

### SignalRelay

A direction `d` is `"req"` (client to media) or `"res"` (media to client); the
two are the same code with different parameters (`CloseOnFailure`,
`BlockOnClose`, signal.go 112-120 against service/signal.go 133-189). A message
is its number, so what was delivered tells order, loss and repetition apart.
`queue`, `seq`, `draining`, `writer` are `signalMessageSink`'s fields; `rseq` is
the reader's; `delivered` and `taken` split the `MessageChannel` into what was
ever put and what was read. An action is what one goroutine does under one lock
or between two: `WriteSend` is the critical section of `write` that builds the
packet, `SendOk`, `SendRetry` and `SendGiveUp` the ones after `Send` returned.
The psrpc stream is external: `wire` holds packets handed to `Send`,
`DeliverPacket` puts one in the peer's buffer, once, now or after the sender
timed out, in the order of sending or not at all (`StreamCloses`). A retried
packet may therefore arrive twice, the second time with more messages.

### AgentDispatch

One record of control per dispatch: `adder` (AddAgentDispatch), `launch` (the
launchRoomAgents goroutine with agentClient.LaunchJob), `request` (the
JobRequest handler and AssignJob), `deleter` (DeleteAgentDispatch), and the
agent itself (`inRoom`, `leaving`, `told`, `finished`). The state names say
between which two locks the code is: `"running"` is after
`w.runningJobs[...] = job`, `"mapped"` after `jobToWorker`, `"reply"` after
`RegisterJobTerminateTopic`. When that fails the code logs it and replies as if it
had not: such jobs are in `topicFailed`, and no termination finds them. Workers are external processes: they answer yes, no
or terminate, report ends, leave by a drain or a lost connection at any time.
Namespaces, load and job types are abstracted, each selection is any worker not
tried (`SelectWorker`).

### BoticalClient

The page is single threaded, so an action is what runs from one await or event
callback to the next. `asked` and `answered` count the token requests before and
after the token server handled them; `phase` follows each `Room` of
livekit-client, whose behaviour is external and stated at the head of the
module. `pending` holds the microphone switches in call order. A click is
enabled while the button is.

### RoomSession

There is one room name; `Rooms` are the objects created for it one after the
other, `Conns` the connections, and a participant has the name of the connection
that created it. `pc` is where StartSession is. Each check and the act that
follows it are different steps whenever the code releases a lock in between:
`CloseIfEmpty` finds a room idle and `CloseIdle` closes it; `Room.Close` closes
the channel, takes the participants and only then calls onClose (`RoomClosed`,
which deletes the room *by name*); `RemoveParticipant` takes a participant out
of the maps and closes it later, `Close` of a participant changes its state and
the state change calls `RemoveParticipant` (`RemoveDisconnected`).

### RoomPlacement

A call of the services (`Calls`: to join, create or delete the room of one name)
walks through the allocator (`SelectNode`, `SetNode`), the router (`Route`,
`Arrive`) and, on the node, getOrCreateRoom (`Get` to `MapRoom`), which reads
and writes the room's entry under the Redis lock. `route`, `stored` and
`roomLock` are the three keys in Redis. A room writes its entry, id included,
without the lock too (`WriteEntry`: persistRoomForParticipantCount and
OnRoomUpdated), at any time and after it has closed; a node asked to delete a room
it does not know deletes the entry (`DropUnknown`). The lock expires (`Expire`), statistics
are late (`Late`), nodes crash (`Crash`), at most `MaxFaults` times together.
The ghost `causes` records that a route or an entry was changed under somebody
who had read it: by a fault, or by the code alone, where a room that closes
clears the keys by name or writes its old id back. `PlacedOnce` holds until then; how it can be broken
afterwards is what the comment at each place that adds to `causes` says.

### Publishing

`pending` is pendingTracks with its queued flag, `waiting` the remote tracks
without a request, `published` the list of `UpTrackManager`, `monitors` the
supervisor's. A goroutine is the sequence of calls it has yet to make (`work`),
as closing a track calls the callbacks, which call into the participant again,
which looks at media again. `lock` is pendingTracksLock where it is held from
one step to the next. Two ghosts name what the code does not cover: `missed`
holds tracks that closed before their callback was added, `early` the ids of
requests let go on while an earlier track of the id was open, had been closed
unnoticed or was still to be cleared (participant.go 3317-3356).

### Negotiation

Both ends are PCTransports, the pair `transport_test.go` builds; a client plays
either part. The offerer's variables are the fields of `PCTransport` under the
names in the comments; `events` and `incoming` are the two event queues, and one
event is one action, as the queue's goroutine runs one handler at a time. The
failure timer runs on its own goroutine and takes three steps (`TimerFires`,
`TimerClears`, `TimerChecks`) because the code reads three fields without a lock.
An offer is what the properties tell apart: its ICE credentials (`gen`) and the
track changes it covers. Pion is external: its signalling state is `signaling`,
setting or creating a description may fail, an answer without an outstanding
offer does. `LinkLost`, `Resume` and `ICERestart` are the end of a session's
WebSocket and the resume that `RoomSession` has, seen from the transport.

`CreateAndSendOffer` and `DoICERestart` are used by more than one handler, with
the state the handler has set by then as argument.

### Subscriptions

A subscription is an object, `sub` of a slot, with its id (`of`), the wish
(`desired`) and the down track it holds (`held`); `entry` is SubscriptionManager's
map. SubscribeToTrack looks an id up (`Subscribe`), stores a new subscription
(`Store`) and looks again (`Desire`), under a lock each, so that of two calls the
second replaces what the first has stored and the worker or a down track may be
using. The worker collects subscriptions from the map (`Collect`) and reconciles them
one by one as they are when their turn comes (`Reconcile`): a subscribe takes
`Resolve` and the steps `Watch` to `Hold`, between which the track may close, the
permission go, the wish change and the subscription be replaced; `Cleanup` deletes
whatever the map has under the id. `down` follows each down track from creation through
its closing callbacks; a slot is used again when one is finished. The
publisher's side is `life`, `removing` and `announcing` of each track object;
an id may be published again under another one. Everything the code starts with
`go` has its own action.

### Dynacast

A change goes through four locks: the wishes of a codec, their maximum, the
manager's maximum per codec, and what is committed. A caller (a subscriber, a
node, a timer) is `[at, codec, force]` with `at` the lock it is before:
`SetWish`, `Compute`, `Report`, `Update`. Two timers (`timer` of a codec,
`debounce` of the manager) come back as callers of their own; `Regress` and the
restart it makes are a caller too.

### DataMessages

Per publisher: `last` and the cache of `ParticipantImpl` and `Room`, the number
it sends next, what waits for a migration to end (`held`, `awaited`, `gaveUp`),
what was turned away before its number was looked at (`refused`) or was numbered and
is for the node itself (`kept`), and `step`, the place of onReliableDataMessage in
the room. A message is addressed by identities (`Named`), ids, or both (`Dest`). Per participant and
publisher: `first` (what was the first message while it was connecting),
`written`, and the ghosts `offered`, `got` and `disordered` that the properties
compare. `Replay` sends the cached messages when a participant has connected.

### RangeMap and Forwarding

`RangeMap` has the code's operations on a sequence of ranges; an offset is an
integer where the code has a wrapping unsigned one. `Forwarding` uses them as
`RTPMunger` does (`Adjusted`, `LateNumber`, drops, padding, switches), and the
sequencer's ring as `sequencer.go` does, under a lock of its own: a packet is
numbered in one step and recorded in another (`flight`, `padding`), and packets of
two layers may be recorded in either order. A packet behind a gap, a late one, or
one whose layer is being left may be numbered and not sent (`Withhold`). Ghosts: `given` is
what each number was given to, in which `turn` (between two feed switches), `got` what came of
each feed, and `before` what had come of the feed when it was switched to.
Incoming numbers are unbounded; on the wire they are taken modulo `Cycle`.

### VideoAllocation and StreamAllocator

`VideoAllocation` has one operator for each allocation of `Forwarder`
(`AllocateOptimal`, `Offered` for ProvisionalAllocate, `CooperativeLayer`,
`BestWeighted`, `AllocateCommit`, `Paused`): state and bitrates to state. The allocator's
event loop is `queue` and one `Handle...` action per kind of event and branch.
Bitrates are one of a few tables (`Upstreams`), capacities a small set
(`Capacities`), probes an estimate that comes when they are over.

### OpsQueue and IncrementalDispatcher

An operation and an item are their number. In the queue `process` is where the
goroutine is; the wake channel is a token that may be there. In the dispatcher
`Add` looks at the fuse before it takes the lock, so an item may be added after
`Done`; `promised` is the length of the list at `Done`.

## 3. Runs, bounds, and what they show

| Run | Instance | Distinct states | Shows |
|---|---|---|---|
| `relay` | one direction at a time; 2 requests or 3 responses, 1 retry, channel of 1, stream buffer of 2 | 487 354 | `RelayInv`, `DeliveredInOrder`, `CloseMeansComplete`, `DrainedReachesPeer`, `CloseUnblocks`, `ImplementsChannel` |
| `agent_dispatch` | 1 dispatch, 2 workers; a queue of 4 operations that flushes; 3 items, 2 producers, 2 consumers | 645 798 | `DispatchInv`, `AtMostOneAssignment`, `NoOrphanAgent`, `RunningIsTerminable`, `DeleteRemovesAgent`, `DeleteEnds`; `QueueKeeps`; `DispatcherKeeps` |
| `client` | page: 2 rooms, 2 tracks, 3 pending clicks; node: 1 room, 2 connections | 121 782 | `ClientInv`, `VoiceConsistent`, `KeepsTrying`, no deadlock of the page; `ClosedLeaves` |
| `transport` | negotiation: 3 changes and losses together; forwarding: 2 layers, 5 packets, 7 numbers | 727 658 | `NegotiationInv`, `SettledAgrees`, `ChangesReachPeer`; `NumbersMatch`, `GivenOnce` |
| `sessions` | sessions: 2 rooms, 2 connections, 1 identity; placement: 3 calls, 2 nodes, 1 fault; publishing: 2 cids, 3 goroutines, 3 requests, 2 remote tracks, 2 events; allocation: 2 tracks of 2 by 2 layers | 924 796 | `SessionInv`, `NoStray`, `ClosedRoomIsEmpty`; `PlacedOnce`; `RequestsProceed`, `MonitorsMatch`, `RevokedIsGone`; `StateFits`, `KeepsWithin` |
| `subscriptions` | 2 ids, 3 tracks, 3 down tracks, 4 subscriptions, a limit of 1, 4 events; 2 codecs, 2 qualities, 1 subscriber, 1 node, 2 calls; 1 publisher, 4 messages, 2 participants, 1 resend | 390 945 | `SubscriptionsInv`, `LimitCounts`, `ClosedHasNoSubscriber`, `DeniedIsRevoked`, `Settles`; `NothingForgotten`; `NothingSkipped`, `EachOnceInOrder` |
| `agent_delete_race` | 1 dispatch, 2 workers | – | finding 1 |
| `sessions_idle` | 1 room, 1 connection | – | finding 2 |
| `sessions_forgotten` | 2 rooms, 2 connections | – | finding 3 |
| `negotiation_watch` | 2 changes | – | finding 4 |
| `subscriptions_released` | as `subscriptions` | – | finding 5 |
| `subscriptions_republished` | as `subscriptions` | – | finding 6 |

Why these bounds are enough to make the hard cases happen:

* Relay. Three messages and one retry let a packet be acknowledged, a second be
  sent, time out, grow by a message and arrive twice, with a close mark on the
  way. A channel of one message is full as soon as nobody reads. `MaxTries`
  stands for the retry deadline, `MaxMsgs` bounds the messages written. The two
  directions share the stream and its closing only, so one is used at a time
  (`OneUsed`).
* Dispatch. Two workers are needed for a second choice after a failed or late
  assignment; a dispatch touches no state of another one except workers' sets
  and the cache. Four operations let one run while two wait and a fourth comes;
  three items and two consumers let one wait while the other is given.
* Client. A `Room` is dropped for good when it is disconnected, so two are
  enough for an old one and its successor. Three pending clicks let two be in
  flight while a third is decided. One room and two connections of one identity
  are what `ClosedLeaves` needs.
* Negotiation. A change that is put off needs a change that is negotiated, and a
  loss on top makes the restart meet every negotiation state. Two changes and
  two losses (10.7 million states) give no other answer for the safety
  properties; that is too long for a run kept here.
* Sessions. Two connections of one identity are a session and the one that
  replaces or resumes it; two rooms a closing one and its successor.
  Names of connections and rooms are symmetric.
* Placement. Two joins race for a route or a lock; a third call is needed to
  close what they made, a fault to let the code's checks fail. `FaultOrThird`
  has one or the other; both together (more than a run kept here can hold) add
  no way for `PlacedOnce` to fail that `causes` does not name, which the proof
  shows for any number.
* Publishing. A second request of a cid is queued behind the first and a third
  behind that; two goroutines beside the signal's race for a track's media and
  its close. Of the events, one closes a receiver and one revokes.
* Forwarding. A layer of three packets and one of two, numbers that cross a
  multiple of `Cycle`, a munger that keeps two ranges and a cache of three
  slots: ranges are pruned and slots written again. `MaxLag` is less than
  `Slots`: see the observations of section 4. Packets are numbered as long as
  the numbers given are in `Numbers`.
* Allocation. Two tracks of which all layers or none are sent:
  together they may need twice what the channel has, or it has no more than the
  lowest layer of one (`Capacities`), with two changes of what they send or want.
  The proofs cover layers of which only some are measured and tracks that are not
  managed; instances with them (2.8 and 2.6 million states) give the same answers.
* Subscriptions. Two objects under one id are a track and its successor, a
  second id competes for the limit, three down tracks let one be closing, one
  held and one in creation. Four subscriptions are one in the map, one that was
  replaced and holds a track, one in the worker's hands and a new one; a fifth is
  never needed (three give the same answers). Dynacast needs two codecs for a regression, and two
  callers at a time between its locks. Data needs a message sent before the
  publisher came, one in order, one addressed by an identity, and one that is
  addressed by an identity and an id.

`CHECK_DEADLOCK FALSE` is set where the modelled system stops for good: a signal
session that ended, a dispatch that was deleted, connections and rooms that are
used up, transports with no change to come or closed, bounded events that have
all happened. The page never stops, and its run checks for deadlock.

### Fairness

* Relay: the writer goroutine runs, `Send` returns (psrpc's timeout), a blocked
  `Close` goes on once its stream is done. Nothing is assumed of the network.
* Dispatch: the goroutines of launch, request and deletion run. `AssignJob` ends
  by its own timeout. Nothing is assumed of workers.
* Client: a timer fires, a join attempt ends one way or the other.
* Sessions: goroutines that can run do, timers fire, and the janitor
  (`CloseIdleRooms`, each second) comes round. Nothing is assumed of clients,
  transports or administrators.
* Negotiation: event queues are worked off, ICE gathering ends, the debouncer
  fires, a connection that is up delivers, a resume reaches its ICE restart.
  Nothing is assumed of the timer, and a lost connection may stay lost.
* Subscriptions: goroutines run, a publisher that left has its tracks closed,
  and the worker works its list off. Its ticker comes again and again, whatever
  queueReconcile gives it in between: strong fairness for the `Collect` of all that
  needs something, which `select` in reconcileWorker gives (subscriptionmanager.go
  675). Nobody needs to publish, wish, permit or leave.

All but the ticker's is weak fairness: a Go goroutine that is runnable is
scheduled, and a lock is held for the length of one step only.

## 4. What the runs found

1. *A dispatch deleted before its launch is announced* (`agent_delete_race`).
   `AddAgentDispatch` stores the dispatch before `launchRoomAgents` counts a
   pending job; a deletion in between waits for nothing, and the job is launched
   when the deletion is over, which the comment at room.go 173-175 says is
   avoided.
2. *CloseIfEmpty can close a room somebody has joined* (`sessions_idle`): the
   check is made under the lock, `Close` is called after it.
3. *A closing room unmaps its successor* (`sessions_forgotten`): `deleteRoom`
   deletes by name what is there. The successor is then never closed when empty.
4. *An old failure timer stops the next one* (`negotiation_watch`). The function
   of `signalStateCheckTimer` clears the field on its own goroutine; when the
   next offer has armed it by then, that offer is not watched. The comment at
   transport.go 274 restricts the field to the event queue's goroutine.
5. *A track that closes while a subscriber is added is held for ever*
   (`subscriptions_released`). `addSubscriber` installs the close handler
   (subscriptionmanager.go 827) before it holds the track (848); a handler that
   runs in between finds nothing held, and the finished track stays.
6. *A track published again is unsubscribed from* (`subscriptions_republished`). The
   removed observer looks the id up (743) so as not to, "track is still available"
   (745), and then ends whatever subscription the id has (748, 919-930) without
   another look; the id may have been published again in between.

What else was met while modelling. The properties named here are stated in
their modules with the place that refutes them, and no run keeps them:

* `VideoAllocation`/`StreamAllocator`: *a track that is fitted may not fit*
  (`FittingFits`; streamallocator.go 998-999 does not take what it allocated from
  the headroom, so a layer offered later is weighed against all of it). A
  transition that changes nothing leaves a track behind (959). *Sharing never takes
  more than there is*: a track whose layers up to its maximum are not measured goes
  on with the layer it has, which nobody counts ("opportunistic forwarding",
  forwarder.go 1210-1214), so `KeepsWithin` speaks of shares in which no track does
  (`Opportunistic`). Where layers are not measured, a track that moves down may
  need more than before.
* `Dynacast`: *what is sent last is what is wanted* (`SendsWhatIsWanted`): the
  maximum is computed under the lock and reported after it, so two reports may
  come in the other order (dynacastqualityvideo.go 221).
* `Publishing`: *every open track is in the list* (`EveryTrackListed`):
  RemovePublishedTrack closes a track and then deletes its id, under which the
  next may have been published (uptrackmanager.go 277-283). The close callback is
  added after the track can be found (participant.go 3339, 3354), hence `missed`;
  it lets go on whatever request is first then, hence `early`. A mute that comes
  while a track is on its way from request to list is lost (3048-3066).
* `Subscriptions`: *a wish is settled*, but not where two calls of SubscribeToTrack
  found the map without the id (subscriptionmanager.go 173-184). The second replaces
  the subscription of the first; one that holds a track by then is never
  reconciled again (`Replaced`), and its down track makes the new one's subscribe end
  with errAlreadySubscribed. Nor is a new subscription wanted from the start: the
  worker may delete it before it is, and the wish is lost. A track that is denied
  while it is being subscribed stays forwarded (761; `late` in `DeniedIsRevoked`).
* `AgentDispatch`: a job whose topic failed to be registered runs on and no
  termination finds it (agentservice.go 412-415). A job that its worker ends between
  the lookup of a termination and the termination itself makes the RPC fail, and the
  deletion goes on without a look at the room (room.go 916-918).
* `DataMessages`: *a message goes only to whom it is addressed* (`OnlyAddressed`):
  what is replayed from the cache is filtered by the identities a message names
  and not by the participant ids, so one addressed by ids goes to everybody who
  was connecting (participant.go 3857). One that names identities and ids is not
  replayed to whom it names by an id alone.
* `Forwarding`: `sequencer.go` 283 compares a distance of a whole ring as still
  inside it. The answers are right as long as an unrecorded burst is less than a
  ring behind (`MaxLag` < `Slots`), which the real sizes make likely and no code
  makes sure. Nor is a slot cleared that padding always jumps over: where the number
  of a slot is withheld or late time after time, the slot answers with a packet a
  `Cycle` old (2 slots and a `Cycle` of 4 show it). `AnswersAreRight` says of such
  a packet that it was sent under the number on the wire, and of any other that it
  is the most recent one that number can mean.
* `Forwarding`: a packet that is not sent leaves a hole where it is late or follows a
  gap (forwarder.go 2107-2116, 2163-2170): only one dropped in its turn is excluded
  from the numbers.
* `RoomPlacement`: *a name never has rooms on two nodes* (`NeverTwo`): the route is
  set and cleared without looking at what it is by then, so two calls that both
  find no node open the room on two. Nor is its id one: what a room that closed writes
  late, without the lock, is the id the next one opens with (roommanager.go 558-581,
  671-675). `causes` is there for this.
* `OpsQueue`: `Stop` before `Start` leaves doneChan open for ever.
  `IncrementalDispatcher`: an item added across `Done` may be missed by a consumer
  that is through, which its only use rules out.
* Read, not modelled: the request source of a participant is compared and the
  participant's signal source closed afterwards (roommanager.go 743); updates are
  versioned under one lock and sent under another (participant_signal.go 124 and
  193-215).

## 5. What is proved

Thirty-nine theorems, each with its line under "theorems" in `PROJECT.json`.
They hold for sets of any size and any values of the bounds, from the modules'
named assumptions only: a channel of at least one message
(`BoundsAssumption`), names for nobody that are nobody's (`NoRoomAssumption`,
`NoConnAssumption`, `NoWorkerAssumption`, `PlacementNames`), bounds that are
numbers (`ClientAssumption`, `NegotiationAssumption`), finitely many subscriptions and
down tracks (`SubscriptionsAssumption`), a thread for signals (`PublishingThreads`), a
highest quality and two different codecs (`DynacastConstants`), natural numbers
for packets and at least one range and slot (`ForwardingConstants`), layers from 0
on and costs that are numbers (`LayersAssumption`), finitely many tracks, at least
one capacity and bitrates that are numbers (`AllocatorAssumption`). TLC evaluates
all named assumptions in the runs. Three theorems have hypotheses of their own:
those of `DataMessages` that `Came` gives each publisher a number, `RecentAnswered`
and `NumbersAgree` the relations between lag, ring and cycle given below.

Each proof has an inductive invariant, one lemma for each part of it (one step
per action), and a last step that combines them.

**Relay** (`RelayInvariant`, `InOrder`, `CloseComplete`, `DrainComplete`,
`Refinement`). That messages arrive in order is not inductive. `RelayInv`
relates the four places a message can be: the queue holds exactly the accepted
messages past `seq` (`QueueInv`), a packet anywhere on the wire consecutive ones
from its own number on, and one with the close mark the last there will be
(`PacketInv`), the packet being sent is a prefix of the queue (`SendInv`), and
the reader's number is the count of what was delivered and what the copier holds
(`CopierInv`). A retried packet overlaps what was read and `Fresh` drops exactly
the overlap. `DrainInv` says where a close packet can be once acknowledged.
`Refinement` maps each step to a `SignalChannel` step or a stutter under that
invariant.

**Dispatch** (`DispatchInvariant`, `OneAssignment`, `NoOrphan`, `Terminability`,
`DeletionRemoves`). `RequestInv` ties the caller's progress to the handler's:
nothing is assigned before the wait for an answer is over, and then to the last
target only. `KnownInv` says that a running job whose worker is connected is
mapped and has its topic, or failed to register it, from the corresponding step on, which survives the
status updates and losses of workers that arrive between the locks.

**Client** (`ClientInvariant`, `VoiceAgrees`). A request on its way, an armed
timer and a live or joining room are exclusive and one of them is there; the
voice is only on while a room is. That button, indicator, audio and microphone
agree when no switch is pending needs `VoiceInv`: while switches are pending,
they are of the live room, the last of them is the one the flag wants, and a
switch that ends out of a sequence leaves the last where it was (lemmas on
`Without`, with the sequence theorems).

**Sessions** (`SessionInvariant`, `NoStrayInvariant`, `ClosedRoomInvariant`).
`Placed` gives each step of StartSession the room it has and says from where on
its participant exists; `Mapped` that a room's map holds participants of that
room under their identity. With these, a participant that is not closed is in
the map or was just taken out to be closed, and one in a closed room is on
`Close`'s list.

**Placement** (`NamePlacedOnce`). `PlacementInv` says of every call why the room
of a name is one: as long as no route was overtaken, who is inside a node or has
a room open is on the node of the route, which runs, and who is about to set the
route saw none that runs (`RouteOf`); as long as no entry was, the lock is held
from reading the entry to writing it, and what rooms write without it is the id that
is there, so the id written is the one there or the first (`EntryOf`).

**Publishing** (`NoRequestStuck`, `RevokedTracksGo`, `MonitorsAgree`). `PublishingInv` says who is
about to do what the code owes. The obligation is carried by calls that are
still in a goroutine's sequence, so it has to know their order: a call that lets
a request go on is followed by one that looks at media (`Followed`), one that
takes a closed track off the list comes before both (`LetsGoOn`), a track in the
list is open, missed or about to go (`ListedOf`), and a queued request has a
track of its cid before it or a call that lets it go on (`ProceedsOf`). That a
monitor expects what was asked for takes counting on top of it: `MonitorInv` says
that a monitor awaits one start for each request of its id (`MonitorOf`, with the
cardinality of the requests in all of `pending`) and knows of no track that is
over, that a request goes on when all tracks of its id are over, and that what may
be deleted has no request and gets none any more; ids of which a request went on
early may await more.

**Forwarding** (`NumbersGivenOnce`, `NumbersInOrder`, `UnusedAreReserved`,
`AnswersHold`, `RecentAnswered`, `NumbersAgree`). The heart are lemmas about `RangeMap`, for maps of any length:
a map is `Ordered` if its ranges do not overlap and neither do the numbers they
give; `ExcludeRange`, `DecValue`, `Split` and `Prune` keep it so, and what they
return `Follows` the map there was: keys up to the end keep their numbers, or
are older than anything left. With them `MungerInv` says that a packet that has
not come has a free number (`FreeNumbers`), one that has has its own still
(`MediaNumbers`), and a number that was neither given nor withheld is that of a packet
(`Covered`). That the packet may still come takes both of the last two: one that
has come from this feed has its number or withheld it, and for a switch to a feed
that was forwarded earlier `before` says which came then. `RecordedInv` says
that everything in flight to the sequencer and in its slots was sent.
`SequencerInv` adds that what the sequencer's ranges do not have is padding, as
far back as a ring (`MapInv`), that an unrecorded burst keeps its numbers and is
not left far behind (`BurstInv`), and that a recorded packet is in its slot until
the ring has gone round (`SlotsInv`); two packets of a ring have different slots,
which needs quotient and remainder (`Remainder`, `SameRemainder`). With it, an
answer is the packet the number on the wire *means*, and recent packets are
answered. The hypotheses are those the properties need: a lag below the ring
(`MaxLag` < `Slots`), half a cycle for the ring, and no packet 0 (the code's mark of
an empty slot). The numbers may go round the cycle as often as they like.
`transport` meets the hypotheses: 2 < 3, 6 <= 6, numbers from 12 to 18, which is a
whole cycle and one more.

**Negotiation** (`NegotiationInvariant`, `EndsAgree`). `StateAgrees` ties
`negotiationState` to pion's signalling state, so a handler that finds `"none"`
may make an offer and one that finds another has one to repeat; `RequestKept`
needs it where an answer decides whether a retry follows. `RestartKept` says
that the flag of a deferred restart is only set while an end of gathering is
still to be handled. That both ends agree when all is quiet is an accounting
argument (`FlightInv`): what is in flight, offers, queued offers, the pending one
and answers, is at least what is owed unless a restart will see to it, and when
it is exactly that, the last offer on its way is the local one, or the remote one
is.

**Subscriptions** (`SubscriptionsInvariant`, `CounterIsExact`,
`LimitAlwaysCounts`, `ClosedTracksAreLeft`, `DeniedTracksAreRevoked`). The
counter of the limit is the cardinality of the subscriptions that hold a track, be
they in the map or replaced in it, which the four steps of a close handler must not
count twice. That what a subscription holds was made for it (`HeldInv`) keeps the
down track of a replaced one apart from what its successor is about to hold. `WorkerInv` says for each
step of adding a subscriber what is still as it was checked; the two theorems
about closed and denied tracks name exactly what is on its way when the state
they exclude is there.

**Data messages** (`DataInOrder`, `DataComplete`). Per publisher, what was
forwarded is in the cache or has expired and is not newer than the last message;
per participant, one that connects was offered what waits for it and got
nothing, and one that is connected lacks only what expired. A number up to the last
was forwarded, kept from the participants by its content (`kept`), or turned away on
arrival (`refused`); nothing else gets lost. `Steady` adds that numbers go up one by
one until a wait for a migration is given up.

**Queue and dispatcher** (`QueueRunsInOrder`, `DispatcherGives`). The operation
in each place is the number of that place; a goroutine that sleeps has a token
if there is anything to do. A consumer that waits has copied all there is, and
its last look is after `Done`.

**Dynacast** (`ChangesArrive`). For each codec, what the wishes say is known, or
somebody is about to compute it, or a timer will (`Known`); what the manager
wants is committed, about to be, or waits for a debounce timer that runs
(`WantedComes`, `Debounced`).

**Allocation** (`AllocatorFits`, `AllocatorKeepsWithin`). `AllocatorInv` says that
every track is either served or known to be deficient (`Accounted`), or dirty with
an event in the queue (`Awaits`), and that the state matches unless an event that
adjusts it waits. A lemma for each operation of `VideoAllocation` says what it
leaves behind (`OptimalSettles`, `CommitSettles`, `PausedSettles`,
`BoostedSettles`), and the best transition exists because comparing savings per
cost is a total order (`BetterOrder`, on products). Handlers are folds: over the
layers in order, over the tracks in an order of their own, over sums. No induction
theorem can be cited for those; instead `FoldExists`, `FoldStays` and their
counterparts for sequences and counters say that the recursive function behind a
fold exists and stays within a set if each step does, each by a smallest
counterexample (`WFMin` of the library). The set then carries the argument: while
layers are offered, what the tracks have been given and what is left come to no
more than there was (`Offers`); while tracks are boosted, what they need and the
room left stay within the channel (`Roomy`); while others contribute, what they
will need and what they have given come to no more than before (`GivenIs`). Sums
over tracks change by what one track needs more (`TotalChanges`, `UsageChanges`).
`Keeps` follows from `AllocatorInv` for every handler it speaks of.

### Only model-checked

* The liveness properties `CloseUnblocks`, `DeleteEnds`, `KeepsTrying`,
  `ClosedLeaves`, `ChangesReachPeer` and `Settles`: fairness and ENABLED are out of
  the prover's reach.
* The violations, which are behaviours.

Every invariant and every action property of the passing runs is a theorem.

## 6. What comes next

| # | Module | What | Why |
|---|---|---|---|
| 1 | `Negotiation`, extended | trickled candidates kept until a description is set; `TransportManager` with fallback from UDP to TCP to TLS | no candidate lost or given to the wrong generation; fallback is monotone |
| 2 | `ParticipantUpdates` | `participant_signal.go`: update cache and versions | versions at the client never go back |
| 3 | `Buffers` | the receive side and `nack.go` | bounded requests for a missing packet |
| 4 | `BoticalSupervisor` | `livekit-server.ts`, `main.ts`, `agent.ts`, transcript segments of `chat.ts` | start settles once; no child is left; a final segment stays final |

## 7. What is not modelled, and why

* *Signalling codec, configuration, telemetry, metrics, entry points*: no state
  that two actors share; reading, formatting and counting.
* *Stream tracking, quality scoring, statistics, bandwidth estimators*: numeric
  filters over measurements. What TLC could enumerate of them says nothing of
  the thresholds they are about.
* *Codec and header parsing*: bits of packets; the numbers they yield are
  unbounded in `Forwarding`, after the wrap-around was undone.
* *Buffers and NACK*: one goroutine per buffer that stores packets in place.
* *Transport manager*: which transport is given up is a comparison of counters;
  it comes with the extension of `Negotiation`.
* *SIP, ingress, egress, WHIP, TURN, auth*: checks of a request that is then
  handed to another process.
* *Botical page and process supervisor*: form, one timer and one handle.
* *livekit-client, pion, psrpc, Redis, workers*: not in the repository; modelled
  from how the code uses them, and named external in `PROJECT.json`.
* *Within the modules*: what each leaves out is at its head. Across them:
  timestamps and codec headers of forwarded packets, mute, migrated tracks, lossy data messages.
