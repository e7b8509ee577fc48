---------------------------- MODULE DataMessages ----------------------------
(***************************************************************************)
(* Reliable data messages (pkg/rtc/participant.go, room.go,                *)
(* migrationdatacache.go).  A publisher numbers its messages; the node     *)
(* drops what it has seen, keeps each for a while and hands it to the      *)
(* participants there are.  One that is still connecting notes the first   *)
(* number it misses of each publisher and is sent the rest from the        *)
(* room's cache once its transport is up.  A publisher that came from      *)
(* another node goes on where it stopped there, or after a while anyhow.   *)
(*                                                                         *)
(* The messages of a publisher come on one data channel and are handled    *)
(* one after the other; its client sends some of them again after a        *)
(* reconnection.  A message is turned away while its publisher may not     *)
(* publish data, has left or is moving on, or cannot be read; one that is  *)
(* for the node itself, or empty, is numbered and not forwarded.  Left     *)
(* out: leaving participants, those that had messages of the publisher on  *)
(* another node (SetMigrateInfo), failing channels and encodings, and the  *)
(* deduplication by nonce.                                                 *)
(***************************************************************************)
EXTENDS Naturals, FiniteSets

CONSTANTS
  Senders, Receivers,
  Came,       \* LastPubReliableSeq of a publisher from another node, or 0
  Dest,       \* [Senders -> [Nat -> SUBSET Receivers]]: whom a message is sent to,
  Named,      \* [Senders -> [Nat -> SUBSET Receivers]]: and whom by their identities
  MaxSeq, MaxResends \* bounds

VARIABLES
  next,       \* the number the client sends next, external
  resends,    \* how often clients began again
  awaited,    \* MigrationDataCache: whether the number after Came is waited for,
  held,       \* and what came instead
  toHandle,   \* messages handleReceivedDataMessage is still called with
  last,       \* lastPubReliableSeq
  step,       \* of the call: "none", "cache", "list" or "send"
  unsent,       \* those it still has to send the last message to
  gaveUp,     \* publishers whose wait was given up
  refused,    \* new messages onReceivedDataMessage turned away
  kept,       \* messages that were numbered and are not for the participants
  forwarded,  \* messages that were forwarded
  messageCache, \* Room.dataMessageCache
  expired,    \* and what it has dropped
  present,    \* the participants of the room
  canWrite,   \* canWriteReliable
  first,      \* joiningMessageFirstSeqs, or 0
  written,    \* joiningMessageLastWrittenSeqs, or 0
  offered,    \* messages SendDataMessage was called with,
  got,        \* and those that were sent
  disordered  \* whether one was not newer than all sent before

publisher == <<next, resends, awaited, held, toHandle, last, gaveUp, refused, kept>>
sendingVars == <<step, unsent, forwarded>>
roomState == <<messageCache, expired, present>>
receiver == <<canWrite, first, written, offered, got, disordered>>
dataVars == <<publisher, sendingVars, roomState, receiver>>

DataInit ==
  /\ next \in {f \in [Senders -> 1..MaxSeq] :
                 \A s \in Senders : IF Came[s] = 0 THEN f[s] = 1 ELSE f[s] > Came[s]}
  /\ resends = 0
  /\ awaited = {s \in Senders : Came[s] > 0}
  /\ held = [s \in Senders |-> {}] /\ toHandle = [s \in Senders |-> {}]
  /\ last = Came
  /\ step = [s \in Senders |-> "none"] /\ unsent = [s \in Senders |-> {}]
  /\ gaveUp = {}
  /\ refused = [s \in Senders |-> {}] /\ kept = [s \in Senders |-> {}]
  /\ forwarded = [s \in Senders |-> {}]
  /\ messageCache = [s \in Senders |-> {}] /\ expired = [s \in Senders |-> {}]
  /\ present = {} /\ canWrite = {}
  /\ first = [r \in Receivers |-> [s \in Senders |-> 0]]
  /\ written = [r \in Receivers |-> [s \in Senders |-> 0]]
  /\ offered = [r \in Receivers |-> [s \in Senders |-> {}]]
  /\ got = [r \in Receivers |-> [s \in Senders |-> {}]]
  /\ disordered = FALSE

----------------------------------------------------------------------------
(* The publisher.                                                          *)

\* Mutant: any message of a publisher from another node ends the wait.
MutEarly(s, n) == FALSE

\* onReceivedDataMessage turns a message away (2291, 2298, 2305) or goes on with it.
\* MigrationDataCache.Add keeps what comes too early, drops what it kept when the
\* awaited number comes (its client sends that again) and has it handled when the time
\* is over.
Early(s, n) == s \in awaited /\ n # Came[s] + 1
MessageArrives(s) ==
  LET n == next[s] IN
  /\ step[s] = "none" /\ toHandle[s] = {}
  /\ n <= MaxSeq
  /\ next' = [next EXCEPT ![s] = n + 1]
  /\ \/ /\ refused' = [refused EXCEPT ![s] = IF n > last[s] THEN @ \cup {n} ELSE @]
        /\ UNCHANGED <<awaited, held, toHandle, gaveUp>>
     \/ /\ ~Early(s, n)
        /\ awaited' = awaited \ {s}
        /\ held' = [held EXCEPT ![s] = {}]
        /\ toHandle' = [toHandle EXCEPT ![s] = {n}]
        /\ UNCHANGED <<gaveUp, refused>>
     \/ /\ Early(s, n)
        /\ held' = [held EXCEPT ![s] = @ \cup {n}]
        /\ UNCHANGED <<awaited, toHandle, gaveUp, refused>>
     \/ /\ Early(s, n)
        /\ awaited' = awaited \ {s}
        /\ held' = [held EXCEPT ![s] = {}]
        /\ toHandle' = [toHandle EXCEPT ![s] = held[s] \cup {n}]
        /\ gaveUp' = gaveUp \cup {s}
        /\ UNCHANGED refused
  /\ UNCHANGED <<resends, last, kept, sendingVars, roomState, receiver>>

\* The client is told a number the node has had (GetLastReliableSequence) and goes
\* on after it.
Resend(s) ==
  /\ resends < MaxResends /\ resends' = resends + 1
  /\ \E n \in Came[s]..last[s] : next' = [next EXCEPT ![s] = n + 1]
  /\ UNCHANGED <<awaited, held, toHandle, last, gaveUp, refused, kept, sendingVars,
                 roomState, receiver>>

\* handleReceivedDataMessage: an old number is ignored; a new one is noted before the
\* payload is looked at, which may be missing, metrics, a transcription not of an agent
\* or what a call of the node itself waits for, and then goes no further.
Handle(s) ==
  /\ step[s] = "none"
  /\ \E n \in toHandle[s] :
       /\ \A m \in toHandle[s] : n <= m
       /\ toHandle' = [toHandle EXCEPT ![s] = @ \ {n}]
       /\ IF last[s] >= n THEN UNCHANGED <<last, step, kept>>
          ELSE /\ last' = [last EXCEPT ![s] = n]
               /\ \/ step' = [step EXCEPT ![s] = "cache"] /\ UNCHANGED kept
                  \/ kept' = [kept EXCEPT ![s] = @ \cup {n}] /\ UNCHANGED step
  /\ UNCHANGED <<next, resends, awaited, held, gaveUp, refused, unsent, forwarded, roomState,
                 receiver>>

\* Room.onDataMessage keeps the message and then sends it to those there are now.
CacheIt(s) ==
  /\ step[s] = "cache"
  /\ step' = [step EXCEPT ![s] = "list"]
  /\ messageCache' = [messageCache EXCEPT ![s] = @ \cup {last[s]}]
  /\ forwarded' = [forwarded EXCEPT ![s] = @ \cup {last[s]}]
  /\ UNCHANGED <<publisher, unsent, expired, present, receiver>>
List(s) ==
  /\ step[s] = "list"
  /\ step' = [step EXCEPT ![s] = "send"]
  /\ unsent' = [unsent EXCEPT ![s] = present \cap Dest[s][last[s]]]
  /\ UNCHANGED <<publisher, forwarded, roomState, receiver>>
Sent(s) ==
  /\ step[s] = "send" /\ unsent[s] = {}
  /\ step' = [step EXCEPT ![s] = "none"]
  /\ UNCHANGED <<publisher, unsent, forwarded, roomState, receiver>>

----------------------------------------------------------------------------
(* The receivers.                                                          *)

JoinRoom(r) ==
  /\ present' = present \cup {r}
  /\ UNCHANGED <<publisher, sendingVars, messageCache, expired, receiver>>

\* Mutant: the first message that is missed is overwritten by the next.
MutSendDataMessage(r, s) ==
  LET n == last[s]
      repeated == written[r][s] # 0 /\ n <= written[r][s] IN
  /\ step[s] = "send" /\ r \in unsent[s]
  /\ unsent' = [unsent EXCEPT ![s] = @ \ {r}]
  /\ offered' = [offered EXCEPT ![r][s] = @ \cup {n}]
  /\ IF r \notin canWrite
     THEN /\ first' = [first EXCEPT ![r][s] = n]
          /\ UNCHANGED <<written, got, disordered>>
     ELSE /\ written' = [written EXCEPT ![r][s] = IF repeated THEN @ ELSE 0]
          /\ got' = [got EXCEPT ![r][s] = IF repeated THEN @ ELSE @ \cup {n}]
          /\ disordered' = (disordered \/ (~repeated /\ \E m \in got[r][s] : m >= n))
          /\ UNCHANGED first
  /\ UNCHANGED <<publisher, step, forwarded, roomState, canWrite>>

\* SendDataMessage: noted by one that is not connected, not repeated to one that was
\* sent it from the cache.  (Whoever can write can write for ever, and one
\* goroutine sends a publisher's messages: it is sent when the lock is released.)
SendDataMessage(r, s) ==
  LET n == last[s]
      repeated == written[r][s] # 0 /\ n <= written[r][s] IN
  /\ step[s] = "send" /\ r \in unsent[s]
  /\ unsent' = [unsent EXCEPT ![s] = @ \ {r}]
  /\ offered' = [offered EXCEPT ![r][s] = @ \cup {n}]
  /\ IF r \notin canWrite
     THEN /\ first' = [first EXCEPT ![r][s] = IF @ = 0 THEN n ELSE @]
          /\ UNCHANGED <<written, got, disordered>>
     ELSE /\ written' = [written EXCEPT ![r][s] = IF repeated THEN @ ELSE 0]
          /\ got' = [got EXCEPT ![r][s] = IF repeated THEN @ ELSE @ \cup {n}]
          /\ disordered' = (disordered \/ (~repeated /\ \E m \in got[r][s] : m >= n))
          /\ UNCHANGED first
  /\ UNCHANGED <<publisher, step, forwarded, roomState, canWrite>>

\* replayJoiningReliableMessages, once the transport is up: it looks at the identities
\* alone (participant.go:3857), so a message addressed by participant ids is for all and
\* one that names others too is not for those it names by their ids.
Replayable(r, s, n) == Named[s][n] = {} \/ r \in Named[s][n]
Cached(r, s) ==
  {n \in messageCache[s] : /\ first[r][s] # 0 /\ n >= first[r][s]
                           /\ Replayable(r, s, n)}
Greatest(S) == IF S = {} THEN 0 ELSE CHOOSE n \in S : \A m \in S : m <= n
Replay(r) ==
  /\ r \in present
  /\ got' = [got EXCEPT ![r] = [s \in Senders |-> @[s] \cup Cached(r, s)]]
  /\ disordered' = (disordered \/ \E s \in Senders :
                      \E m \in got[r][s], n \in Cached(r, s) : m >= n)
  /\ written' = [written EXCEPT ![r] =
                   [s \in Senders |-> IF Greatest(Cached(r, s)) > @[s]
                                     THEN Greatest(Cached(r, s)) ELSE @[s]]]
  /\ first' = [first EXCEPT ![r] = [s \in Senders |-> 0]]
  /\ canWrite' = canWrite \cup {r}
  /\ UNCHANGED <<publisher, sendingVars, roomState, offered>>

\* The cache drops what is older than two seconds.
Prune(s) ==
  \E n \in messageCache[s] :
    LET old == {m \in messageCache[s] : m <= n} IN
    /\ messageCache' = [messageCache EXCEPT ![s] = @ \ old]
    /\ expired' = [expired EXCEPT ![s] = @ \cup old]
    /\ UNCHANGED <<publisher, sendingVars, present, receiver>>

DataNext ==
  \/ \E s \in Senders : \/ MessageArrives(s) \/ Resend(s) \/ Handle(s)
                        \/ CacheIt(s) \/ List(s) \/ Sent(s) \/ Prune(s)
                        \/ \E r \in Receivers : SendDataMessage(r, s)
  \/ \E r \in Receivers : JoinRoom(r) \/ Replay(r)

DataSpec == DataInit /\ [][DataNext]_dataVars

----------------------------------------------------------------------------
(* Properties.                                                             *)

DataTypes ==
  /\ awaited \subseteq Senders /\ gaveUp \subseteq Senders
  /\ present \subseteq Receivers /\ canWrite \subseteq present
  /\ \A s \in Senders :
       /\ next[s] \in Nat /\ last[s] \in Nat
       /\ step[s] \in {"none", "cache", "list", "send"}
       /\ unsent[s] \subseteq present
       /\ held[s] \subseteq Nat /\ toHandle[s] \subseteq Nat
       /\ refused[s] \subseteq Nat /\ kept[s] \subseteq Nat
       /\ messageCache[s] \subseteq forwarded[s] /\ forwarded[s] \subseteq Nat

\* What a publisher sends goes on without a gap, also from one node to the next and
\* however often it is sent again, unless the wait for what the other node had not was
\* given up: every number is forwarded or for the node itself, but for those that were
\* turned away before their number was looked at, and none is both.
Forwarded(s) == IF step[s] = "cache" THEN forwarded[s] \cup {last[s]} ELSE forwarded[s]
Passed(s) == Forwarded(s) \cup kept[s]
NothingSkipped ==
  \A s \in Senders :
    /\ Forwarded(s) \cap kept[s] = {}
    /\ s \notin gaveUp => /\ Passed(s) \subseteq (Came[s] + 1)..last[s]
                          /\ ((Came[s] + 1)..last[s]) \ refused[s] \subseteq Passed(s)

\* Each participant is sent the messages of a publisher in order and once, and once
\* it is connected none is missing of those that came for it while it was not,
\* unless the cache has dropped it meanwhile or, naming others by their identities, it
\* named this one by its id alone.
EachOnceInOrder ==
  /\ DataTypes
  /\ ~disordered
  /\ \A r \in canWrite, s \in Senders : \A n \in offered[r][s] :
       Replayable(r, s, n) => n \in got[r][s] \cup expired[s]

\* No message is sent to whom it is not addressed.  Not so: a message addressed by
\* participant ids is taken for one to everybody when it is sent from the cache.
OnlyAddressed ==
  \A r \in Receivers, s \in Senders : \A n \in got[r][s] : r \in Dest[s][n]

=============================================================================
