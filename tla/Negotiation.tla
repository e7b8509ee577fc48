----------------------------- MODULE Negotiation -----------------------------
(***************************************************************************)
(* Offer/answer negotiation of a peer connection (pkg/rtc/transport.go).   *)
(*                                                                         *)
(* A PCTransport handles its events one at a time from a queue.  The       *)
(* offerer is asked to negotiate whenever its tracks change, has at most   *)
(* one offer outstanding and remembers to make another (Retry); the        *)
(* answerer applies an offer and answers it, or keeps an offer that        *)
(* restarts ICE until its own gathering is over.  When the participant's   *)
(* signal connection is lost, what is under way on it is lost, and after   *)
(* the participant resumed the offerer is told to restart ICE.             *)
(*                                                                         *)
(* The two ends are a pair of PCTransports, as in transport_test.go; a     *)
(* client takes the part of either.  An offer is what it offers: the ICE   *)
(* credentials (a generation) and the track changes it covers.  An answer  *)
(* carries nothing the code acts on: its id is compared for a log message. *)
(* Left out: trickled candidates, unmatched media, migration, one-shot     *)
(* signalling, statistics.  External: pion, signalling, the client.        *)
(***************************************************************************)
EXTENDS Integers, Sequences, FiniteSets

CONSTANT
  MaxEvents  \* bound on track changes and losses of the signal connection together

ASSUME NegotiationAssumption == MaxEvents \in Nat

Sides == {"offerer", "answerer"}

Offer == [gen : Nat, changes : Nat]

NoOffer == [gen |-> 0, changes |-> 0]

VARIABLES
  changes,       \* track changes so far, each of which calls Negotiate
  debounce,      \* debouncePending
  events,        \* offerer's eventsQueue: "offer", "restart", "gathered", "answer"
  negotiation,   \* negotiationState: "none", "remote", "retry"
  afterGathering,\* restartAfterGathering
  nextOffer,     \* restartAtNextOffer
  signaling,     \* pc.SignalingState: "stable", "have-local-offer"
  local,         \* pc.LocalDescription
  answered       \* pc.CurrentRemoteDescription is there

offererVars == <<changes, debounce, events, negotiation, afterGathering, nextOffer,
                 signaling, local, answered>>

VARIABLES
  counter,       \* negotiateCounter
  timer,         \* the negotiation signalStateCheckTimer is armed for, or 0
  fired,         \* timers that went off and have yet to clear the timer
  checking       \* those that have yet to check the state

watchVars == <<counter, timer, fired, checking>>

VARIABLES
  incoming,      \* answerer's eventsQueue: offers; NoOffer is "gathered"
  remote,        \* pc.RemoteDescription of the answerer
  credential,    \* currentOfferIceCredential, 0 for ""
  pendingOffer   \* pendingRestartIceOffer

answererVars == <<incoming, remote, credential, pendingOffer>>

VARIABLES
  gathering,     \* per side: pc.ICEGatheringState "new", "gathering", "complete"
  offers,        \* offers on the signal connection
  answers,       \* number of answers on it
  link,          \* the signal connection: "up", "down", "resumed" (restart to come)
  losses,
  failed,        \* OnNegotiationFailed was called
  closed         \* the transports are closed

wireVars == <<offers, answers, link, losses>>

vars == <<offererVars, watchVars, answererVars, gathering, wireVars, failed, closed>>

Init ==
  /\ changes = 0
  /\ debounce = FALSE
  /\ events = <<>>
  /\ negotiation = "none"
  /\ afterGathering = FALSE
  /\ nextOffer = FALSE
  /\ signaling = "stable"
  /\ local = NoOffer
  /\ answered = FALSE
  /\ counter = 0
  /\ timer = 0
  /\ fired = {}
  /\ checking = {}
  /\ incoming = <<>>
  /\ remote = NoOffer
  /\ credential = 0
  /\ pendingOffer = NoOffer
  /\ gathering = [s \in Sides |-> "new"]
  /\ offers = <<>>
  /\ answers = 0
  /\ link = "up"
  /\ losses = 0
  /\ failed = FALSE
  /\ closed = FALSE

\* A negotiation that failed makes the participant reconnect from scratch,
\* which closes the transports: nothing they do until then is of interest.
Working == ~failed /\ ~closed

-----------------------------------------------------------------------------
(* Requests to negotiate.                                                  *)

\* A change of tracks calls Negotiate: forced, it cancels the debounced one and
\* posts; otherwise one debounced call covers all that come before it.
Negotiate(force) ==
  /\ Working
  /\ changes + losses < MaxEvents
  /\ changes' = changes + 1
  /\ debounce' = ~force
  /\ events' = IF force THEN Append(events, "offer") ELSE events
  /\ UNCHANGED <<negotiation, afterGathering, nextOffer, signaling, local, answered,
                 watchVars, answererVars, gathering, wireVars, failed, closed>>

\* The debounced call posts.
DebounceFires ==
  /\ Working
  /\ debounce
  /\ debounce' = FALSE
  /\ events' = Append(events, "offer")
  /\ UNCHANGED <<changes, negotiation, afterGathering, nextOffer, signaling, local,
                 answered, watchVars, answererVars, gathering, wireVars, failed, closed>>

-----------------------------------------------------------------------------
(* The offerer.                                                            *)

\* OnOffer writes an offer to the response sink; what is written to the sink of
\* a lost connection is lost, and a write may fail.
OnOffer(o) ==
  \/ /\ offers' = IF link = "down" THEN offers ELSE Append(offers, o)
     /\ failed' = failed
  \/ /\ offers' = offers
     /\ failed' = TRUE

\* createAndSendOffer, called with the negotiation state, the option to restart
\* ICE and the armed timer.  A negotiation that is under way is let finish.
CreateAndSendOffer(state, restart, armed) ==
  \/ /\ state # "none"
     /\ negotiation' = "retry"
     /\ timer' = armed
     /\ UNCHANGED <<nextOffer, signaling, local, counter, gathering, offers, failed>>
  \/ /\ state = "none"
     /\ negotiation' = "none"
     /\ nextOffer' = FALSE
     /\ signaling' = "stable"
     /\ timer' = armed
     /\ failed' = TRUE
     /\ UNCHANGED <<local, counter, gathering, offers>>
  \/ LET fresh == restart \/ nextOffer \/ local = NoOffer
         offer == [gen |-> IF fresh THEN local.gen + 1 ELSE local.gen, changes |-> changes]
     IN /\ state = "none"
        /\ negotiation' = "remote"
        /\ nextOffer' = FALSE
        /\ signaling' = "have-local-offer"
        /\ local' = offer
        /\ gathering' = IF fresh THEN [gathering EXCEPT !["offerer"] = "gathering"] ELSE gathering
        /\ counter' = counter + 1
        /\ timer' = counter + 1
        /\ OnOffer(offer)

Handles(e) ==
  /\ Working
  /\ events # <<>>
  /\ Head(events) = e
  /\ events' = Tail(events)

\* handleSendOffer.
HandleSendOffer ==
  /\ Handles("offer")
  /\ CreateAndSendOffer(negotiation, FALSE, timer)
  /\ UNCHANGED <<changes, debounce, afterGathering, answered, fired, checking,
                 answererVars, answers, link, losses, closed>>

\* handleRemoteAnswerReceived: an answer that pion refuses, as it does when no
\* offer is outstanding, is a failure.
AnswerRefused ==
  /\ Handles("answer")
  /\ timer' = 0
  /\ failed' = TRUE
  /\ UNCHANGED <<changes, debounce, negotiation, afterGathering, nextOffer, signaling,
                 local, answered, counter, fired, checking, answererVars, gathering,
                 wireVars, closed>>

\* Mutant: the negotiation that was put off does not follow.
MutHandleAnswer ==
  /\ Handles("answer")
  /\ signaling = "have-local-offer"
  /\ answered' = TRUE
  /\ negotiation' = "none"
  /\ signaling' = "stable"
  /\ timer' = 0
  /\ UNCHANGED <<changes, debounce, afterGathering, nextOffer, local, counter, fired,
                 checking, answererVars, gathering, wireVars, failed, closed>>

\* An answer settles the negotiation, and one that was put off follows.
HandleAnswer ==
  /\ Handles("answer")
  /\ signaling = "have-local-offer"
  /\ answered' = TRUE
  /\ IF negotiation = "retry"
     THEN CreateAndSendOffer("none", FALSE, 0)
     ELSE /\ negotiation' = "none"
          /\ signaling' = "stable"
          /\ timer' = 0
          /\ UNCHANGED <<nextOffer, local, counter, gathering, offers, failed>>
  /\ UNCHANGED <<changes, debounce, afterGathering, fired, checking, answererVars,
                 answers, link, losses, closed>>

\* Mutant: a negotiation under way is let finish.
MutDoICERestart ==
  \/ /\ gathering["offerer"] # "complete" \/ negotiation # "none"
     /\ UNCHANGED <<negotiation, nextOffer, signaling, local, counter, timer, gathering,
                    offers, failed>>
  \/ /\ gathering["offerer"] = "complete"
     /\ CreateAndSendOffer(negotiation, TRUE, timer)

\* doICERestart.  Without an answer ever, the outstanding offer is sent again
\* and the restart left to the next; otherwise the last answer is applied again
\* to end the outstanding negotiation, or that fails.
DoICERestart ==
  \/ /\ gathering["offerer"] # "complete"
     /\ UNCHANGED <<negotiation, nextOffer, signaling, local, counter, timer, gathering,
                    offers, failed>>
  \/ /\ gathering["offerer"] = "complete"
     /\ negotiation = "none" \/ answered
     /\ CreateAndSendOffer("none", TRUE, timer)
  \/ /\ gathering["offerer"] = "complete"
     /\ negotiation # "none" /\ ~answered
     /\ negotiation' = "retry"
     /\ nextOffer' = TRUE
     /\ OnOffer(local)
     /\ UNCHANGED <<signaling, local, counter, timer, gathering>>
  \/ /\ gathering["offerer"] = "complete"
     /\ negotiation # "none" /\ answered
     /\ failed' = TRUE
     /\ UNCHANGED <<negotiation, nextOffer, signaling, local, counter, timer, gathering,
                    offers>>

\* handleICERestart; while gathering the restart is put off.
HandleICERestart ==
  /\ Handles("restart")
  /\ afterGathering' = (afterGathering \/ gathering["offerer"] = "gathering")
  /\ DoICERestart
  /\ UNCHANGED <<changes, debounce, answered, fired, checking, answererVars, answers,
                 link, losses, closed>>

\* handleICEGatheringCompleteOfferer.
HandleGathered ==
  /\ Handles("gathered")
  /\ afterGathering' = (afterGathering /\ gathering["offerer"] = "gathering")
  /\ IF afterGathering
     THEN DoICERestart
     ELSE UNCHANGED <<negotiation, nextOffer, signaling, local, counter, timer,
                      gathering, offers, failed>>
  /\ UNCHANGED <<changes, debounce, answered, fired, checking, answererVars, answers,
                 link, losses, closed>>

-----------------------------------------------------------------------------
(* The timer of setupSignalStateCheckTimer, on a goroutine of its own.     *)

TimerFires ==
  /\ Working
  /\ timer # 0
  /\ fired' = fired \cup {timer}
  /\ timer' = 0
  /\ UNCHANGED <<offererVars, counter, checking, answererVars, gathering, wireVars,
                 failed, closed>>

\* It clears whatever timer there is by now.
TimerClears(n) ==
  /\ Working
  /\ n \in fired
  /\ fired' = fired \ {n}
  /\ checking' = checking \cup {n}
  /\ timer' = 0
  /\ UNCHANGED <<offererVars, counter, answererVars, gathering, wireVars, failed, closed>>

\* It reports the failure of its negotiation if it is connected, as it is once
\* it was answered: a connection that breaks later is reported by its own timers.
TimerChecks(n) ==
  /\ Working
  /\ n \in checking
  /\ checking' = checking \ {n}
  /\ failed' = (failed \/ (~closed /\ answered /\ negotiation # "none" /\ n = counter))
  /\ UNCHANGED <<offererVars, counter, timer, fired, answererVars, gathering, wireVars, closed>>

-----------------------------------------------------------------------------
(* The answerer.                                                           *)

\* setRemoteDescription and createAndSendAnswer.  New credentials restart ICE at
\* this end too.  Either may fail, at pion or at the signal connection.
ApplyOffer(o) ==
  \/ /\ remote' = o
     /\ gathering' = IF remote.gen # o.gen
                     THEN [gathering EXCEPT !["answerer"] = "gathering"]
                     ELSE gathering
     /\ answers' = IF link = "down" THEN answers ELSE answers + 1
     /\ failed' = failed
  \/ /\ failed' = TRUE
     /\ UNCHANGED <<remote, gathering, answers>>

\* isRemoteOfferRestartICE.
IsRestart(o) == credential # 0 /\ credential # o.gen

\* handleRemoteOfferReceived; an offer that restarts ICE waits for gathering.
HandleOffer ==
  /\ Working
  /\ incoming # <<>>
  /\ LET o == Head(incoming) IN
       /\ o # NoOffer
       /\ IF IsRestart(o) /\ gathering["answerer"] = "gathering"
          THEN /\ pendingOffer' = o
               /\ UNCHANGED <<remote, credential, gathering, answers, failed>>
          ELSE /\ ApplyOffer(o)
               /\ credential' = IF credential = 0 \/ IsRestart(o) THEN o.gen ELSE credential
               /\ pendingOffer' = pendingOffer
  /\ incoming' = Tail(incoming)
  /\ UNCHANGED <<offererVars, watchVars, offers, link, losses, closed>>

\* Mutant: the offer is cleared before it is applied.
MutHandleGatheredAnswerer ==
  /\ Working
  /\ incoming # <<>>
  /\ Head(incoming) = NoOffer
  /\ incoming' = Tail(incoming)
  /\ pendingOffer' = NoOffer
  /\ UNCHANGED <<offererVars, watchVars, remote, credential, gathering, wireVars, failed,
                 closed>>

\* handleICEGatheringCompleteAnswerer.
HandleGatheredAnswerer ==
  /\ Working
  /\ incoming # <<>>
  /\ Head(incoming) = NoOffer
  /\ incoming' = Tail(incoming)
  /\ pendingOffer' = NoOffer
  /\ IF pendingOffer # NoOffer
     THEN ApplyOffer(pendingOffer)
     ELSE UNCHANGED <<remote, gathering, answers, failed>>
  /\ UNCHANGED <<offererVars, watchVars, credential, offers, link, losses, closed>>

-----------------------------------------------------------------------------
(* ICE gathering, signalling, and the end.                                 *)

\* onICEGatheringStateChange.
GatheringCompletes(s) ==
  /\ Working
  /\ gathering[s] = "gathering"
  /\ gathering' = [gathering EXCEPT ![s] = "complete"]
  /\ events' = IF s = "offerer" THEN Append(events, "gathered") ELSE events
  /\ incoming' = IF s = "answerer" THEN Append(incoming, NoOffer) ELSE incoming
  /\ UNCHANGED <<changes, debounce, negotiation, afterGathering, nextOffer, signaling,
                 local, answered, watchVars, remote, credential, pendingOffer, wireVars,
                 failed, closed>>

\* HandleRemoteDescription posts what arrives.
DeliverOffer ==
  /\ Working
  /\ offers # <<>>
  /\ incoming' = Append(incoming, Head(offers))
  /\ offers' = Tail(offers)
  /\ UNCHANGED <<offererVars, watchVars, remote, credential, pendingOffer, gathering,
                 answers, link, losses, failed, closed>>

DeliverAnswer ==
  /\ Working
  /\ answers > 0
  /\ events' = Append(events, "answer")
  /\ answers' = answers - 1
  /\ UNCHANGED <<changes, debounce, negotiation, afterGathering, nextOffer, signaling,
                 local, answered, watchVars, answererVars, gathering, offers, link,
                 losses, failed, closed>>

\* The signal connection is lost with the offers on it and some of the answers:
\* others are with the old worker already, which still hands them on.
LinkLost ==
  /\ Working
  /\ link = "up"
  /\ changes + losses < MaxEvents
  /\ link' = "down"
  /\ losses' = losses + 1
  /\ offers' = <<>>
  /\ answers' \in 0..answers
  /\ UNCHANGED <<offererVars, watchVars, answererVars, gathering, failed, closed>>

\* ResumeParticipant puts the new connection in place, and restarts ICE after
\* it has sent a number of messages.
Resume ==
  /\ Working
  /\ link = "down"
  /\ link' = "resumed"
  /\ UNCHANGED <<offererVars, watchVars, answererVars, gathering, offers, answers,
                 losses, failed, closed>>

ICERestart ==
  /\ Working
  /\ link = "resumed"
  /\ link' = "up"
  /\ events' = Append(events, "restart")
  /\ UNCHANGED <<changes, debounce, negotiation, afterGathering, nextOffer, signaling,
                 local, answered, watchVars, answererVars, gathering, offers, answers,
                 losses, failed, closed>>

\* Close stops the queues, whatever is on them, and the timer.
Close ==
  /\ Working
  /\ closed' = TRUE
  /\ events' = <<>>
  /\ incoming' = <<>>
  /\ timer' = 0
  /\ UNCHANGED <<changes, debounce, negotiation, afterGathering, nextOffer, signaling,
                 local, answered, counter, fired, checking, remote, credential,
                 pendingOffer, gathering, wireVars, failed>>

-----------------------------------------------------------------------------
OffererStep == HandleSendOffer \/ HandleAnswer \/ AnswerRefused \/ HandleICERestart \/ HandleGathered

AnswererStep == HandleOffer \/ HandleGatheredAnswerer

TimerStep == TimerFires \/ (\E n \in fired : TimerClears(n)) \/ (\E n \in checking : TimerChecks(n))

Next ==
  \/ \E force \in BOOLEAN : Negotiate(force)
  \/ DebounceFires
  \/ HandleSendOffer \/ HandleAnswer \/ AnswerRefused \/ HandleICERestart \/ HandleGathered
  \/ TimerStep
  \/ HandleOffer \/ HandleGatheredAnswerer
  \/ \E s \in Sides : GatheringCompletes(s)
  \/ DeliverOffer \/ DeliverAnswer \/ LinkLost \/ Resume \/ ICERestart \/ Close

\* Queues are worked off, gathering ends, a live connection delivers, timers of
\* the debouncer fire, and a resuming participant gets its restart.
Fairness ==
  /\ WF_vars(OffererStep) /\ WF_vars(AnswererStep)
  /\ WF_vars(DebounceFires) /\ WF_vars(ICERestart)
  /\ WF_vars(DeliverOffer) /\ WF_vars(DeliverAnswer)
  /\ \A s \in Sides : WF_vars(GatheringCompletes(s))

Spec == Init /\ [][Next]_vars

FairSpec == Spec /\ Fairness

-----------------------------------------------------------------------------
(* Properties.                                                             *)

TypeOK ==
  /\ changes \in Nat
  /\ debounce \in BOOLEAN
  /\ events \in Seq({"offer", "restart", "gathered", "answer"})
  /\ negotiation \in {"none", "remote", "retry"}
  /\ afterGathering \in BOOLEAN
  /\ nextOffer \in BOOLEAN
  /\ signaling \in {"stable", "have-local-offer"}
  /\ local \in Offer
  /\ answered \in BOOLEAN
  /\ counter \in Nat
  /\ timer \in Nat
  /\ fired \subseteq Nat
  /\ checking \subseteq Nat
  /\ incoming \in Seq(Offer)
  /\ remote \in Offer
  /\ credential \in Nat
  /\ pendingOffer \in Offer
  /\ gathering \in [Sides -> {"new", "gathering", "complete"}]
  /\ offers \in Seq(Offer)
  /\ answers \in Nat
  /\ link \in {"up", "down", "resumed"}
  /\ losses \in Nat
  /\ failed \in BOOLEAN
  /\ closed \in BOOLEAN

Posted(e) == \E i \in 1..Len(events) : events[i] = e

\* A change that no offer covers yet is not forgotten: a debounced call or an
\* event will negotiate it, or the outstanding negotiation will be retried.
RequestKept ==
  Working /\ local.changes # changes =>
    debounce \/ Posted("offer") \/ negotiation = "retry"

\* The transport waits for an answer exactly while pion has an offer
\* outstanding, so a restart finds the offer it sends again.
StateAgrees ==
  /\ (negotiation = "none") <=> (signaling = "stable")
  /\ (gathering["offerer"] = "new") <=> (local = NoOffer)
  /\ local = NoOffer \/ local.gen > 0
  /\ negotiation # "none" => local # NoOffer

\* A restart put off by gathering is taken up when it is over.
RestartKept ==
  ~closed /\ afterGathering => gathering["offerer"] = "gathering" \/ Posted("gathered")

NegotiationInv == TypeOK /\ RequestKept /\ StateAgrees /\ RestartKept

\* Nothing is under way any more.
Settled ==
  /\ Working /\ link = "up"
  /\ events = <<>> /\ incoming = <<>> /\ offers = <<>> /\ answers = 0
  /\ ~debounce
  /\ \A s \in Sides : gathering[s] # "gathering"

\* When nothing is under way, the negotiation is over and both ends agree on
\* the last offer, which covers all changes, whatever was lost, put off, sent
\* twice or answered late before.
SettledAgrees ==
  Settled => negotiation = "none" /\ remote = local /\ local.changes = changes

\* Why: an outstanding offer is owed an answer, which is on its way unless a restart
\* will see to it.  More answers than are owed make the negotiation fail in the end;
\* when there are as many, they answer the last offer.
Count(s, S) == Cardinality({i \in DOMAIN s : s[i] \in S})
RealOffer == Offer \ {NoOffer}

InFlight ==
  Len(offers) + Count(incoming, RealOffer) + (IF pendingOffer = NoOffer THEN 0 ELSE 1)
    + answers + Count(events, {"answer"})
Owed == IF negotiation = "none" THEN 0 ELSE 1

Recovers == link # "up" \/ Posted("restart") \/ afterGathering

LastIncoming(i) ==
  incoming[i] # NoOffer /\ \A j \in DOMAIN incoming : j > i => incoming[j] = NoOffer

LastIsLocal ==
  IF offers # <<>> THEN offers[Len(offers)] = local
  ELSE \A i \in DOMAIN incoming : LastIncoming(i) => incoming[i] = local

LastIsAnswered ==
  /\ pendingOffer # NoOffer => pendingOffer = local
  /\ offers = <<>> /\ Count(incoming, RealOffer) = 0 /\ pendingOffer = NoOffer
       => remote = local

SentReal == \A i \in DOMAIN offers : offers[i] # NoOffer

Untouched == Working /\ local = NoOffer => InFlight = 0 /\ remote = NoOffer

PendingKept ==
  Working /\ pendingOffer # NoOffer =>
    gathering["answerer"] = "gathering" \/ \E i \in DOMAIN incoming : incoming[i] = NoOffer

Accounted ==
  Working /\ ~Recovers =>
    /\ InFlight >= Owed
    /\ LastIsLocal
    /\ InFlight = Owed => LastIsAnswered

FlightInv == SentReal /\ Untouched /\ PendingKept /\ Accounted

\* The other end gets to know every change in the end, unless the negotiation
\* fails or the signal connection stays away.
ChangesReachPeer == []<>(remote.changes = changes \/ failed \/ closed \/ link = "down")

\* A connection whose offer stays without an answer is found to have failed
\* (transport_test.go 392-395): a timer watches every outstanding negotiation,
\* or has gone off for it and has not judged it yet.
NegotiationWatched ==
  Working /\ answered /\ negotiation # "none" =>
    timer = counter \/ counter \in fired \cup checking
=============================================================================
