-------------------------- MODULE NegotiationProofs --------------------------
(***************************************************************************)
(* Proofs about Negotiation: its invariant, and that the ends agree when   *)
(* nothing is under way, for any number of track changes and losses of the *)
(* signal connection.                                                      *)
(***************************************************************************)
EXTENDS Negotiation, SequenceTheorems, FunctionTheorems, FiniteSetTheorems, TLAPS

-----------------------------------------------------------------------------
(* Lemmas about the event queue and the operators the actions share.       *)

Signals == {"offer", "restart", "gathered", "answer"}

\* Appending keeps what is in a sequence and adds the new element.
LEMMA AppendHas ==
  ASSUME NEW S, NEW s \in Seq(S), NEW x \in S, NEW e,
         e = x \/ \E i \in 1..Len(s) : s[i] = e
  PROVE  \E i \in 1..Len(Append(s, x)) : Append(s, x)[i] = e
<1>1. /\ Len(s) \in Nat
      /\ Len(Append(s, x)) = Len(s) + 1
      /\ \A i \in 1..Len(s) : Append(s, x)[i] = s[i]
      /\ Append(s, x)[Len(s) + 1] = x
  BY AppendProperties, LenProperties
<1>2. CASE e = x
  BY <1>1, <1>2
<1>3. CASE \E i \in 1..Len(s) : s[i] = e
  BY <1>1, <1>3
<1> QED
  BY <1>2, <1>3

\* Taking the head off keeps everything else.
LEMMA TailHas ==
  ASSUME NEW S, NEW s \in Seq(S), s # <<>>, NEW e, e # Head(s),
         \E i \in 1..Len(s) : s[i] = e
  PROVE  \E i \in 1..Len(Tail(s)) : Tail(s)[i] = e
<1>1. /\ Len(s) \in Nat \ {0}
      /\ Head(s) = s[1]
      /\ Len(Tail(s)) = Len(s) - 1
      /\ \A i \in 1..Len(Tail(s)) : Tail(s)[i] = s[i + 1]
  BY HeadTailProperties, EmptySeq, LenProperties
<1>2. PICK i \in 1..Len(s) : s[i] = e
  OBVIOUS
<1>3. i # 1 /\ i - 1 \in 1..Len(Tail(s)) /\ Tail(s)[i - 1] = s[i]
  BY <1>1, <1>2
<1> QED
  BY <1>2, <1>3

\* An event that is posted while another is handled stays posted.
LEMMA HandledKeeps ==
  ASSUME TypeOK, NEW x, Handles(x)
  PROVE  /\ events' \in Seq(Signals)
         /\ \A e : Posted(e) /\ e # x => Posted(e)'
<1>1. events \in Seq(Signals) /\ events # <<>> /\ Head(events) = x /\ events' = Tail(events)
  BY DEF TypeOK, Handles, Signals
<1>2. events' \in Seq(Signals)
  BY <1>1, HeadTailProperties
<1>3. ASSUME NEW e, Posted(e), e # x
      PROVE  Posted(e)'
  <2>1. \E i \in 1..Len(events) : events[i] = e
    BY <1>3 DEF Posted
  <2>2. \E i \in 1..Len(Tail(events)) : Tail(events)[i] = e
    BY <1>1, <1>3, <2>1, TailHas
  <2> QED
    BY <1>1, <2>2 DEF Posted
<1> QED
  BY <1>2, <1>3

\* Posting keeps what was posted.
LEMMA PostKeeps ==
  ASSUME TypeOK, NEW x \in Signals, events' = Append(events, x)
  PROVE  /\ events' \in Seq(Signals)
         /\ Posted(x)'
         /\ \A e : Posted(e) => Posted(e)'
<1>1. events \in Seq(Signals)
  BY DEF TypeOK, Signals
<1>2. events' \in Seq(Signals)
  BY <1>1, AppendProperties
<1>3. ASSUME NEW e, e = x \/ Posted(e)
      PROVE  Posted(e)'
  <2>1. e = x \/ \E i \in 1..Len(events) : events[i] = e
    BY <1>3 DEF Posted
  <2>2. \E i \in 1..Len(Append(events, x)) : Append(events, x)[i] = e
    BY <1>1, <2>1, AppendHas
  <2> QED
    BY <2>2 DEF Posted
<1> QED
  BY <1>2, <1>3

\* The types of what createAndSendOffer and doICERestart may change.
OffererTypes ==
  /\ negotiation \in {"none", "remote", "retry"}
  /\ nextOffer \in BOOLEAN
  /\ signaling \in {"stable", "have-local-offer"}
  /\ local \in Offer
  /\ counter \in Nat
  /\ timer \in Nat
  /\ gathering \in [Sides -> {"new", "gathering", "complete"}]
  /\ offers \in Seq(Offer)
  /\ failed \in BOOLEAN

\* What OnOffer leaves of the signal connection.
LEMMA OnOfferTypes ==
  ASSUME TypeOK, NEW o \in Offer, OnOffer(o)
  PROVE  offers' \in Seq(Offer) /\ failed' \in BOOLEAN
<1>1. offers \in Seq(Offer) /\ failed \in BOOLEAN
  BY DEF TypeOK
<1>2. Append(offers, o) \in Seq(Offer)
  BY <1>1, AppendProperties
<1> QED
  BY <1>1, <1>2 DEF OnOffer

\* createAndSendOffer leaves a negotiation that covers all changes, one that
\* will be retried, or a failure.
LEMMA CreateEffect ==
  ASSUME TypeOK, StateAgrees,
         NEW state \in {"none", "remote", "retry"}, NEW restart \in BOOLEAN, NEW armed \in Nat,
         state = "none" \/ state = negotiation,
         CreateAndSendOffer(state, restart, armed)
  PROVE  /\ OffererTypes'
         /\ StateAgrees'
         /\ failed' \/ negotiation' = "retry" \/ local'.changes = changes
         /\ gathering'["offerer"] \in {gathering["offerer"], "gathering"}
<1>t. /\ changes \in Nat /\ local \in Offer /\ counter \in Nat /\ failed \in BOOLEAN
      /\ nextOffer \in BOOLEAN /\ signaling \in {"stable", "have-local-offer"}
      /\ gathering \in [Sides -> {"new", "gathering", "complete"}]
      /\ offers \in Seq(Offer) /\ "offerer" \in Sides
  BY DEF TypeOK, Sides
<1>1. CASE /\ state # "none"
           /\ negotiation' = "retry"
           /\ timer' = armed
           /\ UNCHANGED <<nextOffer, signaling, local, counter, gathering, offers, failed>>
  <2>1. OffererTypes'
    BY <1>t, <1>1 DEF OffererTypes
  <2>2. StateAgrees'
    BY <1>1 DEF StateAgrees
  <2> QED
    BY <1>t, <1>1, <2>1, <2>2
<1>2. CASE /\ state = "none"
           /\ negotiation' = "none"
           /\ nextOffer' = FALSE
           /\ signaling' = "stable"
           /\ timer' = armed
           /\ failed' = TRUE
           /\ UNCHANGED <<local, counter, gathering, offers>>
  <2>1. OffererTypes'
    BY <1>t, <1>2 DEF OffererTypes
  <2>2. StateAgrees'
    BY <1>2 DEF StateAgrees
  <2> QED
    BY <1>t, <1>2, <2>1, <2>2
<1> DEFINE fresh == restart \/ nextOffer \/ local = NoOffer
           offer == [gen |-> IF fresh THEN local.gen + 1 ELSE local.gen, changes |-> changes]
<1>3. CASE /\ state = "none"
           /\ negotiation' = "remote"
           /\ nextOffer' = FALSE
           /\ signaling' = "have-local-offer"
           /\ local' = offer
           /\ gathering' = IF fresh THEN [gathering EXCEPT !["offerer"] = "gathering"] ELSE gathering
           /\ counter' = counter + 1
           /\ timer' = counter + 1
           /\ OnOffer(offer)
  <2>1. local.gen \in Nat /\ (local # NoOffer => local.gen > 0)
    BY <1>t DEF Offer, StateAgrees
  <2>2. offer \in Offer /\ offer.changes = changes /\ offer.gen > 0
    BY <1>t, <2>1 DEF Offer
  <2>3. offers' \in Seq(Offer) /\ failed' \in BOOLEAN
    BY <1>3, <2>2, OnOfferTypes
  <2>r. /\ negotiation' \in {"none", "remote", "retry"} /\ nextOffer' \in BOOLEAN
        /\ signaling' \in {"stable", "have-local-offer"} /\ local' \in Offer
        /\ counter' \in Nat /\ timer' \in Nat
    <3>1. local' \in Offer
      BY <1>3, <2>2
    <3>2. counter' \in Nat /\ timer' \in Nat
      BY <1>t, <1>3
    <3> HIDE DEF offer, fresh
    <3> QED
      BY <1>3, <3>1, <3>2
  <2>4. CASE fresh
    <3>1. /\ gathering' = [gathering EXCEPT !["offerer"] = "gathering"]
          /\ gathering' \in [Sides -> {"new", "gathering", "complete"}]
          /\ gathering'["offerer"] = "gathering"
      BY <1>t, <1>3, <2>4
    <3>2. StateAgrees'
      BY <1>3, <2>2, <3>1 DEF StateAgrees, NoOffer
    <3>3. OffererTypes'
      BY <1>t, <2>r, <2>3, <3>1 DEF OffererTypes
    <3> QED
      BY <1>3, <2>2, <3>1, <3>2, <3>3
  <2>5. CASE ~fresh
    <3>1. gathering' = gathering /\ local # NoOffer
      BY <1>3, <2>5
    <3>2. StateAgrees'
      BY <1>3, <2>2, <3>1 DEF StateAgrees, NoOffer
    <3>3. OffererTypes'
      BY <1>t, <2>r, <2>3, <3>1 DEF OffererTypes
    <3> QED
      BY <1>3, <2>2, <3>1, <3>2, <3>3
  <2> QED
    BY <2>4, <2>5
<1> QED
  BY <1>1, <1>2, <1>3 DEF CreateAndSendOffer

\* doICERestart does nothing before or during gathering, and otherwise what
\* createAndSendOffer does.
LEMMA RestartEffect ==
  ASSUME TypeOK, StateAgrees, DoICERestart
  PROVE  /\ OffererTypes'
         /\ StateAgrees'
         /\ gathering["offerer"] # "complete" =>
              UNCHANGED <<negotiation, local, gathering, failed>>
         /\ gathering["offerer"] = "complete" =>
              failed' \/ negotiation' = "retry" \/ local'.changes = changes
<1>t. OffererTypes /\ local \in Offer /\ timer \in Nat
  BY DEF TypeOK, OffererTypes
<1>1. CASE /\ gathering["offerer"] # "complete"
           /\ UNCHANGED <<negotiation, nextOffer, signaling, local, counter, timer,
                          gathering, offers, failed>>
  BY <1>t, <1>1 DEF OffererTypes, StateAgrees
<1>2. CASE /\ gathering["offerer"] = "complete"
           /\ negotiation = "none" \/ answered
           /\ CreateAndSendOffer("none", TRUE, timer)
  BY <1>t, <1>2, CreateEffect
<1>3. CASE /\ gathering["offerer"] = "complete"
           /\ negotiation # "none" /\ ~answered
           /\ negotiation' = "retry"
           /\ nextOffer' = TRUE
           /\ OnOffer(local)
           /\ UNCHANGED <<signaling, local, counter, timer, gathering>>
  <2>1. offers' \in Seq(Offer) /\ failed' \in BOOLEAN
    BY <1>t, <1>3, OnOfferTypes
  <2>2. OffererTypes'
    BY <1>t, <1>3, <2>1 DEF OffererTypes
  <2>3. StateAgrees'
    BY <1>3 DEF StateAgrees
  <2> QED
    BY <1>3, <2>2, <2>3
<1>4. CASE /\ gathering["offerer"] = "complete"
           /\ negotiation # "none" /\ answered
           /\ failed' = TRUE
           /\ UNCHANGED <<negotiation, nextOffer, signaling, local, counter, timer,
                          gathering, offers>>
  BY <1>t, <1>4 DEF OffererTypes, StateAgrees
<1> QED
  BY <1>1, <1>2, <1>3, <1>4 DEF DoICERestart

\* What ApplyOffer leaves of the answerer.
LEMMA ApplyTypes ==
  ASSUME TypeOK, NEW o \in Offer, ApplyOffer(o)
  PROVE  /\ remote' \in Offer /\ answers' \in Nat /\ failed' \in BOOLEAN
         /\ gathering' \in [Sides -> {"new", "gathering", "complete"}]
         /\ gathering'["offerer"] = gathering["offerer"]
         /\ failed => failed'
<1>1. /\ remote \in Offer /\ answers \in Nat /\ failed \in BOOLEAN
      /\ gathering \in [Sides -> {"new", "gathering", "complete"}]
      /\ "answerer" \in Sides /\ "offerer" \in Sides /\ "answerer" # "offerer"
  BY DEF TypeOK, Sides
<1>2. DEFINE g == [gathering EXCEPT !["answerer"] = "gathering"]
<1>3. g \in [Sides -> {"new", "gathering", "complete"}] /\ g["offerer"] = gathering["offerer"]
  BY <1>1
<1>4. gathering' \in {gathering, g}
  BY DEF ApplyOffer
<1> HIDE DEF g
<1>5. \/ /\ remote' = o /\ failed' = failed
         /\ answers' = IF link = "down" THEN answers ELSE answers + 1
      \/ failed' = TRUE /\ remote' = remote /\ answers' = answers
  BY DEF ApplyOffer
<1>6. remote' \in Offer /\ answers' \in Nat
  BY <1>1, <1>5
<1>7. failed' \in BOOLEAN /\ (failed => failed')
  BY <1>1, <1>5, Zenon
<1> QED
  BY <1>1, <1>3, <1>4, <1>6, <1>7

-----------------------------------------------------------------------------
(* The parts of the invariant, one step per action.                        *)

\* Every action keeps the types.
LEMMA TypeOKPreserved ==
  ASSUME TypeOK, StateAgrees, [Next]_vars
  PROVE  TypeOK'
<1>1. ASSUME NEW force \in BOOLEAN, Negotiate(force)
      PROVE  TypeOK'
  <2>1. events' \in Seq(Signals)
    <3>1. CASE force
      BY <1>1, <3>1, PostKeeps DEF Negotiate, Signals
    <3>2. CASE ~force
      BY <1>1, <3>2 DEF Negotiate, Signals, TypeOK
    <3> QED
      BY <3>1, <3>2
  <2> QED
    BY <1>1, <2>1 DEF TypeOK, Negotiate, Signals, offererVars, watchVars, answererVars, wireVars
<1>2. CASE DebounceFires
  <2>1. events' \in Seq(Signals)
    BY <1>2, PostKeeps DEF DebounceFires, Signals
  <2> QED
    BY <1>2, <2>1 DEF TypeOK, DebounceFires, Signals, offererVars, watchVars, answererVars, wireVars
<1>3. CASE HandleSendOffer
  <2>1. events' \in Seq(Signals)
    BY <1>3, HandledKeeps DEF HandleSendOffer
  <2>2. OffererTypes'
    BY <1>3, CreateEffect DEF HandleSendOffer, TypeOK
  <2>3. afterGathering' \in BOOLEAN /\ answered' \in BOOLEAN
    BY <1>3, Zenon DEF TypeOK, HandleSendOffer
  <2>4. UNCHANGED <<changes, debounce, fired, checking, incoming, remote, credential,
                   pendingOffer, answers, link, losses, closed>>
    BY <1>3 DEF HandleSendOffer, answererVars, wireVars
  <2> QED
    BY <2>1, <2>2, <2>3, <2>4 DEF TypeOK, OffererTypes, Signals
<1>4. CASE AnswerRefused
  <2>1. events' \in Seq(Signals)
    BY <1>4, HandledKeeps DEF AnswerRefused
  <2>2. OffererTypes'
    BY <1>4 DEF TypeOK, OffererTypes, AnswerRefused, wireVars
  <2>3. afterGathering' \in BOOLEAN /\ answered' \in BOOLEAN
    BY <1>4, Zenon DEF TypeOK, AnswerRefused
  <2>4. UNCHANGED <<changes, debounce, fired, checking, incoming, remote, credential,
                   pendingOffer, answers, link, losses, closed>>
    BY <1>4 DEF AnswerRefused, answererVars, wireVars
  <2> QED
    BY <2>1, <2>2, <2>3, <2>4 DEF TypeOK, OffererTypes, Signals
<1>5. CASE HandleAnswer
  <2>1. events' \in Seq(Signals)
    BY <1>5, HandledKeeps DEF HandleAnswer
  <2>2. OffererTypes'
    <3>1. CASE negotiation = "retry"
      BY <1>5, <3>1, CreateEffect DEF HandleAnswer
    <3>2. CASE negotiation # "retry"
      BY <1>5, <3>2 DEF HandleAnswer, TypeOK, OffererTypes
    <3> QED
      BY <3>1, <3>2
  <2>3. afterGathering' \in BOOLEAN /\ answered' \in BOOLEAN
    BY <1>5, Zenon DEF TypeOK, HandleAnswer
  <2>4. UNCHANGED <<changes, debounce, fired, checking, incoming, remote, credential,
                   pendingOffer, answers, link, losses, closed>>
    BY <1>5 DEF HandleAnswer, answererVars, wireVars
  <2> QED
    BY <2>1, <2>2, <2>3, <2>4 DEF TypeOK, OffererTypes, Signals
<1>6. CASE HandleICERestart
  <2>1. events' \in Seq(Signals)
    BY <1>6, HandledKeeps DEF HandleICERestart
  <2>2. OffererTypes'
    BY <1>6, RestartEffect DEF HandleICERestart
  <2>3. afterGathering' \in BOOLEAN /\ answered' \in BOOLEAN
    BY <1>6, Zenon DEF TypeOK, HandleICERestart
  <2>4. UNCHANGED <<changes, debounce, fired, checking, incoming, remote, credential,
                   pendingOffer, answers, link, losses, closed>>
    BY <1>6 DEF HandleICERestart, answererVars, wireVars
  <2> QED
    BY <2>1, <2>2, <2>3, <2>4 DEF TypeOK, OffererTypes, Signals
<1>7. CASE HandleGathered
  <2>1. events' \in Seq(Signals)
    BY <1>7, HandledKeeps DEF HandleGathered
  <2>2. OffererTypes'
    <3>1. CASE afterGathering
      BY <1>7, <3>1, RestartEffect DEF HandleGathered
    <3>2. CASE ~afterGathering
      BY <1>7, <3>2 DEF HandleGathered, TypeOK, OffererTypes
    <3> QED
      BY <3>1, <3>2
  <2>3. afterGathering' \in BOOLEAN /\ answered' \in BOOLEAN
    BY <1>7, Zenon DEF TypeOK, HandleGathered
  <2>4. UNCHANGED <<changes, debounce, fired, checking, incoming, remote, credential,
                   pendingOffer, answers, link, losses, closed>>
    BY <1>7 DEF HandleGathered, answererVars, wireVars
  <2> QED
    BY <2>1, <2>2, <2>3, <2>4 DEF TypeOK, OffererTypes, Signals
<1>8. CASE TimerFires
  BY <1>8 DEF TypeOK, TimerFires, offererVars, watchVars, answererVars, wireVars
<1>9. ASSUME NEW n \in fired, TimerClears(n)
      PROVE  TypeOK'
  BY <1>9 DEF TypeOK, TimerClears, offererVars, watchVars, answererVars, wireVars
<1>10. ASSUME NEW n \in checking, TimerChecks(n)
      PROVE  TypeOK'
  <2>1. failed' \in BOOLEAN
    BY <1>10, Zenon DEF TypeOK, TimerChecks
  <2> QED
    BY <1>10, <2>1 DEF TypeOK, TimerChecks, offererVars, watchVars, answererVars, wireVars
<1>11. CASE HandleOffer
  <2> DEFINE o == Head(incoming)
  <2>1. o \in Offer /\ incoming' \in Seq(Offer)
    BY <1>11, HeadTailProperties DEF HandleOffer, TypeOK
  <2>2. /\ remote' \in Offer /\ credential' \in Nat /\ pendingOffer' \in Offer
        /\ answers' \in Nat /\ failed' \in BOOLEAN
        /\ gathering' \in [Sides -> {"new", "gathering", "complete"}]
    <3>1. CASE IsRestart(o) /\ gathering["answerer"] = "gathering"
      BY <1>11, <2>1, <3>1 DEF HandleOffer, TypeOK
    <3>2. CASE ~(IsRestart(o) /\ gathering["answerer"] = "gathering")
      <4>1. /\ ApplyOffer(o) /\ pendingOffer' = pendingOffer
            /\ credential' \in {o.gen, credential}
        BY <1>11, <3>2 DEF HandleOffer
      <4>2. o.gen \in Nat /\ credential \in Nat /\ pendingOffer \in Offer
        BY <2>1 DEF Offer, TypeOK
      <4> QED
        BY <2>1, <4>1, <4>2, ApplyTypes
    <3> QED
      BY <3>1, <3>2
  <2>3. UNCHANGED <<offererVars, watchVars, offers, link, losses, closed>>
    BY <1>11 DEF HandleOffer
  <2> QED
    BY <2>1, <2>2, <2>3 DEF TypeOK, offererVars, watchVars
<1>12. CASE HandleGatheredAnswerer
  <2>1. incoming' \in Seq(Offer) /\ pendingOffer' \in Offer
    BY <1>12, HeadTailProperties DEF HandleGatheredAnswerer, TypeOK, NoOffer, Offer
  <2>2. /\ remote' \in Offer /\ answers' \in Nat /\ failed' \in BOOLEAN
        /\ gathering' \in [Sides -> {"new", "gathering", "complete"}]
    <3>1. CASE pendingOffer # NoOffer
      BY <1>12, <3>1, ApplyTypes DEF HandleGatheredAnswerer, TypeOK
    <3>2. CASE pendingOffer = NoOffer
      BY <1>12, <3>2 DEF HandleGatheredAnswerer, TypeOK
    <3> QED
      BY <3>1, <3>2
  <2>3. UNCHANGED <<offererVars, watchVars, credential, offers, link, losses, closed>>
    BY <1>12 DEF HandleGatheredAnswerer
  <2> QED
    BY <2>1, <2>2, <2>3 DEF TypeOK, offererVars, watchVars
<1>13. ASSUME NEW s \in Sides, GatheringCompletes(s)
      PROVE  TypeOK'
  <2>1. events' \in Seq(Signals)
    <3>1. CASE s = "offerer"
      BY <1>13, <3>1, PostKeeps DEF GatheringCompletes, Signals
    <3>2. CASE s # "offerer"
      BY <1>13, <3>2 DEF GatheringCompletes, Signals, TypeOK
    <3> QED
      BY <3>1, <3>2
  <2>2. incoming' \in Seq(Offer)
    <3>1. incoming \in Seq(Offer) /\ NoOffer \in Offer
      BY DEF TypeOK, NoOffer, Offer
    <3>2. Append(incoming, NoOffer) \in Seq(Offer)
      BY <3>1, AppendProperties
    <3> QED
      BY <1>13, <3>1, <3>2 DEF GatheringCompletes
  <2>3. gathering' \in [Sides -> {"new", "gathering", "complete"}]
    BY <1>13 DEF GatheringCompletes, TypeOK
  <2>4. UNCHANGED <<changes, debounce, negotiation, afterGathering, nextOffer, signaling,
                   local, answered, watchVars, remote, credential, pendingOffer, wireVars,
                   failed, closed>>
    BY <1>13 DEF GatheringCompletes
  <2> QED
    BY <2>1, <2>2, <2>3, <2>4 DEF TypeOK, Signals, watchVars, wireVars
<1>14. CASE DeliverOffer
  <2>1. offers' \in Seq(Offer) /\ incoming' \in Seq(Offer)
    <3>1. Head(offers) \in Offer /\ Tail(offers) \in Seq(Offer) /\ incoming \in Seq(Offer)
      BY <1>14, HeadTailProperties DEF DeliverOffer, TypeOK
    <3>2. Append(incoming, Head(offers)) \in Seq(Offer)
      BY <3>1, AppendProperties
    <3> QED
      BY <1>14, <3>1, <3>2 DEF DeliverOffer
  <2> QED
    BY <1>14, <2>1 DEF TypeOK, DeliverOffer, offererVars, watchVars, answererVars, wireVars
<1>15. CASE DeliverAnswer
  <2>1. events' \in Seq(Signals)
    BY <1>15, PostKeeps DEF DeliverAnswer, Signals
  <2> QED
    BY <1>15, <2>1 DEF TypeOK, DeliverAnswer, Signals, offererVars, watchVars, answererVars, wireVars
<1>16. CASE LinkLost
  BY <1>16 DEF TypeOK, LinkLost, offererVars, watchVars, answererVars, wireVars
<1>17. CASE Resume
  BY <1>17 DEF TypeOK, Resume, offererVars, watchVars, answererVars, wireVars
<1>18. CASE ICERestart
  <2>1. events' \in Seq(Signals)
    BY <1>18, PostKeeps DEF ICERestart, Signals
  <2> QED
    BY <1>18, <2>1 DEF TypeOK, ICERestart, Signals, offererVars, watchVars, answererVars, wireVars
<1>19. CASE Close
  BY <1>19 DEF TypeOK, Close, offererVars, watchVars, answererVars, wireVars
<1>20. CASE UNCHANGED vars
  BY <1>20 DEF TypeOK, vars, offererVars, watchVars, answererVars, wireVars
<1> QED
  BY <1>1, <1>2, <1>3, <1>4, <1>5, <1>6, <1>7, <1>8, <1>9, <1>10, <1>11, <1>12, <1>13, <1>14, <1>15, <1>16, <1>17, <1>18, <1>19, <1>20 DEF Next, TimerStep

\* Every action keeps the negotiation state and pion's in step.
LEMMA StateAgreesPreserved ==
  ASSUME TypeOK, StateAgrees, [Next]_vars
  PROVE  StateAgrees'
<1>1. ASSUME NEW force \in BOOLEAN, Negotiate(force)
      PROVE  StateAgrees'
  BY <1>1 DEF Negotiate, StateAgrees, offererVars, watchVars, answererVars, wireVars
<1>2. CASE DebounceFires
  BY <1>2 DEF DebounceFires, StateAgrees, offererVars, watchVars, answererVars, wireVars
<1>3. CASE HandleSendOffer
  BY <1>3, CreateEffect DEF HandleSendOffer, TypeOK
<1>4. CASE AnswerRefused
  BY <1>4 DEF AnswerRefused, StateAgrees, offererVars, watchVars, answererVars, wireVars
<1>5. CASE HandleAnswer
  <2>1. CASE negotiation = "retry"
    BY <1>5, <2>1, CreateEffect DEF HandleAnswer
  <2>2. CASE negotiation # "retry"
    BY <1>5, <2>2 DEF HandleAnswer, StateAgrees
  <2> QED
    BY <2>1, <2>2
<1>6. CASE HandleICERestart
  BY <1>6, RestartEffect DEF HandleICERestart
<1>7. CASE HandleGathered
  <2>1. CASE afterGathering
    BY <1>7, <2>1, RestartEffect DEF HandleGathered
  <2>2. CASE ~afterGathering
    BY <1>7, <2>2 DEF HandleGathered, StateAgrees
  <2> QED
    BY <2>1, <2>2
<1>8. CASE TimerFires
  BY <1>8 DEF TimerFires, StateAgrees, offererVars, watchVars, answererVars, wireVars
<1>9. ASSUME NEW n \in fired, TimerClears(n)
      PROVE  StateAgrees'
  BY <1>9 DEF TimerClears, StateAgrees, offererVars, watchVars, answererVars, wireVars
<1>10. ASSUME NEW n \in checking, TimerChecks(n)
      PROVE  StateAgrees'
  BY <1>10 DEF TimerChecks, StateAgrees, offererVars, watchVars, answererVars, wireVars
<1>11. CASE HandleOffer
  <2> DEFINE o == Head(incoming)
  <2>1. o \in Offer
    BY <1>11, HeadTailProperties DEF HandleOffer, TypeOK
  <2>2. gathering'["offerer"] = gathering["offerer"]
    <3>1. CASE IsRestart(o) /\ gathering["answerer"] = "gathering"
      BY <1>11, <3>1 DEF HandleOffer
    <3>2. CASE ~(IsRestart(o) /\ gathering["answerer"] = "gathering")
      <4>1. ApplyOffer(o)
        BY <1>11, <3>2 DEF HandleOffer
      <4> QED
        BY <2>1, <4>1, ApplyTypes
    <3> QED
      BY <3>1, <3>2
  <2> QED
    BY <1>11, <2>2 DEF HandleOffer, offererVars, StateAgrees
<1>12. CASE HandleGatheredAnswerer
  <2>1. gathering'["offerer"] = gathering["offerer"]
    <3>1. CASE pendingOffer # NoOffer
      BY <1>12, <3>1, ApplyTypes DEF HandleGatheredAnswerer, TypeOK
    <3>2. CASE pendingOffer = NoOffer
      BY <1>12, <3>2 DEF HandleGatheredAnswerer
    <3> QED
      BY <3>1, <3>2
  <2> QED
    BY <1>12, <2>1 DEF HandleGatheredAnswerer, offererVars, StateAgrees
<1>13. ASSUME NEW s \in Sides, GatheringCompletes(s)
      PROVE  StateAgrees'
  <2>1. (gathering'["offerer"] = "new") <=> (gathering["offerer"] = "new")
    BY <1>13 DEF GatheringCompletes, TypeOK, Sides
  <2> QED
    BY <1>13, <2>1 DEF GatheringCompletes, StateAgrees
<1>14. CASE DeliverOffer
  BY <1>14 DEF DeliverOffer, StateAgrees, offererVars, watchVars, answererVars, wireVars
<1>15. CASE DeliverAnswer
  BY <1>15 DEF DeliverAnswer, StateAgrees, offererVars, watchVars, answererVars, wireVars
<1>16. CASE LinkLost
  BY <1>16 DEF LinkLost, StateAgrees, offererVars, watchVars, answererVars, wireVars
<1>17. CASE Resume
  BY <1>17 DEF Resume, StateAgrees, offererVars, watchVars, answererVars, wireVars
<1>18. CASE ICERestart
  BY <1>18 DEF ICERestart, StateAgrees, offererVars, watchVars, answererVars, wireVars
<1>19. CASE Close
  BY <1>19 DEF Close, StateAgrees, offererVars, watchVars, answererVars, wireVars
<1>20. CASE UNCHANGED vars
  BY <1>20 DEF StateAgrees, vars, offererVars, watchVars, answererVars, wireVars
<1> QED
  BY <1>1, <1>2, <1>3, <1>4, <1>5, <1>6, <1>7, <1>8, <1>9, <1>10, <1>11, <1>12, <1>13, <1>14, <1>15, <1>16, <1>17, <1>18, <1>19, <1>20 DEF Next, TimerStep

\* No action forgets a change that no offer covers.
LEMMA RequestKeptPreserved ==
  ASSUME TypeOK, StateAgrees, RequestKept, [Next]_vars
  PROVE  RequestKept'
<1>1. ASSUME NEW force \in BOOLEAN, Negotiate(force)
      PROVE  RequestKept'
  <2>1. CASE force
    <3>1. Posted("offer")'
      BY <1>1, <2>1, PostKeeps DEF Negotiate, Signals
    <3> QED
      BY <3>1 DEF RequestKept
  <2>2. CASE ~force
    BY <1>1, <2>2 DEF Negotiate, RequestKept
  <2> QED
    BY <1>1, <2>1, <2>2
<1>2. CASE DebounceFires
  <2>1. Posted("offer")'
    BY <1>2, PostKeeps DEF DebounceFires, Signals
  <2> QED
    BY <2>1 DEF RequestKept
<1>3. CASE HandleSendOffer
  <2>1. failed' \/ negotiation' = "retry" \/ local'.changes = changes
    BY <1>3, CreateEffect DEF HandleSendOffer, TypeOK
  <2> QED
    BY <1>3, <2>1 DEF HandleSendOffer, Working, RequestKept
<1>4. CASE AnswerRefused
  BY <1>4 DEF AnswerRefused, Working, RequestKept
<1>5. CASE HandleAnswer
  <2>1. Posted("offer") => Posted("offer")'
    BY <1>5, HandledKeeps DEF HandleAnswer
  <2>2. CASE negotiation = "retry"
    <3>1. failed' \/ negotiation' = "retry" \/ local'.changes = changes
      BY <1>5, <2>2, CreateEffect DEF HandleAnswer
    <3> QED
      BY <1>5, <3>1 DEF HandleAnswer, Working, RequestKept
  <2>3. CASE negotiation # "retry"
    BY <1>5, <2>1, <2>3 DEF HandleAnswer, Handles, Working, RequestKept
  <2> QED
    BY <2>2, <2>3
<1>6. CASE HandleICERestart
  <2>1. Posted("offer") => Posted("offer")'
    BY <1>6, HandledKeeps DEF HandleICERestart
  <2>2. CASE gathering["offerer"] = "complete" /\ DoICERestart
    <3>1. failed' \/ negotiation' = "retry" \/ local'.changes = changes
      BY <2>2, RestartEffect
    <3> QED
      BY <1>6, <3>1 DEF HandleICERestart, Working, RequestKept
  <2>3. CASE gathering["offerer"] # "complete" /\ DoICERestart
    <3>1. UNCHANGED <<negotiation, local, failed>>
      BY <2>3, RestartEffect
    <3> QED
      BY <1>6, <2>1, <3>1 DEF HandleICERestart, Handles, Working, RequestKept
  <2> QED
    BY <1>6, <2>2, <2>3 DEF HandleICERestart
<1>7. CASE HandleGathered
  <2>1. Posted("offer") => Posted("offer")'
    BY <1>7, HandledKeeps DEF HandleGathered
  <2>2. CASE gathering["offerer"] = "complete" /\ DoICERestart
    <3>1. failed' \/ negotiation' = "retry" \/ local'.changes = changes
      BY <2>2, RestartEffect
    <3> QED
      BY <1>7, <3>1 DEF HandleGathered, Working, RequestKept
  <2>3. CASE gathering["offerer"] # "complete" /\ DoICERestart
    <3>1. UNCHANGED <<negotiation, local, failed>>
      BY <2>3, RestartEffect
    <3> QED
      BY <1>7, <2>1, <3>1 DEF HandleGathered, Handles, Working, RequestKept
  <2>4. CASE ~afterGathering
    BY <1>7, <2>1, <2>4 DEF HandleGathered, Handles, Working, RequestKept
  <2> QED
    BY <1>7, <2>2, <2>3, <2>4 DEF HandleGathered
<1>8. CASE TimerFires
  BY <1>8 DEF TimerFires, Posted, Working, RequestKept, offererVars, watchVars, answererVars, wireVars
<1>9. ASSUME NEW n \in fired, TimerClears(n)
      PROVE  RequestKept'
  BY <1>9 DEF TimerClears, Posted, Working, RequestKept, offererVars, watchVars, answererVars, wireVars
<1>10. ASSUME NEW n \in checking, TimerChecks(n)
      PROVE  RequestKept'
  BY <1>10 DEF TimerChecks, Posted, Working, RequestKept, offererVars, watchVars, answererVars, wireVars
<1>11. CASE HandleOffer
  BY <1>11 DEF HandleOffer, offererVars, Posted, Working, RequestKept
<1>12. CASE HandleGatheredAnswerer
  BY <1>12 DEF HandleGatheredAnswerer, offererVars, Posted, Working, RequestKept
<1>13. ASSUME NEW s \in Sides, GatheringCompletes(s)
      PROVE  RequestKept'
  <2>1. Posted("offer") => Posted("offer")'
    <3>1. CASE s = "offerer"
      BY <1>13, <3>1, PostKeeps DEF GatheringCompletes, Signals
    <3>2. CASE s # "offerer"
      BY <1>13, <3>2 DEF GatheringCompletes, Posted
    <3> QED
      BY <3>1, <3>2
  <2> QED
    BY <1>13, <2>1 DEF GatheringCompletes, Working, RequestKept
<1>14. CASE DeliverOffer
  BY <1>14 DEF DeliverOffer, Posted, Working, RequestKept, offererVars, watchVars, answererVars, wireVars
<1>15. CASE DeliverAnswer
  <2>1. Posted("offer") => Posted("offer")'
    BY <1>15, PostKeeps DEF DeliverAnswer, Signals
  <2> QED
    BY <1>15, <2>1 DEF DeliverAnswer, Working, RequestKept
<1>16. CASE LinkLost
  BY <1>16 DEF LinkLost, Posted, Working, RequestKept, offererVars, watchVars, answererVars, wireVars
<1>17. CASE Resume
  BY <1>17 DEF Resume, Posted, Working, RequestKept, offererVars, watchVars, answererVars, wireVars
<1>18. CASE ICERestart
  <2>1. Posted("offer") => Posted("offer")'
    BY <1>18, PostKeeps DEF ICERestart, Signals
  <2> QED
    BY <1>18, <2>1 DEF ICERestart, Working, RequestKept
<1>19. CASE Close
  BY <1>19 DEF Close, Posted, Working, RequestKept, offererVars, watchVars, answererVars, wireVars
<1>20. CASE UNCHANGED vars
  BY <1>20 DEF RequestKept, Working, Posted, vars, offererVars, watchVars, answererVars, wireVars
<1> QED
  BY <1>1, <1>2, <1>3, <1>4, <1>5, <1>6, <1>7, <1>8, <1>9, <1>10, <1>11, <1>12, <1>13, <1>14, <1>15, <1>16, <1>17, <1>18, <1>19, <1>20 DEF Next, TimerStep

\* No action forgets a restart that gathering put off.
LEMMA RestartKeptPreserved ==
  ASSUME TypeOK, StateAgrees, RestartKept, [Next]_vars
  PROVE  RestartKept'
<1>1. ASSUME NEW force \in BOOLEAN, Negotiate(force)
      PROVE  RestartKept'
  <2>1. Posted("gathered") => Posted("gathered")'
    <3>1. CASE force
      BY <1>1, <3>1, PostKeeps DEF Negotiate, Signals
    <3>2. CASE ~force
      BY <1>1, <3>2 DEF Negotiate, Posted
    <3> QED
      BY <1>1, <3>1, <3>2
  <2> QED
    BY <1>1, <2>1 DEF Negotiate, Working, RestartKept
<1>2. CASE DebounceFires
  <2>1. Posted("gathered") => Posted("gathered")'
    BY <1>2, PostKeeps DEF DebounceFires, Signals
  <2> QED
    BY <1>2, <2>1 DEF DebounceFires, Working, RestartKept
<1>3. CASE HandleSendOffer
  <2>1. Posted("gathered") => Posted("gathered")'
    BY <1>3, HandledKeeps DEF HandleSendOffer
  <2>2. gathering'["offerer"] \in {gathering["offerer"], "gathering"}
    BY <1>3, CreateEffect DEF HandleSendOffer, TypeOK
  <2> QED
    BY <1>3, <2>1, <2>2 DEF HandleSendOffer, Working, RestartKept
<1>4. CASE AnswerRefused
  <2>1. Posted("gathered") => Posted("gathered")'
    BY <1>4, HandledKeeps DEF AnswerRefused
  <2> QED
    BY <1>4, <2>1 DEF AnswerRefused, Working, RestartKept
<1>5. CASE HandleAnswer
  <2>1. Posted("gathered") => Posted("gathered")'
    BY <1>5, HandledKeeps DEF HandleAnswer
  <2>2. gathering'["offerer"] \in {gathering["offerer"], "gathering"}
    <3>1. CASE negotiation = "retry"
      BY <1>5, <3>1, CreateEffect DEF HandleAnswer
    <3>2. CASE negotiation # "retry"
      BY <1>5, <3>2 DEF HandleAnswer
    <3> QED
      BY <3>1, <3>2
  <2> QED
    BY <1>5, <2>1, <2>2 DEF HandleAnswer, Working, RestartKept
<1>6. CASE HandleICERestart
  <2>1. Posted("gathered") => Posted("gathered")'
    BY <1>6, HandledKeeps DEF HandleICERestart
  <2>2. CASE gathering["offerer"] = "gathering"
    <3>1. gathering' = gathering
      BY <1>6, <2>2, RestartEffect DEF HandleICERestart
    <3> QED
      BY <2>2, <3>1 DEF RestartKept
  <2>3. CASE gathering["offerer"] # "gathering"
    BY <1>6, <2>1, <2>3 DEF HandleICERestart, Working, RestartKept
  <2> QED
    BY <2>2, <2>3
<1>7. CASE HandleGathered
  <2>1. CASE afterGathering /\ gathering["offerer"] = "gathering"
    <3>1. gathering' = gathering
      BY <1>7, <2>1, RestartEffect DEF HandleGathered
    <3> QED
      BY <2>1, <3>1 DEF RestartKept
  <2>2. CASE ~(afterGathering /\ gathering["offerer"] = "gathering")
    BY <1>7, <2>2 DEF HandleGathered, RestartKept
  <2> QED
    BY <2>1, <2>2
<1>8. CASE TimerFires
  BY <1>8 DEF TimerFires, Posted, Working, RestartKept, offererVars, watchVars, answererVars, wireVars
<1>9. ASSUME NEW n \in fired, TimerClears(n)
      PROVE  RestartKept'
  BY <1>9 DEF TimerClears, Posted, Working, RestartKept, offererVars, watchVars, answererVars, wireVars
<1>10. ASSUME NEW n \in checking, TimerChecks(n)
      PROVE  RestartKept'
  BY <1>10 DEF TimerChecks, Posted, Working, RestartKept, offererVars, watchVars, answererVars, wireVars
<1>11. CASE HandleOffer
  <2> DEFINE o == Head(incoming)
  <2>1. o \in Offer
    BY <1>11, HeadTailProperties DEF HandleOffer, TypeOK
  <2>2. gathering'["offerer"] = gathering["offerer"]
    <3>1. CASE IsRestart(o) /\ gathering["answerer"] = "gathering"
      BY <1>11, <3>1 DEF HandleOffer
    <3>2. CASE ~(IsRestart(o) /\ gathering["answerer"] = "gathering")
      <4>1. ApplyOffer(o)
        BY <1>11, <3>2 DEF HandleOffer
      <4> QED
        BY <2>1, <4>1, ApplyTypes
    <3> QED
      BY <3>1, <3>2
  <2> QED
    BY <1>11, <2>2 DEF HandleOffer, offererVars, Posted, Working, RestartKept
<1>12. CASE HandleGatheredAnswerer
  <2>1. gathering'["offerer"] = gathering["offerer"]
    <3>1. CASE pendingOffer # NoOffer
      BY <1>12, <3>1, ApplyTypes DEF HandleGatheredAnswerer, TypeOK
    <3>2. CASE pendingOffer = NoOffer
      BY <1>12, <3>2 DEF HandleGatheredAnswerer
    <3> QED
      BY <3>1, <3>2
  <2> QED
    BY <1>12, <2>1 DEF HandleGatheredAnswerer, offererVars, Posted, Working, RestartKept
<1>13. ASSUME NEW s \in Sides, GatheringCompletes(s)
      PROVE  RestartKept'
  <2>1. CASE s = "offerer"
    <3>1. Posted("gathered")'
      BY <1>13, <2>1, PostKeeps DEF GatheringCompletes, Signals
    <3> QED
      BY <3>1 DEF RestartKept
  <2>2. CASE s # "offerer"
    <3>1. gathering'["offerer"] = gathering["offerer"]
      BY <1>13, <2>2 DEF GatheringCompletes, TypeOK
    <3> QED
      BY <1>13, <2>2, <3>1 DEF GatheringCompletes, Posted, Working, RestartKept
  <2> QED
    BY <2>1, <2>2
<1>14. CASE DeliverOffer
  BY <1>14 DEF DeliverOffer, Posted, Working, RestartKept, offererVars, watchVars, answererVars, wireVars
<1>15. CASE DeliverAnswer
  <2>1. Posted("gathered") => Posted("gathered")'
    BY <1>15, PostKeeps DEF DeliverAnswer, Signals
  <2> QED
    BY <1>15, <2>1 DEF DeliverAnswer, Working, RestartKept
<1>16. CASE LinkLost
  BY <1>16 DEF LinkLost, Posted, Working, RestartKept, offererVars, watchVars, answererVars, wireVars
<1>17. CASE Resume
  BY <1>17 DEF Resume, Posted, Working, RestartKept, offererVars, watchVars, answererVars, wireVars
<1>18. CASE ICERestart
  <2>1. Posted("gathered") => Posted("gathered")'
    BY <1>18, PostKeeps DEF ICERestart, Signals
  <2> QED
    BY <1>18, <2>1 DEF ICERestart, Working, RestartKept
<1>19. CASE Close
  BY <1>19 DEF Close, Posted, Working, RestartKept, offererVars, watchVars, answererVars, wireVars
<1>20. CASE UNCHANGED vars
  BY <1>20 DEF RestartKept, Posted, vars, offererVars, watchVars, answererVars, wireVars
<1> QED
  BY <1>1, <1>2, <1>3, <1>4, <1>5, <1>6, <1>7, <1>8, <1>9, <1>10, <1>11, <1>12, <1>13, <1>14, <1>15, <1>16, <1>17, <1>18, <1>19, <1>20 DEF Next, TimerStep

-----------------------------------------------------------------------------
\* The negotiation invariant: a change no offer covers is remembered, a restart
\* put off by gathering is too, and the transport waits for an answer exactly
\* while pion has an offer outstanding (transport.go, the offerer's handlers).
THEOREM NegotiationInvariant == Spec => []NegotiationInv
<1>1. Init => NegotiationInv
  <2> SUFFICES ASSUME Init
               PROVE  NegotiationInv
    OBVIOUS
  <2>1. TypeOK
    <3>1. NoOffer \in Offer
      BY DEF NoOffer, Offer
    <3>2. gathering \in [Sides -> {"new", "gathering", "complete"}]
      BY DEF Init
    <3>3. events \in Seq({"offer", "restart", "gathered", "answer"})
      BY DEF Init
    <3>4. incoming \in Seq(Offer) /\ offers \in Seq(Offer)
      BY DEF Init
    <3> QED
      BY <3>1, <3>2, <3>3, <3>4 DEF Init, TypeOK
  <2>2. RequestKept
    BY DEF Init, RequestKept, NoOffer
  <2>3. StateAgrees
    BY DEF Init, StateAgrees, NoOffer, Sides
  <2>4. RestartKept
    BY DEF Init, RestartKept
  <2> QED
    BY <2>1, <2>2, <2>3, <2>4 DEF NegotiationInv
<1>2. NegotiationInv /\ [Next]_vars => NegotiationInv'
  BY TypeOKPreserved, StateAgreesPreserved, RequestKeptPreserved, RestartKeptPreserved
     DEF NegotiationInv
<1> QED
  BY <1>1, <1>2, PTL DEF Spec

-----------------------------------------------------------------------------
(* What is on its way: counting in sequences.                              *)

\* A count is a number, and nothing is counted where it is 0.
LEMMA CountType ==
  ASSUME NEW T, NEW s \in Seq(T), NEW S
  PROVE  /\ Count(s, S) \in Nat
         /\ Count(s, S) = 0 <=> \A i \in DOMAIN s : s[i] \notin S
<1> DEFINE C == {i \in DOMAIN s : s[i] \in S}
<1>1. DOMAIN s = 1..Len(s) /\ Len(s) \in Nat
  OBVIOUS
<1>2. IsFiniteSet(C)
  <2>1. IsFiniteSet(1..Len(s))
    BY <1>1, FS_Interval, 1 \in Int
  <2> QED
    BY <1>1, <2>1, FS_Subset
<1>3. Cardinality(C) \in Nat /\ (Cardinality(C) = 0 <=> C = {})
  BY <1>2, FS_CardinalityType, FS_EmptySet
<1> QED
  BY <1>3 DEF Count

\* What is appended counts, or not.
LEMMA CountAppend ==
  ASSUME NEW T, NEW s \in Seq(T), NEW x \in T, NEW S
  PROVE  Count(Append(s, x), S) = Count(s, S) + (IF x \in S THEN 1 ELSE 0)
<1> DEFINE n == Len(s)
           C == {i \in DOMAIN s : s[i] \in S}
           D == {i \in DOMAIN Append(s, x) : Append(s, x)[i] \in S}
<1>1. /\ n \in Nat /\ DOMAIN s = 1..n /\ DOMAIN Append(s, x) = 1..(n + 1)
      /\ Append(s, x)[n + 1] = x
      /\ \A i \in 1..n : Append(s, x)[i] = s[i]
  OBVIOUS
<1>2. IsFiniteSet(C) /\ Cardinality(C) \in Nat
  <2>1. IsFiniteSet(1..n)
    BY <1>1, FS_Interval, 1 \in Int
  <2> QED
    BY <1>1, <2>1, FS_Subset, FS_CardinalityType
<1>3. CASE x \in S
  <2>1. D = C \cup {n + 1} /\ n + 1 \notin C
    BY <1>1, <1>3
  <2>2. Cardinality(D) = Cardinality(C) + 1
    BY <1>2, <2>1, FS_AddElement
  <2> QED
    BY <1>3, <2>2 DEF Count
<1>4. CASE x \notin S
  <2>1. D = C
    BY <1>1, <1>4
  <2>2. Count(Append(s, x), S) = Cardinality(C) /\ Count(s, S) = Cardinality(C)
    BY <2>1 DEF Count
  <2> HIDE DEF C, D
  <2> QED
    BY <1>2, <1>4, <2>2
<1> QED
  BY <1>3, <1>4

\* So does what is taken off.
LEMMA CountTail ==
  ASSUME NEW T, NEW s \in Seq(T), s # <<>>, NEW S
  PROVE  Count(s, S) = Count(Tail(s), S) + (IF Head(s) \in S THEN 1 ELSE 0)
<1> DEFINE n == Len(s)
           t == Tail(s)
           C == {i \in DOMAIN s : s[i] \in S}
           D == {i \in DOMAIN t : t[i] \in S}
           E == C \ {1}
           f == [i \in D |-> i + 1]
<1>1. /\ n \in Nat \ {0} /\ DOMAIN s = 1..n /\ DOMAIN t = 1..(n - 1)
      /\ Head(s) = s[1]
      /\ \A i \in 1..(n - 1) : t[i] = s[i + 1]
  BY HeadTailProperties, EmptySeq, LenProperties
<1>2. IsFiniteSet(C) /\ IsFiniteSet(D) /\ IsFiniteSet(E)
  <2>1. IsFiniteSet(1..n) /\ IsFiniteSet(1..(n - 1))
    BY <1>1, FS_Interval, 1 \in Int
  <2> QED
    BY <1>1, <2>1, FS_Subset
<1>3. Cardinality(E) = Cardinality(D)
  <2>1. ASSUME NEW i \in D
        PROVE  f[i] \in E
    BY <1>1, <2>1
  <2>2. ASSUME NEW i \in D, NEW j \in D, f[i] = f[j]
        PROVE  i = j
    BY <1>1, <2>2
  <2>3. ASSUME NEW k \in E
        PROVE  \E i \in D : f[i] = k
    <3>1. k - 1 \in D /\ f[k - 1] = k
      BY <1>1, <2>3
    <3> QED
      BY <3>1
  <2>4. f \in Bijection(D, E)
    BY <2>1, <2>2, <2>3, Fun_IsBij
  <2> QED
    BY SMTT(30), ZenonT(30), <1>2, <2>4, FS_Bijection, Fun_ExistsBij DEF ExistsBijection
<1>4. Cardinality(C) = Cardinality(E) + (IF Head(s) \in S THEN 1 ELSE 0)
  <2>0. Cardinality(E) \in Nat
    BY <1>2, FS_CardinalityType
  <2>1. CASE s[1] \in S
    <3>1. C = E \cup {1} /\ 1 \notin E
      BY <1>1, <2>1
    <3>2. Cardinality(C) = Cardinality(E) + 1
      BY <1>2, <3>1, FS_AddElement
    <3> QED
      BY <1>1, <2>1, <3>2
  <2>2. CASE s[1] \notin S
    <3>1. Cardinality(C) = Cardinality(E)
      <4>1. C = E
        BY <1>1, <2>2
      <4> QED
        BY <4>1
    <3> HIDE DEF C, D, E
    <3> QED
      BY <1>1, <2>0, <2>2, <3>1
  <2> QED
    BY <2>1, <2>2
<1> QED
  BY <1>3, <1>4 DEF Count

-----------------------------------------------------------------------------
(* What is on its way: the parts of FlightInv, one lemma per kind of step. *)

\* The numbers FlightInv adds up.
LEMMA FlightNumbers ==
  ASSUME TypeOK
  PROVE  /\ Len(offers) \in Nat /\ (Len(offers) = 0 <=> offers = <<>>)
         /\ Count(incoming, RealOffer) \in Nat
         /\ Count(events, {"answer"}) \in Nat
         /\ answers \in Nat
         /\ Owed \in {0, 1} /\ (Owed = 0 <=> negotiation = "none")
         /\ InFlight \in Nat
<1>1. Len(offers) \in Nat /\ (Len(offers) = 0 <=> offers = <<>>)
  BY EmptySeq, LenProperties DEF TypeOK
<1>2. Count(incoming, RealOffer) \in Nat /\ Count(events, {"answer"}) \in Nat
  BY CountType DEF TypeOK
<1>3. answers \in Nat
  BY DEF TypeOK
<1>4. Owed \in {0, 1} /\ (Owed = 0 <=> negotiation = "none")
  BY DEF Owed
<1> QED
  BY <1>1, <1>2, <1>3, <1>4 DEF InFlight

\* Once the transports have failed or are closed nothing is asked of them.
LEMMA StoppedKeeps ==
  ASSUME SentReal', ~Working'
  PROVE  FlightInv'
BY DEF FlightInv, Untouched, PendingKept, Accounted

\* A step that leaves what is on its way alone.
LEMMA FlightFrame ==
  ASSUME TypeOK, TypeOK', StateAgrees', FlightInv, Working,
         UNCHANGED <<offers, incoming, pendingOffer, local, remote>>,
         gathering'["answerer"] = gathering["answerer"],
         InFlight' = InFlight,
         local = NoOffer \/ (Owed' = Owed /\ (Recovers => Recovers'))
  PROVE  FlightInv'
<1>1. SentReal' /\ Untouched' /\ PendingKept'
  BY DEF FlightInv, SentReal, Untouched, PendingKept, Working
<1>2. LastIsLocal' <=> LastIsLocal
  BY DEF LastIsLocal, LastIncoming
<1>3. LastIsAnswered' <=> LastIsAnswered
  BY DEF LastIsAnswered
<1>4. CASE local = NoOffer
  <2>1. InFlight = 0 /\ remote = NoOffer
    BY <1>4 DEF FlightInv, Untouched
  <2>2. /\ offers = <<>> /\ Count(incoming, RealOffer) = 0
        /\ pendingOffer = NoOffer
    BY <2>1, FlightNumbers DEF InFlight
  <2>3. Owed' = 0
    BY <1>4 DEF StateAgrees, Owed
  <2>4. \A i \in DOMAIN incoming : incoming[i] \notin RealOffer
    BY <2>2, CountType DEF TypeOK
  <2>5. \A i \in DOMAIN incoming : incoming[i] \in Offer
    BY DEF TypeOK
  <2>6. LastIsLocal
    BY <2>2, <2>4, <2>5 DEF LastIsLocal, LastIncoming, RealOffer
  <2>7. LastIsAnswered
    BY <1>4, <2>1, <2>2 DEF LastIsAnswered
  <2>8. InFlight' >= Owed'
    BY <2>1, <2>3
  <2> QED
    BY <1>1, <1>2, <1>3, <2>6, <2>7, <2>8 DEF FlightInv, Accounted
<1>5. CASE Owed' = Owed /\ (Recovers => Recovers')
  BY <1>1, <1>2, <1>3, <1>5 DEF FlightInv, Accounted
<1> QED
  BY <1>4, <1>5

\* Posting anything but an answer, and handling it, leaves the answers as they are.
LEMMA AnswersCounted ==
  ASSUME TypeOK, NEW x \in Signals,
         events' = Append(events, x) \/ Handles(x)
  PROVE  /\ x # "answer" => Count(events, {"answer"})' = Count(events, {"answer"})
         /\ x = "answer" /\ events' = Append(events, x) =>
              Count(events, {"answer"})' = Count(events, {"answer"}) + 1
         /\ x = "answer" /\ Handles(x) =>
              Count(events, {"answer"}) = Count(events, {"answer"})' + 1
         /\ x # "restart" \/ events' = Append(events, x) =>
              (Posted("restart") => Posted("restart")')
<1>1. events \in Seq(Signals)
  BY DEF TypeOK, Signals
<1>2. Count(events, {"answer"}) \in Nat
  BY <1>1, CountType
<1>3. CASE events' = Append(events, x)
  <2>1. Count(Append(events, x), {"answer"})
          = Count(events, {"answer"}) + (IF x \in {"answer"} THEN 1 ELSE 0)
    BY <1>1, CountAppend
  <2>2. Count(events, {"answer"})' = Count(Append(events, x), {"answer"})
    BY <1>3 DEF Count
  <2>3. Posted("restart") => Posted("restart")'
    BY <1>3, PostKeeps
  <2>4. Len(events') = Len(events) + 1
    BY <1>1, <1>3, AppendProperties
  <2>5. ~Handles(x)
    <3>1. ASSUME events # <<>>, events' = Tail(events)
          PROVE  FALSE
      BY <1>1, <2>4, <3>1, HeadTailProperties, LenProperties
    <3> QED
      BY <3>1 DEF Handles
  <2> QED
    BY <1>2, <2>1, <2>2, <2>3, <2>5
<1>4. CASE Handles(x)
  <2>1. events # <<>> /\ Head(events) = x /\ events' = Tail(events)
    BY <1>4 DEF Handles
  <2>2. Count(events, {"answer"})
          = Count(Tail(events), {"answer"}) + (IF x \in {"answer"} THEN 1 ELSE 0)
    BY <1>1, <2>1, CountTail
  <2>3. Count(events, {"answer"})' = Count(Tail(events), {"answer"})
    BY <2>1 DEF Count
  <2>4. Count(Tail(events), {"answer"}) \in Nat
    BY <1>1, <2>1, HeadTailProperties, CountType
  <2>5. x # "restart" => (Posted("restart") => Posted("restart")')
    BY <1>4, HandledKeeps
  <2>6. events' # Append(events, x)
    BY <1>1, <2>1, HeadTailProperties, AppendProperties, LenProperties
  <2> QED
    BY <1>2, <2>2, <2>3, <2>4, <2>5, <2>6
<1> QED
  BY <1>3, <1>4

\* Sending an offer: it is now the last, and owed an answer that is on its way.
LEMMA SendKeeps ==
  ASSUME TypeOK, TypeOK', FlightInv, Working, negotiation' # "none",
         local' # NoOffer, OnOffer(local'),
         UNCHANGED <<incoming, pendingOffer, remote, answers, link>>,
         gathering'["answerer"] = gathering["answerer"]
  PROVE  FlightInv'
<1>1. SentReal /\ PendingKept /\ offers \in Seq(Offer) /\ local' \in Offer
  BY DEF FlightInv, TypeOK
<1>2. CASE offers' = offers /\ failed' = TRUE
  BY <1>1, <1>2, StoppedKeeps DEF SentReal, Working
<1>3. CASE offers' = (IF link = "down" THEN offers ELSE Append(offers, local')) /\ failed' = failed
  <2>1. PendingKept' /\ Untouched'
    BY <1>1 DEF PendingKept, Untouched, Working
  <2>2. CASE link = "down"
    <3>1. SentReal' /\ Recovers'
      BY <1>1, <1>3, <2>2 DEF SentReal, Recovers
    <3> QED
      BY <2>1, <3>1 DEF FlightInv, Accounted
  <2>3. CASE link # "down"
    <3>1. /\ offers' = Append(offers, local')
          /\ Len(offers) \in Nat /\ Len(offers') = Len(offers) + 1
          /\ DOMAIN offers = 1..Len(offers) /\ DOMAIN offers' = 1..(Len(offers) + 1)
          /\ \A i \in 1..Len(offers) : offers'[i] = offers[i]
          /\ offers'[Len(offers) + 1] = local'
      BY <1>1, <1>3, <2>3, AppendProperties, LenProperties
    <3>2. SentReal'
      BY <1>1, <3>1 DEF SentReal
    <3>3. /\ InFlight' \in Nat /\ Owed' = 1 /\ offers' # <<>>
          /\ Count(incoming, RealOffer)' \in Nat /\ answers' \in Nat
          /\ Count(events, {"answer"})' \in Nat
      <4>1. Count(incoming', RealOffer) \in Nat /\ Count(events', {"answer"}) \in Nat
        BY CountType DEF TypeOK
      <4>2. answers' \in Nat
        BY DEF TypeOK
      <4>3. offers' # <<>>
        BY <3>1
      <4> QED
        BY <3>1, <4>1, <4>2, <4>3 DEF InFlight, Owed, Count, RealOffer
    <3>4. LastIsLocal'
      BY <3>1, <3>3 DEF LastIsLocal
    <3>5. InFlight' >= 1 /\ (InFlight' = 1 => pendingOffer' = NoOffer)
      BY <3>1, <3>3 DEF InFlight
    <3>6. InFlight' = Owed' => LastIsAnswered'
      BY <3>3, <3>5 DEF LastIsAnswered
    <3> QED
      BY <2>1, <3>2, <3>3, <3>4, <3>5, <3>6 DEF FlightInv, Accounted
  <2> QED
    BY <2>2, <2>3
<1> QED
  BY <1>2, <1>3 DEF OnOffer
\* createAndSendOffer with no negotiation under way fails or sends.
LEMMA CreateKeeps ==
  ASSUME TypeOK, TypeOK', StateAgrees', FlightInv, Working,
         NEW restart \in BOOLEAN, NEW armed \in Nat,
         CreateAndSendOffer("none", restart, armed),
         UNCHANGED <<incoming, pendingOffer, remote, answers, link>>
  PROVE  FlightInv'
<1>1. CASE failed' = TRUE /\ offers' = offers
  <2>1. SentReal'
    BY <1>1 DEF FlightInv, SentReal
  <2> QED
    BY <1>1, <2>1, StoppedKeeps DEF Working
<1>2. CASE ~(failed' = TRUE /\ offers' = offers)
  <2> DEFINE fresh == restart \/ nextOffer \/ local = NoOffer
             offer == [gen |-> IF fresh THEN local.gen + 1 ELSE local.gen, changes |-> changes]
  <2>1. /\ negotiation' = "remote" /\ local' = offer /\ OnOffer(offer)
        /\ gathering' = IF fresh THEN [gathering EXCEPT !["offerer"] = "gathering"] ELSE gathering
    BY <1>2 DEF CreateAndSendOffer
  <2>2. local' # NoOffer
    BY <2>1 DEF StateAgrees
  <2>3. gathering'["answerer"] = gathering["answerer"]
    <3>1. gathering \in [Sides -> {"new", "gathering", "complete"}] /\ "answerer" \in Sides
      BY DEF TypeOK, Sides
    <3> HIDE DEF offer, fresh
    <3> QED
      BY <2>1, <3>1
  <2>4. OnOffer(local')
    BY <2>1
  <2> HIDE DEF offer, fresh
  <2> QED
    BY <2>1, <2>2, <2>3, <2>4, SendKeeps
<1> QED
  BY <1>1, <1>2

\* doICERestart, for a handler that remembers a restart put off by gathering.
LEMMA RestartKeeps ==
  ASSUME TypeOK, TypeOK', StateAgrees, StateAgrees', FlightInv, Working,
         NEW x \in {"restart", "gathered"}, Handles(x), DoICERestart,
         gathering["offerer"] = "gathering" => afterGathering',
         UNCHANGED <<incoming, pendingOffer, remote, answers, link>>
  PROVE  FlightInv'
<1>1. CASE /\ gathering["offerer"] # "complete"
           /\ UNCHANGED <<negotiation, nextOffer, signaling, local, counter, timer,
                          gathering, offers, failed>>
  <2>1. Count(events, {"answer"})' = Count(events, {"answer"})
    BY AnswersCounted DEF Signals
  <2>2. InFlight' = InFlight
    BY <1>1, <2>1 DEF InFlight, Count, RealOffer
  <2>3. Owed' = Owed
    BY <1>1 DEF Owed
  <2>4. local = NoOffer \/ Recovers'
    <3>1. gathering["offerer"] \in {"new", "gathering", "complete"}
      BY DEF TypeOK, Sides
    <3> QED
      BY <1>1, <3>1 DEF StateAgrees, Recovers
  <2> QED
    BY <1>1, <2>2, <2>3, <2>4, FlightFrame
<1>2. CASE CreateAndSendOffer("none", TRUE, timer)
  <2>1. timer \in Nat
    BY DEF TypeOK
  <2> QED
    BY <1>2, <2>1, CreateKeeps
<1>3. CASE /\ negotiation # "none"
           /\ negotiation' = "retry"
           /\ OnOffer(local)
           /\ UNCHANGED <<signaling, local, counter, timer, gathering>>
  <2>1. local' # NoOffer
    BY <1>3 DEF StateAgrees
  <2>2. OnOffer(local')
    BY <1>3
  <2> QED
    BY <1>3, <2>1, <2>2, SendKeeps
<1>4. CASE failed' = TRUE /\ offers' = offers
  <2>1. SentReal'
    BY <1>4 DEF FlightInv, SentReal
  <2> QED
    BY <1>4, <2>1, StoppedKeeps DEF Working
<1> QED
  BY <1>1, <1>2, <1>3, <1>4 DEF DoICERestart

\* An answer that settles the negotiation was the one it was owed.
LEMMA AnswerKeeps ==
  ASSUME TypeOK, TypeOK', StateAgrees, FlightInv, HandleAnswer, negotiation # "retry"
  PROVE  FlightInv'
<1>1. /\ Working /\ Handles("answer") /\ signaling = "have-local-offer"
      /\ negotiation' = "none"
      /\ UNCHANGED <<local, gathering, offers, failed, incoming, remote, pendingOffer,
                     answers, link, closed, afterGathering>>
  BY DEF HandleAnswer, Handles, answererVars
<1>2. negotiation # "none" /\ local # NoOffer /\ Owed = 1 /\ Owed' = 0
  BY <1>1 DEF StateAgrees, Owed
<1>3. /\ Count(events, {"answer"}) = Count(events, {"answer"})' + 1
      /\ Posted("restart") => Posted("restart")'
  BY <1>1, AnswersCounted DEF Signals
<1>4. InFlight = InFlight' + 1 /\ InFlight' \in Nat
  <2>1. Count(events', {"answer"}) \in Nat
    BY CountType DEF TypeOK
  <2>2. Count(incoming, RealOffer)' = Count(incoming, RealOffer)
    BY <1>1 DEF Count, RealOffer
  <2> QED
    BY SMTT(30), <1>1, <1>3, <2>1, <2>2, FlightNumbers DEF InFlight, Count
<1>5. SentReal' /\ Untouched' /\ PendingKept'
  BY <1>1, <1>2 DEF FlightInv, SentReal, Untouched, PendingKept, Working
<1>6. Recovers => Recovers'
  BY <1>1, <1>3 DEF Recovers
<1>7. (LastIsLocal' <=> LastIsLocal) /\ (LastIsAnswered' <=> LastIsAnswered)
  BY <1>1 DEF LastIsLocal, LastIncoming, LastIsAnswered, Count, RealOffer
<1>8. Working' /\ ~Recovers' => InFlight >= 1 /\ LastIsLocal /\ (InFlight = 1 => LastIsAnswered)
  BY <1>1, <1>2, <1>6 DEF FlightInv, Accounted
<1>9. Accounted'
  <2>1. InFlight' >= Owed' /\ (InFlight' = Owed' => InFlight = 1)
    <3>1. InFlight' >= Owed'
      BY <1>2, <1>4
    <3>2. InFlight' = Owed' => InFlight = 1
      BY <1>2, <1>4
    <3> QED
      BY <3>1, <3>2
  <2> SUFFICES ASSUME Working', ~Recovers'
               PROVE  InFlight' >= Owed' /\ LastIsLocal' /\ (InFlight' = Owed' => LastIsAnswered')
    BY DEF Accounted
  <2> QED
    BY <1>7, <1>8, <2>1
<1> QED
  BY <1>5, <1>9 DEF FlightInv
-----------------------------------------------------------------------------
(* The answerer's side.                                                    *)

\* What is last in a queue stays last when the head is taken off it.
LEMMA LastOfTail ==
  ASSUME TypeOK, incoming # <<>>, incoming' = Tail(incoming)
  PROVE  /\ \A i \in DOMAIN incoming' : LastIncoming(i)' =>
              i + 1 \in DOMAIN incoming /\ LastIncoming(i + 1) /\ incoming'[i] = incoming[i + 1]
         /\ Count(incoming, RealOffer)
              = Count(incoming, RealOffer)' + (IF Head(incoming) \in RealOffer THEN 1 ELSE 0)
         /\ Count(incoming, RealOffer)' \in Nat
         /\ Head(incoming) \in RealOffer /\ Count(incoming, RealOffer)' = 0 =>
              1 \in DOMAIN incoming /\ LastIncoming(1) /\ incoming[1] = Head(incoming)
<1>1. incoming \in Seq(Offer)
  BY DEF TypeOK
<1>2. /\ Len(incoming) \in Nat \ {0} /\ DOMAIN incoming = 1..Len(incoming)
      /\ incoming' \in Seq(Offer) /\ DOMAIN incoming' = 1..(Len(incoming) - 1)
      /\ Head(incoming) = incoming[1]
      /\ \A i \in 1..(Len(incoming) - 1) : incoming'[i] = incoming[i + 1]
  BY <1>1, HeadTailProperties, EmptySeq, LenProperties
<1>3. \A i \in DOMAIN incoming' : LastIncoming(i)' =>
        i + 1 \in DOMAIN incoming /\ LastIncoming(i + 1) /\ incoming'[i] = incoming[i + 1]
  <2> SUFFICES ASSUME NEW i \in DOMAIN incoming', LastIncoming(i)'
               PROVE  i + 1 \in DOMAIN incoming /\ LastIncoming(i + 1)
                      /\ incoming'[i] = incoming[i + 1]
    OBVIOUS
  <2>1. i + 1 \in DOMAIN incoming /\ incoming'[i] = incoming[i + 1]
    BY <1>2
  <2>2. incoming'[i] # NoOffer /\ \A j \in DOMAIN incoming' : j > i => incoming'[j] = NoOffer
    BY DEF LastIncoming
  <2>3. ASSUME NEW j \in DOMAIN incoming, j > i + 1
        PROVE  incoming[j] = NoOffer
    <3>1. j - 1 \in DOMAIN incoming' /\ j - 1 > i /\ incoming'[j - 1] = incoming[j]
      BY <1>2, <2>3
    <3> QED
      BY <2>2, <3>1
  <2> QED
    BY <2>1, <2>2, <2>3 DEF LastIncoming
<1>4. /\ Count(incoming, RealOffer)
           = Count(Tail(incoming), RealOffer) + (IF Head(incoming) \in RealOffer THEN 1 ELSE 0)
      /\ Count(incoming, RealOffer)' = Count(Tail(incoming), RealOffer)
  <2>1. Count(incoming, RealOffer)' = Count(Tail(incoming), RealOffer)
    BY DEF Count, RealOffer
  <2> QED
    BY <1>1, <2>1, CountTail
<1>5. /\ Count(incoming, RealOffer)' \in Nat
      /\ Count(incoming, RealOffer)' = 0 <=> \A i \in DOMAIN incoming' : incoming'[i] \notin RealOffer
  <2>1. Count(incoming, RealOffer)' = Count(incoming', RealOffer)
    BY DEF Count, RealOffer
  <2> QED
    BY <1>2, <2>1, CountType
<1>6. ASSUME Head(incoming) \in RealOffer, Count(incoming, RealOffer)' = 0
      PROVE  1 \in DOMAIN incoming /\ LastIncoming(1) /\ incoming[1] = Head(incoming)
  <2>1. 1 \in DOMAIN incoming /\ incoming[1] # NoOffer
    BY <1>2, <1>6 DEF RealOffer
  <2>2. ASSUME NEW j \in DOMAIN incoming, j > 1
        PROVE  incoming[j] = NoOffer
    <3>1. j - 1 \in DOMAIN incoming' /\ incoming'[j - 1] = incoming[j] /\ incoming[j] \in Offer
      BY <1>1, <1>2, <2>2
    <3> QED
      BY <1>5, <1>6, <3>1 DEF RealOffer
  <2> QED
    BY <1>2, <2>1, <2>2 DEF LastIncoming
<1> QED
  BY <1>3, <1>4, <1>5, <1>6

\* Taking an event off the answerer's queue leaves the last offer the last.
LEMMA StillLast ==
  ASSUME TypeOK, LastIsLocal, incoming # <<>>, incoming' = Tail(incoming),
         UNCHANGED <<offers, local>>
  PROVE  LastIsLocal'
<1>1. CASE offers # <<>>
  BY <1>1 DEF LastIsLocal
<1>2. CASE offers = <<>>
  <2>1. \A i \in DOMAIN incoming' : LastIncoming(i)' => incoming'[i] = local
    BY <1>2, LastOfTail DEF LastIsLocal
  <2> QED
    BY <1>2, <2>1 DEF LastIsLocal
<1> QED
  BY <1>1, <1>2

\* The answerer keeps an offer for later, or applies and answers it.
LEMMA OfferKeeps ==
  ASSUME TypeOK, TypeOK', FlightInv, HandleOffer
  PROVE  FlightInv'
<1> DEFINE o == Head(incoming)
           waits == IsRestart(o) /\ gathering["answerer"] = "gathering"
<1>1. /\ Working /\ incoming # <<>> /\ incoming' = Tail(incoming) /\ o # NoOffer
      /\ UNCHANGED <<events, negotiation, afterGathering, local, offers, link, closed>>
  BY DEF HandleOffer, offererVars
<1>2. o \in RealOffer
  <2>1. o \in Offer
    BY <1>1, HeadTailProperties DEF TypeOK
  <2> QED
    BY <1>1, <2>1 DEF RealOffer
<1>3. /\ Count(incoming, RealOffer) = Count(incoming, RealOffer)' + 1
      /\ Count(incoming, RealOffer)' \in Nat
      /\ Count(incoming, RealOffer)' = 0 =>
           1 \in DOMAIN incoming /\ LastIncoming(1) /\ incoming[1] = o
  BY <1>1, <1>2, LastOfTail
<1>4. /\ Count(events, {"answer"})' = Count(events, {"answer"})
      /\ Owed' = Owed /\ (Recovers' <=> Recovers)
  BY <1>1 DEF Count, Owed, Recovers, Posted
<1>n. /\ Len(offers) \in Nat /\ (Len(offers) = 0 <=> offers = <<>>)
      /\ Count(events, {"answer"}) \in Nat /\ answers \in Nat
      /\ Owed \in {0, 1}
  BY FlightNumbers
<1>5. SentReal' /\ local # NoOffer
  <2>1. InFlight # 0
    BY <1>3, <1>n DEF InFlight
  <2> QED
    BY <1>1, <2>1 DEF FlightInv, SentReal, Untouched
<1>6. Untouched'
  BY <1>1, <1>5 DEF Untouched
<1>7. LastIsLocal => LastIsLocal'
  BY <1>1, StillLast
<1>8. LastIsLocal /\ offers = <<>> /\ Count(incoming, RealOffer)' = 0 => o = local
  BY <1>3 DEF LastIsLocal
<1> HIDE DEF o, waits
<1>9. CASE waits
  <2>1. pendingOffer' = o /\ UNCHANGED <<remote, credential, gathering, answers, failed>>
    BY <1>9 DEF HandleOffer, waits, o
  <2>2. PendingKept'
    BY <1>9, <2>1 DEF PendingKept, waits
  <2>3. /\ InFlight = Len(offers) + Count(incoming, RealOffer)' + 1
                        + (IF pendingOffer = NoOffer THEN 0 ELSE 1)
                        + answers + Count(events, {"answer"})
        /\ InFlight' = Len(offers) + Count(incoming, RealOffer)' + 1
                         + answers + Count(events, {"answer"})
    BY <1>1, <1>3, <1>4, <1>n, <2>1 DEF InFlight
  <2>4. Accounted'
    <3> SUFFICES ASSUME Working', ~Recovers'
                 PROVE  InFlight' >= Owed' /\ LastIsLocal' /\ (InFlight' = Owed' => LastIsAnswered')
      BY DEF Accounted
    <3>1. LastIsLocal
      BY <1>1, <1>4 DEF FlightInv, Accounted
    <3>2. InFlight' >= Owed'
      BY <1>3, <1>4, <1>n, <2>3
    <3>3. ASSUME InFlight' = Owed'
          PROVE  LastIsAnswered'
      <4>1. offers = <<>> /\ Count(incoming, RealOffer)' = 0
        BY <1>3, <1>4, <1>n, <2>3, <3>3
      <4>2. pendingOffer' = local' /\ pendingOffer' # NoOffer
        BY <1>1, <1>8, <2>1, <3>1, <4>1
      <4> QED
        BY <4>2 DEF LastIsAnswered
    <3> QED
      BY <1>7, <3>1, <3>2, <3>3
  <2> QED
    BY <1>5, <1>6, <2>2, <2>4 DEF FlightInv
<1>10. CASE ~waits
  <2>1. ApplyOffer(o) /\ pendingOffer' = pendingOffer
    BY <1>10 DEF HandleOffer, waits, o
  <2>2. CASE failed' = TRUE
    BY <1>5, <2>2, StoppedKeeps DEF Working
  <2>3. CASE failed' # TRUE
    <3>1. /\ remote' = o
          /\ answers' = IF link = "down" THEN answers ELSE answers + 1
          /\ gathering' = IF remote.gen # o.gen
                          THEN [gathering EXCEPT !["answerer"] = "gathering"] ELSE gathering
      BY <2>1, <2>3 DEF ApplyOffer
    <3>2. gathering'["answerer"] \in {gathering["answerer"], "gathering"}
      <4>1. gathering \in [Sides -> {"new", "gathering", "complete"}] /\ "answerer" \in Sides
        BY DEF TypeOK, Sides
      <4> QED
        BY <3>1, <4>1
    <3>3. PendingKept'
      <4> SUFFICES ASSUME pendingOffer # NoOffer, gathering["answerer"] # "gathering"
                   PROVE  \E i \in DOMAIN incoming' : incoming'[i] = NoOffer
        BY <2>1, <3>2 DEF PendingKept
      <4>1. incoming \in Seq(Offer) /\ \E i \in 1..Len(incoming) : incoming[i] = NoOffer
        BY <1>1 DEF FlightInv, PendingKept, TypeOK
      <4>2. \E i \in 1..Len(Tail(incoming)) : Tail(incoming)[i] = NoOffer
        BY <1>1, <4>1, TailHas DEF o
      <4>3. DOMAIN incoming' = 1..Len(Tail(incoming))
        BY <1>1, <4>1, HeadTailProperties
      <4> QED
        BY <1>1, <4>2, <4>3
    <3>4. link # "down" => InFlight' = InFlight
      <4>1. pendingOffer' = pendingOffer /\ (link # "down" => answers' = answers + 1)
        BY <2>1, <3>1
      <4>2. SUFFICES ASSUME link # "down"
                    PROVE  InFlight' = InFlight
        OBVIOUS
      <4>3. answers' = answers + 1
        BY <4>1, <4>2
      <4>4. /\ InFlight = Len(offers) + Count(incoming, RealOffer)
                        + (IF pendingOffer = NoOffer THEN 0 ELSE 1)
                        + answers + Count(events, {"answer"})
            /\ InFlight' = Len(offers) + Count(incoming, RealOffer)'
                         + (IF pendingOffer = NoOffer THEN 0 ELSE 1)
                         + answers' + Count(events, {"answer"})'
        BY <1>1, <4>1 DEF InFlight
      <4> QED
        BY SMTT(30), <1>3, <1>4, <1>n, <4>3, <4>4
    <3>5. Accounted'
      <4> SUFFICES ASSUME Working', ~Recovers'
                   PROVE  InFlight' >= Owed' /\ LastIsLocal' /\ (InFlight' = Owed' => LastIsAnswered')
        BY DEF Accounted
      <4>1. InFlight >= Owed /\ LastIsLocal /\ (InFlight = Owed => LastIsAnswered)
        BY <1>1, <1>4 DEF FlightInv, Accounted
      <4>3. InFlight' = InFlight
        BY <1>1, <1>4, <3>4 DEF Recovers
      <4>4. ASSUME InFlight' = Owed'
            PROVE  LastIsAnswered'
        <5>1. pendingOffer # NoOffer => pendingOffer = local
          BY <1>4, <4>1, <4>3, <4>4 DEF LastIsAnswered
        <5>2. offers = <<>> /\ Count(incoming, RealOffer)' = 0 => remote' = local
          BY <1>8, <3>1, <4>1
        <5> QED
          BY <1>1, <2>1, <5>1, <5>2 DEF LastIsAnswered
      <4> QED
        BY <1>4, <1>7, <4>1, <4>3, <4>4
    <3> QED
      BY <1>5, <1>6, <3>3, <3>5 DEF FlightInv
  <2> QED
    BY <2>2, <2>3
<1> QED
  BY <1>9, <1>10
\* What waited for the answerer's gathering is applied and answered.
LEMMA GatheredKeeps ==
  ASSUME TypeOK, TypeOK', FlightInv, HandleGatheredAnswerer
  PROVE  FlightInv'
<1>1. /\ Working /\ incoming # <<>> /\ incoming' = Tail(incoming) /\ Head(incoming) = NoOffer
      /\ pendingOffer' = NoOffer
      /\ UNCHANGED <<events, negotiation, afterGathering, local, offers, link, closed>>
  BY DEF HandleGatheredAnswerer, offererVars
<1>2. /\ Count(incoming, RealOffer)' = Count(incoming, RealOffer)
      /\ Count(incoming, RealOffer) \in Nat
  BY <1>1, LastOfTail, FlightNumbers DEF RealOffer
<1>3. /\ Count(events, {"answer"})' = Count(events, {"answer"})
      /\ Owed' = Owed /\ (Recovers' <=> Recovers)
  BY <1>1 DEF Count, Owed, Recovers, Posted
<1>n. /\ Len(offers) \in Nat /\ (Len(offers) = 0 <=> offers = <<>>)
      /\ Count(events, {"answer"}) \in Nat /\ answers \in Nat
  BY FlightNumbers
<1>4. SentReal' /\ PendingKept'
  BY <1>1 DEF FlightInv, SentReal, PendingKept
<1>5. LastIsLocal => LastIsLocal'
  BY <1>1, StillLast
<1>6. CASE pendingOffer # NoOffer
  <2>1. ApplyOffer(pendingOffer)
    BY <1>6 DEF HandleGatheredAnswerer
  <2>2. CASE failed' = TRUE
    BY <1>4, <2>2, StoppedKeeps DEF Working
  <2>3. CASE failed' # TRUE
    <3>1. /\ remote' = pendingOffer
          /\ answers' = IF link = "down" THEN answers ELSE answers + 1
      BY <2>1, <2>3 DEF ApplyOffer
    <3>2. Untouched'
      <4>1. InFlight # 0
        BY <1>2, <1>6, <1>n DEF InFlight
      <4> QED
        BY <1>1, <4>1 DEF FlightInv, Untouched
    <3>3. link # "down" => InFlight' = InFlight
      <4> SUFFICES ASSUME link # "down"
                   PROVE  InFlight' = InFlight
        OBVIOUS
      <4>1. answers' = answers + 1
        BY <3>1
      <4>2. /\ InFlight = Len(offers) + Count(incoming, RealOffer) + 1
                            + answers + Count(events, {"answer"})
            /\ InFlight' = Len(offers) + Count(incoming, RealOffer)' + 0
                             + answers' + Count(events, {"answer"})'
        BY <1>1, <1>6 DEF InFlight
      <4> QED
        BY <1>2, <1>3, <1>n, <4>1, <4>2
    <3>4. Accounted'
      <4> SUFFICES ASSUME Working', ~Recovers'
                   PROVE  InFlight' >= Owed' /\ LastIsLocal' /\ (InFlight' = Owed' => LastIsAnswered')
        BY DEF Accounted
      <4>1. InFlight >= Owed /\ LastIsLocal /\ (InFlight = Owed => LastIsAnswered)
        BY <1>1, <1>3 DEF FlightInv, Accounted
      <4>2. InFlight' = InFlight
        BY <1>1, <1>3, <3>3 DEF Recovers
      <4>3. LastIsAnswered => remote' = local'
        BY <1>1, <1>6, <3>1 DEF LastIsAnswered
      <4>4. InFlight' = Owed' => LastIsAnswered'
        BY <1>1, <1>3, <4>1, <4>2, <4>3 DEF LastIsAnswered
      <4> QED
        BY <1>3, <1>5, <4>1, <4>2, <4>4
    <3> QED
      BY <1>4, <3>2, <3>4 DEF FlightInv
  <2> QED
    BY <2>2, <2>3
<1>7. CASE pendingOffer = NoOffer
  <2>1. UNCHANGED <<remote, gathering, answers, failed>>
    BY <1>7 DEF HandleGatheredAnswerer
  <2>2. InFlight' = InFlight
    BY <1>1, <1>2, <1>3, <1>7, <2>1 DEF InFlight
  <2>3. Untouched'
    BY <1>1, <2>1, <2>2 DEF FlightInv, Untouched, Working
  <2>4. LastIsAnswered => LastIsAnswered'
    BY <1>1, <1>2, <1>7, <2>1 DEF LastIsAnswered
  <2>5. Accounted'
    BY <1>1, <1>3, <1>5, <2>1, <2>2, <2>4 DEF FlightInv, Accounted
  <2> QED
    BY <1>4, <2>3, <2>5 DEF FlightInv
<1> QED
  BY <1>6, <1>7

\* What is appended to the answerer's queue, and what is last in it then.
LEMMA LastOfAppend ==
  ASSUME TypeOK, NEW o \in Offer, incoming' = Append(incoming, o)
  PROVE  /\ Count(incoming, RealOffer)'
              = Count(incoming, RealOffer) + (IF o = NoOffer THEN 0 ELSE 1)
         /\ \A i \in DOMAIN incoming' : LastIncoming(i)' =>
              IF o = NoOffer
              THEN i \in DOMAIN incoming /\ LastIncoming(i) /\ incoming'[i] = incoming[i]
              ELSE incoming'[i] = o
         /\ o = NoOffer \/ (\E i \in DOMAIN incoming : incoming[i] = NoOffer)
              => \E i \in DOMAIN incoming' : incoming'[i] = NoOffer
<1>1. /\ incoming \in Seq(Offer) /\ Len(incoming) \in Nat
      /\ DOMAIN incoming = 1..Len(incoming) /\ DOMAIN incoming' = 1..(Len(incoming) + 1)
      /\ incoming'[Len(incoming) + 1] = o
      /\ \A i \in 1..Len(incoming) : incoming'[i] = incoming[i]
  BY AppendProperties, LenProperties DEF TypeOK
<1>2. Count(incoming, RealOffer)'
        = Count(incoming, RealOffer) + (IF o = NoOffer THEN 0 ELSE 1)
  <2>1. Count(incoming, RealOffer)' = Count(Append(incoming, o), RealOffer)
    BY DEF Count, RealOffer
  <2>2. Count(Append(incoming, o), RealOffer)
          = Count(incoming, RealOffer) + (IF o \in RealOffer THEN 1 ELSE 0)
    BY <1>1, CountAppend
  <2>3. o \in RealOffer <=> o # NoOffer
    BY DEF RealOffer
  <2> QED
    BY <2>1, <2>2, <2>3
<1>3. ASSUME NEW i \in DOMAIN incoming', LastIncoming(i)'
      PROVE  IF o = NoOffer
             THEN i \in DOMAIN incoming /\ LastIncoming(i) /\ incoming'[i] = incoming[i]
             ELSE incoming'[i] = o
  <2>1. incoming'[i] # NoOffer /\ \A j \in DOMAIN incoming' : j > i => incoming'[j] = NoOffer
    BY <1>3 DEF LastIncoming
  <2>2. CASE o = NoOffer
    <3>1. i \in DOMAIN incoming /\ incoming'[i] = incoming[i]
      BY <1>1, <1>3, <2>1, <2>2
    <3>2. \A j \in DOMAIN incoming : j > i => incoming[j] = NoOffer
      BY <1>1, <2>1
    <3> QED
      BY <2>1, <2>2, <3>1, <3>2 DEF LastIncoming
  <2>3. CASE o # NoOffer
    <3>1. i = Len(incoming) + 1
      BY <1>1, <1>3, <2>1, <2>3
    <3> QED
      BY <1>1, <2>3, <3>1
  <2> QED
    BY <2>2, <2>3
<1>4. ASSUME o = NoOffer \/ (\E i \in DOMAIN incoming : incoming[i] = NoOffer)
      PROVE  \E i \in DOMAIN incoming' : incoming'[i] = NoOffer
  <2>1. CASE o = NoOffer
    BY <1>1, <2>1
  <2>2. CASE \E i \in DOMAIN incoming : incoming[i] = NoOffer
    BY <1>1, <2>2
  <2> QED
    BY <1>4, <2>1, <2>2
<1> QED
  BY <1>2, <1>3, <1>4

\* Gathering comes to its end.
LEMMA CompletionKeeps ==
  ASSUME TypeOK, TypeOK', StateAgrees', FlightInv, NEW s \in Sides, GatheringCompletes(s)
  PROVE  FlightInv'
<1>1. /\ Working /\ gathering' = [gathering EXCEPT ![s] = "complete"]
      /\ UNCHANGED <<negotiation, afterGathering, local, remote, pendingOffer, offers, answers,
                     link, failed, closed>>
  BY DEF GatheringCompletes, watchVars, wireVars
<1>2. CASE s = "offerer"
  <2>1. events' = Append(events, "gathered") /\ incoming' = incoming
    BY <1>2 DEF GatheringCompletes
  <2>2. /\ Count(events, {"answer"})' = Count(events, {"answer"})
        /\ Posted("restart") => Posted("restart")'
    BY <2>1, AnswersCounted DEF Signals
  <2>3. InFlight' = InFlight
    BY <1>1, <2>1, <2>2 DEF InFlight, Count, RealOffer
  <2>4. Owed' = Owed /\ (Recovers => Recovers')
    BY <1>1, <2>2 DEF Owed, Recovers
  <2>5. gathering'["answerer"] = gathering["answerer"]
    BY <1>1, <1>2 DEF TypeOK, Sides
  <2> QED
    BY <1>1, <2>1, <2>3, <2>4, <2>5, FlightFrame
<1>3. CASE s = "answerer"
  <2>1. incoming' = Append(incoming, NoOffer) /\ events' = events
    BY <1>3 DEF GatheringCompletes
  <2>2. NoOffer \in Offer
    BY DEF Offer, NoOffer
  <2>3. /\ Count(incoming, RealOffer)' = Count(incoming, RealOffer)
        /\ Count(incoming, RealOffer) \in Nat
        /\ \A i \in DOMAIN incoming' : LastIncoming(i)' =>
             i \in DOMAIN incoming /\ LastIncoming(i) /\ incoming'[i] = incoming[i]
        /\ \E i \in DOMAIN incoming' : incoming'[i] = NoOffer
    BY <2>1, <2>2, LastOfAppend, FlightNumbers
  <2>4. /\ Count(events, {"answer"})' = Count(events, {"answer"})
        /\ Owed' = Owed /\ (Recovers' <=> Recovers)
    BY <1>1, <2>1 DEF Count, Owed, Recovers, Posted
  <2>5. InFlight' = InFlight
    BY <1>1, <2>3, <2>4 DEF InFlight
  <2>6. SentReal' /\ Untouched' /\ PendingKept'
    BY <1>1, <2>3, <2>5 DEF FlightInv, SentReal, Untouched, PendingKept, Working
  <2>7. LastIsLocal => LastIsLocal'
    <3>1. CASE offers # <<>>
      BY <1>1, <3>1 DEF LastIsLocal
    <3>2. CASE offers = <<>>
      <4>1. LastIsLocal => \A i \in DOMAIN incoming' : LastIncoming(i)' => incoming'[i] = local
        BY <2>3, <3>2 DEF LastIsLocal
      <4> QED
        BY <1>1, <3>2, <4>1 DEF LastIsLocal
    <3> QED
      BY <3>1, <3>2
  <2>8. LastIsAnswered => LastIsAnswered'
    BY <1>1, <2>3 DEF LastIsAnswered
  <2>9. Accounted'
    BY <1>1, <2>4, <2>5, <2>7, <2>8 DEF FlightInv, Accounted, Working
  <2> QED
    BY <2>6, <2>9 DEF FlightInv
<1> QED
  BY <1>2, <1>3 DEF Sides

-----------------------------------------------------------------------------
(* The signal connection.                                                  *)

\* An offer comes off the connection into the answerer's queue.
LEMMA DeliveredKeeps ==
  ASSUME TypeOK, TypeOK', FlightInv, DeliverOffer
  PROVE  FlightInv'
<1> DEFINE o == Head(offers)
<1>1. /\ Working /\ offers # <<>> /\ offers' = Tail(offers) /\ incoming' = Append(incoming, o)
      /\ UNCHANGED <<events, negotiation, afterGathering, gathering, local, remote, pendingOffer,
                     answers, link, failed, closed>>
  BY DEF DeliverOffer, offererVars, watchVars
<1>2. /\ offers \in Seq(Offer) /\ Len(offers) \in Nat \ {0} /\ Len(offers') = Len(offers) - 1
      /\ offers' \in Seq(Offer)
      /\ DOMAIN offers = 1..Len(offers) /\ DOMAIN offers' = 1..(Len(offers) - 1)
      /\ \A i \in 1..(Len(offers) - 1) : offers'[i] = offers[i + 1]
      /\ o = offers[1] /\ o \in Offer
  BY <1>1, HeadTailProperties, EmptySeq, LenProperties DEF TypeOK
<1>3. o # NoOffer /\ SentReal'
  <2>1. \A i \in 1..Len(offers) : offers[i] # NoOffer
    BY <1>2 DEF FlightInv, SentReal
  <2> QED
    BY <1>2, <2>1 DEF SentReal
<1> HIDE DEF o
<1>4. /\ Count(incoming, RealOffer)' = Count(incoming, RealOffer) + 1
      /\ \A i \in DOMAIN incoming' : LastIncoming(i)' => incoming'[i] = o
      /\ (\E i \in DOMAIN incoming : incoming[i] = NoOffer)
           => \E i \in DOMAIN incoming' : incoming'[i] = NoOffer
  BY <1>1, <1>2, <1>3, LastOfAppend
<1>5. /\ Count(events, {"answer"})' = Count(events, {"answer"})
      /\ Owed' = Owed /\ (Recovers' <=> Recovers)
  BY <1>1 DEF Count, Owed, Recovers, Posted
<1>n. /\ Count(incoming, RealOffer) \in Nat /\ answers \in Nat
      /\ Count(events, {"answer"}) \in Nat
  BY FlightNumbers
<1>6. InFlight' = InFlight /\ InFlight # 0
  BY SMTT(30), <1>1, <1>2, <1>4, <1>5, <1>n DEF InFlight
<1>7. Untouched' /\ PendingKept'
  BY <1>1, <1>4, <1>6 DEF FlightInv, Untouched, PendingKept
<1>8. LastIsLocal => LastIsLocal'
  <2> SUFFICES ASSUME LastIsLocal
               PROVE  LastIsLocal'
    OBVIOUS
  <2>1. offers[Len(offers)] = local
    BY <1>1 DEF LastIsLocal
  <2>2. CASE Len(offers) = 1
    <3>1. offers' = <<>> /\ o = local
      BY <1>2, <2>1, <2>2, EmptySeq
    <3> QED
      BY <1>1, <1>4, <3>1 DEF LastIsLocal
  <2>3. CASE Len(offers) # 1
    <3>1. offers' # <<>> /\ offers'[Len(offers')] = local
      BY <1>2, <2>1, <2>3
    <3> QED
      BY <1>1, <3>1 DEF LastIsLocal
  <2> QED
    BY <2>2, <2>3
<1>9. LastIsAnswered => LastIsAnswered'
  <2>1. Count(incoming, RealOffer)' # 0
    BY <1>4, <1>n
  <2> QED
    BY <1>1, <2>1 DEF LastIsAnswered
<1>10. Accounted'
  BY <1>1, <1>5, <1>6, <1>8, <1>9 DEF FlightInv, Accounted
<1> QED
  BY <1>3, <1>7, <1>10 DEF FlightInv

\* What is lost with the connection is recovered by a restart.
LEMMA LossKeeps ==
  ASSUME TypeOK, TypeOK', FlightInv, LinkLost
  PROVE  FlightInv'
<1>1. /\ Working /\ link' = "down" /\ offers' = <<>> /\ answers' \in 0..answers
      /\ UNCHANGED <<events, local, remote, incoming, pendingOffer, gathering, failed, closed>>
  BY DEF LinkLost, offererVars, answererVars
<1>2. SentReal' /\ Accounted'
  BY <1>1 DEF SentReal, Accounted, Recovers
<1>3. PendingKept'
  BY <1>1 DEF FlightInv, PendingKept
<1>4. Untouched'
  <2> SUFFICES ASSUME local = NoOffer
               PROVE  InFlight' = 0 /\ remote' = NoOffer
    BY <1>1 DEF Untouched
  <2>1. InFlight = 0 /\ remote = NoOffer
    BY <1>1 DEF FlightInv, Untouched
  <2>2. /\ Count(incoming, RealOffer) = 0 /\ pendingOffer = NoOffer /\ answers = 0
        /\ Count(events, {"answer"}) = 0
    BY <2>1, FlightNumbers DEF InFlight
  <2>3. Len(offers') = 0 /\ answers' = 0
    BY <1>1, <2>2
  <2>4. Count(incoming, RealOffer)' = 0 /\ Count(events, {"answer"})' = 0
    BY <1>1, <2>2 DEF Count, RealOffer
  <2> QED
    BY <1>1, <2>1, <2>2, <2>3, <2>4 DEF InFlight
<1> QED
  BY <1>2, <1>3, <1>4 DEF FlightInv
\* Every action keeps what is on its way accounted for.
LEMMA FlightPreserved ==
  ASSUME TypeOK, TypeOK', StateAgrees, StateAgrees', FlightInv, [Next]_vars
  PROVE  FlightInv'
<1>1. ASSUME NEW force \in BOOLEAN, Negotiate(force)
      PROVE  FlightInv'
  <2>1. /\ Count(events, {"answer"})' = Count(events, {"answer"})
        /\ Posted("restart") => Posted("restart")'
    <3>1. CASE force
      BY <1>1, <3>1, AnswersCounted DEF Negotiate, Signals
    <3>2. CASE ~force
      BY <1>1, <3>2 DEF Negotiate, Count, Posted
    <3> QED
      BY <3>1, <3>2
  <2>2. InFlight' = InFlight /\ Owed' = Owed /\ (Recovers => Recovers')
    BY <1>1, <2>1 DEF Negotiate, InFlight, Owed, Recovers, Count, RealOffer, answererVars, wireVars
  <2> QED
    BY <1>1, <2>2, FlightFrame DEF Negotiate, answererVars, wireVars
<1>2. CASE DebounceFires
  <2>1. /\ Count(events, {"answer"})' = Count(events, {"answer"})
        /\ Posted("restart") => Posted("restart")'
    BY <1>2, AnswersCounted DEF DebounceFires, Signals
  <2>2. InFlight' = InFlight /\ Owed' = Owed /\ (Recovers => Recovers')
    BY <1>2, <2>1 DEF DebounceFires, InFlight, Owed, Recovers, Count, RealOffer, answererVars, wireVars
  <2> QED
    BY <1>2, <2>2, FlightFrame DEF DebounceFires, answererVars, wireVars
<1>3. CASE HandleSendOffer
  <2>1. /\ Working /\ Handles("offer") /\ CreateAndSendOffer(negotiation, FALSE, timer)
        /\ UNCHANGED <<incoming, pendingOffer, remote, answers, link, afterGathering>>
    BY <1>3 DEF HandleSendOffer, Handles, answererVars
  <2>2. CASE negotiation = "none"
    <3>1. timer \in Nat /\ CreateAndSendOffer("none", FALSE, timer)
      BY <2>1, <2>2 DEF TypeOK
    <3> QED
      BY <2>1, <3>1, CreateKeeps
  <2>3. CASE negotiation # "none"
    <3>1. negotiation' = "retry" /\ UNCHANGED <<local, gathering, offers>>
      BY <2>1, <2>3 DEF CreateAndSendOffer
    <3>2. /\ Count(events, {"answer"})' = Count(events, {"answer"})
          /\ Posted("restart") => Posted("restart")'
      BY <2>1, AnswersCounted DEF Signals
    <3>3. InFlight' = InFlight /\ Owed' = Owed /\ (Recovers => Recovers')
      BY <2>1, <2>3, <3>1, <3>2 DEF InFlight, Owed, Recovers, Count, RealOffer
    <3> QED
      BY <2>1, <3>1, <3>3, FlightFrame
  <2> QED
    BY <2>2, <2>3
<1>4. CASE AnswerRefused
  BY <1>4, StoppedKeeps DEF AnswerRefused, FlightInv, SentReal, Working, wireVars
<1>5. CASE HandleAnswer
  <2>1. CASE negotiation = "retry"
    <3>1. /\ Working /\ CreateAndSendOffer("none", FALSE, 0)
          /\ UNCHANGED <<incoming, pendingOffer, remote, answers, link>>
      BY <1>5, <2>1 DEF HandleAnswer, Handles, answererVars
    <3> QED
      BY <3>1, CreateKeeps
  <2> QED
    BY <1>5, <2>1, AnswerKeeps
<1>6. CASE HandleICERestart
  BY <1>6, RestartKeeps DEF HandleICERestart, Handles, answererVars
<1>7. CASE HandleGathered
  <2>1. CASE afterGathering
    BY <1>7, <2>1, RestartKeeps DEF HandleGathered, Handles, answererVars
  <2>2. CASE ~afterGathering
    <3>1. /\ Working /\ Handles("gathered")
          /\ UNCHANGED <<negotiation, local, gathering, offers, incoming, pendingOffer, remote,
                         answers, link>>
      BY <1>7, <2>2 DEF HandleGathered, Handles, answererVars
    <3>2. /\ Count(events, {"answer"})' = Count(events, {"answer"})
          /\ Posted("restart") => Posted("restart")'
      BY <3>1, AnswersCounted DEF Signals
    <3>3. InFlight' = InFlight /\ Owed' = Owed /\ (Recovers => Recovers')
      BY <2>2, <3>1, <3>2 DEF InFlight, Owed, Recovers, Count, RealOffer
    <3> QED
      BY <3>1, <3>3, FlightFrame
  <2> QED
    BY <2>1, <2>2
<1>8. CASE TimerStep \/ Resume \/ UNCHANGED vars
  <2>1. /\ UNCHANGED <<offers, incoming, pendingOffer, local, remote, gathering, answers,
                       events, negotiation, afterGathering>>
        /\ link' # link => link' = "resumed"
    BY <1>8 DEF TimerStep, TimerFires, TimerClears, TimerChecks, Resume, vars, offererVars,
                watchVars, answererVars, wireVars
  <2>2. InFlight' = InFlight /\ Owed' = Owed /\ (Recovers => Recovers')
    BY <2>1 DEF InFlight, Owed, Recovers, Count, RealOffer, Posted
  <2>3. CASE Working
    BY <2>1, <2>2, <2>3, FlightFrame
  <2>4. CASE ~Working
    <3>1. UNCHANGED <<offers, failed, closed>>
      BY <1>8, <2>4 DEF TimerStep, TimerFires, TimerClears, TimerChecks, Resume, vars, wireVars
    <3> QED
      BY <2>4, <3>1, StoppedKeeps DEF FlightInv, SentReal, Working
  <2> QED
    BY <2>3, <2>4
<1>9. CASE HandleOffer
  BY <1>9, OfferKeeps
<1>10. CASE HandleGatheredAnswerer
  BY <1>10, GatheredKeeps
<1>11. ASSUME NEW s \in Sides, GatheringCompletes(s)
       PROVE  FlightInv'
  BY <1>11, CompletionKeeps
<1>12. CASE DeliverOffer
  BY <1>12, DeliveredKeeps
<1>13. CASE DeliverAnswer
  <2>1. /\ Working /\ answers > 0 /\ answers' = answers - 1
        /\ events' = Append(events, "answer")
        /\ UNCHANGED <<negotiation, local, remote, incoming, pendingOffer, gathering, offers,
                       link, afterGathering>>
    BY <1>13 DEF DeliverAnswer, answererVars
  <2>2. /\ Count(events, {"answer"})' = Count(events, {"answer"}) + 1
        /\ Posted("restart") => Posted("restart")'
    BY <2>1, AnswersCounted DEF Signals
  <2>3. Count(incoming, RealOffer)' = Count(incoming, RealOffer)
    BY <2>1 DEF Count, RealOffer
  <2>4. InFlight' = InFlight
    <3>1. answers \in Nat /\ answers' = answers - 1 /\ Len(offers) \in Nat
          /\ Count(incoming, RealOffer) \in Nat /\ Count(events, {"answer"}) \in Nat
      BY <2>1, FlightNumbers
    <3>2. InFlight' = Len(offers) + Count(incoming, RealOffer)'
                       + (IF pendingOffer = NoOffer THEN 0 ELSE 1)
                       + answers' + Count(events, {"answer"})'
      BY <2>1 DEF InFlight
    <3>3. InFlight = Len(offers) + Count(incoming, RealOffer)
                       + (IF pendingOffer = NoOffer THEN 0 ELSE 1)
                       + answers + Count(events, {"answer"})
      BY DEF InFlight
    <3>4. answers' + Count(events, {"answer"})' = answers + Count(events, {"answer"})
      BY <2>2, <3>1
    <3>5. answers' \in Nat /\ Count(events, {"answer"})' \in Nat
      BY <2>1, <2>2, <3>1
    <3> QED
      BY SMTT(30), <2>3, <3>1, <3>2, <3>3, <3>4, <3>5
  <2>5. Owed' = Owed /\ (Recovers => Recovers')
    BY <2>1, <2>2 DEF Owed, Recovers
  <2> QED
    BY <2>1, <2>4, <2>5, FlightFrame
<1>14. CASE LinkLost
  BY <1>14, LossKeeps
<1>15. CASE ICERestart
  <2>1. /\ Working /\ events' = Append(events, "restart")
        /\ UNCHANGED <<negotiation, local, remote, incoming, pendingOffer, gathering, offers,
                       answers>>
    BY <1>15 DEF ICERestart, answererVars
  <2>2. Count(events, {"answer"})' = Count(events, {"answer"}) /\ Posted("restart")'
    BY <2>1, AnswersCounted, PostKeeps DEF Signals
  <2>3. InFlight' = InFlight /\ Owed' = Owed /\ Recovers'
    BY <2>1, <2>2 DEF InFlight, Owed, Recovers, Count, RealOffer
  <2> QED
    BY <2>1, <2>3, FlightFrame
<1>16. CASE Close
  BY <1>16, StoppedKeeps DEF Close, FlightInv, SentReal, Working, wireVars
<1> QED
  BY <1>1, <1>2, <1>3, <1>4, <1>5, <1>6, <1>7, <1>8, <1>9, <1>10, <1>11, <1>12, <1>13, <1>14,
     <1>15, <1>16 DEF Next

\* What is accounted for has arrived once nothing is under way.
LEMMA SettledMeans ==
  ASSUME NegotiationInv, FlightInv
  PROVE  SettledAgrees
<1> SUFFICES ASSUME Settled
             PROVE  negotiation = "none" /\ remote = local /\ local.changes = changes
  BY DEF SettledAgrees
<1> USE DEF NegotiationInv
<1>1. /\ Working /\ link = "up" /\ ~debounce
      /\ events = <<>> /\ incoming = <<>> /\ offers = <<>> /\ answers = 0
      /\ gathering["offerer"] # "gathering" /\ gathering["answerer"] # "gathering"
  BY DEF Settled, Sides
<1>2. \A e : ~Posted(e)
  BY <1>1 DEF Posted
<1>3. ~Recovers
  BY <1>1, <1>2 DEF Recovers, RestartKept, Working
<1>4. pendingOffer = NoOffer
  BY <1>1 DEF FlightInv, PendingKept
<1>5. Count(incoming, RealOffer) = 0 /\ Count(events, {"answer"}) = 0
  <2>1. Count(<<>>, RealOffer) = 0 /\ Count(<<>>, {"answer"}) = 0
    BY FS_EmptySet DEF Count
  <2> QED
    BY <1>1, <2>1
<1>6. InFlight = 0
  BY <1>1, <1>4, <1>5 DEF InFlight
<1>7. InFlight >= Owed /\ (InFlight = Owed => LastIsAnswered)
  BY <1>1, <1>3 DEF FlightInv, Accounted
<1>8. Owed = 0 /\ negotiation = "none"
  BY <1>6, <1>7, FlightNumbers
<1>9. remote = local
  BY <1>1, <1>4, <1>5, <1>6, <1>7, <1>8 DEF LastIsAnswered
<1>10. local.changes = changes
  BY <1>1, <1>2, <1>8 DEF RequestKept
<1> QED
  BY <1>8, <1>9, <1>10

\* Both ends agree on the last offer, which covers all changes, whenever nothing
\* is under way: whatever was lost with a signal connection, put off by gathering,
\* sent twice or answered late before (transport.go, all handlers).
THEOREM EndsAgree == Spec => []SettledAgrees
<1>1. Init => FlightInv
  <2> SUFFICES ASSUME Init
               PROVE  FlightInv
    OBVIOUS
  <2>1. Count(<<>>, RealOffer) = 0 /\ Count(<<>>, {"answer"}) = 0
    BY FS_EmptySet DEF Count
  <2>2. InFlight = 0 /\ Owed = 0
    BY <2>1 DEF Init, InFlight, Owed
  <2>3. SentReal /\ Untouched /\ PendingKept
    BY <2>2 DEF Init, SentReal, Untouched, PendingKept
  <2>4. LastIsLocal /\ LastIsAnswered
    BY DEF Init, LastIsLocal, LastIncoming, LastIsAnswered
  <2> QED
    BY <2>2, <2>3, <2>4 DEF FlightInv, Accounted
<1>2. NegotiationInv /\ NegotiationInv' /\ FlightInv /\ [Next]_vars => FlightInv'
  BY FlightPreserved DEF NegotiationInv
<1>3. NegotiationInv /\ FlightInv => SettledAgrees
  BY SettledMeans
<1> QED
  BY <1>1, <1>2, <1>3, NegotiationInvariant, PTL DEF Spec
=============================================================================
