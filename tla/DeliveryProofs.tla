--------------------------- MODULE DeliveryProofs ---------------------------
(***************************************************************************)
(* Proofs about what the server hands on without losing it: data messages  *)
(* (DataMessages), the operations of a queue (OpsQueue), the items of a    *)
(* dispatcher (IncrementalDispatcher), the qualities a publisher is asked  *)
(* for (Dynacast) and the channel that video tracks share                  *)
(* (StreamAllocator).                                                      *)
(***************************************************************************)
EXTENDS DataMessages, OpsQueue, IncrementalDispatcher, Dynacast, StreamAllocator,
        NaturalsInduction, WellFoundedInduction, SequenceTheorems, FiniteSetTheorems, TLAPS

----------------------------------------------------------------------------
(***************************************************************************)
(* DataMessages, for any publishers, participants, messages and addresses: *)
(* what a publisher sends is forwarded without a gap, and each participant *)
(* is sent it in order, once, and completely.                              *)
(***************************************************************************)
PairsOf(S) == [Receivers -> [Senders -> S]]
Types ==
  /\ next \in [Senders -> Nat] /\ last \in [Senders -> Nat]
  /\ step \in [Senders -> {"none", "cache", "list", "send"}]
  /\ unsent \in [Senders -> SUBSET present]
  /\ held \in [Senders -> SUBSET Nat] /\ toHandle \in [Senders -> SUBSET Nat]
  /\ messageCache \in [Senders -> SUBSET Nat] /\ expired \in [Senders -> SUBSET Nat]
  /\ forwarded \in [Senders -> SUBSET Nat]
  /\ refused \in [Senders -> SUBSET Nat] /\ kept \in [Senders -> SUBSET Nat]
  /\ awaited \subseteq Senders /\ gaveUp \subseteq Senders
  /\ present \subseteq Receivers /\ canWrite \subseteq present
  /\ first \in PairsOf(Nat) /\ written \in PairsOf(Nat)
  /\ offered \in PairsOf(SUBSET Nat) /\ got \in PairsOf(SUBSET Nat)
  /\ disordered \in BOOLEAN

\* A publisher's call: what was forwarded is in the cache or has expired, and is not
\* newer than the last message, which is new until it is in the cache.  What is kept
\* from the participants is none of that.
CallOf(s) ==
  /\ messageCache[s] \cup expired[s] = forwarded[s]
  /\ \A n \in forwarded[s] : n <= last[s] /\ (step[s] = "cache" => n < last[s])
  /\ \A n \in kept[s] : n <= last[s] /\ n \notin forwarded[s]
  /\ step[s] = "cache" => last[s] \notin kept[s]
  /\ step[s] \in {"list", "send"} => last[s] \in forwarded[s]
  /\ step[s] # "send" => unsent[s] = {}
  /\ \A r \in unsent[s] : r \in Dest[s][last[s]]

\* Unless a wait was given up: each number up to the last is one that was turned away
\* or has gone on, and so is, or is still to be handled, each one before those that come.
OnTime(s) ==
  /\ s \in awaited => last[s] = Came[s] /\ toHandle[s] = {} /\ step[s] = "none"
  /\ s \notin awaited =>
       \A n \in toHandle[s] \cup {next[s]}, m \in Nat :
         last[s] < m /\ m < n => m \in toHandle[s] \cup refused[s]
  /\ Passed(s) \subseteq (Came[s] + 1)..last[s]
  /\ ((Came[s] + 1)..last[s]) \ refused[s] \subseteq Passed(s)
Steady == \A s \in Senders : Came[s] <= last[s] /\ (s \notin gaveUp => OnTime(s))

\* Whether the last message of a publisher is still to be sent to a participant.
StillDue(r, s) == step[s] = "list" \/ (step[s] = "send" /\ r \in unsent[s])
WaitingOf(r, s) ==
  /\ got[r][s] = {} /\ written[r][s] = 0
  /\ first[r][s] # 0 => first[r][s] \in offered[r][s]
  /\ \A n \in offered[r][s] : first[r][s] # 0 /\ first[r][s] <= n
ConnectedOf(r, s) ==
  /\ first[r][s] = 0
  /\ \A n \in offered[r][s] : Replayable(r, s, n) => n \in got[r][s] \cup expired[s]
  /\ last[s] \in got[r][s] /\ StillDue(r, s) => written[r][s] # 0 /\ last[s] <= written[r][s]
PairOf(r, s) ==
  /\ offered[r][s] \subseteq forwarded[s] /\ got[r][s] \subseteq forwarded[s]
  /\ \A n \in offered[r][s] : r \in Dest[s][n]
  /\ written[r][s] # 0 => written[r][s] \in got[r][s]
  /\ IF r \in canWrite THEN ConnectedOf(r, s) ELSE WaitingOf(r, s)

DataInv ==
  /\ Types
  /\ \A s \in Senders : CallOf(s)
  /\ \A s \in Senders : step[s] # "none" => last[s] # 0
  /\ \A r \in Receivers, s \in Senders : PairOf(r, s)
  /\ ~disordered
----------------------------------------------------------------------------
(* A bounded set of numbers has a greatest: the numbers below the bound are *)
(* well-founded.                                                           *)
LEMMA GreatestIn ==
  ASSUME NEW S \in SUBSET Nat, NEW k \in Nat, \A n \in S : n <= k, S # {}
  PROVE  Greatest(S) \in S /\ \A n \in S : n <= Greatest(S)
<1> DEFINE R == OpToRel(<, Nat)
           Below == {k - n : n \in S}
<1>1. Below \subseteq Nat /\ Below # {}
  <2>1. \A n \in S : k - n \in Nat
    OBVIOUS
  <2>2. PICK n \in S : TRUE
    OBVIOUS
  <2>3. k - n \in Below
    OBVIOUS
  <2> QED BY <2>1, <2>3
<1>2. PICK x \in Below : \A y \in Below : ~ (<<y, x>> \in R)
  <2> HIDE DEF Below
  <2> QED BY <1>1, NatLessThanWellFounded, WFMin
<1>3. \A y \in Below : ~ (y < x)
  BY <1>1, <1>2 DEF OpToRel
<1>4. PICK n \in S : x = k - n
  OBVIOUS
<1>5. ASSUME NEW m \in S PROVE m <= n
  <2>1. k - m \in Below
    OBVIOUS
  <2>2. ~ (k - m < k - n)
    BY <1>3, <1>4, <2>1
  <2> QED BY <2>2
<1> QED
  BY <1>5 DEF Greatest

----------------------------------------------------------------------------
(* The invariant of each participant and publisher.                        *)

LEMMA DataStarts == ASSUME Came \in [Senders -> Nat], DataInit PROVE DataInv
<1>1. Types
  <2>1. next \in [Senders -> Nat]
    BY DEF DataInit
  <2>2. /\ first \in PairsOf(Nat) /\ written \in PairsOf(Nat)
        /\ offered \in PairsOf(SUBSET Nat) /\ got \in PairsOf(SUBSET Nat)
    BY DEF DataInit, PairsOf
  <2>3. awaited \subseteq Senders /\ last \in [Senders -> Nat]
    BY DEF DataInit
  <2> QED
    BY <2>1, <2>2, <2>3 DEF DataInit, Types
<1>2. \A s \in Senders : CallOf(s) /\ step[s] = "none"
  BY DEF DataInit, CallOf
<1>3. \A r \in Receivers, s \in Senders : PairOf(r, s)
  BY DEF DataInit, PairOf, WaitingOf
<1> QED
  BY <1>1, <1>2, <1>3 DEF DataInv, DataInit

\* What a step of a publisher leaves alone says nothing new of another one.
LEMMA CallSame ==
  ASSUME NEW s \in Senders, CallOf(s), messageCache'[s] = messageCache[s], expired'[s] = expired[s],
         forwarded'[s] = forwarded[s], last'[s] = last[s], step'[s] = step[s],
         unsent'[s] = unsent[s], kept'[s] = kept[s]
  PROVE  CallOf(s)'
  BY DEF CallOf

LEMMA PairSame ==
  ASSUME NEW r \in Receivers, NEW s \in Senders, PairOf(r, s),
         forwarded'[s] = forwarded[s], expired[s] \subseteq expired'[s],
         last'[s] = last[s], step'[s] = step[s], unsent'[s] = unsent[s],
         first'[r][s] = first[r][s], written'[r][s] = written[r][s],
         offered'[r][s] = offered[r][s], got'[r][s] = got[r][s],
         (r \in canWrite') <=> (r \in canWrite)
  PROVE  PairOf(r, s)'
  BY DEF PairOf, WaitingOf, ConnectedOf, StillDue

LEMMA ArriveKeeps == ASSUME DataInv, NEW t \in Senders, MessageArrives(t) PROVE DataInv'
<1> USE DEF DataInv
<1>1. Types'
  <2>1. /\ next[t] \in Nat /\ held[t] \in SUBSET Nat /\ toHandle[t] \in SUBSET Nat
        /\ refused[t] \in SUBSET Nat
    BY DEF Types
  <2>2. /\ next' \in [Senders -> Nat] /\ held' \in [Senders -> SUBSET Nat]
        /\ toHandle' \in [Senders -> SUBSET Nat] /\ refused' \in [Senders -> SUBSET Nat]
        /\ awaited' \subseteq Senders /\ gaveUp' \subseteq Senders
    BY <2>1 DEF Types, MessageArrives
  <2> QED
    BY <2>2 DEF Types, MessageArrives, sendingVars, roomState, receiver
<1>2. UNCHANGED <<messageCache, expired, forwarded, last, step, unsent, kept, receiver>>
  BY DEF MessageArrives, sendingVars, roomState
<1>3. \A s \in Senders : CallOf(s)'
  BY <1>2, CallSame
<1>4. \A r \in Receivers, s \in Senders : PairOf(r, s)'
  BY <1>2, PairSame DEF receiver
<1> QED
  BY <1>1, <1>2, <1>3, <1>4 DEF receiver

LEMMA ResendKeeps == ASSUME DataInv, Came \in [Senders -> Nat], NEW t \in Senders, Resend(t) PROVE DataInv'
<1> USE DEF DataInv
<1>1. Types'
  BY DEF Types, Resend, sendingVars, roomState, receiver, PairsOf
<1>2. UNCHANGED <<messageCache, expired, forwarded, last, step, unsent, kept, receiver>>
  BY DEF Resend, sendingVars, roomState
<1>3. \A s \in Senders : CallOf(s)'
  BY <1>2, CallSame
<1>4. \A r \in Receivers, s \in Senders : PairOf(r, s)'
  BY <1>2, PairSame DEF receiver
<1> QED
  BY <1>1, <1>2, <1>3, <1>4 DEF receiver

LEMMA HandleKeeps == ASSUME DataInv, NEW t \in Senders, Handle(t) PROVE DataInv'
<1> USE DEF DataInv
<1>1. Types'
  <2>1. PICK n \in toHandle[t] :
          /\ toHandle' = [toHandle EXCEPT ![t] = @ \ {n}]
          /\ IF last[t] >= n THEN UNCHANGED <<last, step, kept>>
             ELSE /\ last' = [last EXCEPT ![t] = n]
                  /\ \/ step' = [step EXCEPT ![t] = "cache"] /\ UNCHANGED kept
                     \/ kept' = [kept EXCEPT ![t] = @ \cup {n}] /\ UNCHANGED step
    BY DEF Handle
  <2>2. toHandle[t] \in SUBSET Nat /\ n \in Nat /\ kept[t] \in SUBSET Nat
    BY DEF Types
  <2>3. /\ toHandle' \in [Senders -> SUBSET Nat] /\ last' \in [Senders -> Nat]
        /\ step' \in [Senders -> {"none", "cache", "list", "send"}]
        /\ kept' \in [Senders -> SUBSET Nat]
    BY <2>1, <2>2 DEF Types
  <2> QED
    BY <2>3 DEF Types, Handle, roomState, receiver
<1>2. UNCHANGED <<messageCache, expired, forwarded, unsent, receiver>>
  BY DEF Handle, roomState
<1>3. \A s \in Senders :
        \/ last'[s] = last[s] /\ step'[s] = step[s] /\ kept'[s] = kept[s]
        \/ /\ step[s] = "none" /\ last'[s] > last[s]
           /\ \/ step'[s] = "cache" /\ kept'[s] = kept[s]
              \/ step'[s] = "none" /\ kept'[s] = kept[s] \cup {last'[s]}
  BY DEF Handle, Types
<1>4. ASSUME NEW s \in Senders
      PROVE  CallOf(s)' /\ (step'[s] # "none" => last'[s] # 0)
  <2>1. /\ last[s] \in Nat /\ last'[s] \in Nat /\ forwarded[s] \subseteq Nat
        /\ kept[s] \subseteq Nat
    BY <1>1 DEF Types
  <2> QED
    BY <1>2, <1>3, <2>1 DEF CallOf
<1>5. ASSUME NEW r \in Receivers, NEW s \in Senders
      PROVE  PairOf(r, s)'
  <2>1. last[s] \in Nat /\ last'[s] \in Nat /\ forwarded[s] \subseteq Nat
    BY <1>1 DEF Types
  <2>2. CASE last'[s] = last[s] /\ step'[s] = step[s]
    BY <1>2, <2>2, PairSame DEF receiver
  <2>3. CASE step[s] = "none" /\ step'[s] \in {"cache", "none"}
    BY <1>2, <2>3 DEF receiver, PairOf, WaitingOf, ConnectedOf, StillDue
  <2> QED
    BY <1>3, <2>2, <2>3
<1> QED
  BY <1>1, <1>2, <1>4, <1>5 DEF receiver

LEMMA CacheItKeeps == ASSUME DataInv, NEW t \in Senders, CacheIt(t) PROVE DataInv'
<1> USE DEF DataInv
<1>1. Types'
  BY DEF Types, CacheIt, publisher, receiver, PairsOf
<1>2. UNCHANGED <<last, expired, unsent, kept, canWrite, receiver>>
  BY DEF CacheIt, publisher, receiver
<1>3. /\ step[t] = "cache" /\ step'[t] = "list"
      /\ messageCache'[t] = messageCache[t] \cup {last[t]} /\ forwarded'[t] = forwarded[t] \cup {last[t]}
      /\ \A s \in Senders \ {t} : /\ step'[s] = step[s] /\ messageCache'[s] = messageCache[s]
                                  /\ forwarded'[s] = forwarded[s]
  BY DEF CacheIt, Types
<1>4. ASSUME NEW s \in Senders PROVE CallOf(s)'
  <2>1. CASE s # t
    BY <1>2, <1>3, <2>1, CallSame
  <2>2. CASE s = t
    <3>1. last[t] \in Nat /\ forwarded[t] \subseteq Nat
      BY DEF Types
    <3> QED
      BY <1>2, <1>3, <2>2, <3>1 DEF CallOf
  <2> QED BY <2>1, <2>2
<1>5. ASSUME NEW r \in Receivers, NEW s \in Senders PROVE PairOf(r, s)'
  <2>1. CASE s # t
    BY <1>2, <1>3, <2>1, PairSame DEF receiver
  <2>2. CASE s = t
    <3>1. last[t] \notin got[r][t]
      <4>1. last[t] \in Nat /\ forwarded[t] \subseteq Nat /\ CallOf(t) /\ PairOf(r, t)
        BY DEF Types
      <4> QED
        BY <1>3, <4>1 DEF CallOf, PairOf
    <3> QED
      BY <1>2, <1>3, <2>2, <3>1 DEF receiver, PairOf, WaitingOf, ConnectedOf
  <2> QED BY <2>1, <2>2
<1>6. \A s \in Senders : step'[s] # "none" => step[s] # "none"
  BY <1>3
<1> QED
  BY <1>1, <1>2, <1>4, <1>5, <1>6 DEF receiver

LEMMA ListKeeps == ASSUME DataInv, NEW t \in Senders, List(t) PROVE DataInv'
<1> USE DEF DataInv
<1>1. Types'
  BY DEF Types, List, publisher, roomState, receiver, PairsOf
<1>2. UNCHANGED <<last, forwarded, messageCache, expired, kept, present, receiver>>
  BY DEF List, publisher, roomState
<1>3. /\ step[t] = "list" /\ step'[t] = "send"
      /\ unsent'[t] = present \cap Dest[t][last[t]]
      /\ \A s \in Senders \ {t} : step'[s] = step[s] /\ unsent'[s] = unsent[s]
  BY DEF List, Types
<1>4. ASSUME NEW s \in Senders PROVE CallOf(s)'
  <2>1. CASE s # t
    BY <1>2, <1>3, <2>1, CallSame
  <2>2. CASE s = t
    BY <1>2, <1>3, <2>2 DEF CallOf
  <2> QED BY <2>1, <2>2
<1>5. ASSUME NEW r \in Receivers, NEW s \in Senders PROVE PairOf(r, s)'
  <2>1. CASE s # t
    BY <1>2, <1>3, <2>1, PairSame DEF receiver
  <2>2. CASE s = t
    BY <1>2, <1>3, <2>2 DEF receiver, PairOf, WaitingOf, ConnectedOf, StillDue
  <2> QED BY <2>1, <2>2
<1>6. \A s \in Senders : step'[s] # "none" => step[s] # "none"
  BY <1>3
<1> QED
  BY <1>1, <1>2, <1>4, <1>5, <1>6 DEF receiver

LEMMA SentKeeps == ASSUME DataInv, NEW t \in Senders, Sent(t) PROVE DataInv'
<1> USE DEF DataInv
<1>1. Types'
  BY DEF Types, Sent, publisher, roomState, receiver, PairsOf
<1>2. UNCHANGED <<last, forwarded, messageCache, expired, unsent, kept, receiver>>
  BY DEF Sent, publisher, roomState
<1>3. /\ step'[t] = "none" /\ unsent[t] = {}
      /\ \A s \in Senders \ {t} : step'[s] = step[s]
  BY DEF Sent, Types
<1>4. ASSUME NEW s \in Senders PROVE CallOf(s)'
  <2>1. CASE s # t
    BY <1>2, <1>3, <2>1, CallSame
  <2>2. CASE s = t
    <3>1. \A n \in forwarded[t] : n <= last[t]
      BY DEF CallOf
    <3> QED
      BY <1>2, <1>3, <2>2, <3>1 DEF CallOf
  <2> QED BY <2>1, <2>2
<1>5. ASSUME NEW r \in Receivers, NEW s \in Senders PROVE PairOf(r, s)'
  <2>1. CASE s # t
    BY <1>2, <1>3, <2>1, PairSame DEF receiver
  <2>2. CASE s = t
    BY <1>2, <1>3, <2>2 DEF receiver, PairOf, WaitingOf, ConnectedOf, StillDue
  <2> QED BY <2>1, <2>2
<1>6. \A s \in Senders : step'[s] # "none" => step[s] # "none"
  BY <1>3
<1> QED
  BY <1>1, <1>2, <1>4, <1>5, <1>6 DEF receiver

LEMMA JoinKeeps == ASSUME DataInv, NEW p \in Receivers, JoinRoom(p) PROVE DataInv'
<1> USE DEF DataInv
<1>1. Types'
  BY DEF Types, JoinRoom, publisher, sendingVars, receiver, PairsOf
<1>2. UNCHANGED <<last, step, unsent, forwarded, messageCache, expired, kept, receiver>>
  BY DEF JoinRoom, publisher, sendingVars
<1>3. \A s \in Senders : CallOf(s)'
  BY <1>2, CallSame
<1>4. \A r \in Receivers, s \in Senders : PairOf(r, s)'
  BY <1>2, PairSame DEF receiver
<1> QED
  BY <1>1, <1>2, <1>3, <1>4 DEF receiver

LEMMA PruneKeeps == ASSUME DataInv, NEW t \in Senders, Prune(t) PROVE DataInv'
<1> USE DEF DataInv
<1>1. Types'
  BY DEF Types, Prune, publisher, sendingVars, receiver, PairsOf
<1>2. UNCHANGED <<last, step, unsent, forwarded, kept, receiver>>
  BY DEF Prune, publisher, sendingVars
<1>3. /\ messageCache'[t] \cup expired'[t] = messageCache[t] \cup expired[t]
      /\ expired[t] \subseteq expired'[t]
      /\ \A s \in Senders \ {t} : messageCache'[s] = messageCache[s] /\ expired'[s] = expired[s]
  BY DEF Prune, Types
<1>4. \A s \in Senders : CallOf(s)'
  BY <1>2, <1>3 DEF CallOf
<1>5. \A r \in Receivers, s \in Senders : PairOf(r, s)'
  BY <1>2, <1>3, PairSame DEF receiver
<1> QED
  BY <1>1, <1>2, <1>4, <1>5 DEF receiver

LEMMA SendKeeps ==
  ASSUME DataInv, NEW p \in Receivers, NEW t \in Senders, SendDataMessage(p, t)
  PROVE  DataInv'
<1> USE DEF DataInv
<1> DEFINE n == last[t]
           repeated == written[p][t] # 0 /\ n <= written[p][t]
<1>1. /\ first[p][t] \in Nat /\ written[p][t] \in Nat /\ n \in Nat /\ n # 0
      /\ offered[p][t] \in SUBSET Nat /\ got[p][t] \in SUBSET Nat
      /\ step[t] = "send" /\ p \in unsent[t] /\ p \in Dest[t][n]
  BY DEF Types, PairsOf, SendDataMessage, CallOf
<1>2. /\ UNCHANGED <<publisher, step, forwarded, roomState, canWrite>>
      /\ unsent' = [unsent EXCEPT ![t] = @ \ {p}]
      /\ offered' = [offered EXCEPT ![p][t] = @ \cup {n}]
  BY DEF SendDataMessage
<1>3. CASE p \notin canWrite
  <2>1. /\ first' = [first EXCEPT ![p][t] = IF @ = 0 THEN n ELSE @]
        /\ UNCHANGED <<written, got, disordered>>
    BY <1>3 DEF SendDataMessage
  <2>2. Types'
    BY <1>1, <1>2, <2>1 DEF Types, PairsOf, publisher, roomState
  <2>3. ASSUME NEW s \in Senders PROVE CallOf(s)'
    <3>1. CASE s # t
      BY <1>2, <3>1, CallSame DEF publisher, roomState, Types
    <3>2. CASE s = t
      BY <1>1, <1>2, <3>2 DEF CallOf, publisher, roomState, Types
    <3> QED BY <3>1, <3>2
  <2>4. ASSUME NEW r \in Receivers, NEW s \in Senders PROVE PairOf(r, s)'
    <3>1. CASE s # t
      BY <1>2, <2>1, <3>1, PairSame DEF publisher, roomState, Types, PairsOf
    <3>2. CASE s = t /\ r # p
      BY <1>2, <2>1, <3>2
         DEF publisher, roomState, Types, PairsOf, PairOf, WaitingOf, ConnectedOf, StillDue
    <3>3. CASE s = t /\ r = p
      <4>1. /\ first'[p][t] = (IF first[p][t] = 0 THEN n ELSE first[p][t])
            /\ offered'[p][t] = offered[p][t] \cup {n}
            /\ got'[p][t] = got[p][t] /\ written'[p][t] = written[p][t]
        BY <1>2, <2>1 DEF Types, PairsOf
      <4>2. /\ forwarded'[t] = forwarded[t] /\ n \in forwarded[t]
            /\ \A m \in forwarded[t] : m <= n
        BY <1>1, <1>2 DEF CallOf
      <4>3. PairOf(p, t) /\ WaitingOf(p, t)
        BY <1>3 DEF PairOf
      <4>4. WaitingOf(p, t)'
        <5>1. \A m \in offered[p][t] : m \in Nat /\ m <= n /\ first[p][t] # 0 /\ first[p][t] <= m
          BY <1>1, <4>2, <4>3 DEF WaitingOf, PairOf
        <5>2. ASSUME NEW m \in offered'[p][t] PROVE first'[p][t] # 0 /\ first'[p][t] <= m
          <6>1. CASE m \in offered[p][t]
            BY <5>1, <6>1, <4>1
          <6>2. CASE m = n /\ first[p][t] = 0
            BY <1>1, <4>1, <6>2
          <6>3. CASE m = n /\ first[p][t] # 0
            <7>1. first[p][t] <= n
              BY <5>1, <4>3, <6>3 DEF WaitingOf
            <7> QED BY <4>1, <6>3, <7>1
          <6> QED BY <4>1, <6>1, <6>2, <6>3
        <5>3. first'[p][t] # 0 => first'[p][t] \in offered'[p][t]
          BY <4>1, <4>3 DEF WaitingOf
        <5> QED BY <4>1, <4>3, <5>2, <5>3 DEF WaitingOf
      <4> QED
        BY <1>1, <1>2, <1>3, <3>3, <4>1, <4>2, <4>3, <4>4 DEF PairOf, WaitingOf
    <3> QED BY <3>1, <3>2, <3>3
  <2> QED
    BY <1>2, <2>1, <2>2, <2>3, <2>4 DEF publisher
<1>4. CASE p \in canWrite
  <2>1. /\ written' = [written EXCEPT ![p][t] = IF repeated THEN @ ELSE 0]
        /\ got' = [got EXCEPT ![p][t] = IF repeated THEN @ ELSE @ \cup {n}]
        /\ disordered' = (disordered \/ (~repeated /\ \E m \in got[p][t] : m >= n))
        /\ UNCHANGED first
    BY <1>4 DEF SendDataMessage
  <2>2. Types'
    BY <1>1, <1>2, <2>1 DEF Types, PairsOf, publisher, roomState
  <2>3. ASSUME NEW s \in Senders PROVE CallOf(s)'
    <3>1. CASE s # t
      BY <1>2, <3>1, CallSame DEF publisher, roomState, Types
    <3>2. CASE s = t
      BY <1>1, <1>2, <3>2 DEF CallOf, publisher, roomState, Types
    <3> QED BY <3>1, <3>2
  <2>4. PairOf(p, t) /\ ConnectedOf(p, t) /\ StillDue(p, t) /\ n \in forwarded[t]
        /\ \A m \in got[p][t] : m <= n
    BY <1>1, <1>4 DEF PairOf, CallOf, StillDue
  <2>5. ~repeated => \A m \in got[p][t] : m < n
    BY <1>1, <2>4 DEF ConnectedOf
  <2>6. repeated => n \in got[p][t]
    BY <1>1, <2>4 DEF PairOf
  <2>7. ~disordered'
    <3>1. \A m \in got[p][t] : m \in Nat
      BY <1>1
    <3>2. ~repeated => ~ (\E m \in got[p][t] : m >= n)
      BY <1>1, <2>5, <3>1
    <3>3. ~disordered
      OBVIOUS
    <3> QED BY <2>1, <3>2, <3>3
  <2>8. ASSUME NEW r \in Receivers, NEW s \in Senders PROVE PairOf(r, s)'
    <3>1. CASE s # t
      BY SMTT(30), ZenonT(30), <1>2, <2>1, <3>1, PairSame DEF publisher, roomState, Types, PairsOf
    <3>2. CASE s = t /\ r # p
      BY <1>2, <2>1, <3>2
         DEF publisher, roomState, Types, PairsOf, PairOf, WaitingOf, ConnectedOf, StillDue
    <3>3. CASE s = t /\ r = p
      <4>1. /\ first'[p][t] = first[p][t] /\ offered'[p][t] = offered[p][t] \cup {n}
            /\ got'[p][t] = (IF repeated THEN got[p][t] ELSE got[p][t] \cup {n})
            /\ written'[p][t] = (IF repeated THEN written[p][t] ELSE 0)
        BY <1>2, <2>1 DEF Types, PairsOf
      <4>2. /\ forwarded'[t] = forwarded[t] /\ expired'[t] = expired[t]
            /\ last'[t] = last[t] /\ step'[t] = "send" /\ p \notin unsent'[t]
            /\ p \in canWrite'
        BY <1>1, <1>2, <1>4 DEF publisher, roomState, Types
      <4>3. ~StillDue(p, t)'
        BY <4>2 DEF StillDue
      <4> HIDE DEF repeated, n
      <4>4. ConnectedOf(p, t)'
        BY <2>4, <2>6, <4>1, <4>2, <4>3 DEF ConnectedOf
      <4> QED
        BY <1>1, <2>4, <3>3, <4>1, <4>2, <4>4 DEF PairOf
    <3> QED BY <3>1, <3>2, <3>3
  <2> QED
    BY <1>2, <2>2, <2>3, <2>7, <2>8 DEF publisher
<1> QED BY <1>3, <1>4

LEMMA ReplayKeeps == ASSUME DataInv, NEW p \in Receivers, Replay(p) PROVE DataInv'
<1> USE DEF DataInv
<1>1. /\ p \in present /\ canWrite' = canWrite \cup {p}
      /\ got' = [got EXCEPT ![p] = [s \in Senders |-> @[s] \cup Cached(p, s)]]
      /\ disordered' = (disordered \/ \E s \in Senders :
                          \E m \in got[p][s], n \in Cached(p, s) : m >= n)
      /\ written' = [written EXCEPT ![p] =
           [s \in Senders |-> IF Greatest(Cached(p, s)) > @[s] THEN Greatest(Cached(p, s)) ELSE @[s]]]
      /\ first' = [first EXCEPT ![p] = [s \in Senders |-> 0]]
      /\ UNCHANGED <<publisher, sendingVars, roomState, offered>>
  BY DEF Replay
<1>2. ASSUME NEW s \in Senders
      PROVE  /\ Cached(p, s) \in SUBSET Nat /\ Cached(p, s) \subseteq forwarded[s]
             /\ p \in canWrite => Cached(p, s) = {}
             /\ Greatest(Cached(p, s)) \in Nat
             /\ Cached(p, s) = {} => Greatest(Cached(p, s)) = 0
             /\ Cached(p, s) # {} => /\ Greatest(Cached(p, s)) \in Cached(p, s)
                                     /\ Greatest(Cached(p, s)) # 0
             /\ \A n \in Cached(p, s) : n <= Greatest(Cached(p, s))
  <2>1. /\ messageCache[s] \in SUBSET Nat /\ last[s] \in Nat /\ first[p][s] \in Nat
        /\ messageCache[s] \subseteq forwarded[s] /\ \A n \in forwarded[s] : n <= last[s]
    BY DEF Types, PairsOf, CallOf
  <2>2. /\ Cached(p, s) \in SUBSET Nat /\ Cached(p, s) \subseteq forwarded[s]
        /\ \A n \in Cached(p, s) : n <= last[s] /\ n # 0
    BY <2>1 DEF Cached
  <2>3. p \in canWrite => Cached(p, s) = {}
    BY DEF Cached, PairOf, ConnectedOf
  <2>4. CASE Cached(p, s) = {}
    BY <2>2, <2>3, <2>4 DEF Greatest
  <2>5. CASE Cached(p, s) # {}
    BY <2>1, <2>2, <2>3, <2>5, GreatestIn
  <2> QED BY <2>4, <2>5
<1>3. ASSUME NEW s \in Senders
      PROVE  /\ got'[p][s] = got[p][s] \cup Cached(p, s) /\ first'[p][s] = 0
             /\ written'[p][s] = (IF Greatest(Cached(p, s)) > written[p][s]
                                  THEN Greatest(Cached(p, s)) ELSE written[p][s])
  BY <1>1 DEF Types, PairsOf
<1>4. ASSUME NEW r \in Receivers, r # p
      PROVE  got'[r] = got[r] /\ first'[r] = first[r] /\ written'[r] = written[r]
  BY <1>1, <1>4 DEF Types, PairsOf
<1>5. UNCHANGED <<next, last, step, unsent, held, toHandle, messageCache, expired, forwarded, awaited,
                  gaveUp, refused, kept, present, offered>>
  BY <1>1 DEF publisher, sendingVars, roomState
<1>6. Types'
  <2>1. got' \in PairsOf(SUBSET Nat)
    <3>1. [s \in Senders |-> got[p][s] \cup Cached(p, s)] \in [Senders -> SUBSET Nat]
      BY <1>2 DEF Types, PairsOf
    <3> QED BY <1>1, <3>1 DEF Types, PairsOf
  <2>2. written' \in PairsOf(Nat)
    <3>1. [s \in Senders |-> IF Greatest(Cached(p, s)) > written[p][s]
                             THEN Greatest(Cached(p, s)) ELSE written[p][s]] \in [Senders -> Nat]
      BY <1>2 DEF Types, PairsOf
    <3> QED BY <1>1, <3>1 DEF Types, PairsOf
  <2>3. first' \in PairsOf(Nat)
    BY <1>1 DEF Types, PairsOf
  <2>4. disordered' \in BOOLEAN /\ canWrite' \subseteq present
    BY <1>1 DEF Types
  <2> QED
    BY <1>5, <2>1, <2>2, <2>3, <2>4 DEF Types
<1>7. \A s \in Senders : CallOf(s)'
  BY <1>5, CallSame
<1>8. ~disordered'
  <2>1. \A s \in Senders : got[p][s] = {} \/ Cached(p, s) = {}
    BY <1>2 DEF PairOf, WaitingOf
  <2> QED BY <1>1, <2>1
<1>9. ASSUME NEW r \in Receivers, NEW s \in Senders PROVE PairOf(r, s)'
  <2>1. CASE r # p
    BY <1>1, <1>4, <1>5, <2>1, PairSame
  <2>2. CASE r = p
    <3>1. /\ PairOf(p, s) /\ CallOf(s) /\ written[p][s] \in Nat /\ last[s] \in Nat
          /\ forwarded[s] \in SUBSET Nat /\ messageCache[s] \in SUBSET Nat
      BY DEF Types, PairsOf
    <3>2. written'[p][s] # 0 => written'[p][s] \in got'[p][s]
      <4>1. CASE Greatest(Cached(p, s)) > written[p][s]
        <5>1. Cached(p, s) # {}
          BY <1>2, <3>1, <4>1
        <5> QED BY <1>2, <1>3, <4>1, <5>1
      <4>2. CASE ~ (Greatest(Cached(p, s)) > written[p][s])
        BY <1>3, <3>1, <4>2 DEF PairOf
      <4> QED BY <4>1, <4>2
    <3>3. CASE p \in canWrite
      <4>1. /\ got'[p][s] = got[p][s] /\ first'[p][s] = first[p][s] /\ written'[p][s] = written[p][s]
        <5>1. Cached(p, s) = {} /\ Greatest(Cached(p, s)) = 0 /\ first[p][s] = 0
          BY <1>2, <3>1, <3>3 DEF PairOf, ConnectedOf
        <5>2. got[p][s] \cup Cached(p, s) = got[p][s] /\ ~ (Greatest(Cached(p, s)) > written[p][s])
          BY <3>1, <5>1
        <5> QED BY <1>3, <5>1, <5>2
      <4> QED
        BY <1>1, <1>5, <2>2, <3>3, <4>1, PairSame
    <3>4. CASE p \notin canWrite
      <4>1. got[p][s] = {} /\ written[p][s] = 0
            /\ \A n \in offered[p][s] : first[p][s] # 0 /\ first[p][s] <= n
        BY <3>1, <3>4 DEF PairOf, WaitingOf
      <4>2. \A n \in offered[p][s] :
              Replayable(p, s, n) /\ n \in messageCache[s] => n \in Cached(p, s)
        BY <3>1, <4>1 DEF Cached, PairOf
      <4>3. \A n \in offered[p][s] : Replayable(p, s, n) => n \in Cached(p, s) \cup expired[s]
        BY <3>1, <4>2 DEF PairOf, CallOf
      <4>4. last[s] \in Cached(p, s) => written'[p][s] # 0 /\ last[s] <= written'[p][s]
        BY <1>2, <1>3, <3>1, <4>1
      <4>5. ConnectedOf(p, s)'
        BY <1>3, <1>5, <4>1, <4>3, <4>4 DEF ConnectedOf
      <4> QED
        BY <1>1, <1>2, <1>3, <1>5, <2>2, <3>1, <3>2, <4>1, <4>5 DEF PairOf
    <3> QED BY <3>3, <3>4
  <2> QED BY <2>1, <2>2
<1> QED
  BY <1>5, <1>6, <1>7, <1>8, <1>9

----------------------------------------------------------------------------
(* No number of a publisher is passed over.                                *)

LEMMA SteadyInit == ASSUME Came \in [Senders -> Nat], DataInit PROVE Steady
<1> SUFFICES ASSUME NEW s \in Senders PROVE Came[s] <= last[s] /\ OnTime(s)
  BY DEF Steady
<1>1. /\ last[s] = Came[s] /\ Came[s] \in Nat /\ toHandle[s] = {} /\ step[s] = "none"
      /\ forwarded[s] = {} /\ kept[s] = {}
  BY DEF DataInit
<1>2. s \notin awaited => Came[s] = 0 /\ next[s] = 1
  BY <1>1 DEF DataInit
<1>3. Passed(s) = {} /\ (Came[s] + 1)..last[s] = {}
  BY <1>1 DEF Passed, Forwarded
<1> QED
  BY <1>1, <1>2, <1>3 DEF OnTime

\* What a step leaves alone is as steady as it was.
LEMMA SteadySame ==
  ASSUME NEW s \in Senders, Steady, next'[s] = next[s], last'[s] = last[s], step'[s] = step[s],
         toHandle'[s] = toHandle[s], forwarded'[s] = forwarded[s],
         refused'[s] = refused[s], kept'[s] = kept[s],
         (s \in awaited') <=> (s \in awaited), (s \in gaveUp') <=> (s \in gaveUp)
  PROVE  Came[s] <= last'[s] /\ (s \notin gaveUp' => OnTime(s)')
  BY DEF Steady, OnTime, Passed, Forwarded

LEMMA SteadyStep ==
  ASSUME Came \in [Senders -> Nat], DataInv, Steady, DataNext PROVE Steady'
<1> SUFFICES ASSUME NEW s \in Senders
             PROVE  Came[s] <= last'[s] /\ (s \notin gaveUp' => OnTime(s)')
  BY DEF Steady
<1>1. /\ next[s] \in Nat /\ last[s] \in Nat /\ Came[s] \in Nat /\ Came[s] <= last[s]
      /\ toHandle[s] \in SUBSET Nat /\ held[s] \in SUBSET Nat /\ forwarded[s] \in SUBSET Nat
      /\ refused[s] \in SUBSET Nat /\ kept[s] \in SUBSET Nat
      /\ Types /\ CallOf(s)
  BY DEF DataInv, Types, Steady
<1>2. ASSUME NEW t \in Senders, MessageArrives(t) PROVE Came[s] <= last'[s] /\ (s \notin gaveUp' => OnTime(s)')
  <2>1. UNCHANGED <<last, step, forwarded, kept>>
    BY <1>2 DEF MessageArrives, sendingVars
  <2>2. CASE s # t
    <3>1. /\ next'[s] = next[s] /\ toHandle'[s] = toHandle[s] /\ refused'[s] = refused[s]
          /\ ((s \in awaited') <=> (s \in awaited)) /\ ((s \in gaveUp') <=> (s \in gaveUp))
      BY <1>1, <1>2, <2>2 DEF MessageArrives, Types
    <3> QED BY <2>1, <3>1, SteadySame
  <2>3. CASE s = t
    <3> SUFFICES ASSUME s \notin gaveUp' PROVE OnTime(s)'
      BY <1>1, <2>1
    <3>1. /\ step[s] = "none" /\ toHandle[s] = {} /\ next'[s] = next[s] + 1
          /\ \/ /\ refused'[s] = (IF next[s] > last[s] THEN refused[s] \cup {next[s]} ELSE refused[s])
                /\ awaited' = awaited /\ toHandle' = toHandle
             \/ /\ ~Early(s, next[s]) /\ s \notin awaited' /\ toHandle'[s] = {next[s]}
                /\ refused' = refused
             \/ /\ Early(s, next[s]) /\ awaited' = awaited /\ toHandle' = toHandle
                /\ refused' = refused
          /\ s \notin gaveUp
      BY <1>1, <1>2, <2>3 DEF MessageArrives, Types
    <3>2. OnTime(s)
      BY <3>1 DEF Steady
    <3>3. Passed(s)' = Passed(s) /\ refused[s] \subseteq refused'[s]
      BY <2>1, <3>1 DEF Passed, Forwarded
    <3>4. CASE s \in awaited'
      <4>1. s \in awaited /\ toHandle'[s] = toHandle[s]
        BY <3>1, <3>4
      <4> QED BY <2>1, <3>1, <3>2, <3>3, <3>4, <4>1 DEF OnTime
    <3>5. CASE s \in awaited /\ s \notin awaited'
      <4>1. next[s] = last[s] + 1 /\ toHandle'[s] = {next[s]}
        BY <3>1, <3>2, <3>5 DEF Early, OnTime
      <4>2. \A n \in toHandle'[s] \cup {next'[s]}, m \in Nat :
              last[s] < m /\ m < n => m \in toHandle'[s]
        BY <1>1, <3>1, <4>1
      <4> QED BY <2>1, <3>2, <3>3, <3>5, <4>2 DEF OnTime
    <3>6. CASE s \notin awaited
      <4>1. s \notin awaited'
        BY <3>1, <3>6
      <4>2. \A m \in Nat : last[s] < m /\ m < next[s] => m \in refused[s]
        BY <3>1, <3>2, <3>6 DEF OnTime
      <4>3. /\ toHandle'[s] \subseteq {next[s]}
            /\ next[s] > last[s] => next[s] \in toHandle'[s] \cup refused'[s]
        BY <3>1, <3>6 DEF Early
      <4>4. \A n \in toHandle'[s] \cup {next'[s]}, m \in Nat :
              last[s] < m /\ m < n => m \in toHandle'[s] \cup refused'[s]
        <5> SUFFICES ASSUME NEW n \in toHandle'[s] \cup {next'[s]}, NEW m \in Nat,
                            last[s] < m, m < n
                     PROVE  m \in toHandle'[s] \cup refused'[s]
          OBVIOUS
        <5>1. m < next[s] \/ (m = next[s] /\ next[s] > last[s])
          BY <1>1, <3>1, <4>3
        <5> QED BY <3>3, <4>2, <4>3, <5>1
      <4> QED BY <2>1, <3>2, <3>3, <4>1, <4>4 DEF OnTime
    <3> QED BY <3>4, <3>5, <3>6
  <2> QED BY <2>2, <2>3
<1>3. ASSUME NEW t \in Senders, Resend(t) PROVE Came[s] <= last'[s] /\ (s \notin gaveUp' => OnTime(s)')
  <2>1. UNCHANGED <<last, step, forwarded, awaited, toHandle, gaveUp, refused, kept>>
    BY <1>3 DEF Resend, sendingVars
  <2>2. CASE s # t
    <3>1. next'[s] = next[s]
      BY <1>1, <1>3, <2>2 DEF Resend, Types
    <3> QED BY <2>1, <3>1, SteadySame
  <2>3. CASE s = t
    <3>1. PICK n \in Came[s]..last[s] : next'[s] = n + 1
      BY <1>1, <1>3, <2>3 DEF Resend, Types
    <3>2. \A m \in Nat : ~ (last[s] < m /\ m < next'[s])
      BY <1>1, <3>1
    <3> QED BY <1>1, <2>1, <3>2 DEF Steady, OnTime, Passed, Forwarded
  <2> QED BY <2>2, <2>3
<1>4. ASSUME NEW t \in Senders, Handle(t) PROVE Came[s] <= last'[s] /\ (s \notin gaveUp' => OnTime(s)')
  <2>1. UNCHANGED <<next, forwarded, awaited, gaveUp, refused>>
    BY <1>4 DEF Handle
  <2>2. CASE s # t
    <3>1. last'[s] = last[s] /\ step'[s] = step[s] /\ toHandle'[s] = toHandle[s] /\ kept'[s] = kept[s]
      BY <1>1, <1>4, <2>2 DEF Handle, Types
    <3> QED BY <2>1, <3>1, SteadySame
  <2>3. CASE s = t
    <3>1. PICK n \in toHandle[s] :
            /\ \A m \in toHandle[s] : n <= m
            /\ toHandle'[s] = toHandle[s] \ {n}
            /\ IF last[s] >= n THEN last' = last /\ step' = step /\ kept' = kept
               ELSE /\ last'[s] = n
                    /\ \/ step'[s] = "cache" /\ kept'[s] = kept[s]
                       \/ step'[s] = step[s] /\ kept'[s] = kept[s] \cup {n}
      BY <1>1, <1>4, <2>3 DEF Handle, Types
    <3>2. step[s] = "none" /\ n \in Nat
      BY <1>1, <1>4, <2>3 DEF Handle
    <3>3. Came[s] <= last'[s]
      BY <1>1, <3>1, <3>2
    <3> SUFFICES ASSUME s \notin gaveUp PROVE OnTime(s)'
      BY <2>1, <3>3
    <3>4. OnTime(s) /\ s \notin awaited
      BY <3>1 DEF Steady, OnTime
    <3>5. CASE last[s] >= n
      <4>1. Passed(s)' = Passed(s)
        BY <2>1, <3>1, <3>5 DEF Passed, Forwarded
      <4> QED BY <1>1, <2>1, <3>1, <3>2, <3>4, <3>5, <4>1 DEF OnTime
    <3>6. CASE ~ (last[s] >= n)
      <4>1. last'[s] = n /\ last[s] < n
        BY <1>1, <3>1, <3>2, <3>6
      <4>2. Passed(s)' = Passed(s) \cup {n}
        BY <2>1, <3>1, <3>2, <3>6 DEF Passed, Forwarded
      <4>3. \A m \in Nat : last[s] < m /\ m < n => m \in refused[s]
        <5> SUFFICES ASSUME NEW m \in Nat, last[s] < m, m < n PROVE m \in refused[s]
          OBVIOUS
        <5>1. m \in toHandle[s] \cup refused[s]
          BY <3>1, <3>4 DEF OnTime
        <5>2. m \notin toHandle[s]
          BY <3>1, <3>2
        <5> QED BY <5>1, <5>2
      <4>4. Passed(s)' \subseteq (Came[s] + 1)..last'[s]
        BY <1>1, <3>2, <3>4, <4>1, <4>2 DEF OnTime
      <4>5. ((Came[s] + 1)..last'[s]) \ refused'[s] \subseteq Passed(s)'
        BY <1>1, <2>1, <3>2, <3>4, <4>1, <4>2, <4>3 DEF OnTime
      <4>6. \A k \in toHandle'[s] \cup {next'[s]}, m \in Nat :
              last'[s] < m /\ m < k => m \in toHandle'[s] \cup refused'[s]
        <5> SUFFICES ASSUME NEW k \in toHandle[s] \cup {next[s]}, NEW m \in Nat, n < m, m < k
                     PROVE  m \in toHandle'[s] \cup refused[s]
          BY <2>1, <3>1, <4>1
        <5>1. last[s] < m /\ m # n
          BY <1>1, <3>2, <4>1
        <5>2. m \in toHandle[s] \cup refused[s]
          BY <3>4, <5>1 DEF OnTime
        <5> QED BY <3>1, <5>1, <5>2
      <4> QED BY <2>1, <3>4, <4>4, <4>5, <4>6 DEF OnTime
    <3> QED BY <3>5, <3>6
  <2> QED BY <2>2, <2>3
<1>5. ASSUME NEW t \in Senders, CacheIt(t) PROVE Came[s] <= last'[s] /\ (s \notin gaveUp' => OnTime(s)')
  <2>1. UNCHANGED <<next, last, awaited, toHandle, gaveUp, refused, kept>>
    BY <1>5 DEF CacheIt, publisher
  <2>2. /\ step[t] = "cache" /\ step'[t] = "list" /\ forwarded'[t] = forwarded[t] \cup {last[t]}
        /\ s # t => step'[s] = step[s] /\ forwarded'[s] = forwarded[s]
    BY <1>1, <1>5 DEF CacheIt, Types
  <2>3. Forwarded(s)' = Forwarded(s)
    BY <2>1, <2>2 DEF Forwarded
  <2>4. Passed(s)' = Passed(s)
    BY <2>1, <2>3 DEF Passed
  <2> QED BY <1>1, <2>1, <2>2, <2>4 DEF Steady, OnTime
<1>6. ASSUME UNCHANGED <<next, last, awaited, toHandle, gaveUp, forwarded, refused, kept>>,
             step'[s] = step[s] \/ (step[s] # "none" /\ step[s] # "cache" /\ step'[s] # "cache")
      PROVE  Came[s] <= last'[s] /\ (s \notin gaveUp' => OnTime(s)')
  BY <1>1, <1>6 DEF Steady, OnTime, Passed, Forwarded
<1>7. ASSUME NEW t \in Senders, List(t) \/ Sent(t) PROVE Came[s] <= last'[s] /\ (s \notin gaveUp' => OnTime(s)')
  BY <1>1, <1>6, <1>7 DEF List, Sent, publisher, Types
<1>8. ASSUME NEW t \in Senders, Prune(t) PROVE Came[s] <= last'[s] /\ (s \notin gaveUp' => OnTime(s)')
  BY <1>6, <1>8 DEF Prune, publisher, sendingVars
<1>9. ASSUME NEW t \in Senders, NEW r \in Receivers, SendDataMessage(r, t)
      PROVE  Came[s] <= last'[s] /\ (s \notin gaveUp' => OnTime(s)')
  BY <1>6, <1>9 DEF SendDataMessage, publisher
<1>10. ASSUME NEW r \in Receivers, JoinRoom(r) \/ Replay(r) PROVE Came[s] <= last'[s] /\ (s \notin gaveUp' => OnTime(s)')
  BY <1>6, <1>10 DEF JoinRoom, Replay, publisher, sendingVars
<1> QED
  BY <1>2, <1>3, <1>4, <1>5, <1>7, <1>8, <1>9, <1>10 DEF DataNext

----------------------------------------------------------------------------
(* The theorems.                                                           *)

\* DataInv holds in every state: what was forwarded of a publisher is in the cache
\* or has expired, a participant that is not connected has noted the first message
\* it misses, and one that is has been sent all that came for it.
THEOREM DataInvariant == ASSUME Came \in [Senders -> Nat] PROVE DataSpec => [](DataInv /\ Steady)
<1>1. DataInit => DataInv /\ Steady
  BY DataStarts, SteadyInit
<1>2. DataInv /\ Steady /\ [DataNext]_dataVars => (DataInv /\ Steady)'
  <2> SUFFICES ASSUME DataInv, Steady, [DataNext]_dataVars PROVE DataInv' /\ Steady'
    OBVIOUS
  <2>1. CASE DataNext
    <3>1. DataInv'
      BY <2>1, ArriveKeeps, ResendKeeps, HandleKeeps, CacheItKeeps, ListKeeps, SentKeeps,
         JoinKeeps, PruneKeeps, SendKeeps, ReplayKeeps DEF DataNext
    <3> QED BY <2>1, <3>1, SteadyStep
  <2>2. CASE UNCHANGED dataVars
    <3>1. UNCHANGED <<publisher, sendingVars, roomState, receiver>>
      BY <2>2 DEF dataVars
    <3>2. Types' /\ Steady'
      BY <3>1 DEF DataInv, Types, Steady, OnTime, Passed, Forwarded, publisher, sendingVars, roomState,
         receiver
    <3>3. \A s \in Senders : CallOf(s)'
      BY <3>1, CallSame DEF DataInv, publisher, sendingVars, roomState
    <3>4. \A r \in Receivers, s \in Senders : PairOf(r, s)'
      BY <3>1, PairSame DEF DataInv, publisher, sendingVars, roomState, receiver
    <3> QED
      BY <3>1, <3>2, <3>3, <3>4 DEF DataInv, publisher, sendingVars, receiver
  <2> QED BY <2>1, <2>2
<1> QED
  BY <1>1, <1>2, PTL DEF DataSpec

\* Each participant is sent a publisher's messages in order, once and completely
\* (SendDataMessage and replayJoiningReliableMessages, participant.go).
THEOREM DataInOrder == ASSUME Came \in [Senders -> Nat] PROVE DataSpec => []EachOnceInOrder
<1>1. DataInv => EachOnceInOrder
  <2> SUFFICES ASSUME DataInv PROVE EachOnceInOrder
    OBVIOUS
  <2>1. DataTypes
    <3>1. \A s \in Senders : messageCache[s] \subseteq forwarded[s] /\ forwarded[s] \subseteq Nat
      BY DEF DataInv, Types, CallOf
    <3> QED BY <3>1 DEF DataInv, Types, DataTypes
  <2>2. \A r \in canWrite, s \in Senders : \A n \in offered[r][s] :
          Replayable(r, s, n) => n \in got[r][s] \cup expired[s]
    BY DEF DataInv, Types, PairOf, ConnectedOf
  <2> QED BY <2>1, <2>2 DEF DataInv, EachOnceInOrder
<1> QED
  BY <1>1, DataInvariant, PTL

\* Every number of a publisher goes on but for those that were turned away before it
\* was looked at, and none both to the participants and to the node alone
\* (MigrationDataCache.Add and handleReceivedDataMessage, participant.go).
THEOREM DataComplete == ASSUME Came \in [Senders -> Nat] PROVE DataSpec => []NothingSkipped
<1>1. DataInv /\ Steady => NothingSkipped
  <2> SUFFICES ASSUME DataInv, Steady, NEW s \in Senders
               PROVE  /\ Forwarded(s) \cap kept[s] = {}
                      /\ s \notin gaveUp =>
                           /\ Passed(s) \subseteq (Came[s] + 1)..last[s]
                           /\ ((Came[s] + 1)..last[s]) \ refused[s] \subseteq Passed(s)
    BY DEF NothingSkipped
  <2>1. Forwarded(s) \cap kept[s] = {}
    BY DEF DataInv, CallOf, Forwarded
  <2> QED
    BY <2>1 DEF Steady, OnTime
<1> QED
  BY <1>1, DataInvariant, PTL

----------------------------------------------------------------------------
(***************************************************************************)
(* OpsQueue, however many operations there are: it runs what it accepts    *)
(* once, in order and without ever sleeping on it.  The operations are     *)
(* numbered, so what is inductive is which number has which place.         *)
(***************************************************************************)
\* The places of the operations: those that have run, the one that runs, then the
\* ones that wait.
Before == Len(ran) + (IF process = "run" THEN 1 ELSE 0)

Numbered ==
  /\ Before + Len(ops) = taken
  /\ \A i \in 1..Len(ran) : ran[i] = i
  /\ process = "run" => current = Len(ran) + 1
  /\ \A i \in 1..Len(ops) : ops[i] = Before + i

\* A goroutine that sleeps, or has not been started, will see what waits.
Seen == process \in {"none", "sleep"} /\ ops # <<>> => wake \/ isStopped

Ended == process = "done" => isStopped /\ (FlushOnStop => ops = <<>>)

QueueInv ==
  /\ ops \in Seq(Nat) /\ ran \in Seq(Nat) /\ taken \in Nat /\ current \in Nat
  /\ wake \in BOOLEAN /\ isStopped \in BOOLEAN
  /\ process \in {"none", "sleep", "look", "run", "done"}
  /\ ~isStarted => process = "none"
  /\ Numbered
  /\ Seen
  /\ Ended

LEMMA QueueStarts == QueueInit => QueueInv
<1> SUFFICES ASSUME QueueInit PROVE QueueInv
  OBVIOUS
<1> USE DEF QueueInit
<1>1. /\ ops \in Seq(Nat) /\ ran \in Seq(Nat) /\ taken \in Nat /\ current \in Nat
      /\ Len(ops) = 0 /\ Len(ran) = 0
  OBVIOUS
<1>2. /\ wake \in BOOLEAN /\ isStopped \in BOOLEAN
      /\ process \in {"none", "sleep", "look", "run", "done"}
  OBVIOUS
<1>3. process = "none"
  OBVIOUS
<1>4. Numbered
  BY <1>1 DEF Numbered, Before
<1>5. Seen /\ Ended
  BY DEF Seen, Ended
<1> QED
  BY <1>1, <1>2, <1>3, <1>4, <1>5 DEF QueueInv

\* What is enqueued gets the next place, and wakes whoever sleeps on an empty queue.
LEMMA QueueEnqueue == QueueInv /\ Enqueue => QueueInv'
<1> SUFFICES ASSUME QueueInv, Enqueue PROVE QueueInv'
  OBVIOUS
<1> USE DEF QueueInv
<1>1. /\ ops' \in Seq(Nat) /\ Len(ops') = Len(ops) + 1
      /\ \A i \in 1..Len(ops) : ops'[i] = ops[i]
      /\ ops'[Len(ops) + 1] = taken + 1
      /\ ops' # <<>>
  BY DEF Enqueue
<1>2. /\ UNCHANGED <<ran, process, current, isStopped, isStarted>>
      /\ taken' = taken + 1 /\ ~isStopped /\ wake' = (wake \/ Len(ops') = 1)
      /\ Len(ops) \in Nat /\ Len(ran) \in Nat
  BY DEF Enqueue
<1>3. Numbered'
  <2>1. Before' = Before /\ Before \in Nat
    BY <1>2 DEF Before
  <2>2. Before' + Len(ops') = taken'
    BY <1>1, <1>2, <2>1 DEF Numbered
  <2>3. \A i \in 1..Len(ops') : ops'[i] = Before' + i
    <3> TAKE i \in 1..Len(ops')
    <3>1. CASE i \in 1..Len(ops)
      BY <1>1, <2>1, <3>1 DEF Numbered
    <3>2. CASE i = Len(ops) + 1
      BY <1>1, <2>1, <3>2 DEF Numbered
    <3> QED
      BY <1>1, <3>1, <3>2
  <2> QED
    BY <1>2, <2>2, <2>3 DEF Numbered
<1>4. Seen'
  <2>1. CASE ops = <<>>
    <3>1. Len(ops') = 1
      BY <1>1, <2>1
    <3> QED
      BY <1>2, <3>1 DEF Seen
  <2>2. CASE ops # <<>>
    BY <1>2, <2>2 DEF Seen
  <2> QED
    BY <2>1, <2>2 DEF Seen
<1>5. Ended'
  BY <1>2 DEF Ended
<1> QED
  BY <1>1, <1>2, <1>3, <1>4, <1>5 DEF Enqueue

\* The first that waits is the next to run.
LEMMA QueueTake == QueueInv /\ Take => QueueInv'
<1> SUFFICES ASSUME QueueInv, Take PROVE QueueInv'
  OBVIOUS
<1> USE DEF QueueInv
<1>1. /\ process = "look" /\ process' = "run"
      /\ ops # <<>> /\ current' = ops[1] /\ ops' = Tail(ops)
      /\ UNCHANGED <<wake, isStarted, isStopped, taken, ran>>
  BY DEF Take
<1>2. /\ Len(ops) \in Nat \ {0} /\ Len(ops') = Len(ops) - 1 /\ ops' \in Seq(Nat)
      /\ \A i \in 1..Len(ops') : ops'[i] = ops[i + 1]
  BY <1>1
<1>3. Before = Len(ran) /\ Before' = Len(ran) + 1 /\ Len(ran) \in Nat
  BY <1>1 DEF Before
<1>4. current' = Len(ran') + 1
  BY <1>1, <1>2, <1>3 DEF Numbered
<1>5. \A i \in 1..Len(ops') : ops'[i] = Before' + i
  BY SMTT(30), <1>2, <1>3 DEF Numbered
<1>6. Numbered'
  <2>1. Before + Len(ops) = taken /\ \A i \in 1..Len(ran) : ran[i] = i
    BY DEF Numbered
  <2>2. Before' + Len(ops') = taken'
    <3>1. taken' = taken
      BY <1>1
    <3> QED
      BY ONLY <1>2, <1>3, <2>1, <3>1
  <2>3. \A i \in 1..Len(ran') : ran'[i] = i
    BY <1>1, <2>1
  <2> QED
    BY <1>4, <1>5, <2>2, <2>3 DEF Numbered
<1>7. Seen' /\ Ended'
  BY <1>1 DEF Seen, Ended
<1> QED
  BY <1>1, <1>2, <1>3, <1>4, <1>6, <1>7

\* It is the last that has run.
LEMMA QueueRun == QueueInv /\ Run => QueueInv'
<1> SUFFICES ASSUME QueueInv, Run PROVE QueueInv'
  OBVIOUS
<1> USE DEF QueueInv
<1>1. /\ process = "run" /\ process' = "look"
      /\ ran' = Append(ran, current) /\ current' = 0
      /\ UNCHANGED <<ops, wake, isStarted, isStopped, taken>>
  BY DEF Run
<1>2. /\ ran' \in Seq(Nat) /\ Len(ran') = Len(ran) + 1 /\ Len(ran) \in Nat
      /\ \A i \in 1..Len(ran) : ran'[i] = ran[i]
      /\ ran'[Len(ran) + 1] = current
  BY <1>1
<1>3. Before' = Before
  BY <1>1, <1>2 DEF Before
<1>4. \A i \in 1..Len(ran') : ran'[i] = i
  <2> TAKE i \in 1..Len(ran')
  <2>1. CASE i \in 1..Len(ran)
    BY <1>2, <2>1 DEF Numbered
  <2>2. CASE i = Len(ran) + 1
    BY <1>1, <1>2, <2>2 DEF Numbered
  <2> QED
    BY <1>2, <2>1, <2>2
<1>5. Numbered'
  BY <1>1, <1>3, <1>4 DEF Numbered
<1>6. Seen' /\ Ended'
  BY <1>1 DEF Seen, Ended
<1> QED
  BY <1>1, <1>2, <1>5, <1>6

LEMMA QueueStep == QueueInv /\ [QueueNext]_queueVars => QueueInv'
<1> SUFFICES ASSUME QueueInv, [QueueNext]_queueVars PROVE QueueInv'
  OBVIOUS
<1> USE DEF QueueInv, Numbered, Before, Seen, Ended
<1>1. CASE Start
  BY <1>1 DEF Start
<1>2. CASE Stop
  BY <1>2 DEF Stop
<1>3. CASE Enqueue
  BY <1>3, QueueEnqueue
<1>4. CASE Wake
  BY <1>4 DEF Wake
<1>5. CASE End
  BY <1>5 DEF End
<1>6. CASE Sleep
  BY <1>6 DEF Sleep
<1>7. CASE Take
  BY <1>7, QueueTake
<1>8. CASE Run
  BY <1>8, QueueRun
<1>9. CASE UNCHANGED queueVars
  BY <1>9 DEF queueVars
<1> QED
  BY <1>1, <1>2, <1>3, <1>4, <1>5, <1>6, <1>7, <1>8, <1>9 DEF QueueNext

\* The queue as a list: what has run, runs and waits is 1, 2, ... up to what was taken.
LEMMA Ordered == QueueInv => InOrder
<1> SUFFICES ASSUME QueueInv PROVE InOrder
  OBVIOUS
<1> USE DEF QueueInv, Numbered, Before
<1> DEFINE head == ran \o Running
<1>1. /\ Running \in Seq(Nat)
      /\ Len(Running) = IF process = "run" THEN 1 ELSE 0
      /\ process = "run" => Running[1] = current
  BY DEF Running
<1>2. head \in Seq(Nat) /\ Len(head) = Before /\ Before \in Nat
  <2>1. head \in Seq(Nat) /\ Len(head) = Len(ran) + Len(Running) /\ Len(ran) \in Nat
    <3>1. ran \in Seq(Nat) /\ Len(ran) \in Nat
      OBVIOUS
    <3> QED
      BY ONLY <1>1, <3>1, ConcatProperties
  <2> QED
    BY <1>1, <2>1
<1>3. \A i \in 1..Len(head) : head[i] = i
  <2> TAKE i \in 1..Len(head)
  <2>1. CASE i \in 1..Len(ran)
    BY <1>1, <2>1
  <2>2. CASE process = "run" /\ i = Len(ran) + 1
    BY <1>1, <2>2
  <2> QED
    BY <1>2, <2>1, <2>2
<1> HIDE DEF head
<1>4. Len(head \o ops) = taken
  <2>1. Len(head \o ops) = Len(head) + Len(ops)
    BY <1>2, ConcatProperties
  <2> QED
    BY <1>2, <2>1
<1>5. \A i \in 1..taken : (head \o ops)[i] = i
  <2> TAKE i \in 1..taken
  <2>1. CASE i \in 1..Len(head)
    BY <1>2, <1>3, <2>1
  <2>2. CASE i > Len(head)
    <3>1. i - Len(head) \in 1..Len(ops)
      BY <1>2, <2>2
    <3>2. (head \o ops)[i] = ops[i - Len(head)]
      <4>1. head \in Seq(Nat) /\ ops \in Seq(Nat) /\ Len(head) \in Nat /\ i \in Int
        BY <1>2, <2>2
      <4>2. i \in 1..(Len(head) + Len(ops)) /\ i > Len(head)
        BY <2>2, <3>1, <4>1
      <4> QED
        BY ONLY <4>1, <4>2
    <3>3. ops[i - Len(head)] = Before + (i - Len(head))
      BY <3>1
    <3> QED
      BY <1>2, <3>2, <3>3
  <2> QED
    BY <1>2, <2>1, <2>2
<1> QED
  BY <1>4, <1>5 DEF InOrder, head

\* OpsQueue (process, Enqueue): every operation that is accepted runs once and in its
\* turn, whoever enqueues while another one runs; the goroutine never sleeps on one,
\* and a queue that flushes has run them all when doneChan is closed.
THEOREM QueueRunsInOrder == QueueSpec => []QueueKeeps
<1>1. QueueInv => QueueKeeps
  <2> SUFFICES ASSUME QueueInv PROVE QueueKeeps
    OBVIOUS
  <2>1. InOrder
    BY Ordered
  <2>2. ProcessWakes
    BY DEF QueueInv, Seen, ProcessWakes
  <2>3. Flushed
    BY DEF QueueInv, Ended, Numbered, Before, Flushed
  <2> QED
    BY <2>1, <2>2, <2>3 DEF QueueKeeps
<1> QED
  BY <1>1, QueueStarts, QueueStep, PTL DEF QueueSpec

----------------------------------------------------------------------------
(***************************************************************************)
(* IncrementalDispatcher, for any producers and consumers: who waits has   *)
(* been given all there is, and who is through all that was promised.      *)
(***************************************************************************)
DispatcherTypes ==
  /\ items \in Nat /\ promised \in Nat
  /\ pc \in [Consumers -> {"loop", "take", "give", "lock", "wait", "last", "give last", "end"}]
  /\ idx \in [Consumers -> Nat] /\ given \in [Consumers -> Nat]

\* A consumer was given what it has copied, and that is in the list; its last look at
\* the list sees all that was promised, and it only waits when it has copied it all.
NumbersOf(c) ==
  /\ given[c] <= idx[c] /\ idx[c] <= items
  /\ pc[c] \in {"give last", "end"} => promised <= idx[c]
  /\ pc[c] = "end" => given[c] = idx[c]
  /\ pc[c] = "wait" => idx[c] = items

\* It looks for the last time after Done, and waits only before.
FlagsOf(c) ==
  /\ pc[c] \in {"last", "give last", "end"} => done
  /\ pc[c] = "wait" => ~done

DispatcherInv ==
  /\ DispatcherTypes /\ promised <= items
  /\ \A c \in Consumers : NumbersOf(c)
  /\ done \in BOOLEAN /\ \A c \in Consumers : FlagsOf(c)

\* A step of one consumer leaves the others and the list as they are.
LEMMA OneConsumer ==
  ASSUME DispatcherInv, DispatcherTypes', NEW c \in Consumers, NumbersOf(c)', FlagsOf(c)',
         UNCHANGED <<items, done, promised>>,
         \A d \in Consumers \ {c} :
           pc'[d] = pc[d] /\ idx'[d] = idx[d] /\ given'[d] = given[d]
  PROVE  DispatcherInv'
<1>1. ASSUME NEW d \in Consumers PROVE NumbersOf(d)'
  <2>1. CASE d = c
    BY <2>1
  <2>2. CASE d # c
    <3>1. NumbersOf(d) /\ pc'[d] = pc[d] /\ idx'[d] = idx[d] /\ given'[d] = given[d]
      BY <2>2 DEF DispatcherInv
    <3> QED BY <3>1 DEF NumbersOf
  <2> QED BY <2>1, <2>2
<1>2. ASSUME NEW d \in Consumers PROVE FlagsOf(d)'
  <2>1. CASE d = c
    BY <2>1
  <2>2. CASE d # c
    BY <2>2 DEF DispatcherInv, FlagsOf
  <2> QED BY <2>1, <2>2
<1>3. (promised <= items)'
  BY DEF DispatcherInv
<1>4. (done \in BOOLEAN)'
  BY DEF DispatcherInv
<1> QED
  BY <1>1, <1>2, <1>3, <1>4 DEF DispatcherInv

\* AppendItem and Done wake whoever waits, and change nothing that others rely on.
LEMMA Wakes ==
  ASSUME DispatcherInv, pc' = Woken, UNCHANGED <<idx, given>>,
         items' \in Nat, promised' \in Nat, done' \in BOOLEAN,
         items <= items', promised' <= items', done => done' /\ promised' = promised
  PROVE  DispatcherInv'
<1>1. DispatcherTypes'
  BY DEF DispatcherInv, DispatcherTypes, Woken
<1>2. ASSUME NEW c \in Consumers PROVE NumbersOf(c)' /\ FlagsOf(c)'
  <2>1. pc'[c] = IF pc[c] = "wait" THEN "loop" ELSE pc[c]
    BY DEF Woken
  <2>2. FlagsOf(c)'
    BY <2>1 DEF DispatcherInv, FlagsOf
  <2>3. pc[c] \in {"give last", "end"} => promised' = promised
    BY DEF DispatcherInv, FlagsOf
  <2>4. idx[c] \in Nat /\ given[c] \in Nat /\ items \in Nat /\ NumbersOf(c)
    BY DEF DispatcherInv, DispatcherTypes
  <2>5. NumbersOf(c)'
    <3>1. idx'[c] = idx[c] /\ given'[c] = given[c] /\ items <= items' /\ items' \in Nat
      OBVIOUS
    <3>2. given[c] <= idx[c] /\ idx[c] <= items
      BY <2>4 DEF NumbersOf
    <3>3. given'[c] <= idx'[c] /\ idx'[c] <= items'
      BY <2>4, <3>1, <3>2
    <3>4. pc'[c] \in {"give last", "end"} => promised' <= idx'[c]
      BY <2>1, <2>3, <2>4, <3>1 DEF NumbersOf
    <3>5. (pc'[c] = "end" => given'[c] = idx'[c]) /\ pc'[c] # "wait"
      BY <2>1, <2>4, <3>1 DEF NumbersOf
    <3> QED
      BY <3>3, <3>4, <3>5 DEF NumbersOf
  <2> QED
    BY <2>2, <2>5
<1> QED
  BY <1>1, <1>2 DEF DispatcherInv

LEMMA DispatcherStep == DispatcherInv /\ [DispatcherNext]_dispatcherVars => DispatcherInv'
<1> SUFFICES ASSUME DispatcherInv, [DispatcherNext]_dispatcherVars PROVE DispatcherInv'
  OBVIOUS
<1>0. DispatcherTypes /\ promised <= items /\ done \in BOOLEAN
  BY DEF DispatcherInv
<1>1. ASSUME NEW p \in Producers, Add(p) PROVE DispatcherInv'
  <2>1. UNCHANGED <<items, done, pc, idx, given, promised>>
    BY <1>1 DEF Add
  <2> QED
    BY <2>1 DEF DispatcherInv, DispatcherTypes, NumbersOf, FlagsOf
<1>2. ASSUME NEW p \in Producers, AppendItem(p) PROVE DispatcherInv'
  <2>1. /\ items' = items + 1 /\ pc' = Woken
        /\ UNCHANGED <<done, idx, given, promised>>
    BY <1>2 DEF AppendItem
  <2>2. items \in Nat /\ promised \in Nat /\ promised <= items
    BY <1>0 DEF DispatcherTypes
  <2>3. items' \in Nat /\ items <= items' /\ promised' <= items' /\ promised' \in Nat
    BY <2>1, <2>2
  <2> QED
    BY <1>0, <2>1, <2>3, Wakes
<1>3. CASE Done
  <2>1. /\ items' = items /\ done' = TRUE /\ pc' = Woken /\ UNCHANGED <<idx, given>>
        /\ promised' = IF done THEN promised ELSE items
    BY <1>3 DEF Done
  <2>2. items \in Nat /\ promised \in Nat /\ promised <= items
    BY <1>0 DEF DispatcherTypes
  <2>3. promised' \in {promised, items} /\ (done => promised' = promised)
    BY <2>1
  <2>4. items' \in Nat /\ items <= items' /\ promised' <= items' /\ promised' \in Nat
    BY <2>1, <2>2, <2>3
  <2> QED
    BY <2>1, <2>3, <2>4, Wakes
<1>4. ASSUME NEW c \in Consumers, Loop(c) \/ Copy(c) \/ Give(c) \/ Wait(c) PROVE DispatcherInv'
  <2>1. UNCHANGED <<items, done, promised>>
    BY <1>4 DEF Loop, Copy, Give, Wait
  <2>2. items \in Nat /\ idx[c] \in Nat /\ given[c] \in Nat /\ promised <= items /\ NumbersOf(c)
    BY DEF DispatcherInv, DispatcherTypes
  <2>3. FlagsOf(c)
    BY DEF DispatcherInv
  <2>4. items' = items /\ promised' = promised /\ promised \in Nat
    BY <1>0, <2>1 DEF DispatcherTypes
  <2>5. CASE Loop(c)
    <3>1. /\ pc' = [pc EXCEPT ![c] = IF done THEN "last" ELSE "take"] /\ pc[c] = "loop"
          /\ UNCHANGED <<idx, given>>
      BY <2>5 DEF Loop, Go
    <3>2. DispatcherTypes' /\ pc'[c] = IF done THEN "last" ELSE "take"
      BY <1>0, <2>1, <3>1 DEF DispatcherTypes
    <3>3. FlagsOf(c)'
      BY <2>1, <3>2 DEF FlagsOf
    <3>4. pc'[c] \in {"last", "take"} /\ idx'[c] = idx[c] /\ given'[c] = given[c]
      BY <3>1, <3>2
    <3>5. NumbersOf(c)'
      BY <2>2, <2>4, <3>4 DEF NumbersOf
    <3> QED
      BY <1>0, <2>1, <3>1, <3>2, <3>3, <3>5, OneConsumer DEF DispatcherTypes
  <2>6. CASE Copy(c)
    <3>1. /\ pc' = [pc EXCEPT ![c] = IF pc[c] = "last" THEN "give last" ELSE "give"]
          /\ pc[c] \in {"take", "last"}
          /\ idx' = [idx EXCEPT ![c] = items] /\ UNCHANGED given
      BY <2>6 DEF Copy, Go
    <3>2. /\ DispatcherTypes' /\ idx'[c] = items
          /\ pc'[c] = IF pc[c] = "last" THEN "give last" ELSE "give"
      BY <1>0, <2>1, <3>1 DEF DispatcherTypes
    <3>3. pc[c] \in {"take", "last"}
      BY <3>1
    <3>4. pc'[c] = IF pc[c] = "last" THEN "give last" ELSE "give"
      BY <3>2
    <3>5. /\ pc[c] \in {"take", "last"} /\ pc'[c] \in {"give last", "give"}
          /\ pc'[c] = "give last" => pc[c] = "last"
      BY <3>3, <3>4
    <3>6. given'[c] = given[c] /\ idx'[c] = items
      BY <3>1, <3>2
    <3>7. done' = done
      BY <2>1
    <3>8. FlagsOf(c)'
      BY <2>3, <3>5, <3>7 DEF FlagsOf
    <3>9. given[c] <= idx[c] /\ idx[c] <= items
      BY <2>2 DEF NumbersOf
    <3>10. given[c] <= items
      BY <2>2, <3>9
    <3>11. promised' <= items' /\ items' = items
      BY <2>2, <2>4
    <3>12. given[c] <= items /\ promised' <= items' /\ items' = items
      BY <3>10, <3>11
    <3>13. given'[c] <= idx'[c] /\ idx'[c] <= items' /\ promised' <= idx'[c]
      BY <2>2, <3>6, <3>12
    <3>14. NumbersOf(c)'
      BY <3>5, <3>13 DEF NumbersOf
    <3> QED
      BY <1>0, <2>1, <3>1, <3>2, <3>8, <3>14, OneConsumer DEF DispatcherTypes
  <2>7. CASE Give(c)
    <3>0. pc[c] \in {"give", "give last"} /\ UNCHANGED idx
      BY <2>7 DEF Give
    <3>1. CASE given[c] < idx[c] /\ given' = [given EXCEPT ![c] = given[c] + 1] /\ UNCHANGED pc
      <4>1. given \in [Consumers -> Nat] /\ given' = [given EXCEPT ![c] = given[c] + 1]
        BY <1>0, <3>1 DEF DispatcherTypes
      <4>2. idx' = idx /\ pc' = pc /\ given[c] < idx[c]
        BY <3>0, <3>1
      <4>3. given'[c] = given[c] + 1
        BY <4>1
      <4>4. given[c] + 1 \in Nat
        BY <2>2
      <4>5. idx'[c] = idx[c] /\ pc'[c] = pc[c]
        BY <4>2
      <4>6. given'[c] = given[c] + 1 /\ given[c] + 1 \in Nat /\ given[c] < idx[c]
            /\ idx'[c] = idx[c] /\ pc'[c] = pc[c]
        BY <4>2, <4>3, <4>4, <4>5
      <4>7. given' \in [Consumers -> Nat]
        BY <1>0, <3>1, <4>6 DEF DispatcherTypes
      <4>8. DispatcherTypes'
        BY <1>0, <2>4, <3>0, <3>1, <4>7 DEF DispatcherTypes
      <4>9. given'[c] <= idx'[c] /\ idx'[c] <= items'
        <5>1. idx[c] <= items /\ items' = items
          BY <2>2, <2>4 DEF NumbersOf
        <5>2. given[c] + 1 <= idx[c]
          BY <2>2, <4>2
        <5> QED
          BY <4>3, <4>5, <5>1, <5>2
      <4>10. pc'[c] \in {"give", "give last"}
        BY <3>0, <4>6
      <4>11. NumbersOf(c)'
        BY <2>2, <2>4, <4>6, <4>9, <4>10 DEF NumbersOf
      <4>12. FlagsOf(c)'
        BY <2>1, <2>3, <3>1 DEF FlagsOf
      <4> QED
        BY <1>0, <2>1, <3>0, <3>1, <4>8, <4>11, <4>12, OneConsumer DEF DispatcherTypes
    <3>2. CASE /\ given[c] = idx[c] /\ UNCHANGED given
               /\ pc' = [pc EXCEPT ![c] = IF pc[c] = "give" THEN "lock" ELSE "end"]
      <4>1. DispatcherTypes' /\ pc'[c] = IF pc[c] = "give" THEN "lock" ELSE "end"
        BY <1>0, <2>1, <3>0, <3>2 DEF DispatcherTypes
      <4>2. pc'[c] \in {"lock", "end"} /\ (pc'[c] = "end" => pc[c] = "give last")
        BY <3>0, <4>1
      <4>3. idx' = idx /\ given' = given /\ given[c] = idx[c]
        BY <3>0, <3>2
      <4>4. /\ pc'[c] \in {"lock", "end"} /\ (pc'[c] = "end" => pc[c] = "give last")
            /\ idx'[c] = idx[c] /\ given'[c] = given[c] /\ given[c] = idx[c]
        BY <4>2, <4>3
      <4>5. NumbersOf(c)'
        BY <2>2, <2>4, <4>4 DEF NumbersOf
      <4>6. FlagsOf(c)'
        BY <2>1, <2>3, <3>0, <4>1 DEF FlagsOf
      <4> QED
        BY <1>0, <2>1, <3>0, <3>2, <4>1, <4>5, <4>6, OneConsumer DEF DispatcherTypes
    <3> QED
      BY <2>7, <3>1, <3>2 DEF Give, Go
  <2>8. CASE Wait(c)
    <3>1. /\ pc' = [pc EXCEPT ![c] = IF done THEN "last"
                                     ELSE IF idx[c] = items THEN "wait" ELSE "loop"]
          /\ UNCHANGED <<idx, given>>
      BY <2>8 DEF Wait, Go
    <3>2. /\ DispatcherTypes'
          /\ pc'[c] = IF done THEN "last" ELSE IF idx[c] = items THEN "wait" ELSE "loop"
      BY <1>0, <2>1, <3>1 DEF DispatcherTypes
    <3>3. FlagsOf(c)'
      BY <2>1, <3>2 DEF FlagsOf
    <3>4. /\ pc'[c] \notin {"give last", "end"}
          /\ pc'[c] = "wait" => idx[c] = items
      BY <3>2
    <3>5. idx'[c] = idx[c] /\ given'[c] = given[c]
      BY <3>1
    <3>6. NumbersOf(c)'
      BY <2>2, <2>4, <3>4, <3>5 DEF NumbersOf
    <3> QED
      BY <1>0, <2>1, <3>1, <3>2, <3>3, <3>6, OneConsumer DEF DispatcherTypes
  <2> QED
    BY <1>4, <2>5, <2>6, <2>7, <2>8
<1>5. CASE UNCHANGED dispatcherVars
  BY <1>5 DEF dispatcherVars, DispatcherInv, DispatcherTypes, NumbersOf, FlagsOf
<1> QED
  BY <1>1, <1>2, <1>3, <1>4, <1>5 DEF DispatcherNext

\* IncrementalDispatcher (ForEach, Add, Done): no consumer waits for what is there
\* already or after Done, and one that is through was given everything that was added
\* before Done, whoever adds meanwhile.
THEOREM DispatcherGives == DispatcherSpec => []DispatcherKeeps
<1>1. DispatcherInit => DispatcherInv
  <2> SUFFICES ASSUME DispatcherInit PROVE DispatcherInv
    OBVIOUS
  <2>1. DispatcherTypes /\ promised <= items
    BY DEF DispatcherInit, DispatcherTypes
  <2>2. \A c \in Consumers : NumbersOf(c)
    BY DEF DispatcherInit, NumbersOf
  <2>3. done \in BOOLEAN /\ \A c \in Consumers : FlagsOf(c)
    BY DEF DispatcherInit, FlagsOf
  <2> QED BY <2>1, <2>2, <2>3 DEF DispatcherInv
<1>2. DispatcherInv => DispatcherKeeps
  <2> SUFFICES ASSUME DispatcherInv PROVE DispatcherKeeps
    OBVIOUS
  <2>1. ConsumersWake
    BY DEF DispatcherInv, NumbersOf, FlagsOf, ConsumersWake
  <2>2. ASSUME NEW c \in Consumers, pc[c] = "end" PROVE given[c] >= promised
    <3>1. NumbersOf(c) /\ given[c] \in Nat /\ idx[c] \in Nat /\ promised \in Nat
      BY DEF DispatcherInv, DispatcherTypes
    <3> QED BY <2>2, <3>1 DEF NumbersOf
  <2> QED BY <2>1, <2>2 DEF DispatcherKeeps, AllGiven
<1> QED
  BY <1>1, <1>2, DispatcherStep, PTL DEF DispatcherSpec

----------------------------------------------------------------------------
(***************************************************************************)
(* Dynacast, for any codecs, subscribers, nodes and qualities. A change    *)
(* goes through four locks; DynacastInv says, between any two of them, who *)
(* will bring it on: a caller on its way, a timer, or the regression that  *)
(* takes the codec's place.                                                *)
(***************************************************************************)
\* Where a caller may be between two locks.
Places == {"idle", "set", "compute", "report", "update", "stop", "take", "replace", "reset"}
Calling == [at : Places, codec : Codecs, quality : Qualities, force : BOOLEAN]
DynacastTypes ==
  /\ wishes \in [Codecs -> [Keys -> Qualities]] /\ takenWishes \in [Keys -> Qualities]
  /\ highest \in [Codecs -> Qualities]
  /\ fresh \in [Codecs -> BOOLEAN] /\ timer \in [Codecs -> BOOLEAN]
  /\ caller \in [Callers -> Calling]

\* One caller goes on, and the others stay where they are.
Moves(x, at, codec, force) ==
  /\ caller' \in [Callers -> Calling]
  /\ caller'[x].at = at /\ caller'[x].codec = codec /\ caller'[x].force = force
  /\ \A y \in Callers \ {x} : caller'[y] = caller[y]

\* A maximum of qualities is one of them.
LEMMA MaxIn ==
  ASSUME NEW S \in SUBSET Qualities, S # {}
  PROVE  MaxOf(S) \in S
<1> DEFINE R == OpToRel(<, Nat)
           Below == {Best - q : q \in S}
<1>1. Below \subseteq Nat /\ Below # {}
  <2>1. \A q \in S : Best - q \in Nat
    BY DynacastConstants DEF Qualities
  <2>2. PICK q \in S : TRUE
    OBVIOUS
  <2> QED
    BY <2>1, <2>2
<1>2. PICK x \in Below : \A y \in Below : ~ (<<y, x>> \in R)
  <2> HIDE DEF Below
  <2> QED
    BY <1>1, NatLessThanWellFounded, WFMin
<1>3. \A y \in Below : ~ (y < x)
  BY <1>1, <1>2 DEF OpToRel
<1>4. PICK n \in S : x = Best - n
  OBVIOUS
<1>5. ASSUME NEW m \in S PROVE m <= n
  <2>1. Best - m \in Below
    OBVIOUS
  <2>2. ~ (Best - m < Best - n)
    BY <1>3, <1>4, <2>1
  <2> QED
    BY <2>2, DynacastConstants DEF Qualities
<1> QED
  BY <1>5 DEF MaxOf

LEMMA HighestOf ==
  ASSUME DynacastTypes, NEW c \in Codecs
  PROVE  Highest(c) \in Qualities
<1> DEFINE S == {wishes[c][k] : k \in Keys}
<1>1. S \subseteq Qualities
  BY DEF DynacastTypes
<1>2. S # {}
  BY DynacastConstants
<1> QED
  BY <1>1, <1>2, MaxIn DEF Highest

\* What each action does to its caller.
LEMMA Rests ==
  /\ Resting = [at |-> "idle", codec |-> Target, quality |-> 0, force |-> FALSE]
  /\ Resting \in Calling /\ 0 \in Qualities /\ {Regressing, Target} \subseteq Codecs
<1>1. 0 \in Qualities
  BY DynacastConstants DEF Qualities
<1>2. Resting = [at |-> "idle", codec |-> Target, quality |-> 0, force |-> FALSE]
  BY DEF Resting
<1> QED
  BY <1>1, <1>2, DynacastConstants DEF Calling, Places

LEMMA Going ==
  ASSUME DynacastTypes, NEW x \in Callers, NEW to \in Places, GoOn(x, to)
  PROVE  Moves(x, to, caller[x].codec, caller[x].force)
BY DEF DynacastTypes, GoOn, Moves, Calling

LEMMA Beginning ==
  ASSUME DynacastTypes, NEW x \in Callers, NEW to \in Places, NEW c \in Codecs, NEW f \in BOOLEAN,
         Begin(x, to, c, f)
  PROVE  Moves(x, to, c, f) /\ caller[x].at = "idle"
<1> DEFINE r == [Resting EXCEPT !.at = to, !.codec = c, !.force = f]
<1>1. r \in Calling /\ r.at = to /\ r.codec = c /\ r.force = f
  BY Rests DEF Calling
<1>2. caller' = [caller EXCEPT ![x] = r] /\ caller[x].at = "idle"
  BY DEF Begin, FreeCaller, Resting
<1> HIDE DEF r
<1> QED
  BY <1>1, <1>2 DEF DynacastTypes, Moves

LEMMA Returning ==
  ASSUME DynacastTypes, NEW x \in Callers, Return(x)
  PROVE  Moves(x, "idle", Target, FALSE)
BY Rests DEF DynacastTypes, Return, Moves

LEMMA Announcing ==
  ASSUME DynacastTypes, NEW x \in Callers, Compute(x)
  PROVE  LET c == caller[x].codec IN
         /\ c \in Codecs /\ caller[x].at = "compute"
         /\ UNCHANGED <<wishes, timer, regressed, takenWishes, managerVars, calls>>
         /\ \/ /\ Moves(x, "idle", Target, FALSE) /\ UNCHANGED <<highest, fresh>>
               /\ Highest(c) = highest[c] /\ ~caller[x].force
            \/ /\ Moves(x, "report", c, caller[x].force)
               /\ highest' = [highest EXCEPT ![c] = Highest(c)]
               /\ fresh' = [fresh EXCEPT ![c] = TRUE]
<1> DEFINE c == caller[x].codec
<1>1. c \in Codecs /\ caller[x] \in Calling
  BY DEF DynacastTypes, Calling
<1>2. Highest(c) \in Qualities
  BY <1>1, HighestOf
<1>3. CASE Highest(c) = highest[c] /\ fresh[c] /\ ~caller[x].force
  BY <1>1, <1>3, Returning DEF Compute
<1>4. CASE ~(Highest(c) = highest[c] /\ fresh[c] /\ ~caller[x].force)
  <2> DEFINE r == [caller[x] EXCEPT !.at = "report", !.quality = Highest(c)]
  <2>1. r \in Calling /\ r.at = "report" /\ r.codec = c /\ r.force = caller[x].force
    BY <1>1, <1>2 DEF Calling, Places
  <2>2. caller' = [caller EXCEPT ![x] = r]
    BY <1>4 DEF Compute
  <2>3. Moves(x, "report", c, caller[x].force)
    <3> HIDE DEF r
    <3> QED
      BY <2>1, <2>2 DEF DynacastTypes, Moves
  <2> QED
    BY <1>1, <1>4, <2>3 DEF Compute
<1> QED
  BY <1>3, <1>4

LEMMA Wishing ==
  ASSUME DynacastTypes, NEW x \in Keys, SetWish(x)
  PROVE  LET c == caller[x].codec IN
         /\ c \in Codecs /\ caller[x].at = "set"
         /\ UNCHANGED <<highest, fresh, timer, regressed, takenWishes, managerVars, calls>>
         /\ \/ /\ c \in regressed /\ UNCHANGED wishes
               /\ \/ Moves(x, "idle", Target, FALSE)
                  \/ Moves(x, "set", Target, caller[x].force)
            \/ /\ Moves(x, "compute", c, caller[x].force)
               /\ wishes' \in [Codecs -> [Keys -> Qualities]]
               /\ \A d \in Codecs \ {c} : wishes'[d] = wishes[d]
<1> DEFINE c == caller[x].codec
<1>1. c \in Codecs /\ caller[x] \in Calling /\ caller[x].quality \in Qualities /\ x \in Callers
  BY DEF DynacastTypes, Calling, Callers
<1>2. CASE c \notin regressed
  <2>1. wishes' = [wishes EXCEPT ![c][x] = caller[x].quality] /\ GoOn(x, "compute")
    BY <1>2 DEF SetWish
  <2>2. wishes' \in [Codecs -> [Keys -> Qualities]] /\ \A d \in Codecs \ {c} : wishes'[d] = wishes[d]
    BY <1>1, <2>1 DEF DynacastTypes
  <2>3. "compute" \in Places
    BY DEF Places
  <2> QED
    BY <1>1, <2>1, <2>2, <2>3, Going DEF SetWish
<1>3. CASE c \in regressed
  <2>1. Return(x) \/ caller' = [caller EXCEPT ![x].codec = Target]
    BY <1>3 DEF SetWish
  <2>2. ASSUME caller' = [caller EXCEPT ![x].codec = Target]
        PROVE  Moves(x, caller[x].at, Target, caller[x].force)
    BY <1>1, <2>2, DynacastConstants DEF DynacastTypes, Moves, Calling
  <2> QED
    BY <1>1, <1>3, <2>1, <2>2, Returning DEF SetWish
<1> QED
  BY <1>2, <1>3

LEMMA Telling ==
  ASSUME DynacastTypes, NEW x \in Callers, Report(x)
  PROVE  Moves(x, "update", caller[x].codec, FALSE) /\ caller[x].at = "report"
<1>1. caller[x] \in Calling
  BY DEF DynacastTypes
<1> DEFINE r == [caller[x] EXCEPT !.at = "update", !.force = FALSE]
<1>2. r \in Calling /\ r.at = "update" /\ r.codec = caller[x].codec /\ r.force = FALSE
  BY <1>1 DEF Calling, Places
<1>3. caller' = [caller EXCEPT ![x] = r] /\ caller[x].at = "report"
  BY DEF Report
<1> HIDE DEF r
<1> QED
  BY <1>2, <1>3 DEF DynacastTypes, Moves

LEMMA Asking ==
  ASSUME DynacastTypes, NEW x \in Keys, NEW c \in Codecs, NEW q \in Qualities, Notify(x, c, q)
  PROVE  Moves(x, "set", c, FALSE) /\ caller[x].at = "idle" /\ x \in Callers
<1> DEFINE r == [Resting EXCEPT !.at = "set", !.codec = c, !.quality = q]
<1>1. r \in Calling /\ r.at = "set" /\ r.codec = c /\ r.force = FALSE
  BY Rests DEF Calling, Places
<1>2. caller' = [caller EXCEPT ![x] = r] /\ caller[x].at = "idle" /\ x \in Callers
  BY DEF Notify, FreeCaller, Resting, Callers
<1> HIDE DEF r
<1> QED
  BY <1>1, <1>2 DEF DynacastTypes, Moves

LEMMA Updating ==
  ASSUME DynacastTypes, NEW x \in Callers, Update(x)
  PROVE  /\ caller[x].at = "update"
         /\ \/ x = "regress" /\ Moves(x, "stop", caller[x].codec, caller[x].force)
            \/ x # "regress" /\ Moves(x, "idle", Target, FALSE)
<1>1. caller[x] \in Calling
  BY DEF DynacastTypes
<1>2. CASE x = "regress"
  <2> DEFINE r == [caller[x] EXCEPT !.at = "stop"]
  <2>1. r \in Calling /\ r.at = "stop" /\ r.codec = caller[x].codec /\ r.force = caller[x].force
    BY <1>1 DEF Calling, Places
  <2>2. caller' = [caller EXCEPT ![x] = r] /\ caller[x].at = "update"
    BY <1>2 DEF Update
  <2> HIDE DEF r
  <2> QED
    BY <1>2, <2>1, <2>2 DEF DynacastTypes, Moves
<1>3. CASE x # "regress"
  <2>1. Return(x) /\ caller[x].at = "update"
    BY <1>3 DEF Update
  <2> QED
    BY <1>3, <2>1, Returning
<1> QED
  BY <1>2, <1>3

LEMMA Regressed ==
  ASSUME DynacastTypes
  PROVE  LET x == "regress" IN
         /\ x \in Callers
         /\ Regress => Moves(x, "update", Regressing, FALSE) /\ caller[x].at = "idle"
         /\ StopTimer => Moves(x, "take", caller[x].codec, caller[x].force) /\ caller[x].at = "stop"
         /\ TakeWishes => Moves(x, "replace", Target, FALSE) /\ caller[x].at = "take"
         /\ Replace => Moves(x, "reset", caller[x].codec, caller[x].force) /\ caller[x].at = "replace"
         /\ Reset => Moves(x, "idle", Target, FALSE) /\ caller[x].at = "reset"
<1> DEFINE x == "regress"
<1>1. x \in Callers /\ {"update", "take", "replace", "reset"} \subseteq Places
  BY DEF Callers, Places
<1>2. ASSUME Regress PROVE Moves(x, "update", Regressing, FALSE) /\ caller[x].at = "idle"
  <2> DEFINE r == [Resting EXCEPT !.at = "update", !.codec = Regressing]
  <2>1. r \in Calling /\ r.at = "update" /\ r.codec = Regressing /\ r.force = FALSE
    BY <1>1, Rests DEF Calling
  <2>2. caller' = [caller EXCEPT ![x] = r] /\ caller[x].at = "idle"
    BY <1>2 DEF Regress, FreeCaller, Resting
  <2> HIDE DEF r
  <2> QED
    BY <1>1, <2>1, <2>2 DEF DynacastTypes, Moves
<1>3. ASSUME TakeWishes PROVE Moves(x, "replace", Target, FALSE) /\ caller[x].at = "take"
  <2> DEFINE r == [Resting EXCEPT !.at = "replace"]
  <2>1. r \in Calling /\ r.at = "replace" /\ r.codec = Target /\ r.force = FALSE
    BY <1>1, Rests DEF Calling
  <2>2. caller' = [caller EXCEPT ![x] = r] /\ caller[x].at = "take"
    BY <1>3 DEF TakeWishes
  <2> HIDE DEF r
  <2> QED
    BY <1>1, <2>1, <2>2 DEF DynacastTypes, Moves
<1>4. StopTimer => Moves(x, "take", caller[x].codec, caller[x].force) /\ caller[x].at = "stop"
  BY <1>1, Going DEF StopTimer
<1>5. Replace => Moves(x, "reset", caller[x].codec, caller[x].force) /\ caller[x].at = "replace"
  BY <1>1, Going DEF Replace
<1>6. Reset => Moves(x, "idle", Target, FALSE) /\ caller[x].at = "reset"
  BY <1>1, Returning DEF Reset
<1> QED
  BY <1>1, <1>2, <1>3, <1>4, <1>5, <1>6

LEMMA Timed ==
  ASSUME DynacastTypes
  PROVE  /\ \A c \in Codecs : ClearNodes(c) => Moves("clear", "compute", c, FALSE) /\ caller["clear"].at = "idle"
         /\ \A c \in Codecs : TimerFires(c) => Moves(c, "compute", c, TRUE) /\ caller[c].at = "idle"
         /\ DebounceFires => Moves("debounce", "update", Target, TRUE) /\ caller["debounce"].at = "idle"
         /\ ForceUpdate => Moves("force", "update", Target, TRUE) /\ caller["force"].at = "idle"
<1>1. {"clear", "debounce", "force"} \cup Codecs \subseteq Callers /\ {"compute", "update"} \subseteq Places
  BY DEF Callers, Places
<1> QED
  BY <1>1, Beginning, DynacastConstants DEF ClearNodes, TimerFires, DebounceFires, ForceUpdate

\* What the wishes of a codec say is known, or someone is about to compute it: a caller,
\* or, for the codec that took wishes over, its timer once the regression is through.
Known(c) ==
  \/ highest[c] = Highest(c)
  \/ \E x \in Callers : caller[x].at = "compute" /\ caller[x].codec = c
  \/ c \in regressed
  \/ c = Target /\ (timer[c] \/ caller["regress"].at = "reset")

\* After a restart the codec that is not given up is told of for certain: a timer's
\* caller reports whether or not anything has changed.
TargetComes ==
  \/ timer[Target]
  \/ \E x \in Callers :
       /\ caller[x].codec = Target
       /\ caller[x].at = "report" \/ (caller[x].at = "compute" /\ caller[x].force)

WantedComes ==
  \/ wanted = committed
  \/ CallersAt("update") # {}
  \/ committed = Nothing /\ TargetComes
  \/ ~Upgrades /\ debouncePending /\ debounce

\* A pending change has its timer, or the timer's function is about to commit it.
Debounced ==
  /\ debounce \in BOOLEAN /\ debouncePending \in BOOLEAN
  /\ caller["debounce"].at \in {"idle", "update"}
  /\ caller["debounce"].at = "update" => caller["debounce"].force = TRUE
  /\ debouncePending /\ ~debounce => caller["debounce"].at = "update"
  /\ debouncePending => wanted # Nothing

DynacastInv ==
  /\ DynacastTypes
  /\ \A c \in Codecs : Known(c)
  /\ wanted = Nothing => committed = Nothing
  /\ Debounced /\ WantedComes

LEMMA SameHighest ==
  ASSUME NEW d \in Codecs, wishes'[d] = wishes[d]
  PROVE  Highest(d)' = Highest(d)
BY DEF Highest

\* A codec's wishes stay known as long as nobody else touches them.
LEMMA KnownKept ==
  ASSUME NEW d \in Codecs, Known(d), NEW x \in Callers,
         \A y \in Callers \ {x} : caller'[y] = caller[y],
         caller[x].at = "compute" => caller[x].codec # d,
         wishes'[d] = wishes[d], highest'[d] = highest[d], regressed \subseteq regressed',
         d = Target => (timer[d] => timer'[d]),
         caller["regress"].at = "reset" => caller'["regress"].at = "reset"
  PROVE  Known(d)'
BY SameHighest DEF Known

LEMMA TypesStay ==
  ASSUME DynacastTypes, DynacastNext
  PROVE  DynacastTypes'
<1> USE DEF codecVars, managerVars, Moves, DynacastTypes
<1>1. ASSUME NEW x \in Keys, NEW c \in Codecs, NEW q \in Qualities, Notify(x, c, q) PROVE DynacastTypes'
  BY Asking, <1>1 DEF Notify
<1>2. ASSUME NEW x \in Keys, SetWish(x) PROVE DynacastTypes'
  BY Wishing, <1>2
<1>3. ASSUME NEW x \in Callers, Compute(x) PROVE DynacastTypes'
  <2> DEFINE c == caller[x].codec
  <2>1. c \in Codecs /\ caller' \in [Callers -> Calling] /\ Highest(c) \in Qualities
    BY <1>3, Announcing, HighestOf
  <2>2. UNCHANGED <<wishes, timer, takenWishes>>
    BY <1>3, Announcing
  <2>3. \/ UNCHANGED <<highest, fresh>>
        \/ highest' = [highest EXCEPT ![c] = Highest(c)] /\ fresh' = [fresh EXCEPT ![c] = TRUE]
    BY <1>3, Announcing
  <2> HIDE DEF c
  <2> QED
    BY <2>1, <2>2, <2>3
<1>4. ASSUME NEW x \in Callers, Report(x) PROVE DynacastTypes'
  BY Telling, <1>4 DEF Report
<1>5. ASSUME NEW x \in Callers, Update(x) PROVE DynacastTypes'
  BY Updating, <1>5 DEF Update
<1>6. ASSUME NEW c \in Codecs, ClearNodes(c) PROVE DynacastTypes'
  <2>1. [k \in Keys |-> IF k \in OtherNodes THEN 0 ELSE wishes[c][k]] \in [Keys -> Qualities]
    BY Rests
  <2>2. wishes' \in [Codecs -> [Keys -> Qualities]]
    BY <1>6, <2>1 DEF ClearNodes
  <2> QED
    BY Timed, <1>6, <2>2 DEF ClearNodes
<1>7. ASSUME NEW c \in Codecs, TimerFires(c) PROVE DynacastTypes'
  BY Timed, <1>7 DEF TimerFires
<1>8. CASE DebounceFires
  BY Timed, <1>8 DEF DebounceFires
<1>9. CASE ForceUpdate
  BY Timed, <1>9 DEF ForceUpdate
<1>10. CASE Regress
  BY Regressed, <1>10 DEF Regress
<1>11. CASE StopTimer
  BY Regressed, <1>11 DEF StopTimer
<1>12. CASE TakeWishes
  <2>1. NoWish \in [Keys -> Qualities] /\ wishes[Regressing] \in [Keys -> Qualities]
    BY Rests DEF NoWish
  <2> QED
    BY Regressed, <1>12, <2>1 DEF TakeWishes
<1>13. CASE Replace
  <2>1. ASSUME NEW k \in Keys PROVE MaxOf({wishes[Target][k], takenWishes[k]}) \in Qualities
    <3>1. {wishes[Target][k], takenWishes[k]} \subseteq Qualities
      BY Rests
    <3> QED
      BY <3>1, MaxIn
  <2>2. [k \in Keys |-> MaxOf({wishes[Target][k], takenWishes[k]})] \in [Keys -> Qualities]
    BY <2>1
  <2>3. NoWish \in [Keys -> Qualities]
    BY Rests DEF NoWish
  <2> QED
    BY Regressed, Rests, <1>13, <2>2, <2>3 DEF Replace
<1>14. CASE Reset
  BY Regressed, <1>14 DEF Reset
<1>15. CASE Restart
  BY <1>15 DEF Restart
<1> QED
  BY <1>1, <1>2, <1>3, <1>4, <1>5, <1>6, <1>7, <1>8,
     <1>9, <1>10, <1>11, <1>12, <1>13, <1>14, <1>15 DEF DynacastNext

LEMMA KnownStays ==
  ASSUME DynacastInv, DynacastNext, NEW d \in Codecs
  PROVE  Known(d)'
<1>0. DynacastTypes /\ Known(d)
  BY DEF DynacastInv
<1>a. Keys \subseteq Callers /\ Codecs \subseteq Callers /\ {"regress", "clear", "force", "debounce"} \subseteq Callers
  BY DEF Callers
<1> USE DEF codecVars, managerVars, Moves
<1>1. ASSUME NEW x \in Keys, NEW c \in Codecs, NEW q \in Qualities, Notify(x, c, q) PROVE Known(d)'
  BY <1>0, <1>a, <1>1, Asking, KnownKept DEF Notify
<1>2. ASSUME NEW x \in Keys, SetWish(x) PROVE Known(d)'
  <2>1. CASE caller'[x].at = "compute" /\ caller'[x].codec = d
    BY <1>a, <2>1 DEF Known
  <2>2. CASE ~(caller'[x].at = "compute" /\ caller'[x].codec = d)
    <3>1. wishes'[d] = wishes[d] /\ caller[x].at = "set" /\ \A y \in Callers \ {x} : caller'[y] = caller[y]
      BY <1>0, <1>2, <2>2, Wishing
    <3>2. UNCHANGED <<highest, timer, regressed>>
      BY <1>0, <1>2, Wishing
    <3> QED
      BY <1>0, <1>a, <3>1, <3>2, KnownKept
  <2> QED
    BY <2>1, <2>2
<1>3. ASSUME NEW x \in Callers, Compute(x) PROVE Known(d)'
  <2>1. caller[x].at = "compute" /\ UNCHANGED <<wishes, timer, regressed>>
    BY <1>0, <1>3, Announcing
  <2>2. CASE caller[x].codec = d
    <3>1. highest'[d] = Highest(d)
      BY SMTT(30), ZenonT(30), <1>0, <1>3, <2>2, Announcing DEF DynacastTypes
    <3> QED
      BY <2>1, <3>1, SameHighest DEF Known
  <2>3. CASE caller[x].codec # d
    <3>1. highest'[d] = highest[d] /\ \A y \in Callers \ {x} : caller'[y] = caller[y]
      BY <1>0, <1>3, <2>3, Announcing DEF DynacastTypes
    <3> QED
      BY <1>0, <1>a, <2>1, <2>3, <3>1, KnownKept
  <2> QED
    BY <2>2, <2>3
<1>4. ASSUME NEW x \in Callers, Report(x) PROVE Known(d)'
  BY <1>0, <1>a, <1>4, Telling, KnownKept DEF Report
<1>5. ASSUME NEW x \in Callers, Update(x) PROVE Known(d)'
  BY <1>0, <1>a, <1>5, Updating, KnownKept DEF Update
<1>6. ASSUME NEW c \in Codecs, ClearNodes(c) PROVE Known(d)'
  <2>1. CASE c = d
    BY <1>0, <1>a, <1>6, <2>1, Timed DEF Known
  <2>2. CASE c # d
    <3>1. wishes'[d] = wishes[d] /\ UNCHANGED <<highest, timer, regressed>>
      BY <1>0, <1>6, <2>2 DEF ClearNodes, DynacastTypes
    <3> QED
      BY <1>0, <1>a, <1>6, <3>1, Timed, KnownKept
  <2> QED
    BY <2>1, <2>2
<1>7. ASSUME NEW c \in Codecs, TimerFires(c) PROVE Known(d)'
  <2>1. Moves(c, "compute", c, TRUE) /\ caller[c].at = "idle"
    BY <1>0, <1>7, Timed
  <2>2. CASE c = d
    BY <1>a, <2>1, <2>2 DEF Known
  <2>3. CASE c # d
    <3>1. timer'[d] = timer[d] /\ UNCHANGED <<wishes, highest, regressed>>
      BY <1>0, <1>7, <2>3 DEF TimerFires, DynacastTypes
    <3> QED
      BY <1>0, <1>a, <2>1, <3>1, KnownKept
  <2> QED
    BY <2>2, <2>3
<1>8. CASE DebounceFires
  BY <1>0, <1>a, <1>8, Timed, KnownKept DEF DebounceFires
<1>9. CASE ForceUpdate
  BY <1>0, <1>a, <1>9, Timed, KnownKept DEF ForceUpdate
<1>10. CASE Regress
  BY <1>0, <1>a, <1>10, Regressed, KnownKept DEF Regress
<1>11. CASE StopTimer
  <2>1. d = Target => timer'[d] = timer[d]
    BY <1>0, <1>11, DynacastConstants DEF StopTimer, DynacastTypes
  <2> QED
    BY <1>0, <1>a, <1>11, <2>1, Regressed, KnownKept DEF StopTimer
<1>12. CASE TakeWishes
  <2>1. CASE d = Regressing
    BY <1>12, <2>1 DEF TakeWishes, Known
  <2>2. CASE d # Regressing
    <3>1. wishes'[d] = wishes[d] /\ regressed \subseteq regressed' /\ UNCHANGED <<highest, timer>>
      BY <1>0, <1>12, <2>2 DEF TakeWishes, DynacastTypes
    <3> QED
      BY <1>0, <1>a, <1>12, <3>1, Regressed, KnownKept
  <2> QED
    BY <2>1, <2>2
<1>13. CASE Replace
  <2>1. CASE d = Target
    BY <1>0, <1>13, <2>1, Regressed DEF Known
  <2>2. CASE d # Target
    <3>1. wishes'[d] = wishes[d] /\ UNCHANGED <<highest, timer, regressed>>
      BY <1>0, <1>13, <2>2 DEF Replace, DynacastTypes
    <3> QED
      BY <1>0, <1>a, <1>13, <3>1, Regressed, KnownKept
  <2> QED
    BY <2>1, <2>2
<1>14. CASE Reset
  <2>1. Moves("regress", "idle", Target, FALSE) /\ caller["regress"].at = "reset"
    BY <1>0, <1>14, Regressed
  <2>2. CASE d = Target
    BY <1>0, <1>14, <2>2 DEF Reset, Known, DynacastTypes
  <2>3. CASE d # Target
    <3>1. UNCHANGED <<wishes, highest, regressed>>
      BY <1>14 DEF Reset
    <3>2. Highest(d)' = Highest(d)
      BY <3>1, SameHighest
    <3> QED
      BY <1>0, <1>a, <2>1, <2>3, <3>1, <3>2 DEF Known
  <2> QED
    BY <2>2, <2>3
<1>15. CASE Restart
  <2>1. UNCHANGED <<wishes, highest, regressed, caller>> /\ (timer[d] => timer'[d])
    BY <1>15 DEF Restart
  <2>2. Highest(d)' = Highest(d)
    BY <2>1, SameHighest
  <2> QED
    BY <1>0, <2>1, <2>2 DEF Known
<1> QED
  BY <1>1, <1>2, <1>3, <1>4, <1>5, <1>6, <1>7, <1>8,
     <1>9, <1>10, <1>11, <1>12, <1>13, <1>14, <1>15 DEF DynacastNext

LEMMA DebounceStays ==
  ASSUME DynacastInv, DynacastNext
  PROVE  Debounced' /\ (wanted' = Nothing => committed' = Nothing)
<1> DEFINE Goal == Debounced' /\ (wanted' = Nothing => committed' = Nothing)
           Kept == UNCHANGED <<wanted, committed, debouncePending, debounce>>
<1>0. DynacastTypes /\ Debounced /\ (wanted = Nothing => committed = Nothing)
  BY DEF DynacastInv
<1>a. /\ Keys \subseteq Callers /\ Codecs \subseteq Callers
      /\ {"regress", "clear", "force", "debounce"} \subseteq Callers
      /\ "debounce" \notin Keys \cup Codecs
  BY DynacastConstants DEF Callers
<1>b. ASSUME Kept, caller'["debounce"] = caller["debounce"] PROVE Goal
  BY <1>0, <1>b DEF Debounced
<1>c. ASSUME NEW x \in Callers \ {"debounce"}, \A y \in Callers \ {x} : caller'[y] = caller[y], Kept
      PROVE  Goal
  BY <1>a, <1>b, <1>c
<1> HIDE DEF Goal
<1> USE DEF codecVars, managerVars, Moves
<1>1. ASSUME NEW x \in Keys, NEW c \in Codecs, NEW q \in Qualities, Notify(x, c, q) PROVE Goal
  BY <1>0, <1>a, <1>c, <1>1, Asking DEF Notify
<1>2. ASSUME NEW x \in Keys, SetWish(x) PROVE Goal
  <2>1. Kept /\ \A y \in Callers \ {x} : caller'[y] = caller[y]
    BY <1>0, <1>2, Wishing
  <2> QED
    BY <1>a, <1>c, <2>1
<1>3. ASSUME NEW x \in Callers, Compute(x) PROVE Goal
  <2>1. caller[x].at = "compute" /\ Kept /\ \A y \in Callers \ {x} : caller'[y] = caller[y]
    BY <1>0, <1>3, Announcing
  <2>2. x # "debounce"
    BY <1>0, <2>1 DEF Debounced
  <2> QED
    BY <1>c, <2>1, <2>2
<1>4. ASSUME NEW x \in Callers, Report(x) PROVE Goal
  <2>1. Moves(x, "update", caller[x].codec, FALSE) /\ caller[x].at = "report"
    BY <1>0, <1>4, Telling
  <2>2. x # "debounce" /\ caller'["debounce"] = caller["debounce"]
    BY <1>0, <1>a, <2>1 DEF Debounced
  <2>3. wanted' = wanted \/ caller[x].codec \in DOMAIN wanted'
    BY <1>4 DEF Report
  <2>4. DOMAIN Nothing = {}
    BY DEF Nothing
  <2>5. wanted' = wanted \/ wanted' # Nothing
    BY <2>3, <2>4
  <2>6. UNCHANGED <<committed, debouncePending, debounce>>
    BY <1>4 DEF Report
  <2> QED
    BY <1>0, <2>2, <2>5, <2>6 DEF Goal, Debounced
<1>5. ASSUME NEW x \in Callers, Update(x) PROVE Goal
  <2>1. caller[x].at = "update" /\ \A y \in Callers \ {x} : caller'[y] = caller[y]
    BY <1>0, <1>5, Updating
  <2>2. wanted' = wanted
    BY <1>5 DEF Update
  <2>3. caller'["debounce"].at \in {"idle", "update"}
        /\ (caller'["debounce"].at = "update" => caller'["debounce"].force = TRUE)
    <3>1. x = "debounce" => caller'[x].at = "idle"
      BY <1>0, <1>5, Updating
    <3> QED
      BY <1>0, <1>a, <2>1, <3>1 DEF Debounced
  <2>4. CASE wanted = Nothing \/ (~caller[x].force /\ wanted = committed)
    <3>1. UNCHANGED <<committed, debouncePending, debounce>>
      BY <1>5, <2>4 DEF Update
    <3>2. debouncePending => x # "debounce"
      BY <1>0, <2>1, <2>4 DEF Debounced
    <3>3. debouncePending /\ ~debounce => caller'["debounce"].at = "update"
      BY <1>0, <1>a, <2>1, <3>2 DEF Debounced
    <3> QED
      BY <1>0, <2>2, <2>3, <3>1, <3>3 DEF Goal, Debounced
  <2>5. CASE /\ ~(wanted = Nothing \/ (~caller[x].force /\ wanted = committed))
             /\ caller[x].force \/ Upgrades
    <3>1. Commit
      BY <1>5, <2>5 DEF Update
    <3> QED
      BY <1>0, <2>2, <2>3, <2>5, <3>1 DEF Goal, Debounced, Commit
  <2>6. CASE /\ ~(wanted = Nothing \/ (~caller[x].force /\ wanted = committed))
             /\ ~(caller[x].force \/ Upgrades)
    <3>1. /\ debouncePending' = TRUE /\ debounce' = (debouncePending => debounce)
          /\ UNCHANGED committed
      BY <1>5, <2>6 DEF Update
    <3>2. x # "debounce" /\ caller'["debounce"] = caller["debounce"]
      BY <1>0, <1>a, <2>1, <2>6 DEF Debounced
    <3>3. wanted # Nothing
      BY <2>6
    <3>4. debounce' \in BOOLEAN /\ (~debounce' => caller'["debounce"].at = "update")
      BY <1>0, <3>1, <3>2 DEF Debounced
    <3> QED
      BY <1>0, <2>2, <2>3, <3>1, <3>3, <3>4 DEF Goal, Debounced
  <2> QED
    BY <2>4, <2>5, <2>6
<1>6. ASSUME NEW c \in Codecs, ClearNodes(c) PROVE Goal
  BY <1>0, <1>a, <1>c, <1>6, Timed DEF ClearNodes
<1>7. ASSUME NEW c \in Codecs, TimerFires(c) PROVE Goal
  <2>1. c \in Callers \ {"debounce"} /\ Kept
    BY <1>a, <1>7 DEF TimerFires
  <2>2. \A y \in Callers \ {c} : caller'[y] = caller[y]
    BY <1>0, <1>7, Timed
  <2> QED
    BY <1>c, <2>1, <2>2
<1>8. CASE DebounceFires
  <2>1. Moves("debounce", "update", Target, TRUE)
    BY <1>0, <1>8, Timed
  <2>2. debounce' = FALSE /\ UNCHANGED <<wanted, committed, debouncePending>>
    BY <1>8 DEF DebounceFires
  <2> QED
    BY <1>0, <2>1, <2>2 DEF Goal, Debounced
<1>9. CASE ForceUpdate
  <2>1. Kept /\ caller'["debounce"] = caller["debounce"]
    BY <1>0, <1>a, <1>9, Timed DEF ForceUpdate
  <2> QED
    BY <1>b, <2>1 DEF Goal
<1>10. CASE Regress
  <2>1. caller'["debounce"] = caller["debounce"]
    BY <1>0, <1>a, <1>10, Regressed
  <2>2. Regressing \in DOMAIN wanted' /\ UNCHANGED <<committed, debouncePending, debounce>>
    BY <1>10 DEF Regress
  <2>3. wanted' # Nothing
    BY <2>2 DEF Nothing
  <2> QED
    BY <1>0, <2>1, <2>2, <2>3 DEF Goal, Debounced
<1>11. CASE StopTimer
  <2>1. Kept /\ caller'["debounce"] = caller["debounce"]
    BY <1>0, <1>a, <1>11, Regressed DEF StopTimer
  <2> QED
    BY <1>b, <2>1 DEF Goal
<1>12. CASE TakeWishes
  <2>1. Kept /\ caller'["debounce"] = caller["debounce"]
    BY <1>0, <1>a, <1>12, Regressed DEF TakeWishes
  <2> QED
    BY <1>b, <2>1 DEF Goal
<1>13. CASE Replace
  <2>1. Kept /\ caller'["debounce"] = caller["debounce"]
    BY <1>0, <1>a, <1>13, Regressed DEF Replace
  <2> QED
    BY <1>b, <2>1 DEF Goal
<1>14. CASE Reset
  <2>1. Kept /\ caller'["debounce"] = caller["debounce"]
    BY <1>0, <1>a, <1>14, Regressed DEF Reset
  <2> QED
    BY <1>b, <2>1 DEF Goal
<1>15. CASE Restart
  BY <1>0, <1>15 DEF Goal, Restart, Debounced
<1> QED
  BY <1>1, <1>2, <1>3, <1>4, <1>5, <1>6, <1>7, <1>8,
     <1>9, <1>10, <1>11, <1>12, <1>13, <1>14, <1>15 DEF DynacastNext, Goal

\* Whoever does not commit, and does not bring the target's codec, leaves it to come.
LEMMA WantedKept ==
  ASSUME WantedComes, NEW x \in Callers, \A y \in Callers \ {x} : caller'[y] = caller[y],
         caller[x].at # "update",
         caller[x].at \in {"compute", "report"} => caller[x].codec # Target,
         UNCHANGED <<wanted, committed, debouncePending, debounce>>,
         timer[Target] => timer'[Target]
  PROVE  WantedComes'
<1>1. CASE wanted = committed \/ (~Upgrades /\ debouncePending /\ debounce)
  BY <1>1 DEF WantedComes, Upgrades
<1>2. CASE CallersAt("update") # {}
  <2>1. PICK y \in Callers : caller[y].at = "update"
    BY <1>2 DEF CallersAt
  <2>2. y \in CallersAt("update")'
    BY <2>1 DEF CallersAt
  <2> QED
    BY <2>2 DEF WantedComes
<1>3. CASE committed = Nothing /\ TargetComes
  <2>1. TargetComes'
    BY <1>3 DEF TargetComes
  <2> QED
    BY <1>3, <2>1 DEF WantedComes, Nothing
<1> QED
  BY <1>1, <1>2, <1>3 DEF WantedComes

LEMMA WantedStays ==
  ASSUME DynacastInv, DynacastNext
  PROVE  WantedComes'
<1> DEFINE Kept == UNCHANGED <<wanted, committed, debouncePending, debounce>>
<1>0. DynacastTypes /\ Debounced /\ WantedComes /\ (wanted = Nothing => committed = Nothing)
  BY DEF DynacastInv
<1>a. Keys \subseteq Callers /\ Codecs \subseteq Callers /\ {"regress", "clear", "force", "debounce"} \subseteq Callers
  BY DEF Callers
<1>b. ASSUME NEW x \in Callers, caller'[x].at = "update" PROVE WantedComes'
  <2>1. x \in CallersAt("update")'
    BY <1>b DEF CallersAt
  <2> QED
    BY <2>1 DEF WantedComes
<1> USE DEF codecVars, managerVars, Moves
<1>1. ASSUME NEW x \in Keys, NEW c \in Codecs, NEW q \in Qualities, Notify(x, c, q) PROVE WantedComes'
  BY <1>0, <1>a, <1>1, Asking, WantedKept DEF Notify
<1>2. ASSUME NEW x \in Keys, SetWish(x) PROVE WantedComes'
  <2>1. /\ Kept /\ \A y \in Callers \ {x} : caller'[y] = caller[y]
        /\ caller[x].at = "set" /\ UNCHANGED timer
    BY <1>0, <1>2, Wishing
  <2> QED
    BY <1>0, <1>a, <2>1, WantedKept
<1>3. ASSUME NEW x \in Callers, Compute(x) PROVE WantedComes'
  <2>1. /\ Kept /\ \A y \in Callers \ {x} : caller'[y] = caller[y]
        /\ caller[x].at = "compute" /\ UNCHANGED timer
    BY <1>0, <1>3, Announcing
  <2>2. CASE caller[x].codec # Target
    BY <1>0, <2>1, <2>2, WantedKept
  <2>3. CASE caller[x].codec = Target
    <3>1. CASE wanted = committed \/ (~Upgrades /\ debouncePending /\ debounce)
      BY <2>1, <3>1 DEF WantedComes, Upgrades
    <3>2. CASE CallersAt("update") # {}
      <4>1. PICK y \in Callers : caller[y].at = "update"
        BY <3>2 DEF CallersAt
      <4>2. caller'[y] = caller[y]
        BY <2>1, <4>1
      <4> QED
        BY <1>b, <4>1, <4>2
    <3>3. CASE committed = Nothing /\ TargetComes
      <4>1. TargetComes'
        <5>1. CASE caller'[x].at = "report" /\ caller'[x].codec = Target
          BY <5>1 DEF TargetComes
        <5>2. CASE ~(caller'[x].at = "report" /\ caller'[x].codec = Target)
          <6>1. ~caller[x].force
            BY <1>0, <1>3, <2>3, <5>2, Announcing
          <6> QED
            BY <2>1, <3>3, <6>1 DEF TargetComes
        <5> QED
          BY <5>1, <5>2
      <4> QED
        BY <2>1, <3>3, <4>1 DEF WantedComes, Nothing
    <3> QED
      BY <1>0, <3>1, <3>2, <3>3 DEF WantedComes
  <2> QED
    BY <2>2, <2>3
<1>4. ASSUME NEW x \in Callers, Report(x) PROVE WantedComes'
  BY <1>0, <1>b, <1>4, Telling
<1>5. ASSUME NEW x \in Callers, Update(x) PROVE WantedComes'
  <2>1. wanted' = wanted
    BY <1>5 DEF Update
  <2>2. CASE wanted = Nothing \/ (~caller[x].force /\ wanted = committed)
    <3>1. committed' = committed
      BY <1>5, <2>2 DEF Update
    <3> QED
      BY <1>0, <2>1, <2>2, <3>1 DEF WantedComes
  <2>3. CASE /\ ~(wanted = Nothing \/ (~caller[x].force /\ wanted = committed))
             /\ caller[x].force \/ Upgrades
    <3>1. Commit
      BY <1>5, <2>3 DEF Update
    <3> QED
      BY <2>1, <3>1 DEF WantedComes, Commit
  <2>4. CASE /\ ~(wanted = Nothing \/ (~caller[x].force /\ wanted = committed))
             /\ ~(caller[x].force \/ Upgrades)
    <3>1. debouncePending' = TRUE /\ debounce' = (debouncePending => debounce) /\ UNCHANGED committed
      BY <1>5, <2>4 DEF Update
    <3>2. ~Upgrades /\ ~Upgrades'
      BY <2>1, <2>4, <3>1 DEF Upgrades
    <3>3. CASE debouncePending => debounce
      <4>1. debounce'
        BY <3>1, <3>3
      <4> QED
        BY <3>1, <3>2, <4>1 DEF WantedComes
    <3>4. CASE ~(debouncePending => debounce)
      <4>1. caller["debounce"].at = "update" /\ x # "debounce"
        BY <1>0, <2>4, <3>4 DEF Debounced
      <4>2. \A y \in Callers \ {x} : caller'[y] = caller[y]
        BY <1>0, <1>5, Updating
      <4>3. caller'["debounce"] = caller["debounce"]
        BY <1>a, <4>1, <4>2
      <4> QED
        BY <1>a, <1>b, <4>1, <4>3
    <3> QED
      BY <3>3, <3>4
  <2> QED
    BY <2>2, <2>3, <2>4
<1>6. ASSUME NEW c \in Codecs, ClearNodes(c) PROVE WantedComes'
  BY <1>0, <1>a, <1>6, Timed, WantedKept DEF ClearNodes
<1>7. ASSUME NEW c \in Codecs, TimerFires(c) PROVE WantedComes'
  <2>1. Moves(c, "compute", c, TRUE) /\ caller[c].at = "idle" /\ Kept
    BY <1>0, <1>7, Timed DEF TimerFires
  <2>2. CASE c # Target
    <3>1. timer'[Target] = timer[Target]
      BY <1>0, <1>7, <2>2, Rests DEF TimerFires, DynacastTypes
    <3> QED
      BY <1>0, <1>a, <2>1, <3>1, WantedKept
  <2>3. CASE c = Target
    <3>1. TargetComes'
      BY <1>a, <2>1, <2>3 DEF TargetComes
    <3>2. CASE wanted = committed \/ (~Upgrades /\ debouncePending /\ debounce)
      BY <2>1, <3>2 DEF WantedComes, Upgrades
    <3>3. CASE CallersAt("update") # {}
      <4>1. PICK y \in Callers : caller[y].at = "update"
        BY <3>3 DEF CallersAt
      <4>2. caller'[y] = caller[y]
        BY <2>1, <4>1
      <4> QED
        BY <1>b, <4>1, <4>2
    <3>4. CASE committed = Nothing
      BY <2>1, <3>1, <3>4 DEF WantedComes, Nothing
    <3> QED
      BY <1>0, <3>2, <3>3, <3>4 DEF WantedComes
  <2> QED
    BY <2>2, <2>3
<1>8. CASE DebounceFires
  BY <1>0, <1>a, <1>b, <1>8, Timed
<1>9. CASE ForceUpdate
  BY <1>0, <1>a, <1>b, <1>9, Timed
<1>10. CASE Regress
  BY <1>0, <1>a, <1>b, <1>10, Regressed
<1>11. CASE StopTimer
  <2>1. timer'[Target] = timer[Target]
    BY <1>0, <1>11, DynacastConstants DEF StopTimer, DynacastTypes
  <2> QED
    BY <1>0, <1>a, <1>11, <2>1, Regressed, WantedKept DEF StopTimer
<1>12. CASE TakeWishes
  BY <1>0, <1>a, <1>12, Regressed, WantedKept DEF TakeWishes
<1>13. CASE Replace
  BY <1>0, <1>a, <1>13, Regressed, WantedKept DEF Replace
<1>14. CASE Reset
  <2>1. timer[Target] => timer'[Target]
    BY <1>0, <1>14, Rests DEF Reset, DynacastTypes
  <2> QED
    BY <1>0, <1>a, <1>14, <2>1, Regressed, WantedKept DEF Reset
<1>15. CASE Restart
  <2>1. committed' = Nothing /\ timer'[Target]
    BY <1>15, Rests DEF Restart
  <2> QED
    BY <2>1 DEF WantedComes, TargetComes, Nothing
<1> QED
  BY <1>1, <1>2, <1>3, <1>4, <1>5, <1>6, <1>7, <1>8,
     <1>9, <1>10, <1>11, <1>12, <1>13, <1>14, <1>15 DEF DynacastNext

LEMMA DynacastStarts == DynacastInit => DynacastInv
<1> SUFFICES ASSUME DynacastInit PROVE DynacastInv
  OBVIOUS
<1>1. "regress" \in Callers /\ "debounce" \in Callers /\ NoWish \in [Keys -> Qualities]
  BY Rests DEF Callers, NoWish
<1>2. DynacastTypes
  BY <1>1, Rests DEF DynacastInit, DynacastTypes
<1>3. ASSUME NEW c \in Codecs PROVE Known(c)
  <2>1. {wishes[c][k] : k \in Keys} = {0}
    BY DynacastConstants DEF DynacastInit, NoWish
  <2>2. MaxOf({0}) = 0
    BY MaxIn, Rests
  <2> QED
    BY <2>1, <2>2 DEF DynacastInit, Known, Highest
<1>4. caller["debounce"].at = "idle"
  BY <1>1, Rests DEF DynacastInit
<1> QED
  BY <1>2, <1>3, <1>4 DEF DynacastInit, DynacastInv, Debounced, WantedComes

LEMMA DynacastStep == DynacastInv /\ [DynacastNext]_dynacastVars => DynacastInv'
<1> SUFFICES ASSUME DynacastInv, [DynacastNext]_dynacastVars PROVE DynacastInv'
  OBVIOUS
<1>1. CASE DynacastNext
  BY <1>1, TypesStay, KnownStays, DebounceStays, WantedStays DEF DynacastInv
<1>2. CASE UNCHANGED dynacastVars
  <2> USE <1>2 DEF dynacastVars, codecVars, managerVars
  <2>1. DynacastTypes'
    BY DEF DynacastInv, DynacastTypes
  <2>2. \A c \in Codecs : Known(c)'
    BY DEF DynacastInv, Known, Highest
  <2>3. WantedComes' /\ (wanted' = Nothing => committed' = Nothing)
    BY DEF DynacastInv, WantedComes, TargetComes, CallersAt, Upgrades, Nothing
  <2>4. Debounced'
    BY DEF DynacastInv, Debounced, Nothing
  <2> QED
    BY <2>1, <2>2, <2>3, <2>4 DEF DynacastInv
<1> QED
  BY <1>1, <1>2

\* Theorem.  Dynacast, for any codecs, subscribers, nodes and qualities: no change is
\* forgotten on its way through the locks of dynacastqualityvideo.go and
\* dynacastmanagervideo.go.
THEOREM ChangesArrive == DynacastSpec => []NothingForgotten
<1>1. DynacastInv => NothingForgotten
  <2> SUFFICES ASSUME DynacastInv PROVE NothingForgotten
    OBVIOUS
  <2>1. \A c \in Codecs : highest[c] = Highest(c) \/ Coming(c) \/ c \in regressed
                           \/ (caller["regress"].at = "reset" /\ c = Target)
    BY DEF DynacastInv, Known, Coming
  <2>2. TargetComes => \E c \in Codecs : Coming(c)
    BY Rests DEF TargetComes, Coming
  <2> QED
    BY <2>1, <2>2 DEF DynacastInv, WantedComes, NothingForgotten
<1> QED
  BY <1>1, DynacastStarts, DynacastStep, PTL DEF DynacastSpec

----------------------------------------------------------------------------
(***************************************************************************)
(* StreamAllocator, for any tracks, layers, feeds and capacities: a track  *)
(* has what it needs, or the allocator is deficient, or an event of the    *)
(* track is in the queue.  First what the operators of VideoAllocation     *)
(* yield, then what the folds and the recursion of StreamAllocator do      *)
(* (each exists, and stays in a set of results, by a smallest              *)
(* counterexample), and then the handlers.                                 *)
(***************************************************************************)
\* A set of numbers with a bound has a greatest element, and a least one.
LEMMA GreatestNumber ==
  ASSUME NEW S \in SUBSET Nat, S # {}, NEW b \in Nat, \A n \in S : n <= b
  PROVE  Max(S) \in S /\ \A n \in S : n <= Max(S)
<1> DEFINE R == OpToRel(<, Nat)
           Below == {b - n : n \in S}
<1>1. Below \subseteq Nat /\ Below # {}
  <2>1. \A n \in S : b - n \in Nat
    OBVIOUS
  <2>2. PICK n \in S : TRUE
    OBVIOUS
  <2> QED
    BY <2>1, <2>2
<1>2. PICK m \in Below : \A y \in Below : ~ (<<y, m>> \in R)
  <2> HIDE DEF Below
  <2> QED
    BY <1>1, NatLessThanWellFounded, WFMin
<1>3. \A y \in Below : ~ (y < m)
  BY <1>1, <1>2 DEF OpToRel
<1>4. PICK x \in S : m = b - x
  OBVIOUS
<1>5. ASSUME NEW n \in S PROVE x >= n
  <2>1. b - n \in Below
    OBVIOUS
  <2>2. ~ (b - n < b - x)
    BY <1>3, <1>4, <2>1
  <2> QED
    BY <2>2
<1>6. Max(S) \in S /\ \A n \in S : Max(S) >= n
  BY <1>5 DEF Max
<1> QED
  BY <1>6

\* A set of numbers that is not empty has a least element.
LEMMA LeastNumber ==
  ASSUME NEW S \in SUBSET Nat, S # {}
  PROVE  Min(S) \in S /\ \A n \in S : Min(S) <= n
<1> DEFINE R == OpToRel(<, Nat)
<1>1. PICK m \in S : \A y \in S : ~ (<<y, m>> \in R)
  BY NatLessThanWellFounded, WFMin
<1>2. \A y \in S : m <= y
  <2>1. \A y \in S : ~ (y < m)
    BY <1>1 DEF OpToRel
  <2> QED
    BY <2>1
<1> QED
  BY <1>2 DEF Min

\* A number that is not let go below zero.
LEMMA NotNegative == ASSUME NEW n \in Int PROVE Max({0, n}) \in Nat /\ Max({0, n}) \in {0, n}
<1>1. \E x \in {0, n} : \A y \in {0, n} : x >= y
  OBVIOUS
<1>2. Max({0, n}) \in {0, n} /\ \A y \in {0, n} : Max({0, n}) >= y
  BY <1>1 DEF Max
<1> QED
  BY <1>2

\* A natural number is as it is.
LEMMA NotLess == ASSUME NEW n \in Nat PROVE Max({0, n}) = n
<1>1. \A x \in {0, n} : n >= x
  OBVIOUS
<1>2. Max({0, n}) \in {0, n} /\ \A x \in {0, n} : Max({0, n}) >= x
  BY <1>1 DEF Max
<1> QED
  BY <1>2

\* Layers, and none.
Layer == Layers \cup {NoLayer}
Bitrates == [Layers -> Nat]
LEMMA LayerIs ==
  /\ \A l \in Layers : /\ l = <<l[1], l[2]>> /\ l[1] \in 0..MaxSpatial /\ l[2] \in 0..MaxTemporal
                       /\ Valid(l)
  /\ NoLayer[1] = -1 /\ NoLayer[2] = -1 /\ ~Valid(NoLayer)
  /\ \A l \in Layer : l[1] \in -1..MaxSpatial /\ l[2] \in -1..MaxTemporal
                      /\ (Valid(l) <=> l \in Layers)
<1>1. \A l \in Layers : /\ l = <<l[1], l[2]>> /\ l[1] \in 0..MaxSpatial /\ l[2] \in 0..MaxTemporal
                        /\ Valid(l)
  BY LayersAssumption DEF Layers, Valid
<1>2. NoLayer[1] = -1 /\ NoLayer[2] = -1 /\ ~Valid(NoLayer)
  BY DEF NoLayer, Valid
<1> QED
  BY <1>1, <1>2, LayersAssumption DEF Layer

\* Among layers there is a highest, and a lowest.
LEMMA HighestLayer ==
  ASSUME NEW T \in SUBSET Layers, T # {}
  PROVE  \E l \in T : \A k \in T : ~Above(k, l)
<1> DEFINE S == {l[1] : l \in T}
           a == Max(S)
           U == {l \in T : l[1] = a}
           V == {l[2] : l \in U}
           b == Max(V)
<1>1. a \in S /\ \A n \in S : n <= a
  <2>1. S \in SUBSET Nat /\ \A n \in S : n <= MaxSpatial
    BY LayerIs
  <2>2. S # {}
    OBVIOUS
  <2> HIDE DEF S
  <2> QED
    BY <2>1, <2>2, GreatestNumber, LayersAssumption
<1>2. U # {}
  BY <1>1
<1>3. b \in V /\ \A n \in V : n <= b
  <2>1. V \in SUBSET Nat /\ \A n \in V : n <= MaxTemporal
    <3>1. \A l \in U : l[2] \in Nat /\ l[2] <= MaxTemporal
      BY LayerIs
    <3> HIDE DEF U
    <3> QED
      BY <3>1
  <2>2. V # {}
    BY <1>2
  <2> HIDE DEF V
  <2> QED
    BY <2>1, <2>2, GreatestNumber, LayersAssumption
<1>4. PICK l \in U : l[2] = b
  BY <1>3
<1>5. ASSUME NEW k \in T PROVE ~Above(k, l)
  <2>1. k[1] \in Nat /\ l[1] \in Nat /\ k[2] \in Nat /\ l[2] \in Nat
    BY LayerIs
  <2>2. k[1] <= l[1]
    BY <1>1, <1>4
  <2>3. k[1] = l[1] => k[2] <= l[2]
    BY <1>3, <1>4
  <2> QED
    BY ONLY <2>1, <2>2, <2>3 DEF Above
<1> QED
  BY <1>5

\* The same from below: the layers have a lowest.
LEMMA LowestLayer ==
  ASSUME NEW T \in SUBSET Layers, T # {}
  PROVE  \E l \in T : \A k \in T : ~Above(l, k)
<1> DEFINE S == {l[1] : l \in T}
           a == Min(S)
           U == {l \in T : l[1] = a}
           V == {l[2] : l \in U}
           b == Min(V)
<1>1. a \in S /\ \A n \in S : a <= n
  <2>1. S \in SUBSET Nat
    BY LayerIs
  <2>2. S # {}
    OBVIOUS
  <2> HIDE DEF S
  <2> QED
    BY <2>1, <2>2, LeastNumber
<1>2. U # {}
  BY <1>1
<1>3. b \in V /\ \A n \in V : b <= n
  <2>1. V \in SUBSET Nat
    <3>1. \A l \in U : l[2] \in Nat
      BY LayerIs
    <3> QED
      BY <3>1
  <2>2. V # {}
    BY <1>2
  <2> HIDE DEF V
  <2> QED
    BY <2>1, <2>2, LeastNumber
<1>4. PICK l \in U : l[2] = b
  BY <1>3
<1>5. ASSUME NEW k \in T PROVE ~Above(l, k)
  <2>1. k[1] \in Nat /\ l[1] \in Nat /\ k[2] \in Nat /\ l[2] \in Nat
    BY LayerIs
  <2>2. l[1] <= k[1]
    BY <1>1, <1>4
  <2>3. k[1] = l[1] => l[2] <= k[2]
    BY <1>3, <1>4
  <2> QED
    BY ONLY <2>1, <2>2, <2>3 DEF Above
<1> QED
  BY <1>5

\* The highest, or lowest, layer of a set that has a bitrate: there is none if none has.
Measured(S, r) == {l \in S : r[l] # 0}
LEMMA HighestIs ==
  ASSUME NEW S \in SUBSET Layers, NEW r \in Bitrates
  PROVE  /\ HighestIn(S, r) \in Layer
         /\ IF Measured(S, r) = {} THEN HighestIn(S, r) = NoLayer
            ELSE HighestIn(S, r) \in Measured(S, r)
<1> DEFINE T == Measured(S, r)
<1>1. HighestIn(S, r) = IF T = {} THEN NoLayer ELSE CHOOSE l \in T : \A k \in T : ~Above(k, l)
  BY DEF HighestIn, Measured
<1>2. T \subseteq Layers
  BY DEF Measured
<1> HIDE DEF T
<1>3. CASE T = {}
  BY <1>1, <1>3 DEF Layer, T
<1>4. CASE T # {}
  <2>1. (CHOOSE l \in T : \A k \in T : ~Above(k, l)) \in T
    BY <1>2, <1>4, HighestLayer
  <2> QED
    BY <1>1, <1>2, <1>4, <2>1 DEF Layer, T
<1> QED
  BY <1>3, <1>4

\* LowestIn does, too.
LEMMA LowestIs ==
  ASSUME NEW S \in SUBSET Layers, NEW r \in Bitrates
  PROVE  /\ LowestIn(S, r) \in Layer
         /\ IF Measured(S, r) = {} THEN LowestIn(S, r) = NoLayer
            ELSE LowestIn(S, r) \in Measured(S, r)
<1> DEFINE T == Measured(S, r)
<1>1. LowestIn(S, r) = IF T = {} THEN NoLayer ELSE CHOOSE l \in T : \A k \in T : ~Above(l, k)
  BY DEF LowestIn, Measured
<1>2. T \subseteq Layers
  BY DEF Measured
<1> HIDE DEF T
<1>3. CASE T = {}
  BY <1>1, <1>3 DEF Layer, T
<1>4. CASE T # {}
  <2>1. (CHOOSE l \in T : \A k \in T : ~Above(l, k)) \in T
    BY <1>2, <1>4, LowestLayer
  <2> QED
    BY <1>1, <1>2, <1>4, <2>1 DEF Layer, T
<1> QED
  BY <1>3, <1>4

\* What is within a layer are layers.
LEMMA WithinLayers == \A l : Within(l) \in SUBSET Layers
BY DEF Within

\* A layer has a bitrate that is a number.
LEMMA RateIs == ASSUME NEW r \in Bitrates, NEW l \in Layer PROVE RateOf(l, r) \in Nat
BY LayerIs DEF RateOf, Bitrates

\* Nothing is needed exactly if a track is muted, or no layer it may have has a bitrate.
LEMMA OptimalIs ==
  ASSUME NEW x, NEW r \in Bitrates, NEW l
  PROVE  /\ OptimalNeeded(x, r, l) \in Nat
         /\ OptimalNeeded(x, r, l) = 0 <=> (AnyMuted(x) \/ Measured(Within(l), r) = {})
<1> DEFINE h == HighestIn(Within(l), r)
<1>1. h \in Layer /\ IF Measured(Within(l), r) = {} THEN h = NoLayer ELSE h \in Measured(Within(l), r)
  BY WithinLayers, HighestIs
<1>2. RateOf(h, r) \in Nat /\ (RateOf(h, r) = 0 <=> Measured(Within(l), r) = {})
  <2>1. CASE Measured(Within(l), r) = {}
    BY <1>1, <2>1, LayerIs DEF RateOf
  <2>2. CASE Measured(Within(l), r) # {}
    <3>1. h \in Layers /\ r[h] # 0
      BY <1>1, <2>2 DEF Measured, Within
    <3>2. RateOf(h, r) = r[h]
      BY <3>1, LayerIs DEF RateOf
    <3> QED
      BY <2>2, <3>1, <3>2 DEF Bitrates
  <2> QED
    BY <2>1, <2>2
<1>3. OptimalNeeded(x, r, l) = IF AnyMuted(x) THEN 0 ELSE RateOf(h, r)
  BY DEF OptimalNeeded
<1> HIDE DEF h
<1> QED
  BY <1>2, <1>3

\* What an update sets.
LEMMA UpdatedIs ==
  ASSUME NEW x \in Forwarders, NEW target \in Layer, NEW request \in -1..MaxSpatial,
         NEW deficient \in BOOLEAN, NEW requested \in Nat, NEW reason \in Reasons,
         NEW y, y = Updated(x, target, request, deficient, requested, reason)
  PROVE  /\ y \in Forwarders
         /\ y.target = target /\ y.max = x.max /\ y.deficient = deficient
         /\ AnyMuted(y) = AnyMuted(x)
<1> DEFINE q == IF Valid(target) THEN request ELSE -1
           c == IF Valid(target) THEN x.current ELSE NoLayer
<1>1. y = [muted |-> x.muted, pubMuted |-> x.pubMuted, max |-> x.max, current |-> c,
           target |-> target, request |-> q, deficient |-> deficient,
           requested |-> requested, reason |-> reason]
  BY DEF Updated, Forwarders
<1>2. q \in -1..MaxSpatial
  BY LayersAssumption
<1>3. c \in Layer
  BY DEF Layer, Forwarders
<1>4. x.muted \in BOOLEAN /\ x.pubMuted \in BOOLEAN /\ x.max \in Layers
  BY DEF Forwarders
<1> HIDE DEF q, c
<1>5. y \in Forwarders
  BY <1>1, <1>2, <1>3, <1>4 DEF Forwarders, Layer
<1> QED
  BY <1>1, <1>5 DEF AnyMuted

\* A track has what it needs: a layer, or it needs none.
Settled(x, r) == Valid(x.target) \/ OptimalNeeded(x, r, x.max) = 0

\* What matters of the mutes and the maximum, for what is needed.
LEMMA SameNeed ==
  ASSUME NEW x, NEW y, NEW r, AnyMuted(y) = AnyMuted(x), NEW l
  PROVE  OptimalNeeded(y, r, l) = OptimalNeeded(x, r, l)
BY DEF OptimalNeeded

\* AllocateOptimal serves a track, which is not deficient then.
LEMMA OptimalSettles ==
  ASSUME NEW x \in Forwarders, NEW r \in Bitrates, NEW available \in SUBSET (0..MaxSpatial),
         NEW hold \in BOOLEAN
  PROVE  LET y == AllocateOptimal(x, r, available, hold) IN
         y \in Forwarders /\ ~y.deficient /\ Settled(y, r)
<1> DEFINE within == {s \in available : s <= x.max[1]}
           wish == IF within # {} THEN Max(within)
                   ELSE IF available # {} /\ Overshoot THEN Max(available) ELSE -1
           lowest == IF available = {} THEN 0 ELSE Min(available)
           target ==
             IF Valid(x.current)
             THEN IF wish = -1 \/ (wish = x.request /\ x.current[1] = wish)
                  THEN <<x.current[1], x.max[2]>>
                  ELSE IF hold THEN <<lowest, 0>> ELSE <<wish, x.max[2]>>
             ELSE IF hold THEN <<lowest, 0>>
             ELSE <<IF Overshoot THEN MaxSpatial ELSE x.max[1], x.max[2]>>
           request == IF Valid(x.current) \/ hold THEN target[1]
                      ELSE IF wish = -1 THEN x.max[1] ELSE wish
           reason == IF OptimalNeeded(x, r, x.max) = 0 THEN "dry" ELSE "none"
           y == AllocateOptimal(x, r, available, hold)
<1>1. y = IF x.muted THEN Updated(x, NoLayer, -1, FALSE, 0, "muted")
          ELSE IF x.pubMuted THEN Updated(x, NoLayer, -1, FALSE, 0, "pubMuted")
          ELSE Updated(x, target, request, FALSE, OptimalNeeded(x, r, target), reason)
  BY DEF AllocateOptimal
<1> SUFFICES y \in Forwarders /\ ~y.deficient /\ Settled(y, r)
  OBVIOUS
<1> HIDE DEF y, wish, lowest, target, request, reason
<1>2. /\ x.max \in Layers /\ x.max[1] \in 0..MaxSpatial /\ x.max[2] \in 0..MaxTemporal
      /\ x.current \in Layer /\ (Valid(x.current) => x.current[1] \in 0..MaxSpatial)
      /\ x.muted \in BOOLEAN /\ x.pubMuted \in BOOLEAN
  BY LayerIs DEF Forwarders, Layer
<1>3. /\ \A S \in SUBSET available : S # {} => Max(S) \in 0..MaxSpatial
      /\ lowest \in 0..MaxSpatial
  <2>1. ASSUME NEW S \in SUBSET available, S # {} PROVE Max(S) \in 0..MaxSpatial
    <3>1. \A n \in S : n \in 0..MaxSpatial
      OBVIOUS
    <3>4. S \in SUBSET Nat /\ \A n \in S : n <= MaxSpatial
      BY ONLY <3>1, LayersAssumption
    <3>2. Max(S) \in S
      BY ONLY <2>1, <3>4, GreatestNumber, LayersAssumption
    <3> QED
      BY <3>1, <3>2
  <2>2. lowest \in 0..MaxSpatial
    <3>1. available = {} => lowest = 0
      BY DEF lowest
    <3>2. available # {} => lowest = Min(available)
      BY DEF lowest
    <3>3. \A n \in available : n \in 0..MaxSpatial
      OBVIOUS
    <3>4. available \in SUBSET Nat
      BY ONLY <3>3
    <3>5. available # {} => Min(available) \in 0..MaxSpatial
      BY ONLY <3>3, <3>4, LeastNumber
    <3>6. 0 \in 0..MaxSpatial
      BY LayersAssumption
    <3> QED
      BY ONLY <3>1, <3>2, <3>5, <3>6
  <2> QED
    BY <2>1, <2>2
<1>4. wish \in -1..MaxSpatial /\ (wish # -1 => wish \in 0..MaxSpatial)
  <2>1. within \in SUBSET available
    OBVIOUS
  <2> HIDE DEF within
  <2> QED
    BY <1>3, <2>1, LayersAssumption DEF wish
<1>5. /\ 0 \in 0..MaxTemporal /\ 0 \in 0..MaxSpatial /\ MaxSpatial \in 0..MaxSpatial
      /\ 0..MaxSpatial \subseteq -1..MaxSpatial /\ -1 \in -1..MaxSpatial
  BY LayersAssumption
<1>6. \E s \in 0..MaxSpatial, k \in 0..MaxTemporal : target = <<s, k>>
  BY <1>2, <1>3, <1>4, <1>5 DEF target
<1>7. target \in Layers /\ target \in Layer /\ Valid(target) /\ target[1] \in -1..MaxSpatial
  <2>1. target \in Layers
    BY <1>6 DEF Layers
  <2> QED
    BY <1>5, <2>1, LayerIs DEF Layer
<1>8. request \in -1..MaxSpatial
  BY <1>2, <1>4, <1>5, <1>7 DEF request
<1>9. reason \in Reasons /\ {"muted", "pubMuted"} \subseteq Reasons
  BY DEF Reasons, reason
<1>10. OptimalNeeded(x, r, target) \in Nat
  BY OptimalIs
<1>11. CASE x.muted \/ x.pubMuted
  <2>1. PICK d \in BOOLEAN, why \in Reasons : ~d /\ y = Updated(x, NoLayer, -1, d, 0, why)
    BY <1>1, <1>9, <1>11
  <2>2. NoLayer \in Layer /\ 0 \in Nat
    BY DEF Layer
  <2>3. y \in Forwarders /\ ~y.deficient /\ AnyMuted(y) = AnyMuted(x)
    BY <1>5, <2>1, <2>2, UpdatedIs
  <2>4. OptimalNeeded(y, r, y.max) = 0
    BY <1>11, <2>3 DEF OptimalNeeded, AnyMuted
  <2> QED
    BY <2>3, <2>4 DEF Settled
<1>12. CASE ~(x.muted \/ x.pubMuted)
  <2>1. PICK d \in BOOLEAN :
          ~d /\ y = Updated(x, target, request, d, OptimalNeeded(x, r, target), reason)
    BY <1>1, <1>12
  <2>2. y \in Forwarders /\ ~y.deficient /\ y.target = target
    BY <1>7, <1>8, <1>9, <1>10, <2>1, UpdatedIs
  <2> QED
    BY <1>7, <2>2 DEF Settled
<1> QED
  BY <1>11, <1>12

\* AllocateCommit serves a track, or makes it deficient.
LEMMA CommitSettles ==
  ASSUME NEW x \in Forwarders, NEW r \in Bitrates, NEW p \in Layer
  PROVE  LET y == AllocateCommit(x, r, p) IN
         y \in Forwarders /\ (Settled(y, r) \/ y.deficient)
<1> DEFINE optimal == OptimalNeeded(x, r, x.max)
           deficient == ~Above(p, x.max) /\ RateOf(p, r) < optimal
           resumes == IF Valid(x.current) /\ x.current[1] <= x.max[1] THEN x.current ELSE p
           why == IF deficient /\ ~Valid(p) THEN "bandwidth" ELSE "none"
           y == AllocateCommit(x, r, p)
<1>1. y = IF x.muted THEN Updated(x, p, p[1], FALSE, 0, "muted")
          ELSE IF x.pubMuted THEN Updated(x, p, p[1], FALSE, 0, "pubMuted")
          ELSE IF optimal = 0
          THEN IF Valid(p) THEN Updated(x, p, p[1], FALSE, r[p], "none")
               ELSE Updated(x, resumes, resumes[1], FALSE, 0, "dry")
          ELSE Updated(x, p, p[1], deficient, RateOf(p, r), why)
  BY DEF AllocateCommit
<1> SUFFICES y \in Forwarders /\ (Settled(y, r) \/ y.deficient)
  OBVIOUS
<1> HIDE DEF y
<1>2. /\ x.current \in Layer /\ x.max \in Layers /\ x.muted \in BOOLEAN /\ x.pubMuted \in BOOLEAN
      /\ p[1] \in -1..MaxSpatial /\ optimal \in Nat /\ RateOf(p, r) \in Nat
      /\ (Valid(p) => r[p] \in Nat)
  BY LayerIs, OptimalIs, RateIs DEF Forwarders, Layer, Bitrates
<1>3. resumes \in Layer /\ resumes[1] \in -1..MaxSpatial
  BY <1>2, LayerIs
<1>4. /\ why \in Reasons /\ {"muted", "pubMuted", "none", "dry"} \subseteq Reasons
      /\ FALSE \in BOOLEAN /\ deficient \in BOOLEAN /\ 0 \in Nat
  BY DEF Reasons
<1>5. ~Valid(p) /\ optimal # 0 => deficient
  <2>1. SUFFICES ASSUME ~Valid(p), optimal # 0 PROVE deficient
    OBVIOUS
  <2>2. p = NoLayer
    BY <2>1, LayerIs DEF Layer
  <2>3. p[1] = -1 /\ RateOf(p, r) = 0
    BY <2>1, <2>2, LayerIs DEF RateOf
  <2>4. x.max[1] \in Nat
    BY <1>2, LayerIs
  <2>5. ~Above(p, x.max)
    BY <2>3, <2>4 DEF Above
  <2> QED
    BY <1>2, <2>1, <2>3, <2>5
<1> HIDE DEF resumes, why, deficient
<1>6. CASE AnyMuted(x) \/ optimal = 0
  <2>1. PICK d \in BOOLEAN, l \in Layer, n \in Nat, w \in Reasons :
          y = Updated(x, l, l[1], d, n, w) /\ l[1] \in -1..MaxSpatial
    BY <1>1, <1>2, <1>3, <1>4, <1>6 DEF AnyMuted
  <2>2. y \in Forwarders /\ AnyMuted(y) = AnyMuted(x) /\ y.max = x.max
    BY <1>4, <2>1, UpdatedIs
  <2>3. OptimalNeeded(y, r, y.max) = 0
    BY <1>6, <2>2 DEF OptimalNeeded
  <2> QED
    BY <2>2, <2>3 DEF Settled
<1>7. CASE ~AnyMuted(x) /\ optimal # 0
  <2>1. y = Updated(x, p, p[1], deficient, RateOf(p, r), why)
    BY <1>1, <1>7 DEF AnyMuted
  <2>2. y \in Forwarders /\ y.target = p /\ y.deficient = deficient
    BY <1>2, <1>4, <2>1, UpdatedIs
  <2> QED
    BY <1>5, <1>7, <2>2 DEF Settled
<1> QED
  BY <1>6, <1>7

\* A pause is for a track that needs nothing, or makes it deficient.
LEMMA PausedSettles ==
  ASSUME NEW x \in Forwarders, NEW r \in Bitrates
  PROVE  LET y == Paused(x, r) IN y \in Forwarders /\ (Settled(y, r) \/ y.deficient)
<1> DEFINE dry == OptimalNeeded(x, r, x.max) = 0
           reason == IF x.muted THEN "muted" ELSE IF x.pubMuted THEN "pubMuted"
                     ELSE IF dry THEN "dry" ELSE "bandwidth"
           y == Paused(x, r)
<1> SUFFICES y \in Forwarders /\ (Settled(y, r) \/ y.deficient)
  OBVIOUS
<1>1. PICK d \in BOOLEAN : d = (reason = "bandwidth") /\ y = Updated(x, NoLayer, -1, d, 0, reason)
  BY DEF Paused
<1>2. reason \in Reasons /\ NoLayer \in Layer /\ 0 \in Nat /\ -1 \in -1..MaxSpatial
  BY LayersAssumption DEF Reasons, Layer
<1> HIDE DEF y
<1>3. /\ y \in Forwarders /\ y.deficient = d /\ AnyMuted(y) = AnyMuted(x) /\ y.max = x.max
  <2> HIDE DEF reason, dry
  <2>1. y = Updated(x, NoLayer, -1, d, 0, reason)
    BY <1>1
  <2> QED
    BY <1>2, <2>1, UpdatedIs
<1>4. ~d => AnyMuted(x) \/ dry
  BY <1>1, <1>2 DEF AnyMuted
<1>5. AnyMuted(x) \/ dry => OptimalNeeded(y, r, y.max) = 0
  BY <1>3 DEF OptimalNeeded
<1> QED
  BY <1>3, <1>4, <1>5 DEF Settled

\* The next higher layer is a layer, or none.
LEMMA NextHigherIn == ASSUME NEW x, NEW r \in Bitrates PROVE NextHigher(x, r) \in Layer
<1> DEFINE S == {l \in Layers : \/ l[1] = x.target[1] /\ l[2] \in (x.target[2] + 1)..x.max[2]
                                \/ l[1] \in (x.target[1] + 1)..x.max[1] /\ l[2] <= x.max[2]}
<1>1. S \in SUBSET Layers /\ NextHigher(x, r) = LowestIn(S, r)
  BY DEF NextHigher
<1> HIDE DEF S
<1> QED
  BY <1>1, LowestIs

\* A track that is boosted is served.
LEMMA BoostedSettles ==
  ASSUME NEW x \in Forwarders, NEW r \in Bitrates, Valid(NextHigher(x, r))
  PROVE  LET y == Boosted(x, r) IN y \in Forwarders /\ Settled(y, r)
<1> DEFINE l == NextHigher(x, r)
           y == Boosted(x, r)
<1> SUFFICES y \in Forwarders /\ Settled(y, r)
  OBVIOUS
<1>1. PICK d \in BOOLEAN : y = Updated(x, l, l[1], d, r[l], "none")
  BY DEF Boosted
<1>2. l \in Layer /\ l \in Layers /\ l[1] \in -1..MaxSpatial /\ Valid(l)
  BY NextHigherIn, LayerIs
<1>3. r[l] \in Nat /\ "none" \in Reasons
  BY <1>2 DEF Bitrates, Reasons
<1> HIDE DEF l, y
<1>4. y \in Forwarders /\ y.target = l
  BY <1>1, <1>2, <1>3, UpdatedIs
<1> QED
  BY <1>2, <1>4 DEF Settled

\* What a track takes of an offer is a layer, or none.
LEMMA OfferedIn ==
  ASSUME NEW x, NEW r, NEW p \in Layer, NEW layer \in Layer, NEW c, NEW pause
  PROVE  Offered(x, r, p, layer, c, pause) \in Layer
BY DEF Offered

\* The layer of a cooperative transition; a track that is to stay is served.
LEMMA CooperativeIn ==
  ASSUME NEW x \in Forwarders, NEW r \in Bitrates
  PROVE  /\ CooperativeLayer(x, r) \in Layer
         /\ CooperativeLayer(x, r) = x.target => Settled(x, r)
<1> DEFINE maximal == HighestIn(Within(x.max), r)
           minimal == LowestIn(Within(x.max), r)
           c == CooperativeLayer(x, r)
<1>1. /\ maximal \in Layer /\ minimal \in Layer
      /\ IF Measured(Within(x.max), r) = {} THEN minimal = NoLayer
         ELSE minimal \in Measured(Within(x.max), r)
  BY WithinLayers, HighestIs, LowestIs
<1>2. x.target \in Layer /\ x.current \in Layer /\ NoLayer \in Layer
  BY DEF Forwarders, Layer
<1>3. c = IF AnyMuted(x) THEN NoLayer
          ELSE IF Valid(x.target)
          THEN IF Valid(maximal) /\ Above(x.target, maximal) THEN maximal
               ELSE IF Valid(maximal) /\ r[x.target] # 0 THEN x.target
               ELSE x.current
          ELSE IF Valid(minimal) THEN minimal ELSE x.current
  BY DEF CooperativeLayer
<1> HIDE DEF maximal, minimal, c
<1>4. c \in Layer
  BY <1>1, <1>2, <1>3
<1>5. ASSUME c = x.target PROVE Settled(x, r)
  <2>1. CASE AnyMuted(x) \/ Valid(x.target)
    BY <2>1 DEF Settled, OptimalNeeded
  <2>2. CASE ~AnyMuted(x) /\ ~Valid(x.target)
    <3>1. ~Valid(minimal)
      BY <1>3, <1>5, <2>2
    <3>2. Measured(Within(x.max), r) = {}
      <4>1. Measured(Within(x.max), r) \subseteq Layers
        BY DEF Measured, Within
      <4> QED
        BY <1>1, <3>1, <4>1, LayerIs
    <3> QED
      BY <3>2, OptimalIs DEF Settled
  <2> QED
    BY <2>1, <2>2
<1> QED
  BY <1>4, <1>5 DEF c

\* A new maximum leaves a track deficient or not, as it was.
LEMMA WithMaxKeeps ==
  ASSUME NEW x \in Forwarders, NEW l \in Layers
  PROVE  LET y == WithMax(x, l) IN y \in Forwarders /\ (y.deficient <=> x.deficient)
<1> DEFINE z == [x EXCEPT !.max = l]
           y == WithMax(x, l)
<1> SUFFICES y \in Forwarders /\ (y.deficient <=> x.deficient)
  OBVIOUS
<1>1. z \in Forwarders /\ z.deficient = x.deficient
  BY DEF Forwarders
<1>2. \/ y = z
      \/ ~x.deficient /\ y = Updated(z, l, l[1], FALSE, 0, x.reason)
  BY DEF WithMax
<1>3. x.reason \in Reasons /\ l \in Layer /\ l[1] \in -1..MaxSpatial /\ 0 \in Nat
  BY LayerIs DEF Forwarders, Layer
<1> HIDE DEF y, z
<1>4. CASE ~x.deficient /\ y = Updated(z, l, l[1], FALSE, 0, x.reason)
  <2>1. PICK d \in BOOLEAN : ~d /\ y = Updated(z, l, l[1], d, 0, x.reason)
    BY <1>4
  <2>2. y \in Forwarders /\ y.deficient = d
    BY <1>1, <1>3, <2>1, UpdatedIs
  <2> QED
    BY <1>4, <2>1, <2>2
<1> QED
  BY <1>1, <1>2, <1>4

\* So does a mute,
LEMMA MutedKeeps ==
  ASSUME NEW x \in Forwarders, NEW muted \in BOOLEAN, NEW pubMuted \in BOOLEAN
  PROVE  LET y == Muted(x, muted, pubMuted) IN y \in Forwarders /\ y.deficient = x.deficient
BY DEF Muted, Forwarders

\* and a switch to a layer, which leaves a target.
LEMMA SelectedKeeps ==
  ASSUME NEW x \in Forwarders, NEW s \in 0..MaxSpatial, Valid(x.target)
  PROVE  LET y == Selected(x, s) IN
         y \in Forwarders /\ y.deficient = x.deficient /\ Valid(y.target)
<1> DEFINE a == <<s, x.target[2]>>
           b == [x.target EXCEPT ![1] = IF s >= x.max[1] \/ s = MaxSpatial THEN s ELSE @]
           y == Selected(x, s)
<1>1. y = [x EXCEPT !.current = a, !.target = b]
  BY DEF Selected
<1>2. x.target \in Layers
  BY LayerIs DEF Forwarders, Layer
<1>3. x.target = <<x.target[1], x.target[2]>> /\ x.target[1] \in 0..MaxSpatial /\ x.target[2] \in 0..MaxTemporal
  BY <1>2, LayerIs
<1>4. a \in Layers
  BY <1>3 DEF Layers
<1>5. b = a \/ b = x.target
  BY <1>3
<1>6. b \in Layers /\ Valid(b)
  BY <1>2, <1>4, <1>5, LayerIs
<1> HIDE DEF a, b
<1>7. y \in Forwarders /\ y.deficient = x.deficient /\ y.target = b
  BY <1>1, <1>4, <1>6 DEF Forwarders
<1> QED
  BY <1>6, <1>7

\* A finite set has a greatest element of an order of its elements.
LEMMA GreatestOf ==
  ASSUME NEW S, IsFiniteSet(S), S # {}, NEW R,
         \A a, b, c \in S : <<a, b>> \in R /\ <<b, c>> \in R => <<a, c>> \in R,
         \A a, b \in S : a = b \/ <<a, b>> \in R \/ <<b, a>> \in R
  PROVE  \E m \in S : \A k \in S \ {m} : <<m, k>> \in R
<1> DEFINE Has(T) == \E m \in T : \A k \in T \ {m} : <<m, k>> \in R
           Bad == {n \in Nat : \E T \in SUBSET S : T # {} /\ Cardinality(T) = n /\ ~Has(T)}
           L == OpToRel(<, Nat)
<1> SUFFICES Has(S)
  OBVIOUS
<1>1. SUFFICES ASSUME ~Has(S) PROVE FALSE
  OBVIOUS
<1>2. Cardinality(S) \in Bad
  BY <1>1, FS_CardinalityType
<1>3. PICK n \in Bad : \A y \in Bad : ~ (<<y, n>> \in L)
  <2>1. Bad \subseteq Nat /\ Bad # {}
    BY <1>2
  <2> HIDE DEF Bad
  <2> QED
    BY <2>1, NatLessThanWellFounded, WFMin
<1>4. \A y \in Bad : ~ (y < n)
  <2>1. n \in Nat /\ \A y \in Bad : y \in Nat
    OBVIOUS
  <2> HIDE DEF Bad
  <2> QED
    BY <1>3, <2>1 DEF OpToRel
<1>5. PICK T \in SUBSET S : T # {} /\ Cardinality(T) = n /\ ~Has(T)
  OBVIOUS
<1>6. PICK e \in T : TRUE
  BY <1>5
<1>7. IsFiniteSet(T) /\ IsFiniteSet(T \ {e}) /\ Cardinality(T \ {e}) = n - 1
  BY <1>5, FS_Subset, FS_RemoveElement
<1>8. Cardinality(T \ {e}) \in Nat
  BY <1>7, FS_CardinalityType
<1>9. T \ {e} = {} \/ Has(T \ {e})
  <2>1. n - 1 \notin Bad
    BY <1>4, <1>7, <1>8
  <2>2. n - 1 \in Nat /\ T \ {e} \in SUBSET S
    BY <1>7, <1>8
  <2> HIDE DEF Has
  <2> QED
    BY <1>7, <2>1, <2>2
<1>10. CASE T \ {e} = {}
  BY <1>5, <1>6, <1>10
<1>11. CASE Has(T \ {e})
  <2>1. PICK m \in T \ {e} : \A k \in (T \ {e}) \ {m} : <<m, k>> \in R
    BY <1>11
  <2>2. CASE <<m, e>> \in R
    <3>1. \A k \in T \ {m} : <<m, k>> \in R
      BY <2>1, <2>2
    <3> QED
      BY <1>5, <2>1, <3>1
  <2>3. CASE <<e, m>> \in R
    <3>1. \A k \in T \ {e} : <<e, k>> \in R
      BY <2>1, <2>3
    <3> QED
      BY <1>5, <1>6, <3>1
  <2> QED
    BY <2>1, <2>2, <2>3
<1> QED
  BY <1>9, <1>10, <1>11

\* Ratios of numbers, without division.
LEMMA ProductOrder ==
  ASSUME NEW a \in Int, NEW b \in Int, NEW c \in Nat \ {0}
  PROVE  a <= b <=> c * a <= c * b
<1>1. a <= b => c * a <= c * b
  <2>1. SUFFICES ASSUME a <= b PROVE c * a <= c * b
    OBVIOUS
  <2>2. b - a \in Nat /\ c * (b - a) \in Nat
    BY <2>1
  <2>3. c * b = c * a + c * (b - a)
    OBVIOUS
  <2> QED
    BY <2>2, <2>3
<1>2. b + 1 <= a => c * b + c <= c * a
  <2>1. SUFFICES ASSUME b + 1 <= a PROVE c * b + c <= c * a
    OBVIOUS
  <2>2. a - (b + 1) \in Nat /\ c * (a - (b + 1)) \in Nat
    BY <2>1
  <2>3. c * a = c * b + c + c * (a - (b + 1))
    OBVIOUS
  <2> QED
    BY <2>2, <2>3
<1>3. c * a \in Int /\ c * b \in Int
  OBVIOUS
<1> QED
  BY <1>1, <1>2, <1>3

\* The order of two ratios carries over to a third.
LEMMA RatioOrder ==
  ASSUME NEW s1 \in Nat, NEW s2 \in Nat, NEW s3 \in Nat,
         NEW c1 \in Nat \ {0}, NEW c2 \in Nat \ {0}, NEW c3 \in Nat \ {0},
         s1 * c2 >= s2 * c1, s2 * c3 >= s3 * c2
  PROVE  /\ s1 * c3 >= s3 * c1
         /\ s1 * c3 = s3 * c1 => s1 * c2 = s2 * c1 /\ s2 * c3 = s3 * c2
<1> DEFINE p == s1 * c2  q == s2 * c1  v == s2 * c3  w == s3 * c2  f == s1 * c3  g == s3 * c1
<1>1. p \in Nat /\ q \in Nat /\ v \in Nat /\ w \in Nat /\ f \in Nat /\ g \in Nat
  OBVIOUS
<1>2. c3 * p = c2 * f /\ c1 * w = c2 * g /\ c3 * q = c1 * v
  OBVIOUS
<1>3. q <= p /\ w <= v
  OBVIOUS
<1> HIDE DEF p, q, v, w, f, g
<1>4. c3 * q <= c3 * p /\ c1 * w <= c1 * v
  BY <1>1, <1>3, ProductOrder
<1>5. /\ c3 * q \in Int /\ c3 * p \in Int /\ c1 * w \in Int /\ c1 * v \in Int
      /\ c2 * f \in Int /\ c2 * g \in Int
  BY <1>1
<1>6. c2 * g <= c2 * f
  BY <1>2, <1>4, <1>5
<1>7. g <= f
  BY <1>1, <1>6, ProductOrder
<1>8. ASSUME f = g PROVE p = q /\ v = w
  <2>1. c2 * g = c2 * f
    BY <1>8
  <2>2. c3 * p <= c3 * q /\ c1 * v <= c1 * w
    BY <1>2, <1>4, <1>5, <2>1
  <2>3. p <= q /\ v <= w
    BY <1>1, <2>2, ProductOrder
  <2> QED
    BY <1>1, <1>3, <2>3
<1> QED
  BY <1>1, <1>7, <1>8 DEF p, q, v, w, f, g

\* The ratio of s1 to c1 is at least that of s2 to c2.
AtLeast(s1, c1, s2, c2) == s1 * c2 >= s2 * c1
LEMMA AtLeastOrder ==
  ASSUME NEW s1 \in Nat, NEW s2 \in Nat, NEW s3 \in Nat,
         NEW c1 \in Nat \ {0}, NEW c2 \in Nat \ {0}, NEW c3 \in Nat \ {0},
         AtLeast(s1, c1, s2, c2), AtLeast(s2, c2, s3, c3)
  PROVE  /\ AtLeast(s1, c1, s3, c3)
         /\ AtLeast(s3, c3, s1, c1) => AtLeast(s2, c2, s1, c1) /\ AtLeast(s3, c3, s2, c2)
<1>1. s1 * c2 >= s2 * c1 /\ s2 * c3 >= s3 * c2
  BY DEF AtLeast
<1>2. s1 * c3 >= s3 * c1 /\ (s1 * c3 = s3 * c1 => s1 * c2 = s2 * c1 /\ s2 * c3 = s3 * c2)
  BY <1>1, RatioOrder
<1>3. /\ s1 * c2 \in Nat /\ s2 * c1 \in Nat /\ s2 * c3 \in Nat /\ s3 * c2 \in Nat
      /\ s1 * c3 \in Nat /\ s3 * c1 \in Nat
  OBVIOUS
<1> QED
  BY ONLY <1>1, <1>2, <1>3 DEF AtLeast

\* There are finitely many layers.
LEMMA LayersFinite == IsFiniteSet(Layers)
<1>1. IsFiniteSet(0..MaxSpatial) /\ IsFiniteSet(0..MaxTemporal)
  BY FS_Interval, LayersAssumption
<1> QED
  BY <1>1, FS_Product DEF Layers

\* What a track needs is a number.
LEMMA NeededIs == ASSUME NEW x \in Forwarders, NEW r \in Bitrates PROVE Needed(x, r) \in Nat
<1>1. x.target \in Layer /\ x.requested \in Nat
  BY DEF Forwarders, Layer
<1>2. RateOf(x.target, r) \in Nat /\ (RateOf(x.target, r) > 0 => x.target \in Layers)
  BY <1>1, RateIs, LayerIs DEF RateOf
<1> QED
  BY <1>1, <1>2 DEF Needed, Bitrates

\* An offer costs something: it is lower than the target.
LEMMA CostIs ==
  ASSUME NEW x \in Forwarders, NEW r \in Bitrates, Measured(Within(x.max), r) # {},
         NEW l \in Within(x.target) \ {x.target}
  PROVE  TransitionCost(x, r, l) \in Nat \ {0}
<1> DEFINE S == {k[2] : k \in {j \in Within(x.max) : r[j] # 0}}
           reachable == Max(S)
           a == x.target[1] - l[1]
           b == x.target[2] - l[2]
<1>1. reachable \in Nat
  <2>1. {j \in Within(x.max) : r[j] # 0} = Measured(Within(x.max), r)
    BY DEF Measured
  <2>2. \A j \in Measured(Within(x.max), r) : j[2] \in Nat /\ j[2] <= MaxTemporal
    BY LayerIs DEF Measured, Within
  <2>3. S # {} /\ S \in SUBSET Nat /\ \A n \in S : n <= MaxTemporal
    BY <2>1, <2>2
  <2> HIDE DEF S
  <2> QED
    BY <2>3, GreatestNumber, LayersAssumption
<1>2. x.target \in Layers /\ l \in Layers /\ l[1] <= x.target[1] /\ l[2] <= x.target[2]
  <2>1. l \in Layers /\ l[1] <= x.target[1] /\ l[2] <= x.target[2]
    BY DEF Within
  <2>2. x.target \in Layer
    BY DEF Forwarders, Layer
  <2>3. x.target # NoLayer
    BY <2>1, LayerIs
  <2> QED
    BY <2>1, <2>2, <2>3 DEF Layer
<1>3. a \in Nat /\ b \in Nat /\ (a # 0 \/ b # 0)
  BY <1>2, LayerIs
<1>4. TransitionCost(x, r, l) =
        (IF x.target[1] # l[1] THEN SpatialCost ELSE 0) + (reachable + 1) * a + b
  BY DEF TransitionCost
<1> HIDE DEF reachable, a, b
<1>5. (reachable + 1) * a \in Nat /\ (a # 0 => (reachable + 1) * a >= 1)
  <2>1. reachable * a \in Nat
    BY <1>1, <1>3
  <2>2. (reachable + 1) * a = reachable * a + a
    BY <1>1, <1>3
  <2> QED
    BY <1>3, <2>1, <2>2
<1> QED
  BY <1>3, <1>4, <1>5, LayersAssumption

\* Of two offers one is better, and the better of the better one is better.
LEMMA BetterOrder ==
  ASSUME NEW x \in Forwarders, NEW r \in Bitrates, Measured(Within(x.max), r) # {},
         NEW S, S = {l \in Within(x.target) \ {x.target} : Saving(x, r, l) > 0}
  PROVE  /\ \A l, k \in S : l = k \/ Better(x, r, l, k) \/ Better(x, r, k, l)
         /\ \A l, k, j \in S : Better(x, r, l, k) /\ Better(x, r, k, j) => Better(x, r, l, j)
<1> DEFINE s(l) == Saving(x, r, l)
           c(l) == TransitionCost(x, r, l)
<1>1. \A l \in S : s(l) \in Nat /\ c(l) \in Nat \ {0} /\ l \in Layers
  <2> SUFFICES ASSUME NEW l \in S PROVE s(l) \in Nat /\ c(l) \in Nat \ {0} /\ l \in Layers
    OBVIOUS
  <2>1. l \in Layers /\ l \in Within(x.target) \ {x.target}
    BY DEF Within
  <2>2. r[l] \in Nat
    BY <2>1 DEF Bitrates
  <2>3. Needed(x, r) - r[l] \in Int
    BY <2>2, NeededIs
  <2>4. s(l) \in Nat
    BY <2>3, NotNegative DEF Saving
  <2> QED
    BY <2>1, <2>4, CostIs
<1>2. \A l, k \in S : Better(x, r, l, k) <=>
        ( \/ s(l) * c(k) > s(k) * c(l)
          \/ s(l) * c(k) = s(k) * c(l) /\ s(l) > s(k)
          \/ s(l) * c(k) = s(k) * c(l) /\ s(l) = s(k) /\ Above(k, l) )
  BY DEF Better
<1> HIDE DEF s, c
<1>3. \A l, k \in S : l = k \/ Above(k, l) \/ Above(l, k)
  <2> SUFFICES ASSUME NEW l \in S, NEW k \in S PROVE l = k \/ Above(k, l) \/ Above(l, k)
    OBVIOUS
  <2>1. /\ l = <<l[1], l[2]>> /\ l[1] \in Nat /\ l[2] \in Nat
        /\ k = <<k[1], k[2]>> /\ k[1] \in Nat /\ k[2] \in Nat
    BY <1>1, LayerIs
  <2> QED
    BY ONLY <2>1 DEF Above
<1>4. \A l, k, j \in S : Above(k, l) /\ Above(j, k) => Above(j, l)
  <2> SUFFICES ASSUME NEW l \in S, NEW k \in S, NEW j \in S, Above(k, l), Above(j, k)
               PROVE  Above(j, l)
    OBVIOUS
  <2>1. /\ l[1] \in Nat /\ l[2] \in Nat /\ k[1] \in Nat /\ k[2] \in Nat
        /\ j[1] \in Nat /\ j[2] \in Nat
    BY <1>1, LayerIs
  <2> QED
    BY <2>1 DEF Above
<1>5. \A l, k \in S : s(l) * c(k) \in Nat /\ s(k) * c(l) \in Nat
  BY <1>1
<1>6. ASSUME NEW l \in S, NEW k \in S PROVE l = k \/ Better(x, r, l, k) \/ Better(x, r, k, l)
  <2>1. s(l) * c(k) \in Nat /\ s(k) * c(l) \in Nat /\ s(l) \in Nat /\ s(k) \in Nat
    BY <1>1, <1>5
  <2> QED
    BY <1>2, <1>3, <2>1
<1>7. ASSUME NEW l \in S, NEW k \in S, NEW j \in S, Better(x, r, l, k), Better(x, r, k, j)
      PROVE  Better(x, r, l, j)
  <2>1. /\ s(l) \in Nat /\ s(k) \in Nat /\ s(j) \in Nat
        /\ c(l) \in Nat \ {0} /\ c(k) \in Nat \ {0} /\ c(j) \in Nat \ {0}
    BY <1>1
  <2>2. /\ s(l) * c(k) \in Nat /\ s(k) * c(l) \in Nat /\ s(k) * c(j) \in Nat
        /\ s(j) * c(k) \in Nat /\ s(l) * c(j) \in Nat /\ s(j) * c(l) \in Nat
    BY <1>5
  <2>3. /\ s(l) * c(k) >= s(k) * c(l)
        /\ s(l) * c(k) = s(k) * c(l) => s(l) > s(k) \/ (s(l) = s(k) /\ Above(k, l))
    BY <1>2, <1>7, <2>2
  <2>4. /\ s(k) * c(j) >= s(j) * c(k)
        /\ s(k) * c(j) = s(j) * c(k) => s(k) > s(j) \/ (s(k) = s(j) /\ Above(j, k))
    BY <1>2, <1>7, <2>2
  <2>5. /\ s(l) * c(j) >= s(j) * c(l)
        /\ s(l) * c(j) = s(j) * c(l) => s(l) * c(k) = s(k) * c(l) /\ s(k) * c(j) = s(j) * c(k)
    <3>1. AtLeast(s(l), c(l), s(k), c(k)) /\ AtLeast(s(k), c(k), s(j), c(j))
      BY ONLY <2>3, <2>4 DEF AtLeast
    <3>2. /\ AtLeast(s(l), c(l), s(j), c(j))
          /\ AtLeast(s(j), c(j), s(l), c(l)) =>
               AtLeast(s(k), c(k), s(l), c(l)) /\ AtLeast(s(j), c(j), s(k), c(k))
      BY ONLY <2>1, <3>1, AtLeastOrder
    <3> QED
      BY ONLY <2>2, <2>3, <2>4, <3>2 DEF AtLeast
  <2>6. CASE s(l) * c(j) = s(j) * c(l)
    <3>1. s(l) > s(j) \/ (s(l) = s(j) /\ Above(j, l))
      BY <1>4, <2>1, <2>3, <2>4, <2>5, <2>6
    <3> QED
      BY <1>2, <2>6, <3>1
  <2>7. CASE s(l) * c(j) > s(j) * c(l)
    BY <1>2, <2>7
  <2> QED
    BY <2>2, <2>5, <2>6, <2>7
<1> QED
  BY <1>6, <1>7

\* A best one of the transitions that save something exists.
Offerable(x, r) == {l \in Within(x.target) \ {x.target} : Saving(x, r, l) > 0}
BestOf(x, r) == CHOOSE l \in Offerable(x, r) : \A k \in Offerable(x, r) \ {l} : Better(x, r, l, k)
LEMMA BestIsOffered ==
  ASSUME NEW x \in Forwarders, NEW r \in Bitrates, HighestIn(Within(x.max), r) # NoLayer,
         Offerable(x, r) # {}
  PROVE  BestOf(x, r) \in Layers /\ Saving(x, r, BestOf(x, r)) > 0
<1> DEFINE offers == Offerable(x, r)
<1>1. Measured(Within(x.max), r) # {}
  BY WithinLayers, HighestIs
<1>2. offers \in SUBSET Layers /\ IsFiniteSet(offers)
  <2>1. offers \in SUBSET Layers
    BY DEF Offerable, Within
  <2> HIDE DEF offers
  <2> QED
    BY <2>1, LayersFinite, FS_Subset
<1>3. /\ \A l, k \in offers : l = k \/ Better(x, r, l, k) \/ Better(x, r, k, l)
      /\ \A l, k, j \in offers : Better(x, r, l, k) /\ Better(x, r, k, j) => Better(x, r, l, j)
  BY <1>1, BetterOrder DEF Offerable
<1> DEFINE R == {p \in offers \X offers : Better(x, r, p[1], p[2])}
<1> HIDE DEF offers
<1>4. \A l, k \in offers : <<l, k>> \in R <=> Better(x, r, l, k)
  OBVIOUS
<1> HIDE DEF R
<1>5. \E m \in offers : \A k \in offers \ {m} : <<m, k>> \in R
  <2>1. \A a, b, c \in offers : <<a, b>> \in R /\ <<b, c>> \in R => <<a, c>> \in R
    BY <1>3, <1>4
  <2>2. \A a, b \in offers : a = b \/ <<a, b>> \in R \/ <<b, a>> \in R
    BY <1>3, <1>4
  <2>3. offers # {} /\ IsFiniteSet(offers)
    BY <1>2 DEF offers
  <2> QED
    BY ONLY <2>1, <2>2, <2>3, GreatestOf
<1>6. \E m \in offers : \A k \in offers \ {m} : Better(x, r, m, k)
  BY <1>4, <1>5
<1>7. BestOf(x, r) \in offers
  BY <1>6 DEF BestOf, offers
<1> QED
  BY <1>2, <1>7 DEF offers, Offerable

\* The best transition is to a layer, or none, and saves a number.
LEMMA BestWeightedIn ==
  ASSUME NEW x \in Forwarders, NEW r \in Bitrates
  PROVE  BestWeighted(x, r).layer \in Layer /\ BestWeighted(x, r).saves \in Nat
<1>1. BestWeighted(x, r) =
        IF AnyMuted(x) THEN [layer |-> NoLayer, saves |-> Needed(x, r)]
        ELSE IF HighestIn(Within(x.max), r) = NoLayer
        THEN [layer |-> x.current, saves |-> Needed(x, r)]
        ELSE IF Offerable(x, r) = {} THEN [layer |-> NoLayer, saves |-> 0]
        ELSE [layer |-> BestOf(x, r), saves |-> Saving(x, r, BestOf(x, r))]
  BY DEF BestWeighted, Offerable, BestOf
<1>2. x.current \in Layer /\ NoLayer \in Layer
  BY DEF Forwarders, Layer
<1>3. Needed(x, r) \in Nat
  BY NeededIs
<1>4. \A l \in Layers : Saving(x, r, l) \in Nat
  BY <1>3, NotNegative DEF Saving, Bitrates
<1> QED
  BY <1>1, <1>2, <1>3, <1>4, BestIsOffered DEF Layer

\* What a track needs after an update.
LEMMA UpdatedNeeds ==
  ASSUME NEW x \in Forwarders, NEW r \in Bitrates, NEW target \in Layer, NEW request,
         NEW deficient, NEW requested \in Nat, NEW reason,
         NEW y, y = Updated(x, target, request, deficient, requested, reason)
  PROVE  Needed(y, r) = IF RateOf(target, r) > 0 THEN RateOf(target, r) ELSE requested
<1>1. y.target = target /\ y.requested = requested
  BY DEF Updated, Forwarders
<1>2. RateOf(target, r) > 0 => RateOf(target, r) = r[target]
  BY RateIs DEF RateOf
<1> HIDE DEF RateOf
<1> QED
  BY <1>1, <1>2 DEF Needed

\* A track needs its target at least,
LEMMA TargetNeeds ==
  ASSUME NEW x \in Forwarders, NEW r \in Bitrates
  PROVE  Needed(x, r) >= RateOf(x.target, r) /\ RateOf(x.target, r) \in Nat
<1>1. x.target \in Layer /\ x.requested \in Nat
  BY DEF Forwarders, Layer
<1>2. RateOf(x.target, r) \in Nat
  BY <1>1, RateIs
<1>3. RateOf(x.target, r) > 0 => RateOf(x.target, r) = r[x.target]
  BY <1>2 DEF RateOf
<1> QED
  BY <1>1, <1>2, <1>3 DEF Needed

\* nothing when it is paused,
LEMMA PausedNeeds ==
  ASSUME NEW x \in Forwarders, NEW r \in Bitrates
  PROVE  Needed(Paused(x, r), r) = 0
<1>1. PICK d, w : Paused(x, r) = Updated(x, NoLayer, -1, d, 0, w)
  BY DEF Paused
<1>2. NoLayer \in Layer /\ 0 \in Nat /\ RateOf(NoLayer, r) = 0
  BY DEF Layer, RateOf, Valid, NoLayer
<1>3. RateOf(NoLayer, r) \in Nat
  BY <1>2
<1> DEFINE z == 0
<1>4. Needed(Paused(x, r), r) = IF RateOf(NoLayer, r) > 0 THEN RateOf(NoLayer, r) ELSE 0
  BY <1>1, <1>2, UpdatedNeeds
<1> QED
  BY <1>2, <1>4

\* the next higher layer when it is boosted,
LEMMA BoostedNeeds ==
  ASSUME NEW x \in Forwarders, NEW r \in Bitrates, Valid(NextHigher(x, r))
  PROVE  Needed(Boosted(x, r), r) = r[NextHigher(x, r)] /\ r[NextHigher(x, r)] \in Nat
<1> DEFINE l == NextHigher(x, r)
<1>1. PICK d, w : Boosted(x, r) = Updated(x, l, l[1], d, r[l], w)
  BY DEF Boosted
<1>2. l \in Layer /\ l \in Layers
  BY NextHigherIn, LayerIs
<1>3. r[l] \in Nat /\ RateOf(l, r) = r[l]
  BY <1>2 DEF RateOf, Bitrates
<1> HIDE DEF l
<1>4. Needed(Boosted(x, r), r) = IF RateOf(l, r) > 0 THEN RateOf(l, r) ELSE r[l]
  BY <1>1, <1>2, <1>3, UpdatedNeeds
<1> QED
  BY <1>3, <1>4 DEF l

\* A track that forwards nothing while what it may have is not sent.
Frugal(x, r) == ~AnyMuted(x) /\ OptimalNeeded(x, r, x.max) = 0 => RateOf(x.current, r) = 0

\* Such a track needs the layer that it is committed to.
LEMMA CommitNeeds ==
  ASSUME NEW x \in Forwarders, NEW r \in Bitrates, NEW p \in Layer, Frugal(x, r)
  PROVE  Needed(AllocateCommit(x, r, p), r) = RateOf(p, r)
<1> DEFINE optimal == OptimalNeeded(x, r, x.max)
           deficient == ~Above(p, x.max) /\ RateOf(p, r) < optimal
           resumes == IF Valid(x.current) /\ x.current[1] <= x.max[1] THEN x.current ELSE p
           why == IF deficient /\ ~Valid(p) THEN "bandwidth" ELSE "none"
           y == AllocateCommit(x, r, p)
<1>1. y = IF x.muted THEN Updated(x, p, p[1], FALSE, 0, "muted")
          ELSE IF x.pubMuted THEN Updated(x, p, p[1], FALSE, 0, "pubMuted")
          ELSE IF optimal = 0
          THEN IF Valid(p) THEN Updated(x, p, p[1], FALSE, r[p], "none")
               ELSE Updated(x, resumes, resumes[1], FALSE, 0, "dry")
          ELSE Updated(x, p, p[1], deficient, RateOf(p, r), why)
  BY DEF AllocateCommit
<1> SUFFICES Needed(y, r) = RateOf(p, r)
  OBVIOUS
<1> HIDE DEF y
<1>2. /\ x.current \in Layer /\ RateOf(p, r) \in Nat /\ 0 \in Nat
      /\ RateOf(x.current, r) \in Nat
      /\ Valid(p) => r[p] = RateOf(p, r)
      /\ ~Valid(p) => RateOf(p, r) = 0
  <2>1. x.current \in Layer
    BY DEF Forwarders, Layer
  <2>2. RateOf(p, r) \in Nat /\ RateOf(x.current, r) \in Nat
    BY <2>1, RateIs
  <2> QED
    BY <2>1, <2>2 DEF RateOf
<1>3. resumes \in Layer
  BY <1>2
<1>4. ASSUME NEW l \in Layer, NEW i, NEW d, NEW n \in Nat, NEW w,
             y = Updated(x, l, i, d, n, w)
      PROVE  Needed(y, r) = IF RateOf(l, r) > 0 THEN RateOf(l, r) ELSE n
  BY <1>4, UpdatedNeeds
<1>5. CASE AnyMuted(x)
  <2>1. PICK d, w : y = Updated(x, p, p[1], d, 0, w)
    BY <1>1, <1>5 DEF AnyMuted
  <2>2. Needed(y, r) = IF RateOf(p, r) > 0 THEN RateOf(p, r) ELSE 0
    BY <1>2, <1>4, <2>1
  <2> QED
    BY ONLY <1>2, <2>2
<1>6. CASE ~AnyMuted(x) /\ optimal = 0
  <2>1. RateOf(x.current, r) = 0
    BY <1>6 DEF Frugal
  <2>2. CASE Valid(p)
    <3>1. PICK d, w : y = Updated(x, p, p[1], d, RateOf(p, r), w)
      BY <1>1, <1>2, <1>6, <2>2 DEF AnyMuted
    <3>2. Needed(y, r) = IF RateOf(p, r) > 0 THEN RateOf(p, r) ELSE RateOf(p, r)
      BY <1>2, <1>4, <3>1
    <3> QED
      BY <3>2
  <2>3. CASE ~Valid(p)
    <3>1. PICK d, w : y = Updated(x, resumes, resumes[1], d, 0, w)
      BY <1>1, <1>6, <2>3 DEF AnyMuted
    <3>2. RateOf(resumes, r) = 0
      BY <1>2, <2>1, <2>3
    <3> HIDE DEF resumes
    <3>3. Needed(y, r) = IF RateOf(resumes, r) > 0 THEN RateOf(resumes, r) ELSE 0
      BY <1>2, <1>3, <1>4, <3>1
    <3> QED
      BY <1>2, <2>3, <3>2, <3>3
  <2> QED
    BY <2>2, <2>3
<1>7. CASE ~AnyMuted(x) /\ optimal # 0
  <2> HIDE DEF deficient, why, optimal
  <2>1. y = Updated(x, p, p[1], deficient, RateOf(p, r), why)
    BY <1>1, <1>7 DEF AnyMuted
  <2>2. Needed(y, r) = IF RateOf(p, r) > 0 THEN RateOf(p, r) ELSE RateOf(p, r)
    BY <1>2, <1>4, <2>1
  <2> QED
    BY <2>2
<1> QED
  BY <1>5, <1>6, <1>7

\* The best transition saves what it says.
LEMMA BestSaves ==
  ASSUME NEW x \in Forwarders, NEW r \in Bitrates, Frugal(x, r)
  PROVE  LET b == BestWeighted(x, r) IN RateOf(b.layer, r) + b.saves <= Needed(x, r)
<1> DEFINE offers == Offerable(x, r)
           best == BestOf(x, r)
           b == BestWeighted(x, r)
<1> SUFFICES RateOf(b.layer, r) + b.saves <= Needed(x, r)
  OBVIOUS
<1>1. b = IF AnyMuted(x) THEN [layer |-> NoLayer, saves |-> Needed(x, r)]
          ELSE IF HighestIn(Within(x.max), r) = NoLayer
          THEN [layer |-> x.current, saves |-> Needed(x, r)]
          ELSE IF offers = {} THEN [layer |-> NoLayer, saves |-> 0]
          ELSE [layer |-> best, saves |-> Saving(x, r, best)]
  BY DEF BestWeighted, Offerable, BestOf
<1>2. b.layer \in Layer /\ b.saves \in Nat /\ Needed(x, r) \in Nat
  BY BestWeightedIn, NeededIs
<1>3. RateOf(NoLayer, r) = 0
  BY DEF RateOf, Valid, NoLayer
<1> HIDE DEF best, offers, b
<1>4. CASE AnyMuted(x)
  BY <1>1, <1>2, <1>3, <1>4
<1>5. CASE ~AnyMuted(x) /\ HighestIn(Within(x.max), r) = NoLayer
  <2>1. OptimalNeeded(x, r, x.max) = 0
    BY <1>3, <1>5 DEF OptimalNeeded
  <2>2. RateOf(x.current, r) = 0
    BY <1>5, <2>1 DEF Frugal
  <2> QED
    BY <1>1, <1>2, <1>5, <2>2
<1>6. CASE ~AnyMuted(x) /\ HighestIn(Within(x.max), r) # NoLayer /\ offers = {}
  BY <1>1, <1>2, <1>3, <1>6
<1>7. CASE ~AnyMuted(x) /\ HighestIn(Within(x.max), r) # NoLayer /\ offers # {}
  <2>1. b.layer = best /\ b.saves = Saving(x, r, best)
    BY <1>1, <1>7
  <2>2. CASE best \in Layers /\ Saving(x, r, best) > 0
    <3>1. RateOf(best, r) = r[best] /\ r[best] \in Nat
      BY <2>2, LayerIs DEF RateOf, Bitrates
    <3>2. Needed(x, r) - r[best] \in Int
      BY <1>2, <3>1
    <3>3. Saving(x, r, best) = Max({0, Needed(x, r) - r[best]})
      BY DEF Saving
    <3>4. Saving(x, r, best) = Needed(x, r) - r[best]
      BY <2>2, <3>2, <3>3, NotNegative
    <3> QED
      BY <1>2, <2>1, <3>1, <3>4
  <2>3. best \in Layers /\ Saving(x, r, best) > 0
    BY <1>7, BestIsOffered DEF best, offers
  <2> QED
    BY <2>2, <2>3
<1> QED
  BY <1>4, <1>5, <1>6, <1>7

\* What a track that is to move up takes more.
LEMMA DeltaIs ==
  ASSUME NEW x \in Forwarders, NEW r \in Bitrates,
         NEW p \in Layer, p = CooperativeLayer(x, r), Above(p, x.target)
  PROVE  Delta(x, r, p) = RateOf(p, r) - Needed(x, r)
<1>1. x.target \in Layer
  BY DEF Forwarders, Layer
<1>2. p # x.target
  BY <1>1, LayerIs DEF Above, Layer
<1>3. ~AnyMuted(x)
  <2>1. SUFFICES ASSUME AnyMuted(x) PROVE FALSE
    OBVIOUS
  <2>2. p = NoLayer
    BY <2>1 DEF CooperativeLayer
  <2>3. p[1] = -1 /\ p[2] = -1
    BY <2>2 DEF NoLayer
  <2>4. x.target[1] >= -1 /\ x.target[1] \in Int /\ x.target[2] >= -1 /\ x.target[2] \in Int
    BY <1>1, LayerIs DEF Layer
  <2> QED
    BY <2>3, <2>4 DEF Above
<1> QED
  BY <1>2, <1>3 DEF Delta

\* A fold of a finite set, choosing c[s] of what is left: it exists within a set of
\* results,
Chooses(c, D) == \A s \in SUBSET D : s # {} => c[s] \in s
FoldOf(g, D, base, F, c) ==
  \A s \in SUBSET D : g[s] = IF s = {} THEN base ELSE F[<<c[s], g[s \ {c[s]}]>>]
Carries(h, D, A, c) == \A s \in SUBSET D : s # {} /\ h[s \ {c[s]}] \in A => h[s] \in A
LEMMA FoldExists ==
  ASSUME NEW D, IsFiniteSet(D), NEW A, NEW base \in A, NEW F \in [D \X A -> A],
         NEW c, Chooses(c, D)
  PROVE  \E g \in [SUBSET D -> A] : FoldOf(g, D, base, F, c)
<1> USE DEF Chooses, FoldOf
<1> DEFINE Small(m) == {s \in SUBSET D : Cardinality(s) <= m}
           Eq(g, s) == g[s] = IF s = {} THEN base ELSE F[<<c[s], g[s \ {c[s]}]>>]
           Good(m) == \E g \in [Small(m) -> A] : \A s \in Small(m) : Eq(g, s)
           Bad == {m \in Nat : ~Good(m)}
           L == OpToRel(<, Nat)
<1>1. \A s \in SUBSET D : /\ Cardinality(s) \in Nat /\ (Cardinality(s) = 0 <=> s = {})
                          /\ s # {} => /\ s \ {c[s]} \in SUBSET D
                                       /\ Cardinality(s \ {c[s]}) = Cardinality(s) - 1
  <2> SUFFICES ASSUME NEW s \in SUBSET D
               PROVE  /\ Cardinality(s) \in Nat /\ (Cardinality(s) = 0 <=> s = {})
                      /\ s # {} => /\ s \ {c[s]} \in SUBSET D
                                   /\ Cardinality(s \ {c[s]}) = Cardinality(s) - 1
    OBVIOUS
  <2>1. IsFiniteSet(s)
    BY FS_Subset
  <2> QED
    BY <2>1, FS_CardinalityType, FS_EmptySet, FS_RemoveElement
<1>2. ASSUME NEW m \in Bad, \A y \in Bad : ~ (y < m) PROVE FALSE
  <2>1. m # 0
    <3>1. SUFFICES ASSUME m = 0 PROVE FALSE
      OBVIOUS
    <3>2. ASSUME NEW s \in Small(0) PROVE s = {}
      <4>1. s \in SUBSET D /\ Cardinality(s) <= 0
        OBVIOUS
      <4>2. Cardinality(s) \in Nat /\ (Cardinality(s) = 0 <=> s = {})
        BY <1>1, <4>1
      <4> QED
        BY ONLY <4>1, <4>2
    <3>3. [s \in Small(0) |-> base] \in [Small(0) -> A]
      OBVIOUS
    <3>4. \A s \in Small(0) : Eq([u \in Small(0) |-> base], s)
      BY <3>2
    <3>5. Good(0)
      BY <3>3, <3>4
    <3> QED
      BY <3>1, <3>5
  <2>2. m - 1 \in Nat /\ m - 1 < m /\ m \in Nat
    BY <2>1
  <2>3. m - 1 \notin Bad
    <3> HIDE DEF Bad
    <3> QED
      BY <1>2, <2>2
  <2>4. PICK g \in [Small(m - 1) -> A] : \A s \in Small(m - 1) : Eq(g, s)
    BY <2>2, <2>3
  <2>5. \A s \in Small(m) : s # {} => c[s] \in s /\ s \ {c[s]} \in Small(m - 1)
    BY <1>1, <2>2
  <2>6. ASSUME NEW s \in Small(m - 1) PROVE s \in Small(m)
    <3>1. s \in SUBSET D /\ Cardinality(s) <= m - 1
      OBVIOUS
    <3>2. Cardinality(s) \in Nat
      BY <1>1, <3>1
    <3>3. Cardinality(s) <= m
      BY ONLY <2>2, <3>1, <3>2
    <3> QED
      BY <3>1, <3>3
  <2> DEFINE k == [s \in Small(m) |-> IF s = {} THEN base ELSE F[<<c[s], g[s \ {c[s]}]>>]]
  <2>7. k \in [Small(m) -> A]
    <3>1. \A s \in Small(m) : s # {} => <<c[s], g[s \ {c[s]}]>> \in D \X A
      BY <2>5
    <3> QED
      BY <3>1
  <2>8. \A s \in Small(m - 1) : k[s] = g[s]
    BY <2>4, <2>6
  <2>9. \A s \in Small(m) : k[s] = IF s = {} THEN base ELSE F[<<c[s], g[s \ {c[s]}]>>]
    OBVIOUS
  <2> HIDE DEF k, Small
  <2>10. \A s \in Small(m) : Eq(k, s)
    BY <2>5, <2>8, <2>9
  <2>11. Good(m)
    BY <2>7, <2>10
  <2> QED
    BY <2>11
<1>3. Bad = {}
  <2>1. SUFFICES ASSUME Bad # {} PROVE FALSE
    OBVIOUS
  <2>2. Bad \subseteq Nat
    OBVIOUS
  <2> HIDE DEF Bad
  <2>3. PICK m \in Bad : \A y \in Bad : ~ (<<y, m>> \in L)
    BY <2>1, <2>2, NatLessThanWellFounded, WFMin
  <2>4. \A y \in Bad : ~ (y < m)
    BY <2>2, <2>3 DEF OpToRel
  <2> QED
    BY <1>2, <2>4
<1>4. Cardinality(D) \in Nat /\ Small(Cardinality(D)) = SUBSET D
  <2>1. \A s \in SUBSET D : Cardinality(s) <= Cardinality(D)
    BY FS_Subset
  <2> QED
    BY <2>1, FS_CardinalityType
<1>5. Good(Cardinality(D))
  BY <1>3, <1>4
<1> QED
  BY <1>4, <1>5

\* and stays within a set if each of its steps does.
LEMMA FoldStays ==
  ASSUME NEW D, IsFiniteSet(D), NEW A, NEW c, Chooses(c, D), NEW h, h[{}] \in A,
         Carries(h, D, A, c)
  PROVE  h[D] \in A
<1> USE DEF Chooses, Carries
<1> DEFINE Bad == {m \in Nat : \E s \in SUBSET D : Cardinality(s) = m /\ h[s] \notin A}
           L == OpToRel(<, Nat)
<1>1. SUFFICES ASSUME h[D] \notin A PROVE FALSE
  OBVIOUS
<1>2. Bad \subseteq Nat /\ Bad # {}
  BY <1>1, FS_CardinalityType
<1>3. PICK m \in Bad : \A y \in Bad : ~ (<<y, m>> \in L)
  <2> HIDE DEF Bad
  <2> QED
    BY <1>2, NatLessThanWellFounded, WFMin
<1>4. \A y \in Bad : ~ (y < m)
  <2> HIDE DEF Bad
  <2> QED
    BY <1>2, <1>3 DEF OpToRel
<1>5. PICK s \in SUBSET D : Cardinality(s) = m /\ h[s] \notin A
  OBVIOUS
<1>6. s # {} /\ c[s] \in s
  BY <1>5
<1>7. h[s \ {c[s]}] \notin A
  BY <1>5, <1>6
<1>8. IsFiniteSet(s) /\ IsFiniteSet(s \ {c[s]}) /\ Cardinality(s \ {c[s]}) = Cardinality(s) - 1
  BY <1>6, FS_Subset, FS_RemoveElement
<1>9. Cardinality(s) \in Nat /\ Cardinality(s \ {c[s]}) \in Nat /\ s \ {c[s]} \in SUBSET D
  BY <1>8, FS_CardinalityType
<1>10. Cardinality(s \ {c[s]}) \in Bad
  BY <1>7, <1>9
<1>11. Cardinality(s \ {c[s]}) < m
  BY ONLY <1>5, <1>8, <1>9
<1> QED
  BY <1>4, <1>10, <1>11

\* A sum over a set D, as the folds of the community modules unfold it.
Picked(s) == CHOOSE x \in s : TRUE
SumOf(h, D, v) ==
  h[{}] = 0 /\ \A s \in SUBSET D : s # {} => h[s] = v[Picked(s)] + h[s \ {Picked(s)}]
IsSum(g, D, v) ==
  g = [s \in SUBSET D |-> IF s = {} THEN 0 ELSE v[Picked(s)] + g[s \ {Picked(s)}]]
Total(v) == MapThenSumSet(LAMBDA t : v[t], DOMAIN v)

\* There is a choice of each set.
LEMMA PickedIs ==
  ASSUME NEW D
  PROVE  Chooses([s \in SUBSET D |-> Picked(s)], D) /\ \A s \in SUBSET D : s # {} => Picked(s) \in s
<1>1. \A s \in SUBSET D : s # {} => Picked(s) \in s
  BY DEF Picked
<1> QED
  BY <1>1 DEF Chooses

\* Every part of a sum of numbers is one.
LEMMA SumIs ==
  ASSUME NEW D, IsFiniteSet(D), NEW A, A \in {Nat, Int}, NEW v, \A t \in D : v[t] \in A,
         NEW h, SumOf(h, D, v)
  PROVE  \A s \in SUBSET D : h[s] \in A
<1> SUFFICES ASSUME NEW s \in SUBSET D PROVE h[s] \in A
  OBVIOUS
<1> DEFINE c == [u \in SUBSET s |-> Picked(u)]
<1>1. IsFiniteSet(s) /\ Chooses(c, s)
  BY PickedIs, FS_Subset
<1>2. 0 \in A /\ \A m, n \in A : m + n \in A
  OBVIOUS
<1>3. h[{}] \in A /\ Carries(h, s, A, c)
  <2>1. ASSUME NEW u \in SUBSET s, u # {}, h[u \ {c[u]}] \in A PROVE h[u] \in A
    <3>1. u \in SUBSET D /\ c[u] = Picked(u) /\ Picked(u) \in u
      BY <2>1, PickedIs
    <3>2. h[u] = v[Picked(u)] + h[u \ {Picked(u)}]
      BY <2>1, <3>1 DEF SumOf
    <3> QED
      BY <1>2, <2>1, <3>1, <3>2
  <2> HIDE DEF c
  <2> QED
    BY <1>2, <2>1 DEF Carries, SumOf
<1> HIDE DEF c
<1> QED
  BY <1>1, <1>3, FoldStays

\* A sum exists.
LEMMA SumExists ==
  ASSUME NEW D, IsFiniteSet(D), NEW v, \A t \in D : v[t] \in Int
  PROVE  \E g : IsSum(g, D, v)
<1> DEFINE c == [s \in SUBSET D |-> Picked(s)]
           F == [p \in D \X Int |-> v[p[1]] + p[2]]
<1>1. \A s \in SUBSET D : c[s] = Picked(s) /\ (s # {} => Picked(s) \in s)
  BY PickedIs
<1>2. PICK g \in [SUBSET D -> Int] : FoldOf(g, D, 0, F, c)
  <2>1. F \in [D \X Int -> Int] /\ 0 \in Int
    OBVIOUS
  <2>4. Chooses(c, D)
    BY PickedIs
  <2> HIDE DEF F, c
  <2> DEFINE A == Int
  <2>2. F \in [D \X A -> A] /\ 0 \in A
    BY <2>1
  <2> HIDE DEF A
  <2>3. \E g \in [SUBSET D -> A] : FoldOf(g, D, 0, F, c)
    BY <2>2, <2>4, FoldExists
  <2> QED
    BY <2>3 DEF A
<1> HIDE DEF c
<1> DEFINE G == [s \in SUBSET D |-> IF s = {} THEN 0 ELSE v[Picked(s)] + g[s \ {Picked(s)}]]
<1>3. \A s \in SUBSET D : s # {} => F[<<Picked(s), g[s \ {Picked(s)}]>>] = v[Picked(s)] + g[s \ {Picked(s)}]
  <2>1. \A s \in SUBSET D : s # {} => <<Picked(s), g[s \ {Picked(s)}]>> \in D \X Int
    BY <1>1
  <2> QED
    BY <2>1
<1> HIDE DEF F
<1>4. \A s \in SUBSET D : g[s] = G[s]
  BY <1>1, <1>2, <1>3 DEF FoldOf
<1>5. G = [s \in SUBSET D |-> G[s]] /\ g = [s \in SUBSET D |-> g[s]]
  OBVIOUS
<1> HIDE DEF G
<1>6. g = G
  BY ONLY <1>4, <1>5
<1> QED
  BY <1>6 DEF G, IsSum

LEMMA TotalSums ==
  ASSUME NEW v, IsFiniteSet(DOMAIN v), \A t \in DOMAIN v : v[t] \in Int
  PROVE  \E h : SumOf(h, DOMAIN v, v) /\ Total(v) = h[DOMAIN v]
<1> DEFINE D == DOMAIN v
           Of(f) == [s \in SUBSET D |-> IF s = {} THEN 0 ELSE v[Picked(s)] + f[s \ {Picked(s)}]]
           h == CHOOSE f : f = Of(f)
<1>1. Total(v) = h[D]
  BY DEF Total, MapThenSumSet, MapThenFoldSet, Picked
<1>2. \E g : g = Of(g)
  <2>1. IsFiniteSet(D) /\ \A t \in D : v[t] \in Int
    OBVIOUS
  <2>2. PICK g : IsSum(g, D, v)
    BY <2>1, SumExists
  <2> QED
    BY <2>2 DEF IsSum
<1>3. h = Of(h)
  <2> HIDE DEF Of
  <2> QED
    BY <1>2
<1> HIDE DEF h
<1>4. Of(h)[{}] = 0 /\ \A s \in SUBSET D : s # {} => Of(h)[s] = v[Picked(s)] + h[s \ {Picked(s)}]
  OBVIOUS
<1> HIDE DEF Of
<1>5. SumOf(h, D, v)
  BY <1>3, <1>4 DEF SumOf
<1> QED
  BY <1>1, <1>5

\* What the tracks use is a sum.
Needs(ts) == [t \in DOMAIN ts |-> Needed(ts[t], Rate(t))]
LEMMA UsageSums ==
  ASSUME NEW ts, IsFiniteSet(DOMAIN ts), \A t \in DOMAIN ts : Needed(ts[t], Rate(t)) \in Nat
  PROVE  \E h : SumOf(h, DOMAIN ts, Needs(ts)) /\ Usage(ts) = h[DOMAIN ts]
<1> DEFINE D == DOMAIN ts
           v == Needs(ts)
           Of(f) == [s \in SUBSET D |->
                       IF s = {} THEN 0
                       ELSE Needed(ts[Picked(s)], Rate(Picked(s))) + f[s \ {Picked(s)}]]
           To(f) == [s \in SUBSET D |-> IF s = {} THEN 0 ELSE v[Picked(s)] + f[s \ {Picked(s)}]]
           h == CHOOSE f : f = Of(f)
<1>1. Usage(ts) = h[D]
  BY DEF Usage, MapThenSumSet, MapThenFoldSet, Picked
<1>2. \A t \in D : v[t] = Needed(ts[t], Rate(t)) /\ v[t] \in Int
  BY DEF Needs
<1> HIDE DEF v
<1>3. \E g : g = To(g)
  <2>1. IsFiniteSet(D) /\ \A t \in D : v[t] \in Int
    BY <1>2
  <2>2. PICK g : IsSum(g, D, v)
    BY <2>1, SumExists
  <2> QED
    BY <2>2 DEF IsSum
<1>4. ASSUME NEW f PROVE Of(f) = To(f)
  <2>1. \A s \in SUBSET D : s # {} => Picked(s) \in D
    BY PickedIs
  <2>2. \A s \in SUBSET D : Of(f)[s] = To(f)[s]
    BY <1>2, <2>1
  <2>3. Of(f) = [s \in SUBSET D |-> Of(f)[s]] /\ To(f) = [s \in SUBSET D |-> To(f)[s]]
    OBVIOUS
  <2> HIDE DEF Of, To
  <2> QED
    BY ONLY <2>2, <2>3
<1>5. h = Of(h)
  <2> HIDE DEF Of, To
  <2> QED
    BY <1>3, <1>4
<1> HIDE DEF h
<1>6. To(h)[{}] = 0 /\ \A s \in SUBSET D : s # {} => To(h)[s] = v[Picked(s)] + h[s \ {Picked(s)}]
  OBVIOUS
<1>7. h = To(h)
  <2> HIDE DEF Of, To
  <2> QED
    BY <1>4, <1>5
<1> HIDE DEF Of, To
<1>8. SumOf(h, D, v)
  BY <1>6, <1>7 DEF SumOf
<1> QED
  BY <1>1, <1>8 DEF v

\* Two sums whose terms are alike but for one differ by what that one does.
LEMMA SumsDiffer ==
  ASSUME NEW D, IsFiniteSet(D), NEW v, NEW w, \A t \in D : v[t] \in Int /\ w[t] \in Int,
         NEW a, \A t \in D \ {a} : v[t] = w[t],
         NEW h, SumOf(h, D, v), NEW k, SumOf(k, D, w)
  PROVE  k[D] = h[D] + (IF a \in D THEN w[a] - v[a] ELSE 0)
<1> DEFINE c == [s \in SUBSET D |-> Picked(s)]
           d == [s \in SUBSET D |-> k[s] - (h[s] + (IF a \in s THEN w[a] - v[a] ELSE 0))]
<1>1. \A s \in SUBSET D : h[s] \in Int /\ k[s] \in Int
  <2>1. Int \in {Nat, Int}
    OBVIOUS
  <2> QED
    BY <2>1, SumIs
<1>2. d[{}] = 0
  BY DEF SumOf
<1>3. ASSUME NEW s \in SUBSET D, s # {}, d[s \ {c[s]}] = 0 PROVE d[s] = 0
  <2> DEFINE b == Picked(s)  r == s \ {b}
  <2>1. c[s] = b /\ b \in s /\ r \in SUBSET D /\ b \in D
    BY <1>3, PickedIs
  <2>2. h[s] = v[b] + h[r] /\ k[s] = w[b] + k[r]
    BY <1>3 DEF SumOf
  <2>3. h[r] \in Int /\ k[r] \in Int /\ v[b] \in Int /\ w[b] \in Int
    BY <1>1, <2>1
  <2>4. k[r] - (h[r] + (IF a \in r THEN w[a] - v[a] ELSE 0)) = 0
    BY <1>3, <2>1
  <2>5. d[s] = k[s] - (h[s] + (IF a \in s THEN w[a] - v[a] ELSE 0))
    OBVIOUS
  <2>6. CASE b = a
    <3>1. a \in s /\ a \notin r
      BY <2>1, <2>6
    <3> HIDE DEF b, r, d
    <3>2. k[r] = h[r]
      BY <2>3, <2>4, <3>1
    <3> QED
      BY <2>2, <2>3, <2>5, <2>6, <3>1, <3>2
  <2>7. CASE b # a
    <3>1. (a \in s <=> a \in r) /\ v[b] = w[b]
      BY <2>1, <2>7
    <3>2. a \in s => v[a] \in Int /\ w[a] \in Int
      OBVIOUS
    <3> HIDE DEF b, r, d
    <3>3. CASE a \in s
      BY <2>2, <2>3, <2>4, <2>5, <3>1, <3>2, <3>3
    <3>4. CASE a \notin s
      BY <2>2, <2>3, <2>4, <2>5, <3>1, <3>4
    <3> QED
      BY <3>3, <3>4
  <2> QED
    BY <2>6, <2>7
<1>4. d[D] \in {0}
  <2>1. Chooses(c, D)
    BY PickedIs
  <2> HIDE DEF d, c
  <2>2. d[{}] \in {0} /\ Carries(d, D, {0}, c)
    BY <1>2, <1>3 DEF Carries
  <2> QED
    BY <2>1, <2>2, FoldStays
<1>5. d[D] = k[D] - (h[D] + (IF a \in D THEN w[a] - v[a] ELSE 0))
  OBVIOUS
<1>6. D \in SUBSET D
  OBVIOUS
<1> HIDE DEF d
<1>7. CASE a \in D
  BY <1>1, <1>4, <1>5, <1>6, <1>7
<1>8. CASE a \notin D
  BY <1>1, <1>4, <1>5, <1>6, <1>8
<1> QED
  BY <1>7, <1>8

\* So do totals; a total of numbers is one, and one of zeros is zero.
LEMMA TotalChanges ==
  ASSUME NEW D, IsFiniteSet(D), NEW v \in [D -> Int], NEW a \in D, NEW n \in Int
  PROVE  Total([v EXCEPT ![a] = n]) = Total(v) + (n - v[a])
<1> DEFINE w == [v EXCEPT ![a] = n]
<1>1. w \in [D -> Int] /\ DOMAIN w = D /\ DOMAIN v = D /\ w[a] = n
      /\ \A t \in D \ {a} : v[t] = w[t]
  OBVIOUS
<1> HIDE DEF w
<1>2. \A t \in D : v[t] \in Int /\ w[t] \in Int
  BY <1>1
<1>3. PICK h : SumOf(h, D, v) /\ Total(v) = h[D]
  BY <1>1, <1>2, TotalSums
<1>4. PICK k : SumOf(k, D, w) /\ Total(w) = k[D]
  BY <1>1, <1>2, TotalSums
<1>5. k[D] = h[D] + (IF a \in D THEN w[a] - v[a] ELSE 0)
  BY <1>1, <1>2, <1>3, <1>4, SumsDiffer
<1> QED
  BY <1>1, <1>3, <1>4, <1>5 DEF w

LEMMA TotalIs ==
  ASSUME NEW D, IsFiniteSet(D), NEW A, A \in {Nat, Int}, NEW v \in [D -> A]
  PROVE  Total(v) \in A
<1>1. DOMAIN v = D /\ \A t \in D : v[t] \in A /\ v[t] \in Int
  OBVIOUS
<1>2. PICK h : SumOf(h, D, v) /\ Total(v) = h[D]
  BY <1>1, TotalSums
<1> QED
  BY <1>1, <1>2, SumIs

LEMMA TotalZero ==
  ASSUME NEW D, IsFiniteSet(D), NEW v \in [D -> {0}]
  PROVE  Total(v) = 0
<1> DEFINE c == [s \in SUBSET D |-> Picked(s)]
<1>1. DOMAIN v = D /\ \A t \in D : v[t] = 0
  OBVIOUS
<1>2. PICK h : SumOf(h, D, v) /\ Total(v) = h[D]
  BY <1>1, TotalSums
<1>3. Chooses(c, D) /\ \A s \in SUBSET D : s # {} => c[s] = Picked(s) /\ c[s] \in s
  BY PickedIs
<1> HIDE DEF c
<1>4. h[{}] \in {0} /\ Carries(h, D, {0}, c)
  <2>1. h[{}] = 0 /\ \A s \in SUBSET D : s # {} => h[s] = v[c[s]] + h[s \ {c[s]}]
    BY <1>2, <1>3 DEF SumOf
  <2>2. \A s \in SUBSET D : s # {} => v[c[s]] = 0
    BY <1>1, <1>3
  <2>3. h[{}] \in {0} /\ \A s \in SUBSET D : s # {} /\ h[s \ {c[s]}] \in {0} => h[s] \in {0}
    <3>1. ASSUME NEW s \in SUBSET D, s # {}, h[s \ {c[s]}] \in {0} PROVE h[s] = 0
      <4>1. h[s] = v[c[s]] + h[s \ {c[s]}] /\ v[c[s]] = 0 /\ h[s \ {c[s]}] = 0
        BY <2>1, <2>2, <3>1
      <4> QED
        BY ONLY <4>1
    <3> QED
      BY <2>1, <3>1
  <2> QED
    BY <2>3 DEF Carries
<1>5. h[D] \in {0}
  BY <1>3, <1>4, FoldStays
<1> QED
  BY <1>2, <1>5

\* What the tracks use is the total of what they need.
LEMMA UsageTotal ==
  ASSUME NEW ts, IsFiniteSet(DOMAIN ts), \A t \in DOMAIN ts : Needed(ts[t], Rate(t)) \in Nat
  PROVE  Usage(ts) = Total(Needs(ts))
<1> DEFINE D == DOMAIN ts
           v == Needs(ts)
<1>1. DOMAIN v = D /\ \A t \in D : v[t] \in Int
  BY DEF Needs
<1>2. PICK h : SumOf(h, D, v) /\ Usage(ts) = h[D]
  BY UsageSums
<1>3. PICK k : SumOf(k, D, v) /\ Total(v) = k[D]
  BY <1>1, TotalSums
<1> HIDE DEF v
<1>4. PICK a : a \notin D
  BY NoSetContainsEverything
<1>5. k[D] = h[D] + (IF a \in D THEN v[a] - v[a] ELSE 0)
  BY <1>1, <1>2, <1>3, SumsDiffer
<1>6. h[D] \in Int
  <2>1. Int \in {Nat, Int}
    OBVIOUS
  <2> QED
    BY <1>1, <1>2, <2>1, SumIs
<1> QED
  BY <1>2, <1>3, <1>4, <1>5, <1>6 DEF v

\* They use a number.
LEMMA UsageIs ==
  ASSUME NEW ts, IsFiniteSet(DOMAIN ts), \A t \in DOMAIN ts : Needed(ts[t], Rate(t)) \in Nat
  PROVE  Usage(ts) \in Nat
<1>1. Needs(ts) \in [DOMAIN ts -> Nat] /\ Nat \in {Nat, Int}
  BY DEF Needs
<1> QED
  BY <1>1, UsageTotal, TotalIs

\* The same of a sequence, from its left.
LEMMA LastOf ==
  ASSUME NEW n \in Nat, NEW s \in SUBSET (1..n), s # {}
  PROVE  Max(s) \in s
<1>1. \A k \in s : k \in 1..n
  OBVIOUS
<1>2. s \in SUBSET Nat /\ \A k \in s : k <= n
  BY <1>1
<1> QED
  BY ONLY <1>2, s # {}, n \in Nat, GreatestNumber

SeqFoldOf(g, n, base, F) ==
  \A s \in SUBSET (1..n) : g[s] = IF s = {} THEN base ELSE F[<<Max(s), g[s \ {Max(s)}]>>]
SeqCarries(h, n, A) ==
  \A s \in SUBSET (1..n) : s # {} /\ h[s \ {Max(s)}] \in A => h[s] \in A
LEMMA SeqFoldExists ==
  ASSUME NEW n \in Nat, NEW A, NEW base \in A, NEW F \in [(1..n) \X A -> A]
  PROVE  \E g \in [SUBSET (1..n) -> A] : SeqFoldOf(g, n, base, F)
<1> DEFINE D == 1..n
           c == [s \in SUBSET D |-> Max(s)]
<1>1. \A s \in SUBSET D : c[s] = Max(s) /\ (s # {} => c[s] \in s)
  BY LastOf
<1>2. IsFiniteSet(D)
  <2>1. 1 \in Int /\ n \in Int
    OBVIOUS
  <2> QED
    BY ONLY <2>1, FS_Interval
<1> HIDE DEF c, D
<1>3. \E g \in [SUBSET D -> A] : \A s \in SUBSET D :
        g[s] = IF s = {} THEN base ELSE F[<<c[s], g[s \ {c[s]}]>>]
  <2>1. F \in [D \X A -> A]
    BY DEF D
  <2>2. Chooses(c, D)
    BY <1>1 DEF Chooses
  <2>3. \E g \in [SUBSET D -> A] : FoldOf(g, D, base, F, c)
    BY <1>2, <2>1, <2>2, FoldExists
  <2> QED
    BY <2>3 DEF FoldOf
<1>4. PICK g \in [SUBSET D -> A] : \A s \in SUBSET D :
        g[s] = IF s = {} THEN base ELSE F[<<c[s], g[s \ {c[s]}]>>]
  BY <1>3
<1>5. \A s \in SUBSET D : g[s] = IF s = {} THEN base ELSE F[<<Max(s), g[s \ {Max(s)}]>>]
  BY <1>1, <1>4
<1> QED
  BY <1>5 DEF D, SeqFoldOf

\* and it stays within a set, too.
LEMMA SeqFoldStays ==
  ASSUME NEW n \in Nat, NEW A, NEW h, h[{}] \in A, SeqCarries(h, n, A)
  PROVE  h[1..n] \in A
<1> DEFINE D == 1..n
           c == [s \in SUBSET D |-> Max(s)]
<1>1. \A s \in SUBSET D : c[s] = Max(s) /\ (s # {} => c[s] \in s)
  BY LastOf
<1>2. IsFiniteSet(D)
  <2>1. 1 \in Int /\ n \in Int
    OBVIOUS
  <2> QED
    BY ONLY <2>1, FS_Interval
<1> HIDE DEF c
<1>3. Carries(h, D, A, c) /\ Chooses(c, D)
  BY <1>1 DEF Carries, Chooses, SeqCarries
<1> HIDE DEF D
<1>4. h[D] \in A
  BY <1>2, <1>3, FoldStays
<1> QED
  BY <1>4 DEF D

----------------------------------------------------------------------------
\* Quotient and remainder.
LEMMA Divides ==
  ASSUME NEW s \in Nat \ {0}, NEW a \in Int
  PROVE  a % s \in 0..(s - 1) /\ a \div s \in Int /\ a = s * (a \div s) + (a % s)
OBVIOUS

\* The layers in the order in which they are offered.
LEMMA RaisedIs ==
  \E n \in Nat : DOMAIN Raised = 1..n /\ \A i \in 1..n : Raised[i] \in Layers
<1> DEFINE k == MaxTemporal + 1
           n == (MaxSpatial + 1) * k
<1>1. k \in Nat \ {0} /\ n \in Nat
  BY LayersAssumption
<1>2. Raised = [i \in 1..n |-> <<(i - 1) \div k, (i - 1) % k>>]
  BY DEF Raised
<1>3. ASSUME NEW i \in 1..n PROVE <<(i - 1) \div k, (i - 1) % k>> \in Layers
  <2> DEFINE q == (i - 1) \div k  m == (i - 1) % k
  <2>1. i - 1 \in Nat /\ i - 1 < n
    BY <1>1
  <2>2. q \in Int /\ m \in 0..MaxTemporal /\ i - 1 = k * q + m
    <3>1. k - 1 = MaxTemporal
      BY LayersAssumption
    <3>3. k \in Nat \ {0} /\ i - 1 \in Int
      BY ONLY <1>1, <2>1
    <3> HIDE DEF k, n
    <3>2. m \in 0..(k - 1) /\ q \in Int /\ i - 1 = k * q + m
      BY ONLY <3>3, Divides
    <3> QED
      BY <3>1, <3>2
  <2>3. q \in 0..MaxSpatial
    <3> HIDE DEF q, m, k
    <3>1. q >= 0
      <4>1. SUFFICES ASSUME q + 1 <= 0 PROVE FALSE
        BY <2>2
      <4>2. k * (q + 1) <= k * 0
        BY <1>1, <2>2, <4>1, ProductOrder
      <4>3. k * (q + 1) = k * q + k /\ k * 0 = 0 /\ k * q \in Int
        BY <1>1, <2>2
      <4>4. m < k
        BY <2>2, <1>1, LayersAssumption DEF k
      <4> QED
        BY ONLY <1>1, <2>1, <2>2, <4>2, <4>3, <4>4, LayersAssumption
    <3>2. q <= MaxSpatial
      <4>1. SUFFICES ASSUME MaxSpatial + 1 <= q PROVE FALSE
        BY <2>2, LayersAssumption
      <4>2. k * (MaxSpatial + 1) <= k * q
        BY <1>1, <2>2, <4>1, ProductOrder, LayersAssumption
      <4>3. k * (MaxSpatial + 1) = n /\ k * q \in Int
        BY <1>1, <2>2, LayersAssumption
      <4> HIDE DEF n
      <4> QED
        BY ONLY <1>1, <2>1, <2>2, <4>2, <4>3, LayersAssumption
    <3> QED
      BY ONLY <2>2, <3>1, <3>2, LayersAssumption
  <2> HIDE DEF q, m
  <2>4. <<q, m>> \in Layers
    BY <2>2, <2>3 DEF Layers
  <2> QED
    BY <2>4 DEF q, m
<1> HIDE DEF n
<1> QED
  BY <1>1, <1>2, <1>3

\* What fits in the headroom is a layer, or none.
LEMMA FittingIs ==
  ASSUME NEW t
  PROVE  Fitting(t).layer \in Layer /\ Fitting(t).best \in Layer
<1> DEFINE room == capacity - Usage([u \in Here \ {t} |-> videoTracks[u]])
           none == [layer |-> NoLayer, best |-> NoLayer, done |-> FALSE]
           A == [layer : Layer, best : Layer, done : BOOLEAN]
<1>1. PICK n \in Nat : DOMAIN Raised = 1..n /\ \A i \in 1..n : Raised[i] \in Layer
  BY RaisedIs DEF Layer
<1> DEFINE F == [p \in (1..n) \X A |-> FitLayer(t, room, p[2], Raised[p[1]])]
           Of(f) == [s \in SUBSET (1..n) |->
                       IF s = {} THEN none
                       ELSE FitLayer(t, room, f[s \ {Max(s)}], Raised[Max(s)])]
           h == CHOOSE f : f = Of(f)
<1>2. FoldLeft(LAMBDA a, layer : FitLayer(t, room, a, layer), none, Raised) = h[1..n]
  BY <1>1 DEF FoldLeft, MapThenFoldSet
<1>3. Fitting(t) = none \/ Fitting(t) = h[1..n]
  BY <1>2 DEF Fitting
<1>4. none \in A
  BY DEF Layer
<1> HIDE DEF room, none
<1>5. \A a \in A, l \in Layer : FitLayer(t, room, a, l) \in A
  BY OfferedIn DEF FitLayer
<1>6. F \in [(1..n) \X A -> A]
  BY <1>1, <1>5
<1>7. PICK g \in [SUBSET (1..n) -> A] : \A s \in SUBSET (1..n) :
        g[s] = IF s = {} THEN none ELSE F[<<Max(s), g[s \ {Max(s)}]>>]
  <2> HIDE DEF F, A
  <2>1. \E g \in [SUBSET (1..n) -> A] : SeqFoldOf(g, n, none, F)
    BY <1>4, <1>6, SeqFoldExists
  <2> QED
    BY <2>1 DEF SeqFoldOf
<1> HIDE DEF A
<1>8. g = Of(g)
  <2>1. \A s \in SUBSET (1..n) : s # {} => <<Max(s), g[s \ {Max(s)}]>> \in (1..n) \X A
    BY LastOf
  <2>2. \A s \in SUBSET (1..n) : g[s] = Of(g)[s]
    BY <1>7, <2>1
  <2>3. Of(g) = [s \in SUBSET (1..n) |-> Of(g)[s]] /\ g = [s \in SUBSET (1..n) |-> g[s]]
    OBVIOUS
  <2> HIDE DEF Of
  <2> QED
    BY ONLY <2>2, <2>3
<1>9. h = Of(h)
  <2> HIDE DEF Of
  <2> QED
    BY <1>8
<1> HIDE DEF h
<1>10. h[{}] \in A
  <2>1. h[{}] = Of(h)[{}]
    BY <1>9
  <2> QED
    BY <1>4, <2>1
<1>11. \A s \in SUBSET (1..n) : s # {} /\ h[s \ {Max(s)}] \in A => h[s] \in A
  <2> SUFFICES ASSUME NEW s \in SUBSET (1..n), s # {}, h[s \ {Max(s)}] \in A
               PROVE  h[s] \in A
    OBVIOUS
  <2>1. h[s] = Of(h)[s]
    BY <1>9
  <2>2. h[s] = FitLayer(t, room, h[s \ {Max(s)}], Raised[Max(s)])
    BY <2>1
  <2>3. Max(s) \in 1..n
    BY LastOf
  <2> QED
    BY <1>1, <1>5, <2>2, <2>3
<1>12. h[1..n] \in A
  BY <1>10, <1>11, SeqFoldStays DEF SeqCarries
<1> QED
  BY <1>3, <1>4, <1>12 DEF A

\* A function that is defined from its value at the number before exists within a set
\* of values,
CountedOf(g, m, base, F) == \A n \in 0..m : g[n] = IF n = 0 THEN base ELSE F[g[n - 1]]
LEMMA CountedExists ==
  ASSUME NEW m \in Nat, NEW A, NEW base \in A, NEW F \in [A -> A]
  PROVE  \E g \in [0..m -> A] : CountedOf(g, m, base, F)
<1> USE DEF CountedOf
<1> DEFINE Good(k) == \E g \in [0..k -> A] : \A n \in 0..k :
                        g[n] = IF n = 0 THEN base ELSE F[g[n - 1]]
           Bad == {k \in Nat : ~Good(k)}
           L == OpToRel(<, Nat)
<1>1. ASSUME NEW k \in Bad, \A y \in Bad : ~ (y < k) PROVE FALSE
  <2>1. k # 0
    <3>1. SUFFICES ASSUME k = 0 PROVE FALSE
      OBVIOUS
    <3>2. \A n \in 0..0 : n = 0
      OBVIOUS
    <3>3. [n \in 0..0 |-> base] \in [0..0 -> A]
      OBVIOUS
    <3>4. Good(0)
      BY <3>2, <3>3
    <3> QED
      BY <3>1, <3>4
  <2>2. k \in Nat /\ k - 1 \in Nat /\ k - 1 < k
    BY <2>1
  <2>3. k - 1 \notin Bad
    <3> HIDE DEF Bad
    <3> QED
      BY <1>1, <2>2
  <2>4. PICK g \in [0..(k - 1) -> A] : \A n \in 0..(k - 1) :
          g[n] = IF n = 0 THEN base ELSE F[g[n - 1]]
    BY <2>2, <2>3
  <2>5. \A n \in 0..k : /\ n # 0 => n - 1 \in 0..(k - 1)
                        /\ n # 0 /\ n # k => n \in 0..(k - 1) /\ n - 1 \in 0..(k - 1)
    BY <2>2
  <2> DEFINE h == [n \in 0..k |-> IF n = 0 THEN base ELSE F[g[n - 1]]]
  <2>6. h \in [0..k -> A]
    BY <2>5
  <2>7. \A n \in 0..(k - 1) : n \in 0..k /\ h[n] = g[n]
    BY <2>2, <2>4
  <2>8. \A n \in 0..k : h[n] = IF n = 0 THEN base ELSE F[h[n - 1]]
    <3>1. \A n \in 0..k : h[n] = IF n = 0 THEN base ELSE F[g[n - 1]]
      OBVIOUS
    <3> HIDE DEF h
    <3> QED
      BY <2>5, <2>7, <3>1
  <2> HIDE DEF h
  <2>9. Good(k)
    BY <2>6, <2>8
  <2> QED
    BY <2>9
<1>2. Bad = {}
  <2>1. SUFFICES ASSUME Bad # {} PROVE FALSE
    OBVIOUS
  <2>2. Bad \subseteq Nat
    OBVIOUS
  <2> HIDE DEF Bad
  <2>3. PICK k \in Bad : \A y \in Bad : ~ (<<y, k>> \in L)
    BY <2>1, <2>2, NatLessThanWellFounded, WFMin
  <2>4. \A y \in Bad : ~ (y < k)
    BY <2>2, <2>3 DEF OpToRel
  <2> QED
    BY <1>1, <2>4
<1>3. m \notin Bad
  BY <1>2
<1> QED
  BY <1>3

\* and stays within it.
LEMMA CountedStays ==
  ASSUME NEW m \in Nat, NEW A, NEW h, h[0] \in A,
         \A n \in 1..m : h[n - 1] \in A => h[n] \in A
  PROVE  h[m] \in A
<1> DEFINE Bad == {n \in 0..m : h[n] \notin A}
           L == OpToRel(<, Nat)
<1>1. SUFFICES ASSUME h[m] \notin A PROVE FALSE
  OBVIOUS
<1>2. Bad \subseteq Nat /\ m \in Bad
  BY <1>1
<1>3. PICK k \in Bad : \A y \in Bad : ~ (<<y, k>> \in L)
  <2> HIDE DEF Bad
  <2> QED
    BY <1>2, NatLessThanWellFounded, WFMin
<1>4. \A y \in Bad : ~ (y < k)
  <2> HIDE DEF Bad
  <2> QED
    BY <1>2, <1>3 DEF OpToRel
<1>5. k \in 0..m /\ h[k] \notin A
  OBVIOUS
<1>6. k # 0
  BY <1>5
<1>7. k \in 1..m /\ k - 1 \in 0..m /\ k - 1 < k
  BY <1>5, <1>6
<1>8. h[k - 1] \notin A
  BY <1>5, <1>7
<1>9. k - 1 \in Bad
  BY <1>7, <1>8
<1> QED
  BY <1>4, <1>7, <1>9

----------------------------------------------------------------------------
\* What the variables of the allocator hold.
EventTypes ==
  [kind : {"track", "resume", "adjust", "all", "congestion"}, track : Tracks \cup {""},
   from : {"none", "early", "congested"}, to : {"none", "early", "congested"},
   value : Capacities \cup {0}]
AllocatorTypes ==
  /\ Here \subseteq Tracks /\ videoTracks \in [Here -> Forwarders]
  /\ upstream \in [Tracks -> [available : SUBSET (0..MaxSpatial), rate : Bitrates]]
  /\ dirty \subseteq Tracks
  /\ queue \in Seq(EventTypes)
  /\ allocatorState \in {"stable", "deficient"}
  /\ capacity \in Nat
  /\ congestion \in {"none", "early", "congested"}

\* The types of one track.
LEMMA TypesOfTrack ==
  ASSUME AllocatorTypes, NEW t \in Here
  PROVE  /\ t \in Tracks /\ videoTracks[t] \in Forwarders /\ Rate(t) \in Bitrates
         /\ upstream[t].available \in SUBSET (0..MaxSpatial)
BY DEF AllocatorTypes, Rate

\* There are finitely many tracks.
LEMMA FewTracks == ASSUME AllocatorTypes PROVE IsFiniteSet(Here)
BY AllocatorAssumption, FS_Subset DEF AllocatorTypes

\* The tracks that boosting ts may make: each is what it was, or is served.
Boosts(ts) ==
  {us \in [Here -> Forwarders] : \A u \in Here : us[u] = ts[u] \/ Settled(us[u], Rate(u))}

\* One boost keeps to that,
LEMMA BoostOneIn ==
  ASSUME AllocatorTypes, NEW ts, NEW b \in [tracks : Boosts(ts), room : Int]
  PROVE  BoostOne(b) \subseteq [tracks : Boosts(ts), room : Int]
<1>1. b.tracks \in [Here -> Forwarders] /\ b.room \in Int
      /\ \A u \in Here : b.tracks[u] = ts[u] \/ Settled(b.tracks[u], Rate(u))
  BY DEF Boosts
<1>2. ASSUME NEW t \in Candidates(b)
      PROVE  /\ t \in Here
             /\ [b.tracks EXCEPT ![t] = Boosted(@, Rate(t))] \in Boosts(ts)
             /\ b.room - (Rate(t)[NextHigher(b.tracks[t], Rate(t))]
                            - RateOf(b.tracks[t].target, Rate(t))) \in Int
  <2>1. t \in DOMAIN b.tracks /\ Boostable(b.tracks[t], Rate(t), b.room)
    BY DEF Candidates, Deficient
  <2>2. t \in Here /\ Rate(t) \in Bitrates /\ b.tracks[t] \in Forwarders
        /\ Valid(NextHigher(b.tracks[t], Rate(t)))
    BY <1>1, <2>1, TypesOfTrack DEF Boostable
  <2> DEFINE y == Boosted(b.tracks[t], Rate(t))
             us == [b.tracks EXCEPT ![t] = y]
             l == NextHigher(b.tracks[t], Rate(t))
  <2>3. y \in Forwarders /\ Settled(y, Rate(t))
    BY <2>2, BoostedSettles
  <2>4. l \in Layers
    BY <2>2, NextHigherIn, LayerIs
  <2>5. Rate(t)[l] \in Nat
    BY <2>2, <2>4 DEF Bitrates
  <2>6. RateOf(b.tracks[t].target, Rate(t)) \in Nat
    BY <2>2, RateIs DEF Forwarders, Layer
  <2>7. us \in Boosts(ts)
    <3> HIDE DEF y
    <3> QED
      BY <1>1, <2>2, <2>3 DEF Boosts
  <2> HIDE DEF l
  <2>8. b.room - (Rate(t)[l] - RateOf(b.tracks[t].target, Rate(t))) \in Int
    BY <1>1, <2>5, <2>6
  <2> QED
    BY <2>2, <2>7, <2>8 DEF l
<1>3. CASE Candidates(b) = {}
  BY <1>3 DEF BoostOne
<1>4. CASE Candidates(b) # {}
  <2>1. BoostOne(b) =
          {[tracks |-> [b.tracks EXCEPT ![t] = Boosted(@, Rate(t))],
            room |-> b.room - (Rate(t)[NextHigher(b.tracks[t], Rate(t))]
                                 - RateOf(b.tracks[t].target, Rate(t)))] :
           t \in Candidates(b)}
    BY <1>4 DEF BoostOne
  <2> QED
    BY <1>2, <2>1
<1> QED
  BY <1>3, <1>4

\* What tracks use is the total of what each of them needs.
LEMMA UsageOfTracks ==
  ASSUME AllocatorTypes, NEW ts \in [Here -> Forwarders]
  PROVE  /\ Needs(ts) \in [Here -> Nat] /\ \A t \in Here : Needs(ts)[t] = Needed(ts[t], Rate(t))
         /\ Usage(ts) = Total(Needs(ts)) /\ Usage(ts) \in Nat
<1>1. IsFiniteSet(DOMAIN ts) /\ DOMAIN ts = Here
  BY FewTracks
<1>2. \A t \in DOMAIN ts : Needed(ts[t], Rate(t)) \in Nat
  BY NeededIs, TypesOfTrack
<1> QED
  BY <1>1, <1>2, UsageIs, UsageTotal DEF Needs

\* One track that changes changes what is used by what it needs more.
LEMMA UsageChanges ==
  ASSUME AllocatorTypes, NEW ts \in [Here -> Forwarders], NEW t \in Here, NEW y \in Forwarders
  PROVE  Usage([ts EXCEPT ![t] = y])
           = Usage(ts) + (Needed(y, Rate(t)) - Needed(ts[t], Rate(t)))
<1> DEFINE us == [ts EXCEPT ![t] = y]
           v == Needs(ts)
           n == Needed(y, Rate(t))
<1>1. us \in [Here -> Forwarders] /\ us[t] = y /\ \A u \in Here \ {t} : us[u] = ts[u]
  OBVIOUS
<1> HIDE DEF us
<1>2. /\ v \in [Here -> Nat] /\ v[t] = Needed(ts[t], Rate(t)) /\ Usage(ts) = Total(v)
      /\ \A u \in Here : v[u] = Needed(ts[u], Rate(u))
  BY UsageOfTracks
<1>3. /\ Needs(us) \in [Here -> Nat] /\ Usage(us) = Total(Needs(us))
      /\ \A u \in Here : Needs(us)[u] = Needed(us[u], Rate(u))
  BY <1>1, UsageOfTracks
<1> HIDE DEF v
<1>4. Needs(us) = [v EXCEPT ![t] = n]
  <2>1. [v EXCEPT ![t] = n] = [u \in Here |-> IF u = t THEN n ELSE v[u]]
    BY <1>2
  <2>2. Needs(us) = [u \in Here |-> Needs(us)[u]]
    BY <1>3
  <2>3. \A u \in Here : Needs(us)[u] = IF u = t THEN n ELSE v[u]
    BY <1>1, <1>2, <1>3
  <2> QED
    BY ONLY <2>1, <2>2, <2>3
<1>5. n \in Int /\ v \in [Here -> Int]
  BY <1>2, TypesOfTrack, NeededIs
<1> HIDE DEF n
<1>6. Total([v EXCEPT ![t] = n]) = Total(v) + (n - v[t])
  BY <1>5, FewTracks, TotalChanges
<1> QED
  BY <1>2, <1>3, <1>4, <1>6 DEF us, n

\* What the tracks and the room that is left come to, while tracks are boosted: it never
\* exceeds the channel, and there is room if a track was boosted.
Roomy(ts, channel) ==
  {b \in [tracks : Boosts(ts), room : Int] :
     Usage(b.tracks) + b.room <= channel /\ (b.tracks = ts \/ b.room >= 0)}

\* A boost takes no more than the room there is.
LEMMA BoostOneFits ==
  ASSUME AllocatorTypes, NEW ts, NEW channel \in Int, NEW b \in Roomy(ts, channel)
  PROVE  BoostOne(b) \subseteq Roomy(ts, channel)
<1>1. /\ b \in [tracks : Boosts(ts), room : Int] /\ b.tracks \in [Here -> Forwarders]
      /\ b.room \in Int
      /\ Usage(b.tracks) + b.room <= channel /\ (b.tracks = ts \/ b.room >= 0)
  BY DEF Roomy, Boosts
<1>2. BoostOne(b) \subseteq [tracks : Boosts(ts), room : Int]
  BY <1>1, BoostOneIn
<1>3. ASSUME NEW t \in Candidates(b)
      PROVE  LET us == [b.tracks EXCEPT ![t] = Boosted(@, Rate(t))]
                 room == b.room - (Rate(t)[NextHigher(b.tracks[t], Rate(t))]
                                     - RateOf(b.tracks[t].target, Rate(t))) IN
             Usage(us) + room <= channel /\ room >= 0
  <2> DEFINE x == b.tracks[t]
             y == Boosted(x, Rate(t))
             us == [b.tracks EXCEPT ![t] = y]
             l == NextHigher(x, Rate(t))
             n == Rate(t)[l]
             o == RateOf(x.target, Rate(t))
  <2>1. t \in DOMAIN b.tracks /\ Boostable(x, Rate(t), b.room)
    BY DEF Candidates, Deficient
  <2>2. t \in Here /\ Rate(t) \in Bitrates /\ x \in Forwarders /\ Valid(l) /\ n - o <= b.room
    BY <1>1, <2>1, TypesOfTrack DEF Boostable
  <2>3. y \in Forwarders
    BY <2>2, BoostedSettles
  <2>4. Needed(y, Rate(t)) = n /\ n \in Nat
    BY <2>2, BoostedNeeds
  <2>5. Needed(x, Rate(t)) >= o /\ o \in Nat /\ Needed(x, Rate(t)) \in Nat
    BY <2>2, TargetNeeds, NeededIs
  <2> HIDE DEF y, n, o
  <2>6. Usage(us) = Usage(b.tracks) + (n - Needed(x, Rate(t)))
    <3> HIDE DEF x
    <3>1. [b.tracks EXCEPT ![t] = y] = us
      OBVIOUS
    <3> HIDE DEF us
    <3> QED
      BY <1>1, <2>2, <2>3, <2>4, <3>1, UsageChanges DEF x
  <2>7. Usage(b.tracks) \in Nat
    BY <1>1, UsageOfTracks
  <2> HIDE DEF x, us
  <2>8. Usage(us) + (b.room - (n - o)) <= channel /\ b.room - (n - o) >= 0
    BY <1>1, <2>2, <2>4, <2>5, <2>6, <2>7
  <2> QED
    BY <2>8 DEF x, us, y, n, o
<1>4. CASE Candidates(b) = {}
  BY <1>4 DEF BoostOne
<1>5. CASE Candidates(b) # {}
  <2>1. BoostOne(b) =
          {[tracks |-> [b.tracks EXCEPT ![t] = Boosted(@, Rate(t))],
            room |-> b.room - (Rate(t)[NextHigher(b.tracks[t], Rate(t))]
                                 - RateOf(b.tracks[t].target, Rate(t)))] :
           t \in Candidates(b)}
    BY <1>5 DEF BoostOne
  <2>2. ASSUME NEW c \in BoostOne(b)
        PROVE  Usage(c.tracks) + c.room <= channel /\ c.room >= 0
    BY <1>3, <2>1
  <2> QED
    BY <1>2, <2>2 DEF Roomy
<1> QED
  BY <1>4, <1>5

\* All of them keep to that, too: boosting leaves the tracks, or keeps within the channel.
LEMMA BoostIs ==
  ASSUME AllocatorTypes, NEW ts \in [Here -> Forwarders], NEW channel \in Int,
         NEW us \in Boost(ts, channel)
  PROVE  us \in Boosts(ts) /\ (us = ts \/ Usage(us) <= channel)
<1> DEFINE m == Cardinality(Tracks) * Cardinality(Layers)
           S == Roomy(ts, channel)
           base == {[tracks |-> ts, room |-> channel - Usage(ts)]}
           F == [B \in SUBSET S |-> UNION {BoostOne(b) : b \in B}]
           Of(f) == [n \in 0..m |-> IF n = 0 THEN base
                                    ELSE UNION {BoostOne(b) : b \in f[n - 1]}]
           h == CHOOSE f : f = Of(f)
<1>1. Boost(ts, channel) = {b.tracks : b \in h[m]}
  BY DEF Boost
<1>2. m \in Nat
  <2>1. Cardinality(Tracks) \in Nat /\ Cardinality(Layers) \in Nat
    BY AllocatorAssumption, LayersFinite, FS_CardinalityType
  <2> QED
    BY <2>1
<1>3. base \in SUBSET S
  <2>1. Usage(ts) \in Nat /\ Usage(ts) + (channel - Usage(ts)) <= channel
    BY UsageOfTracks
  <2>2. ts \in Boosts(ts)
    BY DEF Boosts
  <2> QED
    BY <2>1, <2>2 DEF Roomy
<1>4. \A B \in SUBSET S : UNION {BoostOne(b) : b \in B} \in SUBSET S
  BY BoostOneFits
<1>5. F \in [SUBSET S -> SUBSET S]
  <2> HIDE DEF S
  <2> QED
    BY <1>4
<1> HIDE DEF m, S, base
<1>6. PICK g \in [0..m -> SUBSET S] : \A n \in 0..m : g[n] = IF n = 0 THEN base ELSE F[g[n - 1]]
  <2> HIDE DEF F
  <2> DEFINE A == SUBSET S
  <2>1. base \in A /\ F \in [A -> A]
    BY <1>3, <1>5
  <2> HIDE DEF A
  <2>2. \E g \in [0..m -> A] : CountedOf(g, m, base, F)
    BY <1>2, <2>1, CountedExists
  <2> QED
    BY <2>2 DEF A, CountedOf
<1>7. \A n \in 0..m : n # 0 => n - 1 \in 0..m
  BY <1>2
<1>8. g = Of(g)
  <2>1. \A n \in 0..m : n # 0 => g[n - 1] \in SUBSET S
    BY <1>7
  <2>2. \A n \in 0..m : n # 0 => F[g[n - 1]] = UNION {BoostOne(b) : b \in g[n - 1]}
    BY <2>1
  <2> HIDE DEF F
  <2>3. \A n \in 0..m : g[n] = IF n = 0 THEN base
                               ELSE UNION {BoostOne(b) : b \in g[n - 1]}
    BY <1>6, <2>2
  <2> QED
    BY <2>3
<1>9. h = Of(h)
  <2> HIDE DEF Of
  <2> QED
    BY <1>8
<1> HIDE DEF h
<1>10. \A n \in 0..m : h[n] = IF n = 0 THEN base ELSE UNION {BoostOne(b) : b \in h[n - 1]}
  <2>1. \A n \in 0..m : Of(h)[n] = IF n = 0 THEN base
                                   ELSE UNION {BoostOne(b) : b \in h[n - 1]}
    OBVIOUS
  <2> HIDE DEF Of
  <2> QED
    BY <1>9, <2>1
<1>11. h[0] \in SUBSET S /\ \A n \in 1..m : h[n - 1] \in SUBSET S => h[n] \in SUBSET S
  <2>1. 0 \in 0..m /\ \A n \in 1..m : n \in 0..m /\ n # 0
    BY <1>2
  <2> QED
    BY <1>3, <1>4, <1>10, <2>1
<1>12. h[m] \in SUBSET S
  BY <1>2, <1>11, CountedStays
<1>13. PICK b \in Roomy(ts, channel) : us = b.tracks
  BY <1>1, <1>12 DEF S
<1>14. /\ us \in Boosts(ts) /\ us \in [Here -> Forwarders] /\ b.room \in Int
       /\ Usage(us) + b.room <= channel /\ (us = ts \/ b.room >= 0)
  BY <1>13 DEF Roomy, Boosts
<1>15. Usage(us) \in Nat
  BY <1>14, UsageOfTracks
<1> QED
  BY <1>14, <1>15

\* What each track needs when the tracks of a set have moved to their best transition.
Given(from) ==
  [u \in Here |->
     IF u \in from THEN RateOf(BestWeighted(videoTracks[u], Rate(u)).layer, Rate(u))
     ELSE Needed(videoTracks[u], Rate(u))]
AllFrugal == \A u \in Here : Frugal(videoTracks[u], Rate(u))
GivenIs(a) == AllFrugal => Total(Given(a.from)) + a.sum <= Usage(videoTracks)

\* A track that gives saves what is added to the sum.
LEMMA ContributeSaves ==
  ASSUME AllocatorTypes, NEW from \in SUBSET Here, NEW sum \in Nat, NEW u \in Here, u \notin from,
         GivenIs([sum |-> sum, from |-> from]), NEW saves,
         saves = BestWeighted(videoTracks[u], Rate(u)).saves
  PROVE  GivenIs([sum |-> sum + saves, from |-> from \cup {u}])
<1> SUFFICES ASSUME AllFrugal
             PROVE  Total(Given(from \cup {u})) + (sum + saves) <= Usage(videoTracks)
  BY DEF GivenIs
<1> DEFINE n == RateOf(BestWeighted(videoTracks[u], Rate(u)).layer, Rate(u))
           v == Given(from)
<1>1. Total(v) + sum <= Usage(videoTracks)
  BY DEF GivenIs
<1>2. videoTracks \in [Here -> Forwarders] /\ \A t \in Here : Rate(t) \in Bitrates
  BY TypesOfTrack DEF AllocatorTypes
<1>3. /\ \A t \in Here : Needed(videoTracks[t], Rate(t)) \in Nat
      /\ \A t \in Here : RateOf(BestWeighted(videoTracks[t], Rate(t)).layer, Rate(t)) \in Nat
  BY <1>2, NeededIs, BestWeightedIn, RateIs
<1>4. saves \in Nat /\ n \in Nat /\ n + saves <= Needed(videoTracks[u], Rate(u))
      /\ Needed(videoTracks[u], Rate(u)) \in Nat
  <2>1. Frugal(videoTracks[u], Rate(u))
    BY DEF AllFrugal
  <2> QED
    BY <1>2, <1>3, <2>1, BestWeightedIn, BestSaves
<1>5. v \in [Here -> Nat] /\ v \in [Here -> Int] /\ v[u] = Needed(videoTracks[u], Rate(u))
  BY <1>3 DEF Given
<1>6. Given(from \cup {u}) = [v EXCEPT ![u] = n]
  BY DEF Given
<1> HIDE DEF n, v
<1>7. n \in Int /\ IsFiniteSet(Here)
  BY <1>4, FewTracks
<1>8. Total([v EXCEPT ![u] = n]) = Total(v) + (n - v[u])
  BY <1>5, <1>7, TotalChanges
<1>9. Total(v) \in Int /\ Usage(videoTracks) \in Nat
  BY <1>2, <1>5, <1>7, TotalIs, UsageOfTracks
<1> QED
  BY <1>1, <1>4, <1>5, <1>6, <1>8, <1>9

\* What others give is theirs, and is saved.
LEMMA ContributorsAre ==
  ASSUME AllocatorTypes, NEW S \in SUBSET Here, NEW order \in SetToSeqs(S), NEW need
  PROVE  LET a == Contributors(order, need) IN
         a.sum \in Nat /\ a.from \in SUBSET S /\ GivenIs(a)
<1> DEFINE n == Cardinality(S)
           none == [sum |-> 0, from |-> {}]
           A == [sum : Nat, from : SUBSET S]
           F == [p \in (1..n) \X A |-> Contribute(need, p[2], order[p[1]])]
           Of(f) == [s \in SUBSET (1..n) |->
                       IF s = {} THEN none
                       ELSE Contribute(need, f[s \ {Max(s)}], order[Max(s)])]
           h == CHOOSE f : f = Of(f)
<1>1. /\ n \in Nat /\ order \in [1..n -> S]
      /\ \A p, q \in 1..n : order[p] = order[q] => p = q
  <2>1. IsFiniteSet(S)
    BY FewTracks, FS_Subset
  <2>2. n \in Nat
    BY <2>1, FS_CardinalityType
  <2> QED
    BY <2>2 DEF SetToSeqs, IsInjective
<1>2. DOMAIN order = 1..n /\ \A i \in 1..n : order[i] \in S
  BY <1>1
<1> HIDE DEF n
<1>3. Contributors(order, need) = h[1..n]
  BY <1>2 DEF Contributors, FoldLeft, MapThenFoldSet
<1>4. none \in A
  OBVIOUS
<1> HIDE DEF none
<1>5. \A a \in A, u \in S : Contribute(need, a, u) \in A
  <2> SUFFICES ASSUME NEW a \in A, NEW u \in S PROVE Contribute(need, a, u) \in A
    OBVIOUS
  <2> DEFINE k == BestWeighted(videoTracks[u], Rate(u)).saves
  <2>1. k \in Nat
    BY BestWeightedIn, TypesOfTrack
  <2>2. Contribute(need, a, u) = a
        \/ Contribute(need, a, u) = [sum |-> a.sum + k, from |-> a.from \cup {u}]
    BY DEF Contribute
  <2> HIDE DEF k
  <2>3. [sum |-> a.sum + k, from |-> a.from \cup {u}] \in A
    BY <2>1
  <2> HIDE DEF A
  <2> QED
    BY <2>2, <2>3
<1>6. F \in [(1..n) \X A -> A]
  <2> HIDE DEF A
  <2> QED
    BY <1>2, <1>5
<1>7. PICK g \in [SUBSET (1..n) -> A] : \A s \in SUBSET (1..n) :
        g[s] = IF s = {} THEN none ELSE F[<<Max(s), g[s \ {Max(s)}]>>]
  <2> HIDE DEF F, A
  <2>1. \E g \in [SUBSET (1..n) -> A] : SeqFoldOf(g, n, none, F)
    BY <1>1, <1>4, <1>6, SeqFoldExists
  <2> QED
    BY <2>1 DEF SeqFoldOf
<1> HIDE DEF A
<1>8. g = Of(g)
  <2>1. \A s \in SUBSET (1..n) : s # {} => <<Max(s), g[s \ {Max(s)}]>> \in (1..n) \X A
    BY <1>1, LastOf
  <2>2. \A s \in SUBSET (1..n) : g[s] = Of(g)[s]
    BY <1>7, <2>1
  <2>3. Of(g) = [s \in SUBSET (1..n) |-> Of(g)[s]] /\ g = [s \in SUBSET (1..n) |-> g[s]]
    OBVIOUS
  <2> HIDE DEF Of
  <2> QED
    BY ONLY <2>2, <2>3
<1>9. h = Of(h)
  <2> HIDE DEF Of
  <2> QED
    BY <1>8
<1> HIDE DEF h
<1> DEFINE Served(s) == {order[i] : i \in s}
           B == {p \in (SUBSET (1..n)) \X A : p[2].from \subseteq Served(p[1]) /\ GivenIs(p[2])}
           k == [s \in SUBSET (1..n) |-> <<s, h[s]>>]
<1>10. h[{}] \in A /\ h[{}].from = {} /\ GivenIs(h[{}])
  <2>1. h[{}] = none
    BY <1>9
  <2>2. none \in A /\ none.from = {} /\ none.sum = 0
    BY <1>4 DEF none
  <2>3. Given({}) = Needs(videoTracks) /\ Usage(videoTracks) = Total(Needs(videoTracks))
        /\ Usage(videoTracks) \in Nat
    BY UsageOfTracks DEF AllocatorTypes, Given, Needs
  <2> QED
    BY <2>1, <2>2, <2>3 DEF GivenIs
<1>11. ASSUME NEW s \in SUBSET (1..n), s # {}, k[s \ {Max(s)}] \in B PROVE k[s] \in B
  <2> DEFINE m == Max(s)
             u == order[m]
             b == h[s \ {m}]
             saves == BestWeighted(videoTracks[u], Rate(u)).saves
  <2>1. m \in s /\ m \in 1..n /\ u \in S /\ s \ {m} \in SUBSET (1..n)
    BY <1>1, <1>2, <1>11, LastOf
  <2>2. b \in A /\ b.from \subseteq Served(s \ {m}) /\ GivenIs(b)
    <3> DEFINE q == k[s \ {m}]
    <3>1. q = <<s \ {m}, b>>
      BY <2>1
    <3>2. q \in B
      BY <1>11
    <3> HIDE DEF k, q, b, m, Served
    <3>3. q[1] = s \ {m} /\ q[2] = b
      BY <3>1
    <3>4. q[2] \in A /\ q[2].from \subseteq Served(q[1]) /\ GivenIs(q[2])
      BY <3>2
    <3> QED
      BY ONLY <3>3, <3>4
  <2>3. h[s] = Contribute(need, b, u)
    <3>1. h[s] = Of(h)[s]
      BY <1>9
    <3> QED
      BY <1>11, <3>1
  <2>4. u \notin b.from
    <3>1. \A i \in s \ {m} : order[i] # u
      BY <1>1, <2>1
    <3> QED
      BY <2>2, <3>1
  <2>5. Served(s) = Served(s \ {m}) \cup {u}
    BY <2>1
  <2> HIDE DEF Served
  <2>6. h[s] \in A /\ h[s].from \subseteq Served(s) /\ GivenIs(h[s])
    <3>1. h[s] \in A
      BY <1>5, <2>1, <2>2, <2>3
    <3>2. CASE h[s] = b
      BY <2>2, <2>5, <3>1, <3>2
    <3>3. CASE h[s] = [sum |-> b.sum + saves, from |-> b.from \cup {u}]
      <4>1. b.sum \in Nat /\ b.from \in SUBSET Here /\ u \in Here
            /\ GivenIs([sum |-> b.sum, from |-> b.from])
        BY <2>1, <2>2 DEF A, GivenIs
      <4>2. GivenIs([sum |-> b.sum + saves, from |-> b.from \cup {u}])
        <5> HIDE DEF b, u
        <5> QED
          BY <2>4, <4>1, ContributeSaves
      <4>3. h[s].from = b.from \cup {u}
        BY <3>3
      <4> QED
        BY <2>2, <2>5, <3>1, <3>3, <4>2, <4>3
    <3>4. h[s] = b \/ h[s] = [sum |-> b.sum + saves, from |-> b.from \cup {u}]
      BY <2>3 DEF Contribute
    <3> QED
      BY <3>2, <3>3, <3>4
  <2> QED
    BY <2>6
<1>12. k[{}] \in B
  <2>1. {} \in SUBSET (1..n)
    OBVIOUS
  <2> HIDE DEF Served
  <2> QED
    BY <1>10, <2>1
<1>13. k[1..n] \in B
  <2> HIDE DEF B, k
  <2> QED
    BY <1>1, <1>11, <1>12, SeqFoldStays DEF SeqCarries
<1>14. h[1..n] \in A /\ GivenIs(h[1..n])
  BY <1>13
<1> QED
  BY <1>3, <1>14 DEF A

----------------------------------------------------------------------------
\* What the managed tracks are offered so far, and what is left of the channel: where
\* tracks may be paused, it comes to no more than there was.
Rated(layers) == [t \in Here \cap Managed |-> RateOf(layers[t], Rate(t))]
Offers(total) ==
  {a \in [layers : [Here \cap Managed -> Layer], left : Nat] :
     allowPause => Total(Rated(a.layers)) + a.left <= total}

\* An offer to one track keeps to that,
LEMMA OfferToIn ==
  ASSUME AllocatorTypes, NEW total \in Nat, NEW layer \in Layers,
         NEW a \in Offers(total), NEW t \in Here \cap Managed
  PROVE  OfferTo(layer, a, t) \in Offers(total)
<1> DEFINE p == Offered(videoTracks[t], Rate(t), a.layers[t], layer, a.left, allowPause)
           n == RateOf(p, Rate(t))
           o == RateOf(a.layers[t], Rate(t))
           left == IF p = a.layers[t] THEN a.left ELSE Max({0, a.left - (n - o)})
           layers == [a.layers EXCEPT ![t] = p]
           v == Rated(a.layers)
<1>1. /\ a.layers \in [Here \cap Managed -> Layer] /\ a.left \in Nat /\ a.layers[t] \in Layer
      /\ allowPause => Total(v) + a.left <= total
  BY DEF Offers
<1>2. Rate(t) \in Bitrates /\ p \in Layer
  BY <1>1, OfferedIn, TypesOfTrack DEF Layer
<1>3. n \in Nat /\ o \in Nat
  <2> HIDE DEF p
  <2> QED
    BY <1>1, <1>2, RateIs
<1>4. OfferTo(layer, a, t) = [layers |-> layers, left |-> left]
  BY DEF OfferTo
<1>5. p = a.layers[t] \/ (allowPause => n - o <= a.left)
  <2>1. CASE p # a.layers[t] /\ allowPause
    <3>1. p = layer /\ Rate(t)[layer] <= a.left + o
      BY <2>1 DEF Offered
    <3>2. n = Rate(t)[layer]
      <4>1. Valid(layer)
        BY LayerIs
      <4> HIDE DEF p
      <4> QED
        BY <3>1, <4>1 DEF RateOf
    <3> HIDE DEF n, o, p
    <3> QED
      BY <1>1, <1>3, <3>1, <3>2
  <2> QED
    BY <2>1
<1>6. v \in [Here \cap Managed -> Nat] /\ v[t] = o
      /\ Rated(layers) = [v EXCEPT ![t] = n]
  <2>1. \A u \in Here \cap Managed : RateOf(a.layers[u], Rate(u)) \in Nat
    BY <1>1, RateIs, TypesOfTrack
  <2> HIDE DEF p
  <2> QED
    BY <1>1, <1>2, <2>1 DEF Rated
<1>7. layers \in [Here \cap Managed -> Layer]
  BY <1>1, <1>2
<1> HIDE DEF p, n, o, v, layers
<1>8. Total(Rated(layers)) = Total(v) + (n - o) /\ Total(v) \in Nat
  <2>1. IsFiniteSet(Here \cap Managed)
    BY FewTracks, FS_Subset
  <2>2. v \in [Here \cap Managed -> Int] /\ n \in Int /\ Nat \in {Nat, Int}
    BY <1>3, <1>6
  <2>3. Total([v EXCEPT ![t] = n]) = Total(v) + (n - v[t])
    BY <2>1, <2>2, TotalChanges
  <2>4. Total(v) \in Nat
    BY <1>6, <2>1, <2>2, TotalIs
  <2> QED
    BY <1>6, <2>3, <2>4
<1>9. left \in Nat /\ (allowPause => Total(v) + (n - o) + left <= total)
  <2>1. CASE p = a.layers[t]
    <3>1. n = o
      BY <2>1 DEF n, o
    <3> QED
      BY <1>1, <1>3, <1>8, <2>1, <3>1
  <2>2. CASE p # a.layers[t]
    <3>1. a.left - (n - o) \in Int
      BY <1>1, <1>3
    <3>2. left = Max({0, a.left - (n - o)})
      BY <2>2
    <3>3. left \in Nat /\ left \in {0, a.left - (n - o)}
      BY <3>1, <3>2, NotNegative
    <3>4. allowPause => left = a.left - (n - o)
      <4>1. SUFFICES ASSUME allowPause, left = 0 PROVE a.left - (n - o) = 0
        BY <3>3
      <4>2. a.left - (n - o) \in Nat
        BY <1>1, <1>3, <1>5, <2>2, <4>1
      <4>3. Max({0, a.left - (n - o)}) >= a.left - (n - o)
        BY <4>2, NotLess
      <4> QED
        BY <3>2, <4>1, <4>2, <4>3
    <3> HIDE DEF left
    <3> QED
      BY <1>1, <1>3, <1>8, <3>3, <3>4
  <2> QED
    BY <2>1, <2>2
<1> HIDE DEF left
<1>10. allowPause => Total(Rated(layers)) + left <= total
  BY <1>8, <1>9
<1> QED
  BY <1>4, <1>7, <1>9, <1>10 DEF Offers

\* and so does an offer to each.
LEMMA OfferEachIn ==
  ASSUME AllocatorTypes, NEW total \in Nat, NEW layer \in Layers, NEW a \in Offers(total),
         NEW order \in SetToSeqs(Here \cap Managed)
  PROVE  OfferEach(layer, a, order) \in Offers(total)
<1> DEFINE S == Here \cap Managed
           n == Cardinality(S)
           F == [p \in (1..n) \X Offers(total) |-> OfferTo(layer, p[2], order[p[1]])]
           Of(f) == [s \in SUBSET (1..n) |->
                       IF s = {} THEN a
                       ELSE OfferTo(layer, f[s \ {Max(s)}], order[Max(s)])]
           h == CHOOSE f : f = Of(f)
<1>1. n \in Nat /\ order \in [1..n -> S]
  <2>1. IsFiniteSet(S)
    BY FewTracks, FS_Subset
  <2>2. n \in Nat
    BY <2>1, FS_CardinalityType
  <2> QED
    BY <2>2 DEF SetToSeqs
<1>2. DOMAIN order = 1..n /\ \A i \in 1..n : order[i] \in S
  BY <1>1
<1> HIDE DEF n
<1>3. OfferEach(layer, a, order) = h[1..n]
  BY <1>2 DEF OfferEach, FoldLeft, MapThenFoldSet
<1>5. \A b \in Offers(total), u \in S : OfferTo(layer, b, u) \in Offers(total)
  BY OfferToIn
<1>6. F \in [(1..n) \X Offers(total) -> Offers(total)]
  BY <1>2, <1>5
<1>7. PICK g \in [SUBSET (1..n) -> Offers(total)] : \A s \in SUBSET (1..n) :
        g[s] = IF s = {} THEN a ELSE F[<<Max(s), g[s \ {Max(s)}]>>]
  <2> HIDE DEF F
  <2>1. \E g \in [SUBSET (1..n) -> Offers(total)] : SeqFoldOf(g, n, a, F)
    BY <1>1, <1>6, SeqFoldExists
  <2> QED
    BY <2>1 DEF SeqFoldOf
<1>8. g = Of(g)
  <2>1. \A s \in SUBSET (1..n) : s # {} => <<Max(s), g[s \ {Max(s)}]>> \in (1..n) \X Offers(total)
    BY <1>1, LastOf
  <2>2. \A s \in SUBSET (1..n) : g[s] = Of(g)[s]
    BY <1>7, <2>1
  <2>3. Of(g) = [s \in SUBSET (1..n) |-> Of(g)[s]] /\ g = [s \in SUBSET (1..n) |-> g[s]]
    OBVIOUS
  <2> HIDE DEF Of
  <2> QED
    BY ONLY <2>2, <2>3
<1>9. h = Of(h)
  <2> HIDE DEF Of
  <2> QED
    BY <1>8
<1> HIDE DEF h
<1>10. h[{}] \in Offers(total)
  <2>1. h[{}] = Of(h)[{}]
    BY <1>9
  <2> QED
    BY <2>1
<1>11. \A s \in SUBSET (1..n) : s # {} /\ h[s \ {Max(s)}] \in Offers(total) => h[s] \in Offers(total)
  <2> SUFFICES ASSUME NEW s \in SUBSET (1..n), s # {}, h[s \ {Max(s)}] \in Offers(total)
               PROVE  h[s] \in Offers(total)
    OBVIOUS
  <2>1. h[s] = Of(h)[s]
    BY <1>9
  <2>2. h[s] = OfferTo(layer, h[s \ {Max(s)}], order[Max(s)])
    BY <2>1
  <2>3. Max(s) \in 1..n
    BY <1>1, LastOf
  <2> QED
    BY <1>2, <1>5, <2>2, <2>3
<1>12. h[1..n] \in Offers(total)
  BY <1>1, <1>10, <1>11, SeqFoldStays DEF SeqCarries
<1> QED
  BY <1>3, <1>12

\* Each layer is offered in turn.
LEMMA OffersAre ==
  ASSUME AllocatorTypes, NEW total \in Nat, NEW none \in Offers(total),
         NEW order \in SetToSeqs(Here \cap Managed)
  PROVE  FoldLeft(LAMBDA a, layer : OfferEach(layer, a, order), none, Raised) \in Offers(total)
<1>1. PICK n \in Nat : DOMAIN Raised = 1..n /\ \A i \in 1..n : Raised[i] \in Layers
  BY RaisedIs
<1> DEFINE F == [p \in (1..n) \X Offers(total) |-> OfferEach(Raised[p[1]], p[2], order)]
           Of(f) == [s \in SUBSET (1..n) |->
                       IF s = {} THEN none
                       ELSE OfferEach(Raised[Max(s)], f[s \ {Max(s)}], order)]
           h == CHOOSE f : f = Of(f)
<1>3. FoldLeft(LAMBDA a, layer : OfferEach(layer, a, order), none, Raised) = h[1..n]
  BY <1>1 DEF FoldLeft, MapThenFoldSet
<1>5. \A b \in Offers(total), l \in Layers : OfferEach(l, b, order) \in Offers(total)
  BY OfferEachIn
<1>6. F \in [(1..n) \X Offers(total) -> Offers(total)]
  BY <1>1, <1>5
<1>7. PICK g \in [SUBSET (1..n) -> Offers(total)] : \A s \in SUBSET (1..n) :
        g[s] = IF s = {} THEN none ELSE F[<<Max(s), g[s \ {Max(s)}]>>]
  <2> HIDE DEF F
  <2>1. \E g \in [SUBSET (1..n) -> Offers(total)] : SeqFoldOf(g, n, none, F)
    BY <1>6, SeqFoldExists
  <2> QED
    BY <2>1 DEF SeqFoldOf
<1>8. g = Of(g)
  <2>1. \A s \in SUBSET (1..n) : s # {} => <<Max(s), g[s \ {Max(s)}]>> \in (1..n) \X Offers(total)
    BY LastOf
  <2>2. \A s \in SUBSET (1..n) : g[s] = Of(g)[s]
    BY <1>7, <2>1
  <2>3. Of(g) = [s \in SUBSET (1..n) |-> Of(g)[s]] /\ g = [s \in SUBSET (1..n) |-> g[s]]
    OBVIOUS
  <2> HIDE DEF Of
  <2> QED
    BY ONLY <2>2, <2>3
<1>9. h = Of(h)
  <2> HIDE DEF Of
  <2> QED
    BY <1>8
<1> HIDE DEF h
<1>10. h[{}] \in Offers(total)
  <2>1. h[{}] = Of(h)[{}]
    BY <1>9
  <2> QED
    BY <2>1
<1>11. \A s \in SUBSET (1..n) : s # {} /\ h[s \ {Max(s)}] \in Offers(total) => h[s] \in Offers(total)
  <2> SUFFICES ASSUME NEW s \in SUBSET (1..n), s # {}, h[s \ {Max(s)}] \in Offers(total)
               PROVE  h[s] \in Offers(total)
    OBVIOUS
  <2>1. h[s] = Of(h)[s]
    BY <1>9
  <2>2. h[s] = OfferEach(Raised[Max(s)], h[s \ {Max(s)}], order)
    BY <2>1
  <2>3. Max(s) \in 1..n
    BY LastOf
  <2> QED
    BY <1>1, <1>5, <2>2, <2>3
<1>12. h[1..n] \in Offers(total)
  BY <1>10, <1>11, SeqFoldStays DEF SeqCarries
<1> QED
  BY <1>3, <1>12

\* A track is served, or its allocator knows that it is not.
Accounted(x, r, t) == Settled(x, r) \/ (t \in Managed /\ x.deficient)

\* Sharing the channel serves each track, or makes it deficient; managed tracks keep within
\* the channel.
LEMMA AllocateAllIs ==
  ASSUME AllocatorTypes, NEW channel \in Nat, NEW order \in SetToSeqs(Here \cap Managed)
  PROVE  LET ts == AllocateAll(channel, order) IN
         /\ ts \in [Here -> Forwarders] /\ \A t \in Here : Accounted(ts[t], Rate(t), t)
         /\ allowPause /\ Here \subseteq Managed /\ AllFrugal => Usage(ts) <= channel
<1> DEFINE D == Here \ Managed
           optimal == [t \in D |-> AllocateOptimal(videoTracks[t], Rate(t),
                                                   upstream[t].available, FALSE)]
           c == [s \in SUBSET D |-> CHOOSE x \in s : TRUE]
           F == [p \in D \X Nat |-> optimal[p[1]].requested + p[2]]
           Of(f) == [s \in SUBSET D |->
                       IF s = {} THEN 0
                       ELSE optimal[CHOOSE x \in s : TRUE].requested
                              + f[s \ {CHOOSE x \in s : TRUE}]]
           h == CHOOSE f : f = Of(f)
           used == MapThenSumSet(LAMBDA t : optimal[t].requested, DOMAIN optimal)
           left == Max({0, channel - used})
           none == [layers |-> [t \in Here \cap Managed |-> NoLayer], left |-> left]
           offers == FoldLeft(LAMBDA a, layer : OfferEach(layer, a, order), none, Raised)
           ts == AllocateAll(channel, order)
<1> SUFFICES /\ ts \in [Here -> Forwarders] /\ \A t \in Here : Accounted(ts[t], Rate(t), t)
             /\ allowPause /\ Here \subseteq Managed /\ AllFrugal => Usage(ts) <= channel
  OBVIOUS
<1>1. ts = [t \in Here |->
              IF t \notin Managed THEN optimal[t]
              ELSE IF left = 0 /\ allowPause THEN Paused(videoTracks[t], Rate(t))
              ELSE AllocateCommit(videoTracks[t], Rate(t), offers.layers[t])]
  BY DEF AllocateAll
<1>2. \A t \in D : optimal[t] \in Forwarders /\ Settled(optimal[t], Rate(t))
  <2> SUFFICES ASSUME NEW t \in D
               PROVE  optimal[t] \in Forwarders /\ Settled(optimal[t], Rate(t))
    OBVIOUS
  <2>1. optimal[t] = AllocateOptimal(videoTracks[t], Rate(t), upstream[t].available, FALSE)
    OBVIOUS
  <2>2. FALSE \in BOOLEAN /\ t \in Here
    OBVIOUS
  <2>3. PICK d \in BOOLEAN : d = FALSE
    OBVIOUS
  <2>4. LET y == AllocateOptimal(videoTracks[t], Rate(t), upstream[t].available, d) IN
        y \in Forwarders /\ ~y.deficient /\ Settled(y, Rate(t))
    BY <2>2, TypesOfTrack, OptimalSettles
  <2> QED
    BY <2>1, <2>3, <2>4
<1> HIDE DEF ts
<1>3. used = h[D]
  BY DEF MapThenSumSet, MapThenFoldSet
<1> HIDE DEF optimal
<1>4. \A t \in D : optimal[t].requested \in Nat
  BY <1>2 DEF Forwarders
<1>5. IsFiniteSet(D)
  BY FewTracks, FS_Subset
<1>6. \A s \in SUBSET D : s # {} => c[s] \in s /\ c[s] = CHOOSE x \in s : TRUE
  OBVIOUS
<1>7. F \in [D \X Nat -> Nat]
  BY <1>4
<1> HIDE DEF c, D
<1>8. PICK g \in [SUBSET D -> Nat] : \A s \in SUBSET D :
        g[s] = IF s = {} THEN 0 ELSE F[<<c[s], g[s \ {c[s]}]>>]
  <2>1. 0 \in Nat /\ Chooses(c, D)
    BY <1>6 DEF Chooses
  <2> HIDE DEF F
  <2>2. \E g \in [SUBSET D -> Nat] : FoldOf(g, D, 0, F, c)
    BY <1>5, <1>7, <2>1, FoldExists
  <2> QED
    BY <2>2 DEF FoldOf
<1>9. g = Of(g)
  <2>1. \A s \in SUBSET D : s # {} => <<c[s], g[s \ {c[s]}]>> \in D \X Nat
    BY <1>6
  <2>2. \A s \in SUBSET D : g[s] = Of(g)[s]
    BY <1>6, <1>8, <2>1
  <2>3. Of(g) = [s \in SUBSET D |-> Of(g)[s]] /\ g = [s \in SUBSET D |-> g[s]]
    OBVIOUS
  <2> HIDE DEF Of
  <2> QED
    BY ONLY <2>2, <2>3
<1>10. h = Of(h)
  <2> HIDE DEF Of
  <2> QED
    BY <1>9
<1> HIDE DEF h
<1>11. h[{}] \in Nat
  <2>1. h[{}] = Of(h)[{}]
    BY <1>10
  <2> QED
    BY <2>1
<1>12. \A s \in SUBSET D : s # {} /\ h[s \ {c[s]}] \in Nat => h[s] \in Nat
  <2> SUFFICES ASSUME NEW s \in SUBSET D, s # {}, h[s \ {c[s]}] \in Nat PROVE h[s] \in Nat
    OBVIOUS
  <2>1. h[s] = Of(h)[s]
    BY <1>10
  <2>2. h[s] = optimal[c[s]].requested + h[s \ {c[s]}]
    BY <1>6, <2>1
  <2> QED
    BY <1>4, <1>6, <2>2
<1>13. used \in Nat
  <2>1. Chooses(c, D) /\ Carries(h, D, Nat, c)
    BY <1>6, <1>12 DEF Chooses, Carries
  <2>2. h[D] \in Nat
    BY <1>5, <1>11, <2>1, FoldStays
  <2> QED
    BY <1>3, <2>2
<1> HIDE DEF used
<1>14. left \in Nat /\ left <= channel
  <2>1. channel - used \in Int /\ channel - used <= channel /\ 0 <= channel
    BY <1>13
  <2>2. left \in Nat /\ left \in {0, channel - used}
    BY <2>1, NotNegative
  <2> HIDE DEF left
  <2> QED
    BY <2>1, <2>2
<1> HIDE DEF left
<1>15. none \in Offers(left)
  <2>1. Rated(none.layers) \in [Here \cap Managed -> {0}] /\ IsFiniteSet(Here \cap Managed)
    BY LayerIs, FewTracks, FS_Subset DEF Rated, RateOf
  <2>2. Total(Rated(none.layers)) = 0
    BY <2>1, TotalZero
  <2>3. none.layers \in [Here \cap Managed -> Layer] /\ none.left = left
    BY DEF Layer
  <2> QED
    BY <1>14, <2>2, <2>3 DEF Offers
<1> HIDE DEF none
<1>16. offers \in Offers(left)
  BY <1>14, <1>15, OffersAre
<1> HIDE DEF offers
<1>17. ASSUME NEW t \in Here PROVE ts[t] \in Forwarders /\ Accounted(ts[t], Rate(t), t)
  <2>1. videoTracks[t] \in Forwarders /\ Rate(t) \in Bitrates
    BY TypesOfTrack
  <2>2. CASE t \notin Managed
    BY <1>1, <1>2, <2>2 DEF D, Accounted
  <2>3. CASE t \in Managed /\ left = 0 /\ allowPause
    <3>1. ts[t] = Paused(videoTracks[t], Rate(t))
      BY <1>1, <2>3
    <3> QED
      BY <2>1, <2>3, <3>1, PausedSettles DEF Accounted
  <2>4. CASE t \in Managed /\ ~(left = 0 /\ allowPause)
    <3>1. ts[t] = AllocateCommit(videoTracks[t], Rate(t), offers.layers[t])
      BY <1>1, <2>4
    <3>2. offers.layers[t] \in Layer
      BY <1>16, <2>4 DEF Offers
    <3> QED
      BY <2>1, <2>4, <3>1, <3>2, CommitSettles DEF Accounted
  <2> QED
    BY <2>2, <2>3, <2>4
<1>18. ts \in [Here -> Forwarders]
  BY <1>1, <1>17
<1>19. ASSUME allowPause, Here \subseteq Managed, AllFrugal PROVE Usage(ts) <= channel
  <2>1. Usage(ts) = Total(Needs(ts)) /\ Usage(ts) \in Nat /\ Needs(ts) = [t \in Here |-> Needs(ts)[t]]
        /\ \A t \in Here : Needs(ts)[t] = Needed(ts[t], Rate(t))
    BY <1>18, UsageOfTracks
  <2>2. CASE left = 0
    <3>1. ASSUME NEW t \in Here PROVE Needs(ts)[t] = 0
      <4>1. ts[t] = Paused(videoTracks[t], Rate(t))
        BY <1>1, <1>19, <2>2
      <4>2. Needed(Paused(videoTracks[t], Rate(t)), Rate(t)) = 0
        BY TypesOfTrack, PausedNeeds
      <4> QED
        BY <2>1, <4>1, <4>2
    <3>2. Needs(ts) \in [Here -> {0}]
      BY <2>1, <3>1
    <3> QED
      BY <2>1, <3>2, FewTracks, TotalZero
  <2>3. CASE left # 0
    <3>1. ASSUME NEW t \in Here
          PROVE  Needs(ts)[t] = RateOf(offers.layers[t], Rate(t)) /\ Needs(ts)[t] \in Nat
      <4>1. ts[t] = AllocateCommit(videoTracks[t], Rate(t), offers.layers[t])
        BY <1>1, <1>19, <2>3
      <4>2. offers.layers[t] \in Layer /\ Frugal(videoTracks[t], Rate(t))
        BY <1>16, <1>19 DEF Offers, AllFrugal
      <4>3. RateOf(offers.layers[t], Rate(t)) \in Nat
        BY <4>2, TypesOfTrack, RateIs
      <4>4. Needed(AllocateCommit(videoTracks[t], Rate(t), offers.layers[t]), Rate(t))
              = RateOf(offers.layers[t], Rate(t))
        BY <4>2, TypesOfTrack, CommitNeeds
      <4> QED
        BY <2>1, <4>1, <4>3, <4>4
    <3>2. Needs(ts) = Rated(offers.layers)
      <4>1. Here \cap Managed = Here
        BY <1>19
      <4> QED
        BY <2>1, <3>1, <4>1 DEF Rated
    <3>3. Total(Rated(offers.layers)) + offers.left <= left /\ offers.left \in Nat
      BY <1>16, <1>19 DEF Offers
    <3> QED
      BY <1>14, <2>1, <3>2, <3>3
  <2> QED
    BY <2>2, <2>3
<1> QED
  BY <1>17, <1>18, <1>19

\* Whether the queue has an event for a track, or one that adjusts the state.
Awaits(t, q) == \E i \in DOMAIN q : q[i].kind = "track" /\ q[i].track = t
Adjusts(q) == \E i \in DOMAIN q : q[i].kind = "adjust"

\* The inductive invariant: a track is known to the allocator as it is, or is dirty and
\* has an event in the queue.
AllocatorInv ==
  /\ AllocatorTypes
  /\ \A t \in Here : t \in dirty \/ Accounted(videoTracks[t], Rate(t), t)
  /\ \A t \in dirty \cap Here : Awaits(t, queue)
  /\ StateMatches

\* The invariant is enough.
LEMMA Fits == AllocatorInv => StateFits
<1> SUFFICES ASSUME AllocatorInv PROVE StateFits
  OBVIOUS
<1>1. StateMatches
  BY DEF AllocatorInv
<1>2. ASSUME allocatorState = "stable", queue = <<>>, NEW t \in Here
      PROVE  Settled(videoTracks[t], Rate(t))
  <2>1. \A i \in DOMAIN queue : FALSE
    BY <1>2
  <2>2. Deficient(videoTracks) = {}
    BY <1>1, <1>2, <2>1 DEF StateMatches
  <2>3. t \notin dirty
    BY <1>2, <2>1 DEF AllocatorInv, Awaits
  <2>4. Accounted(videoTracks[t], Rate(t), t) /\ t \in DOMAIN videoTracks
    BY <1>2, <2>3 DEF AllocatorInv, Here
  <2> QED
    BY <2>2, <2>4 DEF Accounted, Deficient
<1> QED
  BY <1>1, <1>2 DEF StateFits, StableServes, Settled

----------------------------------------------------------------------------
\* The events that are posted.
LEMMA EventsAre ==
  /\ \A t \in Tracks : AllocateTrack(t) \in EventTypes /\ Resume(t) \in EventTypes
  /\ \A t \in Tracks : AllocateTrack(t).kind = "track" /\ AllocateTrack(t).track = t
  /\ \A k \in {"adjust", "all"} : EventOf(k) \in EventTypes /\ EventOf(k).kind = k
BY DEF AllocateTrack, Resume, EventOf, EventTypes

\* An event that is appended leaves those that were there.
LEMMA Appends ==
  ASSUME NEW q \in Seq(EventTypes), NEW e \in EventTypes
  PROVE  /\ Append(q, e) \in Seq(EventTypes)
         /\ \A t : Awaits(t, q) => Awaits(t, Append(q, e))
         /\ Adjusts(q) => Adjusts(Append(q, e))
         /\ \A t : e.kind = "track" /\ e.track = t => Awaits(t, Append(q, e))
         /\ e.kind = "adjust" => Adjusts(Append(q, e))
<1>1. /\ Append(q, e) \in Seq(EventTypes)
      /\ DOMAIN q = 1..Len(q) /\ DOMAIN Append(q, e) = 1..(Len(q) + 1)
      /\ Len(q) \in Nat
      /\ \A i \in 1..Len(q) : Append(q, e)[i] = q[i]
      /\ Append(q, e)[Len(q) + 1] = e
  BY AppendProperties, LenProperties
<1>2. \A i \in DOMAIN q : i \in DOMAIN Append(q, e) /\ Append(q, e)[i] = q[i]
  BY <1>1
<1>3. Len(q) + 1 \in DOMAIN Append(q, e)
  BY <1>1
<1> QED
  BY <1>1, <1>2, <1>3 DEF Awaits, Adjusts

\* A queue without its head has all others.
LEMMA Taken ==
  ASSUME NEW q \in Seq(EventTypes), q # <<>>
  PROVE  /\ Head(q) \in EventTypes /\ Tail(q) \in Seq(EventTypes)
         /\ \A t : Awaits(t, q) /\ (Head(q).kind = "track" => Head(q).track # t)
                     => Awaits(t, Tail(q))
         /\ Adjusts(q) /\ Head(q).kind # "adjust" => Adjusts(Tail(q))
<1>1. /\ Head(q) \in EventTypes /\ Tail(q) \in Seq(EventTypes)
      /\ DOMAIN q = 1..Len(q) /\ DOMAIN Tail(q) = 1..(Len(q) - 1)
      /\ Len(q) \in Nat /\ Head(q) = q[1]
      /\ \A i \in 1..(Len(q) - 1) : Tail(q)[i] = q[i + 1]
  <2>1. /\ Head(q) \in EventTypes /\ Tail(q) \in Seq(EventTypes)
        /\ Len(Tail(q)) = Len(q) - 1
        /\ \A i \in 1..Len(Tail(q)) : Tail(q)[i] = q[i + 1]
    BY HeadTailProperties
  <2>2. \A s \in Seq(EventTypes) : DOMAIN s = 1..Len(s) /\ Len(s) \in Nat
    BY LenProperties
  <2>3. Head(q) = q[1]
    OBVIOUS
  <2> QED
    BY <2>1, <2>2, <2>3
<1>2. \A i \in DOMAIN q : i # 1 => /\ i - 1 \in DOMAIN Tail(q)
                                   /\ Tail(q)[i - 1] = q[i]
  BY <1>1
<1> QED
  BY <1>1, <1>2 DEF Awaits, Adjusts

\* Which tracks are deficient depends on which there are and whether they are.
LEMMA DeficientSame ==
  ASSUME NEW ts, NEW us, DOMAIN us = DOMAIN ts,
         \A t \in DOMAIN ts : us[t].deficient <=> ts[t].deficient
  PROVE  Deficient(us) = Deficient(ts)
BY DEF Deficient

----------------------------------------------------------------------------
\* A finite set of numbers has a greatest one.
LEMMA GreatestOfFew ==
  ASSUME NEW S \in SUBSET Nat, S # {}, IsFiniteSet(S)
  PROVE  Max(S) \in S
<1> DEFINE R == {p \in S \X S : p[1] >= p[2]}
<1>1. \A a, b \in S : <<a, b>> \in R <=> a >= b
  OBVIOUS
<1> HIDE DEF R
<1>2. \A a, b, c \in Nat : (a >= b /\ b >= c => a >= c) /\ (a >= b \/ b >= a)
  OBVIOUS
<1>3. \A a, b, c \in S : <<a, b>> \in R /\ <<b, c>> \in R => <<a, c>> \in R
  BY <1>1, <1>2
<1>4. \A a, b \in S : a = b \/ <<a, b>> \in R \/ <<b, a>> \in R
  BY <1>1, <1>2
<1>5. \E m \in S : \A k \in S \ {m} : <<m, k>> \in R
  BY <1>3, <1>4, GreatestOf, ZenonT(60)
<1>6. PICK m \in S : \A k \in S \ {m} : m >= k
  BY <1>1, <1>5
<1>7. m >= m
  OBVIOUS
<1>8. \A k \in S : m >= k
  BY <1>6, <1>7
<1> QED
  BY <1>8 DEF Max

\* A new track is not deficient.
LEMMA NewIs == New \in Forwarders /\ ~New.deficient
<1>1. <<MaxSpatial, MaxTemporal>> \in Layers
  BY LayersAssumption DEF Layers
<1>2. -1 \in -1..MaxSpatial
  BY LayersAssumption
<1> QED
  BY <1>1, <1>2 DEF New, Forwarders, Reasons

\* At the start each track has its event.
LEMMA AllocatorStarts == AllocatorInit => AllocatorInv
<1> SUFFICES ASSUME AllocatorInit PROVE AllocatorInv
  OBVIOUS
<1>1. Here = Tracks /\ dirty = Tracks /\ \A t \in Here : videoTracks[t] = New
  BY DEF AllocatorInit, Here
<1>2. New \in Forwarders /\ ~New.deficient
  BY NewIs
<1>3. PICK o \in SetToSeqs(Tracks) : queue = [i \in DOMAIN o |-> AllocateTrack(o[i])]
  BY DEF AllocatorInit
<1> DEFINE n == Cardinality(Tracks)
<1>4. n \in Nat /\ o \in [1..n -> Tracks] /\ \A i, j \in 1..n : i # j => o[i] # o[j]
  <2>1. n \in Nat
    BY AllocatorAssumption, FS_CardinalityType
  <2> QED
    BY <2>1 DEF SetToSeqs
<1>5. \A t \in Tracks : \E i \in 1..n : o[i] = t
  <2>1. o \in Injection(1..n, Tracks)
    BY <1>4 DEF Injection, IsInjective
  <2>2. Cardinality(1..n) = Cardinality(Tracks)
    <3> HIDE DEF n
    <3>1. Cardinality(1..n) = IF 1 > n THEN 0 ELSE n - 1 + 1
      BY <1>4, FS_Interval
    <3>2. Cardinality(1..n) = n
      BY <1>4, <3>1
    <3> QED
      BY <3>2 DEF n
  <2> HIDE DEF n
  <2>3. o \in Surjection(1..n, Tracks)
    BY <2>1, <2>2, AllocatorAssumption, FS_Injection
  <2> QED
    BY <2>3 DEF Surjection
<1> HIDE DEF n
<1>6. queue \in Seq(EventTypes) /\ DOMAIN queue = 1..n
      /\ \A i \in 1..n : queue[i] = AllocateTrack(o[i])
  <2>1. queue = [i \in 1..n |-> AllocateTrack(o[i])]
    BY <1>3, <1>4
  <2>2. \A i \in 1..n : AllocateTrack(o[i]) \in EventTypes
    BY <1>4, EventsAre
  <2>3. queue \in Seq(EventTypes)
    BY <1>4, <2>1, <2>2
  <2> QED
    BY <2>1, <2>3
<1>7. \A t \in Tracks : Awaits(t, queue)
  BY <1>4, <1>5, <1>6, EventsAre DEF Awaits
<1>8. Max(Capacities) \in Capacities
  BY AllocatorAssumption, GreatestOfFew
<1>9. AllocatorTypes
  <2>1. upstream \in [Tracks -> [available : SUBSET (0..MaxSpatial), rate : Bitrates]]
    BY AllocatorAssumption DEF AllocatorInit, Bitrates
  <2>2. capacity \in Nat
    BY <1>8, AllocatorAssumption DEF AllocatorInit
  <2>3. videoTracks \in [Here -> Forwarders]
    BY <1>1, <1>2 DEF AllocatorInit
  <2> QED
    BY <1>1, <1>6, <2>1, <2>2, <2>3 DEF AllocatorInit, AllocatorTypes
<1>10. StateMatches
  <2>1. Deficient(videoTracks) = {}
    BY <1>1, <1>2 DEF Deficient, Here
  <2> QED
    BY <2>1 DEF AllocatorInit, StateMatches
<1> QED
  BY <1>1, <1>7, <1>9, <1>10 DEF AllocatorInv

\* Posting makes a track dirty and gives it an event, if it has none.
LEMMA Posts ==
  ASSUME AllocatorTypes, NEW t \in Tracks, Post(t)
  PROVE  /\ queue' \in Seq(EventTypes) /\ dirty' \subseteq Tracks
         /\ dirty' \in {dirty, dirty \cup {t}} /\ (t \in Here => t \in dirty')
         /\ \A u : Awaits(u, queue) \/ u \in dirty' \ dirty => Awaits(u, queue')
         /\ Adjusts(queue) => Adjusts(queue')
<1>1. queue \in Seq(EventTypes) /\ dirty \subseteq Tracks
  BY DEF AllocatorTypes
<1>2. CASE t \in Here /\ t \notin dirty
  <2>1. dirty' = dirty \cup {t} /\ queue' = Append(queue, AllocateTrack(t))
    BY <1>2 DEF Post
  <2> QED
    BY <1>1, <2>1, EventsAre, Appends
<1>3. CASE ~(t \in Here /\ t \notin dirty)
  <2>1. dirty' = dirty /\ queue' = queue
    BY <1>3 DEF Post
  <2> QED
    BY <1>1, <1>3, <2>1
<1> QED
  BY <1>2, <1>3

\* An event more, or not.
LEMMA PostsOrNot ==
  ASSUME AllocatorTypes, NEW e \in EventTypes, queue' = queue \/ queue' = Append(queue, e)
  PROVE  /\ queue' \in Seq(EventTypes)
         /\ \A u : Awaits(u, queue) => Awaits(u, queue')
         /\ Adjusts(queue) => Adjusts(queue')
<1>1. queue \in Seq(EventTypes)
  BY DEF AllocatorTypes
<1>2. CASE queue' = queue
  BY <1>1, <1>2
<1>3. CASE queue' = Append(queue, e)
  BY <1>1, <1>3, Appends
<1> QED
  BY <1>2, <1>3

\* The invariant after a change, of its parts.
LEMMA ChangeKeeps ==
  ASSUME AllocatorInv, AllocatorTypes', dirty \subseteq dirty', Here' \subseteq Here \cup dirty',
         allocatorState' = allocatorState, Deficient(videoTracks') = Deficient(videoTracks),
         \A u \in Here' \ dirty' : Accounted(videoTracks'[u], upstream'[u].rate, u),
         \A u : Awaits(u, queue) \/ u \in dirty' \ dirty => Awaits(u, queue'),
         \A u \in dirty : u \in Here' => u \in Here,
         Adjusts(queue) => Adjusts(queue')
  PROVE  AllocatorInv'
<1>1. StateMatches'
  BY DEF AllocatorInv, StateMatches, Adjusts
<1>2. \A u \in Here' : u \in dirty' \/ Accounted(videoTracks[u], Rate(u), u)'
  BY DEF Rate
<1>3. \A u \in dirty' \cap Here' : Awaits(u, queue')
  BY DEF AllocatorInv
<1> QED
  BY <1>1, <1>2, <1>3 DEF AllocatorInv

\* A track that is not dirty is accounted for.
LEMMA AccountedBefore ==
  ASSUME AllocatorInv, NEW t \in Here, t \notin dirty
  PROVE  Accounted(videoTracks[t], upstream[t].rate, t)
BY DEF AllocatorInv, Rate

\* The changes from outside, one by one.
LEMMA AddKeeps == ASSUME AllocatorInv, NEW t \in Tracks, AddDownTrack(t) PROVE AllocatorInv'
<1>1. AllocatorTypes
  BY DEF AllocatorInv
<1>2. /\ t \notin Here /\ Here' = Here \cup {t} /\ videoTracks'[t] = New
      /\ \A u \in Here : videoTracks'[u] = videoTracks[u]
      /\ videoTracks' = [u \in Here' |-> videoTracks'[u]]
      /\ dirty' = dirty \cup {t} /\ queue' = Append(queue, AllocateTrack(t))
      /\ upstream' = upstream /\ allocatorState' = allocatorState
      /\ capacity' = capacity /\ congestion' = congestion
  BY DEF AddDownTrack, Here
<1>3. /\ queue' \in Seq(EventTypes)
      /\ \A u : Awaits(u, queue) \/ u \in dirty' \ dirty => Awaits(u, queue')
      /\ Adjusts(queue) => Adjusts(queue')
  BY <1>1, <1>2, EventsAre, Appends DEF AllocatorTypes
<1>4. AllocatorTypes'
  BY <1>1, <1>2, <1>3, NewIs DEF AllocatorTypes
<1>5. Deficient(videoTracks') = Deficient(videoTracks)
  BY <1>2, NewIs DEF Deficient, Here
<1>6. \A u \in Here' \ dirty' : Accounted(videoTracks'[u], upstream'[u].rate, u)
  BY <1>2, AccountedBefore
<1>7. t \notin dirty \/ Awaits(t, queue')
  BY <1>1, <1>2, EventsAre, Appends DEF AllocatorTypes
<1>8. StateMatches'
  BY <1>2, <1>3, <1>5 DEF AllocatorInv, StateMatches, Adjusts
<1>9. \A u \in dirty' \cap Here' : Awaits(u, queue')
  BY <1>2, <1>3, <1>7 DEF AllocatorInv
<1> QED
  BY <1>4, <1>6, <1>8, <1>9 DEF AllocatorInv, Rate

LEMMA RemoveKeeps == ASSUME AllocatorInv, NEW t \in Tracks, RemoveDownTrack(t) PROVE AllocatorInv'
<1>1. AllocatorTypes
  BY DEF AllocatorInv
<1>2. /\ Here' = Here \ {t}
      /\ \A u \in Here' : videoTracks'[u] = videoTracks[u]
      /\ videoTracks' = [u \in Here' |-> videoTracks'[u]]
      /\ dirty' = dirty \ {t} /\ queue' = Append(queue, EventOf("adjust"))
      /\ upstream' = upstream /\ allocatorState' = allocatorState
      /\ capacity' = capacity /\ congestion' = congestion
  BY DEF RemoveDownTrack, Here
<1>3. /\ queue' \in Seq(EventTypes)
      /\ \A u : Awaits(u, queue) => Awaits(u, queue')
      /\ Adjusts(queue')
  BY <1>1, <1>2, EventsAre, Appends DEF AllocatorTypes
<1>4. AllocatorTypes'
  BY <1>1, <1>2, <1>3 DEF AllocatorTypes
<1>5. \A u \in Here' \ dirty' : Accounted(videoTracks'[u], upstream'[u].rate, u)
  BY <1>2, AccountedBefore
<1>6. \A u \in dirty' \cap Here' : Awaits(u, queue')
  BY <1>2, <1>3 DEF AllocatorInv
<1> QED
  BY <1>3, <1>4, <1>5, <1>6 DEF AllocatorInv, StateMatches, Adjusts, Rate

\* What is needed of a feed depends on which of its layers are measured.
LEMMA SameMeasured ==
  ASSUME NEW x, NEW r \in Bitrates, NEW q \in Bitrates,
         \A l \in Layers : (q[l] = 0) <=> (r[l] = 0)
  PROVE  Settled(x, r) <=> Settled(x, q)
<1>1. Measured(Within(x.max), r) = Measured(Within(x.max), q)
  BY WithinLayers DEF Measured
<1> QED
  BY <1>1, OptimalIs DEF Settled

LEMMA FeedKeeps ==
  ASSUME AllocatorInv, NEW t \in Tracks, NEW f \in Upstreams, FeedChanges(t, f)
  PROVE  AllocatorInv'
<1>1. AllocatorTypes
  BY DEF AllocatorInv
<1>2. /\ t \in Here /\ upstream' = [upstream EXCEPT ![t] = f]
      /\ videoTracks' = videoTracks /\ Here' = Here
      /\ allocatorState' = allocatorState
      /\ capacity' = capacity /\ congestion' = congestion
  BY DEF FeedChanges, Here
<1>3. f \in [available : SUBSET (0..MaxSpatial), rate : Bitrates]
  BY AllocatorAssumption DEF Bitrates
<1>4. upstream' \in [Tracks -> [available : SUBSET (0..MaxSpatial), rate : Bitrates]]
      /\ upstream'[t] = f /\ \A u \in Tracks \ {t} : upstream'[u] = upstream[u]
  BY <1>1, <1>2, <1>3 DEF AllocatorTypes
<1>5. CASE Post(t)
  <2>1. AllocatorTypes'
    BY <1>1, <1>2, <1>4, <1>5, Posts DEF AllocatorTypes
  <2>2. \A u \in Here' \ dirty' : Accounted(videoTracks'[u], upstream'[u].rate, u)
    BY <1>1, <1>2, <1>4, <1>5, Posts, AccountedBefore DEF AllocatorTypes
  <2> QED
    BY <1>1, <1>2, <1>5, <2>1, <2>2, Posts, ChangeKeeps
<1>6. CASE ~Post(t)
  <2>1. UNCHANGED <<dirty, queue>> /\ \A l \in Layers : (f.rate[l] = 0) <=> (upstream[t].rate[l] = 0)
    BY <1>6 DEF FeedChanges
  <2>2. AllocatorTypes'
    BY <1>1, <1>2, <1>4, <2>1 DEF AllocatorTypes
  <2>3. \A u \in Here' \ dirty' : Accounted(videoTracks'[u], upstream'[u].rate, u)
    <3>1. SUFFICES ASSUME NEW u \in Here \ dirty
                   PROVE  Accounted(videoTracks[u], upstream'[u].rate, u)
      BY <1>2, <2>1
    <3>2. Accounted(videoTracks[u], upstream[u].rate, u) /\ u \in Tracks
      BY <1>1, AccountedBefore DEF AllocatorTypes
    <3>3. CASE u # t
      BY <1>4, <3>2, <3>3
    <3>4. CASE u = t
      <4>1. upstream[t].rate \in Bitrates /\ f.rate \in Bitrates
        BY <1>1, <1>3 DEF AllocatorTypes
      <4>2. Settled(videoTracks[t], upstream[t].rate) <=> Settled(videoTracks[t], f.rate)
        BY <2>1, <4>1, SameMeasured
      <4> QED
        BY <1>4, <3>2, <3>4, <4>2 DEF Accounted
    <3> QED
      BY <3>3, <3>4
  <2> QED
    BY <1>1, <1>2, <2>1, <2>2, <2>3, ChangeKeeps
<1> QED
  BY <1>5, <1>6

\* A track that changes and is dirty then.
LEMMA OneChanges ==
  ASSUME AllocatorInv, NEW t \in Tracks, t \in Here, Post(t), NEW y \in Forwarders,
         y.deficient <=> videoTracks[t].deficient, videoTracks' = [videoTracks EXCEPT ![t] = y],
         UNCHANGED <<upstream, allocatorState, capacity, congestion>>
  PROVE  AllocatorInv'
<1>1. AllocatorTypes
  BY DEF AllocatorInv
<1>2. /\ Here' = Here /\ videoTracks' \in [Here -> Forwarders] /\ videoTracks'[t] = y
      /\ \A u \in Here \ {t} : videoTracks'[u] = videoTracks[u]
  BY <1>1 DEF AllocatorTypes, Here
<1>3. AllocatorTypes'
  BY <1>1, <1>2, Posts DEF AllocatorTypes
<1>4. Deficient(videoTracks') = Deficient(videoTracks)
  BY <1>2 DEF Deficient, Here
<1>5. \A u \in Here' \ dirty' : Accounted(videoTracks'[u], upstream'[u].rate, u)
  BY <1>1, <1>2, Posts, AccountedBefore
<1> QED
  BY <1>1, <1>2, <1>3, <1>4, <1>5, Posts, ChangeKeeps

LEMMA MutedKeepsInv ==
  ASSUME AllocatorInv, NEW t \in Tracks, NEW muted \in BOOLEAN, NEW pubMuted \in BOOLEAN,
         SetMuted(t, muted, pubMuted)
  PROVE  AllocatorInv'
<1> DEFINE y == Muted(videoTracks[t], muted, pubMuted)
<1>1. /\ t \in Here /\ Post(t) /\ videoTracks' = [videoTracks EXCEPT ![t] = y]
      /\ UNCHANGED <<upstream, allocatorState, capacity, congestion>>
  BY DEF SetMuted
<1>2. y \in Forwarders /\ y.deficient = videoTracks[t].deficient
  BY <1>1, MutedKeeps, TypesOfTrack DEF AllocatorInv
<1> HIDE DEF y
<1> QED
  BY <1>1, <1>2, OneChanges

LEMMA MaxKeepsInv ==
  ASSUME AllocatorInv, NEW t \in Tracks, NEW l \in MaxLayers, SetMax(t, l)
  PROVE  AllocatorInv'
<1> DEFINE y == WithMax(videoTracks[t], l)
<1>1. /\ t \in Here /\ Post(t) /\ videoTracks' = [videoTracks EXCEPT ![t] = y]
      /\ UNCHANGED <<upstream, allocatorState, capacity, congestion>>
  BY DEF SetMax
<1>2. y \in Forwarders /\ (y.deficient <=> videoTracks[t].deficient)
  BY <1>1, AllocatorAssumption, WithMaxKeeps, TypesOfTrack DEF AllocatorInv
<1> HIDE DEF y
<1> QED
  BY <1>1, <1>2, OneChanges

LEMMA PriorityKeeps ==
  ASSUME AllocatorInv, NEW t \in Tracks, NEW n, SetTrackPriority(t, n)
  PROVE  AllocatorInv'
<1>1. AllocatorTypes
  BY DEF AllocatorInv
<1>2. /\ UNCHANGED <<videoTracks, upstream, dirty, allocatorState, capacity, congestion>>
      /\ Here' = Here
      /\ queue' = queue \/ queue' = Append(queue, EventOf("all"))
  BY DEF SetTrackPriority, Here
<1>3. /\ queue' \in Seq(EventTypes)
      /\ \A u : Awaits(u, queue) => Awaits(u, queue')
      /\ Adjusts(queue) => Adjusts(queue')
  <2>1. EventOf("all") \in EventTypes
    BY EventsAre
  <2> QED
    BY <1>1, <1>2, <2>1, PostsOrNot
<1>4. AllocatorTypes'
  BY <1>1, <1>2, <1>3 DEF AllocatorTypes
<1> QED
  BY <1>2, <1>3, <1>4, AccountedBefore, ChangeKeeps

LEMMA KeyFrameKeeps ==
  ASSUME AllocatorInv, NEW t \in Tracks, NEW s \in 0..MaxSpatial, KeyFrame(t, s)
  PROVE  AllocatorInv'
<1> DEFINE y == Selected(videoTracks[t], s)
<1>1. AllocatorTypes
  BY DEF AllocatorInv
<1>2. /\ t \in Here /\ Valid(videoTracks[t].target)
      /\ videoTracks' = [videoTracks EXCEPT ![t] = y]
      /\ UNCHANGED <<upstream, dirty, allocatorState, capacity, congestion>>
      /\ queue' = queue \/ queue' = Append(queue, Resume(t))
  BY DEF KeyFrame, outside
<1>3. y \in Forwarders /\ y.deficient = videoTracks[t].deficient /\ Valid(y.target)
  BY <1>1, <1>2, SelectedKeeps, TypesOfTrack
<1> HIDE DEF y
<1>4. /\ Here' = Here /\ videoTracks' \in [Here -> Forwarders] /\ videoTracks'[t] = y
      /\ \A u \in Here \ {t} : videoTracks'[u] = videoTracks[u]
  BY <1>1, <1>2, <1>3 DEF AllocatorTypes, Here
<1>5. /\ queue' \in Seq(EventTypes)
      /\ \A u : Awaits(u, queue) => Awaits(u, queue')
      /\ Adjusts(queue) => Adjusts(queue')
  <2>1. Resume(t) \in EventTypes
    BY EventsAre
  <2> QED
    BY <1>1, <1>2, <2>1, PostsOrNot
<1>6. AllocatorTypes'
  BY <1>1, <1>2, <1>4, <1>5 DEF AllocatorTypes
<1>7. Deficient(videoTracks') = Deficient(videoTracks)
  BY <1>3, <1>4 DEF Deficient, Here
<1>8. \A u \in Here' \ dirty' : Accounted(videoTracks'[u], upstream'[u].rate, u)
  BY <1>2, <1>3, <1>4, AccountedBefore DEF Accounted, Settled
<1> QED
  BY <1>2, <1>4, <1>5, <1>6, <1>7, <1>8, ChangeKeeps

LEMMA CongestionKeeps ==
  ASSUME AllocatorInv, NEW to \in {"none", "early", "congested"}, NEW value \in Capacities,
         CongestionChanges(to, value)
  PROVE  AllocatorInv'
<1> DEFINE e == [EventOf("congestion") EXCEPT !.from = congestion, !.to = to, !.value = value]
<1>1. AllocatorTypes
  BY DEF AllocatorInv
<1>2. /\ UNCHANGED <<videoTracks, upstream, dirty, allocatorState, capacity>>
      /\ Here' = Here /\ congestion' = to /\ queue' = Append(queue, e)
  BY DEF CongestionChanges, Here
<1>3. e \in EventTypes
  BY <1>1 DEF EventOf, EventTypes, AllocatorTypes
<1> HIDE DEF e
<1>4. /\ queue' \in Seq(EventTypes)
      /\ \A u : Awaits(u, queue) => Awaits(u, queue')
      /\ Adjusts(queue) => Adjusts(queue')
  BY <1>1, <1>2, <1>3, Appends DEF AllocatorTypes
<1>5. AllocatorTypes'
  BY <1>1, <1>2, <1>4 DEF AllocatorTypes
<1> QED
  BY <1>2, <1>4, <1>5, AccountedBefore, ChangeKeeps

\* What a handler takes from the queue.
LEMMA Handled ==
  ASSUME AllocatorTypes, NEW kind, HandleEvent(kind)
  PROVE  /\ Head(queue) \in EventTypes /\ Head(queue).kind = kind
         /\ queue' \in Seq(EventTypes)
         /\ \A u : Awaits(u, queue) /\ (kind # "track" \/ Head(queue).track # u)
                     => Awaits(u, queue')
         /\ kind # "adjust" /\ Adjusts(queue) => Adjusts(queue')
<1>1. queue \in Seq(EventTypes) /\ queue # <<>> /\ Head(queue).kind = kind /\ queue' = Tail(queue)
  BY DEF AllocatorTypes, HandleEvent
<1> QED
  BY <1>1, Taken

\* The invariant after a handler that yields ts and adjusts the state.
LEMMA AdjustedKeeps ==
  ASSUME AllocatorInv, NEW ts \in [Here -> Forwarders], videoTracks' = ts,
         allocatorState' = IF Deficient(ts) # {} THEN "deficient" ELSE "stable",
         congestion' \in {"none", congestion}, upstream' = upstream, capacity' \in Nat,
         queue' \in Seq(EventTypes), dirty' \subseteq dirty,
         \A u \in Here : u \in dirty' \/ Accounted(ts[u], upstream[u].rate, u),
         \A u \in dirty' \cap Here : Awaits(u, queue')
  PROVE  AllocatorInv'
<1>1. Here' = Here
  BY DEF Here
<1>2. AllocatorTypes'
  BY <1>1 DEF AllocatorInv, AllocatorTypes
<1>3. StateMatches'
  BY DEF StateMatches
<1> QED
  BY <1>1, <1>2, <1>3 DEF AllocatorInv, Rate

\* The invariant after a handler that leaves the state as it is.
LEMMA SameStateKeeps ==
  ASSUME AllocatorInv, NEW ts \in [Here -> Forwarders], videoTracks' = ts,
         Deficient(ts) = Deficient(videoTracks) \/ (allocatorState = "stable" /\ Deficient(ts) = {})
           \/ (allocatorState = "stable" /\ Deficient(ts) \subseteq Deficient(videoTracks)),
         UNCHANGED <<allocatorState, congestion, upstream, capacity>>,
         queue' \in Seq(EventTypes), dirty' \subseteq dirty,
         Adjusts(queue) => Adjusts(queue'),
         \A u \in Here : u \in dirty' \/ Accounted(ts[u], upstream[u].rate, u),
         \A u \in dirty' \cap Here : Awaits(u, queue')
  PROVE  AllocatorInv'
<1>1. Here' = Here
  BY DEF Here
<1>2. AllocatorTypes'
  BY <1>1 DEF AllocatorInv, AllocatorTypes
<1>3. StateMatches'
  <2>1. \/ (allocatorState = "deficient") <=> (Deficient(videoTracks) # {})
        \/ Adjusts(queue)
    BY DEF AllocatorInv, StateMatches, Adjusts
  <2>2. \/ (allocatorState' = "deficient") <=> (Deficient(videoTracks') # {})
        \/ Adjusts(queue')
    BY <2>1
  <2> QED
    BY <2>2 DEF StateMatches, Adjusts
<1> QED
  BY <1>1, <1>2, <1>3 DEF AllocatorInv, Rate

\* The handlers, one by one.
LEMMA GoneKeeps == ASSUME AllocatorInv, HandleGone PROVE AllocatorInv'
<1> DEFINE t == Head(queue).track
<1>1. AllocatorTypes
  BY DEF AllocatorInv
<1>2. PICK kind \in {"track", "resume"} : HandleEvent(kind)
  BY DEF HandleGone
<1>3. /\ t \notin Here /\ dirty' = dirty \ {t}
      /\ UNCHANGED <<videoTracks, upstream, allocatorState, capacity, congestion>>
  BY DEF HandleGone, Gone, outside
<1>4. videoTracks \in [Here -> Forwarders] /\ videoTracks' = videoTracks
  BY <1>1, <1>3 DEF AllocatorTypes
<1>5. \A u \in Here : u \in dirty' \/ Accounted(videoTracks[u], upstream[u].rate, u)
  BY <1>3, AccountedBefore
<1>6. \A u \in dirty' \cap Here : Awaits(u, queue')
  BY <1>1, <1>2, <1>3, Handled DEF AllocatorInv
<1>7. queue' \in Seq(EventTypes) /\ (Adjusts(queue) => Adjusts(queue'))
  BY <1>1, <1>2, Handled
<1> QED
  BY <1>3, <1>4, <1>5, <1>6, <1>7, SameStateKeeps

\* The event of a track, which is dirty no more.
LEMMA TrackEvent ==
  ASSUME AllocatorInv, HandleEvent("track"), ~Gone, dirty' = dirty \ {Head(queue).track}
  PROVE  /\ Head(queue).track \in Here /\ queue' \in Seq(EventTypes)
         /\ Adjusts(queue) => Adjusts(queue')
         /\ \A u \in dirty' \cap Here : Awaits(u, queue')
         /\ \A u \in Here \ {Head(queue).track} :
              u \in dirty' \/ Accounted(videoTracks[u], upstream[u].rate, u)
<1>1. AllocatorTypes
  BY DEF AllocatorInv
<1> QED
  BY <1>1, Handled, AccountedBefore DEF Gone, AllocatorInv

LEMMA FreeKeeps == ASSUME AllocatorInv, HandleFree PROVE AllocatorInv'
<1> DEFINE t == Head(queue).track
           y == AllocateOptimal(videoTracks[t], Rate(t), upstream[t].available,
                                congestion = "early")
           ts == [videoTracks EXCEPT ![t] = y]
<1>1. AllocatorTypes
  BY DEF AllocatorInv
<1>2. /\ HandleEvent("track") /\ ~Gone /\ dirty' = dirty \ {t} /\ Free(t)
      /\ videoTracks' = ts
      /\ UNCHANGED <<allocatorState, congestion, upstream, capacity>>
  BY DEF HandleFree, SameState, outside
<1>3. t \in Here
  BY <1>2, TrackEvent
<1>4. y \in Forwarders /\ ~y.deficient /\ Settled(y, Rate(t))
  <2>1. PICK d \in BOOLEAN : d = (congestion = "early")
    OBVIOUS
  <2>2. LET z == AllocateOptimal(videoTracks[t], Rate(t), upstream[t].available, d) IN
        z \in Forwarders /\ ~z.deficient /\ Settled(z, Rate(t))
    BY <1>1, <1>3, TypesOfTrack, OptimalSettles
  <2> QED
    BY <2>1, <2>2
<1> HIDE DEF y
<1>5. /\ ts \in [Here -> Forwarders] /\ ts[t] = y
      /\ \A u \in Here \ {t} : ts[u] = videoTracks[u]
  BY <1>1, <1>3, <1>4 DEF AllocatorTypes
<1> HIDE DEF ts
<1>6. \/ Deficient(ts) = Deficient(videoTracks)
      \/ allocatorState = "stable" /\ Deficient(ts) \subseteq Deficient(videoTracks)
  BY <1>2, <1>3, <1>4, <1>5 DEF Deficient, Free, Here
<1>7. \A u \in Here : u \in dirty' \/ Accounted(ts[u], upstream[u].rate, u)
  BY <1>2, <1>4, <1>5, TrackEvent DEF Accounted, Rate
<1> QED
  BY <1>2, <1>5, <1>6, <1>7, TrackEvent, SameStateKeeps

LEMMA GivesBackKeeps == ASSUME AllocatorInv, HandleGivesBack PROVE AllocatorInv'
<1> DEFINE t == Head(queue).track
           p == CooperativeLayer(videoTracks[t], Rate(t))
           y == AllocateCommit(videoTracks[t], Rate(t), p)
           ts == [videoTracks EXCEPT ![t] = y]
<1>1. AllocatorTypes
  BY DEF AllocatorInv
<1>2. /\ HandleEvent("track") /\ ~Gone /\ dirty' = dirty \ {t} /\ ~Free(t)
      /\ \E us \in Boost(ts, capacity) : AdjustState(us)
      /\ UNCHANGED <<upstream, capacity>>
  BY DEF HandleGivesBack, outside
<1>3. t \in Here /\ t \in Managed
  BY <1>2, TrackEvent DEF Free
<1>4. y \in Forwarders /\ Accounted(y, Rate(t), t)
  BY <1>1, <1>3, TypesOfTrack, CooperativeIn, CommitSettles DEF Accounted
<1> HIDE DEF y
<1>5. /\ ts \in [Here -> Forwarders] /\ ts[t] = y
      /\ \A u \in Here \ {t} : ts[u] = videoTracks[u]
  BY <1>1, <1>3, <1>4 DEF AllocatorTypes
<1> HIDE DEF ts
<1>6. PICK us \in Boost(ts, capacity) : AdjustState(us)
  BY <1>2
<1>7. us \in Boosts(ts)
  BY <1>1, <1>5, BoostIs DEF AllocatorTypes
<1>8. /\ us \in [Here -> Forwarders]
      /\ \A u \in Here : us[u] = ts[u] \/ Settled(us[u], upstream[u].rate)
  BY <1>7 DEF Boosts, Rate
<1>9. \A u \in Here : u \in dirty' \/ Accounted(us[u], upstream[u].rate, u)
  BY <1>2, <1>4, <1>5, <1>8, TrackEvent DEF Accounted, Rate
<1>10. /\ videoTracks' = us
       /\ allocatorState' = IF Deficient(us) # {} THEN "deficient" ELSE "stable"
       /\ congestion' \in {"none", congestion}
  BY <1>6 DEF AdjustState
<1>11. capacity' \in Nat
  BY <1>1, <1>2 DEF AllocatorTypes
<1> QED
  BY <1>2, <1>8, <1>9, <1>10, <1>11, TrackEvent, AdjustedKeeps

LEMMA NothingKeeps == ASSUME AllocatorInv, HandleNothing PROVE AllocatorInv'
<1> DEFINE t == Head(queue).track
<1>1. AllocatorTypes
  BY DEF AllocatorInv
<1>2. /\ HandleEvent("track") /\ ~Gone /\ dirty' = dirty \ {t}
      /\ CooperativeLayer(videoTracks[t], Rate(t)) = videoTracks[t].target
      /\ UNCHANGED <<videoTracks, upstream, allocatorState, capacity, congestion>>
  BY DEF HandleNothing, outside
<1>3. t \in Here
  BY <1>2, TrackEvent
<1>4. Settled(videoTracks[t], Rate(t))
  BY <1>1, <1>2, <1>3, TypesOfTrack, CooperativeIn
<1>5. videoTracks \in [Here -> Forwarders] /\ videoTracks' = videoTracks
  BY <1>1, <1>2 DEF AllocatorTypes
<1>6. \A u \in Here : u \in dirty' \/ Accounted(videoTracks[u], upstream[u].rate, u)
  BY <1>2, <1>4, TrackEvent DEF Accounted, Rate
<1> QED
  BY <1>2, <1>5, <1>6, TrackEvent, SameStateKeeps

LEMMA FitsKeeps == ASSUME AllocatorInv, NEW t \in Tracks, HandleFits(t) PROVE AllocatorInv'
<1> DEFINE y == AllocateCommit(videoTracks[t], Rate(t), Fitting(t).layer)
           us == [videoTracks EXCEPT ![t] = y]
           ts == IF Above(Fitting(t).best, videoTracks[t].target) THEN us ELSE videoTracks
<1>1. AllocatorTypes
  BY DEF AllocatorInv
<1>2. /\ HandleEvent("track") /\ ~Gone /\ t = Head(queue).track /\ dirty' = dirty \ {t}
      /\ ~Free(t) /\ Valid(Fitting(t).best) /\ AdjustState(ts)
      /\ UNCHANGED <<upstream, capacity>>
  BY DEF HandleFits, NeedsMore, outside
<1>3. t \in Here /\ t \in Managed
  BY <1>2, TrackEvent DEF Free
<1>4. y \in Forwarders /\ Accounted(y, Rate(t), t)
  BY <1>1, <1>3, TypesOfTrack, FittingIs, CommitSettles DEF Accounted
<1> HIDE DEF y
<1>5. /\ us \in [Here -> Forwarders] /\ us[t] = y
      /\ \A u \in Here \ {t} : us[u] = videoTracks[u]
  BY <1>1, <1>3, <1>4 DEF AllocatorTypes
<1> HIDE DEF us
<1>6. /\ ts \in [Here -> Forwarders] /\ Accounted(ts[t], Rate(t), t)
      /\ \A u \in Here \ {t} : ts[u] = videoTracks[u]
  <2>1. CASE Above(Fitting(t).best, videoTracks[t].target)
    BY <1>4, <1>5, <2>1
  <2>2. CASE ~Above(Fitting(t).best, videoTracks[t].target)
    <3>1. videoTracks[t].target \in Layer /\ Fitting(t).best \in Layers
      <4>1. Fitting(t).best \in Layer
        BY FittingIs
      <4>2. Fitting(t).best \in Layers
        BY <1>2, <4>1, LayerIs
      <4> QED
        BY <1>1, <1>3, <4>2, TypesOfTrack DEF Forwarders, Layer
    <3>2. Valid(videoTracks[t].target)
      BY <2>2, <3>1, LayerIs, LayersAssumption DEF Above, Layer
    <3> QED
      BY <1>1, <2>2, <3>2 DEF AllocatorTypes, Accounted, Settled
  <2> QED
    BY <2>1, <2>2
<1> HIDE DEF ts
<1>7. \A u \in Here : u \in dirty' \/ Accounted(ts[u], upstream[u].rate, u)
  BY <1>2, <1>6, TrackEvent DEF Rate
<1>8. /\ videoTracks' = ts
      /\ allocatorState' = IF Deficient(ts) # {} THEN "deficient" ELSE "stable"
      /\ congestion' \in {"none", congestion}
  BY <1>2 DEF AdjustState
<1>9. capacity' \in Nat
  BY <1>1, <1>2 DEF AllocatorTypes
<1> QED
  BY <1>2, <1>6, <1>7, <1>8, <1>9, TrackEvent, AdjustedKeeps

LEMMA RedistributesKeeps ==
  ASSUME AllocatorInv, NEW t \in Tracks, HandleRedistributes(t)
  PROVE  AllocatorInv'
<1> DEFINE S == (Here \cap Managed) \ {t}
           p == CooperativeLayer(videoTracks[t], Rate(t))
           need == Delta(videoTracks[t], Rate(t), p)
           gifts(order) == Contributors(order, need)
           enough(order) == gifts(order).sum >= need
           from(order) == IF enough(order) THEN gifts(order).from ELSE {}
           after(order) ==
             [u \in Here |->
                LET x == videoTracks[u] IN
                IF u = t
                THEN IF enough(order) \/ ~allowPause THEN AllocateCommit(x, Rate(u), p)
                     ELSE Paused(x, Rate(u))
                ELSE IF u \in from(order)
                THEN AllocateCommit(x, Rate(u), BestWeighted(x, Rate(u)).layer)
                ELSE x]
<1>1. AllocatorTypes
  BY DEF AllocatorInv
<1>2. /\ HandleEvent("track") /\ ~Gone /\ t = Head(queue).track /\ dirty' = dirty \ {t}
      /\ ~Free(t)
      /\ UNCHANGED <<upstream, capacity>>
  BY DEF HandleRedistributes, NeedsMore, outside
<1>3. t \in Here /\ t \in Managed
  BY <1>2, TrackEvent DEF Free
<1>4. PICK order \in SortedRising(S) : AdjustState(after(order))
  BY DEF HandleRedistributes
<1>5. from(order) \in SUBSET S
  <2>1. order \in SetToSeqs(S) /\ S \in SUBSET Here
    BY DEF SortedRising
  <2> HIDE DEF S, need
  <2>2. gifts(order).from \in SUBSET S
    BY <1>1, <2>1, ContributorsAre
  <2> QED
    BY <2>2
<1>6. p \in Layer
  BY <1>1, <1>3, TypesOfTrack, CooperativeIn
<1> DEFINE ts == after(order)
           E == enough(order)
           G == from(order)
<1>7. /\ ts = [u \in Here |-> ts[u]]
      /\ ts[t] = IF E \/ ~allowPause THEN AllocateCommit(videoTracks[t], Rate(t), p)
                 ELSE Paused(videoTracks[t], Rate(t))
      /\ \A u \in Here \ {t} :
           ts[u] = IF u \in G
                   THEN AllocateCommit(videoTracks[u], Rate(u),
                                       BestWeighted(videoTracks[u], Rate(u)).layer)
                   ELSE videoTracks[u]
  BY <1>3
<1>8. AdjustState(ts) /\ G \subseteq Managed
  BY <1>4, <1>5
<1> HIDE DEF ts, E, G, p
<1>9. ts[t] \in Forwarders /\ Accounted(ts[t], Rate(t), t)
  <2>1. videoTracks[t] \in Forwarders /\ Rate(t) \in Bitrates
    BY <1>1, <1>3, TypesOfTrack
  <2>2. CASE E \/ ~allowPause
    <3>1. ts[t] = AllocateCommit(videoTracks[t], Rate(t), p)
      BY <1>7, <2>2
    <3> QED
      BY <1>3, <1>6, <2>1, <3>1, CommitSettles DEF Accounted
  <2>3. CASE ~(E \/ ~allowPause)
    <3>1. ts[t] = Paused(videoTracks[t], Rate(t))
      BY <1>7, <2>3
    <3> QED
      BY <1>3, <2>1, <3>1, PausedSettles DEF Accounted
  <2> QED
    BY <2>2, <2>3
<1>10. ASSUME NEW u \in Here \ {t}
       PROVE  /\ ts[u] \in Forwarders
              /\ ts[u] = videoTracks[u] \/ Accounted(ts[u], Rate(u), u)
  <2>1. videoTracks[u] \in Forwarders /\ Rate(u) \in Bitrates
    BY <1>1, TypesOfTrack
  <2>2. CASE u \in G
    <3>1. ts[u] = AllocateCommit(videoTracks[u], Rate(u),
                                 BestWeighted(videoTracks[u], Rate(u)).layer)
      BY <1>7, <2>2
    <3>2. u \in Managed /\ BestWeighted(videoTracks[u], Rate(u)).layer \in Layer
      BY <1>8, <2>1, <2>2, BestWeightedIn
    <3> QED
      BY <2>1, <3>1, <3>2, CommitSettles DEF Accounted
  <2>3. CASE u \notin G
    BY <1>7, <2>1, <2>3
  <2> QED
    BY <2>2, <2>3
<1>11. ts \in [Here -> Forwarders]
  BY <1>7, <1>9, <1>10
<1>12. \A u \in Here : u \in dirty' \/ Accounted(ts[u], upstream[u].rate, u)
  BY <1>2, <1>9, <1>10, TrackEvent DEF Rate
<1>13. /\ videoTracks' = ts
       /\ allocatorState' = IF Deficient(ts) # {} THEN "deficient" ELSE "stable"
       /\ congestion' \in {"none", congestion}
  BY <1>8 DEF AdjustState
<1>14. capacity' \in Nat
  BY <1>1, <1>2 DEF AllocatorTypes
<1> QED
  BY <1>2, <1>11, <1>12, <1>13, <1>14, TrackEvent, AdjustedKeeps

\* Sharing the channel anew.
LEMMA SharesKeeps ==
  ASSUME AllocatorInv, NEW channel \in Nat, AllocateAllTracks(channel), NEW kind,
         HandleEvent(kind), kind # "track", upstream' = upstream, capacity' \in Nat, dirty' = dirty
  PROVE  AllocatorInv'
<1>1. AllocatorTypes
  BY DEF AllocatorInv
<1>2. PICK order \in Sorted(Here \cap Managed) : AdjustState(AllocateAll(channel, order))
  BY DEF AllocateAllTracks
<1> DEFINE ts == AllocateAll(channel, order)
<1>3. ts \in [Here -> Forwarders] /\ \A u \in Here : Accounted(ts[u], Rate(u), u)
  <2>1. order \in SetToSeqs(Here \cap Managed) /\ channel \in Nat
    BY DEF Sorted
  <2> QED
    BY <1>1, <2>1, AllocateAllIs
<1>4. /\ videoTracks' = ts
      /\ allocatorState' = IF Deficient(ts) # {} THEN "deficient" ELSE "stable"
      /\ congestion' \in {"none", congestion}
  BY <1>2 DEF AdjustState
<1> HIDE DEF ts
<1>5. queue' \in Seq(EventTypes) /\ \A u \in dirty' \cap Here : Awaits(u, queue')
  BY <1>1, Handled DEF AllocatorInv
<1>6. \A u \in Here : u \in dirty' \/ Accounted(ts[u], upstream[u].rate, u)
  BY <1>3 DEF Rate
<1> QED
  BY <1>3, <1>4, <1>5, <1>6, AdjustedKeeps

\* A handler that changes no track, and not the state.
LEMMA IdleKeeps ==
  ASSUME AllocatorInv, NEW kind, HandleEvent(kind), kind \notin {"track", "adjust"},
         UNCHANGED <<videoTracks, upstream, dirty, allocatorState, capacity, congestion>>
  PROVE  AllocatorInv'
<1>1. AllocatorTypes
  BY DEF AllocatorInv
<1>2. videoTracks \in [Here -> Forwarders] /\ videoTracks' = videoTracks
  BY <1>1 DEF AllocatorTypes
<1>3. /\ queue' \in Seq(EventTypes) /\ (Adjusts(queue) => Adjusts(queue'))
      /\ \A u \in dirty' \cap Here : Awaits(u, queue')
  BY <1>1, Handled DEF AllocatorInv
<1>4. \A u \in Here : u \in dirty' \/ Accounted(videoTracks[u], upstream[u].rate, u)
  BY AccountedBefore
<1> QED
  BY <1>2, <1>3, <1>4, SameStateKeeps

LEMMA AllKeeps == ASSUME AllocatorInv, HandleAll PROVE AllocatorInv'
<1>1. HandleEvent("all") /\ UNCHANGED <<upstream, dirty, capacity>> /\ capacity \in Nat
  BY DEF HandleAll, outside, AllocatorInv, AllocatorTypes
<1>2. CASE allocatorState = "deficient"
  <2>1. AllocateAllTracks(capacity) /\ capacity' \in Nat
    BY <1>1, <1>2 DEF HandleAll
  <2> QED
    BY <1>1, <2>1, SharesKeeps
<1>3. CASE allocatorState # "deficient"
  <2>1. UNCHANGED <<videoTracks, allocatorState, congestion>>
    BY <1>3 DEF HandleAll
  <2> QED
    BY <1>1, <2>1, IdleKeeps
<1> QED
  BY <1>2, <1>3

LEMMA AdjustKeeps == ASSUME AllocatorInv, HandleAdjust PROVE AllocatorInv'
<1>1. AllocatorTypes
  BY DEF AllocatorInv
<1>2. HandleEvent("adjust") /\ AdjustState(videoTracks) /\ UNCHANGED <<upstream, dirty, capacity>>
  BY DEF HandleAdjust, outside
<1>3. queue' \in Seq(EventTypes) /\ \A u \in dirty' \cap Here : Awaits(u, queue')
  BY <1>1, <1>2, Handled DEF AllocatorInv
<1>4. \A u \in Here : u \in dirty' \/ Accounted(videoTracks[u], upstream[u].rate, u)
  BY <1>2, AccountedBefore
<1>5. /\ videoTracks \in [Here -> Forwarders] /\ videoTracks' = videoTracks /\ capacity' \in Nat
      /\ allocatorState' = IF Deficient(videoTracks) # {} THEN "deficient" ELSE "stable"
      /\ congestion' \in {"none", congestion}
  BY <1>1, <1>2 DEF AdjustState, AllocatorTypes
<1> QED
  BY <1>2, <1>3, <1>4, <1>5, AdjustedKeeps

LEMMA ResumeKeeps == ASSUME AllocatorInv, HandleResume PROVE AllocatorInv'
<1>1. /\ HandleEvent("resume")
      /\ UNCHANGED <<videoTracks, upstream, dirty, allocatorState, capacity, congestion>>
  BY DEF HandleResume, outside
<1> QED
  BY <1>1, IdleKeeps

LEMMA ClearKeeps == ASSUME AllocatorInv, HandleClear PROVE AllocatorInv'
<1> DEFINE optimal == [t \in Here |-> AllocateOptimal(videoTracks[t], Rate(t),
                                                      upstream[t].available, FALSE)]
<1>1. AllocatorTypes
  BY DEF AllocatorInv
<1>2. /\ HandleEvent("congestion")
      /\ videoTracks' = IF Released(Head(queue)) THEN optimal ELSE videoTracks
      /\ UNCHANGED <<upstream, dirty, allocatorState, capacity, congestion>>
  BY DEF HandleClear, SameState, outside
<1>3. CASE Released(Head(queue))
  <2>1. ASSUME NEW t \in Here
        PROVE  /\ optimal[t] \in Forwarders /\ ~optimal[t].deficient
               /\ Settled(optimal[t], Rate(t))
    <3>1. PICK d \in BOOLEAN : d = FALSE
      OBVIOUS
    <3>2. LET y == AllocateOptimal(videoTracks[t], Rate(t), upstream[t].available, d) IN
          y \in Forwarders /\ ~y.deficient /\ Settled(y, Rate(t))
      BY <1>1, TypesOfTrack, OptimalSettles
    <3> QED
      BY <3>1, <3>2
  <2>2. DOMAIN optimal = Here /\ optimal \in [Here -> Forwarders]
    BY <2>1
  <2>3. videoTracks' = optimal /\ allocatorState = "stable"
    BY <1>2, <1>3 DEF Released
  <2> HIDE DEF optimal
  <2>4. Deficient(optimal) = {}
    BY <2>1, <2>2 DEF Deficient
  <2>5. \A u \in Here : u \in dirty' \/ Accounted(optimal[u], upstream[u].rate, u)
    BY <2>1 DEF Accounted, Rate
  <2>6. /\ queue' \in Seq(EventTypes) /\ (Adjusts(queue) => Adjusts(queue'))
        /\ \A u \in dirty' \cap Here : Awaits(u, queue')
    BY <1>1, <1>2, Handled DEF AllocatorInv
  <2> QED
    BY <1>2, <2>2, <2>3, <2>4, <2>5, <2>6, SameStateKeeps
<1>4. CASE ~Released(Head(queue))
  BY <1>2, <1>4, IdleKeeps
<1> QED
  BY <1>3, <1>4

LEMMA CongestedKeeps == ASSUME AllocatorInv, HandleCongested PROVE AllocatorInv'
<1>1. /\ HandleEvent("congestion") /\ capacity' = Head(queue).value
      /\ AllocateAllTracks(Head(queue).value) /\ UNCHANGED <<upstream, dirty>>
  BY DEF HandleCongested, outside
<1>2. Head(queue).value \in Nat
  <2>1. Head(queue) \in EventTypes
    BY <1>1, Handled DEF AllocatorInv
  <2>2. Head(queue).value \in Capacities \cup {0}
    BY <2>1 DEF EventTypes
  <2>3. \A n \in Capacities \cup {0} : n \in Nat
    BY AllocatorAssumption
  <2> QED
    BY ONLY <2>2, <2>3
<1> QED
  BY <1>1, <1>2, SharesKeeps

LEMMA ProbeKeeps ==
  ASSUME AllocatorInv, NEW value \in Capacities, FinalizeProbe(value)
  PROVE  AllocatorInv'
<1>1. AllocatorTypes
  BY DEF AllocatorInv
<1>2. UNCHANGED <<upstream, dirty, queue>> /\ congestion' = "none"
  BY DEF FinalizeProbe, outside
<1>3. videoTracks \in [Here -> Forwarders] /\ capacity \in Nat /\ queue' \in Seq(EventTypes)
  BY <1>1, <1>2 DEF AllocatorTypes
<1>4. \A u \in dirty' \cap Here : Awaits(u, queue')
  BY <1>2 DEF AllocatorInv
<1> DEFINE channel == Max({capacity, value})
<1>5. channel \in Nat
  <2>1. value \in Nat
    BY AllocatorAssumption
  <2>2. \E x \in {capacity, value} : \A y \in {capacity, value} : x >= y
    BY <1>3, <2>1
  <2>3. channel \in {capacity, value}
    BY <2>2 DEF Max
  <2> QED
    BY <1>3, <2>1, <2>3
<1>6. \/ /\ UNCHANGED <<videoTracks, allocatorState>> /\ capacity' \in {capacity, channel}
      \/ /\ capacity' = channel
         /\ \E us \in Boost(videoTracks, channel) :
              /\ videoTracks' = us
              /\ allocatorState' = IF Deficient(us) # {} THEN "deficient" ELSE "stable"
  BY DEF FinalizeProbe
<1> HIDE DEF channel
<1>7. CASE UNCHANGED <<videoTracks, allocatorState>> /\ capacity' \in {capacity, channel}
  <2>1. Here' = Here
    BY <1>7 DEF Here
  <2>2. AllocatorTypes'
    BY <1>1, <1>2, <1>3, <1>5, <1>7, <2>1 DEF AllocatorTypes
  <2> QED
    BY <1>2, <1>7, <2>1, <2>2 DEF AllocatorInv, StateMatches, Rate
<1>8. CASE /\ capacity' = channel
           /\ \E us \in Boost(videoTracks, channel) :
                /\ videoTracks' = us
                /\ allocatorState' = IF Deficient(us) # {} THEN "deficient" ELSE "stable"
  <2>1. PICK us \in Boost(videoTracks, channel) :
          /\ videoTracks' = us
          /\ allocatorState' = IF Deficient(us) # {} THEN "deficient" ELSE "stable"
    BY <1>8
  <2>2. us \in Boosts(videoTracks)
    BY <1>1, <1>3, <1>5, BoostIs
  <2>3. /\ us \in [Here -> Forwarders]
        /\ \A u \in Here : us[u] = videoTracks[u] \/ Settled(us[u], upstream[u].rate)
    BY <2>2 DEF Boosts, Rate
  <2>4. \A u \in Here : u \in dirty' \/ Accounted(us[u], upstream[u].rate, u)
    BY <1>2, <2>3, AccountedBefore DEF Accounted
  <2> QED
    BY <1>2, <1>3, <1>4, <1>5, <1>8, <2>1, <2>3, <2>4, AdjustedKeeps
<1> QED
  BY <1>6, <1>7, <1>8

\* What else does not concern it.
LEMMA OthersKeep ==
  ASSUME AllocatorInv, UNCHANGED <<videoTracks, upstream, dirty, queue, allocatorState, capacity>>,
         congestion' \in {"none", congestion}
  PROVE  AllocatorInv'
BY DEF AllocatorInv, AllocatorTypes, StateMatches, Here, Rate, Deficient

LEMMA AllocatorStep == AllocatorInv /\ [AllocatorNext]_allocatorVars => AllocatorInv'
<1> SUFFICES ASSUME AllocatorInv, [AllocatorNext]_allocatorVars PROVE AllocatorInv'
  OBVIOUS
<1>1. CASE UNCHANGED allocatorVars
  BY <1>1, OthersKeep DEF allocatorVars, outside
<1>2. ASSUME NEW t \in Tracks,
             \/ AddDownTrack(t) \/ RemoveDownTrack(t)
             \/ \E f \in Upstreams : FeedChanges(t, f)
             \/ \E muted, pubMuted \in BOOLEAN : SetMuted(t, muted, pubMuted)
             \/ \E l \in MaxLayers : SetMax(t, l)
             \/ \E n \in 1..2 : SetTrackPriority(t, n)
             \/ \E s \in 0..MaxSpatial : KeyFrame(t, s)
             \/ HandleFits(t) \/ HandleRedistributes(t)
      PROVE  AllocatorInv'
  <2>1. CASE AddDownTrack(t)
    BY <2>1, AddKeeps
  <2>2. CASE RemoveDownTrack(t)
    BY <2>2, RemoveKeeps
  <2>3. CASE \E f \in Upstreams : FeedChanges(t, f)
    BY <2>3, FeedKeeps
  <2>4. CASE \E muted, pubMuted \in BOOLEAN : SetMuted(t, muted, pubMuted)
    BY <2>4, MutedKeepsInv
  <2>5. CASE \E l \in MaxLayers : SetMax(t, l)
    BY <2>5, MaxKeepsInv
  <2>6. CASE \E n \in 1..2 : SetTrackPriority(t, n)
    BY <2>6, PriorityKeeps
  <2>7. CASE \E s \in 0..MaxSpatial : KeyFrame(t, s)
    BY <2>7, KeyFrameKeeps
  <2>8. CASE HandleFits(t)
    BY <2>8, FitsKeeps
  <2>9. CASE HandleRedistributes(t)
    BY <2>9, RedistributesKeeps
  <2> QED
    BY <1>2, <2>1, <2>2, <2>3, <2>4, <2>5, <2>6, <2>7, <2>8, <2>9
<1>3. ASSUME NEW to \in {"none", "early", "congested"}, NEW value \in Capacities,
             CongestionChanges(to, value)
      PROVE  AllocatorInv'
  BY <1>3, CongestionKeeps
<1>4. CASE SetAllowPause
  BY <1>4, OthersKeep DEF SetAllowPause
<1>5. CASE HandleGone
  BY <1>5, GoneKeeps
<1>6. CASE HandleFree
  BY <1>6, FreeKeeps
<1>7. CASE HandleGivesBack
  BY <1>7, GivesBackKeeps
<1>8. CASE HandleNothing
  BY <1>8, NothingKeeps
<1>9. CASE HandleAll
  BY <1>9, AllKeeps
<1>10. CASE HandleAdjust
  BY <1>10, AdjustKeeps
<1>11. CASE HandleResume
  BY <1>11, ResumeKeeps
<1>12. CASE HandleClear
  BY <1>12, ClearKeeps
<1>13. CASE HandleCongested
  BY <1>13, CongestedKeeps
<1>14. CASE AskProbe
  BY <1>14, OthersKeep DEF AskProbe, outside
<1>15. CASE ProbeBegins
  BY <1>15, OthersKeep DEF ProbeBegins, outside
<1>16. CASE ResetBWE
  BY <1>16, OthersKeep DEF ResetBWE, outside
<1>17. ASSUME NEW value \in Capacities, FinalizeProbe(value) PROVE AllocatorInv'
  BY <1>17, ProbeKeeps
<1> QED
  BY <1>1, <1>2, <1>3, <1>4, <1>5, <1>6, <1>7, <1>8, <1>9, <1>10, <1>11, <1>12, <1>13, <1>14,
     <1>15, <1>16, <1>17 DEF AllocatorNext

\* The allocator's state fits its tracks whatever happens to them, however many there are
\* and whatever their layers are (handleSignal..., allocateTrack, adjustState).
THEOREM AllocatorFits == AllocatorSpec => []StateFits
<1>1. AllocatorInit => AllocatorInv
  BY AllocatorStarts
<1>2. AllocatorInv /\ [AllocatorNext]_allocatorVars => AllocatorInv'
  BY AllocatorStep
<1>3. AllocatorInv => StateFits
  BY Fits
<1> QED
  BY <1>1, <1>2, <1>3, PTL DEF AllocatorSpec

----------------------------------------------------------------------------
(* Sharing keeps within the capacity.                                      *)

\* The greater of two numbers.
LEMMA GreaterOf ==
  ASSUME NEW m \in Nat, NEW n \in Nat
  PROVE  Max({m, n}) \in Nat /\ Max({m, n}) >= m /\ Max({m, n}) >= n
<1>1. \E x \in {m, n} : \A y \in {m, n} : x >= y
  OBVIOUS
<1>2. Max({m, n}) \in {m, n} /\ \A y \in {m, n} : Max({m, n}) >= y
  BY <1>1 DEF Max
<1> QED
  BY <1>2

\* Where no track goes on with what it may not have, each is frugal.
LEMMA FrugalAll == ASSUME AllocatorTypes, Opportunistic = {} PROVE AllFrugal
<1> SUFFICES ASSUME NEW t \in Here, ~AnyMuted(videoTracks[t]),
                    OptimalNeeded(videoTracks[t], Rate(t), videoTracks[t].max) = 0
             PROVE  RateOf(videoTracks[t].current, Rate(t)) = 0
  BY DEF AllFrugal, Frugal
<1>1. videoTracks[t].current \in Layer /\ Rate(t) \in Bitrates
  BY TypesOfTrack DEF Forwarders, Layer
<1>2. RateOf(videoTracks[t].current, Rate(t)) \in Nat
  BY <1>1, RateIs
<1>3. ~ (RateOf(videoTracks[t].current, Rate(t)) > 0)
  BY DEF Opportunistic
<1> QED
  BY <1>2, <1>3

\* Sharing the channel anew,
LEMMA SharesWithin ==
  ASSUME AllocatorTypes, NEW channel \in Nat, AllocateAllTracks(channel), allowPause,
         Here \subseteq Managed, AllFrugal
  PROVE  Usage(videoTracks') \in Nat /\ Usage(videoTracks') <= channel
<1>1. PICK order \in Sorted(Here \cap Managed) : AdjustState(AllocateAll(channel, order))
  BY DEF AllocateAllTracks
<1>2. /\ AllocateAll(channel, order) \in [Here -> Forwarders]
      /\ Usage(AllocateAll(channel, order)) <= channel
  BY AllocateAllIs DEF Sorted
<1>3. videoTracks' = AllocateAll(channel, order)
  BY <1>1 DEF AdjustState
<1> QED
  BY <1>2, <1>3, UsageOfTracks

\* boosting,
LEMMA BoostsWithin ==
  ASSUME AllocatorTypes, NEW ts \in [Here -> Forwarders], NEW channel \in Nat,
         \E us \in Boost(ts, channel) : videoTracks' = us
  PROVE  /\ Usage(videoTracks') \in Nat
         /\ videoTracks' = ts \/ Usage(videoTracks') <= channel
<1>1. PICK us \in Boost(ts, channel) : videoTracks' = us
  OBVIOUS
<1>2. us \in [Here -> Forwarders] /\ (us = ts \/ Usage(us) <= channel)
  BY BoostIs DEF Boosts
<1> QED
  BY <1>1, <1>2, UsageOfTracks

\* a probe that has found more,
LEMMA ProbeWithin ==
  ASSUME AllocatorTypes, NEW value \in Capacities, FinalizeProbe(value)
  PROVE  /\ capacity' \in Nat /\ Usage(videoTracks') \in Nat
         /\ Usage(videoTracks') <= Usage(videoTracks) \/ Usage(videoTracks') <= capacity'
<1> DEFINE greater == Max({capacity, value})
<1>3. value \in Nat /\ capacity \in Nat /\ videoTracks \in [Here -> Forwarders]
  BY AllocatorAssumption DEF AllocatorTypes
<1>4. greater \in Nat /\ Usage(videoTracks) \in Nat
  BY <1>3, GreaterOf, UsageOfTracks
<1>1. CASE congestion = "none" /\ ~(greater <= Usage(videoTracks))
  <2>1. capacity' = greater /\ \E us \in Boost(videoTracks, greater) : videoTracks' = us
    BY <1>1 DEF FinalizeProbe
  <2> HIDE DEF greater
  <2>2. Usage(videoTracks') \in Nat
        /\ (videoTracks' = videoTracks \/ Usage(videoTracks') <= greater)
    BY <1>3, <1>4, <2>1, BoostsWithin
  <2> QED
    BY <1>4, <2>1, <2>2
<1>2. CASE ~ (congestion = "none" /\ ~(greater <= Usage(videoTracks)))
  <2>1. videoTracks' = videoTracks /\ capacity' \in {capacity, greater}
    BY <1>2 DEF FinalizeProbe
  <2> HIDE DEF greater
  <2> QED
    BY <1>3, <1>4, <2>1
<1> QED
  BY <1>1, <1>2

\* a track that gives back,
LEMMA GivesBackWithin ==
  ASSUME AllocatorTypes, HandleGivesBack
  PROVE  /\ Usage(videoTracks') \in Nat /\ capacity' \in Nat
         /\ \/ Usage(videoTracks') <= capacity'
            \/ \A u \in Here : u # Head(queue).track => videoTracks'[u] = videoTracks[u]
<1> DEFINE t == Head(queue).track
           p == CooperativeLayer(videoTracks[t], Rate(t))
           ts == [videoTracks EXCEPT ![t] = AllocateCommit(@, Rate(t), p)]
<1>1. t \in Here /\ capacity' = capacity /\ capacity \in Nat
      /\ videoTracks \in [Here -> Forwarders]
  BY DEF HandleGivesBack, Gone, AllocatorTypes
<1>2. \E us \in Boost(ts, capacity) : videoTracks' = us
  BY DEF HandleGivesBack, AdjustState
<1>3. p \in Layer
  BY <1>1, TypesOfTrack, CooperativeIn
<1>4. AllocateCommit(videoTracks[t], Rate(t), p) \in Forwarders
  <2> HIDE DEF p, t
  <2> QED
    BY <1>1, <1>3, TypesOfTrack, CommitSettles
<1> HIDE DEF p
<1>5. ts \in [Here -> Forwarders] /\ \A u \in Here : u # t => ts[u] = videoTracks[u]
  BY <1>1, <1>4
<1> HIDE DEF ts
<1>6. /\ Usage(videoTracks') \in Nat
      /\ videoTracks' = ts \/ Usage(videoTracks') <= capacity
  BY <1>1, <1>2, <1>5, BoostsWithin
<1> QED
  BY <1>1, <1>5, <1>6

\* and a track that takes from the others, or is paused.
LEMMA RedistributesWithin ==
  ASSUME AllocatorTypes, NEW t \in Here, HandleRedistributes(t), allowPause, AllFrugal
  PROVE  Usage(videoTracks') \in Nat /\ Usage(videoTracks') <= Usage(videoTracks)
<1> DEFINE S == (Here \cap Managed) \ {t}
           x == videoTracks[t]
           p == CooperativeLayer(x, Rate(t))
           need == Delta(x, Rate(t), p)
           gifts(order) == Contributors(order, need)
           enough(order) == gifts(order).sum >= need
           from(order) == IF enough(order) THEN gifts(order).from ELSE {}
           after(order) ==
             [u \in Here |->
                LET y == videoTracks[u] IN
                IF u = t
                THEN IF enough(order) \/ ~allowPause THEN AllocateCommit(y, Rate(u), p)
                     ELSE Paused(y, Rate(u))
                ELSE IF u \in from(order)
                THEN AllocateCommit(y, Rate(u), BestWeighted(y, Rate(u)).layer)
                ELSE y]
<1>1. PICK order \in SortedRising(S) : videoTracks' = after(order)
  BY DEF HandleRedistributes, AdjustState
<1>2. Above(p, x.target)
  BY DEF HandleRedistributes, NeedsMore
<1>3. x \in Forwarders /\ Rate(t) \in Bitrates /\ p \in Layer
  BY TypesOfTrack, CooperativeIn
<1>4. need = RateOf(p, Rate(t)) - Needed(x, Rate(t)) /\ RateOf(p, Rate(t)) \in Nat
      /\ Needed(x, Rate(t)) \in Nat
  BY <1>2, <1>3, DeltaIs, RateIs, NeededIs
<1> DEFINE a == gifts(order)
           G == from(order)
           ts == after(order)
<1>5. a.sum \in Nat /\ a.from \in SUBSET S /\ GivenIs(a)
  <2>1. order \in SetToSeqs(S) /\ S \in SUBSET Here
    BY DEF SortedRising
  <2> HIDE DEF S, need
  <2> QED
    BY <2>1, ContributorsAre
<1>6. /\ ts = [u \in Here |-> ts[u]]
      /\ ts[t] = IF a.sum >= need THEN AllocateCommit(x, Rate(t), p) ELSE Paused(x, Rate(t))
      /\ G = IF a.sum >= need THEN a.from ELSE {}
      /\ \A u \in Here \ {t} :
           ts[u] = IF u \in G
                   THEN AllocateCommit(videoTracks[u], Rate(u),
                                       BestWeighted(videoTracks[u], Rate(u)).layer)
                   ELSE videoTracks[u]
  OBVIOUS
<1>7. videoTracks' = ts /\ G \in SUBSET Here /\ t \notin G
  BY <1>1, <1>5
<1> HIDE DEF ts, G, a, need, p
<1>8. ASSUME NEW u \in Here
      PROVE  /\ videoTracks[u] \in Forwarders /\ Rate(u) \in Bitrates
             /\ Frugal(videoTracks[u], Rate(u))
             /\ BestWeighted(videoTracks[u], Rate(u)).layer \in Layer
             /\ Needed(videoTracks[u], Rate(u)) \in Nat
             /\ RateOf(BestWeighted(videoTracks[u], Rate(u)).layer, Rate(u)) \in Nat
  <2>1. videoTracks[u] \in Forwarders /\ Rate(u) \in Bitrates
    BY TypesOfTrack
  <2>2. BestWeighted(videoTracks[u], Rate(u)).layer \in Layer
    BY <2>1, BestWeightedIn
  <2> QED
    BY <2>1, <2>2, NeededIs, RateIs DEF AllFrugal
<1> DEFINE n == IF a.sum >= need THEN RateOf(p, Rate(t)) ELSE 0
           v == Given(G)
<1>9. /\ v = [u \in Here |-> v[u]] /\ v \in [Here -> Nat] /\ v \in [Here -> Int]
      /\ v[t] = Needed(x, Rate(t))
      /\ \A u \in Here : v[u] = IF u \in G
                                THEN RateOf(BestWeighted(videoTracks[u], Rate(u)).layer, Rate(u))
                                ELSE Needed(videoTracks[u], Rate(u))
  BY <1>7, <1>8 DEF Given
<1> HIDE DEF v
<1>10. Needed(ts[t], Rate(t)) = n
  <2>1. Needed(AllocateCommit(x, Rate(t), p), Rate(t)) = RateOf(p, Rate(t))
    BY <1>3, <1>8, CommitNeeds
  <2>2. Needed(Paused(x, Rate(t)), Rate(t)) = 0
    BY <1>3, PausedNeeds
  <2> QED
    BY <1>6, <2>1, <2>2
<1>11. ASSUME NEW u \in Here \ {t} PROVE Needed(ts[u], Rate(u)) = v[u]
  <2>1. CASE u \in G
    <3> DEFINE l == BestWeighted(videoTracks[u], Rate(u)).layer
    <3>1. ts[u] = AllocateCommit(videoTracks[u], Rate(u), l) /\ l \in Layer
      BY <1>6, <1>8, <2>1
    <3>2. Needed(AllocateCommit(videoTracks[u], Rate(u), l), Rate(u)) = RateOf(l, Rate(u))
      <4> HIDE DEF l
      <4> QED
        BY <1>8, <3>1, CommitNeeds
    <3> QED
      BY <1>9, <2>1, <3>1, <3>2
  <2>2. CASE u \notin G
    BY <1>6, <1>9, <2>2
  <2> QED
    BY <2>1, <2>2
<1>12. n \in Nat
  BY <1>4
<1>13. ts \in [Here -> Forwarders]
  <2>1. ts[t] \in Forwarders
    BY <1>3, <1>6, CommitSettles, PausedSettles
  <2>2. ASSUME NEW u \in Here \ {t} PROVE ts[u] \in Forwarders
    <3>1. AllocateCommit(videoTracks[u], Rate(u), BestWeighted(videoTracks[u], Rate(u)).layer)
            \in Forwarders
      BY <1>8, CommitSettles
    <3> QED
      BY <1>6, <1>8, <3>1
  <2> QED
    BY <1>6, <2>1, <2>2
<1>14. Usage(ts) = Total([v EXCEPT ![t] = n])
  <2>1. /\ Usage(ts) = Total(Needs(ts)) /\ Needs(ts) = [u \in Here |-> Needs(ts)[u]]
        /\ \A u \in Here : Needs(ts)[u] = Needed(ts[u], Rate(u))
    BY <1>13, UsageOfTracks
  <2> HIDE DEF n
  <2>2. [v EXCEPT ![t] = n] = [u \in Here |-> IF u = t THEN n ELSE v[u]]
    BY <1>9
  <2>3. \A u \in Here : Needs(ts)[u] = IF u = t THEN n ELSE v[u]
    BY <1>10, <1>11, <2>1
  <2> QED
    BY ONLY <2>1, <2>2, <2>3
<1>15. Total([v EXCEPT ![t] = n]) = Total(v) + (n - v[t]) /\ Total(v) \in Nat
  <2> HIDE DEF n
  <2>1. n \in Int /\ IsFiniteSet(Here) /\ Nat \in {Nat, Int}
    BY <1>12, FewTracks
  <2>2. Total([v EXCEPT ![t] = n]) = Total(v) + (n - v[t])
    BY <1>9, <2>1, TotalChanges
  <2>3. Total(v) \in Nat
    BY <1>9, <2>1, TotalIs
  <2> QED
    BY <2>2, <2>3
<1>16. Usage(videoTracks) \in Nat /\ Usage(videoTracks) = Total(Needs(videoTracks))
       /\ Given({}) = Needs(videoTracks)
  BY UsageOfTracks DEF AllocatorTypes, Given, Needs
<1> DEFINE before == Usage(videoTracks)
           now == Usage(videoTracks')
<1>17. now \in Nat /\ now = Total(v) + (n - v[t]) /\ before \in Nat /\ v[t] \in Nat
  BY <1>7, <1>9, <1>13, <1>14, <1>15, <1>16, UsageOfTracks
<1>18. CASE a.sum >= need
  <2>1. Total(v) + a.sum <= before
    BY <1>5, <1>6, <1>18 DEF GivenIs, v
  <2>2. n - v[t] = need
    BY <1>4, <1>9, <1>18
  <2> HIDE DEF n, now, before
  <2>3. Total(v) \in Nat /\ need \in Int
    BY <1>12, <1>15, <1>17, <2>2
  <2>4. now <= before
    BY ONLY <1>5, <1>12, <1>17, <1>18, <2>1, <2>2, <2>3
  <2> QED
    BY <1>17, <2>4 DEF now, before
<1>19. CASE ~(a.sum >= need)
  <2>1. Total(v) = before
    BY <1>6, <1>16, <1>19 DEF v
  <2>2. n = 0
    BY <1>19
  <2> HIDE DEF n, now, before
  <2>3. now <= before
    BY ONLY <1>17, <2>1, <2>2
  <2> QED
    BY <1>17, <2>3 DEF now, before
<1> QED
  BY <1>18, <1>19

\* So each handler keeps within the capacity.
LEMMA KeepsStep == AllocatorInv => Keeps
<1> SUFFICES ASSUME AllocatorInv, allowPause, Exceeds PROVE
      /\ \A v \in Capacities : ~FinalizeProbe(v)
      /\ Opportunistic = {} =>
           /\ Here \subseteq Managed => ~HandleAll /\ ~HandleCongested
           /\ \A t \in Here : ~HandleRedistributes(t)
      /\ HandleGivesBack =>
           \A u \in Here : u # Head(queue).track => videoTracks'[u] = videoTracks[u]
  BY DEF Keeps
<1>1. AllocatorTypes
  BY DEF AllocatorInv
<1>2. Usage(videoTracks) \in Nat /\ capacity \in Nat
  BY <1>1, UsageOfTracks DEF AllocatorTypes
<1>3. ASSUME capacity' \in Nat, Usage(videoTracks') \in Nat
      PROVE  /\ ~ (Usage(videoTracks') <= capacity')
             /\ ~ (Usage(videoTracks') <= Usage(videoTracks))
  <2> DEFINE m == Max({capacity', Usage(videoTracks)})
  <2>1. m \in Nat /\ m >= capacity' /\ m >= Usage(videoTracks)
    BY <1>2, <1>3, GreaterOf
  <2>2. Usage(videoTracks') > m
    BY DEF Exceeds
  <2> HIDE DEF m
  <2> QED
    BY <1>2, <1>3, <2>1, <2>2
<1>4. ASSUME NEW v \in Capacities, FinalizeProbe(v) PROVE FALSE
  BY <1>1, <1>3, <1>4, ProbeWithin
<1>5. ASSUME Opportunistic = {}, Here \subseteq Managed, HandleAll \/ HandleCongested PROVE FALSE
  <2>1. AllFrugal
    BY <1>1, <1>5, FrugalAll
  <2>2. CASE HandleAll
    <3>1. capacity' = capacity /\ (AllocateAllTracks(capacity) \/ videoTracks' = videoTracks)
      BY <2>2 DEF HandleAll
    <3>2. CASE AllocateAllTracks(capacity)
      BY <1>1, <1>2, <1>3, <1>5, <2>1, <3>1, <3>2, SharesWithin
    <3>3. CASE videoTracks' = videoTracks
      BY <1>2, <1>3, <3>1, <3>3
    <3> QED
      BY <3>1, <3>2, <3>3
  <2>3. CASE HandleCongested
    <3> DEFINE n == Head(queue).value
    <3>1. capacity' = n /\ AllocateAllTracks(n) /\ HandleEvent("congestion")
      BY <2>3 DEF HandleCongested
    <3>2. n \in Nat
      <4>1. Head(queue) \in EventTypes
        BY <1>1, <3>1, Handled
      <4>2. n \in Capacities \cup {0}
        BY <4>1 DEF EventTypes
      <4>3. \A k \in Capacities \cup {0} : k \in Nat
        BY AllocatorAssumption
      <4> HIDE DEF n
      <4> QED
        BY ONLY <4>2, <4>3
    <3> HIDE DEF n
    <3> QED
      BY <1>1, <1>3, <1>5, <2>1, <3>1, <3>2, SharesWithin
  <2> QED
    BY <1>5, <2>2, <2>3
<1>6. ASSUME Opportunistic = {}, NEW t \in Here, HandleRedistributes(t) PROVE FALSE
  <2>1. AllFrugal /\ capacity' = capacity
    BY <1>1, <1>6, FrugalAll DEF HandleRedistributes
  <2> QED
    BY <1>1, <1>2, <1>3, <1>6, <2>1, RedistributesWithin
<1>7. ASSUME HandleGivesBack
      PROVE  \A u \in Here : u # Head(queue).track => videoTracks'[u] = videoTracks[u]
  BY <1>1, <1>3, <1>7, GivesBackWithin
<1> QED
  BY <1>4, <1>5, <1>6, <1>7

\* Whatever the tracks and their layers, a handler that shares keeps within the capacity, and so
\* does a boost (allocateAllTracks, allocateTrack, maybeBoostDeficientTracks).
THEOREM AllocatorKeepsWithin == AllocatorSpec => KeepsWithin
<1>1. AllocatorInit => AllocatorInv
  BY AllocatorStarts
<1>2. AllocatorInv /\ [AllocatorNext]_allocatorVars => AllocatorInv'
  BY AllocatorStep
<1>3. AllocatorInv => Keeps
  BY KeepsStep
<1> QED
  BY <1>1, <1>2, <1>3, PTL DEF AllocatorSpec, KeepsWithin

=============================================================================
