------------------------ MODULE BoticalClientProofs ------------------------
(***************************************************************************)
(* Proofs about BoticalClient: ClientInv is inductive, so the client has   *)
(* one connection at a time and the voice is on in a live room only; with  *)
(* VoiceInv, what is shown and heard of it agrees when no switch of the    *)
(* microphone is pending: however many Room objects, tracks and clicks     *)
(* there are.                                                              *)
(***************************************************************************)
EXTENDS BoticalClient, SequenceTheorems, TLAPS

\* Taking out an element leaves a sequence over the same set, one shorter.
LEMMA WithoutType ==
  ASSUME NEW S, NEW s \in Seq(S), NEW i \in DOMAIN s
  PROVE  Without(s, i) \in Seq(S) /\ Len(Without(s, i)) = Len(s) - 1
<1>1. i \in 1..Len(s) /\ Len(s) \in Nat
  OBVIOUS
<1>2. SubSeq(s, 1, i - 1) \in Seq(S) /\ Len(SubSeq(s, 1, i - 1)) = i - 1
  BY <1>1, SubSeqProperties
<1>3. SubSeq(s, i + 1, Len(s)) \in Seq(S) /\ Len(SubSeq(s, i + 1, Len(s))) = Len(s) - i
  BY <1>1, SubSeqProperties
<1>4. ASSUME NEW a \in Seq(S), NEW b \in Seq(S)
      PROVE  a \o b \in Seq(S) /\ Len(a \o b) = Len(a) + Len(b)
  BY ConcatProperties
<1>5. /\ Without(s, i) \in Seq(S)
      /\ Len(Without(s, i)) = (i - 1) + (Len(s) - i)
  BY <1>2, <1>3, <1>4 DEF Without
<1>6. (i - 1) + (Len(s) - i) = Len(s) - 1
  <2> DEFINE n == Len(s)
  <2>1. i \in Int /\ n \in Int
    BY <1>1
  <2> HIDE DEF n
  <2>2. (i - 1) + (n - i) = n - 1
    BY <2>1
  <2> QED
    BY <2>2 DEF n
<1> QED
  BY <1>5, <1>6

\* Every step keeps the variables in their types.
LEMMA TypeInvariance ==
  ASSUME TypeOK, [Next]_vars
  PROVE  TypeOK'
<1>1. CASE ServeToken
  BY <1>1, ClientAssumption DEF ServeToken, connVars, voiceVars, TypeOK,
     Switch
<1>2. CASE TokenFails
  BY <1>2, ClientAssumption DEF TokenFails, ConnectFailed, connVars,
     voiceVars, TypeOK, Switch
<1>3. CASE TimerFires
  <2>1. asked' \in Nat /\ status' \in {"connecting", "connected", "reconnecting"}
    <3>1. CASE room = NoRoom
      BY <1>3, <3>1 DEF TimerFires, TypeOK
    <3>2. CASE room # NoRoom
      BY <1>3, <3>2 DEF TimerFires, TypeOK
    <3> QED
      BY <3>1, <3>2
  <2> QED
    BY <1>3, <2>1 DEF TimerFires, voiceVars, TypeOK, Switch
<1>4. CASE ClickVoice
  BY <1>4, ClientAssumption DEF ClickVoice, connVars, voiceVars, TypeOK,
     Switch
<1>5. ASSUME NEW r \in Rooms, JoinRoom(r)
      PROVE  TypeOK'
  BY <1>5, ClientAssumption DEF JoinRoom, connVars, voiceVars, TypeOK,
     Switch
<1>6. ASSUME NEW r \in Rooms, Joined(r)
      PROVE  TypeOK'
  BY <1>6, ClientAssumption DEF Joined, connVars, voiceVars, TypeOK, Switch
<1>7. ASSUME NEW r \in Rooms, JoinFails(r)
      PROVE  TypeOK'
  BY <1>7, ClientAssumption DEF JoinFails, ConnectFailed, connVars,
     voiceVars, TypeOK, Switch
<1>8. ASSUME NEW r \in Rooms, Disconnected(r)
      PROVE  TypeOK'
  <2>1. pending' \in Seq(Switch) /\ Len(pending') = Len(pending)
    <3> DEFINE n == Len(pending)
    <3>1. n \in Nat /\ DOMAIN pending = 1..n /\ pending \in [1..n -> Switch]
      BY DEF TypeOK
    <3>2. pending' = [i \in 1..n |->
            [pending[i] EXCEPT !.room = IF @ = r THEN NoRoom ELSE @]]
      BY <1>8, <3>1 DEF Disconnected
    <3>3. ASSUME NEW i \in 1..n
          PROVE  [pending[i] EXCEPT !.room = IF @ = r THEN NoRoom ELSE @] \in Switch
      BY <3>1 DEF Switch
    <3>4. pending' \in [1..n -> Switch]
      BY <3>2, <3>3
    <3> QED
      BY <3>1, <3>4, SeqDef
  <2> QED
    BY <1>8, <2>1, ClientAssumption DEF Disconnected, VoiceOff, TypeOK
<1>9. ASSUME NEW r \in Rooms, Reconnecting(r)
      PROVE  TypeOK'
  BY <1>9, ClientAssumption DEF Reconnecting, connVars, voiceVars, TypeOK,
     Switch
<1>10. ASSUME NEW r \in Rooms, NEW t \in Tracks, TrackSubscribed(r, t)
      PROVE  TypeOK'
  BY <1>10, ClientAssumption DEF TrackSubscribed, connVars, voiceVars,
     TypeOK, Switch
<1>11. ASSUME NEW i \in 1..MaxClicks, MicSwitched(i)
      PROVE  TypeOK'
  <2>1. i \in DOMAIN pending /\ pending[i] \in Switch
    BY <1>11 DEF MicSwitched, TypeOK
  <2>2. pending' \in Seq(Switch) /\ Len(pending') <= MaxClicks
    BY <1>11, <2>1, WithoutType, ClientAssumption DEF MicSwitched, TypeOK
  <2>3. mic' \in [Rooms -> BOOLEAN] /\ micFailed' \in BOOLEAN
    <3>1. CASE pending[i].room = NoRoom
      BY <1>11, <3>1 DEF MicSwitched, TypeOK
    <3>2. CASE pending[i].room # NoRoom
      BY <1>11, <2>1, <3>2 DEF MicSwitched, TypeOK, Switch
    <3> QED
      BY <3>1, <3>2
  <2>4. visible' \in BOOLEAN /\ muted' \subseteq audio /\ greeted' \in BOOLEAN
    BY <1>11 DEF MicSwitched, AfterSwitch, TypeOK
  <2> QED
    BY <1>11, <2>2, <2>3, <2>4 DEF MicSwitched, connVars, TypeOK
<1>12. ASSUME NEW i \in 1..MaxClicks, MicFails(i)
      PROVE  TypeOK'
  BY <1>12, ClientAssumption, WithoutType DEF MicFails, connVars,
     voiceVars, TypeOK, Switch
<1>13. ASSUME NEW t \in Tracks, TrackUnsubscribed(t)
      PROVE  TypeOK'
  BY <1>13, ClientAssumption DEF TrackUnsubscribed, connVars, voiceVars,
     TypeOK, Switch
<1>14. CASE UNCHANGED vars
  BY <1>14 DEF vars, connVars, voiceVars, TypeOK, Switch
<1> QED
  BY <1>1, <1>2, <1>3, <1>4, <1>5, <1>6, <1>7, <1>8, <1>9, <1>10,
     <1>11, <1>12, <1>13, <1>14 DEF Next

\* Every step keeps one connection, attempt or timer.
LEMMA OneConnectionInvariance ==
  ASSUME TypeOK, OneConnection, VoiceNeedsRoom, [Next]_vars
  PROVE  OneConnection'
<1>1. CASE ServeToken
  BY <1>1, ClientAssumption DEF ServeToken, connVars, voiceVars, TypeOK,
     OneConnection, VoiceNeedsRoom, InUse
<1>2. CASE TokenFails
  BY <1>2, ClientAssumption DEF TokenFails, ConnectFailed, connVars,
     voiceVars, TypeOK, OneConnection, VoiceNeedsRoom, InUse
<1>3. CASE TimerFires
  BY <1>3, ClientAssumption DEF TimerFires, connVars, voiceVars, TypeOK,
     OneConnection, VoiceNeedsRoom, InUse
<1>4. CASE ClickVoice
  BY <1>4, ClientAssumption DEF ClickVoice, connVars, voiceVars, TypeOK,
     OneConnection, VoiceNeedsRoom, InUse
<1>5. ASSUME NEW r \in Rooms, JoinRoom(r)
      PROVE  OneConnection'
  BY <1>5, ClientAssumption DEF JoinRoom, connVars, voiceVars, TypeOK,
     OneConnection, VoiceNeedsRoom, InUse
<1>6. ASSUME NEW r \in Rooms, Joined(r)
      PROVE  OneConnection'
  BY <1>6, ClientAssumption DEF Joined, connVars, voiceVars, TypeOK,
     OneConnection, VoiceNeedsRoom, InUse
<1>7. ASSUME NEW r \in Rooms, JoinFails(r)
      PROVE  OneConnection'
  BY <1>7, ClientAssumption DEF JoinFails, ConnectFailed, connVars,
     voiceVars, TypeOK, OneConnection, VoiceNeedsRoom, InUse
<1>8. ASSUME NEW r \in Rooms, Disconnected(r)
      PROVE  OneConnection'
  BY <1>8, ClientAssumption DEF Disconnected, VoiceOff, connVars,
     voiceVars, TypeOK, OneConnection, VoiceNeedsRoom, InUse
<1>9. ASSUME NEW r \in Rooms, Reconnecting(r)
      PROVE  OneConnection'
  BY <1>9, ClientAssumption DEF Reconnecting, connVars, voiceVars, TypeOK,
     OneConnection, VoiceNeedsRoom, InUse
<1>10. ASSUME NEW r \in Rooms, NEW t \in Tracks, TrackSubscribed(r, t)
      PROVE  OneConnection'
  BY <1>10, ClientAssumption DEF TrackSubscribed, connVars, voiceVars,
     TypeOK, OneConnection, VoiceNeedsRoom, InUse
<1>11. ASSUME NEW i \in 1..MaxClicks, MicSwitched(i)
      PROVE  OneConnection'
  BY <1>11, ClientAssumption DEF MicSwitched, AfterSwitch, connVars,
     voiceVars, TypeOK, OneConnection, VoiceNeedsRoom, InUse
<1>12. ASSUME NEW i \in 1..MaxClicks, MicFails(i)
      PROVE  OneConnection'
  BY <1>12, ClientAssumption DEF MicFails, connVars, voiceVars, TypeOK,
     OneConnection, VoiceNeedsRoom, InUse
<1>13. ASSUME NEW t \in Tracks, TrackUnsubscribed(t)
      PROVE  OneConnection'
  BY <1>13, ClientAssumption DEF TrackUnsubscribed, connVars, voiceVars,
     TypeOK, OneConnection, VoiceNeedsRoom, InUse
<1>14. CASE UNCHANGED vars
  BY <1>14 DEF vars, connVars, voiceVars, TypeOK, OneConnection,
     VoiceNeedsRoom, InUse
<1> QED
  BY <1>1, <1>2, <1>3, <1>4, <1>5, <1>6, <1>7, <1>8, <1>9, <1>10,
     <1>11, <1>12, <1>13, <1>14 DEF Next

\* Every step keeps the voice off without a live room.
LEMMA VoiceNeedsRoomInvariance ==
  ASSUME TypeOK, OneConnection, VoiceNeedsRoom, [Next]_vars
  PROVE  VoiceNeedsRoom'
<1>1. CASE ServeToken
  BY <1>1, ClientAssumption DEF ServeToken, connVars, voiceVars, TypeOK,
     OneConnection, VoiceNeedsRoom, InUse
<1>2. CASE TokenFails
  BY <1>2, ClientAssumption DEF TokenFails, ConnectFailed, connVars,
     voiceVars, TypeOK, OneConnection, VoiceNeedsRoom, InUse
<1>3. CASE TimerFires
  BY <1>3, ClientAssumption DEF TimerFires, connVars, voiceVars, TypeOK,
     OneConnection, VoiceNeedsRoom, InUse
<1>4. CASE ClickVoice
  BY <1>4, ClientAssumption DEF ClickVoice, connVars, voiceVars, TypeOK,
     OneConnection, VoiceNeedsRoom, InUse
<1>5. ASSUME NEW r \in Rooms, JoinRoom(r)
      PROVE  VoiceNeedsRoom'
  BY <1>5, ClientAssumption DEF JoinRoom, connVars, voiceVars, TypeOK,
     OneConnection, VoiceNeedsRoom, InUse
<1>6. ASSUME NEW r \in Rooms, Joined(r)
      PROVE  VoiceNeedsRoom'
  BY <1>6, ClientAssumption DEF Joined, connVars, voiceVars, TypeOK,
     OneConnection, VoiceNeedsRoom, InUse
<1>7. ASSUME NEW r \in Rooms, JoinFails(r)
      PROVE  VoiceNeedsRoom'
  BY <1>7, ClientAssumption DEF JoinFails, ConnectFailed, connVars,
     voiceVars, TypeOK, OneConnection, VoiceNeedsRoom, InUse
<1>8. ASSUME NEW r \in Rooms, Disconnected(r)
      PROVE  VoiceNeedsRoom'
  BY <1>8, ClientAssumption DEF Disconnected, VoiceOff, connVars,
     voiceVars, TypeOK, OneConnection, VoiceNeedsRoom, InUse
<1>9. ASSUME NEW r \in Rooms, Reconnecting(r)
      PROVE  VoiceNeedsRoom'
  BY <1>9, ClientAssumption DEF Reconnecting, connVars, voiceVars, TypeOK,
     OneConnection, VoiceNeedsRoom, InUse
<1>10. ASSUME NEW r \in Rooms, NEW t \in Tracks, TrackSubscribed(r, t)
      PROVE  VoiceNeedsRoom'
  BY <1>10, ClientAssumption DEF TrackSubscribed, connVars, voiceVars,
     TypeOK, OneConnection, VoiceNeedsRoom, InUse
<1>11. ASSUME NEW i \in 1..MaxClicks, MicSwitched(i)
      PROVE  VoiceNeedsRoom'
  BY <1>11, ClientAssumption DEF MicSwitched, AfterSwitch, connVars,
     voiceVars, TypeOK, OneConnection, VoiceNeedsRoom, InUse
<1>12. ASSUME NEW i \in 1..MaxClicks, MicFails(i)
      PROVE  VoiceNeedsRoom'
  BY <1>12, ClientAssumption DEF MicFails, connVars, voiceVars, TypeOK,
     OneConnection, VoiceNeedsRoom, InUse
<1>13. ASSUME NEW t \in Tracks, TrackUnsubscribed(t)
      PROVE  VoiceNeedsRoom'
  BY <1>13, ClientAssumption DEF TrackUnsubscribed, connVars, voiceVars,
     TypeOK, OneConnection, VoiceNeedsRoom, InUse
<1>14. CASE UNCHANGED vars
  BY <1>14 DEF vars, connVars, voiceVars, TypeOK, OneConnection,
     VoiceNeedsRoom, InUse
<1> QED
  BY <1>1, <1>2, <1>3, <1>4, <1>5, <1>6, <1>7, <1>8, <1>9, <1>10,
     <1>11, <1>12, <1>13, <1>14 DEF Next

\* ClientInv is an invariant: one connection, attempt or timer at a time, and
\* no voice without a live room (connect, the Disconnected and click handlers).
THEOREM ClientInvariant == Spec => []ClientInv
<1>1. Init => ClientInv
  <2> SUFFICES ASSUME Init PROVE ClientInv
    OBVIOUS
  <2>1. <<>> \in Seq(Switch) /\ Len(<<>>) = 0
    OBVIOUS
  <2>2. TypeOK
    <3>1. pending \in Seq(Switch) /\ Len(pending) <= MaxClicks
      BY <2>1, ClientAssumption DEF Init
    <3>2. asked \in Nat /\ answered \in Nat
      BY ClientAssumption DEF Init
    <3>3. /\ phase \in [Rooms -> {"none", "joining", "dropped", "live"}]
          /\ mic \in [Rooms -> BOOLEAN]
      BY DEF Init
    <3> QED
      BY <3>1, <3>2, <3>3 DEF Init, TypeOK
  <2>3. OneConnection /\ VoiceNeedsRoom
    BY ClientAssumption DEF Init, OneConnection, VoiceNeedsRoom, InUse
  <2> QED
    BY <2>2, <2>3 DEF ClientInv
<1>2. ClientInv /\ [Next]_vars => ClientInv'
  BY TypeInvariance, OneConnectionInvariance, VoiceNeedsRoomInvariance
     DEF ClientInv
<1> QED
  BY <1>1, <1>2, PTL DEF Spec

-----------------------------------------------------------------------------
(* The voice controls.                                                     *)

\* What is left of a sequence, element by element.
LEMMA WithoutElements ==
  ASSUME NEW S, NEW s \in Seq(S), NEW i \in DOMAIN s, NEW k \in DOMAIN Without(s, i)
  PROVE  /\ k \in 1..(Len(s) - 1)
         /\ Without(s, i)[k] = IF k < i THEN s[k] ELSE s[k + 1]
<1> DEFINE a == SubSeq(s, 1, i - 1)
           b == SubSeq(s, i + 1, Len(s))
           n == Len(s)
<1>1. n \in Nat /\ i \in 1..n
  OBVIOUS
<1>2. /\ a \in Seq(S) /\ Len(a) = i - 1
      /\ \A m \in 1..(i - 1) : a[m] = s[m]
  BY <1>1, SubSeqProperties
<1>3. /\ b \in Seq(S) /\ Len(b) = n - i
      /\ \A m \in 1..(n - i) : b[m] = s[i + m]
  BY <1>1, SubSeqProperties
<1>4. /\ Len(a \o b) = Len(a) + Len(b)
      /\ \A m \in 1..(Len(a) + Len(b)) :
           (a \o b)[m] = IF m <= Len(a) THEN a[m] ELSE b[m - Len(a)]
  BY <1>2, <1>3, ConcatProperties
<1>5. Without(s, i) = a \o b
  BY DEF Without
<1>6. k \in 1..(n - 1)
  BY <1>1, <1>2, <1>3, <1>5, WithoutType
<1> HIDE DEF a, b, n
<1>7. CASE k < i
  BY SMTT(30), <1>1, <1>2, <1>3, <1>4, <1>5, <1>6, <1>7
<1>8. CASE ~(k < i)
  <2> i \in Int /\ n \in Int /\ k \in Int
    BY <1>1, <1>6
  <2>0. k \in 1..(Len(a) + Len(b)) /\ ~(k <= Len(a)) /\ Len(a) = i - 1
    BY <1>1, <1>2, <1>3, <1>6, <1>8
  <2>1. (a \o b)[k] = b[k - (i - 1)] /\ k - (i - 1) \in 1..(n - i)
    <3>1. (a \o b)[k] = b[k - Len(a)]
      BY <1>4, <2>0
    <3>2. k - (i - 1) \in 1..(n - i)
      BY <1>1, <1>6, <1>8
    <3> QED
      BY <2>0, <3>1, <3>2
  <2>2. b[k - (i - 1)] = s[i + (k - (i - 1))] /\ i + (k - (i - 1)) = k + 1
    BY SMTT(30), <1>1, <1>3, <1>6, <2>1
  <2> QED
    BY <1>5, <1>6, <1>8, <2>1, <2>2 DEF n
<1> QED
  BY <1>6, <1>7, <1>8 DEF n

\* A switch that ends leaves those of the live Room, and the last is still the one
\* that is wanted: the switches of a Room end in their order.
LEMMA SwitchEnds ==
  ASSUME TypeOK, SwitchesAreLive, LastIsWanted,
         NEW i \in DOMAIN pending, IsNext(i), pending' = Without(pending, i),
         UNCHANGED <<room, phase, voiceEnabled>>
  PROVE  SwitchesAreLive' /\ LastIsWanted'
<1> DEFINE old(k) == IF k < i THEN k ELSE k + 1
<1>1. pending \in Seq(Switch) /\ Len(pending) \in Nat /\ DOMAIN pending = 1..Len(pending)
  BY DEF TypeOK
<1>2. /\ pending' \in Seq(Switch) /\ Len(pending') = Len(pending) - 1
      /\ DOMAIN pending' = 1..(Len(pending) - 1)
  <2>1. Without(pending, i) \in Seq(Switch) /\ Len(Without(pending, i)) = Len(pending) - 1
    BY <1>1, WithoutType
  <2>2. DOMAIN Without(pending, i) = 1..Len(Without(pending, i))
    BY <2>1
  <2> QED
    BY <2>1, <2>2
<1>3. ASSUME NEW k \in DOMAIN pending'
      PROVE  old(k) \in DOMAIN pending /\ pending'[k] = pending[old(k)]
  BY <1>1, <1>2, <1>3, WithoutElements
<1>4. SwitchesAreLive'
  BY <1>3 DEF SwitchesAreLive
<1>5. ASSUME NEW k \in DOMAIN pending', LastSwitch(k)'
      PROVE  pending'[k].on = voiceEnabled'
  <2>1. pending[old(k)].room = room /\ room # NoRoom
    BY <1>3, <1>5 DEF LastSwitch, SwitchesAreLive
  <2>2. ASSUME NEW j \in DOMAIN pending, j > old(k), pending[j].room # NoRoom
        PROVE  FALSE
    <3>1. j # i
      <4>1. ASSUME j = i PROVE FALSE
        <5>1. old(k) \in 1..(i - 1)
          BY <1>1, <1>2, <1>3, <1>5, <2>2, <4>1
        <5>2. pending[i].room = room
          BY <2>2, <4>1 DEF SwitchesAreLive
        <5> QED
          BY <5>1, <5>2, <2>1 DEF IsNext
      <4> QED
        BY <4>1
    <3>2. PICK m \in DOMAIN pending' : old(m) = j /\ m > k
      <4>1. CASE j < i
        <5>1. j \in DOMAIN pending' /\ j > k /\ old(j) = j
          BY <1>1, <1>2, <2>2, <4>1
        <5> QED
          BY <5>1
      <4>2. CASE j > i
        <5>1. j - 1 \in DOMAIN pending' /\ old(j - 1) = j
          BY <1>1, <1>2, <2>2, <4>2
        <5>2. j - 1 > k
          BY <1>1, <1>2, <2>2, <4>2
        <5> QED
          BY <5>1, <5>2
      <4> QED
        BY <1>1, <3>1, <4>1, <4>2
    <3> QED
      BY <1>3, <1>5, <2>2, <3>2 DEF LastSwitch
  <2>3. LastSwitch(old(k))
    BY <1>3, <2>1, <2>2 DEF LastSwitch
  <2> QED
    BY <1>3, <2>3 DEF LastIsWanted
<1> QED
  BY <1>4, <1>5 DEF LastIsWanted

\* A microphone switch that ends or fails keeps VoiceInv.
LEMMA SwitchedKeeps ==
  ASSUME ClientInv, VoiceInv, NEW i \in 1..MaxClicks, MicSwitched(i)
  PROVE  VoiceInv'
<1>1. i \in DOMAIN pending /\ pending[i] \in Switch /\ IsNext(i) /\ pending \in Seq(Switch)
  BY DEF MicSwitched, ClientInv, TypeOK
<1>2. /\ pending' = Without(pending, i)
      /\ UNCHANGED <<phase, room, voiceEnabled, active, audio>>
      /\ visible' = voiceEnabled /\ muted' = IF voiceEnabled THEN {} ELSE audio
  BY DEF MicSwitched, AfterSwitch, connVars
<1>3. SwitchesAreLive' /\ LastIsWanted'
  BY <1>1, <1>2, SwitchEnds DEF ClientInv, VoiceInv
<1>4. AgreesWhenDone'
  <2> SUFFICES ASSUME ~micFailed', \A k \in DOMAIN pending' : pending'[k].room = NoRoom
               PROVE  \A r \in InUse' : mic'[r] = voiceEnabled
    BY <1>2 DEF AgreesWhenDone, Agrees
  <2>1. ASSUME NEW j \in DOMAIN pending, j # i
        PROVE  pending[j].room = NoRoom
    <3>1. Len(pending) \in Nat /\ DOMAIN pending = 1..Len(pending)
      BY <1>1
    <3>2. DOMAIN pending' = 1..(Len(pending) - 1)
      <4>1. /\ Without(pending, i) \in Seq(Switch)
            /\ Len(Without(pending, i)) = Len(pending) - 1
        BY <1>1, WithoutType
      <4> QED
        BY <1>2, <4>1
    <3> DEFINE k == IF j < i THEN j ELSE j - 1
    <3>3. k \in DOMAIN pending' /\ j = IF k < i THEN k ELSE k + 1
      BY <1>1, <2>1, <3>1, <3>2
    <3>4. pending'[k] = IF k < i THEN pending[k] ELSE pending[k + 1]
      BY <1>1, <1>2, <3>3, WithoutElements
    <3> QED
      BY <3>3, <3>4
  <2>2. CASE pending[i].room = NoRoom
    <3>1. Agrees /\ UNCHANGED mic
      BY <1>1, <1>2, <2>1, <2>2 DEF MicSwitched, VoiceInv, AgreesWhenDone
    <3> QED
      BY <1>2, <3>1 DEF Agrees, InUse
  <2>3. CASE pending[i].room # NoRoom
    <3>1. LastSwitch(i)
      <4>1. \A j \in DOMAIN pending : j > i => j # i
        BY <1>1
      <4> QED
        BY <2>1, <2>3, <4>1 DEF LastSwitch
    <3>2. pending[i].on = voiceEnabled /\ pending[i].room = room
      BY <1>1, <2>3, <3>1 DEF VoiceInv, LastIsWanted, SwitchesAreLive
    <3>3. InUse' = {room} /\ room \in Rooms
      BY <1>2, <2>3, <3>2 DEF InUse, ClientInv, OneConnection, TypeOK
    <3>4. mic' = [mic EXCEPT ![room] = voiceEnabled]
      BY <2>3, <3>2 DEF MicSwitched
    <3> QED
      BY <3>3, <3>4 DEF ClientInv, TypeOK
  <2> QED
    BY <2>2, <2>3
<1> QED
  BY <1>2, <1>3, <1>4 DEF VoiceInv

LEMMA SwitchFailsKeeps ==
  ASSUME ClientInv, VoiceInv, NEW i \in 1..MaxClicks, MicFails(i)
  PROVE  VoiceInv'
<1>1. i \in DOMAIN pending /\ pending[i] \in Switch /\ IsNext(i) /\ pending \in Seq(Switch)
  BY DEF MicFails, ClientInv, TypeOK
<1>2. /\ pending' = Without(pending, i)
      /\ micFailed' = (micFailed \/ pending[i].room # NoRoom)
      /\ UNCHANGED <<phase, room, voiceEnabled, active, audio, visible, muted, mic>>
  BY DEF MicFails, connVars
<1>3. SwitchesAreLive' /\ LastIsWanted'
  BY <1>1, <1>2, SwitchEnds DEF ClientInv, VoiceInv
<1>4. AgreesWhenDone'
  <2> SUFFICES ASSUME ~micFailed', \A k \in DOMAIN pending' : pending'[k].room = NoRoom
               PROVE  Agrees'
    BY DEF AgreesWhenDone
  <2>1. ASSUME NEW j \in DOMAIN pending
        PROVE  pending[j].room = NoRoom
    <3>1. CASE j = i
      BY <1>2, <3>1
    <3>2. CASE j # i
      <4>1. Len(pending) \in Nat /\ DOMAIN pending = 1..Len(pending)
        BY <1>1
      <4>2. DOMAIN pending' = 1..(Len(pending) - 1)
        <5>1. /\ Without(pending, i) \in Seq(Switch)
              /\ Len(Without(pending, i)) = Len(pending) - 1
          BY <1>1, WithoutType
        <5> QED
          BY <1>2, <5>1
      <4> DEFINE k == IF j < i THEN j ELSE j - 1
      <4>3. k \in DOMAIN pending' /\ j = IF k < i THEN k ELSE k + 1
        BY <1>1, <3>2, <4>1, <4>2
      <4>4. pending'[k] = IF k < i THEN pending[k] ELSE pending[k + 1]
        BY <1>1, <1>2, <4>3, WithoutElements
      <4> QED
        BY <4>3, <4>4
    <3> QED
      BY <3>1, <3>2
  <2>2. Agrees
    BY <1>2, <2>1 DEF VoiceInv, AgreesWhenDone
  <2> QED
    BY <1>2, <2>2 DEF Agrees, InUse
<1> QED
  BY <1>2, <1>3, <1>4 DEF VoiceInv

\* Every step keeps VoiceInv: a Room that is lost takes its switches with it, and
\* one that is new starts with the voice off.
LEMMA VoiceInvariance ==
  ASSUME ClientInv, VoiceInv, [Next]_vars
  PROVE  VoiceInv'
<1>1. CASE ServeToken
  BY <1>1, ClientAssumption DEF ServeToken, connVars, voiceVars, VoiceInv, ClientInv,
     TypeOK, OneConnection, VoiceNeedsRoom, SwitchesAreLive, LastIsWanted, LastSwitch,
     AgreesWhenDone, Agrees, InUse
<1>2. CASE TokenFails
  BY <1>2, ClientAssumption DEF TokenFails, ConnectFailed, connVars, voiceVars, VoiceInv, ClientInv,
     TypeOK, OneConnection, VoiceNeedsRoom, SwitchesAreLive, LastIsWanted, LastSwitch,
     AgreesWhenDone, Agrees, InUse
<1>3. CASE TimerFires
  BY <1>3, ClientAssumption DEF TimerFires, connVars, voiceVars, VoiceInv, ClientInv,
     TypeOK, OneConnection, VoiceNeedsRoom, SwitchesAreLive, LastIsWanted, LastSwitch,
     AgreesWhenDone, Agrees, InUse
<1>4. ASSUME NEW r \in Rooms, JoinRoom(r)
      PROVE  VoiceInv'
  <2>1. room = NoRoom /\ InUse = {} /\ ~voiceEnabled
    BY <1>4, ClientAssumption DEF JoinRoom, ClientInv, TypeOK, OneConnection, VoiceNeedsRoom
  <2>2. \A i \in DOMAIN pending : pending[i].room = NoRoom
    BY <2>1 DEF VoiceInv, SwitchesAreLive
  <2>3. SwitchesAreLive' /\ LastIsWanted'
    BY <1>4, <2>2 DEF JoinRoom, SwitchesAreLive, LastIsWanted, LastSwitch
  <2>4. InUse' = {r} /\ mic'[r] = FALSE
    BY <1>4, <2>1 DEF JoinRoom, InUse, ClientInv, TypeOK
  <2>5. /\ UNCHANGED <<voiceEnabled, active, visible, muted, audio, micFailed>>
        /\ voiceEnabled = FALSE
    BY <1>4, <2>1 DEF JoinRoom, ClientInv, TypeOK
  <2>6. ~micFailed => Agrees
    BY <2>2 DEF VoiceInv, AgreesWhenDone
  <2>7. AgreesWhenDone'
    BY <2>4, <2>5, <2>6 DEF AgreesWhenDone, Agrees
  <2> QED
    BY <2>3, <2>5, <2>7 DEF VoiceInv
<1>5. ASSUME NEW r \in Rooms, Joined(r)
      PROVE  VoiceInv'
  BY <1>5, ClientAssumption DEF Joined, connVars, voiceVars, VoiceInv, ClientInv,
     TypeOK, OneConnection, VoiceNeedsRoom, SwitchesAreLive, LastIsWanted, LastSwitch,
     AgreesWhenDone, Agrees, InUse
<1>6. ASSUME NEW r \in Rooms, JoinFails(r)
      PROVE  VoiceInv'
  BY <1>6, ClientAssumption DEF JoinFails, ConnectFailed, connVars, voiceVars, VoiceInv, ClientInv,
     TypeOK, OneConnection, VoiceNeedsRoom, SwitchesAreLive, LastIsWanted, LastSwitch,
     AgreesWhenDone, Agrees, InUse
<1>7. ASSUME NEW r \in Rooms, Reconnecting(r)
      PROVE  VoiceInv'
  BY <1>7, ClientAssumption DEF Reconnecting, connVars, voiceVars, VoiceInv, ClientInv,
     TypeOK, OneConnection, VoiceNeedsRoom, SwitchesAreLive, LastIsWanted, LastSwitch,
     AgreesWhenDone, Agrees, InUse
<1>8. ASSUME NEW r \in Rooms, NEW t \in Tracks, TrackSubscribed(r, t)
      PROVE  VoiceInv'
  BY <1>8, ClientAssumption DEF TrackSubscribed, connVars, voiceVars, VoiceInv, ClientInv,
     TypeOK, OneConnection, VoiceNeedsRoom, SwitchesAreLive, LastIsWanted, LastSwitch,
     AgreesWhenDone, Agrees, InUse
<1>9. ASSUME NEW t \in Tracks, TrackUnsubscribed(t)
      PROVE  VoiceInv'
  BY <1>9, ClientAssumption DEF TrackUnsubscribed, connVars, voiceVars, VoiceInv, ClientInv,
     TypeOK, OneConnection, VoiceNeedsRoom, SwitchesAreLive, LastIsWanted, LastSwitch,
     AgreesWhenDone, Agrees, InUse
<1>10. CASE UNCHANGED vars
  BY <1>10, ClientAssumption DEF vars, connVars, voiceVars, VoiceInv, ClientInv,
     TypeOK, OneConnection, VoiceNeedsRoom, SwitchesAreLive, LastIsWanted, LastSwitch,
     AgreesWhenDone, Agrees, InUse
<1>11. CASE ClickVoice
  <2>1. /\ ready /\ room # NoRoom /\ phase[room] = "live"
        /\ UNCHANGED <<room, phase>> /\ active' = ~voiceEnabled /\ voiceEnabled' = ~voiceEnabled
        /\ pending' = Append(pending, [room |-> room, on |-> ~voiceEnabled])
    BY <1>11 DEF ClickVoice, connVars, ClientInv, VoiceNeedsRoom
  <2>2. /\ pending \in Seq(Switch) /\ Len(pending) \in Nat
        /\ [room |-> room, on |-> ~voiceEnabled] \in Switch
    BY DEF ClientInv, TypeOK, Switch
  <2>3. /\ DOMAIN pending' = 1..(Len(pending) + 1)
        /\ pending'[Len(pending) + 1] = [room |-> room, on |-> ~voiceEnabled]
        /\ \A k \in 1..Len(pending) : pending'[k] = pending[k]
    BY <2>1, <2>2
  <2>4. SwitchesAreLive'
    BY <2>1, <2>2, <2>3 DEF SwitchesAreLive, VoiceInv
  <2>5. ASSUME NEW k \in DOMAIN pending', LastSwitch(k)'
        PROVE  k = Len(pending) + 1
    BY <2>1, <2>2, <2>3, <2>5 DEF LastSwitch
  <2>6. LastIsWanted'
    BY <2>1, <2>3, <2>5 DEF LastIsWanted
  <2>7. AgreesWhenDone'
    BY <2>1, <2>2, <2>3 DEF AgreesWhenDone
  <2> QED
    BY <2>1, <2>4, <2>6, <2>7 DEF VoiceInv
<1>12. ASSUME NEW r \in Rooms, Disconnected(r)
       PROVE  VoiceInv'
  <2>1. /\ phase[r] \in {"joining", "live"} /\ InUse = {r} /\ room = r /\ r # NoRoom
    BY <1>12, ClientAssumption DEF Disconnected, ClientInv, TypeOK, OneConnection, InUse
  <2>2. ASSUME NEW i \in DOMAIN pending'
        PROVE  pending'[i].room = NoRoom
    <3>1. i \in DOMAIN pending /\ pending[i] \in Switch
      BY <1>12, <2>2 DEF Disconnected, ClientInv, TypeOK
    <3>2. pending'[i].room = IF pending[i].room = r THEN NoRoom ELSE pending[i].room
      BY <1>12, <3>1 DEF Disconnected, Switch
    <3> QED
      BY <2>1, <3>1, <3>2 DEF VoiceInv, SwitchesAreLive
  <2>3. SwitchesAreLive' /\ LastIsWanted'
    BY <2>2 DEF SwitchesAreLive, LastIsWanted, LastSwitch
  <2>4. Agrees'
    BY <1>12, <2>1 DEF Disconnected, VoiceOff, Agrees, InUse, ClientInv, TypeOK
  <2> QED
    BY <1>12, <2>3, <2>4 DEF Disconnected, VoiceOff, VoiceInv, AgreesWhenDone
<1> QED
  BY <1>1, <1>2, <1>3, <1>4, <1>5, <1>6, <1>7, <1>8, <1>9, <1>10, <1>11, <1>12,
     SwitchedKeeps, SwitchFailsKeeps DEF Next

\* VoiceInv is an invariant, and with it VoiceConsistent: whatever was clicked while
\* switches were pending and whatever Rooms and tracks came and went, button,
\* indicator, audio elements and microphone agree once no switch is pending, unless
\* the last one failed (the click and Disconnected handlers of room.ts).
THEOREM VoiceAgrees == Spec => []VoiceConsistent
<1>1. Init => VoiceInv
  <2> SUFFICES ASSUME Init PROVE VoiceInv
    OBVIOUS
  <2>1. DOMAIN pending = {}
    BY DEF Init
  <2>2. InUse = {}
    BY DEF Init, InUse
  <2> QED
    BY <2>1, <2>2 DEF Init, VoiceInv, SwitchesAreLive, LastIsWanted, AgreesWhenDone, Agrees
<1>2. ClientInv /\ VoiceInv /\ [Next]_vars => VoiceInv'
  BY VoiceInvariance
<1>3. VoiceInv => VoiceConsistent
  <2> SUFFICES ASSUME VoiceInv, pending = <<>>, ~micFailed
               PROVE  active = voiceEnabled /\ Agrees
    BY DEF VoiceConsistent, Agrees
  <2>1. \A i \in DOMAIN pending : pending[i].room = NoRoom
    OBVIOUS
  <2> QED
    BY <2>1 DEF VoiceInv, AgreesWhenDone
<1> QED
  BY <1>1, <1>2, <1>3, ClientInvariant, PTL DEF Spec
=============================================================================
