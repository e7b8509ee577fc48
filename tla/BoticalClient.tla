---------------------------- MODULE BoticalClient ----------------------------
(***************************************************************************)
(* The browser client (client/src/room.ts, voice-state.ts) and the token   *)
(* endpoint it calls (src/token-server.ts).                                *)
(*                                                                         *)
(* The client is single threaded: an action is what runs between two       *)
(* awaits or event callbacks.  connect() fetches a token, creates a Room   *)
(* and joins; a failure or a Disconnected event schedules another call.    *)
(* A click on the voice button flips voiceEnabled at once and goes on when *)
(* the microphone has been switched, by which time the room may be gone.   *)
(*                                                                         *)
(* External: livekit-client.  It emits no event for a Room after its       *)
(* Disconnected, unsubscribes the tracks of a Room in the same turn as it  *)
(* emits Disconnected, rejects connect() of a Room that emitted it long    *)
(* before a timer of 2 s fires, and switches a Room's microphone in the    *)
(* order it is asked to.                                                   *)
(***************************************************************************)
EXTENDS Integers, Sequences

CONSTANTS
  Rooms,      \* Room objects; one that is done with stands for a new one
  NoRoom,     \* null
  Tracks,     \* audio tracks of the agents
  MaxClicks   \* bound on clicks whose microphone switch is pending

ASSUME ClientAssumption ==
  /\ NoRoom \notin Rooms
  /\ MaxClicks \in Nat \ {0}

VARIABLES
  asked,         \* connect() calls whose /api/token request is on its way
  answered,      \* those whose request the token server has handled
  phase,         \* per Room: "none", "joining" (connect awaited), "dropped"
                 \* (Disconnected, rejection to come), "live"
  room,          \* the module variable room
  timer,         \* reconnectTimer is armed
  status,        \* the badge: "connecting", "connected", "reconnecting"
  ready          \* voice button and text input are enabled

connVars == <<asked, answered, phase, room, timer, status, ready>>

VARIABLES
  voiceEnabled,  \* the module variable of room.ts
  active,        \* the voice button is shown active
  visible,       \* voiceEnabled of voice-state.ts: the indicator is shown
  pending,       \* pending setMicrophoneEnabled calls, in call order
  mic,           \* per Room: the microphone is published
  micFailed,     \* the last switch of the current Room's microphone failed
  audio,         \* tracks with an audio element (audioElements and the DOM)
  muted,         \* tracks whose element is muted
  greeted        \* voiceGreetingSent

voiceVars == <<voiceEnabled, active, visible, pending, mic, micFailed, audio,
               muted, greeted>>

vars == <<connVars, voiceVars>>

\* main.ts calls connect() when the page has loaded.
Init ==
  /\ asked        = 1
  /\ answered     = 0
  /\ phase        = [r \in Rooms |-> "none"]
  /\ room         = NoRoom
  /\ timer        = FALSE
  /\ status       = "connecting"
  /\ ready        = FALSE
  /\ voiceEnabled = FALSE
  /\ active       = FALSE
  /\ visible      = FALSE
  /\ pending      = <<>>
  /\ mic          = [r \in Rooms |-> FALSE]
  /\ micFailed    = FALSE
  /\ audio        = {}
  /\ muted        = {}
  /\ greeted      = FALSE

-----------------------------------------------------------------------------
(* Connecting.                                                             *)

\* The token server handles a request: it asks for one more agent (AgentDispatch)
\* and answers with a token whether that worked or not.
ServeToken ==
  /\ asked > 0
  /\ asked' = asked - 1
  /\ answered' = answered + 1
  /\ UNCHANGED <<phase, room, timer, status, ready, voiceVars>>

\* connect(): the token arrives, a Room is created and room.connect() called.
JoinRoom(r) ==
  /\ answered > 0
  /\ phase[r] = "none"
  /\ answered' = answered - 1
  /\ phase' = [phase EXCEPT ![r] = "joining"]
  /\ room' = r
  /\ mic' = [mic EXCEPT ![r] = FALSE]
  /\ UNCHANGED <<asked, timer, status, ready, voiceEnabled, active, visible,
                 pending, micFailed, audio, muted, greeted>>

\* The catch block of connect().
ConnectFailed ==
  /\ room' = NoRoom
  /\ timer' = TRUE
  /\ status' = "reconnecting"

\* connect(): the token request fails, handled by the server or not.
TokenFails ==
  /\ \/ asked > 0 /\ asked' = asked - 1 /\ UNCHANGED answered
     \/ answered > 0 /\ answered' = answered - 1 /\ UNCHANGED asked
  /\ ConnectFailed
  /\ UNCHANGED <<phase, ready, voiceVars>>

\* room.connect() resolves: the controls are enabled.
Joined(r) ==
  /\ phase[r] = "joining"
  /\ phase' = [phase EXCEPT ![r] = "live"]
  /\ status' = "connected"
  /\ ready' = TRUE
  /\ UNCHANGED <<asked, answered, room, timer, voiceVars>>

\* room.connect() rejects.
JoinFails(r) ==
  /\ phase[r] \in {"joining", "dropped"}
  /\ phase' = [phase EXCEPT ![r] = "none"]
  /\ ConnectFailed
  /\ UNCHANGED <<asked, answered, ready, voiceVars>>

\* Mutant: the Disconnected handler leaves voiceEnabled alone.
MutVoiceOffForgets ==
  /\ active' = FALSE
  /\ visible' = FALSE
  /\ UNCHANGED voiceEnabled

\* What Disconnected does to the voice controls.
VoiceOff ==
  /\ voiceEnabled' = FALSE
  /\ active' = FALSE
  /\ visible' = FALSE

\* The Disconnected event.  Its microphone switches can end, but change nothing.
Disconnected(r) ==
  /\ phase[r] \in {"joining", "live"}
  /\ phase' = [phase EXCEPT ![r] = IF @ = "live" THEN "none" ELSE "dropped"]
  /\ status' = "reconnecting"
  /\ ready' = FALSE
  /\ VoiceOff
  /\ room' = NoRoom
  /\ timer' = TRUE
  /\ audio' = {}
  /\ muted' = {}
  /\ mic' = [mic EXCEPT ![r] = FALSE]
  /\ micFailed' = FALSE
  /\ pending' = [i \in DOMAIN pending |->
                   [pending[i] EXCEPT !.room = IF @ = r THEN NoRoom ELSE @]]
  /\ UNCHANGED <<asked, answered, greeted>>

\* Mutant: the timer is armed again instead of connecting.
MutTimerRearms ==
  /\ timer
  /\ \A r \in Rooms : phase[r] # "dropped"
  /\ timer' = (room = NoRoom)
  /\ UNCHANGED <<asked, answered, phase, room, status, ready, voiceVars>>

\* The timer calls connect(), which does nothing if there is a room.
TimerFires ==
  /\ timer
  /\ \A r \in Rooms : phase[r] # "dropped"
  /\ timer' = FALSE
  /\ IF room = NoRoom THEN asked' = asked + 1 /\ status' = "connecting"
                      ELSE UNCHANGED <<asked, status>>
  /\ UNCHANGED <<answered, phase, room, ready, voiceVars>>

\* The SDK's own reconnection of a live Room.
Reconnecting(r) ==
  /\ phase[r] = "live"
  /\ \E s \in {"reconnecting", "connected"} : status' = s
  /\ UNCHANGED <<asked, answered, phase, room, timer, ready, voiceVars>>

-----------------------------------------------------------------------------
(* Voice.                                                                  *)

\* A click on the voice button, up to the await.
ClickVoice ==
  /\ ready
  /\ room # NoRoom
  /\ Len(pending) < MaxClicks
  /\ voiceEnabled' = ~voiceEnabled
  /\ active' = ~voiceEnabled
  /\ pending' = Append(pending, [room |-> room, on |-> ~voiceEnabled])
  /\ UNCHANGED <<connVars, visible, mic, micFailed, audio, muted, greeted>>

Without(s, i) == SubSeq(s, 1, i - 1) \o SubSeq(s, i + 1, Len(s))

\* The first of the pending switches of its Room.
IsNext(i) == \A j \in 1..(i - 1) : pending[j].room # pending[i].room

\* Mutant: the click handler goes on with the value it asked for.
MutAfterSwitch(on) ==
  /\ muted' = IF on THEN {} ELSE audio
  /\ visible' = on
  /\ greeted' = (greeted \/ on)

\* What the click handler does after the await: it reads voiceEnabled again.
AfterSwitch(on) ==
  /\ muted' = IF voiceEnabled THEN {} ELSE audio
  /\ visible' = voiceEnabled
  /\ greeted' = (greeted \/ voiceEnabled)

\* setMicrophoneEnabled resolves; on a Room that is gone it has no effect.
MicSwitched(i) ==
  LET p == pending[i] IN
  /\ i \in DOMAIN pending
  /\ IsNext(i)
  /\ pending' = Without(pending, i)
  /\ IF p.room = NoRoom
       THEN UNCHANGED <<mic, micFailed>>
       ELSE mic' = [mic EXCEPT ![p.room] = p.on] /\ micFailed' = FALSE
  /\ AfterSwitch(p.on)
  /\ UNCHANGED <<connVars, voiceEnabled, active, audio>>

\* setMicrophoneEnabled rejects (no permission, no device): nothing handles it.
MicFails(i) ==
  /\ i \in DOMAIN pending
  /\ IsNext(i)
  /\ pending' = Without(pending, i)
  /\ micFailed' = (micFailed \/ pending[i].room # NoRoom)
  /\ UNCHANGED <<connVars, voiceEnabled, active, visible, mic, audio, muted,
                 greeted>>

\* TrackSubscribed for an audio track.
TrackSubscribed(r, t) ==
  /\ phase[r] = "live"
  /\ t \notin audio
  /\ audio' = audio \cup {t}
  /\ muted' = IF voiceEnabled THEN muted ELSE muted \cup {t}
  /\ UNCHANGED <<connVars, voiceEnabled, active, visible, pending, mic,
                 micFailed, greeted>>

\* TrackUnsubscribed.
TrackUnsubscribed(t) ==
  /\ t \in audio
  /\ audio' = audio \ {t}
  /\ muted' = muted \ {t}
  /\ UNCHANGED <<connVars, voiceEnabled, active, visible, pending, mic,
                 micFailed, greeted>>

-----------------------------------------------------------------------------
Next ==
  \/ ServeToken \/ TokenFails \/ TimerFires \/ ClickVoice
  \/ \E r \in Rooms :
       \/ JoinRoom(r) \/ Joined(r) \/ JoinFails(r) \/ Disconnected(r)
       \/ Reconnecting(r)
       \/ \E t \in Tracks : TrackSubscribed(r, t)
  \/ \E i \in 1..MaxClicks : MicSwitched(i) \/ MicFails(i)
  \/ \E t \in Tracks : TrackUnsubscribed(t)

\* Timers fire, and join attempts end one way or the other.
Fairness ==
  /\ WF_vars(TimerFires)
  /\ WF_vars(\E r \in Rooms : Joined(r) \/ JoinFails(r))

Spec == Init /\ [][Next]_vars

FairSpec == Spec /\ Fairness

-----------------------------------------------------------------------------
(* Properties.                                                             *)

InUse == {r \in Rooms : phase[r] \in {"joining", "live"}}

Switch == [room : Rooms \cup {NoRoom}, on : BOOLEAN]

TypeOK ==
  /\ asked        \in Nat
  /\ answered     \in Nat
  /\ phase        \in [Rooms -> {"none", "joining", "dropped", "live"}]
  /\ room         \in Rooms \cup {NoRoom}
  /\ timer        \in BOOLEAN
  /\ status       \in {"connecting", "connected", "reconnecting"}
  /\ ready        \in BOOLEAN
  /\ voiceEnabled \in BOOLEAN
  /\ active       \in BOOLEAN
  /\ visible      \in BOOLEAN
  /\ pending      \in Seq(Switch) /\ Len(pending) <= MaxClicks
  /\ mic          \in [Rooms -> BOOLEAN]
  /\ micFailed    \in BOOLEAN
  /\ audio        \subseteq Tracks
  /\ muted        \subseteq audio
  /\ greeted      \in BOOLEAN

\* There is one connection, or one attempt at one, or one timer that will make
\* an attempt: a failing connect() that emits Disconnected first, and the two
\* places that arm the timer, never start a second (connect, Disconnected).
OneConnection ==
  /\ InUse = IF room = NoRoom THEN {} ELSE {room}
  /\ asked + answered
       + (IF timer THEN 1 ELSE 0) + (IF room # NoRoom THEN 1 ELSE 0) = 1
  /\ \A r \in Rooms : phase[r] = "dropped" => timer

\* The voice is only ever on in a live room whose controls are shown, so a
\* click handler that goes on after its await does not find a null room.
VoiceNeedsRoom ==
  /\ voiceEnabled => ready
  /\ ready => room # NoRoom /\ phase[room] = "live"

\* The inductive invariant.
ClientInv == TypeOK /\ OneConnection /\ VoiceNeedsRoom

\* When no microphone switch is pending and the last one did not fail, the
\* button, the indicator, every audio element and the microphone agree,
\* whatever was clicked while switches were pending and whatever rooms and
\* tracks came and went.
VoiceConsistent ==
  pending = <<>> /\ ~micFailed =>
    /\ active = voiceEnabled
    /\ visible = voiceEnabled
    /\ muted = IF voiceEnabled THEN {} ELSE audio
    /\ \A r \in InUse : mic[r] = voiceEnabled

\* Why: switches are pending of the current Room only, which is live, or of none;
\* the last of the Room's asks for what the button shows; and what is shown and
\* heard is right once none of the Room's is pending, unless the last of them failed.
SwitchesAreLive ==
  \A i \in DOMAIN pending : pending[i].room # NoRoom =>
    pending[i].room = room /\ phase[room] = "live"

LastSwitch(i) ==
  pending[i].room # NoRoom /\ \A j \in DOMAIN pending : j > i => pending[j].room = NoRoom

LastIsWanted == \A i \in DOMAIN pending : LastSwitch(i) => pending[i].on = voiceEnabled

Agrees ==
  /\ visible = voiceEnabled
  /\ muted = IF voiceEnabled THEN {} ELSE audio
  /\ \A r \in InUse : mic[r] = voiceEnabled

AgreesWhenDone ==
  ~micFailed /\ (\A i \in DOMAIN pending : pending[i].room = NoRoom) => Agrees

VoiceInv == active = voiceEnabled /\ SwitchesAreLive /\ LastIsWanted /\ AgreesWhenDone

\* The client never stops trying: over and over there is a request or a room
\* it is in.
KeepsTrying == []<>(asked + answered > 0 \/ \E r \in Rooms : phase[r] = "live")
=============================================================================
