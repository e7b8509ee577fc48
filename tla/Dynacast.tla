------------------------------ MODULE Dynacast ------------------------------
(***************************************************************************)
(* Which quality of each codec a publisher is asked to send: the video     *)
(* DynacastManager and its quality per codec (pkg/rtc/dynacast).           *)
(*                                                                         *)
(* A change travels through four locks, one after the other: the wishes of *)
(* a codec, their maximum, the maximum of the codec in the manager, and    *)
(* what the manager has committed.  (From there an OpsQueue brings it to   *)
(* the publisher in the order of the commits; it is left out, as are       *)
(* ForceQuality, the audio manager and Close.)  Each caller is a goroutine of its own, and a *)
(* step what it does under one lock.  A subscriber's down track tells its  *)
(* wishes one after the other (maxLayerNotifierWorker).                    *)
(***************************************************************************)
EXTENDS Integers, FiniteSets

CONSTANTS
  Codecs,
  Regressing,  \* the codec that may be given up
  Target,      \* for this one
  Subscribers,
  OtherNodes,       \* other nodes that relay the track
  Best,        \* VideoQuality_HIGH; 0 stands for VideoQuality_OFF
  MaxCalls,    \* a bound: calls from outside,
  MaxAtOnce    \* and another: callers on their way at a time

Keys == Subscribers \cup OtherNodes
Callers == Keys \cup Codecs \cup {"regress", "clear", "force", "debounce"}

\* The codec given up and the one that takes over are not one and the same
\* (HandleReceiverCodecChange), and the timer of the manager has its own name.
ASSUME DynacastConstants ==
  /\ Best \in Nat /\ Keys # {}
  /\ {Regressing, Target} \subseteq Codecs /\ Regressing # Target
  /\ "debounce" \notin Keys \cup Codecs

Qualities == 0..Best

VARIABLES
  wishes,     \* per codec: maxSubscriberQuality and maxSubscriberNodeQuality
  highest,    \* per codec: dynacastQualityVideo.maxSubscribedQuality
  fresh,      \* per codec: its maximum was announced since it was reset (initialized)
  timer,      \* per codec: maxQualityTimer runs
  regressed,  \* the codecs with a regressTo
  takenWishes, \* the wishes RegressTo has taken for the other codec
  regressedCodec, \* the manager's set of the codecs that were given up
  wanted,     \* the manager's maxSubscribedQuality, of the codecs it has
  committed,  \* and committedMaxSubscribedQuality
  debouncePending, \* maxSubscribedQualityDebouncePending
  debounce,   \* the debounce timer runs with an update to do
  caller,     \* what each caller is about to do
  calls       \* how many there were

codecVars == <<wishes, highest, fresh, timer, regressed, takenWishes>>
managerVars == <<regressedCodec, wanted, committed, debouncePending, debounce>>
dynacastVars == <<codecVars, managerVars, caller, calls>>

MaxOf(S) == CHOOSE q \in S : \A r \in S : r <= q
NoWish == [k \in Keys |-> 0]
Nothing == [c \in {} |-> 0]
Resting == [at |-> "idle", codec |-> Target, quality |-> 0, force |-> FALSE]

DynacastInit ==
  /\ wishes = [c \in Codecs |-> NoWish]
  /\ highest = [c \in Codecs |-> 0]
  /\ fresh = [c \in Codecs |-> FALSE]
  /\ timer = [c \in Codecs |-> TRUE]
  /\ regressed = {} /\ takenWishes = NoWish
  /\ regressedCodec = {}
  /\ wanted = Nothing /\ committed = Nothing
  /\ debouncePending = FALSE /\ debounce = FALSE
  /\ caller = [x \in Callers |-> Resting]
  /\ calls = 0

Outside == calls < MaxCalls /\ calls' = calls + 1
GoOn(x, to) == caller' = [caller EXCEPT ![x].at = to]
FreeCaller(x) ==
  /\ caller[x] = Resting
  /\ Cardinality({y \in Callers : caller[y] # Resting}) < MaxAtOnce
Begin(x, to, codec, force) ==
  /\ FreeCaller(x)
  /\ caller' = [caller EXCEPT ![x] =
                  [Resting EXCEPT !.at = to, !.codec = codec, !.force = force]]
Return(x) == caller' = [caller EXCEPT ![x] = Resting]

----------------------------------------------------------------------------
(* The quality of a codec.                                                 *)

\* A subscriber or a node asks for a quality of a codec.
Notify(x, c, q) ==
  /\ Outside
  /\ FreeCaller(x)
  /\ caller' = [caller EXCEPT ![x] =
                  [Resting EXCEPT !.at = "set", !.codec = c, !.quality = q]]
  /\ UNCHANGED <<codecVars, managerVars>>

\* NotifySubscriberMaxQuality, NotifySubscriberNodeMaxQuality: the wish is kept,
\* passed on to the codec that took over, or left to the node to repeat.
SetWish(x) ==
  LET r == caller[x] IN
  /\ r.at = "set"
  /\ IF r.codec \in regressed
     THEN /\ UNCHANGED wishes
          /\ IF x \in OtherNodes THEN Return(x)
             ELSE caller' = [caller EXCEPT ![x].codec = Target]
     ELSE /\ wishes' = [wishes EXCEPT ![r.codec][x] = r.quality]
          /\ GoOn(x, "compute")
  /\ UNCHANGED <<highest, fresh, timer, regressed, takenWishes, managerVars, calls>>

\* ClearSubscriberNodes, for one codec.
ClearNodes(c) ==
  /\ Outside
  /\ Begin("clear", "compute", c, FALSE)
  /\ wishes' = [wishes EXCEPT ![c] = [k \in Keys |-> IF k \in OtherNodes THEN 0 ELSE @[k]]]
  /\ UNCHANGED <<highest, fresh, timer, regressed, takenWishes, managerVars>>

\* updateQualityChange, up to the end of its lock.
Highest(c) == MaxOf({wishes[c][k] : k \in Keys})
Compute(x) ==
  LET c == caller[x].codec IN
  /\ caller[x].at = "compute"
  /\ IF Highest(c) = highest[c] /\ fresh[c] /\ ~caller[x].force
     THEN Return(x) /\ UNCHANGED <<highest, fresh>>
     ELSE /\ highest' = [highest EXCEPT ![c] = Highest(c)]
          /\ fresh' = [fresh EXCEPT ![c] = TRUE]
          /\ caller' = [caller EXCEPT ![x] = [@ EXCEPT !.at = "report", !.quality = Highest(c)]]
  /\ UNCHANGED <<wishes, timer, regressed, takenWishes, managerVars, calls>>

\* startMaxQualityTimer's function: it stops the timer there is now, too.
TimerFires(c) ==
  /\ timer[c]
  /\ Begin(c, "compute", c, TRUE)
  /\ timer' = [timer EXCEPT ![c] = FALSE]
  /\ UNCHANGED <<wishes, highest, fresh, regressed, takenWishes, managerVars, calls>>

----------------------------------------------------------------------------
(* The manager.                                                            *)

\* OnUpdateMaxQualityForMime: the maximum arrives in the manager,
Report(x) ==
  LET c == caller[x].codec IN
  /\ caller[x].at = "report"
  /\ wanted' = IF c \in regressedCodec THEN wanted
               ELSE [d \in DOMAIN wanted \cup {c} |->
                       IF d = c THEN caller[x].quality ELSE wanted[d]]
  /\ caller' = [caller EXCEPT ![x] = [@ EXCEPT !.at = "update", !.force = FALSE]]
  /\ UNCHANGED <<codecVars, regressedCodec, committed, debouncePending, debounce, calls>>

\* and update commits it: at once when a codec is new or is wanted in a better
\* quality than before, after a while when there is only less to send.
Upgrades ==
  \/ DOMAIN wanted # DOMAIN committed
  \/ \E c \in DOMAIN wanted : committed[c] < wanted[c]
Commit ==
  /\ committed' = wanted
  /\ debouncePending' = FALSE /\ debounce' = FALSE
Update(x) ==
  /\ caller[x].at = "update"
  /\ IF wanted = Nothing \/ (~caller[x].force /\ wanted = committed)
     THEN UNCHANGED <<committed, debouncePending, debounce>>
     ELSE IF caller[x].force \/ Upgrades
     THEN Commit
     ELSE /\ debouncePending' = TRUE
          /\ debounce' = (debouncePending => debounce)
          /\ UNCHANGED committed
  /\ IF x = "regress"
     THEN caller' = [caller EXCEPT ![x] = [@ EXCEPT !.at = "stop"]]
     ELSE Return(x)
  /\ UNCHANGED <<codecVars, regressedCodec, wanted, calls>>

DebounceFires ==
  /\ debounce /\ debounce' = FALSE
  /\ Begin("debounce", "update", Target, TRUE)
  /\ UNCHANGED <<codecVars, regressedCodec, wanted, committed, debouncePending, calls>>

\* ForceUpdate, when the track is unmuted.
ForceUpdate ==
  /\ Outside
  /\ Begin("force", "update", Target, TRUE)
  /\ UNCHANGED <<codecVars, managerVars>>

\* HandleCodecRegression: the codec is switched off and the other one on,
Regress ==
  /\ Outside
  /\ FreeCaller("regress")
  /\ regressedCodec' = regressedCodec \cup {Regressing}
  /\ wanted' = [c \in DOMAIN wanted \cup {Regressing, Target} |->
                  IF c = Regressing THEN 0
                  ELSE IF c \in DOMAIN wanted THEN wanted[c] ELSE Best]
  /\ caller' = [caller EXCEPT !["regress"] =
                [Resting EXCEPT !.at = "update", !.codec = Regressing]]
  /\ UNCHANGED <<codecVars, committed, debouncePending, debounce>>
\* its timer stopped (Stop),
StopTimer ==
  /\ caller["regress"].at = "stop"
  /\ timer' = [timer EXCEPT ![Regressing] = FALSE]
  /\ GoOn("regress", "take")
  /\ UNCHANGED <<wishes, highest, fresh, regressed, takenWishes, managerVars, calls>>
\* its wishes taken (RegressTo),
TakeWishes ==
  /\ caller["regress"].at = "take"
  /\ regressed' = regressed \cup {Regressing}
  /\ takenWishes' = wishes[Regressing]
  /\ wishes' = [wishes EXCEPT ![Regressing] = NoWish]
  /\ caller' = [caller EXCEPT !["regress"] = [Resting EXCEPT !.at = "replace"]]
  /\ UNCHANGED <<highest, fresh, timer, managerVars, calls>>
\* and added to those of the other codec (Replace), which starts afresh.
Replace ==
  /\ caller["regress"].at = "replace"
  /\ wishes' = [wishes EXCEPT ![Target] = [k \in Keys |-> MaxOf({@[k], takenWishes[k]})]]
  /\ takenWishes' = NoWish
  /\ GoOn("regress", "reset")
  /\ UNCHANGED <<highest, fresh, timer, regressed, managerVars, calls>>

\* Mutant: Replace leaves the other codec as it is.
MutReset ==
  /\ caller["regress"].at = "reset"
  /\ Return("regress")
  /\ UNCHANGED <<codecVars, managerVars, calls>>

Reset ==
  /\ caller["regress"].at = "reset"
  /\ fresh' = [fresh EXCEPT ![Target] = FALSE]
  /\ timer' = [timer EXCEPT ![Target] = TRUE]
  /\ Return("regress")
  /\ UNCHANGED <<wishes, highest, regressed, takenWishes, managerVars, calls>>

\* Restart, when the publisher's track is taken up again: forget what was
\* committed, and tell the maximum of each codec in a while.
Restart ==
  /\ Outside
  /\ committed' = Nothing
  /\ fresh' = [c \in Codecs |-> FALSE]
  /\ timer' = [c \in Codecs |-> TRUE]
  /\ UNCHANGED <<wishes, highest, regressed, takenWishes, regressedCodec, wanted,
                 debouncePending, debounce, caller>>

DynacastNext ==
  \/ \E x \in Keys, c \in Codecs, q \in Qualities : Notify(x, c, q)
  \/ \E x \in Keys : SetWish(x)
  \/ \E x \in Callers : Compute(x) \/ Report(x) \/ Update(x)
  \/ \E c \in Codecs : ClearNodes(c) \/ TimerFires(c)
  \/ DebounceFires \/ ForceUpdate \/ Regress \/ StopTimer \/ TakeWishes \/ Replace \/ Reset
  \/ Restart

DynacastSpec == DynacastInit /\ [][DynacastNext]_dynacastVars

----------------------------------------------------------------------------
(* Properties.                                                             *)

CallersAt(place) == {x \in Callers : caller[x].at = place}

\* What is to be announced comes as long as something is still to be done.
Coming(c) ==
  \/ timer[c]
  \/ \E x \in Callers : caller[x].at \in {"compute", "report"} /\ caller[x].codec = c

\* A change that is not announced is never forgotten on the way: the maximum of
\* a codec is that of its wishes, or someone will compute it; what the manager
\* wants is committed, or someone will do so, at once unless it is less only and
\* the debounce timer runs.
NothingForgotten ==
  /\ \A c \in Codecs : highest[c] = Highest(c) \/ Coming(c) \/ c \in regressed
                        \/ (caller["regress"].at = "reset" /\ c = Target)
  /\ \/ wanted = committed
     \/ CallersAt("update") # {}
     \/ (committed = Nothing /\ \E c \in Codecs : Coming(c))
     \/ (~Upgrades /\ debouncePending /\ debounce)

\* When all is quiet the publisher sends what is wanted: of a codec that was
\* not given up, the highest quality asked for.
Quiet ==
  /\ CallersAt("idle") = Callers /\ ~debounce
  /\ \A c \in Codecs : ~timer[c]
SendsWhatIsWanted ==
  Quiet /\ committed # Nothing =>
    \A c \in DOMAIN committed \ regressedCodec : committed[c] = Highest(c)

=============================================================================
