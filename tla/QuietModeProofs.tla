-------------------------- MODULE QuietModeProofs --------------------------
(***************************************************************************)
(* Proofs about QuietMode.  QuietInv is inductive: the timer invariant     *)
(* needs the types (a handle is a number, Null is none) and the marker     *)
(* invariant needs the timer one, since only a timer of the period in      *)
(* force may delete the marker.                                            *)
(***************************************************************************)
EXTENDS QuietMode, TLAPS

QuietInv == QuietTypeOK /\ OnlyTheCurrentPeriodWakes /\ MarkerTellsHowTheProcessDied

USE QuietAssumption

(* clearTimeout of a null handle cancels nothing, since no timer is named  *)
(* Null.                                                                   *)
LEMMA CancelNull ==
    ASSUME NEW T \in SUBSET Timers
    PROVE  Cancel(T, Null) = T
BY DEF Cancel, Timers

(* After clearTimeout of the remembered timer the event loop holds none:   *)
(* each operation of quietMode.js starts from there.                       *)
LEMMA CancelEmpties ==
    ASSUME QuietTypeOK, OnlyTheCurrentPeriodWakes
    PROVE  Cancel(pendingWakes, wakeTimer) = {}
<1>1. CASE quietUntil = Null
  BY <1>1 DEF OnlyTheCurrentPeriodWakes, Cancel
<1>2. CASE quietUntil # Null
  <2>1. pendingWakes = {[handle |-> wakeTimer, due |-> quietUntil]}
    BY <1>2 DEF OnlyTheCurrentPeriodWakes
  <2> QED BY <2>1 DEF Cancel
<1> QED BY <1>1, <1>2

(* Whatever the disk does, the marker stays one of the things written.     *)
LEMMA WriteMarkerType ==
    ASSUME QuietTypeOK, NEW m \in {"none", "timed", "indefinite"}, WriteMarker(m),
           recovered' = recovered
    PROVE  {marker', recovered'} \subseteq {"none", "timed", "indefinite"}
           /\ markerFailed' \in BOOLEAN
BY DEF QuietTypeOK, WriteMarker

LEMMA QuietInitInv == QuietInit => QuietInv
<1> SUFFICES ASSUME QuietInit PROVE QuietInv
  OBVIOUS
<1>1. QuietTypeOK
  <2>1. 0 \in 0 .. 1 /\ 1 \in Nat \ {0}
    OBVIOUS
  <2>2. {} \in SUBSET Timers
    OBVIOUS
  <2> QED BY <2>1, <2>2 DEF QuietInit, QuietTypeOK
<1>2. OnlyTheCurrentPeriodWakes
  BY DEF QuietInit, OnlyTheCurrentPeriodWakes
<1>3. MarkerTellsHowTheProcessDied
  BY DEF QuietInit, MarkerTellsHowTheProcessDied
<1> QED BY <1>1, <1>2, <1>3 DEF QuietInv

LEMMA SetQuietInv ==
    ASSUME QuietInv, NEW minutes \in Minutes, SetQuiet(minutes)
    PROVE  QuietInv'
<1>1. Cancel(pendingWakes, wakeTimer) = {}
  BY CancelEmpties DEF QuietInv
<1>2. minutes \in Nat \ {0}
  OBVIOUS
<1>3. quiets' \in Nat /\ quietUntil' \in Nat /\ quietUntil' # Null /\ wakeTimer' # Null
  BY <1>2 DEF QuietInv, QuietTypeOK, SetQuiet
<1>4. pendingWakes' = {[handle |-> wakeTimer', due |-> quietUntil']}
  BY <1>1 DEF SetQuiet
<1>5. QuietTypeOK'
  <2>1. pendingWakes' \in SUBSET Timers
    BY <1>3, <1>4 DEF Timers, SetQuiet
  <2>2. /\ {marker', recovered'} \subseteq {"none", "timed", "indefinite"}
        /\ markerFailed' \in BOOLEAN
    BY WriteMarkerType DEF QuietInv, SetQuiet
  <2> QED BY <1>3, <2>1, <2>2 DEF QuietInv, QuietTypeOK, SetQuiet
<1>6. OnlyTheCurrentPeriodWakes'
  BY <1>3, <1>4 DEF OnlyTheCurrentPeriodWakes, SetQuiet
<1>7. MarkerTellsHowTheProcessDied'
  BY <1>3 DEF MarkerTellsHowTheProcessDied, SetQuiet, WriteMarker
<1> QED BY <1>5, <1>6, <1>7 DEF QuietInv

LEMMA SetIndefiniteQuietInv ==
    ASSUME QuietInv, SetIndefiniteQuiet
    PROVE  QuietInv'
<1>1. Cancel(pendingWakes, wakeTimer) = {}
  BY CancelEmpties DEF QuietInv
<1>2. QuietTypeOK'
  <2>1. /\ {marker', recovered'} \subseteq {"none", "timed", "indefinite"}
        /\ markerFailed' \in BOOLEAN
    BY WriteMarkerType DEF QuietInv, SetIndefiniteQuiet
  <2> QED BY <1>1, <2>1 DEF QuietInv, QuietTypeOK, SetIndefiniteQuiet, StopWakeTimer
<1>3. OnlyTheCurrentPeriodWakes'
  BY <1>1 DEF OnlyTheCurrentPeriodWakes, SetIndefiniteQuiet, StopWakeTimer
<1>4. MarkerTellsHowTheProcessDied'
  BY DEF MarkerTellsHowTheProcessDied, SetIndefiniteQuiet, StopWakeTimer, WriteMarker
<1> QED BY <1>2, <1>3, <1>4 DEF QuietInv

LEMMA ClearQuietInv ==
    ASSUME QuietInv, ClearQuiet
    PROVE  QuietInv'
<1>1. Cancel(pendingWakes, wakeTimer) = {}
  BY CancelEmpties DEF QuietInv
<1>2. QuietTypeOK'
  BY <1>1 DEF QuietInv, QuietTypeOK, ClearQuiet, StopWakeTimer, WriteMarker
<1>3. OnlyTheCurrentPeriodWakes'
  BY <1>1 DEF OnlyTheCurrentPeriodWakes, ClearQuiet, StopWakeTimer
<1>4. MarkerTellsHowTheProcessDied'
  BY DEF MarkerTellsHowTheProcessDied, ClearQuiet, StopWakeTimer, WriteMarker
<1> QED BY <1>2, <1>3, <1>4 DEF QuietInv

(* A wake timer that fires is that of the period in force, and leaves none *)
(* behind.                                                                 *)
LEMMA FiringTimer ==
    ASSUME QuietInv, NEW t \in pendingWakes
    PROVE  /\ t.due = quietUntil /\ quietUntil # Null
           /\ ~quietIndefinite
           /\ pendingWakes \ {t} = {}
<1>1. quietUntil # Null
  BY DEF QuietInv, OnlyTheCurrentPeriodWakes
<1>2. pendingWakes = {[handle |-> wakeTimer, due |-> quietUntil]}
  BY <1>1 DEF QuietInv, OnlyTheCurrentPeriodWakes
<1>3. t = [handle |-> wakeTimer, due |-> quietUntil]
  BY <1>2
<1>4. ~quietIndefinite
  BY <1>1 DEF QuietInv, OnlyTheCurrentPeriodWakes
<1> QED BY <1>1, <1>2, <1>3, <1>4

LEMMA WakeTimerFiresInv ==
    ASSUME QuietInv, WakeTimerFires
    PROVE  QuietInv'
<1>1. PICK t \in pendingWakes :
        /\ pendingWakes' = pendingWakes \ {t}
        /\ quietUntil' = Null
        /\ wakeTimer' = Null
        /\ WriteMarker("none")
        /\ UNCHANGED <<now, quietIndefinite, lastIndefiniteQuietAt, recovered,
                       quiets, rests>>
  BY DEF WakeTimerFires
<1>2. pendingWakes' = {} /\ ~quietIndefinite
  BY <1>1, FiringTimer
<1>3. QuietTypeOK'
  BY <1>1, <1>2 DEF QuietInv, QuietTypeOK, WriteMarker
<1>4. OnlyTheCurrentPeriodWakes'
  BY <1>1, <1>2 DEF OnlyTheCurrentPeriodWakes
<1>5. MarkerTellsHowTheProcessDied'
  BY <1>1, <1>2 DEF MarkerTellsHowTheProcessDied, WriteMarker
<1> QED BY <1>3, <1>4, <1>5 DEF QuietInv

LEMMA TickInv ==
    ASSUME QuietInv, Tick
    PROVE  QuietInv'
<1>1. QuietTypeOK'
  BY DEF QuietInv, QuietTypeOK, Tick
<1>2. OnlyTheCurrentPeriodWakes'
  BY DEF QuietInv, OnlyTheCurrentPeriodWakes, Tick
<1>3. MarkerTellsHowTheProcessDied'
  BY DEF QuietInv, MarkerTellsHowTheProcessDied, Tick
<1> QED BY <1>1, <1>2, <1>3 DEF QuietInv

LEMMA RestartInv ==
    ASSUME QuietInv, Restart
    PROVE  QuietInv'
<1>1. QuietTypeOK'
  <2>1. {marker', recovered'} \subseteq {"none", "timed", "indefinite"}
    BY DEF QuietInv, QuietTypeOK, Restart
  <2>2. 0 \in 0 .. now
    BY DEF QuietInv, QuietTypeOK
  <2> QED BY <2>1, <2>2 DEF QuietInv, QuietTypeOK, Restart
<1>2. OnlyTheCurrentPeriodWakes'
  BY DEF OnlyTheCurrentPeriodWakes, Restart
<1>3. MarkerTellsHowTheProcessDied'
  BY DEF MarkerTellsHowTheProcessDied, Restart
<1> QED BY <1>1, <1>2, <1>3 DEF QuietInv

(* Any operation of quiet mode, or none of them: what every module built   *)
(* on QuietMode does to its state while the process lives.                 *)
QuietStep ==
    \/ \E minutes \in Minutes : SetQuiet(minutes)
    \/ SetIndefiniteQuiet
    \/ ClearQuiet
    \/ WakeTimerFires
    \/ Tick
    \/ UNCHANGED quietVars

LEMMA QuietStepInv == QuietInv /\ QuietStep => QuietInv'
<1> SUFFICES ASSUME QuietInv, QuietStep
             PROVE  QuietInv'
  OBVIOUS
<1>1. ASSUME NEW minutes \in Minutes, SetQuiet(minutes) PROVE QuietInv'
  BY <1>1, SetQuietInv
<1>2. CASE SetIndefiniteQuiet
  BY <1>2, SetIndefiniteQuietInv
<1>3. CASE ClearQuiet
  BY <1>3, ClearQuietInv
<1>4. CASE WakeTimerFires
  BY <1>4, WakeTimerFiresInv
<1>5. CASE Tick
  BY <1>5, TickInv
<1>6. CASE UNCHANGED quietVars
  BY <1>6 DEF quietVars, QuietInv, QuietTypeOK, OnlyTheCurrentPeriodWakes,
              MarkerTellsHowTheProcessDied
<1> QED BY <1>1, <1>2, <1>3, <1>4, <1>5, <1>6 DEF QuietStep

LEMMA QuietNextInv == QuietInv /\ [QuietNext]_quietVars => QuietInv'
<1>1. [QuietNext]_quietVars => QuietStep \/ Restart
  BY DEF QuietNext, QuietCommand, QuietStep
<1> QED BY <1>1, QuietStepInv, RestartInv

(* Quiet mode keeps its types, holds the wake-up timer of the period in    *)
(* force and no other, and keeps a truthful marker: quietMode.js, all of   *)
(* its operations.                                                         *)
THEOREM QuietSafety ==
    QuietSpec => [](QuietTypeOK /\ OnlyTheCurrentPeriodWakes /\ MarkerTellsHowTheProcessDied)
<1>1. QuietInit => QuietInv
  BY QuietInitInv
<1>2. QuietInv /\ [QuietNext]_quietVars => QuietInv'
  BY QuietNextInv
<1>3. QuietInv => QuietTypeOK /\ OnlyTheCurrentPeriodWakes /\ MarkerTellsHowTheProcessDied
  BY DEF QuietInv
<1> QED BY <1>1, <1>2, <1>3, PTL DEF QuietSpec

(* onWake speaks only when the period it was set for is over and nothing   *)
(* else keeps the bot quiet: quietMode.js 87-102.                          *)
THEOREM WakeTellsTheTruth == QuietSpec => WakesOnlyWhenQuietIsOver
<1>1. QuietInv /\ [QuietNext]_quietVars => [WakeTimerFires => ~IsQuiet /\ ~IsQuiet']_quietVars
  <2> SUFFICES ASSUME QuietInv, WakeTimerFires
               PROVE  ~IsQuiet /\ ~IsQuiet'
    OBVIOUS
  <2>1. PICK t \in pendingWakes : /\ t.due <= now
                                  /\ quietUntil' = Null
                                  /\ quietIndefinite' = quietIndefinite
    BY DEF WakeTimerFires
  <2>2. t.due = quietUntil /\ quietUntil # Null /\ ~quietIndefinite
    BY <2>1, FiringTimer
  <2>3. ~(now < quietUntil)
    BY <2>1, <2>2 DEF QuietInv, QuietTypeOK
  <2> QED BY <2>1, <2>2, <2>3 DEF IsQuiet
<1> QED BY <1>1, QuietInitInv, QuietNextInv, PTL DEF QuietSpec, WakesOnlyWhenQuietIsOver

=============================================================================
