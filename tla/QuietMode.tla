------------------------------ MODULE QuietMode ------------------------------
(***************************************************************************)
(* src/services/quietMode.js: the two flavours of quiet (a timed           *)
(* "quiet N" that wakes by itself, and the indefinite one that "rest",     *)
(* i.e. disarming the house, switches on), the wake-up timer behind the    *)
(* first and the crash marker on disk behind both.                         *)
(*                                                                         *)
(* JavaScript runs one callback at a time, so every exported function is   *)
(* one step.  A timer may fire late but never early: Tick does not wait    *)
(* for due timers.  Other modules EXTEND this one and build their handlers *)
(* from its operations; its own Next is a group chat and a clock that use  *)
(* them in any order, with the process dying and booting at any point.     *)
(***************************************************************************)
EXTENDS Integers, FiniteSets

CONSTANTS
    Null,       \* JavaScript's null
    Minutes,    \* the durations a user asks for, in clock ticks
    DiskFails,  \* whether writing and reading the marker file may fail
    Horizon,    \* bound: the clock stops here, unless a timer is to come
    MaxQuiets,  \* bound: number of timed quiet periods
    MaxRests    \* bound: number of indefinite ones

ASSUME QuietAssumption ==
    /\ Null \notin Int
    /\ Minutes \subseteq Nat \ {0}
    /\ DiskFails \in BOOLEAN
    /\ Horizon \in Nat /\ MaxQuiets \in Nat /\ MaxRests \in Nat

VARIABLES
    now,                    \* Date.now(), never 0
    quietUntil,             \* end of the timed quiet, or Null
    quietIndefinite,        \* resting
    wakeTimer,              \* handle of the timer the module remembers
    pendingWakes,           \* the wake timers the event loop holds
    lastIndefiniteQuietAt,  \* Date.now() of the last rest, 0 before any
    marker,                 \* the crash marker file
    markerFailed,           \* history: whether touching it last failed
    recovered,              \* what the last boot found in it
    quiets,                 \* number of timed periods so far; names timers
    rests                   \* history: number of rests so far

quietVars == <<now, quietUntil, quietIndefinite, wakeTimer, pendingWakes,
               lastIndefiniteQuietAt, marker, markerFailed, recovered, quiets,
               rests>>

Timers == [handle : Nat, due : Nat]

Cancel(timers, h) == {t \in timers : t.handle # h}

IsQuiet == quietIndefinite \/ (quietUntil # Null /\ now < quietUntil)

WriteMarkerForgetsRemoval(m) ==
    /\ marker' = IF m = "none" THEN marker ELSE m
    /\ markerFailed' = FALSE

(* Best effort: on a disk error the file keeps what it had.                *)
WriteMarker(m) ==
    \/ marker' = m /\ markerFailed' = FALSE
    \/ DiskFails /\ marker' = marker /\ markerFailed' = TRUE

StopWakeTimerForgetsLoop == wakeTimer' = Null /\ UNCHANGED pendingWakes

StopWakeTimer ==
    /\ pendingWakes' = Cancel(pendingWakes, wakeTimer)
    /\ wakeTimer' = Null

QuietInit ==
    /\ now = 1
    /\ quietUntil = Null
    /\ quietIndefinite = FALSE
    /\ wakeTimer = Null
    /\ pendingWakes = {}
    /\ lastIndefiniteQuietAt = 0
    /\ marker = "none"
    /\ markerFailed = FALSE
    /\ recovered = "none"
    /\ quiets = 0
    /\ rests = 0

SetQuietStopsTheNewTimer(minutes) ==
    /\ quiets' = quiets + 1
    /\ quietIndefinite' = FALSE
    /\ quietUntil' = now + minutes
    /\ WriteMarker("timed")
    /\ wakeTimer' = quiets'
    /\ pendingWakes' = Cancel(pendingWakes, wakeTimer')
    /\ UNCHANGED <<now, lastIndefiniteQuietAt, recovered, rests>>

SetQuiet(minutes) ==
    /\ quiets' = quiets + 1
    /\ quietIndefinite' = FALSE
    /\ quietUntil' = now + minutes
    /\ WriteMarker("timed")
    /\ wakeTimer' = quiets'
    /\ pendingWakes' = Cancel(pendingWakes, wakeTimer)
                         \cup {[handle |-> quiets', due |-> now + minutes]}
    /\ UNCHANGED <<now, lastIndefiniteQuietAt, recovered, rests>>

SetIndefiniteQuiet ==
    /\ rests' = rests + 1
    /\ StopWakeTimer
    /\ quietUntil' = Null
    /\ quietIndefinite' = TRUE
    /\ lastIndefiniteQuietAt' = now
    /\ WriteMarker("indefinite")
    /\ UNCHANGED <<now, recovered, quiets>>

ClearQuiet ==
    /\ StopWakeTimer
    /\ quietUntil' = Null
    /\ quietIndefinite' = FALSE
    /\ WriteMarker("none")
    /\ UNCHANGED <<now, lastIndefiniteQuietAt, recovered, quiets, rests>>

(* The callback setQuiet hands to setTimeout; it ends in onWake(), the     *)
(* "I am back" message to the group.                                       *)
WakeTimerFires ==
    \E t \in pendingWakes :
        /\ t.due <= now
        /\ pendingWakes' = pendingWakes \ {t}
        /\ quietUntil' = Null
        /\ wakeTimer' = Null
        /\ WriteMarker("none")
        /\ UNCHANGED <<now, quietIndefinite, lastIndefiniteQuietAt, recovered,
                       quiets, rests>>

MayTick(timers) == now < Horizon \/ \E t \in timers : now < t.due

Tick ==
    /\ now' = now + 1
    /\ UNCHANGED <<quietUntil, quietIndefinite, wakeTimer, pendingWakes,
                   lastIndefiniteQuietAt, marker, markerFailed, recovered,
                   quiets, rests>>

(* The process dies, losing its memory and its timers, and boots:          *)
(* readCrashMarker consumes the marker.                                    *)
Restart ==
    /\ quietUntil' = Null
    /\ quietIndefinite' = FALSE
    /\ wakeTimer' = Null
    /\ pendingWakes' = {}
    /\ lastIndefiniteQuietAt' = 0
    /\ \/ recovered' = marker /\ marker' = "none" /\ markerFailed' = FALSE
       \/ /\ DiskFails /\ recovered' = "none"
          /\ marker' = marker /\ markerFailed' = TRUE
    /\ UNCHANGED <<now, quiets, rests>>

QuietCommand ==
    \/ quiets < MaxQuiets /\ \E minutes \in Minutes : SetQuiet(minutes)
    \/ rests < MaxRests /\ SetIndefiniteQuiet
    \/ ClearQuiet

QuietNext ==
    \/ QuietCommand
    \/ WakeTimerFires
    \/ MayTick(pendingWakes) /\ Tick
    \/ Restart

(* Timers fire and time passes; nothing else has to happen.                *)
QuietFairness == WF_quietVars(WakeTimerFires) /\ WF_quietVars(MayTick(pendingWakes) /\ Tick)

QuietSpec == QuietInit /\ [][QuietNext]_quietVars /\ QuietFairness

-----------------------------------------------------------------------------
(* Every variable keeps its type, and nothing is dated in the future.      *)
QuietTypeOK ==
    /\ now \in Nat \ {0}
    /\ quietUntil \in Nat \cup {Null}
    /\ quietIndefinite \in BOOLEAN
    /\ wakeTimer \in Nat \cup {Null}
    /\ pendingWakes \in SUBSET Timers
    /\ lastIndefiniteQuietAt \in 0 .. now
    /\ {marker, recovered} \subseteq {"none", "timed", "indefinite"}
    /\ markerFailed \in BOOLEAN
    /\ quiets \in Nat /\ rests \in Nat

(* The event loop never holds a wake-up timer but the one of the timed     *)
(* period in force: setQuiet, setIndefiniteQuiet, clearQuiet and the       *)
(* callback leave no stale timer behind, and rest holds none at all.       *)
OnlyTheCurrentPeriodWakes ==
    /\ pendingWakes = IF quietUntil = Null THEN {}
                      ELSE {[handle |-> wakeTimer, due |-> quietUntil]}
    /\ (quietUntil = Null) = (wakeTimer = Null)
    /\ quietIndefinite => quietUntil = Null

(* Unless the disk failed the last time it was touched, the marker is      *)
(* there exactly while a quiet period is in force (even one whose timer is *)
(* late), so finding it at boot means that the process died in one, and    *)
(* tells which flavour.                                                    *)
MarkerTellsHowTheProcessDied ==
    ~markerFailed =>
        marker = CASE quietIndefinite -> "indefinite"
                   [] quietUntil # Null -> "timed"
                   [] OTHER -> "none"

(* The "I am back" message is never sent while the bot is quiet, before or *)
(* after the step: no timer of a replaced period speaks up during a rest   *)
(* or cuts a longer quiet short.                                           *)
WakesOnlyWhenQuietIsOver ==
    [][WakeTimerFires => ~IsQuiet /\ ~IsQuiet']_quietVars

(* Each timed period ends: by its own timer, a command or the process's    *)
(* death.                                                                  *)
TimedQuietEnds ==
    \A h \in 1 .. MaxQuiets : (wakeTimer = h) ~> (wakeTimer # h)

=============================================================================
