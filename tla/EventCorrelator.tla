--------------------------- MODULE EventCorrelator ---------------------------
(***************************************************************************)
(* src/services/eventCorrelator.js over quietMode.js: the first event of a *)
(* burst is pushed at once and opens a window; what follows is buffered    *)
(* and goes out as one message when the window closes, unless quiet mode   *)
(* holds it back.                                                          *)
(*                                                                         *)
(* process() and _flush() run without a break up to the call of            *)
(* lineService.pushMessage and do nothing to the state after it, so each   *)
(* is one step here and "reported" means handed to LINE.  What becomes of  *)
(* that call, and of the caller that awaits it, is AlertPipeline's.        *)
(***************************************************************************)
EXTENDS QuietMode, Sequences

CONSTANTS
    EventTypes,  \* the eventTypes that arrive
    WindowMs,    \* EVENT_CORRELATION_WINDOW_MS, in clock ticks
    MaxEvents    \* bound: number of events

MODE_CONFIRMATION_EVENT_TYPES == {"REMOTE_ARMED", "REMOTE_DISARMED"}
EMERGENCY_EVENT_TYPES == {"ALARM_ON", "WATER_LEAK", "SMOKE_DETECTED"}
TERMINAL_EVENT == "ALARM_ON"

ASSUME CorrelatorAssumption ==
    /\ EventTypes \subseteq STRING
    /\ WindowMs \in Nat \ {0}
    /\ MaxEvents \in Nat

VARIABLES
    openWindow,      \* NoWindow, or the events, opening time and timer
    pendingFlushes,  \* the window timers the event loop holds
    log,             \* history: every event processed, in order
    reports          \* history: every push, with the rests it came after

correlatorVars == <<openWindow, pendingFlushes, log, reports>>
vars == <<quietVars, correlatorVars>>

(* An event is named by its place in the log and remembers, for the        *)
(* properties only, how many rests came before it.                         *)
Event == [id : Nat, type : EventTypes, rest : Nat]
Window == [events : Seq(Event), openedAt : Nat, timer : Nat]
NoWindow == [events |-> <<>>, openedAt |-> 0, timer |-> 0]
Report == [events : Seq(Event), rest : Nat]

NewEvent(type) == [id |-> Len(log) + 1, type |-> type, rest |-> rests]

IsEmergency(e) == e.type \in EMERGENCY_EVENT_TYPES

LeadsWithEmergency(events) == events # <<>> /\ IsEmergency(events[1])

ContainsEmergency(events) ==
    \E i \in DOMAIN events : IsEmergency(events[i])

PassesAnyTimedQuiet(events) == ~quietIndefinite

(* The quiet gate of _push, for a single event or a chain.                 *)
PassesQuiet(events) ==
    IsQuiet => ~quietIndefinite /\ ContainsEmergency(events)

Push(events) ==
    reports' = IF events # <<>> /\ PassesQuiet(events)
               THEN Append(reports, [events |-> events, rest |-> rests])
               ELSE reports

(* Mode acknowledgements ignore quiet mode.                                *)
PushConfirmation(e) ==
    reports' = Append(reports, [events |-> <<e>>, rest |-> rests])

SpannedRestStrictly(w) == lastIndefiniteQuietAt > w.openedAt
SpannedRest(w) == lastIndefiniteQuietAt >= w.openedAt

AllEvents(w) == w.events

(* The opener was pushed when it came; only what followed it is left.      *)
FollowUps(w) == Tail(w.events)

FlushChecksRestFirst(w, timers) ==
    IF SpannedRest(w)
    THEN pendingFlushes' = timers /\ UNCHANGED <<openWindow, reports>>
    ELSE /\ openWindow' = NoWindow
         /\ pendingFlushes' = Cancel(timers, w.timer)
         /\ Push(FollowUps(w))

(* _flush of window w, which is openWindow or openWindow with the event    *)
(* that made it flush; the event loop holds the given timers.              *)
Flush(w, timers) ==
    /\ openWindow' = NoWindow
    /\ pendingFlushes' = Cancel(timers, w.timer)
    /\ IF SpannedRest(w) THEN UNCHANGED reports ELSE Push(FollowUps(w))

DiscardWindowForgetsTimer ==
    openWindow' = NoWindow /\ UNCHANGED pendingFlushes

DiscardWindow ==
    /\ openWindow' = NoWindow
    /\ pendingFlushes' = IF openWindow = NoWindow THEN pendingFlushes
                         ELSE Cancel(pendingFlushes, openWindow.timer)

OpenWindow(e) ==
    /\ openWindow' = [events |-> <<e>>, openedAt |-> now, timer |-> e.id]
    /\ pendingFlushes' = pendingFlushes
                           \cup {[handle |-> e.id, due |-> now + WindowMs]}
    /\ Push(<<e>>)

Buffer(e) ==
    LET w == [openWindow EXCEPT !.events = Append(@, e)]
    IN  IF e.type = TERMINAL_EVENT
        THEN Flush(w, pendingFlushes)
        ELSE openWindow' = w /\ UNCHANGED <<pendingFlushes, reports>>

(* process() of an event that is no mode acknowledgement.                  *)
ProcessIncident(type) ==
    /\ type \notin MODE_CONFIRMATION_EVENT_TYPES
    /\ LET e == NewEvent(type)
       IN  /\ log' = Append(log, e)
           /\ IF quietIndefinite THEN UNCHANGED <<openWindow, pendingFlushes, reports>>
              ELSE IF openWindow # NoWindow THEN Buffer(e) ELSE OpenWindow(e)

(* The remote's buttons: the message handler of app.js first switches      *)
(* quiet mode, then has the acknowledgement processed.                     *)
RemoteArmed ==
    /\ ClearQuiet
    /\ log' = Append(log, NewEvent("REMOTE_ARMED"))
    /\ PushConfirmation(NewEvent("REMOTE_ARMED"))
    /\ UNCHANGED <<openWindow, pendingFlushes>>

RemoteDisarmed ==
    /\ SetIndefiniteQuiet
    /\ log' = Append(log, NewEvent("REMOTE_DISARMED"))
    /\ PushConfirmation(NewEvent("REMOTE_DISARMED"))
    /\ DiscardWindow

WindowTimerFires ==
    \E t \in pendingFlushes :
        /\ t.due <= now
        /\ IF openWindow = NoWindow
           THEN /\ pendingFlushes' = pendingFlushes \ {t}
                /\ UNCHANGED <<openWindow, reports>>
           ELSE Flush(openWindow, pendingFlushes \ {t})
        /\ UNCHANGED <<log, quietVars>>

ClockTicks ==
    /\ MayTick(pendingWakes \cup pendingFlushes)
    /\ Tick
    /\ UNCHANGED correlatorVars

Init ==
    /\ QuietInit
    /\ openWindow = NoWindow
    /\ pendingFlushes = {}
    /\ log = <<>>
    /\ reports = <<>>

Process(type) ==
    CASE type = "REMOTE_ARMED" -> RemoteArmed
      [] type = "REMOTE_DISARMED" -> RemoteDisarmed
      [] OTHER -> ProcessIncident(type) /\ UNCHANGED quietVars

(* The group also commands quiet mode by LINE, unseen by the correlator.   *)
Next ==
    \/ Len(log) < MaxEvents /\ \E type \in EventTypes : Process(type)
    \/ WindowTimerFires
    \/ QuietCommand /\ UNCHANGED correlatorVars
    \/ WakeTimerFires /\ UNCHANGED correlatorVars
    \/ ClockTicks

Fairness == WF_vars(WindowTimerFires) /\ WF_vars(ClockTicks)

Spec == Init /\ [][Next]_vars /\ Fairness

-----------------------------------------------------------------------------
IsConfirmation(e) == e.type \in MODE_CONFIRMATION_EVENT_TYPES

IsReported(i) ==
    \E r \in DOMAIN reports : \E k \in DOMAIN reports[r].events :
        reports[r].events[k].id = i

IsWaiting(i) ==
    /\ openWindow # NoWindow
    /\ \E k \in 2 .. Len(openWindow.events) : openWindow.events[k].id = i

(* The events that are not reported and never will be.                     *)
Silenced == {i \in DOMAIN log : ~IsReported(i) /\ ~IsWaiting(i)}

(* Every variable keeps its type.                                          *)
TypeOK ==
    /\ QuietTypeOK
    /\ openWindow \in Window
    /\ pendingFlushes \in SUBSET Timers
    /\ log \in Seq(Event)
    /\ reports \in Seq(Report)

(* The event loop holds the timer of the open window and no other, so no   *)
(* window is ever flushed early by the timer of one flushed or discarded.  *)
OnlyTheOpenWindowFlushes ==
    pendingFlushes =
        IF openWindow = NoWindow THEN {}
        ELSE {[handle |-> openWindow.timer, due |-> openWindow.openedAt + WindowMs]}

(* Nothing is ever reported after a rest that came later than it: not by a *)
(* window that was open when the rest began, however it was ordered, even  *)
(* when the rest is over again by the time the window closes.              *)
NoStaleReport ==
    \A r \in DOMAIN reports : \A k \in DOMAIN reports[r].events :
        reports[r].events[k].rest = reports[r].rest

(* The siren is never left waiting for a window's timer.                   *)
SirenNeverWaits ==
    openWindow # NoWindow =>
        \A k \in 2 .. Len(openWindow.events) : openWindow.events[k].type # "ALARM_ON"

(* While resting, only mode acknowledgements go out; in a timed quiet,     *)
(* only they and what carries the siren, a leak or smoke do.               *)
QuietIsRespected ==
    [][\A r \in DOMAIN reports' \ DOMAIN reports :
        LET types == {reports'[r].events[k].type : k \in DOMAIN reports'[r].events}
        IN  IsQuiet' => \/ types \subseteq {"REMOTE_ARMED", "REMOTE_DISARMED"}
                        \/ /\ ~quietIndefinite'
                           /\ types \cap {"ALARM_ON", "WATER_LEAK", "SMOKE_DETECTED"} # {}
      ]_vars

(* An incident goes unreported only for rest, for a timed quiet (never an  *)
(* emergency), or because it shares a window with something older than the *)
(* last rest, or as old to the millisecond.                                *)
NothingLostOutsideQuiet ==
    [][\A i \in Silenced' \ Silenced :
        \/ quietIndefinite'
        \/ IsQuiet' /\ log'[i].type \notin {"ALARM_ON", "WATER_LEAK", "SMOKE_DETECTED"}
        \/ /\ openWindow # NoWindow
           /\ \/ openWindow.events[1].rest < rests
              \/ openWindow.openedAt = lastIndefiniteQuietAt
      ]_vars

(* A window stays open for its full length and keeps what it holds, unless *)
(* the siren or the remote's disarm button closes it.                      *)
WindowRunsItsCourse ==
    [][openWindow # NoWindow =>
        \/ /\ openWindow' # NoWindow
           /\ openWindow'.openedAt = openWindow.openedAt
           /\ Len(openWindow'.events) >= Len(openWindow.events)
        \/ now >= openWindow.openedAt + WindowMs
        \/ /\ Len(log') > Len(log)
           /\ log'[Len(log')].type \in {"ALARM_ON", "REMOTE_DISARMED"}
      ]_vars

(* The incidents a push tells of: an acknowledgement is pushed alone.      *)
Ids(events) ==
    IF \E k \in DOMAIN events : IsConfirmation(events[k]) THEN <<>>
    ELSE [k \in DOMAIN events |-> events[k].id]

Waiting == IF openWindow = NoWindow THEN <<>> ELSE Ids(Tail(openWindow.events))

Told == [r \in DOMAIN reports |-> Ids(reports[r].events)]

Promise == INSTANCE Incidents WITH arrived <- Len(log), waiting <- Waiting, told <- Told

(* No incident is reported twice, incidents are reported in the order they *)
(* came, the opener ahead of the window that follows it, and what a window *)
(* holds is reported, or dropped, as a whole, sooner or later.             *)
IncidentsAreToldInOrder == Promise!Spec

(* Every window closes, so nothing stays buffered for ever.                *)
WindowCloses ==
    \A i \in 1 .. MaxEvents :
        (openWindow # NoWindow /\ openWindow.timer = i)
            ~> (openWindow = NoWindow \/ openWindow.timer # i)

(* What the comment in _flush says of the windows it drops because a rest  *)
(* began after they opened: everything buffered here came before the rest. *)
DropsOnlyWhatCameBeforeRest ==
    [][\A i \in Silenced' \ Silenced :
        /\ ~IsQuiet'
        /\ openWindow # NoWindow /\ openWindow.openedAt < lastIndefiniteQuietAt
        => log'[i].rest < rests
      ]_vars

=============================================================================
