----------------------- MODULE EventCorrelatorProofs -----------------------
(***************************************************************************)
(* Proofs about EventCorrelator.                                           *)
(*                                                                         *)
(* Quiet mode's part is QuietModeProofs', since every step of the          *)
(* correlator is one of QuietMode or leaves it alone.  NoStaleReport needs *)
(* WindowIsFresh: a window whose opening the last rest does not reach      *)
(* holds nothing from before that rest.  That holds because a rest that    *)
(* comes while the window is open is dated no earlier than its opening,    *)
(* which is why _flush compares with >=.                                   *)
(*                                                                         *)
(* After the safety and action properties come the refinement of           *)
(* Incidents, the events that a step takes up, and that each is told once. *)
(***************************************************************************)
EXTENDS EventCorrelator, QuietModeProofs, SequenceTheorems

WindowIsFresh ==
    openWindow # NoWindow =>
        /\ openWindow.events # <<>>
        /\ openWindow.openedAt \in 1 .. now
        /\ ~SpannedRest(openWindow) =>
               \A k \in DOMAIN openWindow.events : openWindow.events[k].rest = rests

CorrelatorInv ==
    TypeOK /\ WindowIsFresh /\ OnlyTheOpenWindowFlushes /\ NoStaleReport /\ SirenNeverWaits

Inv == QuietInv /\ CorrelatorInv

USE CorrelatorAssumption

(* Any operation of the correlator, or of quiet mode and the clock without *)
(* it, or none: what every module built on EventCorrelator does to its     *)
(* state while the process lives.  Next and its bounds are one of them.    *)
CorrelatorStep ==
    \/ \E type \in EventTypes : Process(type)
    \/ WindowTimerFires
    \/ QuietStep /\ UNCHANGED correlatorVars

LEMMA NextIsCorrelatorStep == [Next]_vars => CorrelatorStep
<1> SUFFICES ASSUME [Next]_vars PROVE CorrelatorStep
  OBVIOUS
<1>1. CASE QuietCommand /\ UNCHANGED correlatorVars
  BY <1>1 DEF QuietCommand, QuietStep, CorrelatorStep
<1>2. CASE (WakeTimerFires /\ UNCHANGED correlatorVars) \/ ClockTicks
  BY <1>2 DEF ClockTicks, QuietStep, CorrelatorStep
<1>3. CASE UNCHANGED vars
  BY <1>3 DEF vars, QuietStep, CorrelatorStep
<1> QED BY <1>1, <1>2, <1>3 DEF Next, CorrelatorStep

LEMMA QuietPart == CorrelatorStep => QuietStep
<1>1. ASSUME NEW type \in EventTypes, Process(type) PROVE QuietStep
  BY <1>1 DEF Process, RemoteArmed, RemoteDisarmed, QuietStep
<1>2. ASSUME WindowTimerFires PROVE QuietStep
  BY <1>2 DEF WindowTimerFires, QuietStep
<1> QED BY <1>1, <1>2 DEF CorrelatorStep

(* A push of events that came after the last rest is not stale.            *)
LEMMA PushInv ==
    ASSUME NEW events \in Seq(Event),
           \A k \in DOMAIN events : events[k].rest = rests,
           rests \in Nat, reports \in Seq(Report), NoStaleReport,
           reports' = Append(reports, [events |-> events, rest |-> rests])
    PROVE  reports' \in Seq(Report) /\ NoStaleReport'
<1> DEFINE new == [events |-> events, rest |-> rests]
<1>1. new \in Report
  BY DEF Report
<1>2. reports' \in Seq(Report)
  BY <1>1
<1>3. ASSUME NEW r \in DOMAIN reports', NEW k \in DOMAIN reports'[r].events
      PROVE  reports'[r].events[k].rest = reports'[r].rest
  <2>1. CASE r = Len(reports) + 1
    <3>1. reports'[r] = new
      BY <1>1, <2>1
    <3> QED BY <3>1, <1>3
  <2>2. CASE r # Len(reports) + 1
    <3>1. r \in DOMAIN reports /\ reports'[r] = reports[r]
      BY <1>1, <2>2
    <3> QED BY <3>1, <1>3 DEF NoStaleReport
  <2> QED BY <2>1, <2>2
<1> QED BY <1>2, <1>3 DEF NoStaleReport

LEMMA FlushInv ==
    ASSUME TypeOK, NoStaleReport,
           NEW w \in Window, w.events # <<>>,
           ~SpannedRest(w) => \A k \in DOMAIN w.events : w.events[k].rest = rests,
           NEW timers \in SUBSET Timers, Cancel(timers, w.timer) = {},
           Flush(w, timers), log' \in Seq(Event), UNCHANGED quietVars
    PROVE  CorrelatorInv'
<1>1. openWindow' = NoWindow /\ pendingFlushes' = {}
  BY DEF Flush
<1>2. NoWindow \in Window
  BY DEF NoWindow, Window
<1>3. reports' \in Seq(Report) /\ NoStaleReport'
  <2>1. CASE reports' = reports
    BY <2>1 DEF TypeOK, NoStaleReport
  <2>2. CASE reports' # reports
    <3>1. /\ ~SpannedRest(w)
          /\ reports' = Append(reports, [events |-> Tail(w.events), rest |-> rests])
      BY <2>2 DEF Flush, Push, FollowUps
    <3>2. w.events \in Seq(Event)
      BY DEF Window
    <3>3. /\ Tail(w.events) \in Seq(Event)
          /\ \A k \in DOMAIN Tail(w.events) : Tail(w.events)[k].rest = rests
      BY <3>1, <3>2
    <3> QED BY <3>1, <3>3, PushInv DEF TypeOK, QuietTypeOK
  <2> QED BY <2>1, <2>2
<1>4. QuietTypeOK' /\ log' \in Seq(Event)
  BY DEF TypeOK, QuietTypeOK, quietVars
<1> QED BY <1>1, <1>2, <1>3, <1>4 DEF CorrelatorInv, TypeOK, WindowIsFresh,
           OnlyTheOpenWindowFlushes, SirenNeverWaits

(* The event loop's timers while a window is open: cancelling the window's *)
(* leaves none.                                                            *)
LEMMA CancelWindowTimer ==
    ASSUME OnlyTheOpenWindowFlushes, openWindow # NoWindow
    PROVE  Cancel(pendingFlushes, openWindow.timer) = {}
BY DEF OnlyTheOpenWindowFlushes, Cancel

LEMMA NewEventType ==
    ASSUME TypeOK, NEW type \in EventTypes
    PROVE  NewEvent(type) \in Event /\ NewEvent(type).rest = rests
BY DEF NewEvent, Event, TypeOK, QuietTypeOK

LEMMA OpenWindowInv ==
    ASSUME CorrelatorInv, NEW type \in EventTypes, openWindow = NoWindow,
           OpenWindow(NewEvent(type)), log' = Append(log, NewEvent(type)),
           UNCHANGED quietVars
    PROVE  CorrelatorInv'
<1> DEFINE e == NewEvent(type)
           w == [events |-> <<e>>, openedAt |-> now, timer |-> e.id]
<1>1. e \in Event /\ e.rest = rests
  BY NewEventType DEF CorrelatorInv
<1> HIDE DEF e
<1>2. w \in Window /\ now \in Nat \ {0} /\ w # NoWindow
  <2>1. e.id \in Nat /\ <<e>> \in Seq(Event)
    BY <1>1 DEF Event
  <2>2. now \in Nat \ {0}
    BY DEF CorrelatorInv, TypeOK, QuietTypeOK
  <2>3. w \in Window
    BY <2>1, <2>2 DEF Window
  <2>4. w.openedAt # NoWindow.openedAt
    BY <2>2 DEF NoWindow
  <2> QED BY <2>2, <2>3, <2>4
<1>3. openWindow' = w /\ UNCHANGED quietVars /\ log' = Append(log, e)
  BY DEF OpenWindow, e
<1>4. pendingFlushes' = {[handle |-> e.id, due |-> now + WindowMs]}
  BY DEF OpenWindow, CorrelatorInv, OnlyTheOpenWindowFlushes, e
<1>5. reports' \in Seq(Report) /\ NoStaleReport'
  <2>1. CASE reports' = reports
    BY <2>1 DEF CorrelatorInv, TypeOK, NoStaleReport
  <2>2. CASE reports' # reports
    <3>1. reports' = Append(reports, [events |-> <<e>>, rest |-> rests])
      BY <2>2 DEF OpenWindow, Push, e
    <3>2. <<e>> \in Seq(Event) /\ \A k \in DOMAIN <<e>> : <<e>>[k].rest = rests
      BY <1>1
    <3> QED BY <3>1, <3>2, PushInv DEF CorrelatorInv, TypeOK, QuietTypeOK
  <2> QED BY <2>1, <2>2
<1>6. TypeOK'
  <2>1. QuietTypeOK'
    BY DEF CorrelatorInv, TypeOK, QuietTypeOK, quietVars
  <2>2. pendingFlushes' \in SUBSET Timers
    BY <1>1, <1>2, <1>4 DEF Timers, Event
  <2>3. log' \in Seq(Event)
    BY <1>1, <1>3 DEF CorrelatorInv, TypeOK
  <2> QED BY <1>2, <1>3, <1>5, <2>1, <2>2, <2>3 DEF TypeOK
<1>7. WindowIsFresh'
  <2>1. w.events # <<>> /\ w.openedAt \in 1 .. now
    BY <1>2
  <2>2. \A k \in DOMAIN w.events : w.events[k].rest = rests
    BY <1>1
  <2> QED BY <1>3, <2>1, <2>2 DEF WindowIsFresh, quietVars
<1>8. OnlyTheOpenWindowFlushes'
  BY <1>2, <1>3, <1>4 DEF OnlyTheOpenWindowFlushes
<1>9. SirenNeverWaits'
  BY <1>3 DEF SirenNeverWaits
<1> QED BY <1>5, <1>6, <1>7, <1>8, <1>9 DEF CorrelatorInv

LEMMA BufferInv ==
    ASSUME CorrelatorInv, NEW type \in EventTypes, openWindow # NoWindow,
           Buffer(NewEvent(type)), log' = Append(log, NewEvent(type)),
           UNCHANGED quietVars
    PROVE  CorrelatorInv'
<1> DEFINE e == NewEvent(type)
           w == [openWindow EXCEPT !.events = Append(@, e)]
<1>1. e \in Event /\ e.rest = rests
  BY NewEventType DEF CorrelatorInv
<1>2. openWindow \in Window /\ openWindow.events \in Seq(Event)
  BY DEF CorrelatorInv, TypeOK, Window
<1> HIDE DEF e
<1>3. /\ w \in Window
      /\ w.events = Append(openWindow.events, e)
      /\ w.openedAt = openWindow.openedAt
      /\ w.timer = openWindow.timer
  <2>1. Append(openWindow.events, e) \in Seq(Event)
    BY <1>1, <1>2
  <2>2. DOMAIN openWindow = {"events", "openedAt", "timer"}
    BY <1>2 DEF Window
  <2> QED BY <1>2, <2>1, <2>2 DEF Window
<1>4. SpannedRest(w) = SpannedRest(openWindow)
  BY <1>3 DEF SpannedRest
<1>5. w.events # <<>> /\ Len(w.events) = Len(openWindow.events) + 1
  BY <1>1, <1>2, <1>3
<1>6. ~SpannedRest(w) => \A k \in DOMAIN w.events : w.events[k].rest = rests
  BY <1>1, <1>2, <1>3, <1>4 DEF CorrelatorInv, WindowIsFresh
<1> HIDE DEF w
<1>7. Cancel(pendingFlushes, w.timer) = {}
  BY <1>3, CancelWindowTimer DEF CorrelatorInv
<1>8. log' \in Seq(Event)
  BY <1>1 DEF CorrelatorInv, TypeOK, e
<1>9. CASE type = "ALARM_ON"
  <2>1. Flush(w, pendingFlushes)
    BY <1>9 DEF Buffer, NewEvent, TERMINAL_EVENT, e, w
  <2> QED BY <1>3, <1>5, <1>6, <1>7, <1>8, <2>1, FlushInv DEF CorrelatorInv, TypeOK
<1>10. CASE type # "ALARM_ON"
  <2>1. openWindow' = w /\ UNCHANGED <<pendingFlushes, reports>>
    BY <1>10 DEF Buffer, NewEvent, TERMINAL_EVENT, e, w
  <2>2. w # NoWindow
    BY <1>5 DEF NoWindow
  <2>3. TypeOK'
    BY <1>3, <1>8, <2>1 DEF CorrelatorInv, TypeOK, QuietTypeOK, quietVars
  <2>4. WindowIsFresh'
    <3>1. w.openedAt \in 1 .. now
      BY <1>3 DEF CorrelatorInv, WindowIsFresh
    <3> QED BY <1>5, <1>6, <2>1, <3>1 DEF WindowIsFresh, SpannedRest, quietVars
  <2>5. OnlyTheOpenWindowFlushes'
    BY <1>3, <2>1, <2>2 DEF CorrelatorInv, OnlyTheOpenWindowFlushes
  <2>6. NoStaleReport'
    BY <2>1 DEF CorrelatorInv, NoStaleReport
  <2>7. SirenNeverWaits'
    <3>1. \A k \in 2 .. Len(w.events) : w.events[k].type # "ALARM_ON"
      <4> SUFFICES ASSUME NEW k \in 2 .. Len(w.events)
                   PROVE  w.events[k].type # "ALARM_ON"
        OBVIOUS
      <4>1. CASE k = Len(w.events)
        BY <1>2, <1>3, <1>5, <1>10, <4>1 DEF e, NewEvent
      <4>2. CASE k # Len(w.events)
        <5>1. k \in 2 .. Len(openWindow.events) /\ w.events[k] = openWindow.events[k]
          BY <1>1, <1>2, <1>3, <1>5, <4>2
        <5> QED BY <5>1 DEF CorrelatorInv, SirenNeverWaits
      <4> QED BY <4>1, <4>2
    <3> QED BY <2>1, <3>1 DEF SirenNeverWaits
  <2> QED BY <2>3, <2>4, <2>5, <2>6, <2>7 DEF CorrelatorInv
<1> QED BY <1>9, <1>10

(* Steps of quiet mode and the clock, which the correlator does not see:   *)
(* a rest only makes the open window spanned, and time only older.         *)
LEMMA QuietStepKeepsCorrelator ==
    ASSUME Inv, QuietStep, UNCHANGED correlatorVars
    PROVE  CorrelatorInv'
<1>1. QuietTypeOK'
  BY QuietStepInv DEF Inv, QuietInv
<1>2. TypeOK'
  BY <1>1 DEF Inv, CorrelatorInv, TypeOK, correlatorVars
<1>3. /\ now \in Nat /\ now' \in Nat /\ now <= now'
      /\ \/ rests' = rests /\ lastIndefiniteQuietAt' = lastIndefiniteQuietAt
         \/ lastIndefiniteQuietAt' = now
  BY <1>1 DEF Inv, QuietInv, QuietTypeOK, QuietStep, SetQuiet, SetIndefiniteQuiet,
              ClearQuiet, WakeTimerFires, Tick, quietVars
<1>4. WindowIsFresh'
  <2> SUFFICES ASSUME openWindow # NoWindow
               PROVE  /\ openWindow.events # <<>>
                      /\ openWindow.openedAt \in 1 .. now'
                      /\ lastIndefiniteQuietAt' < openWindow.openedAt =>
                           \A k \in DOMAIN openWindow.events : openWindow.events[k].rest = rests'
    <3>1. lastIndefiniteQuietAt' \in Nat
      BY <1>1 DEF QuietTypeOK
    <3>2. openWindow' = openWindow
      BY DEF correlatorVars
    <3>3. openWindow.openedAt \in Nat
      BY DEF Inv, CorrelatorInv, TypeOK, Window
    <3> QED BY <3>1, <3>2, <3>3 DEF WindowIsFresh, SpannedRest
  <2>1. openWindow.events # <<>> /\ openWindow.openedAt \in 1 .. now
    BY DEF Inv, CorrelatorInv, WindowIsFresh
  <2>2. CASE lastIndefiniteQuietAt' = now
    BY <1>3, <2>1, <2>2
  <2>3. CASE rests' = rests /\ lastIndefiniteQuietAt' = lastIndefiniteQuietAt
    <3>1. lastIndefiniteQuietAt \in Nat
      BY DEF Inv, QuietInv, QuietTypeOK
    <3> QED BY <1>3, <2>1, <2>3, <3>1 DEF Inv, CorrelatorInv, WindowIsFresh, SpannedRest
  <2> QED BY <1>3, <2>2, <2>3
<1> QED BY <1>2, <1>4 DEF Inv, CorrelatorInv, correlatorVars, OnlyTheOpenWindowFlushes,
           NoStaleReport, SirenNeverWaits

(* The confirmation push changes nothing but the reports.                  *)
LEMMA ConfirmationInv ==
    ASSUME CorrelatorInv, NEW type \in EventTypes, PushConfirmation(NewEvent(type)),
           log' = Append(log, NewEvent(type))
    PROVE  reports' \in Seq(Report) /\ NoStaleReport' /\ log' \in Seq(Event)
<1> DEFINE e == NewEvent(type)
<1>1. e \in Event /\ e.rest = rests
  BY NewEventType DEF CorrelatorInv
<1>2. reports' = Append(reports, [events |-> <<e>>, rest |-> rests])
  BY DEF PushConfirmation
<1>3. log' \in Seq(Event)
  BY <1>1 DEF CorrelatorInv, TypeOK
<1> HIDE DEF e
<1>4. <<e>> \in Seq(Event) /\ \A k \in DOMAIN <<e>> : <<e>>[k].rest = rests
  BY <1>1
<1> QED BY <1>2, <1>3, <1>4, PushInv DEF CorrelatorInv, TypeOK, QuietTypeOK

LEMMA RemoteArmedInv ==
    ASSUME Inv, "REMOTE_ARMED" \in EventTypes, RemoteArmed
    PROVE  CorrelatorInv'
<1>1. reports' \in Seq(Report) /\ NoStaleReport' /\ log' \in Seq(Event)
  BY ConfirmationInv DEF Inv, RemoteArmed
<1>2. QuietTypeOK'
  BY ClearQuietInv DEF Inv, QuietInv, RemoteArmed
<1>3. UNCHANGED <<openWindow, pendingFlushes, now, rests, lastIndefiniteQuietAt>>
  BY DEF RemoteArmed, ClearQuiet
<1> QED BY <1>1, <1>2, <1>3 DEF Inv, CorrelatorInv, TypeOK, WindowIsFresh, SpannedRest,
           OnlyTheOpenWindowFlushes, SirenNeverWaits

LEMMA RemoteDisarmedInv ==
    ASSUME Inv, "REMOTE_DISARMED" \in EventTypes, RemoteDisarmed
    PROVE  CorrelatorInv'
<1>1. reports' \in Seq(Report) /\ NoStaleReport' /\ log' \in Seq(Event)
  BY ConfirmationInv DEF Inv, RemoteDisarmed
<1>2. QuietTypeOK'
  BY SetIndefiniteQuietInv DEF Inv, QuietInv, RemoteDisarmed
<1>3. openWindow' = NoWindow /\ pendingFlushes' = {}
  BY CancelWindowTimer DEF Inv, CorrelatorInv, RemoteDisarmed, DiscardWindow,
                           OnlyTheOpenWindowFlushes
<1>4. NoWindow \in Window
  BY DEF NoWindow, Window
<1> QED BY <1>1, <1>2, <1>3, <1>4 DEF CorrelatorInv, TypeOK, WindowIsFresh,
           OnlyTheOpenWindowFlushes, SirenNeverWaits

LEMMA WindowTimerFiresInv ==
    ASSUME Inv, WindowTimerFires
    PROVE  CorrelatorInv'
<1>1. PICK t \in pendingFlushes :
        /\ openWindow # NoWindow => Flush(openWindow, pendingFlushes \ {t})
        /\ UNCHANGED <<log, quietVars>>
  BY DEF WindowTimerFires
<1>2. openWindow # NoWindow
  BY <1>1 DEF Inv, CorrelatorInv, OnlyTheOpenWindowFlushes
<1>3. /\ pendingFlushes \ {t} \in SUBSET Timers
      /\ Cancel(pendingFlushes \ {t}, openWindow.timer) = {}
  BY <1>2, CancelWindowTimer DEF Inv, CorrelatorInv, TypeOK, Cancel
<1>4. openWindow \in Window /\ log' \in Seq(Event)
  BY <1>1 DEF Inv, CorrelatorInv, TypeOK
<1> QED BY <1>1, <1>2, <1>3, <1>4, FlushInv DEF Inv, CorrelatorInv, WindowIsFresh

LEMMA ProcessIncidentInv ==
    ASSUME Inv, NEW type \in EventTypes, ProcessIncident(type), UNCHANGED quietVars
    PROVE  CorrelatorInv'
<1>1. log' = Append(log, NewEvent(type))
  BY DEF ProcessIncident
<1>2. CASE quietIndefinite
  <2>1. log' \in Seq(Event)
    BY <1>1, NewEventType DEF Inv, CorrelatorInv, TypeOK
  <2> QED BY <1>2, <2>1 DEF ProcessIncident, Inv, CorrelatorInv, TypeOK, QuietTypeOK, quietVars,
             WindowIsFresh, SpannedRest, OnlyTheOpenWindowFlushes, NoStaleReport, SirenNeverWaits
<1>3. CASE ~quietIndefinite /\ openWindow # NoWindow
  BY <1>1, <1>3, BufferInv DEF ProcessIncident, Inv
<1>4. CASE ~quietIndefinite /\ openWindow = NoWindow
  BY <1>1, <1>4, OpenWindowInv DEF ProcessIncident, Inv
<1> QED BY <1>2, <1>3, <1>4

LEMMA InitInv == Init => Inv
<1> SUFFICES ASSUME Init PROVE Inv
  OBVIOUS
<1>1. QuietInv
  BY QuietInitInv DEF Init
<1>2. NoWindow \in Window
  BY DEF NoWindow, Window
<1> QED BY <1>1, <1>2 DEF Init, Inv, QuietInv, CorrelatorInv, TypeOK, WindowIsFresh,
           OnlyTheOpenWindowFlushes, NoStaleReport, SirenNeverWaits

LEMMA StepInv == Inv /\ CorrelatorStep => Inv'
<1> SUFFICES ASSUME Inv, CorrelatorStep PROVE Inv'
  OBVIOUS
<1>1. QuietInv'
  BY QuietPart, QuietStepInv DEF Inv
<1>2. CorrelatorInv'
  <2>1. ASSUME NEW type \in EventTypes, Process(type) PROVE CorrelatorInv'
    <3>1. CASE type = "REMOTE_ARMED"
      BY <2>1, <3>1, RemoteArmedInv DEF Process
    <3>2. CASE type = "REMOTE_DISARMED"
      BY <2>1, <3>2, RemoteDisarmedInv DEF Process
    <3>3. CASE type \notin {"REMOTE_ARMED", "REMOTE_DISARMED"}
      <4>1. ProcessIncident(type) /\ UNCHANGED quietVars
        BY <2>1, <3>3 DEF Process
      <4> QED BY <4>1, ProcessIncidentInv
    <3> QED BY <3>1, <3>2, <3>3
  <2>2. CASE WindowTimerFires
    BY <2>2, WindowTimerFiresInv
  <2>3. CASE QuietStep /\ UNCHANGED correlatorVars
    BY <2>3, QuietStepKeepsCorrelator
  <2> QED BY <2>1, <2>2, <2>3 DEF CorrelatorStep
<1> QED BY <1>1, <1>2 DEF Inv

(* The types, the window's timer discipline and the siren's priority, for  *)
(* every choice of event types, window length and quiet durations.         *)
THEOREM CorrelatorSafety ==
    Spec => [](TypeOK /\ OnlyTheOpenWindowFlushes /\ SirenNeverWaits)
<1>1. Inv => TypeOK /\ OnlyTheOpenWindowFlushes /\ SirenNeverWaits
  BY DEF Inv, CorrelatorInv
<1> QED BY <1>1, InitInv, NextIsCorrelatorStep, StepInv, PTL DEF Spec

(* What eventCorrelator.js promises about rest: nothing from before a rest *)
(* is reported after it began, however the rest was ordered and whatever   *)
(* ended it.                                                               *)
THEOREM NothingStaleIsReported == Spec => []NoStaleReport
<1>1. Inv => NoStaleReport
  BY DEF Inv, CorrelatorInv
<1> QED BY <1>1, InitInv, NextIsCorrelatorStep, StepInv, PTL DEF Spec

-----------------------------------------------------------------------------
(* What a push adds.                                                       *)
LEMMA NewReport ==
    ASSUME reports \in Seq(Report), NEW events \in Seq(Event),
           reports' = Append(reports, [events |-> events, rest |-> rests]),
           NEW r \in DOMAIN reports' \ DOMAIN reports
    PROVE  reports'[r].events = events
<1>1. [events |-> events, rest |-> rests].events = events
  OBVIOUS
<1>2. r = Len(reports) + 1
  OBVIOUS
<1> QED BY <1>1, <1>2

Types(events) == {events[k].type : k \in DOMAIN events}

MayPass(events) ==
    IsQuiet' => \/ Types(events) \subseteq {"REMOTE_ARMED", "REMOTE_DISARMED"}
                \/ /\ ~quietIndefinite'
                   /\ Types(events) \cap {"ALARM_ON", "WATER_LEAK", "SMOKE_DETECTED"} # {}

LEMMA PushPasses ==
    ASSUME TypeOK, NEW events \in Seq(Event), Push(events), UNCHANGED quietVars,
           NEW r \in DOMAIN reports' \ DOMAIN reports
    PROVE  MayPass(reports'[r].events)
<1>1. PassesQuiet(events) /\ reports' = Append(reports, [events |-> events, rest |-> rests])
  BY DEF Push
<1>2. reports'[r].events = events
  BY <1>1, NewReport DEF TypeOK
<1>3. IsQuiet' <=> IsQuiet
  BY DEF IsQuiet, quietVars
<1>4. IsQuiet => ~quietIndefinite' /\ \E k \in DOMAIN events : events[k].type \in EMERGENCY_EVENT_TYPES
  BY <1>1 DEF PassesQuiet, ContainsEmergency, IsEmergency, quietVars
<1> QED BY <1>2, <1>3, <1>4 DEF MayPass, Types, EMERGENCY_EVENT_TYPES

LEMMA ConfirmationPasses ==
    ASSUME TypeOK, NEW type \in EventTypes, type \in MODE_CONFIRMATION_EVENT_TYPES,
           PushConfirmation(NewEvent(type)),
           NEW r \in DOMAIN reports' \ DOMAIN reports
    PROVE  MayPass(reports'[r].events)
<1> DEFINE e == NewEvent(type)
<1>1. e \in Event /\ e.type = type
  BY NewEventType DEF NewEvent
<1> HIDE DEF e
<1>2. <<e>> \in Seq(Event) /\ reports' = Append(reports, [events |-> <<e>>, rest |-> rests])
  BY <1>1 DEF PushConfirmation, e
<1>3. reports'[r].events = <<e>>
  BY <1>2, NewReport DEF TypeOK
<1> QED BY <1>1, <1>3 DEF MayPass, Types, MODE_CONFIRMATION_EVENT_TYPES

LEMMA FlushPasses ==
    ASSUME TypeOK, NEW w \in Window, w.events # <<>>, NEW timers, Flush(w, timers),
           UNCHANGED quietVars, NEW r \in DOMAIN reports' \ DOMAIN reports
    PROVE  MayPass(reports'[r].events)
<1>1. Push(FollowUps(w))
  BY DEF Flush
<1>2. FollowUps(w) \in Seq(Event)
  BY DEF FollowUps, Window
<1> QED BY <1>1, <1>2, PushPasses

(* The window with one more event, as _flush is handed it.                 *)
LEMMA LongerWindow ==
    ASSUME TypeOK, openWindow # NoWindow, NEW e \in Event
    PROVE  /\ [openWindow EXCEPT !.events = Append(@, e)] \in Window
           /\ [openWindow EXCEPT !.events = Append(@, e)].events # <<>>
<1> DEFINE longer == Append(openWindow.events, e)
<1>1. openWindow \in [events : Seq(Event), openedAt : Nat, timer : Nat]
  BY DEF TypeOK, Window
<1>2. openWindow.events \in Seq(Event)
  BY <1>1
<1>3. longer \in Seq(Event) /\ Len(longer) = Len(openWindow.events) + 1
  BY <1>2
<1>4. longer # <<>>
  BY <1>2, <1>3
<1> HIDE DEF longer
<1>5. [openWindow EXCEPT !.events = longer] \in Window
  BY <1>1, <1>3 DEF Window
<1>6. [openWindow EXCEPT !.events = longer].events = longer
  BY <1>1
<1> QED BY <1>4, <1>5, <1>6 DEF longer

(* Whatever is pushed, the gate let through.                               *)
LEMMA StepPasses ==
    Inv /\ CorrelatorStep
        => \A r \in DOMAIN reports' \ DOMAIN reports : MayPass(reports'[r].events)
<1> SUFFICES ASSUME Inv, CorrelatorStep, NEW r \in DOMAIN reports' \ DOMAIN reports
             PROVE  MayPass(reports'[r].events)
  OBVIOUS
<1>1. TypeOK /\ WindowIsFresh
  BY DEF Inv, CorrelatorInv
<1>2. ASSUME NEW type \in EventTypes, Process(type) PROVE MayPass(reports'[r].events)
  <2>1. CASE type \in MODE_CONFIRMATION_EVENT_TYPES
    BY <1>1, <1>2, <2>1, ConfirmationPasses
    DEF Process, RemoteArmed, RemoteDisarmed, MODE_CONFIRMATION_EVENT_TYPES
  <2>2. CASE type \notin MODE_CONFIRMATION_EVENT_TYPES
    <3> DEFINE e == NewEvent(type)
    <3>1. UNCHANGED quietVars /\ ProcessIncident(type) /\ e \in Event
      BY <1>1, <1>2, <2>2, NewEventType DEF Process, MODE_CONFIRMATION_EVENT_TYPES
    <3>2. CASE openWindow # NoWindow /\ Buffer(e)
      <4> DEFINE w == [openWindow EXCEPT !.events = Append(@, e)]
      <4>1. w \in Window /\ w.events # <<>>
        BY <1>1, <3>1, <3>2, LongerWindow
      <4>2. Flush(w, pendingFlushes)
        BY <3>2 DEF Buffer
      <4> QED BY <1>1, <3>1, <4>1, <4>2, FlushPasses
    <3>3. CASE OpenWindow(e)
      <4>1. <<e>> \in Seq(Event) /\ Push(<<e>>)
        BY <3>1, <3>3 DEF OpenWindow
      <4> QED BY <1>1, <3>1, <4>1, PushPasses
    <3> QED BY <3>1, <3>2, <3>3 DEF ProcessIncident
  <2> QED BY <2>1, <2>2
<1>3. CASE WindowTimerFires
  <2>1. PICK t \in pendingFlushes : Flush(openWindow, pendingFlushes \ {t})
    BY <1>3 DEF WindowTimerFires
  <2>2. openWindow # NoWindow
    BY <1>3 DEF WindowTimerFires, Inv, CorrelatorInv, OnlyTheOpenWindowFlushes
  <2> QED BY <1>1, <1>3, <2>1, <2>2, FlushPasses DEF WindowTimerFires, TypeOK, WindowIsFresh
<1> QED BY <1>2, <1>3 DEF CorrelatorStep, correlatorVars

(* The quiet gate, for any events, window and durations: what is pushed in *)
(* a rest or a timed quiet may pass it (eventCorrelator.js 187-222).       *)
THEOREM QuietIsKept == Spec => QuietIsRespected
<1>1. Inv /\ [Next]_vars
        => [\A r \in DOMAIN reports' \ DOMAIN reports : MayPass(reports'[r].events)]_vars
  BY NextIsCorrelatorStep, StepPasses
<1>2. QuietIsRespected <=> [][\A r \in DOMAIN reports' \ DOMAIN reports : MayPass(reports'[r].events)]_vars
  BY DEF QuietIsRespected, MayPass, Types
<1> QED BY <1>1, <1>2, InitInv, NextIsCorrelatorStep, StepInv, PTL DEF Spec

(* What WindowRunsItsCourse asks of a step.                                *)
Course ==
    openWindow # NoWindow =>
        \/ /\ openWindow' # NoWindow
           /\ openWindow'.openedAt = openWindow.openedAt
           /\ Len(openWindow'.events) >= Len(openWindow.events)
        \/ now >= openWindow.openedAt + WindowMs
        \/ /\ Len(log') > Len(log)
           /\ log'[Len(log')].type \in {"ALARM_ON", "REMOTE_DISARMED"}

LEMMA StepRunsItsCourse == Inv /\ CorrelatorStep => Course
<1> SUFFICES ASSUME Inv, CorrelatorStep, openWindow # NoWindow
             PROVE  Course
  BY DEF Course
<1> USE DEF Course
<1>1. TypeOK /\ openWindow.events \in Seq(Event)
  BY DEF Inv, CorrelatorInv, TypeOK, Window
<1>2. UNCHANGED openWindow => Course
  BY <1>1
<1>3. ASSUME NEW type \in EventTypes, Process(type) PROVE Course
  <2> DEFINE e == NewEvent(type)
  <2>1. e \in Event /\ e.type = type
    BY <1>1, NewEventType DEF NewEvent
  <2>2. log' = Append(log, e)
    BY <1>3, <2>1 DEF Process, RemoteArmed, RemoteDisarmed, ProcessIncident
  <2> HIDE DEF e
  <2>3. Len(log') > Len(log) /\ log'[Len(log')].type = type
    BY <1>1, <2>1, <2>2 DEF TypeOK
  <2>4. CASE type \in {"ALARM_ON", "REMOTE_DISARMED"}
    BY <2>3, <2>4
  <2>5. CASE type = "REMOTE_ARMED"
    BY <1>2, <1>3, <2>5 DEF Process, RemoteArmed
  <2>6. CASE type \notin {"ALARM_ON", "REMOTE_DISARMED", "REMOTE_ARMED"}
    <3>1. \/ UNCHANGED openWindow
          \/ openWindow' = [openWindow EXCEPT !.events = Append(@, e)]
      <4>1. ProcessIncident(type) /\ type # TERMINAL_EVENT
        BY <1>3, <2>6 DEF Process, TERMINAL_EVENT
      <4>2. \/ UNCHANGED openWindow
            \/ Buffer(e)
        BY <4>1 DEF ProcessIncident, e
      <4> QED BY <2>1, <4>1, <4>2 DEF Buffer
    <3>2. CASE openWindow' = [openWindow EXCEPT !.events = Append(@, e)]
      <4>1. /\ openWindow'.openedAt = openWindow.openedAt
            /\ openWindow'.events = Append(openWindow.events, e)
        BY <1>1, <3>2 DEF TypeOK, Window
      <4>2. Len(openWindow'.events) = Len(openWindow.events) + 1
        BY <1>1, <2>1, <4>1
      <4>3. openWindow' # NoWindow
        BY <4>2, <1>1 DEF NoWindow
      <4> QED BY <1>1, <4>1, <4>2, <4>3
    <3> QED BY <1>2, <3>1, <3>2
  <2> QED BY <2>4, <2>5, <2>6
<1>4. CASE WindowTimerFires
  <2>1. PICK t \in pendingFlushes : t.due <= now
    BY <1>4 DEF WindowTimerFires
  <2>2. t.due = openWindow.openedAt + WindowMs
    BY <2>1 DEF Inv, CorrelatorInv, OnlyTheOpenWindowFlushes
  <2> QED BY <2>1, <2>2
<1> QED BY <1>2, <1>3, <1>4 DEF CorrelatorStep, correlatorVars

(* A window stays open for its length, for any length, and only the siren  *)
(* and the disarm button shorten it (eventCorrelator.js 88-135).           *)
THEOREM WindowsRunTheirCourse == Spec => WindowRunsItsCourse
<1>1. Inv /\ [Next]_vars => [Course]_vars
  BY NextIsCorrelatorStep, StepRunsItsCourse
<1>2. WindowRunsItsCourse <=> [][Course]_vars
  BY DEF WindowRunsItsCourse, Course
<1> QED BY <1>1, <1>2, InitInv, NextIsCorrelatorStep, StepInv, PTL DEF Spec

-----------------------------------------------------------------------------
(* What the window holds is in the log.                                    *)
HeldIsLogged ==
    openWindow # NoWindow =>
        \A k \in DOMAIN openWindow.events :
            /\ openWindow.events[k].id \in DOMAIN log
            /\ log[openWindow.events[k].id] = openWindow.events[k]

(* A rest that reaches the window's opening came after its opener, or in   *)
(* the same millisecond.                                                   *)
SpannedIsOld ==
    openWindow # NoWindow =>
        /\ openWindow.events[1].rest <= rests
        /\ SpannedRest(openWindow) => \/ openWindow.events[1].rest < rests
                                      \/ openWindow.openedAt = lastIndefiniteQuietAt

LossInv == HeldIsLogged /\ SpannedIsOld

(* A step that leaves the window alone.                                    *)
LEMMA SameWindowLossInv ==
    ASSUME Inv, LossInv, UNCHANGED openWindow,
           \/ log' = log
           \/ \E e \in Event : log' = Append(log, e),
           \/ UNCHANGED <<rests, lastIndefiniteQuietAt>>
           \/ rests' = rests + 1
    PROVE  LossInv'
<1> SUFFICES ASSUME openWindow # NoWindow PROVE LossInv'
  BY DEF LossInv, HeldIsLogged, SpannedIsOld
<1>1. /\ log \in Seq(Event) /\ openWindow \in Window /\ rests \in Nat
      /\ openWindow.events \in Seq(Event) /\ openWindow.events # <<>>
  BY DEF Inv, QuietInv, CorrelatorInv, TypeOK, QuietTypeOK, WindowIsFresh, Window
<1>2. HeldIsLogged'
  <2> SUFFICES ASSUME NEW k \in DOMAIN openWindow.events
               PROVE  /\ openWindow.events[k].id \in DOMAIN log'
                      /\ log'[openWindow.events[k].id] = openWindow.events[k]
    BY DEF HeldIsLogged
  <2>1. /\ openWindow.events[k].id \in DOMAIN log
        /\ log[openWindow.events[k].id] = openWindow.events[k]
    BY DEF LossInv, HeldIsLogged
  <2> QED BY <1>1, <2>1
<1>3. SpannedIsOld'
  <2>1. openWindow.events[1].rest \in Nat
    <3>1. openWindow.events[1] \in Event
      BY <1>1
    <3> QED BY <3>1 DEF Event
  <2>2. CASE UNCHANGED <<rests, lastIndefiniteQuietAt>>
    BY <2>2 DEF LossInv, SpannedIsOld, SpannedRest
  <2>3. CASE rests' = rests + 1
    <3>1. openWindow.events[1].rest <= rests
      BY DEF LossInv, SpannedIsOld
    <3>2. openWindow'.events[1].rest < rests'
      BY <1>1, <2>1, <2>3, <3>1
    <3>3. openWindow'.events[1].rest <= rests'
      BY <1>1, <2>1, <2>3, <3>1
    <3> QED BY <3>2, <3>3 DEF SpannedIsOld
  <2> QED BY <2>2, <2>3
<1> QED BY <1>2, <1>3 DEF LossInv

LEMMA ProcessIncidentLossInv ==
    ASSUME Inv, LossInv, NEW type \in EventTypes, ProcessIncident(type), UNCHANGED quietVars
    PROVE  LossInv'
<1> DEFINE e == NewEvent(type)
<1>1. /\ e \in Event /\ e.rest = rests /\ e.id = Len(log) + 1
      /\ log' = Append(log, e) /\ UNCHANGED <<rests, lastIndefiniteQuietAt>>
  BY NewEventType DEF NewEvent, ProcessIncident, Inv, CorrelatorInv, quietVars
<1>2. /\ log \in Seq(Event) /\ openWindow \in Window /\ now \in Nat \ {0} /\ rests \in Nat
      /\ lastIndefiniteQuietAt \in 0 .. now
      /\ openWindow.events \in Seq(Event)
  BY DEF Inv, QuietInv, CorrelatorInv, TypeOK, QuietTypeOK, Window
<1>3. CASE UNCHANGED openWindow
  BY <1>1, <1>3, SameWindowLossInv
<1>4. CASE openWindow' = NoWindow
  BY <1>4 DEF LossInv, HeldIsLogged, SpannedIsOld
<1>5. CASE openWindow = NoWindow /\ OpenWindow(e)
  <2>1. openWindow'.events = <<e>> /\ openWindow'.openedAt = now
    BY <1>5 DEF OpenWindow
  <2>2. HeldIsLogged'
    BY <1>1, <1>2, <2>1 DEF HeldIsLogged
  <2>3. SpannedIsOld'
    BY <1>1, <1>2, <2>1 DEF SpannedIsOld, SpannedRest
  <2> QED BY <2>2, <2>3 DEF LossInv
<1>6. CASE openWindow # NoWindow /\ openWindow' = [openWindow EXCEPT !.events = Append(@, e)]
  <2>1. openWindow.events # <<>>
    BY <1>6 DEF Inv, CorrelatorInv, WindowIsFresh
  <2>2. /\ openWindow'.events = Append(openWindow.events, e)
        /\ openWindow'.openedAt = openWindow.openedAt
    BY <1>2, <1>6 DEF Window
  <2>3. HeldIsLogged'
    <3> SUFFICES ASSUME NEW k \in DOMAIN openWindow'.events
                 PROVE  /\ openWindow'.events[k].id \in DOMAIN log'
                        /\ log'[openWindow'.events[k].id] = openWindow'.events[k]
      BY DEF HeldIsLogged
    <3>1. CASE k = Len(openWindow.events) + 1
      BY <1>1, <1>2, <2>2, <3>1
    <3>2. CASE k # Len(openWindow.events) + 1
      <4>1. k \in DOMAIN openWindow.events /\ openWindow'.events[k] = openWindow.events[k]
        BY <1>1, <1>2, <2>2, <3>2
      <4>2. /\ openWindow.events[k].id \in DOMAIN log
            /\ log[openWindow.events[k].id] = openWindow.events[k]
        BY <1>6, <4>1 DEF LossInv, HeldIsLogged
      <4> QED BY <1>1, <1>2, <4>1, <4>2
    <3> QED BY <3>1, <3>2
  <2>4. openWindow'.events[1] = openWindow.events[1]
    BY <1>1, <1>2, <2>1, <2>2
  <2>5. SpannedIsOld'
    BY <1>1, <1>6, <2>2, <2>4 DEF LossInv, SpannedIsOld, SpannedRest
  <2> QED BY <2>3, <2>5 DEF LossInv
<1>7. CASE quietIndefinite
  BY <1>3, <1>7 DEF ProcessIncident
<1>8. CASE ~quietIndefinite /\ openWindow # NoWindow
  BY <1>4, <1>6, <1>8 DEF ProcessIncident, Buffer, Flush
<1>9. CASE ~quietIndefinite /\ openWindow = NoWindow
  BY <1>5, <1>9 DEF ProcessIncident
<1> QED BY <1>7, <1>8, <1>9

LEMMA StepLossInv == Inv /\ LossInv /\ CorrelatorStep => LossInv'
<1> SUFFICES ASSUME Inv, LossInv, CorrelatorStep PROVE LossInv'
  OBVIOUS
<1>1. ASSUME NEW type \in EventTypes, Process(type) PROVE LossInv'
  <2>1. CASE type = "REMOTE_ARMED"
    <3>1. NewEvent("REMOTE_ARMED") \in Event
      BY <1>1, <2>1, NewEventType DEF Inv, CorrelatorInv
    <3> QED BY <1>1, <2>1, <3>1, SameWindowLossInv DEF Process, RemoteArmed, ClearQuiet
  <2>2. CASE type = "REMOTE_DISARMED"
    <3>1. openWindow' = NoWindow
      BY <1>1, <2>2 DEF Process, RemoteDisarmed, DiscardWindow
    <3> QED BY <3>1 DEF LossInv, HeldIsLogged, SpannedIsOld
  <2>3. CASE type \notin {"REMOTE_ARMED", "REMOTE_DISARMED"}
    <3>1. ProcessIncident(type) /\ UNCHANGED quietVars
      BY <1>1, <2>3 DEF Process
    <3> QED BY <3>1, ProcessIncidentLossInv
  <2> QED BY <2>1, <2>2, <2>3
<1>2. CASE WindowTimerFires
  <2>1. openWindow' = NoWindow
    BY <1>2 DEF WindowTimerFires, Flush
  <2> QED BY <2>1 DEF LossInv, HeldIsLogged, SpannedIsOld
<1>3. CASE QuietStep /\ UNCHANGED correlatorVars
  <2>1. UNCHANGED <<rests, lastIndefiniteQuietAt>> \/ rests' = rests + 1
    BY <1>3 DEF QuietStep, SetQuiet, SetIndefiniteQuiet, ClearQuiet, WakeTimerFires, Tick,
                quietVars
  <2> QED BY <1>3, <2>1, SameWindowLossInv DEF correlatorVars
<1> QED BY <1>1, <1>2, <1>3 DEF CorrelatorStep

-----------------------------------------------------------------------------
(* The excuses of NothingLostOutsideQuiet.                                 *)
Excused(i) ==
    \/ quietIndefinite'
    \/ IsQuiet' /\ log'[i].type \notin {"ALARM_ON", "WATER_LEAK", "SMOKE_DETECTED"}
    \/ /\ openWindow # NoWindow
       /\ \/ openWindow.events[1].rest < rests
          \/ openWindow.openedAt = lastIndefiniteQuietAt

(* What was reported stays so.                                             *)
LEMMA ReportedStays ==
    ASSUME reports \in Seq(Report), NEW events,
           \/ reports' = reports
           \/ reports' = Append(reports, [events |-> events, rest |-> rests]),
           NEW i, IsReported(i)
    PROVE  IsReported(i)'
<1>1. PICK r \in DOMAIN reports : \E k \in DOMAIN reports[r].events :
                                      reports[r].events[k].id = i
  BY DEF IsReported
<1>2. r \in DOMAIN reports' /\ reports'[r] = reports[r]
  BY <1>1
<1> QED BY <1>1, <1>2 DEF IsReported

(* An event of a push is reported, or excused by the gate.                 *)
LEMMA PushedOrExcused ==
    ASSUME reports \in Seq(Report), NEW events \in Seq(Event), Push(events),
           UNCHANGED quietVars, NEW k \in DOMAIN events,
           log'[events[k].id] = events[k]
    PROVE  IsReported(events[k].id)' \/ Excused(events[k].id)
<1>1. CASE PassesQuiet(events)
  <2>1. reports' = Append(reports, [events |-> events, rest |-> rests])
    BY <1>1 DEF Push
  <2>2. /\ Len(reports) + 1 \in DOMAIN reports'
        /\ reports'[Len(reports) + 1] = [events |-> events, rest |-> rests]
    BY <2>1
  <2>3. reports'[Len(reports) + 1].events = events
    BY <2>2
  <2> QED BY <2>2, <2>3 DEF IsReported
<1>2. CASE ~PassesQuiet(events)
  <2>1. IsQuiet' /\ (quietIndefinite' \/ ~ContainsEmergency(events))
    BY <1>2 DEF PassesQuiet, IsQuiet, quietVars
  <2>2. ~ContainsEmergency(events) => events[k].type \notin EMERGENCY_EVENT_TYPES
    BY DEF ContainsEmergency, IsEmergency
  <2> QED BY <2>1, <2>2 DEF Excused, EMERGENCY_EVENT_TYPES
<1> QED BY <1>1, <1>2

(* A flush of the open window, with or without one more event.             *)
LEMMA FlushedOrExcused ==
    ASSUME Inv, LossInv, openWindow # NoWindow,
           NEW w \in Window, w.openedAt = openWindow.openedAt,
           NEW timers, Flush(w, timers), UNCHANGED quietVars,
           NEW k \in 2 .. Len(w.events), log'[w.events[k].id] = w.events[k]
    PROVE  IsReported(w.events[k].id)' \/ Excused(w.events[k].id)
<1>1. w.events \in Seq(Event) /\ reports \in Seq(Report)
  BY DEF Window, Inv, CorrelatorInv, TypeOK
<1>2. CASE SpannedRest(w)
  BY <1>2 DEF LossInv, SpannedIsOld, SpannedRest, Excused
<1>3. CASE ~SpannedRest(w)
  <2>1. Push(Tail(w.events))
    BY <1>3 DEF Flush, FollowUps
  <2>2. /\ Tail(w.events) \in Seq(Event)
        /\ k - 1 \in DOMAIN Tail(w.events)
        /\ Tail(w.events)[k - 1] = w.events[k]
    BY <1>1
  <2> QED BY <1>1, <2>1, <2>2, PushedOrExcused
<1> QED BY <1>2, <1>3

(* An event that joins the window, whatever comes of it.                   *)
LEMMA BufferedOrExcused ==
    ASSUME Inv, LossInv, openWindow # NoWindow, NEW type \in EventTypes,
           Buffer(NewEvent(type)), log' = Append(log, NewEvent(type)), UNCHANGED quietVars,
           NEW i, i = Len(log) + 1 \/ IsWaiting(i)
    PROVE  IsReported(i)' \/ IsWaiting(i)' \/ Excused(i)
<1> DEFINE e == NewEvent(type)
           w == [openWindow EXCEPT !.events = Append(@, e)]
<1>1. e \in Event /\ e.id = Len(log) + 1
  BY NewEventType DEF NewEvent, Inv, CorrelatorInv
<1>2. /\ log \in Seq(Event) /\ openWindow \in Window
      /\ openWindow.events \in Seq(Event) /\ openWindow.events # <<>>
  BY DEF Inv, CorrelatorInv, TypeOK, WindowIsFresh, Window
<1>3. /\ w \in Window /\ w.openedAt = openWindow.openedAt
      /\ w.events = Append(openWindow.events, e) /\ w # NoWindow
  <2>1. w \in Window /\ w.events # <<>>
    BY <1>1, LongerWindow DEF Inv, CorrelatorInv
  <2>2. w.openedAt = openWindow.openedAt /\ w.events = Append(openWindow.events, e)
    BY <1>2 DEF Window
  <2> QED BY <2>1, <2>2 DEF NoWindow
<1>4. log' = Append(log, e)
  OBVIOUS
<1>5. (e.type = TERMINAL_EVENT /\ Flush(w, pendingFlushes)) \/ openWindow' = w
  BY DEF Buffer
<1> HIDE DEF e, w
<1>6. PICK k \in 2 .. Len(w.events) : w.events[k].id = i /\ log'[i] = w.events[k]
  <2>1. CASE i = Len(log) + 1
    <3>1. /\ Len(openWindow.events) + 1 \in 2 .. Len(w.events)
          /\ w.events[Len(openWindow.events) + 1] = e
      BY <1>1, <1>2, <1>3
    <3>2. log'[i] = e
      BY <1>1, <1>2, <1>4, <2>1
    <3> QED BY <1>1, <2>1, <3>1, <3>2
  <2>2. CASE IsWaiting(i)
    <3>1. PICK k \in 2 .. Len(openWindow.events) : openWindow.events[k].id = i
      BY <2>2 DEF IsWaiting
    <3>2. i \in DOMAIN log /\ log[i] = openWindow.events[k]
      BY <1>2, <3>1 DEF LossInv, HeldIsLogged
    <3>3. k \in 2 .. Len(w.events) /\ w.events[k] = openWindow.events[k]
      BY <1>1, <1>2, <1>3, <3>1
    <3>4. log'[i] = log[i]
      BY <1>1, <1>2, <1>4, <3>2
    <3> QED BY <3>1, <3>2, <3>3, <3>4
  <2> QED BY <2>1, <2>2
<1>7. CASE Flush(w, pendingFlushes)
  BY <1>3, <1>6, <1>7, FlushedOrExcused
<1>8. CASE openWindow' = w
  BY <1>3, <1>6, <1>8 DEF IsWaiting
<1> QED BY <1>5, <1>7, <1>8

LEMMA StepLosesNothing ==
    Inv /\ LossInv /\ CorrelatorStep => \A i \in Silenced' \ Silenced : Excused(i)
<1> SUFFICES ASSUME Inv, LossInv, CorrelatorStep, NEW i \in Silenced' \ Silenced
             PROVE  Excused(i)
  OBVIOUS
<1>1. /\ i \in DOMAIN log' /\ ~IsReported(i)' /\ ~IsWaiting(i)'
      /\ i \notin DOMAIN log \/ IsReported(i) \/ IsWaiting(i)
  BY DEF Silenced
<1>2. /\ reports \in Seq(Report) /\ log \in Seq(Event)
      /\ openWindow # NoWindow => openWindow \in Window
  BY DEF Inv, CorrelatorInv, TypeOK
<1>3. ASSUME NEW type \in EventTypes, Process(type) PROVE Excused(i)
  <2> DEFINE e == NewEvent(type)
  <2>1. /\ e \in Event /\ e.id = Len(log) + 1
    BY NewEventType DEF NewEvent, Inv, CorrelatorInv
  <2>2. log' = Append(log, e)
    BY <1>3 DEF Process, RemoteArmed, RemoteDisarmed, ProcessIncident
  <2>3. ~IsReported(i)
    <3>1. reports' = reports \/ \E events :
              reports' = Append(reports, [events |-> events, rest |-> rests])
      BY <1>3 DEF Process, RemoteArmed, RemoteDisarmed, ProcessIncident, PushConfirmation,
                  Buffer, OpenWindow, Flush, Push
    <3> QED BY <1>1, <1>2, <3>1, ReportedStays
  <2>4. i = Len(log) + 1 \/ IsWaiting(i)
    BY <1>1, <1>2, <2>1, <2>2, <2>3
  <2>5. CASE type \in MODE_CONFIRMATION_EVENT_TYPES
    <3>1. CASE type = "REMOTE_DISARMED"
      BY <1>3, <3>1 DEF Process, RemoteDisarmed, SetIndefiniteQuiet, Excused
    <3>2. CASE type = "REMOTE_ARMED"
      <4>1. openWindow' = openWindow
        BY <1>3, <3>2 DEF Process, RemoteArmed
      <4>2. i = Len(log) + 1
        BY <1>1, <2>4, <4>1 DEF IsWaiting
      <4>3. reports' = Append(reports, [events |-> <<e>>, rest |-> rests])
        BY <1>3, <3>2 DEF Process, RemoteArmed, PushConfirmation
      <4> HIDE DEF e
      <4>4. /\ Len(reports) + 1 \in DOMAIN reports'
            /\ reports'[Len(reports) + 1].events = <<e>>
        <5>1. reports'[Len(reports) + 1] = [events |-> <<e>>, rest |-> rests]
          BY <1>2, <4>3
        <5> QED BY <1>2, <4>3, <5>1
      <4>5. 1 \in DOMAIN <<e>> /\ <<e>>[1].id = i
        BY <2>1, <4>2
      <4> QED BY <1>1, <4>4, <4>5 DEF IsReported
    <3> QED BY <2>5, <3>1, <3>2 DEF MODE_CONFIRMATION_EVENT_TYPES
  <2>6. CASE type \notin MODE_CONFIRMATION_EVENT_TYPES
    <3>1. ProcessIncident(type) /\ UNCHANGED quietVars
      BY <1>3, <2>6 DEF Process, MODE_CONFIRMATION_EVENT_TYPES
    <3>2. CASE quietIndefinite
      BY <3>1, <3>2 DEF Excused, quietVars
    <3>3. CASE ~quietIndefinite /\ openWindow # NoWindow
      <4>1. Buffer(e)
        BY <3>1, <3>3 DEF ProcessIncident
      <4> QED BY <1>1, <2>2, <2>4, <3>1, <3>3, <4>1, BufferedOrExcused
    <3>4. CASE ~quietIndefinite /\ openWindow = NoWindow
      <4>1. OpenWindow(e)
        BY <3>1, <3>4 DEF ProcessIncident
      <4>2. i = Len(log) + 1
        BY <2>4, <3>4 DEF IsWaiting
      <4>3. Push(<<e>>)
        BY <4>1 DEF OpenWindow
      <4> HIDE DEF e
      <4>4. /\ <<e>> \in Seq(Event) /\ 1 \in DOMAIN <<e>> /\ <<e>>[1] = e
            /\ e.id = i /\ log'[i] = e
        BY <1>2, <2>1, <2>2, <4>2
      <4> QED BY <1>1, <1>2, <3>1, <4>3, <4>4, PushedOrExcused
    <3> QED BY <3>2, <3>3, <3>4
  <2> QED BY <2>5, <2>6
<1>4. CASE WindowTimerFires
  <2>1. openWindow # NoWindow /\ UNCHANGED <<log, quietVars>>
    BY <1>4 DEF WindowTimerFires, Inv, CorrelatorInv, OnlyTheOpenWindowFlushes
  <2>2. PICK t \in pendingFlushes : Flush(openWindow, pendingFlushes \ {t})
    BY <1>4, <2>1 DEF WindowTimerFires
  <2>3. ~IsReported(i)
    <3>1. reports' = reports \/ \E events :
              reports' = Append(reports, [events |-> events, rest |-> rests])
      BY <2>2 DEF Flush, Push
    <3> QED BY <1>1, <1>2, <3>1, ReportedStays
  <2>4. PICK k \in 2 .. Len(openWindow.events) : openWindow.events[k].id = i
    BY <1>1, <2>1, <2>3 DEF IsWaiting
  <2>5. k \in DOMAIN openWindow.events
    BY <1>2, <2>1, <2>4 DEF Window
  <2>6. log'[openWindow.events[k].id] = openWindow.events[k]
    BY <2>1, <2>5 DEF LossInv, HeldIsLogged
  <2> QED BY <1>1, <1>2, <2>1, <2>2, <2>4, <2>6, FlushedOrExcused
<1>5. CASE UNCHANGED correlatorVars
  <2>1. IsReported(i)' = IsReported(i) /\ IsWaiting(i)' = IsWaiting(i) /\ log' = log
    BY <1>5 DEF correlatorVars, IsReported, IsWaiting
  <2> QED BY <1>1, <2>1
<1> QED BY <1>3, <1>4, <1>5 DEF CorrelatorStep

(* Nothing is lost in ordinary service, for any burst, any window and any  *)
(* overlap with rest and timed quiet: what process() neither pushes nor    *)
(* keeps is excused by the quiet of that moment, or by a rest that reached *)
(* the opening of its window.                                              *)
THEOREM NothingIsLost == Spec => NothingLostOutsideQuiet
<1>1. Inv /\ LossInv /\ [Next]_vars => [\A i \in Silenced' \ Silenced : Excused(i)]_vars
  BY NextIsCorrelatorStep, StepLosesNothing
<1>2. Init => LossInv
  BY DEF Init, LossInv, HeldIsLogged, SpannedIsOld
<1>3. NothingLostOutsideQuiet <=> [][\A i \in Silenced' \ Silenced : Excused(i)]_vars
  BY DEF NothingLostOutsideQuiet, Excused
<1> QED BY <1>1, <1>2, <1>3, InitInv, NextIsCorrelatorStep, StepInv, StepLossInv, PTL DEF Spec

-----------------------------------------------------------------------------
(* What the window holds are incidents: acknowledgements never wait.       *)
WindowHoldsIncidents ==
    openWindow # NoWindow =>
        \A k \in DOMAIN openWindow.events : ~IsConfirmation(openWindow.events[k])

LEMMA StepWindowHoldsIncidents ==
    Inv /\ WindowHoldsIncidents /\ CorrelatorStep => WindowHoldsIncidents'
<1> SUFFICES ASSUME Inv, WindowHoldsIncidents, CorrelatorStep PROVE WindowHoldsIncidents'
  OBVIOUS
<1>1. CASE openWindow' = openWindow \/ openWindow' = NoWindow
  BY <1>1 DEF WindowHoldsIncidents
<1>2. ASSUME NEW type \in EventTypes, ProcessIncident(type) PROVE WindowHoldsIncidents'
  <2> DEFINE e == NewEvent(type)
  <2>1. e \in Event /\ ~IsConfirmation(e)
    BY <1>2, NewEventType DEF Inv, CorrelatorInv, ProcessIncident, NewEvent, IsConfirmation
  <2> HIDE DEF e
  <2>2. openWindow.events \in Seq(Event) /\ openWindow \in Window
    BY DEF Inv, CorrelatorInv, TypeOK, Window
  <2>3. CASE openWindow'.events = <<e>>
    BY <2>1, <2>3 DEF WindowHoldsIncidents
  <2>4. CASE openWindow # NoWindow /\ openWindow' = [openWindow EXCEPT !.events = Append(@, e)]
    <3>1. openWindow'.events = Append(openWindow.events, e)
      BY <2>2, <2>4 DEF Window
    <3> QED BY <2>1, <2>2, <2>4, <3>1 DEF WindowHoldsIncidents
  <2>5. CASE quietIndefinite
    BY <1>1, <1>2, <2>5 DEF ProcessIncident
  <2>6. CASE ~quietIndefinite /\ openWindow # NoWindow
    BY <1>1, <1>2, <2>4, <2>6 DEF ProcessIncident, Buffer, Flush, e
  <2>7. CASE ~quietIndefinite /\ openWindow = NoWindow
    BY <1>2, <2>3, <2>7 DEF ProcessIncident, OpenWindow, e
  <2> QED BY <2>5, <2>6, <2>7
<1>3. CASE WindowTimerFires
  BY <1>1, <1>3 DEF WindowTimerFires, Flush
<1>4. CASE RemoteArmed \/ RemoteDisarmed
  BY <1>1, <1>4 DEF RemoteArmed, RemoteDisarmed, DiscardWindow
<1> QED BY <1>1, <1>2, <1>3, <1>4 DEF CorrelatorStep, Process, correlatorVars

(* Ids of incidents, of one more, and of those that follow the first.      *)
LEMMA IdsOfIncidents ==
    ASSUME NEW events \in Seq(Event), \A k \in DOMAIN events : ~IsConfirmation(events[k])
    PROVE  /\ Ids(events) = [k \in 1 .. Len(events) |-> events[k].id]
           /\ Ids(events) \in Seq(Nat)
           /\ Len(Ids(events)) = Len(events)
<1>1. Ids(events) = [k \in 1 .. Len(events) |-> events[k].id]
  BY DEF Ids
<1>2. ASSUME NEW k \in 1 .. Len(events) PROVE events[k].id \in Nat
  <2>1. events[k] \in Event
    BY ElementOfSeq
  <2> QED BY <2>1 DEF Event
<1>3. [k \in 1 .. Len(events) |-> events[k].id] \in Seq(Nat)
  BY <1>2
<1> QED BY <1>1, <1>3

LEMMA IdsOfOneMore ==
    ASSUME NEW events \in Seq(Event), \A k \in DOMAIN events : ~IsConfirmation(events[k]),
           NEW e \in Event, ~IsConfirmation(e)
    PROVE  Ids(Append(events, e)) = Append(Ids(events), e.id)
<1> DEFINE longer == Append(events, e)
<1>1. /\ longer \in Seq(Event) /\ Len(longer) = Len(events) + 1
      /\ \A k \in 1 .. Len(events) : longer[k] = events[k]
      /\ longer[Len(events) + 1] = e
  BY AppendProperties
<1> HIDE DEF longer
<1>2. \A k \in DOMAIN longer : ~IsConfirmation(longer[k])
  BY <1>1
<1>3. /\ Ids(longer) \in Seq(Nat) /\ Len(Ids(longer)) = Len(events) + 1
      /\ Ids(longer) = [k \in 1 .. Len(longer) |-> longer[k].id]
  BY <1>1, <1>2, IdsOfIncidents
<1>4. /\ Ids(events) \in Seq(Nat) /\ Len(Ids(events)) = Len(events)
      /\ Ids(events) = [k \in 1 .. Len(events) |-> events[k].id]
  BY IdsOfIncidents
<1>5. e.id \in Nat
  BY DEF Event
<1>6. /\ Append(Ids(events), e.id) \in Seq(Nat)
      /\ Len(Append(Ids(events), e.id)) = Len(events) + 1
  BY <1>4, <1>5
<1>7. ASSUME NEW k \in 1 .. Len(events) + 1
      PROVE  Ids(longer)[k] = Append(Ids(events), e.id)[k]
  <2>1. CASE k = Len(events) + 1
    BY <1>1, <1>3, <1>4, <1>5, <2>1
  <2>2. CASE k # Len(events) + 1
    <3>1. k \in 1 .. Len(events)
      BY <2>2
    <3> QED BY <1>1, <1>3, <1>4, <1>5, <3>1
  <2> QED BY <2>1, <2>2
<1>8. Ids(longer) = Append(Ids(events), e.id)
  <2> DEFINE s == Ids(longer)
             t == Append(Ids(events), e.id)
  <2>1. s \in Seq(Nat) /\ t \in Seq(Nat) /\ Len(s) = Len(t) /\ \A k \in 1 .. Len(s) : s[k] = t[k]
    BY <1>3, <1>6, <1>7
  <2> HIDE DEF s, t
  <2>2. s = t
    BY <2>1, SeqEqual
  <2> QED BY <2>2 DEF s, t
<1> QED BY <1>8 DEF longer

LEMMA TailOfOneMore ==
    ASSUME NEW events \in Seq(Event), events # <<>>, NEW e \in Event
    PROVE  Tail(Append(events, e)) = Append(Tail(events), e)
<1>1. /\ Append(events, e) \in Seq(Event) /\ Append(events, e) # <<>>
      /\ Len(Append(events, e)) = Len(events) + 1
  BY AppendProperties
<1>2. /\ Tail(events) \in Seq(Event) /\ Len(Tail(events)) = Len(events) - 1
      /\ \A k \in 1 .. Len(Tail(events)) : Tail(events)[k] = events[k + 1]
  BY HeadTailProperties
<1>3. /\ Tail(Append(events, e)) \in Seq(Event)
      /\ Len(Tail(Append(events, e))) = Len(events)
      /\ \A k \in 1 .. Len(events) : Tail(Append(events, e))[k] = Append(events, e)[k + 1]
  BY <1>1, HeadTailProperties
<1>4. /\ Append(Tail(events), e) \in Seq(Event) /\ Len(Append(Tail(events), e)) = Len(events)
  BY <1>2
<1>5. ASSUME NEW k \in 1 .. Len(events)
      PROVE  Tail(Append(events, e))[k] = Append(Tail(events), e)[k]
  <2>1. CASE k = Len(events)
    BY <1>2, <1>3, <2>1
  <2>2. CASE k # Len(events)
    <3> DEFINE rest == Tail(events)
    <3>1. /\ rest \in Seq(Event) /\ Len(rest) = Len(events) - 1 /\ Len(events) \in Nat
          /\ \A i \in 1 .. Len(rest) : rest[i] = events[i + 1]
      BY <1>2
    <3> HIDE DEF rest
    <3>2. /\ k \in 1 .. Len(rest) /\ k + 1 \in 1 .. Len(events)
          /\ Append(rest, e)[k] = events[k + 1]
      <4>1. k \in 1 .. Len(rest) /\ k + 1 \in 1 .. Len(events)
        BY <2>2, <3>1
      <4> QED BY <3>1, <4>1, AppendProperties
    <3>3. Append(events, e)[k + 1] = events[k + 1]
      BY <3>2, AppendProperties
    <3> QED BY <1>3, <3>2, <3>3 DEF rest
  <2> QED BY <2>1, <2>2
<1> QED BY <1>3, <1>4, <1>5, SeqEqual

LEMMA TailHoldsIncidents ==
    ASSUME NEW events \in Seq(Event), events # <<>>,
           \A k \in DOMAIN events : ~IsConfirmation(events[k])
    PROVE  /\ Tail(events) \in Seq(Event)
           /\ \A k \in DOMAIN Tail(events) : ~IsConfirmation(Tail(events)[k])
<1>1. /\ Tail(events) \in Seq(Event) /\ Len(Tail(events)) = Len(events) - 1
      /\ \A k \in 1 .. Len(Tail(events)) : Tail(events)[k] = events[k + 1]
  BY HeadTailProperties
<1> QED BY <1>1

(* What a push tells, as Incidents sees it.                                *)
LEMMA ToldGrows ==
    ASSUME reports \in Seq(Report), NEW events \in Seq(Event),
           reports' = Append(reports, [events |-> events, rest |-> rests])
    PROVE  Told' = Append(Told, Ids(events))
<1> DEFINE new == [events |-> events, rest |-> rests]
<1>1. /\ Len(reports') = Len(reports) + 1
      /\ DOMAIN reports' = 1 .. Len(reports) + 1
      /\ \A r \in 1 .. Len(reports) : reports'[r] = reports[r]
      /\ reports'[Len(reports) + 1] = new
  OBVIOUS
<1>2. new.events = events
  OBVIOUS
<1> HIDE DEF new
<1>3. Told = [r \in 1 .. Len(reports) |-> Ids(reports[r].events)]
  BY DEF Told
<1>4. Told' = [r \in 1 .. Len(reports) + 1 |-> Ids(reports'[r].events)]
  BY <1>1 DEF Told, Ids
<1>5. Told' = [r \in 1 .. Len(reports) + 1 |->
                  IF r <= Len(reports) THEN Told[r] ELSE Ids(events)]
  BY <1>1, <1>2, <1>3, <1>4
<1>6. Len(Told) = Len(reports)
  BY <1>3
<1> QED BY <1>3, <1>5, <1>6

-----------------------------------------------------------------------------
(* The correlator's steps, as Incidents sees them.                         *)
Kept == [Promise!Next]_<<Len(log), Waiting, Told>>

LEMMA PushKeepsPromise ==
    ASSUME TypeOK, NEW events \in Seq(Event), Push(events),
           \A k \in DOMAIN events : ~IsConfirmation(events[k])
    PROVE  Told' \in {Told, Append(Told, Ids(events))}
<1>1. CASE reports' = reports
  BY <1>1 DEF Told, Ids
<1>2. CASE reports' = Append(reports, [events |-> events, rest |-> rests])
  BY <1>2, ToldGrows DEF TypeOK
<1> QED BY <1>1, <1>2 DEF Push

(* A flush of a window tells of what waits in it, or drops that.           *)
LEMMA FlushSettles ==
    ASSUME TypeOK, NEW w \in Window, w.events # <<>>,
           \A k \in DOMAIN w.events : ~IsConfirmation(w.events[k]),
           NEW timers, Flush(w, timers)
    PROVE  Waiting' = <<>> /\ Told' \in {Told, Append(Told, Ids(Tail(w.events)))}
<1>1. w.events \in Seq(Event)
  BY DEF Window
<1>2. /\ Tail(w.events) \in Seq(Event)
      /\ \A k \in DOMAIN Tail(w.events) : ~IsConfirmation(Tail(w.events)[k])
  BY <1>1, TailHoldsIncidents
<1>3. Waiting' = <<>>
  BY DEF Flush, Waiting
<1>4. CASE reports' = reports
  BY <1>3, <1>4 DEF Told, Ids
<1>5. CASE Push(Tail(w.events))
  BY <1>2, <1>3, <1>5, PushKeepsPromise
<1> QED BY <1>4, <1>5 DEF Flush, FollowUps

LEMMA IncidentKeepsPromise ==
    ASSUME Inv, WindowHoldsIncidents, NEW type \in EventTypes, ProcessIncident(type)
    PROVE  Promise!Arrive
<1> DEFINE e == NewEvent(type)
<1>1. /\ e \in Event /\ ~IsConfirmation(e) /\ e.id = Len(log) + 1
      /\ log' = Append(log, e)
  BY NewEventType DEF Inv, CorrelatorInv, ProcessIncident, NewEvent, IsConfirmation
<1>2. TypeOK /\ log \in Seq(Event) /\ openWindow \in Window /\ openWindow.events \in Seq(Event)
  BY DEF Inv, CorrelatorInv, TypeOK, Window
<1>3. CASE quietIndefinite
  <2>1. UNCHANGED <<openWindow, reports>>
    BY <1>3 DEF ProcessIncident
  <2>2. UNCHANGED <<Waiting, Told>>
    BY <2>1 DEF Waiting, Told, Ids
  <2>3. Len(log') = Len(log) + 1
    BY <1>1, <1>2
  <2> QED BY <2>2, <2>3 DEF Promise!Arrive
<1>4. CASE ~quietIndefinite /\ openWindow # NoWindow
  <2> DEFINE w == [openWindow EXCEPT !.events = Append(@, e)]
  <2>1. (e.type = TERMINAL_EVENT /\ Flush(w, pendingFlushes))
           \/ (openWindow' = w /\ reports' = reports)
    BY <1>4 DEF ProcessIncident, Buffer
  <2>2. w \in Window /\ w.events # <<>> /\ w # NoWindow
    BY <1>1, <1>2, <1>4, LongerWindow DEF NoWindow
  <2>3. w.events = Append(openWindow.events, e)
    BY <1>2 DEF Window
  <2> HIDE DEF e, w
  <2>4. openWindow.events # <<>> /\ \A k \in DOMAIN openWindow.events :
                                        ~IsConfirmation(openWindow.events[k])
    BY <1>4 DEF Inv, CorrelatorInv, WindowIsFresh, WindowHoldsIncidents
  <2>5. \A k \in DOMAIN w.events : ~IsConfirmation(w.events[k])
    BY <1>1, <1>2, <2>3, <2>4
  <2>6. /\ Tail(openWindow.events) \in Seq(Event)
        /\ \A k \in DOMAIN Tail(openWindow.events) : ~IsConfirmation(Tail(openWindow.events)[k])
    BY <1>2, <2>4, TailHoldsIncidents
  <2>7. Ids(Tail(w.events)) = Append(Waiting, Len(log) + 1)
    <3>1. Tail(w.events) = Append(Tail(openWindow.events), e)
      BY <1>1, <1>2, <2>3, <2>4, TailOfOneMore
    <3>2. Ids(Tail(w.events)) = Append(Ids(Tail(openWindow.events)), e.id)
      BY <1>1, <2>6, <3>1, IdsOfOneMore
    <3> QED BY <1>1, <1>4, <3>2 DEF Waiting
  <2>8. Len(log') = Len(log) + 1
    BY <1>1, <1>2
  <2>9. CASE Flush(w, pendingFlushes)
    BY <1>2, <2>2, <2>5, <2>7, <2>8, <2>9, FlushSettles DEF Promise!Arrive, Promise!Settle
  <2>10. CASE openWindow' = w /\ reports' = reports
    <3>1. Waiting' = Ids(Tail(w.events))
      BY <2>2, <2>10 DEF Waiting, Ids
    <3>2. Told' = Told
      BY <2>10 DEF Told, Ids
    <3> QED BY <2>7, <2>8, <3>1, <3>2 DEF Promise!Arrive
  <2> QED BY <2>1, <2>9, <2>10
<1>5. CASE ~quietIndefinite /\ openWindow = NoWindow
  <2>1. openWindow'.events = <<e>> /\ Push(<<e>>)
    BY <1>5 DEF ProcessIncident, OpenWindow
  <2>2. Waiting = <<>>
    BY <1>5 DEF Waiting
  <2> HIDE DEF e
  <2>3. <<e>> \in Seq(Event) /\ Tail(<<e>>) = <<>> /\ DOMAIN <<e>> = {1}
    BY <1>1
  <2>4. Ids(<<>>) = <<>>
    BY DEF Ids
  <2>5. Waiting' = <<>>
    BY <2>1, <2>3, <2>4 DEF Waiting, Ids
  <2>6. \A k \in DOMAIN <<e>> : ~IsConfirmation(<<e>>[k])
    BY <1>1
  <2>7. Ids(<<e>>) = Append(Waiting, Len(log) + 1)
    <3>1. Ids(<<e>>) = Append(Ids(<<>>), e.id)
      <4>1. <<>> \in Seq(Event) /\ Append(<<>>, e) = <<e>> /\ DOMAIN <<>> = {}
        BY <1>1
      <4> QED BY <1>1, <4>1, IdsOfOneMore
    <3> QED BY <1>1, <2>2, <2>4, <3>1
  <2>8. Told' \in {Told, Append(Told, Ids(<<e>>))}
    BY <1>2, <2>1, <2>3, <2>6, PushKeepsPromise
  <2>9. Len(log') = Len(log) + 1
    BY <1>1, <1>2
  <2> QED BY <2>5, <2>7, <2>8, <2>9 DEF Promise!Arrive, Promise!Settle
<1> QED BY <1>3, <1>4, <1>5

LEMMA ConfirmationKeepsPromise ==
    ASSUME Inv, NEW type \in EventTypes, type \in MODE_CONFIRMATION_EVENT_TYPES,
           PushConfirmation(NewEvent(type)), log' = Append(log, NewEvent(type)),
           openWindow' \in {openWindow, NoWindow}
    PROVE  Promise!Acknowledge
<1> DEFINE e == NewEvent(type)
<1>1. e \in Event /\ IsConfirmation(e) /\ log \in Seq(Event) /\ reports \in Seq(Report)
  BY NewEventType DEF Inv, CorrelatorInv, TypeOK, NewEvent, IsConfirmation
<1>2. reports' = Append(reports, [events |-> <<e>>, rest |-> rests])
  BY DEF PushConfirmation
<1>3. log' = Append(log, e)
  OBVIOUS
<1> HIDE DEF e
<1>4. <<e>> \in Seq(Event) /\ 1 \in DOMAIN <<e>> /\ <<e>>[1] = e
  BY <1>1
<1>5. Ids(<<e>>) = <<>>
  BY <1>1, <1>4 DEF Ids
<1>6. Told' = Append(Told, <<>>)
  BY <1>1, <1>2, <1>4, <1>5, ToldGrows
<1>7. Len(log') = Len(log) + 1
  BY <1>1, <1>3
<1>8. Waiting' \in {Waiting, <<>>}
  BY DEF Waiting, Ids
<1> QED BY <1>6, <1>7, <1>8 DEF Promise!Acknowledge

LEMMA StepKeepsPromise ==
    Inv /\ WindowHoldsIncidents /\ CorrelatorStep => Kept
<1> SUFFICES ASSUME Inv, WindowHoldsIncidents, CorrelatorStep PROVE Kept
  OBVIOUS
<1> USE DEF Kept, Promise!Next
<1>1. ASSUME NEW type \in EventTypes, Process(type) PROVE Kept
  <2>1. CASE type = "REMOTE_ARMED"
    BY <1>1, <2>1, ConfirmationKeepsPromise
    DEF Process, RemoteArmed, MODE_CONFIRMATION_EVENT_TYPES
  <2>2. CASE type = "REMOTE_DISARMED"
    BY <1>1, <2>2, ConfirmationKeepsPromise
    DEF Process, RemoteDisarmed, DiscardWindow, MODE_CONFIRMATION_EVENT_TYPES
  <2>3. CASE type \notin {"REMOTE_ARMED", "REMOTE_DISARMED"}
    BY <1>1, <2>3, IncidentKeepsPromise DEF Process
  <2> QED BY <2>1, <2>2, <2>3
<1>2. CASE WindowTimerFires
  <2>1. openWindow # NoWindow
    BY <1>2 DEF WindowTimerFires, Inv, CorrelatorInv, OnlyTheOpenWindowFlushes
  <2>2. PICK t \in pendingFlushes : Flush(openWindow, pendingFlushes \ {t}) /\ log' = log
    BY <1>2, <2>1 DEF WindowTimerFires
  <2>3. /\ TypeOK /\ openWindow \in Window /\ openWindow.events # <<>>
        /\ \A k \in DOMAIN openWindow.events : ~IsConfirmation(openWindow.events[k])
    BY <2>1 DEF Inv, CorrelatorInv, TypeOK, WindowIsFresh, WindowHoldsIncidents
  <2>4. Waiting' = <<>> /\ Told' \in {Told, Append(Told, Waiting)}
    BY <2>1, <2>2, <2>3, FlushSettles DEF Waiting
  <2>5. CASE Waiting # <<>>
    BY <2>2, <2>4, <2>5 DEF Promise!Close, Promise!Settle
  <2>6. CASE Waiting = <<>>
    <3>1. Tail(openWindow.events) = <<>>
      <4>1. /\ Tail(openWindow.events) \in Seq(Event)
            /\ \A k \in DOMAIN Tail(openWindow.events) :
                   ~IsConfirmation(Tail(openWindow.events)[k])
        BY <2>3, TailHoldsIncidents DEF Window
      <4>2. Len(Ids(Tail(openWindow.events))) = Len(Tail(openWindow.events))
        BY <4>1, IdsOfIncidents
      <4>3. Len(Tail(openWindow.events)) = 0
        BY <2>1, <2>6, <4>2 DEF Waiting
      <4> QED BY <4>1, <4>3
    <3>2. reports' = reports
      BY <2>2, <3>1 DEF Flush, FollowUps, Push
    <3>3. Told' = Told
      BY <3>2 DEF Told, Ids
    <3> QED BY <2>2, <2>4, <2>6, <3>3
  <2> QED BY <2>5, <2>6
<1>3. CASE UNCHANGED correlatorVars
  BY <1>3 DEF correlatorVars, Waiting, Told, Ids
<1> QED BY <1>1, <1>2, <1>3 DEF CorrelatorStep

LEMMA InitPromise == Init => Promise!Init /\ WindowHoldsIncidents
<1> SUFFICES ASSUME Init PROVE Promise!Init /\ WindowHoldsIncidents
  OBVIOUS
<1>1. Told = <<>>
  BY DEF Init, Told
<1> QED BY <1>1 DEF Init, Promise!Init, Waiting, WindowHoldsIncidents

(* The correlator does what Incidents promises, step by step: no incident  *)
(* is told twice, none overtakes another that waits, a window is told or   *)
(* dropped as a whole (eventCorrelator.js 57-180).  That windows close is  *)
(* a matter of fairness.                                                   *)
THEOREM CorrelatorImplementsIncidents ==
    Spec => Promise!Init /\ [][Promise!Next]_<<Len(log), Waiting, Told>>
<1>1. Inv /\ WindowHoldsIncidents /\ [Next]_vars
        => WindowHoldsIncidents' /\ [Promise!Next]_<<Len(log), Waiting, Told>>
  BY NextIsCorrelatorStep, StepWindowHoldsIncidents, StepKeepsPromise DEF Kept
<1> QED BY <1>1, InitPromise, InitInv, NextIsCorrelatorStep, StepInv, PTL DEF Spec


-----------------------------------------------------------------------------
(* No event is reported twice, in one push or in two.                      *)
ToldOnce ==
    \A r, s \in DOMAIN reports :
        \A k \in DOMAIN reports[r].events, l \in DOMAIN reports[s].events :
            reports[r].events[k].id = reports[s].events[l].id => r = s /\ k = l

(* A window's events are different ones, and those that wait are unreported.*)
Untold(events) ==
    /\ \A k, l \in DOMAIN events : events[k].id = events[l].id => k = l
    /\ \A k \in 2 .. Len(events) : ~IsReported(events[k].id)

OnceInv ==
    /\ ToldOnce
    /\ \A r \in DOMAIN reports : \A k \in DOMAIN reports[r].events :
           reports[r].events[k].id \in DOMAIN log
    /\ openWindow # NoWindow => Untold(openWindow.events)

(* A push of different events none of which was reported before.           *)
LEMMA PushOnce ==
    ASSUME reports \in Seq(Report), ToldOnce,
           NEW events \in Seq(Event),
           \A k, l \in DOMAIN events : events[k].id = events[l].id => k = l,
           \A k \in DOMAIN events : ~IsReported(events[k].id),
           reports' = Append(reports, [events |-> events, rest |-> rests])
    PROVE  /\ ToldOnce'
           /\ DOMAIN reports' = DOMAIN reports \cup {Len(reports) + 1}
           /\ \A r \in DOMAIN reports : reports'[r] = reports[r]
           /\ reports'[Len(reports) + 1].events = events
<1> DEFINE new == [events |-> events, rest |-> rests]
<1>1. /\ DOMAIN reports' = DOMAIN reports \cup {Len(reports) + 1}
      /\ DOMAIN reports = 1 .. Len(reports) /\ Len(reports) \in Nat
      /\ \A r \in DOMAIN reports : reports'[r] = reports[r]
      /\ reports'[Len(reports) + 1] = new
  OBVIOUS
<1>2. new.events = events
  OBVIOUS
<1> HIDE DEF new
<1>3. reports'[Len(reports) + 1].events = events
  BY <1>1, <1>2
<1>4. ASSUME NEW r \in DOMAIN reports, NEW k \in DOMAIN reports[r].events, NEW l \in DOMAIN events
      PROVE  reports[r].events[k].id # events[l].id
  BY <1>4 DEF IsReported
<1>5. ToldOnce'
  <2> SUFFICES ASSUME NEW r \in DOMAIN reports', NEW s \in DOMAIN reports',
                      NEW k \in DOMAIN reports'[r].events, NEW l \in DOMAIN reports'[s].events,
                      reports'[r].events[k].id = reports'[s].events[l].id
               PROVE  r = s /\ k = l
    BY DEF ToldOnce
  <2>1. CASE r \in DOMAIN reports /\ s \in DOMAIN reports
    BY <1>1, <2>1 DEF ToldOnce
  <2>2. CASE r \in DOMAIN reports /\ s = Len(reports) + 1
    BY <1>1, <1>3, <1>4, <2>2
  <2>3. CASE r = Len(reports) + 1 /\ s \in DOMAIN reports
    BY <1>1, <1>3, <1>4, <2>3
  <2>4. CASE r = Len(reports) + 1 /\ s = Len(reports) + 1
    BY <1>3, <2>4
  <2> QED BY <1>1, <2>1, <2>2, <2>3, <2>4
<1> QED BY <1>1, <1>3, <1>5

(* The reports' part of OnceInv, after a push or none.                     *)
LEMMA ReportsOnce ==
    ASSUME reports \in Seq(Report), OnceInv,
           NEW events \in Seq(Event),
           \A k, l \in DOMAIN events : events[k].id = events[l].id => k = l,
           \A k \in DOMAIN events : ~IsReported(events[k].id) /\ events[k].id \in DOMAIN log',
           DOMAIN log \subseteq DOMAIN log',
           \/ reports' = reports
           \/ reports' = Append(reports, [events |-> events, rest |-> rests])
    PROVE  /\ ToldOnce'
           /\ \A r \in DOMAIN reports' : \A k \in DOMAIN reports'[r].events :
                  reports'[r].events[k].id \in DOMAIN log'
           /\ \A i : IsReported(i)' => IsReported(i) \/ \E k \in DOMAIN events : events[k].id = i
<1>1. CASE reports' = reports
  BY <1>1 DEF OnceInv, ToldOnce, IsReported
<1>2. CASE reports' = Append(reports, [events |-> events, rest |-> rests])
  <2>1. /\ ToldOnce'
        /\ DOMAIN reports' = DOMAIN reports \cup {Len(reports) + 1}
        /\ \A r \in DOMAIN reports : reports'[r] = reports[r]
        /\ reports'[Len(reports) + 1].events = events
    BY <1>2, PushOnce DEF OnceInv
  <2> QED BY <2>1 DEF OnceInv, IsReported
<1> QED BY <1>1, <1>2

(* A flush reports what waits, and nothing else changes hands.             *)
LEMMA FlushOnce ==
    ASSUME reports \in Seq(Report), OnceInv, NEW w \in Window, w.events # <<>>,
           Untold(w.events), \A k \in DOMAIN w.events : w.events[k].id \in DOMAIN log',
           DOMAIN log \subseteq DOMAIN log',
           NEW timers, Flush(w, timers)
    PROVE  OnceInv'
<1> DEFINE rest == Tail(w.events)
<1>1. /\ rest \in Seq(Event) /\ Len(rest) = Len(w.events) - 1 /\ Len(w.events) \in Nat
      /\ \A k \in 1 .. Len(rest) : rest[k] = w.events[k + 1]
  BY HeadTailProperties DEF Window
<1>2. reports' \in {reports, Append(reports, [events |-> rest, rest |-> rests])}
  BY DEF Flush, FollowUps, Push
<1>3. openWindow' = NoWindow
  BY DEF Flush
<1> HIDE DEF rest
<1>4. w.events \in Seq(Event)
  BY DEF Window
<1>5. ASSUME NEW k \in DOMAIN rest
      PROVE  /\ k + 1 \in 2 .. Len(w.events) /\ k + 1 \in DOMAIN w.events
             /\ rest[k] = w.events[k + 1]
  BY <1>1, <1>4, <1>5
<1>6. /\ \A k, l \in DOMAIN rest : rest[k].id = rest[l].id => k = l
      /\ \A k \in DOMAIN rest : ~IsReported(rest[k].id) /\ rest[k].id \in DOMAIN log'
  <2>1. ASSUME NEW k \in DOMAIN rest, NEW l \in DOMAIN rest, rest[k].id = rest[l].id
        PROVE  k = l
    <3>1. k + 1 = l + 1
      BY <1>5, <2>1 DEF Untold
    <3>2. k \in Int /\ l \in Int
      BY <1>1
    <3> QED BY <3>1, <3>2
  <2>2. ASSUME NEW k \in DOMAIN rest
        PROVE  ~IsReported(rest[k].id) /\ rest[k].id \in DOMAIN log'
    BY <1>5, <2>2 DEF Untold
  <2> QED BY <2>1, <2>2
<1>7. /\ ToldOnce'
      /\ \A r \in DOMAIN reports' : \A k \in DOMAIN reports'[r].events :
             reports'[r].events[k].id \in DOMAIN log'
  BY <1>1, <1>2, <1>6, ReportsOnce
<1> QED BY <1>3, <1>7 DEF OnceInv

(* An event that just came is no other's.                                  *)
LEMMA IncidentOnce ==
    ASSUME Inv, LossInv, OnceInv, NEW type \in EventTypes, ProcessIncident(type)
    PROVE  OnceInv'
<1> DEFINE e == NewEvent(type)
<1>1. /\ e \in Event /\ e.id = Len(log) + 1 /\ log' = Append(log, e)
      /\ log \in Seq(Event) /\ reports \in Seq(Report)
      /\ openWindow \in Window /\ openWindow.events \in Seq(Event)
  BY NewEventType DEF Inv, CorrelatorInv, TypeOK, ProcessIncident, NewEvent, Window
<1>2. DOMAIN log' = DOMAIN log \cup {e.id} /\ e.id \notin DOMAIN log
  BY <1>1
<1>3. ~IsReported(e.id)
  BY <1>2 DEF OnceInv, IsReported
<1>4. CASE UNCHANGED <<openWindow, reports>>
  BY <1>2, <1>4 DEF OnceInv, ToldOnce, Untold, IsReported
<1>5. CASE ~quietIndefinite /\ openWindow # NoWindow
  <2> DEFINE w == [openWindow EXCEPT !.events = Append(@, e)]
  <2>1. (e.type = TERMINAL_EVENT /\ Flush(w, pendingFlushes))
           \/ (openWindow' = w /\ reports' = reports)
    BY <1>5 DEF ProcessIncident, Buffer
  <2>2. w \in Window /\ w.events # <<>>
    BY <1>1, <1>5, LongerWindow DEF Inv, CorrelatorInv
  <2>3. w.events = Append(openWindow.events, e)
    BY <1>1 DEF Window
  <2>4. openWindow.events # <<>> /\ Untold(openWindow.events)
        /\ \A k \in DOMAIN openWindow.events : openWindow.events[k].id \in DOMAIN log
    BY <1>5 DEF Inv, CorrelatorInv, WindowIsFresh, OnceInv, LossInv, HeldIsLogged
  <2> HIDE DEF e, w
  <2>5. /\ DOMAIN w.events = 1 .. Len(openWindow.events) + 1
        /\ Len(w.events) = Len(openWindow.events) + 1 /\ Len(openWindow.events) \in Nat
        /\ \A k \in 1 .. Len(openWindow.events) : w.events[k] = openWindow.events[k]
        /\ w.events[Len(openWindow.events) + 1] = e
        /\ DOMAIN openWindow.events = 1 .. Len(openWindow.events)
    BY <1>1, <2>3
  <2>6. \A k \in DOMAIN w.events : w.events[k].id \in DOMAIN log'
    BY <1>2, <2>4, <2>5
  <2>7. Untold(w.events)
    <3>1. ASSUME NEW k \in DOMAIN w.events, NEW l \in DOMAIN w.events,
                 w.events[k].id = w.events[l].id
          PROVE  k = l
      <4>1. CASE k \in DOMAIN openWindow.events /\ l \in DOMAIN openWindow.events
        BY <2>4, <2>5, <3>1, <4>1 DEF Untold
      <4>2. CASE k = Len(openWindow.events) + 1 \/ l = Len(openWindow.events) + 1
        BY <1>2, <2>4, <2>5, <3>1, <4>2
      <4> QED BY <2>5, <4>1, <4>2
    <3>2. ASSUME NEW k \in 2 .. Len(w.events) PROVE ~IsReported(w.events[k].id)
      <4>1. CASE k \in DOMAIN openWindow.events
        BY <2>4, <2>5, <4>1 DEF Untold
      <4>2. CASE k = Len(openWindow.events) + 1
        BY <1>3, <2>5, <4>2
      <4> QED BY <2>5, <4>1, <4>2
    <3> QED BY <3>1, <3>2 DEF Untold
  <2>8. CASE Flush(w, pendingFlushes)
    BY <1>1, <1>2, <2>2, <2>6, <2>7, <2>8, FlushOnce
  <2>9. CASE openWindow' = w /\ reports' = reports
    <3>1. Untold(openWindow.events)'
      BY <2>7, <2>9 DEF Untold, IsReported
    <3> QED BY <1>2, <2>9, <3>1 DEF OnceInv, ToldOnce
  <2> QED BY <2>1, <2>8, <2>9
<1>6. CASE ~quietIndefinite /\ openWindow = NoWindow
  <2>1. openWindow'.events = <<e>> /\ Push(<<e>>)
    BY <1>6 DEF ProcessIncident, OpenWindow
  <2> HIDE DEF e
  <2>2. /\ <<e>> \in Seq(Event) /\ DOMAIN <<e>> = {1} /\ <<e>>[1] = e /\ Len(<<e>>) = 1
    BY <1>1
  <2>3. /\ ToldOnce'
        /\ \A r \in DOMAIN reports' : \A k \in DOMAIN reports'[r].events :
               reports'[r].events[k].id \in DOMAIN log'
    BY <1>1, <1>2, <1>3, <2>1, <2>2, ReportsOnce DEF Push
  <2>4. Untold(openWindow.events)'
    BY <2>1, <2>2 DEF Untold
  <2> QED BY <2>3, <2>4 DEF OnceInv
<1> QED BY <1>4, <1>5, <1>6 DEF ProcessIncident

LEMMA ConfirmationOnce ==
    ASSUME Inv, LossInv, OnceInv, NEW type \in EventTypes,
           PushConfirmation(NewEvent(type)), log' = Append(log, NewEvent(type)),
           openWindow' \in {openWindow, NoWindow}
    PROVE  OnceInv'
<1> DEFINE e == NewEvent(type)
<1>1. /\ e \in Event /\ e.id = Len(log) + 1 /\ log' = Append(log, e)
      /\ log \in Seq(Event) /\ reports \in Seq(Report)
      /\ reports' = Append(reports, [events |-> <<e>>, rest |-> rests])
  BY NewEventType DEF Inv, CorrelatorInv, TypeOK, NewEvent, PushConfirmation
<1>2. DOMAIN log' = DOMAIN log \cup {e.id} /\ e.id \notin DOMAIN log
  BY <1>1
<1>3. ~IsReported(e.id)
  BY <1>2 DEF OnceInv, IsReported
<1> HIDE DEF e
<1>4. <<e>> \in Seq(Event) /\ DOMAIN <<e>> = {1} /\ <<e>>[1] = e
  BY <1>1
<1>5. /\ ToldOnce'
      /\ \A r \in DOMAIN reports' : \A k \in DOMAIN reports'[r].events :
             reports'[r].events[k].id \in DOMAIN log'
      /\ \A i : IsReported(i)' => IsReported(i) \/ \E k \in DOMAIN <<e>> : <<e>>[k].id = i
  BY <1>1, <1>2, <1>3, <1>4, ReportsOnce
<1>6. ASSUME openWindow' # NoWindow PROVE Untold(openWindow.events)'
  <2>1. openWindow' = openWindow /\ Untold(openWindow.events)
        /\ \A k \in DOMAIN openWindow.events : openWindow.events[k].id \in DOMAIN log
    BY <1>6 DEF OnceInv, LossInv, HeldIsLogged
  <2>2. DOMAIN openWindow.events = 1 .. Len(openWindow.events)
        /\ Len(openWindow.events) \in Nat
    BY DEF Inv, CorrelatorInv, TypeOK, Window
  <2>3. ASSUME NEW k \in 2 .. Len(openWindow.events)
        PROVE  ~IsReported(openWindow.events[k].id)'
    <3>1. PICK i \in DOMAIN log : i = openWindow.events[k].id /\ ~IsReported(i)
      BY <2>1, <2>2 DEF Untold
    <3>2. ~IsReported(i)'
      BY <1>2, <1>4, <1>5, <3>1
    <3> QED BY <2>1, <3>1, <3>2 DEF IsReported
  <2> QED BY <2>1, <2>3 DEF Untold, IsReported
<1> QED BY <1>5, <1>6 DEF OnceInv

LEMMA StepOnce == Inv /\ LossInv /\ OnceInv /\ CorrelatorStep => OnceInv'
<1> SUFFICES ASSUME Inv, LossInv, OnceInv, CorrelatorStep PROVE OnceInv'
  OBVIOUS
<1>1. ASSUME NEW type \in EventTypes, Process(type) PROVE OnceInv'
  <2>1. CASE type = "REMOTE_ARMED"
    BY <1>1, <2>1, ConfirmationOnce DEF Process, RemoteArmed
  <2>2. CASE type = "REMOTE_DISARMED"
    BY <1>1, <2>2, ConfirmationOnce DEF Process, RemoteDisarmed, DiscardWindow
  <2>3. CASE type \notin {"REMOTE_ARMED", "REMOTE_DISARMED"}
    BY <1>1, <2>3, IncidentOnce DEF Process
  <2> QED BY <2>1, <2>2, <2>3
<1>2. CASE WindowTimerFires
  <2>1. openWindow # NoWindow
    BY <1>2 DEF WindowTimerFires, Inv, CorrelatorInv, OnlyTheOpenWindowFlushes
  <2>2. PICK t \in pendingFlushes : Flush(openWindow, pendingFlushes \ {t}) /\ log' = log
    BY <1>2, <2>1 DEF WindowTimerFires
  <2>3. /\ reports \in Seq(Report) /\ openWindow \in Window /\ openWindow.events # <<>>
        /\ Untold(openWindow.events)
        /\ \A k \in DOMAIN openWindow.events : openWindow.events[k].id \in DOMAIN log
    BY <2>1 DEF Inv, CorrelatorInv, TypeOK, WindowIsFresh, OnceInv, LossInv, HeldIsLogged
  <2> QED BY <2>2, <2>3, FlushOnce
<1>3. CASE UNCHANGED correlatorVars
  BY <1>3 DEF correlatorVars, OnceInv, ToldOnce, Untold, IsReported
<1> QED BY <1>1, <1>2, <1>3 DEF CorrelatorStep

LEMMA InitOnce == Init => LossInv /\ OnceInv
BY DEF Init, LossInv, HeldIsLogged, SpannedIsOld, OnceInv, ToldOnce

-----------------------------------------------------------------------------
(* What is reported or held was so before, or has just come.  A thing the  *)
(* correlator once dropped never comes back.                               *)
IsHeld(i) ==
    openWindow # NoWindow /\ \E k \in DOMAIN openWindow.events : openWindow.events[k].id = i

LEMMA PushTakesUp ==
    ASSUME reports \in Seq(Report), NEW events \in Seq(Event),
           reports' \in {reports, Append(reports, [events |-> events, rest |-> rests])},
           NEW i, IsReported(i)'
    PROVE  IsReported(i) \/ \E k \in DOMAIN events : events[k].id = i
<1> DEFINE new == [events |-> events, rest |-> rests]
<1>1. PICK r \in DOMAIN reports' : \E k \in DOMAIN reports'[r].events :
                                       reports'[r].events[k].id = i
  BY DEF IsReported
<1>2. CASE reports' = reports
  BY <1>1, <1>2 DEF IsReported
<1>3. CASE reports' = Append(reports, new)
  <2>1. new.events = events
    OBVIOUS
  <2> HIDE DEF new
  <2>2. \/ r \in DOMAIN reports /\ reports'[r] = reports[r]
        \/ reports'[r] = new
    BY <1>1, <1>3
  <2> QED BY <1>1, <2>1, <2>2 DEF IsReported
<1> QED BY <1>2, <1>3

LEMMA FlushTakesUp ==
    ASSUME reports \in Seq(Report), NEW w \in Window, w.events # <<>>, NEW timers,
           Flush(w, timers), NEW i, IsReported(i)'
    PROVE  IsReported(i) \/ \E k \in DOMAIN w.events : w.events[k].id = i
<1> DEFINE rest == Tail(w.events)
<1>1. /\ w.events \in Seq(Event) /\ rest \in Seq(Event)
      /\ \A k \in DOMAIN rest : k + 1 \in DOMAIN w.events /\ rest[k] = w.events[k + 1]
  <2>1. w.events \in Seq(Event)
    BY DEF Window
  <2>2. /\ rest \in Seq(Event) /\ Len(rest) = Len(w.events) - 1
        /\ \A k \in 1 .. Len(rest) : rest[k] = w.events[k + 1]
    BY <2>1, HeadTailProperties
  <2> QED BY <2>1, <2>2
<1>2. reports' \in {reports, Append(reports, [events |-> rest, rest |-> rests])}
  BY DEF Flush, FollowUps, Push
<1> HIDE DEF rest
<1>3. IsReported(i) \/ \E k \in DOMAIN rest : rest[k].id = i
  BY <1>1, <1>2, PushTakesUp
<1> QED BY <1>1, <1>3

LEMMA StepTakesUp ==
    ASSUME Inv, CorrelatorStep, NEW i, (IsReported(i) \/ IsHeld(i))'
    PROVE  IsReported(i) \/ IsHeld(i) \/ i = Len(log) + 1
<1>1. /\ reports \in Seq(Report) /\ log \in Seq(Event) /\ openWindow \in Window
      /\ openWindow.events \in Seq(Event)
      /\ openWindow # NoWindow => openWindow.events # <<>>
  BY DEF Inv, CorrelatorInv, TypeOK, WindowIsFresh, Window
<1>2. CASE UNCHANGED <<openWindow, reports>>
  BY <1>2 DEF IsReported, IsHeld
<1>3. ASSUME NEW type \in EventTypes, Process(type)
      PROVE  IsReported(i) \/ IsHeld(i) \/ i = Len(log) + 1
  <2> DEFINE e == NewEvent(type)
  <2>1. e \in Event /\ e.id = Len(log) + 1
    BY NewEventType DEF Inv, CorrelatorInv, NewEvent
  <2>2. CASE type \in MODE_CONFIRMATION_EVENT_TYPES
    <3>1. /\ reports' = Append(reports, [events |-> <<e>>, rest |-> rests])
          /\ openWindow' \in {openWindow, NoWindow}
      BY <1>3, <2>2 DEF Process, RemoteArmed, RemoteDisarmed, PushConfirmation, DiscardWindow,
                        MODE_CONFIRMATION_EVENT_TYPES
    <3> HIDE DEF e
    <3>2. <<e>> \in Seq(Event) /\ DOMAIN <<e>> = {1} /\ <<e>>[1] = e
      BY <2>1
    <3>3. IsReported(i)' => IsReported(i) \/ i = e.id
      <4>1. reports' \in {reports, Append(reports, [events |-> <<e>>, rest |-> rests])}
        BY <3>1
      <4>2. IsReported(i)' => IsReported(i) \/ \E k \in DOMAIN <<e>> : <<e>>[k].id = i
        BY <1>1, <3>2, <4>1, PushTakesUp
      <4> QED BY <3>2, <4>2
    <3>4. IsHeld(i)' => IsHeld(i)
      BY <3>1 DEF IsHeld
    <3> QED BY <2>1, <3>3, <3>4
  <2>3. CASE type \notin MODE_CONFIRMATION_EVENT_TYPES /\ openWindow # NoWindow /\ Buffer(e)
    <3> DEFINE w == [openWindow EXCEPT !.events = Append(@, e)]
    <3>1. Flush(w, pendingFlushes) \/ (openWindow' = w /\ reports' = reports)
      BY <2>3 DEF Buffer
    <3>2. w \in Window /\ w.events # <<>> /\ w.events = Append(openWindow.events, e)
      BY <1>1, <2>1, <2>3, LongerWindow DEF Inv, CorrelatorInv, Window
    <3> HIDE DEF e, w
    <3>3. \A k \in DOMAIN w.events : \/ w.events[k] = e
                                     \/ /\ k \in DOMAIN openWindow.events
                                        /\ w.events[k] = openWindow.events[k]
      BY <1>1, <2>1, <3>2
    <3>4. (\E k \in DOMAIN w.events : w.events[k].id = i) => IsHeld(i) \/ i = e.id
      BY <2>3, <3>3 DEF IsHeld
    <3>5. CASE Flush(w, pendingFlushes)
      <4>1. ~IsHeld(i)'
        BY <3>5 DEF Flush, IsHeld
      <4> QED BY <1>1, <2>1, <3>2, <3>4, <3>5, <4>1, FlushTakesUp
    <3>6. CASE openWindow' = w /\ reports' = reports
      BY <2>1, <3>4, <3>6 DEF IsHeld, IsReported
    <3> QED BY <3>1, <3>5, <3>6
  <2>4. CASE type \notin MODE_CONFIRMATION_EVENT_TYPES /\ OpenWindow(e)
    <3>1. openWindow'.events = <<e>> /\ Push(<<e>>)
      BY <2>4 DEF OpenWindow
    <3> HIDE DEF e
    <3>2. <<e>> \in Seq(Event) /\ DOMAIN <<e>> = {1} /\ <<e>>[1] = e
      BY <2>1
    <3>3. IsReported(i)' => IsReported(i) \/ i = e.id
      <4>1. reports' \in {reports, Append(reports, [events |-> <<e>>, rest |-> rests])}
        BY <3>1 DEF Push
      <4>2. IsReported(i)' => IsReported(i) \/ \E k \in DOMAIN <<e>> : <<e>>[k].id = i
        BY <1>1, <3>2, <4>1, PushTakesUp
      <4> QED BY <3>2, <4>2
    <3>4. IsHeld(i)' => i = e.id
      BY <3>1, <3>2 DEF IsHeld
    <3> QED BY <2>1, <3>3, <3>4
  <2> QED BY <1>2, <1>3, <2>2, <2>3, <2>4 DEF Process, ProcessIncident,
                                              MODE_CONFIRMATION_EVENT_TYPES
<1>4. CASE WindowTimerFires
  <2>1. openWindow # NoWindow
    BY <1>4 DEF WindowTimerFires, Inv, CorrelatorInv, OnlyTheOpenWindowFlushes
  <2>2. PICK t \in pendingFlushes : Flush(openWindow, pendingFlushes \ {t})
    BY <1>4, <2>1 DEF WindowTimerFires
  <2>3. ~IsHeld(i)'
    BY <2>2 DEF Flush, IsHeld
  <2> QED BY <1>1, <2>1, <2>2, <2>3, FlushTakesUp DEF IsHeld
<1> QED BY <1>2, <1>3, <1>4 DEF CorrelatorStep, correlatorVars

(* However bursts, quiet and timers interleave, no event is reported twice: *)
(* neither the window's opener again with what followed it, nor anything   *)
(* by a second flush (eventCorrelator.js 88-180).                          *)
THEOREM EachEventIsToldOnce == Spec => []ToldOnce
<1>1. OnceInv => ToldOnce
  BY DEF OnceInv
<1> QED BY <1>1, InitInv, InitOnce, NextIsCorrelatorStep, StepInv, StepLossInv, StepOnce,
           PTL DEF Spec

=============================================================================
