----------------------------- MODULE AlertProofs -----------------------------
(***************************************************************************)
(* Proofs about the two modules that put the correlator to use:            *)
(* BatteryAlerts, which decides what is handed to it, and AlertPipeline,   *)
(* which hands it the events of Pulsar's messages.  Their steps are        *)
(* CorrelatorSteps, or a reboot, so what EventCorrelatorProofs shows of    *)
(* the correlator holds in both.                                           *)
(***************************************************************************)
EXTENDS BatteryAlerts, AlertPipeline, EventCorrelatorProofs, FiniteSetTheorems

-----------------------------------------------------------------------------
(* Battery alerts.  What is remembered of a device (alerted) tells what of *)
(* its present battery has been recorded, and is what the file holds.      *)
Alert == [id : Nat, battery : Nat, stage : Stages, spent : BOOLEAN]

BatteryTypeOK ==
    /\ {alerted, stored} \subseteq Stages \cup {"none"}
    /\ battery \in Nat \ {0}
    /\ alerts \subseteq Alert

AlertsAreLogged == \A a \in alerts : a.id \in DOMAIN log /\ a.battery <= battery

RecordTells ==
    ~DiskFails =>
        /\ stored = alerted
        /\ \A a \in alerts : a.spent /\ a.battery = battery =>
               alerted = "critical" \/ (alerted = "low" /\ a.stage = "low")

(* Where no timed quiet was ever asked for, what was not recorded came in  *)
(* a rest, and the correlator dropped it.                                  *)
DroppedInRest ==
    quiets = 0 =>
        /\ quietUntil = Null
        /\ \A a \in alerts : ~a.spent => ~IsReported(a.id) /\ ~IsHeld(a.id)

BatteryInv ==
    BatteryTypeOK /\ AlertsAreLogged /\ RecordTells /\ NoStageSpentTwice /\ DroppedInRest

(* All that EventCorrelatorProofs keeps.                                   *)
CorrelatorKeeps == Inv /\ LossInv /\ OnceInv /\ WindowHoldsIncidents

USE BatteryAssumption

LEMMA BatteryStep == [BatteryNext]_alertVars => CorrelatorStep \/ Reboot
<1> SUFFICES ASSUME [BatteryNext]_alertVars PROVE CorrelatorStep \/ Reboot
  OBVIOUS
<1>1. CASE UNCHANGED vars
  BY <1>1 DEF vars, QuietStep, CorrelatorStep
<1>2. ASSUME NEW stage \in Stages, LowReading(stage) PROVE CorrelatorStep
  BY <1>2 DEF LowReading, Process, CorrelatorStep
<1>3. CASE OtherTraffic
  <2>1. CASE QuietCommand /\ UNCHANGED correlatorVars
    BY <2>1 DEF QuietCommand, QuietStep, CorrelatorStep
  <2>2. CASE (WakeTimerFires /\ UNCHANGED correlatorVars) \/ ClockTicks
    BY <2>2 DEF ClockTicks, QuietStep, CorrelatorStep
  <2> QED BY <1>3, <2>1, <2>2 DEF OtherTraffic, CorrelatorStep
<1> QED BY <1>1, <1>2, <1>3 DEF BatteryNext, HealthyReading, alertVars

LEMMA RebootKeepsCorrelator ==
    ASSUME CorrelatorKeeps, Reboot
    PROVE  CorrelatorKeeps'
<1>1. QuietInv'
  BY RestartInv DEF CorrelatorKeeps, Inv, Reboot
<1>2. openWindow' = NoWindow /\ pendingFlushes' = {} /\ UNCHANGED <<log, reports>>
  BY DEF Reboot
<1>3. NoWindow \in Window
  BY DEF NoWindow, Window
<1>4. CorrelatorInv'
  BY <1>1, <1>2, <1>3 DEF CorrelatorKeeps, Inv, QuietInv, CorrelatorInv, TypeOK,
     WindowIsFresh, OnlyTheOpenWindowFlushes, NoStaleReport, SirenNeverWaits
<1>5. LossInv' /\ OnceInv' /\ WindowHoldsIncidents'
  BY <1>2 DEF CorrelatorKeeps, LossInv, HeldIsLogged, SpannedIsOld, OnceInv, ToldOnce,
              WindowHoldsIncidents
<1> QED BY <1>1, <1>4, <1>5 DEF CorrelatorKeeps, Inv

LEMMA CorrelatorStepKeeps == CorrelatorKeeps /\ CorrelatorStep => CorrelatorKeeps'
BY StepInv, StepLossInv, StepOnce, StepWindowHoldsIncidents DEF CorrelatorKeeps

LEMMA CorrelatorKeepsInit == Init => CorrelatorKeeps
BY InitInv, InitOnce DEF CorrelatorKeeps, Init, WindowHoldsIncidents

LEMMA QuietsOnlyGrow ==
    ASSUME QuietTypeOK, QuietStep, quiets' = 0
    PROVE  quiets = 0 /\ (quietUntil = Null => quietUntil' = Null)
BY DEF QuietTypeOK, QuietStep, SetQuiet, SetIndefiniteQuiet, ClearQuiet, WakeTimerFires, Tick,
       quietVars

(* The log keeps its events.                                               *)
LEMMA LogGrows ==
    ASSUME Inv, CorrelatorStep
    PROVE  /\ DOMAIN log \subseteq DOMAIN log'
           /\ Len(log) + 1 \notin DOMAIN log
<1>1. log \in Seq(Event)
  BY DEF Inv, CorrelatorInv, TypeOK
<1>2. log' = log \/ \E e \in Event : log' = Append(log, e)
  <2>1. ASSUME NEW type \in EventTypes, Process(type)
        PROVE  \E e \in Event : log' = Append(log, e)
    BY <2>1, NewEventType DEF Process, RemoteArmed, RemoteDisarmed, ProcessIncident,
       Inv, CorrelatorInv
  <2> QED BY <2>1 DEF CorrelatorStep, WindowTimerFires, correlatorVars
<1> QED BY <1>1, <1>2

(* What was dropped in a rest stays so, whatever the correlator does.      *)
LEMMA DroppedStays ==
    ASSUME CorrelatorKeeps, BatteryInv, CorrelatorStep, quiets' = 0
    PROVE  /\ quietUntil' = Null
           /\ \A a \in alerts : ~a.spent => ~IsReported(a.id)' /\ ~IsHeld(a.id)'
<1>1. QuietStep /\ QuietTypeOK
  BY QuietPart DEF CorrelatorKeeps, Inv, QuietInv
<1>2. quiets = 0 /\ quietUntil' = Null
  BY <1>1, QuietsOnlyGrow DEF BatteryInv, DroppedInRest
<1>3. ASSUME NEW a \in alerts, ~a.spent
      PROVE  ~IsReported(a.id)' /\ ~IsHeld(a.id)'
  <2>1. PICK i \in DOMAIN log : i = a.id
    BY DEF BatteryInv, AlertsAreLogged
  <2>2. ~IsReported(i) /\ ~IsHeld(i) /\ i # Len(log) + 1
    BY <1>2, <1>3, <2>1, LogGrows DEF BatteryInv, DroppedInRest, CorrelatorKeeps
  <2>3. ~(IsReported(i) \/ IsHeld(i))'
    BY <2>2, StepTakesUp DEF CorrelatorKeeps
  <2> QED BY <1>3, <2>1, <2>3
<1> QED BY <1>2, <1>3

(* A reading that makes no alert.                                          *)
LEMMA HealthyReadingKeeps ==
    ASSUME BatteryInv, NEW reading \in Readings, HealthyReading(reading)
    PROVE  BatteryTypeOK' /\ AlertsAreLogged' /\ RecordTells' /\ NoStageSpentTwice'
<1>1. /\ alerts' = alerts /\ log' = log
      /\ battery' \in {battery, battery + 1}
      /\ battery \in Nat \ {0} /\ alerts \subseteq Alert
  BY DEF HealthyReading, BatteryInv, BatteryTypeOK, vars, correlatorVars
<1>2. CASE UNCHANGED <<alerted, stored, battery>>
  BY <1>1, <1>2 DEF BatteryInv, BatteryTypeOK, AlertsAreLogged, RecordTells, NoStageSpentTwice
<1>3. CASE reading = "fresh"
  <2>1. battery' = battery + 1
    BY <1>3 DEF HealthyReading
  <2>2. \A a \in alerts : a.battery <= battery /\ a.battery \in Nat
    BY <1>1 DEF BatteryInv, AlertsAreLogged, Alert
  <2>3. \A a \in alerts : a.battery <= battery' /\ a.battery # battery'
    BY <1>1, <2>1, <2>2
  <2>4. UNCHANGED <<alerted, stored>> \/ (alerted' = "none" /\ Persist("none"))
    BY DEF HealthyReading, Observe
  <2>5. BatteryTypeOK' /\ (~DiskFails => stored' = alerted')
    BY <1>1, <2>1, <2>4 DEF BatteryInv, BatteryTypeOK, RecordTells, Persist
  <2> QED BY <1>1, <2>3, <2>5 DEF BatteryInv, AlertsAreLogged, RecordTells, NoStageSpentTwice
<1>4. CASE reading # "fresh"
  BY <1>2, <1>4 DEF HealthyReading, Observe
<1> QED BY <1>3, <1>4

(* One more alert, recorded or not.                                        *)
LEMMA LowReadingKeeps ==
    ASSUME Inv, BatteryInv, NEW stage \in Stages, LowReading(stage)
    PROVE  BatteryTypeOK' /\ AlertsAreLogged' /\ RecordTells' /\ NoStageSpentTwice'
<1> DEFINE new == [id |-> Len(log) + 1, battery |-> battery, stage |-> stage, spent |-> ~IsQuiet]
<1>1. /\ alerts' = alerts \cup {new} /\ battery' = battery
      /\ log' = Append(log, NewEvent("BATTERY_LOW"))
  BY DEF LowReading, ProcessIncident
<1>2. /\ log \in Seq(Event) /\ battery \in Nat \ {0} /\ alerts \subseteq Alert
      /\ {alerted, stored} \subseteq {"critical", "low", "none"}
  BY DEF Inv, CorrelatorInv, TypeOK, BatteryInv, BatteryTypeOK, Stages
<1>3. new \in Alert /\ new.battery = battery /\ new.stage = stage /\ new.spent = ~IsQuiet
      /\ new.id = Len(log) + 1
  BY <1>2 DEF Alert
<1> HIDE DEF new
<1>4. DOMAIN log' = DOMAIN log \cup {new.id}
      /\ \A a \in alerts : a.id \in DOMAIN log /\ a.id < new.id /\ a.battery <= battery
  <2>1. NewEvent("BATTERY_LOW") \in Event
    BY NewEventType DEF Inv, CorrelatorInv
  <2> QED BY <1>1, <1>2, <1>3, <2>1 DEF BatteryInv, AlertsAreLogged
<1>5. AlertsAreLogged'
  BY <1>1, <1>2, <1>3, <1>4 DEF AlertsAreLogged
<1>6. CASE IsQuiet
  <2>1. UNCHANGED <<alerted, stored>> /\ ~new.spent
    BY <1>3, <1>6 DEF LowReading, Record
  <2>2. BatteryTypeOK'
    BY <1>1, <1>3, <2>1 DEF BatteryInv, BatteryTypeOK
  <2>3. RecordTells' /\ NoStageSpentTwice'
    BY <1>1, <2>1 DEF BatteryInv, RecordTells, NoStageSpentTwice
  <2> QED BY <1>5, <2>2, <2>3
<1>7. CASE ~IsQuiet
  <2>1. alerted' = stage /\ Persist(stage) /\ alerted \notin {"critical", stage}
    BY <1>7 DEF LowReading, Record, AlreadySent
  <2>2. BatteryTypeOK'
    BY <1>1, <1>2, <1>3, <2>1 DEF BatteryInv, BatteryTypeOK, Persist, Stages
  <2>3. ASSUME ~DiskFails
        PROVE  /\ stored' = stage
               /\ \A a \in alerts : a.spent /\ a.battery = battery => a.stage = "low" /\ stage = "critical"
    BY <1>2, <2>1, <2>3 DEF BatteryInv, RecordTells, Persist, Stages
  <2>4. RecordTells'
    BY <1>1, <1>3, <2>1, <2>3 DEF RecordTells, Stages
  <2>5. NoStageSpentTwice'
    <3> SUFFICES ASSUME ~DiskFails, NEW a \in alerts', NEW b \in alerts',
                        a.spent, b.spent, a.battery = b.battery, a.id < b.id
                 PROVE  a.stage = "low" /\ b.stage = "critical"
      BY DEF NoStageSpentTwice
    <3>1. CASE a \in alerts /\ b \in alerts
      BY <3>1 DEF BatteryInv, NoStageSpentTwice
    <3>2. CASE a \in alerts /\ b = new
      BY <1>3, <2>3, <3>2
    <3>3. CASE a = new
      <4>1. b.id <= new.id /\ b.id \in Nat /\ new.id \in Nat
        BY <1>1, <1>2, <1>3, <1>4 DEF Alert
      <4> QED BY <3>3, <4>1
    <3> QED BY <1>1, <3>1, <3>2, <3>3
  <2> QED BY <1>5, <2>2, <2>4, <2>5
<1> QED BY <1>6, <1>7

(* In a rest the correlator drops the reading.                             *)
LEMMA LowReadingDropped ==
    ASSUME CorrelatorKeeps, BatteryInv, NEW stage \in Stages, LowReading(stage)
    PROVE  DroppedInRest'
<1>1. PICK new : /\ alerts' = alerts \cup {new}
                 /\ new = [id |-> Len(log) + 1, battery |-> battery, stage |-> stage,
                           spent |-> ~IsQuiet]
                 /\ UNCHANGED quietVars /\ ProcessIncident("BATTERY_LOW")
  BY DEF LowReading
<1>2. new.id = Len(log) + 1 /\ new.spent = ~IsQuiet
  BY <1>1
<1>3. CorrelatorStep
  BY <1>1 DEF CorrelatorStep, Process
<1>4. SUFFICES ASSUME quiets' = 0, ~new.spent
               PROVE  ~IsReported(new.id)' /\ ~IsHeld(new.id)'
  BY <1>1, <1>3, DroppedStays DEF DroppedInRest
<1>5. quietIndefinite
  BY <1>1, <1>2, <1>4 DEF BatteryInv, DroppedInRest, IsQuiet, quietVars
<1>6. UNCHANGED <<openWindow, reports>>
  BY <1>1, <1>5 DEF ProcessIncident
<1>7. ~IsReported(new.id) /\ ~IsHeld(new.id)
  BY <1>2, <1>3, LogGrows
  DEF CorrelatorKeeps, OnceInv, LossInv, HeldIsLogged, IsReported, IsHeld
<1> QED BY <1>6, <1>7 DEF IsReported, IsHeld

LEMMA BatteryInvSteps ==
    CorrelatorKeeps /\ BatteryInv /\ [BatteryNext]_alertVars => CorrelatorKeeps' /\ BatteryInv'
<1> SUFFICES ASSUME CorrelatorKeeps, BatteryInv, [BatteryNext]_alertVars
             PROVE  CorrelatorKeeps' /\ BatteryInv'
  OBVIOUS
<1>1. CorrelatorKeeps'
  BY BatteryStep, RebootKeepsCorrelator, CorrelatorStepKeeps
<1>2. ASSUME NEW reading \in Readings, HealthyReading(reading) PROVE BatteryInv'
  <2>1. DroppedInRest'
    BY <1>2 DEF HealthyReading, vars, correlatorVars, quietVars, BatteryInv, DroppedInRest,
                IsReported, IsHeld
  <2> QED BY <1>2, <2>1, HealthyReadingKeeps DEF BatteryInv
<1>3. ASSUME NEW stage \in Stages, LowReading(stage) PROVE BatteryInv'
  BY <1>3, LowReadingKeeps, LowReadingDropped DEF BatteryInv, CorrelatorKeeps
<1>4. CASE Reboot
  <2>1. /\ alerted' = stored
        /\ UNCHANGED <<log, reports, stored, battery, alerts, quiets>>
        /\ quietUntil' = Null /\ openWindow' = NoWindow
    BY <1>4 DEF Reboot, Restart
  <2>2. BatteryTypeOK' /\ AlertsAreLogged' /\ RecordTells' /\ NoStageSpentTwice'
    BY <2>1 DEF BatteryInv, BatteryTypeOK, AlertsAreLogged, RecordTells, NoStageSpentTwice
  <2>3. DroppedInRest'
    BY <2>1 DEF BatteryInv, DroppedInRest, IsReported, IsHeld
  <2> QED BY <1>1, <2>2, <2>3 DEF BatteryInv
<1>5. CASE UNCHANGED batteryVars /\ CorrelatorStep
  <2>1. DroppedInRest'
    BY <1>5, DroppedStays DEF DroppedInRest, batteryVars
  <2>2. DOMAIN log \subseteq DOMAIN log'
    BY <1>5, LogGrows DEF CorrelatorKeeps
  <2> QED BY <1>1, <1>5, <2>1, <2>2
      DEF batteryVars, BatteryInv, BatteryTypeOK, AlertsAreLogged, RecordTells, NoStageSpentTwice
<1>6. CASE OtherTraffic
  <2>1. CorrelatorStep
    BY <1>6, NextIsCorrelatorStep DEF OtherTraffic, Next, CorrelatorStep, QuietCommand,
                                      QuietStep, ClockTicks
  <2> QED BY <1>5, <1>6, <2>1 DEF OtherTraffic
<1>7. CASE UNCHANGED alertVars
  <2>1. CorrelatorStep
    BY <1>7 DEF alertVars, vars, QuietStep, CorrelatorStep
  <2> QED BY <1>5, <1>7, <2>1 DEF alertVars
<1> QED BY <1>1, <1>2, <1>3, <1>4, <1>6, <1>7 DEF BatteryNext

LEMMA BatteryInitInv == BatteryInit => CorrelatorKeeps /\ BatteryInv
<1> SUFFICES ASSUME BatteryInit PROVE CorrelatorKeeps /\ BatteryInv
  OBVIOUS
<1>1. CorrelatorKeeps
  BY CorrelatorKeepsInit DEF BatteryInit
<1>2. quietUntil = Null
  BY DEF BatteryInit, Init, QuietInit
<1> QED BY <1>1, <1>2 DEF BatteryInit, BatteryInv, BatteryTypeOK, AlertsAreLogged, RecordTells,
                     NoStageSpentTwice, DroppedInRest

LEMMA BatteryAlways == BatterySpec => [](CorrelatorKeeps /\ BatteryInv)
BY BatteryInitInv, BatteryInvSteps, PTL DEF BatterySpec

(* For any number of readings, batteries and restarts: a stage is recorded *)
(* once per battery, low before critical (batteryAlerts.js 57-87).         *)
THEOREM StagesAreSpentOnce == BatterySpec => []NoStageSpentTwice
BY BatteryAlways, PTL DEF BatteryInv

(* The correlator's own promises survive the reboots: one that comes while *)
(* a window is open drops what the window holds, which Incidents allows    *)
(* (batteryAlerts.js over eventCorrelator.js, restarted at any time).      *)
THEOREM RebootsKeepTheCorrelator ==
    BatterySpec => /\ [](TypeOK /\ OnlyTheOpenWindowFlushes /\ NoStaleReport /\ SirenNeverWaits)
                   /\ QuietIsRespected
                   /\ Promise!Init /\ [][Promise!Next]_<<Len(log), Waiting, Told>>
<1>1. CorrelatorKeeps => TypeOK /\ OnlyTheOpenWindowFlushes /\ NoStaleReport /\ SirenNeverWaits
  BY DEF CorrelatorKeeps, Inv, CorrelatorInv
<1>2. Reboot => [Promise!Next]_<<Len(log), Waiting, Told>>
  <2> SUFFICES ASSUME Reboot PROVE [Promise!Next]_<<Len(log), Waiting, Told>>
    OBVIOUS
  <2>1. Waiting' = <<>> /\ Told' = Told /\ Len(log') = Len(log)
    BY DEF Reboot, Waiting, Told, Ids
  <2> QED BY <2>1 DEF Promise!Next, Promise!Close, Promise!Settle
<1>3. CorrelatorKeeps /\ [BatteryNext]_alertVars => [Promise!Next]_<<Len(log), Waiting, Told>>
  BY <1>2, BatteryStep, StepKeepsPromise DEF CorrelatorKeeps, Kept
<1>4. CorrelatorKeeps /\ [BatteryNext]_alertVars
        => [\A r \in DOMAIN reports' \ DOMAIN reports : MayPass(reports'[r].events)]_vars
  BY BatteryStep, StepPasses DEF CorrelatorKeeps, Reboot
<1>5. QuietIsRespected <=> [][\A r \in DOMAIN reports' \ DOMAIN reports : MayPass(reports'[r].events)]_vars
  BY DEF QuietIsRespected, MayPass, Types
<1>6. BatteryInit => Promise!Init
  BY InitPromise DEF BatteryInit
<1> QED BY <1>1, <1>3, <1>4, <1>5, <1>6, BatteryAlways, PTL DEF BatterySpec

(* Two pushes about a battery are about different stages of it, since each *)
(* tells of a recorded alert and no alert is told twice.                   *)
LEMMA PushesDiffer ==
    ASSUME CorrelatorKeeps, BatteryInv, quiets = 0, ~DiskFails, NEW n
    PROVE  Cardinality(PushesFor(n)) <= 2
<1> DEFINE Tells(r, a) == /\ a \in alerts /\ a.battery = n
                          /\ \E k \in DOMAIN reports[r].events : a.id = reports[r].events[k].id
           About(r) == CHOOSE a : Tells(r, a)
           f == [r \in PushesFor(n) |-> About(r).stage]
<1>1. ASSUME NEW r \in PushesFor(n)
      PROVE  r \in DOMAIN reports /\ Tells(r, About(r))
  BY DEF PushesFor
<1>2. ASSUME NEW r \in DOMAIN reports, NEW a, Tells(r, a)
      PROVE  a.spent /\ a \in Alert
  <2>1. IsReported(a.id)
    BY <1>2 DEF IsReported
  <2> QED BY <1>2, <2>1 DEF BatteryInv, DroppedInRest, BatteryTypeOK
<1>3. ASSUME NEW r \in DOMAIN reports, NEW s \in DOMAIN reports, NEW a, NEW b,
             Tells(r, a), Tells(s, b), a.stage = b.stage
      PROVE  r = s
  <2>1. a \in alerts /\ b \in alerts /\ a.spent /\ b.spent /\ a \in Alert /\ b \in Alert
    BY <1>2, <1>3
  <2>2. a.id \in Nat /\ b.id \in Nat
    BY <2>1 DEF Alert
  <2>3. ~(a.id < b.id) /\ ~(b.id < a.id)
    BY <1>3, <2>1 DEF BatteryInv, NoStageSpentTwice
  <2>4. a.id = b.id
    BY <2>2, <2>3
  <2> QED BY <1>3, <2>4 DEF CorrelatorKeeps, OnceInv, ToldOnce
<1>4. \A r \in PushesFor(n) : About(r).stage \in Stages
  BY <1>1, <1>2 DEF Alert
<1> HIDE DEF About, Tells
<1>5. f \in [PushesFor(n) -> Stages]
  BY <1>4
<1>6. \A r, s \in PushesFor(n) : f[r] = f[s] => r = s
  BY <1>1, <1>3
<1> HIDE DEF f
<1>7. f \in Injection(PushesFor(n), Stages)
  BY <1>5, <1>6 DEF Injection, IsInjective
<1>8. IsFiniteSet(Stages) /\ Cardinality(Stages) = 2
  <2>1. IsFiniteSet({"low"}) /\ Cardinality({"low"}) = 1
    BY FS_Singleton
  <2>2. Stages = {"low"} \cup {"critical"} /\ "critical" \notin {"low"}
    BY DEF Stages
  <2> QED BY <2>1, <2>2, FS_AddElement
<1> QED BY <1>7, <1>8, FS_Injection

(* Without timed quiet the promise at the head of batteryAlerts.js holds:  *)
(* at most two pushes per battery, whatever windows its alerts fall into   *)
(* and however often the process restarts.                                 *)
THEOREM AtMostTwoPushes == BatterySpec => []AtMostTwoUnlessTimedQuiet
<1>1. CorrelatorKeeps /\ BatteryInv => AtMostTwoUnlessTimedQuiet
  BY PushesDiffer DEF AtMostTwoUnlessTimedQuiet, AtMostTwoPerBattery
<1> QED BY <1>1, BatteryAlways, PTL

-----------------------------------------------------------------------------
(* The alert pipeline.  A message that was delivered is remembered for as  *)
(* long as Pulsar may repeat it, so it gets one handler, and that handler  *)
(* is past whatever of the message was handled.                            *)
Message == [report : DeviceReports, at : Nat, acked : BOOLEAN, deliveries : Nat]
Handler == [message : Nat, next : Nat \ {0}, ready : BOOLEAN]
Handled == [message : Nat, place : Nat]

PipelineTypeOK ==
    /\ messages \in Seq(Message)
    /\ \A s \in seen : s.at \in Nat
    /\ handlers \subseteq Handler
    /\ origin \in Seq(Handled)

IsDelivered(m) == m \in DOMAIN messages /\ messages[m].deliveries > 0

DeliveredAreSeen ==
    /\ \A s \in seen : IsDelivered(s.message)
    /\ \A m \in DOMAIN messages :
           /\ messages[m].at <= now
           /\ IsDelivered(m) => \E s \in seen : s.message = m /\ messages[m].at <= s.at

OneHandlerEach ==
    /\ \A h \in handlers : IsDelivered(h.message)
    /\ \A g, h \in handlers : g.message = h.message => g = h

PlacesPassed ==
    /\ \A i \in DOMAIN origin : IsDelivered(origin[i].message)
    /\ \A h \in handlers, i \in DOMAIN origin :
           origin[i].message = h.message => origin[i].place < h.next

PipelineInv ==
    /\ PipelineTypeOK
    /\ DeliveredAreSeen /\ OneHandlerEach /\ PlacesPassed
    /\ ProcessedOnceInOrder

USE PipelineAssumption

(* What is handed to the correlator are events it knows.                   *)
LEMMA EventsAtType ==
    ASSUME PipelineInv, NEW h \in handlers, h.next <= Len(EventsAt(h))
    PROVE  EventsAt(h)[h.next] \in EventTypes
<1>1. messages \in Seq(Message) /\ h.message \in DOMAIN messages /\ h.next \in Nat \ {0}
  BY DEF PipelineInv, PipelineTypeOK, OneHandlerEach, IsDelivered, Handler
<1>2. messages[h.message] \in Message
  BY <1>1
<1>3. messages[h.message].report \in DeviceReports
  BY <1>2 DEF Message
<1>4. EventsAt(h) \in Seq(EventTypes)
  BY <1>3 DEF EventsAt, Transformed
<1> QED BY <1>1, <1>4

LEMMA PipelineStep == PipelineInv /\ [PipelineNext]_allVars => CorrelatorStep
<1> SUFFICES ASSUME PipelineInv, [PipelineNext]_allVars PROVE CorrelatorStep
  OBVIOUS
<1>1. CASE UNCHANGED vars
  BY <1>1 DEF vars, QuietStep, CorrelatorStep
<1>2. ASSUME NEW h \in handlers, HandleNext(h) PROVE CorrelatorStep
  BY <1>2, EventsAtType DEF HandleNext, CorrelatorStep
<1>3. CASE FlushByTimer
  BY <1>3 DEF FlushByTimer, CorrelatorStep
<1>4. CASE Elsewhere
  BY <1>4 DEF Elsewhere, ClockTicks, QuietCommand, QuietStep, CorrelatorStep
<1> QED BY <1>1, <1>2, <1>3, <1>4
    DEF PipelineNext, allVars, Publish, Deliver, Continue, SkipAnnounced, Return, LineAccepts, LineFails

LEMMA NowGrows ==
    ASSUME Inv, CorrelatorStep
    PROVE  now \in Nat /\ now' \in Nat /\ now <= now'
BY QuietPart DEF Inv, QuietInv, QuietTypeOK, QuietStep, SetQuiet, SetIndefiniteQuiet,
                 ClearQuiet, WakeTimerFires, Tick, quietVars

(* Messages stay published and delivered.                                  *)
LEMMA SameMessages ==
    ASSUME PipelineInv, UNCHANGED <<messages, seen>>,
           now \in Nat, now' \in Nat, now <= now'
    PROVE  DeliveredAreSeen' /\ \A m : IsDelivered(m) => IsDelivered(m)'
<1>1. ASSUME NEW m \in DOMAIN messages PROVE messages[m].at <= now'
  <2>1. messages[m] \in Message
    BY DEF PipelineInv, PipelineTypeOK
  <2>2. messages[m].at \in Nat /\ messages[m].at <= now
    BY <2>1 DEF PipelineInv, DeliveredAreSeen, Message
  <2> QED BY <2>2
<1>2. \A m : IsDelivered(m)' <=> IsDelivered(m)
  BY DEF IsDelivered
<1> QED BY <1>1, <1>2 DEF PipelineInv, DeliveredAreSeen

(* Steps that leave what was delivered, remembered and handled alone.      *)
LEMMA HandlersKeep ==
    ASSUME PipelineInv, UNCHANGED <<messages, seen, origin>>, handlers' \subseteq Handler,
           now \in Nat, now' \in Nat, now <= now',
           \A g \in handlers' : \E h \in handlers : g.message = h.message /\ g.next = h.next,
           \A g, h \in handlers' : g.message = h.message => g = h
    PROVE  PipelineInv'
<1>1. PipelineTypeOK' /\ ProcessedOnceInOrder'
  BY DEF PipelineInv, PipelineTypeOK, ProcessedOnceInOrder
<1>2. DeliveredAreSeen' /\ \A m : IsDelivered(m) => IsDelivered(m)'
  BY SameMessages
<1>3. OneHandlerEach'
  BY <1>2 DEF PipelineInv, OneHandlerEach, IsDelivered
<1>4. PlacesPassed'
  BY <1>2 DEF PipelineInv, PlacesPassed, IsDelivered
<1> QED BY <1>1, <1>2, <1>3, <1>4 DEF PipelineInv

(* A handler passes one event, handled or skipped.                         *)
LEMMA NextPlace ==
    ASSUME NEW h \in Handler, NEW ready \in BOOLEAN
    PROVE  /\ [h EXCEPT !.next = @ + 1, !.ready = ready] \in Handler
           /\ [h EXCEPT !.next = @ + 1, !.ready = ready].message = h.message
           /\ [h EXCEPT !.next = @ + 1, !.ready = ready].next = h.next + 1
<1>1. [h EXCEPT !.next = @ + 1, !.ready = ready] \in Handler
  <2>1. h.next \in Nat \ {0} /\ h.next + 1 \in Nat \ {0}
    BY DEF Handler
  <2> QED BY <2>1 DEF Handler
<1>2. /\ [h EXCEPT !.next = @ + 1, !.ready = ready].message = h.message
      /\ [h EXCEPT !.next = @ + 1, !.ready = ready].next = h.next + 1
  BY DEF Handler
<1> QED BY <1>1, <1>2

LEMMA PassEventKeeps ==
    ASSUME PipelineInv, NEW h \in handlers, NEW ready \in BOOLEAN,
           now \in Nat, now' \in Nat, now <= now', UNCHANGED <<messages, seen>>,
           handlers' = (handlers \ {h}) \cup {[h EXCEPT !.next = @ + 1, !.ready = ready]},
           origin' = Append(origin, [message |-> h.message, place |-> h.next])
    PROVE  PipelineInv'
<1> DEFINE g == [h EXCEPT !.next = @ + 1, !.ready = ready]
           last == [message |-> h.message, place |-> h.next]
<1>1. /\ h \in Handler /\ h.next \in Nat \ {0} /\ h.message \in Nat
      /\ g \in Handler /\ g.message = h.message /\ g.next = h.next + 1
  <2>1. h \in Handler
    BY DEF PipelineInv, PipelineTypeOK
  <2>2. h.next \in Nat \ {0} /\ h.message \in Nat
    BY <2>1 DEF Handler
  <2> QED BY <2>1, <2>2, NextPlace
<1>2. last \in Handled /\ last.message = h.message /\ last.place = h.next
  BY <1>1 DEF Handled
<1>3. handlers' = (handlers \ {h}) \cup {g} /\ origin' = Append(origin, last)
  OBVIOUS
<1> HIDE DEF g, last
<1>4. /\ origin' \in Seq(Handled)
      /\ origin \in Seq(Handled)
      /\ DOMAIN origin' = DOMAIN origin \cup {Len(origin) + 1}
      /\ \A i \in DOMAIN origin : i \in Nat /\ i < Len(origin) + 1 /\ origin'[i] = origin[i]
      /\ origin'[Len(origin) + 1] = last
      /\ Len(origin) + 1 \in Nat
  BY <1>2, <1>3 DEF PipelineInv, PipelineTypeOK
<1>5. ASSUME NEW i \in DOMAIN origin PROVE origin[i].place \in Nat
  <2>1. origin[i] \in Handled
    BY <1>4, ElementOfSeq
  <2> QED BY <2>1 DEF Handled
<1>6. PipelineTypeOK'
  <2>1. handlers' \subseteq Handler
    BY <1>1, <1>3 DEF PipelineInv, PipelineTypeOK
  <2> QED BY <1>4, <2>1 DEF PipelineInv, PipelineTypeOK
<1>7. DeliveredAreSeen' /\ \A m : IsDelivered(m) => IsDelivered(m)'
  BY SameMessages
<1>8. OneHandlerEach'
  BY <1>1, <1>3, <1>7 DEF PipelineInv, OneHandlerEach
<1>9. PlacesPassed'
  <2>1. ASSUME NEW i \in DOMAIN origin' PROVE IsDelivered(origin[i].message)'
    <3>1. PICK m : m = origin'[i].message
      OBVIOUS
    <3>2. IsDelivered(m)
      BY <1>2, <1>4, <3>1 DEF PipelineInv, PlacesPassed, OneHandlerEach
    <3>3. IsDelivered(m)'
      BY <1>7, <3>2
    <3> QED BY <3>1, <3>3 DEF IsDelivered
  <2>2. ASSUME NEW f \in handlers', NEW i \in DOMAIN origin', origin'[i].message = f.message
        PROVE  origin'[i].place < f.next
    <3>1. CASE f = g /\ i \in DOMAIN origin
      <4>1. origin[i].place < h.next
        BY <1>1, <1>4, <2>2, <3>1 DEF PipelineInv, PlacesPassed
      <4> QED BY <1>1, <1>4, <1>5, <3>1, <4>1
    <3>2. CASE f = g /\ i = Len(origin) + 1
      BY <1>1, <1>2, <1>4, <3>2
    <3>3. CASE f # g /\ i \in DOMAIN origin
      BY <1>3, <1>4, <2>2, <3>3 DEF PipelineInv, PlacesPassed
    <3>4. CASE f # g /\ i = Len(origin) + 1
      <4>1. f \in handlers /\ f # h
        BY <1>3, <3>4
      <4>2. f.message = h.message
        BY <1>2, <1>4, <2>2, <3>4
      <4> QED BY <4>1, <4>2 DEF PipelineInv, OneHandlerEach
    <3> QED BY <1>4, <3>1, <3>2, <3>3, <3>4
  <2> QED BY <2>1, <2>2 DEF PlacesPassed
<1>10. ProcessedOnceInOrder'
  <2> SUFFICES ASSUME NEW i \in DOMAIN origin', NEW j \in DOMAIN origin',
                      i < j, origin'[i].message = origin'[j].message
               PROVE  origin'[i].place < origin'[j].place
    BY DEF ProcessedOnceInOrder
  <2>1. CASE i \in DOMAIN origin /\ j \in DOMAIN origin
    BY <1>4, <2>1 DEF PipelineInv, ProcessedOnceInOrder
  <2>2. CASE i \in DOMAIN origin /\ j = Len(origin) + 1
    BY <1>2, <1>4, <2>2 DEF PipelineInv, PlacesPassed
  <2>3. CASE i = Len(origin) + 1
    BY <1>4, <2>3
  <2> QED BY <1>4, <2>1, <2>2, <2>3
<1> QED BY <1>6, <1>7, <1>8, <1>9, <1>10 DEF PipelineInv

LEMMA PublishKeeps ==
    ASSUME Inv, PipelineInv, NEW report \in DeviceReports, Publish(report)
    PROVE  PipelineInv'
<1> DEFINE new == [report |-> report, at |-> now, acked |-> FALSE, deliveries |-> 0]
<1>1. /\ messages' = Append(messages, new) /\ UNCHANGED <<seen, handlers, origin>>
      /\ now' = now /\ now \in Nat /\ messages \in Seq(Message)
  BY DEF Publish, vars, quietVars, Inv, QuietInv, QuietTypeOK, PipelineInv, PipelineTypeOK
<1>2. new \in Message /\ new.at = now /\ new.deliveries = 0
  BY <1>1 DEF Message
<1> HIDE DEF new
<1>3. /\ messages' \in Seq(Message)
      /\ DOMAIN messages' = DOMAIN messages \cup {Len(messages) + 1}
      /\ \A m \in DOMAIN messages : messages'[m] = messages[m]
      /\ messages'[Len(messages) + 1] = new
      /\ Len(messages) + 1 \notin DOMAIN messages
  BY <1>1, <1>2
<1>4. PipelineTypeOK'
  BY <1>1, <1>3 DEF PipelineInv, PipelineTypeOK
<1>5. \A m : IsDelivered(m)' <=> IsDelivered(m)
  BY <1>2, <1>3 DEF IsDelivered
<1>6. DeliveredAreSeen'
  <2> SUFFICES ASSUME NEW m \in DOMAIN messages'
               PROVE  /\ messages'[m].at <= now'
                      /\ IsDelivered(m) => \E s \in seen' : s.message = m /\ messages'[m].at <= s.at
    BY <1>1, <1>5 DEF DeliveredAreSeen, PipelineInv
  <2>1. CASE m \in DOMAIN messages
    BY <1>1, <1>3, <2>1 DEF PipelineInv, DeliveredAreSeen
  <2>2. CASE m = Len(messages) + 1
    BY <1>1, <1>2, <1>3, <2>2 DEF IsDelivered
  <2> QED BY <1>3, <2>1, <2>2
<1>7. OneHandlerEach' /\ ProcessedOnceInOrder'
  BY <1>1, <1>5 DEF PipelineInv, OneHandlerEach, ProcessedOnceInOrder
<1>8. PlacesPassed'
  BY <1>1, <1>5 DEF PipelineInv, PlacesPassed, IsDelivered
<1> QED BY <1>4, <1>6, <1>7, <1>8 DEF PipelineInv

(* While Pulsar may still repeat a message, the deduplicator knows it.     *)
LEMMA RepeatsAreKnown ==
    ASSUME Inv, PipelineInv, NEW m \in DOMAIN messages, Deliver(m), IsDelivered(m)
    PROVE  IsDuplicate(m)
<1>1. messages[m] \in Message
  BY DEF PipelineInv, PipelineTypeOK
<1>2. messages[m].at \in Nat /\ now \in Nat
  BY <1>1 DEF Message, Inv, QuietInv, QuietTypeOK
<1>3. now <= messages[m].at + RedeliverFor
  BY DEF Deliver, IsDelivered
<1>4. PICK s \in seen : s.message = m /\ messages[m].at <= s.at
  BY DEF PipelineInv, DeliveredAreSeen
<1>5. s.at \in Nat
  BY DEF PipelineInv, PipelineTypeOK
<1> QED BY <1>2, <1>3, <1>4, <1>5 DEF IsDuplicate

LEMMA DeliverKeeps ==
    ASSUME Inv, PipelineInv, NEW m \in DOMAIN messages, Deliver(m)
    PROVE  PipelineInv'
<1>1. /\ messages \in Seq(Message) /\ m \in Nat /\ now \in Nat /\ now' = now
      /\ origin' = origin
  BY DEF PipelineInv, PipelineTypeOK, Inv, QuietInv, QuietTypeOK, Deliver, vars, quietVars
<1>2. PICK acked \in BOOLEAN :
        messages' = [messages EXCEPT ![m].acked = acked, ![m].deliveries = @ + 1]
  BY DEF Deliver
<1>3. messages[m] \in Message
  BY <1>1
<1>4. /\ DOMAIN messages' = DOMAIN messages
      /\ \A n \in DOMAIN messages : n # m => messages'[n] = messages[n]
      /\ messages'[m] = [messages[m] EXCEPT !.acked = acked, !.deliveries = @ + 1]
  BY <1>1, <1>2
<1>5. /\ messages'[m] \in Message /\ messages'[m].at = messages[m].at
      /\ messages'[m].deliveries > 0
  <2>1. messages[m].deliveries \in Nat /\ messages[m].deliveries + 1 \in Nat
    BY <1>3 DEF Message
  <2>2. messages'[m] \in Message
    BY <1>3, <1>4, <2>1 DEF Message
  <2>3. messages'[m].at = messages[m].at /\ messages'[m].deliveries = messages[m].deliveries + 1
    BY <1>3, <1>4 DEF Message
  <2> QED BY <2>1, <2>2, <2>3
<1>6. messages' \in Seq(Message)
  <2>1. \A n \in 1 .. Len(messages) : messages'[n] \in Message
    BY <1>1, <1>4, <1>5
  <2>2. messages' \in [1 .. Len(messages) -> Message]
    BY <1>1, <1>2, <2>1
  <2> QED BY <1>1, <2>2
<1>7. \A n : IsDelivered(n)' <=> IsDelivered(n) \/ n = m
  BY <1>4, <1>5 DEF IsDelivered
<1>8. \A n \in DOMAIN messages' : messages'[n].at = messages[n].at
  BY <1>4, <1>5
<1>9. PlacesPassed => \A i \in DOMAIN origin' : IsDelivered(origin[i].message)'
  BY <1>1, <1>4, <1>5 DEF PlacesPassed, IsDelivered
<1>10. CASE IsDuplicate(m)
  <2>1. UNCHANGED <<seen, handlers>>
    BY <1>10 DEF Deliver
  <2>2. \A n : IsDelivered(n)' <=> IsDelivered(n)
    BY <1>7, <1>10 DEF IsDuplicate, PipelineInv, DeliveredAreSeen
  <2>3. PipelineTypeOK' /\ ProcessedOnceInOrder'
    BY <1>1, <1>6, <2>1 DEF PipelineInv, PipelineTypeOK, ProcessedOnceInOrder
  <2>4. DeliveredAreSeen'
    BY <1>1, <1>4, <1>8, <2>1, <2>2 DEF PipelineInv, DeliveredAreSeen
  <2>5. OneHandlerEach'
    BY <2>1, <2>2 DEF PipelineInv, OneHandlerEach
  <2>6. PlacesPassed'
    BY <1>1, <1>9, <2>1 DEF PipelineInv, PlacesPassed
  <2> QED BY <2>3, <2>4, <2>5, <2>6 DEF PipelineInv
<1>11. CASE ~IsDuplicate(m)
  <2> DEFINE new == [message |-> m, next |-> 1, ready |-> TRUE]
             set == [message |-> m, at |-> now]
  <2>1. /\ seen' = {s \in seen : s.message # m} \cup {set}
        /\ handlers' = handlers \cup {new}
    BY <1>11 DEF Deliver, Remember
  <2>2. /\ new \in Handler /\ new.message = m /\ new.next = 1
        /\ set.message = m /\ set.at = now
    BY <1>1 DEF Handler
  <2> HIDE DEF new, set
  <2>3. ~IsDelivered(m)
    BY <1>11, RepeatsAreKnown
  <2>4. PipelineTypeOK'
    BY <1>1, <1>6, <2>1, <2>2 DEF PipelineInv, PipelineTypeOK
  <2>5. DeliveredAreSeen'
    <3>1. ASSUME NEW s \in seen' PROVE IsDelivered(s.message)'
      BY <1>7, <2>1, <2>2, <3>1 DEF PipelineInv, DeliveredAreSeen
    <3>2. ASSUME NEW n \in DOMAIN messages'
          PROVE  /\ messages'[n].at <= now'
                 /\ IsDelivered(n)' => \E s \in seen' : s.message = n /\ messages'[n].at <= s.at
      <4>1. CASE n = m
        BY <1>1, <1>4, <1>8, <2>1, <2>2, <4>1 DEF PipelineInv, DeliveredAreSeen
      <4>2. CASE n # m
        BY <1>1, <1>4, <1>7, <1>8, <2>1, <4>2 DEF PipelineInv, DeliveredAreSeen
      <4> QED BY <4>1, <4>2
    <3> QED BY <3>1, <3>2 DEF DeliveredAreSeen
  <2>6. OneHandlerEach'
    BY <1>7, <2>1, <2>2, <2>3 DEF PipelineInv, OneHandlerEach
  <2>7. PlacesPassed'
    <3>1. \A i \in DOMAIN origin : origin[i].message # m
      BY <2>3 DEF PipelineInv, PlacesPassed
    <3>2. \A h \in handlers', i \in DOMAIN origin' :
              origin'[i].message = h.message => origin'[i].place < h.next
      BY <1>1, <2>1, <2>2, <3>1 DEF PipelineInv, PlacesPassed
    <3> QED BY <1>9, <3>2 DEF PipelineInv, PlacesPassed
  <2>8. ProcessedOnceInOrder'
    BY <1>1 DEF PipelineInv, ProcessedOnceInOrder
  <2> QED BY <2>4, <2>5, <2>6, <2>7, <2>8 DEF PipelineInv
<1> QED BY <1>10, <1>11

LEMMA PipelineInvSteps ==
    CorrelatorKeeps /\ PipelineInv /\ [PipelineNext]_allVars => CorrelatorKeeps' /\ PipelineInv'
<1> SUFFICES ASSUME CorrelatorKeeps, PipelineInv, [PipelineNext]_allVars
             PROVE  CorrelatorKeeps' /\ PipelineInv'
  OBVIOUS
<1>1. CorrelatorStep /\ CorrelatorKeeps' /\ Inv
  BY PipelineStep, CorrelatorStepKeeps DEF CorrelatorKeeps
<1>2. now \in Nat /\ now' \in Nat /\ now <= now'
  BY <1>1, NowGrows
<1>3. handlers \subseteq Handler
  BY DEF PipelineInv, PipelineTypeOK
<1>4. ASSUME NEW report \in DeviceReports, Publish(report) PROVE PipelineInv'
  BY <1>1, <1>4, PublishKeeps
<1>5. ASSUME NEW m \in DOMAIN messages, Deliver(m) PROVE PipelineInv'
  BY <1>1, <1>5, DeliverKeeps
<1>6. ASSUME NEW h \in handlers, HandleNext(h) PROVE PipelineInv'
  <2>1. PICK ready \in BOOLEAN : ready = ~IsPushed
    <3>1. CASE IsPushed
      <4>1. ~IsPushed = FALSE
        BY <3>1
      <4> QED BY <4>1
    <3>2. CASE ~IsPushed
      <4>1. ~IsPushed = TRUE
        BY <3>2
      <4> QED BY <4>1
    <3> QED BY <3>1, <3>2
  <2> QED BY <1>2, <1>6, <2>1, PassEventKeeps DEF HandleNext
<1>7. ASSUME NEW h \in handlers, SkipAnnounced(h) PROVE PipelineInv'
  <2>1. handlers' = (handlers \ {h}) \cup {[h EXCEPT !.next = @ + 1, !.ready = TRUE]}
    BY <1>3, <1>7 DEF SkipAnnounced, Handler
  <2> QED BY <1>2, <1>7, <2>1, PassEventKeeps DEF SkipAnnounced
<1>8. ASSUME handlers' \subseteq handlers, UNCHANGED <<messages, seen, origin>>
      PROVE  PipelineInv'
  BY <1>2, <1>3, <1>8, HandlersKeep DEF PipelineInv, OneHandlerEach
<1>9. ASSUME NEW c \in calls, LineAccepts(c) PROVE PipelineInv'
  <2> DEFINE woken(h) == [h EXCEPT !.ready = TRUE]
  <2>1. \A h \in handlers : /\ woken(h) \in Handler /\ woken(h).message = h.message
                            /\ woken(h).next = h.next
    BY <1>3 DEF Handler
  <2>2. handlers' = (handlers \ Awaiting(c)) \cup {woken(h) : h \in Awaiting(c)}
        /\ Awaiting(c) \subseteq handlers
    BY <1>9 DEF LineAccepts, Awaiting
  <2> HIDE DEF woken
  <2>3. \A g \in handlers' : \E h \in handlers : /\ g.message = h.message /\ g.next = h.next
                                                 /\ g \in Handler
                                                 /\ g = IF h \in Awaiting(c) THEN woken(h) ELSE h
    BY <1>3, <2>1, <2>2
  <2>4. \A g, h \in handlers' : g.message = h.message => g = h
    BY <2>3 DEF PipelineInv, OneHandlerEach
  <2> QED BY <1>2, <1>9, <2>3, <2>4, HandlersKeep DEF LineAccepts
<1>10. ASSUME NEW c \in calls, LineFails(c) PROVE PipelineInv'
  BY <1>8, <1>10 DEF LineFails
<1>11. CASE (\E h \in handlers : Return(h)) \/ FlushByTimer \/ Elsewhere \/ UNCHANGED allVars
  <2>1. handlers' \subseteq handlers /\ UNCHANGED <<messages, seen, origin>>
    BY <1>11 DEF Return, FlushByTimer, Elsewhere, allVars, pipelineVars
  <2> QED BY <1>1, <1>8, <2>1
<1> QED BY <1>1, <1>4, <1>5, <1>6, <1>7, <1>9, <1>10, <1>11 DEF PipelineNext, Continue

LEMMA PipelineInitInv == PipelineInit => CorrelatorKeeps /\ PipelineInv
BY CorrelatorKeepsInit DEF PipelineInit, PipelineInv, PipelineTypeOK, DeliveredAreSeen,
   OneHandlerEach, PlacesPassed, ProcessedOnceInOrder, IsDelivered

LEMMA PipelineAlways == PipelineSpec => [](CorrelatorKeeps /\ PipelineInv)
BY PipelineInitInv, PipelineInvSteps, PTL DEF PipelineSpec

(* For any reports, redeliveries and interleaving of handlers: an event is *)
(* processed once and in its place, since Pulsar gives up repeating a      *)
(* message before the deduplicator forgets it (app.js 51-113,              *)
(* lruDeduplicator.js 6-25).                                               *)
THEOREM EventsAreProcessedOnceInOrder == PipelineSpec => []ProcessedOnceInOrder
BY PipelineAlways, PTL DEF PipelineInv

(* However many handlers run at a time, whatever LINE answers and whenever,*)
(* the correlator they share keeps every safety property it has alone.     *)
THEOREM PipelineKeepsTheCorrelator ==
    PipelineSpec => /\ [](TypeOK /\ OnlyTheOpenWindowFlushes /\ NoStaleReport /\ SirenNeverWaits)
                    /\ QuietIsRespected /\ NothingLostOutsideQuiet /\ WindowRunsItsCourse
                    /\ Promise!Init /\ [][Promise!Next]_<<Len(log), Waiting, Told>>
<1>1. CorrelatorKeeps => TypeOK /\ OnlyTheOpenWindowFlushes /\ NoStaleReport /\ SirenNeverWaits
  BY DEF CorrelatorKeeps, Inv, CorrelatorInv
<1>2. CorrelatorKeeps /\ CorrelatorStep
        => /\ \A r \in DOMAIN reports' \ DOMAIN reports : MayPass(reports'[r].events)
           /\ \A i \in Silenced' \ Silenced : Excused(i)
           /\ Course
           /\ [Promise!Next]_<<Len(log), Waiting, Told>>
  BY StepPasses, StepLosesNothing, StepRunsItsCourse, StepKeepsPromise DEF CorrelatorKeeps, Kept
<1>3. CorrelatorKeeps /\ PipelineInv /\ [PipelineNext]_allVars
        => /\ [\A r \in DOMAIN reports' \ DOMAIN reports : MayPass(reports'[r].events)]_vars
           /\ [\A i \in Silenced' \ Silenced : Excused(i)]_vars
           /\ [Course]_vars
           /\ [Promise!Next]_<<Len(log), Waiting, Told>>
  BY <1>2, PipelineStep
<1>4. /\ QuietIsRespected <=> [][\A r \in DOMAIN reports' \ DOMAIN reports : MayPass(reports'[r].events)]_vars
      /\ NothingLostOutsideQuiet <=> [][\A i \in Silenced' \ Silenced : Excused(i)]_vars
      /\ WindowRunsItsCourse <=> [][Course]_vars
  BY DEF QuietIsRespected, MayPass, Types, NothingLostOutsideQuiet, Excused, WindowRunsItsCourse, Course
<1>5. PipelineInit => Promise!Init
  BY InitPromise DEF PipelineInit
<1> QED BY <1>1, <1>3, <1>4, <1>5, PipelineAlways, PTL DEF PipelineSpec

=============================================================================
