---------------------------- MODULE BatteryAlerts ----------------------------
(***************************************************************************)
(* src/services/batteryAlerts.js and its gate in the message handler of    *)
(* app.js, over the correlator the alerts that pass it go through: which   *)
(* of a device's low-battery readings are announced, and what is           *)
(* remembered of that on disk.  One device is modelled: the code keeps one *)
(* independent entry for each.                                             *)
(***************************************************************************)
EXTENDS EventCorrelator

CONSTANT MaxBatteries  \* bound: batteries the device gets through

ASSUME BatteryAssumption == "BATTERY_LOW" \in EventTypes /\ MaxBatteries \in Nat

VARIABLES
    alerted,  \* alerted[deviceId] in memory: "none", "low" or "critical"
    stored,   \* what the state file would load as
    battery,  \* history: which battery the device runs on
    alerts    \* history: the alerts let through to the correlator

batteryVars == <<alerted, stored, battery, alerts>>
alertVars == <<vars, batteryVars>>

(* A reading by its level: below 5, 20 and 50 percent, and the rest.  Only *)
(* the first two become BATTERY_LOW events (dpProfiles.js, batteryLow).    *)
Stages == {"critical", "low"}
Readings == Stages \cup {"healthy", "fresh"}

(* Best effort: a failed write leaves the old file or one that no longer   *)
(* parses, which loads as nothing alerted.                                 *)
Persist(s) == stored' \in {s} \cup (IF DiskFails THEN {stored, "none"} ELSE {})

ObserveWobble(reading) ==
    IF reading \in {"healthy", "fresh"} /\ alerted # "none"
    THEN alerted' = "none" /\ Persist("none")
    ELSE UNCHANGED <<alerted, stored>>

(* observe, before normalization.  A fresh reading comes from a new        *)
(* battery; a healthy one may be a tired battery's wobble.                 *)
Observe(reading) ==
    IF reading = "fresh" /\ alerted # "none"
    THEN alerted' = "none" /\ Persist("none")
    ELSE UNCHANGED <<alerted, stored>>

HealthyReading(reading) ==
    /\ reading \notin Stages
    /\ Observe(reading)
    /\ reading = "fresh" => battery < MaxBatteries
    /\ battery' = IF reading = "fresh" THEN battery + 1 ELSE battery
    /\ UNCHANGED <<alerts, vars>>

AlreadySent(stage) == alerted \in {"critical", stage}

RecordInMemory(stage) ==
    /\ alerted' = IF IsQuiet THEN alerted ELSE stage
    /\ UNCHANGED stored

(* shouldAlert of a reading not yet announced: true in any case, but       *)
(* recorded only when the bot is not quiet.                                *)
Record(stage) ==
    IF IsQuiet THEN UNCHANGED <<alerted, stored>>
    ELSE alerted' = stage /\ Persist(stage)

LowReading(stage) ==
    /\ stage \in Stages
    /\ ~AlreadySent(stage)
    /\ Record(stage)
    /\ alerts' = alerts \cup {[id |-> Len(log) + 1, battery |-> battery,
                               stage |-> stage, spent |-> ~IsQuiet]}
    /\ ProcessIncident("BATTERY_LOW")
    /\ UNCHANGED <<battery, quietVars>>

(* The process dies and boots: the window and its events are gone, load()  *)
(* reads the file.                                                         *)
Reboot ==
    /\ Restart
    /\ openWindow' = NoWindow
    /\ pendingFlushes' = {}
    /\ alerted' = stored
    /\ UNCHANGED <<log, reports, stored, battery, alerts>>

BatteryInit ==
    /\ Init
    /\ alerted = "none"
    /\ stored = "none"
    /\ battery = 1
    /\ alerts = {}

(* The rest of the traffic opens windows that battery alerts fall into.    *)
OtherTraffic ==
    /\ \/ Len(log) < MaxEvents /\ \E type \in EventTypes \ {"BATTERY_LOW"} : Process(type)
       \/ WindowTimerFires
       \/ QuietCommand /\ UNCHANGED correlatorVars
       \/ WakeTimerFires /\ UNCHANGED correlatorVars
       \/ ClockTicks
    /\ UNCHANGED batteryVars

BatteryNext ==
    \/ \E reading \in Readings : HealthyReading(reading)
    \/ Len(log) < MaxEvents /\ \E stage \in Stages : LowReading(stage)
    \/ Reboot
    \/ OtherTraffic

BatterySpec == BatteryInit /\ [][BatteryNext]_alertVars

-----------------------------------------------------------------------------
(* While a low-battery alert is on record the same battery never has the   *)
(* same stage recorded again, nor a low one after a critical one: readings *)
(* that wobble and restarts of the process do not re-arm a device.         *)
NoStageSpentTwice ==
    ~DiskFails =>
        \A a, b \in alerts :
            a.spent /\ b.spent /\ a.battery = b.battery /\ a.id < b.id
                => a.stage = "low" /\ b.stage = "critical"

PushesFor(n) ==
    {r \in DOMAIN reports : \E k \in DOMAIN reports[r].events, a \in alerts :
        a.battery = n /\ a.id = reports[r].events[k].id}

(* The comment at the head of batteryAlerts.js: at most two BATTERY_LOW    *)
(* pushes per battery.                                                     *)
AtMostTwoPerBattery ==
    ~DiskFails => \A n \in 1 .. battery : Cardinality(PushesFor(n)) <= 2

(* The same where nobody asks for a timed quiet: rest drops what it does   *)
(* not record, so only a timed quiet can let an unrecorded alert through.  *)
AtMostTwoUnlessTimedQuiet == quiets = 0 => AtMostTwoPerBattery

(* The comment on shouldAlert and the changelog: an alert that quiet mode  *)
(* suppresses is not counted as sent.                                      *)
SuppressedAlertsAreNotSpent ==
    [][IsQuiet' => \A a \in alerts : a.spent => a.id \notin Silenced' \ Silenced]_alertVars

=============================================================================
