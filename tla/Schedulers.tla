------------------------------ MODULE Schedulers ------------------------------
(***************************************************************************)
(* The two loops that act by themselves: src/services/dailyReport.js, with *)
(* reportMode.js that turns it off, and src/services/deviceHealth.js, the  *)
(* watch over the gateways.  Neither goes through the correlator; the      *)
(* report gives way to a rest, the watch to nothing.                       *)
(*                                                                         *)
(* The clock of quiet mode counts half seconds here, since msUntilNext     *)
(* drops the fraction of a second and a timer set with its result must not *)
(* come before the time of day it is meant for.                            *)
(***************************************************************************)
EXTENDS QuietMode

CONSTANTS
    Day,         \* length of a day, in seconds
    ReportAt,    \* DAILY_REPORT_TIME, as a second of the day
    Devices,     \* watchedDevices(), visited in whatever order
    StateFails,  \* whether reportMode's file may fail to be written
    MaxFaults,   \* bound: number of calls of Tuya and LINE that fail
    MaxToggles,  \* bound: number of /report on and off
    MaxFlips,    \* bound: number of times a gateway comes or goes
    MaxBoots     \* bound: number of restarts

ASSUME SchedulersAssumption ==
    /\ Day \in Nat \ {0} /\ ReportAt \in 0 .. Day - 1
    /\ Devices # {} /\ StateFails \in BOOLEAN
    /\ {MaxFaults, MaxToggles, MaxFlips, MaxBoots} \subseteq Nat

VARIABLES
    reportDue,   \* when the report's timer is due, Null while a run is under way
    report,      \* what that run is doing
    lastDue,     \* history: the second the last run was set for
    disabled,    \* reportMode's
    stateFile,   \* whether its file exists
    stateFailed, \* history: whether touching it last failed
    wantedOff,   \* history: whether the group's last word was /report off
    online,      \* Tuya: whether each gateway is there
    known,       \* deviceHealth's `state`
    poll,        \* where its tick is
    told,        \* history: what the group was last told of each gateway since boot
    missed,      \* history: the gateways whose last news did not arrive
    faults, toggles, flips, boots  \* bounded counts

reportVars == <<reportDue, report, lastDue>>
modeVars == <<disabled, stateFile, stateFailed, wantedOff, toggles>>
healthVars == <<known, poll, told, missed>>
vars == <<quietVars, reportVars, modeVars, healthVars, online, faults, flips, boots>>

Fault == faults < MaxFaults /\ faults' = faults + 1

Second(t) == t \div 2

MsUntilNextOrNow ==
    LET diff == ReportAt - (Second(now) % Day)
    IN  2 * (IF diff < 0 THEN diff + Day ELSE diff)

MsUntilNext ==
    LET diff == ReportAt - (Second(now) % Day)
    IN  2 * (IF diff <= 0 THEN diff + Day ELSE diff)

ScheduleNext == report' = "waiting" /\ reportDue' = now + MsUntilNext

(* Where a tick may be when the devices in todo are still to be checked.   *)
CheckOneOf(todo) == {[todo |-> todo \ {d}, at |-> d, phase |-> "asking"] : d \in todo}

SchedulersInit ==
    /\ QuietInit
    /\ report = "waiting" /\ reportDue = now + MsUntilNext
    /\ lastDue = -1
    /\ disabled = FALSE /\ stateFile = FALSE /\ stateFailed = FALSE /\ wantedOff = FALSE
    /\ online \in [Devices -> BOOLEAN]
    /\ known = [d \in Devices |-> "unknown"]
    /\ poll \in CheckOneOf(Devices)
    /\ told = [d \in Devices |-> "nothing"]
    /\ missed = {}
    /\ faults = 0 /\ toggles = 0 /\ flips = 0 /\ boots = 0

ReportTimerFiresOutsideTry ==
    /\ report = "waiting" /\ reportDue # Null /\ reportDue <= now
    /\ lastDue' = Second(reportDue)
    /\ reportDue' = Null
    /\ report' = IF disabled \/ quietIndefinite THEN "waiting" ELSE "building"
    /\ UNCHANGED <<quietVars, modeVars, healthVars, online, faults, flips, boots>>

(* The callback of scheduleNext's timer, up to the await of buildReport.   *)
ReportTimerFires ==
    /\ report = "waiting" /\ reportDue # Null /\ reportDue <= now
    /\ lastDue' = Second(reportDue)
    /\ IF disabled \/ quietIndefinite
       THEN ScheduleNext
       ELSE report' = "building" /\ reportDue' = Null
    /\ UNCHANGED <<quietVars, modeVars, healthVars, online, faults, flips, boots>>

PushReport ==
    /\ report = "building"
    /\ report' = "pushing"
    /\ UNCHANGED <<quietVars, reportDue, lastDue, modeVars, healthVars, online, faults,
                   flips, boots>>

(* The finally block: sent, or building or pushing it failed.              *)
ReportEnds ==
    /\ \/ report = "building" /\ Fault
       \/ report = "pushing" /\ (Fault \/ UNCHANGED faults)
    /\ ScheduleNext
    /\ UNCHANGED <<quietVars, lastDue, modeVars, healthVars, online, flips, boots>>

SetEnabledInMemory(value) ==
    /\ disabled' = ~value /\ wantedOff' = ~value
    /\ stateFile' = (stateFile /\ ~value)
    /\ stateFailed' = FALSE

(* setEnabled, on /report on and /report off.                              *)
SetEnabled(value) ==
    /\ disabled' = ~value /\ wantedOff' = ~value
    /\ \/ stateFile' = ~value /\ stateFailed' = FALSE
       \/ StateFails /\ UNCHANGED stateFile /\ stateFailed' = TRUE

ToggleReport ==
    /\ toggles < MaxToggles /\ toggles' = toggles + 1
    /\ \E value \in BOOLEAN : SetEnabled(value)
    /\ UNCHANGED <<quietVars, reportVars, healthVars, online, faults, flips, boots>>

NextDeviceUntilDone == poll.todo # {} /\ poll' \in CheckOneOf(poll.todo)

(* checkDevice returns to the tick, which goes on or sets its timer.       *)
NextDevice ==
    poll' \in IF poll.todo = {} THEN {[poll EXCEPT !.phase = "sleeping"]} ELSE CheckOneOf(poll.todo)

TuyaAnswers ==
    /\ poll.phase = "asking"
    /\ poll' = [poll EXCEPT !.phase = IF online[poll.at] THEN "online" ELSE "offline"]
    /\ UNCHANGED <<quietVars, reportVars, modeVars, known, told, missed, online, faults,
                   flips, boots>>

CheckFails ==
    /\ poll.phase \in {"asking", "online", "offline"}
    /\ Fault
    /\ NextDevice
    /\ UNCHANGED <<quietVars, reportVars, modeVars, known, told, missed, online, flips, boots>>

HandleAnswerOffByFirst ==
    /\ poll.phase \in {"online", "offline"}
    /\ known' = [known EXCEPT ![poll.at] = poll.phase]
    /\ IF known[poll.at] \in {"unknown", poll.phase}
       THEN NextDevice
       ELSE poll' = [poll EXCEPT !.phase = "pushing"]
    /\ UNCHANGED <<quietVars, reportVars, modeVars, told, missed, online, faults, flips, boots>>

(* checkDevice from getDeviceInfo's answer on: news is pushed, and being   *)
(* there at the first reading is none.                                     *)
HandleAnswer ==
    /\ poll.phase \in {"online", "offline"}
    /\ known' = [known EXCEPT ![poll.at] = poll.phase]
    /\ IF known[poll.at] = poll.phase \/ (known[poll.at] = "unknown" /\ poll.phase = "online")
       THEN NextDevice
       ELSE poll' = [poll EXCEPT !.phase = "pushing"]
    /\ UNCHANGED <<quietVars, reportVars, modeVars, told, missed, online, faults, flips, boots>>

(* The news is delivered, with or without LINE's answer, or not.           *)
AlertEnds ==
    /\ poll.phase = "pushing"
    /\ NextDevice
    /\ \/ /\ told' = [told EXCEPT ![poll.at] = known[poll.at]]
          /\ missed' = missed \ {poll.at}
          /\ UNCHANGED faults
       \/ /\ Fault
          /\ missed' = missed \cup {poll.at}
          /\ UNCHANGED told
    /\ UNCHANGED <<quietVars, reportVars, modeVars, known, online, flips, boots>>

PollTimerFires ==
    /\ poll.phase = "sleeping"
    /\ poll' \in CheckOneOf(Devices)
    /\ UNCHANGED <<quietVars, reportVars, modeVars, known, told, missed, online, faults,
                   flips, boots>>

GatewayComesOrGoes ==
    /\ flips < MaxFlips /\ flips' = flips + 1
    /\ \E d \in Devices : online' = [online EXCEPT ![d] = ~@]
    /\ UNCHANGED <<quietVars, reportVars, modeVars, healthVars, faults, boots>>

RestBegins ==
    /\ rests < MaxRests /\ SetIndefiniteQuiet
    /\ UNCHANGED <<reportVars, modeVars, healthVars, online, faults, flips, boots>>

RestEnds ==
    /\ quietIndefinite /\ ClearQuiet
    /\ UNCHANGED <<reportVars, modeVars, healthVars, online, faults, flips, boots>>

(* Nothing of either loop survives but reportMode's file.                  *)
Reboot ==
    /\ boots < MaxBoots /\ boots' = boots + 1
    /\ Restart
    /\ disabled' = stateFile
    /\ ScheduleNext /\ UNCHANGED lastDue
    /\ known' = [d \in Devices |-> "unknown"]
    /\ poll' \in CheckOneOf(Devices)
    /\ told' = [d \in Devices |-> "nothing"]
    /\ missed' = {}
    /\ UNCHANGED <<stateFile, stateFailed, wantedOff, toggles, online, faults, flips>>

TimePasses ==
    /\ MayTick({}) /\ Tick
    /\ UNCHANGED <<reportVars, modeVars, healthVars, online, faults, flips, boots>>

ReportRuns == ReportTimerFires \/ PushReport \/ ReportEnds

WatchGoesOn == TuyaAnswers \/ CheckFails \/ HandleAnswer \/ AlertEnds \/ PollTimerFires

SchedulersNext ==
    \/ ReportRuns \/ WatchGoesOn
    \/ ToggleReport \/ RestBegins \/ RestEnds
    \/ GatewayComesOrGoes \/ TimePasses \/ Reboot

(* Timers fire and calls end, fetch timing out by itself.                  *)
SchedulersFairness == WF_vars(ReportRuns) /\ WF_vars(WatchGoesOn) /\ WF_vars(TimePasses)

SchedulersSpec == SchedulersInit /\ [][SchedulersNext]_vars /\ SchedulersFairness

-----------------------------------------------------------------------------
(* Every run of the report is set for the report's second of a day, and no *)
(* two of them for the same day, restarts or not and whatever fraction of  *)
(* a second the clock is at when a timer is set.                           *)
ReportedOnceADay ==
    [][ReportTimerFires => Second(reportDue) % Day = ReportAt /\ Second(reportDue) > lastDue]_vars

(* Turned off, no report is begun until it is turned on, restarts or not,  *)
(* unless the file could not be written.                                   *)
OffMeansOff ==
    [][report = "waiting" /\ report' = "building" => ~wantedOff \/ stateFailed]_vars

(* The group knows what the watch knows: as of this boot it has been told  *)
(* of every gateway that is down, and of no other, unless a push failed.   *)
GroupKnowsWhatIsKnown ==
    \A d \in Devices \ missed :
        \/ poll.phase = "pushing" /\ d = poll.at
        \/ known[d] = "offline" /\ told[d] = "offline"
        \/ known[d] # "offline" /\ told[d] # "offline"

(* Every gateway that goes down is announced, unless it comes back before  *)
(* or the push fails, however often Tuya fails to answer at first.         *)
OutageIsAnnounced ==
    \A d \in Devices : ~online[d] ~> online[d] \/ told[d] = "offline" \/ d \in missed

(* Each run sets the timer of the next, whether it sends the report, fails *)
(* to, or is skipped: there is always another report to come.              *)
ReportGoesOn == []<>(report = "waiting" /\ reportDue # Null /\ reportDue > now)

=============================================================================
