------------------------------ MODULE HouseMode ------------------------------
(***************************************************************************)
(* Who decides whether the house is armed, and whether the bot is quiet    *)
(* with it: the commands of the LINE group (interactionRouter.js), the     *)
(* remote's buttons (the message handler of app.js) and the recovery of    *)
(* app.js at boot, over quietMode.js and houseMode.js.                     *)
(*                                                                         *)
(* Tuya owns the truth: its "Alarm" automation is enabled by arming and    *)
(* disabled by disarming.  LINE commands and the boot's question to it are *)
(* awaited, so Tuya acts, and answers, at any later moment and in any      *)
(* order, or the call fails, before or after Tuya has acted.               *)
(***************************************************************************)
EXTENDS QuietMode, Sequences

CONSTANTS
    AutomationConfigured,  \* whether TUYA_ALARM_AUTOMATION_ID is set
    MaxCommands,           \* bound: arm and disarm commands, LINE's and the remote's
    MaxBoots               \* bound: times the process dies and boots

ASSUME HouseAssumption ==
    /\ AutomationConfigured \in BOOLEAN
    /\ MaxCommands \in Nat /\ MaxBoots \in Nat

VARIABLES
    automation,  \* Tuya's: "arm" while the Alarm automation is enabled
    houseMode,   \* lastMode, or "unknown"
    calls,       \* the LINE commands waiting for triggerScene
    remote,      \* Pulsar: the remote's buttons not yet handled, in order
    recovery,    \* getSceneRule at boot: "none", "asked" or Tuya's answer
    noticed,     \* history: whether this boot announced the restart
    disturbed,   \* history: see Disturb
    commands,    \* number of arm and disarm commands so far; names calls
    boots        \* number of boots so far

houseVars == <<automation, houseMode, calls, remote, recovery, noticed,
               disturbed, commands, boots>>
vars == <<quietVars, houseVars>>

Modes == {"arm", "disarm"}
Call == [id : Nat, mode : Modes, done : BOOLEAN]

(* Nothing is under way that could still change the mode.                  *)
Settled == calls = {} /\ remote = <<>> /\ recovery = "none"

HouseInit ==
    /\ QuietInit
    /\ automation \in Modes
    /\ houseMode = "unknown"
    /\ calls = {}
    /\ remote = <<>>
    /\ recovery = IF AutomationConfigured THEN "asked" ELSE "none"
    /\ noticed = FALSE
    /\ disturbed = FALSE
    /\ commands = 0
    /\ boots = 0

(* Since the boot, a command was given before what came before it had      *)
(* settled, or Tuya acted on one whose call then failed.                   *)
Disturb(this) == disturbed' = (disturbed \/ this)

NewCommand ==
    /\ commands < MaxCommands
    /\ commands' = commands + 1
    /\ Disturb(~Settled)

(* _executeArmDisarm up to the call of triggerScene.                       *)
ArmDisarmByLine(mode) ==
    /\ NewCommand
    /\ calls' = calls \cup {[id |-> commands', mode |-> mode, done |-> FALSE]}
    /\ UNCHANGED <<quietVars, automation, houseMode, remote, recovery, noticed, boots>>

TuyaRunsScene(c) ==
    /\ ~c.done
    /\ automation' = c.mode
    /\ calls' = (calls \ {c}) \cup {[c EXCEPT !.done = TRUE]}
    /\ UNCHANGED <<quietVars, houseMode, remote, recovery, noticed, disturbed,
                   commands, boots>>

EnterModeArmKeepsQuiet(mode) ==
    /\ houseMode' = mode
    /\ IF mode = "disarm" THEN SetIndefiniteQuiet ELSE UNCHANGED quietVars

(* houseMode.setMode and the quiet that goes with it.                      *)
EnterMode(mode) ==
    /\ houseMode' = mode
    /\ IF mode = "disarm" THEN SetIndefiniteQuiet ELSE ClearQuiet

(* _executeArmDisarm from the answer of triggerScene on.                   *)
SceneAnswers(c) ==
    /\ c.done
    /\ calls' = calls \ {c}
    /\ EnterMode(c.mode)
    /\ UNCHANGED <<automation, remote, recovery, noticed, disturbed, commands, boots>>

SceneFailsButCounts(c) ==
    /\ calls' = calls \ {c}
    /\ Disturb(c.done)
    /\ EnterMode(c.mode)
    /\ UNCHANGED <<automation, remote, recovery, noticed, commands, boots>>

(* Its catch: the group is told that it failed, whatever Tuya did.         *)
SceneFails(c) ==
    /\ calls' = calls \ {c}
    /\ Disturb(c.done)
    /\ UNCHANGED <<quietVars, automation, houseMode, remote, recovery, noticed,
                   commands, boots>>

PressRemote(mode) ==
    /\ NewCommand
    /\ automation' = mode
    /\ remote' = Append(remote, mode)
    /\ UNCHANGED <<quietVars, houseMode, calls, recovery, noticed, boots>>

(* The message handler, on REMOTE_ARMED and REMOTE_DISARMED.               *)
RemoteEvent ==
    /\ remote # <<>>
    /\ remote' = Tail(remote)
    /\ EnterMode(Head(remote))
    /\ UNCHANGED <<automation, calls, recovery, noticed, disturbed, commands, boots>>

WakeQuiet == IsQuiet /\ ClearQuiet /\ UNCHANGED houseVars

ActivateQuiet ==
    /\ quiets < MaxQuiets
    /\ \E minutes \in Minutes : SetQuiet(minutes)
    /\ UNCHANGED houseVars

(* "Back to normal alerts", for a boot that found the marker.              *)
AnnounceRestart(stillResting, found) ==
    noticed' = (found # "none" /\ ~stillResting)

(* The process dies and boots.  A call it was waiting for may still reach  *)
(* Tuya; what the remote sent is kept by Pulsar.                           *)
Reboot ==
    /\ boots < MaxBoots
    /\ boots' = boots + 1
    /\ Restart
    /\ houseMode' = "unknown"
    /\ automation' \in {automation} \cup {c.mode : c \in {d \in calls : ~d.done}}
    /\ calls' = {}
    /\ disturbed' = (remote # <<>>)
    /\ IF AutomationConfigured
       THEN recovery' = "asked" /\ noticed' = FALSE
       ELSE recovery' = "none" /\ AnnounceRestart(FALSE, recovered')
    /\ UNCHANGED <<remote, commands>>

(* The rule's status, as the mode it stands for.                           *)
TuyaReadsRule ==
    /\ recovery = "asked"
    /\ recovery' = automation
    /\ UNCHANGED <<quietVars, automation, houseMode, calls, remote, noticed,
                   disturbed, commands, boots>>

RuleAnswersAnnouncing ==
    /\ recovery \in Modes
    /\ recovery' = "none"
    /\ houseMode' = recovery
    /\ IF recovery = "disarm" THEN SetIndefiniteQuiet ELSE UNCHANGED quietVars
    /\ AnnounceRestart(FALSE, recovered)
    /\ UNCHANGED <<automation, calls, remote, disturbed, commands, boots>>

(* The answer to getSceneRule: a disarmed house goes back to rest.         *)
RuleAnswers ==
    /\ recovery \in Modes
    /\ recovery' = "none"
    /\ houseMode' = recovery
    /\ IF recovery = "disarm" THEN SetIndefiniteQuiet ELSE UNCHANGED quietVars
    /\ AnnounceRestart(recovery = "disarm", recovered)
    /\ UNCHANGED <<automation, calls, remote, disturbed, commands, boots>>

RuleFailsSilently ==
    /\ recovery # "none"
    /\ recovery' = "none"
    /\ UNCHANGED <<quietVars, automation, houseMode, calls, remote, noticed,
                   disturbed, commands, boots>>

(* Its catch: the mode stays unknown and alerts go out.                    *)
RuleFails ==
    /\ recovery # "none"
    /\ recovery' = "none"
    /\ AnnounceRestart(FALSE, recovered)
    /\ UNCHANGED <<quietVars, automation, houseMode, calls, remote, disturbed,
                   commands, boots>>

HouseNext ==
    \/ \E mode \in Modes : ArmDisarmByLine(mode) \/ PressRemote(mode)
    \/ \E c \in calls : TuyaRunsScene(c) \/ SceneAnswers(c) \/ SceneFails(c)
    \/ RemoteEvent
    \/ WakeQuiet
    \/ ActivateQuiet
    \/ Reboot
    \/ TuyaReadsRule
    \/ RuleAnswers
    \/ RuleFails
    \/ WakeTimerFires /\ UNCHANGED houseVars
    \/ MayTick(pendingWakes) /\ Tick /\ UNCHANGED houseVars

(* Every request to Tuya ends: fetch gives up by itself.                   *)
HouseFairness == WF_vars(TuyaReadsRule) /\ WF_vars(RuleAnswers \/ RuleFails)

HouseSpec == HouseInit /\ [][HouseNext]_vars /\ HouseFairness

-----------------------------------------------------------------------------
(* Every variable keeps its type.                                          *)
HouseTypeOK ==
    /\ QuietTypeOK
    /\ automation \in Modes
    /\ houseMode \in Modes \cup {"unknown"}
    /\ calls \in SUBSET Call
    /\ remote \in Seq(Modes)
    /\ recovery \in Modes \cup {"none", "asked"}
    /\ noticed \in BOOLEAN /\ disturbed \in BOOLEAN
    /\ commands \in Nat /\ boots \in Nat

(* As long as commands come one at a time and no answer of Tuya is lost,   *)
(* the bot's idea of the mode is Tuya's, across restarts, a failing boot   *)
(* recovery and failing calls.                                             *)
ModeAgreesWithTuya ==
    Settled /\ ~disturbed => houseMode \in {automation, "unknown"}

(* Likewise, a house that the bot believes armed is never one it rests in: *)
(* the remote, LINE and boot recovery switch the two together.             *)
ArmedMeansAlerting ==
    houseMode = "arm" /\ ~disturbed => ~quietIndefinite

(* "Back to normal alerts" is not said in a house that rests, unless       *)
(* somebody put it to rest while the boot was waiting for Tuya.            *)
RestartNoticeIsTrue ==
    [][~noticed /\ noticed' => ~quietIndefinite' \/ disturbed']_vars

(* A process that died in a quiet period says so after the boot, or goes   *)
(* back to rest, or dies again first.                                      *)
RestartDoesNotGoUnnoticed ==
    \A b \in 1 .. MaxBoots :
        (boots = b /\ recovered # "none" /\ recovery # "none")
            ~> (noticed \/ quietIndefinite \/ boots # b)

(* What the changelog promises of arming: it resumes full alerting,        *)
(* unconditionally.  Boot recovery leaves no armed house at rest, with     *)
(* nothing on its way that would end the rest.                             *)
RecoveryNeverSilencesAnArmedHouse ==
    [][RuleAnswers /\ Settled' /\ automation = "arm" => ~quietIndefinite']_vars

=============================================================================
