--------------------------- MODULE HouseModeProofs ---------------------------
(***************************************************************************)
(* Proofs about HouseMode.  Quiet mode's part is QuietModeProofs', since   *)
(* every step is one of QuietMode or leaves it alone.  That the mode       *)
(* agrees with Tuya's needs to know what is under way when nothing has     *)
(* been disturbed: a single call, or a single press of the remote, or the  *)
(* boot's question, and what each will do when it is handled.              *)
(***************************************************************************)
EXTENDS HouseMode, QuietModeProofs

(* The boot's question is all there is, and has changed nothing yet.       *)
Recovering ==
    /\ calls = {} /\ remote = <<>>
    /\ recovery \in {"asked", automation}
    /\ houseMode = "unknown"
    /\ quietIndefinite = FALSE

(* One press of the remote is on its way, and Tuya has acted on it.        *)
PressOnItsWay ==
    calls = {} /\ recovery = "none" /\ remote = <<automation>>

(* One LINE command waits for Tuya, which has acted on it or not.          *)
CallUnderWay ==
    /\ remote = <<>> /\ recovery = "none"
    /\ \E c \in calls :
        /\ calls = {c}
        /\ c.mode \in Modes
        /\ IF c.done THEN automation = c.mode ELSE houseMode \in {automation, "unknown"}

InStep ==
    /\ \/ Recovering
       \/ PressOnItsWay
       \/ CallUnderWay
       \/ Settled /\ houseMode \in {automation, "unknown"}
    /\ houseMode = "arm" => quietIndefinite = FALSE

HouseInv == QuietInv /\ HouseTypeOK /\ (~disturbed => InStep)

USE HouseAssumption

LEMMA QuietPart == [HouseNext]_vars => QuietStep \/ Restart
<1> SUFFICES ASSUME [HouseNext]_vars PROVE QuietStep \/ Restart
  OBVIOUS
<1>1. ASSUME NEW mode \in Modes, ArmDisarmByLine(mode) \/ PressRemote(mode)
      PROVE  QuietStep
  BY <1>1 DEF ArmDisarmByLine, PressRemote, QuietStep
<1>2. ASSUME NEW c \in calls, TuyaRunsScene(c) \/ SceneAnswers(c) \/ SceneFails(c)
      PROVE  QuietStep
  BY <1>2 DEF TuyaRunsScene, SceneAnswers, SceneFails, EnterMode, QuietStep
<1>3. CASE RemoteEvent \/ WakeQuiet
  BY <1>3 DEF RemoteEvent, WakeQuiet, EnterMode, QuietStep
<1>4. CASE ActivateQuiet
  BY <1>4 DEF ActivateQuiet, QuietStep
<1>5. CASE Reboot
  BY <1>5 DEF Reboot
<1>6. CASE TuyaReadsRule \/ RuleAnswers \/ RuleFails
  BY <1>6 DEF TuyaReadsRule, RuleAnswers, RuleFails, QuietStep
<1>7. CASE WakeTimerFires \/ Tick
  BY <1>7 DEF QuietStep
<1>8. CASE UNCHANGED vars
  BY <1>8 DEF vars, QuietStep
<1> QED BY <1>1, <1>2, <1>3, <1>4, <1>5, <1>6, <1>7, <1>8 DEF HouseNext

LEMMA QuietPartInv == QuietInv /\ [HouseNext]_vars => QuietInv'
BY QuietPart, QuietStepInv, RestartInv

LEMMA HouseInitInv == HouseInit => HouseInv
<1> SUFFICES ASSUME HouseInit PROVE HouseInv
  OBVIOUS
<1>1. QuietInv
  BY QuietInitInv DEF HouseInit
<1>2. HouseTypeOK
  <2>1. recovery \in Modes \cup {"none", "asked"}
    BY DEF HouseInit
  <2>2. <<>> \in Seq(Modes) /\ {} \in SUBSET Call
    OBVIOUS
  <2> QED BY <1>1, <2>1, <2>2 DEF HouseInit, HouseTypeOK, QuietInv
<1>3. InStep
  <2>1. houseMode = "unknown" /\ quietIndefinite = FALSE /\ calls = {} /\ remote = <<>>
    BY DEF HouseInit, QuietInit
  <2>2. recovery \in {"asked", "none"}
    BY DEF HouseInit
  <2> QED BY <2>1, <2>2 DEF InStep, Recovering, Settled
<1> QED BY <1>1, <1>2, <1>3 DEF HouseInv

(* What the two switches do, together, to what InStep speaks of.           *)
LEMMA EnterModeSwitchesBoth ==
    ASSUME NEW mode \in Modes, EnterMode(mode)
    PROVE  /\ houseMode' = mode
           /\ mode = "arm" => quietIndefinite' = FALSE
BY DEF EnterMode, Modes, ClearQuiet

(* A command that finds everything settled leaves it in step.              *)
LEMMA NewCommandInStep ==
    ASSUME HouseInv, NEW mode \in Modes, ~disturbed',
           ArmDisarmByLine(mode) \/ PressRemote(mode)
    PROVE  InStep'
<1>1. Settled /\ ~disturbed
  BY DEF ArmDisarmByLine, PressRemote, NewCommand, Disturb, HouseInv, HouseTypeOK
<1>2. InStep /\ houseMode \in {automation, "unknown"}
  <2>1. automation # "none" /\ automation # "asked"
    BY DEF HouseInv, HouseTypeOK, Modes
  <2> QED BY <1>1, <2>1 DEF HouseInv, InStep, Settled, Recovering, PressOnItsWay, CallUnderWay
<1>3. UNCHANGED <<quietIndefinite, houseMode, recovery>>
  BY DEF ArmDisarmByLine, PressRemote, quietVars
<1>4. CASE ArmDisarmByLine(mode)
  <2> DEFINE c == [id |-> commands', mode |-> mode, done |-> FALSE]
  <2>1. calls' = {c} /\ remote' = <<>> /\ recovery' = "none" /\ automation' = automation
    BY <1>1, <1>4 DEF Settled, ArmDisarmByLine
  <2>2. c.mode \in Modes /\ ~c.done
    OBVIOUS
  <2>3. CallUnderWay'
    BY <1>2, <1>3, <2>1, <2>2 DEF CallUnderWay
  <2> QED BY <1>2, <1>3, <2>3 DEF InStep
<1>5. CASE PressRemote(mode)
  <2>1. calls' = {} /\ remote' = <<automation'>> /\ recovery' = "none"
    BY <1>1, <1>5 DEF Settled, PressRemote
  <2> QED BY <1>2, <1>3, <2>1 DEF InStep, PressOnItsWay
<1> QED BY <1>4, <1>5

LEMMA NewCommandType ==
    ASSUME HouseTypeOK, NewCommand
    PROVE  disturbed' \in BOOLEAN /\ commands' \in Nat
<1>1. (disturbed \/ ~Settled) \in BOOLEAN
  OBVIOUS
<1>2. disturbed' \in BOOLEAN
  BY <1>1 DEF NewCommand, Disturb
<1>3. commands' \in Nat
  BY DEF HouseTypeOK, NewCommand
<1> QED BY <1>2, <1>3

LEMMA HouseTypeInv ==
    ASSUME HouseInv, [HouseNext]_vars
    PROVE  HouseTypeOK'
<1> USE DEF HouseTypeOK, HouseInv
<1>q. QuietTypeOK'
  BY QuietPartInv DEF QuietInv
<1>1. ASSUME NEW mode \in Modes, ArmDisarmByLine(mode)
      PROVE  HouseTypeOK'
  <2>1. [id |-> commands', mode |-> mode, done |-> FALSE] \in Call
    BY <1>1 DEF ArmDisarmByLine, NewCommand, Call
  <2>2. NewCommand
    BY <1>1 DEF ArmDisarmByLine
  <2> QED BY <1>q, <1>1, <2>1, <2>2, NewCommandType DEF ArmDisarmByLine
<1>2. ASSUME NEW mode \in Modes, PressRemote(mode)
      PROVE  HouseTypeOK'
  <2>1. NewCommand
    BY <1>2 DEF PressRemote
  <2> QED BY <1>q, <1>2, <2>1, NewCommandType DEF PressRemote
<1>3. ASSUME NEW c \in calls, TuyaRunsScene(c)
      PROVE  HouseTypeOK'
  <2>1. [c EXCEPT !.done = TRUE] \in Call /\ c.mode \in Modes
    BY DEF Call
  <2> QED BY <1>q, <1>3, <2>1 DEF TuyaRunsScene
<1>4. ASSUME NEW c \in calls, SceneAnswers(c) \/ SceneFails(c)
      PROVE  HouseTypeOK'
  <2>1. c.mode \in Modes /\ c.done \in BOOLEAN
    BY DEF Call
  <2> QED BY <1>q, <1>4, <2>1 DEF SceneAnswers, SceneFails, EnterMode, Disturb
<1>5. CASE RemoteEvent
  BY <1>q, <1>5 DEF RemoteEvent, EnterMode
<1>6. CASE WakeQuiet \/ ActivateQuiet
  BY <1>q, <1>6 DEF WakeQuiet, ActivateQuiet, houseVars
<1>7. CASE Reboot
  <2>1. \A c \in calls : c.mode \in Modes
    BY DEF Call
  <2>2. automation' \in Modes /\ calls' = {}
    BY <1>7, <2>1 DEF Reboot
  <2>3. recovery' \in {"none", "asked"} /\ noticed' \in BOOLEAN /\ disturbed' \in BOOLEAN
    BY <1>7 DEF Reboot, AnnounceRestart
  <2>4. houseMode' = "unknown" /\ remote' = remote /\ commands' = commands /\ boots' = boots + 1
    BY <1>7 DEF Reboot
  <2> QED BY <1>q, <2>2, <2>3, <2>4
<1>8. CASE TuyaReadsRule
  BY <1>q, <1>8 DEF TuyaReadsRule
<1>9. CASE RuleAnswers \/ RuleFails
  BY <1>q, <1>9 DEF RuleAnswers, RuleFails, AnnounceRestart
<1>10. CASE UNCHANGED houseVars
  BY <1>q, <1>10 DEF houseVars
<1> QED BY <1>1, <1>2, <1>3, <1>4, <1>5, <1>6, <1>7, <1>8, <1>9, <1>10 DEF HouseNext, vars

(* What waits is handled, or fails, and leaves the bot in step with Tuya.  *)
LEMMA CallInStep ==
    ASSUME HouseInv, ~disturbed', NEW c \in calls,
           TuyaRunsScene(c) \/ SceneAnswers(c) \/ SceneFails(c)
    PROVE  InStep'
<1>1. ~disturbed /\ (SceneFails(c) => ~c.done)
  BY DEF TuyaRunsScene, SceneAnswers, SceneFails, Disturb, HouseInv, HouseTypeOK
<1>2. /\ calls = {c} /\ remote = <<>> /\ recovery = "none"
      /\ c.mode \in Modes
      /\ IF c.done THEN automation = c.mode ELSE houseMode \in {automation, "unknown"}
  BY <1>1 DEF HouseInv, InStep, Recovering, PressOnItsWay, CallUnderWay, Settled
<1>3. houseMode = "arm" => quietIndefinite = FALSE
  BY <1>1 DEF HouseInv, InStep
<1>4. CASE TuyaRunsScene(c)
  <2> DEFINE d == [c EXCEPT !.done = TRUE]
  <2>1. d.mode = c.mode /\ d.done
    BY DEF HouseInv, HouseTypeOK, Call
  <2>2. calls' = {d} /\ remote' = <<>> /\ recovery' = "none" /\ automation' = c.mode
    BY <1>2, <1>4 DEF TuyaRunsScene
  <2>3. CallUnderWay'
    BY <1>2, <2>1, <2>2 DEF CallUnderWay
  <2>4. (houseMode = "arm" => quietIndefinite = FALSE)'
    BY <1>3, <1>4 DEF TuyaRunsScene, quietVars
  <2> QED BY <2>3, <2>4 DEF InStep
<1>5. CASE SceneAnswers(c)
  <2>1. Settled' /\ automation' = c.mode
    BY <1>2, <1>5 DEF SceneAnswers, Settled
  <2>2. houseMode' = c.mode /\ (c.mode = "arm" => quietIndefinite' = FALSE)
    BY <1>2, <1>5, EnterModeSwitchesBoth DEF SceneAnswers
  <2> QED BY <2>1, <2>2 DEF InStep
<1>6. CASE SceneFails(c)
  BY <1>1, <1>2, <1>3, <1>6 DEF SceneFails, Settled, InStep, quietVars
<1> QED BY <1>4, <1>5, <1>6

LEMMA RemoteInStep ==
    ASSUME HouseInv, ~disturbed', RemoteEvent
    PROVE  InStep'
<1>1. ~disturbed /\ remote # <<>>
  BY DEF RemoteEvent
<1>2. calls = {} /\ recovery = "none" /\ remote = <<automation>> /\ automation \in Modes
  BY <1>1 DEF HouseInv, HouseTypeOK, InStep, Recovering, PressOnItsWay, CallUnderWay, Settled
<1>3. Head(remote) = automation /\ Tail(remote) = <<>>
  BY <1>2
<1>4. Settled' /\ automation' = automation
  BY <1>2, <1>3 DEF RemoteEvent, Settled
<1>5. houseMode' = automation /\ (automation = "arm" => quietIndefinite' = FALSE)
  BY <1>2, <1>3, EnterModeSwitchesBoth DEF RemoteEvent
<1> QED BY <1>4, <1>5 DEF InStep

(* Boot recovery, unless somebody gives a command meanwhile.               *)
LEMMA RecoveryInStep ==
    ASSUME HouseInv, ~disturbed', TuyaReadsRule \/ RuleAnswers \/ RuleFails
    PROVE  InStep'
<1>1. ~disturbed /\ recovery # "none"
  <2>1. disturbed' = disturbed
    BY DEF TuyaReadsRule, RuleAnswers, RuleFails
  <2>2. recovery = "asked" \/ recovery \in Modes \/ recovery # "none"
    BY DEF TuyaReadsRule, RuleAnswers, RuleFails
  <2> QED BY <2>1, <2>2 DEF Modes
<1>2. /\ calls = {} /\ remote = <<>> /\ recovery \in {"asked", automation}
      /\ houseMode = "unknown" /\ quietIndefinite = FALSE
  BY <1>1 DEF HouseInv, InStep, Recovering, PressOnItsWay, CallUnderWay, Settled
<1>3. CASE TuyaReadsRule
  BY <1>2, <1>3 DEF TuyaReadsRule, InStep, Recovering, quietVars
<1>4. CASE RuleAnswers
  <2>1. recovery = automation
    BY <1>2, <1>4 DEF RuleAnswers, Modes
  <2>2. Settled' /\ houseMode' = automation'
    BY <1>2, <1>4, <2>1 DEF RuleAnswers, Settled
  <2>3. houseMode' = "arm" => quietIndefinite' = FALSE
    BY <1>2, <1>4 DEF RuleAnswers, quietVars
  <2> QED BY <2>2, <2>3 DEF InStep
<1>5. CASE RuleFails
  BY <1>2, <1>5 DEF RuleFails, Settled, InStep, quietVars
<1> QED BY <1>3, <1>4, <1>5

(* Timed quiet and waking up never start a rest.                           *)
LEMMA QuietCommandInStep ==
    ASSUME HouseInv, ~disturbed', UNCHANGED houseVars,
           quietIndefinite' \in {quietIndefinite, FALSE}
    PROVE  InStep'
<1>1. ~disturbed /\ InStep
  BY DEF houseVars, HouseInv
<1>2. UNCHANGED <<automation, houseMode, calls, remote, recovery>>
  BY DEF houseVars
<1>3. (houseMode = "arm" => quietIndefinite = FALSE)'
  BY <1>1, <1>2 DEF InStep
<1>4. CASE Recovering
  BY <1>2, <1>3, <1>4 DEF Recovering, InStep
<1>5. CASE PressOnItsWay
  BY <1>2, <1>3, <1>5 DEF PressOnItsWay, InStep
<1>6. CASE CallUnderWay
  BY <1>2, <1>3, <1>6 DEF CallUnderWay, InStep
<1>7. CASE Settled /\ houseMode \in {automation, "unknown"}
  BY <1>2, <1>3, <1>7 DEF Settled, InStep
<1> QED BY <1>1, <1>4, <1>5, <1>6, <1>7 DEF InStep

LEMMA RebootInStep ==
    ASSUME HouseInv, ~disturbed', Reboot
    PROVE  InStep'
<1>1. remote' = <<>> /\ calls' = {} /\ houseMode' = "unknown" /\ quietIndefinite' = FALSE
  BY DEF Reboot, Restart
<1>2. recovery' \in {"asked", "none"}
  BY DEF Reboot
<1> QED BY <1>1, <1>2 DEF InStep, Recovering, Settled

LEMMA HouseNextInv == HouseInv /\ [HouseNext]_vars => HouseInv'
<1> SUFFICES ASSUME HouseInv, [HouseNext]_vars
             PROVE  HouseInv'
  OBVIOUS
<1>1. QuietInv' /\ HouseTypeOK'
  BY QuietPartInv, HouseTypeInv DEF HouseInv
<1>2. ASSUME ~disturbed' PROVE InStep'
  <2>1. ASSUME NEW mode \in Modes, ArmDisarmByLine(mode) \/ PressRemote(mode)
        PROVE  InStep'
    BY <1>2, <2>1, NewCommandInStep
  <2>2. ASSUME NEW c \in calls, TuyaRunsScene(c) \/ SceneAnswers(c) \/ SceneFails(c)
        PROVE  InStep'
    BY <1>2, <2>2, CallInStep
  <2>3. CASE RemoteEvent
    BY <1>2, <2>3, RemoteInStep
  <2>4. CASE TuyaReadsRule \/ RuleAnswers \/ RuleFails
    BY <1>2, <2>4, RecoveryInStep
  <2>5. CASE WakeQuiet
    BY <1>2, <2>5, QuietCommandInStep DEF WakeQuiet, ClearQuiet
  <2>6. CASE ActivateQuiet
    BY <1>2, <2>6, QuietCommandInStep DEF ActivateQuiet, SetQuiet
  <2>7. CASE (WakeTimerFires \/ Tick) /\ UNCHANGED houseVars
    BY <1>2, <2>7, QuietCommandInStep DEF WakeTimerFires, Tick
  <2>8. CASE Reboot
    BY <1>2, <2>8, RebootInStep
  <2>9. CASE UNCHANGED vars
    BY <1>2, <2>9, QuietCommandInStep DEF vars, quietVars
  <2> QED BY <2>1, <2>2, <2>3, <2>4, <2>5, <2>6, <2>7, <2>8, <2>9 DEF HouseNext
<1> QED BY <1>1, <1>2 DEF HouseInv

(* The bot's mode is Tuya's, and a house it believes armed is not at rest, *)
(* as long as commands come one at a time and no answer is lost: LINE's    *)
(* commands, the remote and boot recovery together, for any number of      *)
(* commands and restarts.                                                  *)
THEOREM HouseStaysInStep ==
    HouseSpec => [](HouseTypeOK /\ ModeAgreesWithTuya /\ ArmedMeansAlerting)
<1>1. HouseInv => HouseTypeOK /\ ModeAgreesWithTuya /\ ArmedMeansAlerting
  <2> SUFFICES ASSUME HouseInv
               PROVE  HouseTypeOK /\ ModeAgreesWithTuya /\ ArmedMeansAlerting
    OBVIOUS
  <2>1. ModeAgreesWithTuya
    <3>1. automation # "none"
      BY DEF HouseInv, HouseTypeOK, Modes
    <3> QED BY <3>1 DEF HouseInv, InStep, Recovering, PressOnItsWay, CallUnderWay,
                        Settled, ModeAgreesWithTuya
  <2>2. ArmedMeansAlerting
    BY DEF HouseInv, InStep, ArmedMeansAlerting
  <2> QED BY <2>1, <2>2 DEF HouseInv
<1> QED BY <1>1, HouseInitInv, HouseNextInv, PTL DEF HouseSpec

(* "Back to normal alerts" is said in a resting house only when somebody   *)
(* put it to rest while the boot waited for Tuya: app.js 151-207.          *)
THEOREM NoticeIsTrue == HouseSpec => RestartNoticeIsTrue
<1>1. HouseInv /\ [HouseNext]_vars
        => [~noticed /\ noticed' => ~quietIndefinite' \/ disturbed']_vars
  <2> SUFFICES ASSUME HouseInv, HouseNext, ~noticed, noticed', ~disturbed'
               PROVE  ~quietIndefinite'
    OBVIOUS
  <2>1. Reboot \/ RuleAnswers \/ RuleFails
    BY DEF HouseNext, ArmDisarmByLine, PressRemote, TuyaRunsScene, SceneAnswers, SceneFails,
           RemoteEvent, WakeQuiet, ActivateQuiet, TuyaReadsRule, houseVars
  <2>2. CASE Reboot
    BY <2>2 DEF Reboot, Restart
  <2>3. CASE RuleAnswers
    <3>1. recovery # "disarm" /\ UNCHANGED quietVars
      BY <2>3 DEF RuleAnswers, AnnounceRestart
    <3>2. ~disturbed /\ recovery # "none"
      BY <2>3 DEF RuleAnswers, Modes
    <3> QED BY <3>1, <3>2 DEF HouseInv, InStep, Recovering, PressOnItsWay, CallUnderWay,
                              Settled, quietVars
  <2>4. CASE RuleFails
    <3>1. UNCHANGED quietVars /\ ~disturbed /\ recovery # "none"
      BY <2>4 DEF RuleFails
    <3> QED BY <3>1 DEF HouseInv, InStep, Recovering, PressOnItsWay, CallUnderWay,
                        Settled, quietVars
  <2> QED BY <2>1, <2>2, <2>3, <2>4
<1> QED BY <1>1, HouseInitInv, HouseNextInv, PTL DEF HouseSpec, RestartNoticeIsTrue

=============================================================================
