--------------------------- MODULE QuietUsersProofs ---------------------------
(***************************************************************************)
(* Proofs about the modules that use quiet mode without the correlator:    *)
(* DurationPrompt, its commands, and Schedulers, the daily report and the  *)
(* watch over the gateways.  The steps of both are those of QuietMode or   *)
(* leave quiet mode alone, so QuietModeProofs' invariant is kept; each has *)
(* an inductive invariant of its own beside it.                            *)
(***************************************************************************)
EXTENDS DurationPrompt, Schedulers, QuietModeProofs

-----------------------------------------------------------------------------
(* The prompt.  One that is set dates from the last question and has not   *)
(* been answered.                                                          *)
chatVars == <<quietVars, promptVars>>

PromptDatesFromQuestion ==
    /\ askedAt \in Nat
    /\ durationPromptExpiresAt # Null =>
        /\ durationPromptExpiresAt = askedAt + PromptTTL
        /\ askedAt # 0
        /\ ~answered

PromptInv == QuietInv /\ PromptDatesFromQuestion

LEMMA QuietSteps == [PromptNext]_chatVars => [QuietNext]_quietVars
<1> SUFFICES ASSUME [PromptNext]_chatVars PROVE [QuietNext]_quietVars
  OBVIOUS
<1>1. CASE ReplyQuietPrompt
  BY <1>1 DEF ReplyQuietPrompt
<1>2. ASSUME NEW minutes \in Numbers, QuietFor(minutes) \/ TypeNumber(minutes)
      PROVE  [QuietNext]_quietVars
  BY <1>2 DEF QuietFor, TypeNumber, ActivateQuiet, QuietNext, QuietCommand
<1>3. CASE RestOrWake
  BY <1>3 DEF RestOrWake, QuietNext, QuietCommand
<1>4. CASE WakeTimerFires \/ Passes \/ Dies
  BY <1>4 DEF Passes, Dies, QuietNext
<1>5. CASE UNCHANGED chatVars
  BY <1>5 DEF chatVars
<1> QED BY <1>1, <1>2, <1>3, <1>4, <1>5 DEF PromptNext

LEMMA PromptInitInv == PromptInit => PromptInv
BY QuietInitInv DEF PromptInit, PromptInv, PromptDatesFromQuestion

LEMMA PromptNextInv == PromptInv /\ [PromptNext]_chatVars => PromptInv'
<1> SUFFICES ASSUME PromptInv, [PromptNext]_chatVars PROVE PromptInv'
  OBVIOUS
<1>1. QuietInv /\ QuietInv'
  BY QuietSteps, QuietNextInv DEF PromptInv
<1>2. PromptDatesFromQuestion
  BY DEF PromptInv
<1>3. PromptDatesFromQuestion'
  <2>1. CASE ReplyQuietPrompt
    BY <1>1, <2>1, PromptAssumption DEF ReplyQuietPrompt, PromptDatesFromQuestion,
                                        QuietInv, QuietTypeOK
  <2>2. ASSUME NEW minutes \in Numbers, QuietFor(minutes) \/ TypeNumber(minutes)
        PROVE  PromptDatesFromQuestion'
    BY <1>2, <2>2 DEF QuietFor, TypeNumber, ActivateQuiet, PromptDatesFromQuestion
  <2>3. CASE Dies
    BY <1>2, <2>3 DEF Dies, PromptDatesFromQuestion
  <2>4. CASE UNCHANGED promptVars
    BY <1>2, <2>4 DEF promptVars, PromptDatesFromQuestion
  <2> QED BY <2>1, <2>2, <2>3, <2>4 DEF PromptNext, RestOrWake, Passes, chatVars
<1> QED BY <1>1, <1>3 DEF PromptInv

(* What the group chat does with quiet mode, whatever numbers people type, *)
(* is one of the ways QuietMode allows: interactionRouter.js 155-222,      *)
(* 376-410 over quietMode.js.                                              *)
THEOREM PromptImplementsQuietMode == PromptSpec => QuietSpec
<1>1. PromptInit => QuietInit
  BY DEF PromptInit
<1> QED BY <1>1, QuietSteps, PTL DEF PromptSpec, QuietSpec, chatVars

(* So the group chat finds the timer discipline, the truthful marker and   *)
(* the truthful wake-up message that QuietModeProofs shows.                *)
THEOREM QuietUnderThePrompt ==
    PromptSpec => /\ [](OnlyTheCurrentPeriodWakes /\ MarkerTellsHowTheProcessDied)
                  /\ WakesOnlyWhenQuietIsOver
BY PromptImplementsQuietMode, QuietSafety, WakeTellsTheTruth, PTL

(* Only an answer to the question, within its two minutes, is taken for    *)
(* minutes: interactionRouter.js 155-222 and quietMode.js 129-135.         *)
THEOREM NumbersAreAnswers == PromptSpec => NumbersAnswerTheQuestion
<1> DEFINE Answer == (\E minutes \in Numbers : TypeNumber(minutes))
                       => askedAt # 0 /\ now < askedAt + PromptTTL /\ ~answered
<1>1. PromptInv => Answer
  BY DEF PromptInv, PromptDatesFromQuestion, TypeNumber, IsDurationPromptPending
<1>2. PromptInv /\ [PromptNext]_chatVars => [Answer]_chatVars
  BY <1>1
<1> QED BY <1>2, PromptInitInv, PromptNextInv, PTL DEF PromptSpec, NumbersAnswerTheQuestion, chatVars

-----------------------------------------------------------------------------
(* When the report is due.  Lemmas about the remainders msUntilNext        *)
(* computes with.                                                          *)

LEMMA DivMod ==
    ASSUME NEW d \in Nat \ {0}, NEW s \in Nat
    PROVE  s \div d \in Nat /\ s = d * (s \div d) + (s % d) /\ s % d \in 0 .. d - 1
OBVIOUS

LEMMA ModUnique ==
    ASSUME NEW d \in Nat \ {0}, NEW q \in Nat, NEW r \in 0 .. d - 1
    PROVE  (d * q + r) % d = r
OBVIOUS

(* Whole seconds added to an instant are added to its second, and an       *)
(* instant that is not later is not of a later second.                     *)
LEMMA WholeSeconds ==
    ASSUME NEW a \in Nat, NEW k \in Nat
    PROVE  Second(a) \in Nat /\ Second(a + 2 * k) = Second(a) + k
BY DEF Second

LEMMA SecondsPass ==
    ASSUME NEW a \in Nat, NEW b \in Nat, a <= b
    PROVE  Second(a) <= Second(b)
BY DEF Second

(* From the second s it is g seconds to the next second r of a day of d.   *)
LEMMA NextOccurrence ==
    ASSUME NEW d \in Nat \ {0}, NEW r \in 0 .. d - 1, NEW s \in Nat, NEW g \in Nat,
           g \in {r - (s % d), r - (s % d) + d}
    PROVE  (s + g) % d = r
<1>1. PICK m \in 0 .. d - 1 : m = s % d
  BY DivMod
<1>2. PICK k \in Nat : s = d * k + m
  BY <1>1, DivMod
<1>3. CASE g = r - m
  <2>1. s + g = d * k + r
    BY <1>2, <1>3
  <2> QED BY <2>1, ModUnique
<1>4. CASE g = r - m + d
  <2>1. k + 1 \in Nat /\ d * (k + 1) = d * k + d
    OBVIOUS
  <2>2. s + g = d * (k + 1) + r
    BY <1>2, <1>4, <2>1
  <2>3. (d * (k + 1) + r) % d = r
    BY <2>1, ModUnique
  <2> QED BY <2>2, <2>3
<1>5. g = r - m \/ g = r - m + d
  BY <1>1, Zenon
<1> QED BY <1>3, <1>4, <1>5

(* scheduleNext's timer is for the report's second of a day, and for a     *)
(* later second than the one the clock is in.                              *)
LEMMA DueAtTheHour ==
    ASSUME now \in Nat
    PROVE  LET due == now + MsUntilNext
           IN  /\ due \in Nat
               /\ Second(due) % Day = ReportAt
               /\ Second(now) < Second(due)
<1> DEFINE s == Second(now)
<1> DEFINE diff == ReportAt - (s % Day)
<1> DEFINE gap == IF diff <= 0 THEN diff + Day ELSE diff
<1>1. s \in Nat
  BY WholeSeconds
<1>2. Day \in Nat \ {0} /\ ReportAt \in 0 .. Day - 1
  BY SchedulersAssumption
<1>3. s % Day \in 0 .. Day - 1
  BY <1>1, <1>2, DivMod
<1>4. gap \in Nat \ {0} /\ gap \in {diff, diff + Day}
  BY <1>2, <1>3
<1>5. MsUntilNext = 2 * gap
  BY DEF MsUntilNext
<1> HIDE DEF gap
<1>6. Second(now + 2 * gap) = s + gap
  BY <1>4, WholeSeconds
<1>7. (s + gap) % Day = ReportAt
  BY <1>1, <1>2, <1>4, NextOccurrence
<1>8. now + 2 * gap \in Nat /\ s < s + gap
  BY <1>1, <1>4
<1> QED BY <1>5, <1>6, <1>7, <1>8

-----------------------------------------------------------------------------
(* The two loops.  A waiting report is due at its second of a day, later   *)
(* than the last run was, and the file is as the group last wished it      *)
(* unless it could not be written.                                         *)

States == {"unknown", "online", "offline"}

Polls == [todo : SUBSET Devices, at : Devices,
          phase : {"asking", "online", "offline", "pushing", "sleeping"}]

SchedulersTypeOK ==
    /\ report \in {"waiting", "building", "pushing"}
    /\ lastDue \in Int
    /\ {disabled, stateFile, stateFailed, wantedOff} \subseteq BOOLEAN
    /\ known \in [Devices -> States]
    /\ told \in [Devices -> States \cup {"nothing"}]
    /\ poll \in Polls

ReportIsDue ==
    /\ lastDue <= Second(now)
    /\ report = "waiting" =>
           /\ reportDue \in Nat
           /\ Second(reportDue) % Day = ReportAt
           /\ lastDue < Second(reportDue)

FileTellsMode == ~stateFailed => disabled = wantedOff /\ stateFile = wantedOff

SchedulersInv ==
    /\ QuietInv /\ SchedulersTypeOK
    /\ ReportIsDue /\ FileTellsMode /\ GroupKnowsWhatIsKnown

(* The parts of the state the conjuncts speak of: a step that leaves them  *)
(* alone keeps the conjunct.                                               *)
LEMMA ReportStands ==
    ASSUME ReportIsDue, UNCHANGED <<now, report, reportDue, lastDue>>
    PROVE  ReportIsDue'
BY DEF ReportIsDue, Second

LEMMA FileStands ==
    ASSUME FileTellsMode, UNCHANGED <<disabled, stateFile, stateFailed, wantedOff>>
    PROVE  FileTellsMode'
BY DEF FileTellsMode

LEMMA GroupStands ==
    ASSUME GroupKnowsWhatIsKnown, UNCHANGED <<known, told, missed, poll>>
    PROVE  GroupKnowsWhatIsKnown'
BY DEF GroupKnowsWhatIsKnown

(* A tick that goes on is at one of the gateways, and is not pushing.      *)
LEMMA TickGoesOn ==
    ASSUME NEW todo \in SUBSET Devices, NEW p \in CheckOneOf(todo)
    PROVE  p \in Polls /\ p.phase = "asking"
<1>1. PICK d \in todo : p = [todo |-> todo \ {d}, at |-> d, phase |-> "asking"]
  BY DEF CheckOneOf
<1>2. d \in Devices /\ todo \ {d} \in SUBSET Devices
  OBVIOUS
<1> QED BY <1>1, <1>2 DEF Polls

LEMMA NextDeviceType ==
    ASSUME poll \in Polls, NextDevice
    PROVE  poll' \in Polls /\ poll'.phase # "pushing"
<1>1. CASE poll.todo = {}
  <2>1. poll' = [poll EXCEPT !.phase = "sleeping"]
    BY <1>1 DEF NextDevice
  <2>2. PICK t \in SUBSET Devices, d \in Devices :
            poll' = [todo |-> t, at |-> d, phase |-> "sleeping"]
    BY <2>1 DEF Polls
  <2> QED BY <2>2 DEF Polls
<1>2. CASE poll.todo # {}
  <2>1. poll.todo \in SUBSET Devices
    BY DEF Polls
  <2>2. PICK p \in CheckOneOf(poll.todo) : poll' = p
    BY <1>2 DEF NextDevice
  <2>3. p \in Polls /\ p.phase = "asking"
    BY <2>1, TickGoesOn
  <2> QED BY <2>2, <2>3
<1> QED BY <1>1, <1>2

(* Setting the timer of the next run keeps it due later than the last one. *)
LEMMA ScheduledLater ==
    ASSUME now \in Nat, now' = now, ScheduleNext, lastDue' \in Int, lastDue' <= Second(now)
    PROVE  ReportIsDue' /\ report' = "waiting"
<1>1. PICK due : due = now + MsUntilNext
  OBVIOUS
<1>2. /\ due \in Nat
      /\ Second(due) % Day = ReportAt
      /\ Second(now) < Second(due)
  BY <1>1, DueAtTheHour
<1>3. reportDue' = due /\ report' = "waiting"
  BY <1>1 DEF ScheduleNext
<1>4. Second(now)' = Second(now) /\ Second(reportDue)' = Second(due)
  BY <1>3 DEF Second
<1>5. lastDue' < Second(due)
  BY <1>2, WholeSeconds
<1> QED BY <1>2, <1>3, <1>4, <1>5, Zenon DEF ReportIsDue

(* Both loops do with quiet mode what QuietMode allows.                    *)
LEMMA SchedulersQuietSteps == [SchedulersNext]_vars => [QuietNext]_quietVars
<1> SUFFICES ASSUME [SchedulersNext]_vars PROVE [QuietNext]_quietVars
  OBVIOUS
<1>1. CASE RestBegins \/ RestEnds
  BY <1>1 DEF RestBegins, RestEnds, QuietNext, QuietCommand
<1>2. CASE Reboot
  BY <1>2 DEF Reboot, QuietNext
<1>3. CASE TimePasses
  BY <1>3 DEF TimePasses, MayTick, QuietNext
<1>4. CASE UNCHANGED quietVars
  BY <1>4
<1> QED BY <1>1, <1>2, <1>3, <1>4 DEF SchedulersNext, ReportRuns, ReportTimerFires, PushReport,
      ReportEnds, WatchGoesOn, TuyaAnswers, CheckFails, HandleAnswer, AlertEnds, PollTimerFires,
      ToggleReport, GatewayComesOrGoes, vars

LEMMA SchedulersInitInv == SchedulersInit => SchedulersInv
<1> SUFFICES ASSUME SchedulersInit PROVE SchedulersInv
  OBVIOUS
<1>1. now = 1 /\ ~quietIndefinite /\ QuietInv
  BY QuietInitInv DEF SchedulersInit, QuietInit
<1>2. poll \in Polls /\ poll.phase = "asking"
  BY TickGoesOn DEF SchedulersInit
<1>3. SchedulersTypeOK
  <2>1. lastDue \in Int
    BY DEF SchedulersInit
  <2>2. known \in [Devices -> States] /\ told \in [Devices -> States \cup {"nothing"}]
    BY DEF SchedulersInit, States
  <2>3. report = "waiting" /\ {disabled, stateFile, stateFailed, wantedOff} \subseteq BOOLEAN
    BY DEF SchedulersInit
  <2> QED BY <1>2, <2>1, <2>2, <2>3 DEF SchedulersTypeOK
<1>4. ReportIsDue
  <2>1. PICK due : due = now + MsUntilNext
    OBVIOUS
  <2>2. /\ due \in Nat
        /\ Second(due) % Day = ReportAt
        /\ Second(now) < Second(due)
    BY <1>1, <2>1, DueAtTheHour
  <2>3. reportDue = due /\ lastDue = -1
    BY <2>1 DEF SchedulersInit
  <2>4. Second(now) \in Nat /\ Second(due) \in Nat
    BY <1>1, <2>2, WholeSeconds
  <2>5. lastDue <= Second(now) /\ lastDue < Second(due)
    BY <2>3, <2>4
  <2> QED BY <2>2, <2>3, <2>5, Zenon DEF ReportIsDue
<1>5. FileTellsMode
  BY DEF SchedulersInit, FileTellsMode
<1>6. GroupKnowsWhatIsKnown
  BY DEF SchedulersInit, GroupKnowsWhatIsKnown
<1> QED BY <1>1, <1>3, <1>4, <1>5, <1>6 DEF SchedulersInv

(* A run starts, if it does, because its second has come, and that second  *)
(* is now the last one.                                                    *)
LEMMA ReportTimerFiresInv ==
    ASSUME SchedulersInv, ReportTimerFires
    PROVE  SchedulersTypeOK' /\ ReportIsDue'
<1>1. now \in Nat /\ now' = now
  BY DEF SchedulersInv, QuietInv, QuietTypeOK, ReportTimerFires, quietVars
<1>2. report = "waiting" /\ reportDue <= now /\ lastDue' = Second(reportDue)
  BY DEF ReportTimerFires
<1>3. reportDue \in Nat
  BY <1>2 DEF SchedulersInv, ReportIsDue
<1>4. lastDue' \in Int /\ lastDue' <= Second(now)
  BY <1>1, <1>2, <1>3, WholeSeconds, SecondsPass
<1>5. CASE disabled \/ quietIndefinite
  <2>1. ReportIsDue' /\ report' = "waiting"
    BY <1>1, <1>4, <1>5, ScheduledLater DEF ReportTimerFires
  <2>2. SchedulersTypeOK'
    BY <1>4, <1>5, <2>1 DEF SchedulersInv, SchedulersTypeOK, ReportTimerFires, modeVars, healthVars
  <2> QED BY <2>1, <2>2
<1>6. CASE ~(disabled \/ quietIndefinite)
  <2>1. report' = "building"
    BY <1>6 DEF ReportTimerFires
  <2>2. Second(now)' = Second(now)
    BY <1>1 DEF Second
  <2>3. ReportIsDue'
    BY <1>4, <2>1, <2>2 DEF ReportIsDue
  <2>4. SchedulersTypeOK'
    BY <1>1, <1>4, <2>1 DEF SchedulersInv, SchedulersTypeOK, ReportTimerFires, modeVars, healthVars
  <2> QED BY <2>3, <2>4
<1> QED BY <1>5, <1>6

(* A run ends, or a boot begins, by setting the timer of the next.         *)
LEMMA ScheduledInv ==
    ASSUME SchedulersInv, ScheduleNext, UNCHANGED <<now, lastDue>>
    PROVE  ReportIsDue' /\ report' = "waiting"
<1>1. now \in Nat /\ lastDue \in Int /\ lastDue <= Second(now)
  BY DEF SchedulersInv, QuietInv, QuietTypeOK, SchedulersTypeOK, ReportIsDue
<1> QED BY <1>1, ScheduledLater

LEMMA RebootInv ==
    ASSUME SchedulersInv, Reboot
    PROVE  /\ SchedulersTypeOK' /\ ReportIsDue'
           /\ FileTellsMode' /\ GroupKnowsWhatIsKnown'
<1>1. ReportIsDue' /\ report' = "waiting"
  BY ScheduledInv DEF Reboot, Restart
<1>2. poll' \in Polls /\ poll'.phase = "asking"
  <2>1. PICK p \in CheckOneOf(Devices) : poll' = p
    BY DEF Reboot
  <2> QED BY <2>1, TickGoesOn
<1>3. SchedulersTypeOK'
  BY <1>1, <1>2 DEF SchedulersInv, SchedulersTypeOK, Reboot, States
<1>4. FileTellsMode'
  BY DEF SchedulersInv, FileTellsMode, Reboot
<1>5. GroupKnowsWhatIsKnown'
  BY DEF GroupKnowsWhatIsKnown, Reboot
<1> QED BY <1>1, <1>3, <1>4, <1>5

(* The watch.  Only an answer and the end of a push touch what is known    *)
(* and what is told, and between the two the tick is at that gateway.      *)
LEMMA HandleAnswerInv ==
    ASSUME SchedulersInv, HandleAnswer
    PROVE  SchedulersTypeOK' /\ GroupKnowsWhatIsKnown'
<1>1. /\ poll \in Polls /\ poll.at \in Devices /\ poll.phase \in {"online", "offline"}
      /\ known \in [Devices -> States]
  BY DEF SchedulersInv, SchedulersTypeOK, HandleAnswer, Polls
<1>2. known' = [known EXCEPT ![poll.at] = poll.phase] /\ UNCHANGED <<told, missed>>
  BY DEF HandleAnswer, healthVars
<1>3. known' \in [Devices -> States]
  BY <1>1, <1>2 DEF States
<1>4. CASE known[poll.at] = poll.phase \/ (known[poll.at] = "unknown" /\ poll.phase = "online")
  <2>1. poll' \in Polls /\ poll'.phase # "pushing"
    BY <1>1, <1>4, NextDeviceType DEF HandleAnswer
  <2>2. SchedulersTypeOK'
    BY <1>3, <2>1 DEF SchedulersInv, SchedulersTypeOK, HandleAnswer, reportVars, modeVars
  <2>3. GroupKnowsWhatIsKnown'
    BY <1>1, <1>2, <1>4 DEF SchedulersInv, GroupKnowsWhatIsKnown
  <2> QED BY <2>2, <2>3
<1>5. CASE ~(known[poll.at] = poll.phase \/ (known[poll.at] = "unknown" /\ poll.phase = "online"))
  <2>1. poll' = [poll EXCEPT !.phase = "pushing"]
    BY <1>5 DEF HandleAnswer
  <2>2. poll' \in Polls /\ poll'.phase = "pushing" /\ poll'.at = poll.at
    BY <1>1, <2>1 DEF Polls
  <2>3. SchedulersTypeOK'
    BY <1>3, <2>2 DEF SchedulersInv, SchedulersTypeOK, HandleAnswer, reportVars, modeVars
  <2>4. GroupKnowsWhatIsKnown'
    BY <1>1, <1>2, <2>2 DEF SchedulersInv, GroupKnowsWhatIsKnown
  <2> QED BY <2>3, <2>4
<1> QED BY <1>4, <1>5

LEMMA AlertEndsInv ==
    ASSUME SchedulersInv, AlertEnds
    PROVE  SchedulersTypeOK' /\ GroupKnowsWhatIsKnown'
<1>1. /\ poll \in Polls /\ poll.at \in Devices /\ poll.phase = "pushing"
      /\ known \in [Devices -> States] /\ told \in [Devices -> States \cup {"nothing"}]
  BY DEF SchedulersInv, SchedulersTypeOK, AlertEnds, Polls
<1>2. poll' \in Polls /\ poll'.phase # "pushing" /\ known' = known
  BY <1>1, NextDeviceType DEF AlertEnds
<1>3. \/ told' = [told EXCEPT ![poll.at] = known[poll.at]] /\ missed' = missed \ {poll.at}
      \/ told' = told /\ missed' = missed \cup {poll.at}
  BY DEF AlertEnds
<1>4. SchedulersTypeOK'
  <2>1. told' \in [Devices -> States \cup {"nothing"}]
    BY <1>1, <1>3
  <2> QED BY <1>2, <2>1 DEF SchedulersInv, SchedulersTypeOK, AlertEnds, reportVars, modeVars
<1>5. GroupKnowsWhatIsKnown'
  <2> SUFFICES ASSUME NEW d \in Devices, d \notin missed'
               PROVE  \/ known'[d] = "offline" /\ told'[d] = "offline"
                      \/ known'[d] # "offline" /\ told'[d] # "offline"
    BY DEF GroupKnowsWhatIsKnown
  <2>1. CASE d = poll.at
    BY <1>1, <1>2, <1>3, <2>1
  <2>2. CASE d # poll.at
    <3>1. d \notin missed /\ told'[d] = told[d]
      BY <1>1, <1>3, <2>2
    <3> QED BY <1>2, <2>2, <3>1 DEF SchedulersInv, GroupKnowsWhatIsKnown
  <2> QED BY <2>1, <2>2
<1> QED BY <1>4, <1>5

(* The steps of the watch that learn nothing move its tick only.           *)
LEMMA TickMovesInv ==
    ASSUME SchedulersInv, TuyaAnswers \/ CheckFails \/ PollTimerFires
    PROVE  SchedulersTypeOK' /\ GroupKnowsWhatIsKnown'
<1>1. poll \in Polls /\ poll.phase # "pushing" /\ UNCHANGED <<known, told, missed>>
  BY DEF SchedulersInv, SchedulersTypeOK, TuyaAnswers, CheckFails, PollTimerFires
<1>2. poll' \in Polls
  <2>1. CASE TuyaAnswers
    <3>1. PICK p \in {"online", "offline"} : poll' = [poll EXCEPT !.phase = p]
      BY <2>1 DEF TuyaAnswers
    <3> QED BY <1>1, <3>1 DEF Polls
  <2>2. CASE CheckFails
    BY <1>1, <2>2, NextDeviceType DEF CheckFails
  <2>3. CASE PollTimerFires
    <3>1. PICK p \in CheckOneOf(Devices) : poll' = p
      BY <2>3 DEF PollTimerFires
    <3> QED BY <3>1, TickGoesOn
  <2> QED BY <2>1, <2>2, <2>3
<1>3. SchedulersTypeOK'
  BY <1>1, <1>2 DEF SchedulersInv, SchedulersTypeOK, TuyaAnswers, CheckFails, PollTimerFires,
                    reportVars, modeVars
<1>4. GroupKnowsWhatIsKnown'
  BY <1>1 DEF SchedulersInv, GroupKnowsWhatIsKnown
<1> QED BY <1>3, <1>4

LEMMA SchedulersNextInv == SchedulersInv /\ [SchedulersNext]_vars => SchedulersInv'
<1> SUFFICES ASSUME SchedulersInv, [SchedulersNext]_vars PROVE SchedulersInv'
  OBVIOUS
<1> USE DEF SchedulersInv
<1>1. QuietInv'
  BY SchedulersQuietSteps, QuietNextInv
<1>2. CASE ReportTimerFires
  <2>1. FileTellsMode' /\ GroupKnowsWhatIsKnown'
    BY <1>2, FileStands, GroupStands DEF ReportTimerFires, modeVars, healthVars
  <2> QED BY <1>1, <1>2, <2>1, ReportTimerFiresInv
<1>3. CASE PushReport
  <2>1. SchedulersTypeOK'
    BY <1>3 DEF PushReport, SchedulersTypeOK, modeVars, healthVars
  <2>2. now' = now /\ lastDue' = lastDue /\ report' = "pushing"
    BY <1>3 DEF PushReport, quietVars
  <2>3. ReportIsDue'
    BY <2>2 DEF ReportIsDue, Second
  <2>4. FileTellsMode' /\ GroupKnowsWhatIsKnown'
    BY <1>3, FileStands, GroupStands DEF PushReport, modeVars, healthVars
  <2> QED BY <1>1, <2>1, <2>3, <2>4
<1>4. CASE ReportEnds
  <2>1. ReportIsDue' /\ report' = "waiting"
    BY <1>4, ScheduledInv DEF ReportEnds, quietVars
  <2>2. SchedulersTypeOK'
    BY <1>4, <2>1 DEF ReportEnds, SchedulersTypeOK, modeVars, healthVars
  <2>3. FileTellsMode' /\ GroupKnowsWhatIsKnown'
    BY <1>4, FileStands, GroupStands DEF ReportEnds, modeVars, healthVars
  <2> QED BY <1>1, <2>1, <2>2, <2>3
<1>5. CASE ToggleReport
  <2>1. PICK value \in BOOLEAN : SetEnabled(value)
    BY <1>5 DEF ToggleReport
  <2>2. SchedulersTypeOK' /\ FileTellsMode'
    BY <1>5, <2>1 DEF ToggleReport, SetEnabled, SchedulersTypeOK, FileTellsMode,
                      reportVars, healthVars
  <2>3. ReportIsDue' /\ GroupKnowsWhatIsKnown'
    BY <1>5, ReportStands, GroupStands DEF ToggleReport, quietVars, reportVars, healthVars
  <2> QED BY <1>1, <2>2, <2>3
<1>6. CASE HandleAnswer \/ AlertEnds \/ TuyaAnswers \/ CheckFails \/ PollTimerFires
  <2>1. SchedulersTypeOK' /\ GroupKnowsWhatIsKnown'
    BY <1>6, HandleAnswerInv, AlertEndsInv, TickMovesInv
  <2>2. UNCHANGED <<quietVars, reportVars, modeVars>>
    BY <1>6 DEF HandleAnswer, AlertEnds, TuyaAnswers, CheckFails, PollTimerFires
  <2>3. ReportIsDue' /\ FileTellsMode'
    BY <2>2, ReportStands, FileStands DEF quietVars, reportVars, modeVars
  <2> QED BY <1>1, <2>1, <2>3
<1>7. CASE RestBegins \/ RestEnds \/ TimePasses
  <2>1. UNCHANGED <<reportVars, modeVars, healthVars>>
    BY <1>7 DEF RestBegins, RestEnds, TimePasses
  <2>2. SchedulersTypeOK' /\ FileTellsMode' /\ GroupKnowsWhatIsKnown'
    BY <2>1, FileStands, GroupStands DEF SchedulersTypeOK, reportVars, modeVars, healthVars
  <2>3. now \in Nat /\ now' \in {now, now + 1}
    BY <1>7 DEF RestBegins, RestEnds, TimePasses, SetIndefiniteQuiet, ClearQuiet, Tick, QuietInv,
                QuietTypeOK
  <2>4. ReportIsDue'
    <3>1. PICK later \in Nat : now' = later /\ now <= later
      BY <2>3
    <3>2. Second(now) \in Nat /\ Second(later) \in Nat /\ Second(now) <= Second(later)
      BY <2>3, <3>1, WholeSeconds, SecondsPass
    <3>3. lastDue <= Second(later)
      BY <3>2 DEF ReportIsDue, SchedulersTypeOK
    <3>4. Second(now)' = Second(later) /\ Second(reportDue)' = Second(reportDue)
      BY <2>1, <3>1 DEF Second, reportVars
    <3> QED BY <2>1, <3>3, <3>4 DEF ReportIsDue, reportVars
  <2> QED BY <1>1, <2>2, <2>4
<1>8. CASE GatewayComesOrGoes \/ UNCHANGED vars
  <2>1. UNCHANGED <<quietVars, reportVars, modeVars, healthVars>>
    BY <1>8 DEF GatewayComesOrGoes, vars
  <2>2. ReportIsDue' /\ FileTellsMode' /\ GroupKnowsWhatIsKnown'
    BY <2>1, ReportStands, FileStands, GroupStands
       DEF quietVars, reportVars, modeVars, healthVars
  <2>3. SchedulersTypeOK'
    BY <2>1 DEF SchedulersTypeOK, reportVars, modeVars, healthVars
  <2> QED BY <1>1, <2>2, <2>3
<1>9. CASE Reboot
  BY <1>1, <1>9, RebootInv
<1> QED BY <1>2, <1>3, <1>4, <1>5, <1>6, <1>7, <1>8, <1>9
        DEF SchedulersNext, ReportRuns, WatchGoesOn

(* The group knows what the watch knows, in every state and whatever       *)
(* fails: deviceHealth.js 60-124.                                          *)
THEOREM WatchTellsTheGroup == SchedulersSpec => []GroupKnowsWhatIsKnown
<1>1. SchedulersInv => GroupKnowsWhatIsKnown
  BY DEF SchedulersInv
<1> QED BY <1>1, SchedulersInitInv, SchedulersNextInv, PTL DEF SchedulersSpec

(* Each run is set for its second of a day, later than the last one's,     *)
(* whatever fraction of a second the clock was at: dailyReport.js.         *)
THEOREM ReportHasItsHour == SchedulersSpec => ReportedOnceADay
<1> DEFINE Due == ReportTimerFires => Second(reportDue) % Day = ReportAt /\ Second(reportDue) > lastDue
<1>1. SchedulersInv => Due
  <2> SUFFICES ASSUME SchedulersInv, ReportTimerFires
               PROVE  Second(reportDue) % Day = ReportAt /\ Second(reportDue) > lastDue
    OBVIOUS
  <2>1. report = "waiting"
    BY DEF ReportTimerFires
  <2>2. reportDue \in Nat /\ Second(reportDue) % Day = ReportAt /\ lastDue < Second(reportDue)
        /\ lastDue \in Int
    BY <2>1 DEF SchedulersInv, ReportIsDue, SchedulersTypeOK
  <2> QED BY <2>2, WholeSeconds
<1>2. SchedulersInv /\ [SchedulersNext]_vars => [Due]_vars
  BY <1>1
<1> QED BY <1>2, SchedulersInitInv, SchedulersNextInv, PTL DEF SchedulersSpec, ReportedOnceADay

(* So no day has two reports, restarts or not.  The invariant is that the  *)
(* last run, too, was set for its second of a day.                         *)
RanAtItsHour == lastDue = -1 \/ (lastDue \in Nat /\ lastDue % Day = ReportAt)

LEMMA LaterDay ==
    ASSUME NEW d \in Nat \ {0}, NEW x \in Nat, NEW y \in Nat, x % d = y % d, y < x
    PROVE  y \div d < x \div d
<1>1. PICK p \in Nat, q \in Nat, r \in Nat :
          p = x \div d /\ q = y \div d /\ x = d * p + r /\ y = d * q + r
  <2>1. x \div d \in Nat /\ x = d * (x \div d) + (x % d)
    BY DivMod
  <2>2. y \div d \in Nat /\ y = d * (y \div d) + (y % d)
    BY DivMod
  <2>3. x % d \in Nat
    BY DivMod
  <2> QED BY <2>1, <2>2, <2>3, Zenon
<1>2. ASSUME p <= q PROVE FALSE
  <2>1. d * p <= d * q
    BY <1>2
  <2> QED BY <1>1, <2>1
<1> QED BY <1>1, <1>2

LEMMA RanAtItsHourStep ==
    SchedulersInv /\ RanAtItsHour /\ [SchedulersNext]_vars => RanAtItsHour'
<1> SUFFICES ASSUME SchedulersInv, RanAtItsHour, [SchedulersNext]_vars PROVE RanAtItsHour'
  OBVIOUS
<1>1. CASE ReportTimerFires
  <2>1. lastDue' = Second(reportDue) /\ reportDue \in Nat /\ Second(reportDue) % Day = ReportAt
    BY <1>1 DEF ReportTimerFires, SchedulersInv, ReportIsDue
  <2> QED BY <2>1, WholeSeconds DEF RanAtItsHour
<1>2. CASE lastDue' = lastDue
  BY <1>2 DEF RanAtItsHour
<1> QED BY <1>1, <1>2 DEF SchedulersNext, ReportRuns, PushReport, ReportEnds, WatchGoesOn,
      TuyaAnswers, CheckFails, HandleAnswer, AlertEnds, PollTimerFires, ToggleReport,
      RestBegins, RestEnds, GatewayComesOrGoes, TimePasses, Reboot, vars, reportVars

(* No two runs of the report are for the same day: dailyReport.js over any *)
(* number of restarts.                                                     *)
THEOREM NoDayHasTwoReports ==
    SchedulersSpec =>
        [][ReportTimerFires /\ lastDue # -1 => lastDue \div Day < Second(reportDue) \div Day]_vars
<1> DEFINE AnotherDay == ReportTimerFires /\ lastDue # -1
                                 => lastDue \div Day < Second(reportDue) \div Day
<1>1. SchedulersInv /\ RanAtItsHour => AnotherDay
  <2> SUFFICES ASSUME SchedulersInv, RanAtItsHour, ReportTimerFires, lastDue # -1
               PROVE  lastDue \div Day < Second(reportDue) \div Day
    OBVIOUS
  <2>1. lastDue \in Nat /\ lastDue % Day = ReportAt
    BY DEF RanAtItsHour
  <2>2. PICK due \in Nat : due = Second(reportDue)
    BY WholeSeconds DEF SchedulersInv, ReportIsDue, ReportTimerFires
  <2>3. due % Day = ReportAt /\ lastDue < due
    BY <2>2 DEF SchedulersInv, ReportIsDue, ReportTimerFires
  <2> QED BY <2>1, <2>2, <2>3, LaterDay, SchedulersAssumption
<1>2. SchedulersInv /\ RanAtItsHour /\ [SchedulersNext]_vars => [AnotherDay]_vars
  BY <1>1
<1>3. SchedulersInit => RanAtItsHour
  BY DEF SchedulersInit, RanAtItsHour
<1> QED BY <1>2, <1>3, SchedulersInitInv, SchedulersNextInv, RanAtItsHourStep, PTL DEF SchedulersSpec

(* /report off holds until /report on, across restarts, unless the file    *)
(* could not be written: reportMode.js and dailyReport.js.                 *)
THEOREM ReportStaysOff == SchedulersSpec => OffMeansOff
<1> DEFINE Off == report = "waiting" /\ report' = "building" => ~wantedOff \/ stateFailed
<1>1. SchedulersInv /\ [SchedulersNext]_vars => [Off]_vars
  <2> SUFFICES ASSUME SchedulersInv, SchedulersNext, report = "waiting", report' = "building"
               PROVE  ~wantedOff \/ stateFailed
    OBVIOUS
  <2>1. ReportTimerFires
    BY DEF SchedulersNext, ReportRuns, WatchGoesOn, PushReport, ReportEnds, TuyaAnswers, CheckFails,
           HandleAnswer, AlertEnds, PollTimerFires, ToggleReport, RestBegins, RestEnds,
           GatewayComesOrGoes, TimePasses, Reboot, ScheduleNext, reportVars
  <2>2. ~disabled
    BY <2>1 DEF ReportTimerFires, ScheduleNext
  <2> QED BY <2>2 DEF SchedulersInv, FileTellsMode, SchedulersTypeOK
<1> QED BY <1>1, SchedulersInitInv, SchedulersNextInv, PTL DEF SchedulersSpec, OffMeansOff

=============================================================================
