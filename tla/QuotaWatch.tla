------------------------------ MODULE QuotaWatch ------------------------------
(***************************************************************************)
(* src/services/quotaWatch.js with the pushes of lineMessaging.js that     *)
(* feed it and the quota question of statusReport.js: the warning that the *)
(* active bot's monthly quota runs low, and the mark on a bot that has     *)
(* spent it.                                                               *)
(*                                                                         *)
(* Pushes, quota questions and the warning itself are calls of LINE that   *)
(* it decides, and answers, at any later moment, and that may fail before  *)
(* or after.  Meanwhile /switch changes the active bot, a rest begins or   *)
(* ends, and the month turns.  Groups are known to every bot, and the plan *)
(* is a limited one.                                                       *)
(***************************************************************************)
EXTENDS QuietMode

CONSTANTS
    Roles,      \* the switchable bots
    FirstRole,  \* the one the process starts with
    QuotaLimit, \* LINE's monthly limit, in pushes
    Usages,     \* what a bot may have pushed this month before the start
    WarnAt,     \* LINE_QUOTA_WARN_AT
    MaxPushes,  \* bound: number of alerts pushed
    MaxSwitches,\* bound: number of /switch
    MaxMonths   \* bound: number of months

ASSUME QuotaAssumption ==
    /\ FirstRole \in Roles
    /\ QuotaLimit \in Nat /\ WarnAt \in Nat /\ Usages \subseteq Nat
    /\ MaxPushes \in Nat /\ MaxSwitches \in Nat /\ MaxMonths \in Nat

VARIABLES
    activeRole,  \* botIdentity's
    month,       \* by which monthKey tells the months apart
    usage,       \* LINE: what each bot has pushed this month
    pushes,      \* the pushes waiting for LINE
    check,       \* checkAfterPush under way, or NoCheck while not `checking`
    recheck,
    report,      \* buildReport's quota question, or NoReport
    warned,      \* the bots and months warned about
    exhausted,   \* the bots and months marked as spent
    sent,        \* number of alerts pushed so far; names pushes
    switches,    \* number of switches so far
    unseen,      \* history: see Unseen
    told,        \* history: the bots and months LINE took a warning about
    unheard,     \* history: those of them whose last warning's answer was lost
    spent,       \* history: the bots and months LINE refused a push for, or could
    shifted      \* history: whether an answer came for another bot or month

quotaVars == <<activeRole, month, usage, pushes, check, recheck, report, warned,
               exhausted, sent, switches, unseen, told, unheard, spent, shifted>>
vars == <<quietVars, quotaVars>>

Key(role) == <<role, month>>

Answers == {"none", "accepted", "monthly limit", "rate limit"}
PushCall == [id : Nat, role : Roles, warning : BOOLEAN, answer : Answers]
Check == [role : Roles, month : Nat, used : Nat, stage : {"asking", "read", "picking", "warning"}]
NoCheck == [stage |-> "none"]
NoReport == [stage |-> "none"]

NewCheck == [role |-> activeRole, month |-> month, used |-> 0, stage |-> "asking"]

(* What becomes of check and recheck.                                      *)
Then(c, again) == check' = c /\ recheck' = again

NeedsNoCheckInRest(keys) == quietIndefinite

NeedsNoCheck(keys) == Key(activeRole) \in keys \/ quietIndefinite

RecheckNever(c, again, keys) == again

(* checkAfterPush up to its first await, while c is under way, again is    *)
(* recheck and keys is warned: the recheck and the check that it leaves.   *)
RecheckAfterPush(c, again, keys) == again \/ (c # NoCheck /\ ~NeedsNoCheck(keys))
CheckAfterPush(c, keys) == IF c = NoCheck /\ ~NeedsNoCheck(keys) THEN NewCheck ELSE c

EndCheckOnlyToRecheck(again, keys) ==
    IF again THEN Then(CheckAfterPush(NoCheck, keys), FALSE) ELSE Then(check, FALSE)

(* Its finally block.                                                      *)
EndCheck(again, keys) ==
    Then(IF again THEN CheckAfterPush(NoCheck, keys) ELSE NoCheck, FALSE)

(* The bots with a push that no quota question has been able to count yet, *)
(* although one was due: not in a rest, after a switch, in a new month or  *)
(* after a check that failed, which the next push makes up for.            *)
Unseen(roles) == unseen' = roles

QuotaInit ==
    /\ QuietInit
    /\ activeRole = FirstRole
    /\ month = 1
    /\ usage \in [Roles -> Usages]
    /\ pushes = {}
    /\ check = NoCheck
    /\ recheck = FALSE
    /\ report = NoReport
    /\ warned = {} /\ exhausted = {}
    /\ sent = 0 /\ switches = 0
    /\ unseen = {} /\ told = {} /\ unheard = {}
    /\ spent = {Key(r) : r \in {q \in Roles : usage[q] >= QuotaLimit}}
    /\ shifted = FALSE

NewPush(id, warning) ==
    pushes' = pushes \cup {[id |-> id, role |-> activeRole, warning |-> warning,
                            answer |-> "none"]}

(* pushMessage up to LINE.                                                 *)
Push ==
    /\ sent < MaxPushes
    /\ sent' = sent + 1
    /\ NewPush(sent', FALSE)
    /\ UNCHANGED <<quietVars, activeRole, month, usage, check, recheck, report,
                   warned, exhausted, switches, unseen, told, unheard, spent, shifted>>

(* The bot and month that the check under way, and its warning, are about. *)
WarnedKey == <<check.role, check.month>>

LineDecides(p) ==
    /\ p.answer = "none"
    /\ \E a \in Answers \ {"none"} :
        /\ (a = "monthly limit") = (usage[p.role] >= QuotaLimit)
        /\ pushes' = (pushes \ {p}) \cup {[p EXCEPT !.answer = a]}
        /\ usage' = IF a = "accepted" THEN [usage EXCEPT ![p.role] = @ + 1] ELSE usage
        /\ spent' = IF usage'[p.role] >= QuotaLimit THEN spent \cup {Key(p.role)} ELSE spent
        /\ told' = IF a = "accepted" /\ p.warning THEN told \cup {WarnedKey} ELSE told
    /\ UNCHANGED <<quietVars, activeRole, month, check, recheck, report, warned,
                   exhausted, sent, switches, unseen, unheard, shifted>>

(* pushMessage of an alert from LINE's answer on.                          *)
PushSucceeds(p) ==
    /\ p.answer = "accepted" /\ ~p.warning
    /\ pushes' = pushes \ {p}
    /\ Then(CheckAfterPush(check, warned), RecheckAfterPush(check, recheck, warned))
    /\ Unseen(IF p.role = activeRole /\ ~quietIndefinite THEN unseen \cup {p.role} ELSE unseen)
    /\ UNCHANGED <<quietVars, activeRole, month, usage, report, warned, exhausted,
                   sent, switches, told, unheard, spent, shifted>>

MarksAnyRefusal(p) ==
    exhausted' = IF p.answer \in {"monthly limit", "rate limit"}
                 THEN exhausted \cup {Key(p.role)} ELSE exhausted

(* markExhausted, for the monthly limit only.                              *)
MarkRefused(p) ==
    exhausted' = IF p.answer = "monthly limit" THEN exhausted \cup {Key(p.role)} ELSE exhausted

(* Refused, or the call itself fails, in which case LINE's answer is lost. *)
PushFails(p) ==
    /\ ~p.warning
    /\ pushes' = pushes \ {p}
    /\ MarkRefused(p) \/ UNCHANGED exhausted
    /\ UNCHANGED <<quietVars, activeRole, month, usage, check, recheck, report, warned,
                   sent, switches, unseen, told, unheard, spent, shifted>>

LineReadsQuota ==
    /\ check.stage = "asking"
    /\ check' = [check EXCEPT !.stage = "read", !.used = usage[check.role]]
    /\ Unseen(unseen \ {check.role})
    /\ UNCHANGED <<quietVars, activeRole, month, usage, pushes, recheck, report, warned,
                   exhausted, sent, switches, told, unheard, spent, shifted>>

(* From the answer of getQuota on.                                         *)
CheckSees ==
    /\ check.stage = "read"
    /\ exhausted' = IF check.used >= QuotaLimit THEN exhausted \cup {Key(check.role)} ELSE exhausted
    /\ IF check.used < WarnAt
       THEN /\ EndCheck(recheck, warned)
            /\ UNCHANGED warned
       ELSE /\ warned' = warned \cup {<<check.role, check.month>>}
            /\ check' = [check EXCEPT !.stage = "picking"]
            /\ UNCHANGED recheck
    /\ UNCHANGED <<quietVars, activeRole, month, usage, pushes, report, sent,
                   switches, unseen, told, unheard, spent, shifted>>

CheckFails ==
    /\ check.stage \in {"asking", "read"}
    /\ EndCheck(recheck, warned)
    /\ Unseen({})
    /\ UNCHANGED <<quietVars, activeRole, month, usage, pushes, report, warned, exhausted,
                   sent, switches, told, unheard, spent, shifted>>

(* pickSwitchTarget has asked the other bots' quotas; whichever it picks,  *)
(* the warning is pushed by the bot that is active now.                    *)
PushWarning ==
    /\ check.stage = "picking"
    /\ check' = [check EXCEPT !.stage = "warning"]
    /\ NewPush(0, TRUE)
    /\ UNCHANGED <<quietVars, activeRole, month, usage, recheck, report, warned, exhausted,
                   sent, switches, unseen, told, unheard, spent, shifted>>

(* The warning's own push comes back: checkAfterPush once more, from       *)
(* within, then the end of the check that sent it.                         *)
WarningSucceeds(p) ==
    /\ p.answer = "accepted" /\ p.warning
    /\ pushes' = pushes \ {p}
    /\ unheard' = unheard \ {WarnedKey}
    /\ EndCheck(RecheckAfterPush(check, recheck, warned), warned)
    /\ UNCHANGED <<quietVars, activeRole, month, usage, report, warned, exhausted,
                   sent, switches, unseen, told, spent, shifted>>

(* The next push may retry the warning, also one that LINE took and whose  *)
(* answer is lost.                                                         *)
WarningFails(p) ==
    /\ p.warning
    /\ pushes' = pushes \ {p}
    /\ MarkRefused(p) \/ UNCHANGED exhausted
    /\ warned' = warned \ {WarnedKey}
    /\ EndCheck(recheck, warned')
    /\ unheard' = IF p.answer = "accepted" THEN unheard \cup {WarnedKey} ELSE unheard
    /\ Unseen({})
    /\ UNCHANGED <<quietVars, activeRole, month, usage, report, sent, switches,
                   told, spent, shifted>>

ReportAsks ==
    /\ report = NoReport
    /\ report' = [role |-> activeRole, used |-> 0, stage |-> "asking"]
    /\ UNCHANGED <<quietVars, activeRole, month, usage, pushes, check, recheck, warned,
                   exhausted, sent, switches, unseen, told, unheard, spent, shifted>>

LineReadsForReport ==
    /\ report.stage = "asking"
    /\ report' = [report EXCEPT !.used = usage[report.role], !.stage = "read"]
    /\ UNCHANGED <<quietVars, activeRole, month, usage, pushes, check, recheck, warned,
                   exhausted, sent, switches, unseen, told, unheard, spent, shifted>>

(* buildReport once all its questions are answered, or this one has failed.*)
ReportSees ==
    /\ report # NoReport
    /\ report' = NoReport
    /\ exhausted' = IF report.stage = "read" /\ report.used >= QuotaLimit
                    THEN exhausted \cup {Key(activeRole)} ELSE exhausted
    /\ UNCHANGED <<quietVars, activeRole, month, usage, pushes, check, recheck, warned,
                   sent, switches, unseen, told, unheard, spent, shifted>>

(* setActiveRole, on /switch.                                              *)
SwitchRole(role) ==
    /\ role # activeRole /\ switches < MaxSwitches
    /\ switches' = switches + 1
    /\ activeRole' = role
    /\ Unseen({})
    /\ shifted' = (shifted \/ report # NoReport)
    /\ UNCHANGED <<quietVars, month, usage, pushes, check, recheck, report, warned,
                   exhausted, sent, told, unheard, spent>>

(* LINE starts counting again and monthKey changes.                        *)
MonthTurns ==
    /\ month < MaxMonths
    /\ month' = month + 1
    /\ usage' = [r \in Roles |-> 0]
    /\ Unseen({})
    /\ shifted' = (shifted \/ report # NoReport \/ check # NoCheck \/ pushes # {})
    /\ UNCHANGED <<quietVars, activeRole, pushes, check, recheck, report, warned,
                   exhausted, sent, switches, told, unheard, spent>>

RestBegins ==
    /\ rests < MaxRests
    /\ SetIndefiniteQuiet
    /\ Unseen({})
    /\ UNCHANGED <<activeRole, month, usage, pushes, check, recheck, report, warned,
                   exhausted, sent, switches, told, unheard, spent, shifted>>

RestEnds == quietIndefinite /\ ClearQuiet /\ UNCHANGED quotaVars

LineIsCalled ==
    \/ \E p \in pushes :
        LineDecides(p) \/ PushSucceeds(p) \/ PushFails(p) \/ WarningSucceeds(p) \/ WarningFails(p)
    \/ LineReadsQuota \/ CheckSees \/ CheckFails \/ PushWarning

QuotaNext ==
    \/ Push
    \/ LineIsCalled
    \/ ReportAsks \/ LineReadsForReport \/ ReportSees
    \/ \E role \in Roles : SwitchRole(role)
    \/ MonthTurns
    \/ RestBegins \/ RestEnds

(* Every call of LINE ends, the SDK's requests timing out by themselves.   *)
QuotaFairness == WF_vars(LineIsCalled)

QuotaSpec == QuotaInit /\ [][QuotaNext]_vars /\ QuotaFairness

-----------------------------------------------------------------------------
(* Every variable keeps its type.                                          *)
QuotaTypeOK ==
    /\ QuietTypeOK
    /\ activeRole \in Roles /\ month \in Nat
    /\ usage \in [Roles -> Nat]
    /\ pushes \subseteq PushCall
    /\ check = NoCheck \/ check \in Check
    /\ recheck \in BOOLEAN
    /\ UNION {warned, exhausted, told, unheard, spent} \subseteq Roles \X Nat
    /\ sent \in Nat /\ switches \in Nat
    /\ unseen \subseteq Roles
    /\ shifted \in BOOLEAN

(* A burst's pushes are all looked at: as long as a push of the active bot *)
(* has not been counted, the bot has been warned about, or a check is      *)
(* about to ask, or will run again.                                        *)
NoPushGoesUnchecked ==
    \A r \in unseen :
        \/ Key(r) \in warned
        \/ recheck /\ check # NoCheck
        \/ check.stage = "asking" /\ check.role = r

(* LINE takes a warning, which the group then sees.                        *)
GroupIsWarned ==
    \E p \in pushes :
        p.warning /\ p.answer = "none" /\ [p EXCEPT !.answer = "accepted"] \in pushes'

(* The group is not warned of a bot a second time in a month, however      *)
(* pushes, switches and checks overlap, unless LINE's answer to the first  *)
(* warning was lost, which checkAfterPush takes for a failure.             *)
WarnedOnceAMonth == [][GroupIsWarned => WarnedKey \notin told \ unheard]_vars

(* A bot is marked as spent only if LINE would refuse its pushes that      *)
(* month, unless the month turned, or the active bot changed, while an     *)
(* answer was on its way.                                                  *)
OnlySpentBotsAreMarkedInTime == shifted \/ exhausted \subseteq spent

(* Every check ends, so the next push is checked again.                    *)
ChecksEnd == check # NoCheck ~> check = NoCheck

=============================================================================
