-------------------------- MODULE QuotaWatchProofs --------------------------
(***************************************************************************)
(* Proofs about QuotaWatch.  That no push goes unchecked is inductive once *)
(* the bots with an uncounted push are known to be the active one, out of  *)
(* rest: a later check can only stand for the bot that is active then.     *)
(* That nobody is warned twice rests on the keys that LINE took a warning  *)
(* about staying in `warned`: there is but one warning on its way, it is   *)
(* the check's own, and if it fails after LINE took it, it goes unheard.   *)
(***************************************************************************)
EXTENDS QuotaWatch, QuietModeProofs

USE QuotaAssumption

UnseenIsDue == unseen # {} => unseen = {activeRole} /\ ~quietIndefinite

OneWarning ==
    /\ \A p \in pushes : p.warning => check.stage = "warning"
    /\ \A p, q \in pushes : p.warning /\ q.warning => p = q

ToldIsWarned ==
    /\ told \ unheard \subseteq warned
    /\ check # NoCheck /\ WarnedKey \in told \ unheard
         => \E p \in pushes : p.warning /\ p.answer = "accepted"
    /\ check.stage \in {"picking", "warning"} => WarnedKey \in warned

QuotaTypes == QuotaTypeOK /\ QuietInv

QuotaInv == QuotaTypes /\ UnseenIsDue /\ OneWarning /\ ToldIsWarned /\ NoPushGoesUnchecked

-----------------------------------------------------------------------------
(* A check that starts is a check, of the active bot, about to ask.        *)
LEMMA NewCheckFacts ==
    ASSUME QuotaTypeOK
    PROVE  /\ NewCheck \in Check /\ NewCheck # NoCheck
           /\ NewCheck.stage = "asking" /\ NewCheck.role = activeRole
           /\ <<NewCheck.role, NewCheck.month>> = Key(activeRole)
BY DEF QuotaTypeOK, NewCheck, Check, NoCheck, Key

(* A check of any stage is none but a check.                               *)
LEMMA StageFacts ==
    ASSUME QuotaTypeOK, check.stage \in {"asking", "read", "picking", "warning"}
    PROVE  check \in Check /\ check # NoCheck
BY DEF QuotaTypeOK, NoCheck

(* The finally block of checkAfterPush leaves no check, or a new one if    *)
(* one was asked for and is due.                                           *)
LEMMA EndCheckFacts ==
    ASSUME NEW again, NEW keys, EndCheck(again, keys)
    PROVE  /\ recheck' = FALSE
           /\ \/ check' = NoCheck /\ (again => NeedsNoCheck(keys))
              \/ check' = NewCheck /\ again /\ ~NeedsNoCheck(keys)
BY DEF EndCheck, Then, CheckAfterPush

(* So it keeps the types.                                                  *)
LEMMA EndCheckType ==
    ASSUME QuotaTypeOK, NEW again, NEW keys, EndCheck(again, keys)
    PROVE  (check' = NoCheck \/ check' \in Check) /\ recheck' \in BOOLEAN
BY EndCheckFacts, NewCheckFacts

-----------------------------------------------------------------------------
LEMMA QuotaInitInv == QuotaInit => QuotaInv
<1> SUFFICES ASSUME QuotaInit PROVE QuotaInv
  OBVIOUS
<1>1. QuietInv
  BY QuietInitInv DEF QuotaInit
<1>2. QuotaTypeOK
  <2>1. usage \in [Roles -> Nat]
    BY QuotaAssumption DEF QuotaInit
  <2>2. month = 1 /\ spent \subseteq Roles \X Nat
    BY DEF QuotaInit, Key
  <2>3. /\ activeRole \in Roles
        /\ pushes = {} /\ check = NoCheck /\ recheck = FALSE
        /\ sent = 0 /\ switches = 0 /\ unseen = {} /\ shifted = FALSE
    BY QuotaAssumption DEF QuotaInit
  <2>4. UNION {warned, exhausted, told, unheard, spent} \subseteq Roles \X Nat
    <3>1. warned = {} /\ exhausted = {} /\ told = {} /\ unheard = {}
      BY DEF QuotaInit
    <3> QED BY <2>2, <3>1
  <2>5. QuietTypeOK
    BY <1>1 DEF QuietInv
  <2> QED BY <2>1, <2>2, <2>3, <2>4, <2>5 DEF QuotaTypeOK
<1>3. UnseenIsDue /\ OneWarning /\ ToldIsWarned /\ NoPushGoesUnchecked
  BY DEF QuotaInit, UnseenIsDue, OneWarning, ToldIsWarned, NoPushGoesUnchecked, NoCheck
<1> QED BY <1>1, <1>2, <1>3 DEF QuotaInv, QuotaTypes

(* Every step is one of quiet mode, or leaves it alone.                    *)
LEMMA QuotaQuietStep == [QuotaNext]_vars => QuietStep
<1> SUFFICES ASSUME [QuotaNext]_vars PROVE QuietStep
  OBVIOUS
<1>1. CASE RestBegins
  BY <1>1 DEF RestBegins, QuietStep
<1>2. CASE RestEnds
  BY <1>2 DEF RestEnds, QuietStep
<1>3. CASE LineIsCalled
  BY <1>3 DEF LineIsCalled, LineDecides, PushSucceeds, PushFails, WarningSucceeds, WarningFails,
              LineReadsQuota, CheckSees, CheckFails, PushWarning, QuietStep
<1>4. CASE Push \/ ReportAsks \/ LineReadsForReport \/ ReportSees \/ MonthTurns
            \/ \E role \in Roles : SwitchRole(role)
  BY <1>4 DEF Push, ReportAsks, LineReadsForReport, ReportSees, MonthTurns, SwitchRole, QuietStep
<1>5. CASE UNCHANGED vars
  BY <1>5 DEF vars, QuietStep
<1> QED BY <1>1, <1>2, <1>3, <1>4, <1>5 DEF QuotaNext

-----------------------------------------------------------------------------
(* Every step keeps the types.  The quiet variables are left to            *)
(* QuotaQuietStep; here each action gives the rest.                        *)
OwnTypeOK ==
    /\ activeRole \in Roles /\ month \in Nat
    /\ usage \in [Roles -> Nat]
    /\ pushes \subseteq PushCall
    /\ check = NoCheck \/ check \in Check
    /\ recheck \in BOOLEAN
    /\ warned \subseteq Roles \X Nat /\ exhausted \subseteq Roles \X Nat
    /\ told \subseteq Roles \X Nat /\ unheard \subseteq Roles \X Nat /\ spent \subseteq Roles \X Nat
    /\ sent \in Nat /\ switches \in Nat
    /\ unseen \subseteq Roles
    /\ shifted \in BOOLEAN

(* A report's own variable has no type to keep, but its answer becomes a   *)
(* mark on the active bot only.                                            *)
LEMMA OwnTypes == QuotaTypeOK <=> QuietTypeOK /\ OwnTypeOK
BY DEF QuotaTypeOK, OwnTypeOK

LEMMA NewPushType ==
    ASSUME OwnTypeOK, NEW id \in Nat, NEW warning \in BOOLEAN, NewPush(id, warning)
    PROVE  pushes' \subseteq PushCall
<1>1. activeRole \in Roles /\ "none" \in Answers /\ pushes \subseteq PushCall
  BY DEF OwnTypeOK, Answers
<1>2. [id |-> id, role |-> activeRole, warning |-> warning, answer |-> "none"] \in PushCall
  BY <1>1 DEF PushCall
<1> QED BY <1>1, <1>2 DEF NewPush

LEMMA MarkRefusedType ==
    ASSUME OwnTypeOK, NEW p \in pushes, MarkRefused(p) \/ UNCHANGED exhausted
    PROVE  exhausted' \subseteq Roles \X Nat
<1>1. p.role \in Roles /\ month \in Nat /\ exhausted \subseteq Roles \X Nat
  BY DEF OwnTypeOK, PushCall
<1>2. Key(p.role) \in Roles \X Nat
  BY <1>1 DEF Key
<1> QED BY <1>1, <1>2 DEF MarkRefused

(* The check that a warning belongs to is one of a bot and a month.        *)
LEMMA WarnedKeyType ==
    ASSUME QuotaTypeOK, check.stage \in {"asking", "read", "picking", "warning"}
    PROVE  WarnedKey \in Roles \X Nat
BY StageFacts DEF WarnedKey, Check

LEMMA LineDecidesType ==
    ASSUME QuotaTypeOK, OneWarning, NEW p \in pushes, LineDecides(p)
    PROVE  OwnTypeOK'
<1>1. PICK a \in Answers \ {"none"} :
        /\ pushes' = (pushes \ {p}) \cup {[p EXCEPT !.answer = a]}
        /\ usage' = IF a = "accepted" THEN [usage EXCEPT ![p.role] = @ + 1] ELSE usage
        /\ spent' = IF usage'[p.role] >= QuotaLimit THEN spent \cup {Key(p.role)} ELSE spent
        /\ told' = IF a = "accepted" /\ p.warning THEN told \cup {WarnedKey} ELSE told
  BY DEF LineDecides
<1>2. OwnTypeOK /\ p \in PushCall /\ p.role \in Roles
  BY OwnTypes DEF OwnTypeOK, PushCall
<1>3. [p EXCEPT !.answer = a] \in PushCall
  BY <1>2 DEF PushCall
<1>4. usage' \in [Roles -> Nat]
  BY <1>1, <1>2 DEF OwnTypeOK
<1>5. spent' \subseteq Roles \X Nat
  BY <1>1, <1>2 DEF OwnTypeOK, Key
<1>6. pushes' \subseteq PushCall
  BY <1>1, <1>2, <1>3 DEF OwnTypeOK
<1>7. told' \subseteq Roles \X Nat
  <2>1. p.warning => WarnedKey \in Roles \X Nat
    BY WarnedKeyType DEF OneWarning
  <2> QED BY <1>1, <1>2, <2>1 DEF OwnTypeOK
<1> QED BY <1>2, <1>4, <1>5, <1>6, <1>7 DEF OwnTypeOK, LineDecides

(* The steps of a check.                                                   *)
LEMMA CheckTypes ==
    ASSUME QuotaTypeOK, LineReadsQuota \/ CheckSees \/ CheckFails \/ PushWarning
    PROVE  OwnTypeOK'
<1> USE DEF Unseen
<1>1. OwnTypeOK /\ check \in Check /\ check # NoCheck
  BY OwnTypes, StageFacts DEF LineReadsQuota, CheckSees, CheckFails, PushWarning
<1>2. check.role \in Roles /\ check.month \in Nat /\ check.used \in Nat
  BY <1>1 DEF Check
<1>3. CASE LineReadsQuota
  <2>1. usage[check.role] \in Nat
    BY <1>1, <1>2 DEF OwnTypeOK
  <2>2. check' \in Check
    BY <1>1, <1>3, <2>1 DEF LineReadsQuota, Check
  <2> QED BY <1>1, <1>3, <2>2 DEF OwnTypeOK, LineReadsQuota
<1>4. CASE CheckSees
  <2>1. exhausted' \subseteq Roles \X Nat
    BY <1>1, <1>2, <1>4 DEF OwnTypeOK, CheckSees, Key
  <2>2. warned' \subseteq Roles \X Nat
    BY <1>1, <1>2, <1>4 DEF OwnTypeOK, CheckSees
  <2>3. (check' = NoCheck \/ check' \in Check) /\ recheck' \in BOOLEAN
    <3>1. CASE check.used < WarnAt
      BY <1>4, <3>1, EndCheckType DEF CheckSees
    <3>2. CASE ~(check.used < WarnAt)
      BY <1>1, <1>4, <3>2 DEF CheckSees, Check, OwnTypeOK
    <3> QED BY <3>1, <3>2
  <2> QED BY <1>1, <1>4, <2>1, <2>2, <2>3 DEF OwnTypeOK, CheckSees
<1>5. CASE CheckFails
  <2>1. (check' = NoCheck \/ check' \in Check) /\ recheck' \in BOOLEAN
    BY <1>5, EndCheckType DEF CheckFails
  <2> QED BY <1>1, <1>5, <2>1 DEF OwnTypeOK, CheckFails
<1>6. CASE PushWarning
  <2>1. check' \in Check
    BY <1>1, <1>6 DEF PushWarning, Check
  <2>2. pushes' \subseteq PushCall
    BY <1>1, <1>6, NewPushType DEF PushWarning
  <2> QED BY <1>1, <1>6, <2>1, <2>2 DEF OwnTypeOK, PushWarning
<1> QED BY <1>3, <1>4, <1>5, <1>6

(* The answers to pushes.                                                  *)
LEMMA AnswerTypes ==
    ASSUME QuotaTypeOK, OneWarning, NEW p \in pushes,
           PushSucceeds(p) \/ PushFails(p) \/ WarningSucceeds(p) \/ WarningFails(p)
    PROVE  OwnTypeOK'
<1> USE DEF Unseen
<1>1. OwnTypeOK
  BY OwnTypes
<1>2. CASE PushSucceeds(p)
  <2>1. (check' = NoCheck \/ check' \in Check) /\ recheck' \in BOOLEAN
    BY <1>1, <1>2, NewCheckFacts
    DEF PushSucceeds, Then, CheckAfterPush, RecheckAfterPush, OwnTypeOK, NeedsNoCheck
  <2>2. unseen' \subseteq Roles
    BY <1>1, <1>2 DEF OwnTypeOK, PushSucceeds
  <2> QED BY <1>1, <1>2, <2>1, <2>2 DEF OwnTypeOK, PushSucceeds
<1>3. CASE PushFails(p)
  <2>1. exhausted' \subseteq Roles \X Nat
    BY <1>1, <1>3, MarkRefusedType DEF PushFails
  <2> QED BY <1>1, <1>3, <2>1 DEF OwnTypeOK, PushFails
<1>4. CASE WarningSucceeds(p)
  <2>1. (check' = NoCheck \/ check' \in Check) /\ recheck' \in BOOLEAN
    BY <1>4, EndCheckType DEF WarningSucceeds
  <2> QED BY <1>1, <1>4, <2>1 DEF OwnTypeOK, WarningSucceeds
<1>5. CASE WarningFails(p)
  <2>1. (check' = NoCheck \/ check' \in Check) /\ recheck' \in BOOLEAN
    BY <1>5, EndCheckType DEF WarningFails
  <2>2. exhausted' \subseteq Roles \X Nat
    BY <1>1, <1>5, MarkRefusedType DEF WarningFails
  <2>3. unheard' \subseteq Roles \X Nat
    BY <1>1, <1>5, WarnedKeyType DEF OwnTypeOK, OneWarning, WarningFails
  <2> QED BY <1>1, <1>5, <2>1, <2>2, <2>3 DEF OwnTypeOK, WarningFails
<1> QED BY <1>2, <1>3, <1>4, <1>5

(* The calls of others, and the steps of the world around.                 *)
LEMMA OtherTypes ==
    ASSUME QuotaTypeOK,
           \/ Push \/ ReportAsks \/ LineReadsForReport \/ ReportSees
           \/ \E role \in Roles : SwitchRole(role)
           \/ MonthTurns \/ RestBegins \/ RestEnds \/ UNCHANGED vars
    PROVE  OwnTypeOK'
<1> USE DEF Unseen
<1>1. OwnTypeOK
  BY OwnTypes
<1>2. CASE Push
  <2>1. sent' \in Nat
    BY <1>1, <1>2 DEF OwnTypeOK, Push
  <2>2. pushes' \subseteq PushCall
    BY <1>1, <1>2, <2>1, NewPushType DEF Push
  <2> QED BY <1>1, <1>2, <2>1, <2>2 DEF OwnTypeOK, Push
<1>3. CASE ReportAsks \/ LineReadsForReport
  BY <1>1, <1>3 DEF OwnTypeOK, ReportAsks, LineReadsForReport
<1>4. CASE ReportSees
  BY <1>1, <1>4 DEF OwnTypeOK, ReportSees, Key
<1>5. CASE \E role \in Roles : SwitchRole(role)
  BY <1>1, <1>5 DEF OwnTypeOK, SwitchRole
<1>6. CASE MonthTurns
  BY <1>1, <1>6 DEF OwnTypeOK, MonthTurns
<1>7. CASE RestBegins \/ RestEnds \/ UNCHANGED vars
  BY <1>1, <1>7 DEF OwnTypeOK, RestBegins, RestEnds, vars, quotaVars
<1> QED BY <1>2, <1>3, <1>4, <1>5, <1>6, <1>7

LEMMA TypesStep == QuotaTypes /\ OneWarning /\ [QuotaNext]_vars => QuotaTypes'
<1> SUFFICES ASSUME QuotaTypes, OneWarning, [QuotaNext]_vars PROVE QuotaTypes'
  OBVIOUS
<1>1. QuietInv'
  BY QuotaQuietStep, QuietStepInv DEF QuotaTypes
<1>2. QuotaTypeOK /\ OwnTypeOK
  BY OwnTypes DEF QuotaTypes
<1>3. OwnTypeOK'
  BY <1>2, LineDecidesType, CheckTypes, AnswerTypes, OtherTypes DEF QuotaNext, LineIsCalled
<1>4. QuotaTypeOK'
  BY <1>1, <1>3 DEF QuotaTypeOK, OwnTypeOK, QuietInv
<1> QED BY <1>1, <1>4 DEF QuotaTypes

-----------------------------------------------------------------------------
(* The bookkeeping.  Steps that touch none of it:                          *)
Bystanders ==
    \/ \E p \in pushes : PushFails(p)
    \/ ReportAsks \/ LineReadsForReport \/ ReportSees
    \/ UNCHANGED vars

LEMMA BystandersInv ==
    ASSUME QuotaInv, Bystanders
    PROVE  (UnseenIsDue /\ OneWarning /\ ToldIsWarned /\ NoPushGoesUnchecked)'
<1>1. /\ UNCHANGED <<quietIndefinite, activeRole, month, check, recheck, warned, unseen, told,
                     unheard>>
      /\ pushes' \subseteq pushes /\ \A p \in pushes : p.warning => p \in pushes'
  BY DEF Bystanders, PushFails, ReportAsks, LineReadsForReport, ReportSees, vars, quotaVars,
         quietVars
<1>2. UnseenIsDue' /\ OneWarning'
  BY <1>1 DEF QuotaInv, UnseenIsDue, OneWarning
<1>3. ToldIsWarned' /\ NoPushGoesUnchecked'
  BY <1>1 DEF QuotaInv, ToldIsWarned, NoPushGoesUnchecked, WarnedKey, Key
<1> QED BY <1>2, <1>3

LEMMA PushInv ==
    ASSUME QuotaInv, Push
    PROVE  (UnseenIsDue /\ OneWarning /\ ToldIsWarned /\ NoPushGoesUnchecked)'
<1>1. /\ UNCHANGED <<quietIndefinite, activeRole, month, check, recheck, warned, unseen, told,
                     unheard>>
      /\ pushes' = pushes \cup {[id |-> sent', role |-> activeRole, warning |-> FALSE,
                                 answer |-> "none"]}
  BY DEF Push, NewPush, quietVars
<1>2. OneWarning'
  BY <1>1 DEF QuotaInv, OneWarning
<1>3. UnseenIsDue' /\ ToldIsWarned' /\ NoPushGoesUnchecked'
  BY <1>1 DEF QuotaInv, UnseenIsDue, ToldIsWarned, NoPushGoesUnchecked, WarnedKey, Key
<1> QED BY <1>2, <1>3

(* LINE takes a warning: it was not taken before, and its key is warned.   *)
LEMMA LineDecidesInv ==
    ASSUME QuotaInv, NEW p \in pushes, LineDecides(p)
    PROVE  (UnseenIsDue /\ OneWarning /\ ToldIsWarned /\ NoPushGoesUnchecked)'
<1>1. UNCHANGED <<quietIndefinite, activeRole, month, check, recheck, warned, unseen, unheard>>
  BY DEF LineDecides, quietVars
<1>2. PICK a \in Answers :
        /\ pushes' = (pushes \ {p}) \cup {[p EXCEPT !.answer = a]}
        /\ told' = IF a = "accepted" /\ p.warning THEN told \cup {WarnedKey} ELSE told
  BY DEF LineDecides
<1>3. p \in PushCall /\ p.answer = "none"
  BY DEF QuotaInv, QuotaTypes, QuotaTypeOK, LineDecides
<1>4. [p EXCEPT !.answer = a].warning = p.warning /\ [p EXCEPT !.answer = a].answer = a
  BY <1>3 DEF PushCall
<1>5. OneWarning'
  BY <1>1, <1>2, <1>4 DEF QuotaInv, OneWarning
<1>6. ToldIsWarned'
  <2>1. CASE a = "accepted" /\ p.warning
    <3>1. check.stage = "warning" /\ WarnedKey \in warned
      BY <2>1 DEF QuotaInv, OneWarning, ToldIsWarned
    <3> QED BY <1>1, <1>2, <1>4, <2>1, <3>1 DEF QuotaInv, ToldIsWarned, WarnedKey
  <2>2. CASE ~(a = "accepted" /\ p.warning)
    <3>1. \A q \in pushes : q.warning /\ q.answer = "accepted" => q \in pushes'
      BY <1>2, <1>3
    <3> QED BY <1>1, <1>2, <2>2, <3>1 DEF QuotaInv, ToldIsWarned, WarnedKey
  <2> QED BY <2>1, <2>2
<1>7. UnseenIsDue' /\ NoPushGoesUnchecked'
  BY <1>1 DEF QuotaInv, UnseenIsDue, NoPushGoesUnchecked, Key
<1> QED BY <1>5, <1>6, <1>7

(* An accepted alert is counted by the check it starts, or by the recheck  *)
(* it asks of the one under way.                                           *)
LEMMA PushSucceedsInv ==
    ASSUME QuotaInv, NEW p \in pushes, PushSucceeds(p)
    PROVE  (UnseenIsDue /\ OneWarning /\ ToldIsWarned /\ NoPushGoesUnchecked)'
<1>1. /\ UNCHANGED <<quietIndefinite, activeRole, month, warned, told, unheard>>
      /\ pushes' \subseteq pushes /\ \A q \in pushes : q.warning => q \in pushes'
      /\ check' = CheckAfterPush(check, warned)
      /\ recheck' = RecheckAfterPush(check, recheck, warned)
      /\ unseen' = IF p.role = activeRole /\ ~quietIndefinite
                   THEN unseen \cup {p.role} ELSE unseen
  BY DEF PushSucceeds, quietVars, Then, Unseen
<1>2. /\ NewCheck # NoCheck /\ NewCheck.stage = "asking" /\ NewCheck.role = activeRole
      /\ <<NewCheck.role, NewCheck.month>> = Key(activeRole)
  BY NewCheckFacts DEF QuotaInv, QuotaTypes
<1>3. \/ check' = check
      \/ check = NoCheck /\ check' = NewCheck /\ Key(activeRole) \notin warned
  BY <1>1 DEF CheckAfterPush, NeedsNoCheck
<1>4. UnseenIsDue'
  BY <1>1 DEF QuotaInv, UnseenIsDue
<1>5. OneWarning'
  BY <1>1, <1>3 DEF QuotaInv, OneWarning, NoCheck
<1>6. ToldIsWarned'
  BY <1>1, <1>2, <1>3 DEF QuotaInv, ToldIsWarned, WarnedKey
<1>7. NoPushGoesUnchecked'
  <2> SUFFICES ASSUME NEW r \in unseen', Key(r)' \notin warned'
               PROVE  (recheck /\ check # NoCheck)' \/ (check.stage = "asking" /\ check.role = r)'
    BY DEF NoPushGoesUnchecked
  <2>1. r = activeRole /\ ~quietIndefinite
    BY <1>1 DEF QuotaInv, UnseenIsDue
  <2>2. ~NeedsNoCheck(warned)
    BY <1>1, <2>1 DEF NeedsNoCheck, Key
  <2> QED BY <1>1, <1>2, <2>1, <2>2 DEF CheckAfterPush, RecheckAfterPush
<1> QED BY <1>4, <1>5, <1>6, <1>7

LEMMA LineReadsQuotaInv ==
    ASSUME QuotaInv, LineReadsQuota
    PROVE  (UnseenIsDue /\ OneWarning /\ ToldIsWarned /\ NoPushGoesUnchecked)'
<1>1. /\ UNCHANGED <<quietIndefinite, activeRole, month, pushes, recheck, warned, told,
                     unheard>>
      /\ check.stage = "asking" /\ unseen' = unseen \ {check.role}
  BY DEF LineReadsQuota, quietVars, Unseen
<1>2. check \in Check /\ check # NoCheck
  BY <1>1, StageFacts DEF QuotaInv, QuotaTypes
<1>3. /\ check'.stage = "read" /\ check'.role = check.role /\ check'.month = check.month
      /\ check' # NoCheck
  BY <1>2 DEF LineReadsQuota, Check, NoCheck
<1>4. UnseenIsDue'
  BY <1>1 DEF QuotaInv, UnseenIsDue
<1>5. OneWarning'
  BY <1>1 DEF QuotaInv, OneWarning
<1>6. ToldIsWarned'
  BY <1>1, <1>2, <1>3 DEF QuotaInv, ToldIsWarned, WarnedKey
<1>7. NoPushGoesUnchecked'
  BY <1>1, <1>3 DEF QuotaInv, NoPushGoesUnchecked, Key
<1> QED BY <1>4, <1>5, <1>6, <1>7

(* A check that ends, with what it leaves in warned: whoever is unseen has *)
(* been warned about or is asked for again.                                *)
LEMMA EndCheckInv ==
    ASSUME QuotaInv, NEW again, EndCheck(again, warned'),
           UNCHANGED <<quietIndefinite, activeRole, month>>,
           unseen' \subseteq unseen,
           again \/ NeedsNoCheck(warned') \/ unseen' = {},
           \A p \in pushes' : ~p.warning,
           (told \ unheard)' \subseteq warned'
    PROVE  (UnseenIsDue /\ OneWarning /\ ToldIsWarned /\ NoPushGoesUnchecked)'
<1>1. /\ \/ check' = NoCheck /\ (again => NeedsNoCheck(warned'))
         \/ check' = NewCheck /\ again /\ ~NeedsNoCheck(warned')
  BY EndCheckFacts
<1>2. /\ NewCheck # NoCheck /\ NewCheck.stage = "asking" /\ NewCheck.role = activeRole
      /\ <<NewCheck.role, NewCheck.month>> = Key(activeRole)
  BY NewCheckFacts DEF QuotaInv, QuotaTypes
<1>3. UnseenIsDue'
  BY DEF QuotaInv, UnseenIsDue
<1>4. OneWarning'
  BY DEF OneWarning
<1>5. ToldIsWarned'
  BY <1>1, <1>2 DEF ToldIsWarned, WarnedKey, NeedsNoCheck, NoCheck
<1>6. NoPushGoesUnchecked'
  <2> SUFFICES ASSUME NEW r \in unseen', Key(r)' \notin warned'
               PROVE  (check.stage = "asking" /\ check.role = r)'
    BY DEF NoPushGoesUnchecked
  <2>1. r = activeRole /\ ~quietIndefinite
    BY DEF QuotaInv, UnseenIsDue
  <2>2. ~NeedsNoCheck(warned')
    BY <2>1 DEF NeedsNoCheck, Key
  <2> QED BY <1>1, <1>2, <2>1, <2>2
<1> QED BY <1>3, <1>4, <1>5, <1>6

LEMMA CheckSeesInv ==
    ASSUME QuotaInv, CheckSees
    PROVE  (UnseenIsDue /\ OneWarning /\ ToldIsWarned /\ NoPushGoesUnchecked)'
<1>1. /\ UNCHANGED <<quietIndefinite, activeRole, month, pushes, unseen, told, unheard>>
      /\ check.stage = "read"
  BY DEF CheckSees, quietVars
<1>2. check \in Check /\ check # NoCheck
  BY <1>1, StageFacts DEF QuotaInv, QuotaTypes
<1>3. \A p \in pushes' : ~p.warning
  BY <1>1 DEF QuotaInv, OneWarning
<1>4. CASE check.used < WarnAt
  <2>1. warned' = warned /\ EndCheck(recheck, warned')
    BY <1>4 DEF CheckSees
  <2>2. CASE recheck \/ unseen' = {}
    BY <1>1, <1>3, <2>1, <2>2, EndCheckInv DEF QuotaInv, ToldIsWarned
  <2>3. CASE ~recheck /\ unseen' # {}
    <3>1. unseen = {activeRole}
      BY <1>1, <2>3 DEF QuotaInv, UnseenIsDue
    <3>2. Key(activeRole) \in warned
      BY <1>1, <2>3, <3>1 DEF QuotaInv, NoPushGoesUnchecked
    <3> QED BY <1>1, <1>3, <2>1, <3>2, EndCheckInv DEF QuotaInv, ToldIsWarned, NeedsNoCheck
  <2> QED BY <2>2, <2>3
<1>5. CASE ~(check.used < WarnAt)
  <2>1. /\ warned' = warned \cup {WarnedKey} /\ recheck' = recheck
        /\ check' = [check EXCEPT !.stage = "picking"]
    BY <1>5 DEF CheckSees, WarnedKey
  <2>2. /\ check'.stage = "picking" /\ check'.role = check.role /\ check'.month = check.month
        /\ check' # NoCheck
    BY <1>2, <2>1 DEF Check, NoCheck
  <2>3. UnseenIsDue' /\ OneWarning'
    BY <1>1, <1>3 DEF QuotaInv, UnseenIsDue, OneWarning
  <2>4. ToldIsWarned'
    BY <1>1, <1>2, <2>1, <2>2 DEF QuotaInv, ToldIsWarned, WarnedKey
  <2>5. NoPushGoesUnchecked'
    BY <1>1, <2>1, <2>2 DEF QuotaInv, NoPushGoesUnchecked, Key
  <2> QED BY <2>3, <2>4, <2>5
<1> QED BY <1>4, <1>5

LEMMA CheckFailsInv ==
    ASSUME QuotaInv, CheckFails
    PROVE  (UnseenIsDue /\ OneWarning /\ ToldIsWarned /\ NoPushGoesUnchecked)'
<1>1. /\ UNCHANGED <<quietIndefinite, activeRole, month, pushes, warned, told, unheard>>
      /\ check.stage # "warning" /\ unseen' = {} /\ EndCheck(recheck, warned')
  BY DEF CheckFails, quietVars, Unseen
<1>2. \A p \in pushes' : ~p.warning
  BY <1>1 DEF QuotaInv, OneWarning
<1> QED BY <1>1, <1>2, EndCheckInv DEF QuotaInv, ToldIsWarned

LEMMA PushWarningInv ==
    ASSUME QuotaInv, PushWarning
    PROVE  (UnseenIsDue /\ OneWarning /\ ToldIsWarned /\ NoPushGoesUnchecked)'
<1>1. /\ UNCHANGED <<quietIndefinite, activeRole, month, recheck, warned, unseen, told,
                     unheard>>
      /\ check.stage = "picking" /\ check' = [check EXCEPT !.stage = "warning"]
      /\ pushes' = pushes \cup {[id |-> 0, role |-> activeRole, warning |-> TRUE,
                                 answer |-> "none"]}
  BY DEF PushWarning, NewPush, quietVars
<1>2. check \in Check /\ check # NoCheck
  BY <1>1, StageFacts DEF QuotaInv, QuotaTypes
<1>3. /\ check'.stage = "warning" /\ check'.role = check.role /\ check'.month = check.month
      /\ check' # NoCheck
  BY <1>1, <1>2 DEF Check, NoCheck
<1>4. \A p \in pushes : ~p.warning
  BY <1>1 DEF QuotaInv, OneWarning
<1>5. UnseenIsDue'
  BY <1>1 DEF QuotaInv, UnseenIsDue
<1>6. OneWarning'
  BY <1>1, <1>3, <1>4 DEF OneWarning
<1>7. ToldIsWarned'
  BY <1>1, <1>2, <1>3 DEF QuotaInv, ToldIsWarned, WarnedKey
<1>8. NoPushGoesUnchecked'
  BY <1>1, <1>3 DEF QuotaInv, NoPushGoesUnchecked, Key
<1> QED BY <1>5, <1>6, <1>7, <1>8

(* The warning on its way is that of the check under way, and no other.    *)
LEMMA WarningFacts ==
    ASSUME QuotaInv, NEW p \in pushes, p.warning
    PROVE  /\ check.stage = "warning" /\ check # NoCheck
           /\ WarnedKey \in warned
           /\ p.answer # "accepted" => WarnedKey \notin told \ unheard
           /\ \A q \in pushes \ {p} : ~q.warning
<1>1. check.stage = "warning"
  BY DEF QuotaInv, OneWarning
<1>2. check # NoCheck
  BY <1>1, StageFacts DEF QuotaInv, QuotaTypes
<1>3. WarnedKey \in warned
  BY <1>1 DEF QuotaInv, ToldIsWarned
<1>4. \A q \in pushes \ {p} : ~q.warning
  BY DEF QuotaInv, OneWarning
<1>5. p.answer # "accepted" => WarnedKey \notin told \ unheard
  BY <1>2, <1>4 DEF QuotaInv, ToldIsWarned
<1> QED BY <1>1, <1>2, <1>3, <1>4, <1>5

LEMMA WarningSucceedsInv ==
    ASSUME QuotaInv, NEW p \in pushes, WarningSucceeds(p)
    PROVE  (UnseenIsDue /\ OneWarning /\ ToldIsWarned /\ NoPushGoesUnchecked)'
<1> DEFINE again == RecheckAfterPush(check, recheck, warned)
<1>1. /\ UNCHANGED <<quietIndefinite, activeRole, month, warned, unseen>>
      /\ p.warning /\ pushes' = pushes \ {p}
      /\ told' = told /\ unheard' = unheard \ {WarnedKey}
      /\ EndCheck(again, warned')
  BY DEF WarningSucceeds, quietVars
<1>2. check # NoCheck /\ (told \ unheard)' \subseteq warned' /\ \A q \in pushes' : ~q.warning
  BY <1>1, WarningFacts DEF QuotaInv, ToldIsWarned
<1>3. again \/ NeedsNoCheck(warned')
  BY <1>1, <1>2 DEF RecheckAfterPush
<1> HIDE DEF again
<1> QED BY <1>1, <1>2, <1>3, EndCheckInv

LEMMA WarningFailsInv ==
    ASSUME QuotaInv, NEW p \in pushes, WarningFails(p)
    PROVE  (UnseenIsDue /\ OneWarning /\ ToldIsWarned /\ NoPushGoesUnchecked)'
<1>1. /\ UNCHANGED <<quietIndefinite, activeRole, month, told>>
      /\ p.warning /\ pushes' = pushes \ {p} /\ warned' = warned \ {WarnedKey}
      /\ unheard' = IF p.answer = "accepted" THEN unheard \cup {WarnedKey} ELSE unheard
      /\ EndCheck(recheck, warned') /\ unseen' = {}
  BY DEF WarningFails, quietVars, Unseen
<1>2. (told \ unheard)' \subseteq warned' /\ \A q \in pushes' : ~q.warning
  BY <1>1, WarningFacts DEF QuotaInv, ToldIsWarned
<1> QED BY <1>1, <1>2, EndCheckInv

(* The world around the bot starts the count of unseen pushes anew.        *)
LEMMA WorldInv ==
    ASSUME QuotaInv,
           (\E role \in Roles : SwitchRole(role)) \/ MonthTurns \/ RestBegins \/ RestEnds
    PROVE  (UnseenIsDue /\ OneWarning /\ ToldIsWarned /\ NoPushGoesUnchecked)'
<1>1. UNCHANGED <<pushes, check, warned, told, unheard>>
  BY DEF SwitchRole, MonthTurns, RestBegins, RestEnds, quotaVars
<1>2. unseen' = {}
  <2>1. CASE RestEnds
    BY <2>1 DEF QuotaInv, UnseenIsDue, RestEnds, quotaVars
  <2>2. CASE ~RestEnds
    BY <2>2 DEF SwitchRole, MonthTurns, RestBegins, Unseen
  <2> QED BY <2>1, <2>2
<1>3. UnseenIsDue' /\ OneWarning'
  BY <1>1, <1>2 DEF QuotaInv, UnseenIsDue, OneWarning
<1>4. ToldIsWarned' /\ NoPushGoesUnchecked'
  BY <1>1, <1>2 DEF QuotaInv, ToldIsWarned, NoPushGoesUnchecked, WarnedKey
<1> QED BY <1>3, <1>4

LEMMA QuotaNextInv == QuotaInv /\ [QuotaNext]_vars => QuotaInv'
<1> SUFFICES ASSUME QuotaInv, [QuotaNext]_vars PROVE QuotaInv'
  OBVIOUS
<1>1. QuotaTypes'
  BY TypesStep DEF QuotaInv
<1>2. (UnseenIsDue /\ OneWarning /\ ToldIsWarned /\ NoPushGoesUnchecked)'
  <2>1. CASE Push \/ \E p \in pushes : LineDecides(p)
    BY <2>1, PushInv, LineDecidesInv
  <2>2. CASE Bystanders
    BY <2>2, BystandersInv
  <2>3. CASE \E p \in pushes : PushSucceeds(p) \/ WarningSucceeds(p) \/ WarningFails(p)
    BY <2>3, PushSucceedsInv, WarningSucceedsInv, WarningFailsInv
  <2>4. CASE LineReadsQuota
    BY <2>4, LineReadsQuotaInv
  <2>5. CASE CheckSees
    BY <2>5, CheckSeesInv
  <2>6. CASE CheckFails
    BY <2>6, CheckFailsInv
  <2>7. CASE PushWarning
    BY <2>7, PushWarningInv
  <2>8. CASE (\E role \in Roles : SwitchRole(role)) \/ MonthTurns \/ RestBegins \/ RestEnds
    BY <2>8, WorldInv
  <2> QED BY <2>1, <2>2, <2>3, <2>4, <2>5, <2>6, <2>7, <2>8
      DEF QuotaNext, LineIsCalled, Bystanders
<1> QED BY <1>1, <1>2 DEF QuotaInv

(* checkAfterPush misses no push, however pushes, checks, warnings,        *)
(* switches, rests and months overlap: quotaWatch.js 118-163.              *)
THEOREM EveryPushIsChecked == QuotaSpec => [](QuotaTypeOK /\ NoPushGoesUnchecked)
<1>1. QuotaInv => QuotaTypeOK /\ NoPushGoesUnchecked
  BY DEF QuotaInv, QuotaTypes
<1> QED BY <1>1, QuotaInitInv, QuotaNextInv, PTL DEF QuotaSpec

(* The group is warned of a bot once a month, counting the warnings that   *)
(* LINE took, but for one whose answer was lost: quotaWatch.js 124-152.    *)
THEOREM NobodyIsWarnedTwice == QuotaSpec => WarnedOnceAMonth
<1>1. QuotaInv /\ [QuotaNext]_vars =>
          [GroupIsWarned => WarnedKey \notin told \ unheard]_vars
  <2> SUFFICES ASSUME QuotaInv, GroupIsWarned
               PROVE  WarnedKey \notin told \ unheard
    OBVIOUS
  <2>1. PICK p \in pushes : p.warning /\ p.answer = "none"
    BY DEF GroupIsWarned
  <2> QED BY <2>1, WarningFacts
<1> QED BY <1>1, QuotaInitInv, QuotaNextInv, PTL DEF QuotaSpec, WarnedOnceAMonth

-----------------------------------------------------------------------------
(* Why only spent bots are marked: unless an answer was overtaken, every   *)
(* refusal for the limit and every reading of a used up quota that is on   *)
(* its way is about a bot that LINE would refuse this month.               *)
Report == [role : Roles, used : Nat, stage : {"asking", "read"}]

MarksInv ==
    /\ report = NoReport \/ report \in Report
    /\ \A r \in Roles : usage[r] >= QuotaLimit => Key(r) \in spent
    /\ ~shifted =>
        /\ exhausted \subseteq spent
        /\ \A p \in pushes : p.answer = "monthly limit" => Key(p.role) \in spent
        /\ check.stage = "read" /\ check.used >= QuotaLimit => Key(check.role) \in spent
        /\ report # NoReport => report.role = activeRole
        /\ report # NoReport /\ report.stage = "read" /\ report.used >= QuotaLimit
             => Key(report.role) \in spent

MarksVars == <<activeRole, month, usage, report, spent, shifted>>

LEMMA LineDecidesMarks ==
    ASSUME QuotaInv, MarksInv, NEW p \in pushes, LineDecides(p)
    PROVE  MarksInv'
<1>1. PICK a \in Answers \ {"none"} :
        /\ (a = "monthly limit") = (usage[p.role] >= QuotaLimit)
        /\ pushes' = (pushes \ {p}) \cup {[p EXCEPT !.answer = a]}
        /\ usage' = IF a = "accepted" THEN [usage EXCEPT ![p.role] = @ + 1] ELSE usage
        /\ spent' = IF usage'[p.role] >= QuotaLimit THEN spent \cup {Key(p.role)} ELSE spent
  BY DEF LineDecides
<1>2. OwnTypeOK /\ p \in PushCall /\ p.role \in Roles
  BY OwnTypes DEF QuotaInv, QuotaTypes, OwnTypeOK, PushCall
<1>3. spent \subseteq spent' /\ month' = month
  BY <1>1 DEF LineDecides
<1>4. ASSUME NEW r \in Roles, usage'[r] >= QuotaLimit PROVE Key(r)' \in spent'
  <2>1. CASE r = p.role
    BY <1>1, <1>3, <1>4, <2>1 DEF Key
  <2>2. CASE r # p.role
    <3>1. usage'[r] = usage[r]
      BY <1>1, <1>2, <2>2 DEF OwnTypeOK
    <3> QED BY <1>3, <1>4, <3>1 DEF MarksInv, Key
  <2> QED BY <2>1, <2>2
<1>5. ASSUME ~shifted, NEW q \in pushes', q.answer = "monthly limit"
      PROVE  Key(q.role)' \in spent'
  <2>1. CASE q \in pushes
    BY <1>3, <1>5, <2>1 DEF MarksInv, Key
  <2>2. CASE q = [p EXCEPT !.answer = a]
    <3>1. q.role = p.role /\ q.answer = a
      BY <1>2, <2>2 DEF PushCall
    <3>2. usage' = usage /\ usage[p.role] >= QuotaLimit
      BY <1>1, <1>5, <3>1
    <3> QED BY <1>1, <1>3, <3>1, <3>2 DEF Key
  <2> QED BY <1>1, <1>5, <2>1, <2>2
<1>6. UNCHANGED <<exhausted, check, report, activeRole, shifted>>
  BY DEF LineDecides
<1> QED BY <1>3, <1>4, <1>5, <1>6 DEF MarksInv, Key

(* What a mark rests on when an answer is handled.                         *)
LEMMA AnswersMark ==
    ASSUME QuotaInv, MarksInv, UNCHANGED MarksVars, pushes' \subseteq pushes,
           ~shifted => exhausted' \subseteq spent,
           check'.stage = "read" => check' = check
    PROVE  MarksInv'
  BY DEF MarksInv, MarksVars, Key

(* A push that is being made has no answer yet.                            *)
LEMMA NewPushUnanswered ==
    ASSUME NEW id, NEW warning, NewPush(id, warning),
           NEW q \in pushes', q.answer = "monthly limit"
    PROVE  q \in pushes
<1>1. CASE q = [id |-> id, role |-> activeRole, warning |-> warning, answer |-> "none"]
  <2>1. q.answer = "none"
    BY <1>1
  <2> QED BY <2>1
<1> QED BY <1>1 DEF NewPush

LEMMA PushesMark ==
    ASSUME QuotaInv, MarksInv, NEW p \in pushes,
           PushSucceeds(p) \/ PushFails(p) \/ WarningSucceeds(p) \/ WarningFails(p)
    PROVE  MarksInv'
<1>1. UNCHANGED MarksVars /\ pushes' \subseteq pushes
  BY DEF PushSucceeds, PushFails, WarningSucceeds, WarningFails, MarksVars, quietVars
<1>2. ASSUME ~shifted PROVE exhausted' \subseteq spent
  <2>1. MarkRefused(p) \/ UNCHANGED exhausted
    BY DEF PushSucceeds, PushFails, WarningSucceeds, WarningFails
  <2>2. exhausted \subseteq spent /\ (p.answer = "monthly limit" => Key(p.role) \in spent)
    BY <1>2 DEF MarksInv
  <2> QED BY <2>1, <2>2 DEF MarkRefused
<1>3. check' \in {check, NewCheck, NoCheck}
  BY EndCheckFacts DEF PushSucceeds, PushFails, WarningSucceeds, WarningFails, Then,
     CheckAfterPush
<1>4. check'.stage = "read" => check' = check
  BY <1>3 DEF NewCheck, NoCheck
<1> QED BY <1>1, <1>2, <1>4, AnswersMark

LEMMA ChecksMark ==
    ASSUME QuotaInv, MarksInv, LineReadsQuota \/ CheckSees \/ CheckFails \/ PushWarning
    PROVE  MarksInv'
<1>1. UNCHANGED MarksVars
  BY DEF LineReadsQuota, CheckSees, CheckFails, PushWarning, MarksVars
<1>2. QuotaTypeOK /\ check \in Check /\ check.role \in Roles
  BY StageFacts DEF QuotaInv, QuotaTypes, Check, LineReadsQuota, CheckSees, CheckFails, PushWarning
<1>3. CASE LineReadsQuota
  <2>1. check'.used = usage[check.role] /\ check'.role = check.role
    BY <1>2, <1>3 DEF LineReadsQuota, Check
  <2>2. UNCHANGED <<exhausted, pushes>>
    BY <1>3 DEF LineReadsQuota
  <2> QED BY <1>1, <1>2, <2>1, <2>2 DEF MarksInv, MarksVars, Key
<1>4. CASE CheckSees \/ CheckFails
  <2>1. pushes' = pushes
    BY <1>4 DEF CheckSees, CheckFails
  <2>2. ASSUME ~shifted PROVE exhausted' \subseteq spent
    BY <1>4, <2>2 DEF CheckSees, CheckFails, MarksInv
  <2>3. check' \in {NewCheck, NoCheck} \/ check'.stage = "picking"
    BY <1>2, <1>4, EndCheckFacts DEF CheckSees, CheckFails, Check
  <2>4. check'.stage # "read"
    BY <2>3 DEF NewCheck, NoCheck
  <2> QED BY <1>1, <2>1, <2>2, <2>4, AnswersMark
<1>5. CASE PushWarning
  <2>1. check'.stage = "warning"
    BY <1>2, <1>5 DEF PushWarning, Check
  <2>2. ASSUME NEW q \in pushes', q.answer = "monthly limit" PROVE q \in pushes
    BY <1>5, <2>2, NewPushUnanswered DEF PushWarning
  <2>3. exhausted' = exhausted
    BY <1>5 DEF PushWarning
  <2> QED BY <1>1, <2>1, <2>2, <2>3 DEF MarksInv, MarksVars, Key
<1> QED BY <1>3, <1>4, <1>5

LEMMA ReportsMark ==
    ASSUME QuotaInv, MarksInv, ReportAsks \/ LineReadsForReport \/ ReportSees
    PROVE  MarksInv'
<1>1. UNCHANGED <<activeRole, month, usage, spent, shifted, pushes, check>>
  BY DEF ReportAsks, LineReadsForReport, ReportSees
<1>2. CASE ReportAsks
  <2>1. report' = [role |-> activeRole, used |-> 0, stage |-> "asking"] /\ exhausted' = exhausted
    BY <1>2 DEF ReportAsks
  <2>2. report' \in Report /\ report'.role = activeRole /\ report'.stage # "read"
    BY <2>1 DEF Report, QuotaInv, QuotaTypes, QuotaTypeOK
  <2> QED BY <1>1, <2>1, <2>2 DEF MarksInv, Key
<1>3. CASE LineReadsForReport
  <2>1. report \in Report /\ usage[report.role] \in Nat
    <3>1. report.stage = "asking" /\ usage \in [Roles -> Nat]
      BY <1>3 DEF LineReadsForReport, QuotaInv, QuotaTypes, QuotaTypeOK
    <3>2. report # NoReport
      BY <3>1 DEF NoReport
    <3>3. report \in Report
      BY <3>2 DEF MarksInv
    <3> QED BY <3>1, <3>3 DEF Report
  <2>2. /\ report' \in Report
        /\ report'.role = report.role /\ report'.used = usage[report.role]
    BY <1>3, <2>1 DEF LineReadsForReport, Report
  <2>3. report # NoReport /\ report.role \in Roles /\ exhausted' = exhausted
    BY <1>3, <2>1 DEF LineReadsForReport, NoReport, Report
  <2> QED BY <1>1, <2>2, <2>3 DEF MarksInv, Key
<1>4. CASE ReportSees
  <2>1. report # NoReport /\ report' = NoReport
    BY <1>4 DEF ReportSees
  <2>2. ASSUME ~shifted PROVE exhausted' \subseteq spent
    <3>1. CASE report.stage = "read" /\ report.used >= QuotaLimit
      <4>1. Key(activeRole) \in spent
        BY <2>1, <2>2, <3>1 DEF MarksInv
      <4> QED BY <1>4, <2>2, <3>1, <4>1 DEF ReportSees, MarksInv
    <3>2. CASE ~(report.stage = "read" /\ report.used >= QuotaLimit)
      BY <1>4, <2>2, <3>2 DEF ReportSees, MarksInv
    <3> QED BY <3>1, <3>2
  <2> QED BY <1>1, <2>1, <2>2 DEF MarksInv, Key
<1> QED BY <1>2, <1>3, <1>4

LEMMA MonthMarks ==
    ASSUME QuotaLimit > 0, QuotaInv, MarksInv, MonthTurns
    PROVE  MarksInv'
<1>1. \A r \in Roles : usage'[r] = 0
  BY DEF MonthTurns
<1>2. ~shifted' => ~shifted /\ report = NoReport /\ check = NoCheck /\ pushes = {}
  BY DEF MonthTurns
<1>3. UNCHANGED <<activeRole, pushes, check, report, exhausted, spent>>
  BY DEF MonthTurns
<1>4. NoCheck.stage # "read"
  BY DEF NoCheck
<1>5. ASSUME NEW r \in Roles PROVE ~(usage'[r] >= QuotaLimit)
  BY <1>1
<1>6. ASSUME ~shifted'
      PROVE  exhausted \subseteq spent /\ report' = NoReport /\ check' = NoCheck /\ pushes' = {}
  BY <1>2, <1>3, <1>6 DEF MarksInv
<1> QED BY <1>3, <1>4, <1>5, <1>6 DEF MarksInv

LEMMA MarksNext == QuotaLimit > 0 /\ QuotaInv /\ MarksInv /\ [QuotaNext]_vars => MarksInv'
<1> SUFFICES ASSUME QuotaLimit > 0, QuotaInv, MarksInv, [QuotaNext]_vars PROVE MarksInv'
  OBVIOUS
<1>1. CASE Push
  <2>1. ASSUME NEW q \in pushes', q.answer = "monthly limit" PROVE q \in pushes
    BY <1>1, <2>1, NewPushUnanswered DEF Push
  <2> QED BY <1>1, <2>1 DEF Push, MarksInv, Key
<1>2. CASE LineIsCalled
  BY <1>2, LineDecidesMarks, PushesMark, ChecksMark DEF LineIsCalled
<1>3. CASE ReportAsks \/ LineReadsForReport \/ ReportSees
  BY <1>3, ReportsMark
<1>4. ASSUME NEW role \in Roles, SwitchRole(role) PROVE MarksInv'
  BY <1>4 DEF SwitchRole, MarksInv, Key
<1>5. CASE MonthTurns
  BY <1>5, MonthMarks
<1>6. CASE RestBegins \/ RestEnds \/ UNCHANGED vars
  BY <1>6 DEF RestBegins, RestEnds, vars, quotaVars, MarksInv, Key
<1> QED BY <1>1, <1>2, <1>3, <1>4, <1>5, <1>6 DEF QuotaNext

(* No bot that could still push is marked as spent, for any limit that     *)
(* lets a bot push at all: quotaWatch.js 86-99 with lineMessaging.js 52-58 *)
(* and statusReport.js 40-49.                                              *)
THEOREM MarksAreDeserved ==
    QuotaLimit > 0 /\ QuotaSpec => []OnlySpentBotsAreMarkedInTime
<1> DEFINE Deserved == QuotaLimit > 0 /\ QuotaInv /\ MarksInv
<1>1. QuotaLimit > 0 /\ QuotaInit => Deserved
  BY QuotaInitInv DEF QuotaInit, MarksInv, NoCheck, NoReport
<1>2. Deserved /\ [QuotaNext]_vars => Deserved'
  BY QuotaNextInv, MarksNext
<1>3. Deserved => OnlySpentBotsAreMarkedInTime
  BY DEF MarksInv, OnlySpentBotsAreMarkedInTime
<1> QED BY <1>1, <1>2, <1>3, PTL DEF QuotaSpec

=============================================================================
