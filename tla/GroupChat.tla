------------------------------ MODULE GroupChat ------------------------------
(***************************************************************************)
(* The bot's side of the group chat: webhook/server.js, which accepts an   *)
(* event by the secret of the bot that delivers it, interactionRouter.js,  *)
(* which handles it, botIdentity.js, which knows the bots, the active one  *)
(* among them, and replyMessage of lineMessaging.js.                       *)
(*                                                                         *)
(* One bot at a time is in the group, where people put it; events come     *)
(* from that bot.  A handler waits for the request's body, for Tuya and    *)
(* for LINE, and others run meanwhile.  LINE accepts a reply only from the *)
(* bot that delivered the event.  An event is a question or a command that *)
(* Tuya has to be asked for, a bot joining, or /switch to a bot.           *)
(***************************************************************************)
EXTENDS TuyaToken

CONSTANTS
    Roles,       \* SWITCHABLE_ROLES
    Configured,  \* those with a token and a secret
    FirstRole,   \* LINE_ACTIVE_ROLE
    DiskFails,   \* whether writing the state file may fail
    MaxSwaps,    \* bound: number of times people replace the bot in the group
    MaxBoots     \* bound: number of restarts

ASSUME ChatAssumption ==
    /\ Configured \subseteq Roles /\ FirstRole \in Configured
    /\ None \notin Roles /\ {"query", "join"} \cap Roles = {}
    /\ DiskFails \in BOOLEAN
    /\ MaxSwaps \in Nat /\ MaxBoots \in Nat

VARIABLES
    activeRole,
    learnedGroupIds,  \* the group as each bot knows it, named by the bot it was learnt from
    stateFile,        \* what botIdentity last wrote
    chats,            \* the handler of each event, which calls Tuya by the same name
    inGroup,          \* the bot that is in the group
    swaps, boots,     \* number of swaps and of restarts so far
    fileFailed,       \* history: whether writing the file last failed
    announced,        \* history: the bot that the group last read it was switched to
    muddled           \* history: whether a switch was cut short, or two overlapped

chatVars == <<activeRole, learnedGroupIds, stateFile, chats, inGroup, swaps, boots,
              fileFailed, announced, muddled>>
vars == <<tokenVars, chatVars>>

Kinds == {"query", "join"} \cup Roles

(* An event that is not verified yet, and the handler of one that is: with *)
(* the bot that replies, if one does, and whether the active bot changed   *)
(* since.                                                                  *)
Free == [stage |-> "free"]
Arriving == [stage : {"arriving"}, from : Configured, kind : Kinds]
Handler == [stage : {"asking", "answering", "replying", "confirming", "announcing"},
            from : Configured, kind : Kinds, role : Roles, overtaken : BOOLEAN]

Replying == {"answering", "replying", "confirming", "announcing"}
Switching == {h \in Calls : chats[h].stage \in {"confirming", "announcing"}}

ChatInit ==
    /\ TokenInit
    /\ activeRole = FirstRole
    /\ learnedGroupIds = [r \in Roles |-> None]
    /\ stateFile = [activeRole |-> FirstRole, groupIds |-> learnedGroupIds]
    /\ chats = [h \in Calls |-> Free]
    /\ inGroup = FirstRole
    /\ swaps = 0 /\ boots = 0
    /\ fileFailed = FALSE
    /\ announced = FirstRole
    /\ muddled = FALSE

PersistNothing(role, groupIds) == UNCHANGED <<stateFile, fileFailed>>

(* _persist, best effort: once for what was learnt and once for a switch.  *)
Persist(role, groupIds) ==
    \/ stateFile' = [activeRole |-> role, groupIds |-> groupIds] /\ fileFailed' = FALSE
    \/ DiskFails /\ UNCHANGED stateFile /\ fileFailed' = TRUE
    \/ /\ DiskFails /\ role # activeRole /\ groupIds # learnedGroupIds
       /\ stateFile' = [activeRole |-> activeRole, groupIds |-> groupIds] /\ fileFailed' = TRUE

LearnForActive(role, id) == [learnedGroupIds EXCEPT ![activeRole] = id]

(* learnGroupId, and setActiveRole unless role is active already.          *)
Learn(role, id) == [learnedGroupIds EXCEPT ![role] = id]

Remember(role, groupIds) ==
    /\ activeRole' = role
    /\ learnedGroupIds' = groupIds
    /\ IF role = activeRole /\ groupIds = learnedGroupIds
       THEN UNCHANGED <<stateFile, fileFailed>>
       ELSE Persist(role, groupIds)

(* Handler h goes on as given; a change of the active bot overtakes all.   *)
Continue(h, chat) ==
    chats' = [i \in Calls |->
                 IF i = h THEN chat
                 ELSE IF chats[i].stage \in {"free", "arriving"} \/ activeRole' = activeRole
                 THEN chats[i]
                 ELSE [chats[i] EXCEPT !.overtaken = TRUE]]

(* The handler of h calls replyMessage in the given stage.                 *)
Reply(h, stage, role) ==
    Continue(h, [stage |-> stage, from |-> chats[h].from, kind |-> chats[h].kind,
                 role |-> role,
                 overtaken |-> chats[h].stage # "arriving" /\ chats[h].overtaken])

Deliver(h, kind) ==
    /\ chats[h] = Free
    /\ chats' = [chats EXCEPT ![h] = [stage |-> "arriving", from |-> inGroup, kind |-> kind]]
    /\ UNCHANGED <<tokenVars, activeRole, learnedGroupIds, stateFile, inGroup, swaps, boots,
                   fileFailed, announced, muddled>>

(* _handleEvent of an event delivered by the active bot.                   *)
HandleEvent(h) ==
    LET kind == chats[h].kind
    IN  /\ Remember(activeRole, Learn(activeRole, chats[h].from))
        /\ IF kind = "query" THEN Ask(h) ELSE UNCHANGED tokenVars
        /\ CASE kind = "query" -> Reply(h, "asking", activeRole)
             [] kind = "join" -> Continue(h, Free)
             [] kind \in Configured \ {activeRole} -> Reply(h, "confirming", activeRole)
             [] OTHER -> Reply(h, "replying", activeRole)
        /\ muddled' = (muddled \/ (kind \in Configured \ {activeRole} /\ Switching # {}))

(* handleInactiveRoleEvents, of one delivered by another.                  *)
HandleInactiveRoleEvent(h) ==
    LET from == chats[h].from
        kind == chats[h].kind
    IN  /\ Remember(IF kind = from THEN from ELSE activeRole, Learn(from, from))
        /\ CASE kind = from -> Reply(h, "announcing", from)
             [] kind = "join" -> Reply(h, "replying", from)
             [] OTHER -> Continue(h, Free)
        /\ muddled' = (muddled \/ (kind = from /\ Switching # {}))
        /\ UNCHANGED tokenVars

VerifyAnyConfigured(h) ==
    /\ chats[h].stage = "arriving"
    /\ HandleEvent(h)
    /\ UNCHANGED <<inGroup, swaps, boots, announced>>

VerifyActiveOnly(h) ==
    /\ chats[h].stage = "arriving"
    /\ IF chats[h].from = activeRole THEN HandleEvent(h)
       ELSE /\ chats' = [chats EXCEPT ![h] = Free]
            /\ UNCHANGED <<tokenVars, activeRole, learnedGroupIds, stateFile, fileFailed, muddled>>
    /\ UNCHANGED <<inGroup, swaps, boots, announced>>

(* verifySignature once the body is read, and the route that it chooses.   *)
Verify(h) ==
    /\ chats[h].stage = "arriving"
    /\ IF chats[h].from = activeRole THEN HandleEvent(h) ELSE HandleInactiveRoleEvent(h)
    /\ UNCHANGED <<inGroup, swaps, boots, announced>>

(* Tuya's answer, or the apology that there is none.                       *)
TuyaEnds(h) ==
    /\ calls[h].stage \in {"answered", "failed"}
    /\ calls' = [calls EXCEPT ![h] = Idle]
    /\ Remember(activeRole, learnedGroupIds)
    /\ Reply(h, IF calls[h].stage = "answered" THEN "answering" ELSE "replying", activeRole)
    /\ UNCHANGED <<now, cachedToken, pendingMint, mints, inGroup, swaps, boots, announced,
                   muddled>>

ReplySucceeds(h) ==
    LET chat == chats[h]
        target == IF chat.stage = "confirming" THEN chat.kind ELSE activeRole
    IN  /\ chat.stage \in Replying
        /\ chat.role = chat.from
        /\ Remember(target, learnedGroupIds)
        /\ Continue(h, Free)
        /\ announced' = IF h \in Switching THEN chat.kind ELSE announced
        /\ UNCHANGED <<tokenVars, inGroup, swaps, boots, muddled>>

(* LINE refuses the reply, or accepts it and its answer is lost.           *)
ReplyFails(h) ==
    /\ chats[h].stage \in Replying
    /\ Remember(activeRole, learnedGroupIds)
    /\ IF chats[h].stage = "answering"
       THEN Reply(h, "replying", activeRole)
       ELSE Continue(h, Free)
    /\ muddled' = (muddled \/ h \in Switching)
    /\ UNCHANGED <<tokenVars, inGroup, swaps, boots, announced>>

(* People replace the bot in the group by another one.                     *)
Swap ==
    /\ swaps < MaxSwaps
    /\ swaps' = swaps + 1
    /\ inGroup' \in Configured \ {inGroup}
    /\ UNCHANGED <<tokenVars, activeRole, learnedGroupIds, stateFile, chats, boots, fileFailed,
                   announced, muddled>>

(* The process dies and boots; botIdentity loads its file.                 *)
Reboot ==
    /\ boots < MaxBoots
    /\ boots' = boots + 1
    /\ ForgetToken
    /\ chats' = [h \in Calls |-> Free]
    /\ activeRole' = stateFile.activeRole
    /\ learnedGroupIds' = stateFile.groupIds
    /\ fileFailed' = FALSE
    /\ muddled' = (muddled \/ fileFailed \/ Switching # {})
    /\ UNCHANGED <<stateFile, inGroup, swaps, announced>>

HandlerStep(h) == Verify(h) \/ TuyaEnds(h) \/ ReplySucceeds(h) \/ ReplyFails(h)

(* The group tells the bot that is there to be the active one.             *)
Insist == activeRole # inGroup /\ \E h \in Calls : Deliver(h, inGroup)

ChatNext ==
    \/ \E h \in Calls : (\E kind \in Kinds : Deliver(h, kind)) \/ HandlerStep(h)
    \/ (MintEnds \/ (\E h \in Calls : CallEnds(h)) \/ TokenTick) /\ UNCHANGED chatVars
    \/ Swap
    \/ Reboot

(* Every request ends, with an answer or an error; and the group insists.  *)
ChatFairness ==
    /\ WF_vars(MintEnds /\ UNCHANGED chatVars)
    /\ \A h \in Calls : WF_vars(CallEnds(h) /\ UNCHANGED chatVars)
    /\ \A h \in Calls : WF_vars(HandlerStep(h))
    /\ SF_vars(Insist)

ChatSpec == ChatInit /\ [][ChatNext]_vars /\ ChatFairness

-----------------------------------------------------------------------------
(* Every variable keeps its type, and only an event that waits for Tuya    *)
(* has a call under way.                                                   *)
ChatTypeOK ==
    /\ activeRole \in Configured
    /\ learnedGroupIds \in [Roles -> Roles \cup {None}]
    /\ stateFile \in [activeRole : Configured, groupIds : [Roles -> Roles \cup {None}]]
    /\ chats \in [Calls -> {Free} \cup Arriving \cup Handler]
    /\ \A h \in Calls : calls[h] # Idle => chats[h].stage = "asking"
    /\ inGroup \in Configured
    /\ swaps \in Nat /\ boots \in Nat
    /\ fileFailed \in BOOLEAN
    /\ announced \in Configured
    /\ muddled \in BOOLEAN

(* A reply goes out from the bot that delivered the event, the only one it *)
(* reaches the group from, unless another bot was made the active one      *)
(* after the event was accepted.                                           *)
RepliesReachTheirChannel ==
    \A h \in Calls : chats[h].stage \in Replying => chats[h].role = chats[h].from \/ chats[h].overtaken

(* A bot pushes to no group that another bot is in.                        *)
GroupIdsAreOwn == \A r \in Roles : learnedGroupIds[r] \in {r, None}

(* The active bot is the one the group last read it was switched to, also  *)
(* after a restart, but for switches under way and switches that overlap,  *)
(* or whose reply or file fails.                                           *)
SwitchIsKept == muddled \/ Switching # {} \/ activeRole = announced

(* Whatever becomes of switches and whichever bot the people put in the    *)
(* group, telling that bot to be the active one works: nobody is locked    *)
(* out for having removed the active bot too early.                        *)
ThereIsAWayOut == []<>(activeRole = inGroup)

=============================================================================
