---------------------------- MODULE GroupChatProofs ----------------------------
(***************************************************************************)
(* First what the operations of TuyaToken preserve, whoever composes them: *)
(* one mint at a time, which everybody who waits waits for, and tokens     *)
(* that last longer than the requests they are sent with.  Then the group  *)
(* chat, which composes them: it keeps its promises for any bots, any      *)
(* number of events under way, swaps and restarts, with or without a       *)
(* failing disk.                                                           *)
(***************************************************************************)
EXTENDS GroupChat, FiniteSetTheorems, TLAPS

(* pendingMint names the one mint under way; a request is never older than *)
(* Latency; expiresAt is at most Latency too late; what was sent stays     *)
(* valid for as long as it may take.                                       *)
OneMint ==
    /\ \A m \in mints : m.by = pendingMint /\ m.askedAt <= now /\ now <= m.askedAt + Latency
    /\ \A m, n \in mints : m = n
    /\ \A c \in Calls : calls[c].stage = "waiting" => calls[c].mint = pendingMint
    /\ mints = {} => pendingMint = None

Fresh(call) ==
    /\ call.at <= now /\ now <= call.at + Latency
    /\ call.at + Latency < call.validUntil

TokensLast ==
    /\ cachedToken.expiresAt <= cachedToken.validUntil + Latency
    /\ \A c \in Calls : calls[c].stage = "sent" => Fresh(calls[c])

TokenInv == TokenTypeOK /\ OneMint /\ TokensLast

(* The invariant contains what the runs check.                             *)
LEMMA TokenInvImplies == TokenInv => MintIsShared /\ TokenOutlivesItsCalls
<1> SUFFICES ASSUME TokenInv PROVE MintIsShared /\ TokenOutlivesItsCalls
  OBVIOUS
<1> USE TokenAssumption DEF TokenInv, TokenTypeOK, OneMint, TokensLast
<1>1. Cardinality(mints) <= 1
  <2>1. CASE mints = {}
    BY <2>1, FS_EmptySet
  <2>2. CASE mints # {}
    <3>1. PICK m : m \in mints
      BY <2>2
    <3>2. mints = {m}
      BY <3>1
    <3>3. Cardinality({m}) = 1
      BY FS_Singleton
    <3> QED BY <3>2, <3>3
  <2> QED BY <2>1, <2>2
<1>2. ASSUME NEW c \in Calls, calls[c].stage = "waiting"
      PROVE  \E m \in mints : calls[c].mint = m.by
  <2>1. calls[c].mint = pendingMint /\ calls[c].mint \in Calls
    BY <1>2 DEF Call, Idle
  <2>2. PICK m : m \in mints
    BY <2>1
  <2> QED BY <2>1, <2>2
<1>3. MintIsShared
  BY <1>1, <1>2 DEF MintIsShared
<1>4. TokenOutlivesItsCalls
  <2> SUFFICES ASSUME NEW c \in Calls, calls[c].stage = "sent"
               PROVE  now < calls[c].validUntil
    BY DEF TokenOutlivesItsCalls
  <2>1. calls[c].at \in Nat /\ calls[c].validUntil \in Nat
    BY DEF Call, Idle
  <2> QED BY <2>1 DEF Fresh
<1> QED BY <1>3, <1>4

LEMMA TokenInitKeeps == TokenInit => TokenInv
  BY TokenAssumption
  DEF TokenInit, TokenInv, TokenTypeOK, OneMint, TokensLast, Token, NoToken, Call, Idle

(* A token that is used as of now outlives the request.                    *)
LEMMA UsableLasts ==
    ASSUME TokenInv, Usable(cachedToken)
    PROVE  Sent(cachedToken) \in Call /\ Fresh(Sent(cachedToken))
  BY TokenAssumption
  DEF TokenInv, TokenTypeOK, TokensLast, Token, Usable, Sent, Call, Fresh

LEMMA AskKeeps == ASSUME TokenInv, NEW c \in Calls, Ask(c) PROVE TokenInv'
<1> USE TokenAssumption DEF TokenInv, TokenTypeOK
<1>1. CASE Usable(cachedToken)
  <2>1. /\ calls' = [calls EXCEPT ![c] = Sent(cachedToken)]
        /\ UNCHANGED <<now, cachedToken, pendingMint, mints>>
    BY <1>1 DEF Ask
  <2>2. Sent(cachedToken) \in Call /\ Fresh(Sent(cachedToken)) /\ Sent(cachedToken).stage = "sent"
    BY <1>1, UsableLasts DEF Sent
  <2>3. TokenTypeOK'
    BY <2>1, <2>2
  <2>4. OneMint'
    BY <2>1, <2>2 DEF OneMint
  <2>5. TokensLast'
    BY <2>1, <2>2 DEF TokensLast, Fresh
  <2> QED BY <2>3, <2>4, <2>5
<1>2. CASE ~Usable(cachedToken)
  <2>1. /\ JoinMint(c)
        /\ calls' = [calls EXCEPT ![c] = Waiting(pendingMint')]
        /\ UNCHANGED <<now, cachedToken>>
    BY <1>2 DEF Ask
  <2>2. /\ pendingMint' \in Calls
        /\ Waiting(pendingMint') \in Call
        /\ Waiting(pendingMint').stage = "waiting" /\ Waiting(pendingMint').mint = pendingMint'
    BY <2>1 DEF JoinMint, Waiting, Call
  <2>3. mints' \subseteq Mint
    BY <2>1 DEF JoinMint, Mint
  <2>4. TokenTypeOK'
    BY <2>1, <2>2, <2>3
  <2>5. OneMint'
    <3>1. CASE pendingMint = None
      <4>1. mints = {}
        BY <3>1 DEF OneMint, Mint
      <4>2. mints' = {[by |-> c, askedAt |-> now]} /\ pendingMint' = c
        BY <2>1, <3>1, <4>1 DEF JoinMint
      <4>3. \A d \in Calls : calls[d].stage # "waiting"
        BY <3>1 DEF OneMint, Call, Idle
      <4>4. \A d \in Calls : calls'[d].stage = "waiting" => calls'[d].mint = pendingMint'
        BY <2>1, <2>2, <4>3
      <4>5. \A n \in mints' : n.by = pendingMint' /\ n.askedAt = now
        BY <4>2
      <4>6. \A n \in mints' : now' = now /\ n.askedAt <= now' /\ now' <= n.askedAt + Latency
        BY <2>1, <4>5
      <4>7. \A n, o \in mints' : n = o
        BY <4>2
      <4>8. mints' # {}
        BY <4>2
      <4> QED BY <4>4, <4>5, <4>6, <4>7, <4>8 DEF OneMint
    <3>2. CASE pendingMint # None
      BY <2>1, <2>2, <3>2 DEF OneMint, JoinMint
    <3> QED BY <3>1, <3>2
  <2>6. TokensLast'
    BY <2>1, <2>2 DEF TokensLast, Fresh
  <2> QED BY <2>4, <2>5, <2>6
<1> QED BY <1>1, <1>2

(* When a mint ends, everybody who waited has the same outcome, and nobody *)
(* waits any more.                                                         *)
LEMMA SettleKeeps ==
    ASSUME TokenInv, NEW m \in mints, NEW outcome \in Call, Settle(m, outcome),
           outcome.stage # "waiting"
    PROVE  /\ calls' \in [Calls -> Call]
           /\ \A c \in Calls : calls'[c] = outcome \/ (calls'[c] = calls[c] /\ calls[c].stage # "waiting")
<1> USE DEF TokenInv, TokenTypeOK, OneMint
<1>1. calls' = [c \in Calls |-> IF calls[c] = Waiting(m.by) THEN outcome ELSE calls[c]]
  BY DEF Settle
<1>2. calls' \in [Calls -> Call]
  BY <1>1
<1>3. ASSUME NEW c \in Calls, calls[c].stage = "waiting"
      PROVE  calls[c] = Waiting(m.by)
  <2>1. calls[c] \in [stage : {"waiting"}, mint : Calls]
    BY <1>3 DEF Call, Idle
  <2>2. calls[c].mint = m.by
    BY <1>3
  <2> QED BY <2>1, <2>2 DEF Waiting
<1> QED BY <1>1, <1>2, <1>3

LEMMA MintEndsKeeps == ASSUME TokenInv, MintEnds PROVE TokenInv'
<1> USE TokenAssumption DEF TokenInv, TokenTypeOK
<1>1. PICK m \in mints : MintAnswers(m) \/ MintFails(m)
  BY DEF MintEnds
<1>2. pendingMint' = None /\ mints' = {} /\ now' = now
  BY <1>1 DEF MintAnswers, MintFails, OneMint
<1>3. CASE MintAnswers(m)
  <2>1. PICK life \in Lives, issuedAt \in m.askedAt .. now :
            cachedToken' = [expiresAt |-> now + life, validUntil |-> issuedAt + life]
    BY <1>3 DEF MintAnswers
  <2>2. m.askedAt \in Nat /\ now <= m.askedAt + Latency /\ life \in Nat /\ life > Margin
    BY DEF OneMint, Mint
  <2>3. /\ cachedToken' \in Token
        /\ cachedToken'.expiresAt <= cachedToken'.validUntil + Latency
        /\ now + Latency < cachedToken'.validUntil
    BY <2>1, <2>2 DEF Token
  <2> DEFINE outcome == Sent(cachedToken')
  <2>4. outcome \in Call /\ outcome.stage = "sent" /\ Fresh(outcome)
    BY <2>3 DEF Sent, Call, Token, Fresh
  <2>5. Settle(m, outcome)
    BY <1>3 DEF MintAnswers
  <2> HIDE DEF outcome
  <2>6. /\ calls' \in [Calls -> Call]
        /\ \A c \in Calls : calls'[c] = outcome \/ (calls'[c] = calls[c] /\ calls[c].stage # "waiting")
    BY <2>4, <2>5, SettleKeeps
  <2>7. TokenTypeOK'
    BY <1>2, <2>3, <2>6
  <2>8. OneMint'
    BY <1>2, <2>4, <2>6 DEF OneMint
  <2>9. TokensLast'
    BY <1>2, <2>3, <2>4, <2>6 DEF TokensLast, Fresh
  <2> QED BY <2>7, <2>8, <2>9
<1>4. CASE MintFails(m)
  <2> DEFINE outcome == Ended("failed")
  <2>1. outcome \in Call /\ outcome.stage = "failed" /\ Settle(m, outcome) /\ cachedToken' = cachedToken
    BY <1>4 DEF MintFails, Ended, Call
  <2> HIDE DEF outcome
  <2>2. /\ calls' \in [Calls -> Call]
        /\ \A c \in Calls : calls'[c] = outcome \/ (calls'[c] = calls[c] /\ calls[c].stage # "waiting")
    BY <2>1, SettleKeeps
  <2>3. TokenTypeOK'
    BY <1>2, <2>1, <2>2
  <2>4. OneMint'
    BY <1>2, <2>1, <2>2 DEF OneMint
  <2>5. TokensLast'
    BY <1>2, <2>1, <2>2 DEF TokensLast, Fresh
  <2> QED BY <2>3, <2>4, <2>5
<1> QED BY <1>1, <1>3, <1>4

(* A call goes on to a state in which it neither waits nor is sent.        *)
LEMMA MovingOnKeeps ==
    ASSUME TokenInv, NEW c \in Calls, NEW state \in Call, state.stage \notin {"waiting", "sent"},
           calls' = [calls EXCEPT ![c] = state],
           UNCHANGED <<now, cachedToken, pendingMint, mints>>
    PROVE  TokenInv'
  BY DEF TokenInv, TokenTypeOK, OneMint, TokensLast, Fresh

LEMMA CallEndsKeeps == ASSUME TokenInv, NEW c \in Calls, CallEnds(c) PROVE TokenInv'
<1>1. PICK how \in {"answered", "failed"} : calls' = [calls EXCEPT ![c] = Ended(how)]
  BY DEF CallEnds
<1>2. Ended(how) \in Call /\ Ended(how).stage \notin {"waiting", "sent"}
  BY DEF Ended, Call
<1> QED BY <1>1, <1>2, MovingOnKeeps DEF CallEnds

LEMMA TokenTickKeeps == ASSUME TokenInv, TokenTick PROVE TokenInv'
<1> USE TokenAssumption DEF TokenInv, TokenTypeOK, TokenTick
<1>1. TokenTypeOK'
  OBVIOUS
<1>2. OneMint'
  BY DEF OneMint, Mint
<1>3. \A c \in Calls : calls[c].stage = "sent" => calls[c].at \in Nat
  BY DEF Call, Idle
<1>4. TokensLast'
  BY <1>3 DEF TokensLast, Fresh
<1> QED BY <1>1, <1>2, <1>4

LEMMA ForgetTokenKeeps == ASSUME TokenInv, ForgetToken PROVE TokenInv'
  BY TokenAssumption
  DEF ForgetToken, TokenInv, TokenTypeOK, OneMint, TokensLast, Token, NoToken, Call, Idle

LEMMA TokenStutterKeeps == ASSUME TokenInv, UNCHANGED tokenVars PROVE TokenInv'
  BY DEF tokenVars, TokenInv, TokenTypeOK, OneMint, TokensLast, Fresh

-----------------------------------------------------------------------------
(* The group chat.                                                         *)
Chat == {Free} \cup Arriving \cup Handler
Ids == [Roles -> Roles \cup {None}]
Handling == {"asking"} \cup Replying

(* A handler that nobody overtook replies, or will, as the bot that        *)
(* delivered its event; while it waits that bot is the active one.         *)
InPlace(chat, active) ==
    chat.stage \in Handling /\ ~chat.overtaken
    => chat.role = chat.from /\ (chat.stage \in {"asking", "answering"} => chat.from = active)

RepliesInv == \A h \in Calls : InPlace(chats[h], activeRole)

Own(groupIds) == \A r \in Roles : groupIds[r] \in {r, None}

(* Bots know their own groups only, in memory and on disk, and the disk    *)
(* knows the active bot unless writing it failed.                          *)
FileInv ==
    /\ Own(learnedGroupIds) /\ Own(stateFile.groupIds)
    /\ ~fileFailed => stateFile.activeRole = activeRole

(* Unless muddled, there is one switch at a time; one that is being        *)
(* announced has been made, and without any the group knows the active bot.*)
SwitchInv ==
    /\ \A h \in Switching : chats[h].kind \in Configured
    /\ ~muddled => /\ \A h, i \in Switching : h = i
                   /\ \A h \in Switching : chats[h].stage = "announcing" => chats[h].kind = activeRole
                   /\ Switching = {} => activeRole = announced

ChatInv == ChatTypeOK /\ RepliesInv /\ FileInv /\ SwitchInv

LEMMA ChatInvImplies ==
    ChatInv => RepliesReachTheirChannel /\ GroupIdsAreOwn /\ SwitchIsKept
  BY DEF ChatInv, RepliesInv, InPlace, Handling, RepliesReachTheirChannel, FileInv, Own,
         GroupIdsAreOwn, SwitchInv, SwitchIsKept

LEMMA ChatInitKeeps == ChatInit => TokenInv /\ ChatInv
<1> SUFFICES ASSUME ChatInit PROVE TokenInv /\ ChatInv
  OBVIOUS
<1> USE ChatAssumption DEF ChatInit
<1>1. TokenInv /\ calls = [c \in Calls |-> Idle]
  BY TokenInitKeeps DEF TokenInit
<1>2. ChatTypeOK
  BY <1>1 DEF ChatTypeOK, Free
<1>3. RepliesInv
  BY DEF RepliesInv, InPlace, Handling, Replying, Free
<1>4. FileInv
  BY DEF FileInv, Own
<1>5. SwitchInv
  BY DEF SwitchInv, Switching, Free
<1> QED BY <1>1, <1>2, <1>3, <1>4, <1>5 DEF ChatInv

-----------------------------------------------------------------------------
(* What the helpers of the handlers do.                                    *)
LEMMA RememberKeeps ==
    ASSUME ChatTypeOK, FileInv, NEW role \in Configured, NEW ids \in Ids, Own(ids),
           Remember(role, ids)
    PROVE  /\ activeRole' = role /\ learnedGroupIds' = ids
           /\ stateFile' \in [activeRole : Configured, groupIds : Ids]
           /\ fileFailed' \in BOOLEAN
           /\ FileInv'
<1>1. activeRole' = role /\ learnedGroupIds' = ids
  BY DEF Remember
<1>2. CASE UNCHANGED <<stateFile, fileFailed>> /\ role = activeRole
  BY <1>1, <1>2 DEF ChatTypeOK, FileInv, Ids
<1>3. CASE stateFile' = [activeRole |-> role, groupIds |-> ids] /\ fileFailed' = FALSE
  BY <1>1, <1>3 DEF FileInv, Own
<1>4. CASE UNCHANGED stateFile /\ fileFailed' = TRUE
  BY <1>1, <1>4 DEF ChatTypeOK, FileInv, Ids, Own
<1>5. CASE stateFile' = [activeRole |-> activeRole, groupIds |-> ids] /\ fileFailed' = TRUE
  BY <1>1, <1>5 DEF ChatTypeOK, FileInv, Own
<1> QED BY <1>2, <1>3, <1>4, <1>5 DEF Remember, Persist

LEMMA LearnOwn ==
    ASSUME ChatTypeOK, FileInv, NEW role \in Configured
    PROVE  Learn(role, role) \in Ids /\ Own(Learn(role, role))
  BY ChatAssumption DEF ChatTypeOK, FileInv, Own, Learn, Ids

(* The other handlers stay where they are, overtaken if the active bot     *)
(* changes.                                                                *)
LEMMA ContinueKeeps ==
    ASSUME ChatTypeOK, NEW h \in Calls, NEW chat \in Chat, Continue(h, chat)
    PROVE  /\ chats' \in [Calls -> Chat]
           /\ chats'[h] = chat
           /\ \A i \in Calls \ {h} :
                /\ chats'[i].stage = chats[i].stage
                /\ chats'[i].stage \in Handling =>
                     /\ chats'[i].from = chats[i].from
                     /\ chats'[i].kind = chats[i].kind
                     /\ chats'[i].role = chats[i].role
                     /\ ~chats'[i].overtaken => ~chats[i].overtaken /\ activeRole' = activeRole
<1>1. chats \in [Calls -> Chat]
  BY DEF ChatTypeOK, Chat
<1> DEFINE onwards(i) ==
      IF i = h THEN chat
      ELSE IF chats[i].stage \in {"free", "arriving"} \/ activeRole' = activeRole THEN chats[i]
      ELSE [chats[i] EXCEPT !.overtaken = TRUE]
<1>2. chats' = [i \in Calls |-> onwards(i)]
  BY DEF Continue
<1>3. ASSUME NEW i \in Calls \ {h}
      PROVE  /\ onwards(i) \in Chat
             /\ onwards(i).stage = chats[i].stage
             /\ onwards(i).stage \in Handling =>
                  /\ onwards(i).from = chats[i].from
                  /\ onwards(i).kind = chats[i].kind
                  /\ onwards(i).role = chats[i].role
                  /\ ~onwards(i).overtaken => ~chats[i].overtaken /\ activeRole' = activeRole
  <2>1. CASE chats[i].stage \in {"free", "arriving"} \/ activeRole' = activeRole
    BY <1>1, <2>1 DEF Handling, Replying
  <2>2. CASE ~(chats[i].stage \in {"free", "arriving"} \/ activeRole' = activeRole)
    <3>1. chats[i] \in Handler
      BY <1>1, <2>2 DEF Chat, Free, Arriving
    <3>2. onwards(i) = [chats[i] EXCEPT !.overtaken = TRUE]
      BY <2>2
    <3> HIDE DEF onwards
    <3> QED BY <3>1, <3>2 DEF Chat, Handler
  <2> QED BY <2>1, <2>2
<1>4. onwards(h) = chat
  OBVIOUS
<1> HIDE DEF onwards
<1> QED BY <1>2, <1>3, <1>4

LEMMA ReplyContinues ==
    ASSUME ChatTypeOK, NEW h \in Calls, chats[h].stage # "free",
           NEW stage \in Handling, NEW role \in Roles, Reply(h, stage, role)
    PROVE  \E chat \in Handler :
             /\ Continue(h, chat)
             /\ chat.stage = stage /\ chat.role = role
             /\ chat.from = chats[h].from /\ chat.kind = chats[h].kind
             /\ ~chat.overtaken => chats[h].stage = "arriving" \/ ~chats[h].overtaken
<1> DEFINE chat == [stage |-> stage, from |-> chats[h].from, kind |-> chats[h].kind,
                    role |-> role,
                    overtaken |-> chats[h].stage # "arriving" /\ chats[h].overtaken]
<1>1. chats[h] \in Arriving \cup Handler
  BY DEF ChatTypeOK, Free
<1>2. chats[h].from \in Configured /\ chats[h].kind \in Kinds
  BY <1>1 DEF Arriving, Handler
<1>3. chat \in Handler
  BY <1>2 DEF Handler, Handling, Replying
<1>4. Continue(h, chat)
  BY DEF Reply
<1> QED BY <1>3, <1>4

-----------------------------------------------------------------------------
(* A handler that goes on, whatever it does to switches: what it calls and *)
(* the reply it makes are in order, and so are the files.                  *)
LEMMA HandlerKeeps ==
    ASSUME TokenInv', ChatInv,
           NEW h \in Calls, NEW chat \in Chat, NEW role \in Configured, NEW ids \in Ids, Own(ids),
           Remember(role, ids), Continue(h, chat),
           \A i \in Calls \ {h} : calls'[i] = calls[i],
           calls'[h] # Idle => chat.stage = "asking",
           InPlace(chat, role),
           UNCHANGED <<inGroup, swaps, boots>>,
           announced' \in Configured, muddled' \in BOOLEAN
    PROVE  ChatTypeOK' /\ RepliesInv' /\ FileInv'
<1>1. /\ activeRole' = role /\ learnedGroupIds' = ids
      /\ stateFile' \in [activeRole : Configured, groupIds : Ids]
      /\ fileFailed' \in BOOLEAN
      /\ FileInv'
  BY RememberKeeps DEF ChatInv
<1>2. /\ chats' \in [Calls -> Chat]
      /\ chats'[h] = chat
      /\ \A i \in Calls \ {h} :
           /\ chats'[i].stage = chats[i].stage
           /\ chats'[i].stage \in Handling =>
                /\ chats'[i].from = chats[i].from
                /\ chats'[i].kind = chats[i].kind
                /\ chats'[i].role = chats[i].role
                /\ ~chats'[i].overtaken => ~chats[i].overtaken /\ activeRole' = activeRole
  BY ContinueKeeps DEF ChatInv
<1>3. \A i \in Calls : calls'[i] # Idle => chats'[i].stage = "asking"
  BY <1>2 DEF ChatInv, ChatTypeOK
<1>4. ChatTypeOK'
  BY <1>1, <1>2, <1>3 DEF ChatInv, ChatTypeOK, Chat, Ids
<1>5. RepliesInv'
  <2> SUFFICES ASSUME NEW i \in Calls PROVE InPlace(chats'[i], activeRole')
    BY DEF RepliesInv, InPlace
  <2>1. CASE i = h
    BY <1>1, <1>2, <2>1
  <2>2. CASE i # h
    BY <1>2, <2>2 DEF ChatInv, RepliesInv, InPlace
  <2> QED BY <2>1, <2>2
<1> QED BY <1>1, <1>4, <1>5

(* The switches under way are those of before and perhaps h.               *)
LEMMA SwitchesAfter ==
    ASSUME ChatTypeOK, NEW h \in Calls, NEW chat \in Chat, Continue(h, chat)
    PROVE  /\ Switching' \ {h} = Switching \ {h}
           /\ h \in Switching' <=> chat.stage \in {"confirming", "announcing"}
           /\ chats'[h] = chat
           /\ \A i \in Switching' \ {h} : chats'[i].stage = chats[i].stage /\ chats'[i].kind = chats[i].kind
  BY ContinueKeeps DEF Switching, Handling, Replying

LEMMA NoSwitchKeeps ==
    ASSUME ChatInv, NEW h \in Calls, h \notin Switching, NEW chat \in Chat, Continue(h, chat),
           chat.stage \notin {"confirming", "announcing"},
           UNCHANGED <<activeRole, announced, muddled>>
    PROVE  SwitchInv'
<1>1. /\ Switching' = Switching
      /\ \A i \in Switching' : chats'[i].stage = chats[i].stage /\ chats'[i].kind = chats[i].kind
  BY SwitchesAfter DEF ChatInv
<1> QED BY <1>1 DEF ChatInv, SwitchInv

(* A switch begins: one that another is under way with muddles them.       *)
LEMMA SwitchBeginsKeeps ==
    ASSUME ChatInv, NEW h \in Calls, h \notin Switching, NEW chat \in Chat, Continue(h, chat),
           chat.stage \in {"confirming", "announcing"}, chat.kind \in Configured,
           chat.stage = "announcing" => chat.kind = activeRole',
           muddled' <=> (muddled \/ Switching # {})
    PROVE  SwitchInv'
<1>1. /\ Switching' = Switching \cup {h}
      /\ chats'[h] = chat
      /\ \A i \in Switching' \ {h} : chats'[i].stage = chats[i].stage /\ chats'[i].kind = chats[i].kind
  BY SwitchesAfter DEF ChatInv
<1>2. \A i \in Switching' : chats'[i].kind \in Configured
  BY <1>1 DEF ChatInv, SwitchInv
<1>3. CASE muddled'
  BY <1>2, <1>3 DEF SwitchInv
<1>4. CASE ~muddled'
  <2>1. Switching' = {h}
    BY <1>1, <1>4
  <2> QED BY <1>1, <1>2, <2>1 DEF SwitchInv
<1> QED BY <1>3, <1>4

-----------------------------------------------------------------------------
(* The handlers.                                                           *)
LEMMA HandleEventKeeps ==
    ASSUME TokenInv, ChatInv, NEW h \in Calls, chats[h].stage = "arriving",
           chats[h].from = activeRole, HandleEvent(h),
           UNCHANGED <<inGroup, swaps, boots, announced>>
    PROVE  TokenInv' /\ ChatInv'
<1> DEFINE kind == chats[h].kind
           ids == Learn(activeRole, activeRole)
<1>1. kind \in Kinds /\ activeRole \in Configured /\ activeRole \in Roles /\ calls[h] = Idle
  BY ChatAssumption DEF ChatInv, ChatTypeOK, Free, Arriving, Handler
<1>2. Remember(activeRole, ids) /\ ids \in Ids /\ Own(ids)
  BY <1>1, LearnOwn DEF HandleEvent, ChatInv
<1>3. activeRole' = activeRole
  BY <1>2 DEF Remember
<1>4. h \notin Switching
  BY DEF Switching
<1>5. muddled' = (muddled \/ (kind \in Configured \ {activeRole} /\ Switching # {}))
  BY DEF HandleEvent
<1>6. muddled' \in BOOLEAN
  BY <1>5 DEF ChatInv, ChatTypeOK
<1>7. announced' \in Configured
  BY DEF ChatInv, ChatTypeOK
<1>8. TokenInv' /\ \A i \in Calls \ {h} : calls'[i] = calls[i]
  <2>1. CASE kind = "query"
    <3>1. Ask(h)
      BY <2>1 DEF HandleEvent
    <3>2. \A i \in Calls \ {h} : calls'[i] = calls[i]
      BY <3>1 DEF Ask, TokenInv, TokenTypeOK
    <3> QED BY <3>1, <3>2, AskKeeps
  <2>2. CASE kind # "query"
    <3>1. UNCHANGED tokenVars
      BY <2>2 DEF HandleEvent
    <3> QED BY <3>1, TokenStutterKeeps DEF tokenVars
  <2> QED BY <2>1, <2>2
<1>9. kind # "query" => calls' = calls
  BY DEF HandleEvent, tokenVars
<1>10. CASE kind = "join"
  <2>1. Continue(h, Free) /\ Free \in Chat /\ Free.stage = "free"
    BY <1>10, ChatAssumption DEF HandleEvent, Chat, Free
  <2>2. muddled' = muddled
    BY <1>5, <1>10, ChatAssumption DEF ChatInv, ChatTypeOK
  <2>3. InPlace(Free, activeRole)
    BY <2>1 DEF InPlace, Handling, Replying
  <2>4. calls'[h] = Idle
    BY <1>1, <1>9, <1>10
  <2>5. SwitchInv'
    BY <1>3, <1>4, <2>1, <2>2, NoSwitchKeeps
  <2>6. ChatTypeOK' /\ RepliesInv' /\ FileInv'
    BY <1>1, <1>2, <1>6, <1>7, <1>8, <2>1, <2>3, <2>4, HandlerKeeps
  <2> QED BY <1>8, <2>5, <2>6 DEF ChatInv
<1>11. CASE kind # "join"
  <2> DEFINE stage == IF kind = "query" THEN "asking"
                      ELSE IF kind \in Configured \ {activeRole} THEN "confirming" ELSE "replying"
  <2>1. Reply(h, stage, activeRole) /\ stage \in Handling
    BY <1>11, ChatAssumption DEF HandleEvent, Handling, Replying
  <2>2. PICK chat \in Handler :
          /\ Continue(h, chat)
          /\ chat.stage = stage /\ chat.role = activeRole
          /\ chat.from = activeRole /\ chat.kind = kind
    BY <1>1, <2>1, ReplyContinues DEF ChatInv
  <2>3. chat \in Chat /\ InPlace(chat, activeRole)
    BY <2>2 DEF InPlace, Chat
  <2>4. calls'[h] # Idle => chat.stage = "asking"
    BY <1>1, <1>9, <2>2
  <2>5. ChatTypeOK' /\ RepliesInv' /\ FileInv'
    BY <1>1, <1>2, <1>6, <1>7, <1>8, <2>2, <2>3, <2>4, HandlerKeeps
  <2>6. SwitchInv'
    <3>1. CASE kind \in Configured \ {activeRole} /\ kind # "query"
      BY <1>3, <1>4, <1>5, <2>2, <2>3, <3>1, SwitchBeginsKeeps
    <3>2. CASE ~(kind \in Configured \ {activeRole} /\ kind # "query")
      <4>1. muddled' = muddled
        BY <1>5, <3>2, ChatAssumption DEF ChatInv, ChatTypeOK
      <4>2. chat.stage \notin {"confirming", "announcing"}
        BY <2>2, <3>2
      <4> QED BY <1>3, <1>4, <2>2, <2>3, <4>1, <4>2, NoSwitchKeeps
    <3> QED BY <3>1, <3>2
  <2> QED BY <1>8, <2>5, <2>6 DEF ChatInv
<1> QED BY <1>10, <1>11

LEMMA HandleInactiveRoleEventKeeps ==
    ASSUME TokenInv, ChatInv, NEW h \in Calls, chats[h].stage = "arriving",
           chats[h].from # activeRole, HandleInactiveRoleEvent(h),
           UNCHANGED <<inGroup, swaps, boots, announced>>
    PROVE  TokenInv' /\ ChatInv'
<1> DEFINE kind == chats[h].kind
           from == chats[h].from
           role == IF kind = from THEN from ELSE activeRole
           ids == Learn(from, from)
<1>1. /\ kind \in Kinds /\ from \in Configured /\ from \in Roles
      /\ role \in Configured /\ calls[h] = Idle
  BY ChatAssumption DEF ChatInv, ChatTypeOK, Free, Arriving, Handler
<1>2. Remember(role, ids) /\ ids \in Ids /\ Own(ids)
  BY <1>1, LearnOwn DEF HandleInactiveRoleEvent, ChatInv
<1>3. activeRole' = role
  BY <1>2 DEF Remember
<1>4. h \notin Switching
  BY DEF Switching
<1>5. muddled' = (muddled \/ (kind = from /\ Switching # {}))
  BY DEF HandleInactiveRoleEvent
<1>6. muddled' \in BOOLEAN /\ announced' \in Configured
  BY <1>5 DEF ChatInv, ChatTypeOK
<1>7. TokenInv' /\ calls' = calls
  BY TokenStutterKeeps DEF HandleInactiveRoleEvent, tokenVars
<1>8. CASE kind = from \/ kind = "join"
  <2> DEFINE stage == IF kind = from THEN "announcing" ELSE "replying"
  <2>1. Reply(h, stage, from) /\ stage \in Handling
    BY <1>1, <1>8, ChatAssumption DEF HandleInactiveRoleEvent, Handling, Replying
  <2>2. PICK chat \in Handler :
          /\ Continue(h, chat)
          /\ chat.stage = stage /\ chat.role = from
          /\ chat.from = from /\ chat.kind = kind
    BY <1>1, <2>1, ReplyContinues DEF ChatInv
  <2>3. chat \in Chat /\ InPlace(chat, role)
    BY <2>2 DEF InPlace, Chat
  <2>4. ChatTypeOK' /\ RepliesInv' /\ FileInv'
    BY <1>1, <1>2, <1>6, <1>7, <2>2, <2>3, HandlerKeeps
  <2>5. SwitchInv'
    <3>1. CASE kind = from
      <4>1. chat.stage = "announcing" /\ chat.kind = activeRole' /\ chat.kind \in Configured
        BY <1>1, <1>3, <2>2, <3>1
      <4>2. muddled' <=> (muddled \/ Switching # {})
        BY <1>5, <3>1
      <4> QED BY <1>4, <2>2, <2>3, <4>1, <4>2, SwitchBeginsKeeps
    <3>2. CASE kind # from
      <4>1. muddled' = muddled /\ activeRole' = activeRole
        BY <1>3, <1>5, <3>2 DEF ChatInv, ChatTypeOK
      <4>2. chat.stage = "replying"
        BY <2>2, <3>2
      <4> QED BY <1>4, <2>2, <2>3, <4>1, <4>2, NoSwitchKeeps
    <3> QED BY <3>1, <3>2
  <2> QED BY <1>7, <2>4, <2>5 DEF ChatInv
<1>9. CASE kind # from /\ kind # "join"
  <2>1. Continue(h, Free) /\ Free \in Chat /\ Free.stage = "free"
    BY <1>9 DEF HandleInactiveRoleEvent, Chat, Free
  <2>2. muddled' = muddled /\ activeRole' = activeRole
    BY <1>3, <1>5, <1>9 DEF ChatInv, ChatTypeOK
  <2>3. InPlace(Free, role)
    BY <2>1 DEF InPlace, Handling, Replying
  <2>4. SwitchInv'
    BY <1>4, <2>1, <2>2, NoSwitchKeeps
  <2>5. ChatTypeOK' /\ RepliesInv' /\ FileInv'
    BY <1>1, <1>2, <1>6, <1>7, <2>1, <2>3, HandlerKeeps
  <2> QED BY <1>7, <2>4, <2>5 DEF ChatInv
<1> QED BY <1>8, <1>9

LEMMA TuyaEndsKeeps ==
    ASSUME TokenInv, ChatInv, NEW h \in Calls, TuyaEnds(h)
    PROVE  TokenInv' /\ ChatInv'
<1> DEFINE stage == IF calls[h].stage = "answered" THEN "answering" ELSE "replying"
<1>1. /\ chats[h].stage = "asking" /\ chats[h] \in Handler
      /\ activeRole \in Configured /\ activeRole \in Roles
      /\ learnedGroupIds \in Ids /\ Own(learnedGroupIds)
  BY ChatAssumption DEF TuyaEnds, ChatInv, ChatTypeOK, FileInv, Idle, Free, Arriving, Ids
<1>2. Remember(activeRole, learnedGroupIds) /\ activeRole' = activeRole
  BY DEF TuyaEnds, Remember
<1>3. TokenInv' /\ calls'[h] = Idle /\ \A i \in Calls \ {h} : calls'[i] = calls[i]
  <2>1. calls' = [calls EXCEPT ![h] = Idle] /\ UNCHANGED <<now, cachedToken, pendingMint, mints>>
    BY DEF TuyaEnds
  <2>2. Idle \in Call /\ Idle.stage = "idle" /\ calls \in [Calls -> Call]
    BY DEF Idle, Call, TokenInv, TokenTypeOK
  <2> QED BY <2>1, <2>2, MovingOnKeeps
<1>4. Reply(h, stage, activeRole) /\ stage \in Handling
  BY DEF TuyaEnds, Handling, Replying
<1>5. PICK chat \in Handler :
        /\ Continue(h, chat)
        /\ chat.stage = stage /\ chat.role = activeRole
        /\ chat.from = chats[h].from
        /\ ~chat.overtaken => ~chats[h].overtaken
  BY <1>1, <1>4, ReplyContinues DEF ChatInv
<1>6. chat \in Chat /\ InPlace(chat, activeRole)
  BY <1>1, <1>5 DEF InPlace, Chat, ChatInv, RepliesInv, Handling
<1>7. UNCHANGED <<inGroup, swaps, boots, announced, muddled>>
  BY DEF TuyaEnds
<1>8. announced' \in Configured /\ muddled' \in BOOLEAN
  BY <1>7 DEF ChatInv, ChatTypeOK
<1>9. ChatTypeOK' /\ RepliesInv' /\ FileInv'
  BY <1>1, <1>2, <1>3, <1>5, <1>6, <1>7, <1>8, HandlerKeeps
<1>10. h \notin Switching /\ chat.stage \notin {"confirming", "announcing"}
  BY <1>1, <1>5 DEF Switching
<1>11. SwitchInv'
  BY <1>2, <1>5, <1>6, <1>7, <1>10, NoSwitchKeeps
<1> QED BY <1>3, <1>9, <1>11 DEF ChatInv

LEMMA ReplySucceedsKeeps ==
    ASSUME TokenInv, ChatInv, NEW h \in Calls, ReplySucceeds(h)
    PROVE  TokenInv' /\ ChatInv'
<1> DEFINE chat == chats[h]
           target == IF chat.stage = "confirming" THEN chat.kind ELSE activeRole
<1>1. chat.stage \in Replying
  BY DEF ReplySucceeds
<1>2. h \in Switching <=> chat.stage \in {"confirming", "announcing"}
  BY DEF Switching
<1>3. target \in Configured /\ calls[h] = Idle /\ learnedGroupIds \in Ids /\ Own(learnedGroupIds)
  BY <1>1, <1>2 DEF ChatInv, ChatTypeOK, SwitchInv, FileInv, Ids, Replying
<1>4. Remember(target, learnedGroupIds) /\ activeRole' = target
  BY DEF ReplySucceeds, Remember
<1>5. Continue(h, Free) /\ Free \in Chat /\ Free.stage = "free" /\ InPlace(Free, target)
  BY DEF ReplySucceeds, Chat, Free, InPlace, Handling, Replying
<1>6. TokenInv' /\ calls' = calls /\ UNCHANGED <<inGroup, swaps, boots, muddled>>
  BY TokenStutterKeeps DEF ReplySucceeds, tokenVars
<1>7. announced' = IF h \in Switching THEN chat.kind ELSE announced
  BY DEF ReplySucceeds
<1>8. announced' \in Configured /\ muddled' \in BOOLEAN
  BY <1>6, <1>7 DEF ChatInv, ChatTypeOK, SwitchInv
<1>9. ChatTypeOK' /\ RepliesInv' /\ FileInv'
  BY <1>3, <1>4, <1>5, <1>6, <1>8, HandlerKeeps
<1>10. SwitchInv'
  <2>1. /\ Switching' = Switching \ {h}
        /\ \A i \in Switching' : chats'[i].stage = chats[i].stage /\ chats'[i].kind = chats[i].kind
    BY <1>5, SwitchesAfter DEF ChatInv
  <2>2. CASE h \in Switching
    <3>1. ~muddled => Switching' = {} /\ activeRole' = chat.kind
      BY <1>1, <1>2, <1>4, <2>1, <2>2 DEF ChatInv, SwitchInv
    <3> QED BY <1>6, <1>7, <2>1, <2>2, <3>1 DEF ChatInv, SwitchInv
  <2>3. CASE h \notin Switching
    <3>1. activeRole' = activeRole /\ announced' = announced /\ Switching' = Switching
      BY <1>2, <1>4, <1>7, <2>1, <2>3
    <3> QED BY <1>6, <2>1, <3>1 DEF ChatInv, SwitchInv
  <2> QED BY <2>2, <2>3
<1> QED BY <1>6, <1>9, <1>10 DEF ChatInv

LEMMA ReplyFailsKeeps ==
    ASSUME TokenInv, ChatInv, NEW h \in Calls, ReplyFails(h)
    PROVE  TokenInv' /\ ChatInv'
<1>1. /\ chats[h].stage \in Replying /\ chats[h] \in Handler /\ calls[h] = Idle
      /\ activeRole \in Configured /\ activeRole \in Roles
      /\ learnedGroupIds \in Ids /\ Own(learnedGroupIds)
  BY ChatAssumption
  DEF ReplyFails, ChatInv, ChatTypeOK, FileInv, Free, Arriving, Ids, Replying
<1>2. Remember(activeRole, learnedGroupIds) /\ activeRole' = activeRole
  BY DEF ReplyFails, Remember
<1>3. TokenInv' /\ calls' = calls /\ UNCHANGED <<inGroup, swaps, boots, announced>>
  BY TokenStutterKeeps DEF ReplyFails, tokenVars
<1>4. muddled' = (muddled \/ h \in Switching)
  BY DEF ReplyFails
<1>5. announced' \in Configured /\ muddled' \in BOOLEAN
  BY <1>3, <1>4 DEF ChatInv, ChatTypeOK
<1>6. PICK chat \in Chat :
        Continue(h, chat) /\ InPlace(chat, activeRole)
        /\ chat.stage \notin {"asking", "confirming", "announcing"}
  <2>1. CASE chats[h].stage = "answering"
    <3>1. Reply(h, "replying", activeRole) /\ "replying" \in Handling
      BY <2>1 DEF ReplyFails, Handling, Replying
    <3>2. PICK chat \in Handler :
            /\ Continue(h, chat)
            /\ chat.stage = "replying" /\ chat.role = activeRole
            /\ chat.from = chats[h].from
            /\ ~chat.overtaken => ~chats[h].overtaken
      BY <1>1, <2>1, <3>1, ReplyContinues DEF ChatInv
    <3>3. chat \in Chat /\ InPlace(chat, activeRole)
      BY <2>1, <3>2 DEF InPlace, Chat, ChatInv, RepliesInv, Handling, Replying
    <3> QED BY <3>2, <3>3
  <2>2. CASE chats[h].stage # "answering"
    <3>1. Continue(h, Free)
      BY <2>2 DEF ReplyFails
    <3> QED BY <3>1 DEF Chat, Free, InPlace, Handling, Replying
  <2> QED BY <2>1, <2>2
<1>7. ChatTypeOK' /\ RepliesInv' /\ FileInv'
  BY <1>1, <1>2, <1>3, <1>5, <1>6, HandlerKeeps
<1>8. SwitchInv'
  <2>1. /\ Switching' = Switching \ {h}
        /\ \A i \in Switching' : chats'[i].stage = chats[i].stage /\ chats'[i].kind = chats[i].kind
    BY <1>6, SwitchesAfter DEF ChatInv
  <2> QED BY <1>2, <1>3, <1>4, <2>1 DEF ChatInv, SwitchInv
<1> QED BY <1>3, <1>7, <1>8 DEF ChatInv

LEMMA DeliverKeeps ==
    ASSUME TokenInv, ChatInv, NEW h \in Calls, NEW kind \in Kinds, Deliver(h, kind)
    PROVE  TokenInv' /\ ChatInv'
<1> DEFINE chat == [stage |-> "arriving", from |-> inGroup, kind |-> kind]
<1>1. /\ chats[h] = Free /\ chats' = [chats EXCEPT ![h] = chat]
      /\ UNCHANGED <<tokenVars, activeRole, learnedGroupIds, stateFile, inGroup, swaps, boots,
                     fileFailed, announced, muddled>>
  BY DEF Deliver
<1>2. TokenInv' /\ calls' = calls
  BY <1>1, TokenStutterKeeps DEF tokenVars
<1>3. chat \in Arriving
  BY DEF Arriving, ChatInv, ChatTypeOK
<1>4. ChatTypeOK'
  BY <1>1, <1>2, <1>3 DEF ChatInv, ChatTypeOK, Free
<1>5. /\ chats'[h].stage = "arriving"
      /\ \A i \in Calls \ {h} : chats'[i] = chats[i]
  BY <1>1 DEF ChatInv, ChatTypeOK
<1>6. RepliesInv'
  BY <1>1, <1>5 DEF ChatInv, RepliesInv, InPlace, Handling, Replying
<1>7. FileInv'
  BY <1>1 DEF ChatInv, FileInv, Own
<1>8. Switching' = Switching /\ \A i \in Switching : chats'[i] = chats[i]
  BY <1>1, <1>5 DEF Switching, Free
<1>9. SwitchInv'
  BY <1>1, <1>8 DEF ChatInv, SwitchInv
<1> QED BY <1>2, <1>4, <1>6, <1>7, <1>9 DEF ChatInv

(* A step of the token cache leaves the chat alone, and calls idle that    *)
(* were.                                                                   *)
LEMMA TokenStepKeeps ==
    ASSUME TokenInv, ChatInv, UNCHANGED chatVars,
           MintEnds \/ (\E h \in Calls : CallEnds(h)) \/ TokenTick
    PROVE  TokenInv' /\ ChatInv'
<1>1. TokenInv'
  BY MintEndsKeeps, CallEndsKeeps, TokenTickKeeps
<1>2. \A i \in Calls : calls[i] = Idle => calls'[i] = Idle
  <2>1. CASE MintEnds
    BY <2>1 DEF MintEnds, MintAnswers, MintFails, Settle, Waiting, Idle
  <2>2. ASSUME NEW h \in Calls, CallEnds(h)
        PROVE  \A i \in Calls : calls[i] = Idle => calls'[i] = Idle
    BY <2>2 DEF CallEnds, Idle, TokenInv, TokenTypeOK
  <2>3. CASE TokenTick
    BY <2>3 DEF TokenTick
  <2> QED BY <2>1, <2>2, <2>3
<1>3. ChatTypeOK'
  BY <1>2 DEF chatVars, ChatInv, ChatTypeOK
<1>4. RepliesInv' /\ FileInv' /\ SwitchInv'
  BY DEF chatVars, ChatInv, RepliesInv, InPlace, FileInv, Own, SwitchInv, Switching
<1> QED BY <1>1, <1>3, <1>4 DEF ChatInv

LEMMA SwapKeeps == ASSUME TokenInv, ChatInv, Swap PROVE TokenInv' /\ ChatInv'
<1>1. TokenInv' /\ calls' = calls
  BY TokenStutterKeeps DEF Swap, tokenVars
<1>2. ChatTypeOK'
  BY <1>1 DEF Swap, ChatInv, ChatTypeOK
<1>3. RepliesInv' /\ FileInv' /\ SwitchInv'
  BY DEF Swap, ChatInv, RepliesInv, InPlace, FileInv, Own, SwitchInv, Switching
<1> QED BY <1>1, <1>2, <1>3 DEF ChatInv

LEMMA RebootKeeps == ASSUME TokenInv, ChatInv, Reboot PROVE TokenInv' /\ ChatInv'
<1>1. TokenInv' /\ calls' = [c \in Calls |-> Idle]
  BY ForgetTokenKeeps DEF Reboot, ForgetToken
<1>2. ChatTypeOK'
  <2>1. /\ chats' = [h \in Calls |-> Free]
        /\ activeRole' = stateFile.activeRole /\ learnedGroupIds' = stateFile.groupIds
        /\ stateFile' = stateFile /\ inGroup' = inGroup /\ swaps' = swaps
        /\ announced' = announced /\ boots' = boots + 1 /\ fileFailed' = FALSE
        /\ muddled' = (muddled \/ fileFailed \/ Switching # {})
    BY DEF Reboot
  <2>2. muddled' \in BOOLEAN
    BY <2>1 DEF ChatInv, ChatTypeOK
  <2>3. \A h \in Calls : calls'[h] = Idle
    BY <1>1
  <2>4. chats' \in [Calls -> {Free} \cup Arriving \cup Handler]
    BY <2>1
  <2>5. activeRole' \in Configured /\ learnedGroupIds' \in [Roles -> Roles \cup {None}]
    BY <2>1 DEF ChatInv, ChatTypeOK
  <2>6. /\ stateFile' \in [activeRole : Configured, groupIds : [Roles -> Roles \cup {None}]]
        /\ inGroup' \in Configured /\ announced' \in Configured
        /\ swaps' \in Nat /\ boots' \in Nat
    BY <2>1 DEF ChatInv, ChatTypeOK
  <2>7. fileFailed' \in BOOLEAN
    BY <2>1
  <2> QED BY <2>2, <2>3, <2>4, <2>5, <2>6, <2>7 DEF ChatTypeOK
<1>3. RepliesInv'
  BY DEF Reboot, RepliesInv, InPlace, Handling, Replying, Free
<1>4. FileInv'
  BY DEF Reboot, ChatInv, FileInv, Own
<1>5. Switching' = {}
  BY DEF Reboot, Switching, Free
<1>6. ~muddled' => activeRole' = announced'
  BY DEF Reboot, ChatInv, FileInv, SwitchInv
<1>7. SwitchInv'
  BY <1>5, <1>6 DEF SwitchInv
<1> QED BY <1>1, <1>2, <1>3, <1>4, <1>7 DEF ChatInv

-----------------------------------------------------------------------------
LEMMA ChatStepKeeps == TokenInv /\ ChatInv /\ [ChatNext]_vars => TokenInv' /\ ChatInv'
<1> SUFFICES ASSUME TokenInv, ChatInv, [ChatNext]_vars
             PROVE  TokenInv' /\ ChatInv'
  OBVIOUS
<1>1. ASSUME NEW h \in Calls, NEW kind \in Kinds, Deliver(h, kind) PROVE TokenInv' /\ ChatInv'
  BY <1>1, DeliverKeeps
<1>2. ASSUME NEW h \in Calls, Verify(h) PROVE TokenInv' /\ ChatInv'
  <2>1. chats[h].stage = "arriving" /\ UNCHANGED <<inGroup, swaps, boots, announced>>
    BY <1>2 DEF Verify
  <2>2. CASE chats[h].from = activeRole
    BY <1>2, <2>1, <2>2, HandleEventKeeps DEF Verify
  <2>3. CASE chats[h].from # activeRole
    BY <1>2, <2>1, <2>3, HandleInactiveRoleEventKeeps DEF Verify
  <2> QED BY <2>2, <2>3
<1>3. ASSUME NEW h \in Calls, TuyaEnds(h) PROVE TokenInv' /\ ChatInv'
  BY <1>3, TuyaEndsKeeps
<1>4. ASSUME NEW h \in Calls, ReplySucceeds(h) PROVE TokenInv' /\ ChatInv'
  BY <1>4, ReplySucceedsKeeps
<1>5. ASSUME NEW h \in Calls, ReplyFails(h) PROVE TokenInv' /\ ChatInv'
  BY <1>5, ReplyFailsKeeps
<1>6. CASE (MintEnds \/ (\E h \in Calls : CallEnds(h)) \/ TokenTick) /\ UNCHANGED chatVars
  BY <1>6, TokenStepKeeps
<1>7. CASE Swap
  BY <1>7, SwapKeeps
<1>8. CASE Reboot
  BY <1>8, RebootKeeps
<1>9. CASE UNCHANGED vars
  <2>1. TokenInv' /\ calls' = calls
    BY <1>9, TokenStutterKeeps DEF vars, tokenVars
  <2>2. ChatTypeOK'
    BY <1>9, <2>1 DEF vars, chatVars, ChatInv, ChatTypeOK
  <2>3. RepliesInv' /\ FileInv' /\ SwitchInv'
    BY <1>9 DEF vars, chatVars, ChatInv, RepliesInv, InPlace, FileInv, Own, SwitchInv, Switching
  <2> QED BY <2>1, <2>2, <2>3 DEF ChatInv
<1> QED BY <1>1, <1>2, <1>3, <1>4, <1>5, <1>6, <1>7, <1>8, <1>9 DEF ChatNext, HandlerStep

LEMMA ChatAlways == ChatSpec => [](TokenInv /\ ChatInv)
<1>1. ChatInit => TokenInv /\ ChatInv
  BY ChatInitKeeps
<1>2. TokenInv /\ ChatInv /\ [ChatNext]_vars => (TokenInv /\ ChatInv)'
  BY ChatStepKeeps
<1> QED BY <1>1, <1>2, PTL DEF ChatSpec

(* The types of the token cache and of the chat hold, for any bots and any *)
(* number of events under way.                                             *)
THEOREM ChatTypes == ChatSpec => [](TokenTypeOK /\ ChatTypeOK)
<1>1. TokenInv /\ ChatInv => TokenTypeOK /\ ChatTypeOK
  BY DEF TokenInv, ChatInv
<1> QED BY <1>1, ChatAlways, PTL

(* However the calls of Tuya overlap and fail, one token is minted at a    *)
(* time, everybody who waits will be told, and no request is sent with a   *)
(* token that expires before it arrives.                                   *)
THEOREM TokensAreShared == ChatSpec => [](MintIsShared /\ TokenOutlivesItsCalls)
<1>1. TokenInv /\ ChatInv => MintIsShared /\ TokenOutlivesItsCalls
  BY TokenInvImplies
<1> QED BY <1>1, ChatAlways, PTL

(* Replies go out from the bot in the group, unless overtaken by a switch, *)
(* and no bot learns the group of another.                                 *)
THEOREM RepliesAreDelivered == ChatSpec => [](RepliesReachTheirChannel /\ GroupIdsAreOwn)
<1>1. TokenInv /\ ChatInv => RepliesReachTheirChannel /\ GroupIdsAreOwn
  BY ChatInvImplies
<1> QED BY <1>1, ChatAlways, PTL

(* The bot that the group was told is active is the active one, restarts   *)
(* included, unless switches overlapped or failed half way.                *)
THEOREM SwitchesAreKept == ChatSpec => []SwitchIsKept
<1>1. TokenInv /\ ChatInv => SwitchIsKept
  BY ChatInvImplies
<1> QED BY <1>1, ChatAlways, PTL

=============================================================================
