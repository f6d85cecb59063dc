--------------------------- MODULE DurationPrompt ---------------------------
(***************************************************************************)
(* The quiet commands of interactionRouter.js over quietMode.js: "be       *)
(* quiet" asks for how long, and for two minutes a bare number typed in    *)
(* the group is taken for the answer.  A preset button and /quiet N do not *)
(* need the question.  Replies are GroupChat's.                            *)
(***************************************************************************)
EXTENDS QuietMode

CONSTANTS
    Numbers,    \* the numbers people type, in clock ticks; Minutes are the valid ones
    PromptTTL   \* DURATION_PROMPT_TTL_MS

ASSUME PromptAssumption == Minutes \subseteq Numbers /\ PromptTTL \in Nat

VARIABLES
    durationPromptExpiresAt,
    askedAt,  \* history: when the question was last asked
    answered  \* history: whether a duration has been given since

promptVars == <<durationPromptExpiresAt, askedAt, answered>>

IsDurationPromptPending == durationPromptExpiresAt # Null /\ now < durationPromptExpiresAt

PromptInit ==
    /\ QuietInit
    /\ durationPromptExpiresAt = Null
    /\ askedAt = 0 /\ answered = FALSE

ReplyQuietPrompt ==
    /\ durationPromptExpiresAt' = now + PromptTTL
    /\ askedAt' = now /\ answered' = FALSE
    /\ UNCHANGED quietVars

ActivateQuietIfValid(minutes) ==
    /\ answered' = TRUE
    /\ IF minutes \in Minutes
       THEN SetQuiet(minutes) /\ durationPromptExpiresAt' = Null
       ELSE UNCHANGED <<quietVars, durationPromptExpiresAt>>
    /\ UNCHANGED askedAt

(* _activateQuiet: one too long or too short is an answer too.             *)
ActivateQuiet(minutes) ==
    /\ durationPromptExpiresAt' = Null
    /\ answered' = TRUE
    /\ IF minutes \in Minutes THEN SetQuiet(minutes) ELSE UNCHANGED quietVars
    /\ UNCHANGED askedAt

QuietFor(minutes) == quiets < MaxQuiets /\ ActivateQuiet(minutes)

(* _handleText of a bare number; out of time it is ordinary chat.          *)
TypeNumber(minutes) ==
    /\ quiets < MaxQuiets
    /\ IsDurationPromptPending
    /\ ActivateQuiet(minutes)

(* The other commands leave the question open.                             *)
RestOrWake ==
    /\ (rests < MaxRests /\ SetIndefiniteQuiet) \/ ClearQuiet
    /\ UNCHANGED promptVars

Dies == Restart /\ durationPromptExpiresAt' = Null /\ UNCHANGED <<askedAt, answered>>

Passes == MayTick(pendingWakes) /\ Tick /\ UNCHANGED promptVars

PromptNext ==
    \/ ReplyQuietPrompt
    \/ \E minutes \in Numbers : QuietFor(minutes) \/ TypeNumber(minutes)
    \/ RestOrWake
    \/ WakeTimerFires /\ UNCHANGED promptVars
    \/ Passes
    \/ Dies

PromptSpec == PromptInit /\ [][PromptNext]_<<quietVars, promptVars>> /\ QuietFairness

-----------------------------------------------------------------------------
(* A number typed in the group is taken for minutes only within two        *)
(* minutes of the question and only as its first answer, so no chat about  *)
(* anything else quiets the bot, or ends a rest, by chance.                *)
NumbersAnswerTheQuestion ==
    [][(\E minutes \in Numbers : TypeNumber(minutes))
        => askedAt # 0 /\ now < askedAt + PromptTTL /\ ~answered
      ]_<<quietVars, promptVars>>

=============================================================================
