------------------------------ MODULE TuyaToken ------------------------------
(***************************************************************************)
(* src/services/tuyaRestClient.js: the access token that every call of     *)
(* Tuya needs, cached until shortly before it expires, and the request for *)
(* a new one, which callers that come meanwhile share.                     *)
(*                                                                         *)
(* An async function runs without a break up to its first await that is    *)
(* not settled: asking with a cached token sends the request at once, and  *)
(* everybody who waits for a token sends theirs when it comes.  Any        *)
(* request may fail.  The caller takes the outcome from calls.             *)
(***************************************************************************)
EXTENDS Integers, FiniteSets

CONSTANTS
    None,
    Calls,    \* names for the calls under way, one for each caller
    Margin,   \* how long before it expires a token is no longer used
    Latency,  \* how long at most a request takes
    Lives,    \* how long Tuya's tokens are valid
    Horizon   \* bound: the clock stops here

ASSUME TokenAssumption ==
    /\ None \notin Calls
    /\ Margin \in Nat /\ Latency \in Nat /\ Horizon \in Nat
    /\ 2 * Latency <= Margin
    /\ Lives \subseteq Nat /\ \A life \in Lives : life > Margin

VARIABLES
    now,          \* Date.now()
    cachedToken,  \* with the time until which Tuya accepts it
    pendingMint,  \* the call that started the mint all wait for, or None
    mints,        \* the requests for a token under way
    calls         \* how far each call is

tokenVars == <<now, cachedToken, pendingMint, mints, calls>>

Token == [expiresAt : Nat, validUntil : Nat]
NoToken == [expiresAt |-> 0, validUntil |-> 0]
Mint == [by : Calls, askedAt : Nat]
Idle == [stage |-> "idle"]
Waiting(mint) == [stage |-> "waiting", mint |-> mint]
Sent(token) == [stage |-> "sent", at |-> now, validUntil |-> token.validUntil]
Ended(how) == [stage |-> how]

Call ==
    {Idle} \cup [stage : {"waiting"}, mint : Calls]
           \cup [stage : {"sent"}, at : Nat, validUntil : Nat]
           \cup [stage : {"answered", "failed"}]

TokenInit ==
    /\ now = 1
    /\ cachedToken = NoToken
    /\ pendingMint = None
    /\ mints = {}
    /\ calls = [c \in Calls |-> Idle]

UsableUpToTheMargin(token) == token.expiresAt >= now + Margin

Usable(token) == token.expiresAt > now + Margin

(* getAccessToken without a usable token.                                  *)
JoinMint(c) ==
    IF pendingMint = None
    THEN /\ pendingMint' = c
         /\ mints' = mints \cup {[by |-> c, askedAt |-> now]}
    ELSE UNCHANGED <<pendingMint, mints>>

(* getDeviceStatus, getDeviceInfo, sendCommand, triggerScene, getSceneRule *)
(* and getDeviceLogs up to where they wait.                                *)
Ask(c) ==
    /\ IF Usable(cachedToken)
       THEN /\ calls' = [calls EXCEPT ![c] = Sent(cachedToken)]
            /\ UNCHANGED <<pendingMint, mints>>
       ELSE /\ JoinMint(c)
            /\ calls' = [calls EXCEPT ![c] = Waiting(pendingMint')]
    /\ UNCHANGED <<now, cachedToken>>

(* What becomes of those who wait for mint m.                              *)
Settle(m, outcome) ==
    calls' = [c \in Calls |-> IF calls[c] = Waiting(m.by) THEN outcome ELSE calls[c]]

(* Tuya issues the token at some moment before its answer arrives, from    *)
(* which expiresAt counts.                                                 *)
MintAnswers(m) ==
    /\ \E life \in Lives, issuedAt \in m.askedAt .. now :
        cachedToken' = [expiresAt |-> now + life, validUntil |-> issuedAt + life]
    /\ pendingMint' = None
    /\ mints' = mints \ {m}
    /\ Settle(m, Sent(cachedToken'))
    /\ UNCHANGED now

MintFailsForGood(m) ==
    /\ mints' = mints \ {m}
    /\ Settle(m, Ended("failed"))
    /\ UNCHANGED <<now, cachedToken, pendingMint>>

MintFails(m) ==
    /\ pendingMint' = None
    /\ mints' = mints \ {m}
    /\ Settle(m, Ended("failed"))
    /\ UNCHANGED <<now, cachedToken>>

(* request from Tuya's answer, or the failure, on.                         *)
CallEnds(c) ==
    /\ calls[c].stage = "sent"
    /\ \E how \in {"answered", "failed"} : calls' = [calls EXCEPT ![c] = Ended(how)]
    /\ UNCHANGED <<now, cachedToken, pendingMint, mints>>

(* No request takes longer than Latency.                                   *)
TokenTick ==
    /\ now < Horizon
    /\ \A m \in mints : now < m.askedAt + Latency
    /\ \A c \in Calls : calls[c].stage = "sent" => now < calls[c].at + Latency
    /\ now' = now + 1
    /\ UNCHANGED <<cachedToken, pendingMint, mints, calls>>

(* The process dies; what it had is in memory only.                        *)
ForgetToken ==
    /\ cachedToken' = NoToken
    /\ pendingMint' = None
    /\ mints' = {}
    /\ calls' = [c \in Calls |-> Idle]
    /\ UNCHANGED now

MintEnds == \E m \in mints : MintAnswers(m) \/ MintFails(m)

-----------------------------------------------------------------------------
(* Every variable keeps its type.                                          *)
TokenTypeOK ==
    /\ now \in Nat
    /\ cachedToken \in Token
    /\ pendingMint \in Calls \cup {None}
    /\ mints \subseteq Mint
    /\ calls \in [Calls -> Call]

(* One token is minted at a time however many calls need one, and nobody   *)
(* waits for a mint that has already ended, as they would for good if a    *)
(* failed one stayed in pendingMint.                                       *)
MintIsShared ==
    /\ \A m \in mints : m.by = pendingMint
    /\ Cardinality(mints) <= 1
    /\ \A c \in Calls : calls[c].stage = "waiting" => \E m \in mints : calls[c].mint = m.by

(* No request reaches Tuya with an expired token, although expiresAt       *)
(* counts from the answer and not from the issue, and the request itself   *)
(* takes time: the margin pays for both.                                   *)
TokenOutlivesItsCalls ==
    \A c \in Calls : calls[c].stage = "sent" => now < calls[c].validUntil

=============================================================================
