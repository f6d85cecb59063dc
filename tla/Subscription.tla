----------------------------- MODULE Subscription -----------------------------
(***************************************************************************)
(* What app.js relies on when it has started a client of Tuya's message    *)
(* service: that it is connected, or tries to be, until Limit attempts in  *)
(* a row have failed.  What it cannot rely on is that an attempt ends: one *)
(* that nobody answers may leave the client stuck for good.                *)
(***************************************************************************)
EXTENDS Naturals

CONSTANT Limit

VARIABLES
    link,   \* "idle", "trying", "stuck", "connected" or "over"
    failed  \* the attempts that failed since it was last connected

Init == link = "idle" /\ failed = 0

Begin == link = "idle" /\ link' = "trying" /\ UNCHANGED failed

Succeed == link = "trying" /\ link' = "connected" /\ failed' = 0

(* The first attempt of all is not counted as a retry.                     *)
Fail ==
    /\ link = "trying"
    /\ failed' = failed + 1
    /\ \/ link' = "trying" /\ failed' <= Limit
       \/ link' = "over" /\ failed' >= Limit

(* The answer to an attempt is lost.                                       *)
Stick == link = "trying" /\ link' = "stuck" /\ UNCHANGED failed

Lose ==
    /\ link = "connected"
    /\ link' = IF Limit = 0 THEN "over" ELSE "trying"
    /\ UNCHANGED failed

Next == Begin \/ Succeed \/ Fail \/ Stick \/ Lose

Spec ==
    /\ Init /\ [][Next]_<<link, failed>>
    /\ WF_<<link, failed>>(Begin) /\ WF_<<link, failed>>(Succeed \/ Fail)

=============================================================================
