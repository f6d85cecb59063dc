------------------------------- MODULE Incidents -------------------------------
(***************************************************************************)
(* What the correlator promises of the incidents it is handed: each is     *)
(* told to the group in the order they came and once, or not at all; one   *)
(* that has to wait is not overtaken, and does not wait for ever.          *)
(***************************************************************************)
EXTENDS Naturals, Sequences

VARIABLES
    arrived,  \* number of incidents and acknowledgements so far
    waiting,  \* the incidents that wait for others to be told with
    told      \* the messages told, each a sequence of incidents

vars == <<arrived, waiting, told>>

Init == arrived = 0 /\ waiting = <<>> /\ told = <<>>

(* All that waits is told in one message, or all is dropped.               *)
Settle(all) == waiting' = <<>> /\ told' \in {told, Append(told, all)}

Arrive ==
    /\ arrived' = arrived + 1
    /\ \/ waiting' = Append(waiting, arrived') /\ UNCHANGED told
       \/ Settle(Append(waiting, arrived'))
       \/ UNCHANGED <<waiting, told>>

(* That the remote was understood is told at once, with no incident.       *)
Acknowledge ==
    /\ arrived' = arrived + 1
    /\ told' = Append(told, <<>>)
    /\ waiting' \in {waiting, <<>>}

Close == waiting # <<>> /\ Settle(waiting) /\ UNCHANGED arrived

Next == Arrive \/ Acknowledge \/ Close

Spec == Init /\ [][Next]_vars /\ WF_vars(Close)

=============================================================================
