-------------------------- MODULE PulsarClientProofs --------------------------
(***************************************************************************)
(* Proofs about PulsarClient.  One connection at a time rests on the retry *)
(* counter: a retry is only waiting when nothing is connected, because     *)
(* 'close' is what starts it and connecting is what it ends in.  When the  *)
(* client gives up, the counter is at its limit, and it runs behind the    *)
(* attempts that failed in a row since only 'open' resets both.            *)
(***************************************************************************)
EXTENDS PulsarClient, TLAPS

USE PulsarAssumption

AllClosed == \A s \in Sockets : socket[s] = "closed"

Retrying ==
    /\ server = None => retryTimers = 0 /\ retryTimes = 0
    /\ retryTimers > 0 => retryTimes < MaxRetryTimes
    /\ Deaf => retryTimes = MaxRetryTimes
    /\ failures >= retryTimes - 1
    /\ AllClosed => failures >= retryTimes
    /\ \A s \in Sockets : socket[s] = "open" => retryTimes = 0

(* An open connection has something to show its death: a ping to come, one *)
(* on its way, or data no acknowledgement will come for.  One being made   *)
(* that is dead has its request unacknowledged, or only its answer missing *)
(* and nothing unacknowledged.  Either may miss an answer alone.           *)
Watched ==
    /\ \A s \in Sockets : socket[s] = "open" => s \in pings \cup answering \cup unacked \cup answerLost
    /\ \A s \in Sockets : socket[s] = "connecting" =>
           s \notin answering /\ (s \in lost => (s \in unacked <=> s \notin answerLost))
    /\ unacked \cup answerLost \subseteq lost
    /\ lost \cap answering = {}
    /\ \A s \in lost \cup answering : socket[s] # "closed"

Inv == PulsarTypeOK /\ OneConnection /\ Retrying /\ Watched

-----------------------------------------------------------------------------
LEMMA PulsarInitInv == PulsarInit => Inv
<1> SUFFICES ASSUME PulsarInit PROVE Inv
  OBVIOUS
<1>1. PulsarTypeOK
  BY DEF PulsarInit, PulsarTypeOK
<1>2. OneConnection /\ Retrying /\ Watched
  BY DEF PulsarInit, OneConnection, Retrying, Watched, AllClosed, Deaf
<1> QED BY <1>1, <1>2 DEF Inv

(* Connecting, whoever asks for it, while nothing is connected.            *)
LEMMA ConnectInv ==
    ASSUME Inv, AllClosed, Connect,
           retryTimers' = 0, retryTimes' \in 0 .. MaxRetryTimes, failures >= retryTimes' - 1,
           UNCHANGED <<timer, pings, networkVars, failures, answerLost>>
    PROVE  Inv'
<1>1. PICK s \in Sockets : /\ s \notin pings /\ socket[s] = "closed" /\ server' = s
                           /\ socket' = [socket EXCEPT ![s] = "connecting"]
  BY DEF Connect
<1>2. pings = {}
  BY DEF AllClosed, Inv, OneConnection
<1>3. /\ socket'[s] = "connecting" /\ server' # None
      /\ \A r \in Sockets \ {s} : socket'[r] = "closed"
  BY <1>1 DEF Inv, PulsarTypeOK, AllClosed
<1>4. PulsarTypeOK'
  BY <1>1 DEF Inv, PulsarTypeOK, networkVars
<1>5. OneConnection'
  BY <1>1, <1>2, <1>3 DEF OneConnection
<1>6. Retrying'
  <2>1. ~AllClosed' /\ ~Deaf' /\ \A r \in Sockets : socket'[r] # "open"
    BY <1>3 DEF AllClosed, Deaf
  <2> QED BY <1>3, <2>1 DEF Retrying
<1>7. Watched'
  <2>1. lost = {} /\ answering = {}
    BY DEF Inv, PulsarTypeOK, Watched, AllClosed
  <2>2. unacked = {} /\ answerLost = {}
    BY <2>1 DEF Inv, Watched
  <2>3. lost' = {} /\ answering' = {} /\ unacked' = {} /\ answerLost' = {}
    BY <2>1, <2>2 DEF networkVars
  <2> QED BY <1>3, <2>3 DEF Watched
<1> QED BY <1>4, <1>5, <1>6, <1>7 DEF Inv

LEMMA StartInv ==
    ASSUME Inv, Start
    PROVE  Inv'
<1>1. server = None /\ Connect /\ retryTimers' = retryTimers /\ retryTimes' = retryTimes
      /\ UNCHANGED <<timer, pings, networkVars, failures, answerLost>>
  BY DEF Start
<1>2. AllClosed /\ retryTimers' = 0 /\ retryTimes' \in 0 .. MaxRetryTimes
      /\ failures >= retryTimes' - 1
  BY <1>1 DEF Inv, OneConnection, Retrying, PulsarTypeOK, AllClosed
<1> QED BY <1>1, <1>2, ConnectInv

LEMMA RetryTimerFiresInv ==
    ASSUME Inv, RetryTimerFires
    PROVE  Inv'
<1>1. /\ retryTimers > 0 /\ retryTimers' = retryTimers - 1 /\ retryTimes' = retryTimes + 1
      /\ Connect /\ UNCHANGED <<timer, pings, networkVars, failures, answerLost>>
  BY DEF RetryTimerFires
<1>2. AllClosed
  <2>1. socket \in [Sockets -> {"closed", "connecting", "open"}]
    BY DEF Inv, PulsarTypeOK
  <2> QED BY <1>1, <2>1 DEF Inv, OneConnection, AllClosed
<1>3. retryTimers' = 0
  BY <1>1 DEF Inv, OneConnection
<1>4. retryTimes' \in 0 .. MaxRetryTimes /\ failures >= retryTimes' - 1
  BY <1>1, <1>2 DEF Inv, Retrying, PulsarTypeOK
<1> QED BY <1>1, <1>2, <1>3, <1>4, ConnectInv

-----------------------------------------------------------------------------
(* What is not closed is this.server, alone, with no retry waiting.        *)
LEMMA TheConnection ==
    ASSUME Inv, NEW s \in Sockets, socket[s] # "closed"
    PROVE  /\ s = server /\ server # None /\ retryTimers = 0
           /\ \A r \in Sockets \ {s} : socket[r] = "closed"
BY DEF Inv, OneConnection

LEMMA OpensInv ==
    ASSUME Inv, NEW s \in Sockets, Opens(s)
    PROVE  Inv'
<1>1. /\ socket[s] = "connecting" /\ s \notin lost /\ socket' = [socket EXCEPT ![s] = "open"]
      /\ retryTimes' = 0 /\ failures' = 0
      /\ pings' = (pings \ {timer}) \cup {s} /\ timer' = s
      /\ UNCHANGED <<server, retryTimers, lost, answering, unacked, inbox, faults, answerLost>>
  BY DEF Opens, KeepAlive, networkVars
<1>2. s = server /\ server # None /\ retryTimers = 0 /\ \A r \in Sockets \ {s} : socket[r] = "closed"
  BY <1>1, TheConnection
<1>3. socket'[s] = "open" /\ \A r \in Sockets \ {s} : socket'[r] = "closed"
  BY <1>1, <1>2 DEF Inv, PulsarTypeOK
<1>4. pings' = {s}
  BY <1>1 DEF Inv, OneConnection
<1>5. PulsarTypeOK'
  <2>1. socket' \in [Sockets -> {"closed", "connecting", "open"}]
    BY <1>1 DEF Inv, PulsarTypeOK
  <2>2. 0 \in 0 .. MaxRetryTimes
    OBVIOUS
  <2> QED BY <1>1, <1>4, <2>1, <2>2 DEF Inv, PulsarTypeOK
<1>6. OneConnection'
  BY <1>1, <1>2, <1>3, <1>4 DEF OneConnection
<1>7. Retrying'
  BY <1>1, <1>2, <1>3 DEF Retrying, AllClosed, Deaf
<1>8. Watched'
  BY <1>1, <1>3, <1>4 DEF Inv, Watched
<1> QED BY <1>5, <1>6, <1>7, <1>8 DEF Inv

(* 'close', after a failure to connect (one more in a row) or after a time *)
(* of being connected.                                                     *)
LEMMA ClosedInv ==
    ASSUME Inv, NEW s \in Sockets, Closed(s), faults' \in Nat,
           \/ socket[s] = "connecting" /\ failures' = failures + 1
           \/ socket[s] = "open" /\ failures' = failures
    PROVE  Inv'
<1>1. /\ socket' = [socket EXCEPT ![s] = "closed"]
      /\ retryTimers' = IF retryTimes < MaxRetryTimes THEN retryTimers + 1 ELSE retryTimers
      /\ pings' = pings \ {timer}
      /\ lost' = lost \ {s} /\ answering' = answering \ {s}
      /\ unacked' = unacked \ {s} /\ answerLost' = answerLost \ {s}
      /\ UNCHANGED <<server, retryTimes, inbox, timer>>
  BY DEF Closed, Reconnect, ClearKeepAlive
<1>2. s = server /\ server # None /\ retryTimers = 0 /\ \A r \in Sockets \ {s} : socket[r] = "closed"
  BY TheConnection
<1>3. AllClosed'
  BY <1>1, <1>2 DEF Inv, PulsarTypeOK, AllClosed
<1>4. pings' = {}
  BY <1>1 DEF Inv, OneConnection
<1>5. retryTimers' = IF retryTimes < MaxRetryTimes THEN 1 ELSE 0
  BY <1>1, <1>2
<1>6. PulsarTypeOK'
  <2>1. socket' \in [Sockets -> {"closed", "connecting", "open"}]
    BY <1>1 DEF Inv, PulsarTypeOK
  <2>2. retryTimers' \in Nat /\ failures' \in Nat
    BY <1>5 DEF Inv, PulsarTypeOK
  <2> QED BY <1>1, <1>4, <2>1, <2>2 DEF Inv, PulsarTypeOK
<1>7. OneConnection'
  BY <1>3, <1>4, <1>5 DEF OneConnection, AllClosed
<1>8. Retrying'
  <2>1. retryTimes \in 0 .. MaxRetryTimes /\ failures \in Nat
    BY DEF Inv, PulsarTypeOK
  <2>2. failures' >= retryTimes'
    BY <1>1, <2>1 DEF Inv, Retrying
  <2>3. Deaf' => retryTimes' = MaxRetryTimes
    BY <1>1, <1>5, <2>1 DEF Deaf
  <2>4. retryTimers' > 0 => retryTimes' < MaxRetryTimes
    BY <1>1, <1>5
  <2>5. \A r \in Sockets : socket'[r] # "open"
    BY <1>3 DEF AllClosed
  <2> QED BY <1>1, <1>2, <2>1, <2>2, <2>3, <2>4, <2>5 DEF Retrying
<1>9. Watched'
  BY <1>1, <1>2, <1>3 DEF Inv, Watched, AllClosed
<1> QED BY <1>6, <1>7, <1>8, <1>9 DEF Inv

(* Steps of an open connection and its timers: the socket, this.server and *)
(* the retries stay.                                                       *)
LEMMA OpenStepInv ==
    ASSUME Inv, PulsarTypeOK', NEW s \in Sockets, socket[s] = "open",
           UNCHANGED <<socket, server, retryTimes, retryTimers, failures>>,
           \/ pings' = {s} /\ timer' = s
           \/ pings' \subseteq pings /\ timer' = timer,
           s \in pings' \cup answering' \cup unacked' \cup answerLost',
           unacked' \cup answerLost' \subseteq lost',
           lost' \subseteq lost \cup {s}, answering' \subseteq answering \cup {s},
           s \notin lost' \cap answering'
    PROVE  Inv'
<1>1. s = server /\ \A r \in Sockets \ {s} : socket[r] = "closed"
  BY TheConnection
<1>2. OneConnection'
  BY <1>1 DEF Inv, OneConnection
<1>3. Retrying'
  BY DEF Inv, Retrying, AllClosed, Deaf
<1>4. Watched'
  <2>1. lost \subseteq {s} /\ answering \subseteq {s}
    BY <1>1 DEF Inv, Watched, PulsarTypeOK
  <2>2. lost' \subseteq {s} /\ answering' \subseteq {s}
    BY <2>1
  <2> QED BY <1>1, <2>2 DEF Watched
<1> QED BY <1>2, <1>3, <1>4 DEF Inv

(* Only the connection at hand is ever pinged.                             *)
LEMMA PingsOfOne ==
    ASSUME Inv
    PROVE  pings \ {timer} = {} /\ \A s \in pings : socket[s] = "open"
BY DEF Inv, OneConnection

LEMMA PingTimerFiresInv ==
    ASSUME Inv, NEW s \in Sockets, PingTimerFires(s)
    PROVE  Inv'
<1>1. socket[s] = "open"
  BY PingsOfOne DEF PingTimerFires
<1>2. PulsarTypeOK'
  BY DEF Inv, PulsarTypeOK, PingTimerFires
<1>3. s \in answering' \cup unacked' /\ s \notin lost' \cap answering'
  BY DEF Inv, Watched, PingTimerFires
<1>4. unacked' \cup answerLost' \subseteq lost'
  BY DEF Inv, Watched, PingTimerFires
<1> QED BY <1>1, <1>2, <1>3, <1>4, OpenStepInv DEF PingTimerFires

LEMMA ReceiveInv ==
    ASSUME Inv, NEW s \in Sockets, PongArrives(s) \/ PeerPings(s)
    PROVE  Inv'
<1>1. socket[s] = "open" /\ pings' = {s} /\ timer' = s
  BY PingsOfOne DEF PongArrives, PeerPings, KeepAlive
<1>2. PulsarTypeOK'
  BY <1>1 DEF Inv, PulsarTypeOK, PongArrives, PeerPings, networkVars
<1>3. s \notin lost' \cap answering'
  BY DEF Inv, Watched, PongArrives, PeerPings, networkVars
<1>4. unacked' \cup answerLost' \subseteq lost'
  BY DEF Inv, Watched, PongArrives, PeerPings, networkVars
<1> QED BY <1>1, <1>2, <1>3, <1>4, OpenStepInv DEF PongArrives, PeerPings, networkVars

LEMMA PeerVanishesInv ==
    ASSUME Inv, NEW s \in Sockets, PeerVanishes(s)
    PROVE  Inv'
<1>1. socket[s] = "open" /\ UNCHANGED <<socket, server, retryTimes, retryTimers, failures>>
      /\ UNCHANGED <<timer, pings, inbox>>
      /\ lost' = lost \cup {s} /\ answering' = answering \ {s}
      /\ faults' = faults + 1
      /\ \/ answerLost' = answerLost /\ unacked' = IF s \in answering THEN unacked \cup {s} ELSE unacked
         \/ answerLost' = answerLost \cup {s} /\ unacked' = unacked
  BY DEF PeerVanishes, NetworkFails, clientVars
<1>2. PulsarTypeOK'
  BY <1>1 DEF Inv, PulsarTypeOK
<1>3. s \in pings' \cup answering' \cup unacked' \cup answerLost'
  BY <1>1 DEF Inv, Watched
<1>4. unacked' \cup answerLost' \subseteq lost'
  BY <1>1 DEF Inv, Watched
<1> QED BY <1>1, <1>2, <1>3, <1>4, OpenStepInv

LEMMA HandshakeIsLostInv ==
    ASSUME Inv, NEW s \in Sockets, HandshakeIsLost(s)
    PROVE  Inv'
<1>1. /\ socket[s] = "connecting" /\ s \notin lost
      /\ UNCHANGED <<socket, server, retryTimes, retryTimers, timer, pings>>
      /\ UNCHANGED <<answering, inbox, failures>>
      /\ lost' = lost \cup {s} /\ faults' = faults + 1
      /\ \/ unacked' = unacked \cup {s} /\ answerLost' = answerLost
         \/ answerLost' = answerLost \cup {s} /\ unacked' = unacked
  BY DEF HandshakeIsLost, NetworkFails, clientVars
<1>2. PulsarTypeOK'
  BY <1>1 DEF Inv, PulsarTypeOK
<1>3. OneConnection'
  BY <1>1 DEF Inv, OneConnection
<1>4. Retrying'
  BY <1>1 DEF Inv, Retrying, AllClosed, Deaf
<1>5. Watched'
  <2>1. s \notin answering /\ s \notin unacked /\ s \notin answerLost
    BY <1>1 DEF Inv, Watched
  <2>2. \A r \in Sockets \ {s} : socket[r] = "closed"
    BY <1>1, TheConnection
  <2> QED BY <1>1, <2>1, <2>2 DEF Inv, Watched
<1> QED BY <1>2, <1>3, <1>4, <1>5 DEF Inv

LEMMA MessageArrivesInv ==
    ASSUME Inv, NEW m \in Messages, MessageArrives(m)
    PROVE  Inv'
<1>1. PICK s \in Sockets \ lost :
        /\ socket[s] = "open" /\ KeepAlive(s)
        /\ inbox' \in {[inbox EXCEPT ![m] = "acked"], [inbox EXCEPT ![m] = "out"]}
        /\ \/ UNCHANGED <<lost, answering, unacked, faults>>
           \/ /\ faults' = faults + 1 /\ lost' = lost \cup {s}
              /\ unacked' = unacked \cup {s} /\ answering' = answering \ {s}
        /\ UNCHANGED <<socket, server, retryTimes, retryTimers, failures, answerLost>>
  BY DEF MessageArrives, NetworkFails
<1>2. pings' = {s} /\ timer' = s
  BY <1>1, PingsOfOne DEF KeepAlive
<1>3. PulsarTypeOK'
  <2>1. inbox' \in [Messages -> {"ready", "out", "acked"}]
    BY <1>1 DEF Inv, PulsarTypeOK
  <2> QED BY <1>1, <1>2, <2>1 DEF Inv, PulsarTypeOK
<1>4. s \notin lost' \cap answering'
  BY <1>1
<1>5. unacked' \cup answerLost' \subseteq lost'
  BY <1>1 DEF Inv, Watched
<1> QED BY <1>1, <1>2, <1>3, <1>4, <1>5, OpenStepInv

(* The kernel only closes a connection that is there.                      *)
LEMMA KernelClosesOne ==
    ASSUME Inv, NEW s \in Sockets, KernelGivesUp(s)
    PROVE  socket[s] # "closed" /\ s \in unacked /\ s \in lost
BY DEF KernelGivesUp, Inv, Watched

LEMMA KernelGivesUpInv ==
    ASSUME Inv, NEW s \in Sockets, KernelGivesUp(s)
    PROVE  Inv'
<1>1. socket[s] \in {"connecting", "open"}
  BY KernelClosesOne DEF Inv, PulsarTypeOK
<1>2. Closed(s) /\ faults' \in Nat
  BY DEF KernelGivesUp, Inv, PulsarTypeOK
<1>3. failures' = IF socket[s] = "connecting" THEN failures + 1 ELSE failures
  BY DEF KernelGivesUp
<1> QED BY <1>1, <1>2, <1>3, ClosedInv

LEMMA PulsarNextInv == Inv /\ [PulsarNext]_vars => Inv'
<1> SUFFICES ASSUME Inv, [PulsarNext]_vars PROVE Inv'
  OBVIOUS
<1>1. faults \in Nat /\ faults + 1 \in Nat
  BY DEF Inv, PulsarTypeOK
<1>2. CASE Start \/ RetryTimerFires
  BY <1>2, StartInv, RetryTimerFiresInv
<1>3. ASSUME NEW s \in Sockets, Opens(s) \/ PongArrives(s) \/ PingTimerFires(s)
                                 \/ PeerVanishes(s) \/ PeerPings(s) \/ HandshakeIsLost(s)
      PROVE  Inv'
  BY <1>3, OpensInv, ReceiveInv, PingTimerFiresInv, PeerVanishesInv, HandshakeIsLostInv
<1>4. ASSUME NEW s \in Sockets, ConnectFails(s) \/ PeerCloses(s) \/ KernelGivesUp(s)
      PROVE  Inv'
  BY <1>1, <1>4, ClosedInv, KernelGivesUpInv DEF ConnectFails, PeerCloses, NetworkFails
<1>5. ASSUME NEW m \in Messages, BrokerTimesOut(m) PROVE Inv'
  <2>1. PulsarTypeOK'
    BY <1>5 DEF BrokerTimesOut, clientVars, Inv, PulsarTypeOK
  <2> QED BY <1>5, <2>1 DEF BrokerTimesOut, clientVars, Inv, OneConnection, Retrying, AllClosed,
                            Deaf, Watched
<1>6. ASSUME NEW m \in Messages, MessageArrives(m) PROVE Inv'
  BY <1>6, MessageArrivesInv
<1>7. CASE UNCHANGED vars
  BY <1>7 DEF vars, clientVars, networkVars, Inv, PulsarTypeOK, OneConnection, Retrying, AllClosed,
              Deaf, Watched
<1> QED BY <1>2, <1>3, <1>4, <1>5, <1>6, <1>7 DEF PulsarNext, NetworkStep

(* The client has one connection and one retry at most, and gives up no    *)
(* sooner than it says, for any limit, network and broker: index.ts        *)
(* 92-135, 170-193.                                                        *)
THEOREM ClientSafety ==
    PulsarSpec => [](PulsarTypeOK /\ OneConnection /\ GivesUpOnlyAfterMaxRetries)
<1>1. Inv => PulsarTypeOK /\ OneConnection /\ GivesUpOnlyAfterMaxRetries
  BY DEF Inv, Retrying, GivesUpOnlyAfterMaxRetries, Deaf, AllClosed
<1> QED BY <1>1, PulsarInitInv, PulsarNextInv, PTL DEF PulsarSpec

(* The safety side of LostConnectionIsNoticed: a connection that has gone  *)
(* dead, open or being made, has a ping to come or data unacknowledged,    *)
(* unless only an answer was lost: index.ts 111-135, 181-193.              *)
NoSilentDeath == lost \ answerLost \subseteq pings \cup unacked

THEOREM DeadConnectionsAreWatched == PulsarSpec => []NoSilentDeath
<1>1. Inv => NoSilentDeath
  BY DEF Inv, Watched, NoSilentDeath, PulsarTypeOK
<1> QED BY <1>1, PulsarInitInv, PulsarNextInv, PTL DEF PulsarSpec

-----------------------------------------------------------------------------
(* That the client implements Subscription, but for the liveness: the      *)
(* failures that it counts as retries are at most one behind those that    *)
(* happened, so it goes on as long as it promised to.                      *)
Counting ==
    /\ server = None => failures = 0
    /\ \A s \in Sockets : socket[s] = "open" => failures = 0
    /\ \A s \in Sockets : socket[s] = "connecting" => failures <= retryTimes
    /\ AllClosed => failures <= retryTimes + 1

(* How Link is read off the state.                                         *)
LinkRead ==
    /\ server = None => AllClosed /\ Link = "idle"
    /\ \A s \in Sockets : socket[s] = "open" => Link = "connected"
    /\ \A s \in Sockets : socket[s] = "connecting" =>
           Link = IF s \in answerLost THEN "stuck" ELSE "trying"
    /\ AllClosed /\ server # None => Link = IF retryTimers = 0 THEN "over" ELSE "trying"

LEMMA LinkOf == Inv => LinkRead
<1> SUFFICES ASSUME Inv PROVE LinkRead
  OBVIOUS
<1>1. server = None => AllClosed
  BY DEF Inv, OneConnection, AllClosed
<1>2. ASSUME NEW s \in Sockets, socket[s] = "connecting"
      PROVE  \A r \in Sockets : socket[r] # "open"
  BY <1>2 DEF Inv, OneConnection
<1>3. ASSUME NEW s \in Sockets, socket[s] = "connecting"
      PROVE  Link = IF s \in answerLost THEN "stuck" ELSE "trying"
  <2>1. server # None /\ ~Deaf /\ \A r \in Sockets \ {s} : socket[r] = "closed"
    BY <1>3, TheConnection DEF Deaf
  <2>2. (\E r \in answerLost : socket[r] = "connecting") <=> s \in answerLost
    BY <1>3, <2>1 DEF Inv, PulsarTypeOK
  <2> QED BY <1>2, <1>3, <2>1, <2>2 DEF Link
<1>4. ASSUME AllClosed, server # None
      PROVE  Link = IF retryTimers = 0 THEN "over" ELSE "trying"
  <2>1. ~\E r \in answerLost : socket[r] = "connecting"
    BY <1>4 DEF AllClosed, Inv, PulsarTypeOK
  <2> QED BY <1>4, <2>1 DEF Link, Deaf, AllClosed
<1>5. ASSUME NEW s \in Sockets, socket[s] = "open"
      PROVE  Link = "connected"
  <2>1. server # None /\ \A r \in Sockets : socket[r] # "connecting"
    BY <1>5, TheConnection
  <2>2. ~Deaf /\ ~\E r \in answerLost : socket[r] = "connecting"
    BY <1>5, <2>1 DEF Deaf, Inv, PulsarTypeOK
  <2> QED BY <1>5, <2>1, <2>2 DEF Link
<1>6. ASSUME server = None
      PROVE  Link = "idle"
  <2>1. ~\E r \in answerLost : socket[r] = "connecting"
    BY <1>1, <1>6 DEF AllClosed, Inv, PulsarTypeOK
  <2> QED BY <1>1, <1>6, <2>1 DEF Link, AllClosed, Deaf
<1> QED BY <1>1, <1>3, <1>4, <1>5, <1>6 DEF LinkRead

LEMMA LinkOfNext == Inv' => LinkRead'
  BY LinkOf, PTL

(* What is lost is lost on a connection.                                   *)
LEMMA NothingLost ==
    ASSUME Inv, AllClosed
    PROVE  answerLost = {}
BY DEF Inv, PulsarTypeOK, Watched, AllClosed

LEMMA StartKeeps ==
    ASSUME Inv, Inv', Counting, Start
    PROVE  Counting' /\ Promise!Begin
<1>1. AllClosed /\ Link = "idle" /\ failures = 0
  BY LinkOf DEF LinkRead, Start, Counting
<1>2. PICK s \in Sockets : socket' = [socket EXCEPT ![s] = "connecting"] /\ server' = s
  BY DEF Start, Connect
<1>3. /\ socket'[s] = "connecting" /\ server' # None
      /\ \A r \in Sockets \ {s} : socket'[r] = "closed"
      /\ UNCHANGED <<failures, retryTimes>>
  BY <1>1, <1>2 DEF Start, AllClosed, Inv, PulsarTypeOK
<1>4. Link' = "trying"
  BY <1>1, <1>3, NothingLost, LinkOfNext DEF LinkRead, Start
<1>5. Counting'
  BY <1>1, <1>3 DEF Counting, AllClosed, Inv, PulsarTypeOK
<1> QED BY <1>1, <1>3, <1>4, <1>5 DEF Promise!Begin

LEMMA RetryTimerFiresKeeps ==
    ASSUME Inv, Inv', Counting, RetryTimerFires
    PROVE  Counting' /\ UNCHANGED <<Link, failures>>
<1>1. AllClosed /\ server # None /\ retryTimers # 0
  BY DEF RetryTimerFires, Inv, OneConnection, Retrying, AllClosed
<1>2. Link = "trying" /\ failures <= retryTimes + 1
  BY <1>1, LinkOf DEF LinkRead, Counting
<1>3. PICK s \in Sockets : socket' = [socket EXCEPT ![s] = "connecting"] /\ server' = s
  BY DEF RetryTimerFires, Connect
<1>4. /\ socket'[s] = "connecting" /\ server' # None
      /\ \A r \in Sockets \ {s} : socket'[r] = "closed"
      /\ retryTimes' = retryTimes + 1 /\ failures' = failures
  BY <1>1, <1>3 DEF RetryTimerFires, AllClosed, Inv, PulsarTypeOK
<1>5. Link' = "trying"
  BY <1>1, <1>4, NothingLost, LinkOfNext DEF LinkRead, RetryTimerFires
<1>6. Counting'
  BY <1>2, <1>4 DEF Counting, AllClosed
<1> QED BY <1>2, <1>4, <1>5, <1>6

LEMMA OpensKeeps ==
    ASSUME Inv, Inv', Counting, NEW s \in Sockets, Opens(s)
    PROVE  Counting' /\ Promise!Succeed
<1>1. Link = "trying" /\ failures' = 0
  BY LinkOf DEF LinkRead, Opens, Inv, Watched
<1>2. /\ socket'[s] = "open" /\ server' = server /\ server = s
      /\ \A r \in Sockets \ {s} : socket'[r] = "closed"
  BY DEF Opens, Inv, PulsarTypeOK, OneConnection
<1>3. Link' = "connected"
  BY <1>2, LinkOfNext DEF LinkRead
<1>4. Counting'
  BY <1>1, <1>2 DEF Counting, AllClosed, Inv, PulsarTypeOK
<1> QED BY <1>1, <1>3, <1>4 DEF Promise!Succeed

(* A WebSocket closes, which either starts a retry or is the end.          *)
LEMMA ClosedLeads ==
    ASSUME Inv, Inv', NEW s \in Sockets, socket[s] # "closed", Closed(s)
    PROVE  /\ AllClosed' /\ server' # None /\ retryTimes' = retryTimes
           /\ Link' = IF retryTimes < MaxRetryTimes THEN "trying" ELSE "over"
<1>1. server = s /\ retryTimers = 0 /\ \A r \in Sockets \ {s} : socket[r] = "closed"
  BY DEF Inv, OneConnection
<1>2. AllClosed' /\ server' # None
  BY <1>1 DEF Closed, AllClosed, Inv, PulsarTypeOK
<1>3. retryTimers' = IF retryTimes < MaxRetryTimes THEN 1 ELSE 0
  BY <1>1 DEF Closed, Reconnect
<1>4. retryTimes' = retryTimes
  BY DEF Closed
<1> QED BY <1>2, <1>3, <1>4, LinkOfNext DEF LinkRead

LEMMA ConnectFailsKeeps ==
    ASSUME Inv, Inv', Counting, NEW s \in Sockets, socket[s] = "connecting",
           ConnectFails(s) \/ KernelGivesUp(s)
    PROVE  Counting' /\ Promise!Fail
<1>1. s \notin answerLost /\ Closed(s) /\ failures' = failures + 1
  BY KernelClosesOne DEF ConnectFails, KernelGivesUp, Inv, Watched
<1>2. Link = "trying" /\ failures <= retryTimes
  BY <1>1, LinkOf DEF LinkRead, Counting
<1>3. /\ AllClosed' /\ server' # None /\ retryTimes' = retryTimes
      /\ Link' = IF retryTimes < MaxRetryTimes THEN "trying" ELSE "over"
  BY <1>1, ClosedLeads
<1>4. /\ retryTimes \in 0 .. MaxRetryTimes /\ failures \in Nat
      /\ failures' >= retryTimes'
  BY <1>3 DEF Inv, PulsarTypeOK, Retrying
<1>5. Counting'
  BY <1>1, <1>2, <1>3, <1>4 DEF Counting, AllClosed
<1> QED BY <1>1, <1>2, <1>3, <1>4, <1>5 DEF Promise!Fail

LEMMA LosesKeeps ==
    ASSUME Inv, Inv', Counting, NEW s \in Sockets, socket[s] = "open",
           PeerCloses(s) \/ KernelGivesUp(s)
    PROVE  Counting' /\ Promise!Lose
<1>1. Closed(s) /\ failures' = failures
  BY DEF PeerCloses, KernelGivesUp
<1>2. Link = "connected" /\ failures = 0 /\ retryTimes = 0
  BY <1>1, LinkOf DEF LinkRead, Counting, Inv, Retrying
<1>3. /\ AllClosed' /\ server' # None /\ retryTimes' = retryTimes
      /\ Link' = IF retryTimes < MaxRetryTimes THEN "trying" ELSE "over"
  BY <1>1, ClosedLeads
<1>4. Counting'
  BY <1>1, <1>2, <1>3 DEF Counting, AllClosed
<1> QED BY <1>1, <1>2, <1>3, <1>4 DEF Promise!Lose

(* A handshake whose request is lost still ends, one whose answer is lost  *)
(* is stuck.                                                               *)
LEMMA HandshakeIsLostKeeps ==
    ASSUME Inv, Inv', Counting, NEW s \in Sockets, HandshakeIsLost(s)
    PROVE  Counting' /\ [Promise!Stick]_<<Link, failures>>
<1>1. /\ socket[s] = "connecting" /\ s \notin answerLost
      /\ UNCHANGED <<socket, server, retryTimes, retryTimers, failures>>
      /\ answerLost' \in {answerLost, answerLost \cup {s}}
  BY DEF HandshakeIsLost, clientVars, Inv, Watched
<1>2. Link = "trying" /\ Link' = IF s \in answerLost' THEN "stuck" ELSE "trying"
  BY <1>1, LinkOf, LinkOfNext DEF LinkRead
<1>3. Counting'
  BY <1>1 DEF Counting, AllClosed
<1> QED BY <1>1, <1>2, <1>3 DEF Promise!Stick

(* Nothing else touches the link: an answer lost on an open connection     *)
(* does not, since only one is there.                                      *)
LEMMA LinkStays ==
    ASSUME Counting, UNCHANGED <<socket, server, retryTimes, retryTimers, failures>>,
           \A s \in Sockets : socket[s] = "connecting" => (s \in answerLost' <=> s \in answerLost),
           Inv, Inv'
    PROVE  Counting' /\ UNCHANGED <<Link, failures>>
<1>1. Counting'
  BY DEF Counting, AllClosed
<1>2. answerLost \subseteq Sockets /\ answerLost' \subseteq Sockets
  BY DEF Inv, PulsarTypeOK
<1>3. (\E s \in answerLost' : socket'[s] = "connecting")
      <=> (\E s \in answerLost : socket[s] = "connecting")
  BY <1>2
<1>4. Link' = Link
  BY <1>3 DEF Link, Deaf
<1> QED BY <1>1, <1>4

LEMMA PromiseStep ==
    Inv /\ Inv' /\ Counting /\ [PulsarNext]_vars
    => Counting' /\ [Promise!Next]_<<Link, failures>>
<1> SUFFICES ASSUME Inv, Inv', Counting, [PulsarNext]_vars
             PROVE  Counting' /\ [Promise!Next]_<<Link, failures>>
  OBVIOUS
<1> USE DEF Promise!Next
<1>1. CASE Start
  BY <1>1, StartKeeps
<1>2. CASE RetryTimerFires
  BY <1>2, RetryTimerFiresKeeps
<1>3. ASSUME NEW s \in Sockets, Opens(s)
      PROVE  Counting' /\ [Promise!Next]_<<Link, failures>>
  BY <1>3, OpensKeeps
<1>4. ASSUME NEW s \in Sockets, HandshakeIsLost(s)
      PROVE  Counting' /\ [Promise!Next]_<<Link, failures>>
  BY <1>4, HandshakeIsLostKeeps
<1>5. ASSUME NEW s \in Sockets, ConnectFails(s) \/ PeerCloses(s) \/ KernelGivesUp(s)
      PROVE  Counting' /\ [Promise!Next]_<<Link, failures>>
  <2>1. socket[s] \in {"connecting", "open"}
    BY <1>5, KernelClosesOne DEF ConnectFails, PeerCloses, Inv, PulsarTypeOK
  <2>2. CASE socket[s] = "connecting"
    <3>1. ConnectFails(s) \/ KernelGivesUp(s)
      BY <1>5, <2>2 DEF PeerCloses
    <3> QED BY <2>2, <3>1, ConnectFailsKeeps
  <2>3. CASE socket[s] = "open"
    <3>1. PeerCloses(s) \/ KernelGivesUp(s)
      BY <1>5, <2>3 DEF ConnectFails
    <3> QED BY <2>3, <3>1, LosesKeeps
  <2> QED BY <2>1, <2>2, <2>3
<1>6. ASSUME NEW s \in Sockets,
             PongArrives(s) \/ PingTimerFires(s) \/ PeerVanishes(s) \/ PeerPings(s)
      PROVE  Counting' /\ UNCHANGED <<Link, failures>>
  <2>1. UNCHANGED <<socket, server, retryTimes, retryTimers, failures>>
    BY <1>6 DEF PongArrives, PingTimerFires, PeerVanishes, PeerPings, clientVars
  <2>2. \/ answerLost' = answerLost
        \/ socket[s] = "open" /\ answerLost' = answerLost \cup {s}
    BY <1>6 DEF PongArrives, PingTimerFires, PeerVanishes, PeerPings
  <2>3. \A r \in Sockets : socket[r] = "connecting" => (r \in answerLost' <=> r \in answerLost)
    BY <2>2
  <2> QED BY <2>1, <2>3, LinkStays
<1>7. ASSUME NEW m \in Messages, BrokerTimesOut(m) \/ MessageArrives(m)
      PROVE  Counting' /\ UNCHANGED <<Link, failures>>
  BY <1>7, LinkStays DEF BrokerTimesOut, MessageArrives, clientVars
<1>8. CASE UNCHANGED vars
  BY <1>8, LinkStays DEF vars, clientVars
<1> QED BY <1>1, <1>2, <1>3, <1>4, <1>5, <1>6, <1>7, <1>8 DEF PulsarNext, NetworkStep

(* The client does what Subscription promises the application, for any     *)
(* limit and any network, and nothing else (index.ts 56-135, 170-193).     *)
THEOREM ClientImplementsSubscription ==
    PulsarSpec => Promise!Init /\ [][Promise!Next]_<<Link, failures>>
<1>1. PulsarInit => Promise!Init /\ Counting
  <2> SUFFICES ASSUME PulsarInit PROVE Promise!Init /\ Counting
    OBVIOUS
  <2>1. server = None /\ failures = 0 /\ retryTimes = 0
        /\ \A s \in Sockets : socket[s] = "closed"
    BY DEF PulsarInit
  <2>2. Link = "idle"
    BY <2>1, PulsarInitInv, LinkOf DEF LinkRead
  <2> QED BY <2>1, <2>2 DEF Promise!Init, Counting
<1>2. Inv /\ Inv' /\ Counting /\ [PulsarNext]_vars
      => Counting' /\ [Promise!Next]_<<Link, failures>>
  BY PromiseStep
<1> QED BY <1>1, <1>2, PulsarInitInv, PulsarNextInv, PTL DEF PulsarSpec

=============================================================================
