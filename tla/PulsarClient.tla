----------------------------- MODULE PulsarClient -----------------------------
(***************************************************************************)
(* tuya-pulsar-ws-node/src/index.ts: the client that keeps a WebSocket to  *)
(* Tuya's message service open, pings it after a time of silence, connects *)
(* again when it closes, and acknowledges what app.js was handed.          *)
(*                                                                         *)
(* A WebSocket object is a member of Sockets, used again once it is closed *)
(* and no timer refers to it.  The keep-alive delay is not counted: its    *)
(* timer may fire at any moment.  Behind the client are the network, which *)
(* may refuse a connection, close it, or let it go dead in silence, while  *)
(* the handshake is under way or later, and the broker, which hands out a  *)
(* message again until it is acknowledged.  The kernel closes a dead       *)
(* connection once something sent on it stays unacknowledged, and never    *)
(* closes one on which nothing is sent.  The client asks for no            *)
(* handshakeTimeout, and `ws` sets none of its own.                        *)
(***************************************************************************)
EXTENDS Integers, FiniteSets

CONSTANTS
    None,           \* no WebSocket
    Sockets,        \* names for WebSocket objects
    MaxRetryTimes,  \* the configuration's maxRetryTimes
    Messages,       \* what the broker holds for the subscription
    Unreadable,     \* the messages handleMessage throws on
    MaxFaults       \* bound: number of times the network fails

ASSUME PulsarAssumption ==
    /\ None \notin Sockets
    /\ MaxRetryTimes \in Nat /\ MaxFaults \in Nat
    /\ Unreadable \subseteq Messages

VARIABLES
    socket,       \* what state each WebSocket is in
    server,       \* this.server
    retryTimes,
    retryTimers,  \* number of timers of _reconnect in the event loop
    timer,        \* this.timer, named by the WebSocket that it pings
    pings,        \* the keep-alive timers in the event loop
    lost,         \* network: connections whose other end is gone in silence
    answering,    \* network: those on which a pong is due
    unacked,      \* network: those with data no acknowledgement will come for
    inbox,        \* broker: what became of each message
    faults,       \* number of network failures so far
    failures,     \* history: attempts to connect that failed since the last open
    answerLost    \* history: connections lost with a pong, or the handshake's
                  \* answer, still to come and all that was sent acknowledged

clientVars == <<socket, server, retryTimes, retryTimers, timer, pings>>
networkVars == <<lost, answering, unacked, inbox, faults>>
vars == <<clientVars, networkVars, failures, answerLost>>

PulsarInit ==
    /\ socket = [s \in Sockets |-> "closed"]
    /\ server = None
    /\ retryTimes = 0 /\ retryTimers = 0
    /\ timer = None /\ pings = {}
    /\ lost = {} /\ answering = {} /\ unacked = {}
    /\ inbox = [m \in Messages |-> "ready"]
    /\ faults = 0 /\ failures = 0 /\ answerLost = {}

NetworkFails == faults < MaxFaults /\ faults' = faults + 1

(* _reconnect.                                                             *)
Reconnect ==
    retryTimers' = IF retryTimes < MaxRetryTimes THEN retryTimers + 1 ELSE retryTimers

ClearKeepAliveNever == UNCHANGED <<timer, pings>>

ClearKeepAlive == pings' = pings \ {timer} /\ UNCHANGED timer

KeepAliveOnlyOnce(s) == pings' = pings \ {timer} /\ UNCHANGED timer

KeepAlive(s) == pings' = (pings \ {timer}) \cup {s} /\ timer' = s

(* _connect.                                                               *)
Connect ==
    \E s \in Sockets \ pings :
        /\ socket[s] = "closed"
        /\ socket' = [socket EXCEPT ![s] = "connecting"]
        /\ server' = s

Start ==
    /\ server = None
    /\ Connect
    /\ UNCHANGED <<retryTimes, retryTimers, timer, pings, networkVars, failures, answerLost>>

RetryTimerFires ==
    /\ retryTimers > 0
    /\ retryTimers' = retryTimers - 1
    /\ retryTimes' = retryTimes + 1
    /\ Connect
    /\ UNCHANGED <<timer, pings, networkVars, failures, answerLost>>

OpensKeepingCount(s) ==
    /\ socket[s] = "connecting" /\ s \notin lost
    /\ socket' = [socket EXCEPT ![s] = "open"]
    /\ KeepAlive(s)
    /\ failures' = 0
    /\ UNCHANGED <<server, retryTimes, retryTimers, networkVars, answerLost>>

OpensUnwatched(s) ==
    /\ socket[s] = "connecting" /\ s \notin lost
    /\ socket' = [socket EXCEPT ![s] = "open"]
    /\ retryTimes' = 0
    /\ failures' = 0
    /\ UNCHANGED <<server, retryTimers, timer, pings, networkVars, answerLost>>

(* The handler of 'open'.                                                  *)
Opens(s) ==
    /\ socket[s] = "connecting" /\ s \notin lost
    /\ socket' = [socket EXCEPT ![s] = "open"]
    /\ retryTimes' = 0
    /\ KeepAlive(s)
    /\ failures' = 0
    /\ UNCHANGED <<server, retryTimers, networkVars, answerLost>>

(* The handler of 'close'.                                                 *)
Closed(s) ==
    /\ socket' = [socket EXCEPT ![s] = "closed"]
    /\ Reconnect
    /\ ClearKeepAlive
    /\ lost' = lost \ {s}
    /\ answering' = answering \ {s}
    /\ unacked' = unacked \ {s}
    /\ answerLost' = answerLost \ {s}
    /\ UNCHANGED <<server, retryTimes, inbox>>

ConnectFails(s) ==
    /\ socket[s] = "connecting" /\ s \notin lost
    /\ NetworkFails
    /\ failures' = failures + 1
    /\ Closed(s)

PeerCloses(s) ==
    /\ socket[s] = "open" /\ s \notin lost
    /\ NetworkFails
    /\ Closed(s)
    /\ UNCHANGED failures

KernelGivesUp(s) ==
    /\ s \in unacked
    /\ failures' = IF socket[s] = "connecting" THEN failures + 1 ELSE failures
    /\ Closed(s)
    /\ UNCHANGED faults

(* The other end of a connection that is being made vanishes, before or    *)
(* after it has acknowledged the handshake's request.                      *)
HandshakeIsLost(s) ==
    /\ socket[s] = "connecting" /\ s \notin lost
    /\ NetworkFails
    /\ lost' = lost \cup {s}
    /\ \/ unacked' = unacked \cup {s} /\ UNCHANGED answerLost
       \/ answerLost' = answerLost \cup {s} /\ UNCHANGED unacked
    /\ UNCHANGED <<clientVars, answering, inbox, failures>>

(* A ping on its way is lost with the connection, or has been acknowledged *)
(* by the kernel at the other end and only the pong is lost.               *)
PeerVanishes(s) ==
    /\ socket[s] = "open" /\ s \notin lost
    /\ NetworkFails
    /\ lost' = lost \cup {s}
    /\ answering' = answering \ {s}
    /\ \/ UNCHANGED answerLost
          /\ unacked' = IF s \in answering THEN unacked \cup {s} ELSE unacked
       \/ s \in answering \ pings /\ answerLost' = answerLost \cup {s} /\ UNCHANGED unacked
    /\ UNCHANGED <<clientVars, inbox, failures>>

(* The callback of keepAlive.  The client sets no timer for the pong.      *)
PingTimerFires(s) ==
    /\ s \in pings
    /\ pings' = pings \ {s}
    /\ answering' = IF s \in lost THEN answering ELSE answering \cup {s}
    /\ unacked' = IF s \in lost THEN unacked \cup {s} ELSE unacked
    /\ UNCHANGED <<socket, server, retryTimes, retryTimers, timer, lost, inbox, faults,
                   failures, answerLost>>

PongArrives(s) ==
    /\ socket[s] = "open" /\ s \in answering
    /\ answering' = answering \ {s}
    /\ KeepAlive(s)
    /\ UNCHANGED <<socket, server, retryTimes, retryTimers, lost, unacked, inbox, faults,
                   failures, answerLost>>

PeerPings(s) ==
    /\ socket[s] = "open" /\ s \notin lost
    /\ KeepAlive(s)
    /\ UNCHANGED <<socket, server, retryTimes, retryTimers, networkVars, failures, answerLost>>

BrokerTimesOut(m) ==
    /\ inbox[m] = "out"
    /\ inbox' = [inbox EXCEPT ![m] = "ready"]
    /\ UNCHANGED <<clientVars, lost, answering, unacked, faults, failures, answerLost>>

(* The handler of 'message' up to app.js's first statement, which calls    *)
(* ackMessage; one that cannot be read never reaches app.js.  The          *)
(* connection may go dead before the acknowledgement is through.           *)
MessageArrives(m) ==
    \E s \in Sockets \ lost :
        /\ socket[s] = "open" /\ inbox[m] = "ready"
        /\ KeepAlive(s)
        /\ \/ /\ m \notin Unreadable /\ socket[server] = "open" /\ server \notin lost
              /\ inbox' = [inbox EXCEPT ![m] = "acked"]
              /\ UNCHANGED <<lost, answering, unacked, faults>>
           \/ /\ m \notin Unreadable
              /\ inbox' = [inbox EXCEPT ![m] = "out"]
              /\ NetworkFails
              /\ lost' = lost \cup {s} /\ unacked' = unacked \cup {s}
              /\ answering' = answering \ {s}
           \/ /\ m \in Unreadable
              /\ inbox' = [inbox EXCEPT ![m] = "out"]
              /\ UNCHANGED <<lost, answering, unacked, faults>>
        /\ UNCHANGED <<socket, server, retryTimes, retryTimers, failures, answerLost>>

NetworkStep(s) ==
    Opens(s) \/ ConnectFails(s) \/ KernelGivesUp(s) \/ PongArrives(s)

PulsarNext ==
    \/ Start \/ RetryTimerFires
    \/ \E s \in Sockets :
        \/ NetworkStep(s) \/ PingTimerFires(s) \/ PeerCloses(s) \/ PeerPings(s)
        \/ PeerVanishes(s) \/ HandshakeIsLost(s)
    \/ \E m \in Messages : BrokerTimesOut(m) \/ MessageArrives(m)

(* app.js starts the client, timers fire, a peer that is there answers a   *)
(* handshake and a ping, the kernel gives up what is not acknowledged, and *)
(* the broker hands out what it holds.  Nothing ends a handshake that the  *)
(* peer has acknowledged and will not answer.                              *)
PulsarFairness ==
    /\ WF_vars(Start) /\ WF_vars(RetryTimerFires)
    /\ \A s \in Sockets : WF_vars(NetworkStep(s)) /\ WF_vars(PingTimerFires(s))
    /\ \A m \in Messages : WF_vars(BrokerTimesOut(m)) /\ WF_vars(MessageArrives(m))

PulsarSpec == PulsarInit /\ [][PulsarNext]_vars /\ PulsarFairness

-----------------------------------------------------------------------------
(* Every variable keeps its type; the retries stay within their limit.     *)
PulsarTypeOK ==
    /\ socket \in [Sockets -> {"closed", "connecting", "open"}]
    /\ {server, timer} \subseteq Sockets \cup {None}
    /\ retryTimes \in 0 .. MaxRetryTimes
    /\ retryTimers \in Nat
    /\ UNION {pings, lost, answering, unacked, answerLost} \subseteq Sockets
    /\ inbox \in [Messages -> {"ready", "out", "acked"}]
    /\ faults \in Nat /\ failures \in Nat

(* There is one connection at a time, that acknowledgements go out on:     *)
(* none but this.server is alive, it is not while a retry waits, only one  *)
(* retry waits, and the keep-alive pings no other connection.              *)
OneConnection ==
    /\ \A s \in Sockets : socket[s] # "closed" => s = server /\ retryTimers = 0
    /\ retryTimers \in {0, 1}
    /\ pings \subseteq {s \in Sockets : socket[s] = "open"} \cap {timer}

(* It waits for an answer that will not come, and has no timer for it.     *)
Stranded == answerLost # {}

Deaf == server # None /\ retryTimers = 0 /\ \A s \in Sockets : socket[s] = "closed"

(* The client stops trying only when MaxRetryTimes attempts have failed in *)
(* a row: failures of the past, before it was connected, do not add up.    *)
GivesUpOnlyAfterMaxRetries == Deaf => failures >= MaxRetryTimes

Link ==
    CASE server = None -> "idle"
      [] \E s \in Sockets : socket[s] = "open" -> "connected"
      [] \E s \in answerLost : socket[s] = "connecting" -> "stuck"
      [] Deaf -> "over"
      [] OTHER -> "trying"

Promise == INSTANCE Subscription WITH Limit <- MaxRetryTimes, link <- Link, failed <- failures

(* The client keeps the application subscribed: once started it is         *)
(* connected or tries to be, each attempt ends unless its answer is lost   *)
(* in silence, losing a connection starts the next, and it gives up no     *)
(* sooner and no later than it was told.                                   *)
KeepsSubscribed == Promise!Spec

(* A connection that went dead in silence, open or being made, is found    *)
(* out and closed, by the keep-alive or the kernel, unless all that was    *)
(* sent had been acknowledged and only an answer is missing: nothing       *)
(* watches for a pong, or an end of the handshake, that does not come.     *)
LostConnectionIsNoticed ==
    \A s \in Sockets : s \in lost \ answerLost ~> socket[s] = "closed"

(* Once the network has done failing, every readable message is            *)
(* acknowledged, unless the client has given up or waits for such an       *)
(* answer.                                                                 *)
EveryReadableMessageIsAcknowledged ==
    \A m \in Messages \ Unreadable : <>(inbox[m] = "acked" \/ Deaf \/ Stranded)

=============================================================================
