---------------------------- MODULE AlertPipeline ----------------------------
(***************************************************************************)
(* The message handler of src/app.js, from Pulsar to LINE: acknowledge,    *)
(* drop repeats (adapters/memory/lruDeduplicator.js), make events of the   *)
(* device's report (Normalizer), then have the correlator process them one *)
(* after the other, awaiting each push.  Many handlers are under way at a  *)
(* time, each waiting for its own call of LINE; a call that fails ends its *)
(* handler.                                                                *)
(*                                                                         *)
(* A promise that is already settled resumes its handler before the event  *)
(* loop takes another timer, answer or command, so those wait until no     *)
(* handler is ready (Idle).  Whether a low battery is still to be          *)
(* announced is BatteryAlerts' matter; here shouldAlert may say either.    *)
(***************************************************************************)
EXTENDS EventCorrelator, Normalizer

CONSTANTS
    DeviceReports,  \* what a Pulsar message may carry
    DedupTTL,       \* how long a message id is remembered
    RedeliverFor,   \* how long Pulsar redelivers what was not acknowledged
    MaxMessages,    \* bound: number of messages
    MaxDeliveries   \* bound: number of deliveries of a message

ASSUME PipelineAssumption ==
    /\ \A report \in DeviceReports : Transform(report) \in Seq(EventTypes)
    /\ DedupTTL \in Nat /\ MaxMessages \in Nat /\ MaxDeliveries \in Nat
    /\ RedeliverFor \in 0 .. DedupTTL

VARIABLES
    messages,  \* Pulsar: every message, with what it still does about it
    seen,      \* the deduplicator's ids, each with when it was set
    handlers,  \* the handlers under way, by message
    calls,     \* the pushes LINE has not answered
    origin,    \* history: message and place of each event handled, in order
    failed     \* history: messages whose handler a failed push ended

pipelineVars == <<messages, seen, handlers, calls, origin, failed>>
allVars == <<vars, pipelineVars>>

Idle == \A h \in handlers : ~h.ready

Publish(report) ==
    /\ Idle /\ Len(messages) < MaxMessages
    /\ messages' = Append(messages, [report |-> report, at |-> now,
                                     acked |-> FALSE, deliveries |-> 0])
    /\ UNCHANGED <<vars, seen, handlers, calls, origin, failed>>

IsDuplicateWithinTTL(m) == \E s \in seen : s.message = m /\ now - s.at < DedupTTL
IsDuplicate(m) == \E s \in seen : s.message = m /\ now - s.at <= DedupTTL

Remember(m) == {s \in seen : s.message # m} \cup {[message |-> m, at |-> now]}

(* The handler is called: the acknowledgement may get lost on the way.     *)
Deliver(m) ==
    /\ ~messages[m].acked
    /\ messages[m].deliveries < MaxDeliveries
    /\ messages[m].deliveries > 0 => now <= messages[m].at + RedeliverFor
    /\ \E acked \in BOOLEAN :
        messages' = [messages EXCEPT ![m].acked = acked, ![m].deliveries = @ + 1]
    /\ IF IsDuplicate(m) THEN UNCHANGED <<seen, handlers>>
       ELSE /\ seen' = Remember(m)
            /\ handlers' = handlers \cup {[message |-> m, next |-> 1, ready |-> TRUE]}
    /\ UNCHANGED <<vars, calls, origin, failed>>

Transformed == [report \in DeviceReports |-> Transform(report)]

EventsAt(h) == Transformed[messages[h.message].report]

IsPushed == Len(reports') > Len(reports)

(* A push is a call of LINE under way, awaited by the given handlers.      *)
CallLine(awaitedBy) ==
    calls' = IF IsPushed
             THEN calls \cup {[report |-> Len(reports'), awaitedBy |-> awaitedBy]}
             ELSE calls

(* The loop over the events: handle the next, and wait if it was pushed.   *)
HandleNext(h) ==
    /\ h.ready /\ h.next <= Len(EventsAt(h))
    /\ Process(EventsAt(h)[h.next])
    /\ CallLine({h.message})
    /\ handlers' = (handlers \ {h})
                     \cup {[h EXCEPT !.next = @ + 1, !.ready = ~IsPushed]}
    /\ origin' = Append(origin, [message |-> h.message, place |-> h.next])
    /\ UNCHANGED <<messages, seen, failed>>

(* A low battery that was announced before is passed over.                 *)
SkipAnnounced(h) ==
    /\ h.ready /\ h.next <= Len(EventsAt(h))
    /\ EventsAt(h)[h.next] = "BATTERY_LOW"
    /\ handlers' = (handlers \ {h}) \cup {[h EXCEPT !.next = @ + 1]}
    /\ origin' = Append(origin, [message |-> h.message, place |-> h.next])
    /\ UNCHANGED <<vars, messages, seen, calls, failed>>

Return(h) ==
    /\ h.ready /\ h.next > Len(EventsAt(h))
    /\ handlers' = handlers \ {h}
    /\ UNCHANGED <<vars, messages, seen, calls, origin, failed>>

Awaiting(c) == {h \in handlers : h.message \in c.awaitedBy}

LineAccepts(c) ==
    /\ Idle
    /\ calls' = calls \ {c}
    /\ handlers' = (handlers \ Awaiting(c))
                     \cup {[h EXCEPT !.ready = TRUE] : h \in Awaiting(c)}
    /\ UNCHANGED <<vars, messages, seen, origin, failed>>

(* pushMessage rejects: the catch around the handler's loop, or the one of *)
(* the window's timer, logs it.                                            *)
LineFails(c) ==
    /\ Idle
    /\ calls' = calls \ {c}
    /\ handlers' = handlers \ Awaiting(c)
    /\ failed' = failed \cup c.awaitedBy
    /\ UNCHANGED <<vars, messages, seen, origin>>

FlushByTimer ==
    /\ Idle
    /\ WindowTimerFires
    /\ CallLine({})
    /\ UNCHANGED <<messages, seen, handlers, origin, failed>>

Elsewhere ==
    /\ Idle
    /\ \/ QuietCommand /\ UNCHANGED correlatorVars
       \/ WakeTimerFires /\ UNCHANGED correlatorVars
       \/ ClockTicks
    /\ UNCHANGED pipelineVars

PipelineInit ==
    /\ Init
    /\ messages = <<>>
    /\ seen = {}
    /\ handlers = {}
    /\ calls = {}
    /\ origin = <<>>
    /\ failed = {}

Continue(h) == HandleNext(h) \/ SkipAnnounced(h) \/ Return(h)

PipelineNext ==
    \/ \E report \in DeviceReports : Publish(report)
    \/ \E m \in DOMAIN messages : Deliver(m)
    \/ \E h \in handlers : Continue(h)
    \/ \E c \in calls : LineAccepts(c) \/ LineFails(c)
    \/ FlushByTimer
    \/ Elsewhere

(* Pulsar delivers, the event loop runs what is ready, LINE answers each   *)
(* call one way or the other, and time passes.                             *)
PipelineFairness ==
    /\ \A m \in 1 .. MaxMessages : WF_allVars(m \in DOMAIN messages /\ Deliver(m))
    /\ WF_allVars(\E h \in handlers : Continue(h))
    /\ WF_allVars(\E c \in calls : LineAccepts(c) \/ LineFails(c))
    /\ WF_allVars(FlushByTimer)
    /\ WF_allVars(Idle /\ ClockTicks /\ UNCHANGED pipelineVars)

PipelineSpec == PipelineInit /\ [][PipelineNext]_allVars /\ PipelineFairness

-----------------------------------------------------------------------------
(* Lost acknowledgements make Pulsar repeat itself, and handlers of other  *)
(* messages run in between; still each event is processed once, after the  *)
(* events that came before it in its message.                              *)
ProcessedOnceInOrder ==
    \A i, j \in DOMAIN origin :
        i < j /\ origin[i].message = origin[j].message => origin[i].place < origin[j].place

(* The data points that may stay silent: settings, climate readings, a     *)
(* healthy battery, no motion and no leak, of a device that is known.      *)
IsRoutine(device, dp) ==
    /\ IsDefined(device, dp.code)
    /\ \/ DP_PROFILES[Registry[device]][dp.code] = "ignore"
       \/ dp.code \in {"battery", "battery_percentage"} /\ dp.value # "low"
       \/ dp.code \in {"pir", "watersensor_state"} /\ dp.value \notin {"true", "pir", "alarm"}

NewsIn == [report \in DeviceReports |->
    Cardinality({i \in DOMAIN report.status : ~IsRoutine(report.device, report.status[i])})]

(* A message is done with when each data point that is not routine became  *)
(* an event that was handled, or LINE refused one of its pushes.           *)
Settled(m) ==
    \/ m \in failed
    \/ Cardinality({i \in DOMAIN origin : origin[i].message = m}) >= NewsIn[messages[m].report]

(* Every message Pulsar has for the house gets that far, whatever is lost  *)
(* or repeated and however the handlers interleave; no data point that     *)
(* comes with others is lost on the way.                                   *)
EveryMessageIsSettled ==
    \A m \in 1 .. MaxMessages :
        m \in DOMAIN messages ~> m \in DOMAIN messages /\ Settled(m)

=============================================================================
