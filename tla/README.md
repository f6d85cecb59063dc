# ruck-yom, verified

TLA+ models, TLC runs and machine-checked proofs for ruck-yom, the home-security
bot that receives Tuya sensor events through Pulsar and tells a LINE group about
them, and that the group commands in turn (arm, disarm, be quiet, report).

Paths below are those of the repository; `src/` is the application and
`tuya-pulsar-ws-node/` the vendored WebSocket client it depends on.

- [1. The system](#1-the-system)
- [2. What is hard about it, and what makes it correct](#2-what-is-hard-about-it-and-what-makes-it-correct)
- [3. The modules](#3-the-modules)
- [4. The runs](#4-the-runs)
- [5. Fairness](#5-fairness)
- [6. The proofs](#6-the-proofs)
- [7. Disagreements between the code and what is said of it](#7-disagreements-between-the-code-and-what-is-said-of-it)
- [8. What is not modelled](#8-what-is-not-modelled)
- [9. Plan](#9-plan)
- [10. Running everything](#10-running-everything)

## 1. The system

One Node.js process; its concurrency is that of the event loop. Code between two
`await`s is one step; timers, answers of HTTP calls, WebSocket events and webhook
requests interleave everywhere else, and the process may die between any two steps.

| Component | Source | State it keeps | Operations |
|---|---|---|---|
| Quiet mode | `services/quietMode.js` | `quietUntil`, `quietIndefinite`, `wakeTimer`, `lastIndefiniteQuietAt`, the marker file | `setQuiet`, `setIndefiniteQuiet`, `clearQuiet`, the wake timer, reading the marker at boot |
| Event correlator | `services/eventCorrelator.js` | `openWindow` with its events and timer | `process`, `_openWindow`, `_buffer`, `_flush`, `_discardWindow`, `_push` |
| Battery alerts | `services/batteryAlerts.js` | the stage announced per device, a file | `observe`, `shouldAlert`, `load` |
| Normalizer | `services/sensorNormalizer.js`, `config/dpProfiles.js` | none | `transform` and the resolvers |
| Deduplicator | `adapters/memory/lruDeduplicator.js` | the ids seen, with their age | `isDuplicate` |
| Message handler | `app.js` 51-113 | what is under way in each handler | acknowledge, deduplicate, normalize, process each event in turn |
| House mode and boot | `app.js` 137-207, `services/houseMode.js` | the mode, the restart notice | `setMode`, boot recovery, `announceRestart` |
| Group chat | `services/interactionRouter.js` | none; the pending duration prompt is quiet mode's | arm, disarm, quiet, wake, report on/off, switch, queries |
| LINE client | `services/lineMessaging.js` | none | push, reply, quota |
| Quota watch | `services/quotaWatch.js` | `warned`, `exhausted`, `checking`, `recheck` | `checkAfterPush`, `markExhausted` |
| Bot identity | `services/botIdentity.js` | the active role, group ids, a file | `setActiveRole`, `learnGroupId`, `_load` |
| Daily report | `services/dailyReport.js`, `reportMode.js`, `statusReport.js` | the timer, `disabled`, a file | `scheduleNext`, its callback, `setEnabled`, `buildReport` |
| Device health | `services/deviceHealth.js` | each gateway's last state | `tick`, `checkDevice` |
| Tuya REST client | `services/tuyaRestClient.js` | the token, a mint under way | `getAccessToken`, queries, scenes |
| Pulsar client | `tuya-pulsar-ws-node/src/index.ts` | `server`, `retryTimes`, `timer` | connect, retry, keep alive, acknowledge |
| Webhook server | `webhook/server.js` | none | verify a signature against the active bot's secret, then the others', hand the event on accordingly |

How they interact. The Pulsar client hands each message to the message handler,
which acknowledges it, drops repeats, turns the report into events and has the
correlator process them one by one, awaiting each push. The correlator asks quiet
mode whether it may speak. The remote's buttons, which arrive as events, and the
group's commands, which arrive by webhook, both switch house mode and quiet mode
together; the group's go through a scene at Tuya first, which is awaited. At boot
the process asks Tuya how it left the house. Every push that succeeds has its
bot's quota checked, in the background. One of several bots is in the group, one is
the active one, and people and `/switch` change the two independently; the webhook
tells an event of the active bot from one of another by its signature. Every call
of Tuya needs a token, which concurrent calls share. The daily report and the gateway watch
run on timers of their own, bypass the correlator, and push directly.

## 2. What is hard about it, and what makes it correct

`PROJECT.json` lists every hazard at its line. In short:

- **Timers that outlive their reason.** A wake-up timer or a window's timer that
  stays in the event loop after its period or window was replaced. Correct: only
  the current one is ever pending (`OnlyTheCurrentPeriodWakes`,
  `OnlyTheOpenWindowFlushes`), "I am back" is only said when it is true, each
  period and each window ends.
- **Commands in the middle of a burst.** Rest, timed quiet and the siren meet an
  open window in any order. Correct: nothing older than a rest is reported after
  it, nothing is reported twice or out of order, quiet is respected, and nothing
  is lost without one of the named excuses.
- **Awaits.** Handlers, arm commands, boot recovery, quota checks and reports act
  on answers to questions they asked earlier. Correct: order within a message
  is kept, the mode agrees with Tuya's, only spent bots are marked as spent,
  replies go out by the bot that the event came from.
- **Something shared by many callers.** The Tuya token and the request for a new
  one. Correct: one request at a time, none waited for after it ended, and no
  call arrives with a token that has expired meanwhile.
- **People who do things in another order.** They remove the active bot before
  they switch, switch twice, type a number for another reason. Correct: there is
  always a way to command the bot, the switch announced is the one kept, a number
  answers only a question that is open.
- **Crashes.** Marker, battery record and report switch must tell the next boot
  the truth even if the process dies, or a write fails, at the worst moment.
- **An unreliable broker and network.** Lost acknowledgements and redeliveries;
  connections that close, or die without closing. Correct: each event is
  processed once, each message is dealt with, dead connections are found out
  unless only an answer is missing, and the client gives up only after as many failures in a row as configured.
- **Loops that must not stop.** Every run of the report sets the next, every
  failing check of a gateway is followed by another, every quota check ends.

## 3. The modules

```
QuietMode ── EventCorrelator ── (implements) Incidents
   │               │
   │               ├── BatteryAlerts
   │               └── AlertPipeline ── MCAlertPipeline
   │                        │
   │                   Normalizer
   ├── DurationPrompt
   ├── HouseMode
   ├── QuotaWatch
   └── Schedulers

TuyaToken ── GroupChat

PulsarClient ── (implements) Subscription

<M>Proofs         extends M (and QuietModeProofs, where M extends QuietMode)
GroupChatProofs   has TuyaToken's lemmas too
AlertProofs       extends BatteryAlerts, AlertPipeline, EventCorrelatorProofs
QuietUsersProofs  extends DurationPrompt, Schedulers, QuietModeProofs
```

A module that composes a component with others EXTENDS it, conjoins its actions
and adds the variables of its own; `QuietMode` is below nearly everything since
nearly everything asks `isQuiet()`.

Definitions with a mutated twin just before them (`SpannedRestStrictly` before
`SpannedRest`, say) are used by nothing: they are plausible mistakes, and
`PROJECT.json` names for each property the one that it catches.

**QuietMode.** Variables of the same names as the code's, plus the event loop's
own timers (`pendingWakes`), so that forgetting `clearTimeout` is expressible;
the file (`marker`), whether its last write failed, and what the boot read
(`recovered`). `SetQuiet`, `SetIndefiniteQuiet`, `ClearQuiet` and
`WakeTimerFires` are the three functions and the callback, file included. The
clock `now` ticks independently of timers, and a due timer may run late by any
number of ticks, so `isQuiet()` may already be false while the timer is still
pending, as in the code. `Restart` is a crash at any time.

**DurationPrompt.** What the group chat does with quiet mode: the question for how
long (`ReplyQuietPrompt`), a preset or `/quiet N` (`QuietFor`), a bare number while
the question is open (`TypeNumber`), and rest and waking up, which leave the
question open. The history variables `askedAt` and `answered` say what a number
would have to answer.

**EventCorrelator.** `Process(type)` is `process()` up to the call of LINE, with
every branch: mode confirmations, the rest gate, join, terminal flush, opening.
`WindowTimerFires` is the timer's callback. Reports are recorded with how many
rests came before them, events likewise: that is how "stale" is expressed.

**Incidents** is what the correlator promises, without windows, quiet or types:
incidents are numbered as they come, each waits, is told or is dropped with all
that waits, and what waits does not wait for ever; the acknowledgement of a command
is told at once and may drop what waits. `EventCorrelator` reads its three variables off its own
(`arrived` is the length of the log, `waiting` what follows the opener in the window,
`told` the pushes, each a message), so that `IncidentsAreToldInOrder` says that
every step is a step of it or a stutter, and its fairness too.

**BatteryAlerts.** One device's `observe` and `shouldAlert`, its file (which may
fail to be written), replaced batteries and reboots, with its alerts going
through the real correlator among other traffic.

**Normalizer.** The profile tables, every resolver, and the loop over a report's
data points, as operators; values are the classes that the resolvers tell apart.

**AlertPipeline.** The message handler. A handler is a program counter into its
message's events; `ready` says that its await is settled. Pulsar redelivers what
is not acknowledged; LINE answers each call or refuses it. `Idle` is the
event loop's rule that settled promises run before the next timer, answer or
command is taken. `MCAlertPipeline` gives TLC the device reports.

**HouseMode.** Tuya's automation (`automation`), the bot's `houseMode`, LINE's
commands as calls under way (`calls`), the remote's presses on their way through
Pulsar (`remote`), and the boot's question (`recovery`). A command disturbs
(`disturbed`) when it is given while another is under way, or when Tuya acted on
it and the answer is lost: the properties about agreement are about undisturbed
houses, since nothing in the code repairs a disturbed one.

**QuotaWatch.** Roles with their usage at LINE, pushes under way, the one check
that may be under way with its stages (asking, picking a bot to switch to,
warning), the `recheck` flag, `/switch`, the report's mark, the turn of a month.
LINE decides about a push in one step (`LineDecides`) and its answer arrives, or is
lost, in another. So `told`, the history of what the group was warned of, grows when
LINE takes a warning, not when the check learns of it, and `unheard` says which of
these warnings the check takes for failed since their answer was lost.

**Schedulers.** The report's timer chain, with `Date` arithmetic in half seconds
since `msUntilNext` works in whole ones; a run that looks for a rest, then builds
its report, then pushes it, with commands in between; report mode and its file; the gateway
watch's loop over the devices with its awaited question and push; reboots.

**PulsarClient.** WebSocket objects as model values, each closed, connecting or
open; `server`, `retryTimes`, the retry timers, the keep-alive timers and what
the kernel still waits to see acknowledged (`unacked`), which is what makes a
dead connection visible at all. The network may refuse, close, or silently kill
a connection (`lost`), open (`PeerVanishes`) or in the middle of its handshake
(`HandshakeIsLost`); the broker hands out again what is not acknowledged. A connection
that dies with everything acknowledged and only an answer, a pong or the handshake's,
still to come is in `answerLost`: nothing in the code will ever notice.

**Subscription** is what `app.js` counts on when it has called `start()`: it is
connected or tries to be, until a number of attempts in a row have failed; not
sooner, not later. An attempt ends, unless its answer is lost and it is `"stuck"`; the
specification says so since the code can promise no more (see section 7). `PulsarClient`
implements it with `Link` (read off the sockets and the retry timers) for `link`.

**TuyaToken.** `cachedToken` with two times: `expiresAt` as the client computes it
from the answer's arrival, and `validUntil`, as Tuya counts it from the issue at some
moment before. `pendingMint` and the mints under way (`mints`) are kept apart, so
that two at once, or a wait for one that has ended, can be expressed. A call is
`waiting` for a mint, `sent`, or ended. Any request may fail; none takes longer
than `Latency`, and the margin is assumed to be worth two of them.

**GroupChat.** An event is delivered by whichever bot is in the group, waits for its
body to be read (`arriving`), and is then verified: with the active bot's secret it
is `HandleEvent`'s, with another's `HandleInactiveRoleEvent`'s. A handler then goes
through Tuya (`asking`, composed with `TuyaToken`) and LINE (`answering`, `replying`
or, for `/switch`, `confirming` before the switch and `announcing` after it).
`role` is the bot whose token the reply goes out with, read when `replyMessage` is
called. A reply that LINE refuses makes a handler that was still inside its `try`
apologise, as in the code. `Remember` and `Persist` are botIdentity with its file,
`Reboot` loads it.

## 4. The runs

| Run | Module | What it asks | Bounds |
|---|---|---|---|
| `quiet` | DurationPrompt | stale timers, the marker's truth, each period ends, numbers answer questions | minutes 1 and 3, the invalid number 0, two ticks for an answer, clock to 4, three timed quiets, two rests, a disk that may fail |
| `correlator` | EventCorrelator | staleness, quiet, losses, windows, and Incidents implemented | minutes 1 and 2, clock to 2, a window of 2 ticks, three events of five types, one quiet, one rest |
| `correlator_drops` | EventCorrelator | a comment on `_flush`; violated | the same |
| `battery` | BatteryAlerts | at most two pushes, no stage spent twice | four events, two batteries, one quiet, one rest, any number of reboots |
| `battery_spent` | BatteryAlerts | the changelog on suppressed alerts; violated | the same |
| `pipeline` | MCAlertPipeline | once and in order, every message dealt with | two messages of four reports, two deliveries each, remembered and redelivered for a tick |
| `house` | HouseMode | agreement with Tuya, the restart notice | three commands, two boots, one timed quiet |
| `house_late` | HouseMode | the changelog on arming; violated | one command, one boot |
| `quota` | QuotaWatch | unchecked pushes, marks, warnings, checks end | two roles that start with 0 or 2 of 4 used, warning at 1, two alerts, one switch, two months, one rest |
| `schedulers` | Schedulers | one report a day, off means off, outages announced | days of two seconds, three and a half seconds, one gateway, and one each of fault, toggle, flip, boot, rest; report mode's file may fail |
| `pulsar` | PulsarClient | one connection, dead connections, messages, and Subscription implemented | two sockets, two retries, two messages, one unreadable, four faults |
| `chat` | GroupChat | tokens, replies, group ids, switches, a way out | two events at a time (any number one after the other), two bots, one swap, one boot, clock to 4, tokens of 3 ticks, margin 2, latency 1, a disk that works |

Why the bounds are enough to be interesting:

- `quiet`: a second period can replace a pending first and a rest can come on
  top, with a third to expose what the second left behind. 1 and 3 minutes make
  a shorter replacement of a longer period and the reverse. A question can be
  answered, run out, be asked again, and meet a rest or a crash while it is open.
- `correlator`: three events are an opener, a follow-up and one more that is the
  siren, an event after the rest, or the opener of the next window. Two ticks
  let a rest fall on the opening tick, inside the window, or on its end, and the
  equality of two clock readings is where `>=` and `>` differ. The five types are
  a routine event, the terminal one, another emergency and both confirmations.
- `battery`: four events are low and critical for one battery, or both with an
  opener before each, or low for two; readings that announce nothing are unbounded.
- `pipeline`: two messages of up to two events let one handler wait while another
  runs; a redelivery can come while the first handler waits, at the very tick the
  id expires, and never after (Pulsar redelivers within the dedup's time to live,
  which `RedeliverFor` assumes).
- `house`: three commands are one that overlaps another and one that follows.
- `quota`: two alerts let the second land during the first's check. A limit of four
  has room for both and for two warnings, so that LINE takes the repetition of a
  warning whose answer was lost; a bot that starts with two used reaches the limit
  by the second alert or by the warning.
- `schedulers`: three and a half seconds of two-second days see two report times,
  so a run in time, a late one and a reschedule within the very second all occur; a
  run may be sent, fail, or be skipped for the rest or the switch.
- `chat`: two events under way are a switch and what it overtakes, two callers who
  share a mint, or two switches; a finished one makes room for the next, so
  histories are long. Within four ticks a token is minted, ages to the margin and
  is replaced. One swap leaves the active bot out of the group, one boot reads what
  a switch wrote. With `DiskFails = TRUE` the run also passes (2.2 million states,
  three minutes); the configuration has a disk that works to stay within half a
  minute, and the theorems of `GroupChatProofs` cover both.
- `pulsar`: two WebSocket objects are the current and the previous one, and a
  closed one is reused; four faults are enough to give up and to fail after it, or
  to lose a connection, fail a retry and lose the next one's handshake.

Deadlock checking is off only where the system may really stop (the bounds used
up, the client given up): `HouseMode`, `QuotaWatch`, `Schedulers`,
`PulsarClient`. Elsewhere a step is always possible: the group may command quiet
mode, or the process may die, at any time.

What some properties excuse, and why:

- `NothingLostOutsideQuiet` excuses a window that holds something older than the
  last rest: see finding 1. It also excuses a rest within the opening millisecond.
- `AtMostTwoUnlessTimedQuiet` excuses histories with a timed quiet. An alert that
  arrives in a timed quiet is not recorded, but joins a window; if the quiet is
  over when the window closes it is pushed, unrecorded, so that a third push is
  possible, against the comment at line 5 of `batteryAlerts.js`.
- `OnlySpentBotsAreMarkedInTime` excuses an answer that is overtaken by `/switch`
  or by the turn of the month (`shifted`): see section 7.
- `WarnedOnceAMonth` excuses a warning that follows one whose answer was lost
  (`unheard`): see section 7. Overlapping checks, switches, rests and refused warnings
  are not excused.
- `GroupKnowsWhatIsKnown` excuses gateways whose announcement LINE refused, and
  counts from the boot.
- `OffMeansOff` excuses a `/report off` whose file could not be written.
- `LostConnectionIsNoticed` excuses the lost answer (`answerLost`). A lost pong:
  `keepAlive` sends its ping and sets the next only when the pong comes; if the
  peer's kernel acknowledged the ping and the pong never comes, nothing is ever sent
  again and nothing notices. A lost answer to the handshake: no timer limits it and
  the keep-alive starts when it is over (section 7). `EveryReadableMessageIsAcknowledged`
  excuses the two as well (`Stranded`), and a client that has given up (`Deaf`);
  `KeepsSubscribed` the second, by Subscription's `"stuck"`.
- `RestartDoesNotGoUnnoticed` ends where the push of the notice begins.
- `RepliesReachTheirChannel` excuses handlers that a switch overtook while they
  waited for Tuya (`overtaken`): `replyMessage` reads the role when it is called.
- `SwitchIsKept` excuses switches that overlap, whose reply LINE refuses or whose
  process dies between reply and switch, and files that could not be written
  (`muddled`): each leaves another bot active than the group was told.

Types are proved and not run: the type invariants are parts of the inductive
invariants below. Those of `BatteryAlerts`, `AlertPipeline` and `Schedulers` are
stated with the proofs, where alone they are needed.

## 5. Fairness

Weak fairness, and only of what somebody else's clockwork guarantees:

- the clock ticks and due timers run (`QuietMode`, `EventCorrelator`,
  `Schedulers`, `AlertPipeline`, the retry and ping timers of `PulsarClient`);
- every call of LINE or Tuya ends, with an answer or an error: the clients time
  out (`QuotaWatch`, `HouseMode`'s boot question, `AlertPipeline`, `Schedulers`,
  `GroupChat`);
- the event loop runs what is ready;
- Pulsar delivers, and after a time out redelivers, what is not acknowledged;
- the kernel gives up a connection on which it sent data that is never
  acknowledged, and a peer that is there answers a handshake and a ping. That a
  connection attempt ends is not assumed: the client sets no `handshakeTimeout`
  (`index.ts:111`), so one whose peer is gone ends only if the kernel gives it up.

One strong fairness condition stands for people: in `GroupChat` a group that finds
the wrong bot active tells the one that is there to be active, again if need be
(`Insist`). It is what `ThereIsAWayOut` is about: that insisting works. Without it
the group might simply be content with a bot that does not listen; strong, because
the bot has to have a free hand (`Calls`) again and again, not for ever.

Nothing else is assumed of the group, and nothing of the remote, crashes, or the
network's faults.

## 6. The proofs

Each theorem holds for every value of the constants that the named assumption of
its module allows, and without the fairness conditions.

**QuietModeProofs.** `QuietSafety`: types, `OnlyTheCurrentPeriodWakes` and
`MarkerTellsHowTheProcessDied` are together inductive (`QuietInv`), since a wake
timer is set and cancelled together with `quietUntil`. `WakeTellsTheTruth`
follows: the callback that runs is the current period's, its time has come, and
resting there is none. `QuietStep` names what any composed module may do to quiet
mode; the proofs below only show that their steps are such steps.

**EventCorrelatorProofs.** `CorrelatorSafety` and `NothingStaleIsReported`. The
latter is not inductive by itself: a flush reports what the window holds. The
strengthening `WindowIsFresh` says that a window whose opening the last rest does
not reach holds nothing older than that rest. It is kept because a rest that
comes while a window is open is dated no earlier than the opening, which is
exactly why `_flush` compares with `>=`. `QuietIsKept` and `WindowsRunTheirCourse` are
action properties over the same invariant: the first needs that what is pushed was
let through by `PassesQuiet` in the very step, the second that the only timer there
is belongs to the open window and is due at its end. `NothingIsLost` adds `LossInv`:
what the window holds is what the log has under its number (`HeldIsLogged`), and a
rest that reaches a window's opening came after its opener, or in the same
millisecond (`SpannedIsOld`), which is all that excuses a dropped window.

The second half of the module is about `Incidents`.
`CorrelatorImplementsIncidents` shows the refinement, initial states and steps: a
step that opens a window tells its opener, one that buffers makes it wait, a flush
tells or drops all that waits. It needs `WindowHoldsIncidents`, that a window holds
no acknowledgement. Its fairness, that windows close, is TLC's. `EachEventIsToldOnce`
goes further than the refinement, which numbers incidents only: no event of any
type is in two reports or twice in one. Its invariant `OnceInv` says that what waits
in the window has not been told and is numbered upwards, and it rests on what each
step can report: something it was handed (`PushTakesUp`) or the window's followers
(`FlushTakesUp`).

Everything here is proved of `CorrelatorStep`, any operation of the correlator or
of quiet mode without the bounds of `Next`, so that a module that composes the
correlator only has to show that its steps are such steps.

**AlertProofs** does that for the two modules that do.

- `BatteryAlerts` adds reboots, which lose the window and its timer:
  `RebootsKeepTheCorrelator` is the correlator's safety and refinement with them.
  `StagesAreSpentOnce` needs `RecordTells`: what is remembered of the device covers
  every stage recorded of its present battery, and the file holds the same unless a
  write failed. `AtMostTwoPushes` counts: each push about a battery tells of a
  recorded alert (`DroppedInRest`: what was let through unrecorded came in a rest,
  which the correlator drops), no alert is told twice (`OnceInv` again), and a
  battery has at most two recorded alerts, one of each stage, so there is a
  one-to-one map of the pushes into the two stages (`PushesDiffer`).
- `AlertPipeline` adds the handlers. `EventsAreProcessedOnceInOrder` needs to know
  that a message that was delivered is in `seen` for as long as Pulsar may deliver
  it again, which is what `RedeliverFor <= DedupTTL` is for, so it has one handler at
  most; and that a handler's `next` is past every event of its message that was
  handled. `PipelineKeepsTheCorrelator`: all the correlator's safety and action
  properties and its refinement hold when handlers interleave, pushes fail and
  messages repeat.

**HouseModeProofs.** `HouseStaysInStep` (agreement with Tuya, armed means
alerting) needs to know what is under way in an undisturbed house: the boot's
question and nothing changed yet (`Recovering`), one press of the remote Tuya has
acted on (`PressOnItsWay`), one LINE command (`CallUnderWay`), or nothing
(`Settled`). `NoticeIsTrue` is the action property on the restart notice.

**QuotaWatchProofs.** `EveryPushIsChecked` is inductive with `UnseenIsDue`: the
uncounted pushes are the active bot's, and there is no rest. `NobodyIsWarnedTwice`
counts the warnings that LINE took. It needs `OneWarning` (there is one warning on its
way, the check's own) and `ToldIsWarned` (what the group was told, and the check was
told of, stays in `warned`, so that no check gets as far as another warning). `MarksAreDeserved` rests
on `MarksInv`: every refusal and every used-up reading on its way is about a bot that
LINE would refuse this month. It needs `QuotaLimit > 0`, a limit that lets a bot push
at all.

**PulsarClientProofs.** `ClientSafety`: one connection, and giving up only after
`maxRetryTimes` failures in a row. `Retrying` relates the counter to the history
of failures: a retry waits only below the limit, a client that is deaf is at it,
and the counter runs at most one behind the failures. `DeadConnectionsAreWatched`
(`Watched`): every open connection has a ping to come, one on its way, or data
that will not be acknowledged, and every handshake that died has its request
unacknowledged, so that their death shows; only a lost pong and a lost answer to the
handshake escape.
`ClientImplementsSubscription` shows the refinement of `Subscription`, initial states
and steps: `Counting` says how far the counter of retries is behind the failures in
each state of the connection, and `LinkRead` what each state is to the application.
Its fairness, the other half of `KeepsSubscribed`, is TLC's.

**GroupChatProofs** begins with lemmas about TuyaToken, `TokenInv` for each operation:
the mint under way is `pendingMint`'s, and a token's `expiresAt` is at most `Latency`
later than `validUntil`. With the margin worth two latencies a token that is still
`Usable` when the call is sent outlives it. `ChatTypes`, `TokensAreShared`,
`RepliesAreDelivered` and `SwitchesAreKept` follow from one invariant over
`TokenInv`: a handler that is asking or replying either has the active bot for its
`from` or was overtaken (`RepliesInv`); memory and file hold only a bot's own group,
and the file the active bot unless its last write failed (`FileInv`); and unless
muddled there is one switch at a time, one that is being announced has been made,
and without any the active bot is the one announced (`SwitchInv`).

**QuietUsersProofs** is about the two modules that use quiet mode without the
correlator.

- `DurationPrompt`. `PromptImplementsQuietMode`: every step of the group chat is one
  of QuietMode or leaves it alone, and the fairness is the same, so PromptSpec
  implements QuietSpec; `QuietUnderThePrompt` is what follows. `NumbersAreAnswers`
  rests on `PromptDatesFromQuestion`: a prompt that is set dates from the last
  question, which nobody has answered.
- `Schedulers`. `SchedulersInv` has a part for each property. `ReportIsDue`: a report
  that waits is due at its second of a day, later than the second of the last run
  (`ReportHasItsHour`). That it holds when a timer is set is arithmetic: from any
  instant, `msUntilNext` leads to that second of a day (`NextOccurrence`), and to a
  later one than the clock is in, fraction or not (`WholeSeconds`, `DueAtTheHour`).
  With the last run's own second (`RanAtItsHour`) it follows that the two are not
  of the same day (`NoDayHasTwoReports`, `LaterDay`).
  `FileTellsMode`: memory and file are as the group last wished them unless the last
  write failed (`ReportStaysOff`). `GroupKnowsWhatIsKnown` is inductive beside the
  types (`WatchTellsTheGroup`): only an answer changes what is known, and unless it
  is no news the tick stays at that gateway until the push has ended.

What is assumed: the constants' assumptions by name (`QuietAssumption`,
`CorrelatorAssumption`, ... in their modules), which every run evaluates.
`TokenAssumption` has the margin cover two latencies and every token live longer than
the margin: the code's minute against requests of seconds and Tuya's two hours.

Every safety invariant and every action property that a passing run checks is the
statement of a theorem.

Only model-checked: the liveness properties (`TimedQuietEnds`, `WindowCloses`,
`EveryMessageIsSettled`, `RestartDoesNotGoUnnoticed`, `ChecksEnd`, `ThereIsAWayOut`,
`OutageIsAnnounced`, `ReportGoesOn`, `LostConnectionIsNoticed`,
`EveryReadableMessageIsAcknowledged`) and the fairness halves of the two refinements
(`IncidentsAreToldInOrder`, `KeepsSubscribed`), since liveness under fairness is out
of the prover's reach; what `Transform` makes of a report, which concatenates the events of any number of
data points and would need induction over data: the pipeline's theorems hold whatever it makes,
as long as they are events; and the three findings of section 7, which are
counterexamples.

## 7. Disagreements between the code and what is said of it

Each of the three is a run that TLC answers with a counterexample.

1. `correlator_drops`: `_flush` (`eventCorrelator.js:151`) drops a whole window
   once a rest began during it, including what joined it after the rest was
   ended: a door opens, rest by LINE, armed again, siren within the same window:
   the siren is dropped. The comment at line 143 says that all of it came before.
2. `battery_spent`: `shouldAlert` (`batteryAlerts.js:84`) records a stage when
   the reading arrives; if it joins a window and quiet begins before the window
   closes, the alert is suppressed and stays recorded. `CHANGELOG.md:61` says
   that a suppressed alert is not counted as sent.
3. `house_late`: the boot's question to Tuya (`app.js:196`) may be answered after
   the house was armed, and the late answer "disarmed" puts the armed house to
   rest for good. `CHANGELOG.md:128` promises that arming always resumes alerts.

Seen while modelling and visible in the code, but not the subject of a run:

- Rest and then "quiet N minutes" ends the rest (`quietMode.js`: the comment at
  line 85 intends it, the one at line 15 reads otherwise).
- A house disarmed, then woken with the coming-home command, is still disarmed at
  Tuya, and a restart puts the bot to rest again (`app.js:196`).
- What is written of the daily report and a rest disagrees with itself. That the
  report "deliberately bypasses" quiet mode and rest stands at `reportMode.js` 5-7 and
  `interactionRouter.js` 56-57, and in `RUCKYOM_SPECIFICATION.md` (line 244 and
  Section 8.20, lines 4041-4043); that a rest silences it in `dailyReport.js` 46 and
  70 and, later, in `CHANGELOG.md:83`. The code does the second; a timed quiet it does bypass.
- It does so at the wrong moment, though: the report looks for a rest, then builds its
  message with several calls of Tuya, then pushes (`dailyReport.js` 74-79). A rest that
  begins in between gets the report, although it was to be "checked at send time"
  (line 46). `PushReport` in `Schedulers` has no guard either, and no property claims
  that a rest is silent. The quota warning may be pushed in a rest that began during
  the check in the same way (`quotaWatch.js`, comment at line 18).
- When LINE takes the quota warning and its answer is lost, `checkAfterPush` forgets
  that it warned (`quotaWatch.js:151`) and the next push warns the group again, against
  "one warning per bot per month" (`CHANGELOG.md:73`); the comment at line 23 expects
  a repetition only after a restart. It is `unheard` in `QuotaWatch`: without it
  `WarnedOnceAMonth` is violated within sixteen states.
- The Pulsar client connects without a `handshakeTimeout` (`index.ts:111`) and its
  keep-alive starts at `'open'` (line 129). A network that dies after the request was
  acknowledged and before it was answered leaves the client waiting for good, against
  `RUCKYOM_SPECIFICATION.md:4801` ("survives a forced network interruption and
  reconnects without manual restart"). It is `HandshakeIsLost` in `PulsarClient`:
  without `"stuck"` in `Subscription`, `KeepsSubscribed` is violated.
- `buildReport` (`statusReport.js:48`) marks as spent the bot that is active when the
  answer comes, not the one it asked about: after `/switch` in between, a bot with
  quota left carries the note that it cannot alert (`shifted` in `QuotaWatch`).
- A reply is sent with the active role's token; after `/switch` during a handler's
  await it is not the channel that the reply token came from (`lineMessaging.js:88`
  says that the two are the same by construction; `overtaken` in `GroupChat`).
- Two `/switch` commands that overlap leave active the bot whose reply was answered
  last; a reply that LINE accepted but whose answer is lost announces a switch that
  does not take place (`interactionRouter.js` 443-450; `muddled` in `GroupChat`).
- A scene or command that succeeds whose reply fails is reported as failed
  (`interactionRouter.js` 369-372 and 491-497).
- A number typed for another reason within two minutes of the question, after a rest
  has begun, ends the rest: rest leaves the question open (`quietMode.js` 104-116).
- The opener of a window whose push fails is taken for sent when the window is
  flushed (`eventCorrelator.js:156`).
- A Pulsar message that cannot be read is never acknowledged, so it is handed out
  for ever (`index.ts:158`, against the comment at `app.js:56`).
- A gateway announced as down before a restart and back up after it is never
  announced as back (`deviceHealth.js` 28 and 70).

## 8. What is not modelled

- Templates, menus, cards, wording, timestamps: formatting without state.
- Request signing at Tuya and LINE, decryption of Pulsar's payload: pure
  computation on opaque data.
- Which device a query or a command is about and what the answer shows: in
  `GroupChat` they are one kind of event that asks Tuya once and replies. The status
  of all devices asks several times; those calls fail one by one without effect on
  the handler.
- The note that replies carry while a bot's quota is spent (`quotaWatch.js` 101-116),
  and the choice of the bot to recommend: they read state and change none.
- The filter of a chain's lines in `_flush` (`eventCorrelator.js` 169-173), which
  leaves out event types without a clause: no type that is emitted lacks one.
- Webhook requests with several events: the active bot's are handled at once, as
  separate requests would be; another bot's one after the other, so that those that
  follow a `/switch` in the same request are still taken for an inactive bot's.
- The few microtasks between the choice of the secret and the route.
- 1:1 chats, whose events teach no group id. Both bots of the run are configured; to
  one that is not, `/switch` is refused like one to the bot that is active already.
- The deduplicator's cap of 2000 ids; it would take that many messages within its
  time to live.
- Configuration, logging, date formatting.

## 9. Plan

Done, in this order, most important behaviour first: QuietMode, EventCorrelator,
their proofs; BatteryAlerts; AlertPipeline; HouseMode with proofs; QuotaWatch with
proofs; PulsarClient with proofs; Schedulers; Normalizer; then TuyaToken and
GroupChat with proofs, DurationPrompt with proofs, and the abstract specifications
Incidents and Subscription with their refinements.

What could still be added, modelling first:

1. Several devices in BatteryAlerts, and its gate in AlertPipeline in place of the
   free choice that stands there now.
2. GroupChat's roles as QuotaWatch's, so that `/switch` on the way and the quota's
   mark meet in one model, and the note on replies with them.
3. HouseMode's scene triggers through TuyaToken and GroupChat, so that an arming
   waits for a mint.

Then proofs, of the safety that the liveness properties rest on: that a check under
way is always somebody's (`ChecksEnd`), that an open window has its timer and a
handler that waits a call to wait for (`WindowCloses`, `EveryMessageIsSettled`), that a
report that is not waiting is being built or pushed, and one that waits has its
timer (`ReportGoesOn`).

## 10. Running everything

```
tlc -config DurationPrompt.cfg DurationPrompt
tlc -config EventCorrelator.cfg EventCorrelator
tlc -config BatteryAlerts.cfg BatteryAlerts
tlc -config MCAlertPipeline.cfg MCAlertPipeline
tlc -config HouseMode.cfg HouseMode
tlc -config QuotaWatch.cfg QuotaWatch
tlc -config Schedulers.cfg Schedulers
tlc -config PulsarClient.cfg PulsarClient
tlc -config GroupChat.cfg GroupChat
tlapm QuietModeProofs.tla        # and the other *Proofs
```

The longest runs are `schedulers`, `battery` and `pipeline`, about a minute each;
those of the three findings (`EventCorrelatorDrops.cfg`, `BatterySpent.cfg`,
`HouseModeLate.cfg`) stop within seconds at a counterexample.
