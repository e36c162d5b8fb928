# A verification development of the Sentry JavaScript SDK

TLA+ modules that model the core of the SDK (`packages/core`, with the IndexedDB queue and the session integration of
`packages/browser`) and session replay (`packages/replay-internal`), TLC configurations that check them on small
instances, and TLAPS proofs that hold for every value of the constants. Line numbers below are those of the modelled
commit; paths are relative to the repository, `core/` is short for `packages/core/src/`.

    tlc -config MCTransport.cfg MCTransport      # a run
    tlapm Transport_proofs.tla                   # the proofs of a component

## 1. Inventory

The SDK turns captured errors, messages, transactions, logs, metrics and sessions into *envelopes* of *items*
and sends them. Data flows

    Scope API -> Client pipeline -> [ Offline transport -> ] Transport -> network
                  |  \-- process buffer (PromiseBuffer)        |  \-- request buffer (PromiseBuffer)
                  \-- outcome counters <-- recordDroppedEvent --/  \-- rate limits <-- response headers

and beside it run timers and buffers: log/metric buffers, span buffer, idle spans, sessions, replay.
JavaScript has one thread: a synchronous stretch of code is atomic. Interleaving comes from promises, timers,
hooks, user callbacks that call back into the SDK while one of its functions is on the stack, and from the page
or process going away.

| Component | State it keeps | Operations | Interacts with | Hard behaviour |
|---|---|---|---|---|
| PromiseBuffer `core/utils/promisebuffer.ts` | set of promises | `add`, `drain(timeout)` | owned once by the client, once by each transport | producers that call `add` again between the size test and the store; a drain racing its timer; promises already settled |
| Rate limits `core/utils/ratelimit.ts` | table category -> time | `updateRateLimits`, `isRateLimited` | read and written by the transport | answers out of order; expired entries; overlapping `all` |
| Transport `core/transports/base.ts` | rate limits, request buffer | `send`, `flush` | calls `recordDroppedEvent` of the client | an envelope may lose its items for different reasons, each to be told once |
| Client `core/client.ts`, `prepareEvent.ts`, `eventProcessors.ts` | `_numProcessing`, outcomes, process buffer, enabled | `captureX`, `_process`, `sendEvent`, `flush`, `close`, client report | transport, callbacks, scopes | callbacks that suspend, throw, never answer or capture; counters and polls |
| Offline transport `core/transports/offline.ts`, `browser/src/transports/offline.ts` | retry delay, timer, store (a promise chain over IndexedDB) | `send`, `flushIn`, `flushWithBackOff`, `flush`, push/unshift/shift | wraps any transport | store calls asynchronous, failures, reload in between, overlapping retries |
| Idle span `core/tracing/idleSpan.ts` | activities, timers, finished | child start and end, `end`, auto-finish hook | client hooks, children | timers that share a handle; late timers; trimming |
| Log and metric buffers `core/client.ts` 104-163, `core/logs/internal.ts`, `core/metrics/internal.ts` | items, weight, one timer and its flag | capture, flush by weight, by number, by timer, by `flush` | hooks of the client | user code that captures inside `beforeEnvelope`; flag and timer must agree |
| Span buffer `core/tracing/spans/spanBuffer.ts` | bucket and timer per trace | add, flush, drain, close | hooks of the client | spans that end while their bucket is being sent, or during `close()`; bucket replaced while its timer runs |
| Sessions `core/session.ts`, `core/exports.ts`, `core/server-runtime-client.ts`, `record-request-session.ts`, `browsersession.ts` | status, errors, user, `init`; aggregates, timer, hook | start, end, capture, update from events; count a request | client, scope, history, idle callback | deferred first update against navigation, user and events; exceptions in any order |
| Fetch transport `browser/src/transports/fetch.ts` | pending count and bytes | request | transport | counters on every way a request ends |
| Replay `replay-internal` | enabled, paused, mode, recorder, event buffer, session (memory and sessionStorage), debounced flush, flush lock | start, stop, pause, resume, flush, convert, refresh, emit, upload | client, rrweb, worker, transport, page | every method may meet a flush that awaits the worker, a request or a retry; reloads |
| Scopes, integrations, tracing API, SyncPromise, OpenTelemetry bridge, platform clients, framework SDKs, bundler plugins | see `components` in `PROJECT.json` | | | |

What makes each correct:

- **PromiseBuffer**: no more promises than the limit (up to nesting); a slot is freed exactly when its promise
  settles; a drain gives up only on what is still pending; a timed drain answers.
- **Rate limits / transport**: the table is what the last answer about each category said; nothing limited is
  sent; every lost item is told once under its reason; flush covers earlier sends.
- **Client**: `_numProcessing` is the number of pipelines under way; outcomes are neither lost nor doubled by
  reports; a true flush covers what came before; a timed flush answers.
- **Offline**: an envelope is stored once at a time, retries keep order, and the queue is never left without
  something that will look at it; replays go one at a time.
- **Idle span**: it ends for the reason it gives, not early, and it does end; its own children are kept if they fit
  into it.
- **Buffers**: an item taken is let go, with everything held beside it, and lost or sent twice only in the ways the
  code has; a batch that holds something has a timer, and no timer of an earlier batch is left; `close()` loses
  nothing that was captured before the call.
- **Sessions**: a request or a page counts as the worst that happened in it; what the server gets of one session is a
  history it can count (first update and only it `init`, final status final); the first page is reported.
- **Replay**: the segments of a replay are numbered 0, 1, 2, ..., carry events of that replay only, in order and none
  twice; sessionStorage is never behind memory; what is recorded is flushed.
- **Fetch** (planned): the counters return to zero.

## 2. Modules

`MC*` modules give constants; their `.cfg` files are the runs. "State" gives the correspondence to the code.

| Module | Models | State and actions |
|---|---|---|
| `PromiseBuffer` | promisebuffer.ts | `buffer` is the Set `buffer`; `stack` the producers running inside `add` (JavaScript's call stack); `status` the promises; `drain` the calls of `drain`. `add` is `Refuse` (SENTRY_BUFFER_FULL_ERROR), `Start` (size test, producer entered), `Store` (producer returned), `Throw`; a task is in `SyncTasks` if its promise may be a SyncPromise, whose reactions run at once, and in `NativeTasks` if it may be a native one; `Settle` and `Remove` are the settlement and its queued reaction; `DrainDone`, `ReactionsDone`, `DrainTimeout` are the legs of the race. |
| `RateLimits` | ratelimit.ts, as operators | header parsing by its fields; `Verdict` says in one formula what a response leaves behind. |
| `RateLimitLog` | ratelimit.ts, the loop | `LoopUpdate` folds the header entry by entry as the `for` loops do and is compared with `RateLimits!UpdateRateLimits`; `log` remembers the responses, `now` is the clock. Its specification is `LogSpec`, so that `Transport` can extend it. |
| `EnvelopeDelivery` | abstract specification | what a transport promises about items: each meets one end, and the counters grow by exactly the items lost in the same step. |
| `Transport` | base.ts | `seen` and `kept` are the envelopes sent and `filteredEnvelopeItems`; `status`, `buffer`, `stack`, `drain` are those of `PB == INSTANCE PromiseBuffer`; `rateLimits` is the table, with `now` and `log`, of the `RateLimitLog` it extends; `outcomes` the calls of `recordDroppedEvent`. `SendNothing`, `SendOverflow`, `SendStart` are the ways out of `send` (filter included); `RequestStarted`, `RequestTooLarge` (413), `RequestAnswered`, `RequestFailed` those of `requestTask`. |
| `Client` | client.ts pipeline | `stage` of each event's pipeline, `frames` the pipelines on the JavaScript stack, `native` those whose rest hangs on a native promise since a processor was asynchronous, `numProcessing`, `outcomes` (`told`: what reports have said),  process buffer as `PromiseBuffer`, the transport as an external party that accepts, refuses and answers; `flush` records. A pipeline in `native` goes on part by part: `RunJob` is a microtask of the chain, `NativeSettles` the settlement, `Remove` the reaction of the buffer, `CountOff` that of `_process`; other code runs in between. `TimerFires` is an iteration of the poll or the timer of `transport.flush`, late by up to `Lateness`; it waits until no reaction is queued (`TurnIsOver`). |
| `OfflineTransport` | offline.ts (core and browser) | `queue` is the IndexedDB store; a call takes effect at once, because transactions run in the order of the calls, and `calls` are those the code still awaits; `where` is the place of each envelope, `isRetry` says it was taken by a timer; `flushTimer` and `retryDelay` are as in the code; `Restart` is a reload: memory is lost, the store stays. |
| `IdleSpan` | idleSpan.ts | `activities`, `idleTimer` (the timer behind `_idleTimeoutID`, whichever kind), `strayTimer` (a timer whose handle was overwritten), `finalTimer`; `branch` is the child of the idle span that a span is, or is below; `Given` are the start and end times applications may give. `End` is the patched `span.end` with `onIdleSpanEnded`: it looks at all descendants and takes away those of the idle span's own children that do not fit (`discarded`); `Kept` is what the transaction then contains. |
| `ClientHooks` | client.ts `flush`, `close` | what buffers see of a client: `enabled`, and a `close()` that waits. |
| `Batching` | abstract specification | a buffer of batches: taken once, let go once, all of a batch together, a timer while it holds something. |
| `WeightBuffer` | `setupWeightBasedFlushing`, logs/internal.ts | `logs` is the buffer on the carrier with the closure's `weight`, `isTimerActive`, `flushTimeout`; the operators go from the state at the call to that at the return, with the log a `beforeEnvelope` handler captures in the middle. |
| `SpanBuffer` | spanBuffer.ts | of the record `spans`, `buckets` is `_traceBuckets` and `timers` counts the pending timers of a trace, also of a bucket that is gone; the rest is history. As in `WeightBuffer` an operator goes from the state at the call to that at the return, with the span a `beforeEnvelope` handler ends in the middle (`SpanEnds`), before the bucket is removed (`RemoveTrace`). |
| `RequestSessions` | record-request-session.ts, `setCurrentRequestSessionErroredOrCrashed` | status per request, the aggregate by minute and outcome, its timer and hook. |
| `BrowserSessions` | browsersession.ts, session.ts, exports.ts, `_updateSessionFromEvent` | every session so far, the current one, the idle callback, what the server has of each. |
| `Telemetry` | the four under one client | `Flush`, `CallClose`, `Close` run the handlers of all; `features` says which are switched on, `HandlerLogs` and `HandlerSpans` what a handler of the user may capture or end. |
| `SegmentStream` | abstract specification | what a replay is for the server. |
| `Replay` | replay.ts and its helpers | `replay` is the container with the clocks it reads, `errors` the sampled errors under way and their callbacks. Methods call each other, so each is an operator on the container; a step is a run of the event loop. `flush` is the lock: the stage of `_runFlush`, what became of the buffer it reads, the calls that wait for it. |
| `DataFacts` | - | lemmas about data: sequences as stacks and queues, the least natural, induction and recursion over finite sets, sums over sets, folds over sequences. |
| `*_proofs` | - | theorems and proofs of `PromiseBuffer`, `Transport` with `RateLimitLog`, `Client`, `OfflineTransport`, `IdleSpan`, `Telemetry`, `Replay`. |

Composition: `Transport` and `Client` each instantiate `PromiseBuffer` for their own buffer and are shown to move it
only by its own actions (`UsesPromiseBuffer`; the client's stack is that of the buffer but for a resumed pipeline at
its bottom, `Producing`; transactions may be given to it as native promises, errors never are); `Transport` extends
`RateLimitLog` by requests, and implements `EnvelopeDelivery` where the fate of an item is read off the filter and the
state of its envelope's promise (`ItemFate`; `DeliversEnvelopes`). `LimitsAreHeeded` says its table moves as
`RateLimitLog` does. `Telemetry` extends its four components; each of the three buffers among them implements
`Batching`. `Replay` implements `SegmentStream`.

Abstractions: payloads, names and header texts are model values or fields; a user callback may pass, drop,
throw, suspend or capture, whatever it is. Time is a small integer clock where order of deadlines matters
(`Client`, `Transport`, `IdleSpan`), and absent where it does not (`PromiseBuffer`, `OfflineTransport`, `Telemetry`,
`Replay`: a timer may fire at any moment). `Replay` keeps of its clocks what the code asks of them: is the user idle
(5 minutes), is the session young (minReplayDuration), expired by idleness (15 minutes) or too old (an hour).
A history variable (`log`, `told`, `captured`, `wire`, `recordedIn`, `cut`, ...) remembers what the code forgets; no guard
reads one but to make an item arrive once.

## 3. Runs

A run asks all that one instance can answer.

| Run | Instance and bounds | What it shows |
|---|---|---|
| `buffer` | four tasks, one a SyncPromise, limit 2, nesting 2, one drain | `Slots`: the limit is overshot by nesting depth minus one and no more, and no slot leaks. `GivesUpOnlyOnStragglers`: a drain answers false only when its time is up and something it waits for is pending. `WaitingEnds`: a timed drain answers, an untimed one when its tasks did, and slots become free, also when tasks reject. |
| `rate_limits` | three categories, eleven kinds of responses, three in a row, five instants | `TableIsTheLoops`: the one-formula verdict equals the nested loops. `ServerIsObeyed`: a category is limited exactly as the last response about it says. |
| `transport` | three envelopes, four items of three categories, buffer 1, nesting 2, a flush | `OutcomesAreExact`, `DeliversEnvelopes`: accounting. `LimitsAreHeeded`: the table follows the answers and nothing limited is sent. `FlushCoversEarlierSends`. `UsesPromiseBuffer`. |
| `client` | a transaction, two errors, buffer 1, nesting 3, two reports, sampling, throwing hooks | `NumProcessingIsExact`, `OutcomesConserved`, `UsesPromiseBuffer`. |
| `client_flush` | a transaction, an error, a report, one flush that may be `close`, timeout 2, timers late by up to 1 | `FlushTrueCovers`. `FlushKeepsItsTime`: how long it may take. `TimedFlushAnswers`: it answers. |
| `offline` | two replays, an event, a client report, store of 2, one reload, flush at startup | `StoredOnce`, `InOrder`, `NeverLeftUnwatched`. Deadlock is checked. |
| `idle_span` | two spans below it (one ignored), side by side or one below the other, given times 0, 2 and 5, timeouts 1, 2 and 3, clock to 5, auto-finish from the start or enabled later | `EndsForItsReason`: reasons are true. `NeverWithoutTimer`, `FinallyEnds`: it ends. `KeptChildrenFit`: children. |
| `idle_span_doc_idle` | same | violation, see findings |
| `telemetry` | four logs, one over the weight limit, buffer of 2, a handler that captures two of them; or five spans of two traces, one heavy, with a handler that ends three of them; or two requests in two minutes; or two sessions and two users, one without id; flush and close at any moment | `EveryItemHasOnePlace`: an item is held, sent, or in one of the places of what is given up. `LimitsHold`: no span bucket at one of its two limits, the log buffer below its weight and not above its number, no stray timer. `BuffersAreBatched`: each implements `Batching`, and what is lost or sent twice on the way has the cause it has in the code (`OverwrittenOnlyWhenFull`, `LossesHaveTheirCause`). `CloseLosesOnlyLatecomers`. `SessionsAreTruthful`, `SessionsAreReported`: sessions. |
| `replay` | two events, two sessions, one reload, one retry, one waiting call, one error under way, both samplings, sticky | `SegmentsAreAStream`, `StorageIsCurrent`. Deadlock is checked. |
| `replay_flush` | the same without reload, session sampling | `HeldEventsAreFlushed`. |
| `replay_doc_recording` | two waiting calls, buffer sampling | violation, see findings |

Why the bounds suffice. Every guard of the code compares with zero, with a limit, or with another element. A limit of
one or two makes full, not full and just freed reachable; two concurrent requests, retries or children make every
pairwise order, and a third (envelopes, events, tasks) one that arrives in between. Nesting deeper than two adds one
to the overshoot, which the proof covers for all depths. In `RateLimitLog` three responses let a third overrule two.
The clock of `IdleSpan` passes the final plus the idle timeout, so children that lasted too long occur; timers there
fire late, in the order of their deadlines. One reload is enough for `OfflineTransport`: after it only the store is
left, the state in which any later reload starts too; the same holds of `Replay` and sessionStorage. In `Telemetry`
the features meet only in the hooks, which call each for itself, so each has its own instance; the fourth log overruns
a buffer of two with one captured by the handler, and of the five spans three of one trace fill a bucket while it is
sent, one of them by weight. `Lateness` of 1 with a timeout of 2 lets a poll outlast its timeout and an event come
between any two of its iterations. In `Replay` two events make an order, two sessions a refresh or a stop and start,
and one waiting call beside the flush that is under way shows what a call finds when the lock is released; the run of
the finding has two.

`CHECK_DEADLOCK FALSE` where the system stops: the calls of the instance have all been made and answered, or the
clock is at its bound. `OfflineTransport` can always continue and keeps the check.

### Fairness

Liveness assumes what the event loop gives: queued reactions run, expired timers fire, a running function
returns (`WF` on those actions, `Fairness` in `PromiseBuffer`, `EngineFairness` in `Client`, `Fairness` in
`IdleSpan`), and time passes. Nothing makes a user callback answer, a promise settle or the network reply:
`TimedFlushAnswers` and the timed part of `WaitingEnds` hold though all of these hang, and its untimed part says
nothing until they have settled. `FinallyEnds` has no fairness on children or on the auto-finish hook.
`Telemetry` assumes that timers fire and that the browser is idle at some time. `Replay` assumes in addition that
workers and requests answer, one way or the other, and that sessions grow older: `HeldEventsAreFlushed` is about the
lock and the debounced flush, and says nothing of a request that hangs.

## 4. Findings

Two runs look for a sentence of the repository's own documentation and find the code does otherwise.

1. `idle_span_doc_idle`: `_restartChildSpanTimeout` stores its timer in `_idleTimeoutID` (idleSpan.ts:248). When
   `idleSpanEnableAutoFinish` finds a running child, the idle timeout armed just before loses its handle, and ends
   the span later though a child has just come and gone.
2. `replay_doc_recording`: two calls of `sendBufferedReplayOrFlush` wait for one flush; the first restarts the recorder
   in session mode, the second stops it (replay.ts:602) before it sees that the mode has changed (replay.ts:609).
   The replay then is enabled, not paused and records nothing; `resume()` refuses, since it is not paused.

Other places where code and words part, seen while modelling. They show in how a property has to be stated:

- `disabledUntil` is `limits[category] || limits.all || 0`; an expired entry of a category wins over a running limit for
  all (ratelimit.ts:38; hence the second disjunct of `ServerIsObeyed`, which asks for no entry of its own).
- A rate limited client report is recorded as a dropped item, though base.ts:61 wants no outcomes for client reports
  (`Told` in `EnvelopeDelivery` makes the exception).
- A hook that throws synchronously out of the producer passes the handlers that decrement `_numProcessing`
  (client.ts:1534): `NumProcessingIsExact` counts such events, and an untimed `flush()` then never answers.
- Storing a second replay re-arms the timer while the first is being sent; both are sent at once, which
  offline.ts:133 means to avoid; `InOrder` holds only as long as retries do not overlap.
- The promise buffer exceeds its maximum by nesting (promisebuffer.ts:16; the plain limit is proved for producers
  that do not nest, `LimitHoldsWithoutNesting`).
- A flush does not keep the timeout client.ts:436 speaks of: the poll takes `timeout` iterations of a timer of one
  millisecond, each of which may be late, and the drain then takes the whole timeout again (`Longest` in
  `FlushKeepsItsTime`).
- The end of an idle span looks at all its descendants (idleSpan.ts:317), but can take away its own children only
  (idleSpan.ts:348, spanUtils.ts:388): one further down that does not fit stays, or goes with the child it is below
  (`KeptChildrenFit`).
- A log that a `beforeEnvelope` handler captures while a *full* buffer is sent is overwritten (logs/internal.ts:57;
  `overwritten`, and `OverwrittenOnlyWhenFull` says that is the only way). A span ended there is lost with the bucket
  that is being sent, and if it fills that bucket, the spans in it are sent twice (spanBuffer.ts:181-185; `lost`,
  `sent` and `LossesHaveTheirCause`).
- A user known only by name or address becomes the `did` of the session but makes no update, though
  browsersession.ts:63 sends updates for the `did` (the exception in `WireIsCurrent`). An event belongs to the session
  that is current when its pipeline gets there, not when it was captured (client.ts:1479). A plain message in a
  session without errors sends an update too, although client.ts:1276 names only errors.
- `EventBufferCompressionWorker.finish` forgets the earliest timestamp when the worker answers, so a buffer that
  got events meanwhile counts as empty until the next one (the exception in `HeldEventsAreFlushed`).
- A flush that fails stops whatever replay runs by then, and converts a stopped one if a call waits for it: the
  recorder of a disabled replay starts again. One whose session has gone when the worker answers is sent without a
  session: every attempt throws at sendReplayRequest.ts:36, is retried for a minute and ends in a stop (`SendFailed`).
  `start()` "will always create a new session" (replay.ts:359) but loads a sticky one.

## 5. Proofs

All theorems are about `Spec` (safety), for every value of the constants allowed by the named assumptions in
each module (finite sets, limits at least one, `StartDelay <= MaxDelay`, disjoint item sets, ...), which TLC evaluates in
the runs.

- **PromiseBuffer_proofs.** `IInv` adds to the checked invariants that the producers on the stack are distinct and
  still producing, and that a drain's snapshot holds stored promises only. Without the first the count of
  `Bounded` is not inductive: `Start` pushes only after the size test, so what bounds the buffer is buffer plus stack,
  and `Store` must know that it moves one from one to the other. Theorems: `TypeCorrect`, `BufferIsBounded`,
  `NoSlotLeaks`, `SlotsAreRight` (both), `DrainGivesUpOnStragglers`, `LimitHoldsWithoutNesting`.
- **Transport_proofs.** The first part is about `RateLimitLog`. `TableIsLastWord` is the inductive form of
  `ServerIsObeyed`: an entry of the table is what the last response about its key left there. It speaks of entries
  instead of `IsRateLimited`, which mixes a category with `all`. `VerdictAssumption` is needed because `||` takes a 0
  for a missing entry: no response disables a category until 1970. `TableIsWhatTheLoopsCompute` says for headers of
  any length that the nested loops and the formula agree: both loops are folds, so what the inner one computes after k
  categories and the outer after k entries is stated for every k (`StepByStep` of `DataFacts`), and the last step is
  the theorem. The second part is about the requests. `RefinesPromiseBuffer` (each action is a buffer action or leaves
  it alone) needs no invariant. `ClientReportsAreExact` and `FlushIsSound` follow from an `IInv` that relates the
  three views of an envelope: its promise in the buffer, the fate of its items, and what a flush has in its snapshot
  (`SendCameFirst`, `PendingHasSlot`, `FlushKnows`). `OutcomesAreExact` counts sets; each action changes one reason by
  a set of items that was disjoint from it. The third is about what `Transport` implements. `TableFollowsTheServer`
  maps every step to one of `RateLimitLog`; that the latter bounds its responses is met because an envelope is
  answered once (`LogFits`) and `TransportAssumption` wants no more envelopes than responses. The invariant of the
  first part then holds of the transport, which gives `ServerIsHeeded`. `ImplementsDelivery`: in each action one
  envelope moves (`Alone`); `MoveIsMove` shows for any such step whose counters grow by the items it loses that it is
  a step of `EnvelopeDelivery`, and `SendMoves`, `EndMoves`, `NothingMoves` show that the actions are of this kind.
- **Client_proofs.** Every action of the pipeline moves one event, and the pipeline it ran in may go on (`Move`: the
  counter, the outcomes and the transport's buffer change as the event's stage does); `CaptureMoves`, `GoingOnMoves` and
  `EndingMoves` show it of the actions by kind, and one proof for `Move` then serves them all. `IInv` relates an event's
  stage to its promise (`Fits`) and to the transport (`RequestsFit`), which makes the counts of `NumProcessingIsExact`
  and `OutcomesConserved` inductive. For flushes it keeps, from the moment the counter was seen at zero, that
  what was captured before has left the pipeline and is either done or in the drain's snapshot (`FlushKnows`), and how
  much of its time each phase may have used (`InTime`). A pipeline behind an asynchronous processor leaves its end, its
  promise, its slot and the counter one by one, so `Fits` says which of them are still to come, and the counter is
  at zero for a timer only because timers wait for reactions (`TurnIsOver`). `Lateness` is a parameter: the theorem holds
  for timers as late as one likes.
  `RefinesPromiseBuffer` needs an invariant of its own, `FramesFit`: a pipeline on the stack is still producing, but
  for the bottom one, which may be one that was suspended and is in the buffer; and a stage before a callback or
  waiting for it says which. Without the place at the bottom a pop could not be told to be a `Store` or a `Settle`.
  Every action that touches the stack is then a push (`PushIsStart`) or a pop (`PopIsReturn`).
- **OfflineTransport_proofs.** `QueuedOnce`, `ShiftsAreAwaited`, `StoredIsRecorded` and `Ordered` strengthen
  `StoredOnce` and `InOrder`: the order of the queue is that of first storing, seen through the calls that wait on the
  store. `QueueIsWatched` needs types only and goes action by action.
- **IdleSpan_proofs.** `TimerFits` says of the one handle which kind of timer is behind it and that it is due a whole
  timeout after the last start; `IdleIsIdle` and `HeartbeatIsStuck` read it when the timer fires. `CancelledAtTheEnd`
  and the shape of the tree (`BranchesAreTops`: whatever is below a span has the same child on top) are what
  `KeptChildrenFit` needs: the span that decides is the idle span's own child.
- **Telemetry_proofs.** For any set of features, any limits and any number of logs, spans, requests and sessions.
  `SessionsTellTheTruth` rests on `RequestsFit`, which relates the status of a request to the exceptions it met before
  its response closed, and on `SessionsInv`: the sessions up to the current one are those that exist, and the user of
  the scope is on the current one (`SessionsExist`, `UserIsOnSession`), so that none with an id comes to it unnoticed.
  `OnlyLatecomersAreLost` compares with a moment in the past. `CloseInv` says that what was captured then was let go
  at that moment and nothing comes back (a buffer takes in only what is new: `Onward`), that an aggregate that counts
  has a timer and so a hook to flush it (`AggregateHasTimer`), and that before the first call the client is enabled
  and nothing is lost (`NotYetClosed`). `EveryItemIsFiled` says each item is in exactly one of its places, the logs
  and spans that are lost in one of their own; `NoBufferOverflows` is about the limits of logs and spans and about
  timers. Both rest on sums: `LogsInv` says the weight of the closure is at least the sum over the buffer, also after
  a handler has captured during the flush that resets it; `SpansInv` keeps the places of spans apart and relates
  bucket and timer per trace, also when a handler ends a span of the bucket that is being sent; `CountsInv` relates
  the aggregates to the requests counted in them. The sum of a set and an element is the sum and the element whatever
  order the library's fold takes (`SumFacts`). The same invariants make the steps of the three buffers steps of
  `Batching` (`LogsGoInBatches`, `SpansGoInBatches`, `RequestsGoInBatches`) and show that only a full buffer is
  overwritten. `LossesAreExplained` needs of a flush what it does to the letter (`WhatGoes`): it ends in one of three
  ways (`GoesWell`, `LosesIt`, `SendsTwice`), whoever called it. `HistoriesAreLegal` is an action property over
  `HistoryInv`: what the server has of a session is an earlier state of that session, which only gets worse.
- **Replay_proofs.** Methods are operators on the container, so each has one lemma: from a good container it makes a
  good one (`Good`), and a run of the event loop is a composition, a fold where waiting calls go on one after the
  other. `Good(history)` has five parts. `Numbered`: the session's `segmentId` is the number of segments made for
  its id, in memory *and* in sessionStorage, since a reload goes on from the latter. `Past`: what was cut and recorded
  is about sessions created so far, so that a new one starts at 0. `Stored` is `StorageIsCurrent` and, without sticky
  sessions, an empty storage. `Holds`: the buffer has only events of the current session, all later than what was
  sent of it; it is why a refresh must replace the buffer. `Replaceable` keeps the bound on sessions. `Segmented` is
  about the segments alone: numbers below their count and events of their replay. `FlushesMakeAStream` then maps a
  step to `Cut` (a segment was added), `Record`, or a stutter. The proof asked for `MaxReplays` to be positive:
  `TypeOK` fails in a page that may have no replay.

Every invariant and action property of the runs and every refinement's safety part is proved; what is only
model-checked is liveness: `WaitingEnds`, `TimedFlushAnswers`, `FinallyEnds`, `HeldEventsAreFlushed`, the last
conjunct of `SessionsAreReported` (`FirstSessionIsSent`) and that of `Batching!Spec` in `BuffersAreBatched` (a batch
is empty again and again); they rest on fairness, and so on `ENABLED`, which the prover cannot reason about.

Recursion. The library's induction theorems take an operator as a parameter, and an instance of that is out of reach.
`DataFacts` therefore does without: a property of naturals is the *set* of those that have it
(`NatSetInduction`), a recursion over the subsets of a finite set is a function that exists by that induction
(`SubsetRecursion`), and the `CHOOSE` in the library's folds and sums then has a value, which is the only one. That
gives `SumFacts` and `FoldSteps`, on which the proofs about sums, header loops and waiting calls rest.

## 6. Not modelled

Of modelled components: integrations' own state, transports that are absent, envelope bytes, the `sent_at` header, the
browser's `online` event other than as a flush; of the idle span a second call of `end`, the scope's active span,
standalone and unsampled spans. Of the client: several asynchronous processors of one event count as the last of them,
and reactions that change nothing are not told apart. Of the buffers: what a handler captures into another buffer than
the one that is being sent is a step of its own. A client without a transport is left out; the sampling decision is a
choice. Of sessions: durations, addresses, the process session of Node, sessions on the current scope, clients without
the integration. Of replay: performance entries, click detector, canvas, event contents, the simple buffer that serves
until the worker is loaded, worker errors other than overflow and destruction, `checkoutEveryNms` as a timer (a
checkout may come at any moment), timestamps (`timely` is what `shouldAddEvent` makes of one: an event of the
application may be refused at any time, one of rrweb only in a session that is not young). Whole components not
modelled are listed in `PROJECT.json` with the reason: platform clients and framework SDKs are adapters without
protocol state; bundler plugins are build tools; feedback and browser metrics are DOM code; scopes and the tracing API
are sequential data construction.

These adapters, build tools and data builders are by far the larger part of the repository's lines (some fifty
packages of framework integration): what has state, timers, queues and retries worth checking is concentrated in
`core`, `replay-internal` and a few files of `browser`.

## 7. Plan

Order, most important first; the first nine are done.

1. `PromiseBuffer`, `RateLimits`, `RateLimitLog` - the helpers everything else is built from.
2. `EnvelopeDelivery`, `Transport` - composed of 1.
3. `Client` - the event pipeline, flush and close.
4. `OfflineTransport` - retry and store.
5. `IdleSpan` - the timers of automatic spans.
6. `Batching`, `WeightBuffer`, `SpanBuffer`, `RequestSessions`, `BrowserSessions`, `Telemetry`.
7. `SegmentStream`, `Replay`.
8. Proofs for 1 to 5: their invariants and action properties, the loops of the rate limits, and the refinements of
   the transport and the client.
9. Proofs for 6 and 7: all invariants, the steps of the three buffers as steps of `Batching`, and the replay as a
   `SegmentStream`.
10. `OfflineDelivery`: `OfflineTransport` over `Transport` instead of over an external party. Two questions wait
    for it: an envelope dropped for a rate limit or a full buffer resolves `{}` and passes for delivered
    (base.ts:55), and a failed attempt records `network_error` for an envelope that is stored and sent later
    (base.ts:99). Abstract specification: an envelope is delivered, told as lost, or stored.
11. `FetchKeepalive`: counters return to zero and stay under both limits.
12. The buffer behind `EventBufferProxy` in `Replay`: worker not loaded yet, fallback.
13. Liveness of one component from lemmas `WF`-step by `WF`-step, if the prover learns `ENABLED`.
