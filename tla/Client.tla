------------------------------- MODULE Client -------------------------------
(***************************************************************************)
(* The event pipeline of Client, packages/core/src/client.ts: capture* ->  *)
(* _process (counter and promise buffer) -> _processEvent (sampling, event *)
(* processors, beforeSend) -> sendEvent -> transport; client reports;      *)
(* flush and close.                                                        *)
(*                                                                         *)
(* The pipeline begins on SyncPromises: it executes synchronously inside   *)
(* the capture call until a processor or beforeSend is asynchronous.  When *)
(* beforeSend was, it goes on synchronously in the reaction to its answer. *)
(* When a processor was, everything behind it hangs on a native promise:   *)
(* each further part is a microtask of its own, then the promise settles,  *)
(* then the buffer's reaction runs, then that of _process, and other code  *)
(* runs in between.  Reactions that change nothing here (prepareEvent,     *)
(* _captureEvent, hooks) are not told apart.                               *)
(*                                                                         *)
(* `frames` is the JavaScript stack of pipelines that are executing,       *)
(* innermost last: user callbacks capture again, and a pipeline whose      *)
(* callback throws captures the error.  While it is not empty no timer or  *)
(* promise reaction runs, and no timer while a reaction is queued.         *)
(*                                                                         *)
(* The transport is seen from the client: it takes an envelope, refuses    *)
(* it, and later ends its request (Transport has the details).             *)
(***************************************************************************)
EXTENDS Naturals, Sequences, FiniteSets

CONSTANTS
    Events,      \* the events user code or the SDK captures
    Direct,      \* those captured by captureEvent, the others are built first (captureException)
    Errors,      \* error events: sampled, and the only ones an internal error becomes
    MayThrow,    \* events for which a preprocessEvent hook throws
    BufferSize,  \* size of _promiseBuffer
    MaxDepth,    \* bound: how deep captures nest
    Sampling,    \* is options.sampleRate below 1
    Reports,     \* client reports that may be sent
    Flushes,     \* calls of flush()
    Closes,      \* those made by close()
    Timeout,     \* the timeout of timed flushes, in ms
    Lateness     \* how late a timer may fire, in ms: clamping, a busy thread

ASSUME ClientAssumption ==
    /\ IsFiniteSet(Events) /\ IsFiniteSet(Reports) /\ Events \cap Reports = {}
    /\ Direct \subseteq Events /\ Errors \subseteq Events /\ MayThrow \subseteq Events
    /\ BufferSize \in Nat \ {0} /\ MaxDepth \in Nat \ {0} /\ Timeout \in Nat \ {0}
    /\ Lateness \in Nat
    /\ Sampling \in BOOLEAN
    /\ Closes \subseteq Flushes

VARIABLES
    stage,          \* of each event: where its pipeline is, or how it ended
    internal,       \* events captured for an error of the pipeline itself
    native,         \* pipelines behind an asynchronous processor, till _process counts them off
    status, buffer, \* _promiseBuffer, as in PromiseBuffer
    frames,         \* pipelines executing
    numProcessing,  \* _numProcessing
    outcomes,       \* _outcomes, by reason
    report,         \* what became of each client report
    told,           \* history: what the reports said, added up
    requests,       \* envelopes in the transport's buffer
    enabled,        \* options.enabled
    flush           \* each call of flush(): see FlushType

vars == <<stage, internal, native, status, buffer, frames, numProcessing, outcomes, told, report,
          requests, enabled, flush>>
marks == <<internal, native>>
taskVars == <<status, buffer, frames, numProcessing>>
reportVars == <<told, report>>

Reasons == {"sample_rate", "event_processor", "before_send", "queue_overflow",
            "ratelimit_backoff", "network_error"}
Running == {"build", "prepare", "preparing", "prepared", "null", "beforeSend", "asking", "asked",
            "throwing", "failing"}
Ends == Reasons \cup {"failed", "thrown", "disabled", "sending", "answered"}
Counts == [Reasons -> Nat]
NoCounts == [r \in Reasons |-> 0]
FlushType == [phase: {"none", "polling", "draining", "true", "false"},
              timed: BOOLEAN,
              ticks: Nat,               \* `ticked`: iterations of the poll
              since: Nat,               \* elapsed since its timer was set
              age: Nat,                 \* elapsed since the call, while timed
              done: BOOLEAN,            \* clientFinished
              snap: SUBSET (Events \cup Reports),
              before: SUBSET Events]    \* history: events captured before the call

Idle == frames = <<>>
Top == frames[Len(frames)]
IsTop(e) == ~Idle /\ e = Top
Captured == {e \in Events : stage[e] # "new"}

TypeOK ==
    /\ stage \in [Events -> {"new"} \cup Running \cup Ends]
    /\ internal \in SUBSET Events
    /\ native \in SUBSET Events
    /\ status \in [Events -> {"new", "producing", "pending", "fulfilled", "rejected", "refused", "thrown"}]
    /\ buffer \in SUBSET Events
    /\ frames \in Seq(Events)
    /\ numProcessing \in Nat
    /\ outcomes \in Counts
    /\ report \in [Reports -> {"none", "sending", "gone", "ratelimit_backoff"}]
    /\ told \in Counts
    /\ requests \in SUBSET (Events \cup Reports)
    /\ enabled \in BOOLEAN
    /\ flush \in [Flushes -> FlushType]

Init ==
    /\ stage = [e \in Events |-> "new"]
    /\ internal = {}
    /\ native = {}
    /\ status = [e \in Events |-> "new"]
    /\ buffer = {}
    /\ frames = <<>>
    /\ numProcessing = 0
    /\ outcomes = NoCounts
    /\ report = [r \in Reports |-> "none"]
    /\ told = NoCounts
    /\ requests = {}
    /\ enabled = TRUE
    /\ flush = [f \in Flushes |-> [phase |-> "none", timed |-> FALSE, ticks |-> 0, since |-> 0,
                                   age |-> 0, done |-> FALSE, snap |-> {}, before |-> {}]]

-----------------------------------------------------------------------------
RecordDroppedEvent(reason) == outcomes' = [outcomes EXCEPT ![reason] = @ + 1]

(* _process and add(): the event enters the pipeline or overflows.  The    *)
(* counter of an overflowing event goes up and down again.                 *)
Enter(e) ==
    /\ Cardinality(buffer) < BufferSize
    /\ status' = [status EXCEPT ![e] = "producing"]
    /\ frames' = Append(frames, e)
    /\ numProcessing' = numProcessing + 1
    /\ UNCHANGED <<buffer, outcomes>>

\* mutants: the counter of an overflowing event goes down twice, or not at all
OverflowTwice(e) ==
    /\ Cardinality(buffer) >= BufferSize
    /\ status' = [status EXCEPT ![e] = "refused"]
    /\ RecordDroppedEvent("queue_overflow")
    /\ numProcessing' = numProcessing - 1
    /\ UNCHANGED <<buffer, frames>>

OverflowLeaks(e) ==
    /\ Cardinality(buffer) >= BufferSize
    /\ status' = [status EXCEPT ![e] = "refused"]
    /\ RecordDroppedEvent("queue_overflow")
    /\ numProcessing' = numProcessing + 1
    /\ UNCHANGED <<buffer, frames>>

Overflow(e) ==
    /\ Cardinality(buffer) >= BufferSize
    /\ status' = [status EXCEPT ![e] = "refused"]
    /\ RecordDroppedEvent("queue_overflow")
    /\ UNCHANGED <<buffer, frames, numProcessing>>

FirstStage(e) == IF e \in Direct THEN "prepare" ELSE "build"

\* What capturing x does, when the stages of other events become st
CaptureInto(x, st) ==
    \/ Enter(x) /\ stage' = [st EXCEPT ![x] = FirstStage(x)]
    \/ Overflow(x) /\ stage' = [st EXCEPT ![x] = "queue_overflow"]

\* User code is running: the main program, or a callback of the top pipeline.
CallbackMayRun == ~Idle => stage[Top] \notin {"null", "throwing", "failing"}

(* captureException, captureMessage, captureEvent, from anywhere or from a *)
(* callback of the pipeline on top of the stack                            *)
Capture(e) ==
    /\ stage[e] = "new"
    /\ Len(frames) < MaxDepth
    /\ CallbackMayRun
    /\ CaptureInto(e, stage)
    /\ UNCHANGED <<marks, reportVars, requests, enabled, flush>>

-----------------------------------------------------------------------------
Popped == SubSeq(frames, 1, Len(frames) - 1)

\* mutant: a rejected pipeline keeps its slot
SettleRejectedStays(e, s) ==
    /\ frames' = Popped
    /\ status' = [status EXCEPT ![e] = s]
    /\ buffer' = IF s = "rejected" THEN buffer \cup {e} ELSE buffer \ {e}
    /\ numProcessing' = numProcessing - 1

(* A SyncPromise settles while its pipeline runs: it leaves the stack and  *)
(* the buffer, and _process counts it as done.                             *)
Settle(e, s) ==
    /\ frames' = Popped
    /\ status' = [status EXCEPT ![e] = s]
    /\ buffer' = buffer \ {e}
    /\ numProcessing' = numProcessing - 1

(* The last part of the pipeline that does something.  A native promise    *)
(* settles later (NativeSettles).                                          *)
End(e, end) ==
    /\ stage' = [stage EXCEPT ![e] = end]
    /\ \/ e \in native /\ frames' = Popped /\ UNCHANGED <<status, buffer, numProcessing>>
       \/ e \notin native /\ Settle(e, "fulfilled")

\* On to the next then(): at once, or as a microtask (RunJob).
Advance(e, from, to) ==
    /\ IsTop(e)
    /\ stage[e] = from
    /\ stage' = [stage EXCEPT ![e] = to]
    /\ frames' = IF e \in native THEN Popped ELSE frames
    /\ UNCHANGED <<marks, status, buffer, numProcessing, outcomes, reportVars, requests, enabled, flush>>

\* eventFromException resolves, or rejects: then nobody is told.
Build(e) == Advance(e, "build", "prepare")
BuildFails(e) ==
    /\ IsTop(e)
    /\ stage[e] = "build"
    /\ Settle(e, "rejected")
    /\ stage' = [stage EXCEPT ![e] = "failed"]
    /\ UNCHANGED <<marks, outcomes, reportVars, requests, enabled, flush>>

(* A direct event's producer throws before it has a promise: add() throws  *)
(* out of _process, and the counter keeps the event.                       *)
ThrowSync(e) ==
    /\ e \in MayThrow \cap Direct
    /\ IsTop(e)
    /\ stage[e] = "prepare"
    /\ frames' = Popped
    /\ status' = [status EXCEPT ![e] = "thrown"]
    /\ stage' = [stage EXCEPT ![e] = "thrown"]
    /\ UNCHANGED <<marks, buffer, numProcessing, outcomes, reportVars, requests, enabled, flush>>

\* The same hook throws inside a then(), which turns it into a rejection.
ThrowInThen(e) ==
    /\ e \in MayThrow \ Direct
    /\ IsTop(e)
    /\ stage[e] = "prepare"
    /\ Settle(e, "rejected")
    /\ stage' = [stage EXCEPT ![e] = "failed"]
    /\ UNCHANGED <<marks, outcomes, reportVars, requests, enabled, flush>>

Drop(e, reason) ==
    /\ IsTop(e)
    /\ End(e, reason)
    /\ RecordDroppedEvent(reason)
    /\ UNCHANGED <<marks, reportVars, requests, enabled, flush>>

SampledOut(e) == Sampling /\ e \in Errors /\ stage[e] = "prepare" /\ Drop(e, "sample_rate")

\* The processors have run; they and beforeSend are skipped for internal events.
ProcessorReturnsNull(e) ==
    e \notin internal /\ \E from \in {"prepare", "prepared"} : Advance(e, from, "null")
ProcessorDrops(e) == stage[e] = "null" /\ Drop(e, "event_processor")
Prepared(e) == \E from \in {"prepare", "prepared"} : Advance(e, from, "beforeSend")

BeforeSendReturns(e) == Advance(e, "beforeSend", "asked")
BeforeSendDrops(e) == stage[e] = "asked" /\ e \notin internal /\ Drop(e, "before_send")

(* beforeSend returned no event, or its promise rejected *)
BeforeSendInvalid(e) ==
    /\ IsTop(e)
    /\ stage[e] \in {"beforeSend", "asked"}
    /\ e \notin internal
    /\ End(e, "failed")
    /\ UNCHANGED <<marks, outcomes, reportVars, requests, enabled, flush>>

(* A processor or beforeSend threw: the error is captured as a new event,  *)
(* unless it was captured before; the original event is lost.              *)
CallbackThrows(e) ==
    /\ e \notin internal
    /\ \E from \in {"prepare", "prepared", "beforeSend", "asked"} : Advance(e, from, "throwing")

CaptureError(e) ==
    /\ IsTop(e)
    /\ stage[e] = "throwing"
    /\ LET st == [stage EXCEPT ![e] = "failing"]
       IN  \/ \E x \in Errors \ Direct :
                 /\ stage[x] = "new"
                 /\ Len(frames) < MaxDepth
                 /\ CaptureInto(x, st)
                 /\ internal' = internal \cup {x}
           \/ stage' = st /\ UNCHANGED <<internal, taskVars, outcomes>>
    /\ UNCHANGED <<native, reportVars, requests, enabled, flush>>

Fails(e) ==
    /\ IsTop(e)
    /\ stage[e] = "failing"
    /\ End(e, "failed")
    /\ UNCHANGED <<marks, outcomes, reportVars, requests, enabled, flush>>

(* An asynchronous callback: the pipeline leaves the stack, as a pending   *)
(* promise in the buffer, and resumes when the callback answers (of        *)
(* several asynchronous processors, the last).                             *)
Suspend(e) ==
    /\ IsTop(e)
    /\ e \notin internal
    /\ \/ /\ stage[e] = "prepare"
          /\ stage' = [stage EXCEPT ![e] = "preparing"]
          /\ native' = native \cup {e}
       \/ /\ stage[e] = "beforeSend"
          /\ stage' = [stage EXCEPT ![e] = "asking"]
          /\ UNCHANGED native
    /\ frames' = Popped
    /\ status' = [status EXCEPT ![e] = "pending"]
    /\ buffer' = buffer \cup {e}
    /\ UNCHANGED <<internal, numProcessing, outcomes, reportVars, requests, enabled, flush>>

Resume(e) ==
    /\ Idle
    /\ \/ stage[e] = "preparing" /\ stage' = [stage EXCEPT ![e] = "prepared"]
       \/ stage[e] = "asking" /\ stage' = [stage EXCEPT ![e] = "asked"]
    /\ frames' = <<e>>
    /\ UNCHANGED <<marks, status, buffer, numProcessing, outcomes, reportVars, requests, enabled, flush>>

-----------------------------------------------------------------------------
(* The microtasks of a pipeline behind an asynchronous processor           *)

WaitsForAnswer(e) == stage[e] \in {"preparing", "asking"}

RunJob(e) ==
    /\ Idle
    /\ e \in native
    /\ stage[e] \in Running
    /\ ~WaitsForAnswer(e)
    /\ frames' = <<e>>
    /\ UNCHANGED <<stage, marks, status, buffer, numProcessing, outcomes, reportVars, requests, enabled, flush>>

(* The promise add() was given settles, always fulfilled (_captureEvent).  *)
(* That of a built event is a SyncPromise which waited for the native one: *)
(* its reactions run at once.                                              *)
NativeSettles(e) ==
    /\ Idle
    /\ e \in native
    /\ status[e] = "pending"
    /\ stage[e] \in Ends
    /\ status' = [status EXCEPT ![e] = "fulfilled"]
    /\ \/ e \in Direct /\ UNCHANGED <<native, buffer, numProcessing>>
       \/ /\ e \notin Direct
          /\ native' = native \ {e}
          /\ buffer' = buffer \ {e}
          /\ numProcessing' = numProcessing - 1
    /\ UNCHANGED <<stage, internal, frames, outcomes, reportVars, requests, enabled, flush>>

Remove(e) ==
    /\ Idle
    /\ status[e] = "fulfilled"
    /\ e \in buffer
    /\ buffer' = buffer \ {e}
    /\ UNCHANGED <<stage, marks, status, frames, numProcessing, outcomes, reportVars, requests, enabled, flush>>

CountOff(e) ==
    /\ Idle
    /\ e \in native
    /\ status[e] = "fulfilled"
    /\ e \notin buffer
    /\ native' = native \ {e}
    /\ numProcessing' = numProcessing - 1
    /\ UNCHANGED <<stage, internal, status, buffer, frames, outcomes, reportVars, requests, enabled, flush>>

Microtask(e) == RunJob(e) \/ NativeSettles(e) \/ Remove(e) \/ CountOff(e)

-----------------------------------------------------------------------------
(* sendEvent and sendEnvelope *)

ReadyToSend(e) == IsTop(e) /\ stage[e] = "asked"

SendAccepted(e) ==
    /\ ReadyToSend(e)
    /\ enabled
    /\ End(e, "sending")
    /\ requests' = requests \cup {e}
    /\ UNCHANGED <<marks, outcomes, reportVars, enabled, flush>>

SendRefused(e) ==
    /\ ReadyToSend(e)
    /\ enabled
    /\ \E reason \in {"ratelimit_backoff", "queue_overflow"} :
          End(e, reason) /\ RecordDroppedEvent(reason)
    /\ UNCHANGED <<marks, reportVars, requests, enabled, flush>>

SendDisabled(e) ==
    /\ ReadyToSend(e)
    /\ ~enabled
    /\ End(e, "disabled")
    /\ UNCHANGED <<marks, outcomes, reportVars, requests, enabled, flush>>

RequestEnds(e) ==
    /\ Idle
    /\ e \in requests
    /\ requests' = requests \ {e}
    /\ \/ stage' = [stage EXCEPT ![e] = "answered"] /\ UNCHANGED outcomes
       \/ stage' = [stage EXCEPT ![e] = "network_error"] /\ RecordDroppedEvent("network_error")
    /\ UNCHANGED <<marks, taskVars, reportVars, enabled, flush>>

-----------------------------------------------------------------------------
(* _flushOutcomes: the counters are cleared, then the report is sent.  A   *)
(* rate limited report is recorded, any other loss of a report is not.     *)

\* mutant: the counters are cleared only when the report is sent
SendReportThenClear(r) ==
    /\ Idle
    /\ report[r] = "none"
    /\ outcomes # NoCounts
    /\ told' = [reason \in Reasons |-> told[reason] + outcomes[reason]]
    /\ \E end \in IF enabled THEN {"sending", "ratelimit_backoff", "gone"} ELSE {"gone"} :
          /\ report' = [report EXCEPT ![r] = end]
          /\ requests' = IF end = "sending" THEN requests \cup {r} ELSE requests
          /\ outcomes' = IF end = "ratelimit_backoff" THEN [outcomes EXCEPT ![end] = @ + 1] ELSE NoCounts
    /\ UNCHANGED <<stage, marks, taskVars, enabled, flush>>

SendReport(r) ==
    /\ Idle
    /\ report[r] = "none"
    /\ outcomes # NoCounts
    /\ told' = [reason \in Reasons |-> told[reason] + outcomes[reason]]
    /\ \E end \in IF enabled THEN {"sending", "ratelimit_backoff", "gone"} ELSE {"gone"} :
          /\ report' = [report EXCEPT ![r] = end]
          /\ requests' = IF end = "sending" THEN requests \cup {r} ELSE requests
          /\ outcomes' = IF end = "ratelimit_backoff" THEN [NoCounts EXCEPT ![end] = 1] ELSE NoCounts
    /\ UNCHANGED <<stage, marks, taskVars, enabled, flush>>

ReportEnds(r) ==
    /\ Idle
    /\ r \in requests
    /\ requests' = requests \ {r}
    /\ report' = [report EXCEPT ![r] = "gone"]
    /\ UNCHANGED <<stage, marks, taskVars, outcomes, told, enabled, flush>>

-----------------------------------------------------------------------------
(* flush(timeout) and close(timeout) *)

CallFlush(f, timed) ==
    /\ Idle
    /\ flush[f].phase = "none"
    /\ flush' = [flush EXCEPT ![f] = [phase |-> "polling", timed |-> timed, ticks |-> 0, since |-> 0,
                                      age |-> 0, done |-> FALSE, snap |-> {}, before |-> Captured]]
    /\ UNCHANGED <<stage, marks, taskVars, outcomes, reportVars, requests, enabled>>

\* mutant: flush() returns transportFlushed alone
StartDrainForgets(fl, done) ==
    [fl EXCEPT !.phase = IF requests = {} THEN "true" ELSE "draining",
               !.ticks = 0, !.since = 0, !.done = TRUE, !.snap = requests]

\* _isClientDoneProcessing is over: transport.flush(timeout) is called.
StartDrain(fl, done) ==
    [fl EXCEPT !.phase = IF requests = {} THEN (IF done THEN "true" ELSE "false") ELSE "draining",
               !.ticks = 0, !.since = 0, !.done = done, !.snap = requests]

\* mutants: `ticked <= timeout`, and a loop without the timeout test
PollOnceMore(fl) ==
    IF numProcessing = 0 THEN StartDrain(fl, TRUE)
    ELSE IF fl.timed /\ fl.ticks = Timeout THEN StartDrain(fl, FALSE)
    ELSE [fl EXCEPT !.ticks = IF fl.timed THEN @ + 1 ELSE @, !.since = 0]

PollForever(fl) == IF numProcessing = 0 THEN StartDrain(fl, TRUE) ELSE [fl EXCEPT !.since = 0]

\* One iteration of _isClientDoneProcessing: it sets the next timer of 1 ms, or is over.
Poll(fl) ==
    IF numProcessing = 0 THEN StartDrain(fl, TRUE)
    ELSE IF fl.timed /\ fl.ticks + 1 = Timeout THEN StartDrain(fl, FALSE)
    ELSE [fl EXCEPT !.ticks = IF fl.timed THEN @ + 1 ELSE @, !.since = 0]

HasTimer(fl) == fl.phase = "polling" \/ (fl.phase = "draining" /\ fl.timed)
Delay(fl) == IF fl.phase = "polling" THEN 1 ELSE Timeout

Drained(f) == flush[f].phase = "draining" /\ flush[f].snap \cap requests = {}

\* A timer is a macrotask: nothing runs, and every queued reaction has run.
TurnIsOver ==
    /\ Idle
    /\ \A e \in native : WaitsForAnswer(e)
    /\ \A f \in Flushes : ~Drained(f)

\* close() disables the client when its flush has answered.
Answered(fl) == fl.phase \in {"true", "false"}
Closed(fl) == \E c \in Closes : Answered(fl[c])

(* The timer of a poll iteration, or of transport.flush *)
TimerFires(f) ==
    /\ TurnIsOver
    /\ HasTimer(flush[f])
    /\ flush[f].since >= Delay(flush[f])
    /\ flush' = [flush EXCEPT ![f] = IF @.phase = "polling" THEN Poll(@) ELSE [@ EXCEPT !.phase = "false"]]
    /\ enabled' = (enabled /\ ~Closed(flush'))
    /\ UNCHANGED <<stage, marks, taskVars, outcomes, reportVars, requests>>

\* What a flush may take. bound: ages are told apart up to one more
Longest == Timeout * (1 + Lateness) + Timeout + Lateness
Older(fl) ==
    [fl EXCEPT !.since = @ + 1, !.age = IF fl.timed /\ @ <= Longest THEN @ + 1 ELSE @]

(* A millisecond passes.  A timer is late by at most Lateness.             *)
Tick ==
    /\ TurnIsOver
    /\ \A f \in Flushes : HasTimer(flush[f]) => flush[f].since < Delay(flush[f]) + Lateness
    /\ flush' = [f \in Flushes |-> IF HasTimer(flush[f]) THEN Older(flush[f]) ELSE flush[f]]
    /\ flush' # flush
    /\ UNCHANGED <<stage, marks, taskVars, outcomes, reportVars, requests, enabled>>

FlushDrained(f) ==
    /\ Idle
    /\ Drained(f)
    /\ flush' = [flush EXCEPT ![f].phase = IF flush[f].done THEN "true" ELSE "false"]
    /\ enabled' = (enabled /\ ~Closed(flush'))
    /\ UNCHANGED <<stage, marks, taskVars, outcomes, reportVars, requests>>

-----------------------------------------------------------------------------
\* A running pipeline goes on.
Step(e) ==
    \/ Build(e) \/ BuildFails(e) \/ ThrowSync(e) \/ ThrowInThen(e) \/ SampledOut(e)
    \/ ProcessorReturnsNull(e) \/ ProcessorDrops(e) \/ Prepared(e)
    \/ BeforeSendReturns(e) \/ BeforeSendDrops(e) \/ BeforeSendInvalid(e)
    \/ CallbackThrows(e) \/ CaptureError(e) \/ Fails(e) \/ Suspend(e)
    \/ SendAccepted(e) \/ SendRefused(e) \/ SendDisabled(e)

Next ==
    \/ \E e \in Events : Capture(e) \/ Step(e) \/ Resume(e) \/ Microtask(e) \/ RequestEnds(e)
    \/ \E r \in Reports : SendReport(r) \/ ReportEnds(r)
    \/ \E f \in Flushes : FlushDrained(f) \/ TimerFires(f) \/ \E timed \in BOOLEAN : CallFlush(f, timed)
    \/ Tick

Spec == Init /\ [][Next]_vars

(* The JavaScript engine runs code that can run and fires timers and       *)
(* reactions.  Nothing makes a callback or the network answer.             *)
EngineFairness ==
    /\ \A e \in Events : WF_vars(Step(e)) /\ WF_vars(Microtask(e))
    /\ \A f \in Flushes : WF_vars(FlushDrained(f)) /\ WF_vars(TimerFires(f))
    /\ WF_vars(Tick)
FairSpec == Spec /\ EngineFairness

-----------------------------------------------------------------------------
(* The counter flush() polls is the number of pipelines under way, plus    *)
(* those whose producer threw and those whose reaction is still queued;    *)
(* and of these a timer, which is when flush() looks, finds none.  Nothing *)
(* else ever unbalances it, however captures nest, overflow, suspend, fail *)
(* and are counted off late (client.ts:1303-1309, 1533-1551).              *)
UnderWay == {e \in Events : status[e] \in {"producing", "pending", "thrown"}}
NumProcessingIsExact ==
    /\ numProcessing = Cardinality(UnderWay \cup native)
    /\ TurnIsOver => numProcessing = Cardinality(UnderWay)

(* Every dropped event is counted once, in the counters or in one of the   *)
(* client reports; a report that was itself rate limited counts as one     *)
(* (client.ts:604-619, 1556-1595).                                         *)
OutcomesConserved ==
    \A reason \in Reasons :
        outcomes[reason] + told[reason]
            = Cardinality({e \in Events : stage[e] = reason})
              + Cardinality({r \in Reports : report[r] = reason})

(* A flush that answered true left no event behind that was captured       *)
(* before it was called: none is in the pipeline and none in the           *)
(* transport, whatever was captured meanwhile (client.ts:442-458).         *)
FlushTrueCovers ==
    \A f \in Flushes : flush[f].phase = "true" =>
        \A e \in flush[f].before :
            stage[e] \in Ends \ {"sending", "thrown"} /\ e \notin UnderWay

(* The pipelines add() still waits for: all on the stack, but for one that *)
(* was suspended, is in the buffer since, and has resumed at the bottom.   *)
Producing ==
    IF ~Idle /\ status[frames[1]] = "pending" THEN Tail(frames) ELSE frames

(* _promiseBuffer is used as PromiseBuffer specifies: the counter and the  *)
(* stages of the pipelines add nothing to it, and the promises of direct   *)
(* events may be native ones (client.ts:1533-1551).                        *)
PB == INSTANCE PromiseBuffer WITH
          Tasks <- Events, SyncTasks <- Events, NativeTasks <- Direct, Limit <- BufferSize, Drains <- {},
          stack <- Producing, drain <- [d \in {} |-> d]
UsesPromiseBuffer == PB!Spec

(* A flush with a timeout always answers, even if callbacks and requests   *)
(* hang forever or a producer threw.                                       *)
TimedFlushAnswers ==
    \A f \in Flushes :
        flush[f].phase \in {"polling", "draining"} /\ flush[f].timed ~> Answered(flush[f])

(* A timed flush keeps its time as far as timers allow: the poll counts    *)
(* iterations, each as late as a timer can be, and transport.flush waits   *)
(* for the whole timeout again; and none gives up before the timeout has   *)
(* passed, or without one (client.ts:454-455, 1303-1309).                  *)
FlushKeepsItsTime ==
    \A f \in Flushes :
        /\ flush[f].timed => flush[f].age <= Longest
        /\ flush[f].phase = "false" => flush[f].timed /\ flush[f].age >= Timeout
=============================================================================
