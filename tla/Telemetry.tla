----------------------------- MODULE Telemetry -----------------------------
(***************************************************************************)
(* One client with its telemetry: logs, streamed spans, request sessions   *)
(* and browser sessions, each an option of the SDK.  They meet in the      *)
(* hooks 'flush' and 'close' and in `enabled`, which decides what becomes  *)
(* of an envelope.                                                         *)
(***************************************************************************)
EXTENDS WeightBuffer, SpanBuffer, RequestSessions, BrowserSessions

CONSTANTS
    FeatureSets,  \* the sets of options looked at: subsets of Features
    HandlerLogs,  \* logs a 'beforeEnvelope' handler of the user may capture
    HandlerSpans  \* spans it may end

Features == {"logs", "spans", "requests", "sessions"}

ASSUME FeatureAssumption ==
    FeatureSets \subseteq SUBSET Features /\ HandlerLogs \subseteq Log /\ HandlerSpans \subseteq Span

VARIABLES
    features,     \* enableLogs, traceLifecycle: 'stream', and the integrations of both sessions
    beforeClose   \* history: what had been captured when close() was first called

vars == <<hookVars, logs, spans, requestVars, sessionVars, features, beforeClose>>

NotClosed == [called |-> FALSE, logs |-> {}, spans |-> {}, requests |-> {}]
CapturedSoFar == [called |-> TRUE, logs |-> logs.captured, spans |-> spans.ended, requests |-> Closed]

TypeOK ==
    /\ HooksTypeOK /\ LogsTypeOK /\ SpansTypeOK /\ RequestsTypeOK /\ SessionsTypeOK
    /\ features \in FeatureSets
    /\ beforeClose \in [called: BOOLEAN, logs: SUBSET Log, spans: SUBSET Span, requests: SUBSET Request]

Init ==
    /\ HooksInit /\ LogsInit /\ SpansInit /\ RequestsInit /\ SessionsInit
    /\ features \in FeatureSets
    /\ beforeClose = NotClosed

-----------------------------------------------------------------------------
Same == UNCHANGED <<hookVars, features, beforeClose>>

(* What a handler captures into another buffer than the one that sends is a *)
(* step of its own, before or after: the buffers do not touch each other.    *)
Handled == IF "logs" \in features THEN HandlerLogs \cup {NoLog} ELSE {NoLog}
HandledSpans == IF "spans" \in features THEN HandlerSpans \cup {NoSpan} ELSE {NoSpan}

LogStep ==
    /\ "logs" \in features
    /\ \E n \in Handled : LogTimerFires(n) \/ \E l \in Log : CaptureLog(l, n)
    /\ Same /\ UNCHANGED <<spans, requestVars, sessionVars>>

SpanStep ==
    /\ "spans" \in features
    /\ \E n \in HandledSpans : (\E s \in Span : AddSpan(s, n)) \/ \E t \in Trace : SpanTimerFires(t, n)
    /\ Same /\ UNCHANGED <<logs, requestVars, sessionVars>>

RequestStep ==
    /\ "requests" \in features
    /\ \/ Tick
       \/ AggregateTimerFires
       \/ \E r \in Request :
            \/ StartRequest(r)
            \/ CloseResponse(r)
            \/ \E kind \in {"handled", "unhandled"} : CaptureException(r, kind)
    /\ Same /\ UNCHANGED <<logs, spans, sessionVars>>

SessionStep ==
    /\ "sessions" \in features
    /\ \/ Idle
       \/ Navigate
       \/ \E u \in User \cup {NoUser} : SetUser(u)
       \/ \E kind \in {"message", "error", "crash"} : ProcessEvent(kind)
    /\ Same /\ UNCHANGED <<logs, spans, requestVars>>

(* every buffer's handler of the hook 'flush' *)
FlushHandlers ==
    /\ \E n \in Handled : LogsOnFlush(n)
    /\ \E n \in HandledSpans : Drain(n)
    /\ RequestsOnFlush

Flush == EmitFlush /\ FlushHandlers /\ UNCHANGED <<sessionVars, features, beforeClose>>

CallClose ==
    /\ BeginClose
    /\ FlushHandlers
    /\ beforeClose' = IF beforeClose.called THEN beforeClose ELSE CapturedSoFar
    /\ UNCHANGED <<sessionVars, features>>

(* only the span buffer has a handler of 'close' *)
Close ==
    /\ EndClose
    /\ SpansOnClose
    /\ UNCHANGED <<logs, requestVars, sessionVars, features, beforeClose>>

Next == LogStep \/ SpanStep \/ RequestStep \/ SessionStep \/ Flush \/ CallClose \/ Close

(* timers fire, browsers get idle; nothing makes the user capture, flush or close *)
Fairness ==
    /\ WF_vars(LogStep /\ LogTimerFires(NoLog))
    /\ \A t \in Trace : WF_vars(SpanStep /\ SpanTimerFires(t, NoSpan))
    /\ WF_vars(RequestStep /\ AggregateTimerFires)
    /\ WF_vars(SessionStep /\ Idle)

Spec == Init /\ [][Next]_vars /\ Fairness

-----------------------------------------------------------------------------
(* Properties *)

(* A captured log (logs/internal.ts) is in the buffer, or in one envelope, *)
(* or was sent by a disabled client, or was in a buffer that was replaced: *)
(* in exactly one of these, whatever is captured while a flush is sending. *)
LogsAreKept ==
    \A l \in Log :
        LET places == {p \in {"buffer", "discarded", "overwritten"} : l \in logs[p]}
        IN Cardinality(places) + logs.handed[l] = IF l \in logs.captured THEN 1 ELSE 0

(* setupWeightBasedFlushing: the weight counts at least what is in the     *)
(* buffer, and is below its limit when the code returns.  The number of    *)
(* logs may rest at its limit, never above: it is the next log that        *)
(* flushes a full buffer (internal.ts:56).                                 *)
LogBufferBounded ==
    /\ Weight(logs.buffer) <= logs.weight
    /\ logs.weight < MaxWeight
    /\ Cardinality(logs.buffer) <= MaxLogBuffer

(* A captured log is lost only in a buffer that was full and is replaced   *)
(* (internal.ts:56), where a handler captured it while the full buffer was *)
(* being sent.                                                             *)
OverwrittenOnlyWhenFull ==
    [][ logs'.overwritten # logs.overwritten =>
          /\ Cardinality(logs.buffer) = MaxLogBuffer
          /\ logs.captured \cap logs'.overwritten = logs.overwritten ]_vars

(* A span that ended (spanBuffer.ts) is in the bucket of its own trace, or *)
(* was sent, or dropped with a disabled or closed client, or was lost with *)
(* a bucket that was just sent: in exactly one of these.  One that was     *)
(* sent was sent once, or twice if the bucket was flushed again while it   *)
(* was being sent.                                                         *)
SpansAreKept ==
    LET places == <<Held, SentIn(spans), spans.dropped, spans.lost>>
    IN /\ spans.ended = UNION {places[i] : i \in 1 .. 4}
       /\ \A i, j \in 1 .. 4 : i # j => places[i] \cap places[j] = {}
       /\ \A s \in Span : spans.sent[s] <= 2
       /\ \A t \in Trace : \A s \in spans.buckets[t] : TraceOf[s] = t

(* The two things that may go wrong with a span have one cause             *)
(* (spanBuffer.ts:181-185): a handler ends a span of the trace that is     *)
(* being sent.  That span is lost if it leaves the bucket below its        *)
(* limits; if it fills the bucket, the others are sent twice, and it once. *)
LossesHaveTheirCause ==
    [][ \A s \in Span :
          LET new == {n \in spans'.ended \ spans.ended : TraceOf[n] = TraceOf[s]}
              together == spans.buckets[TraceOf[s]] \cup new
          IN /\ s \in spans'.lost \ spans.lost =>
                  /\ s \in new /\ together # {s}
                  /\ ~AtLimit(together)
                  /\ spans'.buckets[TraceOf[s]] = {}
             /\ spans'.sent[s] > 1 /\ spans'.sent[s] # spans.sent[s] =>
                  /\ AtLimit(together)
                  /\ \E n \in new : n # s /\ spans'.sent[n] = 1 ]_vars

(* No bucket is left at the span limit or the weight limit: the span that  *)
(* reaches one sends the bucket (spanBuffer.ts:123).                       *)
BucketsBounded == \A t \in Trace : ~AtLimit(spans.buckets[t])

(* Each bucket has one pending timer, and no timer of an earlier bucket of *)
(* its trace is left, which would send the next one early                  *)
(* (spanBuffer.ts:188, _removeTrace).                                      *)
OneTimerPerBucket ==
    \A t \in Trace : spans.timers[t] = IF spans.buckets[t] = {} THEN 0 ELSE 1

(* What is sent and what is pending are the requests that ended, each      *)
(* counted once, in the minute it ended.                                   *)
CountsAreExact ==
    \A e \in Entry :
        /\ aggregate[e] = Cardinality({r \in Pending : recorded[r] = e})
        /\ countsSent[e] = Cardinality({r \in reported : recorded[r] = e})

(* A request counts as the worst that was captured before its response     *)
(* closed, in whatever order it was captured (server-runtime-client.ts:    *)
(* "errored" may become "crashed" but not the reverse).                    *)
CountsAsWorst ==
    \A r \in Closed :
        recorded[r][2] = IF "unhandled" \in exceptions[r] THEN "crashed"
                         ELSE IF "handled" \in exceptions[r] THEN "errored" ELSE "exited"

(* close() (client.ts:470) emits 'flush' before it waits and disables the  *)
(* client after: nothing captured before the call is dropped or left over; *)
(* what is lost came while the close was waiting, or later.                *)
CloseLosesOnlyLatecomers ==
    IF beforeClose.called
    THEN /\ beforeClose.logs \cap (logs.buffer \cup logs.discarded) = {}
         /\ beforeClose.spans \cap (Held \cup spans.dropped) = {}
         /\ beforeClose.requests \cap Pending = {}
         /\ HasRelease => beforeClose.requests \cap unreported = {}
    ELSE logs.discarded = {} /\ spans.dropped = {} /\ (HasRelease => unreported = {})

(* Whatever is captured, ended or closed is in one place: held, sent, or   *)
(* among what is given up: logs in an overwritten buffer, spans that were  *)
(* ended while their bucket was being sent, what came after the close.     *)
(* Logs and requests are sent once.                                        *)
EveryItemHasOnePlace == LogsAreKept /\ SpansAreKept /\ CountsAreExact

(* The log buffer is below its weight and not above its number, the span   *)
(* buckets are below both their limits, and no timer runs for a bucket     *)
(* that is gone.                                                           *)
LimitsHold == LogBufferBounded /\ BucketsBounded /\ OneTimerPerBucket

Reporting == HasRelease /\ enabled

(* A session that a navigation replaced was sent with its last status, and *)
(* the current one, once the first update went out, was sent as it is now  *)
(* (browsersession.ts:79 and :94, client.ts:1283); only a user without an  *)
(* id is left for the next update.                                         *)
WireIsCurrent ==
    Reporting => \A i \in 1 .. current :
        LET last == wire[i]
            now == sessions[i]
        IN /\ i < current => last # NoSession /\ last = [now EXCEPT !.init = last.init]
           /\ i = current /\ initialSessionSent =>
                /\ last # NoSession
                /\ last = [now EXCEPT !.init = last.init, !.did = last.did]
                /\ last.did # now.did => now.did \notin Identified

(* What the server sees of one session is a history it can count: the      *)
(* first update and only it is "init", a status other than "ok" is final,  *)
(* errors never decrease and the `did` never changes (session.ts:49,       *)
(* client.ts:379).                                                         *)
SessionHistoryIsLegal ==
    [][ \A i \in SessionIndex :
          LET old == wire[i]
              new == wire'[i]
          IN new # old =>
               /\ new.init <=> old = NoSession
               /\ old # NoSession =>
                    /\ old.status # "ok" => new.status = old.status
                    /\ old.errors <= new.errors
                    /\ old.did \in {NoUser, new.did} ]_vars

(* A session is crashed iff a crash was processed while it was current,    *)
(* and counts an error iff an error or a crash was, in whatever order and  *)
(* however many (_updateSessionFromEvent, client.ts:1256).                 *)
SessionsAsWorst ==
    \A i \in 1 .. current :
        /\ (sessions[i].status = "crashed") <=> ("crash" \in processed[i])
        /\ (sessions[i].errors = 1) <=> ({"error", "crash"} \cap processed[i] # {})

(* What is reported of a request or a page's session is the worst that     *)
(* happened in it, and the server has it.                                  *)
SessionsAreTruthful == CountsAsWorst /\ SessionsAsWorst /\ WireIsCurrent

(* The session of the page load is sent (browsersession.ts:56): at the     *)
(* first idle time, or earlier by an event or a navigation; unless the     *)
(* client was closed before.                                               *)
FirstSessionIsSent ==
    "sessions" \in features /\ HasRelease => <>(wire[1] # NoSession \/ ~enabled)

(* The server hears of the session of the page load and counts every       *)
(* session's updates as one history.                                       *)
SessionsAreReported == SessionHistoryIsLegal /\ FirstSessionIsSent

LogBatching == INSTANCE Batching WITH
    Item <- Log, Batch <- {"logs"}, BatchOf <- [l \in Log |-> "logs"], Timed <- FlushInterval > 0,
    held <- logs.buffer, gone <- logs.captured \ logs.buffer,
    armed <- [k \in {"logs"} |-> logs.flushTimeout]

SpanBatching == INSTANCE Batching WITH
    Item <- Span, Batch <- Trace, BatchOf <- TraceOf, Timed <- TRUE,
    held <- Held, gone <- spans.ended \ Held,
    armed <- [t \in Trace |-> spans.timers[t] > 0]

RequestBatching == INSTANCE Batching WITH
    Item <- Request, Batch <- {"requests"}, BatchOf <- [r \in Request |-> "requests"], Timed <- TRUE,
    held <- Pending, gone <- reported \cup unreported,
    armed <- [k \in {"requests"} |-> aggregateTimer]

(* The log buffer implements Batching: an envelope takes all that is held, *)
(* nothing comes back, and a buffer that holds something has its timer, in *)
(* spite of handlers that capture during a flush (client.ts:119).          *)
LogsAreBatched == LogBatching!Spec

(* The span buffer (spanBuffer.ts) implements Batching, trace by trace.    *)
SpansAreBatched == SpanBatching!Spec

(* Request sessions implement Batching: a pending aggregate always has its *)
(* timer, and no request is in two aggregates.                             *)
RequestsAreBatched == RequestBatching!Spec

(* All three implement the same abstract buffer; what they lose on the way *)
(* is lost only where and when their code does it.                         *)
BuffersAreBatched ==
    /\ LogsAreBatched /\ OverwrittenOnlyWhenFull
    /\ SpansAreBatched /\ LossesHaveTheirCause
    /\ RequestsAreBatched
=============================================================================
