---------------------------- MODULE SpanBuffer ----------------------------
(***************************************************************************)
(* class SpanBuffer of packages/core/src/tracing/spans/spanBuffer.ts: the  *)
(* sampled spans that ended, in one bucket per trace with a timer of its   *)
(* own, sent at a limit, by the timer or on the client's 'flush', thrown   *)
(* away on its 'close'.  captureSpan sets the segment span of every span,  *)
(* so the exit for a missing one is not taken.                             *)
(*                                                                         *)
(* sendEnvelope emits 'beforeEnvelope' before flush() removes the bucket,  *)
(* so a span that a handler of the user ends meanwhile may join the very   *)
(* bucket that is being sent: as in WeightBuffer, the operations take the  *)
(* state at the call and yield the state at the return, and `n` is the     *)
(* span that handler ends, or NoSpan.                                      *)
(***************************************************************************)
EXTENDS ClientHooks, Naturals, FiniteSets, FiniteSetsExt

CONSTANTS
    Span,          \* the spans that end
    NoSpan,
    Trace,
    TraceOf,       \* trace_id of each
    SpanSize,      \* estimated size of each
    MaxSpanLimit,
    MaxTraceWeight

ASSUME SpanAssumption ==
    /\ IsFiniteSet(Span) /\ NoSpan \notin Span
    /\ Trace # {}
    /\ TraceOf \in [Span -> Trace]
    /\ SpanSize \in [Span -> Nat]
    /\ MaxSpanLimit \in Nat \ {0}
    /\ MaxTraceWeight \in Nat \ {0}

(***************************************************************************)
(* The code's state: buckets (_traceBuckets, the spans of each trace, {}   *)
(* where there is no bucket) and timers (how many are pending that flush   *)
(* the trace).  The rest is history: the spans that ended, in how many     *)
(* envelopes each was handed to the transport, those sent by a disabled    *)
(* client or cleared by 'close', and those removed with their bucket while *)
(* no envelope had taken them.                                             *)
(***************************************************************************)
VARIABLE spans

SpansTypeOK ==
    spans \in [buckets: [Trace -> SUBSET Span], timers: [Trace -> Nat], ended: SUBSET Span,
               sent: [Span -> Nat], dropped: SUBSET Span, lost: SUBSET Span]

SpansInit ==
    spans = [buckets |-> [t \in Trace |-> {}], timers |-> [t \in Trace |-> 0], ended |-> {},
             sent |-> [s \in Span |-> 0], dropped |-> {}, lost |-> {}]

HeldIn(b) == UNION {b.buckets[t] : t \in Trace}
SentIn(b) == {s \in Span : b.sent[s] > 0}
Held == HeldIn(spans)

Size(items) == MapThenSumSet(LAMBDA s : SpanSize[s], items)
AtLimit(items) == Cardinality(items) >= MaxSpanLimit \/ Size(items) >= MaxTraceWeight

-----------------------------------------------------------------------------
(* Flushing *)

(* client.sendEnvelope: a disabled client sends nothing *)
SendSpans(b, items) ==
    IF enabled
    THEN [b EXCEPT !.sent = [s \in Span |-> @[s] + IF s \in items THEN 1 ELSE 0]]
    ELSE [b EXCEPT !.dropped = @ \cup items]

(* bucket.timeout is cleared if the bucket's timer is among the pending ones *)
Cleared(timers) == IF timers > 0 THEN timers - 1 ELSE 0

\* mutant: the bucket is deleted, its timer is not cleared
RemoveTraceKeepsTimer(b, t) ==
    [b EXCEPT !.buckets[t] = {}, !.lost = @ \cup (b.buckets[t] \ (SentIn(b) \cup b.dropped))]

(* _removeTrace: with whatever the bucket holds by now; nothing if it is gone *)
RemoveTrace(b, t) ==
    IF b.buckets[t] = {} THEN b
    ELSE [b EXCEPT !.buckets[t] = {}, !.timers[t] = Cleared(@),
                   !.lost = @ \cup (b.buckets[t] \ (SentIn(b) \cup b.dropped))]

(* a new bucket starts its timer *)
StoreSpan(b, s) ==
    LET t == TraceOf[s]
    IN [b EXCEPT !.ended = @ \cup {s}, !.buckets[t] = @ \cup {s},
                 !.timers[t] = @ + IF b.buckets[t] = {} THEN 1 ELSE 0]

(* A 'beforeEnvelope' handler ends n, once; if that fills a bucket, be it  *)
(* the one being sent, the bucket is flushed within the flush, and of that *)
(* envelope the handler takes no notice.                                   *)
SpanEnds(b, n) ==
    IF n = NoSpan \/ n \in b.ended THEN b
    ELSE LET stored == StoreSpan(b, n)
             t == TraceOf[n]
         IN IF AtLimit(stored.buckets[t])
            THEN RemoveTrace(SendSpans(stored, stored.buckets[t]), t)
            ELSE stored

(* flush(traceId): the spans are copied, the envelope is sent, and then the bucket goes *)
FlushTrace(b, t, n) ==
    IF b.buckets[t] = {} THEN b
    ELSE RemoveTrace(SendSpans(SpanEnds(b, n), b.buckets[t]), t)

-----------------------------------------------------------------------------
(* Steps *)

(* add: a full bucket is flushed at once *)
AddSpan(s, n) ==
    LET stored == StoreSpan(spans, s)
        t == TraceOf[s]
    IN /\ s \notin spans.ended
       /\ spans' = IF AtLimit(stored.buckets[t]) THEN FlushTrace(stored, t, n) ELSE stored

(* the timer of a bucket; one whose bucket is gone finds nothing *)
SpanTimerFires(t, n) ==
    /\ spans.timers[t] > 0
    /\ spans' = IF spans.buckets[t] = {} THEN [spans EXCEPT !.timers[t] = @ - 1]
                ELSE FlushTrace(spans, t, n)

NoBuckets(b) ==
    [b EXCEPT !.buckets = [t \in Trace |-> {}],
              !.timers = [t \in Trace |-> IF b.buckets[t] = {} THEN @[t] ELSE Cleared(@[t])]]

\* mutant: of the traces only one is flushed
DrainOne(n) == \E t \in Trace : (Held = {} \/ spans.buckets[t] # {}) /\ spans' = FlushTrace(spans, t, n)

(* drain, on the client's 'flush': every trace with a bucket is flushed,   *)
(* also one that gets a new bucket on the way (a Map is iterated live);    *)
(* t is the trace whose envelope finds the handler ending n.               *)
Drain(n) ==
    \E t \in Trace :
        LET flushed == FlushTrace(spans, t, n)
        IN spans' = NoBuckets(SendSpans(flushed, HeldIn(flushed)))

(* on the client's 'close': timers cleared, buckets thrown away unsent *)
SpansOnClose == spans' = NoBuckets([spans EXCEPT !.dropped = @ \cup Held])
=============================================================================
