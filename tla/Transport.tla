----------------------------- MODULE Transport -----------------------------
(***************************************************************************)
(* createTransport of packages/core/src/transports/base.ts: it filters     *)
(* rate limited items, puts the request into a PromiseBuffer, learns rate  *)
(* limits from the answers, and tells the client (recordDroppedEvent) how  *)
(* many items of each category it lost and why.                            *)
(*                                                                         *)
(* The buffer, the request promises and flush() are those of PromiseBuffer *)
(* (PB): an envelope is the task whose producer is requestTask.  Requests  *)
(* are native promises.  The rate limits, the clock and the log of what    *)
(* the server answered are those of RateLimitLog.                          *)
(***************************************************************************)
EXTENDS RateLimitLog

CONSTANTS
    Envelopes,
    Items,         \* the items of all envelopes
    ItemsOf,       \* items of an envelope
    CategoryOf,    \* envelopeItemTypeToDataCategory of an item's type
    ReportItems,   \* the items of type client_report
    Limit,         \* options.bufferSize || DEFAULT_TRANSPORT_BUFFER_SIZE
    MaxDepth,      \* bound: how deep makeRequest may nest send()
    Flushes        \* the calls of flush()

ASSUME TransportAssumption ==
    /\ IsFiniteSet(Envelopes) /\ IsFiniteSet(Items)
    /\ ItemsOf \in [Envelopes -> SUBSET Items]
    /\ \A i \in Items : \E e \in Envelopes : i \in ItemsOf[e]
    /\ \A e, f \in Envelopes : e # f => ItemsOf[e] \cap ItemsOf[f] = {}
    /\ CategoryOf \in [Items -> Categories]
    /\ Limit \in Nat \ {0} /\ MaxDepth \in Nat \ {0}
    /\ Cardinality(Envelopes) <= MaxResponses

VARIABLES
    seen,         \* envelopes send() was called with
    kept,         \* filteredEnvelopeItems of each envelope
    tooLarge,     \* envelopes answered with status 413
    outcomes,     \* recordDroppedEvent calls, by reason and category
    sentBefore,   \* history: `seen` at each call of flush()
    status, buffer, stack, drain   \* of PromiseBuffer

PB == INSTANCE PromiseBuffer WITH Tasks <- Envelopes, SyncTasks <- {}, NativeTasks <- Envelopes, Drains <- Flushes

bufferVars == <<status, buffer, stack, drain>>
vars == <<rateLimits, now, seen, kept, tooLarge, outcomes, log, sentBefore, bufferVars>>

Reasons == {"ratelimit_backoff", "queue_overflow", "send_error", "network_error"}

TypeOK ==
    /\ rateLimits \in Table
    /\ now \in 1..MaxNow
    /\ seen \in SUBSET Envelopes
    /\ kept \in [Envelopes -> SUBSET Items]
    /\ tooLarge \in SUBSET Envelopes
    /\ outcomes \in [Reasons -> [Categories -> Nat]]
    /\ sentBefore \in [Flushes -> SUBSET Envelopes]
    /\ PB!TypeOK

Init ==
    /\ rateLimits = NoLimits
    /\ now = 1
    /\ seen = {}
    /\ kept = [e \in Envelopes |-> {}]
    /\ tooLarge = {}
    /\ outcomes = [r \in Reasons |-> [c \in Categories |-> 0]]
    /\ log = <<>>
    /\ sentBefore = [f \in Flushes |-> {}]
    /\ PB!Init

-----------------------------------------------------------------------------
(* Recording losses *)

OfCategory(items, c) == {i \in items : CategoryOf[i] = c}

\* mutant: the counter is decremented
RecordDroppedDown(o, reason, items) ==
    [o EXCEPT ![reason] = [c \in Categories |-> @[c] - Cardinality(OfCategory(items, c))]]

RecordDropped(o, reason, items) ==
    [o EXCEPT ![reason] = [c \in Categories |-> @[c] + Cardinality(OfCategory(items, c))]]

ContainsReport(items) == items \cap ReportItems # {}

\* mutant: client reports are not exempt
RecordLossOfReports(o, reason, items) == RecordDropped(o, reason, items)

RecordEnvelopeLoss(o, reason, items) ==
    IF ContainsReport(items) THEN o ELSE RecordDropped(o, reason, items)

-----------------------------------------------------------------------------
(* send(envelope) *)

RateLimitedItems(e) == {i \in ItemsOf[e] : IsRateLimited(rateLimits, CategoryOf[i], now)}

Filter(e) ==
    /\ e \notin seen
    /\ Len(stack) < MaxDepth
    /\ seen' = seen \cup {e}
    /\ kept' = [kept EXCEPT ![e] = ItemsOf[e] \ RateLimitedItems(e)]
    /\ UNCHANGED <<rateLimits, now, tooLarge, log, sentBefore>>

OutcomesAfterFilter(e) == RecordDropped(outcomes, "ratelimit_backoff", RateLimitedItems(e))

SendNothing(e) ==
    /\ Filter(e)
    /\ kept'[e] = {}
    /\ outcomes' = OutcomesAfterFilter(e)
    /\ UNCHANGED bufferVars

SendOverflow(e) ==
    /\ Filter(e)
    /\ kept'[e] # {}
    /\ PB!Refuse(e)
    /\ outcomes' = RecordEnvelopeLoss(OutcomesAfterFilter(e), "queue_overflow", kept'[e])

\* mutant: the request is started without asking the buffer
SendStartUnasked(e) ==
    /\ Filter(e)
    /\ kept'[e] # {}
    /\ status' = [status EXCEPT ![e] = "producing"]
    /\ stack' = Append(stack, e)
    /\ outcomes' = OutcomesAfterFilter(e)
    /\ UNCHANGED <<buffer, drain>>

SendStart(e) ==
    /\ Filter(e)
    /\ kept'[e] # {}
    /\ PB!Start(e)
    /\ outcomes' = OutcomesAfterFilter(e)

(* makeRequest returns the promise of the request, or throws: then send()  *)
(* throws, and nobody is told.                                             *)
RequestStarted(e) ==
    /\ PB!Store(e, "pending") \/ PB!Throw(e)
    /\ UNCHANGED <<rateLimits, now, seen, kept, tooLarge, outcomes, log, sentBefore>>

-----------------------------------------------------------------------------
(* The reactions of the request.  They settle the promise in the buffer.   *)

RequestTooLarge(e) ==
    /\ PB!Idle
    /\ PB!Settle(e, "fulfilled")
    /\ tooLarge' = tooLarge \cup {e}
    /\ outcomes' = RecordEnvelopeLoss(outcomes, "send_error", kept[e])
    /\ UNCHANGED <<rateLimits, now, seen, kept, log, sentBefore>>

RequestAnswered(e, response) ==
    /\ PB!Idle
    /\ response.status # 413
    /\ PB!Settle(e, "fulfilled")
    /\ rateLimits' = UpdateRateLimits(rateLimits, response, now)
    /\ log' = Append(log, [at |-> now, response |-> response])
    /\ UNCHANGED <<now, seen, kept, tooLarge, outcomes, sentBefore>>

\* mutant: a network error is not recorded
RequestFailedSilently(e) ==
    /\ PB!Idle
    /\ PB!Settle(e, "rejected")
    /\ UNCHANGED <<rateLimits, now, seen, kept, tooLarge, outcomes, log, sentBefore>>

RequestFailed(e) ==
    /\ PB!Idle
    /\ PB!Settle(e, "rejected")
    /\ outcomes' = RecordEnvelopeLoss(outcomes, "network_error", kept[e])
    /\ UNCHANGED <<rateLimits, now, seen, kept, tooLarge, log, sentBefore>>

-----------------------------------------------------------------------------
(* flush(timeout) is buffer.drain(timeout) *)

Flush(f, timed) ==
    /\ PB!Idle
    /\ PB!CallDrain(f, timed)
    /\ sentBefore' = [sentBefore EXCEPT ![f] = seen]
    /\ UNCHANGED <<rateLimits, now, seen, kept, tooLarge, outcomes, log>>

(* Promise reactions and timers of the buffer *)
BufferStep ==
    /\ \/ \E e \in Envelopes : PB!Remove(e)
       \/ \E f \in Flushes : PB!DrainDone(f) \/ PB!DrainTimeout(f)
    /\ UNCHANGED <<rateLimits, now, seen, kept, tooLarge, outcomes, log, sentBefore>>

Tick ==
    /\ now < MaxNow
    /\ now' = now + 1
    /\ UNCHANGED <<rateLimits, seen, kept, tooLarge, outcomes, log, sentBefore, bufferVars>>

Next ==
    \/ \E e \in Envelopes :
          \/ SendNothing(e) \/ SendOverflow(e) \/ SendStart(e) \/ RequestStarted(e)
          \/ RequestTooLarge(e) \/ RequestFailed(e)
          \/ \E response \in Responses : RequestAnswered(e, response)
    \/ \E f \in Flushes, timed \in BOOLEAN : Flush(f, timed)
    \/ BufferStep
    \/ Tick

Spec == Init /\ [][Next]_vars

-----------------------------------------------------------------------------
(* The fate of an envelope's kept items *)
EnvelopeFate(e) ==
    CASE status[e] \in {"new", "thrown"}          -> "untold"
      [] status[e] \in {"producing", "pending"}   -> "inflight"
      [] status[e] = "refused"                    -> "queue_overflow"
      [] status[e] = "rejected"                   -> "network_error"
      [] status[e] = "fulfilled" /\ e \in tooLarge    -> "send_error"
      [] status[e] = "fulfilled" /\ e \notin tooLarge -> "answered"

\* The items recordDroppedEvent has to be told of, for each reason
Losers(reason) == {e \in Envelopes : EnvelopeFate(e) = reason /\ ~ContainsReport(kept[e])}
LostItems(reason) ==
    IF reason = "ratelimit_backoff"
    THEN UNION {ItemsOf[e] \ kept[e] : e \in seen}
    ELSE UNION {kept[e] : e \in Losers(reason)}

(* Client reports add up: per reason and category exactly the items lost   *)
(* for that reason were recorded, each once, whatever mix of rate limits,  *)
(* overflow, 413 answers and network errors hit their envelopes, and never *)
(* for an envelope with a client report except by a rate limit             *)
(* (base.ts:42-69, 77-115).                                                *)
OutcomesAreExact ==
    \A r \in Reasons, c \in Categories :
        outcomes[r][c] = Cardinality(OfCategory(LostItems(r), c))

(* A flush that answered true leaves no envelope unanswered that was sent  *)
(* before it was called, so their losses are recorded too (base.ts:37).    *)
FlushCoversEarlierSends ==
    \A f \in Flushes : drain[f].answer = "true" =>
        \A e \in sentBefore[f] : EnvelopeFate(e) # "inflight"

(* No request carries an item of a category that the server's latest       *)
(* answer about that category has disabled (base.ts:43-50, 95).            *)
NoLimitedItemIsSent ==
    [][\A e \in Envelopes : status[e] = "new" /\ status'[e] = "producing" =>
          \A i \in kept'[e] :
              Spoken(CategoryOf[i]) # {} => LastWord(CategoryOf[i]) <= now]_vars

(* The fate of an item: dropped by the filter, or that of its envelope *)
ItemFate(i) ==
    LET e == CHOOSE e \in Envelopes : i \in ItemsOf[e]
    IN  IF e \notin seen THEN "new"
        ELSE IF i \notin kept[e] THEN "ratelimit_backoff"
        ELSE EnvelopeFate(e)

ED == INSTANCE EnvelopeDelivery WITH fate <- [i \in Items |-> ItemFate(i)]

(* The transport implements what EnvelopeDelivery promises. *)
DeliversEnvelopes == ED!Spec

(* The transport uses its buffer as PromiseBuffer specifies, and its table *)
(* follows the answers as RateLimitLog specifies.                          *)
UsesPromiseBuffer == PB!Spec
FollowsTheServer == LogSpec

(* The answers are all taken in, in their order, and heeded at once: the   *)
(* table is updated before the next envelope is filtered (base.ts:43, 95). *)
LimitsAreHeeded == FollowsTheServer /\ NoLimitedItemIsSent

=============================================================================
