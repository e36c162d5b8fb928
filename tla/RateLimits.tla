----------------------------- MODULE RateLimits -----------------------------
(***************************************************************************)
(* The rate limit table of a transport, packages/core/src/utils/           *)
(* ratelimit.ts.  A table maps each data category, and the key `all`, to   *)
(* the time until which it is disabled; an absent entry is 0, which the    *)
(* `||` of disabledUntil reads the same way.  Times are whole seconds.     *)
(***************************************************************************)
EXTENDS Integers, Sequences

CONSTANTS
    Categories,    \* data categories, the types of envelope items
    All,           \* the key `all`
    MetricBucket,  \* the category that carries namespaces
    DefaultDelay   \* DEFAULT_RETRY_AFTER, 60 seconds

ASSUME RateLimitsAssumption ==
    /\ All \notin Categories
    /\ DefaultDelay \in Nat \ {0}

Keys == Categories \cup {All}
Table == [Keys -> Int]
NoLimits == [k \in Keys |-> 0]

-----------------------------------------------------------------------------
\* mutant: the limit for all categories is asked first
DisabledUntilAllFirst(limits, category) ==
    IF limits[All] # 0 THEN limits[All] ELSE limits[category]

DisabledUntil(limits, category) ==
    IF limits[category] # 0 THEN limits[category] ELSE limits[All]

IsRateLimited(limits, category, now) == DisabledUntil(limits, category) > now

-----------------------------------------------------------------------------
(* A response carries the parts of its headers that updateRateLimits       *)
(* reads: `limits`, the entries of x-sentry-rate-limits (none if the       *)
(* header is absent or empty), and `retryAfter`.  An entry's delay is the  *)
(* number parseInt found, if any: <<>> stands for NaN.                     *)

HeaderEntry == [delay: Seq(Int), categories: SUBSET Categories,
                namespaces: {"absent", "custom", "other"}]
RetryAfter == [kind: {"absent", "seconds", "date", "garbage"}, value: Int]
Response == [status: Nat, limits: Seq(HeaderEntry), retryAfter: RetryAfter]

ParseRetryAfterHeader(header, now) ==
    CASE header.kind = "seconds" -> header.value
      [] header.kind = "date"    -> header.value - now
      [] OTHER                   -> DefaultDelay

Delay(limit) == IF limit.delay = <<>> THEN DefaultDelay ELSE Head(limit.delay)

\* An entry without categories is for `all`; one for metric buckets counts
\* only if it names no namespace or the namespace `custom`.
Applies(limit, key) ==
    \/ limit.categories = {} /\ key = All
    \/ /\ key \in limit.categories
       /\ key = MetricBucket => limit.namespaces # "other"

\* mutant: the first entry that applies to a key wins
FirstApplying(limits, key) ==
    CHOOSE i \in DOMAIN limits :
        /\ Applies(limits[i], key)
        /\ \A j \in DOMAIN limits : Applies(limits[j], key) => i <= j

\* The loop over the entries: the last one that applies to a key wins.
LastApplying(limits, key) ==
    CHOOSE i \in DOMAIN limits :
        /\ Applies(limits[i], key)
        /\ \A j \in DOMAIN limits : Applies(limits[j], key) => j <= i

\* The keys an x-sentry-rate-limits header speaks about, and until when.
HeaderVerdict(limits, now) ==
    [k \in {key \in Keys : \E i \in DOMAIN limits : Applies(limits[i], key)} |->
        now + Delay(limits[LastApplying(limits, k)])]

\* What a response says: the header, or else retry-after, or else its status.
Verdict(response, now) ==
    IF response.limits # <<>> THEN HeaderVerdict(response.limits, now)
    ELSE IF response.retryAfter.kind # "absent"
         THEN [k \in {All} |-> now + ParseRetryAfterHeader(response.retryAfter, now)]
    ELSE [k \in IF response.status = 429 THEN {All} ELSE {} |-> now + DefaultDelay]

\* mutant: a limit never shortens an earlier one
UpdateRateLimitsToLatest(table, response, now) ==
    LET verdict == Verdict(response, now)
    IN  [k \in Keys |-> IF k \in DOMAIN verdict /\ verdict[k] > table[k]
                       THEN verdict[k] ELSE table[k]]

UpdateRateLimits(table, response, now) ==
    LET verdict == Verdict(response, now)
    IN  [k \in Keys |-> IF k \in DOMAIN verdict THEN verdict[k] ELSE table[k]]
=============================================================================
