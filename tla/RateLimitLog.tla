---------------------------- MODULE RateLimitLog ----------------------------
(***************************************************************************)
(* A rate limit table fed by a sequence of responses, as createTransport   *)
(* feeds it (packages/core/src/transports/base.ts:95), compared with what  *)
(* the server said.  The table forgets which response set an entry and     *)
(* when; the log remembers.                                                *)
(***************************************************************************)
EXTENDS RateLimits, FiniteSets, SequencesExt

CONSTANTS
    Responses,     \* the responses the server may give
    MaxNow,        \* bound on the clock
    MaxResponses   \* bound on the log

ASSUME LogAssumption ==
    /\ Responses \subseteq Response
    /\ MaxNow \in Nat \ {0} /\ MaxResponses \in Nat

(* No response disables a category until the year 1970: the `||` of        *)
(* disabledUntil would take 0 for a missing entry.                         *)
ASSUME VerdictAssumption ==
    \A response \in Responses, at \in 1..MaxNow :
        \A key \in DOMAIN Verdict(response, at) : Verdict(response, at)[key] \in Int \ {0}

VARIABLES
    rateLimits,  \* the table
    now,
    log          \* history: the responses, in order

logVars == <<rateLimits, now, log>>

LogTypeOK ==
    /\ rateLimits \in Table
    /\ now \in 1..MaxNow
    /\ Len(log) <= MaxResponses
    /\ log \in Seq([at: 1..now, response: Responses])

LogInit ==
    /\ rateLimits = NoLimits
    /\ now = 1
    /\ log = <<>>

Receive(response) ==
    /\ Len(log) < MaxResponses
    /\ rateLimits' = UpdateRateLimits(rateLimits, response, now)
    /\ log' = Append(log, [at |-> now, response |-> response])
    /\ UNCHANGED now

TimePasses ==
    /\ now < MaxNow
    /\ now' = now + 1
    /\ UNCHANGED <<rateLimits, log>>

LogNext == TimePasses \/ \E response \in Responses : Receive(response)

LogSpec == LogInit /\ [][LogNext]_logVars

-----------------------------------------------------------------------------
(* updateRateLimits as it is written: it copies the table and assigns to   *)
(* the keys of one header entry after the other.                           *)

AssignLimit(t, limit, at) ==
    [k \in Keys |->
        IF limit.categories = {}
        THEN IF k = All THEN at + Delay(limit) ELSE t[k]
        ELSE IF k \in limit.categories
                /\ (k # MetricBucket \/ limit.namespaces \in {"absent", "custom"})
             THEN at + Delay(limit) ELSE t[k]]

LoopUpdate(t, response, at) ==
    IF response.limits # <<>>
    THEN FoldLeft(LAMBDA acc, limit : AssignLimit(acc, limit, at), t, response.limits)
    ELSE IF response.retryAfter.kind # "absent"
         THEN [t EXCEPT ![All] = at + ParseRetryAfterHeader(response.retryAfter, at)]
    ELSE IF response.status = 429 THEN [t EXCEPT ![All] = at + DefaultDelay]
    ELSE t

(* ratelimit.ts:53-108: the table is what the code's loop, run over every  *)
(* response so far, computes.                                              *)
TableIsTheLoops ==
    rateLimits = FoldLeft(LAMBDA t, entry : LoopUpdate(t, entry.response, entry.at), NoLimits, log)

-----------------------------------------------------------------------------
Speaks(entry, key) == key \in DOMAIN Verdict(entry.response, entry.at)
Spoken(key) == {i \in DOMAIN log : Speaks(log[i], key)}

\* Until when the last response that spoke about the key disabled it.
LastWord(key) ==
    LET last == CHOOSE i \in Spoken(key) : \A j \in Spoken(key) : j <= i
    IN  Verdict(log[last].response, log[last].at)[key]

(* A category is limited exactly while the last response about it says so, *)
(* or, if none ever was, the last response about all categories            *)
(* (disabledUntil and isRateLimited, ratelimit.ts:37-46).                  *)
ServerIsObeyed ==
    \A c \in Categories :
        IsRateLimited(rateLimits, c, now) <=>
            \/ Spoken(c) # {} /\ LastWord(c) > now
            \/ Spoken(c) = {} /\ Spoken(All) # {} /\ LastWord(All) > now
=============================================================================
