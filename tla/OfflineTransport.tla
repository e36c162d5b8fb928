-------------------------- MODULE OfflineTransport --------------------------
(***************************************************************************)
(* makeOfflineTransport (packages/core/src/transports/offline.ts) over the *)
(* IndexedDB store of packages/browser/src/transports/offline.ts: failed   *)
(* envelopes and replays wait in a queue that outlives the page; one timer *)
(* takes its head and sends it again.  The store runs its transactions in  *)
(* the order of the calls, so a call takes effect at once here; what the   *)
(* code does after awaiting it is a later step, and these steps come in    *)
(* the order of the calls as well.  The timer may fire at any time: delays *)
(* are compared, time is not modelled.                                     *)
(***************************************************************************)
EXTENDS Integers, Sequences, SequencesExt, FiniteSets

CONSTANTS Envelopes,
          Replays,         \* envelopes with a replay_event or replay_recording
          Reports,         \* envelopes with a client_report
          HasShouldSend,   \* is options.shouldSend given
          FlushAtStartup,
          MaxQueueSize,
          MinDelay, StartDelay, MaxDelay,
          RetryAfters,     \* delays the server may ask for
          MaxRestarts      \* bound: how often the page is reloaded

ASSUME OfflineAssumption ==
    /\ Replays \subseteq Envelopes /\ Reports \subseteq Envelopes
    /\ HasShouldSend \in BOOLEAN /\ FlushAtStartup \in BOOLEAN
    /\ MaxQueueSize \in Nat \ {0} /\ MaxRestarts \in Nat
    /\ MinDelay \in Nat /\ StartDelay \in Nat /\ MaxDelay \in Nat
    /\ StartDelay <= MaxDelay
    /\ RetryAfters \subseteq Nat

VARIABLES where,       \* where each envelope is
          isRetry,      \* was it taken from the queue for this attempt
          queue,        \* the store, oldest first
          flushTimer,   \* the delay of the armed timer, or NoTimer
          retryDelay,
          calls,        \* the calls of the store that are awaited, oldest first
          restarts,
          firstStored,  \* history: the order in which envelopes were first stored
          overlapped    \* history: a retry was begun while another was under way

vars == <<where, isRetry, queue, flushTimer, retryDelay, calls,
          restarts, firstStored, overlapped>>
timerVars == <<flushTimer, retryDelay>>
storeVars == <<queue, firstStored>>

NoTimer == -1

\* "shifted": taken from the store, the code awaits it; "asking": shouldSend
\* is awaited; "sending": the wrapped transport has it; "failed": shouldQueue
\* is awaited.  The others are final.
UnderWay == {"shifted", "asking", "sending", "failed"}
Places == UnderWay \union {"new", "queued", "answered", "refused", "unstored", "lost"}

Retrying == {e \in Envelopes : where[e] \in UnderWay /\ isRetry[e]}

FlushIn(delay) == flushTimer' = delay

\* mutant: the delay doubles without a limit (two doublings are enough)
BackOffUnlimited ==
    IF flushTimer # NoTimer \/ retryDelay > 2 * MaxDelay THEN UNCHANGED timerVars
    ELSE flushTimer' = retryDelay /\ retryDelay' = 2 * retryDelay

\* flushWithBackOff
BackOff ==
    IF flushTimer # NoTimer THEN UNCHANGED timerVars
    ELSE /\ FlushIn(retryDelay)
         /\ retryDelay' = IF 2 * retryDelay < MaxDelay THEN 2 * retryDelay ELSE MaxDelay

Startup ==
    /\ flushTimer' = IF FlushAtStartup THEN StartDelay ELSE NoTimer
    /\ retryDelay' = IF ~FlushAtStartup THEN StartDelay
                     ELSE IF 2 * StartDelay < MaxDelay THEN 2 * StartDelay ELSE MaxDelay

Init ==
    /\ where = [e \in Envelopes |-> "new"]
    /\ isRetry = [e \in Envelopes |-> FALSE]
    /\ queue = <<>> /\ firstStored = <<>>
    /\ flushTimer = IF FlushAtStartup THEN StartDelay ELSE NoTimer
    /\ retryDelay = IF ~FlushAtStartup THEN StartDelay
                    ELSE IF 2 * StartDelay < MaxDelay THEN 2 * StartDelay ELSE MaxDelay
    /\ calls = <<>>
    /\ restarts = 0
    /\ overlapped = FALSE
-----------------------------------------------------------------------------
(* The store.                                                              *)

\* A transaction that fails, and one that finds the store full, both resolve:
\* the envelope is gone and the caller is not told.
Unstored(e) ==
    /\ where' = [where EXCEPT ![e] = "unstored"]
    /\ UNCHANGED storeVars

Put(e, newQueue) ==
    \/ /\ Len(queue) < MaxQueueSize
       /\ queue' = newQueue
       /\ firstStored' = IF Contains(firstStored, e) THEN firstStored
                         ELSE Append(firstStored, e)
       /\ where' = [where EXCEPT ![e] = "queued"]
    \/ Unstored(e)

Push(e) == Put(e, Append(queue, e))

Unshift(e) == Put(e, <<e>> \o queue)

Await(by, e) == calls' = Append(calls, [by |-> by, envelope |-> e])

Resolved(by) ==
    /\ calls # <<>> /\ Head(calls).by = by
    /\ calls' = Tail(calls)

\* mutant: the entry is read but not deleted
ShiftKeeps == queue # <<>> /\ queue' = queue

Shift == queue # <<>> /\ queue' = Tail(queue)
-----------------------------------------------------------------------------
(* send.                                                                   *)

\* An attempt: ask shouldSend if there is one, else hand the envelope over.
Attempt(e, retry) ==
    /\ where' = [where EXCEPT ![e] = IF HasShouldSend THEN "asking" ELSE "sending"]
    /\ isRetry' = [isRetry EXCEPT ![e] = retry]

Send(e) ==
    /\ where[e] = "new" /\ e \notin Replays
    /\ Attempt(e, FALSE)
    /\ UNCHANGED <<storeVars, timerVars, calls, restarts, overlapped>>

SendReplay(e) ==
    /\ where[e] = "new" /\ e \in Replays
    /\ Push(e)
    /\ Await("replay", e)
    /\ UNCHANGED <<isRetry, timerVars, restarts, overlapped>>

ReplayPushed ==
    /\ Resolved("replay")
    /\ FlushIn(MinDelay)
    /\ UNCHANGED <<where, isRetry, storeVars, retryDelay, restarts, overlapped>>

ShouldSend(e) ==
    /\ where[e] = "asking"
    /\ where' = [where EXCEPT ![e] = "sending"]
    /\ UNCHANGED <<isRetry, storeVars, timerVars, calls, restarts, overlapped>>

\* shouldSend returned false or threw, or the wrapped transport rejected.
Fails(e) ==
    /\ where[e] \in {"asking", "sending"}
    /\ where' = [where EXCEPT ![e] = "failed"]
    /\ UNCHANGED <<isRetry, storeVars, timerVars, calls, restarts, overlapped>>

\* The wrapped transport resolved without a server error, or with a delay in
\* its headers.  It also resolves for what it dropped itself.
Answered(e) ==
    /\ where[e] = "sending"
    /\ where' = [where EXCEPT ![e] = "answered"]
    /\ \E delay \in {MinDelay} \union RetryAfters : FlushIn(delay)
    /\ retryDelay' = StartDelay
    /\ UNCHANGED <<isRetry, storeVars, calls, restarts, overlapped>>

\* A status of 400 or more and no delay: the queue is left alone.
ServerError(e) ==
    /\ where[e] = "sending"
    /\ where' = [where EXCEPT ![e] = "answered"]
    /\ UNCHANGED <<isRetry, storeVars, timerVars, calls, restarts, overlapped>>

\* mutant: a failed retry goes to the back of the queue
StorePushes(e) == Push(e)

Store(e) == IF isRetry[e] THEN Unshift(e) ELSE Push(e)

KeepFailed(e) ==
    /\ where[e] = "failed" /\ e \notin Reports
    /\ Store(e)
    /\ Await("failed", e)
    /\ UNCHANGED <<isRetry, timerVars, restarts, overlapped>>

\* mutant: no back-off after a failed envelope was stored
StoredForgets ==
    /\ Resolved("failed")
    /\ UNCHANGED <<where, isRetry, storeVars, timerVars, restarts, overlapped>>

FailedStored ==
    /\ Resolved("failed")
    /\ BackOff
    /\ UNCHANGED <<where, isRetry, storeVars, restarts, overlapped>>

\* A client report, or options.shouldStore, taken as given, returned false or
\* threw: send rejects.
Refuse(e) ==
    /\ where[e] = "failed"
    /\ where' = [where EXCEPT ![e] = "refused"]
    /\ UNCHANGED <<isRetry, storeVars, timerVars, calls, restarts, overlapped>>
-----------------------------------------------------------------------------
(* The timer, flush and the page.                                          *)

TimerFires ==
    /\ flushTimer # NoTimer
    /\ flushTimer' = NoTimer
    /\ Shift
    /\ where' = [where EXCEPT ![Head(queue)] = "shifted"]
    /\ isRetry' = [isRetry EXCEPT ![Head(queue)] = TRUE]
    /\ Await("shift", Head(queue))
    /\ overlapped' = (overlapped \/ Retrying # {})
    /\ UNCHANGED <<firstStored, retryDelay, restarts>>

\* The store is empty, or its transaction failed.
TimerFindsNothing ==
    /\ flushTimer # NoTimer
    /\ flushTimer' = NoTimer
    /\ UNCHANGED <<where, isRetry, storeVars, retryDelay, calls, restarts, overlapped>>

SendShifted(e) ==
    /\ Resolved("shift") /\ Head(calls).envelope = e
    /\ Attempt(e, TRUE)
    /\ UNCHANGED <<storeVars, timerVars, restarts, overlapped>>

\* flush() without a timeout; with one it only asks the wrapped transport.
Flush ==
    /\ FlushIn(MinDelay)
    /\ retryDelay' = StartDelay
    /\ UNCHANGED <<where, isRetry, storeVars, calls, restarts, overlapped>>

Restart ==
    /\ restarts < MaxRestarts
    /\ restarts' = restarts + 1
    /\ where' = [e \in Envelopes |-> IF where[e] \in UnderWay THEN "lost" ELSE where[e]]
    /\ calls' = <<>>
    /\ Startup
    /\ UNCHANGED <<isRetry, storeVars, overlapped>>

Next ==
    \/ \E e \in Envelopes :
        \/ Send(e) \/ SendReplay(e) \/ SendShifted(e) \/ ShouldSend(e)
        \/ Fails(e) \/ Answered(e) \/ ServerError(e)
        \/ KeepFailed(e) \/ Refuse(e)
    \/ ReplayPushed \/ FailedStored
    \/ TimerFires \/ TimerFindsNothing
    \/ Flush \/ Restart

Spec == Init /\ [][Next]_vars
-----------------------------------------------------------------------------
(* The retry delay never exceeds an hour (MAX_DELAY) and a timer waits for *)
(* it, for MIN_DELAY, or for as long as the server asked.                  *)
TypeOK ==
    /\ where \in [Envelopes -> Places]
    /\ isRetry \in [Envelopes -> BOOLEAN]
    /\ queue \in Seq(Envelopes) /\ Len(queue) <= MaxQueueSize
    /\ firstStored \in Seq(Envelopes)
    /\ retryDelay \in StartDelay .. MaxDelay
    /\ flushTimer \in {NoTimer, MinDelay} \union (StartDelay .. MaxDelay) \union RetryAfters
    /\ calls \in Seq([by : {"replay", "failed", "shift"}, envelope : Envelopes])
    /\ restarts \in 0 .. MaxRestarts
    /\ overlapped \in BOOLEAN

(* An envelope is in one place: the queue holds exactly those that no      *)
(* attempt has and that were neither answered nor dropped, each once, so   *)
(* no envelope is taken for a second attempt while a first one has it, and *)
(* none that was answered comes back, not even after a restart.            *)
StoredOnce ==
    /\ IsInjective(queue)
    /\ ToSet(queue) = {e \in Envelopes : where[e] = "queued"}

(* As long as no retry was begun while another was under way, the envelope *)
(* being retried and those behind it are in the order in which they were   *)
(* first stored ("we need to retry them in order").                        *)
Before(a, b) ==
    \E m, n \in DOMAIN firstStored : m < n /\ firstStored[m] = a /\ firstStored[n] = b

InOrder ==
    ~overlapped =>
        /\ \A i, j \in DOMAIN queue : i < j => Before(queue[i], queue[j])
        /\ \A e \in Retrying : \A i \in DOMAIN queue : Before(e, queue[i])

Unwatched ==
    /\ queue # <<>>
    /\ flushTimer = NoTimer /\ calls = <<>>
    /\ \A e \in Envelopes : where[e] \notin UnderWay

(* A queue that is not empty has a timer, or something under way that will *)
(* arm one.  Only four things leave it waiting for the next envelope: a    *)
(* server error, a rejected send, a failed store transaction, and a        *)
(* restart without flushAtStartup.                                         *)
NeverLeftUnwatched ==
    [][Unwatched' /\ ~Unwatched =>
        \/ \E e \in Envelopes : ServerError(e) \/ Refuse(e)
        \/ TimerFindsNothing
        \/ Restart /\ ~FlushAtStartup]_vars

=============================================================================
