-------------------------- MODULE RequestSessions --------------------------
(***************************************************************************)
(* The server's request sessions: recordRequestSession of                  *)
(* core/src/integrations/http/record-request-session.ts counts every       *)
(* request, when its response closes, by the minute and by how it went;    *)
(* setCurrentRequestSessionErroredOrCrashed of server-runtime-client.ts    *)
(* notes exceptions; the counts go out on a timer or on the client's       *)
(* 'flush', a hook that is registered with the timer.                      *)
(***************************************************************************)
EXTENDS ClientHooks, Naturals, FiniteSets

CONSTANTS
    Request,
    Minutes       \* bound: the minutes the clock passes, 1 .. Minutes

ASSUME RequestAssumption ==
    /\ IsFiniteSet(Request) /\ Minutes \in Nat \ {0}

Minute == 1 .. Minutes
Outcome == {"exited", "errored", "crashed"}
Entry == Minute \X Outcome
NoCounts == [e \in Entry |-> 0]

VARIABLES
    minute,         \* the clock, in whole minutes
    requestStatus,  \* requestSession.status: "none" before the request
    recorded,       \* history: requests whose response closed, each under its entry
    exceptions,     \* history: kinds of exceptions captured before the response closed
    aggregate,      \* the counts of clientToRequestSessionAggregatesMap
    aggregateTimer, \* timer and 'flush' hook of the pending aggregate
    reported,       \* history: requests whose aggregate was handed to the transport,
    unreported,     \* ... or came to nothing: no release, or the client was disabled
    countsSent      \* history: the sum of all aggregates handed to the transport

history == <<reported, unreported, countsSent>>
requestVars == <<minute, requestStatus, recorded, exceptions, aggregate, aggregateTimer, history>>

Statuses == {"none", "ok", "errored", "crashed"}
Unrecorded == <<0, "none">>
Closed == {r \in Request : recorded[r] # Unrecorded}

RequestsTypeOK ==
    /\ minute \in Minute
    /\ requestStatus \in [Request -> Statuses]
    /\ recorded \in [Request -> Entry \cup {Unrecorded}]
    /\ exceptions \in [Request -> SUBSET {"handled", "unhandled"}]
    /\ aggregate \in [Entry -> Nat]
    /\ aggregateTimer \in BOOLEAN
    /\ reported \in SUBSET Request
    /\ unreported \in SUBSET Request
    /\ countsSent \in [Entry -> Nat]

RequestsInit ==
    /\ minute = 1
    /\ requestStatus = [r \in Request |-> "none"]
    /\ recorded = [r \in Request |-> Unrecorded]
    /\ exceptions = [r \in Request |-> {}]
    /\ aggregate = NoCounts
    /\ aggregateTimer = FALSE
    /\ reported = {}
    /\ unreported = {}
    /\ countsSent = NoCounts

Tick ==
    /\ minute < Minutes
    /\ minute' = minute + 1
    /\ UNCHANGED <<requestStatus, recorded, exceptions, aggregate, aggregateTimer, history>>

StartRequest(r) ==
    /\ requestStatus[r] = "none"
    /\ requestStatus' = [requestStatus EXCEPT ![r] = "ok"]
    /\ UNCHANGED <<minute, recorded, exceptions, aggregate, aggregateTimer, history>>

(* setCurrentRequestSessionErroredOrCrashed: "errored" may become "crashed", never the reverse *)
Worsened(status, kind) ==
    IF kind = "unhandled" \/ status = "crashed" THEN "crashed" ELSE "errored"

(* an exception is captured in the scope of the request, also after its response closed *)
CaptureException(r, kind) ==
    /\ requestStatus[r] # "none"
    /\ requestStatus' = [requestStatus EXCEPT ![r] = Worsened(@, kind)]
    /\ exceptions' = [exceptions EXCEPT ![r] = IF r \in Closed THEN @ ELSE @ \cup {kind}]
    /\ UNCHANGED <<minute, recorded, aggregate, aggregateTimer, history>>

\* mutant: the status is used as it is
OutcomeOfRaw(status) == status

(* the name an aggregate has for a status *)
OutcomeOf(status) == IF status = "ok" THEN "exited" ELSE status

(* 'close' of the response: counted in the pending aggregate, or in a new one with its timer *)
CloseResponse(r) ==
    LET entry == <<minute, OutcomeOf(requestStatus[r])>>
    IN /\ requestStatus[r] # "none" /\ r \notin Closed
       /\ recorded' = [recorded EXCEPT ![r] = entry]
       /\ aggregate' = [aggregate EXCEPT ![entry] = @ + 1]
       /\ aggregateTimer' = (aggregateTimer \/ aggregate = NoCounts)
       /\ UNCHANGED <<minute, requestStatus, exceptions, history>>

Pending == Closed \ (reported \cup unreported)

(* client.sendSession({ aggregates }) *)
SendAggregate ==
    IF HasRelease /\ enabled
    THEN /\ countsSent' = [e \in Entry |-> countsSent[e] + aggregate[e]]
         /\ reported' = reported \cup Pending
         /\ UNCHANGED unreported
    ELSE /\ unreported' = unreported \cup Pending
         /\ UNCHANGED <<reported, countsSent>>

(* flushPendingClientAggregates *)
FlushAggregate ==
    /\ aggregateTimer' = FALSE
    /\ aggregate' = NoCounts
    /\ SendAggregate
    /\ UNCHANGED <<minute, requestStatus, recorded, exceptions>>

AggregateTimerFires == aggregateTimer /\ FlushAggregate

(* the hook is registered as long as the timer is *)
RequestsOnFlush == IF aggregateTimer THEN FlushAggregate ELSE UNCHANGED requestVars
=============================================================================
