--------------------------- MODULE WeightBuffer ---------------------------
(***************************************************************************)
(* The buffer of captured logs: _INTERNAL_captureSerializedLog and         *)
(* _INTERNAL_flushLogsBuffer of packages/core/src/logs/internal.ts, and    *)
(* setupWeightBasedFlushing of client.ts, which flushes it by weight, by   *)
(* timer and on the client's 'flush'.  The metric buffer                   *)
(* (metrics/internal.ts) is the same code with other limits.               *)
(*                                                                         *)
(* sendEnvelope emits 'beforeEnvelope' before its first await, so a        *)
(* handler of the user may capture a log in the middle of a flush: the     *)
(* operations take the state at the call and yield the state at the        *)
(* return, and `n` is the log that handler captures, or NoLog.             *)
(***************************************************************************)
EXTENDS ClientHooks, Naturals, FiniteSets, FiniteSetsExt

CONSTANTS
    Log,           \* the logs that are captured
    LogSize,       \* estimated size of each
    NoLog,
    MaxLogBuffer,  \* MAX_LOG_BUFFER_SIZE
    MaxWeight,     \* 800_000
    FlushInterval  \* _flushInterval; 0 means no timer

ASSUME LogAssumption ==
    /\ IsFiniteSet(Log) /\ NoLog \notin Log
    /\ LogSize \in [Log -> Nat \ {0}]
    /\ MaxLogBuffer \in Nat \ {0}
    /\ MaxWeight \in Nat \ {0}
    /\ FlushInterval \in Nat

(***************************************************************************)
(* The code's state: buffer (of the client, on the carrier), weight,       *)
(* isTimerActive, flushTimeout (is a timer pending).  The rest is history: *)
(* logs captured, how often each was handed to the transport, those sent   *)
(* by a disabled client, those lost when the buffer was overwritten.       *)
(***************************************************************************)
VARIABLE logs

LogsTypeOK ==
    logs \in [buffer: SUBSET Log, weight: Nat, isTimerActive: BOOLEAN, flushTimeout: BOOLEAN,
              captured: SUBSET Log, handed: [Log -> Nat], discarded: SUBSET Log,
              overwritten: SUBSET Log]

LogsInit ==
    logs = [buffer |-> {}, weight |-> 0, isTimerActive |-> FALSE, flushTimeout |-> FALSE,
            captured |-> {}, handed |-> [l \in Log |-> 0], discarded |-> {}, overwritten |-> {}]

Weight(items) == MapThenSumSet(LAMBDA l : LogSize[l], items)

-----------------------------------------------------------------------------
(* Flushing *)

\* mutant: the timer is cleared but its flag stays
OnFlushLogsKeepsFlag(b) == [b EXCEPT !.weight = 0, !.flushTimeout = FALSE]

(* the handler of 'flushLogs' *)
OnFlushLogs(b) == [b EXCEPT !.weight = 0, !.flushTimeout = FALSE, !.isTimerActive = FALSE]

(* transport.send, or nothing if the client is disabled *)
HandLogs(b, items) ==
    IF enabled
    THEN [b EXCEPT !.handed = [l \in Log |-> @[l] + IF l \in items THEN 1 ELSE 0]]
    ELSE [b EXCEPT !.discarded = @ \cup items]

(* the first log after a flush starts the timer *)
StartTimer(b) ==
    LET arms == ~b.isTimerActive /\ FlushInterval > 0
    IN [b EXCEPT !.isTimerActive = @ \/ arms, !.flushTimeout = @ \/ arms]

Weighed(b, l) == [b EXCEPT !.weight = @ + LogSize[l]]
Emptied(b) == OnFlushLogs([b EXCEPT !.buffer = {}])

(* A 'beforeEnvelope' handler captures n, once, into the buffer that was   *)
(* just emptied; a log over the weight limit is flushed within the flush,  *)
(* and of that envelope the handler takes no notice.                       *)
Captures(n, b) ==
    IF n = NoLog \/ n \in b.captured THEN b
    ELSE LET stored == Weighed([b EXCEPT !.captured = @ \cup {n}, !.buffer = @ \cup {n}], n)
         IN IF stored.weight >= MaxWeight THEN HandLogs(Emptied(stored), stored.buffer)
            ELSE StartTimer(stored)

(* _INTERNAL_flushLogsBuffer: the buffer is cleared, then hook and envelope *)
FlushLogs(b, n) ==
    IF b.buffer = {} THEN b ELSE HandLogs(Captures(n, Emptied(b)), b.buffer)

-----------------------------------------------------------------------------
(* Capturing *)

\* mutant: a full buffer is flushed but the reference to it is kept
StoreLogKeeps(b, l, n) ==
    IF Cardinality(b.buffer) >= MaxLogBuffer
    THEN [FlushLogs(b, n) EXCEPT !.buffer = b.buffer \cup {l}]
    ELSE [b EXCEPT !.buffer = @ \cup {l}]

(* A full buffer is flushed first, then *replaced*: what the handler captured is lost *)
StoreLog(b, l, n) ==
    IF Cardinality(b.buffer) >= MaxLogBuffer
    THEN LET flushed == FlushLogs(b, n)
         IN [flushed EXCEPT !.buffer = {l}, !.overwritten = @ \cup flushed.buffer]
    ELSE [b EXCEPT !.buffer = @ \cup {l}]

(* the handler of 'afterCaptureLog' *)
AfterCaptureLog(b, l, n) ==
    LET weighed == Weighed(b, l)
    IN IF weighed.weight >= MaxWeight THEN FlushLogs(weighed, n) ELSE StartTimer(weighed)

-----------------------------------------------------------------------------
(* Steps *)

CaptureLog(l, n) ==
    /\ l \notin logs.captured /\ n # l
    /\ logs' = AfterCaptureLog(StoreLog([logs EXCEPT !.captured = @ \cup {l}], l, n), l, n)

LogTimerFires(n) ==
    /\ logs.flushTimeout
    /\ logs' = FlushLogs([logs EXCEPT !.flushTimeout = FALSE], n)

LogsOnFlush(n) == logs' = FlushLogs(logs, n)
=============================================================================
