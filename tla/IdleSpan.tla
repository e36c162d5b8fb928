------------------------------ MODULE IdleSpan ------------------------------
(***************************************************************************)
(* startIdleSpan (packages/core/src/tracing/idleSpan.ts): a sampled span   *)
(* that started at 0 and ends by itself, when it has had no running child  *)
(* for a while, when no child was started for a while, or after the final  *)
(* timeout.  Timers may fire late, but in the order in which they are due. *)
(* Spans below it may be given any start and end times, and have children. *)
(* The span is ended once: browser tracing looks at its timestamp before   *)
(* it ends it, and user code is taken to do the same.                      *)
(***************************************************************************)
EXTENDS Integers, FiniteSets, FiniteSetsExt

CONSTANTS Children,           \* spans started below the idle span
          Ignored,            \* children that options.ignoreSpans matches
          IdleTimeout, FinalTimeout, ChildSpanTimeout,
          TrimEnd,            \* trimIdleSpanEndTimestamp
          MaxNow,             \* bound: how far the clock goes
          Given               \* bound: the start and end times that children are given

ASSUME IdleSpanAssumption ==
    /\ Ignored \subseteq Children /\ IsFiniteSet(Children)
    /\ IdleTimeout \in Nat /\ FinalTimeout \in Nat /\ ChildSpanTimeout \in Nat
    /\ TrimEnd \in BOOLEAN /\ MaxNow \in Nat
    /\ Given \subseteq 0..MaxNow

VARIABLES now,
          status,            \* of each child
          branch,            \* the child of the idle span itself that it is, or is below
          startedAt, endedAt,
          discarded,         \* spans taken from the idle span's own children at its end
          activities,
          idleTimer,         \* the timer whose handle is in _idleTimeoutID
          strayTimer,        \* a timer whose handle was overwritten
          finalTimer,
          autoFinishAllowed,
          finished, finishReason, endTimestamp,
          lastStart          \* history: when the last child was started

vars == <<now, status, branch, startedAt, endedAt, discarded, activities, idleTimer, strayTimer,
          finalTimer, autoFinishAllowed, finished, finishReason, endTimestamp, lastStart>>
childVars == <<status, branch, startedAt, endedAt, discarded, lastStart>>
timerVars == <<idleTimer, strayTimer, finalTimer>>
endVars == <<finished, finishReason, endTimestamp>>

NoTimer == [kind |-> "none", due |-> 0, end |-> 0]
\* end: the timestamp the timer ends the span with, or -1 for the time it fires
NoEnd == -1

Statuses == {"new", "running", "ended", "cancelled"}
Reasons == {"none", "idleTimeout", "heartbeatFailed", "finalTimeout", "externalFinish"}
Armed == {t \in {idleTimer, strayTimer, finalTimer} : t # NoTimer}

IdleTimer(end) == [kind |-> "idle", due |-> now + IdleTimeout, end |-> end]
ChildTimer(end) == [kind |-> "child", due |-> now + ChildSpanTimeout, end |-> end]

Init ==
    /\ now = 0
    /\ status = [c \in Children |-> "new"]
    /\ branch = [c \in Children |-> c]
    /\ startedAt = [c \in Children |-> 0] /\ endedAt = [c \in Children |-> 0]
    /\ discarded = {} /\ activities = {}
    /\ autoFinishAllowed \in BOOLEAN        \* ~options.disableAutoFinish
    /\ idleTimer = IF autoFinishAllowed THEN [kind |-> "idle", due |-> IdleTimeout, end |-> NoEnd]
                   ELSE NoTimer
    /\ strayTimer = NoTimer
    /\ finalTimer = [kind |-> "final", due |-> FinalTimeout, end |-> NoEnd]
    /\ finished = FALSE /\ finishReason = "none" /\ endTimestamp = 0
    /\ lastStart = 0
-----------------------------------------------------------------------------
(* Activities.                                                             *)

\* _pushActivity: _restartChildSpanTimeout stores its handle in
\* _idleTimeoutID, so arming either timer and cancelling the idle timeout
\* concern the one handle, and _cancelChildSpanTimeout never has anything to
\* cancel.
PushActivity(c) ==
    /\ activities' = activities \union {c}
    /\ idleTimer' = ChildTimer(now + ChildSpanTimeout)

PopActivity(ended) ==
    /\ activities' = activities \ ended
    /\ idleTimer' = IF activities' = {} THEN IdleTimer(now + IdleTimeout) ELSE idleTimer

\* spanStart, for a span below `parent`, the idle span itself if that is c.
\* It may have been given an earlier or later start time.
StartChild(c, parent, time) ==
    /\ status[c] = "new" /\ ~finished
    /\ status[parent] # "new" \/ parent = c
    /\ status' = [status EXCEPT ![c] = "running"]
    /\ branch' = [branch EXCEPT ![c] = branch[parent]]
    /\ startedAt' = [startedAt EXCEPT ![c] = time]
    /\ lastStart' = now
    /\ PushActivity(c)
    /\ UNCHANGED <<now, endedAt, discarded, strayTimer, finalTimer, autoFinishAllowed, endVars>>

\* spanEnd, for a child, which may be given any end time
EndChild(c, time) ==
    /\ status[c] = "running" /\ ~finished
    /\ status' = [status EXCEPT ![c] = "ended"]
    /\ endedAt' = [endedAt EXCEPT ![c] = time]
    /\ PopActivity({c})
    /\ UNCHANGED <<now, branch, startedAt, discarded, lastStart, strayTimer, finalTimer,
                   autoFinishAllowed, endVars>>

\* spanEnd, for a span that is not below the idle span
OtherSpanEnds ==
    /\ ~finished
    /\ PopActivity({})
    /\ UNCHANGED <<now, childVars, strayTimer, finalTimer, autoFinishAllowed, endVars>>

\* mutant: the flag is set and no timer is armed
EnableAutoFinishArmsNothing ==
    /\ ~finished /\ ~autoFinishAllowed
    /\ autoFinishAllowed' = TRUE
    /\ UNCHANGED <<now, childVars, activities, timerVars, endVars>>

\* idleSpanEnableAutoFinish, which browser tracing emits once: with running
\* children the handle of the idle timeout is overwritten by the child's.
EnableAutoFinish ==
    /\ ~finished /\ ~autoFinishAllowed
    /\ autoFinishAllowed' = TRUE
    /\ IF activities = {}
       THEN idleTimer' = IdleTimer(NoEnd) /\ UNCHANGED strayTimer
       ELSE idleTimer' = ChildTimer(NoEnd) /\ strayTimer' = IdleTimer(NoEnd)
    /\ UNCHANGED <<now, childVars, activities, finalTimer, endVars>>
-----------------------------------------------------------------------------
(* The end of the span.                                                    *)

Descendants == {c \in Children : status[c] # "new"}

\* The patched span.end: not after the latest end of a child, nor after the
\* final timeout, nor before the start.
Trimmed(spanEnd) ==
    LET ends == {endedAt[c] : c \in {d \in Descendants \ Ignored : status[d] = "ended"}}
    IN  IF Descendants = {} \/ ~TrimEnd THEN spanEnd
        ELSE Min({FinalTimeout, Max({0, Min({spanEnd} \union
                     (IF ends = {} THEN {} ELSE {Max(ends)}))})})

\* mutant: the start of a child is not looked at
DiscardedForLength(end, stamps) ==
    {c \in Descendants : stamps[c] - startedAt[c] > FinalTimeout + IdleTimeout}

\* Spans that started after the end, or lasted longer than the timeouts.
Discarded(end, stamps) ==
    {c \in Descendants : \/ startedAt[c] > end
                         \/ stamps[c] - startedAt[c] > FinalTimeout + IdleTimeout}

\* onIdleSpanEnded.  All descendants are looked at, but removeChildSpanFromSpan
\* can take a span only from the idle span's own children.
End(spanEnd, reason) ==
    LET end == Trimmed(spanEnd)
    IN  /\ finished' = TRUE /\ finishReason' = reason /\ endTimestamp' = end
        /\ activities' = {}
        /\ status' = [c \in Children |->
                         IF status[c] = "running" THEN "cancelled" ELSE status[c]]
        /\ endedAt' = [c \in Children |->
                          IF status[c] = "running" THEN end ELSE endedAt[c]]
        /\ discarded' = {c \in Discarded(end, endedAt') : branch[c] = c}
        /\ UNCHANGED <<branch, startedAt, lastStart>>

EndExternally ==
    /\ ~finished
    /\ End(now, "externalFinish")
    /\ UNCHANGED <<now, timerVars, autoFinishAllowed>>

NextDue(timer) ==
    /\ timer # NoTimer /\ timer.due <= now
    /\ \A t \in Armed : timer.due <= t.due

Stays == UNCHANGED <<childVars, activities, endVars>>

\* mutant: span.end(undefined) does not fall back to the current time
EndOfTimer(timer) == timer.end

EndOf(timer) == IF timer.end = NoEnd THEN now ELSE timer.end

\* mutant: the idle timeout does not look at the activities
IdleExpiresBlindly(timer) ==
    IF ~finished /\ autoFinishAllowed THEN End(EndOf(timer), "idleTimeout") ELSE Stays

IdleExpires(timer) ==
    IF ~finished /\ activities = {} /\ autoFinishAllowed
    THEN End(EndOf(timer), "idleTimeout") ELSE Stays

ChildExpires(timer) ==
    IF ~finished /\ autoFinishAllowed THEN End(EndOf(timer), "heartbeatFailed") ELSE Stays

IdleTimerFires ==
    /\ NextDue(idleTimer)
    /\ idleTimer' = NoTimer
    /\ IF idleTimer.kind = "idle" THEN IdleExpires(idleTimer) ELSE ChildExpires(idleTimer)
    /\ UNCHANGED <<now, strayTimer, finalTimer, autoFinishAllowed>>

StrayTimerFires ==
    /\ NextDue(strayTimer)
    /\ strayTimer' = NoTimer
    /\ IdleExpires(strayTimer)
    /\ UNCHANGED <<now, idleTimer, finalTimer, autoFinishAllowed>>

\* mutant: the final timeout heeds disableAutoFinish
FinalTimerHeedsAutoFinish ==
    /\ NextDue(finalTimer)
    /\ finalTimer' = NoTimer
    /\ IF finished \/ ~autoFinishAllowed THEN Stays ELSE End(now, "finalTimeout")
    /\ UNCHANGED <<now, idleTimer, strayTimer, autoFinishAllowed>>

FinalTimerFires ==
    /\ NextDue(finalTimer)
    /\ finalTimer' = NoTimer
    /\ IF finished THEN Stays ELSE End(now, "finalTimeout")
    /\ UNCHANGED <<now, idleTimer, strayTimer, autoFinishAllowed>>

Tick ==
    /\ now < MaxNow
    /\ now' = now + 1
    /\ UNCHANGED <<childVars, timerVars, activities, autoFinishAllowed, endVars>>

Next ==
    \/ \E c, parent \in Children, t \in Given : StartChild(c, parent, t)
    \/ \E c \in Children, t \in Given : EndChild(c, t)
    \/ OtherSpanEnds \/ EnableAutoFinish \/ EndExternally
    \/ IdleTimerFires \/ StrayTimerFires \/ FinalTimerFires
    \/ Tick

Spec == Init /\ [][Next]_vars

\* The event loop runs a timer that is due; time passes.
Fairness ==
    /\ WF_vars(Tick)
    /\ WF_vars(IdleTimerFires \/ StrayTimerFires \/ FinalTimerFires)

FairSpec == Spec /\ Fairness
-----------------------------------------------------------------------------
Times == 0..MaxNow
Timer(kinds, timeout) ==
    [kind : kinds, due : timeout..(MaxNow + timeout), end : {NoEnd} \union 0..(MaxNow + timeout)]

(* Type correctness.                                                       *)
TypeOK ==
    /\ now \in Times
    /\ status \in [Children -> Statuses]
    /\ branch \in [Children -> Children]
    /\ startedAt \in [Children -> Times]
    /\ endedAt \in [Children -> Nat]
    /\ discarded \subseteq Children /\ activities \subseteq Children
    /\ idleTimer \in {NoTimer} \union Timer({"idle"}, IdleTimeout)
                               \union Timer({"child"}, ChildSpanTimeout)
    /\ strayTimer \in {NoTimer} \union Timer({"idle"}, IdleTimeout)
    /\ finalTimer \in {NoTimer, [kind |-> "final", due |-> FinalTimeout, end |-> NoEnd]}
    /\ autoFinishAllowed \in BOOLEAN /\ finished \in BOOLEAN
    /\ finishReason \in Reasons /\ endTimestamp \in Nat
    /\ lastStart \in Times

EndsFor(reason) == ~finished /\ finishReason' = reason

(* A span that ends for idleness has no running child, and none was        *)
(* started for the idle timeout, unless the timer that fired is one whose  *)
(* handle idleSpanEnableAutoFinish overwrote (_restartIdleTimeout,         *)
(* _pushActivity).                                                         *)
IdleMeansIdle ==
    [][EndsFor("idleTimeout") =>
          /\ activities = {}
          /\ strayTimer' = strayTimer => now - lastStart >= IdleTimeout]_vars

(* The doc of idleTimeout: "The time that has to pass without any span     *)
(* being created."                                                         *)
DocIdleTimeout == [][EndsFor("idleTimeout") => now - lastStart >= IdleTimeout]_vars

(* A span that ends because of a failed heartbeat has a running child, and *)
(* none was started for the child span timeout: the child timeout never    *)
(* outlives its activities, though _cancelChildSpanTimeout cancels nothing.*)
HeartbeatMeansStuck ==
    [][EndsFor("heartbeatFailed") =>
          /\ activities # {}
          /\ now - lastStart >= ChildSpanTimeout]_vars

(* Neither timer ends a span for a reason that is not there. *)
EndsForItsReason == IdleMeansIdle /\ HeartbeatMeansStuck

(* A span that may end by itself always has the timer armed that its       *)
(* activities call for, whatever order children, other spans and           *)
(* idleSpanEnableAutoFinish come in.                                       *)
NeverWithoutTimer ==
    ~finished /\ autoFinishAllowed => idleTimer.kind = IF activities = {} THEN "idle" ELSE "child"

\* What the transaction will contain: getSpanDescendants after the removals
Kept == {c \in Descendants : branch[c] \notin discarded}

Fits(c) ==
    /\ startedAt[c] <= endTimestamp
    /\ endedAt[c] - startedAt[c] <= FinalTimeout + IdleTimeout

(* Nothing runs on below an ended span: what did was ended with it.  Its   *)
(* own children stay if they fit it, whose end may have been trimmed to    *)
(* before their start, and go if they do not; what is further down shares  *)
(* the fate of the child it is below, whether it fits or not               *)
(* (idleSpan.ts:317-351, spanUtils.ts:388-417).                            *)
KeptChildrenFit ==
    finished => \A c \in Descendants :
                    /\ status[c] # "running"
                    /\ status[c] = "cancelled" => endedAt[c] = endTimestamp
                    /\ c \in Kept <=> Fits(branch[c])

(* The doc of disableAutoFinish: "the idle span will definitely be         *)
(* finished when the final timeout is reached".                            *)
FinallyEnds == <>finished
=============================================================================
