------------------------------- MODULE Replay -------------------------------
(***************************************************************************)
(* class ReplayContainer of packages/replay-internal/src/replay.ts with    *)
(* its event buffer, its session in sessionStorage, the debounced flush,   *)
(* the upload with its retries, and the handlers that call it.  A step is  *)
(* one run of the event loop up to where nothing but time, the worker, the *)
(* network, the user or the page goes on.                                  *)
(*                                                                         *)
(* Methods call each other in the middle of their work, so each is an      *)
(* operator from the container's state at the call to that at the return.  *)
(* `s` is what the sampling of a new session decides, if there is one.     *)
(***************************************************************************)
EXTENDS Naturals, FiniteSets, Sequences, SequencesExt

CONSTANTS
    MaxEvents,      \* bound: events that are recorded
    MaxReplays,     \* bound: sessions that are created
    MaxReloads,     \* bound: reloads of the page
    MaxWaiters,     \* bound: calls that wait for a flush, and errors under way
    MaxRetries,     \* RETRY_MAX_COUNT
    ContinueRecording, \* what applications pass to flush() as continueRecording
    Samples,        \* what the sample rates allow; {} if both are zero
    StickySession

ASSUME ReplayAssumption ==
    /\ {MaxEvents, MaxReloads, MaxWaiters, MaxRetries} \subseteq Nat
    /\ MaxReplays \in Nat \ {0}
    /\ Samples \subseteq {"session", "buffer", "no"}
    /\ StickySession \in BOOLEAN /\ ContinueRecording \subseteq BOOLEAN

Event == 1 .. MaxEvents
ReplayId == 1 .. MaxReplays
SampleDecisions == IF Samples = {} THEN {"no"} ELSE Samples

NoSession == [id |-> 0, segmentId |-> 0, sampled |-> "no", dirty |-> FALSE, refreshed |-> FALSE]
NoBuffer == [exists |-> FALSE, hasEvents |-> FALSE, waitForCheckout |-> FALSE, held |-> {}]
NewBuffer == [NoBuffer EXCEPT !.exists = TRUE]
NoFlush == [stage |-> "none", replayId |-> 0, sampled |-> "no",
            retries |-> 0, buffer |-> "live", again |-> FALSE, waiters |-> <<>>]

VARIABLES
    replay,      \* the container, sessionStorage and the clocks it reads
    errors,      \* sampled errors, tagged with the replay's id: [sending, sent], where those sent
                 \* have a callback under way that converts the buffer
    reloads,
    recordedIn,  \* history: the replay each event was added for
    cut          \* history: segments taken from the buffer to be sent

vars == <<replay, errors, reloads, recordedIn, cut>>
history == <<recordedIn, cut>>

Session == [id: 0 .. MaxReplays, segmentId: Nat, sampled: {"session", "buffer", "no"},
            dirty: BOOLEAN, refreshed: BOOLEAN]
Segment == [replay: ReplayId, segment: Nat, events: SUBSET Event]

EventBuffer == [exists: BOOLEAN, hasEvents: BOOLEAN, waitForCheckout: BOOLEAN, held: SUBSET Event]
Flush == [stage: {"none", "preparing", "finishing", "sending"}, replayId: 0 .. MaxReplays,
          sampled: {"session", "buffer", "no", "none"},  \* "none": there is no session to ask
          retries: 0 .. MaxRetries, buffer: {"live", "replaced", "destroyed"}, again: BOOLEAN,
          waiters: Seq({"stop", "convert", "convertOnce"})]
Container == [enabled: BOOLEAN, paused: BOOLEAN, mode: {"session", "buffer"},
              recording: BOOLEAN, leaked: BOOLEAN, fresh: BOOLEAN,
              session: Session, stored: Session, timer: BOOLEAN,
              buffer: EventBuffer, flush: Flush, userIdle: BOOLEAN,
              expired: {"no", "idle", "old"}, young: BOOLEAN, replays: 0 .. MaxReplays]

TypeOK ==
    /\ replay \in Container
    /\ errors \in [sending: 0 .. MaxWaiters, sent: 0 .. MaxWaiters]
    /\ reloads \in 0 .. MaxReloads
    /\ recordedIn \in [Event -> 0 .. MaxReplays]
    /\ cut \in SUBSET Segment

(* A page is loaded: what is in memory is new, sessionStorage is what it was *)
Loaded(stored, expired, young, replays) ==
    [enabled |-> FALSE, paused |-> FALSE, mode |-> "session",
     recording |-> FALSE, leaked |-> FALSE, fresh |-> FALSE,
     session |-> NoSession, stored |-> stored, timer |-> FALSE, buffer |-> NoBuffer, flush |-> NoFlush,
     userIdle |-> FALSE, expired |-> expired, young |-> young, replays |-> replays]

-----------------------------------------------------------------------------
(* The session *)

SaveSession(r) == IF StickySession THEN [r EXCEPT !.stored = r.session] ELSE r

(* createSession *)
CreateSession(r, s, refreshed) ==
    SaveSession([r EXCEPT
        !.session = [NoSession EXCEPT !.id = r.replays + 1, !.sampled = s, !.refreshed = refreshed],
        !.replays = @ + 1, !.expired = "no", !.young = TRUE])

(* shouldRefreshSession *)
ShouldRefresh(r, session) ==
    /\ r.expired # "no"
    /\ ~(session.sampled = "buffer" /\ session.segmentId = 0)

(* loadOrCreateSession *)
LoadOrCreateSession(r, s, refreshed) ==
    IF r.stored = NoSession THEN CreateSession(r, s, refreshed)
    ELSE IF ShouldRefresh(r, r.stored) THEN CreateSession(r, s, TRUE)
    ELSE [r EXCEPT !.session = r.stored]

UpdateSessionActivity(r) ==
    IF r.session = NoSession THEN r
    ELSE SaveSession([r EXCEPT !.expired = IF @ = "idle" THEN "no" ELSE @])

-----------------------------------------------------------------------------
(* Recording *)

(* record() of rrweb: a recorder that still runs can never be stopped again *)
StartRecording(r) == [r EXCEPT !.recording = TRUE, !.fresh = TRUE, !.leaked = @ \/ r.recording]
StopRecording(r) == [r EXCEPT !.recording = FALSE]

(* _initializeRecording: a new buffer takes the place of one that may be in use *)
InitializeRecording(r) ==
    StartRecording([UpdateSessionActivity(r) EXCEPT
        !.buffer = NewBuffer,
        !.flush.buffer = IF r.flush.stage = "finishing" /\ @ = "live" THEN "replaced" ELSE @,
        !.enabled = TRUE, !.paused = FALSE])

(* initializeSampling *)
InitializeSampling(r, s, refreshed) ==
    LET loaded == LoadOrCreateSession(r, s, refreshed)
        session == loaded.session
    IN IF Samples = {} THEN r
       ELSE IF session.sampled = "no" THEN loaded
       ELSE InitializeRecording([loaded EXCEPT
                !.mode = IF session.sampled = "buffer" /\ session.segmentId = 0 THEN "buffer" ELSE "session"])

(* stop(), before it may wait for a flush *)
StopNow(r) ==
    [StopRecording(r) EXCEPT !.enabled = FALSE, !.mode = "buffer", !.timer = FALSE]

(* stop(), after: whatever buffer and session there are by now; a worker's answer is rejected *)
StopTail(r) ==
    [r EXCEPT !.buffer = NoBuffer, !.session = NoSession, !.stored = NoSession,
              !.flush.buffer = IF r.flush.stage = "finishing" /\ @ = "live" THEN "destroyed" ELSE @]

Stop(r) == IF r.enabled THEN StopTail(StopNow(r)) ELSE r

Pause(r) == IF r.paused THEN r ELSE [StopRecording(r) EXCEPT !.paused = TRUE]

(* _refreshSession *)
RefreshSession(r, s) == IF r.enabled THEN InitializeSampling(Stop(r), s, TRUE) ELSE r

(* _checkSession *)
SessionIsValid(r) == r.session # NoSession /\ ~ShouldRefresh(r, r.session)
CheckSession(r, s) ==
    IF r.session = NoSession \/ SessionIsValid(r) THEN r ELSE RefreshSession(r, s)

(* checkAndHandleExpiredSession: its result and what it does *)
MustPause(r) == r.userIdle /\ r.session.sampled = "session"
IsActive(r) == ~MustPause(r) /\ SessionIsValid(r)
CheckAndHandle(r, s) == IF MustPause(r) THEN Pause(r) ELSE CheckSession(r, s)

Resume(r) == IF r.paused THEN StartRecording([r EXCEPT !.paused = FALSE]) ELSE r

-----------------------------------------------------------------------------
(* Flushing *)

TooLong(r) == r.expired = "old"

(* does _flush get to the lock? *)
Flushes(r, force) == (r.enabled \/ force) /\ IsActive(r) /\ ~r.young /\ ~TooLong(r)

(* does its promise wait? *)
Waits(r, force) == Flushes(r, force) /\ (r.flush.stage # "none" \/ r.buffer.exists)

(* _flush, up to `await this._flushLock` *)
CallFlush(r, force, s) ==
    IF ~r.enabled /\ ~force THEN r
    ELSE IF ~IsActive(r) THEN CheckAndHandle(r, s)
    ELSE [r EXCEPT
        !.timer = r.young,
        !.flush = IF ~Waits(r, force) THEN @
                  ELSE IF @.stage = "none"
                       THEN [NoFlush EXCEPT !.stage = "preparing", !.replayId = r.session.id]
                       ELSE [@ EXCEPT !.again = TRUE]]

(* flushImmediate *)
FlushImmediate(r, s) == CallFlush([r EXCEPT !.timer = FALSE], FALSE, s)

(* sendBufferedReplayOrFlush, after its flush *)
Convert(r, continue) ==
    LET stopped == StopRecording(r)
    IN IF ~continue \/ r.mode = "session" THEN stopped
       ELSE StartRecording(
              IF r.session = NoSession THEN [stopped EXCEPT !.mode = "session"]
              ELSE UpdateSessionActivity(
                     [stopped EXCEPT !.mode = "session", !.session.dirty = FALSE, !.userIdle = FALSE]))

SendBufferedOrFlush(r, continue, s) ==
    IF r.mode = "session" THEN FlushImmediate(r, s)
    ELSE IF Waits(r, FALSE)
         THEN [FlushImmediate(r, s) EXCEPT !.flush.waiters = Append(@, IF continue THEN "convert" ELSE "convertOnce")]
         ELSE Convert(FlushImmediate(r, s), continue)

(* mutant: the calls that found a flush under way ask for no other *)
EndFlushForgets(r) ==
    FoldLeft(LAMBDA q, waiter : IF waiter = "stop" THEN StopTail(q) ELSE Convert(q, waiter = "convert"),
             [r EXCEPT !.flush = NoFlush],
             r.flush.waiters)

(* The lock is released: every waiting _flush asks for another flush, then *)
(* the calls that waited go on in the order they came                      *)
EndFlush(r) ==
    FoldLeft(LAMBDA q, waiter : IF waiter = "stop" THEN StopTail(q) ELSE Convert(q, waiter = "convert"),
             [r EXCEPT !.flush = NoFlush, !.timer = @ \/ r.flush.again],
             r.flush.waiters)

(* the catch of _runFlush *)
FailFlush(r) == EndFlush(Stop(r))

-----------------------------------------------------------------------------
(* Adding events *)

(* shouldAddEvent: `timely` is what it makes of the event's own timestamp *)
Accepts(r, timely) == r.buffer.exists /\ ~r.paused /\ r.enabled /\ timely

(* Is the timestamp of an event of rrweb, which is the present, sure to be timely?  It is not *)
(* when the replay may have lasted too long, but for the checkout that a buffer begins with   *)
SurelyTimely(r, checkout) == r.young \/ (checkout /\ r.mode = "buffer")

(* _addEvent, which a buffer that waits for a checkout ignores *)
Stores(r, checkout, timely) == Accepts(r, timely) /\ (checkout \/ ~r.buffer.waitForCheckout)
AddEvent(r, e, checkout, timely) ==
    IF ~Stores(r, checkout, timely) THEN r
    ELSE [r EXCEPT !.buffer = [r.buffer EXCEPT
             !.held = (IF checkout /\ r.mode = "buffer" THEN {} ELSE @) \cup {e},
             !.hasEvents = TRUE,
             !.waitForCheckout = @ /\ ~checkout]]

(* addUpdate, after its callback, unless that returned true *)
AfterUpdate(r) == IF r.mode = "session" /\ r.enabled THEN [r EXCEPT !.timer = TRUE] ELSE r

(* A buffered session that no error has claimed begins with its latest checkout *)
RestartsClock(r) == r.mode = "buffer" /\ r.session # NoSession /\ ~r.session.dirty
AfterCheckout(r) ==
    LET clocked == IF RestartsClock(r)
                   THEN SaveSession([r EXCEPT !.young = TRUE, !.expired = IF @ = "old" THEN "no" ELSE @])
                   ELSE r
    IN IF r.session.refreshed \/ r.mode = "buffer" THEN clocked ELSE [clocked EXCEPT !.timer = TRUE]

(* getHandleRecordingEmit *)
HandleEmit(r, e, checkout, timely, s) ==
    LET added == AddEvent([r EXCEPT !.fresh = FALSE], e, checkout, timely)
    IN IF ~IsActive(r) THEN CheckAndHandle(r, s)
       ELSE IF ~Accepts(r, timely) THEN [r EXCEPT !.fresh = FALSE]
       ELSE IF checkout THEN AfterCheckout(added)
       ELSE AfterUpdate(added)

(* _addEvent when the buffer is full *)
HandleOverflow(r) ==
    IF r.mode = "buffer"
    THEN [r EXCEPT !.buffer = [NewBuffer EXCEPT !.waitForCheckout = TRUE]]
    ELSE Stop(r)

-----------------------------------------------------------------------------
(* Steps *)

Recorded == {e \in Event : recordedIn[e] # 0}
NewEvent == CHOOSE e \in Event : e \notin Recorded /\ \A d \in Event \ Recorded : e <= d
MayRecord == Recorded # Event

Become(r) == replay' = r
Quietly == UNCHANGED <<errors, reloads, history>>

(* rrweb emits; the first event of a recorder is a checkout, and there may be more *)
Emit(checkout, timely, s) ==
    /\ replay.recording \/ replay.leaked
    /\ MayRecord
    /\ checkout \/ ~replay.fresh
    /\ timely \/ ~SurelyTimely(replay, checkout)
    /\ Become(HandleEmit(replay, NewEvent, checkout, timely, s))
    /\ recordedIn' = IF IsActive(replay) /\ Stores(replay, checkout, timely)
                     THEN [recordedIn EXCEPT ![NewEvent] = replay.session.id] ELSE recordedIn
    /\ UNCHANGED <<errors, reloads, cut>>

(* addUpdate with an event that is not rrweb's; its timestamp is what its sender says *)
AddBreadcrumb(r, timely) ==
    /\ MayRecord
    /\ Become(AfterUpdate(AddEvent(r, NewEvent, FALSE, timely)))
    /\ recordedIn' = IF Stores(r, FALSE, timely) THEN [recordedIn EXCEPT ![NewEvent] = r.session.id] ELSE recordedIn
    /\ UNCHANGED <<errors, reloads, cut>>

(* _createCustomBreadcrumb and network breadcrumbs, which do not look at the session; *)
(* those of the core SDK do what Show or UserActivity does before                     *)
Breadcrumb(timely) == AddBreadcrumb(replay, timely)

Overflow ==
    /\ Accepts(replay, TRUE) /\ replay.buffer.held # {}
    /\ Become(HandleOverflow(replay))
    /\ Quietly

(* the debounced _flush *)
TimerFires(s) ==
    /\ replay.timer
    /\ Become(FlushImmediate(replay, s))
    /\ Quietly

(* _runFlush has added performance entries and memory, and looks again *)
(* mutant: the session is not compared *)
MovedIgnoresSession(r) == ~r.buffer.exists \/ ~r.buffer.hasEvents
Moved(r) == ~r.buffer.exists \/ ~r.buffer.hasEvents \/ r.session.id # r.flush.replayId

(* mutant: the next segment number is not saved *)
TakeSegmentUnsaved(r) ==
    [r EXCEPT !.session.segmentId = @ + 1,
              !.buffer.held = {},
              !.flush = [@ EXCEPT !.stage = "finishing", !.buffer = "live"]]
(* the segment is numbered, and finish() asks the worker for the events *)
TakeSegment(r) ==
    SaveSession([r EXCEPT
        !.session.segmentId = @ + 1,
        !.buffer.held = {},
        !.flush = [@ EXCEPT !.stage = "finishing", !.buffer = "live"]])

Prepared ==
    /\ replay.flush.stage = "preparing"
    /\ IF Moved(replay) THEN Become(EndFlush(replay)) /\ UNCHANGED cut
       ELSE /\ Become(TakeSegment(replay))
            /\ cut' = cut \cup {[replay |-> replay.flush.replayId, segment |-> replay.session.segmentId,
                                 events |-> replay.buffer.held]}
    /\ UNCHANGED <<errors, reloads, recordedIn>>

(* the page slept while the flush was prepared: ReplayDurationLimitError *)
DurationExceeded ==
    /\ replay.flush.stage = "preparing" /\ replay.expired = "old"
    /\ ~Moved(replay)
    /\ Become(FailFlush(replay))
    /\ Quietly

(* The worker answers finish(): only now its buffer counts as empty, and only now *)
(* the session is read that is to be sent, which may be gone                      *)
Finished ==
    /\ replay.flush.stage = "finishing" /\ replay.flush.buffer # "destroyed"
    /\ Become([replay EXCEPT
         !.flush.stage = "sending",
         !.flush.sampled = IF replay.session = NoSession THEN "none" ELSE replay.session.sampled,
         !.buffer.hasEvents = @ /\ replay.flush.buffer # "live"])
    /\ Quietly

(* its buffer was destroyed meanwhile: finish() rejects *)
FinishRejected ==
    /\ replay.flush.stage = "finishing" /\ replay.flush.buffer = "destroyed"
    /\ Become(FailFlush(replay))
    /\ Quietly

Sending == replay.flush.stage = "sending"

(* sendReplay succeeds; an unsampled session's makes no request, and an event *)
(* processor may have dropped the event                                       *)
Sent ==
    /\ Sending /\ replay.flush.sampled # "none"
    /\ Become(EndFlush(replay))
    /\ Quietly

(* A status or rate limit that ends the replay, or the last of the retries failed; *)
(* without a session no attempt gets as far as a request                           *)
SendFailed ==
    /\ Sending /\ replay.flush.sampled # "no"
    /\ replay.flush.sampled = "none" => replay.flush.retries = MaxRetries
    /\ Become(FailFlush(replay))
    /\ Quietly

(* mutant: one retry too many *)
SendErredAgain ==
    /\ Sending /\ replay.flush.sampled # "no"
    /\ replay.flush.retries <= MaxRetries
    /\ Become([replay EXCEPT !.flush.retries = @ + 1])
    /\ Quietly
(* another failure, after which the same data is sent again *)
SendErred ==
    /\ Sending /\ replay.flush.sampled # "no"
    /\ replay.flush.retries < MaxRetries
    /\ Become([replay EXCEPT !.flush.retries = @ + 1])
    /\ Quietly

(* triggerUserActivity *)
TriggerUserActivity(q, s) ==
    LET r == [q EXCEPT !.userIdle = FALSE]
    IN IF r.recording THEN UpdateSessionActivity(CheckAndHandle(r, s))
       ELSE IF SessionIsValid(r) THEN Resume(r)
       ELSE CheckSession(r, s)

(* clicks and the like *)
UserActivity(s) == Become(TriggerUserActivity(replay, s)) /\ Quietly

(* updateUserActivity: keys *)
KeyPress ==
    /\ Become(UpdateSessionActivity([replay EXCEPT !.userIdle = FALSE]))
    /\ Quietly

(* the page is hidden: _doChangeToBackgroundTasks *)
Hide(s) ==
    /\ SessionIsValid(replay) /\ replay.mode = "session"
    /\ Become(FlushImmediate(replay, s))
    /\ Quietly

(* the page is shown: _doChangeToForegroundTasks *)
Show(s) ==
    /\ replay.session # NoSession
    /\ Become(CheckAndHandle(replay, s))
    /\ Quietly

(* handleGlobalEventListener: an error is sampled, which claims the buffered session *)
ErrorCaptured(s) ==
    /\ replay.enabled /\ ~replay.paused /\ replay.mode = "buffer" /\ "buffer" \in Samples
    /\ IF IsActive(replay)
       THEN /\ errors.sending + errors.sent < MaxWaiters
            /\ errors' = [errors EXCEPT !.sending = @ + 1]
            /\ Become(IF replay.session.sampled = "buffer"
                      THEN SaveSession([replay EXCEPT !.session.dirty = TRUE]) ELSE replay)
       ELSE Become(CheckAndHandle(replay, s)) /\ UNCHANGED errors
    /\ UNCHANGED <<reloads, history>>

(* the same for user feedback, which asks for a flush in either mode *)
FeedbackCaptured(timely, s) ==
    /\ replay.enabled /\ ~replay.paused
    /\ IF IsActive(replay)
       THEN AddBreadcrumb(TriggerUserActivity([replay EXCEPT !.timer = TRUE], s), timely)
       ELSE Become(CheckAndHandle(replay, s)) /\ Quietly

WaiterBound == Len(replay.flush.waiters) < MaxWaiters

(* handleAfterSendEvent: if the error arrived, a callback will convert the buffer *)
ErrorSent(arrived) ==
    /\ errors.sending > 0
    /\ errors' = [sending |-> errors.sending - 1,
                  sent |-> IF arrived /\ replay.enabled /\ replay.mode = "buffer"
                           THEN errors.sent + 1 ELSE errors.sent]
    /\ UNCHANGED <<replay, reloads, history>>

ErrorCallback(s) ==
    /\ errors.sent > 0 /\ WaiterBound
    /\ errors' = [errors EXCEPT !.sent = @ - 1]
    /\ Become(SendBufferedOrFlush(replay, TRUE, s))
    /\ UNCHANGED <<reloads, history>>

SessionBound == replay.replays < MaxReplays

(* start() *)
Start ==
    /\ ~replay.enabled /\ SessionBound
    /\ Become(InitializeRecording([LoadOrCreateSession([replay EXCEPT !.userIdle = FALSE], "session", FALSE)
                                     EXCEPT !.mode = "session"]))
    /\ Quietly

(* startBuffering() *)
StartBuffering ==
    /\ ~replay.enabled /\ SessionBound
    /\ Become(InitializeRecording([LoadOrCreateSession(replay, "buffer", FALSE) EXCEPT !.mode = "buffer"]))
    /\ Quietly

(* stop() of the integration, and the mutation limit: a session is flushed first *)
CallStop(s) ==
    LET stopping == StopNow(replay)
        flushed == CallFlush(stopping, TRUE, s)
    IN /\ replay.enabled /\ WaiterBound
       /\ Become(IF replay.mode = "buffer" THEN StopTail(stopping)
                 ELSE IF Waits(stopping, TRUE)
                      THEN [flushed EXCEPT !.flush.waiters = Append(@, "stop")]
                      ELSE StopTail(flushed))
       /\ Quietly

(* flush() of the integration; on a disabled replay it is start() *)
CallFlushApi(continue, s) ==
    /\ replay.enabled /\ WaiterBound
    /\ Become(SendBufferedOrFlush(replay, continue, s))
    /\ Quietly

(* the hook openFeedbackWidget, which does not ask whether the replay is enabled *)
FeedbackOpened(s) ==
    /\ WaiterBound
    /\ Become(SendBufferedOrFlush(replay, TRUE, s))
    /\ Quietly

(* Time passes: the user is idle for 5 minutes, the session for 15 or it is too old, it is not young *)
UserGoesIdle == ~replay.userIdle /\ Become([replay EXCEPT !.userIdle = TRUE]) /\ Quietly
SessionExpires(kind) ==
    /\ replay.expired = "no" /\ ~replay.young /\ SessionBound
    /\ Become([replay EXCEPT !.expired = kind])
    /\ Quietly
SessionGrows == replay.young /\ Become([replay EXCEPT !.young = FALSE]) /\ Quietly

(* The page is reloaded, and the SDK begins anew with what sessionStorage holds *)
Reload(s) ==
    /\ reloads < MaxReloads /\ SessionBound
    /\ reloads' = reloads + 1
    /\ errors' = [sending |-> 0, sent |-> 0]
    /\ Become(InitializeSampling(Loaded(replay.stored, replay.expired, replay.young, replay.replays), s, FALSE))
    /\ UNCHANGED history

Init ==
    /\ \E s \in SampleDecisions : replay = InitializeSampling(Loaded(NoSession, "no", FALSE, 0), s, FALSE)
    /\ errors = [sending |-> 0, sent |-> 0] /\ reloads = 0
    /\ recordedIn = [e \in Event |-> 0]
    /\ cut = {}

(* a flush that was begun goes on *)
FlushGoesOn ==
    \/ Prepared \/ DurationExceeded \/ Finished \/ FinishRejected
    \/ Sent \/ SendFailed \/ SendErred

Next ==
    \/ FlushGoesOn
    \/ Overflow \/ KeyPress \/ Start \/ StartBuffering
    \/ UserGoesIdle \/ SessionGrows
    \/ \E kind \in {"idle", "old"} : SessionExpires(kind)
    \/ \E b \in BOOLEAN :
         \/ ErrorSent(b) \/ Breadcrumb(b)
         \/ \E s \in SampleDecisions :
              FeedbackCaptured(b, s) \/ \E timely \in BOOLEAN : Emit(b, timely, s)
    \/ \E c \in ContinueRecording, s \in SampleDecisions : CallFlushApi(c, s)
    \/ \E s \in SampleDecisions :
         \/ UserActivity(s) \/ Hide(s) \/ Show(s) \/ FeedbackOpened(s)
         \/ ErrorCaptured(s) \/ ErrorCallback(s) \/ CallStop(s) \/ TimerFires(s) \/ Reload(s)

(* The timers of debounce fire, workers and requests answer, time passes *)
Fairness ==
    /\ WF_vars(\E s \in SampleDecisions : TimerFires(s))
    /\ WF_vars(FlushGoesOn)
    /\ WF_vars(SessionGrows)

Spec == Init /\ [][Next]_vars /\ Fairness

-----------------------------------------------------------------------------
(* Properties *)

Stream == INSTANCE SegmentStream WITH NoReplay <- 0

(* The flushes of _runFlush implement SegmentStream: whatever is refreshed, *)
(* stopped, started, reloaded or retried meanwhile, the segments of a       *)
(* replay are numbered 0, 1, 2, ... and carry its own events, in their      *)
(* order and none twice (replay.ts:1214-1229).                              *)
SegmentsAreAStream == Stream!Spec

(* sessionStorage holds the session as it is in memory, or a reload would   *)
(* use a segment number again (_maybeSaveSession, saveSession).             *)
StorageIsCurrent == StickySession /\ replay.enabled => replay.stored = replay.session

(* An event held for a session whose flush timer runs does not stay behind: *)
(* it is uploaded unless the replay is stopped, paused or expires, or the   *)
(* worker's buffer counts as empty though it is not (_flush, addUpdate).    *)
Uploads(r) == /\ r.enabled /\ ~r.paused /\ r.mode = "session"
              /\ r.expired = "no" /\ r.buffer.hasEvents
HeldEventsAreFlushed ==
    \A e \in Event :
        (Uploads(replay) /\ e \in replay.buffer.held /\ replay.timer)
            ~> (e \notin replay.buffer.held \/ ~Uploads(replay))

(* What triggerUserActivity takes for granted: an enabled replay that does  *)
(* not record is paused (replay.ts:665).  Calls of sendBufferedReplayOrFlush *)
(* that wait for one flush each stop the recorder (:602) before they look   *)
(* whether there is still a buffer to convert (:608-609).                   *)
DocRecordsUnlessPaused == replay.enabled /\ ~replay.paused => replay.recording
=============================================================================
