--------------------------- MODULE Replay_proofs ---------------------------
(* Proofs about Replay, for any numbers of events, sessions, reloads,       *)
(* waiting calls and retries, and whatever the samples allow.               *)
EXTENDS Replay, DataFacts, TLAPS

(* What the history h = <<recordedIn, cut>> says of one replay. *)
SegmentsIn(h, id) == {c \in h[2] : c.replay = id}
UnsentIn(h, id) ==
    {e \in Event : h[1][e] = id /\ \A c \in SegmentsIn(h, id) : \A d \in c.events : d < e}

(* A session's number of segments is that of the segments made for it, and *)
(* it is one of those created so far.                                      *)
Numbered(h, x, n) ==
    /\ x.id <= n
    /\ x.id = 0 => x = NoSession
    /\ x.segmentId = Cardinality(SegmentsIn(h, x.id))

(* The history is about sessions created so far. *)
Past(h, n) ==
    /\ \A c \in h[2] : c.replay <= n
    /\ \A e \in Event : h[1][e] <= n

(* Only a session that may be replaced expires. *)
Replaceable(r) == r.expired # "no" => r.replays < MaxReplays

Stored(r) == IF StickySession THEN r.enabled => r.stored = r.session ELSE r.stored = NoSession

(* The buffer holds what was recorded for the session and is not yet sent. *)
Holds(h, b, x) ==
    IF b.exists THEN x # NoSession /\ b.held \subseteq UnsentIn(h, x.id) ELSE b.held = {}

Sound(h) ==
    {r \in Container : /\ Numbered(h, r.session, r.replays) /\ Numbered(h, r.stored, r.replays)
                       /\ Past(h, r.replays) /\ Replaceable(r) /\ Stored(r)}
Good(h) == {r \in Sound(h) : Holds(h, r.buffer, r.session)}

(* The segments are numbered without gaps, carry events of their replay,   *)
(* and events are recorded in their order.                                 *)
Segmented(h) ==
    /\ h[1] \in [Event -> 0 .. MaxReplays]
    /\ h[2] \in SUBSET Segment /\ IsFiniteSet(h[2])
    /\ \A c \in h[2] : /\ c.segment < Cardinality(SegmentsIn(h, c.replay))
                       /\ \A e \in c.events : h[1][e] = c.replay
    /\ \A e, d \in Event : h[1][e] # 0 /\ d <= e => h[1][d] # 0

(* No more callers wait than the bound allows. *)
FewErrors == errors \in [sending: 0 .. MaxWaiters, sent: 0 .. MaxWaiters] /\ errors.sending + errors.sent <= MaxWaiters

IInv == replay \in Good(history) /\ Segmented(history) /\ FewErrors /\ reloads \in 0 .. MaxReloads

-----------------------------------------------------------------------------
(* The container's fields *)

Sampling == {"session", "buffer", "no"}

LEMMA Fields ==
    ASSUME NEW r \in Container
    PROVE  /\ r.enabled \in BOOLEAN /\ r.mode \in {"session", "buffer"} /\ r.timer \in BOOLEAN
           /\ r.session \in Session /\ r.stored \in Session
           /\ r.buffer \in EventBuffer /\ r.flush \in Flush
           /\ r.expired \in {"no", "idle", "old"} /\ r.replays \in 0 .. MaxReplays
           /\ r.young \in BOOLEAN /\ r.userIdle \in BOOLEAN /\ r.leaked \in BOOLEAN
           /\ r.recording \in BOOLEAN /\ r.paused \in BOOLEAN /\ r.fresh \in BOOLEAN
  BY DEF Container

LEMMA Constants ==
    /\ NoSession \in Session /\ NoSession.id = 0 /\ NoSession.segmentId = 0
    /\ NoBuffer \in EventBuffer /\ ~NoBuffer.exists /\ NoBuffer.held = {}
    /\ NewBuffer \in EventBuffer /\ NewBuffer.exists /\ NewBuffer.held = {}
    /\ NoFlush \in Flush
    /\ SampleDecisions \subseteq Sampling
  <1>1. NoSession \in Session /\ NoSession.id = 0 /\ NoSession.segmentId = 0
    BY ReplayAssumption DEF NoSession, Session
  <1>2. NoBuffer \in EventBuffer /\ ~NoBuffer.exists /\ NoBuffer.held = {}
    BY DEF NoBuffer, EventBuffer
  <1>3. NewBuffer \in EventBuffer /\ NewBuffer.exists /\ NewBuffer.held = {}
    BY DEF NoBuffer, NewBuffer, EventBuffer
  <1>4. NoFlush \in Flush
    <2>1. <<>> \in Seq({"stop", "convert", "convertOnce"})
      OBVIOUS
    <2>2. 0 \in 0 .. MaxReplays /\ 0 \in 0 .. MaxRetries
      BY ReplayAssumption
    <2> QED
      BY <2>1, <2>2 DEF NoFlush, Flush
  <1>5. SampleDecisions \subseteq Sampling
    BY ReplayAssumption DEF SampleDecisions, Sampling
  <1> QED
    BY <1>1, <1>2, <1>3, <1>4, <1>5

(* What changes nothing that matters here. *)
Keeps(q, r) ==
    /\ q.session = r.session /\ q.stored = r.stored /\ q.replays = r.replays
    /\ q.enabled => r.enabled
    /\ q.expired # "no" => r.expired # "no"

LEMMA KeepsSound ==
    ASSUME NEW h, NEW r \in Sound(h), NEW q \in Container, Keeps(q, r)
    PROVE  q \in Sound(h)
  BY DEF Keeps, Sound, Replaceable, Stored

LEMMA KeepsGood ==
    ASSUME NEW h, NEW r \in Good(h), NEW q \in Container, Keeps(q, r),
           q.buffer.exists = r.buffer.exists, q.buffer.held = r.buffer.held
    PROVE  q \in Good(h)
  <1>1. q \in Sound(h)
    BY KeepsSound DEF Good
  <1> QED
    BY <1>1 DEF Good, Holds, Keeps

(* An empty buffer holds nothing that does not belong there. *)
LEMMA EmptyBufferGood ==
    ASSUME NEW h, NEW r \in Sound(h), r.buffer.held = {}, r.buffer.exists => r.session # NoSession
    PROVE  r \in Good(h)
  BY DEF Good, Holds

-----------------------------------------------------------------------------
(* The session *)

LEMMA SaveSessionFacts ==
    ASSUME NEW r \in Container
    PROVE  LET q == SaveSession(r)
           IN  /\ q \in Container
               /\ q.session = r.session /\ q.replays = r.replays /\ q.enabled = r.enabled
               /\ q.expired = r.expired /\ q.buffer = r.buffer
               /\ q.stored = IF StickySession THEN r.session ELSE r.stored
  <1>1. r.session \in Session
    BY Fields
  <1> QED
    BY <1>1 DEF SaveSession, Container

LEMMA SaveSessionSound ==
    ASSUME NEW h, NEW r \in Sound(h)
    PROVE  /\ SaveSession(r) \in Sound(h)
           /\ StickySession => SaveSession(r).stored = SaveSession(r).session
  <1> DEFINE q == SaveSession(r)
  <1>1. /\ q \in Container
        /\ q.session = r.session /\ q.replays = r.replays /\ q.enabled = r.enabled
        /\ q.expired = r.expired
        /\ q.stored = IF StickySession THEN r.session ELSE r.stored
    BY SaveSessionFacts DEF Sound
  <1> HIDE DEF q
  <1> QED
    BY <1>1 DEF Sound, Replaceable, Stored, q

LEMMA SaveSessionGood ==
    ASSUME NEW h, NEW r \in Good(h)
    PROVE  SaveSession(r) \in Good(h)
  <1>1. SaveSession(r) \in Sound(h)
    BY SaveSessionSound DEF Good
  <1>2. SaveSession(r).buffer = r.buffer /\ SaveSession(r).session = r.session
    BY SaveSessionFacts DEF Good, Sound
  <1> QED
    BY <1>1, <1>2 DEF Good

(* No segment was made for a session yet to come, and none for no session. *)
LEMMA NewId ==
    ASSUME NEW h, NEW n \in 0 .. MaxReplays, Past(h, n), Segmented(h)
    PROVE  /\ SegmentsIn(h, n + 1) = {} /\ SegmentsIn(h, 0) = {}
           /\ Cardinality({}) = 0
  <1>1. ASSUME NEW c \in h[2] PROVE c.replay # n + 1 /\ c.replay # 0
    <2>1. c.replay \in 1 .. MaxReplays /\ c.replay <= n
      BY DEF Past, Segmented, Segment, ReplayId
    <2> QED
      BY <2>1, ReplayAssumption
  <1> QED
    BY <1>1, FS_EmptySet DEF SegmentsIn

(* A session that is in use, and saved if it may be. *)
InUse(q) == q.session # NoSession /\ (StickySession => q.stored = q.session)

LEMMA CreateSessionSound ==
    ASSUME NEW h, Segmented(h), NEW r \in Sound(h), r.replays < MaxReplays,
           NEW s \in Sampling, NEW refreshed \in BOOLEAN
    PROVE  LET q == CreateSession(r, s, refreshed)
           IN  q \in Sound(h) /\ InUse(q) /\ q.buffer = r.buffer /\ q.enabled = r.enabled
  <1> DEFINE n == r.replays
             x == [NoSession EXCEPT !.id = n + 1, !.sampled = s, !.refreshed = refreshed]
             p == [r EXCEPT !.session = x, !.replays = n + 1, !.expired = "no", !.young = TRUE]
             q == SaveSession(p)
  <1>1. r \in Container /\ n \in 0 .. MaxReplays /\ Past(h, n)
    BY Fields DEF Sound
  <1>2. n + 1 \in 0 .. MaxReplays /\ n + 1 # 0 /\ n <= n + 1
    BY <1>1, ReplayAssumption
  <1>3. x \in Session /\ x.id = n + 1 /\ x.segmentId = 0 /\ x # NoSession
    <2>1. x.id = n + 1 /\ x.segmentId = 0
      BY DEF NoSession
    <2>2. x \in Session
      BY <1>2, Constants DEF NoSession, Session, Sampling
    <2> HIDE DEF x
    <2> QED
      BY <1>2, <2>1, <2>2, Constants
  <1> HIDE DEF x
  <1>4. /\ p \in Container
        /\ p.session = x /\ p.replays = n + 1 /\ p.expired = "no"
        /\ p.stored = r.stored /\ p.buffer = r.buffer /\ p.enabled = r.enabled
    BY <1>1, <1>2, <1>3 DEF Container
  <1> HIDE DEF p
  <1>5. /\ q \in Container
        /\ q.session = x /\ q.replays = n + 1 /\ q.enabled = r.enabled
        /\ q.expired = "no" /\ q.buffer = r.buffer
        /\ q.stored = IF StickySession THEN x ELSE r.stored
    <2>1. /\ q \in Container
          /\ q.session = p.session /\ q.replays = p.replays /\ q.enabled = p.enabled
          /\ q.expired = p.expired /\ q.buffer = p.buffer
          /\ q.stored = IF StickySession THEN p.session ELSE p.stored
      BY <1>4, SaveSessionFacts
    <2> HIDE DEF q
    <2> QED
      BY <1>4, <2>1
  <1> HIDE DEF n
  <1>6. Numbered(h, x, n + 1)
    <2>1. SegmentsIn(h, n + 1) = {} /\ Cardinality({}) = 0
      BY <1>1, NewId
    <2>2. x.id <= n + 1
      BY <1>1, <1>2, <1>3
    <2> QED
      BY <1>2, <1>3, <2>1, <2>2 DEF Numbered
  <1>7. Numbered(h, r.stored, n + 1)
    <2>1. Numbered(h, r.stored, n) /\ r.stored.id \in 0 .. MaxReplays
      BY <1>1, Fields DEF Sound, Session, n
    <2>2. r.stored.id <= n + 1
      BY <2>1, <1>1, <1>2, ReplayAssumption DEF Numbered
    <2> QED
      BY <2>1, <2>2 DEF Numbered
  <1>8. Past(h, n + 1)
    <2>1. ASSUME NEW c \in h[2] PROVE c.replay <= n + 1
      <3>1. c.replay <= n /\ c.replay \in 1 .. MaxReplays
        BY <1>1 DEF Past, Segmented, Segment, ReplayId
      <3> QED
        BY <3>1, <1>1
    <2>2. ASSUME NEW e \in Event PROVE h[1][e] <= n + 1
      <3>1. h[1][e] <= n /\ h[1][e] \in 0 .. MaxReplays
        BY <1>1 DEF Past, Segmented
      <3> QED
        BY <3>1, <1>1
    <2> QED
      BY <2>1, <2>2 DEF Past
  <1>9. q \in Sound(h)
    <2>1. Numbered(h, q.stored, n + 1)
      BY <1>5, <1>6, <1>7
    <2>2. Stored(q)
      <3>1. ~StickySession => r.stored = NoSession
        BY DEF Sound, Stored
      <3> QED
        BY <1>5, <3>1 DEF Stored
    <2> QED
      BY <1>5, <1>6, <1>8, <2>1, <2>2 DEF Sound, Replaceable
  <1>10. CreateSession(r, s, refreshed) = q
    BY <1>1, Fields DEF CreateSession, p, x, n, Container
  <1> HIDE DEF q
  <1> QED
    BY <1>3, <1>5, <1>9, <1>10 DEF InUse

LEMMA LoadOrCreateSound ==
    ASSUME NEW h, Segmented(h), NEW r \in Sound(h), r.replays < MaxReplays, ~r.enabled,
           NEW s \in Sampling, NEW refreshed \in BOOLEAN
    PROVE  LET q == LoadOrCreateSession(r, s, refreshed)
           IN  q \in Sound(h) /\ InUse(q) /\ q.buffer = r.buffer /\ ~q.enabled
  <1>1. CASE r.stored = NoSession
    BY <1>1, CreateSessionSound DEF LoadOrCreateSession
  <1>2. CASE r.stored # NoSession /\ ShouldRefresh(r, r.stored)
    BY <1>2, CreateSessionSound DEF LoadOrCreateSession
  <1>3. CASE r.stored # NoSession /\ ~ShouldRefresh(r, r.stored)
    <2> DEFINE q == [r EXCEPT !.session = r.stored]
    <2>1. /\ q \in Container
          /\ q.session = r.stored /\ q.stored = r.stored /\ q.replays = r.replays
          /\ q.enabled = r.enabled /\ q.expired = r.expired /\ q.buffer = r.buffer
      BY DEF Sound, Container
    <2>2. LoadOrCreateSession(r, s, refreshed) = q
      BY <1>3 DEF LoadOrCreateSession
    <2> HIDE DEF q
    <2>3. q \in Sound(h)
      BY <2>1 DEF Sound, Replaceable, Stored
    <2> QED
      BY <1>3, <2>1, <2>2, <2>3 DEF InUse
  <1> QED
    BY <1>1, <1>2, <1>3

LEMMA ActivityFacts ==
    ASSUME NEW h, NEW r \in Sound(h)
    PROVE  LET q == UpdateSessionActivity(r)
           IN  /\ q \in Sound(h)
               /\ q.session = r.session /\ q.buffer = r.buffer /\ q.enabled = r.enabled
               /\ InUse(r) => InUse(q)
  <1> DEFINE p == [r EXCEPT !.expired = IF r.expired = "idle" THEN "no" ELSE r.expired]
  <1>1. CASE r.session = NoSession
    BY <1>1 DEF UpdateSessionActivity, InUse
  <1>2. CASE r.session # NoSession
    <2>1. r \in Container /\ r.expired \in {"no", "idle", "old"}
      BY Fields DEF Sound
    <2>2. /\ p \in Container /\ Keeps(p, r)
          /\ p.session = r.session /\ p.buffer = r.buffer /\ p.enabled = r.enabled
      BY <2>1 DEF Container, Keeps
    <2>3. UpdateSessionActivity(r) = SaveSession(p)
      BY <1>2, <2>1 DEF UpdateSessionActivity, Container
    <2> HIDE DEF p
    <2>4. p \in Sound(h)
      BY <2>2, KeepsSound
    <2>5. /\ SaveSession(p) \in Sound(h)
          /\ SaveSession(p).session = r.session /\ SaveSession(p).buffer = r.buffer
          /\ SaveSession(p).enabled = r.enabled
      BY <2>2, <2>4, SaveSessionSound, SaveSessionFacts
    <2>6. StickySession => SaveSession(p).stored = SaveSession(p).session
      BY <2>4, SaveSessionSound
    <2> QED
      BY <2>3, <2>5, <2>6 DEF InUse
  <1> QED
    BY <1>1, <1>2

LEMMA ActivityGood ==
    ASSUME NEW h, NEW r \in Good(h)
    PROVE  UpdateSessionActivity(r) \in Good(h)
  <1>1. /\ UpdateSessionActivity(r) \in Sound(h)
        /\ UpdateSessionActivity(r).session = r.session /\ UpdateSessionActivity(r).buffer = r.buffer
    BY ActivityFacts DEF Good
  <1> QED
    BY <1>1 DEF Good

-----------------------------------------------------------------------------
(* Recording *)

LEMMA StartRecordingGood ==
    ASSUME NEW h, NEW r \in Good(h)
    PROVE  StartRecording(r) \in Good(h)
  <1>1. r \in Container
    BY DEF Good, Sound
  <1>2. /\ StartRecording(r) \in Container /\ Keeps(StartRecording(r), r)
        /\ StartRecording(r).buffer = r.buffer
    BY <1>1 DEF StartRecording, Container, Keeps
  <1> QED
    BY <1>2, KeepsGood

LEMMA StopRecordingGood ==
    ASSUME NEW h, NEW r \in Good(h)
    PROVE  StopRecording(r) \in Good(h)
  <1>1. r \in Container
    BY DEF Good, Sound
  <1>2. /\ StopRecording(r) \in Container /\ Keeps(StopRecording(r), r)
        /\ StopRecording(r).buffer = r.buffer
    BY <1>1 DEF StopRecording, Container, Keeps
  <1> QED
    BY <1>2, KeepsGood

(* A flush under way learns that its buffer was replaced or destroyed. *)
LEMMA FlushBufferType ==
    ASSUME NEW f \in Flush, NEW v \in {"live", "replaced", "destroyed"}
    PROVE  [f EXCEPT !.buffer = v] \in Flush /\ f.buffer \in {"live", "replaced", "destroyed"}
  BY DEF Flush

LEMMA InitializeRecordingGood ==
    ASSUME NEW h, NEW r \in Sound(h), InUse(r)
    PROVE  InitializeRecording(r) \in Good(h)
  <1> DEFINE u == UpdateSessionActivity(r)
             v == IF r.flush.stage = "finishing" /\ u.flush.buffer = "live"
                  THEN "replaced" ELSE u.flush.buffer
             f == [u.flush EXCEPT !.buffer = v]
             q == [u EXCEPT !.buffer = NewBuffer, !.flush = f, !.enabled = TRUE, !.paused = FALSE]
  <1>1. u \in Sound(h) /\ u \in Container /\ InUse(u)
    BY ActivityFacts DEF Sound
  <1>2. f \in Flush
    <2>1. u.flush \in Flush
      BY <1>1, Fields
    <2>2. u.flush.buffer \in {"live", "replaced", "destroyed"}
      BY <2>1 DEF Flush
    <2>3. v \in {"live", "replaced", "destroyed"}
      BY <2>2
    <2> HIDE DEF u, v
    <2> QED
      BY <2>1, <2>3, FlushBufferType
  <1>3. InitializeRecording(r) = StartRecording(q)
    <2> HIDE DEF u
    <2> QED
      BY <1>1 DEF InitializeRecording, Container, u
  <1> HIDE DEF u, v, f
  <1>4. /\ q \in Container
        /\ q.buffer = NewBuffer /\ q.session = u.session /\ q.stored = u.stored
        /\ q.replays = u.replays /\ q.expired = u.expired
    BY <1>1, <1>2, Constants DEF Container
  <1> HIDE DEF q
  <1>5. q \in Sound(h)
    BY <1>1, <1>4 DEF Sound, Replaceable, Stored, InUse
  <1>6. q \in Good(h)
    BY <1>1, <1>4, <1>5, Constants, EmptyBufferGood DEF InUse
  <1> QED
    BY <1>3, <1>6, StartRecordingGood

LEMMA RecordInModeGood ==
    ASSUME NEW h, NEW r \in Sound(h), InUse(r), NEW mode \in {"session", "buffer"}
    PROVE  InitializeRecording([r EXCEPT !.mode = mode]) \in Good(h)
  <1> DEFINE q == [r EXCEPT !.mode = mode]
  <1>1. /\ q \in Container /\ Keeps(q, r) /\ q.session = r.session /\ q.stored = r.stored
    BY DEF Sound, Container, Keeps
  <1> HIDE DEF q
  <1>2. q \in Sound(h) /\ InUse(q)
    BY <1>1, KeepsSound DEF InUse
  <1>3. InitializeRecording(q) \in Good(h)
    BY <1>2, InitializeRecordingGood
  <1> QED
    BY <1>3 DEF q

LEMMA InitializeSamplingGood ==
    ASSUME NEW h, Segmented(h), NEW r \in Good(h), r.replays < MaxReplays, ~r.enabled,
           r.buffer = NoBuffer, NEW s \in SampleDecisions, NEW refreshed \in BOOLEAN
    PROVE  InitializeSampling(r, s, refreshed) \in Good(h)
  <1> DEFINE loaded == LoadOrCreateSession(r, s, refreshed)
  <1>1. loaded \in Sound(h) /\ InUse(loaded) /\ loaded.buffer = NoBuffer
    <2>1. s \in Sampling /\ r \in Sound(h)
      BY Constants DEF Good
    <2> QED
      BY <2>1, LoadOrCreateSound
  <1>2. loaded \in Good(h)
    BY <1>1, Constants, EmptyBufferGood
  <1> QED
    BY <1>1, <1>2, RecordInModeGood DEF InitializeSampling

-----------------------------------------------------------------------------
(* Stopping, pausing and refreshing *)

LEMMA StopNowGood ==
    ASSUME NEW h, NEW r \in Good(h)
    PROVE  /\ StopNow(r) \in Good(h) /\ ~StopNow(r).enabled
           /\ StopNow(r).session = r.session /\ StopNow(r).replays = r.replays
           /\ StopNow(r).expired = r.expired
  <1>1. r \in Container
    BY DEF Good, Sound
  <1>2. /\ StopNow(r) \in Container /\ Keeps(StopNow(r), r) /\ ~StopNow(r).enabled
        /\ StopNow(r).buffer = r.buffer /\ StopNow(r).expired = r.expired
    BY <1>1 DEF StopNow, StopRecording, Container, Keeps
  <1> QED
    BY <1>2, KeepsGood DEF Keeps

LEMMA StopTailGood ==
    ASSUME NEW h, NEW r \in Good(h), Segmented(h)
    PROVE  /\ StopTail(r) \in Good(h) /\ StopTail(r).buffer = NoBuffer
           /\ StopTail(r).enabled = r.enabled /\ StopTail(r).replays = r.replays
  <1> DEFINE v == IF r.flush.stage = "finishing" /\ r.flush.buffer = "live"
                  THEN "destroyed" ELSE r.flush.buffer
             f == [r.flush EXCEPT !.buffer = v]
             q == [r EXCEPT !.buffer = NoBuffer, !.session = NoSession, !.stored = NoSession, !.flush = f]
  <1>1. r \in Container /\ r \in Sound(h)
    BY DEF Good, Sound
  <1>2. f \in Flush
    <2>1. r.flush \in Flush
      BY <1>1, Fields
    <2>2. r.flush.buffer \in {"live", "replaced", "destroyed"}
      BY <2>1 DEF Flush
    <2>3. v \in {"live", "replaced", "destroyed"}
      BY <2>2
    <2> HIDE DEF v
    <2> QED
      BY <2>1, <2>3, FlushBufferType
  <1>3. StopTail(r) = q
    BY <1>1 DEF StopTail, Container
  <1> HIDE DEF v, f
  <1>4. /\ q \in Container
        /\ q.buffer = NoBuffer /\ q.session = NoSession /\ q.stored = NoSession
        /\ q.replays = r.replays /\ q.expired = r.expired /\ q.enabled = r.enabled
    BY <1>1, <1>2, Constants DEF Container
  <1> HIDE DEF q
  <1>5. Numbered(h, NoSession, r.replays)
    <2>1. r.replays \in 0 .. MaxReplays /\ Past(h, r.replays)
      BY <1>1, Fields DEF Sound
    <2>2. SegmentsIn(h, 0) = {} /\ Cardinality({}) = 0
      BY <2>1, NewId
    <2>3. 0 <= r.replays
      BY <2>1, ReplayAssumption
    <2> QED
      BY <2>2, <2>3, Constants DEF Numbered
  <1>6. q \in Sound(h)
    BY <1>1, <1>4, <1>5 DEF Sound, Replaceable, Stored
  <1>7. q \in Good(h)
    BY <1>4, <1>6, Constants, EmptyBufferGood
  <1> QED
    BY <1>3, <1>4, <1>7

LEMMA StopGood ==
    ASSUME NEW h, NEW r \in Good(h), Segmented(h)
    PROVE  /\ Stop(r) \in Good(h) /\ ~Stop(r).enabled /\ Stop(r).replays = r.replays
           /\ r.enabled => Stop(r).buffer = NoBuffer
  <1>1. CASE r.enabled
    <2>1. StopNow(r) \in Good(h) /\ ~StopNow(r).enabled /\ StopNow(r).replays = r.replays
      BY StopNowGood
    <2> QED
      BY <1>1, <2>1, StopTailGood DEF Stop
  <1>2. CASE ~r.enabled
    BY <1>2 DEF Stop
  <1> QED
    BY <1>1, <1>2

LEMMA PauseGood ==
    ASSUME NEW h, NEW r \in Good(h)
    PROVE  Pause(r) \in Good(h)
  <1> DEFINE p == StopRecording(r)
             q == [p EXCEPT !.paused = TRUE]
  <1>1. p \in Good(h) /\ p \in Container
    BY StopRecordingGood DEF Good, Sound
  <1> HIDE DEF p
  <1>2. q \in Container /\ Keeps(q, p) /\ q.buffer = p.buffer
    BY <1>1 DEF Container, Keeps
  <1>3. q \in Good(h)
    BY <1>1, <1>2, KeepsGood
  <1> QED
    BY <1>3 DEF Pause, p

LEMMA ResumeGood ==
    ASSUME NEW h, NEW r \in Good(h)
    PROVE  Resume(r) \in Good(h)
  <1> DEFINE q == [r EXCEPT !.paused = FALSE]
  <1>1. r \in Container
    BY DEF Good, Sound
  <1>2. q \in Container /\ Keeps(q, r) /\ q.buffer = r.buffer
    BY <1>1 DEF Container, Keeps
  <1>3. q \in Good(h)
    BY <1>2, KeepsGood
  <1> QED
    BY <1>3, StartRecordingGood DEF Resume

LEMMA RefreshSessionGood ==
    ASSUME NEW h, Segmented(h), NEW r \in Good(h), r.replays < MaxReplays, NEW s \in SampleDecisions
    PROVE  RefreshSession(r, s) \in Good(h)
  <1>1. CASE r.enabled
    <2>1. /\ Stop(r) \in Good(h) /\ ~Stop(r).enabled /\ Stop(r).replays < MaxReplays
          /\ Stop(r).buffer = NoBuffer
      BY <1>1, StopGood
    <2> QED
      BY <1>1, <2>1, InitializeSamplingGood DEF RefreshSession
  <1>2. CASE ~r.enabled
    BY <1>2 DEF RefreshSession
  <1> QED
    BY <1>1, <1>2

LEMMA CheckSessionGood ==
    ASSUME NEW h, Segmented(h), NEW r \in Good(h), NEW s \in SampleDecisions
    PROVE  CheckSession(r, s) \in Good(h)
  <1>1. CASE r.session = NoSession \/ SessionIsValid(r)
    BY <1>1 DEF CheckSession
  <1>2. CASE ~(r.session = NoSession \/ SessionIsValid(r))
    <2>1. r.replays < MaxReplays
      BY <1>2 DEF SessionIsValid, ShouldRefresh, Good, Sound, Replaceable
    <2> QED
      BY <1>2, <2>1, RefreshSessionGood DEF CheckSession
  <1> QED
    BY <1>1, <1>2

LEMMA CheckAndHandleGood ==
    ASSUME NEW h, Segmented(h), NEW r \in Good(h), NEW s \in SampleDecisions
    PROVE  CheckAndHandle(r, s) \in Good(h)
  BY CheckSessionGood, PauseGood DEF CheckAndHandle

-----------------------------------------------------------------------------
(* Flushing *)

LEMMA CallFlushGood ==
    ASSUME NEW h, Segmented(h), NEW r \in Good(h), NEW force \in BOOLEAN, NEW s \in SampleDecisions
    PROVE  CallFlush(r, force, s) \in Good(h)
  <1> DEFINE f == IF ~Waits(r, force) THEN r.flush
                  ELSE IF r.flush.stage = "none"
                       THEN [NoFlush EXCEPT !.stage = "preparing", !.replayId = r.session.id]
                       ELSE [r.flush EXCEPT !.again = TRUE]
             q == [r EXCEPT !.timer = r.young, !.flush = f]
  <1>1. r \in Container /\ r.flush \in Flush /\ r.session.id \in 0 .. MaxReplays /\ r.young \in BOOLEAN
    BY Fields DEF Good, Sound, Session
  <1>2. f \in Flush
    <2>1. [NoFlush EXCEPT !.stage = "preparing", !.replayId = r.session.id] \in Flush
      BY <1>1, Constants DEF Flush
    <2>2. [r.flush EXCEPT !.again = TRUE] \in Flush
      BY <1>1 DEF Flush
    <2> QED
      BY <1>1, <2>1, <2>2
  <1>3. CallFlush(r, force, s) = IF ~r.enabled /\ ~force THEN r
                                 ELSE IF ~IsActive(r) THEN CheckAndHandle(r, s) ELSE q
    BY <1>1 DEF CallFlush, Container
  <1> HIDE DEF f
  <1>4. q \in Container /\ Keeps(q, r) /\ q.buffer = r.buffer
    BY <1>1, <1>2 DEF Container, Keeps
  <1>5. q \in Good(h)
    BY <1>4, KeepsGood
  <1> HIDE DEF q
  <1> QED
    BY <1>3, <1>5, CheckAndHandleGood

LEMMA TimerGood ==
    ASSUME NEW h, NEW r \in Good(h), NEW b \in BOOLEAN
    PROVE  [r EXCEPT !.timer = b] \in Good(h)
  <1> DEFINE q == [r EXCEPT !.timer = b]
  <1>1. r \in Container
    BY DEF Good, Sound
  <1>2. q \in Container /\ Keeps(q, r) /\ q.buffer = r.buffer
    BY <1>1 DEF Container, Keeps
  <1> QED
    BY <1>2, KeepsGood

LEMMA FlushImmediateGood ==
    ASSUME NEW h, Segmented(h), NEW r \in Good(h), NEW s \in SampleDecisions
    PROVE  FlushImmediate(r, s) \in Good(h)
  BY TimerGood, CallFlushGood DEF FlushImmediate

(* An error claims the session, or a conversion gives it back. *)
LEMMA MarkGood ==
    ASSUME NEW h, NEW r \in Good(h), r.session # NoSession, NEW d \in BOOLEAN
    PROVE  LET q == [r EXCEPT !.session = [r.session EXCEPT !.dirty = d]]
           IN  /\ SaveSession(q) \in Good(h) /\ q.session # NoSession
  <1> DEFINE x == [r.session EXCEPT !.dirty = d]
             q == [r EXCEPT !.session = x]
  <1>1. r \in Container /\ r \in Sound(h) /\ r.session \in Session
    BY Fields DEF Good, Sound
  <1>2. x \in Session /\ x.id = r.session.id /\ x.segmentId = r.session.segmentId
    BY <1>1 DEF Session
  <1>3. x # NoSession
    BY <1>1, <1>2, Constants DEF Sound, Numbered
  <1> HIDE DEF x
  <1>4. /\ q \in Container
        /\ q.session = x /\ q.stored = r.stored /\ q.replays = r.replays
        /\ q.enabled = r.enabled /\ q.expired = r.expired /\ q.buffer = r.buffer
    BY <1>1, <1>2 DEF Container
  <1> HIDE DEF q
  <1>5. /\ SaveSession(q) \in Container
        /\ SaveSession(q).session = x /\ SaveSession(q).replays = r.replays
        /\ SaveSession(q).expired = r.expired /\ SaveSession(q).buffer = r.buffer
        /\ SaveSession(q).stored = IF StickySession THEN x ELSE r.stored
    BY <1>4, SaveSessionFacts
  <1>6. Numbered(h, x, r.replays)
    BY <1>1, <1>2, <1>3 DEF Numbered, Sound
  <1>7. SaveSession(q) \in Sound(h)
    BY <1>1, <1>5, <1>6 DEF Sound, Stored, Replaceable
  <1>8. Holds(h, r.buffer, x)
    BY <1>2, <1>3 DEF Good, Holds
  <1> QED
    BY <1>3, <1>4, <1>5, <1>7, <1>8 DEF Good, q, x

LEMMA ConvertGood ==
    ASSUME NEW h, NEW r \in Good(h), NEW continue \in BOOLEAN
    PROVE  Convert(r, continue) \in Good(h)
  <1> DEFINE stopped == StopRecording(r)
             x == [stopped.session EXCEPT !.dirty = FALSE]
             p == [stopped EXCEPT !.mode = "session", !.userIdle = FALSE,
                                  !.expired = IF stopped.expired = "idle" THEN "no" ELSE stopped.expired]
             u == [stopped EXCEPT !.mode = "session", !.session = x, !.userIdle = FALSE]
             m == [stopped EXCEPT !.mode = "session"]
  <1>1. stopped \in Good(h) /\ stopped \in Container
    BY StopRecordingGood DEF Good, Sound
  <1>2. Convert(r, continue) =
           IF ~continue \/ r.mode = "session" THEN stopped
           ELSE StartRecording(IF r.session = NoSession THEN m ELSE UpdateSessionActivity(u))
    <2> HIDE DEF stopped
    <2>1. [stopped EXCEPT !.mode = "session", !.session.dirty = FALSE, !.userIdle = FALSE] = u
      BY <1>1 DEF Container
    <2> HIDE DEF u, m
    <2> QED
      BY <2>1 DEF Convert, stopped, m
  <1>3. stopped.session = r.session
    BY DEF StopRecording, Container, Good, Sound
  <1> HIDE DEF stopped
  <1>4. m \in Good(h)
    <2>1. m \in Container /\ Keeps(m, stopped) /\ m.buffer = stopped.buffer
      BY <1>1 DEF Container, Keeps
    <2> QED
      BY <1>1, <2>1, KeepsGood
  <1>5. ASSUME r.session # NoSession PROVE UpdateSessionActivity(u) \in Good(h)
    <2>1. stopped.expired \in {"no", "idle", "old"} /\ stopped.session \in Session
      BY <1>1, Fields
    <2>2. p \in Container /\ Keeps(p, stopped) /\ p.buffer = stopped.buffer /\ p.session = stopped.session
      BY <1>1, <2>1 DEF Container, Keeps
    <2>3. p \in Good(h)
      BY <1>1, <2>2, KeepsGood
    <2>4. /\ SaveSession([p EXCEPT !.session = [p.session EXCEPT !.dirty = FALSE]]) \in Good(h)
          /\ [p EXCEPT !.session = [p.session EXCEPT !.dirty = FALSE]].session # NoSession
      <3> HIDE DEF p
      <3> QED
        BY <1>3, <1>5, <2>2, <2>3, MarkGood
    <2>5. p.session = stopped.session
      BY <2>2
    <2>6. x \in Session
      BY <2>1 DEF Session
    <2> HIDE DEF x
    <2>7. /\ [p EXCEPT !.session = x] = [u EXCEPT !.expired = IF u.expired = "idle" THEN "no" ELSE u.expired]
          /\ [p EXCEPT !.session = x].session = u.session
      BY <1>1, <2>6 DEF Container
    <2>8. UpdateSessionActivity(u) = SaveSession([p EXCEPT !.session = x])
      <3>1. u.session # NoSession
        BY <2>4, <2>5, <2>7 DEF x
      <3>2. [u EXCEPT !.expired = IF @ = "idle" THEN "no" ELSE @] =
            [u EXCEPT !.expired = IF u.expired = "idle" THEN "no" ELSE u.expired]
        BY <1>1, <2>6 DEF Container
      <3> HIDE DEF u, p
      <3> QED
        BY <2>7, <3>1, <3>2 DEF UpdateSessionActivity
    <2> HIDE DEF p, u
    <2> QED
      BY <2>4, <2>5, <2>8 DEF x
  <1> HIDE DEF m, u
  <1> QED
    BY <1>1, <1>2, <1>4, <1>5, StartRecordingGood

LEMMA FlushChangeGood ==
    ASSUME NEW h, NEW r \in Good(h), NEW f \in Flush
    PROVE  [r EXCEPT !.flush = f] \in Good(h)
  <1> DEFINE q == [r EXCEPT !.flush = f]
  <1>1. r \in Container
    BY DEF Good, Sound
  <1>2. q \in Container /\ Keeps(q, r) /\ q.buffer = r.buffer
    BY <1>1 DEF Container, Keeps
  <1> QED
    BY <1>2, KeepsGood

(* One more call waits for the flush. *)
LEMMA WaiterGood ==
    ASSUME NEW h, NEW r \in Good(h), NEW w \in {"stop", "convert", "convertOnce"}
    PROVE  [r EXCEPT !.flush.waiters = Append(@, w)] \in Good(h)
  <1> DEFINE l == Append(r.flush.waiters, w)
             f == [r.flush EXCEPT !.waiters = l]
  <1>1. r \in Container /\ r.flush \in Flush
    BY Fields DEF Good, Sound
  <1>2. l \in Seq({"stop", "convert", "convertOnce"})
    <2>1. r.flush.waiters \in Seq({"stop", "convert", "convertOnce"})
      BY <1>1 DEF Flush
    <2> QED
      BY <2>1, PushFacts
  <1>3. [r EXCEPT !.flush.waiters = Append(@, w)] = [r EXCEPT !.flush = f]
    BY <1>1 DEF Container
  <1> HIDE DEF l
  <1>4. f \in Flush
    BY <1>1, <1>2 DEF Flush
  <1> QED
    BY <1>3, <1>4, FlushChangeGood

LEMMA SendBufferedOrFlushGood ==
    ASSUME NEW h, Segmented(h), NEW r \in Good(h), NEW continue \in BOOLEAN, NEW s \in SampleDecisions
    PROVE  SendBufferedOrFlush(r, continue, s) \in Good(h)
  <1>1. FlushImmediate(r, s) \in Good(h)
    BY FlushImmediateGood
  <1>2. \A w \in {"stop", "convert", "convertOnce"} :
            [FlushImmediate(r, s) EXCEPT !.flush.waiters = Append(@, w)] \in Good(h)
    BY <1>1, WaiterGood
  <1>3. Convert(FlushImmediate(r, s), continue) \in Good(h)
    BY <1>1, ConvertGood
  <1>4. [FlushImmediate(r, s) EXCEPT !.flush.waiters = Append(@, IF continue THEN "convert" ELSE "convertOnce")]
            \in Good(h)
    BY <1>2
  <1> QED
    BY <1>1, <1>3, <1>4 DEF SendBufferedOrFlush

-----------------------------------------------------------------------------
(* The lock is released: a fold over the calls that wait. *)

Waiter == {"stop", "convert", "convertOnce"}
GoesOn(q, waiter) == IF waiter = "stop" THEN StopTail(q) ELSE Convert(q, waiter = "convert")

ReleaseRule(g, r, l) ==
    [s \in SUBSET DOMAIN l |-> IF s = {} THEN r ELSE GoesOn(g[s \ {Max(s)}], l[Max(s)])]
Release(r, l) == CHOOSE g : g = ReleaseRule(g, r, l)

LEMMA EndFlushIsFold ==
    ASSUME NEW r
    PROVE  EndFlush(r) = Release([r EXCEPT !.flush = NoFlush, !.timer = @ \/ r.flush.again],
                                 r.flush.waiters)[DOMAIN r.flush.waiters]
  BY DEF EndFlush, FoldLeft, MapThenFoldSet, Release, ReleaseRule, GoesOn

LEMMA GoesOnGood ==
    ASSUME NEW h, Segmented(h), NEW r \in Good(h), NEW w \in Waiter
    PROVE  GoesOn(r, w) \in Good(h)
  BY StopTailGood, ConvertGood DEF GoesOn

LEMMA ReleaseGood ==
    ASSUME NEW h, Segmented(h), NEW r \in Good(h), NEW l \in Seq(Waiter)
    PROVE  Release(r, l)[DOMAIN l] \in Good(h)
  <1> DEFINE N == Len(l)
             D == 1..N
             V == Good(h)
             f == Release(r, l)
             H == [p \in D \X V |-> GoesOn(p[2], l[p[1]])]
  <1>1. N \in Nat /\ DOMAIN l = D /\ \A n \in D : l[n] \in Waiter
    <2>1. N \in Nat /\ DOMAIN l = D
      BY LenProperties
    <2>2. \A n \in D : l[n] \in Waiter
      BY ElementOfSeq
    <2> QED
      BY <2>1, <2>2
  <1>2. \A n \in D, u \in V : H[<<n, u>>] = GoesOn(u, l[n])
    OBVIOUS
  <1>3. H \in [D \X V -> V]
    <2>1. \A n \in D, u \in V : GoesOn(u, l[n]) \in V
      BY <1>1, GoesOnGood
    <2> HIDE DEF V
    <2> QED
      BY <2>1
  <1> HIDE DEF N, H, V
  <1>4. r \in V
    BY DEF V
  <1>5. PICK g : g \in [SUBSET D -> V] /\ TakesLastOff(g, D, V, r, H)
    <2> HIDE DEF D
    <2>1. N \in Nat /\ D = 1..N /\ H \in [D \X V -> V]
      BY <1>1, <1>3 DEF D
    <2> QED
      BY <1>4, <2>1, FoldExists
  <1>6. \A s \in SUBSET D : s # {} => Max(s) \in D /\ s \ {Max(s)} \in SUBSET D
    BY <1>1, MaxOfIndexes
  <1>7. g = ReleaseRule(g, r, l)
    <2>1. \A s \in SUBSET D : g[s] = IF s = {} THEN r ELSE GoesOn(g[s \ {Max(s)}], l[Max(s)])
      BY <1>2, <1>5, <1>6 DEF TakesLastOff
    <2> QED
      BY <1>1, <1>5, <2>1 DEF ReleaseRule
  <1>8. f = ReleaseRule(f, r, l)
    BY <1>7 DEF Release
  <1> HIDE DEF f
  <1>9. \A s \in SUBSET D : f[s] = IF s = {} THEN r ELSE GoesOn(f[s \ {Max(s)}], l[Max(s)])
    BY <1>1, <1>8 DEF ReleaseRule
  <1>10. TakesLastOff(f, D, V, r, H)
    <2>1. \A s \in SUBSET D : s # {} /\ f[s \ {Max(s)}] \in V =>
            f[s] = H[<<Max(s), f[s \ {Max(s)}]>>]
      BY <1>2, <1>6, <1>9
    <2>2. f[{}] = r
      BY <1>9
    <2> QED
      BY <2>1, <2>2 DEF TakesLastOff
  <1>11. \A n \in 0..N : f[1..n] \in V
    <2> HIDE DEF D
    <2>1. N \in Nat /\ D = 1..N /\ H \in [D \X V -> V]
      BY <1>1, <1>3 DEF D
    <2>2. StepByStep(f, N, V, r, H)
      BY <1>4, <1>10, <2>1, FoldSteps
    <2> QED
      BY <2>1, <2>2 DEF StepByStep
  <1> QED
    BY <1>1, <1>11 DEF f, V

LEMMA EndFlushGood ==
    ASSUME NEW h, Segmented(h), NEW r \in Good(h)
    PROVE  EndFlush(r) \in Good(h)
  <1> DEFINE t == r.timer \/ r.flush.again
             p == [r EXCEPT !.flush = NoFlush]
             q == [p EXCEPT !.timer = t]
  <1>1. r \in Container /\ r.flush \in Flush /\ r.timer \in BOOLEAN
    BY Fields DEF Good, Sound
  <1>2. r.flush.waiters \in Seq(Waiter) /\ r.flush.again \in BOOLEAN
    BY <1>1 DEF Flush, Waiter
  <1>3. [r EXCEPT !.flush = NoFlush, !.timer = @ \/ r.flush.again] = q
    BY <1>1 DEF Container
  <1>4. t \in BOOLEAN
    BY <1>1, <1>2
  <1> HIDE DEF t
  <1>5. p \in Good(h)
    BY Constants, FlushChangeGood
  <1> HIDE DEF p
  <1>6. q \in Good(h)
    BY <1>4, <1>5, TimerGood
  <1> HIDE DEF q
  <1> QED
    BY <1>2, <1>3, <1>6, EndFlushIsFold, ReleaseGood

LEMMA FailFlushGood ==
    ASSUME NEW h, Segmented(h), NEW r \in Good(h)
    PROVE  FailFlush(r) \in Good(h)
  BY StopGood, EndFlushGood DEF FailFlush

-----------------------------------------------------------------------------
(* An event is recorded *)

(* Events are recorded in their order, and e is next. *)
NextIn(h, e) == \A d \in Event : h[1][d] # 0 <=> d < e
Added(h, e, id) == <<[h[1] EXCEPT ![e] = id], h[2]>>

LEMMA NewEventIsNext ==
    ASSUME Segmented(history), MayRecord
    PROVE  NewEvent \in Event /\ NextIn(history, NewEvent)
  <1> DEFINE free == Event \ Recorded
  <1>1. Event \in SUBSET Nat /\ free \in SUBSET Nat /\ free # {}
    BY ReplayAssumption DEF Event, MayRecord, Recorded
  <1>2. \E e \in free : \A d \in free : e <= d
    <2> HIDE DEF free
    <2> QED
      BY <1>1, LeastNatural
  <1>3. NewEvent \in free /\ \A d \in free : NewEvent <= d
    BY <1>2 DEF NewEvent
  <1>4. ASSUME NEW d \in Event PROVE recordedIn[d] # 0 <=> d < NewEvent
    <2>1. d \in Nat /\ NewEvent \in Nat /\ NewEvent \in Event /\ recordedIn[NewEvent] = 0
      BY <1>1, <1>3 DEF Recorded
    <2>2. ASSUME recordedIn[d] # 0 PROVE d < NewEvent
      <3>1. ~(NewEvent <= d)
        BY <2>1, <2>2 DEF Segmented, history
      <3> QED
        BY <2>1, <3>1
    <2>3. ASSUME d < NewEvent PROVE recordedIn[d] # 0
      <3>1. d \notin free
        BY <1>3, <2>1, <2>3
      <3> QED
        BY <3>1 DEF Recorded
    <2> QED
      BY <2>2, <2>3
  <1> QED
    BY <1>3, <1>4 DEF NextIn, history

LEMMA AddedHistory ==
    ASSUME NEW h, Segmented(h), NEW e \in Event, NextIn(h, e), NEW id \in ReplayId
    PROVE  LET k == Added(h, e, id)
           IN  /\ k[1] = [h[1] EXCEPT ![e] = id] /\ k[2] = h[2]
               /\ \A x : SegmentsIn(k, x) = SegmentsIn(h, x)
               /\ h[1][e] = 0 /\ k[1][e] = id
               /\ \A d \in Event : d # e => k[1][d] = h[1][d]
               /\ \A c \in h[2] : c.replay # 0 /\ c.events \subseteq Event
               /\ id # 0
  <1>1. h[1] \in [Event -> 0 .. MaxReplays] /\ e \in Nat
    BY ReplayAssumption DEF Segmented, Event
  <1>2. h[1][e] = 0
    BY <1>1 DEF NextIn
  <1>3. \A c \in h[2] : c.replay # 0 /\ c.events \subseteq Event
    BY ReplayAssumption DEF Segmented, Segment, ReplayId
  <1>4. id # 0
    BY ReplayAssumption DEF ReplayId
  <1> QED
    BY <1>1, <1>2, <1>3, <1>4 DEF Added, SegmentsIn

LEMMA AddedIsSegmented ==
    ASSUME NEW h, Segmented(h), NEW e \in Event, NextIn(h, e), NEW id \in ReplayId
    PROVE  Segmented(Added(h, e, id))
  <1> DEFINE k == Added(h, e, id)
  <1>1. /\ k[1] = [h[1] EXCEPT ![e] = id] /\ k[2] = h[2]
        /\ \A x : SegmentsIn(k, x) = SegmentsIn(h, x)
        /\ h[1][e] = 0 /\ k[1][e] = id
        /\ \A d \in Event : d # e => k[1][d] = h[1][d]
        /\ \A c \in h[2] : c.replay # 0 /\ c.events \subseteq Event
        /\ id # 0
    BY AddedHistory
  <1> HIDE DEF k
  <1>2. k[1] \in [Event -> 0 .. MaxReplays]
    BY <1>1, ReplayAssumption DEF Segmented, ReplayId
  <1>3. \A c \in k[2] : /\ c.segment < Cardinality(SegmentsIn(k, c.replay))
                        /\ \A d \in c.events : k[1][d] = c.replay
    <2> SUFFICES ASSUME NEW c \in h[2]
                 PROVE  /\ c.segment < Cardinality(SegmentsIn(k, c.replay))
                        /\ \A d \in c.events : k[1][d] = c.replay
      BY <1>1
    <2>1. c.segment < Cardinality(SegmentsIn(h, c.replay)) /\ \A d \in c.events : h[1][d] = c.replay
      BY DEF Segmented
    <2> QED
      BY <1>1, <2>1
  <1>4. ASSUME NEW x \in Event, NEW d \in Event, k[1][x] # 0, d <= x PROVE k[1][d] # 0
    <2>1. d \in Nat /\ x \in Nat /\ e \in Nat
      BY ReplayAssumption DEF Event
    <2>2. CASE x = e /\ d # e
      BY <1>1, <1>4, <2>1, <2>2 DEF NextIn
    <2>3. CASE x # e /\ d # e
      BY <1>1, <1>4, <2>3 DEF Segmented
    <2> QED
      BY <1>1, <2>2, <2>3
  <1> QED
    BY <1>1, <1>2, <1>3, <1>4 DEF Segmented, k

LEMMA AddedIsUnsent ==
    ASSUME NEW h, Segmented(h), NEW e \in Event, NextIn(h, e), NEW id \in ReplayId
    PROVE  /\ e \in UnsentIn(Added(h, e, id), id)
           /\ \A x : x # 0 => UnsentIn(h, x) \subseteq UnsentIn(Added(h, e, id), x)
  <1> DEFINE k == Added(h, e, id)
  <1>1. /\ k[1] = [h[1] EXCEPT ![e] = id] /\ k[2] = h[2]
        /\ \A x : SegmentsIn(k, x) = SegmentsIn(h, x)
        /\ h[1][e] = 0 /\ k[1][e] = id
        /\ \A d \in Event : d # e => k[1][d] = h[1][d]
        /\ \A c \in h[2] : c.replay # 0 /\ c.events \subseteq Event
        /\ id # 0
    BY AddedHistory
  <1> HIDE DEF k
  <1>2. ASSUME NEW c \in SegmentsIn(h, id), NEW d \in c.events PROVE d < e
    <2>1. c \in h[2] /\ c.replay = id
      BY DEF SegmentsIn
    <2>2. d \in Event /\ h[1][d] = id
      BY <1>1, <2>1 DEF Segmented
    <2> QED
      BY <1>1, <2>2 DEF NextIn
  <1>3. e \in UnsentIn(k, id)
    BY <1>1, <1>2 DEF UnsentIn
  <1>4. ASSUME NEW x, x # 0 PROVE UnsentIn(h, x) \subseteq UnsentIn(k, x)
    BY <1>1, <1>4 DEF UnsentIn
  <1> QED
    BY <1>3, <1>4 DEF k

LEMMA AddedKeepsGood ==
    ASSUME NEW h, Segmented(h), NEW e \in Event, NextIn(h, e), NEW id \in ReplayId,
           NEW r \in Good(h), id <= r.replays
    PROVE  r \in Good(Added(h, e, id))
  <1> DEFINE k == Added(h, e, id)
  <1>1. /\ k[1] = [h[1] EXCEPT ![e] = id] /\ k[2] = h[2]
        /\ \A x : SegmentsIn(k, x) = SegmentsIn(h, x)
        /\ h[1][e] = 0 /\ k[1][e] = id
        /\ \A d \in Event : d # e => k[1][d] = h[1][d]
        /\ \A c \in h[2] : c.replay # 0 /\ c.events \subseteq Event
        /\ id # 0
    BY AddedHistory
  <1>2. \A x : x # 0 => UnsentIn(h, x) \subseteq UnsentIn(k, x)
    BY AddedIsUnsent
  <1> HIDE DEF k
  <1>3. Past(k, r.replays)
    BY <1>1 DEF Past, Good, Sound
  <1>4. Numbered(k, r.session, r.replays) /\ Numbered(k, r.stored, r.replays)
    BY <1>1 DEF Numbered, Good, Sound
  <1>5. r \in Sound(k)
    BY <1>3, <1>4 DEF Good, Sound
  <1>6. Holds(k, r.buffer, r.session)
    <2>1. r.session # NoSession => r.session.id # 0
      BY DEF Good, Sound, Numbered
    <2> QED
      BY <1>2, <2>1 DEF Good, Holds
  <1> QED
    BY <1>5, <1>6 DEF Good, k

(* The replay's id when its buffer accepts events. *)
LEMMA BufferHasSession ==
    ASSUME NEW h, NEW r \in Good(h), r.buffer.exists
    PROVE  r.session.id \in ReplayId /\ r.session.id <= r.replays /\ r.session # NoSession
  <1>1. r \in Container /\ r.session \in Session /\ r.session.id \in 0 .. MaxReplays
    BY Fields DEF Good, Sound, Session
  <1>2. r.session # NoSession /\ r.session.id # 0 /\ r.session.id <= r.replays
    BY DEF Good, Sound, Holds, Numbered
  <1> QED
    BY <1>1, <1>2, ReplayAssumption DEF ReplayId

LEMMA AddEventGood ==
    ASSUME NEW h, Segmented(h), NEW r \in Good(h), NEW e \in Event, NextIn(h, e),
           NEW checkout \in BOOLEAN, NEW timely \in BOOLEAN, Stores(r, checkout, timely)
    PROVE  AddEvent(r, e, checkout, timely) \in Good(Added(h, e, r.session.id))
  <1> DEFINE id == r.session.id
             k == Added(h, e, id)
             b == [r.buffer EXCEPT !.held = (IF checkout /\ r.mode = "buffer" THEN {} ELSE r.buffer.held) \cup {e},
                                   !.hasEvents = TRUE,
                                   !.waitForCheckout = r.buffer.waitForCheckout /\ ~checkout]
             q == [r EXCEPT !.buffer = b]
  <1>1. r \in Container /\ r.buffer \in EventBuffer /\ r.buffer.exists
    BY Fields DEF Good, Sound, Stores, Accepts
  <1>2. id \in ReplayId /\ id <= r.replays /\ r.session # NoSession
    BY <1>1, BufferHasSession
  <1>3. r \in Good(k) /\ e \in UnsentIn(k, id)
    BY <1>2, AddedKeepsGood, AddedIsUnsent
  <1>4. AddEvent(r, e, checkout, timely) = q
    BY <1>1 DEF AddEvent, Container, EventBuffer
  <1>5. b \in EventBuffer /\ b.exists /\ b.held \subseteq r.buffer.held \cup {e}
    BY <1>1 DEF EventBuffer
  <1> HIDE DEF b, k
  <1>6. q \in Container /\ Keeps(q, r) /\ q.buffer = b
    BY <1>1, <1>5 DEF Container, Keeps
  <1> HIDE DEF q
  <1>7. q \in Sound(k) /\ q.session = r.session
    BY <1>3, <1>6, KeepsSound DEF Good, Keeps
  <1>8. Holds(k, b, r.session)
    BY <1>1, <1>2, <1>3, <1>5 DEF Good, Holds
  <1> QED
    BY <1>4, <1>6, <1>7, <1>8 DEF Good, k

LEMMA AfterUpdateGood ==
    ASSUME NEW h, NEW r \in Good(h)
    PROVE  AfterUpdate(r) \in Good(h)
  BY TimerGood DEF AfterUpdate

(* The clocks go on, or start again. *)
LEMMA ClockGood ==
    ASSUME NEW h, NEW r \in Good(h), NEW young \in BOOLEAN, NEW expired \in {"no", "idle", "old"},
           expired # "no" => r.expired # "no" \/ r.replays < MaxReplays
    PROVE  [r EXCEPT !.young = young, !.expired = expired] \in Good(h)
  <1> DEFINE q == [r EXCEPT !.young = young, !.expired = expired]
  <1>1. r \in Container
    BY DEF Good, Sound
  <1>2. /\ q \in Container /\ q.session = r.session /\ q.stored = r.stored /\ q.replays = r.replays
        /\ q.enabled = r.enabled /\ q.expired = expired /\ q.buffer = r.buffer
    BY <1>1 DEF Container
  <1> HIDE DEF q
  <1> QED
    BY <1>2 DEF Good, Sound, Replaceable, Stored, q

LEMMA AfterCheckoutGood ==
    ASSUME NEW h, NEW r \in Good(h)
    PROVE  AfterCheckout(r) \in Good(h)
  <1> DEFINE t == IF r.expired = "old" THEN "no" ELSE r.expired
             q == [r EXCEPT !.young = TRUE, !.expired = t]
  <1>1. r \in Container /\ r.expired \in {"no", "idle", "old"}
    BY Fields DEF Good, Sound
  <1>2. [r EXCEPT !.young = TRUE, !.expired = IF @ = "old" THEN "no" ELSE @] = q
    BY <1>1 DEF Container
  <1>3. t \in {"no", "idle", "old"} /\ (t # "no" => r.expired # "no")
    BY <1>1
  <1> HIDE DEF t
  <1>4. q \in Good(h)
    BY <1>3, ClockGood
  <1> HIDE DEF q
  <1>5. SaveSession(q) \in Good(h)
    BY <1>4, SaveSessionGood
  <1>6. \A p \in Good(h) : [p EXCEPT !.timer = TRUE] \in Good(h)
    BY TimerGood
  <1> QED
    BY <1>2, <1>5, <1>6 DEF AfterCheckout

LEMMA NotFreshGood ==
    ASSUME NEW h, NEW r \in Good(h)
    PROVE  LET q == [r EXCEPT !.fresh = FALSE]
           IN  /\ q \in Good(h) /\ q.session = r.session
               /\ \A checkout, timely : Stores(q, checkout, timely) = Stores(r, checkout, timely)
  <1> DEFINE q == [r EXCEPT !.fresh = FALSE]
  <1>1. r \in Container
    BY DEF Good, Sound
  <1>2. /\ q \in Container /\ Keeps(q, r) /\ q.buffer = r.buffer
        /\ q.session = r.session /\ q.paused = r.paused /\ q.enabled = r.enabled
    BY <1>1 DEF Container, Keeps
  <1>3. q \in Good(h)
    BY <1>2, KeepsGood
  <1> HIDE DEF q
  <1> QED
    BY <1>2, <1>3 DEF Stores, Accepts, q

(* The history after a call that adds the event e, unless it is ignored. *)
After(h, r, e, stores) == IF stores THEN Added(h, e, r.session.id) ELSE h

LEMMA HandleEmitGood ==
    ASSUME NEW h, Segmented(h), NEW r \in Good(h), NEW e \in Event, NextIn(h, e),
           NEW checkout \in BOOLEAN, NEW timely \in BOOLEAN, NEW s \in SampleDecisions
    PROVE  HandleEmit(r, e, checkout, timely, s)
             \in Good(After(h, r, e, IsActive(r) /\ Stores(r, checkout, timely)))
  <1> DEFINE q == [r EXCEPT !.fresh = FALSE]
             added == AddEvent(q, e, checkout, timely)
  <1>1. q \in Good(h) /\ q.session = r.session /\ Stores(q, checkout, timely) = Stores(r, checkout, timely)
    BY NotFreshGood
  <1> HIDE DEF q
  <1>2. added \in Good(After(h, r, e, Stores(r, checkout, timely)))
    <2>1. CASE Stores(r, checkout, timely)
      BY <1>1, <2>1, AddEventGood DEF After
    <2>2. CASE ~Stores(r, checkout, timely)
      BY <1>1, <2>2 DEF After, AddEvent
    <2> QED
      BY <2>1, <2>2
  <1> HIDE DEF added
  <1>3. CASE ~IsActive(r)
    BY <1>3, CheckAndHandleGood DEF HandleEmit, After
  <1>4. CASE IsActive(r) /\ ~Accepts(r, timely)
    BY <1>1, <1>4 DEF HandleEmit, After, Stores, q
  <1>5. CASE IsActive(r) /\ Accepts(r, timely)
    <2>1. /\ AfterCheckout(added) \in Good(After(h, r, e, Stores(r, checkout, timely)))
          /\ AfterUpdate(added) \in Good(After(h, r, e, Stores(r, checkout, timely)))
      BY <1>2, AfterCheckoutGood, AfterUpdateGood
    <2>2. HandleEmit(r, e, checkout, timely, s) = IF checkout THEN AfterCheckout(added) ELSE AfterUpdate(added)
      BY <1>5 DEF HandleEmit, added, q
    <2> QED
      BY <1>5, <2>1, <2>2 DEF After
  <1> QED
    BY <1>3, <1>4, <1>5

LEMMA HandleOverflowGood ==
    ASSUME NEW h, Segmented(h), NEW r \in Good(h), r.buffer.exists
    PROVE  HandleOverflow(r) \in Good(h)
  <1> DEFINE b == [NewBuffer EXCEPT !.waitForCheckout = TRUE]
             q == [r EXCEPT !.buffer = b]
  <1>1. r \in Container /\ r.session # NoSession
    BY BufferHasSession DEF Good, Sound
  <1>2. b \in EventBuffer /\ b.exists /\ b.held = {}
    BY DEF NewBuffer, NoBuffer, EventBuffer
  <1> HIDE DEF b
  <1>3. q \in Container /\ Keeps(q, r) /\ q.buffer = b /\ q.session = r.session
    BY <1>1, <1>2 DEF Container, Keeps
  <1> HIDE DEF q
  <1>4. q \in Good(h)
    BY <1>1, <1>2, <1>3, KeepsSound, EmptyBufferGood DEF Good
  <1> QED
    BY <1>4, StopGood DEF HandleOverflow, q, b

-----------------------------------------------------------------------------
(* A segment is taken *)

Cutting(r) == [replay |-> r.flush.replayId, segment |-> r.session.segmentId, events |-> r.buffer.held]

(* The new segment is the session's next, and no other replay gets one. *)
LEMMA CuttingFacts ==
    ASSUME NEW h, Segmented(h), NEW r \in Good(h), ~Moved(r)
    PROVE  LET c == Cutting(r)
               id == r.session.id
               k == <<h[1], h[2] \cup {c}>>
           IN  /\ r.buffer.exists /\ id \in ReplayId /\ r.flush.replayId = id
               /\ c \in Segment /\ c.replay = id /\ c.events \subseteq UnsentIn(h, id)
               /\ c.segment = Cardinality(SegmentsIn(h, id)) /\ c.segment \in Nat
               /\ SegmentsIn(k, id) = SegmentsIn(h, id) \cup {c}
               /\ Cardinality(SegmentsIn(k, id)) = Cardinality(SegmentsIn(h, id)) + 1
               /\ \A x : x # id => SegmentsIn(k, x) = SegmentsIn(h, x)
  <1> DEFINE c == Cutting(r)
             id == r.session.id
             k == <<h[1], h[2] \cup {c}>>
             S == SegmentsIn(h, id)
  <1>1. r.buffer.exists /\ r.flush.replayId = id
    BY DEF Moved
  <1>2. id \in ReplayId /\ r.session # NoSession
    BY <1>1, BufferHasSession
  <1>3. r.session.segmentId = Cardinality(S) /\ r.buffer.held \subseteq UnsentIn(h, id)
    BY <1>1 DEF Good, Sound, Numbered, Holds
  <1>4. S \subseteq h[2] /\ IsFiniteSet(S)
    BY FS_Subset DEF Segmented, SegmentsIn
  <1>5. Cardinality(S) \in Nat
    BY <1>4, FS_CardinalityType
  <1>6. c \in Segment /\ c.replay = id /\ c.segment = Cardinality(S) /\ c.events = r.buffer.held
    BY <1>1, <1>2, <1>3, <1>5 DEF Cutting, Segment, UnsentIn
  <1>7. c \notin S
    <2>1. \A d \in S : d.segment < Cardinality(S)
      BY DEF Segmented, SegmentsIn
    <2> HIDE DEF c, S
    <2> QED
      BY <1>5, <1>6, <2>1
  <1> HIDE DEF c
  <1>8. SegmentsIn(k, id) = S \cup {c} /\ \A x : x # id => SegmentsIn(k, x) = SegmentsIn(h, x)
    BY <1>6 DEF SegmentsIn
  <1> HIDE DEF S, k
  <1>9. Cardinality(SegmentsIn(k, id)) = Cardinality(S) + 1
    BY <1>4, <1>7, <1>8, FS_AddElement
  <1> QED
    BY <1>1, <1>2, <1>3, <1>5, <1>6, <1>8, <1>9 DEF c, S, k

LEMMA CuttingIsSegmented ==
    ASSUME NEW h, Segmented(h), NEW r \in Good(h), ~Moved(r)
    PROVE  Segmented(<<h[1], h[2] \cup {Cutting(r)}>>)
  <1> DEFINE c == Cutting(r)
             id == r.session.id
             k == <<h[1], h[2] \cup {c}>>
  <1>1. /\ r.buffer.exists /\ id \in ReplayId /\ r.flush.replayId = id
        /\ c \in Segment /\ c.replay = id /\ c.events \subseteq UnsentIn(h, id)
        /\ c.segment = Cardinality(SegmentsIn(h, id)) /\ c.segment \in Nat
        /\ SegmentsIn(k, id) = SegmentsIn(h, id) \cup {c}
        /\ Cardinality(SegmentsIn(k, id)) = Cardinality(SegmentsIn(h, id)) + 1
        /\ \A x : x # id => SegmentsIn(k, x) = SegmentsIn(h, x)
    BY CuttingFacts
  <1>2. k[1] = h[1] /\ k[2] = h[2] \cup {c}
    OBVIOUS
  <1> HIDE DEF c, k, id
  <1>3. k[2] \in SUBSET Segment /\ IsFiniteSet(k[2])
    BY <1>1, <1>2, FS_AddElement DEF Segmented
  <1>4. ASSUME NEW d \in k[2]
        PROVE  d.segment < Cardinality(SegmentsIn(k, d.replay)) /\ \A e \in d.events : k[1][e] = d.replay
    <2> DEFINE n == Cardinality(SegmentsIn(k, id))
    <2>1. n = c.segment + 1
      BY <1>1
    <2> HIDE DEF n
    <2>2. d.replay = id => Cardinality(SegmentsIn(k, d.replay)) = n
      BY DEF n
    <2>3. CASE d = c
      <3>1. \A e \in d.events : k[1][e] = id
        BY <1>1, <1>2, <2>3 DEF UnsentIn
      <3> QED
        BY <1>1, <2>3, <2>1, <2>2, <3>1
    <2>4. CASE d # c /\ d.replay = id
      <3>1. d \in h[2] /\ d.segment \in Nat
        BY <1>2, <2>4 DEF Segmented, Segment
      <3>2. d.segment < c.segment /\ \A e \in d.events : h[1][e] = d.replay
        BY <1>1, <2>4, <3>1 DEF Segmented
      <3> QED
        BY <1>1, <1>2, <2>4, <2>1, <2>2, <3>1, <3>2
    <2>5. CASE d # c /\ d.replay # id
      <3>1. d \in h[2] /\ SegmentsIn(k, d.replay) = SegmentsIn(h, d.replay)
        BY <1>1, <1>2, <2>5
      <3> QED
        BY <1>2, <3>1 DEF Segmented
    <2> QED
      BY <2>3, <2>4, <2>5
  <1>5. Segmented(k)
    BY <1>2, <1>3, <1>4 DEF Segmented
  <1> QED
    BY <1>5 DEF c, k

LEMMA TakeSegmentGood ==
    ASSUME NEW h, Segmented(h), NEW r \in Good(h), ~Moved(r)
    PROVE  TakeSegment(r) \in Good(<<h[1], h[2] \cup {Cutting(r)}>>)
  <1> DEFINE c == Cutting(r)
             id == r.session.id
             k == <<h[1], h[2] \cup {c}>>
             x == [r.session EXCEPT !.segmentId = r.session.segmentId + 1]
             b == [r.buffer EXCEPT !.held = {}]
             f == [r.flush EXCEPT !.stage = "finishing", !.buffer = "live"]
             q == [r EXCEPT !.session = x, !.buffer = b, !.flush = f]
  <1>1. /\ r.buffer.exists /\ id \in ReplayId /\ r.flush.replayId = id
        /\ c \in Segment /\ c.replay = id /\ c.events \subseteq UnsentIn(h, id)
        /\ c.segment = Cardinality(SegmentsIn(h, id)) /\ c.segment \in Nat
        /\ SegmentsIn(k, id) = SegmentsIn(h, id) \cup {c}
        /\ Cardinality(SegmentsIn(k, id)) = Cardinality(SegmentsIn(h, id)) + 1
        /\ \A y : y # id => SegmentsIn(k, y) = SegmentsIn(h, y)
    BY CuttingFacts
  <1>2. k[1] = h[1] /\ k[2] = h[2] \cup {c}
    OBVIOUS
  <1>3. /\ r \in Container /\ r.session \in Session /\ r.buffer \in EventBuffer /\ r.flush \in Flush
        /\ r.replays \in 0 .. MaxReplays
    BY Fields DEF Good, Sound
  <1>4. TakeSegment(r) = SaveSession(q)
    BY <1>3 DEF TakeSegment, Container
  <1>5. x \in Session /\ x.id = id /\ x.segmentId = r.session.segmentId + 1
    BY <1>3 DEF Session
  <1>6. b \in EventBuffer /\ b.exists /\ b.held = {}
    BY <1>1, <1>3 DEF EventBuffer
  <1>7. f \in Flush
    BY <1>3 DEF Flush
  <1> HIDE DEF x, b, f
  <1>8. /\ q \in Container /\ q.session = x /\ q.stored = r.stored /\ q.replays = r.replays
        /\ q.expired = r.expired /\ q.buffer = b
    BY <1>3, <1>5, <1>6, <1>7 DEF Container
  <1> HIDE DEF q
  <1>9. /\ SaveSession(q) \in Container
        /\ SaveSession(q).session = x /\ SaveSession(q).replays = r.replays
        /\ SaveSession(q).expired = r.expired /\ SaveSession(q).buffer = b
        /\ SaveSession(q).stored = IF StickySession THEN x ELSE r.stored
    BY <1>8, SaveSessionFacts
  <1>10. id # 0 /\ x # NoSession /\ id <= r.replays
    BY <1>1, <1>5, Constants, ReplayAssumption, BufferHasSession DEF ReplayId
  <1> HIDE DEF c, k
  <1>11. Numbered(k, x, r.replays)
    <2>1. r.session.segmentId = Cardinality(SegmentsIn(h, id))
      BY DEF Good, Sound, Numbered
    <2> QED
      BY <1>1, <1>5, <1>10, <2>1 DEF Numbered
  <1>12. ~StickySession => r.stored = NoSession /\ Numbered(k, r.stored, r.replays)
    <2>1. SegmentsIn(k, 0) = SegmentsIn(h, 0)
      BY <1>1, <1>10
    <2> QED
      BY <2>1, Constants DEF Good, Sound, Stored, Numbered
  <1>13. Past(k, r.replays)
    BY <1>1, <1>2, <1>10 DEF Good, Sound, Past
  <1>14. SaveSession(q) \in Sound(k)
    BY <1>9, <1>11, <1>12, <1>13 DEF Good, Sound, Replaceable, Stored
  <1>15. SaveSession(q) \in Good(k)
    BY <1>6, <1>9, <1>10, <1>14, EmptyBufferGood
  <1> QED
    BY <1>4, <1>15 DEF k, c

-----------------------------------------------------------------------------
(* The invariant is inductive *)

(* A page that was just loaded. *)
LEMMA LoadedGood ==
    ASSUME NEW h, Segmented(h), NEW r \in Container,
           Numbered(h, r.stored, r.replays), Past(h, r.replays), Replaceable(r),
           ~StickySession => r.stored = NoSession
    PROVE  LET q == Loaded(r.stored, r.expired, r.young, r.replays)
           IN  q \in Good(h) /\ ~q.enabled /\ q.buffer = NoBuffer /\ q.replays = r.replays
  <1> DEFINE q == Loaded(r.stored, r.expired, r.young, r.replays)
  <1>1. /\ r.stored \in Session /\ r.expired \in {"no", "idle", "old"} /\ r.young \in BOOLEAN
        /\ r.replays \in 0 .. MaxReplays
    BY Fields
  <1>2. q \in Container
    BY <1>1, Constants DEF Container, Loaded
  <1>3. /\ q.session = NoSession /\ q.stored = r.stored /\ q.replays = r.replays
        /\ q.expired = r.expired /\ q.buffer = NoBuffer /\ ~q.enabled
    BY DEF Loaded
  <1> HIDE DEF q
  <1>4. Numbered(h, NoSession, r.replays)
    <2>1. SegmentsIn(h, 0) = {} /\ Cardinality({}) = 0
      BY <1>1, NewId
    <2>2. 0 <= r.replays
      BY <1>1, ReplayAssumption
    <2> QED
      BY <2>1, <2>2, Constants DEF Numbered
  <1>5. q \in Sound(h)
    BY <1>2, <1>3, <1>4 DEF Sound, Replaceable, Stored
  <1>6. q \in Good(h)
    BY <1>3, <1>5, Constants, EmptyBufferGood
  <1> QED
    BY <1>3, <1>6 DEF q

LEMMA InitHolds == Init => IInv
  <1> SUFFICES ASSUME Init PROVE IInv
    OBVIOUS
  <1> DEFINE r == Loaded(NoSession, "no", FALSE, 0)
             h == history
  <1>1. PICK s \in SampleDecisions : replay = InitializeSampling(r, s, FALSE)
    BY DEF Init
  <1>2. h[1] = [e \in Event |-> 0] /\ h[2] = {}
    BY DEF Init, history
  <1>3. 0 \in 0 .. MaxReplays /\ 0 < MaxReplays
    BY ReplayAssumption
  <1>4. Segmented(h)
    BY <1>2, <1>3, FS_EmptySet DEF Segmented
  <1>5. r \in Container /\ r.stored = NoSession /\ r.replays = 0 /\ r.expired = "no" /\ r.young = FALSE
    BY <1>3, Constants DEF Loaded, Container
  <1>6. Past(h, 0) /\ Numbered(h, NoSession, 0)
    <2>1. SegmentsIn(h, 0) = {}
      BY <1>2 DEF SegmentsIn
    <2> QED
      BY <1>2, <2>1, FS_EmptySet, Constants DEF Past, Numbered
  <1>7. r \in Good(h) /\ ~r.enabled /\ r.buffer = NoBuffer
    <2>1. Replaceable(r)
      BY <1>5 DEF Replaceable
    <2>2. Loaded(r.stored, r.expired, r.young, r.replays) = r
      BY <1>5
    <2> HIDE DEF r, h
    <2> QED
      BY <1>4, <1>5, <1>6, <2>1, <2>2, LoadedGood
  <1>8. replay \in Good(h)
    <2> HIDE DEF r, h
    <2> QED
      BY <1>1, <1>3, <1>4, <1>5, <1>7, InitializeSamplingGood
  <1>9. FewErrors /\ reloads \in 0 .. MaxReloads
    BY ReplayAssumption DEF Init, FewErrors
  <1> QED
    BY <1>4, <1>8, <1>9 DEF IInv

(* Steps that record nothing and make no segment. *)
LEMMA QuietStep ==
    ASSUME IInv, replay' \in Good(history), UNCHANGED history, FewErrors', reloads' \in 0 .. MaxReloads
    PROVE  IInv'
  <1>1. replay' \in Good(history') /\ Segmented(history')
    BY DEF IInv
  <1> QED
    BY <1>1 DEF IInv

LEMMA Calm ==
    ASSUME IInv, NEW r \in Good(history), Become(r), Quietly
    PROVE  IInv'
  <1>1. FewErrors' /\ reloads' \in 0 .. MaxReloads
    BY DEF IInv, FewErrors, Quietly
  <1> QED
    BY <1>1, QuietStep DEF Become, Quietly

LEMMA FlushSteps ==
    ASSUME IInv
    PROVE  /\ DurationExceeded => IInv'
           /\ Finished => IInv'
           /\ FinishRejected => IInv'
           /\ Sent => IInv'
           /\ SendFailed => IInv'
           /\ SendErred => IInv'
           /\ \A s \in SampleDecisions : TimerFires(s) => IInv'
  <1>1. Segmented(history) /\ replay \in Good(history)
    BY DEF IInv
  <1>2. replay \in Container /\ replay.flush \in Flush /\ replay.buffer \in EventBuffer /\ replay.session \in Session
    BY <1>1, Fields DEF Good, Sound
  <1>3. FailFlush(replay) \in Good(history) /\ EndFlush(replay) \in Good(history)
    BY <1>1, FailFlushGood, EndFlushGood
  <1>4. ASSUME Finished PROVE IInv'
    <2> DEFINE f == [replay.flush EXCEPT !.stage = "sending",
                    !.sampled = IF replay.session = NoSession THEN "none" ELSE replay.session.sampled]
               b == [replay.buffer EXCEPT !.hasEvents = replay.buffer.hasEvents /\ replay.flush.buffer # "live"]
               p == [replay EXCEPT !.flush = f]
               q == [p EXCEPT !.buffer = b]
    <2>1. replay.session.sampled \in {"session", "buffer", "no"}
      BY <1>2 DEF Session
    <2>2. f \in Flush
      BY <1>2, <2>1 DEF Flush
    <2>3. b \in EventBuffer /\ b.exists = replay.buffer.exists /\ b.held = replay.buffer.held
      BY <1>2 DEF EventBuffer
    <2>4. Become(q)
      BY <1>2, <1>4 DEF Finished, Become, Container, EventBuffer, Flush
    <2> HIDE DEF f, b
    <2>5. p \in Good(history) /\ p \in Container /\ p.buffer = replay.buffer
      BY <1>1, <1>2, <2>2, FlushChangeGood DEF Good, Sound, Container
    <2> HIDE DEF p
    <2>6. q \in Container /\ Keeps(q, p) /\ q.buffer = b
      BY <2>3, <2>5 DEF Container, Keeps
    <2> HIDE DEF q
    <2>7. q \in Good(history)
      BY <2>3, <2>5, <2>6, KeepsGood
    <2> QED
      BY <1>4, <2>4, <2>7, Calm DEF Finished
  <1>5. ASSUME SendErred PROVE IInv'
    <2> DEFINE f == [replay.flush EXCEPT !.retries = replay.flush.retries + 1]
    <2>1. replay.flush.retries \in 0 .. MaxRetries /\ replay.flush.retries < MaxRetries
      BY <1>2, <1>5 DEF Flush, SendErred
    <2>2. replay.flush.retries + 1 \in 0 .. MaxRetries
      BY <2>1, ReplayAssumption
    <2>3. f \in Flush
      BY <1>2, <2>2 DEF Flush
    <2>4. Become([replay EXCEPT !.flush = f])
      BY <1>2, <1>5 DEF SendErred, Become, Container, Flush
    <2> HIDE DEF f
    <2>5. [replay EXCEPT !.flush = f] \in Good(history)
      BY <1>1, <2>3, FlushChangeGood
    <2> QED
      BY <1>5, <2>4, <2>5, Calm DEF SendErred
  <1>6. ASSUME NEW s \in SampleDecisions, TimerFires(s) PROVE IInv'
    BY <1>1, <1>6, FlushImmediateGood, Calm DEF TimerFires
  <1> QED
    BY <1>3, <1>4, <1>5, <1>6, Calm DEF DurationExceeded, FinishRejected, Sent, SendFailed

(* Steps that may record an event. *)
LEMMA RecordingStep ==
    ASSUME IInv, NEW e \in Event, NextIn(history, e), NEW r, NEW stores \in BOOLEAN,
           stores => r.session.id \in ReplayId,
           replay' \in Good(After(history, r, e, stores)),
           recordedIn' = IF stores THEN [recordedIn EXCEPT ![e] = r.session.id] ELSE recordedIn,
           UNCHANGED <<errors, reloads, cut>>
    PROVE  IInv'
  <1>1. history' = After(history, r, e, stores)
    BY DEF history, After, Added
  <1>2. Segmented(After(history, r, e, stores))
    BY AddedIsSegmented DEF IInv, After
  <1>3. FewErrors' /\ reloads' \in 0 .. MaxReloads
    BY DEF IInv, FewErrors
  <1> HIDE DEF history
  <1>4. replay' \in Good(history') /\ Segmented(history')
    BY <1>1, <1>2
  <1> QED
    BY <1>3, <1>4 DEF IInv

LEMMA EmitStep ==
    ASSUME IInv, NEW checkout \in BOOLEAN, NEW timely \in BOOLEAN, NEW s \in SampleDecisions,
           Emit(checkout, timely, s)
    PROVE  IInv'
  <1> DEFINE stores == IsActive(replay) /\ Stores(replay, checkout, timely)
  <1>1. Segmented(history) /\ replay \in Good(history)
    BY DEF IInv
  <1>2. NewEvent \in Event /\ NextIn(history, NewEvent)
    BY <1>1, NewEventIsNext DEF Emit
  <1>3. stores => replay.session.id \in ReplayId
    BY <1>1, BufferHasSession DEF Stores, Accepts
  <1>4. replay' \in Good(After(history, replay, NewEvent, stores))
    BY <1>1, <1>2, HandleEmitGood DEF Emit, Become
  <1>5. /\ recordedIn' = IF stores THEN [recordedIn EXCEPT ![NewEvent] = replay.session.id] ELSE recordedIn
        /\ UNCHANGED <<errors, reloads, cut>>
    BY DEF Emit
  <1>6. stores \in BOOLEAN
    BY DEF IsActive, Stores, MustPause, SessionIsValid, Accepts
  <1> HIDE DEF stores
  <1> QED
    BY <1>2, <1>3, <1>4, <1>5, <1>6, RecordingStep

LEMMA BreadcrumbStep ==
    ASSUME IInv, NEW r \in Good(history), NEW timely \in BOOLEAN, AddBreadcrumb(r, timely)
    PROVE  IInv'
  <1> DEFINE stores == Stores(r, FALSE, timely)
             added == AddEvent(r, NewEvent, FALSE, timely)
  <1>1. Segmented(history)
    BY DEF IInv
  <1>2. NewEvent \in Event /\ NextIn(history, NewEvent)
    BY <1>1, NewEventIsNext DEF AddBreadcrumb
  <1>3. stores => r.session.id \in ReplayId
    BY <1>1, BufferHasSession DEF Stores, Accepts
  <1>4. added \in Good(After(history, r, NewEvent, stores))
    <2>1. CASE stores
      BY <1>1, <1>2, <2>1, AddEventGood DEF After
    <2>2. CASE ~stores
      BY <2>2 DEF After, AddEvent
    <2> QED
      BY <2>1, <2>2
  <1>5. /\ recordedIn' = IF stores THEN [recordedIn EXCEPT ![NewEvent] = r.session.id] ELSE recordedIn
        /\ UNCHANGED <<errors, reloads, cut>>
        /\ replay' = AfterUpdate(added)
    BY DEF AddBreadcrumb, Become
  <1>6. stores \in BOOLEAN
    BY DEF Stores, Accepts
  <1> HIDE DEF stores, added
  <1>7. replay' \in Good(After(history, r, NewEvent, stores))
    BY <1>4, <1>5, AfterUpdateGood
  <1> QED
    BY <1>2, <1>3, <1>5, <1>6, <1>7, RecordingStep

(* The step that makes a segment. *)
LEMMA PreparedStep ==
    ASSUME IInv, Prepared
    PROVE  IInv'
  <1>1. Segmented(history) /\ replay \in Good(history)
    BY DEF IInv
  <1>2. FewErrors' /\ reloads' \in 0 .. MaxReloads
    BY DEF IInv, FewErrors, Prepared
  <1>3. CASE Moved(replay)
    <2>1. EndFlush(replay) \in Good(history)
      BY <1>1, EndFlushGood
    <2> QED
      BY <1>2, <1>3, <2>1, QuietStep DEF Prepared, Become, history
  <1>4. CASE ~Moved(replay)
    <2> DEFINE k == <<history[1], history[2] \cup {Cutting(replay)}>>
    <2>1. TakeSegment(replay) \in Good(k) /\ Segmented(k)
      BY <1>1, <1>4, TakeSegmentGood, CuttingIsSegmented
    <2>2. replay' = TakeSegment(replay) /\ history' = k
      BY <1>4 DEF Prepared, Become, history, Cutting
    <2> HIDE DEF k
    <2> QED
      BY <1>2, <2>1, <2>2 DEF IInv
  <1> QED
    BY <1>3, <1>4

LEMMA TriggerGood ==
    ASSUME NEW h, Segmented(h), NEW q \in Good(h), NEW s \in SampleDecisions
    PROVE  TriggerUserActivity(q, s) \in Good(h)
  <1> DEFINE r == [q EXCEPT !.userIdle = FALSE]
  <1>1. q \in Container
    BY DEF Good, Sound
  <1>2. r \in Container /\ Keeps(r, q) /\ r.buffer = q.buffer
    BY <1>1 DEF Container, Keeps
  <1>3. r \in Good(h)
    BY <1>2, KeepsGood
  <1> HIDE DEF r
  <1>4. /\ UpdateSessionActivity(CheckAndHandle(r, s)) \in Good(h)
        /\ Resume(r) \in Good(h) /\ CheckSession(r, s) \in Good(h)
    BY <1>3, CheckAndHandleGood, ActivityGood, ResumeGood, CheckSessionGood
  <1> QED
    BY <1>4 DEF TriggerUserActivity, r

LEMMA UserSteps ==
    ASSUME IInv, NEW s \in SampleDecisions
    PROVE  /\ UserActivity(s) => IInv'
           /\ KeyPress => IInv'
           /\ Hide(s) => IInv'
           /\ Show(s) => IInv'
           /\ Overflow => IInv'
           /\ \A timely \in BOOLEAN : FeedbackCaptured(timely, s) => IInv'
           /\ FeedbackOpened(s) => IInv'
           /\ \A continue \in ContinueRecording : CallFlushApi(continue, s) => IInv'
  <1>1. Segmented(history) /\ replay \in Good(history)
    BY DEF IInv
  <1>2. ASSUME KeyPress PROVE IInv'
    <2> DEFINE r == [replay EXCEPT !.userIdle = FALSE]
    <2>1. replay \in Container
      BY <1>1 DEF Good, Sound
    <2>2. r \in Container /\ Keeps(r, replay) /\ r.buffer = replay.buffer
      BY <2>1 DEF Container, Keeps
    <2>3. r \in Good(history)
      BY <1>1, <2>2, KeepsGood
    <2> QED
      BY <1>2, <2>3, ActivityGood, Calm DEF KeyPress
  <1>3. ASSUME NEW timely \in BOOLEAN, FeedbackCaptured(timely, s) PROVE IInv'
    <2>1. CASE IsActive(replay)
      <3>1. [replay EXCEPT !.timer = TRUE] \in Good(history)
        BY <1>1, TimerGood
      <3>2. TriggerUserActivity([replay EXCEPT !.timer = TRUE], s) \in Good(history)
        BY <1>1, <3>1, TriggerGood
      <3> QED
        BY <1>3, <2>1, <3>2, BreadcrumbStep DEF FeedbackCaptured
    <2>2. CASE ~IsActive(replay)
      BY <1>1, <1>3, <2>2, CheckAndHandleGood, Calm DEF FeedbackCaptured
    <2> QED
      BY <2>1, <2>2
  <1>4. ASSUME Overflow PROVE IInv'
    BY <1>1, <1>4, HandleOverflowGood, Calm DEF Overflow, Accepts
  <1>5. \A continue \in BOOLEAN : SendBufferedOrFlush(replay, continue, s) \in Good(history)
    BY <1>1, SendBufferedOrFlushGood
  <1>6. ContinueRecording \subseteq BOOLEAN
    BY ReplayAssumption
  <1>7. ASSUME NEW continue \in ContinueRecording, CallFlushApi(continue, s) PROVE IInv'
    BY <1>5, <1>6, <1>7, Calm DEF CallFlushApi
  <1>8. ASSUME FeedbackOpened(s) PROVE IInv'
    BY <1>5, <1>8, Calm DEF FeedbackOpened
  <1>9. ASSUME UserActivity(s) \/ Hide(s) \/ Show(s) PROVE IInv'
    <2>1. /\ TriggerUserActivity(replay, s) \in Good(history)
          /\ FlushImmediate(replay, s) \in Good(history) /\ CheckAndHandle(replay, s) \in Good(history)
      BY <1>1, TriggerGood, FlushImmediateGood, CheckAndHandleGood
    <2> QED
      BY <1>9, <2>1, Calm DEF UserActivity, Hide, Show
  <1> QED
    BY <1>2, <1>3, <1>4, <1>7, <1>8, <1>9

LEMMA ErrorSteps ==
    ASSUME IInv, NEW s \in SampleDecisions, NEW arrived \in BOOLEAN
    PROVE  /\ ErrorCaptured(s) => IInv'
           /\ ErrorSent(arrived) => IInv'
           /\ ErrorCallback(s) => IInv'
  <1>1. Segmented(history) /\ replay \in Good(history) /\ FewErrors
    BY DEF IInv
  <1>2. /\ errors = [sending |-> errors.sending, sent |-> errors.sent]
        /\ errors.sending \in 0 .. MaxWaiters /\ errors.sent \in 0 .. MaxWaiters
        /\ errors.sending + errors.sent <= MaxWaiters /\ MaxWaiters \in Nat
    BY <1>1, ReplayAssumption DEF FewErrors
  <1>3. ASSUME ErrorCaptured(s) PROVE IInv'
    <2>1. CASE IsActive(replay)
      <3> DEFINE q == [replay EXCEPT !.session = [replay.session EXCEPT !.dirty = TRUE]]
      <3>1. SaveSession(q) \in Good(history)
        BY <1>1, <2>1, MarkGood DEF IsActive, SessionIsValid
      <3>2. replay \in Container
        BY <1>1 DEF Good, Sound
      <3>3. [replay EXCEPT !.session.dirty = TRUE] = q
        BY <3>2 DEF Container
      <3> HIDE DEF q
      <3>4. replay' \in Good(history)
        BY <1>1, <1>3, <2>1, <3>1, <3>3 DEF ErrorCaptured, Become
      <3>5. FewErrors'
        BY <1>2, <1>3, <2>1 DEF ErrorCaptured, FewErrors
      <3> QED
        BY <1>3, <3>4, <3>5, QuietStep DEF ErrorCaptured, IInv
    <2>2. CASE ~IsActive(replay)
      BY <1>1, <1>3, <2>2, CheckAndHandleGood, Calm DEF ErrorCaptured, Quietly
    <2> QED
      BY <2>1, <2>2
  <1>4. ASSUME ErrorSent(arrived) PROVE IInv'
    <2>1. FewErrors'
      BY <1>2, <1>4 DEF ErrorSent, FewErrors
    <2> QED
      BY <1>1, <1>4, <2>1, QuietStep DEF ErrorSent, IInv
  <1>5. ASSUME ErrorCallback(s) PROVE IInv'
    <2>1. FewErrors'
      BY <1>2, <1>5 DEF ErrorCallback, FewErrors
    <2>2. SendBufferedOrFlush(replay, TRUE, s) \in Good(history)
      BY <1>1, SendBufferedOrFlushGood
    <2> QED
      BY <1>5, <2>1, <2>2, QuietStep DEF ErrorCallback, Become, IInv
  <1> QED
    BY <1>3, <1>4, <1>5

LEMMA StartSteps ==
    ASSUME IInv
    PROVE  (Start => IInv') /\ (StartBuffering => IInv')
  <1>1. Segmented(history) /\ replay \in Good(history) /\ replay \in Sound(history) /\ replay \in Container
    BY DEF IInv, Good, Sound
  <1>2. "session" \in Sampling /\ "buffer" \in Sampling
    BY DEF Sampling
  <1>3. ASSUME Start PROVE IInv'
    <2> DEFINE r == [replay EXCEPT !.userIdle = FALSE]
               l == LoadOrCreateSession(r, "session", FALSE)
    <2>1. r \in Container /\ Keeps(r, replay) /\ r.replays = replay.replays /\ r.enabled = replay.enabled
      BY <1>1 DEF Container, Keeps
    <2>2. r \in Sound(history) /\ r.replays < MaxReplays /\ ~r.enabled
      BY <1>1, <1>3, <2>1, KeepsSound DEF Start, SessionBound
    <2> HIDE DEF r
    <2>3. l \in Sound(history) /\ InUse(l)
      BY <1>1, <1>2, <2>2, LoadOrCreateSound
    <2> HIDE DEF l
    <2>4. InitializeRecording([l EXCEPT !.mode = "session"]) \in Good(history)
      BY <2>3, RecordInModeGood
    <2> QED
      BY <1>3, <2>4, Calm DEF Start, l, r
  <1>4. ASSUME StartBuffering PROVE IInv'
    <2> DEFINE l == LoadOrCreateSession(replay, "buffer", FALSE)
    <2>1. l \in Sound(history) /\ InUse(l)
      BY <1>1, <1>2, <1>4, LoadOrCreateSound DEF StartBuffering, SessionBound
    <2> HIDE DEF l
    <2>2. InitializeRecording([l EXCEPT !.mode = "buffer"]) \in Good(history)
      BY <2>1, RecordInModeGood
    <2> QED
      BY <1>4, <2>2, Calm DEF StartBuffering, l
  <1> QED
    BY <1>3, <1>4

LEMMA StopStep ==
    ASSUME IInv, NEW s \in SampleDecisions, CallStop(s)
    PROVE  IInv'
  <1> DEFINE stopping == StopNow(replay)
             flushed == CallFlush(stopping, TRUE, s)
  <1>1. Segmented(history) /\ replay \in Good(history)
    BY DEF IInv
  <1>2. stopping \in Good(history)
    BY <1>1, StopNowGood
  <1> HIDE DEF stopping
  <1>3. flushed \in Good(history)
    BY <1>1, <1>2, CallFlushGood
  <1> HIDE DEF flushed
  <1>4. /\ StopTail(stopping) \in Good(history) /\ StopTail(flushed) \in Good(history)
        /\ [flushed EXCEPT !.flush.waiters = Append(@, "stop")] \in Good(history)
    BY <1>1, <1>2, <1>3, StopTailGood, WaiterGood
  <1>5. PICK r \in Good(history) : Become(r)
    BY <1>4 DEF CallStop, stopping, flushed
  <1> QED
    BY <1>5, Calm DEF CallStop

LEMMA TimeSteps ==
    ASSUME IInv
    PROVE  /\ UserGoesIdle => IInv'
           /\ SessionGrows => IInv'
           /\ \A kind \in {"idle", "old"} : SessionExpires(kind) => IInv'
  <1>1. Segmented(history) /\ replay \in Good(history) /\ replay \in Container
    BY DEF IInv, Good, Sound
  <1>2. replay.young \in BOOLEAN /\ replay.expired \in {"no", "idle", "old"}
    BY <1>1, Fields
  <1>3. ASSUME UserGoesIdle PROVE IInv'
    <2> DEFINE r == [replay EXCEPT !.userIdle = TRUE]
    <2>1. r \in Container /\ Keeps(r, replay) /\ r.buffer = replay.buffer
      BY <1>1 DEF Container, Keeps
    <2>2. r \in Good(history)
      BY <1>1, <2>1, KeepsGood
    <2> QED
      BY <1>3, <2>2, Calm DEF UserGoesIdle
  <1>4. ASSUME SessionGrows PROVE IInv'
    <2>1. [replay EXCEPT !.young = FALSE, !.expired = replay.expired] \in Good(history)
      BY <1>1, <1>2, ClockGood
    <2>2. [replay EXCEPT !.young = FALSE, !.expired = replay.expired] = [replay EXCEPT !.young = FALSE]
      BY <1>1 DEF Container
    <2> QED
      BY <1>4, <2>1, <2>2, Calm DEF SessionGrows
  <1>5. ASSUME NEW kind \in {"idle", "old"}, SessionExpires(kind) PROVE IInv'
    <2>1. [replay EXCEPT !.young = replay.young, !.expired = kind] \in Good(history)
      BY <1>1, <1>2, <1>5, ClockGood DEF SessionExpires, SessionBound
    <2>2. [replay EXCEPT !.young = replay.young, !.expired = kind] = [replay EXCEPT !.expired = kind]
      BY <1>1 DEF Container
    <2> QED
      BY <1>5, <2>1, <2>2, Calm DEF SessionExpires
  <1> QED
    BY <1>3, <1>4, <1>5

LEMMA ReloadStep ==
    ASSUME IInv, NEW s \in SampleDecisions, Reload(s)
    PROVE  IInv'
  <1> DEFINE q == Loaded(replay.stored, replay.expired, replay.young, replay.replays)
  <1>1. Segmented(history) /\ replay \in Good(history) /\ replay \in Container
    BY DEF IInv, Good, Sound
  <1>2. q \in Good(history) /\ ~q.enabled /\ q.buffer = NoBuffer /\ q.replays = replay.replays
    BY <1>1, LoadedGood DEF Good, Sound, Stored
  <1> HIDE DEF q
  <1>3. InitializeSampling(q, s, FALSE) \in Good(history)
    BY <1>1, <1>2, InitializeSamplingGood DEF Reload, SessionBound
  <1>4. reloads' \in 0 .. MaxReloads
    BY ReplayAssumption DEF Reload, IInv
  <1>5. FewErrors'
    BY ReplayAssumption DEF Reload, FewErrors
  <1> QED
    BY <1>3, <1>4, <1>5, QuietStep DEF Reload, Become, q

LEMMA SomeDecision == \E s : s \in SampleDecisions
  BY DEF SampleDecisions

LEMMA StepHolds == IInv /\ [Next]_vars => IInv'
  <1> SUFFICES ASSUME IInv, [Next]_vars PROVE IInv'
    OBVIOUS
  <1>1. ASSUME NEW s \in SampleDecisions, Reload(s) PROVE IInv'
    BY <1>1, ReloadStep
  <1>2. ASSUME NEW s \in SampleDecisions, CallStop(s) PROVE IInv'
    BY <1>2, StopStep
  <1>3. ASSUME NEW s \in SampleDecisions, NEW b \in BOOLEAN, NEW timely \in BOOLEAN,
               Emit(b, timely, s)
        PROVE  IInv'
    BY <1>3, EmitStep
  <1>4. ASSUME NEW timely \in BOOLEAN, Breadcrumb(timely) PROVE IInv'
    BY <1>4, BreadcrumbStep DEF Breadcrumb, IInv
  <1>5. ASSUME FlushGoesOn PROVE IInv'
    BY <1>5, FlushSteps, PreparedStep DEF FlushGoesOn
  <1>6. ASSUME Overflow \/ KeyPress PROVE IInv'
    BY <1>6, SomeDecision, UserSteps
  <1>7. ASSUME NEW s \in SampleDecisions, TimerFires(s) PROVE IInv'
    BY <1>7, FlushSteps
  <1>8. ASSUME NEW s \in SampleDecisions,
               \/ UserActivity(s) \/ Hide(s) \/ Show(s) \/ FeedbackOpened(s)
               \/ \E timely \in BOOLEAN : FeedbackCaptured(timely, s)
               \/ \E c \in ContinueRecording : CallFlushApi(c, s)
        PROVE  IInv'
    BY <1>8, UserSteps
  <1>9. ASSUME NEW s \in SampleDecisions, ErrorCaptured(s) \/ ErrorCallback(s) PROVE IInv'
    BY <1>9, ErrorSteps
  <1>10. ASSUME NEW b \in BOOLEAN, ErrorSent(b) PROVE IInv'
    BY <1>10, SomeDecision, ErrorSteps
  <1>11. ASSUME Start \/ StartBuffering PROVE IInv'
    BY <1>11, StartSteps
  <1>12. ASSUME UserGoesIdle \/ SessionGrows \/ (\E kind \in {"idle", "old"} : SessionExpires(kind)) PROVE IInv'
    BY <1>12, TimeSteps
  <1>13. ASSUME UNCHANGED vars PROVE IInv'
    BY <1>13, QuietStep DEF vars, history, FewErrors, IInv
  <1> QED
    BY <1>1, <1>2, <1>3, <1>4, <1>5, <1>6, <1>7, <1>8, <1>9, <1>10, <1>11, <1>12, <1>13 DEF Next

-----------------------------------------------------------------------------
(* Theorems *)

(* The container, its session, buffer and flush, the errors under way and  *)
(* the history always have their types: no counter of replay.ts leaves its *)
(* bounds, whatever is stopped, started, refreshed or reloaded meanwhile.  *)
THEOREM TypeCorrect == Spec => []TypeOK
  <1>1. IInv => TypeOK
    <2> SUFFICES ASSUME IInv PROVE TypeOK
      OBVIOUS
    <2>1. replay \in Container
      BY DEF IInv, Good, Sound
    <2>2. recordedIn \in [Event -> 0 .. MaxReplays] /\ cut \in SUBSET Segment
      BY DEF IInv, Segmented, history
    <2> QED
      BY <2>1, <2>2 DEF TypeOK, IInv, FewErrors
  <1> QED
    BY <1>1, InitHolds, StepHolds, PTL DEF Spec

(* With sticky sessions an enabled replay's session in sessionStorage is   *)
(* the one in memory after every step, so a reload never uses a segment    *)
(* number of it again (saveSession of session/saveSession.ts).             *)
THEOREM StorageStaysCurrent == Spec => []StorageIsCurrent
  <1>1. IInv => StorageIsCurrent
    BY DEF IInv, Good, Sound, Stored, StorageIsCurrent
  <1> QED
    BY <1>1, InitHolds, StepHolds, PTL DEF Spec

(* Every step records an event for a replay, makes its next segment from   *)
(* what was not overtaken, or does neither.                                *)
LEMMA StreamInit == Init => Stream!Init
  BY DEF Init, Stream!Init

LEMMA StreamRecord ==
    ASSUME IInv, NextIn(history, NewEvent), NewEvent \in Event, NEW id \in ReplayId,
           recordedIn' = [recordedIn EXCEPT ![NewEvent] = id], UNCHANGED cut
    PROVE  Stream!Next
  <1>1. \A d \in Event : d >= NewEvent => recordedIn[d] = 0
    <2> SUFFICES ASSUME NEW d \in Event, d >= NewEvent PROVE recordedIn[d] = 0
      OBVIOUS
    <2>1. d \in Nat /\ NewEvent \in Nat
      BY ReplayAssumption DEF Event
    <2>2. recordedIn[d] # 0 <=> d < NewEvent
      BY DEF NextIn, history
    <2> QED
      BY <2>1, <2>2
  <1>2. Stream!Record(NewEvent, id)
    BY <1>1 DEF Stream!Record
  <1> QED
    BY <1>2 DEF Stream!Next

LEMMA StreamCut ==
    ASSUME IInv, Prepared, ~Moved(replay)
    PROVE  Stream!Next
  <1> DEFINE c == Cutting(replay)
             id == replay.session.id
  <1>1. /\ id \in ReplayId /\ replay.flush.replayId = id
        /\ c.events \subseteq UnsentIn(history, id) /\ c.segment = Cardinality(SegmentsIn(history, id))
    BY CuttingFacts DEF IInv
  <1>2. SegmentsIn(history, id) = Stream!SegmentsOf(id)
    BY DEF SegmentsIn, history, Stream!SegmentsOf
  <1>3. Stream!Cardinality(Stream!SegmentsOf(id)) = Cardinality(Stream!SegmentsOf(id))
    BY DEF Cardinality, Stream!Cardinality
  <1>4. UnsentIn(history, id) = Stream!Unsent(id)
    BY <1>2 DEF UnsentIn, history, Stream!Unsent, Stream!Sent
  <1>5. c = [replay |-> id, segment |-> Cardinality(Stream!SegmentsOf(id)), events |-> c.events]
    BY <1>1, <1>2 DEF Cutting
  <1>6. cut' = cut \cup {c} /\ UNCHANGED recordedIn
    BY DEF Prepared, Cutting
  <1> HIDE DEF c, id
  <1>7. Stream!Cut(id)
    BY <1>1, <1>4, <1>5, <1>6, <1>3 DEF Stream!Cut
  <1> QED
    BY <1>1, <1>7 DEF Stream!Next

LEMMA StreamStep == IInv /\ [Next]_vars => [Stream!Next]_(Stream!vars)
  <1> SUFFICES ASSUME IInv, [Next]_vars PROVE Stream!Next \/ UNCHANGED history
    BY DEF history, Stream!vars
  <1>1. Segmented(history) /\ replay \in Good(history)
    BY DEF IInv
  <1>2. ASSUME NEW r \in Good(history), NEW timely \in BOOLEAN, AddBreadcrumb(r, timely) PROVE Stream!Next \/ UNCHANGED history
    <2>1. CASE Stores(r, FALSE, timely)
      <3>1. NewEvent \in Event /\ NextIn(history, NewEvent)
        BY <1>1, <1>2, NewEventIsNext DEF AddBreadcrumb
      <3>2. r.session.id \in ReplayId
        BY <2>1, BufferHasSession DEF Stores, Accepts
      <3> QED
        BY <1>2, <2>1, <3>1, <3>2, StreamRecord DEF AddBreadcrumb
    <2>2. CASE ~Stores(r, FALSE, timely)
      BY <1>2, <2>2 DEF AddBreadcrumb, history
    <2> QED
      BY <2>1, <2>2
  <1>3. ASSUME NEW b \in BOOLEAN, NEW timely \in BOOLEAN, NEW s \in SampleDecisions,
               Emit(b, timely, s)
        PROVE  Stream!Next \/ UNCHANGED history
    <2>1. CASE IsActive(replay) /\ Stores(replay, b, timely)
      <3>1. NewEvent \in Event /\ NextIn(history, NewEvent)
        BY <1>1, <1>3, NewEventIsNext DEF Emit
      <3>2. replay.session.id \in ReplayId
        BY <1>1, <2>1, BufferHasSession DEF Stores, Accepts
      <3> QED
        BY <1>3, <2>1, <3>1, <3>2, StreamRecord DEF Emit
    <2>2. CASE ~(IsActive(replay) /\ Stores(replay, b, timely))
      BY <1>3, <2>2 DEF Emit, history
    <2> QED
      BY <2>1, <2>2
  <1>4. ASSUME Prepared PROVE Stream!Next \/ UNCHANGED history
    BY <1>4, StreamCut DEF Prepared, history
  <1>5. ASSUME NEW timely \in BOOLEAN, NEW s \in SampleDecisions, FeedbackCaptured(timely, s)
        PROVE  Stream!Next \/ UNCHANGED history
    <2>1. CASE IsActive(replay)
      <3>1. [replay EXCEPT !.timer = TRUE] \in Good(history)
        BY <1>1, TimerGood
      <3>2. TriggerUserActivity([replay EXCEPT !.timer = TRUE], s) \in Good(history)
        BY <1>1, <3>1, TriggerGood
      <3> QED
        BY <1>2, <1>5, <2>1, <3>2 DEF FeedbackCaptured
    <2>2. CASE ~IsActive(replay)
      BY <1>5, <2>2 DEF FeedbackCaptured, Quietly
    <2> QED
      BY <2>1, <2>2
  <1>6. CASE UNCHANGED vars
    BY <1>6 DEF vars, history
  <1> QED
    BY <1>1, <1>2, <1>3, <1>4, <1>5, <1>6
       DEF Next, FlushGoesOn, Breadcrumb, Quietly, DurationExceeded, Finished, FinishRejected, Sent, SendFailed,
           Overflow, SendErred, KeyPress, Start, StartBuffering, UserGoesIdle, SessionGrows, SessionExpires,
           ErrorSent, CallFlushApi, UserActivity, Hide, Show, FeedbackOpened, ErrorCaptured, ErrorCallback,
           CallStop, TimerFires, Reload

(* Whatever is refreshed, stopped, started, reloaded or retried while a    *)
(* flush is prepared, waits for its worker or is sent, _runFlush numbers   *)
(* the segments of a replay 0, 1, 2, ... and gives each its own events, in *)
(* their order and none twice: Replay implements SegmentStream.            *)
THEOREM FlushesMakeAStream == Spec => SegmentsAreAStream
  <1>1. Stream!Init /\ [][Stream!Next]_(Stream!vars) => SegmentsAreAStream
    BY DEF SegmentsAreAStream, Stream!Spec
  <1> QED
    BY <1>1, InitHolds, StepHolds, StreamInit, StreamStep, PTL DEF Spec
=============================================================================
