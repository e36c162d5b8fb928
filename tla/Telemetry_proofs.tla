-------------------------- MODULE Telemetry_proofs --------------------------
(* Proofs about Telemetry, for any logs, spans, requests, users, limits    *)
(* and sets of options: each item is in one place, batches go together and *)
(* have timers, sessions and requests are reported as the worst that       *)
(* happened in them, and close() loses only what came too late.            *)
EXTENDS Telemetry, DataFacts, TLAPS

-----------------------------------------------------------------------------
(* Request sessions: the status of an open request is the worst so far. *)

WorstOf(kinds) == IF "unhandled" \in kinds THEN "crashed"
                  ELSE IF "handled" \in kinds THEN "errored" ELSE "exited"

RequestsFit ==
    /\ minute \in Minute
    /\ requestStatus \in [Request -> Statuses]
    /\ exceptions \in [Request -> SUBSET {"handled", "unhandled"}]
    /\ recorded \in [Request -> Entry \cup {Unrecorded}]
    /\ \A r \in Request : r \notin Closed =>
          IF requestStatus[r] = "none" THEN exceptions[r] = {}
          ELSE OutcomeOf(requestStatus[r]) = WorstOf(exceptions[r])

RequestsInv == RequestsFit /\ CountsAsWorst

LEMMA EntryFacts == Unrecorded \notin Entry
  BY RequestAssumption DEF Unrecorded, Entry, Minute, Outcome

LEMMA RequestsInvStep ==
    ASSUME RequestsInv,
           \/ UNCHANGED <<minute, requestStatus, recorded, exceptions>>
           \/ Tick
           \/ \E r \in Request : \/ StartRequest(r) \/ CloseResponse(r)
                                 \/ \E kind \in {"handled", "unhandled"} : CaptureException(r, kind)
    PROVE  RequestsInv'
  <1> USE DEF RequestsInv, RequestsFit, CountsAsWorst, Closed, WorstOf
  <1>1. CASE UNCHANGED <<minute, requestStatus, recorded, exceptions>>
    BY <1>1
  <1>2. CASE Tick
    <2>1. minute' \in Minute
      BY <1>2, RequestAssumption DEF Tick, Minute
    <2> QED
      BY <1>2, <2>1 DEF Tick
  <1>3. ASSUME NEW r \in Request, StartRequest(r) PROVE RequestsInv'
    BY <1>3 DEF StartRequest, Statuses, OutcomeOf
  <1>4. ASSUME NEW r \in Request, CloseResponse(r) PROVE RequestsInv'
    <2> DEFINE entry == <<minute, OutcomeOf(requestStatus[r])>>
    <2>1. /\ requestStatus[r] # "none" /\ recorded[r] = Unrecorded
          /\ recorded' = [recorded EXCEPT ![r] = entry]
          /\ UNCHANGED <<minute, requestStatus, exceptions>>
      BY <1>4 DEF CloseResponse
    <2>2. entry \in Entry /\ entry[2] = WorstOf(exceptions[r])
      BY <2>1 DEF Entry, Outcome, Statuses, OutcomeOf
    <2>3. recorded'[r] = entry /\ \A q \in Request \ {r} : recorded'[q] = recorded[q]
      BY <2>1
    <2> HIDE DEF entry
    <2>4. RequestsFit'
      BY <2>1, <2>2, <2>3
    <2>5. CountsAsWorst'
      BY <2>1, <2>2, <2>3
    <2> QED
      BY <2>4, <2>5
  <1>5. ASSUME NEW r \in Request, NEW kind \in {"handled", "unhandled"}, CaptureException(r, kind)
        PROVE  RequestsInv'
    <2>1. /\ requestStatus[r] # "none"
          /\ requestStatus' = [requestStatus EXCEPT ![r] = Worsened(@, kind)]
          /\ exceptions' = [exceptions EXCEPT ![r] = IF r \in Closed THEN @ ELSE @ \cup {kind}]
          /\ UNCHANGED <<minute, recorded>>
      BY <1>5 DEF CaptureException
    <2>2. Worsened(requestStatus[r], kind) \in {"errored", "crashed"}
      BY DEF Worsened
    <2>3. r \notin Closed => OutcomeOf(Worsened(requestStatus[r], kind)) = WorstOf(exceptions[r] \cup {kind})
      BY <2>1 DEF Worsened, OutcomeOf, Statuses
    <2>4. RequestsFit'
      BY <2>1, <2>2, <2>3 DEF Statuses
    <2>5. CountsAsWorst'
      BY <2>1
    <2> QED
      BY <2>4, <2>5
  <1> QED
    BY <1>1, <1>2, <1>3, <1>4, <1>5

LEMMA RequestsInvInit == RequestsInit => RequestsInv
  BY RequestAssumption, EntryFacts
     DEF RequestsInit, RequestsInv, RequestsFit, CountsAsWorst, Closed, Statuses, Minute
-----------------------------------------------------------------------------
(* Browser sessions *)

(* Sessions up to the current one exist, later ones have no history, and   *)
(* the current one is not closed.                                          *)
SessionsExist ==
    /\ SessionsTypeOK
    /\ \A i \in 1..current : sessions[i] \in Session
    /\ \A i \in SessionIndex : i > current => processed[i] = {}
    /\ sessions[current].status # "exited"

(* Whoever is logged in has given the current session its `did`, if nobody *)
(* was there before.  So a user with an id never comes to a session        *)
(* without the listener noticing.                                          *)
UserIsOnSession == user # NoUser => sessions[current].did # NoUser

SessionsInv == SessionsExist /\ UserIsOnSession /\ SessionsAsWorst /\ WireIsCurrent

LEMMA NoSessionIsNone == NoSession \notin Session
  BY DEF NoSession, Session

(* What SessionsAsWorst and WireIsCurrent say of one session *)
AsWorst(i) ==
    /\ (sessions[i].status = "crashed") <=> ("crash" \in processed[i])
    /\ (sessions[i].errors = 1) <=> ({"error", "crash"} \cap processed[i] # {})

Replaced(i) ==
    wire[i] # NoSession /\ wire[i] = [sessions[i] EXCEPT !.init = wire[i].init]

Known(i) ==
    /\ wire[i] # NoSession
    /\ wire[i] = [sessions[i] EXCEPT !.init = wire[i].init, !.did = wire[i].did]
    /\ wire[i].did # sessions[i].did => sessions[i].did \notin Identified

LEMMA OneByOne ==
    /\ SessionsAsWorst <=> \A i \in 1..current : AsWorst(i)
    /\ WireIsCurrent <=> (Reporting => \A i \in 1..current :
                              /\ i < current => Replaced(i)
                              /\ i = current /\ initialSessionSent => Known(i))
    /\ SessionsAsWorst' <=> \A i \in 1..current' : AsWorst(i)'
    /\ WireIsCurrent' <=> (Reporting' => \A i \in 1..current' :
                              /\ i < current' => Replaced(i)'
                              /\ i = current' /\ initialSessionSent' => Known(i)')
  BY DEF SessionsAsWorst, WireIsCurrent, AsWorst, Replaced, Known

LEMMA Indexes ==
    ASSUME SessionsExist
    PROVE  /\ current \in Nat /\ current \in 1..current /\ current \in SessionIndex
           /\ 1..current \subseteq SessionIndex
           /\ sessions[current] \in Session
  <1>1. current \in SessionIndex /\ MaxSessions \in Nat
    BY SessionAssumption DEF SessionsExist, SessionsTypeOK
  <1> QED
    BY <1>1 DEF SessionsExist, SessionIndex

(* A session that was just sent is known. *)
LEMMA SentIsKnown ==
    ASSUME NEW s \in Session
    PROVE  /\ AfterCapture(s) \in Session /\ AfterCapture(s).status = s.status
           /\ AfterCapture(s).errors = s.errors /\ AfterCapture(s).did = s.did
           /\ s # NoSession
           /\ s = [AfterCapture(s) EXCEPT !.init = s.init]
           /\ s = [AfterCapture(s) EXCEPT !.init = s.init, !.did = s.did]
  BY NoSessionIsNone DEF AfterCapture, Session

(* A step that changes only the current session has only that one to show. *)
LEMMA OnlyCurrent ==
    ASSUME SessionsInv, SessionsTypeOK', current' = current, Reporting' => Reporting,
           \A i \in SessionIndex \ {current} :
               sessions'[i] = sessions[i] /\ wire'[i] = wire[i] /\ processed'[i] = processed[i],
           sessions'[current] \in Session, sessions'[current].status # "exited",
           UserIsOnSession', AsWorst(current)',
           Reporting' /\ initialSessionSent' => Known(current)'
    PROVE  SessionsInv'
  <1>1. /\ current \in Nat /\ current \in 1..current /\ 1..current \subseteq SessionIndex
      BY Indexes DEF SessionsInv
  <1>2. SessionsExist'
    BY <1>1 DEF SessionsInv, SessionsExist
  <1>3. \A i \in 1..current : i # current => (AsWorst(i)' <=> AsWorst(i)) /\ (Replaced(i)' <=> Replaced(i))
    BY <1>1 DEF AsWorst, Replaced
  <1>4. SessionsAsWorst'
    BY <1>1, <1>3, OneByOne DEF SessionsInv
  <1>5. WireIsCurrent'
    BY <1>1, <1>3, OneByOne DEF SessionsInv
  <1> QED
    BY <1>2, <1>4, <1>5 DEF SessionsInv

(* Sending the current session makes it known. *)
LEMMA CaptureFacts ==
    ASSUME SessionsInv, NEW s \in Session, CaptureSession(current, s)
    PROVE  /\ sessions' \in [SessionIndex -> Session \cup {NoSession}]
           /\ wire' \in [SessionIndex -> Session \cup {NoSession}]
           /\ \A i \in SessionIndex \ {current} : sessions'[i] = sessions[i] /\ wire'[i] = wire[i]
           /\ sessions'[current] = AfterCapture(s)
           /\ AfterCapture(s) \in Session /\ AfterCapture(s).status = s.status
           /\ AfterCapture(s).errors = s.errors /\ AfterCapture(s).did = s.did
           /\ Reporting /\ current' = current => Known(current)'
  <1>1. /\ current \in SessionIndex
        /\ sessions \in [SessionIndex -> Session \cup {NoSession}]
        /\ wire \in [SessionIndex -> Session \cup {NoSession}]
    BY Indexes DEF SessionsInv, SessionsExist, SessionsTypeOK
  <1>2. /\ AfterCapture(s) \in Session /\ AfterCapture(s).status = s.status
        /\ AfterCapture(s).errors = s.errors /\ AfterCapture(s).did = s.did
    BY SentIsKnown
  <1>3. /\ sessions' = [sessions EXCEPT ![current] = AfterCapture(s)]
        /\ wire' = IF HasRelease /\ enabled THEN [wire EXCEPT ![current] = s] ELSE wire
    BY DEF CaptureSession, Transmitted
  <1>4. ASSUME Reporting, current' = current PROVE Known(current)'
    <2>1. wire'[current] = s /\ sessions'[current] = AfterCapture(s)
      BY <1>1, <1>3, <1>4 DEF Reporting
    <2>2. wire'[current] # NoSession
      BY <2>1, SentIsKnown
    <2>3. wire'[current] = [sessions'[current] EXCEPT !.init = wire'[current].init, !.did = wire'[current].did]
      <3> DEFINE left == AfterCapture(s)
      <3>1. s = [left EXCEPT !.init = s.init, !.did = s.did]
        BY SentIsKnown
      <3>2. sessions'[current] = left
        BY <2>1
      <3> HIDE DEF left
      <3>3. wire'[current] = [left EXCEPT !.init = wire'[current].init, !.did = wire'[current].did]
        BY <2>1, <3>1
      <3> QED
        BY <3>2, <3>3
    <2>4. wire'[current].did = sessions'[current].did
      BY <1>2, <2>1
    <2> QED
      BY <1>4, <2>2, <2>3, <2>4 DEF Known
  <1> QED
    BY <1>1, <1>2, <1>3, <1>4

LEMMA IdleStep ==
    ASSUME SessionsInv, Idle, enabled' = enabled
    PROVE  SessionsInv'
  <1>1. /\ current' = current /\ user' = user /\ processed' = processed
        /\ idlePending' = FALSE /\ initialSessionSent' = TRUE
    BY DEF Idle
  <1>2. current \in SessionIndex /\ sessions[current] \in Session /\ sessions[current].status # "exited"
    BY Indexes DEF SessionsInv, SessionsExist
  <1>3. AsWorst(current)
    BY Indexes, OneByOne DEF SessionsInv
  <1>4. CASE initialSessionSent
    <2>1. UNCHANGED <<sessions, wire>>
      BY <1>4 DEF Idle
    <2>2. Reporting => Known(current)
      BY <1>4, Indexes, OneByOne DEF SessionsInv
    <2>3. Reporting' => Known(current)'
      BY <1>1, <2>1, <2>2 DEF Reporting, Known
    <2> QED
      BY <1>1, <1>2, <1>3, <2>1, <2>3, OnlyCurrent
         DEF SessionsInv, SessionsExist, SessionsTypeOK, UserIsOnSession, AsWorst, Reporting
  <1>5. CASE ~initialSessionSent
    <2>1. CaptureSession(current, sessions[current])
      BY <1>5 DEF Idle
    <2>2. SessionsTypeOK'
      BY <1>1, <1>2, <2>1, CaptureFacts DEF SessionsInv, SessionsExist, SessionsTypeOK
    <2>3. UserIsOnSession' /\ AsWorst(current)'
      BY <1>1, <1>2, <1>3, <2>1, CaptureFacts DEF SessionsInv, UserIsOnSession, AsWorst
    <2> QED
      BY <1>1, <1>2, <2>1, <2>2, <2>3, CaptureFacts, OnlyCurrent DEF Reporting
  <1> QED
    BY <1>4, <1>5

LEMMA ProcessEventStep ==
    ASSUME SessionsInv, NEW kind \in {"message", "error", "crash"}, ProcessEvent(kind), enabled' = enabled
    PROVE  SessionsInv'
  <1> DEFINE s == sessions[current]
             next == [s EXCEPT !.errors = IF @ = 1 \/ kind # "message" THEN 1 ELSE 0,
                               !.status = IF kind = "crash" THEN "crashed" ELSE @]
  <1>1. /\ current' = current /\ user' = user /\ idlePending' = idlePending
        /\ initialSessionSent' = initialSessionSent
        /\ processed' = [processed EXCEPT ![current] = @ \cup ({kind} \ {"message"})]
    BY DEF ProcessEvent
  <1>2. current \in SessionIndex /\ s \in Session /\ s.status # "exited"
    BY Indexes DEF SessionsInv, SessionsExist
  <1>3. AsWorst(current) /\ (s.errors = 1 \/ s.errors = 0)
    BY <1>2, Indexes, OneByOne DEF SessionsInv, Session
  <1>4. /\ processed' \in [SessionIndex -> SUBSET {"error", "crash"}]
        /\ processed'[current] = processed[current] \cup ({kind} \ {"message"})
        /\ \A i \in SessionIndex \ {current} : processed'[i] = processed[i]
    BY <1>1, <1>2 DEF SessionsInv, SessionsExist, SessionsTypeOK
  <1>5. CASE ShouldUpdate(s, kind)
    <2>1. CaptureSession(current, next)
      BY <1>5 DEF ProcessEvent
    <2>2. /\ next \in Session /\ next.did = s.did
          /\ next.errors = (IF s.errors = 1 \/ kind # "message" THEN 1 ELSE 0)
          /\ next.status = (IF kind = "crash" THEN "crashed" ELSE s.status)
      BY <1>2 DEF Session
    <2> HIDE DEF next
    <2>3. SessionsTypeOK'
      BY <1>1, <1>4, <2>1, <2>2, CaptureFacts DEF SessionsInv, SessionsExist, SessionsTypeOK
    <2>4. AsWorst(current)'
      BY <1>1, <1>3, <1>4, <1>5, <2>1, <2>2, CaptureFacts DEF AsWorst, ShouldUpdate
    <2>5. UserIsOnSession'
      BY <1>1, <1>2, <2>1, <2>2, CaptureFacts DEF SessionsInv, UserIsOnSession
    <2>6. sessions'[current] \in Session /\ sessions'[current].status # "exited"
      BY <1>2, <2>1, <2>2, CaptureFacts
    <2> QED
      BY <1>1, <1>4, <2>1, <2>2, <2>3, <2>4, <2>5, <2>6, CaptureFacts, OnlyCurrent DEF Reporting
  <1>6. CASE ~ShouldUpdate(s, kind)
    <2>1. UNCHANGED <<sessions, wire>>
      BY <1>6 DEF ProcessEvent
    <2>2. AsWorst(current)'
      <3>1. s.status = "crashed" \/ (s.errors = 1 /\ kind # "crash")
        BY <1>2, <1>3, <1>6 DEF ShouldUpdate, Session
      <3>2. s.status = "crashed" => s.errors = 1 /\ "crash" \in processed[current]
        BY <1>3 DEF AsWorst
      <3> QED
        BY <1>1, <1>3, <1>4, <2>1, <3>1, <3>2 DEF AsWorst
    <2>3. Reporting' /\ initialSessionSent' => Known(current)'
      BY <1>1, <2>1, Indexes, OneByOne DEF SessionsInv, Reporting, Known
    <2> QED
      BY <1>1, <1>2, <1>4, <2>1, <2>2, <2>3, OnlyCurrent
         DEF SessionsInv, SessionsExist, SessionsTypeOK, UserIsOnSession, Reporting
  <1> QED
    BY <1>5, <1>6
LEMMA SetUserStep ==
    ASSUME SessionsInv, NEW u \in User \cup {NoUser}, SetUser(u), enabled' = enabled
    PROVE  SessionsInv'
  <1> DEFINE s == sessions[current]
             updated == WithUser(s, u)
             changed == IdOf(user) # IdOf(u)
  <1>1. /\ user' = u /\ current' = current /\ idlePending' = idlePending
        /\ initialSessionSent' = initialSessionSent /\ processed' = processed
    BY DEF SetUser
  <1>2. current \in SessionIndex /\ s \in Session /\ s.status # "exited"
    BY Indexes DEF SessionsInv, SessionsExist
  <1>3. AsWorst(current)
    BY Indexes, OneByOne DEF SessionsInv
  <1>4. /\ updated \in Session /\ updated.status = s.status /\ updated.errors = s.errors
        /\ updated.did = IF s.did = NoUser THEN u ELSE s.did
    BY <1>2 DEF WithUser, Session
  <1>5. u # NoUser => updated.did # NoUser
    BY <1>4
  <1>6. CASE changed /\ initialSessionSent
    <2>1. CaptureSession(current, updated)
      BY <1>6 DEF SetUser
    <2> HIDE DEF updated
    <2>2. SessionsTypeOK'
      BY <1>1, <1>4, <2>1, CaptureFacts DEF SessionsInv, SessionsExist, SessionsTypeOK
    <2>3. UserIsOnSession' /\ AsWorst(current)'
      BY <1>1, <1>3, <1>4, <1>5, <2>1, CaptureFacts DEF UserIsOnSession, AsWorst
    <2>4. sessions'[current] \in Session /\ sessions'[current].status # "exited"
      BY <1>2, <1>4, <2>1, CaptureFacts
    <2> QED
      BY <1>1, <1>4, <2>1, <2>2, <2>3, <2>4, CaptureFacts, OnlyCurrent DEF Reporting
  <1>7. CASE ~(changed /\ initialSessionSent)
    <2>1. sessions' = [sessions EXCEPT ![current] = updated] /\ wire' = wire
      BY <1>7 DEF SetUser
    <2>2. Known(current) /\ initialSessionSent => Known(current)'
      <3> SUFFICES ASSUME Known(current), initialSessionSent PROVE Known(current)'
        OBVIOUS
      <3> DEFINE w == wire[current]
      <3>1. w # NoSession /\ w = [s EXCEPT !.init = w.init, !.did = w.did]
            /\ (w.did # s.did => s.did \notin Identified)
        BY DEF Known
      <3>2. w = [updated EXCEPT !.init = w.init, !.did = w.did]
        <4>1. w = [s EXCEPT !.init = w.init, !.did = w.did]
          BY <3>1
        <4> HIDE DEF w
        <4> QED
          BY <1>2, <4>1 DEF WithUser, Session
      <3>3. w.did # updated.did => updated.did \notin Identified
        <4>1. CASE updated.did = s.did
          BY <3>1, <4>1
        <4>2. CASE updated.did # s.did
          <5>1. s.did = NoUser /\ updated.did = u
            BY <1>4, <4>2
          <5>2. user = NoUser
            BY <5>1 DEF SessionsInv, UserIsOnSession
          <5>3. IdOf(user) = IdOf(u) /\ NoUser \notin Identified
            BY <1>7, SessionAssumption
          <5> QED
            BY <5>1, <5>2, <5>3 DEF IdOf
        <4> QED
          BY <4>1, <4>2
      <3>4. wire'[current] = w /\ sessions'[current] = updated
        BY <1>2, <2>1 DEF SessionsInv, SessionsExist, SessionsTypeOK
      <3> HIDE DEF w, updated
      <3>5. wire'[current] = [updated EXCEPT !.init = wire'[current].init, !.did = wire'[current].did]
        BY <3>2, <3>4
      <3>6. wire'[current] = [sessions'[current] EXCEPT !.init = wire'[current].init,
                                                       !.did = wire'[current].did]
        BY <3>4, <3>5
      <3> QED
        BY <1>1, <3>1, <3>3, <3>4, <3>6 DEF Known
    <2>3. sessions'[current] = updated /\ \A i \in SessionIndex \ {current} : sessions'[i] = sessions[i]
      BY <1>2, <2>1 DEF SessionsInv, SessionsExist, SessionsTypeOK
    <2> HIDE DEF updated
    <2>4. SessionsTypeOK'
      BY <1>1, <1>2, <1>4, <2>1 DEF SessionsInv, SessionsExist, SessionsTypeOK
    <2>5. UserIsOnSession' /\ AsWorst(current)'
      BY <1>1, <1>3, <1>4, <1>5, <2>3 DEF UserIsOnSession, AsWorst
    <2>6. Reporting' /\ initialSessionSent' => Known(current)'
      BY <1>1, <2>2, Indexes, OneByOne DEF SessionsInv, Reporting
    <2> QED
      BY <1>1, <1>2, <1>4, <2>1, <2>3, <2>4, <2>5, <2>6, OnlyCurrent DEF Reporting
  <1> QED
    BY <1>6, <1>7

LEMMA NavigateStep ==
    ASSUME SessionsInv, Navigate, enabled' = enabled
    PROVE  SessionsInv'
  <1> DEFINE old == ClosedSession(sessions[current])
             next == NewSession(user)
  <1>1. /\ current \in Nat /\ current \in SessionIndex /\ current + 1 \in SessionIndex
        /\ current' = current + 1 /\ initialSessionSent' = TRUE
        /\ user' = user /\ idlePending' = idlePending /\ processed' = processed
    BY Indexes, SessionAssumption DEF Navigate, SessionsInv, SessionIndex
  <1>2. sessions[current] \in Session /\ sessions[current].status # "exited"
    BY Indexes DEF SessionsInv, SessionsExist
  <1>3. /\ old \in Session /\ old.errors = sessions[current].errors
        /\ (old.status = "crashed" <=> sessions[current].status = "crashed")
    BY <1>2 DEF ClosedSession, Session
  <1>4. next \in Session /\ next.status = "ok" /\ next.errors = 0 /\ next.did = user
    BY DEF NewSession, Session, SessionsInv, SessionsExist, SessionsTypeOK
  <1>5. /\ sessions' = [sessions EXCEPT ![current] = AfterCapture(old), ![current + 1] = AfterCapture(next)]
        /\ wire' = Transmitted(Transmitted(wire, current, old), current + 1, next)
    BY DEF Navigate
  <1> HIDE DEF old, next
  <1>6. /\ AfterCapture(old) \in Session /\ AfterCapture(old).status = old.status
        /\ AfterCapture(old).errors = old.errors /\ old # NoSession
        /\ old = [AfterCapture(old) EXCEPT !.init = old.init]
    BY <1>3, SentIsKnown
  <1>7. /\ AfterCapture(next) \in Session /\ AfterCapture(next).status = next.status
        /\ AfterCapture(next).errors = next.errors /\ AfterCapture(next).did = next.did
        /\ next # NoSession
        /\ next = [AfterCapture(next) EXCEPT !.init = next.init, !.did = next.did]
    BY <1>4, SentIsKnown
  <1>8. /\ sessions \in [SessionIndex -> Session \cup {NoSession}]
        /\ wire \in [SessionIndex -> Session \cup {NoSession}]
    BY DEF SessionsInv, SessionsExist, SessionsTypeOK
  <1>9. /\ sessions' \in [SessionIndex -> Session \cup {NoSession}]
        /\ sessions'[current] = AfterCapture(old) /\ sessions'[current + 1] = AfterCapture(next)
        /\ \A i \in SessionIndex \ {current, current + 1} : sessions'[i] = sessions[i]
    BY <1>1, <1>5, <1>6, <1>7, <1>8
  <1>10. /\ wire' \in [SessionIndex -> Session \cup {NoSession}]
         /\ \A i \in SessionIndex \ {current, current + 1} : wire'[i] = wire[i]
         /\ Reporting => wire'[current] = old /\ wire'[current + 1] = next
    BY <1>1, <1>3, <1>4, <1>5, <1>8 DEF Transmitted, Reporting
  <1>11. 1..current' = (1..current) \cup {current + 1} /\ 1..current \subseteq SessionIndex
    BY <1>1, Indexes DEF SessionsInv
  <1>12. SessionsExist'
    <2>1. SessionsTypeOK'
      BY <1>1, <1>9, <1>10 DEF SessionsInv, SessionsExist, SessionsTypeOK
    <2>2. \A i \in 1..current' : sessions'[i] \in Session
      BY <1>1, <1>6, <1>7, <1>9, <1>11 DEF SessionsInv, SessionsExist
    <2>3. \A i \in SessionIndex : i > current' => processed'[i] = {}
      BY <1>1 DEF SessionsInv, SessionsExist, SessionIndex
    <2>4. sessions'[current'].status # "exited"
      BY <1>1, <1>4, <1>7, <1>9
    <2> QED
      BY <2>1, <2>2, <2>3, <2>4 DEF SessionsExist
  <1>13. UserIsOnSession'
    BY <1>1, <1>4, <1>7, <1>9 DEF UserIsOnSession
  <1>14. SessionsAsWorst'
    <2>1. \A i \in 1..current : i # current => AsWorst(i)'
      BY <1>1, <1>9, <1>11, OneByOne DEF SessionsInv, AsWorst
    <2>2. AsWorst(current)
      BY Indexes, OneByOne DEF SessionsInv
    <2>3. sessions'[current].status = "crashed" <=> "crash" \in processed'[current]
      BY <1>1, <1>3, <1>6, <1>9, <2>2 DEF AsWorst
    <2>4. sessions'[current].errors = 1 <=> {"error", "crash"} \cap processed'[current] # {}
      BY <1>1, <1>3, <1>6, <1>9, <2>2 DEF AsWorst
    <2>5. processed'[current + 1] = {}
      BY <1>1 DEF SessionsInv, SessionsExist
    <2>6. \A i \in 1..current' :
             /\ sessions'[i].status = "crashed" <=> "crash" \in processed'[i]
             /\ sessions'[i].errors = 1 <=> {"error", "crash"} \cap processed'[i] # {}
      BY <1>1, <1>4, <1>7, <1>9, <1>11, <2>1, <2>3, <2>4, <2>5 DEF AsWorst
    <2> QED
      BY <2>6 DEF SessionsAsWorst
  <1>15. WireIsCurrent'
    <2> SUFFICES ASSUME Reporting', NEW i \in 1..current'
                 PROVE  /\ i < current' => Replaced(i)'
                        /\ i = current' /\ initialSessionSent' => Known(i)'
      BY OneByOne
    <2>1. Reporting /\ wire'[current] = old /\ wire'[current + 1] = next
      BY <1>10 DEF Reporting
    <2>2. CASE i = current + 1
      <3>1. next = [AfterCapture(next) EXCEPT !.init = next.init, !.did = next.did]
        BY <1>7
      <3>2. wire'[i] = [sessions'[i] EXCEPT !.init = wire'[i].init, !.did = wire'[i].did]
        BY <1>9, <2>1, <2>2, <3>1
      <3> QED
        BY <1>1, <1>7, <1>9, <2>1, <2>2, <3>2 DEF Known
    <2>3. CASE i = current
      <3>1. wire'[i] = [sessions'[i] EXCEPT !.init = wire'[i].init]
        BY <1>6, <1>9, <2>1, <2>3
      <3> QED
        BY <1>1, <1>6, <2>1, <2>3, <3>1 DEF Replaced
    <2>4. CASE i \in 1..current /\ i # current
      <3>1. i < current /\ i \in SessionIndex \ {current, current + 1}
        BY <1>1, <1>11, <2>4
      <3>2. Replaced(i)
        BY <2>1, <2>4, <3>1, OneByOne DEF SessionsInv
      <3>3. Replaced(i)'
        BY <1>9, <1>10, <3>1, <3>2 DEF Replaced
      <3> QED
        BY <1>1, <3>1, <3>3
    <2> QED
      BY <1>11, <2>2, <2>3, <2>4
  <1> QED
    BY <1>12, <1>13, <1>14, <1>15 DEF SessionsInv
(* What happens elsewhere, even the end of close(), changes no session. *)
LEMMA SessionsUntouched ==
    ASSUME SessionsInv, UNCHANGED sessionVars, enabled' => enabled
    PROVE  SessionsInv'
  <1>1. /\ sessions' = sessions /\ current' = current /\ user' = user /\ wire' = wire
        /\ initialSessionSent' = initialSessionSent /\ idlePending' = idlePending /\ processed' = processed
    BY DEF sessionVars
  <1>2. SessionsExist' /\ UserIsOnSession' /\ SessionsAsWorst'
    BY <1>1 DEF SessionsInv, SessionsExist, SessionsTypeOK, UserIsOnSession, SessionsAsWorst
  <1>3. WireIsCurrent'
    BY <1>1 DEF SessionsInv, WireIsCurrent, Reporting
  <1> QED
    BY <1>2, <1>3 DEF SessionsInv

LEMMA SessionsInvInit == SessionsInit => SessionsInv
  <1> SUFFICES ASSUME SessionsInit PROVE SessionsInv
    OBVIOUS
  <1>1. 1 \in SessionIndex /\ 1..1 = {1} /\ current = 1 /\ user = NoUser
    BY SessionAssumption DEF SessionIndex, SessionsInit
  <1>2. /\ NewSession(NoUser) \in Session /\ NewSession(NoUser).status = "ok"
        /\ NewSession(NoUser).errors = 0
    BY DEF NewSession, Session
  <1>3. sessions[1] = NewSession(NoUser) /\ processed[1] = {} /\ ~initialSessionSent
    BY <1>1 DEF SessionsInit
  <1>4. SessionsTypeOK
    BY <1>1, <1>2 DEF SessionsInit, SessionsTypeOK
  <1>5. SessionsExist
    BY <1>1, <1>2, <1>3, <1>4 DEF SessionsExist, SessionsInit
  <1>6. UserIsOnSession
    BY <1>1 DEF UserIsOnSession
  <1>7. SessionsAsWorst
    BY <1>1, <1>2, <1>3 DEF SessionsAsWorst
  <1>8. WireIsCurrent
    BY <1>1, <1>3 DEF WireIsCurrent
  <1> QED
    BY <1>5, <1>6, <1>7, <1>8 DEF SessionsInv

(* The client is disabled once and for all, and only by close(). *)
LEMMA EnabledFalls == [Next]_vars => (enabled' => enabled)
  BY DEF Next, LogStep, SpanStep, RequestStep, SessionStep, Flush, CallClose, Close, vars, hookVars,
         Same, EmitFlush, BeginClose, EndClose

LEMMA SessionsInvStep == SessionsInv /\ [Next]_vars => SessionsInv'
  <1> SUFFICES ASSUME SessionsInv, [Next]_vars PROVE SessionsInv'
    OBVIOUS
  <1>1. CASE SessionStep
    <2>1. enabled' = enabled
      BY <1>1 DEF SessionStep, Same, hookVars
    <2> QED
      BY <1>1, <2>1, IdleStep, NavigateStep, SetUserStep, ProcessEventStep DEF SessionStep
  <1>2. CASE LogStep \/ SpanStep \/ RequestStep \/ Flush \/ CallClose \/ Close \/ UNCHANGED vars
    <2>1. UNCHANGED sessionVars
      BY <1>2 DEF LogStep, SpanStep, RequestStep, Flush, CallClose, Close, vars
    <2> QED
      BY <2>1, EnabledFalls, SessionsUntouched
  <1> QED
    BY <1>1, <1>2 DEF Next

(* Handing over an aggregate changes no request. *)
LEMMA FlushKeepsRequests ==
    RequestsOnFlush \/ FlushAggregate => UNCHANGED <<minute, requestStatus, recorded, exceptions>>
  BY DEF RequestsOnFlush, FlushAggregate, requestVars

LEMMA RequestsStep == RequestsInv /\ [Next]_vars => RequestsInv'
  <1> SUFFICES ASSUME RequestsInv, [Next]_vars PROVE RequestsInv'
    OBVIOUS
  <1>1. CASE RequestStep
    BY <1>1, RequestsInvStep, FlushKeepsRequests DEF RequestStep, AggregateTimerFires
  <1>2. CASE Flush \/ CallClose
    BY <1>2, RequestsInvStep, FlushKeepsRequests DEF Flush, CallClose, FlushHandlers
  <1>3. CASE LogStep \/ SpanStep \/ SessionStep \/ Close \/ UNCHANGED vars
    <2>1. UNCHANGED requestVars
      BY <1>3 DEF LogStep, SpanStep, SessionStep, Close, vars
    <2> QED
      BY <2>1, RequestsInvStep DEF requestVars
  <1> QED
    BY <1>1, <1>2, <1>3 DEF Next

(* server-runtime-client.ts, browsersession.ts, client.ts:1256: a request  *)
(* counts, and a page's session is reported, as the worst that happened in *)
(* it, and the last thing the server heard of a session is how it is.      *)
THEOREM SessionsTellTheTruth == Spec => []SessionsAreTruthful
  <1>1. Init => SessionsInv /\ RequestsInv
    BY SessionsInvInit, RequestsInvInit DEF Init
  <1>2. SessionsInv /\ RequestsInv => SessionsAreTruthful
    BY DEF SessionsInv, RequestsInv, SessionsAreTruthful
  <1> QED
    BY <1>1, <1>2, SessionsInvStep, RequestsStep, PTL DEF Spec
-----------------------------------------------------------------------------
(* Spans: where each of them is, and what a flush does to it *)

SpanState ==
    [buckets: [Trace -> SUBSET Span], timers: [Trace -> Nat], ended: SUBSET Span,
     sent: [Span -> Nat], dropped: SUBSET Span, lost: SUBSET Span]

(* Each span that ended is in one place, and each bucket is of one trace *)
(* and has one timer; whatever the number of spans in it.                *)
SpansFiled(b) ==
    /\ b \in SpanState
    /\ b.ended = HeldIn(b) \cup SentIn(b) \cup b.dropped \cup b.lost
    /\ HeldIn(b) \cap SentIn(b) = {} /\ HeldIn(b) \cap b.dropped = {} /\ HeldIn(b) \cap b.lost = {}
    /\ SentIn(b) \cap b.dropped = {} /\ SentIn(b) \cap b.lost = {} /\ b.dropped \cap b.lost = {}
    /\ \A t \in Trace : \A s \in b.buckets[t] : TraceOf[s] = t
    /\ \A t \in Trace : b.timers[t] = IF b.buckets[t] = {} THEN 0 ELSE 1

Below(b, t) == ~AtLimit(b.buckets[t])
AtMostTwice(b) == \A s \in Span : b.sent[s] <= 2

SpansInv == SpansFiled(spans) /\ (\A t \in Trace : Below(spans, t)) /\ AtMostTwice(spans)

(* What an operation may do to what is held: it takes new spans, lets some  *)
(* go, and a trace of which one goes goes as a whole; only a disabled       *)
(* client drops.                                                            *)
SpansMove(b, c) ==
    /\ b.ended \subseteq c.ended
    /\ HeldIn(c) \subseteq HeldIn(b) \cup (c.ended \ b.ended)
    /\ \A t \in Trace :
         (\E s \in (HeldIn(b) \cup (c.ended \ b.ended)) \ HeldIn(c) : TraceOf[s] = t)
             => b.buckets[t] \cap HeldIn(c) = {}
    /\ c.dropped \subseteq b.dropped \cup HeldIn(b) \cup (c.ended \ b.ended)

SpansPass(b, c) == SpansMove(b, c) /\ (enabled => c.dropped = b.dropped)

LEMMA HeldByTrace ==
    ASSUME NEW b, SpansFiled(b)
    PROVE  /\ HeldIn(b) \subseteq b.ended /\ b.ended \subseteq Span
           /\ \A s \in Span : TraceOf[s] \in Trace /\ (s \in HeldIn(b) <=> s \in b.buckets[TraceOf[s]])
           /\ \A t \in Trace : b.buckets[t] = {s \in HeldIn(b) : TraceOf[s] = t}
  BY SpanAssumption DEF SpansFiled, SpanState, HeldIn

LEMMA PassTwice ==
    ASSUME NEW b, NEW c, NEW d, SpansFiled(b), SpansFiled(c), SpansFiled(d),
           SpansPass(b, c), SpansPass(c, d)
    PROVE  SpansPass(b, d)
  <1>1. /\ HeldIn(b) \subseteq b.ended /\ HeldIn(c) \subseteq c.ended /\ HeldIn(d) \subseteq d.ended
        /\ b.ended \subseteq c.ended /\ c.ended \subseteq d.ended /\ d.ended \subseteq Span
        /\ \A t \in Trace : b.buckets[t] = {s \in HeldIn(b) : TraceOf[s] = t}
        /\ \A t \in Trace : c.buckets[t] = {s \in HeldIn(c) : TraceOf[s] = t}
    BY HeldByTrace DEF SpansPass, SpansMove
  <1>2. HeldIn(d) \subseteq HeldIn(b) \cup (d.ended \ b.ended)
    BY <1>1 DEF SpansPass, SpansMove
  <1>3. d.dropped \subseteq b.dropped \cup HeldIn(b) \cup (d.ended \ b.ended)
    BY <1>1 DEF SpansPass, SpansMove
  <1>4. ASSUME NEW t \in Trace, NEW s \in (HeldIn(b) \cup (d.ended \ b.ended)) \ HeldIn(d), TraceOf[s] = t
        PROVE  b.buckets[t] \cap HeldIn(d) = {}
    <2>1. b.buckets[t] \cap HeldIn(d) \subseteq b.buckets[t] \cap HeldIn(c)
      BY <1>1 DEF SpansPass, SpansMove
    <2>2. CASE s \in HeldIn(c) \/ s \notin c.ended
      <3>1. c.buckets[t] \cap HeldIn(d) = {}
        BY <1>1, <1>4, <2>2 DEF SpansPass, SpansMove
      <3>2. b.buckets[t] \cap HeldIn(c) \subseteq c.buckets[t]
        BY <1>1
      <3> QED
        BY <2>1, <3>1, <3>2
    <2>3. CASE s \notin HeldIn(c) /\ s \in c.ended
      <3>1. b.buckets[t] \cap HeldIn(c) = {}
        BY <1>1, <1>4, <2>3 DEF SpansPass, SpansMove
      <3> QED
        BY <2>1, <3>1
    <2> QED
      BY <2>2, <2>3
  <1> QED
    BY <1>1, <1>2, <1>3, <1>4 DEF SpansPass, SpansMove

LEMMA NoneIsNotTooMuch == ~AtLimit({})
  <1>1. Size({}) = SumOver(SpanSize, {})
    BY DEF Size, SumOver
  <1>2. Size({}) = 0
    BY <1>1, EmptySum
  <1>3. Cardinality({}) = 0
    BY FS_EmptySet
  <1> QED
    BY <1>2, <1>3, SpanAssumption DEF AtLimit

(* A span that ends joins the bucket of its trace. *)
LEMMA SpanIsStored ==
    ASSUME NEW b, SpansFiled(b), NEW s \in Span, s \notin b.ended
    PROVE  LET c == StoreSpan(b, s)
               t == TraceOf[s]
           IN /\ SpansFiled(c) /\ SpansPass(b, c)
              /\ c.ended = b.ended \cup {s} /\ c.sent = b.sent
              /\ c.buckets[t] = b.buckets[t] \cup {s}
              /\ \A u \in Trace \ {t} : c.buckets[u] = b.buckets[u]
  <1> DEFINE c == StoreSpan(b, s)
             t == TraceOf[s]
             timers == b.timers[t] + IF b.buckets[t] = {} THEN 1 ELSE 0
  <1>1. t \in Trace /\ b \in SpanState /\ b.timers[t] = IF b.buckets[t] = {} THEN 0 ELSE 1
    BY SpanAssumption DEF SpansFiled
  <1>2. timers = 1
    BY <1>1
  <1>3. /\ c.ended = b.ended \cup {s} /\ c.sent = b.sent /\ c.dropped = b.dropped /\ c.lost = b.lost
        /\ c.buckets[t] = b.buckets[t] \cup {s} /\ \A u \in Trace \ {t} : c.buckets[u] = b.buckets[u]
        /\ c.timers[t] = 1 /\ \A u \in Trace \ {t} : c.timers[u] = b.timers[u]
        /\ c \in SpanState
    <2>1. c = [b EXCEPT !.ended = b.ended \cup {s}, !.buckets = [b.buckets EXCEPT ![t] = @ \cup {s}],
                        !.timers = [b.timers EXCEPT ![t] = timers]]
      BY DEF StoreSpan
    <2> HIDE DEF c, timers
    <2> QED
      BY <1>1, <1>2, <2>1 DEF SpanState
  <1> HIDE DEF c
  <1>4. HeldIn(c) = HeldIn(b) \cup {s} /\ SentIn(c) = SentIn(b)
    BY <1>1, <1>3 DEF HeldIn, SentIn
  <1>5. SpansFiled(c)
    <2>1. s \notin HeldIn(b) /\ s \notin SentIn(b) /\ s \notin b.dropped /\ s \notin b.lost
      BY DEF SpansFiled
    <2>2. c.ended = HeldIn(c) \cup SentIn(c) \cup c.dropped \cup c.lost
      BY <1>3, <1>4 DEF SpansFiled
    <2>3. \A u \in Trace : \A x \in c.buckets[u] : TraceOf[x] = u
      BY <1>3 DEF SpansFiled
    <2>4. \A u \in Trace : c.timers[u] = IF c.buckets[u] = {} THEN 0 ELSE 1
      BY <1>3 DEF SpansFiled
    <2> QED
      BY <1>3, <1>4, <2>1, <2>2, <2>3, <2>4 DEF SpansFiled
  <1>6. SpansPass(b, c)
    <2>1. HeldIn(b) \subseteq b.ended
      BY HeldByTrace
    <2> QED
      BY <1>3, <1>4, <2>1 DEF SpansPass, SpansMove
  <1> QED
    BY <1>3, <1>5, <1>6 DEF c

(* What an envelope took is sent, or was dropped by a disabled client. *)
Taken(b, s) == IF enabled THEN s \in SentIn(b) ELSE s \in b.dropped

(* The end of a flush: the envelope takes its spans, and the bucket goes with *)
(* all it holds by now.                                                       *)
LEMMA BucketGoes ==
    ASSUME NEW b, SpansFiled(b), NEW t \in Trace, NEW items \in SUBSET Span,
           \A s \in items : s \in b.buckets[t] \/ Taken(b, s)
    PROVE  LET c == RemoveTrace(SendSpans(b, items), t)
           IN /\ SpansFiled(c) /\ SpansPass(b, c)
              /\ c.ended = b.ended /\ \A s \in items : Taken(c, s)
              /\ \A s \in Span : c.sent[s] <= b.sent[s] + IF s \in items THEN 1 ELSE 0
              /\ c.buckets[t] = {} /\ \A u \in Trace \ {t} : c.buckets[u] = b.buckets[u]
  <1> DEFINE d == SendSpans(b, items)
             c == RemoveTrace(d, t)
  <1>1. b \in SpanState /\ b.timers[t] = IF b.buckets[t] = {} THEN 0 ELSE 1
    BY DEF SpansFiled
  <1>2. /\ d \in SpanState /\ d.buckets = b.buckets /\ d.timers = b.timers /\ d.ended = b.ended /\ d.lost = b.lost
        /\ d.dropped = (IF enabled THEN b.dropped ELSE b.dropped \cup items)
        /\ \A s \in Span : d.sent[s] = b.sent[s] + IF enabled /\ s \in items THEN 1 ELSE 0
        /\ \A s \in Span : d.sent[s] \in Nat /\ b.sent[s] \in Nat
    <2>1. CASE enabled
      <3>1. d = [b EXCEPT !.sent = [s \in Span |-> b.sent[s] + IF s \in items THEN 1 ELSE 0]]
        BY <2>1 DEF SendSpans
      <3>2. [s \in Span |-> b.sent[s] + IF s \in items THEN 1 ELSE 0] \in [Span -> Nat]
        BY <1>1 DEF SpanState
      <3> HIDE DEF d
      <3> QED
        BY <1>1, <2>1, <3>1, <3>2 DEF SpanState
    <2>2. CASE ~enabled
      <3>1. d = [b EXCEPT !.dropped = b.dropped \cup items]
        BY <2>2 DEF SendSpans
      <3> HIDE DEF d
      <3> QED
        BY <1>1, <2>2, <3>1 DEF SpanState
    <2> QED
      BY <2>1, <2>2
  <1>3. SentIn(d) = IF enabled THEN SentIn(b) \cup items ELSE SentIn(b)
    <2> HIDE DEF d
    <2> QED
      BY <1>2 DEF SentIn
  <1> DEFINE left == b.buckets[t] \ (SentIn(d) \cup d.dropped)
  <1>4. /\ c \in SpanState /\ c.ended = b.ended /\ c.sent = d.sent /\ c.dropped = d.dropped
        /\ c.lost = b.lost \cup left
        /\ c.buckets[t] = {} /\ \A u \in Trace \ {t} : c.buckets[u] = b.buckets[u]
        /\ c.timers[t] = 0 /\ \A u \in Trace \ {t} : c.timers[u] = b.timers[u]
    <2> HIDE DEF d
    <2>1. CASE b.buckets[t] = {}
      BY <1>1, <1>2, <2>1 DEF RemoveTrace
    <2>2. CASE b.buckets[t] # {}
      <3>1. Cleared(b.timers[t]) = 0
        BY <1>1, <2>2 DEF Cleared
      <3>2. c = [d EXCEPT !.buckets = [b.buckets EXCEPT ![t] = {}], !.timers = [b.timers EXCEPT ![t] = 0],
                          !.lost = b.lost \cup left]
        BY <1>2, <2>2, <3>1 DEF RemoveTrace
      <3>3. b.lost \cup left \in SUBSET Span
        BY <1>1 DEF SpanState
      <3> HIDE DEF c, left
      <3> QED
        BY <1>1, <1>2, <3>2, <3>3 DEF SpanState
    <2> QED
      BY <2>1, <2>2
  <1> HIDE DEF c, d
  <1>5. SentIn(c) = SentIn(d)
    BY <1>4 DEF SentIn
  <1>6. HeldIn(c) = HeldIn(b) \ b.buckets[t] /\ b.buckets[t] \subseteq HeldIn(b)
    <2>1. b.buckets[t] = {s \in HeldIn(b) : TraceOf[s] = t}
      BY HeldByTrace
    <2>2. \A u \in Trace : b.buckets[u] = {s \in HeldIn(b) : TraceOf[s] = u}
      BY HeldByTrace
    <2>3. HeldIn(c) \subseteq HeldIn(b) \ b.buckets[t]
      BY <1>4, <2>2 DEF HeldIn
    <2>4. HeldIn(b) \ b.buckets[t] \subseteq HeldIn(c)
      BY <1>4, <2>2 DEF HeldIn
    <2> QED
      BY <2>1, <2>3, <2>4
  <1>7. items \cap HeldIn(b) \subseteq b.buckets[t] /\ items \cap b.lost = {}
    BY <1>6 DEF Taken, SpansFiled
  <1>8. SpansFiled(c)
    <2>1. c.ended = HeldIn(c) \cup SentIn(c) \cup c.dropped \cup c.lost
      <3>1. items \subseteq b.ended
        BY <1>6 DEF Taken, SpansFiled
      <3> QED
        BY <1>2, <1>3, <1>4, <1>5, <1>6, <3>1 DEF SpansFiled
    <2>2. HeldIn(c) \cap SentIn(c) = {} /\ HeldIn(c) \cap c.dropped = {} /\ HeldIn(c) \cap c.lost = {}
      BY <1>2, <1>3, <1>4, <1>5, <1>6, <1>7 DEF SpansFiled
    <2>3. SentIn(c) \cap c.dropped = {}
      <3>1. CASE enabled
        BY <1>2, <1>3, <1>4, <1>5, <1>6, <3>1 DEF SpansFiled, Taken
      <3>2. CASE ~enabled
        BY <1>2, <1>3, <1>4, <1>5, <1>6, <3>2 DEF SpansFiled, Taken
      <3> QED
        BY <3>1, <3>2
    <2>4. SentIn(c) \cap c.lost = {} /\ c.dropped \cap c.lost = {}
      BY <1>2, <1>3, <1>4, <1>5, <1>7 DEF SpansFiled
    <2>5. \A u \in Trace : \A x \in c.buckets[u] : TraceOf[x] = u
      BY <1>4 DEF SpansFiled
    <2>6. \A u \in Trace : c.timers[u] = IF c.buckets[u] = {} THEN 0 ELSE 1
      BY <1>4 DEF SpansFiled
    <2> QED
      BY <1>4, <2>1, <2>2, <2>3, <2>4, <2>5, <2>6 DEF SpansFiled
  <1>9. SpansPass(b, c)
    <2>1. \A u \in Trace : (\E s \in HeldIn(b) \ HeldIn(c) : TraceOf[s] = u) => b.buckets[u] \cap HeldIn(c) = {}
      <3>1. b.buckets[t] = {s \in HeldIn(b) : TraceOf[s] = t}
        BY HeldByTrace
      <3> QED
        BY <1>6, <3>1
    <2>2. c.dropped \subseteq b.dropped \cup HeldIn(b) /\ (enabled => c.dropped = b.dropped)
      BY <1>2, <1>4, <1>6 DEF Taken
    <2> QED
      BY <1>4, <1>6, <2>1, <2>2 DEF SpansPass, SpansMove
  <1>10. \A s \in items : Taken(c, s)
    BY <1>2, <1>3, <1>4, <1>5 DEF Taken
  <1>11. \A s \in Span : c.sent[s] <= b.sent[s] + IF s \in items THEN 1 ELSE 0
    BY <1>2, <1>4
  <1> QED
    BY <1>4, <1>8, <1>9, <1>10, <1>11 DEF c, d

LEMMA WholeBucketGoes ==
    ASSUME NEW b, SpansFiled(b), NEW t \in Trace
    PROVE  LET c == RemoveTrace(SendSpans(b, b.buckets[t]), t)
           IN /\ SpansFiled(c) /\ SpansPass(b, c)
              /\ c.ended = b.ended /\ \A s \in b.buckets[t] : Taken(c, s)
              /\ \A s \in Span : c.sent[s] <= b.sent[s] + IF s \in b.buckets[t] THEN 1 ELSE 0
              /\ c.buckets[t] = {} /\ \A u \in Trace \ {t} : c.buckets[u] = b.buckets[u]
  <1>1. b.buckets[t] \in SUBSET Span
    BY DEF SpansFiled, SpanState
  <1> QED
    BY <1>1, BucketGoes

LEMMA NoPass == ASSUME NEW b PROVE SpansPass(b, b)
  BY DEF SpansPass, SpansMove

(* While the bucket of t is sent, a handler ends n: the spans being sent are *)
(* still in the bucket, or the bucket was flushed once more and took them.   *)
LEMMA HandlerEnds ==
    ASSUME NEW b, SpansFiled(b), NEW t \in Trace, NEW n \in Span \cup {NoSpan}
    PROVE  LET c == SpanEnds(b, n)
           IN /\ SpansFiled(c) /\ SpansPass(b, c)
              /\ \A s \in b.buckets[t] : (s \in c.buckets[t] /\ c.sent[s] = b.sent[s]) \/ Taken(c, s)
              /\ \A s \in Span : c.sent[s] <= b.sent[s] + (IF s \in b.buckets[t] THEN 1 ELSE 0)
                                 \/ (b.sent[s] = 0 /\ c.sent[s] <= 1)
              /\ \A u \in Trace \ {t} : Below(b, u) => Below(c, u)
  <1> DEFINE c == SpanEnds(b, n)
             d == StoreSpan(b, n)
             e == RemoveTrace(SendSpans(d, d.buckets[TraceOf[n]]), TraceOf[n])
  <1>0. \A s \in Span : b.sent[s] \in Nat
    BY DEF SpansFiled, SpanState
  <1>1. CASE n = NoSpan \/ n \in b.ended
    <2>1. c = b
      BY <1>1 DEF SpanEnds
    <2> HIDE DEF c
    <2> QED
      BY <1>0, <2>1, NoPass DEF c
  <1>2. CASE n # NoSpan /\ n \notin b.ended
    <2>1. n \in Span /\ TraceOf[n] \in Trace
      BY <1>2, SpanAssumption
    <2>2. c = IF AtLimit(d.buckets[TraceOf[n]]) THEN e ELSE d
      BY <1>2 DEF SpanEnds
    <2>3. /\ SpansFiled(d) /\ SpansPass(b, d) /\ d.sent = b.sent
          /\ d.buckets[TraceOf[n]] = b.buckets[TraceOf[n]] \cup {n}
          /\ \A u \in Trace \ {TraceOf[n]} : d.buckets[u] = b.buckets[u]
      BY <1>2, <2>1, SpanIsStored
    <2> HIDE DEF c, d
    <2>4. CASE ~AtLimit(d.buckets[TraceOf[n]])
      <3>1. c = d
        BY <2>2, <2>4
      <3>2. \A s \in b.buckets[t] : s \in c.buckets[t]
        BY <2>3, <3>1
      <3>3. \A u \in Trace \ {t} : Below(b, u) => Below(c, u)
        BY <2>3, <2>4, <3>1 DEF Below
      <3> QED
        BY <1>0, <2>3, <3>1, <3>2, <3>3 DEF c
    <2>5. CASE AtLimit(d.buckets[TraceOf[n]])
      <3>1. c = e
        BY <2>2, <2>5
      <3>2. /\ SpansFiled(e) /\ SpansPass(d, e) /\ \A s \in d.buckets[TraceOf[n]] : Taken(e, s)
            /\ \A s \in Span : e.sent[s] <= d.sent[s] + IF s \in d.buckets[TraceOf[n]] THEN 1 ELSE 0
            /\ e.buckets[TraceOf[n]] = {} /\ \A u \in Trace \ {TraceOf[n]} : e.buckets[u] = d.buckets[u]
        BY <2>1, <2>3, WholeBucketGoes
      <3> HIDE DEF e
      <3>3. SpansPass(b, e)
        BY <2>3, <3>2, PassTwice
      <3>4. \A s \in Span : e.sent[s] \in Nat
        BY <3>2 DEF SpansFiled, SpanState
      <3>5. \A s \in d.buckets[TraceOf[n]] : d.sent[s] = 0
        <4>1. /\ \A s \in Span : d.sent[s] \in Nat
              /\ d.buckets[TraceOf[n]] = {s \in HeldIn(d) : TraceOf[s] = TraceOf[n]}
          <5>1. d.buckets[TraceOf[n]] = {s \in HeldIn(d) : TraceOf[s] = TraceOf[n]}
            BY <2>1, <2>3, HeldByTrace
          <5> QED
            BY <2>3, <5>1 DEF SpansFiled, SpanState
        <4>2. \A s \in HeldIn(d) : s \notin SentIn(d)
          BY <2>3 DEF SpansFiled
        <4>3. d.buckets[TraceOf[n]] \in SUBSET Span
          BY <2>1, <2>3 DEF SpansFiled, SpanState
        <4> QED
          BY <4>1, <4>2, <4>3 DEF SentIn
      <3>6. \A s \in Span : e.sent[s] <= b.sent[s] + (IF s \in b.buckets[t] THEN 1 ELSE 0)
                            \/ (b.sent[s] = 0 /\ e.sent[s] <= 1)
        <4> TAKE s \in Span
        <4>1. CASE s \in d.buckets[TraceOf[n]]
          BY <1>0, <2>3, <3>2, <3>4, <3>5, <4>1
        <4>2. CASE s \notin d.buckets[TraceOf[n]]
          <5>1. e.sent[s] <= d.sent[s] + (IF s \in d.buckets[TraceOf[n]] THEN 1 ELSE 0)
            BY <3>2
          <5>2. e.sent[s] <= b.sent[s]
            BY <1>0, <2>3, <3>4, <4>2, <5>1
          <5> QED
            BY <1>0, <3>4, <5>2
        <4> QED
          BY <4>1, <4>2
      <3>7. \A s \in b.buckets[t] : (s \in e.buckets[t] /\ e.sent[s] = b.sent[s]) \/ Taken(e, s)
        <4>1. CASE TraceOf[n] = t
          BY <2>3, <3>2, <4>1
        <4>2. CASE TraceOf[n] # t
          <5>1. b.buckets[t] \in SUBSET Span /\ e.buckets[t] = b.buckets[t] /\ d.buckets[t] = b.buckets[t]
            BY <2>3, <3>2, <4>2 DEF SpansFiled, SpanState
          <5>2. \A s \in b.buckets[t] : TraceOf[s] = t /\ s \in HeldIn(e)
            <6>1. e.buckets[t] = {s \in HeldIn(e) : TraceOf[s] = t}
              BY <3>2, HeldByTrace
            <6> QED
              BY <5>1, <6>1
          <5>3. \A s \in b.buckets[t] : s \notin SentIn(e) /\ e.sent[s] = 0 /\ b.sent[s] = 0
            <6>1. \A s \in HeldIn(e) : s \notin SentIn(e)
              BY <3>2 DEF SpansFiled
            <6>2. \A s \in b.buckets[t] : s \notin SentIn(b)
              BY HeldByTrace DEF SpansFiled
            <6> QED
              BY <1>0, <3>4, <5>1, <5>2, <6>1, <6>2 DEF SentIn
          <5> QED
            BY <5>1, <5>3
        <4> QED
          BY <4>1, <4>2
      <3>8. \A u \in Trace \ {t} : Below(b, u) => Below(e, u)
        BY <2>3, <3>2, NoneIsNotTooMuch DEF Below
      <3> QED
        BY <3>1, <3>2, <3>3, <3>6, <3>7, <3>8 DEF c
    <2> QED
      BY <2>4, <2>5
  <1> QED
    BY <1>1, <1>2

(* A flush of one trace, whatever a handler ends meanwhile *)
LEMMA TraceIsFlushed ==
    ASSUME NEW b, SpansFiled(b), AtMostTwice(b), NEW t \in Trace, NEW n \in Span \cup {NoSpan},
           \A u \in Trace \ {t} : Below(b, u)
    PROVE  LET c == FlushTrace(b, t, n)
           IN SpansFiled(c) /\ SpansPass(b, c) /\ AtMostTwice(c) /\ \A u \in Trace : Below(c, u)
  <1> DEFINE d == SpanEnds(b, n)
             items == b.buckets[t]
             c == RemoveTrace(SendSpans(d, items), t)
  <1>1. CASE items = {}
    <2>1. FlushTrace(b, t, n) = b
      BY <1>1 DEF FlushTrace
    <2> QED
      BY <1>1, <2>1, NoPass, NoneIsNotTooMuch DEF Below
  <1>2. CASE items # {}
    <2>1. FlushTrace(b, t, n) = c
      BY <1>2 DEF FlushTrace
    <2>2. /\ SpansFiled(d) /\ SpansPass(b, d)
          /\ \A s \in items : (s \in d.buckets[t] /\ d.sent[s] = b.sent[s]) \/ Taken(d, s)
          /\ \A s \in Span : d.sent[s] <= b.sent[s] + (IF s \in items THEN 1 ELSE 0)
                             \/ (b.sent[s] = 0 /\ d.sent[s] <= 1)
          /\ \A u \in Trace \ {t} : Below(d, u)
      BY HandlerEnds
    <2>3. items \in SUBSET Span
      BY DEF SpansFiled, SpanState
    <2> HIDE DEF d
    <2>4. /\ SpansFiled(c) /\ SpansPass(d, c)
          /\ \A s \in Span : c.sent[s] <= d.sent[s] + IF s \in items THEN 1 ELSE 0
          /\ c.buckets[t] = {} /\ \A u \in Trace \ {t} : c.buckets[u] = d.buckets[u]
      <3> HIDE DEF items
      <3>1. \A s \in items : s \in d.buckets[t] \/ Taken(d, s)
        BY <2>2
      <3> QED
        BY <2>2, <2>3, <3>1, BucketGoes
    <2>5. \A s \in items : b.sent[s] = 0
      <3>1. \A s \in items : s \notin SentIn(b)
        BY HeldByTrace DEF SpansFiled
      <3>2. \A s \in Span : b.sent[s] \in Nat
        BY DEF SpansFiled, SpanState
      <3> QED
        BY <2>3, <3>1, <3>2 DEF SentIn
    <2> HIDE DEF c, items
    <2>6. AtMostTwice(c)
      <3>1. \A s \in Span : b.sent[s] \in Nat /\ c.sent[s] \in Nat /\ d.sent[s] \in Nat /\ b.sent[s] <= 2
        BY <2>2, <2>4 DEF SpansFiled, SpanState, AtMostTwice
      <3> SUFFICES ASSUME NEW s \in Span PROVE c.sent[s] <= 2
        BY DEF AtMostTwice
      <3>2. CASE s \in items
        BY <2>2, <2>4, <2>5, <3>1, <3>2
      <3>3. CASE s \notin items
        BY <2>2, <2>4, <3>1, <3>3
      <3> QED
        BY <3>2, <3>3
    <2>7. \A u \in Trace : Below(c, u)
      BY <2>2, <2>4, NoneIsNotTooMuch DEF Below
    <2> QED
      BY <2>1, <2>2, <2>4, <2>6, <2>7, PassTwice
  <1> QED
    BY <1>1, <1>2

(* All buckets go: sent, or dropped by the hook 'close'. *)
LEMMA AllGo ==
    ASSUME NEW b, SpansFiled(b), AtMostTwice(b), NEW d \in {SendSpans(b, HeldIn(b)), [b EXCEPT !.dropped = @ \cup HeldIn(b)]}
    PROVE  LET c == NoBuckets(d)
           IN /\ SpansFiled(c) /\ SpansMove(b, c) /\ AtMostTwice(c) /\ HeldIn(c) = {}
              /\ \A t \in Trace : Below(c, t)
              /\ enabled /\ d = SendSpans(b, HeldIn(b)) => c.dropped = b.dropped
  <1> DEFINE c == NoBuckets(d)
             held == HeldIn(b)
  <1>1. b \in SpanState /\ held \in SUBSET Span /\ \A s \in held : s \notin SentIn(b)
    BY HeldByTrace DEF SpansFiled
  <1>2. /\ d \in SpanState /\ d.buckets = b.buckets /\ d.timers = b.timers /\ d.ended = b.ended /\ d.lost = b.lost
        /\ \/ /\ \A s \in Span : d.sent[s] = b.sent[s] + (IF s \in held THEN 1 ELSE 0)
              /\ d.dropped = b.dropped
           \/ d.sent = b.sent /\ d.dropped = b.dropped \cup held
        /\ enabled /\ d = SendSpans(b, HeldIn(b)) => d.dropped = b.dropped
    <2>1. CASE enabled /\ d = SendSpans(b, HeldIn(b))
      <3>1. d = [b EXCEPT !.sent = [s \in Span |-> b.sent[s] + IF s \in held THEN 1 ELSE 0]]
        BY <2>1 DEF SendSpans
      <3>2. [s \in Span |-> b.sent[s] + IF s \in held THEN 1 ELSE 0] \in [Span -> Nat]
        BY <1>1 DEF SpanState
      <3> HIDE DEF held
      <3> QED
        BY <1>1, <3>1, <3>2 DEF SpanState
    <2>2. CASE ~(enabled /\ d = SendSpans(b, HeldIn(b)))
      <3>1. d = [b EXCEPT !.dropped = b.dropped \cup held]
        BY <2>2 DEF SendSpans
      <3> HIDE DEF held
      <3> QED
        BY <1>1, <2>2, <3>1 DEF SpanState, held
    <2> QED
      BY <2>1, <2>2
  <1>3. /\ c \in SpanState /\ c.ended = b.ended /\ c.lost = b.lost /\ c.sent = d.sent /\ c.dropped = d.dropped
        /\ \A t \in Trace : c.buckets[t] = {} /\ c.timers[t] = 0
    <2>1. \A t \in Trace : (IF d.buckets[t] = {} THEN d.timers[t] ELSE Cleared(d.timers[t])) = 0
      BY <1>2 DEF Cleared, SpansFiled
    <2>2. c = [d EXCEPT !.buckets = [t \in Trace |-> {}], !.timers = [t \in Trace |-> 0]]
      BY <1>2, <2>1 DEF NoBuckets, SpanState
    <2> HIDE DEF c
    <2> QED
      BY <1>2, <2>2 DEF SpanState
  <1>4. HeldIn(c) = {} /\ SentIn(c) = SentIn(d)
    BY <1>3 DEF HeldIn, SentIn
  <1>5. \/ SentIn(d) = SentIn(b) \cup held /\ d.dropped = b.dropped
        \/ SentIn(d) = SentIn(b) /\ d.dropped = b.dropped \cup held
    <2>1. \A s \in Span : b.sent[s] \in Nat
      BY <1>1 DEF SpanState
    <2> HIDE DEF held
    <2>2. CASE /\ \A s \in Span : d.sent[s] = b.sent[s] + (IF s \in held THEN 1 ELSE 0)
               /\ d.dropped = b.dropped
      <3>1. \A s \in Span : d.sent[s] > 0 <=> (b.sent[s] > 0 \/ s \in held)
        BY <2>1, <2>2
      <3>2. SentIn(d) = SentIn(b) \cup held
        BY <1>1, <3>1 DEF SentIn
      <3> QED
        BY <2>2, <3>2
    <2>3. CASE d.sent = b.sent /\ d.dropped = b.dropped \cup held
      BY <2>3 DEF SentIn
    <2> QED
      BY <1>2, <2>2, <2>3
  <1> HIDE DEF c
  <1>6. SpansFiled(c)
    <2>1. c.ended = HeldIn(c) \cup SentIn(c) \cup c.dropped \cup c.lost
      BY <1>3, <1>4, <1>5 DEF SpansFiled
    <2>2. SentIn(c) \cap c.dropped = {} /\ SentIn(c) \cap c.lost = {} /\ c.dropped \cap c.lost = {}
      BY <1>3, <1>4, <1>5 DEF SpansFiled
    <2> QED
      BY <1>3, <1>4, <2>1, <2>2 DEF SpansFiled
  <1>7. SpansMove(b, c)
    BY <1>2, <1>3, <1>4 DEF SpansMove
  <1>8. AtMostTwice(c)
    <2>1. \A s \in Span : b.sent[s] \in Nat /\ (s \in held => b.sent[s] = 0)
      BY <1>1 DEF SpanState, SentIn
    <2> HIDE DEF held
    <2> QED
      BY <1>2, <1>3, <2>1 DEF AtMostTwice
  <1>9. \A t \in Trace : Below(c, t)
    BY <1>3, NoneIsNotTooMuch DEF Below
  <1> QED
    BY <1>2, <1>3, <1>4, <1>6, <1>7, <1>8, <1>9 DEF c

LEMMA SpanStepMoves ==
    ASSUME SpansInv, SpanStep
    PROVE  SpansInv' /\ SpansPass(spans, spans')
  <1>1. PICK n \in HandledSpans : (\E s \in Span : AddSpan(s, n)) \/ \E t \in Trace : SpanTimerFires(t, n)
    BY DEF SpanStep
  <1>2. n \in Span \cup {NoSpan}
    BY FeatureAssumption DEF HandledSpans
  <1>3. /\ SpansFiled(spans) /\ AtMostTwice(spans) /\ \A t \in Trace : Below(spans, t)
    BY DEF SpansInv
  <1>4. ASSUME NEW s \in Span, AddSpan(s, n) PROVE SpansInv' /\ SpansPass(spans, spans')
    <2> DEFINE b == StoreSpan(spans, s)
               t == TraceOf[s]
    <2>1. /\ SpansFiled(b) /\ SpansPass(spans, b) /\ b.sent = spans.sent /\ t \in Trace
          /\ \A u \in Trace \ {t} : b.buckets[u] = spans.buckets[u]
      BY <1>3, <1>4, SpanIsStored, SpanAssumption DEF AddSpan
    <2>2. spans' = IF AtLimit(b.buckets[t]) THEN FlushTrace(b, t, n) ELSE b
      BY <1>4 DEF AddSpan
    <2> HIDE DEF b
    <2>3. AtMostTwice(b) /\ \A u \in Trace \ {t} : Below(b, u)
      BY <1>3, <2>1 DEF AtMostTwice, Below
    <2>4. CASE AtLimit(b.buckets[t])
      <3> DEFINE c == FlushTrace(b, t, n)
      <3>1. SpansFiled(c) /\ SpansPass(b, c) /\ AtMostTwice(c) /\ \A u \in Trace : Below(c, u)
        BY <1>2, <2>1, <2>3, TraceIsFlushed
      <3>2. spans' = c
        BY <2>2, <2>4
      <3> HIDE DEF c
      <3>3. SpansPass(spans, c)
        BY <1>3, <2>1, <3>1, PassTwice
      <3> QED
        BY <3>1, <3>2, <3>3 DEF SpansInv, SpansFiled, AtMostTwice, Below
    <2>5. CASE ~AtLimit(b.buckets[t])
      <3>1. spans' = b /\ \A u \in Trace : Below(b, u)
        BY <2>2, <2>3, <2>5 DEF Below
      <3> QED
        BY <2>1, <2>3, <3>1 DEF SpansInv, SpansFiled, AtMostTwice, Below
    <2> QED
      BY <2>4, <2>5
  <1>5. ASSUME NEW t \in Trace, SpanTimerFires(t, n) PROVE SpansInv' /\ SpansPass(spans, spans')
    <2>1. spans.timers[t] = IF spans.buckets[t] = {} THEN 0 ELSE 1
      BY <1>3 DEF SpansFiled
    <2>2. spans.buckets[t] # {}
      BY <1>5, <2>1 DEF SpanTimerFires
    <2> DEFINE c == FlushTrace(spans, t, n)
    <2>3. spans' = c
      BY <1>5, <2>2 DEF SpanTimerFires
    <2>4. SpansFiled(c) /\ SpansPass(spans, c) /\ AtMostTwice(c) /\ \A u \in Trace : Below(c, u)
      BY <1>2, <1>3, TraceIsFlushed
    <2> HIDE DEF c
    <2> QED
      BY <2>3, <2>4 DEF SpansInv, SpansFiled, AtMostTwice, Below
  <1> QED
    BY <1>1, <1>4, <1>5

LEMMA DrainMoves ==
    ASSUME SpansInv, NEW n \in HandledSpans, Drain(n)
    PROVE  SpansInv' /\ SpansPass(spans, spans') /\ Held' = {}
  <1>1. n \in Span \cup {NoSpan}
    BY FeatureAssumption DEF HandledSpans
  <1>2. PICK t \in Trace : LET b == FlushTrace(spans, t, n) IN spans' = NoBuckets(SendSpans(b, HeldIn(b)))
    BY DEF Drain
  <1> DEFINE b == FlushTrace(spans, t, n)
             d == SendSpans(b, HeldIn(b))
             c == NoBuckets(d)
  <1>3. SpansFiled(spans) /\ SpansFiled(b) /\ SpansPass(spans, b) /\ AtMostTwice(b)
    BY <1>1, TraceIsFlushed DEF SpansInv
  <1> HIDE DEF b
  <1>4. d \in {SendSpans(b, HeldIn(b)), [b EXCEPT !.dropped = @ \cup HeldIn(b)]}
    OBVIOUS
  <1>5. /\ SpansFiled(c) /\ SpansMove(b, c) /\ AtMostTwice(c) /\ HeldIn(c) = {} /\ \A u \in Trace : Below(c, u)
        /\ enabled => c.dropped = b.dropped
    BY <1>3, <1>4, AllGo
  <1>6. spans' = c
    BY <1>2 DEF b
  <1> HIDE DEF c
  <1>7. SpansPass(spans, c)
    BY <1>3, <1>5, PassTwice DEF SpansPass
  <1> QED
    BY <1>5, <1>6, <1>7 DEF SpansInv, SpansFiled, AtMostTwice, Below, Held

LEMMA SpansOnCloseMoves ==
    ASSUME SpansInv, SpansOnClose
    PROVE  SpansInv' /\ SpansMove(spans, spans')
  <1> DEFINE d == [spans EXCEPT !.dropped = @ \cup Held]
             c == NoBuckets(d)
  <1>1. SpansFiled(spans) /\ AtMostTwice(spans)
    BY DEF SpansInv
  <1>2. d \in {SendSpans(spans, HeldIn(spans)), [spans EXCEPT !.dropped = @ \cup HeldIn(spans)]}
    BY DEF Held
  <1>3. SpansFiled(c) /\ SpansMove(spans, c) /\ AtMostTwice(c) /\ \A u \in Trace : Below(c, u)
    <2> HIDE DEF d
    <2> QED
      BY <1>1, <1>2, AllGo
  <1>4. spans' = c
    BY DEF SpansOnClose
  <1> HIDE DEF c
  <1> QED
    BY <1>3, <1>4 DEF SpansInv, SpansFiled, AtMostTwice, Below

LEMMA SpansStep ==
    ASSUME SpansInv, [Next]_vars
    PROVE  SpansInv' /\ SpansMove(spans, spans')
  <1>1. CASE SpanStep
    BY <1>1, SpanStepMoves DEF SpansPass
  <1>2. CASE Flush \/ CallClose
    BY <1>2, DrainMoves DEF Flush, CallClose, FlushHandlers, SpansPass
  <1>3. CASE Close
    BY <1>3, SpansOnCloseMoves DEF Close
  <1>4. CASE LogStep \/ RequestStep \/ SessionStep \/ UNCHANGED vars
    <2>1. spans' = spans
      BY <1>4 DEF LogStep, RequestStep, SessionStep, vars
    <2>2. SpansInv'
      BY <2>1 DEF SpansInv, SpansFiled, AtMostTwice, Below
    <2>3. SpansPass(spans, spans)
      BY NoPass
    <2> QED
      BY <2>1, <2>2, <2>3 DEF SpansPass
  <1> QED
    BY <1>1, <1>2, <1>3, <1>4 DEF Next

LEMMA SpansInvInit == SpansInit => SpansInv
  <1> SUFFICES ASSUME SpansInit PROVE SpansInv
    OBVIOUS
  <1>1. /\ HeldIn(spans) = {} /\ SentIn(spans) = {} /\ spans \in SpanState
        /\ spans.ended = {} /\ spans.dropped = {} /\ spans.lost = {}
        /\ \A t \in Trace : spans.buckets[t] = {} /\ spans.timers[t] = 0
        /\ \A s \in Span : spans.sent[s] = 0
    BY DEF SpansInit, HeldIn, SentIn, SpanState
  <1>2. SpansFiled(spans)
    BY <1>1 DEF SpansFiled
  <1>3. \A t \in Trace : Below(spans, t)
    BY <1>1, NoneIsNotTooMuch DEF Below
  <1>4. AtMostTwice(spans)
    BY <1>1 DEF AtMostTwice
  <1> QED
    BY <1>2, <1>3, <1>4 DEF SpansInv

(* What the invariant says of the properties that are checked *)
LEMMA SpansInvMeans == SpansInv => SpansAreKept /\ BucketsBounded /\ OneTimerPerBucket
  <1> SUFFICES ASSUME SpansInv PROVE SpansAreKept /\ BucketsBounded /\ OneTimerPerBucket
    OBVIOUS
  <1>1. SpansFiled(spans) /\ AtMostTwice(spans) /\ \A t \in Trace : Below(spans, t)
    BY DEF SpansInv
  <1> DEFINE places == <<Held, SentIn(spans), spans.dropped, spans.lost>>
  <1>2. /\ places[1] = HeldIn(spans) /\ places[2] = SentIn(spans) /\ places[3] = spans.dropped
        /\ places[4] = spans.lost
    BY DEF Held
  <1> HIDE DEF places
  <1>3. \A i \in 1 .. 4 : i = 1 \/ i = 2 \/ i = 3 \/ i = 4
    OBVIOUS
  <1>4. spans.ended = UNION {places[i] : i \in 1 .. 4}
    <2>1. spans.ended = places[1] \cup places[2] \cup places[3] \cup places[4]
      BY <1>1, <1>2 DEF SpansFiled
    <2> QED
      BY <1>3, <2>1
  <1>5. \A i, j \in 1 .. 4 : i # j => places[i] \cap places[j] = {}
    <2> SUFFICES ASSUME NEW i \in 1 .. 4, NEW j \in 1 .. 4, i # j PROVE places[i] \cap places[j] = {}
      OBVIOUS
    <2>1. (i = 1 \/ i = 2 \/ i = 3 \/ i = 4) /\ (j = 1 \/ j = 2 \/ j = 3 \/ j = 4)
      BY <1>3
    <2> QED
      BY <1>1, <1>2, <2>1 DEF SpansFiled
  <1>6. SpansAreKept
    BY <1>1, <1>4, <1>5 DEF SpansAreKept, places, SpansFiled, AtMostTwice
  <1> QED
    BY <1>1, <1>6 DEF BucketsBounded, OneTimerPerBucket, SpansFiled, Below

(* What a handler that ends a span meanwhile does to the others *)

ChangesOnce(b, c) == \A s \in Span : c.sent[s] # b.sent[s] => c.sent[s] = 1

(* The three outcomes of a flush of t during which n may end *)
GoesWell(b, c) == c.lost = b.lost /\ ChangesOnce(b, c)

JoinsIn(b, t, n, c) ==
    /\ n \in Span \ b.ended /\ TraceOf[n] = t
    /\ c.ended = b.ended \cup {n} /\ c.buckets[t] = {}

LosesIt(b, t, n, c) ==
    /\ JoinsIn(b, t, n, c)
    /\ c.lost = b.lost \cup {n} /\ ChangesOnce(b, c)
    /\ b.buckets[t] # {} /\ ~AtLimit(b.buckets[t] \cup {n})

SendsTwice(b, t, n, c) ==
    /\ JoinsIn(b, t, n, c)
    /\ c.lost = b.lost /\ c.sent[n] <= 1
    /\ AtLimit(b.buckets[t] \cup {n})
    /\ \A s \in Span : c.sent[s] # b.sent[s] =>
            c.sent[s] = 1 \/ (s # n /\ TraceOf[s] = t /\ c.sent[n] = 1)

(* RemoveTrace after an envelope, to the letter. *)
LEMMA WhatGoes ==
    ASSUME NEW b, SpansFiled(b), NEW t \in Trace, NEW items \in SUBSET Span
    PROVE  LET c == RemoveTrace(SendSpans(b, items), t)
           IN /\ c.lost = b.lost \cup (b.buckets[t] \ items)
              /\ \A s \in Span : c.sent[s] = b.sent[s] + IF enabled /\ s \in items THEN 1 ELSE 0
              /\ c.ended = b.ended /\ c.buckets[t] = {}
              /\ \A u \in Trace \ {t} : c.buckets[u] = b.buckets[u]
  <1> DEFINE d == SendSpans(b, items)
             c == RemoveTrace(d, t)
             left == b.buckets[t] \ (SentIn(d) \cup d.dropped)
  <1>1. b \in SpanState /\ \A s \in Span : b.sent[s] \in Nat
    BY DEF SpansFiled, SpanState
  <1>2. /\ d \in SpanState /\ d.buckets = b.buckets /\ d.ended = b.ended /\ d.lost = b.lost
        /\ d.dropped = (IF enabled THEN b.dropped ELSE b.dropped \cup items)
        /\ \A s \in Span : d.sent[s] = b.sent[s] + IF enabled /\ s \in items THEN 1 ELSE 0
    <2>1. CASE enabled
      <3>1. d = [b EXCEPT !.sent = [s \in Span |-> b.sent[s] + IF s \in items THEN 1 ELSE 0]]
        BY <2>1 DEF SendSpans
      <3>2. [s \in Span |-> b.sent[s] + IF s \in items THEN 1 ELSE 0] \in [Span -> Nat]
        BY <1>1
      <3> HIDE DEF d
      <3> QED
        BY <1>1, <2>1, <3>1, <3>2 DEF SpanState
    <2>2. CASE ~enabled
      <3>1. d = [b EXCEPT !.dropped = b.dropped \cup items]
        BY <2>2 DEF SendSpans
      <3> HIDE DEF d
      <3> QED
        BY <1>1, <2>2, <3>1 DEF SpanState
    <2> QED
      BY <2>1, <2>2
  <1>3. b.buckets[t] \cap SentIn(b) = {} /\ b.buckets[t] \cap b.dropped = {}
    BY HeldByTrace DEF SpansFiled
  <1>4. left = b.buckets[t] \ items
    <2> HIDE DEF d
    <2>1. SentIn(d) = IF enabled THEN SentIn(b) \cup items ELSE SentIn(b)
      BY <1>1, <1>2 DEF SentIn
    <2> QED
      BY <1>2, <1>3, <2>1
  <1>5. /\ c.lost = b.lost \cup left /\ c.sent = d.sent /\ c.ended = d.ended /\ c.buckets[t] = {}
        /\ \A u \in Trace \ {t} : c.buckets[u] = b.buckets[u]
    <2> HIDE DEF d
    <2>1. CASE b.buckets[t] = {}
      BY <1>2, <2>1 DEF RemoveTrace
    <2>2. CASE b.buckets[t] # {}
      <3>1. c = [d EXCEPT !.buckets = [d.buckets EXCEPT ![t] = {}], !.timers = [d.timers EXCEPT ![t] = Cleared(@)],
                          !.lost = d.lost \cup left]
        BY <1>2, <2>2 DEF RemoveTrace
      <3> HIDE DEF c, left
      <3> QED
        BY <1>2, <3>1 DEF SpanState
    <2> QED
      BY <2>1, <2>2
  <1> HIDE DEF c, d, left
  <1> QED
    BY <1>2, <1>4, <1>5 DEF c, d

(* What is held was not sent yet. *)
LEMMA HeldIsUnsent ==
    ASSUME NEW b, SpansFiled(b)
    PROVE  /\ \A s \in Span : b.sent[s] \in Nat
           /\ \A t \in Trace : b.buckets[t] \in SUBSET Span /\ b.buckets[t] \subseteq b.ended
                               /\ \A s \in b.buckets[t] : b.sent[s] = 0 /\ TraceOf[s] = t
           /\ \A s \in Span \ b.ended : b.sent[s] = 0
           /\ \A s \in HeldIn(b) : b.sent[s] = 0
  <1>1. /\ \A s \in Span : b.sent[s] \in Nat
        /\ \A t \in Trace : b.buckets[t] \in SUBSET Span
    BY DEF SpansFiled, SpanState
  <1>2. \A s \in HeldIn(b) : s \in Span /\ s \notin SentIn(b) /\ s \in b.ended
    BY HeldByTrace DEF SpansFiled
  <1>3. \A t \in Trace : b.buckets[t] \subseteq HeldIn(b)
    BY HeldByTrace
  <1>4. \A s \in Span \ b.ended : s \notin SentIn(b)
    BY DEF SpansFiled
  <1>5. \A s \in Span : s \notin SentIn(b) => b.sent[s] = 0
    BY <1>1 DEF SentIn
  <1>6. \A t \in Trace : \A s \in b.buckets[t] : TraceOf[s] = t
    BY DEF SpansFiled
  <1> QED
    BY <1>1, <1>2, <1>3, <1>4, <1>5, <1>6

LEMMA FlushEndsOneOfThreeWays ==
    ASSUME NEW b, SpansFiled(b), NEW t \in Trace, NEW n \in Span \cup {NoSpan}
    PROVE  LET c == FlushTrace(b, t, n)
           IN GoesWell(b, c) \/ LosesIt(b, t, n, c) \/ SendsTwice(b, t, n, c)
  <1> DEFINE d == SpanEnds(b, n)
             items == b.buckets[t]
             c == RemoveTrace(SendSpans(d, items), t)
             e == StoreSpan(b, n)
             u == TraceOf[n]
             g == RemoveTrace(SendSpans(e, e.buckets[u]), u)
  <1>1. CASE items = {}
    BY <1>1 DEF FlushTrace, GoesWell, ChangesOnce
  <1>2. CASE items # {}
    <2>1. FlushTrace(b, t, n) = c
      BY <1>2 DEF FlushTrace
    <2>2. /\ items \in SUBSET Span /\ \A s \in Span : b.sent[s] \in Nat
          /\ items \subseteq b.ended /\ \A s \in items : b.sent[s] = 0
          /\ \A s \in Span \ b.ended : b.sent[s] = 0
      BY HeldIsUnsent
    <2>3. SpansFiled(d)
      BY HandlerEnds
    <2> DEFINE left == d.buckets[t] \ items
    <2>4. /\ c.lost = d.lost \cup left
          /\ \A s \in Span : c.sent[s] = d.sent[s] + IF enabled /\ s \in items THEN 1 ELSE 0
          /\ c.ended = d.ended /\ c.buckets[t] = {}
      <3> HIDE DEF d, items
      <3> QED
        BY <2>2, <2>3, WhatGoes
    <2>5. CASE n = NoSpan \/ n \in b.ended
      <3>1. d = b
        BY <2>5 DEF SpanEnds
      <3> HIDE DEF c, d
      <3> QED
        BY <2>1, <2>2, <2>4, <3>1 DEF GoesWell, ChangesOnce
    <2>6. CASE n # NoSpan /\ n \notin b.ended
      <3>1. n \in Span /\ u \in Trace /\ n \notin items /\ b.sent[n] = 0
        BY <2>2, <2>6, SpanAssumption
      <3>2. d = IF AtLimit(e.buckets[u]) THEN g ELSE e
        BY <2>6 DEF SpanEnds
      <3>3. /\ SpansFiled(e) /\ e.sent = b.sent /\ e.ended = b.ended \cup {n}
            /\ e.buckets[u] = b.buckets[u] \cup {n} /\ \A v \in Trace \ {u} : e.buckets[v] = b.buckets[v]
        BY <2>6, <3>1, SpanIsStored
      <3>4. e.lost = b.lost
        BY DEF StoreSpan
      <3>5. /\ e.buckets[u] \in SUBSET Span /\ \A s \in e.buckets[u] : e.sent[s] = 0 /\ TraceOf[s] = u
        <4> HIDE DEF e
        <4> QED
          BY <3>1, <3>3, HeldIsUnsent
      <3>6. /\ g.lost = e.lost \cup (e.buckets[u] \ e.buckets[u])
            /\ \A s \in Span : g.sent[s] = e.sent[s] + IF enabled /\ s \in e.buckets[u] THEN 1 ELSE 0
            /\ g.ended = e.ended /\ g.buckets[u] = {} /\ \A v \in Trace \ {u} : g.buckets[v] = e.buckets[v]
        <4> HIDE DEF e
        <4>1. ASSUME NEW v \in Trace, NEW i \in SUBSET Span
              PROVE  LET h == RemoveTrace(SendSpans(e, i), v)
                     IN /\ h.lost = e.lost \cup (e.buckets[v] \ i)
                        /\ \A s \in Span : h.sent[s] = e.sent[s] + IF enabled /\ s \in i THEN 1 ELSE 0
                        /\ h.ended = e.ended /\ h.buckets[v] = {}
                        /\ \A w \in Trace \ {v} : h.buckets[w] = e.buckets[w]
          BY <3>3, WhatGoes
        <4> QED
          BY <3>1, <3>5, <4>1
      <3> HIDE DEF c, d, e, g
      <3>7. CASE u # t
        <4>1. d.buckets[t] = items /\ d.lost = b.lost
          BY <3>2, <3>3, <3>4, <3>6, <3>7
        <4>2. \A s \in Span : s \in items => s \notin e.buckets[u]
          BY <3>5, <3>7, HeldIsUnsent
        <4>3. \A s \in Span : d.sent[s] # b.sent[s] => d.sent[s] = 1 /\ s \in e.buckets[u]
          BY <2>2, <3>2, <3>3, <3>5, <3>6
        <4>4. ChangesOnce(b, c)
          BY <2>2, <2>4, <4>2, <4>3 DEF ChangesOnce
        <4> QED
          BY <2>1, <2>4, <4>1, <4>4 DEF GoesWell
      <3>8. CASE u = t /\ ~AtLimit(e.buckets[u])
        <4>1. d = e /\ left = {n}
          BY <3>1, <3>2, <3>3, <3>8
        <4> HIDE DEF left
        <4>2. c.lost = b.lost \cup {n} /\ ChangesOnce(b, c) /\ c.ended = b.ended \cup {n}
          BY <2>2, <2>4, <3>3, <3>4, <4>1 DEF ChangesOnce
        <4>3. ~AtLimit(items \cup {n})
          BY <3>3, <3>8
        <4> QED
          BY <1>2, <2>1, <2>4, <2>6, <3>1, <3>8, <4>2, <4>3 DEF LosesIt, JoinsIn
      <3>9. CASE u = t /\ AtLimit(e.buckets[u])
        <4>1. d = g /\ left = {}
          BY <3>2, <3>6, <3>9
        <4> HIDE DEF left
        <4>2. c.lost = b.lost /\ c.ended = b.ended \cup {n}
          BY <2>4, <3>3, <3>4, <3>6, <4>1
        <4>3. c.sent[n] = IF enabled THEN 1 ELSE 0
          BY <2>4, <3>1, <3>3, <3>6, <3>9, <4>1
        <4>4. \A s \in Span : c.sent[s] # b.sent[s] =>
                  c.sent[s] = 1 \/ (s # n /\ TraceOf[s] = t /\ c.sent[n] = 1)
          <5> TAKE s \in Span
          <5>1. c.sent[s] = b.sent[s] + (IF enabled /\ s \in e.buckets[u] THEN 1 ELSE 0)
                                      + (IF enabled /\ s \in items THEN 1 ELSE 0)
            BY <2>4, <3>3, <3>6, <3>9, <4>1
          <5>2. CASE enabled /\ s \in items
            BY <3>1, <3>3, <3>5, <3>9, <4>3, <5>2
          <5>3. CASE enabled /\ s \notin items /\ s \in e.buckets[u]
            BY <3>3, <3>5, <5>1, <5>3
          <5>4. CASE ~enabled \/ s \notin items \cup e.buckets[u]
            BY <2>2, <5>1, <5>4
          <5> QED
            BY <5>2, <5>3, <5>4
        <4>5. AtLimit(items \cup {n})
          BY <3>3, <3>9
        <4> QED
          BY <2>1, <2>4, <2>6, <3>1, <3>9, <4>2, <4>3, <4>4, <4>5 DEF SendsTwice, JoinsIn
      <3> QED
        BY <3>7, <3>8, <3>9
    <2> QED
      BY <2>5, <2>6
  <1> QED
    BY <1>1, <1>2

(* What LossesHaveTheirCause says of one step *)
HaveTheirCause(b, c) ==
    \A s \in Span :
      LET new == {n \in c.ended \ b.ended : TraceOf[n] = TraceOf[s]}
          together == b.buckets[TraceOf[s]] \cup new
      IN /\ s \in c.lost \ b.lost =>
              /\ s \in new /\ together # {s}
              /\ ~AtLimit(together)
              /\ c.buckets[TraceOf[s]] = {}
         /\ c.sent[s] > 1 /\ c.sent[s] # b.sent[s] =>
              /\ AtLimit(together)
              /\ \E n \in new : n # s /\ c.sent[n] = 1

(* A flush of t, before which a span may have been stored, and after which *)
(* the other buckets may be sent.                                          *)
LEMMA FlushHasItsCause ==
    ASSUME NEW b, SpansFiled(b), NEW t \in Trace, NEW n \in Span \cup {NoSpan},
           NEW a, SpansFiled(a), a.sent = b.sent, a.lost = b.lost,
           a.ended \subseteq b.ended,
           b.buckets[t] = a.buckets[t] \cup (b.ended \ a.ended),
           NEW c, SpansFiled(c),
           GoesWell(b, c) \/ LosesIt(b, t, n, c) \/ SendsTwice(b, t, n, c)
    PROVE  HaveTheirCause(a, c)
  <1>1. \A s \in b.ended \ a.ended : TraceOf[s] = t
    BY HeldIsUnsent
  <1>2. /\ \A s \in Span : a.sent[s] \in Nat /\ c.sent[s] \in Nat
        /\ \A s \in b.buckets[t] : b.sent[s] = 0 /\ TraceOf[s] = t /\ s \in Span
    BY HeldIsUnsent
  <1>3. b.ended \subseteq Span /\ c.ended \subseteq Span
    BY HeldByTrace
  <1>4. CASE GoesWell(b, c)
    BY <1>2, <1>4 DEF GoesWell, ChangesOnce, HaveTheirCause
  <1>5. ASSUME JoinsIn(b, t, n, c), NEW s \in Span, TraceOf[s] = t
        PROVE  LET new == {m \in c.ended \ a.ended : TraceOf[m] = TraceOf[s]}
               IN /\ n \in new
                  /\ a.buckets[TraceOf[s]] \cup new = b.buckets[t] \cup {n}
    BY <1>1, <1>3, <1>5 DEF JoinsIn
  <1>6. CASE LosesIt(b, t, n, c)
    <2> SUFFICES ASSUME NEW s \in Span
                 PROVE  LET new == {m \in c.ended \ a.ended : TraceOf[m] = TraceOf[s]}
                            together == a.buckets[TraceOf[s]] \cup new
                        IN s \in c.lost \ a.lost =>
                              /\ s \in new /\ together # {s}
                              /\ ~AtLimit(together)
                              /\ c.buckets[TraceOf[s]] = {}
      BY <1>2, <1>6 DEF LosesIt, ChangesOnce, HaveTheirCause
    <2> SUFFICES ASSUME s \in c.lost \ a.lost PROVE
           LET new == {m \in c.ended \ a.ended : TraceOf[m] = TraceOf[s]}
               together == a.buckets[TraceOf[s]] \cup new
           IN s \in new /\ together # {s} /\ ~AtLimit(together) /\ c.buckets[TraceOf[s]] = {}
      OBVIOUS
    <2>1. s = n /\ TraceOf[s] = t
      BY <1>6 DEF LosesIt, JoinsIn
    <2>2. n \notin b.buckets[t]
      BY <1>6, HeldIsUnsent DEF LosesIt, JoinsIn
    <2>3. /\ JoinsIn(b, t, n, c) /\ c.buckets[t] = {}
          /\ b.buckets[t] # {} /\ ~AtLimit(b.buckets[t] \cup {n})
      BY <1>6 DEF LosesIt, JoinsIn
    <2> DEFINE new == {m \in c.ended \ a.ended : TraceOf[m] = TraceOf[s]}
               together == a.buckets[TraceOf[s]] \cup new
    <2>4. n \in new /\ together = b.buckets[t] \cup {n}
      BY <1>5, <2>1, <2>3
    <2> HIDE DEF new, together
    <2>5. s \in new /\ together # {s} /\ ~AtLimit(together) /\ c.buckets[TraceOf[s]] = {}
      BY <2>1, <2>2, <2>3, <2>4
    <2> QED
      BY <2>5 DEF new, together
  <1>7. CASE SendsTwice(b, t, n, c) /\ ~GoesWell(b, c)
    <2> SUFFICES ASSUME NEW s \in Span, c.sent[s] > 1, c.sent[s] # a.sent[s]
                 PROVE  LET new == {m \in c.ended \ a.ended : TraceOf[m] = TraceOf[s]}
                            together == a.buckets[TraceOf[s]] \cup new
                        IN AtLimit(together) /\ \E m \in new : m # s /\ c.sent[m] = 1
      BY <1>2, <1>7 DEF SendsTwice, HaveTheirCause
    <2>1. s # n /\ c.sent[n] = 1
      BY <1>2, <1>7 DEF SendsTwice
    <2>2. TraceOf[s] = t
      BY <1>2, <1>7 DEF SendsTwice
    <2> QED
      BY <1>5, <1>7, <2>1, <2>2 DEF SendsTwice
  <1> QED
    BY <1>4, <1>6, <1>7

LEMMA StepHasItsCause ==
    ASSUME SpansInv, [Next]_vars
    PROVE  HaveTheirCause(spans, spans')
  <1>1. SpansFiled(spans)
    BY DEF SpansInv
  <1>2. /\ \A s \in Span : spans.sent[s] \in Nat
        /\ \A s \in Span \ spans.ended : spans.sent[s] = 0
    BY <1>1, HeldIsUnsent
  <1>3. ASSUME NEW n \in HandledSpans PROVE n \in Span \cup {NoSpan}
    BY FeatureAssumption DEF HandledSpans
  <1>4. ASSUME NEW n \in HandledSpans, NEW s \in Span, AddSpan(s, n) PROVE HaveTheirCause(spans, spans')
    <2> DEFINE b == StoreSpan(spans, s)
               t == TraceOf[s]
               c == FlushTrace(b, t, n)
    <2>1. /\ SpansFiled(b) /\ b.sent = spans.sent /\ b.ended = spans.ended \cup {s}
          /\ b.buckets[t] = spans.buckets[t] \cup {s} /\ t \in Trace
          /\ \A u \in Trace \ {t} : b.buckets[u] = spans.buckets[u]
      BY <1>1, <1>4, SpanIsStored, SpanAssumption DEF AddSpan
    <2>2. b.lost = spans.lost
      BY DEF StoreSpan
    <2>3. spans' = IF AtLimit(b.buckets[t]) THEN c ELSE b
      BY <1>4 DEF AddSpan
    <2>4. AtMostTwice(b) /\ \A u \in Trace \ {t} : Below(b, u)
      BY <2>1 DEF SpansInv, AtMostTwice, Below
    <2> HIDE DEF b
    <2>5. CASE ~AtLimit(b.buckets[t])
      BY <2>1, <2>2, <2>3, <2>5 DEF HaveTheirCause
    <2>6. CASE AtLimit(b.buckets[t])
      <3>1. SpansFiled(c)
        BY <1>3, <2>1, <2>4, TraceIsFlushed
      <3>2. GoesWell(b, c) \/ LosesIt(b, t, n, c) \/ SendsTwice(b, t, n, c)
        BY <1>3, <2>1, FlushEndsOneOfThreeWays
      <3>3. b.buckets[t] = spans.buckets[t] \cup (b.ended \ spans.ended)
        BY <1>4, <2>1 DEF AddSpan
      <3> HIDE DEF c
      <3>4. HaveTheirCause(spans, c)
        BY <1>1, <1>3, <2>1, <2>2, <3>1, <3>2, <3>3, FlushHasItsCause
      <3> QED
        BY <2>3, <2>6, <3>4
    <2> QED
      BY <2>5, <2>6
  <1>5. ASSUME NEW n \in HandledSpans, NEW t \in Trace
        PROVE  HaveTheirCause(spans, FlushTrace(spans, t, n)) /\ SpansFiled(FlushTrace(spans, t, n))
    <2> DEFINE c == FlushTrace(spans, t, n)
    <2>1. SpansFiled(c)
      BY <1>1, <1>3, TraceIsFlushed DEF SpansInv
    <2>2. GoesWell(spans, c) \/ LosesIt(spans, t, n, c) \/ SendsTwice(spans, t, n, c)
      BY <1>1, <1>3, FlushEndsOneOfThreeWays
    <2> HIDE DEF c
    <2>3. HaveTheirCause(spans, c)
      BY <1>1, <1>3, <2>1, <2>2, FlushHasItsCause
    <2> QED
      BY <2>1, <2>3 DEF c
  <1>6. ASSUME NEW n \in HandledSpans, NEW t \in Trace, SpanTimerFires(t, n) PROVE HaveTheirCause(spans, spans')
    <2>1. CASE spans.buckets[t] = {}
      BY <1>6, <2>1 DEF SpanTimerFires, HaveTheirCause
    <2>2. CASE spans.buckets[t] # {}
      BY <1>5, <1>6, <2>2 DEF SpanTimerFires
    <2> QED
      BY <2>1, <2>2
  <1>7. ASSUME NEW n \in HandledSpans, Drain(n) PROVE HaveTheirCause(spans, spans')
    <2>1. PICK t \in Trace : LET b == FlushTrace(spans, t, n) IN spans' = NoBuckets(SendSpans(b, HeldIn(b)))
      BY <1>7 DEF Drain
    <2> DEFINE b == FlushTrace(spans, t, n)
               d == SendSpans(b, HeldIn(b))
    <2>2. HaveTheirCause(spans, b) /\ SpansFiled(b)
      BY <1>5
    <2>3. spans' = NoBuckets(d)
      BY <2>1
    <2> HIDE DEF b
    <2>4. /\ d.ended = b.ended /\ d.lost = b.lost
          /\ \A s \in Span : d.sent[s] = b.sent[s] + IF enabled /\ s \in HeldIn(b) THEN 1 ELSE 0
      <3>1. b \in SpanState /\ \A s \in Span : b.sent[s] \in Nat
        BY <2>2, HeldIsUnsent DEF SpansFiled
      <3> QED
        BY <3>1 DEF SendSpans, SpanState
    <2> HIDE DEF d
    <2>5. /\ spans'.ended = d.ended /\ spans'.lost = d.lost /\ spans'.sent = d.sent
          /\ \A u \in Trace : spans'.buckets[u] = {}
      BY <2>3, <2>2 DEF NoBuckets
    <2>6. /\ \A s \in Span : b.sent[s] \in Nat
          /\ \A s \in HeldIn(b) : b.sent[s] = 0
      BY <2>2, HeldIsUnsent
    <2>7. \A s \in Span : (spans'.sent[s] > 1 \/ b.sent[s] = 1) => spans'.sent[s] = b.sent[s]
      BY <2>4, <2>5, <2>6
    <2>8. b.ended \subseteq Span /\ \A s \in Span : TraceOf[s] \in Trace
      BY <2>2, HeldByTrace
    <2> QED
      BY <2>2, <2>4, <2>5, <2>7, <2>8 DEF HaveTheirCause
  <1>8. ASSUME spans'.lost = spans.lost, spans'.sent = spans.sent PROVE HaveTheirCause(spans, spans')
    BY <1>8 DEF HaveTheirCause
  <1>9. CASE SpanStep
    BY <1>4, <1>6, <1>9 DEF SpanStep
  <1>10. CASE Flush \/ CallClose
    BY <1>7, <1>10 DEF Flush, CallClose, FlushHandlers
  <1>11. CASE Close
    BY <1>8, <1>11 DEF Close, SpansOnClose, NoBuckets
  <1>12. CASE LogStep \/ RequestStep \/ SessionStep \/ UNCHANGED vars
    BY <1>8, <1>12 DEF LogStep, RequestStep, SessionStep, vars
  <1> QED
    BY <1>9, <1>10, <1>11, <1>12 DEF Next

(* spanBuffer.ts:181-185: a span is lost, or spans are sent twice, only when *)
(* a handler ends a span of the trace that is being sent: lost if it leaves  *)
(* the bucket below its limits, sent twice if it fills it.                   *)
THEOREM LossesAreExplained == Spec => LossesHaveTheirCause
  <1>1. Init => SpansInv
    BY SpansInvInit DEF Init
  <1>2. SpansInv /\ [Next]_vars =>
          [ \A s \in Span :
              LET new == {n \in spans'.ended \ spans.ended : TraceOf[n] = TraceOf[s]}
                  together == spans.buckets[TraceOf[s]] \cup new
              IN /\ s \in spans'.lost \ spans.lost =>
                      /\ s \in new /\ together # {s}
                      /\ ~AtLimit(together)
                      /\ spans'.buckets[TraceOf[s]] = {}
                 /\ spans'.sent[s] > 1 /\ spans'.sent[s] # spans.sent[s] =>
                      /\ AtLimit(together)
                      /\ \E n \in new : n # s /\ spans'.sent[n] = 1 ]_vars
    BY StepHasItsCause DEF HaveTheirCause
  <1>3. SpansInv /\ [Next]_vars => SpansInv'
    BY SpansStep
  <1> QED
    BY <1>1, <1>2, <1>3, PTL DEF Spec, LossesHaveTheirCause

(* spanBuffer.ts takes the steps of Batching, trace by trace, and no others. *)
THEOREM SpansGoInBatches ==
    Spec => SpanBatching!Init /\ [][SpanBatching!Next]_(SpanBatching!vars)
  <1>1. Init => SpansInv /\ SpanBatching!Init
    <2> SUFFICES ASSUME SpansInit PROVE SpanBatching!Init
      BY SpansInvInit DEF Init
    <2>1. Held = {} /\ spans.ended = {} /\ \A t \in Trace : (spans.timers[t] > 0) = FALSE
      BY DEF SpansInit, Held, HeldIn
    <2> QED
      BY <2>1 DEF SpanBatching!Init
  <1>2. SpansInv /\ [Next]_vars => SpansInv'
    BY SpansStep
  <1>3. SpansInv /\ [Next]_vars => [SpanBatching!Next]_(SpanBatching!vars)
    <2> SUFFICES ASSUME SpansInv, [Next]_vars PROVE SpanBatching!Next
      OBVIOUS
    <2> DEFINE came == spans'.ended \ spans.ended
               went == (Held \cup came) \ Held'
    <2>1. SpansFiled(spans) /\ SpansFiled(spans') /\ SpansMove(spans, spans')
      BY SpansStep DEF SpansInv, SpansFiled
    <2>2. /\ Held \subseteq spans.ended /\ Held' \subseteq spans'.ended /\ spans'.ended \subseteq Span
          /\ \A t \in Trace : spans.buckets[t] = {s \in Held : TraceOf[s] = t}
          /\ \A t \in Trace : spans'.buckets[t] = {s \in Held' : TraceOf[s] = t}
      BY <2>1, HeldByTrace DEF Held
    <2>3. spans.ended \subseteq spans'.ended /\ Held' \subseteq Held \cup came
      BY <2>1 DEF SpansMove, Held
    <2>4. /\ came \in SUBSET (Span \ (Held \cup (spans.ended \ Held))) /\ went \in SUBSET (Held \cup came)
          /\ Held' = (Held \cup came) \ went
          /\ spans'.ended \ Held' = (spans.ended \ Held) \cup went
      BY <2>2, <2>3
    <2>5. \A t \in Trace : SpanBatching!Of(Held, t) = spans.buckets[t] /\ SpanBatching!Of(Held', t) = spans'.buckets[t]
      BY <2>2 DEF SpanBatching!Of
    <2>6. \A t \in Trace : SpanBatching!Of(went, t) = {} \/ SpanBatching!Of(Held, t) \subseteq went
      <3> SUFFICES ASSUME NEW t \in Trace, SpanBatching!Of(went, t) # {} PROVE spans.buckets[t] \subseteq went
        BY <2>5
      <3>1. spans.buckets[t] \cap Held' = {}
        BY <2>1 DEF SpansMove, Held, SpanBatching!Of
      <3> QED
        BY <2>2, <3>1
    <2>7. [t \in Trace |-> spans'.timers[t] > 0] = [t \in Trace |-> TRUE /\ SpanBatching!Of(Held', t) # {}]
      <3>1. \A t \in Trace : (spans'.timers[t] > 0) <=> spans'.buckets[t] # {}
        BY <2>1 DEF SpansFiled
      <3> QED
        BY <2>5, <3>1
    <2> HIDE DEF came, went
    <2>8. PICK new, out : new = came /\ out = went
      OBVIOUS
    <2>9. new \in SUBSET (Span \ (Held \cup (spans.ended \ Held))) /\ out \in SUBSET (Held \cup new)
      BY <2>4, <2>8
    <2>10. SpanBatching!Step(new, out)
      BY <2>4, <2>6, <2>7, <2>8 DEF SpanBatching!Step
    <2> QED
      BY <2>9, <2>10 DEF SpanBatching!Next
  <1> QED
    BY <1>1, <1>2, <1>3, PTL DEF Spec
-----------------------------------------------------------------------------
(* close(), seen from the logs *)

LogState ==
    [buffer: SUBSET Log, weight: Nat, isTimerActive: BOOLEAN, flushTimeout: BOOLEAN,
     captured: SUBSET Log, handed: [Log -> Nat], discarded: SUBSET Log, overwritten: SUBSET Log]

(* What an operation of the buffer may do to what was captured before: it  *)
(* stays where it is, or leaves the buffer, and is discarded only by a     *)
(* disabled client.                                                        *)
Onward(b, c) ==
    /\ c \in LogState
    /\ b.captured \subseteq c.captured
    /\ c.buffer \subseteq b.buffer \cup (c.captured \ b.captured)
    /\ c.discarded \subseteq b.discarded \cup b.buffer \cup (c.captured \ b.captured)
    /\ enabled => c.discarded = b.discarded

LEMMA OnwardTwice ==
    ASSUME NEW b, NEW c, NEW d, Onward(b, c), Onward(c, d)
    PROVE  Onward(b, d)
  BY DEF Onward

LEMMA HandLogsFacts ==
    ASSUME NEW b \in LogState, NEW items \in SUBSET Log
    PROVE  LET c == HandLogs(b, items)
           IN  /\ c \in LogState /\ c.captured = b.captured /\ c.buffer = b.buffer
               /\ c.weight = b.weight
               /\ c.discarded = IF enabled THEN b.discarded ELSE b.discarded \cup items
  <1>1. CASE enabled
    <2>1. [l \in Log |-> b.handed[l] + IF l \in items THEN 1 ELSE 0] \in [Log -> Nat]
      BY DEF LogState
    <2>2. HandLogs(b, items) = [b EXCEPT !.handed = [l \in Log |-> b.handed[l] + IF l \in items THEN 1 ELSE 0]]
      BY <1>1 DEF HandLogs
    <2> QED
      BY <1>1, <2>1, <2>2 DEF LogState
  <1>2. CASE ~enabled
    BY <1>2 DEF HandLogs, LogState
  <1> QED
    BY <1>1, <1>2

LEMMA SmallSteps ==
    ASSUME NEW b \in LogState
    PROVE  /\ Emptied(b) \in LogState /\ Emptied(b).buffer = {} /\ Emptied(b).weight = 0
           /\ ~Emptied(b).isTimerActive /\ ~Emptied(b).flushTimeout
           /\ Emptied(b).captured = b.captured /\ Emptied(b).discarded = b.discarded
           /\ Emptied(b).overwritten = b.overwritten /\ Emptied(b).handed = b.handed
           /\ StartTimer(b) \in LogState /\ StartTimer(b).buffer = b.buffer
           /\ StartTimer(b).weight = b.weight
           /\ StartTimer(b).captured = b.captured /\ StartTimer(b).discarded = b.discarded
           /\ StartTimer(b).overwritten = b.overwritten /\ StartTimer(b).handed = b.handed
           /\ StartTimer(b).isTimerActive = (b.isTimerActive \/ FlushInterval > 0)
           /\ StartTimer(b).flushTimeout = (b.flushTimeout \/ (~b.isTimerActive /\ FlushInterval > 0))
           /\ \A l \in Log :
                 /\ Weighed(b, l) \in LogState /\ Weighed(b, l).buffer = b.buffer
                 /\ Weighed(b, l).weight = b.weight + LogSize[l]
                 /\ Weighed(b, l).captured = b.captured /\ Weighed(b, l).discarded = b.discarded
                 /\ Weighed(b, l).overwritten = b.overwritten /\ Weighed(b, l).handed = b.handed
                 /\ Weighed(b, l).isTimerActive = b.isTimerActive
                 /\ Weighed(b, l).flushTimeout = b.flushTimeout
  <1>1. \A l \in Log : b.weight + LogSize[l] \in Nat
    BY LogAssumption DEF LogState
  <1> QED
    BY <1>1 DEF Emptied, OnFlushLogs, StartTimer, Weighed, LogState

LEMMA CapturesFacts ==
    ASSUME NEW b \in LogState, NEW n \in Log \cup {NoLog}
    PROVE  Onward(b, Captures(n, b))
  <1>1. CASE n = NoLog \/ n \in b.captured
    BY <1>1 DEF Captures, Onward
  <1>2. CASE ~(n = NoLog \/ n \in b.captured)
    <2> DEFINE taken == [b EXCEPT !.captured = @ \cup {n}, !.buffer = @ \cup {n}]
               stored == Weighed(taken, n)
    <2>1. /\ taken \in LogState /\ taken.captured = b.captured \cup {n}
          /\ taken.buffer = b.buffer \cup {n} /\ taken.discarded = b.discarded
      BY <1>2 DEF LogState
    <2> HIDE DEF taken
    <2>2. /\ stored \in LogState /\ stored.captured = b.captured \cup {n}
          /\ stored.buffer = b.buffer \cup {n} /\ stored.discarded = b.discarded
      <3>1. /\ stored \in LogState /\ stored.captured = taken.captured
            /\ stored.buffer = taken.buffer /\ stored.discarded = taken.discarded
        BY <1>2, <2>1, SmallSteps
      <3> HIDE DEF stored
      <3> QED
        BY <2>1, <3>1
    <2>3. Captures(n, b) = IF stored.weight >= MaxWeight THEN HandLogs(Emptied(stored), stored.buffer)
                           ELSE StartTimer(stored)
      BY <1>2 DEF Captures, taken
    <2> HIDE DEF stored
    <2>4. CASE stored.weight >= MaxWeight
      <3> DEFINE emptied == Emptied(stored)
                 items == stored.buffer
                 c == HandLogs(emptied, items)
      <3>1. /\ emptied \in LogState /\ emptied.buffer = {}
            /\ emptied.captured = stored.captured /\ emptied.discarded = stored.discarded
        BY <2>2, SmallSteps
      <3>2. items \in SUBSET Log
        BY <2>2 DEF LogState
      <3> HIDE DEF emptied, items
      <3>3. /\ c \in LogState /\ c.captured = stored.captured /\ c.buffer = {}
            /\ c.discarded = IF enabled THEN stored.discarded ELSE stored.discarded \cup items
        BY <3>1, <3>2, HandLogsFacts
      <3> HIDE DEF c
      <3>4. Onward(b, c)
        BY <1>2, <2>2, <3>3 DEF Onward, items
      <3> QED
        BY <2>3, <2>4, <3>4 DEF c, emptied, items
    <2>5. CASE ~(stored.weight >= MaxWeight)
      BY <1>2, <2>2, <2>3, <2>5, SmallSteps DEF Onward
    <2> QED
      BY <2>4, <2>5
  <1> QED
    BY <1>1, <1>2

(* A flush leaves nothing in the buffer that was captured before it. *)
LEMMA FlushLogsFacts ==
    ASSUME NEW b \in LogState, NEW n \in Log \cup {NoLog}
    PROVE  /\ Onward(b, FlushLogs(b, n))
           /\ FlushLogs(b, n).buffer \subseteq FlushLogs(b, n).captured \ b.captured
  <1>1. CASE b.buffer = {}
    BY <1>1 DEF FlushLogs, Onward
  <1>2. CASE b.buffer # {}
    <2> DEFINE emptied == Emptied(b)
               caught == Captures(n, emptied)
               c == HandLogs(caught, b.buffer)
    <2>1. /\ emptied \in LogState /\ emptied.buffer = {}
          /\ emptied.captured = b.captured /\ emptied.discarded = b.discarded
      BY SmallSteps
    <2> HIDE DEF emptied
    <2>2. Onward(emptied, caught)
      BY <2>1, CapturesFacts
    <2> HIDE DEF caught
    <2>3. b.buffer \in SUBSET Log /\ caught \in LogState
      BY <2>2 DEF LogState, Onward
    <2>4. /\ c \in LogState /\ c.captured = caught.captured /\ c.buffer = caught.buffer
          /\ c.discarded = IF enabled THEN caught.discarded ELSE caught.discarded \cup b.buffer
      BY <2>3, HandLogsFacts
    <2>5. FlushLogs(b, n) = c
      BY <1>2 DEF FlushLogs, emptied, caught
    <2> HIDE DEF c
    <2>6. Onward(b, c) /\ c.buffer \subseteq c.captured \ b.captured
      BY <2>1, <2>2, <2>4 DEF Onward
    <2> QED
      BY <2>5, <2>6
  <1> QED
    BY <1>1, <1>2

LEMMA CaptureLogFacts ==
    ASSUME logs \in LogState, NEW l \in Log, NEW n \in Log \cup {NoLog}, CaptureLog(l, n)
    PROVE  Onward(logs, logs')
  <1> DEFINE a == [logs EXCEPT !.captured = @ \cup {l}]
             b == StoreLog(a, l, n)
             weighed == Weighed(b, l)
  <1>0. l \notin logs.captured /\ logs' = AfterCaptureLog(b, l, n)
    BY DEF CaptureLog
  <1>1. /\ a \in LogState /\ a.captured = logs.captured \cup {l}
        /\ a.buffer = logs.buffer /\ a.discarded = logs.discarded
    BY DEF LogState
  <1> HIDE DEF a
  <1>2. Onward(logs, b)
    <2>1. CASE Cardinality(a.buffer) >= MaxLogBuffer
      <3> DEFINE flushed == FlushLogs(a, n)
                 c == [flushed EXCEPT !.buffer = {l}, !.overwritten = @ \cup flushed.buffer]
      <3>1. Onward(a, flushed)
        BY <1>1, FlushLogsFacts
      <3>2. b = c
        BY <2>1 DEF StoreLog
      <3> HIDE DEF flushed
      <3>3. flushed \in LogState
        BY <3>1 DEF Onward
      <3>4. /\ c \in LogState /\ c.buffer = {l} /\ c.captured = flushed.captured
            /\ c.discarded = flushed.discarded
        BY <3>3 DEF LogState
      <3> HIDE DEF c
      <3>5. Onward(logs, c)
        BY <1>0, <1>1, <3>1, <3>4 DEF Onward
      <3> QED
        BY <3>2, <3>5
    <2>2. CASE ~(Cardinality(a.buffer) >= MaxLogBuffer)
      <3> DEFINE c == [a EXCEPT !.buffer = @ \cup {l}]
      <3>1. /\ c \in LogState /\ c.buffer = a.buffer \cup {l} /\ c.captured = a.captured
            /\ c.discarded = a.discarded
        BY <1>1 DEF LogState
      <3>2. b = c
        BY <2>2 DEF StoreLog
      <3> HIDE DEF c
      <3>3. Onward(logs, c)
        BY <1>0, <1>1, <3>1 DEF Onward
      <3> QED
        BY <3>2, <3>3
    <2> QED
      BY <2>1, <2>2
  <1> HIDE DEF b
  <1>3. Onward(b, weighed)
    BY <1>2, SmallSteps DEF Onward
  <1>4. logs' = IF weighed.weight >= MaxWeight THEN FlushLogs(weighed, n) ELSE StartTimer(weighed)
    BY <1>0 DEF AfterCaptureLog
  <1> HIDE DEF weighed
  <1>5. Onward(weighed, logs')
    <2>1. weighed \in LogState
      BY <1>3 DEF Onward
    <2>2. Onward(weighed, FlushLogs(weighed, n))
      BY <2>1, FlushLogsFacts
    <2>3. Onward(weighed, StartTimer(weighed))
      BY <2>1, SmallSteps DEF Onward
    <2> QED
      BY <1>4, <2>2, <2>3
  <1> QED
    BY <1>2, <1>3, <1>5, OnwardTwice
-----------------------------------------------------------------------------
(* close(), seen from the requests *)

(* Counts are pending only while their timer, and with it the hook, is. *)
AggregateHasTimer == ~aggregateTimer => aggregate = NoCounts /\ Pending = {}

RequestsOnward ==
    /\ AggregateHasTimer'
    /\ Closed \subseteq Closed'
    /\ Pending' \subseteq Pending \cup (Closed' \ Closed)
    /\ unreported' \subseteq unreported \cup Pending
    /\ HasRelease /\ enabled => unreported' = unreported

LEMMA FlushAggregateFacts ==
    ASSUME FlushAggregate
    PROVE  RequestsOnward /\ Pending' = {}
  <1>1. Closed' = Closed /\ aggregate' = NoCounts
    BY DEF FlushAggregate, Closed
  <1>2. /\ Pending \subseteq reported' \cup unreported' /\ reported \subseteq reported'
        /\ unreported \subseteq unreported' /\ unreported' \subseteq unreported \cup Pending
        /\ HasRelease /\ enabled => unreported' = unreported
    BY DEF FlushAggregate, SendAggregate
  <1>3. Pending' = {}
    BY <1>1, <1>2 DEF Pending
  <1> QED
    BY <1>1, <1>2, <1>3 DEF RequestsOnward, AggregateHasTimer

LEMMA RequestsOnFlushFacts ==
    ASSUME AggregateHasTimer, RequestsOnFlush
    PROVE  RequestsOnward /\ Pending' = {}
  <1>1. CASE aggregateTimer
    BY <1>1, FlushAggregateFacts DEF RequestsOnFlush
  <1>2. CASE ~aggregateTimer
    <2>1. /\ recorded' = recorded /\ aggregate' = aggregate /\ aggregateTimer' = aggregateTimer
          /\ reported' = reported /\ unreported' = unreported
      BY <1>2 DEF RequestsOnFlush, requestVars, history
    <2> QED
      BY <1>2, <2>1 DEF RequestsOnward, AggregateHasTimer, Pending, Closed
  <1> QED
    BY <1>1, <1>2

LEMMA RequestStepFacts ==
    ASSUME AggregateHasTimer, RequestsInv, RequestStep
    PROVE  RequestsOnward
  <1>1. CASE AggregateTimerFires
    BY <1>1, FlushAggregateFacts DEF AggregateTimerFires
  <1>2. ASSUME NEW r \in Request, CloseResponse(r) PROVE RequestsOnward
    <2> DEFINE entry == <<minute, OutcomeOf(requestStatus[r])>>
    <2>1. /\ r \notin Closed /\ recorded' = [recorded EXCEPT ![r] = entry]
          /\ aggregateTimer' = (aggregateTimer \/ aggregate = NoCounts)
          /\ reported' = reported /\ unreported' = unreported
      BY <1>2 DEF CloseResponse, history
    <2>2. Closed' = Closed \cup {r} \/ Closed' = Closed
      BY <2>1 DEF Closed, RequestsInv, RequestsFit
    <2>3. aggregateTimer' = TRUE
      BY <2>1 DEF AggregateHasTimer
    <2> QED
      BY <2>1, <2>2, <2>3 DEF RequestsOnward, AggregateHasTimer, Pending
  <1>3. ASSUME recorded' = recorded, UNCHANGED <<aggregate, aggregateTimer, history>> PROVE RequestsOnward
    BY <1>3 DEF RequestsOnward, AggregateHasTimer, Pending, Closed, history
  <1>4. CASE Tick \/ \E r \in Request : StartRequest(r)
    BY <1>3, <1>4 DEF Tick, StartRequest
  <1>5. ASSUME NEW r \in Request, NEW kind \in {"handled", "unhandled"}, CaptureException(r, kind)
        PROVE  RequestsOnward
    BY <1>3, <1>5 DEF CaptureException
  <1> QED
    BY <1>1, <1>2, <1>4, <1>5 DEF RequestStep

-----------------------------------------------------------------------------
(* close(), seen from the client: until it is called nothing is lost, and  *)
(* what had been captured then is neither held nor lost afterwards.        *)

NotYetClosed ==
    ~beforeClose.called =>
        /\ enabled /\ ~closing /\ beforeClose = NotClosed
        /\ logs.discarded = {} /\ spans.dropped = {} /\ (HasRelease => unreported = {})

LogsClose ==
    /\ logs \in LogState
    /\ beforeClose.logs \subseteq logs.captured
    /\ beforeClose.logs \cap (logs.buffer \cup logs.discarded) = {}

SpansClose ==
    /\ SpansInv
    /\ beforeClose.spans \subseteq spans.ended
    /\ beforeClose.spans \cap (Held \cup spans.dropped) = {}

RequestsClose ==
    /\ AggregateHasTimer
    /\ beforeClose.requests \subseteq Closed
    /\ beforeClose.requests \cap Pending = {}
    /\ HasRelease => beforeClose.requests \cap unreported = {}

CloseInv == NotYetClosed /\ LogsClose /\ SpansClose /\ RequestsClose

(* No step but the first call of close() takes a new snapshot. *)
LEMMA OnwardKeepsLogs ==
    ASSUME LogsClose, Onward(logs, logs'), beforeClose' = beforeClose
    PROVE  LogsClose'
  BY DEF LogsClose, Onward

LEMMA OnwardKeepsSpans ==
    ASSUME SpansClose, SpansInv', SpansMove(spans, spans'), beforeClose' = beforeClose
    PROVE  SpansClose'
  BY DEF SpansClose, SpansMove, Held

LEMMA OnwardKeepsRequests ==
    ASSUME RequestsClose, RequestsOnward, beforeClose' = beforeClose
    PROVE  RequestsClose'
  BY DEF RequestsClose, RequestsOnward

LEMMA Stays ==
    ASSUME CloseInv
    PROVE  /\ logs' = logs => Onward(logs, logs')
           /\ spans' = spans => SpansInv' /\ SpansPass(spans, spans')
           /\ UNCHANGED requestVars => RequestsOnward
  <1>1. logs' = logs => Onward(logs, logs')
    BY DEF CloseInv, LogsClose, Onward
  <1>2. spans' = spans => SpansInv' /\ SpansPass(spans, spans')
    BY DEF CloseInv, SpansClose, SpansInv, SpansFiled, AtMostTwice, Below, SpansPass, SpansMove
  <1>3. UNCHANGED requestVars => RequestsOnward
    BY DEF CloseInv, RequestsClose, RequestsOnward, AggregateHasTimer, Pending, Closed, requestVars, history
  <1> QED
    BY <1>1, <1>2, <1>3

(* A step that changes neither the client nor the snapshot *)
LEMMA QuietStep ==
    ASSUME CloseInv, Onward(logs, logs'), SpansInv', SpansPass(spans, spans'), RequestsOnward,
           UNCHANGED <<hookVars, beforeClose>>
    PROVE  CloseInv'
  <1>1. NotYetClosed'
    BY DEF CloseInv, NotYetClosed, Onward, SpansPass, RequestsOnward, hookVars
  <1> QED
    BY <1>1, OnwardKeepsLogs, OnwardKeepsSpans, OnwardKeepsRequests DEF CloseInv, SpansPass

LEMMA FlushHandlersFacts ==
    ASSUME CloseInv, FlushHandlers
    PROVE  /\ Onward(logs, logs') /\ logs'.buffer \subseteq logs'.captured \ logs.captured
           /\ SpansInv' /\ SpansPass(spans, spans') /\ Held' = {}
           /\ RequestsOnward /\ Pending' = {}
  <1>1. PICK n \in Handled : logs' = FlushLogs(logs, n)
    BY DEF FlushHandlers, LogsOnFlush
  <1>2. n \in Log \cup {NoLog}
    BY FeatureAssumption DEF Handled
  <1>3. (\E m \in HandledSpans : Drain(m)) /\ RequestsOnFlush
    BY DEF FlushHandlers
  <1> QED
    BY <1>1, <1>2, <1>3, FlushLogsFacts, DrainMoves, RequestsOnFlushFacts
       DEF CloseInv, LogsClose, SpansClose, RequestsClose

LEMMA CallCloseStep ==
    ASSUME CloseInv, CallClose
    PROVE  CloseInv'
  <1>1. /\ FlushHandlers /\ enabled' = enabled
        /\ beforeClose' = IF beforeClose.called THEN beforeClose ELSE CapturedSoFar
    BY DEF CallClose, BeginClose
  <1>2. CASE beforeClose.called
    <2>1. NotYetClosed'
      BY <1>1, <1>2 DEF NotYetClosed
    <2> QED
      BY <1>1, <1>2, <2>1, FlushHandlersFacts, OnwardKeepsLogs, OnwardKeepsSpans, OnwardKeepsRequests
         DEF CloseInv, SpansPass
  <1>3. CASE ~beforeClose.called
    <2>1. /\ beforeClose'.called = TRUE /\ beforeClose'.logs = logs.captured
          /\ beforeClose'.spans = spans.ended /\ beforeClose'.requests = Closed
      BY <1>1, <1>3 DEF CapturedSoFar
    <2>2. enabled /\ logs.discarded = {} /\ spans.dropped = {} /\ (HasRelease => unreported = {})
      BY <1>3 DEF CloseInv, NotYetClosed
    <2>3. LogsClose'
      BY <1>1, <2>1, <2>2, FlushHandlersFacts DEF LogsClose, Onward
    <2>4. SpansClose'
      BY <1>1, <2>1, <2>2, FlushHandlersFacts DEF SpansClose, SpansPass, SpansMove
    <2>5. RequestsClose'
      BY <1>1, <2>1, <2>2, FlushHandlersFacts DEF RequestsClose, RequestsOnward
    <2>6. NotYetClosed'
      BY <2>1 DEF NotYetClosed
    <2> QED
      BY <2>3, <2>4, <2>5, <2>6 DEF CloseInv
  <1> QED
    BY <1>2, <1>3

LEMMA CloseStep ==
    ASSUME CloseInv, Close
    PROVE  CloseInv'
  <1>1. /\ SpansOnClose /\ logs' = logs /\ UNCHANGED requestVars /\ beforeClose' = beforeClose /\ closing
    BY DEF Close, EndClose
  <1>2. SpansInv' /\ SpansMove(spans, spans')
    BY <1>1, SpansOnCloseMoves DEF CloseInv, SpansClose
  <1>3. NotYetClosed'
    BY <1>1 DEF CloseInv, NotYetClosed
  <1> QED
    BY <1>1, <1>2, <1>3, Stays, OnwardKeepsLogs, OnwardKeepsSpans, OnwardKeepsRequests DEF CloseInv

LEMMA CloseInvStep == CloseInv /\ RequestsInv /\ [Next]_vars => CloseInv'
  <1> SUFFICES ASSUME CloseInv, RequestsInv, [Next]_vars PROVE CloseInv'
    OBVIOUS
  <1>1. CASE LogStep
    <2>1. PICK n \in Handled : LogTimerFires(n) \/ \E l \in Log : CaptureLog(l, n)
      BY <1>1 DEF LogStep
    <2>2. n \in Log \cup {NoLog}
      BY FeatureAssumption DEF Handled
    <2>3. logs \in LogState
      BY DEF CloseInv, LogsClose
    <2>4. ASSUME LogTimerFires(n) PROVE Onward(logs, logs')
      <3> DEFINE b == [logs EXCEPT !.flushTimeout = FALSE]
      <3>1. Onward(logs, b) /\ b \in LogState
        BY <2>3 DEF Onward, LogState
      <3>2. logs' = FlushLogs(b, n)
        BY <2>4 DEF LogTimerFires
      <3> HIDE DEF b
      <3> QED
        BY <2>2, <3>1, <3>2, FlushLogsFacts, OnwardTwice
    <2>5. Onward(logs, logs')
      BY <2>1, <2>2, <2>3, <2>4, CaptureLogFacts
    <2> QED
      BY <1>1, <2>5, Stays, QuietStep DEF LogStep, Same
  <1>2. CASE SpanStep
    <2>1. SpansInv' /\ SpansPass(spans, spans')
      BY <1>2, SpanStepMoves DEF CloseInv, SpansClose
    <2> QED
      BY <1>2, <2>1, Stays, QuietStep DEF SpanStep, Same
  <1>3. CASE RequestStep
    <2>1. RequestsOnward
      BY <1>3, RequestStepFacts DEF CloseInv, RequestsClose
    <2> QED
      BY <1>3, <2>1, Stays, QuietStep DEF RequestStep, Same
  <1>4. CASE SessionStep
    BY <1>4, Stays, QuietStep DEF SessionStep, Same
  <1>5. CASE Flush
    BY <1>5, FlushHandlersFacts, QuietStep DEF Flush, EmitFlush
  <1>6. CASE UNCHANGED vars
    BY <1>6, Stays, QuietStep DEF vars
  <1> QED
    BY <1>1, <1>2, <1>3, <1>4, <1>5, <1>6, CallCloseStep, CloseStep DEF Next

LEMMA CloseInvInit == Init => CloseInv
  <1> SUFFICES ASSUME Init PROVE CloseInv
    OBVIOUS
  <1>1. /\ beforeClose = NotClosed /\ enabled /\ ~closing
        /\ ~beforeClose.called /\ beforeClose.logs = {} /\ beforeClose.spans = {}
        /\ beforeClose.requests = {}
    BY DEF Init, NotClosed, HooksInit
  <1>2. LogsClose /\ logs.discarded = {}
    BY <1>1 DEF Init, LogsInit, LogsClose, LogState
  <1>3. SpansClose /\ spans.dropped = {}
    BY <1>1, SpansInvInit DEF Init, SpansInit, SpansClose
  <1>4. Closed = {} /\ aggregate = NoCounts /\ unreported = {}
    BY DEF Init, RequestsInit, Closed
  <1>5. RequestsClose
    BY <1>1, <1>4 DEF RequestsClose, AggregateHasTimer, Pending
  <1> QED
    BY <1>1, <1>2, <1>3, <1>4, <1>5 DEF CloseInv, NotYetClosed

(* client.ts:470: nothing that was captured, ended or closed before the    *)
(* first call of close() is dropped or left over, whatever comes while it  *)
(* waits; and until then nothing is dropped at all.                        *)
THEOREM OnlyLatecomersAreLost == Spec => []CloseLosesOnlyLatecomers
  <1>1. Init => CloseInv /\ RequestsInv
    BY CloseInvInit, RequestsInvInit DEF Init
  <1>2. CloseInv => CloseLosesOnlyLatecomers
    BY DEF CloseInv, NotYetClosed, LogsClose, SpansClose, RequestsClose, CloseLosesOnlyLatecomers
  <1> QED
    BY <1>1, <1>2, CloseInvStep, RequestsStep, PTL DEF Spec
-----------------------------------------------------------------------------
(* Types: what the invariants above do not say already *)

CountsType ==
    /\ aggregate \in [Entry -> Nat] /\ countsSent \in [Entry -> Nat]
    /\ aggregateTimer \in BOOLEAN
    /\ reported \in SUBSET Request /\ unreported \in SUBSET Request

ClientType ==
    /\ HooksTypeOK
    /\ features \in FeatureSets
    /\ beforeClose \in [called: BOOLEAN, logs: SUBSET Log, spans: SUBSET Span, requests: SUBSET Request]

LEMMA FlushCountsType ==
    ASSUME CountsType, FlushAggregate
    PROVE  CountsType'
  <1>1. NoCounts \in [Entry -> Nat] /\ Pending \in SUBSET Request
    BY DEF NoCounts, Pending, Closed
  <1>2. aggregate' \in [Entry -> Nat] /\ aggregateTimer' \in BOOLEAN
    BY <1>1 DEF FlushAggregate
  <1>3. CASE HasRelease /\ enabled
    <2>1. countsSent' = [e \in Entry |-> countsSent[e] + aggregate[e]]
      BY <1>3 DEF FlushAggregate, SendAggregate
    <2>2. countsSent' \in [Entry -> Nat]
      BY <2>1 DEF CountsType
    <2> QED
      BY <1>1, <1>2, <1>3, <2>2 DEF CountsType, FlushAggregate, SendAggregate
  <1>4. CASE ~(HasRelease /\ enabled)
    BY <1>1, <1>2, <1>4 DEF CountsType, FlushAggregate, SendAggregate
  <1> QED
    BY <1>3, <1>4

LEMMA CountsTypeStep == CountsType /\ RequestsInv /\ [Next]_vars => CountsType'
  <1> SUFFICES ASSUME CountsType, RequestsInv, [Next]_vars PROVE CountsType'
    OBVIOUS
  <1>1. ASSUME UNCHANGED <<aggregate, aggregateTimer, history>> PROVE CountsType'
    BY <1>1 DEF CountsType, history
  <1>2. ASSUME NEW r \in Request, CloseResponse(r) PROVE CountsType'
    <2> DEFINE entry == <<minute, OutcomeOf(requestStatus[r])>>
    <2>1. /\ aggregate' = [aggregate EXCEPT ![entry] = @ + 1] /\ UNCHANGED history
          /\ aggregateTimer' = (aggregateTimer \/ aggregate = NoCounts)
      BY <1>2 DEF CloseResponse
    <2>2. aggregate' \in [Entry -> Nat]
      <3>1. aggregate \in [Entry -> Nat] /\ \A n \in Nat : n + 1 \in Nat
        BY DEF CountsType
      <3> HIDE DEF entry
      <3>2. entry \in Entry => aggregate[entry] + 1 \in Nat
        BY <3>1
      <3>3. \A e \in Entry : aggregate'[e] \in Nat
        BY <2>1, <3>1, <3>2
      <3>4. aggregate' = [e \in Entry |-> aggregate'[e]]
        BY <2>1, <3>1
      <3> QED
        BY <3>3, <3>4
    <2> QED
      BY <2>1, <2>2 DEF CountsType, history
  <1>3. CASE RequestStep
    BY <1>1, <1>2, <1>3, FlushCountsType
       DEF RequestStep, Tick, StartRequest, CaptureException, AggregateTimerFires
  <1>4. CASE Flush \/ CallClose
    BY <1>1, <1>4, FlushCountsType DEF Flush, CallClose, FlushHandlers, RequestsOnFlush, requestVars
  <1>5. CASE LogStep \/ SpanStep \/ SessionStep \/ Close \/ UNCHANGED vars
    BY <1>1, <1>5 DEF LogStep, SpanStep, SessionStep, Close, vars, requestVars
  <1> QED
    BY <1>3, <1>4, <1>5 DEF Next

LEMMA ClientTypeStep == ClientType /\ CloseInv /\ [Next]_vars => ClientType'
  <1> SUFFICES ASSUME ClientType, CloseInv, [Next]_vars PROVE ClientType'
    OBVIOUS
  <1>1. features' = features /\ enabled' \in BOOLEAN /\ closing' \in BOOLEAN
    BY DEF ClientType, HooksTypeOK, Next, LogStep, SpanStep, RequestStep, SessionStep, Flush, CallClose,
           Close, vars, hookVars, Same, EmitFlush, BeginClose, EndClose
  <1>2. CapturedSoFar \in [called: BOOLEAN, logs: SUBSET Log, spans: SUBSET Span, requests: SUBSET Request]
    <2>1. logs.captured \in SUBSET Log
      BY DEF CloseInv, LogsClose, LogState
    <2>2. spans.ended \in SUBSET Span
      BY DEF CloseInv, SpansClose, SpansInv, SpansFiled, SpanState
    <2>3. Closed \in SUBSET Request
      BY DEF Closed
    <2> QED
      BY <2>1, <2>2, <2>3 DEF CapturedSoFar
  <1>3. beforeClose' = beforeClose \/ beforeClose' = CapturedSoFar
    BY DEF Next, LogStep, SpanStep, RequestStep, SessionStep, Flush, CallClose, Close, vars, Same
  <1> QED
    BY <1>1, <1>2, <1>3 DEF ClientType, HooksTypeOK

(* The variables keep their types. *)
THEOREM TypeCorrect == Spec => []TypeOK
  <1>1. Init => CountsType /\ ClientType
    <2> SUFFICES ASSUME Init PROVE CountsType /\ ClientType
      OBVIOUS
    <2>1. NoCounts \in [Entry -> Nat]
      BY DEF NoCounts
    <2>2. CountsType
      BY <2>1 DEF Init, RequestsInit, CountsType
    <2>3. ClientType
      BY DEF Init, ClientType, HooksInit, HooksTypeOK, NotClosed
    <2> QED
      BY <2>2, <2>3
  <1>2. Init => SessionsInv /\ RequestsInv /\ CloseInv
    BY SessionsInvInit, RequestsInvInit, CloseInvInit DEF Init
  <1>3. SessionsInv /\ RequestsInv /\ CloseInv /\ CountsType /\ ClientType => TypeOK
    BY DEF SessionsInv, SessionsExist, RequestsInv, RequestsFit, CloseInv, LogsClose, LogState, SpansClose,
           SpansInv, SpansFiled, SpanState, SpansTypeOK, CountsType, ClientType, TypeOK, LogsTypeOK, RequestsTypeOK
  <1> QED
    BY <1>1, <1>2, <1>3, SessionsInvStep, RequestsStep, CloseInvStep, CountsTypeStep, ClientTypeStep, PTL
       DEF Spec
-----------------------------------------------------------------------------
(* Logs: where each of them is, and what an operation of the buffer does to it *)

LEMMA WeightFacts ==
    /\ Weight({}) = 0
    /\ \A S \in SUBSET Log : /\ Weight(S) \in Nat
                             /\ \A l \in Log \ S : Weight(S \cup {l}) = Weight(S) + LogSize[l]
  <1>1. \A S : Weight(S) = SumOver(LogSize, S)
    BY DEF Weight, SumOver
  <1>2. IsFiniteSet(Log) /\ \A l \in Log : LogSize[l] \in Nat
    BY LogAssumption
  <1>3. \A S \in SUBSET Log : /\ SumOver(LogSize, S) \in Nat
                              /\ \A l \in Log \ S : SumOver(LogSize, S \cup {l}) = SumOver(LogSize, S) + LogSize[l]
    BY <1>2, SumFacts
  <1>4. SumOver(LogSize, {}) = 0
    BY EmptySum
  <1> QED
    BY <1>1, <1>3, <1>4

(* In how many places a log is *)
Places(b, l) ==
    (IF l \in b.buffer THEN 1 ELSE 0) + (IF l \in b.discarded THEN 1 ELSE 0)
        + (IF l \in b.overwritten THEN 1 ELSE 0) + b.handed[l]

(* A captured log is in one place, or in none while it is being stored. *)
Sound(b) ==
    /\ b \in LogState
    /\ \A l \in Log : Places(b, l) <= IF l \in b.captured THEN 1 ELSE 0

(* Between two operations the timer runs iff the buffer holds something, and *)
(* neither limit is reached.                                                  *)
Settled(b) ==
    /\ b.isTimerActive = b.flushTimeout
    /\ b.flushTimeout <=> FlushInterval > 0 /\ b.buffer # {}
    /\ Weight(b.buffer) <= b.weight
    /\ b.weight < MaxWeight
    /\ Cardinality(b.buffer) <= MaxLogBuffer

(* No log gets lost or doubled on the way, and none is overwritten. *)
Conserved(b, c) ==
    /\ c \in LogState
    /\ b.captured \subseteq c.captured
    /\ c.overwritten = b.overwritten
    /\ \A l \in Log : Places(c, l) = Places(b, l) + IF l \in c.captured \ b.captured THEN 1 ELSE 0

LEMMA ConservedKeepsSound ==
    ASSUME NEW b, NEW c, Sound(b), Conserved(b, c)
    PROVE  Sound(c)
  <1>1. \A l \in Log : l \in c.captured \ b.captured => Places(b, l) <= 0
    BY DEF Sound
  <1>2. \A l \in Log : Places(b, l) \in Nat
    BY DEF Sound, LogState, Places
  <1> QED
    BY <1>1, <1>2 DEF Sound, Conserved

LEMMA SoundFacts ==
    ASSUME NEW b, Sound(b)
    PROVE  /\ b \in LogState
           /\ \A l \in Log : b.handed[l] \in Nat /\ Places(b, l) \in Nat /\ Places(b, l) <= 1
           /\ \A l \in Log \ b.captured :
                 Places(b, l) = 0 /\ l \notin b.buffer \cup b.discarded \cup b.overwritten
           /\ b.buffer \subseteq b.captured
           /\ b.buffer \cap b.discarded = {} /\ b.buffer \cap b.overwritten = {}
  <1>1. b \in LogState /\ b.buffer \subseteq Log
    BY DEF Sound, LogState
  <1>2. \A l \in Log : b.handed[l] \in Nat
    BY <1>1 DEF LogState
  <1>3. \A l \in Log : Places(b, l) \in Nat
    BY <1>2 DEF Places
  <1>4. \A l \in Log : Places(b, l) <= 1
    BY <1>3 DEF Sound
  <1>5. \A l \in Log \ b.captured : Places(b, l) = 0
    BY <1>3 DEF Sound
  <1>6. \A l \in Log : Places(b, l) = 0 => l \notin b.buffer \cup b.discarded \cup b.overwritten
    BY <1>2 DEF Places
  <1>7. b.buffer \subseteq b.captured
    BY <1>1, <1>5, <1>6
  <1>8. \A l \in Log : l \in b.buffer => l \notin b.discarded /\ l \notin b.overwritten
    BY <1>2, <1>4 DEF Places
  <1> QED
    BY <1>1, <1>2, <1>3, <1>4, <1>5, <1>6, <1>7, <1>8

LEMMA HandLogsMoves ==
    ASSUME NEW b \in LogState, NEW items \in SUBSET Log, items \cap b.discarded = {}
    PROVE  LET c == HandLogs(b, items)
           IN  /\ c \in LogState /\ c.captured = b.captured /\ c.buffer = b.buffer
               /\ c.weight = b.weight /\ c.isTimerActive = b.isTimerActive
               /\ c.flushTimeout = b.flushTimeout /\ c.overwritten = b.overwritten
               /\ \A l \in Log : Places(c, l) = Places(b, l) + IF l \in items THEN 1 ELSE 0
  <1> DEFINE more == [l \in Log |-> b.handed[l] + IF l \in items THEN 1 ELSE 0]
             c == HandLogs(b, items)
  <1>0. /\ more \in [Log -> Nat]
        /\ \A l \in Log : more[l] = b.handed[l] + IF l \in items THEN 1 ELSE 0
        /\ \A l \in Log : b.handed[l] \in Nat
    BY DEF LogState
  <1>1. CASE enabled
    <2>1. c = [b EXCEPT !.handed = more]
      BY <1>1 DEF HandLogs
    <2> HIDE DEF more, c
    <2>2. /\ c \in LogState /\ c.captured = b.captured /\ c.buffer = b.buffer
          /\ c.weight = b.weight /\ c.isTimerActive = b.isTimerActive
          /\ c.flushTimeout = b.flushTimeout /\ c.overwritten = b.overwritten
          /\ c.discarded = b.discarded /\ c.handed = more
      BY <1>0, <2>1 DEF LogState
    <2>3. \A l \in Log : Places(c, l) = Places(b, l) + IF l \in items THEN 1 ELSE 0
      BY <1>0, <2>2 DEF Places
    <2> QED
      BY <2>2, <2>3 DEF c
  <1>2. CASE ~enabled
    <2>1. c = [b EXCEPT !.discarded = b.discarded \cup items]
      BY <1>2 DEF HandLogs
    <2> HIDE DEF more, c
    <2>2. /\ c \in LogState /\ c.captured = b.captured /\ c.buffer = b.buffer
          /\ c.weight = b.weight /\ c.isTimerActive = b.isTimerActive
          /\ c.flushTimeout = b.flushTimeout /\ c.overwritten = b.overwritten
          /\ c.discarded = b.discarded \cup items /\ c.handed = b.handed
      BY <2>1 DEF LogState
    <2>3. \A l \in Log : Places(c, l) = Places(b, l) + IF l \in items THEN 1 ELSE 0
      BY <1>0, <2>2 DEF Places
    <2> QED
      BY <2>2, <2>3 DEF c
  <1> QED
    BY <1>1, <1>2

LEMMA CapturesMoves ==
    ASSUME NEW b, Sound(b), b.buffer = {}, b.weight = 0, ~b.isTimerActive, ~b.flushTimeout,
           NEW n \in Log \cup {NoLog}
    PROVE  LET c == Captures(n, b)
           IN  /\ Conserved(b, c) /\ Settled(c)
               /\ c.buffer \subseteq {n} \ b.captured
               /\ c.captured \subseteq b.captured \cup {n}
  <1> DEFINE c == Captures(n, b)
  <1>0. /\ b \in LogState /\ Weight({}) = 0 /\ Cardinality({}) = 0 /\ Cardinality({n}) = 1
        /\ MaxWeight \in Nat \ {0} /\ MaxLogBuffer \in Nat \ {0}
    BY WeightFacts, FS_EmptySet, FS_Singleton, LogAssumption DEF Sound
  <1>1. CASE n = NoLog \/ n \in b.captured
    <2>1. c = b
      BY <1>1 DEF Captures
    <2>2. Conserved(b, b)
      <3>1. \A l \in Log : Places(b, l) \in Nat
        BY <1>0 DEF Places, LogState
      <3> QED
        BY <1>0, <3>1 DEF Conserved
    <2>3. Settled(b)
      BY <1>0 DEF Settled, LogState
    <2> HIDE DEF c
    <2> QED
      BY <2>1, <2>2, <2>3 DEF c
  <1>2. CASE ~(n = NoLog \/ n \in b.captured)
    <2> DEFINE taken == [b EXCEPT !.captured = @ \cup {n}, !.buffer = @ \cup {n}]
               stored == Weighed(taken, n)
    <2>1. /\ taken \in LogState /\ taken.captured = b.captured \cup {n}
          /\ taken.buffer = {n} /\ taken.discarded = b.discarded /\ taken.weight = 0
          /\ taken.overwritten = b.overwritten /\ taken.handed = b.handed
          /\ ~taken.isTimerActive /\ ~taken.flushTimeout
      BY <1>0, <1>2 DEF LogState
    <2> HIDE DEF taken
    <2>2. /\ stored \in LogState /\ stored.captured = b.captured \cup {n}
          /\ stored.buffer = {n} /\ stored.discarded = b.discarded /\ stored.weight = LogSize[n]
          /\ stored.overwritten = b.overwritten /\ stored.handed = b.handed
          /\ ~stored.isTimerActive /\ ~stored.flushTimeout
      <3>1. LogSize[n] \in Nat
        BY <1>2, LogAssumption
      <3> QED
        BY <1>2, <2>1, <3>1, SmallSteps
    <2>3. c = IF stored.weight >= MaxWeight THEN HandLogs(Emptied(stored), stored.buffer)
              ELSE StartTimer(stored)
      BY <1>2 DEF Captures, taken
    <2> HIDE DEF stored, c
    <2>4. \A l \in Log : Places(b, l) \in Nat /\ (l = n => Places(b, l) = 0 /\ l \notin b.discarded)
      <3>1. \A l \in Log : b.handed[l] \in Nat
        BY <1>0 DEF LogState
      <3>2. Places(b, n) <= 0
        BY <1>2 DEF Sound
      <3> QED
        BY <3>1, <3>2 DEF Places
    <2>5. Weight({n}) = LogSize[n]
      <3>1. {} \in SUBSET Log /\ n \in Log \ {} /\ {} \cup {n} = {n} /\ LogSize[n] \in Nat
        BY <1>2, LogAssumption
      <3>2. Weight({} \cup {n}) = Weight({}) + LogSize[n]
        BY <3>1, WeightFacts
      <3> QED
        BY <1>0, <3>1, <3>2
    <2>6. CASE stored.weight >= MaxWeight
      <3> DEFINE emptied == Emptied(stored)
      <3>1. /\ emptied \in LogState /\ emptied.buffer = {} /\ emptied.weight = 0
            /\ ~emptied.isTimerActive /\ ~emptied.flushTimeout
            /\ emptied.captured = stored.captured /\ emptied.discarded = b.discarded
            /\ emptied.overwritten = b.overwritten /\ emptied.handed = b.handed
        BY <2>2, SmallSteps
      <3>2. c = HandLogs(emptied, {n})
        BY <2>2, <2>3, <2>6
      <3> HIDE DEF emptied
      <3>3. \A l \in Log : Places(emptied, l) = Places(b, l)
        BY <3>1 DEF Places
      <3>4. {n} \in SUBSET Log /\ {n} \cap emptied.discarded = {}
        BY <1>2, <2>4, <3>1
      <3>5. /\ c \in LogState /\ c.captured = b.captured \cup {n} /\ c.buffer = {}
            /\ c.weight = 0 /\ ~c.isTimerActive
            /\ ~c.flushTimeout /\ c.overwritten = b.overwritten
            /\ \A l \in Log : Places(c, l) = Places(b, l) + IF l \in {n} THEN 1 ELSE 0
        BY <2>2, <3>1, <3>2, <3>3, <3>4, HandLogsMoves
      <3>6. Conserved(b, c)
        BY <1>2, <3>5 DEF Conserved
      <3>7. Settled(c)
        BY <1>0, <3>5 DEF Settled, LogState
      <3> QED
        BY <3>5, <3>6, <3>7 DEF c
    <2>7. CASE ~(stored.weight >= MaxWeight)
      <3>1. /\ c \in LogState /\ c.captured = b.captured \cup {n} /\ c.buffer = {n}
            /\ c.weight = LogSize[n] /\ c.isTimerActive = (FlushInterval > 0)
            /\ c.flushTimeout = (FlushInterval > 0) /\ c.overwritten = b.overwritten
            /\ c.discarded = b.discarded /\ c.handed = b.handed
        BY <2>2, <2>3, <2>7, SmallSteps
      <3>2. Conserved(b, c)
        <4>1. \A l \in Log : Places(c, l) = Places(b, l) + IF l \in {n} THEN 1 ELSE 0
          <5>1. \A l \in Log : b.handed[l] \in Nat
            BY <1>0 DEF LogState
          <5> QED
            BY <1>0, <3>1, <5>1 DEF Places
        <4> QED
          BY <1>2, <3>1, <4>1 DEF Conserved
      <3>3. Settled(c)
        <4>1. LogSize[n] \in Nat /\ LogSize[n] < MaxWeight
          BY <1>0, <1>2, <2>2, <2>7, LogAssumption
        <4>2. c.isTimerActive = c.flushTimeout /\ (c.flushTimeout <=> FlushInterval > 0 /\ c.buffer # {})
          BY <3>1
        <4>3. Weight(c.buffer) <= c.weight /\ c.weight < MaxWeight /\ Cardinality(c.buffer) <= MaxLogBuffer
          BY <1>0, <2>5, <3>1, <4>1
        <4> QED
          BY <4>2, <4>3 DEF Settled
      <3> QED
        BY <1>2, <3>1, <3>2, <3>3 DEF c
    <2> QED
      BY <2>6, <2>7
  <1> QED
    BY <1>1, <1>2

(* A flush hands over all that is held; the buffer then holds at most what a *)
(* handler captured meanwhile.                                                 *)
LEMMA FlushMoves ==
    ASSUME NEW b, Sound(b), b.buffer # {}, NEW n \in Log \cup {NoLog}
    PROVE  LET c == FlushLogs(b, n)
           IN  /\ Conserved(b, c) /\ Settled(c)
               /\ c.buffer \subseteq {n} \ b.captured
               /\ c.captured \subseteq b.captured \cup {n}
  <1> DEFINE emptied == Emptied(b)
             caught == Captures(n, emptied)
             c == HandLogs(caught, b.buffer)
  <1>0. b \in LogState /\ b.buffer \in SUBSET Log /\ FlushLogs(b, n) = c
    BY DEF Sound, LogState, FlushLogs
  <1>1. /\ emptied \in LogState /\ emptied.buffer = {} /\ emptied.weight = 0
        /\ ~emptied.isTimerActive /\ ~emptied.flushTimeout
        /\ emptied.captured = b.captured /\ emptied.discarded = b.discarded
        /\ emptied.overwritten = b.overwritten /\ emptied.handed = b.handed
    BY <1>0, SmallSteps
  <1> HIDE DEF emptied
  <1>2. \A l \in Log : /\ b.handed[l] \in Nat /\ Places(b, l) <= 1
                       /\ l \notin b.captured => Places(b, l) <= 0
    BY SoundFacts
  <1>3. \A l \in Log : /\ Places(emptied, l) \in Nat
                       /\ Places(b, l) = Places(emptied, l) + IF l \in b.buffer THEN 1 ELSE 0
    BY <1>1, <1>2 DEF Places
  <1>4. Sound(emptied)
    BY <1>1, <1>2, <1>3 DEF Sound
  <1>5. /\ Conserved(emptied, caught) /\ Settled(caught)
        /\ caught.buffer \subseteq {n} \ b.captured
        /\ caught.captured \subseteq b.captured \cup {n}
    BY <1>1, <1>4, CapturesMoves
  <1> HIDE DEF caught
  <1>6. b.buffer \cap caught.discarded = {}
    <2> SUFFICES ASSUME NEW l \in b.buffer, l \in caught.discarded PROVE FALSE
      OBVIOUS
    <2>1. l \in Log /\ Places(emptied, l) = 0 /\ l \in b.captured
      BY <1>0, <1>2, <1>3
    <2>2. Places(caught, l) = 0 /\ caught \in LogState
      BY <1>1, <1>5, <2>1 DEF Conserved
    <2>3. caught.handed[l] \in Nat
      BY <2>1, <2>2 DEF LogState
    <2> QED
      BY <2>2, <2>3 DEF Places
  <1>7. /\ c \in LogState /\ c.captured = caught.captured /\ c.buffer = caught.buffer
        /\ c.weight = caught.weight /\ c.isTimerActive = caught.isTimerActive
        /\ c.flushTimeout = caught.flushTimeout /\ c.overwritten = caught.overwritten
        /\ \A l \in Log : Places(c, l) = Places(caught, l) + IF l \in b.buffer THEN 1 ELSE 0
    <2>1. caught \in LogState
      BY <1>5 DEF Conserved
    <2> QED
      BY <1>0, <1>6, <2>1, HandLogsMoves
  <1> HIDE DEF c
  <1>8. Conserved(b, c)
    BY <1>1, <1>3, <1>5, <1>7 DEF Conserved
  <1>9. Settled(c)
    BY <1>5, <1>7 DEF Settled
  <1> QED
    BY <1>0, <1>5, <1>7, <1>8, <1>9

(* What a step may do to the buffer as a whole: add to it, or replace it by   *)
(* what came since; and what it overwrites came since, in a full buffer.      *)
Advanced(b, c) ==
    /\ c \in LogState
    /\ b.captured \subseteq c.captured
    /\ \A l \in Log : Places(c, l) = Places(b, l) + IF l \in c.captured \ b.captured THEN 1 ELSE 0
    /\ \/ c.buffer = b.buffer \cup (c.captured \ b.captured)
       \/ c.buffer \subseteq c.captured \ b.captured
    /\ \/ c.overwritten = b.overwritten
       \/ /\ Cardinality(b.buffer) >= MaxLogBuffer
          /\ b.overwritten \subseteq c.overwritten
          /\ c.overwritten \ b.overwritten \subseteq c.captured \ b.captured

LEMMA StoreLogMoves ==
    ASSUME Sound(logs), Settled(logs), NEW l \in Log \ logs.captured,
           NEW n \in Log \cup {NoLog}, n # l
    PROVE  LET b == StoreLog([logs EXCEPT !.captured = @ \cup {l}], l, n)
           IN  /\ Advanced(logs, b)
               /\ l \in b.buffer /\ l \in b.captured
               /\ Weight(b.buffer) <= b.weight + LogSize[l] /\ b.weight < MaxWeight
               /\ Cardinality(b.buffer) <= MaxLogBuffer
               /\ b.isTimerActive = b.flushTimeout /\ (b.flushTimeout => FlushInterval > 0)
  <1> DEFINE a == [logs EXCEPT !.captured = @ \cup {l}]
             b == StoreLog(a, l, n)
  <1>0. /\ logs \in LogState /\ MaxWeight \in Nat \ {0} /\ MaxLogBuffer \in Nat \ {0}
        /\ \A S \in SUBSET Log : IsFiniteSet(S) /\ Cardinality(S) \in Nat
        /\ Cardinality({}) = 0 /\ Cardinality({l}) = 1 /\ LogSize[l] \in Nat
    BY FS_EmptySet, FS_Singleton, FS_Subset, FS_CardinalityType, LogAssumption DEF Sound
  <1>1. /\ a \in LogState /\ a.captured = logs.captured \cup {l}
        /\ a.buffer = logs.buffer /\ a.discarded = logs.discarded
        /\ a.overwritten = logs.overwritten /\ a.handed = logs.handed /\ a.weight = logs.weight
        /\ a.isTimerActive = logs.isTimerActive /\ a.flushTimeout = logs.flushTimeout
    BY <1>0 DEF LogState
  <1> HIDE DEF a
  <1>2. \A x \in Log : Places(logs, x) \in Nat /\ Places(a, x) = Places(logs, x) /\ logs.handed[x] \in Nat
    <2>1. \A x \in Log : Places(a, x) = Places(logs, x)
      BY <1>1 DEF Places
    <2> QED
      BY <2>1, SoundFacts
  <1>3. Places(logs, l) = 0 /\ l \notin logs.buffer
    BY SoundFacts
  <1>4. Sound(a)
    BY <1>1, <1>2, <1>3 DEF Sound
  <1>5. CASE Cardinality(a.buffer) >= MaxLogBuffer
    <2> DEFINE flushed == FlushLogs(a, n)
    <2>1. b = [flushed EXCEPT !.buffer = {l}, !.overwritten = flushed.overwritten \cup flushed.buffer]
      BY <1>5 DEF StoreLog
    <2>2. a.buffer # {}
      BY <1>0, <1>5
    <2>3. /\ Conserved(a, flushed) /\ Settled(flushed)
          /\ flushed.buffer \subseteq {n} \ a.captured
          /\ flushed.captured \subseteq a.captured \cup {n}
      BY <1>4, <2>2, FlushMoves
    <2>4. Sound(flushed)
      BY <1>4, <2>3, ConservedKeepsSound
    <2> HIDE DEF flushed, b
    <2>5. /\ b \in LogState /\ b.captured = flushed.captured /\ b.buffer = {l}
          /\ b.discarded = flushed.discarded /\ b.overwritten = flushed.overwritten \cup flushed.buffer
          /\ b.handed = flushed.handed /\ b.weight = flushed.weight
          /\ b.isTimerActive = flushed.isTimerActive /\ b.flushTimeout = flushed.flushTimeout
      BY <2>1, <2>4 DEF Sound, LogState
    <2>6. \A x \in Log : x \in flushed.buffer => x \notin flushed.overwritten
      BY <2>4, SoundFacts
    <2>7. l \notin flushed.buffer
      BY <1>1, <2>3
    <2>8. \A x \in Log : flushed.handed[x] \in Nat /\ Places(flushed, x) \in Nat
      BY <2>4, SoundFacts
    <2>9. \A x \in Log : Places(b, x) = Places(flushed, x) + IF x = l THEN 1 ELSE 0
      BY <2>5, <2>6, <2>7, <2>8 DEF Places
    <2>10. \A x \in Log : Places(b, x) = Places(logs, x) + IF x \in b.captured \ logs.captured THEN 1 ELSE 0
      <3>1. \A x \in Log : x \in b.captured \ logs.captured <=> x = l \/ x \in flushed.captured \ a.captured
        BY <1>1, <2>3, <2>5 DEF Conserved
      <3>2. \A x \in Log : ~(x = l /\ x \in flushed.captured \ a.captured)
        BY <1>1
      <3> QED
        BY <1>2, <2>3, <2>9, <3>1, <3>2 DEF Conserved
    <2>11. b.overwritten \ logs.overwritten \subseteq b.captured \ logs.captured
      <3>1. flushed.buffer \subseteq flushed.captured
        BY <2>4, SoundFacts
      <3> QED
        BY <1>1, <2>3, <2>5, <3>1 DEF Conserved
    <2>12. Advanced(logs, b)
      <3>1. b.captured \in SUBSET Log /\ logs.captured \subseteq b.captured /\ l \in b.captured
        BY <1>1, <2>3, <2>5 DEF Conserved, LogState
      <3>2. b.buffer \subseteq b.captured \ logs.captured
        BY <2>5, <3>1
      <3>3. logs.overwritten \subseteq b.overwritten
        BY <1>1, <2>3, <2>5 DEF Conserved
      <3> QED
        BY <1>1, <1>5, <2>5, <2>10, <2>11, <3>1, <3>2, <3>3 DEF Advanced
    <2>13. l \in b.buffer /\ l \in b.captured
      BY <1>1, <2>3, <2>5 DEF Conserved
    <2>14. Weight({l}) = LogSize[l]
      <3>1. {} \in SUBSET Log /\ l \in Log \ {} /\ {} \cup {l} = {l}
        OBVIOUS
      <3>2. Weight({} \cup {l}) = Weight({}) + LogSize[l] /\ Weight({}) = 0
        BY <3>1, WeightFacts
      <3> QED
        BY <1>0, <3>1, <3>2
    <2>15. Weight(b.buffer) <= b.weight + LogSize[l] /\ b.weight < MaxWeight
      <3>1. b.weight \in Nat
        BY <2>5 DEF LogState
      <3> QED
        BY <1>0, <2>3, <2>5, <2>14, <3>1 DEF Settled
    <2>16. Cardinality(b.buffer) <= MaxLogBuffer
      BY <1>0, <2>5
    <2>17. b.isTimerActive = b.flushTimeout /\ (b.flushTimeout => FlushInterval > 0)
      BY <2>3, <2>5 DEF Settled
    <2> QED
      BY <2>12, <2>13, <2>15, <2>16, <2>17 DEF a, b
  <1>6. CASE ~(Cardinality(a.buffer) >= MaxLogBuffer)
    <2>1. b = [a EXCEPT !.buffer = a.buffer \cup {l}]
      BY <1>6 DEF StoreLog
    <2> HIDE DEF b
    <2>2. /\ b \in LogState /\ b.captured = a.captured /\ b.buffer = a.buffer \cup {l}
          /\ b.discarded = a.discarded /\ b.overwritten = a.overwritten
          /\ b.handed = a.handed /\ b.weight = a.weight
          /\ b.isTimerActive = a.isTimerActive /\ b.flushTimeout = a.flushTimeout
      BY <1>1, <2>1 DEF LogState
    <2>3. \A x \in Log : Places(b, x) = Places(logs, x) + IF x \in b.captured \ logs.captured THEN 1 ELSE 0
      <3>1. \A x \in Log : x \in b.captured \ logs.captured <=> x = l
        BY <1>1, <2>2
      <3>2. \A x \in Log : Places(b, x) = Places(a, x) + IF x = l THEN 1 ELSE 0
        <4>1. /\ \A x \in Log : a.handed[x] \in Nat
              /\ b.handed = a.handed /\ b.discarded = a.discarded /\ b.overwritten = a.overwritten
              /\ b.buffer = a.buffer \cup {l} /\ l \notin a.buffer
          BY <1>1, <1>2, <1>3, <2>2
        <4> QED
          BY <4>1 DEF Places
      <3> QED
        BY <1>2, <3>1, <3>2
    <2>4. Advanced(logs, b)
      BY <1>1, <2>2, <2>3 DEF Advanced
    <2>5. l \in b.buffer /\ l \in b.captured
      BY <1>1, <2>2
    <2>6. Weight(b.buffer) <= b.weight + LogSize[l] /\ b.weight < MaxWeight
      <3>1. b.weight \in Nat /\ logs.buffer \in SUBSET Log /\ l \in Log \ logs.buffer
        BY <1>0, <1>3, <2>2 DEF LogState
      <3>2. Weight(logs.buffer \cup {l}) = Weight(logs.buffer) + LogSize[l] /\ Weight(logs.buffer) \in Nat
        BY <3>1, WeightFacts
      <3> QED
        BY <1>0, <1>1, <2>2, <3>1, <3>2 DEF Settled
    <2>7. Cardinality(b.buffer) <= MaxLogBuffer
      <3>1. logs.buffer \in SUBSET Log
        BY <1>0 DEF LogState
      <3>2. Cardinality(logs.buffer \cup {l}) = Cardinality(logs.buffer) + 1 /\ Cardinality(logs.buffer) \in Nat
        BY <1>0, <1>3, <3>1, FS_AddElement
      <3> QED
        BY <1>0, <1>1, <1>6, <2>2, <3>2
    <2>8. b.isTimerActive = b.flushTimeout /\ (b.flushTimeout => FlushInterval > 0)
      BY <1>1, <2>2 DEF Settled
    <2> QED
      BY <2>4, <2>5, <2>6, <2>7, <2>8 DEF a, b
  <1> QED
    BY <1>5, <1>6

LEMMA CaptureLogMoves ==
    ASSUME Sound(logs), Settled(logs), NEW l \in Log, NEW n \in Log \cup {NoLog}, CaptureLog(l, n)
    PROVE  Advanced(logs, logs') /\ Settled(logs')
  <1> DEFINE b == StoreLog([logs EXCEPT !.captured = @ \cup {l}], l, n)
             weighed == Weighed(b, l)
  <1>0. l \in Log \ logs.captured /\ n # l /\ logs' = AfterCaptureLog(b, l, n) /\ LogSize[l] \in Nat
    BY LogAssumption DEF CaptureLog
  <1>1. /\ Advanced(logs, b)
        /\ l \in b.buffer /\ l \in b.captured
        /\ Weight(b.buffer) <= b.weight + LogSize[l] /\ b.weight < MaxWeight
        /\ Cardinality(b.buffer) <= MaxLogBuffer
        /\ b.isTimerActive = b.flushTimeout /\ (b.flushTimeout => FlushInterval > 0)
    BY <1>0, StoreLogMoves
  <1> HIDE DEF b
  <1>2. /\ weighed \in LogState /\ weighed.buffer = b.buffer
        /\ weighed.weight = b.weight + LogSize[l]
        /\ weighed.captured = b.captured /\ weighed.discarded = b.discarded
        /\ weighed.overwritten = b.overwritten /\ weighed.handed = b.handed
        /\ weighed.isTimerActive = b.isTimerActive
        /\ weighed.flushTimeout = b.flushTimeout
    <2>1. b \in LogState
      BY <1>1 DEF Advanced
    <2> QED
      BY <2>1, SmallSteps
  <1>3. logs' = IF weighed.weight >= MaxWeight THEN FlushLogs(weighed, n) ELSE StartTimer(weighed)
    BY <1>0 DEF AfterCaptureLog
  <1> HIDE DEF weighed
  <1>4. \A x \in Log : Places(weighed, x) = Places(b, x)
    BY <1>2 DEF Places
  <1>5. Sound(weighed)
    BY <1>1, <1>2, <1>4, SoundFacts DEF Sound, Advanced
  <1>6. CASE weighed.weight >= MaxWeight
    <2>1. /\ Conserved(weighed, logs') /\ Settled(logs')
          /\ logs'.buffer \subseteq {n} \ weighed.captured
          /\ logs'.captured \subseteq weighed.captured \cup {n}
      BY <1>1, <1>2, <1>3, <1>5, <1>6, FlushMoves
    <2>2. Advanced(logs, logs')
      <3>1. /\ logs' \in LogState /\ logs.captured \subseteq logs'.captured
            /\ logs'.overwritten = b.overwritten
        BY <1>1, <1>2, <2>1 DEF Conserved, Advanced
      <3>2. \A x \in Log : Places(logs', x) = Places(logs, x) + IF x \in logs'.captured \ logs.captured THEN 1 ELSE 0
        BY <1>1, <1>2, <1>4, <2>1, SoundFacts DEF Conserved, Advanced
      <3>3. logs'.buffer \subseteq logs'.captured
        BY <1>5, <2>1, ConservedKeepsSound, SoundFacts
      <3>4. logs'.buffer \subseteq logs'.captured \ logs.captured
        BY <1>1, <1>2, <2>1, <3>3 DEF Advanced
      <3> QED
        BY <1>1, <1>2, <2>1, <3>1, <3>2, <3>4 DEF Advanced, Conserved
    <2> QED
      BY <2>1, <2>2
  <1>7. CASE ~(weighed.weight >= MaxWeight)
    <2>1. /\ logs' \in LogState /\ logs'.buffer = weighed.buffer
          /\ logs'.weight = weighed.weight
          /\ logs'.captured = weighed.captured /\ logs'.discarded = weighed.discarded
          /\ logs'.overwritten = weighed.overwritten /\ logs'.handed = weighed.handed
          /\ logs'.isTimerActive = (weighed.isTimerActive \/ FlushInterval > 0)
          /\ logs'.flushTimeout = (weighed.flushTimeout \/ (~weighed.isTimerActive /\ FlushInterval > 0))
      BY <1>2, <1>3, <1>7, SmallSteps
    <2>2. \A x \in Log : Places(logs', x) = Places(b, x)
      BY <1>2, <2>1 DEF Places
    <2>3. Advanced(logs, logs')
      BY <1>1, <1>2, <2>1, <2>2 DEF Advanced
    <2>4. logs'.isTimerActive = logs'.flushTimeout /\ (logs'.flushTimeout <=> FlushInterval > 0 /\ logs'.buffer # {})
      BY <1>1, <1>2, <2>1
    <2>5. Weight(logs'.buffer) <= logs'.weight /\ logs'.weight < MaxWeight /\ Cardinality(logs'.buffer) <= MaxLogBuffer
      <3>1. weighed.weight \in Nat /\ MaxWeight \in Nat
        BY <1>2, LogAssumption DEF LogState
      <3> QED
        BY <1>1, <1>2, <1>7, <2>1, <3>1
    <2> QED
      BY <2>3, <2>4, <2>5 DEF Settled
  <1> QED
    BY <1>6, <1>7
-----------------------------------------------------------------------------
(* Logs, step by step *)

(* Every captured log is in one place. *)
Whole(b) == \A l \in Log : Places(b, l) = IF l \in b.captured THEN 1 ELSE 0

LogsInv == logs \in LogState /\ Whole(logs) /\ Settled(logs)

LEMMA WholeIsSound == ASSUME NEW b \in LogState, Whole(b) PROVE Sound(b)
  BY DEF Whole, Sound

LEMMA AdvancedKeepsWhole == ASSUME NEW b, NEW c, Whole(b), Advanced(b, c) PROVE Whole(c)
  BY DEF Whole, Advanced

LEMMA FlushAdvances ==
    ASSUME LogsInv, NEW b, Sound(b), b.captured = logs.captured, b.buffer = logs.buffer,
           b.overwritten = logs.overwritten, \A l \in Log : Places(b, l) = Places(logs, l),
           b.buffer # {}, NEW n \in Log \cup {NoLog}, logs' = FlushLogs(b, n)
    PROVE  Advanced(logs, logs') /\ Settled(logs')
  <1>1. /\ Conserved(b, logs') /\ Settled(logs')
        /\ logs'.buffer \subseteq {n} \ b.captured
        /\ logs'.captured \subseteq b.captured \cup {n}
    BY FlushMoves
  <1>2. logs'.buffer \subseteq logs'.captured
    BY <1>1, ConservedKeepsSound, SoundFacts
  <1> QED
    BY <1>1, <1>2 DEF Conserved, Advanced

LEMMA LogsStep ==
    ASSUME LogsInv, [Next]_vars
    PROVE  LogsInv' /\ (logs' = logs \/ Advanced(logs, logs'))
  <1>0. Sound(logs) /\ logs \in LogState /\ Whole(logs) /\ Settled(logs)
    BY WholeIsSound DEF LogsInv
  <1>1. logs' = logs \/ (Advanced(logs, logs') /\ Settled(logs'))
    <2>1. ASSUME NEW n \in Log \cup {NoLog}, logs' = FlushLogs(logs, n)
          PROVE  logs' = logs \/ (Advanced(logs, logs') /\ Settled(logs'))
      <3>1. CASE logs.buffer = {}
        BY <2>1, <3>1 DEF FlushLogs
      <3>2. CASE logs.buffer # {}
        BY <1>0, <2>1, <3>2, FlushAdvances
      <3> QED
        BY <3>1, <3>2
    <2>2. ASSUME NEW n \in Log \cup {NoLog}, LogTimerFires(n)
          PROVE  Advanced(logs, logs') /\ Settled(logs')
      <3> DEFINE b == [logs EXCEPT !.flushTimeout = FALSE]
      <3>1. logs.flushTimeout /\ logs' = FlushLogs(b, n)
        BY <2>2 DEF LogTimerFires
      <3>2. /\ b \in LogState /\ b.captured = logs.captured /\ b.buffer = logs.buffer
            /\ b.overwritten = logs.overwritten /\ b.discarded = logs.discarded /\ b.handed = logs.handed
        BY <1>0 DEF LogState
      <3> HIDE DEF b
      <3>3. \A l \in Log : Places(b, l) = Places(logs, l)
        BY <3>2 DEF Places
      <3>4. Sound(b)
        BY <1>0, <3>2, <3>3 DEF Sound
      <3>5. b.buffer # {}
        BY <1>0, <3>1, <3>2 DEF Settled
      <3> QED
        BY <3>1, <3>2, <3>3, <3>4, <3>5, FlushAdvances
    <2>3. Handled \subseteq Log \cup {NoLog}
      BY FeatureAssumption DEF Handled
    <2>4. CASE LogStep
      <3>1. PICK n \in Handled : LogTimerFires(n) \/ \E l \in Log : CaptureLog(l, n)
        BY <2>4 DEF LogStep
      <3> QED
        BY <1>0, <2>2, <2>3, <3>1, CaptureLogMoves
    <2>5. CASE FlushHandlers
      BY <2>1, <2>3, <2>5 DEF FlushHandlers, LogsOnFlush
    <2>6. CASE SpanStep \/ RequestStep \/ SessionStep \/ Close \/ UNCHANGED vars
      BY <2>6 DEF SpanStep, RequestStep, SessionStep, Close, vars
    <2> QED
      BY <2>4, <2>5, <2>6 DEF Next, Flush, CallClose
  <1>2. logs' = logs => LogsInv'
    BY DEF LogsInv, Whole, Settled
  <1>3. Advanced(logs, logs') /\ Settled(logs') => LogsInv'
    <2> SUFFICES ASSUME Advanced(logs, logs'), Settled(logs') PROVE LogsInv'
      OBVIOUS
    <2>1. Whole(logs')
      BY <1>0, AdvancedKeepsWhole
    <2>2. logs' \in LogState
      BY DEF Advanced
    <2> QED
      BY <2>1, <2>2 DEF LogsInv, Whole, Settled
  <1> QED
    BY <1>1, <1>2, <1>3

LEMMA LogsInvInit == LogsInit => LogsInv
  <1> SUFFICES ASSUME LogsInit PROVE LogsInv
    OBVIOUS
  <1>1. /\ logs.buffer = {} /\ logs.weight = 0 /\ ~logs.isTimerActive /\ ~logs.flushTimeout
        /\ logs.captured = {} /\ logs.discarded = {} /\ logs.overwritten = {}
        /\ \A l \in Log : logs.handed[l] = 0
    BY DEF LogsInit
  <1>2. logs \in LogState
    BY DEF LogsInit, LogState
  <1>3. Whole(logs)
    BY <1>1 DEF Whole, Places
  <1>4. Settled(logs)
    <2>1. Weight({}) = 0 /\ Cardinality({}) = 0 /\ MaxWeight \in Nat \ {0} /\ MaxLogBuffer \in Nat \ {0}
      BY WeightFacts, FS_EmptySet, LogAssumption
    <2>2. logs.isTimerActive = logs.flushTimeout
      BY <1>2, <1>1 DEF LogState
    <2> QED
      BY <1>1, <2>1, <2>2 DEF Settled
  <1> QED
    BY <1>2, <1>3, <1>4 DEF LogsInv

(* The names of the places, counted *)
LEMMA PlacesCounted ==
    ASSUME NEW l \in Log, logs \in LogState
    PROVE  Cardinality({p \in {"buffer", "discarded", "overwritten"} : l \in logs[p]}) + logs.handed[l]
               = Places(logs, l)
  <1> DEFINE A == IF l \in logs.buffer THEN {"buffer"} ELSE {}
             B == IF l \in logs.discarded THEN {"discarded"} ELSE {}
             C == IF l \in logs.overwritten THEN {"overwritten"} ELSE {}
             P == {p \in {"buffer", "discarded", "overwritten"} : l \in logs[p]}
  <1>1. P = (A \cup B) \cup C
    OBVIOUS
  <1>2. /\ IsFiniteSet(A) /\ Cardinality(A) = IF l \in logs.buffer THEN 1 ELSE 0
        /\ IsFiniteSet(B) /\ Cardinality(B) = IF l \in logs.discarded THEN 1 ELSE 0
        /\ IsFiniteSet(C) /\ Cardinality(C) = IF l \in logs.overwritten THEN 1 ELSE 0
    <2>1. IsFiniteSet({}) /\ Cardinality({}) = 0
      BY FS_EmptySet
    <2>2. \A x : IsFiniteSet({x}) /\ Cardinality({x}) = 1
      BY FS_Singleton
    <2> QED
      BY <2>1, <2>2
  <1>3. A \cap B = {} /\ (A \cup B) \cap C = {}
    OBVIOUS
  <1> HIDE DEF A, B, C, P
  <1>4. IsFiniteSet(A \cup B) /\ Cardinality(A \cup B) = Cardinality(A) + Cardinality(B)
    <2>1. IsFiniteSet(A \cup B) /\ Cardinality(A \cap B) = 0
      BY <1>2, <1>3, FS_Union, FS_EmptySet
    <2>2. Cardinality(A \cup B) = Cardinality(A) + Cardinality(B) - Cardinality(A \cap B)
      BY <1>2, FS_Union
    <2> QED
      BY <1>2, <2>1, <2>2
  <1>5. Cardinality((A \cup B) \cup C) = Cardinality(A \cup B) + Cardinality(C)
    <2>1. Cardinality((A \cup B) \cap C) = 0
      BY <1>3, FS_EmptySet
    <2>2. Cardinality((A \cup B) \cup C) = Cardinality(A \cup B) + Cardinality(C) - Cardinality((A \cup B) \cap C)
      BY <1>2, <1>4, FS_Union
    <2> QED
      BY <1>2, <1>4, <2>1, <2>2
  <1>6. logs.handed[l] \in Nat
    BY DEF LogState
  <1> QED
    BY <1>1, <1>2, <1>4, <1>5, <1>6 DEF P, Places

LEMMA LogsInvMeans == LogsInv => LogsAreKept /\ LogBufferBounded
  <1> SUFFICES ASSUME LogsInv PROVE LogsAreKept /\ LogBufferBounded
    OBVIOUS
  <1>1. \A l \in Log : Cardinality({p \in {"buffer", "discarded", "overwritten"} : l \in logs[p]}) + logs.handed[l]
                           = IF l \in logs.captured THEN 1 ELSE 0
    BY PlacesCounted DEF LogsInv, Whole
  <1> QED
    BY <1>1 DEF LogsInv, Settled, LogsAreKept, LogBufferBounded

(* internal.ts:56: only a full buffer is replaced, and only what came since *)
(* is lost with it.                                                          *)
THEOREM OverwritesOnlyAFullBuffer == Spec => OverwrittenOnlyWhenFull
  <1>1. Init => LogsInv
    BY LogsInvInit DEF Init
  <1>2. LogsInv /\ [Next]_vars => LogsInv'
    BY LogsStep
  <1>3. LogsInv /\ [Next]_vars =>
            [ logs'.overwritten # logs.overwritten =>
                 /\ Cardinality(logs.buffer) = MaxLogBuffer
                 /\ logs.captured \cap logs'.overwritten = logs.overwritten ]_vars
    <2> SUFFICES ASSUME LogsInv, [Next]_vars, logs'.overwritten # logs.overwritten
                 PROVE  /\ Cardinality(logs.buffer) = MaxLogBuffer
                        /\ logs.captured \cap logs'.overwritten = logs.overwritten
      OBVIOUS
    <2>1. Advanced(logs, logs') /\ Sound(logs)
      BY LogsStep, WholeIsSound DEF LogsInv
    <2>2. Cardinality(logs.buffer) = MaxLogBuffer
      <3>1. IsFiniteSet(logs.buffer) /\ Cardinality(logs.buffer) \in Nat
        <4>1. logs.buffer \subseteq Log
          BY DEF LogsInv, LogState
        <4> QED
          BY <4>1, LogAssumption, FS_Subset, FS_CardinalityType
      <3> QED
        BY <2>1, <3>1, LogAssumption DEF LogsInv, Settled, Advanced
    <2>3. logs.overwritten \subseteq logs.captured
      <3>1. logs.overwritten \subseteq Log
        BY DEF LogsInv, LogState
      <3> QED
        BY <2>1, <3>1, SoundFacts
    <2> QED
      BY <2>1, <2>2, <2>3 DEF Advanced
  <1> QED
    BY <1>1, <1>2, <1>3, PTL DEF Spec, OverwrittenOnlyWhenFull

(* client.ts:119: the log buffer takes the steps of Batching and no others. *)
THEOREM LogsGoInBatches ==
    Spec => LogBatching!Init /\ [][LogBatching!Next]_(LogBatching!vars)
  <1>1. Init => LogsInv /\ LogBatching!Init
    <2>1. LogsInit => LogBatching!Init
      BY DEF LogsInit, LogBatching!Init
    <2> QED
      BY <2>1, LogsInvInit DEF Init
  <1>2. LogsInv /\ [Next]_vars => LogsInv'
    BY LogsStep
  <1>3. LogsInv /\ [Next]_vars => [LogBatching!Next]_(LogBatching!vars)
    <2> SUFFICES ASSUME LogsInv, [Next]_vars, logs' # logs PROVE LogBatching!Next
      BY DEF LogBatching!vars
    <2>1. Advanced(logs, logs') /\ Sound(logs) /\ Settled(logs) /\ LogsInv'
      BY LogsStep, WholeIsSound DEF LogsInv
    <2> DEFINE new == logs'.captured \ logs.captured
               out == (logs.buffer \cup new) \ logs'.buffer
    <2>2. /\ logs.buffer \subseteq logs.captured /\ logs.captured \subseteq Log
          /\ logs'.captured \subseteq Log /\ logs'.buffer \subseteq logs'.captured
          /\ logs.captured \subseteq logs'.captured
          /\ logs'.buffer \subseteq logs.buffer \cup new
          /\ out = {} \/ logs.buffer \subseteq out
      <3>1. Sound(logs')
        BY <2>1, WholeIsSound DEF LogsInv
      <3>2. logs.buffer \subseteq logs.captured /\ logs'.buffer \subseteq logs'.captured
        BY <2>1, <3>1, SoundFacts
      <3>3. logs.captured \subseteq Log /\ logs'.captured \subseteq Log
        BY <2>1, <3>1 DEF Sound, LogState
      <3> QED
        BY <2>1, <3>2, <3>3 DEF Advanced
    <2>3. new \in SUBSET (Log \ (logs.buffer \cup (logs.captured \ logs.buffer)))
          /\ out \in SUBSET (logs.buffer \cup new)
      BY <2>2
    <2>4. logs'.flushTimeout <=> FlushInterval > 0 /\ logs'.buffer # {}
      BY <2>1 DEF LogsInv, Settled
    <2>5. LogBatching!Step(new, out)
      <3>1. logs'.captured \ logs'.buffer = (logs.captured \ logs.buffer) \cup out
        BY <2>2
      <3>2. logs'.buffer = (logs.buffer \cup new) \ out
        BY <2>2
      <3>3. LogBatching!Of(logs.buffer, "logs") = logs.buffer /\ LogBatching!Of(out, "logs") = out
            /\ LogBatching!Of(logs'.buffer, "logs") = logs'.buffer
        BY <2>2 DEF LogBatching!Of
      <3>4. logs'.flushTimeout \in BOOLEAN
        BY <2>1 DEF LogsInv, LogState
      <3>5. logs'.flushTimeout = (FlushInterval > 0 /\ logs'.buffer # {})
        BY <2>4, <3>4
      <3> QED
        BY <2>2, <2>3, <3>1, <3>2, <3>3, <3>5 DEF LogBatching!Step
    <2> QED
      BY <2>3, <2>5 DEF LogBatching!Next
  <1> QED
    BY <1>1, <1>2, <1>3, PTL DEF Spec
-----------------------------------------------------------------------------
(* Request sessions, counted *)

(* The requests of a set under one entry *)
Under(e, requests) == {r \in requests : recorded[r] = e}

CountsInv ==
    /\ CountsType /\ CountsAreExact
    /\ reported \cup unreported \subseteq Closed
    /\ aggregateTimer <=> Pending # {}

(* What a step may do to the requests: one more ends and is pending, or all *)
(* that are pending go.                                                      *)
RequestsAdvance ==
    \/ \E r \in Request \ Closed :
          Pending' = Pending \cup {r} /\ reported' = reported /\ unreported' = unreported
    \/ Pending' = {} /\ reported' \cup unreported' = reported \cup unreported \cup Pending

LEMMA UnderFacts ==
    ASSUME NEW S \in SUBSET Request, NEW e
    PROVE  IsFiniteSet(Under(e, S)) /\ Cardinality(Under(e, S)) \in Nat
  <1>1. Under(e, S) \subseteq Request
    BY DEF Under
  <1> QED
    BY <1>1, RequestAssumption, FS_Subset, FS_CardinalityType

LEMMA CountsMean ==
    /\ CountsAreExact <=> \A e \in Entry : /\ aggregate[e] = Cardinality(Under(e, Pending))
                                           /\ countsSent[e] = Cardinality(Under(e, reported))
    /\ CountsAreExact' <=> \A e \in Entry : /\ aggregate'[e] = Cardinality(Under(e, Pending)')
                                            /\ countsSent'[e] = Cardinality(Under(e, reported)')
  BY DEF CountsAreExact, Under

LEMMA CloseResponseCounts ==
    ASSUME CountsInv, RequestsInv, NEW r \in Request, CloseResponse(r), CountsType'
    PROVE  CountsInv' /\ RequestsAdvance
  <1> DEFINE entry == <<minute, OutcomeOf(requestStatus[r])>>
  <1>1. /\ requestStatus[r] # "none" /\ r \notin Closed
        /\ recorded' = [recorded EXCEPT ![r] = entry]
        /\ aggregate' = [aggregate EXCEPT ![entry] = @ + 1]
        /\ aggregateTimer' = (aggregateTimer \/ aggregate = NoCounts)
        /\ reported' = reported /\ unreported' = unreported /\ countsSent' = countsSent
    BY DEF CloseResponse, history
  <1>2. entry \in Entry /\ recorded \in [Request -> Entry \cup {Unrecorded}]
    BY <1>1 DEF RequestsInv, RequestsFit, Entry, Outcome, Statuses, OutcomeOf
  <1>3. entry # Unrecorded
    BY <1>2, EntryFacts
  <1> HIDE DEF entry
  <1>4. recorded'[r] = entry /\ \A q \in Request \ {r} : recorded'[q] = recorded[q]
    BY <1>1, <1>2
  <1>5. Closed' = Closed \cup {r} /\ Closed \subseteq Request
    BY <1>3, <1>4 DEF Closed
  <1>6. r \notin reported \cup unreported /\ r \notin Pending
    BY <1>1 DEF CountsInv, Pending
  <1>7. Pending' = Pending \cup {r} /\ Pending \subseteq Request /\ reported \subseteq Request
    BY <1>1, <1>5, <1>6 DEF Pending, CountsInv, CountsType
  <1>8. \A e \in Entry : /\ aggregate'[e] = Cardinality(Under(e, Pending)')
                         /\ countsSent'[e] = Cardinality(Under(e, reported)')
    <2> TAKE e \in Entry
    <2>1. aggregate[e] = Cardinality(Under(e, Pending)) /\ countsSent[e] = Cardinality(Under(e, reported))
      BY CountsMean DEF CountsInv
    <2>2. Under(e, reported)' = Under(e, reported)
      BY <1>1, <1>4, <1>6, <1>7 DEF Under
    <2>3. aggregate'[e] = aggregate[e] + IF e = entry THEN 1 ELSE 0
      BY <1>1, <1>2 DEF CountsInv, CountsType
    <2>4. CASE e = entry
      <3>1. Under(e, Pending)' = Under(e, Pending) \cup {r} /\ r \notin Under(e, Pending)
        BY <1>4, <1>6, <1>7, <2>4 DEF Under
      <3>2. Cardinality(Under(e, Pending) \cup {r}) = Cardinality(Under(e, Pending)) + 1
        BY <1>7, <3>1, UnderFacts, FS_AddElement
      <3> QED
        BY <1>1, <2>1, <2>2, <2>3, <2>4, <3>1, <3>2
    <2>5. CASE e # entry
      <3>1. Under(e, Pending)' = Under(e, Pending)
        BY <1>4, <1>6, <1>7, <2>5 DEF Under
      <3>2. aggregate[e] \in Nat
        BY DEF CountsInv, CountsType
      <3> QED
        BY <1>1, <2>1, <2>2, <2>3, <2>5, <3>1, <3>2
    <2> QED
      BY <2>4, <2>5
  <1>9. CountsAreExact'
    BY <1>8, CountsMean
  <1>10. aggregateTimer'
    <2>1. CASE Pending = {}
      <3>1. \A e \in Entry : aggregate[e] = 0
        <4> TAKE e \in Entry
        <4>1. aggregate[e] = Cardinality(Under(e, Pending)) /\ Under(e, Pending) = {}
          BY <2>1, CountsMean DEF CountsInv, Under
        <4> QED
          BY <4>1, FS_EmptySet
      <3>2. aggregate = NoCounts
        BY <3>1 DEF CountsInv, CountsType, NoCounts
      <3> QED
        BY <1>1, <3>2
    <2>2. CASE Pending # {}
      BY <1>1, <2>2 DEF CountsInv
    <2> QED
      BY <2>1, <2>2
  <1>11. (reported \cup unreported \subseteq Closed)' /\ (aggregateTimer' <=> Pending' # {})
    BY <1>1, <1>5, <1>7, <1>10 DEF CountsInv
  <1>12. RequestsAdvance
    BY <1>1, <1>7 DEF RequestsAdvance
  <1> QED
    BY <1>9, <1>11, <1>12 DEF CountsInv

LEMMA FlushAggregateCounts ==
    ASSUME CountsInv, FlushAggregate, CountsType'
    PROVE  CountsInv' /\ RequestsAdvance
  <1>1. /\ aggregateTimer' = FALSE /\ aggregate' = NoCounts /\ recorded' = recorded
        /\ Closed' = Closed /\ Closed \subseteq Request
    BY DEF FlushAggregate, Closed
  <1>2. /\ reported' \cup unreported' = reported \cup unreported \cup Pending
        /\ HasRelease /\ enabled => /\ reported' = reported \cup Pending
                                    /\ countsSent' = [e \in Entry |-> countsSent[e] + aggregate[e]]
        /\ ~(HasRelease /\ enabled) => reported' = reported /\ countsSent' = countsSent
    BY DEF FlushAggregate, SendAggregate
  <1>3. Pending' = {}
    BY <1>1, <1>2 DEF Pending
  <1>4. /\ reported \subseteq Request /\ Pending \subseteq Request /\ reported \cap Pending = {}
        /\ reported \cup unreported \subseteq Closed
    BY <1>1 DEF Pending, CountsInv
  <1>5. \A e \in Entry : /\ aggregate'[e] = Cardinality(Under(e, Pending)')
                         /\ countsSent'[e] = Cardinality(Under(e, reported)')
    <2> TAKE e \in Entry
    <2>1. aggregate[e] = Cardinality(Under(e, Pending)) /\ countsSent[e] = Cardinality(Under(e, reported))
      BY CountsMean DEF CountsInv
    <2>2. aggregate'[e] = Cardinality(Under(e, Pending)')
      <3>1. Under(e, Pending)' = {}
        BY <1>3 DEF Under
      <3> QED
        BY <1>1, <3>1, FS_EmptySet DEF NoCounts
    <2>3. CASE HasRelease /\ enabled
      <3>1. Under(e, reported)' = Under(e, reported) \cup Under(e, Pending)
        BY <1>1, <1>2, <2>3 DEF Under
      <3>2. Under(e, reported) \cap Under(e, Pending) = {}
        BY <1>4 DEF Under
      <3>3. /\ IsFiniteSet(Under(e, reported)) /\ Cardinality(Under(e, reported)) \in Nat
            /\ IsFiniteSet(Under(e, Pending)) /\ Cardinality(Under(e, Pending)) \in Nat
        BY <1>4, UnderFacts
      <3>4. Cardinality(Under(e, reported) \cup Under(e, Pending))
                = Cardinality(Under(e, reported)) + Cardinality(Under(e, Pending))
        <4>1. Cardinality(Under(e, reported) \cap Under(e, Pending)) = 0
          BY <3>2, FS_EmptySet
        <4>2. Cardinality(Under(e, reported) \cup Under(e, Pending))
                  = Cardinality(Under(e, reported)) + Cardinality(Under(e, Pending))
                    - Cardinality(Under(e, reported) \cap Under(e, Pending))
          BY <3>3, FS_Union
        <4> QED
          BY <3>3, <4>1, <4>2
      <3> QED
        BY <1>2, <2>1, <2>2, <2>3, <3>1, <3>4
    <2>4. CASE ~(HasRelease /\ enabled)
      <3>1. Under(e, reported)' = Under(e, reported)
        BY <1>1, <1>2, <2>4 DEF Under
      <3> QED
        BY <1>2, <2>1, <2>2, <2>4, <3>1
    <2> QED
      BY <2>3, <2>4
  <1>6. CountsAreExact'
    BY <1>5, CountsMean
  <1>7. (reported \cup unreported \subseteq Closed)' /\ (aggregateTimer' <=> Pending' # {})
    <2>1. Pending \subseteq Closed
      BY DEF Pending
    <2> QED
      BY <1>1, <1>2, <1>3, <1>4, <2>1
  <1>8. RequestsAdvance
    BY <1>2, <1>3 DEF RequestsAdvance
  <1> QED
    BY <1>6, <1>7, <1>8 DEF CountsInv

LEMMA CountsStep ==
    ASSUME CountsInv, RequestsInv, [Next]_vars
    PROVE  /\ CountsInv'
           /\ RequestsAdvance \/ UNCHANGED <<Pending, reported, unreported, aggregateTimer>>
  <1>0. CountsType'
    BY CountsTypeStep DEF CountsInv
  <1>1. ASSUME UNCHANGED <<recorded, aggregate, aggregateTimer, history>>
        PROVE  CountsInv' /\ UNCHANGED <<Pending, reported, unreported, aggregateTimer>>
    BY <1>0, <1>1 DEF CountsInv, CountsAreExact, Closed, Pending, history
  <1>2. CASE RequestStep
    <2>1. CASE AggregateTimerFires
      BY <1>0, <2>1, FlushAggregateCounts DEF AggregateTimerFires
    <2>2. ASSUME NEW r \in Request, CloseResponse(r) PROVE CountsInv' /\ RequestsAdvance
      BY <1>0, <2>2, CloseResponseCounts
    <2>3. CASE \/ Tick
               \/ \E r \in Request : \/ StartRequest(r)
                                     \/ \E kind \in {"handled", "unhandled"} : CaptureException(r, kind)
      <3>1. UNCHANGED <<recorded, aggregate, aggregateTimer, history>>
        BY <2>3 DEF Tick, StartRequest, CaptureException
      <3> QED
        BY <1>1, <3>1
    <2> QED
      BY <1>2, <2>1, <2>2, <2>3 DEF RequestStep
  <1>3. CASE Flush \/ CallClose
    <2>1. RequestsOnFlush
      BY <1>3 DEF Flush, CallClose, FlushHandlers
    <2>2. CASE aggregateTimer
      BY <1>0, <2>1, <2>2, FlushAggregateCounts DEF RequestsOnFlush
    <2>3. CASE ~aggregateTimer
      <3>1. UNCHANGED <<recorded, aggregate, aggregateTimer, history>>
        BY <2>1, <2>3 DEF RequestsOnFlush, requestVars
      <3> QED
        BY <1>1, <3>1
    <2> QED
      BY <2>2, <2>3
  <1>4. CASE LogStep \/ SpanStep \/ SessionStep \/ Close \/ UNCHANGED vars
    <2>1. UNCHANGED <<recorded, aggregate, aggregateTimer, history>>
      BY <1>4 DEF LogStep, SpanStep, SessionStep, Close, vars, requestVars
    <2> QED
      BY <1>1, <2>1
  <1> QED
    BY <1>2, <1>3, <1>4 DEF Next

LEMMA CountsInvInit == RequestsInit => CountsInv
  <1> SUFFICES ASSUME RequestsInit PROVE CountsInv
    OBVIOUS
  <1>1. Closed = {} /\ Pending = {}
    BY DEF RequestsInit, Closed, Pending
  <1>2. NoCounts \in [Entry -> Nat]
    BY DEF NoCounts
  <1>3. CountsType
    BY <1>2 DEF RequestsInit, CountsType
  <1>4. \A e \in Entry : Under(e, Pending) = {} /\ Under(e, reported) = {}
    BY <1>1 DEF RequestsInit, Under
  <1>5. CountsAreExact
    <2>1. \A e \in Entry : aggregate[e] = 0 /\ countsSent[e] = 0
      BY DEF RequestsInit, NoCounts
    <2> QED
      BY <1>4, <2>1, CountsMean, FS_EmptySet
  <1> QED
    BY <1>1, <1>3, <1>5 DEF RequestsInit, CountsInv

(* record-request-session.ts: request sessions take the steps of Batching *)
(* and no others.                                                          *)
THEOREM RequestsGoInBatches ==
    Spec => RequestBatching!Init /\ [][RequestBatching!Next]_(RequestBatching!vars)
  <1>1. Init => CountsInv /\ RequestsInv /\ RequestBatching!Init
    <2> SUFFICES ASSUME RequestsInit PROVE RequestBatching!Init
      BY CountsInvInit, RequestsInvInit DEF Init
    <2>1. Pending = {} /\ reported \cup unreported = {} /\ aggregateTimer = FALSE
      BY DEF RequestsInit, Pending, Closed
    <2> QED
      BY <2>1 DEF RequestBatching!Init
  <1>2. CountsInv /\ RequestsInv /\ [Next]_vars => CountsInv' /\ RequestsInv'
    BY CountsStep, RequestsStep
  <1>3. CountsInv /\ RequestsInv /\ [Next]_vars => [RequestBatching!Next]_(RequestBatching!vars)
    <2> SUFFICES ASSUME CountsInv, RequestsInv, [Next]_vars,
                        ~UNCHANGED <<Pending, reported, unreported, aggregateTimer>>
                 PROVE  RequestBatching!Next
      BY DEF RequestBatching!vars
    <2>1. RequestsAdvance /\ CountsInv'
      BY CountsStep
    <2> DEFINE gone == reported \cup unreported
    <2>2. /\ Pending \cup gone = Closed /\ Closed \subseteq Request /\ Pending \cap gone = {}
          /\ Pending' \subseteq Request
      BY DEF CountsInv, Pending, Closed
    <2>3. aggregateTimer' \in BOOLEAN /\ (aggregateTimer' <=> Pending' # {})
      BY <2>1 DEF CountsInv, CountsType
    <2>4. \A S : RequestBatching!Of(S, "requests") = {r \in S : [q \in Request |-> "requests"][r] = "requests"}
      BY DEF RequestBatching!Of
    <2>5. \A S \in SUBSET Request : RequestBatching!Of(S, "requests") = S
      BY <2>4
    <2>6. [k \in {"requests"} |-> aggregateTimer']
              = [k \in {"requests"} |-> TRUE /\ RequestBatching!Of(Pending', k) # {}]
      <3>1. aggregateTimer' = (TRUE /\ RequestBatching!Of(Pending', "requests") # {})
        BY <2>2, <2>3, <2>5
      <3> QED
        BY <3>1
    <2>7. CASE \E r \in Request \ Closed :
                 Pending' = Pending \cup {r} /\ reported' = reported /\ unreported' = unreported
      <3>1. PICK r \in Request \ Closed :
                 Pending' = Pending \cup {r} /\ reported' = reported /\ unreported' = unreported
        BY <2>7
      <3>2. {r} \in SUBSET (Request \ (Pending \cup gone)) /\ {} \in SUBSET (Pending \cup {r})
        BY <2>2, <3>1
      <3>3. RequestBatching!Of({}, "requests") = {}
        BY <2>5
      <3>4. RequestBatching!Step({r}, {})
        BY <2>6, <3>1, <3>2, <3>3 DEF RequestBatching!Step
      <3> QED
        BY <3>2, <3>4 DEF RequestBatching!Next
    <2>8. CASE Pending' = {} /\ reported' \cup unreported' = reported \cup unreported \cup Pending
      <3>1. {} \in SUBSET (Request \ (Pending \cup gone)) /\ Pending \in SUBSET (Pending \cup {})
        OBVIOUS
      <3>2. RequestBatching!Of(Pending, "requests") = Pending
        BY <2>2, <2>5
      <3>3. RequestBatching!Step({}, Pending)
        BY <2>6, <2>8, <3>1, <3>2 DEF RequestBatching!Step
      <3> QED
        BY <3>1, <3>3 DEF RequestBatching!Next
    <2> QED
      BY <2>1, <2>7, <2>8 DEF RequestsAdvance
  <1> QED
    BY <1>1, <1>2, <1>3, PTL DEF Spec

(* Whatever is captured, ended or closed is in one place; a log or a       *)
(* request is sent once, a span at most twice.                             *)
THEOREM EveryItemIsFiled == Spec => []EveryItemHasOnePlace
  <1>1. Init => LogsInv /\ SpansInv /\ CountsInv /\ RequestsInv
    BY LogsInvInit, SpansInvInit, CountsInvInit, RequestsInvInit DEF Init
  <1>2. LogsInv /\ SpansInv /\ CountsInv => EveryItemHasOnePlace
    BY LogsInvMeans, SpansInvMeans DEF CountsInv, EveryItemHasOnePlace
  <1> QED
    BY <1>1, <1>2, LogsStep, SpansStep, CountsStep, RequestsStep, PTL DEF Spec

(* The log buffer stays below its weight and within its number, a bucket   *)
(* of spans below both its limits, and no timer is left of a bucket that   *)
(* is gone.                                                                *)
THEOREM NoBufferOverflows == Spec => []LimitsHold
  <1>1. Init => LogsInv /\ SpansInv
    BY LogsInvInit, SpansInvInit DEF Init
  <1>2. LogsInv /\ SpansInv => LimitsHold
    BY LogsInvMeans, SpansInvMeans DEF LimitsHold
  <1> QED
    BY <1>1, <1>2, LogsStep, SpansStep, PTL DEF Spec
-----------------------------------------------------------------------------
(* Browser sessions: what the server sees of one *)

(* A session t that follows s in one history *)
Continues(s, t) ==
    /\ s.status # "ok" => t.status = s.status
    /\ s.errors <= t.errors
    /\ s.did \in {NoUser, t.did}

(* What the server has of a session is an earlier state of it, and it was   *)
(* "init" until the first update went out.                                   *)
HistoryInv ==
    \A i \in SessionIndex :
        /\ i > current => wire[i] = NoSession
        /\ wire[i] # NoSession => ~sessions[i].init /\ Continues(wire[i], sessions[i])
        /\ i <= current /\ Reporting /\ wire[i] = NoSession => sessions[i].init

(* What the step sends of session i is the next of its history. *)
NextOfHistory(i) ==
    wire'[i] # wire[i] =>
        /\ wire'[i].init <=> wire[i] = NoSession
        /\ wire[i] # NoSession => Continues(wire[i], wire'[i])

LEMMA ContinuesOn ==
    /\ \A s \in Session : Continues(s, s)
    /\ \A r, s, t \in Session : Continues(r, s) /\ Continues(s, t) => Continues(r, t)
    /\ \A s, t \in Session : Continues(s, t) => Continues(s, AfterCapture(t))
  <1>1. \A s \in Session : s.errors \in Nat
    BY DEF Session
  <1>2. \A s \in Session : /\ AfterCapture(s).status = s.status
                           /\ AfterCapture(s).errors = s.errors /\ AfterCapture(s).did = s.did
    BY SentIsKnown
  <1> QED
    BY <1>1, <1>2 DEF Continues

(* One session is sent as s; the others stay. *)
LEMMA SentContinues ==
    ASSUME SessionsInv, HistoryInv, NEW i \in 1..current, NEW s \in Session, s.init = sessions[i].init,
           Continues(sessions[i], s), Reporting' => Reporting,
           wire'[i] = (IF Reporting THEN s ELSE wire[i]), sessions'[i] = AfterCapture(s)
    PROVE  /\ NextOfHistory(i)
           /\ wire'[i] # NoSession => ~sessions'[i].init /\ Continues(wire'[i], sessions'[i])
           /\ Reporting' /\ wire'[i] = NoSession => sessions'[i].init
  <1>1. /\ i \in SessionIndex /\ i <= current /\ sessions[i] \in Session /\ s # NoSession
        /\ wire[i] \in Session \cup {NoSession}
    <2>1. i \in SessionIndex /\ i <= current
      BY Indexes DEF SessionsInv
    <2>2. sessions[i] \in Session /\ wire[i] \in Session \cup {NoSession}
      BY <2>1 DEF SessionsInv, SessionsExist, SessionsTypeOK
    <2>3. s # NoSession
      BY SentIsKnown
    <2> QED
      BY <2>1, <2>2, <2>3
  <1>2. /\ wire[i] # NoSession => ~sessions[i].init /\ Continues(wire[i], sessions[i])
        /\ Reporting /\ wire[i] = NoSession => sessions[i].init
    BY <1>1 DEF HistoryInv
  <1>3. wire[i] # NoSession => Continues(wire[i], s)
    BY <1>1, <1>2, ContinuesOn
  <1>4. AfterCapture(s).init = FALSE /\ AfterCapture(s) \in Session
    BY DEF AfterCapture, Session
  <1>5. NextOfHistory(i)
    BY <1>1, <1>2, <1>3 DEF NextOfHistory
  <1>6. wire'[i] # NoSession => ~sessions'[i].init /\ Continues(wire'[i], sessions'[i])
    <2>1. CASE Reporting
      BY <1>4, <2>1, ContinuesOn
    <2>2. CASE ~Reporting
      <3>1. wire'[i] # NoSession => Continues(wire[i], AfterCapture(s))
        BY <1>1, <1>3, <2>2, ContinuesOn
      <3> QED
        BY <1>4, <2>2, <3>1
    <2> QED
      BY <2>1, <2>2
  <1>7. Reporting' => wire'[i] # NoSession
    BY <1>1
  <1> QED
    BY <1>5, <1>6, <1>7

(* A step that changes only the current session *)
LEMMA OnlyCurrentContinues ==
    ASSUME SessionsInv, HistoryInv, current' = current, Reporting' => Reporting,
           \A i \in SessionIndex \ {current} : sessions'[i] = sessions[i] /\ wire'[i] = wire[i],
           NextOfHistory(current),
           wire'[current] # NoSession => ~sessions'[current].init /\ Continues(wire'[current], sessions'[current]),
           Reporting' /\ wire'[current] = NoSession => sessions'[current].init
    PROVE  HistoryInv' /\ \A i \in SessionIndex : NextOfHistory(i)
  <1>1. current \in Nat /\ SessionIndex \subseteq Nat
    BY Indexes DEF SessionsInv, SessionIndex
  <1>2. HistoryInv'
    BY <1>1 DEF HistoryInv
  <1>3. \A i \in SessionIndex : NextOfHistory(i)
    BY DEF NextOfHistory
  <1> QED
    BY <1>2, <1>3

LEMMA CaptureContinues ==
    ASSUME SessionsInv, HistoryInv, NEW s \in Session, s.init = sessions[current].init,
           Continues(sessions[current], s), CaptureSession(current, s), current' = current, enabled' = enabled
    PROVE  HistoryInv' /\ \A i \in SessionIndex : NextOfHistory(i)
  <1>1. current \in 1..current /\ current \in SessionIndex /\ (Reporting' <=> Reporting)
    BY Indexes DEF SessionsInv, Reporting
  <1>2. wire'[current] = IF Reporting THEN s ELSE wire[current]
    BY <1>1 DEF CaptureSession, Transmitted, Reporting, SessionsInv, SessionsExist, SessionsTypeOK
  <1>3. /\ \A i \in SessionIndex \ {current} : sessions'[i] = sessions[i] /\ wire'[i] = wire[i]
        /\ sessions'[current] = AfterCapture(s)
    BY CaptureFacts
  <1>4. /\ NextOfHistory(current)
        /\ wire'[current] # NoSession => ~sessions'[current].init /\ Continues(wire'[current], sessions'[current])
        /\ Reporting' /\ wire'[current] = NoSession => sessions'[current].init
    BY <1>1, <1>2, <1>3, SentContinues
  <1> QED
    BY <1>1, <1>3, <1>4, OnlyCurrentContinues

(* The current session changes and nothing is sent. *)
LEMMA QuietContinues ==
    ASSUME SessionsInv, HistoryInv, wire' = wire, current' = current, Reporting' => Reporting,
           \A i \in SessionIndex \ {current} : sessions'[i] = sessions[i],
           sessions'[current] \in Session, sessions'[current].init = sessions[current].init,
           Continues(sessions[current], sessions'[current])
    PROVE  HistoryInv' /\ \A i \in SessionIndex : NextOfHistory(i)
  <1>1. /\ current \in SessionIndex /\ current \in Nat /\ sessions[current] \in Session
        /\ wire[current] \in Session \cup {NoSession}
    BY Indexes DEF SessionsInv, SessionsExist, SessionsTypeOK
  <1>2. NextOfHistory(current)
    BY DEF NextOfHistory
  <1>3. wire'[current] # NoSession => ~sessions'[current].init /\ Continues(wire'[current], sessions'[current])
    <2>1. wire[current] # NoSession => ~sessions[current].init /\ Continues(wire[current], sessions[current])
      BY <1>1 DEF HistoryInv
    <2> QED
      BY <1>1, <2>1, ContinuesOn
  <1>4. Reporting' /\ wire'[current] = NoSession => sessions'[current].init
    BY <1>1 DEF HistoryInv
  <1> QED
    BY <1>2, <1>3, <1>4, OnlyCurrentContinues

LEMMA IdleContinues ==
    ASSUME SessionsInv, HistoryInv, Idle, enabled' = enabled
    PROVE  HistoryInv' /\ \A i \in SessionIndex : NextOfHistory(i)
  <1>1. current' = current /\ sessions[current] \in Session /\ Continues(sessions[current], sessions[current])
    BY Indexes, ContinuesOn DEF Idle, SessionsInv
  <1>2. CASE initialSessionSent
    BY <1>1, <1>2, QuietContinues DEF Idle, Reporting
  <1>3. CASE ~initialSessionSent
    <2>1. CaptureSession(current, sessions[current])
      BY <1>3 DEF Idle
    <2> QED
      BY <1>1, <2>1, CaptureContinues
  <1> QED
    BY <1>2, <1>3

LEMMA SetUserContinues ==
    ASSUME SessionsInv, HistoryInv, NEW u \in User \cup {NoUser}, SetUser(u), enabled' = enabled
    PROVE  HistoryInv' /\ \A i \in SessionIndex : NextOfHistory(i)
  <1> DEFINE s == sessions[current]
             updated == WithUser(s, u)
  <1>1. current' = current /\ s \in Session /\ current \in SessionIndex
    BY Indexes DEF SetUser, SessionsInv
  <1>2. updated \in Session /\ updated.init = s.init /\ Continues(s, updated)
    <2>1. /\ updated \in Session /\ updated.init = s.init /\ updated.status = s.status
          /\ updated.errors = s.errors /\ (s.did # NoUser => updated.did = s.did)
          /\ s.errors \in Nat
      BY <1>1 DEF WithUser, Session
    <2> HIDE DEF s, updated
    <2> QED
      BY <2>1 DEF Continues
  <1> HIDE DEF updated
  <1>3. \/ CaptureSession(current, updated)
        \/ sessions' = [sessions EXCEPT ![current] = updated] /\ wire' = wire
    BY DEF SetUser, updated
  <1>4. CASE CaptureSession(current, updated)
    BY <1>1, <1>2, <1>4, CaptureContinues
  <1>5. CASE sessions' = [sessions EXCEPT ![current] = updated] /\ wire' = wire
    <2>1. sessions'[current] = updated /\ \A i \in SessionIndex \ {current} : sessions'[i] = sessions[i]
      BY <1>1, <1>5 DEF SessionsInv, SessionsExist, SessionsTypeOK
    <2> QED
      BY <1>1, <1>2, <1>5, <2>1, QuietContinues DEF Reporting
  <1> QED
    BY <1>3, <1>4, <1>5

LEMMA ProcessEventContinues ==
    ASSUME SessionsInv, HistoryInv, NEW kind \in {"message", "error", "crash"}, ProcessEvent(kind),
           enabled' = enabled
    PROVE  HistoryInv' /\ \A i \in SessionIndex : NextOfHistory(i)
  <1> DEFINE s == sessions[current]
             next == [s EXCEPT !.errors = IF @ = 1 \/ kind # "message" THEN 1 ELSE 0,
                               !.status = IF kind = "crash" THEN "crashed" ELSE @]
  <1>1. current' = current /\ s \in Session /\ Continues(s, s)
    BY Indexes, ContinuesOn DEF ProcessEvent, SessionsInv
  <1>2. CASE ShouldUpdate(s, kind)
    <2>1. CaptureSession(current, next)
      BY <1>2 DEF ProcessEvent
    <2>2. /\ next \in Session /\ next.did = s.did /\ next.init = s.init /\ s.errors \in {0, 1}
          /\ next.errors = (IF s.errors = 1 \/ kind # "message" THEN 1 ELSE 0)
      BY <1>1 DEF Session
    <2>3. s.status = "ok"
      BY <1>2 DEF ShouldUpdate
    <2> HIDE DEF s, next
    <2>4. Continues(s, next)
      BY <2>2, <2>3 DEF Continues
    <2> QED
      BY <1>1, <2>1, <2>2, <2>4, CaptureContinues DEF s
  <1>3. CASE ~ShouldUpdate(s, kind)
    <2>1. UNCHANGED <<sessions, wire>>
      BY <1>3 DEF ProcessEvent
    <2> QED
      BY <1>1, <2>1, QuietContinues DEF Reporting
  <1> QED
    BY <1>2, <1>3

(* The old session is sent a last time, the new one a first time. *)
LEMMA NavigateContinues ==
    ASSUME SessionsInv, HistoryInv, Navigate, enabled' = enabled
    PROVE  HistoryInv' /\ \A i \in SessionIndex : NextOfHistory(i)
  <1> DEFINE s == sessions[current]
             old == ClosedSession(s)
             next == NewSession(user)
  <1>1. /\ current \in Nat /\ current \in SessionIndex /\ current \in 1..current
        /\ current + 1 \in SessionIndex /\ current' = current + 1
        /\ SessionIndex \subseteq Nat /\ s \in Session /\ (Reporting' <=> Reporting)
    BY Indexes, SessionAssumption DEF Navigate, SessionsInv, SessionIndex, Reporting
  <1>2. old \in Session /\ old.init = s.init /\ Continues(s, old)
    <2>1. /\ old \in Session /\ old.init = s.init /\ old.errors = s.errors /\ old.did = s.did
          /\ (s.status # "ok" => old.status = s.status) /\ s.errors \in Nat
      BY <1>1 DEF ClosedSession, Session
    <2> HIDE DEF s, old
    <2> QED
      BY <2>1 DEF Continues
  <1>3. next \in Session /\ next.init = TRUE /\ next # NoSession /\ AfterCapture(next) \in Session
        /\ AfterCapture(next).init = FALSE /\ Continues(next, AfterCapture(next))
    <2>1. next \in Session /\ next.init = TRUE
      BY DEF NewSession, Session, SessionsInv, SessionsExist, SessionsTypeOK
    <2> HIDE DEF next
    <2>2. AfterCapture(next).init = FALSE /\ AfterCapture(next) \in Session
      BY <2>1 DEF AfterCapture, Session
    <2> QED
      BY <2>1, <2>2, SentIsKnown, ContinuesOn
  <1>4. /\ sessions' = [sessions EXCEPT ![current] = AfterCapture(old), ![current + 1] = AfterCapture(next)]
        /\ wire' = Transmitted(Transmitted(wire, current, old), current + 1, next)
    BY DEF Navigate
  <1> HIDE DEF s, old, next
  <1>5. /\ sessions \in [SessionIndex -> Session \cup {NoSession}]
        /\ wire \in [SessionIndex -> Session \cup {NoSession}]
    BY DEF SessionsInv, SessionsExist, SessionsTypeOK
  <1>6. /\ sessions'[current] = AfterCapture(old) /\ sessions'[current + 1] = AfterCapture(next)
        /\ \A i \in SessionIndex \ {current, current + 1} : sessions'[i] = sessions[i]
    BY <1>1, <1>4, <1>5
  <1>7. /\ wire'[current] = (IF Reporting THEN old ELSE wire[current])
        /\ wire'[current + 1] = (IF Reporting THEN next ELSE wire[current + 1])
        /\ \A i \in SessionIndex \ {current, current + 1} : wire'[i] = wire[i]
    BY <1>1, <1>4, <1>5 DEF Transmitted, Reporting
  <1>8. /\ NextOfHistory(current)
        /\ wire'[current] # NoSession => ~sessions'[current].init /\ Continues(wire'[current], sessions'[current])
        /\ Reporting' /\ wire'[current] = NoSession => sessions'[current].init
    BY <1>1, <1>2, <1>6, <1>7, SentContinues DEF s
  <1>9. wire[current + 1] = NoSession
    BY <1>1 DEF HistoryInv
  <1>10. NextOfHistory(current + 1)
    BY <1>3, <1>7, <1>9 DEF NextOfHistory
  <1>11. \A i \in SessionIndex : NextOfHistory(i)
    BY <1>7, <1>8, <1>10 DEF NextOfHistory
  <1>12. HistoryInv'
    <2> SUFFICES ASSUME NEW i \in SessionIndex
                 PROVE  /\ i > current' => wire'[i] = NoSession
                        /\ wire'[i] # NoSession => ~sessions'[i].init /\ Continues(wire'[i], sessions'[i])
                        /\ i <= current' /\ Reporting' /\ wire'[i] = NoSession => sessions'[i].init
      BY DEF HistoryInv
    <2>1. CASE i = current
      BY <1>1, <1>8, <2>1
    <2>2. CASE i = current + 1
      BY <1>1, <1>3, <1>6, <1>7, <1>9, <2>2
    <2>3. CASE i # current /\ i # current + 1
      <3>1. i <= current + 1 => i <= current
        BY <1>1, <2>3
      <3>2. i > current + 1 => i > current
        BY <1>1
      <3> QED
        BY <1>1, <1>6, <1>7, <2>3, <3>1, <3>2 DEF HistoryInv
    <2> QED
      BY <2>1, <2>2, <2>3
  <1> QED
    BY <1>11, <1>12

LEMMA HistoryStep ==
    ASSUME SessionsInv, HistoryInv, [Next]_vars
    PROVE  HistoryInv' /\ \A i \in SessionIndex : NextOfHistory(i)
  <1>1. CASE SessionStep
    <2>1. enabled' = enabled
      BY <1>1 DEF SessionStep, Same, hookVars
    <2> QED
      BY <1>1, <2>1, IdleContinues, NavigateContinues, SetUserContinues, ProcessEventContinues DEF SessionStep
  <1>2. CASE LogStep \/ SpanStep \/ RequestStep \/ Flush \/ CallClose \/ Close \/ UNCHANGED vars
    <2>1. /\ UNCHANGED <<sessions, wire, current>> /\ (Reporting' => Reporting)
      BY <1>2, EnabledFalls
         DEF LogStep, SpanStep, RequestStep, Flush, CallClose, Close, vars, sessionVars, Reporting
    <2> QED
      BY <2>1 DEF HistoryInv, NextOfHistory
  <1> QED
    BY <1>1, <1>2 DEF Next

LEMMA HistoryInvInit == SessionsInit => HistoryInv
  <1> SUFFICES ASSUME SessionsInit PROVE HistoryInv
    OBVIOUS
  <1>1. current = 1 /\ SessionIndex \subseteq Nat \ {0} /\ sessions[1].init
    BY SessionAssumption DEF SessionsInit, NewSession, SessionIndex
  <1>2. \A i \in SessionIndex : wire[i] = NoSession /\ (i <= 1 => i = 1)
    BY <1>1 DEF SessionsInit
  <1> QED
    BY <1>1, <1>2 DEF HistoryInv

(* session.ts:49, client.ts:379: what the server sees of a session is a    *)
(* history it can count.                                                   *)
THEOREM HistoriesAreLegal == Spec => SessionHistoryIsLegal
  <1>1. Init => SessionsInv /\ HistoryInv
    BY SessionsInvInit, HistoryInvInit DEF Init
  <1>2. SessionsInv /\ HistoryInv /\ [Next]_vars => SessionsInv' /\ HistoryInv'
    BY SessionsInvStep, HistoryStep
  <1>3. SessionsInv /\ HistoryInv /\ [Next]_vars =>
            [ \A i \in SessionIndex :
                LET old == wire[i]
                    new == wire'[i]
                IN new # old =>
                     /\ new.init <=> old = NoSession
                     /\ old # NoSession =>
                          /\ old.status # "ok" => new.status = old.status
                          /\ old.errors <= new.errors
                          /\ old.did \in {NoUser, new.did} ]_vars
    BY HistoryStep DEF NextOfHistory, Continues
  <1> QED
    BY <1>1, <1>2, <1>3, PTL DEF Spec, SessionHistoryIsLegal
=============================================================================
