-------------------------- MODULE BrowserSessions --------------------------
(***************************************************************************)
(* The browser's sessions: browserSessionIntegration starts one on load    *)
(* and one per navigation, core/src/exports.ts ends and sends them,        *)
(* client.ts updates the current one from each event when its pipeline     *)
(* gets there, scope.ts when the user is set.  A user is known by an id or *)
(* only by a name or an address; both serve as the session's `did`.        *)
(***************************************************************************)
EXTENDS ClientHooks, Naturals

CONSTANTS
    User,         \* those who may be logged in
    Identified,   \* the users that have an id
    NoUser,
    MaxSessions   \* bound: one page load and MaxSessions - 1 navigations

ASSUME SessionAssumption ==
    /\ Identified \subseteq User /\ NoUser \notin User
    /\ MaxSessions \in Nat \ {0}

SessionIndex == 1 .. MaxSessions
Session == [init: BOOLEAN, status: {"ok", "exited", "crashed"}, errors: {0, 1}, did: User \cup {NoUser}]
NoSession == [init |-> FALSE, status |-> "none", errors |-> 0, did |-> NoUser]

VARIABLES
    sessions,            \* every session so far
    current,             \* the index of the one on the isolation scope
    user,                \* _user of the isolation scope; the listener's previousUser has the same id
    initialSessionSent,
    idlePending,         \* the callback given to whenIdleOrHidden has not run
    wire,                \* history: the last update of each session handed to the transport
    processed            \* history: errors and crashes processed while a session was current

sessionVars == <<sessions, current, user, initialSessionSent, idlePending, wire, processed>>

SessionsTypeOK ==
    /\ sessions \in [SessionIndex -> Session \cup {NoSession}]
    /\ current \in SessionIndex
    /\ user \in User \cup {NoUser}
    /\ initialSessionSent \in BOOLEAN /\ idlePending \in BOOLEAN
    /\ wire \in [SessionIndex -> Session \cup {NoSession}]
    /\ processed \in [SessionIndex -> SUBSET {"error", "crash"}]

(* makeSession({ user }) *)
NewSession(u) == [init |-> TRUE, status |-> "ok", errors |-> 0, did |-> u]

(* setupOnce, in a page where nobody is logged in yet *)
SessionsInit ==
    /\ sessions = [i \in SessionIndex |-> IF i = 1 THEN NewSession(NoUser) ELSE NoSession]
    /\ current = 1
    /\ user = NoUser
    /\ initialSessionSent = FALSE
    /\ idlePending = TRUE
    /\ wire = [i \in SessionIndex |-> NoSession]
    /\ processed = [i \in SessionIndex |-> {}]

-----------------------------------------------------------------------------

(* sendSession: nothing goes out without a release or from a disabled client *)
Transmitted(w, i, s) == IF HasRelease /\ enabled THEN [w EXCEPT ![i] = s] ELSE w

\* mutant: the session stays "init" after it was sent
AfterCaptureStaysInit(s) == s

(* client.captureSession: what is left of the session that was sent *)
AfterCapture(s) == [s EXCEPT !.init = FALSE]

CaptureSession(i, s) ==
    /\ wire' = Transmitted(wire, i, s)
    /\ sessions' = [sessions EXCEPT ![i] = AfterCapture(s)]

(* the browser is idle or the page is hidden *)
Idle ==
    /\ idlePending
    /\ idlePending' = FALSE
    /\ initialSessionSent' = TRUE
    /\ IF initialSessionSent THEN UNCHANGED <<sessions, wire>>
       ELSE CaptureSession(current, sessions[current])
    /\ UNCHANGED <<current, user, processed>>

(* updateSession: the first user of a session stays its `did` *)
WithUser(s, u) == IF s.did = NoUser THEN [s EXCEPT !.did = u] ELSE s

IdOf(u) == IF u \in Identified THEN u ELSE NoUser

\* mutant: a user set after the first update is not sent
SetUserUnsent(u) ==
    /\ user' = u
    /\ sessions' = [sessions EXCEPT ![current] = WithUser(@, u)]
    /\ UNCHANGED <<wire, current, initialSessionSent, idlePending, processed>>

(* scope.setUser, and the scope listener: only another id makes an update *)
SetUser(u) ==
    LET updated == WithUser(sessions[current], u)
        changed == IdOf(user) # IdOf(u)
    IN /\ user' = u
       /\ IF changed /\ initialSessionSent THEN CaptureSession(current, updated)
          ELSE sessions' = [sessions EXCEPT ![current] = updated] /\ UNCHANGED wire
       /\ UNCHANGED <<current, initialSessionSent, idlePending, processed>>

(* closeSession: "exited", unless it crashed *)
ClosedSession(s) == IF s.status = "ok" THEN [s EXCEPT !.status = "exited"] ELSE s

(* the history handler: startSession ends and sends the old session, the new one is captured *)
Navigate ==
    LET old == ClosedSession(sessions[current])
        next == NewSession(user)
    IN /\ current < MaxSessions
       /\ current' = current + 1
       /\ initialSessionSent' = TRUE
       /\ wire' = Transmitted(Transmitted(wire, current, old), current + 1, next)
       /\ sessions' = [sessions EXCEPT ![current] = AfterCapture(old), ![current + 1] = AfterCapture(next)]
       /\ UNCHANGED <<user, idlePending, processed>>

(* _updateSessionFromEvent: a first event, or a crash *)
ShouldUpdate(s, kind) == s.status = "ok" /\ (s.errors = 0 \/ kind = "crash")

(* the pipeline of an event, captured any time before, reads the session that is current now *)
ProcessEvent(kind) ==
    LET s == sessions[current]
    IN /\ processed' = [processed EXCEPT ![current] = @ \cup ({kind} \ {"message"})]
       /\ IF ShouldUpdate(s, kind)
          THEN CaptureSession(current, [s EXCEPT !.errors = IF @ = 1 \/ kind # "message" THEN 1 ELSE 0,
                                                 !.status = IF kind = "crash" THEN "crashed" ELSE @])
          ELSE UNCHANGED <<sessions, wire>>
       /\ UNCHANGED <<current, user, initialSessionSent, idlePending>>
=============================================================================
