---------------------------- MODULE SegmentStream ----------------------------
(***************************************************************************)
(* What a replay is for the server: its events come in segments, numbered  *)
(* from 0 without gaps or repetitions.  An event is in one segment at most *)
(* and in one of the replay it was recorded for, and later segments have   *)
(* later events.                                                           *)
(***************************************************************************)
EXTENDS Naturals, FiniteSets

CONSTANTS
    Event,       \* naturals, in the order the events are recorded
    ReplayId, NoReplay

VARIABLES
    recordedIn,  \* the replay an event was recorded for
    cut          \* the segments made so far

vars == <<recordedIn, cut>>

SegmentsOf(id) == {c \in cut : c.replay = id}
Sent(id) == UNION {c.events : c \in SegmentsOf(id)}

(* Events still to be sent: some may be dropped, none can be overtaken *)
Unsent(id) == {e \in Event : recordedIn[e] = id /\ \A d \in Sent(id) : d < e}

Init ==
    /\ recordedIn = [e \in Event |-> NoReplay]
    /\ cut = {}

Record(e, id) ==
    /\ \A d \in Event : d >= e => recordedIn[d] = NoReplay
    /\ recordedIn' = [recordedIn EXCEPT ![e] = id]
    /\ UNCHANGED cut

Cut(id) ==
    /\ \E events \in SUBSET Unsent(id) :
         cut' = cut \cup {[replay |-> id, segment |-> Cardinality(SegmentsOf(id)), events |-> events]}
    /\ UNCHANGED recordedIn

Next == \E id \in ReplayId : Cut(id) \/ \E e \in Event : Record(e, id)

Spec == Init /\ [][Next]_vars
=============================================================================
