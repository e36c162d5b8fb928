--------------------------- MODULE Client_proofs ---------------------------
(* Proofs about Client, for any events, callbacks, reports and flushes:    *)
(* its counters are exact, what flush() answers is true and in time, and   *)
(* it uses its promise buffer as that is meant to be used.                 *)
EXTENDS Client, DataFacts, FiniteSetTheorems, TLAPS

Counted == UnderWay \cup native
Dropped(reason) == {e \in Events : stage[e] = reason}
Limited(reason) == {r \in Reports : report[r] = reason}

(* The promise of an event is where its pipeline is; a native one may be   *)
(* pending, or not counted off, when its pipeline is over.                 *)
Fits(e) ==
    /\ stage[e] = "new" <=> status[e] = "new"
    /\ stage[e] = "thrown" <=> status[e] = "thrown"
    /\ stage[e] \in Running => status[e] \in {"producing", "pending"}
    /\ stage[e] \in {"build", "prepare"} => status[e] = "producing"
    /\ stage[e] \in {"preparing", "asking"} => status[e] = "pending"
    /\ status[e] \in {"producing", "pending"} => stage[e] \in Running \/ e \in native
    /\ e \in native => status[e] \in {"pending", "fulfilled"}

(* The transport's buffer holds what is being sent. *)
RequestsFit ==
    /\ \A e \in Events : e \in requests <=> stage[e] = "sending"
    /\ \A r \in Reports : r \in requests <=> report[r] = "sending"

(* Once the client was done every event captured before the flush had left *)
(* the pipeline, and the transport is asked for those it was sending.      *)
FlushKnows(fl) ==
    /\ \A e \in fl.before : stage[e] # "new"
    /\ fl.done => \A e \in fl.before : stage[e] \in Ends \ {"thrown"} /\ e \notin UnderWay
    /\ fl.phase \in {"none", "polling"} => ~fl.done
    /\ fl.phase = "draining" /\ fl.done => \A e \in fl.before : stage[e] = "sending" => e \in fl.snap
    /\ fl.phase = "true" => fl.done /\ \A e \in fl.before : stage[e] # "sending"

(* A poll of i iterations took from i to i * (1 + Lateness), and the drain *)
(* begins within the longest poll; who gives up has waited the timeout.    *)
PollInTime(fl) ==
    /\ fl.ticks < Timeout /\ fl.since <= 1 + Lateness
    /\ fl.ticks + fl.since <= fl.age /\ fl.age <= fl.ticks * (1 + Lateness) + fl.since

DrainInTime(fl) ==
    /\ fl.since <= Timeout + Lateness
    /\ fl.since <= fl.age /\ fl.age <= Timeout * (1 + Lateness) + fl.since
    /\ ~fl.done => Timeout <= fl.age

InTime(fl) ==
    /\ fl.phase = "none" => ~fl.timed
    /\ fl.timed => /\ fl.age <= Longest
                   /\ fl.phase = "polling" => PollInTime(fl)
                   /\ fl.phase = "draining" => DrainInTime(fl)
    /\ fl.phase = "draining" /\ ~fl.done => fl.timed
    /\ fl.phase = "false" => fl.timed /\ fl.age >= Timeout

CountIsRight == numProcessing = Cardinality(Counted)

IInv ==
    /\ TypeOK
    /\ \A e \in Events : Fits(e)
    /\ RequestsFit
    /\ CountIsRight
    /\ OutcomesConserved
    /\ \A f \in Flushes : FlushKnows(flush[f]) /\ InTime(flush[f])

-----------------------------------------------------------------------------
(* Every step of the pipeline moves one event; the pipeline it ran in may  *)
(* go on, but stays where it counts.                                       *)

Same(f) ==
    /\ status'[f] = status[f]
    /\ f \in native' <=> f \in native
    /\ stage'[f] = stage[f] \/ (stage[f] \in Running /\ stage'[f] = "failing")

Move(e) ==
    /\ \A f \in Events \ {e} : Same(f)
    /\ stage'[e] = stage[e] \/ stage[e] \notin Ends \ {"sending"}
    /\ stage'[e] # "new"
    /\ stage[e] = "sending" => stage'[e] \in {"sending", "answered", "network_error"}
    /\ e \in UnderWay' => e \in UnderWay \/ stage[e] = "new"
    /\ Fits(e)'
    /\ numProcessing' = IF e \in Counted'
                        THEN IF e \in Counted THEN numProcessing ELSE numProcessing + 1
                        ELSE IF e \in Counted THEN numProcessing - 1 ELSE numProcessing
    /\ outcomes' = IF stage'[e] \in Reasons /\ stage'[e] # stage[e]
                   THEN [outcomes EXCEPT ![stage'[e]] = @ + 1] ELSE outcomes
    /\ requests' = IF stage'[e] = "sending" THEN requests \cup {e} ELSE requests \ {e}
    /\ UNCHANGED <<reportVars, enabled, flush>>

LEMMA EventsAreFinite ==
    /\ IsFiniteSet(Events) /\ IsFiniteSet(Reports)
    /\ \A S \in SUBSET Events : IsFiniteSet(S) /\ Cardinality(S) \in Nat
    /\ \A S \in SUBSET Reports : IsFiniteSet(S) /\ Cardinality(S) \in Nat
  BY ClientAssumption, FS_Subset, FS_CardinalityType

LEMMA MoveKeepsCount ==
    ASSUME TypeOK, TypeOK', CountIsRight, NEW e \in Events, Move(e)
    PROVE  CountIsRight'
  <1>1. Counted' \ {e} = Counted \ {e}
    BY DEF Move, Same, Counted, UnderWay, TypeOK
  <1>2. IsFiniteSet(Counted) /\ Cardinality(Counted) \in Nat
    BY EventsAreFinite DEF Counted, UnderWay, TypeOK
  <1>3. Counted' = IF e \in Counted' THEN Counted \cup {e} ELSE Counted \ {e}
    BY <1>1
  <1>4. numProcessing = Cardinality(Counted)
    BY DEF CountIsRight
  <1>5. numProcessing' = Cardinality(Counted')
    <2> HIDE DEF Counted
    <2>1. CASE e \in Counted'
      BY <1>2, <1>3, <1>4, <2>1, FS_AddElement DEF Move
    <2>2. CASE e \notin Counted'
      BY <1>2, <1>3, <1>4, <2>2, FS_RemoveElement DEF Move
    <2> QED
      BY <2>1, <2>2
  <1> QED
    BY <1>5 DEF CountIsRight

LEMMA MoveKeepsOutcomes ==
    ASSUME TypeOK, TypeOK', OutcomesConserved, NEW e \in Events, Move(e)
    PROVE  OutcomesConserved'
  <1> SUFFICES ASSUME NEW x \in Reasons
               PROVE  outcomes'[x] + told'[x] = Cardinality(Dropped(x)') + Cardinality(Limited(x)')
    BY DEF OutcomesConserved, Dropped, Limited
  <1>1. outcomes[x] + told[x] = Cardinality(Dropped(x)) + Cardinality(Limited(x))
    BY DEF OutcomesConserved, Dropped, Limited
  <1>2. told' = told /\ Limited(x)' = Limited(x)
    BY DEF Move, reportVars, Limited
  <1>3. /\ IsFiniteSet(Dropped(x)) /\ Cardinality(Dropped(x)) \in Nat /\ Cardinality(Limited(x)) \in Nat
        /\ outcomes[x] \in Nat /\ told[x] \in Nat
    BY EventsAreFinite DEF Dropped, Limited, TypeOK, Counts
  <1>4. \A f \in Events \ {e} : stage'[f] = x <=> stage[f] = x
    BY DEF Move, Same, Reasons, Running
  <1>5. CASE stage'[e] = stage[e]
    <2>1. Dropped(x)' = Dropped(x) /\ outcomes' = outcomes
      BY <1>4, <1>5 DEF Dropped, Move
    <2> QED
      BY <1>1, <1>2, <2>1
  <1>6. CASE stage'[e] # stage[e]
    <2>1. e \notin Dropped(x) /\ Dropped(x)' = IF stage'[e] = x THEN Dropped(x) \cup {e} ELSE Dropped(x)
      BY <1>4, <1>6 DEF Move, Dropped, Ends, Reasons
    <2>2. outcomes'[x] = IF stage'[e] = x THEN outcomes[x] + 1 ELSE outcomes[x]
      BY <1>6 DEF Move, TypeOK, Counts
    <2> HIDE DEF Dropped, Limited
    <2>3. Cardinality(Dropped(x)') = Cardinality(Dropped(x)) + IF stage'[e] = x THEN 1 ELSE 0
      <3>1. CASE stage'[e] = x
        BY <1>3, <2>1, <3>1, FS_AddElement
      <3>2. CASE stage'[e] # x
        BY <1>3, <2>1, <3>2
      <3> QED
        BY <3>1, <3>2
    <2> QED
      BY <1>1, <1>2, <1>3, <2>2, <2>3
  <1> QED
    BY <1>5, <1>6

LEMMA MoveKeepsInvariant ==
    ASSUME IInv, TypeOK', NEW e \in Events, Move(e)
    PROVE  IInv'
  <1>1. ASSUME NEW f \in Events PROVE Fits(f)'
    BY DEF IInv, Move, Same, Fits, Running
  <1>2. RequestsFit'
    BY ClientAssumption DEF IInv, RequestsFit, Move, Same, reportVars, Running
  <1>3. \A f \in Flushes : flush[f].before \subseteq Events
    BY DEF IInv, TypeOK, FlushType
  <1>4. ASSUME NEW f \in Flushes PROVE FlushKnows(flush[f])' /\ InTime(flush[f])'
    <2>1. \A g \in Events :
             /\ stage[g] # "new" => stage'[g] # "new"
             /\ stage[g] \in Ends \ {"thrown"} => stage'[g] \in Ends \ {"thrown"}
             /\ stage[g] \in Ends /\ stage'[g] = "sending" => stage[g] = "sending"
             /\ stage[g] \in Ends /\ g \notin UnderWay => g \notin UnderWay'
      BY DEF Move, Same, Ends, Reasons, Running, UnderWay
    <2>2. flush' = flush
      BY DEF Move
    <2>3. FlushKnows(flush[f]) /\ InTime(flush[f])
      BY DEF IInv
    <2>4. FlushKnows(flush[f])'
      BY <1>3, <2>1, <2>2, <2>3 DEF FlushKnows
    <2>5. InTime(flush[f])'
      BY <2>2, <2>3 DEF InTime, PollInTime, DrainInTime
    <2> QED
      BY <2>4, <2>5
  <1> QED
    BY <1>1, <1>2, <1>4, MoveKeepsCount, MoveKeepsOutcomes DEF IInv

-----------------------------------------------------------------------------
(* The actions of the pipeline are moves. *)

LEMMA CountIsPositive ==
    ASSUME IInv, NEW e \in Counted
    PROVE  numProcessing \in Nat \ {0} /\ numProcessing - 1 \in Nat
  <1>1. e \in Counted /\ IsFiniteSet(Counted) /\ numProcessing = Cardinality(Counted)
    BY EventsAreFinite DEF IInv, CountIsRight, Counted, UnderWay, TypeOK
  <1> HIDE DEF Counted
  <1>2. numProcessing # 0
    BY <1>1, FS_EmptySet
  <1> QED
    BY <1>2 DEF IInv, TypeOK

LEMMA CaptureMoves ==
    ASSUME IInv, NEW x \in Events, stage[x] = "new", Len(frames) < MaxDepth,
           NEW st \in [Events -> {"new"} \cup Running \cup Ends],
           \A f \in Events \ {x} : st[f] = stage[f] \/ (stage[f] \in Running /\ st[f] = "failing"),
           CaptureInto(x, st), internal' \in SUBSET Events,
           UNCHANGED <<native, reportVars, requests, enabled, flush>>
    PROVE  Move(x) /\ TypeOK'
  <1> USE DEF IInv, TypeOK
  <1>1. status[x] = "new" /\ x \notin native /\ x \notin requests /\ numProcessing \in Nat
    BY DEF Fits, RequestsFit
  <1>2. CASE Enter(x) /\ stage' = [st EXCEPT ![x] = FirstStage(x)]
    <2>1. /\ stage' = [st EXCEPT ![x] = FirstStage(x)] /\ FirstStage(x) \in {"build", "prepare"}
          /\ status' = [status EXCEPT ![x] = "producing"]
          /\ frames' = Append(frames, x) /\ numProcessing' = numProcessing + 1
          /\ buffer' = buffer /\ outcomes' = outcomes
      BY <1>2 DEF Enter, FirstStage
    <2>2. Move(x)
      BY <1>1, <2>1 DEF Move, Same, Fits, Counted, UnderWay, Running, Ends, Reasons
    <2>3. TypeOK'
      BY <1>1, <2>1 DEF reportVars, Running
    <2> QED
      BY <2>2, <2>3
  <1>3. CASE Overflow(x) /\ stage' = [st EXCEPT ![x] = "queue_overflow"]
    <2>1. /\ stage' = [st EXCEPT ![x] = "queue_overflow"] /\ "queue_overflow" \in Reasons
          /\ status' = [status EXCEPT ![x] = "refused"]
          /\ frames' = frames /\ numProcessing' = numProcessing
          /\ buffer' = buffer /\ outcomes' = [outcomes EXCEPT !["queue_overflow"] = @ + 1]
      BY <1>3 DEF Overflow, RecordDroppedEvent, Reasons
    <2>2. Move(x)
      BY <1>1, <2>1 DEF Move, Same, Fits, Counted, UnderWay, Running, Ends, Reasons
    <2>3. TypeOK'
      BY <1>1, <2>1 DEF reportVars, Counts, Ends
    <2> QED
      BY <2>2, <2>3
  <1> QED
    BY <1>2, <1>3 DEF CaptureInto

(* A pipeline that runs: its event and the stack below it *)
LEMMA TopRuns ==
    ASSUME IInv, NEW e \in Events, stage[e] \in Running
    PROVE  /\ status[e] \in {"producing", "pending"} /\ e \notin requests
           /\ e \in UnderWay /\ e \in Counted
           /\ numProcessing - 1 \in Nat
           /\ IsTop(e) => Popped \in Seq(Events)
  <1>1. /\ status[e] \in {"producing", "pending"} /\ e \notin requests
        /\ e \in UnderWay /\ e \in Counted
    BY DEF IInv, Fits, RequestsFit, UnderWay, Counted, Running
  <1>2. ASSUME IsTop(e) PROVE Popped \in Seq(Events)
    BY <1>2, PopFacts DEF IInv, TypeOK, IsTop, Idle, Popped
  <1> QED
    BY <1>1, <1>2, CountIsPositive

(* It goes on. *)
LEMMA GoingOnMoves ==
    ASSUME IInv, NEW e \in Events, stage[e] \in Running, NEW to \in Running \ {"build"},
           stage' = [stage EXCEPT ![e] = to],
           \/ to \notin {"preparing", "asking"} /\ native' = native /\ status' = status
           \/ /\ to # "prepare" /\ status' = [status EXCEPT ![e] = "pending"]
              /\ native' = native \/ native' = native \cup {e},
           to = "prepare" => stage[e] = "build",
           buffer' = buffer \/ buffer' = buffer \cup {e}, frames' \in Seq(Events),
           UNCHANGED <<internal, numProcessing, outcomes, reportVars, requests, enabled, flush>>
    PROVE  Move(e) /\ TypeOK'
  <1> USE DEF IInv, TypeOK
  <1>1. /\ status'[e] \in {"producing", "pending"} /\ \A f \in Events \ {e} : status'[f] = status[f]
        /\ to = "prepare" => status'[e] = "producing"
        /\ to \in {"preparing", "asking"} => status'[e] = "pending"
        /\ e \in native' => status'[e] = "pending"
    BY TopRuns DEF Fits
  <1>2. Move(e)
    BY <1>1, TopRuns DEF Move, Same, Fits, UnderWay, Counted, Running, Ends, Reasons
  <1>3. TypeOK'
    BY <1>1 DEF reportVars
  <1> QED
    BY <1>2, <1>3

(* Its last part has run: a native promise is pending still. *)
LEMMA OverMoves ==
    ASSUME IInv, NEW e \in Events, stage[e] \in Running, IsTop(e), e \in native,
           frames' = Popped, UNCHANGED <<native, status, buffer, numProcessing>>,
           NEW to \in Ends \ {"thrown"}, stage' = [stage EXCEPT ![e] = to],
           outcomes' = IF to \in Reasons THEN [outcomes EXCEPT ![to] = @ + 1] ELSE outcomes,
           requests' = IF to = "sending" THEN requests \cup {e} ELSE requests,
           UNCHANGED <<internal, reportVars, enabled, flush>>
    PROVE  Move(e) /\ TypeOK'
  <1> USE DEF IInv, TypeOK
  <1>1. frames' \in Seq(Events) /\ to \notin Running
    BY TopRuns DEF Ends, Reasons, Running
  <1>2. /\ stage'[e] = to /\ to # stage[e] /\ stage[e] \notin Ends
        /\ \A f \in Events \ {e} : stage'[f] = stage[f]
    BY <1>1 DEF Ends, Reasons, Running
  <1>3. UnderWay' = UnderWay /\ Counted' = Counted
    BY DEF UnderWay, Counted
  <1>4. Fits(e)'
    BY <1>1, <1>2, TopRuns DEF Fits, Ends, Reasons, Running
  <1>5. requests' = IF to = "sending" THEN requests \cup {e} ELSE requests \ {e}
    BY TopRuns
  <1>6. Move(e)
    BY <1>2, <1>3, <1>4, <1>5 DEF Move, Same, Ends, Reasons
  <1>7. TypeOK'
    BY <1>1 DEF reportVars, Counts
  <1> QED
    BY <1>6, <1>7

(* It ends and is settled at once. *)
LEMMA EndingMoves ==
    ASSUME IInv, NEW e \in Events, stage[e] \in Running, IsTop(e), e \notin native, native' = native,
           NEW s \in {"fulfilled", "rejected"}, Settle(e, s),
           NEW to \in Ends \ {"thrown"}, stage' = [stage EXCEPT ![e] = to],
           outcomes' = IF to \in Reasons THEN [outcomes EXCEPT ![to] = @ + 1] ELSE outcomes,
           requests' = IF to = "sending" THEN requests \cup {e} ELSE requests,
           UNCHANGED <<internal, reportVars, enabled, flush>>
    PROVE  Move(e) /\ TypeOK'
  <1> USE DEF IInv, TypeOK
  <1>1. /\ frames' \in Seq(Events) /\ status' = [status EXCEPT ![e] = s]
        /\ buffer' = buffer \ {e} /\ numProcessing' = numProcessing - 1 /\ numProcessing' \in Nat
    BY TopRuns DEF Settle
  <1>2. /\ stage'[e] = to /\ to # stage[e] /\ stage[e] \notin Ends /\ to \notin Running
        /\ \A f \in Events \ {e} : stage'[f] = stage[f]
    BY DEF Ends, Reasons, Running
  <1>3. e \notin UnderWay' /\ e \notin Counted' /\ e \in Counted
    BY <1>1, TopRuns DEF UnderWay, Counted
  <1>4. Fits(e)'
    BY <1>1, <1>2, TopRuns DEF Fits, Ends, Reasons, Running
  <1>5. requests' = IF to = "sending" THEN requests \cup {e} ELSE requests \ {e}
    BY TopRuns
  <1>6. \A f \in Events \ {e} : status'[f] = status[f]
    BY <1>1
  <1>7. Move(e)
    <2> HIDE DEF IInv, TypeOK
    <2> QED
      BY <1>1, <1>2, <1>3, <1>4, <1>5, <1>6 DEF Move, Same, Ends, Reasons
  <1>8. TypeOK'
    BY <1>1 DEF reportVars, Counts
  <1> QED
    BY <1>7, <1>8

LEMMA EndMoves ==
    ASSUME IInv, NEW e \in Events, stage[e] \in Running, IsTop(e), native' = native,
           NEW to \in Ends \ {"thrown"}, End(e, to),
           outcomes' = IF to \in Reasons THEN [outcomes EXCEPT ![to] = @ + 1] ELSE outcomes,
           requests' = IF to = "sending" THEN requests \cup {e} ELSE requests,
           UNCHANGED <<internal, reportVars, enabled, flush>>
    PROVE  Move(e) /\ TypeOK'
  BY OverMoves, EndingMoves DEF End

LEMMA StepMoves ==
    ASSUME IInv, NEW e \in Events, Step(e)
    PROVE  TypeOK' /\ \E x \in Events : Move(x)
  <1>0. stage \in [Events -> {"new"} \cup Running \cup Ends]
    BY DEF IInv, TypeOK
  <1>1. ASSUME NEW from \in Running, NEW to \in Running \ {"build", "preparing", "asking"},
               to = "prepare" => from = "build", Advance(e, from, to)
        PROVE  Move(e) /\ TypeOK'
    <2>1. frames' \in Seq(Events)
      BY <1>1, TopRuns DEF Advance, IInv, TypeOK
    <2> QED
      BY <1>1, <2>1, GoingOnMoves DEF Advance, marks
  <1>2. CASE Build(e) \/ Prepared(e) \/ ProcessorReturnsNull(e) \/ BeforeSendReturns(e) \/ CallbackThrows(e)
    BY <1>1, <1>2 DEF Build, Prepared, ProcessorReturnsNull, BeforeSendReturns, CallbackThrows, Running
  <1>3. CASE BuildFails(e) \/ ThrowInThen(e)
    <2>1. stage[e] \in {"build", "prepare"} /\ e \notin native
      BY <1>3 DEF BuildFails, ThrowInThen, IInv, Fits
    <2> QED
      BY <1>3, <2>1, EndingMoves DEF BuildFails, ThrowInThen, marks, Running, Ends, Reasons
  <1>5. CASE ThrowSync(e)
    <2>1. /\ stage[e] \in Running /\ IsTop(e) /\ stage' = [stage EXCEPT ![e] = "thrown"]
          /\ status' = [status EXCEPT ![e] = "thrown"]
          /\ frames' = Popped /\ e \notin native
          /\ UNCHANGED <<internal, native, buffer, numProcessing, outcomes, reportVars, requests, enabled, flush>>
      BY <1>5 DEF ThrowSync, Running, marks, IInv, Fits
    <2>2. Move(e)
      BY <2>1, TopRuns DEF Move, Same, Fits, UnderWay, Counted, Ends, Reasons, Running, IInv, TypeOK
    <2>3. TypeOK'
      BY <2>1, TopRuns DEF Ends, reportVars, IInv, TypeOK
    <2> QED
      BY <2>2, <2>3
  <1>6. ASSUME NEW reason \in Reasons, stage[e] \in Running, Drop(e, reason) PROVE Move(e) /\ TypeOK'
    BY <1>6, EndMoves DEF Drop, RecordDroppedEvent, marks, Ends, Reasons
  <1>7. CASE SampledOut(e) \/ ProcessorDrops(e) \/ BeforeSendDrops(e)
    BY <1>6, <1>7 DEF SampledOut, ProcessorDrops, BeforeSendDrops, Running, Reasons
  <1>8. CASE BeforeSendInvalid(e) \/ Fails(e)
    BY <1>8, EndMoves DEF BeforeSendInvalid, Fails, marks, Running, Ends, Reasons
  <1>10. CASE CaptureError(e)
    <2> DEFINE st == [stage EXCEPT ![e] = "failing"]
    <2>1. /\ stage[e] \in Running /\ IsTop(e) /\ status[e] \in {"producing", "pending"}
          /\ "failing" \in Running
          /\ UNCHANGED <<native, reportVars, requests, enabled, flush>>
      BY <1>10, TopRuns DEF CaptureError, Running
    <2>2. CASE stage' = st /\ UNCHANGED <<internal, taskVars, outcomes>>
      BY <2>1, <2>2, GoingOnMoves DEF taskVars, IInv, TypeOK
    <2>3. ASSUME NEW x \in Errors \ Direct, stage[x] = "new", Len(frames) < MaxDepth,
                 CaptureInto(x, st), internal' = internal \cup {x}
          PROVE  Move(x) /\ TypeOK'
      <3>1. x \in Events /\ x # e /\ st \in [Events -> {"new"} \cup Running \cup Ends]
        BY <1>0, <2>1, <2>3, ClientAssumption DEF Running
      <3>2. internal' \in SUBSET Events
        BY <2>3, <3>1 DEF IInv, TypeOK
      <3>3. \A f \in Events \ {x} : st[f] = stage[f] \/ (stage[f] \in Running /\ st[f] = "failing")
        BY <1>0, <2>1
      <3> HIDE DEF st
      <3> QED
        BY <2>1, <2>3, <3>1, <3>2, <3>3, CaptureMoves
    <2> QED
      BY <1>10, <2>2, <2>3, ClientAssumption DEF CaptureError
  <1>11. CASE Suspend(e)
    <2>1. /\ stage[e] \in Running /\ IsTop(e)
          /\ native' = native \/ native' = native \cup {e}
          /\ \E to \in {"preparing", "asking"} : stage' = [stage EXCEPT ![e] = to]
      BY <1>11 DEF Suspend, Running
    <2>2. {"preparing", "asking"} \subseteq Running \ {"build", "prepare"}
      BY DEF Running
    <2>3. /\ frames' \in Seq(Events) /\ status' = [status EXCEPT ![e] = "pending"]
          /\ buffer' = buffer \cup {e}
          /\ UNCHANGED <<internal, numProcessing, outcomes, reportVars, requests, enabled, flush>>
      BY <1>11, <2>1, TopRuns DEF Suspend
    <2>4. PICK to \in {"preparing", "asking"} : stage' = [stage EXCEPT ![e] = to]
      BY <2>1
    <2>5. to \in Running \ {"build"} /\ to # "prepare"
      BY <2>2, <2>4
    <2> QED
      BY <2>1, <2>3, <2>4, <2>5, GoingOnMoves
  <1>12. CASE SendAccepted(e)
    BY <1>12, EndMoves DEF SendAccepted, ReadyToSend, marks, Running, Ends, Reasons
  <1>13. CASE SendRefused(e)
    <2>1. PICK reason \in {"ratelimit_backoff", "queue_overflow"} : End(e, reason) /\ RecordDroppedEvent(reason)
      BY <1>13 DEF SendRefused
    <2> QED
      BY <1>13, <2>1, EndMoves DEF SendRefused, ReadyToSend, RecordDroppedEvent, marks, Running, Ends, Reasons
  <1>14. CASE SendDisabled(e)
    BY <1>14, EndMoves DEF SendDisabled, ReadyToSend, marks, Running, Ends, Reasons
  <1> QED
    BY <1>2, <1>3, <1>5, <1>7, <1>8, <1>10, <1>11, <1>12, <1>13, <1>14 DEF Step

LEMMA ResumeMoves ==
    ASSUME IInv, NEW e \in Events, Resume(e)
    PROVE  Move(e) /\ TypeOK'
  <1>1. stage[e] \in Running /\ \E to \in {"prepared", "asked"} : stage' = [stage EXCEPT ![e] = to]
    BY DEF Resume, Running
  <1>2. <<e>> \in Seq(Events) /\ {"prepared", "asked"} \subseteq Running \ {"build", "prepare", "preparing", "asking"}
    BY DEF Running
  <1> QED
    BY <1>1, <1>2, GoingOnMoves DEF Resume, marks

(* What the microtasks behind a native promise change *)
LEMMA MicrotaskMoves ==
    ASSUME IInv, NEW e \in Events, Microtask(e)
    PROVE  Move(e) /\ TypeOK'
  <1> USE DEF IInv, TypeOK
  <1>1. /\ stage' = stage /\ stage[e] # "new"
        /\ e \in requests <=> stage[e] = "sending"
        /\ UNCHANGED <<internal, outcomes, reportVars, requests, enabled, flush>>
    BY DEF Microtask, RunJob, NativeSettles, Remove, CountOff, Fits, RequestsFit, Running, Ends, Reasons, marks
  <1>2. requests' = IF stage'[e] = "sending" THEN requests \cup {e} ELSE requests \ {e}
    BY <1>1
  <1>3. CASE RunJob(e) \/ Remove(e)
    <2>1. <<e>> \in Seq(Events)
      OBVIOUS
    <2>2. /\ UNCHANGED <<native, status, numProcessing>>
          /\ buffer' \in SUBSET Events /\ frames' \in Seq(Events)
      BY <1>3, <2>1 DEF RunJob, Remove, marks
    <2>3. Move(e)
      BY <1>1, <1>2, <2>2 DEF Move, Same, Fits, UnderWay, Counted
    <2>4. TypeOK'
      BY <1>1, <2>2 DEF reportVars
    <2> QED
      BY <2>3, <2>4
  <1>4. CASE NativeSettles(e)
    <2>1. e \in native /\ e \in Counted /\ status[e] = "pending" /\ stage[e] \in Ends \ {"thrown"}
      BY <1>4 DEF NativeSettles, Counted, Fits
    <2>2. status' = [status EXCEPT ![e] = "fulfilled"] /\ frames' = frames
      BY <1>4 DEF NativeSettles
    <2>3. \/ UNCHANGED <<native, buffer, numProcessing>>
          \/ native' = native \ {e} /\ buffer' = buffer \ {e} /\ numProcessing' = numProcessing - 1
      BY <1>4 DEF NativeSettles
    <2>4. Move(e)
      BY <1>1, <1>2, <2>1, <2>2, <2>3 DEF Move, Same, Fits, UnderWay, Counted, Ends, Reasons, Running
    <2>5. TypeOK'
      BY <1>1, <2>1, <2>2, <2>3, CountIsPositive DEF reportVars
    <2> QED
      BY <2>4, <2>5
  <1>5. CASE CountOff(e)
    <2>1. e \in native /\ e \in Counted /\ status[e] = "fulfilled"
      BY <1>5 DEF CountOff, Counted
    <2>2. /\ UNCHANGED <<status, buffer, frames>>
          /\ native' = native \ {e} /\ numProcessing' = numProcessing - 1
      BY <1>5 DEF CountOff
    <2>3. Move(e)
      BY <1>1, <1>2, <2>1, <2>2 DEF Move, Same, Fits, UnderWay, Counted
    <2>4. TypeOK'
      BY <1>1, <2>1, <2>2, CountIsPositive DEF reportVars
    <2> QED
      BY <2>3, <2>4
  <1> QED
    BY <1>3, <1>4, <1>5 DEF Microtask

LEMMA RequestEndsMoves ==
    ASSUME IInv, NEW e \in Events, RequestEnds(e)
    PROVE  Move(e) /\ TypeOK'
  <1>1. stage[e] = "sending" /\ status[e] \notin {"new", "producing", "thrown"}
    BY DEF IInv, RequestsFit, RequestEnds, Fits, Running
  <1>2. PICK to \in {"answered", "network_error"} :
           /\ stage' = [stage EXCEPT ![e] = to]
           /\ outcomes' = IF to \in Reasons THEN [outcomes EXCEPT ![to] = @ + 1] ELSE outcomes
    BY DEF RequestEnds, RecordDroppedEvent, Reasons
  <1>3. UNCHANGED <<internal, native, status, buffer, frames, numProcessing, reportVars, enabled, flush>>
        /\ requests' = requests \ {e}
    BY DEF RequestEnds, taskVars, marks
  <1>4. Move(e)
    BY <1>1, <1>2, <1>3 DEF Move, Same, Fits, UnderWay, Counted, Running, Ends, Reasons, IInv, TypeOK
  <1>5. TypeOK'
    BY <1>2, <1>3 DEF IInv, TypeOK, reportVars, Ends, Reasons, Counts
  <1> QED
    BY <1>4, <1>5

-----------------------------------------------------------------------------
(* Client reports *)

(* The pipelines and the flushes do not notice a report. *)
LEMMA ReportKeepsTheRest ==
    ASSUME IInv, NEW r \in Reports, UNCHANGED <<stage, marks, taskVars, flush>>,
           requests' \ {r} = requests \ {r}
    PROVE  /\ \A e \in Events : Fits(e)'
           /\ \A e \in Events : (e \in requests <=> stage[e] = "sending")'
           /\ CountIsRight'
           /\ \A f \in Flushes : FlushKnows(flush[f])' /\ InTime(flush[f])'
  BY ClientAssumption
     DEF IInv, Fits, RequestsFit, CountIsRight, Counted, UnderWay, FlushKnows, InTime, PollInTime,
         DrainInTime, taskVars, marks

LEMMA SendReportKeepsInvariant ==
    ASSUME IInv, NEW r \in Reports, SendReport(r)
    PROVE  IInv'
  <1>1. PICK end \in {"sending", "ratelimit_backoff", "gone"} :
           /\ report' = [report EXCEPT ![r] = end]
           /\ requests' = IF end = "sending" THEN requests \cup {r} ELSE requests
           /\ outcomes' = IF end = "ratelimit_backoff" THEN [NoCounts EXCEPT ![end] = 1] ELSE NoCounts
    BY DEF SendReport
  <1>2. /\ report[r] = "none" /\ told' = [reason \in Reasons |-> told[reason] + outcomes[reason]]
        /\ UNCHANGED <<stage, marks, taskVars, enabled, flush>>
    BY DEF SendReport
  <1>3. TypeOK'
    <2>1. outcomes' \in Counts
      BY <1>1 DEF Counts, NoCounts
    <2>2. told' \in Counts
      BY <1>2 DEF IInv, TypeOK, Counts
    <2>3. requests' \in SUBSET (Events \cup Reports)
      BY <1>1 DEF IInv, TypeOK
    <2> QED
      BY <1>1, <1>2, <2>1, <2>2, <2>3 DEF IInv, TypeOK, taskVars, marks
  <1>4. RequestsFit'
    BY <1>1, <1>2, ClientAssumption DEF IInv, TypeOK, RequestsFit
  <1>5. ASSUME NEW x \in Reasons
        PROVE  outcomes'[x] + told'[x] = Cardinality(Dropped(x)') + Cardinality(Limited(x)')
    <2>1. /\ outcomes[x] + told[x] = Cardinality(Dropped(x)) + Cardinality(Limited(x))
          /\ outcomes[x] \in Nat /\ told[x] \in Nat /\ Dropped(x)' = Dropped(x)
      BY <1>2, <1>5 DEF IInv, OutcomesConserved, TypeOK, Counts, Dropped, Limited
    <2>2. r \notin Limited(x) /\ Limited(x)' = IF end = x THEN Limited(x) \cup {r} ELSE Limited(x)
      BY <1>1, <1>2 DEF IInv, TypeOK, Limited, Reasons
    <2>3. IsFiniteSet(Limited(x)) /\ Cardinality(Limited(x)) \in Nat /\ Cardinality(Dropped(x)) \in Nat
      BY EventsAreFinite DEF Limited, Dropped
    <2>4. outcomes'[x] = IF end = x THEN 1 ELSE 0
      BY <1>1 DEF NoCounts, Reasons
    <2>5. told'[x] = told[x] + outcomes[x]
      BY <1>2
    <2> HIDE DEF Dropped, Limited
    <2>6. CASE end = x
      <3>1. Cardinality(Limited(x)') = Cardinality(Limited(x)) + 1
        BY <2>2, <2>3, <2>6, FS_AddElement
      <3> QED
        BY <2>1, <2>3, <2>4, <2>5, <2>6, <3>1
    <2>7. CASE end # x
      BY <2>1, <2>2, <2>3, <2>4, <2>5, <2>7
    <2> QED
      BY <2>6, <2>7
  <1>6. OutcomesConserved'
    BY <1>5 DEF OutcomesConserved, Dropped, Limited
  <1> QED
    BY <1>1, <1>2, <1>3, <1>4, <1>6, ReportKeepsTheRest DEF IInv

LEMMA ReportEndsKeepsInvariant ==
    ASSUME IInv, NEW r \in Reports, ReportEnds(r)
    PROVE  IInv'
  <1>1. /\ report[r] = "sending" /\ report' = [report EXCEPT ![r] = "gone"] /\ requests' = requests \ {r}
        /\ UNCHANGED <<stage, marks, taskVars, outcomes, told, enabled, flush>>
    BY DEF ReportEnds, IInv, RequestsFit
  <1>2. TypeOK'
    BY <1>1 DEF IInv, TypeOK, taskVars, marks
  <1>3. RequestsFit'
    BY <1>1, ClientAssumption DEF IInv, TypeOK, RequestsFit
  <1>4. \A x \in Reasons : Limited(x)' = Limited(x) /\ Dropped(x)' = Dropped(x)
    BY <1>1 DEF IInv, TypeOK, Limited, Dropped, Reasons
  <1>5. OutcomesConserved'
    BY <1>1, <1>4 DEF IInv, OutcomesConserved, Limited, Dropped
  <1> QED
    BY <1>1, <1>2, <1>3, <1>5, ReportKeepsTheRest DEF IInv
-----------------------------------------------------------------------------
(* flush() *)

FlushOK(fl) == fl \in FlushType /\ FlushKnows(fl) /\ InTime(fl)

LEMMA FlushesAreOK == IInv => \A f \in Flushes : FlushOK(flush[f])
  BY DEF IInv, TypeOK, FlushOK

(* When the counter is zero the events captured before have left the       *)
(* pipeline.                                                               *)
LEMMA ZeroMeansDone ==
    ASSUME IInv, numProcessing = 0, NEW e \in Events, stage[e] # "new"
    PROVE  stage[e] \in Ends \ {"thrown"} /\ e \notin UnderWay
  <1>1. IsFiniteSet(Counted) /\ Cardinality(Counted) = 0
    BY EventsAreFinite DEF IInv, CountIsRight, Counted, UnderWay, TypeOK
  <1> HIDE DEF Counted
  <1>2. Counted = {}
    BY <1>1, FS_EmptySet
  <1>3. e \notin Counted
    BY <1>2
  <1> QED
    BY <1>3 DEF Counted, UnderWay, IInv, Fits, TypeOK

(* What the bounds on the time of a flush rest on *)
LEMMA TimeFacts ==
    /\ Timeout \in Nat \ {0} /\ Lateness \in Nat /\ 1 + Lateness \in Nat
    /\ Timeout * (1 + Lateness) \in Nat /\ Longest \in Nat
    /\ Longest = Timeout * (1 + Lateness) + Timeout + Lateness
    /\ \A n \in Nat : /\ n * (1 + Lateness) \in Nat
                      /\ (n + 1) * (1 + Lateness) = n * (1 + Lateness) + 1 + Lateness
                      /\ n < Timeout => n * (1 + Lateness) + 1 + Lateness <= Timeout * (1 + Lateness)
  <1>1. Timeout \in Nat \ {0} /\ Lateness \in Nat
    BY ClientAssumption
  <1>2. \A n, m, k \in Nat : /\ n * k \in Nat /\ (n + 1) * k = n * k + k
                             /\ n < m => n * k + k <= m * k
    OBVIOUS
  <1> DEFINE slow == 1 + Lateness
  <1>3. slow \in Nat
    BY <1>1
  <1>4. \A n \in Nat : /\ n * slow \in Nat /\ (n + 1) * slow = n * slow + slow
                       /\ n < Timeout => n * slow + slow <= Timeout * slow
    <2> HIDE DEF slow
    <2> QED
      BY <1>1, <1>2, <1>3
  <1>5. Timeout * slow \in Nat
    <2> HIDE DEF slow
    <2> QED
      BY <1>1, <1>2, <1>3
  <1> QED
    BY <1>1, <1>3, <1>4, <1>5 DEF Longest

LEMMA StartDrainFacts ==
    ASSUME IInv, NEW fl \in FlushType, FlushKnows(fl), NEW done \in BOOLEAN,
           done => \A e \in fl.before : stage[e] \in Ends \ {"thrown"} /\ e \notin UnderWay
    PROVE  LET new == StartDrain(fl, done)
           IN  /\ new \in FlushType /\ FlushKnows(new)
               /\ new.timed = fl.timed /\ new.age = fl.age /\ new.ticks = 0 /\ new.since = 0
               /\ new.done = done /\ new.phase \in {"draining", "true", "false"}
               /\ new.phase = "false" => ~done
  <1> DEFINE new == StartDrain(fl, done)
             next == IF requests = {} THEN (IF done THEN "true" ELSE "false") ELSE "draining"
  <1>0. next \in {"draining", "true", "false"} /\ requests \in SUBSET (Events \cup Reports)
    BY DEF IInv, TypeOK
  <1>1. /\ new \in FlushType /\ new.before = fl.before /\ new.done = done /\ new.snap = requests
        /\ new.timed = fl.timed /\ new.age = fl.age /\ new.ticks = 0 /\ new.since = 0
        /\ new.phase = next
    <2>1. new = [fl EXCEPT !.phase = next, !.ticks = 0, !.since = 0, !.done = done, !.snap = requests]
      BY DEF StartDrain
    <2> HIDE DEF next, new
    <2> QED
      BY <1>0, <2>1 DEF FlushType
  <1>2. \A e \in fl.before : e \in requests <=> stage[e] = "sending"
    BY DEF FlushType, IInv, RequestsFit
  <1>3. FlushKnows(new)
    <2> HIDE DEF new
    <2> QED
      BY <1>1, <1>2 DEF FlushKnows
  <1> QED
    BY <1>0, <1>1, <1>3

LEMMA PollFacts ==
    ASSUME IInv, NEW fl, FlushOK(fl), fl.phase = "polling", fl.since >= 1
    PROVE  FlushOK(Poll(fl))
  <1>1. /\ fl \in FlushType /\ FlushKnows(fl) /\ InTime(fl)
        /\ fl.age \in Nat /\ fl.ticks \in Nat /\ fl.since \in Nat /\ fl.timed \in BOOLEAN
    BY DEF FlushOK, FlushType
  <1>2. ASSUME NEW done \in BOOLEAN, Poll(fl) = StartDrain(fl, done),
               IF done THEN numProcessing = 0 ELSE fl.timed /\ fl.ticks + 1 = Timeout
        PROVE  FlushOK(Poll(fl))
    <2>1. done => \A e \in fl.before : stage[e] \in Ends \ {"thrown"} /\ e \notin UnderWay
      BY <1>1, <1>2, ZeroMeansDone DEF FlushKnows, FlushType
    <2> DEFINE new == StartDrain(fl, done)
    <2>2. /\ new \in FlushType /\ FlushKnows(new)
          /\ new.timed = fl.timed /\ new.age = fl.age /\ new.since = 0
          /\ new.done = done /\ new.phase \in {"draining", "true", "false"}
          /\ new.phase = "false" => ~done
      BY <1>1, <2>1, StartDrainFacts
    <2> HIDE DEF new
    <2>3. fl.timed => /\ fl.age <= Longest /\ fl.age <= Timeout * (1 + Lateness)
                      /\ ~done => Timeout <= fl.age
      BY <1>1, <1>2, TimeFacts DEF InTime, PollInTime
    <2>4. InTime(new)
      <3>1. new.timed => DrainInTime(new)
        BY <1>1, <2>2, <2>3, TimeFacts DEF DrainInTime
      <3>2. ~done => fl.timed
        BY <1>2
      <3> QED
        BY <1>1, <2>2, <2>3, <3>1, <3>2 DEF InTime
    <2> QED
      BY <1>2, <2>2, <2>4 DEF FlushOK, new
  <1>3. CASE numProcessing = 0
    <2>1. Poll(fl) = StartDrain(fl, TRUE)
      BY <1>3 DEF Poll
    <2> QED
      BY <1>2, <1>3, <2>1
  <1>4. CASE numProcessing # 0 /\ fl.timed /\ fl.ticks + 1 = Timeout
    <2>1. Poll(fl) = StartDrain(fl, FALSE)
      BY <1>4 DEF Poll
    <2> QED
      BY <1>2, <1>4, <2>1
  <1>5. CASE numProcessing # 0 /\ ~(fl.timed /\ fl.ticks + 1 = Timeout)
    <2> DEFINE new == [fl EXCEPT !.ticks = IF fl.timed THEN @ + 1 ELSE @, !.since = 0]
    <2>1. Poll(fl) = new
      BY <1>5 DEF Poll
    <2>2. /\ new \in FlushType /\ new.phase = "polling" /\ new.timed = fl.timed /\ new.age = fl.age
          /\ new.done = fl.done /\ new.before = fl.before /\ new.snap = fl.snap /\ new.since = 0
          /\ new.ticks = IF fl.timed THEN fl.ticks + 1 ELSE fl.ticks
      <3> DEFINE ticks == IF fl.timed THEN fl.ticks + 1 ELSE fl.ticks
      <3>0. fl.timed => fl.ticks + 1 \in Nat
        BY <1>1
      <3>1. new = [fl EXCEPT !.ticks = ticks, !.since = 0] /\ ticks \in Nat
        <4>1. CASE fl.timed
          BY <1>1, <3>0, <4>1
        <4>2. CASE ~fl.timed
          BY <1>1, <4>2
        <4> QED
          BY <1>1, <4>1, <4>2
      <3> HIDE DEF ticks, new
      <3>2. /\ new \in FlushType /\ new.phase = "polling" /\ new.timed = fl.timed /\ new.age = fl.age
            /\ new.done = fl.done /\ new.before = fl.before /\ new.snap = fl.snap /\ new.since = 0
            /\ new.ticks = ticks
        BY <1>1, <3>1, fl.phase = "polling" DEF FlushType
      <3> QED
        BY <3>2 DEF ticks
    <2> HIDE DEF new
    <2>3. FlushKnows(new)
      BY <1>1, <2>2 DEF FlushKnows
    <2>4. fl.timed => PollInTime(new)
      BY <1>1, <1>5, <2>2, TimeFacts DEF InTime, PollInTime
    <2>5. InTime(new)
      BY <1>1, <2>2, <2>4 DEF InTime
    <2> QED
      BY <2>1, <2>2, <2>3, <2>5 DEF FlushOK
  <1> QED
    BY <1>3, <1>4, <1>5

(* The timer of transport.flush *)
LEMMA DrainTimerFacts ==
    ASSUME NEW fl, FlushOK(fl), fl.phase = "draining", fl.timed, fl.since >= Timeout
    PROVE  FlushOK([fl EXCEPT !.phase = "false"])
  <1> DEFINE new == [fl EXCEPT !.phase = "false"]
  <1>1. fl \in FlushType /\ FlushKnows(fl) /\ InTime(fl) /\ fl.age \in Nat /\ fl.since \in Nat
    BY DEF FlushOK, FlushType
  <1>2. /\ new \in FlushType /\ new.phase = "false" /\ new.timed = fl.timed /\ new.age = fl.age
        /\ new.done = fl.done /\ new.before = fl.before
    BY <1>1 DEF FlushType
  <1> HIDE DEF new
  <1>3. FlushKnows(new)
    BY <1>1, <1>2 DEF FlushKnows
  <1>4. InTime(new)
    BY <1>1, <1>2, TimeFacts DEF InTime, DrainInTime
  <1> QED
    BY <1>2, <1>3, <1>4 DEF FlushOK, new

(* A millisecond more *)
LEMMA OlderFacts ==
    ASSUME NEW fl, FlushOK(fl), HasTimer(fl), fl.since < Delay(fl) + Lateness
    PROVE  FlushOK(Older(fl))
  <1> DEFINE new == Older(fl)
  <1>1. /\ fl \in FlushType /\ FlushKnows(fl) /\ InTime(fl)
        /\ fl.age \in Nat /\ fl.since \in Nat /\ fl.ticks \in Nat
    BY DEF FlushOK, FlushType
  <1>2. fl.timed => fl.age <= Longest
    BY <1>1 DEF InTime
  <1>3. /\ new \in FlushType /\ new.phase = fl.phase /\ new.timed = fl.timed /\ new.ticks = fl.ticks
        /\ new.done = fl.done /\ new.before = fl.before /\ new.snap = fl.snap
        /\ new.since = fl.since + 1
        /\ new.age = IF fl.timed THEN fl.age + 1 ELSE fl.age
    <2> DEFINE age == IF fl.timed THEN fl.age + 1 ELSE fl.age
    <2>1. age = (IF fl.timed /\ fl.age <= Longest THEN fl.age + 1 ELSE fl.age) /\ age \in Nat
      <3>1. CASE fl.timed
        BY <1>1, <1>2, <3>1
      <3>2. CASE ~fl.timed
        BY <1>1, <3>2
      <3> QED
        BY <1>1, <3>1, <3>2 DEF FlushType
    <2> DEFINE since == fl.since + 1
    <2> HIDE DEF age
    <2>2. new = [fl EXCEPT !.since = since, !.age = age] /\ since \in Nat
      BY <1>1, <2>1 DEF Older
    <2> HIDE DEF since, new
    <2>3. /\ new \in FlushType /\ new.phase = fl.phase /\ new.timed = fl.timed /\ new.ticks = fl.ticks
          /\ new.done = fl.done /\ new.before = fl.before /\ new.snap = fl.snap
          /\ new.since = since /\ new.age = age
      BY <1>1, <2>1, <2>2 DEF FlushType
    <2> QED
      BY <2>3 DEF age, since
  <1>4. fl.phase \in {"polling", "draining"}
    BY DEF HasTimer
  <1> HIDE DEF new
  <1>5. FlushKnows(new)
    BY <1>1, <1>3 DEF FlushKnows
  <1>6. CASE ~fl.timed
    <2>1. InTime(new)
      BY <1>1, <1>3, <1>4, <1>6 DEF InTime
    <2> QED
      BY <1>3, <1>5, <2>1 DEF FlushOK, new
  <1>7. CASE fl.timed /\ fl.phase = "polling"
    <2>1. fl.since < 1 + Lateness /\ PollInTime(fl)
      BY <1>1, <1>7 DEF Delay, InTime
    <2>2. PollInTime(new) /\ new.age <= Longest
      BY <1>1, <1>3, <1>7, <2>1, TimeFacts DEF PollInTime
    <2>3. InTime(new)
      BY <1>3, <1>7, <2>2 DEF InTime
    <2> QED
      BY <1>3, <1>5, <2>3 DEF FlushOK, new
  <1>8. CASE fl.timed /\ fl.phase = "draining"
    <2>1. fl.since < Timeout + Lateness /\ DrainInTime(fl)
      BY <1>1, <1>8 DEF Delay, InTime
    <2>2. DrainInTime(new) /\ new.age <= Longest
      BY <1>1, <1>3, <1>8, <2>1, TimeFacts DEF DrainInTime
    <2>3. InTime(new)
      BY <1>3, <1>8, <2>2 DEF InTime
    <2> QED
      BY <1>3, <1>5, <2>3 DEF FlushOK, new
  <1> QED
    BY <1>1, <1>4, <1>6, <1>7, <1>8 DEF FlushType

(* A step of flush() keeps the invariant if it keeps each flush right.     *)
LEMMA FlushSteps ==
    ASSUME IInv, UNCHANGED <<stage, marks, taskVars, outcomes, reportVars, requests>>,
           enabled' \in BOOLEAN, flush' \in [Flushes -> FlushType],
           \A f \in Flushes : FlushOK(flush'[f])
    PROVE  IInv'
  <1>1. TypeOK'
    BY DEF IInv, TypeOK, taskVars, reportVars, marks
  <1>2. (\A e \in Events : Fits(e))' /\ RequestsFit' /\ CountIsRight' /\ OutcomesConserved'
    BY DEF IInv, Fits, RequestsFit, CountIsRight, Counted, UnderWay, OutcomesConserved, taskVars,
           reportVars, marks
  <1>3. UnderWay' = UnderWay
    BY DEF UnderWay, taskVars
  <1>4. \A f \in Flushes : FlushKnows(flush[f])' /\ InTime(flush[f])'
    BY <1>3 DEF FlushOK, FlushKnows, InTime, PollInTime, DrainInTime
  <1> QED
    BY <1>1, <1>2, <1>4 DEF IInv

LEMMA CallFlushKeepsInvariant ==
    ASSUME IInv, NEW f \in Flushes, NEW timed \in BOOLEAN, CallFlush(f, timed)
    PROVE  IInv'
  <1> DEFINE new == [phase |-> "polling", timed |-> timed, ticks |-> 0, since |-> 0,
                     age |-> 0, done |-> FALSE, snap |-> {}, before |-> Captured]
  <1>1. new \in FlushType /\ FlushKnows(new)
    BY DEF FlushType, FlushKnows, Captured
  <1>2. InTime(new)
    BY TimeFacts DEF InTime, PollInTime
  <1>3. flush' = [flush EXCEPT ![f] = new]
        /\ UNCHANGED <<stage, marks, taskVars, outcomes, reportVars, requests, enabled>>
    BY DEF CallFlush
  <1>4. enabled' \in BOOLEAN /\ flush \in [Flushes -> FlushType]
    BY <1>3 DEF IInv, TypeOK
  <1> HIDE DEF new
  <1>5. flush' \in [Flushes -> FlushType] /\ \A g \in Flushes : FlushOK(flush'[g])
    BY <1>1, <1>2, <1>3, <1>4, FlushesAreOK DEF FlushOK
  <1> QED
    BY <1>3, <1>4, <1>5, FlushSteps

LEMMA TimerFiresKeepsInvariant ==
    ASSUME IInv, NEW f \in Flushes, TimerFires(f)
    PROVE  IInv'
  <1> DEFINE fl == flush[f]
             new == IF fl.phase = "polling" THEN Poll(fl) ELSE [fl EXCEPT !.phase = "false"]
  <1>1. /\ flush' = [flush EXCEPT ![f] = new] /\ enabled' \in BOOLEAN /\ flush \in [Flushes -> FlushType]
        /\ HasTimer(fl) /\ fl.since >= Delay(fl)
        /\ UNCHANGED <<stage, marks, taskVars, outcomes, reportVars, requests>>
    BY DEF TimerFires, IInv, TypeOK
  <1>2. FlushOK(fl)
    BY FlushesAreOK
  <1> HIDE DEF fl
  <1>3. FlushOK(new)
    BY <1>1, <1>2, PollFacts, DrainTimerFacts DEF HasTimer, Delay
  <1> HIDE DEF new
  <1>4. flush' \in [Flushes -> FlushType] /\ \A g \in Flushes : FlushOK(flush'[g])
    BY <1>1, <1>3, FlushesAreOK DEF FlushOK
  <1> QED
    BY <1>1, <1>4, FlushSteps

LEMMA TickKeepsInvariant == IInv /\ Tick => IInv'
  <1> SUFFICES ASSUME IInv, Tick PROVE IInv'
    OBVIOUS
  <1> DEFINE new(f) == IF HasTimer(flush[f]) THEN Older(flush[f]) ELSE flush[f]
  <1>1. ASSUME NEW f \in Flushes PROVE FlushOK(new(f))
    BY FlushesAreOK, OlderFacts DEF Tick
  <1>2. /\ flush' = [f \in Flushes |-> new(f)] /\ enabled' \in BOOLEAN
        /\ UNCHANGED <<stage, marks, taskVars, outcomes, reportVars, requests>>
    BY DEF Tick, IInv, TypeOK
  <1> HIDE DEF new
  <1>3. flush' \in [Flushes -> FlushType] /\ \A f \in Flushes : FlushOK(flush'[f])
    BY <1>1, <1>2 DEF FlushOK
  <1> QED
    BY <1>2, <1>3, FlushSteps

LEMMA FlushDrainedKeepsInvariant ==
    ASSUME IInv, NEW f \in Flushes, FlushDrained(f)
    PROVE  IInv'
  <1> DEFINE fl == flush[f]
             new == [fl EXCEPT !.phase = IF fl.done THEN "true" ELSE "false"]
  <1>1. /\ flush' = [flush EXCEPT ![f] = new] /\ enabled' \in BOOLEAN /\ flush \in [Flushes -> FlushType]
        /\ fl.phase = "draining" /\ fl.snap \cap requests = {}
        /\ UNCHANGED <<stage, marks, taskVars, outcomes, reportVars, requests>>
    BY DEF FlushDrained, Drained, IInv, TypeOK
  <1>2. fl \in FlushType /\ FlushKnows(fl) /\ InTime(fl) /\ fl.age \in Nat
    BY DEF IInv, TypeOK, FlushType
  <1>3. \A e \in fl.before : e \in requests <=> stage[e] = "sending"
    BY <1>2 DEF FlushType, IInv, RequestsFit
  <1> HIDE DEF fl
  <1>4. /\ new \in FlushType /\ new.phase = IF fl.done THEN "true" ELSE "false"
        /\ new.timed = fl.timed /\ new.age = fl.age /\ new.done = fl.done /\ new.before = fl.before
    BY <1>2 DEF FlushType
  <1> HIDE DEF new
  <1>5. FlushKnows(new)
    BY <1>1, <1>2, <1>3, <1>4 DEF FlushKnows
  <1>6. InTime(new)
    BY <1>1, <1>2, <1>4, TimeFacts DEF InTime, DrainInTime
  <1>7. flush' \in [Flushes -> FlushType] /\ \A g \in Flushes : FlushOK(flush'[g])
    BY <1>1, <1>4, <1>5, <1>6, FlushesAreOK DEF FlushOK
  <1> QED
    BY <1>1, <1>7, FlushSteps

-----------------------------------------------------------------------------
LEMMA InitHolds == Init => IInv
  <1> SUFFICES ASSUME Init PROVE IInv
    OBVIOUS
  <1>1. TypeOK
    BY DEF Init, TypeOK, Counts, NoCounts, FlushType
  <1>2. \A e \in Events : Fits(e)
    BY DEF Init, Fits, Running
  <1>3. RequestsFit
    BY DEF Init, RequestsFit
  <1>4. CountIsRight
    <2>1. Counted = {}
      BY DEF Init, Counted, UnderWay
    <2> QED
      BY <2>1, FS_EmptySet DEF Init, CountIsRight
  <1>5. OutcomesConserved
    <2>1. \A x \in Reasons : {e \in Events : stage[e] = x} = {} /\ {r \in Reports : report[r] = x} = {}
      BY DEF Init, Reasons
    <2>2. \A x \in Reasons : outcomes[x] = 0 /\ told[x] = 0
      BY DEF Init, NoCounts
    <2> QED
      BY <2>1, <2>2, FS_EmptySet DEF OutcomesConserved
  <1>6. \A f \in Flushes : FlushKnows(flush[f]) /\ InTime(flush[f])
    BY ClientAssumption DEF Init, FlushKnows, InTime
  <1> QED
    BY <1>1, <1>2, <1>3, <1>4, <1>5, <1>6 DEF IInv

LEMMA NextKeepsInvariant == IInv /\ [Next]_vars => IInv'
  <1> SUFFICES ASSUME IInv, [Next]_vars PROVE IInv'
    OBVIOUS
  <1>1. ASSUME NEW e \in Events, Capture(e) PROVE IInv'
    <2>1. stage \in [Events -> {"new"} \cup Running \cup Ends]
      BY DEF IInv, TypeOK
    <2>2. internal' \in SUBSET Events /\ UNCHANGED <<native, reportVars, requests, enabled, flush>>
      BY <1>1 DEF Capture, marks, IInv, TypeOK
    <2>3. Move(e) /\ TypeOK'
      BY <1>1, <2>1, <2>2, CaptureMoves DEF Capture
    <2> QED
      BY <2>3, MoveKeepsInvariant
  <1>2. ASSUME NEW e \in Events, Step(e) \/ Resume(e) \/ Microtask(e) \/ RequestEnds(e) PROVE IInv'
    BY <1>2, StepMoves, ResumeMoves, MicrotaskMoves, RequestEndsMoves, MoveKeepsInvariant
  <1>3. ASSUME NEW r \in Reports, SendReport(r) \/ ReportEnds(r) PROVE IInv'
    BY <1>3, SendReportKeepsInvariant, ReportEndsKeepsInvariant
  <1>4. ASSUME NEW f \in Flushes,
               FlushDrained(f) \/ TimerFires(f) \/ \E timed \in BOOLEAN : CallFlush(f, timed)
        PROVE  IInv'
    BY <1>4, FlushDrainedKeepsInvariant, TimerFiresKeepsInvariant, CallFlushKeepsInvariant
  <1>5. CASE Tick
    BY <1>5, TickKeepsInvariant
  <1>6. CASE UNCHANGED vars
    BY <1>6 DEF vars, IInv, TypeOK, Fits, RequestsFit, CountIsRight, Counted, UnderWay,
                OutcomesConserved, FlushKnows, InTime, PollInTime, DrainInTime
  <1> QED
    BY <1>1, <1>2, <1>3, <1>4, <1>5, <1>6 DEF Next

THEOREM Invariance == Spec => []IInv
  BY InitHolds, NextKeepsInvariant, PTL DEF Spec

(* The variables keep their types; the counter never goes below zero. *)
THEOREM TypeCorrect == Spec => []TypeOK
  BY Invariance, PTL DEF IInv

(* client.ts:1303-1309, 1533-1551: however captures nest, overflow,        *)
(* suspend and fail, and however late each reaction runs, the counter      *)
(* flush() polls is the number of pipelines under way.                     *)
THEOREM CounterIsExact == Spec => []NumProcessingIsExact
  <1>1. IInv => NumProcessingIsExact
    <2> SUFFICES ASSUME IInv PROVE NumProcessingIsExact
      OBVIOUS
    <2>1. ASSUME TurnIsOver PROVE Counted = UnderWay
      BY <2>1 DEF TurnIsOver, WaitsForAnswer, IInv, Fits, TypeOK, Counted, UnderWay, Running
    <2> QED
      BY <2>1 DEF NumProcessingIsExact, IInv, CountIsRight, Counted
  <1> QED
    BY <1>1, Invariance, PTL

(* client.ts:604-619, 1556-1595: no dropped event is told twice or         *)
(* forgotten, whenever reports are sent and whatever becomes of them.      *)
THEOREM NothingUntold == Spec => []OutcomesConserved
  BY Invariance, PTL DEF IInv

(* client.ts:442-458: what a flush says that answers true.                 *)
THEOREM TrueIsTrue == Spec => []FlushTrueCovers
  <1>1. IInv => FlushTrueCovers
    BY DEF IInv, FlushKnows, FlushTrueCovers
  <1> QED
    BY <1>1, Invariance, PTL

(* client.ts:454-455, 1303-1309: however late timers fire, a flush takes   *)
(* the iterations of its poll and the drain at most, and gives up only     *)
(* when its timeout has passed.                                            *)
THEOREM TimeoutsAreKept == Spec => []FlushKeepsItsTime
  <1>1. IInv => FlushKeepsItsTime
    BY DEF IInv, InTime, FlushKeepsItsTime
  <1> QED
    BY <1>1, Invariance, PTL

-----------------------------------------------------------------------------
(* The promise buffer: which pipelines are on the stack and which in the   *)
(* buffer.  Only the outermost can have been in the buffer before, and     *)
(* only a native promise stays there when it has settled.                  *)

FramesFit ==
    /\ \A i \in 1..Len(frames) :
          status[frames[i]] = "producing" \/ (i = 1 /\ status[frames[i]] = "pending")
    /\ \A i, j \in 1..Len(frames) : frames[i] = frames[j] => i = j
    /\ \A e \in Events : status[e] = "pending" => e \in buffer
    /\ \A e \in buffer : status[e] = "pending" \/ (status[e] = "fulfilled" /\ e \in native \cap Direct)

BufferSteps == PB!Next \/ UNCHANGED PB!vars

(* Producing without the case distinction. *)
LEMMA ProducingFacts ==
    ASSUME IInv, FramesFit
    PROVE  /\ Len(frames) \in Nat
           /\ \A i \in 1..Len(frames) : frames[i] \in Events
           /\ Producing \in Seq(Events) /\ Len(Producing) \in Nat /\ Len(Producing) <= Len(frames)
           /\ frames = <<>> => Producing = <<>>
           /\ frames # <<>> => Len(frames) # 0 /\ 1 \in 1..Len(frames)
  <1>1. frames \in Seq(Events)
    BY DEF IInv, TypeOK
  <1>2. Len(frames) \in Nat /\ \A i \in 1..Len(frames) : frames[i] \in Events
    BY <1>1, LenProperties, ElementOfSeq
  <1>3. CASE frames = <<>>
    BY <1>1, <1>2, <1>3 DEF Producing, Idle
  <1>4. CASE frames # <<>>
    <2>1. Len(frames) \in Nat \ {0} /\ Tail(frames) \in Seq(Events) /\ Len(Tail(frames)) = Len(frames) - 1
      BY <1>1, <1>4, TailFacts
    <2>2. Len(frames) - 1 \in Nat /\ Len(frames) - 1 <= Len(frames) /\ 1 \in 1..Len(frames)
      BY <2>1
    <2> QED
      BY <1>1, <1>2, <2>1, <2>2 DEF Producing
  <1> QED
    BY <1>2, <1>3, <1>4

(* The instance has its own name for it. *)
LEMMA SameCardinality == ASSUME NEW s PROVE PB!Cardinality(s) = Cardinality(s)
  BY Zenon DEF PB!Cardinality, Cardinality

(* A producer is entered. *)
LEMMA PushIsStart ==
    ASSUME IInv, FramesFit, NEW x \in Events, status[x] = "new",
           Cardinality(buffer) < BufferSize, Len(frames) < MaxDepth,
           status' = [status EXCEPT ![x] = "producing"], frames' = Append(frames, x),
           UNCHANGED <<buffer, native>>
    PROVE  FramesFit' /\ PB!Start(x)
  <1> USE DEF IInv, TypeOK
  <1>1. /\ Len(frames) \in Nat
        /\ Len(frames') = Len(frames) + 1
        /\ \A i \in 1..Len(frames) : frames'[i] = frames[i]
        /\ frames'[Len(frames) + 1] = x
    BY PushFacts
  <1>2. \A i \in 1..Len(frames) : frames[i] \in Events /\ frames[i] # x
    BY ProducingFacts DEF FramesFit
  <1>3. status'[x] = "producing" /\ \A e \in Events \ {x} : status'[e] = status[e]
    OBVIOUS
  <1>4. \A i \in 1..Len(frames') : i \in 1..Len(frames) \/ i = Len(frames) + 1
    BY <1>1
  <1>5. FramesFit'
    <2>1. \A i \in 1..Len(frames') :
             status'[frames'[i]] = "producing" \/ (i = 1 /\ status'[frames'[i]] = "pending")
      BY <1>1, <1>2, <1>3, <1>4 DEF FramesFit
    <2>2. \A i, j \in 1..Len(frames') : frames'[i] = frames'[j] => i = j
      BY <1>1, <1>2, <1>4 DEF FramesFit
    <2>3. /\ \A e \in Events : status'[e] = "pending" => e \in buffer'
          /\ \A e \in buffer' :
                status'[e] = "pending" \/ (status'[e] = "fulfilled" /\ e \in native' \cap Direct)
      BY <1>3 DEF FramesFit
    <2> QED
      BY <2>1, <2>2, <2>3 DEF FramesFit
  <1>6. Producing' = Append(Producing, x)
    <2>1. CASE frames = <<>>
      <3>1. frames' = <<x>> /\ frames'[1] = x /\ frames' # <<>>
        BY <2>1
      <3> QED
        BY <1>3, <2>1, <3>1 DEF Producing, Idle
    <2>2. CASE frames # <<>>
      <3>1. 1 \in 1..Len(frames) /\ frames' # <<>>
        BY <2>2, ProducingFacts
      <3>2. status'[frames'[1]] = status[frames[1]]
        BY <1>1, <1>2, <1>3, <3>1
      <3>3. Tail(Append(frames, x)) = Append(Tail(frames), x)
        BY <2>2
      <3> QED
        BY <2>2, <3>1, <3>2, <3>3 DEF Producing, Idle
    <2> QED
      BY <2>1, <2>2
  <1>7. Len(Producing) < MaxDepth
    BY <1>1, ProducingFacts, ClientAssumption
  <1>8. PB!IsReady
    BY SameCardinality DEF PB!IsReady
  <1> QED
    BY <1>5, <1>6, <1>7, <1>8 DEF PB!Start

(* What lies below the top, and how the top is popped off what add() waits *)
(* for.                                                                    *)
LEMMA BelowTheTop ==
    ASSUME IInv, FramesFit, NEW e \in Events, IsTop(e),
           frames' = Popped
    PROVE  /\ Len(frames) \in Nat \ {0} /\ frames[Len(frames)] = e /\ frames # <<>>
           /\ frames' \in Seq(Events) /\ Len(frames') = Len(frames) - 1 /\ Len(frames') \in Nat
           /\ \A i \in 1..Len(frames') : i \in 1..Len(frames) /\ frames'[i] = frames[i] /\ frames[i] # e
  <1>1. frames # <<>> /\ frames \in Seq(Events) /\ frames[Len(frames)] = e
    BY DEF IsTop, Idle, Top, IInv, TypeOK
  <1>2. /\ Len(frames) \in Nat \ {0}
        /\ frames' \in Seq(Events) /\ Len(frames') = Len(frames) - 1
        /\ \A i \in 1..Len(frames') : frames'[i] = frames[i]
    BY <1>1, PopFacts DEF Popped
  <1>3. /\ Len(frames) - 1 \in Nat /\ Len(frames) \in 1..Len(frames)
        /\ \A i \in 1..(Len(frames) - 1) : i \in 1..Len(frames) /\ i # Len(frames)
    BY <1>2
  <1>4. \A i \in 1..Len(frames') : i \in 1..Len(frames) /\ frames[i] # e
    BY <1>1, <1>2, <1>3 DEF FramesFit
  <1> QED
    BY <1>1, <1>2, <1>3, <1>4

LEMMA PopKeepsFrames ==
    ASSUME IInv, FramesFit, NEW e \in Events, IsTop(e),
           NEW s \in {"fulfilled", "rejected", "thrown", "pending"}, native \subseteq native',
           frames' = Popped, status' = [status EXCEPT ![e] = s],
           buffer' = IF s = "pending" THEN buffer \cup {e} ELSE buffer \ {e}
    PROVE  FramesFit'
  <1>1. status'[e] = s /\ \A x \in Events \ {e} : status'[x] = status[x]
    BY DEF IInv, TypeOK
  <1>2. \A i \in 1..Len(frames') :
           i \in 1..Len(frames) /\ frames'[i] = frames[i] /\ frames[i] # e /\ frames[i] \in Events
    BY BelowTheTop, ProducingFacts
  <1>3. \A i \in 1..Len(frames') :
           status'[frames'[i]] = "producing" \/ (i = 1 /\ status'[frames'[i]] = "pending")
    BY <1>1, <1>2 DEF FramesFit
  <1>4. \A i, j \in 1..Len(frames') : frames'[i] = frames'[j] => i = j
    BY <1>2 DEF FramesFit
  <1>5. /\ \A x \in Events : status'[x] = "pending" => x \in buffer'
        /\ \A x \in buffer' :
              status'[x] = "pending" \/ (status'[x] = "fulfilled" /\ x \in native' \cap Direct)
    BY <1>1 DEF FramesFit, IInv, TypeOK
  <1> QED
    BY <1>3, <1>4, <1>5 DEF FramesFit

LEMMA PopIsReturn ==
    ASSUME IInv, FramesFit, NEW e \in Events, IsTop(e),
           NEW s \in {"fulfilled", "rejected", "thrown", "pending"},
           s = "thrown" => status[e] = "producing",
           frames' = Popped, status' = [status EXCEPT ![e] = s],
           buffer' = IF s = "pending" THEN buffer \cup {e} ELSE buffer \ {e}
    PROVE  BufferSteps
  <1> DEFINE n == Len(frames)
             bottom == frames[1]
  <1>1. /\ n \in Nat \ {0} /\ frames[n] = e /\ frames # <<>>
        /\ frames' \in Seq(Events) /\ Len(frames') = n - 1 /\ Len(frames') \in Nat
        /\ \A i \in 1..Len(frames') : i \in 1..n /\ frames'[i] = frames[i] /\ frames[i] # e
    BY BelowTheTop
  <1>2. status'[e] = s /\ \A x \in Events \ {e} : status'[x] = status[x]
    BY DEF IInv, TypeOK
  <1>3. frames \in Seq(Events)
    BY DEF IInv, TypeOK
  <1>4. n # 1 => /\ n - 1 \in Nat \ {0} /\ 1 \in 1..(n - 1) /\ frames' # <<>>
                 /\ frames'[1] = bottom /\ status'[bottom] = status[bottom] /\ status[e] = "producing"
    <2> SUFFICES ASSUME n # 1
                 PROVE  /\ n - 1 \in Nat \ {0} /\ 1 \in 1..(n - 1) /\ frames' # <<>>
                        /\ frames'[1] = bottom /\ status'[bottom] = status[bottom] /\ status[e] = "producing"
      OBVIOUS
    <2>1. n - 1 \in Nat \ {0} /\ 1 \in 1..(n - 1) /\ n \in 1..n /\ 1 \in 1..n
      BY <1>1
    <2>2. frames'[1] = bottom /\ bottom # e /\ bottom \in Events
      BY <1>1, <2>1, ProducingFacts
    <2>3. frames' # <<>>
      BY <1>1, <2>1, EmptySeq
    <2>4. status[e] = "producing"
      BY <1>1, <2>1 DEF FramesFit
    <2> QED
      BY <1>2, <2>1, <2>2, <2>3, <2>4
  <1>5. n = 1 => frames' = <<>> /\ bottom = e
    BY <1>1, EmptySeq
  <1>6. CASE n = 1 /\ status[bottom] = "pending"
    <2>1. Producing = <<>> /\ Producing' = <<>>
      <3>1. Tail(frames) \in Seq(Events) /\ Len(Tail(frames)) = 0
        BY <1>1, <1>3, <1>6, TailFacts
      <3>2. Tail(frames) = <<>>
        BY <3>1, EmptySeq
      <3> QED
        BY <1>1, <1>5, <1>6, <3>2 DEF Producing, Idle
    <2>2. e \in buffer /\ status[e] = "pending"
      BY <1>5, <1>6 DEF FramesFit
    <2>3. CASE s = "pending"
      <3>1. buffer' = buffer /\ status' = status
        BY <2>2, <2>3 DEF IInv, TypeOK
      <3> QED
        BY <2>1, <3>1 DEF BufferSteps, PB!vars
    <2>4. CASE s # "pending"
      <3>1. s \in PB!Settled /\ buffer' = buffer \ {e}
        BY <1>5, <1>6, <2>4 DEF PB!Settled
      <3>2. PB!Settle(e, s)
        BY <2>1, <2>2, <3>1 DEF PB!Settle
      <3> QED
        BY <3>1, <3>2 DEF BufferSteps, PB!Next
    <2> QED
      BY <2>3, <2>4
  <1>7. CASE ~(n = 1 /\ status[bottom] = "pending")
    <2>1. status[e] = "producing" /\ e \notin buffer
      <3>0. status[e] = "producing" => e \notin buffer
        BY DEF FramesFit
      <3>1. 1 \in 1..n
        BY <1>1
      <3>2. n = 1 => status[e] = "producing"
        BY <1>5, <1>7, <3>1 DEF FramesFit
      <3> QED
        BY <1>4, <3>0, <3>2
    <2>2. /\ Producing # <<>> /\ e = Producing[Len(Producing)]
          /\ Producing' = SubSeq(Producing, 1, Len(Producing) - 1)
      <3>1. CASE status[bottom] = "pending"
        <4>1. n # 1
          BY <1>7, <3>1
        <4>2. Producing = Tail(frames) /\ Producing' = Tail(frames')
          BY <1>1, <1>4, <3>1, <4>1 DEF Producing, Idle
        <4>3. /\ Tail(frames) \in Seq(Events) /\ Len(Tail(frames)) = n - 1
              /\ \A i \in 1..(n - 1) : Tail(frames)[i] = frames[i + 1]
          BY <1>1, <1>3, TailFacts
        <4>4. Tail(frames) # <<>> /\ n - 1 \in 1..(n - 1) /\ n - 1 + 1 = n
          <5>1. n - 1 \in Nat \ {0} /\ Len(Tail(frames)) # 0
            BY <1>4, <4>1, <4>3
          <5>2. Tail(frames) # <<>>
            BY <4>3, <5>1, EmptySeq
          <5>3. n \in Nat /\ \A k \in Nat \ {0} : k \in 1..k
            BY <1>1
          <5> HIDE DEF n
          <5> QED
            BY <5>1, <5>2, <5>3
        <4>5. Tail(frames') = SubSeq(Tail(frames), 1, n - 1 - 1)
          <5>1. /\ Tail(frames') \in Seq(Events) /\ Len(Tail(frames')) = n - 1 - 1
                /\ \A i \in 1..Len(Tail(frames')) : Tail(frames')[i] = frames'[i + 1]
            BY <1>1, <1>4, <4>1, TailFacts
          <5>2. /\ SubSeq(Tail(frames), 1, n - 1 - 1) \in Seq(Events)
                /\ Len(SubSeq(Tail(frames), 1, n - 1 - 1)) = n - 1 - 1
                /\ \A i \in 1..(n - 1 - 1) : SubSeq(Tail(frames), 1, n - 1 - 1)[i] = Tail(frames)[i]
            BY <4>3, <4>4, PopFacts
          <5>3. \A i \in 1..(n - 1 - 1) : i + 1 \in 1..Len(frames') /\ i \in 1..(n - 1)
            BY <1>1
          <5>4. \A i \in 1..(n - 1 - 1) :
                   Tail(frames')[i] = SubSeq(Tail(frames), 1, n - 1 - 1)[i]
            BY <1>1, <4>3, <5>1, <5>2, <5>3
          <5> QED
            BY <5>1, <5>2, <5>4, SeqEqual
        <4> QED
          BY <1>1, <4>2, <4>3, <4>4, <4>5
      <3>2. CASE status[bottom] # "pending"
        <4>1. Producing = frames
          BY <3>2 DEF Producing
        <4>2. Producing' = frames'
          <5>1. CASE n = 1
            BY <1>5, <5>1 DEF Producing, Idle
          <5>2. CASE n # 1
            BY <1>4, <3>2, <5>2 DEF Producing
          <5> QED
            BY <5>1, <5>2
        <4> QED
          BY <1>1, <4>1, <4>2
      <3> QED
        BY <3>1, <3>2
    <2>3. CASE s = "thrown"
      <3>1. PB!Throw(e)
        BY <2>1, <2>2, <2>3 DEF PB!Throw, PB!Idle, PB!Top, PB!Pop
      <3> QED
        BY <3>1 DEF BufferSteps, PB!Next, PB!ProducerReturns
    <2>4. CASE s # "thrown"
      <3>1. s \in PB!Settled \cup {"pending"}
        BY <2>4 DEF PB!Settled
      <3>2. PB!Store(e, s)
        BY <2>1, <2>2, <2>4 DEF PB!Store, PB!Idle, PB!Top, PB!Pop, PB!Settled
      <3> QED
        BY <3>1, <3>2 DEF BufferSteps, PB!Next, PB!ProducerReturns
    <2> QED
      BY <2>3, <2>4
  <1> QED
    BY <1>6, <1>7

(* What a step that leaves the stack, the promises and the buffer alone    *)
(* does for them.                                                          *)
LEMMA NothingReturns ==
    ASSUME UNCHANGED <<status, buffer, frames, native>>, FramesFit
    PROVE  FramesFit' /\ BufferSteps
  <1>1. Producing' = Producing
    BY DEF Producing, Idle
  <1>2. FramesFit'
    BY DEF FramesFit
  <1> QED
    BY <1>1, <1>2 DEF BufferSteps, PB!vars

(* A part behind a native promise ends: the stack is empty again. *)
LEMMA NativeLeaves ==
    ASSUME IInv, FramesFit, NEW e \in native, IsTop(e), frames' = Popped,
           UNCHANGED <<status, buffer, native>>
    PROVE  FramesFit' /\ BufferSteps
  <1>1. e \in Events /\ status[e] # "producing"
    BY DEF IInv, TypeOK, Fits
  <1>2. /\ Len(frames) \in Nat \ {0} /\ frames[Len(frames)] = e /\ frames # <<>>
        /\ frames' \in Seq(Events) /\ Len(frames') = Len(frames) - 1
    BY <1>1, BelowTheTop
  <1>3. Len(frames) = 1 /\ status[frames[1]] = "pending"
    <2>1. Len(frames) \in 1..Len(frames)
      BY <1>2
    <2> QED
      BY <1>1, <1>2, <2>1 DEF FramesFit
  <1>4. frames' = <<>> /\ Len(frames') = 0
    BY <1>2, <1>3, EmptySeq
  <1>5. Tail(frames) = <<>>
    <2>1. Tail(frames) \in Seq(Events) /\ Len(Tail(frames)) = 0
      BY <1>2, <1>3, TailFacts DEF IInv, TypeOK
    <2> QED
      BY <2>1, EmptySeq
  <1>6. Producing' = <<>> /\ Producing = <<>>
    BY <1>2, <1>3, <1>4, <1>5 DEF Producing, Idle
  <1>7. FramesFit'
    BY <1>4 DEF FramesFit
  <1> QED
    BY <1>6, <1>7 DEF BufferSteps, PB!vars

(* A pipeline of the buffer goes on, from the bottom of the stack. *)
LEMMA RunsAgain ==
    ASSUME FramesFit, NEW e \in Events, Idle, status[e] = "pending", frames' = <<e>>,
           UNCHANGED <<status, buffer, native>>
    PROVE  FramesFit' /\ BufferSteps
  <1>1. Len(frames') = 1 /\ frames'[1] = e /\ frames' # <<>> /\ Tail(frames') = <<>>
    OBVIOUS
  <1>2. FramesFit'
    <2>1. \A i \in 1..Len(frames') : i = 1
      BY <1>1
    <2> QED
      BY <1>1, <2>1 DEF FramesFit
  <1>3. Producing' = Producing
    BY <1>1 DEF Producing, Idle
  <1> QED
    BY <1>2, <1>3 DEF BufferSteps, PB!vars

LEMMA CaptureFits ==
    ASSUME IInv, FramesFit, NEW x \in Events, stage[x] = "new", Len(frames) < MaxDepth,
           NEW st, CaptureInto(x, st), native' = native
    PROVE  FramesFit' /\ BufferSteps
  <1> USE DEF IInv, TypeOK
  <1>1. status[x] = "new"
    BY DEF Fits
  <1>2. CASE Enter(x)
    <2>1. FramesFit' /\ PB!Start(x)
      BY <1>1, <1>2, PushIsStart DEF Enter
    <2> QED
      BY <2>1 DEF BufferSteps, PB!Next
  <1>3. CASE Overflow(x)
    <2>1. /\ Cardinality(buffer) >= BufferSize /\ Cardinality(buffer) \in Nat
          /\ status' = [status EXCEPT ![x] = "refused"] /\ frames' = frames /\ buffer' = buffer
      BY <1>3, FS_Subset, FS_CardinalityType, ClientAssumption DEF Overflow
    <2>2. status'[x] = "refused" /\ \A e \in Events \ {x} : status'[e] = status[e]
      BY <2>1
    <2>3. \A i \in 1..Len(frames) : frames[i] \in Events /\ frames[i] # x
      BY <1>1, ProducingFacts DEF FramesFit
    <2>4. FramesFit'
      BY <1>1, <2>1, <2>2, <2>3 DEF FramesFit
    <2>5. Producing' = Producing
      BY <2>1, <2>2, <2>3, ProducingFacts DEF Producing, Idle
    <2>6. ~PB!IsReady
      BY <2>1, SameCardinality, ClientAssumption DEF PB!IsReady
    <2>7. PB!Refuse(x)
      BY <1>1, <2>1, <2>5, <2>6 DEF PB!Refuse
    <2> QED
      BY <2>4, <2>7 DEF BufferSteps, PB!Next
  <1> QED
    BY <1>2, <1>3 DEF CaptureInto

(* A pipeline leaves the stack. *)
LEMMA ReturnFits ==
    ASSUME IInv, FramesFit, NEW e \in Events, IsTop(e),
           NEW s \in {"fulfilled", "rejected", "thrown", "pending"},
           s = "thrown" => status[e] = "producing", native \subseteq native',
           frames' = Popped, status' = [status EXCEPT ![e] = s],
           buffer' = IF s = "pending" THEN buffer \cup {e} ELSE buffer \ {e}
    PROVE  FramesFit' /\ BufferSteps
  BY PopKeepsFrames, PopIsReturn

LEMMA EndFits ==
    ASSUME IInv, FramesFit, NEW e \in Events, IsTop(e), NEW end, End(e, end), native' = native
    PROVE  FramesFit' /\ BufferSteps
  <1>1. CASE e \in native /\ frames' = Popped /\ UNCHANGED <<status, buffer>>
    BY <1>1, NativeLeaves
  <1>2. CASE Settle(e, "fulfilled")
    BY <1>2, ReturnFits DEF Settle
  <1> QED
    BY <1>1, <1>2 DEF End

LEMMA AdvanceFits ==
    ASSUME IInv, FramesFit, NEW e \in Events, NEW from, NEW to, Advance(e, from, to)
    PROVE  FramesFit' /\ BufferSteps
  <1>1. IsTop(e) /\ UNCHANGED <<status, buffer, native>>
    BY DEF Advance, marks
  <1>2. CASE e \in native
    BY <1>1, <1>2, NativeLeaves DEF Advance
  <1>3. CASE e \notin native
    BY <1>1, <1>3, NothingReturns DEF Advance
  <1> QED
    BY <1>2, <1>3

LEMMA StepFits ==
    ASSUME IInv, FramesFit, NEW e \in Events, Step(e)
    PROVE  FramesFit' /\ BufferSteps
  <1>1. CASE \/ Build(e) \/ Prepared(e) \/ ProcessorReturnsNull(e) \/ BeforeSendReturns(e)
             \/ CallbackThrows(e)
    BY <1>1, AdvanceFits
       DEF Build, Prepared, ProcessorReturnsNull, BeforeSendReturns, CallbackThrows
  <1>2. CASE BuildFails(e) \/ ThrowInThen(e)
    BY <1>2, ReturnFits DEF BuildFails, ThrowInThen, Settle, marks
  <1>3. CASE ThrowSync(e)
    <2>1. status[e] = "producing"
      BY <1>3 DEF ThrowSync, IInv, Fits
    <2>2. buffer' = buffer \ {e} /\ native' = native
      BY <1>3, <2>1 DEF ThrowSync, FramesFit, marks
    <2> QED
      BY <1>3, <2>1, <2>2, ReturnFits DEF ThrowSync
  <1>4. CASE SampledOut(e) \/ ProcessorDrops(e) \/ BeforeSendDrops(e)
    BY <1>4, EndFits DEF SampledOut, ProcessorDrops, BeforeSendDrops, Drop, marks
  <1>5. CASE BeforeSendInvalid(e) \/ Fails(e)
    BY <1>5, EndFits DEF BeforeSendInvalid, Fails, marks
  <1>6. CASE SendAccepted(e) \/ SendRefused(e) \/ SendDisabled(e)
    BY <1>6, EndFits DEF SendAccepted, SendRefused, SendDisabled, ReadyToSend, marks
  <1>7. CASE CaptureError(e)
    <2>1. native' = native
      BY <1>7 DEF CaptureError
    <2>2. ASSUME NEW x \in Errors \ Direct, stage[x] = "new", Len(frames) < MaxDepth,
                 CaptureInto(x, [stage EXCEPT ![e] = "failing"])
          PROVE  FramesFit' /\ BufferSteps
      BY <2>1, <2>2, CaptureFits, ClientAssumption
    <2>3. CASE UNCHANGED taskVars
      BY <2>1, <2>3, NothingReturns DEF taskVars
    <2> QED
      BY <1>7, <2>2, <2>3 DEF CaptureError
  <1>8. CASE Suspend(e)
    BY <1>8, ReturnFits DEF Suspend
  <1> QED
    BY <1>1, <1>2, <1>3, <1>4, <1>5, <1>6, <1>7, <1>8 DEF Step

LEMMA MicrotaskFits ==
    ASSUME IInv, FramesFit, NEW e \in Events, Microtask(e)
    PROVE  FramesFit' /\ BufferSteps
  <1>1. frames = <<>> /\ Len(frames) = 0
    BY DEF Microtask, RunJob, NativeSettles, Remove, CountOff, Idle
  <1>2. ASSUME frames' = frames, NEW x \in Events, status' = [status EXCEPT ![x] = "fulfilled"] \/ status' = status,
               \A g \in Events : status'[g] = "pending" => g \in buffer',
               \A g \in buffer' : status'[g] = "pending" \/ (status'[g] = "fulfilled" /\ g \in native' \cap Direct)
        PROVE  FramesFit' /\ Producing = <<>> /\ Producing' = <<>>
    BY <1>1, <1>2 DEF FramesFit, Producing, Idle
  <1>3. CASE RunJob(e)
    <2>1. status[e] = "pending"
      BY <1>3 DEF RunJob, IInv, Fits
    <2> QED
      BY <1>3, <2>1, RunsAgain DEF RunJob, marks
  <1>4. CASE NativeSettles(e)
    <2>1. /\ status' = [status EXCEPT ![e] = "fulfilled"] /\ frames' = frames /\ status[e] = "pending"
          /\ status'[e] = "fulfilled" /\ \A g \in Events \ {e} : status'[g] = status[g]
      BY <1>4 DEF NativeSettles, IInv, TypeOK
    <2>2. \/ e \in native \cap Direct /\ native' = native /\ buffer' = buffer
          \/ native' = native \ {e} /\ buffer' = buffer \ {e}
      BY <1>4 DEF NativeSettles
    <2>3. /\ \A g \in Events : status'[g] = "pending" => g \in buffer'
          /\ \A g \in buffer' :
                status'[g] = "pending" \/ (status'[g] = "fulfilled" /\ g \in native' \cap Direct)
      BY <2>1, <2>2 DEF FramesFit, IInv, TypeOK
    <2>4. FramesFit' /\ Producing = <<>> /\ Producing' = <<>>
      BY <1>2, <2>1, <2>3
    <2>5. PB!Settle(e, "fulfilled") /\ "fulfilled" \in PB!Settled
      BY <2>1, <2>2, <2>4 DEF PB!Settle, PB!Settled
    <2> QED
      BY <2>4, <2>5 DEF BufferSteps, PB!Next
  <1>5. CASE Remove(e)
    <2>1. /\ UNCHANGED <<status, frames, native>> /\ buffer' = buffer \ {e} /\ status[e] = "fulfilled"
          /\ e \in buffer
      BY <1>5 DEF Remove, marks
    <2>2. FramesFit' /\ Producing = <<>> /\ Producing' = <<>>
      BY <1>2, <2>1 DEF FramesFit
    <2>3. PB!Remove(e)
      BY <2>1, <2>2 DEF PB!Remove, PB!Idle, PB!IsSettled, PB!Settled
    <2> QED
      BY <2>2, <2>3 DEF BufferSteps, PB!Next
  <1>6. CASE CountOff(e)
    <2>1. UNCHANGED <<status, buffer, frames>> /\ native' = native \ {e} /\ e \notin buffer
      BY <1>6 DEF CountOff
    <2>2. FramesFit' /\ Producing = <<>> /\ Producing' = <<>>
      BY <1>2, <2>1 DEF FramesFit
    <2> QED
      BY <2>1, <2>2 DEF BufferSteps, PB!vars
  <1> QED
    BY <1>3, <1>4, <1>5, <1>6 DEF Microtask

LEMMA NextFits == IInv /\ FramesFit /\ [Next]_vars => FramesFit' /\ BufferSteps
  <1> SUFFICES ASSUME IInv, FramesFit, [Next]_vars PROVE FramesFit' /\ BufferSteps
    OBVIOUS
  <1>1. ASSUME NEW e \in Events, Capture(e) PROVE FramesFit' /\ BufferSteps
    BY <1>1, CaptureFits DEF Capture, marks
  <1>2. ASSUME NEW e \in Events, Step(e) PROVE FramesFit' /\ BufferSteps
    BY <1>2, StepFits
  <1>3. ASSUME NEW e \in Events, Resume(e) PROVE FramesFit' /\ BufferSteps
    BY <1>3, RunsAgain DEF Resume, marks, IInv, Fits
  <1>4. ASSUME NEW e \in Events, Microtask(e) PROVE FramesFit' /\ BufferSteps
    BY <1>4, MicrotaskFits
  <1>5. CASE UNCHANGED taskVars /\ native' = native
    BY <1>5, NothingReturns DEF taskVars
  <1>6. ASSUME NEW e \in Events, RequestEnds(e) PROVE FramesFit' /\ BufferSteps
    BY <1>5, <1>6 DEF RequestEnds, marks
  <1>7. ASSUME NEW r \in Reports, SendReport(r) \/ ReportEnds(r) PROVE FramesFit' /\ BufferSteps
    BY <1>5, <1>7 DEF SendReport, ReportEnds, marks
  <1>8. ASSUME NEW f \in Flushes,
               FlushDrained(f) \/ TimerFires(f) \/ \E timed \in BOOLEAN : CallFlush(f, timed)
        PROVE  FramesFit' /\ BufferSteps
    BY <1>5, <1>8 DEF FlushDrained, TimerFires, CallFlush, marks
  <1>9. CASE Tick
    BY <1>5, <1>9 DEF Tick, marks
  <1>10. CASE UNCHANGED vars
    BY <1>5, <1>10 DEF vars, taskVars
  <1> QED
    BY <1>1, <1>2, <1>3, <1>4, <1>6, <1>7, <1>8, <1>9, <1>10 DEF Next

(* client.ts:1533-1551: however pipelines nest, suspend, resume and fail,  *)
(* and however late their reactions run, add() and its reactions are       *)
(* called as the promise buffer expects.                                   *)
THEOREM RefinesPromiseBuffer == Spec => UsesPromiseBuffer
  <1>1. Init => PB!Init /\ FramesFit
    <2> SUFFICES ASSUME Init PROVE PB!Init /\ FramesFit
      OBVIOUS
    <2>1. frames = <<>> /\ Len(frames) = 0 /\ Producing = <<>>
      BY DEF Init, Producing, Idle
    <2>2. FramesFit
      BY <2>1 DEF Init, FramesFit
    <2> QED
      BY <2>1, <2>2 DEF Init, PB!Init
  <1>2. IInv /\ FramesFit /\ [Next]_vars => FramesFit' /\ [PB!Next]_(PB!vars)
    BY NextFits DEF BufferSteps
  <1> QED
    BY <1>1, <1>2, Invariance, PTL DEF Spec, UsesPromiseBuffer, PB!Spec
=============================================================================
