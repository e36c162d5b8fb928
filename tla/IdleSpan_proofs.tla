-------------------------- MODULE IdleSpan_proofs --------------------------
(* Proofs about IdleSpan, for any children, timeouts and bound of the clock. *)
EXTENDS IdleSpan, DataFacts, TLAPS

(* Before the span ends the timer in the one handle is of the kind that the *)
(* activities call for, and due a whole timeout after the last start.       *)
TimerFits ==
    ~finished =>
        /\ idleTimer.kind = "idle" =>
              activities = {} /\ lastStart + IdleTimeout <= idleTimer.due
        /\ idleTimer.kind = "child" =>
              activities # {} /\ lastStart + ChildSpanTimeout <= idleTimer.due

(* Children that ended have the end they were given. *)
EndsAreGiven == \A c \in Children : status[c] = "ended" => endedAt[c] \in Given

(* Who is below the idle span is below one of its own children. *)
BranchesAreTops ==
    \A c \in Children : /\ branch[branch[c]] = branch[c]
                        /\ status[branch[c]] = "new" => branch[c] = c /\ status[c] = "new"

ReasonIsGivenAtTheEnd == ~finished => finishReason = "none"

CancelledAtTheEnd == ~finished => \A c \in Children : status[c] # "cancelled"

StartIsPast == lastStart <= now

SInv ==
    /\ EndsAreGiven
    /\ BranchesAreTops
    /\ StartIsPast
    /\ ReasonIsGivenAtTheEnd
    /\ CancelledAtTheEnd
    /\ TimerFits
    /\ NeverWithoutTimer
    /\ KeptChildrenFit

IInv == TypeOK /\ SInv

-----------------------------------------------------------------------------
(* The latest of some times that have a bound. *)
LEMMA MaxFacts ==
    ASSUME NEW n \in Nat, NEW T \in SUBSET (0..n), T # {}
    PROVE  Max(T) \in T /\ Max(T) \in Nat /\ \A y \in T : y <= Max(T)
  <1> DEFINE U == {n - x : x \in T}
  <1>1. U \in SUBSET Nat /\ U # {}
    <2>1. \A x \in T : n - x \in Nat
      OBVIOUS
    <2> QED
      BY <2>1
  <1>2. PICK u \in U : \A v \in U : u <= v
    BY <1>1, LeastNatural
  <1>3. PICK x \in T : u = n - x
    BY <1>2
  <1>4. \A y \in T : x >= y
    <2> SUFFICES ASSUME NEW y \in T PROVE x >= y
      OBVIOUS
    <2>1. n - x <= n - y
      BY <1>2, <1>3
    <2> QED
      BY <2>1
  <1>5. Max(T) \in T /\ \A y \in T : Max(T) >= y
    BY <1>4 DEF Max
  <1>6. \A y \in T : y \in Nat
    OBVIOUS
  <1> HIDE DEF U
  <1> QED
    BY <1>5, <1>6

(* Least and greatest of two numbers. *)
LEMMA PairFacts ==
    ASSUME NEW a \in Nat, NEW b \in Nat
    PROVE  /\ Min({a, b}) = (IF a <= b THEN a ELSE b)
           /\ Max({a, b}) = (IF a <= b THEN b ELSE a)
           /\ Min({a, b}) \in Nat /\ Max({a, b}) \in Nat
           /\ Min({a}) = a
  <1>1. Min({a, b}) \in {a, b} /\ \A y \in {a, b} : Min({a, b}) <= y
    <2>1. \E x \in {a, b} : \A y \in {a, b} : x <= y
      OBVIOUS
    <2> QED
      BY <2>1 DEF Min
  <1>2. Max({a, b}) \in {a, b} /\ \A y \in {a, b} : Max({a, b}) >= y
    <2>1. \E x \in {a, b} : \A y \in {a, b} : x >= y
      OBVIOUS
    <2> QED
      BY <2>1 DEF Max
  <1>3. Min({a}) \in {a}
    <2>1. \E x \in {a} : \A y \in {a} : x <= y
      OBVIOUS
    <2> QED
      BY <2>1 DEF Min
  <1> QED
    BY <1>1, <1>2, <1>3

(* The trimmed end is a time. *)
LEMMA TrimmedType ==
    ASSUME TypeOK, EndsAreGiven, NEW t \in Nat
    PROVE  Trimmed(t) \in Nat
  <1> DEFINE done == {d \in Descendants \ Ignored : status[d] = "ended"}
             ends == {endedAt[c] : c \in done}
             latest == IF ends = {} THEN {} ELSE {Max(ends)}
             early == Min({t} \union latest)
             late == Max({0, early})
  <1>1. ends \in SUBSET (0..MaxNow) /\ MaxNow \in Nat
    BY IdleSpanAssumption DEF EndsAreGiven, Descendants
  <1> HIDE DEF ends
  <1>2. ends # {} => Max(ends) \in Nat
    BY <1>1, MaxFacts
  <1>3. early \in Nat
    <2>1. CASE ends = {}
      <3>1. {t} \union latest = {t}
        BY <2>1
      <3>2. Min({t}) = t
        BY PairFacts
      <3> QED
        BY <3>1, <3>2
    <2>2. CASE ends # {}
      <3>1. {t} \union latest = {t, Max(ends)}
        BY <2>2
      <3>2. Min({t, Max(ends)}) \in Nat
        BY <1>2, <2>2, PairFacts
      <3> QED
        BY <3>1, <3>2
    <2> QED
      BY <2>1, <2>2
  <1> HIDE DEF early
  <1>4. late \in Nat
    BY <1>3, PairFacts
  <1> HIDE DEF late
  <1>5. Min({FinalTimeout, late}) \in Nat
    BY <1>4, PairFacts, IdleSpanAssumption
  <1> QED
    BY <1>5 DEF Trimmed, late, early, ends

(* onIdleSpanEnded keeps the types, whatever the reason. *)
LEMMA EndType ==
    ASSUME TypeOK, EndsAreGiven, NEW t \in Nat, NEW r \in Reasons, End(t, r)
    PROVE  /\ finished' = TRUE /\ finishReason' = r
           /\ endTimestamp' \in Nat
           /\ activities' = {}
           /\ status' \in [Children -> Statuses \ {"running"}]
           /\ endedAt' \in [Children -> Nat]
           /\ discarded' \subseteq Children
           /\ UNCHANGED <<branch, startedAt, lastStart>>
  <1>1. Trimmed(t) \in Nat
    BY TrimmedType
  <1> QED
    BY <1>1 DEF End, TypeOK, Statuses, Discarded, Descendants

(* What is kept fits in the span, or is below what does. *)
LEMMA EndKeepsWhatFits ==
    ASSUME TypeOK, EndsAreGiven, BranchesAreTops, CancelledAtTheEnd, ~finished,
           NEW t \in Nat, NEW r \in Reasons, End(t, r)
    PROVE  /\ KeptChildrenFit' /\ BranchesAreTops'
           /\ \A c \in Children : status'[c] = "ended" => endedAt'[c] = endedAt[c] /\ status[c] = "ended"
  <1> DEFINE end == Trimmed(t)
  <1>1. end \in Nat
    BY TrimmedType
  <1>2. \A c \in Children :
            /\ status'[c] = IF status[c] = "running" THEN "cancelled" ELSE status[c]
            /\ endedAt'[c] = IF status[c] = "running" THEN end ELSE endedAt[c]
    BY DEF End
  <1>3. /\ endTimestamp' = end /\ startedAt' = startedAt /\ branch' = branch
        /\ discarded' = {c \in Discarded(end, endedAt') : branch[c] = c}
    BY DEF End
  <1>4. \A c \in Children : status'[c] = "new" <=> status[c] = "new"
    BY <1>2
  <1>5. ASSUME NEW c \in Children, status'[c] # "new"
        PROVE  /\ status'[c] # "running"
               /\ status'[c] = "cancelled" => endedAt'[c] = end
               /\ c \in Kept' <=> Fits(branch[c])'
    <2>1. status[c] # "new" /\ status[c] # "cancelled" /\ branch[c] \in Children
      BY <1>4, <1>5 DEF TypeOK, CancelledAtTheEnd
    <2>2. branch[branch[c]] = branch[c] /\ status[branch[c]] # "new"
      BY <2>1 DEF BranchesAreTops
    <2>3. startedAt[branch[c]] \in Nat /\ endedAt'[branch[c]] \in Nat
      BY <1>1, <1>2, <2>1, IdleSpanAssumption DEF TypeOK, Times
    <2>4. branch[c] \notin discarded' <=> Fits(branch[c])'
      <3>1. branch[c] \in discarded' <=> branch[c] \in Discarded(end, endedAt')
        BY <1>3, <2>2
      <3>2. branch[c] \in Discarded(end, endedAt') <=>
               \/ startedAt[branch[c]] > end
               \/ endedAt'[branch[c]] - startedAt[branch[c]] > FinalTimeout + IdleTimeout
        BY <2>1, <2>2 DEF Discarded, Descendants
      <3>3. Fits(branch[c])' <=>
               /\ startedAt[branch[c]] <= end
               /\ endedAt'[branch[c]] - startedAt[branch[c]] <= FinalTimeout + IdleTimeout
        BY <1>3 DEF Fits
      <3> HIDE DEF end
      <3> QED
        BY <1>1, <2>3, <3>1, <3>2, <3>3, IdleSpanAssumption
    <2>5. c \in Kept' <=> branch[c] \notin discarded'
      BY <1>3, <1>5 DEF Kept, Descendants
    <2> QED
      BY <1>2, <2>1, <2>4, <2>5
  <1>6. KeptChildrenFit'
    BY <1>3, <1>5 DEF KeptChildrenFit, Descendants
  <1>7. BranchesAreTops'
    BY <1>3, <1>4 DEF BranchesAreTops, TypeOK
  <1> QED
    BY <1>2, <1>6, <1>7

-----------------------------------------------------------------------------
(* TypeOK holds at the start and is kept by every step. *)
LEMMA TypeInit == Init => TypeOK
  <1> SUFFICES ASSUME Init PROVE TypeOK
    OBVIOUS
  <1>1. 0 \in Times
    BY IdleSpanAssumption DEF Times
  <1>2. [kind |-> "idle", due |-> IdleTimeout, end |-> NoEnd] \in Timer({"idle"}, IdleTimeout)
    BY IdleSpanAssumption DEF Timer
  <1> QED
    BY <1>1, <1>2 DEF Init, TypeOK, Statuses, Reasons

(* The timestamps that timers carry. *)
LEMMA EndOfType ==
    ASSUME TypeOK, NEW timer \in {idleTimer, strayTimer}, timer # NoTimer
    PROVE  EndOf(timer) \in Nat
  BY IdleSpanAssumption DEF TypeOK, EndOf, Timer, NoEnd, Times

LEMMA TypeStep ==
    ASSUME TypeOK, EndsAreGiven, [Next]_vars
    PROVE  TypeOK'
  <1> USE IdleSpanAssumption
  <1>0. now \in Nat /\ now <= MaxNow
    BY DEF TypeOK, Times
  <1>1. ASSUME NEW c \in Children, NEW p \in Children, NEW t \in Given, StartChild(c, p, t) PROVE TypeOK'
    <2>1. ChildTimer(now + ChildSpanTimeout) \in Timer({"child"}, ChildSpanTimeout)
      BY <1>0 DEF ChildTimer, Timer
    <2> QED
      BY <1>0, <1>1, <2>1 DEF StartChild, PushActivity, TypeOK, endVars, Statuses, Times
  <1>2. ASSUME NEW ended \in SUBSET Children, PopActivity(ended)
        PROVE  /\ activities' \subseteq Children
               /\ idleTimer' \in {NoTimer} \union Timer({"idle"}, IdleTimeout)
                                         \union Timer({"child"}, ChildSpanTimeout)
    <2>1. IdleTimer(now + IdleTimeout) \in Timer({"idle"}, IdleTimeout)
      BY <1>0 DEF IdleTimer, Timer
    <2> QED
      BY <1>2, <2>1 DEF PopActivity, TypeOK
  <1>3. ASSUME NEW c \in Children, NEW t \in Given, EndChild(c, t) PROVE TypeOK'
    <2>1. PopActivity({c})
      BY <1>3 DEF EndChild
    <2>2. t \in Nat
      BY <1>3 DEF TypeOK, Times
    <2> QED
      BY <1>2, <1>3, <2>1, <2>2 DEF EndChild, TypeOK, endVars, Statuses
  <1>4. ASSUME OtherSpanEnds PROVE TypeOK'
    <2>1. PopActivity({})
      BY <1>4 DEF OtherSpanEnds
    <2> QED
      BY <1>2, <1>4, <2>1 DEF OtherSpanEnds, TypeOK, endVars, childVars
  <1>5. ASSUME EnableAutoFinish PROVE TypeOK'
    <2>1. /\ IdleTimer(NoEnd) \in Timer({"idle"}, IdleTimeout)
          /\ ChildTimer(NoEnd) \in Timer({"child"}, ChildSpanTimeout)
      BY <1>0 DEF IdleTimer, ChildTimer, Timer
    <2> QED
      BY <1>5, <2>1 DEF EnableAutoFinish, TypeOK, endVars, childVars
  <1>6. ASSUME NEW t \in Nat, NEW r \in Reasons, End(t, r), UNCHANGED now,
               autoFinishAllowed' \in BOOLEAN,
               \/ UNCHANGED timerVars
               \/ idleTimer' = NoTimer /\ UNCHANGED <<strayTimer, finalTimer>>
               \/ strayTimer' = NoTimer /\ UNCHANGED <<idleTimer, finalTimer>>
               \/ finalTimer' = NoTimer /\ UNCHANGED <<idleTimer, strayTimer>>
        PROVE  TypeOK'
    <2> HIDE IdleSpanAssumption
    <2>1. /\ finished' = TRUE /\ finishReason' = r
          /\ endTimestamp' \in Nat
          /\ activities' = {}
          /\ status' \in [Children -> Statuses]
          /\ endedAt' \in [Children -> Nat]
          /\ discarded' \subseteq Children
          /\ UNCHANGED <<branch, startedAt, lastStart>>
      BY <1>6, EndType
    <2> QED
      BY <1>6, <2>1 DEF TypeOK, timerVars
  <1>7. ASSUME EndExternally PROVE TypeOK'
    <2>1. "externalFinish" \in Reasons
      BY DEF Reasons
    <2> QED
      BY <1>0, <1>6, <1>7, <2>1 DEF EndExternally, TypeOK
  <1>8. ASSUME IdleTimerFires PROVE TypeOK'
    <2>1. "idleTimeout" \in Reasons /\ "heartbeatFailed" \in Reasons
      BY DEF Reasons
    <2>2. EndOf(idleTimer) \in Nat
      BY <1>8, EndOfType DEF IdleTimerFires, NextDue
    <2>3. CASE Stays
      BY <1>8, <2>3 DEF IdleTimerFires, Stays, TypeOK, childVars, endVars
    <2>4. CASE End(EndOf(idleTimer), "idleTimeout") \/ End(EndOf(idleTimer), "heartbeatFailed")
      BY <1>6, <1>8, <2>1, <2>2, <2>4 DEF IdleTimerFires, TypeOK
    <2> QED
      BY <1>8, <2>3, <2>4 DEF IdleTimerFires, IdleExpires, ChildExpires
  <1>9. ASSUME StrayTimerFires PROVE TypeOK'
    <2>1. "idleTimeout" \in Reasons
      BY DEF Reasons
    <2>2. EndOf(strayTimer) \in Nat
      BY <1>9, EndOfType DEF StrayTimerFires, NextDue
    <2>3. CASE Stays
      BY <1>9, <2>3 DEF StrayTimerFires, Stays, TypeOK, childVars, endVars
    <2>4. CASE End(EndOf(strayTimer), "idleTimeout")
      BY <1>6, <1>9, <2>1, <2>2, <2>4 DEF StrayTimerFires, TypeOK
    <2> QED
      BY <1>9, <2>3, <2>4 DEF StrayTimerFires, IdleExpires
  <1>10. ASSUME FinalTimerFires PROVE TypeOK'
    <2>1. "finalTimeout" \in Reasons
      BY DEF Reasons
    <2>2. CASE Stays
      BY <1>10, <2>2 DEF FinalTimerFires, Stays, TypeOK, childVars, endVars
    <2>3. CASE End(now, "finalTimeout")
      BY <1>0, <1>6, <1>10, <2>1, <2>3 DEF FinalTimerFires, TypeOK
    <2> QED
      BY <1>10, <2>2, <2>3 DEF FinalTimerFires
  <1>11. ASSUME Tick PROVE TypeOK'
    BY <1>0, <1>11 DEF Tick, TypeOK, Times, childVars, timerVars, endVars
  <1>12. ASSUME UNCHANGED vars PROVE TypeOK'
    BY <1>12 DEF TypeOK, vars
  <1> QED
    BY <1>1, <1>3, <1>4, <1>5, <1>7, <1>8, <1>9, <1>10, <1>11, <1>12 DEF Next

-----------------------------------------------------------------------------
(* An end leaves nothing to say about timers, and keeps what fits. *)
LEMMA EndKeepsInvariant ==
    ASSUME IInv, ~finished, NEW t \in Nat, NEW r \in Reasons, End(t, r), UNCHANGED now
    PROVE  SInv'
  <1>1. finished' = TRUE /\ UNCHANGED <<branch, startedAt, lastStart>>
    BY DEF End
  <1>2. /\ KeptChildrenFit' /\ BranchesAreTops'
        /\ \A c \in Children : status'[c] = "ended" => endedAt'[c] = endedAt[c] /\ status[c] = "ended"
    BY EndKeepsWhatFits DEF IInv, SInv
  <1>3. EndsAreGiven' /\ StartIsPast'
    BY <1>1, <1>2 DEF IInv, SInv, StartIsPast, EndsAreGiven
  <1> QED
    BY <1>1, <1>2, <1>3 DEF SInv, ReasonIsGivenAtTheEnd, CancelledAtTheEnd, TimerFits, NeverWithoutTimer

(* Once the span is finished nothing changes but clock and timers. *)
LEMMA StaysKeepsInvariant ==
    ASSUME IInv, Stays, UNCHANGED <<now, autoFinishAllowed>>,
           \/ idleTimer' = idleTimer
           \/ (finished \/ ~autoFinishAllowed) /\ idleTimer' = NoTimer
    PROVE  SInv'
  BY DEF IInv, SInv, StartIsPast, Stays, childVars, endVars, EndsAreGiven, ReasonIsGivenAtTheEnd, CancelledAtTheEnd,
         TimerFits, NeverWithoutTimer, KeptChildrenFit, Kept, Fits, BranchesAreTops, Descendants, NoTimer

(* Every step keeps the invariant. *)
LEMMA Invariance ==
    ASSUME IInv, [Next]_vars
    PROVE  IInv'
  <1> USE IdleSpanAssumption
  <1>0. now \in Nat /\ lastStart \in Nat /\ TypeOK'
    BY TypeStep DEF IInv, SInv, TypeOK, Times
  <1>1. ASSUME NEW c \in Children, NEW p \in Children, NEW t \in Given, StartChild(c, p, t) PROVE SInv'
    <2>1. idleTimer' = ChildTimer(now + ChildSpanTimeout) /\ activities' # {} /\ lastStart' = now
      BY <1>1 DEF StartChild, PushActivity
    <2>2. TimerFits' /\ NeverWithoutTimer'
      BY <1>0, <2>1 DEF TimerFits, NeverWithoutTimer, ChildTimer
    <2>3. EndsAreGiven' /\ CancelledAtTheEnd' /\ BranchesAreTops'
      BY <1>1 DEF IInv, SInv, TypeOK, StartChild, EndsAreGiven, CancelledAtTheEnd, BranchesAreTops
    <2> QED
      BY <1>0, <1>1, <2>2, <2>3
      DEF IInv, SInv, StartIsPast, StartChild, endVars, ReasonIsGivenAtTheEnd, KeptChildrenFit
  <1>2. ASSUME NEW ended \in SUBSET Children, PopActivity(ended), lastStart <= now,
               UNCHANGED <<now, lastStart, autoFinishAllowed, finished>>, ~finished
        PROVE  TimerFits' /\ NeverWithoutTimer'
    <2>1. CASE activities' = {}
      BY <1>0, <1>2, <2>1 DEF PopActivity, IdleTimer, TimerFits, NeverWithoutTimer
    <2>2. CASE activities' # {}
      BY <1>2, <2>2 DEF IInv, SInv, StartIsPast, PopActivity, TimerFits, NeverWithoutTimer
    <2> QED
      BY <2>1, <2>2
  <1>3. ASSUME NEW c \in Children, NEW t \in Given, EndChild(c, t) PROVE SInv'
    <2>1. TimerFits' /\ NeverWithoutTimer'
      BY <1>2, <1>3 DEF EndChild, endVars, IInv, SInv, StartIsPast
    <2>2. EndsAreGiven' /\ CancelledAtTheEnd' /\ BranchesAreTops'
      BY <1>3 DEF IInv, SInv, TypeOK, EndChild, EndsAreGiven, CancelledAtTheEnd, BranchesAreTops
    <2> QED
      BY <1>0, <1>3, <2>1, <2>2
      DEF IInv, SInv, StartIsPast, EndChild, endVars, ReasonIsGivenAtTheEnd, KeptChildrenFit
  <1>4. ASSUME OtherSpanEnds PROVE SInv'
    <2>1. TimerFits' /\ NeverWithoutTimer'
      BY <1>2, <1>4 DEF OtherSpanEnds, childVars, endVars, IInv, SInv, StartIsPast
    <2> QED
      BY <1>0, <1>4, <2>1
      DEF IInv, SInv, StartIsPast, OtherSpanEnds, childVars, endVars, EndsAreGiven, CancelledAtTheEnd,
          ReasonIsGivenAtTheEnd, KeptChildrenFit, BranchesAreTops
  <1>5. ASSUME EnableAutoFinish PROVE SInv'
    <2>1. TimerFits' /\ NeverWithoutTimer'
      <3>1. CASE activities = {}
        BY <1>0, <1>5, <3>1
        DEF EnableAutoFinish, childVars, IdleTimer, TimerFits, NeverWithoutTimer, IInv, SInv, StartIsPast
      <3>2. CASE activities # {}
        BY <1>0, <1>5, <3>2
        DEF EnableAutoFinish, childVars, ChildTimer, TimerFits, NeverWithoutTimer, IInv, SInv, StartIsPast
      <3> QED
        BY <3>1, <3>2
    <2> QED
      BY <1>0, <1>5, <2>1
      DEF IInv, SInv, StartIsPast, EnableAutoFinish, childVars, endVars, EndsAreGiven, CancelledAtTheEnd,
          ReasonIsGivenAtTheEnd, KeptChildrenFit, BranchesAreTops
  <1>6. ASSUME EndExternally PROVE SInv'
    <2>1. "externalFinish" \in Reasons
      BY DEF Reasons
    <2> QED
      BY <1>0, <1>6, <2>1, EndKeepsInvariant DEF EndExternally
  <1>7. ASSUME IdleTimerFires PROVE SInv'
    <2>1. "idleTimeout" \in Reasons /\ "heartbeatFailed" \in Reasons
      BY DEF Reasons
    <2>2. EndOf(idleTimer) \in Nat
      BY <1>7, EndOfType DEF IInv, IdleTimerFires, NextDue
    <2>3. CASE Stays
      <3>1. ~finished /\ autoFinishAllowed => ~Stays
        BY <1>7 DEF IInv, SInv, NeverWithoutTimer, IdleTimerFires, IdleExpires, ChildExpires,
                    End, Stays, endVars
      <3> QED
        BY <1>7, <2>3, <3>1, StaysKeepsInvariant DEF IdleTimerFires, IInv, TypeOK
    <2>4. CASE ~finished /\ (End(EndOf(idleTimer), "idleTimeout")
                              \/ End(EndOf(idleTimer), "heartbeatFailed"))
      BY <1>7, <2>1, <2>2, <2>4, EndKeepsInvariant DEF IdleTimerFires
    <2> QED
      BY <1>7, <2>3, <2>4 DEF IdleTimerFires, IdleExpires, ChildExpires
  <1>8. ASSUME StrayTimerFires PROVE SInv'
    <2>1. "idleTimeout" \in Reasons
      BY DEF Reasons
    <2>2. EndOf(strayTimer) \in Nat
      BY <1>8, EndOfType DEF IInv, StrayTimerFires, NextDue
    <2>3. CASE Stays
      <3>1. now' = now /\ autoFinishAllowed' = autoFinishAllowed /\ idleTimer' = idleTimer
        BY <1>8 DEF StrayTimerFires
      <3> QED
        BY <2>3, <3>1, StaysKeepsInvariant
    <2>4. CASE ~finished /\ End(EndOf(strayTimer), "idleTimeout")
      BY <1>8, <2>1, <2>2, <2>4, EndKeepsInvariant DEF StrayTimerFires
    <2> QED
      BY <1>8, <2>3, <2>4 DEF StrayTimerFires, IdleExpires
  <1>9. ASSUME FinalTimerFires PROVE SInv'
    <2>1. "finalTimeout" \in Reasons
      BY DEF Reasons
    <2>2. CASE Stays
      <3>1. now' = now /\ autoFinishAllowed' = autoFinishAllowed /\ idleTimer' = idleTimer
        BY <1>9 DEF FinalTimerFires
      <3> QED
        BY <2>2, <3>1, StaysKeepsInvariant
    <2>3. CASE ~finished /\ End(now, "finalTimeout")
      BY <1>0, <1>9, <2>1, <2>3, EndKeepsInvariant DEF FinalTimerFires
    <2> QED
      BY <1>9, <2>2, <2>3 DEF FinalTimerFires
  <1>10. ASSUME Tick PROVE SInv'
    <2>1. EndsAreGiven'
      BY <1>0, <1>10 DEF IInv, SInv, TypeOK, Tick, childVars, EndsAreGiven
    <2> QED
      BY <1>0, <1>10, <2>1
      DEF IInv, SInv, Tick, childVars, timerVars, endVars, StartIsPast, ReasonIsGivenAtTheEnd,
          CancelledAtTheEnd, TimerFits, NeverWithoutTimer, KeptChildrenFit, Kept, Fits, BranchesAreTops, Descendants
  <1>11. ASSUME UNCHANGED vars PROVE SInv'
    BY <1>11
    DEF vars, IInv, SInv, EndsAreGiven, StartIsPast, ReasonIsGivenAtTheEnd, CancelledAtTheEnd,
        TimerFits, NeverWithoutTimer, KeptChildrenFit, Kept, Fits, BranchesAreTops, Descendants
  <1> QED
    BY <1>0, <1>1, <1>3, <1>4, <1>5, <1>6, <1>7, <1>8, <1>9, <1>10, <1>11 DEF Next, IInv

LEMMA InvariantInit == Init => IInv
  <1> SUFFICES ASSUME Init PROVE IInv
    OBVIOUS
  <1>1. TypeOK
    BY TypeInit
  <1>2. TimerFits /\ NeverWithoutTimer
    BY IdleSpanAssumption DEF Init, TimerFits, NeverWithoutTimer, NoTimer
  <1>3. /\ EndsAreGiven /\ BranchesAreTops /\ StartIsPast /\ ReasonIsGivenAtTheEnd
        /\ CancelledAtTheEnd /\ KeptChildrenFit
    BY DEF Init, EndsAreGiven, BranchesAreTops, StartIsPast, ReasonIsGivenAtTheEnd, CancelledAtTheEnd, KeptChildrenFit
  <1> QED
    BY <1>1, <1>2, <1>3 DEF IInv, SInv

LEMMA AlwaysIInv == Spec => []IInv
  BY InvariantInit, Invariance, PTL DEF Spec

-----------------------------------------------------------------------------
(* The variables keep their types. *)
THEOREM TypeCorrect == Spec => []TypeOK
  BY AlwaysIInv, PTL DEF IInv

(* A span that may end by itself always has the timer its activities call *)
(* for, for any children and timeouts, in whatever order they come.       *)
THEOREM TimerIsArmed == Spec => []NeverWithoutTimer
  BY AlwaysIInv, PTL DEF IInv, SInv

(* Whatever tree of spans was below it and whatever times they were given:  *)
(* below an ended span nothing is running, its own children stay if they    *)
(* fit it and go if not, and those further down share their fate.           *)
THEOREM ChildrenFit == Spec => []KeptChildrenFit
  BY AlwaysIInv, PTL DEF IInv, SInv

(* What a step that ends the span for a reason of a timer looked like. *)
LEMMA EndStep ==
    ASSUME IInv, Next
    PROVE  /\ EndsFor("idleTimeout") =>
                 /\ activities = {}
                 /\ strayTimer' = strayTimer => now - lastStart >= IdleTimeout
           /\ EndsFor("heartbeatFailed") =>
                 activities # {} /\ now - lastStart >= ChildSpanTimeout
  <1> DEFINE timed == finishReason' \in {"idleTimeout", "heartbeatFailed"}
  <1> SUFFICES ASSUME ~finished, timed
               PROVE  /\ finishReason' = "idleTimeout" =>
                            /\ activities = {}
                            /\ strayTimer' = strayTimer => now - lastStart >= IdleTimeout
                      /\ finishReason' = "heartbeatFailed" =>
                            activities # {} /\ now - lastStart >= ChildSpanTimeout
    BY DEF EndsFor
  <1>1. finishReason = "none"
    BY DEF IInv, SInv, ReasonIsGivenAtTheEnd
  <1>2. ~(UNCHANGED endVars)
    BY <1>1 DEF endVars
  <1>3. CASE IdleTimerFires
    <2>1. /\ idleTimer # NoTimer /\ idleTimer.due \in Int /\ idleTimer.due <= now
          /\ idleTimer.kind \in {"idle", "child"}
          /\ now \in Int /\ lastStart \in Int
      BY <1>3, IdleSpanAssumption DEF IdleTimerFires, NextDue, IInv, TypeOK, Timer, Times
    <2>2. CASE idleTimer.kind = "idle"
      <3>1. activities = {} /\ lastStart + IdleTimeout <= idleTimer.due
        BY <2>2 DEF IInv, SInv, TimerFits
      <3>2. finishReason' = "idleTimeout"
        BY <1>2, <1>3, <2>2 DEF IdleTimerFires, IdleExpires, Stays, End
      <3> QED
        BY <2>1, <3>1, <3>2, IdleSpanAssumption
    <2>3. CASE idleTimer.kind = "child"
      <3>1. activities # {} /\ lastStart + ChildSpanTimeout <= idleTimer.due
        BY <2>3 DEF IInv, SInv, TimerFits
      <3>2. finishReason' = "heartbeatFailed"
        BY <1>2, <1>3, <2>3 DEF IdleTimerFires, ChildExpires, Stays, End
      <3> QED
        BY <2>1, <3>1, <3>2, IdleSpanAssumption
    <2> QED
      BY <2>1, <2>2, <2>3
  <1>4. CASE StrayTimerFires
    <2>1. activities = {} /\ finishReason' = "idleTimeout"
      BY <1>2, <1>4 DEF StrayTimerFires, IdleExpires, Stays, End
    <2>2. strayTimer' # strayTimer
      BY <1>4 DEF StrayTimerFires, NextDue
    <2> QED
      BY <2>1, <2>2
  <1>5. ~FinalTimerFires /\ ~EndExternally
    BY <1>2 DEF FinalTimerFires, EndExternally, End, Stays
  <1> QED
    BY <1>2, <1>3, <1>4, <1>5
    DEF Next, StartChild, EndChild, OtherSpanEnds, EnableAutoFinish, Tick

(* A span ends for idleness only when it is idle, but for a stray timer. *)
THEOREM IdleIsIdle == Spec => IdleMeansIdle
  <1>1. [][IInv /\ Next]_vars => IdleMeansIdle
    BY EndStep, PTL DEF IdleMeansIdle
  <1> QED
    BY <1>1, AlwaysIInv, PTL DEF Spec

(* A heartbeat fails only of a child that runs, a whole timeout after the *)
(* last start.                                                            *)
THEOREM HeartbeatIsStuck == Spec => HeartbeatMeansStuck
  <1>1. [][IInv /\ Next]_vars => HeartbeatMeansStuck
    BY EndStep, PTL DEF HeartbeatMeansStuck
  <1> QED
    BY <1>1, AlwaysIInv, PTL DEF Spec

(* Both together, as the run checks them. *)
THEOREM EndsRightly == Spec => EndsForItsReason
  BY IdleIsIdle, HeartbeatIsStuck, PTL DEF EndsForItsReason
=============================================================================
