----------------------- MODULE OfflineTransport_proofs -----------------------
(* Proofs about OfflineTransport, for any envelopes, delays, size of the   *)
(* store and number of restarts.                                           *)
EXTENDS OfflineTransport, DataFacts, TLAPS

(* StoredOnce by indexes. *)
QueuedOnce ==
    /\ \A i, j \in 1..Len(queue) : queue[i] = queue[j] => i = j
    /\ \A i \in 1..Len(queue) : where[queue[i]] = "queued"
    /\ \A e \in Envelopes : where[e] = "queued" => \E i \in 1..Len(queue) : queue[i] = e

(* The awaited shifts are those of the envelopes taken from the store. *)
ShiftsAreAwaited ==
    /\ \A i \in 1..Len(calls) :
          calls[i].by = "shift" => where[calls[i].envelope] = "shifted"
    /\ \A i, j \in 1..Len(calls) :
          /\ calls[i].by = "shift" /\ calls[j].by = "shift"
          /\ calls[i].envelope = calls[j].envelope
          => i = j
    /\ \A e \in Envelopes : where[e] = "shifted" => isRetry[e]

(* What was ever stored is recorded; what is new, or under way for the     *)
(* first time, is not.                                                     *)
Recorded(e) == \E i \in 1..Len(firstStored) : firstStored[i] = e
Unsent(e) == where[e] = "new" \/ (where[e] \in UnderWay /\ ~isRetry[e])

StoredIsRecorded ==
    /\ \A e \in Envelopes : where[e] = "queued" \/ isRetry[e] => Recorded(e)
    /\ \A e \in Envelopes : Unsent(e) => ~Recorded(e)

(* InOrder by indexes, and with it that there is one retry. *)
Precedes(s, a, b) == \E m, n \in 1..Len(s) : m < n /\ s[m] = a /\ s[n] = b

Ordered ==
    ~overlapped =>
        /\ \A a, b \in Retrying : a = b
        /\ \A i, j \in 1..Len(queue) : i < j => Precedes(firstStored, queue[i], queue[j])
        /\ \A e \in Retrying : \A i \in 1..Len(queue) : Precedes(firstStored, e, queue[i])

IInv ==
    /\ TypeOK
    /\ QueuedOnce
    /\ ShiftsAreAwaited
    /\ StoredIsRecorded
    /\ Ordered

-----------------------------------------------------------------------------
(* Sequence-valued variables by their indexes. *)
LEMMA Indexes ==
    ASSUME TypeOK
    PROVE  /\ DOMAIN queue = 1..Len(queue) /\ Len(queue) \in Nat
           /\ DOMAIN firstStored = 1..Len(firstStored) /\ Len(firstStored) \in Nat
           /\ DOMAIN calls = 1..Len(calls) /\ Len(calls) \in Nat
  BY LenProperties DEF TypeOK

(* The types of the timer, and what arming it does. *)
Timers == {NoTimer, MinDelay} \union (StartDelay .. MaxDelay) \union RetryAfters

LEMMA BackOffArms ==
    ASSUME TypeOK, BackOff
    PROVE  /\ flushTimer' \in Timers /\ flushTimer' # NoTimer
           /\ retryDelay' \in StartDelay .. MaxDelay
  BY OfflineAssumption DEF TypeOK, BackOff, FlushIn, Timers, timerVars, NoTimer

LEMMA StartupTypes ==
    ASSUME Startup
    PROVE  /\ flushTimer' \in Timers /\ retryDelay' \in StartDelay .. MaxDelay
           /\ FlushAtStartup => flushTimer' # NoTimer
  BY OfflineAssumption DEF Startup, Timers, NoTimer

(* What Put does to the types. *)
LEMMA PutTypes ==
    ASSUME TypeOK, NEW e \in Envelopes, NEW q \in Seq(Envelopes), Len(q) = Len(queue) + 1,
           Put(e, q)
    PROVE  /\ where' \in [Envelopes -> Places]
           /\ queue' \in Seq(Envelopes) /\ Len(queue') <= MaxQueueSize
           /\ firstStored' \in Seq(Envelopes)
  <1>1. Len(queue) \in Nat /\ MaxQueueSize \in Nat
    BY OfflineAssumption, Indexes
  <1>2. CASE Unstored(e)
    BY <1>2 DEF Unstored, storeVars, TypeOK, Places, UnderWay
  <1>3. CASE /\ Len(queue) < MaxQueueSize /\ queue' = q
             /\ firstStored' = IF Contains(firstStored, e) THEN firstStored
                               ELSE Append(firstStored, e)
             /\ where' = [where EXCEPT ![e] = "queued"]
    <2>1. Append(firstStored, e) \in Seq(Envelopes)
      BY PushFacts DEF TypeOK
    <2>2. where' \in [Envelopes -> Places]
      BY <1>3 DEF TypeOK, Places, UnderWay
    <2>3. Len(queue') <= MaxQueueSize
      BY <1>1, <1>3
    <2> QED
      BY <1>3, <2>1, <2>2, <2>3 DEF TypeOK
  <1> QED
    BY <1>2, <1>3 DEF Put

LEMMA PushUnshiftTypes ==
    ASSUME TypeOK, NEW e \in Envelopes, Push(e) \/ Unshift(e)
    PROVE  /\ where' \in [Envelopes -> Places]
           /\ queue' \in Seq(Envelopes) /\ Len(queue') <= MaxQueueSize
           /\ firstStored' \in Seq(Envelopes)
  <1>1. /\ Append(queue, e) \in Seq(Envelopes) /\ Len(Append(queue, e)) = Len(queue) + 1
        /\ <<e>> \o queue \in Seq(Envelopes) /\ Len(<<e>> \o queue) = Len(queue) + 1
    BY PushFacts, ConsFacts DEF TypeOK
  <1> QED
    BY <1>1, PutTypes DEF Push, Unshift

LEMMA CallTypes ==
    ASSUME TypeOK
    PROVE  /\ \A by \in {"replay", "failed", "shift"}, e \in Envelopes :
                Await(by, e) => calls' \in Seq([by : {"replay", "failed", "shift"}, envelope : Envelopes])
           /\ \A by : Resolved(by) => calls' \in Seq([by : {"replay", "failed", "shift"}, envelope : Envelopes])
  <1> DEFINE C == [by : {"replay", "failed", "shift"}, envelope : Envelopes]
  <1>1. calls \in Seq(C)
    BY DEF TypeOK
  <1>2. ASSUME NEW by \in {"replay", "failed", "shift"}, NEW e \in Envelopes, Await(by, e)
        PROVE  calls' \in Seq(C)
    <2>1. [by |-> by, envelope |-> e] \in C
      OBVIOUS
    <2> HIDE DEF C
    <2> QED
      BY <1>1, <1>2, <2>1, PushFacts DEF Await
  <1>3. ASSUME NEW by, Resolved(by) PROVE calls' \in Seq(C)
    <2> HIDE DEF C
    <2> QED
      BY <1>1, <1>3, TailFacts DEF Resolved
  <1> QED
    BY <1>2, <1>3

(* Initial types, and every step keeps them. *)
LEMMA TypeInit == Init => TypeOK
  <1> SUFFICES ASSUME Init PROVE TypeOK
    OBVIOUS
  <1>1. where \in [Envelopes -> Places] /\ isRetry \in [Envelopes -> BOOLEAN]
    BY DEF Init, Places, UnderWay
  <1>2. /\ queue \in Seq(Envelopes) /\ Len(queue) <= MaxQueueSize
        /\ firstStored \in Seq(Envelopes)
        /\ calls \in Seq([by : {"replay", "failed", "shift"}, envelope : Envelopes])
    <2>1. queue = <<>> /\ firstStored = <<>> /\ calls = <<>>
      BY DEF Init
    <2>2. Len(<<>>) = 0 /\ 0 <= MaxQueueSize
      BY OfflineAssumption
    <2> QED
      BY <2>1, <2>2, EmptySeq
  <1>3. retryDelay \in StartDelay .. MaxDelay /\ flushTimer \in Timers
    BY OfflineAssumption DEF Init, Timers, NoTimer
  <1>4. restarts \in 0 .. MaxRestarts /\ overlapped \in BOOLEAN
    <2>1. MaxRestarts \in Nat
      BY OfflineAssumption
    <2>2. restarts \in 0 .. MaxRestarts
      BY <2>1 DEF Init
    <2>3. overlapped \in BOOLEAN
      BY DEF Init
    <2> QED
      BY <2>2, <2>3
  <1> QED
    BY <1>1, <1>2, <1>3, <1>4 DEF TypeOK, Timers
LEMMA TypeStep == TypeOK /\ [Next]_vars => TypeOK'
  <1> SUFFICES ASSUME TypeOK, [Next]_vars PROVE TypeOK'
    OBVIOUS
  <1> DEFINE C == [by : {"replay", "failed", "shift"}, envelope : Envelopes]
  <1> USE DEF storeVars, timerVars
  <1>0. /\ where \in [Envelopes -> Places] /\ isRetry \in [Envelopes -> BOOLEAN]
        /\ queue \in Seq(Envelopes) /\ Len(queue) <= MaxQueueSize
        /\ firstStored \in Seq(Envelopes) /\ calls \in Seq(C)
        /\ retryDelay \in StartDelay .. MaxDelay /\ flushTimer \in Timers
        /\ restarts \in 0 .. MaxRestarts /\ overlapped \in BOOLEAN
    BY DEF TypeOK, Timers
  <1>a. /\ MinDelay \in Timers /\ NoTimer \in Timers /\ RetryAfters \subseteq Timers
        /\ StartDelay \in StartDelay .. MaxDelay
    BY OfflineAssumption DEF Timers
  <1>b. /\ \A by \in {"replay", "failed", "shift"}, e \in Envelopes :
             Await(by, e) => calls' \in Seq(C)
        /\ \A by : Resolved(by) => calls' \in Seq(C)
    BY CallTypes
  <1> HIDE DEF C
  <1>1. ASSUME NEW e \in Envelopes, Send(e) PROVE TypeOK'
    <2>1. where' \in [Envelopes -> Places] /\ isRetry' \in [Envelopes -> BOOLEAN]
      BY <1>0, <1>1 DEF Send, Attempt, Places, UnderWay
    <2> QED
      BY <1>0, <1>1, <2>1 DEF Send, TypeOK, Timers, C
  <1>2. ASSUME NEW e \in Envelopes, SendReplay(e) PROVE TypeOK'
    <2>1. calls' \in Seq(C)
      BY <1>2, <1>b DEF SendReplay
    <2>2. /\ where' \in [Envelopes -> Places] /\ queue' \in Seq(Envelopes)
          /\ Len(queue') <= MaxQueueSize /\ firstStored' \in Seq(Envelopes)
      BY <1>2, PushUnshiftTypes DEF SendReplay
    <2> QED
      BY <1>0, <1>2, <2>1, <2>2 DEF SendReplay, TypeOK, Timers, C
  <1>3. ASSUME NEW e \in Envelopes, SendShifted(e) PROVE TypeOK'
    <2>1. calls' \in Seq(C)
      BY <1>3, <1>b DEF SendShifted
    <2>2. where' \in [Envelopes -> Places] /\ isRetry' \in [Envelopes -> BOOLEAN]
      BY <1>0, <1>3 DEF SendShifted, Attempt, Places, UnderWay
    <2> QED
      BY <1>0, <1>3, <2>1, <2>2 DEF SendShifted, TypeOK, Timers, C
  <1>4. ASSUME NEW e \in Envelopes, ShouldSend(e) \/ Fails(e) \/ ServerError(e) \/ Refuse(e)
        PROVE  TypeOK'
    <2>1. where' \in [Envelopes -> Places]
      BY <1>0, <1>4 DEF ShouldSend, Fails, ServerError, Refuse, Places, UnderWay
    <2> QED
      BY <1>0, <1>4, <2>1 DEF ShouldSend, Fails, ServerError, Refuse, TypeOK, Timers, C
  <1>5. ASSUME NEW e \in Envelopes, Answered(e) PROVE TypeOK'
    BY <1>0, <1>a, <1>5 DEF Answered, FlushIn, Places, UnderWay, TypeOK, Timers, C
  <1>6. ASSUME NEW e \in Envelopes, KeepFailed(e) PROVE TypeOK'
    <2>1. calls' \in Seq(C)
      BY <1>6, <1>b DEF KeepFailed
    <2>2. /\ where' \in [Envelopes -> Places] /\ queue' \in Seq(Envelopes)
          /\ Len(queue') <= MaxQueueSize /\ firstStored' \in Seq(Envelopes)
      BY <1>6, PushUnshiftTypes DEF KeepFailed, Store
    <2> QED
      BY <1>0, <1>6, <2>1, <2>2 DEF KeepFailed, TypeOK, Timers, C
  <1>7. ASSUME ReplayPushed PROVE TypeOK'
    <2>1. calls' \in Seq(C)
      BY <1>7, <1>b DEF ReplayPushed
    <2> QED
      BY <1>0, <1>a, <1>7, <2>1 DEF ReplayPushed, FlushIn, TypeOK, Timers, C
  <1>8. ASSUME FailedStored PROVE TypeOK'
    <2>1. calls' \in Seq(C)
      BY <1>8, <1>b DEF FailedStored
    <2>2. flushTimer' \in Timers /\ retryDelay' \in StartDelay .. MaxDelay
      BY <1>8, BackOffArms DEF FailedStored
    <2> QED
      BY <1>0, <1>8, <2>1, <2>2 DEF FailedStored, TypeOK, Timers, C
  <1>9. ASSUME TimerFires PROVE TypeOK'
    <2>1. Head(queue) \in Envelopes /\ Tail(queue) \in Seq(Envelopes)
          /\ Len(Tail(queue)) <= Len(queue) /\ Len(queue) \in Nat
          /\ Len(Tail(queue)) \in Nat
      BY <1>0, <1>9, TailFacts, LenProperties DEF TimerFires, Shift
    <2>2. calls' \in Seq(C)
      BY <1>9, <1>b, <2>1 DEF TimerFires
    <2>3. Len(queue') <= MaxQueueSize /\ queue' \in Seq(Envelopes)
      BY <1>0, <1>9, <2>1, OfflineAssumption DEF TimerFires, Shift
    <2>4. where' \in [Envelopes -> Places] /\ isRetry' \in [Envelopes -> BOOLEAN]
      BY <1>0, <1>9, <2>1 DEF TimerFires, Places, UnderWay
    <2>6. /\ firstStored' \in Seq(Envelopes)
          /\ retryDelay' \in StartDelay .. MaxDelay /\ flushTimer' \in Timers
          /\ restarts' \in 0 .. MaxRestarts
      BY <1>0, <1>a, <1>9 DEF TimerFires
    <2>5. overlapped' \in BOOLEAN
      BY <1>0, <1>9 DEF TimerFires
    <2> QED
      BY <2>2, <2>3, <2>4, <2>5, <2>6 DEF TypeOK, Timers, C
  <1>10. ASSUME TimerFindsNothing PROVE TypeOK'
    BY <1>0, <1>a, <1>10 DEF TimerFindsNothing, TypeOK, Timers, C
  <1>11. ASSUME Flush PROVE TypeOK'
    BY <1>0, <1>a, <1>11 DEF Flush, FlushIn, TypeOK, Timers, C
  <1>12. ASSUME Restart PROVE TypeOK'
    <2>1. flushTimer' \in Timers /\ retryDelay' \in StartDelay .. MaxDelay
      BY <1>12, StartupTypes DEF Restart
    <2>2. calls' \in Seq(C)
      BY <1>12, EmptySeq DEF Restart
    <2>3. restarts' \in 0 .. MaxRestarts
      BY <1>0, <1>12, OfflineAssumption DEF Restart
    <2>4. where' \in [Envelopes -> Places]
      BY <1>0, <1>12 DEF Restart, Places, UnderWay
    <2> QED
      BY <1>0, <1>12, <2>1, <2>2, <2>3, <2>4 DEF Restart, TypeOK, Timers, C
  <1>13. ASSUME UNCHANGED vars PROVE TypeOK'
    BY <1>0, <1>13 DEF vars, TypeOK, Timers, C
  <1> QED
    BY <1>1, <1>2, <1>3, <1>4, <1>5, <1>6, <1>7, <1>8, <1>9, <1>10, <1>11, <1>12, <1>13 DEF Next

-----------------------------------------------------------------------------
(* Each part of the invariant: the steps that leave it alone first.        *)
LEMMA QueueUntouched ==
    ASSUME TypeOK, QueuedOnce, queue' = queue,
           \A e \in Envelopes : where'[e] = "queued" <=> where[e] = "queued"
    PROVE  QueuedOnce'
  <1>1. \A i \in 1..Len(queue) : queue[i] \in Envelopes
    BY ElementOfSeq DEF TypeOK
  <1> QED
    BY <1>1 DEF QueuedOnce

LEMMA QueueGrows ==
    ASSUME TypeOK, QueuedOnce, NEW e \in Envelopes, where[e] # "queued", Push(e) \/ Unshift(e)
    PROVE  QueuedOnce'
  <1>0. /\ queue \in Seq(Envelopes) /\ where \in [Envelopes -> Places] /\ Len(queue) \in Nat
        /\ \A i \in 1..Len(queue) : queue[i] \in Envelopes
    BY LenProperties, ElementOfSeq DEF TypeOK
  <1>1. CASE Unstored(e)
    <2>1. queue' = queue /\ \A x \in Envelopes : where'[x] = "queued" <=> where[x] = "queued"
      BY <1>0, <1>1 DEF Unstored, storeVars
    <2> QED
      BY <2>1, QueueUntouched
  <1>2. ASSUME queue' = Append(queue, e), where' = [where EXCEPT ![e] = "queued"]
        PROVE  QueuedOnce'
    <2> DEFINE n == Len(queue) + 1
    <2>1. Len(queue') = n /\ queue'[n] = e /\ \A i \in 1..Len(queue) : queue'[i] = queue[i]
      BY <1>0, <1>2, PushFacts
    <2>2. \A i \in 1..n : i = n \/ i \in 1..Len(queue)
      BY <1>0
    <2>3. \A i \in 1..Len(queue) : queue[i] # e
      BY DEF QueuedOnce
    <2>4. n \in 1..n /\ \A i \in 1..Len(queue) : i \in 1..n
      BY <1>0
    <2> HIDE DEF n
    <2>5. \A i, j \in 1..n : queue'[i] = queue'[j] => i = j
      BY <2>1, <2>2, <2>3 DEF QueuedOnce
    <2>6. \A i \in 1..n : where'[queue'[i]] = "queued"
      BY <1>0, <1>2, <2>1, <2>2 DEF QueuedOnce
    <2>7. \A x \in Envelopes : where'[x] = "queued" => \E i \in 1..n : queue'[i] = x
      BY <1>0, <1>2, <2>1, <2>4 DEF QueuedOnce
    <2> QED
      BY <2>1, <2>5, <2>6, <2>7 DEF QueuedOnce
  <1>3. ASSUME queue' = <<e>> \o queue, where' = [where EXCEPT ![e] = "queued"]
        PROVE  QueuedOnce'
    <2> DEFINE n == Len(queue) + 1
    <2>1. Len(queue') = n /\ queue'[1] = e /\ \A i \in 1..Len(queue) : queue'[i + 1] = queue[i]
      BY <1>0, <1>3, ConsFacts
    <2>2. \A i \in 1..n : i = 1 \/ \E k \in 1..Len(queue) : i = k + 1
      <3>1. \A i \in 1..n : i # 1 => i - 1 \in 1..Len(queue) /\ i = (i - 1) + 1
        BY <1>0
      <3> QED
        BY <3>1
    <2>3. \A i \in 1..Len(queue) : queue[i] # e
      BY DEF QueuedOnce
    <2>4. 1 \in 1..n /\ \A i \in 1..Len(queue) : i + 1 \in 1..n
      BY <1>0
    <2> HIDE DEF n
    <2>5. \A i, j \in 1..n : queue'[i] = queue'[j] => i = j
      BY <2>1, <2>2, <2>3 DEF QueuedOnce
    <2>6. \A i \in 1..n : where'[queue'[i]] = "queued"
      BY <1>0, <1>3, <2>1, <2>2 DEF QueuedOnce
    <2>7. \A x \in Envelopes : where'[x] = "queued" => \E i \in 1..n : queue'[i] = x
      BY <1>0, <1>3, <2>1, <2>4 DEF QueuedOnce
    <2> QED
      BY <2>1, <2>5, <2>6, <2>7 DEF QueuedOnce
  <1> QED
    BY <1>1, <1>2, <1>3 DEF Push, Unshift, Put

LEMMA QueueShrinks ==
    ASSUME TypeOK, QueuedOnce, queue # <<>>, queue' = Tail(queue),
           where' = [where EXCEPT ![Head(queue)] = "shifted"]
    PROVE  QueuedOnce'
  <1>0. /\ queue \in Seq(Envelopes) /\ where \in [Envelopes -> Places]
        /\ \A i \in 1..Len(queue) : queue[i] \in Envelopes
    BY ElementOfSeq DEF TypeOK
  <1>1. /\ Len(queue) \in Nat \ {0} /\ Head(queue) = queue[1] /\ Len(queue') = Len(queue) - 1
        /\ \A i \in 1..Len(queue') : queue'[i] = queue[i + 1]
    BY <1>0, TailFacts
  <1>2. 1 \in 1..Len(queue) /\ \A i \in 1..Len(queue') : i + 1 \in 1..Len(queue) /\ i + 1 # 1
    BY <1>1
  <1>3. \A i \in 1..Len(queue) : i = 1 \/ \E k \in 1..Len(queue') : i = k + 1
    <2>1. \A i \in 1..Len(queue) : i # 1 => i - 1 \in 1..Len(queue') /\ i = (i - 1) + 1
      BY <1>1
    <2> QED
      BY <2>1
  <1>4. \A i, j \in 1..Len(queue') : queue'[i] = queue'[j] => i = j
    <2> SUFFICES ASSUME NEW i \in 1..Len(queue'), NEW j \in 1..Len(queue'), queue'[i] = queue'[j]
                 PROVE  i = j
      OBVIOUS
    <2>1. i + 1 = j + 1
      BY <1>1, <1>2 DEF QueuedOnce
    <2> QED
      BY <1>1, <2>1
  <1>5. \A i \in 1..Len(queue') : queue'[i] # queue[1] /\ where[queue'[i]] = "queued"
    BY <1>1, <1>2 DEF QueuedOnce
  <1>6. \A i \in 1..Len(queue') : where'[queue'[i]] = "queued"
    BY <1>0, <1>1, <1>2, <1>5
  <1>7. \A x \in Envelopes : where'[x] = "queued" => \E i \in 1..Len(queue') : queue'[i] = x
    <2> SUFFICES ASSUME NEW x \in Envelopes, where'[x] = "queued"
                 PROVE  \E i \in 1..Len(queue') : queue'[i] = x
      OBVIOUS
    <2>1. x # queue[1] /\ where[x] = "queued"
      BY <1>0, <1>1, <1>2
    <2>2. PICK i \in 1..Len(queue) : queue[i] = x
      BY <2>1 DEF QueuedOnce
    <2> QED
      BY <1>1, <1>3, <2>1, <2>2
  <1> QED
    BY <1>4, <1>6, <1>7 DEF QueuedOnce

(* Awaiting a call that is no shift, or the shift of an envelope that was  *)
(* in the queue.                                                           *)
LEMMA CallsGrow ==
    ASSUME TypeOK, ShiftsAreAwaited,
           NEW by \in {"replay", "failed", "shift"}, NEW e \in Envelopes, Await(by, e),
           by = "shift" => where[e] # "shifted" /\ where'[e] = "shifted" /\ isRetry'[e],
           \A x \in Envelopes : where[x] = "shifted" => where'[x] = "shifted",
           \A x \in Envelopes :
               where'[x] = "shifted" =>
                   (where[x] = "shifted" /\ isRetry'[x] = isRetry[x]) \/ (by = "shift" /\ x = e)
    PROVE  ShiftsAreAwaited'
  <1> DEFINE C == [by : {"replay", "failed", "shift"}, envelope : Envelopes]
  <1> DEFINE c == [by |-> by, envelope |-> e]
  <1>0. calls \in Seq(C) /\ c \in C /\ c.by = by /\ c.envelope = e
    BY DEF TypeOK
  <1>1. \A i \in 1..Len(calls) : calls[i] \in C
    <2> HIDE DEF C
    <2> QED
      BY <1>0, ElementOfSeq
  <1>2. \A i \in 1..Len(calls) : calls[i].envelope \in Envelopes
    BY <1>1
  <1> DEFINE n == Len(calls) + 1
  <1>3. /\ Len(calls) \in Nat /\ Len(calls') = n /\ calls'[n] = c
        /\ \A i \in 1..Len(calls) : calls'[i] = calls[i]
    <2> HIDE DEF C
    <2> QED
      BY <1>0, PushFacts DEF Await
  <1>4. \A i \in 1..n : i = n \/ i \in 1..Len(calls)
    BY <1>3
  <1> HIDE DEF n, C, c
  <1>5. \A i \in 1..n : calls'[i].by = "shift" => where'[calls'[i].envelope] = "shifted"
    BY <1>0, <1>2, <1>3, <1>4 DEF ShiftsAreAwaited
  <1>6. \A i \in 1..Len(calls) : calls[i].by = "shift" /\ by = "shift" => calls[i].envelope # e
    BY DEF ShiftsAreAwaited
  <1>7. \A i, j \in 1..n : /\ calls'[i].by = "shift" /\ calls'[j].by = "shift"
                          /\ calls'[i].envelope = calls'[j].envelope
                          => i = j
    BY <1>0, <1>3, <1>4, <1>6 DEF ShiftsAreAwaited
  <1>8. \A x \in Envelopes : where'[x] = "shifted" => isRetry'[x]
    BY DEF ShiftsAreAwaited
  <1> QED
    BY <1>3, <1>5, <1>7, <1>8 DEF ShiftsAreAwaited

LEMMA CallsShrink ==
    ASSUME TypeOK, ShiftsAreAwaited, NEW by, Resolved(by),
           \A x \in Envelopes : where[x] = "shifted" =>
               where'[x] = "shifted" \/ (by = "shift" /\ x = Head(calls).envelope),
           \A x \in Envelopes : where'[x] = "shifted" => where[x] = "shifted" /\ isRetry'[x] = isRetry[x]
    PROVE  ShiftsAreAwaited'
  <1> DEFINE C == [by : {"replay", "failed", "shift"}, envelope : Envelopes]
  <1>0. calls \in Seq(C)
    BY DEF TypeOK
  <1>1. \A i \in 1..Len(calls) : calls[i] \in C
    <2> HIDE DEF C
    <2> QED
      BY <1>0, ElementOfSeq
  <1>2. \A i \in 1..Len(calls) : calls[i].envelope \in Envelopes
    BY <1>1
  <1>3. /\ Len(calls) \in Nat \ {0} /\ Head(calls) = calls[1] /\ Len(calls') = Len(calls) - 1
        /\ \A i \in 1..Len(calls') : calls'[i] = calls[i + 1]
    <2> HIDE DEF C
    <2> QED
      BY <1>0, TailFacts DEF Resolved
  <1>4. 1 \in 1..Len(calls) /\ \A i \in 1..Len(calls') : i + 1 \in 1..Len(calls) /\ i + 1 # 1
    BY <1>3
  <1>5. calls[1].by = by
    BY <1>3 DEF Resolved
  <1> HIDE DEF C
  <1>6. ASSUME NEW i \in 1..Len(calls'), calls'[i].by = "shift"
        PROVE  where'[calls'[i].envelope] = "shifted"
    <2>1. calls'[i] = calls[i + 1] /\ i + 1 \in 1..Len(calls) /\ i + 1 # 1
      BY <1>3, <1>4
    <2>2. where[calls'[i].envelope] = "shifted" /\ calls'[i].envelope \in Envelopes
      BY <1>2, <1>6, <2>1 DEF ShiftsAreAwaited
    <2>3. by = "shift" => calls[i + 1].envelope # calls[1].envelope
      BY <1>4, <1>5, <1>6, <2>1 DEF ShiftsAreAwaited
    <2> QED
      BY <1>3, <2>1, <2>2, <2>3
  <1>7. ASSUME NEW i \in 1..Len(calls'), NEW j \in 1..Len(calls'),
               calls'[i].by = "shift", calls'[j].by = "shift",
               calls'[i].envelope = calls'[j].envelope
        PROVE  i = j
    <2>1. /\ calls'[i] = calls[i + 1] /\ i + 1 \in 1..Len(calls)
          /\ calls'[j] = calls[j + 1] /\ j + 1 \in 1..Len(calls)
      BY <1>3, <1>4
    <2>2. i + 1 = j + 1
      BY <1>7, <2>1 DEF ShiftsAreAwaited
    <2> QED
      BY <1>3, <2>2
  <1>8. \A x \in Envelopes : where'[x] = "shifted" => isRetry'[x]
    BY DEF ShiftsAreAwaited
  <1> QED
    BY <1>6, <1>7, <1>8 DEF ShiftsAreAwaited

LEMMA CallsUntouched ==
    ASSUME TypeOK, ShiftsAreAwaited, calls' = calls,
           \A x \in Envelopes : where'[x] = "shifted" <=> where[x] = "shifted",
           \A x \in Envelopes : where[x] = "shifted" => isRetry'[x] = isRetry[x]
    PROVE  ShiftsAreAwaited'
  <1> DEFINE C == [by : {"replay", "failed", "shift"}, envelope : Envelopes]
  <1>0. calls \in Seq(C)
    BY DEF TypeOK
  <1>1. \A i \in 1..Len(calls) : calls[i] \in C
    <2> HIDE DEF C
    <2> QED
      BY <1>0, ElementOfSeq
  <1>2. \A i \in 1..Len(calls) : calls[i].envelope \in Envelopes
    BY <1>1
  <1> QED
    BY <1>2 DEF ShiftsAreAwaited

(* The record of what was stored. *)
LEMMA RecordUntouched ==
    ASSUME TypeOK, StoredIsRecorded, firstStored' = firstStored,
           \A x \in Envelopes : where'[x] = "queued" \/ isRetry'[x] => where[x] = "queued" \/ isRetry[x],
           \A x \in Envelopes : Unsent(x)' => Unsent(x)
    PROVE  StoredIsRecorded'
  BY DEF StoredIsRecorded, Recorded

LEMMA RecordGrows ==
    ASSUME TypeOK, StoredIsRecorded, NEW e \in Envelopes, Push(e) \/ Unshift(e), isRetry' = isRetry
    PROVE  /\ StoredIsRecorded'
           /\ \A x \in Envelopes : Recorded(x) => Recorded(x)'
  <1>0. /\ firstStored \in Seq(Envelopes) /\ where \in [Envelopes -> Places] /\ Len(firstStored) \in Nat
    BY LenProperties DEF TypeOK
  <1>1. CASE Unstored(e)
    <2>1. firstStored' = firstStored /\ where' = [where EXCEPT ![e] = "unstored"]
      BY <1>1 DEF Unstored, storeVars
    <2>2. \A x \in Envelopes : Unsent(x)' => Unsent(x)
      BY <1>0, <2>1 DEF Unsent, UnderWay
    <2>3. \A x \in Envelopes : where'[x] = "queued" => where[x] = "queued"
      BY <1>0, <2>1
    <2> QED
      BY <2>1, <2>2, <2>3 DEF StoredIsRecorded, Recorded
  <1>2. ASSUME firstStored' = IF Contains(firstStored, e) THEN firstStored ELSE Append(firstStored, e),
               where' = [where EXCEPT ![e] = "queued"]
        PROVE  /\ StoredIsRecorded'
               /\ \A x \in Envelopes : Recorded(x) => Recorded(x)'
    <2>1. /\ Recorded(e)'
          /\ \A x \in Envelopes : Recorded(x) => Recorded(x)'
          /\ \A x \in Envelopes : Recorded(x)' => Recorded(x) \/ x = e
      <3>1. CASE Contains(firstStored, e)
        BY <1>2, <3>1 DEF Contains, Recorded
      <3>2. CASE ~Contains(firstStored, e)
        <4> DEFINE n == Len(firstStored) + 1
        <4>1. /\ Len(firstStored') = n /\ firstStored'[n] = e
              /\ \A i \in 1..Len(firstStored) : firstStored'[i] = firstStored[i]
          BY <1>0, <1>2, <3>2, PushFacts
        <4>2. n \in 1..n /\ \A i \in 1..n : i = n \/ i \in 1..Len(firstStored)
          BY <1>0
        <4>3. \A i \in 1..Len(firstStored) : i \in 1..n
          BY <1>0
        <4> HIDE DEF n
        <4> QED
          BY <4>1, <4>2, <4>3 DEF Recorded
      <3> QED
        BY <3>1, <3>2
    <2>2. \A x \in Envelopes : Unsent(x)' => Unsent(x) /\ x # e
      BY <1>0, <1>2 DEF Unsent, UnderWay
    <2>3. \A x \in Envelopes : where'[x] = "queued" => where[x] = "queued" \/ x = e
      BY <1>0, <1>2
    <2> HIDE DEF Unsent, Recorded
    <2>4. \A x \in Envelopes : where'[x] = "queued" \/ isRetry'[x] => Recorded(x)'
      BY <2>1, <2>3 DEF StoredIsRecorded
    <2>5. \A x \in Envelopes : Unsent(x)' => ~Recorded(x)'
      BY <2>1, <2>2 DEF StoredIsRecorded
    <2> QED
      BY <2>1, <2>4, <2>5 DEF StoredIsRecorded
  <1> QED
    BY <1>1, <1>2 DEF Push, Unshift, Put

(* The order. *)
LEMMA OrderUntouched ==
    ASSUME TypeOK, Ordered, queue' = queue, firstStored' = firstStored, overlapped' = overlapped,
           Retrying' \subseteq Retrying
    PROVE  Ordered'
  BY DEF Ordered, Precedes

(* An envelope stored for the first time goes behind all others. *)
LEMMA OrderGrows ==
    ASSUME TypeOK, QueuedOnce, StoredIsRecorded, Ordered,
           NEW e \in Envelopes, Push(e), ~Recorded(e), overlapped' = overlapped,
           Retrying' \subseteq Retrying
    PROVE  Ordered'
  <1>0. /\ queue \in Seq(Envelopes) /\ firstStored \in Seq(Envelopes)
        /\ Len(queue) \in Nat /\ Len(firstStored) \in Nat
        /\ \A i \in 1..Len(queue) : queue[i] \in Envelopes
    BY LenProperties, ElementOfSeq DEF TypeOK
  <1>1. CASE Unstored(e)
    BY <1>1, OrderUntouched DEF Unstored, storeVars
  <1>2. ASSUME queue' = Append(queue, e), firstStored' = Append(firstStored, e) PROVE Ordered'
    <2> DEFINE q == Len(queue) + 1
    <2> DEFINE n == Len(firstStored) + 1
    <2>1. /\ Len(queue') = q /\ queue'[q] = e /\ \A i \in 1..Len(queue) : queue'[i] = queue[i]
          /\ Len(firstStored') = n /\ firstStored'[n] = e
          /\ \A i \in 1..Len(firstStored) : firstStored'[i] = firstStored[i]
      BY <1>0, <1>2, PushFacts
    <2>2. /\ \A i \in 1..q : i = q \/ i \in 1..Len(queue)
          /\ \A i \in 1..Len(queue) : ~(q < i)
          /\ ~(q < q)
      BY <1>0
    <2>3. n \in 1..n /\ \A i \in 1..Len(firstStored) : i \in 1..n /\ i < n
      BY <1>0
    <2> HIDE DEF q, n
    <2>4. \A a, b : Precedes(firstStored, a, b) => Precedes(firstStored', a, b)
      BY <2>1, <2>3 DEF Precedes
    <2>5. \A a : Recorded(a) => Precedes(firstStored', a, e)
      BY <2>1, <2>3 DEF Precedes, Recorded
    <2>6. \A i \in 1..Len(queue) : Recorded(queue[i])
      BY <1>0 DEF StoredIsRecorded, QueuedOnce
    <2>7. \A x \in Retrying : Recorded(x)
      BY DEF Retrying, StoredIsRecorded
    <2> SUFFICES ASSUME ~overlapped PROVE Ordered'
      BY DEF Ordered
    <2>8. \A i, j \in 1..q : i < j => Precedes(firstStored', queue'[i], queue'[j])
      BY <2>1, <2>2, <2>4, <2>5, <2>6 DEF Ordered
    <2>9. \A x \in Retrying' : \A i \in 1..q : Precedes(firstStored', x, queue'[i])
      BY <2>1, <2>2, <2>4, <2>5, <2>7 DEF Ordered
    <2>10. \A a, b \in Retrying' : a = b
      BY DEF Ordered
    <2> QED
      BY <2>1, <2>8, <2>9, <2>10 DEF Ordered
  <1>3. ~Contains(firstStored, e)
    BY DEF Contains, Recorded
  <1> QED
    BY <1>1, <1>2, <1>3 DEF Push, Put

(* A failed retry goes back in front of what it preceded. *)
LEMMA OrderRestored ==
    ASSUME TypeOK, StoredIsRecorded, Ordered,
           NEW e \in Retrying, Unshift(e), overlapped' = overlapped,
           Retrying' \subseteq Retrying \ {e}
    PROVE  Ordered'
  <1>0. /\ queue \in Seq(Envelopes) /\ Len(queue) \in Nat
        /\ e \in Envelopes /\ isRetry[e]
    BY LenProperties DEF TypeOK, Retrying
  <1>1. CASE Unstored(e)
    BY <1>1, OrderUntouched DEF Unstored, storeVars
  <1>2. ASSUME queue' = <<e>> \o queue, firstStored' = firstStored PROVE Ordered'
    <2> DEFINE q == Len(queue) + 1
    <2>1. Len(queue') = q /\ queue'[1] = e /\ \A i \in 1..Len(queue) : queue'[i + 1] = queue[i]
      BY <1>0, <1>2, ConsFacts
    <2>2. \A i \in 1..q : i = 1 \/ \E k \in 1..Len(queue) : i = k + 1
      <3>1. \A i \in 1..q : i # 1 => i - 1 \in 1..Len(queue) /\ i = (i - 1) + 1
        BY <1>0
      <3> QED
        BY <3>1
    <2>3. /\ \A k \in 1..Len(queue) : ~(k + 1 < 1)
          /\ \A k, l \in 1..Len(queue) : k + 1 < l + 1 => k < l
          /\ ~(1 < 1)
      BY <1>0
    <2>4. \A a, b : Precedes(firstStored', a, b) <=> Precedes(firstStored, a, b)
      BY <1>2 DEF Precedes
    <2> HIDE DEF q
    <2> SUFFICES ASSUME ~overlapped PROVE Ordered'
      BY DEF Ordered
    <2>5. \A i, j \in 1..q : i < j => Precedes(firstStored, queue'[i], queue'[j])
      <3> SUFFICES ASSUME NEW i \in 1..q, NEW j \in 1..q, i < j PROVE Precedes(firstStored, queue'[i], queue'[j])
        OBVIOUS
      <3>1. PICK l \in 1..Len(queue) : j = l + 1
        <4>1. j # 1
          BY <2>2, <2>3
        <4> QED
          BY <2>2, <4>1
      <3>2. CASE i = 1
        BY <2>1, <3>1, <3>2 DEF Ordered
      <3>3. CASE i # 1
        <4>1. PICK k \in 1..Len(queue) : i = k + 1
          BY <2>2, <3>3
        <4>2. k < l
          BY <2>3, <3>1, <4>1
        <4> QED
          BY <2>1, <3>1, <4>1, <4>2 DEF Ordered
      <3> QED
        BY <3>2, <3>3
    <2>6. Retrying' = {}
      BY DEF Ordered
    <2> QED
      BY <2>1, <2>4, <2>5, <2>6 DEF Ordered
  <1>3. Contains(firstStored, e)
    BY <1>0 DEF Contains, Recorded, StoredIsRecorded
  <1> QED
    BY <1>1, <1>2, <1>3 DEF Unshift, Put

(* The envelope that is retried next precedes what stays in the queue. *)
LEMMA OrderTaken ==
    ASSUME TypeOK, Ordered, TimerFires
    PROVE  Ordered'
  <1>0. queue \in Seq(Envelopes) /\ queue # <<>> /\ firstStored' = firstStored
    BY DEF TypeOK, TimerFires, Shift
  <1>1. /\ Len(queue) \in Nat \ {0} /\ Head(queue) = queue[1] /\ Len(queue') = Len(queue) - 1
        /\ \A i \in 1..Len(queue') : queue'[i] = queue[i + 1]
    BY <1>0, TailFacts DEF TimerFires, Shift
  <1>2. /\ 1 \in 1..Len(queue)
        /\ \A i \in 1..Len(queue') : i + 1 \in 1..Len(queue) /\ 1 < i + 1
        /\ \A i, j \in 1..Len(queue') : i < j => i + 1 < j + 1
    BY <1>1
  <1>3. \A a, b : Precedes(firstStored', a, b) <=> Precedes(firstStored, a, b)
    BY <1>0 DEF Precedes
  <1> SUFFICES ASSUME ~overlapped' PROVE Ordered'
    BY DEF Ordered
  <1>4. ~overlapped /\ Retrying = {}
    BY DEF TimerFires
  <1>5. Retrying' \subseteq {queue[1]}
    <2>1. \A x \in Envelopes : x # queue[1] => where'[x] = where[x] /\ isRetry'[x] = isRetry[x]
      BY <1>1 DEF TimerFires, TypeOK
    <2> QED
      BY <1>4, <2>1 DEF Retrying
  <1>6. \A i, j \in 1..Len(queue') : i < j => Precedes(firstStored, queue'[i], queue'[j])
    BY <1>1, <1>2, <1>4 DEF Ordered
  <1>7. \A i \in 1..Len(queue') : Precedes(firstStored, queue[1], queue'[i])
    BY <1>1, <1>2, <1>4 DEF Ordered
  <1>8. /\ \A a, b \in Retrying' : a = b
        /\ \A i, j \in 1..Len(queue') : i < j => Precedes(firstStored', queue'[i], queue'[j])
        /\ \A x \in Retrying' : \A i \in 1..Len(queue') : Precedes(firstStored', x, queue'[i])
    BY <1>3, <1>5, <1>6, <1>7
  <1> QED
    BY <1>8 DEF Ordered

-----------------------------------------------------------------------------
(* The invariant holds initially, and every step keeps it. *)
LEMMA InvInit == Init => IInv
  <1> SUFFICES ASSUME Init PROVE IInv
    OBVIOUS
  <1>1. /\ Len(queue) = 0 /\ Len(calls) = 0 /\ Len(firstStored) = 0
        /\ \A i \in 1..0 : FALSE
    BY DEF Init
  <1>2. \A e \in Envelopes : where[e] = "new" /\ ~isRetry[e]
    BY DEF Init
  <1>3. QueuedOnce /\ ShiftsAreAwaited
    BY <1>1, <1>2 DEF QueuedOnce, ShiftsAreAwaited
  <1>4. StoredIsRecorded
    BY <1>1, <1>2 DEF StoredIsRecorded, Recorded
  <1>5. Ordered
    BY <1>1, <1>2 DEF Ordered, Retrying
  <1> QED
    BY <1>3, <1>4, <1>5, TypeInit DEF IInv

(* The steps that touch neither the queue nor its calls. *)
LEMMA QuietSteps ==
    ASSUME IInv,
           \/ \E e \in Envelopes : Send(e) \/ ShouldSend(e) \/ Fails(e) \/ Answered(e)
                                   \/ ServerError(e) \/ Refuse(e)
           \/ TimerFindsNothing \/ Flush \/ UNCHANGED vars
    PROVE  QueuedOnce' /\ ShiftsAreAwaited' /\ StoredIsRecorded' /\ Ordered'
  <1>0. where \in [Envelopes -> Places] /\ isRetry \in [Envelopes -> BOOLEAN]
    BY DEF IInv, TypeOK
  <1> DEFINE Quiet ==
        /\ queue' = queue /\ firstStored' = firstStored /\ calls' = calls
        /\ overlapped' = overlapped
        /\ \A x \in Envelopes : where'[x] = "queued" <=> where[x] = "queued"
        /\ \A x \in Envelopes : where'[x] = "shifted" <=> where[x] = "shifted"
        /\ \A x \in Envelopes : where[x] = "shifted" => isRetry'[x] = isRetry[x]
        /\ \A x \in Envelopes : isRetry'[x] => isRetry[x]
        /\ \A x \in Envelopes : Unsent(x)' => Unsent(x)
        /\ Retrying' \subseteq Retrying
  <1> USE DEF storeVars, timerVars
  <1>1. ASSUME NEW e \in Envelopes, Send(e) PROVE Quiet
    <2>1. /\ where' = [where EXCEPT ![e] = where'[e]] /\ where'[e] \in {"asking", "sending"}
          /\ isRetry' = [isRetry EXCEPT ![e] = FALSE] /\ where[e] = "new"
      BY <1>0, <1>1 DEF Send, Attempt
    <2> QED
      BY <1>0, <1>1, <2>1 DEF Send, Unsent, Retrying, UnderWay
  <1>2. ASSUME NEW e \in Envelopes, ShouldSend(e) \/ Fails(e) PROVE Quiet
    BY <1>0, <1>2 DEF ShouldSend, Fails, Unsent, Retrying, UnderWay
  <1>3. ASSUME NEW e \in Envelopes, Answered(e) \/ ServerError(e) \/ Refuse(e) PROVE Quiet
    BY <1>0, <1>3 DEF Answered, ServerError, Refuse, Unsent, Retrying, UnderWay
  <1>4. ASSUME TimerFindsNothing \/ Flush \/ UNCHANGED vars PROVE Quiet
    BY <1>4 DEF TimerFindsNothing, Flush, vars, Unsent, Retrying
  <1>5. Quiet
    BY <1>1, <1>2, <1>3, <1>4
  <1> QED
    BY <1>5, QueueUntouched, CallsUntouched, RecordUntouched, OrderUntouched DEF IInv

LEMMA SendReplayStep ==
    ASSUME IInv, NEW e \in Envelopes, SendReplay(e)
    PROVE  QueuedOnce' /\ ShiftsAreAwaited' /\ StoredIsRecorded' /\ Ordered'
  <1>0. /\ where \in [Envelopes -> Places] /\ isRetry \in [Envelopes -> BOOLEAN]
        /\ where[e] = "new" /\ Push(e) /\ Await("replay", e)
        /\ isRetry' = isRetry /\ overlapped' = overlapped
    BY DEF IInv, TypeOK, SendReplay
  <1>1. \E p \in {"queued", "unstored"} : where' = [where EXCEPT ![e] = p]
    BY <1>0 DEF Push, Put, Unstored
  <1>2. QueuedOnce'
    BY <1>0, QueueGrows DEF IInv
  <1>3. ShiftsAreAwaited'
    BY <1>0, <1>1, CallsGrow DEF IInv
  <1>4. StoredIsRecorded'
    BY <1>0, RecordGrows DEF IInv
  <1>5. ~Recorded(e)
    BY <1>0 DEF IInv, StoredIsRecorded, Unsent
  <1>6. Retrying' \subseteq Retrying
    BY <1>0, <1>1 DEF Retrying, UnderWay
  <1>7. Ordered'
    BY <1>0, <1>5, <1>6, OrderGrows DEF IInv
  <1> QED
    BY <1>2, <1>3, <1>4, <1>7

LEMMA KeepFailedStep ==
    ASSUME IInv, NEW e \in Envelopes, KeepFailed(e)
    PROVE  QueuedOnce' /\ ShiftsAreAwaited' /\ StoredIsRecorded' /\ Ordered'
  <1>0. /\ where \in [Envelopes -> Places] /\ isRetry \in [Envelopes -> BOOLEAN]
        /\ where[e] = "failed" /\ Await("failed", e)
        /\ isRetry' = isRetry /\ overlapped' = overlapped
        /\ IF isRetry[e] THEN Unshift(e) ELSE Push(e)
    BY DEF IInv, TypeOK, KeepFailed, Store
  <1>1. \E p \in {"queued", "unstored"} : where' = [where EXCEPT ![e] = p]
    BY <1>0 DEF Push, Unshift, Put, Unstored
  <1>2. QueuedOnce'
    BY <1>0, QueueGrows DEF IInv
  <1>3. ShiftsAreAwaited'
    BY <1>0, <1>1, CallsGrow DEF IInv
  <1>4. StoredIsRecorded'
    BY <1>0, RecordGrows DEF IInv
  <1>5. Retrying' \subseteq Retrying \ {e}
    BY <1>0, <1>1 DEF Retrying, UnderWay
  <1>6. CASE isRetry[e]
    <2>1. e \in Retrying
      BY <1>0, <1>6 DEF Retrying, UnderWay
    <2>2. Ordered'
      BY <1>0, <1>5, <1>6, <2>1, OrderRestored DEF IInv
    <2> QED
      BY <1>2, <1>3, <1>4, <2>2
  <1>7. CASE ~isRetry[e]
    <2>1. ~Recorded(e)
      BY <1>0, <1>7 DEF IInv, StoredIsRecorded, Unsent, UnderWay
    <2>2. Ordered'
      BY <1>0, <1>5, <1>7, <2>1, OrderGrows DEF IInv
    <2> QED
      BY <1>2, <1>3, <1>4, <2>2
  <1> QED
    BY <1>6, <1>7

(* ReplayPushed, FailedStored and SendShifted: the oldest call is resolved. *)
LEMMA ResolvedSteps ==
    ASSUME IInv, ReplayPushed \/ FailedStored \/ \E e \in Envelopes : SendShifted(e)
    PROVE  QueuedOnce' /\ ShiftsAreAwaited' /\ StoredIsRecorded' /\ Ordered'
  <1>0. /\ where \in [Envelopes -> Places] /\ isRetry \in [Envelopes -> BOOLEAN]
    BY DEF IInv, TypeOK
  <1>1. ASSUME NEW by \in {"replay", "failed"}, Resolved(by),
               UNCHANGED <<where, isRetry, queue, firstStored, overlapped>>
        PROVE  QueuedOnce' /\ ShiftsAreAwaited' /\ StoredIsRecorded' /\ Ordered'
    <2>1. \A x \in Envelopes : Unsent(x)' => Unsent(x)
      BY <1>1 DEF Unsent
    <2>2. Retrying' \subseteq Retrying
      BY <1>1 DEF Retrying
    <2> QED
      BY <1>1, <2>1, <2>2, QueueUntouched, CallsShrink, RecordUntouched, OrderUntouched DEF IInv
  <1>2. ASSUME NEW e \in Envelopes, SendShifted(e)
        PROVE  QueuedOnce' /\ ShiftsAreAwaited' /\ StoredIsRecorded' /\ Ordered'
    <2>1. /\ Resolved("shift") /\ Head(calls).envelope = e
          /\ queue' = queue /\ firstStored' = firstStored /\ overlapped' = overlapped
          /\ where' = [where EXCEPT ![e] = where'[e]] /\ where'[e] \in {"asking", "sending"}
          /\ isRetry' = [isRetry EXCEPT ![e] = TRUE]
      BY <1>0, <1>2 DEF SendShifted, Attempt, storeVars
    <2>2. where[e] = "shifted" /\ isRetry[e]
      <3> DEFINE C == [by : {"replay", "failed", "shift"}, envelope : Envelopes]
      <3>1. calls \in Seq(C)
        BY DEF IInv, TypeOK
      <3>2. Len(calls) \in Nat \ {0} /\ Head(calls) = calls[1]
        <4> HIDE DEF C
        <4> QED
          BY <2>1, <3>1, TailFacts DEF Resolved
      <3>3. 1 \in 1..Len(calls)
        BY <3>2
      <3> QED
        BY <2>1, <3>2, <3>3 DEF Resolved, IInv, ShiftsAreAwaited
    <2>3. /\ \A x \in Envelopes : where'[x] = "queued" <=> where[x] = "queued"
          /\ \A x \in Envelopes : isRetry'[x] = isRetry[x]
          /\ \A x \in Envelopes : where'[x] = "shifted" => where[x] = "shifted"
          /\ \A x \in Envelopes : where[x] = "shifted" => where'[x] = "shifted" \/ x = e
      BY <1>0, <2>1, <2>2
    <2>4. \A x \in Envelopes : Unsent(x)' => Unsent(x)
      BY <1>0, <2>1, <2>2, <2>3 DEF Unsent, UnderWay
    <2>5. Retrying' \subseteq Retrying
      BY <1>0, <2>1, <2>2, <2>3 DEF Retrying, UnderWay
    <2>6. QueuedOnce' /\ StoredIsRecorded' /\ Ordered'
      BY <2>1, <2>3, <2>4, <2>5, QueueUntouched, RecordUntouched, OrderUntouched DEF IInv
    <2>7. ShiftsAreAwaited'
      BY <2>1, <2>3, CallsShrink DEF IInv
    <2> QED
      BY <2>6, <2>7
  <1> QED
    BY <1>1, <1>2 DEF ReplayPushed, FailedStored, storeVars

LEMMA TimerStep ==
    ASSUME IInv, TimerFires
    PROVE  QueuedOnce' /\ ShiftsAreAwaited' /\ StoredIsRecorded' /\ Ordered'
  <1> DEFINE h == Head(queue)
  <1>0. /\ where \in [Envelopes -> Places] /\ isRetry \in [Envelopes -> BOOLEAN]
        /\ queue \in Seq(Envelopes) /\ queue # <<>> /\ queue' = Tail(queue)
        /\ where' = [where EXCEPT ![h] = "shifted"]
        /\ isRetry' = [isRetry EXCEPT ![h] = TRUE]
        /\ Await("shift", h) /\ firstStored' = firstStored
    BY DEF IInv, TypeOK, TimerFires, Shift
  <1>1. h \in Envelopes /\ where[h] = "queued"
    <2>1. Len(queue) \in Nat \ {0} /\ h = queue[1] /\ h \in Envelopes
      BY <1>0, TailFacts
    <2>2. 1 \in 1..Len(queue)
      BY <2>1
    <2> QED
      BY <2>1, <2>2 DEF IInv, QueuedOnce
  <1>2. QueuedOnce'
    BY <1>0, QueueShrinks DEF IInv
  <1> HIDE DEF h
  <1>3. ShiftsAreAwaited'
    BY <1>0, <1>1, CallsGrow DEF IInv
  <1>4. /\ \A x \in Envelopes : where'[x] = "queued" \/ isRetry'[x] => where[x] = "queued" \/ isRetry[x]
        /\ \A x \in Envelopes : Unsent(x)' => Unsent(x)
    BY <1>0, <1>1 DEF Unsent, UnderWay
  <1>5. StoredIsRecorded'
    BY <1>0, <1>4, RecordUntouched DEF IInv
  <1>6. Ordered'
    BY OrderTaken DEF IInv
  <1> QED
    BY <1>2, <1>3, <1>5, <1>6

LEMMA RestartStep ==
    ASSUME IInv, Restart
    PROVE  QueuedOnce' /\ ShiftsAreAwaited' /\ StoredIsRecorded' /\ Ordered'
  <1>0. /\ where \in [Envelopes -> Places]
        /\ where' = [e \in Envelopes |-> IF where[e] \in UnderWay THEN "lost" ELSE where[e]]
        /\ calls' = <<>> /\ isRetry' = isRetry /\ queue' = queue
        /\ firstStored' = firstStored /\ overlapped' = overlapped
    BY DEF IInv, TypeOK, Restart, storeVars
  <1>1. /\ \A x \in Envelopes : where'[x] = "queued" <=> where[x] = "queued"
        /\ \A x \in Envelopes : where'[x] \notin UnderWay
        /\ \A x \in Envelopes : Unsent(x)' => Unsent(x)
    BY <1>0 DEF UnderWay, Unsent
  <1>2. ShiftsAreAwaited'
    <2>1. Len(calls') = 0 /\ \A i \in 1..0 : FALSE
      BY <1>0
    <2>2. \A x \in Envelopes : where'[x] # "shifted"
      BY <1>1 DEF UnderWay
    <2> QED
      BY <2>1, <2>2 DEF ShiftsAreAwaited
  <1>3. Retrying' \subseteq Retrying
    BY <1>1 DEF Retrying
  <1> QED
    BY <1>0, <1>1, <1>2, <1>3, QueueUntouched, RecordUntouched, OrderUntouched DEF IInv

LEMMA InvStep == IInv /\ [Next]_vars => IInv'
  <1> SUFFICES ASSUME IInv, [Next]_vars PROVE IInv'
    OBVIOUS
  <1>1. TypeOK'
    BY TypeStep DEF IInv
  <1>2. QueuedOnce' /\ ShiftsAreAwaited' /\ StoredIsRecorded' /\ Ordered'
    BY QuietSteps, SendReplayStep, KeepFailedStep, ResolvedSteps, TimerStep, RestartStep DEF Next
  <1> QED
    BY <1>1, <1>2 DEF IInv

THEOREM Invariance == Spec => []IInv
  BY InvInit, InvStep, PTL DEF Spec

(* offline.ts:97-120, 166-173 and the store: an envelope is in the queue   *)
(* once, or in one attempt, or done with; never in two of these.           *)
THEOREM EnvelopesAreStoredOnce == Spec => []StoredOnce
  <1>1. IInv => StoredOnce
    <2> SUFFICES ASSUME IInv PROVE StoredOnce
      OBVIOUS
    <2>1. DOMAIN queue = 1..Len(queue) /\ \A i \in 1..Len(queue) : queue[i] \in Envelopes
      BY LenProperties, ElementOfSeq DEF IInv, TypeOK
    <2> QED
      BY <2>1 DEF IInv, QueuedOnce, StoredOnce, IsInjective, ToSet
  <1> QED
    BY <1>1, Invariance, PTL

(* offline.ts:133-134, 167-172: unless retries overlap, what is retried    *)
(* and what waits behind it is in the order it was first stored.           *)
THEOREM RetriesKeepOrder == Spec => []InOrder
  <1>1. IInv => InOrder
    <2> SUFFICES ASSUME IInv PROVE InOrder
      OBVIOUS
    <2>1. DOMAIN queue = 1..Len(queue) /\ DOMAIN firstStored = 1..Len(firstStored)
      BY Indexes DEF IInv
    <2>2. \A a, b : Precedes(firstStored, a, b) => Before(a, b)
      BY <2>1 DEF Precedes, Before
    <2> QED
      BY <2>1, <2>2 DEF IInv, Ordered, InOrder
  <1> QED
    BY <1>1, Invariance, PTL
-----------------------------------------------------------------------------
(* offline.ts:122-130, 137, 158-163, 173: a step that leaves the queue      *)
(* without anything that will look at it is one of the four that may.       *)
LEMMA UnwatchedStep ==
    ASSUME TypeOK, [Next]_vars, Unwatched', ~Unwatched
    PROVE  \/ \E e \in Envelopes : ServerError(e) \/ Refuse(e)
           \/ TimerFindsNothing
           \/ Restart /\ ~FlushAtStartup
  <1>0. /\ where \in [Envelopes -> Places]
        /\ flushTimer' = NoTimer /\ calls' = <<>>
        /\ \A e \in Envelopes : where'[e] \notin UnderWay
    BY DEF TypeOK, Unwatched
  <1>a. NoTimer \notin {MinDelay} \union RetryAfters
    BY OfflineAssumption DEF NoTimer
  <1>b. \A by \in {"replay", "failed", "shift"}, e \in Envelopes : ~Await(by, e)
    <2> SUFFICES ASSUME NEW by \in {"replay", "failed", "shift"}, NEW e \in Envelopes, Await(by, e)
                 PROVE  FALSE
      OBVIOUS
    <2> DEFINE C == [by : {"replay", "failed", "shift"}, envelope : Envelopes]
    <2>2. [by |-> by, envelope |-> e] \in C /\ calls \in Seq(C)
      BY DEF TypeOK
    <2> HIDE DEF C
    <2>1. calls' # <<>>
      BY <2>2, AppendProperties DEF Await
    <2> QED
      BY <1>0, <2>1
  <1>1. ASSUME NEW e \in Envelopes, Send(e) \/ SendShifted(e) \/ ShouldSend(e) \/ Fails(e)
        PROVE  FALSE
    BY <1>0, <1>1 DEF Send, SendShifted, ShouldSend, Fails, Attempt, UnderWay
  <1>2. ASSUME NEW e \in Envelopes, SendReplay(e) \/ KeepFailed(e) PROVE FALSE
    BY <1>b, <1>2 DEF SendReplay, KeepFailed
  <1>3. ASSUME NEW e \in Envelopes, Answered(e) PROVE FALSE
    BY <1>0, <1>a, <1>3 DEF Answered, FlushIn
  <1>4. ASSUME ReplayPushed \/ Flush PROVE FALSE
    BY <1>0, <1>a, <1>4 DEF ReplayPushed, Flush, FlushIn
  <1>5. ASSUME FailedStored PROVE FALSE
    BY <1>0, <1>5, BackOffArms DEF FailedStored
  <1>6. ASSUME TimerFires PROVE FALSE
    <2>1. Head(queue) \in Envelopes
      BY <1>6, TailFacts DEF TypeOK, TimerFires, Shift
    <2> QED
      BY <1>b, <1>6, <2>1 DEF TimerFires
  <1>7. ASSUME Restart, FlushAtStartup PROVE FALSE
    BY <1>0, <1>7, StartupTypes DEF Restart
  <1>8. ASSUME UNCHANGED vars PROVE FALSE
    BY <1>8 DEF vars, Unwatched
  <1>9. FlushAtStartup \in BOOLEAN
    BY OfflineAssumption
  <1> QED
    BY <1>1, <1>2, <1>3, <1>4, <1>5, <1>6, <1>7, <1>8, <1>9 DEF Next

(* The variables keep their types; the delay stays below MAX_DELAY.        *)
THEOREM TypeCorrect == Spec => []TypeOK
  BY TypeInit, TypeStep, PTL DEF Spec

(* A store that is not empty keeps something that will look at it, unless  *)
(* the server answered with an error, a send was rejected, a transaction   *)
(* of the store failed, or the page was reloaded without a flush at        *)
(* startup.                                                                *)
THEOREM QueueIsWatched == Spec => NeverLeftUnwatched
  <1>1. TypeOK /\ [Next]_vars =>
          (Unwatched' /\ ~Unwatched =>
              \/ \E e \in Envelopes : ServerError(e) \/ Refuse(e)
              \/ TimerFindsNothing
              \/ Restart /\ ~FlushAtStartup)
    BY UnwatchedStep
  <1>2. [][TypeOK /\ Next]_vars => NeverLeftUnwatched
    BY <1>1, PTL DEF NeverLeftUnwatched
  <1> QED
    BY <1>2, TypeCorrect, PTL DEF Spec
=============================================================================
