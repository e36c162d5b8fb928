-------------------------- MODULE Transport_proofs --------------------------
(* Proofs about Transport and the RateLimitLog it extends: for any          *)
(* responses in any order, and any envelopes, items and limit.              *)
EXTENDS Transport, DataFacts, FiniteSetTheorems, TLAPS

-----------------------------------------------------------------------------
(* RateLimitLog: the table, the clock and the log. *)

LEMMA DelayIsInt == ASSUME NEW limit \in HeaderEntry PROVE Delay(limit) \in Int
  <1>1. limit.delay \in Seq(Int)
    BY DEF HeaderEntry
  <1>2. limit.delay # <<>> => Head(limit.delay) \in Int
    BY <1>1, HeadTailProperties
  <1> QED
    BY <1>2, RateLimitsAssumption DEF Delay

(* What a response says about a key is a time. *)
LEMMA VerdictIsTimes ==
    ASSUME NEW response \in Response, NEW at \in Int
    PROVE  \A k \in DOMAIN Verdict(response, at) : Verdict(response, at)[k] \in Int
  <1>1. DefaultDelay \in Int
    BY RateLimitsAssumption
  <1>2. ParseRetryAfterHeader(response.retryAfter, at) \in Int
    BY <1>1 DEF ParseRetryAfterHeader, Response, RetryAfter
  <1>3. \A limit \in HeaderEntry : Delay(limit) \in Int
    BY DelayIsInt
  <1>4. \A k \in DOMAIN HeaderVerdict(response.limits, at) :
            HeaderVerdict(response.limits, at)[k] \in Int
    <2> DEFINE limits == response.limits
    <2>1. limits \in Seq(HeaderEntry)
      BY DEF Response
    <2> SUFFICES ASSUME NEW k \in Keys, \E i \in DOMAIN limits : Applies(limits[i], k)
                 PROVE  at + Delay(limits[LastApplying(limits, k)]) \in Int
      BY DEF HeaderVerdict
    <2>2. LastApplying(limits, k) \in DOMAIN limits
      <3> DEFINE T == {i \in DOMAIN limits : Applies(limits[i], k)}
      <3>1. DOMAIN limits = 1..Len(limits) /\ Len(limits) \in Nat
        BY <2>1, LenProperties
      <3>2. T \in SUBSET (1..Len(limits)) /\ T # {}
        BY <3>1
      <3>3. \E i \in T : \A j \in T : j <= i
        <4> HIDE DEF T
        <4> QED
          BY <3>1, <3>2, GreatestIndex
      <3>4. \E i \in DOMAIN limits :
               /\ Applies(limits[i], k)
               /\ \A j \in DOMAIN limits : Applies(limits[j], k) => j <= i
        BY <3>3
      <3> QED
        BY <3>4 DEF LastApplying
    <2>3. limits[LastApplying(limits, k)] \in HeaderEntry
      BY <2>1, <2>2, ElementOfSeq
    <2> QED
      BY <1>3, <2>3
  <1> QED
    BY <1>1, <1>2, <1>4 DEF Verdict

LEMMA TableType ==
    ASSUME NEW table \in Table, NEW response \in Response, NEW at \in Int
    PROVE  UpdateRateLimits(table, response, at) \in Table
  BY VerdictIsTimes DEF UpdateRateLimits, Table

(* An entry of the table is what the last response about its key said. *)
EntryIsLastWord(k) == rateLimits[k] = IF Spoken(k) = {} THEN 0 ELSE LastWord(k)
TableIsLastWord == \A k \in Keys : EntryIsLastWord(k)

LogIInv == LogTypeOK /\ TableIsLastWord

-----------------------------------------------------------------------------
(* A response speaks only about keys of the table. *)
LEMMA VerdictIsOfKeys ==
    ASSUME NEW response \in Responses, NEW at \in 1..MaxNow
    PROVE  /\ DOMAIN Verdict(response, at) \subseteq Keys
           /\ \A k \in DOMAIN Verdict(response, at) : Verdict(response, at)[k] \in Int \ {0}
  <1>1. DOMAIN Verdict(response, at) \subseteq Keys
    <2>1. CASE response.limits # <<>>
      BY <2>1 DEF Verdict, HeaderVerdict
    <2>2. CASE response.limits = <<>> /\ response.retryAfter.kind # "absent"
      BY <2>2 DEF Verdict, Keys
    <2>3. CASE response.limits = <<>> /\ response.retryAfter.kind = "absent"
      BY <2>3 DEF Verdict, Keys
    <2> QED
      BY <2>1, <2>2, <2>3
  <1> QED
    BY <1>1, VerdictAssumption

(* The last of a set of indices that holds the greatest of them. *)
LEMMA LastIndex ==
    ASSUME NEW S \in SUBSET Nat, NEW n \in S, \A i \in S : i <= n
    PROVE  (CHOOSE i \in S : \A j \in S : j <= i) = n
  <1>1. \E i \in S : \A j \in S : j <= i
    OBVIOUS
  <1>2. ASSUME NEW i \in S, \A j \in S : j <= i PROVE i = n
    BY <1>2
  <1> QED
    BY <1>1, <1>2

(* What the log says of a key after one more response. *)
LEMMA OneMoreWord ==
    ASSUME LogTypeOK, NEW k \in Keys, NEW response \in Responses, Receive(response)
    PROVE  IF k \in DOMAIN Verdict(response, now)
           THEN Spoken(k)' # {} /\ LastWord(k)' = Verdict(response, now)[k]
           ELSE Spoken(k)' = Spoken(k) /\ (Spoken(k) # {} => LastWord(k)' = LastWord(k))
  <1> DEFINE entry == [at |-> now, response |-> response]
             n == Len(log) + 1
  <1>1. /\ log' = Append(log, entry)
        /\ DOMAIN log = 1..Len(log) /\ DOMAIN log' = 1..n /\ Len(log) \in Nat
        /\ \A i \in DOMAIN log : log'[i] = log[i]
        /\ log'[n] = entry
    BY DEF Receive, LogTypeOK
  <1>2. \A i \in DOMAIN log : Speaks(log'[i], k) <=> Speaks(log[i], k)
    BY <1>1
  <1>3. Speaks(log'[n], k) <=> k \in DOMAIN Verdict(response, now)
    BY <1>1 DEF Speaks
  <1>4. CASE k \in DOMAIN Verdict(response, now)
    <2>1. n \in Spoken(k)' /\ Spoken(k)' \subseteq 1..n
      BY <1>1, <1>3, <1>4 DEF Spoken
    <2>2. (CHOOSE i \in Spoken(k)' : \A j \in Spoken(k)' : j <= i) = n
      BY <2>1, <1>1, LastIndex
    <2>3. LastWord(k)' = Verdict(log'[n].response, log'[n].at)[k]
      BY <2>2 DEF LastWord
    <2> QED
      BY <1>1, <1>4, <2>1, <2>3
  <1>5. CASE k \notin DOMAIN Verdict(response, now)
    <2>1. Spoken(k)' = Spoken(k)
      BY <1>1, <1>2, <1>3, <1>5 DEF Spoken
    <2>2. ASSUME Spoken(k) # {} PROVE LastWord(k)' = LastWord(k)
      <3> DEFINE last == CHOOSE i \in Spoken(k) : \A j \in Spoken(k) : j <= i
      <3>1. LastWord(k)' = Verdict(log'[last].response, log'[last].at)[k]
        BY <2>1 DEF LastWord
      <3>2. last \in Spoken(k)
        <4>1. Spoken(k) \subseteq 1..Len(log)
          BY <1>1 DEF Spoken
        <4>2. \E i \in Spoken(k) : \A j \in Spoken(k) : j <= i
          BY <4>1, <1>1, <2>2, GreatestIndex
        <4> QED
          BY <4>2
      <3>3. log'[last] = log[last]
        BY <3>2, <1>1 DEF Spoken
      <3> QED
        BY <3>1, <3>3 DEF LastWord
    <2> QED
      BY <1>5, <2>1, <2>2
  <1> QED
    BY <1>4, <1>5

(* The log grows by a well-formed entry. *)
LEMMA LogGrows ==
    ASSUME LogTypeOK, NEW response \in Responses, Receive(response)
    PROVE  log' \in Seq([at: 1..now', response: Responses]) /\ Len(log') = Len(log) + 1
  <1>1. /\ log \in Seq([at: 1..now, response: Responses])
        /\ [at |-> now, response |-> response] \in [at: 1..now, response: Responses]
        /\ log' = Append(log, [at |-> now, response |-> response]) /\ now' = now
    BY DEF LogTypeOK, Receive
  <1> QED
    BY <1>1, PushFacts

-----------------------------------------------------------------------------
LEMMA LogInitHolds == LogInit => LogIInv
  <1> SUFFICES ASSUME LogInit PROVE LogIInv
    OBVIOUS
  <1>1. LogTypeOK
    BY LogAssumption DEF LogInit, LogTypeOK, NoLimits, Table
  <1>2. \A k \in Keys : Spoken(k) = {} /\ rateLimits[k] = 0
    BY DEF LogInit, Spoken, NoLimits
  <1> QED
    BY <1>1, <1>2 DEF LogIInv, TableIsLastWord, EntryIsLastWord

(* A step that leaves table and log alone leaves their relation alone. *)
LEMMA SameTable ==
    ASSUME TableIsLastWord, rateLimits' = rateLimits, log' = log
    PROVE  TableIsLastWord'
  <1> SUFFICES ASSUME NEW k \in Keys PROVE EntryIsLastWord(k)'
    BY DEF TableIsLastWord
  <1>1. EntryIsLastWord(k)
    BY DEF TableIsLastWord
  <1>2. Spoken(k)' = Spoken(k)
    BY DEF Spoken, Speaks
  <1>3. LastWord(k)' = LastWord(k)
    BY <1>2 DEF LastWord
  <1> QED
    BY <1>1, <1>2, <1>3 DEF EntryIsLastWord

LEMMA LogStepHolds == LogIInv /\ [LogNext]_logVars => LogIInv'
  <1> SUFFICES ASSUME LogIInv, [LogNext]_logVars PROVE LogIInv'
    OBVIOUS
  <1> USE DEF LogIInv
  <1>1. ASSUME NEW response \in Responses, Receive(response) PROVE LogIInv'
    <2> DEFINE verdict == Verdict(response, now)
    <2>1. /\ now' = now /\ now \in 1..MaxNow
          /\ rateLimits' = [k \in Keys |-> IF k \in DOMAIN verdict THEN verdict[k] ELSE rateLimits[k]]
          /\ rateLimits \in [Keys -> Int]
      BY <1>1 DEF Receive, UpdateRateLimits, LogTypeOK, Table
    <2>2. \A k \in DOMAIN verdict : verdict[k] \in Int
      BY <2>1, VerdictIsOfKeys
    <2>3. LogTypeOK'
      <3>1. rateLimits' \in Table
        <4> HIDE DEF verdict
        <4> QED
          BY <2>1, <2>2 DEF Table
      <3>2. Len(log') <= MaxResponses
        <4>1. Len(log) \in Nat /\ Len(log) < MaxResponses
          BY <1>1 DEF Receive, LogTypeOK
        <4> QED
          BY <4>1, <1>1, LogGrows, LogAssumption
      <3> QED
        BY <3>1, <3>2, <2>1, <1>1, LogGrows DEF LogTypeOK
    <2>4. ASSUME NEW k \in Keys PROVE EntryIsLastWord(k)'
      <3>1. CASE k \in DOMAIN verdict
        <4>1. Spoken(k)' # {} /\ LastWord(k)' = verdict[k]
          BY <3>1, <1>1, OneMoreWord
        <4>2. rateLimits'[k] = verdict[k]
          BY <2>1, <3>1
        <4> QED
          BY <4>1, <4>2 DEF EntryIsLastWord
      <3>2. CASE k \notin DOMAIN verdict
        <4>1. Spoken(k)' = Spoken(k) /\ (Spoken(k) # {} => LastWord(k)' = LastWord(k))
          BY <3>2, <1>1, OneMoreWord
        <4>2. rateLimits'[k] = rateLimits[k]
          BY <2>1, <3>2
        <4>3. EntryIsLastWord(k)
          BY DEF TableIsLastWord
        <4> QED
          BY <4>1, <4>2, <4>3 DEF EntryIsLastWord
      <3> QED
        BY <3>1, <3>2
    <2> QED
      BY <2>3, <2>4 DEF TableIsLastWord
  <1>2. CASE TimePasses
    <2>1. now \in Nat /\ now' = now + 1 /\ now' \in 1..MaxNow /\ rateLimits' = rateLimits /\ log' = log
      BY <1>2, LogAssumption DEF TimePasses, LogTypeOK
    <2>2. [at: 1..now, response: Responses] \subseteq [at: 1..now', response: Responses]
      BY <2>1
    <2>3. log \in Seq([at: 1..now', response: Responses])
      <3> DEFINE Past == [at: 1..now, response: Responses]
                 Entries == [at: 1..now', response: Responses]
      <3>1. log \in Seq(Past) /\ Past \subseteq Entries
        BY <2>2 DEF LogTypeOK
      <3> HIDE DEF Past, Entries
      <3>2. log \in Seq(Entries)
        BY <3>1
      <3> QED
        BY <3>2 DEF Entries
    <2>4. LogTypeOK'
      BY <2>1, <2>3 DEF LogTypeOK
    <2>5. TableIsLastWord'
      BY <2>1, SameTable
    <2> QED
      BY <2>4, <2>5
  <1>3. CASE UNCHANGED logVars
    <2>1. LogTypeOK'
      BY <1>3 DEF logVars, LogTypeOK
    <2> QED
      BY <1>3, <2>1, SameTable DEF logVars
  <1> QED
    BY <1>1, <1>2, <1>3 DEF LogNext

-----------------------------------------------------------------------------
(* What an entry of the table says, in words of the log. *)
LEMMA LastWordIsNotZero ==
    ASSUME LogTypeOK, NEW k \in Keys, Spoken(k) # {}
    PROVE  LastWord(k) \in Int \ {0}
  <1> DEFINE last == CHOOSE i \in Spoken(k) : \A j \in Spoken(k) : j <= i
  <1>1. Len(log) \in Nat /\ Spoken(k) \subseteq 1..Len(log)
    BY LenProperties DEF LogTypeOK, Spoken
  <1>2. last \in Spoken(k)
    <2>1. \E i \in Spoken(k) : \A j \in Spoken(k) : j <= i
      BY <1>1, GreatestIndex
    <2> QED
      BY <2>1
  <1> HIDE DEF last
  <1>3. /\ log[last] \in [at: 1..now, response: Responses]
        /\ k \in DOMAIN Verdict(log[last].response, log[last].at)
    BY <1>1, <1>2, ElementOfSeq DEF LogTypeOK, Spoken, Speaks
  <1>4. log[last].response \in Responses /\ log[last].at \in 1..MaxNow
    BY <1>3, LogAssumption DEF LogTypeOK
  <1>5. Verdict(log[last].response, log[last].at)[k] \in Int \ {0}
    BY <1>3, <1>4, VerdictIsOfKeys
  <1> QED
    BY <1>5 DEF LastWord, last

LEMMA ServerIsObeyedHolds == LogIInv => ServerIsObeyed
  <1> SUFFICES ASSUME LogIInv, NEW c \in Categories
               PROVE  IsRateLimited(rateLimits, c, now) <=>
                          \/ Spoken(c) # {} /\ LastWord(c) > now
                          \/ Spoken(c) = {} /\ Spoken(All) # {} /\ LastWord(All) > now
    BY DEF ServerIsObeyed
  <1>1. c \in Keys /\ All \in Keys /\ LogTypeOK /\ now \in Nat \ {0}
    BY LogAssumption DEF Keys, LogIInv, LogTypeOK
  <1>2. \A k \in Keys : rateLimits[k] = IF Spoken(k) = {} THEN 0 ELSE LastWord(k)
    BY DEF LogIInv, TableIsLastWord, EntryIsLastWord
  <1>3. \A k \in Keys : Spoken(k) # {} => LastWord(k) \in Int \ {0}
    BY <1>1, LastWordIsNotZero
  <1>4. CASE Spoken(c) # {}
    BY <1>1, <1>2, <1>3, <1>4 DEF IsRateLimited, DisabledUntil
  <1>5. CASE Spoken(c) = {}
    BY <1>1, <1>2, <1>3, <1>5 DEF IsRateLimited, DisabledUntil
  <1> QED
    BY <1>4, <1>5

(* The table stays a table of integers, and the log one of responses       *)
(* received in the past.                                                   *)
THEOREM LogTypeCorrect == LogSpec => []LogTypeOK
  <1>1. LogIInv => LogTypeOK
    BY DEF LogIInv
  <1> QED
    BY <1>1, LogInitHolds, LogStepHolds, PTL DEF LogSpec

(* Whatever responses arrive, in whatever order, a category is limited     *)
(* exactly while the last response about it says so, or, if none was ever  *)
(* about it, the last one about all categories (ratelimit.ts:37-46).       *)
THEOREM ServerIsAlwaysObeyed == LogSpec => []ServerIsObeyed
  <1> QED
    BY LogInitHolds, LogStepHolds, ServerIsObeyedHolds, PTL DEF LogSpec
-----------------------------------------------------------------------------
(* The loop over the entries of one header. *)

\* What the loop computes, with a name for its function over sets of indexes.
HeaderRule(g, t, limits, at) ==
    [s \in SUBSET DOMAIN limits |->
        IF s = {} THEN t ELSE AssignLimit(g[s \ {Max(s)}], limits[Max(s)], at)]
HeaderFold(t, limits, at) == CHOOSE g : g = HeaderRule(g, t, limits, at)

LEMMA HeaderLoopIsFold ==
    ASSUME NEW t, NEW limits, NEW at
    PROVE  FoldLeft(LAMBDA acc, limit : AssignLimit(acc, limit, at), t, limits)
              = HeaderFold(t, limits, at)[DOMAIN limits]
  BY DEF FoldLeft, MapThenFoldSet, HeaderFold, HeaderRule

(* An entry assigns to the keys it applies to, and keeps a table a table. *)
LEMMA AssignFacts ==
    ASSUME NEW t \in Table, NEW limit \in HeaderEntry, NEW at \in Int
    PROVE  /\ Delay(limit) \in Int
           /\ AssignLimit(t, limit, at) \in Table
           /\ \A k \in Keys : AssignLimit(t, limit, at)[k] =
                 IF Applies(limit, k) THEN at + Delay(limit) ELSE t[k]
  <1>1. Delay(limit) \in Int
    BY DelayIsInt
  <1>2. \A k \in Keys : AssignLimit(t, limit, at)[k] =
           IF Applies(limit, k) THEN at + Delay(limit) ELSE t[k]
    <2>1. limit.namespaces \in {"absent", "custom"} <=> limit.namespaces # "other"
      BY DEF HeaderEntry
    <2> QED
      BY <2>1 DEF AssignLimit, Applies
  <1>3. AssignLimit(t, limit, at) = [k \in Keys |-> AssignLimit(t, limit, at)[k]]
    BY DEF AssignLimit
  <1>4. \A k \in Keys : AssignLimit(t, limit, at)[k] \in Int
    BY <1>1, <1>2 DEF Table
  <1>5. AssignLimit(t, limit, at) \in [Keys -> Int]
    BY <1>3, <1>4
  <1> QED
    BY <1>1, <1>2, <1>5 DEF Table

(* The fold takes the entries one after the other. *)
LEMMA HeaderFoldSteps ==
    ASSUME NEW t \in Table, NEW limits \in Seq(HeaderEntry), NEW at \in Int
    PROVE  LET f == HeaderFold(t, limits, at)
           IN  /\ Len(limits) \in Nat
               /\ f[DOMAIN limits] = f[1..Len(limits)]
               /\ \A n \in 0..Len(limits) : f[1..n] \in Table
               /\ f[1..0] = t
               /\ \A n \in 1..Len(limits) : f[1..n] = AssignLimit(f[1..(n - 1)], limits[n], at)
  <1> DEFINE N == Len(limits)
             D == 1..N
             f == HeaderFold(t, limits, at)
             H == [p \in D \X Table |-> AssignLimit(p[2], limits[p[1]], at)]
  <1>1. N \in Nat /\ DOMAIN limits = D /\ \A n \in D : limits[n] \in HeaderEntry
    BY LenProperties, ElementOfSeq
  <1>2. \A n \in D, u \in Table : H[<<n, u>>] = AssignLimit(u, limits[n], at)
    OBVIOUS
  <1>3. H \in [D \X Table -> Table]
    BY <1>1, AssignFacts
  <1> HIDE DEF N, H
  <1>4. PICK g : g \in [SUBSET D -> Table] /\ TakesLastOff(g, D, Table, t, H)
    <2> HIDE DEF D
    <2>1. N \in Nat /\ D = 1..N /\ t \in Table /\ H \in [D \X Table -> Table]
      BY <1>1, <1>3 DEF D
    <2> QED
      BY <2>1, FoldExists
  <1>5. \A s \in SUBSET D : s # {} => Max(s) \in D /\ s \ {Max(s)} \in SUBSET D
    BY <1>1, MaxOfIndexes
  <1>6. g = HeaderRule(g, t, limits, at)
    <2>1. \A s \in SUBSET D : g[s] = IF s = {} THEN t ELSE AssignLimit(g[s \ {Max(s)}], limits[Max(s)], at)
      BY <1>2, <1>4, <1>5 DEF TakesLastOff
    <2> QED
      BY <1>1, <1>4, <2>1 DEF HeaderRule
  <1>7. f = HeaderRule(f, t, limits, at)
    BY <1>6 DEF HeaderFold
  <1> HIDE DEF f
  <1>8. \A s \in SUBSET D : f[s] = IF s = {} THEN t ELSE AssignLimit(f[s \ {Max(s)}], limits[Max(s)], at)
    BY <1>1, <1>7 DEF HeaderRule
  <1>9. \A s \in SUBSET D : s # {} /\ f[s \ {Max(s)}] \in Table =>
            f[s] = H[<<Max(s), f[s \ {Max(s)}]>>]
    BY <1>2, <1>5, <1>8
  <1>10. f[{}] = t
    BY <1>8
  <1>11. /\ \A n \in 0..N : f[1..n] \in Table
         /\ f[1..0] = t
         /\ \A n \in 1..N : f[1..n] = H[<<n, f[1..(n - 1)]>>]
    <2> HIDE DEF D
    <2>1. N \in Nat /\ D = 1..N /\ t \in Table /\ H \in [D \X Table -> Table]
      BY <1>1, <1>3 DEF D
    <2>2. TakesLastOff(f, D, Table, t, H)
      BY <1>9, <1>10 DEF TakesLastOff
    <2>3. StepByStep(f, N, Table, t, H)
      BY <2>1, <2>2, FoldSteps
    <2> QED
      BY <2>3 DEF StepByStep
  <1>12. \A n \in 1..N : n - 1 \in 0..N
    BY <1>1
  <1>13. \A n \in 1..N : f[1..n] = AssignLimit(f[1..(n - 1)], limits[n], at)
    BY <1>2, <1>11, <1>12
  <1> QED
    BY <1>1, <1>11, <1>13 DEF f, N

(* After some of the entries, a key has the value the last of them that    *)
(* applies to it gives it.                                                 *)
LEMMA HeaderPrefix ==
    ASSUME NEW t \in Table, NEW limits \in Seq(HeaderEntry), NEW at \in Int
    PROVE  \A n \in 0..Len(limits) : \A k \in Keys :
              LET value == HeaderFold(t, limits, at)[1..n][k]
              IN  /\ (\A i \in 1..n : ~Applies(limits[i], k)) => value = t[k]
                  /\ \A i \in 1..n :
                        Applies(limits[i], k) /\ (\A j \in 1..n : Applies(limits[j], k) => j <= i)
                            => value = at + Delay(limits[i])
  <1> DEFINE N == Len(limits)
             f == HeaderFold(t, limits, at)
             Unsaid(n, k) == (\A i \in 1..n : ~Applies(limits[i], k)) => f[1..n][k] = t[k]
             Said(n, k) == \A i \in 1..n :
                 Applies(limits[i], k) /\ (\A j \in 1..n : Applies(limits[j], k) => j <= i)
                     => f[1..n][k] = at + Delay(limits[i])
             T == {n \in Nat : n <= N => \A k \in Keys : Unsaid(n, k) /\ Said(n, k)}
  <1>1. /\ N \in Nat
        /\ \A n \in 0..N : f[1..n] \in Table
        /\ f[1..0] = t
        /\ \A n \in 1..N : f[1..n] = AssignLimit(f[1..(n - 1)], limits[n], at)
    BY HeaderFoldSteps
  <1>2. \A n \in 1..N : limits[n] \in HeaderEntry
    BY ElementOfSeq
  <1> HIDE DEF N, f
  <1>3. 0 \in T
    BY <1>1
  <1>4. ASSUME NEW m \in T PROVE m + 1 \in T
    <2> SUFFICES ASSUME m + 1 <= N, NEW k \in Keys PROVE Unsaid(m + 1, k) /\ Said(m + 1, k)
      OBVIOUS
    <2> DEFINE n == m + 1
    <2>1. /\ n \in 1..N /\ n - 1 = m /\ m \in 0..N /\ m \in Nat /\ n \in 1..n
          /\ \A i \in 1..m : i \in 1..n /\ i # n /\ ~(n <= i)
          /\ \A i \in 1..n : i = n \/ i \in 1..m
      BY <1>1
    <2>2. Unsaid(m, k) /\ Said(m, k)
      BY <2>1
    <2> HIDE DEF n
    <2>3. f[1..n][k] = IF Applies(limits[n], k) THEN at + Delay(limits[n]) ELSE f[1..m][k]
      <3>1. f[1..n] = AssignLimit(f[1..(n - 1)], limits[n], at)
        BY <1>1, <2>1
      <3>2. f[1..(n - 1)] \in Table /\ limits[n] \in HeaderEntry
        BY <1>1, <1>2, <2>1
      <3>3. AssignLimit(f[1..(n - 1)], limits[n], at)[k] =
               IF Applies(limits[n], k) THEN at + Delay(limits[n]) ELSE f[1..(n - 1)][k]
        BY <3>2, AssignFacts
      <3> QED
        BY <2>1, <3>1, <3>3
    <2>4. Unsaid(n, k)
      BY <2>1, <2>2, <2>3
    <2>5. Said(n, k)
      <3> SUFFICES ASSUME NEW i \in 1..n, Applies(limits[i], k),
                          \A j \in 1..n : Applies(limits[j], k) => j <= i
                   PROVE  f[1..n][k] = at + Delay(limits[i])
        OBVIOUS
      <3>1. CASE i = n
        BY <2>3, <3>1
      <3>2. CASE i \in 1..m
        <4>1. ~Applies(limits[n], k)
          BY <2>1, <3>2
        <4>2. \A j \in 1..m : Applies(limits[j], k) => j <= i
          BY <2>1
        <4>3. f[1..m][k] = at + Delay(limits[i])
          BY <2>2, <3>2, <4>2
        <4> QED
          BY <2>3, <4>1, <4>3
      <3> QED
        BY <2>1, <3>1, <3>2
    <2> QED
      BY <2>4, <2>5 DEF n
  <1>5. T = Nat
    <2>1. T \in SUBSET Nat
      OBVIOUS
    <2> HIDE DEF T
    <2> QED
      BY <1>3, <1>4, <2>1, NatSetInduction
  <1>6. ASSUME NEW n \in 0..N, NEW k \in Keys PROVE Unsaid(n, k) /\ Said(n, k)
    <2>1. n \in Nat /\ n <= N
      BY <1>1
    <2>2. n \in T
      BY <1>5, <2>1
    <2> QED
      BY <2>1, <2>2
  <1> QED
    BY <1>6 DEF N, f

(* The loop over the entries of a header computes what HeaderVerdict says. *)
LEMMA HeaderLoopIsVerdict ==
    ASSUME NEW t \in Table, NEW limits \in Seq(HeaderEntry), NEW at \in Int
    PROVE  FoldLeft(LAMBDA acc, limit : AssignLimit(acc, limit, at), t, limits)
              = LET verdict == HeaderVerdict(limits, at)
                IN  [k \in Keys |-> IF k \in DOMAIN verdict THEN verdict[k] ELSE t[k]]
  <1> DEFINE N == Len(limits)
             value == HeaderFold(t, limits, at)[1..N]
             verdict == HeaderVerdict(limits, at)
  <1>1. /\ N \in Nat /\ N \in 0..N /\ DOMAIN limits = 1..N
        /\ value \in Table
        /\ FoldLeft(LAMBDA acc, limit : AssignLimit(acc, limit, at), t, limits) = value
    <2>1. N \in Nat /\ DOMAIN limits = 1..N
      BY LenProperties
    <2>2. N \in 0..N
      BY <2>1
    <2>3. /\ HeaderFold(t, limits, at)[DOMAIN limits] = value
          /\ \A n \in 0..N : HeaderFold(t, limits, at)[1..n] \in Table
      BY HeaderFoldSteps
    <2> QED
      BY <2>1, <2>2, <2>3, HeaderLoopIsFold
  <1>2. ASSUME NEW k \in Keys
        PROVE  value[k] = IF k \in DOMAIN verdict THEN verdict[k] ELSE t[k]
    <2> DEFINE A == {i \in 1..N : Applies(limits[i], k)}
    <2>1. /\ (\A i \in 1..N : ~Applies(limits[i], k)) => value[k] = t[k]
          /\ \A i \in 1..N :
                Applies(limits[i], k) /\ (\A j \in 1..N : Applies(limits[j], k) => j <= i)
                    => value[k] = at + Delay(limits[i])
      <3>1. \A n \in 0..N :
              LET v == HeaderFold(t, limits, at)[1..n][k]
              IN  /\ (\A i \in 1..n : ~Applies(limits[i], k)) => v = t[k]
                  /\ \A i \in 1..n :
                        Applies(limits[i], k) /\ (\A j \in 1..n : Applies(limits[j], k) => j <= i)
                            => v = at + Delay(limits[i])
        BY HeaderPrefix
      <3> HIDE DEF N
      <3> QED
        BY <1>1, <3>1
    <2>2. k \in DOMAIN verdict <=> A # {}
      BY <1>1 DEF HeaderVerdict
    <2>3. CASE A = {}
      BY <2>1, <2>2, <2>3
    <2>4. CASE A # {}
      <3>1. \E i \in A : \A j \in A : j <= i
        BY <1>1, <2>4, GreatestIndex
      <3> DEFINE last == LastApplying(limits, k)
      <3>2. /\ last \in 1..N /\ Applies(limits[last], k)
            /\ \A j \in 1..N : Applies(limits[j], k) => j <= last
        BY <1>1, <3>1 DEF LastApplying
      <3>3. verdict[k] = at + Delay(limits[last])
        BY <2>2, <2>4 DEF HeaderVerdict
      <3> HIDE DEF last
      <3> QED
        BY <2>1, <2>2, <2>4, <3>2, <3>3
    <2> QED
      BY <2>3, <2>4
  <1> HIDE DEF value, verdict
  <1>3. value = [k \in Keys |-> IF k \in DOMAIN verdict THEN verdict[k] ELSE t[k]]
    BY <1>1, <1>2 DEF Table
  <1> QED
    BY <1>1, <1>3 DEF verdict

(* One response: the loop and the rule agree, and keep a table a table. *)
LEMMA LoopIsUpdate ==
    ASSUME NEW t \in Table, NEW response \in Response, NEW at \in Int
    PROVE  LoopUpdate(t, response, at) = UpdateRateLimits(t, response, at)
  <1>1. /\ response.limits \in Seq(HeaderEntry)
        /\ t = [k \in Keys |-> t[k]] /\ All \in Keys
    BY DEF Response, Table, Keys
  <1>2. CASE response.limits # <<>>
    <2> DEFINE verdict == HeaderVerdict(response.limits, at)
    <2>1. LoopUpdate(t, response, at) = [k \in Keys |-> IF k \in DOMAIN verdict THEN verdict[k] ELSE t[k]]
      BY <1>1, <1>2, HeaderLoopIsVerdict DEF LoopUpdate
    <2>2. Verdict(response, at) = verdict
      BY <1>2 DEF Verdict
    <2> HIDE DEF verdict
    <2> QED
      BY <2>1, <2>2 DEF UpdateRateLimits
  <1>3. CASE response.limits = <<>> /\ response.retryAfter.kind # "absent"
    BY <1>1, <1>3 DEF LoopUpdate, UpdateRateLimits, Verdict
  <1>4. CASE response.limits = <<>> /\ response.retryAfter.kind = "absent"
    BY <1>1, <1>4 DEF LoopUpdate, UpdateRateLimits, Verdict
  <1> QED
    BY <1>2, <1>3, <1>4
-----------------------------------------------------------------------------
(* The loop over the responses of the log. *)

Answer == [at: Int, response: Response]
LoopOver(answers) == FoldLeft(LAMBDA t, entry : LoopUpdate(t, entry.response, entry.at), NoLimits, answers)

LogRule(g, answers) ==
    [s \in SUBSET DOMAIN answers |->
        IF s = {} THEN NoLimits
        ELSE LoopUpdate(g[s \ {Max(s)}], answers[Max(s)].response, answers[Max(s)].at)]
LogFold(answers) == CHOOSE g : g = LogRule(g, answers)

LEMMA LoopOverIsFold ==
    ASSUME NEW answers
    PROVE  LoopOver(answers) = LogFold(answers)[DOMAIN answers]
  BY DEF LoopOver, FoldLeft, MapThenFoldSet, LogFold, LogRule

(* The fold takes the responses one after the other. *)
LEMMA LogFoldSteps ==
    ASSUME NEW answers \in Seq(Answer)
    PROVE  LET f == LogFold(answers)
           IN  /\ Len(answers) \in Nat
               /\ f[DOMAIN answers] = f[1..Len(answers)]
               /\ \A n \in 0..Len(answers) : f[1..n] \in Table
               /\ f[1..0] = NoLimits
               /\ \A n \in 1..Len(answers) :
                     f[1..n] = LoopUpdate(f[1..(n - 1)], answers[n].response, answers[n].at)
  <1> DEFINE N == Len(answers)
             D == 1..N
             f == LogFold(answers)
             H == [p \in D \X Table |-> LoopUpdate(p[2], answers[p[1]].response, answers[p[1]].at)]
  <1>1. /\ N \in Nat /\ DOMAIN answers = D
        /\ \A n \in D : answers[n].response \in Response /\ answers[n].at \in Int
    <2>1. N \in Nat /\ DOMAIN answers = D
      BY LenProperties
    <2>2. \A n \in D : answers[n] \in Answer
      BY ElementOfSeq
    <2> QED
      BY <2>1, <2>2 DEF Answer
  <1>2. \A n \in D, u \in Table : H[<<n, u>>] = LoopUpdate(u, answers[n].response, answers[n].at)
    OBVIOUS
  <1>3. H \in [D \X Table -> Table]
    <2>1. \A n \in D, u \in Table : LoopUpdate(u, answers[n].response, answers[n].at) \in Table
      BY <1>1, LoopIsUpdate, TableType
    <2> QED
      BY <2>1
  <1>4. NoLimits \in Table
    BY DEF NoLimits, Table
  <1> HIDE DEF N, H
  <1>5. PICK g : g \in [SUBSET D -> Table] /\ TakesLastOff(g, D, Table, NoLimits, H)
    <2> HIDE DEF D
    <2>1. N \in Nat /\ D = 1..N /\ H \in [D \X Table -> Table]
      BY <1>1, <1>3 DEF D
    <2> QED
      BY <1>4, <2>1, FoldExists
  <1>6. \A s \in SUBSET D : s # {} => Max(s) \in D /\ s \ {Max(s)} \in SUBSET D
    BY <1>1, MaxOfIndexes
  <1>7. g = LogRule(g, answers)
    <2>1. \A s \in SUBSET D : g[s] =
             IF s = {} THEN NoLimits
             ELSE LoopUpdate(g[s \ {Max(s)}], answers[Max(s)].response, answers[Max(s)].at)
      BY <1>2, <1>5, <1>6 DEF TakesLastOff
    <2> QED
      BY <1>1, <1>5, <2>1 DEF LogRule
  <1>8. f = LogRule(f, answers)
    BY <1>7 DEF LogFold
  <1> HIDE DEF f
  <1>9. \A s \in SUBSET D : f[s] =
           IF s = {} THEN NoLimits
           ELSE LoopUpdate(f[s \ {Max(s)}], answers[Max(s)].response, answers[Max(s)].at)
    BY <1>1, <1>8 DEF LogRule
  <1>10. TakesLastOff(f, D, Table, NoLimits, H)
    <2>1. \A s \in SUBSET D : s # {} /\ f[s \ {Max(s)}] \in Table =>
            f[s] = H[<<Max(s), f[s \ {Max(s)}]>>]
      BY <1>2, <1>6, <1>9
    <2>2. f[{}] = NoLimits
      BY <1>9
    <2> QED
      BY <2>1, <2>2 DEF TakesLastOff
  <1>11. /\ \A n \in 0..N : f[1..n] \in Table
         /\ f[1..0] = NoLimits
         /\ \A n \in D : f[1..n] = H[<<n, f[1..(n - 1)]>>]
    <2> HIDE DEF D
    <2>1. N \in Nat /\ D = 1..N /\ H \in [D \X Table -> Table]
      BY <1>1, <1>3 DEF D
    <2>2. StepByStep(f, N, Table, NoLimits, H)
      BY <1>4, <1>10, <2>1, FoldSteps
    <2> QED
      BY <2>1, <2>2 DEF StepByStep
  <1>12. \A n \in 1..N : n - 1 \in 0..N
    BY <1>1
  <1>13. \A n \in 1..N : f[1..n] = LoopUpdate(f[1..(n - 1)], answers[n].response, answers[n].at)
    BY <1>2, <1>11, <1>12
  <1> QED
    BY <1>1, <1>11, <1>13 DEF f, N

(* One more response is one more turn of the loop. *)
LEMMA LoopTurns ==
    ASSUME NEW answers \in Seq(Answer), NEW response \in Response, NEW at \in Int
    PROVE  LoopOver(Append(answers, [at |-> at, response |-> response]))
              = UpdateRateLimits(LoopOver(answers), response, at)
  <1> DEFINE entry == [at |-> at, response |-> response]
             longer == Append(answers, entry)
             N == Len(answers)
             f == LogFold(answers)
             g == LogFold(longer)
             T == {n \in Nat : n <= N => g[1..n] = f[1..n]}
  <1>1. /\ entry \in Answer /\ entry.response = response /\ entry.at = at
        /\ longer \in Seq(Answer) /\ N \in Nat /\ Len(longer) = N + 1
        /\ \A n \in 1..N : longer[n] = answers[n]
        /\ longer[N + 1] = entry
    <2>1. entry \in Answer /\ entry.response = response /\ entry.at = at
      BY DEF Answer
    <2> HIDE DEF entry
    <2> QED
      BY <2>1, PushFacts
  <1>2. /\ f[DOMAIN answers] = f[1..N] /\ f[1..N] \in Table /\ f[1..0] = NoLimits
        /\ \A n \in 1..N : f[1..n] = LoopUpdate(f[1..(n - 1)], answers[n].response, answers[n].at)
    <2>1. N \in 0..N
      BY <1>1
    <2> QED
      BY <2>1, LogFoldSteps
  <1> HIDE DEF longer, entry
  <1>3. /\ g[DOMAIN longer] = g[1..Len(longer)] /\ g[1..0] = NoLimits
        /\ \A n \in 1..Len(longer) : g[1..n] = LoopUpdate(g[1..(n - 1)], longer[n].response, longer[n].at)
    BY <1>1, LogFoldSteps
  <1> HIDE DEF f, g, N
  <1>4. T = Nat
    <2>1. 0 \in T
      BY <1>2, <1>3
    <2>2. ASSUME NEW n \in T PROVE n + 1 \in T
      <3> SUFFICES ASSUME n + 1 <= N PROVE g[1..(n + 1)] = f[1..(n + 1)]
        OBVIOUS
      <3> DEFINE m == n + 1
      <3>1. m \in 1..N /\ m \in 1..Len(longer) /\ m - 1 = n /\ n <= N /\ n \in Nat
        BY <1>1
      <3>2. g[1..n] = f[1..n]
        BY <3>1
      <3> HIDE DEF m, T
      <3>3. g[1..m] = f[1..m]
        BY <1>1, <1>2, <1>3, <3>1, <3>2
      <3> QED
        BY <3>3 DEF m
    <2>3. T \in SUBSET Nat
      OBVIOUS
    <2> HIDE DEF T
    <2> QED
      BY <2>1, <2>2, <2>3, NatSetInduction
  <1>5. g[1..N] = f[1..N]
    BY <1>1, <1>4
  <1>6. g[1..Len(longer)] = LoopUpdate(g[1..N], response, at)
    <2> DEFINE m == N + 1
    <2>1. m \in 1..Len(longer) /\ m - 1 = N /\ Len(longer) = m
      BY <1>1
    <2>2. longer[m].response = response /\ longer[m].at = at
      BY <1>1
    <2> HIDE DEF m
    <2> QED
      BY <1>3, <2>1, <2>2
  <1>7. LoopOver(answers) = f[1..N] /\ LoopOver(longer) = LoopUpdate(f[1..N], response, at)
    BY <1>2, <1>3, <1>5, <1>6, LoopOverIsFold DEF f, g
  <1> QED
    BY <1>2, <1>7, LoopIsUpdate DEF longer, entry

(* Before the first response, the table is empty. *)
LEMMA NoLoop == LoopOver(<<>>) = NoLimits
  <1>1. <<>> \in Seq(Answer) /\ Len(<<>>) = 0
    OBVIOUS
  <1>2. LogFold(<<>>)[DOMAIN <<>>] = LogFold(<<>>)[1..0]
    BY <1>1, LogFoldSteps
  <1>3. LogFold(<<>>)[1..0] = NoLimits
    BY <1>1, LogFoldSteps
  <1> QED
    BY <1>2, <1>3, LoopOverIsFold

LEMMA LoopsInit == LogInit => TableIsTheLoops
  BY NoLoop DEF LogInit, TableIsTheLoops, LoopOver

LEMMA LoopsStep == LogIInv /\ TableIsTheLoops /\ [LogNext]_logVars => TableIsTheLoops'
  <1> SUFFICES ASSUME LogIInv, TableIsTheLoops, [LogNext]_logVars PROVE TableIsTheLoops'
    OBVIOUS
  <1>0. rateLimits = LoopOver(log)
    BY DEF TableIsTheLoops, LoopOver
  <1>1. ASSUME NEW response \in Responses, Receive(response) PROVE rateLimits' = LoopOver(log')
    <2>1. log \in Seq(Answer) /\ response \in Response /\ now \in Int
      <3> DEFINE Past == [at: 1..now, response: Responses]
      <3>1. log \in Seq(Past) /\ now \in 1..MaxNow
        BY DEF LogIInv, LogTypeOK
      <3>2. now \in Int /\ Past \subseteq Answer
        BY <3>1, LogAssumption DEF Answer
      <3> HIDE DEF Past
      <3>3. log \in Seq(Answer)
        BY <3>1, <3>2
      <3> QED
        BY <3>2, <3>3, LogAssumption
    <2>2. /\ rateLimits' = UpdateRateLimits(rateLimits, response, now)
          /\ log' = Append(log, [at |-> now, response |-> response])
      BY <1>1 DEF Receive
    <2> QED
      BY <1>0, <2>1, <2>2, LoopTurns
  <1>2. ASSUME TimePasses \/ UNCHANGED logVars PROVE rateLimits' = LoopOver(log')
    BY <1>0, <1>2 DEF TimePasses, logVars
  <1>3. rateLimits' = LoopOver(log')
    BY <1>1, <1>2 DEF LogNext
  <1> QED
    BY <1>3 DEF TableIsTheLoops, LoopOver, FoldLeft, MapThenFoldSet

(* The table is what the loops of updateRateLimits compute over all the    *)
(* responses so far, whatever they are (ratelimit.ts:53-108): the rule by  *)
(* which Verdict and UpdateRateLimits describe the loops is right.         *)
THEOREM TableIsWhatTheLoopsCompute == LogSpec => []TableIsTheLoops
  <1> QED
    BY LogInitHolds, LogStepHolds, LoopsInit, LoopsStep, PTL DEF LogSpec

-----------------------------------------------------------------------------
(* Transport *)

(* The stack holds the requests being produced, each once. *)
StackIsProducing ==
    /\ \A e \in Envelopes : status[e] = "producing" => \E i \in 1..Len(stack) : stack[i] = e
    /\ \A i \in 1..Len(stack) : status[stack[i]] = "producing"
    /\ \A i, j \in 1..Len(stack) : stack[i] = stack[j] => i = j

(* Only send() creates a task, keeps items, and lets a request be answered *)
SendCameFirst ==
    /\ \A e \in Envelopes : e \notin seen => status[e] = "new" /\ kept[e] = {}
    /\ \A e \in Envelopes : kept[e] \subseteq ItemsOf[e]
    /\ \A e \in tooLarge : status[e] = "fulfilled"

(* A flush that waits knows every request under way that was sent before   *)
(* it was called.                                                          *)
Knows(f) ==
    /\ sentBefore[f] \subseteq seen
    /\ drain[f].answer = "waiting" =>
          \A e \in sentBefore[f] :
              status[e] # "producing" /\ (status[e] = "pending" => e \in drain[f].snap)
    /\ drain[f].answer = "true" =>
          \A e \in sentBefore[f] : status[e] \notin {"producing", "pending"}
FlushKnows == \A f \in Flushes : Knows(f)

PendingHasSlot == \A e \in Envelopes : status[e] = "pending" => e \in buffer

IInv ==
    /\ TypeOK
    /\ StackIsProducing
    /\ SendCameFirst
    /\ PendingHasSlot
    /\ FlushKnows
    /\ OutcomesAreExact

-----------------------------------------------------------------------------
(* Every step of the transport is a step of its buffer, or leaves it alone. *)
LEMMA BufferSteps == [Next]_vars => [PB!Next]_(PB!vars)
  <1> SUFFICES ASSUME [Next]_vars PROVE PB!Next \/ UNCHANGED PB!vars
    OBVIOUS
  <1> USE DEF PB!Next, PB!ProducerReturns
  <1>1. ASSUME NEW e \in Envelopes, SendNothing(e) PROVE UNCHANGED PB!vars
    BY <1>1 DEF SendNothing, bufferVars, PB!vars
  <1>2. ASSUME NEW e \in Envelopes, SendOverflow(e) PROVE PB!Next
    BY <1>2 DEF SendOverflow
  <1>3. ASSUME NEW e \in Envelopes, SendStart(e) PROVE PB!Next
    BY <1>3 DEF SendStart
  <1>4. ASSUME NEW e \in Envelopes, RequestStarted(e) PROVE PB!Next
    BY <1>4 DEF RequestStarted
  <1>5. ASSUME NEW e \in Envelopes, RequestTooLarge(e) PROVE PB!Next
    BY <1>5 DEF RequestTooLarge, PB!Settled
  <1>6. ASSUME NEW e \in Envelopes, RequestFailed(e) PROVE PB!Next
    BY <1>6 DEF RequestFailed, PB!Settled
  <1>7. ASSUME NEW e \in Envelopes, NEW r \in Responses, RequestAnswered(e, r) PROVE PB!Next
    BY <1>7 DEF RequestAnswered, PB!Settled
  <1>8. ASSUME NEW f \in Flushes, NEW timed \in BOOLEAN, Flush(f, timed) PROVE PB!Next
    BY <1>8 DEF Flush
  <1>9. ASSUME BufferStep PROVE PB!Next
    BY <1>9 DEF BufferStep
  <1>10. ASSUME Tick \/ UNCHANGED vars PROVE UNCHANGED PB!vars
    BY <1>10 DEF Tick, vars, bufferVars, PB!vars
  <1> QED
    BY <1>1, <1>2, <1>3, <1>4, <1>5, <1>6, <1>7, <1>8, <1>9, <1>10 DEF Next

(* base.ts:37, 71-116: the transport implements the promise buffer it uses. *)
THEOREM RefinesPromiseBuffer == Spec => UsesPromiseBuffer
  <1>1. Init => PB!Init
    BY DEF Init
  <1> QED
    BY <1>1, BufferSteps, PTL DEF Spec, UsesPromiseBuffer, PB!Spec

-----------------------------------------------------------------------------
(* The buffer keeps its types and its stack. *)
LEMMA BufferStepLemma ==
    ASSUME PB!TypeOK, StackIsProducing, [PB!Next]_(PB!vars)
    PROVE  PB!TypeOK' /\ StackIsProducing'
  <1> DEFINE P == PB!TypeOK' /\ StackIsProducing'
  <1> USE DEF PB!TypeOK, PB!Statuses, PB!Answers, PB!Settled, StackIsProducing
  <1>0. \A i \in 1..Len(stack) : stack[i] \in Envelopes
    BY ElementOfSeq
  <1>1. ASSUME NEW e \in Envelopes, status[e] # "producing",
               NEW s \in PB!Statuses \ {"producing"},
               status' = [status EXCEPT ![e] = s], UNCHANGED <<stack, drain>>,
               buffer' \in SUBSET Envelopes
        PROVE P
    <2>1. \A i \in 1..Len(stack) : stack[i] # e
      BY <1>1
    <2> QED
      BY <1>0, <1>1, <2>1
  <1>2. ASSUME NEW e \in Envelopes, PB!Start(e) PROVE P
    <2>1. stack' \in Seq(Envelopes)
      BY <1>2 DEF PB!Start
    <2>2. /\ Len(stack') = Len(stack) + 1
          /\ \A i \in 1..Len(stack) : stack'[i] = stack[i] /\ stack[i] # e
          /\ stack'[Len(stack) + 1] = e
          /\ Len(stack) \in Nat
      BY <1>0, <1>2, PushFacts DEF PB!Start
    <2>3. \A i \in 1..Len(stack') : i \in 1..Len(stack) \/ i = Len(stack) + 1
      BY <2>2
    <2>4. /\ status'[e] = "producing"
          /\ \A x \in Envelopes \ {e} : status'[x] = status[x]
      BY <1>2 DEF PB!Start
    <2>5. \A i \in 1..Len(stack) : status'[stack'[i]] = "producing"
      BY <1>0, <2>2, <2>4
    <2>6. \A i \in 1..Len(stack') : status'[stack'[i]] = "producing"
      BY <2>2, <2>3, <2>4, <2>5
    <2>7. \A i, j \in 1..Len(stack') : stack'[i] = stack'[j] => i = j
      BY <2>2, <2>3
    <2>8. PB!TypeOK'
      BY <1>2, <2>1 DEF PB!Start
    <2>9. \A x \in Envelopes : status'[x] = "producing" => \E i \in 1..Len(stack') : stack'[i] = x
      <3> SUFFICES ASSUME NEW x \in Envelopes, status'[x] = "producing"
                   PROVE  \E i \in 1..Len(stack') : stack'[i] = x
        OBVIOUS
      <3>1. CASE x = e
        BY <2>2, <3>1
      <3>2. CASE x # e
        <4>1. PICK i \in 1..Len(stack) : stack[i] = x
          BY <2>4, <3>2
        <4> QED
          BY <2>2, <4>1
      <3> QED
        BY <3>1, <3>2
    <2> QED
      BY <2>6, <2>7, <2>8, <2>9
  <1>3. ASSUME stack # <<>>, stack' = PB!Pop, NEW s \in PB!Statuses, s # "producing",
               status' = [status EXCEPT ![PB!Top] = s],
               buffer' \in SUBSET Envelopes, UNCHANGED drain
        PROVE P
    <2>1. /\ stack' \in Seq(Envelopes)
          /\ Len(stack') = Len(stack) - 1
          /\ \A i \in 1..Len(stack') : stack'[i] = stack[i]
          /\ Len(stack) \in Nat \ {0}
      BY <1>3, PopFacts DEF PB!Pop
    <2>2. \A i \in 1..Len(stack') : stack[i] # PB!Top /\ stack[i] \in Envelopes
      BY <1>0, <1>3, <2>1 DEF PB!Top
    <2>3. \A i \in 1..Len(stack') : status'[stack'[i]] = "producing"
      BY <1>3, <2>1, <2>2
    <2>4. \A i, j \in 1..Len(stack') : stack'[i] = stack'[j] => i = j
      BY <2>1
    <2>5. PB!TypeOK'
      BY <1>3, <2>1
    <2>6. \A x \in Envelopes : status'[x] = "producing" => \E i \in 1..Len(stack') : stack'[i] = x
      <3> SUFFICES ASSUME NEW x \in Envelopes, status'[x] = "producing"
                   PROVE  \E i \in 1..Len(stack') : stack'[i] = x
        OBVIOUS
      <3>1. x # PB!Top /\ status[x] = "producing"
        BY <1>3
      <3>2. PICK i \in 1..Len(stack) : stack[i] = x
        BY <3>1
      <3>3. i # Len(stack)
        BY <3>1, <3>2 DEF PB!Top
      <3>4. i \in 1..Len(stack')
        BY <2>1, <3>3
      <3> QED
        BY <2>1, <3>2, <3>4
    <2> QED
      BY <2>3, <2>4, <2>5, <2>6
  <1>4. ASSUME NEW e \in Envelopes, PB!ProducerReturns(e) PROVE P
    <2>1. e = PB!Top /\ stack # <<>> /\ stack' = PB!Pop /\ UNCHANGED drain
      BY <1>4 DEF PB!ProducerReturns, PB!Store, PB!Throw, PB!Idle
    <2>2. PICK s \in PB!Statuses \ {"producing"} : status' = [status EXCEPT ![e] = s]
      BY <1>4 DEF PB!ProducerReturns, PB!Store, PB!Throw
    <2>3. buffer' \in SUBSET Envelopes
      BY <1>4 DEF PB!ProducerReturns, PB!Store, PB!Throw
    <2> QED
      BY <1>3, <2>1, <2>2, <2>3
  <1>5. ASSUME UNCHANGED <<status, stack>>, buffer' \in SUBSET Envelopes,
               drain' \in [Flushes -> [answer: PB!Answers, snap: SUBSET Envelopes, timed: BOOLEAN]]
        PROVE P
    BY <1>5
  <1>6. ASSUME NEW f \in Flushes, NEW timed \in BOOLEAN, PB!CallDrain(f, timed) PROVE P
    BY <1>5, <1>6 DEF PB!CallDrain
  <1>7. ASSUME NEW f \in Flushes, PB!DrainDone(f) \/ PB!DrainTimeout(f) PROVE P
    <2>1. /\ UNCHANGED <<status, stack>> /\ buffer' \in SUBSET Envelopes
          /\ drain' \in [Flushes -> [answer: PB!Answers, snap: SUBSET Envelopes, timed: BOOLEAN]]
      BY <1>7 DEF PB!DrainDone, PB!DrainTimeout
    <2> QED
      BY <1>5, <2>1
  <1>8. ASSUME NEW e \in Envelopes, PB!Refuse(e) PROVE P
    BY <1>1, <1>8 DEF PB!Refuse
  <1>9. ASSUME NEW e \in Envelopes, NEW s \in PB!Settled, PB!Settle(e, s) PROVE P
    BY <1>1, <1>9 DEF PB!Settle
  <1>10. ASSUME NEW e \in Envelopes, PB!Remove(e) PROVE P
    BY <1>5, <1>10 DEF PB!Remove
  <1>11. CASE UNCHANGED PB!vars
    BY <1>5, <1>11 DEF PB!vars
  <1> QED
    BY <1>2, <1>4, <1>6, <1>7, <1>8, <1>9, <1>10, <1>11 DEF PB!Next

-----------------------------------------------------------------------------
(* Counting items *)

LEMMA CountType ==
    ASSUME NEW items \in SUBSET Items, NEW c
    PROVE  IsFiniteSet(OfCategory(items, c)) /\ Cardinality(OfCategory(items, c)) \in Nat
  <1>1. IsFiniteSet(OfCategory(items, c))
    BY TransportAssumption, FS_Subset DEF OfCategory
  <1> QED
    BY <1>1, FS_CardinalityType

LEMMA CountUnion ==
    ASSUME NEW A \in SUBSET Items, NEW B \in SUBSET Items, A \cap B = {}, NEW c
    PROVE  Cardinality(OfCategory(A \cup B, c))
               = Cardinality(OfCategory(A, c)) + Cardinality(OfCategory(B, c))
  <1> DEFINE AC == OfCategory(A, c)
  <1> DEFINE BC == OfCategory(B, c)
  <1>1. IsFiniteSet(AC) /\ IsFiniteSet(BC) /\ Cardinality(AC) \in Nat /\ Cardinality(BC) \in Nat
    BY CountType
  <1>2. OfCategory(A \cup B, c) = AC \cup BC /\ AC \cap BC = {}
    BY DEF OfCategory
  <1> HIDE DEF AC, BC
  <1>3. Cardinality(AC \cup BC) = Cardinality(AC) + Cardinality(BC) - Cardinality(AC \cap BC)
    BY <1>1, FS_Union
  <1>4. Cardinality(AC \cap BC) = 0
    BY <1>2, FS_EmptySet
  <1>5. Cardinality(AC \cup BC) = Cardinality(AC) + Cardinality(BC)
    BY <1>1, <1>3, <1>4
  <1> QED
    BY <1>2, <1>5 DEF AC, BC

Counters == [Reasons -> [Categories -> Nat]]

LEMMA RecordType ==
    ASSUME NEW o \in Counters, NEW reason \in Reasons, NEW items \in SUBSET Items
    PROVE  /\ RecordDropped(o, reason, items) \in Counters
           /\ RecordEnvelopeLoss(o, reason, items) \in Counters
  <1>1. \A c \in Categories : o[reason][c] \in Nat /\ Cardinality(OfCategory(items, c)) \in Nat
    BY CountType DEF Counters
  <1>2. [c \in Categories |-> o[reason][c] + Cardinality(OfCategory(items, c))] \in [Categories -> Nat]
    BY <1>1
  <1>3. RecordDropped(o, reason, items) \in Counters
    BY <1>2 DEF RecordDropped, Counters
  <1> QED
    BY <1>3 DEF RecordEnvelopeLoss

\* The counters o count the items of L, by reason
Exact(o, L) == \A r \in Reasons, c \in Categories : o[r][c] = Cardinality(OfCategory(L[r], c))

(* Recording newly lost items keeps the counters exact. *)
LEMMA RecordExact ==
    ASSUME NEW o \in Counters, NEW L \in [Reasons -> SUBSET Items], Exact(o, L),
           NEW reason \in Reasons, NEW items \in SUBSET Items, items \cap L[reason] = {}
    PROVE  Exact(RecordDropped(o, reason, items), [L EXCEPT ![reason] = @ \cup items])
  <1> DEFINE o2 == RecordDropped(o, reason, items)
  <1> DEFINE L2 == [L EXCEPT ![reason] = @ \cup items]
  <1> SUFFICES ASSUME NEW r \in Reasons, NEW c \in Categories
               PROVE  o2[r][c] = Cardinality(OfCategory(L2[r], c))
    BY DEF Exact
  <1>1. CASE r # reason
    <2>1. o2[r] = o[r] /\ L2[r] = L[r]
      BY <1>1 DEF RecordDropped, Counters
    <2> QED
      BY <2>1 DEF Exact
  <1>2. CASE r = reason
    <2>1. o2[r][c] = o[r][c] + Cardinality(OfCategory(items, c))
      BY <1>2 DEF RecordDropped, Counters
    <2>2. L2[r] = L[r] \cup items
      BY <1>2
    <2>3. Cardinality(OfCategory(L[r] \cup items, c))
              = Cardinality(OfCategory(L[r], c)) + Cardinality(OfCategory(items, c))
      BY <1>2, CountUnion
    <2>4. o[r][c] = Cardinality(OfCategory(L[r], c))
      BY DEF Exact
    <2> QED
      BY <2>1, <2>2, <2>3, <2>4
  <1> QED
    BY <1>1, <1>2

-----------------------------------------------------------------------------
(* The inductive step, conjunct by conjunct *)

LEMMA TypeStep ==
    ASSUME TypeOK, StackIsProducing, SendCameFirst, [Next]_vars
    PROVE  TypeOK' /\ StackIsProducing'
  <1> USE DEF TypeOK
  <1>0. PB!TypeOK' /\ StackIsProducing'
    BY BufferSteps, BufferStepLemma
  <1>1. \A e \in Envelopes : ItemsOf[e] \in SUBSET Items
    BY TransportAssumption
  <1>2. ASSUME NEW e \in Envelopes, Filter(e)
        PROVE  /\ UNCHANGED <<rateLimits, now, tooLarge, sentBefore>>
               /\ seen' \in SUBSET Envelopes
               /\ kept' \in [Envelopes -> SUBSET Items]
               /\ OutcomesAfterFilter(e) \in Counters
    <2>1. RateLimitedItems(e) \in SUBSET Items
      BY <1>1 DEF RateLimitedItems
    <2>2. OutcomesAfterFilter(e) \in Counters
      BY <2>1, RecordType DEF OutcomesAfterFilter, Reasons, Counters
    <2> QED
      BY <1>1, <1>2, <2>2 DEF Filter
  <1>3. ASSUME NEW e \in Envelopes, SendNothing(e) PROVE TypeOK'
    BY <1>0, <1>2, <1>3 DEF SendNothing, Counters
  <1>4. ASSUME NEW e \in Envelopes, SendOverflow(e) PROVE TypeOK'
    <2>1. kept'[e] \in SUBSET Items
      BY <1>2, <1>4 DEF SendOverflow
    <2>2. outcomes' \in Counters
      BY <1>2, <1>4, <2>1, RecordType DEF SendOverflow, Reasons
    <2> QED
      BY <1>0, <1>2, <1>4, <2>2 DEF SendOverflow, Counters
  <1>5. ASSUME NEW e \in Envelopes, SendStart(e) PROVE TypeOK'
    BY <1>0, <1>2, <1>5 DEF SendStart, Counters
  <1>6. ASSUME NEW e \in Envelopes, RequestStarted(e) PROVE TypeOK'
    BY <1>0, <1>6 DEF RequestStarted
  <1>7. ASSUME NEW e \in Envelopes, NEW r \in Reasons,
               outcomes' = RecordEnvelopeLoss(outcomes, r, kept[e])
        PROVE  outcomes' \in Counters
    BY <1>7, RecordType DEF Counters
  <1>8. ASSUME NEW e \in Envelopes, RequestTooLarge(e) PROVE TypeOK'
    <2>1. outcomes' \in Counters
      BY <1>7, <1>8 DEF RequestTooLarge, Reasons
    <2> QED
      BY <1>0, <1>8, <2>1 DEF RequestTooLarge, Counters
  <1>9. ASSUME NEW e \in Envelopes, RequestFailed(e) PROVE TypeOK'
    <2>1. outcomes' \in Counters
      BY <1>7, <1>9 DEF RequestFailed, Reasons
    <2> QED
      BY <1>0, <1>9, <2>1 DEF RequestFailed, Counters
  <1>10. ASSUME NEW e \in Envelopes, NEW response \in Responses, RequestAnswered(e, response)
         PROVE TypeOK'
    <2>1. rateLimits' \in Table
      BY <1>10, TableType, LogAssumption DEF RequestAnswered
    <2> QED
      BY <1>0, <1>10, <2>1 DEF RequestAnswered
  <1>11. ASSUME NEW f \in Flushes, NEW timed \in BOOLEAN, Flush(f, timed) PROVE TypeOK'
    BY <1>0, <1>11 DEF Flush
  <1>12. CASE BufferStep
    BY <1>0, <1>12 DEF BufferStep
  <1>13. CASE Tick
    BY <1>0, <1>13, LogAssumption DEF Tick
  <1>14. CASE UNCHANGED vars
    BY <1>0, <1>14 DEF vars
  <1> QED
    BY <1>0, <1>3, <1>4, <1>5, <1>6, <1>8, <1>9, <1>10, <1>11, <1>12, <1>13, <1>14 DEF Next

(* The producer on top of the stack has not returned. *)
LEMMA TopIsProducing ==
    ASSUME PB!TypeOK, StackIsProducing, stack # <<>>
    PROVE  status[PB!Top] = "producing"
  BY PopFacts DEF PB!TypeOK, StackIsProducing, PB!Top

LEMMA SendStep ==
    ASSUME TypeOK, StackIsProducing, SendCameFirst, [Next]_vars
    PROVE  SendCameFirst'
  <1> USE DEF TypeOK, SendCameFirst, PB!TypeOK
  <1>1. ASSUME NEW e \in Envelopes, Filter(e), NEW s,
               status' = [status EXCEPT ![e] = s] \/ status' = status
        PROVE SendCameFirst'
    <2>1. status[e] = "new"
      BY <1>1 DEF Filter
    <2> QED
      BY <1>1, <2>1 DEF Filter
  <1>2. ASSUME NEW e \in Envelopes, SendNothing(e) \/ SendOverflow(e) \/ SendStart(e)
        PROVE SendCameFirst'
    BY <1>1, <1>2 DEF SendNothing, SendOverflow, SendStart, PB!Refuse, PB!Start, bufferVars
  <1>3. ASSUME NEW e \in Envelopes, RequestStarted(e) PROVE SendCameFirst'
    <2>1. status[e] = "producing"
      BY <1>3, TopIsProducing DEF RequestStarted, PB!Store, PB!Throw, PB!Idle
    <2> QED
      BY <1>3, <2>1 DEF RequestStarted, PB!Store, PB!Throw
  <1>4. ASSUME NEW e \in Envelopes, RequestTooLarge(e) PROVE SendCameFirst'
    BY <1>4 DEF RequestTooLarge, PB!Settle
  <1>5. ASSUME NEW e \in Envelopes, RequestFailed(e) PROVE SendCameFirst'
    BY <1>5 DEF RequestFailed, PB!Settle
  <1>6. ASSUME NEW e \in Envelopes, NEW response \in Responses, RequestAnswered(e, response)
        PROVE SendCameFirst'
    BY <1>6 DEF RequestAnswered, PB!Settle
  <1>7. ASSUME NEW f \in Flushes, NEW timed \in BOOLEAN, Flush(f, timed) PROVE SendCameFirst'
    BY <1>7 DEF Flush, PB!CallDrain
  <1>8. CASE BufferStep
    BY <1>8 DEF BufferStep, PB!Remove, PB!DrainDone, PB!DrainTimeout
  <1>9. CASE Tick \/ UNCHANGED vars
    BY <1>9 DEF Tick, vars, bufferVars
  <1> QED
    BY <1>2, <1>3, <1>4, <1>5, <1>6, <1>7, <1>8, <1>9 DEF Next

LEMMA SlotStep ==
    ASSUME TypeOK, PendingHasSlot, [Next]_vars
    PROVE  PendingHasSlot'
  <1>1. [PB!Next]_(PB!vars)
    BY BufferSteps
  <1> USE DEF TypeOK, PB!TypeOK, PendingHasSlot, PB!Settled
  <1>2. ASSUME NEW e \in Envelopes,
               \/ PB!Refuse(e) \/ PB!Start(e) \/ PB!ProducerReturns(e) \/ PB!Remove(e)
               \/ \E s \in PB!Settled : PB!Settle(e, s)
        PROVE PendingHasSlot'
    BY <1>2 DEF PB!Refuse, PB!Start, PB!ProducerReturns, PB!Store, PB!Throw, PB!Remove,
                PB!Settle, PB!IsSettled
  <1>3. ASSUME UNCHANGED <<status, buffer>> PROVE PendingHasSlot'
    BY <1>3
  <1> QED
    BY <1>1, <1>2, <1>3 DEF PB!Next, PB!CallDrain, PB!DrainDone, PB!DrainTimeout, PB!vars

LEMMA FlushStep ==
    ASSUME TypeOK, StackIsProducing, SendCameFirst, PendingHasSlot, FlushKnows, [Next]_vars
    PROVE  FlushKnows'
  <1> USE DEF TypeOK, PB!TypeOK, FlushKnows, Knows
  <1>1. ASSUME NEW e \in Envelopes, e \notin seen \/ UNCHANGED status, Filter(e),
               \A x \in Envelopes \ {e} : status'[x] = status[x], UNCHANGED drain
        PROVE FlushKnows'
    BY <1>1 DEF Filter
  <1>2. ASSUME NEW e \in Envelopes, SendNothing(e) \/ SendOverflow(e) \/ SendStart(e)
        PROVE FlushKnows'
    BY <1>1, <1>2
    DEF Filter, SendNothing, SendOverflow, SendStart, PB!Refuse, PB!Start, bufferVars
  <1>3. ASSUME NEW e \in Envelopes, RequestStarted(e) PROVE FlushKnows'
    <2>1. status[e] = "producing"
      BY <1>3, TopIsProducing DEF RequestStarted, PB!Store, PB!Throw, PB!Idle
    <2> QED
      BY <1>3, <2>1 DEF RequestStarted, PB!Store, PB!Throw
  <1>4. ASSUME NEW e \in Envelopes, NEW s \in PB!Settled, PB!Settle(e, s), UNCHANGED <<seen, sentBefore>>
        PROVE FlushKnows'
    BY <1>4 DEF PB!Settle, PB!Settled
  <1>6. ASSUME NEW f \in Flushes, NEW timed \in BOOLEAN, Flush(f, timed) PROVE FlushKnows'
    <2>1. \A e \in Envelopes : status[e] # "producing"
      BY <1>6, EmptySeq DEF Flush, PB!Idle, StackIsProducing
    <2>2. /\ UNCHANGED <<status, seen>>
          /\ sentBefore'[f] = seen
          /\ drain'[f].answer = (IF buffer = {} THEN "true" ELSE "waiting")
          /\ drain'[f].snap = buffer
          /\ \A g \in Flushes \ {f} : sentBefore'[g] = sentBefore[g] /\ drain'[g] = drain[g]
      BY <1>6 DEF Flush, PB!CallDrain
    <2>3. \A e \in Envelopes : status[e] = "pending" => e \in buffer
      BY DEF PendingHasSlot
    <2> SUFFICES ASSUME NEW g \in Flushes PROVE Knows(g)'
      BY DEF FlushKnows
    <2>4. CASE g = f
      BY <2>1, <2>2, <2>3, <2>4
    <2>5. CASE g # f
      BY <2>2, <2>5
    <2> QED
      BY <2>4, <2>5
  <1>7. CASE BufferStep
    <2>1. UNCHANGED <<status, seen, sentBefore>>
      BY <1>7 DEF BufferStep, PB!Remove, PB!DrainDone, PB!DrainTimeout
    <2>2. ASSUME NEW f \in Flushes, PB!DrainDone(f) PROVE FlushKnows'
      <3>1. \A e \in drain[f].snap : status[e] # "pending"
        BY <2>2 DEF PB!DrainDone, PB!AllSettled, PB!IsSettled, PB!Settled
      <3> SUFFICES ASSUME NEW g \in Flushes PROVE Knows(g)'
        BY DEF FlushKnows
      <3>2. CASE g = f
        BY <2>1, <2>2, <3>1, <3>2 DEF PB!DrainDone
      <3>3. CASE g # f
        BY <2>1, <2>2, <3>3 DEF PB!DrainDone
      <3> QED
        BY <3>2, <3>3
    <2>3. ASSUME NEW f \in Flushes, PB!DrainTimeout(f) PROVE FlushKnows'
      BY <2>1, <2>3 DEF PB!DrainTimeout
    <2>4. ASSUME NEW e \in Envelopes, PB!Remove(e) PROVE FlushKnows'
      BY <2>1, <2>4 DEF PB!Remove
    <2> QED
      BY <1>7, <2>2, <2>3, <2>4 DEF BufferStep
  <1>8. CASE Tick \/ UNCHANGED vars
    BY <1>8 DEF Tick, vars, bufferVars
  <1>5. ASSUME NEW e \in Envelopes, RequestTooLarge(e) \/ RequestFailed(e) PROVE FlushKnows'
    BY <1>4, <1>5 DEF RequestTooLarge, RequestFailed, PB!Settled
  <1>9. ASSUME NEW e \in Envelopes, NEW response \in Responses, RequestAnswered(e, response)
        PROVE FlushKnows'
    BY <1>4, <1>9 DEF RequestAnswered, PB!Settled
  <1> QED
    BY <1>2, <1>3, <1>5, <1>6, <1>7, <1>8, <1>9 DEF Next

-----------------------------------------------------------------------------
(* Losses *)

Lost == [r \in Reasons |-> LostItems(r)]
Told(items) == IF ContainsReport(items) THEN {} ELSE items

LEMMA LostType ==
    ASSUME TypeOK
    PROVE  Lost \in [Reasons -> SUBSET Items]
  <1>1. \A e \in Envelopes : ItemsOf[e] \subseteq Items /\ kept[e] \subseteq Items
    BY TransportAssumption DEF TypeOK
  <1>2. \A r \in Reasons : LostItems(r) \subseteq Items
    BY <1>1 DEF LostItems, Losers, TypeOK
  <1> QED
    BY <1>2 DEF Lost

LEMMA ExactLost == OutcomesAreExact <=> Exact(outcomes, Lost)
  BY DEF OutcomesAreExact, Exact, Lost

(* What send() drops by its filter was not lost before. *)
LEMMA FilterLoss ==
    ASSUME TypeOK, NEW e \in Envelopes, Filter(e)
    PROVE  /\ RateLimitedItems(e) \in SUBSET Items
           /\ RateLimitedItems(e) \cap LostItems("ratelimit_backoff") = {}
           /\ LostItems("ratelimit_backoff")' = LostItems("ratelimit_backoff") \cup RateLimitedItems(e)
  <1> DEFINE drop(x) == ItemsOf[x] \ kept[x]
  <1>1. RateLimitedItems(e) \subseteq ItemsOf[e] /\ ItemsOf[e] \subseteq Items
    BY TransportAssumption DEF RateLimitedItems
  <1>2. \A x \in seen : x \in Envelopes /\ x # e /\ ItemsOf[x] \cap ItemsOf[e] = {}
    BY TransportAssumption DEF Filter, TypeOK
  <1>3. /\ seen' = seen \cup {e}
        /\ \A x \in seen : kept'[x] = kept[x]
        /\ ItemsOf[e] \ kept'[e] = RateLimitedItems(e)
    BY <1>1, <1>2 DEF Filter, TypeOK
  <1>4. LostItems("ratelimit_backoff") = UNION {ItemsOf[x] \ kept[x] : x \in seen}
    BY DEF LostItems
  <1>5. LostItems("ratelimit_backoff")' = UNION {ItemsOf[x] \ kept'[x] : x \in seen'}
    BY DEF LostItems
  <1>6. RateLimitedItems(e) \cap LostItems("ratelimit_backoff") = {}
    BY <1>1, <1>2, <1>4
  <1>7. LostItems("ratelimit_backoff")' = LostItems("ratelimit_backoff") \cup RateLimitedItems(e)
    BY <1>3, <1>4, <1>5
  <1> QED
    BY <1>1, <1>6, <1>7

\* Only e changes
OnlyMoves(e) ==
    \A x \in Envelopes \ {e} :
        kept'[x] = kept[x] /\ status'[x] = status[x] /\ (x \in tooLarge' <=> x \in tooLarge)

LEMMA OtherFates ==
    ASSUME NEW e \in Envelopes, OnlyMoves(e), NEW x \in Envelopes \ {e}
    PROVE  EnvelopeFate(x)' = EnvelopeFate(x)
  BY DEF OnlyMoves, EnvelopeFate

(* An envelope that is neither lost before nor after changes no loss. *)
LEMMA NoLoss ==
    ASSUME NEW e \in Envelopes, OnlyMoves(e),
           EnvelopeFate(e) \notin Reasons, EnvelopeFate(e)' \notin Reasons,
           NEW r \in Reasons \ {"ratelimit_backoff"}
    PROVE  LostItems(r)' = LostItems(r)
  <1>1. \A x \in Envelopes \ {e} : EnvelopeFate(x)' = EnvelopeFate(x) /\ kept'[x] = kept[x]
    BY OtherFates DEF OnlyMoves
  <1>2. Losers(r)' = Losers(r) /\ \A x \in Losers(r) : x # e
    BY <1>1 DEF Losers, ContainsReport
  <1>3. \A x \in Losers(r) : kept'[x] = kept[x]
    BY <1>1, <1>2 DEF Losers
  <1>4. UNION {kept'[x] : x \in Losers(r)'} = UNION {kept[x] : x \in Losers(r)}
    BY <1>2, <1>3
  <1> QED
    BY <1>4 DEF LostItems

(* An envelope that gets lost for a reason adds its items to that reason. *)
LEMMA Loss ==
    ASSUME TypeOK, SendCameFirst, SendCameFirst', NEW e \in Envelopes, OnlyMoves(e),
           NEW r \in Reasons \ {"ratelimit_backoff"},
           EnvelopeFate(e) \notin Reasons, EnvelopeFate(e)' = r
    PROVE  /\ LostItems(r)' = LostItems(r) \cup Told(kept'[e])
           /\ Told(kept'[e]) \cap LostItems(r) = {}
           /\ \A q \in Reasons \ {"ratelimit_backoff", r} : LostItems(q)' = LostItems(q)
  <1>1. \A x \in Envelopes \ {e} : EnvelopeFate(x)' = EnvelopeFate(x) /\ kept'[x] = kept[x]
    BY OtherFates DEF OnlyMoves
  <1>2. /\ \A q \in Reasons : \A x \in Losers(q) : x \in Envelopes /\ x # e /\ kept'[x] = kept[x]
        /\ \A q \in Reasons \ {r} : Losers(q)' = Losers(q)
        /\ Losers(r)' = IF ContainsReport(kept'[e]) THEN Losers(r) ELSE Losers(r) \cup {e}
    BY <1>1 DEF Losers, ContainsReport
  <1>3. \A x \in Losers(r) : kept[x] \cap kept'[e] = {}
    <2>1. \A x \in Losers(r) : kept[x] \subseteq ItemsOf[x] /\ kept'[e] \subseteq ItemsOf[e]
      BY <1>2 DEF SendCameFirst
    <2> QED
      BY <1>2, <2>1, TransportAssumption
  <1>4. LostItems(r) = UNION {kept[x] : x \in Losers(r)}
    BY DEF LostItems
  <1>5. LostItems(r)' = UNION {kept'[x] : x \in Losers(r)'}
    BY DEF LostItems
  <1>6. LostItems(r)' = LostItems(r) \cup Told(kept'[e])
    BY <1>2, <1>4, <1>5 DEF Told
  <1>7. Told(kept'[e]) \cap LostItems(r) = {}
    BY <1>3, <1>4 DEF Told
  <1>8. ASSUME NEW q \in Reasons \ {"ratelimit_backoff", r} PROVE LostItems(q)' = LostItems(q)
    <2>1. UNION {kept'[x] : x \in Losers(q)'} = UNION {kept[x] : x \in Losers(q)}
      BY <1>2
    <2> QED
      BY <2>1 DEF LostItems
  <1> QED
    BY <1>6, <1>7, <1>8

\* Lost', after a filter that dropped `items` and nothing else
LEMMA LostAfterFilter ==
    ASSUME TypeOK, NEW e \in Envelopes, Filter(e),
           \A r \in Reasons \ {"ratelimit_backoff"} : LostItems(r)' = LostItems(r)
    PROVE  Lost' = [Lost EXCEPT !["ratelimit_backoff"] = @ \cup RateLimitedItems(e)]
  BY FilterLoss DEF Lost, Reasons

(* RecordEnvelopeLoss counts the items that are told. *)
LEMMA RecordTold ==
    ASSUME NEW o \in Counters, NEW L \in [Reasons -> SUBSET Items], Exact(o, L),
           NEW r \in Reasons, NEW items \in SUBSET Items, Told(items) \cap L[r] = {}
    PROVE  Exact(RecordEnvelopeLoss(o, r, items), [L EXCEPT ![r] = @ \cup Told(items)])
  <1>1. CASE ContainsReport(items)
    <2>1. [L EXCEPT ![r] = @ \cup {}] = L
      OBVIOUS
    <2> QED
      BY <1>1, <2>1 DEF Told, RecordEnvelopeLoss
  <1>2. CASE ~ContainsReport(items)
    BY <1>2, RecordExact DEF Told, RecordEnvelopeLoss
  <1> QED
    BY <1>1, <1>2

LEMMA OutcomesStep ==
    ASSUME IInv, TypeOK', SendCameFirst', [Next]_vars
    PROVE  OutcomesAreExact'
  <1> DEFINE rb == "ratelimit_backoff"
  <1>0. /\ TypeOK /\ SendCameFirst /\ StackIsProducing /\ OutcomesAreExact
        /\ Lost \in [Reasons -> SUBSET Items]
        /\ outcomes \in Counters
        /\ Exact(outcomes, Lost)
        /\ \A e \in Envelopes : kept[e] \in SUBSET Items /\ kept'[e] \in SUBSET Items
    BY LostType, ExactLost DEF IInv, TypeOK, Counters
  <1>1. Exact(outcomes', Lost') => OutcomesAreExact'
    BY DEF Exact, OutcomesAreExact, Lost
  <1>2. ASSUME UNCHANGED <<outcomes, seen, kept>>, NEW e \in Envelopes, OnlyMoves(e),
               EnvelopeFate(e) \notin Reasons, EnvelopeFate(e)' \notin Reasons
        PROVE OutcomesAreExact'
    <2>1. \A r \in Reasons \ {rb} : LostItems(r)' = LostItems(r)
      BY <1>2, NoLoss
    <2>2. LostItems(rb)' = LostItems(rb)
      BY <1>2 DEF LostItems
    <2>3. Lost' = Lost
      BY <2>1, <2>2 DEF Lost
    <2> QED
      BY <1>0, <1>1, <1>2, <2>3
  <1>3. ASSUME UNCHANGED <<outcomes, seen, kept, status, tooLarge>> PROVE OutcomesAreExact'
    <2>1. \A x \in Envelopes : EnvelopeFate(x)' = EnvelopeFate(x)
      BY <1>3 DEF EnvelopeFate
    <2>2. \A r \in Reasons : Losers(r)' = Losers(r)
      BY <1>3, <2>1 DEF Losers
    <2>3. \A r \in Reasons : LostItems(r)' = LostItems(r)
      BY <1>3, <2>2 DEF LostItems
    <2>4. Lost' = Lost
      BY <2>3 DEF Lost
    <2> QED
      BY <1>0, <1>1, <1>3, <2>4
  <1>4. ASSUME NEW e \in Envelopes, SendNothing(e) \/ SendStart(e) PROVE OutcomesAreExact'
    <2>1. Filter(e) /\ OnlyMoves(e) /\ outcomes' = OutcomesAfterFilter(e)
      BY <1>0, <1>4
      DEF SendNothing, SendStart, Filter, OnlyMoves, bufferVars, PB!Start, TypeOK, PB!TypeOK
    <2>2. EnvelopeFate(e) \notin Reasons /\ EnvelopeFate(e)' \notin Reasons
      BY <1>0, <1>4 DEF SendNothing, SendStart, Filter, SendCameFirst, bufferVars, PB!Start, TypeOK,
                        PB!TypeOK, EnvelopeFate, Reasons
    <2>3. Lost' = [Lost EXCEPT ![rb] = @ \cup RateLimitedItems(e)]
      BY <1>0, <2>1, <2>2, NoLoss, LostAfterFilter
    <2>4. RateLimitedItems(e) \in SUBSET Items /\ RateLimitedItems(e) \cap Lost[rb] = {}
      BY <1>0, <2>1, FilterLoss DEF Lost, Reasons
    <2>5. Exact(outcomes', Lost')
      BY <1>0, <2>1, <2>3, <2>4, RecordExact DEF OutcomesAfterFilter, Reasons
    <2> QED
      BY <1>1, <2>5
  <1>5. ASSUME NEW e \in Envelopes, SendOverflow(e) PROVE OutcomesAreExact'
    <2> DEFINE r == "queue_overflow"
    <2> DEFINE o1 == OutcomesAfterFilter(e)
    <2> DEFINE L1 == [Lost EXCEPT ![rb] = @ \cup RateLimitedItems(e)]
    <2>1. Filter(e) /\ OnlyMoves(e) /\ outcomes' = RecordEnvelopeLoss(o1, r, kept'[e])
      BY <1>0, <1>5 DEF SendOverflow, Filter, OnlyMoves, PB!Refuse, TypeOK, PB!TypeOK
    <2>2. EnvelopeFate(e) \notin Reasons /\ EnvelopeFate(e)' = r
      BY <1>0, <1>5 DEF SendOverflow, Filter, SendCameFirst, PB!Refuse, TypeOK,
                        PB!TypeOK, EnvelopeFate, Reasons
    <2>3. RateLimitedItems(e) \in SUBSET Items /\ RateLimitedItems(e) \cap Lost[rb] = {}
      BY <1>0, <2>1, FilterLoss DEF Lost, Reasons
    <2>4. o1 \in Counters /\ L1 \in [Reasons -> SUBSET Items] /\ Exact(o1, L1)
      BY <1>0, <2>3, RecordExact, RecordType DEF OutcomesAfterFilter, Reasons
    <2>5. /\ LostItems(r)' = LostItems(r) \cup Told(kept'[e])
          /\ Told(kept'[e]) \cap LostItems(r) = {}
          /\ \A q \in Reasons \ {rb, r} : LostItems(q)' = LostItems(q)
      BY <1>0, <2>1, <2>2, Loss DEF Reasons
    <2>6. Lost' = [L1 EXCEPT ![r] = @ \cup Told(kept'[e])] /\ Told(kept'[e]) \cap L1[r] = {}
      BY <1>0, <2>1, <2>5, FilterLoss DEF Lost, Reasons
    <2> HIDE DEF o1, L1
    <2>7. Exact(outcomes', Lost')
      BY <1>0, <2>1, <2>4, <2>6, RecordTold DEF Reasons
    <2> QED
      BY <1>1, <2>7
  <1>6. ASSUME NEW e \in Envelopes, NEW r \in Reasons \ {rb}, OnlyMoves(e), UNCHANGED <<seen, kept>>,
               EnvelopeFate(e) \notin Reasons, EnvelopeFate(e)' = r,
               outcomes' = RecordEnvelopeLoss(outcomes, r, kept[e])
        PROVE OutcomesAreExact'
    <2>1. /\ LostItems(r)' = LostItems(r) \cup Told(kept[e])
          /\ Told(kept[e]) \cap LostItems(r) = {}
          /\ \A q \in Reasons \ {rb, r} : LostItems(q)' = LostItems(q)
      BY <1>0, <1>6, Loss
    <2>2. LostItems(rb)' = LostItems(rb)
      BY <1>6 DEF LostItems
    <2>3. Lost' = [Lost EXCEPT ![r] = @ \cup Told(kept[e])] /\ Told(kept[e]) \cap Lost[r] = {}
      BY <2>1, <2>2 DEF Lost
    <2>4. Exact(outcomes', Lost')
      BY <1>0, <1>6, <2>3, RecordTold
    <2> QED
      BY <1>1, <2>4
  <1>7. ASSUME NEW e \in Envelopes, RequestTooLarge(e) PROVE OutcomesAreExact'
    <2>1. /\ OnlyMoves(e) /\ UNCHANGED <<seen, kept>>
          /\ EnvelopeFate(e) \notin Reasons /\ EnvelopeFate(e)' = "send_error"
          /\ outcomes' = RecordEnvelopeLoss(outcomes, "send_error", kept[e])
      BY <1>0, <1>7 DEF RequestTooLarge, PB!Settle, OnlyMoves, TypeOK, PB!TypeOK, EnvelopeFate, Reasons
    <2> QED
      BY <1>6, <2>1 DEF Reasons
  <1>8. ASSUME NEW e \in Envelopes, RequestFailed(e) PROVE OutcomesAreExact'
    <2>1. /\ OnlyMoves(e) /\ UNCHANGED <<seen, kept>>
          /\ EnvelopeFate(e) \notin Reasons /\ EnvelopeFate(e)' = "network_error"
          /\ outcomes' = RecordEnvelopeLoss(outcomes, "network_error", kept[e])
      BY <1>0, <1>8 DEF RequestFailed, PB!Settle, OnlyMoves, TypeOK, PB!TypeOK, EnvelopeFate, Reasons
    <2> QED
      BY <1>6, <2>1 DEF Reasons
  <1>9. ASSUME NEW e \in Envelopes, RequestStarted(e) PROVE OutcomesAreExact'
    <2>1. status[e] = "producing"
      BY <1>0, <1>9, TopIsProducing DEF RequestStarted, PB!Store, PB!Throw, PB!Idle, TypeOK
    <2>2. /\ OnlyMoves(e) /\ UNCHANGED <<outcomes, seen, kept>>
          /\ EnvelopeFate(e) \notin Reasons /\ EnvelopeFate(e)' \notin Reasons
      BY <1>0, <1>9, <2>1 DEF RequestStarted, PB!Store, PB!Throw, OnlyMoves, TypeOK, PB!TypeOK,
                              EnvelopeFate, Reasons
    <2> QED
      BY <1>2, <2>2
  <1>10. ASSUME NEW e \in Envelopes, NEW response \in Responses, RequestAnswered(e, response)
         PROVE OutcomesAreExact'
    <2>1. /\ OnlyMoves(e) /\ UNCHANGED <<outcomes, seen, kept>>
          /\ EnvelopeFate(e) \notin Reasons /\ EnvelopeFate(e)' \notin Reasons
      BY <1>0, <1>10 DEF RequestAnswered, PB!Settle, OnlyMoves, TypeOK, PB!TypeOK, EnvelopeFate,
                         Reasons, SendCameFirst
    <2> QED
      BY <1>2, <2>1
  <1>11. ASSUME NEW f \in Flushes, NEW timed \in BOOLEAN, Flush(f, timed) PROVE OutcomesAreExact'
    BY <1>3, <1>11 DEF Flush, PB!CallDrain
  <1>12. CASE BufferStep
    BY <1>3, <1>12 DEF BufferStep, PB!Remove, PB!DrainDone, PB!DrainTimeout
  <1>13. CASE Tick \/ UNCHANGED vars
    BY <1>3, <1>13 DEF Tick, vars, bufferVars
  <1> QED
    BY <1>4, <1>5, <1>7, <1>8, <1>9, <1>10, <1>11, <1>12, <1>13 DEF Next

-----------------------------------------------------------------------------
LEMMA InitInv == Init => IInv
  <1> SUFFICES ASSUME Init PROVE IInv
    OBVIOUS
  <1> USE DEF Init, PB!Init
  <1>1. PB!TypeOK
    BY EmptySeq DEF PB!TypeOK, PB!Statuses, PB!Answers
  <1>2. TypeOK
    BY <1>1, LogAssumption DEF TypeOK, NoLimits, Table
  <1>3. StackIsProducing /\ SendCameFirst /\ PendingHasSlot
    BY <1>2 DEF StackIsProducing, SendCameFirst, PendingHasSlot, TypeOK
  <1>4. FlushKnows
    BY DEF FlushKnows, Knows
  <1>5. OutcomesAreExact
    <2>1. \A r \in Reasons : LostItems(r) = {}
      BY DEF LostItems, Losers, EnvelopeFate, Reasons
    <2>2. \A c : OfCategory({}, c) = {}
      BY DEF OfCategory
    <2>3. Cardinality({}) = 0
      BY FS_EmptySet
    <2> QED
      BY <2>1, <2>2, <2>3 DEF OutcomesAreExact
  <1> QED
    BY <1>2, <1>3, <1>4, <1>5 DEF IInv

LEMMA StepInv == IInv /\ [Next]_vars => IInv'
  BY TypeStep, SendStep, SlotStep, FlushStep, OutcomesStep DEF IInv

THEOREM Invariance == Spec => []IInv
  BY InitInv, StepInv, PTL DEF Spec

(* The variables keep their types. *)
THEOREM TypeCorrect == Spec => []TypeOK
  BY Invariance, PTL DEF IInv

(* base.ts:42-116: for every mix of rate limits, overflow, 413 answers and *)
(* network errors, the client was told of exactly the lost items.          *)
THEOREM ClientReportsAreExact == Spec => []OutcomesAreExact
  BY Invariance, PTL DEF IInv

(* base.ts:37: a flush that answered true leaves no earlier envelope       *)
(* unanswered.                                                             *)
THEOREM FlushIsSound == Spec => []FlushCoversEarlierSends
  <1>1. IInv => FlushCoversEarlierSends
    BY DEF IInv, FlushKnows, Knows, FlushCoversEarlierSends, EnvelopeFate, TypeOK, PB!TypeOK,
           PB!Statuses, PB!Settled
  <1> QED
    BY <1>1, Invariance, PTL
-----------------------------------------------------------------------------
(* What Transport implements besides its buffer: its table is the one of   *)
(* RateLimitLog, so what is proved there holds of it and of what is sent;  *)
(* and its items and counters move as EnvelopeDelivery says.               *)

Answered == {e \in Envelopes : status[e] = "fulfilled" /\ e \notin tooLarge}

(* The log has room for the answer of every envelope. *)
LogFits == Len(log) \in Nat /\ Len(log) = Cardinality(Answered)

-----------------------------------------------------------------------------
LEMMA EnvelopesAreCounted == Cardinality(Envelopes) \in Nat
  BY TransportAssumption, FS_CardinalityType

(* Each envelope is answered once, so there are never too many answers. *)
LEMMA OneMoreAnswer ==
    ASSUME IInv, LogFits, NEW e \in Envelopes, NEW response \in Responses, RequestAnswered(e, response)
    PROVE  /\ Len(log) < MaxResponses
           /\ LogFits'
  <1>1. /\ status[e] = "pending" /\ status' = [status EXCEPT ![e] = "fulfilled"]
        /\ tooLarge' = tooLarge /\ log' = Append(log, [at |-> now, response |-> response])
        /\ status \in [Envelopes -> PB!Statuses]
    BY DEF RequestAnswered, PB!Settle, IInv, TypeOK, PB!TypeOK
  <1>2. e \notin tooLarge /\ e \notin Answered
    BY <1>1 DEF IInv, SendCameFirst, Answered
  <1>3. Answered' = Answered \cup {e}
    BY <1>1, <1>2 DEF Answered
  <1>4. IsFiniteSet(Envelopes) /\ Answered \cup {e} \subseteq Envelopes
    BY TransportAssumption DEF Answered
  <1>5. IsFiniteSet(Answered) /\ Cardinality(Answered \cup {e}) <= Cardinality(Envelopes)
    BY <1>4, FS_Subset
  <1>6. Cardinality(Answered \cup {e}) = Cardinality(Answered) + 1
    BY <1>2, <1>5, FS_AddElement
  <1>7. Len(log) = Cardinality(Answered) /\ Len(log) \in Nat
    BY DEF LogFits
  <1>8. Len(log') = Len(log) + 1
    BY <1>1 DEF LogFits
  <1>9. Cardinality(Envelopes) <= MaxResponses /\ MaxResponses \in Nat
    BY TransportAssumption, LogAssumption
  <1> QED
    BY <1>3, <1>5, <1>6, <1>7, <1>8, <1>9, EnvelopesAreCounted DEF LogFits

(* A step changes the table and the log only to take in an answer. *)
LEMMA OnlyAnswersAreLogged ==
    ASSUME IInv, [Next]_vars
    PROVE  \/ \E e \in Envelopes, response \in Responses : RequestAnswered(e, response)
           \/ Tick /\ Answered' = Answered
           \/ UNCHANGED <<rateLimits, now, log>> /\ Answered' = Answered
  <1> DEFINE Quiet == UNCHANGED <<rateLimits, now, log>> /\ Answered' = Answered
  <1> USE DEF IInv, TypeOK, PB!TypeOK
  <1>1. ASSUME NEW e \in Envelopes, status[e] # "fulfilled", NEW s, s # "fulfilled",
               status' = [status EXCEPT ![e] = s], tooLarge' = tooLarge
        PROVE  Answered' = Answered
    BY <1>1 DEF Answered
  <1>2. ASSUME status' = status, tooLarge' = tooLarge PROVE Answered' = Answered
    BY <1>2 DEF Answered
  <1>3. ASSUME NEW e \in Envelopes, SendNothing(e) PROVE Quiet
    BY <1>2, <1>3 DEF SendNothing, Filter, bufferVars
  <1>4. ASSUME NEW e \in Envelopes, SendOverflow(e) PROVE Quiet
    BY <1>1, <1>4 DEF SendOverflow, Filter, PB!Refuse
  <1>5. ASSUME NEW e \in Envelopes, SendStart(e) PROVE Quiet
    BY <1>1, <1>5 DEF SendStart, Filter, PB!Start
  <1>6. ASSUME NEW e \in Envelopes, RequestStarted(e) PROVE Quiet
    <2>1. e = PB!Top /\ stack # <<>> /\ tooLarge' = tooLarge /\ UNCHANGED <<rateLimits, now, log>>
      BY <1>6 DEF RequestStarted, PB!Store, PB!Throw, PB!Idle
    <2>2. status[e] = "producing"
      BY <2>1 DEF PB!Top, StackIsProducing
    <2>3. \E s \in {"pending", "thrown"} : status' = [status EXCEPT ![e] = s]
      BY <1>6 DEF RequestStarted, PB!Store, PB!Throw
    <2> QED
      BY <1>1, <2>1, <2>2, <2>3
  <1>7. ASSUME NEW e \in Envelopes, RequestTooLarge(e) PROVE Quiet
    BY <1>7 DEF RequestTooLarge, PB!Settle, Answered
  <1>8. ASSUME NEW e \in Envelopes, RequestFailed(e) PROVE Quiet
    BY <1>1, <1>8 DEF RequestFailed, PB!Settle
  <1>9. ASSUME NEW f \in Flushes, NEW timed \in BOOLEAN, Flush(f, timed) PROVE Quiet
    BY <1>2, <1>9 DEF Flush, PB!CallDrain
  <1>10. ASSUME BufferStep PROVE Quiet
    BY <1>2, <1>10 DEF BufferStep, PB!Remove, PB!DrainDone, PB!DrainTimeout
  <1>11. ASSUME UNCHANGED vars PROVE Quiet
    BY <1>2, <1>11 DEF vars, bufferVars
  <1>12. ASSUME Tick PROVE Answered' = Answered
    BY <1>2, <1>12 DEF Tick, bufferVars
  <1> QED
    BY <1>3, <1>4, <1>5, <1>6, <1>7, <1>8, <1>9, <1>10, <1>11, <1>12 DEF Next

LEMMA LogFitsStep == IInv /\ LogFits /\ [Next]_vars => LogFits'
  <1> SUFFICES ASSUME IInv, LogFits, [Next]_vars PROVE LogFits'
    OBVIOUS
  <1>1. CASE \E e \in Envelopes, response \in Responses : RequestAnswered(e, response)
    BY <1>1, OneMoreAnswer
  <1>2. CASE Tick /\ Answered' = Answered
    BY <1>2 DEF Tick, LogFits
  <1>3. CASE UNCHANGED <<rateLimits, now, log>> /\ Answered' = Answered
    BY <1>3 DEF LogFits
  <1> QED
    BY <1>1, <1>2, <1>3, OnlyAnswersAreLogged

LEMMA LogFitsInit == Init => LogFits
  <1> SUFFICES ASSUME Init PROVE LogFits
    OBVIOUS
  <1>1. Answered = {} /\ log = <<>>
    BY DEF Init, PB!Init, Answered
  <1> QED
    BY <1>1, FS_EmptySet DEF LogFits

-----------------------------------------------------------------------------
(* Every step of the transport is a step of RateLimitLog, or leaves it alone. *)
LEMMA LogSteps == IInv /\ LogFits /\ [Next]_vars => [LogNext]_(logVars)
  <1> SUFFICES ASSUME IInv, LogFits, [Next]_vars PROVE LogNext \/ UNCHANGED logVars
    OBVIOUS
  <1>1. ASSUME NEW e \in Envelopes, NEW response \in Responses, RequestAnswered(e, response)
        PROVE  LogNext
    <2>1. Receive(response)
      BY <1>1, OneMoreAnswer DEF RequestAnswered, Receive
    <2> QED
      BY <2>1 DEF LogNext
  <1>2. CASE Tick
    BY <1>2 DEF Tick, TimePasses, LogNext
  <1>3. CASE UNCHANGED <<rateLimits, now, log>>
    BY <1>3 DEF logVars
  <1> QED
    BY <1>1, <1>2, <1>3, OnlyAnswersAreLogged

(* base.ts:95: the table takes in every answer, in order.                  *)
THEOREM TableFollowsTheServer == Spec => FollowsTheServer
  <1>1. Init => LogInit
    BY DEF Init, LogInit
  <1> QED
    BY <1>1, Invariance, LogFitsInit, LogFitsStep, LogSteps, PTL DEF Spec, FollowsTheServer, LogSpec

-----------------------------------------------------------------------------
LEMMA ObeyedInv == Spec => []LogIInv
  BY LogInitHolds, LogStepHolds, TableFollowsTheServer, PTL DEF FollowsTheServer, LogSpec

(* What the filter lets through is not limited by the server's last word. *)
LEMMA UnlimitedIsAllowed ==
    ASSUME LogIInv, NEW c \in Categories, ~IsRateLimited(rateLimits, c, now)
    PROVE  Spoken(c) # {} => LastWord(c) <= now
  <1>1. ServerIsObeyed
    BY ServerIsObeyedHolds
  <1>2. Spoken(c) # {} => ~(LastWord(c) > now)
    BY <1>1 DEF ServerIsObeyed
  <1>3. Spoken(c) # {} => LastWord(c) \in Int
    BY LastWordIsNotZero DEF LogIInv, Keys
  <1>4. now \in Int
    BY LogAssumption DEF LogIInv, LogTypeOK
  <1> QED
    BY <1>2, <1>3, <1>4

(* Only send() starts a request. *)
LEMMA OnlySendStarts ==
    ASSUME IInv, [Next]_vars, NEW e \in Envelopes, status[e] = "new", status'[e] = "producing"
    PROVE  SendStart(e)
  <1> USE DEF IInv, TypeOK, PB!TypeOK
  <1>1. ASSUME NEW f \in Envelopes, NEW s, status' = [status EXCEPT ![f] = s], s # "producing"
        PROVE  FALSE
    BY <1>1
  <1>2. ASSUME status' = status PROVE FALSE
    BY <1>2
  <1>3. ASSUME NEW f \in Envelopes, SendStart(f) PROVE SendStart(e)
    <2>1. status' = [status EXCEPT ![f] = "producing"]
      BY <1>3 DEF SendStart, PB!Start
    <2>2. e = f
      BY <2>1
    <2> QED
      BY <1>3, <2>2
  <1>4. ASSUME NEW f \in Envelopes, SendNothing(f) PROVE FALSE
    BY <1>2, <1>4 DEF SendNothing, bufferVars
  <1>5. ASSUME NEW f \in Envelopes, SendOverflow(f) PROVE FALSE
    BY <1>1, <1>5 DEF SendOverflow, PB!Refuse
  <1>6. ASSUME NEW f \in Envelopes, RequestStarted(f) PROVE FALSE
    BY <1>1, <1>6 DEF RequestStarted, PB!Store, PB!Throw
  <1>7. ASSUME NEW f \in Envelopes, NEW s \in {"fulfilled", "rejected"}, PB!Settle(f, s) PROVE FALSE
    BY <1>1, <1>7 DEF PB!Settle
  <1>8. ASSUME NEW f \in Envelopes, RequestTooLarge(f) \/ RequestFailed(f) PROVE FALSE
    BY <1>7, <1>8 DEF RequestTooLarge, RequestFailed
  <1>9. ASSUME NEW f \in Envelopes, NEW response \in Responses, RequestAnswered(f, response) PROVE FALSE
    BY <1>7, <1>9 DEF RequestAnswered
  <1>10. ASSUME NEW f \in Flushes, NEW timed \in BOOLEAN, Flush(f, timed) PROVE FALSE
    BY <1>2, <1>10 DEF Flush, PB!CallDrain
  <1>11. ASSUME BufferStep PROVE FALSE
    BY <1>2, <1>11 DEF BufferStep, PB!Remove, PB!DrainDone, PB!DrainTimeout
  <1>12. ASSUME Tick \/ UNCHANGED vars PROVE FALSE
    BY <1>2, <1>12 DEF Tick, vars, bufferVars
  <1> QED
    BY <1>3, <1>4, <1>5, <1>6, <1>8, <1>9, <1>10, <1>11, <1>12 DEF Next

LEMMA NothingLimitedStarts ==
    ASSUME IInv, LogIInv, [Next]_vars,
           NEW e \in Envelopes, status[e] = "new", status'[e] = "producing", NEW i \in kept'[e]
    PROVE  Spoken(CategoryOf[i]) # {} => LastWord(CategoryOf[i]) <= now
  <1>1. kept' = [kept EXCEPT ![e] = ItemsOf[e] \ RateLimitedItems(e)]
    BY OnlySendStarts DEF SendStart, Filter
  <1>2. i \in ItemsOf[e] /\ i \notin RateLimitedItems(e)
    BY <1>1 DEF IInv, TypeOK
  <1>3. CategoryOf[i] \in Categories /\ ~IsRateLimited(rateLimits, CategoryOf[i], now)
    BY <1>2, TransportAssumption DEF RateLimitedItems
  <1> QED
    BY <1>3, UnlimitedIsAllowed

(* base.ts:43, 95: whatever the server answers and however requests        *)
(* overlap, no request carries an item that its latest answer about the    *)
(* category disabled, and no answer is missed.                             *)
THEOREM ServerIsHeeded == Spec => LimitsAreHeeded
  <1> DEFINE Heeded == \A e \in Envelopes : status[e] = "new" /\ status'[e] = "producing" =>
                          \A i \in kept'[e] :
                              Spoken(CategoryOf[i]) # {} => LastWord(CategoryOf[i]) <= now
  <1>1. IInv /\ LogIInv /\ [Next]_vars => [Heeded]_vars
    BY NothingLimitedStarts
  <1>2. Spec => [][Heeded]_vars
    <2> HIDE DEF Heeded
    <2> QED
      BY <1>1, Invariance, ObeyedInv, PTL DEF Spec
  <1> QED
    BY <1>2, TableFollowsTheServer DEF LimitsAreHeeded, NoLimitedItemIsSent
-----------------------------------------------------------------------------
(* EnvelopeDelivery *)

\* The fate of an item of envelope e
FateIn(e, i) ==
    IF e \notin seen THEN "new"
    ELSE IF i \notin kept[e] THEN "ratelimit_backoff"
    ELSE EnvelopeFate(e)

LEMMA EnvelopeOfItem ==
    ASSUME NEW e \in Envelopes, NEW i \in ItemsOf[e]
    PROVE  i \in Items /\ ItemFate(i) = FateIn(e, i) /\ ItemFate(i)' = FateIn(e, i)'
  <1>1. i \in Items
    BY TransportAssumption
  <1>2. (CHOOSE f \in Envelopes : i \in ItemsOf[f]) = e
    BY TransportAssumption
  <1> QED
    BY <1>1, <1>2 DEF ItemFate, FateIn

(* What becomes of the other envelopes' items when only e moves. *)
Alone(e) ==
    \A f \in Envelopes \ {e} :
        /\ f \in seen' <=> f \in seen
        /\ f \in tooLarge' <=> f \in tooLarge
        /\ kept'[f] = kept[f] /\ status'[f] = status[f]

LEMMA OthersKeepTheirFate ==
    ASSUME NEW e \in Envelopes, Alone(e), NEW i \in Items \ ItemsOf[e]
    PROVE  ItemFate(i)' = ItemFate(i)
  <1>1. PICK f \in Envelopes : i \in ItemsOf[f]
    BY TransportAssumption
  <1>2. f # e
    BY <1>1
  <1>3. /\ f \in seen' <=> f \in seen
        /\ f \in tooLarge' <=> f \in tooLarge
        /\ kept'[f] = kept[f] /\ status'[f] = status[f]
    BY <1>2 DEF Alone
  <1>4. EnvelopeFate(f)' = EnvelopeFate(f)
    BY <1>3 DEF EnvelopeFate
  <1>5. FateIn(f, i)' = FateIn(f, i)
    BY <1>3, <1>4 DEF FateIn
  <1> QED
    BY <1>1, <1>5, EnvelopeOfItem

LEMMA FatesAreFates ==
    ASSUME TypeOK, NEW i \in Items
    PROVE  ItemFate(i) \in ED!Fates
  <1>1. PICK e \in Envelopes : i \in ItemsOf[e]
    BY TransportAssumption
  <1>2. FateIn(e, i) \in ED!Fates
    BY DEF FateIn, EnvelopeFate, ED!Fates, ED!Reasons, TypeOK, PB!TypeOK, PB!Statuses, PB!Settled
  <1> QED
    BY <1>1, <1>2, EnvelopeOfItem

(* What one more loss adds to a counter *)
LEMMA OneLoss ==
    ASSUME NEW o \in Counters, NEW reason \in Reasons, NEW items \in SUBSET Items,
           NEW r \in Reasons, NEW c \in Categories
    PROVE  /\ RecordDropped(o, reason, items)[r][c]
                  = o[r][c] + IF r = reason THEN Cardinality(OfCategory(items, c)) ELSE 0
           /\ RecordEnvelopeLoss(o, reason, items)[r][c]
                  = o[r][c] + IF r = reason /\ ~ContainsReport(items)
                              THEN Cardinality(OfCategory(items, c)) ELSE 0
  <1>1. o[r][c] \in Nat /\ Cardinality(OfCategory(items, c)) \in Nat
    BY CountType DEF Counters
  <1>2. RecordDropped(o, reason, items)[r][c]
            = o[r][c] + IF r = reason THEN Cardinality(OfCategory(items, c)) ELSE 0
    BY <1>1 DEF RecordDropped, Counters
  <1> QED
    BY <1>1, <1>2 DEF RecordEnvelopeLoss

(* Items of e that met the end r in this step, and those of them the       *)
(* client has to hear of                                                   *)
Met(e, r) == {i \in ItemsOf[e] : FateIn(e, i) # r /\ FateIn(e, i)' = r}
ToTell(e, r) == IF r # "ratelimit_backoff" /\ Met(e, r) \cap ReportItems # {} THEN {} ELSE Met(e, r)

LEMMA SameCardinality == \A S : ED!Cardinality(S) = Cardinality(S)
  BY DEF ED!Cardinality, Cardinality

(* A step in which one envelope moves and exactly its losses are told is a *)
(* step of EnvelopeDelivery.                                               *)
LEMMA MoveIsMove ==
    ASSUME TypeOK, TypeOK', NEW e \in Envelopes, Alone(e),
           \A i \in ItemsOf[e] :
               \/ FateIn(e, i)' \in ED!MayBecome(FateIn(e, i))
               \/ FateIn(e, i)' = FateIn(e, i) /\ ED!MayBecome(FateIn(e, i)) = {},
           \A r \in Reasons, c \in Categories :
               outcomes'[r][c] = outcomes[r][c] + Cardinality(OfCategory(ToTell(e, r), c))
    PROVE  ED!Next
  <1> DEFINE old == [i \in Items |-> ItemFate(i)]
             new == [i \in Items |-> ItemFate(i)']
  <1>1. ItemsOf[e] \in SUBSET Items
    BY TransportAssumption
  <1>2. \A i \in ItemsOf[e] : old[i] = FateIn(e, i) /\ new[i] = FateIn(e, i)'
    BY <1>1, EnvelopeOfItem
  <1>3. new \in [Items -> ED!Fates]
    <2> SUFFICES ASSUME NEW i \in Items PROVE ItemFate(i)' \in ED!Fates
      OBVIOUS
    <2>1. PICK f \in Envelopes : i \in ItemsOf[f]
      BY TransportAssumption
    <2>2. FateIn(f, i)' \in ED!Fates
      BY DEF FateIn, EnvelopeFate, ED!Fates, ED!Reasons, TypeOK, PB!TypeOK, PB!Statuses, PB!Settled
    <2> QED
      BY <2>1, <2>2, EnvelopeOfItem
  <1>4. \A i \in Items \ ItemsOf[e] : new[i] = old[i]
    BY OthersKeepTheirFate
  <1>5. \A i \in ItemsOf[e] : \/ new[i] \in ED!MayBecome(old[i])
                              \/ new[i] = old[i] /\ ED!MayBecome(old[i]) = {}
    BY <1>2
  <1>6. \A i, j \in ItemsOf[e] : "ratelimit_backoff" \notin {new[i], new[j]} => new[i] = new[j]
    BY <1>2 DEF FateIn
  <1>7. \A r : ED!Told({i \in ItemsOf[e] : old[i] # r /\ new[i] = r}, r) = ToTell(e, r)
    BY <1>2 DEF ED!Told, ToTell, Met
  <1>8. outcomes' = [r \in Reasons |-> [c \in Categories |->
                        outcomes[r][c] + Cardinality(OfCategory(ToTell(e, r), c))]]
    BY DEF TypeOK
  <1>9. outcomes' = [r \in ED!Reasons |-> [c \in Categories |->
                        outcomes[r][c] + ED!Cardinality({i \in ED!Told({j \in ItemsOf[e] : old[j] # r /\ new[j] = r}, r) :
                                                         CategoryOf[i] = c})]]
    <2> HIDE DEF old, new
    <2> QED
      BY <1>7, <1>8, SameCardinality DEF OfCategory, Reasons, ED!Reasons
  <1>10. ED!Move(e, old, new)
    <2> HIDE DEF old, new
    <2> QED
      BY <1>3, <1>4, <1>5, <1>6, <1>9 DEF ED!Move
  <1> QED
    BY <1>10 DEF ED!Next
LEMMA NothingToTell == \A c : Cardinality(OfCategory({}, c)) = 0
  <1>1. \A c : OfCategory({}, c) = {}
    BY DEF OfCategory
  <1> QED
    BY <1>1, FS_EmptySet

(* send() decides about all items of the envelope. *)
LEMMA SendMoves ==
    ASSUME IInv, TypeOK', NEW e \in Envelopes, Filter(e), Alone(e),
           kept'[e] # {} => EnvelopeFate(e)' \in {"inflight", "queue_overflow"},
           outcomes' = IF kept'[e] # {} /\ EnvelopeFate(e)' = "queue_overflow"
                       THEN RecordEnvelopeLoss(OutcomesAfterFilter(e), "queue_overflow", kept'[e])
                       ELSE OutcomesAfterFilter(e)
    PROVE  ED!Next
  <1> DEFINE limited == RateLimitedItems(e)
             rest == kept'[e]
             full == EnvelopeFate(e)' = "queue_overflow"
  <1>1. /\ ItemsOf[e] \in SUBSET Items /\ limited \in SUBSET ItemsOf[e] /\ rest = ItemsOf[e] \ limited
        /\ e \notin seen /\ e \in seen'
    BY TransportAssumption DEF Filter, RateLimitedItems, IInv, TypeOK
  <1>2. \A i \in ItemsOf[e] : /\ FateIn(e, i) = "new"
                              /\ FateIn(e, i)' = IF i \in limited THEN "ratelimit_backoff" ELSE EnvelopeFate(e)'
    BY <1>1 DEF FateIn
  <1>3. \A i \in ItemsOf[e] : FateIn(e, i)' \in ED!MayBecome(FateIn(e, i))
    BY <1>1, <1>2 DEF ED!MayBecome
  <1>4. \A r \in Reasons : Met(e, r) = IF r = "ratelimit_backoff" THEN limited
                                        ELSE IF r = "queue_overflow" /\ full THEN rest ELSE {}
    BY <1>1, <1>2 DEF Met, Reasons
  <1>5. \A r \in Reasons : ToTell(e, r) = IF r = "ratelimit_backoff" THEN limited
                                           ELSE IF r = "queue_overflow" /\ full /\ ~ContainsReport(rest)
                                                THEN rest ELSE {}
    BY <1>4 DEF ToTell, ContainsReport
  <1>6. outcomes \in Counters /\ OutcomesAfterFilter(e) \in Counters /\ limited \in SUBSET Items /\ rest \in SUBSET Items
    BY <1>1, RecordType DEF IInv, TypeOK, Counters, OutcomesAfterFilter, Reasons
  <1> HIDE DEF limited, rest
  <1>7. ASSUME NEW r \in Reasons, NEW c \in Categories
        PROVE  outcomes'[r][c] = outcomes[r][c] + Cardinality(OfCategory(ToTell(e, r), c))
    <2> DEFINE filtered == OutcomesAfterFilter(e)
    <2>1. filtered[r][c] = outcomes[r][c]
              + IF r = "ratelimit_backoff" THEN Cardinality(OfCategory(limited, c)) ELSE 0
      BY <1>6, OneLoss DEF OutcomesAfterFilter, Reasons, limited
    <2>2. RecordEnvelopeLoss(filtered, "queue_overflow", rest)[r][c] = filtered[r][c]
              + IF r = "queue_overflow" /\ ~ContainsReport(rest) THEN Cardinality(OfCategory(rest, c)) ELSE 0
      BY <1>6, OneLoss DEF Reasons
    <2>3. outcomes[r][c] \in Nat /\ filtered[r][c] \in Nat
      BY <1>6 DEF Counters
    <2>4. outcomes' = IF rest # {} /\ full THEN RecordEnvelopeLoss(filtered, "queue_overflow", rest) ELSE filtered
      BY DEF rest
    <2> HIDE DEF filtered, full
    <2>5. CASE r = "ratelimit_backoff"
      BY <1>5, <2>1, <2>2, <2>3, <2>4, <2>5
    <2>6. CASE r = "queue_overflow"
      <3>0. filtered[r][c] = outcomes[r][c]
        BY <2>1, <2>3, <2>6
      <3>1. CASE full /\ rest # {} /\ ~ContainsReport(rest)
        <4>1. ToTell(e, r) = rest
          BY <1>5, <2>6, <3>1
        <4>2. outcomes'[r][c] = filtered[r][c] + Cardinality(OfCategory(rest, c))
          BY <2>2, <2>4, <2>6, <3>1
        <4> QED
          BY <3>0, <4>1, <4>2
      <3>2. CASE ~(full /\ rest # {} /\ ~ContainsReport(rest))
        <4>1. ToTell(e, r) = {}
          BY <1>5, <2>6, <3>2
        <4>2. outcomes'[r][c] = filtered[r][c]
          <5>1. CASE full /\ rest # {}
            BY <2>2, <2>3, <2>4, <2>6, <3>2, <5>1
          <5>2. CASE ~(full /\ rest # {})
            BY <2>4, <5>2
          <5> QED
            BY <5>1, <5>2
        <4> QED
          BY <2>3, <3>0, <4>1, <4>2, NothingToTell
      <3> QED
        BY <3>1, <3>2
    <2>7. CASE r \notin {"ratelimit_backoff", "queue_overflow"}
      BY <1>5, <2>1, <2>2, <2>3, <2>4, <2>7, NothingToTell
    <2> QED
      BY <2>5, <2>6, <2>7
  <1> QED
    BY <1>3, <1>7, MoveIsMove DEF IInv

(* A request that was under way meets its end. *)
LEMMA EndMoves ==
    ASSUME IInv, TypeOK', NEW e \in Envelopes, Alone(e), e \in seen,
           seen' = seen, kept' = kept, EnvelopeFate(e) = "inflight",
           NEW end \in {"answered", "untold", "send_error", "network_error"}, EnvelopeFate(e)' = end,
           outcomes' = IF end \in Reasons THEN RecordEnvelopeLoss(outcomes, end, kept[e]) ELSE outcomes
    PROVE  ED!Next
  <1>1. kept[e] \in SUBSET ItemsOf[e] /\ kept[e] \in SUBSET Items /\ outcomes \in Counters
    BY TransportAssumption DEF IInv, SendCameFirst, TypeOK, Counters
  <1>2. \A i \in ItemsOf[e] :
           /\ FateIn(e, i) = IF i \in kept[e] THEN "inflight" ELSE "ratelimit_backoff"
           /\ FateIn(e, i)' = IF i \in kept[e] THEN end ELSE "ratelimit_backoff"
    BY DEF FateIn
  <1>3. \A i \in ItemsOf[e] : \/ FateIn(e, i)' \in ED!MayBecome(FateIn(e, i))
                              \/ FateIn(e, i)' = FateIn(e, i) /\ ED!MayBecome(FateIn(e, i)) = {}
    BY <1>2 DEF ED!MayBecome
  <1>4. \A r \in Reasons : Met(e, r) = IF r = end THEN kept[e] ELSE {}
    BY <1>1, <1>2 DEF Met, Reasons
  <1>5. \A r \in Reasons : ToTell(e, r) = IF r = end /\ ~ContainsReport(kept[e]) THEN kept[e] ELSE {}
    BY <1>4 DEF ToTell, ContainsReport, Reasons
  <1>6. ASSUME NEW r \in Reasons, NEW c \in Categories
        PROVE  outcomes'[r][c] = outcomes[r][c] + Cardinality(OfCategory(ToTell(e, r), c))
    <2>1. outcomes[r][c] \in Nat
      BY <1>1 DEF Counters
    <2>2. CASE end \in Reasons
      <3>1. outcomes'[r][c] = outcomes[r][c] + IF r = end /\ ~ContainsReport(kept[e])
                                               THEN Cardinality(OfCategory(kept[e], c)) ELSE 0
        BY <1>1, <2>2, OneLoss
      <3> QED
        BY <1>5, <2>1, <3>1, NothingToTell
    <2>3. CASE end \notin Reasons
      <3>1. ToTell(e, r) = {} /\ outcomes' = outcomes
        BY <1>5, <2>3
      <3> QED
        BY <2>1, <3>1, NothingToTell
    <2> QED
      BY <2>2, <2>3
  <1> QED
    BY <1>3, <1>6, MoveIsMove DEF IInv

(* Nothing moves. *)
LEMMA NothingMoves ==
    ASSUME TypeOK, outcomes' = outcomes, seen' = seen, kept' = kept,
           \A e \in Envelopes : EnvelopeFate(e)' = EnvelopeFate(e)
    PROVE  UNCHANGED ED!vars
  <1>1. ASSUME NEW i \in Items PROVE ItemFate(i)' = ItemFate(i)
    <2>1. PICK e \in Envelopes : i \in ItemsOf[e]
      BY TransportAssumption
    <2>2. FateIn(e, i)' = FateIn(e, i)
      BY DEF FateIn
    <2> QED
      BY <2>1, <2>2, EnvelopeOfItem
  <1> QED
    BY <1>1 DEF ED!vars

LEMMA DeliverySteps == IInv /\ TypeOK' /\ [Next]_vars => [ED!Next]_(ED!vars)
  <1> SUFFICES ASSUME IInv, TypeOK', [Next]_vars PROVE ED!Next \/ UNCHANGED ED!vars
    OBVIOUS
  <1>0. /\ status \in [Envelopes -> PB!Statuses] /\ kept \in [Envelopes -> SUBSET Items]
        /\ SendCameFirst /\ StackIsProducing /\ PB!TypeOK
    BY DEF IInv, TypeOK, PB!TypeOK
  <1>1. ASSUME NEW e \in Envelopes, Filter(e), NEW s, status' = [status EXCEPT ![e] = s] \/ status' = status
        PROVE  Alone(e)
    BY <1>0, <1>1 DEF Filter, Alone
  <1>2. ASSUME NEW e \in Envelopes, seen' = seen, kept' = kept, NEW s, status' = [status EXCEPT ![e] = s],
               tooLarge' = tooLarge \/ tooLarge' = tooLarge \cup {e}
        PROVE  Alone(e)
    BY <1>0, <1>2 DEF Alone
  <1>3. \A e \in Envelopes : status[e] # "new" => e \in seen
    BY <1>0 DEF SendCameFirst
  <1>4. ASSUME NEW e \in Envelopes, SendNothing(e) PROVE ED!Next
    BY <1>1, <1>4, SendMoves DEF SendNothing, bufferVars
  <1>5. ASSUME NEW e \in Envelopes, SendOverflow(e) PROVE ED!Next
    <2>1. Filter(e) /\ Alone(e) /\ status'[e] = "refused" /\ kept'[e] # {}
      BY <1>0, <1>1, <1>5 DEF SendOverflow, PB!Refuse
    <2>2. EnvelopeFate(e)' = "queue_overflow"
      BY <2>1 DEF EnvelopeFate
    <2> QED
      BY <1>5, <2>1, <2>2, SendMoves DEF SendOverflow
  <1>6. ASSUME NEW e \in Envelopes, SendStart(e) PROVE ED!Next
    <2>1. Filter(e) /\ Alone(e) /\ status'[e] = "producing"
      BY <1>0, <1>1, <1>6 DEF SendStart, PB!Start
    <2>2. EnvelopeFate(e)' = "inflight"
      BY <2>1 DEF EnvelopeFate
    <2> QED
      BY <1>6, <2>1, <2>2, SendMoves DEF SendStart
  <1>7. ASSUME NEW e \in Envelopes, RequestStarted(e) PROVE ED!Next \/ UNCHANGED ED!vars
    <2>1. /\ status[e] = "producing"
          /\ seen' = seen /\ kept' = kept /\ tooLarge' = tooLarge /\ outcomes' = outcomes
      BY <1>0, <1>7, TopIsProducing DEF RequestStarted, PB!Store, PB!Throw, PB!Idle
    <2>2. EnvelopeFate(e) = "inflight" /\ e \in seen
      BY <1>3, <2>1 DEF EnvelopeFate
    <2>3. CASE status' = [status EXCEPT ![e] = "pending"]
      <3>1. \A f \in Envelopes : EnvelopeFate(f)' = EnvelopeFate(f)
        <4> SUFFICES ASSUME NEW f \in Envelopes PROVE EnvelopeFate(f)' = EnvelopeFate(f)
          OBVIOUS
        <4>1. CASE f = e
          BY <1>0, <2>2, <2>3, <4>1 DEF EnvelopeFate
        <4>2. CASE f # e
          BY <1>0, <2>1, <2>3, <4>2 DEF EnvelopeFate
        <4> QED
          BY <4>1, <4>2
      <3> QED
        BY <2>1, <3>1, NothingMoves DEF IInv
    <2>4. CASE status' = [status EXCEPT ![e] = "thrown"]
      <3>1. EnvelopeFate(e)' = "untold"
        BY <1>0, <2>4 DEF EnvelopeFate
      <3>2. "untold" \notin Reasons
        BY DEF Reasons
      <3> QED
        BY <1>2, <2>1, <2>2, <2>4, <3>1, <3>2, EndMoves
    <2> QED
      BY <1>7, <2>3, <2>4 DEF RequestStarted, PB!Store, PB!Throw
  <1>8. ASSUME NEW e \in Envelopes, status[e] = "pending" PROVE EnvelopeFate(e) = "inflight" /\ e \in seen /\ e \notin tooLarge
    BY <1>0, <1>3, <1>8 DEF EnvelopeFate, SendCameFirst
  <1>9. ASSUME NEW e \in Envelopes, RequestTooLarge(e) PROVE ED!Next
    <2>1. /\ status[e] = "pending" /\ status' = [status EXCEPT ![e] = "fulfilled"]
          /\ tooLarge' = tooLarge \cup {e} /\ seen' = seen /\ kept' = kept
          /\ outcomes' = RecordEnvelopeLoss(outcomes, "send_error", kept[e])
      BY <1>9 DEF RequestTooLarge, PB!Settle
    <2>2. EnvelopeFate(e)' = "send_error" /\ "send_error" \in Reasons
      BY <1>0, <2>1 DEF EnvelopeFate, Reasons
    <2> QED
      BY <1>2, <1>8, <2>1, <2>2, EndMoves
  <1>10. ASSUME NEW e \in Envelopes, RequestFailed(e) PROVE ED!Next
    <2>1. /\ status[e] = "pending" /\ status' = [status EXCEPT ![e] = "rejected"]
          /\ tooLarge' = tooLarge /\ seen' = seen /\ kept' = kept
          /\ outcomes' = RecordEnvelopeLoss(outcomes, "network_error", kept[e])
      BY <1>10 DEF RequestFailed, PB!Settle
    <2>2. EnvelopeFate(e)' = "network_error" /\ "network_error" \in Reasons
      BY <1>0, <2>1 DEF EnvelopeFate, Reasons
    <2> QED
      BY <1>2, <1>8, <2>1, <2>2, EndMoves
  <1>11. ASSUME NEW e \in Envelopes, NEW response \in Responses, RequestAnswered(e, response) PROVE ED!Next
    <2>1. /\ status[e] = "pending" /\ status' = [status EXCEPT ![e] = "fulfilled"]
          /\ tooLarge' = tooLarge /\ seen' = seen /\ kept' = kept /\ outcomes' = outcomes
      BY <1>11 DEF RequestAnswered, PB!Settle
    <2>2. EnvelopeFate(e)' = "answered" /\ "answered" \notin Reasons
      BY <1>0, <1>8, <2>1 DEF EnvelopeFate, Reasons
    <2> QED
      BY <1>2, <1>8, <2>1, <2>2, EndMoves
  <1>12. ASSUME seen' = seen, kept' = kept, outcomes' = outcomes, status' = status, tooLarge' = tooLarge
         PROVE  UNCHANGED ED!vars
    <2>1. \A e \in Envelopes : EnvelopeFate(e)' = EnvelopeFate(e)
      BY <1>12 DEF EnvelopeFate
    <2> QED
      BY <1>12, <2>1, NothingMoves DEF IInv
  <1>13. ASSUME NEW f \in Flushes, NEW timed \in BOOLEAN, Flush(f, timed) PROVE UNCHANGED ED!vars
    BY <1>12, <1>13 DEF Flush, PB!CallDrain
  <1>14. CASE BufferStep \/ Tick \/ UNCHANGED vars
    BY <1>12, <1>14 DEF BufferStep, Tick, vars, bufferVars, PB!Remove, PB!DrainDone, PB!DrainTimeout
  <1> QED
    BY <1>4, <1>5, <1>6, <1>7, <1>9, <1>10, <1>11, <1>13, <1>14 DEF Next

(* base.ts:42-116: what becomes of every item, and what the client is told *)
(* of it and when, is what EnvelopeDelivery promises.                      *)
THEOREM ImplementsDelivery == Spec => DeliversEnvelopes
  <1>1. Init => ED!Init
    <2> SUFFICES ASSUME Init PROVE ED!Init
      OBVIOUS
    <2>1. \A i \in Items : ItemFate(i) = "new"
      BY DEF Init, ItemFate
    <2>2. outcomes = [r \in ED!Reasons |-> [c \in Categories |-> 0]]
      BY DEF Init, Reasons, ED!Reasons
    <2> QED
      BY <2>1, <2>2 DEF ED!Init
  <1> QED
    BY <1>1, Invariance, TypeCorrect, DeliverySteps, PTL DEF Spec, DeliversEnvelopes, ED!Spec
=============================================================================
