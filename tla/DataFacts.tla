----------------------------- MODULE DataFacts -----------------------------
(* Facts about data that several proofs need: sequences as stacks with the  *)
(* top at the end and as queues, induction, recursion over finite sets,     *)
(* sums over sets, and folds over sequences.                                *)
EXTENDS Integers, Sequences, FiniteSetsExt, SequenceTheorems, FiniteSetTheorems, WellFoundedInduction, TLAPS

-----------------------------------------------------------------------------
(* Sequences and indexes *)

(* Popping a stack keeps what lies below its top in place. *)
LEMMA PopFacts ==
    ASSUME NEW S, NEW s \in Seq(S), s # <<>>
    PROVE  LET p == SubSeq(s, 1, Len(s) - 1)
           IN  /\ p \in Seq(S)
               /\ Len(p) = Len(s) - 1
               /\ \A i \in 1..Len(p) : p[i] = s[i]
               /\ s[Len(s)] \in S
               /\ Len(s) \in Nat \ {0}
  <1>1. Len(s) \in Nat \ {0}
    BY EmptySeq, LenProperties
  <1> DEFINE p == SubSeq(s, 1, Len(s) - 1)
  <1> DEFINE m == Len(s) - 1
  <1>0. m \in Nat /\ \A i \in 1..m : i \in 1..Len(s) /\ s[i] \in S
    BY <1>1, ElementOfSeq
  <1>2. /\ p \in Seq(S)
        /\ Len(p) = IF 1 <= m THEN m - 1 + 1 ELSE 0
        /\ \A i \in 1 .. m - 1 + 1 : p[i] = s[1 + i - 1]
    <2>1. 1 \in Int /\ m \in Int
      BY <1>0
    <2> HIDE DEF m
    <2>2. /\ SubSeq(s, 1, m) \in Seq(S)
          /\ Len(SubSeq(s, 1, m)) = IF 1 <= m THEN m - 1 + 1 ELSE 0
          /\ \A i \in 1 .. m - 1 + 1 : SubSeq(s, 1, m)[i] = s[1 + i - 1]
      BY <1>0, <2>1, SubSeqProperties
    <2> QED
      BY <2>2 DEF m
  <1>3. Len(p) = m /\ \A i \in 1..Len(p) : p[i] = s[i]
    <2> HIDE DEF m, p
    <2>1. Len(p) = m
      BY <1>0, <1>2
    <2>2. \A i \in 1..m : i \in 1..(m - 1 + 1) /\ 1 + i - 1 = i
      BY <1>0
    <2> QED
      BY <1>2, <2>1, <2>2
  <1>4. s[Len(s)] \in S
    BY <1>1, ElementOfSeq
  <1> QED
    BY <1>1, <1>2, <1>3, <1>4

(* Pushing puts the new element on top and keeps the others in place.      *)
LEMMA PushFacts ==
    ASSUME NEW S, NEW s \in Seq(S), NEW x \in S
    PROVE  /\ Append(s, x) \in Seq(S)
           /\ Len(s) \in Nat
           /\ Len(Append(s, x)) = Len(s) + 1
           /\ \A i \in 1..Len(s) : Append(s, x)[i] = s[i]
           /\ Append(s, x)[Len(s) + 1] = x
  BY AppendProperties, LenProperties

(* Putting an element in front moves the others back by one. *)
LEMMA ConsFacts ==
    ASSUME NEW S, NEW s \in Seq(S), NEW x \in S
    PROVE  /\ <<x>> \o s \in Seq(S)
           /\ Len(s) \in Nat
           /\ Len(<<x>> \o s) = Len(s) + 1
           /\ (<<x>> \o s)[1] = x
           /\ \A i \in 1..Len(s) : (<<x>> \o s)[i + 1] = s[i]
  <1>1. <<x>> \in Seq(S) /\ Len(<<x>>) = 1 /\ <<x>>[1] = x
    OBVIOUS
  <1>2. Len(s) \in Nat
    BY LenProperties
  <1> DEFINE t == <<x>> \o s
  <1>3. /\ t \in Seq(S)
        /\ Len(t) = Len(<<x>>) + Len(s)
        /\ \A i \in 1 .. Len(<<x>>) + Len(s) :
              t[i] = IF i <= Len(<<x>>) THEN <<x>>[i] ELSE s[i - Len(<<x>>)]
    BY <1>1, ConcatProperties
  <1> HIDE DEF t
  <1>4. \A i \in 1 .. 1 + Len(s) : t[i] = IF i <= 1 THEN <<x>>[i] ELSE s[i - 1]
    BY <1>1, <1>3
  <1>5. t[1] = x
    BY <1>1, <1>2, <1>4
  <1>6. \A i \in 1..Len(s) : t[i + 1] = s[i]
    <2>1. \A i \in 1..Len(s) : i + 1 \in 1 .. 1 + Len(s) /\ ~(i + 1 <= 1) /\ i + 1 - 1 = i
      BY <1>2
    <2> QED
      BY <1>4, <2>1
  <1> QED
    BY <1>1, <1>2, <1>3, <1>5, <1>6 DEF t

(* Taking the head of a queue moves the others forward by one. *)
LEMMA TailFacts ==
    ASSUME NEW S, NEW s \in Seq(S), s # <<>>
    PROVE  /\ Len(s) \in Nat \ {0}
           /\ Head(s) = s[1] /\ Head(s) \in S
           /\ Tail(s) \in Seq(S)
           /\ Len(Tail(s)) = Len(s) - 1
           /\ \A i \in 1..Len(Tail(s)) : Tail(s)[i] = s[i + 1]
  <1>1. Len(s) \in Nat \ {0}
    BY EmptySeq, LenProperties
  <1>2. Head(s) = s[1]
    OBVIOUS
  <1> QED
    BY <1>1, <1>2, HeadTailProperties

(* A non-empty set of naturals has a least element. *)
LEMMA LeastNatural ==
    ASSUME NEW T \in SUBSET Nat, T # {}
    PROVE  \E x \in T : \A y \in T : x <= y
  <1> DEFINE R == OpToRel(<, Nat)
  <1>1. IsWellFoundedOn(R, Nat)
    BY NatLessThanWellFounded
  <1>2. \A x, y \in Nat : <<y, x>> \in R <=> y < x
    BY DEF OpToRel
  <1> HIDE DEF R
  <1>3. PICK x \in T : \A y \in T : <<y, x>> \notin R
    BY <1>1, WFMin
  <1>4. \A y \in T : ~(y < x)
    BY <1>2, <1>3
  <1>5. \A y \in T : x \in Nat /\ y \in Nat
    OBVIOUS
  <1> QED
    BY <1>4, <1>5

(* A non-empty set of indexes has a greatest element. *)
LEMMA GreatestIndex ==
    ASSUME NEW n \in Nat, NEW T \in SUBSET (1..n), T # {}
    PROVE  \E x \in T : \A y \in T : y <= x
  <1> DEFINE U == {n - x : x \in T}
  <1>1. U \in SUBSET Nat /\ U # {}
    <2>1. \A x \in T : x \in 1..n
      OBVIOUS
    <2>2. \A x \in 1..n : n - x \in Nat
      OBVIOUS
    <2> QED
      BY <2>1, <2>2
  <1>2. PICK u \in U : \A y \in U : u <= y
    <2> HIDE DEF U
    <2> QED
      BY <1>1, LeastNatural
  <1>3. PICK x \in T : u = n - x
    BY <1>2
  <1>4. \A y \in T : n - x <= n - y
    BY <1>2, <1>3
  <1> QED
    BY <1>4
-----------------------------------------------------------------------------
(* Induction and recursion *)

(* Induction over the naturals, with the set of those for which it holds. *)
LEMMA NatSetInduction ==
    ASSUME NEW T \in SUBSET Nat, 0 \in T, \A n \in T : n + 1 \in T
    PROVE  T = Nat
  <1> SUFFICES ASSUME T # Nat PROVE FALSE
    OBVIOUS
  <1> DEFINE U == Nat \ T
  <1>1. PICK x \in U : \A y \in U : x <= y
    <2>1. U \in SUBSET Nat /\ U # {}
      OBVIOUS
    <2> HIDE DEF U
    <2> QED
      BY <2>1, LeastNatural
  <1>2. x \in Nat \ {0} /\ x - 1 \in Nat /\ x - 1 \notin U
    BY <1>1
  <1>3. x - 1 \in T /\ x - 1 + 1 = x
    BY <1>2
  <1> QED
    BY <1>1, <1>3

(* A recursion over the subsets of a finite set that takes one element at  *)
(* a time, chosen by C, defines a function.                                *)
Recursion(g, S, V, base, H, C) ==
    /\ g \in [SUBSET S -> V]
    /\ \A s \in SUBSET S : g[s] = IF s = {} THEN base ELSE H[<<C[s], g[s \ {C[s]}]>>]

LEMMA SubsetRecursion ==
    ASSUME NEW S, IsFiniteSet(S), NEW V, NEW base \in V, NEW H \in [S \X V -> V],
           NEW C \in [(SUBSET S) \ {{}} -> S], \A s \in SUBSET S : s # {} => C[s] \in s
    PROVE  \E g : Recursion(g, S, V, base, H, C)
  <1> DEFINE UpTo(n) == {s \in SUBSET S : Cardinality(s) <= n}
             Rule(g, s) == IF s = {} THEN base ELSE H[<<C[s], g[s \ {C[s]}]>>]
             Defined(n) == \E g \in [UpTo(n) -> V] : \A s \in UpTo(n) : g[s] = Rule(g, s)
             T == {n \in Nat : Defined(n)}
  <1>1. \A s \in SUBSET S : IsFiniteSet(s) /\ Cardinality(s) \in Nat /\ (Cardinality(s) = 0 <=> s = {})
    BY FS_Subset, FS_CardinalityType, FS_EmptySet
  <1>2. \A s \in SUBSET S : s # {} => Cardinality(s \ {C[s]}) = Cardinality(s) - 1
    BY <1>1, FS_RemoveElement
  <1>4. \A n \in Nat : \A s \in UpTo(n + 1) : s # {} =>
            C[s] \in S /\ s \ {C[s]} \in UpTo(n) /\ s \ {C[s]} \in UpTo(n + 1)
    <2> SUFFICES ASSUME NEW n \in Nat, NEW s \in UpTo(n + 1), s # {}
                 PROVE  C[s] \in S /\ s \ {C[s]} \in UpTo(n) /\ s \ {C[s]} \in UpTo(n + 1)
      OBVIOUS
    <2>1. s \in SUBSET S /\ Cardinality(s) \in Nat /\ Cardinality(s) <= n + 1 /\ C[s] \in s
      BY <1>1
    <2>2. s \ {C[s]} \in SUBSET S /\ Cardinality(s \ {C[s]}) = Cardinality(s) - 1
      BY <1>2, <2>1
    <2>3. C[s] \in S
      BY <2>1
    <2>4. Cardinality(s) - 1 <= n /\ Cardinality(s) - 1 <= n + 1
      BY <2>1
    <2>5. Cardinality(s \ {C[s]}) <= n /\ Cardinality(s \ {C[s]}) <= n + 1
      BY <2>2, <2>4
    <2> QED
      BY <2>2, <2>3, <2>5
  <1>5. 0 \in T
    <2> DEFINE g == [s \in UpTo(0) |-> base]
    <2>1. ASSUME NEW s \in UpTo(0) PROVE s = {}
      <3>1. s \in SUBSET S /\ Cardinality(s) <= 0
        OBVIOUS
      <3>2. Cardinality(s) \in Nat /\ (Cardinality(s) = 0 <=> s = {})
        BY <1>1, <3>1
      <3>3. Cardinality(s) = 0
        BY <3>1, <3>2
      <3> QED
        BY <3>2, <3>3
    <2>2. g \in [UpTo(0) -> V] /\ \A s \in UpTo(0) : g[s] = Rule(g, s)
      BY <2>1
    <2> QED
      BY <2>2
  <1>6. ASSUME NEW n \in T PROVE n + 1 \in T
    <2>1. n \in Nat /\ Defined(n)
      OBVIOUS
    <2>2. PICK g \in [UpTo(n) -> V] : \A s \in UpTo(n) : g[s] = Rule(g, s)
      BY <2>1
    <2> DEFINE h == [s \in UpTo(n + 1) |-> Rule(g, s)]
    <2> HIDE DEF T, Defined
    <2>3. UpTo(n) \subseteq UpTo(n + 1)
      BY <1>1, <2>1
    <2> HIDE DEF UpTo
    <2>4. \A s \in UpTo(n + 1) : h[s] \in V
      BY <1>4, <2>1, <2>2
    <2>5. \A s \in UpTo(n) : h[s] = g[s]
      BY <2>2, <2>3
    <2>6. \A s \in UpTo(n + 1) : h[s] = Rule(h, s)
      <3> SUFFICES ASSUME NEW s \in UpTo(n + 1), s # {} PROVE h[s] = Rule(h, s)
        OBVIOUS
      <3>1. h[s \ {C[s]}] = g[s \ {C[s]}]
        BY <1>4, <2>1, <2>5
      <3>2. h[s] = H[<<C[s], g[s \ {C[s]}]>>]
        OBVIOUS
      <3> HIDE DEF h
      <3> QED
        BY <3>1, <3>2
    <2>7. h \in [UpTo(n + 1) -> V]
      BY <2>4
    <2> HIDE DEF h, Rule
    <2>8. Defined(n + 1)
      BY <2>6, <2>7 DEF Defined
    <2>9. n + 1 \in Nat
      BY <2>1
    <2> QED
      BY <2>8, <2>9 DEF T
  <1>7. T = Nat
    <2>1. T \in SUBSET Nat
      OBVIOUS
    <2> HIDE DEF T
    <2> QED
      BY <1>5, <1>6, <2>1, NatSetInduction
  <1>8. UpTo(Cardinality(S)) = SUBSET S /\ Cardinality(S) \in Nat
    BY <1>1, FS_Subset
  <1>9. Defined(Cardinality(S))
    <2>1. \A n \in T : Defined(n)
      OBVIOUS
    <2> HIDE DEF T, Defined
    <2> QED
      BY <1>7, <1>8, <2>1
  <1> HIDE DEF UpTo
  <1> QED
    BY <1>8, <1>9 DEF Recursion

(* What holds of a subset if it holds of those with one element less holds *)
(* of all subsets of a finite set.                                         *)
LEMMA SubsetInduction ==
    ASSUME NEW S, IsFiniteSet(S), NEW G \in SUBSET SUBSET S,
           \A s \in SUBSET S : (\A x \in s : s \ {x} \in G) => s \in G
    PROVE  G = SUBSET S
  <1> SUFFICES ASSUME G # SUBSET S PROVE FALSE
    OBVIOUS
  <1> DEFINE T == {Cardinality(s) : s \in (SUBSET S) \ G}
  <1>1. \A s \in SUBSET S : IsFiniteSet(s) /\ Cardinality(s) \in Nat
    BY FS_Subset, FS_CardinalityType
  <1>2. PICK n \in T : \A m \in T : n <= m
    <2>1. T \in SUBSET Nat /\ T # {}
      BY <1>1
    <2> HIDE DEF T
    <2> QED
      BY <2>1, LeastNatural
  <1>3. PICK s \in (SUBSET S) \ G : n = Cardinality(s)
    OBVIOUS
  <1>4. ASSUME NEW x \in s PROVE s \ {x} \in G
    <2>1. Cardinality(s \ {x}) = Cardinality(s) - 1 /\ Cardinality(s) \in Nat
      BY <1>1, FS_RemoveElement
    <2>2. ~(Cardinality(s) <= Cardinality(s) - 1)
      BY <2>1
    <2> QED
      BY <1>2, <1>3, <2>1, <2>2
  <1> QED
    BY <1>3, <1>4
-----------------------------------------------------------------------------
(* Sums over sets: the sum of F[x] for all x in S. *)

SumOver(F, S) == MapThenSumSet(LAMBDA x : F[x], S)

Pick(s) == CHOOSE x \in s : TRUE
PartialSums(F, S) ==
    CHOOSE g : g = [s \in SUBSET S |-> IF s = {} THEN 0 ELSE F[Pick(s)] + g[s \ {Pick(s)}]]

LEMMA SumIsPartialSum == ASSUME NEW F, NEW S PROVE SumOver(F, S) = PartialSums(F, S)[S]
  BY DEF SumOver, PartialSums, Pick, MapThenSumSet, MapThenFoldSet

LEMMA PartialSumsExist ==
    ASSUME NEW S, IsFiniteSet(S), NEW F, \A x \in S : F[x] \in Nat
    PROVE  /\ PartialSums(F, S) \in [SUBSET S -> Nat]
           /\ \A s \in SUBSET S :
                 PartialSums(F, S)[s] = IF s = {} THEN 0
                                        ELSE F[Pick(s)] + PartialSums(F, S)[s \ {Pick(s)}]
  <1> DEFINE Rule(g) == [s \in SUBSET S |-> IF s = {} THEN 0 ELSE F[Pick(s)] + g[s \ {Pick(s)}]]
             C == [s \in (SUBSET S) \ {{}} |-> Pick(s)]
             H == [p \in S \X Nat |-> F[p[1]] + p[2]]
  <1>1. \A s \in SUBSET S : s # {} => Pick(s) \in s
    BY DEF Pick
  <1>2. \A s \in SUBSET S : s # {} => C[s] \in s
    BY <1>1
  <1>3. \A x \in S, v \in Nat : H[<<x, v>>] = F[x] + v /\ H[<<x, v>>] \in Nat
    OBVIOUS
  <1>4. PICK g : Recursion(g, S, Nat, 0, H, C)
    <2>1. C \in [(SUBSET S) \ {{}} -> S]
      BY <1>1
    <2>2. H \in [S \X Nat -> Nat]
      BY <1>3
    <2> HIDE DEF C, H, Rule
    <2> QED
      BY <1>2, <2>1, <2>2, SubsetRecursion
  <1>5. \A s \in SUBSET S : s # {} => H[<<C[s], g[s \ {C[s]}]>>] = F[Pick(s)] + g[s \ {Pick(s)}]
    <2> SUFFICES ASSUME NEW s \in SUBSET S, s # {}
                 PROVE  H[<<C[s], g[s \ {C[s]}]>>] = F[Pick(s)] + g[s \ {Pick(s)}]
      OBVIOUS
    <2>1. C[s] = Pick(s) /\ Pick(s) \in S /\ s \ {Pick(s)} \in SUBSET S
      BY <1>1
    <2>2. g[s \ {Pick(s)}] \in Nat
      BY <1>4, <2>1 DEF Recursion
    <2> HIDE DEF C, H
    <2> QED
      BY <1>3, <2>1, <2>2
  <1>6. g = Rule(g)
    <2>1. \A s \in SUBSET S : g[s] = IF s = {} THEN 0 ELSE F[Pick(s)] + g[s \ {Pick(s)}]
      BY <1>4, <1>5 DEF Recursion
    <2>2. g \in [SUBSET S -> Nat]
      BY <1>4 DEF Recursion
    <2> QED
      BY <2>1, <2>2
  <1>7. PartialSums(F, S) = Rule(PartialSums(F, S))
    BY <1>6 DEF PartialSums
  <1> DEFINE h == PartialSums(F, S)
  <1>8. h = Rule(h)
    BY <1>7
  <1> HIDE DEF h
  <1>9. \A s \in SUBSET S : h[s] = IF s = {} THEN 0 ELSE F[Pick(s)] + h[s \ {Pick(s)}]
    BY <1>8
  <1>10. \A s \in SUBSET S : h[s] \in Nat
    <2> DEFINE G == {s \in SUBSET S : h[s] \in Nat}
    <2>1. ASSUME NEW s \in SUBSET S, \A x \in s : s \ {x} \in G PROVE s \in G
      <3>1. CASE s = {}
        <4>1. h[s] = 0
          BY <1>9, <3>1
        <4> QED
          BY <4>1
      <3>2. CASE s # {}
        <4>1. Pick(s) \in s /\ Pick(s) \in S /\ h[s \ {Pick(s)}] \in Nat
          BY <1>1, <2>1, <3>2
        <4>2. h[s] = F[Pick(s)] + h[s \ {Pick(s)}]
          BY <1>9, <3>2
        <4> QED
          BY <4>1, <4>2
      <3> QED
        BY <3>1, <3>2
    <2>2. G \in SUBSET SUBSET S
      OBVIOUS
    <2> HIDE DEF G
    <2>3. G = SUBSET S
      BY <2>1, <2>2, SubsetInduction
    <2> QED
      BY <2>3 DEF G
  <1>11. h \in [SUBSET S -> Nat]
    BY <1>8, <1>10
  <1> QED
    BY <1>9, <1>11 DEF h

(* In whatever order the elements are taken. *)
LEMMA AnyOrder ==
    ASSUME NEW S, IsFiniteSet(S), NEW F, \A x \in S : F[x] \in Nat
    PROVE  \A s \in SUBSET S : \A x \in s :
              PartialSums(F, S)[s] = F[x] + PartialSums(F, S)[s \ {x}]
  <1> DEFINE h == PartialSums(F, S)
             G == {s \in SUBSET S : \A x \in s : h[s] = F[x] + h[s \ {x}]}
  <1>1. /\ h \in [SUBSET S -> Nat]
        /\ \A s \in SUBSET S : h[s] = IF s = {} THEN 0 ELSE F[Pick(s)] + h[s \ {Pick(s)}]
    BY PartialSumsExist
  <1> HIDE DEF h
  <1>2. ASSUME NEW s \in SUBSET S, \A x \in s : s \ {x} \in G PROVE s \in G
    <2> SUFFICES ASSUME NEW x \in s PROVE h[s] = F[x] + h[s \ {x}]
      OBVIOUS
    <2> DEFINE c == Pick(s)
    <2>1. c \in s /\ h[s] = F[c] + h[s \ {c}]
      BY <1>1 DEF Pick
    <2> HIDE DEF c
    <2>2. CASE x = c
      BY <2>1, <2>2
    <2>3. CASE x # c
      <3>1. s \ {c} \in G /\ s \ {x} \in G /\ x \in s \ {c} /\ c \in s \ {x}
        BY <1>2, <2>1, <2>3
      <3>2. h[s \ {c}] = F[x] + h[(s \ {c}) \ {x}] /\ h[s \ {x}] = F[c] + h[(s \ {x}) \ {c}]
        BY <3>1
      <3>3. (s \ {c}) \ {x} = (s \ {x}) \ {c}
        OBVIOUS
      <3>4. /\ (s \ {x}) \ {c} \in SUBSET S /\ F[x] \in Nat /\ F[c] \in Nat
        BY <2>1
      <3>5. h[(s \ {x}) \ {c}] \in Nat
        BY <1>1, <3>4
      <3>6. \A a, b, v \in Nat : a + (b + v) = b + (a + v)
        OBVIOUS
      <3> HIDE DEF G
      <3>7. F[c] + (F[x] + h[(s \ {x}) \ {c}]) = F[x] + (F[c] + h[(s \ {x}) \ {c}])
        BY <3>4, <3>5, <3>6
      <3> QED
        BY <2>1, <3>2, <3>3, <3>7
    <2> QED
      BY <2>2, <2>3
  <1>3. G \in SUBSET SUBSET S
    OBVIOUS
  <1>4. G = SUBSET S
    <2> HIDE DEF G
    <2> QED
      BY <1>2, <1>3, SubsetInduction
  <1>5. \A s \in SUBSET S : s \in G
    BY <1>4
  <1> QED
    BY <1>5 DEF h

(* The sum over a subset is the same, seen from a larger set. *)
LEMMA SumOfSubset ==
    ASSUME NEW T, IsFiniteSet(T), NEW F, \A x \in T : F[x] \in Nat, NEW S \in SUBSET T
    PROVE  SumOver(F, S) = PartialSums(F, T)[S]
  <1> DEFINE g == PartialSums(F, S)
             h == PartialSums(F, T)
             G == {s \in SUBSET S : g[s] = h[s]}
  <1>1. IsFiniteSet(S) /\ \A x \in S : F[x] \in Nat
    BY FS_Subset
  <1>2. \A s \in SUBSET S : g[s] = IF s = {} THEN 0 ELSE F[Pick(s)] + g[s \ {Pick(s)}]
    BY <1>1, PartialSumsExist
  <1>3. \A s \in SUBSET S : h[s] = IF s = {} THEN 0 ELSE F[Pick(s)] + h[s \ {Pick(s)}]
    <2>1. \A s \in SUBSET T : h[s] = IF s = {} THEN 0 ELSE F[Pick(s)] + h[s \ {Pick(s)}]
      BY PartialSumsExist
    <2> HIDE DEF h
    <2> QED
      BY <2>1
  <1> HIDE DEF g, h
  <1>4. ASSUME NEW s \in SUBSET S, \A x \in s : s \ {x} \in G PROVE s \in G
    <2>1. s # {} => Pick(s) \in s
      BY DEF Pick
    <2> QED
      BY <1>2, <1>3, <1>4, <2>1
  <1>5. G = SUBSET S
    <2>1. G \in SUBSET SUBSET S
      OBVIOUS
    <2> HIDE DEF G
    <2> QED
      BY <1>1, <1>4, <2>1, SubsetInduction
  <1>6. g[S] = h[S]
    BY <1>5
  <1> QED
    BY <1>6, SumIsPartialSum DEF g, h

LEMMA EmptySum == ASSUME NEW F PROVE SumOver(F, {}) = 0
  <1>1. IsFiniteSet({}) /\ \A x \in {} : F[x] \in Nat
    BY FS_EmptySet
  <1>2. PartialSums(F, {})[{}] = 0
    BY <1>1, PartialSumsExist
  <1> QED
    BY <1>2, SumIsPartialSum

LEMMA SumFacts ==
    ASSUME NEW T, IsFiniteSet(T), NEW F, \A x \in T : F[x] \in Nat, NEW S \in SUBSET T
    PROVE  /\ SumOver(F, S) \in Nat
           /\ \A x \in T \ S : SumOver(F, S \cup {x}) = SumOver(F, S) + F[x]
  <1> DEFINE h == PartialSums(F, T)
  <1>1. \A s \in SUBSET T : SumOver(F, s) = h[s] /\ h[s] \in Nat
    <2>1. h \in [SUBSET T -> Nat]
      BY PartialSumsExist
    <2>2. ASSUME NEW s \in SUBSET T PROVE SumOver(F, s) = h[s]
      BY SumOfSubset
    <2> HIDE DEF h
    <2> QED
      BY <2>1, <2>2
  <1>2. ASSUME NEW s \in SUBSET T, NEW x \in s PROVE h[s] = F[x] + h[s \ {x}]
    BY AnyOrder
  <1> HIDE DEF h
  <1>3. ASSUME NEW x \in T \ S PROVE SumOver(F, S \cup {x}) = SumOver(F, S) + F[x]
    <2>1. S \cup {x} \in SUBSET T /\ x \in S \cup {x} /\ (S \cup {x}) \ {x} = S
      OBVIOUS
    <2>2. h[S \cup {x}] = F[x] + h[S]
      BY <1>2, <2>1
    <2> QED
      BY <1>1, <2>1, <2>2
  <1> QED
    BY <1>1, <1>3
-----------------------------------------------------------------------------
(* Folds over sequences: FoldLeft takes the last of a set of indexes off   *)
(* and applies the step to what it computes for the rest.                  *)

LEMMA MaxOfIndexes ==
    ASSUME NEW n \in Nat, NEW s \in SUBSET (1..n), s # {}
    PROVE  Max(s) \in s /\ \A y \in s : y <= Max(s)
  <1>1. \E x \in s : \A y \in s : x >= y
    <2>1. PICK x \in s : \A y \in s : y <= x
      BY GreatestIndex
    <2> QED
      BY <2>1
  <1>2. Max(s) \in s /\ \A y \in s : Max(s) >= y
    BY <1>1 DEF Max
  <1>3. \A x, y \in 1..n : x >= y <=> y <= x
    OBVIOUS
  <1> QED
    BY <1>2, <1>3

LEMMA FirstIndexes ==
    ASSUME NEW n \in Nat, NEW k \in 1..n
    PROVE  1..k \in SUBSET (1..n) /\ 1..k # {} /\ Max(1..k) = k /\ (1..k) \ {k} = 1..(k - 1)
  <1>1. 1..k \in SUBSET (1..n) /\ 1..k # {} /\ k \in 1..k /\ (1..k) \ {k} = 1..(k - 1)
    OBVIOUS
  <1>2. Max(1..k) \in 1..k /\ k <= Max(1..k)
    BY <1>1, MaxOfIndexes
  <1> QED
    BY <1>1, <1>2

(* The function over sets of indexes: it takes the last index off.        *)
TakesLastOff(f, D, V, base, H) ==
    /\ f[{}] = base
    /\ \A s \in SUBSET D : s # {} /\ f[s \ {Max(s)}] \in V =>
          f[s] = H[<<Max(s), f[s \ {Max(s)}]>>]

(* What it computes for the first k indexes, one after the other.          *)
StepByStep(f, n, V, base, H) ==
    /\ \A k \in 0..n : f[1..k] \in V
    /\ f[1..0] = base
    /\ \A k \in 1..n : f[1..k] = H[<<k, f[1..(k - 1)]>>]

LEMMA FoldExists ==
    ASSUME NEW n \in Nat, NEW D, D = 1..n, NEW V, NEW base \in V, NEW H \in [D \X V -> V]
    PROVE  \E g : g \in [SUBSET D -> V] /\ TakesLastOff(g, D, V, base, H)
  <1> DEFINE C == [s \in (SUBSET D) \ {{}} |-> Max(s)]
  <1>1. IsFiniteSet(D)
    BY FS_Interval
  <1>2. \A s \in SUBSET D : s # {} => Max(s) \in s /\ C[s] = Max(s)
    BY MaxOfIndexes
  <1>3. C \in [(SUBSET D) \ {{}} -> D]
    BY <1>2
  <1> HIDE DEF C
  <1>4. \A s \in SUBSET D : s # {} => C[s] \in s
    BY <1>2
  <1>5. PICK g : Recursion(g, D, V, base, H, C)
    BY <1>1, <1>3, <1>4, SubsetRecursion
  <1>6. /\ g \in [SUBSET D -> V]
        /\ \A s \in SUBSET D : g[s] = IF s = {} THEN base ELSE H[<<C[s], g[s \ {C[s]}]>>]
    BY <1>5 DEF Recursion
  <1>7. g[{}] = base
    BY <1>6
  <1>8. \A s \in SUBSET D : s # {} => g[s] = H[<<Max(s), g[s \ {Max(s)}]>>]
    BY <1>2, <1>6
  <1> QED
    BY <1>6, <1>7, <1>8 DEF TakesLastOff

LEMMA FoldSteps ==
    ASSUME NEW n \in Nat, NEW D, D = 1..n, NEW V, NEW base \in V, NEW H \in [D \X V -> V],
           NEW f, TakesLastOff(f, D, V, base, H)
    PROVE  StepByStep(f, n, V, base, H)
  <1> DEFINE T == {k \in Nat : k <= n => f[1..k] \in V}
  <1>1. 1..0 = {} /\ f[1..0] = base
    <2>1. 1..0 = {}
      BY SMT
    <2> QED
      BY <2>1 DEF TakesLastOff
  <1>2. ASSUME NEW k \in 1..n, f[1..(k - 1)] \in V
        PROVE  f[1..k] = H[<<k, f[1..(k - 1)]>>] /\ f[1..k] \in V
    <2>1. 1..k \in SUBSET D /\ 1..k # {} /\ (1..k) \ {k} = 1..(k - 1) /\ Max(1..k) = k
      BY FirstIndexes
    <2>3. f[1..k] = H[<<k, f[1..(k - 1)]>>]
      BY <1>2, <2>1 DEF TakesLastOff
    <2> QED
      BY <1>2, <2>3
  <1>3. T = Nat
    <2>1. 0 \in T
      BY <1>1
    <2>2. ASSUME NEW k \in T PROVE k + 1 \in T
      <3> SUFFICES ASSUME k + 1 <= n PROVE f[1..(k + 1)] \in V
        OBVIOUS
      <3> DEFINE m == k + 1
      <3>1. m \in 1..n /\ m - 1 = k /\ k <= n
        OBVIOUS
      <3>2. f[1..(m - 1)] \in V
        BY <3>1
      <3> HIDE DEF m, T
      <3>3. f[1..m] \in V
        BY <1>2, <3>1, <3>2
      <3> QED
        BY <3>3 DEF m
    <2>3. T \in SUBSET Nat
      OBVIOUS
    <2> HIDE DEF T
    <2> QED
      BY <2>1, <2>2, <2>3, NatSetInduction
  <1>4. \A k \in 0..n : f[1..k] \in V
    <2>1. \A k \in 0..n : k \in Nat /\ k <= n
      OBVIOUS
    <2> QED
      BY <1>3, <2>1
  <1>5. \A k \in 1..n : k - 1 \in 0..n
    OBVIOUS
  <1> QED
    BY <1>1, <1>2, <1>4, <1>5 DEF StepByStep
=============================================================================
