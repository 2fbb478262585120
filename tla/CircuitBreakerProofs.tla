------------------------ MODULE CircuitBreakerProofs ------------------------
(***************************************************************************)
(* Machine-checked proofs about CircuitBreaker, for every number of        *)
(* callers and every setting of the thresholds and windows.                *)
(***************************************************************************)
EXTENDS CircuitBreaker, TLAPS, SequenceTheorems, FiniteSetTheorems, WellFoundedInduction

Ages == 0 .. FailureWindow + 1

LEMMA CappedInRange == \A n, max \in Nat : Capped(n, max) \in 0 .. max
  BY DEF Capped

LEMMA Smallest ==
  ASSUME NEW S \in SUBSET Nat, S # {}
  PROVE  \E i \in S : \A j \in S : i <= j
<1>1. \E i \in S : \A j \in S : <<j, i>> \notin OpToRel(<, Nat)
  BY NatLessThanWellFounded, WFMin
<1>2. \A i, j \in Nat : <<j, i>> \notin OpToRel(<, Nat) => i <= j
  BY DEF OpToRel
<1> QED BY <1>1, <1>2

\* A failure just recorded is in the window, so pruning stops before it and
\* returns a non-empty tail of the timestamps.
LEMMA PruneKeepsNewest ==
  ASSUME NEW s \in Seq(Ages), s # <<>>, s[Len(s)] = 0
  PROVE  Prune(s) \in Seq(Ages)
<1> DEFINE fresh == {i \in 1 .. Len(s) : s[i] <= FailureWindow}
           first == CHOOSE i \in fresh : \A j \in fresh : i <= j
<1>1. Len(s) \in fresh
  BY ThresholdsPositive, EmptySeq, LenProperties DEF Ages
<1>2. \E i \in fresh : \A j \in fresh : i <= j
  <2>1. fresh \subseteq Nat /\ fresh # {}
    BY <1>1
  <2> HIDE DEF fresh
  <2> QED BY <2>1, Smallest
<1>3. first \in 1 .. Len(s)
  BY <1>2
<1>4. SubSeq(s, first, Len(s)) \in Seq(Ages)
  <2> HIDE DEF first
  <2> QED BY <1>3, SubSeqProperties, LenProperties
<1> QED BY <1>4 DEF Prune

LEMMA TypeInit == Init => TypeOK
  BY ThresholdsPositive DEF Init, TypeOK, Never

LEMMA TypeStep == TypeOK /\ [Next]_vars => TypeOK'
<1> SUFFICES ASSUME TypeOK, [Next]_vars PROVE TypeOK'
  OBVIOUS
<1> USE DEF TypeOK
<1>1. CASE UNCHANGED vars
  BY <1>1 DEF vars, breaker
<1>2. ASSUME NEW c \in Callers, Execute(c) PROVE TypeOK'
  <2>1. PICK end \in {"success", "failure"} : call' = [call EXCEPT ![c] = end]
    BY <1>2 DEF Execute
  <2>2. call' \in [Callers -> {"idle", "success", "failure"}]
    BY <2>1
  <2> QED BY <1>2, <2>2 DEF Execute
<1>3. ASSUME NEW c \in Callers, OnSuccess(c) PROVE TypeOK'
  <2>1. Capped(consecutiveSuccesses + 1, SuccessThreshold) \in 0 .. SuccessThreshold
    <3>1. consecutiveSuccesses + 1 \in Nat /\ SuccessThreshold \in Nat
      BY ThresholdsPositive
    <3> QED BY <3>1, CappedInRange
  <2>2. consecutiveSuccesses' \in 0 .. SuccessThreshold
    BY <1>3, <2>1, ThresholdsPositive DEF OnSuccess
  <2> QED BY <1>3, <2>2 DEF OnSuccess
<1>4. ASSUME NEW c \in Callers, OnFailure(c) PROVE TypeOK'
  <2>1. failures' \in Seq(Ages)
    <3> DEFINE s == Append(failures, 0)
    <3>1. s \in Seq(Ages) /\ s # <<>> /\ s[Len(s)] = 0
      <4>1. failures \in Seq(Ages) /\ 0 \in Ages
        BY ThresholdsPositive DEF Ages
      <4> QED BY <4>1, AppendProperties
    <3> HIDE DEF s
    <3>2. Prune(s) \in Seq(Ages)
      BY <3>1, PruneKeepsNewest
    <3> QED BY <1>4, <3>2 DEF OnFailure, s
  <2>2. /\ lastFailure' \in {Never} \cup 0 .. RecoveryWindow
        /\ consecutiveSuccesses' \in 0 .. SuccessThreshold
    BY <1>4, ThresholdsPositive DEF OnFailure
  <2> QED BY <1>4, <2>1, <2>2 DEF OnFailure, Ages
<1>5. CASE Reset
  <2>1. failures' \in Seq(Ages) /\ consecutiveSuccesses' \in 0 .. SuccessThreshold
    BY <1>5, ThresholdsPositive DEF Reset
  <2> QED BY <1>5, <2>1 DEF Reset, Ages
<1>6. CASE Tick
  <2>1. failures' \in Seq(Ages)
    <3> DEFINE age(i) == Capped(failures[i] + 1, FailureWindow + 1)
    <3>1. \A i \in 1 .. Len(failures) : age(i) \in Ages
      BY ThresholdsPositive DEF Ages, Capped
    <3>2. Len(failures) \in Nat
      OBVIOUS
    <3> HIDE DEF age
    <3>3. [i \in 1 .. Len(failures) |-> age(i)] \in Seq(Ages)
      BY <3>1, <3>2
    <3> QED BY <1>6, <3>3 DEF Tick, age
  <2>2. lastFailure' \in {Never} \cup 0 .. RecoveryWindow
    BY <1>6, ThresholdsPositive DEF Tick, Never, Capped
  <2> QED BY <1>6, <2>1, <2>2 DEF Tick, Ages
<1>7. CASE ServiceChanges
  BY <1>7 DEF ServiceChanges, breaker
<1> QED BY <1>1, <1>2, <1>3, <1>4, <1>5, <1>6, <1>7 DEF Next

\* Every reachable state is well typed; in particular the sliding window only
\* holds ages and pruning always leaves the failure just recorded.
THEOREM TypeCorrect == Spec => []TypeOK
<1> QED BY TypeInit, TypeStep, PTL DEF Spec

LEMMA KnowsStep == TypeOK /\ KnowsItsFailure /\ [Next]_vars => KnowsItsFailure'
<1> SUFFICES ASSUME TypeOK, KnowsItsFailure, [Next]_vars PROVE KnowsItsFailure'
  OBVIOUS
<1> USE DEF KnowsItsFailure
<1>1. CASE UNCHANGED vars
  BY <1>1 DEF vars, breaker
<1>2. ASSUME NEW c \in Callers, Execute(c) \/ OnSuccess(c) \/ OnFailure(c)
      PROVE  KnowsItsFailure'
  BY <1>2 DEF Execute, OnSuccess, OnFailure, Never
<1>3. CASE Reset \/ ServiceChanges
  BY <1>3 DEF Reset, ServiceChanges, breaker
<1>4. CASE Tick
  BY <1>4, CappedInRange, ThresholdsPositive DEF Tick, Capped, Never, TypeOK
<1> QED BY <1>1, <1>2, <1>3, <1>4 DEF Next

\* A breaker that is open or half-open always has a time of last failure, so
\* the null case of canExecute never lets a call through an open breaker.
THEOREM AlwaysKnowsItsFailure == Spec => []KnowsItsFailure
<1>1. Init => KnowsItsFailure
  BY DEF Init, KnowsItsFailure
<1> QED BY <1>1, TypeCorrect, KnowsStep, PTL DEF Spec

-----------------------------------------------------------------------------
(* When it trips: the timestamps stay in the order they were pushed, so    *)
(* what pruning leaves is exactly what lies in the window.                 *)

Ordered(s) == \A i, j \in 1 .. Len(s) : i <= j => s[j] <= s[i]

LEMMA PruneLeavesTheWindow ==
  ASSUME NEW s \in Seq(Ages), s # <<>>, s[Len(s)] = 0, Ordered(s)
  PROVE  /\ Ordered(Prune(s))
         /\ \E first \in 1 .. Len(s) :
              /\ Len(Prune(s)) = Len(s) - first + 1
              /\ \A i \in 1 .. Len(s) : s[i] <= FailureWindow <=> first <= i
<1> DEFINE fresh == {i \in 1 .. Len(s) : s[i] <= FailureWindow}
           first == CHOOSE i \in fresh : \A j \in fresh : i <= j
           p == SubSeq(s, first, Len(s))
<1>1. Len(s) \in fresh
  BY ThresholdsPositive, EmptySeq, LenProperties DEF Ages
<1>2. \E i \in fresh : \A j \in fresh : i <= j
  <2>1. fresh \subseteq Nat /\ fresh # {}
    BY <1>1
  <2> HIDE DEF fresh
  <2> QED BY <2>1, Smallest
<1>3. first \in 1 .. Len(s) /\ s[first] <= FailureWindow /\ \A j \in fresh : first <= j
  BY <1>2
<1>10. \A i \in 1 .. Len(s) : s[i] <= FailureWindow => first <= i
  BY <1>3
<1>4. /\ Len(p) = Len(s) - first + 1
      /\ \A i \in 1 .. Len(p) : p[i] = s[first + i - 1] /\ first + i - 1 \in first .. Len(s)
  <2> HIDE DEF first
  <2> QED BY <1>3, SubSeqProperties, LenProperties
<1>5. Prune(s) = p
  BY DEF Prune
<1> HIDE DEF p, first, fresh
<1>6. \A i \in 1 .. Len(s) : s[i] \in Nat
  BY ThresholdsPositive, ElementOfSeq DEF Ages
<1>7. Len(s) \in Nat /\ FailureWindow \in Nat
  BY LenProperties, ThresholdsPositive
<1>8. ASSUME NEW i \in 1 .. Len(p), NEW j \in 1 .. Len(p), i <= j PROVE p[j] <= p[i]
  <2>1. first + i - 1 \in 1 .. Len(s) /\ first + j - 1 \in 1 .. Len(s)
    BY <1>3, <1>4, <1>7
  <2>2. first + i - 1 <= first + j - 1
    BY <1>3, <1>4, <1>7, <1>8
  <2> QED BY <1>4, <2>1, <2>2 DEF Ordered
<1>9. ASSUME NEW i \in 1 .. Len(s), first <= i PROVE s[i] <= FailureWindow
  <2>1. s[i] <= s[first]
    BY <1>3, <1>9 DEF Ordered
  <2> QED BY <1>3, <1>6, <1>7, <2>1
<1>11. Len(p) = Len(s) - first + 1 /\ \A i \in 1 .. Len(s) : s[i] <= FailureWindow <=> first <= i
  BY <1>4, <1>9, <1>10
<1>12. \E n \in 1 .. Len(s) :
         Len(p) = Len(s) - n + 1 /\ \A i \in 1 .. Len(s) : s[i] <= FailureWindow <=> n <= i
  BY <1>3, <1>11
<1> QED BY <1>5, <1>8, <1>12 DEF Ordered

LEMMA Pushed ==
  ASSUME TypeOK, Ordered(failures)
  PROVE  LET s == Append(failures, 0)
         IN  s \in Seq(Ages) /\ s # <<>> /\ s[Len(s)] = 0 /\ Ordered(s)
<1> DEFINE s == Append(failures, 0)
<1>1. failures \in Seq(Ages) /\ 0 \in Ages
  BY ThresholdsPositive DEF TypeOK, Ages
<1>2. s \in Seq(Ages) /\ s # <<>> /\ s[Len(s)] = 0
  BY <1>1, AppendProperties
<1>3. Len(s) = Len(failures) + 1 /\ Len(failures) \in Nat
      /\ \A i \in 1 .. Len(failures) : s[i] = failures[i] /\ failures[i] \in Nat
  BY <1>1, AppendProperties, LenProperties, ElementOfSeq, ThresholdsPositive DEF Ages
<1> HIDE DEF s
<1>4. Ordered(s)
  BY <1>2, <1>3 DEF Ordered
<1> QED BY <1>2, <1>4 DEF s

\* Once the failure is pushed and the list pruned, it holds the recent ones and
\* the new one.
LEMMA PushedCounts ==
  ASSUME TypeOK, Ordered(failures)
  PROVE  Cardinality(Recent) + 1 = Len(Prune(Append(failures, 0)))
<1> DEFINE s == Append(failures, 0)
           n == Len(failures)
<1>1. s \in Seq(Ages) /\ s # <<>> /\ s[Len(s)] = 0 /\ Ordered(s)
  BY Pushed
<1>2. n \in Nat /\ Len(s) = n + 1 /\ \A i \in 1 .. n : s[i] = failures[i]
  BY AppendProperties, LenProperties DEF TypeOK
<1> HIDE DEF s, n
<1>3. PICK first \in 1 .. Len(s) :
        /\ Len(Prune(s)) = Len(s) - first + 1
        /\ \A i \in 1 .. Len(s) : s[i] <= FailureWindow <=> first <= i
  BY <1>1, PruneLeavesTheWindow
<1>4. first \in 1 .. n + 1
  BY <1>2, <1>3
<1>5. Recent = first .. n
  <2>1. \A i \in 1 .. n : failures[i] <= FailureWindow <=> first <= i
    BY <1>2, <1>3
  <2>2. Recent = {i \in 1 .. n : first <= i}
    BY <2>1 DEF Recent, n
  <2> QED BY <1>2, <1>4, <2>2
<1>6. Cardinality(first .. n) = IF first > n THEN 0 ELSE n - first + 1
  BY <1>2, <1>4, FS_Interval
<1> QED BY <1>2, <1>3, <1>4, <1>5, <1>6 DEF s

LEMMA OrderedStep == ASSUME TypeOK, Ordered(failures), [Next]_vars PROVE Ordered(failures')
<1>1. ASSUME NEW c \in Callers, OnFailure(c) PROVE Ordered(failures')
  BY <1>1, Pushed, PruneLeavesTheWindow DEF OnFailure
<1>2. CASE Reset
  BY <1>2 DEF Reset, Ordered
<1>3. CASE Tick
  <2>1. Len(failures) \in Nat /\ \A i \in 1 .. Len(failures) : failures[i] \in Nat
    BY LenProperties, ElementOfSeq, ThresholdsPositive DEF TypeOK
  <2>2. Len(failures') = Len(failures)
        /\ \A i \in 1 .. Len(failures) : failures'[i] = Capped(failures[i] + 1, FailureWindow + 1)
    BY <1>3, <2>1 DEF Tick
  <2> QED BY <2>1, <2>2, ThresholdsPositive DEF Ordered, Capped
<1>4. CASE UNCHANGED failures
  BY <1>4 DEF Ordered
<1> QED BY <1>1, <1>2, <1>3, <1>4 DEF Next, Execute, OnSuccess, ServiceChanges, vars, breaker

\* A closed breaker opens on a failure exactly when the failures within the
\* sliding window then reach the threshold, however many callers fail when.
THEOREM TripsInTime == Spec => TripsExactly
<1>1. ASSUME TypeOK, Ordered(failures), Next, state = "closed", Failed
      PROVE  state' = "open" <=> Cardinality(Recent) + 1 >= FailureThreshold
  <2>1. PICK c \in Callers : call[c] = "failure" /\ call'[c] = "idle"
    BY <1>1 DEF Failed
  <2>2. ASSUME NEW d \in Callers, Execute(d) \/ OnSuccess(d) PROVE FALSE
    <3>1. call[d] # "failure" /\ \A e \in Callers \ {d} : call'[e] = call[e]
      BY <1>1, <2>2 DEF Execute, OnSuccess, TypeOK
    <3> QED BY <2>1, <3>1
  <2>3. PICK d \in Callers : OnFailure(d)
    BY <1>1, <2>1, <2>2 DEF Next, Reset, Tick, ServiceChanges
  <2>4. Cardinality(Recent) + 1 = Len(failures')
    BY <1>1, <2>3, PushedCounts DEF OnFailure
  <2>5. state' = "open" <=> Len(failures') >= FailureThreshold
    BY <1>1, <2>3 DEF OnFailure
  <2> QED BY <2>4, <2>5
<1>2. TypeOK /\ Ordered(failures) /\ [Next]_vars =>
        [state = "closed" /\ Failed =>
           (state' = "open" <=> Cardinality(Recent) + 1 >= FailureThreshold)]_vars
  BY <1>1
<1>3. Init => Ordered(failures)
  BY DEF Init, Ordered
<1>4. TypeOK /\ Ordered(failures) /\ [Next]_vars => Ordered(failures)'
  BY OrderedStep
<1>5. Spec => []TypeOK
  BY TypeCorrect
<1> QED BY <1>2, <1>3, <1>4, <1>5, PTL DEF Spec, TripsExactly


-----------------------------------------------------------------------------
(* Recovery, step by step.                                                 *)

\* The safety half of Recovers, for any number of callers whose calls end in
\* any order, and for all thresholds and windows.
THEOREM OnlyMends == Spec => NeverWorsens
<1>1. ASSUME TypeOK, Next, Well, up' PROVE Mends
  <2>1. ASSUME NEW c \in Callers, Execute(c) PROVE Mends
    <3>1. PICK end \in {"success"} : call' = [call EXCEPT ![c] = end]
      BY <1>1, <2>1 DEF Execute, Well
    <3>2. Well' /\ ~ Succeeded
      BY <1>1, <3>1 DEF Well, Succeeded, TypeOK
    <3>3. lastFailure <= lastFailure' /\ consecutiveSuccesses <= consecutiveSuccesses'
      BY <1>1, <2>1, ThresholdsPositive DEF Execute, TypeOK, Never
    <3> QED BY <2>1, <3>2, <3>3 DEF Execute, Mends
  <2>2. ASSUME NEW c \in Callers, OnSuccess(c) PROVE Mends
    <3>1. Well'
      BY <1>1, <2>2 DEF Well, OnSuccess, TypeOK
    <3>2. consecutiveSuccesses \in Nat /\ SuccessThreshold \in Nat
          /\ consecutiveSuccesses <= SuccessThreshold
      BY <1>1, ThresholdsPositive DEF TypeOK
    <3>3. consecutiveSuccesses <= Capped(consecutiveSuccesses + 1, SuccessThreshold)
      BY <3>2 DEF Capped
    <3>4. consecutiveSuccesses + 1 < SuccessThreshold =>
            consecutiveSuccesses < Capped(consecutiveSuccesses + 1, SuccessThreshold)
      BY <3>2 DEF Capped
    <3>5. lastFailure <= lastFailure'
      BY <1>1, <2>2, ThresholdsPositive DEF OnSuccess, TypeOK, Never
    <3>6. state' # "closed" => consecutiveSuccesses <= consecutiveSuccesses'
      BY <2>2, <3>3 DEF OnSuccess
    <3>7. state = "half-open" =>
            state' = "closed" \/ consecutiveSuccesses < consecutiveSuccesses'
      BY <2>2, <3>2, <3>4 DEF OnSuccess
    <3> QED BY <2>2, <3>1, <3>5, <3>6, <3>7 DEF OnSuccess, Mends
  <2>3. ASSUME NEW c \in Callers, OnFailure(c) PROVE FALSE
    BY <1>1, <2>3 DEF OnFailure, Well
  <2>4. CASE Reset
    <3>1. Well' /\ ~ Succeeded
      BY <1>1, <2>4 DEF Reset, Well, Succeeded
    <3> QED BY <1>1, <2>4, <3>1, ThresholdsPositive DEF Reset, Mends, TypeOK, Never
  <2>5. CASE Tick
    <3>1. Well' /\ ~ Succeeded
      BY <1>1, <2>5 DEF Tick, Well, Succeeded
    <3>2. lastFailure <= lastFailure'
      BY <1>1, <2>5, ThresholdsPositive DEF Tick, Capped, TypeOK, Never
    <3>3. consecutiveSuccesses <= consecutiveSuccesses'
      BY <1>1, <2>5, ThresholdsPositive DEF Tick, TypeOK
    <3> QED BY <2>5, <3>1, <3>2, <3>3 DEF Tick, Mends
  <2>6. ~ ServiceChanges
    BY <1>1 DEF ServiceChanges, Well, TypeOK
  <2> QED BY <1>1, <2>1, <2>2, <2>3, <2>4, <2>5, <2>6 DEF Next
<1>2. TypeOK /\ [Next]_vars => [Mends]_vars
  BY <1>1 DEF Mends
<1> QED BY <1>2, TypeCorrect, PTL DEF Spec, NeverWorsens
=============================================================================
