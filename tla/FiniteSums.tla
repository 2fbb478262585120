----------------------------- MODULE FiniteSums -----------------------------
(***************************************************************************)
(* Facts about sums of a function over a finite set, for the proofs about  *)
(* credits: the sum is well defined, a natural number, does not depend on  *)
(* the order in which the elements are taken, and changes by as much as    *)
(* the function does at one point.  Each is shown on a minimal set that    *)
(* would be an exception.                                                  *)
(***************************************************************************)
EXTENDS FiniteSetTheorems, TLAPS

\* The element the library's fold takes out of a set.
Pick(s) == CHOOSE x \in s : TRUE

\* g adds f up over every subset of S.
Adds(g, f, S) ==
  g = [s \in SUBSET S |-> IF s = {} THEN 0 ELSE f[Pick(s)] + g[s \ {Pick(s)}]]

LEMMA PickIn == ASSUME NEW s, s # {} PROVE Pick(s) \in s
BY DEF Pick

\* A set of subsets of a finite set has a minimal member.
LEMMA Minimal ==
  ASSUME NEW S, IsFiniteSet(S), NEW B \in SUBSET SUBSET S, B # {}
  PROVE  \E s \in B : \A t \in B : t \subseteq s => t = s
<1>1. B \subseteq FiniteSubsetsOf(S)
  BY FS_Subset DEF FiniteSubsetsOf
<1>2. PICK s \in B : \A t \in B : ~ (<<t, s>> \in StrictSubsetOrdering(S))
  BY <1>1, FS_StrictSubsetOrderingWellFounded, WFMin
<1>3. ASSUME NEW t \in B, t \subseteq s, t # s PROVE FALSE
  <2>1. <<t, s>> \in StrictSubsetOrdering(S)
    BY <1>3 DEF StrictSubsetOrdering
  <2> QED BY <1>2, <2>1
<1> QED BY <1>3

LEMMA AddsUnique ==
  ASSUME NEW f, NEW S, NEW T, IsFiniteSet(S), S \subseteq T,
         NEW g, Adds(g, f, S), NEW h, Adds(h, f, T)
  PROVE  \A s \in SUBSET S : g[s] = h[s]
<1> DEFINE B == {s \in SUBSET S : g[s] # h[s]}
<1>1. SUFFICES ASSUME B # {} PROVE FALSE
  OBVIOUS
<1>2. PICK s \in B : \A t \in B : t \subseteq s => t = s
  <2>1. B \in SUBSET SUBSET S
    OBVIOUS
  <2> HIDE DEF B
  <2> QED BY <1>1, <2>1, Minimal
<1>3. s # {}
  BY <1>2 DEF Adds
<1>4. Pick(s) \in s /\ s \ {Pick(s)} \in SUBSET S /\ s \in SUBSET T
  BY <1>2, <1>3, PickIn
<1>5. g[s \ {Pick(s)}] = h[s \ {Pick(s)}]
  BY <1>2, <1>4
<1>6. g[s] = f[Pick(s)] + g[s \ {Pick(s)}]
  BY <1>3, <1>4 DEF Adds
<1>7. h[s] = f[Pick(s)] + h[s \ {Pick(s)}]
  BY <1>3, <1>4 DEF Adds
<1> QED BY <1>2, <1>5, <1>6, <1>7

The(f, S) == CHOOSE g : Adds(g, f, S)

LEMMA AddsExists == ASSUME NEW f, NEW S, IsFiniteSet(S) PROVE \E g : Adds(g, f, S)
<1> DEFINE B == {s \in SUBSET S : ~ \E g : Adds(g, f, s)}
<1>1. SUFFICES ASSUME B # {} PROVE FALSE
  OBVIOUS
<1>2. PICK s \in B : \A t \in B : t \subseteq s => t = s
  <2>1. B \in SUBSET SUBSET S
    OBVIOUS
  <2> HIDE DEF B
  <2> QED BY <1>1, <2>1, Minimal
<1>3. ASSUME NEW t \in SUBSET s, t # s PROVE Adds(The(f, t), f, t) /\ IsFiniteSet(t)
  BY <1>2, <1>3, FS_Subset DEF The
<1> DEFINE less(t) == t \ {Pick(t)}
           g == [t \in SUBSET s |-> IF t = {} THEN 0 ELSE f[Pick(t)] + The(f, less(t))[less(t)]]
<1>4. ASSUME NEW t \in SUBSET s, t # s PROVE g[t] = The(f, t)[t]
  <2>1. Adds(The(f, t), f, t) /\ IsFiniteSet(t)
    BY <1>3, <1>4
  <2>2. CASE t = {}
    <3>1. The(f, t)[t] = 0
      BY <2>1, <2>2 DEF Adds
    <3> QED BY <2>2, <3>1
  <2>3. CASE t # {}
    <3>1. less(t) \in SUBSET t /\ less(t) \in SUBSET s /\ less(t) # s
      BY <1>4
    <3>2. Adds(The(f, less(t)), f, less(t)) /\ IsFiniteSet(less(t))
      BY <1>3, <3>1
    <3>3. The(f, less(t))[less(t)] = The(f, t)[less(t)]
      BY <2>1, <3>1, <3>2, AddsUnique
    <3>4. The(f, t)[t] = f[Pick(t)] + The(f, t)[less(t)]
      <4> HIDE DEF The
      <4> QED BY <2>1, <2>3 DEF Adds
    <3> QED BY <2>3, <3>3, <3>4
  <2> QED BY <2>2, <2>3
<1>5. \A t \in SUBSET s : t # {} => less(t) \in SUBSET s /\ less(t) # s
  BY PickIn
<1>6. g = [t \in SUBSET s |-> IF t = {} THEN 0 ELSE f[Pick(t)] + g[less(t)]]
  BY <1>4, <1>5
<1>7. Adds(g, f, s)
  BY <1>6 DEF Adds
<1> QED BY <1>2, <1>7

LEMMA SumIs ==
  ASSUME NEW f, NEW S, IsFiniteSet(S), NEW T \in SUBSET S
  PROVE  SumFunctionOnSet(f, T) = The(f, S)[T]
<1>1. IsFiniteSet(T)
  BY FS_Subset
<1>2. SumFunctionOnSet(f, T) = The(f, T)[T]
  BY DEF SumFunctionOnSet, FoldFunctionOnSet, MapThenFoldSet, The, Adds, Pick
<1>3. Adds(The(f, T), f, T) /\ Adds(The(f, S), f, S)
  BY <1>1, AddsExists DEF The
<1> QED BY <1>1, <1>2, <1>3, AddsUnique

LEMMA SumEmpty == ASSUME NEW f PROVE SumFunctionOnSet(f, {}) = 0
<1>1. Adds(The(f, {}), f, {})
  BY AddsExists, FS_EmptySet DEF The
<1>2. The(f, {})[{}] = 0
  BY <1>1 DEF Adds
<1> QED BY <1>2, SumIs, FS_EmptySet

LEMMA SumPick ==
  ASSUME NEW f, NEW S, IsFiniteSet(S), S # {}
  PROVE  SumFunctionOnSet(f, S) = f[Pick(S)] + SumFunctionOnSet(f, S \ {Pick(S)})
<1>1. Adds(The(f, S), f, S)
  BY AddsExists DEF The
<1>2. The(f, S)[S] = f[Pick(S)] + The(f, S)[S \ {Pick(S)}]
  BY <1>1 DEF Adds
<1> QED BY <1>2, SumIs

\* Sums of natural numbers are natural numbers.
LEMMA SumNat ==
  ASSUME NEW f, NEW S, IsFiniteSet(S), \A x \in S : f[x] \in Nat
  PROVE  SumFunctionOnSet(f, S) \in Nat
<1> DEFINE B == {s \in SUBSET S : SumFunctionOnSet(f, s) \notin Nat}
<1>1. SUFFICES ASSUME B # {} PROVE FALSE
  OBVIOUS
<1>2. PICK s \in B : \A t \in B : t \subseteq s => t = s
  <2>1. B \in SUBSET SUBSET S
    OBVIOUS
  <2> HIDE DEF B
  <2> QED BY <1>1, <2>1, Minimal
<1>3. s # {}
  <2>1. SumFunctionOnSet(f, {}) \in Nat
    BY SumEmpty
  <2> QED BY <2>1
<1>4. Pick(s) \in s /\ s \ {Pick(s)} \in SUBSET S /\ IsFiniteSet(s)
  BY <1>2, <1>3, PickIn, FS_Subset
<1>5. SumFunctionOnSet(f, s \ {Pick(s)}) \in Nat
  BY <1>2, <1>4
<1>6. SumFunctionOnSet(f, s) = f[Pick(s)] + SumFunctionOnSet(f, s \ {Pick(s)})
  BY <1>3, <1>4, SumPick
<1> QED BY <1>2, <1>4, <1>5, <1>6

\* Any element may be taken out first.
LEMMA SumSplit ==
  ASSUME NEW f, NEW S, IsFiniteSet(S), \A x \in S : f[x] \in Nat, NEW x \in S
  PROVE  SumFunctionOnSet(f, S) = f[x] + SumFunctionOnSet(f, S \ {x})
<1> DEFINE Sum(s) == SumFunctionOnSet(f, s)
           Odd(s, y) == Sum(s) # f[y] + Sum(s \ {y})
           B == {s \in SUBSET S : \E y \in s : Odd(s, y)}
<1>1. SUFFICES ASSUME B # {} PROVE FALSE
  OBVIOUS
<1>2. PICK s \in B : \A t \in B : t \subseteq s => t = s
  <2>1. B \in SUBSET SUBSET S
    OBVIOUS
  <2> HIDE DEF B
  <2> QED BY <1>1, <2>1, Minimal
<1>3. PICK y \in s : Odd(s, y)
  BY <1>2
<1> DEFINE z == Pick(s)
<1>4. s \in SUBSET S /\ IsFiniteSet(s) /\ z \in s /\ y \in S /\ z \in S
  BY <1>2, <1>3, PickIn, FS_Subset
<1>5. Sum(s) = f[z] + Sum(s \ {z})
  BY <1>3, <1>4, SumPick
<1>6. y # z
  BY <1>3, <1>5
<1>7. y \in s \ {z} /\ z \in s \ {y} /\ s \ {z} \in SUBSET S /\ s \ {y} \in SUBSET S
  BY <1>3, <1>4, <1>6
<1>8. s \ {z} \notin B /\ s \ {y} \notin B
  <2> HIDE DEF B, z
  <2> QED BY <1>2, <1>3, <1>4, <1>7
<1>9. Sum(s \ {z}) = f[y] + Sum((s \ {z}) \ {y}) /\ Sum(s \ {y}) = f[z] + Sum((s \ {y}) \ {z})
  <2> HIDE DEF z, Sum
  <2> QED BY <1>7, <1>8
<1>10. (s \ {z}) \ {y} = (s \ {y}) \ {z}
  OBVIOUS
<1>11. Sum((s \ {y}) \ {z}) \in Nat /\ f[y] \in Nat /\ f[z] \in Nat
  <2>1. (s \ {y}) \ {z} \in SUBSET S
    BY <1>4
  <2> QED BY <1>4, <2>1, SumNat, FS_Subset
<1>12. Sum(s) = f[y] + Sum(s \ {y})
  <2> HIDE DEF z, Sum
  <2> QED BY <1>5, <1>9, <1>10, <1>11
<1> QED BY <1>3, <1>12

LEMMA SumAdd ==
  ASSUME NEW f, NEW S, IsFiniteSet(S), NEW x, x \notin S, \A y \in S \cup {x} : f[y] \in Nat
  PROVE  SumFunctionOnSet(f, S \cup {x}) = SumFunctionOnSet(f, S) + f[x]
<1>1. IsFiniteSet(S \cup {x}) /\ (S \cup {x}) \ {x} = S
  BY FS_AddElement
<1>2. SumFunctionOnSet(f, S \cup {x}) = f[x] + SumFunctionOnSet(f, S)
  BY <1>1, SumSplit
<1>3. SumFunctionOnSet(f, S) \in Nat
  BY SumNat
<1> QED BY <1>2, <1>3

\* Functions that agree on a set have one sum over it.
LEMMA SumAgree ==
  ASSUME NEW f, NEW g, NEW S, IsFiniteSet(S), \A x \in S : f[x] = g[x]
  PROVE  SumFunctionOnSet(f, S) = SumFunctionOnSet(g, S)
<1> DEFINE B == {s \in SUBSET S : SumFunctionOnSet(f, s) # SumFunctionOnSet(g, s)}
<1>1. SUFFICES ASSUME B # {} PROVE FALSE
  OBVIOUS
<1>2. PICK s \in B : \A t \in B : t \subseteq s => t = s
  <2>1. B \in SUBSET SUBSET S
    OBVIOUS
  <2> HIDE DEF B
  <2> QED BY <1>1, <2>1, Minimal
<1>3. s # {}
  <2>1. SumFunctionOnSet(f, {}) = 0 /\ SumFunctionOnSet(g, {}) = 0
    BY SumEmpty
  <2> QED BY <1>2, <2>1
<1>4. Pick(s) \in s /\ s \ {Pick(s)} \in SUBSET S /\ IsFiniteSet(s)
  BY <1>2, <1>3, PickIn, FS_Subset
<1>5. SumFunctionOnSet(f, s \ {Pick(s)}) = SumFunctionOnSet(g, s \ {Pick(s)})
  BY <1>2, <1>4
<1> QED BY <1>2, <1>3, <1>4, <1>5, SumPick

\* A change at one point changes the sum as much.
LEMMA SumChange ==
  ASSUME NEW f, NEW g, NEW S, IsFiniteSet(S), NEW x \in S,
         \A y \in S : f[y] \in Nat, \A y \in S : g[y] \in Nat,
         \A y \in S \ {x} : g[y] = f[y]
  PROVE  SumFunctionOnSet(g, S) + f[x] = SumFunctionOnSet(f, S) + g[x]
<1>1. IsFiniteSet(S \ {x})
  BY FS_RemoveElement
<1>2. SumFunctionOnSet(g, S \ {x}) = SumFunctionOnSet(f, S \ {x})
  BY <1>1, SumAgree
<1>3. SumFunctionOnSet(f, S \ {x}) \in Nat
  BY <1>1, SumNat
<1>4. /\ SumFunctionOnSet(f, S) = f[x] + SumFunctionOnSet(f, S \ {x})
      /\ SumFunctionOnSet(g, S) = g[x] + SumFunctionOnSet(g, S \ {x})
  BY SumSplit
<1> QED BY <1>2, <1>3, <1>4

LEMMA SumZero ==
  ASSUME NEW f, NEW S, IsFiniteSet(S), \A x \in S : f[x] = 0
  PROVE  SumFunctionOnSet(f, S) = 0
<1> DEFINE B == {s \in SUBSET S : SumFunctionOnSet(f, s) # 0}
<1>1. SUFFICES ASSUME B # {} PROVE FALSE
  OBVIOUS
<1>2. PICK s \in B : \A t \in B : t \subseteq s => t = s
  <2>1. B \in SUBSET SUBSET S
    OBVIOUS
  <2> HIDE DEF B
  <2> QED BY <1>1, <2>1, Minimal
<1>3. s # {}
  <2>1. SumFunctionOnSet(f, {}) = 0
    BY SumEmpty
  <2> QED BY <2>1
<1>4. Pick(s) \in s /\ s \ {Pick(s)} \in SUBSET S /\ IsFiniteSet(s)
  BY <1>2, <1>3, PickIn, FS_Subset
<1>5. SumFunctionOnSet(f, s \ {Pick(s)}) = 0 /\ f[Pick(s)] = 0
  BY <1>2, <1>4
<1>6. SumFunctionOnSet(f, s) = f[Pick(s)] + SumFunctionOnSet(f, s \ {Pick(s)})
  BY <1>3, <1>4, SumPick
<1> QED BY <1>2, <1>5, <1>6
=============================================================================
