------------------------------- MODULE SumLemmas -----------------------------
(***************************************************************************)
(* What SumFunctionOnSet of the community modules computes, for the proofs *)
(* about counters.  It is defined by a recursive function on the subsets   *)
(* of the index set; each fact is shown by looking at a smallest subset    *)
(* for which it would fail.                                                *)
(***************************************************************************)
EXTENDS FiniteSets, Integers, Functions, FiniteSetTheorems, WellFoundedInduction, TLAPS

(* Among subsets of a finite set there is a minimal one.                    *)
LEMMA MinimalSubset ==
    ASSUME NEW S, IsFiniteSet(S), NEW T, T \subseteq SUBSET S, T # {}
    PROVE  \E s \in T : \A t \in T : t \subseteq s => t = s
<1> DEFINE R == StrictSubsetOrdering(S)
<1>1. IsWellFoundedOn(R, SUBSET S)
  BY FS_StrictSubsetOrderingWellFounded, FS_FiniteSubsetsOfFinite
<1>2. \E s \in T : \A t \in T : ~(<<t, s>> \in R)
  <2> HIDE DEF R
  <2> QED BY <1>1, WFMin
<1> QED BY <1>2 DEF StrictSubsetOrdering

(* The equation that defines the sum of f over the subsets of S.            *)
Sums(g, f, S) ==
    g = [s \in SUBSET S |->
           IF s = {} THEN 0
           ELSE LET x == CHOOSE x \in s : TRUE IN f[x] + g[s \ {x}]]

(* The sum is the value of the function that satisfies it.                 *)
LEMMA SumIsChosen ==
    ASSUME NEW f, NEW S
    PROVE  SumFunctionOnSet(f, S) = (CHOOSE g : Sums(g, f, S))[S]
BY DEF SumFunctionOnSet, FoldFunctionOnSet, MapThenFoldSet, Sums

(* Two solutions of the equation agree wherever both are defined.           *)
LEMMA SumsAgree ==
    ASSUME NEW f, NEW S, IsFiniteSet(S), NEW A \in SUBSET S, NEW B \in SUBSET S,
           NEW g, Sums(g, f, A), NEW h, Sums(h, f, B)
    PROVE  \A s \in SUBSET (A \cap B) : g[s] = h[s]
<1> DEFINE T == {s \in SUBSET (A \cap B) : g[s] # h[s]}
<1> SUFFICES ASSUME T # {} PROVE FALSE
  OBVIOUS
<1>1. PICK s \in T : \A t \in T : t \subseteq s => t = s
  <2>1. T \subseteq SUBSET S
    OBVIOUS
  <2> HIDE DEF T
  <2> QED BY <2>1, MinimalSubset
<1>2. /\ s \in SUBSET A /\ s \in SUBSET B /\ g[s] # h[s]
  OBVIOUS
<1>3. s # {}
  BY <1>2 DEF Sums
<1> DEFINE x == CHOOSE x \in s : TRUE
<1>4. x \in s
  BY <1>3
<1>5. g[s \ {x}] = h[s \ {x}]
  BY <1>1, <1>4
<1>6. g[s] = f[x] + g[s \ {x}]
  BY <1>2, <1>3 DEF Sums
<1>7. h[s] = f[x] + h[s \ {x}]
  BY <1>2, <1>3 DEF Sums
<1> QED BY <1>2, <1>5, <1>6, <1>7

(* There is a solution on every finite set.                                 *)
LEMMA SumsExist ==
    ASSUME NEW f, NEW S, IsFiniteSet(S)
    PROVE  \E g : Sums(g, f, S)
<1> DEFINE T == {s \in SUBSET S : ~ \E g : Sums(g, f, s)}
<1> SUFFICES ASSUME T # {} PROVE FALSE
  OBVIOUS
<1>1. PICK s \in T : \A t \in T : t \subseteq s => t = s
  <2>1. T \subseteq SUBSET S
    OBVIOUS
  <2> HIDE DEF T
  <2> QED BY <2>1, MinimalSubset
<1> DEFINE G(t) == CHOOSE g : Sums(g, f, t)
           Top(t) == CHOOSE x \in t : TRUE
           h == [t \in SUBSET s |->
                   IF t = {} THEN 0 ELSE f[Top(t)] + G(t \ {Top(t)})[t \ {Top(t)}]]
<1>2. s \subseteq S
  OBVIOUS
<1>3. ASSUME NEW t, t \subseteq s, t # s PROVE Sums(G(t), f, t)
  <2>1. t \notin T
    BY <1>1, <1>3
  <2>2. \E g : Sums(g, f, t)
    BY <2>1, <1>2, <1>3
  <2> QED BY <2>2
<1>4. ASSUME NEW u, u \subseteq s, u # s PROVE h[u] = G(u)[u]
  <2>1. CASE u = {}
    <3>1. Sums(G(u), f, u)
      BY <1>3, <1>4
    <3>2. G(u)[u] = 0
      <4> HIDE DEF G
      <4> QED BY <3>1, <2>1 DEF Sums
    <3>3. h[u] = 0
      BY <2>1
    <3> QED BY <3>2, <3>3
  <2>2. CASE u # {}
    <3> DEFINE v == u \ {Top(u)}
    <3>1. Top(u) \in u
      BY <2>2
    <3>2. h[u] = f[Top(u)] + G(v)[v]
      BY <1>4, <2>2
    <3>3. Sums(G(u), f, u) /\ Sums(G(v), f, v)
      BY <1>3, <1>4, <3>1
    <3>4. G(u)[u] = f[Top(u)] + G(u)[v]
      BY <3>3, <2>2 DEF Sums
    <3>5. G(u)[v] = G(v)[v]
      <4>1. u \in SUBSET S /\ v \in SUBSET S /\ v \in SUBSET (u \cap v)
        BY <1>2, <1>4
      <4> HIDE DEF G, v
      <4> QED BY <4>1, <3>3, SumsAgree
    <3> QED BY <3>2, <3>4, <3>5
  <2> QED BY <2>1, <2>2
<1>5. Sums(h, f, s)
  <2>1. ASSUME NEW t \in SUBSET s, t # {} PROVE h[t] = f[Top(t)] + h[t \ {Top(t)}]
    <3>1. Top(t) \in t
      BY <2>1
    <3>2. h[t \ {Top(t)}] = G(t \ {Top(t)})[t \ {Top(t)}]
      BY <1>4, <3>1
    <3>3. h[t] = f[Top(t)] + G(t \ {Top(t)})[t \ {Top(t)}]
      BY <2>1
    <3> QED BY <3>2, <3>3
  <2>2. h[{}] = 0
    OBVIOUS
  <2>3. h = [t \in SUBSET s |-> h[t]]
    OBVIOUS
  <2>4. [t \in SUBSET s |-> h[t]]
         = [t \in SUBSET s |-> IF t = {} THEN 0 ELSE f[Top(t)] + h[t \ {Top(t)}]]
    <3> HIDE DEF h, G
    <3> QED BY <2>1, <2>2
  <2> HIDE DEF h, G
  <2> QED BY <2>3, <2>4 DEF Sums
<1> QED
  <2> HIDE DEF h, G
  <2> QED BY <1>5

(* The sum over the empty set, and one summand split off, the one CHOOSE    *)
(* takes first.                                                             *)
LEMMA SumEmpty == ASSUME NEW f PROVE SumFunctionOnSet(f, {}) = 0
<1>1. PICK g : Sums(g, f, {})
  BY SumsExist, FS_EmptySet
<1>2. Sums(CHOOSE h : Sums(h, f, {}), f, {})
  BY <1>1
<1> QED BY <1>2, SumIsChosen DEF Sums

(* A sum is its chosen first term and the sum of the rest.                  *)
LEMMA SumFirst ==
    ASSUME NEW f, NEW S, IsFiniteSet(S), S # {}
    PROVE  LET x == CHOOSE x \in S : TRUE
           IN  SumFunctionOnSet(f, S) = f[x] + SumFunctionOnSet(f, S \ {x})
<1> DEFINE x == CHOOSE x \in S : TRUE
           R == S \ {x}
           g == CHOOSE g : Sums(g, f, S)
           h == CHOOSE h : Sums(h, f, R)
<1>1. x \in S
  OBVIOUS
<1>2. IsFiniteSet(R)
  BY FS_RemoveElement
<1>3. Sums(g, f, S)
  BY SumsExist
<1>4. Sums(h, f, R)
  BY SumsExist, <1>2
<1>5. g[S] = f[x] + g[R]
  BY <1>3 DEF Sums
<1>6. g[R] = h[R]
  <2> HIDE DEF g, h
  <2> QED BY <1>3, <1>4, SumsAgree
<1>7. SumFunctionOnSet(f, S) = g[S] /\ SumFunctionOnSet(f, R) = h[R]
  BY SumIsChosen
<1> HIDE DEF g, h
<1> QED BY <1>5, <1>6, <1>7

(* A sum of integers is an integer, and one of naturals a natural.          *)
LEMMA SumType ==
    ASSUME NEW S, IsFiniteSet(S), NEW f, NEW D \in {Nat, Int}, \A x \in S : f[x] \in D
    PROVE  SumFunctionOnSet(f, S) \in D
<1> DEFINE T == {s \in SUBSET S : SumFunctionOnSet(f, s) \notin D}
<1> SUFFICES ASSUME T # {} PROVE FALSE
  OBVIOUS
<1>1. PICK s \in T : \A t \in T : t \subseteq s => t = s
  <2>1. T \subseteq SUBSET S
    OBVIOUS
  <2> HIDE DEF T
  <2> QED BY <2>1, MinimalSubset
<1>2. s \in SUBSET S /\ SumFunctionOnSet(f, s) \notin D /\ IsFiniteSet(s)
  BY FS_Subset
<1>3. s # {}
  BY <1>2, SumEmpty
<1> DEFINE x == CHOOSE x \in s : TRUE
<1>4. x \in s /\ f[x] \in D
  BY <1>2, <1>3
<1>5. SumFunctionOnSet(f, s \ {x}) \in D
  BY <1>1, <1>2, <1>4
<1>6. SumFunctionOnSet(f, s) = f[x] + SumFunctionOnSet(f, s \ {x})
  BY <1>2, <1>3, SumFirst
<1> QED BY <1>2, <1>4, <1>5, <1>6

(* Any summand can be split off.                                            *)
LEMMA SumSplit ==
    ASSUME NEW S, IsFiniteSet(S), NEW f, \A x \in S : f[x] \in Int, NEW x \in S
    PROVE  SumFunctionOnSet(f, S) = f[x] + SumFunctionOnSet(f, S \ {x})
<1> DEFINE Sum(s) == SumFunctionOnSet(f, s)
           T == {s \in SUBSET S : \E y \in s : Sum(s) # f[y] + Sum(s \ {y})}
<1> SUFFICES ASSUME T # {} PROVE FALSE
  OBVIOUS
<1>1. PICK s \in T : \A t \in T : t \subseteq s => t = s
  <2>1. T \subseteq SUBSET S
    OBVIOUS
  <2> HIDE DEF T
  <2> QED BY <2>1, MinimalSubset
<1>2. PICK y \in s : Sum(s) # f[y] + Sum(s \ {y})
  OBVIOUS
<1> DEFINE z == CHOOSE z \in s : TRUE
<1>3. s \in SUBSET S /\ IsFiniteSet(s) /\ z \in s
  BY FS_Subset
<1>4. Sum(s) = f[z] + Sum(s \ {z})
  BY <1>3, SumFirst
<1>5. y # z
  BY <1>2, <1>4
<1>6. Sum(s \ {z}) = f[y] + Sum((s \ {z}) \ {y})
  BY <1>1, <1>3, <1>5
<1>7. Sum(s \ {y}) = f[z] + Sum((s \ {y}) \ {z})
  BY <1>1, <1>3, <1>5
<1>8. (s \ {z}) \ {y} = (s \ {y}) \ {z}
  OBVIOUS
<1>9. Sum((s \ {y}) \ {z}) \in Int
  BY <1>3, FS_Subset, SumType
<1>10. f[y] \in Int /\ f[z] \in Int
  BY <1>3
<1>11. Sum((s \ {z}) \ {y}) = Sum((s \ {y}) \ {z})
  BY <1>8
<1> HIDE DEF Sum, z, T
<1>12. f[y] + Sum(s \ {y}) = f[y] + (f[z] + Sum((s \ {y}) \ {z}))
  BY <1>7
<1>13. Sum(s) = f[z] + (f[y] + Sum((s \ {y}) \ {z}))
  BY <1>4, <1>6, <1>11
<1> QED BY <1>2, <1>9, <1>10, <1>12, <1>13

(* Only the summands matter.                                                *)
LEMMA SumCongruent ==
    ASSUME NEW S, IsFiniteSet(S), NEW f, NEW g, \A x \in S : f[x] = g[x]
    PROVE  SumFunctionOnSet(f, S) = SumFunctionOnSet(g, S)
<1> DEFINE T == {s \in SUBSET S : SumFunctionOnSet(f, s) # SumFunctionOnSet(g, s)}
<1> SUFFICES ASSUME T # {} PROVE FALSE
  OBVIOUS
<1>1. PICK s \in T : \A t \in T : t \subseteq s => t = s
  <2>1. T \subseteq SUBSET S
    OBVIOUS
  <2> HIDE DEF T
  <2> QED BY <2>1, MinimalSubset
<1>2. s \in SUBSET S /\ IsFiniteSet(s) /\ s # {}
  BY FS_Subset, SumEmpty
<1> DEFINE x == CHOOSE x \in s : TRUE
<1>3. x \in s
  BY <1>2
<1>4. SumFunctionOnSet(f, s \ {x}) = SumFunctionOnSet(g, s \ {x})
  BY <1>1, <1>2, <1>3
<1>5. SumFunctionOnSet(f, s) = f[x] + SumFunctionOnSet(f, s \ {x})
  BY <1>2, SumFirst
<1>6. SumFunctionOnSet(g, s) = g[x] + SumFunctionOnSet(g, s \ {x})
  BY <1>2, SumFirst
<1> QED BY <1>2, <1>3, <1>4, <1>5, <1>6

(* Changing one summand changes the sum by as much.                         *)
LEMMA SumChangedAt ==
    ASSUME NEW S, IsFiniteSet(S), NEW f, NEW g, NEW x \in S,
           \A y \in S : f[y] \in Int /\ g[y] \in Int, \A y \in S \ {x} : f[y] = g[y]
    PROVE  SumFunctionOnSet(g, S) = SumFunctionOnSet(f, S) + g[x] - f[x]
<1>1. SumFunctionOnSet(f, S) = f[x] + SumFunctionOnSet(f, S \ {x})
  BY SumSplit
<1>2. SumFunctionOnSet(g, S) = g[x] + SumFunctionOnSet(g, S \ {x})
  BY SumSplit
<1>3. IsFiniteSet(S \ {x})
  BY FS_RemoveElement
<1>4. SumFunctionOnSet(f, S \ {x}) = SumFunctionOnSet(g, S \ {x})
  BY <1>3, SumCongruent
<1>5. SumFunctionOnSet(f, S \ {x}) \in Int
  BY <1>3, SumType
<1> QED BY <1>1, <1>2, <1>4, <1>5

(* A sum of naturals is at least each of its summands.                      *)
LEMMA SumBounds ==
    ASSUME NEW S, IsFiniteSet(S), NEW f, \A x \in S : f[x] \in Nat, NEW x \in S
    PROVE  f[x] <= SumFunctionOnSet(f, S)
<1>1. SumFunctionOnSet(f, S) = f[x] + SumFunctionOnSet(f, S \ {x})
  BY SumSplit
<1>2. SumFunctionOnSet(f, S \ {x}) \in Nat
  BY FS_RemoveElement, SumType
<1> QED BY <1>1, <1>2

(* A sum of zeros is zero.                                                  *)
LEMMA SumOfZeros ==
    ASSUME NEW S, IsFiniteSet(S), NEW f, \A x \in S : f[x] = 0
    PROVE  SumFunctionOnSet(f, S) = 0
<1> DEFINE T == {s \in SUBSET S : SumFunctionOnSet(f, s) # 0}
<1> SUFFICES ASSUME T # {} PROVE FALSE
  OBVIOUS
<1>1. PICK s \in T : \A t \in T : t \subseteq s => t = s
  <2>1. T \subseteq SUBSET S
    OBVIOUS
  <2> HIDE DEF T
  <2> QED BY <2>1, MinimalSubset
<1>2. s \in SUBSET S /\ IsFiniteSet(s) /\ s # {}
  BY FS_Subset, SumEmpty
<1> DEFINE x == CHOOSE x \in s : TRUE
<1>3. x \in s
  BY <1>2
<1>4. SumFunctionOnSet(f, s \ {x}) = 0
  BY <1>1, <1>2, <1>3
<1>5. SumFunctionOnSet(f, s) = f[x] + SumFunctionOnSet(f, s \ {x})
  BY <1>2, SumFirst
<1> QED BY <1>2, <1>3, <1>4, <1>5

(* A nonempty set of naturals has a least element.                          *)
LEMMA LeastNatural ==
    ASSUME NEW T, T \subseteq Nat, T # {}
    PROVE  \E m \in T : \A t \in T : m <= t
<1>1. \E m \in T : \A t \in T : ~(<<t, m>> \in OpToRel(<, Nat))
  BY NatLessThanWellFounded, WFMin
<1>2. PICK m \in T : \A t \in T : ~(<<t, m>> \in OpToRel(<, Nat))
  BY <1>1
<1>3. \A t \in T : ~(t < m)
  BY <1>2 DEF OpToRel
<1> QED BY <1>3

(* The interval 1..n is finite, and n is the last of its members.           *)
LEMMA IntervalFinite ==
    ASSUME NEW n \in Nat
    PROVE  /\ IsFiniteSet(1..n)
           /\ n # 0 => n \in 1..n /\ (1..n) \ {n} = 1..(n - 1)
<1>1. IsFiniteSet(1..n)
  BY FS_Interval
<1>2. n # 0 => n \in 1..n /\ (1..n) \ {n} = 1..(n - 1)
  OBVIOUS
<1> QED BY <1>1, <1>2

(* A sum over an interval is its last term and the sum of those before.     *)
LEMMA SumLast ==
    ASSUME NEW n \in Nat, n # 0, NEW f, \A m \in 1..n : f[m] \in Int
    PROVE  /\ SumFunctionOnSet(f, 1..n) = f[n] + SumFunctionOnSet(f, 1..(n - 1))
           /\ SumFunctionOnSet(f, 1..n) \in Int /\ SumFunctionOnSet(f, 1..(n - 1)) \in Int
<1>1. IsFiniteSet(1..n) /\ n \in 1..n /\ (1..n) \ {n} = 1..(n - 1)
  BY IntervalFinite
<1> DEFINE S == 1..n
<1>2. IsFiniteSet(S) /\ n \in S /\ \A m \in S : f[m] \in Int
  BY <1>1
<1>3. IsFiniteSet(S \ {n}) /\ \A m \in S \ {n} : f[m] \in Int
  BY <1>2, FS_RemoveElement
<1> HIDE DEF S
<1>4. SumFunctionOnSet(f, S) = f[n] + SumFunctionOnSet(f, S \ {n})
  BY <1>2, SumSplit
<1>5. SumFunctionOnSet(f, S) \in Int /\ SumFunctionOnSet(f, S \ {n}) \in Int
  BY <1>2, <1>3, SumType
<1> QED BY <1>1, <1>4, <1>5 DEF S

(* A sum over 1..(n+1) is its first summand and the sum of the rest, moved  *)
(* down by one.                                                             *)
LEMMA SumShifted ==
    ASSUME NEW n \in Nat, NEW f, \A m \in 1..(n + 1) : f[m] \in Int,
           NEW g, \A m \in 1..n : g[m] = f[m + 1]
    PROVE  SumFunctionOnSet(f, 1..(n + 1)) = f[1] + SumFunctionOnSet(g, 1..n)
<1> DEFINE F(m) == SumFunctionOnSet(f, 1..m)
           G(m) == SumFunctionOnSet(g, 1..m)
           T == {m \in 0..n : F(m + 1) # f[1] + G(m)}
<1> SUFFICES ASSUME n \in T PROVE FALSE
  OBVIOUS
<1>1. PICK m \in T : \A t \in T : m <= t
  <2>1. T \subseteq Nat /\ T # {}
    OBVIOUS
  <2> HIDE DEF T
  <2> QED BY <2>1, LeastNatural
<1>2. m \in 0..n /\ F(m + 1) # f[1] + G(m)
  OBVIOUS
<1>3. /\ f[1] \in Int /\ f[m + 1] \in Int
      /\ \A x \in 1..(m + 1) : f[x] \in Int
  BY <1>2
<1>4. F(m + 1) = f[m + 1] + F(m) /\ F(m) \in Int
  <2>1. m + 1 \in Nat /\ m + 1 # 0 /\ (m + 1) - 1 = m
    BY <1>2
  <2>2. /\ F(m + 1) = f[m + 1] + SumFunctionOnSet(f, 1..((m + 1) - 1))
        /\ SumFunctionOnSet(f, 1..((m + 1) - 1)) \in Int
    BY <1>3, <2>1, SumLast
  <2> QED BY <2>1, <2>2
<1>5. CASE m = 0
  <2>1. 1..0 = {}
    OBVIOUS
  <2>2. F(0) = 0 /\ G(0) = 0
    BY <2>1, SumEmpty
  <2> HIDE DEF F, G
  <2> QED BY <1>2, <1>3, <1>4, <1>5, <2>2
<1>6. CASE m # 0
  <2>1. m - 1 \in 0..n /\ (m - 1) + 1 = m /\ m \in Nat
    BY <1>2, <1>6
  <2>2. m - 1 \notin T
    BY <1>1, <2>1
  <2>3. F(m) = f[1] + G(m - 1)
    <3> HIDE DEF F, G
    <3> QED BY <2>1, <2>2
  <2>4. g[m] = f[m + 1] /\ \A x \in 1..m : g[x] \in Int
    BY <1>2, <1>6
  <2>5. G(m) = g[m] + G(m - 1) /\ G(m - 1) \in Int
    BY <1>6, <2>1, <2>4, SumLast
  <2> HIDE DEF F, G, T
  <2> QED BY <1>2, <1>3, <1>4, <2>3, <2>4, <2>5
<1> QED BY <1>5, <1>6

=============================================================================
