----------------------------- MODULE SumTheorems -----------------------------
(***************************************************************************)
(* What the sums of the models obey.  A quantity of a company is a sum of  *)
(* integers over a finite set (lines, documents, places), written          *)
(* SumFunctionOnSet.  Its definition folds over an element that is chosen; *)
(* these lemmas make it the sum: any element may be taken out first, equal *)
(* terms give equal sums, sums add up, and a sum over a part is the sum    *)
(* over the whole in which the others count nothing.                       *)
(*                                                                         *)
(* They rest on induction over the subsets of a finite set, which is       *)
(* proved from the smallest counterexample: what holds for a set as soon   *)
(* as it holds for its proper subsets holds for the set (StrongInduction). *)
(***************************************************************************)
EXTENDS Integers, FiniteSets, Functions, Folds, FiniteSetTheorems, WellFoundedInduction, TLAPS

\* The fold unrolled: the element that is chosen first, and the function of all
\* subsets that takes one such element after the other.
Pick(s) == CHOOSE x \in s : TRUE
SumRule(g, f, S) == [s \in SUBSET S |-> IF s = {} THEN 0 ELSE f[Pick(s)] + g[s \ {Pick(s)}]]
Summing(f, S) == CHOOSE g : g = SumRule(g, f, S)

\* A set of naturals that is not empty has a least element.
LEMMA LeastElement ==
  ASSUME NEW S \in SUBSET Nat, S # {}
  PROVE  \E m \in S : \A n \in S : m <= n
<1>1. PICK m \in S : \A y \in S : ~ (<<y, m>> \in OpToRel(<, Nat))
  BY NatLessThanWellFounded, WFMin
<1>2. \A y \in S : ~ (y < m)
  BY <1>1 DEF OpToRel
<1> QED
  BY <1>2

\* Induction over the subsets of a finite set.
LEMMA StrongInduction ==
  ASSUME NEW S, IsFiniteSet(S), NEW P,
         \A T \in SUBSET S : (\A U \in SUBSET T : U # T => U \in P) => T \in P
  PROVE  S \in P
<1> SUFFICES ASSUME S \notin P PROVE FALSE
  OBVIOUS
<1> DEFINE bad == {T \in SUBSET S : T \notin P}
           sizes == {Cardinality(T) : T \in bad}
<1>1. \A T \in bad : IsFiniteSet(T) /\ Cardinality(T) \in Nat
  BY FS_Subset, FS_CardinalityType
<1>2. sizes \in SUBSET Nat /\ sizes # {}
  BY <1>1
<1>3. PICK m \in sizes : \A n \in sizes : m <= n
  BY <1>2, LeastElement
<1>4. PICK T \in bad : m = Cardinality(T)
  BY <1>3
<1>5. ASSUME NEW U \in SUBSET T, U # T PROVE U \in P
  <2>1. Cardinality(U) <= Cardinality(T) /\ Cardinality(U) # Cardinality(T) /\ IsFiniteSet(U) /\ Cardinality(U) \in Nat
    BY <1>1, <1>5, FS_Subset, FS_CardinalityType
  <2>2. U \in bad => Cardinality(T) <= Cardinality(U)
    BY <1>3, <1>4
  <2>3. U \notin bad
    BY <1>1, <2>1, <2>2
  <2> QED
    BY <2>3
<1> QED
  BY <1>5

\* At most one function follows the rule.
LEMMA SumIsUnique ==
  ASSUME NEW S, IsFiniteSet(S), NEW f, NEW g, NEW h, g = SumRule(g, f, S), h = SumRule(h, f, S)
  PROVE  \A T \in SUBSET S : g[T] = h[T]
<1> DEFINE P == {T \in SUBSET S : g[T] = h[T]}
<1>1. \A T \in SUBSET S : /\ g[T] = IF T = {} THEN 0 ELSE f[Pick(T)] + g[T \ {Pick(T)}]
                          /\ h[T] = IF T = {} THEN 0 ELSE f[Pick(T)] + h[T \ {Pick(T)}]
  BY DEF SumRule
<1>2. \A T : T # {} => Pick(T) \in T
  BY DEF Pick
<1>3. ASSUME NEW T \in SUBSET S, \A U \in SUBSET T : U # T => U \in P PROVE T \in P
  <2>1. CASE T = {}
    BY <1>1, <2>1
  <2>2. CASE T # {}
    <3>1. T \ {Pick(T)} \in P
      BY <1>2, <1>3, <2>2
    <3> QED
      BY <1>1, <2>2, <3>1
  <2> QED
    BY <2>1, <2>2
<1> HIDE DEF P
<1>4. ASSUME NEW T \in SUBSET S PROVE T \in P
  <2>1. IsFiniteSet(T)
    BY FS_Subset
  <2>2. \A V \in SUBSET T : (\A U \in SUBSET V : U # V => U \in P) => V \in P
    BY <1>3
  <2> QED
    BY <2>1, <2>2, StrongInduction
<1> QED
  BY <1>4 DEF P

\* ... and there is one: it is built a subset at a time.
LEMMA SumExists ==
  ASSUME NEW S, IsFiniteSet(S), NEW f, \A x \in S : f[x] \in Int
  PROVE  Summing(f, S) = SumRule(Summing(f, S), f, S) /\ \A T \in SUBSET S : Summing(f, S)[T] \in Int
<1> DEFINE upTo(n) == {s \in SUBSET S : Cardinality(s) <= n}
           step(g, s) == IF s = {} THEN 0 ELSE f[Pick(s)] + g[s \ {Pick(s)}]
           good(n) == \E g \in [upTo(n) -> Int] : \A s \in upTo(n) : g[s] = step(g, s)
           bad == {n \in Nat : ~ good(n)}
<1>1. \A s : s # {} => Pick(s) \in s
  BY DEF Pick
<1>2. \A s \in SUBSET S : IsFiniteSet(s) /\ Cardinality(s) \in Nat /\ (Cardinality(s) = 0 <=> s = {})
  BY FS_Subset, FS_CardinalityType, FS_EmptySet
<1>3. ASSUME NEW s \in SUBSET S, s # {}
      PROVE  s \ {Pick(s)} \in SUBSET S /\ Cardinality(s \ {Pick(s)}) = Cardinality(s) - 1
  BY <1>1, <1>2, <1>3, FS_RemoveElement
<1>4. good(0)
  <2>1. upTo(0) = {{}}
    BY <1>2, FS_EmptySet
  <2> DEFINE g == [s \in upTo(0) |-> 0]
  <2>2. g \in [upTo(0) -> Int] /\ \A s \in upTo(0) : g[s] = step(g, s)
    BY <2>1
  <2> QED
    BY <2>2
<1>5. ASSUME NEW n \in Nat, good(n) PROVE good(n + 1)
  <2>1. PICK g \in [upTo(n) -> Int] : \A s \in upTo(n) : g[s] = step(g, s)
    BY <1>5
  <2> DEFINE h == [s \in upTo(n + 1) |-> step(g, s)]
  <2>2. ASSUME NEW s \in upTo(n + 1), s # {} PROVE s \ {Pick(s)} \in upTo(n) /\ s \ {Pick(s)} \in upTo(n + 1)
    BY <1>2, <1>3, <2>2
  <2>3. ASSUME NEW s \in upTo(n + 1) PROVE step(g, s) \in Int
    BY <1>1, <2>1, <2>2, <2>3
  <2>4. h \in [upTo(n + 1) -> Int]
    BY <2>3
  <2>5. ASSUME NEW s \in upTo(n + 1) PROVE h[s] = step(h, s)
    <3>1. CASE s = {}
      BY <3>1
    <3>2. CASE s # {}
      <4>1. h[s \ {Pick(s)}] = g[s \ {Pick(s)}]
        BY <2>1, <2>2, <3>2
      <4>2. h[s] = f[Pick(s)] + g[s \ {Pick(s)}]
        BY <3>2
      <4> QED
        BY <3>2, <4>1, <4>2
    <3> QED
      BY <3>1, <3>2
  <2> QED
    BY <2>4, <2>5
<1> HIDE DEF good
<1>6. bad = {}
  <2> SUFFICES ASSUME bad # {} PROVE FALSE
    OBVIOUS
  <2>1. PICK m \in bad : \A n \in bad : m <= n
    BY LeastElement
  <2>2. m # 0
    BY <1>4, <2>1
  <2>3. m - 1 \in Nat /\ m - 1 \notin bad
    BY <2>1, <2>2
  <2>4. good(m - 1)
    BY <2>3
  <2>5. good(m - 1 + 1)
    BY <1>5, <2>3, <2>4
  <2> QED
    BY <2>1, <2>5
<1>7. good(Cardinality(S))
  BY <1>2, <1>6
<1>8. upTo(Cardinality(S)) = SUBSET S
  BY FS_Subset
<1>9. PICK g \in [SUBSET S -> Int] : \A s \in SUBSET S : g[s] = step(g, s)
  BY <1>7, <1>8 DEF good
<1>10. g = SumRule(g, f, S)
  BY <1>9 DEF SumRule
<1>11. Summing(f, S) = SumRule(Summing(f, S), f, S)
  BY <1>10 DEF Summing
<1>12. \A T \in SUBSET S : Summing(f, S)[T] = g[T]
  BY <1>10, <1>11, SumIsUnique
<1> QED
  BY <1>9, <1>11, <1>12

\* The sum is what that function gives for the whole set.
LEMMA SumIsIterated ==
  ASSUME NEW S, NEW f
  PROVE  SumFunctionOnSet(f, S) = Summing(f, S)[S]
BY DEF SumFunctionOnSet, FoldFunctionOnSet, MapThenFoldSet, Summing, SumRule, Pick

\* One step of the fold; a sum of integers is an integer.
LEMMA SumPick ==
  ASSUME NEW S, IsFiniteSet(S), NEW f, \A x \in S : f[x] \in Int
  PROVE  /\ SumFunctionOnSet(f, S) \in Int
         /\ S = {} => SumFunctionOnSet(f, S) = 0
         /\ S # {} => Pick(S) \in S /\ SumFunctionOnSet(f, S) = f[Pick(S)] + SumFunctionOnSet(f, S \ {Pick(S)})
<1> DEFINE g == Summing(f, S)
<1>1. g = SumRule(g, f, S) /\ \A T \in SUBSET S : g[T] \in Int
  BY SumExists
<1>2. \A s \in SUBSET S : g[s] = IF s = {} THEN 0 ELSE f[Pick(s)] + g[s \ {Pick(s)}]
  BY <1>1 DEF SumRule
<1>3. ASSUME NEW T \in SUBSET S PROVE SumFunctionOnSet(f, T) = g[T]
  <2> DEFINE h == [s \in SUBSET T |-> g[s]]
  <2>1. h = SumRule(h, f, T)
    <3>1. \A s \in SUBSET T : h[s] = IF s = {} THEN 0 ELSE f[Pick(s)] + h[s \ {Pick(s)}]
      BY <1>2
    <3>2. h = [s \in SUBSET T |-> h[s]]
      OBVIOUS
    <3> HIDE DEF h
    <3> QED
      BY <3>1, <3>2 DEF SumRule
  <2>2. IsFiniteSet(T) /\ \A x \in T : f[x] \in Int
    BY FS_Subset
  <2>3. Summing(f, T) = SumRule(Summing(f, T), f, T)
    BY <2>2, SumExists
  <2> HIDE DEF h
  <2>4. Summing(f, T)[T] = h[T]
    BY <2>1, <2>2, <2>3, SumIsUnique
  <2> QED
    BY <2>4, SumIsIterated DEF h
<1> HIDE DEF g
<1>4. S # {} => Pick(S) \in S
  BY DEF Pick
<1>5. S \in SUBSET S /\ S \ {Pick(S)} \in SUBSET S
  OBVIOUS
<1> QED
  BY <1>1, <1>2, <1>3, <1>4, <1>5

\* The sum of a set, by any one of its elements and the others.
LEMMA SumPull ==
  ASSUME NEW S, IsFiniteSet(S), NEW f, \A x \in S : f[x] \in Int, NEW x \in S
  PROVE  SumFunctionOnSet(f, S) = f[x] + SumFunctionOnSet(f, S \ {x})
<1> DEFINE P == {T \in SUBSET S : \A y \in T : SumFunctionOnSet(f, T) = f[y] + SumFunctionOnSet(f, T \ {y})}
<1>1. ASSUME NEW T \in SUBSET S, \A U \in SUBSET T : U # T => U \in P PROVE T \in P
  <2> SUFFICES ASSUME NEW y \in T PROVE SumFunctionOnSet(f, T) = f[y] + SumFunctionOnSet(f, T \ {y})
    OBVIOUS
  <2> DEFINE p == Pick(T)
  <2>1. \A U \in SUBSET S : IsFiniteSet(U) /\ (\A z \in U : f[z] \in Int)
    BY FS_Subset
  <2>2. p \in T /\ SumFunctionOnSet(f, T) = f[p] + SumFunctionOnSet(f, T \ {p})
    BY <2>1, SumPick
  <2>3. CASE y = p
    BY <2>2, <2>3
  <2>4. CASE y # p
    <3>1. T \ {p} \in P /\ y \in T \ {p} /\ T \ {y} \in P /\ p \in T \ {y}
      BY <1>1, <2>2, <2>4
    <3>2. SumFunctionOnSet(f, T \ {p}) = f[y] + SumFunctionOnSet(f, (T \ {p}) \ {y}) /\ SumFunctionOnSet(f, T \ {y}) = f[p] + SumFunctionOnSet(f, (T \ {y}) \ {p})
      BY <3>1
    <3>3. (T \ {p}) \ {y} = (T \ {y}) \ {p}
      OBVIOUS
    <3>4. SumFunctionOnSet(f, (T \ {y}) \ {p}) \in Int
      <4>1. (T \ {y}) \ {p} \in SUBSET S
        OBVIOUS
      <4> QED
        BY <2>1, <4>1, SumPick
    <3>5. f[y] \in Int /\ f[p] \in Int
      BY <2>2
    <3>6. \A a, b, c \in Int : a + (b + c) = b + (a + c)
      OBVIOUS
    <3>7. SumFunctionOnSet(f, T) = f[p] + (f[y] + SumFunctionOnSet(f, (T \ {y}) \ {p}))
      BY <2>2, <3>2, <3>3
    <3> HIDE DEF p
    <3> QED
      BY <3>2, <3>4, <3>5, <3>6, <3>7
  <2> QED
    BY <2>3, <2>4
<1> HIDE DEF P
<1>2. S \in P
  BY <1>1, StrongInduction
<1> QED
  BY <1>2 DEF P

\* Induction, one element at a time.
LEMMA SetInduction ==
  ASSUME NEW S, IsFiniteSet(S), NEW P, {} \in P,
         \A T \in SUBSET S : \A x \in T : T \ {x} \in P => T \in P
  PROVE  S \in P
<1>1. ASSUME NEW T \in SUBSET S, \A U \in SUBSET T : U # T => U \in P PROVE T \in P
  <2>1. CASE T = {}
    BY <2>1
  <2>2. CASE T # {}
    <3>1. PICK x \in T : TRUE
      BY <2>2
    <3>2. T \ {x} \in P
      BY <1>1, <3>1
    <3> QED
      BY <3>1, <3>2
  <2> QED
    BY <2>1, <2>2
<1> QED
  BY <1>1, StrongInduction

\* Sums are told apart by their terms, and add up.
LEMMA SumSame ==
  ASSUME NEW S, IsFiniteSet(S), NEW f, NEW g, \A x \in S : f[x] \in Int /\ g[x] = f[x]
  PROVE  SumFunctionOnSet(g, S) = SumFunctionOnSet(f, S)
<1> DEFINE P == {T \in SUBSET S : SumFunctionOnSet(g, T) = SumFunctionOnSet(f, T)}
<1>1. \A T \in SUBSET S : IsFiniteSet(T) /\ \A x \in T : f[x] \in Int /\ g[x] \in Int
  BY FS_Subset
<1>2. {} \in P
  BY <1>1, SumPick
<1>3. ASSUME NEW T \in SUBSET S, NEW x \in T, T \ {x} \in P PROVE T \in P
  <2>1. SumFunctionOnSet(f, T) = f[x] + SumFunctionOnSet(f, T \ {x}) /\ SumFunctionOnSet(g, T) = g[x] + SumFunctionOnSet(g, T \ {x})
    BY <1>1, SumPull
  <2> QED
    BY <1>3, <2>1
<1> HIDE DEF P
<1>4. S \in P
  BY <1>2, <1>3, SetInduction
<1> QED
  BY <1>4 DEF P

\* Sums are added term by term.
LEMMA SumAdds ==
  ASSUME NEW S, IsFiniteSet(S), NEW f, NEW g, NEW h,
         \A x \in S : f[x] \in Int /\ g[x] \in Int /\ h[x] = f[x] + g[x]
  PROVE  SumFunctionOnSet(h, S) = SumFunctionOnSet(f, S) + SumFunctionOnSet(g, S)
<1> DEFINE P == {T \in SUBSET S : SumFunctionOnSet(h, T) = SumFunctionOnSet(f, T) + SumFunctionOnSet(g, T)}
<1>1. \A T \in SUBSET S : IsFiniteSet(T) /\ \A x \in T : f[x] \in Int /\ g[x] \in Int /\ h[x] \in Int
  BY FS_Subset
<1>2. {} \in P
  <2>1. {} \in SUBSET S /\ SumFunctionOnSet(f, {}) = 0 /\ SumFunctionOnSet(g, {}) = 0 /\ SumFunctionOnSet(h, {}) = 0
    BY <1>1, SumPick
  <2> QED
    BY <2>1
<1>3. ASSUME NEW T \in SUBSET S, NEW x \in T, T \ {x} \in P PROVE T \in P
  <2>1. /\ SumFunctionOnSet(f, T) = f[x] + SumFunctionOnSet(f, T \ {x}) /\ SumFunctionOnSet(g, T) = g[x] + SumFunctionOnSet(g, T \ {x})
        /\ SumFunctionOnSet(h, T) = h[x] + SumFunctionOnSet(h, T \ {x})
    BY <1>1, SumPull
  <2>2. SumFunctionOnSet(f, T \ {x}) \in Int /\ SumFunctionOnSet(g, T \ {x}) \in Int
    <3>1. T \ {x} \in SUBSET S
      OBVIOUS
    <3> QED
      BY <1>1, <3>1, SumPick
  <2>3. f[x] \in Int /\ g[x] \in Int /\ h[x] = f[x] + g[x] /\ SumFunctionOnSet(h, T \ {x}) = SumFunctionOnSet(f, T \ {x}) + SumFunctionOnSet(g, T \ {x})
    BY <1>3
  <2> QED
    BY <2>1, <2>2, <2>3
<1> HIDE DEF P
<1>4. S \in P
  BY <1>2, <1>3, SetInduction
<1> QED
  BY <1>4 DEF P

\* A sum over a part is the sum over the whole with the other terms left out.
LEMMA SumPart ==
  ASSUME NEW S, IsFiniteSet(S), NEW A \in SUBSET S, NEW f, NEW g,
         \A x \in S : f[x] \in Int /\ g[x] = IF x \in A THEN f[x] ELSE 0
  PROVE  SumFunctionOnSet(g, S) = SumFunctionOnSet(f, A)
<1> DEFINE P == {T \in SUBSET S : SumFunctionOnSet(g, T) = SumFunctionOnSet(f, A \cap T)}
<1>1. \A T \in SUBSET S : IsFiniteSet(T) /\ \A x \in T : f[x] \in Int /\ g[x] \in Int
  BY FS_Subset
<1>2. {} \in P
  <2>1. A \cap {} = {} /\ {} \in SUBSET S
    OBVIOUS
  <2> QED
    BY <1>1, <2>1, SumPick
<1>3. ASSUME NEW T \in SUBSET S, NEW x \in T, T \ {x} \in P PROVE T \in P
  <2>1. SumFunctionOnSet(g, T) = g[x] + SumFunctionOnSet(g, T \ {x}) /\ SumFunctionOnSet(g, T \ {x}) = SumFunctionOnSet(f, A \cap (T \ {x}))
    BY <1>1, <1>3, SumPull
  <2>2. CASE x \in A
    <3>1. A \cap T \in SUBSET S /\ x \in A \cap T /\ (A \cap T) \ {x} = A \cap (T \ {x})
      BY <2>2
    <3>2. IsFiniteSet(A \cap T) /\ \A y \in A \cap T : f[y] \in Int
      BY <1>1, <3>1
    <3>3. SumFunctionOnSet(f, A \cap T) = f[x] + SumFunctionOnSet(f, A \cap (T \ {x}))
      BY <3>1, <3>2, SumPull
    <3> QED
      BY <2>1, <2>2, <3>3
  <2>3. CASE x \notin A
    <3>1. A \cap T = A \cap (T \ {x}) /\ A \cap T \in SUBSET S
      BY <2>3
    <3>2. SumFunctionOnSet(f, A \cap T) \in Int
      BY <1>1, <3>1, SumPick
    <3> QED
      BY <2>1, <2>3, <3>1, <3>2
  <2> QED
    BY <2>2, <2>3
<1> HIDE DEF P
<1>4. S \in P
  BY <1>2, <1>3, SetInduction
<1>5. A \cap S = A
  OBVIOUS
<1> QED
  BY <1>4, <1>5 DEF P

\* No term is more than a sum of naturals.
LEMMA SumOfNaturals ==
  ASSUME NEW S, IsFiniteSet(S), NEW f, \A x \in S : f[x] \in Nat
  PROVE  SumFunctionOnSet(f, S) \in Nat /\ \A x \in S : f[x] <= SumFunctionOnSet(f, S)
<1> DEFINE P == {T \in SUBSET S : SumFunctionOnSet(f, T) \in Nat}
<1>1. \A T \in SUBSET S : IsFiniteSet(T) /\ \A x \in T : f[x] \in Int
  BY FS_Subset
<1>2. {} \in P
  <2>1. {} \in SUBSET S /\ SumFunctionOnSet(f, {}) = 0
    BY <1>1, SumPick
  <2> QED
    BY <2>1
<1>3. ASSUME NEW T \in SUBSET S, NEW x \in T, T \ {x} \in P PROVE T \in P
  <2>1. SumFunctionOnSet(f, T) = f[x] + SumFunctionOnSet(f, T \ {x})
    BY <1>1, SumPull
  <2> QED
    BY <1>3, <2>1
<1> HIDE DEF P
<1>4. ASSUME NEW T \in SUBSET S PROVE T \in P
  <2>1. IsFiniteSet(T) /\ \A V \in SUBSET T : \A x \in V : V \ {x} \in P => V \in P
    BY <1>1, <1>3
  <2> QED
    BY <1>2, <2>1, SetInduction
<1>5. ASSUME NEW x \in S PROVE f[x] <= SumFunctionOnSet(f, S)
  <2>1. SumFunctionOnSet(f, S) = f[x] + SumFunctionOnSet(f, S \ {x})
    BY <1>1, SumPull
  <2>2. SumFunctionOnSet(f, S \ {x}) \in Nat
    BY <1>4 DEF P
  <2> QED
    BY <2>1, <2>2
<1> QED
  BY <1>4, <1>5 DEF P

\* A sum with one term that counts is that term.
LEMMA SumSingle ==
  ASSUME NEW S, IsFiniteSet(S), NEW a \in S, NEW f, f[a] \in Int, \A x \in S : x # a => f[x] = 0
  PROVE  SumFunctionOnSet(f, S) = f[a]
<1>1. {a} \in SUBSET S /\ a \in {a} /\ {a} \ {a} = {}
  OBVIOUS
<1>2. \A x \in S : f[x] \in Int /\ f[x] = IF x \in {a} THEN f[x] ELSE 0
  OBVIOUS
<1>3. SumFunctionOnSet(f, S) = SumFunctionOnSet(f, {a})
  BY <1>1, <1>2, SumPart
<1>4. SumFunctionOnSet(f, {a}) = f[a] + SumFunctionOnSet(f, {})
  <2>1. IsFiniteSet({a}) /\ \A x \in {a} : f[x] \in Int
    BY FS_Singleton
  <2> QED
    BY <1>1, <2>1, SumPull
<1>5. SumFunctionOnSet(f, {}) = 0
  BY FS_EmptySet, SumPick
<1> QED
  BY <1>3, <1>4, <1>5

\* A sum of zeros is zero.
LEMMA SumZero ==
  ASSUME NEW S, IsFiniteSet(S), NEW f, \A x \in S : f[x] = 0
  PROVE  SumFunctionOnSet(f, S) = 0
<1>1. {} \in SUBSET S /\ \A x \in S : f[x] \in Int /\ f[x] = IF x \in {} THEN f[x] ELSE 0
  OBVIOUS
<1>2. SumFunctionOnSet(f, S) = SumFunctionOnSet(f, {})
  BY <1>1, SumPart
<1> QED
  BY <1>2, FS_EmptySet, SumPick

\* Smaller terms give a smaller sum.
LEMMA SumOfLess ==
  ASSUME NEW S, IsFiniteSet(S), NEW f, NEW g, \A x \in S : f[x] \in Int /\ g[x] \in Int /\ f[x] <= g[x]
  PROVE  SumFunctionOnSet(f, S) <= SumFunctionOnSet(g, S)
<1> DEFINE d == [x \in S |-> g[x] - f[x]]
<1>1. \A x \in S : d[x] \in Nat /\ f[x] \in Int /\ d[x] \in Int /\ g[x] = f[x] + d[x]
  OBVIOUS
<1> HIDE DEF d
<1>2. SumFunctionOnSet(g, S) = SumFunctionOnSet(f, S) + SumFunctionOnSet(d, S)
  BY <1>1, SumAdds
<1>3. SumFunctionOnSet(d, S) \in Nat /\ SumFunctionOnSet(f, S) \in Int
  BY <1>1, SumOfNaturals, SumPick
<1> QED
  BY <1>2, <1>3

\* The sum of two sets that share nothing.
LEMMA SumUnion ==
  ASSUME NEW A, IsFiniteSet(A), NEW B, IsFiniteSet(B), A \cap B = {}, NEW f, \A x \in A \cup B : f[x] \in Int
  PROVE  SumFunctionOnSet(f, A \cup B) = SumFunctionOnSet(f, A) + SumFunctionOnSet(f, B)
<1> DEFINE S == A \cup B
           g == [x \in S |-> IF x \in A THEN f[x] ELSE 0]
           h == [x \in S |-> IF x \in B THEN f[x] ELSE 0]
<1>1. IsFiniteSet(S) /\ A \in SUBSET S /\ B \in SUBSET S /\ \A x \in S : f[x] \in Int
  BY FS_Union
<1>2. \A x \in S : /\ g[x] = (IF x \in A THEN f[x] ELSE 0) /\ h[x] = (IF x \in B THEN f[x] ELSE 0)
                   /\ g[x] \in Int /\ h[x] \in Int /\ f[x] = g[x] + h[x]
  OBVIOUS
<1> HIDE DEF g, h, S
<1>3. SumFunctionOnSet(g, S) = SumFunctionOnSet(f, A)
  BY <1>1, <1>2, SumPart
<1>4. SumFunctionOnSet(h, S) = SumFunctionOnSet(f, B)
  BY <1>1, <1>2, SumPart
<1>5. SumFunctionOnSet(f, S) = SumFunctionOnSet(g, S) + SumFunctionOnSet(h, S)
  BY <1>1, <1>2, SumAdds
<1> QED
  BY <1>3, <1>4, <1>5 DEF S

\* Sums over sets that share nothing add up to the sum over what they make up.
LEMMA SumOfParts ==
  ASSUME NEW I, IsFiniteSet(I), NEW f, \A i \in I : f[i] \in Int, NEW D, IsFiniteSet(D),
         NEW part, \A d \in D : part[d] \in SUBSET I, \A d, e \in D : d # e => part[d] \cap part[e] = {},
         NEW U \in SUBSET I, \A i \in I : i \in U <=> \E d \in D : i \in part[d],
         NEW g, \A d \in D : g[d] = SumFunctionOnSet(f, part[d])
  PROVE  SumFunctionOnSet(g, D) = SumFunctionOnSet(f, U)
<1> DEFINE of(T) == {i \in I : \E d \in T : i \in part[d]}
           P == {T \in SUBSET D : SumFunctionOnSet(g, T) = SumFunctionOnSet(f, of(T))}
<1>1. \A A \in SUBSET I : IsFiniteSet(A) /\ \A i \in A : f[i] \in Int
  BY FS_Subset
<1>2. \A d \in D : g[d] \in Int
  <2> TAKE d \in D
  <2>1. IsFiniteSet(part[d]) /\ \A i \in part[d] : f[i] \in Int
    BY <1>1
  <2>2. SumFunctionOnSet(f, part[d]) \in Int
    BY <2>1, SumPick
  <2> QED
    BY <2>2
<1>3. \A T \in SUBSET D : IsFiniteSet(T) /\ \A d \in T : g[d] \in Int
  BY <1>2, FS_Subset
<1>4. {} \in P
  <2>1. of({}) = {} /\ {} \in SUBSET I /\ {} \in SUBSET D
    OBVIOUS
  <2>2. SumFunctionOnSet(f, {}) = 0 /\ SumFunctionOnSet(g, {}) = 0
    BY <1>1, <1>3, <2>1, SumPick
  <2> QED
    BY <2>1, <2>2
<1>5. ASSUME NEW T \in SUBSET D, NEW x \in T, T \ {x} \in P PROVE T \in P
  <2> DEFINE A == part[x]
             B == of(T \ {x})
  <2>1. SumFunctionOnSet(g, T) = g[x] + SumFunctionOnSet(g, T \ {x})
    BY <1>3, SumPull, ZenonT(60)
  <2>2. g[x] = SumFunctionOnSet(f, A) /\ SumFunctionOnSet(g, T \ {x}) = SumFunctionOnSet(f, B)
    BY <1>5
  <2>3. A \in SUBSET I /\ B \in SUBSET I
    OBVIOUS
  <2>4. A \cap B = {}
    OBVIOUS
  <2>5. A \cup B = of(T)
    BY <2>3
  <2> HIDE DEF A, B
  <2>6. IsFiniteSet(A) /\ IsFiniteSet(B) /\ \A i \in A \cup B : f[i] \in Int
    BY <1>1, <2>3
  <2>7. SumFunctionOnSet(f, A \cup B) = SumFunctionOnSet(f, A) + SumFunctionOnSet(f, B)
    BY <2>4, <2>6, SumUnion
  <2> QED
    BY <2>1, <2>2, <2>5, <2>7
<1>6. of(D) = U
  OBVIOUS
<1> HIDE DEF P
<1>7. D \in P
  BY <1>4, <1>5, SetInduction
<1> QED
  BY <1>6, <1>7 DEF P

\* One term of a sum changes.
LEMMA OneTermChanges ==
  ASSUME NEW S, IsFiniteSet(S), NEW x \in S, NEW f, NEW g,
         \A y \in S : f[y] \in Int /\ g[y] \in Int /\ (y # x => g[y] = f[y])
  PROVE  SumFunctionOnSet(g, S) = SumFunctionOnSet(f, S) + (g[x] - f[x])
<1> DEFINE R == S \ {x}
<1>1. IsFiniteSet(R) /\ \A y \in R : f[y] \in Int /\ g[y] = f[y]
  BY FS_Subset
<1>2. SumFunctionOnSet(f, S) = f[x] + SumFunctionOnSet(f, R) /\ SumFunctionOnSet(g, S) = g[x] + SumFunctionOnSet(g, R)
  BY SumPull
<1>3. SumFunctionOnSet(g, R) = SumFunctionOnSet(f, R) /\ SumFunctionOnSet(f, R) \in Int
  BY <1>1, SumSame, SumPick
<1> QED
  BY <1>2, <1>3

\* The opposite terms give the opposite sum.
LEMMA SumNegates ==
  ASSUME NEW S, IsFiniteSet(S), NEW f, NEW g, \A x \in S : f[x] \in Int /\ g[x] = -f[x]
  PROVE  SumFunctionOnSet(g, S) = -SumFunctionOnSet(f, S)
<1> DEFINE z == [x \in S |-> 0]
<1>1. \A x \in S : f[x] \in Int /\ g[x] \in Int /\ z[x] = f[x] + g[x] /\ z[x] = 0
  OBVIOUS
<1> HIDE DEF z
<1>2. SumFunctionOnSet(z, S) = SumFunctionOnSet(f, S) + SumFunctionOnSet(g, S) /\ SumFunctionOnSet(z, S) = 0
  BY <1>1, SumAdds, SumZero
<1>3. SumFunctionOnSet(f, S) \in Int /\ SumFunctionOnSet(g, S) \in Int
  BY <1>1, SumPick
<1> QED
  BY <1>2, <1>3

\* The table m of I and J, with the sums g of its rows; w is the same table the other
\* way round, with the sums h of its columns.
Table(I, J, m, g, w, h) ==
    /\ IsFiniteSet(I) /\ IsFiniteSet(J)
    /\ \A i \in I, j \in J : m[i][j] \in Int /\ w[j][i] = m[i][j]
    /\ \A i \in I : g[i] = SumFunctionOnSet(m[i], J)
    /\ \A j \in J : h[j] = SumFunctionOnSet(w[j], I)

\* A table adds up by its rows as by its columns.
LEMMA SumSwap ==
  ASSUME NEW I, NEW J, NEW m, NEW g, NEW w, NEW h, Table(I, J, m, g, w, h)
  PROVE  SumFunctionOnSet(g, I) = SumFunctionOnSet(h, J)
<1> USE DEF Table
<1> DEFINE col(j) == [i \in I |-> m[i][j]]
           low(T) == [j \in J |-> SumFunctionOnSet(col(j), T)]
           P == {T \in SUBSET I : SumFunctionOnSet(g, T) = SumFunctionOnSet(low(T), J)}
<1>1. \A i \in I : g[i] \in Int
  <2> TAKE i \in I
  <2> QED
    BY SumPick
<1>2. ASSUME NEW T \in SUBSET I PROVE /\ IsFiniteSet(T) /\ \A i \in T : g[i] \in Int
                                      /\ \A j \in J : (\A i \in T : col(j)[i] \in Int) /\ SumFunctionOnSet(col(j), T) \in Int
  <2>1. IsFiniteSet(T) /\ \A i \in T : g[i] \in Int
    BY <1>1, FS_Subset
  <2>2. ASSUME NEW j \in J PROVE \A i \in T : col(j)[i] \in Int
    OBVIOUS
  <2> HIDE DEF col
  <2>3. ASSUME NEW j \in J PROVE SumFunctionOnSet(col(j), T) \in Int
    BY <2>1, <2>2, SumPick
  <2> QED
    BY <2>1, <2>2, <2>3
<1>3. {} \in P
  <2>1. ASSUME NEW j \in J PROVE low({})[j] = 0
    <3> HIDE DEF col
    <3>1. SumFunctionOnSet(col(j), {}) = 0
      BY FS_EmptySet, SumPick
    <3> QED
      BY <3>1
  <2> HIDE DEF low
  <2>2. SumFunctionOnSet(low({}), J) = 0
    BY <2>1, SumZero
  <2>3. SumFunctionOnSet(g, {}) = 0
    BY FS_EmptySet, SumPick
  <2> QED
    BY <2>2, <2>3
<1>4. ASSUME NEW T \in SUBSET I, NEW x \in T, T \ {x} \in P PROVE T \in P
  <2> DEFINE R == T \ {x}
  <2>1. R \in SUBSET I /\ x \in I
    OBVIOUS
  <2>2. SumFunctionOnSet(g, T) = g[x] + SumFunctionOnSet(g, R)
    BY <1>2, SumPull
  <2>3. ASSUME NEW j \in J
        PROVE  low(T)[j] = m[x][j] + low(R)[j] /\ low(R)[j] \in Int /\ m[x][j] \in Int
    <3>1. col(j)[x] = m[x][j]
      BY <2>1
    <3>2. low(T)[j] = SumFunctionOnSet(col(j), T) /\ low(R)[j] = SumFunctionOnSet(col(j), R)
      OBVIOUS
    <3> HIDE DEF col, low, R
    <3>3. SumFunctionOnSet(col(j), T) = col(j)[x] + SumFunctionOnSet(col(j), R)
      BY <1>2, SumPull DEF R
    <3>4. SumFunctionOnSet(col(j), R) \in Int
      BY <1>2, <2>1
    <3> QED
      BY <2>1, <3>1, <3>2, <3>3, <3>4
  <2> HIDE DEF low, R
  <2>4. SumFunctionOnSet(low(T), J) = SumFunctionOnSet(m[x], J) + SumFunctionOnSet(low(R), J)
    BY <2>3, SumAdds
  <2>5. SumFunctionOnSet(g, R) = SumFunctionOnSet(low(R), J)
    BY <1>4 DEF R
  <2>6. g[x] = SumFunctionOnSet(m[x], J)
    BY <2>1
  <2> QED
    BY <2>2, <2>4, <2>5, <2>6
<1>5. I \in P
  <2> HIDE DEF P
  <2> QED
    BY <1>3, <1>4, SetInduction
<1>6. SumFunctionOnSet(g, I) = SumFunctionOnSet(low(I), J)
  BY <1>5
<1>7. \A j \in J : low(I)[j] \in Int /\ h[j] = low(I)[j]
  <2>1. ASSUME NEW j \in J PROVE low(I)[j] = SumFunctionOnSet(col(j), I) /\ h[j] = SumFunctionOnSet(col(j), I)
    <3> DEFINE c == col(j)
               d == w[j]
    <3>1. low(I)[j] = SumFunctionOnSet(c, I) /\ h[j] = SumFunctionOnSet(d, I)
      OBVIOUS
    <3>2. \A i \in I : c[i] \in Int /\ d[i] = c[i]
      OBVIOUS
    <3> HIDE DEF c, d, col, low
    <3>3. SumFunctionOnSet(d, I) = SumFunctionOnSet(c, I)
      BY <3>2, SumSame
    <3> QED
      BY <3>1, <3>3 DEF c
  <2> HIDE DEF low, col
  <2> QED
    BY <1>2, <2>1
<1> HIDE DEF low
<1> QED
  BY <1>6, <1>7, SumSame

\* The sum of one term.
LEMMA SumOfOne ==
  ASSUME NEW a, NEW f, f[a] \in Int
  PROVE  SumFunctionOnSet(f, {a}) = f[a]
<1>1. IsFiniteSet({a}) /\ \A x \in {a} : f[x] \in Int
  BY FS_Singleton
<1>2. SumFunctionOnSet(f, {a}) = f[a] + SumFunctionOnSet(f, {a} \ {a})
  BY <1>1, SumPull
<1>3. {a} \ {a} = {} /\ SumFunctionOnSet(f, {}) = 0
  BY FS_EmptySet, SumPick
<1> QED
  BY <1>2, <1>3

\* A sum may be taken in any enumeration of its set.
LEMMA SumRenamed ==
  ASSUME NEW I, IsFiniteSet(I), NEW f, \A i \in I : f[i] \in Int, NEW D, IsFiniteSet(D),
         NEW r, \A d \in D : r[d] \in I, \A d, e \in D : d # e => r[d] # r[e],
         NEW g, \A d \in D : g[d] = f[r[d]]
  PROVE  SumFunctionOnSet(g, D) = SumFunctionOnSet(f, {r[d] : d \in D})
<1> DEFINE part == [d \in D |-> {r[d]}]
           U == {r[d] : d \in D}
<1>1. /\ \A d \in D : part[d] \in SUBSET I /\ r[d] \in part[d] /\ part[d] = {r[d]}
      /\ \A d, e \in D : d # e => part[d] \cap part[e] = {}
      /\ U \in SUBSET I /\ \A i \in I : i \in U <=> \E d \in D : i \in part[d]
  OBVIOUS
<1>2. ASSUME NEW d \in D PROVE g[d] = SumFunctionOnSet(f, part[d])
  <2>1. r[d] \in I /\ f[r[d]] \in Int
    OBVIOUS
  <2>2. SumFunctionOnSet(f, {r[d]}) = f[r[d]]
    BY <2>1, SumOfOne
  <2> QED
    BY <1>1, <2>2
<1> HIDE DEF part, U
<1>3. SumFunctionOnSet(g, D) = SumFunctionOnSet(f, U)
  BY <1>1, <1>2, SumOfParts
<1> QED
  BY <1>3 DEF U

\* Some of the terms of a sum, each taken once, add up to no more.
LEMMA SumOfChosen ==
  ASSUME NEW D, IsFiniteSet(D), NEW f, \A k \in D : f[k] \in Nat, NEW N, IsFiniteSet(N),
         NEW q, \A n \in N : q[n] \in D, \A m, n \in N : m # n => q[m] # q[n],
         NEW g, \A n \in N : g[n] = f[q[n]]
  PROVE  SumFunctionOnSet(g, N) <= SumFunctionOnSet(f, D)
<1> DEFINE U == {q[n] : n \in N}
           h == [k \in D |-> IF k \in U THEN f[k] ELSE 0]
<1>1. \A k \in D : f[k] \in Int
  OBVIOUS
<1>2. SumFunctionOnSet(g, N) = SumFunctionOnSet(f, U)
  BY <1>1, SumRenamed
<1>3. U \in SUBSET D
  OBVIOUS
<1>4. \A k \in D : h[k] = (IF k \in U THEN f[k] ELSE 0)
  OBVIOUS
<1> HIDE DEF h, U
<1>5. \A k \in D : f[k] \in Int /\ h[k] \in Int /\ h[k] <= f[k]
  BY <1>4
<1>6. SumFunctionOnSet(h, D) = SumFunctionOnSet(f, U)
  BY <1>1, <1>3, <1>4, SumPart
<1>7. SumFunctionOnSet(h, D) <= SumFunctionOnSet(f, D)
  BY <1>5, SumOfLess
<1> QED
  BY <1>2, <1>6, <1>7

\* Some of the terms of a sum of naturals add up to no more than all of them.
LEMMA SumOfSome ==
  ASSUME NEW S, IsFiniteSet(S), NEW f, \A x \in S : f[x] \in Nat, NEW A \in SUBSET S
  PROVE  SumFunctionOnSet(f, A) <= SumFunctionOnSet(f, S)
<1> DEFINE h == [x \in S |-> IF x \in A THEN f[x] ELSE 0]
<1>1. \A x \in S : f[x] \in Int /\ h[x] \in Int /\ h[x] <= f[x] /\ h[x] = IF x \in A THEN f[x] ELSE 0
  OBVIOUS
<1> HIDE DEF h
<1>2. SumFunctionOnSet(h, S) = SumFunctionOnSet(f, A)
  BY <1>1, SumPart
<1>3. SumFunctionOnSet(h, S) <= SumFunctionOnSet(f, S)
  BY <1>1, SumOfLess
<1> QED
  BY <1>2, <1>3
=============================================================================
