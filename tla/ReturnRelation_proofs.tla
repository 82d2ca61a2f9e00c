------------------------- MODULE ReturnRelation_proofs -------------------------
(***************************************************************************)
(* That the relation never releases more than was locked, for any tokens,  *)
(* locks, mints, splits and burns, and that every token it rests on is     *)
(* certified by a quorum of keys; that the vault's root tells spent from   *)
(* unspent, that the service rebuilds it, that it selects greedily and     *)
(* that what it assembles is accepted.                                     *)
(*                                                                         *)
(* The invariant: what is released is burned for what it is worth and its  *)
(* line leads, over splits that hold, to a lock of the vault; Unicity's    *)
(* later steps cannot change that line, because a mint is for good and     *)
(* nothing happens to a burned token.  In any such state value is          *)
(* conserved, by induction on the generations: what is released among a    *)
(* token's heirs was allotted by the one split that burned it.             *)
(*                                                                         *)
(* LogIsAChain says that each settlement of the log continues the tree of  *)
(* all before it; the results on the root and the rebuild follow from it   *)
(* and the theorems of Accumulator_proofs.                                 *)
(*                                                                         *)
(* That an assembled batch is accepted rests on three more: that the wire  *)
(* reads back as it was written, whatever its words are; that every return *)
(* in the queue is one its lock owes (QueueOwed, an invariant of its own); *)
(* and that what is kept of it draws on different locks.                   *)
(***************************************************************************)
EXTENDS ReturnRelation, Accumulator_proofs, SequenceTheorems

(***************************************************************************)
(* Sums                                                                    *)
(***************************************************************************)
Pick(s) == CHOOSE x \in s : TRUE
SumStep(g, f, s) == IF s = {} THEN 0 ELSE f[Pick(s)] + g[s \ {Pick(s)}]
Solution(g, f, S) == g = [s \in SUBSET S |-> SumStep(g, f, s)]
UpTo(S, n) == {s \in SUBSET S : Cardinality(s) <= n}

(* The recursion of a sum has a solution on the subsets up to any size.    *)
LEMMA PartialSumExists ==
  ASSUME NEW f, NEW S, IsFiniteSet(S), NEW n \in Nat
  PROVE  \E g : g = [s \in UpTo(S, n) |-> SumStep(g, f, s)]
  <1> DEFINE Solves(g, k) == g = [s \in UpTo(S, k) |-> SumStep(g, f, s)]
             Bad == {k \in Nat : ~ \E g : Solves(g, k)}
  <1>1. SUFFICES ASSUME Bad # {} PROVE FALSE
    OBVIOUS
  <1>2. PICK k \in Bad : \A m \in Bad : k <= m
    <2>1. Bad \in SUBSET Nat
      OBVIOUS
    <2> HIDE DEF Bad
    <2>2. QED
      BY <1>1, <2>1, Least
  <1>3. \A s \in SUBSET S : IsFiniteSet(s) /\ Cardinality(s) \in Nat
    BY FS_Subset, FS_CardinalityType
  <1>4. \A s \in SUBSET S : s # {} => Cardinality(s \ {Pick(s)}) = Cardinality(s) - 1
    <2>1. \A s \in SUBSET S : s # {} => Pick(s) \in s
      BY DEF Pick
    <2>2. QED
      BY <1>3, <2>1, FS_RemoveElement
  <1>5. k # 0
    <2>1. SUFFICES ASSUME k = 0 PROVE FALSE
      OBVIOUS
    <2>2. \A s \in UpTo(S, 0) : s = {}
      BY <1>3, FS_EmptySet DEF UpTo
    <2>3. Solves([s \in UpTo(S, 0) |-> 0], 0)
      BY <2>2 DEF SumStep
    <2>4. QED
      BY <2>1, <2>3
  <1>6. PICK g : Solves(g, k - 1)
    <2>1. k - 1 \in Nat /\ ~ (k <= k - 1)
      BY <1>5
    <2>2. k - 1 \notin Bad
      BY <1>2, <2>1
    <2>3. QED
      BY <2>1, <2>2
  <1> DEFINE h == [s \in UpTo(S, k) |-> SumStep(g, f, s)]
  <1>7. \A s \in UpTo(S, k - 1) : s \in UpTo(S, k) /\ h[s] = g[s]
    <2>1. \A s \in UpTo(S, k - 1) : s \in UpTo(S, k)
      BY <1>3 DEF UpTo
    <2>2. \A s \in UpTo(S, k - 1) : g[s] = SumStep(g, f, s)
      BY <1>6
    <2>3. QED
      BY <2>1, <2>2
  <1>8. \A s \in UpTo(S, k) : SumStep(g, f, s) = SumStep(h, f, s)
    <2>1. TAKE s \in UpTo(S, k)
    <2>2. CASE s = {}
      BY <2>2 DEF SumStep
    <2>3. CASE s # {}
      <3>1. s \ {Pick(s)} \in UpTo(S, k - 1)
        BY <1>3, <1>4, <2>3 DEF UpTo
      <3>2. h[s \ {Pick(s)}] = g[s \ {Pick(s)}]
        BY <1>7, <3>1
      <3> HIDE DEF h
      <3>3. QED
        BY <3>2 DEF SumStep
    <2>4. QED
      BY <2>2, <2>3
  <1>9. Solves(h, k)
    BY <1>8
  <1>10. QED
    BY <1>9

(* So the sum over a finite set is the last value of a solution.           *)
LEMMA SumSolution ==
  ASSUME NEW f, NEW S, IsFiniteSet(S)
  PROVE  \E g : Solution(g, f, S) /\ SumFunctionOnSet(f, S) = g[S]
  <1>1. UpTo(S, Cardinality(S)) = SUBSET S
    BY FS_Subset, FS_CardinalityType DEF UpTo
  <1>2. \E g : g = [s \in SUBSET S |-> SumStep(g, f, s)]
    <2>1. Cardinality(S) \in Nat
      BY FS_CardinalityType
    <2>2. \E g : g = [s \in UpTo(S, Cardinality(S)) |-> SumStep(g, f, s)]
      BY <2>1, PartialSumExists
    <2>3. QED
      BY <1>1, <2>2
  <1> DEFINE iter == CHOOSE g : g = [s \in SUBSET S |-> SumStep(g, f, s)]
  <1>3. iter = [s \in SUBSET S |-> SumStep(iter, f, s)]
    BY <1>2
  <1>4. SumFunctionOnSet(f, S) = iter[S]
    BY DEF SumFunctionOnSet, FoldFunctionOnSet, MapThenFoldSet, SumStep, Pick
  <1> HIDE DEF iter
  <1>5. QED
    BY <1>3, <1>4 DEF Solution

(* Two solutions, for any two sets, agree where both are defined.          *)
LEMMA SumSolutionsAgree ==
  ASSUME NEW f, NEW S, NEW T, IsFiniteSet(S), NEW g, NEW h,
         Solution(g, f, S), Solution(h, f, T),
         NEW A \in SUBSET S, A \in SUBSET T
  PROVE  g[A] = h[A]
  <1> DEFINE Differs(s) == s \in SUBSET S /\ s \in SUBSET T /\ g[s] # h[s]
             Bad == {k \in Nat : \E s : Differs(s) /\ Cardinality(s) = k}
  <1>1. \A s \in SUBSET S : IsFiniteSet(s) /\ Cardinality(s) \in Nat
    BY FS_Subset, FS_CardinalityType
  <1>2. SUFFICES ASSUME Bad # {} PROVE FALSE
    BY <1>1
  <1>3. PICK k \in Bad : \A m \in Bad : k <= m
    <2>1. Bad \in SUBSET Nat
      OBVIOUS
    <2> HIDE DEF Bad
    <2>2. QED
      BY <1>2, <2>1, Least
  <1>4. PICK s : Differs(s) /\ Cardinality(s) = k
    BY <1>3
  <1>5. g[s] = SumStep(g, f, s) /\ h[s] = SumStep(h, f, s)
    BY <1>4 DEF Solution
  <1>6. s # {}
    BY <1>4, <1>5 DEF SumStep
  <1> DEFINE r == s \ {Pick(s)}
  <1>7. Pick(s) \in s
    BY <1>6 DEF Pick
  <1>8. Cardinality(r) = k - 1 /\ Cardinality(r) \in Nat
    BY <1>1, <1>4, <1>7, FS_RemoveElement
  <1>9. g[r] # h[r]
    BY <1>4, <1>5, <1>6 DEF SumStep
  <1>10. r \in SUBSET S /\ r \in SUBSET T
    BY <1>4
  <1>11. k - 1 \in Bad
    BY <1>8, <1>9, <1>10
  <1>12. k \in Nat
    BY <1>3
  <1>13. k <= k - 1
    BY <1>3, <1>11
  <1>14. QED
    BY <1>12, <1>13

(* Nothing adds up to zero.                                                *)
LEMMA SumEmpty ==
  ASSUME NEW f
  PROVE  SumFunctionOnSet(f, {}) = 0
  <1>1. IsFiniteSet({})
    BY FS_EmptySet
  <1>2. PICK g : Solution(g, f, {}) /\ SumFunctionOnSet(f, {}) = g[{}]
    BY <1>1, SumSolution
  <1>3. g[{}] = SumStep(g, f, {})
    BY <1>2 DEF Solution
  <1>4. QED
    BY <1>2, <1>3 DEF SumStep

(* The recursion of a sum, read off its definition.                        *)
LEMMA SumPick ==
  ASSUME NEW f, NEW S, IsFiniteSet(S), S # {}
  PROVE  /\ Pick(S) \in S
         /\ SumFunctionOnSet(f, S) = f[Pick(S)] + SumFunctionOnSet(f, S \ {Pick(S)})
  <1>1. Pick(S) \in S
    BY DEF Pick
  <1> DEFINE R == S \ {Pick(S)}
  <1>2. IsFiniteSet(R)
    BY FS_Subset
  <1>3. PICK g : Solution(g, f, S) /\ SumFunctionOnSet(f, S) = g[S]
    BY SumSolution
  <1>4. PICK h : Solution(h, f, R) /\ SumFunctionOnSet(f, R) = h[R]
    BY <1>2, SumSolution
  <1>5. R \in SUBSET S /\ R \in SUBSET R /\ S \in SUBSET S
    OBVIOUS
  <1> HIDE DEF R
  <1>6. g[R] = h[R]
    BY <1>3, <1>4, <1>5, SumSolutionsAgree
  <1>7. g[S] = SumStep(g, f, S)
    BY <1>3, <1>5 DEF Solution
  <1>8. g[S] = f[Pick(S)] + g[R]
    BY <1>7 DEF SumStep, R
  <1>9. QED
    BY <1>1, <1>3, <1>4, <1>6, <1>8 DEF R

(* A sum of naturals, in any order, is a natural, and taking an element    *)
(* out takes its value off.                                                *)
NatOn(f, S) == \A x \in S : f[x] \in Nat
SumLaws(f, S) ==
  /\ SumFunctionOnSet(f, S) \in Nat
  /\ \A x \in S : SumFunctionOnSet(f, S) = f[x] + SumFunctionOnSet(f, S \ {x})
LEMMA SumRemoves ==
  ASSUME NEW f, NEW T, IsFiniteSet(T), NatOn(f, T), NEW S \in SUBSET T
  PROVE  SumLaws(f, S)
  <1> DEFINE Bad == {k \in Nat : \E s \in SUBSET T : ~ SumLaws(f, s) /\ Cardinality(s) = k}
  <1>1. \A s \in SUBSET T : IsFiniteSet(s) /\ Cardinality(s) \in Nat
    BY FS_Subset, FS_CardinalityType
  <1>2. SUFFICES ASSUME Bad # {} PROVE FALSE
    <2>1. Cardinality(S) \in Nat
      BY <1>1
    <2>2. ~ SumLaws(f, S) => Cardinality(S) \in Bad
      BY <2>1
    <2>3. QED
      BY <2>2
  <1>3. PICK k \in Bad : \A m \in Bad : k <= m
    <2>1. Bad \in SUBSET Nat
      OBVIOUS
    <2> HIDE DEF Bad
    <2>2. QED
      BY <1>2, <2>1, Least
  <1>4. PICK s \in SUBSET T : ~ SumLaws(f, s) /\ Cardinality(s) = k
    BY <1>3
  <1>5. \A r \in SUBSET T : Cardinality(r) < k => SumLaws(f, r)
    <2>1. SUFFICES ASSUME NEW r \in SUBSET T, Cardinality(r) < k, ~ SumLaws(f, r) PROVE FALSE
      OBVIOUS
    <2>2. Cardinality(r) \in Nat /\ Cardinality(r) \in Bad
      BY <1>1, <2>1
    <2>3. k <= Cardinality(r) /\ k \in Nat
      BY <1>3, <2>2
    <2>4. QED
      BY <2>1, <2>2, <2>3
  <1>6. \A x \in s : Cardinality(s \ {x}) < k
    <2>1. \A x \in s : Cardinality(s \ {x}) = k - 1
      BY <1>1, <1>4, FS_RemoveElement
    <2>2. k \in Nat
      BY <1>3
    <2>3. QED
      BY <2>1, <2>2
  <1>7. s # {}
    <2>1. SumFunctionOnSet(f, {}) = 0
      BY SumEmpty
    <2>2. SumLaws(f, {})
      BY <2>1 DEF SumLaws
    <2>3. QED
      BY <1>4, <2>2
  <1> DEFINE c == Pick(s)
             Sum(A) == SumFunctionOnSet(f, A)
  <1>8. c \in s /\ Sum(s) = f[c] + Sum(s \ {c})
    BY <1>1, <1>7, SumPick
  <1> HIDE DEF c
  <1>9. f[c] \in Nat /\ \A x \in s : f[x] \in Nat
    BY <1>8 DEF NatOn
  <1>10. \A x \in s : SumLaws(f, s \ {x})
    BY <1>5, <1>6
  <1>11. Sum(s \ {c}) \in Nat
    BY <1>8, <1>10 DEF SumLaws
  <1>12. Sum(s) \in Nat
    BY <1>8, <1>9, <1>11
  <1>13. ASSUME NEW x \in s PROVE Sum(s) = f[x] + Sum(s \ {x})
    <2>1. CASE x = c
      BY <1>8, <2>1
    <2>2. CASE x # c
      <3>1. x \in s \ {c} /\ c \in s \ {x}
        BY <1>8, <1>13, <2>2
      <3>2. (s \ {c}) \ {x} = (s \ {x}) \ {c}
        OBVIOUS
      <3> DEFINE rest == (s \ {c}) \ {x}
      <3>3. Sum(s \ {c}) = f[x] + Sum(rest)
        BY <1>8, <1>10, <3>1 DEF SumLaws
      <3>4. Sum(s \ {x}) = f[c] + Sum(rest)
        BY <1>10, <1>13, <3>1, <3>2 DEF SumLaws
      <3>5. Sum(rest) \in Nat
        <4>1. Cardinality(rest) < k
          <5>1. Cardinality(rest) <= Cardinality(s \ {c})
            BY <1>1, FS_Subset
          <5>2. Cardinality(rest) \in Nat /\ Cardinality(s \ {c}) \in Nat /\ k \in Nat
            BY <1>1, <1>3
          <5>3. Cardinality(s \ {c}) < k
            BY <1>6, <1>8
          <5> HIDE DEF rest
          <5>4. QED
            BY <5>1, <5>2, <5>3
        <4>2. rest \in SUBSET T
          OBVIOUS
        <4>3. QED
          BY <1>5, <4>1, <4>2 DEF SumLaws
      <3> HIDE DEF rest, Sum
      <3>6. QED
        BY <1>8, <1>9, <1>13, <3>3, <3>4, <3>5
    <2>3. QED
      BY <2>1, <2>2
  <1>14. SumLaws(f, s)
    BY <1>12, <1>13 DEF SumLaws
  <1>15. QED
    BY <1>4, <1>14

(* A sum of naturals is a natural.                                         *)
LEMMA SumNat ==
  ASSUME NEW f, NEW S, IsFiniteSet(S), NatOn(f, S)
  PROVE  SumFunctionOnSet(f, S) \in Nat
  <1>1. SumLaws(f, S)
    BY SumRemoves
  <1>2. QED
    BY <1>1 DEF SumLaws

(* The parts of a set add up to it: minimal counterexample on its size.    *)
AddsUp(f, S, B) ==
  SumFunctionOnSet(f, S) = SumFunctionOnSet(f, S \cap B) + SumFunctionOnSet(f, S \ B)
LEMMA SumOfParts ==
  ASSUME NEW f, NEW T, IsFiniteSet(T), NatOn(f, T), NEW B, NEW S \in SUBSET T
  PROVE  AddsUp(f, S, B)
  <1> DEFINE Sum(A) == SumFunctionOnSet(f, A)
             Adds(A) == Sum(A) = Sum(A \cap B) + Sum(A \ B)
             Bad == {k \in Nat : \E A \in SUBSET T : ~ Adds(A) /\ Cardinality(A) = k}
  <1>1. \A A \in SUBSET T : IsFiniteSet(A) /\ Cardinality(A) \in Nat
    BY FS_Subset, FS_CardinalityType
  <1>2. SUFFICES ASSUME Bad # {} PROVE FALSE
    <2>1. Cardinality(S) \in Nat
      BY <1>1
    <2>2. ~ Adds(S) => Cardinality(S) \in Bad
      BY <2>1
    <2>3. QED
      BY <2>2 DEF AddsUp
  <1>3. PICK k \in Bad : \A m \in Bad : k <= m
    <2>1. Bad \in SUBSET Nat
      OBVIOUS
    <2> HIDE DEF Bad
    <2>2. QED
      BY <1>2, <2>1, Least
  <1>4. PICK A \in SUBSET T : ~ Adds(A) /\ Cardinality(A) = k
    BY <1>3
  <1>5. \A R \in SUBSET T : Sum(R) \in Nat /\ \A x \in R : Sum(R) = f[x] + Sum(R \ {x})
    <2>1. \A R \in SUBSET T : SumLaws(f, R)
      BY SumRemoves
    <2>2. QED
      BY <2>1 DEF SumLaws
  <1>6. PICK x \in A : TRUE
    <2>1. Sum({}) = 0
      BY SumEmpty
    <2>2. A = {} => Adds(A)
      <3>1. SUFFICES ASSUME A = {} PROVE Adds(A)
        OBVIOUS
      <3>2. A = {} /\ A \cap B = {} /\ A \ B = {}
        BY <3>1
      <3> HIDE DEF Sum
      <3>3. QED
        BY <2>1, <3>2
    <2>3. QED
      BY <1>4, <2>2
  <1> DEFINE R == A \ {x}
  <1>7. Adds(R)
    <2>1. Cardinality(R) = k - 1 /\ Cardinality(R) \in Nat
      BY <1>1, <1>4, <1>6, FS_RemoveElement
    <2>2. R \in SUBSET T
      OBVIOUS
    <2>3. SUFFICES ASSUME ~ Adds(R) PROVE FALSE
      OBVIOUS
    <2>4. k - 1 \in Bad
      BY <2>1, <2>2, <2>3
    <2>5. k <= k - 1 /\ k \in Nat
      BY <1>3, <2>4
    <2>6. QED
      BY <2>5
  <1>8. Sum(A) = f[x] + Sum(R) /\ f[x] \in Nat
    BY <1>5, <1>6 DEF NatOn
  <1>9. /\ Sum(R) \in Nat /\ Sum(R \cap B) \in Nat /\ Sum(R \ B) \in Nat
    BY <1>5
  <1>10. CASE x \in B
    <2>1. A \ B = R \ B /\ R \cap B = (A \cap B) \ {x} /\ x \in A \cap B /\ A \cap B \in SUBSET T
      BY <1>6, <1>10
    <2>2. Sum(A \cap B) = f[x] + Sum((A \cap B) \ {x})
      BY <1>5, <2>1
    <2>3. Sum(A \cap B) = f[x] + Sum(R \cap B) /\ Sum(A \ B) = Sum(R \ B)
      BY <2>1, <2>2
    <2>4. Sum(R) = Sum(R \cap B) + Sum(R \ B)
      BY <1>7
    <2>5. ~ (Sum(A) = Sum(A \cap B) + Sum(A \ B))
      BY <1>4
    <2> HIDE DEF Sum, R
    <2>6. QED
      BY <1>8, <1>9, <2>3, <2>4, <2>5
  <1>11. CASE x \notin B
    <2>1. A \cap B = R \cap B /\ R \ B = (A \ B) \ {x} /\ x \in A \ B /\ A \ B \in SUBSET T
      BY <1>6, <1>11
    <2>2. Sum(A \ B) = f[x] + Sum((A \ B) \ {x})
      BY <1>5, <2>1
    <2>3. Sum(A \ B) = f[x] + Sum(R \ B) /\ Sum(A \cap B) = Sum(R \cap B)
      BY <2>1, <2>2
    <2>4. Sum(R) = Sum(R \cap B) + Sum(R \ B)
      BY <1>7
    <2>5. ~ (Sum(A) = Sum(A \cap B) + Sum(A \ B))
      BY <1>4
    <2> HIDE DEF Sum, R
    <2>6. QED
      BY <1>8, <1>9, <2>3, <2>4, <2>5
  <1>12. QED
    BY <1>10, <1>11

(* A part of a set adds up to no more than the set.                        *)
LEMMA SumMonotone ==
  ASSUME NEW f, NEW T, IsFiniteSet(T), NatOn(f, T), NEW S \in SUBSET T
  PROVE  SumFunctionOnSet(f, S) <= SumFunctionOnSet(f, T)
  <1>1. T \cap S = S /\ T \in SUBSET T /\ T \ S \in SUBSET T
    OBVIOUS
  <1>2. SumFunctionOnSet(f, T) = SumFunctionOnSet(f, S) + SumFunctionOnSet(f, T \ S)
    BY <1>1, SumOfParts DEF AddsUp
  <1>3. SumLaws(f, S) /\ SumLaws(f, T \ S)
    BY <1>1, SumRemoves
  <1>4. SumFunctionOnSet(f, S) \in Nat /\ SumFunctionOnSet(f, T \ S) \in Nat
    BY <1>3 DEF SumLaws
  <1>5. QED
    BY <1>2, <1>4

(* What is spread over the parts D[c] adds up to no more than the parts'   *)
(* allowances h[c] do, the parts overlapping or not.                       *)
Allows(f, D, h, C) == \A c \in C : SumFunctionOnSet(f, D[c]) <= h[c]
Covered(S, D, C) == \A x \in S : \E c \in C : x \in D[c]
LEMMA SumWithinAllowances ==
  ASSUME NEW f, NEW T, IsFiniteSet(T), NatOn(f, T),
         NEW E, IsFiniteSet(E), NEW h, NatOn(h, E), NEW D \in [E -> SUBSET T],
         Allows(f, D, h, E), NEW S \in SUBSET T, Covered(S, D, E)
  PROVE  SumFunctionOnSet(f, S) <= SumFunctionOnSet(h, E)
  <1> DEFINE Sum(A) == SumFunctionOnSet(f, A)
             Within(A, C) == Sum(A) <= SumFunctionOnSet(h, C)
             Bad == {k \in Nat : \E C \in SUBSET E, A \in SUBSET T :
                        Covered(A, D, C) /\ ~ Within(A, C) /\ Cardinality(C) = k}
  <1>1. \A C \in SUBSET E : IsFiniteSet(C) /\ Cardinality(C) \in Nat
    BY FS_Subset, FS_CardinalityType
  <1>2. SUFFICES ASSUME Bad # {} PROVE FALSE
    <2>1. Cardinality(E) \in Nat /\ E \in SUBSET E
      BY <1>1
    <2>2. ~ Within(S, E) => Cardinality(E) \in Bad
      BY <2>1
    <2>3. QED
      BY <2>2
  <1>3. PICK k \in Bad : \A m \in Bad : k <= m
    <2>1. Bad \in SUBSET Nat
      OBVIOUS
    <2> HIDE DEF Bad
    <2>2. QED
      BY <1>2, <2>1, Least
  <1>4. PICK C \in SUBSET E, A \in SUBSET T :
          Covered(A, D, C) /\ ~ Within(A, C) /\ Cardinality(C) = k
    BY <1>3
  <1>5. \A R \in SUBSET T : Sum(R) \in Nat
    <2>1. \A R \in SUBSET T : SumLaws(f, R)
      BY SumRemoves
    <2>2. QED
      BY <2>1 DEF SumLaws
  <1>6. \A R \in SUBSET E : /\ SumFunctionOnSet(h, R) \in Nat
                            /\ \A c \in R : SumFunctionOnSet(h, R) = h[c] + SumFunctionOnSet(h, R \ {c})
    <2>1. \A R \in SUBSET E : SumLaws(h, R)
      BY SumRemoves
    <2>2. QED
      BY <2>1 DEF SumLaws
  <1>7. PICK c \in C : TRUE
    <2>1. Sum({}) = 0 /\ SumFunctionOnSet(h, {}) = 0
      BY SumEmpty
    <2>2. C = {} => A = {}
      BY <1>4 DEF Covered
    <2>3. C = {} => Within(A, C)
      <3>1. SUFFICES ASSUME C = {} PROVE Within(A, C)
        OBVIOUS
      <3>2. C = {} /\ A = {}
        BY <2>2, <3>1
      <3>3. QED
        BY <2>1, <3>2
    <2>4. QED
      BY <1>4, <2>3
  <1> DEFINE rest == C \ {c}
             B == D[c]
  <1>8. c \in E /\ B \in SUBSET T
    BY <1>7
  <1>9. Within(A \ B, rest)
    <2>1. Cardinality(rest) = k - 1 /\ Cardinality(rest) \in Nat
      BY <1>1, <1>4, <1>7, FS_RemoveElement
    <2>2. rest \in SUBSET E /\ A \ B \in SUBSET T
      OBVIOUS
    <2>3. Covered(A \ B, D, rest)
      BY <1>4 DEF Covered
    <2>4. SUFFICES ASSUME ~ Within(A \ B, rest) PROVE FALSE
      OBVIOUS
    <2> HIDE DEF rest, B, Within
    <2>5. k - 1 \in Bad
      BY <2>1, <2>2, <2>3, <2>4
    <2>6. k <= k - 1 /\ k \in Nat
      BY <1>3, <2>5
    <2>7. QED
      BY <2>6
  <1>10. Sum(A) = Sum(A \cap B) + Sum(A \ B)
    <2>1. A \in SUBSET T /\ IsFiniteSet(T) /\ NatOn(f, T)
      OBVIOUS
    <2> HIDE DEF B
    <2>2. AddsUp(f, A, B)
      BY <2>1, SumOfParts
    <2>3. QED
      BY <2>2 DEF AddsUp
  <1>11. Sum(A \cap B) <= Sum(B)
    <2>1. IsFiniteSet(B) /\ NatOn(f, B) /\ A \cap B \in SUBSET B
      BY <1>8, FS_Subset DEF NatOn
    <2> HIDE DEF B
    <2>2. QED
      BY <2>1, SumMonotone
  <1>12. Sum(B) <= h[c] /\ h[c] \in Nat
    BY <1>8 DEF Allows, NatOn
  <1>13. SumFunctionOnSet(h, C) = h[c] + SumFunctionOnSet(h, rest)
    BY <1>6, <1>7
  <1>14. /\ Sum(A) \in Nat /\ Sum(A \cap B) \in Nat /\ Sum(A \ B) \in Nat /\ Sum(B) \in Nat
         /\ SumFunctionOnSet(h, C) \in Nat /\ SumFunctionOnSet(h, rest) \in Nat
    BY <1>5, <1>6, <1>8
  <1>15. ~ (Sum(A) <= SumFunctionOnSet(h, C)) /\ Sum(A \ B) <= SumFunctionOnSet(h, rest)
    BY <1>4, <1>9
  <1> HIDE DEF Sum, rest, B
  <1>16. QED
    BY <1>10, <1>11, <1>12, <1>13, <1>14, <1>15

Generations == Cardinality(TokenIds)

(* The walk back along a line has a bounded number of steps.               *)
LEMMA GenerationsNat == Generations \in Nat
  BY RelationAssumption, FS_CardinalityType DEF Generations

(* Descent is a walk along the sources.                                    *)
LEMMA BackUnfold ==
  ASSUME NEW source \in [TokenIds -> TokenIds], NEW t \in TokenIds
  PROVE  /\ Back(source, t) \in [0..Generations -> TokenIds]
         /\ Back(source, t)[0] = t
         /\ \A n \in 1..Generations : Back(source, t)[n] = source[Back(source, t)[n - 1]]
  <1> DEFINE K == Generations
             F == [n \in 1..K |-> source]
             Solves(g) == g = [n \in 0..K |-> IF n = 0 THEN t ELSE source[g[n - 1]]]
             step == CHOOSE g : Solves(g)
  <1>1. K \in Nat
    BY GenerationsNat
  <1>2. \E g : Solves(g)
    <2>1. F \in [1..K -> [TokenIds -> TokenIds]]
      OBVIOUS
    <2> HIDE DEF F, K
    <2>2. PICK g : Unfolds(g, K, TokenIds, t, F)
      BY <1>1, <2>1, Recursion
    <2>3. \A n \in 1..K : g[n] = source[g[n - 1]]
      BY <2>2 DEF F, Unfolds
    <2>4. \A n \in 0..K : n # 0 => n \in 1..K
      BY <1>1
    <2>5. g = [n \in 0..K |-> g[n]]
      BY <2>2 DEF Unfolds
    <2>6. Solves(g)
      BY <2>2, <2>3, <2>4, <2>5 DEF Unfolds
    <2>7. QED
      BY <2>6
  <1>3. Solves(step)
    BY <1>2
  <1>4. Back(source, t) = step
    BY DEF Back, Generations
  <1> HIDE DEF step, K
  <1>5. step[0] = t
    BY <1>1, <1>3
  <1>6. \A n \in 1..K : n \in 0..K /\ n # 0 /\ n - 1 \in 0..K
    BY <1>1
  <1>7. \A n \in 1..K : step[n] = source[step[n - 1]]
    BY <1>3, <1>6
  <1>8. \A n \in 0..K : step[n] \in TokenIds
    <2> DEFINE Bad == {n \in 0..K : step[n] \notin TokenIds}
    <2>1. SUFFICES ASSUME Bad # {} PROVE FALSE
      OBVIOUS
    <2>2. PICK n \in Bad : \A m \in Bad : n <= m
      <3>1. Bad \in SUBSET Nat
        BY <1>1
      <3> HIDE DEF Bad
      <3>2. QED
        BY <2>1, <3>1, Least
    <2>3. n \in 1..K /\ n - 1 \in 0..K /\ ~ (n <= n - 1)
      BY <1>1, <1>5, <2>2
    <2>4. step[n - 1] \in TokenIds
      BY <2>2, <2>3
    <2>5. QED
      BY <1>7, <2>2, <2>3, <2>4
  <1>9. DOMAIN step = 0..K
    BY <1>3
  <1>10. step \in [0..K -> TokenIds]
    <2>1. step = [n \in 0..K |-> step[n]]
      BY <1>3, <1>9
    <2>2. QED
      BY <1>8, <2>1
  <1>11. QED
    BY <1>4, <1>5, <1>7, <1>10 DEF K

(* A walk that starts in a set the sources stay in stays in it, and is the *)
(* same walk for any sources that agree there.                             *)
LEMMA BackWithin ==
  ASSUME NEW source \in [TokenIds -> TokenIds], NEW source2 \in [TokenIds -> TokenIds],
         NEW M \in SUBSET TokenIds, NEW t \in M,
         \A u \in M : source[u] \in M /\ source2[u] = source[u]
  PROVE  /\ Back(source2, t) = Back(source, t)
         /\ \A n \in 0..Generations : Back(source, t)[n] \in M
  <1> DEFINE K == Generations
             g == Back(source, t)
             h == Back(source2, t)
             Bad == {n \in 0..K : ~ (g[n] \in M /\ h[n] = g[n])}
  <1>1. K \in Nat
    BY GenerationsNat
  <1>2. /\ g \in [0..K -> TokenIds] /\ g[0] = t /\ \A n \in 1..K : g[n] = source[g[n - 1]]
        /\ h \in [0..K -> TokenIds] /\ h[0] = t /\ \A n \in 1..K : h[n] = source2[h[n - 1]]
    BY BackUnfold
  <1> HIDE DEF K, g, h
  <1>3. Bad = {}
    <2>1. SUFFICES ASSUME Bad # {} PROVE FALSE
      OBVIOUS
    <2>2. PICK n \in Bad : \A m \in Bad : n <= m
      <3>1. Bad \in SUBSET Nat
        BY <1>1
      <3> HIDE DEF Bad
      <3>2. QED
        BY <2>1, <3>1, Least
    <2>3. n \in 1..K /\ n - 1 \in 0..K /\ ~ (n <= n - 1)
      BY <1>1, <1>2, <2>2
    <2>4. g[n - 1] \in M /\ h[n - 1] = g[n - 1]
      BY <2>2, <2>3
    <2>5. g[n] = source[g[n - 1]] /\ h[n] = source2[h[n - 1]]
      BY <1>2, <2>3
    <2>6. QED
      BY <2>2, <2>4, <2>5
  <1>4. \A n \in 0..K : g[n] \in M /\ h[n] = g[n]
    BY <1>3
  <1>5. g = [n \in 0..K |-> g[n]] /\ h = [n \in 0..K |-> h[n]]
    BY <1>2
  <1>6. h = g
    BY <1>4, <1>5
  <1>7. QED
    BY <1>4, <1>6 DEF K, g, h

(***************************************************************************)
(* The inductive invariant                                                 *)
(***************************************************************************)

(* A split's output has a minted parent, and one it proves burned by a     *)
(* split is; a token is burned only once it is minted.                     *)
ParentsHold ==
  \A t \in TokenIds :
    /\ tokens[t].origin = "none" => tokens[t].end = "live"
    /\ tokens[t].origin = "split" =>
         /\ tokens[t].parent \in TokenIds
         /\ tokens[tokens[t].parent].origin # "none"
         /\ tokens[t].parentBurned => tokens[tokens[t].parent].end = "split"

(* What was released is burned for what it is worth, and its line still    *)
(* leads to a lock of the vault.                                           *)
Backed(t, name) ==
  LET lock == Obligation(t, name) IN
  /\ lock # NoObligation
  /\ lock.nonce \in DOMAIN Locks /\ lock.digest = StoredDigest(lock.nonce)
ReleasesBacked ==
  \A r \in released :
    /\ tokens[r.token].end = "return" /\ tokens[r.token].value = tokens[r.token].reason.amount
    /\ Backed(r.token, r.trustBase)

Sequenced == queue \in Seq(TokenIds) /\ \E S : log \in Seq(S)

(* The vault's settlements follow one another from the empty tree to its   *)
(* root, each of new nullifiers, and spend what is released.               *)
Settlement(entry) ==
  [nullifiers |-> entry.nullifiers, rootOld |-> entry.rootOld, rootNew |-> entry.rootNew,
   txid |-> entry.txid]
ReleasedKeys == {KeyOf[r.token] : r \in released}
LogIsAChain ==
  /\ Chained(log, Len(log))
  /\ \A i \in DOMAIN log :
       log[i] = Settlement(log[i]) /\ log[i].txid = i /\ log[i].nullifiers \in Seq(Keys)
  /\ Prefix(log, Len(log)) = ReleasedKeys
  /\ spentRoot = TreeRoot(ReleasedKeys)

IInv == TypeOK /\ ParentsHold /\ ReleasesBacked /\ Sequenced /\ LogIsAChain

(***************************************************************************)
(* The folds that take a member or leave it                                *)
(***************************************************************************)
LEMMA ToSetAppend ==
  ASSUME NEW T, NEW s \in Seq(T), NEW x \in T
  PROVE  ToSet(Append(s, x)) = ToSet(s) \cup {x}
  <1> DEFINE a == Append(s, x)
  <1>1. /\ DOMAIN a = 1..Len(s) + 1 /\ Len(s) \in Nat /\ DOMAIN s = 1..Len(s)
        /\ \A i \in 1..Len(s) : a[i] = s[i]
        /\ a[Len(s) + 1] = x
    OBVIOUS
  <1>2. 1..Len(s) + 1 = (1..Len(s)) \cup {Len(s) + 1}
    BY <1>1
  <1> HIDE DEF a
  <1>3. QED
    BY <1>1, <1>2 DEF ToSet, a

AmongStep(S, order, g, s) ==
  IF s = {} THEN <<>>
  ELSE IF order[Max(s)] \in S THEN Append(g[s \ {Max(s)}], order[Max(s)]) ELSE g[s \ {Max(s)}]
Amongs(g, S, order, n) == g = [s \in SUBSET (1..n) |-> AmongStep(S, order, g, s)]
AmongRun(run, S, order, n) ==
  /\ run[0] = <<>>
  /\ \A i \in 1..n : run[i] = IF order[i] \in S THEN Append(run[i - 1], order[i]) ELSE run[i - 1]

AmongUnfolds(S, order, n, T) ==
  \E run \in [0..n -> Seq(T)] : AmongRun(run, S, order, n) /\ Among(S, order) = run[n]

LEMMA AmongUnfold ==
  ASSUME NEW n \in Nat, NEW T, NEW order \in [1..n -> T], NEW S
  PROVE  AmongUnfolds(S, order, n, T)
  <1> DEFINE X == Seq(T)
             F == [i \in 1..n |-> [a \in X |-> IF order[i] \in S THEN Append(a, order[i]) ELSE a]]
             iter == CHOOSE g : Amongs(g, S, order, n)
  <1>1. F \in [1..n -> [X -> X]] /\ <<>> \in X
    OBVIOUS
  <1>2. \A i \in 1..n : \A a \in X : F[i][a] = IF order[i] \in S THEN Append(a, order[i]) ELSE a
    OBVIOUS
  <1> HIDE DEF F, X
  <1>3. PICK f : Folding(f, F, <<>>, n)
    BY FoldingExists
  <1>4. FoldsWithin(f, F, <<>>, n, X)
    BY <1>3, FoldingWithin
  <1>5. \A s \in SUBSET (1..n) : f[s] \in X
    BY <1>1, <1>4, FoldingStays
  <1>6. \A s \in SUBSET (1..n) : s # {} => Max(s) \in 1..n /\ s \ {Max(s)} \in SUBSET (1..n)
    BY MaxIsIn
  <1>7. Amongs(f, S, order, n)
    <2>1. \A s \in SUBSET (1..n) : f[s] = AmongStep(S, order, f, s)
      BY <1>2, <1>4, <1>5, <1>6 DEF FoldsWithin, AmongStep
    <2>2. f = [s \in SUBSET (1..n) |-> FoldingStep(F, <<>>, f, s)]
      BY <1>3 DEF Folding
    <2>3. QED
      BY <2>1, <2>2 DEF Amongs
  <1>8. Amongs(iter, S, order, n)
    BY <1>7
  <1>9. Among(S, order) = iter[1..n]
    BY DEF Among, FoldLeft, MapThenFoldSet, AmongStep, Amongs
  <1> HIDE DEF iter
  <1>10. FoldsWithin(iter, F, <<>>, n, X)
    <2>1. \A s \in SUBSET (1..n) : iter[s] = AmongStep(S, order, iter, s)
      BY <1>8 DEF Amongs
    <2>2. {} \in SUBSET (1..n)
      OBVIOUS
    <2>3. QED
      BY <1>2, <1>6, <2>1, <2>2 DEF FoldsWithin, AmongStep
  <1>11. PICK run \in [0..n -> X] : RunOf(run, F, <<>>, n) /\ run[n] = iter[1..n]
    <2>1. HasRun(iter, F, <<>>, n, X)
      BY <1>1, <1>10, FoldingRun
    <2>2. QED
      BY <2>1 DEF HasRun
  <1>12. \A i \in 1..n : run[i - 1] \in X
    <2>1. \A i \in 1..n : i - 1 \in 0..n
      OBVIOUS
    <2>2. QED
      BY <2>1
  <1>13. AmongRun(run, S, order, n)
    BY <1>2, <1>11, <1>12 DEF AmongRun, RunOf
  <1>14. QED
    BY <1>9, <1>11, <1>13 DEF X, AmongUnfolds

(* The first i members a sequence has of a set.                            *)
FirstOf(order, i) == {order[j] : j \in 1..i}
LEMMA AmongMembers ==
  ASSUME NEW T, NEW order \in Seq(T), NEW S
  PROVE  Among(S, order) \in Seq(T) /\ ToSet(Among(S, order)) = S \cap ToSet(order)
  <1> DEFINE n == Len(order)
  <1>1. n \in Nat /\ order \in [1..n -> T]
    OBVIOUS
  <1> HIDE DEF n
  <1>2. PICK run \in [0..n -> Seq(T)] : AmongRun(run, S, order, n) /\ Among(S, order) = run[n]
    BY <1>1, AmongUnfold DEF AmongUnfolds
  <1> DEFINE Bad == {i \in 0..n : ToSet(run[i]) # S \cap FirstOf(order, i)}
  <1>3. Bad = {}
    <2>1. SUFFICES ASSUME Bad # {} PROVE FALSE
      OBVIOUS
    <2>2. PICK i \in Bad : \A j \in Bad : i <= j
      <3>1. Bad \in SUBSET Nat
        OBVIOUS
      <3> HIDE DEF Bad
      <3>2. QED
        BY <2>1, <3>1, Least
    <2>3. i # 0
      <3>1. FirstOf(order, 0) = {}
        BY DEF FirstOf
      <3>2. ToSet(run[0]) = {}
        BY <1>2 DEF AmongRun, ToSet
      <3>3. QED
        BY <2>2, <3>1, <3>2
    <2>4. i \in 1..n /\ i - 1 \in 0..n /\ ~ (i <= i - 1)
      BY <1>1, <2>2, <2>3
    <2>5. ToSet(run[i - 1]) = S \cap FirstOf(order, i - 1)
      BY <2>2, <2>4
    <2>6. FirstOf(order, i) = FirstOf(order, i - 1) \cup {order[i]}
      <3>1. 1..i = (1..i - 1) \cup {i}
        BY <2>4
      <3>2. QED
        BY <3>1 DEF FirstOf
    <2>7. run[i] = IF order[i] \in S THEN Append(run[i - 1], order[i]) ELSE run[i - 1]
      BY <1>2, <2>4 DEF AmongRun
    <2>8. ToSet(Append(run[i - 1], order[i])) = ToSet(run[i - 1]) \cup {order[i]}
      BY <1>1, <2>4, ToSetAppend
    <2>9. ToSet(run[i]) = S \cap FirstOf(order, i)
      BY <2>5, <2>6, <2>7, <2>8
    <2>10. QED
      BY <2>2, <2>9
  <1>4. n \in 0..n
    BY <1>1
  <1>5. FirstOf(order, n) = ToSet(order)
    BY <1>1 DEF FirstOf, ToSet
  <1>6. ToSet(run[n]) = S \cap FirstOf(order, n)
    BY <1>3, <1>4
  <1>7. QED
    BY <1>2, <1>4, <1>5, <1>6

KeptStep(members, spent, rejected, g, s) ==
  IF s = {} THEN <<>>
  ELSE IF Admit(members[Max(s)], g[s \ {Max(s)}], spent, rejected) = "kept"
       THEN Append(g[s \ {Max(s)}], members[Max(s)]) ELSE g[s \ {Max(s)}]
Keeps(g, members, spent, rejected, n) == g = [s \in SUBSET (1..n) |-> KeptStep(members, spent, rejected, g, s)]
KeptRun(run, members, spent, rejected, n) ==
  /\ run[0] = <<>>
  /\ \A i \in 1..n : run[i] = IF Admit(members[i], run[i - 1], spent, rejected) = "kept"
                              THEN Append(run[i - 1], members[i]) ELSE run[i - 1]

KeptUnfolds(members, spent, rejected, n, T) ==
  \E run \in [0..n -> Seq(T)] : /\ KeptRun(run, members, spent, rejected, n)
                                /\ Kept(members, spent, rejected) = run[n]

LEMMA KeptUnfold ==
  ASSUME NEW n \in Nat, NEW T, NEW members \in [1..n -> T], NEW spent, NEW rejected
  PROVE  KeptUnfolds(members, spent, rejected, n, T)
  <1> DEFINE X == Seq(T)
             F == [i \in 1..n |-> [a \in X |-> IF Admit(members[i], a, spent, rejected) = "kept"
                                          THEN Append(a, members[i]) ELSE a]]
             iter == CHOOSE g : Keeps(g, members, spent, rejected, n)
  <1>1. F \in [1..n -> [X -> X]] /\ <<>> \in X
    OBVIOUS
  <1>2. \A i \in 1..n : \A a \in X : F[i][a] = IF Admit(members[i], a, spent, rejected) = "kept"
                                           THEN Append(a, members[i]) ELSE a
    OBVIOUS
  <1> HIDE DEF F, X
  <1>3. PICK f : Folding(f, F, <<>>, n)
    BY FoldingExists
  <1>4. FoldsWithin(f, F, <<>>, n, X)
    BY <1>3, FoldingWithin
  <1>5. \A s \in SUBSET (1..n) : f[s] \in X
    BY <1>1, <1>4, FoldingStays
  <1>6. \A s \in SUBSET (1..n) : s # {} => Max(s) \in 1..n /\ s \ {Max(s)} \in SUBSET (1..n)
    BY MaxIsIn
  <1>7. Keeps(f, members, spent, rejected, n)
    <2>1. \A s \in SUBSET (1..n) : f[s] = KeptStep(members, spent, rejected, f, s)
      BY <1>2, <1>4, <1>5, <1>6 DEF FoldsWithin, KeptStep
    <2>2. f = [s \in SUBSET (1..n) |-> FoldingStep(F, <<>>, f, s)]
      BY <1>3 DEF Folding
    <2>3. QED
      BY <2>1, <2>2 DEF Keeps
  <1>8. Keeps(iter, members, spent, rejected, n)
    BY <1>7
  <1>9. Kept(members, spent, rejected) = iter[1..n]
    BY DEF Kept, FoldLeft, MapThenFoldSet, KeptStep, Keeps
  <1> HIDE DEF iter
  <1>10. FoldsWithin(iter, F, <<>>, n, X)
    <2>1. \A s \in SUBSET (1..n) : iter[s] = KeptStep(members, spent, rejected, iter, s)
      BY <1>8 DEF Keeps
    <2>2. {} \in SUBSET (1..n)
      OBVIOUS
    <2>3. QED
      BY <1>2, <1>6, <2>1, <2>2 DEF FoldsWithin, KeptStep
  <1>11. PICK run \in [0..n -> X] : RunOf(run, F, <<>>, n) /\ run[n] = iter[1..n]
    <2>1. HasRun(iter, F, <<>>, n, X)
      BY <1>1, <1>10, FoldingRun
    <2>2. QED
      BY <2>1 DEF HasRun
  <1>12. \A i \in 1..n : run[i - 1] \in X
    <2>1. \A i \in 1..n : i - 1 \in 0..n
      OBVIOUS
    <2>2. QED
      BY <2>1
  <1>13. KeptRun(run, members, spent, rejected, n)
    BY <1>2, <1>11, <1>12 DEF KeptRun, RunOf
  <1>14. QED
    BY <1>9, <1>11, <1>13 DEF X, KeptUnfolds

Takes(t, taken) == Len(taken) < MaxSize /\ Fits(t, taken)
SelectStep(due, g, s) ==
  IF s = {} THEN <<due[1]>>
  ELSE IF Takes(Tail(due)[Max(s)], g[s \ {Max(s)}])
       THEN Append(g[s \ {Max(s)}], Tail(due)[Max(s)]) ELSE g[s \ {Max(s)}]
Selects(g, due, n) == g = [s \in SUBSET (1..n) |-> SelectStep(due, g, s)]
SelectRun(run, due, n) ==
  /\ run[0] = <<due[1]>>
  /\ \A i \in 1..n : run[i] = IF Takes(due[i + 1], run[i - 1])
                              THEN Append(run[i - 1], due[i + 1]) ELSE run[i - 1]

LEMMA SelectUnfold ==
  ASSUME NEW n \in Nat, NEW T, NEW due \in Seq(T), Len(due) = n + 1
  PROVE  \E run \in [0..n -> Seq(T)] : SelectRun(run, due, n) /\ Select(due) = run[n]
  <1> DEFINE X == Seq(T)
             F == [i \in 1..n |-> [a \in X |-> IF Takes(Tail(due)[i], a) THEN Append(a, Tail(due)[i]) ELSE a]]
             iter == CHOOSE g : Selects(g, due, n)
  <1>0. DOMAIN Tail(due) = 1..n /\ \A i \in 1..n : Tail(due)[i] = due[i + 1] /\ Tail(due)[i] \in T
    OBVIOUS
  <1>1. F \in [1..n -> [X -> X]] /\ <<due[1]>> \in X
    BY <1>0
  <1>2. \A i \in 1..n : \A a \in X : F[i][a] = IF Takes(Tail(due)[i], a) THEN Append(a, Tail(due)[i]) ELSE a
    OBVIOUS
  <1> HIDE DEF F, X
  <1>3. PICK f : Folding(f, F, <<due[1]>>, n)
    BY FoldingExists
  <1>4. FoldsWithin(f, F, <<due[1]>>, n, X)
    BY <1>3, FoldingWithin
  <1>5. \A s \in SUBSET (1..n) : f[s] \in X
    BY <1>1, <1>4, FoldingStays
  <1>6. \A s \in SUBSET (1..n) : s # {} => Max(s) \in 1..n /\ s \ {Max(s)} \in SUBSET (1..n)
    BY MaxIsIn
  <1>7. Selects(f, due, n)
    <2>1. \A s \in SUBSET (1..n) : f[s] = SelectStep(due, f, s)
      BY <1>2, <1>4, <1>5, <1>6 DEF FoldsWithin, SelectStep
    <2>2. f = [s \in SUBSET (1..n) |-> FoldingStep(F, <<due[1]>>, f, s)]
      BY <1>3 DEF Folding
    <2>3. QED
      BY <2>1, <2>2 DEF Selects
  <1>8. Selects(iter, due, n)
    BY <1>7
  <1>9. Select(due) = iter[1..n]
    BY <1>0 DEF Select, Takes, FoldLeft, MapThenFoldSet, SelectStep, Selects
  <1> HIDE DEF iter
  <1>10. FoldsWithin(iter, F, <<due[1]>>, n, X)
    <2>1. \A s \in SUBSET (1..n) : iter[s] = SelectStep(due, iter, s)
      BY <1>8 DEF Selects
    <2>2. {} \in SUBSET (1..n)
      OBVIOUS
    <2>3. QED
      BY <1>2, <1>6, <2>1, <2>2 DEF FoldsWithin, SelectStep
  <1>11. PICK run \in [0..n -> X] : RunOf(run, F, <<due[1]>>, n) /\ run[n] = iter[1..n]
    <2>1. HasRun(iter, F, <<due[1]>>, n, X)
      BY <1>1, <1>10, FoldingRun
    <2>2. QED
      BY <2>1 DEF HasRun
  <1>12. \A i \in 1..n : run[i - 1] \in X
    <2>1. \A i \in 1..n : i - 1 \in 0..n
      OBVIOUS
    <2>2. QED
      BY <2>1
  <1>13. SelectRun(run, due, n)
    BY <1>0, <1>2, <1>11, <1>12 DEF SelectRun, RunOf
  <1>14. QED
    BY <1>9, <1>11, <1>13 DEF X

(***************************************************************************)
(* The lines of released tokens                                            *)
(***************************************************************************)
LEMMA SourceType ==
  ASSUME TypeOK, ParentsHold
  PROVE  Source \in [TokenIds -> TokenIds]
  BY DEF TypeOK, ParentsHold, Source

(* A line is of tokens, and the walk from a token stays on its line.       *)
LEMMA LineType ==
  ASSUME TypeOK, ParentsHold, NEW t \in TokenIds
  PROVE  /\ \A n \in 0..Generations : Back(Source, t)[n] \in Line(t)
         /\ Line(t) \in SUBSET TokenIds
         /\ Ancestor(t) \in Line(t)
  <1>1. Source \in [TokenIds -> TokenIds] /\ Generations \in Nat
    BY SourceType, GenerationsNat
  <1> DEFINE g == Back(Source, t)
  <1>2. g \in [0..Generations -> TokenIds] /\ g[0] = t
    BY <1>1, BackUnfold
  <1>3. Line(t) = {t} \cup {g[n] : n \in 1..Generations} /\ Ancestor(t) = g[Generations]
    BY DEF Line, Ancestor, Generations
  <1> HIDE DEF g
  <1>4. \A n \in 0..Generations : n = 0 \/ n \in 1..Generations
    BY <1>1
  <1>5. \A n \in 0..Generations : g[n] \in Line(t)
    BY <1>2, <1>3, <1>4
  <1>6. Generations \in 0..Generations /\ \A n \in 1..Generations : n \in 0..Generations
    BY <1>1
  <1>7. Line(t) \in SUBSET TokenIds
    BY <1>2, <1>3, <1>6
  <1>8. QED
    BY <1>3, <1>5, <1>6, <1>7 DEF g

(* What a backed token's line is like.                                     *)
LEMMA BackedLine ==
  ASSUME TypeOK, ParentsHold, NEW t, NEW name, Backed(t, name)
  PROVE  /\ t \in TokenIds /\ name \in DOMAIN TrustBases
         /\ \A u \in Line(t) : VerifyToken(u, name)
         /\ \A u \in Line(t) : tokens[u].origin = "split" => IsSplitOutput(u)
         /\ IsLockMint(Ancestor(t))
         /\ tokens[Ancestor(t)].nonce \in DOMAIN Locks
         /\ Locks[tokens[Ancestor(t)].nonce].token = Ancestor(t)
         /\ Locks[tokens[Ancestor(t)].nonce].amount = tokens[Ancestor(t)].value
  <1>1. /\ \A u \in Line(t) : VerifyToken(u, name)
        /\ \A u \in Line(t) \ {Ancestor(t)} : IsSplitOutput(u)
        /\ IsLockMint(Ancestor(t))
        /\ Obligation(t, name) = LockObligation(Ancestor(t))
    BY DEF Backed, Obligation
  <1>2. t \in Line(t)
    BY DEF Line
  <1>3. t \in TokenIds /\ name \in DOMAIN TrustBases
    BY <1>1, <1>2 DEF VerifyToken
  <1> DEFINE a == Ancestor(t)
             o == LockObligation(a)
  <1>4. o.nonce = tokens[a].nonce /\ o.digest = LockDigest(tokens[a].nonce, tokens[a].claim, a)
    BY DEF LockObligation
  <1>5. o.nonce \in DOMAIN Locks /\ o.digest = StoredDigest(o.nonce)
    BY <1>1 DEF Backed
  <1> HIDE DEF o
  <1>6. tokens[a].claim = Locks[tokens[a].nonce].amount /\ a = Locks[tokens[a].nonce].token
    BY <1>4, <1>5 DEF StoredDigest, LockDigest
  <1>7. tokens[a].value = tokens[a].claim /\ tokens[a].origin = "lock"
    BY <1>1 DEF IsLockMint
  <1>8. QED
    BY <1>1, <1>3, <1>4, <1>5, <1>6, <1>7

(***************************************************************************)
(* Certificates                                                            *)
(***************************************************************************)
Tallies(base) ==
  [nodes : SUBSET (DOMAIN base.keys), keys : SUBSET {base.keys[n] : n \in DOMAIN base.keys}]
NoSignature == [nodes |-> {}, keys |-> {}]

(* The count after each signature, read off its definition.                *)
LEMMA CountingUnfold ==
  ASSUME NEW base, NEW S, NEW seal \in Seq(S)
  PROVE  /\ Counting(seal, base)[0] = NoSignature
         /\ \A n \in 1..Len(seal) :
              Counting(seal, base)[n] = CountSignature(Counting(seal, base)[n - 1], seal[n], base)
  <1> DEFINE L == Len(seal)
             X == Tallies(base)
             F == [n \in 1..L |-> [c \in X |-> CountSignature(c, seal[n], base)]]
             Solves(g) ==
               g = [n \in 0..L |-> IF n = 0 THEN NoSignature ELSE CountSignature(g[n - 1], seal[n], base)]
             counted == CHOOSE g : Solves(g)
  <1>1. L \in Nat
    OBVIOUS
  <1>2. \A c \in X, n \in 1..L : CountSignature(c, seal[n], base) \in X
    BY DEF CountSignature, Tallies
  <1>3. NoSignature \in X
    BY DEF NoSignature, Tallies
  <1>4. \E g : Solves(g)
    <2>1. F \in [1..L -> [X -> X]]
      BY <1>2
    <2> HIDE DEF F, L, X
    <2>2. PICK g : Unfolds(g, L, X, NoSignature, F)
      BY <1>1, <1>3, <2>1, Recursion
    <2>3. \A n \in 1..L : g[n - 1] \in X
      <3>1. \A n \in 1..L : n - 1 \in 0..L
        BY <1>1
      <3>2. QED
        BY <2>2, <3>1 DEF Unfolds
    <2>4. \A n \in 1..L : g[n] = CountSignature(g[n - 1], seal[n], base)
      <3>1. \A n \in 1..L, c \in X : F[n][c] = CountSignature(c, seal[n], base)
        BY DEF F
      <3>2. \A n \in 1..L : g[n] = F[n][g[n - 1]]
        BY <2>2 DEF Unfolds
      <3>3. QED
        BY <2>3, <3>1, <3>2
    <2>5. \A n \in 0..L : n # 0 => n \in 1..L
      BY <1>1
    <2>6. g = [n \in 0..L |-> g[n]]
      BY <2>2 DEF Unfolds
    <2>7. Solves(g)
      <3>1. g[0] = NoSignature
        BY <2>2 DEF Unfolds
      <3>2. QED
        BY <2>4, <2>5, <2>6, <3>1
    <2>8. QED
      BY <2>7
  <1>5. Solves(counted)
    BY <1>4
  <1>6. Counting(seal, base) = counted
    BY DEF Counting, NoSignature
  <1> HIDE DEF counted
  <1>7. 0 \in 0..L /\ \A n \in 1..L : n \in 0..L /\ n # 0
    BY <1>1
  <1>8. counted[0] = NoSignature
    BY <1>5, <1>7
  <1>9. \A n \in 1..L : counted[n] = CountSignature(counted[n - 1], seal[n], base)
    BY <1>5, <1>7
  <1>10. QED
    BY <1>6, <1>8, <1>9

(* The keys a seal's valid signatures are by.                              *)
ValidSignatures(seal, base) ==
  {s \in ToSet(seal) : s.node \in DOMAIN base.keys /\ base.keys[s.node] = s.key}
SigningKeys(seal, base) == {s.key : s \in ValidSignatures(seal, base)}

(* As many keys as nodes are counted, and each of them signed.             *)
Tallied(c, seal, base) ==
  /\ IsFiniteSet(c.nodes) /\ IsFiniteSet(c.keys) /\ Cardinality(c.nodes) = Cardinality(c.keys)
  /\ c.keys \subseteq SigningKeys(seal, base)

(* One more element makes a set one larger.                                *)
LEMMA OneMore ==
  ASSUME NEW A, IsFiniteSet(A), NEW e, e \notin A
  PROVE  IsFiniteSet(A \cup {e}) /\ Cardinality(A \cup {e}) = Cardinality(A) + 1
  BY FS_AddElement

(* Counting a signature keeps the tally.                                   *)
LEMMA CountSignatureTallies ==
  ASSUME NEW base, NEW seal, NEW c, NEW s \in ToSet(seal), Tallied(c, seal, base)
  PROVE  Tallied(CountSignature(c, s, base), seal, base)
  <1> DEFINE counts == /\ s.node \in DOMAIN base.keys \ c.nodes
                       /\ base.keys[s.node] \notin c.keys
                       /\ s.key = base.keys[s.node]
             d == CountSignature(c, s, base)
  <1>1. CASE ~ counts
    BY <1>1 DEF CountSignature
  <1>2. CASE counts
    <2>1. d.nodes = c.nodes \cup {s.node} /\ d.keys = c.keys \cup {s.key}
      BY <1>2 DEF CountSignature
    <2>2. s.node \notin c.nodes /\ s.key \notin c.keys
      BY <1>2
    <2>3. /\ IsFiniteSet(c.nodes) /\ IsFiniteSet(c.keys)
          /\ Cardinality(c.nodes) = Cardinality(c.keys) /\ c.keys \subseteq SigningKeys(seal, base)
      BY DEF Tallied
    <2> HIDE DEF d, counts
    <2>4. IsFiniteSet(d.nodes) /\ Cardinality(d.nodes) = Cardinality(c.nodes) + 1
      <3>1. IsFiniteSet(c.nodes) /\ s.node \notin c.nodes
        BY <2>2, <2>3
      <3>2. d.nodes = c.nodes \cup {s.node}
        BY <2>1
      <3>3. QED
        BY <3>1, <3>2, OneMore
    <2>5. IsFiniteSet(d.keys) /\ Cardinality(d.keys) = Cardinality(c.keys) + 1
      <3>1. IsFiniteSet(c.keys) /\ s.key \notin c.keys
        BY <2>2, <2>3
      <3>2. d.keys = c.keys \cup {s.key}
        BY <2>1
      <3>3. QED
        BY <3>1, <3>2, OneMore
    <2>6. s.key \in SigningKeys(seal, base)
      BY <1>2 DEF SigningKeys, ValidSignatures, counts
    <2>7. d.keys \subseteq SigningKeys(seal, base)
      BY <2>1, <2>3, <2>6
    <2>8. Cardinality(d.nodes) = Cardinality(d.keys)
      BY <2>3, <2>4, <2>5
    <2>9. QED
      BY <2>4, <2>5, <2>7, <2>8 DEF Tallied, d
  <1>3. QED
    BY <1>1, <1>2

(* Finitely many keys sign a seal.                                         *)
LEMMA SigningKeysFinite ==
  ASSUME NEW base, NEW S, NEW seal \in Seq(S)
  PROVE  IsFiniteSet(SigningKeys(seal, base))
  <1>1. Len(seal) \in Nat /\ seal \in [1..Len(seal) -> ToSet(seal)] /\ DOMAIN seal = 1..Len(seal)
    BY DEF ToSet
  <1>2. IsFiniteSet(1..Len(seal))
    BY <1>1, FS_Interval
  <1>3. seal \in Surjection(1..Len(seal), ToSet(seal))
    BY <1>1 DEF Surjection, ToSet
  <1>4. IsFiniteSet(ToSet(seal))
    BY <1>2, <1>3, FS_Surjection
  <1> DEFINE V == ValidSignatures(seal, base)
             by == [s \in V |-> s.key]
  <1>5. IsFiniteSet(V)
    BY <1>4, FS_Subset DEF ValidSignatures
  <1>6. by \in Surjection(V, SigningKeys(seal, base))
    BY DEF Surjection, SigningKeys
  <1> HIDE DEF by, V
  <1>7. QED
    BY <1>5, <1>6, FS_Surjection

(* A certificate verifies only over as many signing keys as the quorum.    *)
LEMMA QuorumSigned ==
  ASSUME NEW base, base.quorum \in Nat, NEW S, NEW seal \in Seq(S),
         VerifyUnicityCertificate(seal, base)
  PROVE  Cardinality(SigningKeys(seal, base)) >= base.quorum
  <1> DEFINE L == Len(seal)
             c == Counting(seal, base)
             Bad == {n \in 0..L : ~ Tallied(c[n], seal, base)}
  <1>1. L \in Nat /\ \A n \in 1..L : seal[n] \in ToSet(seal)
    BY DEF ToSet
  <1>2. c[0] = NoSignature /\ \A n \in 1..L : c[n] = CountSignature(c[n - 1], seal[n], base)
    BY CountingUnfold
  <1>3. Cardinality(c[L].nodes) >= base.quorum
    BY DEF VerifyUnicityCertificate
  <1> HIDE DEF c, L
  <1>4. Tallied(c[0], seal, base)
    BY <1>2, FS_EmptySet DEF Tallied, NoSignature
  <1>5. Bad = {}
    <2>1. SUFFICES ASSUME Bad # {} PROVE FALSE
      OBVIOUS
    <2>2. PICK n \in Bad : \A m \in Bad : n <= m
      <3>1. Bad \in SUBSET Nat
        BY <1>1
      <3> HIDE DEF Bad
      <3>2. QED
        BY <2>1, <3>1, Least
    <2>3. n \in 1..L /\ n - 1 \in 0..L /\ ~ (n <= n - 1)
      BY <1>1, <1>4, <2>2
    <2>4. Tallied(c[n - 1], seal, base)
      BY <2>2, <2>3
    <2>5. Tallied(CountSignature(c[n - 1], seal[n], base), seal, base)
      BY <1>1, <2>3, <2>4, CountSignatureTallies
    <2>6. QED
      BY <1>2, <2>2, <2>3, <2>5
  <1>6. L \in 0..L
    BY <1>1
  <1>7. Tallied(c[L], seal, base)
    BY <1>5, <1>6
  <1>8. IsFiniteSet(SigningKeys(seal, base))
    BY SigningKeysFinite
  <1>9. Cardinality(c[L].keys) <= Cardinality(SigningKeys(seal, base))
    BY <1>7, <1>8, FS_Subset DEF Tallied
  <1>10. /\ Cardinality(c[L].nodes) = Cardinality(c[L].keys)
         /\ Cardinality(c[L].nodes) \in Nat /\ Cardinality(SigningKeys(seal, base)) \in Nat
    BY <1>7, <1>8, FS_CardinalityType DEF Tallied
  <1>11. QED
    BY <1>3, <1>9, <1>10

(* In a state of the invariant every release has its quorums.              *)
LEMMA QuorumFollows ==
  ASSUME IInv
  PROVE  QuorumOfKeys
  <1>1. SUFFICES ASSUME NEW r \in released, NEW u \in Line(r.token)
                 PROVE  Cardinality(SigningKeys(Seals[u], TrustBases[r.trustBase]))
                          >= TrustBases[r.trustBase].quorum
    BY DEF QuorumOfKeys, SigningKeys, ValidSignatures
  <1>2. r.trustBase \in DOMAIN TrustBases /\ VerifyToken(u, r.trustBase)
    BY BackedLine DEF IInv, ReleasesBacked
  <1>3. u \in TokenIds /\ VerifyUnicityCertificate(Seals[u], TrustBases[r.trustBase])
    BY <1>2 DEF VerifyToken
  <1>4. Seals[u] \in Seq(ToSet(Seals[u])) /\ TrustBases[r.trustBase].quorum \in Nat
    BY <1>2, <1>3, RelationAssumption
  <1>5. QED
    BY <1>3, <1>4, QuorumSigned

(***************************************************************************)
(* Value is conserved along the lines                                      *)
(***************************************************************************)
Amounts == [t \in TokenIds |-> tokens[t].reason.amount]
(* The released tokens a token is at most n generations before.            *)
Heirs(v, n) == {t \in ReleasedTokens : \E j \in 0..n : Back(Source, t)[j] = v}

(* What the invariant says of a released token and its line.               *)
LEMMA ReleasedLine ==
  ASSUME IInv, NEW t \in ReleasedTokens
  PROVE  /\ t \in TokenIds /\ tokens[t].end = "return" /\ tokens[t].value = tokens[t].reason.amount
         /\ \A u \in Line(t) : u \in TokenIds /\ (tokens[u].origin = "split" => IsSplitOutput(u))
         /\ Ancestor(t) \in Line(t)
         /\ tokens[Ancestor(t)].origin = "lock" /\ tokens[Ancestor(t)].ours
         /\ tokens[Ancestor(t)].nonce \in DOMAIN Locks
         /\ Locks[tokens[Ancestor(t)].nonce].token = Ancestor(t)
         /\ Locks[tokens[Ancestor(t)].nonce].amount = tokens[Ancestor(t)].value
  <1>1. TypeOK /\ ParentsHold
    BY DEF IInv
  <1>2. PICK r \in released : r.token = t
    BY DEF ReleasedTokens
  <1>3. /\ Backed(t, r.trustBase)
        /\ tokens[t].end = "return" /\ tokens[t].value = tokens[t].reason.amount
    BY <1>2 DEF IInv, ReleasesBacked
  <1>4. /\ t \in TokenIds
        /\ \A u \in Line(t) : tokens[u].origin = "split" => IsSplitOutput(u)
        /\ IsLockMint(Ancestor(t))
        /\ tokens[Ancestor(t)].nonce \in DOMAIN Locks
        /\ Locks[tokens[Ancestor(t)].nonce].token = Ancestor(t)
        /\ Locks[tokens[Ancestor(t)].nonce].amount = tokens[Ancestor(t)].value
    BY <1>1, <1>3, BackedLine
  <1>5. Line(t) \in SUBSET TokenIds /\ Ancestor(t) \in Line(t)
    BY <1>1, <1>4, LineType
  <1>6. tokens[Ancestor(t)].origin = "lock" /\ tokens[Ancestor(t)].ours
    BY <1>4 DEF IsLockMint
  <1>7. QED
    BY <1>3, <1>4, <1>5, <1>6

(* The sums range over finite sets of naturals.                            *)
LEMMA AmountsNat ==
  ASSUME IInv
  PROVE  /\ IsFiniteSet(TokenIds) /\ NatOn(Amounts, TokenIds)
         /\ ReleasedTokens \in SUBSET TokenIds
         /\ \A v \in TokenIds : tokens[v].value \in Nat
  <1>1. tokens \in [TokenIds -> Token]
    BY DEF IInv, TypeOK
  <1>2. \A v \in TokenIds : tokens[v].value \in Nat /\ tokens[v].reason.amount \in Nat
    BY <1>1 DEF Token, Returns
  <1>3. \A t \in ReleasedTokens : t \in TokenIds
    BY ReleasedLine
  <1>4. QED
    BY <1>2, <1>3, RelationAssumption DEF NatOn, Amounts

(* A manifest allots naturals to finitely many tokens.                     *)
LEMMA ManifestsNat ==
  ASSUME IInv, NEW v \in TokenIds
  PROVE  LET m == tokens[v].manifest IN
         DOMAIN m \in SUBSET TokenIds /\ IsFiniteSet(DOMAIN m) /\ NatOn(m, DOMAIN m)
  <1>1. tokens[v].manifest \in Splits
    BY DEF IInv, TypeOK, Token
  <1> DEFINE m == tokens[v].manifest
  <1>2. CASE m = NoManifest
    BY <1>2, FS_EmptySet DEF NoManifest, NatOn
  <1>3. CASE m # NoManifest
    <2>1. PICK s \in Manifests : m = s.manifest
      BY <1>1, <1>3 DEF Splits
    <2>2. DOMAIN m \in SUBSET TokenIds /\ m \in [DOMAIN m -> Nat]
      BY <2>1, RelationAssumption
    <2>3. IsFiniteSet(TokenIds)
      BY RelationAssumption
    <2> HIDE DEF m
    <2>4. IsFiniteSet(DOMAIN m)
      BY <2>2, <2>3, FS_Subset
    <2>5. \A c \in DOMAIN m : m[c] \in Nat
      BY <2>2
    <2>6. QED
      BY <2>2, <2>4, <2>5 DEF NatOn, m
  <1>4. QED
    BY <1>2, <1>3

(* The step before a token other than itself on a released line is one of  *)
(* its split's outputs.                                                    *)
LEMMA HeirOfOutput ==
  ASSUME IInv, NEW n \in 1..Generations, NEW v \in TokenIds,
         NEW t \in Heirs(v, n), t # v
  PROVE  \E c \in DOMAIN tokens[v].manifest :
           /\ t \in Heirs(c, n - 1)
           /\ c \in TokenIds /\ tokens[c].parent = v /\ IsSplitOutput(c)
  <1> DEFINE g == Back(Source, t)
             At == {j \in 0..n : g[j] = v}
  <1>1. t \in ReleasedTokens /\ t \in TokenIds /\ At # {}
    BY ReleasedLine DEF Heirs
  <1>2. Generations \in Nat /\ n \in Nat /\ n <= Generations /\ Source \in [TokenIds -> TokenIds]
    BY GenerationsNat, SourceType DEF IInv
  <1>3. /\ g \in [0..Generations -> TokenIds] /\ g[0] = t
        /\ \A j \in 1..Generations : g[j] = Source[g[j - 1]]
    BY <1>1, <1>2, BackUnfold
  <1>4. \A j \in 0..Generations : g[j] \in Line(t)
    BY <1>1, LineType DEF IInv
  <1> HIDE DEF g
  <1>5. PICK j \in At : \A i \in At : j <= i
    <2>1. At \in SUBSET Nat
      BY <1>2
    <2> HIDE DEF At
    <2>2. QED
      BY <1>1, <2>1, Least
  <1>6. j # 0
    BY <1>3, <1>5
  <1>7. j \in 1..Generations /\ j - 1 \in 0..n - 1 /\ j - 1 \in 0..n /\ ~ (j <= j - 1)
        /\ j - 1 \in 0..Generations
    BY <1>2, <1>5, <1>6
  <1> DEFINE c == g[j - 1]
  <1>8. c # v
    BY <1>5, <1>7
  <1>9. v = Source[c] /\ c \in TokenIds /\ c \in Line(t)
    BY <1>3, <1>4, <1>5, <1>7
  <1>10. tokens[c].origin = "split" /\ tokens[c].parent = v
    BY <1>8, <1>9 DEF Source
  <1>11. IsSplitOutput(c)
    BY <1>1, <1>9, <1>10, ReleasedLine
  <1>12. c \in DOMAIN tokens[v].manifest
    BY <1>10, <1>11 DEF IsSplitOutput
  <1>13. t \in Heirs(c, n - 1)
    BY <1>1, <1>7 DEF Heirs, g
  <1>14. QED
    BY <1>9, <1>10, <1>11, <1>12, <1>13

(* What is released of a token's issue is worth no more than the token.    *)
ConservedAt(n) ==
  \A v \in TokenIds : SumFunctionOnSet(Amounts, Heirs(v, n)) <= tokens[v].value

(* A token with no other heir than itself is released for its own value at *)
(* most.                                                                   *)
LEMMA NoHeirs ==
  ASSUME IInv, NEW v \in TokenIds, NEW n \in 0..Generations, Heirs(v, n) \in SUBSET {v}
  PROVE  SumFunctionOnSet(Amounts, Heirs(v, n)) <= tokens[v].value
  <1>1. CASE Heirs(v, n) = {}
    BY <1>1, SumEmpty, AmountsNat
  <1>2. CASE Heirs(v, n) = {v}
    <2>1. v \in ReleasedTokens
      BY <1>2 DEF Heirs
    <2>2. Amounts[v] = tokens[v].value
      BY <2>1, ReleasedLine DEF Amounts
    <2>3. SumLaws(Amounts, {v})
      BY AmountsNat, SumRemoves
    <2>4. {v} \ {v} = {}
      OBVIOUS
    <2>5. SumFunctionOnSet(Amounts, {v}) = Amounts[v] + SumFunctionOnSet(Amounts, {})
      BY <2>3, <2>4 DEF SumLaws
    <2>6. SumFunctionOnSet(Amounts, {v}) = tokens[v].value /\ tokens[v].value \in Nat
      BY <2>2, <2>5, SumEmpty, AmountsNat
    <2>7. QED
      BY <1>2, <2>6
  <1>3. QED
    BY <1>1, <1>2

(* One generation more: the heirs of a split token are its outputs' heirs. *)
LEMMA ConservedStep ==
  ASSUME IInv, NEW n \in 1..Generations, ConservedAt(n - 1)
  PROVE  ConservedAt(n)
  <1>1. SUFFICES ASSUME NEW v \in TokenIds
                 PROVE  SumFunctionOnSet(Amounts, Heirs(v, n)) <= tokens[v].value
    BY DEF ConservedAt
  <1> DEFINE H == Heirs(v, n)
             m == tokens[v].manifest
             C == {c \in DOMAIN m : tokens[c].parent = v /\ IsSplitOutput(c)}
             D == [c \in C |-> Heirs(c, n - 1)]
  <1>2. IsFiniteSet(TokenIds) /\ NatOn(Amounts, TokenIds) /\ ReleasedTokens \in SUBSET TokenIds
    BY AmountsNat
  <1>3. DOMAIN m \in SUBSET TokenIds /\ IsFiniteSet(DOMAIN m) /\ NatOn(m, DOMAIN m)
    BY ManifestsNat
  <1>4. n \in 0..Generations
    BY GenerationsNat
  <1>5. \A t \in H : t # v => \E c \in C : t \in D[c]
    <2>1. TAKE t \in H
    <2>2. HAVE t # v
    <2>3. PICK c \in DOMAIN m : t \in Heirs(c, n - 1) /\ tokens[c].parent = v /\ IsSplitOutput(c)
      BY <2>2, HeirOfOutput
    <2>4. c \in C
      BY <2>3
    <2>5. QED
      BY <2>3, <2>4
  (* A token released is not split, so it is its own only heir.            *)
  <1>6. CASE C = {}
    <2>1. H \in SUBSET {v}
      BY <1>5, <1>6
    <2>2. QED
      BY <1>4, <2>1, NoHeirs
  <1>7. CASE C # {}
    <2>1. PICK b \in C : TRUE
      BY <1>7
    <2>2. tokens[b].parentBurned /\ tokens[b].origin = "split" /\ Allocated(m) = tokens[v].value
      BY <2>1 DEF IsSplitOutput
    <2>3. tokens[v].end = "split"
      BY <1>3, <2>1, <2>2 DEF IInv, ParentsHold
    <2>4. v \notin H
      BY <2>3, ReleasedLine DEF Heirs
    <2>5. Covered(H, D, C)
      BY <1>5, <2>4 DEF Covered
    <2>6. D \in [C -> SUBSET TokenIds] /\ H \in SUBSET TokenIds
      BY <1>2 DEF Heirs
    <2>7. C \in SUBSET DOMAIN m
      OBVIOUS
    <2>8. IsFiniteSet(C) /\ NatOn(m, C)
      BY <1>3, <2>7, FS_Subset DEF NatOn
    <2>9. Allows(Amounts, D, m, C)
      <3>1. SUFFICES ASSUME NEW c \in C PROVE SumFunctionOnSet(Amounts, Heirs(c, n - 1)) <= m[c]
        BY DEF Allows
      <3>2. m[c] = tokens[c].value /\ c \in TokenIds
        BY <1>3, <3>1 DEF IsSplitOutput
      <3>3. QED
        BY <3>2 DEF ConservedAt
    <2> HIDE DEF H, D, C, m
    <2>10. SumFunctionOnSet(Amounts, H) <= SumFunctionOnSet(m, C)
      BY <1>2, <2>5, <2>6, <2>8, <2>9, SumWithinAllowances
    <2>11. SumFunctionOnSet(m, C) <= SumFunctionOnSet(m, DOMAIN m)
      BY <1>3, <2>7, SumMonotone
    <2>12. SumFunctionOnSet(m, DOMAIN m) = tokens[v].value
      BY <2>2 DEF Allocated
    <2>13. /\ SumFunctionOnSet(Amounts, H) \in Nat /\ SumFunctionOnSet(m, C) \in Nat
           /\ SumFunctionOnSet(m, DOMAIN m) \in Nat
      <3>1. SumLaws(Amounts, H)
        BY <1>2, <2>6, SumRemoves
      <3>2. QED
        BY <1>3, <2>8, <3>1, SumNat DEF SumLaws
    <2>14. QED
      BY <2>10, <2>11, <2>12, <2>13 DEF H
  <1>8. QED
    BY <1>6, <1>7

(* And so for every number of generations.                                 *)
LEMMA Conserved ==
  ASSUME IInv
  PROVE  ConservedAt(Generations)
  <1> DEFINE Bad == {n \in 0..Generations : ~ ConservedAt(n)}
  <1>1. Generations \in Nat
    BY GenerationsNat
  <1>2. ConservedAt(0)
    <2>1. SUFFICES ASSUME NEW v \in TokenIds
                   PROVE  SumFunctionOnSet(Amounts, Heirs(v, 0)) <= tokens[v].value
      BY DEF ConservedAt
    <2>2. 0 \in 0..Generations /\ Source \in [TokenIds -> TokenIds]
      BY <1>1, SourceType DEF IInv
    <2>3. Heirs(v, 0) \in SUBSET {v}
      <3>1. SUFFICES ASSUME NEW t \in Heirs(v, 0) PROVE t = v
        OBVIOUS
      <3>2. t \in TokenIds /\ Back(Source, t)[0] = v
        BY ReleasedLine DEF Heirs
      <3>3. QED
        BY <2>2, <3>2, BackUnfold
    <2>4. QED
      BY <2>2, <2>3, NoHeirs
  <1>3. SUFFICES ASSUME Bad # {} PROVE FALSE
    BY <1>1
  <1>4. PICK n \in Bad : \A m \in Bad : n <= m
    <2>1. Bad \in SUBSET Nat
      BY <1>1
    <2> HIDE DEF Bad
    <2>2. QED
      BY <1>3, <2>1, Least
  <1>5. n \in 1..Generations /\ n - 1 \in 0..Generations /\ ~ (n <= n - 1)
    BY <1>1, <1>2, <1>4
  <1>6. ConservedAt(n - 1)
    BY <1>4, <1>5
  <1>7. QED
    BY <1>4, <1>5, <1>6, ConservedStep

(* In a state of the invariant no lock is drawn on beyond its amount.      *)
LEMMA ReleasesFollow ==
  ASSUME IInv
  PROVE  ReleasesWithinLocks
  <1>1. \A t \in ReleasedTokens :
          /\ tokens[Ancestor(t)].origin = "lock" /\ tokens[Ancestor(t)].ours
          /\ tokens[Ancestor(t)].nonce \in DOMAIN Locks
          /\ Locks[tokens[Ancestor(t)].nonce].token = Ancestor(t)
    BY ReleasedLine
  <1>2. ASSUME NEW k \in DOMAIN Locks
        PROVE  SumFunctionOnSet(Amounts, {t \in ReleasedTokens : tokens[Ancestor(t)].nonce = k})
                 <= Locks[k].amount
    <2> DEFINE R == {t \in ReleasedTokens : tokens[Ancestor(t)].nonce = k}
               v == Locks[k].token
    <2>1. CASE R = {}
      <3>1. Locks[k].amount \in Nat
        BY RelationAssumption
      <3>2. QED
        BY <2>1, <3>1, SumEmpty
    <2>2. CASE R # {}
      <3>1. \A t \in R : Ancestor(t) = v
        BY <1>1
      <3>2. v \in TokenIds /\ tokens[v].value = Locks[k].amount
        BY <2>2, <3>1, ReleasedLine
      <3>3. R \in SUBSET Heirs(v, Generations)
        <4>1. Generations \in 0..Generations
          BY GenerationsNat
        <4>2. QED
          BY <3>1, <4>1 DEF Heirs, Ancestor, Generations
      <3>4. Heirs(v, Generations) \in SUBSET TokenIds
        BY AmountsNat DEF Heirs
      <3>5. IsFiniteSet(Heirs(v, Generations)) /\ NatOn(Amounts, Heirs(v, Generations))
        BY <3>4, AmountsNat, FS_Subset DEF NatOn
      <3> HIDE DEF R, v
      <3>6. SumFunctionOnSet(Amounts, R) <= SumFunctionOnSet(Amounts, Heirs(v, Generations))
        BY <3>3, <3>5, SumMonotone
      <3>7. SumFunctionOnSet(Amounts, Heirs(v, Generations)) <= tokens[v].value
        BY <3>2, Conserved DEF ConservedAt
      <3>8. SumFunctionOnSet(Amounts, R) \in Nat
        BY <3>3, <3>5, SumRemoves DEF SumLaws
      <3>9. /\ SumFunctionOnSet(Amounts, Heirs(v, Generations)) \in Nat
            /\ tokens[v].value \in Nat
        BY <3>2, <3>5, SumNat, AmountsNat
      <3>10. QED
        BY <3>2, <3>6, <3>7, <3>8, <3>9 DEF R
    <2>3. QED
      BY <2>1, <2>2
  <1>3. QED
    BY <1>1, <1>2 DEF ReleasesWithinLocks, Amounts

(***************************************************************************)
(* Unicity's steps leave what is released as it is                         *)
(***************************************************************************)

(* A token's mint is for good, and nothing happens to a burned token.      *)
Evolves ==
  /\ tokens' \in [TokenIds -> Token]
  /\ \A u \in TokenIds :
       /\ tokens[u].origin # "none" =>
            /\ tokens'[u].origin = tokens[u].origin /\ tokens'[u].nonce = tokens[u].nonce
            /\ tokens'[u].claim = tokens[u].claim /\ tokens'[u].ours = tokens[u].ours
            /\ tokens'[u].value = tokens[u].value /\ tokens'[u].parent = tokens[u].parent
            /\ tokens'[u].parentBurned = tokens[u].parentBurned
       /\ tokens[u].end # "live" => tokens'[u] = tokens[u]

(* A minted token has a minted source, and keeps it.                       *)
LEMMA MintedStays ==
  ASSUME IInv, Evolves, NEW u \in TokenIds, tokens[u].origin # "none"
  PROVE  /\ Source[u] \in TokenIds /\ tokens[Source[u]].origin # "none"
         /\ Source'[u] = Source[u]
  BY DEF IInv, ParentsHold, Evolves, Source

(* The line of a minted token never changes.                               *)
LEMMA LineStays ==
  ASSUME IInv, Evolves, ParentsHold', NEW t \in TokenIds, tokens[t].origin # "none"
  PROVE  Line(t)' = Line(t) /\ Ancestor(t)' = Ancestor(t)
  <1> DEFINE M == {u \in TokenIds : tokens[u].origin # "none"}
  <1>1. Source \in [TokenIds -> TokenIds]
    BY SourceType DEF IInv
  <1>2. Source' \in [TokenIds -> TokenIds]
    BY DEF ParentsHold, Source
  <1>3. \A u \in M : Source[u] \in M /\ Source'[u] = Source[u]
    BY MintedStays
  <1>4. t \in M /\ M \in SUBSET TokenIds
    OBVIOUS
  <1> HIDE DEF M
  <1>5. Back(Source', t) = Back(Source, t)
    BY <1>1, <1>2, <1>3, <1>4, BackWithin
  <1>6. Back(Source, t)' = Back(Source', t)
    BY DEF Back
  <1>7. QED
    BY <1>5, <1>6 DEF Line, Ancestor

(* An output of a split that holds goes on holding.                        *)
LEMMA SplitOutputStays ==
  ASSUME IInv, Evolves, NEW u \in TokenIds, IsSplitOutput(u)
  PROVE  IsSplitOutput(u)'
  <1> DEFINE p == tokens[u].parent
  <1>1. /\ tokens[u].origin = "split" /\ tokens[u].parentBurned
        /\ tokens[u].ours = tokens[p].ours /\ u \in DOMAIN tokens[p].manifest
        /\ tokens[p].manifest[u] = tokens[u].value
        /\ Allocated(tokens[p].manifest) = tokens[p].value
    BY DEF IsSplitOutput
  <1>2. p \in TokenIds /\ tokens[p].end = "split"
    BY <1>1 DEF IInv, ParentsHold
  <1>3. tokens'[p] = tokens[p]
    BY <1>2 DEF Evolves
  <1>4. /\ tokens'[u].origin = "split" /\ tokens'[u].parent = p
        /\ tokens'[u].parentBurned = tokens[u].parentBurned
        /\ tokens'[u].ours = tokens[u].ours /\ tokens'[u].value = tokens[u].value
    BY <1>1 DEF Evolves
  <1> HIDE DEF p
  <1>5. Allocated(tokens'[p].manifest) = tokens'[p].value
    BY <1>1, <1>3
  <1>6. QED
    BY <1>1, <1>3, <1>4, <1>5 DEF IsSplitOutput, Allocated

(* A token whose line leads to a lock goes on owing to that lock.          *)
LEMMA ObligationStays ==
  ASSUME IInv, Evolves, ParentsHold', NEW t, NEW name, Obligation(t, name) # NoObligation
  PROVE  t \in TokenIds /\ Obligation(t, name)' = Obligation(t, name)
  <1>1. /\ \A u \in Line(t) : VerifyToken(u, name)
        /\ \A u \in Line(t) \ {Ancestor(t)} : IsSplitOutput(u)
        /\ IsLockMint(Ancestor(t))
        /\ Obligation(t, name) = LockObligation(Ancestor(t))
    BY DEF Obligation
  <1>2. t \in TokenIds /\ t \in Line(t) /\ tokens[t].origin # "none"
    BY <1>1 DEF VerifyToken, Line
  <1>3. Line(t) \in SUBSET TokenIds /\ Ancestor(t) \in Line(t)
    BY <1>2, LineType DEF IInv
  <1>4. Line(t)' = Line(t) /\ Ancestor(t)' = Ancestor(t)
    BY <1>2, LineStays
  <1>5. \A u \in Line(t) : VerifyToken(u, name)'
    <2>1. TAKE u \in Line(t)
    <2>2. VerifyToken(u, name)
      BY <1>1
    <2>3. u \in TokenIds /\ tokens'[u].origin = tokens[u].origin
      BY <2>2 DEF VerifyToken, Evolves
    <2>4. QED
      BY <2>2, <2>3 DEF VerifyToken
  <1>6. \A u \in Line(t) \ {Ancestor(t)} : IsSplitOutput(u)'
    BY <1>1, <1>3, SplitOutputStays
  <1> DEFINE a == Ancestor(t)
  <1>7. a \in TokenIds /\ tokens[a].origin = "lock"
    BY <1>1, <1>3 DEF IsLockMint
  <1>8. IsLockMint(a)' /\ LockObligation(a)' = LockObligation(a)
    BY <1>1, <1>4, <1>7 DEF Evolves, IsLockMint, LockObligation
  <1>9. Obligation(t, name)' = Obligation(t, name)
    BY <1>1, <1>4, <1>5, <1>6, <1>8 DEF Obligation
  <1>10. QED
    BY <1>2, <1>9

(* A token backed by a lock stays backed by it.                            *)
LEMMA BackedStays ==
  ASSUME IInv, Evolves, ParentsHold', NEW t, NEW name, Backed(t, name)
  PROVE  Backed(t, name)'
  <1>1. Obligation(t, name)' = Obligation(t, name)
    BY ObligationStays DEF Backed
  <1>2. QED
    BY <1>1 DEF Backed, StoredDigest

(* The initial state: nothing minted, nothing released.                    *)
LEMMA InitHolds ==
  ASSUME Init
  PROVE  IInv
  <1>1. Unminted \in Token
    BY DEF Unminted, Token, NoReason, Returns, Splits
  <1>2. /\ tokens = [t \in TokenIds |-> Unminted] /\ queue = <<>> /\ log = <<>> /\ released = {}
        /\ spentRoot = EmptyTreeRoot
    BY DEF Init
  <1>3. TypeOK
    BY <1>1, <1>2 DEF TypeOK, ReleasedTokens, ToSet, IsInjective
  <1>4. ParentsHold
    BY <1>2 DEF ParentsHold, Unminted
  <1>5. ReleasesBacked
    BY <1>2 DEF ReleasesBacked
  <1>6. Sequenced
    <2>1. queue \in Seq(TokenIds) /\ log \in Seq({})
      BY <1>2
    <2>2. QED
      BY <2>1 DEF Sequenced
  <1>7. LogIsAChain
    <2>1. Len(log) = 0 /\ DOMAIN log = 1..0 /\ 1..0 = {}
      BY <1>2
    <2>2. Chained(log, 0)
      BY <2>1 DEF Chained
    <2>3. Prefix(log, 0) = {} /\ ReleasedKeys = {}
      BY <1>2, <2>1 DEF Prefix, ReleasedKeys
    <2>4. TreeRoot({}) = EmptyTreeRoot
      BY DEF TreeRoot
    <2>5. QED
      BY <1>2, <2>1, <2>2, <2>3, <2>4 DEF LogIsAChain
  <1>8. QED
    BY <1>3, <1>4, <1>5, <1>6, <1>7 DEF IInv

(***************************************************************************)
(* The steps of Unicity                                                    *)
(***************************************************************************)
UnicityStep == Evolves /\ ParentsHold' /\ UNCHANGED <<queue, log, spentRoot, released>>
LEMMA TokenStep ==
  ASSUME IInv, UnicityStep
  PROVE  IInv'
  <1> USE DEF UnicityStep
  <1>1. TypeOK'
    BY DEF IInv, TypeOK, Evolves, ReleasedTokens
  <1>2. ReleasesBacked'
    <2>1. SUFFICES ASSUME NEW r \in released
                   PROVE  /\ tokens'[r.token].end = "return"
                          /\ tokens'[r.token].value = tokens'[r.token].reason.amount
                          /\ Backed(r.token, r.trustBase)'
      BY DEF ReleasesBacked
    <2>2. /\ tokens[r.token].end = "return" /\ tokens[r.token].value = tokens[r.token].reason.amount
          /\ Backed(r.token, r.trustBase)
      BY DEF IInv, ReleasesBacked
    <2>3. r.token \in TokenIds
      BY <2>2, BackedLine DEF IInv
    <2>4. tokens'[r.token] = tokens[r.token]
      BY <2>2, <2>3 DEF Evolves
    <2>5. Backed(r.token, r.trustBase)'
      BY <2>2, BackedStays
    <2>6. QED
      BY <2>2, <2>4, <2>5
  <1>3. Sequenced'
    BY DEF IInv, Sequenced
  <1>4. LogIsAChain'
    BY DEF IInv, LogIsAChain, ReleasedKeys
  <1>5. QED
    BY <1>1, <1>2, <1>3, <1>4 DEF IInv

(* A mint comes to a token there was none of, of a minted parent.          *)
LEMMA MintStep ==
  ASSUME IInv, NEW m \in Mints, Mint(m)
  PROVE  UnicityStep
  <1> DEFINE t == m.token
             burned == m.genesis.origin = "split" /\ tokens[m.genesis.parent].end = "split"
             k == [m.genesis EXCEPT !.parentBurned = burned]
  <1>1. t \in TokenIds /\ IsGenesis(m.genesis)
    BY RelationAssumption
  <1>2. m.genesis \in Token /\ m.genesis.origin # "none" /\ m.genesis.end = "live"
        /\ (m.genesis.origin = "split" => m.genesis.parent \in TokenIds)
    BY <1>1 DEF IsGenesis
  <1>3. tokens \in [TokenIds -> Token]
    BY DEF IInv, TypeOK
  <1>4. /\ tokens[t].origin = "none" /\ tokens' = [tokens EXCEPT ![t] = k]
        /\ m.genesis.origin = "split" => tokens[m.genesis.parent].origin # "none"
        /\ UNCHANGED <<queue, log, spentRoot, released>>
    BY DEF Mint
  <1>5. k \in Token
    BY <1>2 DEF Token
  <1>6. /\ k.origin = m.genesis.origin /\ k.parent = m.genesis.parent /\ k.end = "live"
        /\ k.parentBurned = burned
    BY <1>2 DEF Token
  <1> HIDE DEF k, t
  <1>7. /\ tokens' \in [TokenIds -> Token] /\ tokens'[t] = k
        /\ \A u \in TokenIds : u # t => tokens'[u] = tokens[u]
    BY <1>1, <1>3, <1>4, <1>5 DEF t
  <1>8. tokens[t].end = "live"
    BY <1>1, <1>4 DEF IInv, ParentsHold, t
  <1>9. Evolves
    BY <1>4, <1>7, <1>8 DEF Evolves
  <1>10. ParentsHold'
    <2>1. SUFFICES ASSUME NEW u \in TokenIds
                   PROVE  /\ tokens'[u].origin = "none" => tokens'[u].end = "live"
                          /\ tokens'[u].origin = "split" =>
                               /\ tokens'[u].parent \in TokenIds
                               /\ tokens'[tokens'[u].parent].origin # "none"
                               /\ tokens'[u].parentBurned => tokens'[tokens'[u].parent].end = "split"
      BY DEF ParentsHold
    <2>2. CASE u = t
      <3>1. tokens'[u] = k
        BY <1>7, <2>2
      <3>2. SUFFICES ASSUME k.origin = "split"
                     PROVE  /\ k.parent \in TokenIds /\ tokens'[k.parent].origin # "none"
                            /\ k.parentBurned => tokens'[k.parent].end = "split"
        BY <1>6, <3>1
      <3>3. k.parent \in TokenIds /\ tokens[k.parent].origin # "none"
        BY <1>2, <1>4, <1>6, <3>2
      <3>4. tokens'[k.parent] = tokens[k.parent]
        BY <1>4, <1>7, <3>3
      <3>5. k.parentBurned => tokens[k.parent].end = "split"
        BY <1>6
      <3>6. QED
        BY <3>3, <3>4, <3>5
    <2>3. CASE u # t
      <3>1. tokens'[u] = tokens[u]
        BY <1>7, <2>3
      <3>2. SUFFICES ASSUME tokens[u].origin = "split"
                     PROVE  /\ tokens[u].parent \in TokenIds
                            /\ tokens'[tokens[u].parent].origin # "none"
                            /\ tokens[u].parentBurned => tokens'[tokens[u].parent].end = "split"
        BY <3>1 DEF IInv, ParentsHold
      <3>3. /\ tokens[u].parent \in TokenIds /\ tokens[tokens[u].parent].origin # "none"
            /\ tokens[u].parentBurned => tokens[tokens[u].parent].end = "split"
        BY <3>2 DEF IInv, ParentsHold
      <3>4. tokens'[tokens[u].parent] = tokens[tokens[u].parent]
        BY <1>4, <1>7, <3>3
      <3>5. QED
        BY <3>3, <3>4
    <2>4. QED
      BY <2>2, <2>3
  <1>11. QED
    BY <1>4, <1>9, <1>10 DEF UnicityStep

(* A burn of a live token, of either kind.                                 *)
LEMMA BurnStep ==
  ASSUME IInv, NEW t \in TokenIds, Live(t), NEW k \in Token,
         tokens' = [tokens EXCEPT ![t] = k],
         k.origin = tokens[t].origin, k.nonce = tokens[t].nonce, k.claim = tokens[t].claim,
         k.ours = tokens[t].ours, k.value = tokens[t].value, k.parent = tokens[t].parent,
         k.parentBurned = tokens[t].parentBurned,
         UNCHANGED <<queue, log, spentRoot, released>>
  PROVE  UnicityStep
  <1>1. tokens \in [TokenIds -> Token] /\ tokens[t].origin # "none" /\ tokens[t].end = "live"
    BY DEF IInv, TypeOK, Live
  <1>2. /\ tokens' \in [TokenIds -> Token] /\ tokens'[t] = k
        /\ \A u \in TokenIds : u # t => tokens'[u] = tokens[u]
    BY <1>1
  <1>3. Evolves
    BY <1>1, <1>2 DEF Evolves
  <1>4. ParentsHold'
    <2>1. SUFFICES ASSUME NEW u \in TokenIds
                   PROVE  /\ tokens'[u].origin = "none" => tokens'[u].end = "live"
                          /\ tokens'[u].origin = "split" =>
                               /\ tokens'[u].parent \in TokenIds
                               /\ tokens'[tokens'[u].parent].origin # "none"
                               /\ tokens'[u].parentBurned => tokens'[tokens'[u].parent].end = "split"
      BY DEF ParentsHold
    <2>2. /\ tokens'[u].origin = tokens[u].origin /\ tokens'[u].parent = tokens[u].parent
          /\ tokens'[u].parentBurned = tokens[u].parentBurned
          /\ tokens[u].origin = "none" => tokens'[u] = tokens[u]
      BY <1>1, <1>2
    <2>3. /\ tokens[u].origin = "none" => tokens[u].end = "live"
          /\ tokens[u].origin = "split" =>
               /\ tokens[u].parent \in TokenIds
               /\ tokens[tokens[u].parent].origin # "none"
               /\ tokens[u].parentBurned => tokens[tokens[u].parent].end = "split"
      BY DEF IInv, ParentsHold
    <2>4. \A p \in TokenIds : /\ tokens'[p].origin = tokens[p].origin
                              /\ tokens[p].end = "split" => tokens'[p].end = "split"
      BY <1>1, <1>2
    <2>5. QED
      BY <2>2, <2>3, <2>4
  <1>5. QED
    BY <1>3, <1>4 DEF UnicityStep

(* A live token is burned for a split.                                     *)
LEMMA SplitBurnStep ==
  ASSUME IInv, NEW s \in Manifests, SplitBurn(s.token, s.manifest)
  PROVE  UnicityStep
  <1> DEFINE t == s.token
             k == [tokens[t] EXCEPT !.end = "split", !.manifest = s.manifest]
  <1>1. t \in TokenIds /\ s.manifest \in Splits /\ tokens[t] \in Token
    BY RelationAssumption DEF Splits, IInv, TypeOK
  <1>2. /\ Live(t) /\ tokens' = [tokens EXCEPT ![t] = k]
        /\ UNCHANGED <<queue, log, spentRoot, released>>
    BY <1>1 DEF SplitBurn, IInv, TypeOK
  <1>3. k \in Token
    BY <1>1 DEF Token
  <1>4. /\ k.origin = tokens[t].origin /\ k.nonce = tokens[t].nonce /\ k.claim = tokens[t].claim
        /\ k.ours = tokens[t].ours /\ k.value = tokens[t].value /\ k.parent = tokens[t].parent
        /\ k.parentBurned = tokens[t].parentBurned
    BY <1>1 DEF Token
  <1> HIDE DEF k, t
  <1>5. QED
    BY <1>1, <1>2, <1>3, <1>4, BurnStep

(* A live token is burned for a return.                                    *)
LEMMA ReturnBurnStep ==
  ASSUME IInv, NEW r \in Reasons, ReturnBurn(r.token, r.reason)
  PROVE  UnicityStep
  <1> DEFINE t == r.token
             k == [tokens[t] EXCEPT !.end = "return", !.reason = r.reason]
  <1>1. t \in TokenIds /\ r.reason \in Returns /\ tokens[t] \in Token
    BY RelationAssumption DEF IInv, TypeOK
  <1>2. /\ Live(t) /\ tokens' = [tokens EXCEPT ![t] = k]
        /\ UNCHANGED <<queue, log, spentRoot, released>>
    BY <1>1 DEF ReturnBurn, IInv, TypeOK
  <1>3. k \in Token
    BY <1>1 DEF Token
  <1>4. /\ k.origin = tokens[t].origin /\ k.nonce = tokens[t].nonce /\ k.claim = tokens[t].claim
        /\ k.ours = tokens[t].ours /\ k.value = tokens[t].value /\ k.parent = tokens[t].parent
        /\ k.parentBurned = tokens[t].parentBurned
    BY <1>1 DEF Token
  <1> HIDE DEF k, t
  <1>5. QED
    BY <1>1, <1>2, <1>3, <1>4, BurnStep

(***************************************************************************)
(* Intake and settlement                                                   *)
(***************************************************************************)

(* What holds of the tokens holds of the same tokens.                      *)
LEMMA TokensStay ==
  ASSUME IInv, tokens' = tokens
  PROVE  ParentsHold' /\ Evolves /\ \A r \in released : Backed(r.token, r.trustBase)'
  <1>1. ParentsHold'
    BY DEF IInv, ParentsHold
  <1>2. Evolves
    BY DEF IInv, TypeOK, Evolves
  <1>3. QED
    BY <1>1, <1>2, BackedStays DEF IInv, ReleasesBacked

(* Intake queues a return that is not queued.                              *)
LEMMA IntakeStep ==
  ASSUME IInv, NEW t \in TokenIds, Intake(t)
  PROVE  IInv'
  <1>1. /\ t \notin ToSet(queue) /\ queue' = Append(queue, t)
        /\ UNCHANGED <<tokens, log, spentRoot, released>>
    BY DEF Intake
  <1>2. queue \in Seq(TokenIds) /\ IsInjective(queue) /\ \E S : log \in Seq(S)
    BY DEF IInv, TypeOK, Sequenced
  <1>3. /\ queue' \in Seq(TokenIds) /\ Len(queue') = Len(queue) + 1
        /\ \A i \in 1..Len(queue) : queue'[i] = queue[i]
        /\ queue'[Len(queue) + 1] = t
    BY <1>1, <1>2
  <1>4. \A i \in 1..Len(queue) : queue[i] # t
    BY <1>1, <1>2 DEF ToSet
  <1>5. IsInjective(queue')
    <2>1. DOMAIN queue = 1..Len(queue) /\ DOMAIN queue' = 1..Len(queue) + 1 /\ Len(queue) \in Nat
      BY <1>2, <1>3
    <2>2. \A i, j \in 1..Len(queue) : queue[i] = queue[j] => i = j
      BY <1>2, <2>1 DEF IsInjective
    <2>3. \A i \in 1..Len(queue) + 1 : i \in 1..Len(queue) \/ i = Len(queue) + 1
      BY <2>1
    <2>4. \A i, j \in 1..Len(queue) + 1 : queue'[i] = queue'[j] => i = j
      BY <1>3, <1>4, <2>2, <2>3
    <2>5. QED
      BY <2>1, <2>4 DEF IsInjective
  <1>6. ToSet(queue') \subseteq TokenIds
    BY <1>3 DEF ToSet
  <1>7. TypeOK'
    BY <1>1, <1>5, <1>6 DEF IInv, TypeOK, ReleasedTokens
  <1>8. ReleasesBacked' /\ ParentsHold'
    BY <1>1, TokensStay DEF IInv, ReleasesBacked
  <1>9. LogIsAChain'
    BY <1>1 DEF IInv, LogIsAChain, ReleasedKeys
  <1>10. QED
    BY <1>1, <1>2, <1>3, <1>7, <1>8, <1>9 DEF IInv, Sequenced

(* What the service rebuilds from the vault's log is what is released.     *)
LEMMA SpentIsReleased ==
  ASSUME IInv
  PROVE  /\ Len(log) \in Nat /\ DOMAIN log = 1..Len(log)
         /\ Spent = ReleasedKeys /\ ReleasedKeys \in SUBSET Keys
  <1> DEFINE n == Len(log)
  <1>1. n \in Nat /\ DOMAIN log = 1..n
    BY DEF IInv, Sequenced
  <1>2. Chained(log, n) /\ Prefix(log, n) = ReleasedKeys
    BY DEF IInv, LogIsAChain
  <1>3. \A i \in 1..n : SameTransition(log[i], log[i])
    BY DEF SameTransition
  <1>4. \A j \in 1..n : OfChain(log[j], log, n)
    BY <1>3 DEF OfChain
  <1>5. \A i \in 1..n : Copies(log, log, i) # {}
    BY <1>1, <1>3 DEF Copies
  <1> HIDE DEF n
  <1>6. n <= n
    BY <1>1
  <1>7. Rebuild(log).spent = Prefix(log, n)
    BY <1>1, <1>2, <1>4, <1>5, <1>6, RebuildFollowsTheChain
  <1>8. Prefix(log, n) \in SUBSET Keys
    <2>1. n \in 0..n
      BY <1>1
    <2>2. QED
      BY <1>1, <1>2, <2>1, PrefixGrows
  <1>9. QED
    BY <1>1, <1>2, <1>7, <1>8 DEF Spent, n

(* A settlement extends the chain.                                         *)
LEMMA ChainStep ==
  ASSUME IInv, NEW burns, NEW m \in Nat, DOMAIN burns = 1..m, NEW name,
         \A i \in DOMAIN burns : burns[i] \in TokenIds,
         FulfillBatch(BatchInput(burns, name, Spent))
  PROVE  LogIsAChain'
  <1> DEFINE x == BatchInput(burns, name, Spent)
             order == [i \in DOMAIN burns |-> KeyOf[burns[i]]]
             n == Len(log)
             entry == [nullifiers |-> [i \in DOMAIN x.leaves |-> x.leaves[i].nullifier],
                       rootOld |-> x.spentRootOld, rootNew |-> x.spentRootNew, txid |-> n + 1]
  <1>1. /\ x.burns = burns /\ x.trustBase = name
        /\ x.leaves = [i \in DOMAIN burns |-> LeafOf(burns[i])]
        /\ x.spentRootOld = TreeRoot(Spent) /\ x.spentRootNew = TreeRoot(Spent \cup ToSet(order))
        /\ x.witnesses = IF Fresh(Spent, order) THEN OrderedInsertWitnesses(Spent, order) ELSE <<>>
    BY DEF BatchInput, NextBatch
  <1>2. /\ x.burns # <<>> /\ Len(x.leaves) = Len(x.witnesses)
        /\ log' = Append(log, entry) /\ spentRoot' = x.spentRootNew
        /\ released' = released \cup [token : ToSet(x.burns), trustBase : {x.trustBase}]
    BY DEF FulfillBatch, Execute, ValidateAccumulatorTransition, ValidateBridgeBurns
  <1> HIDE DEF x
  <1>3. /\ n \in Nat /\ DOMAIN log = 1..n /\ Spent = ReleasedKeys /\ Chained(log, n)
        /\ Prefix(log, n) = ReleasedKeys
    BY SpentIsReleased DEF IInv, LogIsAChain
  <1>4. m # 0
    BY <1>1, <1>2
  <1>5. IsOrder(order, m)
    <2>1. KeyOf \in [TokenIds -> Keys]
      BY RelationAssumption
    <2>2. QED
      BY <2>1 DEF IsOrder
  <1>6. Fresh(Spent, order)
    <2>1. Len(x.leaves) = m
      BY <1>1
    <2>2. Len(<<>>) = 0
      OBVIOUS
    <2>3. QED
      BY <1>1, <1>2, <1>4, <2>1, <2>2
  <1>7. entry.nullifiers = order
    <2>1. \A t : LeafOf(t).nullifier = KeyOf[t]
      BY DEF LeafOf
    <2>2. [i \in DOMAIN x.leaves |-> x.leaves[i].nullifier] = order
      BY <1>1, <2>1
    <2>3. QED
      BY <2>2
  <1>8. /\ entry.rootOld = TreeRoot(Spent) /\ entry.rootNew = TreeRoot(Spent \cup ToSet(order))
        /\ entry.txid = n + 1 /\ entry = Settlement(entry) /\ entry.nullifiers \in Seq(Keys)
    <2>1. order \in [1..m -> Keys]
      BY <1>5 DEF IsOrder
    <2>2. order \in Seq(Keys)
      BY <2>1
    <2>3. QED
      BY <1>1, <1>7, <2>2 DEF Settlement
  <1> HIDE DEF entry, order, n
  <1>9. Nonempty(entry.nullifiers)
    BY <1>4, <1>5, <1>7 DEF Nonempty
  <1>10. /\ Len(log') = n + 1 /\ DOMAIN log' = 1..n + 1
         /\ \A i \in 1..n : log'[i] = log[i]
         /\ log'[n + 1] = entry
    BY <1>2, SpentIsReleased DEF n, IInv, Sequenced
  <1>11. /\ Chained(log', n + 1)
         /\ Prefix(log', n + 1) = ReleasedKeys \cup ToSet(order)
    BY <1>3, <1>6, <1>7, <1>8, <1>9, <1>10, ChainGrows
  <1>12. ReleasedKeys' = ReleasedKeys \cup ToSet(order)
    <2>1. \A k : k \in ToSet(order) <=> \E i \in DOMAIN burns : k = KeyOf[burns[i]]
      BY DEF order, ToSet
    <2>2. \A k : k \in ReleasedKeys' <=> k \in ReleasedKeys \/ \E i \in DOMAIN burns : k = KeyOf[burns[i]]
      <3>1. \A r : r \in released' <=> r \in released \/ r \in [token : ToSet(burns), trustBase : {name}]
        BY <1>1, <1>2
      <3>2. \A t : t \in ToSet(burns) <=> \E i \in DOMAIN burns : t = burns[i]
        BY DEF ToSet
      <3>3. \A t \in ToSet(burns) : [token |-> t, trustBase |-> name] \in released'
        BY <3>1
      <3>4. \A r \in [token : ToSet(burns), trustBase : {name}] : r.token \in ToSet(burns)
        OBVIOUS
      <3>5. ASSUME NEW k \in ReleasedKeys'
            PROVE  k \in ReleasedKeys \/ \E i \in DOMAIN burns : k = KeyOf[burns[i]]
        <4>1. PICK r \in released' : k = KeyOf[r.token]
          BY DEF ReleasedKeys
        <4>2. QED
          BY <3>1, <3>2, <3>4, <4>1 DEF ReleasedKeys
      <3>6. ReleasedKeys \subseteq ReleasedKeys'
        BY <3>1 DEF ReleasedKeys
      <3>7. ASSUME NEW i \in DOMAIN burns
            PROVE  KeyOf[burns[i]] \in ReleasedKeys'
        <4> DEFINE r == [token |-> burns[i], trustBase |-> name]
        <4>1. r \in released' /\ r.token = burns[i]
          BY <3>2, <3>3
        <4>2. QED
          BY <4>1 DEF ReleasedKeys
      <3>8. QED
        BY <3>5, <3>6, <3>7
    <2>3. QED
      BY <2>1, <2>2
  <1>13. \A i \in DOMAIN log' :
           /\ log'[i] = Settlement(log'[i]) /\ log'[i].txid = i
           /\ log'[i].nullifiers \in Seq(Keys)
    <2>1. \A i \in 1..n : /\ log[i] = Settlement(log[i]) /\ log[i].txid = i
                          /\ log[i].nullifiers \in Seq(Keys)
      BY <1>3 DEF IInv, LogIsAChain
    <2>2. \A i \in 1..n + 1 : i \in 1..n \/ i = n + 1
      BY <1>3
    <2>3. QED
      BY <1>8, <1>10, <2>1, <2>2
  <1>14. spentRoot' = TreeRoot(ReleasedKeys \cup ToSet(order))
    BY <1>1, <1>2, <1>3 DEF order
  <1>15. QED
    BY <1>10, <1>11, <1>12, <1>13, <1>14 DEF LogIsAChain

(* What is due is queued, and what is selected and kept of it is of it.    *)
LEMMA DueMembers ==
  ASSUME IInv, NEW S, S # {}, S \subseteq ToSet(queue)
  PROVE  /\ Due(S) \in Seq(TokenIds) /\ ToSet(Due(S)) = S
         /\ Len(Due(S)) \in Nat \ {0}
  <1>1. queue \in Seq(TokenIds)
    BY DEF IInv, Sequenced
  <1>2. Due(S) \in Seq(TokenIds) /\ ToSet(Due(S)) = S
    <2>1. Among(S, queue) \in Seq(TokenIds) /\ ToSet(Among(S, queue)) = S \cap ToSet(queue)
      BY <1>1, AmongMembers
    <2>2. S \cap ToSet(queue) = S
      OBVIOUS
    <2>3. QED
      BY <2>1, <2>2 DEF Due
  <1>3. Len(Due(S)) # 0
    <2>1. SUFFICES ASSUME Len(Due(S)) = 0 PROVE FALSE
      OBVIOUS
    <2>2. DOMAIN Due(S) = {}
      BY <1>2, <2>1
    <2>3. QED
      BY <1>2, <2>2 DEF ToSet
  <1>4. QED
    BY <1>2, <1>3

LEMMA KeptStays ==
  ASSUME NEW T, NEW members \in Seq(T), NEW spent, NEW rejected
  PROVE  Kept(members, spent, rejected) \in Seq(T)
  <1> DEFINE n == Len(members)
  <1>1. n \in Nat /\ members \in [1..n -> T]
    OBVIOUS
  <1> HIDE DEF n
  <1>2. KeptUnfolds(members, spent, rejected, n, T)
    BY <1>1, KeptUnfold
  <1>3. PICK run \in [0..n -> Seq(T)] :
          KeptRun(run, members, spent, rejected, n) /\ Kept(members, spent, rejected) = run[n]
    BY <1>2 DEF KeptUnfolds
  <1>4. n \in 0..n
    BY <1>1
  <1>5. QED
    BY <1>3, <1>4

LEMMA KeptIsASequence ==
  ASSUME IInv, NEW S, S # {}, S \subseteq ToSet(queue), NEW spent, NEW rejected
  PROVE  /\ Select(Due(S)) \in Seq(TokenIds)
         /\ Kept(Select(Due(S)), spent, rejected) \in Seq(TokenIds)
  <1> DEFINE due == Due(S)
             n == Len(due) - 1
  <1>1. due \in Seq(TokenIds) /\ n \in Nat /\ Len(due) = n + 1
    BY DueMembers
  <1> HIDE DEF due, n
  <1>2. PICK run \in [0..n -> Seq(TokenIds)] : Select(due) = run[n]
    BY <1>1, SelectUnfold
  <1>3. n \in 0..n
    BY <1>1
  <1> DEFINE members == Select(due)
             m == Len(members)
  <1>4. members \in Seq(TokenIds) /\ m \in Nat /\ members \in [1..m -> TokenIds]
    BY <1>2, <1>3
  <1> HIDE DEF members, m
  <1>5. Kept(members, spent, rejected) \in Seq(TokenIds)
    BY <1>4, KeptStays
  <1>6. QED
    BY <1>4, <1>5 DEF members, due

(* The vault settles a batch: the relation and the vault's own check of    *)
(* the lock refs give every new release its lock.                          *)
LEMMA FulfillStep ==
  ASSUME IInv, NEW burns, NEW m \in Nat, DOMAIN burns = 1..m, NEW name,
         FulfillBatch(BatchInput(burns, name, Spent))
  PROVE  IInv'
  <1> DEFINE x == BatchInput(burns, name, Spent)
             entry == [nullifiers |-> [i \in DOMAIN x.leaves |-> x.leaves[i].nullifier],
                       rootOld |-> x.spentRootOld, rootNew |-> x.spentRootNew,
                       txid |-> Len(log) + 1]
  <1>1. /\ x.burns = burns /\ x.trustBase = name
        /\ x.leaves = [i \in DOMAIN burns |-> LeafOf(burns[i])]
    BY DEF BatchInput
  <1>2. /\ ValidateBridgeBurns(x) /\ LockRefsStored(x)
        /\ log' = Append(log, entry)
        /\ released' = released \cup [token : ToSet(x.burns), trustBase : {x.trustBase}]
        /\ UNCHANGED <<tokens, queue>>
    BY DEF FulfillBatch, Execute
  <1> HIDE DEF x
  <1>3. \A i \in DOMAIN burns :
          /\ Obligation(burns[i], name) # NoObligation
          /\ tokens[burns[i]].end = "return" /\ x.leaves[i] = LeafOf(burns[i])
          /\ tokens[burns[i]].value = x.leaves[i].amount
          /\ Obligation(burns[i], name) \in ToSet(x.lockRefs)
    BY <1>1, <1>2 DEF ValidateBridgeBurns, ValidateTerminalBurn, ValidateCurrentValue
  <1>4. \A i \in DOMAIN burns : Backed(burns[i], name)
    <2>1. \A ref \in ToSet(x.lockRefs) :
            ref.nonce \in DOMAIN Locks /\ ref.digest = StoredDigest(ref.nonce)
      BY <1>2 DEF LockRefsStored, ToSet
    <2>2. QED
      BY <1>3, <2>1 DEF Backed
  <1>5. \A i \in DOMAIN burns :
          /\ burns[i] \in TokenIds /\ tokens[burns[i]].end = "return"
          /\ tokens[burns[i]].value = tokens[burns[i]].reason.amount
    <2>1. \A i \in DOMAIN burns : burns[i] \in TokenIds
      BY <1>4, BackedLine DEF IInv
    <2>2. \A t : LeafOf(t).amount = tokens[t].reason.amount
      BY DEF LeafOf
    <2>3. QED
      BY <1>3, <2>1, <2>2
  <1>6. \A r \in released' : r \in released \/ \E i \in DOMAIN burns : r.token = burns[i] /\ r.trustBase = name
    BY <1>1, <1>2 DEF ToSet
  <1>7. ParentsHold' /\ Evolves
    BY <1>2, TokensStay
  <1>8. ReleasesBacked'
    <2>1. \A r \in released' : /\ Backed(r.token, r.trustBase)
                               /\ tokens[r.token].end = "return"
                               /\ tokens[r.token].value = tokens[r.token].reason.amount
      BY <1>4, <1>5, <1>6 DEF IInv, ReleasesBacked
    <2>2. \A r \in released' : Backed(r.token, r.trustBase)'
      BY <1>7, <2>1, BackedStays
    <2>3. QED
      BY <1>2, <2>1, <2>2 DEF ReleasesBacked
  <1>9. PICK S : log \in Seq(S)
    BY DEF IInv, Sequenced
  <1>10. ToSet(entry.nullifiers) \subseteq Keys
    <2>1. \A i \in DOMAIN burns : x.leaves[i].nullifier \in Keys
      <3>1. \A t : LeafOf(t).nullifier = KeyOf[t]
        BY DEF LeafOf
      <3>2. KeyOf \in [TokenIds -> Keys]
        BY RelationAssumption
      <3>3. QED
        BY <1>3, <1>5, <3>1, <3>2
    <2>2. entry.nullifiers = [i \in DOMAIN burns |-> x.leaves[i].nullifier]
      BY <1>1
    <2> HIDE DEF entry
    <2>3. QED
      BY <2>1, <2>2 DEF ToSet
  <1> HIDE DEF entry
  <1>11. log' \in Seq(S \cup {entry})
    BY <1>2, <1>9
  <1>12. \A i \in DOMAIN log' : ToSet(log'[i].nullifiers) \subseteq Keys
    <2>1. \A i \in DOMAIN log' : (i \in DOMAIN log /\ log'[i] = log[i]) \/ log'[i] = entry
      BY <1>2, <1>9
    <2>2. QED
      BY <1>10, <2>1 DEF IInv, TypeOK
  <1>13. ReleasedTokens' \subseteq TokenIds
    BY <1>5, <1>6 DEF IInv, TypeOK, ReleasedTokens
  <1>14. TypeOK'
    BY <1>2, <1>12, <1>13 DEF IInv, TypeOK
  <1>15. Sequenced'
    BY <1>2, <1>11 DEF IInv, Sequenced
  <1>16. LogIsAChain'
    BY <1>5, ChainStep
  <1>17. QED
    BY <1>7, <1>8, <1>14, <1>15, <1>16 DEF IInv

(* Every step keeps the invariant.                                         *)
LEMMA NextStep ==
  ASSUME IInv, [Next]_vars
  PROVE  IInv'
  <1>1. CASE \E m \in Mints : Mint(m)
    BY <1>1, MintStep, TokenStep
  <1>2. CASE \E s \in Manifests : SplitBurn(s.token, s.manifest)
    BY <1>2, SplitBurnStep, TokenStep
  <1>3. CASE \E r \in Reasons : ReturnBurn(r.token, r.reason)
    BY <1>3, ReturnBurnStep, TokenStep
  <1>4. CASE \E t \in TokenIds : Intake(t)
    BY <1>4, IntakeStep
  <1>5. CASE \E S \in SUBSET TokenIds : ServiceSettles(S)
    <2>1. PICK S \in SUBSET TokenIds : ServiceSettles(S)
      BY <1>5
    <2>2. FulfillBatch(Assembled(Select(Due(S)), Spent, Unbacked))
      BY <2>1 DEF ServiceSettles
    <2> DEFINE kept == Kept(Select(Due(S)), Spent, Unbacked)
    <2>3. FulfillBatch(BatchInput(kept, TrustBaseOf[kept[1]], Spent))
      BY <2>2 DEF Assembled
    <2>4. kept \in Seq(TokenIds)
      BY <2>1, KeptIsASequence DEF ServiceSettles
    <2> HIDE DEF kept
    <2>5. Len(kept) \in Nat /\ DOMAIN kept = 1..Len(kept)
      BY <2>4
    <2>6. QED
      BY <2>3, <2>5, FulfillStep
  <1>6. CASE \E burns \in Batches : \E name \in DOMAIN TrustBases : AnyoneSettles(burns, name)
    <2>1. PICK burns \in Batches, name \in DOMAIN TrustBases : AnyoneSettles(burns, name)
      BY <1>6
    <2>2. FulfillBatch(BatchInput(burns, name, Spent))
      BY <2>1 DEF AnyoneSettles
    <2>3. DOMAIN burns = 1..1 \/ DOMAIN burns = 1..2
      BY DEF Batches
    <2>4. QED
      BY <2>2, <2>3, FulfillStep
  <1>7. CASE UNCHANGED vars
    <2>1. ParentsHold' /\ Evolves
      BY <1>7, TokensStay DEF vars
    <2>2. QED
      BY <1>7, <2>1, TokenStep DEF UnicityStep, vars
  <1>8. QED
    BY <1>1, <1>2, <1>3, <1>4, <1>5, <1>6, <1>7 DEF Next

(* Whatever the step, tokens only evolve.                                  *)
LEMMA NextEvolves ==
  ASSUME IInv, [Next]_vars
  PROVE  Evolves /\ ParentsHold'
  <1>1. CASE tokens' = tokens
    BY <1>1, TokensStay
  <1>2. CASE \E m \in Mints : Mint(m)
    BY <1>2, MintStep DEF UnicityStep
  <1>3. CASE \E s \in Manifests : SplitBurn(s.token, s.manifest)
    BY <1>3, SplitBurnStep DEF UnicityStep
  <1>4. CASE \E r \in Reasons : ReturnBurn(r.token, r.reason)
    BY <1>4, ReturnBurnStep DEF UnicityStep
  <1>5. QED
    <2>1. (\E t \in TokenIds : Intake(t)) => tokens' = tokens
      BY DEF Intake
    <2>2. \A x : FulfillBatch(x) => tokens' = tokens
      BY DEF FulfillBatch
    <2>3. (\E S \in SUBSET TokenIds : ServiceSettles(S)) => tokens' = tokens
      BY <2>2 DEF ServiceSettles
    <2>4. (\E burns \in Batches : \E name \in DOMAIN TrustBases : AnyoneSettles(burns, name))
            => tokens' = tokens
      BY <2>2 DEF AnyoneSettles
    <2>5. UNCHANGED vars => tokens' = tokens
      BY DEF vars
    <2>6. QED
      BY <1>1, <1>2, <1>3, <1>4, <2>1, <2>3, <2>4, <2>5 DEF Next

(* The invariant behind every result of this module.                       *)
THEOREM InductiveInvariant == Spec => []IInv
  <1>1. Init => IInv
    BY InitHolds
  <1>2. IInv /\ [Next]_vars => IInv'
    BY NextStep
  <1>3. QED
    BY <1>1, <1>2, PTL DEF Spec

(* Tokens stay well formed, the service queues a return once, and only     *)
(* tokens are released.                                                    *)
THEOREM TypeCorrect == Spec => []TypeOK
  <1>1. IInv => TypeOK
    BY DEF IInv
  <1>2. QED
    BY <1>1, InductiveInvariant, PTL

(* Whatever is minted, split, burned and proved, every released return     *)
(* descends from the token a lock was made for, and the returns of a lock  *)
(* together are worth no more than it.                                     *)
THEOREM ReleasesWithinLocksHolds == Spec => []ReleasesWithinLocks
  <1>1. IInv => ReleasesWithinLocks
    BY ReleasesFollow
  <1>2. QED
    BY <1>1, InductiveInvariant, PTL

(* Every token of a released return's line is signed for by as many        *)
(* different keys of the trust base as its quorum asks for.                *)
THEOREM QuorumOfKeysHolds == Spec => []QuorumOfKeys
  <1>1. IInv => QuorumOfKeys
    BY QuorumFollows
  <1>2. QED
    BY <1>1, InductiveInvariant, PTL

(***************************************************************************)
(* The vault's accumulator                                                 *)
(***************************************************************************)
LEMMA RootFollows ==
  ASSUME IInv
  PROVE  RootTellsSpent
  <1>1. ReleasedKeys \in SUBSET Keys /\ spentRoot = TreeRoot(ReleasedKeys)
    BY SpentIsReleased DEF IInv, LogIsAChain
  <1>2. ASSUME NEW k \in Keys, NEW w, IsPath(w.steps), VerifyNonMember(spentRoot, k, w)
        PROVE  k \notin ReleasedKeys /\ Insert(spentRoot, k, w) = TreeRoot(ReleasedKeys \cup {k})
    BY <1>1, <1>2, NonMembershipSound
  <1>3. ASSUME NEW k \in Keys \ ReleasedKeys
        PROVE  Insert(spentRoot, k, NonMembershipWitness(ReleasedKeys, k))
                 = TreeRoot(ReleasedKeys \cup {k})
    <2>1. /\ IsPath(NonMembershipWitness(ReleasedKeys, k).steps)
          /\ VerifyNonMember(spentRoot, k, NonMembershipWitness(ReleasedKeys, k))
      BY <1>1, NonMembershipComplete
    <2>2. QED
      BY <1>2, <2>1
  <1>4. ASSUME NEW claim \in Claims, claim.root = spentRoot
        PROVE  claim.key \notin ReleasedKeys /\ claim.after = TreeRoot(ReleasedKeys \cup {claim.key})
    <2>1. PICK k \in Keys, w \in Witnesses : claim = Claim(k, w)
      BY DEF Claims
    <2>2. /\ claim.key = k /\ claim.root = RebuildAbsentRoot(k, w)
          /\ claim.after = Insert(claim.root, k, w)
      BY <2>1 DEF Claim
    <2>3. spentRoot # NoRoot
      BY <1>1, TreeRootForm
    <2>4. VerifyNonMember(spentRoot, k, w)
      BY <1>4, <2>2, <2>3 DEF VerifyNonMember
    <2>5. IsPath(w.steps)
      BY WitnessesArePaths
    <2>6. QED
      BY <1>2, <1>4, <2>2, <2>4, <2>5
  <1>5. QED
    BY <1>1, <1>3, <1>4 DEF RootTellsSpent, ReleasedKeys

(* In every state the vault's root tells a spent nullifier from an unspent *)
(* one: the honest witness of an unspent one verifies and inserts it, and  *)
(* no witness at all verifies for a spent one.                             *)
THEOREM RootTellsSpentHolds == Spec => []RootTellsSpent
  <1>1. IInv => RootTellsSpent
    BY RootFollows
  <1>2. QED
    BY <1>1, InductiveInvariant, PTL

(* What another sequence of entries says of the log: entry restates the    *)
(* i-th settlement, naming its transaction or none.                        *)
Restates(entry, i) == SameTransition(entry, log[i]) /\ entry.txid \in {NoTxid, i}
Records(entry, i) == SameTransition(entry, log[i]) /\ entry.txid = i

(* A settlement is told by where it starts.                                *)
LEMMA SettlementsDiffer ==
  ASSUME IInv, NEW i \in DOMAIN log, NEW j \in DOMAIN log, log[i].rootOld = log[j].rootOld
  PROVE  i = j
  <1> DEFINE n == Len(log)
  <1>1. n \in Nat /\ i \in 1..n /\ j \in 1..n /\ Chained(log, n)
    BY SpentIsReleased DEF IInv, LogIsAChain
  <1> HIDE DEF n
  <1>2. /\ log[i].rootOld = TreeRoot(Prefix(log, i - 1))
        /\ log[j].rootOld = TreeRoot(Prefix(log, j - 1))
    BY <1>1 DEF Chained
  <1>3. i - 1 \in 0..n /\ j - 1 \in 0..n
    BY <1>1
  <1>4. i - 1 = j - 1
    BY <1>1, <1>2, <1>3, RootTellsLength
  <1>5. QED
    BY <1>1, <1>4

(* Entries that restate the log, each settlement recorded among them, are  *)
(* rebuilt to the vault's accumulator.                                     *)
LEMMA RestatedIsRebuilt ==
  ASSUME IInv, NEW entries, NEW L \in Nat, DOMAIN entries = 1..L, Len(log) <= L,
         \A j \in 1..L : \E i \in DOMAIN log : Restates(entries[j], i),
         \A i \in DOMAIN log : \E j \in 1..L : Records(entries[j], i)
  PROVE  LET acc == RebuildVerified(entries, spentRoot) IN
         /\ acc.ok
         /\ acc.spent = ReleasedKeys
         /\ \A i \in DOMAIN log : \A m \in ToSet(log[i].nullifiers) : acc.txids[m] = log[i].txid
  <1> DEFINE n == Len(log)
             acc == RebuildVerified(entries, TreeRoot(Prefix(log, n)))
  <1>1. /\ n \in Nat /\ DOMAIN log = 1..n /\ Chained(log, n)
        /\ Prefix(log, n) = ReleasedKeys /\ spentRoot = TreeRoot(ReleasedKeys)
        /\ \A i \in 1..n : log[i].txid = i
    BY SpentIsReleased DEF IInv, LogIsAChain
  <1>2. \A j \in 1..L : OfChain(entries[j], log, n)
    BY <1>1 DEF OfChain, Restates
  <1>3. \A i \in 1..n : Copies(entries, log, i) # {}
    BY <1>1 DEF Copies, Records
  <1>4. \A i \in 1..n : TxidOf(entries, Copies(entries, log, i)) = i
    <2>1. TAKE i \in 1..n
    <2>2. \A j \in Copies(entries, log, i) : entries[j].txid \in {NoTxid, i}
      <3>1. TAKE j \in Copies(entries, log, i)
      <3>2. j \in 1..L /\ SameTransition(entries[j], log[i])
        BY DEF Copies
      <3>3. PICK k \in DOMAIN log : Restates(entries[j], k)
        BY <3>2
      <3>4. log[k].rootOld = log[i].rootOld
        BY <3>2, <3>3 DEF Restates, SameTransition
      <3>5. k = i
        BY <1>1, <3>4, SettlementsDiffer
      <3>6. QED
        BY <3>3, <3>5 DEF Restates
    <2>3. \E j \in Copies(entries, log, i) : entries[j].txid = i
      BY <1>1 DEF Copies, Records
    <2>4. i # NoTxid
      <3>1. i \in Nat \ {0}
        BY <1>1
      <3>2. QED
        BY <3>1 DEF NoTxid
    <2>5. Copies(entries, log, i) \in SUBSET (1..L)
      BY DEF Copies
    <2>6. QED
      BY <2>2, <2>3, <2>4, <2>5, TxidNamed
  <1> HIDE DEF n
  <1>5. n <= L
    BY DEF n
  <1>6. /\ acc.ok /\ acc.spent = Prefix(log, n)
        /\ \A i \in 1..n : \A m \in ToSet(log[i].nullifiers) :
             acc.txids[m] = TxidOf(entries, Copies(entries, log, i))
    <2>1. n \in Nat /\ Chained(log, n)
      BY <1>1
    <2>2. LET b == RebuildVerified(entries, TreeRoot(Prefix(log, n))) IN
          /\ b.ok
          /\ b.spent = Prefix(log, n)
          /\ Rebuild(entries).spent = Prefix(log, n)
          /\ \A i \in 1..n : \A m \in ToSet(log[i].nullifiers) :
               b.txids[m] = TxidOf(entries, Copies(entries, log, i))
      BY <2>1, <1>2, <1>3, <1>5, RebuildFollowsTheChain
    <2>3. QED
      BY <2>2
  <1>7. acc = RebuildVerified(entries, spentRoot)
    BY <1>1
  <1> HIDE DEF acc
  <1>8. \A i \in DOMAIN log : \A m \in ToSet(log[i].nullifiers) : acc.txids[m] = log[i].txid
    BY <1>1, <1>4, <1>6
  <1>9. QED
    BY <1>1, <1>6, <1>7, <1>8

(* Every entry of the log, with its transaction or without, restates its   *)
(* settlement.                                                             *)
LEMMA LogRecords ==
  ASSUME IInv
  PROVE  \A i \in DOMAIN log : Records(log[i], i) /\ Restates(log[i], i)
                               /\ Restates(Unnamed(log)[i], i)
  <1>1. TAKE i \in DOMAIN log
  <1>2. log[i] = Settlement(log[i]) /\ log[i].txid = i
    BY DEF IInv, LogIsAChain
  <1>3. Records(log[i], i) /\ Restates(log[i], i)
    BY <1>2 DEF Records, Restates, SameTransition
  <1>4. Unnamed(log)[i] = [nullifiers |-> log[i].nullifiers, rootOld |-> log[i].rootOld,
                           rootNew |-> log[i].rootNew, txid |-> NoTxid]
    BY <1>2 DEF Unnamed, Settlement
  <1>5. Restates(Unnamed(log)[i], i)
    BY <1>4 DEF Restates, SameTransition
  <1>6. QED
    BY <1>3, <1>5

(* A sequence of p elements and the q of another.                          *)
IsJoin(both, a, b, p, q) ==
  /\ DOMAIN both = 1..p + q
  /\ \A j \in 1..p : both[j] = a[j]
  /\ \A j \in 1..q : both[p + j] = b[j]

LEMMA Joined ==
  ASSUME NEW A, NEW B, NEW a \in Seq(A), NEW b \in Seq(B),
         NEW p \in Nat, NEW q \in Nat, Len(a) = p, Len(b) = q
  PROVE  IsJoin(a \o b, a, b, p, q)
  BY DEF IsJoin

(* The log as it is or read backwards, alone or with copies that name no   *)
(* transaction, leads to the vault's root.                                 *)
LEMMA LogIsRebuilt ==
  ASSUME IInv,
         NEW entries \in {log, Reverse(log), Unnamed(log) \o log, Reverse(log) \o Unnamed(log)}
  PROVE  LET acc == RebuildVerified(entries, spentRoot) IN
         /\ acc.ok
         /\ acc.spent = ReleasedKeys
         /\ \A i \in DOMAIN log : \A m \in ToSet(log[i].nullifiers) : acc.txids[m] = log[i].txid
  <1> DEFINE n == Len(log)
             Covers(e, L) ==
               /\ DOMAIN e = 1..L
               /\ \A j \in 1..L : \E i \in 1..n : Restates(e[j], i)
               /\ \A i \in 1..n : \E j \in 1..L : Records(e[j], i)
  <1>1. n \in Nat /\ DOMAIN log = 1..n
    BY SpentIsReleased
  <1>2. PICK E : log \in Seq(E)
    BY DEF IInv, Sequenced
  <1>3. \A i \in 1..n : /\ Records(log[i], i) /\ Restates(log[i], i)
                        /\ Restates(Unnamed(log)[i], i)
    BY <1>1, LogRecords
  <1>4. /\ Reverse(log) \in Seq(E) /\ Len(Reverse(log)) = n
        /\ \A j \in 1..n : Reverse(log)[j] = log[(n - j) + 1]
    <2>1. \A j \in 1..n : (n - j) + 1 \in 1..n
      BY <1>1
    <2>2. Reverse(log) \in [1..n -> E]
      BY <1>1, <1>2, <2>1 DEF Reverse
    <2>3. QED
      BY <1>1, <2>2 DEF Reverse
  <1>5. PICK U : Unnamed(log) \in Seq(U) /\ Len(Unnamed(log)) = n
    <2>1. Unnamed(log) \in [1..n -> {Unnamed(log)[i] : i \in 1..n}]
      BY <1>1 DEF Unnamed
    <2>2. Unnamed(log) \in Seq({Unnamed(log)[i] : i \in 1..n})
      BY <1>1, <2>1
    <2> DEFINE U == {Unnamed(log)[i] : i \in 1..n}
    <2>3. Unnamed(log) \in Seq(U) /\ Unnamed(log) \in [1..n -> U]
      BY <2>1, <2>2
    <2> HIDE DEF U
    <2>4. Len(Unnamed(log)) = n
      BY <1>1, <2>3
    <2>5. QED
      BY <2>3, <2>4
  <1> HIDE DEF n
  <1>6. Covers(log, n)
    BY <1>1, <1>3
  <1>7. Covers(Reverse(log), n)
    <2>1. \A j \in 1..n : (n - j) + 1 \in 1..n /\ (n - ((n - j) + 1)) + 1 = j
      BY <1>1
    <2>2. \A j \in 1..n : Restates(Reverse(log)[j], (n - j) + 1)
      BY <1>3, <1>4, <2>1
    <2>3. \A i \in 1..n : Records(Reverse(log)[(n - i) + 1], i)
      BY <1>3, <1>4, <2>1
    <2>4. DOMAIN Reverse(log) = 1..n
      BY <1>4
    <2>5. QED
      BY <2>1, <2>2, <2>3, <2>4
  <1>8. Covers(Unnamed(log) \o log, n + n)
    <2> DEFINE both == Unnamed(log) \o log
    <2>1. /\ DOMAIN both = 1..n + n
          /\ \A j \in 1..n : both[j] = Unnamed(log)[j] /\ both[n + j] = log[j]
      <3>1. IsJoin(both, Unnamed(log), log, n, n)
        BY <1>1, <1>2, <1>5, Joined DEF n
      <3>2. QED
        BY <3>1 DEF IsJoin
    <2> HIDE DEF both
    <2>2. \A j \in 1..n + n : j \in 1..n \/ (j - n \in 1..n /\ n + (j - n) = j)
      BY <1>1
    <2>3. \A j \in 1..n : n + j \in 1..n + n
      BY <1>1
    <2>4. Covers(both, n + n)
      BY <1>3, <2>1, <2>2, <2>3
    <2>5. QED
      BY <2>4 DEF both
  <1>9. Covers(Reverse(log) \o Unnamed(log), n + n)
    <2> DEFINE both == Reverse(log) \o Unnamed(log)
    <2>1. /\ DOMAIN both = 1..n + n
          /\ \A j \in 1..n : both[j] = Reverse(log)[j] /\ both[n + j] = Unnamed(log)[j]
      <3>1. IsJoin(both, Reverse(log), Unnamed(log), n, n)
        BY <1>1, <1>4, <1>5, Joined
      <3>2. QED
        BY <3>1 DEF IsJoin
    <2> HIDE DEF both
    <2>2. \A j \in 1..n + n : j \in 1..n \/ (j - n \in 1..n /\ n + (j - n) = j)
      BY <1>1
    <2>3. \A j \in 1..n : j \in 1..n + n
      BY <1>1
    <2>4. Covers(both, n + n)
      <3>1. \A i \in 1..n : \E j \in 1..n : Records(both[j], i)
        BY <1>7, <2>1
      <3>2. \A j \in 1..n : \E i \in 1..n : Restates(both[j], i)
        BY <1>7, <2>1
      <3>3. \A j \in 1..n + n : \E i \in 1..n : Restates(both[j], i)
        BY <1>3, <2>1, <2>2, <3>2
      <3>4. QED
        BY <2>1, <2>3, <3>1, <3>3
    <2>5. QED
      BY <2>4 DEF both
  <1>10. \E L \in Nat : n <= L /\ Covers(entries, L)
    <2>1. n \in Nat /\ n + n \in Nat /\ n <= n /\ n <= n + n
      BY <1>1
    <2> HIDE DEF Covers
    <2>2. QED
      BY <1>6, <1>7, <1>8, <1>9, <2>1
  <1>11. PICK L \in Nat : n <= L /\ Covers(entries, L)
    BY <1>10
  <1>12. /\ DOMAIN entries = 1..L /\ Len(log) <= L
         /\ \A j \in 1..L : \E i \in DOMAIN log : Restates(entries[j], i)
         /\ \A i \in DOMAIN log : \E j \in 1..L : Records(entries[j], i)
    BY <1>1, <1>11 DEF n
  <1> HIDE DEF Covers
  <1>13. QED
    BY <1>12, RestatedIsRebuilt

(* The log without one of its settlements: what follows does not link, and *)
(* without the last the root is not the vault's.                           *)
LEMMA WithoutIsRefused ==
  ASSUME IInv, NEW i \in DOMAIN log
  PROVE  /\ i < Len(log) => ~ Rebuild(Without(i)).ok
         /\ ~ RebuildVerified(Without(i), spentRoot).ok
  <1> DEFINE n == Len(log)
             entries == Without(i)
  <1>1. /\ n \in Nat /\ DOMAIN log = 1..n /\ Chained(log, n) /\ i \in 1..n
        /\ spentRoot = TreeRoot(Prefix(log, n))
    BY SpentIsReleased DEF IInv, LogIsAChain
  <1>2. PICK E : log \in Seq(E)
    BY DEF IInv, Sequenced
  <1>3. /\ DOMAIN entries = 1..n - 1
        /\ \A j \in 1..n - 1 : entries[j] = IF j < i THEN log[j] ELSE log[j + 1]
    <2> DEFINE before == SubSeq(log, 1, i - 1)
               after == SubSeq(log, i + 1, Len(log))
               p == i - 1
               q == n - i
    <2>1. /\ before \in Seq(E) /\ Len(before) = p
          /\ \A j \in 1..p : before[j] = log[j]
      BY <1>1, <1>2
    <2>2. /\ after \in Seq(E) /\ Len(after) = q
          /\ \A j \in 1..q : after[j] = log[i + j]
      BY <1>1, <1>2
    <2>3. entries = before \o after
      BY DEF Without, RemoveAt
    <2>4. /\ p \in Nat /\ q \in Nat /\ p + q = n - 1
          /\ \A j \in 1..n - 1 :
               /\ j < i => j \in 1..p
               /\ ~ (j < i) => j - p \in 1..q /\ p + (j - p) = j /\ i + (j - p) = j + 1
      <3>1. p \in Nat /\ q \in Nat /\ p + q = n - 1 /\ i = p + 1 /\ n = i + q
        BY <1>1
      <3> HIDE DEF p, q
      <3>2. ASSUME NEW j \in 1..n - 1
            PROVE  /\ j < i => j \in 1..p
                   /\ ~ (j < i) => j - p \in 1..q /\ p + (j - p) = j /\ i + (j - p) = j + 1
        BY <1>1, <3>1
      <3>3. QED
        BY <3>1, <3>2
    <2> HIDE DEF before, after, entries, p, q
    <2>5. IsJoin(before \o after, before, after, p, q)
      <3>1. before \in Seq(E) /\ after \in Seq(E)
        BY <2>1, <2>2
      <3>2. p \in Nat /\ q \in Nat /\ Len(before) = p /\ Len(after) = q
        BY <2>1, <2>2, <2>4
      <3>3. QED
        BY ONLY <3>1, <3>2, Joined
    <2>6. ASSUME NEW j \in 1..n - 1
          PROVE  entries[j] = IF j < i THEN log[j] ELSE log[j + 1]
      <3>1. CASE j < i
        <4>1. j \in 1..p
          BY <2>4, <3>1
        <4>2. (before \o after)[j] = log[j]
          BY <2>1, <2>5, <4>1 DEF IsJoin
        <4>3. QED
          BY <2>3, <3>1, <4>2
      <3>2. CASE ~ (j < i)
        <4>1. j - p \in 1..q /\ p + (j - p) = j /\ i + (j - p) = j + 1
          BY <2>4, <3>2
        <4>2. (before \o after)[p + (j - p)] = after[j - p] /\ after[j - p] = log[i + (j - p)]
          BY <2>2, <2>5, <4>1 DEF IsJoin
        <4>3. QED
          BY <2>3, <3>2, <4>1, <4>2
      <3>3. QED
        BY <3>1, <3>2
    <2>7. DOMAIN entries = 1..n - 1
      BY <2>3, <2>4, <2>5 DEF IsJoin
    <2>8. QED
      BY <2>6, <2>7
  <1> HIDE DEF n, entries
  <1>4. \A j \in 1..n - 1 : \E k \in 1..n : k # i /\ entries[j] = log[k]
    <2>1. \A j \in 1..n - 1 : j \in 1..n /\ j + 1 \in 1..n /\ (j < i => j # i) /\ (~ (j < i) => j + 1 # i)
      BY <1>1
    <2>2. QED
      BY <1>3, <2>1
  <1>5. \A k \in 1..n : k # i => \E j \in 1..n - 1 : entries[j] = log[k]
    <2>1. \A k \in 1..n : /\ k < i => k \in 1..n - 1
                          /\ k # i /\ ~ (k < i) =>
                               k - 1 \in 1..n - 1 /\ ~ (k - 1 < i) /\ (k - 1) + 1 = k
      BY <1>1
    <2>2. QED
      BY <1>3, <2>1
  <1>6. \A k : SameTransition(log[k], log[k])
    BY DEF SameTransition
  <1>7. \A j \in 1..n - 1 : OfChain(entries[j], log, n)
    BY <1>4, <1>6 DEF OfChain
  <1>8. Copies(entries, log, i) = {}
    <2>1. SUFFICES ASSUME NEW j \in 1..n - 1, SameTransition(entries[j], log[i]) PROVE FALSE
      BY <1>3 DEF Copies
    <2>2. PICK k \in 1..n : k # i /\ entries[j] = log[k]
      BY <1>4
    <2>3. log[k].rootOld = log[i].rootOld
      BY <2>1, <2>2 DEF SameTransition
    <2>4. QED
      BY <1>1, <2>2, <2>3, SettlementsDiffer
  <1>9. \A k \in 1..n : k # i => Copies(entries, log, k) # {}
    BY <1>3, <1>5, <1>6 DEF Copies
  <1>10. n - 1 \in Nat /\ i - 1 <= n - 1
    BY <1>1
  <1>11. /\ ~ RebuildVerified(entries, TreeRoot(Prefix(log, n))).ok
         /\ i < n => ~ Rebuild(entries).ok
    BY <1>1, <1>3, <1>7, <1>8, <1>9, <1>10, MissingIsRefused
  <1>12. QED
    BY <1>1, <1>11 DEF n, entries

(* The log with a settlement made up: a second one from the root of a      *)
(* settlement there is, of other nullifiers.                               *)
LEMMA ForgedDiffers ==
  ASSUME IInv, NEW i \in DOMAIN log
  PROVE  Forged(i).rootOld = log[i].rootOld /\ ~ SameTransition(Forged(i), log[i])
  <1> DEFINE order == log[i].nullifiers
             len == Len(order)
  <1>1. log[i] = Settlement(log[i]) /\ order \in Seq(Keys)
    BY DEF IInv, LogIsAChain
  <1>2. Nonempty(order)
    BY SpentIsReleased DEF IInv, LogIsAChain, Chained
  <1>3. Forged(i).rootOld = log[i].rootOld /\ Forged(i).nullifiers = Reverse(order) \o order
    BY <1>1 DEF Forged, Settlement
  <1> HIDE DEF order
  <1>4. len \in Nat \ {0}
    <2>1. order # <<>>
      BY <1>2, NonemptyBatch
    <2>2. QED
      BY <1>1, <2>1
  <1>5. Reverse(order) \in Seq(Keys) /\ Len(Reverse(order)) = len
    <2>1. \A j \in 1..len : (len - j) + 1 \in 1..len
      BY <1>4
    <2>2. Reverse(order) \in [1..len -> Keys]
      BY <1>1, <2>1 DEF Reverse
    <2>3. QED
      BY <1>4, <2>2
  <1>6. Len(Reverse(order) \o order) = len + len
    BY <1>1, <1>5
  <1>7. Reverse(order) \o order # order
    BY <1>4, <1>6
  <1>8. QED
    BY <1>3, <1>7 DEF SameTransition, order

LEMMA ForgedIsRefused ==
  ASSUME IInv, NEW i \in DOMAIN log
  PROVE  ~ Rebuild(Append(log, Forged(i))).ok /\ ~ Rebuild(<<Forged(i)>> \o log).ok
  <1> DEFINE n == Len(log)
             forged == Forged(i)
             after == Append(log, forged)
             before == <<forged>> \o log
  <1>1. n \in Nat /\ DOMAIN log = 1..n /\ Chained(log, n) /\ i \in 1..n
    BY SpentIsReleased DEF IInv, LogIsAChain
  <1>2. PICK E : log \in Seq(E)
    BY DEF IInv, Sequenced
  <1>3. forged.rootOld = log[i].rootOld /\ ~ SameTransition(forged, log[i])
    BY ForgedDiffers
  <1> HIDE DEF forged
  <1>4. /\ DOMAIN after = 1..n + 1 /\ after[n + 1] = forged
        /\ \A j \in 1..n : after[j] = log[j]
    BY <1>1, <1>2
  <1>5. /\ DOMAIN before = 1..n + 1 /\ before[1] = forged
        /\ \A j \in 1..n : before[1 + j] = log[j]
    <2>1. log \in Seq(E \cup {forged}) /\ <<forged>> \in Seq(E \cup {forged}) /\ Len(<<forged>>) = 1
      BY <1>2
    <2>2. QED
      BY <1>1, <2>1
  <1>6. \A k : SameTransition(log[k], log[k])
    BY DEF SameTransition
  <1> HIDE DEF n, after, before
  <1>7. n + 1 \in Nat /\ i <= n + 1 /\ n + 1 \in 1..n + 1 /\ 1 \in 1..n + 1
    BY <1>1
  <1>8. ~ Rebuild(after).ok
    <2>1. \A j \in 1..n + 1 : j # n + 1 => OfChain(after[j], log, n)
      <3>1. \A j \in 1..n + 1 : j # n + 1 => j \in 1..n
        BY <1>1
      <3>2. QED
        BY <1>4, <1>6, <3>1 DEF OfChain
    <2>2. \A m \in 1..n : Copies(after, log, m) # {}
      <3>1. \A m \in 1..n : m \in 1..n + 1
        BY <1>1
      <3>2. QED
        BY <1>4, <1>6, <3>1 DEF Copies
    <2>3. QED
      BY <1>1, <1>3, <1>4, <1>7, <2>1, <2>2, ForkIsRefused
  <1>9. ~ Rebuild(before).ok
    <2>1. \A j \in 1..n + 1 : j # 1 => OfChain(before[j], log, n)
      <3>1. \A j \in 1..n + 1 : j # 1 => j - 1 \in 1..n /\ 1 + (j - 1) = j
        BY <1>1
      <3>2. QED
        BY <1>5, <1>6, <3>1 DEF OfChain
    <2>2. \A m \in 1..n : Copies(before, log, m) # {}
      <3>1. \A m \in 1..n : 1 + m \in 1..n + 1
        BY <1>1
      <3>2. QED
        BY <1>5, <1>6, <3>1 DEF Copies
    <2>3. QED
      BY <1>1, <1>3, <1>5, <1>7, <2>1, <2>2, ForkIsRefused
  <1>10. QED
    BY <1>8, <1>9 DEF after, before, forged

LEMMA RebuildFollows ==
  ASSUME IInv
  PROVE  RebuiltIsTheVault
  <1>1. {KeyOf[t] : t \in ReleasedTokens} = ReleasedKeys
    <2>1. \A t : t \in ReleasedTokens <=> \E r \in released : t = r.token
      BY DEF ReleasedTokens
    <2>2. \A k : k \in ReleasedKeys <=> \E r \in released : k = KeyOf[r.token]
      BY DEF ReleasedKeys
    <2>3. QED
      BY <2>1, <2>2
  <1>2. \A entries \in {log, Reverse(log), Unnamed(log) \o log, Reverse(log) \o Unnamed(log)} :
          LET acc == RebuildVerified(entries, spentRoot) IN
          /\ acc.ok
          /\ acc.spent = ReleasedKeys
          /\ \A i \in DOMAIN log : \A m \in ToSet(log[i].nullifiers) : acc.txids[m] = log[i].txid
    BY LogIsRebuilt
  <1>3. \A i \in DOMAIN log :
          /\ i < Len(log) => ~ Rebuild(Without(i)).ok
          /\ ~ RebuildVerified(Without(i), spentRoot).ok
          /\ ~ Rebuild(Append(log, Forged(i))).ok
          /\ ~ Rebuild(<<Forged(i)>> \o log).ok
    BY WithoutIsRefused, ForgedIsRefused
  <1>4. QED
    BY <1>1, <1>2, <1>3 DEF RebuiltIsTheVault

(* In every state the service rebuilds the vault's accumulator from what   *)
(* the chain reports, in any of the orders and repetitions, with the       *)
(* transaction of every nullifier, and refuses a log with a settlement     *)
(* missing or one made up.                                                 *)
THEOREM RebuiltIsTheVaultHolds == Spec => []RebuiltIsTheVault
  <1>1. IInv => RebuiltIsTheVault
    BY RebuildFollows
  <1>2. QED
    BY <1>1, InductiveInvariant, PTL

(***************************************************************************)
(* Selection                                                               *)
(***************************************************************************)

(* A run over more elements begins as the run over fewer.                  *)
Begins(further, run, n) == \A i \in 0..n : further[i] = run[i]

LEMMA AmongRunsAgree ==
  ASSUME NEW n \in Nat, NEW s, NEW longer, \A i \in 1..n : longer[i] = s[i],
         NEW m \in Nat, n <= m, NEW S, NEW run, NEW further,
         AmongRun(run, S, s, n), AmongRun(further, S, longer, m)
  PROVE  Begins(further, run, n)
  <1> DEFINE Bad == {i \in 0..n : further[i] # run[i]}
  <1>1. SUFFICES ASSUME Bad # {} PROVE FALSE
    BY DEF Begins
  <1>2. PICK i \in Bad : \A j \in Bad : i <= j
    <2>1. Bad \in SUBSET Nat
      OBVIOUS
    <2> HIDE DEF Bad
    <2>2. QED
      BY <1>1, <2>1, Least
  <1>3. i # 0
    BY <1>2 DEF AmongRun
  <1>4. i \in 1..n /\ i \in 1..m /\ i - 1 \in 0..n /\ ~ (i <= i - 1)
    BY <1>2, <1>3
  <1>5. further[i - 1] = run[i - 1]
    BY <1>2, <1>4
  <1>6. longer[i] = s[i]
    BY <1>4
  <1>7. further[i] = run[i]
    BY <1>4, <1>5, <1>6 DEF AmongRun
  <1>8. QED
    BY <1>2, <1>7

LEMMA AmongSnoc ==
  ASSUME NEW T, NEW s \in Seq(T), NEW x \in T, NEW S
  PROVE  Among(S, Append(s, x)) = IF x \in S THEN Append(Among(S, s), x) ELSE Among(S, s)
  <1> DEFINE n == Len(s)
             longer == Append(s, x)
  <1>1. n \in Nat /\ s \in [1..n -> T]
    OBVIOUS
  <1>2. longer \in Seq(T) /\ Len(longer) = n + 1
    OBVIOUS
  <1>3. longer[n + 1] = x /\ \A i \in 1..n : longer[i] = s[i]
    OBVIOUS
  <1> HIDE DEF n, longer
  <1> DEFINE m == n + 1
  <1>4. m \in Nat /\ n <= m /\ n \in 0..n /\ m \in 1..m /\ m - 1 = n /\ m \in 0..m
    BY <1>1
  <1>5. longer \in [1..m -> T]
    BY <1>2, <1>4
  <1>6. longer[m] = x
    BY <1>3
  <1> HIDE DEF m
  <1>7. PICK run \in [0..n -> Seq(T)] : AmongRun(run, S, s, n) /\ Among(S, s) = run[n]
    BY <1>1, AmongUnfold DEF AmongUnfolds
  <1>8. PICK further \in [0..m -> Seq(T)] :
          AmongRun(further, S, longer, m) /\ Among(S, longer) = further[m]
    <2>1. AmongUnfolds(S, longer, m, T)
      BY <1>4, <1>5, AmongUnfold
    <2>2. QED
      BY <2>1 DEF AmongUnfolds
  <1>9. further[n] = run[n]
    <2>1. AmongRun(run, S, s, n) /\ AmongRun(further, S, longer, m)
      BY <1>7, <1>8
    <2>2. Begins(further, run, n)
      BY <1>1, <1>3, <1>4, <2>1, AmongRunsAgree
    <2>3. QED
      BY <1>4, <2>2 DEF Begins
  <1>10. further[m] = IF longer[m] \in S THEN Append(further[m - 1], longer[m]) ELSE further[m - 1]
    BY <1>4, <1>8 DEF AmongRun
  <1>11. QED
    BY <1>4, <1>6, <1>7, <1>8, <1>9, <1>10 DEF longer

(* All of a sequence is the sequence.                                      *)
LEMMA AmongAll ==
  ASSUME NEW T, NEW s \in Seq(T), NEW S, ToSet(s) \subseteq S
  PROVE  Among(S, s) = s
  <1> DEFINE n == Len(s)
  <1>1. n \in Nat /\ s \in [1..n -> T] /\ \A i \in 1..n : s[i] \in S
    BY DEF ToSet
  <1> HIDE DEF n
  <1>2. PICK run \in [0..n -> Seq(T)] : AmongRun(run, S, s, n) /\ Among(S, s) = run[n]
    BY <1>1, AmongUnfold DEF AmongUnfolds
  <1> DEFINE Same(i) == Len(run[i]) = i /\ \A j \in 1..i : run[i][j] = s[j]
             Bad == {i \in 0..n : ~ Same(i)}
  <1>3. Bad = {}
    <2>1. SUFFICES ASSUME Bad # {} PROVE FALSE
      OBVIOUS
    <2>2. PICK i \in Bad : \A j \in Bad : i <= j
      <3>1. Bad \in SUBSET Nat
        OBVIOUS
      <3> HIDE DEF Bad
      <3>2. QED
        BY <2>1, <3>1, Least
    <2>3. i # 0
      BY <1>2, <2>2 DEF AmongRun
    <2>4. i \in 1..n /\ i - 1 \in 0..n /\ ~ (i <= i - 1)
      BY <1>1, <2>2, <2>3
    <2>5. Same(i - 1)
      BY <2>2, <2>4
    <2>6. run[i] = Append(run[i - 1], s[i])
      BY <1>1, <1>2, <2>4 DEF AmongRun
    <2>7. run[i - 1] \in Seq(T) /\ s[i] \in T
      BY <1>1, <2>4
    <2>8. Same(i)
      BY <2>4, <2>5, <2>6, <2>7
    <2>9. QED
      BY <2>2, <2>8
  <1>4. n \in 0..n
    BY <1>1
  <1>5. Same(n)
    BY <1>3, <1>4
  <1>6. run[n] \in Seq(T) /\ Len(run[n]) = Len(s) /\ \A j \in 1..Len(s) : run[n][j] = s[j]
    BY <1>4, <1>5 DEF n
  <1>7. run[n] = s
    BY <1>6
  <1>8. QED
    BY <1>2, <1>7

(* What is taken of a sequence without repetitions has none.               *)
LEMMA AppendOnce ==
  ASSUME NEW T, NEW s \in Seq(T), NEW x \in T, IsInjective(s), x \notin ToSet(s)
  PROVE  IsInjective(Append(s, x))
  <1> DEFINE n == Len(s)
             longer == Append(s, x)
  <1>1. n \in Nat /\ DOMAIN s = 1..n /\ DOMAIN longer = 1..n + 1
    OBVIOUS
  <1>2. longer[n + 1] = x /\ \A i \in 1..n : longer[i] = s[i] /\ s[i] # x
    BY DEF ToSet
  <1>3. \A i, j \in 1..n : s[i] = s[j] => i = j
    BY <1>1 DEF IsInjective
  <1> HIDE DEF n, longer
  <1>4. \A i \in 1..n + 1 : i \in 1..n \/ i = n + 1
    BY <1>1
  <1>5. \A i, j \in 1..n + 1 : longer[i] = longer[j] => i = j
    BY <1>2, <1>3, <1>4
  <1>6. IsInjective(longer)
    BY <1>1, <1>5 DEF IsInjective
  <1>7. QED
    BY <1>6 DEF longer

LEMMA AmongInjective ==
  ASSUME NEW T, NEW order \in Seq(T), IsInjective(order), NEW S
  PROVE  IsInjective(Among(S, order))
  <1> DEFINE n == Len(order)
  <1>1. n \in Nat /\ order \in [1..n -> T] /\ \A i, j \in 1..n : order[i] = order[j] => i = j
    BY DEF IsInjective
  <1> HIDE DEF n
  <1>2. PICK run \in [0..n -> Seq(T)] : AmongRun(run, S, order, n) /\ Among(S, order) = run[n]
    BY <1>1, AmongUnfold DEF AmongUnfolds
  <1> DEFINE Once(i) == IsInjective(run[i]) /\ ToSet(run[i]) \subseteq FirstOf(order, i)
             Bad == {i \in 0..n : ~ Once(i)}
  <1>3. Bad = {}
    <2>1. SUFFICES ASSUME Bad # {} PROVE FALSE
      OBVIOUS
    <2>2. PICK i \in Bad : \A j \in Bad : i <= j
      <3>1. Bad \in SUBSET Nat
        OBVIOUS
      <3> HIDE DEF Bad
      <3>2. QED
        BY <2>1, <3>1, Least
    <2>3. i # 0
      <3>1. run[0] = <<>>
        BY <1>2 DEF AmongRun
      <3>2. ToSet(<<>>) = {} /\ IsInjective(<<>>)
        BY DEF ToSet, IsInjective
      <3>3. QED
        BY <2>2, <3>1, <3>2
    <2>4. i \in 1..n /\ i - 1 \in 0..n /\ ~ (i <= i - 1)
      BY <1>1, <2>2, <2>3
    <2>5. Once(i - 1)
      BY <2>2, <2>4
    <2>6. run[i] = IF order[i] \in S THEN Append(run[i - 1], order[i]) ELSE run[i - 1]
      BY <1>2, <2>4 DEF AmongRun
    <2>7. run[i - 1] \in Seq(T) /\ order[i] \in T
      BY <1>1, <2>4
    <2>8. order[i] \notin FirstOf(order, i - 1)
      BY <1>1, <2>4 DEF FirstOf
    <2>9. FirstOf(order, i) = FirstOf(order, i - 1) \cup {order[i]}
      <3>1. 1..i = (1..i - 1) \cup {i}
        BY <2>4
      <3>2. QED
        BY <3>1 DEF FirstOf
    <2>10. ToSet(Append(run[i - 1], order[i])) = ToSet(run[i - 1]) \cup {order[i]}
      BY <2>7, ToSetAppend
    <2>11. IsInjective(Append(run[i - 1], order[i]))
      <3>1. IsInjective(run[i - 1]) /\ order[i] \notin ToSet(run[i - 1])
        BY <2>5, <2>8
      <3> HIDE DEF Once, Bad
      <3>2. QED
        BY <2>7, <3>1, AppendOnce
    <2>12. Once(i)
      BY <2>5, <2>6, <2>9, <2>10, <2>11
    <2>13. QED
      BY <2>2, <2>12
  <1>4. n \in 0..n
    BY <1>1
  <1>5. QED
    BY <1>2, <1>3, <1>4

(* The bytes of a set of tokens and of one more.                           *)
LEMMA BytesGrow ==
  ASSUME NEW S \in SUBSET TokenIds, NEW t \in TokenIds \ S
  PROVE  Bytes(S \cup {t}) = Bytes(S) + SizeOf[t]
  <1>1. \A R : Bytes(R) = SumFunctionOnSet(SizeOf, R)
    BY DEF Bytes, MapThenSumSet, SumFunctionOnSet, FoldFunctionOnSet
  <1>2. IsFiniteSet(TokenIds) /\ NatOn(SizeOf, TokenIds)
    BY RelationAssumption DEF NatOn
  <1> DEFINE more == S \cup {t}
  <1>3. more \in SUBSET TokenIds /\ t \in more /\ more \ {t} = S
    OBVIOUS
  <1> HIDE DEF more
  <1>4. SumLaws(SizeOf, more) /\ SumLaws(SizeOf, S)
    BY <1>2, <1>3, SumRemoves
  <1>5. SumFunctionOnSet(SizeOf, more) = SizeOf[t] + SumFunctionOnSet(SizeOf, S)
    BY <1>3, <1>4 DEF SumLaws
  <1>6. SumFunctionOnSet(SizeOf, S) \in Nat /\ SizeOf[t] \in Nat
    BY <1>2, <1>4 DEF SumLaws, NatOn
  <1>7. QED
    BY <1>1, <1>5, <1>6 DEF more

(* A run of the selection over the n + 1 returns due.                      *)
Selecting(run, due, n, T) ==
  /\ n \in Nat /\ due \in Seq(T) /\ Len(due) = n + 1 /\ IsInjective(due)
  /\ run \in [0..n -> Seq(T)] /\ SelectRun(run, due, n)

LEMMA SelectingFacts ==
  ASSUME NEW run, NEW due, NEW n, NEW T, Selecting(run, due, n, T)
  PROVE  /\ n \in Nat /\ due \in [1..n + 1 -> T]
         /\ \A i, j \in 1..n + 1 : due[i] = due[j] => i = j
         /\ \A k \in 0..n : run[k] \in Seq(T)
         /\ run[0] = <<due[1]>>
         /\ \A k \in 1..n : /\ k + 1 \in 1..n + 1 /\ k - 1 \in 0..n /\ k \in 0..n
                            /\ due[k + 1] \notin FirstOf(due, k)
                            /\ FirstOf(due, k + 1) = FirstOf(due, k) \cup {due[k + 1]}
                            /\ run[k] = IF Takes(due[k + 1], run[k - 1])
                                        THEN Append(run[k - 1], due[k + 1]) ELSE run[k - 1]
  <1>1. /\ n \in Nat /\ due \in Seq(T) /\ Len(due) = n + 1 /\ IsInjective(due)
        /\ run \in [0..n -> Seq(T)] /\ SelectRun(run, due, n)
    BY DEF Selecting
  <1>2. due \in [1..n + 1 -> T] /\ DOMAIN due = 1..n + 1
    BY <1>1
  <1>3. \A i, j \in 1..n + 1 : due[i] = due[j] => i = j
    BY <1>1, <1>2 DEF IsInjective
  <1>4. ASSUME NEW k \in 1..n
        PROVE  /\ k + 1 \in 1..n + 1 /\ k - 1 \in 0..n /\ k \in 0..n
               /\ due[k + 1] \notin FirstOf(due, k)
               /\ FirstOf(due, k + 1) = FirstOf(due, k) \cup {due[k + 1]}
    <2>1. k + 1 \in 1..n + 1 /\ k - 1 \in 0..n /\ k \in 0..n
      BY <1>1
    <2>2. \A j \in 1..k : j \in 1..n + 1 /\ j # k + 1
      BY <1>1
    <2>3. due[k + 1] \notin FirstOf(due, k)
      BY <1>3, <2>1, <2>2 DEF FirstOf
    <2>4. 1..k + 1 = (1..k) \cup {k + 1}
      BY <1>1
    <2>5. FirstOf(due, k + 1) = FirstOf(due, k) \cup {due[k + 1]}
      BY <2>4 DEF FirstOf
    <2>6. QED
      BY <2>1, <2>3, <2>5
  <1>5. \A k \in 0..n : run[k] \in Seq(T)
    BY <1>1
  <1>6. QED
    BY <1>1, <1>2, <1>3, <1>4, <1>5 DEF SelectRun

(* After each of the returns due: what is chosen is of those so far, the   *)
(* oldest first, and no two are of one lock.                               *)
Chosen(taken, due, k) ==
  /\ Len(taken) # 0 /\ taken[1] = due[1]
  /\ ToSet(taken) \subseteq FirstOf(due, k + 1)
  /\ \A t, u \in ToSet(taken) : t # u => NonceOf(t) # NonceOf(u)

LEMMA TakenIsChosen ==
  ASSUME NEW T, NEW taken \in Seq(T), NEW t \in T, NEW due, NEW k \in Nat,
         Chosen(taken, due, k), Takes(t, taken), NEW S, t \in S, FirstOf(due, k + 1) \subseteq S
  PROVE  /\ Len(Append(taken, t)) # 0 /\ Append(taken, t)[1] = due[1]
         /\ ToSet(Append(taken, t)) \subseteq S
         /\ \A u, v \in ToSet(Append(taken, t)) : u # v => NonceOf(u) # NonceOf(v)
  <1>1. ToSet(Append(taken, t)) = ToSet(taken) \cup {t}
    BY ToSetAppend
  <1>2. \A u \in ToSet(taken) : NonceOf(t) # NonceOf(u)
    BY DEF Takes, Fits, ToSet
  <1>3. Len(Append(taken, t)) # 0 /\ Append(taken, t)[1] = due[1]
    <2>1. Len(taken) \in Nat \ {0} /\ taken[1] = due[1]
      BY DEF Chosen
    <2>2. QED
      BY <2>1
  <1>4. ToSet(taken) \subseteq S /\ \A u, v \in ToSet(taken) : u # v => NonceOf(u) # NonceOf(v)
    BY DEF Chosen
  <1>5. \A u, v \in ToSet(taken) \cup {t} : u # v => NonceOf(u) # NonceOf(v)
    BY <1>2, <1>4
  <1>6. QED
    BY <1>1, <1>3, <1>4, <1>5

LEMMA SelectChooses ==
  ASSUME NEW run, NEW due, NEW n, NEW T, Selecting(run, due, n, T)
  PROVE  \A k \in 0..n : Chosen(run[k], due, k)
  <1> DEFINE Bad == {k \in 0..n : ~ Chosen(run[k], due, k)}
  <1>1. SUFFICES ASSUME Bad # {} PROVE FALSE
    OBVIOUS
  <1>2. PICK k \in Bad : \A j \in Bad : k <= j
    <2>1. n \in Nat
      BY DEF Selecting
    <2>2. Bad \in SUBSET Nat
      BY <2>1
    <2> HIDE DEF Bad
    <2>3. QED
      BY <1>1, <2>2, Least
  <1>3. k # 0
    <2>1. run[0] = <<due[1]>>
      BY SelectingFacts
    <2>2. ToSet(<<due[1]>>) = {due[1]} /\ FirstOf(due, 1) = {due[1]}
      BY DEF ToSet, FirstOf
    <2>3. Chosen(run[0], due, 0)
      BY <2>1, <2>2 DEF Chosen
    <2>4. QED
      BY <1>2, <2>3
  <1>4. /\ k \in 1..n /\ k - 1 \in Nat /\ (k - 1) + 1 = k /\ ~ (k <= k - 1)
        /\ k - 1 \in 0..n
    BY <1>2, <1>3, SelectingFacts
  <1>5. Chosen(run[k - 1], due, k - 1)
    BY <1>2, <1>4
  <1>6. /\ run[k - 1] \in Seq(T) /\ due[k + 1] \in T
        /\ FirstOf(due, k + 1) = FirstOf(due, k) \cup {due[k + 1]}
        /\ run[k] = IF Takes(due[k + 1], run[k - 1])
                    THEN Append(run[k - 1], due[k + 1]) ELSE run[k - 1]
    BY <1>4, SelectingFacts
  <1>7. CASE Takes(due[k + 1], run[k - 1])
    <2>1. FirstOf(due, (k - 1) + 1) \subseteq FirstOf(due, k + 1)
      BY <1>4, <1>6
    <2>2. due[k + 1] \in FirstOf(due, k + 1)
      BY <1>6
    <2>3. Chosen(Append(run[k - 1], due[k + 1]), due, k)
      BY <1>4, <1>5, <1>6, <1>7, <2>1, <2>2, TakenIsChosen DEF Chosen
    <2>4. QED
      BY <1>2, <1>6, <1>7, <2>3
  <1>8. CASE ~ Takes(due[k + 1], run[k - 1])
    <2>1. Chosen(run[k - 1], due, k)
      BY <1>4, <1>5, <1>6 DEF Chosen
    <2>2. QED
      BY <1>2, <1>6, <1>8, <2>1
  <1>9. QED
    BY <1>7, <1>8

(* Of the first k + 1 returns due, the whole run chooses what it had       *)
(* chosen when it came to the next.                                        *)
HadChosen(run, due, n, k) == Among(FirstOf(due, k + 1), run[n]) = run[k]

LEMMA SelectStays ==
  ASSUME NEW run, NEW due, NEW n, NEW T, Selecting(run, due, n, T), NEW k \in 0..n
  PROVE  HadChosen(run, due, n, k)
  <1> DEFINE first == FirstOf(due, k + 1)
             Bad == {m \in k..n : Among(first, run[m]) # run[k]}
  <1>1. n \in Nat /\ k \in Nat
    BY SelectingFacts
  <1>2. Bad = {}
    <2>1. SUFFICES ASSUME Bad # {} PROVE FALSE
      OBVIOUS
    <2>2. PICK m \in Bad : \A j \in Bad : m <= j
      <3>1. Bad \in SUBSET Nat
        BY <1>1
      <3> HIDE DEF Bad
      <3>2. QED
        BY <2>1, <3>1, Least
    <2>3. m # k
      <3>1. Among(first, run[k]) = run[k]
        <4>1. run[k] \in Seq(T)
          BY SelectingFacts
        <4>2. ToSet(run[k]) \subseteq first
          BY SelectChooses DEF Chosen
        <4> HIDE DEF first
        <4>3. QED
          BY <4>1, <4>2, AmongAll
      <3>2. QED
        BY <2>2, <3>1
    <2>4. /\ m \in 1..n /\ m - 1 \in k..n /\ ~ (m <= m - 1)
          /\ \A j \in 1..k + 1 : j \in 1..n + 1 /\ j # m + 1
      BY <1>1, <2>2, <2>3
    <2>5. Among(first, run[m - 1]) = run[k]
      BY <2>2, <2>4
    <2>6. /\ run[m - 1] \in Seq(T) /\ m + 1 \in 1..n + 1 /\ due[m + 1] \in T
          /\ \A i, j \in 1..n + 1 : due[i] = due[j] => i = j
          /\ run[m] = IF Takes(due[m + 1], run[m - 1])
                      THEN Append(run[m - 1], due[m + 1]) ELSE run[m - 1]
      BY <2>4, SelectingFacts
    <2>7. due[m + 1] \notin first
      BY <2>4, <2>6 DEF FirstOf
    <2> HIDE DEF first
    <2>8. Among(first, Append(run[m - 1], due[m + 1])) = Among(first, run[m - 1])
      BY <2>6, <2>7, AmongSnoc
    <2>9. Among(first, run[m]) = run[k]
      BY <2>5, <2>6, <2>8
    <2>10. QED
      BY <2>2, <2>9
  <1>3. n \in k..n
    BY <1>1
  <1>4. Among(first, run[n]) = run[k]
    BY <1>2, <1>3
  <1>5. QED
    BY <1>4 DEF HadChosen

(* What is chosen of the first k + 1 is chosen by then, and the next of    *)
(* the returns due is chosen if it is taken when its turn comes.           *)
LEMMA ChosenInTurn ==
  ASSUME NEW run, NEW due, NEW n, NEW T, Selecting(run, due, n, T)
  PROVE  /\ due[1] \in ToSet(run[n])
         /\ \A k \in 1..n : due[k + 1] \in ToSet(run[n]) <=> Takes(due[k + 1], run[k - 1])
  <1>1. /\ n \in Nat /\ n \in 0..n /\ run[n] \in Seq(T)
    BY SelectingFacts
  <1>2. due[1] \in ToSet(run[n])
    <2>1. Len(run[n]) # 0 /\ run[n][1] = due[1]
      BY <1>1, SelectChooses DEF Chosen
    <2>2. 1 \in DOMAIN run[n]
      BY <1>1, <2>1
    <2>3. QED
      BY <2>1, <2>2 DEF ToSet
  <1>3. ASSUME NEW k \in 1..n
        PROVE  due[k + 1] \in ToSet(run[n]) <=> Takes(due[k + 1], run[k - 1])
    <2>1. /\ k \in 0..n /\ k - 1 \in 0..n /\ (k - 1) + 1 = k
          /\ run[k - 1] \in Seq(T) /\ due[k + 1] \in T
          /\ due[k + 1] \notin FirstOf(due, k)
          /\ FirstOf(due, k + 1) = FirstOf(due, k) \cup {due[k + 1]}
          /\ run[k] = IF Takes(due[k + 1], run[k - 1])
                      THEN Append(run[k - 1], due[k + 1]) ELSE run[k - 1]
      <3>1. /\ k \in 0..n /\ k - 1 \in 0..n /\ k + 1 \in 1..n + 1
            /\ due[k + 1] \notin FirstOf(due, k)
            /\ FirstOf(due, k + 1) = FirstOf(due, k) \cup {due[k + 1]}
            /\ run[k] = IF Takes(due[k + 1], run[k - 1])
                        THEN Append(run[k - 1], due[k + 1]) ELSE run[k - 1]
        BY SelectingFacts
      <3>2. run[k - 1] \in Seq(T) /\ due[k + 1] \in T
        BY <3>1, SelectingFacts
      <3>3. QED
        BY <1>1, <3>1, <3>2
    <2>2. Among(FirstOf(due, k + 1), run[n]) = run[k]
      BY <2>1, SelectStays DEF HadChosen
    <2>3. ToSet(run[k]) = FirstOf(due, k + 1) \cap ToSet(run[n])
      <3>1. run[n] \in Seq(T)
        BY <1>1
      <3>2. ToSet(Among(FirstOf(due, k + 1), run[n])) = FirstOf(due, k + 1) \cap ToSet(run[n])
        BY ONLY <3>1, AmongMembers
      <3>3. QED
        BY <2>2, <3>2
    <2>4. due[k + 1] \in ToSet(run[n]) <=> due[k + 1] \in ToSet(run[k])
      BY <2>1, <2>3
    <2>5. ToSet(run[k - 1]) \subseteq FirstOf(due, (k - 1) + 1)
      BY <2>1, SelectChooses DEF Chosen
    <2>6. due[k + 1] \notin ToSet(run[k - 1])
      BY <2>1, <2>5
    <2>7. ToSet(Append(run[k - 1], due[k + 1])) = ToSet(run[k - 1]) \cup {due[k + 1]}
      BY <2>1, ToSetAppend
    <2>8. QED
      BY <2>1, <2>4, <2>6, <2>7
  <1>4. QED
    BY <1>2, <1>3

(* The order of the returns due is kept.                                   *)
LEMMA SelectKeepsOrder ==
  ASSUME NEW run, NEW due, NEW n, NEW T, Selecting(run, due, n, T)
  PROVE  run[n] = Among(ToSet(run[n]), due)
  <1> DEFINE C == ToSet(run[n])
             m == n + 1
  <1>1. /\ n \in Nat /\ due \in [1..n + 1 -> T] /\ run[0] = <<due[1]>>
        /\ \A k \in 1..n : /\ k - 1 \in 0..n /\ k \in 0..n
                           /\ run[k] = IF Takes(due[k + 1], run[k - 1])
                                       THEN Append(run[k - 1], due[k + 1]) ELSE run[k - 1]
    BY SelectingFacts
  <1>2. due[1] \in C /\ \A k \in 1..n : due[k + 1] \in C <=> Takes(due[k + 1], run[k - 1])
    BY ChosenInTurn
  <1> HIDE DEF C
  <1>3. m \in Nat /\ due \in [1..m -> T]
    BY <1>1
  <1> HIDE DEF m
  <1>4. AmongUnfolds(C, due, m, T)
    BY <1>3, AmongUnfold
  <1>5. PICK part \in [0..m -> Seq(T)] : AmongRun(part, C, due, m) /\ Among(C, due) = part[m]
    BY <1>4 DEF AmongUnfolds
  <1> DEFINE Bad == {k \in 0..n : part[k + 1] # run[k]}
  <1>6. Bad = {}
    <2>1. SUFFICES ASSUME Bad # {} PROVE FALSE
      OBVIOUS
    <2>2. PICK k \in Bad : \A j \in Bad : k <= j
      <3>1. Bad \in SUBSET Nat
        BY <1>1
      <3> HIDE DEF Bad
      <3>2. QED
        BY <2>1, <3>1, Least
    <2>3. k + 1 \in 1..m /\ (k + 1) - 1 = k
      BY <1>1, <2>2 DEF m
    <2>4. part[k + 1] = IF due[k + 1] \in C THEN Append(part[k], due[k + 1]) ELSE part[k]
      BY <1>5, <2>3 DEF AmongRun
    <2>5. k # 0
      <3>1. part[0] = <<>>
        BY <1>5 DEF AmongRun
      <3>2. Append(<<>>, due[1]) = <<due[1]>>
        OBVIOUS
      <3>3. SUFFICES ASSUME k = 0 PROVE FALSE
        OBVIOUS
      <3>4. k + 1 = 1 /\ part[k] = <<>>
        BY <3>1, <3>3
      <3>5. part[k + 1] = Append(<<>>, due[1])
        BY <1>2, <2>4, <3>4
      <3>6. part[k + 1] = run[k]
        BY <1>1, <3>2, <3>3, <3>5
      <3>7. QED
        BY <2>2, <3>6
    <2>6. k \in 1..n /\ k - 1 \in 0..n /\ ~ (k <= k - 1) /\ (k - 1) + 1 = k
      BY <1>1, <2>2, <2>5
    <2>7. part[k] = run[k - 1]
      BY <2>2, <2>6
    <2>8. part[k + 1] = run[k]
      BY <1>1, <1>2, <2>4, <2>6, <2>7
    <2>9. QED
      BY <2>2, <2>8
  <1>7. n \in 0..n
    BY <1>1
  <1>8. part[n + 1] = run[n]
    BY <1>6, <1>7
  <1>9. QED
    BY <1>5, <1>8 DEF m, C

(* A return is taken for its trust base, its lock and the bytes.           *)
LEMMA TakesWhatFits ==
  ASSUME NEW taken \in Seq(TokenIds), NEW t \in TokenIds \ ToSet(taken)
  PROVE  Takes(t, taken) <=>
           /\ Len(taken) < MaxSize
           /\ TrustBaseOf[t] = TrustBaseOf[taken[1]]
           /\ \A u \in ToSet(taken) : NonceOf(u) # NonceOf(t)
           /\ Bytes(ToSet(taken) \cup {t}) <= MaxBytes
  <1>1. ToSet(taken) \in SUBSET TokenIds
    BY DEF ToSet
  <1>2. Bytes(ToSet(taken) \cup {t}) = Bytes(ToSet(taken)) + SizeOf[t]
    BY <1>1, BytesGrow
  <1>3. (\A u \in ToSet(taken) : NonceOf(u) # NonceOf(t))
          <=> \A i \in DOMAIN taken : NonceOf(t) # NonceOf(taken[i])
    BY DEF ToSet
  <1>4. QED
    BY <1>2, <1>3 DEF Takes, Fits

LEMMA GreedyFollows ==
  ASSUME IInv
  PROVE  SelectionIsGreedy
  <1>1. SUFFICES ASSUME NEW S \in (SUBSET ToSet(queue)) \ {{}}
                 PROVE  LET due == Due(S)
                            chosen == Select(due)
                            At(t) == CHOOSE i \in DOMAIN due : due[i] = t
                            Before(t) == Among({u \in S : At(u) < At(t)}, chosen)
                            Joins(t) ==
                              \/ t = due[1]
                              \/ /\ Len(Before(t)) < MaxSize
                                 /\ TrustBaseOf[t] = TrustBaseOf[due[1]]
                                 /\ \A u \in ToSet(Before(t)) : NonceOf(u) # NonceOf(t)
                                 /\ Bytes(ToSet(Before(t)) \cup {t}) <= MaxBytes IN
                        /\ chosen = Among(ToSet(chosen), due)
                        /\ \A t \in S : t \in ToSet(chosen) <=> Joins(t)
                        /\ \A t, u \in ToSet(chosen) : t # u => NonceOf(t) # NonceOf(u)
    BY DEF SelectionIsGreedy
  <1> DEFINE due == Due(S)
             n == Len(due) - 1
             chosen == Select(due)
             At(t) == CHOOSE i \in DOMAIN due : due[i] = t
             Before(t) == Among({u \in S : At(u) < At(t)}, chosen)
             Fitting(t) ==
               /\ Len(Before(t)) < MaxSize
               /\ TrustBaseOf[t] = TrustBaseOf[due[1]]
               /\ \A u \in ToSet(Before(t)) : NonceOf(u) # NonceOf(t)
               /\ Bytes(ToSet(Before(t)) \cup {t}) <= MaxBytes
  <1>2. due \in Seq(TokenIds) /\ ToSet(due) = S /\ n \in Nat /\ Len(due) = n + 1
    <2>1. /\ Due(S) \in Seq(TokenIds) /\ ToSet(Due(S)) = S
          /\ Len(Due(S)) \in Nat \ {0}
      <3>1. S # {} /\ S \subseteq ToSet(queue)
        OBVIOUS
      <3>2. QED
        BY ONLY IInv, <3>1, DueMembers
    <2>2. QED
      BY <2>1
  <1>3. IsInjective(due)
    <2>1. queue \in Seq(TokenIds) /\ IsInjective(queue)
      BY DEF IInv, TypeOK, Sequenced
    <2>2. QED
      BY <2>1, AmongInjective DEF Due
  <1> HIDE DEF due, n
  <1>4. PICK run \in [0..n -> Seq(TokenIds)] : SelectRun(run, due, n) /\ chosen = run[n]
    BY <1>2, SelectUnfold
  <1>5. Selecting(run, due, n, TokenIds)
    BY <1>2, <1>3, <1>4 DEF Selecting
  <1>6. /\ due \in [1..n + 1 -> TokenIds] /\ DOMAIN due = 1..n + 1
        /\ \A i, j \in 1..n + 1 : due[i] = due[j] => i = j
        /\ n \in 0..n /\ n \in Nat
    BY <1>5, SelectingFacts
  <1> HIDE DEF chosen
  <1>7. chosen = Among(ToSet(chosen), due)
    BY <1>4, <1>5, SelectKeepsOrder
  <1>8. \A t, u \in ToSet(chosen) : t # u => NonceOf(t) # NonceOf(u)
    <2>1. Chosen(run[n], due, n)
      BY <1>5, <1>6, SelectChooses
    <2>2. QED
      BY <1>4, <2>1 DEF Chosen
  <1>9. \A j \in 1..n + 1 : At(due[j]) = j
    BY <1>6
  <1>10. \A t \in S : \E j \in 1..n + 1 : t = due[j]
    BY <1>2, <1>6 DEF ToSet
  <1>11. \A j \in 1..n + 1 : due[j] \in S
    BY <1>2, <1>6 DEF ToSet
  <1>12. due[1] \in ToSet(chosen)
    BY <1>4, <1>5, ChosenInTurn
  <1> HIDE DEF At
  <1>13. ASSUME NEW k \in 1..n
         PROVE  due[k + 1] \in ToSet(chosen) <=> Fitting(due[k + 1])
    <2>1. /\ k + 1 \in 1..n + 1 /\ k - 1 \in 0..n /\ (k - 1) + 1 = k
          /\ due[k + 1] \notin FirstOf(due, k) /\ run[k - 1] \in Seq(TokenIds)
          /\ \A j \in 1..n + 1 : j < k + 1 <=> j \in 1..k
          /\ \A j \in 1..k : j \in 1..n + 1
      <3>1. k + 1 \in 1..n + 1 /\ k - 1 \in 0..n /\ due[k + 1] \notin FirstOf(due, k)
        BY <1>5, SelectingFacts
      <3>2. run[k - 1] \in Seq(TokenIds)
        BY <1>5, <3>1, SelectingFacts
      <3>3. QED
        BY <1>6, <3>1, <3>2
    <2>2. {u \in S : At(u) < At(due[k + 1])} = FirstOf(due, k)
      <3>1. At(due[k + 1]) = k + 1
        BY <1>9, <2>1
      <3>2. ASSUME NEW u \in S
            PROVE  At(u) < k + 1 <=> u \in FirstOf(due, k)
        <4>1. PICK j \in 1..n + 1 : u = due[j]
          BY <1>10
        <4>2. At(u) = j
          BY <1>9, <4>1
        <4>3. u \in FirstOf(due, k) <=> j \in 1..k
          BY <1>6, <2>1, <4>1 DEF FirstOf
        <4>4. QED
          BY <2>1, <4>2, <4>3
      <3>3. FirstOf(due, k) \subseteq S
        BY <1>11, <2>1 DEF FirstOf
      <3>4. QED
        BY <3>1, <3>2, <3>3
    <2>3. Before(due[k + 1]) = run[k - 1]
      <3>1. HadChosen(run, due, n, k - 1)
        BY <1>5, <2>1, SelectStays
      <3>2. Among(FirstOf(due, k), run[n]) = run[k - 1]
        BY <2>1, <3>1 DEF HadChosen
      <3>3. QED
        BY <1>4, <2>2, <3>2
    <2>4. Chosen(run[k - 1], due, k - 1)
      BY <1>5, <2>1, SelectChooses
    <2>5. run[k - 1][1] = due[1] /\ due[k + 1] \notin ToSet(run[k - 1])
      BY <2>1, <2>4 DEF Chosen
    <2>6. due[k + 1] \in TokenIds
      BY <1>6, <2>1
    <2>7. Takes(due[k + 1], run[k - 1]) <=> Fitting(due[k + 1])
      <3> DEFINE taken == run[k - 1]
                 t == due[k + 1]
      <3>1. taken \in Seq(TokenIds) /\ t \in TokenIds \ ToSet(taken)
        BY <2>1, <2>5, <2>6
      <3>2. taken[1] = due[1] /\ Before(t) = taken
        BY <2>3, <2>5
      <3> HIDE DEF taken, t, Before
      <3>3. Takes(t, taken) <=> /\ Len(taken) < MaxSize
                                /\ TrustBaseOf[t] = TrustBaseOf[taken[1]]
                                /\ \A u \in ToSet(taken) : NonceOf(u) # NonceOf(t)
                                /\ Bytes(ToSet(taken) \cup {t}) <= MaxBytes
        BY <3>1, TakesWhatFits
      <3>4. Takes(t, taken) <=> Fitting(t)
        BY <3>2, <3>3
      <3>5. QED
        BY <3>4 DEF taken, t
    <2>8. due[k + 1] \in ToSet(run[n]) <=> Takes(due[k + 1], run[k - 1])
      BY <1>5, ChosenInTurn
    <2> HIDE DEF Fitting
    <2>9. QED
      BY <1>4, <2>7, <2>8
  <1> HIDE DEF Fitting
  <1>14. \A t \in S : t \in ToSet(chosen) <=> t = due[1] \/ Fitting(t)
    <2>1. SUFFICES ASSUME NEW j \in 1..n + 1
                   PROVE  due[j] \in ToSet(chosen) <=> due[j] = due[1] \/ Fitting(due[j])
      BY <1>10
    <2>2. CASE j = 1
      BY <1>12, <2>2
    <2>3. CASE j # 1
      <3>1. j - 1 \in 1..n /\ (j - 1) + 1 = j /\ 1 \in 1..n + 1
        BY <1>6, <2>3
      <3>2. due[j] # due[1]
        BY <1>6, <2>3, <3>1
      <3>3. due[(j - 1) + 1] \in ToSet(chosen) <=> Fitting(due[(j - 1) + 1])
        BY <1>13, <3>1
      <3>4. QED
        BY <3>1, <3>2, <3>3
    <2>4. QED
      BY <2>2, <2>3
  <1>15. QED
    BY <1>7, <1>8, <1>14 DEF due, chosen, At, Fitting

(* In every state selection from any of the returns queued serves the      *)
(* oldest, keeps the order, passes over nothing that fits behind those     *)
(* chosen before it, and never takes two returns of one lock.              *)
THEOREM SelectionIsGreedyHolds == Spec => []SelectionIsGreedy
  <1>1. IInv => SelectionIsGreedy
    BY GreedyFollows
  <1>2. QED
    BY <1>1, InductiveInvariant, PTL

(***************************************************************************)
(* The wire                                                                *)
(***************************************************************************)

(* What is left to write once the first i of the words are written.        *)
Remains(left, words, tail, n) ==
  left[n] = tail /\ \A i \in 1..n : left[i - 1] = words[i] \o left[i]
WrittenAs(words, tail, n, W) ==
  \E left \in [0..n -> Seq(W)] : /\ Remains(left, words, tail, n)
                                 /\ left[0] = FlattenSeq(words) \o tail

(* The words written one after the other, in one go.                       *)
Flattens(flat, words, n) == flat[0] = <<>> /\ \A i \in 1..n : flat[i] = flat[i - 1] \o words[i]
LEMMA FlattenUnfold ==
  ASSUME NEW n \in Nat, NEW W, NEW words \in [1..n -> Seq(W)]
  PROVE  \E flat \in [0..n -> Seq(W)] : Flattens(flat, words, n) /\ FlattenSeq(words) = flat[n]
  <1> DEFINE X == Seq(W)
             F == [i \in 1..n |-> [a \in X |-> a \o words[i]]]
  <1>1. F \in [1..n -> [X -> X]] /\ <<>> \in X
    OBVIOUS
  <1>2. \A i \in 1..n : \A a \in X : F[i][a] = a \o words[i]
    OBVIOUS
  <1> HIDE DEF F
  <1>3. PICK flat : Unfolds(flat, n, X, <<>>, F)
    BY <1>1, Recursion
  <1>4. flat \in [0..n -> X] /\ Flattens(flat, words, n)
    <2>1. \A i \in 1..n : flat[i - 1] \in X
      <3>1. \A i \in 1..n : i - 1 \in 0..n
        OBVIOUS
      <3>2. QED
        BY <1>3, <3>1 DEF Unfolds
    <2>2. QED
      BY <1>2, <1>3, <2>1 DEF Unfolds, Flattens
  <1>5. words \in Seq(X) /\ Len(words) = n
    OBVIOUS
  <1>6. CASE n = 0
    <2>1. words = <<>> /\ Len(words) = 0
      BY <1>5, <1>6
    <2>2. FlattenSeq(words) = <<>>
      BY <2>1 DEF FlattenSeq
    <2>3. QED
      BY <1>4, <1>6, <2>2 DEF Flattens
  <1>7. CASE n # 0
    <2> DEFINE Solves(g) == g = [i \in 1..n |-> IF i = 1 THEN words[i] ELSE g[i - 1] \o words[i]]
               iter == CHOOSE g : Solves(g)
               h == [i \in 1..n |-> flat[i]]
    <2>1. Solves(h)
      <3>1. flat[1] = words[1]
        <4>1. 1 \in 1..n /\ words[1] \in X
          BY <1>7
        <4> DEFINE Grows(i) == flat[i] = flat[i - 1] \o words[i]
        <4>2. flat[0] = <<>> /\ \A i \in 1..n : Grows(i)
          BY <1>4 DEF Flattens
        <4>3. Grows(1)
          <5> HIDE DEF Grows
          <5>1. QED
            BY <4>1, <4>2
        <4>4. flat[1] = <<>> \o words[1]
          <5>1. 1 - 1 = 0
            OBVIOUS
          <5>2. flat[1] = flat[1 - 1] \o words[1]
            BY <4>3
          <5>3. QED
            BY ONLY <4>2, <5>1, <5>2
        <4>5. QED
          BY <4>1, <4>4, ConcatEmptySeq
      <3>2. \A i \in 1..n : i # 1 => flat[i] = h[i - 1] \o words[i]
        <4>1. \A i \in 1..n : i # 1 => i - 1 \in 1..n
          OBVIOUS
        <4>2. \A i \in 1..n : i # 1 => h[i - 1] = flat[i - 1]
          BY <4>1
        <4>3. \A i \in 1..n : flat[i] = flat[i - 1] \o words[i]
          BY <1>4 DEF Flattens
        <4> HIDE DEF h
        <4>4. QED
          BY <4>2, <4>3
      <3>3. \A i \in 1..n : flat[i] = IF i = 1 THEN words[i] ELSE h[i - 1] \o words[i]
        BY <3>1, <3>2
      <3>4. QED
        BY <3>3
    <2>2. Solves(iter)
      BY <2>1
    <2>3. FlattenSeq(words) = iter[n]
      BY <1>5, <1>7 DEF FlattenSeq
    <2> HIDE DEF iter
    <2> DEFINE Bad == {i \in 1..n : iter[i] # flat[i]}
    <2>4. Bad = {}
      <3>1. SUFFICES ASSUME Bad # {} PROVE FALSE
        OBVIOUS
      <3>2. PICK i \in Bad : \A j \in Bad : i <= j
        <4>1. Bad \in SUBSET Nat
          OBVIOUS
        <4> HIDE DEF Bad
        <4>2. QED
          BY <3>1, <4>1, Least
      <3>3. \A j \in 1..n : iter[j] = IF j = 1 THEN words[j] ELSE iter[j - 1] \o words[j]
        BY <2>2
      <3>4. \A j \in 1..n : h[j] = IF j = 1 THEN words[j] ELSE h[j - 1] \o words[j]
        <4> HIDE DEF h
        <4>1. QED
          BY <2>1
      <3>10. \A j \in 1..n : h[j] = flat[j]
        OBVIOUS
      <3> HIDE DEF h
      <3>5. CASE i = 1
        BY <3>2, <3>3, <3>4, <3>5, <3>10
      <3>6. CASE i # 1
        <4>1. i - 1 \in 1..n /\ ~ (i <= i - 1)
          BY <3>2, <3>6
        <4>2. iter[i - 1] = h[i - 1]
          BY <3>2, <3>10, <4>1
        <4>3. QED
          BY <3>2, <3>3, <3>4, <3>6, <3>10, <4>2
      <3>7. QED
        BY <3>5, <3>6
    <2>5. iter[n] = flat[n]
      BY <1>7, <2>4
    <2>6. QED
      BY <1>4, <2>3, <2>5
  <1>8. QED
    BY <1>6, <1>7

Associates(a, b, c) == (a \o b) \o c = a \o (b \o c)
LEMMA Regroups ==
  ASSUME NEW W, NEW a \in Seq(W), NEW b \in Seq(W), NEW c \in Seq(W)
  PROVE  Associates(a, b, c)
  BY ConcatAssociative DEF Associates

LEMMA WrittenInTurn ==
  ASSUME NEW n \in Nat, NEW W, NEW words \in [1..n -> Seq(W)], NEW tail \in Seq(W)
  PROVE  WrittenAs(words, tail, n, W)
  <1> DEFINE X == Seq(W)
             F == [k \in 1..n |-> [a \in X |-> words[n + 1 - k] \o a]]
  <1>1. \A k \in 1..n : n + 1 - k \in 1..n
    OBVIOUS
  <1>2. F \in [1..n -> [X -> X]]
    BY <1>1
  <1>3. \A k \in 1..n : \A a \in X : F[k][a] = words[n + 1 - k] \o a
    OBVIOUS
  <1> HIDE DEF F
  <1>4. PICK up : Unfolds(up, n, X, tail, F)
    BY <1>2, Recursion
  <1> DEFINE left == [i \in 0..n |-> up[n - i]]
  <1>5. left \in [0..n -> X]
    <2>1. \A i \in 0..n : n - i \in 0..n
      OBVIOUS
    <2>2. QED
      BY <1>4, <2>1 DEF Unfolds
  <1>6. Remains(left, words, tail, n)
    <2>1. left[n] = tail
      <3>1. n \in 0..n /\ n - n = 0
        OBVIOUS
      <3>2. QED
        BY <1>4, <3>1 DEF Unfolds
    <2>2. ASSUME NEW i \in 1..n PROVE left[i - 1] = words[i] \o left[i]
      <3> DEFINE k == n + 1 - i
      <3>1. k \in 1..n /\ k - 1 \in 0..n /\ n - i = k - 1 /\ n - (i - 1) = k /\ n + 1 - k = i
        OBVIOUS
      <3>2. i \in 0..n /\ i - 1 \in 0..n
        OBVIOUS
      <3> HIDE DEF k
      <3>3. up[k] = F[k][up[k - 1]] /\ up[k - 1] \in X
        BY <1>4, <3>1 DEF Unfolds
      <3>4. up[k] = words[i] \o up[k - 1]
        BY <1>3, <3>1, <3>3
      <3>5. left[i - 1] = up[k] /\ left[i] = up[k - 1]
        BY <3>1, <3>2
      <3>6. QED
        BY <3>4, <3>5
    <2> HIDE DEF left
    <2>3. QED
      BY <2>1, <2>2 DEF Remains
  <1> HIDE DEF left
  <1>7. PICK flat \in [0..n -> X] : Flattens(flat, words, n) /\ FlattenSeq(words) = flat[n]
    BY FlattenUnfold
  <1> DEFINE Bad == {i \in 0..n : flat[i] \o left[i] # left[0]}
  <1>8. Bad = {}
    <2>1. SUFFICES ASSUME Bad # {} PROVE FALSE
      OBVIOUS
    <2>2. PICK i \in Bad : \A j \in Bad : i <= j
      <3>1. Bad \in SUBSET Nat
        OBVIOUS
      <3> HIDE DEF Bad
      <3>2. QED
        BY <2>1, <3>1, Least
    <2>3. i # 0
      <3>1. flat[0] = <<>> /\ left[0] \in X
        BY <1>5, <1>7 DEF Flattens
      <3>2. <<>> \o left[0] = left[0]
        BY <3>1, ConcatEmptySeq
      <3>3. QED
        BY <2>2, <3>1, <3>2
    <2>4. i \in 1..n /\ i - 1 \in 0..n /\ ~ (i <= i - 1) /\ i \in 0..n
      BY <2>2, <2>3
    <2>5. flat[i - 1] \o left[i - 1] = left[0]
      BY <2>2, <2>4
    <2>6. flat[i] = flat[i - 1] \o words[i] /\ left[i - 1] = words[i] \o left[i]
      BY <1>6, <1>7, <2>4 DEF Flattens, Remains
    <2>7. flat[i - 1] \in Seq(W) /\ words[i] \in Seq(W) /\ left[i] \in Seq(W)
      BY <1>5, <1>7, <2>4
    <2>8. flat[i] \o left[i] = left[0]
      <3>1. Associates(flat[i - 1], words[i], left[i])
        BY <2>7, Regroups
      <3>2. QED
        BY ONLY <2>5, <2>6, <3>1 DEF Associates
    <2>9. QED
      BY <2>2, <2>8
  <1>9. left[0] = FlattenSeq(words) \o tail
    <2>1. n \in 0..n
      OBVIOUS
    <2>2. QED
      BY <1>6, <1>7, <1>8, <2>1 DEF Remains
  <1>10. QED
    BY <1>5, <1>6, <1>9 DEF WrittenAs

(* A cursor that got this far.  Going is TRUE under a name, so that a      *)
(* cursor stays one record to the provers.                                 *)
Going == TRUE
CursorAt(rest, read) == [rest |-> rest, read |-> read, ok |-> Going]
MovedTo(c, rest) == [c EXCEPT !.rest = rest]
Holding(c, read) == [c EXCEPT !.read = read]
LEMMA Moves ==
  ASSUME NEW r, NEW v, NEW x
  PROVE  /\ MovedTo(CursorAt(r, v), x) = CursorAt(x, v) /\ Holding(CursorAt(r, v), x) = CursorAt(r, x)
         /\ CursorAt(r, v).rest = r /\ CursorAt(r, v).read = v /\ CursorAt(r, v).ok
  <1> DEFINE c == CursorAt(r, v)
  <1>1. DOMAIN c = {"rest", "read", "ok"} /\ c.rest = r /\ c.read = v /\ c.ok = Going /\ c = CursorAt(r, v)
    BY DEF CursorAt
  <1> HIDE DEF c
  <1>2. [c EXCEPT !.rest = x] = CursorAt(x, v)
    BY <1>1 DEF CursorAt
  <1>3. [c EXCEPT !.read = x] = CursorAt(r, x)
    BY <1>1 DEF CursorAt
  <1>4. c.ok
    BY <1>1, Zenon DEF Going
  <1>5. MovedTo(c, x) = CursorAt(x, v) /\ Holding(c, x) = CursorAt(r, x)
    BY <1>2, <1>3 DEF MovedTo, Holding
  <1>6. QED
    BY <1>1, <1>4, <1>5

LEMMA Stands ==
  ASSUME NEW c, NEW r, NEW v, c = CursorAt(r, v)
  PROVE  c.rest = r /\ c.read = v /\ c.ok
  <1>1. CursorAt(r, v).rest = r /\ CursorAt(r, v).read = v /\ CursorAt(r, v).ok
    BY Moves
  <1>2. QED
    BY <1>1, Zenon

LEMMA TakeAt ==
  ASSUME NEW s, NEW v, s # <<>>
  PROVE  Take(CursorAt(s, v)) = CursorAt(Tail(s), Append(v, Head(s)))
  <1> DEFINE c == CursorAt(s, v)
  <1>1. c.rest = s /\ c.read = v /\ c.ok
    BY Stands, Zenon
  <1> HIDE DEF c
  <1>2. Take(c) = Holding(MovedTo(c, Tail(s)), Append(v, Head(s)))
    BY <1>1 DEF Take, MovedTo, Holding
  <1>3. QED
    BY <1>2, Moves DEF c

LEMMA TakeReads ==
  ASSUME NEW W, NEW w \in W, NEW r \in Seq(W), NEW v
  PROVE  Take(CursorAt(<<w>> \o r, v)) = CursorAt(r, Append(v, w))
  <1> DEFINE s == <<w>> \o r
  <1>1. s # <<>> /\ Head(s) = w /\ Tail(s) = r
    OBVIOUS
  <1> HIDE DEF s
  <1>2. QED
    BY <1>1, TakeAt DEF s

LEMMA Appends ==
  ASSUME NEW W, NEW a \in Seq(W), NEW s \in W
  PROVE  /\ Append(a, s) \in Seq(W) /\ Len(Append(a, s)) = Len(a) + 1
         /\ Append(a, s)[Len(a) + 1] = s
         /\ \A i \in 1..Len(a) : Append(a, s)[i] = a[i]
  OBVIOUS

LEMMA Pair ==
  ASSUME NEW W, NEW d \in W, NEW s \in W
  PROVE  /\ <<d>> \o <<s>> = <<d, s>> /\ Append(Append(<<>>, d), s) = <<d, s>>
         /\ <<d, s>>[1] = d /\ <<d, s>>[2] = s /\ <<d, s>> \in Seq(W)
  <1> DEFINE p == <<d, s>>
             q == <<d>> \o <<s>>
             a == Append(<<>>, d)
             b == Append(a, s)
  <1>1. p \in Seq(W) /\ Len(p) = 2 /\ p[1] = d /\ p[2] = s
    OBVIOUS
  <1>2. q \in Seq(W) /\ Len(q) = 2 /\ q[1] = d /\ q[2] = s
    OBVIOUS
  <1>3. a \in Seq(W) /\ Len(a) = 1 /\ a[1] = d
    OBVIOUS
  <1> HIDE DEF a
  <1>4. b \in Seq(W) /\ Len(b) = 2 /\ b[1] = d /\ b[2] = s
    <2>1. b \in Seq(W) /\ Len(b) = Len(a) + 1 /\ b[Len(a) + 1] = s
          /\ \A i \in 1..Len(a) : b[i] = a[i]
      BY <1>3, Appends
    <2> HIDE DEF b
    <2>2. 1 + 1 = 2 /\ 1 \in 1..1
      OBVIOUS
    <2>3. QED
      BY <1>3, <2>1, <2>2
  <1> HIDE DEF p, q, b
  <1>5. \A i \in 1..2 : i = 1 \/ i = 2
    OBVIOUS
  <1>6. p = q
    <2>1. \A i \in 1..Len(p) : p[i] = q[i]
      BY <1>1, <1>2, <1>5
    <2>2. QED
      BY <1>1, <1>2, <2>1, SeqEqual
  <1>7. p = b
    <2>1. \A i \in 1..Len(p) : p[i] = b[i]
      BY <1>1, <1>4, <1>5
    <2>2. QED
      BY <1>1, <1>4, <2>1, SeqEqual
  <1>8. QED
    BY <1>1, <1>6, <1>7 DEF p, q, b, a

LEMMA TwoWords ==
  ASSUME NEW W, NEW d \in W, NEW s \in W, NEW r \in Seq(W)
  PROVE  <<d, s>> \o r = <<d>> \o (<<s>> \o r) /\ <<s>> \o r \in Seq(W)
  <1>1. <<d>> \in Seq(W) /\ <<s>> \in Seq(W)
    OBVIOUS
  <1>2. (<<d>> \o <<s>>) \o r = <<d>> \o (<<s>> \o r)
    BY <1>1, Regroups DEF Associates
  <1>3. <<d>> \o <<s>> = <<d, s>>
    BY Pair
  <1>4. <<s>> \o r \in Seq(W)
    BY <1>1
  <1>5. QED
    BY ONLY <1>2, <1>3, <1>4

LEMMA StepReads ==
  ASSUME NEW W, NEW d \in W, NEW s \in W, NEW r \in Seq(W), NEW v
  PROVE  Step(CursorAt(<<d, s>> \o r, v)) = CursorAt(r, Append(v, [depth |-> d, sibling |-> s]))
  <1> DEFINE all == <<d, s>> \o r
             later == <<s>> \o r
             c == CursorAt(all, v)
             one == Take(CursorAt(all, <<>>))
             two == Take(one)
             words == Append(Append(<<>>, d), s)
  <1>1. all = <<d>> \o later /\ later \in Seq(W)
    BY TwoWords
  <1>2. two = CursorAt(r, words)
    <2>1. one = CursorAt(later, Append(<<>>, d))
      <3> HIDE DEF all, later
      <3>1. QED
        BY <1>1, TakeReads
    <2> HIDE DEF one
    <2>2. QED
      BY <2>1, TakeReads
  <1>3. words[1] = d /\ words[2] = s
    <2>1. words = <<d, s>>
      BY Pair
    <2> HIDE DEF words
    <2>2. QED
      BY <2>1
  <1> HIDE DEF all, two, words
  <1>4. Holding(c, <<>>) = CursorAt(all, <<>>) /\ c.read = v
    BY Moves
  <1>5. two.ok /\ two.read = words
    BY <1>2, Stands
  <1> HIDE DEF c
  <1>6. Step(c) = IF two.ok
                  THEN Holding(two, Append(v, [depth |-> (two.read)[1], sibling |-> (two.read)[2]]))
                  ELSE Failed(c)
    BY <1>4 DEF Step, AsOne, Holding, two, one
  <1>7. Step(c) = Holding(two, Append(v, [depth |-> d, sibling |-> s]))
    BY <1>3, <1>5, <1>6
  <1>8. QED
    BY <1>2, <1>7, Moves DEF c, all

(***************************************************************************)
(* Folds over readings                                                     *)
(***************************************************************************)
Reading(kind, c) ==
  IF kind = "take" THEN Take(c) ELSE IF kind = "step" THEN Step(c) ELSE Witness(c)
ReadingStep(kind, start, g, s) == IF s = {} THEN start ELSE Reading(kind, g[s \ {Max(s)}])
Readings(g, kind, start, n) == g = [s \in SUBSET (1..n) |-> ReadingStep(kind, start, g, s)]

LEMMA ReadingsExist ==
  ASSUME NEW kind, NEW start, NEW n \in Nat
  PROVE  \E g : Readings(g, kind, start, n)
  <1> DEFINE Step0(g, s) == ReadingStep(kind, start, g, s)
             Solves(g, k) == g = [s \in SUBSET (1..k) |-> Step0(g, s)]
             Bad == {k \in Nat : ~ \E g : Solves(g, k)}
  <1>1. SUFFICES ASSUME Bad # {} PROVE FALSE
    BY DEF Readings
  <1>2. PICK k \in Bad : \A m \in Bad : k <= m
    <2>1. Bad \in SUBSET Nat
      OBVIOUS
    <2> HIDE DEF Bad
    <2>2. QED
      BY <1>1, <2>1, Least
  <1>3. k # 0
    <2>1. SUFFICES ASSUME k = 0 PROVE FALSE
      OBVIOUS
    <2>2. \A s \in SUBSET (1..0) : s = {}
      OBVIOUS
    <2>3. Solves([s \in SUBSET (1..0) |-> start], 0)
      BY <2>2 DEF ReadingStep
    <2>4. QED
      BY <2>1, <2>3
  <1>4. k \in Nat /\ k - 1 \in Nat /\ ~ (k <= k - 1)
    BY <1>2, <1>3
  <1>5. PICK g : Solves(g, k - 1)
    <2>1. k - 1 \notin Bad
      BY <1>2, <1>4
    <2>2. QED
      BY <1>4, <2>1
  <1> DEFINE h == [s \in SUBSET (1..k) |-> Step0(g, s)]
  <1>6. \A s \in SUBSET (1..k - 1) : s \in SUBSET (1..k) /\ h[s] = g[s]
    <2> HIDE DEF Step0
    <2>1. \A s \in SUBSET (1..k - 1) : s \in SUBSET (1..k)
      BY <1>4
    <2>2. \A s \in SUBSET (1..k - 1) : g[s] = Step0(g, s)
      BY <1>5
    <2>3. QED
      BY <2>1, <2>2
  <1>7. \A s \in SUBSET (1..k) : Step0(g, s) = Step0(h, s)
    <2>1. TAKE s \in SUBSET (1..k)
    <2>2. CASE s = {}
      BY <2>2 DEF ReadingStep
    <2>3. CASE s # {}
      <3>1. s \ {Max(s)} \in SUBSET (1..k - 1)
        BY <1>3, <1>4, <2>3, BelowMax
      <3>2. h[s \ {Max(s)}] = g[s \ {Max(s)}]
        BY <1>6, <3>1
      <3> HIDE DEF h
      <3>3. QED
        BY <3>2 DEF ReadingStep
    <2>4. QED
      BY <2>2, <2>3
  <1>8. Solves(h, k)
    <2> HIDE DEF Step0
    <2>1. QED
      BY <1>7
  <1>9. QED
    BY <1>2, <1>8

(* The cursor after each of n readings.                                    *)
ReadInTurn(run, kind, start, n) ==
  run[0] = start /\ \A i \in 1..n : run[i] = Reading(kind, run[i - 1])

LEMMA ReadingsRun ==
  ASSUME NEW kind, NEW start, NEW n \in Nat, NEW g, Readings(g, kind, start, n)
  PROVE  \E run : ReadInTurn(run, kind, start, n) /\ run[n] = g[1..n]
  <1>1. \A s \in SUBSET (1..n) : g[s] = ReadingStep(kind, start, g, s)
    BY DEF Readings
  <1> DEFINE run == [i \in 0..n |-> g[1..i]]
  <1>3. run[0] = start
    <2>1. 1..0 = {} /\ 1..0 \in SUBSET (1..n) /\ 0 \in 0..n
      OBVIOUS
    <2>2. g[1..0] = start
      BY <1>1, <2>1 DEF ReadingStep
    <2>3. QED
      BY <2>1, <2>2
  <1>4. \A i \in 1..n : run[i] = Reading(kind, run[i - 1])
    <2>1. TAKE i \in 1..n
    <2>2. i \in Nat /\ i # 0 /\ i \in 0..n /\ i - 1 \in 0..n
      OBVIOUS
    <2>3. Max(1..i) = i /\ (1..i) \ {i} = 1..i - 1
      BY <2>2, MaxOfRange
    <2>4. 1..i \in SUBSET (1..n) /\ 1..i # {}
      <3>1. \A j \in 0..n : 1..j \in SUBSET (1..n)
        OBVIOUS
      <3>2. i \in 1..i
        BY <2>2
      <3>3. QED
        BY <2>2, <3>1, <3>2
    <2>5. g[1..i] = ReadingStep(kind, start, g, 1..i)
      BY <1>1, <2>4
    <2>7. g[1..i] = Reading(kind, g[1..i - 1])
      BY <2>3, <2>4, <2>5 DEF ReadingStep
    <2>8. QED
      BY <2>2, <2>7
  <1>5. run[n] = g[1..n]
    OBVIOUS
  <1> HIDE DEF run
  <1>6. QED
    BY <1>3, <1>4, <1>5 DEF ReadInTurn

(* Folds of each kind of reading are runs of it.                           *)
Finds(c, kind, start, n) == \E run : ReadInTurn(run, kind, start, n) /\ run[n] = c

TakeFold(g, start, s) == IF s = {} THEN start ELSE Take(g[s \ {Max(s)}])
TakeFolds(g, start, n) == g = [s \in SUBSET (1..n) |-> TakeFold(g, start, s)]
StepFold(g, start, s) == IF s = {} THEN start ELSE Step(g[s \ {Max(s)}])
StepFolds(g, start, n) == g = [s \in SUBSET (1..n) |-> StepFold(g, start, s)]
WitnessFold(g, start, s) == IF s = {} THEN start ELSE Witness(g[s \ {Max(s)}])
WitnessFolds(g, start, n) == g = [s \in SUBSET (1..n) |-> WitnessFold(g, start, s)]

LEMMA TakesFind ==
  ASSUME NEW start, NEW order, NEW n \in Nat, DOMAIN order = 1..n
  PROVE  Finds(FoldLeft(LAMBDA c, i : Take(c), start, order), "take", start, n)
  <1> DEFINE iter == CHOOSE g : TakeFolds(g, start, n)
             end == FoldLeft(LAMBDA c, i : Take(c), start, order)
  <1>1. \A g, s : TakeFold(g, start, s) = ReadingStep("take", start, g, s)
    BY DEF ReadingStep, Reading, TakeFold
  <1>2. end = iter[1..n]
    BY DEF FoldLeft, MapThenFoldSet, TakeFolds, TakeFold
  <1>3. \A g : TakeFolds(g, start, n) <=> Readings(g, "take", start, n)
    BY <1>1 DEF Readings, TakeFolds
  <1>4. TakeFolds(iter, start, n)
    BY <1>3, ReadingsExist
  <1> HIDE DEF iter, end
  <1>5. Finds(end, "take", start, n)
    BY <1>2, <1>3, <1>4, ReadingsRun DEF Finds
  <1>6. QED
    BY <1>5, Zenon DEF end

LEMMA StepsFind ==
  ASSUME NEW start, NEW order, NEW n \in Nat, DOMAIN order = 1..n
  PROVE  Finds(FoldLeft(LAMBDA c, i : Step(c), start, order), "step", start, n)
  <1> DEFINE iter == CHOOSE g : StepFolds(g, start, n)
             end == FoldLeft(LAMBDA c, i : Step(c), start, order)
  <1>1. \A g, s : StepFold(g, start, s) = ReadingStep("step", start, g, s)
    BY DEF ReadingStep, Reading, StepFold
  <1>2. end = iter[1..n]
    BY DEF FoldLeft, MapThenFoldSet, StepFolds, StepFold
  <1>3. \A g : StepFolds(g, start, n) <=> Readings(g, "step", start, n)
    BY <1>1 DEF Readings, StepFolds
  <1>4. StepFolds(iter, start, n)
    BY <1>3, ReadingsExist
  <1> HIDE DEF iter, end
  <1>5. Finds(end, "step", start, n)
    BY <1>2, <1>3, <1>4, ReadingsRun DEF Finds
  <1>6. QED
    BY <1>5, Zenon DEF end

LEMMA WitnessesFind ==
  ASSUME NEW start, NEW order, NEW n \in Nat, DOMAIN order = 1..n
  PROVE  Finds(FoldLeft(LAMBDA c, i : Witness(c), start, order), "witness", start, n)
  <1> DEFINE iter == CHOOSE g : WitnessFolds(g, start, n)
             end == FoldLeft(LAMBDA c, i : Witness(c), start, order)
  <1>1. \A g, s : WitnessFold(g, start, s) = ReadingStep("witness", start, g, s)
    BY DEF ReadingStep, Reading, WitnessFold
  <1>2. end = iter[1..n]
    BY DEF FoldLeft, MapThenFoldSet, WitnessFolds, WitnessFold
  <1>3. \A g : WitnessFolds(g, start, n) <=> Readings(g, "witness", start, n)
    BY <1>1 DEF Readings, WitnessFolds
  <1>4. WitnessFolds(iter, start, n)
    BY <1>3, ReadingsExist
  <1> HIDE DEF iter, end
  <1>5. Finds(end, "witness", start, n)
    BY <1>2, <1>3, <1>4, ReadingsRun DEF Finds
  <1>6. QED
    BY <1>5, Zenon DEF end

(* The first i of n items.                                                 *)
Firsts(items, i) == [j \in 1..i |-> items[j]]
LEMMA FirstsGrow ==
  ASSUME NEW n \in Nat, NEW U, NEW items \in [1..n -> U]
  PROVE  /\ Firsts(items, 0) = <<>> /\ Firsts(items, n) = items
         /\ \A i \in 1..n : Firsts(items, i) = Append(Firsts(items, i - 1), items[i])
  <1>1. Firsts(items, 0) = <<>>
    BY DEF Firsts
  <1>2. Firsts(items, n) = items
    BY DEF Firsts
  <1>3. ASSUME NEW i \in 1..n
        PROVE  Firsts(items, i) = Append(Firsts(items, i - 1), items[i])
    <2> DEFINE a == Firsts(items, i - 1)
               b == Firsts(items, i)
               x == items[i]
    <2>1. i \in Nat /\ i - 1 \in Nat /\ (i - 1) + 1 = i
      OBVIOUS
    <2>2. a \in Seq(U) /\ Len(a) = i - 1 /\ \A j \in 1..i - 1 : a[j] = items[j]
      BY DEF Firsts
    <2>3. b \in Seq(U) /\ Len(b) = i /\ \A j \in 1..i : b[j] = items[j]
      BY DEF Firsts
    <2>4. x \in U
      OBVIOUS
    <2> HIDE DEF a, b, x
    <2>5. /\ Append(a, x) \in Seq(U) /\ Len(Append(a, x)) = Len(a) + 1
          /\ Append(a, x)[Len(a) + 1] = x
          /\ \A j \in 1..Len(a) : Append(a, x)[j] = a[j]
      BY <2>2, <2>4, Appends
    <2> DEFINE c == Append(a, x)
    <2> HIDE DEF c
    <2>6. c \in Seq(U) /\ Len(c) = i /\ c[i] = x /\ \A j \in 1..i - 1 : c[j] = a[j]
      BY <2>1, <2>2, <2>5 DEF c
    <2>7. \A j \in 1..i : j \in 1..i - 1 \/ j = i
      BY <2>1
    <2>8. \A j \in 1..i : b[j] = c[j]
      BY <2>2, <2>3, <2>6, <2>7 DEF x
    <2>9. b = c
      BY <2>3, <2>6, <2>8, SeqEqual
    <2>10. QED
      BY <2>9 DEF a, b, c, x
  <1>4. QED
    BY <1>1, <1>2, <1>3

(* The words an item was written in are read back as that item.            *)
ReadsAs(kind, word, item, W) ==
  \A r \in Seq(W) : \A v : Reading(kind, CursorAt(word \o r, v)) = CursorAt(r, Append(v, item))
LEMMA ReadInOrder ==
  ASSUME NEW kind, NEW n \in Nat, NEW W, NEW U, NEW items \in [1..n -> U],
         NEW words \in [1..n -> Seq(W)], \A i \in 1..n : ReadsAs(kind, words[i], items[i], W),
         NEW tail \in Seq(W), NEW c, Finds(c, kind, CursorAt(FlattenSeq(words) \o tail, <<>>), n)
  PROVE  c = CursorAt(tail, items)
  <1>1. PICK left \in [0..n -> Seq(W)] :
          Remains(left, words, tail, n) /\ left[0] = FlattenSeq(words) \o tail
    BY WrittenInTurn DEF WrittenAs
  <1>2. PICK run : ReadInTurn(run, kind, CursorAt(left[0], <<>>), n) /\ run[n] = c
    BY <1>1 DEF Finds
  <1>3. run[0] = CursorAt(left[0], <<>>) /\ \A i \in 1..n : run[i] = Reading(kind, run[i - 1])
    BY <1>2 DEF ReadInTurn
  <1> DEFINE Bad == {i \in 0..n : run[i] # CursorAt(left[i], Firsts(items, i))}
  <1>4. Bad = {}
    <2>1. SUFFICES ASSUME Bad # {} PROVE FALSE
      OBVIOUS
    <2>2. PICK i \in Bad : \A j \in Bad : i <= j
      <3>1. Bad \in SUBSET Nat
        OBVIOUS
      <3> HIDE DEF Bad
      <3>2. QED
        BY <2>1, <3>1, Least
    <2>3. i # 0
      <3>1. run[0] = CursorAt(left[0], Firsts(items, 0))
        BY <1>3, FirstsGrow
      <3>2. QED
        BY <2>2, <3>1
    <2>4. i \in 1..n /\ i - 1 \in 0..n /\ ~ (i <= i - 1) /\ i \in 0..n
      BY <2>2, <2>3
    <2>5. run[i - 1] = CursorAt(left[i - 1], Firsts(items, i - 1))
      BY <2>2, <2>4
    <2>6. left[i - 1] = words[i] \o left[i]
      BY <1>1, <2>4 DEF Remains
    <2>7. left[i] \in Seq(W)
      BY <2>4
    <2>8. Reading(kind, CursorAt(words[i] \o left[i], Firsts(items, i - 1)))
            = CursorAt(left[i], Append(Firsts(items, i - 1), items[i]))
      BY <2>4, <2>7 DEF ReadsAs
    <2>9. Firsts(items, i) = Append(Firsts(items, i - 1), items[i])
      BY <2>4, FirstsGrow
    <2>10. run[i] = Reading(kind, run[i - 1])
      BY <1>3, <2>4
    <2>11. run[i] = CursorAt(left[i], Firsts(items, i))
      BY ONLY <2>5, <2>6, <2>8, <2>9, <2>10
    <2>12. QED
      BY <2>2, <2>11
  <1>5. run[n] = CursorAt(left[n], Firsts(items, n))
    <2>1. n \in 0..n
      OBVIOUS
    <2>2. QED
      BY <1>4, <2>1
  <1>6. left[n] = tail
    BY <1>1 DEF Remains
  <1>7. QED
    BY <1>2, <1>5, <1>6, FirstsGrow

(***************************************************************************)
(* Vectors                                                                 *)
(***************************************************************************)

(* A vector read from a cursor: its length, then the items it holds.       *)
VecUnfolds(c, vec, taken, end) ==
  vec = IF taken.ok THEN IF end.ok THEN Holding(end, Append(c.read, end.read)) ELSE Failed(c)
        ELSE Failed(c)
TakeItems(c) == Items(c, Take)
LeafItems(c) == Items(c, Leaf)
BurnItems(c) == Items(c, Burn)
StepItems(c) == Items(c, Step)
WitnessItems(c) == Items(c, Witness)

LEMMA TakeVecUnfolds ==
  ASSUME NEW c
  PROVE  VecUnfolds(c, Vec(c, Take), Take(c), TakeItems(Holding(c, <<>>)))
  BY ZenonT(60) DEF VecUnfolds, Vec, AsOne, TakeItems, Holding
LEMMA StepVecUnfolds ==
  ASSUME NEW c
  PROVE  VecUnfolds(c, Vec(c, Step), Take(c), StepItems(Holding(c, <<>>)))
  BY ZenonT(60) DEF VecUnfolds, Vec, AsOne, StepItems, Holding
LEMMA WitnessVecUnfolds ==
  ASSUME NEW c
  PROVE  VecUnfolds(c, Vec(c, Witness), Take(c), WitnessItems(Holding(c, <<>>)))
  BY ZenonT(60) DEF VecUnfolds, Vec, AsOne, WitnessItems, Holding

(* A leaf and a burn are each a word.                                      *)
LEMMA LeafVecUnfolds ==
  ASSUME NEW c
  PROVE  Vec(c, Leaf) = Vec(c, Take)
  <1> DEFINE leaves == Vec(c, Leaf)
             words == Vec(c, Take)
             d == Holding(c, <<>>)
  <1>1. VecUnfolds(c, leaves, Take(c), LeafItems(d))
    BY ZenonT(60) DEF VecUnfolds, Vec, AsOne, LeafItems, Holding
  <1>2. VecUnfolds(c, words, Take(c), TakeItems(d))
    BY TakeVecUnfolds, Zenon
  <1>3. LeafItems(d) = TakeItems(d)
    BY Zenon DEF LeafItems, TakeItems, Items, Leaf
  <1> HIDE DEF leaves, words, d
  <1>4. leaves = words
    BY <1>1, <1>2, <1>3 DEF VecUnfolds
  <1>5. QED
    BY <1>4, Zenon DEF leaves, words
LEMMA BurnVecUnfolds ==
  ASSUME NEW c
  PROVE  Vec(c, Burn) = Vec(c, Take)
  <1> DEFINE burns == Vec(c, Burn)
             words == Vec(c, Take)
             d == Holding(c, <<>>)
  <1>1. VecUnfolds(c, burns, Take(c), BurnItems(d))
    BY ZenonT(60) DEF VecUnfolds, Vec, AsOne, BurnItems, Holding
  <1>2. VecUnfolds(c, words, Take(c), TakeItems(d))
    BY TakeVecUnfolds, Zenon
  <1>3. BurnItems(d) = TakeItems(d)
    BY Zenon DEF BurnItems, TakeItems, Items, Burn
  <1> HIDE DEF burns, words, d
  <1>4. burns = words
    BY <1>1, <1>2, <1>3 DEF VecUnfolds
  <1>5. QED
    BY <1>4, Zenon DEF burns, words

LEMMA TakeItemsFind ==
  ASSUME NEW c, NEW n \in Nat, Head(c.rest) = n, NEW start, Holding(Take(c), <<>>) = start
  PROVE  Finds(TakeItems(c), "take", start, n)
  <1> DEFINE order == [i \in 1..n |-> i]
             end == FoldLeft(LAMBDA d, i : Take(d), start, order)
  <1>1. Finds(end, "take", start, n)
     <2>1. DOMAIN order = 1..n
       OBVIOUS
     <2> HIDE DEF order
     <2>2. QED
       BY <2>1, TakesFind
  <1>2. TakeItems(c) = end
    BY Zenon DEF TakeItems, Items, Holding
  <1> HIDE DEF end
  <1>3. QED
    BY <1>1, <1>2
LEMMA StepItemsFind ==
  ASSUME NEW c, NEW n \in Nat, Head(c.rest) = n, NEW start, Holding(Take(c), <<>>) = start
  PROVE  Finds(StepItems(c), "step", start, n)
  <1> DEFINE order == [i \in 1..n |-> i]
             end == FoldLeft(LAMBDA d, i : Step(d), start, order)
  <1>1. Finds(end, "step", start, n)
     <2>1. DOMAIN order = 1..n
       OBVIOUS
     <2> HIDE DEF order
     <2>2. QED
       BY <2>1, StepsFind
  <1>2. StepItems(c) = end
    BY Zenon DEF StepItems, Items, Holding
  <1> HIDE DEF end
  <1>3. QED
    BY <1>1, <1>2
LEMMA WitnessItemsFind ==
  ASSUME NEW c, NEW n \in Nat, Head(c.rest) = n, NEW start, Holding(Take(c), <<>>) = start
  PROVE  Finds(WitnessItems(c), "witness", start, n)
  <1> DEFINE order == [i \in 1..n |-> i]
             end == FoldLeft(LAMBDA d, i : Witness(d), start, order)
  <1>1. Finds(end, "witness", start, n)
     <2>1. DOMAIN order = 1..n
       OBVIOUS
     <2> HIDE DEF order
     <2>2. QED
       BY <2>1, WitnessesFind
  <1>2. WitnessItems(c) = end
    BY Zenon DEF WitnessItems, Items, Holding
  <1> HIDE DEF end
  <1>3. QED
    BY <1>1, <1>2

(* A vector of n items, each in words that read back as it.                *)
Vector(n, words, tail) == (<<n>> \o FlattenSeq(words)) \o tail
Body(words, tail) == FlattenSeq(words) \o tail
Written(kind, n, words, items, tail, W, U) ==
  /\ n \in Nat /\ Nat \subseteq W /\ words \in [1..n -> Seq(W)] /\ items \in [1..n -> U]
  /\ tail \in Seq(W) /\ \A i \in 1..n : ReadsAs(kind, words[i], items[i], W)
LEMMA VectorStarts ==
  ASSUME NEW W, Nat \subseteq W, NEW n \in Nat, NEW words \in [1..n -> Seq(W)], NEW tail \in Seq(W), NEW v
  PROVE  /\ Take(CursorAt(Vector(n, words, tail), v)) = CursorAt(Body(words, tail), Append(v, n))
         /\ Head(Vector(n, words, tail)) = n
  <1> DEFINE flat == FlattenSeq(words)
             rest == flat \o tail
  <1>1. flat \in Seq(W)
    <2>1. n \in 0..n
      OBVIOUS
    <2>2. QED
      BY <2>1, FlattenUnfold
  <1> HIDE DEF flat
  <1>2. <<n>> \in Seq(W) /\ n \in W
    OBVIOUS
  <1>3. Vector(n, words, tail) = <<n>> \o rest
    BY <1>1, <1>2, Regroups DEF Associates, Vector, flat
  <1>4. rest \in Seq(W)
    BY <1>1
  <1> HIDE DEF rest
  <1>5. Take(CursorAt(<<n>> \o rest, v)) = CursorAt(rest, Append(v, n))
    BY <1>2, <1>4, TakeReads
  <1>6. Head(<<n>> \o rest) = n
    BY <1>2, <1>4
  <1>7. QED
    BY <1>3, <1>5, <1>6 DEF rest, flat, Body

LEMMA VectorFinds ==
  ASSUME NEW kind, NEW n, NEW words, NEW items, NEW tail, NEW W, NEW U,
         Written(kind, n, words, items, tail, W, U), NEW v, NEW c, c = CursorAt(Vector(n, words, tail), v)
  PROVE  /\ n \in Nat /\ Head(Holding(c, <<>>).rest) = n
         /\ Holding(Take(Holding(c, <<>>)), <<>>) = CursorAt(Body(words, tail), <<>>)
         /\ Take(c).ok /\ c.read = v
  <1> DEFINE all == Vector(n, words, tail)
  <1>1. /\ Head(all) = n /\ Take(CursorAt(all, <<>>)) = CursorAt(Body(words, tail), Append(<<>>, n))
        /\ Take(CursorAt(all, v)) = CursorAt(Body(words, tail), Append(v, n)) /\ n \in Nat
    <2>1. n \in Nat /\ Nat \subseteq W /\ words \in [1..n -> Seq(W)] /\ tail \in Seq(W)
      BY DEF Written
    <2>2. \A x : /\ Take(CursorAt(all, x)) = CursorAt(Body(words, tail), Append(x, n))
                 /\ Head(all) = n
      BY ONLY <2>1, VectorStarts
    <2>3. QED
      BY ONLY <2>1, <2>2
  <1> HIDE DEF all
  <1>2. Holding(c, <<>>) = CursorAt(all, <<>>) /\ c.read = v
    BY Moves DEF all
  <1>3. Holding(c, <<>>).rest = all
    BY <1>2, Stands
  <1>4. Holding(Take(Holding(c, <<>>)), <<>>) = CursorAt(Body(words, tail), <<>>)
    BY <1>1, <1>2, Moves
  <1>5. Take(c).ok
    BY <1>1, Stands DEF all
  <1>6. QED
    BY <1>1, <1>2, <1>3, <1>4, <1>5

(* Whatever reads the items back reads the vector of them.                 *)
LEMMA VectorReads ==
  ASSUME NEW kind, NEW n, NEW words, NEW items, NEW tail, NEW W, NEW U,
         Written(kind, n, words, items, tail, W, U), NEW v, NEW c, c = CursorAt(Vector(n, words, tail), v),
         NEW vec, NEW end, Finds(end, kind, CursorAt(Body(words, tail), <<>>), n),
         VecUnfolds(c, vec, Take(c), end)
  PROVE  vec = CursorAt(tail, Append(v, items))
  <1>1. Take(c).ok /\ c.read = v
    BY VectorFinds
  <1>2. end = CursorAt(tail, items)
    <2>1. /\ n \in Nat /\ words \in [1..n -> Seq(W)] /\ items \in [1..n -> U] /\ tail \in Seq(W)
          /\ \A i \in 1..n : ReadsAs(kind, words[i], items[i], W)
      BY DEF Written
    <2>2. QED
      BY <2>1, ReadInOrder DEF Body
  <1>3. end.ok /\ end.read = items
    BY <1>2, Stands
  <1>4. vec = Holding(end, Append(v, items))
    BY <1>1, <1>3 DEF VecUnfolds
  <1>5. QED
    BY <1>2, <1>4, Moves

LEMMA TakenVector ==
  ASSUME NEW n, NEW words, NEW items, NEW tail, NEW W, NEW U,
         Written("take", n, words, items, tail, W, U), NEW v, NEW c, c = CursorAt(Vector(n, words, tail), v)
  PROVE  Vec(c, Take) = CursorAt(tail, Append(v, items))
  <1> DEFINE vec == Vec(c, Take)
             end == TakeItems(Holding(c, <<>>))
  <1>1. Finds(end, "take", CursorAt(Body(words, tail), <<>>), n)
    BY VectorFinds, TakeItemsFind
  <1>2. VecUnfolds(c, vec, Take(c), end)
    BY TakeVecUnfolds, Zenon
  <1> HIDE DEF vec, end
  <1>3. vec = CursorAt(tail, Append(v, items))
    BY <1>1, <1>2, VectorReads
  <1>4. QED
    BY <1>3, Zenon DEF vec
LEMMA SteppedVector ==
  ASSUME NEW n, NEW words, NEW items, NEW tail, NEW W, NEW U,
         Written("step", n, words, items, tail, W, U), NEW v, NEW c, c = CursorAt(Vector(n, words, tail), v)
  PROVE  Vec(c, Step) = CursorAt(tail, Append(v, items))
  <1> DEFINE vec == Vec(c, Step)
             end == StepItems(Holding(c, <<>>))
  <1>1. Finds(end, "step", CursorAt(Body(words, tail), <<>>), n)
    BY VectorFinds, StepItemsFind
  <1>2. VecUnfolds(c, vec, Take(c), end)
    BY StepVecUnfolds, Zenon
  <1> HIDE DEF vec, end
  <1>3. vec = CursorAt(tail, Append(v, items))
    BY <1>1, <1>2, VectorReads
  <1>4. QED
    BY <1>3, Zenon DEF vec
LEMMA WitnessedVector ==
  ASSUME NEW n, NEW words, NEW items, NEW tail, NEW W, NEW U,
         Written("witness", n, words, items, tail, W, U), NEW v, NEW c, c = CursorAt(Vector(n, words, tail), v)
  PROVE  Vec(c, Witness) = CursorAt(tail, Append(v, items))
  <1> DEFINE vec == Vec(c, Witness)
             end == WitnessItems(Holding(c, <<>>))
  <1>1. Finds(end, "witness", CursorAt(Body(words, tail), <<>>), n)
    BY VectorFinds, WitnessItemsFind
  <1>2. VecUnfolds(c, vec, Take(c), end)
    BY WitnessVecUnfolds, Zenon
  <1> HIDE DEF vec, end
  <1>3. vec = CursorAt(tail, Append(v, items))
    BY <1>1, <1>2, VectorReads
  <1>4. QED
    BY <1>3, Zenon DEF vec

(* A field is read back as it was written, and so is a step.               *)
LEMMA FieldReads ==
  ASSUME NEW W, NEW field \in W
  PROVE  ReadsAs("take", PutField(field), field, W)
  <1>1. \A c : Reading("take", c) = Take(c)
    BY DEF Reading
  <1>2. QED
    BY <1>1, TakeReads DEF ReadsAs, PutField

LEMMA StepReadsBack ==
  ASSUME NEW W, NEW step \in [depth : W, sibling : W]
  PROVE  ReadsAs("step", PutStep(step), step, W)
  <1>1. \A c : Reading("step", c) = Step(c)
    BY DEF Reading
  <1>2. step.depth \in W /\ step.sibling \in W /\ step = [depth |-> step.depth, sibling |-> step.sibling]
    OBVIOUS
  <1>3. SUFFICES ASSUME NEW r \in Seq(W), NEW v
                 PROVE  Step(CursorAt(PutStep(step) \o r, v)) = CursorAt(r, Append(v, step))
    BY <1>1 DEF ReadsAs
  <1>4. QED
    BY <1>2, StepReads DEF PutStep

(* The encoding of a vector, and what follows it.                          *)
LEMMA VectorIsWritten ==
  ASSUME NEW W, Nat \subseteq W, NEW n \in Nat, NEW words \in [1..n -> Seq(W)], NEW tail \in Seq(W)
  PROVE  <<n>> \o FlattenSeq(words) \in Seq(W) /\ Vector(n, words, tail) \in Seq(W)
  <1>1. FlattenSeq(words) \in Seq(W)
    <2>1. n \in 0..n
      OBVIOUS
    <2>2. QED
      BY <2>1, FlattenUnfold
  <1>2. <<n>> \in Seq(W)
    OBVIOUS
  <1> DEFINE flat == FlattenSeq(words)
  <1> HIDE DEF flat
  <1>3. <<n>> \o flat \in Seq(W)
    BY <1>1, <1>2 DEF flat
  <1> DEFINE all == <<n>> \o flat
  <1>4. all \o tail \in Seq(W)
    <2> HIDE DEF all
    <2>1. all \in Seq(W)
      BY <1>3 DEF all
    <2>2. QED
      BY <2>1
  <1>5. QED
    BY <1>3, <1>4 DEF flat, Vector

LEMMA TwoRead ==
  ASSUME NEW a, NEW b
  PROVE  Append(Append(<<>>, a), b)[1] = a /\ Append(Append(<<>>, a), b)[2] = b
  <1> DEFINE both == {a, b}
             read == Append(Append(<<>>, a), b)
  <1>1. a \in both /\ b \in both
    OBVIOUS
  <1> HIDE DEF both
  <1>2. read = <<a, b>> /\ <<a, b>>[1] = a /\ <<a, b>>[2] = b
    BY <1>1, Pair
  <1> HIDE DEF read
  <1>3. read[1] = a /\ read[2] = b
    BY <1>2
  <1>4. QED
    BY <1>3, Zenon DEF read

WitnessValues(W) == [terminal : W, steps : Seq([depth : W, sibling : W])]
LEMMA WitnessReads ==
  ASSUME NEW W, Nat \subseteq W, NEW witness \in WitnessValues(W)
  PROVE  ReadsAs("witness", PutWitness(witness), witness, W) /\ PutWitness(witness) \in Seq(W)
  <1> DEFINE t == witness.terminal
             steps == witness.steps
             n == Len(steps)
             words == [i \in DOMAIN steps |-> PutStep(steps[i])]
             U == [depth : W, sibling : W]
             put == <<n>> \o FlattenSeq(words)
  <1>1. t \in W /\ steps \in Seq(U) /\ witness = [terminal |-> t, steps |-> steps]
    <2> DEFINE S == Seq(U)
    <2>1. witness \in [terminal : W, steps : S]
      BY DEF WitnessValues
    <2> HIDE DEF S
    <2>2. witness.terminal \in W /\ witness.steps \in S
          /\ witness = [terminal |-> witness.terminal, steps |-> witness.steps]
      BY <2>1
    <2>3. QED
      BY <2>2 DEF S
  <1>2. n \in Nat /\ DOMAIN steps = 1..n /\ steps \in [1..n -> U]
    <2> HIDE DEF U, steps
    <2>1. QED
      BY <1>1
  <1> HIDE DEF n, t, steps
  <1>3. \A i \in 1..n : ReadsAs("step", words[i], steps[i], W) /\ words[i] \in Seq(W)
    <2>1. TAKE i \in 1..n
    <2>2. steps[i] \in U /\ words[i] = PutStep(steps[i])
      BY <1>2
    <2>3. PutStep(steps[i]) \in Seq(W)
      <3>1. steps[i].depth \in W /\ steps[i].sibling \in W
        BY <2>2
      <3>2. QED
        BY <3>1, Pair DEF PutStep
    <2>4. QED
      BY <2>2, <2>3, StepReadsBack
  <1>4. words \in [1..n -> Seq(W)]
    <2>1. \A i \in 1..n : words[i] \in Seq(W)
      BY <1>3
    <2>2. words = [i \in 1..n |-> words[i]]
      BY <1>2
    <2> HIDE DEF words
    <2>3. QED
      BY <2>1, <2>2
  <1>5. PutWitness(witness) = <<t>> \o put
    BY DEF PutWitness, PutVec, t, steps, n
  <1> HIDE DEF words, U
  <1>6. put \in Seq(W)
    <2>1. <<>> \in Seq(W)
      OBVIOUS
    <2>2. QED
      BY <1>2, <1>4, <2>1, VectorIsWritten
  <1> HIDE DEF put
  <1>7. <<t>> \in Seq(W)
    BY <1>1
  <1>8. PutWitness(witness) \in Seq(W)
    BY <1>5, <1>6, <1>7
  <1>9. ASSUME NEW r \in Seq(W), NEW v
        PROVE  Witness(CursorAt(PutWitness(witness) \o r, v)) = CursorAt(r, Append(v, witness))
    <2> DEFINE c == CursorAt(PutWitness(witness) \o r, v)
               rest == Vector(n, words, r)
               after == Take(CursorAt(PutWitness(witness) \o r, <<>>))
               end == Vec(after, Step)
               read == Append(Append(<<>>, t), steps)
    <2>1. PutWitness(witness) \o r = <<t>> \o rest
      <3>1. Associates(<<t>>, put, r)
        BY <1>6, <1>7, Regroups
      <3>2. QED
        BY <1>5, <3>1 DEF Associates, Vector, put
    <2>2. rest \in Seq(W)
      BY <1>2, <1>4, VectorIsWritten
    <2>3. after = CursorAt(rest, Append(<<>>, t))
      <3> HIDE DEF rest
      <3>1. QED
        BY <1>1, <2>1, <2>2, TakeReads
    <2>4. Written("step", n, words, steps, r, W, U)
      BY <1>2, <1>3, <1>4 DEF Written
    <2>5. end = CursorAt(r, read)
      <3>1. Vec(after, Step) = CursorAt(r, Append(Append(<<>>, t), steps))
        <4> DEFINE d == after
                   got == Vec(d, Step)
        <4>1. d = CursorAt(Vector(n, words, r), Append(<<>>, t))
          BY <2>3
        <4> HIDE DEF d
        <4>2. got = CursorAt(r, Append(Append(<<>>, t), steps))
          BY <2>4, <4>1, SteppedVector
        <4> HIDE DEF got
        <4>3. QED
          BY <4>2, Zenon DEF got, d
      <3> DEFINE x == Vec(after, Step)
      <3> HIDE DEF x
      <3>2. x = CursorAt(r, Append(Append(<<>>, t), steps))
        BY <3>1, Zenon DEF x
      <3>3. QED
        BY <3>2, Zenon DEF x
    <2>6. read[1] = t /\ read[2] = steps
      BY TwoRead
    <2> HIDE DEF read
    <2>7. Holding(c, <<>>) = CursorAt(PutWitness(witness) \o r, <<>>) /\ c.read = v
      BY Moves
    <2> DEFINE got == Witness(c)
    <2>8. got = IF end.ok
                THEN Holding(end, Append(c.read, [terminal |-> (end.read)[1], steps |-> (end.read)[2]]))
                ELSE Failed(c)
      <3> HIDE DEF c
      <3>1. Holding(c, <<>>) = CursorAt(PutWitness(witness) \o r, <<>>)
        BY <2>7
      <3> DEFINE begun == Holding(c, <<>>)
                 over == Vec(Take(begun), Step)
      <3>2. got = IF over.ok
                  THEN Holding(over, Append(c.read, [terminal |-> (over.read)[1], steps |-> (over.read)[2]]))
                  ELSE Failed(c)
        BY Zenon DEF Witness, AsOne, Holding
      <3>3. over = end
        BY <3>1, Zenon
      <3> HIDE DEF over, end, got
      <3>4. QED
        BY <3>2, <3>3
    <2> HIDE DEF end, got
    <2>9. end.ok /\ end.read = read
      BY <2>5, Stands
    <2>10. got = Holding(end, Append(v, witness))
      BY <1>1, <2>6, <2>7, <2>8, <2>9
    <2>11. got = CursorAt(r, Append(v, witness))
      BY <2>5, <2>10, Moves
    <2>12. QED
      BY <2>11, Zenon DEF got
  <1>10. \A c : Reading("witness", c) = Witness(c)
    <2>1. SUFFICES ASSUME NEW c PROVE Reading("witness", c) = Witness(c)
      OBVIOUS
    <2>2. "witness" # "take" /\ "witness" # "step"
      OBVIOUS
    <2>3. QED
      BY <2>2, Zenon DEF Reading
  <1>11. QED
    BY <1>8, <1>9, <1>10 DEF ReadsAs

(* The vectors of a guest input.                                           *)
FieldWords(items) == [i \in DOMAIN items |-> PutField(items[i])]
WitnessWords(items) == [i \in DOMAIN items |-> PutWitness(items[i])]
PutItems(items, words) == <<Len(items)>> \o FlattenSeq(words)
Follows(put, items, words, tail) == put \o tail = Vector(Len(items), words, tail)

LEMMA FieldsWritten ==
  ASSUME NEW W, Nat \subseteq W, NEW items \in Seq(W), NEW tail \in Seq(W)
  PROVE  /\ Written("take", Len(items), FieldWords(items), items, tail, W, W)
         /\ PutItems(items, FieldWords(items)) \in Seq(W)
         /\ Vector(Len(items), FieldWords(items), tail) \in Seq(W)
         /\ Follows(PutItems(items, FieldWords(items)), items, FieldWords(items), tail)
  <1> DEFINE n == Len(items)
             words == FieldWords(items)
  <1>1. n \in Nat /\ DOMAIN items = 1..n /\ items \in [1..n -> W]
    OBVIOUS
  <1> HIDE DEF n
  <1>2. \A i \in 1..n : ReadsAs("take", words[i], items[i], W) /\ words[i] \in Seq(W)
    <2>1. TAKE i \in 1..n
    <2>2. items[i] \in W /\ words[i] = PutField(items[i])
      BY <1>1 DEF FieldWords
    <2>3. PutField(items[i]) \in Seq(W)
      BY <2>2 DEF PutField
    <2>4. QED
      BY <2>2, <2>3, FieldReads
  <1>3. words \in [1..n -> Seq(W)]
    <2>1. words = [i \in 1..n |-> words[i]]
      BY <1>1 DEF FieldWords
    <2> HIDE DEF words
    <2>2. QED
      BY <1>2, <2>1
  <1> HIDE DEF words
  <1>4. Written("take", n, words, items, tail, W, W)
    BY <1>1, <1>2, <1>3 DEF Written
  <1>5. PutItems(items, words) \in Seq(W) /\ Vector(n, words, tail) \in Seq(W)
    BY <1>1, <1>3, VectorIsWritten DEF PutItems, n
  <1>6. Follows(PutItems(items, words), items, words, tail)
    BY DEF Follows, PutItems, Vector
  <1>7. QED
    BY <1>4, <1>5, <1>6 DEF n, words

LEMMA WitnessesWritten ==
  ASSUME NEW W, Nat \subseteq W, NEW items \in Seq(WitnessValues(W)), NEW tail \in Seq(W)
  PROVE  /\ Written("witness", Len(items), WitnessWords(items), items, tail, W, WitnessValues(W))
         /\ PutItems(items, WitnessWords(items)) \in Seq(W)
         /\ Vector(Len(items), WitnessWords(items), tail) \in Seq(W)
         /\ Follows(PutItems(items, WitnessWords(items)), items, WitnessWords(items), tail)
  <1> DEFINE n == Len(items)
             words == WitnessWords(items)
  <1>1. n \in Nat /\ DOMAIN items = 1..n /\ items \in [1..n -> WitnessValues(W)]
    OBVIOUS
  <1> HIDE DEF n
  <1>2. \A i \in 1..n : ReadsAs("witness", words[i], items[i], W) /\ words[i] \in Seq(W)
    <2>1. TAKE i \in 1..n
    <2>2. items[i] \in WitnessValues(W) /\ words[i] = PutWitness(items[i])
      BY <1>1 DEF WitnessWords
    <2>3. QED
      BY <2>2, WitnessReads
  <1>3. words \in [1..n -> Seq(W)]
    <2>1. words = [i \in 1..n |-> words[i]]
      BY <1>1 DEF WitnessWords
    <2> HIDE DEF words
    <2>2. QED
      BY <1>2, <2>1
  <1> HIDE DEF words
  <1>4. Written("witness", n, words, items, tail, W, WitnessValues(W))
    BY <1>1, <1>2, <1>3 DEF Written
  <1>5. PutItems(items, words) \in Seq(W) /\ Vector(n, words, tail) \in Seq(W)
    BY <1>1, <1>3, VectorIsWritten DEF PutItems, n
  <1>6. Follows(PutItems(items, words), items, words, tail)
    BY DEF Follows, PutItems, Vector
  <1>7. QED
    BY <1>4, <1>5, <1>6 DEF n, words

(* Words written one by one are the sequence of them.                      *)
Ones(s) == [i \in DOMAIN s |-> <<s[i]>>]
LEMMA OnesFlatten ==
  ASSUME NEW W, NEW s \in Seq(W)
  PROVE  FlattenSeq(Ones(s)) = s
  <1> DEFINE n == Len(s)
             words == Ones(s)
  <1>1. n \in Nat /\ DOMAIN s = 1..n /\ s \in [1..n -> W]
    OBVIOUS
  <1> HIDE DEF n
  <1>2. words \in [1..n -> Seq(W)] /\ \A i \in 1..n : words[i] = <<s[i]>>
    BY <1>1 DEF Ones
  <1> HIDE DEF words
  <1>3. PICK flat \in [0..n -> Seq(W)] : Flattens(flat, words, n) /\ FlattenSeq(words) = flat[n]
    BY <1>1, <1>2, FlattenUnfold
  <1> DEFINE Bad == {i \in 0..n : flat[i] # Firsts(s, i)}
  <1>4. Bad = {}
    <2>1. SUFFICES ASSUME Bad # {} PROVE FALSE
      OBVIOUS
    <2>2. PICK i \in Bad : \A j \in Bad : i <= j
      <3>1. Bad \in SUBSET Nat
        OBVIOUS
      <3> HIDE DEF Bad
      <3>2. QED
        BY <2>1, <3>1, Least
    <2>3. i # 0
      <3>1. flat[0] = Firsts(s, 0)
        BY <1>1, <1>3, FirstsGrow DEF Flattens
      <3>2. QED
        BY <2>2, <3>1
    <2>4. i \in 1..n /\ i - 1 \in 0..n /\ ~ (i <= i - 1) /\ i \in 0..n
      BY <1>1, <2>2, <2>3
    <2>5. flat[i - 1] = Firsts(s, i - 1)
      BY <2>2, <2>4
    <2>6. flat[i] = flat[i - 1] \o words[i] /\ words[i] = <<s[i]>>
      BY <1>2, <1>3, <2>4 DEF Flattens
    <2>7. flat[i - 1] \in Seq(W) /\ s[i] \in W
      BY <1>1, <2>4
    <2>8. flat[i - 1] \o <<s[i]>> = Append(flat[i - 1], s[i])
      BY <2>7, AppendProperties, AppendIsConcat
    <2>9. Firsts(s, i) = Append(Firsts(s, i - 1), s[i])
      BY <1>1, <2>4, FirstsGrow
    <2>10. flat[i] = Firsts(s, i)
      BY ONLY <2>5, <2>6, <2>8, <2>9
    <2>11. QED
      BY <2>2, <2>4, <2>10
  <1>5. n \in 0..n
    BY <1>1
  <1>6. flat[n] = Firsts(s, n)
    BY <1>4, <1>5
  <1>7. Firsts(s, n) = s
    BY <1>1, FirstsGrow
  <1>8. QED
    BY <1>3, <1>6, <1>7 DEF words

(***************************************************************************)
(* A guest input, written and read back                                    *)
(***************************************************************************)
FieldNames == {"trustBase", "spentRootOld", "spentRootNew", "batchSize", "totalAmount"}
GuestInputs(W) ==
  [trustBase : W, spentRootOld : W, spentRootNew : W, batchSize : W, totalAmount : W,
   leaves : Seq(W), lockRefs : Seq(W), witnesses : Seq(WitnessValues(W)), burns : Seq(W)]

(* The words before the vectors.                                           *)
FixedWords(x) == <<WireVersion, x.trustBase, x.spentRootOld, x.spentRootNew, x.batchSize, x.totalAmount>>
LEMMA FieldsOf ==
  /\ Len(Fields) = 5 /\ DOMAIN Fields = 1..5 /\ ToSet(Fields) = FieldNames
  /\ Fields[1] = "trustBase" /\ Fields[2] = "spentRootOld" /\ Fields[3] = "spentRootNew"
  /\ Fields[4] = "batchSize" /\ Fields[5] = "totalAmount"
  <1>1. Len(Fields) = 5 /\ DOMAIN Fields = 1..5
    BY DEF Fields
  <1>2. /\ Fields[1] = "trustBase" /\ Fields[2] = "spentRootOld" /\ Fields[3] = "spentRootNew"
        /\ Fields[4] = "batchSize" /\ Fields[5] = "totalAmount"
    BY DEF Fields
  <1>3. 1..5 = {1, 2, 3, 4, 5}
    OBVIOUS
  <1>4. ToSet(Fields) = FieldNames
    BY <1>1, <1>2, <1>3 DEF ToSet, FieldNames
  <1>5. QED
    BY <1>1, <1>2, <1>4

LEMMA AsSequence ==
  ASSUME NEW n \in Nat, NEW W, NEW f \in [1..n -> W]
  PROVE  f \in Seq(W) /\ Len(f) = n
  OBVIOUS

LEMMA FixedIsWritten ==
  ASSUME NEW W, Nat \subseteq W, NEW x \in GuestInputs(W)
  PROVE  /\ FixedWords(x) \in Seq(W) /\ Len(FixedWords(x)) = 6
         /\ <<WireVersion>> \o [i \in DOMAIN Fields |-> x[Fields[i]]] = FixedWords(x)
  <1> DEFINE fields == [i \in DOMAIN Fields |-> x[Fields[i]]]
             all == <<WireVersion>> \o fields
             fixed == FixedWords(x)
  <1>1. /\ x.trustBase \in W /\ x.spentRootOld \in W /\ x.spentRootNew \in W /\ x.batchSize \in W
        /\ x.totalAmount \in W /\ WireVersion \in W
    <2> DEFINE S == Seq(W)
               L == Seq(WitnessValues(W))
    <2> HIDE DEF S, L
    <2>1. x \in [trustBase : W, spentRootOld : W, spentRootNew : W, batchSize : W, totalAmount : W,
                 leaves : S, lockRefs : S, witnesses : L, burns : S]
      BY DEF GuestInputs, S, L
    <2>2. QED
      BY <2>1 DEF WireVersion
  <1>2. fixed \in Seq(W) /\ Len(fixed) = 6
        /\ fixed[1] = WireVersion /\ fixed[2] = x.trustBase /\ fixed[3] = x.spentRootOld
        /\ fixed[4] = x.spentRootNew /\ fixed[5] = x.batchSize /\ fixed[6] = x.totalAmount
    BY <1>1 DEF FixedWords
  <1>3. fields \in Seq(W) /\ Len(fields) = 5
        /\ fields[1] = x.trustBase /\ fields[2] = x.spentRootOld
        /\ fields[3] = x.spentRootNew /\ fields[4] = x.batchSize /\ fields[5] = x.totalAmount
    <2>1. DOMAIN fields = 1..5 /\ \A i \in 1..5 : fields[i] = x[Fields[i]]
      BY FieldsOf
    <2>2. fields[1] = x.trustBase /\ fields[2] = x.spentRootOld
        /\ fields[3] = x.spentRootNew /\ fields[4] = x.batchSize /\ fields[5] = x.totalAmount
      BY <2>1, FieldsOf
    <2>3. fields = [i \in 1..5 |-> fields[i]]
      BY FieldsOf
    <2> HIDE DEF fields
    <2>4. \A i \in 1..5 : fields[i] \in W
      <3>1. \A i \in 1..5 : i = 1 \/ i = 2 \/ i = 3 \/ i = 4 \/ i = 5
        OBVIOUS
      <3>2. QED
        BY <1>1, <2>2, <3>1
    <2>5. fields \in [1..5 -> W]
      BY <2>3, <2>4
    <2>6. fields \in Seq(W) /\ Len(fields) = 5
      <3>1. 5 \in Nat
        OBVIOUS
      <3>2. QED
        BY <2>5, <3>1, AsSequence
    <2>7. QED
      BY <2>2, <2>6
  <1> HIDE DEF fields, fixed
  <1>4. <<WireVersion>> \in Seq(W) /\ Len(<<WireVersion>>) = 1 /\ <<WireVersion>>[1] = WireVersion
    BY <1>1
  <1> DEFINE one == <<WireVersion>>
  <1> HIDE DEF one
  <1>5. one \o fields \in Seq(W) /\ Len(one \o fields) = 6
        /\ \A i \in 1..6 : (one \o fields)[i] = IF i = 1 THEN WireVersion ELSE fields[i - 1]
    <2>1. one \in Seq(W) /\ Len(one) = 1 /\ one[1] = WireVersion
      BY <1>4 DEF one
    <2>2. 1 \in 1..1 /\ 1 + 5 = 6
      OBVIOUS
    <2>3. one \o fields \in Seq(W) /\ Len(one \o fields) = Len(one) + Len(fields)
          /\ \A i \in 1..Len(one) + Len(fields) :
               (one \o fields)[i] = IF i <= Len(one) THEN one[i] ELSE fields[i - Len(one)]
      BY ONLY <1>3, <2>1, ConcatProperties
    <2> DEFINE c == one \o fields
    <2> HIDE DEF c
    <2>4. c \in Seq(W) /\ Len(c) = 6 /\ \A i \in 1..6 : c[i] = IF i <= 1 THEN one[i] ELSE fields[i - 1]
      BY <1>3, <2>1, <2>2, <2>3 DEF c
    <2>5. \A i \in 1..6 : c[i] = IF i = 1 THEN WireVersion ELSE fields[i - 1]
      BY <2>1, <2>4
    <2>6. QED
      BY <2>4, <2>5 DEF c
  <1> DEFINE both == one \o fields
  <1>6. both = fixed
    <2>1. both \in Seq(W) /\ Len(both) = 6 /\ both[1] = WireVersion
          /\ both[2] = fields[1] /\ both[3] = fields[2] /\ both[4] = fields[3]
          /\ both[5] = fields[4] /\ both[6] = fields[5]
      BY <1>5
    <2> HIDE DEF both
    <2>2. \A i \in 1..6 : i = 1 \/ i = 2 \/ i = 3 \/ i = 4 \/ i = 5 \/ i = 6
      OBVIOUS
    <2>3. \A i \in 1..6 : both[i] = fixed[i]
      BY <1>2, <1>3, <2>1, <2>2
    <2>4. QED
      BY <1>2, <2>1, <2>3, SeqEqual
  <1>7. QED
    BY <1>2, <1>6 DEF one, fields, fixed

(* What the decoder has read at the end of the head, and of the vectors.   *)
HeadOf(wire) == FoldLeft(LAMBDA c, i : Take(c), Cursor(wire), <<WireVersion>> \o Fields)
EndOf(wire) == Vec(Vec(Vec(Vec(HeadOf(wire), Leaf), Leaf), Witness), Burn)
FieldAt(read, name) == read[1 + CHOOSE i \in DOMAIN Fields : Fields[i] = name]
VectorAt(read, i) == read[1 + Len(Fields) + i]
DecodedFrom(end) ==
  IF end.ok /\ end.rest = <<>> /\ end.read[1] = WireVersion
  THEN [name \in ToSet(Fields) \cup {"leaves", "lockRefs", "witnesses", "burns"} |->
          CASE name = "leaves" -> VectorAt(end.read, 1) [] name = "lockRefs" -> VectorAt(end.read, 2)
            [] name = "witnesses" -> VectorAt(end.read, 3) [] name = "burns" -> VectorAt(end.read, 4)
            [] OTHER -> FieldAt(end.read, name)]
  ELSE Malformed
LEMMA DecodeUnfolds ==
  ASSUME NEW wire
  PROVE  DecodeGuestInput(wire) = DecodedFrom(EndOf(wire))
  BY ZenonT(60) DEF DecodeGuestInput, DecodedFrom, EndOf, HeadOf, FieldAt, VectorAt

LEMMA SequenceAs ==
  ASSUME NEW W, NEW s \in Seq(W), NEW n, Len(s) = n
  PROVE  n \in Nat /\ s \in [1..n -> W] /\ DOMAIN s = 1..n
  OBVIOUS
LEMMA AllRead ==
  ASSUME NEW kind, NEW n, NEW words, NEW items, NEW tail, NEW W, NEW U,
         Written(kind, n, words, items, tail, W, U), NEW c,
         Finds(c, kind, CursorAt(Body(words, tail), <<>>), n)
  PROVE  c = CursorAt(tail, items)
  <1>1. /\ n \in Nat /\ words \in [1..n -> Seq(W)] /\ items \in [1..n -> U] /\ tail \in Seq(W)
        /\ \A i \in 1..n : ReadsAs(kind, words[i], items[i], W)
    BY DEF Written
  <1>2. QED
    BY <1>1, ReadInOrder DEF Body
LEMMA HeadReads ==
  ASSUME NEW W, Nat \subseteq W, NEW fixed \in Seq(W), Len(fixed) = 6, NEW tail \in Seq(W)
  PROVE  HeadOf(fixed \o tail) = CursorAt(tail, fixed)
  <1> DEFINE wire == fixed \o tail
             start == Cursor(wire)
             order == <<WireVersion>> \o Fields
             end == FoldLeft(LAMBDA c, i : Take(c), start, order)
             words == Ones(fixed)
  <1>1. DOMAIN order = 1..6
    <2> DEFINE V == {WireVersion} \cup FieldNames
    <2>1. Fields \in Seq(V) /\ <<WireVersion>> \in Seq(V) /\ Len(<<WireVersion>>) = 1
      BY DEF Fields, FieldNames
    <2> DEFINE one == <<WireVersion>>
               fields == Fields
    <2>2. Len(fields) = 5
      BY FieldsOf
    <2> HIDE DEF V, one, fields
    <2>3. one \o fields \in Seq(V) /\ Len(one \o fields) = Len(one) + Len(fields)
      BY <2>1, ConcatProperties DEF one, fields
    <2> DEFINE all == one \o fields
    <2> HIDE DEF all
    <2>4. all \in Seq(V) /\ Len(all) = 6
      BY <2>1, <2>2, <2>3 DEF all, one
    <2>5. DOMAIN all = 1..6
      BY <2>4
    <2>6. QED
      BY <2>5 DEF all, one, fields
  <1> HIDE DEF order
  <1>2. Finds(end, "take", start, 6)
    <2>1. 6 \in Nat
      OBVIOUS
    <2> HIDE DEF start
    <2>2. QED
      BY <1>1, <2>1, TakesFind
  <1>3. 6 \in Nat /\ fixed \in [1..6 -> W] /\ DOMAIN fixed = 1..6
    <2> HIDE DEF end, start, words
    <2>1. QED
      BY SequenceAs
  <1>4. words \in [1..6 -> Seq(W)] /\ \A i \in 1..6 : ReadsAs("take", words[i], fixed[i], W)
    <2>1. \A i \in 1..6 : words[i] = PutField(fixed[i]) /\ words[i] \in Seq(W)
      BY <1>3 DEF Ones, PutField
    <2>2. \A i \in 1..6 : ReadsAs("take", words[i], fixed[i], W)
      BY <1>3, <2>1, FieldReads
    <2>3. words = [i \in 1..6 |-> words[i]]
      BY <1>3 DEF Ones
    <2> HIDE DEF words
    <2>4. QED
      BY <2>1, <2>2, <2>3
  <1>5. FlattenSeq(words) = fixed
    BY OnesFlatten
  <1>6. start = CursorAt(wire, <<>>)
    BY DEF Cursor, CursorAt, Going
  <1> HIDE DEF end, words, start
  <1>7. Finds(end, "take", CursorAt(Body(words, tail), <<>>), 6)
    BY <1>2, <1>5, <1>6 DEF Body
  <1>8. end = CursorAt(tail, fixed)
    <2>1. Written("take", 6, words, fixed, tail, W, W)
      BY <1>3, <1>4 DEF Written
    <2>2. QED
      BY <1>7, <2>1, AllRead
  <1>9. QED
    BY <1>8, Zenon DEF HeadOf, end, start, order

(* The whole payload.                                                      *)
Payload(x, last) ==
  (((<<WireVersion>> \o [i \in DOMAIN Fields |-> x[Fields[i]]])
    \o PutItems(x.leaves, FieldWords(x.leaves))) \o PutItems(x.lockRefs, FieldWords(x.lockRefs)))
    \o PutItems(x.witnesses, WitnessWords(x.witnesses)) \o last
LEMMA EncodeUnfolds ==
  ASSUME NEW x
  PROVE  EncodeGuestInput(x) = Payload(x, PutItems(x.burns, FieldWords(x.burns)))
  BY ZenonT(60) DEF EncodeGuestInput, Payload, PutItems, FieldWords, WitnessWords, PutVec, PutBurn

AllAssociate(a, b, c, d, e) == (((a \o b) \o c) \o d) \o e = a \o (b \o (c \o (d \o e)))
LEMMA Reassociates ==
  ASSUME NEW W, NEW a \in Seq(W), NEW b \in Seq(W), NEW c \in Seq(W), NEW d \in Seq(W), NEW e \in Seq(W)
  PROVE  AllAssociate(a, b, c, d, e)
  <1>1. /\ a \o b \in Seq(W) /\ c \o (d \o e) \in Seq(W)
        /\ (a \o b) \o c \in Seq(W) /\ d \o e \in Seq(W)
    BY ConcatProperties
  <1> DEFINE ab == a \o b
             abc == ab \o c
             de == d \o e
             cde == c \o de
  <1>2. Associates(abc, d, e) /\ Associates(ab, c, de) /\ Associates(a, b, cde)
    BY <1>1, Regroups
  <1>3. (abc \o d) \o e = abc \o de /\ abc \o de = ab \o cde /\ ab \o cde = a \o (b \o cde)
    BY <1>2, Zenon DEF Associates
  <1>4. QED
    BY <1>3, Zenon DEF AllAssociate

(* The vectors, read one after the other behind the head.                  *)
LEMMA VectorsRead ==
  ASSUME NEW W, Nat \subseteq W, NEW x \in GuestInputs(W)
  PROVE  EndOf(EncodeGuestInput(x))
           = CursorAt(<<>>, Append(Append(Append(Append(FixedWords(x), x.leaves), x.lockRefs), x.witnesses), x.burns))
  <1> DEFINE l == x.leaves
             r == x.lockRefs
             w == x.witnesses
             b == x.burns
             fixed == FixedWords(x)
             putL == PutItems(l, FieldWords(l))
             putR == PutItems(r, FieldWords(r))
             putW == PutItems(w, WitnessWords(w))
             putB == PutItems(b, FieldWords(b))
             fromB == Vector(Len(b), FieldWords(b), <<>>)
             fromW == Vector(Len(w), WitnessWords(w), fromB)
             fromR == Vector(Len(r), FieldWords(r), fromW)
             fromL == Vector(Len(l), FieldWords(l), fromR)
             wire == EncodeGuestInput(x)
  <1>1. l \in Seq(W) /\ r \in Seq(W) /\ w \in Seq(WitnessValues(W)) /\ b \in Seq(W) /\ <<>> \in Seq(W)
    <2> DEFINE S == Seq(W)
               L == Seq(WitnessValues(W))
    <2>1. <<>> \in S
      OBVIOUS
    <2> HIDE DEF S, L
    <2>2. x \in [trustBase : W, spentRootOld : W, spentRootNew : W, batchSize : W, totalAmount : W,
                 leaves : S, lockRefs : S, witnesses : L, burns : S]
      BY DEF GuestInputs, S, L
    <2>3. x.leaves \in S /\ x.lockRefs \in S /\ x.witnesses \in L /\ x.burns \in S
      BY <2>2
    <2>4. QED
      BY <2>1, <2>3 DEF S, L
  <1>2. fixed \in Seq(W) /\ Len(fixed) = 6
    BY FixedIsWritten
  <1>3. wire = (((fixed \o putL) \o putR) \o putW) \o putB
    <2> DEFINE begun == <<WireVersion>> \o [i \in DOMAIN Fields |-> x[Fields[i]]]
    <2>1. wire = (((begun \o putL) \o putR) \o putW) \o putB
      BY EncodeUnfolds, Zenon DEF Payload
    <2>2. begun = fixed
      BY FixedIsWritten
    <2> HIDE DEF begun, fixed, putL, putR, putW, putB, wire
    <2>3. QED
      BY <2>1, <2>2
  <1> HIDE DEF l, r, w, b, fixed, wire
  <1>4. /\ Written("take", Len(b), FieldWords(b), b, <<>>, W, W) /\ putB \in Seq(W) /\ fromB \in Seq(W)
        /\ putB \o <<>> = fromB
    BY <1>1, FieldsWritten DEF Follows
  <1> HIDE DEF putB, fromB
  <1>5. /\ Written("witness", Len(w), WitnessWords(w), w, fromB, W, WitnessValues(W))
        /\ putW \in Seq(W) /\ fromW \in Seq(W) /\ putW \o fromB = fromW
    BY <1>1, <1>4, WitnessesWritten DEF Follows
  <1> HIDE DEF putW, fromW
  <1>6. /\ Written("take", Len(r), FieldWords(r), r, fromW, W, W) /\ putR \in Seq(W) /\ fromR \in Seq(W)
        /\ putR \o fromW = fromR
    BY <1>1, <1>5, FieldsWritten DEF Follows
  <1> HIDE DEF putR, fromR
  <1>7. /\ Written("take", Len(l), FieldWords(l), l, fromR, W, W) /\ putL \in Seq(W) /\ fromL \in Seq(W)
        /\ putL \o fromR = fromL
    BY <1>1, <1>6, FieldsWritten DEF Follows
  <1> HIDE DEF putL, fromL
  <1>8. wire = fixed \o fromL
    <2>1. wire = fixed \o (putL \o (putR \o (putW \o putB)))
      <3>1. AllAssociate(fixed, putL, putR, putW, putB)
        BY <1>2, <1>4, <1>5, <1>6, <1>7, Reassociates
      <3>2. QED
        BY <1>3, <3>1, Zenon DEF AllAssociate
    <2>2. putB \o <<>> = putB
      BY <1>4, ConcatEmptySeq
    <2>3. putB = fromB
      BY ONLY <1>4, <2>2
    <2>4. QED
      BY ONLY <1>5, <1>6, <1>7, <2>1, <2>3
  <1> DEFINE afterL == Append(fixed, l)
             afterR == Append(afterL, r)
             afterW == Append(afterR, w)
             afterB == Append(afterW, b)
             c0 == HeadOf(wire)
             c1 == Vec(c0, Leaf)
             c2 == Vec(c1, Leaf)
             c3 == Vec(c2, Witness)
             c4 == Vec(c3, Burn)
  <1>9. c0 = CursorAt(fromL, fixed)
    BY <1>2, <1>7, <1>8, HeadReads
  <1> HIDE DEF c0
  <1>10. c1 = CursorAt(fromR, afterL)
    <2> DEFINE got == Vec(c0, Take)
    <2>1. got = CursorAt(fromR, Append(fixed, l))
      BY <1>7, <1>9, TakenVector DEF fromL
    <2>2. c1 = got
      BY LeafVecUnfolds, Zenon
    <2> HIDE DEF got, c1
    <2>3. QED
      BY <2>1, <2>2
  <1> HIDE DEF c1, afterL
  <1>11. c2 = CursorAt(fromW, afterR)
    <2> DEFINE got == Vec(c1, Take)
    <2>1. got = CursorAt(fromW, Append(afterL, r))
      BY <1>6, <1>10, TakenVector DEF fromR
    <2>2. c2 = got
      BY LeafVecUnfolds, Zenon
    <2> HIDE DEF got, c2
    <2>3. QED
      BY <2>1, <2>2
  <1> HIDE DEF c2, afterR
  <1>12. c3 = CursorAt(fromB, afterW)
    BY <1>5, <1>11, WitnessedVector DEF fromW
  <1> HIDE DEF c3, afterW
  <1>13. c4 = CursorAt(<<>>, afterB)
    <2> DEFINE got == Vec(c3, Take)
    <2>1. got = CursorAt(<<>>, Append(afterW, b))
      BY <1>4, <1>12, TakenVector DEF fromB
    <2>2. c4 = got
      BY BurnVecUnfolds, Zenon
    <2> HIDE DEF got, c4
    <2>3. QED
      BY <2>1, <2>2
  <1> DEFINE end == EndOf(wire)
  <1>14. end = c4
    BY Zenon DEF EndOf, c0, c1, c2, c3
  <1> HIDE DEF c4, end
  <1>15. end = CursorAt(<<>>, afterB)
    BY <1>13, <1>14
  <1>16. QED
    BY <1>15, Zenon DEF end, afterW, afterR, afterL, wire, fixed, l, r, w, b

(* A guest input of any words and any vectors of them is read back from    *)
(* the wire as it was written.                                             *)
THEOREM ReadsBack ==
  ASSUME NEW W, Nat \subseteq W, NEW x \in GuestInputs(W)
  PROVE  DecodeGuestInput(EncodeGuestInput(x)) = x
  <1> DEFINE wire == EncodeGuestInput(x)
             end == EndOf(wire)
             S == Seq(W)
             L == Seq(WitnessValues(W))
             R == [trustBase : W, spentRootOld : W, spentRootNew : W, batchSize : W, totalAmount : W,
                   leaves : S, lockRefs : S, witnesses : L, burns : S]
             U == W \cup S \cup L
             fixed == FixedWords(x)
             a1 == Append(fixed, x.leaves)
             a2 == Append(a1, x.lockRefs)
             a3 == Append(a2, x.witnesses)
             read == Append(a3, x.burns)
  <1>1. end = CursorAt(<<>>, read)
    BY VectorsRead, Zenon
  <1>2. x \in R
    BY DEF GuestInputs
  <1>3. fixed \in Seq(W) /\ Len(fixed) = 6
        /\ fixed[1] = WireVersion /\ fixed[2] = x.trustBase /\ fixed[3] = x.spentRootOld
        /\ fixed[4] = x.spentRootNew /\ fixed[5] = x.batchSize /\ fixed[6] = x.totalAmount
    <2>1. fixed \in Seq(W) /\ Len(fixed) = 6
      BY FixedIsWritten
    <2>2. fixed[1] = WireVersion /\ fixed[2] = x.trustBase /\ fixed[3] = x.spentRootOld
          /\ fixed[4] = x.spentRootNew /\ fixed[5] = x.batchSize /\ fixed[6] = x.totalAmount
      BY DEF FixedWords
    <2>3. QED
      BY <2>1, <2>2
  <1> HIDE DEF fixed
  <1>4. fixed \in Seq(U)
    <2> DEFINE f == fixed
    <2> HIDE DEF f, S, L
    <2>1. \A n \in Nat : f \in [1..n -> W] => f \in [1..n -> U]
      OBVIOUS
    <2>2. 6 \in Nat /\ f \in [1..6 -> W]
      BY <1>3, SequenceAs DEF f
    <2>3. f \in Seq(U)
      BY <2>1, <2>2, AsSequence
    <2>4. QED
      BY <2>3 DEF f
  <1>5. x.leaves \in U /\ x.lockRefs \in U /\ x.witnesses \in U /\ x.burns \in U
    <2> HIDE DEF S, L
    <2>1. QED
      BY <1>2
  <1> HIDE DEF U
  <1>6. /\ a1 \in Seq(U) /\ Len(a1) = Len(fixed) + 1 /\ a1[Len(fixed) + 1] = x.leaves
        /\ \A i \in 1..Len(fixed) : a1[i] = fixed[i]
    BY <1>4, <1>5, Appends
  <1> HIDE DEF a1
  <1>7. /\ a2 \in Seq(U) /\ Len(a2) = Len(a1) + 1 /\ a2[Len(a1) + 1] = x.lockRefs
        /\ \A i \in 1..Len(a1) : a2[i] = a1[i]
    BY <1>5, <1>6, Appends
  <1> HIDE DEF a2
  <1>8. /\ a3 \in Seq(U) /\ Len(a3) = Len(a2) + 1 /\ a3[Len(a2) + 1] = x.witnesses
        /\ \A i \in 1..Len(a2) : a3[i] = a2[i]
    BY <1>5, <1>7, Appends
  <1> HIDE DEF a3
  <1>9. /\ read[Len(a3) + 1] = x.burns
        /\ \A i \in 1..Len(a3) : read[i] = a3[i]
    BY <1>5, <1>8, Appends
  <1> HIDE DEF read
  <1>10. /\ \A i \in 1..6 : read[i] = fixed[i]
         /\ read[7] = x.leaves /\ read[8] = x.lockRefs /\ read[9] = x.witnesses /\ read[10] = x.burns
    <2>1. Len(fixed) = 6 /\ Len(a1) = 7 /\ Len(a2) = 8 /\ Len(a3) = 9
      BY <1>3, <1>6, <1>7, <1>8
    <2>2. /\ \A i \in 1..9 : read[i] = a3[i]
          /\ \A i \in 1..8 : a3[i] = a2[i]
          /\ \A i \in 1..7 : a2[i] = a1[i]
          /\ \A i \in 1..6 : a1[i] = fixed[i]
      BY <1>6, <1>7, <1>8, <1>9, <2>1
    <2>3. read[10] = x.burns /\ a3[9] = x.witnesses /\ a2[8] = x.lockRefs /\ a1[7] = x.leaves
      BY <1>6, <1>7, <1>8, <1>9, <2>1
    <2>4. read[9] = x.witnesses /\ read[8] = x.lockRefs /\ read[7] = x.leaves
      BY <2>2, <2>3
    <2>5. \A i \in 1..6 : i \in 1..7 /\ i \in 1..8 /\ i \in 1..9
      OBVIOUS
    <2>6. QED
      BY ONLY <2>2, <2>3, <2>4, <2>5
  <1>11. /\ FieldAt(read, "trustBase") = x.trustBase /\ FieldAt(read, "spentRootOld") = x.spentRootOld
         /\ FieldAt(read, "spentRootNew") = x.spentRootNew /\ FieldAt(read, "batchSize") = x.batchSize
         /\ FieldAt(read, "totalAmount") = x.totalAmount
    <2>1. \A i \in 1..5 : FieldAt(read, Fields[i]) = read[1 + i]
      <3>1. TAKE i \in 1..5
      <3>2. \A j \in 1..5 : Fields[j] = Fields[i] => j = i
        <4>1. \A j \in 1..5 : j = 1 \/ j = 2 \/ j = 3 \/ j = 4 \/ j = 5
          OBVIOUS
        <4>2. QED
          BY <4>1, FieldsOf
      <3>3. DOMAIN Fields = 1..5
        BY FieldsOf
      <3>4. (CHOOSE j \in DOMAIN Fields : Fields[j] = Fields[i]) = i
        BY <3>2, <3>3
      <3>5. QED
        BY <3>4 DEF FieldAt
    <2>2. /\ FieldAt(read, "trustBase") = read[1 + 1] /\ FieldAt(read, "spentRootOld") = read[1 + 2]
          /\ FieldAt(read, "spentRootNew") = read[1 + 3] /\ FieldAt(read, "batchSize") = read[1 + 4]
          /\ FieldAt(read, "totalAmount") = read[1 + 5]
      <3>1. 1 \in 1..5 /\ 2 \in 1..5 /\ 3 \in 1..5 /\ 4 \in 1..5 /\ 5 \in 1..5
        OBVIOUS
      <3>2. QED
        BY <2>1, <3>1, FieldsOf
    <2>3. read[1 + 1] = fixed[2] /\ read[1 + 2] = fixed[3] /\ read[1 + 3] = fixed[4]
          /\ read[1 + 4] = fixed[5] /\ read[1 + 5] = fixed[6]
      BY <1>10
    <2>4. QED
      BY <1>3, <2>2, <2>3
  <1>12. /\ VectorAt(read, 1) = x.leaves /\ VectorAt(read, 2) = x.lockRefs
         /\ VectorAt(read, 3) = x.witnesses /\ VectorAt(read, 4) = x.burns
    BY <1>10, FieldsOf DEF VectorAt
  <1>13. end.ok /\ end.rest = <<>> /\ end.read = read
    <2> HIDE DEF end
    <2>1. QED
      BY <1>1, Stands
  <1>14. read[1] = WireVersion
    BY <1>3, <1>10
  <1> DEFINE got == [name \in ToSet(Fields) \cup {"leaves", "lockRefs", "witnesses", "burns"} |->
          CASE name = "leaves" -> VectorAt(read, 1) [] name = "lockRefs" -> VectorAt(read, 2)
            [] name = "witnesses" -> VectorAt(read, 3) [] name = "burns" -> VectorAt(read, 4)
            [] OTHER -> FieldAt(read, name)]
  <1>15. DecodedFrom(end) = got
    <2> HIDE DEF end
    <2>1. QED
      BY <1>13, <1>14 DEF DecodedFrom
  <1>16. got = x
    <2> DEFINE names == {"trustBase", "spentRootOld", "spentRootNew", "batchSize", "totalAmount",
                         "leaves", "lockRefs", "witnesses", "burns"}
    <2>1. ToSet(Fields) \cup {"leaves", "lockRefs", "witnesses", "burns"} = names
      BY FieldsOf DEF FieldNames
    <2>2. x = [name \in names |-> x[name]]
      <3> HIDE DEF S, L
      <3>1. QED
        BY <1>2
    <2>3. \A name \in names : got[name] = x[name]
      BY <1>11, <1>12, <2>1
    <2>4. got = [name \in names |-> got[name]]
      BY <2>1
    <2> HIDE DEF got
    <2>5. QED
      BY <2>2, <2>3, <2>4
  <1>17. DecodeGuestInput(wire) = DecodedFrom(end)
    BY DecodeUnfolds, Zenon
  <1> DEFINE decoded == DecodeGuestInput(wire)
  <1> HIDE DEF decoded, end, got
  <1>18. decoded = x
    BY <1>15, <1>16, <1>17 DEF decoded
  <1>19. QED
    BY <1>18, Zenon DEF decoded

(***************************************************************************)
(* Lock refs in order                                                      *)
(***************************************************************************)

(* A finite set of nonces, in increasing order.                            *)
Ascends(e, S, n) == e \in [1..n -> S] /\ \A i, j \in 1..n : i < j => e[i] < e[j]
LEMMA AscendingExists ==
  ASSUME NEW S \in SUBSET Nat, IsFiniteSet(S)
  PROVE  \E e : Ascends(e, S, Cardinality(S))
  <1> DEFINE Bad == {n \in Nat : \E T \in SUBSET Nat : /\ IsFiniteSet(T) /\ Cardinality(T) = n
                                                       /\ ~ \E e : Ascends(e, T, n)}
  <1>1. Bad = {}
    <2>1. SUFFICES ASSUME Bad # {} PROVE FALSE
      OBVIOUS
    <2>2. PICK n \in Bad : \A m \in Bad : n <= m
      <3>1. Bad \in SUBSET Nat
        OBVIOUS
      <3> HIDE DEF Bad
      <3>2. QED
        BY <2>1, <3>1, Least
    <2>3. PICK T \in SUBSET Nat : IsFiniteSet(T) /\ Cardinality(T) = n /\ ~ \E e : Ascends(e, T, n)
      BY <2>2
    <2>4. CASE n = 0
      <3> DEFINE e == [i \in 1..n |-> 0]
      <3>1. 1..n = {}
        BY <2>4
      <3>2. e \in [1..n -> T]
        BY <3>1
      <3>3. Ascends(e, T, n)
        BY <3>1, <3>2 DEF Ascends
      <3>4. QED
        BY <2>3, <3>3
    <2>5. CASE n # 0
      <3>1. T # {}
        BY <2>3, <2>5, FS_EmptySet
      <3>2. PICK least \in T : \A m \in T : least <= m
        BY <3>1, Least
      <3> DEFINE U == T \ {least}
      <3>3. IsFiniteSet(U) /\ Cardinality(U) = n - 1
        BY <2>3, <3>2, FS_RemoveElement
      <3>4. n \in Nat /\ n - 1 \in Nat /\ ~ (n <= n - 1) /\ U \in SUBSET Nat
        BY <2>2, <2>5
      <3>5. PICK f : Ascends(f, U, n - 1)
        <4>1. n - 1 \notin Bad
          BY <2>2, <3>4
        <4> HIDE DEF U
        <4>2. QED
          BY <3>3, <3>4, <4>1
      <3> DEFINE e == [i \in 1..n |-> IF i = 1 THEN least ELSE f[i - 1]]
      <3>6. \A i \in 1..n : i # 1 => i - 1 \in 1..n - 1 /\ f[i - 1] \in U
        <4>1. \A i \in 1..n : i # 1 => i - 1 \in 1..n - 1
          BY <3>4
        <4> HIDE DEF U
        <4>2. QED
          BY <3>5, <4>1 DEF Ascends
      <3>7. e \in [1..n -> T]
        BY <3>2, <3>6
      <3>8. \A i, j \in 1..n : i < j => e[i] < e[j]
        <4>1. SUFFICES ASSUME NEW i \in 1..n, NEW j \in 1..n, i < j PROVE e[i] < e[j]
          OBVIOUS
        <4>2. j # 1 /\ e[j] = f[j - 1] /\ f[j - 1] \in U
          BY <3>4, <3>6, <4>1
        <4>3. CASE i = 1
          <5>1. e[i] = least /\ f[j - 1] \in T /\ f[j - 1] # least
            BY <4>2, <4>3
          <5>2. least \in Nat /\ f[j - 1] \in Nat /\ least <= f[j - 1]
            BY <3>2, <5>1
          <5>3. QED
            BY <4>2, <5>1, <5>2
        <4>4. CASE i # 1
          <5>1. e[i] = f[i - 1] /\ i - 1 \in 1..n - 1 /\ j - 1 \in 1..n - 1 /\ i - 1 < j - 1
            BY <3>4, <3>6, <4>1, <4>2, <4>4
          <5>2. f[i - 1] < f[j - 1]
            BY <3>5, <5>1 DEF Ascends
          <5>3. QED
            BY <4>2, <5>1, <5>2
        <4>5. QED
          BY <4>3, <4>4
      <3> HIDE DEF e
      <3>9. Ascends(e, T, n)
        BY <3>7, <3>8 DEF Ascends
      <3>10. QED
        BY <2>3, <3>9
    <2>6. QED
      BY <2>4, <2>5
  <1>2. Cardinality(S) \in Nat
    BY FS_CardinalityType
  <1>3. QED
    BY <1>1, <1>2

(* Refs of different nonces have an order, and it is the one they get.     *)
Orders(p, refs) ==
  /\ IsInjective(p)
  /\ \A i, j \in DOMAIN refs : i < j => refs[p[i]].nonce <= refs[p[j]].nonce
DifferentNonces(refs, n, R) ==
  /\ n \in Nat /\ refs \in [1..n -> R] /\ \A i \in 1..n : refs[i].nonce \in Nat
  /\ \A i, j \in 1..n : i # j => refs[i].nonce # refs[j].nonce
LEMMA OrderExists ==
  ASSUME NEW refs, NEW n, NEW R, DifferentNonces(refs, n, R)
  PROVE  \E p \in [1..n -> 1..n] : Orders(p, refs)
  <1> DEFINE f == [i \in 1..n |-> refs[i].nonce]
             S == {f[i] : i \in 1..n}
  <1>1. /\ n \in Nat /\ DOMAIN refs = 1..n
        /\ \A i \in 1..n : f[i] = refs[i].nonce /\ f[i] \in Nat
        /\ \A i, j \in 1..n : i # j => f[i] # f[j]
    BY DEF DifferentNonces
  <1> HIDE DEF f
  <1>2. S \in SUBSET Nat
    BY <1>1
  <1>3. IsFiniteSet(S) /\ Cardinality(S) = n
    <2>1. IsFiniteSet(1..n) /\ Cardinality(1..n) = n
      BY <1>1, FS_Interval
    <2>2. f \in [1..n -> S] /\ IsInjective(f) /\ \A t \in S : \E i \in 1..n : f[i] = t
      <3>1. f = [i \in 1..n |-> f[i]] /\ DOMAIN f = 1..n
        BY DEF f
      <3>2. QED
        BY <1>1, <3>1 DEF IsInjective
    <2>3. f \in Surjection(1..n, S) /\ f \in Injection(1..n, S)
      BY <2>2 DEF Surjection, Injection
    <2> HIDE DEF S
    <2>4. QED
      BY <2>1, <2>3, FS_Surjection
  <1>4. PICK e : Ascends(e, S, n)
    <2> HIDE DEF S
    <2>1. QED
      BY <1>2, <1>3, AscendingExists
  <1> DEFINE p == [i \in 1..n |-> CHOOSE j \in 1..n : f[j] = e[i]]
  <1>5. \A i \in 1..n : p[i] \in 1..n /\ f[p[i]] = e[i]
    <2>1. TAKE i \in 1..n
    <2>2. \E j \in 1..n : f[j] = e[i]
      BY <1>4 DEF Ascends
    <2>3. QED
      BY <2>2
  <1>6. p \in [1..n -> 1..n]
    <2>1. p = [i \in 1..n |-> p[i]]
      OBVIOUS
    <2> HIDE DEF p
    <2>2. QED
      BY <1>5, <2>1
  <1> HIDE DEF p
  <1>7. \A i, j \in 1..n : i < j => refs[p[i]].nonce < refs[p[j]].nonce
    <2>1. \A i, j \in 1..n : i < j => e[i] < e[j]
      BY <1>4 DEF Ascends
    <2>2. \A i \in 1..n : refs[p[i]].nonce = e[i]
      BY <1>1, <1>5
    <2>3. QED
      BY <2>1, <2>2
  <1>8. \A i \in 1..n : refs[p[i]].nonce \in Nat
    BY <1>1, <1>5
  <1>9. \A i, j \in 1..n : p[i] = p[j] => i = j
    <2>1. SUFFICES ASSUME NEW i \in 1..n, NEW j \in 1..n, p[i] = p[j], i # j PROVE FALSE
      OBVIOUS
    <2>2. i < j \/ j < i
      BY <1>1, <2>1
    <2>3. QED
      BY <1>7, <1>8, <2>1, <2>2
  <1>10. Orders(p, refs)
    <2>1. DOMAIN p = 1..n
      BY <1>6
    <2>2. IsInjective(p)
      BY <1>9, <2>1 DEF IsInjective
    <2>3. \A i, j \in 1..n : i < j => refs[p[i]].nonce <= refs[p[j]].nonce
      BY <1>7, <1>8
    <2>4. QED
      BY <1>1, <2>2, <2>3 DEF Orders
  <1>11. QED
    BY <1>6, <1>10

LEMMA SortedInOrder ==
  ASSUME NEW refs, NEW n, NEW R, DifferentNonces(refs, n, R)
  PROVE  /\ SortedByNonce(refs) \in Seq(R) /\ Len(SortedByNonce(refs)) = n
         /\ ToSet(SortedByNonce(refs)) = ToSet(refs) /\ SortedUnique(SortedByNonce(refs))
  <1> DEFINE p == CHOOSE p \in [DOMAIN refs -> DOMAIN refs] :
                    /\ IsInjective(p)
                    /\ \A i, j \in DOMAIN refs : i < j => refs[p[i]].nonce <= refs[p[j]].nonce
             s == [i \in DOMAIN refs |-> refs[p[i]]]
             sorted == SortedByNonce(refs)
  <1>1. /\ n \in Nat /\ DOMAIN refs = 1..n /\ refs \in [1..n -> R]
        /\ \A i \in 1..n : refs[i].nonce \in Nat
        /\ \A i, j \in 1..n : i # j => refs[i].nonce # refs[j].nonce
    BY DEF DifferentNonces
  <1>2. p \in [1..n -> 1..n] /\ Orders(p, refs)
    <2>1. \E q \in [DOMAIN refs -> DOMAIN refs] :
            /\ IsInjective(q)
            /\ \A i, j \in DOMAIN refs : i < j => refs[q[i]].nonce <= refs[q[j]].nonce
      BY <1>1, OrderExists DEF Orders
    <2>2. /\ p \in [DOMAIN refs -> DOMAIN refs] /\ IsInjective(p)
          /\ \A i, j \in DOMAIN refs : i < j => refs[p[i]].nonce <= refs[p[j]].nonce
      BY <2>1
    <2> HIDE DEF p
    <2>3. QED
      BY <1>1, <2>2 DEF Orders
  <1>3. sorted = s
    BY DEF SortedByNonce
  <1> HIDE DEF p, sorted
  <1>4. \A i, j \in 1..n : p[i] = p[j] => i = j
    BY <1>2 DEF Orders, IsInjective
  <1>5. \A k \in 1..n : \E i \in 1..n : p[i] = k
    <2>1. IsFiniteSet(1..n)
      BY <1>1, FS_Interval
    <2>2. p \in Injection(1..n, 1..n)
      BY <1>2 DEF Orders, Injection
    <2>3. p \in Surjection(1..n, 1..n)
      BY <2>1, <2>2, FS_Injection
    <2>4. QED
      BY <2>3 DEF Surjection
  <1>6. s \in [1..n -> R] /\ DOMAIN s = 1..n /\ \A i \in 1..n : s[i] = refs[p[i]] /\ p[i] \in 1..n
    BY <1>1, <1>2
  <1> HIDE DEF s
  <1>7. s \in Seq(R) /\ Len(s) = n
    BY <1>1, <1>6
  <1>8. ToSet(s) = ToSet(refs)
    <2>1. ToSet(s) = {s[i] : i \in 1..n} /\ ToSet(refs) = {refs[i] : i \in 1..n}
      BY <1>1, <1>6 DEF ToSet
    <2>2. ASSUME NEW k \in 1..n PROVE refs[k] \in ToSet(s)
      <3>1. PICK i \in 1..n : p[i] = k
        BY <1>5
      <3>2. s[i] = refs[k]
        BY <1>6, <3>1
      <3>3. QED
        BY <2>1, <3>2
    <2>3. ASSUME NEW i \in 1..n PROVE s[i] \in ToSet(refs)
      BY <1>6, <2>1
    <2>4. QED
      BY <2>1, <2>2, <2>3
  <1>9. SortedUnique(s)
    <2>1. SUFFICES ASSUME NEW i \in 1..n - 1 PROVE s[i].nonce < s[i + 1].nonce
      BY <1>7 DEF SortedUnique
    <2>2. i \in 1..n /\ i + 1 \in 1..n /\ i < i + 1 /\ i # i + 1
      BY <1>1
    <2>3. p[i] \in 1..n /\ p[i + 1] \in 1..n /\ p[i] # p[i + 1]
      BY <1>4, <1>6, <2>2
    <2>4. refs[p[i]].nonce <= refs[p[i + 1]].nonce
      BY <1>1, <1>2, <2>2 DEF Orders
    <2>5. refs[p[i]].nonce # refs[p[i + 1]].nonce
      BY <1>1, <2>3
    <2>6. refs[p[i]].nonce \in Nat /\ refs[p[i + 1]].nonce \in Nat
      BY <1>1, <2>3
    <2>7. s[i] = refs[p[i]] /\ s[i + 1] = refs[p[i + 1]]
      BY <1>6, <2>2
    <2>8. QED
      BY <2>4, <2>5, <2>6, <2>7
  <1>10. QED
    BY <1>3, <1>7, <1>8, <1>9 DEF sorted

(***************************************************************************)
(* What the assembler keeps                                                *)
(***************************************************************************)
LeftOut(t, kept, spent, rejected) ==
  \/ t \in rejected
  \/ KeyOf[t] \in spent
  \/ kept # <<>> /\ TrustBaseOf[t] # TrustBaseOf[kept[1]]
  \/ \E u \in ToSet(kept) : NonceOf(u) = NonceOf(t)
Compatible(kept, spent, rejected) ==
  /\ \A i \in DOMAIN kept : /\ kept[i] \notin rejected /\ KeyOf[kept[i]] \notin spent
                            /\ TrustBaseOf[kept[i]] = TrustBaseOf[kept[1]]
  /\ \A i, j \in DOMAIN kept : i # j => NonceOf(kept[i]) # NonceOf(kept[j])
KeptOf(kept, seen, spent, rejected) ==
  /\ Compatible(kept, spent, rejected)
  /\ ToSet(kept) \subseteq seen
  /\ \A t \in seen \ ToSet(kept) : LeftOut(t, kept, spent, rejected)

LEMMA KeepsOne ==
  ASSUME NEW T, NEW kept \in Seq(T), NEW seen, NEW spent, NEW rejected,
         KeptOf(kept, seen, spent, rejected), NEW t \in T, Admit(t, kept, spent, rejected) = "kept"
  PROVE  KeptOf(Append(kept, t), seen \cup {t}, spent, rejected)
  <1> DEFINE n == Len(kept)
             more == Append(kept, t)
  <1>1. /\ n \in Nat /\ DOMAIN kept = 1..n /\ DOMAIN more = 1..n + 1 /\ more # <<>>
        /\ \A i \in 1..n : more[i] = kept[i]
        /\ more[n + 1] = t
    OBVIOUS
  <1>2. ToSet(more) = ToSet(kept) \cup {t}
    BY ToSetAppend
  <1>3. /\ kept # <<>> => TrustBaseOf[t] = TrustBaseOf[kept[1]]
        /\ t \notin rejected /\ KeyOf[t] \notin spent
        /\ \A u \in ToSet(kept) : NonceOf(u) # NonceOf(t)
    BY DEF Admit
  <1>4. kept # <<>> <=> n # 0
    OBVIOUS
  <1> HIDE DEF n, more
  <1>5. kept # <<>> => more[1] = kept[1]
    BY <1>1, <1>4
  <1>6. TrustBaseOf[t] = TrustBaseOf[more[1]]
    BY <1>1, <1>3, <1>4, <1>5
  <1>7. \A i \in 1..n + 1 : i \in 1..n \/ i = n + 1
    BY <1>1
  <1>8. \A i \in 1..n : kept[i] \in ToSet(kept)
    BY <1>1 DEF ToSet
  <1>9. Compatible(more, spent, rejected)
    <2>1. \A i \in 1..n : /\ kept[i] \notin rejected /\ KeyOf[kept[i]] \notin spent
                          /\ TrustBaseOf[kept[i]] = TrustBaseOf[more[1]]
      <3>1. \A i \in 1..n : kept # <<>>
        BY <1>1, <1>4
      <3>2. QED
        BY <1>1, <1>5, <3>1 DEF KeptOf, Compatible
    <2>2. \A i, j \in 1..n : i # j => NonceOf(kept[i]) # NonceOf(kept[j])
      BY <1>1 DEF KeptOf, Compatible
    <2>3. \A i \in 1..n + 1 : /\ more[i] \notin rejected /\ KeyOf[more[i]] \notin spent
                              /\ TrustBaseOf[more[i]] = TrustBaseOf[more[1]]
      BY <1>1, <1>3, <1>6, <1>7, <2>1
    <2>4. \A i, j \in 1..n + 1 : i # j => NonceOf(more[i]) # NonceOf(more[j])
      BY <1>1, <1>3, <1>7, <1>8, <2>2
    <2>5. QED
      BY <1>1, <2>3, <2>4 DEF Compatible
  <1>10. ASSUME NEW u \in (seen \cup {t}) \ ToSet(more)
         PROVE  LeftOut(u, more, spent, rejected)
    <2>1. LeftOut(u, kept, spent, rejected)
      BY <1>2 DEF KeptOf
    <2>2. QED
      BY <1>1, <1>2, <1>5, <2>1 DEF LeftOut
  <1>11. QED
    BY <1>2, <1>9, <1>10 DEF KeptOf, more

LEMMA LeavesOne ==
  ASSUME NEW kept, NEW seen, NEW spent, NEW rejected,
         KeptOf(kept, seen, spent, rejected), NEW t, Admit(t, kept, spent, rejected) # "kept"
  PROVE  KeptOf(kept, seen \cup {t}, spent, rejected)
  <1>1. LeftOut(t, kept, spent, rejected)
    BY DEF Admit, LeftOut
  <1>2. QED
    BY <1>1 DEF KeptOf

(* What is kept fits together, and every member left out has its reason.   *)
LEMMA KeptFitsTogether ==
  ASSUME NEW T, NEW members \in Seq(T), NEW spent, NEW rejected
  PROVE  KeptOf(Kept(members, spent, rejected), ToSet(members), spent, rejected)
  <1> DEFINE n == Len(members)
  <1>1. n \in Nat /\ members \in [1..n -> T]
    OBVIOUS
  <1> HIDE DEF n
  <1>2. PICK run \in [0..n -> Seq(T)] :
          KeptRun(run, members, spent, rejected, n) /\ Kept(members, spent, rejected) = run[n]
    <2>1. KeptUnfolds(members, spent, rejected, n, T)
      BY <1>1, KeptUnfold
    <2>2. QED
      BY <2>1 DEF KeptUnfolds
  <1> DEFINE Bad == {i \in 0..n : ~ KeptOf(run[i], FirstOf(members, i), spent, rejected)}
  <1>3. Bad = {}
    <2>1. SUFFICES ASSUME Bad # {} PROVE FALSE
      OBVIOUS
    <2>2. PICK i \in Bad : \A j \in Bad : i <= j
      <3>1. Bad \in SUBSET Nat
        OBVIOUS
      <3> HIDE DEF Bad
      <3>2. QED
        BY <2>1, <3>1, Least
    <2>3. i # 0
      <3>1. FirstOf(members, 0) = {}
        BY DEF FirstOf
      <3>2. DOMAIN <<>> = {} /\ ToSet(<<>>) = {} /\ run[0] = <<>>
        BY <1>2 DEF KeptRun, ToSet
      <3>3. KeptOf(<<>>, {}, spent, rejected)
        BY <3>2 DEF KeptOf, Compatible
      <3>4. QED
        BY <2>2, <3>1, <3>2, <3>3
    <2>4. i \in 1..n /\ i - 1 \in 0..n /\ ~ (i <= i - 1)
      BY <1>1, <2>2, <2>3
    <2>5. KeptOf(run[i - 1], FirstOf(members, i - 1), spent, rejected)
      BY <2>2, <2>4
    <2>6. FirstOf(members, i) = FirstOf(members, i - 1) \cup {members[i]}
      <3>1. 1..i = (1..i - 1) \cup {i}
        BY <2>4
      <3>2. QED
        BY <3>1 DEF FirstOf
    <2>7. run[i] = IF Admit(members[i], run[i - 1], spent, rejected) = "kept"
                   THEN Append(run[i - 1], members[i]) ELSE run[i - 1]
      BY <1>2, <2>4 DEF KeptRun
    <2>8. run[i - 1] \in Seq(T) /\ members[i] \in T
      BY <1>1, <2>4
    <2> HIDE DEF Bad
    <2>9. KeptOf(run[i], FirstOf(members, i), spent, rejected)
      BY <2>5, <2>6, <2>7, <2>8, KeepsOne, LeavesOne
    <2>10. QED
      BY <2>2, <2>9 DEF Bad
  <1>4. n \in 0..n
    BY <1>1
  <1>5. FirstOf(members, n) = ToSet(members)
    BY <1>1 DEF FirstOf, ToSet
  <1>6. KeptOf(run[n], FirstOf(members, n), spent, rejected)
    BY <1>3, <1>4
  <1>7. QED
    BY <1>2, <1>5, <1>6

(***************************************************************************)
(* A batch is read back from the wire                                      *)
(***************************************************************************)
LEMMA OwnElements ==
  ASSUME NEW T, NEW s \in Seq(T)
  PROVE  s \in Seq(ToSet(s))
  <1>1. s \in [1..Len(s) -> ToSet(s)] /\ Len(s) \in Nat
    BY DEF ToSet
  <1> QED
    BY <1>1

(* The words an honest witness is made of.                                 *)
Hashes == {SubtreeHash(S, d) : S \in SUBSET Keys, d \in Nat}
LEMMA WitnessInWords ==
  ASSUME NEW W, Nat \subseteq W, "empty" \in W, Hashes \subseteq W,
         NEW S \in SUBSET Keys, NEW key \in Keys \ S
  PROVE  NonMembershipWitness(S, key) \in WitnessValues(W)
  <1> DEFINE last == DeepestStep(S, key)
             n == last + 1
             Sibling(d) == SubtreeHash({k \in S : FirstDifferingBit(key, k) = d}, d + 1)
             steps == [i \in 1..n |-> [depth |-> last + 1 - i, sibling |-> Sibling(last + 1 - i)]]
  <1>1. n \in Nat /\ last \in Int
    <2>1. S = {} => DeepestStep(S, key) = -1
      BY DEF DeepestStep
    <2>2. S # {} => DeepestStep(S, key) \in 0..Depth - 1
      BY DeepestParts
    <2>3. QED
      BY <2>1, <2>2, DepthAssumption
  <1>2. NonMembershipWitness(S, key) = [terminal |-> "empty", steps |-> steps]
    BY Zenon DEF NonMembershipWitness
  <1> HIDE DEF last
  <1>3. \A d \in Nat : Sibling(d) \in W
    <2>1. \A d \in Nat : /\ {k \in S : FirstDifferingBit(key, k) = d} \in SUBSET Keys
                         /\ d + 1 \in Nat
      OBVIOUS
    <2>2. QED
      BY <2>1 DEF Hashes
  <1> HIDE DEF Sibling
  <1>4. \A i \in 1..n : last + 1 - i \in Nat
    BY <1>1
  <1>5. steps \in [1..n -> [depth : W, sibling : W]]
    BY <1>3, <1>4
  <1>6. steps \in Seq([depth : W, sibling : W])
    BY <1>1, <1>5
  <1> HIDE DEF steps
  <1> QED
    BY <1>2, <1>6 DEF WitnessValues

Keyed(burns) == [i \in DOMAIN burns |-> KeyOf[burns[i]]]
Leaves(burns) == [i \in DOMAIN burns |-> LeafOf(burns[i])]
LEMMA BatchFields ==
  ASSUME NEW burns, NEW name, NEW spent, Fresh(spent, Keyed(burns))
  PROVE  BatchInput(burns, name, spent) =
           [trustBase |-> name, leaves |-> Leaves(burns),
            lockRefs |-> SortedObligations(burns, name),
            batchSize |-> Len(burns), totalAmount |-> SumAmounts(Leaves(burns)),
            spentRootOld |-> TreeRoot(spent),
            spentRootNew |-> TreeRoot(spent \cup ToSet(Keyed(burns))),
            witnesses |-> OrderedInsertWitnesses(spent, Keyed(burns)), burns |-> burns]
  BY DEF BatchInput, NextBatch, Leaves, Keyed

LEMMA BatchReadsBack ==
  ASSUME NEW m \in Nat, NEW burns \in [1..m -> TokenIds], NEW name, NEW spent \in SUBSET Keys,
         Fresh(spent, Keyed(burns)), NEW R, SortedObligations(burns, name) \in Seq(R)
  PROVE  LET x == BatchInput(burns, name, spent) IN DecodeGuestInput(EncodeGuestInput(x)) = x
  <1> DEFINE leaves == Leaves(burns)
             refs == SortedObligations(burns, name)
             total == SumAmounts(leaves)
             old == TreeRoot(spent)
             new == TreeRoot(spent \cup ToSet(Keyed(burns)))
             witnesses == OrderedInsertWitnesses(spent, Keyed(burns))
             W == Nat \cup {name, "empty", total, old, new} \cup Hashes
                    \cup ToSet(leaves) \cup ToSet(refs) \cup TokenIds
             x == BatchInput(burns, name, spent)
  <1>1. x = [trustBase |-> name, leaves |-> leaves, lockRefs |-> refs,
             batchSize |-> Len(burns), totalAmount |-> total, spentRootOld |-> old,
             spentRootNew |-> new, witnesses |-> witnesses, burns |-> burns]
    BY BatchFields
  <1>2. burns \in Seq(TokenIds) /\ Len(burns) = m /\ DOMAIN burns = 1..m
    OBVIOUS
  <1>3. IsOrder(Keyed(burns), m)
    BY <1>2, RelationAssumption DEF IsOrder, Keyed
  <1>4. leaves \in Seq(ToSet(leaves))
    <2>1. leaves \in [1..m -> {leaves[i] : i \in 1..m}]
      BY <1>2 DEF Leaves
    <2> HIDE DEF leaves
    <2>2. leaves \in Seq({leaves[i] : i \in 1..m})
      BY <2>1
    <2>3. QED
      BY <2>2, OwnElements
  <1>5. refs \in Seq(ToSet(refs))
    BY OwnElements
  <1> HIDE DEF leaves, refs, total, old, new, x
  <1>6. /\ Nat \subseteq W /\ "empty" \in W /\ Hashes \subseteq W
        /\ {name, total, old, new} \subseteq W
        /\ ToSet(leaves) \subseteq W /\ ToSet(refs) \subseteq W /\ TokenIds \subseteq W
    OBVIOUS
  <1> HIDE DEF W
  <1>7. leaves \in Seq(W) /\ refs \in Seq(W) /\ burns \in Seq(W)
    BY <1>2, <1>4, <1>5, <1>6
  <1>8. witnesses \in Seq(WitnessValues(W))
    <2>1. NewUpTo(spent, Keyed(burns), m)
      BY <1>3, NewIsFresh DEF IsOrder
    <2>2. /\ DOMAIN witnesses = 1..m
          /\ \A i \in 1..m : witnesses[i] = NonMembershipWitness(Grown(spent, Keyed(burns), i - 1),
                                                                 Keyed(burns)[i])
          /\ witnesses = [i \in 1..m |-> witnesses[i]]
      BY <1>3 DEF OrderedInsertWitnesses, Grown, IsOrder
    <2> HIDE DEF witnesses
    <2>3. \A i \in 1..m : witnesses[i] \in WitnessValues(W)
      <3>1. TAKE i \in 1..m
      <3>2. i - 1 \in 0..m
        OBVIOUS
      <3>3. Grown(spent, Keyed(burns), i - 1) \in SUBSET Keys
        BY <1>3, <3>2, GrownKeys
      <3>4. Keyed(burns)[i] \in Keys \ Grown(spent, Keyed(burns), i - 1)
        BY <1>3, <2>1 DEF IsOrder, NewUpTo
      <3>5. QED
        BY <1>6, <2>2, <3>3, <3>4, WitnessInWords
    <2>4. witnesses \in [1..m -> WitnessValues(W)]
      BY <2>2, <2>3
    <2>5. QED
      BY <2>4
  <1> HIDE DEF witnesses
  <1>9. x \in GuestInputs(W)
    <2>1. Len(burns) \in W
      BY <1>2, <1>6
    <2> DEFINE S == Seq(W)
               L == Seq(WitnessValues(W))
    <2>2. leaves \in S /\ refs \in S /\ burns \in S /\ witnesses \in L
      BY <1>7, <1>8
    <2> HIDE DEF S, L
    <2>3. x \in [trustBase : W, spentRootOld : W, spentRootNew : W, batchSize : W, totalAmount : W,
                 leaves : S, lockRefs : S, witnesses : L, burns : S]
      BY <1>1, <1>6, <2>1, <2>2
    <2>4. QED
      BY <2>3 DEF GuestInputs, S, L
  <1>10. DecodeGuestInput(EncodeGuestInput(x)) = x
    BY <1>6, <1>9, ReadsBack
  <1>11. QED
    BY <1>10 DEF x

(***************************************************************************)
(* A batch of what is owed passes the relation                             *)
(***************************************************************************)
Owed(t) ==
  /\ tokens[t].end = "return" /\ tokens[t].reason.ours
  /\ tokens[t].reason.fee <= tokens[t].reason.amount
  /\ tokens[t].value = tokens[t].reason.amount
  /\ Obligation(t, TrustBaseOf[t]) # NoObligation
QueueOwed == \A t \in ToSet(queue) : Owed(t)

LEMMA ObligationNonce ==
  ASSUME IInv, NEW t \in TokenIds, NEW name
  PROVE  Obligation(t, name).nonce \in Nat
  <1>1. Ancestor(t) \in TokenIds
    BY LineType DEF IInv
  <1>2. tokens[Ancestor(t)].nonce \in Nat
    BY <1>1 DEF IInv, TypeOK, Token
  <1>3. LockObligation(Ancestor(t)).nonce \in Nat /\ NoObligation.nonce \in Nat
    BY <1>2 DEF LockObligation, NoObligation
  <1>4. QED
    BY <1>3 DEF Obligation

(* The obligations of a batch.                                             *)
RefsOf(burns, name) == [i \in DOMAIN burns |-> Obligation(burns[i], name)]
DifferentLocks(burns, name) ==
  \A i, j \in DOMAIN burns : i # j => Obligation(burns[i], name).nonce # Obligation(burns[j], name).nonce

LEMMA RefsInOrder ==
  ASSUME IInv, NEW m \in Nat, NEW burns \in [1..m -> TokenIds], NEW name, DifferentLocks(burns, name)
  PROVE  LET refs == SortedObligations(burns, name)
             owed == {Obligation(burns[i], name) : i \in DOMAIN burns} IN
         refs \in Seq(owed) /\ Len(refs) = m /\ ToSet(refs) = owed /\ SortedUnique(refs)
  <1> DEFINE refs == RefsOf(burns, name)
             owed == {Obligation(burns[i], name) : i \in DOMAIN burns}
             sorted == SortedObligations(burns, name)
  <1>1. DOMAIN burns = 1..m /\ \A i \in 1..m : burns[i] \in TokenIds
    OBVIOUS
  <1>2. refs \in [1..m -> owed]
    BY <1>1 DEF RefsOf
  <1>3. \A i \in 1..m : refs[i] = Obligation(burns[i], name) /\ refs[i].nonce \in Nat
    BY <1>1, ObligationNonce DEF RefsOf
  <1>4. DifferentNonces(refs, m, owed)
    BY <1>1, <1>2, <1>3 DEF DifferentNonces, DifferentLocks
  <1>5. sorted = SortedByNonce(refs)
    BY DEF SortedObligations, RefsOf
  <1>6. ToSet(refs) = owed
    BY <1>1, <1>2, <1>3 DEF ToSet
  <1> HIDE DEF refs, owed
  <1>7. /\ SortedByNonce(refs) \in Seq(owed) /\ Len(SortedByNonce(refs)) = m
        /\ ToSet(SortedByNonce(refs)) = ToSet(refs) /\ SortedUnique(SortedByNonce(refs))
    BY <1>4, SortedInOrder
  <1>8. QED
    BY <1>5, <1>6, <1>7 DEF owed

(* Different tokens spend different nullifiers.                            *)
Unspent(burns, spent) == \A i \in DOMAIN burns : KeyOf[burns[i]] \notin spent
LEMMA KeyedIsFresh ==
  ASSUME NEW m \in Nat, NEW burns \in [1..m -> TokenIds], NEW name, DifferentLocks(burns, name),
         NEW spent, Unspent(burns, spent)
  PROVE  IsOrder(Keyed(burns), m) /\ Fresh(spent, Keyed(burns))
  <1>1. DOMAIN burns = 1..m /\ DOMAIN Keyed(burns) = 1..m
    BY DEF Keyed
  <1>2. \A i \in 1..m : Keyed(burns)[i] = KeyOf[burns[i]] /\ burns[i] \in TokenIds
    BY DEF Keyed
  <1>3. KeyOf \in [TokenIds -> Keys] /\ \A t, u \in TokenIds : KeyOf[t] = KeyOf[u] => t = u
    BY RelationAssumption DEF IsInjective
  <1>4. \A i, j \in 1..m : Keyed(burns)[i] = Keyed(burns)[j] => i = j
    <2>1. \A i, j \in 1..m : burns[i] = burns[j] => i = j
      BY <1>1 DEF DifferentLocks
    <2>2. QED
      BY <1>2, <1>3, <2>1
  <1>5. ToSet(Keyed(burns)) \cap spent = {}
    BY <1>1, <1>2 DEF ToSet, Unspent
  <1>6. QED
    BY <1>1, <1>2, <1>3, <1>4, <1>5 DEF IsOrder, Fresh, IsInjective

LEMMA BatchExecutes ==
  ASSUME IInv, NEW m \in Nat \ {0}, NEW burns \in [1..m -> TokenIds], NEW name,
         NEW spent \in SUBSET Keys, DifferentLocks(burns, name), Unspent(burns, spent),
         \A i \in DOMAIN burns : Owed(burns[i]) /\ TrustBaseOf[burns[i]] = name
  PROVE  Execute(BatchInput(burns, name, spent))
  <1> DEFINE x == BatchInput(burns, name, spent)
             leaves == Leaves(burns)
             refs == SortedObligations(burns, name)
             witnesses == OrderedInsertWitnesses(spent, Keyed(burns))
             new == TreeRoot(spent \cup ToSet(Keyed(burns)))
  <1>1. IsOrder(Keyed(burns), m) /\ Fresh(spent, Keyed(burns))
    BY KeyedIsFresh
  <1>2. /\ x.trustBase = name /\ x.leaves = leaves /\ x.lockRefs = refs
        /\ x.batchSize = Len(burns) /\ x.totalAmount = SumAmounts(leaves)
        /\ x.spentRootOld = TreeRoot(spent) /\ x.spentRootNew = new
        /\ x.witnesses = witnesses /\ x.burns = burns
    <2>1. x = [trustBase |-> name, leaves |-> leaves, lockRefs |-> refs,
               batchSize |-> Len(burns), totalAmount |-> SumAmounts(leaves),
               spentRootOld |-> TreeRoot(spent), spentRootNew |-> new,
               witnesses |-> witnesses, burns |-> burns]
      BY <1>1, BatchFields
    <2> HIDE DEF x, leaves, refs, witnesses, new
    <2>2. QED
      BY <2>1
  <1>3. /\ Len(refs) = m /\ SortedUnique(refs)
        /\ ToSet(refs) = {Obligation(burns[i], name) : i \in DOMAIN burns}
    <2> DEFINE owed == {Obligation(burns[i], name) : i \in DOMAIN burns}
    <2>1. m \in Nat
      OBVIOUS
    <2>2. refs \in Seq(owed) /\ Len(refs) = m /\ ToSet(refs) = owed /\ SortedUnique(refs)
      BY <2>1, RefsInOrder
    <2>3. QED
      BY <2>2
  <1>4. Len(burns) = m /\ DOMAIN burns = 1..m /\ burns # <<>>
    OBVIOUS
  <1>5. /\ DOMAIN leaves = 1..m /\ Len(leaves) = m
        /\ \A i \in 1..m : leaves[i] = LeafOf(burns[i]) /\ leaves[i].nullifier = KeyOf[burns[i]]
    <2>1. \A t : LeafOf(t).nullifier = KeyOf[t]
      BY DEF LeafOf
    <2>2. DOMAIN leaves = 1..m /\ \A i \in 1..m : leaves[i] = LeafOf(burns[i])
      BY <1>4 DEF Leaves
    <2>3. leaves = [i \in 1..m |-> LeafOf(burns[i])]
      BY <1>4 DEF Leaves
    <2>4. Len(leaves) = m
      BY <2>3
    <2> HIDE DEF leaves
    <2>5. QED
      BY <2>1, <2>2, <2>4
  <1>6. [i \in DOMAIN leaves |-> leaves[i].nullifier] = Keyed(burns)
    <2> HIDE DEF leaves
    <2>1. QED
      BY <1>4, <1>5 DEF Keyed
  <1>7. Len(witnesses) = m
    <2>1. DOMAIN Keyed(burns) = 1..m
      BY <1>1 DEF IsOrder
    <2>2. DOMAIN witnesses = 1..m
      BY <2>1 DEF OrderedInsertWitnesses
    <2>3. witnesses = [i \in 1..m |-> witnesses[i]]
      BY <2>1 DEF OrderedInsertWitnesses
    <2> HIDE DEF witnesses
    <2>4. QED
      BY <2>3
  <1>8. new # NoRoot
    <2>1. spent \cup ToSet(Keyed(burns)) \in SUBSET Keys
      BY <1>1 DEF IsOrder, ToSet
    <2>2. QED
      BY <2>1, TreeRootForm
  <1>9. InsertAll(TreeRoot(spent), Keyed(burns), witnesses) = new
    BY <1>1, InsertAllComplete
  <1> HIDE DEF x, leaves, refs, witnesses, new
  <1>10. ValidatePublicValues(x)
    BY <1>2, <1>3, <1>4, <1>5 DEF ValidatePublicValues
  <1>11. ValidateAccumulatorTransition(x)
    BY <1>2, <1>5, <1>6, <1>7, <1>8, <1>9 DEF ValidateAccumulatorTransition
  <1>12. \A i \in 1..m : /\ Obligation(burns[i], name) # NoObligation
                         /\ ValidateTerminalBurn(burns[i], leaves[i])
                         /\ ValidateCurrentValue(burns[i], leaves[i])
    <2>1. TAKE i \in 1..m
    <2>2. Owed(burns[i]) /\ TrustBaseOf[burns[i]] = name /\ leaves[i] = LeafOf(burns[i])
      BY <1>4, <1>5
    <2>3. /\ LeafOf(burns[i]).amount = tokens[burns[i]].reason.amount
          /\ LeafOf(burns[i]).fee = tokens[burns[i]].reason.fee
      BY DEF LeafOf
    <2>4. QED
      BY <2>2, <2>3 DEF Owed, ValidateTerminalBurn, ValidateCurrentValue
  <1>13. ValidateBridgeBurns(x)
    BY <1>2, <1>3, <1>4, <1>5, <1>12 DEF ValidateBridgeBurns
  <1>14. Execute(x)
    BY <1>10, <1>11, <1>13 DEF Execute
  <1>15. QED
    BY <1>14 DEF x

(***************************************************************************)
(* What is queued is owed                                                  *)
(***************************************************************************)

(* An envelope the precheck passes is of a return that is owed.            *)
LEMMA AdmittedIsOwed ==
  ASSUME IInv, NEW t \in TokenIds, Admissible(t)
  PROVE  Owed(t)
  <1> DEFINE burns == <<t>>
             name == TrustBaseOf[t]
             x == BatchInput(burns, name, {})
  <1>1. /\ burns \in [1..1 -> TokenIds] /\ DOMAIN burns = 1..1 /\ burns[1] = t /\ 1 \in 1..1
        /\ {} \in SUBSET Keys /\ 1 \in Nat
    OBVIOUS
  <1> HIDE DEF burns
  <1>2. DifferentLocks(burns, name) /\ Unspent(burns, {})
    BY <1>1 DEF DifferentLocks, Unspent
  <1>3. Fresh({}, Keyed(burns))
    BY <1>1, <1>2, KeyedIsFresh
  <1> DEFINE owed == {Obligation(burns[i], name) : i \in DOMAIN burns}
  <1>4. SortedObligations(burns, name) \in Seq(owed)
    BY <1>1, <1>2, RefsInOrder
  <1> HIDE DEF owed
  <1>5. DecodeGuestInput(EncodeGuestInput(x)) = x
    BY <1>1, <1>3, <1>4, BatchReadsBack
  <1>6. /\ tokens[t].end = "return" /\ tokens[t].reason.ours
        /\ PrecheckWire(EncodeGuestInput(x))
    BY DEF Admissible, BuildWireInput, burns
  <1>7. Execute(x)
    <2> HIDE DEF x
    <2>1. QED
      BY <1>5, <1>6 DEF PrecheckWire, Precheck
  <1>8. /\ x.trustBase = name /\ x.leaves = Leaves(burns) /\ x.burns = burns
    <2>1. x = [trustBase |-> name, leaves |-> Leaves(burns),
               lockRefs |-> SortedObligations(burns, name),
               batchSize |-> Len(burns), totalAmount |-> SumAmounts(Leaves(burns)),
               spentRootOld |-> TreeRoot({}),
               spentRootNew |-> TreeRoot({} \cup ToSet(Keyed(burns))),
               witnesses |-> OrderedInsertWitnesses({}, Keyed(burns)), burns |-> burns]
      BY <1>3, BatchFields
    <2> HIDE DEF x, name
    <2>2. QED
      BY <2>1
  <1>9. Leaves(burns)[1] = LeafOf(t)
    BY <1>1 DEF Leaves
  <1> HIDE DEF x
  <1>10. /\ Obligation(t, name) # NoObligation
         /\ ValidateTerminalBurn(t, LeafOf(t)) /\ ValidateCurrentValue(t, LeafOf(t))
    BY <1>1, <1>7, <1>8, <1>9 DEF Execute, ValidateBridgeBurns
  <1>11. /\ LeafOf(t).amount = tokens[t].reason.amount
         /\ LeafOf(t).fee = tokens[t].reason.fee
    BY DEF LeafOf
  <1>12. QED
    BY <1>6, <1>10, <1>11 DEF ValidateTerminalBurn, ValidateCurrentValue, Owed

(* What is owed stays owed: its token is burned, its line is for good.     *)
LEMMA OwedStays ==
  ASSUME IInv, Evolves, ParentsHold', NEW t, Owed(t)
  PROVE  Owed(t)'
  <1>1. t \in TokenIds /\ Obligation(t, TrustBaseOf[t])' = Obligation(t, TrustBaseOf[t])
    BY ObligationStays DEF Owed
  <1>2. tokens'[t] = tokens[t]
    BY <1>1 DEF Owed, Evolves
  <1>3. QED
    BY <1>1, <1>2 DEF Owed

LEMMA QueueStaysOwed ==
  ASSUME IInv, QueueOwed, [Next]_vars
  PROVE  QueueOwed'
  <1>1. Evolves /\ ParentsHold'
    BY NextEvolves
  <1>2. \A t \in ToSet(queue) : Owed(t)'
    BY <1>1, OwedStays DEF QueueOwed
  <1>3. CASE queue' = queue
    BY <1>2, <1>3 DEF QueueOwed
  <1>4. CASE \E t \in TokenIds : Intake(t)
    <2>1. PICK t \in TokenIds : Intake(t)
      BY <1>4
    <2>2. Owed(t)
      BY <2>1, AdmittedIsOwed DEF Intake
    <2>3. Owed(t)'
      BY <1>1, <2>2, OwedStays
    <2>4. ToSet(queue') = ToSet(queue) \cup {t}
      <3>1. queue' = Append(queue, t) /\ queue \in Seq(TokenIds)
        BY <2>1 DEF Intake, IInv, Sequenced
      <3>2. QED
        BY <3>1, ToSetAppend
    <2>5. QED
      BY <1>2, <2>3, <2>4 DEF QueueOwed
  <1>5. QED
    <2>1. \A x : FulfillBatch(x) => queue' = queue
      BY DEF FulfillBatch
    <2>2. /\ \A m : Mint(m) => queue' = queue
          /\ \A t, manifest : SplitBurn(t, manifest) => queue' = queue
          /\ \A t, reason : ReturnBurn(t, reason) => queue' = queue
      BY DEF Mint, SplitBurn, ReturnBurn
    <2>3. /\ \A S : ServiceSettles(S) => queue' = queue
          /\ \A burns, name : AnyoneSettles(burns, name) => queue' = queue
      BY <2>1 DEF ServiceSettles, AnyoneSettles
    <2>4. UNCHANGED vars => queue' = queue
      BY DEF vars
    <2>5. QED
      BY <1>3, <1>4, <2>2, <2>3, <2>4 DEF Next

(* Every return the service queued is still one its lock owes.             *)
THEOREM QueueIsOwed == Spec => []QueueOwed
  <1>1. Init => QueueOwed
    BY DEF Init, QueueOwed, ToSet
  <1>2. IInv /\ QueueOwed /\ [Next]_vars => QueueOwed'
    BY QueueStaysOwed
  <1>3. QED
    BY <1>1, <1>2, InductiveInvariant, PTL DEF Spec

(***************************************************************************)
(* What is assembled is accepted                                           *)
(***************************************************************************)
LEMMA AssembledFollows ==
  ASSUME IInv, QueueOwed
  PROVE  AssembledIsAccepted
  <1> SUFFICES ASSUME NEW S \in SUBSET ToSet(queue), NEW refused \in SUBSET S
               PROVE  LET members == Due(S)
                          rejected == refused \cup Unbacked
                          kept == Kept(members, Spent, rejected)
                          x == Assembled(members, Spent, rejected) IN
                      /\ kept # <<>> => /\ x.burns = kept
                                        /\ DecodeGuestInput(EncodeGuestInput(x)) = x
                                        /\ Execute(x)
                                        /\ x.spentRootOld = spentRoot
                                        /\ LockRefsStored(x)
                      /\ \A t \in S \ ToSet(kept) :
                           \/ t \in rejected \cup ReleasedTokens
                           \/ kept # <<>> /\ TrustBaseOf[t] # TrustBaseOf[kept[1]]
                           \/ \E u \in ToSet(kept) : NonceOf(u) = NonceOf(t)
    BY Zenon DEF AssembledIsAccepted
  <1> DEFINE members == Due(S)
             rejected == refused \cup Unbacked
             kept == Kept(members, Spent, rejected)
             name == TrustBaseOf[kept[1]]
             x == Assembled(members, Spent, rejected)
             m == Len(kept)
  <1>1. members \in Seq(TokenIds) /\ ToSet(members) = S
    <2>1. queue \in Seq(TokenIds) /\ S \cap ToSet(queue) = S
      BY DEF IInv, Sequenced
    <2>2. QED
      BY <2>1, AmongMembers DEF Due
  <1>2. x = BatchInput(kept, name, Spent)
    BY DEF Assembled
  <1> HIDE DEF members
  <1>3. /\ kept \in Seq(TokenIds) /\ KeptOf(kept, S, Spent, rejected)
    BY <1>1, KeptStays, KeptFitsTogether
  <1> HIDE DEF kept, name
  <1>4. Spent = ReleasedKeys /\ Spent \in SUBSET Keys /\ spentRoot = TreeRoot(Spent)
    BY SpentIsReleased DEF IInv, LogIsAChain
  <1>5. m \in Nat /\ kept \in [1..m -> TokenIds] /\ DOMAIN kept = 1..m /\ (kept # <<>> => m # 0)
    BY <1>3
  <1>6. \A i \in 1..m : kept[i] \in S /\ Owed(kept[i]) /\ TrustBaseOf[kept[i]] = name
    <2>1. \A i \in 1..m : kept[i] \in ToSet(kept)
      BY <1>5 DEF ToSet
    <2>2. QED
      BY <1>3, <1>5, <2>1 DEF KeptOf, Compatible, QueueOwed, name
  <1>7. DifferentLocks(kept, name) /\ Unspent(kept, Spent)
    <2>1. \A i \in 1..m : NonceOf(kept[i]) = Obligation(kept[i], name).nonce
      BY <1>6 DEF NonceOf
    <2>2. /\ \A i, j \in 1..m : i # j => NonceOf(kept[i]) # NonceOf(kept[j])
          /\ \A i \in 1..m : KeyOf[kept[i]] \notin Spent
      BY <1>3, <1>5 DEF KeptOf, Compatible
    <2>3. QED
      BY <1>5, <2>1, <2>2 DEF DifferentLocks, Unspent
  <1>8. IsOrder(Keyed(kept), m) /\ Fresh(Spent, Keyed(kept))
    BY <1>5, <1>7, KeyedIsFresh
  <1> DEFINE refs == SortedObligations(kept, name)
             owed == {Obligation(kept[i], name) : i \in DOMAIN kept}
  <1>9. refs \in Seq(owed)
    BY <1>5, <1>7, RefsInOrder
  <1>10. x.burns = kept /\ x.spentRootOld = spentRoot /\ x.lockRefs = refs
    <2>1. BatchInput(kept, name, Spent) =
            [trustBase |-> name, leaves |-> Leaves(kept), lockRefs |-> refs,
             batchSize |-> Len(kept), totalAmount |-> SumAmounts(Leaves(kept)),
             spentRootOld |-> TreeRoot(Spent),
             spentRootNew |-> TreeRoot(Spent \cup ToSet(Keyed(kept))),
             witnesses |-> OrderedInsertWitnesses(Spent, Keyed(kept)), burns |-> kept]
      BY <1>8, BatchFields
    <2> HIDE DEF x, refs, m
    <2>2. QED
      BY <1>2, <1>4, <2>1
  <1>11. DecodeGuestInput(EncodeGuestInput(x)) = x
    <2> DEFINE batch == BatchInput(kept, name, Spent)
    <2> HIDE DEF owed
    <2>1. DecodeGuestInput(EncodeGuestInput(batch)) = batch
      BY <1>4, <1>5, <1>8, <1>9, BatchReadsBack
    <2> HIDE DEF batch, x
    <2>2. x = batch
      BY <1>2 DEF batch
    <2>3. QED
      BY <2>1, <2>2
  <1>12. kept # <<>> => Execute(x)
    <2> HIDE DEF x, m
    <2>1. ASSUME kept # <<>> PROVE Execute(BatchInput(kept, name, Spent))
      <3>1. m \in Nat \ {0}
        BY <1>5, <2>1
      <3>2. \A i \in DOMAIN kept : Owed(kept[i]) /\ TrustBaseOf[kept[i]] = name
        BY <1>5, <1>6
      <3>3. QED
        BY <1>4, <1>5, <1>7, <3>1, <3>2, BatchExecutes
    <2>2. QED
      BY <1>2, <2>1
  <1>13. LockRefsStored(x)
    <2>1. \A i \in 1..m : kept[i] \notin Unbacked /\ kept[i] \in ToSet(queue)
      BY <1>3, <1>5, <1>6 DEF KeptOf, Compatible
    <2>2. \A i \in 1..m : /\ Obligation(kept[i], name).nonce \in DOMAIN Locks
                          /\ Obligation(kept[i], name).digest
                               = StoredDigest(Obligation(kept[i], name).nonce)
      <3>1. TAKE i \in 1..m
      <3> DEFINE o == Obligation(kept[i], name)
                 one == [lockRefs |-> <<o>>]
      <3>2. LockRefsStored(one)
        BY <1>6, <2>1 DEF Unbacked
      <3>3. one.lockRefs[1] = o /\ 1 \in DOMAIN one.lockRefs
        OBVIOUS
      <3> HIDE DEF one, o
      <3>4. o.nonce \in DOMAIN Locks /\ o.digest = StoredDigest(o.nonce)
        BY <3>2, <3>3 DEF LockRefsStored
      <3>5. QED
        BY <3>4 DEF o
    <2>3. \A o \in owed : o.nonce \in DOMAIN Locks /\ o.digest = StoredDigest(o.nonce)
      BY <1>5, <2>2
    <2>4. \A i \in DOMAIN refs : refs[i] \in owed
      BY <1>9
    <2> HIDE DEF x, refs, owed
    <2>5. QED
      BY <1>10, <2>3, <2>4 DEF LockRefsStored
  <1>14. ASSUME NEW t \in S \ ToSet(kept)
         PROVE  \/ t \in rejected \cup ReleasedTokens
                \/ kept # <<>> /\ TrustBaseOf[t] # TrustBaseOf[kept[1]]
                \/ \E u \in ToSet(kept) : NonceOf(u) = NonceOf(t)
    <2>1. LeftOut(t, kept, Spent, rejected)
      BY <1>3 DEF KeptOf
    <2>2. KeyOf[t] \in Spent => t \in ReleasedTokens
      <3>1. t \in TokenIds
        BY DEF IInv, TypeOK
      <3>2. \A r \in released : r.token \in TokenIds /\ r.token \in ReleasedTokens
        BY DEF IInv, TypeOK, ReleasedTokens
      <3>3. /\ \A a, b \in TokenIds : KeyOf[a] = KeyOf[b] => a = b
        BY RelationAssumption DEF IsInjective
      <3>4. QED
        BY <1>4, <3>1, <3>2, <3>3 DEF ReleasedKeys
    <2>3. QED
      BY <2>1, <2>2 DEF LeftOut
  <1>15. QED
    <2> HIDE DEF x, rejected
    <2>1. QED
      BY <1>10, <1>11, <1>12, <1>13, <1>14 DEF kept, members, x, rejected

(* What the assembler makes of any returns in the queue, whatever was      *)
(* settled or refused since, is read back as written, passes the relation  *)
(* and the vault, and leaves nothing out without its reason.               *)
THEOREM AssembledIsAcceptedHolds == Spec => []AssembledIsAccepted
  <1>1. IInv /\ QueueOwed => AssembledIsAccepted
    BY AssembledFollows
  <1>2. QED
    BY <1>1, InductiveInvariant, QueueIsOwed, PTL
==============================================================================
