-------------------------- MODULE Accumulator_proofs --------------------------
(***************************************************************************)
(* That a root of the sparse Merkle tree stands for one set of keys, that  *)
(* a key outside it has a witness and that no witness whatsoever shows a   *)
(* key of it absent or takes an insertion to another tree; that the        *)
(* guest's check of a batch passes for new keys and no others; and that a  *)
(* rebuild follows the chain of settlements, whatever the order and        *)
(* repetitions of its entries, and refuses a gap or a fork.                *)
(***************************************************************************)
EXTENDS Accumulator, FiniteSetTheorems, WellFoundedInduction, TLAPS

(***************************************************************************)
(* Induction, by the least counterexample, and recursion                   *)
(***************************************************************************)

(* Every nonempty set of naturals has a least element.                     *)
LEMMA Least ==
  ASSUME NEW T \in SUBSET Nat, T # {}
  PROVE  \E n \in T : \A m \in T : n <= m
  <1> DEFINE Less == OpToRel(<, Nat)
  <1>1. IsWellFoundedOn(Less, Nat)
    BY NatLessThanWellFounded
  <1>2. \A m, n \in Nat : m < n => <<m, n>> \in Less
    BY DEF OpToRel
  <1> HIDE DEF Less
  <1>3. PICK n \in T : \A m \in T : ~ (<<m, n>> \in Less)
    BY <1>1, WFMin
  <1>4. \A m \in T : n \in Nat /\ m \in Nat
    OBVIOUS
  <1>5. \A m \in T : ~ (m < n)
    BY <1>2, <1>3, <1>4
  <1>6. QED
    BY <1>4, <1>5

(* A function on 0..K is defined by its first value and by what each value *)
(* makes of the one before it.                                             *)
Unfolds(g, K, X, base, F) ==
  g \in [0..K -> X] /\ g[0] = base /\ \A n \in 1..K : g[n] = F[n][g[n - 1]]
LEMMA Recursion ==
  ASSUME NEW K \in Nat, NEW X, NEW base \in X, NEW F \in [1..K -> [X -> X]]
  PROVE  \E g : Unfolds(g, K, X, base, F)
  <1> DEFINE Solves(g, k) ==
               g \in [0..k -> X] /\ g[0] = base /\ \A n \in 1..k : g[n] = F[n][g[n - 1]]
             Bad == {k \in 0..K : ~ \E g : Solves(g, k)}
  <1>1. SUFFICES ASSUME Bad # {} PROVE FALSE
    BY DEF Unfolds
  <1>2. PICK k \in Bad : \A m \in Bad : k <= m
    <2>1. Bad \in SUBSET Nat
      OBVIOUS
    <2> HIDE DEF Bad
    <2>2. QED
      BY <1>1, <2>1, Least
  <1>3. k # 0
    <2>1. Solves([n \in 0..0 |-> base], 0)
      OBVIOUS
    <2>2. 0 \notin Bad
      BY <2>1
    <2> HIDE DEF Bad
    <2>3. QED
      BY <1>2, <2>2
  <1>4. k - 1 \in 0..K /\ k \in 1..K /\ ~ (k <= k - 1)
    BY <1>2, <1>3
  <1>5. PICK g : Solves(g, k - 1)
    <2>1. k - 1 \notin Bad
      BY <1>2, <1>4
    <2>2. QED
      BY <1>4, <2>1
  <1> DEFINE h == [n \in 0..k |-> IF n = k THEN F[k][g[k - 1]] ELSE g[n]]
  <1>6. h \in [0..k -> X]
    <2>1. g[k - 1] \in X
      BY <1>4, <1>5
    <2>2. F[k] \in [X -> X]
      BY <1>4
    <2>3. F[k][g[k - 1]] \in X
      BY <2>1, <2>2
    <2>4. \A n \in 0..k : n # k => g[n] \in X
      BY <1>4, <1>5
    <2>5. QED
      BY <2>3, <2>4
  <1>7. h[0] = base
    BY <1>3, <1>4, <1>5
  <1>8. \A n \in 1..k : h[n] = F[n][h[n - 1]]
    <2>1. TAKE n \in 1..k
    <2>2. n \in 0..k /\ n - 1 \in 0..k /\ n - 1 # k
      BY <1>4
    <2>3. h[n - 1] = g[n - 1]
      BY <2>2
    <2>4. CASE n = k
      BY <2>2, <2>3, <2>4
    <2>5. CASE n # k
      <3>1. n \in 1..k - 1
        BY <1>4, <2>5
      <3>2. g[n] = F[n][g[n - 1]]
        BY <1>5, <3>1
      <3>3. QED
        BY <2>2, <2>3, <2>5, <3>2
    <2>6. QED
      BY <2>4, <2>5
  <1>9. Solves(h, k)
    BY <1>6, <1>7, <1>8
  <1>10. QED
    BY <1>2, <1>9

(***************************************************************************)
(* The recursive functions of the tree satisfy their definitions           *)
(***************************************************************************)

(* What a recursion down from Depth says of each depth, it has a solution  *)
(* for: it has one from Depth - n on for every n.                          *)
LEMMA EmptiesExist ==
  \E f : f = [d \in 0..Depth |-> IF d = Depth THEN EmptyTreeRoot ELSE NodeHash(d, f[d + 1], f[d + 1])]
  <1> USE DepthAssumption
  <1> DEFINE Step(f, d) == IF d = Depth THEN EmptyTreeRoot ELSE NodeHash(d, f[d + 1], f[d + 1])
             Solves(f, n) == f = [d \in Depth - n..Depth |-> Step(f, d)]
             Bad == {n \in 0..Depth : ~ \E f : Solves(f, n)}
  <1>1. SUFFICES ASSUME Bad # {} PROVE FALSE
    <2>1. Depth \in 0..Depth /\ Depth - Depth = 0
      OBVIOUS
    <2>2. PICK f : Solves(f, Depth)
      BY <2>1
    <2>3. QED
      BY <2>1, <2>2
  <1>2. PICK n \in Bad : \A m \in Bad : n <= m
    <2>1. Bad \in SUBSET Nat
      OBVIOUS
    <2> HIDE DEF Bad
    <2>2. QED
      BY <1>1, <2>1, Least
  <1>3. n # 0
    <2>1. Solves([d \in Depth - 0..Depth |-> EmptyTreeRoot], 0)
      OBVIOUS
    <2>2. QED
      BY <2>1
  <1>4. n - 1 \in 0..Depth /\ ~ (n <= n - 1) /\ n \in 1..Depth
    BY <1>2, <1>3
  <1>5. PICK f : Solves(f, n - 1)
    <2>1. n - 1 \notin Bad
      BY <1>2, <1>4
    <2>2. QED
      BY <1>4, <2>1
  <1> DEFINE h == [d \in Depth - n..Depth |-> Step(f, d)]
  <1>6. \A d \in Depth - n..Depth : d # Depth => h[d + 1] = f[d + 1]
    <2>1. TAKE d \in Depth - n..Depth
    <2>2. SUFFICES ASSUME d # Depth PROVE h[d + 1] = f[d + 1]
      OBVIOUS
    <2>3. d + 1 \in Depth - (n - 1)..Depth /\ d + 1 \in Depth - n..Depth
      BY <1>4, <2>2
    <2>4. f[d + 1] = Step(f, d + 1)
      BY <1>5, <2>3
    <2>5. QED
      BY <2>3, <2>4
  <1>7. \A d \in Depth - n..Depth : Step(f, d) = Step(h, d)
    <2> HIDE DEF h
    <2>1. QED
      BY <1>6
  <1>8. Solves(h, n)
    BY <1>7
  <1>9. QED
    BY <1>2, <1>8

LEMMA EmptiesUnfold ==
  ASSUME NEW d \in 0..Depth
  PROVE  Empties[d] = IF d = Depth THEN EmptyTreeRoot ELSE NodeHash(d, Empties[d + 1], Empties[d + 1])
  <1>1. Empties = [e \in 0..Depth |-> IF e = Depth THEN EmptyTreeRoot
                                      ELSE NodeHash(e, Empties[e + 1], Empties[e + 1])]
    BY EmptiesExist DEF Empties
  <1>2. QED
    BY <1>1

LEMMA SingleExists ==
  ASSUME NEW key
  PROVE  \E f : f = [d \in 0..Depth |-> IF d = Depth THEN LeafHash(key)
                                        ELSE Parent(key, d, f[d + 1], Empties[d + 1])]
  <1> USE DepthAssumption
  <1> DEFINE Step(f, d) == IF d = Depth THEN LeafHash(key)
                           ELSE Parent(key, d, f[d + 1], Empties[d + 1])
             Solves(f, n) == f = [d \in Depth - n..Depth |-> Step(f, d)]
             Bad == {n \in 0..Depth : ~ \E f : Solves(f, n)}
  <1>1. SUFFICES ASSUME Bad # {} PROVE FALSE
    <2>1. Depth \in 0..Depth /\ Depth - Depth = 0
      OBVIOUS
    <2>2. PICK f : Solves(f, Depth)
      BY <2>1
    <2>3. QED
      BY <2>1, <2>2
  <1>2. PICK n \in Bad : \A m \in Bad : n <= m
    <2>1. Bad \in SUBSET Nat
      OBVIOUS
    <2> HIDE DEF Bad
    <2>2. QED
      BY <1>1, <2>1, Least
  <1>3. n # 0
    <2>1. Solves([d \in Depth - 0..Depth |-> LeafHash(key)], 0)
      OBVIOUS
    <2>2. QED
      BY <2>1
  <1>4. n - 1 \in 0..Depth /\ ~ (n <= n - 1) /\ n \in 1..Depth
    BY <1>2, <1>3
  <1>5. PICK f : Solves(f, n - 1)
    <2>1. n - 1 \notin Bad
      BY <1>2, <1>4
    <2>2. QED
      BY <1>4, <2>1
  <1> DEFINE h == [d \in Depth - n..Depth |-> Step(f, d)]
  <1>6. \A d \in Depth - n..Depth : d # Depth => h[d + 1] = f[d + 1]
    <2>1. TAKE d \in Depth - n..Depth
    <2>2. SUFFICES ASSUME d # Depth PROVE h[d + 1] = f[d + 1]
      OBVIOUS
    <2>3. d + 1 \in Depth - (n - 1)..Depth /\ d + 1 \in Depth - n..Depth
      BY <1>4, <2>2
    <2>4. f[d + 1] = Step(f, d + 1)
      BY <1>5, <2>3
    <2>5. QED
      BY <2>3, <2>4
  <1>7. \A d \in Depth - n..Depth : Step(f, d) = Step(h, d)
    <2> HIDE DEF h
    <2>1. QED
      BY <1>6
  <1>8. Solves(h, n)
    BY <1>7
  <1>9. QED
    BY <1>2, <1>8

LEMMA SingleUnfold ==
  ASSUME NEW key, NEW d \in 0..Depth
  PROVE  SingleKeyHash(key, d) =
           IF d = Depth THEN LeafHash(key)
           ELSE Parent(key, d, SingleKeyHash(key, d + 1), Empties[d + 1])
  <1> DEFINE Up(f) == f = [e \in 0..Depth |-> IF e = Depth THEN LeafHash(key)
                                              ELSE Parent(key, e, f[e + 1], Empties[e + 1])]
             up == CHOOSE f : Up(f)
  <1>1. Up(up)
    <2>1. \E f : Up(f)
      BY SingleExists
    <2> HIDE DEF Up
    <2>2. QED
      BY <2>1
  <1>2. \A e : SingleKeyHash(key, e) = up[e]
    BY DEF SingleKeyHash
  <1> HIDE DEF up
  <1>3. QED
    BY <1>1, <1>2

(* The hash of a subtree, from the hashes of the two below it.             *)
Child(S, d, bit) == {k \in S : k[d] = bit}
SubtreeStep(f, d, S) ==
  CASE S = {} -> Empties[d]
    [] \E k \in S : S = {k} -> SingleKeyHash(CHOOSE k \in S : TRUE, d)
    [] OTHER -> NodeHash(d, f[d + 1][Child(S, d, 0)], f[d + 1][Child(S, d, 1)])

(* Keys that share all their bits are one key.                             *)
LEMMA TogetherAtDepth ==
  ASSUME NEW S \in Together(Depth), S # {}
  PROVE  \E k \in S : S = {k}
  <1>1. PICK k \in S : TRUE
    OBVIOUS
  <1>2. \A l \in S : l = k
    <2>1. TAKE l \in S
    <2>2. k \in [0..Depth - 1 -> 0..1] /\ l \in [0..Depth - 1 -> 0..1]
      BY DEF Together, Keys
    <2>3. \A e \in 0..Depth - 1 : k[e] = l[e]
      BY DEF Together
    <2>4. k = [e \in 0..Depth - 1 |-> k[e]] /\ l = [e \in 0..Depth - 1 |-> l[e]]
      BY <2>2
    <2>5. QED
      BY <2>3, <2>4, Zenon
  <1>3. QED
    BY <1>1, <1>2

LEMMA SubtreesExist ==
  \E f : f = [d \in 0..Depth |-> [S \in Together(d) |-> SubtreeStep(f, d, S)]]
  <1> USE DepthAssumption
  <1> DEFINE Step(f, d) == [S \in Together(d) |-> SubtreeStep(f, d, S)]
             Solves(f, n) == f = [d \in Depth - n..Depth |-> Step(f, d)]
             Bad == {n \in 0..Depth : ~ \E f : Solves(f, n)}
  <1>0. \A f, g : Step(f, Depth) = Step(g, Depth)
    <2>1. \A f, g : \A S \in Together(Depth) : SubtreeStep(f, Depth, S) = SubtreeStep(g, Depth, S)
      BY TogetherAtDepth DEF SubtreeStep
    <2>2. QED
      BY <2>1
  <1>1. SUFFICES ASSUME Bad # {} PROVE FALSE
    <2>1. Depth \in 0..Depth /\ Depth - Depth = 0
      OBVIOUS
    <2>2. PICK f : Solves(f, Depth)
      BY <2>1
    <2>3. QED
      BY <2>1, <2>2
  <1>2. PICK n \in Bad : \A m \in Bad : n <= m
    <2>1. Bad \in SUBSET Nat
      OBVIOUS
    <2> HIDE DEF Bad
    <2>2. QED
      BY <1>1, <2>1, Least
  <1>3. n # 0
    <2> DEFINE g == [d \in Depth - 0..Depth |-> Step(0, d)]
    <2>1. \A d \in Depth - 0..Depth : Step(0, d) = Step(g, d)
      <3> HIDE DEF g, Step
      <3>1. QED
        BY <1>0
    <2>2. Solves(g, 0)
      <3> HIDE DEF Step
      <3>1. QED
        BY <2>1
    <2>3. QED
      BY <2>2
  <1>4. n - 1 \in 0..Depth /\ ~ (n <= n - 1) /\ n \in 1..Depth
    BY <1>2, <1>3
  <1>5. PICK f : Solves(f, n - 1)
    <2>1. n - 1 \notin Bad
      BY <1>2, <1>4
    <2>2. QED
      BY <1>4, <2>1
  <1> DEFINE h == [d \in Depth - n..Depth |-> Step(f, d)]
  <1>6. \A d \in Depth - n..Depth : d # Depth => h[d + 1] = f[d + 1]
    <2>1. TAKE d \in Depth - n..Depth
    <2>2. SUFFICES ASSUME d # Depth PROVE h[d + 1] = f[d + 1]
      OBVIOUS
    <2>3. d + 1 \in Depth - (n - 1)..Depth /\ d + 1 \in Depth - n..Depth
      BY <1>4, <2>2
    <2> HIDE DEF Step
    <2>4. f[d + 1] = Step(f, d + 1)
      BY <1>5, <2>3
    <2>5. QED
      BY <2>3, <2>4
  <1>7. \A d \in Depth - n..Depth : Step(f, d) = Step(h, d)
    <2> HIDE DEF h
    <2>1. TAKE d \in Depth - n..Depth
    <2>2. CASE d = Depth
      <3> HIDE DEF Step
      <3>1. QED
        BY <1>0, <2>2
    <2>3. CASE d # Depth
      BY <1>6, <2>3 DEF SubtreeStep
    <2>4. QED
      BY <2>2, <2>3
  <1>8. Solves(h, n)
    <2> HIDE DEF Step
    <2>1. QED
      BY <1>7
  <1>9. QED
    BY <1>2, <1>8

LEMMA SubtreeUnfold ==
  ASSUME NEW d \in 0..Depth, NEW S \in Together(d)
  PROVE  SubtreeHash(S, d) = SubtreeStep(Subtrees, d, S)
  <1> DEFINE Solves(f) == f = [e \in 0..Depth |-> [T \in Together(e) |-> SubtreeStep(f, e, T)]]
  <1>1. Subtrees = CHOOSE f : Solves(f)
    BY DEF Subtrees, SubtreeStep, Child
  <1>2. Solves(Subtrees)
    <2>1. \E f : Solves(f)
      BY SubtreesExist
    <2> HIDE DEF Solves
    <2>2. QED
      BY <1>1, <2>1
  <1>3. Subtrees[d] = [T \in Together(d) |-> SubtreeStep(Subtrees, d, T)]
    BY <1>2
  <1>4. QED
    BY <1>3 DEF SubtreeHash

(***************************************************************************)
(* A hash stands for what was hashed                                       *)
(***************************************************************************)
LEMMA HashesDiffer ==
  /\ EmptyTreeRoot # NoRoot
  /\ \A k : LeafHash(k) # EmptyTreeRoot /\ LeafHash(k) # NoRoot
  /\ \A d, l, r : NodeHash(d, l, r) # EmptyTreeRoot /\ NodeHash(d, l, r) # NoRoot
  /\ \A k, d, l, r : LeafHash(k) # NodeHash(d, l, r)
  <1>1. EmptyTreeRoot[1] = "zero" /\ NoRoot[1] = "none"
    BY DEF EmptyTreeRoot, NoRoot
  <1>2. \A k : LeafHash(k)[1] = "leaf"
    BY DEF LeafHash
  <1>3. \A d, l, r : NodeHash(d, l, r)[1] = "node"
    BY DEF NodeHash
  <1>4. QED
    BY <1>1, <1>2, <1>3

LEMMA LeafInjective ==
  ASSUME NEW k, NEW l, LeafHash(k) = LeafHash(l)
  PROVE  k = l
  <1>1. LeafHash(k)[2] = k /\ LeafHash(l)[2] = l
    BY DEF LeafHash
  <1>2. QED
    BY <1>1

LEMMA NodeInjective ==
  ASSUME NEW d, NEW a, NEW b, NEW e, NEW x, NEW y, NodeHash(d, a, b) = NodeHash(e, x, y)
  PROVE  a = x /\ b = y
  <1>1. NodeHash(d, a, b)[3] = a /\ NodeHash(d, a, b)[4] = b
    BY DEF NodeHash
  <1>2. NodeHash(e, x, y)[3] = x /\ NodeHash(e, x, y)[4] = y
    BY DEF NodeHash
  <1>3. QED
    BY <1>1, <1>2

LEMMA ParentInjective ==
  ASSUME NEW key, NEW d, NEW a, NEW b, NEW x, NEW y, Parent(key, d, a, b) = Parent(key, d, x, y)
  PROVE  a = x /\ b = y
  BY NodeInjective DEF Parent

LEMMA ParentIsNode ==
  ASSUME NEW key, NEW d, NEW a, NEW b
  PROVE  Parent(key, d, a, b) # EmptyTreeRoot /\ Parent(key, d, a, b) # NoRoot
  BY HashesDiffer DEF Parent

(***************************************************************************)
(* Subtrees                                                                *)
(***************************************************************************)
LEMMA SubtreeCases ==
  ASSUME NEW d \in 0..Depth, NEW S \in Together(d)
  PROVE  /\ S = {} => SubtreeHash(S, d) = Empties[d]
         /\ \A k : S = {k} => SubtreeHash(S, d) = SingleKeyHash(k, d)
         /\ S # {} /\ (\A k \in S : S # {k}) =>
              SubtreeHash(S, d) = NodeHash(d, SubtreeHash(Child(S, d, 0), d + 1),
                                              SubtreeHash(Child(S, d, 1), d + 1))
  <1>1. SubtreeHash(S, d) = SubtreeStep(Subtrees, d, S)
    BY SubtreeUnfold
  <1>2. S = {} => SubtreeStep(Subtrees, d, S) = Empties[d]
    BY Zenon DEF SubtreeStep
  <1>3. ASSUME NEW k, S = {k}
        PROVE  SubtreeStep(Subtrees, d, S) = SingleKeyHash(k, d)
    <2>1. S # {} /\ k \in S
      BY <1>3
    <2>2. (CHOOSE l \in S : TRUE) = k
      BY <1>3
    <2> DEFINE one == CHOOSE l \in S : TRUE
    <2> HIDE DEF one
    <2>3. SubtreeStep(Subtrees, d, S) = SingleKeyHash(one, d)
      BY <1>3, <2>1, Zenon DEF SubtreeStep, one
    <2>4. QED
      BY <2>2, <2>3 DEF one
  <1>4. S # {} /\ (\A k \in S : S # {k}) =>
          SubtreeStep(Subtrees, d, S) = NodeHash(d, Subtrees[d + 1][Child(S, d, 0)],
                                                    Subtrees[d + 1][Child(S, d, 1)])
    BY Zenon DEF SubtreeStep
  <1>5. QED
    BY <1>1, <1>2, <1>3, <1>4 DEF SubtreeHash

LEMMA ChildTogether ==
  ASSUME NEW d \in 0..Depth - 1, NEW S \in Together(d), NEW bit
  PROVE  Child(S, d, bit) \in Together(d + 1)
  <1>1. S \in SUBSET Keys /\ \A k, l \in S : \A e \in 0..d - 1 : k[e] = l[e]
    BY DEF Together
  <1>2. \A e \in 0..(d + 1) - 1 : e \in 0..d - 1 \/ e = d
    OBVIOUS
  <1>3. \A k, l \in Child(S, d, bit) : \A e \in 0..(d + 1) - 1 : k[e] = l[e]
    BY <1>1, <1>2 DEF Child
  <1>4. QED
    BY <1>1, <1>3 DEF Together, Child

(* A subtree of any keys is the node over its two halves.                  *)
LEMMA NodeForm ==
  ASSUME NEW d \in 0..Depth - 1, NEW S \in Together(d)
  PROVE  SubtreeHash(S, d) = NodeHash(d, SubtreeHash(Child(S, d, 0), d + 1),
                                         SubtreeHash(Child(S, d, 1), d + 1))
  <1> USE DepthAssumption
  <1>1. d \in 0..Depth /\ d + 1 \in 0..Depth /\ d # Depth
    OBVIOUS
  <1>2. Child(S, d, 0) \in Together(d + 1) /\ Child(S, d, 1) \in Together(d + 1)
    BY ChildTogether
  <1>3. CASE S = {}
    <2>1. Child(S, d, 0) = {} /\ Child(S, d, 1) = {}
      BY <1>3 DEF Child
    <2>2. SubtreeHash(S, d) = Empties[d]
      BY <1>1, <1>3, SubtreeCases
    <2>3. /\ SubtreeHash(Child(S, d, 0), d + 1) = Empties[d + 1]
          /\ SubtreeHash(Child(S, d, 1), d + 1) = Empties[d + 1]
      BY <1>1, <1>2, <2>1, SubtreeCases
    <2>4. QED
      BY <1>1, <2>2, <2>3, EmptiesUnfold
  <1>4. CASE \E k \in S : S = {k}
    <2>1. PICK k \in S : S = {k}
      BY <1>4
    <2>2. k \in Keys /\ k[d] \in 0..1
      BY DEF Together, Keys
    <2>3. SubtreeHash(S, d) = Parent(k, d, SingleKeyHash(k, d + 1), Empties[d + 1])
      <3>1. SubtreeHash(S, d) = SingleKeyHash(k, d)
        BY <1>1, <2>1, SubtreeCases
      <3>2. QED
        BY <1>1, <3>1, SingleUnfold
    <2>4. CASE k[d] = 1
      <3>1. Child(S, d, 0) = {} /\ Child(S, d, 1) = {k}
        BY <2>1, <2>4 DEF Child
      <3>2. SubtreeHash(Child(S, d, 0), d + 1) = Empties[d + 1]
        BY <1>1, <1>2, <3>1, SubtreeCases
      <3>3. SubtreeHash(Child(S, d, 1), d + 1) = SingleKeyHash(k, d + 1)
        BY <1>1, <1>2, <3>1, SubtreeCases
      <3>4. QED
        BY <2>3, <2>4, <3>2, <3>3 DEF Parent
    <2>5. CASE k[d] = 0
      <3>1. Child(S, d, 1) = {} /\ Child(S, d, 0) = {k}
        BY <2>1, <2>5 DEF Child
      <3>2. SubtreeHash(Child(S, d, 1), d + 1) = Empties[d + 1]
        BY <1>1, <1>2, <3>1, SubtreeCases
      <3>3. SubtreeHash(Child(S, d, 0), d + 1) = SingleKeyHash(k, d + 1)
        BY <1>1, <1>2, <3>1, SubtreeCases
      <3>4. k[d] # 1
        BY <2>5
      <3>5. QED
        BY <2>3, <3>2, <3>3, <3>4 DEF Parent
    <2>6. QED
      BY <2>2, <2>4, <2>5
  <1>5. CASE S # {} /\ \A k \in S : S # {k}
    BY <1>1, <1>5, SubtreeCases
  <1>6. QED
    BY <1>3, <1>4, <1>5

(* Different sets of keys have different subtrees.                         *)
LEMMA SubtreeInjective ==
  ASSUME NEW d \in 0..Depth, NEW S \in Together(d), NEW T \in Together(d),
         SubtreeHash(S, d) = SubtreeHash(T, d)
  PROVE  S = T
  <1> USE DepthAssumption
  <1> DEFINE Clash(e, A, B) == /\ A \in Together(e) /\ B \in Together(e) /\ A # B
                               /\ SubtreeHash(A, e) = SubtreeHash(B, e)
             Bad == {n \in 0..Depth : \E A, B : Clash(Depth - n, A, B)}
  <1>1. SUFFICES ASSUME Bad # {} PROVE FALSE
    <2>1. ASSUME S # T PROVE Depth - d \in Bad
      <3>1. Depth - d \in 0..Depth /\ Depth - (Depth - d) = d
        OBVIOUS
      <3>2. Clash(d, S, T)
        BY <2>1
      <3>3. QED
        BY <3>1, <3>2
    <2>2. QED
      BY <2>1
  <1>2. PICK n \in Bad : \A m \in Bad : n <= m
    <2>1. Bad \in SUBSET Nat
      OBVIOUS
    <2> HIDE DEF Bad
    <2>2. QED
      BY <1>1, <2>1, Least
  <1>3. PICK A, B : Clash(Depth - n, A, B)
    BY <1>2
  <1>4. n \in 0..Depth
    BY <1>2
  <1>5. CASE n = 0
    <2>1. Depth - n = Depth /\ Depth \in 0..Depth
      BY <1>5
    <2>2. A \in Together(Depth) /\ B \in Together(Depth) /\ A # B
          /\ SubtreeHash(A, Depth) = SubtreeHash(B, Depth)
      BY <1>3, <2>1
    <2>3. Empties[Depth] = EmptyTreeRoot
      BY <2>1, EmptiesUnfold
    <2>4. \A k : SingleKeyHash(k, Depth) = LeafHash(k)
      BY <2>1, SingleUnfold
    <2>5. \A S0 \in Together(Depth) :
            \/ S0 = {} /\ SubtreeHash(S0, Depth) = EmptyTreeRoot
            \/ \E k : S0 = {k} /\ SubtreeHash(S0, Depth) = LeafHash(k)
      BY <2>1, <2>3, <2>4, SubtreeCases, TogetherAtDepth
    <2>6. CASE A = {}
      <3>1. B # {} /\ SubtreeHash(A, Depth) = EmptyTreeRoot
        BY <2>2, <2>5, <2>6
      <3>2. PICK k : SubtreeHash(B, Depth) = LeafHash(k)
        BY <2>2, <2>5, <3>1
      <3>3. LeafHash(k) # EmptyTreeRoot
        BY HashesDiffer
      <3>4. QED
        BY <2>2, <3>1, <3>2, <3>3
    <2>7. CASE A # {}
      <3>1. PICK k : A = {k} /\ SubtreeHash(A, Depth) = LeafHash(k)
        BY <2>2, <2>5, <2>7
      <3>2. LeafHash(k) # EmptyTreeRoot
        BY HashesDiffer
      <3>3. SubtreeHash(B, Depth) # EmptyTreeRoot
        BY <2>2, <3>1, <3>2
      <3>4. PICK l : B = {l} /\ SubtreeHash(B, Depth) = LeafHash(l)
        BY <2>2, <2>5, <3>3
      <3>5. k = l
        BY <2>2, <3>1, <3>4, LeafInjective
      <3>6. QED
        BY <2>2, <3>1, <3>4, <3>5
    <2>8. QED
      BY <2>6, <2>7
  <1>6. CASE n # 0
    <2> DEFINE e == Depth - n
    <2>1. /\ e \in 0..Depth - 1 /\ e + 1 = Depth - (n - 1) /\ n - 1 \in 0..Depth
          /\ ~ (n <= n - 1)
      BY <1>4, <1>6
    <2>2. /\ A \in Together(e) /\ B \in Together(e) /\ A # B
          /\ SubtreeHash(A, e) = SubtreeHash(B, e)
      BY <1>3
    <2> HIDE DEF e
    <2>3. ASSUME NEW bit \in 0..1
          PROVE  SubtreeHash(Child(A, e, bit), e + 1) = SubtreeHash(Child(B, e, bit), e + 1)
      <3>1. bit = 0 \/ bit = 1
        OBVIOUS
      <3>2. QED
        BY <2>1, <2>2, <3>1, NodeForm, NodeInjective
    <2>4. PICK bit \in 0..1 : Child(A, e, bit) # Child(B, e, bit)
      <3>1. \A k \in A \cup B : k[e] \in 0..1
        BY <2>1, <2>2 DEF Together, Keys
      <3>2. PICK k : (k \in A /\ k \notin B) \/ (k \in B /\ k \notin A)
        BY <2>2
      <3>3. Child(A, e, k[e]) # Child(B, e, k[e])
        BY <3>2 DEF Child
      <3>4. QED
        BY <3>1, <3>2, <3>3
    <2>5. Clash(e + 1, Child(A, e, bit), Child(B, e, bit))
      BY <2>1, <2>2, <2>3, <2>4, ChildTogether
    <2>6. n - 1 \in Bad
      BY <2>1, <2>5
    <2> HIDE DEF Bad
    <2>7. QED
      BY <1>2, <2>1, <2>6
  <1>7. QED
    BY <1>5, <1>6

(* The root of a tree that holds a key is the hash at its top; the empty   *)
(* tree has a root of its own.                                             *)
LEMMA TreeRootForm ==
  ASSUME NEW S \in SUBSET Keys
  PROVE  /\ S \in Together(0) /\ 0 \in 0..Depth /\ 0 \in 0..Depth - 1
         /\ S # {} => TreeRoot(S) = SubtreeHash(S, 0) /\ TreeRoot(S) # EmptyTreeRoot
         /\ S = {} => TreeRoot(S) = EmptyTreeRoot
         /\ TreeRoot(S) # NoRoot
  <1>1. S \in Together(0) /\ 0 \in 0..Depth /\ 0 \in 0..Depth - 1
    BY DepthAssumption DEF Together
  <1>2. SubtreeHash(S, 0) # EmptyTreeRoot /\ SubtreeHash(S, 0) # NoRoot
    BY <1>1, NodeForm, HashesDiffer
  <1>3. QED
    BY <1>1, <1>2, HashesDiffer DEF TreeRoot

(* Two trees with the same root hold the same keys: the root the vault     *)
(* stores stands for one set of nullifiers.                                *)
THEOREM TreeRootInjective ==
  ASSUME NEW S \in SUBSET Keys, NEW T \in SUBSET Keys, TreeRoot(S) = TreeRoot(T)
  PROVE  S = T
  <1>1. CASE S = {}
    BY <1>1, TreeRootForm
  <1>2. CASE S # {}
    <2>1. T # {} /\ SubtreeHash(S, 0) = SubtreeHash(T, 0)
      BY <1>2, TreeRootForm
    <2>2. S \in Together(0) /\ T \in Together(0) /\ 0 \in 0..Depth
      BY TreeRootForm
    <2>3. QED
      BY <2>1, <2>2, SubtreeInjective
  <1>3. QED
    BY <1>1, <1>2

(***************************************************************************)
(* Folds over a sequence                                                   *)
(***************************************************************************)
LEMMA MaxIsIn ==
  ASSUME NEW n \in Nat, NEW s \in SUBSET (1..n), s # {}
  PROVE  Max(s) \in s /\ \A m \in s : m <= Max(s)
  <1> DEFINE T == {k \in 0..n : \E m \in s : k = n - m}
  <1>1. T \in SUBSET Nat /\ T # {}
    <2>1. PICK m \in s : TRUE
      OBVIOUS
    <2>2. n - m \in T
      BY <2>1
    <2>3. T # {}
      BY <2>2
    <2>4. QED
      BY <2>3
  <1>2. PICK k \in T : \A j \in T : k <= j
    <2> HIDE DEF T
    <2>1. QED
      BY <1>1, Least
  <1>3. PICK m \in s : k = n - m
    BY <1>2
  <1>4. \A j \in s : m >= j
    <2>1. TAKE j \in s
    <2>2. n - j \in T
      OBVIOUS
    <2>3. k <= n - j
      BY <1>2, <2>2
    <2>4. QED
      BY <1>3, <2>3
  <1>5. Max(s) \in s /\ \A j \in s : Max(s) >= j
    BY <1>4 DEF Max
  <1>6. QED
    BY <1>5

LEMMA MaxOfRange ==
  ASSUME NEW n \in Nat, n # 0
  PROVE  Max(1..n) = n /\ (1..n) \ {n} = 1..n - 1
  <1>1. 1..n # {} /\ n \in 1..n
    OBVIOUS
  <1>2. Max(1..n) \in 1..n /\ n <= Max(1..n)
    BY <1>1, MaxIsIn
  <1>3. QED
    BY <1>2

LEMMA BelowMax ==
  ASSUME NEW n \in Nat, n # 0, NEW s \in SUBSET (1..n), s # {}
  PROVE  s \ {Max(s)} \in SUBSET (1..n - 1)
  <1>1. Max(s) \in s /\ \A m \in s : m <= Max(s)
    BY MaxIsIn
  <1>2. ASSUME NEW m \in s, m # Max(s)
        PROVE  m \in 1..n - 1
    <2>1. m \in 1..n /\ Max(s) \in 1..n /\ m <= Max(s)
      BY <1>1
    <2>2. QED
      BY <1>2, <2>1
  <1>3. QED
    BY <1>2

(* A fold whose i-th step is the function F[i] has a value for each set of *)
(* places folded, and the values stay where the functions do.              *)
FoldingStep(F, base, g, s) == IF s = {} THEN base ELSE F[Max(s)][g[s \ {Max(s)}]]
Folding(g, F, base, n) == g = [s \in SUBSET (1..n) |-> FoldingStep(F, base, g, s)]
LEMMA FoldingExists ==
  ASSUME NEW F, NEW base, NEW n \in Nat
  PROVE  \E g : Folding(g, F, base, n)
  <1> DEFINE Step(g, s) == FoldingStep(F, base, g, s)
             Solves(g, k) == g = [s \in SUBSET (1..k) |-> Step(g, s)]
             Bad == {k \in Nat : ~ \E g : Solves(g, k)}
  <1>1. SUFFICES ASSUME Bad # {} PROVE FALSE
    BY DEF Folding
  <1>2. PICK k \in Bad : \A m \in Bad : k <= m
    <2>1. Bad \in SUBSET Nat
      OBVIOUS
    <2> HIDE DEF Bad
    <2>2. QED
      BY <1>1, <2>1, Least
  <1>3. k # 0
    <2>1. SUFFICES ASSUME k = 0 PROVE FALSE
      OBVIOUS
    <2>2. \A s \in SUBSET (1..0) : s = {}
      OBVIOUS
    <2>3. Solves([s \in SUBSET (1..0) |-> base], 0)
      BY <2>2 DEF FoldingStep
    <2>4. QED
      BY <2>1, <2>3
  <1>4. k \in Nat /\ k - 1 \in Nat /\ ~ (k <= k - 1)
    BY <1>2, <1>3
  <1>5. PICK g : Solves(g, k - 1)
    <2>1. k - 1 \notin Bad
      BY <1>2, <1>4
    <2>2. QED
      BY <1>4, <2>1
  <1> DEFINE h == [s \in SUBSET (1..k) |-> Step(g, s)]
  <1>6. \A s \in SUBSET (1..k - 1) : s \in SUBSET (1..k) /\ h[s] = g[s]
    <2> HIDE DEF Step
    <2>1. \A s \in SUBSET (1..k - 1) : s \in SUBSET (1..k)
      BY <1>4
    <2>2. \A s \in SUBSET (1..k - 1) : g[s] = Step(g, s)
      BY <1>5
    <2>3. QED
      BY <2>1, <2>2
  <1>7. \A s \in SUBSET (1..k) : Step(g, s) = Step(h, s)
    <2>1. TAKE s \in SUBSET (1..k)
    <2>2. CASE s = {}
      BY <2>2 DEF FoldingStep
    <2>3. CASE s # {}
      <3>1. s \ {Max(s)} \in SUBSET (1..k - 1)
        BY <1>3, <1>4, <2>3, BelowMax
      <3>2. h[s \ {Max(s)}] = g[s \ {Max(s)}]
        BY <1>6, <3>1
      <3> HIDE DEF h
      <3>3. QED
        BY <3>2 DEF FoldingStep
    <2>4. QED
      BY <2>2, <2>3
  <1>8. Solves(h, k)
    <2> HIDE DEF Step
    <2>1. QED
      BY <1>7
  <1>9. QED
    BY <1>2, <1>8

(* It is enough that the steps are the functions' where they are defined.  *)
FoldsWithin(g, F, base, n, X) ==
  /\ g[{}] = base
  /\ \A s \in SUBSET (1..n) :
       s # {} /\ g[s \ {Max(s)}] \in X => g[s] = F[Max(s)][g[s \ {Max(s)}]]
LEMMA FoldingStays ==
  ASSUME NEW n \in Nat, NEW X, NEW base \in X, NEW F \in [1..n -> [X -> X]],
         NEW g, FoldsWithin(g, F, base, n, X)
  PROVE  \A s \in SUBSET (1..n) : g[s] \in X
  <1> DEFINE Stays(k) == \A s \in SUBSET (1..k) : g[s] \in X
             Bad == {k \in 0..n : ~ Stays(k)}
  <1>1. SUFFICES ASSUME Bad # {} PROVE FALSE
    <2>1. n \in 0..n
      OBVIOUS
    <2>2. Bad = {} => Stays(n)
      BY <2>1
    <2>3. QED
      BY <2>2
  <1>2. PICK k \in Bad : \A m \in Bad : k <= m
    <2>1. Bad \in SUBSET Nat
      OBVIOUS
    <2> HIDE DEF Bad
    <2>2. QED
      BY <1>1, <2>1, Least
  <1>3. k \in 0..n /\ ~ Stays(k)
    <2> HIDE DEF Stays
    <2>1. QED
      BY <1>2
  <1>4. PICK s \in SUBSET (1..k) : g[s] \notin X
    BY <1>3
  <1>5. s \in SUBSET (1..n)
    BY <1>3
  <1>6. s # {}
    BY <1>4 DEF FoldsWithin
  <1>7. k \in Nat /\ k # 0 /\ k - 1 \in 0..n /\ ~ (k <= k - 1)
    <2>1. k \in 0..n
      BY <1>3
    <2>2. k # 0
      <3>1. SUFFICES ASSUME k = 0 PROVE FALSE
        OBVIOUS
      <3>2. s \in SUBSET (1..0) /\ 1..0 = {}
        BY <3>1
      <3>3. QED
        BY <1>6, <3>2
    <2>3. QED
      BY <2>1, <2>2
  <1>8. s \ {Max(s)} \in SUBSET (1..k - 1) /\ Max(s) \in 1..n
    <2>1. Max(s) \in s
      BY <1>6, <1>7, MaxIsIn
    <2>2. QED
      BY <1>5, <1>6, <1>7, <2>1, BelowMax
  <1>9. Stays(k - 1)
    BY <1>2, <1>7
  <1>10. g[s \ {Max(s)}] \in X
    BY <1>8, <1>9
  <1>11. g[s] = F[Max(s)][g[s \ {Max(s)}]]
    BY <1>5, <1>6, <1>10 DEF FoldsWithin
  <1>12. F[Max(s)] \in [X -> X]
    BY <1>8
  <1>13. QED
    BY <1>4, <1>10, <1>11, <1>12

(* The fold's values over the first places, one by one.                    *)
RunOf(run, F, base, n) == run[0] = base /\ \A i \in 1..n : run[i] = F[i][run[i - 1]]
HasRun(g, F, base, n, X) == \E run \in [0..n -> X] : RunOf(run, F, base, n) /\ run[n] = g[1..n]
LEMMA FoldingRun ==
  ASSUME NEW n \in Nat, NEW X, NEW base \in X, NEW F \in [1..n -> [X -> X]],
         NEW g, FoldsWithin(g, F, base, n, X)
  PROVE  HasRun(g, F, base, n, X)
  <1> DEFINE run == [i \in 0..n |-> g[1..i]]
  <1>1. \A s \in SUBSET (1..n) : g[s] \in X
    BY FoldingStays
  <1>2. \A i \in 0..n : 1..i \in SUBSET (1..n)
    OBVIOUS
  <1>3. run \in [0..n -> X]
    BY <1>1, <1>2
  <1>4. run[0] = base
    <2>1. 1..0 = {} /\ 0 \in 0..n
      OBVIOUS
    <2>2. QED
      BY <2>1 DEF FoldsWithin
  <1>5. \A i \in 1..n : run[i] = F[i][run[i - 1]]
    <2>1. TAKE i \in 1..n
    <2>2. i \in Nat /\ i # 0 /\ i \in 0..n /\ i - 1 \in 0..n
      OBVIOUS
    <2>3. Max(1..i) = i /\ (1..i) \ {i} = 1..i - 1
      BY <2>2, MaxOfRange
    <2>4. 1..i \in SUBSET (1..n) /\ 1..i # {}
      <3>1. i \in 1..i
        BY <2>2
      <3>2. QED
        BY <1>2, <2>2, <3>1
    <2>5. g[1..i - 1] \in X
      BY <1>1, <1>2, <2>2
    <2>6. (1..i) \ {Max(1..i)} = 1..i - 1
      BY <2>3
    <2>7. g[1..i] = F[Max(1..i)][g[(1..i) \ {Max(1..i)}]]
      BY <2>4, <2>5, <2>6 DEF FoldsWithin
    <2>8. g[1..i] = F[i][g[1..i - 1]]
      BY <2>3, <2>6, <2>7
    <2>9. run[i] = g[1..i] /\ run[i - 1] = g[1..i - 1]
      BY <2>2
    <2>10. QED
      BY <2>8, <2>9
  <1>6. run[n] = g[1..n]
    OBVIOUS
  <1> HIDE DEF run
  <1>7. QED
    BY <1>3, <1>4, <1>5, <1>6 DEF RunOf, HasRun

LEMMA FoldingWithin ==
  ASSUME NEW F, NEW base, NEW n \in Nat, NEW X, NEW g, Folding(g, F, base, n)
  PROVE  FoldsWithin(g, F, base, n, X)
  <1>1. \A s \in SUBSET (1..n) : g[s] = FoldingStep(F, base, g, s)
    BY DEF Folding
  <1>2. {} \in SUBSET (1..n)
    OBVIOUS
  <1>3. QED
    BY <1>1, <1>2 DEF FoldsWithin, FoldingStep

(* The fold of the steps of a witness, from the deepest up.                *)
RiseStep(key, hash, steps, g, s) ==
  IF s = {} THEN hash
  ELSE Parent(key, steps[Max(s)].depth, g[s \ {Max(s)}], steps[Max(s)].sibling)
Rise(g, key, hash, steps, n) == g = [s \in SUBSET (1..n) |-> RiseStep(key, hash, steps, g, s)]

LEMMA RiseExists ==
  ASSUME NEW key, NEW hash, NEW steps, NEW n \in Nat
  PROVE  \E g : Rise(g, key, hash, steps, n)
  <1> DEFINE Solves(g, k) == g = [s \in SUBSET (1..k) |-> RiseStep(key, hash, steps, g, s)]
             Bad == {k \in Nat : ~ \E g : Solves(g, k)}
  <1>1. SUFFICES ASSUME Bad # {} PROVE FALSE
    BY DEF Rise
  <1>2. PICK k \in Bad : \A m \in Bad : k <= m
    <2>1. Bad \in SUBSET Nat
      OBVIOUS
    <2> HIDE DEF Bad
    <2>2. QED
      BY <1>1, <2>1, Least
  <1>3. k # 0
    <2>1. SUFFICES ASSUME k = 0 PROVE FALSE
      OBVIOUS
    <2>2. \A s \in SUBSET (1..0) : s = {}
      OBVIOUS
    <2>3. Solves([s \in SUBSET (1..0) |-> hash], 0)
      BY <2>2 DEF RiseStep
    <2>4. QED
      BY <2>1, <2>3
  <1>4. k \in Nat /\ k - 1 \in Nat /\ ~ (k <= k - 1)
    BY <1>2, <1>3
  <1>5. PICK g : Solves(g, k - 1)
    <2>1. k - 1 \notin Bad
      BY <1>2, <1>4
    <2>2. QED
      BY <1>4, <2>1
  <1> DEFINE h == [s \in SUBSET (1..k) |-> RiseStep(key, hash, steps, g, s)]
  <1>6. \A s \in SUBSET (1..k - 1) : s \in SUBSET (1..k) /\ h[s] = g[s]
    <2>1. \A s \in SUBSET (1..k - 1) : s \in SUBSET (1..k)
      BY <1>4
    <2>2. \A s \in SUBSET (1..k - 1) : g[s] = RiseStep(key, hash, steps, g, s)
      BY <1>5
    <2>3. QED
      BY <2>1, <2>2
  <1>7. \A s \in SUBSET (1..k) : RiseStep(key, hash, steps, g, s) = RiseStep(key, hash, steps, h, s)
    <2>1. TAKE s \in SUBSET (1..k)
    <2>2. CASE s = {}
      BY <2>2 DEF RiseStep
    <2>3. CASE s # {}
      <3>1. s \ {Max(s)} \in SUBSET (1..k - 1)
        BY <1>3, <1>4, <2>3, BelowMax
      <3>2. h[s \ {Max(s)}] = g[s \ {Max(s)}]
        BY <1>6, <3>1
      <3> HIDE DEF h
      <3>3. QED
        BY <3>2 DEF RiseStep
    <2>4. QED
      BY <2>2, <2>3
  <1>8. Solves(h, k)
    BY <1>7
  <1>9. QED
    BY <1>2, <1>8

(* The hashes on the way up, from the terminal's to the root.              *)
Rises(up, key, hash, steps, n) ==
  /\ up[0] = hash
  /\ \A i \in 1..n : up[i] = Parent(key, steps[i].depth, up[i - 1], steps[i].sibling)
LEMMA FoldStepsUnfold ==
  ASSUME NEW key, NEW hash, NEW steps, NEW n \in Nat, DOMAIN steps = 1..n
  PROVE  \E up : Rises(up, key, hash, steps, n) /\ FoldSteps(key, hash, steps) = up[n]
  <1> DEFINE iter == CHOOSE g : Rise(g, key, hash, steps, n)
  <1>1. iter = [s \in SUBSET (1..n) |-> RiseStep(key, hash, steps, iter, s)]
    <2>1. \E g : Rise(g, key, hash, steps, n)
      BY RiseExists
    <2>2. Rise(iter, key, hash, steps, n)
      BY <2>1
    <2> HIDE DEF iter
    <2>3. QED
      BY <2>2 DEF Rise
  <1>2. FoldSteps(key, hash, steps) = iter[1..n]
    BY DEF FoldSteps, FoldLeft, MapThenFoldSet, RiseStep, Rise
  <1> HIDE DEF iter
  <1> DEFINE up == [i \in 0..n |-> iter[1..i]]
  <1>3. up[0] = hash
    <2>1. 1..0 = {} /\ 1..0 \in SUBSET (1..n) /\ 0 \in 0..n
      OBVIOUS
    <2>2. iter[1..0] = hash
      BY <1>1, <2>1 DEF RiseStep
    <2>3. QED
      BY <2>1, <2>2
  <1>4. \A i \in 1..n : up[i] = Parent(key, steps[i].depth, up[i - 1], steps[i].sibling)
    <2>1. TAKE i \in 1..n
    <2>2. i \in Nat /\ i # 0 /\ i \in 0..n /\ i - 1 \in 0..n
      OBVIOUS
    <2>3. Max(1..i) = i /\ (1..i) \ {i} = 1..i - 1
      BY <2>2, MaxOfRange
    <2>4. 1..i \in SUBSET (1..n) /\ 1..i # {}
      BY <2>2
    <2>5. iter[1..i] = RiseStep(key, hash, steps, iter, 1..i)
      BY <1>1, <2>4
    <2>6. iter[1..i] = Parent(key, steps[i].depth, iter[1..i - 1], steps[i].sibling)
      BY <2>3, <2>4, <2>5 DEF RiseStep
    <2>7. QED
      BY <2>2, <2>6
  <1>5. up[n] = iter[1..n]
    OBVIOUS
  <1> HIDE DEF up
  <1>6. QED
    BY <1>2, <1>3, <1>4, <1>5 DEF Rises

(***************************************************************************)
(* The path of a key: the keys that share its bits above a depth, and      *)
(* those of them that part from it there                                   *)
(***************************************************************************)
On(S, key, d) == {k \in S : \A e \in 0..d - 1 : k[e] = key[e]}
Off(S, key, d) == {k \in On(S, key, d) : k[d] # key[d]}

LEMMA OnTogether ==
  ASSUME NEW S \in SUBSET Keys, NEW key, NEW d \in Nat
  PROVE  On(S, key, d) \in Together(d)
  BY DEF On, Together

LEMMA OffTogether ==
  ASSUME NEW S \in SUBSET Keys, NEW key \in Keys, NEW d \in 0..Depth - 1
  PROVE  Off(S, key, d) \in Together(d + 1)
  <1> DEFINE R == Off(S, key, d)
  <1>1. R \in SUBSET Keys /\ \A k \in R : k[d] # key[d] /\ \A e \in 0..d - 1 : k[e] = key[e]
    BY DEF On, Off
  <1>2. key[d] \in 0..1 /\ \A k \in R : k[d] \in 0..1
    BY <1>1 DEF Keys
  <1>3. \A e \in 0..(d + 1) - 1 : e \in 0..d - 1 \/ e = d
    OBVIOUS
  <1> HIDE DEF R
  <1>4. \A k, l \in R : k[d] = l[d]
    BY <1>1, <1>2
  <1>5. \A k, l \in R : \A e \in 0..(d + 1) - 1 : k[e] = l[e]
    BY <1>1, <1>3, <1>4
  <1>6. QED
    BY <1>1, <1>5 DEF Together, R

(* A subtree on key's path, from the next one and the one that parts.      *)
LEMMA PathForm ==
  ASSUME NEW S \in SUBSET Keys, NEW key \in Keys, NEW d \in 0..Depth - 1
  PROVE  SubtreeHash(On(S, key, d), d) =
           Parent(key, d, SubtreeHash(On(S, key, d + 1), d + 1), SubtreeHash(Off(S, key, d), d + 1))
  <1> DEFINE R == On(S, key, d)
  <1>1. d \in Nat
    OBVIOUS
  <1>2. R \in Together(d)
    BY <1>1, OnTogether
  <1>3. key[d] \in 0..1 /\ \A k \in R : k[d] \in 0..1
    BY DEF Keys, On
  <1>4. Child(R, d, key[d]) = On(S, key, d + 1)
    <2>1. \A k : (\A e \in 0..(d + 1) - 1 : k[e] = key[e]) <=>
                   (\A e \in 0..d - 1 : k[e] = key[e]) /\ k[d] = key[d]
      <3>1. \A e \in 0..(d + 1) - 1 : e \in 0..d - 1 \/ e = d
        OBVIOUS
      <3>2. d \in 0..(d + 1) - 1 /\ \A e \in 0..d - 1 : e \in 0..(d + 1) - 1
        OBVIOUS
      <3>3. QED
        BY <3>1, <3>2
    <2>2. QED
      BY <2>1 DEF Child, On
  <1>5. ASSUME NEW bit \in 0..1, bit # key[d]
        PROVE  Child(R, d, bit) = Off(S, key, d)
    BY <1>3, <1>5 DEF Child, Off
  <1> HIDE DEF R
  <1>6. SubtreeHash(R, d) = NodeHash(d, SubtreeHash(Child(R, d, 0), d + 1),
                                        SubtreeHash(Child(R, d, 1), d + 1))
    BY <1>2, NodeForm
  <1>7. CASE key[d] = 1
    <2>1. Child(R, d, 1) = On(S, key, d + 1) /\ Child(R, d, 0) = Off(S, key, d)
      BY <1>4, <1>5, <1>7
    <2>2. QED
      BY <1>6, <1>7, <2>1 DEF Parent, R
  <1>8. CASE key[d] = 0
    <2>1. Child(R, d, 0) = On(S, key, d + 1) /\ Child(R, d, 1) = Off(S, key, d)
      BY <1>4, <1>5, <1>8
    <2>2. key[d] # 1
      BY <1>8
    <2>3. QED
      BY <1>6, <2>1, <2>2 DEF Parent, R
  <1>9. QED
    BY <1>3, <1>7, <1>8

(* The steps of a path to depth n, and the siblings of the tree of S.      *)
Contiguous(steps, n) == \A i \in 1..n : steps[i].depth = n - i
Siblings(S, key, steps, n) ==
  \A i \in 1..n : steps[i].sibling = SubtreeHash(Off(S, key, n - i), n - i + 1)

(* With the tree's siblings the path leads from the subtree at its         *)
(* terminal to the tree.                                                   *)
LEMMA Ascend ==
  ASSUME NEW S \in SUBSET Keys, NEW key \in Keys, NEW n \in 0..Depth, NEW hash, NEW steps, NEW up,
         Rises(up, key, hash, steps, n), Contiguous(steps, n), Siblings(S, key, steps, n),
         hash = SubtreeHash(On(S, key, n), n)
  PROVE  up[n] = SubtreeHash(S, 0)
  <1> USE DepthAssumption
  <1> DEFINE Right(i) == up[i] = SubtreeHash(On(S, key, n - i), n - i)
             Bad == {i \in 0..n : ~ Right(i)}
  <1>1. Bad = {}
    <2>1. SUFFICES ASSUME Bad # {} PROVE FALSE
      OBVIOUS
    <2>2. PICK i \in Bad : \A j \in Bad : i <= j
      <3>1. Bad \in SUBSET Nat
        OBVIOUS
      <3> HIDE DEF Bad
      <3>2. QED
        BY <2>1, <3>1, Least
    <2>3. i # 0
      <3>1. n - 0 = n /\ up[0] = hash
        BY DEF Rises
      <3>2. Right(0)
        BY <3>1
      <3>3. QED
        BY <2>2, <3>2
    <2>4. i \in 0..n /\ i \in 1..n /\ i - 1 \in 0..n /\ ~ (i <= i - 1)
      BY <2>2, <2>3
    <2>5. Right(i - 1)
      BY <2>2, <2>4
    <2> DEFINE d == n - i
    <2>6. d \in 0..Depth - 1 /\ n - (i - 1) = d + 1
      BY <2>4
    <2>7. up[i - 1] = SubtreeHash(On(S, key, d + 1), d + 1)
      BY <2>5, <2>6
    <2>8. steps[i].depth = d /\ steps[i].sibling = SubtreeHash(Off(S, key, d), d + 1)
      BY <2>4 DEF Contiguous, Siblings
    <2>9. up[i] = Parent(key, d, up[i - 1], steps[i].sibling)
      BY <2>4, <2>8 DEF Rises
    <2> HIDE DEF d
    <2>10. up[i] = SubtreeHash(On(S, key, d), d)
      BY <2>6, <2>7, <2>8, <2>9, PathForm
    <2>11. QED
      BY <2>2, <2>10 DEF d
  <1>2. Right(n)
    BY <1>1
  <1>3. On(S, key, n - n) = S /\ n - n = 0
    BY DEF On
  <1>4. QED
    BY <1>2, <1>3

(* And a path that leads to the tree, from whatever terminal and with      *)
(* whatever siblings, leads from the tree's subtree and has its siblings.  *)
LEMMA Descend ==
  ASSUME NEW S \in SUBSET Keys, NEW key \in Keys, NEW n \in 0..Depth, NEW hash, NEW steps, NEW up,
         Rises(up, key, hash, steps, n), Contiguous(steps, n), up[n] = SubtreeHash(S, 0)
  PROVE  hash = SubtreeHash(On(S, key, n), n) /\ Siblings(S, key, steps, n)
  <1> USE DepthAssumption
  <1> DEFINE Right(d) == up[n - d] = SubtreeHash(On(S, key, d), d)
             Bad == {d \in 0..n : ~ Right(d)}
  <1>1. ASSUME NEW d \in 0..n - 1, Right(d)
        PROVE  Right(d + 1) /\ steps[n - d].sibling = SubtreeHash(Off(S, key, d), d + 1)
    <2>1. /\ d \in 0..Depth - 1 /\ n - d \in 1..n /\ n - (n - d) = d
          /\ (n - d) - 1 = n - (d + 1)
      OBVIOUS
    <2>2. up[n - d] = Parent(key, d, up[n - (d + 1)], steps[n - d].sibling)
      BY <2>1 DEF Rises, Contiguous
    <2>3. up[n - d] = Parent(key, d, SubtreeHash(On(S, key, d + 1), d + 1),
                                     SubtreeHash(Off(S, key, d), d + 1))
      BY <1>1, <2>1, PathForm
    <2>4. Parent(key, d, up[n - (d + 1)], steps[n - d].sibling)
            = Parent(key, d, SubtreeHash(On(S, key, d + 1), d + 1),
                             SubtreeHash(Off(S, key, d), d + 1))
      BY <2>2, <2>3
    <2>5. /\ up[n - (d + 1)] = SubtreeHash(On(S, key, d + 1), d + 1)
          /\ steps[n - d].sibling = SubtreeHash(Off(S, key, d), d + 1)
      BY <2>4, ParentInjective
    <2>6. QED
      BY <2>5
  <1>2. Bad = {}
    <2>1. SUFFICES ASSUME Bad # {} PROVE FALSE
      OBVIOUS
    <2>2. PICK d \in Bad : \A j \in Bad : d <= j
      <3>1. Bad \in SUBSET Nat
        OBVIOUS
      <3> HIDE DEF Bad
      <3>2. QED
        BY <2>1, <3>1, Least
    <2>3. d # 0
      <3>1. On(S, key, 0) = S /\ n - 0 = n
        BY DEF On
      <3>2. Right(0)
        BY <3>1
      <3>3. QED
        BY <2>2, <3>2
    <2>4. d - 1 \in 0..n /\ ~ (d <= d - 1) /\ d - 1 \in 0..n - 1 /\ (d - 1) + 1 = d
      BY <2>2, <2>3
    <2>5. Right(d - 1)
      BY <2>2, <2>4
    <2>6. Right(d)
      <3> HIDE DEF Right, Bad
      <3>1. QED
        BY <1>1, <2>4, <2>5
    <2>7. QED
      BY <2>2, <2>6
  <1>3. \A d \in 0..n : Right(d)
    BY <1>2
  <1>4. hash = SubtreeHash(On(S, key, n), n)
    <2>1. Right(n) /\ n - n = 0 /\ up[0] = hash
      BY <1>3 DEF Rises
    <2>2. QED
      BY <2>1
  <1>5. ASSUME NEW i \in 1..n
        PROVE  steps[i].sibling = SubtreeHash(Off(S, key, n - i), n - i + 1)
    <2>1. n - i \in 0..n - 1 /\ n - i \in 0..n /\ n - (n - i) = i
      OBVIOUS
    <2> HIDE DEF Right, Bad
    <2>2. steps[n - (n - i)].sibling = SubtreeHash(Off(S, key, n - i), (n - i) + 1)
      BY <1>1, <1>3, <2>1
    <2>3. QED
      BY <2>1, <2>2
  <1>6. QED
    BY <1>4, <1>5 DEF Siblings

(***************************************************************************)
(* Witnesses                                                               *)
(***************************************************************************)
IsPath(steps) == /\ \E T : steps \in Seq(T)
                 /\ \A i \in DOMAIN steps : steps[i].depth \in Int

LEMMA WellFormedPath ==
  ASSUME NEW steps, IsPath(steps), steps # <<>>, WellFormed(steps)
  PROVE  /\ Len(steps) \in 0..Depth /\ Len(steps) # 0
         /\ DOMAIN steps = 1..Len(steps)
         /\ Contiguous(steps, Len(steps))
         /\ TerminalDepth(steps) = Len(steps)
  <1> USE DepthAssumption
  <1> DEFINE n == Len(steps)
  <1>1. n \in Nat /\ n # 0 /\ DOMAIN steps = 1..n
    BY DEF IsPath
  <1>2. n <= Depth /\ (\A i \in 1..n : steps[i].depth = steps[1].depth - (i - 1)) /\ steps[n].depth = 0
    BY <1>1 DEF WellFormed
  <1>3. 1 \in 1..n /\ n \in 1..n /\ steps[1].depth \in Int
    BY <1>1 DEF IsPath
  <1> HIDE DEF n
  <1>4. steps[1].depth = n - 1
    BY <1>1, <1>2, <1>3
  <1>5. \A i \in 1..n : steps[i].depth = n - i
    BY <1>1, <1>2, <1>4
  <1>6. QED
    BY <1>1, <1>2, <1>4, <1>5 DEF Contiguous, TerminalDepth, n

(* The root a witness describes.                                           *)
LEMMA RebuildCases ==
  ASSUME NEW key, NEW w
  PROVE  /\ w.terminal # "empty" => RebuildAbsentRoot(key, w) = NoRoot
         /\ w.terminal = "empty" /\ w.steps = <<>> => RebuildAbsentRoot(key, w) = EmptyTreeRoot
         /\ w.terminal = "empty" /\ w.steps # <<>> /\ WellFormed(w.steps) =>
              RebuildAbsentRoot(key, w) = FoldSteps(key, Empties[TerminalDepth(w.steps)], w.steps)
         /\ w.terminal = "empty" /\ w.steps # <<>> /\ ~ WellFormed(w.steps) =>
              RebuildAbsentRoot(key, w) = NoRoot
  <1>1. w.terminal # "empty" => RebuildAbsentRoot(key, w) = NoRoot
    BY Zenon DEF RebuildAbsentRoot
  <1>2. w.terminal = "empty" /\ w.steps = <<>> => RebuildAbsentRoot(key, w) = EmptyTreeRoot
    BY Zenon DEF RebuildAbsentRoot
  <1>3. w.terminal = "empty" /\ w.steps # <<>> /\ WellFormed(w.steps) =>
          RebuildAbsentRoot(key, w) = FoldSteps(key, Empties[TerminalDepth(w.steps)], w.steps)
    BY Zenon DEF RebuildAbsentRoot
  <1>4. w.terminal = "empty" /\ w.steps # <<>> /\ ~ WellFormed(w.steps) =>
          RebuildAbsentRoot(key, w) = NoRoot
    BY Zenon DEF RebuildAbsentRoot
  <1>5. QED
    BY <1>1, <1>2, <1>3, <1>4

(* A subtree of one key is that key's.                                     *)
LEMMA SubtreeOfOne ==
  ASSUME NEW key \in Keys, NEW d \in 0..Depth
  PROVE  {key} \in Together(d) /\ SubtreeHash({key}, d) = SingleKeyHash(key, d)
  <1>1. {key} \in Together(d)
    BY DEF Together
  <1>2. QED
    BY <1>1, SubtreeCases

(* No witness, honest or not, shows a key absent that is there, and an     *)
(* insertion it allows leads to the tree that holds the key too.           *)
THEOREM NonMembershipSound ==
  ASSUME NEW S \in SUBSET Keys, NEW key \in Keys, NEW w, IsPath(w.steps),
         VerifyNonMember(TreeRoot(S), key, w)
  PROVE  key \notin S /\ Insert(TreeRoot(S), key, w) = TreeRoot(S \cup {key})
  <1> USE DepthAssumption
  <1> DEFINE T == S \cup {key}
  <1>1. T \in SUBSET Keys /\ T # {}
    OBVIOUS
  <1>2. TreeRoot(T) = SubtreeHash(T, 0)
    BY <1>1, TreeRootForm
  <1>3. RebuildAbsentRoot(key, w) # NoRoot /\ RebuildAbsentRoot(key, w) = TreeRoot(S)
    BY DEF VerifyNonMember
  <1>4. w.terminal = "empty"
    BY <1>3, RebuildCases
  <1>5. Insert(TreeRoot(S), key, w) =
          IF w.steps = <<>> THEN SingleKeyHash(key, 0)
          ELSE FoldSteps(key, SingleKeyHash(key, TerminalDepth(w.steps)), w.steps)
    BY DEF Insert
  <1>6. CASE w.steps = <<>>
    <2>1. TreeRoot(S) = EmptyTreeRoot
      BY <1>3, <1>4, <1>6, RebuildCases
    <2>2. S = {}
      BY <2>1, TreeRootForm
    <2>3. T = {key} /\ 0 \in 0..Depth
      BY <2>2
    <2> HIDE DEF T
    <2>4. QED
      BY <1>2, <1>5, <1>6, <2>2, <2>3, SubtreeOfOne DEF T
  <1>7. CASE w.steps # <<>>
    <2> DEFINE n == Len(w.steps)
    <2>1. WellFormed(w.steps)
      BY <1>3, <1>4, <1>7, RebuildCases
    <2>2. /\ n \in 0..Depth /\ n # 0 /\ DOMAIN w.steps = 1..n
          /\ Contiguous(w.steps, n) /\ TerminalDepth(w.steps) = n
      BY <1>7, <2>1, WellFormedPath
    <2> HIDE DEF n
    <2>3. n \in Nat /\ n \in 1..n
      BY <2>2
    <2>4. FoldSteps(key, Empties[n], w.steps) = TreeRoot(S)
      BY <1>3, <1>4, <1>7, <2>1, <2>2, RebuildCases
    <2>5. PICK up : Rises(up, key, Empties[n], w.steps, n) /\ TreeRoot(S) = up[n]
      BY <2>2, <2>3, <2>4, FoldStepsUnfold
    <2>6. S # {}
      <3>1. up[n] # EmptyTreeRoot
        BY <2>3, <2>5, ParentIsNode DEF Rises
      <3>2. QED
        BY <2>5, <3>1, TreeRootForm
    <2>7. up[n] = SubtreeHash(S, 0)
      BY <2>5, <2>6, TreeRootForm
    <2>8. Empties[n] = SubtreeHash(On(S, key, n), n) /\ Siblings(S, key, w.steps, n)
      BY <2>2, <2>5, <2>7, Descend
    <2>9. On(S, key, n) = {}
      <3>1. {} \in Together(n) /\ On(S, key, n) \in Together(n)
        BY <2>3, OnTogether DEF Together
      <3>2. SubtreeHash({}, n) = Empties[n]
        BY <2>2, <3>1, SubtreeCases
      <3>3. QED
        BY <2>2, <2>8, <3>1, <3>2, SubtreeInjective
    <2>10. key \notin S
      BY <2>9 DEF On
    <2>11. On(T, key, n) = {key}
      BY <2>9 DEF On
    <2>12. Siblings(T, key, w.steps, n)
      <3>1. \A d : Off(T, key, d) = Off(S, key, d)
        BY DEF On, Off
      <3>2. QED
        BY <2>8, <3>1 DEF Siblings
    <2>13. SingleKeyHash(key, n) = SubtreeHash(On(T, key, n), n)
      BY <2>2, <2>11, SubtreeOfOne
    <2>14. PICK above : /\ Rises(above, key, SingleKeyHash(key, n), w.steps, n)
                        /\ FoldSteps(key, SingleKeyHash(key, n), w.steps) = above[n]
      BY <2>2, <2>3, FoldStepsUnfold
    <2>15. above[n] = SubtreeHash(T, 0)
      <3> HIDE DEF T
      <3>1. QED
        BY <1>1, <2>2, <2>12, <2>13, <2>14, Ascend
    <2>16. QED
      BY <1>2, <1>5, <1>7, <2>2, <2>10, <2>14, <2>15
  <1>8. QED
    BY <1>6, <1>7

(* The first bit two keys differ in.                                       *)
LEMMA FirstDiffers ==
  ASSUME NEW key \in Keys, NEW k \in Keys, k # key
  PROVE  /\ FirstDifferingBit(key, k) \in 0..Depth - 1
         /\ k[FirstDifferingBit(key, k)] # key[FirstDifferingBit(key, k)]
         /\ \A e \in 0..FirstDifferingBit(key, k) - 1 : k[e] = key[e]
  <1> USE DepthAssumption
  <1> DEFINE T == {d \in 0..Depth - 1 : k[d] # key[d]}
  <1>1. T # {}
    <2>1. key = [e \in 0..Depth - 1 |-> key[e]] /\ k = [e \in 0..Depth - 1 |-> k[e]]
      BY DEF Keys
    <2>2. \E d \in 0..Depth - 1 : k[d] # key[d]
      BY <2>1, Zenon
    <2>3. QED
      BY <2>2
  <1>2. T \in SUBSET Nat
    OBVIOUS
  <1>3. PICK d \in T : \A e \in T : d <= e
    <2> HIDE DEF T
    <2>1. QED
      BY <1>1, <1>2, Least
  <1>4. \A e \in 0..d - 1 : key[e] = k[e]
    <2>1. TAKE e \in 0..d - 1
    <2>2. e \in 0..Depth - 1 /\ ~ (d <= e)
      OBVIOUS
    <2>3. QED
      BY <1>3, <2>2
  <1>5. d \in 0..Depth - 1 /\ key[d] # k[d]
    BY <1>3
  <1>6. /\ FirstDifferingBit(key, k) \in 0..Depth - 1
        /\ key[FirstDifferingBit(key, k)] # k[FirstDifferingBit(key, k)]
        /\ \A e \in 0..FirstDifferingBit(key, k) - 1 : key[e] = k[e]
    BY <1>4, <1>5 DEF FirstDifferingBit
  <1>7. QED
    BY <1>6

(* The keys that part from the path at a depth are those that differ       *)
(* there first.                                                            *)
LEMMA PartingKeys ==
  ASSUME NEW S \in SUBSET Keys, NEW key \in Keys \ S, NEW d \in 0..Depth - 1
  PROVE  {k \in S : FirstDifferingBit(key, k) = d} = Off(S, key, d)
  <1>1. ASSUME NEW k \in S
        PROVE  FirstDifferingBit(key, k) = d <=> k[d] # key[d] /\ \A e \in 0..d - 1 : k[e] = key[e]
    <2> DEFINE f == FirstDifferingBit(key, k)
    <2>1. f \in 0..Depth - 1 /\ k[f] # key[f] /\ \A e \in 0..f - 1 : k[e] = key[e]
      BY FirstDiffers
    <2> HIDE DEF f
    <2>2. ASSUME k[d] # key[d], \A e \in 0..d - 1 : k[e] = key[e] PROVE f = d
      <3>1. ~ (d \in 0..f - 1) /\ ~ (f \in 0..d - 1)
        BY <2>1, <2>2
      <3>2. QED
        BY <2>1, <3>1
    <2>3. QED
      BY <2>1, <2>2 DEF f
  <1>2. QED
    BY <1>1 DEF On, Off

LEMMA DeepestParts ==
  ASSUME NEW S \in SUBSET Keys, NEW key \in Keys \ S, S # {}
  PROVE  /\ DeepestStep(S, key) \in 0..Depth - 1
         /\ \A k \in S : FirstDifferingBit(key, k) <= DeepestStep(S, key)
  <1> USE DepthAssumption
  <1> DEFINE F == {FirstDifferingBit(key, k) : k \in S}
             T == {j \in 0..Depth - 1 : Depth - 1 - j \in F}
  <1>1. F \in SUBSET (0..Depth - 1) /\ F # {}
    BY FirstDiffers
  <1>2. T \in SUBSET Nat /\ T # {}
    <2> HIDE DEF F
    <2>1. PICK f \in F : TRUE
      BY <1>1
    <2>2. Depth - 1 - f \in T
      BY <1>1, <2>1
    <2>3. T \in SUBSET Nat
      OBVIOUS
    <2> HIDE DEF T
    <2>4. QED
      BY <2>2, <2>3
  <1>3. PICK j \in T : \A i \in T : j <= i
    <2> HIDE DEF T
    <2>1. QED
      BY <1>2, Least
  <1>4. \A f \in F : f <= Depth - 1 - j
    <2> HIDE DEF F
    <2>1. TAKE f \in F
    <2>2. Depth - 1 - f \in T /\ f \in 0..Depth - 1
      BY <1>1
    <2>3. j <= Depth - 1 - f /\ j \in 0..Depth - 1
      BY <1>3, <2>2
    <2>4. QED
      BY <2>2, <2>3
  <1>5. Depth - 1 - j \in F
    BY <1>3
  <1>6. \E d \in F : \A k \in S : FirstDifferingBit(key, k) <= d
    BY <1>4, <1>5
  <1>7. DeepestStep(S, key) = CHOOSE d \in F : \A k \in S : FirstDifferingBit(key, k) <= d
    BY DEF DeepestStep
  <1>8. DeepestStep(S, key) \in F /\ \A k \in S : FirstDifferingBit(key, k) <= DeepestStep(S, key)
    <2> HIDE DEF F
    <2>1. QED
      BY <1>6, <1>7
  <1>9. QED
    BY <1>1, <1>8

(* Every key that is not in the tree has a witness that verifies.          *)
THEOREM NonMembershipComplete ==
  ASSUME NEW S \in SUBSET Keys, NEW key \in Keys \ S
  PROVE  /\ IsPath(NonMembershipWitness(S, key).steps)
         /\ VerifyNonMember(TreeRoot(S), key, NonMembershipWitness(S, key))
  <1> USE DepthAssumption
  <1> DEFINE w == NonMembershipWitness(S, key)
             n == DeepestStep(S, key) + 1
             Sibling(d) == SubtreeHash({k \in S : FirstDifferingBit(key, k) = d}, d + 1)
  <1>1. w.terminal = "empty"
        /\ w.steps = [i \in 1..n |-> [depth |-> n - i, sibling |-> Sibling(n - i)]]
    <2> DEFINE last == DeepestStep(S, key)
    <2>1. w = [terminal |-> "empty",
               steps |-> [i \in 1..n |-> [depth |-> last + 1 - i, sibling |-> Sibling(last + 1 - i)]]]
      BY Zenon DEF NonMembershipWitness
    <2>2. last \in Int
      <3>1. S = {} => last = -1
        BY DEF DeepestStep
      <3>2. S # {} => last \in 0..Depth - 1
        BY DeepestParts
      <3> HIDE DEF last
      <3>3. QED
        BY <3>1, <3>2
    <2> HIDE DEF w, Sibling, last
    <2>3. \A i \in 1..n : last + 1 - i = n - i
      BY <2>2 DEF last
    <2> HIDE DEF n
    <2>4. QED
      BY <2>1, <2>3
  <1>2. CASE S = {}
    <2>1. n = 0 /\ 1..n = {}
      BY <1>2 DEF DeepestStep
    <2> HIDE DEF n
    <2>2. w.steps = <<>>
      BY <1>1, <2>1
    <2> HIDE DEF w
    <2>3. RebuildAbsentRoot(key, w) = EmptyTreeRoot
      BY <1>1, <2>2, RebuildCases
    <2>4. VerifyNonMember(TreeRoot(S), key, w)
      BY <1>2, <2>3, TreeRootForm, HashesDiffer DEF VerifyNonMember
    <2>5. IsPath(w.steps)
      <3>1. <<>> \in Seq({}) /\ DOMAIN <<>> = {}
        OBVIOUS
      <3>2. QED
        BY <2>2, <3>1 DEF IsPath
    <2>6. QED
      BY <2>4, <2>5 DEF w
  <1>3. CASE S # {}
    <2>1. /\ n \in 0..Depth /\ n # 0
          /\ \A k \in S : FirstDifferingBit(key, k) <= n - 1
      BY <1>3, DeepestParts
    <2>2. On(S, key, n) = {}
      <3>1. ASSUME NEW k \in S PROVE \E e \in 0..n - 1 : k[e] # key[e]
        <4>1. /\ FirstDifferingBit(key, k) \in 0..Depth - 1
              /\ k[FirstDifferingBit(key, k)] # key[FirstDifferingBit(key, k)]
          BY FirstDiffers
        <4>2. FirstDifferingBit(key, k) \in 0..n - 1
          BY <2>1, <4>1
        <4>3. QED
          BY <4>1, <4>2
      <3>2. QED
        BY <3>1 DEF On
    <2> HIDE DEF n
    <2>3. n \in Nat /\ n \in 1..n
      BY <2>1
    <2>4. /\ DOMAIN w.steps = 1..n
          /\ \A i \in 1..n : w.steps[i].depth = n - i /\ w.steps[i].sibling = Sibling(n - i)
      BY <1>1
    <2> HIDE DEF w
    <2>5. IsPath(w.steps) /\ Len(w.steps) = n
      <3>1. w.steps = [i \in 1..n |-> w.steps[i]]
        BY <1>1
      <3>2. w.steps \in Seq({w.steps[i] : i \in 1..n})
        BY <2>3, <3>1
      <3>3. Len(w.steps) = n
        BY <2>3, <2>4, <3>2
      <3>4. \A i \in 1..n : n - i \in Int
        BY <2>3
      <3>5. QED
        BY <2>4, <3>2, <3>3, <3>4 DEF IsPath
    <2>6. WellFormed(w.steps) /\ w.steps # <<>>
      <3> HIDE DEF Sibling
      <3>1. w.steps[1].depth = n - 1 /\ w.steps[n].depth = 0
        <4>1. 1 \in 1..n /\ n - n = 0
          BY <2>1
        <4>2. QED
          BY <2>3, <2>4, <4>1
      <3>2. \A i \in 1..n : w.steps[i].depth = w.steps[1].depth - (i - 1)
        BY <2>3, <2>4, <3>1
      <3>3. w.steps # <<>>
        BY <2>3, <2>4
      <3>4. QED
        BY <2>1, <2>4, <2>5, <3>1, <3>2, <3>3 DEF WellFormed
    <2>7. TerminalDepth(w.steps) = n /\ Contiguous(w.steps, n)
      BY <2>5, <2>6, WellFormedPath
    <2>8. Siblings(S, key, w.steps, n)
      <3>1. ASSUME NEW i \in 1..n
            PROVE  w.steps[i].sibling = SubtreeHash(Off(S, key, n - i), n - i + 1)
        <4>1. n - i \in 0..Depth - 1
          BY <2>1
        <4>2. QED
          BY <2>4, <4>1, PartingKeys
      <3>2. QED
        BY <3>1 DEF Siblings
    <2>9. Empties[n] = SubtreeHash(On(S, key, n), n)
      <3>1. On(S, key, n) \in Together(n)
        BY <2>3, OnTogether
      <3>2. QED
        BY <2>1, <2>2, <3>1, SubtreeCases
    <2>10. PICK up : Rises(up, key, Empties[n], w.steps, n)
                     /\ FoldSteps(key, Empties[n], w.steps) = up[n]
      BY <2>3, <2>4, FoldStepsUnfold
    <2>11. up[n] = TreeRoot(S)
      <3>1. up[n] = SubtreeHash(S, 0)
        BY <2>1, <2>7, <2>8, <2>9, <2>10, Ascend
      <3>2. QED
        BY <1>3, <3>1, TreeRootForm
    <2>12. RebuildAbsentRoot(key, w) = TreeRoot(S)
      BY <1>1, <2>6, <2>7, <2>10, <2>11, RebuildCases DEF w
    <2>13. VerifyNonMember(TreeRoot(S), key, w)
      BY <2>12, TreeRootForm DEF VerifyNonMember
    <2>14. QED
      BY <2>5, <2>13 DEF w
  <1>4. QED
    BY <1>2, <1>3

(***************************************************************************)
(* A batch of insertions                                                   *)
(***************************************************************************)

(* The root before insertion i and after it.                               *)
Runs(run, root, order, witnesses, n) ==
  /\ run[0] = root
  /\ \A i \in 1..n : run[i] = Insert(run[i - 1], order[i], witnesses[i])

InsertStep(root, order, witnesses, g, s) ==
  IF s = {} THEN root
  ELSE Insert(g[s \ {Max(s)}], order[[i \in DOMAIN order |-> i][Max(s)]],
              witnesses[[i \in DOMAIN order |-> i][Max(s)]])
Inserting(g, root, order, witnesses, n) ==
  g = [s \in SUBSET (1..n) |-> InsertStep(root, order, witnesses, g, s)]

LEMMA InsertingExists ==
  ASSUME NEW root, NEW order, NEW witnesses, NEW n \in Nat
  PROVE  \E g : Inserting(g, root, order, witnesses, n)
  <1> DEFINE Step(g, s) == InsertStep(root, order, witnesses, g, s)
             Solves(g, k) == g = [s \in SUBSET (1..k) |-> Step(g, s)]
             Bad == {k \in Nat : ~ \E g : Solves(g, k)}
  <1>1. SUFFICES ASSUME Bad # {} PROVE FALSE
    BY DEF Inserting
  <1>2. PICK k \in Bad : \A m \in Bad : k <= m
    <2>1. Bad \in SUBSET Nat
      OBVIOUS
    <2> HIDE DEF Bad
    <2>2. QED
      BY <1>1, <2>1, Least
  <1>3. k # 0
    <2>1. SUFFICES ASSUME k = 0 PROVE FALSE
      OBVIOUS
    <2>2. \A s \in SUBSET (1..0) : s = {}
      OBVIOUS
    <2>3. Solves([s \in SUBSET (1..0) |-> root], 0)
      BY <2>2 DEF InsertStep
    <2>4. QED
      BY <2>1, <2>3
  <1>4. k \in Nat /\ k - 1 \in Nat /\ ~ (k <= k - 1)
    BY <1>2, <1>3
  <1>5. PICK g : Solves(g, k - 1)
    <2>1. k - 1 \notin Bad
      BY <1>2, <1>4
    <2>2. QED
      BY <1>4, <2>1
  <1> DEFINE h == [s \in SUBSET (1..k) |-> Step(g, s)]
  <1>6. \A s \in SUBSET (1..k - 1) : s \in SUBSET (1..k) /\ h[s] = g[s]
    <2> HIDE DEF Step
    <2>1. \A s \in SUBSET (1..k - 1) : s \in SUBSET (1..k)
      BY <1>4
    <2>2. \A s \in SUBSET (1..k - 1) : g[s] = Step(g, s)
      BY <1>5
    <2>3. QED
      BY <2>1, <2>2
  <1>7. \A s \in SUBSET (1..k) : Step(g, s) = Step(h, s)
    <2>1. TAKE s \in SUBSET (1..k)
    <2>2. CASE s = {}
      BY <2>2 DEF InsertStep
    <2>3. CASE s # {}
      <3>1. s \ {Max(s)} \in SUBSET (1..k - 1)
        BY <1>3, <1>4, <2>3, BelowMax
      <3>2. h[s \ {Max(s)}] = g[s \ {Max(s)}]
        BY <1>6, <3>1
      <3> HIDE DEF h
      <3>3. QED
        BY <3>2 DEF InsertStep
    <2>4. QED
      BY <2>2, <2>3
  <1>8. Solves(h, k)
    <2> HIDE DEF Step
    <2>1. QED
      BY <1>7
  <1>9. QED
    BY <1>2, <1>8

LEMMA InsertAllUnfold ==
  ASSUME NEW root, NEW order, NEW witnesses, NEW n \in Nat, DOMAIN order = 1..n
  PROVE  \E run : Runs(run, root, order, witnesses, n) /\ InsertAll(root, order, witnesses) = run[n]
  <1> DEFINE iter == CHOOSE g : Inserting(g, root, order, witnesses, n)
  <1>1. iter = [s \in SUBSET (1..n) |-> InsertStep(root, order, witnesses, iter, s)]
    <2>1. \E g : Inserting(g, root, order, witnesses, n)
      BY InsertingExists
    <2>2. Inserting(iter, root, order, witnesses, n)
      BY <2>1
    <2> HIDE DEF iter
    <2>3. QED
      BY <2>2 DEF Inserting
  <1>2. InsertAll(root, order, witnesses) = iter[1..n]
    <2>1. DOMAIN [i \in DOMAIN order |-> i] = 1..n
      OBVIOUS
    <2>2. QED
      BY <2>1 DEF InsertAll, FoldLeftDomain, FoldLeft, MapThenFoldSet, InsertStep, Inserting
  <1> HIDE DEF iter
  <1> DEFINE run == [i \in 0..n |-> iter[1..i]]
  <1>3. run[0] = root
    <2>1. 1..0 = {} /\ 1..0 \in SUBSET (1..n) /\ 0 \in 0..n
      OBVIOUS
    <2>2. iter[1..0] = root
      BY <1>1, <2>1 DEF InsertStep
    <2>3. QED
      BY <2>1, <2>2
  <1>4. \A i \in 1..n : run[i] = Insert(run[i - 1], order[i], witnesses[i])
    <2>1. TAKE i \in 1..n
    <2>2. i \in Nat /\ i # 0 /\ i \in 0..n /\ i - 1 \in 0..n
      OBVIOUS
    <2>3. Max(1..i) = i /\ (1..i) \ {i} = 1..i - 1
      BY <2>2, MaxOfRange
    <2>4. 1..i \in SUBSET (1..n) /\ 1..i # {}
      BY <2>2
    <2>5. iter[1..i] = InsertStep(root, order, witnesses, iter, 1..i)
      BY <1>1, <2>4
    <2>6. [j \in DOMAIN order |-> j][i] = i
      OBVIOUS
    <2>7. iter[1..i] = Insert(iter[1..i - 1], order[i], witnesses[i])
      BY <2>3, <2>4, <2>5, <2>6 DEF InsertStep
    <2>8. QED
      BY <2>2, <2>7
  <1>5. run[n] = iter[1..n]
    OBVIOUS
  <1> HIDE DEF run
  <1>6. QED
    BY <1>2, <1>3, <1>4, <1>5 DEF Runs

(* The keys there are before insertion i + 1.                              *)
Grown(S, order, i) == S \cup {order[j] : j \in 1..i}
IsOrder(order, n) == DOMAIN order = 1..n /\ \A i \in 1..n : order[i] \in Keys
NewUpTo(S, order, n) == \A i \in 1..n : order[i] \notin Grown(S, order, i - 1)

LEMMA GrownOnce ==
  ASSUME NEW S, NEW order, NEW i \in Nat, i # 0
  PROVE  Grown(S, order, i) = Grown(S, order, i - 1) \cup {order[i]}
  <1>1. \A j : j \in 1..i <=> j \in 1..i - 1 \/ j = i
    OBVIOUS
  <1>2. QED
    BY <1>1 DEF Grown

LEMMA GrownKeys ==
  ASSUME NEW S \in SUBSET Keys, NEW order, NEW n \in Nat, IsOrder(order, n), NEW i \in 0..n
  PROVE  Grown(S, order, i) \in SUBSET Keys
  BY DEF Grown, IsOrder

LEMMA NewIsFresh ==
  ASSUME NEW S, NEW order, NEW n \in Nat, DOMAIN order = 1..n
  PROVE  NewUpTo(S, order, n) <=> Fresh(S, order)
  <1>1. ASSUME NewUpTo(S, order, n) PROVE Fresh(S, order)
    <2>1. \A i \in 1..n : order[i] \notin S
      BY <1>1 DEF NewUpTo, Grown
    <2>2. ASSUME NEW i \in 1..n, NEW j \in 1..n, i < j PROVE order[i] # order[j]
      <3>1. i \in 1..j - 1
        BY <2>2
      <3>2. QED
        BY <1>1, <3>1 DEF NewUpTo, Grown
    <2>3. \A i, j \in 1..n : order[i] = order[j] => i = j
      <3>1. TAKE i, j \in 1..n
      <3>2. i < j \/ j < i \/ i = j
        OBVIOUS
      <3>3. QED
        BY <2>2, <3>2
    <2>4. QED
      BY <2>1, <2>3 DEF Fresh, IsInjective, ToSet
  <1>2. ASSUME Fresh(S, order) PROVE NewUpTo(S, order, n)
    <2>1. SUFFICES ASSUME NEW i \in 1..n PROVE order[i] \notin Grown(S, order, i - 1)
      BY DEF NewUpTo
    <2>2. order[i] \notin S
      BY <1>2 DEF Fresh, ToSet
    <2>3. \A j \in 1..i - 1 : j \in 1..n /\ j # i
      OBVIOUS
    <2>4. \A j \in 1..i - 1 : order[j] # order[i]
      BY <1>2, <2>3 DEF Fresh, IsInjective
    <2>5. QED
      BY <2>2, <2>4 DEF Grown
  <1>3. QED
    BY <1>1, <1>2

LEMMA GrownAll ==
  ASSUME NEW S, NEW order, NEW n \in Nat, DOMAIN order = 1..n
  PROVE  Grown(S, order, n) = S \cup ToSet(order) /\ Grown(S, order, 0) = S
  BY DEF Grown, ToSet

(* Nothing can be inserted into no root.                                   *)
LEMMA NoInsert ==
  ASSUME NEW key, NEW w
  PROVE  Insert(NoRoot, key, w) = NoRoot
  BY DEF Insert, VerifyNonMember

(* The guest's check of a batch, with whatever witnesses: it ends in a     *)
(* root only if the batch inserts new keys, each once, and then in that of *)
(* the tree that holds them all.                                           *)
THEOREM InsertAllSound ==
  ASSUME NEW S \in SUBSET Keys, NEW order, NEW n \in Nat, IsOrder(order, n),
         NEW witnesses, \A i \in 1..n : IsPath(witnesses[i].steps),
         InsertAll(TreeRoot(S), order, witnesses) # NoRoot
  PROVE  /\ Fresh(S, order)
         /\ InsertAll(TreeRoot(S), order, witnesses) = TreeRoot(S \cup ToSet(order))
  <1>1. PICK run : /\ Runs(run, TreeRoot(S), order, witnesses, n)
                   /\ InsertAll(TreeRoot(S), order, witnesses) = run[n]
    BY InsertAllUnfold DEF IsOrder
  <1> DEFINE Right(i) == run[i] # NoRoot =>
                           run[i] = TreeRoot(Grown(S, order, i)) /\ NewUpTo(S, order, i)
             Bad == {i \in 0..n : ~ Right(i)}
  <1>2. Bad = {}
    <2>1. SUFFICES ASSUME Bad # {} PROVE FALSE
      OBVIOUS
    <2>2. PICK i \in Bad : \A j \in Bad : i <= j
      <3>1. Bad \in SUBSET Nat
        OBVIOUS
      <3> HIDE DEF Bad
      <3>2. QED
        BY <2>1, <3>1, Least
    <2>3. i # 0
      <3>1. run[0] = TreeRoot(Grown(S, order, 0))
        BY <1>1, GrownAll DEF Runs, IsOrder
      <3>2. Right(0)
        BY <3>1 DEF NewUpTo
      <3>3. QED
        BY <2>2, <3>2
    <2>4. i \in 1..n /\ i - 1 \in 0..n /\ ~ (i <= i - 1) /\ i \in Nat
      BY <2>2, <2>3
    <2>5. Right(i - 1)
      BY <2>2, <2>4
    <2>6. run[i] = Insert(run[i - 1], order[i], witnesses[i])
      BY <1>1, <2>4 DEF Runs
    <2>7. run[i] # NoRoot
      BY <2>2
    <2>8. run[i - 1] # NoRoot
      BY <2>6, <2>7, NoInsert
    <2> DEFINE G == Grown(S, order, i - 1)
    <2>9. run[i - 1] = TreeRoot(G) /\ NewUpTo(S, order, i - 1)
      BY <2>5, <2>8
    <2>10. VerifyNonMember(TreeRoot(G), order[i], witnesses[i])
      BY <2>6, <2>7, <2>9 DEF Insert
    <2>11. G \in SUBSET Keys /\ order[i] \in Keys /\ IsPath(witnesses[i].steps)
      BY <2>4, GrownKeys DEF IsOrder
    <2> HIDE DEF G
    <2>12. order[i] \notin G /\ run[i] = TreeRoot(G \cup {order[i]})
      BY <2>6, <2>9, <2>10, <2>11, NonMembershipSound
    <2>13. Grown(S, order, i) = G \cup {order[i]}
      BY <2>4, GrownOnce DEF G
    <2>14. NewUpTo(S, order, i)
      <3>1. \A j \in 1..i : j \in 1..i - 1 \/ j = i
        BY <2>4
      <3>2. QED
        BY <2>9, <2>12, <3>1 DEF NewUpTo, G
    <2>15. Right(i)
      BY <2>12, <2>13, <2>14
    <2>16. QED
      BY <2>2, <2>15
  <1>3. Right(n)
    BY <1>2
  <1>4. run[n] = TreeRoot(Grown(S, order, n)) /\ NewUpTo(S, order, n)
    BY <1>1, <1>3
  <1>5. QED
    BY <1>1, <1>4, NewIsFresh, GrownAll DEF IsOrder

(* And with the witnesses the service makes for it, a batch of new keys    *)
(* passes the check.                                                       *)
THEOREM InsertAllComplete ==
  ASSUME NEW S \in SUBSET Keys, NEW order, NEW n \in Nat, IsOrder(order, n), Fresh(S, order)
  PROVE  InsertAll(TreeRoot(S), order, OrderedInsertWitnesses(S, order))
           = TreeRoot(S \cup ToSet(order))
  <1> DEFINE witnesses == OrderedInsertWitnesses(S, order)
  <1>0. NewUpTo(S, order, n)
    BY NewIsFresh DEF IsOrder
  <1>1. PICK run : /\ Runs(run, TreeRoot(S), order, witnesses, n)
                   /\ InsertAll(TreeRoot(S), order, witnesses) = run[n]
    BY InsertAllUnfold DEF IsOrder
  <1>2. \A i \in 1..n : witnesses[i] = NonMembershipWitness(Grown(S, order, i - 1), order[i])
    BY DEF OrderedInsertWitnesses, Grown, IsOrder
  <1> HIDE DEF witnesses
  <1> DEFINE Right(i) == run[i] = TreeRoot(Grown(S, order, i))
             Bad == {i \in 0..n : ~ Right(i)}
  <1>3. Bad = {}
    <2>1. SUFFICES ASSUME Bad # {} PROVE FALSE
      OBVIOUS
    <2>2. PICK i \in Bad : \A j \in Bad : i <= j
      <3>1. Bad \in SUBSET Nat
        OBVIOUS
      <3> HIDE DEF Bad
      <3>2. QED
        BY <2>1, <3>1, Least
    <2>3. i # 0
      <3>1. Right(0)
        BY <1>1, GrownAll DEF Runs, IsOrder
      <3>2. QED
        BY <2>2, <3>1
    <2>4. i \in 1..n /\ i - 1 \in 0..n /\ ~ (i <= i - 1) /\ i \in Nat
      BY <2>2, <2>3
    <2>5. Right(i - 1)
      BY <2>2, <2>4
    <2>6. run[i] = Insert(run[i - 1], order[i], witnesses[i])
      BY <1>1, <2>4 DEF Runs
    <2> DEFINE G == Grown(S, order, i - 1)
    <2>7. G \in SUBSET Keys /\ order[i] \in Keys \ G
      BY <1>0, <2>4, GrownKeys DEF IsOrder, NewUpTo
    <2>8. Grown(S, order, i) = G \cup {order[i]}
      BY <2>4, GrownOnce
    <2>9. run[i] = Insert(TreeRoot(G), order[i], NonMembershipWitness(G, order[i]))
      BY <1>2, <2>4, <2>5, <2>6
    <2> HIDE DEF G
    <2>10. run[i] = TreeRoot(G \cup {order[i]})
      BY <2>7, <2>9, NonMembershipComplete, NonMembershipSound
    <2>11. QED
      BY <2>2, <2>8, <2>10
  <1>4. Right(n)
    BY <1>3
  <1>5. QED
    BY <1>1, <1>4, GrownAll DEF IsOrder, witnesses

(***************************************************************************)
(* The witnesses a prover may come up with are paths                       *)
(***************************************************************************)
AnyStep == UNION {StepsAt(d) : d \in 0..Depth - 1}
Extended(step, chain) == <<step>> \o chain
Added(shorter, d) == {Extended(step, chain) : step \in StepsAt(d - 1), chain \in shorter}
Longer(shorter, d) == shorter \cup Added(shorter, d)

LEMMA LongerChains ==
  ASSUME NEW d \in 1..Depth, NEW shorter \in SUBSET Seq(AnyStep)
  PROVE  Longer(shorter, d) \in SUBSET Seq(AnyStep)
  <1> USE DepthAssumption
  <1>1. d - 1 \in 0..Depth - 1
    OBVIOUS
  <1>2. \A step \in StepsAt(d - 1) : step \in AnyStep
    BY <1>1 DEF AnyStep
  <1>3. \A step \in StepsAt(d - 1), chain \in shorter : Extended(step, chain) \in Seq(AnyStep)
    <2>1. TAKE step \in StepsAt(d - 1), chain \in shorter
    <2>2. <<step>> \in Seq(AnyStep) /\ chain \in Seq(AnyStep)
      BY <1>2
    <2>3. QED
      BY <2>2 DEF Extended
  <1>4. ASSUME NEW c \in Longer(shorter, d)
        PROVE  c \in Seq(AnyStep)
    <2>1. c \in shorter \/ c \in Added(shorter, d)
      BY DEF Longer
    <2>2. ASSUME c \in Added(shorter, d) PROVE c \in Seq(AnyStep)
      BY <1>3, <2>2 DEF Added
    <2>3. QED
      BY <2>1, <2>2
  <1>5. QED
    BY <1>4

LEMMA ChainsUnfold ==
  /\ ChainsBelow[0] = {<<>>}
  /\ \A d \in 1..Depth : ChainsBelow[d] = Longer(ChainsBelow[d - 1], d)
  <1> USE DepthAssumption
  <1> DEFINE X == SUBSET Seq(AnyStep)
             F == [d \in 1..Depth |-> [shorter \in X |-> Longer(shorter, d)]]
             Solves(g) == g = [d \in 0..Depth |-> IF d = 0 THEN {<<>>} ELSE Longer(g[d - 1], d)]
  <1>1. F \in [1..Depth -> [X -> X]]
    <2>1. \A d \in 1..Depth, shorter \in X : Longer(shorter, d) \in X
      BY LongerChains
    <2> HIDE DEF X
    <2>2. QED
      BY <2>1
  <1>2. {<<>>} \in X
    OBVIOUS
  <1> HIDE DEF X, F
  <1>3. PICK g : Unfolds(g, Depth, X, {<<>>}, F)
    BY <1>1, <1>2, Recursion
  <1>4. \E h : Solves(h)
    <2>1. g = [d \in 0..Depth |-> g[d]] /\ g[0] = {<<>>}
      BY <1>3 DEF Unfolds
    <2>2. \A d \in 0..Depth : d # 0 => g[d] = Longer(g[d - 1], d)
      <3>1. TAKE d \in 0..Depth
      <3>2. SUFFICES ASSUME d # 0 PROVE g[d] = Longer(g[d - 1], d)
        OBVIOUS
      <3>3. d \in 1..Depth /\ d - 1 \in 0..Depth
        BY <3>2
      <3>4. g[d] = F[d][g[d - 1]] /\ g[d - 1] \in X
        BY <1>3, <3>3 DEF Unfolds
      <3>5. QED
        BY <3>3, <3>4 DEF F
    <2>3. Solves(g)
      BY <2>1, <2>2
    <2>4. QED
      BY <2>3
  <1>5. Solves(ChainsBelow)
    <2>1. ChainsBelow = CHOOSE h : Solves(h)
      BY DEF ChainsBelow, Longer, Added, Extended
    <2> HIDE DEF Solves
    <2>2. QED
      BY <1>4, <2>1
  <1>6. ASSUME NEW d \in 0..Depth
        PROVE  ChainsBelow[d] = IF d = 0 THEN {<<>>} ELSE Longer(ChainsBelow[d - 1], d)
    BY <1>5
  <1>7. 0 \in 0..Depth /\ \A d \in 1..Depth : d \in 0..Depth /\ d # 0
    OBVIOUS
  <1>8. QED
    BY <1>6, <1>7

LEMMA WitnessesArePaths ==
  ASSUME NEW w \in Witnesses
  PROVE  IsPath(w.steps)
  <1> USE DepthAssumption
  <1> DEFINE Bad == {d \in 0..Depth : ~ ChainsBelow[d] \subseteq Seq(AnyStep)}
  <1>1. Bad = {}
    <2>1. SUFFICES ASSUME Bad # {} PROVE FALSE
      OBVIOUS
    <2>2. PICK d \in Bad : \A e \in Bad : d <= e
      <3>1. Bad \in SUBSET Nat
        OBVIOUS
      <3> HIDE DEF Bad
      <3>2. QED
        BY <2>1, <3>1, Least
    <2>3. d # 0
      <3>1. ChainsBelow[0] \subseteq Seq(AnyStep)
        BY ChainsUnfold
      <3>2. QED
        BY <2>2, <3>1
    <2>4. d \in 1..Depth /\ d - 1 \in 0..Depth /\ ~ (d <= d - 1) /\ d - 1 \in 0..Depth - 1
      BY <2>2, <2>3
    <2>5. ChainsBelow[d - 1] \subseteq Seq(AnyStep)
      BY <2>2, <2>4
    <2>6. ChainsBelow[d] \subseteq Seq(AnyStep)
      BY <2>4, <2>5, ChainsUnfold, LongerChains
    <2>7. QED
      BY <2>2, <2>6
  <1>2. w.steps \in Seq(AnyStep)
    <2>1. Depth \in 0..Depth
      OBVIOUS
    <2>2. ChainsBelow[Depth] \subseteq Seq(AnyStep)
      BY <1>1, <2>1
    <2>3. w.steps \in ChainsBelow[Depth]
      BY DEF Witnesses
    <2>4. QED
      BY <2>2, <2>3
  <1>3. \A step \in AnyStep : step.depth \in Int
    <2>1. \A d \in 0..Depth - 1 : \A step \in StepsAt(d) : step.depth = d
      BY DEF StepsAt
    <2>2. QED
      BY <2>1 DEF AnyStep
  <1>4. \A i \in DOMAIN w.steps : w.steps[i] \in AnyStep
    BY <1>2
  <1>5. QED
    BY <1>2, <1>3, <1>4 DEF IsPath


(***************************************************************************)
(* The rebuild, link by link                                               *)
(***************************************************************************)
Start == [ok |-> TRUE, used |-> {}, root |-> EmptyTreeRoot, spent |-> {}, txids |-> [n \in {} |-> NoTxid]]
Links(run, log, n) == run[0] = Start /\ \A i \in 1..n : run[i] = Link(log, run[i - 1])

LinkStep(log, g, s) == IF s = {} THEN Start ELSE Link(log, g[s \ {Max(s)}])
Linking(g, log, n) == g = [s \in SUBSET (1..n) |-> LinkStep(log, g, s)]

LEMMA LinkingExists ==
  ASSUME NEW log, NEW n \in Nat
  PROVE  \E g : Linking(g, log, n)
  <1> DEFINE Step(g, s) == LinkStep(log, g, s)
             Solves(g, k) == g = [s \in SUBSET (1..k) |-> Step(g, s)]
             Bad == {k \in Nat : ~ \E g : Solves(g, k)}
  <1>1. SUFFICES ASSUME Bad # {} PROVE FALSE
    BY DEF Linking
  <1>2. PICK k \in Bad : \A m \in Bad : k <= m
    <2>1. Bad \in SUBSET Nat
      OBVIOUS
    <2> HIDE DEF Bad
    <2>2. QED
      BY <1>1, <2>1, Least
  <1>3. k # 0
    <2>1. SUFFICES ASSUME k = 0 PROVE FALSE
      OBVIOUS
    <2>2. \A s \in SUBSET (1..0) : s = {}
      OBVIOUS
    <2>3. Solves([s \in SUBSET (1..0) |-> Start], 0)
      BY <2>2 DEF LinkStep
    <2>4. QED
      BY <2>1, <2>3
  <1>4. k \in Nat /\ k - 1 \in Nat /\ ~ (k <= k - 1)
    BY <1>2, <1>3
  <1>5. PICK g : Solves(g, k - 1)
    <2>1. k - 1 \notin Bad
      BY <1>2, <1>4
    <2>2. QED
      BY <1>4, <2>1
  <1> DEFINE h == [s \in SUBSET (1..k) |-> Step(g, s)]
  <1>6. \A s \in SUBSET (1..k - 1) : s \in SUBSET (1..k) /\ h[s] = g[s]
    <2> HIDE DEF Step
    <2>1. \A s \in SUBSET (1..k - 1) : s \in SUBSET (1..k)
      BY <1>4
    <2>2. \A s \in SUBSET (1..k - 1) : g[s] = Step(g, s)
      BY <1>5
    <2>3. QED
      BY <2>1, <2>2
  <1>7. \A s \in SUBSET (1..k) : Step(g, s) = Step(h, s)
    <2>1. TAKE s \in SUBSET (1..k)
    <2>2. CASE s = {}
      BY <2>2 DEF LinkStep
    <2>3. CASE s # {}
      <3>1. s \ {Max(s)} \in SUBSET (1..k - 1)
        BY <1>3, <1>4, <2>3, BelowMax
      <3>2. h[s \ {Max(s)}] = g[s \ {Max(s)}]
        BY <1>6, <3>1
      <3> HIDE DEF h
      <3>3. QED
        BY <3>2 DEF LinkStep
    <2>4. QED
      BY <2>2, <2>3
  <1>8. Solves(h, k)
    <2> HIDE DEF Step
    <2>1. QED
      BY <1>7
  <1>9. QED
    BY <1>2, <1>8

LEMMA RebuildUnfold ==
  ASSUME NEW log, NEW n \in Nat, DOMAIN log = 1..n
  PROVE  \E run : /\ Links(run, log, n)
                  /\ Rebuild(log) = [run[n] EXCEPT !.ok = AllUsed(log, run[n])]
  <1> DEFINE iter == CHOOSE g : Linking(g, log, n)
  <1>1. iter = [s \in SUBSET (1..n) |-> LinkStep(log, iter, s)]
    <2>1. \E g : Linking(g, log, n)
      BY LinkingExists
    <2>2. Linking(iter, log, n)
      BY <2>1
    <2> HIDE DEF iter
    <2>3. QED
      BY <2>2 DEF Linking
  <1>2. Rebuild(log) = [iter[1..n] EXCEPT !.ok = AllUsed(log, iter[1..n])]
    <2>1. DOMAIN [i \in DOMAIN log |-> i] = 1..n
      OBVIOUS
    <2>2. FoldLeftDomain(LAMBDA acc, i : Link(log, acc), Start, log) = iter[1..n]
      BY <2>1 DEF FoldLeftDomain, FoldLeft, MapThenFoldSet, LinkStep, Linking
    <2> HIDE DEF iter
    <2>3. QED
      BY <2>2 DEF Rebuild, Start
  <1> HIDE DEF iter
  <1> DEFINE run == [i \in 0..n |-> iter[1..i]]
  <1>3. run[0] = Start
    <2>1. 1..0 = {} /\ 1..0 \in SUBSET (1..n) /\ 0 \in 0..n
      OBVIOUS
    <2>2. iter[1..0] = Start
      BY <1>1, <2>1 DEF LinkStep
    <2>3. QED
      BY <2>1, <2>2
  <1>4. \A i \in 1..n : run[i] = Link(log, run[i - 1])
    <2>1. TAKE i \in 1..n
    <2>2. i \in Nat /\ i # 0 /\ i \in 0..n /\ i - 1 \in 0..n
      OBVIOUS
    <2>3. Max(1..i) = i /\ (1..i) \ {i} = 1..i - 1
      BY <2>2, MaxOfRange
    <2>4. 1..i \in SUBSET (1..n) /\ 1..i # {}
      BY <2>2
    <2>5. iter[1..i] = LinkStep(log, iter, 1..i)
      BY <1>1, <2>4
    <2>6. iter[1..i] = Link(log, iter[1..i - 1])
      BY <2>3, <2>4, <2>5 DEF LinkStep
    <2>7. QED
      BY <2>2, <2>6
  <1>5. run[n] = iter[1..n]
    OBVIOUS
  <1> HIDE DEF run
  <1>6. QED
    BY <1>2, <1>3, <1>4, <1>5 DEF Links

(***************************************************************************)
(* A chain: n settlements, each of new keys and from the root the ones     *)
(* before it left.                                                         *)
(***************************************************************************)
Prefix(chain, i) == UNION {ToSet(chain[j].nullifiers) : j \in 1..i}
Nonempty(order) == \E len \in Nat \ {0} : IsOrder(order, len)
Chained(chain, n) ==
  /\ DOMAIN chain = 1..n
  /\ \A i \in 1..n :
       /\ Nonempty(chain[i].nullifiers)
       /\ Fresh(Prefix(chain, i - 1), chain[i].nullifiers)
       /\ chain[i].rootOld = TreeRoot(Prefix(chain, i - 1))
       /\ chain[i].rootNew = TreeRoot(Prefix(chain, i))

(* A batch of keys is not empty.                                           *)
LEMMA NonemptyBatch ==
  ASSUME NEW order, Nonempty(order)
  PROVE  order # <<>> /\ ToSet(order) # {} /\ ToSet(order) \subseteq Keys
  <1>1. PICK len \in Nat \ {0} : DOMAIN order = 1..len /\ \A i \in 1..len : order[i] \in Keys
    BY DEF Nonempty, IsOrder
  <1>2. 1 \in DOMAIN order
    BY <1>1
  <1>3. order # <<>>
    BY <1>2
  <1>4. QED
    BY <1>1, <1>2, <1>3 DEF ToSet

(* What the first settlements spent is part of what more of them did.      *)
LEMMA PrefixGrows ==
  ASSUME NEW chain, NEW n \in Nat, Chained(chain, n)
  PROVE  /\ \A i \in 0..n : Prefix(chain, i) \in SUBSET Keys
         /\ Prefix(chain, 0) = {}
         /\ \A i \in 1..n : Prefix(chain, i) = Prefix(chain, i - 1) \cup ToSet(chain[i].nullifiers)
         /\ \A i, j \in 0..n : i < j => ~ (Prefix(chain, j) \subseteq Prefix(chain, i))
  <1>1. ASSUME NEW i \in 0..n, NEW k \in Prefix(chain, i)
        PROVE  k \in Keys
    <2>1. PICK j \in 1..i : k \in ToSet(chain[j].nullifiers)
      BY <1>1 DEF Prefix
    <2>2. j \in 1..n
      BY <2>1
    <2>3. QED
      BY <2>1, <2>2, NonemptyBatch DEF Chained
  <1>2. Prefix(chain, 0) = {}
    <2>1. 1..0 = {}
      OBVIOUS
    <2>2. QED
      BY <2>1 DEF Prefix
  <1>3. ASSUME NEW i \in 1..n
        PROVE  Prefix(chain, i) = Prefix(chain, i - 1) \cup ToSet(chain[i].nullifiers)
    <2>1. 1..i = (1..i - 1) \cup {i}
      OBVIOUS
    <2>2. QED
      BY <2>1 DEF Prefix
  <1>4. ASSUME NEW i \in 0..n, NEW j \in 0..n, i < j
        PROVE  ~ (Prefix(chain, j) \subseteq Prefix(chain, i))
    <2>1. j \in 1..n /\ i \in Nat /\ \A m \in 1..i : m \in 1..j - 1
      BY <1>4
    <2>2. Prefix(chain, i) \subseteq Prefix(chain, j - 1)
      BY <2>1 DEF Prefix
    <2>3. ToSet(chain[j].nullifiers) \subseteq Prefix(chain, j)
      BY <1>3, <2>1
    <2>4. ToSet(chain[j].nullifiers) # {}
      BY <2>1, NonemptyBatch DEF Chained
    <2>5. ToSet(chain[j].nullifiers) \cap Prefix(chain, j - 1) = {}
      BY <2>1 DEF Chained, Fresh
    <2>6. QED
      BY <2>2, <2>3, <2>4, <2>5
  <1>5. QED
    BY <1>1, <1>2, <1>3, <1>4

(* A settlement of new keys, from the root the chain left, extends it.     *)
LEMMA ChainGrows ==
  ASSUME NEW chain, NEW n \in Nat, Chained(chain, n),
         NEW longer, DOMAIN longer = 1..n + 1, \A i \in 1..n : longer[i] = chain[i],
         NEW entry, longer[n + 1] = entry,
         Nonempty(entry.nullifiers), Fresh(Prefix(chain, n), entry.nullifiers),
         entry.rootOld = TreeRoot(Prefix(chain, n)),
         entry.rootNew = TreeRoot(Prefix(chain, n) \cup ToSet(entry.nullifiers))
  PROVE  /\ Chained(longer, n + 1)
         /\ Prefix(longer, n + 1) = Prefix(chain, n) \cup ToSet(entry.nullifiers)
  <1>1. \A i \in 0..n : Prefix(longer, i) = Prefix(chain, i)
    <2>1. TAKE i \in 0..n
    <2>2. \A j \in 1..i : longer[j] = chain[j]
      OBVIOUS
    <2>3. QED
      BY <2>2 DEF Prefix
  <1>2. Prefix(longer, n + 1) = Prefix(chain, n) \cup ToSet(entry.nullifiers)
    <2>1. 1..n + 1 = (1..n) \cup {n + 1} /\ n \in 0..n
      OBVIOUS
    <2>2. Prefix(longer, n + 1) = Prefix(longer, n) \cup ToSet(longer[n + 1].nullifiers)
      BY <2>1 DEF Prefix
    <2>3. QED
      BY <1>1, <2>1, <2>2
  <1>3. ASSUME NEW i \in 1..n + 1
        PROVE  /\ Nonempty(longer[i].nullifiers)
               /\ Fresh(Prefix(longer, i - 1), longer[i].nullifiers)
               /\ longer[i].rootOld = TreeRoot(Prefix(longer, i - 1))
               /\ longer[i].rootNew = TreeRoot(Prefix(longer, i))
    <2>1. CASE i \in 1..n
      <3>1. i - 1 \in 0..n /\ i \in 0..n
        BY <2>1
      <3>2. longer[i] = chain[i] /\ Prefix(longer, i - 1) = Prefix(chain, i - 1)
            /\ Prefix(longer, i) = Prefix(chain, i)
        BY <1>1, <2>1, <3>1
      <3>3. QED
        BY <2>1, <3>2 DEF Chained
    <2>2. CASE i = n + 1
      <3>1. i - 1 = n /\ n \in 0..n
        BY <2>2
      <3>2. QED
        BY <1>1, <1>2, <2>2, <3>1
    <2>3. QED
      BY <2>1, <2>2
  <1>4. Chained(longer, n + 1)
    BY <1>3 DEF Chained
  <1>5. QED
    BY <1>2, <1>4

(* So the root tells how many settlements there were.                      *)
LEMMA RootTellsLength ==
  ASSUME NEW chain, NEW n \in Nat, Chained(chain, n), NEW i \in 0..n, NEW j \in 0..n,
         TreeRoot(Prefix(chain, i)) = TreeRoot(Prefix(chain, j))
  PROVE  i = j
  <1>1. Prefix(chain, i) \in SUBSET Keys /\ Prefix(chain, j) \in SUBSET Keys
    BY PrefixGrows
  <1>2. Prefix(chain, i) = Prefix(chain, j)
    BY <1>1, TreeRootInjective
  <1>3. ~ (i < j) /\ ~ (j < i)
    BY <1>2, PrefixGrows
  <1>4. QED
    BY <1>3

(***************************************************************************)
(* Entries drawn from a chain, in any order and with copies: of its first  *)
(* K settlements there is one each, and what is not of the chain continues *)
(* the root K of them leave.                                               *)
(***************************************************************************)
Copies(entries, chain, i) == {j \in DOMAIN entries : SameTransition(entries[j], chain[i])}
CopiesUpTo(entries, chain, k) == UNION {Copies(entries, chain, i) : i \in 1..k}
OfChain(entry, chain, n) == \E i \in 1..n : SameTransition(entry, chain[i])
Draws(entries, chain, n, K) ==
  /\ \A j \in DOMAIN entries : \/ OfChain(entries[j], chain, n)
                               \/ entries[j].rootOld = TreeRoot(Prefix(chain, K))
  /\ \A i \in 1..K : Copies(entries, chain, i) # {}

(* The rebuild's state.                                                    *)
Answer(acc, ok) ==
  [ok |-> ok, used |-> acc.used, root |-> acc.root, spent |-> acc.spent, txids |-> acc.txids]
LEMMA Overwritten ==
  ASSUME NEW acc, NEW a, acc = Answer(acc, a), NEW b
  PROVE  [acc EXCEPT !.ok = b] = Answer(acc, b)
  <1>1. DOMAIN acc = {"ok", "used", "root", "spent", "txids"}
    BY DEF Answer
  <1>2. QED
    BY <1>1 DEF Answer

LEMMA AnswerFields ==
  ASSUME NEW acc, NEW b
  PROVE  /\ Answer(acc, b).ok = b /\ Answer(acc, b).used = acc.used /\ Answer(acc, b).root = acc.root
         /\ Answer(acc, b).spent = acc.spent /\ Answer(acc, b).txids = acc.txids
  BY DEF Answer

(* The rebuild has used the first k settlements, with all their copies.    *)
Reached(acc, entries, chain, k) ==
  /\ acc = Answer(acc, TRUE)
  /\ acc.used = CopiesUpTo(entries, chain, k)
  /\ acc.root = TreeRoot(Prefix(chain, k))
  /\ acc.spent = Prefix(chain, k)
  /\ \A i \in 1..k : \A m \in ToSet(chain[i].nullifiers) :
       acc.txids[m] = TxidOf(entries, Copies(entries, chain, i))

LEMMA SameIsEquivalence ==
  /\ \A b, c : SameTransition(b, c) => SameTransition(c, b)
  /\ \A b, c, d : SameTransition(b, c) /\ SameTransition(c, d) => SameTransition(b, d)
  BY DEF SameTransition

(* What continues the root after k settlements is no copy of one of them.  *)
LEMMA CopiesContinue ==
  ASSUME NEW chain, NEW n \in Nat, Chained(chain, n), NEW entries, NEW k \in 0..n,
         NEW j \in DOMAIN entries, NEW i \in 1..n, j \in Copies(entries, chain, i)
  PROVE  entries[j].rootOld = TreeRoot(Prefix(chain, k)) <=> i = k + 1
  <1>1. entries[j].rootOld = TreeRoot(Prefix(chain, i - 1))
    BY DEF Copies, SameTransition, Chained
  <1>2. i - 1 \in 0..n
    OBVIOUS
  <1>3. entries[j].rootOld = TreeRoot(Prefix(chain, k)) => i - 1 = k
    BY <1>1, <1>2, RootTellsLength
  <1>4. QED
    BY <1>1, <1>3

LEMMA UnusedContinue ==
  ASSUME NEW chain, NEW n \in Nat, Chained(chain, n), NEW entries, NEW k \in 0..n,
         NEW acc, Reached(acc, entries, chain, k)
  PROVE  Continuing(entries, acc) = {j \in DOMAIN entries : entries[j].rootOld = TreeRoot(Prefix(chain, k))}
  <1>1. ASSUME NEW j \in DOMAIN entries, j \in acc.used
        PROVE  entries[j].rootOld # TreeRoot(Prefix(chain, k))
    <2>1. PICK i \in 1..k : j \in Copies(entries, chain, i)
      BY <1>1 DEF Reached, CopiesUpTo
    <2>2. i \in 1..n /\ i # k + 1
      BY <2>1
    <2>3. QED
      BY <2>1, <2>2, CopiesContinue
  <1>2. QED
    BY <1>1 DEF Continuing, Reached

(* Before the K-th, the next link is the next settlement of the chain.     *)
LEMMA CopiesAreNext ==
  ASSUME NEW chain, NEW n \in Nat, Chained(chain, n),
         NEW entries, NEW K \in 0..n, Draws(entries, chain, n, K),
         NEW k \in 0..n, k < K, NEW acc, Reached(acc, entries, chain, k)
  PROVE  Continuing(entries, acc) = Copies(entries, chain, k + 1)
  <1>1. k + 1 \in 1..n
    OBVIOUS
  <1>2. ASSUME NEW j \in DOMAIN entries
        PROVE  entries[j].rootOld = TreeRoot(Prefix(chain, k)) <=> j \in Copies(entries, chain, k + 1)
    <2>1. CASE OfChain(entries[j], chain, n)
      <3>1. PICK i \in 1..n : SameTransition(entries[j], chain[i])
        BY <2>1 DEF OfChain
      <3>2. j \in Copies(entries, chain, i)
        BY <3>1 DEF Copies
      <3>3. entries[j].rootOld = TreeRoot(Prefix(chain, k)) <=> i = k + 1
        BY <3>2, CopiesContinue
      <3>4. j \in Copies(entries, chain, k + 1) => entries[j].rootOld = TreeRoot(Prefix(chain, k))
        BY <1>1, CopiesContinue
      <3>5. QED
        BY <3>2, <3>3, <3>4
    <2>2. CASE ~ OfChain(entries[j], chain, n)
      <3>1. entries[j].rootOld = TreeRoot(Prefix(chain, K))
        BY <2>2 DEF Draws
      <3>2. entries[j].rootOld # TreeRoot(Prefix(chain, k))
        BY <3>1, RootTellsLength
      <3>3. j \notin Copies(entries, chain, k + 1)
        BY <1>1, <2>2 DEF Copies, OfChain
      <3>4. QED
        BY <3>2, <3>3
    <2>3. QED
      BY <2>1, <2>2
  <1>3. Copies(entries, chain, k + 1) \subseteq DOMAIN entries
    BY DEF Copies
  <1>4. Continuing(entries, acc)
          = {j \in DOMAIN entries : entries[j].rootOld = TreeRoot(Prefix(chain, k))}
    BY UnusedContinue
  <1>5. QED
    BY <1>2, <1>3, <1>4

Oldest(log, acc) == CHOOSE i \in Continuing(log, acc) : \A j \in Continuing(log, acc) : i <= j
LEMMA OldestContinues ==
  ASSUME NEW entries, NEW L \in Nat, DOMAIN entries = 1..L, NEW acc, Continuing(entries, acc) # {}
  PROVE  Oldest(entries, acc) \in Continuing(entries, acc)
  <1> DEFINE C == Continuing(entries, acc)
  <1>1. C \in SUBSET Nat
    BY DEF Continuing
  <1> HIDE DEF C
  <1>2. \E i \in C : \A j \in C : i <= j
    BY <1>1, Least DEF C
  <1>3. QED
    BY <1>2 DEF Oldest, C

LEMMA NextIsReached ==
  ASSUME NEW chain, NEW n \in Nat, Chained(chain, n),
         NEW entries, NEW L \in Nat, DOMAIN entries = 1..L,
         NEW K \in 0..n, Draws(entries, chain, n, K),
         NEW k \in 0..n, k < K, NEW acc, Reached(acc, entries, chain, k)
  PROVE  Reached(Link(entries, acc), entries, chain, k + 1)
  <1> DEFINE C == Copies(entries, chain, k + 1)
             next == Oldest(entries, acc)
             batch == chain[k + 1]
             added == ToSet(batch.nullifiers)
             copies == {j \in DOMAIN entries : SameTransition(entries[next], entries[j])}
  <1>1. k + 1 \in 1..n /\ k + 1 \in 1..K /\ (k + 1) - 1 = k
    OBVIOUS
  <1>2. Continuing(entries, acc) = C
    BY CopiesAreNext
  <1>3. C # {}
    BY <1>1 DEF Draws
  <1>4. next \in C
    BY <1>2, <1>3, OldestContinues
  <1>5. SameTransition(entries[next], batch)
    BY <1>4 DEF Copies
  <1>6. /\ entries[next].nullifiers = batch.nullifiers /\ entries[next].rootNew = batch.rootNew
    BY <1>5 DEF SameTransition
  <1> HIDE DEF next
  <1>7. copies = C
    BY <1>5, SameIsEquivalence DEF Copies
  <1>8. Prefix(chain, k + 1) = Prefix(chain, k) \cup added
    BY <1>1, PrefixGrows
  <1>9. batch.rootNew = TreeRoot(Prefix(chain, k + 1)) /\ batch.nullifiers # <<>>
        /\ Fresh(Prefix(chain, k), batch.nullifiers)
    BY <1>1, NonemptyBatch DEF Chained
  <1>10. Linkable(entries, acc, next)
    <2>1. \A j \in Continuing(entries, acc) : SameTransition(entries[next], entries[j])
      BY <1>2, <1>7
    <2>2. acc.spent = Prefix(chain, k)
      BY DEF Reached
    <2>3. QED
      BY <1>6, <1>8, <1>9, <2>1, <2>2 DEF Linkable
  <1>11. acc.ok = TRUE
    BY DEF Reached, Answer
  <1>12. Link(entries, acc) =
           [ok |-> TRUE, used |-> acc.used \cup copies, root |-> entries[next].rootNew,
            spent |-> acc.spent \cup ToSet(entries[next].nullifiers),
            txids |-> [m \in acc.spent \cup ToSet(entries[next].nullifiers) |->
                         IF m \in ToSet(entries[next].nullifiers)
                         THEN TxidOf(entries, copies) ELSE acc.txids[m]]]
    <2>1. ~ (~ acc.ok \/ Continuing(entries, acc) = {})
      BY <1>2, <1>3, <1>11
    <2> HIDE DEF C
    <2>2. QED
      BY <1>10, <2>1, Zenon DEF Link, next, Oldest
  <1> DEFINE new == Link(entries, acc)
  <1> HIDE DEF C, copies, added
  <1>13. /\ new = Answer(new, TRUE)
         /\ new.used = acc.used \cup C /\ new.root = batch.rootNew /\ new.spent = acc.spent \cup added
         /\ \A m \in acc.spent \cup added :
              new.txids[m] = IF m \in added THEN TxidOf(entries, C) ELSE acc.txids[m]
    BY <1>6, <1>7, <1>12 DEF added, Answer
  <1> HIDE DEF new
  <1>14. new.used = CopiesUpTo(entries, chain, k + 1)
    <2>1. 1..k + 1 = (1..k) \cup {k + 1}
      OBVIOUS
    <2>2. acc.used = CopiesUpTo(entries, chain, k)
      BY DEF Reached
    <2>3. CopiesUpTo(entries, chain, k + 1) = CopiesUpTo(entries, chain, k) \cup C
      BY <2>1 DEF CopiesUpTo, C
    <2>4. QED
      BY <1>13, <2>2, <2>3
  <1>15. new.spent = Prefix(chain, k + 1) /\ new.root = TreeRoot(Prefix(chain, k + 1))
    BY <1>8, <1>9, <1>13 DEF Reached
  <1>16. ASSUME NEW i \in 1..k + 1, NEW m \in ToSet(chain[i].nullifiers)
         PROVE  new.txids[m] = TxidOf(entries, Copies(entries, chain, i))
    <2>1. CASE i = k + 1
      BY <1>13, <1>16, <2>1 DEF C, added
    <2>2. CASE i # k + 1
      <3>1. i \in 1..k
        BY <2>2
      <3>2. m \in Prefix(chain, k)
        BY <1>16, <3>1 DEF Prefix
      <3>3. m \notin added
        BY <1>9, <3>2 DEF Fresh, added
      <3>4. m \in acc.spent /\ acc.txids[m] = TxidOf(entries, Copies(entries, chain, i))
        BY <1>16, <3>1, <3>2 DEF Reached
      <3>5. QED
        BY <1>13, <3>3, <3>4
    <2>3. QED
      BY <2>1, <2>2
  <1>17. Reached(new, entries, chain, k + 1)
    BY <1>13, <1>14, <1>15, <1>16 DEF Reached
  <1>18. QED
    BY <1>17 DEF new

(* The rebuild comes to the K-th settlement.                               *)
LEMMA ChainIsReached ==
  ASSUME NEW chain, NEW n \in Nat, Chained(chain, n),
         NEW entries, NEW L \in Nat, DOMAIN entries = 1..L,
         NEW K \in 0..n, K <= L, Draws(entries, chain, n, K),
         NEW run, Links(run, entries, L)
  PROVE  Reached(run[K], entries, chain, K)
  <1> DEFINE Bad == {k \in 0..K : ~ Reached(run[k], entries, chain, k)}
  <1>1. SUFFICES ASSUME Bad # {} PROVE FALSE
    OBVIOUS
  <1>2. PICK k \in Bad : \A m \in Bad : k <= m
    <2>1. Bad \in SUBSET Nat
      OBVIOUS
    <2> HIDE DEF Bad
    <2>2. QED
      BY <1>1, <2>1, Least
  <1>3. k # 0
    <2>1. run[0] = Start /\ 1..0 = {}
      BY DEF Links
    <2>2. Prefix(chain, 0) = {} /\ CopiesUpTo(entries, chain, 0) = {}
      BY <2>1 DEF Prefix, CopiesUpTo
    <2>3. TreeRoot({}) = EmptyTreeRoot
      BY DEF TreeRoot
    <2>4. Reached(Start, entries, chain, 0)
      BY <2>1, <2>2, <2>3 DEF Reached, Start, Answer
    <2>5. QED
      BY <1>2, <2>1, <2>4
  <1>4. k \in 1..K /\ k - 1 \in 0..K /\ k - 1 \in 0..n /\ k - 1 < K /\ ~ (k <= k - 1) /\ (k - 1) + 1 = k
        /\ k \in 1..L
    BY <1>2, <1>3
  <1>5. Reached(run[k - 1], entries, chain, k - 1)
    BY <1>2, <1>4
  <1>6. run[k] = Link(entries, run[k - 1])
    BY <1>4 DEF Links
  <1>7. Reached(run[k], entries, chain, k)
    BY <1>4, <1>5, <1>6, NextIsReached
  <1>8. QED
    BY <1>2, <1>7

(* Where no entry continues the root, or one was refused, it stops.        *)
LEMMA StaysThere ==
  ASSUME NEW entries, NEW L \in Nat, NEW run, Links(run, entries, L), NEW k \in 0..L,
         ~ run[k].ok \/ Continuing(entries, run[k]) = {}
  PROVE  run[L] = run[k]
  <1> DEFINE Bad == {m \in k..L : run[m] # run[k]}
  <1>1. SUFFICES ASSUME Bad # {} PROVE FALSE
    OBVIOUS
  <1>2. PICK m \in Bad : \A j \in Bad : m <= j
    <2>1. Bad \in SUBSET Nat
      OBVIOUS
    <2> HIDE DEF Bad
    <2>2. QED
      BY <1>1, <2>1, Least
  <1>3. m \in 1..L /\ m - 1 \in k..L /\ ~ (m <= m - 1)
    BY <1>2
  <1>4. run[m - 1] = run[k]
    BY <1>2, <1>3
  <1>5. run[m] = Link(entries, run[k])
    BY <1>3, <1>4 DEF Links
  <1>6. Link(entries, run[k]) = run[k]
    BY Zenon DEF Link
  <1>7. QED
    BY <1>2, <1>5, <1>6

LEMMA RebuildAnswers ==
  ASSUME NEW log, NEW acc, Rebuild(log) = Answer(acc, AllUsed(log, acc))
  PROVE  /\ AllUsed(log, acc) => Rebuild(log).ok
         /\ Rebuild(log).ok => AllUsed(log, acc)
         /\ Rebuild(log).spent = acc.spent
         /\ \A root : /\ Rebuild(log).ok /\ acc.root = root => RebuildVerified(log, root).ok
                      /\ RebuildVerified(log, root).ok => Rebuild(log).ok /\ acc.root = root
                      /\ RebuildVerified(log, root).spent = acc.spent
                      /\ RebuildVerified(log, root).txids = acc.txids
  <1> DEFINE R == Rebuild(log)
  <1>1. R = Answer(acc, AllUsed(log, acc))
    OBVIOUS
  <1>2. /\ R.ok = AllUsed(log, acc) /\ R.used = acc.used /\ R.root = acc.root
        /\ R.spent = acc.spent /\ R.txids = acc.txids
    BY <1>1, AnswerFields
  <1>3. R = Answer(R, AllUsed(log, acc))
    BY <1>1, <1>2 DEF Answer
  <1>4. \A root : RebuildVerified(log, root) = [R EXCEPT !.ok = R.ok /\ R.root = root]
    BY Zenon DEF RebuildVerified
  <1> HIDE DEF R
  <1>5. \A root : RebuildVerified(log, root) = Answer(R, R.ok /\ R.root = root)
    BY <1>3, <1>4, Overwritten
  <1>6. \A root : /\ RebuildVerified(log, root).ok = (R.ok /\ R.root = root)
                  /\ RebuildVerified(log, root).spent = R.spent
                  /\ RebuildVerified(log, root).txids = R.txids
    BY <1>5, AnswerFields
  <1>7. /\ AllUsed(log, acc) => R.ok
        /\ R.ok => AllUsed(log, acc)
    BY <1>2 DEF AllUsed
  <1>8. ASSUME NEW root
        PROVE  /\ R.ok /\ acc.root = root => RebuildVerified(log, root).ok
               /\ RebuildVerified(log, root).ok => R.ok /\ acc.root = root
    BY <1>2, <1>6
  <1>9. QED
    BY <1>2, <1>6, <1>7, <1>8 DEF R

(* The entries of a whole chain, in any order and with copies: the rebuild *)
(* ends with the chain's root, all its nullifiers and, for each, the txid  *)
(* its settlement's copies name (host/src/s2.rs).                          *)
THEOREM RebuildFollowsTheChain ==
  ASSUME NEW chain, NEW n \in Nat, Chained(chain, n),
         NEW entries, NEW L \in Nat, DOMAIN entries = 1..L, n <= L,
         \A j \in 1..L : OfChain(entries[j], chain, n),
         \A i \in 1..n : Copies(entries, chain, i) # {}
  PROVE  LET acc == RebuildVerified(entries, TreeRoot(Prefix(chain, n))) IN
         /\ acc.ok
         /\ acc.spent = Prefix(chain, n)
         /\ Rebuild(entries).spent = Prefix(chain, n)
         /\ \A i \in 1..n : \A m \in ToSet(chain[i].nullifiers) :
              acc.txids[m] = TxidOf(entries, Copies(entries, chain, i))
  <1>1. PICK run : /\ Links(run, entries, L)
                   /\ Rebuild(entries) = [run[L] EXCEPT !.ok = AllUsed(entries, run[L])]
    BY RebuildUnfold
  <1>2. n \in 0..n /\ n \in 0..L /\ Draws(entries, chain, n, n)
    BY DEF Draws
  <1>3. Reached(run[n], entries, chain, n)
    BY <1>1, <1>2, ChainIsReached
  <1>4. DOMAIN entries \subseteq CopiesUpTo(entries, chain, n)
    <2>1. ASSUME NEW j \in DOMAIN entries PROVE j \in CopiesUpTo(entries, chain, n)
      <3>1. OfChain(entries[j], chain, n)
        OBVIOUS
      <3>2. PICK i \in 1..n : j \in Copies(entries, chain, i)
        BY <3>1 DEF OfChain, Copies
      <3>3. QED
        BY <3>2 DEF CopiesUpTo
    <2>2. QED
      BY <2>1
  <1>5. Continuing(entries, run[n]) = {} /\ run[n].used = DOMAIN entries
    BY <1>3, <1>4 DEF Continuing, Reached, CopiesUpTo, Copies
  <1>6. run[L] = run[n]
    BY <1>1, <1>2, <1>5, StaysThere
  <1> DEFINE acc == run[n]
  <1>7. acc = Answer(acc, acc.ok) /\ acc.ok = TRUE
    BY <1>3 DEF Reached, Answer
  <1>8. Rebuild(entries) = Answer(acc, AllUsed(entries, acc))
    <2>1. Rebuild(entries) = [acc EXCEPT !.ok = AllUsed(entries, acc)]
      BY <1>1, <1>6
    <2>2. QED
      BY <1>7, <2>1, Overwritten
  <1>9. AllUsed(entries, acc) /\ acc.root = TreeRoot(Prefix(chain, n)) /\ acc.spent = Prefix(chain, n)
    BY <1>3, <1>5, <1>7 DEF AllUsed, Reached
  <1>10. \A i \in 1..n : \A m \in ToSet(chain[i].nullifiers) :
           acc.txids[m] = TxidOf(entries, Copies(entries, chain, i))
    BY <1>3 DEF Reached
  <1> HIDE DEF acc
  <1> DEFINE root == TreeRoot(Prefix(chain, n))
             verified == RebuildVerified(entries, root)
  <1>11. /\ AllUsed(entries, acc) => Rebuild(entries).ok
         /\ Rebuild(entries).spent = acc.spent
         /\ Rebuild(entries).ok /\ acc.root = root => verified.ok
         /\ verified.spent = acc.spent /\ verified.txids = acc.txids
    <2>1. /\ AllUsed(entries, acc) => Rebuild(entries).ok
          /\ Rebuild(entries).spent = acc.spent
      BY <1>8, RebuildAnswers
    <2>2. Rebuild(entries).ok /\ acc.root = root => verified.ok
      BY <1>8, RebuildAnswers
    <2>3. \A r : /\ RebuildVerified(entries, r).spent = acc.spent
                 /\ RebuildVerified(entries, r).txids = acc.txids
      BY <1>8, RebuildAnswers
    <2>4. QED
      BY <2>1, <2>2, <2>3
  <1> HIDE DEF verified
  <1>12. /\ verified.ok /\ verified.spent = Prefix(chain, n) /\ Rebuild(entries).spent = Prefix(chain, n)
         /\ \A i \in 1..n : \A m \in ToSet(chain[i].nullifiers) :
              verified.txids[m] = TxidOf(entries, Copies(entries, chain, i))
    BY <1>9, <1>10, <1>11
  <1>13. QED
    BY <1>12 DEF verified

(* With a settlement missing, the rebuild does not end with the chain's    *)
(* root, and leaves the settlements after it unused: it refuses.           *)
THEOREM MissingIsRefused ==
  ASSUME NEW chain, NEW n \in Nat, Chained(chain, n),
         NEW entries, NEW L \in Nat, DOMAIN entries = 1..L,
         NEW i \in 1..n, i - 1 <= L,
         \A j \in 1..L : OfChain(entries[j], chain, n),
         Copies(entries, chain, i) = {},
         \A m \in 1..n : m # i => Copies(entries, chain, m) # {}
  PROVE  /\ ~ RebuildVerified(entries, TreeRoot(Prefix(chain, n))).ok
         /\ i < n => ~ Rebuild(entries).ok
  <1> DEFINE K == i - 1
  <1>1. PICK run : /\ Links(run, entries, L)
                   /\ Rebuild(entries) = [run[L] EXCEPT !.ok = AllUsed(entries, run[L])]
    BY RebuildUnfold
  <1>2. K \in 0..n /\ K \in 0..L /\ K < n /\ K + 1 = i /\ \A m \in 1..K : m \in 1..n /\ m # i
    OBVIOUS
  <1>3. Draws(entries, chain, n, K)
    BY <1>2 DEF Draws
  <1> HIDE DEF K
  <1>4. Reached(run[K], entries, chain, K)
    BY <1>1, <1>2, <1>3, ChainIsReached
  <1>5. Continuing(entries, run[K]) = {}
    <2>1. Continuing(entries, run[K])
            = {j \in DOMAIN entries : entries[j].rootOld = TreeRoot(Prefix(chain, K))}
      BY <1>2, <1>4, UnusedContinue
    <2>2. ASSUME NEW j \in DOMAIN entries, entries[j].rootOld = TreeRoot(Prefix(chain, K))
          PROVE  FALSE
      <3>1. PICK m \in 1..n : j \in Copies(entries, chain, m)
        BY DEF OfChain, Copies
      <3>2. m = i
        BY <1>2, <2>2, <3>1, CopiesContinue
      <3>3. QED
        BY <3>1, <3>2
    <2>3. QED
      BY <2>1, <2>2
  <1>6. run[L] = run[K]
    BY <1>1, <1>2, <1>5, StaysThere
  <1> DEFINE acc == run[K]
  <1>7. acc = Answer(acc, acc.ok)
    BY <1>4 DEF Reached, Answer
  <1>8. Rebuild(entries) = Answer(acc, AllUsed(entries, acc))
    <2>1. Rebuild(entries) = [acc EXCEPT !.ok = AllUsed(entries, acc)]
      BY <1>1, <1>6
    <2>2. QED
      BY <1>7, <2>1, Overwritten
  <1>9. acc.root # TreeRoot(Prefix(chain, n))
    <2>1. acc.root = TreeRoot(Prefix(chain, K)) /\ n \in 0..n
      BY <1>4 DEF Reached
    <2>2. QED
      BY <1>2, <2>1, RootTellsLength
  <1>10. ASSUME i < n PROVE ~ AllUsed(entries, acc)
    <2>1. n \in 1..n /\ n # i
      BY <1>10
    <2>2. PICK j \in DOMAIN entries : j \in Copies(entries, chain, n)
      BY <2>1 DEF Copies
    <2>3. j \notin acc.used
      <3>1. SUFFICES ASSUME j \in acc.used PROVE FALSE
        OBVIOUS
      <3>2. PICK m \in 1..K : j \in Copies(entries, chain, m)
        BY <1>4, <3>1 DEF Reached, CopiesUpTo
      <3>3. m \in 1..n /\ n - 1 \in 0..n /\ m - 1 \in 0..n /\ m # n
        BY <1>2, <3>2
      <3>4. entries[j].rootOld = TreeRoot(Prefix(chain, n - 1))
        BY <2>1, <2>2, <3>3, CopiesContinue
      <3>5. m = (n - 1) + 1
        BY <3>2, <3>3, <3>4, CopiesContinue
      <3>6. QED
        BY <3>3, <3>5
    <2>4. QED
      BY <2>3 DEF AllUsed
  <1> HIDE DEF acc
  <1> DEFINE root == TreeRoot(Prefix(chain, n))
  <1>11. /\ Rebuild(entries).ok => AllUsed(entries, acc)
         /\ RebuildVerified(entries, root).ok => acc.root = root
    BY <1>8, RebuildAnswers
  <1>12. QED
    BY <1>9, <1>10, <1>11

(* An entry beside the settlements that continues a root one of them       *)
(* continues, and differs from it, makes the rebuild refuse.               *)
THEOREM ForkIsRefused ==
  ASSUME NEW chain, NEW n \in Nat, Chained(chain, n),
         NEW entries, NEW L \in Nat, DOMAIN entries = 1..L,
         NEW i \in 1..n, i <= L, NEW f \in 1..L,
         entries[f].rootOld = chain[i].rootOld, ~ SameTransition(entries[f], chain[i]),
         \A j \in 1..L : j # f => OfChain(entries[j], chain, n),
         \A m \in 1..n : Copies(entries, chain, m) # {}
  PROVE  ~ Rebuild(entries).ok
  <1> DEFINE K == i - 1
  <1>1. PICK run : /\ Links(run, entries, L)
                   /\ Rebuild(entries) = [run[L] EXCEPT !.ok = AllUsed(entries, run[L])]
    BY RebuildUnfold
  <1>2. /\ K \in 0..n /\ K \in 0..L /\ K <= L /\ K + 1 = i /\ i \in 0..L /\ i \in 1..L
        /\ \A m \in 1..K : m \in 1..n
    OBVIOUS
  <1>3. entries[f].rootOld = TreeRoot(Prefix(chain, K))
    BY DEF Chained
  <1>4. Draws(entries, chain, n, K)
    BY <1>2, <1>3 DEF Draws
  <1>5. K = i - 1
    OBVIOUS
  <1> HIDE DEF K
  <1>6. Reached(run[K], entries, chain, K)
    BY <1>1, <1>2, <1>4, ChainIsReached
  <1>7. Continuing(entries, run[K])
          = {j \in DOMAIN entries : entries[j].rootOld = TreeRoot(Prefix(chain, K))}
    BY <1>2, <1>6, UnusedContinue
  <1>8. PICK c \in DOMAIN entries : SameTransition(entries[c], chain[i])
    BY DEF Copies
  <1>9. {f, c} \subseteq Continuing(entries, run[K])
    <2>1. entries[c].rootOld = TreeRoot(Prefix(chain, K))
      BY <1>3, <1>8 DEF SameTransition
    <2>2. QED
      BY <1>3, <1>7, <2>1
  <1>10. ~ Linkable(entries, run[K], Oldest(entries, run[K]))
    <2>1. SUFFICES ASSUME Linkable(entries, run[K], Oldest(entries, run[K])) PROVE FALSE
      OBVIOUS
    <2>2. /\ SameTransition(entries[Oldest(entries, run[K])], entries[f])
          /\ SameTransition(entries[Oldest(entries, run[K])], entries[c])
      BY <1>9, <2>1 DEF Linkable
    <2>3. QED
      BY <1>8, <2>2, SameIsEquivalence
  <1> DEFINE acc == run[K]
  <1>11. acc = Answer(acc, TRUE)
    BY <1>6 DEF Reached
  <1>12. run[i] = Link(entries, acc)
    BY <1>1, <1>2, <1>5 DEF Links
  <1>13. Link(entries, acc) = [acc EXCEPT !.ok = FALSE]
    <2>1. acc.ok = TRUE /\ Continuing(entries, acc) # {}
      BY <1>9, <1>11 DEF Answer
    <2>2. ~ (~ acc.ok \/ Continuing(entries, acc) = {})
      BY <2>1
    <2> HIDE DEF acc
    <2>3. QED
      BY <1>10, <2>2, Zenon DEF Link, Oldest, acc
  <1>14. [acc EXCEPT !.ok = FALSE] = Answer(acc, FALSE)
    BY <1>11, Overwritten
  <1> HIDE DEF acc
  <1> DEFINE end == run[i]
  <1>15. end = Answer(acc, FALSE)
    BY <1>12, <1>13, <1>14
  <1>16. end.ok = FALSE /\ end = Answer(end, end.ok)
    BY <1>15, AnswerFields DEF Answer
  <1>17. run[L] = end
    <2>1. ~ run[i].ok
      BY <1>16
    <2>2. QED
      BY <1>1, <1>2, <2>1, StaysThere
  <1>18. ~ AllUsed(entries, end)
    BY <1>16 DEF AllUsed
  <1> HIDE DEF end
  <1>19. Rebuild(entries) = Answer(end, AllUsed(entries, end))
    <2>1. Rebuild(entries) = [end EXCEPT !.ok = AllUsed(entries, end)]
      BY <1>1, <1>17
    <2>2. QED
      BY <1>16, <2>1, Overwritten
  <1>20. QED
    BY <1>18, <1>19, RebuildAnswers

(* The txid copies name, if they name no two.                              *)
LEMMA TxidNamed ==
  ASSUME NEW entries, NEW L \in Nat, DOMAIN entries = 1..L, NEW copies \in SUBSET (1..L),
         NEW txid, txid # NoTxid,
         \A j \in copies : entries[j].txid \in {NoTxid, txid},
         \E j \in copies : entries[j].txid = txid
  PROVE  TxidOf(entries, copies) = txid
  <1> DEFINE named == {j \in copies : entries[j].txid # NoTxid}
             first == CHOOSE j \in named : \A k \in named : j <= k
  <1>1. named \in SUBSET Nat /\ named # {}
    <2>1. PICK j \in copies : entries[j].txid = txid
      OBVIOUS
    <2>2. j \in named
      BY <2>1
    <2>3. \A k \in named : k \in Nat
      OBVIOUS
    <2> HIDE DEF named
    <2>4. QED
      BY <2>2, <2>3
  <1>2. \A j \in named : entries[j].txid = txid
    OBVIOUS
  <1>3. TxidOf(entries, copies) = IF named = {} THEN NoTxid ELSE entries[first].txid
    BY DEF TxidOf
  <1> HIDE DEF named
  <1>4. \E j \in named : \A k \in named : j <= k
    BY <1>1, Least
  <1>5. first \in named
    BY <1>4
  <1> HIDE DEF first
  <1>6. QED
    BY <1>1, <1>2, <1>3, <1>5
==============================================================================
