----------------------------- MODULE Relayer_proofs -----------------------------
(***************************************************************************)
(* Proofs about the relayer's commands: for any number of blocks and of    *)
(* reorganisations less than K deep, and any replicas that lag less than   *)
(* that, what the service takes from a command is history for good.        *)
(*                                                                         *)
(* Two things carry the proof.  The vault's log is a recursive function of *)
(* the chain, and the log of the first blocks is the first part of it      *)
(* (PrefixLog); and a step never changes the final blocks (FinalGrows).    *)
(***************************************************************************)
EXTENDS Relayer, SequenceTheorems, FiniteSetTheorems, WellFoundedInduction, TLAPS

Blocks == Seq(Transactions)
Chains == Seq(Blocks)

-------------------------------------------------------------------------------
(* The recursion over a block, and over the chain                          *)

(* Every nonempty set of naturals has a least element.                     *)
LEMMA Least ==
  ASSUME NEW T \in SUBSET Nat, T # {}
  PROVE  \E n \in T : \A m \in T : n <= m
  <1> DEFINE Less == OpToRel(<, Nat)
  <1>1. IsWellFoundedOn(Less, Nat)
    BY NatLessThanWellFounded
  <1>2. \A m, n \in Nat : m < n => <<m, n>> \in Less
    BY DEF OpToRel
  <1> HIDE DEF Less
  <1>3. PICK n \in T : \A m \in T : ~ (<<m, n>> \in Less)
    BY <1>1, WFMin
  <1>4. \A m \in T : n \in Nat /\ m \in Nat
    OBVIOUS
  <1>5. \A m \in T : ~ (m < n)
    BY <1>2, <1>3, <1>4
  <1>6. QED
    BY <1>4, <1>5

ExecutesTo(g, k, events, h, block) ==
  g = [i \in 0..k |-> IF i = 0 THEN events ELSE Fulfil(g[i - 1], h, i, block[i])]

LEMMA ExecutingExists ==
  ASSUME NEW events, NEW h, NEW block, NEW n \in Nat
  PROVE  \E g : ExecutesTo(g, n, events, h, block)
  <1> DEFINE Bad == {k \in 0..n : ~ \E g : ExecutesTo(g, k, events, h, block)}
  <1> SUFFICES ASSUME Bad # {} PROVE FALSE
    OBVIOUS
  <1>1. PICK k \in Bad : \A m \in Bad : k <= m
    <2>1. Bad \in SUBSET Nat
      OBVIOUS
    <2> HIDE DEF Bad
    <2>2. QED
      BY <2>1, Least
  <1>2. CASE k = 0
    <2>1. ExecutesTo([i \in 0..0 |-> events], 0, events, h, block)
      BY DEF ExecutesTo
    <2>2. QED
      BY <1>2, <2>1
  <1>3. CASE k # 0
    <2>1. k \in 1..n /\ k - 1 \in 0..n /\ k - 1 \notin Bad
      BY <1>1, <1>3
    <2>2. PICK g : ExecutesTo(g, k - 1, events, h, block)
      BY <2>1
    <2> DEFINE f == [i \in 0..k |-> IF i = k THEN Fulfil(g[k - 1], h, k, block[k]) ELSE g[i]]
    <2>3. ASSUME NEW i \in 0..k
          PROVE  f[i] = IF i = 0 THEN events ELSE Fulfil(f[i - 1], h, i, block[i])
      <3>1. CASE i = k
        <4>1. i - 1 = k - 1 /\ k - 1 \in 0..k /\ k - 1 # k
          BY <2>1, <3>1
        <4>2. f[i - 1] = g[k - 1]
          BY <4>1
        <4>3. f[i] = Fulfil(g[k - 1], h, k, block[k])
          BY <3>1
        <4>4. QED
          BY <1>3, <3>1, <4>2, <4>3
      <3>2. CASE i # k
        <4>1. i \in 0..(k - 1) /\ f[i] = g[i]
          BY <2>1, <3>2
        <4>2. g[i] = IF i = 0 THEN events ELSE Fulfil(g[i - 1], h, i, block[i])
          BY <2>2, <4>1 DEF ExecutesTo
        <4>3. i # 0 => f[i - 1] = g[i - 1]
          BY <2>1, <4>1
        <4>4. QED
          BY <4>1, <4>2, <4>3
      <3>3. QED
        BY <3>1, <3>2
    <2>4. DOMAIN f = 0..k /\ f = [i \in 0..k |-> f[i]]
      OBVIOUS
    <2> HIDE DEF f
    <2>5. f = [i \in 0..k |-> IF i = 0 THEN events ELSE Fulfil(f[i - 1], h, i, block[i])]
      BY <2>3, <2>4
    <2>6. ExecutesTo(f, k, events, h, block)
      BY <2>5 DEF ExecutesTo
    <2>7. QED
      BY <2>6
  <1>4. QED
    BY <1>2, <1>3

LEMMA ExecutingUnfold ==
  ASSUME NEW events, NEW h, NEW block, Len(block) \in Nat
  PROVE  ExecutesTo(Executing(events, h, block), Len(block), events, h, block)
  <1>1. Executing(events, h, block) = CHOOSE g : ExecutesTo(g, Len(block), events, h, block)
    BY DEF Executing, ExecutesTo
  <1>2. \E g : ExecutesTo(g, Len(block), events, h, block)
    BY ExecutingExists
  <1>3. QED
    BY <1>1, <1>2

MinesTo(g, k, c) ==
  g = [h \in 0..k |-> IF h = 0 THEN <<>> ELSE Executing(g[h - 1], h, c[h])[Len(c[h])]]

LEMMA MiningExists ==
  ASSUME NEW c, NEW n \in Nat
  PROVE  \E g : MinesTo(g, n, c)
  <1> DEFINE Bad == {k \in 0..n : ~ \E g : MinesTo(g, k, c)}
  <1> SUFFICES ASSUME Bad # {} PROVE FALSE
    OBVIOUS
  <1>1. PICK k \in Bad : \A m \in Bad : k <= m
    <2>1. Bad \in SUBSET Nat
      OBVIOUS
    <2> HIDE DEF Bad
    <2>2. QED
      BY <2>1, Least
  <1>2. CASE k = 0
    <2>1. MinesTo([h \in 0..0 |-> <<>>], 0, c)
      BY DEF MinesTo
    <2>2. QED
      BY <1>2, <2>1
  <1>3. CASE k # 0
    <2>1. k \in 1..n /\ k - 1 \in 0..n /\ k - 1 \notin Bad
      BY <1>1, <1>3
    <2>2. PICK g : MinesTo(g, k - 1, c)
      BY <2>1
    <2> DEFINE last == Executing(g[k - 1], k, c[k])[Len(c[k])]
               f == [h \in 0..k |-> IF h = k THEN last ELSE g[h]]
    <2>3. ASSUME NEW h \in 0..k
          PROVE  f[h] = IF h = 0 THEN <<>> ELSE Executing(f[h - 1], h, c[h])[Len(c[h])]
      <3>1. CASE h = k
        <4>1. h - 1 = k - 1 /\ k - 1 \in 0..k /\ k - 1 # k
          BY <2>1, <3>1
        <4>2. f[h - 1] = g[k - 1]
          BY <4>1
        <4>3. f[h] = last
          BY <3>1
        <4>4. QED
          BY <1>3, <3>1, <4>2, <4>3
      <3>2. CASE h # k
        <4>1. h \in 0..(k - 1) /\ f[h] = g[h]
          BY <2>1, <3>2
        <4>2. g[h] = IF h = 0 THEN <<>> ELSE Executing(g[h - 1], h, c[h])[Len(c[h])]
          BY <2>2, <4>1 DEF MinesTo
        <4>3. h # 0 => f[h - 1] = g[h - 1]
          BY <2>1, <4>1
        <4>4. QED
          BY <4>1, <4>2, <4>3
      <3>3. QED
        BY <3>1, <3>2
    <2>4. DOMAIN f = 0..k /\ f = [h \in 0..k |-> f[h]]
      OBVIOUS
    <2> HIDE DEF f
    <2>5. f = [h \in 0..k |-> IF h = 0 THEN <<>> ELSE Executing(f[h - 1], h, c[h])[Len(c[h])]]
      BY <2>3, <2>4
    <2>6. MinesTo(f, k, c)
      BY <2>5 DEF MinesTo
    <2>7. QED
      BY <2>6
  <1>4. QED
    BY <1>2, <1>3

LEMMA MiningUnfold ==
  ASSUME NEW c, Len(c) \in Nat
  PROVE  MinesTo(Mining(c), Len(c), c)
  <1>1. Mining(c) = CHOOSE g : MinesTo(g, Len(c), c)
    BY DEF Mining, MinesTo
  <1>2. \E g : MinesTo(g, Len(c), c)
    BY MiningExists
  <1>3. QED
    BY <1>1, <1>2

(* Chains with the same first blocks have the same log of them.            *)
SameFirst(c, d, m) == \A h \in 1..m : c[h] = d[h]
LEMMA MiningAgrees ==
  ASSUME NEW c, NEW d, NEW m \in Nat, NEW n \in Nat, m <= n,
         SameFirst(c, d, m),
         NEW g, MinesTo(g, m, c), NEW f, MinesTo(f, n, d)
  PROVE  g[m] = f[m]
  <1> DEFINE Bad == {k \in 0..m : g[k] # f[k]}
  <1>1. \A h \in 0..m : g[h] = IF h = 0 THEN <<>> ELSE Executing(g[h - 1], h, c[h])[Len(c[h])]
    BY DEF MinesTo
  <1>2. \A h \in 0..m : f[h] = IF h = 0 THEN <<>> ELSE Executing(f[h - 1], h, d[h])[Len(d[h])]
    BY DEF MinesTo
  <1>3. Bad = {}
    <2> SUFFICES ASSUME Bad # {} PROVE FALSE
      OBVIOUS
    <2>1. PICK k \in Bad : \A j \in Bad : k <= j
      <3>1. Bad \in SUBSET Nat
        OBVIOUS
      <3> HIDE DEF Bad
      <3>2. QED
        BY <3>1, Least
    <2>2. k # 0
      BY <1>1, <1>2
    <2>3. k \in 1..m /\ k - 1 \in 0..m /\ k - 1 \notin Bad
      BY <2>1, <2>2
    <2>4. g[k - 1] = f[k - 1] /\ c[k] = d[k]
      BY <2>3 DEF SameFirst
    <2>5. g[k] = f[k]
      BY <1>1, <1>2, <2>2, <2>3, <2>4
    <2>6. QED
      BY <2>5
  <1>4. QED
    BY <1>3

-------------------------------------------------------------------------------
(* The vault's log                                                         *)

(* Where an event stands, and a log of the transactions up to the i-th of  *)
(* block h: events in order, each on the root those before it left.        *)
Stands(e, c) ==
  /\ e.block \in 1..Len(c) /\ e.index \in 1..Len(c[e.block])
  /\ c[e.block][e.index] = e.tx
NotAfter(e, h, i) == e.block < h \/ (e.block = h /\ e.index <= i)
Earlier(E, n) == UNION {LeavesOf[E[m].tx] : m \in 1..(n - 1)}
LogTo(E, c, h, i) ==
  /\ E \in Seq(EventEntries)
  /\ \A n \in 1..Len(E) : Stands(E[n], c) /\ NotAfter(E[n], h, i)
  /\ \A m, n \in 1..Len(E) : m < n => Before(E[m], E[n])
  /\ \A n \in 1..Len(E) : RootOf[E[n].tx] = Earlier(E, n)

(* F goes on where E ends, with events of block h or later.                *)
Extended(E, F, h) ==
  /\ Len(E) <= Len(F)
  /\ \A n \in 1..Len(E) : F[n] = E[n]
  /\ \A n \in (Len(E) + 1)..Len(F) : F[n].block >= h

LEMMA FulfilStep ==
  ASSUME NEW c \in Chains, NEW h \in 1..Len(c), NEW i \in 1..Len(c[h]),
         NEW E, LogTo(E, c, h, i - 1)
  PROVE  LET F == Fulfil(E, h, i, c[h][i]) IN LogTo(F, c, h, i) /\ Extended(E, F, h)
  <1> DEFINE t == c[h][i]
             e == [block |-> h, index |-> i, tx |-> t]
             F == Fulfil(E, h, i, t)
  <1>0. Len(c) \in Nat /\ c[h] \in Blocks /\ Len(c[h]) \in Nat
    <2>1. Len(c) \in Nat /\ c \in [1..Len(c) -> Blocks]
      BY LenProperties DEF Chains
    <2>2. c[h] \in Blocks
      BY <2>1
    <2>3. QED
      BY <2>1, <2>2, LenProperties DEF Blocks
  <1>1. /\ E \in Seq(EventEntries) /\ Len(E) \in Nat /\ DOMAIN E = 1..Len(E)
        /\ \A n \in 1..Len(E) : E[n] \in EventEntries
    BY LenProperties, ElementOfSeq DEF LogTo
  <1>2. CASE t \in Settlements /\ RootOf[t] = SpentBy(E)
    <2>1. e \in EventEntries /\ e.block = h /\ e.index = i /\ e.tx = t
      BY <1>0, <1>2 DEF EventEntries
    <2>2. F = Append(E, e)
      BY <1>2 DEF Fulfil
    <2>3. /\ F \in Seq(EventEntries) /\ Len(F) = Len(E) + 1
          /\ \A n \in 1..Len(E) : F[n] = E[n]
          /\ F[Len(E) + 1] = e
      BY <1>1, <2>1, <2>2, AppendProperties
    <2>4. Stands(e, c) /\ NotAfter(e, h, i)
      BY <1>0, <2>1 DEF Stands, NotAfter
    <2> HIDE DEF F, e
    <2>5. ASSUME NEW n \in 1..Len(F) PROVE Stands(F[n], c) /\ NotAfter(F[n], h, i)
      <3>1. CASE n = Len(E) + 1
        BY <2>3, <2>4, <3>1
      <3>2. CASE n \in 1..Len(E)
        <4>1. F[n] = E[n] /\ Stands(E[n], c) /\ NotAfter(E[n], h, i - 1) /\ E[n] \in EventEntries
          BY <1>1, <2>3, <3>2 DEF LogTo
        <4>2. NotAfter(E[n], h, i)
          BY <4>1 DEF NotAfter, EventEntries
        <4>3. QED
          BY <4>1, <4>2
      <3>3. QED
        BY <1>1, <2>3, <3>1, <3>2
    <2>6. ASSUME NEW m \in 1..Len(F), NEW n \in 1..Len(F), m < n
          PROVE  Before(F[m], F[n])
      <3>1. m \in 1..Len(E) /\ F[m] = E[m] /\ E[m] \in EventEntries
        BY <1>1, <2>3, <2>6
      <3>2. CASE n = Len(E) + 1
        <4>1. F[n] = e /\ NotAfter(E[m], h, i - 1)
          BY <2>3, <3>1, <3>2 DEF LogTo
        <4>2. QED
          BY <2>1, <3>1, <4>1 DEF NotAfter, Before, EventEntries
      <3>3. CASE n \in 1..Len(E)
        <4>1. F[n] = E[n] /\ Before(E[m], E[n])
          BY <2>3, <2>6, <3>1, <3>3 DEF LogTo
        <4>2. QED
          BY <3>1, <4>1
      <3>4. QED
        BY <1>1, <2>3, <3>2, <3>3
    <2>7. \A n \in 1..Len(F) : Earlier(F, n) = Earlier(E, n)
      <3>1. \A n \in 1..Len(F) : \A m \in 1..(n - 1) : F[m] = E[m]
        BY <1>1, <2>3
      <3>2. QED
        BY <3>1 DEF Earlier
    <2>8. ASSUME NEW n \in 1..Len(F) PROVE RootOf[F[n].tx] = Earlier(F, n)
      <3>0. n = Len(E) + 1 \/ n \in 1..Len(E)
        BY <1>1, <2>3
      <3>1. CASE n = Len(E) + 1
        <4>1. n - 1 = Len(E)
          BY <1>1, <3>1
        <4>2. Earlier(E, n) = SpentBy(E)
          BY <1>1, <4>1 DEF Earlier, SpentBy
        <4>3. Earlier(F, n) = SpentBy(E)
          BY <2>7, <4>2
        <4>4. F[n].tx = t
          BY <2>1, <2>3, <3>1
        <4>5. QED
          BY <1>2, <4>3, <4>4
      <3>2. CASE n \in 1..Len(E)
        BY <2>3, <2>7, <3>2 DEF LogTo
      <3>3. QED
        BY <3>0, <3>1, <3>2
    <2>9. Extended(E, F, h)
      <3>1. \A n \in (Len(E) + 1)..Len(F) : n = Len(E) + 1
        BY <1>1, <2>3
      <3>2. F[Len(E) + 1].block = h /\ h >= h
        BY <2>1, <2>3
      <3>3. \A n \in (Len(E) + 1)..Len(F) : F[n].block >= h
        BY <3>1, <3>2
      <3>4. Len(E) <= Len(F)
        BY <1>1, <2>3
      <3>5. QED
        BY <2>3, <3>3, <3>4 DEF Extended
    <2>10. LogTo(F, c, h, i)
      BY <2>3, <2>5, <2>6, <2>8 DEF LogTo
    <2>11. QED
      BY <2>9, <2>10 DEF F
  <1>3. CASE ~ (t \in Settlements /\ RootOf[t] = SpentBy(E))
    <2>1. F = E
      BY <1>3 DEF Fulfil
    <2>2. \A n \in 1..Len(E) : NotAfter(E[n], h, i - 1) => NotAfter(E[n], h, i)
      BY <1>1 DEF NotAfter, EventEntries
    <2>3. LogTo(E, c, h, i)
      BY <2>2 DEF LogTo
    <2>4. Extended(E, E, h)
      BY <1>1 DEF Extended
    <2>5. QED
      BY <2>1, <2>3, <2>4
  <1>4. QED
    BY <1>2, <1>3

LEMMA ExtendedTrans ==
  ASSUME NEW E \in Seq(EventEntries), NEW F \in Seq(EventEntries), NEW G \in Seq(EventEntries),
         NEW g \in Nat, NEW h \in Nat, g <= h, Extended(E, F, g), Extended(F, G, h)
  PROVE  Extended(E, G, g)
  <1>1. Len(E) \in Nat /\ Len(F) \in Nat /\ Len(G) \in Nat
    BY LenProperties
  <1>2. \A n \in 1..Len(G) : G[n].block \in Nat
    <2>1. \A n \in 1..Len(G) : G[n] \in EventEntries
      BY ElementOfSeq
    <2>2. QED
      BY <2>1 DEF EventEntries
  <1>3. ASSUME NEW n \in (Len(E) + 1)..Len(G) PROVE G[n].block >= g
    <2>1. CASE n \in (Len(E) + 1)..Len(F)
      <3>1. n \in 1..Len(F)
        BY <1>1, <2>1
      <3>2. G[n] = F[n] /\ F[n].block >= g
        BY <2>1, <3>1 DEF Extended
      <3>3. QED
        BY <3>2
    <2>2. CASE n \in (Len(F) + 1)..Len(G)
      BY <1>1, <1>2, <2>2 DEF Extended
    <2>3. QED
      BY <1>1, <2>1, <2>2
  <1>4. QED
    BY <1>1, <1>3 DEF Extended

LEMMA BlockStep ==
  ASSUME NEW c \in Chains, NEW h \in 1..Len(c), NEW E, LogTo(E, c, h, 0)
  PROVE  LET F == Executing(E, h, c[h])[Len(c[h])] IN
         LogTo(F, c, h, Len(c[h])) /\ Extended(E, F, h)
  <1> DEFINE g == Executing(E, h, c[h])
             n == Len(c[h])
             Holds(i) == LogTo(g[i], c, h, i) /\ Extended(E, g[i], h)
             Bad == {i \in 0..n : ~ Holds(i)}
  <1>0. h \in Nat /\ n \in Nat
    <2>1. c \in [1..Len(c) -> Blocks] /\ Len(c) \in Nat
      BY LenProperties DEF Chains
    <2>2. c[h] \in Blocks
      BY <2>1
    <2>3. QED
      BY <2>1, <2>2, LenProperties DEF Blocks
  <1>1. ExecutesTo(g, n, E, h, c[h])
    BY <1>0, ExecutingUnfold
  <1> HIDE DEF g
  <1>2. \A i \in 0..n : g[i] = IF i = 0 THEN E ELSE Fulfil(g[i - 1], h, i, c[h][i])
    <2> HIDE DEF n
    <2>1. QED
      BY <1>1 DEF ExecutesTo
  <1>3. Holds(0)
    <2>1. g[0] = E
      BY <1>0, <1>2
    <2>2. Extended(E, E, h)
      <3>1. Len(E) \in Nat
        BY LenProperties DEF LogTo
      <3>2. QED
        BY <3>1 DEF Extended
    <2>3. QED
      BY <2>1, <2>2
  <1>4. Bad = {}
    <2> SUFFICES ASSUME Bad # {} PROVE FALSE
      OBVIOUS
    <2>1. PICK k \in Bad : \A j \in Bad : k <= j
      <3>1. Bad \in SUBSET Nat
        BY <1>0
      <3> HIDE DEF Bad
      <3>2. QED
        BY <3>1, Least
    <2>2. k \in 1..n /\ k - 1 \in 0..n /\ k - 1 \notin Bad
      BY <1>0, <1>3, <2>1
    <2>3. Holds(k - 1)
      BY <2>2
    <2> HIDE DEF n
    <2>4. /\ LogTo(g[k], c, h, k)
          /\ Extended(g[k - 1], g[k], h)
      <3>1. g[k] = Fulfil(g[k - 1], h, k, c[h][k])
        BY <1>0, <1>2, <2>2
      <3>2. k \in 1..Len(c[h]) /\ LogTo(g[k - 1], c, h, k - 1)
        BY <2>2, <2>3 DEF n
      <3>3. QED
        BY <3>1, <3>2, FulfilStep
    <2>5. Extended(E, g[k], h)
      BY <1>0, <2>3, <2>4, ExtendedTrans DEF LogTo
    <2>6. QED
      BY <2>1, <2>4, <2>5
  <1>5. Holds(n)
    BY <1>0, <1>4
  <1>6. QED
    BY <1>5 DEF g

LEMMA MiningSteps ==
  ASSUME NEW c \in Chains, NEW g \in 0..Len(c)
  PROVE  \A h \in g..Len(c) :
           /\ LogTo(Mining(c)[g], c, g + 1, 0) /\ LogTo(Mining(c)[h], c, h + 1, 0)
           /\ Extended(Mining(c)[g], Mining(c)[h], g + 1)
  <1> DEFINE f == Mining(c)
             n == Len(c)
  <1>0. n \in Nat
    BY LenProperties DEF Chains
  <1>1. \A h \in 0..n : f[h] = IF h = 0 THEN <<>> ELSE Executing(f[h - 1], h, c[h])[Len(c[h])]
    <2>1. MinesTo(f, n, c)
      BY <1>0, MiningUnfold
    <2> HIDE DEF f, n
    <2>2. QED
      BY <2>1 DEF MinesTo
  <1>2. LogTo(<<>>, c, 1, 0)
    <2>1. <<>> \in Seq(EventEntries) /\ Len(<<>>) = 0
      BY EmptySeq
    <2>2. QED
      BY <2>1 DEF LogTo
  <1>3. ASSUME NEW h \in 1..n, LogTo(f[h - 1], c, h, 0)
        PROVE  LogTo(f[h], c, h + 1, 0) /\ Extended(f[h - 1], f[h], h)
    <2>1. f[h] = Executing(f[h - 1], h, c[h])[Len(c[h])]
      BY <1>0, <1>1
    <2>2. LogTo(f[h], c, h, Len(c[h])) /\ Extended(f[h - 1], f[h], h)
      BY <1>3, <2>1, BlockStep
    <2>3. \A m \in 1..Len(f[h]) :
            NotAfter(f[h][m], h, Len(c[h])) => NotAfter(f[h][m], h + 1, 0)
      <3>1. \A m \in 1..Len(f[h]) : f[h][m] \in EventEntries
        BY <2>2, ElementOfSeq DEF LogTo
      <3>2. \A m \in 1..Len(f[h]) : f[h][m].block \in Nat
        BY <3>1 DEF EventEntries
      <3> HIDE DEF f
      <3>3. QED
        BY <3>2 DEF NotAfter
    <2>4. LogTo(f[h], c, h + 1, 0)
      BY <2>2, <2>3 DEF LogTo
    <2>5. QED
      BY <2>2, <2>4
  <1> HIDE DEF f, n
  <1>4. \A h \in 0..n : LogTo(f[h], c, h + 1, 0)
    <2> DEFINE Bad == {h \in 0..n : ~ LogTo(f[h], c, h + 1, 0)}
    <2> SUFFICES ASSUME Bad # {} PROVE FALSE
      OBVIOUS
    <2>1. PICK k \in Bad : \A j \in Bad : k <= j
      <3>1. Bad \in SUBSET Nat
        BY <1>0
      <3> HIDE DEF Bad
      <3>2. QED
        BY <3>1, Least
    <2>2. k # 0
      BY <1>0, <1>1, <1>2
    <2>3. k \in 1..n /\ k - 1 \in 0..n /\ k - 1 \notin Bad /\ (k - 1) + 1 = k
      BY <1>0, <2>1, <2>2
    <2>4. LogTo(f[k - 1], c, k, 0)
      BY <2>3
    <2>5. QED
      BY <1>3, <2>1, <2>3, <2>4
  <1>5. \A h \in g..n : Extended(f[g], f[h], g + 1)
    <2> DEFINE Bad == {h \in g..n : ~ Extended(f[g], f[h], g + 1)}
    <2> SUFFICES ASSUME Bad # {} PROVE FALSE
      OBVIOUS
    <2>0. g \in 0..n
      BY DEF n
    <2>1. PICK k \in Bad : \A j \in Bad : k <= j
      <3>1. Bad \in SUBSET Nat
        BY <1>0, <2>0
      <3> HIDE DEF Bad
      <3>2. QED
        BY <3>1, Least
    <2>2. k # g
      <3>1. Len(f[g]) \in Nat
        BY <1>4, <2>0, LenProperties DEF LogTo
      <3>2. Extended(f[g], f[g], g + 1)
        BY <3>1 DEF Extended
      <3>3. QED
        BY <2>1, <3>2
    <2>3. k \in 1..n /\ k - 1 \in g..n /\ k - 1 \in 0..n /\ k - 1 \notin Bad /\ (k - 1) + 1 = k /\ g + 1 <= k
      BY <1>0, <2>0, <2>1, <2>2
    <2>4. LogTo(f[k - 1], c, k, 0) /\ LogTo(f[k], c, k + 1, 0) /\ LogTo(f[g], c, g + 1, 0)
      BY <1>4, <2>0, <2>3
    <2>5. Extended(f[g], f[k - 1], g + 1)
      BY <2>3
    <2>6. Extended(f[k - 1], f[k], k)
      BY <1>3, <2>3, <2>4
    <2>7. Extended(f[g], f[k], g + 1)
      <3>1. g + 1 \in Nat /\ k \in Nat
        BY <1>0, <2>0, <2>3
      <3>2. f[g] \in Seq(EventEntries) /\ f[k - 1] \in Seq(EventEntries) /\ f[k] \in Seq(EventEntries)
        BY <2>4 DEF LogTo
      <3>3. QED
        BY <2>3, <2>5, <2>6, <3>1, <3>2, ExtendedTrans
    <2>8. QED
      BY <2>1, <2>7
  <1>6. QED
    BY <1>0, <1>4, <1>5 DEF f, n

LEMMA EventLogIs ==
  ASSUME NEW c \in Chains
  PROVE  LogTo(EventLog(c), c, Len(c) + 1, 0)
  <1>1. Len(c) \in Nat
    BY LenProperties DEF Chains
  <1>2. Len(c) \in Len(c)..Len(c) /\ Len(c) \in 0..Len(c)
    BY <1>1
  <1>3. QED
    BY <1>2, MiningSteps DEF EventLog

LEMMA EventsTyped ==
  ASSUME NEW c \in Chains
  PROVE  /\ EventLog(c) \in Seq(EventEntries) /\ Len(EventLog(c)) \in Nat
         /\ DOMAIN EventLog(c) = 1..Len(EventLog(c))
         /\ \A n \in 1..Len(EventLog(c)) :
              /\ EventLog(c)[n] \in EventEntries /\ Stands(EventLog(c)[n], c)
              /\ EventLog(c)[n].block \in Nat /\ EventLog(c)[n].index \in Nat
              /\ EventLog(c)[n].tx \in Settlements
         /\ ToSet(EventLog(c)) = {EventLog(c)[n] : n \in 1..Len(EventLog(c))}
         /\ History(c) \in Seq(Settlements) /\ Len(History(c)) = Len(EventLog(c))
         /\ \A n \in 1..Len(EventLog(c)) : History(c)[n] = EventLog(c)[n].tx
         /\ Executed(c) = {EventLog(c)[n].tx : n \in 1..Len(EventLog(c))}
  <1> DEFINE E == EventLog(c)
             H == History(c)
  <1>1. LogTo(E, c, Len(c) + 1, 0)
    BY EventLogIs
  <1>2. E \in Seq(EventEntries) /\ Len(E) \in Nat /\ DOMAIN E = 1..Len(E)
    BY <1>1, LenProperties DEF LogTo
  <1>3. H = [n \in 1..Len(E) |-> E[n].tx]
    BY <1>2 DEF History
  <1> HIDE DEF E, H
  <1>4. \A n \in 1..Len(E) : E[n] \in EventEntries /\ Stands(E[n], c)
    BY <1>1, <1>2, ElementOfSeq DEF LogTo
  <1>5. \A n \in 1..Len(E) : E[n].block \in Nat /\ E[n].index \in Nat /\ E[n].tx \in Settlements
    BY <1>4 DEF EventEntries
  <1>6. H \in Seq(Settlements) /\ Len(H) = Len(E) /\ DOMAIN H = 1..Len(E)
    BY <1>2, <1>3, <1>5
  <1>7. ToSet(E) = {E[n] : n \in 1..Len(E)}
    BY <1>2 DEF ToSet
  <1>8. ToSet(H) = {E[n].tx : n \in 1..Len(E)}
    BY <1>3, <1>6 DEF ToSet
  <1>9. QED
    BY <1>2, <1>3, <1>4, <1>5, <1>6, <1>7, <1>8 DEF Executed, E, H

(* The first blocks, and the log of them: the first part of the log.       *)
LEMMA PrefixLog ==
  ASSUME NEW c \in Chains, NEW g \in 0..Len(c)
  PROVE  LET d == SubSeq(c, 1, g) IN
         /\ d \in Chains /\ Len(d) = g /\ \A h \in 1..g : d[h] = c[h]
         /\ Extended(EventLog(d), EventLog(c), g + 1)
  <1> DEFINE d == SubSeq(c, 1, g)
  <1>1. Len(c) \in Nat /\ g \in Nat /\ \A h \in 1..Len(c) : c[h] \in Blocks
    BY LenProperties, ElementOfSeq DEF Chains
  <1>2. d \in Chains /\ Len(d) = g /\ \A h \in 1..g : d[h] = c[h]
    <2>1. \A h \in 1..g : c[h] \in Blocks
      BY <1>1
    <2>2. /\ d \in Seq(Blocks)
          /\ Len(d) = IF 1 <= g THEN g - 1 + 1 ELSE 0
          /\ \A i \in 1..(g - 1 + 1) : d[i] = c[1 + i - 1]
      BY <1>1, <2>1, SubSeqProperties
    <2> HIDE DEF d
    <2>3. QED
      BY <1>1, <2>2 DEF Chains
  <1> HIDE DEF d
  <1>3. EventLog(d) = Mining(c)[g]
    <2>1. MinesTo(Mining(d), g, d) /\ MinesTo(Mining(c), Len(c), c)
      <3>1. MinesTo(Mining(d), Len(d), d)
        BY <1>1, <1>2, MiningUnfold
      <3>2. QED
        BY <1>1, <1>2, <3>1, MiningUnfold
    <2>2. Mining(d)[g] = Mining(c)[g]
      <3> DEFINE X == Mining(d)
                 Y == Mining(c)
      <3>1. MinesTo(X, g, d) /\ MinesTo(Y, Len(c), c)
        BY <2>1
      <3>2. g \in Nat /\ Len(c) \in Nat /\ g <= Len(c) /\ SameFirst(d, c, g)
        BY <1>1, <1>2 DEF SameFirst
      <3> HIDE DEF X, Y
      <3>3. X[g] = Y[g]
        BY <3>1, <3>2, MiningAgrees
      <3>4. QED
        BY <3>3 DEF X, Y
    <2>3. QED
      BY <1>2, <2>2 DEF EventLog
  <1>4. Extended(Mining(c)[g], Mining(c)[Len(c)], g + 1)
    <2>1. Len(c) \in g..Len(c)
      BY <1>1
    <2>2. QED
      BY <2>1, MiningSteps
  <1>5. QED
    BY <1>2, <1>3, <1>4 DEF EventLog, d

(* An event of a block is in the log of every chain up to that block, and  *)
(* those of the first blocks stay.                                         *)
LEMMA PrefixEvents ==
  ASSUME NEW c \in Chains, NEW g \in 0..Len(c)
  PROVE  LET d == SubSeq(c, 1, g) IN
         /\ ToSet(EventLog(d)) \subseteq ToSet(EventLog(c))
         /\ \A e \in ToSet(EventLog(c)) : e.block <= g => e \in ToSet(EventLog(d))
         /\ \A e \in ToSet(EventLog(d)) : e.block \in 1..g
         /\ Executed(d) \subseteq Executed(c)
         /\ IsPrefix(History(d), History(c))
  <1> DEFINE d == SubSeq(c, 1, g)
             E == EventLog(c)
             D == EventLog(d)
  <1>1. d \in Chains /\ Len(d) = g /\ Extended(D, E, g + 1)
    BY PrefixLog
  <1>2. g \in Nat
    BY LenProperties DEF Chains
  <1> HIDE DEF d
  <1>3. /\ Len(D) \in Nat /\ ToSet(D) = {D[n] : n \in 1..Len(D)}
        /\ Len(E) \in Nat /\ ToSet(E) = {E[n] : n \in 1..Len(E)}
        /\ \A n \in 1..Len(E) : E[n].block \in Nat
        /\ Executed(d) = {D[n].tx : n \in 1..Len(D)}
        /\ Executed(c) = {E[n].tx : n \in 1..Len(E)}
    BY <1>1, EventsTyped
  <1>4. \A n \in 1..Len(D) : D[n].block \in 1..g
    BY <1>1, EventsTyped DEF Stands
  <1>5. /\ History(d) \in Seq(Settlements) /\ Len(History(d)) = Len(D)
        /\ History(c) \in Seq(Settlements) /\ Len(History(c)) = Len(E)
        /\ \A n \in 1..Len(D) : History(d)[n] = D[n].tx
        /\ \A n \in 1..Len(E) : History(c)[n] = E[n].tx
    BY <1>1, EventsTyped
  <1> HIDE DEF E, D
  <1>6. Len(D) <= Len(E) /\ \A n \in 1..Len(D) : n \in 1..Len(E) /\ D[n] = E[n]
    BY <1>1, <1>3 DEF Extended
  <1>7. ASSUME NEW e \in ToSet(E), e.block <= g PROVE e \in ToSet(D)
    <2>1. PICK n \in 1..Len(E) : e = E[n]
      BY <1>3
    <2>2. n \notin (Len(D) + 1)..Len(E)
      BY <1>1, <1>2, <1>3, <1>7, <2>1 DEF Extended
    <2>3. n \in 1..Len(D)
      BY <1>3, <2>2
    <2>4. QED
      BY <1>3, <1>6, <2>1, <2>3
  <1>8. IsPrefix(History(d), History(c))
    <2> DEFINE s == History(d)
               t == History(c)
               k == Len(D)
    <2>1. \A n \in 1..k : s[n] = t[n] /\ t[n] \in Settlements
      BY <1>5, <1>6, ElementOfSeq
    <2>2. SubSeq(s, 1, k) = s
      BY <1>5, SubSeqFull
    <2>3. /\ SubSeq(t, 1, k) \in Seq(Settlements)
          /\ Len(SubSeq(t, 1, k)) = IF 1 <= k THEN k - 1 + 1 ELSE 0
          /\ \A n \in 1..(k - 1 + 1) : SubSeq(t, 1, k)[n] = t[1 + n - 1]
      BY <1>3, <2>1, SubSeqProperties
    <2> DEFINE u == SubSeq(t, 1, k)
    <2>4. Len(u) = k /\ \A n \in 1..k : u[n] = t[n]
      BY <1>3, <2>3
    <2>5. u = s
      <3>1. u \in Seq(Settlements) /\ s \in Seq(Settlements) /\ Len(s) = k
        BY <1>5, <2>3
      <3> HIDE DEF u, s, t, k
      <3>2. QED
        BY <2>1, <2>4, <3>1, SeqEqual
    <2>6. QED
      BY <1>5, <1>6, <2>2, <2>5 DEF IsPrefix
  <1>9. QED
    BY <1>3, <1>4, <1>6, <1>7, <1>8 DEF D, E, d

(* The leaves of some of the events are those of all only if they are all  *)
(* of them: no event adds nothing, and none adds what another did.         *)
LEMMA WholeLog ==
  ASSUME NEW c \in Chains, NEW F \in SUBSET ToSet(EventLog(c)),
         UNION {LeavesOf[e.tx] : e \in F} = SpentBy(EventLog(c))
  PROVE  F = ToSet(EventLog(c))
  <1> DEFINE E == EventLog(c)
  <1>1. /\ Len(E) \in Nat /\ DOMAIN E = 1..Len(E) /\ ToSet(E) = {E[n] : n \in 1..Len(E)}
        /\ \A n \in 1..Len(E) : E[n].tx \in Settlements
    BY EventsTyped
  <1>2. \A n \in 1..Len(E) : RootOf[E[n].tx] = Earlier(E, n)
    BY EventLogIs DEF LogTo
  <1>3. SpentBy(E) = UNION {LeavesOf[E[n].tx] : n \in 1..Len(E)}
    BY <1>1 DEF SpentBy
  <1> HIDE DEF E
  <1>4. \A t \in Settlements : LeavesOf[t] # {} /\ LeavesOf[t] \cap RootOf[t] = {}
    BY RelayerAssumption
  <1>5. ASSUME NEW n \in 1..Len(E), NEW m \in 1..Len(E), m < n,
               NEW x, x \in LeavesOf[E[n].tx], x \in LeavesOf[E[m].tx]
        PROVE  FALSE
    <2>1. m \in 1..(n - 1)
      BY <1>1, <1>5
    <2>2. x \in RootOf[E[n].tx]
      BY <1>2, <1>5, <2>1 DEF Earlier
    <2>3. QED
      BY <1>1, <1>4, <1>5, <2>2
  <1>6. ASSUME NEW n \in 1..Len(E), E[n] \notin F PROVE FALSE
    <2>1. PICK x : x \in LeavesOf[E[n].tx]
      BY <1>1, <1>4
    <2>2. x \in SpentBy(E)
      BY <1>3, <2>1
    <2>3. PICK e \in F : x \in LeavesOf[e.tx]
      BY <2>2 DEF E
    <2>4. PICK m \in 1..Len(E) : e = E[m]
      BY <1>1 DEF E
    <2>5. m < n \/ n < m
      BY <1>1, <1>6, <2>3, <2>4
    <2>6. QED
      BY <1>5, <2>1, <2>3, <2>4, <2>5
  <1>7. QED
    BY <1>1, <1>6 DEF E

(* Events sorted by where they stand give the log they are from.           *)
LEMMA OrderedLog ==
  ASSUME NEW c \in Chains
  PROVE  Ordered(ToSet(EventLog(c))) = EventLog(c)
  <1> DEFINE E == EventLog(c)
             S == ToSet(E)
             N == Len(E)
             Sorted(list) == \A m, n \in DOMAIN list : m < n => Before(list[m], list[n])
  <1>1. /\ N \in Nat /\ DOMAIN E = 1..N /\ S = {E[n] : n \in 1..N}
        /\ E \in Seq(EventEntries)
        /\ \A n \in 1..N : E[n].block \in Nat /\ E[n].index \in Nat
    BY EventsTyped
  <1>2. \A m, n \in 1..N : m < n => Before(E[m], E[n])
    BY EventLogIs DEF LogTo
  <1>3. \A a, b \in S : ~ (Before(a, b) /\ Before(b, a))
    BY <1>1 DEF Before
  <1>4. E \in [1..N -> S]
    <2>1. E \in [1..N -> EventEntries]
      BY <1>1, LenProperties
    <2> HIDE DEF E
    <2>2. QED
      BY <1>1, <2>1
  <1> HIDE DEF E, N, S
  <1>5. IsFiniteSet(S) /\ Cardinality(S) = N
    <2>1. \A m, n \in 1..N : E[m] = E[n] => m = n
      <3> SUFFICES ASSUME NEW m \in 1..N, NEW n \in 1..N, E[m] = E[n], m # n PROVE FALSE
        OBVIOUS
      <3>1. m < n \/ n < m
        BY <1>1
      <3>2. E[m] \in S /\ E[n] \in S
        BY <1>1
      <3>3. QED
        BY <1>2, <1>3, <3>1, <3>2
    <2>2. ExistsBijection(1..N, S)
      <3>1. E \in Injection(1..N, S) /\ E \in Surjection(1..N, S)
        BY <1>1, <1>4, <2>1 DEF Injection, Surjection, IsInjective
      <3>2. QED
        BY <3>1 DEF Bijection, ExistsBijection
    <2>3. IsFiniteSet(1..N) /\ Cardinality(1..N) = N
      <3>1. IsFiniteSet(1..N) /\ Cardinality(1..N) = IF 1 > N THEN 0 ELSE N - 1 + 1
        BY <1>1, FS_Interval
      <3>2. QED
        BY <1>1, <3>1
    <2>4. QED
      BY <2>2, <2>3, FS_Bijection
  <1>6. Sorted(E)
    BY <1>1, <1>2
  <1>7. ASSUME NEW L \in [1..N -> S], Sorted(L) PROVE L = E
    <2>1. \A m, n \in 1..N : m < n => Before(L[m], L[n])
      BY <1>7
    <2>2. \A m, n \in 1..N : L[m] = L[n] => m = n
      <3> SUFFICES ASSUME NEW m \in 1..N, NEW n \in 1..N, L[m] = L[n], m # n PROVE FALSE
        OBVIOUS
      <3>1. m < n \/ n < m
        BY <1>1
      <3>2. QED
        BY <1>3, <2>1, <3>1
    <2>3. L \in Surjection(1..N, S)
      <3>1. L \in Injection(1..N, S)
        BY <2>2 DEF Injection, IsInjective
      <3>2. Cardinality(1..N) = N
        <4>1. Cardinality(1..N) = IF 1 > N THEN 0 ELSE N - 1 + 1
          BY <1>1, FS_Interval
        <4>2. QED
          BY <1>1, <4>1
      <3>3. QED
        BY <1>5, <3>1, <3>2, FS_Injection
    <2>4. \A s \in S : \E q \in 1..N : L[q] = s
      BY <2>3 DEF Surjection
    <2> DEFINE Bad == {n \in 1..N : L[n] # E[n]}
    <2>5. Bad = {}
      <3> SUFFICES ASSUME Bad # {} PROVE FALSE
        OBVIOUS
      <3>1. PICK k \in Bad : \A j \in Bad : k <= j
        <4>1. Bad \in SUBSET Nat
          BY <1>1
        <4> HIDE DEF Bad
        <4>2. QED
          BY <4>1, Least
      <3>2. k \in 1..N /\ L[k] # E[k] /\ \A j \in 1..N : j < k => L[j] = E[j]
        BY <1>1, <3>1
      <3> HIDE DEF Bad
      <3>3. PICK p \in 1..N : L[k] = E[p]
        BY <1>1, <3>2
      <3>4. PICK q \in 1..N : L[q] = E[k]
        BY <1>1, <2>4, <3>2
      <3>5. k < p
        <4>1. p # k
          BY <3>2, <3>3
        <4>2. ASSUME p < k PROVE FALSE
          <5>1. L[p] = L[k]
            BY <3>2, <3>3, <4>2
          <5>2. QED
            BY <1>1, <2>2, <3>2, <4>2, <5>1
        <4>3. QED
          BY <1>1, <3>2, <4>1, <4>2
      <3>6. k < q
        <4>1. q # k
          BY <3>2, <3>4
        <4>2. ASSUME q < k PROVE FALSE
          <5>1. E[q] = E[k]
            BY <3>2, <3>4, <4>2
          <5>2. Before(E[q], E[k]) /\ E[q] \in S
            BY <1>1, <1>2, <3>2, <4>2
          <5>3. QED
            BY <1>3, <5>1, <5>2
        <4>3. QED
          BY <1>1, <3>2, <4>1, <4>2
      <3>7. Before(L[k], L[q]) /\ Before(E[k], E[p])
        BY <1>2, <2>1, <3>2, <3>5, <3>6
      <3>8. E[p] \in S /\ E[k] \in S
        BY <1>1, <3>2
      <3>9. QED
        BY <1>3, <3>3, <3>4, <3>7, <3>8
    <2>6. \A n \in 1..N : L[n] = E[n]
      BY <2>5
    <2>7. L = [n \in 1..N |-> L[n]] /\ E = [n \in 1..N |-> E[n]]
      BY <1>4
    <2>8. QED
      BY <2>6, <2>7
  <1>8. Ordered(S) = CHOOSE list \in [1..N -> S] : Sorted(list)
    BY <1>5 DEF Ordered
  <1>9. QED
    BY <1>4, <1>6, <1>7, <1>8 DEF E, S

-------------------------------------------------------------------------------
(* Where a transaction stands                                              *)

(* No transaction is mined twice.                                          *)
Distinct(c) ==
  \A g, h \in 1..Len(c) : \A i \in 1..Len(c[g]), j \in 1..Len(c[h]) :
    c[g][i] = c[h][j] => g = h /\ i = j

LEMMA ChainTyped ==
  ASSUME NEW c \in Chains
  PROVE  /\ Len(c) \in Nat /\ DOMAIN c = 1..Len(c)
         /\ \A h \in 1..Len(c) :
              /\ c[h] \in Blocks /\ Len(c[h]) \in Nat
              /\ ToSet(c[h]) = {c[h][i] : i \in 1..Len(c[h])}
              /\ ToSet(c[h]) \subseteq Transactions
  <1>1. Len(c) \in Nat /\ DOMAIN c = 1..Len(c)
    BY LenProperties DEF Chains
  <1>2. ASSUME NEW h \in 1..Len(c)
        PROVE  /\ c[h] \in Blocks /\ Len(c[h]) \in Nat
               /\ ToSet(c[h]) = {c[h][i] : i \in 1..Len(c[h])}
               /\ ToSet(c[h]) \subseteq Transactions
    <2>1. c[h] \in Blocks
      BY ElementOfSeq DEF Chains
    <2> DEFINE b == c[h]
    <2> HIDE DEF b
    <2>2. b \in Seq(Transactions)
      BY <2>1 DEF b, Blocks
    <2>3. Len(b) \in Nat /\ DOMAIN b = 1..Len(b) /\ \A i \in 1..Len(b) : b[i] \in Transactions
      BY <2>2, LenProperties, ElementOfSeq
    <2>4. ToSet(b) = {b[i] : i \in 1..Len(b)}
      BY <2>3 DEF ToSet
    <2>5. ToSet(b) \subseteq Transactions
      BY <2>3, <2>4
    <2>6. QED
      BY <2>1, <2>3, <2>4, <2>5 DEF b
  <1>3. QED
    BY <1>1, <1>2

LEMMA MinedOnce ==
  ASSUME NEW c \in Chains, Distinct(c),
         NEW g \in 1..Len(c), NEW h \in 1..Len(c), NEW t, t \in ToSet(c[g]), t \in ToSet(c[h])
  PROVE  g = h
  <1>0. /\ ToSet(c[g]) = {c[g][i] : i \in 1..Len(c[g])}
        /\ ToSet(c[h]) = {c[h][i] : i \in 1..Len(c[h])}
    BY ChainTyped
  <1>1. PICK i \in 1..Len(c[g]) : t = c[g][i]
    BY <1>0
  <1>2. PICK j \in 1..Len(c[h]) : t = c[h][j]
    BY <1>0
  <1>3. c[g][i] = c[h][j]
    BY <1>1, <1>2
  <1>4. \A k \in 1..Len(c[g]), l \in 1..Len(c[h]) : c[g][k] = c[h][l] => g = h
    BY DEF Distinct
  <1>5. QED
    BY <1>3, <1>4

LEMMA BlockOfIs ==
  ASSUME NEW c \in Chains, Distinct(c), NEW h \in 1..Len(c), NEW t, t \in ToSet(c[h])
  PROVE  BlockOf(t, c) = h /\ Mined(t, c)
  <1>1. \A g \in 1..Len(c) : t \in ToSet(c[g]) => g = h
    BY MinedOnce
  <1>2. QED
    BY <1>1 DEF BlockOf, Mined

LEMMA ExecutedIsMined ==
  ASSUME NEW c \in Chains, NEW t \in Executed(c)
  PROVE  \E e \in ToSet(EventLog(c)) : e.tx = t /\ e.block \in 1..Len(c) /\ t \in ToSet(c[e.block])
  <1> DEFINE E == EventLog(c)
  <1>1. /\ ToSet(E) = {E[n] : n \in 1..Len(E)}
        /\ Executed(c) = {E[n].tx : n \in 1..Len(E)}
        /\ \A n \in 1..Len(E) : Stands(E[n], c)
    BY EventsTyped
  <1> HIDE DEF E
  <1>2. PICK n \in 1..Len(E) : t = E[n].tx
    BY <1>1
  <1>3. /\ E[n].block \in 1..Len(c) /\ E[n].index \in 1..Len(c[E[n].block])
        /\ c[E[n].block][E[n].index] = t
    BY <1>1, <1>2 DEF Stands
  <1>4. t \in ToSet(c[E[n].block])
    <2> DEFINE h == E[n].block
               b == c[h]
    <2>1. h \in 1..Len(c) /\ ToSet(b) = {b[i] : i \in 1..Len(b)}
      BY <1>3, ChainTyped
    <2>2. E[n].index \in 1..Len(b) /\ b[E[n].index] = t
      BY <1>3
    <2> HIDE DEF b
    <2>3. t \in ToSet(b)
      BY <2>1, <2>2
    <2>4. QED
      BY <2>3 DEF b
  <1>5. QED
    BY <1>1, <1>2, <1>3, <1>4 DEF E

(* Whether a transaction is executed is settled by the blocks up to its    *)
(* own.                                                                    *)
LEMMA ExecutedWhereMined ==
  ASSUME NEW c \in Chains, Distinct(c), NEW g \in 0..Len(c), NEW h \in 1..g,
         NEW t, t \in ToSet(c[h])
  PROVE  t \in Executed(c) <=> t \in Executed(SubSeq(c, 1, g))
  <1> DEFINE d == SubSeq(c, 1, g)
  <1>0. Len(c) \in Nat /\ h \in 1..Len(c) /\ h <= g
    BY ChainTyped
  <1>1. ASSUME t \in Executed(c) PROVE t \in Executed(d)
    <2>1. PICK e \in ToSet(EventLog(c)) : e.tx = t /\ e.block \in 1..Len(c) /\ t \in ToSet(c[e.block])
      BY <1>1, ExecutedIsMined
    <2>2. e.block = h
      BY <1>0, <2>1, MinedOnce
    <2>3. e \in ToSet(EventLog(d))
      BY <1>0, <2>2, PrefixEvents
    <2>4. d \in Chains
      BY PrefixLog
    <2> HIDE DEF d
    <2>5. ToSet(EventLog(d)) = {EventLog(d)[n] : n \in 1..Len(EventLog(d))}
          /\ Executed(d) = {EventLog(d)[n].tx : n \in 1..Len(EventLog(d))}
      BY <2>4, EventsTyped
    <2>6. PICK n \in 1..Len(EventLog(d)) : e = EventLog(d)[n]
      BY <2>3, <2>5
    <2>7. QED
      BY <2>1, <2>5, <2>6
  <1>2. ASSUME t \in Executed(d) PROVE t \in Executed(c)
    BY <1>2, PrefixEvents
  <1>3. QED
    BY <1>1, <1>2

-------------------------------------------------------------------------------
(* Heights                                                                 *)

LEMMA MaxOfTwo ==
  ASSUME NEW a \in Int, NEW b \in Int
  PROVE  Max({a, b}) = IF a >= b THEN a ELSE b
  <1> DEFINE m == IF a >= b THEN a ELSE b
  <1>1. m \in {a, b} /\ \A y \in {a, b} : m >= y
    OBVIOUS
  <1>2. \A x \in {a, b} : (\A y \in {a, b} : x >= y) => x = m
    OBVIOUS
  <1> HIDE DEF m
  <1>3. QED
    BY <1>1, <1>2 DEF Max, m

LEMMA MinOfTwo ==
  ASSUME NEW a \in Int, NEW b \in Int
  PROVE  Min({a, b}) = IF a =< b THEN a ELSE b
  <1> DEFINE m == IF a =< b THEN a ELSE b
  <1>1. m \in {a, b} /\ \A y \in {a, b} : m =< y
    OBVIOUS
  <1>2. \A x \in {a, b} : (\A y \in {a, b} : x =< y) => x = m
    OBVIOUS
  <1> HIDE DEF m
  <1>3. QED
    BY <1>1, <1>2 DEF Min, m

LEMMA FinalHeightIs ==
  ASSUME NEW h \in Nat
  PROVE  /\ FinalHeight(h) = IF h >= K - 1 THEN h - (K - 1) ELSE 0
         /\ FinalHeight(h) \in 0..h
         /\ Final(h) = IF h >= K THEN h - (K - 1) ELSE 1
  <1>1. K \in Nat /\ K >= 1
    BY RelayerAssumption
  <1>2. FinalHeight(h) = IF h - (K - 1) >= 0 THEN h - (K - 1) ELSE 0
    BY <1>1, MaxOfTwo DEF FinalHeight
  <1>3. Final(h) = IF h - (K - 1) >= 1 THEN h - (K - 1) ELSE 1
    BY <1>1, MaxOfTwo DEF Final, Deploy
  <1>4. QED
    BY <1>1, <1>2, <1>3

(* A replica knows the final blocks, if there are any.                     *)
LEMMA HeightIs ==
  ASSUME chain \in Chains, Len(chain) >= 1, NEW lag \in Lags
  PROVE  /\ Height(lag) \in 1..Len(chain)
         /\ FinalHeight(Len(chain)) <= Height(lag)
         /\ Height(lag) >= Len(chain) - MaxLag
         /\ FinalHeight(Height(lag)) \in 0..FinalHeight(Len(chain))
  <1>1. Len(chain) \in Nat /\ K \in Nat /\ K >= 1 /\ MaxLag \in 0..(K - 1)
    BY ChainTyped, RelayerAssumption
  <1>2. lag \in 0..(IF MaxLag =< Len(chain) - 1 THEN MaxLag ELSE Len(chain) - 1)
    BY <1>1, MinOfTwo DEF Lags
  <1>3. Height(lag) = Len(chain) - lag
    BY DEF Height
  <1>4. Height(lag) \in 1..Len(chain)
    BY <1>1, <1>2, <1>3
  <1> DEFINE l == Len(chain)
             h == Height(lag)
  <1>5. /\ FinalHeight(l) = IF l >= K - 1 THEN l - (K - 1) ELSE 0
        /\ FinalHeight(h) = IF h >= K - 1 THEN h - (K - 1) ELSE 0
    <2>1. l \in Nat /\ h \in Nat
      BY <1>1, <1>4
    <2> HIDE DEF l, h
    <2>2. QED
      BY <2>1, FinalHeightIs
  <1>6. h = l - lag /\ h \in 1..l /\ l \in Nat /\ lag \in 0..MaxLag
    BY <1>1, <1>2, <1>3, <1>4
  <1> HIDE DEF l, h
  <1>7. FinalHeight(l) <= h /\ h >= l - MaxLag /\ FinalHeight(h) \in 0..FinalHeight(l)
    BY <1>1, <1>5, <1>6
  <1>8. QED
    BY <1>6, <1>7 DEF l, h

-------------------------------------------------------------------------------
(* The chain                                                               *)

(* No transaction is twice on the chain, or on it and pending: a block     *)
(* that is dropped gives its transactions back.                            *)
ChainInv ==
  /\ chain \in Chains /\ Len(chain) >= 1 /\ chain[1] = <<>>
  /\ pending \subseteq Transactions
  /\ Distinct(chain)
  /\ \A h \in 1..Len(chain) : ToSet(chain[h]) \cap pending = {}
  /\ pc = "idle" => Mine \notin pending /\ ~ Mined(Mine, chain)

(* All blocks after the k-th are replaced: one of what is pending or was   *)
(* dropped, and then empty ones.  A chain grows when none is dropped.      *)
Dropped(k) == UNION {ToSet(chain[h]) : h \in (k + 1)..Len(chain)}
Replaced(k) ==
  \E b \in NewBlocks(pending \cup Dropped(k)) :
    /\ chain' \in Chains /\ Len(chain') > Len(chain)
    /\ \A h \in 1..k : chain'[h] = chain[h]
    /\ chain'[k + 1] = b
    /\ \A h \in (k + 2)..Len(chain') : chain'[h] = <<>>
    /\ pending' = (pending \cup Dropped(k)) \ ToSet(b)

LEMMA NewBlocksAre ==
  ASSUME NEW A \in SUBSET Transactions, NEW b \in NewBlocks(A)
  PROVE  /\ b \in Blocks /\ ToSet(b) \subseteq A
         /\ \A i, j \in 1..Len(b) : b[i] = b[j] => i = j
  <1>1. CASE b = <<>>
    <2>1. b \in Seq(Transactions) /\ Len(b) = 0
      BY <1>1, EmptySeq
    <2>2. DOMAIN b = 1..0
      BY <2>1, LenProperties
    <2>3. QED
      BY <2>1, <2>2 DEF Blocks, ToSet
  <1>2. ASSUME NEW t \in A, b = <<t>>
        PROVE  /\ b \in Blocks /\ ToSet(b) \subseteq A
               /\ \A i, j \in 1..Len(b) : b[i] = b[j] => i = j
    <2>1. b \in Seq(Transactions) /\ Len(b) = 1 /\ b[1] = t
      BY <1>2
    <2>2. DOMAIN b = 1..1
      BY <2>1, LenProperties
    <2>3. QED
      BY <2>1, <2>2 DEF Blocks, ToSet
  <1>3. ASSUME NEW t \in A, NEW u \in A, t # u, b = <<t, u>>
        PROVE  /\ b \in Blocks /\ ToSet(b) \subseteq A
               /\ \A i, j \in 1..Len(b) : b[i] = b[j] => i = j
    <2>1. b \in Seq(Transactions) /\ Len(b) = 2 /\ b[1] = t /\ b[2] = u
      BY <1>3
    <2>2. DOMAIN b = 1..2
      BY <2>1, LenProperties
    <2>3. 1..2 = {1, 2}
      OBVIOUS
    <2>4. ToSet(b) \subseteq A
      BY <2>1, <2>2, <2>3 DEF ToSet
    <2>5. \A i, j \in 1..Len(b) : b[i] = b[j] => i = j
      BY <1>3, <2>1, <2>3
    <2>6. QED
      BY <2>1, <2>4, <2>5 DEF Blocks
  <1>4. \/ b = <<>>
        \/ \E t \in A : b = <<t>>
        \/ \E t \in A, u \in A : t # u /\ b = <<t, u>>
    BY DEF NewBlocks
  <1>5. QED
    BY <1>1, <1>2, <1>3, <1>4

LEMMA GrowReplaces ==
  ASSUME ChainInv, Grow
  PROVE  Replaced(Len(chain))
  <1>1. PICK b \in NewBlocks(pending) : chain' = Append(chain, b) /\ pending' = pending \ ToSet(b)
    BY DEF Grow
  <1>2. b \in Blocks
    BY <1>1, NewBlocksAre DEF ChainInv
  <1>3. chain \in Seq(Blocks) /\ Len(chain) \in Nat
    BY ChainTyped DEF ChainInv, Chains
  <1>4. /\ chain' \in Chains /\ Len(chain') = Len(chain) + 1
        /\ \A h \in 1..Len(chain) : chain'[h] = chain[h]
        /\ chain'[Len(chain) + 1] = b
    BY <1>1, <1>2, <1>3, AppendProperties DEF Chains
  <1>5. Dropped(Len(chain)) = {}
    BY <1>3 DEF Dropped
  <1>6. (Len(chain) + 2)..Len(chain') = {}
    BY <1>3, <1>4
  <1>7. pending \cup Dropped(Len(chain)) = pending
    BY <1>5
  <1>8. b \in NewBlocks(pending \cup Dropped(Len(chain)))
        /\ pending' = (pending \cup Dropped(Len(chain))) \ ToSet(b)
    BY <1>1, <1>7
  <1>9. Len(chain') > Len(chain) /\ \A h \in (Len(chain) + 2)..Len(chain') : chain'[h] = <<>>
    BY <1>3, <1>4, <1>6
  <1>10. QED
    BY <1>4, <1>8, <1>9 DEF Replaced

LEMMA ReorgReplaces ==
  ASSUME ChainInv, NEW depth \in 1..(K - 1), Reorg(depth)
  PROVE  /\ Replaced(Len(chain) - depth)
         /\ Len(chain) - depth \in 1..Len(chain)
         /\ FinalHeight(Len(chain)) <= Len(chain) - depth
  <1> DEFINE k == Len(chain) - depth
             kept == Upto(k)
             empty == [i \in 1..depth |-> <<>>]
  <1>1. Len(chain) \in Nat /\ depth < Len(chain) /\ K \in Nat /\ K >= 1 /\ depth \in Nat
    BY ChainTyped, RelayerAssumption DEF ChainInv, Reorg
  <1>2. k \in 1..Len(chain)
    BY <1>1
  <1>3. FinalHeight(Len(chain)) <= k
    <2> DEFINE l == Len(chain)
    <2>1. FinalHeight(l) = IF l >= K - 1 THEN l - (K - 1) ELSE 0
      BY <1>1, FinalHeightIs
    <2>2. l \in Nat /\ k = l - depth /\ k >= 1 /\ depth <= K - 1
      BY <1>1, <1>2
    <2> HIDE DEF l, k
    <2>3. FinalHeight(l) <= k
      BY <1>1, <2>1, <2>2
    <2>4. QED
      BY <2>3 DEF l
  <1>4. PICK b \in NewBlocks(pending \cup Dropped(k)) :
          /\ chain' = kept \o <<b>> \o empty
          /\ pending' = (pending \cup Dropped(k)) \ ToSet(b)
    BY DEF Reorg, Dropped
  <1>5. kept \in Chains /\ Len(kept) = k /\ \A h \in 1..k : kept[h] = chain[h]
    <2>1. chain \in Chains /\ k \in 0..Len(chain)
      BY <1>1 DEF ChainInv
    <2>2. QED
      BY <2>1, PrefixLog DEF Upto
  <1>6. b \in Blocks
    <2>1. Dropped(k) \subseteq Transactions
      <3>1. \A h \in (k + 1)..Len(chain) : ToSet(chain[h]) \subseteq Transactions
        BY <1>1, <1>2, ChainTyped DEF ChainInv
      <3> HIDE DEF k
      <3>2. QED
        BY <3>1 DEF Dropped
    <2>2. pending \cup Dropped(k) \in SUBSET Transactions
      BY <2>1 DEF ChainInv
    <2>3. QED
      BY <1>4, <2>2, NewBlocksAre
  <1>7. <<b>> \in Seq(Blocks) /\ Len(<<b>>) = 1 /\ <<b>>[1] = b
    BY <1>6
  <1>8. empty \in Seq(Blocks) /\ Len(empty) = depth /\ \A i \in 1..depth : empty[i] = <<>>
    <2>1. <<>> \in Blocks
      BY DEF Blocks
    <2>2. QED
      BY <1>1, <2>1
  <1> DEFINE one == <<b>>
             grown == kept \o one
  <1>0. k \in Nat /\ k >= 1 /\ k + 1 + depth = Len(chain) + 1
    BY <1>1
  <1> HIDE DEF kept, empty, one, k
  <1>9. /\ grown \in Seq(Blocks) /\ Len(grown) = k + 1
        /\ \A h \in 1..(k + 1) : grown[h] = IF h <= k THEN kept[h] ELSE one[h - k]
    <2>1. kept \in Seq(Blocks) /\ one \in Seq(Blocks) /\ Len(one) = 1
      BY <1>5, <1>7 DEF Chains, one
    <2>2. /\ grown \in Seq(Blocks) /\ Len(grown) = Len(kept) + Len(one)
          /\ \A h \in 1..(Len(kept) + Len(one)) :
               grown[h] = IF h <= Len(kept) THEN kept[h] ELSE one[h - Len(kept)]
      BY <2>1, ConcatProperties
    <2> HIDE DEF grown
    <2>3. QED
      BY <1>5, <2>1, <2>2
  <1> HIDE DEF grown
  <1> DEFINE new == grown \o empty
  <1>10. /\ new \in Seq(Blocks) /\ Len(new) = k + 1 + depth
         /\ \A h \in 1..(k + 1 + depth) : new[h] = IF h <= k + 1 THEN grown[h] ELSE empty[h - (k + 1)]
    <2>1. /\ new \in Seq(Blocks) /\ Len(new) = Len(grown) + Len(empty)
          /\ \A h \in 1..(Len(grown) + Len(empty)) :
               new[h] = IF h <= Len(grown) THEN grown[h] ELSE empty[h - Len(grown)]
      BY <1>8, <1>9, ConcatProperties
    <2> HIDE DEF new
    <2>2. QED
      BY <1>8, <1>9, <2>1
  <1> HIDE DEF new
  <1>11. chain' = new
    BY <1>4 DEF new, grown, one
  <1>12. \A h \in 1..k : new[h] = chain[h]
    <2> SUFFICES ASSUME NEW h \in 1..k PROVE new[h] = chain[h]
      OBVIOUS
    <2>1. h \in 1..(k + 1) /\ h \in 1..(k + 1 + depth) /\ h <= k /\ h <= k + 1
      BY <1>0, <1>1
    <2>2. QED
      BY <1>5, <1>9, <1>10, <2>1
  <1>13. new[k + 1] = b
    <2>1. k + 1 \in 1..(k + 1) /\ k + 1 \in 1..(k + 1 + depth) /\ ~ (k + 1 <= k) /\ (k + 1) - k = 1
      BY <1>0, <1>1
    <2>2. new[k + 1] = grown[k + 1] /\ grown[k + 1] = one[1]
      BY <1>9, <1>10, <2>1
    <2>3. QED
      BY <1>7, <2>2 DEF one
  <1>14. \A h \in (k + 2)..(k + 1 + depth) : new[h] = <<>>
    <2> SUFFICES ASSUME NEW h \in (k + 2)..(k + 1 + depth) PROVE new[h] = <<>>
      OBVIOUS
    <2>1. h \in 1..(k + 1 + depth) /\ ~ (h <= k + 1) /\ h - (k + 1) \in 1..depth
      BY <1>0, <1>1
    <2>2. new[h] = empty[h - (k + 1)]
      BY <1>10, <2>1
    <2>3. QED
      BY <1>8, <2>1, <2>2
  <1>15. k + 1 + depth = Len(chain) + 1
    BY <1>0
  <1>16. Replaced(k)
    <2>1. /\ chain' \in Chains /\ Len(chain') > Len(chain)
          /\ \A h \in 1..k : chain'[h] = chain[h]
          /\ chain'[k + 1] = b
          /\ \A h \in (k + 2)..Len(chain') : chain'[h] = <<>>
      <3>1. Len(chain') = k + 1 + depth
        BY <1>10, <1>11
      <3>2. Len(chain') > Len(chain)
        BY <1>1, <1>15, <3>1
      <3>3. QED
        BY <1>10, <1>11, <1>12, <1>13, <1>14, <3>1, <3>2 DEF Chains
    <2>2. QED
      BY <1>4, <2>1 DEF Replaced
  <1>17. QED
    BY <1>2, <1>3, <1>16 DEF k

LEMMA ReplacedChainInv ==
  ASSUME ChainInv, NEW k \in 1..Len(chain), Replaced(k), pc' = pc
  PROVE  ChainInv'
  <1>1. PICK b \in NewBlocks(pending \cup Dropped(k)) :
          /\ chain' \in Chains /\ Len(chain') > Len(chain)
          /\ \A h \in 1..k : chain'[h] = chain[h]
          /\ chain'[k + 1] = b
          /\ \A h \in (k + 2)..Len(chain') : chain'[h] = <<>>
          /\ pending' = (pending \cup Dropped(k)) \ ToSet(b)
    BY DEF Replaced
  <1>2. chain \in Chains /\ Len(chain) \in Nat /\ Len(chain') \in Nat
    BY <1>1, ChainTyped DEF ChainInv
  <1>3. \A h \in 1..Len(chain) : ToSet(chain[h]) \subseteq Transactions
    BY <1>2, ChainTyped
  <1>4. Dropped(k) \subseteq Transactions
    <2>1. \A h \in (k + 1)..Len(chain) : h \in 1..Len(chain)
      BY <1>2
    <2>2. QED
      BY <1>3, <2>1 DEF Dropped
  <1>5. pending \cup Dropped(k) \in SUBSET Transactions
    BY <1>4 DEF ChainInv
  <1>6. /\ b \in Blocks /\ ToSet(b) \subseteq pending \cup Dropped(k)
        /\ \A i, j \in 1..Len(b) : b[i] = b[j] => i = j
    BY <1>1, <1>5, NewBlocksAre
  <1>7. Len(<<>>) = 0 /\ ToSet(<<>>) = {}
    BY DEF ToSet
  <1>8. k + 1 \in 1..Len(chain') /\ \A h \in 1..Len(chain') :
          h \in 1..k \/ h = k + 1 \/ h \in (k + 2)..Len(chain')
    BY <1>1, <1>2
  <1>9. ToSet(b) = {b[i] : i \in 1..Len(b)}
    <2>1. DOMAIN b = 1..Len(b)
      BY <1>6, LenProperties DEF Blocks
    <2>2. QED
      BY <2>1 DEF ToSet
  (* What is kept is not in the new block.                                 *)
  <1>10. ASSUME NEW h \in 1..k PROVE ToSet(chain[h]) \cap (pending \cup Dropped(k)) = {}
    <2>1. h \in 1..Len(chain)
      BY <1>2, <1>10
    <2>2. ToSet(chain[h]) \cap pending = {}
      BY <2>1 DEF ChainInv
    <2>3. ASSUME NEW t, t \in ToSet(chain[h]), t \in Dropped(k) PROVE FALSE
      <3>1. PICK g \in (k + 1)..Len(chain) : t \in ToSet(chain[g])
        BY <2>3 DEF Dropped
      <3>2. g \in 1..Len(chain) /\ g # h
        BY <1>2, <1>10, <3>1
      <3>3. QED
        BY <1>2, <2>1, <2>3, <3>1, <3>2, MinedOnce DEF ChainInv
    <2>4. QED
      BY <2>2, <2>3
  <1>11. \A h \in 1..k : \A i \in 1..Len(chain[h]) : chain[h][i] \in ToSet(chain[h])
    <2>1. \A h \in 1..Len(chain) : ToSet(chain[h]) = {chain[h][i] : i \in 1..Len(chain[h])}
      BY <1>2, ChainTyped
    <2>2. \A h \in 1..k : h \in 1..Len(chain)
      BY <1>2
    <2>3. QED
      BY <2>1, <2>2
  <1>12. Distinct(chain')
    <2> SUFFICES ASSUME NEW g \in 1..Len(chain'), NEW h \in 1..Len(chain'),
                        NEW i \in 1..Len(chain'[g]), NEW j \in 1..Len(chain'[h]),
                        chain'[g][i] = chain'[h][j]
                 PROVE  g = h /\ i = j
      BY DEF Distinct
    <2>1. g \notin (k + 2)..Len(chain') /\ h \notin (k + 2)..Len(chain')
      BY <1>1, <1>7
    <2>2. (g \in 1..k \/ g = k + 1) /\ (h \in 1..k \/ h = k + 1)
      BY <1>8, <2>1
    <2>3. CASE g \in 1..k /\ h \in 1..k
      <3>1. g \in 1..Len(chain) /\ h \in 1..Len(chain)
        BY <1>2, <2>3
      <3>2. chain'[g] = chain[g] /\ chain'[h] = chain[h]
        BY <1>1, <2>3
      <3>3. QED
        BY <3>1, <3>2 DEF ChainInv, Distinct
    <2>4. CASE g = k + 1 /\ h = k + 1
      BY <1>1, <1>6, <2>4
    <2>5. CASE g \in 1..k /\ h = k + 1
      <3>1. chain'[g] = chain[g] /\ chain'[h] = b
        BY <1>1, <2>5
      <3>2. chain[g][i] \in ToSet(chain[g]) /\ b[j] \in ToSet(b)
        BY <1>9, <1>11, <2>5, <3>1
      <3>3. QED
        BY <1>6, <1>10, <2>5, <3>1, <3>2
    <2>6. CASE g = k + 1 /\ h \in 1..k
      <3>1. chain'[g] = b /\ chain'[h] = chain[h]
        BY <1>1, <2>6
      <3>2. b[i] \in ToSet(b) /\ chain[h][j] \in ToSet(chain[h])
        BY <1>9, <1>11, <2>6, <3>1
      <3>3. QED
        BY <1>6, <1>10, <2>6, <3>1, <3>2
    <2>7. QED
      BY <2>2, <2>3, <2>4, <2>5, <2>6
  <1>13. ASSUME NEW h \in 1..Len(chain') PROVE ToSet(chain'[h]) \cap pending' = {}
    <2>1. CASE h \in 1..k
      BY <1>1, <1>10, <2>1
    <2>2. CASE h = k + 1
      BY <1>1, <2>2
    <2>3. CASE h \in (k + 2)..Len(chain')
      BY <1>1, <1>7, <2>3
    <2>4. QED
      BY <1>8, <2>1, <2>2, <2>3
  <1>14. ASSUME pc = "idle" PROVE Mine \notin pending' /\ ~ Mined(Mine, chain')
    <2>1. Mine \notin pending /\ \A h \in 1..Len(chain) : Mine \notin ToSet(chain[h])
      BY <1>14 DEF ChainInv, Mined
    <2>2. Mine \notin Dropped(k)
      <3>1. \A h \in (k + 1)..Len(chain) : h \in 1..Len(chain)
        BY <1>2
      <3>2. QED
        BY <2>1, <3>1 DEF Dropped
    <2>3. ASSUME NEW h \in 1..Len(chain') PROVE Mine \notin ToSet(chain'[h])
      <3>1. CASE h \in 1..k
        <4>1. h \in 1..Len(chain)
          BY <1>2, <3>1
        <4>2. QED
          BY <1>1, <2>1, <3>1, <4>1
      <3>2. CASE h = k + 1
        BY <1>1, <1>6, <2>1, <2>2, <3>2
      <3>3. CASE h \in (k + 2)..Len(chain')
        BY <1>1, <1>7, <3>3
      <3>4. QED
        BY <1>8, <3>1, <3>2, <3>3
    <2>4. QED
      BY <1>1, <2>1, <2>2, <2>3 DEF Mined
  <1>15. 1 \in 1..k /\ Len(chain') >= 1
    BY <1>1, <1>2
  <1>16. chain'[1] = <<>>
    BY <1>1, <1>15 DEF ChainInv
  <1>17. QED
    BY <1>1, <1>5, <1>12, <1>13, <1>14, <1>15, <1>16 DEF ChainInv

LEMMA PrefixTrans ==
  ASSUME NEW S, NEW s \in Seq(S), NEW t \in Seq(S), NEW u \in Seq(S),
         IsPrefix(s, t), IsPrefix(t, u)
  PROVE  IsPrefix(s, u)
  <1>1. Len(s) \in Nat /\ Len(t) \in Nat /\ Len(u) \in Nat /\ Len(s) <= Len(t) /\ Len(t) <= Len(u)
    BY LenProperties DEF IsPrefix
  <1>2. SubSeq(s, 1, Len(s)) = s /\ SubSeq(t, 1, Len(t)) = t
    BY SubSeqFull
  <1>3. s = SubSeq(t, 1, Len(s)) /\ t = SubSeq(u, 1, Len(t))
    BY <1>2 DEF IsPrefix
  <1>4. SubSeq(t, 1, Len(s)) = SubSeq(u, 1, Len(s))
    <2> DEFINE l == Len(s)
               x == SubSeq(t, 1, l)
               y == SubSeq(u, 1, l)
               z == SubSeq(u, 1, Len(t))
    <2>1. \A i \in 1..Len(u) : u[i] \in S
      BY ElementOfSeq
    <2>2. \A i \in 1..Len(t) : t[i] = u[i]
      <3>1. \A i \in 1..(Len(t) - 1 + 1) : z[i] = u[1 + i - 1]
        BY <1>1, <2>1, SubSeqProperties
      <3> HIDE DEF z
      <3>2. z = t
        BY <1>3 DEF z
      <3>3. QED
        BY <1>1, <3>1, <3>2
    <2>3. /\ y \in Seq(S) /\ Len(y) = IF 1 <= l THEN l - 1 + 1 ELSE 0
          /\ \A i \in 1..(l - 1 + 1) : y[i] = u[1 + i - 1]
      BY <1>1, <2>1, SubSeqProperties
    <2>4. /\ x \in Seq(S) /\ Len(x) = IF 1 <= l THEN l - 1 + 1 ELSE 0
          /\ \A i \in 1..(l - 1 + 1) : x[i] = t[1 + i - 1]
      BY <1>1, ElementOfSeq, SubSeqProperties
    <2>5. l \in Nat /\ l <= Len(t)
      BY <1>1
    <2> HIDE DEF l, x, y
    <2>6. \A i \in 1..Len(x) : x[i] = y[i]
      BY <1>1, <2>2, <2>3, <2>4, <2>5
    <2>7. x = y
      BY <2>3, <2>4, <2>6, SeqEqual
    <2>8. QED
      BY <2>7 DEF x, y, l
  <1>5. s = SubSeq(u, 1, Len(s))
    BY <1>3, <1>4
  <1>6. QED
    BY <1>1, <1>2, <1>5 DEF IsPrefix

(* No step takes back what is final.                                       *)
LEMMA FinalGrows ==
  ASSUME ChainInv, ChainInv', NEW k \in 1..Len(chain), Replaced(k),
         FinalHeight(Len(chain)) <= k
  PROVE  /\ ToSet(EventLog(FinalChain)) \subseteq ToSet(EventLog(FinalChain'))
         /\ Executed(FinalChain) \subseteq Executed(FinalChain')
         /\ \A t : Mined(t, FinalChain) => Mined(t, FinalChain')
         /\ \A t : Mined(t, FinalChain) => (t \in Executed(FinalChain) <=> t \in Executed(FinalChain'))
         /\ \A s \in Seq(Settlements) :
              IsPrefix(s, History(FinalChain)) => IsPrefix(s, History(FinalChain'))
  <1> DEFINE f == FinalHeight(Len(chain))
             g == FinalHeight(Len(chain'))
             c == FinalChain
             d == FinalChain'
  <1>1. /\ chain' \in Chains /\ Len(chain') > Len(chain)
        /\ \A h \in 1..k : chain'[h] = chain[h]
    BY DEF Replaced
  <1>2. Len(chain) \in Nat /\ Len(chain') \in Nat /\ chain \in Chains /\ K \in Nat /\ K >= 1
    BY <1>1, ChainTyped, RelayerAssumption DEF ChainInv
  <1>3. f \in 0..Len(chain) /\ g \in 0..Len(chain') /\ f <= g /\ f <= k
    <2> DEFINE l == Len(chain)
               m == Len(chain')
    <2>1. /\ FinalHeight(l) \in 0..l /\ FinalHeight(l) = IF l >= K - 1 THEN l - (K - 1) ELSE 0
          /\ FinalHeight(m) \in 0..m /\ FinalHeight(m) = IF m >= K - 1 THEN m - (K - 1) ELSE 0
      BY <1>2, FinalHeightIs
    <2>2. l \in Nat /\ m \in Nat /\ m > l
      BY <1>1, <1>2
    <2> HIDE DEF l, m
    <2>3. FinalHeight(l) <= FinalHeight(m)
      BY <1>2, <2>1, <2>2
    <2>4. QED
      BY <2>1, <2>3 DEF l, m
  <1>4. c = SubSeq(chain, 1, f) /\ d = SubSeq(chain', 1, g)
    BY DEF FinalChain, Upto
  <1>5. c \in Chains /\ Len(c) = f /\ \A h \in 1..f : c[h] = chain[h]
    <2> HIDE DEF f
    <2>1. QED
      BY <1>2, <1>3, <1>4, PrefixLog
  <1>6. d \in Chains /\ Len(d) = g /\ \A h \in 1..g : d[h] = chain'[h]
    <2> HIDE DEF g
    <2>1. QED
      BY <1>1, <1>3, <1>4, PrefixLog
  <1> HIDE DEF f, g, c, d
  <1>7. \A h \in 1..f : d[h] = c[h]
    BY <1>1, <1>2, <1>3, <1>5, <1>6
  <1>8. c = SubSeq(d, 1, f)
    <2> DEFINE e == SubSeq(d, 1, f)
    <2>1. e \in Chains /\ Len(e) = f /\ \A h \in 1..f : e[h] = d[h]
      <3>1. f \in 0..Len(d)
        BY <1>2, <1>3, <1>6
      <3>2. QED
        BY <1>6, <3>1, PrefixLog
    <2> HIDE DEF e
    <2>2. \A h \in 1..Len(c) : c[h] = e[h]
      BY <1>5, <1>7, <2>1
    <2>3. c = e
      BY <1>5, <2>1, <2>2, SeqEqual DEF Chains
    <2>4. QED
      BY <2>3 DEF e
  <1>9. f \in 0..Len(d)
    BY <1>2, <1>3, <1>6
  <1>10. /\ ToSet(EventLog(c)) \subseteq ToSet(EventLog(d))
         /\ Executed(c) \subseteq Executed(d)
         /\ IsPrefix(History(c), History(d))
    BY <1>6, <1>8, <1>9, PrefixEvents
  <1>11. Distinct(d)
    <2>1. \A h \in 1..g : h \in 1..Len(chain')
      BY <1>2, <1>3
    <2>2. Distinct(chain')
      BY DEF ChainInv
    <2>3. ASSUME NEW a \in 1..g, NEW b \in 1..g, NEW i \in 1..Len(d[a]), NEW j \in 1..Len(d[b]),
                 d[a][i] = d[b][j]
          PROVE  a = b /\ i = j
      <3>1. d[a] = chain'[a] /\ d[b] = chain'[b] /\ a \in 1..Len(chain') /\ b \in 1..Len(chain')
        BY <1>6, <2>1
      <3>2. i \in 1..Len(chain'[a]) /\ j \in 1..Len(chain'[b]) /\ chain'[a][i] = chain'[b][j]
        BY <2>3, <3>1
      <3>3. QED
        BY <2>2, <3>1, <3>2 DEF Distinct
    <2>4. QED
      BY <1>6, <2>3 DEF Distinct
  <1>12. ASSUME NEW t, Mined(t, c)
         PROVE  Mined(t, d) /\ (t \in Executed(c) <=> t \in Executed(d))
    <2>1. PICK h \in 1..f : t \in ToSet(c[h])
      BY <1>5, <1>12 DEF Mined
    <2>2. h \in 1..g /\ t \in ToSet(d[h])
      BY <1>2, <1>3, <1>7, <2>1
    <2>3. QED
      BY <1>6, <1>8, <1>9, <1>11, <2>1, <2>2, ExecutedWhereMined DEF Mined
  <1>13. ASSUME NEW s \in Seq(Settlements), IsPrefix(s, History(c))
         PROVE  IsPrefix(s, History(d))
    <2>1. History(c) \in Seq(Settlements) /\ History(d) \in Seq(Settlements)
      BY <1>5, <1>6, EventsTyped
    <2>2. QED
      BY <1>10, <1>13, <2>1, PrefixTrans
  <1>14. QED
    BY <1>10, <1>12, <1>13 DEF c, d

-------------------------------------------------------------------------------
(* The inductive invariant                                                 *)

(* What was read is final, and on Ethereum of the blocks read so far.      *)
ReadInv ==
  /\ fulfilled \subseteq ToSet(EventLog(FinalChain))
  /\ pc = "idle" => fulfilled = {} /\ confirmed = {}
  /\ pc \in {"fulfilled", "released", "root"} /\ flavour = Ethereum =>
       head <= Final(Len(chain)) /\ \A e \in fulfilled : e.block <= head
  /\ pc = "confirm" => head <= Len(chain)

(* A command has answered only once it is done; until the chain is         *)
(* reorganised the receipt it read is the chain's, and what it reports     *)
(* rests on a final receipt.                                               *)
SettleInv ==
  /\ pc # "done" => outcome = None /\ verdict = None
  /\ pc = "idle" => ~ sent
  /\ pc = "depth" /\ ~ crossed =>
       /\ receipt.block \in 1..Len(chain) /\ Mine \in ToSet(chain[receipt.block])
       /\ receipt.ok <=> Mine \in Executed(chain)
  /\ ~ crossed /\ outcome = Submitted =>
       Mined(Mine, FinalChain) /\ Mine \in Executed(FinalChain)
  /\ ~ crossed /\ sent /\ outcome \in {Failed, StaleRoot} =>
       Mined(Mine, FinalChain) /\ Mine \notin Executed(FinalChain)

LockInv ==
  /\ genuine => Mined(Lock, FinalChain)
  /\ verdict = "lock" => ~ genuine

RInv == TypeOK /\ ChainInv /\ ReadInv /\ EvidenceIsFinal /\ SettleInv /\ LockInv

LEMMA FinalChainIs ==
  ASSUME chain \in Chains
  PROVE  /\ FinalHeight(Len(chain)) \in 0..Len(chain)
         /\ FinalChain = SubSeq(chain, 1, FinalHeight(Len(chain)))
         /\ FinalChain \in Chains /\ Len(FinalChain) = FinalHeight(Len(chain))
         /\ \A h \in 1..FinalHeight(Len(chain)) : FinalChain[h] = chain[h]
  <1>1. FinalHeight(Len(chain)) \in 0..Len(chain)
    BY ChainTyped, FinalHeightIs
  <1>2. FinalChain = SubSeq(chain, 1, FinalHeight(Len(chain)))
    BY DEF FinalChain, Upto
  <1>3. QED
    BY <1>1, <1>2, PrefixLog

LEMMA UptoIs ==
  ASSUME chain \in Chains, NEW g \in 0..Len(chain)
  PROVE  /\ Upto(g) = SubSeq(chain, 1, g)
         /\ Upto(g) \in Chains /\ Len(Upto(g)) = g /\ \A h \in 1..g : Upto(g)[h] = chain[h]
  <1>1. Upto(g) = SubSeq(chain, 1, g)
    BY DEF Upto
  <1>2. QED
    BY <1>1, PrefixLog

LEMMA UptoDistinct ==
  ASSUME ChainInv, NEW g \in 0..Len(chain)
  PROVE  Distinct(Upto(g))
  <1>1. Len(chain) \in Nat /\ Len(Upto(g)) = g /\ \A h \in 1..g : h \in 1..Len(chain) /\ Upto(g)[h] = chain[h]
    BY ChainTyped, UptoIs DEF ChainInv
  <1>2. Distinct(chain)
    BY DEF ChainInv
  <1> DEFINE d == Upto(g)
  <1> HIDE DEF d
  <1>3. Len(d) = g /\ \A h \in 1..g : h \in 1..Len(chain) /\ d[h] = chain[h]
    BY <1>1 DEF d
  <1>4. Distinct(d)
    BY <1>2, <1>3 DEF Distinct
  <1>5. QED
    BY <1>4 DEF d

(* What is final is on every replica.                                      *)
LEMMA FinalIsKnown ==
  ASSUME ChainInv, NEW h \in FinalHeight(Len(chain))..Len(chain), NEW t
  PROVE  /\ Mined(t, FinalChain) => Mined(t, Upto(h))
         /\ ToSet(EventLog(FinalChain)) \subseteq ToSet(EventLog(Upto(h)))
         /\ \A e \in ToSet(EventLog(Upto(h))) :
              e.block <= FinalHeight(Len(chain)) => e \in ToSet(EventLog(FinalChain))
         /\ IsPrefix(History(FinalChain), History(Upto(h)))
  <1> DEFINE f == FinalHeight(Len(chain))
  <1>1. chain \in Chains /\ Len(chain) \in Nat /\ f \in 0..Len(chain)
    BY ChainTyped, FinalChainIs DEF ChainInv
  <1>2. /\ FinalChain = SubSeq(chain, 1, f) /\ FinalChain \in Chains /\ Len(FinalChain) = f
        /\ \A i \in 1..f : FinalChain[i] = chain[i]
    BY <1>1, FinalChainIs
  <1> HIDE DEF f
  <1>3. h \in 0..Len(chain) /\ f \in 0..h
    BY <1>1 DEF f
  <1>4. /\ Upto(h) \in Chains /\ Len(Upto(h)) = h
        /\ \A i \in 1..h : Upto(h)[i] = chain[i]
    BY <1>1, <1>3, UptoIs
  <1>5. FinalChain = SubSeq(Upto(h), 1, f)
    <2> DEFINE e == SubSeq(Upto(h), 1, f)
    <2>1. e \in Chains /\ Len(e) = f /\ \A i \in 1..f : e[i] = Upto(h)[i]
      BY <1>3, <1>4, PrefixLog
    <2> HIDE DEF e
    <2>2. \A i \in 1..Len(FinalChain) : FinalChain[i] = e[i]
      BY <1>2, <1>3, <1>4, <2>1
    <2>3. FinalChain = e
      BY <1>2, <2>1, <2>2, SeqEqual DEF Chains
    <2>4. QED
      BY <2>3 DEF e
  <1>6. Mined(t, FinalChain) => Mined(t, Upto(h))
    <2>1. \A i \in 1..f : i \in 1..h /\ FinalChain[i] = Upto(h)[i]
      BY <1>2, <1>3, <1>4
    <2>2. QED
      BY <1>2, <1>4, <2>1 DEF Mined
  <1>7. f \in 0..Len(Upto(h))
    BY <1>3, <1>4
  <1>8. QED
    BY <1>4, <1>5, <1>6, <1>7, PrefixEvents DEF f

LEMMA FinalStays ==
  ASSUME chain' = chain
  PROVE  FinalChain' = FinalChain
  BY DEF FinalChain, Upto, FinalHeight

-------------------------------------------------------------------------------
(* The steps of the chain                                                  *)

LEMMA ChainStep ==
  ASSUME RInv, NEW k \in 1..Len(chain), Replaced(k), FinalHeight(Len(chain)) <= k,
         UNCHANGED <<flavour, pc, reading, receipt, sent, asked, answers, genuine>>,
         reorgs' \in 0..MaxReorgs, crossed' \in BOOLEAN,
         crossed => crossed', pc = "depth" /\ ~ crossed' => k = Len(chain)
  PROVE  RInv'
  <1>0. UNCHANGED <<head, from, fulfilled, released, log, outcome, confirmed, verdict>>
    BY DEF reading, answers
  <1>1. TypeOK /\ ChainInv /\ ReadInv /\ EvidenceIsFinal /\ SettleInv /\ LockInv
    BY DEF RInv
  <1>2. ChainInv'
    BY <1>1, ReplacedChainInv
  <1>3. /\ chain \in Chains /\ chain' \in Chains /\ Len(chain) \in Nat /\ Len(chain') \in Nat
        /\ Len(chain') > Len(chain) /\ \A h \in 1..k : chain'[h] = chain[h]
    BY <1>1, <1>2, ChainTyped DEF ChainInv, Replaced
  <1>4. /\ ToSet(EventLog(FinalChain)) \subseteq ToSet(EventLog(FinalChain'))
        /\ Executed(FinalChain) \subseteq Executed(FinalChain')
        /\ \A t : Mined(t, FinalChain) => Mined(t, FinalChain')
        /\ \A t : Mined(t, FinalChain) => (t \in Executed(FinalChain) <=> t \in Executed(FinalChain'))
        /\ \A s \in Seq(Settlements) :
             IsPrefix(s, History(FinalChain)) => IsPrefix(s, History(FinalChain'))
    BY <1>1, <1>2, FinalGrows
  <1>5. Final(Len(chain)) <= Final(Len(chain')) /\ Final(Len(chain)) \in Nat /\ Final(Len(chain')) \in Nat
    <2> DEFINE l == Len(chain)
               m == Len(chain')
    <2>1. K \in Nat /\ K >= 1 /\ l \in Nat /\ m \in Nat /\ m > l
      BY <1>3, RelayerAssumption
    <2> HIDE DEF l, m
    <2>2. /\ Final(l) = IF l >= K THEN l - (K - 1) ELSE 1
          /\ Final(m) = IF m >= K THEN m - (K - 1) ELSE 1
      BY <2>1, FinalHeightIs
    <2>3. Final(l) <= Final(m) /\ Final(l) \in Nat /\ Final(m) \in Nat
      BY <2>1, <2>2
    <2>4. QED
      BY <2>3 DEF l, m
  <1>6. TypeOK'
    BY <1>0, <1>1, <1>2 DEF TypeOK, ChainInv, Chains, Blocks
  <1>7. ReadInv'
    <2>1. head \in Nat
      BY <1>1 DEF TypeOK
    <2>2. (pc = "confirm" => head <= Len(chain'))
      BY <1>1, <1>3, <2>1 DEF ReadInv
    <2>3. pc \in {"fulfilled", "released", "root"} /\ flavour = Ethereum => head <= Final(Len(chain'))
      BY <1>1, <1>5, <2>1 DEF ReadInv
    <2>4. QED
      BY <1>0, <1>1, <1>4, <2>2, <2>3 DEF ReadInv
  <1>8. EvidenceIsFinal'
    <2>1. log.batches \in Seq(Settlements)
      BY <1>1 DEF TypeOK
    <2>2. QED
      BY <1>0, <1>1, <1>4, <2>1 DEF EvidenceIsFinal, LogIsFinal, ConfirmedIsFinal
  <1>9. SettleInv'
    <2>1. ASSUME pc = "depth", ~ crossed'
          PROVE  /\ receipt.block \in 1..Len(chain') /\ Mine \in ToSet(chain'[receipt.block])
                 /\ receipt.ok <=> Mine \in Executed(chain')
      <3>1. k = Len(chain) /\ ~ crossed
        BY <2>1
      <3>2. /\ receipt.block \in 1..Len(chain) /\ Mine \in ToSet(chain[receipt.block])
            /\ receipt.ok <=> Mine \in Executed(chain)
        BY <1>1, <2>1, <3>1 DEF SettleInv
      <3>3. receipt.block \in 1..Len(chain') /\ Mine \in ToSet(chain'[receipt.block])
        BY <1>3, <3>1, <3>2
      <3>4. chain = SubSeq(chain', 1, Len(chain))
        <4> DEFINE e == SubSeq(chain', 1, Len(chain))
        <4>1. Len(chain) \in 0..Len(chain')
          BY <1>3
        <4>2. e \in Chains /\ Len(e) = Len(chain) /\ \A h \in 1..Len(chain) : e[h] = chain'[h]
          BY <1>3, <4>1, PrefixLog
        <4> HIDE DEF e
        <4>3. \A h \in 1..Len(chain) : chain[h] = e[h]
          BY <1>3, <3>1, <4>2
        <4>4. chain = e
          BY <1>3, <4>2, <4>3, SeqEqual DEF Chains
        <4>5. QED
          BY <4>4 DEF e
      <3>5. Mine \in Executed(chain') <=> Mine \in Executed(chain)
        <4>1. Len(chain) \in 0..Len(chain') /\ Distinct(chain')
          BY <1>2, <1>3 DEF ChainInv
        <4>2. Mine \in Executed(chain') <=> Mine \in Executed(SubSeq(chain', 1, Len(chain)))
          BY <1>3, <3>2, <3>3, <4>1, ExecutedWhereMined
        <4>3. QED
          BY <3>4, <4>2
      <3>6. QED
        BY <3>2, <3>3, <3>5
    <2>2. QED
      BY <1>0, <1>1, <1>4, <2>1 DEF SettleInv
  <1>10. LockInv'
    BY <1>0, <1>1, <1>4 DEF LockInv
  <1>11. QED
    BY <1>2, <1>6, <1>7, <1>8, <1>9, <1>10 DEF RInv

LEMMA GrowStep ==
  ASSUME RInv, Grow
  PROVE  RInv'
  <1>1. Replaced(Len(chain))
    BY GrowReplaces DEF RInv
  <1>2. Len(chain) \in 1..Len(chain) /\ FinalHeight(Len(chain)) <= Len(chain)
    <2>1. Len(chain) \in Nat /\ Len(chain) >= 1
      BY ChainTyped DEF RInv, ChainInv
    <2>2. QED
      BY <2>1, FinalHeightIs
  <1>3. /\ UNCHANGED <<flavour, pc, reading, receipt, sent, asked, answers, genuine>>
        /\ reorgs' \in 0..MaxReorgs /\ crossed' \in BOOLEAN /\ crossed' = crossed
    BY DEF Grow, RInv, TypeOK, settling
  <1>4. QED
    BY <1>1, <1>2, <1>3, ChainStep

LEMMA ReorgStep ==
  ASSUME RInv, NEW depth \in 1..(K - 1), Reorg(depth)
  PROVE  RInv'
  <1> DEFINE k == Len(chain) - depth
  <1>1. Replaced(k) /\ k \in 1..Len(chain) /\ FinalHeight(Len(chain)) <= k
    BY ReorgReplaces DEF RInv
  <1>2. /\ UNCHANGED <<flavour, pc, reading, receipt, sent, asked, answers, genuine>>
        /\ reorgs' \in 0..MaxReorgs /\ crossed' = (crossed \/ pc = "depth") /\ crossed \in BOOLEAN
    <2>1. reorgs \in 0..MaxReorgs /\ reorgs < MaxReorgs /\ reorgs' = reorgs + 1 /\ MaxReorgs \in Nat
      BY RelayerAssumption DEF Reorg, RInv, TypeOK
    <2>2. reorgs' \in 0..MaxReorgs
      BY <2>1
    <2>3. QED
      BY <2>2 DEF Reorg, RInv, TypeOK
  <1> HIDE DEF k
  <1>3. crossed' \in BOOLEAN /\ (crossed => crossed') /\ (pc = "depth" /\ ~ crossed' => k = Len(chain))
    BY <1>2
  <1>4. QED
    BY <1>1, <1>2, <1>3, ChainStep

-------------------------------------------------------------------------------
(* The steps of a command                                                  *)

(* What a step that leaves the chain alone keeps.                          *)
LEMMA ChainKept ==
  ASSUME RInv, UNCHANGED <<chain, pending>>, pc' # "idle"
  PROVE  /\ ChainInv' /\ FinalChain' = FinalChain
         /\ chain \in Chains /\ Len(chain) \in Nat /\ Len(chain) >= 1
  <1>1. ChainInv'
    BY DEF RInv, ChainInv
  <1>2. chain \in Chains /\ Len(chain) \in Nat /\ Len(chain) >= 1
    BY ChainTyped DEF RInv, ChainInv
  <1>3. QED
    BY <1>1, <1>2, FinalStays

(* The service's settlement is sent once.                                  *)
LEMMA MineJoins ==
  ASSUME RInv, pc = "idle", pc' # "idle", chain' = chain,
         pending' \in {pending, pending \cup {Mine}}
  PROVE  ChainInv'
  <1>1. ChainInv /\ Mine \notin pending /\ ~ Mined(Mine, chain)
    BY DEF RInv, ChainInv
  <1>2. Mine \in Transactions
    BY RelayerAssumption DEF Transactions
  <1>3. \A h \in 1..Len(chain) : Mine \notin ToSet(chain[h])
    BY <1>1 DEF Mined
  <1>4. \A h \in 1..Len(chain) : ToSet(chain[h]) \cap pending' = {}
    BY <1>1, <1>3 DEF ChainInv
  <1>5. QED
    BY <1>1, <1>2, <1>4 DEF ChainInv

(* A step that reads nothing and answers nothing.                          *)
LEMMA ReadKept ==
  ASSUME RInv, chain' = chain, FinalChain' = FinalChain, pc' # "idle",
         UNCHANGED <<fulfilled, flavour>>,
         pc' \in {"fulfilled", "released", "root"} =>
           pc \in {"fulfilled", "released", "root"} /\ head' = head,
         pc' = "confirm" => pc = "confirm" /\ head' = head
  PROVE  ReadInv'
  BY DEF RInv, ReadInv

LEMMA EvidenceKept ==
  ASSUME RInv, FinalChain' = FinalChain, UNCHANGED <<log, confirmed>>
  PROVE  EvidenceIsFinal'
  BY DEF RInv, EvidenceIsFinal, LogIsFinal, ConfirmedIsFinal

LEMMA LockKept ==
  ASSUME RInv, FinalChain' = FinalChain, UNCHANGED <<genuine, verdict>>
  PROVE  LockInv'
  BY DEF RInv, LockInv

(* Nothing is reported of a settlement by a command that did not send one. *)
LEMMA SettleKept ==
  ASSUME RInv, pc' \notin {"idle", "depth"}, pc # "done",
         pc' # "done" => outcome' = None /\ verdict' = None,
         outcome' \in {None, Unconfirmed} \/ (outcome' \in {Failed, StaleRoot} /\ ~ sent')
  PROVE  SettleInv'
  BY DEF RInv, SettleInv, None, Unconfirmed, Submitted, Failed, StaleRoot

LEMMA CommandFailsStep ==
  ASSUME RInv, CommandFails
  PROVE  RInv'
  <1>1. /\ pc \notin {"done", "idle"} /\ pc' = "done"
        /\ UNCHANGED <<chain, pending, reorgs, flavour, head, from, fulfilled, released, receipt,
                       sent, crossed, asked, log, outcome, confirmed, verdict, genuine>>
    BY DEF CommandFails, Done, blocks, reading, settling, answers
  <1>2. outcome = None
    BY <1>1 DEF RInv, SettleInv
  <1>3. ChainInv' /\ FinalChain' = FinalChain
    BY <1>1, ChainKept
  <1>4. TypeOK'
    BY <1>1 DEF RInv, TypeOK, Pcs
  <1>5. ReadInv' /\ EvidenceIsFinal' /\ LockInv' /\ SettleInv'
    BY <1>1, <1>2, <1>3, ReadKept, EvidenceKept, LockKept, SettleKept
  <1>6. QED
    BY <1>3, <1>4, <1>5 DEF RInv

LEMMA SendFailsStep ==
  ASSUME RInv, SendFails
  PROVE  RInv'
  <1>1. /\ pc = "idle" /\ pc' = "done" /\ outcome' = Failed
        /\ pending' \in {pending, pending \cup {Mine}}
        /\ UNCHANGED <<chain, reorgs, flavour, head, from, fulfilled, released, receipt,
                       sent, crossed, asked, log, confirmed, verdict, genuine>>
    BY DEF SendFails, reading, settling
  <1>2. ~ sent /\ Mine \notin pending /\ ~ Mined(Mine, chain)
    BY <1>1 DEF RInv, SettleInv, ChainInv
  <1>3. ChainInv'
    BY <1>1, MineJoins
  <1>4. FinalChain' = FinalChain
    BY <1>1, FinalStays
  <1>5. TypeOK'
    BY <1>1, <1>3 DEF RInv, TypeOK, Pcs, ChainInv
  <1>6. ReadInv' /\ EvidenceIsFinal' /\ LockInv' /\ SettleInv'
    BY <1>1, <1>2, <1>4, ReadKept, EvidenceKept, LockKept, SettleKept
  <1>7. QED
    BY <1>3, <1>5, <1>6 DEF RInv

LEMMA SendStep ==
  ASSUME RInv, NEW lag \in Lags, Send(lag)
  PROVE  RInv'
  <1>1. /\ pc = "idle" /\ pc' = "receipt" /\ sent' = TRUE
        /\ pending' \in {pending, pending \cup {Mine}}
        /\ UNCHANGED <<chain, reorgs, flavour, head, from, fulfilled, released, receipt,
                       crossed, asked, log, outcome, confirmed, verdict, genuine>>
    BY DEF Send, reading, answers
  <1>2. outcome = None /\ verdict = None
    BY <1>1 DEF RInv, SettleInv
  <1>3. ChainInv'
    BY <1>1, MineJoins
  <1>4. FinalChain' = FinalChain
    BY <1>1, FinalStays
  <1>5. TypeOK'
    BY <1>1, <1>3 DEF RInv, TypeOK, Pcs, ChainInv
  <1>6. ReadInv' /\ EvidenceIsFinal' /\ LockInv' /\ SettleInv'
    BY <1>1, <1>2, <1>4, ReadKept, EvidenceKept, LockKept, SettleKept
  <1>7. QED
    BY <1>3, <1>5, <1>6 DEF RInv

LEMMA RefusedStep ==
  ASSUME RInv, NEW lag \in Lags, Refused(lag)
  PROVE  RInv'
  <1>1. /\ pc = "idle" /\ pc' = "done" /\ outcome' = StaleRoot
        /\ UNCHANGED <<chain, pending, reorgs, flavour, head, from, fulfilled, released, receipt,
                       sent, crossed, asked, log, confirmed, verdict, genuine>>
    BY DEF Refused, Ends, Done, blocks, reading, settling
  <1>2. ~ sent
    BY <1>1 DEF RInv, SettleInv
  <1>3. ChainInv' /\ FinalChain' = FinalChain
    BY <1>1, ChainKept
  <1>4. TypeOK'
    BY <1>1 DEF RInv, TypeOK, Pcs
  <1>5. ReadInv' /\ EvidenceIsFinal' /\ LockInv' /\ SettleInv'
    BY <1>1, <1>2, <1>3, ReadKept, EvidenceKept, LockKept, SettleKept
  <1>6. QED
    BY <1>3, <1>4, <1>5 DEF RInv

LEMMA DeadlineStep ==
  ASSUME RInv, DeadlinePasses
  PROVE  RInv'
  <1>1. /\ pc \in {"receipt", "depth"} /\ pc' = "done" /\ outcome' = Unconfirmed
        /\ receipt' = NoReceipt
        /\ UNCHANGED <<chain, pending, reorgs, flavour, head, from, fulfilled, released,
                       sent, crossed, asked, log, confirmed, verdict, genuine>>
    BY DEF DeadlinePasses, AtDeadline, Ends, Done, blocks, reading
  <1>2. ChainInv' /\ FinalChain' = FinalChain
    BY <1>1, ChainKept
  <1>3. TypeOK'
    BY <1>1 DEF RInv, TypeOK, Pcs, NoReceipt
  <1>4. ReadInv' /\ EvidenceIsFinal' /\ LockInv' /\ SettleInv'
    BY <1>1, <1>2, ReadKept, EvidenceKept, LockKept, SettleKept
  <1>5. QED
    BY <1>2, <1>3, <1>4 DEF RInv

LEMMA StartEventsStep ==
  ASSUME RInv, NEW lag \in Lags, StartEvents(lag)
  PROVE  RInv'
  <1>1. /\ pc = "idle" /\ pc' = "fulfilled" /\ from' = Deploy
        /\ head' = (IF flavour = Ethereum THEN Final(Height(lag)) ELSE 0)
        /\ UNCHANGED <<chain, pending, reorgs, flavour, fulfilled, released, receipt,
                       sent, crossed, asked, log, outcome, confirmed, verdict, genuine>>
    BY DEF StartEvents, Goto, blocks, settling, answers
  <1>2. outcome = None /\ verdict = None /\ fulfilled = {}
    BY <1>1 DEF RInv, SettleInv, ReadInv
  <1>3. ChainInv' /\ FinalChain' = FinalChain /\ chain \in Chains /\ Len(chain) \in Nat /\ Len(chain) >= 1
    BY <1>1, ChainKept
  <1>4. Final(Height(lag)) \in Nat /\ Final(Height(lag)) <= Final(Len(chain))
    <2> DEFINE h == Height(lag)
               l == Len(chain)
    <2>1. h \in 1..l /\ l \in Nat /\ K \in Nat /\ K >= 1
      BY <1>3, HeightIs, RelayerAssumption
    <2> HIDE DEF h, l
    <2>2. /\ Final(l) = IF l >= K THEN l - (K - 1) ELSE 1
          /\ Final(h) = IF h >= K THEN h - (K - 1) ELSE 1
      BY <2>1, FinalHeightIs
    <2>3. Final(h) \in Nat /\ Final(h) <= Final(l)
      BY <2>1, <2>2
    <2>4. QED
      BY <2>3 DEF h, l
  <1>5. head' \in Nat /\ from' \in Nat
    BY <1>1, <1>4 DEF Deploy
  <1>6. TypeOK'
    BY <1>1, <1>5 DEF RInv, TypeOK, Pcs
  <1>7. ReadInv'
    BY <1>1, <1>2, <1>4 DEF ReadInv
  <1>8. EvidenceIsFinal' /\ LockInv' /\ SettleInv'
    BY <1>1, <1>2, <1>3, EvidenceKept, LockKept, SettleKept
  <1>9. QED
    BY <1>3, <1>6, <1>7, <1>8 DEF RInv

-------------------------------------------------------------------------------
(* The steps of events                                                     *)

(* The first block is empty, so what lies no later than the last final     *)
(* block, or in the first, is final.                                       *)
LEMMA KnownEvents ==
  ASSUME ChainInv, NEW h \in FinalHeight(Len(chain))..Len(chain),
         NEW e \in ToSet(EventLog(Upto(h))), e.block <= Final(Len(chain))
  PROVE  e \in ToSet(EventLog(FinalChain))
  <1> DEFINE l == Len(chain)
             c == Upto(h)
  <1>1. l \in Nat /\ l >= 1 /\ K \in Nat /\ K >= 1 /\ FinalHeight(l) \in 0..l /\ chain[1] = <<>>
    <2>1. l \in Nat /\ l >= 1 /\ K \in Nat /\ K >= 1 /\ chain[1] = <<>>
      BY ChainTyped, RelayerAssumption DEF ChainInv
    <2> HIDE DEF l
    <2>2. QED
      BY <2>1, FinalHeightIs
  <1>2. h \in 0..l
    BY <1>1
  <1>3. c \in Chains /\ Len(c) = h /\ \A i \in 1..h : c[i] = chain[i]
    BY <1>2, UptoIs DEF ChainInv
  <1>4. e.block \in 1..h /\ e.index \in 1..Len(chain[e.block])
    <2>1. PICK n \in 1..Len(EventLog(c)) : e = EventLog(c)[n]
      BY <1>3, EventsTyped
    <2>2. Stands(e, c)
      BY <1>3, <2>1, EventsTyped
    <2> HIDE DEF c
    <2>3. QED
      BY <1>3, <2>2 DEF Stands
  <1>5. e.block # 1
    BY <1>1, <1>4
  <1>6. e.block <= FinalHeight(l)
    <2>1. e.block \in Nat /\ e.block >= 1 /\ e.block <= Final(l)
      BY <1>2, <1>4
    <2>2. /\ FinalHeight(l) = IF l >= K - 1 THEN l - (K - 1) ELSE 0
          /\ Final(l) = IF l >= K THEN l - (K - 1) ELSE 1
      BY <1>1, FinalHeightIs
    <2> HIDE DEF l
    <2>3. QED
      BY <1>1, <1>5, <2>1, <2>2
  <1>7. QED
    BY <1>6, FinalIsKnown

LEMMA FinalTyped ==
  ASSUME chain \in Chains
  PROVE  ToSet(EventLog(FinalChain)) \subseteq EventEntries
  <1> DEFINE c == FinalChain
  <1>1. c \in Chains
    BY FinalChainIs
  <1> HIDE DEF c
  <1>2. QED
    BY <1>1, EventsTyped DEF c

(* Final events are collected.                                             *)
LEMMA CollectKept ==
  ASSUME RInv, NEW entries, Collect(entries), entries \subseteq ToSet(EventLog(FinalChain)),
         pc \in {"fulfilled", "released"}, pc' \in {"fulfilled", "released", "root"},
         flavour = Ethereum => \A e \in entries : e.block <= head,
         from' \in Nat,
         UNCHANGED <<chain, pending, reorgs, flavour, head, receipt, sent, crossed, asked, log,
                     outcome, confirmed, verdict, genuine>>
  PROVE  RInv'
  <1>1. ChainInv' /\ FinalChain' = FinalChain /\ chain \in Chains
    BY ChainKept
  <1>2. entries \subseteq EventEntries
    BY <1>1, FinalTyped
  <1>3. fulfilled' \subseteq fulfilled \cup entries /\ released' \subseteq released \cup entries
    BY DEF Collect
  <1>4. TypeOK'
    BY <1>2, <1>3 DEF RInv, TypeOK, Pcs
  <1>5. ReadInv'
    <2>1. fulfilled' \subseteq ToSet(EventLog(FinalChain'))
      BY <1>1, <1>3 DEF RInv, ReadInv
    <2>2. flavour = Ethereum => head <= Final(Len(chain)) /\ \A e \in fulfilled' : e.block <= head
      BY <1>3 DEF RInv, ReadInv
    <2>3. QED
      BY <2>1, <2>2 DEF ReadInv
  <1>6. outcome = None /\ verdict = None
    BY DEF RInv, SettleInv
  <1>7. EvidenceIsFinal' /\ LockInv' /\ SettleInv'
    BY <1>1, <1>6, EvidenceKept, LockKept, SettleKept
  <1>8. QED
    BY <1>1, <1>4, <1>5, <1>7 DEF RInv

LEMMA ReadWindowStep ==
  ASSUME RInv, NEW lag \in Lags, ReadWindow(lag)
  PROVE  RInv'
  <1> DEFINE last == Min({from + LOG_WINDOW - 1, head})
             h == Height(lag)
             entries == Entries(Upto(h), from, last)
  <1>1. /\ pc \in {"fulfilled", "released"} /\ flavour = Ethereum /\ Collect(entries)
        /\ pc' \in {"fulfilled", "released", "root"}
        /\ from' \in {from, from + LOG_WINDOW}
        /\ UNCHANGED <<chain, pending, reorgs, flavour, head, receipt, sent, crossed, asked, log,
                       outcome, confirmed, verdict, genuine>>
    BY DEF ReadWindow, Goto, blocks, settling, answers
  <1>2. ChainInv /\ chain \in Chains /\ Len(chain) \in Nat /\ Len(chain) >= 1
    BY ChainTyped DEF RInv, ChainInv
  <1>3. head \in Nat /\ from \in Nat /\ LOG_WINDOW \in Nat /\ head <= Final(Len(chain))
    BY <1>1, RelayerAssumption DEF RInv, TypeOK, ReadInv
  <1>4. h \in FinalHeight(Len(chain))..Len(chain)
    <2>1. h \in 1..Len(chain) /\ FinalHeight(Len(chain)) <= h /\ FinalHeight(Len(chain)) \in 0..Len(chain)
      BY <1>2, HeightIs, FinalHeightIs
    <2> HIDE DEF h
    <2>2. QED
      BY <1>2, <2>1
  <1>5. last \in Int /\ last <= head
    <2>1. last = IF from + LOG_WINDOW - 1 =< head THEN from + LOG_WINDOW - 1 ELSE head
      BY <1>3, MinOfTwo
    <2> HIDE DEF last
    <2>2. QED
      BY <1>3, <2>1
  <1>6. ASSUME NEW e \in entries
        PROVE  e \in ToSet(EventLog(FinalChain)) /\ e.block <= head
    <2>1. e \in ToSet(EventLog(Upto(h))) /\ e.block \in from..last
      BY <1>6 DEF Entries
    <2> HIDE DEF last
    <2>2. e.block <= head
      BY <1>3, <1>5, <2>1
    <2>3. Final(Len(chain)) \in Int
      <3> DEFINE l == Len(chain)
      <3>1. l \in Nat /\ K \in Nat
        BY <1>2, RelayerAssumption
      <3> HIDE DEF l
      <3>2. Final(l) \in Int
        BY <3>1, FinalHeightIs
      <3>3. QED
        BY <3>2 DEF l
    <2>4. e.block <= Final(Len(chain))
      BY <1>3, <1>5, <2>1, <2>2, <2>3
    <2>5. QED
      BY <1>2, <1>4, <2>1, <2>2, <2>4, KnownEvents
  <1>7. from' \in Nat
    BY <1>1, <1>3
  <1> HIDE DEF entries
  <1>8. entries \subseteq ToSet(EventLog(FinalChain)) /\ \A e \in entries : e.block <= head
    BY <1>6
  <1>9. QED
    BY <1>1, <1>7, <1>8, CollectKept

LEMMA ReadPagesStep ==
  ASSUME RInv, NEW lag \in Lags, ReadPages(lag)
  PROVE  RInv'
  <1> DEFINE h == Height(lag)
             all == Entries(Upto(h), Deploy, FinalHeight(h))
  <1>1. PICK listed \in SUBSET all : Collect(listed)
    BY DEF ReadPages
  <1>2. /\ pc \in {"fulfilled", "released"} /\ flavour = Tron
        /\ pc' \in {"fulfilled", "released", "root"}
        /\ UNCHANGED <<chain, pending, reorgs, flavour, head, from, receipt, sent, crossed, asked, log,
                       outcome, confirmed, verdict, genuine>>
    BY DEF ReadPages, Goto, blocks, settling, answers
  <1>3. ChainInv /\ chain \in Chains /\ Len(chain) \in Nat /\ Len(chain) >= 1
    BY ChainTyped DEF RInv, ChainInv
  <1>4. /\ h \in 1..Len(chain) /\ FinalHeight(Len(chain)) <= h
        /\ FinalHeight(h) \in 0..FinalHeight(Len(chain))
        /\ FinalHeight(Len(chain)) \in 0..Len(chain)
    BY <1>3, HeightIs, FinalHeightIs
  <1> HIDE DEF h
  <1>5. h \in FinalHeight(Len(chain))..Len(chain)
    BY <1>3, <1>4
  <1>6. ASSUME NEW e \in all PROVE e \in ToSet(EventLog(FinalChain))
    <2>1. e \in ToSet(EventLog(Upto(h))) /\ e.block \in Deploy..FinalHeight(h)
      BY DEF Entries
    <2>2. e.block <= FinalHeight(Len(chain))
      BY <1>4, <2>1 DEF Deploy
    <2>3. QED
      BY <1>3, <1>5, <2>1, <2>2, FinalIsKnown
  <1>7. listed \subseteq ToSet(EventLog(FinalChain))
    BY <1>6
  <1>8. flavour # Ethereum /\ from' \in Nat
    BY <1>2 DEF Ethereum, Tron, RInv, TypeOK
  <1>9. QED
    BY <1>1, <1>2, <1>7, <1>8, CollectKept

LEMMA UptoUpto ==
  ASSUME chain \in Chains, NEW f \in 0..Len(chain), NEW g \in 0..f
  PROVE  Upto(g) = SubSeq(Upto(f), 1, g)
  <1> DEFINE d == Upto(f)
             e == SubSeq(d, 1, g)
             u == Upto(g)
  <1>1. Len(chain) \in Nat /\ g \in 0..Len(chain)
    BY ChainTyped
  <1>2. d \in Chains /\ Len(d) = f /\ \A i \in 1..f : d[i] = chain[i]
    BY UptoIs
  <1>3. u \in Chains /\ Len(u) = g /\ \A i \in 1..g : u[i] = chain[i]
    BY <1>1, UptoIs
  <1> HIDE DEF d, u
  <1>4. e \in Chains /\ Len(e) = g /\ \A i \in 1..g : e[i] = d[i]
    BY <1>2, PrefixLog
  <1> HIDE DEF e
  <1>5. \A i \in 1..Len(u) : u[i] = e[i]
    BY <1>1, <1>2, <1>3, <1>4
  <1>6. u = e
    BY <1>3, <1>4, <1>5, SeqEqual DEF Chains
  <1>7. QED
    BY <1>6 DEF u, e, d

(* What reproduces the reported root is the whole history up to the block  *)
(* the root was read at, and that history is final.                        *)
LEMMA RootTellsAll ==
  ASSUME ChainInv, NEW x \in 0..Len(chain),
         NEW F \in SUBSET ToSet(EventLog(FinalChain)),
         x >= FinalHeight(Len(chain)) \/ \A e \in F : e.block <= x,
         UNION {LeavesOf[t] : t \in {e.tx : e \in F}} = SpentBy(EventLog(Upto(x)))
  PROVE  /\ Ordered(F) = EventLog(Upto(x))
         /\ IsPrefix(History(Upto(x)), History(FinalChain))
  <1> DEFINE f == FinalHeight(Len(chain))
             c == Upto(x)
             d == FinalChain
  <1>1. chain \in Chains /\ Len(chain) \in Nat /\ f \in 0..Len(chain) /\ d \in Chains
    BY ChainTyped, FinalChainIs DEF ChainInv
  <1>2. c \in Chains /\ Len(c) = x
    BY <1>1, UptoIs
  <1>3. F \subseteq ToSet(EventLog(c))
    <2>1. CASE x >= f
      <3>1. x \in f..Len(chain)
        BY <1>1, <2>1
      <3>2. QED
        BY <3>1, FinalIsKnown
    <2>2. CASE ~ (x >= f)
      <3>1. \A e \in F : e.block <= x
        BY <2>2
      <3>2. d = SubSeq(chain, 1, f) /\ c = SubSeq(chain, 1, x)
        BY DEF FinalChain, Upto
      <3>3. ToSet(EventLog(d)) \subseteq ToSet(EventLog(chain))
        <4> HIDE DEF f, d
        <4>1. QED
          BY <1>1, <3>2, PrefixEvents
      <3>4. \A e \in ToSet(EventLog(chain)) : e.block <= x => e \in ToSet(EventLog(c))
        <4> HIDE DEF c
        <4>1. QED
          BY <1>1, <3>2, PrefixEvents
      <3>5. QED
        BY <3>1, <3>3, <3>4
    <2>3. QED
      BY <2>1, <2>2
  <1>4. F = ToSet(EventLog(c))
    <2>1. UNION {LeavesOf[e.tx] : e \in F} = UNION {LeavesOf[t] : t \in {e.tx : e \in F}}
      OBVIOUS
    <2>2. UNION {LeavesOf[e.tx] : e \in F} = SpentBy(EventLog(c))
      BY <2>1
    <2> HIDE DEF c
    <2>3. QED
      BY <1>2, <1>3, <2>2, WholeLog
  <1>5. Ordered(F) = EventLog(c)
    <2> HIDE DEF c
    <2>1. QED
      BY <1>2, <1>4, OrderedLog
  <1>6. IsPrefix(History(c), History(d))
    <2>1. CASE x >= f
      <3>1. x \in f..Len(chain)
        BY <1>1, <2>1
      <3>2. ToSet(EventLog(d)) \subseteq ToSet(EventLog(c))
        BY <3>1, FinalIsKnown
      <3>3. ToSet(EventLog(d)) = ToSet(EventLog(c))
        BY <1>4, <3>2
      <3> HIDE DEF c, d
      <3>4. EventLog(d) = EventLog(c)
        <4>1. Ordered(ToSet(EventLog(d))) = EventLog(d) /\ Ordered(ToSet(EventLog(c))) = EventLog(c)
          BY <1>1, <1>2, OrderedLog
        <4>2. QED
          BY <3>3, <4>1
      <3>5. History(d) = History(c)
        BY <3>4 DEF History
      <3>6. History(c) \in Seq(Settlements)
        BY <1>2, EventsTyped
      <3>7. Len(History(c)) \in Nat
        BY <3>6, LenProperties
      <3>8. QED
        BY <3>5, <3>7 DEF IsPrefix
    <2>2. CASE ~ (x >= f)
      <3>1. x \in 0..f
        BY <1>1, <2>2
      <3>2. d = Upto(f)
        BY DEF FinalChain
      <3>3. c = SubSeq(d, 1, x)
        BY <1>1, <3>1, <3>2, UptoUpto
      <3>4. x \in 0..Len(d)
        BY <1>1, <3>1, FinalChainIs
      <3> HIDE DEF c, d
      <3>5. QED
        BY <1>1, <3>3, <3>4, PrefixEvents
    <2>3. QED
      BY <2>1, <2>2
  <1>7. QED
    BY <1>5, <1>6

(* The log the service accepts.                                            *)
LEMMA LogAccepted ==
  ASSUME RInv, NEW lag \in Lags, ReadRoot(lag), GroupBatches,
         Reproduces({e.tx : e \in fulfilled},
                    SpentBy(EventLog(Upto(IF flavour = Ethereum THEN head ELSE Height(lag)))))
  PROVE  \E h \in (IF flavour = Ethereum THEN head ELSE Len(chain) - MaxLag)..Len(chain) :
           /\ log' = [read |-> TRUE, batches |-> History(Upto(h))]
           /\ History(Upto(h)) \in Seq(Settlements)
           /\ IsPrefix(History(Upto(h)), History(FinalChain))
  <1> DEFINE x == IF flavour = Ethereum THEN head ELSE Height(lag)
             batches == Ordered(fulfilled)
             logged == [i \in 1..Len(batches) |-> batches[i].tx]
  <1>1. /\ ChainInv /\ chain \in Chains /\ Len(chain) \in Nat /\ Len(chain) >= 1 /\ head \in Nat
        /\ pc = "root" /\ head <= Height(lag) /\ MaxLag \in Nat
    BY ChainTyped, RelayerAssumption DEF RInv, ChainInv, TypeOK, ReadRoot
  <1>2. /\ Height(lag) \in 1..Len(chain) /\ FinalHeight(Len(chain)) <= Height(lag)
        /\ Height(lag) >= Len(chain) - MaxLag
    BY <1>1, HeightIs
  <1>3. x \in 0..Len(chain)
    BY <1>1, <1>2
  <1>4. x \in (IF flavour = Ethereum THEN head ELSE Len(chain) - MaxLag)..Len(chain)
    <2>1. CASE flavour = Ethereum
      BY <1>1, <1>2, <2>1
    <2>2. CASE flavour # Ethereum
      BY <1>1, <1>2, <2>2
    <2>3. QED
      BY <2>1, <2>2
  <1>5. x >= FinalHeight(Len(chain)) \/ \A e \in fulfilled : e.block <= x
    <2>1. CASE flavour = Ethereum
      <3>1. \A e \in fulfilled : e.block <= head
        BY <1>1, <2>1 DEF RInv, ReadInv
      <3>2. QED
        BY <2>1, <3>1
    <2>2. CASE flavour # Ethereum
      <3>1. FinalHeight(Len(chain)) \in Int
        BY <1>1, FinalChainIs
      <3>2. QED
        BY <1>2, <2>2, <3>1
    <2>3. QED
      BY <2>1, <2>2
  <1>6. UNION {LeavesOf[t] : t \in {e.tx : e \in fulfilled}} = SpentBy(EventLog(Upto(x)))
    BY DEF Reproduces
  <1>7. fulfilled \in SUBSET ToSet(EventLog(FinalChain))
    BY DEF RInv, ReadInv
  <1>8. log' = [read |-> TRUE, batches |-> logged]
    BY DEF ReadRoot
  <1> HIDE DEF x
  <1>9. batches = EventLog(Upto(x)) /\ IsPrefix(History(Upto(x)), History(FinalChain))
    BY <1>1, <1>3, <1>5, <1>6, <1>7, RootTellsAll
  <1>10. logged = History(Upto(x)) /\ History(Upto(x)) \in Seq(Settlements)
    <2> DEFINE c == Upto(x)
    <2>1. c \in Chains
      BY <1>1, <1>3, UptoIs
    <2>2. batches = EventLog(c)
      BY <1>9
    <2> HIDE DEF c, batches
    <2>3. DOMAIN EventLog(c) = 1..Len(EventLog(c)) /\ History(c) \in Seq(Settlements)
      BY <2>1, EventsTyped
    <2>4. History(c) = logged
      BY <2>2, <2>3 DEF History
    <2>5. QED
      BY <2>3, <2>4 DEF c
  <1>11. QED
    BY <1>4, <1>8, <1>9, <1>10

LEMMA ReadRootStep ==
  ASSUME RInv, NEW lag \in Lags, ReadRoot(lag)
  PROVE  RInv'
  <1>1. /\ pc = "root" /\ pc' = "done"
        /\ UNCHANGED <<chain, pending, reorgs, flavour, head, from, fulfilled, released, receipt,
                       sent, crossed, asked, outcome, confirmed, verdict, genuine>>
    BY DEF ReadRoot, Done, blocks, reading, settling
  <1>2. ChainInv' /\ FinalChain' = FinalChain
    BY <1>1, ChainKept
  <1>3. outcome = None
    BY <1>1 DEF RInv, SettleInv
  <1>4. log' \in [read : BOOLEAN, batches : Seq(Settlements)]
        /\ IsPrefix(log'.batches, History(FinalChain))
    <2>1. CASE /\ GroupBatches
               /\ Reproduces({e.tx : e \in fulfilled},
                             SpentBy(EventLog(Upto(IF flavour = Ethereum THEN head ELSE Height(lag)))))
      <3>1. PICK h : /\ log' = [read |-> TRUE, batches |-> History(Upto(h))]
                     /\ History(Upto(h)) \in Seq(Settlements)
                     /\ IsPrefix(History(Upto(h)), History(FinalChain))
        BY <2>1, LogAccepted
      <3>2. QED
        BY <3>1
    <2>2. CASE ~ (/\ GroupBatches
                  /\ Reproduces({e.tx : e \in fulfilled},
                                SpentBy(EventLog(Upto(IF flavour = Ethereum THEN head ELSE Height(lag))))))
      <3>1. log' = log
        BY <2>2 DEF ReadRoot
      <3>2. QED
        BY <3>1 DEF RInv, TypeOK, EvidenceIsFinal, LogIsFinal
    <2>3. QED
      BY <2>1, <2>2
  <1>5. TypeOK'
    BY <1>1, <1>4 DEF RInv, TypeOK, Pcs
  <1>6. EvidenceIsFinal'
    BY <1>1, <1>2, <1>4 DEF RInv, EvidenceIsFinal, LogIsFinal, ConfirmedIsFinal
  <1>7. ReadInv' /\ LockInv' /\ SettleInv'
    BY <1>1, <1>2, <1>3, ReadKept, LockKept, SettleKept
  <1>8. QED
    BY <1>2, <1>5, <1>6, <1>7 DEF RInv

-------------------------------------------------------------------------------
(* The steps of settle                                                     *)

LEMMA ReceiptIs ==
  ASSUME ChainInv, NEW g \in 0..Len(chain), Mined(Mine, Upto(g))
  PROVE  LET r == ReceiptOn(Upto(g)) IN
         /\ r \in [block : Nat, ok : BOOLEAN]
         /\ r.block \in 1..g /\ Mine \in ToSet(chain[r.block])
         /\ r.ok <=> Mine \in Executed(chain)
  <1> DEFINE c == Upto(g)
             r == ReceiptOn(c)
  <1>1. chain \in Chains /\ Distinct(chain) /\ Len(chain) \in Nat
    BY ChainTyped DEF ChainInv
  <1>2. /\ c = SubSeq(chain, 1, g) /\ c \in Chains /\ Len(c) = g
        /\ \A h \in 1..g : c[h] = chain[h]
    BY <1>1, UptoIs
  <1>3. Distinct(c)
    BY UptoDistinct
  <1>4. Mined(Mine, c)
    OBVIOUS
  <1> HIDE DEF c
  <1>5. PICK h \in 1..g : Mine \in ToSet(c[h])
    BY <1>2, <1>4 DEF Mined
  <1>6. BlockOf(Mine, c) = h
    BY <1>2, <1>3, <1>5, BlockOfIs
  <1>7. Mine \in ToSet(chain[h])
    BY <1>2, <1>5
  <1>8. Mine \in Executed(chain) <=> Mine \in Executed(c)
    BY <1>1, <1>2, <1>5, <1>7, ExecutedWhereMined
  <1>9. r.block = h /\ (r.ok <=> Mine \in Executed(c)) /\ r \in [block : Nat, ok : BOOLEAN]
    <2>1. h \in Nat
      BY <1>1
    <2> DEFINE good == Mine \in Executed(c)
    <2>2. r = [block |-> h, ok |-> good] /\ good \in BOOLEAN
      BY <1>6 DEF ReceiptOn
    <2> HIDE DEF r, good
    <2>3. r.block = h /\ r.ok = good /\ r \in [block : Nat, ok : BOOLEAN]
      BY <2>1, <2>2
    <2>4. QED
      BY <2>2, <2>3 DEF good
  <1>10. QED
    BY <1>7, <1>8, <1>9 DEF c

(* A receipt in a final block is final.                                    *)
LEMMA FinalReceipt ==
  ASSUME ChainInv, NEW b \in 1..FinalHeight(Len(chain)), Mine \in ToSet(chain[b])
  PROVE  /\ Mined(Mine, FinalChain)
         /\ Mine \in Executed(FinalChain) <=> Mine \in Executed(chain)
  <1> DEFINE f == FinalHeight(Len(chain))
  <1>1. chain \in Chains /\ Distinct(chain)
    BY DEF ChainInv
  <1>2. /\ f \in 0..Len(chain) /\ FinalChain = SubSeq(chain, 1, f)
        /\ FinalChain \in Chains /\ Len(FinalChain) = f /\ \A h \in 1..f : FinalChain[h] = chain[h]
    BY <1>1, FinalChainIs
  <1>3. b \in 1..f
    OBVIOUS
  <1> HIDE DEF f
  <1>4. Mined(Mine, FinalChain)
    BY <1>2, <1>3 DEF Mined
  <1>5. Mine \in Executed(chain) <=> Mine \in Executed(SubSeq(chain, 1, f))
    BY <1>1, <1>2, <1>3, ExecutedWhereMined
  <1>6. QED
    BY <1>2, <1>4, <1>5

LEMMA DeepIsFinal ==
  ASSUME ChainInv, NEW h \in 0..Len(chain), NEW b \in Nat \ {0}, Deep(h, b)
  PROVE  b \in 1..FinalHeight(Len(chain))
  <1> DEFINE l == Len(chain)
  <1>1. l \in Nat /\ K \in Nat /\ K >= 1
    BY ChainTyped, RelayerAssumption DEF ChainInv
  <1>2. h \in 0..l
    OBVIOUS
  <1> HIDE DEF l
  <1>3. FinalHeight(l) = IF l >= K - 1 THEN l - (K - 1) ELSE 0
    BY <1>1, FinalHeightIs
  <1>4. h - b + 1 >= K
    BY DEF Deep
  <1>5. b \in 1..FinalHeight(l)
    BY <1>1, <1>2, <1>3, <1>4
  <1>6. QED
    BY <1>5 DEF l

LEMMA ReadReceiptStep ==
  ASSUME RInv, NEW lag \in Lags, ReadReceipt(lag)
  PROVE  RInv'
  <1> DEFINE h == Height(lag)
  <1>1. /\ pc = "receipt" /\ pc' = "depth" /\ crossed' = FALSE
        /\ Mined(Mine, Upto(h)) /\ receipt' = ReceiptOn(Upto(h))
        /\ UNCHANGED <<chain, pending, reorgs, flavour, head, from, fulfilled, released,
                       sent, asked, log, outcome, confirmed, verdict, genuine>>
    BY DEF ReadReceipt, Goto, blocks, reading, answers
  <1>2. ChainInv' /\ FinalChain' = FinalChain /\ chain \in Chains /\ Len(chain) \in Nat /\ Len(chain) >= 1
    BY <1>1, ChainKept
  <1>3. h \in 1..Len(chain)
    BY <1>2, HeightIs
  <1> HIDE DEF h
  <1>4. /\ receipt' \in [block : Nat, ok : BOOLEAN]
        /\ receipt'.block \in 1..h /\ Mine \in ToSet(chain[receipt'.block])
        /\ receipt'.ok <=> Mine \in Executed(chain)
    <2>1. h \in 0..Len(chain)
      BY <1>2, <1>3
    <2>2. QED
      BY <1>1, <2>1, ReceiptIs DEF RInv
  <1>5. receipt'.block \in 1..Len(chain)
    BY <1>2, <1>3, <1>4
  <1>6. outcome = None /\ verdict = None
    BY <1>1 DEF RInv, SettleInv
  <1>7. TypeOK'
    BY <1>1, <1>4 DEF RInv, TypeOK, Pcs
  <1>8. SettleInv'
    BY <1>1, <1>4, <1>5, <1>6 DEF SettleInv, None, Submitted, Failed, StaleRoot
  <1>9. ReadInv' /\ EvidenceIsFinal' /\ LockInv'
    BY <1>1, <1>2, ReadKept, EvidenceKept, LockKept
  <1>10. QED
    BY <1>2, <1>7, <1>8, <1>9 DEF RInv

(* What is concluded from a final receipt.                                 *)
LEMMA ConcludesKept ==
  ASSUME RInv, NEW ok \in BOOLEAN, Concludes(ok), pc \notin {"idle", "done"}, chain' = chain,
         ~ crossed => /\ Mined(Mine, FinalChain)
                      /\ ok <=> Mine \in Executed(FinalChain),
         UNCHANGED <<sent, crossed>>, receipt' \in [block : Nat, ok : BOOLEAN]
  PROVE  RInv'
  <1>1. /\ pc' = "done" /\ outcome' = (IF ok THEN Submitted ELSE Reverted)
        /\ UNCHANGED <<chain, pending, reorgs, flavour, head, from, fulfilled, released,
                       asked, log, confirmed, verdict, genuine>>
    BY DEF Concludes, Ends, Done, blocks, reading
  <1>2. ChainInv' /\ FinalChain' = FinalChain
    BY <1>1, ChainKept
  <1>3. Reverted \in {StaleRoot, Failed}
    BY DEF Reverted
  <1>4. TypeOK'
    BY <1>1, <1>3 DEF RInv, TypeOK, Pcs
  <1>5. SettleInv'
    <2>1. outcome' = Submitted => ok
      BY <1>1, <1>3 DEF Submitted, StaleRoot, Failed
    <2>2. outcome' \in {Failed, StaleRoot} => ~ ok
      BY <1>1 DEF Submitted, StaleRoot, Failed
    <2>3. QED
      BY <1>1, <1>2, <2>1, <2>2 DEF SettleInv
  <1>6. ReadInv' /\ EvidenceIsFinal' /\ LockInv'
    BY <1>1, <1>2, ReadKept, EvidenceKept, LockKept
  <1>7. QED
    BY <1>2, <1>4, <1>5, <1>6 DEF RInv

LEMMA ReadDepthStep ==
  ASSUME RInv, NEW lag \in Lags, ReadDepth(lag)
  PROVE  RInv'
  <1> DEFINE h == Height(lag)
  <1>1. pc = "depth" /\ ChainInv /\ chain \in Chains /\ Len(chain) \in Nat /\ Len(chain) >= 1
    BY ChainTyped DEF ReadDepth, RInv, ChainInv
  <1>2. h \in 0..Len(chain)
    <2>1. h \in 1..Len(chain)
      BY <1>1, HeightIs
    <2> HIDE DEF h
    <2>2. QED
      BY <1>1, <2>1
  <1>3. receipt \in [block : Nat, ok : BOOLEAN]
    BY DEF RInv, TypeOK
  <1>4. CASE Deep(h, receipt.block)
    <2>1. Concludes(receipt.ok) /\ UNCHANGED <<receipt, sent, crossed>>
      BY <1>4 DEF ReadDepth, settling
    <2>2. chain' = chain
      BY <2>1 DEF Concludes, Ends, Done, blocks
    <2> HIDE DEF h
    <2>3. ASSUME ~ crossed
          PROVE  Mined(Mine, FinalChain) /\ (receipt.ok <=> Mine \in Executed(FinalChain))
      <3>1. /\ receipt.block \in 1..Len(chain) /\ Mine \in ToSet(chain[receipt.block])
            /\ receipt.ok <=> Mine \in Executed(chain)
        BY <1>1, <2>3 DEF RInv, SettleInv
      <3>2. receipt.block \in Nat \ {0}
        BY <1>1, <3>1
      <3>3. receipt.block \in 1..FinalHeight(Len(chain))
        BY <1>1, <1>2, <1>4, <3>2, DeepIsFinal
      <3>4. QED
        BY <1>1, <3>1, <3>3, FinalReceipt
    <2>4. receipt.ok \in BOOLEAN /\ receipt' \in [block : Nat, ok : BOOLEAN]
      BY <1>3, <2>1
    <2>5. QED
      BY <1>1, <2>1, <2>2, <2>3, <2>4, ConcludesKept
  <1>5. CASE ~ Deep(h, receipt.block)
    <2>1. /\ pc' = "receipt" /\ receipt' = NoReceipt
          /\ UNCHANGED <<chain, pending, reorgs, flavour, head, from, fulfilled, released,
                         sent, crossed, asked, log, outcome, confirmed, verdict, genuine>>
      BY <1>5 DEF ReadDepth, Goto, blocks, reading, answers
    <2>2. ChainInv' /\ FinalChain' = FinalChain
      BY <2>1, ChainKept
    <2>3. outcome = None /\ verdict = None
      BY <1>1 DEF RInv, SettleInv
    <2>4. TypeOK'
      BY <2>1 DEF RInv, TypeOK, Pcs, NoReceipt
    <2>5. ReadInv' /\ EvidenceIsFinal' /\ LockInv' /\ SettleInv'
      BY <1>1, <2>1, <2>2, <2>3, ReadKept, EvidenceKept, LockKept, SettleKept
    <2>6. QED
      BY <2>2, <2>4, <2>5 DEF RInv
  <1>6. QED
    BY <1>4, <1>5

LEMMA ReadSolidifiedStep ==
  ASSUME RInv, NEW lag \in Lags, ReadSolidified(lag)
  PROVE  RInv'
  <1> DEFINE g == FinalHeight(Height(lag))
  <1>1. /\ pc = "receipt" /\ Mined(Mine, Upto(g)) /\ receipt' = ReceiptOn(Upto(g))
        /\ Concludes(receipt'.ok) /\ UNCHANGED <<sent, crossed>>
    BY DEF ReadSolidified
  <1>2. chain' = chain
    BY <1>1 DEF Concludes, Ends, Done, blocks
  <1>3. ChainInv /\ chain \in Chains /\ Len(chain) \in Nat /\ Len(chain) >= 1
    BY ChainTyped DEF RInv, ChainInv
  <1>4. g \in 0..FinalHeight(Len(chain)) /\ FinalHeight(Len(chain)) \in 0..Len(chain)
    BY <1>3, HeightIs, FinalChainIs
  <1> HIDE DEF g
  <1>5. g \in 0..Len(chain)
    BY <1>3, <1>4
  <1>6. /\ receipt' \in [block : Nat, ok : BOOLEAN]
        /\ receipt'.block \in 1..g /\ Mine \in ToSet(chain[receipt'.block])
        /\ receipt'.ok <=> Mine \in Executed(chain)
    BY <1>1, <1>3, <1>5, ReceiptIs
  <1>7. receipt'.block \in 1..FinalHeight(Len(chain))
    BY <1>3, <1>4, <1>6
  <1>8. Mined(Mine, FinalChain) /\ (receipt'.ok <=> Mine \in Executed(FinalChain))
    BY <1>3, <1>6, <1>7, FinalReceipt
  <1>9. receipt'.ok \in BOOLEAN
    BY <1>6
  <1>10. QED
    BY <1>1, <1>2, <1>6, <1>8, <1>9, ConcludesKept

-------------------------------------------------------------------------------
(* The steps of confirm                                                    *)

LEMMA StartConfirmStep ==
  ASSUME RInv, NEW lag \in Lags, NEW tx \in Settlements, NEW n \in Nullifiers,
         StartConfirm(lag, tx, n)
  PROVE  RInv'
  <1> DEFINE h == Height(lag)
  <1>1. /\ pc = "idle" /\ pc' = "confirm" /\ head' = h
        /\ asked' = {[tx |-> tx, nullifier |-> n]}
        /\ UNCHANGED <<chain, pending, reorgs, flavour, from, fulfilled, released, receipt,
                       sent, crossed, log, outcome, confirmed, verdict, genuine>>
    BY DEF StartConfirm, Goto, blocks, settling, answers
  <1>2. ChainInv' /\ FinalChain' = FinalChain /\ chain \in Chains /\ Len(chain) \in Nat /\ Len(chain) >= 1
    BY <1>1, ChainKept
  <1>3. h \in 1..Len(chain)
    BY <1>2, HeightIs
  <1> HIDE DEF h
  <1>4. h \in Nat /\ h <= Len(chain)
    BY <1>2, <1>3
  <1>5. outcome = None /\ verdict = None /\ confirmed = {}
    BY <1>1 DEF RInv, SettleInv, ReadInv
  <1>6. asked' \subseteq Releases
    BY <1>1 DEF Releases
  <1>7. TypeOK'
    BY <1>1, <1>4, <1>5, <1>6 DEF RInv, TypeOK, Pcs
  <1>8. ReadInv'
    BY <1>1, <1>2, <1>4 DEF RInv, ReadInv
  <1>9. EvidenceIsFinal' /\ LockInv' /\ SettleInv'
    BY <1>1, <1>2, <1>5, EvidenceKept, LockKept, SettleKept
  <1>10. QED
    BY <1>2, <1>7, <1>8, <1>9 DEF RInv

(* A release confirmed deep enough, or by a solidity node, is final.       *)
LEMMA ConfirmedAreFinal ==
  ASSUME RInv, NEW lag \in Lags, ConfirmRelease(lag), NEW r \in confirmed'
  PROVE  r.tx \in Executed(FinalChain) /\ r.nullifier \in LeavesOf[r.tx]
  <1> DEFINE h == Height(lag)
             g == FinalHeight(h)
             f == FinalHeight(Len(chain))
             d == FinalChain
  <1>1. /\ pc = "confirm" /\ r \in asked
        /\ \/ ConfirmedSolidified(lag, r)
           \/ ConfirmedAtDepth(lag, r)
    BY DEF ConfirmRelease
  <1>2. /\ ChainInv /\ chain \in Chains /\ Len(chain) \in Nat /\ Len(chain) >= 1
        /\ head \in Nat /\ head <= Len(chain)
    BY <1>1, ChainTyped DEF RInv, ChainInv, TypeOK, ReadInv
  <1>3. h \in 1..Len(chain) /\ f <= h /\ g \in 0..f /\ f \in 0..Len(chain)
    BY <1>2, HeightIs, FinalChainIs
  <1>4. d \in Chains /\ Len(d) = f /\ d = Upto(f)
    BY <1>2, FinalChainIs DEF FinalChain
  <1>5. CASE ConfirmedSolidified(lag, r)
    <2>1. r.tx \in Executed(Upto(g)) /\ r.nullifier \in LeavesOf[r.tx]
      BY <1>5 DEF ConfirmedSolidified, ReleaseLogged
    <2> HIDE DEF g, f, d
    <2>2. Upto(g) = SubSeq(d, 1, g)
      BY <1>2, <1>3, <1>4, UptoUpto
    <2>3. g \in 0..Len(d)
      BY <1>3, <1>4
    <2>4. Executed(Upto(g)) \subseteq Executed(d)
      BY <1>4, <2>2, <2>3, PrefixEvents
    <2>5. QED
      BY <2>1, <2>4 DEF d
  <1>6. CASE ConfirmedAtDepth(lag, r)
    <2> DEFINE c == Upto(h)
    <2>1. /\ r.tx \in Executed(c) /\ r.nullifier \in LeavesOf[r.tx]
          /\ Deep(head, BlockOf(r.tx, c))
      BY <1>6 DEF ConfirmedAtDepth, ReleaseLogged
    <2> HIDE DEF h, g, f
    <2>2. h \in 0..Len(chain)
      BY <1>2, <1>3
    <2>3. c \in Chains /\ Len(c) = h /\ Distinct(c)
      BY <1>2, <2>2, UptoIs, UptoDistinct
    <2> HIDE DEF c
    <2>4. PICK e \in ToSet(EventLog(c)) :
            e.tx = r.tx /\ e.block \in 1..Len(c) /\ r.tx \in ToSet(c[e.block])
      BY <2>1, <2>3, ExecutedIsMined
    <2>5. BlockOf(r.tx, c) = e.block
      BY <2>3, <2>4, BlockOfIs
    <2>6. e.block \in Nat \ {0} /\ head \in 0..Len(chain)
      BY <1>2, <1>3, <2>3, <2>4
    <2>7. e.block \in 1..FinalHeight(Len(chain))
      BY <1>2, <2>1, <2>5, <2>6, DeepIsFinal
    <2>8. e \in ToSet(EventLog(d))
      <3>1. h \in FinalHeight(Len(chain))..Len(chain) /\ e.block <= FinalHeight(Len(chain))
        BY <1>2, <1>3, <2>7 DEF f
      <3>2. QED
        BY <1>2, <2>4, <3>1, FinalIsKnown DEF c
    <2> HIDE DEF d
    <2>9. e.tx \in Executed(d)
      BY <1>4, <2>8, EventsTyped
    <2>10. QED
      BY <2>1, <2>4, <2>9 DEF d
  <1>7. QED
    BY <1>1, <1>5, <1>6

LEMMA ConfirmReleaseStep ==
  ASSUME RInv, NEW lag \in Lags, ConfirmRelease(lag)
  PROVE  RInv'
  <1>1. /\ pc = "confirm" /\ pc' = "done" /\ confirmed' \subseteq asked
        /\ UNCHANGED <<chain, pending, reorgs, flavour, head, from, fulfilled, released, receipt,
                       sent, crossed, asked, log, outcome, verdict, genuine>>
    BY DEF ConfirmRelease, Done, blocks, reading, settling
  <1>2. ChainInv' /\ FinalChain' = FinalChain
    BY <1>1, ChainKept
  <1>3. outcome = None
    BY <1>1 DEF RInv, SettleInv
  <1>4. TypeOK'
    BY <1>1 DEF RInv, TypeOK, Pcs
  <1>5. \A r \in confirmed' : r.tx \in Executed(FinalChain) /\ r.nullifier \in LeavesOf[r.tx]
    BY ConfirmedAreFinal
  <1>6. EvidenceIsFinal'
    BY <1>1, <1>2, <1>5 DEF RInv, EvidenceIsFinal, LogIsFinal, ConfirmedIsFinal
  <1>7. ReadInv' /\ LockInv' /\ SettleInv'
    BY <1>1, <1>2, <1>3, ReadKept, LockKept, SettleKept
  <1>8. QED
    BY <1>2, <1>4, <1>6, <1>7 DEF RInv

-------------------------------------------------------------------------------
(* The steps of simulate                                                   *)

LEMMA StartSimulateStep ==
  ASSUME RInv, NEW lag \in Lags, StartSimulate(lag)
  PROVE  RInv'
  <1> DEFINE h == Height(lag)
  <1>1. /\ pc = "idle" /\ pc' = "locks" /\ genuine' = Mined(Lock, FinalChain)
        /\ head' = (IF flavour = Ethereum THEN FinalHeight(h) ELSE 0)
        /\ UNCHANGED <<chain, pending, reorgs, flavour, from, fulfilled, released, receipt,
                       sent, crossed, asked, log, outcome, confirmed, verdict>>
    BY DEF StartSimulate, Goto, blocks, settling, answers
  <1>2. ChainInv' /\ FinalChain' = FinalChain /\ chain \in Chains /\ Len(chain) \in Nat /\ Len(chain) >= 1
    BY <1>1, ChainKept
  <1>3. FinalHeight(h) \in 0..FinalHeight(Len(chain))
    BY <1>2, HeightIs
  <1>4. head' \in Nat /\ genuine' \in BOOLEAN
    <2>1. FinalHeight(Len(chain)) \in Nat
      BY <1>2, FinalChainIs
    <2> HIDE DEF h
    <2>2. head' \in Nat
      BY <1>1, <1>3, <2>1
    <2>3. Mined(Lock, FinalChain) \in BOOLEAN
      BY DEF Mined
    <2>4. QED
      BY <1>1, <2>2, <2>3
  <1>5. outcome = None /\ verdict = None
    BY <1>1 DEF RInv, SettleInv
  <1>6. TypeOK'
    BY <1>1, <1>4 DEF RInv, TypeOK, Pcs
  <1>7. LockInv'
    BY <1>1, <1>2, <1>5 DEF LockInv, None
  <1>8. ReadInv' /\ EvidenceIsFinal' /\ SettleInv'
    BY <1>1, <1>2, <1>5, ReadKept, EvidenceKept, SettleKept
  <1>9. QED
    BY <1>2, <1>6, <1>7, <1>8 DEF RInv

(* The request is followed by another.                                     *)
LEMMA LooksOn ==
  ASSUME RInv, pc \in {"locks", "latest"}, pc' \in {"latest", "payout"},
         UNCHANGED <<chain, pending, reorgs, flavour, head, from, fulfilled, released, receipt,
                     sent, crossed, asked, log, outcome, confirmed, verdict, genuine>>
  PROVE  RInv'
  <1>1. ChainInv' /\ FinalChain' = FinalChain
    BY ChainKept
  <1>2. outcome = None /\ verdict = None
    BY DEF RInv, SettleInv
  <1>3. TypeOK'
    BY DEF RInv, TypeOK, Pcs
  <1>4. ReadInv' /\ EvidenceIsFinal' /\ LockInv' /\ SettleInv'
    BY <1>1, <1>2, ReadKept, EvidenceKept, LockKept, SettleKept
  <1>5. QED
    BY <1>1, <1>3, <1>4 DEF RInv

LEMMA JudgedKept ==
  ASSUME RInv, NEW kind \in {"unconfirmed", "lock"} \cup PayoutVerdicts, Judged(kind),
         pc \in {"locks", "latest", "payout"},
         kind = "lock" => ~ Mined(Lock, FinalChain)
  PROVE  RInv'
  <1>1. /\ pc' = "done" /\ verdict' = kind
        /\ UNCHANGED <<chain, pending, reorgs, flavour, head, from, fulfilled, released, receipt,
                       sent, crossed, asked, log, outcome, confirmed, genuine>>
    BY DEF Judged, Done, blocks, reading, settling
  <1>2. ChainInv' /\ FinalChain' = FinalChain
    BY <1>1, ChainKept
  <1>3. outcome = None
    BY DEF RInv, SettleInv
  <1>4. TypeOK'
    BY <1>1 DEF RInv, TypeOK, Pcs
  <1>5. LockInv'
    BY <1>1, <1>2 DEF RInv, LockInv
  <1>6. ReadInv' /\ EvidenceIsFinal' /\ SettleInv'
    BY <1>1, <1>2, <1>3, ReadKept, EvidenceKept, SettleKept
  <1>7. QED
    BY <1>2, <1>4, <1>5, <1>6 DEF RInv

(* A lock no replica's latest block has is not final.                      *)
LEMMA UnknownIsNotFinal ==
  ASSUME RInv, NEW lag \in Lags, ~ Mined(Lock, Upto(Height(lag)))
  PROVE  ~ Mined(Lock, FinalChain)
  <1> DEFINE h == Height(lag)
  <1>1. ChainInv /\ chain \in Chains /\ Len(chain) \in Nat /\ Len(chain) >= 1
    BY ChainTyped DEF RInv, ChainInv
  <1>2. h \in 1..Len(chain) /\ FinalHeight(Len(chain)) <= h /\ FinalHeight(Len(chain)) \in 0..Len(chain)
    BY <1>1, HeightIs, FinalChainIs
  <1>3. ~ Mined(Lock, Upto(h))
    OBVIOUS
  <1> HIDE DEF h
  <1>4. h \in FinalHeight(Len(chain))..Len(chain)
    BY <1>1, <1>2
  <1>5. QED
    BY <1>1, <1>3, <1>4, FinalIsKnown

LEMMA CheckLockStep ==
  ASSUME RInv, NEW lag \in Lags, CheckLock(lag)
  PROVE  RInv'
  <1>1. pc = "locks"
    BY DEF CheckLock
  <1>2. CASE KnownAt(lag) \/ flavour # Tron
    <2>1. /\ pc' \in {"latest", "payout"}
          /\ UNCHANGED <<chain, pending, reorgs, flavour, head, from, fulfilled, released, receipt,
                         sent, crossed, asked, log, outcome, confirmed, verdict, genuine>>
      BY <1>2 DEF CheckLock, Goto, blocks, reading, settling, answers
    <2>2. QED
      BY <1>1, <2>1, LooksOn
  <1>3. CASE ~ KnownAt(lag) /\ flavour = Tron
    <2>1. Judged("lock")
      BY <1>3 DEF CheckLock
    <2>2. ~ Mined(Lock, Upto(Height(lag)))
      BY <1>3 DEF KnownAt, Tron, Ethereum
    <2>3. QED
      BY <1>1, <2>1, <2>2, UnknownIsNotFinal, JudgedKept
  <1>4. QED
    BY <1>2, <1>3

LEMMA CheckLatestStep ==
  ASSUME RInv, NEW lag \in Lags, CheckLatest(lag)
  PROVE  RInv'
  <1>1. pc = "latest" /\ Judged(Kind(lag))
    BY DEF CheckLatest
  <1>2. Kind(lag) \in {"unconfirmed", "lock"}
    BY DEF Kind
  <1>3. Kind(lag) = "lock" => ~ Mined(Lock, Upto(Height(lag)))
    BY DEF Kind
  <1>4. QED
    BY <1>1, <1>2, <1>3, UnknownIsNotFinal, JudgedKept

LEMMA CheckPayoutStep ==
  ASSUME RInv, CheckPayout
  PROVE  RInv'
  <1>1. PICK kind \in PayoutVerdicts : Judged(kind)
    BY DEF CheckPayout
  <1>2. pc = "payout" /\ kind # "lock"
    BY DEF CheckPayout, PayoutVerdicts
  <1>3. QED
    BY <1>1, <1>2, JudgedKept

-------------------------------------------------------------------------------
(* The theorems                                                            *)

LEMMA InitRInv == Init => RInv
  <1> SUFFICES ASSUME Init PROVE RInv
    OBVIOUS
  <1>1. /\ chain = <<(<<>>)>> /\ pending = (Settlements \ {Mine}) \cup {Lock} /\ reorgs = 0
        /\ pc = "idle" /\ head = 0 /\ from = 0 /\ fulfilled = {} /\ released = {}
        /\ receipt = NoReceipt /\ sent = FALSE /\ crossed = FALSE /\ asked = {}
        /\ log = NoLog /\ outcome = None /\ confirmed = {} /\ verdict = None /\ genuine = FALSE
        /\ flavour \in Flavours
    BY DEF Init
  <1>2. /\ Mine \in Settlements /\ Lock \notin Settlements /\ Flavours \subseteq {Ethereum, Tron}
        /\ MaxReorgs \in Nat
    BY RelayerAssumption
  <1>3. chain \in Chains /\ Len(chain) = 1 /\ chain[1] = <<>>
    <2>1. <<>> \in Blocks
      BY DEF Blocks
    <2>2. QED
      BY <1>1, <2>1 DEF Chains
  <1>4. Len(<<>>) = 0 /\ ToSet(<<>>) = {}
    BY DEF ToSet
  <1>5. ChainInv
    <2>1. \A h \in 1..Len(chain) : chain[h] = <<>>
      BY <1>3
    <2>2. Distinct(chain)
      BY <1>4, <2>1 DEF Distinct
    <2>3. ~ Mined(Mine, chain)
      BY <1>4, <2>1 DEF Mined
    <2>4. pending \subseteq Transactions /\ Mine \notin pending
      BY <1>1, <1>2 DEF Transactions
    <2>5. QED
      BY <1>3, <1>4, <2>1, <2>2, <2>3, <2>4 DEF ChainInv
  <1>6. TypeOK
    <2>1. chain \in Seq(Seq(Transactions)) /\ pending \subseteq Transactions
      BY <1>5 DEF ChainInv, Chains, Blocks
    <2>2. log \in [read : BOOLEAN, batches : Seq(Settlements)]
      BY <1>1 DEF NoLog
    <2>3. receipt \in [block : Nat, ok : BOOLEAN]
      BY <1>1 DEF NoReceipt
    <2>4. /\ fulfilled \subseteq EventEntries /\ released \subseteq EventEntries
          /\ asked \subseteq Releases /\ confirmed \subseteq asked
      BY <1>1
    <2>5. reorgs \in 0..MaxReorgs /\ head \in Nat /\ from \in Nat
      BY <1>1, <1>2
    <2>6. QED
      BY <1>1, <2>1, <2>2, <2>3, <2>4, <2>5 DEF TypeOK, Pcs
  <1>7. ReadInv
    BY <1>1 DEF ReadInv
  <1>8. EvidenceIsFinal
    <2> DEFINE d == FinalChain
    <2>1. d \in Chains
      BY <1>3, FinalChainIs
    <2> HIDE DEF d
    <2>2. History(d) \in Seq(Settlements) /\ Len(History(d)) \in Nat
      <3>1. History(d) \in Seq(Settlements)
        BY <2>1, EventsTyped
      <3>2. QED
        BY <3>1, LenProperties
    <2>3. log.batches = <<>>
      BY <1>1 DEF NoLog
    <2>4. IsPrefix(<<>>, History(d))
      <3>1. SubSeq(<<>>, 1, 0) = <<>> /\ SubSeq(History(d), 1, 0) = <<>>
        BY <2>2, SubSeqEmpty
      <3>2. QED
        BY <1>4, <2>2, <3>1 DEF IsPrefix
    <2>5. QED
      BY <1>1, <2>3, <2>4 DEF EvidenceIsFinal, LogIsFinal, ConfirmedIsFinal, d
  <1>9. SettleInv
    BY <1>1 DEF SettleInv, None, Submitted, Failed, StaleRoot
  <1>10. LockInv
    BY <1>1 DEF LockInv
  <1>11. QED
    BY <1>5, <1>6, <1>7, <1>8, <1>9, <1>10 DEF RInv

LEMMA StutterRInv ==
  ASSUME RInv, UNCHANGED vars
  PROVE  RInv'
  <1>1. UNCHANGED <<chain, pending, reorgs, flavour, pc, head, from, fulfilled, released, receipt,
                    sent, crossed, asked, log, outcome, confirmed, verdict, genuine>>
    BY DEF vars, blocks, reading, settling, answers
  <1>2. FinalChain' = FinalChain
    BY <1>1, FinalStays
  <1>3. TypeOK' /\ ChainInv'
    BY <1>1 DEF RInv, TypeOK, ChainInv
  <1>4. ReadInv' /\ EvidenceIsFinal' /\ SettleInv' /\ LockInv'
    BY <1>1, <1>2 DEF RInv, ReadInv, EvidenceIsFinal, LogIsFinal, ConfirmedIsFinal, SettleInv, LockInv
  <1>5. QED
    BY <1>3, <1>4 DEF RInv

LEMMA NextRInv == RInv /\ [Next]_vars => RInv'
  <1> SUFFICES ASSUME RInv, [Next]_vars PROVE RInv'
    OBVIOUS
  <1>1. CASE UNCHANGED vars
    BY <1>1, StutterRInv
  <1>2. CASE Grow
    BY <1>2, GrowStep
  <1>3. ASSUME NEW depth \in 1..(K - 1), Reorg(depth) PROVE RInv'
    BY <1>3, ReorgStep
  <1>4. CASE CommandFails
    BY <1>4, CommandFailsStep
  <1>5. CASE SendFails
    BY <1>5, SendFailsStep
  <1>6. CASE DeadlinePasses
    BY <1>6, DeadlineStep
  <1>7. CASE CheckPayout
    BY <1>7, CheckPayoutStep
  <1>8. ASSUME NEW lag \in Lags,
               \/ StartEvents(lag) \/ ReadWindow(lag) \/ ReadPages(lag) \/ ReadRoot(lag)
        PROVE  RInv'
    BY <1>8, StartEventsStep, ReadWindowStep, ReadPagesStep, ReadRootStep
  <1>9. ASSUME NEW lag \in Lags,
               \/ Refused(lag) \/ Send(lag) \/ ReadReceipt(lag) \/ ReadDepth(lag)
               \/ ReadSolidified(lag)
        PROVE  RInv'
    BY <1>9, RefusedStep, SendStep, ReadReceiptStep, ReadDepthStep, ReadSolidifiedStep
  <1>10. ASSUME NEW lag \in Lags, NEW tx \in Settlements, NEW n \in Nullifiers,
                StartConfirm(lag, tx, n)
         PROVE  RInv'
    BY <1>10, StartConfirmStep
  <1>11. ASSUME NEW lag \in Lags,
                \/ ConfirmRelease(lag)
                \/ StartSimulate(lag) \/ CheckLock(lag) \/ CheckLatest(lag)
         PROVE  RInv'
    BY <1>11, ConfirmReleaseStep, StartSimulateStep, CheckLockStep, CheckLatestStep
  <1>12. QED
    BY <1>1, <1>2, <1>3, <1>4, <1>5, <1>6, <1>7, <1>8, <1>9, <1>10, <1>11 DEF Next

(* Everything the command keeps in hand is what it should be, after any    *)
(* sequence of requests, blocks and reorganisations (chain section of both *)
(* relayer scripts, submitter.rs).                                         *)
THEOREM InductiveInvariant == Spec => []RInv
  BY InitRInv, NextRInv, PTL DEF Spec

(* The variables have their types.                                         *)
THEOREM TypeCorrect == Spec => []TypeOK
  <1>1. RInv => TypeOK
    BY DEF RInv
  <1>2. QED
    BY <1>1, InductiveInvariant, PTL

(* A log the service accepted (rebuild_verified) and a release the second  *)
(* node confirmed (confirm) are history no reorganisation takes back.      *)
THEOREM EvidenceIsFinalHolds == Spec => []EvidenceIsFinal
  <1>1. RInv => EvidenceIsFinal
    BY DEF RInv
  <1>2. QED
    BY <1>1, InductiveInvariant, PTL

(* settle reports a settlement as submitted when it is final, and as       *)
(* failed or stale when it will never release, unless the chain was        *)
(* reorganised between the requests for its receipt and for the height     *)
(* (relayer-eth.js waitReceipt).                                           *)
LEMMA RInvReports == RInv => ReportHolds
  <1> SUFFICES ASSUME RInv, ~ crossed
               PROVE  /\ SettledIsFinal
                      /\ sent /\ outcome \in {Failed, StaleRoot} => Mine \notin Executed(chain)
    BY DEF ReportHolds
  <1>1. SettledIsFinal
    BY DEF RInv, SettleInv, SettledIsFinal
  <1>2. ASSUME sent, outcome \in {Failed, StaleRoot} PROVE Mine \notin Executed(chain)
    <2> DEFINE f == FinalHeight(Len(chain))
               d == FinalChain
    <2>1. Mined(Mine, d) /\ Mine \notin Executed(d)
      BY <1>2 DEF RInv, SettleInv
    <2>2. chain \in Chains /\ Distinct(chain)
      BY DEF RInv, ChainInv
    <2>3. f \in 0..Len(chain) /\ d = SubSeq(chain, 1, f) /\ Len(d) = f /\ \A h \in 1..f : d[h] = chain[h]
      BY <2>2, FinalChainIs
    <2> HIDE DEF d, f
    <2>4. PICK h \in 1..f : Mine \in ToSet(chain[h])
      BY <2>1, <2>3 DEF Mined
    <2>5. Mine \in Executed(chain) <=> Mine \in Executed(SubSeq(chain, 1, f))
      BY <2>2, <2>3, <2>4, ExecutedWhereMined
    <2>6. QED
      BY <2>1, <2>3, <2>5
  <1>3. QED
    BY <1>1, <1>2

THEOREM ReportHoldsAlways == Spec => []ReportHolds
  BY RInvReports, InductiveInvariant, PTL

(* simulate gives a burn up for its lock only when the lock was not final  *)
(* as it started: the chosen block, or a replica behind, is not enough.    *)
THEOREM LockRefusedForGoodHolds == Spec => []LockRefusedForGood
  <1>1. RInv => LockRefusedForGood
    BY DEF RInv, LockInv, LockRefusedForGood
  <1>2. QED
    BY <1>1, InductiveInvariant, PTL

(* The log the service accepts is the vault's whole history up to a block  *)
(* no earlier than the one it was read to: the root tells what windows,    *)
(* pages and lagging replicas left out (rebuild_verified).                 *)
WholeStep ==
  log'.read /\ ~log.read =>
    \E h \in (IF flavour = Ethereum THEN head ELSE Len(chain) - MaxLag)..Len(chain) :
      log'.batches = History(Upto(h))

LEMMA StepIsWhole == RInv /\ [Next]_vars => WholeStep
  <1> SUFFICES ASSUME RInv, [Next]_vars, log'.read, ~ log.read
               PROVE  \E h \in (IF flavour = Ethereum THEN head ELSE Len(chain) - MaxLag)..Len(chain) :
                        log'.batches = History(Upto(h))
    BY DEF WholeStep
  <1>1. log' # log
    OBVIOUS
  <1>2. ASSUME NEW lag \in Lags, ReadRoot(lag)
        PROVE  \E h \in (IF flavour = Ethereum THEN head ELSE Len(chain) - MaxLag)..Len(chain) :
                 log'.batches = History(Upto(h))
    <2>1. /\ GroupBatches
          /\ Reproduces({e.tx : e \in fulfilled},
                        SpentBy(EventLog(Upto(IF flavour = Ethereum THEN head ELSE Height(lag)))))
      BY <1>1, <1>2 DEF ReadRoot
    <2>2. PICK h \in (IF flavour = Ethereum THEN head ELSE Len(chain) - MaxLag)..Len(chain) :
            log' = [read |-> TRUE, batches |-> History(Upto(h))]
      BY <1>2, <2>1, LogAccepted
    <2>3. QED
      BY <2>2
  <1>3. CASE Grow \/ CommandFails \/ SendFails \/ DeadlinePasses \/ CheckPayout
    <2>1. log' = log
      BY <1>3 DEF Grow, CommandFails, SendFails, DeadlinePasses, CheckPayout, Ends, Judged, answers
    <2>2. QED
      BY <1>1, <2>1
  <1>4. ASSUME NEW depth \in 1..(K - 1), Reorg(depth) PROVE log' = log
    BY <1>4 DEF Reorg, answers
  <1>5. ASSUME NEW lag \in Lags, StartEvents(lag) \/ ReadWindow(lag) \/ ReadPages(lag)
        PROVE  log' = log
    BY <1>5 DEF StartEvents, ReadWindow, ReadPages, Goto, answers
  <1>6. ASSUME NEW lag \in Lags,
               \/ Refused(lag) \/ Send(lag) \/ ReadReceipt(lag) \/ ReadDepth(lag)
               \/ ReadSolidified(lag)
        PROVE  log' = log
    BY <1>6 DEF Refused, Send, ReadReceipt, ReadDepth, ReadSolidified, Concludes, Ends, Goto, answers
  <1>7. ASSUME NEW lag \in Lags, NEW tx \in Settlements, NEW n \in Nullifiers,
               StartConfirm(lag, tx, n)
        PROVE  log' = log
    BY <1>7 DEF StartConfirm, Goto, answers
  <1>8. ASSUME NEW lag \in Lags,
               \/ ConfirmRelease(lag)
               \/ StartSimulate(lag) \/ CheckLock(lag) \/ CheckLatest(lag)
        PROVE  log' = log
    BY <1>8 DEF ConfirmRelease, StartSimulate, CheckLock, CheckLatest, Judged, Goto, answers
  <1>9. CASE UNCHANGED vars
    BY <1>1, <1>9 DEF vars, answers
  <1>10. QED
    BY <1>1, <1>2, <1>3, <1>4, <1>5, <1>6, <1>7, <1>8, <1>9 DEF Next

THEOREM LogIsWholeHolds == Spec => LogIsWhole
  <1>1. RInv /\ [Next]_vars => [WholeStep]_vars
    BY StepIsWhole
  <1>2. QED
    BY <1>1, InductiveInvariant, PTL DEF Spec, LogIsWhole, WholeStep
==============================================================================
