----------------------------- MODULE Accumulator -----------------------------
(***************************************************************************)
(* The accumulator of spent nullifiers: the sparse Merkle tree of          *)
(* sdk-ext/src/accumulator.rs, and its reconstruction from the vault's     *)
(* settlements, host/src/s2.rs.                                            *)
(*                                                                         *)
(* A key is its bits, and a hash is what was hashed: two hashes are equal  *)
(* exactly if their preimages are.  A function that may fail answers       *)
(* NoRoot where the code answers None.                                     *)
(***************************************************************************)
EXTENDS Integers, Sequences, FiniteSets, SequencesExt

CONSTANT Depth    \* DEPTH, the number of bits of a key

ASSUME DepthAssumption == Depth \in Nat \ {0}

Keys == [0..Depth - 1 -> 0..1]

(***************************************************************************)
(* Hashes                                                                  *)
(***************************************************************************)
EmptyTreeRoot == <<"zero">>
NoRoot == <<"none">>
LeafHash(key) == <<"leaf", key>>
NodeHash(depth, left, right) == <<"node", depth, left, right>>

(* empty_hashes: the empty subtree at each depth.                          *)
Empties[d \in 0..Depth] ==
  IF d = Depth THEN EmptyTreeRoot ELSE NodeHash(d, Empties[d + 1], Empties[d + 1])

(* One level up from the child on key's side.                              *)
(* Mutant: every child is a left child.                                    *)
ParentMutant(key, depth, child, sibling) == NodeHash(depth, child, sibling)
Parent(key, depth, child, sibling) ==
  IF key[depth] = 1 THEN NodeHash(depth, sibling, child) ELSE NodeHash(depth, child, sibling)

(* A subtree at `depth` that holds this one key.                           *)
SingleKeyHash(key, depth) ==
  LET up[d \in 0..Depth] ==
        IF d = Depth THEN LeafHash(key) ELSE Parent(key, d, up[d + 1], Empties[d + 1])
  IN up[depth]

(* The hash of each subtree, of keys that share their bits above it.       *)
Together(d) == {S \in SUBSET Keys : \A k, l \in S : \A e \in 0..d - 1 : k[e] = l[e]}
Subtrees[d \in 0..Depth] ==
  [S \in Together(d) |->
     CASE S = {} -> Empties[d]
       [] \E k \in S : S = {k} -> SingleKeyHash(CHOOSE k \in S : TRUE, d)
       [] OTHER -> NodeHash(d, Subtrees[d + 1][{k \in S : k[d] = 0}],
                               Subtrees[d + 1][{k \in S : k[d] = 1}])]
SubtreeHash(keys, depth) == Subtrees[depth][keys]

TreeRoot(keys) == IF keys = {} THEN EmptyTreeRoot ELSE SubtreeHash(keys, 0)

(***************************************************************************)
(* Non-membership witnesses                                                *)
(***************************************************************************)
FirstDifferingBit(key, other) ==
  CHOOSE d \in 0..Depth - 1 : key[d] # other[d] /\ \A e \in 0..d - 1 : key[e] = other[e]

(* The steps of the path from key's empty slot up to the root, deepest     *)
(* first: at each depth, the subtree of the keys that part from it there.  *)
DeepestStep(keys, key) ==
  IF keys = {} THEN -1
  ELSE CHOOSE d \in {FirstDifferingBit(key, k) : k \in keys} :
         \A k \in keys : FirstDifferingBit(key, k) <= d
NonMembershipWitness(keys, key) ==
  LET last == DeepestStep(keys, key)
      Sibling(d) == SubtreeHash({k \in keys : FirstDifferingBit(key, k) = d}, d + 1) IN
  [terminal |-> "empty",
   steps |-> [i \in 1..last + 1 |-> [depth |-> last + 1 - i, sibling |-> Sibling(last + 1 - i)]]]

(* The steps descend one by one to depth 0.                                *)
WellFormed(steps) ==
  /\ Len(steps) <= Depth
  /\ \A i \in DOMAIN steps : steps[i].depth = steps[1].depth - (i - 1)
  /\ steps[Len(steps)].depth = 0
TerminalDepth(steps) == steps[1].depth + 1

FoldSteps(key, hash, steps) ==
  FoldLeft(LAMBDA child, step : Parent(key, step.depth, child, step.sibling), hash, steps)

(* The root of the tree the witness describes, in which key is absent.     *)
RebuildAbsentRoot(key, witness) ==
  CASE witness.terminal # "empty" -> NoRoot
    [] witness.terminal = "empty" /\ witness.steps = <<>> -> EmptyTreeRoot
    [] OTHER -> IF WellFormed(witness.steps)
                THEN FoldSteps(key, Empties[TerminalDepth(witness.steps)], witness.steps)
                ELSE NoRoot

VerifyNonMember(root, key, witness) ==
  LET rebuilt == RebuildAbsentRoot(key, witness) IN rebuilt # NoRoot /\ rebuilt = root

Insert(root, key, witness) ==
  IF ~VerifyNonMember(root, key, witness)
  THEN NoRoot
  ELSE IF witness.steps = <<>>
       THEN SingleKeyHash(key, 0)
       ELSE FoldSteps(key, SingleKeyHash(key, TerminalDepth(witness.steps)), witness.steps)

(* A witness for each key in turn, in the tree that holds the ones before. *)
Fresh(keys, order) ==
  IsInjective(order) /\ ToSet(order) \cap keys = {}
OrderedInsertWitnesses(keys, order) ==
  [i \in DOMAIN order |->
     NonMembershipWitness(keys \cup {order[j] : j \in 1..i - 1}, order[i])]

(* The root after inserting `order` with these witnesses, each checked     *)
(* against the root the ones before it left.                               *)
InsertAll(root, order, witnesses) ==
  FoldLeftDomain(LAMBDA running, i : Insert(running, order[i], witnesses[i]), root, order)

(***************************************************************************)
(* Rebuilding the tree from settlements                                    *)
(***************************************************************************)
NoTxid == 0
SameTransition(b, c) ==
  b.nullifiers = c.nullifiers /\ b.rootOld = c.rootOld /\ b.rootNew = c.rootNew

(* next_link: the entries not used yet that continue the root.             *)
Continuing(log, acc) == {i \in DOMAIN log \ acc.used : log[i].rootOld = acc.root}

(* One link: the entries that continue the root all state the same batch,  *)
(* it is not empty, spends nothing twice and leads to the root it says.    *)
Linkable(log, acc, i) ==
  /\ \A j \in Continuing(log, acc) : SameTransition(log[i], log[j])
  /\ log[i].nullifiers # <<>>
  /\ Fresh(acc.spent, log[i].nullifiers)
  /\ TreeRoot(acc.spent \cup ToSet(log[i].nullifiers)) = log[i].rootNew

(* The txid the first copy to name one gives.                              *)
TxidOf(log, copies) ==
  LET named == {j \in copies : log[j].txid # NoTxid} IN
  IF named = {} THEN NoTxid ELSE log[CHOOSE j \in named : \A k \in named : j <= k].txid

Link(log, acc) ==
  LET next == CHOOSE i \in Continuing(log, acc) : \A j \in Continuing(log, acc) : i <= j
      copies == {j \in DOMAIN log : SameTransition(log[next], log[j])}
      added == ToSet(log[next].nullifiers) IN
  CASE ~acc.ok \/ Continuing(log, acc) = {} -> acc
    [] OTHER ->
       IF Linkable(log, acc, next)
       THEN [ok |-> TRUE, used |-> acc.used \cup copies, root |-> log[next].rootNew,
             spent |-> acc.spent \cup added,
             txids |-> [n \in acc.spent \cup added |->
                          IF n \in added THEN TxidOf(log, copies) ELSE acc.txids[n]]]
       ELSE [acc EXCEPT !.ok = FALSE]

(* Mutant: entries no root continues are left aside.                       *)
AllUsedMutant(log, acc) == acc.ok
AllUsed(log, acc) == acc.ok /\ acc.used = DOMAIN log
Rebuild(log) ==
  LET start == [ok |-> TRUE, used |-> {}, root |-> EmptyTreeRoot, spent |-> {},
                txids |-> [n \in {} |-> NoTxid]]
      end == FoldLeftDomain(LAMBDA acc, i : Link(log, acc), start, log) IN
  [end EXCEPT !.ok = AllUsed(log, end)]

(* rebuild_verified: also the root the chain reports, which every relayer  *)
(* prints with its log (a log without it would not be compared).           *)
RebuildVerified(log, onChainRoot) ==
  LET acc == Rebuild(log) IN [acc EXCEPT !.ok = @ /\ acc.root = onChainRoot]

(* next_batch: a transition of the rebuilt tree, with a witness for each    *)
(* nullifier, or none if one of them is spent.                             *)
NextBatch(spent, order) ==
  LET witnesses == IF Fresh(spent, order) THEN OrderedInsertWitnesses(spent, order) ELSE <<>> IN
  [rootOld |-> TreeRoot(spent),
   rootNew |-> TreeRoot(spent \cup ToSet(order)),
   witnesses |-> witnesses]

(***************************************************************************)
(* The witnesses a prover may come up with: steps at descending depths,    *)
(* some perhaps left out, each with any subtree there is at that depth as  *)
(* its sibling, or the sentinel.                                           *)
(***************************************************************************)
SubtreesAt(d) == {SubtreeHash(S, d) : S \in Together(d)}
StepsAt(d) == [depth : {d}, sibling : SubtreesAt(d + 1) \cup {EmptyTreeRoot}]
ChainsBelow[d \in 0..Depth] ==
  LET shorter == ChainsBelow[d - 1] IN
  IF d = 0 THEN {<<>>}
  ELSE shorter \cup {<<step>> \o chain : step \in StepsAt(d - 1), chain \in shorter}
Witnesses == [terminal : {"empty"}, steps : ChainsBelow[Depth]]

(* What they can claim: that a key is absent under a root, and the root    *)
(* after inserting it.                                                     *)
Claim(k, w) ==
  LET root == RebuildAbsentRoot(k, w) IN [key |-> k, root |-> root, after |-> Insert(root, k, w)]
Claims == {Claim(k, w) : k \in Keys, w \in Witnesses}
==============================================================================
