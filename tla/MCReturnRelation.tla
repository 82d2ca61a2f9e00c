-------------------------- MODULE MCReturnRelation --------------------------
(* Three locks, four tokens.  Token a is minted on lock 1 and split, the     *)
(* others may be its outputs, mints of locks or of nothing.                *)
EXTENDS ReturnRelation

Key(x, y) == [d \in 0..1 |-> IF d = 0 THEN x ELSE y]
MCTokenIds == {"a", "b", "c", "d"}
MCKeyOf == [t \in MCTokenIds |->
  CASE t = "a" -> Key(0, 0) [] t = "b" -> Key(0, 1) [] t = "c" -> Key(1, 0) [] OTHER -> Key(1, 1)]

MCLocks == 1 :> [token |-> "a", amount |-> 2] @@ 2 :> [token |-> "d", amount |-> 1]
           @@ 3 :> [token |-> "c", amount |-> 1]

LockMint(t, nonce, claim, value, ours) ==
  [token |-> t, genesis |-> [Unminted EXCEPT !.origin = "lock", !.nonce = nonce,
                             !.claim = claim, !.value = value, !.ours = ours]]
SplitMint(t, parent, value) ==
  [token |-> t, genesis |-> [Unminted EXCEPT !.origin = "split", !.parent = parent,
                             !.value = value, !.ours = TRUE]]
MCMints ==
  {LockMint("a", 1, 2, 2, TRUE),    \* as locked
   LockMint("a", 1, 2, 3, TRUE),    \* worth more than its justification says
   LockMint("d", 2, 1, 1, TRUE),    \* as locked
   LockMint("d", 2, 2, 2, TRUE),    \* says more was locked
   LockMint("c", 3, 1, 1, TRUE),    \* as locked
   LockMint("c", 3, 1, 1, FALSE),   \* of another bridge
   SplitMint("b", "a", 1), SplitMint("b", "a", 2), SplitMint("c", "a", 1), SplitMint("c", "b", 1)}

Split(t, manifest) == [token |-> t, manifest |-> manifest]
MCManifests ==
  {Split("a", "b" :> 1 @@ "c" :> 1),
   Split("a", "b" :> 2 @@ "c" :> 1),   \* allots more than a is worth
   Split("b", "c" :> 1)}
Reason(t, ours, amount, fee) ==
  [token |-> t, reason |-> [ours |-> ours, amount |-> amount, fee |-> fee]]
MCReasons ==
  {Reason("a", TRUE, 2, 1), Reason("b", TRUE, 1, 0), Reason("c", TRUE, 1, 1), Reason("d", TRUE, 1, 0),
   Reason("b", TRUE, 2, 0),    \* right only if b is worth 2
   Reason("d", TRUE, 2, 0)}    \* right only if d is worth 2

MCTrustBases ==
  "t1" :> [keys |-> "n1" :> "k1" @@ "n2" :> "k1" @@ "n3" :> "k2", quorum |-> 2] @@
  "t2" :> [keys |-> "n1" :> "k1" @@ "n4" :> "k3", quorum |-> 2]
MCTrustBaseOf == [t \in MCTokenIds |-> IF t = "d" THEN "t2" ELSE "t1"]
Sig(node, key) == [node |-> node, key |-> key]
\* d is certified by the nodes of the second trust base only; under the first, by one key twice.
MCSeals == [t \in MCTokenIds |->
  IF t = "d" THEN <<Sig("n1", "k1"), Sig("n2", "k1"), Sig("n4", "k3")>>
  ELSE <<Sig("n1", "k1"), Sig("n1", "k1"), Sig("n3", "k2")>>]
MCSizeOf == [t \in MCTokenIds |-> IF t = "a" THEN 3 ELSE 2]
=============================================================================
