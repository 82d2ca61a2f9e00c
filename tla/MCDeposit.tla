------------------------------ MODULE MCDeposit ------------------------------
(***************************************************************************)
(* Bridge-in on a small instance: two deposits of one wallet, which are    *)
(* alike and may revert on one branch and succeed on another, and one of   *)
(* someone else, who certifies his token with a bad reason.                *)
(***************************************************************************)
EXTENDS Deposit, TLC

CONSTANTS d1, d2, o, empty, alice, bob

MCWallet == {d1, d2}
MCOthers == {o}
MCAmountOf == [l \in {d1, d2, o} |-> 1]
MCOwnerOf == d1 :> alice @@ d2 :> alice @@ o :> bob

Alike == Permutations(MCWallet)

(* An inflated value, a lock of another vault, the lock of another token.  *)
Good == [lock |-> o, ours |-> TRUE, nonce |-> 0, amount |-> 1, value |-> 1, recipient |-> bob]
MCReasons ==
  {[Good EXCEPT !.value = 2], [Good EXCEPT !.ours = FALSE]}
    \cup {[Good EXCEPT !.lock = d, !.recipient = alice] : d \in {d1, d2}}
==============================================================================
