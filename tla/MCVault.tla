------------------------------- MODULE MCVault -------------------------------
(***************************************************************************)
(* The vault on a small instance: two accounts, two locks' worth of token  *)
(* ids, and three burns.  n1 pays a fee before its deadline, n2 names the  *)
(* vault itself as recipient, and n3 belongs to another deployment.        *)
(***************************************************************************)
EXTENDS Vault, TLC

CONSTANTS a1, a2, vault, zero, t1, t2, zeroId, c1, b1, n1, n2, n3, here, elsewhere,
          MaxLocks, MaxTime, MaxDonated

MCLock(nonce, amount, id) ==
  [nonce |-> nonce, amount |-> amount, tokenId |-> id, recipient |-> c1]

MCBurn ==
  n1 :> [config |-> here, recipient |-> a1, amount |-> 2, feeRecipient |-> a2,
         feeAmount |-> 1, deadline |-> 0, lock |-> MCLock(0, 2, t1)] @@
  n2 :> [config |-> here, recipient |-> vault, amount |-> 1, feeRecipient |-> a1,
         feeAmount |-> 1, deadline |-> 1, lock |-> MCLock(1, 1, t2)] @@
  n3 :> [config |-> elsewhere, recipient |-> a2, amount |-> 1, feeRecipient |-> zero,
         feeAmount |-> 1, deadline |-> 1, lock |-> MCLock(0, 2, t1)]

MCAccounts == {a1, a2}
MCTokenIds == {t1, t2}
MCCommitments == {c1}
MCTrustBases == {b1}
MCConfigs == {here, elsewhere}
MCNullifiers == {n1, n2, n3}

(* The bounds of the instance. *)
Bounds ==
  /\ nextNonce <= MaxLocks
  /\ now <= MaxTime
  /\ donated <= MaxDonated
==============================================================================
