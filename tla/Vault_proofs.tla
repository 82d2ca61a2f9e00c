----------------------------- MODULE Vault_proofs -----------------------------
(***************************************************************************)
(* The vault's safety for every deployment: any accounts, burns, amounts   *)
(* and settlement mode.  The invariant of a committed state is stated over *)
(* its parts, because it must hold both of the current storage and of the  *)
(* storage a revert would restore; while a transaction runs, `Running`     *)
(* says how far the current storage has moved from it.                     *)
(***************************************************************************)
EXTENDS Vault, FiniteSetTheorems, TLAPS

(* What a nullifier has been paid once its release is complete. *)
Due(n, spent) == IF n \in spent THEN Burn[n].amount ELSE 0

LocksConsistent(digest, used) ==
  /\ \A m, n \in DOMAIN digest : digest[m].tokenId = digest[n].tokenId => m = n
  /\ used = {digest[n].tokenId : n \in DOMAIN digest}

Backed(spent, digest) ==
  \A n \in spent : /\ Burn[n].config = CONFIG_HASH
                   /\ Burn[n].lock.nonce \in DOMAIN digest
                   /\ digest[Burn[n].lock.nonce] = Burn[n].lock

SavedType ==
  /\ saved.admin \in Addresses \ {ZeroAddr}
  /\ saved.trustBaseAllowed \subseteq TrustBases
  /\ saved.nextNonce \in Nat
  /\ saved.lockDigest \in [0..(saved.nextNonce - 1) -> Digests]
  /\ saved.tokenIdUsed \subseteq TokenIds
  /\ saved.spentRoot \subseteq Nullifiers
  /\ saved.owed \in [Addresses -> Nat]
  /\ saved.held \in Nat
  /\ saved.paid \in [Nullifiers -> Nat]
  /\ saved.lockedTotal \in Nat /\ saved.sentTotal \in Nat

(* The storage a revert restores is a committed one. *)
SavedCommitted ==
  /\ SavedType
  /\ LocksConsistent(saved.lockDigest, saved.tokenIdUsed)
  /\ Backed(saved.spentRoot, saved.lockDigest)
  /\ \A n \in Nullifiers : saved.paid[n] = Due(n, saved.spentRoot)
  /\ saved.held + saved.sentTotal = saved.lockedTotal + donated

(* How much the running transaction has paid the i-th leaf of its batch. *)
PaidSoFar(i) ==
  LET b == Burn[frame.leaves[i]] IN
  IF i < frame.next THEN b.amount
  ELSE IF i = frame.next /\ frame.leg = "fee" THEN b.amount - FeeDue(b)
  ELSE 0

InBatch(n) == \E i \in 1..Len(frame.leaves) : frame.leaves[i] = n

RunningBatch ==
  /\ frame.next \in 1..Len(frame.leaves)
  /\ \A i, j \in 1..Len(frame.leaves) : frame.leaves[i] = frame.leaves[j] => i = j
  /\ \A i \in 1..Len(frame.leaves) :
        /\ frame.leaves[i] \in spentRoot
        /\ Burn[frame.leaves[i]].feeAmount <= Burn[frame.leaves[i]].amount
        /\ paid[frame.leaves[i]] = PaidSoFar(i)
  /\ \A n \in Nullifiers : ~InBatch(n) => paid[n] = Due(n, spentRoot)

Running ==
  /\ frame.op = "fulfill" => RunningBatch
  /\ frame.op # "fulfill" => \A n \in Nullifiers : paid[n] = Due(n, spentRoot)
  /\ frame.op = "lock" => held + sentTotal + frame.amount = lockedTotal + donated
  /\ frame.op # "lock" => held + sentTotal = lockedTotal + donated
  /\ frame # Idle => SavedCommitted

(* The inductive invariant. *)
IInv ==
  /\ TypeOK
  /\ LocksConsistent(lockDigest, tokenIdUsed)
  /\ Backed(spentRoot, lockDigest)
  /\ Running

-------------------------------------------------------------------------------

(* The initial storage is a committed one. *)
LEMMA InitIInv == Init => IInv
  <1> SUFFICES ASSUME Init PROVE IInv
    OBVIOUS
  <1>1. TypeOK
    BY ConstantsAssumption DEF Init, TypeOK, Frames, Idle, Addresses
  <1>2. LocksConsistent(lockDigest, tokenIdUsed) /\ Backed(spentRoot, lockDigest)
    BY DEF Init, LocksConsistent, Backed
  <1>3. Running
    BY DEF Init, Running, Due, Idle
  <1>4. QED
    BY <1>1, <1>2, <1>3 DEF IInv

(* A frame knows which transaction it is. *)
LEMMA FrameShape ==
  ASSUME TypeOK
  PROVE  /\ frame = Idle <=> frame.op = "idle"
         /\ frame.op = "lock" => frame.amount \in 0..Uint64Max
         /\ frame.op = "withdraw" => frame.to \in Accounts /\ frame.amount \in Nat
         /\ frame.op = "fulfill" =>
              /\ frame \in [op : {"fulfill"}, leaves : Seq(Nullifiers), next : Nat,
                            leg : {"principal", "fee"}]
  BY DEF TypeOK, Frames, Idle

(* Opening a transaction saves a committed storage. *)
LEMMA SnapshotCommitted ==
  ASSUME IInv, frame = Idle, saved' = Snapshot, donated' = donated
  PROVE  SavedCommitted'
  <1>1. frame.op = "idle"
    BY DEF Idle
  <1>2. SavedType'
    BY DEF IInv, TypeOK, SavedType, Snapshot
  <1>3. LocksConsistent(lockDigest, tokenIdUsed) /\ Backed(spentRoot, lockDigest)
    BY DEF IInv
  <1>4. /\ saved'.lockDigest = lockDigest /\ saved'.tokenIdUsed = tokenIdUsed
        /\ saved'.spentRoot = spentRoot /\ saved'.paid = paid
        /\ saved'.held = held /\ saved'.sentTotal = sentTotal /\ saved'.lockedTotal = lockedTotal
    BY DEF Snapshot
  <1>5. /\ \A n \in Nullifiers : paid[n] = Due(n, spentRoot)
        /\ held + sentTotal = lockedTotal + donated
    BY <1>1 DEF IInv, Running
  <1>6. QED
    BY <1>2, <1>3, <1>4, <1>5 DEF SavedCommitted, LocksConsistent, Backed, Due

(* What a transaction that is not being opened leaves of its saved storage. *)
LEMMA SavedKept ==
  ASSUME SavedCommitted, UNCHANGED <<saved, donated>>
  PROVE  SavedCommitted'
  BY DEF SavedCommitted, SavedType, LocksConsistent, Backed, Due

(* lock: the new digest is the only one for its token id. *)
LEMMA LockStep ==
  ASSUME IInv, NEW amount \in 0..(Uint64Max + 1), NEW id \in TokenIds \cup {ZeroId},
         NEW rc \in Commitments \cup {ZeroId}, Lock(amount, id, rc)
  PROVE  IInv'
  <1> USE DEF Lock, LockAccepted
  <1>a. amount \in 0..Uint64Max /\ id \in TokenIds /\ rc \in Commitments
    BY ConstantsAssumption
  <1>b. nextNonce \in Nat /\ lockDigest \in [0..(nextNonce - 1) -> Digests]
    BY DEF IInv, TypeOK
  <1>c. frame.op = "idle" /\ frame'.op = "lock"
    BY DEF Idle
  <1>d. /\ DOMAIN lockDigest' = 0..nextNonce
        /\ \A n \in DOMAIN lockDigest : n \in DOMAIN lockDigest' /\ lockDigest'[n] = lockDigest[n]
        /\ lockDigest'[nextNonce] = [nonce |-> nextNonce, amount |-> amount, tokenId |-> id, recipient |-> rc]
        /\ DOMAIN lockDigest' = DOMAIN lockDigest \cup {nextNonce}
    BY <1>b
  <1>1. TypeOK'
    <2>1. lockDigest' \in [0..(nextNonce' - 1) -> Digests]
      BY <1>a, <1>b DEF Digests
    <2>2. lockedTotal' \in Nat
      BY <1>a DEF IInv, TypeOK
    <2>3. frame' \in Frames
      BY <1>a DEF Frames
    <2>4. QED
      BY <2>1, <2>2, <2>3, <1>a DEF IInv, TypeOK
  <1>2. LocksConsistent(lockDigest', tokenIdUsed')
    <2>1. LocksConsistent(lockDigest, tokenIdUsed) /\ id \notin tokenIdUsed
      BY DEF IInv
    <2>2. \A n \in DOMAIN lockDigest : lockDigest[n].tokenId # id
      BY <2>1 DEF LocksConsistent
    <2>3. \A m, n \in DOMAIN lockDigest' : lockDigest'[m].tokenId = lockDigest'[n].tokenId => m = n
      BY <1>d, <2>1, <2>2 DEF LocksConsistent
    <2>4. tokenIdUsed' = {lockDigest'[n].tokenId : n \in DOMAIN lockDigest'}
      <3>1. tokenIdUsed' = tokenIdUsed \cup {id}
        OBVIOUS
      <3> HIDE DEF Lock, LockAccepted
      <3>2. tokenIdUsed = {lockDigest[n].tokenId : n \in DOMAIN lockDigest}
        BY <2>1 DEF LocksConsistent
      <3>3. \A n \in DOMAIN lockDigest : lockDigest'[n].tokenId \in tokenIdUsed
        BY <1>d, <3>2
      <3>4. \A t \in tokenIdUsed : \E n \in DOMAIN lockDigest : lockDigest'[n].tokenId = t
        BY <1>d, <3>2
      <3>5. lockDigest'[nextNonce].tokenId = id
        BY <1>d
      <3>6. ASSUME NEW t \in tokenIdUsed'
            PROVE  \E n \in DOMAIN lockDigest' : lockDigest'[n].tokenId = t
        BY <1>d, <3>1, <3>4, <3>5
      <3>7. ASSUME NEW n \in DOMAIN lockDigest' PROVE lockDigest'[n].tokenId \in tokenIdUsed'
        BY <1>d, <3>1, <3>3, <3>5
      <3>8. QED
        BY <3>6, <3>7
    <2>5. QED
      BY <2>3, <2>4 DEF LocksConsistent
  <1>3. Backed(spentRoot', lockDigest')
    BY <1>d DEF IInv, Backed
  <1>4. SavedCommitted'
    BY SnapshotCommitted
  <1>5. held' + sentTotal' + frame'.amount = lockedTotal' + donated'
    BY <1>a, <1>c DEF IInv, TypeOK, Running
  <1>6. \A n \in Nullifiers : paid'[n] = Due(n, spentRoot')
    BY <1>c DEF IInv, Running
  <1>7. Running'
    BY <1>c, <1>4, <1>5, <1>6 DEF Running, Due
  <1>8. QED
    BY <1>1, <1>2, <1>3, <1>7 DEF IInv

(* transferFrom returned with the exact amount: the lock is committed. *)
LEMMA ReceiveStep ==
  ASSUME IInv, NEW arrived \in 0..Uint64Max, Receive(arrived)
  PROVE  IInv'
  <1> USE DEF Receive, AcceptedReceipt
  <1>1. frame'.op = "idle" /\ frame' = Idle /\ arrived = frame.amount
    BY DEF Idle
  <1>2. UNCHANGED <<PULL_PAYMENTS, admin, trustBaseAllowed, nextNonce, lockDigest,
                    tokenIdUsed, spentRoot, owed, now, paid, lockedTotal, sentTotal,
                    donated>>
    BY DEF storage, history
  <1>3. TypeOK'
    <2>1. frame' \in Frames
      BY <1>1 DEF Frames
    <2>2. held \in Nat /\ arrived \in Nat /\ held' = held + arrived
      BY ConstantsAssumption DEF IInv, TypeOK
    <2>3. held' \in Nat
      BY <2>2
    <2> HIDE DEF Receive, AcceptedReceipt
    <2>4. TypeOK
      BY DEF IInv
    <2>5. QED
      BY <1>2, <2>1, <2>3, <2>4 DEF TypeOK
  <1>4. held' + sentTotal' = lockedTotal' + donated'
    BY <1>1, <1>2, ConstantsAssumption DEF IInv, TypeOK, Running
  <1>5. Running'
    BY <1>1, <1>2, <1>4 DEF IInv, Running, Due
  <1>6. QED
    BY <1>2, <1>3, <1>5 DEF IInv

(* fulfillBatch consumes the nullifiers of a fresh, backed batch. *)
LEMMA FulfillStep ==
  ASSUME IInv, NEW config \in Configs, NEW tb \in TrustBases, NEW rootOld \in SUBSET Nullifiers,
         NEW k \in 0..Cardinality(Nullifiers), NEW leaves \in [1..k -> Nullifiers],
         FulfillBatch(config, tb, rootOld, leaves)
  PROVE  IInv'
  <1> DEFINE pv == Statement(config, tb, rootOld, leaves)
  <1>a. k \in Nat
    BY FS_CardinalityType, ConstantsAssumption
  <1>b. leaves \in Seq(Nullifiers) /\ Len(leaves) = k
    BY <1>a
  <1>c. /\ frame = Idle
        /\ Provable(config, rootOld, leaves)
        /\ AcceptedStatement(pv)
        /\ spentRoot' = pv.spentRootNew
        /\ frame' = [op |-> "fulfill", leaves |-> leaves, next |-> 1, leg |-> "principal"]
        /\ saved' = Snapshot
        /\ UNCHANGED <<PULL_PAYMENTS, admin, trustBaseAllowed, nextNonce, lockDigest,
                       tokenIdUsed, owed, held, now, paid, lockedTotal, sentTotal, donated>>
    BY DEF FulfillBatch, history
  <1>d. frame.op = "idle"
    BY <1>c DEF Idle
  <1>e. rootOld = spentRoot /\ spentRoot' = spentRoot \cup Range1(leaves) /\ config = CONFIG_HASH
    BY <1>c DEF AcceptedStatement, Statement, FreshRoot, SpentRootNew
  <1>1. TypeOK'
    <2>1. frame' \in Frames
      BY <1>b, <1>c DEF Frames
    <2>2. spentRoot' \subseteq Nullifiers
      BY <1>b, <1>e DEF Range1, IInv, TypeOK
    <2>3. QED
      BY <1>c, <2>1, <2>2 DEF IInv, TypeOK
  <1>2. LocksConsistent(lockDigest', tokenIdUsed')
    BY <1>c DEF IInv
  <1>3. Backed(spentRoot', lockDigest')
    <2>1. \A n \in Range1(leaves) : /\ Burn[n].config = CONFIG_HASH
                                    /\ Burn[n].lock.nonce \in DOMAIN lockDigest
                                    /\ lockDigest[Burn[n].lock.nonce] = Burn[n].lock
      <3> SUFFICES ASSUME NEW n \in Range1(leaves)
                   PROVE  /\ Burn[n].config = CONFIG_HASH
                          /\ Burn[n].lock.nonce \in DOMAIN lockDigest
                          /\ lockDigest[Burn[n].lock.nonce] = Burn[n].lock
        OBVIOUS
      <3>1. Burn[n].config = CONFIG_HASH
        BY <1>c, <1>e DEF Provable, Range1
      <3>2. LockRefsStored(LockRefs(leaves))
        BY <1>c DEF AcceptedStatement, Statement, FreshRoot, SpentRootNew
      <3>3. [nonce |-> Burn[n].lock.nonce, digest |-> Burn[n].lock] \in LockRefs(leaves)
        BY DEF LockRefs
      <3>4. QED
        BY <3>1, <3>2, <3>3 DEF LockRefsStored
    <2>2. QED
      BY <1>c, <1>e, <2>1 DEF IInv, Backed
  <1>4. SavedCommitted'
    BY <1>c, SnapshotCommitted
  <1>5. RunningBatch'
    <2>1. frame'.next \in 1..Len(frame'.leaves)
      BY <1>b, <1>c DEF Provable
    <2>2. \A i, j \in 1..Len(leaves) : leaves[i] = leaves[j] => i = j
      BY <1>c DEF Provable
    <2>3. \A n \in Nullifiers : paid[n] = Due(n, spentRoot)
      BY <1>d DEF IInv, Running
    <2>4. ASSUME NEW i \in 1..Len(leaves)
          PROVE  /\ leaves[i] \in spentRoot'
                 /\ Burn[leaves[i]].feeAmount <= Burn[leaves[i]].amount
                 /\ paid'[leaves[i]] = 0
      BY <1>b, <1>c, <1>e, <2>3 DEF Provable, Range1, Due
    <2>5. ASSUME NEW i \in 1..Len(leaves) PROVE PaidSoFar(i)' = 0
      BY <1>b, <1>c, <2>5 DEF PaidSoFar
    <2>6. ASSUME NEW n \in Nullifiers, ~InBatch(n)' PROVE paid'[n] = Due(n, spentRoot')
      <3>1. n \notin Range1(leaves)
        BY <1>c, <2>6 DEF InBatch, Range1
      <3>2. QED
        BY <1>c, <1>e, <2>3, <3>1 DEF Due
    <2>7. QED
      BY <1>c, <2>1, <2>2, <2>4, <2>5, <2>6 DEF RunningBatch
  <1>6. held' + sentTotal' = lockedTotal' + donated'
    BY <1>c, <1>d DEF IInv, Running
  <1>7. Running'
    BY <1>c, <1>4, <1>5, <1>6 DEF Running
  <1>8. QED
    BY <1>1, <1>2, <1>3, <1>7 DEF IInv

(* Paying one leg of a leaf neither creates nor loses asset. *)
LEMMA SettleEffect ==
  ASSUME TypeOK, NEW n \in Nullifiers, NEW to \in Addresses, NEW value \in Nat,
         Settle(n, to, value)
  PROVE  /\ owed' \in [Addresses -> Nat]
         /\ held' \in Nat /\ sentTotal' \in Nat
         /\ held' + sentTotal' = held + sentTotal
         /\ paid' = [paid EXCEPT ![n] = @ + value]
         /\ paid' \in [Nullifiers -> Nat]
  BY SMTT(30) DEF TypeOK, Settle, SendExactly

(* The leaf in payment, and the part of it that is the fee. *)
LEMMA LeafFacts ==
  ASSUME IInv, frame.op = "fulfill"
  PROVE  /\ Leaf \in Nullifiers
         /\ FeeDue(Burn[Leaf]) \in Nat
         /\ Burn[Leaf].amount \in Nat
         /\ Burn[Leaf].amount - FeeDue(Burn[Leaf]) \in Nat
         /\ Burn[Leaf].recipient \in Addresses /\ Burn[Leaf].feeRecipient \in Addresses
         /\ frame.next \in 1..Len(frame.leaves)
         /\ frame.leaves \in Seq(Nullifiers)
  <1>1. frame.leaves \in Seq(Nullifiers)
    BY FrameShape DEF IInv
  <1>2. /\ frame.next \in 1..Len(frame.leaves)
        /\ Burn[Leaf].feeAmount <= Burn[Leaf].amount
    BY DEF IInv, Running, RunningBatch, Leaf
  <1>3. Leaf \in Nullifiers
    BY <1>1, <1>2 DEF Leaf
  <1>4. /\ Burn[Leaf].amount \in Nat /\ Burn[Leaf].feeAmount \in Nat
        /\ Burn[Leaf].recipient \in Addresses /\ Burn[Leaf].feeRecipient \in Addresses
    BY <1>3, BurnAssumption
  <1>5. FeeDue(Burn[Leaf]) \in Nat /\ FeeDue(Burn[Leaf]) <= Burn[Leaf].amount
    BY <1>2, <1>4 DEF FeeDue
  <1>6. QED
    BY <1>1, <1>2, <1>3, <1>4, <1>5

(* The principal is paid before the fee, and less the fee. *)
LEMMA PrincipalStep ==
  ASSUME IInv, PayPrincipal
  PROVE  IInv'
  <1> DEFINE value == Burn[Leaf].amount - FeeDue(Burn[Leaf])
  <1>a. /\ frame.op = "fulfill" /\ frame.leg = "principal"
        /\ Settle(Leaf, Burn[Leaf].recipient, value)
        /\ frame' = [frame EXCEPT !.leg = "fee"]
        /\ UNCHANGED <<PULL_PAYMENTS, admin, trustBaseAllowed, nextNonce, lockDigest,
                       tokenIdUsed, spentRoot, now, saved, lockedTotal, donated>>
    BY DEF PayPrincipal, Principal
  <1>b. /\ Leaf \in Nullifiers /\ value \in Nat
        /\ frame.next \in 1..Len(frame.leaves)
        /\ frame.leaves \in Seq(Nullifiers)
    BY <1>a, LeafFacts
  <1>c. /\ owed' \in [Addresses -> Nat]
        /\ held' \in Nat /\ sentTotal' \in Nat
        /\ held' + sentTotal' = held + sentTotal
        /\ paid' = [paid EXCEPT ![Leaf] = @ + value]
        /\ paid' \in [Nullifiers -> Nat]
    BY <1>a, LeafFacts, SettleEffect DEF IInv
  <1>d. frame \in [op : {"fulfill"}, leaves : Seq(Nullifiers), next : Nat, leg : {"principal", "fee"}]
    BY <1>a, FrameShape DEF IInv
  <1>e. /\ frame'.op = "fulfill" /\ frame'.leaves = frame.leaves /\ frame'.next = frame.next
        /\ frame'.leg = "fee"
    BY <1>a, <1>d
  <1>1. TypeOK'
    <2>1. frame' \in Frames
      BY <1>a, <1>d DEF Frames
    <2>2. QED
      BY <1>a, <1>c, <2>1 DEF IInv, TypeOK
  <1>2. LocksConsistent(lockDigest', tokenIdUsed') /\ Backed(spentRoot', lockDigest')
    BY <1>a DEF IInv
  <1>3. SavedCommitted'
    BY <1>a, SavedKept DEF IInv, Running, Idle
  <1>4. RunningBatch'
    <2>1. RunningBatch
      BY <1>a DEF IInv, Running
    <2>2. ASSUME NEW i \in 1..Len(frame.leaves) PROVE paid'[frame.leaves[i]] = PaidSoFar(i)'
      <3>1. CASE i = frame.next
        <4>1. paid[Leaf] = 0
          <5>1. paid[Leaf] = PaidSoFar(frame.next)
            BY <2>1 DEF RunningBatch, Leaf
          <5>2. PaidSoFar(frame.next) = 0
            BY <1>a, <1>b DEF PaidSoFar
          <5>3. QED
            BY <5>1, <5>2
        <4>2. paid'[Leaf] = value
          BY <1>b, <1>c, <4>1 DEF IInv, TypeOK
        <4>3. PaidSoFar(i)' = value
          <5>1. frame'.next = i /\ frame'.leg = "fee" /\ frame'.leaves[i] = Leaf /\ now' = now
            BY <1>a, <1>e, <3>1 DEF Leaf
          <5>2. ~(i < i)
            BY <1>b, <3>1
          <5>3. QED
            BY <5>1, <5>2 DEF PaidSoFar, FeeDue
        <4>4. QED
          BY <3>1, <4>2, <4>3 DEF Leaf
      <3>2. CASE i # frame.next
        <4>1. frame.leaves[i] # Leaf
          BY <1>b, <2>1, <3>2 DEF RunningBatch, Leaf
        <4>2. paid'[frame.leaves[i]] = paid[frame.leaves[i]]
          BY <1>b, <1>c, <4>1 DEF IInv, TypeOK
        <4>3. PaidSoFar(i)' = PaidSoFar(i)
          BY <1>a, <1>e, <3>2 DEF PaidSoFar, FeeDue
        <4>4. QED
          BY <2>1, <4>2, <4>3 DEF RunningBatch
      <3>3. QED
        BY <3>1, <3>2
    <2>3. ASSUME NEW n \in Nullifiers, ~InBatch(n)' PROVE paid'[n] = Due(n, spentRoot')
      <3>1. ~InBatch(n) /\ n # Leaf
        BY <1>b, <1>e, <2>3 DEF InBatch, Leaf
      <3>2. paid'[n] = paid[n]
        BY <1>c, <3>1 DEF IInv, TypeOK
      <3>3. QED
        BY <1>a, <2>1, <3>1, <3>2 DEF RunningBatch, Due
    <2>4. QED
      BY <1>a, <1>e, <2>1, <2>2, <2>3 DEF RunningBatch
  <1>5. held' + sentTotal' = lockedTotal' + donated'
    BY <1>a, <1>c DEF IInv, Running
  <1>6. Running'
    BY <1>e, <1>3, <1>4, <1>5 DEF Running
  <1>7. QED
    BY <1>1, <1>2, <1>6 DEF IInv

(* The fee completes the leaf, and the last leaf the transaction. *)
LEMMA FeeStep ==
  ASSUME IInv, PayFee
  PROVE  IInv'
  <1> DEFINE value == FeeDue(Burn[Leaf])
             last == frame.next = Len(frame.leaves)
  <1>a. /\ frame.op = "fulfill" /\ frame.leg = "fee"
        /\ Settle(Leaf, Burn[Leaf].feeRecipient, value)
        /\ frame' = IF last THEN Idle ELSE [frame EXCEPT !.next = @ + 1, !.leg = "principal"]
        /\ UNCHANGED <<PULL_PAYMENTS, admin, trustBaseAllowed, nextNonce, lockDigest,
                       tokenIdUsed, spentRoot, now, saved, lockedTotal, donated>>
    BY DEF PayFee
  <1>b. /\ Leaf \in Nullifiers /\ value \in Nat /\ Burn[Leaf].amount \in Nat
        /\ frame.next \in 1..Len(frame.leaves)
        /\ frame.leaves \in Seq(Nullifiers)
    BY <1>a, LeafFacts
  <1>c. /\ owed' \in [Addresses -> Nat]
        /\ held' \in Nat /\ sentTotal' \in Nat
        /\ held' + sentTotal' = held + sentTotal
        /\ paid' = [paid EXCEPT ![Leaf] = @ + value]
        /\ paid' \in [Nullifiers -> Nat]
    BY <1>a, LeafFacts, SettleEffect DEF IInv
  <1>d. frame \in [op : {"fulfill"}, leaves : Seq(Nullifiers), next : Nat, leg : {"principal", "fee"}]
    BY <1>a, FrameShape DEF IInv
  <1>e. RunningBatch
    BY <1>a DEF IInv, Running
  <1>f. paid'[Leaf] = Burn[Leaf].amount
    <2>1. paid[Leaf] = Burn[Leaf].amount - value
      BY <1>a, <1>b, <1>e DEF RunningBatch, PaidSoFar, Leaf
    <2>2. QED
      BY <1>b, <1>c, <2>1, SMTT(30) DEF IInv, TypeOK
  <1>g. \A n \in Nullifiers \ {Leaf} : paid'[n] = paid[n]
    BY <1>c DEF IInv, TypeOK
  <1>1. TypeOK'
    <2>1. frame' \in Frames
      <3>1. CASE last
        BY <1>a, <3>1 DEF Frames
      <3>2. CASE ~last
        <4>1. frame' = [op |-> "fulfill", leaves |-> frame.leaves, next |-> frame.next + 1,
                        leg |-> "principal"]
          BY <1>a, <1>d, <3>2
        <4>2. QED
          BY <1>b, <4>1 DEF Frames
      <3>3. QED
        BY <3>1, <3>2
    <2>2. QED
      BY <1>a, <1>c, <2>1 DEF IInv, TypeOK
  <1>2. LocksConsistent(lockDigest', tokenIdUsed') /\ Backed(spentRoot', lockDigest')
    BY <1>a DEF IInv
  <1>3. SavedCommitted'
    BY <1>a, SavedKept DEF IInv, Running, Idle
  <1>4. held' + sentTotal' = lockedTotal' + donated'
    BY <1>a, <1>c DEF IInv, Running
  <1>5. CASE last
    <2>1. frame' = Idle /\ frame'.op = "idle"
      BY <1>a, <1>5 DEF Idle
    <2>2. ASSUME NEW n \in Nullifiers PROVE paid'[n] = Due(n, spentRoot')
      <3>1. CASE ~InBatch(n)
        BY <1>a, <1>b, <1>e, <1>g, <3>1 DEF RunningBatch, InBatch, Leaf, Due
      <3>2. CASE InBatch(n)
        <4>1. PICK i \in 1..Len(frame.leaves) : frame.leaves[i] = n
          BY <3>2 DEF InBatch
        <4>2. CASE i = frame.next
          BY <1>a, <1>e, <1>f, <4>1, <4>2 DEF RunningBatch, Leaf, Due
        <4>3. CASE i # frame.next
          BY <1>a, <1>b, <1>e, <1>g, <1>5, <4>1, <4>3 DEF RunningBatch, PaidSoFar, Leaf, Due
        <4>4. QED
          BY <4>2, <4>3
      <3>3. QED
        BY <3>1, <3>2
    <2>3. Running'
      BY <1>4, <2>1, <2>2 DEF Running
    <2>4. QED
      BY <1>1, <1>2, <2>3 DEF IInv
  <1>6. CASE ~last
    <2>1. /\ frame'.op = "fulfill" /\ frame'.leaves = frame.leaves
          /\ frame'.next = frame.next + 1 /\ frame'.leg = "principal"
      BY <1>a, <1>d, <1>6
    <2>2. ASSUME NEW i \in 1..Len(frame.leaves) PROVE paid'[frame.leaves[i]] = PaidSoFar(i)'
      <3>1. frame.leaves[i] \in Nullifiers
        BY <1>b
      <3>2. PaidSoFar(i)' = IF i <= frame.next THEN Burn[frame.leaves[i]].amount ELSE 0
        BY <1>b, <2>1 DEF PaidSoFar
      <3>3. CASE i = frame.next
        BY <1>b, <1>f, <3>2, <3>3 DEF Leaf
      <3>4. CASE i # frame.next
        <4>1. paid'[frame.leaves[i]] = paid[frame.leaves[i]]
          BY <1>b, <1>e, <1>g, <3>1, <3>4 DEF RunningBatch, Leaf
        <4>2. paid[frame.leaves[i]] = IF i < frame.next THEN Burn[frame.leaves[i]].amount ELSE 0
          BY <1>e, <3>4 DEF RunningBatch, PaidSoFar
        <4>3. QED
          BY <1>b, <3>2, <3>4, <4>1, <4>2
      <3>5. QED
        BY <3>3, <3>4
    <2>3. ASSUME NEW n \in Nullifiers, ~InBatch(n)' PROVE paid'[n] = Due(n, spentRoot')
      <3>1. ~InBatch(n) /\ n # Leaf
        BY <1>b, <2>1, <2>3 DEF InBatch, Leaf
      <3>2. QED
        BY <1>a, <1>e, <1>g, <3>1 DEF RunningBatch, Due
    <2>4. RunningBatch'
      <3>1. frame'.next \in 1..Len(frame'.leaves)
        BY <1>b, <1>6, <2>1
      <3>2. QED
        BY <1>a, <1>e, <2>1, <2>2, <2>3, <3>1 DEF RunningBatch
    <2>5. Running'
      BY <1>3, <1>4, <2>1, <2>4 DEF Running
    <2>6. QED
      BY <1>1, <1>2, <2>5 DEF IInv
  <1>7. QED
    BY <1>5, <1>6

(* withdraw: the balance leaves `owed` before the asset is called. *)
LEMMA WithdrawStep ==
  ASSUME IInv, NEW caller \in Accounts, Withdraw(caller)
  PROVE  IInv'
  <1>a. /\ frame = Idle
        /\ owed' = [owed EXCEPT ![caller] = 0]
        /\ frame' = [op |-> "withdraw", to |-> caller, amount |-> owed[caller]]
        /\ saved' = Snapshot
        /\ UNCHANGED <<PULL_PAYMENTS, admin, trustBaseAllowed, nextNonce, lockDigest,
                       tokenIdUsed, spentRoot, held, now, paid, lockedTotal, sentTotal,
                       donated>>
    BY DEF Withdraw, history
  <1>b. frame.op = "idle" /\ frame'.op = "withdraw" /\ caller \in Addresses
    BY <1>a DEF Idle, Addresses
  <1>1. TypeOK'
    <2>1. owed[caller] \in Nat /\ owed' \in [Addresses -> Nat]
      BY <1>a, <1>b DEF IInv, TypeOK
    <2>2. frame' \in Frames
      BY <1>a, <2>1 DEF Frames
    <2>3. QED
      BY <1>a, <2>1, <2>2 DEF IInv, TypeOK
  <1>2. SavedCommitted'
    BY <1>a, SnapshotCommitted
  <1>3. Running'
    BY <1>a, <1>b, <1>2 DEF IInv, Running, Due
  <1>4. QED
    BY <1>a, <1>1, <1>3 DEF IInv

(* The transfer of a withdrawal succeeded. *)
LEMMA PayOutStep ==
  ASSUME IInv, PayOut
  PROVE  IInv'
  <1>a. /\ frame.op = "withdraw"
        /\ SendExactly(frame.to, frame.amount)
        /\ frame' = Idle /\ frame'.op = "idle"
        /\ UNCHANGED <<PULL_PAYMENTS, admin, trustBaseAllowed, nextNonce, lockDigest,
                       tokenIdUsed, spentRoot, owed, now, saved, paid, lockedTotal,
                       donated>>
    BY DEF PayOut, storage, Idle
  <1>b. frame.amount \in Nat
    BY <1>a, FrameShape DEF IInv
  <1>1. held' \in Nat /\ sentTotal' \in Nat /\ held' + sentTotal' = held + sentTotal
    BY <1>a, <1>b DEF SendExactly, IInv, TypeOK
  <1>2. TypeOK'
    BY <1>a, <1>1 DEF IInv, TypeOK, Frames
  <1>3. Running'
    BY <1>a, <1>1 DEF IInv, Running, Due
  <1>4. QED
    BY <1>a, <1>2, <1>3 DEF IInv

(* A revert lands in the committed state the transaction started from. *)
LEMMA RevertStep ==
  ASSUME IInv, Revert
  PROVE  IInv'
  <1>a. frame # Idle /\ frame' = Idle /\ frame'.op = "idle"
    BY FrameShape DEF IInv, Revert, InAssetCall, Idle
  <1>b. SavedCommitted
    BY <1>a DEF IInv, Running
  <1>1. TypeOK'
    BY <1>a, <1>b DEF Revert, SavedCommitted, SavedType, IInv, TypeOK, Frames
  <1>2. LocksConsistent(lockDigest', tokenIdUsed') /\ Backed(spentRoot', lockDigest')
    BY <1>b DEF Revert, SavedCommitted
  <1>3. Running'
    BY <1>a, <1>b DEF Revert, SavedCommitted, Running, Due
  <1>4. QED
    BY <1>1, <1>2, <1>3 DEF IInv

(* Steps that touch neither locks nor releases. *)
LEMMA OtherStep ==
  ASSUME IInv,
         \/ \E caller \in Accounts, tb \in TrustBases, allowed \in BOOLEAN :
               SetTrustBaseAllowed(caller, tb, allowed)
         \/ \E caller \in Accounts, newAdmin \in Addresses : TransferAdmin(caller, newAdmin)
         \/ UNCHANGED vars
  PROVE  IInv'
  <1>1. /\ UNCHANGED <<PULL_PAYMENTS, nextNonce, lockDigest, tokenIdUsed, spentRoot, owed,
                       held, now, frame, saved, paid, lockedTotal, sentTotal, donated>>
        /\ trustBaseAllowed' \subseteq TrustBases
        /\ admin' \in Addresses \ {ZeroAddr}
    BY DEF SetTrustBaseAllowed, TransferAdmin, history, storage, vars, IInv, TypeOK
  <1>2. TypeOK'
    BY <1>1 DEF IInv, TypeOK
  <1>3. SavedCommitted => SavedCommitted'
    BY <1>1, SavedKept
  <1>4. RunningBatch => RunningBatch'
    BY <1>1 DEF RunningBatch, PaidSoFar, FeeDue, InBatch, Due
  <1>5. Running'
    BY <1>1, <1>3, <1>4 DEF IInv, Running, Due
  <1>6. QED
    BY <1>1, <1>2, <1>5 DEF IInv

(* A plain transfer to the vault, and the clock. *)
LEMMA EnvironmentStep ==
  ASSUME IInv, Donate(1) \/ Tick
  PROVE  IInv'
  <1>a. /\ frame = Idle /\ frame.op = "idle"
        /\ UNCHANGED <<PULL_PAYMENTS, admin, trustBaseAllowed, nextNonce, lockDigest,
                       tokenIdUsed, spentRoot, owed, frame, saved, paid, lockedTotal,
                       sentTotal>>
        /\ held' \in Nat /\ donated' \in Nat /\ now' \in Nat
        /\ held' - held = donated' - donated
    BY DEF Donate, Tick, storage, history, Idle, IInv, TypeOK
  <1>1. TypeOK'
    BY <1>a DEF IInv, TypeOK
  <1>2. held' + sentTotal' = lockedTotal' + donated'
    <2>1. held + sentTotal = lockedTotal + donated
      BY <1>a DEF IInv, Running
    <2>2. /\ held \in Nat /\ sentTotal \in Nat /\ lockedTotal \in Nat /\ donated \in Nat
          /\ held' \in Nat /\ donated' \in Nat
      BY <1>a DEF IInv, TypeOK
    <2>3. QED
      BY <1>a, <2>1, <2>2
  <1>3. Running'
    BY <1>a, <1>2 DEF IInv, Running, Due
  <1>4. QED
    BY <1>a, <1>1, <1>3 DEF IInv

(* The invariant is inductive, so it holds always. *)
THEOREM Invariance == Spec => []IInv
  <1>1. IInv /\ [Next]_vars => IInv'
    <2> SUFFICES ASSUME IInv, [Next]_vars PROVE IInv'
      OBVIOUS
    <2>1. CASE \E amount \in 0..(Uint64Max + 1), id \in TokenIds \cup {ZeroId},
                  rc \in Commitments \cup {ZeroId} : Lock(amount, id, rc)
      BY <2>1, LockStep
    <2>2. CASE \E arrived \in 0..Uint64Max : Receive(arrived)
      BY <2>2, ReceiveStep
    <2>3. CASE \E k \in 0..Cardinality(Nullifiers) : \E leaves \in [1..k -> Nullifiers] :
                 \E config \in Configs, rootOld \in SUBSET Nullifiers, tb \in TrustBases :
                    FulfillBatch(config, tb, rootOld, leaves)
      BY <2>3, FulfillStep
    <2>4. CASE PayPrincipal
      BY <2>4, PrincipalStep
    <2>5. CASE PayFee
      BY <2>5, FeeStep
    <2>6. CASE \E caller \in Accounts : Withdraw(caller)
      BY <2>6, WithdrawStep
    <2>7. CASE PayOut
      BY <2>7, PayOutStep
    <2>8. CASE Revert
      BY <2>8, RevertStep
    <2>9. CASE \/ \E caller \in Accounts, tb \in TrustBases, allowed \in BOOLEAN :
                    SetTrustBaseAllowed(caller, tb, allowed)
               \/ \E caller \in Accounts, newAdmin \in Addresses : TransferAdmin(caller, newAdmin)
               \/ UNCHANGED vars
      BY <2>9, OtherStep
    <2>10. CASE Donate(1) \/ Tick
      BY <2>10, EnvironmentStep
    <2>11. QED
      BY <2>1, <2>2, <2>3, <2>4, <2>5, <2>6, <2>7, <2>8, <2>9, <2>10 DEF Next
  <1>2. QED
    BY <1>1, InitIInv, PTL DEF Spec

(* Every variable of the vault keeps its type, in particular its asset     *)
(* balance and its pull balances never go below zero.                      *)
THEOREM TypeCorrect == Spec => []TypeOK
  <1>1. IInv => TypeOK
    BY DEF IInv
  <1>2. QED
    BY <1>1, Invariance, PTL

(* No burn is ever released twice, in part, or not at all once spent.      *)
THEOREM NoDoubleRelease == Spec => []PaidExactlyOnce
  <1>1. IInv => PaidExactlyOnce
    BY DEF IInv, Running, PaidExactlyOnce, Due, Idle
  <1>2. QED
    BY <1>1, Invariance, PTL

(* The vault holds exactly what it received and has not sent.              *)
THEOREM Custody == Spec => []CustodyExact
  <1>1. IInv => CustodyExact
    BY DEF IInv, Running, CustodyExact, Idle
  <1>2. QED
    BY <1>1, Invariance, PTL

(* A token id is locked at most once.                                      *)
THEOREM TokenIdsUnique == Spec => []OneLockPerTokenId
  <1>1. IInv => OneLockPerTokenId
    BY DEF IInv, LocksConsistent, OneLockPerTokenId
  <1>2. QED
    BY <1>1, Invariance, PTL

(* Releases descend from this vault's locks.                               *)
THEOREM Backing == Spec => []ReleasesBacked
  <1>1. IInv => ReleasesBacked
    BY DEF IInv, Backed, ReleasesBacked
  <1>2. QED
    BY <1>1, Invariance, PTL

-------------------------------------------------------------------------------

(* What stood before the running transaction is what a revert restores,    *)
(* and the transaction has done its own effects to it, and nothing else.   *)
SavedStanding ==
  [admin |-> saved.admin, trustBaseAllowed |-> saved.trustBaseAllowed,
   lockDigest |-> saved.lockDigest, spentRoot |-> saved.spentRoot, owed |-> saved.owed,
   held |-> saved.held]
LockBegun ==
  /\ \E n \in DOMAIN lockDigest :
        /\ DOMAIN lockDigest \ {n} = DOMAIN committed.lockDigest
        /\ n \notin DOMAIN committed.lockDigest /\ lockDigest[n].amount = frame.amount
        /\ \A m \in DOMAIN committed.lockDigest : lockDigest[m] = committed.lockDigest[m]
  /\ spentRoot = committed.spentRoot /\ owed = committed.owed /\ held = committed.held
BatchBegun ==
  /\ Range1(frame.leaves) \cap committed.spentRoot = {}
  /\ spentRoot = committed.spentRoot \cup Range1(frame.leaves)
  /\ lockDigest = committed.lockDigest
PayoutBegun ==
  /\ frame.amount = committed.owed[frame.to]
  /\ owed = [committed.owed EXCEPT ![frame.to] = 0]
  /\ held = committed.held /\ lockDigest = committed.lockDigest
  /\ spentRoot = committed.spentRoot
Begun ==
  /\ frame = Idle => committed = Standing
  /\ frame # Idle => committed = SavedStanding
  /\ frame.op = "lock" => LockBegun
  /\ frame.op = "fulfill" => BatchBegun
  /\ frame.op = "withdraw" => PayoutBegun

(* Between transactions only the present counts.                           *)
LEMMA AtRest ==
  ASSUME frame' = Idle, Remember
  PROVE  Begun'
  BY DEF Begun, Remember, Idle, Standing

(* A transaction that opens saves what stands, and then does its effects.  *)
LEMMA OpeningBegins ==
  ASSUME IInv, Begun, frame = Idle, frame' # Idle, saved' = Snapshot, Remember
  PROVE  /\ committed' = committed /\ committed' = SavedStanding'
         /\ committed.lockDigest = lockDigest /\ committed.spentRoot = spentRoot
         /\ committed.owed = owed /\ committed.held = held
  BY DEF Begun, Remember, Standing, SavedStanding, Snapshot

LEMMA LockBegins ==
  ASSUME IInv, Begun, NEW amount \in 0..(Uint64Max + 1), NEW id \in TokenIds \cup {ZeroId},
         NEW rc \in Commitments \cup {ZeroId}, Lock(amount, id, rc)
  PROVE  Begun'
  <1>a. /\ frame = Idle /\ frame' = [op |-> "lock", amount |-> amount]
        /\ frame'.op = "lock" /\ frame' # Idle /\ frame'.amount = amount
        /\ saved' = Snapshot /\ Remember
        /\ UNCHANGED <<spentRoot, owed, held>>
    BY DEF Lock, Idle
  <1>b. nextNonce \in Nat /\ DOMAIN lockDigest = 0..(nextNonce - 1)
    BY DEF IInv, TypeOK
  <1>c. /\ DOMAIN lockDigest' = 0..nextNonce
        /\ lockDigest'[nextNonce].amount = amount
        /\ \A m \in DOMAIN lockDigest : lockDigest'[m] = lockDigest[m]
    BY <1>b DEF Lock
  <1>d. /\ nextNonce \in DOMAIN lockDigest' /\ nextNonce \notin DOMAIN lockDigest
        /\ DOMAIN lockDigest' \ {nextNonce} = DOMAIN lockDigest
    BY <1>b, <1>c
  <1>1. LockBegun'
    BY <1>a, <1>c, <1>d, OpeningBegins DEF LockBegun
  <1>2. QED
    BY <1>a, <1>1, OpeningBegins DEF Begun

LEMMA FulfillBegins ==
  ASSUME IInv, Begun, NEW config \in Configs, NEW tb \in TrustBases,
         NEW rootOld \in SUBSET Nullifiers,
         NEW k \in 0..Cardinality(Nullifiers), NEW leaves \in [1..k -> Nullifiers],
         FulfillBatch(config, tb, rootOld, leaves)
  PROVE  Begun'
  <1>a. /\ frame = Idle /\ frame'.op = "fulfill" /\ frame' # Idle /\ frame'.leaves = leaves
        /\ saved' = Snapshot /\ Remember
        /\ UNCHANGED lockDigest
    BY DEF FulfillBatch, Idle
  <1>b. rootOld = spentRoot /\ spentRoot' = spentRoot \cup Range1(leaves)
    BY DEF FulfillBatch, AcceptedStatement, Statement, FreshRoot, SpentRootNew
  <1>c. Range1(leaves) \cap spentRoot = {}
    BY <1>b DEF FulfillBatch, Provable, Range1
  <1>1. BatchBegun'
    BY <1>a, <1>b, <1>c, OpeningBegins DEF BatchBegun, Range1
  <1>2. QED
    BY <1>a, <1>1, OpeningBegins DEF Begun

LEMMA WithdrawBegins ==
  ASSUME IInv, Begun, NEW caller \in Accounts, Withdraw(caller)
  PROVE  Begun'
  <1>a. /\ frame = Idle /\ frame'.op = "withdraw" /\ frame' # Idle
        /\ frame'.to = caller /\ frame'.amount = owed[caller]
        /\ owed' = [owed EXCEPT ![caller] = 0]
        /\ saved' = Snapshot /\ Remember
        /\ UNCHANGED <<lockDigest, spentRoot, held>>
    BY DEF Withdraw, Idle
  <1>1. PayoutBegun'
    BY <1>a, OpeningBegins DEF PayoutBegun
  <1>2. QED
    BY <1>a, <1>1, OpeningBegins DEF Begun

(* A leg that is not the last one, and an admin call in an asset call,     *)
(* leave alone what has begun.                                             *)
LEMMA StaysBegun ==
  ASSUME Begun, frame # Idle, frame' # Idle, Remember,
         UNCHANGED <<saved, lockDigest, spentRoot>>,
         frame'.op = frame.op,
         \/ frame.op = "fulfill" /\ frame'.leaves = frame.leaves
         \/ frame' = frame /\ UNCHANGED <<owed, held>>
  PROVE  Begun'
  <1>1. committed' = committed /\ SavedStanding' = SavedStanding
    BY DEF Remember, SavedStanding
  <1>2. frame.op = "lock" => LockBegun'
    BY <1>1 DEF Begun, LockBegun
  <1>3. frame.op = "fulfill" => BatchBegun'
    BY <1>1 DEF Begun, BatchBegun, Range1
  <1>4. frame.op = "withdraw" => PayoutBegun'
    BY <1>1 DEF Begun, PayoutBegun
  <1>5. QED
    BY <1>1, <1>2, <1>3, <1>4 DEF Begun

(* What has begun stays begun until it ends.                               *)
LEMMA BegunStep == IInv /\ Begun /\ [Next]_vars => Begun'
  <1> SUFFICES ASSUME IInv, Begun, [Next]_vars PROVE Begun'
    OBVIOUS
  <1>s. frame = Idle <=> frame.op = "idle"
    BY FrameShape DEF IInv
  <1>1. CASE \E amount \in 0..(Uint64Max + 1), id \in TokenIds \cup {ZeroId},
                rc \in Commitments \cup {ZeroId} : Lock(amount, id, rc)
    BY <1>1, LockBegins
  <1>2. CASE \E arrived \in 0..Uint64Max : Receive(arrived)
    BY <1>2, AtRest DEF Receive
  <1>3. CASE \E k \in 0..Cardinality(Nullifiers) : \E leaves \in [1..k -> Nullifiers] :
               \E config \in Configs, rootOld \in SUBSET Nullifiers, tb \in TrustBases :
                  FulfillBatch(config, tb, rootOld, leaves)
    BY <1>3, FulfillBegins
  <1>4. CASE PayPrincipal
    <2>1. /\ frame # Idle /\ frame.op = "fulfill" /\ Remember
          /\ frame' = [frame EXCEPT !.leg = "fee"]
          /\ UNCHANGED <<saved, lockDigest, spentRoot>>
      BY <1>4, <1>s DEF PayPrincipal
    <2>2. frame'.op = frame.op /\ frame'.leaves = frame.leaves /\ frame' # Idle
      BY <2>1, FrameShape DEF IInv, Idle
    <2>3. QED
      BY <2>1, <2>2, StaysBegun
  <1>5. CASE PayFee
    <2>1. /\ frame # Idle /\ frame.op = "fulfill" /\ Remember
          /\ UNCHANGED <<saved, lockDigest, spentRoot>>
      BY <1>5, <1>s DEF PayFee
    <2>2. CASE frame' = Idle
      BY <2>1, <2>2, AtRest
    <2>3. CASE frame' # Idle
      <3>1. frame' = [frame EXCEPT !.next = @ + 1, !.leg = "principal"]
        BY <1>5, <2>3 DEF PayFee
      <3>2. frame'.op = frame.op /\ frame'.leaves = frame.leaves
        BY <2>1, <3>1, FrameShape DEF IInv
      <3>3. QED
        BY <2>1, <2>3, <3>2, StaysBegun
    <2>4. QED
      BY <2>2, <2>3
  <1>6. CASE \E caller \in Accounts : Withdraw(caller)
    BY <1>6, WithdrawBegins
  <1>7. CASE PayOut \/ Revert
    BY <1>7, AtRest DEF PayOut, Revert
  <1>8. CASE \/ \E caller \in Accounts, tb \in TrustBases, allowed \in BOOLEAN :
                  SetTrustBaseAllowed(caller, tb, allowed)
             \/ \E caller \in Accounts, newAdmin \in Addresses : TransferAdmin(caller, newAdmin)
    <2>1. frame' = frame /\ Remember /\ UNCHANGED <<saved, lockDigest, spentRoot, owed, held>>
      BY <1>8 DEF SetTrustBaseAllowed, TransferAdmin
    <2>2. QED
      BY <2>1, AtRest, StaysBegun
  <1>9. CASE Donate(1) \/ Tick
    BY <1>9, AtRest DEF Donate, Tick
  <1>10. CASE UNCHANGED vars
    BY <1>10 DEF vars, storage, Begun, Standing, SavedStanding, LockBegun, BatchBegun,
                 PayoutBegun
  <1>11. QED
    BY <1>1, <1>2, <1>3, <1>4, <1>5, <1>6, <1>7, <1>8, <1>9, <1>10 DEF Next

(* A transaction that ends without a revert has done what it is for.       *)
LEMMA LockCompletes ==
  ASSUME IInv, Begun, NEW arrived \in 0..Uint64Max, Receive(arrived)
  PROVE  Completed
  <1>1. /\ frame.op = "lock" /\ held' = held + frame.amount
        /\ UNCHANGED <<lockDigest, spentRoot, owed>>
    BY DEF Receive, AcceptedReceipt, storage
  <1>2. LockBegun
    BY <1>1 DEF Begun
  <1>3. OneMoreLock(frame.amount)
    BY <1>1, <1>2 DEF LockBegun, OneMoreLock
  <1>4. QED
    BY <1>1, <1>2, <1>3 DEF Completed, LockBegun, SameSpent, SameOwed

LEMMA BatchCompletes ==
  ASSUME IInv, IInv', Begun, PayFee, frame' = Idle
  PROVE  Completed
  <1>1. /\ frame.op = "fulfill" /\ BatchBegun
        /\ UNCHANGED <<lockDigest, spentRoot>>
    BY DEF PayFee, Begun
  <1>2. \A n \in Nullifiers : paid'[n] = Due(n, spentRoot')
    BY DEF IInv, Running, Idle
  <1>3. Range1(frame.leaves) \subseteq Nullifiers
    BY <1>1, FrameShape DEF IInv, Range1
  <1>4. \A n \in Range1(frame.leaves) : paid'[n] = Burn[n].amount
    BY <1>1, <1>2, <1>3 DEF Due, BatchBegun
  <1>5. QED
    BY <1>1, <1>4 DEF Completed, BatchBegun, SameLocks

LEMMA PayoutCompletes ==
  ASSUME IInv, Begun, PayOut
  PROVE  Completed
  <1>1. /\ frame.op = "withdraw" /\ PayoutBegun
        /\ SendExactly(frame.to, frame.amount)
        /\ UNCHANGED <<lockDigest, spentRoot, owed>>
    BY DEF PayOut, Begun, storage
  <1>2. frame.to \in Accounts /\ frame.amount \in Nat /\ held \in Nat
    BY <1>1, FrameShape DEF IInv, TypeOK
  <1>3. held' = held - frame.amount
    BY <1>1, <1>2, ConstantsAssumption DEF SendExactly
  <1>4. QED
    BY <1>1, <1>3 DEF Completed, PayoutBegun, SameLocks, SameSpent

(* A transaction of the vault is done whole or leaves nothing: a failed    *)
(* asset call takes the vault back to where the transaction before left it.*)
THEOREM TransactionsAreAtomic == Spec => AllOrNothing
  <1> DEFINE Whole == frame' = Idle => Standing' = committed \/ Completed
  <1>1. IInv /\ Begun /\ IInv' /\ [Next]_vars => [Whole]_vars
    <2> SUFFICES ASSUME IInv, Begun, IInv', Next, frame' = Idle
                 PROVE  Standing' = committed \/ Completed
      BY DEF Whole
    <2>s. /\ frame = Idle <=> frame.op = "idle"
          /\ frame'.op = "idle"
      BY FrameShape DEF IInv, Idle
    <2>1. CASE frame = Idle
      <3>1. committed = Standing
        BY <2>1 DEF Begun
      <3>2. UNCHANGED <<lockDigest, spentRoot, owed>>
        BY <2>s, <2>1 DEF Next, Lock, Receive, FulfillBatch, PayPrincipal, PayFee, Withdraw,
             PayOut, Revert, InAssetCall, SetTrustBaseAllowed, TransferAdmin, Donate, Tick, storage
      <3>3. QED
        BY <2>1, <3>1, <3>2 DEF Standing, Completed, SameLocks, SameSpent, SameOwed
    <2>2. CASE Revert /\ frame # Idle
      BY <2>2 DEF Revert, Begun, SavedStanding, Standing
    <2>3. CASE \E arrived \in 0..Uint64Max : Receive(arrived)
      BY <2>3, LockCompletes
    <2>4. CASE PayFee
      BY <2>4, BatchCompletes
    <2>5. CASE PayOut
      BY <2>5, PayoutCompletes
    <2>6. CASE PayPrincipal
      <3>1. frame'.op = "fulfill"
        BY <2>6, FrameShape DEF IInv, PayPrincipal
      <3>2. QED
        BY <2>s, <3>1
    <2>7. QED
      BY <2>s, <2>1, <2>2, <2>3, <2>4, <2>5, <2>6
      DEF Next, Lock, FulfillBatch, Withdraw, SetTrustBaseAllowed, TransferAdmin, Donate, Tick
  <1>2. Init => Begun
    BY DEF Init, Begun, Idle
  <1>3. QED
    BY <1>1, <1>2, BegunStep, Invariance, PTL DEF Spec, AllOrNothing

===============================================================================
