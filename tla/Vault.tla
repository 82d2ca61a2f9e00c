-------------------------------- MODULE Vault --------------------------------
(***************************************************************************)
(* The source-chain vault, UnicityBridgeVault.sol.                         *)
(*                                                                         *)
(* A transaction is one `frame`: it opens with the function's checks and   *)
(* effects and ends when the last asset call has returned, so that what    *)
(* another contract does inside an asset call (the two unguarded admin     *)
(* functions) lies between two steps, and a failed asset call rolls the    *)
(* whole transaction back to `saved`.  A call that fails one of its        *)
(* require()s changes nothing and is no step at all, which also covers     *)
(* every nested call of the three nonReentrant functions.                  *)
(*                                                                         *)
(* Hashes are their preimages: a lock digest is the record of the fields   *)
(* it commits to, the spent root is the set of nullifiers in the tree, and *)
(* a root over calldata is the calldata.  `Burn` gives, for a nullifier,   *)
(* the burn it was derived from.                                           *)
(***************************************************************************)
EXTENDS Integers, Sequences, FiniteSets, FiniteSetsExt

CONSTANTS
  Accounts,      \* addresses that hold keys or code, other than the vault
  VaultAddr,     \* address(this)
  ZeroAddr,      \* address(0)
  TokenIds,      \* non-zero Unicity token ids
  ZeroId,        \* bytes32(0)
  Commitments,   \* non-zero recipient commitments
  TrustBases,    \* trust base hashes
  Configs,       \* config hashes, of this deployment and of others
  CONFIG_HASH,   \* the config hash stamped by the constructor
  Nullifiers,    \* nullifiers of burns on Unicity
  Burn,          \* nullifier -> the burn's terms and lineage
  Deployer,      \* admin_ of the constructor
  Uint64Max,     \* type(uint64).max
  Uint256Max     \* type(uint256).max

ASSUME ConstantsAssumption ==
  /\ VaultAddr \notin Accounts /\ ZeroAddr \notin Accounts /\ VaultAddr # ZeroAddr
  /\ ZeroId \notin TokenIds \cup Commitments
  /\ CONFIG_HASH \in Configs
  /\ Deployer \in Accounts
  /\ IsFiniteSet(Nullifiers)
  /\ Uint64Max \in Nat /\ Uint256Max \in Nat /\ Uint64Max <= Uint256Max

Addresses == Accounts \cup {VaultAddr, ZeroAddr}
Digests == [nonce : Nat, amount : 0..Uint64Max, tokenId : TokenIds, recipient : Commitments]

ASSUME BurnAssumption ==
  Burn \in [Nullifiers -> [config : Configs, recipient : Addresses, amount : Nat,
                           feeRecipient : Addresses, feeAmount : Nat, deadline : Nat,
                           lock : Digests]]

VARIABLES
  PULL_PAYMENTS,     \* settlement mode the deployer chose, immutable
  admin,             \* trust-base allow-list manager
  trustBaseAllowed,  \* allow-listed trust bases
  nextNonce,         \* next lock id
  lockDigest,        \* lock id -> what its digest commits to
  tokenIdUsed,       \* token ids already locked
  spentRoot,         \* nullifiers in the replay accumulator
  owed,              \* pull-payment balances
  held,              \* ASSET.balanceOf(address(this))
  now,               \* block.timestamp
  frame,             \* the transaction being executed
  saved,             \* what a revert of it restores
  paid,              \* history: released per nullifier, principal and fee together
  lockedTotal,       \* history: sum of the amounts of the locks
  sentTotal,         \* history: sum of the vault's own transfers out
  donated,           \* history: asset sent to the vault by plain transfers
  committed          \* history: the vault when it last was between transactions

storage == <<PULL_PAYMENTS, admin, trustBaseAllowed, nextNonce, lockDigest, tokenIdUsed, spentRoot, owed>>
history == <<paid, lockedTotal, sentTotal, donated>>
vars == <<storage, held, now, frame, saved, history, committed>>

Idle == [op |-> "idle"]
Frames ==
  {Idle} \cup [op : {"lock"}, amount : 0..Uint64Max]
         \cup [op : {"withdraw"}, to : Accounts, amount : Nat]
         \cup [op : {"fulfill"}, leaves : Seq(Nullifiers), next : Nat, leg : {"principal", "fee"}]

(* What the EVM restores when the running transaction reverts. *)
Snapshot ==
  [admin |-> admin, trustBaseAllowed |-> trustBaseAllowed, nextNonce |-> nextNonce,
   lockDigest |-> lockDigest, tokenIdUsed |-> tokenIdUsed, spentRoot |-> spentRoot,
   owed |-> owed, held |-> held, paid |-> paid, lockedTotal |-> lockedTotal,
   sentTotal |-> sentTotal]

(* The vault as others see it between two transactions. *)
Standing ==
  [admin |-> admin, trustBaseAllowed |-> trustBaseAllowed, lockDigest |-> lockDigest,
   spentRoot |-> spentRoot, owed |-> owed, held |-> held]

Init ==
  /\ PULL_PAYMENTS \in BOOLEAN
  /\ admin = Deployer
  /\ trustBaseAllowed = {}
  /\ nextNonce = 0
  /\ lockDigest = [n \in {} |-> n]
  /\ tokenIdUsed = {}
  /\ spentRoot = {}
  /\ owed = [a \in Addresses |-> 0]
  /\ held = 0
  /\ now = 0
  /\ frame = Idle
  /\ paid = [n \in Nullifiers |-> 0]
  /\ lockedTotal = 0
  /\ sentTotal = 0
  /\ donated = 0
  /\ saved = Snapshot
  /\ committed = Standing

(* What history keeps of a step that leaves the vault between transactions.*)
Remember == committed' = IF frame' = Idle THEN Standing' ELSE committed

(***************************************************************************)
(* lock                                                                    *)
(***************************************************************************)

(* Mutants of LockAccepted: a token id check left out. *)
LockZeroIdMutant(amount, tokenId, recipient) ==
  amount \in 1..Uint64Max /\ recipient # ZeroId /\ tokenId \notin tokenIdUsed
LockTwiceMutant(amount, tokenId, recipient) ==
  amount \in 1..Uint64Max /\ recipient # ZeroId /\ tokenId # ZeroId

LockAccepted(amount, tokenId, recipient) ==
  /\ amount > 0
  /\ amount <= Uint64Max
  /\ tokenId # ZeroId
  /\ recipient # ZeroId
  /\ tokenId \notin tokenIdUsed

(* Checks and effects of lock(), up to the asset's transferFrom. *)
Lock(amount, tokenId, recipient) ==
  /\ frame = Idle
  /\ LockAccepted(amount, tokenId, recipient)
  /\ tokenIdUsed' = tokenIdUsed \cup {tokenId}
  /\ nextNonce' = nextNonce + 1
  /\ lockDigest' = [n \in 0..nextNonce |->
                      IF n = nextNonce
                      THEN [nonce |-> n, amount |-> amount,
                            tokenId |-> tokenId, recipient |-> recipient]
                      ELSE lockDigest[n]]
  /\ lockedTotal' = lockedTotal + amount
  /\ frame' = [op |-> "lock", amount |-> amount]
  /\ saved' = Snapshot
  /\ UNCHANGED <<PULL_PAYMENTS, admin, trustBaseAllowed, spentRoot, owed, held, now, paid,
                 sentTotal, donated>>
  /\ Remember

(* Mutant: trusting transferFrom to have moved the whole amount. *)
ReceivedMutant(arrived, value) == arrived <= value

(* The vault checks its own balance: what arrived is what was asked for. *)
AcceptedReceipt(arrived, value) == arrived = value

(* _receiveExactly: the asset moved `arrived` to the vault and returned. *)
Receive(arrived) ==
  /\ frame.op = "lock"
  /\ AcceptedReceipt(arrived, frame.amount)
  /\ held' = held + arrived
  /\ frame' = Idle
  /\ UNCHANGED <<storage, now, saved, history>>
  /\ Remember

(***************************************************************************)
(* fulfillBatch                                                            *)
(***************************************************************************)

Range1(s) == {s[i] : i \in 1..Len(s)}
LockRefs(leaves) == {[nonce |-> Burn[n].lock.nonce, digest |-> Burn[n].lock] : n \in Range1(leaves)}
Total(leaves) == MapThenSumSet(LAMBDA i : Burn[leaves[i]].amount, 1..Len(leaves))

SpentRootNew(rootOld, leaves) == rootOld \cup Range1(leaves)

(* The statements a proof exists for: what guest::execute accepts.  The    *)
(* leaves are inserted one after the other, so each must be absent from    *)
(* the running tree; the lock obligations, one per burn and sorted by      *)
(* nonce, must be strictly increasing; the total is a wrapping sum.        *)
Statement(config, trustBase, rootOld, leaves) ==
  [config |-> config, trustBase |-> trustBase, spentRootOld |-> rootOld,
   spentRootNew |-> SpentRootNew(rootOld, leaves), leaves |-> leaves,
   lockRefs |-> LockRefs(leaves), batchSize |-> Len(leaves),
   totalAmount |-> Total(leaves) % (Uint256Max + 1)]

Provable(config, rootOld, leaves) ==
  /\ Len(leaves) > 0
  /\ \A i \in 1..Len(leaves) : /\ leaves[i] \notin rootOld
                               /\ Burn[leaves[i]].config = config
                               /\ Burn[leaves[i]].feeAmount <= Burn[leaves[i]].amount
  /\ \A i, j \in 1..Len(leaves) :
        i # j => /\ leaves[i] # leaves[j]
                 /\ Burn[leaves[i]].lock.nonce # Burn[leaves[j]].lock.nonce

(* Mutant: the nonce is looked up, its digest not compared. *)
LockRefsMutant(refs) == \A r \in refs : r.nonce \in DOMAIN lockDigest

(* Every lock ref names a lock of this vault and carries its digest. *)
LockRefsStored(refs) ==
  \A r \in refs : r.nonce \in DOMAIN lockDigest /\ lockDigest[r.nonce] = r.digest

(* Mutant: any earlier root will do. *)
FreshRootMutant(pv) == pv.spentRootOld \subseteq spentRoot

(* The compare-and-swap of the replay guard. *)
FreshRoot(pv) == pv.spentRootOld = spentRoot

(* All the require()s of fulfillBatch after the proof itself. *)
AcceptedStatement(pv) ==
  /\ pv.config = CONFIG_HASH
  /\ pv.trustBase \in trustBaseAllowed
  /\ FreshRoot(pv)
  /\ LockRefsStored(pv.lockRefs)
  /\ \A i \in 1..Len(pv.leaves) : Burn[pv.leaves[i]].feeAmount <= Burn[pv.leaves[i]].amount
  /\ Total(pv.leaves) <= Uint256Max
  /\ Total(pv.leaves) = pv.totalAmount

FulfillBatch(config, trustBase, rootOld, leaves) ==
  LET pv == Statement(config, trustBase, rootOld, leaves) IN
  /\ frame = Idle
  /\ Provable(config, rootOld, leaves)
  /\ AcceptedStatement(pv)
  /\ spentRoot' = pv.spentRootNew
  /\ frame' = [op |-> "fulfill", leaves |-> leaves, next |-> 1, leg |-> "principal"]
  /\ saved' = Snapshot
  /\ UNCHANGED <<PULL_PAYMENTS, admin, trustBaseAllowed, nextNonce, lockDigest, tokenIdUsed,
                 owed, held, now, history>>
  /\ Remember

(* The leaf being settled, and the fee it still earns at this block. *)
Leaf == frame.leaves[frame.next]
FeeDue(b) == IF b.feeRecipient # ZeroAddr /\ now <= b.deadline THEN b.feeAmount ELSE 0
Principal(b) == b.amount - FeeDue(b)

(* _sendExactly: a payout to the vault itself, or of nothing, is a no-op. *)
SendExactly(to, value) ==
  IF to = VaultAddr \/ value = 0
  THEN UNCHANGED <<held, sentTotal>>
  ELSE /\ value <= held
       /\ held' = held - value
       /\ sentTotal' = sentTotal + value

(* Settle one leg of a leaf: credit it, or push it. *)
Settle(nullifier, to, value) ==
  /\ paid' = [paid EXCEPT ![nullifier] = @ + value]
  /\ IF PULL_PAYMENTS
     THEN /\ owed' = [owed EXCEPT ![to] = @ + value]
          /\ UNCHANGED <<held, sentTotal>>
     ELSE /\ SendExactly(to, value)
          /\ UNCHANGED owed

PayPrincipal ==
  /\ frame.op = "fulfill"
  /\ frame.leg = "principal"
  /\ Settle(Leaf, Burn[Leaf].recipient, Principal(Burn[Leaf]))
  /\ frame' = [frame EXCEPT !.leg = "fee"]
  /\ UNCHANGED <<PULL_PAYMENTS, admin, trustBaseAllowed, nextNonce, lockDigest, tokenIdUsed,
                 spentRoot, now, saved, lockedTotal, donated>>
  /\ Remember

PayFee ==
  /\ frame.op = "fulfill"
  /\ frame.leg = "fee"
  /\ Settle(Leaf, Burn[Leaf].feeRecipient, FeeDue(Burn[Leaf]))
  /\ frame' = IF frame.next = Len(frame.leaves)
              THEN Idle
              ELSE [frame EXCEPT !.next = @ + 1, !.leg = "principal"]
  /\ UNCHANGED <<PULL_PAYMENTS, admin, trustBaseAllowed, nextNonce, lockDigest, tokenIdUsed,
                 spentRoot, now, saved, lockedTotal, donated>>
  /\ Remember

(***************************************************************************)
(* withdraw                                                                *)
(***************************************************************************)

(* The balance is zeroed before the transfer. *)
Withdraw(caller) ==
  /\ frame = Idle
  /\ owed[caller] > 0
  /\ owed' = [owed EXCEPT ![caller] = 0]
  /\ frame' = [op |-> "withdraw", to |-> caller, amount |-> owed[caller]]
  /\ saved' = Snapshot
  /\ UNCHANGED <<PULL_PAYMENTS, admin, trustBaseAllowed, nextNonce, lockDigest, tokenIdUsed,
                 spentRoot, held, now, history>>
  /\ Remember

PayOut ==
  /\ frame.op = "withdraw"
  /\ SendExactly(frame.to, frame.amount)
  /\ frame' = Idle
  /\ UNCHANGED <<storage, now, saved, paid, lockedTotal, donated>>
  /\ Remember

(***************************************************************************)
(* Failed asset calls, admin functions, the chain and the asset            *)
(***************************************************************************)

(* Another contract is running: the asset, or a receiver it calls. *)
InAssetCall ==
  \/ frame.op \in {"lock", "withdraw"}
  \/ frame.op = "fulfill" /\ ~PULL_PAYMENTS

(* Mutant: the failed asset call is ignored, the transaction ends here. *)
RevertMutant ==
  /\ InAssetCall
  /\ frame' = Idle
  /\ UNCHANGED <<storage, held, now, saved, history>>
  /\ Remember

(* The asset refused, ran out of energy, or moved a different amount. *)
Revert ==
  /\ InAssetCall
  /\ admin' = saved.admin
  /\ trustBaseAllowed' = saved.trustBaseAllowed
  /\ nextNonce' = saved.nextNonce
  /\ lockDigest' = saved.lockDigest
  /\ tokenIdUsed' = saved.tokenIdUsed
  /\ spentRoot' = saved.spentRoot
  /\ owed' = saved.owed
  /\ held' = saved.held
  /\ paid' = saved.paid
  /\ lockedTotal' = saved.lockedTotal
  /\ sentTotal' = saved.sentTotal
  /\ frame' = Idle
  /\ UNCHANGED <<PULL_PAYMENTS, now, saved, donated>>
  /\ Remember

(* setTrustBaseAllowed and transferAdmin carry no reentrancy guard, so the *)
(* admin may also call them from inside another transaction's asset call.  *)
SetTrustBaseAllowed(caller, trustBase, allowed) ==
  /\ frame = Idle \/ InAssetCall
  /\ caller = admin
  /\ trustBaseAllowed' = IF allowed THEN trustBaseAllowed \cup {trustBase}
                                    ELSE trustBaseAllowed \ {trustBase}
  /\ UNCHANGED <<PULL_PAYMENTS, admin, nextNonce, lockDigest, tokenIdUsed, spentRoot, owed,
                 held, now, frame, saved, history>>
  /\ Remember

TransferAdmin(caller, newAdmin) ==
  /\ frame = Idle \/ InAssetCall
  /\ caller = admin
  /\ newAdmin # ZeroAddr
  /\ admin' = newAdmin
  /\ UNCHANGED <<PULL_PAYMENTS, trustBaseAllowed, nextNonce, lockDigest, tokenIdUsed,
                 spentRoot, owed, held, now, frame, saved, history>>
  /\ Remember

(* A plain asset transfer to the vault address. *)
Donate(amount) ==
  /\ frame = Idle
  /\ held' = held + amount
  /\ donated' = donated + amount
  /\ UNCHANGED <<storage, now, frame, saved, paid, lockedTotal, sentTotal>>
  /\ Remember

(* Time passes between transactions. *)
Tick ==
  /\ frame = Idle
  /\ now' = now + 1
  /\ UNCHANGED <<storage, held, frame, saved, history>>
  /\ Remember

Next ==
  \/ \E amount \in 0..(Uint64Max + 1), id \in TokenIds \cup {ZeroId}, rc \in Commitments \cup {ZeroId} :
        Lock(amount, id, rc)
  \/ \E arrived \in 0..Uint64Max : Receive(arrived)
  \/ /\ frame = Idle
     /\ \E k \in 0..Cardinality(Nullifiers) : \E leaves \in [1..k -> Nullifiers] :
           \E config \in Configs, rootOld \in SUBSET Nullifiers, tb \in TrustBases :
              FulfillBatch(config, tb, rootOld, leaves)
  \/ PayPrincipal
  \/ PayFee
  \/ \E caller \in Accounts : Withdraw(caller)
  \/ PayOut
  \/ Revert
  \/ \E caller \in Accounts, tb \in TrustBases, allowed \in BOOLEAN :
        SetTrustBaseAllowed(caller, tb, allowed)
  \/ \E caller \in Accounts, newAdmin \in Addresses : TransferAdmin(caller, newAdmin)
  \/ Donate(1)
  \/ Tick

Spec == Init /\ [][Next]_vars

(***************************************************************************)
(* Properties                                                              *)
(***************************************************************************)

(* Every variable of the contract stays in its type. *)
TypeOK ==
  /\ PULL_PAYMENTS \in BOOLEAN
  /\ admin \in Addresses \ {ZeroAddr}
  /\ trustBaseAllowed \subseteq TrustBases
  /\ nextNonce \in Nat
  /\ lockDigest \in [0..(nextNonce - 1) -> Digests]
  /\ tokenIdUsed \subseteq TokenIds
  /\ spentRoot \subseteq Nullifiers
  /\ owed \in [Addresses -> Nat]
  /\ held \in Nat
  /\ now \in Nat
  /\ frame \in Frames
  /\ paid \in [Nullifiers -> Nat]
  /\ lockedTotal \in Nat /\ sentTotal \in Nat /\ donated \in Nat

(* Between transactions a burn has been paid its exact amount, principal   *)
(* and fee together, if its nullifier is spent, and nothing if it is not:  *)
(* no burn is released twice, in part, or under a consumed replay guard    *)
(* without being paid, whatever batches, reverts and deadlines came before.*)
PaidExactlyOnce ==
  frame = Idle => \A n \in Nullifiers : paid[n] = IF n \in spentRoot THEN Burn[n].amount ELSE 0

(* The vault's asset balance is what was locked and given, less what it    *)
(* sent: a lock whose transferFrom delivered less never stands, and a      *)
(* reverted payout takes its effects with it.                              *)
CustodyExact == frame = Idle => held + sentTotal = lockedTotal + donated

(* A token id funds one lock only, and the used set is exactly the ids of  *)
(* the stored locks, including after a reverted lock.                      *)
OneLockPerTokenId ==
  /\ \A m, n \in DOMAIN lockDigest : lockDigest[m].tokenId = lockDigest[n].tokenId => m = n
  /\ tokenIdUsed = {lockDigest[n].tokenId : n \in DOMAIN lockDigest}

(* What fulfillBatch releases descends from locks this vault holds: the    *)
(* lock of every spent nullifier is stored, with the digest proved.        *)
ReleasesBacked ==
  \A n \in spentRoot : /\ Burn[n].config = CONFIG_HASH
                       /\ Burn[n].lock.nonce \in DOMAIN lockDigest
                       /\ lockDigest[Burn[n].lock.nonce] = Burn[n].lock

(* What is done, to the vault as it stood before, when a transaction ends  *)
(* well: a lock stored and its amount taken in, a batch spent for the first*)
(* time and paid in full, a balance paid out; what takes one step (an admin*)
(* call, a donation, time passing) touches none of these.                  *)
SameLocks == lockDigest' = committed.lockDigest
SameSpent == spentRoot' = committed.spentRoot
SameOwed  == owed' = committed.owed
OneMoreLock(amount) ==
  \E n \in DOMAIN lockDigest' :
    /\ DOMAIN lockDigest' \ {n} = DOMAIN committed.lockDigest
    /\ n \notin DOMAIN committed.lockDigest /\ lockDigest'[n].amount = amount
    /\ \A m \in DOMAIN committed.lockDigest : lockDigest'[m] = committed.lockDigest[m]
Completed ==
  \/ frame = Idle /\ SameLocks /\ SameSpent /\ SameOwed
  \/ /\ frame.op = "lock"
     /\ OneMoreLock(frame.amount) /\ held' = committed.held + frame.amount
     /\ SameSpent /\ SameOwed
  \/ /\ frame.op = "fulfill"
     /\ Range1(frame.leaves) \cap committed.spentRoot = {}
     /\ spentRoot' = committed.spentRoot \cup Range1(frame.leaves)
     /\ \A n \in Range1(frame.leaves) : paid'[n] = Burn[n].amount
     /\ SameLocks
  \/ /\ frame.op = "withdraw"
     /\ owed' = [committed.owed EXCEPT ![frame.to] = 0]
     /\ held' = committed.held - committed.owed[frame.to]
     /\ SameLocks /\ SameSpent

(* A transaction stands whole or leaves nothing, whatever the asset did in *)
(* its middle: when it is over, the vault is as it was when the one before *)
(* was over, admin calls made in its middle undone with it, or what it is  *)
(* for is done.  So no lock and no nullifier of an earlier transaction is  *)
(* lost or changed, by a later one or by a rollback.                       *)
AllOrNothing == [][frame' = Idle => Standing' = committed \/ Completed]_vars
==============================================================================
