---------------------------- MODULE ReturnRelation ----------------------------
(***************************************************************************)
(* What a proof states and how a batch to prove is put together: the guest *)
(* relation (guest/src/lib.rs, core/src/lib.rs) over the token lineage     *)
(* (sdk-ext/src/bridge.rs, verify.rs), and on the service's side intake    *)
(* (host/src/s1.rs), batch selection and assembly (service/src/domain),    *)
(* over Unicity's tokens and the vault's locks.                            *)
(*                                                                         *)
(* Unicity certifies any mint and any transition of a token it has not     *)
(* certified before, whatever the data it carries says; whether a mint is  *)
(* backed is for the relation to find out.  A token is its id and its      *)
(* history.  A nullifier is derived from the burn and the configuration,   *)
(* and a token is burned once, so it stands for the token (KeyOf).         *)
(***************************************************************************)
EXTENDS Accumulator, Wire

CONSTANTS
  TokenIds,
  KeyOf,        \* token -> the nullifier of its burn
  Locks,        \* the vault's locks: nonce -> the token and amount it is for
  Mints,        \* geneses that may come about: sets of [token, genesis]
  Manifests,    \* splits that may come about: sets of [token, manifest]
  Reasons,      \* return burns that may come about: sets of [token, reason]
  TrustBases,   \* name -> [keys: node -> key, quorum]
  TrustBaseOf,  \* token -> the trust base the service verifies it under
  Seals,        \* token -> the signatures of its certificates: <<[node, key]>>
  SizeOf,       \* token -> bytes of its witness
  MaxSize,      \* Limits::max_size
  MaxBytes      \* Limits::max_bytes

NoToken == "no token"
NoManifest == [t \in {} |-> 0]
NoReason == [ours |-> FALSE, amount |-> 0, fee |-> 0]
Unminted == [origin |-> "none", nonce |-> 0, claim |-> 0, ours |-> FALSE, value |-> 0,
             parent |-> NoToken, parentBurned |-> FALSE,
             end |-> "live", manifest |-> NoManifest, reason |-> NoReason]

(* Unicity's record of a token: its mint, and what it was burned for.      *)
Splits == {s.manifest : s \in Manifests} \cup {NoManifest}
Returns == [ours : BOOLEAN, amount : Nat, fee : Nat]
Token ==
  [origin : {"none", "lock", "split"}, nonce : Nat, claim : Nat, ours : BOOLEAN, value : Nat,
   parent : TokenIds \cup {NoToken}, parentBurned : BOOLEAN,
   end : {"live", "split", "return"}, manifest : Splits, reason : Returns]

(* A mint says where the token comes from and nothing of what becomes of it.*)
IsGenesis(g) ==
  /\ g \in Token /\ g.origin # "none" /\ (g.origin = "split" => g.parent \in TokenIds)
  /\ ~g.parentBurned /\ g.end = "live" /\ g.manifest = NoManifest /\ g.reason = NoReason

ASSUME RelationAssumption ==
  /\ IsFiniteSet(TokenIds) /\ NoToken \notin TokenIds
  /\ KeyOf \in [TokenIds -> Keys] /\ IsInjective(KeyOf)
  /\ \A n \in DOMAIN Locks : Locks[n].amount \in Nat
  /\ \A m \in Mints : m.token \in TokenIds /\ IsGenesis(m.genesis)
  /\ \A s \in Manifests : /\ s.token \in TokenIds /\ DOMAIN s.manifest \subseteq TokenIds
                           /\ s.manifest \in [DOMAIN s.manifest -> Nat]
  /\ \A r \in Reasons : r.token \in TokenIds /\ r.reason \in Returns
  /\ \A name \in DOMAIN TrustBases : TrustBases[name].quorum \in Nat
  /\ \A t \in TokenIds : Seals[t] \in Seq(ToSet(Seals[t]))
  /\ TrustBaseOf \in [TokenIds -> DOMAIN TrustBases]
  /\ \A t \in TokenIds : SizeOf[t] \in Nat
  /\ MaxSize \in Nat \ {0} /\ MaxBytes \in Nat

VARIABLES
  tokens,     \* Unicity's record of each token
  queue,      \* returns the service accepted, in order
  log,        \* the vault's settled batches
  spentRoot,  \* the vault's spentRoot
  released    \* the returns the vault paid, with the trust base of the proof (history)

vars == <<tokens, queue, log, spentRoot, released>>

Init ==
  /\ tokens = [t \in TokenIds |-> Unminted]
  /\ queue = <<>> /\ log = <<>> /\ spentRoot = EmptyTreeRoot /\ released = {}

(***************************************************************************)
(* Unicity                                                                 *)
(***************************************************************************)

(* A mint, of a lock it names or of an allocation of a burned parent.  The *)
(* parent's history goes into the mint as it is at that moment.            *)
Mint(m) ==
  /\ tokens[m.token].origin = "none"
  /\ m.genesis.origin = "split" => tokens[m.genesis.parent].origin # "none"
  /\ tokens' = [tokens EXCEPT ![m.token] =
       [m.genesis EXCEPT !.parentBurned = /\ m.genesis.origin = "split"
                                          /\ tokens[m.genesis.parent].end = "split"]]
  /\ UNCHANGED <<queue, log, spentRoot, released>>

Live(t) == tokens[t].origin # "none" /\ tokens[t].end = "live"

SplitBurn(t, manifest) ==
  /\ Live(t)
  /\ tokens' = [tokens EXCEPT ![t].end = "split", ![t].manifest = manifest]
  /\ UNCHANGED <<queue, log, spentRoot, released>>

ReturnBurn(t, reason) ==
  /\ Live(t)
  /\ tokens' = [tokens EXCEPT ![t].end = "return", ![t].reason = reason]
  /\ UNCHANGED <<queue, log, spentRoot, released>>

(***************************************************************************)
(* Certificates: sdk-ext/src/verify.rs                                     *)
(***************************************************************************)

(* A signature counts once per node and once per key of the trust base.    *)
(* Mutant: two nodes with one key count twice.                             *)
CountSignatureMutant(counted, signature, base) ==
  IF /\ signature.node \in DOMAIN base.keys \ counted.nodes
     /\ signature.key = base.keys[signature.node]
  THEN [nodes |-> counted.nodes \cup {signature.node}, keys |-> counted.keys \cup {signature.key}]
  ELSE counted
CountSignature(counted, signature, base) ==
  IF /\ signature.node \in DOMAIN base.keys \ counted.nodes
     /\ base.keys[signature.node] \notin counted.keys
     /\ signature.key = base.keys[signature.node]
  THEN [nodes |-> counted.nodes \cup {signature.node}, keys |-> counted.keys \cup {signature.key}]
  ELSE counted

(* The signatures counted after each of them.                              *)
Counting(seal, base) ==
  LET counted[n \in 0..Len(seal)] ==
        IF n = 0 THEN [nodes |-> {}, keys |-> {}]
        ELSE CountSignature(counted[n - 1], seal[n], base)
  IN counted
VerifyUnicityCertificate(seal, base) ==
  Cardinality(Counting(seal, base)[Len(seal)].nodes) >= base.quorum

(* The trust base is a valid one, and the token's mint and transitions are *)
(* all certified under it.                                                 *)
VerifyToken(t, name) ==
  /\ name \in DOMAIN TrustBases
  /\ t \in TokenIds /\ tokens[t].origin # "none"
  /\ VerifyUnicityCertificate(Seals[t], TrustBases[name])

(***************************************************************************)
(* Lineage: sdk-ext/src/bridge.rs                                          *)
(***************************************************************************)

(* A digest is the record it commits to.                                   *)
LockDigest(nonce, amount, t) == [nonce |-> nonce, amount |-> amount, token |-> t]
StoredDigest(nonce) == LockDigest(nonce, Locks[nonce].amount, Locks[nonce].token)

(* bridge_lock_obligation: a direct mint of this bridge's asset, worth     *)
(* what its justification says was locked.                                 *)
IsLockMint(t) == tokens[t].origin = "lock" /\ tokens[t].ours /\ tokens[t].value = tokens[t].claim
LockObligation(t) ==
  [nonce |-> tokens[t].nonce, digest |-> LockDigest(tokens[t].nonce, tokens[t].claim, t)]

(* verify_split_mint: the parent burned by a split whose manifest gives    *)
(* this output its value, of a sum tree that adds up to the parent's value.*)
Allocated(manifest) == SumFunctionOnSet(manifest, DOMAIN manifest)
(* Mutant: the sum of the tree is not compared with the parent's value.    *)
IsSplitOutputMutant(t) ==
  LET parent == tokens[tokens[t].parent] IN
  /\ tokens[t].origin = "split" /\ tokens[t].parentBurned
  /\ tokens[t].ours = parent.ours
  /\ t \in DOMAIN parent.manifest
  /\ parent.manifest[t] = tokens[t].value
IsSplitOutput(t) ==
  LET parent == tokens[tokens[t].parent] IN
  /\ tokens[t].origin = "split" /\ tokens[t].parentBurned
  /\ tokens[t].ours = parent.ours
  /\ t \in DOMAIN parent.manifest
  /\ parent.manifest[t] = tokens[t].value
  /\ Allocated(parent.manifest) = parent.value

(* The token each was split from, itself if it was minted otherwise; what a*)
(* token descends from, step by step, as far as there are tokens.          *)
Source == [t \in TokenIds |-> IF tokens[t].origin = "split" THEN tokens[t].parent ELSE t]
Back(source, t) ==
  LET step[n \in 0..Cardinality(TokenIds)] == IF n = 0 THEN t ELSE source[step[n - 1]] IN step
Line(t) == {t} \cup {Back(Source, t)[n] : n \in 1..Cardinality(TokenIds)}
Ancestor(t) == Back(Source, t)[Cardinality(TokenIds)]

(* The lock at the end of a token's line; none if a token of the line is   *)
(* not certified, a split does not hold or the first is of no lock.        *)
NoObligation == [nonce |-> 0, digest |-> "none"]
Obligation(t, name) ==
  IF /\ \A u \in Line(t) : VerifyToken(u, name)
     /\ \A u \in Line(t) \ {Ancestor(t)} : IsSplitOutput(u)
     /\ IsLockMint(Ancestor(t))
  THEN LockObligation(Ancestor(t))
  ELSE NoObligation

(***************************************************************************)
(* The relation: guest/src/lib.rs and core/src/lib.rs.  A root over leaves *)
(* or lock refs is the sequence it commits to.                             *)
(***************************************************************************)
LeafOf(t) == [nullifier |-> KeyOf[t], amount |-> tokens[t].reason.amount,
              fee |-> tokens[t].reason.fee]
SumAmounts(leaves) == FoldLeft(LAMBDA sum, leaf : sum + leaf.amount, 0, leaves)
SortedUnique(refs) == \A i \in 1..Len(refs) - 1 : refs[i].nonce < refs[i + 1].nonce

ValidatePublicValues(x) ==
  /\ SortedUnique(x.lockRefs)
  /\ x.batchSize = Len(x.leaves)
  /\ x.totalAmount = SumAmounts(x.leaves)

ValidateAccumulatorTransition(x) ==
  /\ Len(x.leaves) = Len(x.witnesses)
  /\ x.spentRootNew # NoRoot
  /\ InsertAll(x.spentRootOld, [i \in DOMAIN x.leaves |-> x.leaves[i].nullifier], x.witnesses)
       = x.spentRootNew

ValidateTerminalBurn(t, leaf) ==
  /\ tokens[t].end = "return"
  /\ tokens[t].reason.ours
  /\ leaf = LeafOf(t)
  /\ leaf.fee <= leaf.amount
ValidateCurrentValue(t, leaf) == tokens[t].value = leaf.amount

(* The lock refs, in strict order, are the burns' obligations sorted.      *)
ValidateBridgeBurns(x) ==
  /\ x.burns # <<>> /\ Len(x.burns) = Len(x.leaves)
  /\ \A i \in DOMAIN x.burns :
       /\ Obligation(x.burns[i], x.trustBase) # NoObligation
       /\ ValidateTerminalBurn(x.burns[i], x.leaves[i])
       /\ ValidateCurrentValue(x.burns[i], x.leaves[i])
  /\ Len(x.lockRefs) = Len(x.burns)
  /\ ToSet(x.lockRefs) = {Obligation(x.burns[i], x.trustBase) : i \in DOMAIN x.burns}

Execute(x) ==
  /\ ValidatePublicValues(x)
  /\ ValidateAccumulatorTransition(x)
  /\ ValidateBridgeBurns(x)

(***************************************************************************)
(* A batch: sorted lock refs, leaves in the order of its burns, and the    *)
(* accumulator's transition over them.                                     *)
(***************************************************************************)
SortedByNonce(refs) ==
  LET order == CHOOSE p \in [DOMAIN refs -> DOMAIN refs] :
                 /\ IsInjective(p)
                 /\ \A i, j \in DOMAIN refs : i < j => refs[p[i]].nonce <= refs[p[j]].nonce
  IN [i \in DOMAIN refs |-> refs[order[i]]]
SortedObligations(burns, name) ==
  SortedByNonce([i \in DOMAIN burns |-> Obligation(burns[i], name)])
BatchInput(burns, name, spent) ==
  LET leaves == [i \in DOMAIN burns |-> LeafOf(burns[i])]
      next == NextBatch(spent, [i \in DOMAIN burns |-> KeyOf[burns[i]]]) IN
  [trustBase |-> name, leaves |-> leaves, lockRefs |-> SortedObligations(burns, name),
   batchSize |-> Len(burns), totalAmount |-> SumAmounts(leaves),
   spentRootOld |-> next.rootOld, spentRootNew |-> next.rootNew,
   witnesses |-> next.witnesses, burns |-> burns]

(* The precheck runs the relation on the batch as it is and as the guest   *)
(* will read it, and both must state the same.                             *)
PublicValues(x) == [name \in ToSet(Fields) \cup {"leaves", "lockRefs"} |-> x[name]]
Precheck(x) ==
  LET read == DecodeGuestInput(EncodeGuestInput(x)) IN
  /\ Execute(x)
  /\ read # Malformed /\ Execute(read)
  /\ PublicValues(read) = PublicValues(x)
PrecheckWire(wire) ==
  LET x == DecodeGuestInput(wire) IN x # Malformed /\ Precheck(x)

(* Intake of an envelope: a batch of one on the empty tree must pass.      *)
BuildWireInput(t) == EncodeGuestInput(BatchInput(<<t>>, TrustBaseOf[t], {}))
Admissible(t) ==
  /\ tokens[t].end = "return" /\ tokens[t].reason.ours
  /\ PrecheckWire(BuildWireInput(t))

(* Mutant: a return may be queued twice.                                   *)
IntakeMutant(t) ==
  /\ Admissible(t)
  /\ queue' = Append(queue, t)
  /\ UNCHANGED <<tokens, log, spentRoot, released>>
Intake(t) ==
  /\ t \notin ToSet(queue)
  /\ Admissible(t)
  /\ queue' = Append(queue, t)
  /\ UNCHANGED <<tokens, log, spentRoot, released>>

(***************************************************************************)
(* BatchPolicy::select and the assembler                                   *)
(***************************************************************************)
NonceOf(t) == Obligation(t, TrustBaseOf[t]).nonce
Bytes(S) == MapThenSumSet(LAMBDA t : SizeOf[t], S)

(* Mutant: the lock of the oldest member is not kept from the others.      *)
FitsMutant(t, taken) ==
  /\ TrustBaseOf[t] = TrustBaseOf[taken[1]]
  /\ \A i \in 2..Len(taken) : NonceOf(t) # NonceOf(taken[i])
  /\ Bytes(ToSet(taken)) + SizeOf[t] <= MaxBytes
Fits(t, taken) ==
  /\ TrustBaseOf[t] = TrustBaseOf[taken[1]]
  /\ \A i \in DOMAIN taken : NonceOf(t) # NonceOf(taken[i])
  /\ Bytes(ToSet(taken)) + SizeOf[t] <= MaxBytes
Select(due) ==
  FoldLeft(LAMBDA taken, t : IF Len(taken) < MaxSize /\ Fits(t, taken)
                             THEN Append(taken, t) ELSE taken,
           <<due[1]>>, Tail(due))

(* admit: the first reason that keeps a member out, "kept" if there is     *)
(* none; `kept` are those taken before it.                                 *)
(* Mutant: the log's spent nullifiers are not looked at.                   *)
AdmitMutant(t, kept, spent, rejected) ==
  IF t \in rejected THEN "rejected"
  ELSE IF \E u \in ToSet(kept) : NonceOf(u) = NonceOf(t) THEN "invalid"
  ELSE "kept"
Admit(t, kept, spent, rejected) ==
  IF kept # <<>> /\ TrustBaseOf[t] # TrustBaseOf[kept[1]] THEN "invalid"
  ELSE IF t \in rejected THEN "rejected"
  ELSE IF KeyOf[t] \in spent THEN "released"
  ELSE IF \E u \in ToSet(kept) : NonceOf(u) = NonceOf(t) THEN "invalid"
  ELSE "kept"
Kept(members, spent, rejected) ==
  FoldLeft(LAMBDA kept, t : IF Admit(t, kept, spent, rejected) = "kept"
                            THEN Append(kept, t) ELSE kept,
           <<>>, members)
Assembled(members, spent, rejected) ==
  LET kept == Kept(members, spent, rejected) IN
  BatchInput(kept, TrustBaseOf[kept[1]], spent)

(***************************************************************************)
(* The vault                                                               *)
(***************************************************************************)
LockRefsStored(x) ==
  \A i \in DOMAIN x.lockRefs : /\ x.lockRefs[i].nonce \in DOMAIN Locks
                               /\ x.lockRefs[i].digest = StoredDigest(x.lockRefs[i].nonce)

FulfillBatch(x) ==
  /\ Execute(x)
  /\ x.spentRootOld = spentRoot
  /\ LockRefsStored(x)
  /\ spentRoot' = x.spentRootNew
  /\ log' = Append(log, [nullifiers |-> [i \in DOMAIN x.leaves |-> x.leaves[i].nullifier],
                         rootOld |-> x.spentRootOld, rootNew |-> x.spentRootNew,
                         txid |-> Len(log) + 1])
  /\ released' = released \cup [token : ToSet(x.burns), trustBase : {x.trustBase}]
  /\ UNCHANGED <<tokens, queue>>

Spent == Rebuild(log).spent

(* The members of S, in the order they have in a sequence.                 *)
Among(S, order) ==
  FoldLeft(LAMBDA found, t : IF t \in S THEN Append(found, t) ELSE found, <<>>, order)

(* The service settles what it selects of the returns due, without those   *)
(* whose locks the simulation finds not to be the vault's.                 *)
Due(S) == Among(S, queue)
Unbacked == {t \in ToSet(queue) : ~LockRefsStored([lockRefs |-> <<Obligation(t, TrustBaseOf[t])>>])}
ServiceSettles(S) ==
  /\ S # {} /\ S \subseteq ToSet(queue)
  /\ LET members == Select(Due(S)) IN
     /\ Kept(members, Spent, Unbacked) # <<>>
     /\ PrecheckWire(EncodeGuestInput(Assembled(members, Spent, Unbacked)))
     /\ FulfillBatch(Assembled(members, Spent, Unbacked))

(* Anyone settles any batch that has a proof, in any order.  (A burn with  *)
(* no obligation has none: Execute refuses it, at more expense.)           *)
AnyoneSettles(burns, name) ==
  /\ IsInjective(burns)
  /\ \A t \in ToSet(burns) : tokens[t].end = "return" /\ Obligation(t, name) # NoObligation
  /\ LET spent == Spent IN
     /\ \A t \in ToSet(burns) : KeyOf[t] \notin spent
     /\ FulfillBatch(BatchInput(burns, name, spent))

Batches == {<<t>> : t \in TokenIds} \cup (TokenIds \X TokenIds)

Next ==
  \/ \E m \in Mints : Mint(m)
  \/ \E s \in Manifests : SplitBurn(s.token, s.manifest)
  \/ \E r \in Reasons : ReturnBurn(r.token, r.reason)
  \/ \E t \in TokenIds : Intake(t)
  \/ \E S \in SUBSET TokenIds : ServiceSettles(S)
  \/ \E burns \in Batches : \E name \in DOMAIN TrustBases : AnyoneSettles(burns, name)

Spec == Init /\ [][Next]_vars

(***************************************************************************)
(* Properties                                                              *)
(***************************************************************************)
ReleasedTokens == {r.token : r \in released}

TypeOK ==
  /\ tokens \in [TokenIds -> Token]
  /\ ToSet(queue) \subseteq TokenIds /\ IsInjective(queue)
  /\ ReleasedTokens \subseteq TokenIds
  /\ \A i \in DOMAIN log : ToSet(log[i].nullifiers) \subseteq Keys

(* Whatever is minted, split, burned and proved: every released return     *)
(* descends from the token a lock was made for, and the returns of one     *)
(* lock together are worth no more than it.                                *)
ReleasesWithinLocks ==
  /\ \A t \in ReleasedTokens :
       LET first == tokens[Ancestor(t)] IN
       /\ first.origin = "lock" /\ first.ours /\ first.nonce \in DOMAIN Locks
       /\ Locks[first.nonce].token = Ancestor(t)
  /\ \A n \in DOMAIN Locks :
       SumFunctionOnSet([t \in TokenIds |-> tokens[t].reason.amount],
                        {t \in ReleasedTokens : tokens[Ancestor(t)].nonce = n}) <= Locks[n].amount

(* A release rests, for every token of its line, on valid signatures under *)
(* as many different keys of the trust base as its quorum asks for: a node *)
(* that signs twice, or one key listed for two nodes, counts once.         *)
QuorumOfKeys ==
  \A r \in released : \A u \in Line(r.token) :
    LET base == TrustBases[r.trustBase] IN
    Cardinality({s.key : s \in {s \in ToSet(Seals[u]) : /\ s.node \in DOMAIN base.keys
                                                        /\ base.keys[s.node] = s.key}})
      >= base.quorum

(* Selection serves the oldest return due, keeps the order, and skips one  *)
(* only for its trust base, a lock or the bytes of those chosen before it, *)
(* or a full batch: nothing that fits is passed over.                      *)
SelectionIsGreedy ==
  \A S \in (SUBSET ToSet(queue)) \ {{}} :
    LET due == Due(S)
        chosen == Select(due)
        At(t) == CHOOSE i \in DOMAIN due : due[i] = t
        Before(t) == Among({u \in S : At(u) < At(t)}, chosen)
        Joins(t) ==
          \/ t = due[1]
          \/ /\ Len(Before(t)) < MaxSize
             /\ TrustBaseOf[t] = TrustBaseOf[due[1]]
             /\ \A u \in ToSet(Before(t)) : NonceOf(u) # NonceOf(t)
             /\ Bytes(ToSet(Before(t)) \cup {t}) <= MaxBytes IN
    /\ chosen = Among(ToSet(chosen), due)
    /\ \A t \in S : t \in ToSet(chosen) <=> Joins(t)
    /\ \A t, u \in ToSet(chosen) : t # u => NonceOf(t) # NonceOf(u)

(* What the assembler makes of any members, some spent or refused since    *)
(* they were chosen, reads back from the wire as it was written, passes    *)
(* the relation and the vault as they are now, and it leaves out only what *)
(* is spent, refused, under another trust base than the batch or of a lock *)
(* the batch already draws on.                                             *)
AssembledIsAccepted ==
  \A S \in SUBSET ToSet(queue) : \A refused \in SUBSET S :
    LET members == Due(S)
        rejected == refused \cup Unbacked
        kept == Kept(members, Spent, rejected)
        x == Assembled(members, Spent, rejected) IN
    /\ kept # <<>> => /\ x.burns = kept
                      /\ DecodeGuestInput(EncodeGuestInput(x)) = x
                      /\ Execute(x)
                      /\ x.spentRootOld = spentRoot
                      /\ LockRefsStored(x)
    /\ \A t \in S \ ToSet(kept) :
         \/ t \in rejected \cup ReleasedTokens
         \/ kept # <<>> /\ TrustBaseOf[t] # TrustBaseOf[kept[1]]
         \/ \E u \in ToSet(kept) : NonceOf(u) = NonceOf(t)

(* The accumulator rebuilt from the vault's settlements, in any order and  *)
(* with repeats that name no transaction, is the vault's: its root, the    *)
(* nullifiers it spent and the transaction that spent each.  A log with a  *)
(* settlement missing or a made-up one added is refused.                   *)
Unnamed(entries) == [i \in DOMAIN entries |-> [entries[i] EXCEPT !.txid = NoTxid]]
Without(i) == RemoveAt(log, i)
Forged(i) == [log[i] EXCEPT !.nullifiers = Reverse(@) \o @]
RebuiltIsTheVault ==
  /\ \A entries \in {log, Reverse(log), Unnamed(log) \o log, Reverse(log) \o Unnamed(log)} :
       LET acc == RebuildVerified(entries, spentRoot) IN
       /\ acc.ok
       /\ acc.spent = {KeyOf[t] : t \in ReleasedTokens}
       /\ \A i \in DOMAIN log : \A n \in ToSet(log[i].nullifiers) : acc.txids[n] = log[i].txid
  /\ \A i \in DOMAIN log :
       /\ i < Len(log) => ~Rebuild(Without(i)).ok
       /\ ~RebuildVerified(Without(i), spentRoot).ok
       /\ ~Rebuild(Append(log, Forged(i))).ok
       /\ ~Rebuild(<<Forged(i)>> \o log).ok

(* The vault's root tells the spent from the unspent: a key it has not     *)
(* spent has a witness, from the empty tree and its sentinel root on, and  *)
(* inserting the key leads to the tree that holds it too; for a key it has *)
(* spent no witness verifies, honest or not, and none takes an insertion   *)
(* to another tree.                                                        *)
RootTellsSpent ==
  LET spent == {KeyOf[r.token] : r \in released}
      After(k) == TreeRoot(spent \cup {k}) IN
  /\ spentRoot = TreeRoot(spent)
  /\ \A k \in Keys \ spent :
       Insert(spentRoot, k, NonMembershipWitness(spent, k)) = After(k)
  /\ \A claim \in Claims :
       claim.root = spentRoot => claim.key \notin spent /\ claim.after = After(claim.key)
==============================================================================
