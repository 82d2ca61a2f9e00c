------------------------------- MODULE Deposit -------------------------------
(***************************************************************************)
(* Bridge-in: a wallet locks an asset in the vault, mints the token the    *)
(* lock is bound to, and another wallet verifies its mint reason.  From    *)
(* packages/bridge-plugin: the source adapter, the search for a lost       *)
(* deposit (lock-lookup.ts), and LockMintJustificationVerifier.            *)
(*                                                                         *)
(* A deposit, its lock transaction and its token id have one name: the     *)
(* lock commits to the token id, and a transaction of lock() emits one     *)
(* Lock event.  The source chain is the sequence of its blocks, each with  *)
(* at most one lock, and its last blocks may be replaced.  Whether a lock  *)
(* reverts is decided where it is mined: on another branch it may succeed. *)
(* Every answer of a node is a step of its own, so the chain moves between *)
(* two answers.                                                            *)
(***************************************************************************)
EXTENDS Integers, FiniteSets, SequencesExt

CONSTANTS
  Wallet,      \* deposits of the wallet, all signed by one account
  Others,      \* deposits of other people
  Empty,       \* a block without a lock; a mint without a reason
  AmountOf,    \* lock -> amount of its event
  OwnerOf,     \* lock -> recipient its event commits to
  Reasons,     \* what other people certify their tokens with
  K,           \* confirmations
  MaxReorg,    \* blocks a reorganisation replaces at most
  MaxLag,      \* blocks mined at most between two requests of a verification
  MayRevert,   \* bound: locks that may revert
  MaxHeight, MaxReorgs, MaxCrashes  \* bounds

Locks == Wallet \cup Others
Mints == [lock : Locks \cup {Empty}, ours : BOOLEAN, nonce : Nat, amount : Nat,
          value : Nat, recipient : {OwnerOf[l] : l \in Locks}]

ASSUME DepositAssumption ==
  /\ Wallet \cap Others = {} /\ Empty \notin Locks /\ MayRevert \subseteq Locks
  /\ AmountOf \in [Locks -> Nat] /\ Reasons \subseteq Mints
  /\ K \in Nat /\ MaxReorg \in Nat /\ MaxLag \in Nat
  /\ MaxHeight \in Nat /\ MaxReorgs \in Nat /\ MaxCrashes \in Nat

(* The choice of K: a block MaxReorg deep is never replaced.  The threshold *)
(* leaves room for the blocks that pass between the two requests.          *)
ASSUME FinalityAssumption == K >= MaxReorg + MaxLag

VARIABLES
  chain,    \* the blocks of the source chain
  reverted, \* locks of the chain that reverted on it
  sent,     \* locks the wallet's account has broadcast, by account nonce
  prompt,   \* deposits whose lock waits for a signature
  stage,    \* deposit -> how far the wallet is with it
  commit,   \* deposit -> lock nonce the wallet read from the receipt
  look,     \* deposit -> where its search is
  minted,   \* token id -> its genesis on Unicity
  check,    \* token id -> what a receiver's verification has read
  verdict,  \* token id -> the receiver's verdict
  calm,     \* the deposit being searched for, if its signature was not outstanding
            \* when the search began and no reorganisation came since
  steady,   \* deposits whose receipt was read, and no reorganisation since
  reorgs, crashes

source == <<chain, reverted>>
wallet == <<sent, prompt, stage, commit, look, crashes>>
receiver == <<check, verdict>>
history == <<steady, reorgs>>
vars == <<source, wallet, minted, receiver, calm, history>>

Stages == {"new", "prepared", "sent", "committed", "minted", "lost", "dropped"}
Unread == -1
Resting == [at |-> "rest", pending |-> Unread, latest |-> Unread, tip |-> Unread]
Unminted == [lock |-> Empty, ours |-> FALSE, nonce |-> 0, amount |-> 0, value |-> 0]
NotRead == [block |-> 0, nonce |-> 0, height |-> 0]

Init ==
  /\ chain = <<>> /\ reverted = {} /\ sent = <<>> /\ prompt = {}
  /\ stage = [d \in Wallet |-> "new"]
  /\ commit = [d \in Wallet |-> 0]
  /\ look = [d \in Wallet |-> Resting]
  /\ minted = [t \in Locks |-> Unminted]
  /\ check = [t \in Locks |-> NotRead]
  /\ verdict = [t \in Locks |-> "none"]
  /\ calm = {} /\ steady = {} /\ reorgs = 0 /\ crashes = 0

(***************************************************************************)
(* The source chain and the vault on it                                    *)
(***************************************************************************)
Height == Len(chain)
Blocks(c) == 1..Len(c)
InChain(l) == \E i \in Blocks(chain) : chain[i] = l
BlockOf(l) == CHOOSE i \in Blocks(chain) : chain[i] = l
(* The vault numbers the locks it takes; a reverted one takes no number.   *)
TakenBefore(i) == {j \in 1..(i - 1) : chain[j] # Empty /\ chain[j] \notin reverted}
(* Mutant: a lock is numbered as the one before it.                        *)
NonceMutant(l) == Cardinality(TakenBefore(BlockOf(l))) - 1
NonceOf(l) == Cardinality(TakenBefore(BlockOf(l)))
TokenIdUsed(l) == InChain(l) /\ l \notin reverted

(* How many locks of the wallet's account the first i blocks hold.         *)
MinedUpTo(c, i) == Cardinality({j \in 1..i : c[j] \in Wallet})
(* Each lock is in one block, and the account's are in nonce order.        *)
InNonceOrder(c) ==
  \A i \in Blocks(c) : LET n == MinedUpTo(c, i) IN
    c[i] \in Wallet => n <= Len(sent) /\ sent[n] = c[i]
IsChain(c) ==
  /\ \A i, j \in Blocks(c) : c[i] = c[j] /\ i # j => c[i] = Empty
  /\ InNonceOrder(c)

(* No verification waits longer than MaxLag blocks for its second answer.  *)
(* The lock of the block, if it has one, may revert.                       *)
Mine(l, fails) ==
  /\ Height < MaxHeight
  /\ IsChain(Append(chain, l))
  /\ \A t \in Locks : check[t] # NotRead => Height - check[t].height < MaxLag
  /\ chain' = Append(chain, l)
  /\ reverted' = reverted \cup fails
  /\ UNCHANGED <<wallet, minted, receiver, calm, history>>

(* The last k blocks are replaced; on the new ones a lock may succeed that *)
(* reverted on the old ones, and the other way round.                      *)
Reorg(k, fork, fails) ==
  LET kept == SubSeq(chain, 1, Height - k) IN
  /\ reorgs < MaxReorgs
  /\ k <= Height
  /\ chain' = kept \o fork
  /\ IsChain(chain')
  /\ reverted' = (reverted \cap Range(kept)) \cup fails
  /\ source' # source
  /\ calm' = {} /\ steady' = {}
  /\ reorgs' = reorgs + 1
  /\ UNCHANGED <<wallet, minted, receiver>>

(***************************************************************************)
(* The wallet: deposit, mint                                               *)
(***************************************************************************)
(* The record needed for a recovery is kept before anything is signed.     *)
Prepare(d) ==
  /\ stage[d] = "new"
  /\ stage' = [stage EXCEPT ![d] = "prepared"]
  /\ prompt' = prompt \cup {d}
  /\ UNCHANGED <<source, sent, commit, look, minted, receiver, calm, history, crashes>>

(* The signature may come after the wallet that asked for it is gone.      *)
Sign(d) ==
  /\ d \in prompt
  /\ prompt' = prompt \ {d}
  /\ sent' = Append(sent, d)
  /\ stage' = [stage EXCEPT ![d] = IF @ = "prepared" THEN "sent" ELSE @]
  /\ UNCHANGED <<source, commit, look, minted, receiver, calm, history, crashes>>

Decline(d) ==
  /\ d \in prompt
  /\ prompt' = prompt \ {d}
  /\ stage' = [stage EXCEPT ![d] = IF @ = "prepared" THEN "dropped" ELSE @]
  /\ UNCHANGED <<source, sent, commit, look, minted, receiver, calm, history, crashes>>

(* decodeCommit: the lock's receipt, as soon as it is in a block.          *)
Decode(d) ==
  /\ stage[d] = "sent" /\ InChain(d)
  /\ IF d \in reverted
     THEN stage' = [stage EXCEPT ![d] = "dropped"] /\ UNCHANGED <<commit, steady>>
     ELSE /\ stage' = [stage EXCEPT ![d] = "committed"]
          /\ commit' = [commit EXCEPT ![d] = NonceOf(d)]
          /\ steady' = steady \cup {d}
  /\ UNCHANGED <<source, sent, prompt, look, minted, receiver, calm, reorgs, crashes>>

(* buildMintRequest, and the genesis it is certified with: one per token   *)
(* id, never replaced, also when the wallet's own verifier, which asks for *)
(* no confirmations, refuses it afterwards.                                *)
MintOf(d) == [lock |-> d, ours |-> TRUE, nonce |-> commit[d], amount |-> AmountOf[d],
              value |-> AmountOf[d], recipient |-> OwnerOf[d]]
Mint(d) ==
  /\ stage[d] = "committed"
  /\ minted' = [minted EXCEPT ![d] = MintOf(d)]
  /\ stage' = [stage EXCEPT ![d] = "minted"]
  /\ UNCHANGED <<source, sent, prompt, commit, look, receiver, calm, history, crashes>>

MintOther(o, reason) ==
  /\ minted[o] = Unminted
  /\ minted' = [minted EXCEPT ![o] = reason]
  /\ UNCHANGED <<source, wallet, receiver, calm, history>>

(* The wallet is closed or dies; the records of its deposits remain.       *)
Crash ==
  /\ crashes < MaxCrashes
  /\ crashes' = crashes + 1
  /\ stage' = [d \in Wallet |-> IF stage[d] \in {"prepared", "sent", "committed"}
                                THEN "lost" ELSE stage[d]]
  /\ look' = [d \in Wallet |-> Resting]
  /\ calm' = {}
  /\ UNCHANGED <<source, sent, prompt, commit, minted, receiver, history>>

(***************************************************************************)
(* findLock: the search for a lost deposit                                 *)
(***************************************************************************)
At(d, place) == look[d].at = place
Search(d, l) ==
  /\ look' = [look EXCEPT ![d] = l]
  /\ UNCHANGED <<source, sent, prompt, commit, minted, receiver, history, crashes>>

(* The vault is asked first; then the account's counts; then the vault     *)
(* again.                                                                  *)
AskVault(d) ==
  /\ stage[d] = "lost" /\ \A e \in Wallet : At(e, "rest")
  /\ Search(d, [look[d] EXCEPT !.at = IF TokenIdUsed(d) THEN "tip" ELSE "counts"])
  /\ calm' = {d} \ prompt
  /\ UNCHANGED stage

ReadPending(d) ==
  /\ At(d, "counts") /\ look[d].pending = Unread
  /\ Search(d, [look[d] EXCEPT !.pending = Len(sent)])
  /\ UNCHANGED <<stage, calm>>

ReadLatest(d) ==
  /\ At(d, "counts") /\ look[d].latest = Unread
  /\ Search(d, [look[d] EXCEPT !.latest = MinedUpTo(chain, Height)])
  /\ UNCHANGED <<stage, calm>>

(* Something of the account is in flight: unknown, searched again later.   *)
CountsRead(d) ==
  /\ At(d, "counts") /\ look[d].pending # Unread /\ look[d].latest # Unread
  /\ IF look[d].pending > look[d].latest
     THEN Search(d, Resting) /\ calm' = {}
     ELSE Search(d, [look[d] EXCEPT !.at = "again"]) /\ UNCHANGED calm
  /\ UNCHANGED stage

(* Mutant: the vault is not asked again.                                   *)
StillUnusedMutant(d) == TRUE
StillUnused(d) == ~TokenIdUsed(d)

Absent(d) ==
  /\ At(d, "again") /\ StillUnused(d)
  /\ stage' = [stage EXCEPT ![d] = "dropped"]
  /\ Search(d, Resting)
  /\ calm' = {}

UsedNow(d) ==
  /\ At(d, "again") /\ ~StillUnused(d)
  /\ Search(d, [look[d] EXCEPT !.at = "tip"])
  /\ UNCHANGED <<stage, calm>>

ReadTip(d) ==
  /\ At(d, "tip")
  /\ Search(d, [look[d] EXCEPT !.at = "logs", !.tip = Height])
  /\ UNCHANGED <<stage, calm>>

(* The logs up to that block show the lock, or the outcome is unknown.     *)
Scan(d) ==
  /\ At(d, "logs")
  /\ stage' = [stage EXCEPT ![d] =
                 IF TokenIdUsed(d) /\ BlockOf(d) <= look[d].tip THEN "sent" ELSE @]
  /\ Search(d, Resting)
  /\ calm' = {}

(***************************************************************************)
(* The receiver: LockMintJustificationVerifier.verify                      *)
(***************************************************************************)
Judged(t, v) == verdict' = [verdict EXCEPT ![t] = v] /\ check' = [check EXCEPT ![t] = NotRead]
ReceiverOnly == UNCHANGED <<source, wallet, minted, calm, history>>
Unjudged(t) == minted[t] # Unminted /\ verdict[t] = "none"

(* No reason, or one of another vault, chain, asset or type.               *)
RefuseReason(t) ==
  /\ Unjudged(t)
  /\ minted[t].lock = Empty \/ ~minted[t].ours
  /\ Judged(t, "refused")
  /\ ReceiverOnly

(* A lock that is not there yet is asked for again; one that reverted is   *)
(* refused at once, however young its block.                               *)
ReadLock(t) ==
  LET l == minted[t].lock IN
  /\ Unjudged(t) /\ \A u \in Locks : check[u] = NotRead
  /\ l # Empty /\ minted[t].ours /\ InChain(l)
  /\ IF l \in reverted
     THEN Judged(t, "refused")
     ELSE /\ check' = [check EXCEPT ![t] = [block |-> BlockOf(l), nonce |-> NonceOf(l),
                                            height |-> Height]]
          /\ UNCHANGED verdict
  /\ ReceiverOnly

(* Mutant: the block of the lock counts as a confirmation.                 *)
ConfirmedMutant(block) == Height - block + 1 >= K
Confirmed(block) == Height - block >= K

Matches(t, m, nonce) ==
  /\ m.amount = AmountOf[m.lock]
  /\ m.value = AmountOf[m.lock]
  /\ m.nonce = nonce
  /\ m.lock = t
  /\ m.recipient = OwnerOf[m.lock]

(* Mutant: short of its confirmations, the token is refused.               *)
AwaitFinalityMutant(t) ==
  /\ check[t] # NotRead /\ ~Confirmed(check[t].block)
  /\ Judged(t, "refused")
  /\ ReceiverOnly

(* Short of its confirmations, the verification starts over.               *)
AwaitFinality(t) ==
  /\ check[t] # NotRead /\ ~Confirmed(check[t].block)
  /\ check' = [check EXCEPT ![t] = NotRead]
  /\ UNCHANGED verdict
  /\ ReceiverOnly

Judge(t) ==
  /\ check[t] # NotRead /\ Confirmed(check[t].block)
  /\ Judged(t, IF Matches(t, minted[t], check[t].nonce) THEN "accepted" ELSE "refused")
  /\ ReceiverOnly

Next ==
  \/ \E l \in Locks \cup {Empty} : \E fails \in SUBSET ({l} \cap MayRevert) : Mine(l, fails)
  \/ \E k \in 1..MaxReorg : \E fork \in [1..k -> Locks \cup {Empty}] :
       \E fails \in SUBSET (Range(fork) \cap MayRevert) : Reorg(k, fork, fails)
  \/ \E d \in Wallet : Prepare(d) \/ Sign(d) \/ Decline(d) \/ Decode(d) \/ Mint(d)
  \/ \E o \in Others, reason \in Reasons : MintOther(o, reason)
  \/ Crash
  \/ \E d \in Wallet : \/ AskVault(d) \/ ReadPending(d) \/ ReadLatest(d) \/ CountsRead(d)
                       \/ Absent(d) \/ UsedNow(d) \/ ReadTip(d) \/ Scan(d)
  \/ \E t \in Locks : RefuseReason(t) \/ ReadLock(t) \/ AwaitFinality(t) \/ Judge(t)

Spec == Init /\ [][Next]_vars

(***************************************************************************)
(* Properties                                                              *)
(***************************************************************************)
Checks == [block : Nat, nonce : Nat, height : Nat]
Looks == [at : {"rest", "counts", "again", "tip", "logs"}, pending : Nat \cup {Unread},
          latest : Nat \cup {Unread}, tip : Nat \cup {Unread}]

TypeOK ==
  /\ chain \in Seq(Locks \cup {Empty}) /\ reverted \subseteq Locks
  /\ sent \in Seq(Wallet) /\ prompt \subseteq Wallet
  /\ stage \in [Wallet -> Stages] /\ commit \in [Wallet -> Nat] /\ look \in [Wallet -> Looks]
  /\ minted \in [Locks -> Mints \cup {Unminted}]
  /\ check \in [Locks -> Checks] /\ verdict \in [Locks -> {"none", "accepted", "refused"}]
  /\ calm \subseteq Wallet /\ steady \subseteq Wallet /\ reorgs \in Nat /\ crashes \in Nat

Final(l) == InChain(l) /\ Height - BlockOf(l) >= MaxReorg

(* A token a receiver accepted rests on a lock of its own, of its value    *)
(* and for its recipient, which no reorganisation can take back, although  *)
(* the chain moved between the receiver's two requests.                    *)
AcceptedIsBacked ==
  \A t \in Locks : verdict[t] = "accepted" =>
    /\ Final(t) /\ t \notin reverted
    /\ minted[t].value = AmountOf[t] /\ minted[t].recipient = OwnerOf[t]

(* A wallet's own token is refused for good only when the chain was        *)
(* reorganised after the wallet read its lock's receipt, and on the branch *)
(* the receiver reads the lock reverted, or is final under another number: *)
(* a lock that is missing, too young or still moving is asked for again.   *)
RefusedForGood ==
  [][\A d \in Wallet : verdict[d] = "none" /\ verdict'[d] = "refused" =>
        /\ d \notin steady
        /\ \/ d \in reverted
           \/ Final(d) /\ NonceOf(d) # minted[d].nonce]_vars

(* A search says absent only of a lock that took nothing: it was never     *)
(* sent, or it reverted, if the signature was not outstanding when the     *)
(* search started and the chain was not reorganised since.                 *)
AbsentIsAbsent ==
  [][\A d \in calm : stage[d] = "lost" /\ stage'[d] = "dropped" =>
        d \in reverted \/ \A i \in 1..Len(sent) : sent[i] # d]_vars
==============================================================================
