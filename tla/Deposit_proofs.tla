---------------------------- MODULE Deposit_proofs ----------------------------
(***************************************************************************)
(* What a receiver accepted is backed for good, for every number of        *)
(* deposits, every length of a reorganisation and every lag between two    *)
(* answers of a node that the confirmations leave room for; what it        *)
(* refused deserves it; and a search calls absent only what is.            *)
(***************************************************************************)
EXTENDS Deposit, FiniteSetTheorems, SequenceTheorems, WellFoundedInduction, TLAPS

USE DEF source, history

(* The chain moves: a block is mined, or its last ones are replaced.       *)
Mines ==
  \E l \in Locks \cup {Empty} : \E fails \in SUBSET ({l} \cap MayRevert) : Mine(l, fails)
Reorganises ==
  \E k \in 1..MaxReorg : \E fork \in [1..k -> Locks \cup {Empty}] :
    \E fails \in SUBSET (Range(fork) \cap MayRevert) : Reorg(k, fork, fails)

(* A block no reorganisation reaches any more.                             *)
Settled == 1..(Height - MaxReorg)

(* Each lock is in one block only.                                         *)
ChainInv ==
  /\ chain \in Seq(Locks \cup {Empty}) /\ reverted \subseteq Locks
  /\ \A i, j \in Blocks(chain) : chain[i] = chain[j] /\ i # j => chain[i] = Empty

(* A token has one genesis.                                                *)
MintInv ==
  /\ DOMAIN minted = Locks /\ minted = [t \in Locks |-> minted[t]]
  /\ stage \in [Wallet -> Stages]
  /\ \A d \in Wallet : minted[d] # Unminted => stage[d] = "minted"

(* What a verification has read still holds if it was deep enough when it  *)
(* was read, and at most MaxLag blocks have been mined since.              *)
ReadHolds(t) ==
  /\ minted[t] # Unminted
  /\ minted[t].lock \in Locks
  /\ check[t].height <= Height /\ Height <= check[t].height + MaxLag
  /\ check[t].block \in 1..check[t].height
  /\ check[t].block <= check[t].height - MaxReorg =>
       chain[check[t].block] = minted[t].lock /\ minted[t].lock \notin reverted

(* What was accepted rests on a settled lock of its own.                   *)
Backed(t) ==
  /\ minted[t] # Unminted /\ t \notin reverted
  /\ minted[t].value = AmountOf[t] /\ minted[t].recipient = OwnerOf[t]
  /\ \E i \in Settled : chain[i] = t

IInv ==
  /\ ChainInv
  /\ MintInv
  /\ check \in [Locks -> Checks]
  /\ verdict \in [Locks -> {"none", "accepted", "refused"}]
  /\ \A t \in Locks : check[t] # NotRead => ReadHolds(t)
  /\ \A t \in Locks : verdict[t] = "accepted" => Backed(t)

(* Only a lost deposit is searched for.                                    *)
SearchInv ==
  /\ stage \in [Wallet -> Stages] /\ DOMAIN look = Wallet
  /\ \A d \in Wallet : look[d].at = "rest" \/ stage[d] = "lost"

(* A block is kept with what became of its lock.                           *)
Kept(i) ==
  /\ i \in Blocks(chain') /\ chain'[i] = chain[i]
  /\ chain[i] \in reverted' <=> chain[i] \in reverted

(* What every step of the chain keeps: it grows, and its settled blocks    *)
(* stay as they are.                                                       *)
ChainKept ==
  /\ ChainInv'
  /\ Len(chain) <= Len(chain')
  /\ \A i \in Settled : Kept(i)

(* A new block.                                                            *)
LEMMA MineKeeps ==
  ASSUME ChainInv, NEW l \in Locks \cup {Empty},
         NEW fails \in SUBSET ({l} \cap MayRevert), Mine(l, fails)
  PROVE  /\ ChainKept /\ Len(chain') = Len(chain) + 1
         /\ \A i \in Blocks(chain) : Kept(i)
  <1>1. /\ chain' = Append(chain, l) /\ IsChain(chain')
        /\ reverted' = reverted \cup fails /\ reverted' \subseteq Locks
    BY DepositAssumption DEF Mine, ChainInv
  <1>2. chain' \in Seq(Locks \cup {Empty}) /\ Len(chain') = Len(chain) + 1
        /\ chain'[Len(chain) + 1] = l
        /\ \A i \in 1..Len(chain) : chain'[i] = chain[i]
    BY <1>1 DEF ChainInv
  <1>3. \A i \in Settled : i \in 1..Len(chain)
    BY DepositAssumption DEF Settled, Height, ChainInv
  <1>4. ASSUME NEW i \in 1..Len(chain) PROVE Kept(i)
    <2>1. i \in Blocks(chain') /\ Len(chain) + 1 \in Blocks(chain') /\ i # Len(chain) + 1
      BY <1>2 DEF Blocks, ChainInv
    <2>2. chain[i] \notin fails
      BY <1>1, <1>2, <2>1, DepositAssumption DEF IsChain
    <2>3. QED
      BY <1>1, <1>2, <2>1, <2>2 DEF Kept
  <1>5. QED
    BY <1>1, <1>2, <1>3, <1>4 DEF ChainKept, ChainInv, IsChain, Blocks

(* A sequence whose end is replaced.                                       *)
LEMMA ForkProperties ==
  ASSUME NEW S, NEW c \in Seq(S), NEW n \in 0..Len(c), NEW f \in Seq(S)
  PROVE  /\ SubSeq(c, 1, n) \o f \in Seq(S)
         /\ Len(SubSeq(c, 1, n) \o f) = n + Len(f)
         /\ \A i \in 1..n : (SubSeq(c, 1, n) \o f)[i] = c[i]
         /\ \A j \in 1..Len(f) : (SubSeq(c, 1, n) \o f)[n + j] = f[j]
  <1> DEFINE base == SubSeq(c, 1, n)
  <1>1. \A i \in 1..n : c[i] \in S
    OBVIOUS
  <1>2. base \in Seq(S) /\ Len(base) = n /\ \A i \in 1..n : base[i] = c[i]
    BY <1>1, SubSeqProperties
  <1> HIDE DEF base
  <1>3. /\ base \o f \in Seq(S)
        /\ Len(base \o f) = n + Len(f)
        /\ \A i \in 1..(n + Len(f)) :
             (base \o f)[i] = IF i <= n THEN base[i] ELSE f[i - n]
    BY <1>2, ConcatProperties
  <1>4. /\ \A i \in 1..n : i \in 1..(n + Len(f)) /\ i <= n
        /\ \A j \in 1..Len(f) : n + j \in 1..(n + Len(f)) /\ ~(n + j <= n) /\ (n + j) - n = j
    OBVIOUS
  <1>5. /\ base \o f \in Seq(S) /\ Len(base \o f) = n + Len(f)
        /\ \A i \in 1..n : (base \o f)[i] = c[i]
        /\ \A j \in 1..Len(f) : (base \o f)[n + j] = f[j]
    BY <1>2, <1>3, <1>4
  <1>6. QED
    BY <1>5 DEF base

(* A reorganisation.                                                       *)
LEMMA ReorgKeeps ==
  ASSUME ChainInv, NEW k \in 1..MaxReorg, NEW fork \in [1..k -> Locks \cup {Empty}],
         NEW fails \in SUBSET (Range(fork) \cap MayRevert), Reorg(k, fork, fails)
  PROVE  ChainKept /\ Len(chain') = Len(chain)
  <1> DEFINE n == Len(chain) - k
             S == Locks \cup {Empty}
  <1>1. /\ chain' = SubSeq(chain, 1, n) \o fork
        /\ reverted' = (reverted \cap Range(SubSeq(chain, 1, n))) \cup fails
        /\ IsChain(chain') /\ k <= Len(chain)
    BY DEF Reorg, Height
  <1>2. /\ k \in Nat \ {0} /\ MaxReorg \in Nat /\ k <= MaxReorg
        /\ chain \in Seq(S) /\ Len(chain) \in Nat /\ n \in 0..Len(chain)
    BY <1>1, DepositAssumption DEF ChainInv
  <1>3. fork \in Seq(S) /\ Len(fork) = k /\ DOMAIN fork = 1..k /\ n + k = Len(chain)
    BY <1>2
  <1>4. /\ chain' \in Seq(S) /\ Len(chain') = Len(chain)
        /\ \A i \in 1..n : chain'[i] = chain[i]
        /\ \A j \in 1..k : chain'[n + j] = fork[j]
        /\ \A i \in 1..n : chain[i] \in Range(SubSeq(chain, 1, n))
    <2> HIDE DEF n, S
    <2>1. chain \in Seq(S) /\ n \in 0..Len(chain) /\ fork \in Seq(S)
      BY <1>2, <1>3
    <2>2. chain' = SubSeq(chain, 1, n) \o fork
      BY <1>1
    <2>3. /\ chain' \in Seq(S) /\ Len(chain') = n + Len(fork)
          /\ \A i \in 1..n : chain'[i] = chain[i]
      BY <2>1, <2>2, ForkProperties
    <2>4. \A j \in 1..Len(fork) : chain'[n + j] = fork[j]
      BY <2>1, <2>2, ForkProperties
    <2>5. \A i \in 1..n : chain[i] \in Range(SubSeq(chain, 1, n))
      <3>1. \A i \in 1..n : chain[i] \in S
        BY <2>1
      <3>2. /\ DOMAIN SubSeq(chain, 1, n) = 1..n
            /\ \A i \in 1..n : SubSeq(chain, 1, n)[i] = chain[i]
        BY <2>1, <3>1, SubSeqProperties
      <3>3. QED
        BY <3>2 DEF Range
    <2>6. QED
      BY <1>3, <2>3, <2>4, <2>5
  <1>5. ASSUME NEW i \in 1..n PROVE Kept(i)
    <2>1. i \in Blocks(chain') /\ chain[i] \in Range(SubSeq(chain, 1, n))
      BY <1>2, <1>4 DEF Blocks
    <2>2. ASSUME chain[i] \in fails PROVE FALSE
      <3>1. PICK j \in 1..k : fork[j] = chain[i]
        BY <1>3, <2>2 DEF Range
      <3>2. n + j \in Blocks(chain') /\ i # n + j
        BY <1>2, <1>3, <1>4 DEF Blocks
      <3>3. chain'[i] = chain'[n + j]
        BY <1>4, <3>1
      <3>4. chain'[i] = Empty
        BY <1>1, <2>1, <3>2, <3>3 DEF IsChain
      <3>5. QED
        BY <1>4, <2>2, <3>4, DepositAssumption
    <2>3. QED
      BY <1>1, <1>4, <2>1, <2>2 DEF Kept
  <1>6. \A i \in Settled : i \in 1..n
    BY <1>1, <1>2 DEF Settled, Height
  <1>7. ChainInv'
    BY <1>1, <1>4, DepositAssumption DEF ChainInv, IsChain
  <1>8. QED
    BY <1>2, <1>4, <1>5, <1>6, <1>7 DEF ChainKept

(* A step of the chain, as far as the receiver's records are concerned.    *)
LEMMA ChainStep ==
  ASSUME IInv, ChainKept, UNCHANGED <<minted, stage, check, verdict>>,
         \A t \in Locks : check[t] # NotRead => Len(chain') <= check[t].height + MaxLag
  PROVE  IInv'
  <1>1. MintInv'
    BY DEF IInv, MintInv
  <1>2. Len(chain) \in Nat /\ Len(chain') \in Nat /\ MaxReorg \in Nat
    BY DepositAssumption DEF IInv, ChainKept, ChainInv
  <1>3. ASSUME NEW t \in Locks, check[t] # NotRead PROVE ReadHolds(t)'
    <2>1. ReadHolds(t) /\ check[t].block \in Nat /\ check[t].height \in Nat
      BY <1>3 DEF IInv, Checks
    <2>2. ASSUME check[t].block <= check[t].height - MaxReorg
          PROVE  chain'[check[t].block] = minted[t].lock /\ minted[t].lock \notin reverted'
      <3>1. check[t].block \in Settled
        BY <1>2, <2>1, <2>2 DEF ReadHolds, Settled, Height
      <3>2. QED
        BY <2>1, <2>2, <3>1 DEF ReadHolds, ChainKept, Kept
    <2>3. QED
      BY <1>2, <1>3, <2>1, <2>2 DEF ReadHolds, Height, ChainKept
  <1>4. ASSUME NEW t \in Locks, verdict[t] = "accepted" PROVE Backed(t)'
    <2>1. Backed(t)
      BY <1>4 DEF IInv
    <2>2. PICK i \in Settled : chain[i] = t
      BY <2>1 DEF Backed
    <2>3. i \in Settled' /\ chain'[i] = t /\ t \notin reverted'
      BY <1>2, <2>1, <2>2 DEF ChainKept, Kept, Settled, Height, Backed
    <2>4. QED
      BY <2>1, <2>3 DEF Backed
  <1>5. QED
    BY <1>1, <1>3, <1>4 DEF IInv, ChainKept

(* A step of the wallet that mints nothing.                                *)
LEMMA WalletStep ==
  ASSUME IInv, UNCHANGED <<source, minted, check, verdict>>, stage' \in [Wallet -> Stages],
         \A d \in Wallet : stage[d] = "minted" => stage'[d] = "minted"
  PROVE  IInv'
  BY DEF IInv, ChainInv, MintInv, ReadHolds, Backed, Settled, Height, Blocks

(* A genesis is certified for a token that had none.                       *)
LEMMA MintStep ==
  ASSUME IInv, UNCHANGED <<source, check, verdict>>, NEW t \in Locks, NEW m,
         minted[t] = Unminted, minted' = [minted EXCEPT ![t] = m],
         stage' \in [Wallet -> Stages],
         \A d \in Wallet : stage[d] = "minted" \/ d = t => stage'[d] = "minted"
  PROVE  IInv'
  <1>1. \A u \in Locks : minted[u] # Unminted => minted'[u] = minted[u]
    BY DEF IInv, MintInv
  <1>2. ChainInv' /\ MintInv'
    BY DEF IInv, ChainInv, MintInv, Blocks, Locks
  <1>3. \A u \in Locks : check'[u] # NotRead => ReadHolds(u)'
    BY <1>1 DEF IInv, ReadHolds, Height
  <1>4. \A u \in Locks : verdict'[u] = "accepted" => Backed(u)'
    BY <1>1 DEF IInv, Backed, Settled, Height
  <1>5. QED
    BY <1>2, <1>3, <1>4 DEF IInv

(* The receiver has read a lock.                                           *)
LEMMA ReadStep ==
  ASSUME IInv, NEW t \in Locks, ReadLock(t)
  PROVE  IInv'
  <1> DEFINE l == minted[t].lock
  <1>1. /\ UNCHANGED <<source, minted, stage>>
        /\ minted[t] # Unminted /\ l # Empty /\ InChain(l)
    BY DEF ReadLock, ReceiverOnly, Unjudged, wallet
  <1>2. l \in Locks
    BY <1>1 DEF InChain, Blocks, IInv, ChainInv
  <1>3. ChainInv' /\ MintInv'
    BY <1>1 DEF IInv, ChainInv, MintInv, Blocks
  <1>4. \A u \in Locks : Backed(u) => Backed(u)'
    BY <1>1 DEF Backed, Settled, Height
  <1>5. \A u \in Locks : ReadHolds(u) /\ check'[u] = check[u] => ReadHolds(u)'
    BY <1>1 DEF ReadHolds, Height
  <1>6. CASE l \in reverted
    <2>1. /\ check' = [check EXCEPT ![t] = NotRead]
          /\ verdict' = [verdict EXCEPT ![t] = "refused"]
      BY <1>6 DEF ReadLock, Judged
    <2>2. NotRead \in Checks
      BY DEF NotRead, Checks
    <2>3. QED
      BY <1>3, <1>4, <1>5, <2>1, <2>2 DEF IInv
  <1>7. CASE l \notin reverted
    <2> DEFINE read == [block |-> BlockOf(l), nonce |-> NonceOf(l), height |-> Height]
    <2>1. check' = [check EXCEPT ![t] = read] /\ verdict' = verdict
      BY <1>7 DEF ReadLock
    <2>2. BlockOf(l) \in 1..Len(chain) /\ chain[BlockOf(l)] = l
      BY <1>1 DEF InChain, BlockOf, Blocks
    <2>3. Len(chain) \in Nat
      BY DEF IInv, ChainInv
    <2>4. NonceOf(l) \in Nat
      <3>1. IsFiniteSet(1..(BlockOf(l) - 1))
        BY <2>2, <2>3, FS_Interval
      <3>2. TakenBefore(BlockOf(l)) \subseteq 1..(BlockOf(l) - 1)
        BY DEF TakenBefore
      <3>3. QED
        BY <3>1, <3>2, FS_Subset, FS_CardinalityType DEF NonceOf
    <2>5. read \in Checks
      BY <2>2, <2>3, <2>4 DEF Checks, Height
    <2>6. ReadHolds(t)'
      <3>1. check'[t] = read
        BY <2>1 DEF IInv
      <3>2. QED
        BY <1>1, <1>2, <1>7, <2>2, <2>3, <3>1, DepositAssumption DEF ReadHolds, Height
    <2>7. \A u \in Locks : u # t => check'[u] = check[u]
      BY <2>1 DEF IInv
    <2>8. QED
      BY <1>3, <1>4, <1>5, <2>1, <2>5, <2>6, <2>7 DEF IInv
  <1>8. QED
    BY <1>6, <1>7

(* The receiver refuses, or starts over.                                   *)
LEMMA ForgetStep ==
  ASSUME IInv, NEW t \in Locks, UNCHANGED <<source, minted, stage>>,
         check' = [check EXCEPT ![t] = NotRead],
         verdict' = verdict \/ verdict' = [verdict EXCEPT ![t] = "refused"]
  PROVE  IInv'
  <1>1. NotRead \in Checks
    BY DEF NotRead, Checks
  <1>2. ChainInv' /\ MintInv'
    BY DEF IInv, ChainInv, MintInv, Blocks
  <1>3. \A u \in Locks : Backed(u) => Backed(u)'
    BY DEF Backed, Settled, Height
  <1>4. \A u \in Locks : ReadHolds(u) /\ check'[u] = check[u] => ReadHolds(u)'
    BY DEF ReadHolds, Height
  <1>5. QED
    BY <1>1, <1>2, <1>3, <1>4 DEF IInv

(* K confirmations counted from a tip at most MaxLag blocks later leave    *)
(* MaxReorg of them when the lock was read.                                *)
LEMMA DeepWhenRead ==
  ASSUME NEW t \in Locks, ReadHolds(t), Confirmed(check[t].block), Len(chain) \in Nat,
         check[t].block \in Nat, check[t].height \in Nat
  PROVE  check[t].block <= check[t].height - MaxReorg
  <1>1. K \in Nat /\ MaxReorg \in Nat /\ MaxLag \in Nat /\ K >= MaxReorg + MaxLag
    BY DepositAssumption, FinalityAssumption
  <1>2. Len(chain) <= check[t].height + MaxLag /\ Len(chain) - check[t].block >= K
    BY DEF ReadHolds, Confirmed, Height
  <1>3. ASSUME NEW k \in Nat, NEW r \in Nat, NEW l \in Nat, NEW n \in Nat, NEW b \in Nat,
               NEW h \in Nat, k >= r + l, n <= h + l, n - b >= k
        PROVE  b <= h - r
    BY <1>3
  <1>4. QED
    BY <1>1, <1>2, <1>3

(* The heart: what is judged with K confirmations was read with MaxReorg,  *)
(* and has stayed where it was.                                            *)
LEMMA AcceptStep ==
  ASSUME IInv, NEW t \in Locks, Judge(t), Matches(t, minted[t], check[t].nonce)
  PROVE  IInv'
  <1>1. /\ UNCHANGED <<source, minted, stage>>
        /\ check[t] # NotRead /\ Confirmed(check[t].block)
        /\ check' = [check EXCEPT ![t] = NotRead]
        /\ verdict' = [verdict EXCEPT ![t] = "accepted"]
    BY DEF Judge, Judged, ReceiverOnly, wallet
  <1>2. NotRead \in Checks
    BY DEF NotRead, Checks
  <1>3. ChainInv' /\ MintInv'
    BY <1>1 DEF IInv, ChainInv, MintInv, Blocks
  <1>4. \A u \in Locks : Backed(u) => Backed(u)'
    BY <1>1 DEF Backed, Settled, Height
  <1>5. \A u \in Locks : ReadHolds(u) /\ check'[u] = check[u] => ReadHolds(u)'
    BY <1>1 DEF ReadHolds, Height
  <1>6. Backed(t)
    <2>1. /\ ReadHolds(t) /\ Len(chain) \in Nat
          /\ check[t].block \in Nat /\ check[t].height \in Nat
      BY <1>1 DEF IInv, ChainInv, Checks
    <2>2. check[t].block <= check[t].height - MaxReorg
      BY <1>1, <2>1, DeepWhenRead
    <2>3. check[t].block \in Settled
      BY <2>1, <2>2, DepositAssumption DEF ReadHolds, Settled, Height
    <2>4. QED
      BY <2>1, <2>2, <2>3 DEF ReadHolds, Backed, Matches
  <1>7. QED
    BY <1>1, <1>2, <1>3, <1>4, <1>5, <1>6 DEF IInv

(* Every step of the receiver.                                             *)
LEMMA ReceiverStep ==
  ASSUME IInv, NEW t \in Locks,
         RefuseReason(t) \/ ReadLock(t) \/ AwaitFinality(t) \/ Judge(t)
  PROVE  IInv'
  <1>1. CASE RefuseReason(t)
    BY <1>1, ForgetStep DEF RefuseReason, Judged, ReceiverOnly, wallet
  <1>2. CASE ReadLock(t)
    BY <1>2, ReadStep
  <1>3. CASE AwaitFinality(t)
    BY <1>3, ForgetStep DEF AwaitFinality, ReceiverOnly, wallet
  <1>4. CASE Judge(t) /\ Matches(t, minted[t], check[t].nonce)
    BY <1>4, AcceptStep
  <1>5. CASE Judge(t) /\ ~Matches(t, minted[t], check[t].nonce)
    BY <1>5, ForgetStep DEF Judge, Judged, ReceiverOnly, wallet
  <1>6. QED
    BY <1>1, <1>2, <1>3, <1>4, <1>5

(* Every step of the wallet.                                               *)
LEMMA DepositStep ==
  ASSUME IInv, NEW d \in Wallet,
         Prepare(d) \/ Sign(d) \/ Decline(d) \/ Decode(d) \/ Mint(d)
  PROVE  IInv'
  <1> stage \in [Wallet -> Stages]
    BY DEF IInv, MintInv
  <1>1. CASE Prepare(d)
    BY <1>1, WalletStep DEF Prepare, receiver, Stages
  <1>2. CASE Sign(d)
    BY <1>2, WalletStep DEF Sign, receiver, Stages
  <1>3. CASE Decline(d)
    BY <1>3, WalletStep DEF Decline, receiver, Stages
  <1>4. CASE Decode(d)
    BY <1>4, WalletStep DEF Decode, receiver, Stages
  <1>5. CASE Mint(d)
    <2>1. minted[d] = Unminted /\ d \in Locks
      BY <1>5 DEF Mint, IInv, MintInv, Locks
    <2>2. UNCHANGED <<source, check, verdict>> /\ minted' = [minted EXCEPT ![d] = MintOf(d)]
          /\ stage' = [stage EXCEPT ![d] = "minted"]
      BY <1>5 DEF Mint, receiver
    <2>3. /\ stage' \in [Wallet -> Stages]
          /\ \A e \in Wallet : stage[e] = "minted" \/ e = d => stage'[e] = "minted"
      BY <2>2 DEF Stages
    <2>4. QED
      BY <2>1, <2>2, <2>3, MintStep
  <1>6. QED
    BY <1>1, <1>2, <1>3, <1>4, <1>5

(* Somebody else mints.                                                    *)
LEMMA OthersMint ==
  ASSUME IInv, NEW o \in Others, NEW reason \in Reasons, MintOther(o, reason)
  PROVE  IInv'
  <1>1. o \in Locks /\ o \notin Wallet
    BY DepositAssumption DEF Locks
  <1>2. QED
    BY <1>1, MintStep DEF MintOther, wallet, receiver, IInv, MintInv

(* The wallet dies.                                                        *)
LEMMA LossStep ==
  ASSUME IInv, Crash
  PROVE  IInv'
  <1>1. /\ stage' \in [Wallet -> Stages]
        /\ \A d \in Wallet : stage[d] = "minted" => stage'[d] = "minted"
    BY DEF Crash, IInv, MintInv, Stages
  <1>2. QED
    BY <1>1, WalletStep DEF Crash, receiver

(* Every step of a search.                                                 *)
LEMMA SearchStep ==
  ASSUME IInv, SearchInv, NEW d \in Wallet,
         \/ AskVault(d) \/ ReadPending(d) \/ ReadLatest(d) \/ CountsRead(d)
         \/ Absent(d) \/ UsedNow(d) \/ ReadTip(d) \/ Scan(d)
  PROVE  IInv'
  <1> USE DEF Search, receiver
  <1>1. stage \in [Wallet -> Stages]
    BY DEF IInv, MintInv
  <1>2. CASE UNCHANGED <<source, minted, check, verdict, stage>>
    BY <1>1, <1>2, WalletStep
  <1>3. CASE Absent(d) \/ Scan(d)
    <2>1. stage[d] # "minted"
      BY <1>3 DEF SearchInv, Absent, Scan, At
    <2>2. /\ stage' \in [Wallet -> Stages]
          /\ \A e \in Wallet : stage[e] = "minted" => stage'[e] = "minted"
      BY <1>1, <1>3, <2>1 DEF Absent, Scan, Stages
    <2>3. QED
      BY <1>3, <2>2, WalletStep DEF Absent, Scan
  <1>5. QED
    BY <1>2, <1>3 DEF AskVault, ReadPending, ReadLatest, CountsRead, UsedNow, ReadTip

(* Every step of the chain.                                                *)
LEMMA BlockStep ==
  ASSUME IInv,
         \/ Mines
         \/ Reorganises
  PROVE  IInv'
  <1>1. ChainInv /\ Len(chain) \in Nat /\ MaxLag \in Nat
    BY DepositAssumption DEF IInv, ChainInv
  <1>2. ASSUME NEW l \in Locks \cup {Empty},
               NEW fails \in SUBSET ({l} \cap MayRevert), Mine(l, fails) PROVE IInv'
    <2>1. \A t \in Locks : check[t] # NotRead => Len(chain) + 1 <= check[t].height + MaxLag
      BY <1>1, <1>2 DEF Mine, Height, IInv, Checks
    <2>2. QED
      BY <1>1, <1>2, <2>1, MineKeeps, ChainStep DEF Mine, wallet, receiver
  <1>3. ASSUME NEW k \in 1..MaxReorg, NEW fork \in [1..k -> Locks \cup {Empty}],
               NEW fails \in SUBSET (Range(fork) \cap MayRevert), Reorg(k, fork, fails)
        PROVE  IInv'
    <2>1. \A t \in Locks : check[t] # NotRead => Len(chain) <= check[t].height + MaxLag
      BY DEF IInv, ReadHolds, Height
    <2>2. QED
      BY <1>1, <1>3, <2>1, ReorgKeeps, ChainStep DEF Reorg, wallet, receiver
  <1>4. QED
    BY <1>2, <1>3 DEF Mines, Reorganises

(* A search starts and ends with its deposit lost.                         *)
LEMMA SearchInvStep ==
  ASSUME SearchInv, [Next]_vars
  PROVE  SearchInv'
  <1> USE DEF SearchInv, Stages
  <1>1. CASE UNCHANGED <<stage, look>>
    BY <1>1
  <1>2. ASSUME NEW d \in Wallet,
               Prepare(d) \/ Sign(d) \/ Decline(d) \/ Decode(d) \/ Mint(d)
        PROVE  SearchInv'
    BY <1>2 DEF Prepare, Sign, Decline, Decode, Mint
  <1>3. ASSUME NEW d \in Wallet,
               \/ AskVault(d) \/ ReadPending(d) \/ ReadLatest(d) \/ CountsRead(d)
               \/ UsedNow(d) \/ ReadTip(d)
        PROVE  SearchInv'
    BY <1>3 DEF AskVault, ReadPending, ReadLatest, CountsRead, UsedNow, ReadTip, Search, At,
                Resting
  <1>4. ASSUME NEW d \in Wallet, Absent(d) \/ Scan(d)
        PROVE  SearchInv'
    BY <1>4 DEF Absent, Scan, Search, At, Resting
  <1>5. CASE Crash
    BY <1>5 DEF Crash, Resting
  <1>6. CASE \E o \in Others, reason \in Reasons : MintOther(o, reason)
    BY <1>1, <1>6 DEF MintOther, wallet
  <1>7. CASE Mines \/ Reorganises
    BY <1>1, <1>7 DEF Mines, Reorganises, Mine, Reorg, wallet
  <1>8. CASE \E t \in Locks : RefuseReason(t) \/ ReadLock(t) \/ AwaitFinality(t) \/ Judge(t)
    BY <1>1, <1>8 DEF RefuseReason, ReadLock, AwaitFinality, Judge, ReceiverOnly, wallet
  <1>9. CASE UNCHANGED vars
    BY <1>1, <1>9 DEF vars, wallet
  <1>10. QED
    BY <1>2, <1>3, <1>4, <1>5, <1>6, <1>7, <1>8, <1>9 DEF Next, Mines, Reorganises

(* The two invariants are inductive together.                              *)
THEOREM Invariance == Spec => [](IInv /\ SearchInv)
  <1>1. Init => IInv /\ SearchInv
    <2> SUFFICES ASSUME Init PROVE IInv /\ SearchInv
      OBVIOUS
    <2>1. ChainInv /\ MintInv
      BY DEF Init, ChainInv, MintInv, Blocks, Stages, Locks
    <2>2. check \in [Locks -> Checks]
      BY DEF Init, NotRead, Checks
    <2>3. QED
      BY <2>1, <2>2 DEF Init, IInv, SearchInv, Resting, Stages
  <1>2. IInv /\ SearchInv /\ [Next]_vars => (IInv /\ SearchInv)'
    <2> SUFFICES ASSUME IInv, SearchInv, [Next]_vars PROVE IInv'
      BY SearchInvStep
    <2>1. CASE UNCHANGED vars
      BY <2>1, WalletStep DEF vars, wallet, receiver, IInv, MintInv
    <2>2. CASE Next
      BY <2>2, BlockStep, DepositStep, OthersMint, LossStep, SearchStep, ReceiverStep
         DEF Next, Mines, Reorganises
    <2>3. QED
      BY <2>1, <2>2
  <1>3. QED
    BY <1>1, <1>2, PTL DEF Spec

(* A token a receiver accepted rests on a lock of its own which no         *)
(* reorganisation can take back, whatever the chain did between the        *)
(* receiver's two requests.                                                *)
THEOREM Acceptance == Spec => []AcceptedIsBacked
  <1>1. IInv => AcceptedIsBacked
    <2> SUFFICES ASSUME IInv, NEW t \in Locks, verdict[t] = "accepted"
                 PROVE  /\ Final(t) /\ t \notin reverted
                        /\ minted[t].value = AmountOf[t] /\ minted[t].recipient = OwnerOf[t]
      BY DEF AcceptedIsBacked
    <2>1. Backed(t) /\ Len(chain) \in Nat /\ MaxReorg \in Nat /\ t # Empty
      BY DepositAssumption DEF IInv, ChainInv
    <2>2. PICK i \in Settled : chain[i] = t
      BY <2>1 DEF Backed
    <2>3. i \in Blocks(chain)
      BY <2>1 DEF Settled, Blocks, Height
    <2>4. BlockOf(t) = i
      BY <2>1, <2>2, <2>3 DEF BlockOf, IInv, ChainInv
    <2>5. Final(t)
      BY <2>1, <2>2, <2>3, <2>4 DEF Final, InChain, Settled, Height
    <2>6. QED
      BY <2>1, <2>5 DEF Backed
  <1>2. QED
    BY <1>1, Invariance, PTL

(***************************************************************************)
(* Refusals                                                                *)
(***************************************************************************)
(* The number a lock takes on the chain as it is.                          *)
NumberAt(i) == Cardinality(TakenBefore(i))
Numbered(d, n) ==
  d \notin reverted /\ \E i \in Blocks(chain) : chain[i] = d /\ NumberAt(i) = n

(* The reason of a wallet's own token is right but for the number.         *)
OwnReason(d) ==
  /\ minted[d].lock = d /\ minted[d].ours
  /\ minted[d].amount = AmountOf[d] /\ minted[d].value = AmountOf[d]
  /\ minted[d].recipient = OwnerOf[d]

(* Until the chain is reorganised a lock whose receipt was read keeps its  *)
(* number; whatever happens, one read in a settled block does.             *)
ReasonInv ==
  /\ DOMAIN commit = Wallet /\ steady \subseteq Wallet
  /\ \A d \in Wallet : minted[d] # Unminted => OwnReason(d)
  /\ \A d \in steady :
       /\ stage[d] = "committed" => Numbered(d, commit[d])
       /\ minted[d] # Unminted => Numbered(d, minted[d].nonce)
  /\ \A t \in Locks : check[t] # NotRead /\ check[t].block <= check[t].height - MaxReorg
       => check[t].nonce = NumberAt(check[t].block)

(* A block's number depends on those before it.                            *)
LEMMA NumberKept ==
  ASSUME NEW i \in Nat, \A j \in 1..i : Kept(j)
  PROVE  NumberAt(i)' = NumberAt(i)
  <1>1. \A j \in 1..(i - 1) : j \in 1..i
    OBVIOUS
  <1>2. TakenBefore(i)' = TakenBefore(i)
    BY <1>1 DEF TakenBefore, Kept
  <1>3. QED
    BY <1>2 DEF NumberAt

(* A step of the chain: with a reorganisation nothing is steady any more.  *)
LEMMA ReasonChainStep ==
  ASSUME IInv, ReasonInv, ChainKept, UNCHANGED <<minted, stage, commit, check>>,
         steady' = {} \/ (steady' = steady /\ \A i \in Blocks(chain) : Kept(i))
  PROVE  ReasonInv'
  <1>1. Len(chain) \in Nat /\ Len(chain') \in Nat /\ MaxReorg \in Nat
    BY DepositAssumption DEF IInv, ChainKept, ChainInv
  <1>2. \A i \in Settled : NumberAt(i)' = NumberAt(i)
    <2> TAKE i \in Settled
    <2>1. i \in Nat /\ \A j \in 1..i : j \in Settled
      BY <1>1 DEF Settled, Height
    <2>2. QED
      BY <2>1, NumberKept DEF ChainKept
  <1>3. ASSUME NEW e \in steady', NEW d, NEW n, Numbered(d, n)
        PROVE  Numbered(d, n)'
    <2>1. PICK i \in Blocks(chain) : chain[i] = d /\ NumberAt(i) = n
      BY <1>3 DEF Numbered
    <2>2. i \in Nat /\ \A j \in 1..i : j \in Blocks(chain)
      BY <1>1 DEF Blocks
    <2>3. \A j \in Blocks(chain) : Kept(j)
      BY <1>3
    <2>4. NumberAt(i)' = NumberAt(i)
      BY <2>2, <2>3, NumberKept
    <2>5. QED
      BY <1>3, <2>1, <2>3, <2>4 DEF Numbered, Kept
  <1>4. ASSUME NEW t \in Locks, check[t] # NotRead, check[t].block <= check[t].height - MaxReorg
        PROVE  check[t].nonce = NumberAt(check[t].block)'
    <2>1. ReadHolds(t) /\ check[t].block \in Nat /\ check[t].height \in Nat
      BY <1>4 DEF IInv, Checks
    <2>2. check[t].block \in Settled
      BY <1>1, <1>4, <2>1 DEF ReadHolds, Settled, Height
    <2>3. NumberAt(check[t].block)' = NumberAt(check[t].block)
      BY <1>2, <2>2
    <2>4. QED
      BY <1>4, <2>3 DEF ReasonInv
  <1>5. QED
    BY <1>3, <1>4 DEF ReasonInv, OwnReason

(* A step of the wallet that reads no number and mints nothing.            *)
LEMMA ReasonQuietStep ==
  ASSUME ReasonInv, UNCHANGED <<source, minted, check, commit, steady>>,
         \A d \in Wallet : stage'[d] = "committed" => stage[d] = "committed"
  PROVE  ReasonInv'
  <1>1. /\ \A i : NumberAt(i)' = NumberAt(i)
        /\ \A d, n : Numbered(d, n)' <=> Numbered(d, n)
    BY DEF NumberAt, Numbered, TakenBefore
  <1>2. \A d : OwnReason(d)' <=> OwnReason(d)
    BY DEF OwnReason
  <1>3. QED
    BY <1>1, <1>2 DEF ReasonInv

(* What a lock's receipt says is where it is and what number it took.      *)
LEMMA InBlock ==
  ASSUME ChainInv, NEW l \in Locks, InChain(l)
  PROVE  /\ BlockOf(l) \in Blocks(chain) /\ chain[BlockOf(l)] = l
         /\ NonceOf(l) = NumberAt(BlockOf(l))
         /\ \A i \in Blocks(chain) : chain[i] = l => i = BlockOf(l)
  BY DepositAssumption DEF InChain, BlockOf, NonceOf, NumberAt, ChainInv

(* decodeCommit.                                                           *)
LEMMA ReasonDecode ==
  ASSUME IInv, ReasonInv, NEW d \in Wallet, Decode(d)
  PROVE  ReasonInv'
  <1>1. UNCHANGED <<source, minted, check>> /\ stage \in [Wallet -> Stages] /\ d \in Locks
    BY DEF Decode, receiver, IInv, MintInv, Locks
  <1>2. CASE d \in reverted
    <2>1. UNCHANGED <<commit, steady>> /\ stage' = [stage EXCEPT ![d] = "dropped"]
      BY <1>2 DEF Decode
    <2>2. QED
      BY <1>1, <2>1, ReasonQuietStep
  <1>3. CASE d \notin reverted
    <2>1. /\ stage' = [stage EXCEPT ![d] = "committed"] /\ stage[d] = "sent"
          /\ commit' = [commit EXCEPT ![d] = NonceOf(d)] /\ InChain(d)
          /\ steady' = steady \cup {d}
      BY <1>3 DEF Decode
    <2>2. Numbered(d, NonceOf(d))
      BY <1>1, <1>3, <2>1, InBlock DEF Numbered, IInv
    <2>3. /\ \A i : NumberAt(i)' = NumberAt(i)
          /\ \A e, n : Numbered(e, n)' <=> Numbered(e, n)
          /\ \A e : OwnReason(e)' <=> OwnReason(e)
      BY <1>1 DEF NumberAt, Numbered, TakenBefore, OwnReason
    <2>4. /\ DOMAIN commit' = Wallet /\ commit'[d] = NonceOf(d) /\ stage'[d] = "committed"
          /\ \A e \in Wallet : e # d => commit'[e] = commit[e] /\ stage'[e] = stage[e]
      BY <1>1, <2>1 DEF ReasonInv
    <2>5. minted[d] = Unminted
      BY <2>1 DEF IInv, MintInv
    <2>6. QED
      BY <1>1, <2>1, <2>2, <2>3, <2>4, <2>5 DEF ReasonInv
  <1>4. QED
    BY <1>2, <1>3

(* A genesis: the wallet's, of its committed lock, or another's.           *)
LEMMA ReasonMint ==
  ASSUME IInv, ReasonInv, NEW t \in Locks, NEW m, minted[t] = Unminted,
         minted' = [minted EXCEPT ![t] = m],
         UNCHANGED <<source, check, commit, steady>>,
         \A d \in Wallet : stage'[d] = "committed" => stage[d] = "committed",
         t \in Wallet => m = MintOf(t) /\ stage[t] = "committed"
  PROVE  ReasonInv'
  <1>1. /\ \A i : NumberAt(i)' = NumberAt(i)
        /\ \A d, n : Numbered(d, n)' <=> Numbered(d, n)
    BY DEF NumberAt, Numbered, TakenBefore
  <1>2. minted'[t] = m /\ \A u \in Locks : u # t => minted'[u] = minted[u]
    BY DEF IInv, MintInv
  <1>3. ASSUME NEW d \in Wallet, minted'[d] # Unminted
        PROVE  OwnReason(d)' /\ (d \in steady => Numbered(d, minted'[d].nonce))
    <2>1. d \in Locks
      BY DEF Locks
    <2>2. CASE d = t
      <3>1. minted'[d] = MintOf(d) /\ stage[d] = "committed"
        BY <1>2, <2>2
      <3>2. d \in steady => Numbered(d, commit[d])
        BY <3>1 DEF ReasonInv
      <3>3. QED
        BY <3>1, <3>2 DEF MintOf, OwnReason
    <2>3. CASE d # t
      BY <1>2, <1>3, <2>1, <2>3 DEF ReasonInv, OwnReason
    <2>4. QED
      BY <2>2, <2>3
  <1>4. QED
    BY <1>1, <1>3 DEF ReasonInv

(* Every step of the receiver.                                             *)
LEMMA ReasonReceiverStep ==
  ASSUME IInv, ReasonInv, NEW t \in Locks,
         RefuseReason(t) \/ ReadLock(t) \/ AwaitFinality(t) \/ Judge(t)
  PROVE  ReasonInv'
  <1> DEFINE l == minted[t].lock
             read == [block |-> BlockOf(l), nonce |-> NonceOf(l), height |-> Height]
  <1>1. UNCHANGED <<source, minted, stage, commit, steady>>
    BY DEF RefuseReason, ReadLock, AwaitFinality, Judge, ReceiverOnly, wallet
  <1>2. /\ \A i : NumberAt(i)' = NumberAt(i)
        /\ \A d, n : Numbered(d, n)' <=> Numbered(d, n)
        /\ \A d : OwnReason(d)' <=> OwnReason(d)
    BY <1>1 DEF NumberAt, Numbered, TakenBefore, OwnReason
  <1>3. CASE check' = [check EXCEPT ![t] = NotRead]
    <2>1. \A u \in Locks : check'[u] = NotRead \/ check'[u] = check[u]
      BY <1>3 DEF IInv
    <2>2. QED
      BY <1>1, <1>2, <2>1 DEF ReasonInv
  <1>4. CASE ReadLock(t) /\ check' = [check EXCEPT ![t] = read]
    <2>1. l \in Locks /\ InChain(l)
      BY <1>4 DEF ReadLock, InChain, Blocks, IInv, ChainInv
    <2>2. read.nonce = NumberAt(read.block)
      BY <2>1, InBlock DEF IInv
    <2>3. \A u \in Locks : check'[u] = IF u = t THEN read ELSE check[u]
      BY <1>4 DEF IInv
    <2> HIDE DEF read
    <2>4. QED
      BY <1>1, <1>2, <2>2, <2>3 DEF ReasonInv
  <1>5. QED
    BY <1>3, <1>4 DEF RefuseReason, ReadLock, AwaitFinality, Judge, Judged

LEMMA ReasonStep ==
  ASSUME IInv, SearchInv, ReasonInv, [Next]_vars
  PROVE  ReasonInv'
  <1>1. stage \in [Wallet -> Stages]
    BY DEF IInv, MintInv
  <1>2. ASSUME NEW l \in Locks \cup {Empty},
               NEW fails \in SUBSET ({l} \cap MayRevert), Mine(l, fails)
        PROVE  ReasonInv'
    <2>1. ChainKept /\ \A i \in Blocks(chain) : Kept(i)
      BY <1>2, MineKeeps DEF IInv
    <2>2. UNCHANGED <<minted, stage, commit, check, steady>>
      BY <1>2 DEF Mine, wallet, receiver
    <2>3. QED
      BY <2>1, <2>2, ReasonChainStep
  <1>3. ASSUME NEW k \in 1..MaxReorg, NEW fork \in [1..k -> Locks \cup {Empty}],
               NEW fails \in SUBSET (Range(fork) \cap MayRevert), Reorg(k, fork, fails)
        PROVE  ReasonInv'
    <2>1. ChainKept
      BY <1>3, ReorgKeeps DEF IInv
    <2>2. UNCHANGED <<minted, stage, commit, check>> /\ steady' = {}
      BY <1>3 DEF Reorg, wallet, receiver
    <2>3. QED
      BY <2>1, <2>2, ReasonChainStep
  <1>4. ASSUME NEW d \in Wallet, Prepare(d) \/ Sign(d) \/ Decline(d)
        PROVE  ReasonInv'
    BY <1>1, <1>4, ReasonQuietStep DEF Prepare, Sign, Decline, receiver
  <1>5. ASSUME NEW d \in Wallet, Decode(d)
        PROVE  ReasonInv'
    BY <1>5, ReasonDecode
  <1>6. ASSUME NEW d \in Wallet, Mint(d)
        PROVE  ReasonInv'
    <2>1. minted[d] = Unminted /\ d \in Locks
      BY <1>6 DEF Mint, IInv, MintInv, Locks
    <2>2. /\ minted' = [minted EXCEPT ![d] = MintOf(d)] /\ stage[d] = "committed"
          /\ stage' = [stage EXCEPT ![d] = "minted"]
          /\ UNCHANGED <<source, check, commit, steady>>
      BY <1>6 DEF Mint, receiver
    <2>3. \A e \in Wallet : stage'[e] = "committed" => stage[e] = "committed"
      BY <1>1, <2>2
    <2>4. QED
      BY <2>1, <2>2, <2>3, ReasonMint
  <1>7. ASSUME NEW o \in Others, NEW reason \in Reasons, MintOther(o, reason)
        PROVE  ReasonInv'
    <2>1. o \in Locks /\ o \notin Wallet
      BY DepositAssumption DEF Locks
    <2>2. /\ minted[o] = Unminted /\ minted' = [minted EXCEPT ![o] = reason]
          /\ UNCHANGED <<source, stage, check, commit, steady>>
      BY <1>7 DEF MintOther, wallet, receiver
    <2>3. QED
      BY <2>1, <2>2, ReasonMint
  <1>8. CASE Crash
    BY <1>1, <1>8, ReasonQuietStep DEF Crash, receiver
  <1>9. ASSUME NEW d \in Wallet,
               \/ AskVault(d) \/ ReadPending(d) \/ ReadLatest(d) \/ CountsRead(d)
               \/ Absent(d) \/ UsedNow(d) \/ ReadTip(d) \/ Scan(d)
        PROVE  ReasonInv'
    <2>1. UNCHANGED <<source, minted, check, commit, steady>>
      BY <1>9 DEF AskVault, ReadPending, ReadLatest, CountsRead, Absent, UsedNow, ReadTip, Scan,
                  Search, receiver
    <2>2. \A e \in Wallet : stage'[e] = "committed" => stage[e] = "committed"
      BY <1>1, <1>9 DEF AskVault, ReadPending, ReadLatest, CountsRead, Absent, UsedNow, ReadTip, Scan
    <2>3. QED
      BY <2>1, <2>2, ReasonQuietStep
  <1>10. ASSUME NEW t \in Locks, RefuseReason(t) \/ ReadLock(t) \/ AwaitFinality(t) \/ Judge(t)
         PROVE  ReasonInv'
    BY <1>10, ReasonReceiverStep
  <1>11. CASE UNCHANGED vars
    BY <1>11, ReasonQuietStep DEF vars, wallet, receiver
  <1>12. QED
    BY <1>2, <1>3, <1>4, <1>5, <1>6, <1>7, <1>8, <1>9, <1>10, <1>11 DEF Next

(* What the wallet's own token can be refused for.                         *)
Deserved(d) ==
  /\ d \notin steady
  /\ \/ d \in reverted
     \/ Final(d) /\ NonceOf(d) # minted[d].nonce

(* A lock that reverts took no number, so the one in the reason is from    *)
(* another branch.                                                         *)
LEMMA RefusedAtOnce ==
  ASSUME ReasonInv, NEW d \in Wallet, ReadLock(d), verdict[d] = "none",
         verdict'[d] = "refused"
  PROVE  Deserved(d)
  <1>1. minted[d] # Unminted /\ minted[d].lock = d
    BY DEF ReadLock, Unjudged, ReasonInv, OwnReason
  <1>2. d \in reverted
    BY <1>1 DEF ReadLock
  <1>3. d \notin steady
    BY <1>1, <1>2 DEF ReasonInv, Numbered
  <1>4. QED
    BY <1>2, <1>3 DEF Deserved

(* A judgement that finds a wallet's own token wrong has found its number  *)
(* wrong, on a block that stays.                                           *)
LEMMA RefusedFinally ==
  ASSUME IInv, ReasonInv, NEW d \in Wallet, Judge(d),
         ~ Matches(d, minted[d], check[d].nonce)
  PROVE  Deserved(d)
  <1>1. d \in Locks /\ check[d] # NotRead /\ Confirmed(check[d].block)
    BY DEF Judge, Locks
  <1>2. /\ ReadHolds(d) /\ ChainInv /\ Len(chain) \in Nat
        /\ check[d].block \in Nat /\ check[d].height \in Nat
    BY <1>1 DEF IInv, ChainInv, Checks
  <1>3. check[d].block <= check[d].height - MaxReorg
    BY <1>1, <1>2, DeepWhenRead
  <1>4. check[d].block \in Settled /\ check[d].block \in Blocks(chain)
    BY <1>2, <1>3, DepositAssumption DEF ReadHolds, Settled, Height, Blocks
  <1>5. minted[d] # Unminted /\ OwnReason(d) /\ chain[check[d].block] = d
    BY <1>2, <1>3 DEF ReadHolds, ReasonInv, OwnReason
  <1>6. minted[d].nonce # check[d].nonce
    BY <1>5 DEF Matches, OwnReason
  <1>7. InChain(d)
    BY <1>4, <1>5 DEF InChain
  <1>8. check[d].block = BlockOf(d) /\ check[d].nonce = NonceOf(d)
    BY <1>1, <1>2, <1>3, <1>4, <1>5, <1>7, InBlock DEF ReasonInv
  <1>9. Final(d)
    BY <1>2, <1>4, <1>7, <1>8, DepositAssumption DEF Final, Settled, Height
  <1>10. ASSUME d \in steady PROVE FALSE
    <2>1. Numbered(d, minted[d].nonce)
      BY <1>5, <1>10 DEF ReasonInv
    <2>2. NumberAt(BlockOf(d)) = minted[d].nonce
      BY <1>1, <1>2, <1>7, <2>1, InBlock DEF Numbered
    <2>3. QED
      BY <1>1, <1>2, <1>6, <1>7, <1>8, <2>2, InBlock
  <1>11. QED
    BY <1>6, <1>8, <1>9, <1>10 DEF Deserved

LEMMA RefusalStep ==
  ASSUME IInv, ReasonInv, [Next]_vars, NEW d \in Wallet,
         verdict[d] = "none", verdict'[d] = "refused"
  PROVE  Deserved(d)
  <1>1. d \in Locks /\ verdict \in [Locks -> {"none", "accepted", "refused"}]
    BY DEF Locks, IInv
  <1>2. PICK t \in Locks : RefuseReason(t) \/ ReadLock(t) \/ AwaitFinality(t) \/ Judge(t)
    <2>1. ~ UNCHANGED verdict
      OBVIOUS
    <2>2. QED
      BY <2>1
         DEF Next, vars, receiver, Mine, Reorg, Prepare, Sign, Decline, Decode, Mint, MintOther,
             Crash, AskVault, ReadPending, ReadLatest, CountsRead, Absent, UsedNow, ReadTip, Scan,
             Search
  <1>3. t = d
    BY <1>1, <1>2 DEF RefuseReason, ReadLock, AwaitFinality, Judge, Judged
  <1>4. ~ RefuseReason(d)
    BY <1>1, DepositAssumption DEF RefuseReason, Unjudged, ReasonInv, OwnReason
  <1>5. CASE ReadLock(d)
    BY <1>5, RefusedAtOnce
  <1>6. CASE AwaitFinality(d)
    BY <1>6 DEF AwaitFinality
  <1>7. CASE Judge(d)
    <2>1. ~ Matches(d, minted[d], check[d].nonce)
      BY <1>1, <1>7 DEF Judge, Judged
    <2>2. QED
      BY <1>7, <2>1, RefusedFinally
  <1>8. QED
    BY <1>2, <1>3, <1>4, <1>5, <1>6, <1>7

(* A wallet's own token is refused for good only when the chain was        *)
(* reorganised after the wallet read its lock's receipt, and on the branch *)
(* the receiver reads the lock reverted, or is final under another number: *)
(* a lock that is missing, too young or still moving is asked for again.   *)
THEOREM Refusal == Spec => RefusedForGood
  <1> DEFINE Deserves == \A d \in Wallet : verdict[d] = "none" /\ verdict'[d] = "refused" =>
                       /\ d \notin steady
                       /\ \/ d \in reverted
                          \/ Final(d) /\ NonceOf(d) # minted[d].nonce
  <1>1. Init => ReasonInv
    <2> SUFFICES ASSUME Init PROVE ReasonInv
      OBVIOUS
    <2>1. Wallet \subseteq Locks
      BY DEF Locks
    <2>2. QED
      BY <2>1 DEF Init, ReasonInv
  <1>2. IInv /\ SearchInv /\ ReasonInv /\ [Next]_vars => ReasonInv'
    BY ReasonStep
  <1>3. IInv /\ ReasonInv /\ [Next]_vars => Deserves
    BY RefusalStep DEF Deserved
  <1>4. QED
    BY <1>1, <1>2, <1>3, Invariance, PTL DEF Spec, RefusedForGood

(***************************************************************************)
(* Types                                                                   *)
(***************************************************************************)
RestInv ==
  /\ sent \in Seq(Wallet) /\ prompt \subseteq Wallet
  /\ calm \subseteq Wallet /\ steady \subseteq Wallet
  /\ commit \in [Wallet -> Nat] /\ look \in [Wallet -> Looks]
  /\ minted \in [Locks -> Mints \cup {Unminted}]
  /\ reorgs \in Nat /\ crashes \in Nat

(* What a node counts is a number.                                         *)
LEMMA CountsAreNat ==
  ASSUME ChainInv
  PROVE  /\ MinedUpTo(chain, Height) \in Nat
         /\ \A d \in Wallet : InChain(d) => NonceOf(d) \in Nat
  <1>1. Len(chain) \in Nat
    BY DEF ChainInv
  <1>2. IsFiniteSet(1..Height) /\ {i \in 1..Height : chain[i] \in Wallet} \subseteq 1..Height
    BY <1>1, FS_Interval DEF Height
  <1>3. MinedUpTo(chain, Height) \in Nat
    BY <1>2, FS_Subset, FS_CardinalityType DEF MinedUpTo
  <1>4. ASSUME NEW d \in Wallet, InChain(d) PROVE NonceOf(d) \in Nat
    <2>1. BlockOf(d) \in 1..Len(chain)
      BY <1>4 DEF InChain, BlockOf, Blocks
    <2>2. IsFiniteSet(1..(BlockOf(d) - 1))
      BY <1>1, <2>1, FS_Interval
    <2>3. TakenBefore(BlockOf(d)) \subseteq 1..(BlockOf(d) - 1)
      BY DEF TakenBefore
    <2>4. QED
      BY <2>2, <2>3, FS_Subset, FS_CardinalityType DEF NonceOf
  <1>5. QED
    BY <1>3, <1>4

LEMMA RestDeposit ==
  ASSUME IInv, RestInv, NEW d \in Wallet,
         Prepare(d) \/ Sign(d) \/ Decline(d) \/ Decode(d) \/ Mint(d)
  PROVE  RestInv'
  <1>1. CASE Prepare(d) \/ Decline(d)
    BY <1>1 DEF RestInv, Prepare, Decline
  <1>2. CASE Sign(d)
    <2>1. sent' \in Seq(Wallet)
      BY <1>2 DEF Sign, RestInv
    <2>2. QED
      BY <1>2, <2>1 DEF RestInv, Sign
  <1>3. CASE Decode(d)
    BY <1>3, CountsAreNat DEF RestInv, Decode, IInv
  <1>4. CASE Mint(d)
    <2>1. d \in Locks /\ commit[d] \in Nat /\ AmountOf[d] \in Nat
      BY DepositAssumption DEF RestInv, Locks
    <2>2. MintOf(d) \in Mints
      BY <2>1 DEF MintOf, Mints
    <2>3. QED
      BY <1>4, <2>1, <2>2 DEF RestInv, Mint
  <1>5. QED
    BY <1>1, <1>2, <1>3, <1>4

LEMMA RestSearch ==
  ASSUME IInv, RestInv, NEW d \in Wallet,
         \/ AskVault(d) \/ ReadPending(d) \/ ReadLatest(d) \/ CountsRead(d)
         \/ Absent(d) \/ UsedNow(d) \/ ReadTip(d) \/ Scan(d)
  PROVE  RestInv'
  <1>1. Resting \in Looks /\ look[d] \in Looks
    BY DEF RestInv, Resting, Looks, Unread
  <1>2. Len(sent) \in Nat /\ Height \in Nat
    BY DEF RestInv, IInv, ChainInv, Height
  <1>3. SUFFICES look' \in [Wallet -> Looks]
    BY DEF RestInv, AskVault, ReadPending, ReadLatest, CountsRead, Absent, UsedNow, ReadTip,
           Scan, Search
  <1>4. ASSUME NEW l \in Looks, Search(d, l) PROVE look' \in [Wallet -> Looks]
    BY <1>4 DEF Search, RestInv
  <1>5. CASE AskVault(d)
    BY <1>1, <1>4, <1>5 DEF AskVault, Looks
  <1>6. CASE ReadPending(d)
    BY <1>1, <1>2, <1>4, <1>6 DEF ReadPending, Looks
  <1>7. CASE ReadLatest(d)
    BY <1>1, <1>4, <1>7, CountsAreNat DEF ReadLatest, Looks, IInv
  <1>8. CASE CountsRead(d)
    BY <1>1, <1>4, <1>8 DEF CountsRead, Looks
  <1>9. CASE Absent(d) \/ Scan(d)
    BY <1>1, <1>4, <1>9 DEF Absent, Scan
  <1>10. CASE UsedNow(d)
    BY <1>1, <1>4, <1>10 DEF UsedNow, Looks
  <1>11. CASE ReadTip(d)
    BY <1>1, <1>2, <1>4, <1>11 DEF ReadTip, Looks
  <1>12. QED
    BY <1>5, <1>6, <1>7, <1>8, <1>9, <1>10, <1>11

LEMMA RestStep ==
  ASSUME IInv, RestInv, [Next]_vars
  PROVE  RestInv'
  <1>1. ASSUME NEW d \in Wallet,
               Prepare(d) \/ Sign(d) \/ Decline(d) \/ Decode(d) \/ Mint(d)
        PROVE  RestInv'
    BY <1>1, RestDeposit
  <1>2. ASSUME NEW d \in Wallet,
               \/ AskVault(d) \/ ReadPending(d) \/ ReadLatest(d) \/ CountsRead(d)
               \/ Absent(d) \/ UsedNow(d) \/ ReadTip(d) \/ Scan(d)
        PROVE  RestInv'
    BY <1>2, RestSearch
  <1>3. ASSUME NEW o \in Others, NEW reason \in Reasons, MintOther(o, reason)
        PROVE  RestInv'
    BY <1>3, DepositAssumption DEF RestInv, MintOther, wallet, Locks
  <1>4. CASE Crash
    <2>1. Resting \in Looks
      BY DEF Resting, Looks, Unread
    <2>2. QED
      BY <1>4, <2>1 DEF RestInv, Crash
  <1>5. ASSUME NEW l \in Locks \cup {Empty},
               NEW fails \in SUBSET ({l} \cap MayRevert), Mine(l, fails) PROVE RestInv'
    BY <1>5 DEF RestInv, Mine, wallet
  <1>6. ASSUME NEW k \in 1..MaxReorg, NEW fork \in [1..k -> Locks \cup {Empty}],
               NEW fails \in SUBSET (Range(fork) \cap MayRevert), Reorg(k, fork, fails)
        PROVE  RestInv'
    <2>1. UNCHANGED <<wallet, minted>> /\ calm' = {} /\ steady' = {} /\ reorgs' = reorgs + 1
      BY <1>6 DEF Reorg
    <2>2. QED
      BY <2>1 DEF RestInv, wallet
  <1>7. ASSUME NEW t \in Locks, RefuseReason(t) \/ ReadLock(t) \/ AwaitFinality(t) \/ Judge(t)
        PROVE  RestInv'
    BY <1>7 DEF RestInv, RefuseReason, ReadLock, AwaitFinality, Judge, ReceiverOnly, wallet
  <1>8. CASE UNCHANGED vars
    BY <1>8 DEF RestInv, vars, wallet
  <1>9. QED
    BY <1>1, <1>2, <1>3, <1>4, <1>5, <1>6, <1>7, <1>8 DEF Next

(* Type correctness of the wallet, the chain and the receivers.            *)
THEOREM TypeCorrect == Spec => []TypeOK
  <1>1. Init => RestInv
    <2> SUFFICES ASSUME Init PROVE RestInv
      OBVIOUS
    <2>1. Resting \in Looks
      BY DEF Resting, Looks, Unread
    <2>2. QED
      BY <2>1 DEF Init, RestInv
  <1>2. IInv /\ SearchInv /\ RestInv /\ [Next]_vars => RestInv'
    BY RestStep
  <1>3. IInv /\ RestInv => TypeOK
    BY DEF IInv, ChainInv, MintInv, RestInv, TypeOK
  <1>4. QED
    BY <1>1, <1>2, <1>3, Invariance, PTL DEF Spec

(***************************************************************************)
(* What a search may conclude from two counts                              *)
(***************************************************************************)
(* Every nonempty set of naturals has a least element.                     *)
LEMMA Least ==
  ASSUME NEW T \in SUBSET Nat, T # {}
  PROVE  \E n \in T : \A m \in T : n <= m
  <1> DEFINE Less == OpToRel(<, Nat)
  <1>1. IsWellFoundedOn(Less, Nat)
    BY NatLessThanWellFounded
  <1>2. \A m, n \in Nat : m < n => <<m, n>> \in Less
    BY DEF OpToRel
  <1> HIDE DEF Less
  <1>3. PICK n \in T : \A m \in T : ~ (<<m, n>> \in Less)
    BY <1>1, WFMin
  <1>4. \A m \in T : n \in Nat /\ m \in Nat
    OBVIOUS
  <1>5. \A m \in T : ~ (m < n)
    BY <1>2, <1>3, <1>4
  <1>6. QED
    BY <1>4, <1>5

(* The count of the account's locks goes up by one at each of its blocks.  *)
LEMMA CountStep ==
  ASSUME NEW c, NEW i \in Nat
  PROVE  /\ MinedUpTo(c, 0) = 0 /\ MinedUpTo(c, i) \in Nat
         /\ MinedUpTo(c, i + 1) = MinedUpTo(c, i) + (IF c[i + 1] \in Wallet THEN 1 ELSE 0)
  <1> DEFINE M(k) == {j \in 1..k : c[j] \in Wallet}
  <1>1. IsFiniteSet(1..i) /\ M(i) \subseteq 1..i /\ i + 1 \notin M(i)
    BY FS_Interval
  <1>2. IsFiniteSet(M(i)) /\ Cardinality(M(i)) \in Nat
    BY <1>1, FS_Subset, FS_CardinalityType
  <1>3. M(0) = {} /\ Cardinality({}) = 0
    BY FS_EmptySet
  <1>4. M(i + 1) = IF c[i + 1] \in Wallet THEN M(i) \cup {i + 1} ELSE M(i)
    OBVIOUS
  <1> HIDE DEF M
  <1>5. Cardinality(M(i + 1)) = Cardinality(M(i)) + (IF c[i + 1] \in Wallet THEN 1 ELSE 0)
    <2>1. CASE c[i + 1] \in Wallet
      <3>1. Cardinality(M(i) \cup {i + 1}) = Cardinality(M(i)) + 1
        BY <1>1, <1>2, FS_AddElement
      <3>2. QED
        BY <1>4, <2>1, <3>1
    <2>2. CASE c[i + 1] \notin Wallet
      BY <1>2, <1>4, <2>2
    <2>3. QED
      BY <2>1, <2>2
  <1>6. QED
    BY <1>2, <1>3, <1>5 DEF M, MinedUpTo

(* So among the blocks there is one for each number up to the count: the   *)
(* chain holds the first so many locks the account sent.                   *)
LEMMA MinedInOrder ==
  ASSUME ChainInv, InNonceOrder(chain), NEW m \in 1..MinedUpTo(chain, Height)
  PROVE  m <= Len(sent) /\ InChain(sent[m])
  <1> DEFINE Enough == {i \in 0..Height : m <= MinedUpTo(chain, i)}
  <1>1. Height \in Nat
    BY DEF ChainInv, Height
  <1>2. \A i \in 0..Height : MinedUpTo(chain, i) \in Nat
    BY <1>1, CountStep
  <1>3. PICK i \in Enough : \A j \in Enough : i <= j
    <2>1. Height \in Enough /\ Enough \in SUBSET Nat
      BY <1>1
    <2> HIDE DEF Enough
    <2>2. QED
      BY <2>1, Least
  <1>4. MinedUpTo(chain, 0) = 0 /\ m \in Nat /\ m > 0
    BY <1>1, <1>2, CountStep
  <1>5. i # 0 /\ i - 1 \in 0..Height /\ i - 1 \notin Enough
    BY <1>1, <1>3, <1>4
  <1>6. MinedUpTo(chain, i - 1) < m /\ m <= MinedUpTo(chain, i)
    BY <1>2, <1>3, <1>4, <1>5
  <1>7. MinedUpTo(chain, i) = MinedUpTo(chain, i - 1) + (IF chain[i] \in Wallet THEN 1 ELSE 0)
    BY <1>5, CountStep
  <1>8. chain[i] \in Wallet /\ MinedUpTo(chain, i) = m
    BY <1>2, <1>4, <1>5, <1>6, <1>7
  <1>9. i \in Blocks(chain)
    BY <1>1, <1>3, <1>5 DEF Blocks, Height
  <1>10. QED
    BY <1>8, <1>9 DEF InNonceOrder, InChain

Sent(d) == \E i \in 1..Len(sent) : sent[i] = d
(* A search that can conclude something: the deposit's signature was given *)
(* or refused before it began, so its lock is counted as pending if it was *)
(* ever sent, and what was mined when the blocks were counted still is.    *)
Concludes(d) ==
  /\ d \notin prompt
  /\ look[d].pending # Unread =>
       /\ look[d].pending <= Len(sent)
       /\ Sent(d) => \E i \in 1..look[d].pending : sent[i] = d
  /\ look[d].latest # Unread => look[d].latest <= MinedUpTo(chain, Height)
  /\ look[d].at = "again" =>
       look[d].pending # Unread /\ look[d].latest # Unread /\ look[d].pending <= look[d].latest
Counting(d) == d \in calm /\ look[d].at \in {"counts", "again"}
AbsentInv ==
  /\ InNonceOrder(chain)
  /\ \A d \in Wallet : look[d].at = "rest" => look[d] = Resting
  /\ \A d \in Wallet : Counting(d) => Concludes(d)

(* The chain moves on: no count goes down without a reorganisation.        *)
LEMMA AbsentChain ==
  ASSUME IInv, RestInv, AbsentInv, NEW l \in Locks \cup {Empty},
               NEW fails \in SUBSET ({l} \cap MayRevert), Mine(l, fails)
  PROVE  AbsentInv'
  <1>1. InNonceOrder(chain)'
    BY DEF Mine, IsChain, InNonceOrder, wallet, MinedUpTo
  <1>2. /\ Height \in Nat /\ Height' = Height + 1
        /\ \A j \in 1..Height : chain'[j] = chain[j]
    BY DEF IInv, ChainInv, Mine, Height
  <1>3. MinedUpTo(chain', Height) = MinedUpTo(chain, Height)
    <2>1. {j \in 1..Height : chain'[j] \in Wallet} = {j \in 1..Height : chain[j] \in Wallet}
      BY <1>2
    <2>2. QED
      BY <2>1 DEF MinedUpTo
  <1>4. MinedUpTo(chain, Height) \in Nat /\ MinedUpTo(chain, Height) <= MinedUpTo(chain, Height)'
    BY <1>2, <1>3, CountStep
  <1>5. UNCHANGED <<sent, prompt, look, calm>>
    BY DEF Mine, wallet
  <1>6. ASSUME NEW d \in Wallet, Counting(d)' PROVE Concludes(d)'
    <2>1. Concludes(d) /\ look[d].latest \in Nat \cup {Unread}
      BY <1>5, <1>6 DEF AbsentInv, Counting, RestInv, Looks
    <2>2. look[d].latest # Unread => look[d].latest <= MinedUpTo(chain, Height)'
      <3>1. MinedUpTo(chain, Height)' \in Nat
        BY <1>2, CountStep
      <3>2. QED
        BY ONLY <1>4, <2>1, <3>1 DEF Concludes, Unread
    <2>3. QED
      BY <1>5, <2>1, <2>2 DEF Concludes, Sent
  <1>7. QED
    BY <1>1, <1>5, <1>6 DEF AbsentInv

(* A lost deposit asks for no signature, so one that is not outstanding    *)
(* now will not be given.                                                  *)
LEMMA AbsentDeposit ==
  ASSUME IInv, SearchInv, RestInv, AbsentInv, NEW e \in Wallet,
         Prepare(e) \/ Sign(e) \/ Decline(e) \/ Decode(e) \/ Mint(e)
  PROVE  AbsentInv'
  <1>1. UNCHANGED <<source, look, calm>>
    BY DEF Prepare, Sign, Decline, Decode, Mint
  <1>2. \/ UNCHANGED sent
        \/ e \in prompt /\ sent' = Append(sent, e)
    BY DEF Prepare, Sign, Decline, Decode, Mint
  <1>3. prompt' \subseteq prompt \/ (stage[e] = "new" /\ prompt' = prompt \cup {e})
    BY DEF Prepare, Sign, Decline, Decode, Mint
  <1>4. /\ sent \in Seq(Wallet) /\ Len(sent) \in Nat /\ Len(sent') \in Nat /\ Len(sent) <= Len(sent')
        /\ \A i \in 1..Len(sent) : sent'[i] = sent[i]
    BY <1>2 DEF RestInv
  <1>5. ASSUME NEW i \in Blocks(chain), chain[i] \in Wallet
        PROVE  MinedUpTo(chain, i) <= Len(sent') /\ sent'[MinedUpTo(chain, i)] = chain[i]
    <2>1. MinedUpTo(chain, i) \in Nat /\ MinedUpTo(chain, i) # 0
      <3>1. i - 1 \in Nat /\ (i - 1) + 1 = i
        BY DEF Blocks, IInv, ChainInv
      <3>2. MinedUpTo(chain, i - 1) \in Nat /\ MinedUpTo(chain, i) = MinedUpTo(chain, i - 1) + 1
        BY <1>5, <3>1, CountStep
      <3>3. QED
        BY <3>2
    <2>2. MinedUpTo(chain, i) <= Len(sent) /\ sent[MinedUpTo(chain, i)] = chain[i]
      BY <1>5 DEF AbsentInv, InNonceOrder
    <2>3. QED
      BY <1>4, <2>1, <2>2
  <1>6. InNonceOrder(chain)'
    BY <1>1, <1>5 DEF InNonceOrder, MinedUpTo, Blocks
  <1>7. ASSUME NEW d \in Wallet, Counting(d)' PROVE Concludes(d)'
    <2>1. Counting(d) /\ Concludes(d) /\ stage[d] = "lost"
      BY <1>1, <1>7 DEF AbsentInv, Counting, SearchInv
    <2>2. look[d].pending \in Nat \cup {Unread}
      BY DEF RestInv, Looks
    <2>3. d \notin prompt'
      BY <1>3, <2>1 DEF Concludes
    <2>4. Sent(d)' => Sent(d)
      BY <1>2, <1>4, <2>1 DEF Sent, Concludes
    <2>5. ASSUME look[d].pending # Unread, Sent(d)' PROVE \E i \in 1..look[d].pending : sent'[i] = d
      BY <1>4, <2>1, <2>2, <2>4, <2>5 DEF Concludes
    <2>6. look[d].pending # Unread => look[d].pending <= Len(sent')
      BY <1>4, <2>1, <2>2 DEF Concludes
    <2>7. MinedUpTo(chain, Height)' = MinedUpTo(chain, Height)
      BY <1>1 DEF Height
    <2>8. QED
      BY <1>1, <2>1, <2>3, <2>5, <2>6, <2>7 DEF Concludes
  <1>8. QED
    BY <1>1, <1>6, <1>7 DEF AbsentInv

LEMMA AbsentSearch ==
  ASSUME IInv, SearchInv, RestInv, AbsentInv, NEW e \in Wallet,
         \/ AskVault(e) \/ ReadPending(e) \/ ReadLatest(e) \/ CountsRead(e)
         \/ Absent(e) \/ UsedNow(e) \/ ReadTip(e) \/ Scan(e)
  PROVE  AbsentInv'
  <1>1. UNCHANGED <<source, sent, prompt>>
    BY DEF AskVault, ReadPending, ReadLatest, CountsRead, Absent, UsedNow, ReadTip, Scan, Search
  <1>2. /\ InNonceOrder(chain)' /\ MinedUpTo(chain, Height)' = MinedUpTo(chain, Height)
        /\ \A d \in Wallet : Sent(d)' <=> Sent(d)
    BY <1>1 DEF AbsentInv, InNonceOrder, Blocks, MinedUpTo, Height, Sent
  <1>3. \A d \in Wallet \ {e} : look'[d] = look[d]
    BY DEF AskVault, ReadPending, ReadLatest, CountsRead, Absent, UsedNow, ReadTip, Scan, Search,
           RestInv
  <1>4. Len(sent) \in Nat /\ MinedUpTo(chain, Height) \in Nat
    BY CountStep DEF RestInv, IInv, ChainInv, Height
  <1>5. look \in [Wallet -> Looks]
    BY DEF RestInv
  <1>6. SUFFICES /\ look'[e].at = "rest" => look'[e] = Resting
                 /\ \A d \in Wallet \ {e} : Counting(d)' => Counting(d)
                 /\ Counting(e)' => Concludes(e)'
    <2>1. ASSUME NEW d \in Wallet \ {e}, Counting(d)' PROVE Concludes(d)'
      <3>1. Counting(d) /\ Concludes(d)
        BY <1>6, <2>1 DEF AbsentInv
      <3>2. QED
        BY <1>1, <1>2, <1>3, <3>1 DEF Concludes
    <2>2. QED
      BY <1>2, <1>3, <1>6, <2>1 DEF AbsentInv
  <1>7. CASE AskVault(e)
    <2>1. /\ \A d \in Wallet : look[d].at = "rest"
          /\ look[e] = Resting
          /\ look'[e] = [Resting EXCEPT !.at = IF TokenIdUsed(e) THEN "tip" ELSE "counts"]
          /\ calm' = {e} \ prompt
      BY <1>5, <1>7 DEF AskVault, At, Search, AbsentInv
    <2>2. look'[e].at # "rest" /\ look'[e].at # "again"
      BY <2>1 DEF Resting
    <2>3. Counting(e)' => Concludes(e)'
      BY <1>1, <2>1, <2>2 DEF Counting, Concludes, Resting
    <2>4. QED
      BY <1>3, <2>1, <2>2, <2>3 DEF Counting
  <1>8. CASE ReadPending(e)
    <2>1. /\ look[e].at = "counts" /\ UNCHANGED calm
          /\ look'[e] = [look[e] EXCEPT !.pending = Len(sent)]
      BY <1>5, <1>8 DEF ReadPending, At, Search
    <2>2. /\ look'[e].at = "counts" /\ look'[e].pending = Len(sent)
          /\ look'[e].latest = look[e].latest
      BY <1>5, <2>1 DEF Looks
    <2>3. Counting(e)' => Concludes(e)'
      BY <1>1, <1>2, <1>4, <2>1, <2>2 DEF Counting, Concludes, AbsentInv, Sent
    <2>4. QED
      BY <1>3, <2>1, <2>2, <2>3 DEF Counting
  <1>9. CASE ReadLatest(e)
    <2>1. /\ look[e].at = "counts" /\ UNCHANGED calm
          /\ look'[e] = [look[e] EXCEPT !.latest = MinedUpTo(chain, Height)]
      BY <1>5, <1>9 DEF ReadLatest, At, Search
    <2>2. /\ look'[e].at = "counts" /\ look'[e].latest = MinedUpTo(chain, Height)
          /\ look'[e].pending = look[e].pending
      BY <1>5, <2>1 DEF Looks
    <2>3. Counting(e)' => Concludes(e)'
      BY <1>1, <1>2, <1>4, <2>1, <2>2 DEF Counting, Concludes, AbsentInv
    <2>4. QED
      BY <1>3, <2>1, <2>2, <2>3 DEF Counting
  <1>10. CASE CountsRead(e)
    <2>1. /\ look[e].at = "counts" /\ calm' \subseteq calm
          /\ look[e].pending # Unread /\ look[e].latest # Unread
          /\ look'[e] = IF look[e].pending > look[e].latest THEN Resting
                                                            ELSE [look[e] EXCEPT !.at = "again"]
      BY <1>5, <1>10 DEF CountsRead, At, Search
    <2>2. look[e].pending \in Nat /\ look[e].latest \in Nat
      BY <1>5, <2>1 DEF Looks
    <2>3. CASE look[e].pending > look[e].latest
      BY <1>3, <2>1, <2>3 DEF Counting, Resting
    <2>4. CASE ~(look[e].pending > look[e].latest)
      <3>1. /\ look'[e].at = "again" /\ look'[e].pending = look[e].pending
            /\ look'[e].latest = look[e].latest /\ look[e].pending <= look[e].latest
        BY <1>5, <2>1, <2>2, <2>4 DEF Looks
      <3>2. Counting(e)' => Concludes(e)'
        BY <1>1, <1>2, <2>1, <3>1 DEF Counting, Concludes, AbsentInv
      <3>3. QED
        BY <1>3, <2>1, <3>1, <3>2 DEF Counting
    <2>5. QED
      BY <2>3, <2>4
  <1>11. CASE Absent(e) \/ Scan(e)
    <2>1. look'[e] = Resting /\ calm' = {}
      BY <1>5, <1>11 DEF Absent, Scan, Search
    <2>2. QED
      BY <1>3, <2>1 DEF Counting, Resting
  <1>12. CASE UsedNow(e) \/ ReadTip(e)
    <2>1. look'[e].at \in {"tip", "logs"} /\ UNCHANGED calm
      BY <1>5, <1>12 DEF UsedNow, ReadTip, Search, Looks
    <2>2. QED
      BY <1>3, <2>1 DEF Counting
  <1>13. QED
    BY <1>7, <1>8, <1>9, <1>10, <1>11, <1>12

LEMMA AbsentStep ==
  ASSUME IInv, SearchInv, RestInv, AbsentInv, [Next]_vars
  PROVE  AbsentInv'
  <1>1. ASSUME NEW l \in Locks \cup {Empty},
               NEW fails \in SUBSET ({l} \cap MayRevert), Mine(l, fails) PROVE AbsentInv'
    BY <1>1, AbsentChain
  <1>2. ASSUME NEW k \in 1..MaxReorg, NEW fork \in [1..k -> Locks \cup {Empty}],
               NEW fails \in SUBSET (Range(fork) \cap MayRevert), Reorg(k, fork, fails)
        PROVE  AbsentInv'
    <2>1. UNCHANGED wallet /\ calm' = {} /\ InNonceOrder(chain')
      BY <1>2 DEF Reorg, IsChain
    <2>2. InNonceOrder(chain)'
      BY <2>1 DEF InNonceOrder, wallet
    <2>3. QED
      BY <2>1, <2>2 DEF AbsentInv, Counting, wallet
  <1>3. ASSUME NEW d \in Wallet,
               Prepare(d) \/ Sign(d) \/ Decline(d) \/ Decode(d) \/ Mint(d)
        PROVE  AbsentInv'
    BY <1>3, AbsentDeposit
  <1>4. ASSUME NEW d \in Wallet,
               \/ AskVault(d) \/ ReadPending(d) \/ ReadLatest(d) \/ CountsRead(d)
               \/ Absent(d) \/ UsedNow(d) \/ ReadTip(d) \/ Scan(d)
        PROVE  AbsentInv'
    BY <1>4, AbsentSearch
  <1>5. CASE Crash
    <2>1. UNCHANGED <<source, sent>> /\ \A d \in Wallet : look'[d] = Resting
      BY <1>5 DEF Crash
    <2>2. InNonceOrder(chain)'
      BY <2>1 DEF AbsentInv, InNonceOrder, Blocks, MinedUpTo
    <2>3. QED
      BY <2>1, <2>2 DEF AbsentInv, Counting, Resting
  <1>6. ASSUME \/ \E o \in Others, reason \in Reasons : MintOther(o, reason)
               \/ \E t \in Locks : RefuseReason(t) \/ ReadLock(t) \/ AwaitFinality(t) \/ Judge(t)
               \/ UNCHANGED vars
        PROVE  AbsentInv'
    <2>1. UNCHANGED <<source, sent, prompt, look, calm>>
      BY <1>6 DEF MintOther, RefuseReason, ReadLock, AwaitFinality, Judge, ReceiverOnly, wallet, vars
    <2>2. QED
      BY <2>1 DEF AbsentInv, InNonceOrder, Blocks, MinedUpTo, Counting, Concludes, Sent, Height
  <1>7. QED
    BY <1>1, <1>2, <1>3, <1>4, <1>5, <1>6 DEF Next

(* A search calls a lost deposit absent only if its lock took nothing and  *)
(* never will: it reverted, or it was never sent, unless the signature was *)
(* outstanding when the search began or the chain was reorganised since.   *)
THEOREM Absence == Spec => AbsentIsAbsent
  <1> DEFINE Gone == \A d \in calm : stage[d] = "lost" /\ stage'[d] = "dropped" =>
                       d \in reverted \/ \A i \in 1..Len(sent) : sent[i] # d
  <1>1. Init => RestInv /\ AbsentInv
    <2> SUFFICES ASSUME Init PROVE RestInv /\ AbsentInv
      OBVIOUS
    <2>1. Resting \in Looks /\ Len(<<>>) = 0
      BY DEF Resting, Looks, Unread
    <2>2. RestInv
      BY <2>1 DEF Init, RestInv
    <2>3. QED
      BY <2>1, <2>2 DEF Init, AbsentInv, InNonceOrder, Blocks, Counting, Resting
  <1>2. IInv /\ SearchInv /\ RestInv /\ AbsentInv /\ [Next]_vars => RestInv' /\ AbsentInv'
    BY RestStep, AbsentStep
  <1>3. IInv /\ SearchInv /\ RestInv /\ AbsentInv /\ [Next]_vars => Gone
    <2> SUFFICES ASSUME IInv, SearchInv, RestInv, AbsentInv, [Next]_vars,
                        NEW d \in calm, stage[d] = "lost", stage'[d] = "dropped",
                        d \notin reverted
                 PROVE  \A i \in 1..Len(sent) : sent[i] # d
      OBVIOUS
    <2>1. d \in Wallet /\ stage \in [Wallet -> Stages]
      BY DEF RestInv, SearchInv
    <2>2. PICK e \in Wallet : Absent(e)
      <3>1. ~ UNCHANGED stage
        BY <2>1
      <3>2. CASE Crash
        BY <2>1, <3>2 DEF Crash
      <3>3. ASSUME NEW e \in Wallet, Prepare(e) \/ Sign(e) \/ Decline(e) \/ Decode(e) \/ Mint(e)
            PROVE  FALSE
        BY <2>1, <3>3 DEF Prepare, Sign, Decline, Decode, Mint
      <3>4. ASSUME NEW e \in Wallet, Scan(e) PROVE FALSE
        BY <2>1, <3>4 DEF Scan
      <3>5. QED
        BY <3>1, <3>2, <3>3, <3>4
           DEF Next, vars, wallet, Mine, Reorg, MintOther, AskVault, ReadPending, ReadLatest,
               CountsRead, UsedNow, ReadTip, RefuseReason, ReadLock, AwaitFinality, Judge,
               ReceiverOnly
    <2>3. e = d
      BY <2>1, <2>2 DEF Absent
    <2>4. Counting(d) /\ look[d].at = "again" /\ ~ TokenIdUsed(d)
      BY <2>2, <2>3 DEF Absent, At, StillUnused, Counting
    <2>5. Concludes(d) /\ ~ InChain(d)
      BY <2>1, <2>4 DEF AbsentInv, TokenIdUsed
    <2>6. /\ look[d].pending \in Nat /\ look[d].latest \in Nat
          /\ look[d].pending <= look[d].latest /\ look[d].latest <= MinedUpTo(chain, Height)
      BY <2>1, <2>4, <2>5 DEF Concludes, RestInv, Looks
    <2>7. MinedUpTo(chain, Height) \in Nat
      BY CountStep DEF IInv, ChainInv, Height
    <2>8. ASSUME Sent(d) PROVE FALSE
      <3>1. PICK i \in 1..look[d].pending : sent[i] = d
        <4>1. look[d].pending # Unread
          BY <2>6 DEF Unread
        <4>2. QED
          BY <2>5, <2>8, <4>1 DEF Concludes
      <3>2. i \in 1..MinedUpTo(chain, Height)
        BY <2>6, <2>7
      <3>3. InChain(sent[i])
        BY <3>2, MinedInOrder DEF IInv, AbsentInv
      <3>4. QED
        BY <2>5, <3>1, <3>3
    <2>9. QED
      BY <2>8 DEF Sent
  <1>4. QED
    BY <1>1, <1>2, <1>3, Invariance, PTL DEF Spec, AbsentIsAbsent
==============================================================================
