------------------------------- MODULE Relayer --------------------------------
(***************************************************************************)
(* The relayer's commands against a chain that moves under them:           *)
(* relayer-eth.js and relayer.js, as the return service runs them, and     *)
(* what the service makes of their exit (submitter.rs, sequencer.rs).      *)
(*                                                                         *)
(* A command is a sequence of requests.  Between two of them blocks are    *)
(* mined and the last K - 1 may be replaced, and each may be answered by   *)
(* another replica of the node, up to MaxLag blocks behind.  `head` is the *)
(* height the command computed from the first, and is stale after it.      *)
(*                                                                         *)
(* One command runs in a behaviour; what it answered stays, to be compared *)
(* with what becomes of the chain.                                         *)
(***************************************************************************)
EXTENDS Integers, Sequences, SequencesExt, FiniteSets, FiniteSetsExt

CONSTANTS
  Settlements, \* transactions that call fulfillBatch
  Mine,        \* the one the service's settle command broadcasts
  LeavesOf,    \* the nullifiers a settlement releases
  RootOf,      \* the nullifiers spent in the root it was proven on
  Lock,        \* the transaction of a deposit
  Flavours,    \* "ethereum", "tron": which script runs
  K,           \* confirmations; a reorganisation is less deep
  LOG_WINDOW,  \* blocks read by one request
  MaxLag,      \* how far a replica of the node may be behind
  MaxHeight,   \* bound: blocks
  MaxReorgs    \* bound: reorganisations

Ethereum == "ethereum"
Tron == "tron"

ASSUME RelayerAssumption ==
  /\ Mine \in Settlements /\ Lock \notin Settlements
  /\ \A t \in Settlements : LeavesOf[t] # {} /\ LeavesOf[t] \cap RootOf[t] = {}
  /\ Flavours \subseteq {Ethereum, Tron}
  /\ K \in Nat \ {0} /\ LOG_WINDOW \in Nat \ {0}
  /\ MaxLag \in 0..(K - 1)
  /\ MaxHeight \in Nat /\ MaxReorgs \in Nat

VARIABLES
  chain,     \* the blocks, each a sequence of transactions
  pending,   \* transactions broadcast and not mined
  reorgs,
  flavour,   \* the script in use
  pc,        \* the request the command makes next
  head,      \* the height it computed at its start
  from,      \* first block of the window it reads
  fulfilled, \* BatchFulfilled events read
  released,  \* Released events read
  receipt,   \* the settlement's receipt read last
  sent,      \* the node answered the broadcast
  crossed,   \* the chain was reorganised since the receipt was read
  asked,     \* the releases to be confirmed
  log,       \* the log the service accepted
  outcome,   \* what the service makes of settle
  confirmed, \* those the second node confirmed
  verdict,   \* what simulate says of the burn on Lock
  genuine    \* Lock was final when simulate started: a burn may exist

blocks == <<chain, pending, reorgs>>
reading == <<head, from, fulfilled, released>>
settling == <<receipt, sent, crossed>>
answers == <<log, outcome, confirmed, verdict>>
vars == <<blocks, flavour, pc, reading, settling, asked, answers, genuine>>

Pcs == {"idle", "fulfilled", "released", "root", "receipt", "depth", "confirm", "locks",
        "latest", "payout", "done"}
None == "none"
NoLog == [read |-> FALSE, batches |-> <<>>]
NoReceipt == [block |-> 0, ok |-> FALSE]
Deploy == 1  \* the block the vault was deployed in

(***************************************************************************)
(* The chain                                                               *)
(***************************************************************************)
SpentBy(events) == UNION {LeavesOf[events[n].tx] : n \in DOMAIN events}

(* fulfillBatch succeeds on the vault's current root only.                 *)
Fulfil(events, h, i, t) ==
  IF t \in Settlements /\ RootOf[t] = SpentBy(events)
  THEN Append(events, [block |-> h, index |-> i, tx |-> t]) ELSE events

(* The vault's events after each transaction of block h, and after each    *)
(* block.  A transaction's Released follow its BatchFulfilled, so both are *)
(* told by where it stands.                                                *)
Executing(events, h, block) ==
  LET after[i \in 0..Len(block)] ==
        IF i = 0 THEN events ELSE Fulfil(after[i - 1], h, i, block[i])
  IN  after
Mining(c) ==
  LET after[h \in 0..Len(c)] ==
        IF h = 0 THEN <<>> ELSE Executing(after[h - 1], h, c[h])[Len(c[h])]
  IN  after
EventLog(c) == Mining(c)[Len(c)]
History(c) == [n \in DOMAIN EventLog(c) |-> EventLog(c)[n].tx]
Executed(c) == ToSet(History(c))
Upto(h) == SubSeq(chain, 1, h)
Height(lag) == Len(chain) - lag
Lags == 0..Min({MaxLag, Len(chain) - 1})
FinalHeight(h) == Max({h - (K - 1), 0})
FinalChain == Upto(FinalHeight(Len(chain)))
Mined(t, c) == \E h \in 1..Len(c) : t \in ToSet(c[h])
BlockOf(t, c) == CHOOSE h \in 1..Len(c) : t \in ToSet(c[h])

Init ==
  /\ chain = <<(<<>>)>> /\ pending = (Settlements \ {Mine}) \cup {Lock} /\ reorgs = 0
  /\ flavour \in Flavours
  /\ pc = "idle" /\ head = 0 /\ from = 0 /\ fulfilled = {} /\ released = {}
  /\ receipt = NoReceipt /\ sent = FALSE /\ crossed = FALSE
  /\ asked = {}
  /\ log = NoLog /\ outcome = None /\ confirmed = {} /\ verdict = None
  /\ genuine = FALSE

NewBlocks(available) ==
  {<<>>} \cup {<<t>> : t \in available}
         \cup {<<p[1], p[2]>> : p \in {q \in available \X available : q[1] # q[2]}}

Grow ==
  /\ Len(chain) < MaxHeight
  /\ \E b \in NewBlocks(pending) :
       /\ chain' = Append(chain, b)
       /\ pending' = pending \ ToSet(b)
  /\ UNCHANGED <<reorgs, flavour, pc, reading, settling, asked, answers, genuine>>

(* The last blocks are replaced by one more.                               *)
Reorg(depth) ==
  /\ reorgs < MaxReorgs /\ depth < Len(chain) /\ Len(chain) < MaxHeight
  /\ LET kept == Upto(Len(chain) - depth)
         dropped == UNION {ToSet(chain[h]) : h \in (Len(chain) - depth + 1)..Len(chain)} IN
     \E b \in NewBlocks(pending \cup dropped) :
       /\ chain' = kept \o <<b>> \o [i \in 1..depth |-> <<>>]
       /\ pending' = (pending \cup dropped) \ ToSet(b)
  /\ reorgs' = reorgs + 1
  /\ crossed' = (crossed \/ pc = "depth")
  /\ UNCHANGED <<flavour, pc, reading, receipt, sent, asked, answers, genuine>>

Done == pc' = "done" /\ UNCHANGED <<blocks, flavour>>
Goto(next) == pc' = next /\ UNCHANGED <<blocks, flavour, answers>>

(* A request fails for good, or its retries are used up: exit 1.  The      *)
(* receipt loop of settle reads again instead.                             *)
CommandFails ==
  /\ pc \in {"fulfilled", "released", "root", "confirm", "locks", "latest", "payout"}
  /\ Done
  /\ UNCHANGED <<reading, settling, asked, answers, genuine>>

(***************************************************************************)
(* events: the settlement log                                              *)
(***************************************************************************)
(* The vault's events in blocks lo..hi of c, and events in their order.    *)
Entries(c, lo, hi) == {e \in ToSet(EventLog(c)) : e.block \in lo..hi}
Before(a, b) == a.block < b.block \/ (a.block = b.block /\ a.index < b.index)
Ordered(entries) ==
  CHOOSE list \in [1..Cardinality(entries) -> entries] :
    \A m, n \in DOMAIN list : m < n => Before(list[m], list[n])

(* Mutant: not clamped.                                                    *)
FinalUnclampedMutant(height) == height - (K - 1)
(* Mutant: off by one.                                                     *)
FinalMutant(height) == Max({height - K + 2, Deploy})
Final(height) == Max({height - (K - 1), Deploy})

StartEvents(lag) ==
  /\ pc = "idle"
  /\ head' = IF flavour = Ethereum THEN Final(Height(lag)) ELSE 0
  /\ from' = Deploy
  /\ Goto("fulfilled")
  /\ UNCHANGED <<fulfilled, released, settling, asked, genuine>>

Collect(entries) ==
  IF pc = "fulfilled"
  THEN fulfilled' = fulfilled \cup entries /\ UNCHANGED released
  ELSE released' = released \cup entries /\ UNCHANGED fulfilled

(* Ethereum: the two kinds of event, window by window.  A replica that is  *)
(* behind answers with what it has.                                        *)
ReadWindow(lag) ==
  /\ pc \in {"fulfilled", "released"} /\ flavour = Ethereum
  /\ Collect(Entries(Upto(Height(lag)), from, Min({from + LOG_WINDOW - 1, head})))
  /\ IF pc = "fulfilled"
     THEN Goto("released") /\ UNCHANGED from
     ELSE /\ from' = from + LOG_WINDOW
          /\ Goto(IF from + LOG_WINDOW > head THEN "root" ELSE "fulfilled")
  /\ UNCHANGED <<head, settling, asked, genuine>>

(* Tron: page by page, all confirmed events of one kind, then of the other;*)
(* a page that answers no data, or the last page read, ends the list early.*)
ReadPages(lag) ==
  /\ pc \in {"fulfilled", "released"} /\ flavour = Tron
  /\ LET all == Entries(Upto(Height(lag)), Deploy, FinalHeight(Height(lag))) IN
     \E listed \in {all} \cup {{e \in all : Before(e, next)} : next \in all} : Collect(listed)
  /\ Goto(IF pc = "fulfilled" THEN "released" ELSE "root")
  /\ UNCHANGED <<head, from, settling, asked, genuine>>

(* groupBatches: a batch whose Released are missing is an error; Released  *)
(* that no batch claims are passed over.                                   *)
GroupBatches == fulfilled \subseteq released

(* The service's rebuild_verified: root links from the empty tree to the   *)
(* root the vault reports.                                                 *)
(* Mutant: the reported root is not compared.                              *)
ReproducesMutant(T, root) ==
  \A t \in T : RootOf[t] = {} \/ \E u \in T : RootOf[t] = RootOf[u] \cup LeavesOf[u]
Reproduces(T, root) ==
  /\ \A t \in T : RootOf[t] = {} \/ \E u \in T : RootOf[t] = RootOf[u] \cup LeavesOf[u]
  /\ \A t, u \in T : RootOf[t] = RootOf[u] => t = u
  /\ UNION {LeavesOf[t] : t \in T} = root

(* The root is read at the log's last block, or on Tron at the head.       *)
ReadRoot(lag) ==
  /\ pc = "root"
  /\ head <= Height(lag)
  /\ LET batches == Ordered(fulfilled)
         T == {e.tx : e \in fulfilled}
         root == SpentBy(EventLog(Upto(IF flavour = Ethereum THEN head ELSE Height(lag)))) IN
     log' = IF GroupBatches /\ Reproduces(T, root)
            THEN [read |-> TRUE, batches |-> [i \in 1..Len(batches) |-> batches[i].tx]]
            ELSE log
  /\ Done
  /\ UNCHANGED <<reading, settling, asked, outcome, confirmed, verdict, genuine>>

(***************************************************************************)
(* settle                                                                  *)
(***************************************************************************)
(* SubmitOutcome, as run_submit_command reads it from the exit status and  *)
(* the output.                                                             *)
Submitted == "submitted"      \* 0
Unconfirmed == "unconfirmed"  \* 75
StaleRoot == "stale_root"     \* 1, "stale root" printed
Failed == "failed"            \* 1, or killed

Ends(result) ==
  /\ outcome' = result
  /\ Done
  /\ UNCHANGED <<reading, asked, log, confirmed, verdict, genuine>>

(* Ethereum: the gas estimate already reverts on a moved root.             *)
Refused(lag) ==
  /\ pc = "idle" /\ flavour = Ethereum
  /\ SpentBy(EventLog(Upto(Height(lag)))) # RootOf[Mine]
  /\ Ends(StaleRoot)
  /\ UNCHANGED settling

Send(lag) ==
  /\ pc = "idle"
  /\ flavour = Ethereum => SpentBy(EventLog(Upto(Height(lag)))) = RootOf[Mine]
  /\ pending' = pending \cup {Mine}
  /\ sent' = TRUE
  /\ pc' = "receipt"
  /\ UNCHANGED <<chain, reorgs, flavour, reading, receipt, crossed, asked, answers, genuine>>

(* The node refuses it, or the command is killed before the node answers.  *)
SendFails ==
  /\ pc = "idle"
  /\ pending' \in {pending, pending \cup {Mine}}
  /\ outcome' = Failed
  /\ pc' = "done"
  /\ UNCHANGED <<chain, reorgs, flavour, reading, settling, asked, log, confirmed, verdict, genuine>>

(* Only Tron's script prints why a settlement reverted.                    *)
Reverted == IF flavour = Tron THEN StaleRoot ELSE Failed
Concludes(ok) == Ends(IF ok THEN Submitted ELSE Reverted)

ReceiptOn(c) == [block |-> BlockOf(Mine, c), ok |-> Mine \in Executed(c)]

(* Ethereum: the receipt, then in another request the height.              *)
ReadReceipt(lag) ==
  /\ pc = "receipt" /\ flavour = Ethereum
  /\ Mined(Mine, Upto(Height(lag)))
  /\ receipt' = ReceiptOn(Upto(Height(lag)))
  /\ crossed' = FALSE
  /\ Goto("depth")
  /\ UNCHANGED <<reading, sent, asked, genuine>>

Deep(height, block) == height - block + 1 >= K

ReadDepth(lag) ==
  /\ pc = "depth"
  /\ IF Deep(Height(lag), receipt.block)
     THEN Concludes(receipt.ok) /\ UNCHANGED settling
     ELSE /\ Goto("receipt") /\ receipt' = NoReceipt
          /\ UNCHANGED <<reading, sent, crossed, asked, genuine>>

(* Tron: the solidity node, which knows final blocks only.                 *)
ReadSolidified(lag) ==
  /\ pc = "receipt" /\ flavour = Tron
  /\ Mined(Mine, Upto(FinalHeight(Height(lag))))
  /\ receipt' = ReceiptOn(Upto(FinalHeight(Height(lag))))
  /\ Concludes(receipt'.ok)
  /\ UNCHANGED <<sent, crossed>>

(* `until` passes, a pending request included: the txid is printed before  *)
(* the service would kill the command.                                     *)
(* Mutant: a receipt not read in time is a failure.                        *)
AtDeadlineMutant == Failed
AtDeadline == Unconfirmed
DeadlinePasses ==
  /\ pc \in {"receipt", "depth"}
  /\ Ends(AtDeadline)
  /\ receipt' = NoReceipt
  /\ UNCHANGED <<sent, crossed>>

(***************************************************************************)
(* confirm                                                                 *)
(***************************************************************************)
(* The second node: its height, then the receipt the log names.            *)
StartConfirm(lag, tx, nullifier) ==
  /\ pc = "idle"
  /\ asked' = {[tx |-> tx, nullifier |-> nullifier]}
  /\ head' = Height(lag)
  /\ Goto("confirm")
  /\ UNCHANGED <<from, fulfilled, released, settling, genuine>>

ReleaseLogged(c, r) == r.tx \in Executed(c) /\ r.nullifier \in LeavesOf[r.tx]


(* Deep enough at the height read first, or on a solidity node at all.     *)
ConfirmedAtDepth(lag, r) ==
  /\ ReleaseLogged(Upto(Height(lag)), r)
  /\ Deep(head, BlockOf(r.tx, Upto(Height(lag))))
ConfirmedSolidified(lag, r) == ReleaseLogged(Upto(FinalHeight(Height(lag))), r)

ConfirmRelease(lag) ==
  /\ pc = "confirm"
  /\ confirmed' = {r \in asked : IF flavour = Tron THEN ConfirmedSolidified(lag, r)
                                                   ELSE ConfirmedAtDepth(lag, r)}
  /\ Done
  /\ UNCHANGED <<reading, settling, asked, log, outcome, verdict, genuine>>

(***************************************************************************)
(* simulate: the lock refs of one burn                                     *)
(***************************************************************************)
StartSimulate(lag) ==
  /\ pc = "idle"
  /\ head' = IF flavour = Ethereum THEN FinalHeight(Height(lag)) ELSE 0
  /\ genuine' = Mined(Lock, FinalChain)
  /\ Goto("locks")
  /\ UNCHANGED <<from, fulfilled, released, settling, asked>>

Judged(kind) ==
  /\ verdict' = kind
  /\ Done
  /\ UNCHANGED <<reading, settling, asked, log, outcome, confirmed, genuine>>

(* The digest at the confirmed block, or on Tron at the head.              *)
KnownAt(lag) == Mined(Lock, Upto(IF flavour = Ethereum THEN head ELSE Height(lag)))
CheckLock(lag) ==
  /\ pc = "locks" /\ head <= Height(lag)
  /\ IF KnownAt(lag) THEN Goto("payout") /\ UNCHANGED <<reading, settling, asked, genuine>>
     ELSE IF flavour = Tron THEN Judged("lock")
     ELSE Goto("latest") /\ UNCHANGED <<reading, settling, asked, genuine>>

(* Not there: is it nowhere, or only not deep enough yet?                  *)
(* Mutant: the kind does not depend on the latest block.                   *)
KindMutant(lag) == "lock"
Kind(lag) == IF Mined(Lock, Upto(Height(lag))) THEN "unconfirmed" ELSE "lock"
CheckLatest(lag) ==
  /\ pc = "latest"
  /\ Judged(Kind(lag))

(* The asset is asked for the transfers the vault would make now, and may  *)
(* refuse one; in pull mode there are none.                                *)
PayoutVerdicts == {"passed", "recipient"}
CheckPayout ==
  /\ pc = "payout"
  /\ \E kind \in PayoutVerdicts : Judged(kind)

(***************************************************************************)
(* Specification                                                           *)
(***************************************************************************)
Nullifiers == UNION {LeavesOf[t] : t \in Settlements}

Next ==
  \/ Grow
  \/ \E depth \in 1..(K - 1) : Reorg(depth)
  \/ CommandFails
  \/ SendFails
  \/ DeadlinePasses
  \/ CheckPayout
  \/ \E lag \in Lags :
       \/ StartEvents(lag) \/ ReadWindow(lag) \/ ReadPages(lag) \/ ReadRoot(lag)
       \/ Refused(lag) \/ Send(lag) \/ ReadReceipt(lag) \/ ReadDepth(lag) \/ ReadSolidified(lag)
       \/ \E tx \in Settlements, n \in Nullifiers : StartConfirm(lag, tx, n)
       \/ ConfirmRelease(lag)
       \/ StartSimulate(lag) \/ CheckLock(lag) \/ CheckLatest(lag)

Spec == Init /\ [][Next]_vars

(***************************************************************************)
(* Properties                                                              *)
(***************************************************************************)
Transactions == Settlements \cup {Lock}
EventEntries == [block : Nat, index : Nat, tx : Settlements]
Releases == [tx : Settlements, nullifier : Nullifiers]

TypeOK ==
  /\ chain \in Seq(Seq(Transactions)) /\ pending \subseteq Transactions
  /\ reorgs \in 0..MaxReorgs /\ flavour \in Flavours /\ pc \in Pcs
  /\ head \in Nat /\ from \in Nat
  /\ fulfilled \subseteq EventEntries /\ released \subseteq EventEntries
  /\ receipt \in [block : Nat, ok : BOOLEAN] /\ sent \in BOOLEAN /\ crossed \in BOOLEAN
  /\ asked \subseteq Releases /\ confirmed \subseteq asked
  /\ log \in [read : BOOLEAN, batches : Seq(Settlements)]
  /\ outcome \in {None, Submitted, Unconfirmed, StaleRoot, Failed}
  /\ verdict \in {None, "unconfirmed", "lock"} \cup PayoutVerdicts
  /\ genuine \in BOOLEAN

(* What the service takes from a command is history for good, whichever    *)
(* replicas answered: no reorganisation takes back a settlement in a log   *)
(* it accepted, and a release the second node confirmed was made, for that *)
(* burn.                                                                   *)
LogIsFinal == IsPrefix(log.batches, History(FinalChain))
ConfirmedIsFinal ==
  \A r \in confirmed : r.tx \in Executed(FinalChain) /\ r.nullifier \in LeavesOf[r.tx]
EvidenceIsFinal == LogIsFinal /\ ConfirmedIsFinal

(* Nothing is missing from the log up to the block it was read to:         *)
(* windows, pages and replicas that left events out do not go unnoticed.   *)
LogIsWhole ==
  [][log'.read /\ ~log.read =>
       \E h \in (IF flavour = Ethereum THEN head ELSE Len(chain) - MaxLag)..Len(chain) :
         log'.batches = History(Upto(h))]_vars

(* A settlement counts as settled only once it is final.                   *)
SettledIsFinal == outcome = Submitted => Mine \in Executed(FinalChain)

(* What is reported of a broadcast settlement is so, unless the chain was  *)
(* reorganised between the two requests that read its receipt and the      *)
(* height: one that is reported settled is final, and one reported failed  *)
(* or stale has released nothing; a receipt not read in time is neither.   *)
ReportHolds ==
  ~crossed => /\ SettledIsFinal
              /\ sent /\ outcome \in {Failed, StaleRoot} => Mine \notin Executed(chain)

(* A burn is given up for its lock only when the vault has no such lock:   *)
(* not because a replica or the chosen block is behind.                    *)
LockRefusedForGood == verdict = "lock" => ~genuine
==============================================================================
