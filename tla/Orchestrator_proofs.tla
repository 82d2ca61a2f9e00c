------------------------- MODULE Orchestrator_proofs --------------------------
(***************************************************************************)
(* Proofs about the return service: for every set of burns, every retry    *)
(* limit, every profile of faults and any number of them, with or without  *)
(* a submitter and other settlers, what its ledger calls settled was       *)
(* released, no return is left behind in a batch that is no longer worked  *)
(* on, no proof is forgotten, and a return is given up only for its locks  *)
(* or after all its attempts.                                              *)
(*                                                                         *)
(* The inductive invariant is IInv.  LedgerInv is what holds of the ledger *)
(* alone, with one lemma per journal event; the other parts relate it to   *)
(* what the task carries across its awaits.                                *)
(*                                                                         *)
(* Where nothing goes wrong but interruptions, no stop comes together with *)
(* a failed sync, the service has a submitter, and other settlers keep off *)
(* its burns (Quiet and OthersKeepOff), it never loses sight of one of its *)
(* settlements.  SightInv says how: there is one proven batch at most, it  *)
(* is the only one that a pending settlement can be of, and the vault has  *)
(* made its transition or released none of its members.  Then a batch      *)
(* settles only with its own transition, and whole; and with PhaseInv, on  *)
(* the verdicts the task is about to apply, the service implements         *)
(* ReturnLifecycle.                                                        *)
(***************************************************************************)
EXTENDS Orchestrator, SequenceTheorems, FiniteSetTheorems, TLAPS

-------------------------------------------------------------------------------
(* The inductive invariant                                                 *)

(* Of a ledger in which only the batches of W may be in proof: what is     *)
(* proving or proven is a member of a batch that is, the bundle of a       *)
(* proven batch holds all members that are still with it, and it has no    *)
(* transaction yet.                                                        *)
MembersPlaced(L) ==
  \A r \in Burns : L.returns[r].status \in {"proving", "proven"} =>
    /\ L.returns[r].batch \in BatchIds(L)
    /\ r \in L.batches[L.returns[r].batch].members
    /\ L.batches[L.returns[r].batch].status = L.returns[r].status
BundlesWhole(L) ==
  \A b \in BatchIds(L) : L.batches[b].status = "proven" =>
    L.batches[b].tx = NoTx /\ MembersOf(L, b) \subseteq L.batches[b].leaves
LedgerInv(L, W) ==
  /\ L \in Ledgers
  /\ ProvingBatches(L) \subseteq W
  /\ MembersPlaced(L)
  /\ BundlesWhole(L)

(* What a record tells its client.                                         *)
GivenUpJustly(r, ret) ==
  ret.status = "failed" /\ ret.failure = "terminal" => r \in BadLock \/ ret.attempts >= MaxAttempts
SettledJustly(r, ret) == ret.status = "settled" => ReleasedIn(r, ret.tx)
RecordJust(r, ret) == GivenUpJustly(r, ret) /\ SettledJustly(r, ret)
RecordsJust(L) == \A r \in Burns : RecordJust(r, L.returns[r])

(* The batch in flight, by the await the task stands at.                   *)
Verdict == {"confirm", "exclude"}
AtRest == pc \in {"next", "take", "drained"} \/ (pc \in Verdict /\ cont = "take")
StageInv ==
  /\ cont = "take" \/ pc \in Verdict
  /\ cont = "released" => pc = "confirm"
  /\ AtRest <=> cur = 0
  /\ pc \in {"sync", "simulate", "prove"} \/ cont = "prove" => ledger.batches[cur].status = "proving"
  /\ cont = "fail" => ledger.batches[cur].status \in {"proving", "proven"}
  /\ pc \in {"settle", "submit", "receipt", "await"} \/ cont = "released"
       => ledger.batches[cur].status = "proven"

(* The proven batches found at start wait for their turn.                  *)
ResumeInv ==
  /\ \A b \in resume : ledger.batches[b].status = "proven" /\ b # cur
  /\ pc = "take" \/ (pc \in Verdict /\ cont = "take") => resume = {}
  /\ ProofsNotForgotten

(* Every member of the batch is kept or has a verdict to come, and the     *)
(* verdicts are right.                                                     *)
VerdictInv ==
  /\ cont = "prove" =>
       MembersOf(ledger, cur) \subseteq
         kept \cup DOMAIN todo \cup (IF pc = "confirm" THEN DOMAIN asked ELSE {})
  /\ pc = "prove" => MembersOf(ledger, cur) \subseteq kept
  /\ cont = "released" =>
       DOMAIN asked = ledger.batches[cur].leaves \cap MembersOf(ledger, cur)
  /\ \A r \in DOMAIN todo :
       /\ todo[r].kind = "invalid" => r \in BadLock
       /\ todo[r].kind = "confirmed" => ReleasedIn(r, todo[r].tx)

(* Transactions are told apart by their number, and the one broadcast for  *)
(* the batch in flight is its bundle.                                      *)
TxInv ==
  /\ mine < nextTx
  /\ \A t \in LogEntries \cup mempool :
       /\ t.tx < nextTx
       /\ pc = "receipt" /\ t.tx = mine => t.nullifiers = ledger.batches[cur].leaves

IInv ==
  /\ TypeOK
  /\ LedgerInv(ledger, {cur})
  /\ RecordsJust(ledger)
  /\ StageInv
  /\ ResumeInv
  /\ VerdictInv
  /\ TxInv

-------------------------------------------------------------------------------
(* The ledger's events                                                     *)

(* A change to one batch of a ledger leaves the other batches alone.       *)
OneBatchChanged(bs, L, b, B) ==
  /\ bs \in Seq(Batches) /\ Len(bs) = Len(L.batches)
  /\ bs[b] = B
  /\ \A c \in BatchIds(L) \ {b} : bs[c] = L.batches[c]

LEMMA BatchUpdate ==
  ASSUME NEW L \in Ledgers, NEW b \in BatchIds(L), NEW B \in Batches
  PROVE  OneBatchChanged([L.batches EXCEPT ![b] = B], L, b, B)
  <1>1. L.batches \in Seq(Batches)
    BY DEF Ledgers
  <1>2. QED
    BY <1>1, ExceptSeq DEF OneBatchChanged, BatchIds

(* The parts of a ledger.                                                  *)
LEMMA LedgerParts ==
  ASSUME NEW L \in Ledgers
  PROVE  /\ L.returns \in [Burns -> Returns]
         /\ L.batches \in Seq(Batches) /\ Len(L.batches) \in Nat
         /\ \A b \in BatchIds(L) : L.batches[b] \in Batches
         /\ \A b \in BatchIds(L) : MembersOf(L, b) \subseteq Burns
         /\ L = [returns |-> L.returns, batches |-> L.batches]
  <1>1. L.returns \in [Burns -> Returns] /\ L.batches \in Seq(Batches)
    BY DEF Ledgers
  <1>2. L = [returns |-> L.returns, batches |-> L.batches]
    BY DEF Ledgers
  <1>3. \A b \in BatchIds(L) : L.batches[b] \in Batches
    BY <1>1, ElementOfSeq DEF BatchIds
  <1>4. Len(L.batches) \in Nat
    BY <1>1, LenProperties
  <1>5. \A b \in BatchIds(L) : MembersOf(L, b) \subseteq Burns
    BY <1>3 DEF MembersOf, Batches
  <1>6. QED
    BY <1>1, <1>2, <1>3, <1>4, <1>5

LEMMA NoTxIsInt == NoTx \in Int
  BY DEF NoTx

(* What a change to one record makes of it.                                *)
LEMMA ScheduleRetryFacts ==
  ASSUME NEW r \in Burns, NEW ret \in Returns
  PROVE  /\ ScheduleRetry(ret) \in Returns
         /\ ScheduleRetry(ret).status = "failed"
         /\ RecordJust(r, ScheduleRetry(ret))
  <1> DEFINE next == ScheduleRetry(ret)
  <1>1. ret.attempts + 1 \in Nat
    BY DEF Returns
  <1>2. next.status = "failed" /\ next.attempts = ret.attempts + 1
    BY DEF ScheduleRetry, Returns
  <1>3. CASE Parked(ret.attempts + 1)
    <2>1. next = [ret EXCEPT !.status = "failed", !.attempts = @ + 1, !.waiting = FALSE,
                             !.failure = "terminal"]
      BY <1>3 DEF ScheduleRetry
    <2>2. next \in Returns
      BY <1>1, <2>1 DEF Returns, Statuses, Failures
    <2>3. QED
      BY <1>2, <1>3, <2>2 DEF Parked, RecordJust, GivenUpJustly, SettledJustly
  <1>4. CASE ~Parked(ret.attempts + 1)
    <2>1. next = [ret EXCEPT !.status = "failed", !.attempts = @ + 1, !.waiting = TRUE,
                             !.failure = "recoverable"]
      BY <1>4 DEF ScheduleRetry
    <2>2. next \in Returns /\ next.failure = "recoverable"
      BY <1>1, <2>1 DEF Returns, Statuses, Failures
    <2>3. QED
      BY <1>2, <2>2 DEF RecordJust, GivenUpJustly, SettledJustly
  <1>5. QED
    BY <1>3, <1>4

LEMMA InterruptionFacts ==
  ASSUME NEW r \in Burns, NEW ret \in Returns
  PROVE  /\ ScheduleAfterInterruption(ret) \in Returns
         /\ ScheduleAfterInterruption(ret).status \in {"failed", "queued"}
         /\ RecordJust(r, ScheduleAfterInterruption(ret))
         /\ RequeueAfterStop(ret) \in Returns
         /\ RequeueAfterStop(ret).status = "queued"
         /\ RecordJust(r, RequeueAfterStop(ret))
  <1>1. ASSUME Parked(ret.attempts + 1)
        PROVE  ScheduleAfterInterruption(ret) = ScheduleRetry(ret)
    BY <1>1 DEF ScheduleAfterInterruption
  <1>2. ASSUME ~Parked(ret.attempts + 1)
        PROVE  /\ ScheduleAfterInterruption(ret) \in Returns
               /\ ScheduleAfterInterruption(ret).status = "queued"
    <2>1. ScheduleAfterInterruption(ret) =
            [status |-> "queued", seq |-> ret.seq, batch |-> ret.batch, failure |-> "none",
             attempts |-> ret.attempts + 1, waiting |-> TRUE, tx |-> ret.tx]
      BY <1>2 DEF ScheduleAfterInterruption, Returns
    <2>2. QED
      BY <2>1 DEF Returns, Statuses, Failures
  <1>3. RequeueAfterStop(ret) \in Returns /\ RequeueAfterStop(ret).status = "queued"
    BY DEF RequeueAfterStop, Returns, Statuses, Failures
  <1>4. \A next : next.status = "queued" => RecordJust(r, next)
    BY DEF RecordJust, GivenUpJustly, SettledJustly
  <1>5. QED
    BY <1>1, <1>2, <1>3, <1>4, ScheduleRetryFacts

LEMMA ExcludedFacts ==
  ASSUME NEW r \in Burns, NEW ret \in Returns, NEW v \in Verdicts,
         v.kind = "invalid" => r \in BadLock,
         v.kind = "confirmed" => ReleasedIn(r, v.tx)
  PROVE  /\ Excluded(ret, v) \in Returns
         /\ Excluded(ret, v).status \in {"settled", "submitted", "failed"}
         /\ RecordJust(r, Excluded(ret, v))
  <1>1. CASE v.kind = "confirmed"
    <2>1. v.tx \in Int /\ Excluded(ret, v) = SettledBy(ret, v.tx)
      BY <1>1 DEF Excluded, Verdicts
    <2>2. /\ SettledBy(ret, v.tx) \in Returns
          /\ SettledBy(ret, v.tx).status = "settled" /\ SettledBy(ret, v.tx).tx = v.tx
      BY <2>1 DEF SettledBy, Returns, Statuses, Failures
    <2>3. QED
      BY <1>1, <2>1, <2>2 DEF RecordJust, GivenUpJustly, SettledJustly
  <1>2. CASE v.kind = "unconfirmed"
    <2>1. Excluded(ret, v) = AwaitConfirmation(ret)
      BY <1>2 DEF Excluded
    <2>2. AwaitConfirmation(ret) \in Returns /\ AwaitConfirmation(ret).status = "submitted"
      BY NoTxIsInt DEF AwaitConfirmation, Returns, Statuses, Failures
    <2>3. QED
      BY <2>1, <2>2 DEF RecordJust, GivenUpJustly, SettledJustly
  <1>3. CASE v.kind = "rejected"
    BY <1>3, ScheduleRetryFacts DEF Excluded
  <1>4. CASE v.kind = "invalid"
    <2>1. Excluded(ret, v) = [ret EXCEPT !.status = "failed", !.failure = "terminal"]
      BY <1>4 DEF Excluded
    <2>2. Excluded(ret, v) \in Returns /\ Excluded(ret, v).status = "failed"
      BY <2>1 DEF Returns, Statuses, Failures
    <2>3. QED
      BY <1>4, <2>2 DEF RecordJust, GivenUpJustly, SettledJustly
  <1>5. QED
    BY <1>1, <1>2, <1>3, <1>4 DEF Verdicts

(* An event that changes no batch, and takes the returns it changes out of *)
(* theirs.                                                                 *)
LEMMA ReturnsOnly ==
  ASSUME NEW L, NEW M \in Ledgers, NEW W, LedgerInv(L, W), M.batches = L.batches,
         \A r \in Burns : M.returns[r] = L.returns[r]
                         \/ M.returns[r].status \notin {"proving", "proven"}
                         \/ /\ M.returns[r].status = L.returns[r].status
                            /\ M.returns[r].batch = L.returns[r].batch
  PROVE  /\ LedgerInv(M, W) /\ BatchIds(M) = BatchIds(L)
         /\ \A b \in BatchIds(L) : MembersOf(M, b) \subseteq MembersOf(L, b)
         /\ \A b \in BatchIds(L) : \A r \in MembersOf(L, b) :
              M.returns[r] = L.returns[r] => r \in MembersOf(M, b)
  <1>1. L \in Ledgers /\ MembersPlaced(L) /\ BundlesWhole(L) /\ ProvingBatches(L) \subseteq W
    BY DEF LedgerInv
  <1>2. BatchIds(M) = BatchIds(L) /\ ProvingBatches(M) = ProvingBatches(L)
    BY DEF BatchIds, ProvingBatches
  <1>3. MembersPlaced(M)
    BY <1>1, <1>2 DEF MembersPlaced
  <1>4. \A b \in BatchIds(L) : MembersOf(M, b) \subseteq MembersOf(L, b)
    BY <1>1, LedgerParts DEF MembersOf, InBatch, Batches
  <1>5. \A b \in BatchIds(L) : \A r \in MembersOf(L, b) :
          M.returns[r] = L.returns[r] => r \in MembersOf(M, b)
    BY DEF MembersOf, InBatch
  <1>6. BundlesWhole(M)
    BY <1>1, <1>2, <1>4 DEF BundlesWhole
  <1>7. QED
    BY <1>1, <1>2, <1>3, <1>4, <1>5, <1>6 DEF LedgerInv

(* Returns of other batches stay placed when one batch and its members     *)
(* change together.                                                        *)
LEMMA OneBatch ==
  ASSUME NEW L, NEW W, LedgerInv(L, W), NEW b \in BatchIds(L), NEW B \in Batches,
         NEW M \in Ledgers, OneBatchChanged(M.batches, L, b, B),
         B.members = L.batches[b].members,
         \A r \in Burns \ MembersOf(L, b) : M.returns[r] = L.returns[r],
         \A r \in MembersOf(L, b) :
           \/ M.returns[r].status \notin {"proving", "proven"}
           \/ M.returns[r].status = B.status /\ M.returns[r].batch = b,
         B.status = "proven" => B.tx = NoTx /\ MembersOf(L, b) \subseteq B.leaves
  PROVE  /\ LedgerInv(M, (W \ {b}) \cup (IF B.status = "proving" THEN {b} ELSE {}))
         /\ BatchIds(M) = BatchIds(L)
         /\ MembersOf(M, b) \subseteq MembersOf(L, b)
  <1>1. L \in Ledgers /\ MembersPlaced(L) /\ BundlesWhole(L) /\ ProvingBatches(L) \subseteq W
    BY DEF LedgerInv
  <1>2. BatchIds(M) = BatchIds(L)
    BY DEF BatchIds, OneBatchChanged
  <1>3. \A c \in BatchIds(L) \ {b} : M.batches[c] = L.batches[c]
    BY DEF OneBatchChanged
  <1>4. M.batches[b] = B
    BY DEF OneBatchChanged
  <1>5. ASSUME NEW r \in Burns, L.returns[r].status \in {"proving", "proven"},
               r \notin MembersOf(L, b)
        PROVE  L.returns[r].batch # b
    BY <1>1, <1>5 DEF MembersPlaced, MembersOf, InBatch
  <1>6. MembersPlaced(M)
    <2> SUFFICES ASSUME NEW r \in Burns, M.returns[r].status \in {"proving", "proven"}
                 PROVE  /\ M.returns[r].batch \in BatchIds(M)
                        /\ r \in M.batches[M.returns[r].batch].members
                        /\ M.batches[M.returns[r].batch].status = M.returns[r].status
      BY DEF MembersPlaced
    <2>1. CASE r \in MembersOf(L, b)
      BY <1>2, <1>4, <2>1 DEF MembersOf
    <2>2. CASE r \notin MembersOf(L, b)
      BY <1>1, <1>2, <1>3, <1>5, <2>2 DEF MembersPlaced
    <2>3. QED
      BY <2>1, <2>2
  <1>7. ASSUME NEW c \in BatchIds(L) PROVE MembersOf(M, c) \subseteq MembersOf(L, c)
    <2> SUFFICES ASSUME NEW r \in MembersOf(M, c) PROVE r \in MembersOf(L, c)
      OBVIOUS
    <2>1. /\ r \in L.batches[c].members /\ M.returns[r].batch = c
          /\ M.returns[r].status \in {"proving", "proven"}
      BY <1>3, <1>4 DEF MembersOf, InBatch
    <2>2. r \in Burns
      BY <1>1, <2>1, LedgerParts DEF Batches
    <2>3. CASE r \in MembersOf(L, b)
      <3>1. c = b
        BY <2>1, <2>3
      <3>2. QED
        BY <2>3, <3>1
    <2>4. CASE r \notin MembersOf(L, b)
      BY <2>1, <2>2, <2>4 DEF MembersOf, InBatch
    <2>5. QED
      BY <2>3, <2>4
  <1>8. BundlesWhole(M)
    <2> SUFFICES ASSUME NEW c \in BatchIds(L), M.batches[c].status = "proven"
                 PROVE  M.batches[c].tx = NoTx /\ MembersOf(M, c) \subseteq M.batches[c].leaves
      BY <1>2 DEF BundlesWhole
    <2>1. CASE c = b
      BY <1>4, <1>7, <2>1
    <2>2. CASE c # b
      BY <1>1, <1>3, <1>7, <2>2 DEF BundlesWhole
    <2>3. QED
      BY <2>1, <2>2
  <1>9. ProvingBatches(M) \subseteq (W \ {b}) \cup (IF B.status = "proving" THEN {b} ELSE {})
    BY <1>1, <1>2, <1>3, <1>4 DEF ProvingBatches
  <1>10. QED
    BY <1>2, <1>6, <1>7, <1>8, <1>9 DEF LedgerInv

(* A bundle that holds all members still with the batch.                    *)
LEMMA BatchProvenInv ==
  ASSUME NEW L, NEW b \in BatchIds(L), LedgerInv(L, {b}), RecordsJust(L),
         NEW leaves \in SUBSET Burns, NEW rootOld \in Roots,
         MembersOf(L, b) \subseteq leaves
  PROVE  LET M == BatchProven(L, b, leaves, rootOld) IN
         /\ LedgerInv(M, {}) /\ RecordsJust(M)
         /\ OneBatchChanged(M.batches, L, b, M.batches[b])
         /\ M.batches[b].status = "proven"
         /\ MembersOf(M, b) \subseteq MembersOf(L, b)
  <1> DEFINE M == BatchProven(L, b, leaves, rootOld)
             B == [status |-> "proven", members |-> L.batches[b].members,
                   rebases |-> L.batches[b].rebases, leaves |-> leaves,
                   rootOld |-> rootOld, tx |-> NoTx]
  <1>1. L \in Ledgers
    BY DEF LedgerInv
  <1>2. L.batches[b] \in Batches /\ L.returns \in [Burns -> Returns] /\ MembersOf(L, b) \subseteq Burns
    BY <1>1, LedgerParts
  <1>3. B \in Batches /\ B.status = "proven" /\ B.members = L.batches[b].members
    BY <1>2, NoTxIsInt DEF Batches, BatchStatuses, Roots
  <1>4. M.batches = [L.batches EXCEPT ![b] = B]
    BY <1>2 DEF BatchProven, Batches
  <1>5. OneBatchChanged(M.batches, L, b, B)
    BY <1>1, <1>3, <1>4, BatchUpdate
  <1>6. /\ \A r \in Burns \ MembersOf(L, b) : M.returns[r] = L.returns[r]
        /\ \A r \in MembersOf(L, b) : M.returns[r] = [L.returns[r] EXCEPT !.status = "proven"]
        /\ M = [returns |-> M.returns, batches |-> M.batches] /\ DOMAIN M.returns = Burns
    BY <1>2 DEF BatchProven, ForReturns
  <1> HIDE DEF M
  <1>7. ASSUME NEW r \in MembersOf(L, b)
        PROVE  M.returns[r] \in Returns /\ RecordJust(r, M.returns[r]) /\ M.returns[r].status = "proven" /\ M.returns[r].batch = b
    <2>a. r \in Burns /\ L.returns[r] \in Returns
      BY <1>2, <1>7
    <2>b. M.returns[r] = [L.returns[r] EXCEPT !.status = "proven"]
      BY <1>6, <1>7
    <2>1. /\ M.returns[r].status = "proven" /\ M.returns[r].batch = L.returns[r].batch
          /\ M.returns[r] \in Returns
      BY <2>a, <2>b DEF Returns, Statuses
    <2>2. L.returns[r].batch = b
      BY <1>7 DEF MembersOf, InBatch
    <2>3. QED
      BY <2>1, <2>2 DEF RecordJust, GivenUpJustly, SettledJustly
  <1> HIDE DEF B
  <1>8. M.returns \in [Burns -> Returns]
    <2>1. \A r \in Burns : M.returns[r] \in Returns
      BY <1>2, <1>6, <1>7
    <2>2. M.returns = [r \in Burns |-> M.returns[r]]
      BY DEF M, BatchProven, ForReturns
    <2>3. QED
      BY <2>1, <2>2
  <1>9. M \in Ledgers
    BY <1>5, <1>6, <1>8 DEF Ledgers, OneBatchChanged
  <1>10. RecordsJust(M)
    BY <1>6, <1>7 DEF RecordsJust
  <1>11. M.batches[b] = B
    BY <1>5 DEF OneBatchChanged
  <1>12. B.status = "proven" => B.tx = NoTx /\ MembersOf(L, b) \subseteq B.leaves
    BY DEF B
  <1>13. QED
    <2>1. /\ LedgerInv(M, ({b} \ {b}) \cup (IF B.status = "proving" THEN {b} ELSE {}))
          /\ MembersOf(M, b) \subseteq MembersOf(L, b)
      <3>1. \A r \in MembersOf(L, b) :
              \/ M.returns[r].status \notin {"proving", "proven"}
              \/ M.returns[r].status = B.status /\ M.returns[r].batch = b
        BY <1>3, <1>7
      <3>2. \A r \in Burns \ MembersOf(L, b) : M.returns[r] = L.returns[r]
        BY <1>6
      <3>3. QED
        <4>1. B \in Batches /\ B.members = L.batches[b].members
          BY <1>3
        <4>2. QED
          BY <4>1, <1>5, <1>9, <1>12, <3>1, <3>2, OneBatch
    <2>2. QED
      BY <1>3, <1>5, <1>10, <1>11, <2>1 DEF M

(* The batch is proved again, on another root.                              *)
LEMMA BatchRebasedInv ==
  ASSUME NEW L, NEW b \in BatchIds(L), LedgerInv(L, {b}), RecordsJust(L)
  PROVE  LET M == BatchRebased(L, b) IN
         /\ LedgerInv(M, {b}) /\ RecordsJust(M)
         /\ OneBatchChanged(M.batches, L, b, M.batches[b])
         /\ M.batches[b].status = "proving"
         /\ MembersOf(M, b) \subseteq MembersOf(L, b)
  <1> DEFINE M == BatchRebased(L, b)
             B == [status |-> "proving", members |-> L.batches[b].members,
                   rebases |-> L.batches[b].rebases + 1, leaves |-> {},
                   rootOld |-> {}, tx |-> L.batches[b].tx]
  <1>1. L \in Ledgers
    BY DEF LedgerInv
  <1>2. L.batches[b] \in Batches /\ L.returns \in [Burns -> Returns] /\ MembersOf(L, b) \subseteq Burns
    BY <1>1, LedgerParts
  <1>3. B \in Batches /\ B.status = "proving" /\ B.members = L.batches[b].members
    BY <1>2, NoTxIsInt DEF Batches, BatchStatuses, Roots
  <1>4. M.batches = [L.batches EXCEPT ![b] = B]
    BY <1>2 DEF BatchRebased, Batches
  <1>5. OneBatchChanged(M.batches, L, b, B)
    BY <1>1, <1>3, <1>4, BatchUpdate
  <1>6. /\ \A r \in Burns \ MembersOf(L, b) : M.returns[r] = L.returns[r]
        /\ \A r \in MembersOf(L, b) : M.returns[r] = [L.returns[r] EXCEPT !.status = "proving"]
        /\ M = [returns |-> M.returns, batches |-> M.batches] /\ DOMAIN M.returns = Burns
    BY <1>2 DEF BatchRebased, ForReturns
  <1> HIDE DEF M
  <1>7. ASSUME NEW r \in MembersOf(L, b)
        PROVE  M.returns[r] \in Returns /\ RecordJust(r, M.returns[r]) /\ M.returns[r].status = "proving" /\ M.returns[r].batch = b
    <2>a. r \in Burns /\ L.returns[r] \in Returns
      BY <1>2, <1>7
    <2>b. M.returns[r] = [L.returns[r] EXCEPT !.status = "proving"]
      BY <1>6, <1>7
    <2>1. /\ M.returns[r].status = "proving" /\ M.returns[r].batch = L.returns[r].batch
          /\ M.returns[r] \in Returns
      BY <2>a, <2>b DEF Returns, Statuses
    <2>2. L.returns[r].batch = b
      BY <1>7 DEF MembersOf, InBatch
    <2>3. QED
      BY <2>1, <2>2 DEF RecordJust, GivenUpJustly, SettledJustly
  <1> HIDE DEF B
  <1>8. M.returns \in [Burns -> Returns]
    <2>1. \A r \in Burns : M.returns[r] \in Returns
      BY <1>2, <1>6, <1>7
    <2>2. M.returns = [r \in Burns |-> M.returns[r]]
      BY DEF M, BatchRebased, ForReturns
    <2>3. QED
      BY <2>1, <2>2
  <1>9. M \in Ledgers
    BY <1>5, <1>6, <1>8 DEF Ledgers, OneBatchChanged
  <1>10. RecordsJust(M)
    BY <1>6, <1>7 DEF RecordsJust
  <1>11. M.batches[b] = B
    BY <1>5 DEF OneBatchChanged
  <1>12. B.status = "proven" => B.tx = NoTx /\ MembersOf(L, b) \subseteq B.leaves
    BY DEF B
  <1>13. QED
    <2>1. /\ LedgerInv(M, ({b} \ {b}) \cup (IF B.status = "proving" THEN {b} ELSE {}))
          /\ MembersOf(M, b) \subseteq MembersOf(L, b)
      <3>1. \A r \in MembersOf(L, b) :
              \/ M.returns[r].status \notin {"proving", "proven"}
              \/ M.returns[r].status = B.status /\ M.returns[r].batch = b
        BY <1>3, <1>7
      <3>2. \A r \in Burns \ MembersOf(L, b) : M.returns[r] = L.returns[r]
        BY <1>6
      <3>3. QED
        <4>1. B \in Batches /\ B.members = L.batches[b].members
          BY <1>3
        <4>2. QED
          BY <4>1, <1>5, <1>9, <1>12, <3>1, <3>2, OneBatch
    <2>2. QED
      BY <1>3, <1>5, <1>10, <1>11, <2>1 DEF M

(* The batch settles in a transaction that released what it still holds.    *)
LEMMA BatchSettledInv ==
  ASSUME NEW L, NEW b \in BatchIds(L), LedgerInv(L, {b}), RecordsJust(L),
         NEW tx \in Int,
         \A r \in MembersOf(L, b) : ReleasedIn(r, tx)
  PROVE  LET M == BatchSettled(L, b, tx) IN
         /\ LedgerInv(M, {}) /\ RecordsJust(M)
         /\ OneBatchChanged(M.batches, L, b, M.batches[b])
         /\ M.batches[b].status = "settled"
         /\ MembersOf(M, b) \subseteq MembersOf(L, b)
  <1> DEFINE M == BatchSettled(L, b, tx)
             B == [status |-> "settled", members |-> L.batches[b].members,
                   rebases |-> L.batches[b].rebases, leaves |-> L.batches[b].leaves,
                   rootOld |-> L.batches[b].rootOld, tx |-> tx]
  <1>1. L \in Ledgers
    BY DEF LedgerInv
  <1>2. L.batches[b] \in Batches /\ L.returns \in [Burns -> Returns] /\ MembersOf(L, b) \subseteq Burns
    BY <1>1, LedgerParts
  <1>3. B \in Batches /\ B.status = "settled" /\ B.members = L.batches[b].members
    BY <1>2, NoTxIsInt DEF Batches, BatchStatuses, Roots
  <1>4. M.batches = [L.batches EXCEPT ![b] = B]
    BY <1>2 DEF BatchSettled, Batches
  <1>5. OneBatchChanged(M.batches, L, b, B)
    BY <1>1, <1>3, <1>4, BatchUpdate
  <1>6. /\ \A r \in Burns \ MembersOf(L, b) : M.returns[r] = L.returns[r]
        /\ \A r \in MembersOf(L, b) : M.returns[r] = [L.returns[r] EXCEPT !.status = "settled", !.tx = tx]
        /\ M = [returns |-> M.returns, batches |-> M.batches] /\ DOMAIN M.returns = Burns
    BY <1>2 DEF BatchSettled, ForReturns
  <1> HIDE DEF M
  <1>7. ASSUME NEW r \in MembersOf(L, b)
        PROVE  M.returns[r] \in Returns /\ RecordJust(r, M.returns[r]) /\ M.returns[r].status = "settled"
    <2>a. r \in Burns /\ L.returns[r] \in Returns
      BY <1>2, <1>7
    <2>b. M.returns[r] = [L.returns[r] EXCEPT !.status = "settled", !.tx = tx]
      BY <1>6, <1>7
    <2>1. M.returns[r].status = "settled" /\ M.returns[r].tx = tx /\ M.returns[r] \in Returns
      BY <2>a, <2>b DEF Returns, Statuses
    <2>2. ReleasedIn(r, tx)
      BY <1>7
    <2>3. QED
      BY <2>1, <2>2 DEF RecordJust, GivenUpJustly, SettledJustly
  <1> HIDE DEF B
  <1>8. M.returns \in [Burns -> Returns]
    <2>1. \A r \in Burns : M.returns[r] \in Returns
      BY <1>2, <1>6, <1>7
    <2>2. M.returns = [r \in Burns |-> M.returns[r]]
      BY DEF M, BatchSettled, ForReturns
    <2>3. QED
      BY <2>1, <2>2
  <1>9. M \in Ledgers
    BY <1>5, <1>6, <1>8 DEF Ledgers, OneBatchChanged
  <1>10. RecordsJust(M)
    BY <1>6, <1>7 DEF RecordsJust
  <1>11. M.batches[b] = B
    BY <1>5 DEF OneBatchChanged
  <1>12. B.status = "proven" => B.tx = NoTx /\ MembersOf(L, b) \subseteq B.leaves
    BY DEF B
  <1>13. QED
    <2>1. /\ LedgerInv(M, ({b} \ {b}) \cup (IF B.status = "proving" THEN {b} ELSE {}))
          /\ MembersOf(M, b) \subseteq MembersOf(L, b)
      <3>1. \A r \in MembersOf(L, b) :
              \/ M.returns[r].status \notin {"proving", "proven"}
              \/ M.returns[r].status = B.status /\ M.returns[r].batch = b
        BY <1>3, <1>7
      <3>2. \A r \in Burns \ MembersOf(L, b) : M.returns[r] = L.returns[r]
        BY <1>6
      <3>3. QED
        <4>1. B \in Batches /\ B.members = L.batches[b].members
          BY <1>3
        <4>2. QED
          BY <4>1, <1>5, <1>9, <1>12, <3>1, <3>2, OneBatch
    <2>2. QED
      BY <1>3, <1>5, <1>10, <1>11, <2>1 DEF M

(* The batch fails, and each member it still holds is charged an attempt.   *)
LEMMA BatchFailedInv ==
  ASSUME NEW L, NEW b \in BatchIds(L), LedgerInv(L, {b}), RecordsJust(L)
  PROVE  LET M == BatchFailed(L, b) IN
         /\ LedgerInv(M, {}) /\ RecordsJust(M)
         /\ OneBatchChanged(M.batches, L, b, M.batches[b])
         /\ M.batches[b].status = "failed"
         /\ MembersOf(M, b) \subseteq MembersOf(L, b)
  <1> DEFINE M == BatchFailed(L, b)
             B == [status |-> "failed", members |-> L.batches[b].members,
                   rebases |-> L.batches[b].rebases, leaves |-> L.batches[b].leaves,
                   rootOld |-> L.batches[b].rootOld, tx |-> L.batches[b].tx]
  <1>1. L \in Ledgers
    BY DEF LedgerInv
  <1>2. L.batches[b] \in Batches /\ L.returns \in [Burns -> Returns] /\ MembersOf(L, b) \subseteq Burns
    BY <1>1, LedgerParts
  <1>3. B \in Batches /\ B.status = "failed" /\ B.members = L.batches[b].members
    BY <1>2, NoTxIsInt DEF Batches, BatchStatuses, Roots
  <1>4. M.batches = [L.batches EXCEPT ![b] = B]
    BY <1>2 DEF BatchFailed, Batches
  <1>5. OneBatchChanged(M.batches, L, b, B)
    BY <1>1, <1>3, <1>4, BatchUpdate
  <1>6. /\ \A r \in Burns \ MembersOf(L, b) : M.returns[r] = L.returns[r]
        /\ \A r \in MembersOf(L, b) : M.returns[r] = ScheduleRetry(L.returns[r])
        /\ M = [returns |-> M.returns, batches |-> M.batches] /\ DOMAIN M.returns = Burns
    BY <1>2 DEF BatchFailed, ForReturns
  <1> HIDE DEF M
  <1>7. ASSUME NEW r \in MembersOf(L, b)
        PROVE  M.returns[r] \in Returns /\ RecordJust(r, M.returns[r]) /\ M.returns[r].status = "failed"
    BY <1>2, <1>6, <1>7, ScheduleRetryFacts
  <1> HIDE DEF B
  <1>8. M.returns \in [Burns -> Returns]
    <2>1. \A r \in Burns : M.returns[r] \in Returns
      BY <1>2, <1>6, <1>7
    <2>2. M.returns = [r \in Burns |-> M.returns[r]]
      BY DEF M, BatchFailed, ForReturns
    <2>3. QED
      BY <2>1, <2>2
  <1>9. M \in Ledgers
    BY <1>5, <1>6, <1>8 DEF Ledgers, OneBatchChanged
  <1>10. RecordsJust(M)
    BY <1>6, <1>7 DEF RecordsJust
  <1>11. M.batches[b] = B
    BY <1>5 DEF OneBatchChanged
  <1>12. B.status = "proven" => B.tx = NoTx /\ MembersOf(L, b) \subseteq B.leaves
    BY DEF B
  <1>13. QED
    <2>1. /\ LedgerInv(M, ({b} \ {b}) \cup (IF B.status = "proving" THEN {b} ELSE {}))
          /\ MembersOf(M, b) \subseteq MembersOf(L, b)
      <3>1. \A r \in MembersOf(L, b) :
              \/ M.returns[r].status \notin {"proving", "proven"}
              \/ M.returns[r].status = B.status /\ M.returns[r].batch = b
        BY <1>3, <1>7
      <3>2. \A r \in Burns \ MembersOf(L, b) : M.returns[r] = L.returns[r]
        BY <1>6
      <3>3. QED
        <4>1. B \in Batches /\ B.members = L.batches[b].members
          BY <1>3
        <4>2. QED
          BY <4>1, <1>5, <1>9, <1>12, <3>1, <3>2, OneBatch
    <2>2. QED
      BY <1>3, <1>5, <1>10, <1>11, <2>1 DEF M

(* A batch is formed of pending returns.                                   *)
LEMMA BatchFormedInv ==
  ASSUME NEW L, LedgerInv(L, {}), RecordsJust(L), NEW S \in SUBSET DuePending(L)
  PROVE  LET M == BatchFormed(L, S)
             b == Len(L.batches) + 1 IN
         /\ LedgerInv(M, {b}) /\ RecordsJust(M)
         /\ BatchIds(M) = BatchIds(L) \cup {b} /\ b \notin BatchIds(L)
         /\ \A c \in BatchIds(L) : M.batches[c] = L.batches[c]
         /\ M.batches[b].status = "proving"
  <1> DEFINE M == BatchFormed(L, S)
             b == Len(L.batches) + 1
             B == [status |-> "proving", members |-> S, rebases |-> 0,
                   leaves |-> {}, rootOld |-> {}, tx |-> NoTx]
             Joined(r) == [L.returns[r] EXCEPT !.status = "proving", !.batch = b, !.failure = "none"]
  <1>1. L \in Ledgers /\ MembersPlaced(L) /\ BundlesWhole(L) /\ ProvingBatches(L) = {}
    BY DEF LedgerInv
  <1>2. /\ L.returns \in [Burns -> Returns] /\ L.batches \in Seq(Batches) /\ Len(L.batches) \in Nat
        /\ \A c \in BatchIds(L) : L.batches[c] \in Batches
    BY <1>1, LedgerParts
  <1>3. S \subseteq Burns /\ \A r \in S : IsPending(L.returns[r])
    BY DEF DuePending, Held
  <1>4. B \in Batches
    BY <1>3, NoTxIsInt DEF Batches, BatchStatuses, Roots
  <1>5. M = [returns |-> [r \in Burns |-> IF r \in S THEN Joined(r) ELSE L.returns[r]],
             batches |-> Append(L.batches, B)]
    BY <1>3 DEF BatchFormed, ForReturns
  <1> HIDE DEF M, B, Joined, b
  <1>6. /\ \A r \in S : M.returns[r] = Joined(r)
        /\ \A r \in Burns \ S : M.returns[r] = L.returns[r]
        /\ M.batches = Append(L.batches, B)
        /\ M = [returns |-> M.returns, batches |-> M.batches]
        /\ M.returns = [r \in Burns |-> M.returns[r]]
    BY <1>3, <1>5
  <1>7. ASSUME NEW r \in S
        PROVE  /\ M.returns[r] \in Returns /\ RecordJust(r, M.returns[r])
               /\ M.returns[r].status = "proving" /\ M.returns[r].batch = b
    <2>1. M.returns[r] = Joined(r) /\ L.returns[r] \in Returns
      BY <1>2, <1>3, <1>6, <1>7
    <2>2. b \in Nat
      BY <1>2 DEF b
    <2>3. /\ M.returns[r] \in Returns
          /\ M.returns[r].status = "proving" /\ M.returns[r].batch = b
      BY <2>1, <2>2 DEF Joined, Returns, Statuses, Failures
    <2>4. QED
      BY <2>3 DEF RecordJust, GivenUpJustly, SettledJustly
  <1>8. /\ M.batches \in Seq(Batches) /\ Len(M.batches) = b
        /\ M.batches[b] = B
        /\ \A c \in BatchIds(L) : M.batches[c] = L.batches[c]
    BY <1>2, <1>4, <1>6, AppendProperties DEF BatchIds, b
  <1>9. BatchIds(M) = BatchIds(L) \cup {b} /\ b \notin BatchIds(L)
    BY <1>2, <1>8 DEF BatchIds, b
  <1>10. B.status = "proving" /\ B.members = S
    BY DEF B
  <1>11. M.returns \in [Burns -> Returns]
    <2>1. \A r \in Burns : M.returns[r] \in Returns
      BY <1>2, <1>6, <1>7
    <2>2. QED
      BY <1>6, <2>1
  <1>12. M \in Ledgers
    BY <1>6, <1>8, <1>11 DEF Ledgers
  <1>13. RecordsJust(M)
    BY <1>6, <1>7 DEF RecordsJust
  <1>14. MembersPlaced(M)
    <2> SUFFICES ASSUME NEW r \in Burns, M.returns[r].status \in {"proving", "proven"}
                 PROVE  /\ M.returns[r].batch \in BatchIds(M)
                        /\ r \in M.batches[M.returns[r].batch].members
                        /\ M.batches[M.returns[r].batch].status = M.returns[r].status
      BY DEF MembersPlaced
    <2>1. CASE r \in S
      BY <1>7, <1>8, <1>9, <1>10, <2>1
    <2>2. CASE r \notin S
      <3>1. M.returns[r] = L.returns[r]
        BY <1>6, <2>2
      <3>2. /\ L.returns[r].batch \in BatchIds(L)
            /\ r \in L.batches[L.returns[r].batch].members
            /\ L.batches[L.returns[r].batch].status = L.returns[r].status
        BY <1>1, <3>1 DEF MembersPlaced
      <3>3. QED
        BY <1>8, <1>9, <3>1, <3>2
    <2>3. QED
      BY <2>1, <2>2
  <1>15. BundlesWhole(M)
    <2> SUFFICES ASSUME NEW c \in BatchIds(M), M.batches[c].status = "proven"
                 PROVE  M.batches[c].tx = NoTx /\ MembersOf(M, c) \subseteq M.batches[c].leaves
      BY DEF BundlesWhole
    <2>1. c \in BatchIds(L) /\ M.batches[c] = L.batches[c]
      BY <1>8, <1>9, <1>10
    <2>2. MembersOf(M, c) \subseteq MembersOf(L, c)
      <3> SUFFICES ASSUME NEW r \in MembersOf(M, c) PROVE r \in MembersOf(L, c)
        OBVIOUS
      <3>1. r \in L.batches[c].members /\ InBatch(M.returns[r], c)
        BY <2>1 DEF MembersOf
      <3>2. r \in Burns
        BY <1>2, <2>1, <3>1 DEF Batches
      <3>3. r \notin S
        BY <1>7, <1>9, <2>1, <3>1 DEF InBatch
      <3>4. QED
        BY <1>6, <3>1, <3>2, <3>3 DEF MembersOf
    <2>3. QED
      BY <1>1, <2>1, <2>2 DEF BundlesWhole
  <1>16. ProvingBatches(M) \subseteq {b}
    BY <1>1, <1>8, <1>9 DEF ProvingBatches
  <1>17. LedgerInv(M, {b})
    BY <1>12, <1>14, <1>15, <1>16 DEF LedgerInv
  <1>18. QED
    BY <1>8, <1>9, <1>10, <1>13, <1>17 DEF M, b

(* A stop or a restart: nothing is in proof any more.                      *)
LEMMA InterruptedInv ==
  ASSUME NEW L, NEW W, LedgerInv(L, W), RecordsJust(L), NEW orderly \in BOOLEAN
  PROVE  LET M == Interrupted(L, orderly) IN
         /\ LedgerInv(M, {}) /\ RecordsJust(M)
         /\ BatchIds(M) = BatchIds(L)
         /\ \A b \in BatchIds(L) :
              /\ M.batches[b].status = "proven" <=> L.batches[b].status = "proven"
              /\ M.batches[b].tx = L.batches[b].tx
  <1> DEFINE M == Interrupted(L, orderly)
             Back(ret) == IF orderly THEN RequeueAfterStop(ret) ELSE ScheduleAfterInterruption(ret)
             cut == {r \in Burns : \E b \in ProvingBatches(L) :
                                     r \in MembersOf(L, b) /\ L.returns[r].status = "proving"}
             B(b) == IF b \in ProvingBatches(L)
                     THEN [L.batches[b] EXCEPT !.status = "interrupted"] ELSE L.batches[b]
  <1>1. L \in Ledgers /\ MembersPlaced(L) /\ BundlesWhole(L)
    BY DEF LedgerInv
  <1>2. /\ L.returns \in [Burns -> Returns] /\ Len(L.batches) \in Nat
        /\ \A c \in BatchIds(L) : L.batches[c] \in Batches /\ MembersOf(L, c) \subseteq Burns
    BY <1>1, LedgerParts
  <1>3. M = [returns |-> [r \in Burns |-> IF r \in cut THEN Back(L.returns[r]) ELSE L.returns[r]],
             batches |-> [b \in BatchIds(L) |-> B(b)]]
    BY DEF Interrupted, ForReturns
  <1>4. /\ \A r \in cut : M.returns[r] = Back(L.returns[r])
        /\ \A r \in Burns \ cut : M.returns[r] = L.returns[r]
        /\ M = [returns |-> M.returns, batches |-> M.batches]
        /\ M.returns = [r \in Burns |-> M.returns[r]]
        /\ M.batches = [b \in BatchIds(L) |-> M.batches[b]]
    BY <1>3
  <1>5. ASSUME NEW b \in BatchIds(L)
        PROVE  /\ M.batches[b] \in Batches
               /\ M.batches[b].members = L.batches[b].members
               /\ M.batches[b].leaves = L.batches[b].leaves
               /\ M.batches[b].tx = L.batches[b].tx
               /\ M.batches[b].status # "proving"
               /\ b \notin ProvingBatches(L) => M.batches[b] = L.batches[b]
               /\ b \in ProvingBatches(L) => M.batches[b].status = "interrupted"
    <2>1. M.batches[b] = B(b) /\ L.batches[b] \in Batches
      BY <1>2, <1>3, <1>5
    <2>2. b \in ProvingBatches(L) <=> L.batches[b].status = "proving"
      BY <1>5 DEF ProvingBatches
    <2> HIDE DEF M
    <2>3. CASE b \in ProvingBatches(L)
      BY <2>1, <2>3 DEF Batches, BatchStatuses
    <2>4. CASE b \notin ProvingBatches(L)
      BY <2>1, <2>2, <2>4
    <2>5. QED
      BY <2>3, <2>4
  <1>6. ASSUME NEW r \in cut
        PROVE  /\ M.returns[r] \in Returns /\ RecordJust(r, M.returns[r])
               /\ M.returns[r].status \notin {"proving", "proven"}
    <2>1. r \in Burns /\ L.returns[r] \in Returns /\ M.returns[r] = Back(L.returns[r])
      BY <1>2, <1>4, <1>6
    <2>2. QED
      BY <2>1, InterruptionFacts
  <1>7. ASSUME NEW r \in Burns, L.returns[r].status = "proving"
        PROVE  r \in cut
    BY <1>1, <1>7 DEF MembersPlaced, ProvingBatches, MembersOf, InBatch
  <1> HIDE DEF M, cut
  <1>8. M.batches \in Seq(Batches) /\ Len(M.batches) = Len(L.batches)
    BY <1>2, <1>4, <1>5 DEF BatchIds
  <1>9. BatchIds(M) = BatchIds(L)
    BY <1>8 DEF BatchIds
  <1>10. M.returns \in [Burns -> Returns]
    <2>1. \A r \in Burns : M.returns[r] \in Returns
      BY <1>2, <1>4, <1>6
    <2>2. QED
      BY <1>4, <2>1
  <1>11. M \in Ledgers
    BY <1>4, <1>8, <1>10 DEF Ledgers
  <1>12. RecordsJust(M)
    BY <1>4, <1>6 DEF RecordsJust
  <1>13. MembersPlaced(M)
    <2> SUFFICES ASSUME NEW r \in Burns, M.returns[r].status \in {"proving", "proven"}
                 PROVE  /\ M.returns[r].batch \in BatchIds(M)
                        /\ r \in M.batches[M.returns[r].batch].members
                        /\ M.batches[M.returns[r].batch].status = M.returns[r].status
      BY DEF MembersPlaced
    <2>1. M.returns[r] = L.returns[r] /\ L.returns[r].status = "proven"
      BY <1>4, <1>6, <1>7
    <2>2. /\ L.returns[r].batch \in BatchIds(L)
          /\ r \in L.batches[L.returns[r].batch].members
          /\ L.batches[L.returns[r].batch].status = "proven"
      BY <1>1, <2>1 DEF MembersPlaced
    <2>3. L.returns[r].batch \notin ProvingBatches(L)
      BY <2>2 DEF ProvingBatches
    <2>4. QED
      BY <1>5, <1>9, <2>1, <2>2, <2>3
  <1>14. ASSUME NEW c \in BatchIds(L) PROVE MembersOf(M, c) \subseteq MembersOf(L, c)
    BY <1>2, <1>4, <1>5, <1>6, <1>14 DEF MembersOf, InBatch, Batches
  <1>15. BundlesWhole(M)
    BY <1>1, <1>5, <1>9, <1>14 DEF BundlesWhole
  <1>16. ProvingBatches(M) = {}
    BY <1>5, <1>9 DEF ProvingBatches
  <1>17. LedgerInv(M, {})
    BY <1>11, <1>13, <1>15, <1>16 DEF LedgerInv
  <1>18. \A b \in BatchIds(L) : M.batches[b].status = "proven" <=> L.batches[b].status = "proven"
    BY <1>5 DEF ProvingBatches
  <1>19. QED
    BY <1>5, <1>9, <1>12, <1>17, <1>18 DEF M

-------------------------------------------------------------------------------
(* What a step leaves alone                                                *)

(* A settlement that was released stays released: the log only grows.      *)
LEMMA RecordsKept ==
  ASSUME \A t \in LogEntries : t \in LogEntries', RecordsJust(ledger')
  PROVE  RecordsJust(ledger)'
  BY DEF RecordsJust, RecordJust, GivenUpJustly, SettledJustly, ReleasedIn

LEMMA TxQuiet ==
  ASSUME IInv, UNCHANGED chain, mine' \in {mine, NoTx}, pc' # "receipt"
  PROVE  TxInv'
  <1>1. TxInv /\ mine \in Nat /\ nextTx \in Nat
    BY DEF IInv, TypeOK
  <1>2. LogEntries' = LogEntries /\ mempool' = mempool /\ nextTx' = nextTx
    BY DEF chain, LogEntries
  <1>3. mine' < nextTx
    BY <1>1 DEF TxInv, NoTx
  <1>4. QED
    BY <1>1, <1>2, <1>3 DEF TxInv

(* The parts of the type invariant.                                        *)
TaskType ==
  /\ cur \in 0..Len(ledger.batches)
  /\ acc.spent \in Roots /\ acc.tx \in [acc.spent -> Txs]
  /\ kept \in SUBSET Burns
  /\ DOMAIN asked \subseteq Burns /\ asked \in [DOMAIN asked -> Txs]
  /\ DOMAIN todo \subseteq Burns /\ todo \in [DOMAIN todo -> Verdicts]
  /\ cont \in {"take", "prove", "fail", "released"}
  /\ mine \in Nat
ChainType == vaultLog \in Seq(Entries) /\ mempool \subseteq Entries /\ nextTx \in Nat
ModeType == draining \in BOOLEAN /\ hasSubmitter \in Submitters /\ kinds \in Profiles

LEMMA TypeParts ==
  TypeOK <=> /\ ledger \in Ledgers /\ pc \in Pcs
             /\ TaskType /\ ChainType /\ ModeType
             /\ resume \subseteq BatchIds(ledger)
             /\ faults \in 0..MaxFaults
  BY DEF TypeOK, TaskType, ChainType, ModeType

LEMMA TypePartsNext ==
  TypeOK' <=> /\ ledger' \in Ledgers /\ pc' \in Pcs
              /\ TaskType' /\ ChainType' /\ ModeType'
              /\ resume' \subseteq BatchIds(ledger')
              /\ faults' \in 0..MaxFaults
  BY DEF TypeOK, TaskType, ChainType, ModeType, BatchIds

LEMMA FaultCounted ==
  ASSUME faults \in 0..MaxFaults, NoFault \/ \E kind \in FaultKinds : Fault(kind)
  PROVE  faults' \in 0..MaxFaults
  BY ServiceAssumption DEF NoFault, Fault, MayFail

LEMMA Restful ==
  ASSUME BackToLoop, ledger' \in Ledgers
  PROVE  TaskType' /\ cur' = 0 /\ pc' = "next" /\ cont' = "take" /\ mine' = NoTx /\ DOMAIN todo' = {}
  <1>1. /\ EmptyAcc.spent = {} /\ EmptyAcc.tx \in [EmptyAcc.spent -> Txs]
        /\ DOMAIN None = {} /\ None \in [{} -> Txs] /\ None \in [{} -> Verdicts]
    BY DEF EmptyAcc, None
  <1>2. Len(ledger'.batches) \in Nat
    BY DEF Ledgers
  <1>3. NoTx \in Nat /\ {} \in Roots /\ {} \in SUBSET Burns
    BY DEF NoTx, Roots
  <1>4. QED
    BY <1>1, <1>2, <1>3 DEF BackToLoop, TaskType

(* Work on a batch begins and ends with the batch in flight.               *)
LEMMA InFlight ==
  ASSUME IInv, ~AtRest
  PROVE  /\ cur \in BatchIds(ledger) /\ cur # 0
         /\ LedgerInv(ledger, {cur}) /\ RecordsJust(ledger)
         /\ ledger.batches[cur] \in Batches
  <1>1. cur # 0 /\ cur \in 0..Len(ledger.batches) /\ ledger \in Ledgers
    BY DEF IInv, StageInv, TypeOK
  <1>2. cur \in BatchIds(ledger)
    BY <1>1, LedgerParts DEF BatchIds
  <1>3. QED
    BY <1>1, <1>2, LedgerParts DEF IInv

(* A batch that is over: the task returns to its loop.                     *)
LEMMA LoopStep ==
  ASSUME IInv, ~AtRest, BackToLoop, UNCHANGED <<resume, mode, chain>>, faults' \in 0..MaxFaults,
         LedgerInv(ledger', {}), RecordsJust(ledger'),
         OneBatchChanged(ledger'.batches, ledger, cur, ledger'.batches[cur]),
         hasSubmitter => ledger'.batches[cur].status # "proven"
  PROVE  IInv'
  <1>1. ledger' \in Ledgers /\ BatchIds(ledger') = BatchIds(ledger)
    BY DEF LedgerInv, OneBatchChanged, BatchIds
  <1>2. /\ TaskType' /\ cur' = 0 /\ pc' = "next" /\ cont' = "take" /\ mine' = NoTx
        /\ DOMAIN todo' = {}
    BY <1>1, Restful
  <1>3. TypeOK'
    BY <1>1, <1>2, TypeParts, TypePartsNext DEF IInv, Pcs, mode, chain, ModeType, ChainType
  <1>4. LedgerInv(ledger', {cur'})
    BY DEF LedgerInv
  <1>5. RecordsJust(ledger)'
    BY RecordsKept DEF chain, LogEntries
  <1>6. StageInv'
    BY <1>2 DEF StageInv, AtRest
  <1>7. ResumeInv'
    <2>1. resume \subseteq BatchIds(ledger) /\ ResumeInv
      BY DEF IInv, TypeOK
    <2>2. \A b \in BatchIds(ledger) \ {cur} : ledger'.batches[b] = ledger.batches[b]
      BY DEF OneBatchChanged
    <2>3. \A b \in resume : ledger'.batches[b].status = "proven" /\ b # 0
      BY <2>1, <2>2, LedgerParts, InFlight DEF ResumeInv, BatchIds
    <2>4. hasSubmitter =>
            {b \in BatchIds(ledger') : ledger'.batches[b].status = "proven"} \subseteq resume
      BY <1>1, <2>1, <2>2 DEF ResumeInv, ProofsNotForgotten
    <2>5. ProofsNotForgotten'
      BY <2>4 DEF ProofsNotForgotten, mode, BatchIds
    <2>6. QED
      BY <1>2, <2>3, <2>5 DEF ResumeInv, Verdict
  <1>8. VerdictInv'
    BY <1>2 DEF VerdictInv
  <1>9. TxInv'
    BY <1>2, TxQuiet
  <1>10. QED
    BY <1>3, <1>4, <1>5, <1>6, <1>7, <1>8, <1>9 DEF IInv, LedgerInv, MembersPlaced, BundlesWhole,
         BatchIds, ProvingBatches, MembersOf

(* The batch in flight fails.                                              *)
LEMMA FailStep ==
  ASSUME IInv, ~AtRest, Fail, UNCHANGED <<resume, mode, chain>>, faults' \in 0..MaxFaults
  PROVE  IInv'
  <1>1. BackToLoop /\ ledger' = BatchFailed(ledger, cur)
    BY DEF Fail
  <1>2. /\ LedgerInv(ledger', {}) /\ RecordsJust(ledger')
        /\ OneBatchChanged(ledger'.batches, ledger, cur, ledger'.batches[cur])
        /\ ledger'.batches[cur].status = "failed"
    BY <1>1, InFlight, BatchFailedInv
  <1>3. QED
    BY <1>1, <1>2, LoopStep

(* The vault's root moved: the batch is proved again, or fails.            *)
LEMMA RebaseStep ==
  ASSUME IInv, pc \in {"settle", "await", "receipt"}, RebaseOrFail,
         UNCHANGED <<resume, mode, chain>>, faults' \in 0..MaxFaults
  PROVE  IInv'
  <1>1. ~AtRest /\ cont = "take"
    BY DEF AtRest, IInv, StageInv, Verdict
  <1>2. CASE ledger.batches[cur].rebases < MaxRebases
    <2>1. /\ ledger' = BatchRebased(ledger, cur)
          /\ pc' = "sync" /\ mine' = NoTx /\ acc' = EmptyAcc
          /\ UNCHANGED <<cur, kept, asked, todo, cont>>
      BY <1>2 DEF RebaseOrFail
    <2>2. /\ LedgerInv(ledger', {cur}) /\ RecordsJust(ledger')
          /\ OneBatchChanged(ledger'.batches, ledger, cur, ledger'.batches[cur])
          /\ ledger'.batches[cur].status = "proving"
      BY <1>1, <2>1, InFlight, BatchRebasedInv
    <2>3. /\ ledger' \in Ledgers /\ BatchIds(ledger') = BatchIds(ledger)
          /\ Len(ledger'.batches) = Len(ledger.batches)
      BY <2>2 DEF LedgerInv, OneBatchChanged, BatchIds
    <2>4. TypeOK'
      <3>1. TaskType
        BY TypeParts DEF IInv
      <3>2. EmptyAcc.spent \in Roots /\ EmptyAcc.tx \in [EmptyAcc.spent -> Txs] /\ NoTx \in Nat
        BY DEF EmptyAcc, Roots, NoTx
      <3>3. TaskType'
        BY <2>1, <2>3, <3>1, <3>2 DEF TaskType
      <3>4. QED
        BY <2>1, <2>3, <3>3, TypeParts, TypePartsNext DEF IInv, Pcs, mode, chain, ModeType, ChainType
    <2>5. RecordsJust(ledger)'
      BY <2>2, RecordsKept DEF chain, LogEntries
    <2>6. StageInv'
      <3>1. cur # 0
        BY <1>1, InFlight
      <3>2. QED
        BY <1>1, <2>1, <2>2, <3>1 DEF StageInv, AtRest, Verdict
    <2>7. ResumeInv'
      <3>1. ResumeInv /\ resume \subseteq BatchIds(ledger) /\ resume' = resume
        BY DEF IInv, TypeOK
      <3>2. \A b \in BatchIds(ledger) \ {cur} : ledger'.batches[b] = ledger.batches[b]
        BY <2>2 DEF OneBatchChanged
      <3>3. ProofsNotForgotten'
        BY <2>1, <2>3, <3>1, <3>2 DEF ResumeInv, ProofsNotForgotten, BatchIds, mode
      <3>4. QED
        BY <2>1, <3>1, <3>2, <3>3 DEF ResumeInv, Verdict
    <2>8. VerdictInv'
      BY <1>1, <2>1 DEF IInv, VerdictInv, ReleasedIn, LogEntries, chain
    <2>9. TxInv'
      BY <2>1, TxQuiet
    <2>10. QED
      BY <2>1, <2>2, <2>4, <2>5, <2>6, <2>7, <2>8, <2>9
         DEF IInv, LedgerInv, MembersPlaced, BundlesWhole, BatchIds, ProvingBatches, MembersOf
  <1>3. CASE ~(ledger.batches[cur].rebases < MaxRebases)
    BY <1>1, <1>3, FailStep DEF RebaseOrFail
  <1>4. QED
    BY <1>2, <1>3

(* The process starts again.                                               *)
LEMMA RestartStep ==
  ASSUME IInv, NEW L, NEW W, LedgerInv(L, W), RecordsJust(L),
         Restarts(L), faults' \in 0..MaxFaults
  PROVE  IInv'
  <1>1. /\ ledger' = Interrupted(L, FALSE) /\ resume' = UnsettledProofs(L)
        /\ BackToLoop /\ draining' = FALSE
        /\ UNCHANGED <<hasSubmitter, kinds, chain>>
    BY DEF Restarts
  <1>2. /\ LedgerInv(ledger', {}) /\ RecordsJust(ledger')
        /\ BatchIds(ledger') = BatchIds(L)
        /\ \A b \in BatchIds(L) :
             ledger'.batches[b].status = "proven" <=> L.batches[b].status = "proven"
    BY <1>1, InterruptedInv
  <1>3. ledger' \in Ledgers
    BY <1>2 DEF LedgerInv
  <1>4. /\ TaskType' /\ cur' = 0 /\ pc' = "next" /\ cont' = "take" /\ mine' = NoTx
        /\ DOMAIN todo' = {}
    BY <1>1, <1>3, Restful
  <1>5. resume' = {b \in BatchIds(L) : L.batches[b].status = "proven"}
    BY <1>1 DEF UnsettledProofs, LedgerInv, BundlesWhole
  <1>6. TypeOK'
    BY <1>1, <1>2, <1>3, <1>4, <1>5, TypeParts, TypePartsNext DEF IInv, Pcs, chain, ModeType, ChainType
  <1>7. RecordsJust(ledger)'
    BY <1>1, <1>2, RecordsKept DEF chain, LogEntries
  <1>8. StageInv'
    BY <1>4 DEF StageInv, AtRest
  <1>9. ResumeInv'
    <2>1. \A b \in resume' : ledger'.batches[b].status = "proven" /\ b # 0
      BY <1>2, <1>5 DEF BatchIds
    <2>2. ProofsNotForgotten'
      BY <1>2, <1>5 DEF ProofsNotForgotten, BatchIds
    <2>3. QED
      BY <1>4, <2>1, <2>2 DEF ResumeInv, Verdict
  <1>10. VerdictInv'
    BY <1>4 DEF VerdictInv
  <1>11. TxInv'
    BY <1>1, <1>4, TxQuiet
  <1>12. QED
    BY <1>2, <1>4, <1>6, <1>7, <1>8, <1>9, <1>10, <1>11
       DEF IInv, LedgerInv, MembersPlaced, BundlesWhole, BatchIds, ProvingBatches, MembersOf

-------------------------------------------------------------------------------
(* The steps of the loop                                                   *)

(* A step that changes neither the ledger, nor the chain, nor what is held *)
(* across the awaits.                                                      *)
LEMMA LedgerQuiet ==
  ASSUME IInv, UNCHANGED <<ledger, chain>>
  PROVE  /\ RecordsJust(ledger)' /\ ledger' \in Ledgers /\ BatchIds(ledger') = BatchIds(ledger)
         /\ \A W : LedgerInv(ledger, W) => LedgerInv(ledger, W)'
         /\ ChainType'
  BY RecordsKept, TypeParts
     DEF IInv, chain, LogEntries, ChainType, RecordsJust, RecordJust, GivenUpJustly, SettledJustly,
         ReleasedIn, LedgerInv, MembersPlaced, BundlesWhole, BatchIds, ProvingBatches, MembersOf

LEMMA ResumeStep ==
  ASSUME IInv, NEW b \in resume, Resume(b)
  PROVE  IInv'
  <1>1. /\ pc = "next" /\ cont = "take" /\ cur = 0
        /\ ledger.batches[b].status = "proven" /\ b \in BatchIds(ledger)
    BY DEF Resume, IInv, StageInv, ResumeInv, AtRest, TypeOK, Verdict
  <1>2. /\ resume' = resume \ {b} /\ cur' = b /\ pc' = "settle"
        /\ UNCHANGED <<ledger, chain>> /\ UNCHANGED <<acc, kept, asked, todo, cont, mine, mode, faults>>
    BY DEF Resume
  <1>3. TypeOK'
    <2>1. TaskType /\ ModeType
      BY TypeParts DEF IInv
    <2>2. TaskType' /\ ModeType'
      BY <1>1, <1>2, <2>1 DEF TaskType, ModeType, mode, BatchIds
    <2>3. QED
      BY <1>2, <2>2, LedgerQuiet, TypeParts, TypePartsNext DEF IInv, Pcs
  <1>4. LedgerInv(ledger, {cur})'
    <2>1. ProvingBatches(ledger) = {}
      BY <1>1 DEF IInv, LedgerInv, ProvingBatches, BatchIds
    <2>2. LedgerInv(ledger, {b})
      BY <2>1 DEF IInv, LedgerInv
    <2>3. QED
      BY <1>2, <2>2 DEF LedgerInv, MembersPlaced, BundlesWhole, BatchIds, ProvingBatches, MembersOf
  <1>5. StageInv'
    BY <1>1, <1>2 DEF StageInv, AtRest, Verdict, BatchIds
  <1>6. ResumeInv'
    BY <1>1, <1>2 DEF IInv, ResumeInv, ProofsNotForgotten, BatchIds, mode, Verdict
  <1>7. VerdictInv'
    BY <1>1, <1>2 DEF IInv, VerdictInv, ReleasedIn, LogEntries, chain
  <1>8. TxInv'
    BY <1>2, TxQuiet
  <1>9. QED
    BY <1>2, <1>3, <1>4, <1>5, <1>6, <1>7, <1>8, LedgerQuiet DEF IInv

(* A step that leaves the ledger, the batch in flight and the chain alone. *)
LEMMA QuietTask ==
  ASSUME IInv, UNCHANGED <<ledger, cur, resume, mode, chain>>,
         pc' \in Pcs \ {"receipt"}, mine' \in {mine, NoTx}, faults' \in 0..MaxFaults,
         TaskType', StageInv', VerdictInv',
         pc' = "take" \/ (pc' \in Verdict /\ cont' = "take") => resume = {}
  PROVE  IInv'
  <1>1. TypeOK'
    BY LedgerQuiet, TypeParts, TypePartsNext DEF IInv, mode, ModeType
  <1>2. LedgerInv(ledger, {cur})'
    BY LedgerQuiet DEF IInv, LedgerInv, MembersPlaced, BundlesWhole, BatchIds, ProvingBatches, MembersOf
  <1>3. ResumeInv'
    BY DEF IInv, ResumeInv, ProofsNotForgotten, BatchIds, mode
  <1>4. TxInv'
    BY TxQuiet
  <1>5. QED
    BY <1>1, <1>2, <1>3, <1>4, LedgerQuiet DEF IInv

(* The verdicts read against a log that has grown.                         *)
LEMMA ReleasesKept ==
  ASSUME \A t \in LogEntries : t \in LogEntries', NEW r, NEW tx, ReleasedIn(r, tx)
  PROVE  ReleasedIn(r, tx)'
  BY DEF ReleasedIn

LEMMA DrainedStep ==
  ASSUME IInv, Drained
  PROVE  IInv'
  <1>1. /\ pc \in {"next", "take"} /\ pc' = "drained"
        /\ UNCHANGED <<ledger, resume, mode, chain, faults>>
        /\ UNCHANGED <<cur, acc, kept, asked, todo, cont, mine>>
    BY DEF Drained, task
  <1>2. cont = "take" /\ cur = 0
    BY <1>1 DEF IInv, StageInv, AtRest, Verdict
  <1>3. TaskType'
    BY <1>1, TypeParts DEF IInv, TaskType
  <1>4. StageInv'
    BY <1>1, <1>2 DEF StageInv, AtRest
  <1>5. VerdictInv'
    BY <1>1, <1>2 DEF IInv, VerdictInv, ReleasedIn, LogEntries, chain
  <1>6. QED
    BY <1>1, <1>3, <1>4, <1>5, QuietTask DEF IInv, TypeOK, Pcs, Verdict

LEMMA NothingDueStep ==
  ASSUME IInv, NothingDue
  PROVE  IInv'
  <1>1. /\ pc = "take" /\ pc' = "next"
        /\ UNCHANGED <<ledger, resume, mode, chain, faults>>
        /\ UNCHANGED <<cur, acc, kept, asked, todo, cont, mine>>
    BY DEF NothingDue, task
  <1>2. cont = "take" /\ cur = 0
    BY <1>1 DEF IInv, StageInv, AtRest, Verdict
  <1>3. TaskType'
    BY <1>1, TypeParts DEF IInv, TaskType
  <1>4. StageInv'
    BY <1>1, <1>2 DEF StageInv, AtRest
  <1>5. VerdictInv'
    BY <1>1, <1>2 DEF IInv, VerdictInv, ReleasedIn, LogEntries, chain
  <1>6. QED
    BY <1>1, <1>3, <1>4, <1>5, QuietTask DEF IInv, TypeOK, Pcs, Verdict

LEMMA SyncFaults ==
  ASSUME IInv, SyncFails \/ \E fetched : Synced(fetched)
  PROVE  faults' \in 0..MaxFaults
  <1>1. NoFault \/ \E kind \in FaultKinds : Fault(kind)
    BY DEF SyncFails, Synced, Reads, FaultKinds
  <1>2. QED
    BY <1>1, FaultCounted DEF IInv, TypeOK

(* What the accumulator holds once it is rebuilt.                          *)
LEMMA RebuiltType ==
  ASSUME IInv, NEW fetched \in Fetchable
  PROVE  /\ Rebuilt(fetched).spent \in Roots
         /\ Rebuilt(fetched).tx \in [Rebuilt(fetched).spent -> Txs]
  <1> DEFINE spent == UNION {t.nullifiers : t \in Merged(fetched)}
             Copies(n, log) == {t \in log : n \in t.nullifiers}
             Source(n) == IF Copies(n, fetched) # {} THEN fetched ELSE SettledBatches(ledger)
             Read(t) == t.nullifiers \in Roots /\ t.tx \in Int
  <1>1. vaultLog \in Seq(Entries) /\ ledger \in Ledgers
    BY DEF IInv, TypeOK
  <1>2. \A i \in 1..Len(vaultLog) : vaultLog[i] \in Entries
    BY <1>1, ElementOfSeq
  <1>3. \A t \in LogEntries : t \in Entries
    BY <1>2 DEF LogEntries
  <1>4. \A t \in fetched : Read(t)
    <2>1. \A t \in LogEntries : Read(t)
      BY <1>3 DEF Entries
    <2>2. ASSUME fetched \in Prefixes PROVE \A t \in fetched : Read(t)
      <3>1. fetched \subseteq LogEntries
        BY <1>1, <2>2 DEF Prefixes, LogEntries
      <3>2. QED
        BY <2>1, <3>1
    <2>3. ASSUME fetched \in WithPhantom PROVE \A t \in fetched : Read(t)
      <3>1. PICK S \in SUBSET (Burns \ VaultRoot), tx \in {PhantomTx} \cup {t.tx : t \in LogEntries} :
              fetched = LogEntries \cup {[rootOld |-> VaultRoot, nullifiers |-> S, tx |-> tx]}
        BY <2>3 DEF WithPhantom
      <3>2. S \in Roots
        BY DEF Roots
      <3>3. tx \in Int
        BY <2>1 DEF PhantomTx
      <3>4. QED
        BY <2>1, <3>1, <3>2, <3>3
    <2>4. QED
      BY <2>1, <2>2, <2>3 DEF Fetchable
  <1>5. \A t \in SettledBatches(ledger) : Read(t)
    <2>1. \A b \in BatchIds(ledger) : ledger.batches[b] \in Batches
      BY <1>1, LedgerParts
    <2>2. QED
      BY <2>1 DEF SettledBatches, Transition, Batches, Roots
  <1>6. \A t \in Merged(fetched) : t.nullifiers \in Roots
    BY <1>4, <1>5 DEF Merged, TransitionOf
  <1>7. spent \in Roots
    BY <1>6 DEF Roots
  <1>8. ASSUME NEW n \in spent
        PROVE  (CHOOSE t \in Copies(n, Source(n)) : TRUE).tx \in Txs
    <2>1. PICK u \in fetched \cup SettledBatches(ledger) : n \in u.nullifiers
      BY DEF Merged, TransitionOf
    <2>2. Copies(n, Source(n)) # {}
      BY <2>1
    <2>3. (CHOOSE t \in Copies(n, Source(n)) : TRUE) \in Copies(n, Source(n))
      BY <2>2
    <2>4. \A t \in Copies(n, Source(n)) : t.tx \in Int
      BY <1>4, <1>5
    <2>5. QED
      BY <2>3, <2>4 DEF Txs
  <1>9. Rebuilt(fetched) =
          [spent |-> spent, tx |-> [n \in spent |-> (CHOOSE t \in Copies(n, Source(n)) : TRUE).tx]]
    BY DEF Rebuilt
  <1> HIDE DEF spent, Copies, Source
  <1>10. QED
    BY <1>7, <1>8, <1>9

LEMMA RecheckFailsStep ==
  ASSUME IInv, RecheckFails
  PROVE  IInv'
  <1> DEFINE later == [r \in ReleasesDue(ledger) |-> [kind |-> "unconfirmed", tx |-> NoTx]]
  <1>1. /\ pc = "next" /\ resume = {} /\ SyncFails
        /\ todo' = later /\ cont' = "take" /\ pc' = "exclude"
        /\ UNCHANGED <<ledger, cur, acc, kept, asked, mine, resume, mode, chain>>
    BY DEF RecheckFails
  <1>2. cur = 0
    BY <1>1 DEF IInv, StageInv, AtRest
  <1>3. TaskType'
    <2>1. TaskType
      BY TypeParts DEF IInv
    <2>2. DOMAIN later \subseteq Burns /\ later \in [DOMAIN later -> Verdicts]
      BY NoTxIsInt DEF ReleasesDue, Held, Verdicts
    <2>3. QED
      BY <1>1, <2>1, <2>2 DEF TaskType
  <1>4. StageInv'
    BY <1>1, <1>2 DEF StageInv, AtRest, Verdict
  <1>5. VerdictInv'
    BY <1>1 DEF VerdictInv
  <1>6. QED
    BY <1>1, <1>3, <1>4, <1>5, SyncFaults, QuietTask DEF Pcs

-------------------------------------------------------------------------------
(* The steps of prove_stage and of the verdicts                            *)

LEMMA SyncForProofStep ==
  ASSUME IInv, NEW fetched \in Fetchable, SyncForProof(fetched)
  PROVE  IInv'
  <1>1. /\ pc = "sync" /\ pc' = "simulate" /\ acc' = Rebuilt(fetched) /\ Synced(fetched)
        /\ UNCHANGED <<ledger, cur, kept, asked, todo, cont, mine, resume, mode, chain>>
    BY DEF SyncForProof
  <1>2. cont = "take" /\ cur # 0
    BY <1>1 DEF IInv, StageInv, AtRest, Verdict
  <1>3. TaskType'
    BY <1>1, RebuiltType, TypeParts DEF IInv, TaskType
  <1>4. StageInv'
    BY <1>1, <1>2 DEF IInv, StageInv, AtRest, Verdict
  <1>5. VerdictInv'
    BY <1>1, <1>2 DEF IInv, VerdictInv, ReleasedIn, LogEntries, chain
  <1>6. QED
    BY <1>1, <1>3, <1>4, <1>5, SyncFaults, QuietTask DEF Pcs, Verdict

LEMMA AssembleStep ==
  ASSUME IInv, NEW rejected \in SUBSET Burns, Assemble(rejected)
  PROVE  IInv'
  <1> DEFINE members == ledger.batches[cur].members
             setAside == members \cap (BadLock \cup rejected)
             released == (members \ setAside) \cap acc.spent
  <1>1. /\ pc = "simulate" /\ pc' = "confirm"
        /\ kept' = members \ (setAside \cup released)
        /\ todo' = [r \in setAside |->
                      [kind |-> IF r \in BadLock THEN "invalid" ELSE "rejected", tx |-> NoTx]]
        /\ asked' = [r \in released |-> acc.tx[r]]
        /\ cont' \in {"fail", "prove"}
        /\ UNCHANGED <<ledger, cur, acc, mine, resume, mode, chain>>
        /\ NoFault \/ Fault("rejected")
    BY DEF Assemble
  <1>2. ~AtRest /\ ledger.batches[cur].status = "proving" /\ cur # 0
    BY <1>1 DEF IInv, StageInv, AtRest, Verdict
  <1>3. members \subseteq Burns
    BY <1>2, InFlight DEF Batches
  <1> HIDE DEF members
  <1>4. TaskType'
    <2>1. TaskType
      BY TypeParts DEF IInv
    <2>2. DOMAIN asked' \subseteq Burns /\ asked' \in [DOMAIN asked' -> Txs]
      BY <1>1, <1>3, <2>1 DEF TaskType
    <2>3. \A r \in setAside :
            [kind |-> IF r \in BadLock THEN "invalid" ELSE "rejected", tx |-> NoTx] \in Verdicts
      BY NoTxIsInt DEF Verdicts
    <2>4. DOMAIN todo' \subseteq Burns /\ todo' \in [DOMAIN todo' -> Verdicts]
      BY <1>1, <1>3, <2>3
    <2>5. kept' \in SUBSET Burns
      BY <1>1, <1>3
    <2>6. QED
      BY <1>1, <2>1, <2>2, <2>4, <2>5 DEF TaskType
  <1>5. StageInv'
    BY <1>1, <1>2 DEF StageInv, AtRest, Verdict
  <1>6. VerdictInv'
    <2>1. MembersOf(ledger', cur') \subseteq members
      BY <1>1 DEF MembersOf, members
    <2>2. members \subseteq kept' \cup DOMAIN todo' \cup DOMAIN asked'
      BY <1>1
    <2>3. \A r \in DOMAIN todo' :
            /\ todo'[r].kind = "invalid" => r \in BadLock
            /\ todo'[r].kind # "confirmed"
      BY <1>1
    <2>4. QED
      BY <1>1, <2>1, <2>2, <2>3 DEF VerdictInv, MembersOf
  <1>7. faults' \in 0..MaxFaults
    BY <1>1, FaultCounted DEF IInv, TypeOK, FaultKinds
  <1>8. QED
    BY <1>1, <1>4, <1>5, <1>6, <1>7, QuietTask DEF Pcs

(* Whatever makes the batch fail while the task works on it.               *)
LEMMA FailingSteps ==
  ASSUME IInv,
         SyncFailed \/ SimulationFailed \/ ProofFailed \/ SubmissionFailed \/ GiveUp
  PROVE  IInv'
  <1>1. /\ pc \in {"sync", "settle", "simulate", "prove", "submit", "receipt", "await"}
        /\ Fail /\ UNCHANGED <<resume, mode, chain>>
    BY DEF SyncFailed, SimulationFailed, ProofFailed, SubmissionFailed, GiveUp
  <1>2. \/ SyncFails \/ (\E fetched : Synced(fetched))
        \/ NoFault \/ \E kind \in FaultKinds : Fault(kind)
    BY DEF SyncFailed, SimulationFailed, ProofFailed, SubmissionFailed, GiveUp, FaultKinds
  <1>3. faults' \in 0..MaxFaults
    BY <1>2, SyncFaults, FaultCounted DEF IInv, TypeOK
  <1>4. ~AtRest
    BY <1>1 DEF AtRest, Verdict
  <1>5. QED
    BY <1>1, <1>3, <1>4, FailStep

LEMMA ConfirmStep ==
  ASSUME IInv, NEW confirmed \in SUBSET Burns, Confirm(confirmed)
  PROVE  IInv'
  <1>1. /\ pc = "confirm" /\ Answers(confirmed)
        /\ todo' = [r \in DOMAIN todo \cup DOMAIN asked |->
                      IF r \in DOMAIN asked THEN Answered(confirmed)[r] ELSE todo[r]]
        /\ asked' = None
        /\ cont' = IF cont = "released" THEN "fail" ELSE cont
        /\ pc' = "exclude"
        /\ UNCHANGED <<ledger, cur, acc, kept, mine, resume, mode, chain>>
    BY DEF Confirm
  <1>2. TaskType
    BY TypeParts DEF IInv
  <1>3. \A r \in DOMAIN asked :
          /\ Answered(confirmed)[r] \in Verdicts
          /\ Answered(confirmed)[r].kind \in {"confirmed", "unconfirmed"}
          /\ Answered(confirmed)[r].kind = "confirmed" => ReleasedIn(r, Answered(confirmed)[r].tx)
    BY <1>1, <1>2 DEF TaskType, Answered, Answers, Confirmable, Verdicts, Txs
  <1>4. DOMAIN None = {} /\ None \in [{} -> Txs]
    BY DEF None
  <1>5. TaskType'
    <2>1. DOMAIN todo' \subseteq Burns /\ todo' \in [DOMAIN todo' -> Verdicts]
      BY <1>1, <1>2, <1>3 DEF TaskType
    <2>2. DOMAIN asked' \subseteq Burns /\ asked' \in [DOMAIN asked' -> Txs]
      BY <1>1, <1>4
    <2>3. cont' \in {"take", "prove", "fail", "released"}
      BY <1>1, <1>2 DEF TaskType
    <2>4. QED
      BY <1>1, <1>2, <2>1, <2>2, <2>3 DEF TaskType
  <1>6. StageInv'
    BY <1>1, <1>2 DEF IInv, StageInv, AtRest, Verdict, TaskType
  <1>7. VerdictInv'
    <2>1. \A r \in DOMAIN todo' :
            /\ todo'[r].kind = "invalid" => r \in BadLock
            /\ todo'[r].kind = "confirmed" => ReleasedIn(r, todo'[r].tx)
      BY <1>1, <1>3 DEF IInv, VerdictInv
    <2>2. \A r, tx : ReleasedIn(r, tx) => ReleasedIn(r, tx)'
      BY <1>1 DEF ReleasedIn, LogEntries, chain
    <2>3. cont' = "prove" => cont = "prove"
      BY <1>1
    <2>4. cont' # "released" /\ pc' # "prove"
      BY <1>1
    <2>5. cont' = "prove" => MembersOf(ledger, cur)' \subseteq kept' \cup DOMAIN todo'
      BY <1>1, <2>3 DEF IInv, VerdictInv, MembersOf
    <2>6. \A r \in DOMAIN todo' : todo'[r].kind = "confirmed" => ReleasedIn(r, todo[r].tx)'
      BY <2>1, <2>2
    <2>7. QED
      BY <1>1, <2>1, <2>4, <2>5, <2>6 DEF VerdictInv
  <1>8. faults' \in 0..MaxFaults
    BY <1>1, FaultCounted DEF Answers, IInv, TypeOK, FaultKinds
  <1>9. QED
    BY <1>1, <1>5, <1>6, <1>7, <1>8, QuietTask DEF IInv, ResumeInv, Pcs, Verdict

LEMMA VerdictsAppliedStep ==
  ASSUME IInv, VerdictsApplied
  PROVE  IInv'
  <1>1. pc = "exclude" /\ todo = None /\ UNCHANGED <<resume, mode, chain, faults>>
    BY DEF VerdictsApplied
  <1>2. CASE cont = "fail"
    BY <1>1, <1>2, FailStep DEF VerdictsApplied, AtRest, IInv, TypeOK
  <1>3. CASE cont # "fail"
    <2>1. /\ pc' = cont /\ cont' = "take"
          /\ UNCHANGED <<ledger, cur, acc, kept, asked, todo, mine>>
      BY <1>3 DEF VerdictsApplied
    <2>2. cont \in {"take", "prove"}
      BY <1>1, <1>3 DEF IInv, StageInv, TypeOK
    <2>3. TaskType'
      BY <2>1, TypeParts DEF IInv, TaskType
    <2>4. StageInv'
      BY <1>1, <2>1, <2>2 DEF IInv, StageInv, AtRest, Verdict
    <2>5. VerdictInv'
      BY <1>1, <2>1, <2>2 DEF IInv, VerdictInv, ReleasedIn, LogEntries, chain, None, MembersOf
    <2>6. QED
      BY <1>1, <2>1, <2>2, <2>3, <2>4, <2>5, QuietTask DEF IInv, ResumeInv, TypeOK, Pcs, Verdict
  <1>4. QED
    BY <1>2, <1>3

LEMMA ExcludeStep ==
  ASSUME IInv, NEW r \in Burns, Exclude(r)
  PROVE  IInv'
  <1>1. /\ pc = "exclude" /\ r \in DOMAIN todo
        /\ ledger' = ReturnExcluded(ledger, r, todo[r])
        /\ todo' = [q \in DOMAIN todo \ {r} |-> todo[q]]
        /\ UNCHANGED <<pc, cur, acc, kept, asked, cont, mine, resume, mode, chain, faults>>
    BY DEF Exclude
  <1>2. TaskType /\ ledger \in Ledgers /\ ledger.returns \in [Burns -> Returns]
        /\ LedgerInv(ledger, {cur}) /\ RecordsJust(ledger)
    BY TypeParts, LedgerParts DEF IInv
  <1>3. /\ Excluded(ledger.returns[r], todo[r]) \in Returns
        /\ Excluded(ledger.returns[r], todo[r]).status \in {"settled", "submitted", "failed"}
        /\ RecordJust(r, Excluded(ledger.returns[r], todo[r]))
    <2>1. todo[r] \in Verdicts /\ ledger.returns[r] \in Returns
      BY <1>1, <1>2 DEF TaskType
    <2>2. /\ todo[r].kind = "invalid" => r \in BadLock
          /\ todo[r].kind = "confirmed" => ReleasedIn(r, todo[r].tx)
      BY <1>1 DEF IInv, VerdictInv
    <2>3. QED
      BY <2>1, <2>2, ExcludedFacts
  <1>4. /\ ledger'.batches = ledger.batches
        /\ ledger'.returns = [ledger.returns EXCEPT ![r] = Excluded(ledger.returns[r], todo[r])]
        /\ ledger' \in Ledgers
    <2>1. ledger' = [ledger EXCEPT !.returns =
                       [ledger.returns EXCEPT ![r] = Excluded(ledger.returns[r], todo[r])]]
      BY <1>1, <1>2 DEF ReturnExcluded, Ledgers
    <2>2. QED
      BY <1>2, <1>3, <2>1 DEF Ledgers
  <1>5. /\ LedgerInv(ledger', {cur}) /\ BatchIds(ledger') = BatchIds(ledger)
        /\ \A b \in BatchIds(ledger) : MembersOf(ledger', b) \subseteq MembersOf(ledger, b)
    BY <1>2, <1>3, <1>4, ReturnsOnly
  <1>6. RecordsJust(ledger')
    BY <1>2, <1>3, <1>4 DEF RecordsJust
  <1>7. r \notin MembersOf(ledger', cur)
    BY <1>2, <1>3, <1>4 DEF MembersOf, InBatch
  <1>8. TypeOK'
    <2>1. DOMAIN todo' \subseteq Burns /\ todo' \in [DOMAIN todo' -> Verdicts]
      BY <1>1, <1>2 DEF TaskType
    <2>2. TaskType'
      BY <1>1, <1>2, <1>4, <2>1 DEF TaskType
    <2>3. QED
      BY <1>1, <1>4, <1>5, <2>2, TypeParts, TypePartsNext DEF IInv, mode, chain, ModeType, ChainType
  <1>9. LedgerInv(ledger, {cur})'
    BY <1>1, <1>5 DEF LedgerInv, MembersPlaced, BundlesWhole, BatchIds, ProvingBatches, MembersOf
  <1>10. RecordsJust(ledger)'
    BY <1>1, <1>6, RecordsKept DEF chain, LogEntries
  <1>11. StageInv'
    BY <1>1, <1>4 DEF IInv, StageInv, AtRest
  <1>12. ResumeInv'
    BY <1>1, <1>4 DEF IInv, ResumeInv, ProofsNotForgotten, BatchIds, mode
  <1>13. VerdictInv'
    <2>1. cont' = "prove" => cur \in BatchIds(ledger)
      BY <1>1, InFlight DEF AtRest
    <2>2. cont' = "prove" => MembersOf(ledger', cur') \subseteq kept' \cup DOMAIN todo'
      BY <1>1, <1>5, <1>7, <2>1 DEF IInv, VerdictInv
    <2>3. \A q \in DOMAIN todo' : todo'[q] = todo[q] /\ q \in DOMAIN todo
      BY <1>1
    <2>4. pc' = "exclude" /\ cont' # "released"
      BY <1>1 DEF IInv, StageInv
    <2>5. \A q, tx : ReleasedIn(q, tx) => ReleasedIn(q, tx)'
      BY <1>1 DEF ReleasedIn, LogEntries, chain
    <2>6. \A q \in DOMAIN todo' :
            /\ todo'[q].kind = "invalid" => q \in BadLock
            /\ todo'[q].kind = "confirmed" => ReleasedIn(q, todo[q].tx)'
      BY <2>3, <2>5 DEF IInv, VerdictInv
    <2>7. QED
      BY <2>2, <2>3, <2>4, <2>6 DEF VerdictInv, MembersOf
  <1>14. TxInv'
    BY <1>1, TxQuiet
  <1>15. QED
    BY <1>8, <1>9, <1>10, <1>11, <1>12, <1>13, <1>14 DEF IInv

LEMMA AllReleasedStep ==
  ASSUME IInv, NEW fetched \in Fetchable, AllReleased(fetched)
  PROVE  IInv'
  <1>1. /\ pc \in {"settle", "await"} /\ Synced(fetched) /\ AllSpent(fetched)
        /\ asked' = [r \in Leaves \cap MembersOf(ledger, cur) |-> Rebuilt(fetched).tx[r]]
        /\ cont' = "released" /\ pc' = "confirm"
        /\ UNCHANGED <<ledger, cur, acc, kept, todo, mine, resume, mode, chain>>
    BY DEF AllReleased
  <1>2. ~AtRest /\ cont = "take" /\ cur # 0 /\ ledger.batches[cur].status = "proven"
    BY <1>1 DEF IInv, StageInv, AtRest, Verdict
  <1>3. TaskType'
    <2>1. TaskType
      BY TypeParts DEF IInv
    <2>2. Leaves \subseteq Burns
      BY <1>2, InFlight DEF Leaves, Batches
    <2>3. DOMAIN asked' \subseteq Burns /\ asked' \in [DOMAIN asked' -> Txs]
      BY <1>1, <2>2, RebuiltType DEF AllSpent
    <2>4. QED
      BY <1>1, <2>1, <2>3 DEF TaskType
  <1>4. StageInv'
    BY <1>1, <1>2 DEF StageInv, AtRest, Verdict
  <1>5. VerdictInv'
    <2>1. DOMAIN asked' = ledger'.batches[cur'].leaves \cap MembersOf(ledger', cur')
      BY <1>1 DEF Leaves, MembersOf
    <2>2. QED
      BY <1>1, <2>1 DEF IInv, VerdictInv, ReleasedIn, LogEntries, chain, MembersOf
  <1>6. QED
    BY <1>1, <1>3, <1>4, <1>5, SyncFaults, QuietTask DEF Pcs

(* A release that is no longer in the log is queued again.                 *)
LEMMA RecheckStep ==
  ASSUME IInv, NEW fetched \in Fetchable, Recheck(fetched)
  PROVE  IInv'
  <1> DEFINE a == Rebuilt(fetched)
             S == ReleasesDue(ledger) \ a.spent
  <1>1. /\ pc = "next" /\ resume = {} /\ Synced(fetched)
        /\ ledger' = RequeueAll(ledger, S)
        /\ asked' = [r \in ReleasesDue(ledger) \cap a.spent |-> a.tx[r]]
        /\ cont' = "take" /\ pc' = "confirm"
        /\ UNCHANGED <<cur, acc, kept, todo, mine, resume, mode, chain>>
    BY DEF Recheck
  <1>2. a.spent \in Roots /\ a.tx \in [a.spent -> Txs]
    BY RebuiltType
  <1> HIDE DEF a
  <1>3. cur = 0 /\ TaskType /\ ledger \in Ledgers /\ ledger.returns \in [Burns -> Returns]
        /\ LedgerInv(ledger, {cur}) /\ RecordsJust(ledger)
    BY <1>1, TypeParts, LedgerParts DEF IInv, StageInv, AtRest
  <1>4. ReleasesDue(ledger) \subseteq Burns
        /\ \A r \in ReleasesDue(ledger) : ledger.returns[r].status = "submitted"
    BY DEF ReleasesDue, Held, AwaitsConfirmation
  <1>5. ASSUME NEW r \in S
        PROVE  Requeued(ledger, r).returns[r] =
                 [ledger.returns[r] EXCEPT !.status = "queued", !.waiting = FALSE, !.failure = "none"]
    <2>1. r \in Burns /\ AwaitsConfirmation(ledger.returns[r])
      BY <1>4 DEF AwaitsConfirmation
    <2>2. QED
      BY <1>3, <2>1 DEF Requeued, Ledgers
  <1>6. /\ ledger'.batches = ledger.batches
        /\ ledger'.returns = [r \in Burns |-> IF r \in S THEN Requeued(ledger, r).returns[r]
                                                        ELSE ledger.returns[r]]
        /\ ledger' = [returns |-> ledger'.returns, batches |-> ledger.batches]
    BY <1>1, <1>3 DEF RequeueAll, Ledgers
  <1> HIDE DEF S
  <1>7. ASSUME NEW r \in S
        PROVE  /\ ledger'.returns[r] \in Returns /\ ledger'.returns[r].status = "queued"
               /\ RecordJust(r, ledger'.returns[r])
    <2>1. r \in Burns /\ ledger.returns[r] \in Returns
      BY <1>3, <1>4 DEF S
    <2>2. ledger'.returns[r] =
            [ledger.returns[r] EXCEPT !.status = "queued", !.waiting = FALSE, !.failure = "none"]
      BY <1>5, <1>6, <2>1
    <2>3. ledger'.returns[r] \in Returns /\ ledger'.returns[r].status = "queued"
      BY <2>1, <2>2 DEF Returns, Statuses, Failures
    <2>4. QED
      BY <2>3 DEF RecordJust, GivenUpJustly, SettledJustly
  <1>8. \A r \in Burns \ S : ledger'.returns[r] = ledger.returns[r]
    BY <1>6
  <1>9. ledger' \in Ledgers
    <2>1. \A r \in Burns : ledger'.returns[r] \in Returns
      BY <1>3, <1>7, <1>8
    <2>2. ledger'.returns \in [Burns -> Returns]
      BY <1>6, <2>1
    <2>3. QED
      BY <1>3, <1>6, <2>2 DEF Ledgers
  <1>10. LedgerInv(ledger', {cur}) /\ BatchIds(ledger') = BatchIds(ledger)
    BY <1>3, <1>6, <1>7, <1>8, <1>9, ReturnsOnly
  <1>11. RecordsJust(ledger')
    BY <1>3, <1>7, <1>8 DEF RecordsJust
  <1>12. TypeOK'
    <2>1. DOMAIN asked' \subseteq Burns /\ asked' \in [DOMAIN asked' -> Txs]
      BY <1>1, <1>2, <1>4
    <2>2. TaskType'
      BY <1>1, <1>3, <1>6, <2>1 DEF TaskType
    <2>3. faults' \in 0..MaxFaults
      BY <1>1, SyncFaults
    <2>4. QED
      BY <1>1, <1>9, <1>10, <2>2, <2>3, TypeParts, TypePartsNext
         DEF IInv, Pcs, mode, chain, ModeType, ChainType
  <1>13. LedgerInv(ledger, {cur})'
    BY <1>1, <1>10 DEF LedgerInv, MembersPlaced, BundlesWhole, BatchIds, ProvingBatches, MembersOf
  <1>14. RecordsJust(ledger)'
    BY <1>1, <1>11, RecordsKept DEF chain, LogEntries
  <1>15. StageInv'
    BY <1>1, <1>3 DEF StageInv, AtRest, Verdict
  <1>16. ResumeInv'
    BY <1>1, <1>6 DEF IInv, ResumeInv, ProofsNotForgotten, BatchIds, mode
  <1>17. VerdictInv'
    BY <1>1 DEF IInv, VerdictInv, ReleasedIn, LogEntries, chain
  <1>18. TxInv'
    BY <1>1, TxQuiet
  <1>19. QED
    BY <1>12, <1>13, <1>14, <1>15, <1>16, <1>17, <1>18 DEF IInv

LEMMA TakeStep ==
  ASSUME IInv, NEW S \in SUBSET Burns, Take(S)
  PROVE  IInv'
  <1> DEFINE b == Len(ledger.batches) + 1
  <1>1. /\ pc = "take" \/ (pc = "next" /\ resume = {})
        /\ S \subseteq DuePending(ledger)
        /\ ledger' = BatchFormed(ledger, S) /\ cur' = b /\ pc' = "sync"
        /\ UNCHANGED <<acc, kept, asked, todo, cont, mine, resume, mode, chain, faults>>
    BY DEF Take, IsSelection
  <1>2. cont = "take" /\ cur = 0 /\ resume = {}
    BY <1>1 DEF IInv, StageInv, ResumeInv, AtRest, Verdict
  <1>3. LedgerInv(ledger, {}) /\ RecordsJust(ledger) /\ Len(ledger.batches) \in Nat
    BY <1>2, LedgerParts DEF IInv, LedgerInv, ProvingBatches, BatchIds
  <1>4. /\ LedgerInv(ledger', {b}) /\ RecordsJust(ledger')
        /\ BatchIds(ledger') = BatchIds(ledger) \cup {b} /\ b \notin BatchIds(ledger)
        /\ \A c \in BatchIds(ledger) : ledger'.batches[c] = ledger.batches[c]
        /\ ledger'.batches[b].status = "proving"
    BY <1>1, <1>3, BatchFormedInv
  <1>5. b \in Nat \ {0} /\ ledger' \in Ledgers /\ b \in 0..Len(ledger'.batches)
    BY <1>3, <1>4, LedgerParts DEF LedgerInv, BatchIds
  <1> HIDE DEF b
  <1>6. TypeOK'
    <2>1. TaskType'
      BY <1>1, <1>5, TypeParts DEF IInv, TaskType
    <2>2. resume' \subseteq BatchIds(ledger')
      BY <1>1, <1>2
    <2>3. QED
      BY <1>1, <1>5, <2>1, <2>2, TypeParts, TypePartsNext DEF IInv, Pcs, mode, chain, ModeType, ChainType
  <1>7. LedgerInv(ledger, {cur})'
    BY <1>1, <1>4 DEF LedgerInv, MembersPlaced, BundlesWhole, BatchIds, ProvingBatches, MembersOf
  <1>8. RecordsJust(ledger)'
    BY <1>1, <1>4, RecordsKept DEF chain, LogEntries
  <1>9. StageInv'
    BY <1>1, <1>2, <1>4, <1>5 DEF StageInv, AtRest, Verdict
  <1>10. ResumeInv'
    BY <1>1, <1>2, <1>4 DEF IInv, ResumeInv, ProofsNotForgotten, BatchIds, mode, Verdict
  <1>11. VerdictInv'
    BY <1>1, <1>2 DEF IInv, VerdictInv, ReleasedIn, LogEntries, chain
  <1>12. TxInv'
    BY <1>1, TxQuiet
  <1>13. QED
    BY <1>6, <1>7, <1>8, <1>9, <1>10, <1>11, <1>12 DEF IInv

LEMMA ProveStep ==
  ASSUME IInv, Prove
  PROVE  IInv'
  <1>1. /\ pc = "prove" /\ pc' = "settle"
        /\ ledger' = BatchProven(ledger, cur, kept, acc.spent)
        /\ acc' = EmptyAcc /\ kept' = {}
        /\ UNCHANGED <<cur, asked, todo, cont, mine, resume, mode, chain, faults>>
    BY DEF Prove
  <1>2. ~AtRest /\ cont = "take" /\ cur # 0
    BY <1>1 DEF IInv, StageInv, AtRest, Verdict
  <1>3. cur \in BatchIds(ledger) /\ LedgerInv(ledger, {cur}) /\ RecordsJust(ledger)
        /\ kept \in SUBSET Burns /\ acc.spent \in Roots
        /\ MembersOf(ledger, cur) \subseteq kept /\ TaskType
    BY <1>1, <1>2, InFlight, TypeParts DEF IInv, TypeOK, VerdictInv
  <1>4. /\ LedgerInv(ledger', {}) /\ RecordsJust(ledger')
        /\ OneBatchChanged(ledger'.batches, ledger, cur, ledger'.batches[cur])
        /\ ledger'.batches[cur].status = "proven"
    BY <1>1, <1>3, BatchProvenInv
  <1>5. /\ ledger' \in Ledgers /\ BatchIds(ledger') = BatchIds(ledger)
        /\ Len(ledger'.batches) = Len(ledger.batches)
        /\ \A c \in BatchIds(ledger) \ {cur} : ledger'.batches[c] = ledger.batches[c]
    BY <1>4 DEF LedgerInv, OneBatchChanged, BatchIds
  <1>6. TypeOK'
    <2>1. EmptyAcc.spent \in Roots /\ EmptyAcc.tx \in [EmptyAcc.spent -> Txs]
      BY DEF EmptyAcc, Roots
    <2>2. TaskType'
      BY <1>1, <1>3, <1>5, <2>1 DEF TaskType
    <2>3. QED
      BY <1>1, <1>5, <2>2, TypeParts, TypePartsNext DEF IInv, Pcs, mode, chain, ModeType, ChainType
  <1>7. LedgerInv(ledger, {cur})'
    BY <1>1, <1>4 DEF LedgerInv, MembersPlaced, BundlesWhole, BatchIds, ProvingBatches, MembersOf
  <1>8. RecordsJust(ledger)'
    BY <1>1, <1>4, RecordsKept DEF chain, LogEntries
  <1>9. StageInv'
    BY <1>1, <1>2, <1>4 DEF StageInv, AtRest, Verdict
  <1>10. ResumeInv'
    BY <1>1, <1>2, <1>5 DEF IInv, TypeOK, ResumeInv, ProofsNotForgotten, BatchIds, mode, Verdict
  <1>11. VerdictInv'
    BY <1>1, <1>2 DEF IInv, VerdictInv, ReleasedIn, LogEntries, chain
  <1>12. TxInv'
    BY <1>1, TxQuiet
  <1>13. QED
    BY <1>6, <1>7, <1>8, <1>9, <1>10, <1>11, <1>12 DEF IInv

-------------------------------------------------------------------------------
(* The steps of settle_stage and await_settlement                          *)

(* All the releases asked about were confirmed, in one transaction.        *)
LEMMA ConfirmBatchStep ==
  ASSUME IInv, NEW confirmed \in SUBSET Burns, ConfirmBatch(confirmed)
  PROVE  IInv'
  <1> DEFINE tx == CHOOSE t \in {asked[r] : r \in confirmed} : TRUE
  <1>1. /\ pc = "confirm" /\ cont = "released" /\ Answers(confirmed)
        /\ confirmed # {} /\ confirmed = DOMAIN asked
        /\ \A r, q \in confirmed : asked[r] = asked[q]
        /\ ledger' = BatchSettled(ledger, cur, tx) /\ BackToLoop
        /\ UNCHANGED <<resume, mode, chain>>
    BY DEF ConfirmBatch, OneTransaction
  <1>2. ~AtRest /\ ledger.batches[cur].status = "proven"
    BY <1>1 DEF IInv, StageInv, AtRest, Verdict
  <1>3. /\ cur \in BatchIds(ledger) /\ LedgerInv(ledger, {cur}) /\ RecordsJust(ledger)
        /\ asked \in [DOMAIN asked -> Txs]
        /\ MembersOf(ledger, cur) \subseteq ledger.batches[cur].leaves
    BY <1>2, InFlight DEF IInv, TypeOK, LedgerInv, BundlesWhole
  <1>4. tx \in {asked[r] : r \in confirmed}
    BY <1>1
  <1> HIDE DEF tx
  <1>5. tx \in Int /\ \A r \in confirmed : asked[r] = tx
    BY <1>1, <1>3, <1>4 DEF Txs
  <1>6. \A r \in MembersOf(ledger, cur) : ReleasedIn(r, tx)
    BY <1>1, <1>3, <1>5 DEF IInv, VerdictInv, Answers, Confirmable
  <1>7. /\ LedgerInv(ledger', {}) /\ RecordsJust(ledger')
        /\ OneBatchChanged(ledger'.batches, ledger, cur, ledger'.batches[cur])
        /\ ledger'.batches[cur].status = "settled"
    BY <1>1, <1>3, <1>5, <1>6, BatchSettledInv
  <1>8. faults' \in 0..MaxFaults
    BY <1>1, FaultCounted DEF Answers, IInv, TypeOK, FaultKinds
  <1>9. QED
    BY <1>1, <1>2, <1>7, <1>8, LoopStep

LEMMA OvertakenStep ==
  ASSUME IInv, StaleRoot \/ \E fetched : Overtaken(fetched)
  PROVE  IInv'
  <1>1. /\ pc \in {"settle", "await", "receipt"} /\ RebaseOrFail
        /\ UNCHANGED <<resume, mode, chain>>
    BY DEF StaleRoot, Overtaken
  <1>2. faults' = faults \/ \E fetched : Synced(fetched)
    BY DEF StaleRoot, Overtaken
  <1>3. faults' \in 0..MaxFaults
    BY <1>2, SyncFaults DEF IInv, TypeOK
  <1>4. QED
    BY <1>1, <1>3, RebaseStep

LEMMA ReadyToSubmitStep ==
  ASSUME IInv, NEW fetched \in Fetchable, ReadyToSubmit(fetched)
  PROVE  IInv'
  <1>1. pc = "settle" /\ Synced(fetched) /\ UNCHANGED <<ledger, resume, mode, chain>>
    BY DEF ReadyToSubmit
  <1>2. ~AtRest /\ cont = "take" /\ cur # 0 /\ ledger.batches[cur].status = "proven"
    BY <1>1 DEF IInv, StageInv, AtRest, Verdict
  <1>3. faults' \in 0..MaxFaults
    BY <1>1, SyncFaults
  <1>4. CASE hasSubmitter
    <2>1. pc' = "submit" /\ UNCHANGED <<cur, acc, kept, asked, todo, cont, mine>>
      BY <1>4 DEF ReadyToSubmit, task
    <2>2. TaskType'
      BY <1>1, <2>1, TypeParts DEF IInv, TaskType
    <2>3. StageInv'
      BY <1>1, <1>2, <2>1 DEF StageInv, AtRest, Verdict
    <2>4. VerdictInv'
      BY <1>1, <1>2, <2>1 DEF IInv, VerdictInv, ReleasedIn, LogEntries, chain
    <2>5. QED
      BY <1>1, <1>3, <2>1, <2>2, <2>3, <2>4, QuietTask DEF Pcs, Verdict
  <1>5. CASE ~hasSubmitter
    <2>1. BackToLoop
      BY <1>5 DEF ReadyToSubmit
    <2>2. cur \in BatchIds(ledger) /\ LedgerInv(ledger, {cur}) /\ RecordsJust(ledger)
      BY <1>2, InFlight
    <2>3. LedgerInv(ledger', {}) /\ RecordsJust(ledger')
      BY <1>1, <1>2, <2>2 DEF LedgerInv, ProvingBatches
    <2>4. OneBatchChanged(ledger'.batches, ledger, cur, ledger'.batches[cur])
      BY <1>1, <2>2 DEF OneBatchChanged, LedgerInv, Ledgers
    <2>5. QED
      BY <1>1, <1>2, <1>3, <1>5, <2>1, <2>3, <2>4, LoopStep
  <1>6. QED
    BY <1>4, <1>5

(* A settlement broadcast has a number of its own.                         *)
LEMMA BroadcastStep ==
  ASSUME IInv, Broadcast
  PROVE  IInv'
  <1> DEFINE m == [tx |-> nextTx, rootOld |-> RootOld, nullifiers |-> Leaves]
  <1>1. /\ pc = "submit" /\ pc' = "receipt"
        /\ mempool' = mempool \cup {m} /\ mine' = nextTx /\ nextTx' = nextTx + 1
        /\ UNCHANGED <<ledger, cur, acc, kept, asked, todo, cont, resume, mode, vaultLog, faults>>
    BY DEF Broadcast
  <1>2. ~AtRest /\ cont = "take" /\ cur # 0 /\ ledger.batches[cur].status = "proven"
    BY <1>1 DEF IInv, StageInv, AtRest, Verdict
  <1>3. TaskType /\ ChainType /\ ModeType
    BY TypeParts DEF IInv
  <1>4. m \in Entries
    <2>1. ledger.batches[cur] \in Batches
      BY <1>2, InFlight
    <2>2. RootOld \in Roots /\ Leaves \in Roots
      BY <2>1 DEF RootOld, Leaves, Batches, Roots
    <2>3. QED
      BY <1>3, <2>2 DEF Entries, ChainType
  <1>5. TypeOK'
    <2>1. TaskType'
      BY <1>1, <1>3 DEF TaskType, ChainType
    <2>2. ChainType'
      BY <1>1, <1>3, <1>4 DEF ChainType
    <2>3. QED
      BY <1>1, <1>3, <2>1, <2>2, TypeParts, TypePartsNext DEF IInv, Pcs, mode, ModeType, BatchIds
  <1>6. LedgerInv(ledger, {cur})'
    BY <1>1 DEF IInv, LedgerInv, MembersPlaced, BundlesWhole, BatchIds, ProvingBatches, MembersOf
  <1>7. RecordsJust(ledger)'
    BY <1>1, RecordsKept DEF IInv, LogEntries
  <1>8. StageInv'
    BY <1>1, <1>2 DEF StageInv, AtRest, Verdict
  <1>9. ResumeInv'
    BY <1>1, <1>2 DEF IInv, ResumeInv, ProofsNotForgotten, BatchIds, mode, Verdict
  <1>10. VerdictInv'
    BY <1>1, <1>2 DEF IInv, VerdictInv, ReleasedIn, LogEntries
  <1>11. TxInv'
    <2>1. nextTx \in Nat
      BY <1>3 DEF ChainType
    <2>2. \A t \in LogEntries \cup mempool : t.tx < nextTx
      BY DEF IInv, TxInv
    <2>3. \A t \in LogEntries \cup mempool : t.tx \in Int
      <3>1. vaultLog \in Seq(Entries) /\ mempool \subseteq Entries
        BY <1>3 DEF ChainType
      <3>2. \A i \in 1..Len(vaultLog) : vaultLog[i] \in Entries
        BY <3>1, ElementOfSeq
      <3>3. QED
        BY <3>1, <3>2 DEF LogEntries, Entries
    <2>4. \A t \in LogEntries \cup mempool : t.tx < nextTx + 1 /\ t.tx # nextTx
      BY <2>1, <2>2, <2>3
    <2>5. m.tx = nextTx /\ m.nullifiers = ledger.batches[cur].leaves
      BY DEF Leaves
    <2> HIDE DEF m
    <2>6. LogEntries' \cup mempool' = (LogEntries \cup mempool) \cup {m}
      BY <1>1 DEF LogEntries
    <2>7. QED
      BY <1>1, <2>1, <2>4, <2>5, <2>6 DEF TxInv
  <1>12. QED
    BY <1>5, <1>6, <1>7, <1>8, <1>9, <1>10, <1>11 DEF IInv

LEMMA SubmittedStep ==
  ASSUME IInv, Submitted
  PROVE  IInv'
  <1>1. /\ pc = "receipt" /\ Landed(mine)
        /\ ledger' = BatchSettled(ledger, cur, mine) /\ BackToLoop
        /\ UNCHANGED <<resume, mode, chain, faults>>
    BY DEF Submitted
  <1>2. ~AtRest /\ ledger.batches[cur].status = "proven"
    BY <1>1 DEF IInv, StageInv, AtRest, Verdict
  <1>3. /\ cur \in BatchIds(ledger) /\ LedgerInv(ledger, {cur}) /\ RecordsJust(ledger)
        /\ MembersOf(ledger, cur) \subseteq ledger.batches[cur].leaves
        /\ mine \in Int
    BY <1>2, InFlight DEF IInv, TypeOK, LedgerInv, BundlesWhole
  <1>4. \A r \in MembersOf(ledger, cur) : ReleasedIn(r, mine)
    <2>1. PICK t \in LogEntries : t.tx = mine
      BY <1>1 DEF Landed
    <2>2. t.nullifiers = ledger.batches[cur].leaves
      BY <1>1, <2>1 DEF IInv, TxInv
    <2>3. QED
      BY <1>3, <2>1, <2>2 DEF ReleasedIn
  <1>5. /\ LedgerInv(ledger', {}) /\ RecordsJust(ledger')
        /\ OneBatchChanged(ledger'.batches, ledger, cur, ledger'.batches[cur])
        /\ ledger'.batches[cur].status = "settled"
    BY <1>1, <1>3, <1>4, BatchSettledInv
  <1>6. QED
    BY <1>1, <1>2, <1>5, LoopStep DEF IInv, TypeOK

LEMMA UnconfirmedStep ==
  ASSUME IInv, Unconfirmed
  PROVE  IInv'
  <1>1. /\ pc = "receipt" /\ pc' = "await" /\ (NoFault \/ Fault("receipt"))
        /\ UNCHANGED <<ledger, resume, mode, chain>>
        /\ UNCHANGED <<cur, acc, kept, asked, todo, cont, mine>>
    BY DEF Unconfirmed, task
  <1>2. cont = "take" /\ cur # 0 /\ ledger.batches[cur].status = "proven"
    BY <1>1 DEF IInv, StageInv, AtRest, Verdict
  <1>3. TaskType'
    BY <1>1, TypeParts DEF IInv, TaskType
  <1>4. StageInv'
    BY <1>1, <1>2 DEF StageInv, AtRest, Verdict
  <1>5. VerdictInv'
    BY <1>1, <1>2 DEF IInv, VerdictInv, ReleasedIn, LogEntries, chain
  <1>6. faults' \in 0..MaxFaults
    BY <1>1, FaultCounted DEF IInv, TypeOK, FaultKinds
  <1>7. QED
    BY <1>1, <1>3, <1>4, <1>5, <1>6, QuietTask DEF Pcs, Verdict

-------------------------------------------------------------------------------
(* Intake, timers, stop, restart and the chain                             *)

(* A record changes that is in no batch, or its schedule does.             *)
LEMMA RecordStep ==
  ASSUME IInv, ledger' \in Ledgers, ledger'.batches = ledger.batches,
         \A r \in Burns :
           \/ ledger'.returns[r] = ledger.returns[r]
           \/ /\ ledger.returns[r].status \notin {"proving", "proven"}
              /\ ledger'.returns[r].status \notin {"proving", "proven"}
           \/ /\ ledger'.returns[r].status = ledger.returns[r].status
              /\ ledger'.returns[r].batch = ledger.returns[r].batch,
         RecordsJust(ledger'),
         UNCHANGED <<pc, task, resume, mode, chain, faults>>
  PROVE  IInv'
  <1>1. UNCHANGED <<pc, cur, acc, kept, asked, todo, cont, mine, resume, mode, chain, faults>>
    BY DEF task
  <1>2. LedgerInv(ledger', {cur}) /\ BatchIds(ledger') = BatchIds(ledger)
    BY ReturnsOnly DEF IInv
  <1>3. \A b : MembersOf(ledger', b) \cap Burns = MembersOf(ledger, b) \cap Burns
    BY DEF MembersOf, InBatch
  <1>4. ~AtRest => MembersOf(ledger', cur) = MembersOf(ledger, cur)
    <2>1. ASSUME ~AtRest PROVE ledger.batches[cur].members \subseteq Burns
      BY <2>1, InFlight DEF Batches
    <2>2. QED
      BY <1>3, <2>1 DEF MembersOf
  <1>5. TypeOK'
    <2>1. TaskType'
      BY <1>1, TypeParts DEF IInv, TaskType
    <2>2. QED
      BY <1>1, <1>2, <2>1, TypeParts, TypePartsNext DEF IInv, mode, chain, ModeType, ChainType
  <1>6. LedgerInv(ledger, {cur})'
    BY <1>1, <1>2 DEF LedgerInv, MembersPlaced, BundlesWhole, BatchIds, ProvingBatches, MembersOf
  <1>7. RecordsJust(ledger)'
    BY RecordsKept DEF chain, LogEntries
  <1>8. StageInv'
    BY <1>1 DEF IInv, StageInv, AtRest
  <1>9. ResumeInv'
    BY <1>1 DEF IInv, ResumeInv, ProofsNotForgotten, BatchIds, mode
  <1>10. VerdictInv'
    <2>1. cont \in {"prove", "released"} \/ pc = "prove" => ~AtRest
      BY DEF IInv, StageInv, AtRest, Verdict
    <2>2. MembersOf(ledger, cur)' = MembersOf(ledger', cur)
      BY <1>1 DEF MembersOf
    <2>3. \A r, tx : ReleasedIn(r, tx)' <=> ReleasedIn(r, tx)
      BY DEF ReleasedIn, LogEntries, chain
    <2>4. QED
      BY <1>1, <1>4, <2>1, <2>2, <2>3 DEF IInv, VerdictInv
  <1>11. TxInv'
    BY <1>1 DEF IInv, TxInv, LogEntries, chain
  <1>12. QED
    BY <1>5, <1>6, <1>7, <1>8, <1>9, <1>10, <1>11 DEF IInv

(* A return handed in, or handed in again.                                 *)
LEMMA PostedRecord ==
  ASSUME IInv, NEW r \in Burns, Post(r)
  PROVE  \E ret \in Returns :
           /\ ret.status = "queued"
           /\ ledger.returns[r].status \notin {"proving", "proven"}
           /\ ledger' = [ledger EXCEPT !.returns[r] = ret]
  <1>1. ledger \in Ledgers /\ ledger.returns[r] \in Returns
    BY LedgerParts DEF IInv, TypeOK
  <1>2. CASE r \notin Held(ledger)
    <2> DEFINE n == Cardinality(Held(ledger)) + 1
               ret == [Unknown EXCEPT !.status = "queued", !.seq = n]
    <2>1. ledger' = [ledger EXCEPT !.returns[r] = ret]
      BY <1>2 DEF Post, Accepted
    <2>2. n \in Nat
      <3>1. Held(ledger) \subseteq Burns
        BY DEF Held
      <3>2. Cardinality(Held(ledger)) \in Nat
        BY <3>1, LedgerAssumption, FS_Subset, FS_CardinalityType
      <3>3. QED
        BY <3>2
    <2> HIDE DEF n
    <2>3. ret \in Returns /\ ret.status = "queued"
      BY <2>2, NoTxIsInt DEF Unknown, Returns, Statuses, Failures
    <2>4. ledger.returns[r].status = "absent"
      BY <1>2 DEF Held
    <2>5. QED
      BY <2>1, <2>3, <2>4
  <1>3. CASE r \in Held(ledger)
    <2> DEFINE ret == [ledger.returns[r] EXCEPT !.status = "queued", !.failure = "none"]
    <2>1. FailedRecoverably(ledger.returns[r]) /\ ledger' = Requeued(ledger, r)
      BY <1>3 DEF Post
    <2>2. ledger' = [ledger EXCEPT !.returns[r] = ret]
      BY <2>1 DEF Requeued, FailedRecoverably, AwaitsConfirmation
    <2>3. ret \in Returns /\ ret.status = "queued"
      BY <1>1 DEF Returns, Statuses, Failures
    <2>4. ledger.returns[r].status = "failed"
      BY <2>1 DEF FailedRecoverably
    <2>5. QED
      BY <2>2, <2>3, <2>4
  <1>4. QED
    BY <1>2, <1>3

LEMMA PostStep ==
  ASSUME IInv, NEW r \in Burns, Post(r)
  PROVE  IInv'
  <1>1. UNCHANGED <<pc, task, resume, mode, chain, faults>>
    BY DEF Post
  <1>2. ledger \in Ledgers /\ RecordsJust(ledger) /\ ledger.returns \in [Burns -> Returns]
    BY LedgerParts DEF IInv, TypeOK
  <1>3. PICK ret \in Returns :
          /\ ret.status = "queued"
          /\ ledger.returns[r].status \notin {"proving", "proven"}
          /\ ledger' = [ledger EXCEPT !.returns[r] = ret]
    BY PostedRecord
  <1>4. /\ ledger' \in Ledgers /\ ledger'.batches = ledger.batches
        /\ ledger'.returns[r] = ret
        /\ \A q \in Burns \ {r} : ledger'.returns[q] = ledger.returns[q]
    BY <1>2, <1>3 DEF Ledgers
  <1>5. RecordsJust(ledger')
    BY <1>2, <1>3, <1>4 DEF RecordsJust, RecordJust, GivenUpJustly, SettledJustly
  <1>6. QED
    BY <1>1, <1>3, <1>4, <1>5, RecordStep

LEMMA TimePassesStep ==
  ASSUME IInv, NEW r \in Burns, TimePasses(r)
  PROVE  IInv'
  <1> DEFINE ret == [ledger.returns[r] EXCEPT !.waiting = FALSE]
  <1>1. UNCHANGED <<pc, task, resume, mode, chain, faults>>
        /\ ledger' = [ledger EXCEPT !.returns[r].waiting = FALSE]
    BY DEF TimePasses
  <1>2. ledger \in Ledgers /\ RecordsJust(ledger) /\ ledger.returns \in [Burns -> Returns]
    BY LedgerParts DEF IInv, TypeOK
  <1>3. ledger' = [ledger EXCEPT !.returns[r] = ret]
    BY <1>1
  <1>4. /\ ret \in Returns /\ ret.status = ledger.returns[r].status
        /\ ret.batch = ledger.returns[r].batch /\ ret.tx = ledger.returns[r].tx
        /\ ret.failure = ledger.returns[r].failure /\ ret.attempts = ledger.returns[r].attempts
    BY <1>2 DEF Returns
  <1> HIDE DEF ret
  <1>5. /\ ledger' \in Ledgers /\ ledger'.batches = ledger.batches
        /\ ledger'.returns[r] = ret
        /\ \A q \in Burns \ {r} : ledger'.returns[q] = ledger.returns[q]
    BY <1>2, <1>3, <1>4 DEF Ledgers
  <1>6. RecordsJust(ledger')
    BY <1>2, <1>4, <1>5 DEF RecordsJust, RecordJust, GivenUpJustly, SettledJustly
  <1>7. QED
    BY <1>1, <1>4, <1>5, <1>6, RecordStep

LEMMA StartDrainStep ==
  ASSUME IInv, StartDrain
  PROVE  IInv'
  <1>1. /\ Fault("stop") /\ draining' = TRUE
        /\ UNCHANGED <<ledger, pc, resume, hasSubmitter, kinds, chain>>
        /\ UNCHANGED <<cur, acc, kept, asked, todo, cont, mine>>
    BY DEF StartDrain, task
  <1>2. faults' \in 0..MaxFaults
    BY <1>1, FaultCounted DEF IInv, TypeOK, FaultKinds
  <1>3. TypeOK'
    BY <1>1, <1>2, TypeParts, TypePartsNext, LedgerQuiet DEF IInv, TaskType, ModeType
  <1>4. LedgerInv(ledger, {cur})'
    BY <1>1 DEF IInv, LedgerInv, MembersPlaced, BundlesWhole, BatchIds, ProvingBatches, MembersOf
  <1>5. StageInv'
    BY <1>1 DEF IInv, StageInv, AtRest
  <1>6. ResumeInv'
    BY <1>1 DEF IInv, ResumeInv, ProofsNotForgotten, BatchIds
  <1>7. VerdictInv'
    BY <1>1 DEF IInv, VerdictInv, ReleasedIn, LogEntries, chain, MembersOf
  <1>8. TxInv'
    BY <1>1 DEF IInv, TxInv, LogEntries, chain
  <1>9. QED
    BY <1>1, <1>3, <1>4, <1>5, <1>6, <1>7, <1>8, LedgerQuiet DEF IInv

LEMMA RestartsStep ==
  ASSUME IInv, Crash \/ Abandon \/ DrainedExit
  PROVE  IInv'
  <1>1. NoFault \/ \E kind \in FaultKinds : Fault(kind)
    BY DEF Crash, Abandon, DrainedExit, FaultKinds
  <1>2. faults' \in 0..MaxFaults
    BY <1>1, FaultCounted DEF IInv, TypeOK
  <1>3. LedgerInv(ledger, {cur}) /\ RecordsJust(ledger)
    BY DEF IInv
  <1>4. CASE Restarts(ledger)
    BY <1>2, <1>3, <1>4, RestartStep
  <1>5. CASE Restarts(Interrupted(ledger, TRUE))
    <2>1. LedgerInv(Interrupted(ledger, TRUE), {}) /\ RecordsJust(Interrupted(ledger, TRUE))
      BY <1>3, InterruptedInv
    <2>2. QED
      BY <1>2, <1>5, <2>1, RestartStep
  <1>6. QED
    BY <1>4, <1>5 DEF Crash, Abandon, DrainedExit

(* The chain moves on: settlements are mined or lost, and new ones have    *)
(* new numbers.                                                            *)
LEMMA ChainStep ==
  ASSUME IInv, UNCHANGED <<ledger, pc, task, resume, mode>>,
         ChainType', faults' \in 0..MaxFaults, nextTx' >= nextTx,
         \A t \in LogEntries : t \in LogEntries',
         \A t \in LogEntries' \cup mempool' :
           t \in LogEntries \cup mempool \/ (t.tx = nextTx /\ nextTx' = nextTx + 1)
  PROVE  IInv'
  <1>1. UNCHANGED <<ledger, pc, cur, acc, kept, asked, todo, cont, mine, resume, mode>>
    BY DEF task
  <1>2. TypeOK'
    BY <1>1, TypeParts, TypePartsNext DEF IInv, TaskType, mode, ModeType, BatchIds
  <1>3. LedgerInv(ledger, {cur})'
    BY <1>1 DEF IInv, LedgerInv, MembersPlaced, BundlesWhole, BatchIds, ProvingBatches, MembersOf
  <1>4. RecordsJust(ledger)'
    BY <1>1, RecordsKept DEF IInv
  <1>5. StageInv'
    BY <1>1 DEF IInv, StageInv, AtRest
  <1>6. ResumeInv'
    BY <1>1 DEF IInv, ResumeInv, ProofsNotForgotten, BatchIds, mode
  <1>7. VerdictInv'
    <2>1. \A r, tx : ReleasedIn(r, tx) => ReleasedIn(r, tx)'
      BY DEF ReleasedIn
    <2>2. QED
      BY <1>1, <2>1 DEF IInv, VerdictInv, MembersOf
  <1>8. TxInv'
    <2>1. mine \in Nat /\ nextTx \in Nat /\ nextTx' \in Nat
      BY DEF IInv, TypeOK, ChainType
    <2>2. mine < nextTx /\ mine < nextTx'
      BY <2>1 DEF IInv, TxInv
    <2>3. \A t \in LogEntries \cup mempool : t.tx \in Nat
      <3>1. \A i \in 1..Len(vaultLog) : vaultLog[i] \in Entries
        BY ElementOfSeq DEF IInv, TypeOK
      <3>2. QED
        BY <3>1 DEF IInv, TypeOK, LogEntries, Entries
    <2>4. ASSUME NEW t \in LogEntries' \cup mempool'
          PROVE  /\ t.tx < nextTx'
                 /\ pc = "receipt" /\ t.tx = mine => t.nullifiers = ledger.batches[cur].leaves
      <3>1. CASE t \in LogEntries \cup mempool
        BY <2>1, <2>2, <2>3, <3>1 DEF IInv, TxInv
      <3>2. CASE t.tx = nextTx /\ nextTx' = nextTx + 1
        BY <2>1, <2>2, <3>2
      <3>3. QED
        BY <3>1, <3>2
    <2>5. QED
      BY <1>1, <2>2, <2>4 DEF TxInv
  <1>9. QED
    BY <1>2, <1>3, <1>4, <1>5, <1>6, <1>7, <1>8 DEF IInv

(* A settlement that is mined is one more entry of the log, on the root    *)
(* the vault had.                                                          *)
LEMMA SettlesFacts ==
  ASSUME IInv, NEW tx \in Nat, NEW S \in Roots, Settles(tx, S)
  PROVE  /\ vaultLog' \in Seq(Entries)
         /\ LogEntries' = LogEntries \cup {[rootOld |-> VaultRoot, nullifiers |-> S, tx |-> tx]}
  <1> DEFINE e == [rootOld |-> VaultRoot, nullifiers |-> S, tx |-> tx]
  <1>1. vaultLog \in Seq(Entries) /\ vaultLog' = Append(vaultLog, e)
    BY DEF IInv, TypeOK, Settles
  <1>2. e \in Entries
    <2>1. \A i \in 1..Len(vaultLog) : vaultLog[i] \in Entries
      BY <1>1, ElementOfSeq
    <2>2. VaultRoot \in Roots
      BY <2>1 DEF VaultRoot, LogEntries, Entries, Roots
    <2>3. QED
      BY <2>2 DEF Entries
  <1> HIDE DEF e
  <1>3. /\ vaultLog' \in Seq(Entries)
        /\ Len(vaultLog) \in Nat /\ Len(vaultLog') = Len(vaultLog) + 1
        /\ \A i \in 1..Len(vaultLog) : vaultLog'[i] = vaultLog[i]
        /\ vaultLog'[Len(vaultLog) + 1] = e
    BY <1>1, <1>2, AppendProperties, LenProperties
  <1>4. \A i \in 1..Len(vaultLog') : i \in 1..Len(vaultLog) \/ i = Len(vaultLog) + 1
    BY <1>3
  <1>5. Len(vaultLog) + 1 \in 1..Len(vaultLog') /\ \A i \in 1..Len(vaultLog) : i \in 1..Len(vaultLog')
    BY <1>3
  <1>6. LogEntries' = LogEntries \cup {e}
    BY <1>3, <1>4, <1>5 DEF LogEntries
  <1>7. QED
    BY <1>3, <1>6 DEF e

LEMMA ChainSteps ==
  ASSUME IInv,
         \/ \E m \in mempool : Land(m)
         \/ \E m \in mempool : Dropped(m)
         \/ \E S \in ThirdParty : ThirdPartySettles(S)
         \/ \E b \in BatchIds(ledger) : SelfSettled(b)
  PROVE  IInv'
  <1>1. mempool \subseteq Entries /\ nextTx \in Nat /\ vaultLog \in Seq(Entries)
        /\ faults \in 0..MaxFaults /\ ledger \in Ledgers
    BY DEF IInv, TypeOK
  <1>2. ASSUME NEW m \in mempool, Land(m) PROVE IInv'
    <2>1. /\ m.rootOld = VaultRoot /\ Settles(m.tx, m.nullifiers) /\ mempool' = mempool \ {m}
          /\ UNCHANGED <<ledger, pc, task, resume, mode, nextTx, faults>>
      BY <1>2 DEF Land
    <2>2. m.tx \in Nat /\ m.nullifiers \in Roots
      BY <1>1 DEF Entries
    <2>3. m = [rootOld |-> VaultRoot, nullifiers |-> m.nullifiers, tx |-> m.tx]
      BY <1>1, <2>1 DEF Entries
    <2>4. vaultLog' \in Seq(Entries) /\ LogEntries' = LogEntries \cup {m}
      BY <2>1, <2>2, <2>3, SettlesFacts
    <2>5. ChainType' /\ nextTx' >= nextTx
      BY <1>1, <2>1, <2>4 DEF ChainType
    <2>6. QED
      BY <1>1, <2>1, <2>4, <2>5, ChainStep
  <1>3. ASSUME NEW m \in mempool, Dropped(m) PROVE IInv'
    <2>1. /\ Fault("dropped") /\ mempool' = mempool \ {m}
          /\ UNCHANGED <<ledger, pc, task, resume, mode, vaultLog, nextTx>>
      BY <1>3 DEF Dropped
    <2>2. faults' \in 0..MaxFaults
      BY <1>1, <2>1, FaultCounted DEF FaultKinds
    <2>3. ChainType' /\ nextTx' >= nextTx /\ LogEntries' = LogEntries
      BY <1>1, <2>1 DEF ChainType, LogEntries
    <2>4. QED
      BY <2>1, <2>2, <2>3, ChainStep
  <1>4. ASSUME NEW S \in Roots, Settles(nextTx, S), nextTx' = nextTx + 1,
               UNCHANGED <<ledger, pc, task, resume, mode, mempool, faults>>
        PROVE  IInv'
    <2> DEFINE e == [rootOld |-> VaultRoot, nullifiers |-> S, tx |-> nextTx]
    <2>1. vaultLog' \in Seq(Entries) /\ LogEntries' = LogEntries \cup {e}
      BY <1>1, <1>4, SettlesFacts
    <2>2. e.tx = nextTx
      OBVIOUS
    <2> HIDE DEF e
    <2>3. ChainType' /\ nextTx' >= nextTx
      BY <1>1, <1>4, <2>1 DEF ChainType
    <2>4. QED
      BY <1>1, <1>4, <2>1, <2>2, <2>3, ChainStep
  <1>5. ASSUME NEW S \in ThirdParty, ThirdPartySettles(S) PROVE IInv'
    BY <1>4, <1>5, ServiceAssumption DEF ThirdPartySettles
  <1>6. ASSUME NEW b \in BatchIds(ledger), SelfSettled(b) PROVE IInv'
    <2>1. ledger.batches[b].leaves \in Roots
      BY <1>1, LedgerParts DEF Batches, Roots
    <2>2. QED
      BY <1>4, <1>6, <2>1 DEF SelfSettled
  <1>7. QED
    BY <1>2, <1>3, <1>5, <1>6

-------------------------------------------------------------------------------
(* Theorems                                                                *)

LEMMA InitIInv == Init => IInv
  <1> SUFFICES ASSUME Init PROVE IInv
    OBVIOUS
  <1>1. EmptyLedger \in Ledgers /\ Len(EmptyLedger.batches) = 0
    <2>1. Unknown \in Returns
      BY NoTxIsInt DEF Unknown, Returns, Statuses, Failures
    <2>2. QED
      BY <2>1 DEF EmptyLedger, Ledgers
  <1>2. LogEntries = {} /\ BatchIds(ledger) = {}
    BY <1>1 DEF Init, LogEntries, BatchIds
  <1>3. \A r \in Burns : ledger.returns[r].status = "absent"
    BY DEF Init, EmptyLedger, Unknown
  <1>4. DOMAIN asked = {} /\ DOMAIN todo = {}
    BY DEF Init, None
  <1>5. TypeOK
    <2>1. /\ EmptyAcc.spent = {} /\ EmptyAcc.tx \in [EmptyAcc.spent -> Txs]
          /\ None \in [{} -> Txs] /\ None \in [{} -> Verdicts] /\ NoTx \in Nat /\ {} \in Roots
      BY DEF EmptyAcc, None, NoTx, Roots
    <2>2. <<>> \in Seq(Entries)
      OBVIOUS
    <2>3. 0 \in 0..MaxFaults
      BY ServiceAssumption
    <2>4. TaskType
      BY <1>1, <1>4, <2>1 DEF Init, TaskType
    <2>5. ChainType /\ ModeType
      BY <2>2 DEF Init, ChainType, ModeType
    <2>6. QED
      BY <1>1, <2>3, <2>4, <2>5, TypeParts DEF Init, Pcs
  <1>6. LedgerInv(ledger, {cur}) /\ RecordsJust(ledger)
    BY <1>1, <1>2, <1>3 DEF Init, LedgerInv, ProvingBatches, MembersPlaced, BundlesWhole, RecordsJust,
         RecordJust, GivenUpJustly, SettledJustly
  <1>7. StageInv /\ ResumeInv
    BY <1>2 DEF Init, StageInv, AtRest, ResumeInv, ProofsNotForgotten, Verdict
  <1>8. VerdictInv
    BY <1>4 DEF Init, VerdictInv
  <1>9. TxInv
    BY <1>2 DEF Init, TxInv, NoTx
  <1>10. QED
    BY <1>5, <1>6, <1>7, <1>8, <1>9 DEF IInv

LEMMA NextIInv ==
  ASSUME IInv, [Next]_vars
  PROVE  IInv'
  <1>1. CASE OrchestratorStep
    <2>1. ASSUME NEW b \in resume, Resume(b) PROVE IInv'
      BY <2>1, ResumeStep
    <2>2. CASE Drained \/ NothingDue \/ RecheckFails
      BY <2>2, DrainedStep, NothingDueStep, RecheckFailsStep
    <2>3. ASSUME NEW fetched \in Fetchable,
                 Recheck(fetched) \/ SyncForProof(fetched) \/ AllReleased(fetched)
                   \/ Overtaken(fetched) \/ ReadyToSubmit(fetched)
          PROVE  IInv'
      BY <2>3, RecheckStep, SyncForProofStep, AllReleasedStep, OvertakenStep, ReadyToSubmitStep
    <2>4. ASSUME NEW S \in SUBSET Burns,
                 Take(S) \/ Assemble(S) \/ ConfirmBatch(S) \/ Confirm(S)
          PROVE  IInv'
      BY <2>4, TakeStep, AssembleStep, ConfirmBatchStep, ConfirmStep
    <2>5. CASE SyncFailed \/ SimulationFailed \/ ProofFailed \/ SubmissionFailed \/ GiveUp
      BY <2>5, FailingSteps
    <2>6. ASSUME NEW r \in Burns, Exclude(r) PROVE IInv'
      BY <2>6, ExcludeStep
    <2>7. CASE Prove \/ VerdictsApplied \/ Broadcast \/ Submitted \/ StaleRoot \/ Unconfirmed
      BY <2>7, ProveStep, VerdictsAppliedStep, BroadcastStep, SubmittedStep, OvertakenStep,
         UnconfirmedStep
    <2>8. CASE DrainedExit
      BY <2>8, RestartsStep
    <2>9. QED
      BY <1>1, <2>1, <2>2, <2>3, <2>4, <2>5, <2>6, <2>7, <2>8 DEF OrchestratorStep
  <1>2. ASSUME NEW r \in Burns, Post(r) \/ TimePasses(r) PROVE IInv'
    BY <1>2, PostStep, TimePassesStep
  <1>3. CASE StartDrain \/ Crash \/ Abandon
    BY <1>3, StartDrainStep, RestartsStep
  <1>4. CASE \/ \E m \in mempool : Land(m)
             \/ \E m \in mempool : Dropped(m)
             \/ \E S \in ThirdParty : ThirdPartySettles(S)
             \/ \E b \in BatchIds(ledger) : SelfSettled(b)
    BY <1>4, ChainSteps
  <1>5. CASE UNCHANGED vars
    BY <1>5 DEF vars, task, mode, chain, IInv, TypeOK, LedgerInv, MembersPlaced, BundlesWhole,
         BatchIds, ProvingBatches, MembersOf, RecordsJust, RecordJust, GivenUpJustly, SettledJustly,
         ReleasedIn, LogEntries, StageInv, AtRest, ResumeInv, ProofsNotForgotten, VerdictInv, TxInv
  <1>6. QED
    BY <1>1, <1>2, <1>3, <1>4, <1>5 DEF Next

LEMMA IInvHolds == Spec => []IInv
  BY InitIInv, NextIInv, PTL DEF Spec

(* The service's state is what its types say: no batch number, transaction *)
(* or verdict is ever used that was not formed before.                     *)
THEOREM TypeCorrect == Spec => []TypeOK
  <1>1. IInv => TypeOK
    BY DEF IInv
  <1>2. QED
    BY <1>1, IInvHolds, PTL

(* The ledger calls a return settled only in a transaction of the vault's  *)
(* log that released it: whatever one chain source prints, whichever       *)
(* settler was first, and however often the service crashed.               *)
THEOREM SettledWasReleasedHolds == Spec => []SettledWasReleased
  <1>1. IInv => SettledWasReleased
    BY DEF IInv, RecordsJust, RecordJust, SettledJustly, SettledWasReleased
  <1>2. QED
    BY <1>1, IInvHolds, PTL

(* A return shown as proving or proven is in a batch that is, and only the *)
(* batch in flight is being proved, across failures, rebases and restarts. *)
THEOREM NoReturnStrandedHolds == Spec => []NoReturnStranded
  <1>1. IInv => NoReturnStranded
    BY DEF IInv, LedgerInv, MembersPlaced, NoReturnStranded
  <1>2. QED
    BY <1>1, IInvHolds, PTL

(* With a submitter every proven batch is in flight or waits to be looked  *)
(* at: UnsettledProofs finds all of them at a restart.                     *)
THEOREM ProofsNotForgottenHolds == Spec => []ProofsNotForgotten
  <1>1. IInv => ProofsNotForgotten
    BY DEF IInv, ResumeInv
  <1>2. QED
    BY <1>1, IInvHolds, PTL

(* A return fails for good only for its locks or after MaxAttempts         *)
(* attempts, whoever charged them: a failure, a verdict or a restart.      *)
THEOREM GivenUpOnlyAfterRetriesHolds == Spec => []GivenUpOnlyAfterRetries
  <1>1. IInv => GivenUpOnlyAfterRetries
    BY DEF IInv, RecordsJust, RecordJust, GivenUpJustly, GivenUpOnlyAfterRetries
  <1>2. QED
    BY <1>1, IInvHolds, PTL

-------------------------------------------------------------------------------
(* Settlements in sight                                                    *)

(* The other settlers leave the burns of the service alone, and nothing    *)
(* goes wrong but interruptions, none of which loses a settlement.         *)
OthersKeepOff == \A S \in ThirdParty : S \cap Burns = {}
Quiet == kinds \subseteq Interruptions /\ InSight
Unstopped == kinds \cap Stops = {}

Batch(b) == ledger.batches[b]
BundleOf(b) == [rootOld |-> Batch(b).rootOld, nullifiers |-> Batch(b).leaves]
LogTransitions == {TransitionOf(e) : e \in LogEntries}
Ended == {b \in BatchIds(ledger) : Batch(b).status = "settled"}
ProvenOnes == {b \in BatchIds(ledger) : Batch(b).status = "proven"}
InHand == ProvenOnes \cup ({cur} \ {0})

(* The vault's log is one chain from the empty root.                       *)
LogInv ==
  /\ \A e \in LogEntries :
       e.nullifiers # {} /\ e.nullifiers \cap e.rootOld = {} /\ e.rootOld \subseteq VaultRoot
  /\ \A e, f \in LogEntries : e.rootOld = f.rootOld => e = f
  /\ \A e, f \in LogEntries : e.nullifiers \cap f.nullifiers # {} => e = f
  /\ \A e \in LogEntries :
       e.rootOld = {} \/ \E f \in LogEntries : e.rootOld = f.rootOld \cup f.nullifiers
  /\ LogEntries = {} \/ \E f \in LogEntries : VaultRoot = f.rootOld \cup f.nullifiers

(* A settled batch made a transition of the vault and all its returns are  *)
(* settled; no batch to come holds one of them.                            *)
SettledInv ==
  \A b \in Ended :
    /\ BundleOf(b) \in LogTransitions
    /\ \A r \in Batch(b).leaves : ledger.returns[r].status = "settled"
    /\ \A c \in InHand : Batch(c).members \cap Batch(b).leaves = {}

(* There is one proven batch at most, the one in flight if there is one;   *)
(* its bundle was made as it is, or not touched at all.                    *)
Untouched(leaves) == leaves \cap VaultRoot = {}
StillHeld(b) ==
  \/ Batch(b).leaves \subseteq MembersOf(ledger, b)
  \/ ~HasConfirm /\ Batch(b).leaves \subseteq VaultRoot
ProvenInv ==
  /\ \A b, c \in ProvenOnes : b = c
  /\ \A b \in ProvenOnes :
       /\ cur = 0 \/ b = cur
       /\ Batch(b).leaves # {} /\ Batch(b).leaves \cap Batch(b).rootOld = {}
       /\ Batch(b).leaves \subseteq Batch(b).members \ BadLock
       /\ Batch(b).rootOld \subseteq VaultRoot
       /\ Untouched(Batch(b).leaves) \/ BundleOf(b) \in LogTransitions
       /\ StillHeld(b)

(* A settlement that can still land is the bundle of the proven batch; and *)
(* where the service does not stop, the task waits for its receipt.        *)
InWatch(m) ==
  /\ \E b \in ProvenOnes : BundleOf(b) = TransitionOf(m)
  /\ Unstopped => pc = "receipt" /\ m.tx = mine
MempoolInv ==
  \A m \in mempool : m.rootOld \subseteq VaultRoot /\ (m.rootOld = VaultRoot => InWatch(m))

(* What the task holds across its awaits.                                  *)
ReceiptInv ==
  /\ pc # "await"
  /\ pc \in {"submit", "receipt"} => Leaves \subseteq MembersOf(ledger, cur)
  /\ pc = "receipt" =>
       /\ \E t \in LogEntries \cup mempool : t.tx = mine
       /\ \A t \in LogEntries \cup mempool : t.tx = mine => TransitionOf(t) = BundleOf(cur)
AssemblyInv ==
  /\ pc = "simulate" =>
       acc.spent \subseteq VaultRoot /\ Batch(cur).members \cap VaultRoot \subseteq acc.spent
  /\ pc = "prove" \/ cont = "prove" =>
       /\ kept # {} /\ kept \subseteq Batch(cur).members \ BadLock /\ Untouched(kept)
       /\ acc.spent \subseteq VaultRoot
Judged == DOMAIN todo \cup (IF pc = "confirm" THEN DOMAIN asked ELSE {})
AskedInv ==
  /\ pc \notin Verdict => DOMAIN todo = {}
  /\ cont = "released" =>
       /\ Leaves \subseteq VaultRoot
       /\ \A r \in DOMAIN asked :
            \E e \in LogEntries : TransitionOf(e) = BundleOf(cur) /\ asked[r] = e.tx
  /\ cont = "fail" /\ Batch(cur).status = "proven" => ~HasConfirm /\ Leaves \subseteq VaultRoot
  /\ cont # "take" => Judged \subseteq Batch(cur).members \cap (BadLock \cup VaultRoot)
  /\ pc \in Verdict /\ cont = "take" => \A r \in Judged : ledger.returns[r].status # "settled"
(* Every member not released yet, and with its locks, is still one.        *)
MembersInv ==
  \A b \in InHand : (Batch(b).members \ BadLock) \ VaultRoot \subseteq MembersOf(ledger, b)

(* Where the service does not stop, what its settlements released is       *)
(* settled, but for the one whose receipt is about to be read.             *)
LandedNow == pc = "receipt" /\ Landed(mine)
UnstoppedInv ==
  Unstopped =>
    /\ resume = {}
    /\ cur # 0 /\ ~LandedNow => Untouched(Batch(cur).members)
    /\ \A r \in Burns \cap VaultRoot :
         ledger.returns[r].status = "settled" \/ (LandedNow /\ r \in Leaves)

SightInv ==
  /\ LogInv /\ SettledInv /\ ProvenInv /\ MempoolInv
  /\ ReceiptInv /\ AssemblyInv /\ AskedInv /\ MembersInv
  /\ UnstoppedInv

LEMMA Known ==
  ASSUME IInv
  PROVE  /\ \A e \in LogEntries : e \in Entries
         /\ \A m \in mempool : m \in Entries
         /\ VaultRoot \in Roots
         /\ \A e \in LogEntries : e.nullifiers \subseteq VaultRoot
         /\ \A b \in BatchIds(ledger) : Batch(b) \in Batches /\ MembersOf(ledger, b) \subseteq Burns
         /\ 0 \notin BatchIds(ledger)
         /\ cur # 0 => cur \in BatchIds(ledger)
         /\ ledger \in Ledgers /\ ledger.returns \in [Burns -> Returns]
  <1>1. vaultLog \in Seq(Entries) /\ mempool \subseteq Entries /\ ledger \in Ledgers
        /\ cur \in 0..Len(ledger.batches)
    BY DEF IInv, TypeOK
  <1>2. \A i \in 1..Len(vaultLog) : vaultLog[i] \in Entries
    BY <1>1, ElementOfSeq
  <1>3. \A e \in LogEntries : e \in Entries
    BY <1>2 DEF LogEntries
  <1>4. VaultRoot \in Roots /\ \A e \in LogEntries : e.nullifiers \subseteq VaultRoot
    BY <1>3 DEF VaultRoot, Entries, Roots
  <1>5. \A b \in BatchIds(ledger) : Batch(b) \in Batches /\ MembersOf(ledger, b) \subseteq Burns
    BY <1>1, LedgerParts DEF Batch
  <1>6. Len(ledger.batches) \in Nat /\ ledger.returns \in [Burns -> Returns]
    BY <1>1, LedgerParts
  <1>7. 0 \notin BatchIds(ledger) /\ (cur # 0 => cur \in BatchIds(ledger))
    BY <1>1, <1>6 DEF BatchIds
  <1>8. QED
    BY <1>1, <1>3, <1>4, <1>5, <1>6, <1>7

(* What follows from the task's stage.                                     *)
LEMMA Staged ==
  ASSUME IInv, cur # 0
  PROVE  /\ cur \in BatchIds(ledger) /\ ~AtRest
         /\ Batch(cur).status \in {"proving", "proven"}
         /\ Batch(cur) \in Batches
  <1>1. ~AtRest /\ cur \in BatchIds(ledger) /\ Batch(cur) \in Batches
    BY Known DEF IInv, StageInv
  <1>2. Batch(cur).status \in {"proving", "proven"}
    BY <1>1 DEF IInv, StageInv, TypeOK, Pcs, AtRest, Verdict, Batch
  <1>3. QED
    BY <1>1, <1>2

(* What is read is a part of the log, and the whole of it where no sync    *)
(* fails.                                                                  *)
LEMMA HonestRead ==
  ASSUME Quiet, NEW fetched, Reads(fetched)
  PROVE  /\ fetched \subseteq LogEntries
         /\ kinds \cap FailedSyncs = {} => fetched = LogEntries
  <1>1. "lying" \notin kinds
    BY DEF Quiet, Interruptions
  <1>2. fetched = LogEntries \/ (fetched \in Prefixes /\ "lagging" \in kinds)
    BY <1>1 DEF Reads, Fault, MayFail
  <1>3. ASSUME fetched \in Prefixes PROVE fetched \subseteq LogEntries
    <2>1. PICK k \in 0..(Len(vaultLog) - 1) : fetched = {vaultLog[i] : i \in 1..k}
      BY <1>3 DEF Prefixes
    <2>2. \A i \in 1..k : i \in 1..Len(vaultLog)
      OBVIOUS
    <2>3. QED
      BY <2>1, <2>2 DEF LogEntries
  <1>4. QED
    BY <1>2, <1>3 DEF FailedSyncs

LEMMA Transitions ==
  /\ \A e \in LogEntries : TransitionOf(e) \in LogTransitions
  /\ \A t \in LogTransitions : \E e \in LogEntries : t = TransitionOf(e)
  /\ \A e : TransitionOf(e).rootOld = e.rootOld /\ TransitionOf(e).nullifiers = e.nullifiers
  BY DEF LogTransitions, TransitionOf

LEMMA MergedIsTheLogs ==
  ASSUME SettledInv, NEW fetched, fetched \subseteq LogEntries
  PROVE  /\ Merged(fetched) \subseteq LogTransitions
         /\ fetched = LogEntries => Merged(fetched) = LogTransitions
  <1>1. \A t \in SettledBatches(ledger) : TransitionOf(t) \in LogTransitions
    <2> SUFFICES ASSUME NEW t \in SettledBatches(ledger) PROVE TransitionOf(t) \in LogTransitions
      OBVIOUS
    <2>1. PICK b \in Ended : t = Transition(ledger.batches[b])
      BY DEF SettledBatches, Ended, Batch
    <2>2. TransitionOf(t) = BundleOf(b)
      BY <2>1 DEF TransitionOf, Transition, BundleOf, Batch
    <2>3. QED
      BY <2>2 DEF SettledInv
  <1>2. QED
    BY <1>1, Transitions DEF Merged

LEMMA RebuiltIsSpent ==
  ASSUME SettledInv, NEW fetched, fetched \subseteq LogEntries
  PROVE  /\ Rebuilt(fetched).spent \subseteq VaultRoot
         /\ fetched = LogEntries => Rebuilt(fetched).spent = VaultRoot
  <1>1. Rebuilt(fetched).spent = UNION {t.nullifiers : t \in Merged(fetched)}
    BY DEF Rebuilt
  <1>2. UNION {t.nullifiers : t \in LogTransitions} = VaultRoot
    <2>1. \A t \in LogTransitions : \E e \in LogEntries : t.nullifiers = e.nullifiers
      BY Transitions
    <2>2. \A e \in LogEntries : \E t \in LogTransitions : t.nullifiers = e.nullifiers
      BY Transitions
    <2>3. QED
      BY <2>1, <2>2 DEF VaultRoot
  <1>3. QED
    BY <1>1, <1>2, MergedIsTheLogs

(* The log says in which transaction each nullifier was spent.             *)
LEMMA RebuiltNamesTx ==
  ASSUME SettledInv, NEW r \in VaultRoot
  PROVE  \E e \in LogEntries : r \in e.nullifiers /\ Rebuilt(LogEntries).tx[r] = e.tx
  <1> DEFINE Copies(n, log) == {t \in log : n \in t.nullifiers}
             Source(n) == IF Copies(n, LogEntries) # {} THEN LogEntries ELSE SettledBatches(ledger)
             first == CHOOSE t \in Copies(r, Source(r)) : TRUE
  <1>1. r \in Rebuilt(LogEntries).spent
    BY RebuiltIsSpent
  <1>2. Rebuilt(LogEntries).tx[r] = first.tx
    BY <1>1 DEF Rebuilt
  <1>3. Copies(r, LogEntries) # {}
    BY DEF VaultRoot
  <1>4. first \in Copies(r, LogEntries)
    BY <1>3
  <1>5. QED
    BY <1>2, <1>4

(* Where no sync fails by itself, none is refused: the log and the settled *)
(* batches make one chain.                                                 *)
LEMMA LogChains ==
  ASSUME LogInv
  PROVE  Chains(LogTransitions)
  <1>1. \A t \in LogTransitions : \E e \in LogEntries :
          t = TransitionOf(e) /\ t.rootOld = e.rootOld /\ t.nullifiers = e.nullifiers
    BY Transitions
  <1>2. \A e \in LogEntries : \E t \in LogTransitions :
          t = TransitionOf(e) /\ t.rootOld = e.rootOld /\ t.nullifiers = e.nullifiers
    BY Transitions
  <1>3. \A t \in LogTransitions : t.nullifiers # {} /\ t.nullifiers \cap t.rootOld = {}
    BY <1>1 DEF LogInv
  <1>4. \A t, u \in LogTransitions : t.rootOld = u.rootOld => t = u
    BY <1>1 DEF LogInv
  <1>5. \A t \in LogTransitions :
          t.rootOld = {} \/ \E u \in LogTransitions : t.rootOld = u.rootOld \cup u.nullifiers
    BY <1>1, <1>2 DEF LogInv
  <1>6. QED
    BY <1>3, <1>4, <1>5 DEF Chains

LEMMA SyncsSucceed ==
  ASSUME Quiet, LogInv, SettledInv, kinds \cap FailedSyncs = {}
  PROVE  ~SyncFails
  <1>1. "unreadable" \notin kinds
    BY DEF FailedSyncs
  <1>2. ~Fault("unreadable")
    BY <1>1 DEF Fault, MayFail
  <1>3. \A fetched : Reads(fetched) => Chains(Merged(fetched))
    BY HonestRead, MergedIsTheLogs, LogChains
  <1>4. QED
    BY <1>2, <1>3 DEF SyncFails

-------------------------------------------------------------------------------
(* What a step leaves alone, of settlements in sight                       *)

LEMMA LogKept ==
  ASSUME UNCHANGED vaultLog
  PROVE  /\ LogEntries' = LogEntries /\ VaultRoot' = VaultRoot
         /\ LogTransitions' = LogTransitions
         /\ LogInv => LogInv'
         /\ \A S : Untouched(S)' <=> Untouched(S)
         /\ \A tx : Landed(tx)' <=> Landed(tx)
  <1>1. LogEntries' = LogEntries
    BY DEF LogEntries
  <1>2. VaultRoot' = VaultRoot
    BY <1>1 DEF VaultRoot
  <1>3. LogTransitions' = LogTransitions
    BY <1>1 DEF LogTransitions
  <1>4. LogInv => LogInv'
    BY <1>1, <1>2 DEF LogInv
  <1>5. QED
    BY <1>1, <1>2, <1>3, <1>4 DEF Untouched, Landed

LEMMA SettledFrame ==
  ASSUME SettledInv, LogTransitions \subseteq LogTransitions',
         \A b \in Ended' : b \in Ended /\ BundleOf(b)' = BundleOf(b),
         \A b \in Ended : \A r \in Batch(b).leaves : ledger'.returns[r].status = "settled",
         \A c \in InHand' :
           c \in InHand /\ Batch(c)'.members = Batch(c).members
  PROVE  SettledInv'
  <1> SUFFICES ASSUME NEW b \in Ended'
               PROVE  /\ BundleOf(b)' \in LogTransitions'
                      /\ \A r \in Batch(b)'.leaves : ledger'.returns[r].status = "settled"
                      /\ \A c \in InHand' :
                           Batch(c)'.members \cap Batch(b)'.leaves = {}
    BY DEF SettledInv, Ended, BatchIds, Batch
  <1>1. b \in Ended /\ BundleOf(b)' = BundleOf(b)
    OBVIOUS
  <1>2. Batch(b)'.leaves = Batch(b).leaves
    BY <1>1 DEF BundleOf, Batch
  <1>3. QED
    BY <1>1, <1>2 DEF SettledInv

LEMMA ProvenFrame ==
  ASSUME ProvenInv, VaultRoot \subseteq VaultRoot', LogTransitions \subseteq LogTransitions',
         \A b \in ProvenOnes' :
           /\ b \in ProvenOnes /\ Batch(b)' = Batch(b)
           /\ cur' = 0 \/ b = cur'
           /\ Untouched(Batch(b).leaves) =>
                Untouched(Batch(b).leaves)' \/ BundleOf(b) \in LogTransitions'
           /\ StillHeld(b) => StillHeld(b)'
  PROVE  ProvenInv'
  <1>1. ASSUME NEW b \in ProvenOnes', NEW c \in ProvenOnes' PROVE b = c
    BY <1>1 DEF ProvenInv
  <1>2. ASSUME NEW b \in ProvenOnes'
        PROVE  /\ cur' = 0 \/ b = cur'
               /\ Batch(b)'.leaves # {} /\ Batch(b)'.leaves \cap Batch(b)'.rootOld = {}
               /\ Batch(b)'.leaves \subseteq Batch(b)'.members \ BadLock
               /\ Batch(b)'.rootOld \subseteq VaultRoot'
               /\ Untouched(Batch(b).leaves)' \/ BundleOf(b)' \in LogTransitions'
               /\ StillHeld(b)'
    <2>1. b \in ProvenOnes /\ Batch(b)' = Batch(b)
      BY <1>2
    <2>2. BundleOf(b)' = BundleOf(b) /\ Untouched(Batch(b).leaves)' = (Batch(b).leaves \cap VaultRoot' = {})
      BY <2>1 DEF BundleOf, Untouched
    <2>3. QED
      BY <1>2, <2>1, <2>2 DEF ProvenInv
  <1>3. QED
    BY <1>1, <1>2 DEF ProvenInv, Batch, BundleOf, Untouched, StillHeld

(* No settlement of the service can land.                                  *)
NoneLive == \A m \in mempool : m.rootOld # VaultRoot

LEMMA WhenNoneLive ==
  ASSUME IInv, SightInv,
         \/ cur # 0 /\ Batch(cur).status = "proving"
         \/ cur # 0 /\ Batch(cur).rootOld # VaultRoot
         \/ Unstopped /\ pc # "receipt"
         \/ ProvenOnes = {}
  PROVE  NoneLive
  <1> SUFFICES ASSUME NEW m \in mempool, m.rootOld = VaultRoot PROVE FALSE
    BY DEF NoneLive
  <1>1. InWatch(m)
    BY DEF SightInv, MempoolInv
  <1>2. PICK b \in ProvenOnes : BundleOf(b) = TransitionOf(m)
    BY <1>1 DEF InWatch
  <1>3. Batch(b).rootOld = VaultRoot
    BY <1>2 DEF BundleOf, TransitionOf
  <1>4. cur = 0 \/ b = cur
    BY DEF SightInv, ProvenInv
  <1>5. Batch(b).status = "proven"
    BY DEF ProvenOnes
  <1>6. QED
    BY <1>1, <1>3, <1>4, <1>5 DEF InWatch

LEMMA MempoolFrame ==
  ASSUME MempoolInv, UNCHANGED <<vaultLog, mempool>>,
         \/ NoneLive
         \/ /\ UNCHANGED kinds /\ \A b \in ProvenOnes : b \in ProvenOnes' /\ BundleOf(b)' = BundleOf(b)
            /\ ~Unstopped \/ UNCHANGED <<pc, mine>>
  PROVE  MempoolInv'
  <1> SUFFICES ASSUME NEW m \in mempool
               PROVE  m.rootOld \subseteq VaultRoot /\ (m.rootOld = VaultRoot => InWatch(m)')
    BY LogKept DEF MempoolInv
  <1>1. m.rootOld \subseteq VaultRoot /\ (m.rootOld = VaultRoot => InWatch(m))
    BY DEF MempoolInv
  <1>2. CASE NoneLive
    BY <1>1, <1>2 DEF NoneLive
  <1>3. ASSUME UNCHANGED kinds, \A b \in ProvenOnes : b \in ProvenOnes' /\ BundleOf(b)' = BundleOf(b),
               ~Unstopped \/ UNCHANGED <<pc, mine>>, InWatch(m)
        PROVE  InWatch(m)'
    <2>1. PICK b \in ProvenOnes : BundleOf(b) = TransitionOf(m)
      BY <1>3 DEF InWatch
    <2>2. b \in ProvenOnes' /\ BundleOf(b)' = TransitionOf(m)
      BY <1>3, <2>1
    <2>3. Unstopped' <=> Unstopped
      BY <1>3 DEF Unstopped
    <2>4. Unstopped' => pc' = "receipt" /\ m.tx = mine'
      BY <1>3, <2>3 DEF InWatch
    <2>5. QED
      BY <2>2, <2>4 DEF InWatch, TransitionOf
  <1>4. QED
    BY <1>1, <1>2, <1>3

(* A step of the task that changes neither the ledger nor the batch in     *)
(* flight.                                                                 *)
LEMMA TaskFrame ==
  ASSUME IInv, SightInv, UNCHANGED <<ledger, cur, resume, chain, kinds>>,
         pc # "receipt", pc' # "receipt",
         ReceiptInv', AssemblyInv', AskedInv'
  PROVE  SightInv'
  <1>1. UNCHANGED <<vaultLog, mempool, ledger, cur, kinds>>
    BY DEF chain
  <1>2. /\ Ended' = Ended /\ ProvenOnes' = ProvenOnes /\ InHand' = InHand
        /\ \A b : /\ Batch(b)' = Batch(b) /\ BundleOf(b)' = BundleOf(b)
                 /\ MembersOf(ledger, b)' = MembersOf(ledger, b)
    BY <1>1 DEF Ended, ProvenOnes, InHand, BatchIds, Batch, BundleOf, MembersOf
  <1>3. LogInv' /\ SettledInv'
    BY <1>1, <1>2, LogKept, SettledFrame DEF SightInv, SettledInv
  <1>4. ProvenInv'
    <2>1. \A b : StillHeld(b) => StillHeld(b)'
      BY <1>1, <1>2, LogKept DEF StillHeld
    <2>2. \A b \in ProvenOnes : cur = 0 \/ b = cur
      BY DEF SightInv, ProvenInv
    <2>3. QED
      BY <1>1, <1>2, <2>1, <2>2, LogKept, ProvenFrame DEF SightInv
  <1>5. MempoolInv'
    <2>1. CASE Unstopped
      BY <1>1, <2>1, WhenNoneLive, MempoolFrame DEF SightInv
    <2>2. CASE ~Unstopped
      BY <1>1, <1>2, <2>2, MempoolFrame DEF SightInv
    <2>3. QED
      BY <2>1, <2>2
  <1>6. MembersInv'
    BY <1>1, <1>2, LogKept DEF SightInv, MembersInv
  <1>7. UnstoppedInv'
    BY <1>1, <1>2, LogKept DEF SightInv, UnstoppedInv, Unstopped, LandedNow
  <1>8. QED
    BY <1>3, <1>4, <1>5, <1>6, <1>7 DEF SightInv

(* A change to returns only: of those of T, and of others that are neither *)
(* with a batch nor settled.                                               *)
LEMMA ReturnsFrame ==
  ASSUME IInv, SightInv, NEW T \in SUBSET Burns,
         ledger'.batches = ledger.batches, UNCHANGED <<cur, resume, chain, kinds>>,
         \A r \in Burns \ T :
           ledger.returns[r].status \in {"proving", "proven", "settled"} =>
             /\ ledger'.returns[r].status = ledger.returns[r].status
             /\ ledger'.returns[r].batch = ledger.returns[r].batch,
         \A b \in Ended : T \cap Batch(b).leaves = {},
         \A b \in ProvenOnes :
           T = {} \/ (~HasConfirm /\ Batch(b).leaves \subseteq VaultRoot),
         \A b \in InHand : T \cap Batch(b).members \subseteq BadLock \cup VaultRoot,
         Unstopped => T \cap VaultRoot = {},
         UNCHANGED <<pc, mine>> \/ (pc # "receipt" /\ pc' # "receipt"),
         ReceiptInv', AssemblyInv', AskedInv'
  PROVE  SightInv'
  <1>1. UNCHANGED <<vaultLog, mempool, cur, kinds>>
    BY DEF chain
  <1>2. /\ Ended' = Ended /\ ProvenOnes' = ProvenOnes /\ InHand' = InHand
        /\ \A b : Batch(b)' = Batch(b) /\ BundleOf(b)' = BundleOf(b)
    BY <1>1 DEF Ended, ProvenOnes, InHand, BatchIds, Batch, BundleOf
  <1>3. ASSUME NEW b \in BatchIds(ledger), NEW r \in MembersOf(ledger, b), r \notin T
        PROVE  r \in MembersOf(ledger', b)
    <2>1. r \in Burns
      BY <1>3, Known
    <2>2. r \in ledger.batches[b].members /\ InBatch(ledger.returns[r], b)
      BY <1>3 DEF MembersOf
    <2>3. QED
      BY <1>3, <2>1, <2>2 DEF MembersOf, InBatch
  <1>4. SettledInv'
    <2>1. \A b \in Ended : \A r \in Batch(b).leaves : r \in Burns \ T /\ ledger.returns[r].status = "settled"
      <3> SUFFICES ASSUME NEW b \in Ended, NEW r \in Batch(b).leaves
                   PROVE  r \in Burns \ T /\ ledger.returns[r].status = "settled"
        OBVIOUS
      <3>1. Batch(b) \in Batches
        BY Known DEF Ended
      <3>2. r \in Burns
        BY <3>1 DEF Batches
      <3>3. QED
        BY <3>2 DEF SightInv, SettledInv
    <2>2. \A b \in Ended : \A r \in Batch(b).leaves : ledger'.returns[r].status = "settled"
      BY <2>1
    <2>3. QED
      BY <1>1, <1>2, <2>2, LogKept, SettledFrame DEF SightInv
  <1>5. ProvenInv'
    <2>1. ASSUME NEW b \in ProvenOnes, StillHeld(b) PROVE StillHeld(b)'
      <3>1. b \in BatchIds(ledger)
        BY DEF ProvenOnes
      <3>2. MembersOf(ledger, b)' = MembersOf(ledger', b)
        BY DEF MembersOf
      <3>3. CASE T = {}
        BY <1>1, <1>2, <1>3, <2>1, <3>1, <3>2, <3>3, LogKept DEF StillHeld
      <3>4. CASE T # {}
        BY <1>1, <1>2, <3>4, LogKept DEF StillHeld
      <3>5. QED
        BY <3>3, <3>4
    <2>2. \A b \in ProvenOnes : cur = 0 \/ b = cur
      BY DEF SightInv, ProvenInv
    <2>3. QED
      BY <1>1, <1>2, <2>1, <2>2, LogKept, ProvenFrame DEF SightInv
  <1>6. MempoolInv'
    <2>1. CASE Unstopped /\ pc # "receipt"
      BY <1>1, <2>1, WhenNoneLive, MempoolFrame DEF SightInv
    <2>2. CASE ~Unstopped \/ pc = "receipt"
      BY <1>1, <1>2, <2>2, MempoolFrame DEF SightInv
    <2>3. QED
      BY <2>1, <2>2
  <1>7. MembersInv'
    <2>1. \A b : MembersOf(ledger, b)' = MembersOf(ledger', b)
      BY DEF MembersOf
    <2>2. \A b \in InHand : b \in BatchIds(ledger)
      BY Known DEF InHand, ProvenOnes
    <2>3. QED
      BY <1>1, <1>2, <1>3, <2>1, <2>2, LogKept DEF SightInv, MembersInv
  <1>8. UnstoppedInv'
    <2>1. Unstopped' <=> Unstopped
      BY <1>1 DEF Unstopped
    <2>2. (LandedNow' <=> LandedNow) /\ Leaves' = Leaves
      BY <1>1, <1>2, LogKept DEF LandedNow, Leaves
    <2>3. \A r \in Burns \cap VaultRoot : Unstopped /\ ledger.returns[r].status = "settled"
            => ledger'.returns[r].status = "settled"
      OBVIOUS
    <2>4. QED
      BY <1>1, <1>2, <2>1, <2>2, <2>3, LogKept DEF SightInv, UnstoppedInv
  <1>9. QED
    BY <1>1, <1>4, <1>5, <1>6, <1>7, <1>8, LogKept DEF SightInv

(* A batch that is over while none of its settlements can land.            *)
LEMMA EndFrame ==
  ASSUME IInv, SightInv, cur # 0, BackToLoop, UNCHANGED <<resume, chain, kinds>>, NoneLive,
         OneBatchChanged(ledger'.batches, ledger, cur, ledger'.batches[cur]),
         \A r \in Burns \ MembersOf(ledger, cur) : ledger'.returns[r] = ledger.returns[r],
         \/ ledger'.batches[cur].status \notin {"proven", "settled"}
         \/ /\ ledger'.batches[cur].status = "settled" /\ BundleOf(cur) \in LogTransitions
            /\ ledger'.batches[cur].leaves = Batch(cur).leaves
            /\ ledger'.batches[cur].rootOld = Batch(cur).rootOld
            /\ \A r \in Batch(cur).leaves : ledger'.returns[r].status = "settled",
         Unstopped => \A r \in Burns \cap VaultRoot : ledger'.returns[r].status = "settled"
  PROVE  SightInv'
  <1>1. UNCHANGED <<vaultLog, mempool, kinds>>
    BY DEF chain
  <1>2. /\ cur' = 0 /\ pc' = "next" /\ cont' = "take"
    BY DEF BackToLoop
  <1>3. /\ BatchIds(ledger)' = BatchIds(ledger)
        /\ \A b \in BatchIds(ledger) \ {cur} : Batch(b)' = Batch(b) /\ BundleOf(b)' = BundleOf(b)
    BY DEF OneBatchChanged, BatchIds, Batch, BundleOf
  <1>4. ProvenOnes' = {}
    <2>1. \A b \in ProvenOnes' : b = cur
      BY <1>3 DEF ProvenOnes, SightInv, ProvenInv
    <2>2. cur \notin ProvenOnes'
      BY DEF ProvenOnes, Batch
    <2>3. QED
      BY <2>1, <2>2
  <1>5. ProvenInv' /\ InHand' = {}
    BY <1>2, <1>4 DEF ProvenInv, InHand
  <1>6. SettledInv'
    <2> SUFFICES ASSUME NEW b \in Ended'
                 PROVE  /\ BundleOf(b)' \in LogTransitions'
                        /\ \A r \in Batch(b)'.leaves : ledger'.returns[r].status = "settled"
      BY <1>5 DEF SettledInv
    <2>1. CASE b = cur
      <3>1. ledger'.batches[cur].status = "settled"
        BY <2>1 DEF Ended, Batch
      <3>2. BundleOf(b)' = BundleOf(b) /\ Batch(b)'.leaves = Batch(b).leaves
        BY <2>1, <3>1 DEF BundleOf, Batch
      <3>3. QED
        BY <1>1, <2>1, <3>1, <3>2, LogKept
    <2>2. CASE b # cur
      <3>1. b \in Ended /\ Batch(b)' = Batch(b) /\ BundleOf(b)' = BundleOf(b)
        BY <1>3, <2>2 DEF Ended
      <3>2. Batch(b) \in Batches /\ b \in BatchIds(ledger)
        BY <3>1, Known DEF Ended
      <3>3. Batch(cur).members \cap Batch(b).leaves = {}
        BY <3>1 DEF SightInv, SettledInv, InHand
      <3>4. ASSUME NEW r \in Batch(b).leaves PROVE ledger'.returns[r].status = "settled"
        <4>1. r \in Burns \ MembersOf(ledger, cur)
          BY <3>2, <3>3 DEF MembersOf, Batch, Batches
        <4>2. QED
          BY <3>1, <4>1 DEF SightInv, SettledInv
      <3>5. QED
        BY <1>1, <3>1, <3>4, LogKept DEF SightInv, SettledInv
    <2>3. QED
      BY <2>1, <2>2
  <1>7. MempoolInv'
    BY <1>1, MempoolFrame DEF SightInv
  <1>8. ReceiptInv' /\ AssemblyInv' /\ AskedInv' /\ MembersInv'
    <2>1. todo' = None
      BY DEF BackToLoop
    <2>2. QED
      BY <1>2, <1>5, <2>1 DEF ReceiptInv, AssemblyInv, AskedInv, MembersInv, Verdict, None
  <1>9. UnstoppedInv'
    BY <1>1, <1>2, LogKept DEF SightInv, UnstoppedInv, Unstopped, LandedNow
  <1>10. QED
    BY <1>1, <1>5, <1>6, <1>7, <1>8, <1>9, LogKept DEF SightInv

(* What the ledger's events leave alone, and what they make of the members *)
(* and the bundle of the batch.                                            *)
LEMMA OneBatchFields ==
  ASSUME NEW L \in Ledgers, NEW b \in BatchIds(L), NEW B
  PROVE  [L.batches EXCEPT ![b] = B][b] = B
  BY LedgerParts DEF BatchIds

LEMMA FailedFields ==
  ASSUME NEW L \in Ledgers, NEW b \in BatchIds(L)
  PROVE  \A r \in Burns \ MembersOf(L, b) : BatchFailed(L, b).returns[r] = L.returns[r]
  BY DEF BatchFailed, ForReturns

LEMMA SettledFields ==
  ASSUME NEW L \in Ledgers, NEW b \in BatchIds(L), NEW tx
  PROVE  LET M == BatchSettled(L, b, tx) IN
         /\ \A r \in Burns \ MembersOf(L, b) : M.returns[r] = L.returns[r]
         /\ \A r \in MembersOf(L, b) : M.returns[r].status = "settled"
         /\ M.batches[b].leaves = L.batches[b].leaves
         /\ M.batches[b].rootOld = L.batches[b].rootOld
  <1> DEFINE M == BatchSettled(L, b, tx)
  <1>1. L.batches[b] \in Batches /\ MembersOf(L, b) \subseteq Burns /\ L.returns \in [Burns -> Returns]
        /\ L.batches \in Seq(Batches)
    BY LedgerParts
  <1>2. M.batches[b] = [[L.batches[b] EXCEPT !.status = "settled"] EXCEPT !.tx = tx]
    <2>1. b \in DOMAIN L.batches
      BY <1>1 DEF BatchIds
    <2>2. M.batches = [L.batches EXCEPT ![b].status = "settled", ![b].tx = tx]
      BY DEF BatchSettled
    <2>3. QED
      BY <2>1, <2>2
  <1>3. M.batches[b].leaves = L.batches[b].leaves /\ M.batches[b].rootOld = L.batches[b].rootOld
    BY <1>1, <1>2 DEF Batches
  <1>4. \A r \in Burns \ MembersOf(L, b) : M.returns[r] = L.returns[r]
    BY DEF BatchSettled, ForReturns
  <1>5. ASSUME NEW r \in MembersOf(L, b) PROVE M.returns[r].status = "settled"
    <2>1. M.returns[r] = [L.returns[r] EXCEPT !.status = "settled", !.tx = tx]
      BY <1>1, <1>5 DEF BatchSettled, ForReturns
    <2>2. L.returns[r] \in Returns
      BY <1>1, <1>5
    <2>3. QED
      BY <2>1, <2>2 DEF Returns
  <1>6. QED
    BY <1>3, <1>4, <1>5

LEMMA RebasedFields ==
  ASSUME NEW L \in Ledgers, NEW b \in BatchIds(L)
  PROVE  LET M == BatchRebased(L, b) IN
         /\ \A r \in Burns \ MembersOf(L, b) : M.returns[r] = L.returns[r]
         /\ M.batches[b].members = L.batches[b].members
         /\ MembersOf(L, b) \subseteq MembersOf(M, b)
  <1> DEFINE M == BatchRebased(L, b)
  <1>1. L.batches[b] \in Batches /\ MembersOf(L, b) \subseteq Burns /\ L.returns \in [Burns -> Returns]
        /\ L.batches \in Seq(Batches)
    BY LedgerParts
  <1>2. M.batches[b].members = L.batches[b].members
    <2>1. b \in DOMAIN L.batches
      BY <1>1 DEF BatchIds
    <2>2. M.batches = [L.batches EXCEPT ![b].status = "proving", ![b].rebases = @ + 1,
                                        ![b].leaves = {}, ![b].rootOld = {}]
      BY DEF BatchRebased
    <2>3. QED
      BY <1>1, <2>1, <2>2 DEF Batches
  <1>3. \A r \in Burns \ MembersOf(L, b) : M.returns[r] = L.returns[r]
    BY DEF BatchRebased, ForReturns
  <1>4. ASSUME NEW r \in MembersOf(L, b) PROVE r \in MembersOf(M, b)
    <2>1. M.returns[r] = [L.returns[r] EXCEPT !.status = "proving"]
      BY <1>1, <1>4 DEF BatchRebased, ForReturns
    <2>2. L.returns[r] \in Returns
      BY <1>1, <1>4
    <2>3. M.returns[r].status = "proving" /\ M.returns[r].batch = L.returns[r].batch
      BY <2>1, <2>2 DEF Returns
    <2> HIDE DEF M
    <2>4. QED
      BY <1>2, <1>4, <2>3 DEF MembersOf, InBatch
  <1>5. QED
    BY <1>2, <1>3, <1>4

LEMMA ProvenFields ==
  ASSUME NEW L \in Ledgers, NEW b \in BatchIds(L), NEW leaves, NEW rootOld
  PROVE  LET M == BatchProven(L, b, leaves, rootOld) IN
         /\ \A r \in Burns \ MembersOf(L, b) : M.returns[r] = L.returns[r]
         /\ M.batches[b].members = L.batches[b].members
         /\ M.batches[b].leaves = leaves /\ M.batches[b].rootOld = rootOld
         /\ MembersOf(L, b) \subseteq MembersOf(M, b)
  <1> DEFINE M == BatchProven(L, b, leaves, rootOld)
  <1>1. L.batches[b] \in Batches /\ MembersOf(L, b) \subseteq Burns /\ L.returns \in [Burns -> Returns]
        /\ L.batches \in Seq(Batches)
    BY LedgerParts
  <1>2. /\ M.batches[b].members = L.batches[b].members
        /\ M.batches[b].leaves = leaves /\ M.batches[b].rootOld = rootOld
    <2>1. b \in DOMAIN L.batches
      BY <1>1 DEF BatchIds
    <2>2. M.batches = [L.batches EXCEPT ![b].status = "proven", ![b].leaves = leaves,
                                        ![b].rootOld = rootOld, ![b].tx = NoTx]
      BY DEF BatchProven
    <2>3. QED
      BY <1>1, <2>1, <2>2 DEF Batches
  <1>3. \A r \in Burns \ MembersOf(L, b) : M.returns[r] = L.returns[r]
    BY DEF BatchProven, ForReturns
  <1>4. ASSUME NEW r \in MembersOf(L, b) PROVE r \in MembersOf(M, b)
    <2>1. M.returns[r] = [L.returns[r] EXCEPT !.status = "proven"]
      BY <1>1, <1>4 DEF BatchProven, ForReturns
    <2>2. L.returns[r] \in Returns
      BY <1>1, <1>4
    <2>3. M.returns[r].status = "proven" /\ M.returns[r].batch = L.returns[r].batch
      BY <2>1, <2>2 DEF Returns
    <2> HIDE DEF M
    <2>4. QED
      BY <1>2, <1>4, <2>3 DEF MembersOf, InBatch
  <1>5. QED
    BY <1>2, <1>3, <1>4

LEMMA FormedFields ==
  ASSUME NEW L \in Ledgers, NEW S \in SUBSET DuePending(L)
  PROVE  LET M == BatchFormed(L, S)
             b == Len(L.batches) + 1 IN
         /\ \A r \in Burns \ S : M.returns[r] = L.returns[r]
         /\ M.batches[b].members = S
         /\ S \subseteq MembersOf(M, b)
  <1> DEFINE M == BatchFormed(L, S)
             b == Len(L.batches) + 1
             B == [status |-> "proving", members |-> S, rebases |-> 0,
                   leaves |-> {}, rootOld |-> {}, tx |-> NoTx]
  <1>1. L.returns \in [Burns -> Returns] /\ L.batches \in Seq(Batches) /\ Len(L.batches) \in Nat
    BY LedgerParts
  <1>2. S \subseteq Burns /\ \A r \in S : IsPending(L.returns[r])
    BY DEF DuePending, Held
  <1>3. B \in Batches
    BY <1>2, NoTxIsInt DEF Batches, BatchStatuses, Roots
  <1>4. M.batches = Append(L.batches, B)
    BY DEF BatchFormed
  <1>5. M.batches[b] = B
    BY <1>1, <1>3, <1>4, AppendProperties
  <1>6. \A r \in Burns \ S : M.returns[r] = L.returns[r]
    BY DEF BatchFormed, ForReturns
  <1>7. ASSUME NEW r \in S PROVE r \in MembersOf(M, b)
    <2>1. M.returns[r] = [L.returns[r] EXCEPT !.status = "proving", !.batch = b, !.failure = "none"]
      BY <1>2, <1>7 DEF BatchFormed, ForReturns
    <2>2. L.returns[r] \in Returns
      BY <1>1, <1>2, <1>7
    <2>3. M.returns[r].status = "proving" /\ M.returns[r].batch = b
      BY <2>1, <2>2 DEF Returns
    <2>4. r \in M.batches[b].members
      BY <1>5, <1>7
    <2> HIDE DEF M, b
    <2>5. QED
      BY <2>3, <2>4 DEF MembersOf, InBatch
  <1>8. QED
    BY <1>5, <1>6, <1>7

LEMMA InterruptedFields ==
  ASSUME NEW L \in Ledgers, NEW orderly \in BOOLEAN
  PROVE  LET M == Interrupted(L, orderly) IN
         /\ \A r \in Burns : L.returns[r].status # "proving" => M.returns[r] = L.returns[r]
         /\ \A b \in BatchIds(L) :
              \/ M.batches[b] = L.batches[b]
              \/ M.batches[b].status = "interrupted"
         /\ \A b \in BatchIds(L) :
              L.batches[b].status # "proving" => M.batches[b] = L.batches[b]
  <1> DEFINE M == Interrupted(L, orderly)
  <1>1. ASSUME NEW r \in Burns, L.returns[r].status # "proving" PROVE M.returns[r] = L.returns[r]
    BY <1>1 DEF Interrupted, ForReturns
  <1>2. ASSUME NEW b \in BatchIds(L)
        PROVE  /\ b \notin ProvingBatches(L) => M.batches[b] = L.batches[b]
               /\ b \in ProvingBatches(L) => M.batches[b].status = "interrupted"
    <2>1. L.batches[b] \in Batches
      BY LedgerParts
    <2>2. M.batches[b] = IF b \in ProvingBatches(L)
                         THEN [L.batches[b] EXCEPT !.status = "interrupted"] ELSE L.batches[b]
      BY DEF Interrupted
    <2>3. QED
      BY <2>1, <2>2 DEF Batches
  <1>3. QED
    BY <1>1, <1>2 DEF ProvingBatches

(* The ends of a batch.                                                    *)

(* Outside the receipt of a settlement that landed, nothing released is    *)
(* with the batch in flight where the service does not stop.               *)
LEMMA SettledElsewhere ==
  ASSUME IInv, SightInv, cur # 0, Unstopped, ~LandedNow
  PROVE  \A r \in Burns \cap VaultRoot :
           r \in Burns \ MembersOf(ledger, cur) /\ ledger.returns[r].status = "settled"
  BY DEF SightInv, UnstoppedInv, Untouched, MembersOf, Batch

LEMMA FailFrame ==
  ASSUME IInv, SightInv, cur # 0, Fail, UNCHANGED <<resume, chain, kinds>>, NoneLive,
         Unstopped => ~LandedNow
  PROVE  SightInv'
  <1>1. BackToLoop /\ ledger' = BatchFailed(ledger, cur)
    BY DEF Fail
  <1>2. /\ OneBatchChanged(ledger'.batches, ledger, cur, ledger'.batches[cur])
        /\ ledger'.batches[cur].status = "failed"
    BY <1>1, Staged, InFlight, BatchFailedInv
  <1>3. \A r \in Burns \ MembersOf(ledger, cur) : ledger'.returns[r] = ledger.returns[r]
    BY <1>1, Staged, Known, FailedFields
  <1>4. Unstopped => \A r \in Burns \cap VaultRoot : ledger'.returns[r].status = "settled"
    BY <1>3, SettledElsewhere
  <1>5. ledger'.batches[cur].status \notin {"proven", "settled"}
    BY <1>2
  <1>6. QED
    BY <1>1, <1>2, <1>3, <1>4, <1>5, EndFrame

(* A batch that settles made its transition.                               *)
LEMMA MadeIsDead ==
  ASSUME IInv, SightInv, cur # 0, Batch(cur).status = "proven",
         BundleOf(cur) \in LogTransitions \/ Leaves \subseteq VaultRoot
  PROVE  Leaves \subseteq VaultRoot /\ BundleOf(cur) \in LogTransitions
         /\ Batch(cur).rootOld # VaultRoot /\ NoneLive
  <1>1. cur \in ProvenOnes /\ Leaves = Batch(cur).leaves
    BY Staged DEF ProvenOnes, Leaves, Batch
  <1>2. /\ Batch(cur).leaves # {} /\ Batch(cur).leaves \cap Batch(cur).rootOld = {}
        /\ Untouched(Batch(cur).leaves) \/ BundleOf(cur) \in LogTransitions
    BY <1>1 DEF SightInv, ProvenInv
  <1>3. ASSUME BundleOf(cur) \in LogTransitions PROVE Batch(cur).leaves \subseteq VaultRoot
    <2>1. PICK e \in LogEntries : BundleOf(cur) = TransitionOf(e)
      BY <1>3, Transitions
    <2>2. e.nullifiers = Batch(cur).leaves
      BY <2>1 DEF BundleOf, TransitionOf
    <2>3. QED
      BY <2>2, Known
  <1>4. Batch(cur).leaves \subseteq VaultRoot /\ BundleOf(cur) \in LogTransitions
    BY <1>1, <1>2, <1>3 DEF Untouched
  <1>5. Batch(cur).rootOld # VaultRoot
    BY <1>2, <1>4
  <1>6. NoneLive
    BY <1>5, WhenNoneLive
  <1>7. QED
    BY <1>1, <1>4, <1>5, <1>6

LEMMA SettleFrame ==
  ASSUME IInv, SightInv, cur # 0, Batch(cur).status = "proven", NEW tx \in Int,
         ledger' = BatchSettled(ledger, cur, tx), BackToLoop, UNCHANGED <<resume, chain, kinds>>,
         OneBatchChanged(ledger'.batches, ledger, cur, ledger'.batches[cur]),
         ledger'.batches[cur].status = "settled",
         BundleOf(cur) \in LogTransitions \/ Leaves \subseteq VaultRoot,
         Leaves \subseteq MembersOf(ledger, cur)
  PROVE  SightInv'
  <1>1. cur \in BatchIds(ledger) /\ ledger \in Ledgers /\ Leaves = Batch(cur).leaves
    BY Staged, Known DEF Leaves, Batch
  <1>2. /\ \A r \in Burns \ MembersOf(ledger, cur) : ledger'.returns[r] = ledger.returns[r]
        /\ \A r \in MembersOf(ledger, cur) : ledger'.returns[r].status = "settled"
        /\ ledger'.batches[cur].leaves = Batch(cur).leaves
        /\ ledger'.batches[cur].rootOld = Batch(cur).rootOld
    BY <1>1, SettledFields DEF Batch
  <1>3. BundleOf(cur) \in LogTransitions /\ NoneLive
    BY MadeIsDead
  <1>4. \A r \in Batch(cur).leaves : ledger'.returns[r].status = "settled"
    BY <1>1, <1>2
  <1>5. Unstopped => \A r \in Burns \cap VaultRoot : ledger'.returns[r].status = "settled"
    <2> SUFFICES ASSUME Unstopped, NEW r \in Burns \cap VaultRoot
                 PROVE  ledger'.returns[r].status = "settled"
      OBVIOUS
    <2>1. ledger.returns[r].status = "settled" \/ r \in Leaves
      BY DEF SightInv, UnstoppedInv
    <2>2. QED
      BY <1>2, <2>1
  <1>6. QED
    BY <1>2, <1>3, <1>4, <1>5, EndFrame

LEMMA RebaseFrame ==
  ASSUME IInv, SightInv, pc \in {"settle", "receipt"}, RebaseOrFail, UNCHANGED <<resume, chain, kinds>>,
         NoneLive, Unstopped => ~LandedNow
  PROVE  SightInv'
  <1>1. ~AtRest /\ cur # 0 /\ cont = "take"
    BY DEF AtRest, IInv, StageInv, Verdict
  <1>2. CASE ledger.batches[cur].rebases < MaxRebases
    <2>1. /\ ledger' = BatchRebased(ledger, cur)
          /\ pc' = "sync" /\ cur' = cur /\ cont' = "take"
      BY <1>1, <1>2 DEF RebaseOrFail
    <2>2. cur \in BatchIds(ledger) /\ ledger \in Ledgers
      BY <1>1, Known
    <2>3. /\ OneBatchChanged(ledger'.batches, ledger, cur, ledger'.batches[cur])
          /\ ledger'.batches[cur].status = "proving"
      BY <1>1, <2>1, InFlight, BatchRebasedInv
    <2>4. /\ \A r \in Burns \ MembersOf(ledger, cur) : ledger'.returns[r] = ledger.returns[r]
          /\ ledger'.batches[cur].members = Batch(cur).members
          /\ MembersOf(ledger, cur) \subseteq MembersOf(ledger', cur)
      BY <2>1, <2>2, RebasedFields DEF Batch
    <2>5. UNCHANGED <<vaultLog, mempool, kinds>>
      BY DEF chain
    <2>6. /\ BatchIds(ledger)' = BatchIds(ledger)
          /\ \A b \in BatchIds(ledger) \ {cur} : Batch(b)' = Batch(b) /\ BundleOf(b)' = BundleOf(b)
      BY <2>3 DEF OneBatchChanged, BatchIds, Batch, BundleOf
    <2>7. ProvenOnes' = {} /\ cur \notin Ended'
      <3>1. \A b \in ProvenOnes' : b = cur
        BY <1>1, <2>6 DEF ProvenOnes, SightInv, ProvenInv
      <3>2. cur \notin ProvenOnes' /\ cur \notin Ended'
        BY <2>3 DEF ProvenOnes, Ended, Batch
      <3>3. QED
        BY <3>1, <3>2
    <2>8. ProvenInv' /\ InHand' = {cur}
      BY <1>1, <2>1, <2>7 DEF ProvenInv, InHand
    <2>9. SettledInv'
      <3>1. \A b \in Ended' : b \in Ended /\ BundleOf(b)' = BundleOf(b)
        BY <2>6, <2>7 DEF Ended
      <3>2. ASSUME NEW b \in Ended, NEW r \in Batch(b).leaves
            PROVE  ledger'.returns[r].status = "settled"
        <4>1. Batch(b) \in Batches
          BY Known DEF Ended
        <4>2. r \in Burns \ MembersOf(ledger, cur)
          BY <1>1, <4>1 DEF Batches, SightInv, SettledInv, MembersOf, Batch, InHand
        <4>3. QED
          BY <2>4, <4>2 DEF SightInv, SettledInv
      <3>3. \A c \in InHand' :
              c \in InHand /\ Batch(c)'.members = Batch(c).members
        BY <1>1, <2>4, <2>8 DEF Batch, InHand
      <3>4. QED
        BY <2>5, <3>1, <3>2, <3>3, LogKept, SettledFrame DEF SightInv
    <2>10. MempoolInv'
      BY <2>5, MempoolFrame DEF SightInv
    <2>11. ReceiptInv' /\ AssemblyInv' /\ AskedInv'
      <3>1. DOMAIN todo' = {}
        BY <1>1, <1>2 DEF RebaseOrFail, SightInv, AskedInv, Verdict
      <3>2. QED
        BY <2>1, <3>1 DEF ReceiptInv, AssemblyInv, AskedInv, Verdict
    <2>12. Batch(cur)'.members = Batch(cur).members /\ MembersOf(ledger, cur)' = MembersOf(ledger', cur)
      BY <2>1, <2>4 DEF Batch, MembersOf
    <2>13. MembersInv'
      <3>1. (Batch(cur).members \ BadLock) \ VaultRoot \subseteq MembersOf(ledger, cur)
        BY <1>1 DEF SightInv, MembersInv, InHand
      <3>2. QED
        BY <2>1, <2>4, <2>5, <2>8, <2>12, <3>1, LogKept DEF MembersInv
    <2>14. UnstoppedInv'
      <3>1. ASSUME Unstopped
            PROVE  /\ Untouched(Batch(cur).members)
                   /\ \A r \in Burns \cap VaultRoot : ledger'.returns[r].status = "settled"
        BY <1>1, <2>4, <3>1, SettledElsewhere DEF SightInv, UnstoppedInv
      <3>2. QED
        BY <2>5, <2>12, <3>1, LogKept DEF SightInv, UnstoppedInv, Unstopped
    <2>15. QED
      BY <2>5, <2>8, <2>9, <2>10, <2>11, <2>13, <2>14, LogKept DEF SightInv
  <1>3. CASE ~(ledger.batches[cur].rebases < MaxRebases)
    BY <1>1, <1>3, FailFrame DEF RebaseOrFail
  <1>4. QED
    BY <1>2, <1>3

-------------------------------------------------------------------------------
(* The steps of the task, of settlements in sight                          *)

LEMMA NoOtherFaults ==
  ASSUME Quiet
  PROVE  /\ hasSubmitter
         /\ \A k \in {"rejected", "unconfirmed", "submission", "receipt", "dropped", "lying"} : ~Fault(k)
         /\ Unstopped \/ kinds \cap FailedSyncs = {}
         /\ Unstopped => ~Fault("stop") /\ ~Fault("crash")
  BY DEF Quiet, InSight, Interruptions, Fault, MayFail, Unstopped, Stops

(* Nothing can land while the task has no proof of its batch.              *)
LEMMA NothingOnItsWay ==
  ASSUME IInv, SightInv, cur # 0, pc # "receipt",
         Unstopped \/ Batch(cur).status = "proving"
  PROVE  NoneLive
  BY WhenNoneLive

LEMMA DrainedSight == ASSUME IInv, SightInv, Drained PROVE SightInv'
  <1>1. /\ pc \in {"next", "take"} /\ pc' = "drained"
        /\ UNCHANGED <<ledger, task, resume, mode, chain, faults>>
    BY DEF Drained
  <1>2. UNCHANGED <<ledger, cur, asked, todo, cont, mine, resume, chain, kinds>>
    BY <1>1 DEF task, mode
  <1>3. cont = "take" /\ DOMAIN todo = {}
    BY <1>1 DEF IInv, StageInv, SightInv, AskedInv, Verdict
  <1>4. ReceiptInv' /\ AssemblyInv' /\ AskedInv'
    BY <1>1, <1>2, <1>3 DEF ReceiptInv, AssemblyInv, AskedInv, Verdict
  <1>5. QED
    BY <1>1, <1>2, <1>4, TaskFrame

LEMMA NothingDueSight == ASSUME IInv, SightInv, NothingDue PROVE SightInv'
  <1>1. /\ pc = "take" /\ pc' = "next"
        /\ UNCHANGED <<ledger, task, resume, mode, chain, faults>>
    BY DEF NothingDue
  <1>2. UNCHANGED <<ledger, cur, asked, todo, cont, mine, resume, chain, kinds>>
    BY <1>1 DEF task, mode
  <1>3. cont = "take" /\ DOMAIN todo = {}
    BY <1>1 DEF IInv, StageInv, SightInv, AskedInv, Verdict
  <1>4. ReceiptInv' /\ AssemblyInv' /\ AskedInv'
    BY <1>1, <1>2, <1>3 DEF ReceiptInv, AssemblyInv, AskedInv, Verdict
  <1>5. QED
    BY <1>1, <1>2, <1>4, TaskFrame

LEMMA RecheckFailsSight == ASSUME IInv, SightInv, RecheckFails PROVE SightInv'
  <1>1. /\ pc = "next" /\ pc' = "exclude" /\ cont' = "take"
        /\ todo' = [r \in ReleasesDue(ledger) |-> [kind |-> "unconfirmed", tx |-> NoTx]]
        /\ UNCHANGED <<ledger, cur, acc, kept, asked, mine, resume, mode, chain>>
    BY DEF RecheckFails
  <1>2. UNCHANGED kinds
    BY <1>1 DEF mode
  <1>3. \A r \in DOMAIN todo' : ledger.returns[r].status # "settled"
    BY <1>1 DEF ReleasesDue, AwaitsConfirmation
  <1>4. Judged' = DOMAIN todo'
    BY <1>1 DEF Judged
  <1>5. ReceiptInv' /\ AssemblyInv' /\ AskedInv'
    BY <1>1, <1>3, <1>4 DEF ReceiptInv, AssemblyInv, AskedInv, Verdict
  <1>6. QED
    BY <1>1, <1>2, <1>5, TaskFrame

(* What a sync of the batch in flight reads.                               *)
LEMMA SyncedRead ==
  ASSUME IInv, SightInv, Quiet, NEW fetched, Synced(fetched)
  PROVE  /\ fetched \subseteq LogEntries
         /\ Rebuilt(fetched).spent \subseteq VaultRoot
         /\ ~Unstopped => fetched = LogEntries /\ Rebuilt(fetched).spent = VaultRoot
  <1>1. Reads(fetched)
    BY DEF Synced
  <1>2. fetched \subseteq LogEntries /\ (kinds \cap FailedSyncs = {} => fetched = LogEntries)
    BY <1>1, HonestRead
  <1>3. ~Unstopped => fetched = LogEntries
    BY <1>2, NoOtherFaults
  <1>4. QED
    BY <1>2, <1>3, RebuiltIsSpent DEF SightInv

LEMMA SyncForProofSight ==
  ASSUME IInv, SightInv, Quiet, NEW fetched, SyncForProof(fetched)
  PROVE  SightInv'
  <1>1. /\ pc = "sync" /\ Synced(fetched) /\ acc' = Rebuilt(fetched) /\ pc' = "simulate"
        /\ UNCHANGED <<ledger, cur, kept, asked, todo, cont, mine, resume, mode, chain>>
    BY DEF SyncForProof
  <1>2. UNCHANGED <<kinds, vaultLog>>
    BY <1>1 DEF mode, chain
  <1>3. cont = "take" /\ cur # 0 /\ DOMAIN todo = {}
    BY <1>1 DEF IInv, StageInv, SightInv, AskedInv, Verdict, AtRest
  <1>4. acc'.spent \subseteq VaultRoot
    BY <1>1, SyncedRead
  <1>5. Batch(cur).members \cap VaultRoot \subseteq acc'.spent
    <2>1. CASE Unstopped
      BY <1>1, <1>3, <2>1 DEF SightInv, UnstoppedInv, LandedNow, Untouched
    <2>2. CASE ~Unstopped
      BY <1>1, <2>2, SyncedRead
    <2>3. QED
      BY <2>1, <2>2
  <1>6. ReceiptInv' /\ AskedInv'
    BY <1>1, <1>3 DEF ReceiptInv, AskedInv, Verdict
  <1>7. AssemblyInv'
    <2>1. VaultRoot' = VaultRoot /\ Batch(cur)' = Batch(cur)
      BY <1>1, <1>2, LogKept DEF Batch
    <2>2. QED
      BY <1>1, <1>3, <1>4, <1>5, <2>1 DEF AssemblyInv
  <1>8. QED
    BY <1>1, <1>2, <1>6, <1>7, TaskFrame

LEMMA AssembleSight ==
  ASSUME IInv, SightInv, Quiet, NEW rejected, Assemble(rejected)
  PROVE  SightInv'
  <1> DEFINE members == ledger.batches[cur].members
             setAside == members \cap BadLock
             released == (members \ setAside) \cap acc.spent
  <1>1. rejected = {}
    BY NoOtherFaults DEF Assemble
  <1>2. /\ pc = "simulate" /\ pc' = "confirm"
        /\ kept' = members \ (setAside \cup released)
        /\ DOMAIN todo' = setAside /\ DOMAIN asked' = released
        /\ cont' = IF members \ (setAside \cup released) = {} THEN "fail" ELSE "prove"
        /\ UNCHANGED <<ledger, cur, acc, mine, resume, mode, chain>>
    BY <1>1 DEF Assemble
  <1>3. UNCHANGED <<kinds, vaultLog>>
    BY <1>2 DEF mode, chain
  <1>4. cur # 0 /\ Batch(cur).status = "proving"
    BY <1>2 DEF IInv, StageInv, AtRest, Verdict, Batch
  <1>5. acc.spent \subseteq VaultRoot /\ members \cap VaultRoot \subseteq acc.spent
    BY <1>2 DEF SightInv, AssemblyInv, Batch
  <1>6. VaultRoot' = VaultRoot /\ Batch(cur)' = Batch(cur)
    BY <1>2, <1>3, LogKept DEF Batch
  <1>7. ReceiptInv'
    BY <1>2 DEF ReceiptInv
  <1>8. AssemblyInv'
    <2>1. Untouched(kept')
      BY <1>2, <1>5 DEF Untouched
    <2>2. kept' \subseteq Batch(cur).members \ BadLock
      BY <1>2 DEF Batch
    <2>3. cont' = "prove" => kept' # {}
      BY <1>2
    <2>4. Untouched(kept)'
      BY <1>6, <2>1 DEF Untouched
    <2>5. QED
      BY <1>2, <1>5, <1>6, <2>2, <2>3, <2>4 DEF AssemblyInv
  <1>9. AskedInv'
    <2>1. Judged' \subseteq Batch(cur).members \cap (BadLock \cup VaultRoot)
      BY <1>2, <1>5 DEF Judged, Batch
    <2>2. QED
      BY <1>2, <1>4, <1>6, <2>1 DEF AskedInv, Verdict
  <1>10. QED
    BY <1>2, <1>3, <1>7, <1>8, <1>9, TaskFrame

LEMMA ConfirmSight ==
  ASSUME IInv, SightInv, Quiet, NEW confirmed, Confirm(confirmed)
  PROVE  SightInv'
  <1>1. /\ pc = "confirm" /\ pc' = "exclude" /\ asked' = None
        /\ DOMAIN todo' = DOMAIN todo \cup DOMAIN asked
        /\ cont' = IF cont = "released" THEN "fail" ELSE cont
        /\ UNCHANGED <<ledger, cur, acc, kept, mine, resume, mode, chain>>
        /\ confirmed = Confirmable
        /\ ~(cont = "released" /\ OneTransaction(confirmed))
    BY NoOtherFaults DEF Confirm, Answers
  <1>2. UNCHANGED <<kinds, vaultLog>>
    BY <1>1 DEF mode, chain
  <1>3. VaultRoot' = VaultRoot /\ Batch(cur)' = Batch(cur) /\ Leaves' = Leaves
    BY <1>1, <1>2, LogKept DEF Batch, Leaves
  <1>4. Judged' = Judged
    BY <1>1 DEF Judged
  <1>5. ReceiptInv'
    BY <1>1 DEF ReceiptInv
  <1>6. AssemblyInv'
    <2>1. Untouched(kept)' <=> Untouched(kept)
      BY <1>1, <1>3 DEF Untouched
    <2>2. QED
      BY <1>1, <1>3, <2>1 DEF SightInv, AssemblyInv
  <1>7. cont = "released" => ~HasConfirm /\ Leaves \subseteq VaultRoot
    <2> SUFFICES ASSUME cont = "released", HasConfirm PROVE FALSE
      BY DEF SightInv, AskedInv
    <2>1. cur # 0 /\ Batch(cur).status = "proven"
      BY <1>1 DEF IInv, StageInv, AtRest, Verdict, Batch
    <2>2. cur \in ProvenOnes
      BY <2>1, Staged DEF ProvenOnes
    <2>3. Batch(cur).leaves # {} /\ Batch(cur).leaves \subseteq MembersOf(ledger, cur)
      BY <2>2 DEF SightInv, ProvenInv, StillHeld
    <2>4. DOMAIN asked = Leaves
      BY <2>3 DEF IInv, VerdictInv, Leaves, Batch
    <2>5. \A r \in DOMAIN asked : \E e \in LogEntries : TransitionOf(e) = BundleOf(cur) /\ asked[r] = e.tx
      BY DEF SightInv, AskedInv
    <2>6. \A e, f \in LogEntries : TransitionOf(e) = BundleOf(cur) /\ TransitionOf(f) = BundleOf(cur) => e = f
      BY DEF SightInv, LogInv, TransitionOf, BundleOf
    <2>7. \A r, q \in DOMAIN asked : asked[r] = asked[q]
      BY <2>5, <2>6
    <2>8. \A r \in DOMAIN asked : ReleasedIn(r, asked[r])
      BY <2>4, <2>5 DEF ReleasedIn, TransitionOf, BundleOf, Leaves, Batch
    <2>9. Confirmable = DOMAIN asked
      BY <2>8 DEF Confirmable
    <2>10. OneTransaction(confirmed)
      BY <1>1, <2>3, <2>4, <2>7, <2>9 DEF OneTransaction, Leaves, Batch
    <2>11. QED
      BY <1>1, <2>10
  <1>8. AskedInv'
    <2>1. cont' = "fail" /\ Batch(cur).status = "proven" => ~HasConfirm /\ Leaves \subseteq VaultRoot
      BY <1>1, <1>7 DEF SightInv, AskedInv
    <2>2. cont' # "take" => Judged \subseteq Batch(cur).members \cap (BadLock \cup VaultRoot)
      BY <1>1 DEF SightInv, AskedInv
    <2>3. cont' = "take" => \A r \in Judged : ledger.returns[r].status # "settled"
      BY <1>1 DEF SightInv, AskedInv, Verdict
    <2>4. QED
      BY <1>1, <1>3, <1>4, <2>1, <2>2, <2>3 DEF AskedInv, Verdict
  <1>9. QED
    BY <1>1, <1>2, <1>5, <1>6, <1>8, TaskFrame

LEMMA VerdictsAppliedSight ==
  ASSUME IInv, SightInv, Quiet, VerdictsApplied
  PROVE  SightInv'
  <1>1. pc = "exclude" /\ todo = None /\ UNCHANGED <<resume, mode, chain, faults>>
    BY DEF VerdictsApplied
  <1>2. UNCHANGED <<kinds, vaultLog>>
    BY <1>1 DEF mode, chain
  <1>3. CASE cont = "fail"
    <2>1. Fail /\ cur # 0 /\ Batch(cur).status \in {"proving", "proven"}
      BY <1>1, <1>3 DEF VerdictsApplied, IInv, StageInv, AtRest, Verdict, Batch
    <2>2. NoneLive
      <3>1. CASE Batch(cur).status = "proving"
        BY <1>1, <2>1, <3>1, NothingOnItsWay
      <3>2. CASE Batch(cur).status = "proven"
        BY <1>3, <2>1, <3>2, MadeIsDead DEF SightInv, AskedInv
      <3>3. QED
        BY <2>1, <3>1, <3>2
    <2>3. QED
      BY <1>1, <1>2, <2>1, <2>2, FailFrame DEF LandedNow
  <1>4. CASE cont # "fail"
    <2>1. /\ pc' = cont /\ cont' = "take"
          /\ UNCHANGED <<ledger, cur, acc, kept, asked, todo, mine>>
      BY <1>1, <1>4 DEF VerdictsApplied
    <2>2. cont \in {"take", "prove"}
      BY <1>1, <1>4 DEF IInv, StageInv, TypeOK
    <2>3. DOMAIN todo' = {}
      BY <1>1, <2>1 DEF None
    <2>4. VaultRoot' = VaultRoot /\ Batch(cur)' = Batch(cur)
      BY <1>2, <2>1, LogKept DEF Batch
    <2>5. ReceiptInv' /\ AskedInv'
      BY <2>1, <2>2, <2>3 DEF ReceiptInv, AskedInv, Verdict
    <2>6. AssemblyInv'
      <3>1. Untouched(kept)' <=> Untouched(kept)
        BY <2>1, <2>4 DEF Untouched
      <3>2. QED
        BY <2>1, <2>2, <2>4, <3>1 DEF SightInv, AssemblyInv
    <2>7. QED
      BY <1>1, <1>2, <2>1, <2>2, <2>5, <2>6, TaskFrame
  <1>5. QED
    BY <1>3, <1>4

(* The batch whose settlement is looked for.                               *)
LEMMA ProvenInFlight ==
  ASSUME IInv, SightInv, pc \in {"settle", "submit", "receipt"}
  PROVE  /\ cur # 0 /\ cur \in ProvenOnes /\ Batch(cur).status = "proven"
         /\ Leaves = Batch(cur).leaves /\ RootOld = Batch(cur).rootOld
         /\ Leaves # {} /\ Leaves \cap RootOld = {} /\ Leaves \subseteq Batch(cur).members \ BadLock
         /\ RootOld \subseteq VaultRoot
         /\ Untouched(Leaves) \/ BundleOf(cur) \in LogTransitions
         /\ StillHeld(cur)
         /\ cont = "take" /\ DOMAIN todo = {}
  <1>1. cur # 0 /\ Batch(cur).status = "proven" /\ cont = "take"
    BY DEF IInv, StageInv, AtRest, Verdict, Batch
  <1>2. cur \in ProvenOnes
    BY <1>1, Staged DEF ProvenOnes
  <1>3. DOMAIN todo = {}
    BY DEF SightInv, AskedInv, Verdict
  <1>4. QED
    BY <1>1, <1>2, <1>3 DEF SightInv, ProvenInv, Leaves, RootOld, Batch

LEMMA AllReleasedSight ==
  ASSUME IInv, SightInv, Quiet, NEW fetched, AllReleased(fetched)
  PROVE  SightInv'
  <1>1. /\ pc = "settle" /\ Synced(fetched) /\ Leaves \subseteq Rebuilt(fetched).spent
        /\ asked' = [r \in Leaves \cap MembersOf(ledger, cur) |-> Rebuilt(fetched).tx[r]]
        /\ cont' = "released" /\ pc' = "confirm"
        /\ UNCHANGED <<ledger, cur, acc, kept, todo, mine, resume, mode, chain>>
    BY DEF AllReleased, AllSpent, SightInv, ReceiptInv
  <1>2. UNCHANGED <<kinds, vaultLog>>
    BY <1>1 DEF mode, chain
  <1>3. Leaves \subseteq VaultRoot
    BY <1>1, SyncedRead
  <1>4. ~Unstopped
    BY <1>1, <1>3, ProvenInFlight DEF SightInv, UnstoppedInv, LandedNow, Untouched
  <1>5. fetched = LogEntries
    BY <1>1, <1>4, SyncedRead
  <1>6. PICK f \in LogEntries : TransitionOf(f) = BundleOf(cur)
    BY <1>1, <1>3, ProvenInFlight, Transitions DEF Untouched
  <1>7. f.nullifiers = Leaves
    BY <1>6 DEF TransitionOf, BundleOf, Leaves, Batch
  <1>8. ASSUME NEW r \in DOMAIN asked'
        PROVE  r \in Leaves /\ \E e \in LogEntries : TransitionOf(e) = BundleOf(cur) /\ asked'[r] = e.tx
    <2>1. r \in Leaves /\ r \in VaultRoot /\ asked'[r] = Rebuilt(LogEntries).tx[r]
      BY <1>1, <1>3, <1>5
    <2>2. PICK e \in LogEntries : r \in e.nullifiers /\ Rebuilt(LogEntries).tx[r] = e.tx
      BY <2>1, RebuiltNamesTx DEF SightInv
    <2>3. e = f
      BY <1>7, <2>1, <2>2 DEF SightInv, LogInv
    <2>4. QED
      BY <1>6, <2>1, <2>2, <2>3
  <1>9. /\ VaultRoot' = VaultRoot /\ LogEntries' = LogEntries /\ Leaves' = Leaves
        /\ Batch(cur)' = Batch(cur) /\ BundleOf(cur)' = BundleOf(cur)
    BY <1>1, <1>2, LogKept DEF Leaves, Batch, BundleOf
  <1>10. ReceiptInv' /\ AssemblyInv'
    BY <1>1 DEF ReceiptInv, AssemblyInv
  <1>11. AskedInv'
    <2>1. Judged' \subseteq Batch(cur).members \cap (BadLock \cup VaultRoot)
      <3>1. Judged' \subseteq Leaves
        BY <1>1, <1>8, ProvenInFlight DEF Judged
      <3>2. QED
        BY <1>1, <1>3, <3>1, ProvenInFlight
    <2>2. \A r \in DOMAIN asked' : \E e \in LogEntries : TransitionOf(e) = BundleOf(cur) /\ asked'[r] = e.tx
      BY <1>8
    <2>3. QED
      BY <1>1, <1>3, <1>9, <2>1, <2>2, Transitions DEF AskedInv, Verdict
  <1>12. QED
    BY <1>1, <1>2, <1>10, <1>11, TaskFrame

LEMMA ReadyToSubmitSight ==
  ASSUME IInv, SightInv, Quiet, NEW fetched, ReadyToSubmit(fetched)
  PROVE  SightInv'
  <1>1. /\ pc = "settle" /\ Synced(fetched) /\ Rebuilt(fetched).spent = RootOld
        /\ pc' = "submit" /\ UNCHANGED task /\ UNCHANGED <<ledger, resume, mode, chain>>
    BY NoOtherFaults DEF ReadyToSubmit
  <1>2. UNCHANGED <<kinds, cur, cont, todo, asked, mine, acc, kept>>
    BY <1>1 DEF mode, task
  <1>3. ~(Leaves \subseteq VaultRoot)
    <2>1. CASE Unstopped
      BY <1>1, <2>1, ProvenInFlight DEF SightInv, UnstoppedInv, LandedNow, Untouched
    <2>2. CASE ~Unstopped
      BY <1>1, <2>2, SyncedRead, ProvenInFlight
    <2>3. QED
      BY <2>1, <2>2
  <1>4. Leaves \subseteq MembersOf(ledger, cur)
    BY <1>1, <1>3, ProvenInFlight DEF StillHeld
  <1>5. Leaves' = Leaves /\ MembersOf(ledger, cur)' = MembersOf(ledger, cur)
    BY <1>1, <1>2 DEF Leaves, MembersOf
  <1>6. ReceiptInv'
    BY <1>1, <1>4, <1>5 DEF ReceiptInv
  <1>7. AssemblyInv' /\ AskedInv'
    BY <1>1, <1>2, ProvenInFlight DEF AssemblyInv, AskedInv, Verdict
  <1>8. QED
    BY <1>1, <1>2, <1>6, <1>7, TaskFrame

(* ReturnsFrame, where no return is taken out of a batch.                  *)
LEMMA NoneTakenOut ==
  ASSUME IInv, SightInv,
         ledger'.batches = ledger.batches, UNCHANGED <<cur, resume, chain, kinds>>,
         \A r \in Burns :
           ledger.returns[r].status \in {"proving", "proven", "settled"} =>
             /\ ledger'.returns[r].status = ledger.returns[r].status
             /\ ledger'.returns[r].batch = ledger.returns[r].batch,
         UNCHANGED <<pc, mine>> \/ (pc # "receipt" /\ pc' # "receipt"),
         ReceiptInv', AssemblyInv', AskedInv'
  PROVE  SightInv'
  <1>1. /\ {} \in SUBSET Burns
        /\ \A r \in Burns \ {} :
             ledger.returns[r].status \in {"proving", "proven", "settled"} =>
               /\ ledger'.returns[r].status = ledger.returns[r].status
               /\ ledger'.returns[r].batch = ledger.returns[r].batch
        /\ \A b \in Ended : {} \cap Batch(b).leaves = {}
        /\ \A b \in ProvenOnes :
             {} = {} \/ (~HasConfirm /\ Batch(b).leaves \subseteq VaultRoot)
        /\ \A b \in InHand : {} \cap Batch(b).members \subseteq BadLock \cup VaultRoot
        /\ Unstopped => {} \cap VaultRoot = {}
    OBVIOUS
  <1>2. QED
    BY <1>1, ReturnsFrame

(* What goes on beside the task: intake, timers and the start of a drain.  *)
LEMMA RecordSight ==
  ASSUME IInv, SightInv, ledger'.batches = ledger.batches,
         \A r \in Burns :
           \/ /\ ledger.returns[r].status \notin {"proving", "proven", "settled"}
              /\ ledger'.returns[r].status # "settled"
           \/ /\ ledger'.returns[r].status = ledger.returns[r].status
              /\ ledger'.returns[r].batch = ledger.returns[r].batch,
         UNCHANGED <<pc, task, resume, kinds, chain>>
  PROVE  SightInv'
  <1>1. UNCHANGED <<pc, cur, acc, kept, asked, todo, cont, mine, vaultLog, mempool>>
    BY DEF task, chain
  <1>2. /\ LogEntries' = LogEntries /\ VaultRoot' = VaultRoot /\ Leaves' = Leaves
        /\ Batch(cur)' = Batch(cur) /\ BundleOf(cur)' = BundleOf(cur) /\ Judged' = Judged
    BY <1>1, LogKept DEF Leaves, Batch, BundleOf, Judged
  <1>3. \A r \in Burns : ledger.returns[r].status \in {"proving", "proven", "settled"} =>
             /\ ledger'.returns[r].status = ledger.returns[r].status
             /\ ledger'.returns[r].batch = ledger.returns[r].batch
    OBVIOUS
  <1>4. ReceiptInv'
    <2>1. pc \in {"submit", "receipt"} => Leaves \subseteq MembersOf(ledger, cur)'
      <3> SUFFICES ASSUME pc \in {"submit", "receipt"}, NEW r \in Leaves
                   PROVE  r \in MembersOf(ledger, cur)'
        OBVIOUS
      <3>1. r \in MembersOf(ledger, cur) /\ cur \in BatchIds(ledger)
        BY ProvenInFlight, Staged DEF SightInv, ReceiptInv
      <3>2. r \in Burns
        BY <3>1, Known
      <3>3. QED
        BY <1>1, <1>3, <3>1, <3>2 DEF MembersOf, InBatch
    <2>2. QED
      BY <1>1, <1>2, <2>1 DEF SightInv, ReceiptInv
  <1>5. AssemblyInv'
    <2>1. Untouched(kept)' <=> Untouched(kept)
      BY <1>1, <1>2 DEF Untouched
    <2>2. QED
      BY <1>1, <1>2, <2>1 DEF SightInv, AssemblyInv
  <1>6. AskedInv'
    <2>1. Judged \subseteq Burns
      BY TypeParts DEF IInv, TaskType, Judged
    <2>2. \A r \in Judged : ledger.returns[r].status # "settled" => ledger'.returns[r].status # "settled"
      BY <2>1
    <2>3. QED
      BY <1>1, <1>2, <2>2 DEF SightInv, AskedInv
  <1>7. QED
    BY <1>1, <1>3, <1>4, <1>5, <1>6, NoneTakenOut

LEMMA PostSight == ASSUME IInv, SightInv, NEW r \in Burns, Post(r) PROVE SightInv'
  <1>1. UNCHANGED <<pc, task, resume, kinds, chain>>
    BY DEF Post, mode
  <1>2. ledger \in Ledgers /\ ledger.returns \in [Burns -> Returns]
    BY Known
  <1>3. ledger.returns[r].status \in {"absent", "failed"}
    BY DEF Post, Held, FailedRecoverably
  <1>4. PICK ret \in Returns : ret.status = "queued" /\ ledger' = [ledger EXCEPT !.returns[r] = ret]
    BY PostedRecord
  <1>5. /\ ledger'.batches = ledger.batches /\ ledger'.returns[r] = ret
        /\ \A q \in Burns \ {r} : ledger'.returns[q] = ledger.returns[q]
    BY <1>2, <1>4 DEF Ledgers
  <1>6. QED
    BY <1>1, <1>3, <1>4, <1>5, RecordSight

LEMMA TimePassesSight == ASSUME IInv, SightInv, NEW r \in Burns, TimePasses(r) PROVE SightInv'
  <1> DEFINE ret == [ledger.returns[r] EXCEPT !.waiting = FALSE]
  <1>1. UNCHANGED <<pc, task, resume, kinds, chain>>
        /\ ledger' = [ledger EXCEPT !.returns[r].waiting = FALSE]
    BY DEF TimePasses, mode
  <1>2. ledger \in Ledgers /\ ledger.returns \in [Burns -> Returns]
    BY Known
  <1>3. ledger' = [ledger EXCEPT !.returns[r] = ret]
    BY <1>1
  <1>4. ret.status = ledger.returns[r].status /\ ret.batch = ledger.returns[r].batch
    BY <1>2 DEF Returns
  <1> HIDE DEF ret
  <1>5. /\ ledger'.batches = ledger.batches /\ ledger'.returns[r] = ret
        /\ \A q \in Burns \ {r} : ledger'.returns[q] = ledger.returns[q]
    BY <1>2, <1>3 DEF Ledgers
  <1>6. QED
    BY <1>1, <1>4, <1>5, RecordSight

LEMMA UnchangedSight ==
  ASSUME IInv, SightInv, UNCHANGED <<ledger, pc, task, resume, kinds, chain>>
  PROVE  SightInv'
  BY RecordSight

(* A release that is queued again is in no batch.                          *)
LEMMA RecheckSight ==
  ASSUME IInv, SightInv, NEW fetched, Recheck(fetched)
  PROVE  SightInv'
  <1> DEFINE a == Rebuilt(fetched)
             S == ReleasesDue(ledger) \ a.spent
  <1>1. /\ pc = "next" /\ ledger' = RequeueAll(ledger, S)
        /\ asked' = [r \in ReleasesDue(ledger) \cap a.spent |-> a.tx[r]]
        /\ cont' = "take" /\ pc' = "confirm"
        /\ UNCHANGED <<cur, acc, kept, todo, mine, resume, mode, chain>>
    BY DEF Recheck
  <1> HIDE DEF a
  <1>2. ledger \in Ledgers /\ UNCHANGED kinds
    BY <1>1, Known DEF mode
  <1>3. ReleasesDue(ledger) \subseteq Burns
        /\ \A r \in ReleasesDue(ledger) : ledger.returns[r].status = "submitted"
    BY DEF ReleasesDue, Held, AwaitsConfirmation
  <1>4. /\ ledger'.batches = ledger.batches
        /\ ledger'.returns = [r \in Burns |-> IF r \in S THEN Requeued(ledger, r).returns[r]
                                                        ELSE ledger.returns[r]]
    BY <1>1, <1>2 DEF RequeueAll, Ledgers
  <1>5. \A r \in Burns \ S : ledger'.returns[r] = ledger.returns[r]
    BY <1>4
  <1>6. \A r \in Burns : ledger.returns[r].status \in {"proving", "proven", "settled"} =>
             /\ ledger'.returns[r].status = ledger.returns[r].status
             /\ ledger'.returns[r].batch = ledger.returns[r].batch
    BY <1>3, <1>5
  <1>7. ReceiptInv' /\ AssemblyInv'
    BY <1>1 DEF ReceiptInv, AssemblyInv
  <1>8. AskedInv'
    <2>1. DOMAIN todo = {}
      BY <1>1 DEF SightInv, AskedInv, Verdict
    <2>2. Judged' = ReleasesDue(ledger) \cap a.spent
      BY <1>1, <2>1 DEF Judged
    <2>3. \A r \in Judged' : ledger'.returns[r].status # "settled"
      BY <1>3, <1>5, <2>2
    <2>4. QED
      BY <1>1, <2>3 DEF AskedInv, Verdict
  <1>9. QED
    BY <1>1, <1>2, <1>4, <1>6, <1>7, <1>8, NoneTakenOut

(* While the releases looked up again are judged, no batch is in hand.     *)
LEMMA NothingInHand ==
  ASSUME IInv, Quiet, pc = "take" \/ (pc \in Verdict /\ cont = "take")
  PROVE  cur = 0 /\ InHand = {} /\ ProvenOnes = {} /\ resume = {}
  <1>1. cur = 0 /\ resume = {}
    BY DEF IInv, StageInv, ResumeInv, AtRest
  <1>2. ProvenOnes \subseteq resume \cup {cur}
    BY NoOtherFaults DEF IInv, ResumeInv, ProofsNotForgotten, ProvenOnes, Batch
  <1>3. 0 \notin ProvenOnes
    BY Known DEF ProvenOnes
  <1>4. QED
    BY <1>1, <1>2, <1>3 DEF InHand

LEMMA ExcludeSight ==
  ASSUME IInv, SightInv, Quiet, NEW r \in Burns, Exclude(r)
  PROVE  SightInv'
  <1>1. /\ pc = "exclude" /\ r \in DOMAIN todo
        /\ ledger' = ReturnExcluded(ledger, r, todo[r])
        /\ todo' = [q \in DOMAIN todo \ {r} |-> todo[q]]
        /\ UNCHANGED <<pc, cur, acc, kept, asked, cont, mine, resume, mode, chain, faults>>
    BY DEF Exclude
  <1>2. UNCHANGED <<kinds, vaultLog>> /\ ledger \in Ledgers /\ ledger.returns \in [Burns -> Returns]
    BY <1>1, Known DEF mode, chain
  <1>3. /\ ledger'.batches = ledger.batches
        /\ \A q \in Burns \ {r} : ledger'.returns[q] = ledger.returns[q]
    <2>1. ledger' = [ledger EXCEPT !.returns =
                       [ledger.returns EXCEPT ![r] = Excluded(ledger.returns[r], todo[r])]]
      BY <1>1, <1>2 DEF ReturnExcluded, Ledgers
    <2>2. QED
      BY <1>2, <2>1 DEF Ledgers
  <1>4. r \in Judged /\ Judged' \subseteq Judged \ {r} /\ Judged \subseteq Burns
    BY <1>1, TypeParts DEF Judged, IInv, TaskType
  <1>5. CASE cont = "take"
    <2>1. cur = 0 /\ InHand = {} /\ ProvenOnes = {}
      BY <1>1, <1>5, NothingInHand DEF Verdict
    <2>2. ledger.returns[r].status # "settled"
      BY <1>1, <1>4, <1>5 DEF SightInv, AskedInv, Verdict
    <2>3. \A b \in Ended : {r} \cap Batch(b).leaves = {}
      BY <2>2 DEF SightInv, SettledInv
    <2>4. Unstopped => {r} \cap VaultRoot = {}
      BY <1>1, <2>2 DEF SightInv, UnstoppedInv, LandedNow
    <2>5. ReceiptInv' /\ AssemblyInv'
      BY <1>1, <1>5 DEF ReceiptInv, AssemblyInv
    <2>6. AskedInv'
      <3>1. \A q \in Judged' : ledger'.returns[q].status # "settled"
        BY <1>1, <1>3, <1>4, <1>5 DEF SightInv, AskedInv, Verdict
      <3>2. QED
        BY <1>1, <1>5, <3>1 DEF AskedInv, Verdict
    <2>7. QED
      BY <1>1, <1>2, <1>3, <2>1, <2>3, <2>4, <2>5, <2>6, ReturnsFrame
  <1>6. CASE cont # "take"
    <2>1. cur # 0 /\ cont \in {"prove", "fail"} /\ cur \in InHand
      BY <1>1, <1>6 DEF IInv, StageInv, TypeOK, AtRest, Verdict, InHand
    <2>2. r \in Batch(cur).members /\ r \in BadLock \cup VaultRoot
      BY <1>4, <1>6 DEF SightInv, AskedInv
    <2>3. \A b \in Ended : {r} \cap Batch(b).leaves = {}
      BY <2>1, <2>2 DEF SightInv, SettledInv
    <2>4. \A b \in InHand : b = cur
      BY <2>1 DEF SightInv, ProvenInv, InHand
    <2>5. \A b \in ProvenOnes : ~HasConfirm /\ Batch(b).leaves \subseteq VaultRoot
      <3>1. ASSUME NEW b \in ProvenOnes
            PROVE  ~HasConfirm /\ Batch(b).leaves \subseteq VaultRoot
        <4>1. b = cur /\ Batch(cur).status = "proven"
          BY <2>4 DEF InHand, ProvenOnes
        <4>2. cont = "fail"
          BY <2>1, <4>1 DEF IInv, StageInv, Batch
        <4>3. QED
          BY <4>1, <4>2 DEF SightInv, AskedInv, Leaves, Batch
      <3>2. QED
        BY <3>1
    <2>6. Unstopped => {r} \cap VaultRoot = {}
      BY <1>1, <2>1, <2>2 DEF SightInv, UnstoppedInv, LandedNow, Untouched
    <2>7. /\ VaultRoot' = VaultRoot /\ LogEntries' = LogEntries /\ Leaves' = Leaves
          /\ Batch(cur)' = Batch(cur)
      BY <1>1, <1>2, <1>3, LogKept DEF Leaves, Batch
    <2>8. ReceiptInv'
      BY <1>1 DEF ReceiptInv
    <2>9. AssemblyInv'
      <3>1. Untouched(kept)' <=> Untouched(kept)
        BY <1>1, <2>7 DEF Untouched
      <3>2. QED
        BY <1>1, <2>7, <3>1 DEF SightInv, AssemblyInv
    <2>10. AskedInv'
      BY <1>1, <1>4, <1>6, <2>1, <2>7 DEF SightInv, AskedInv, Verdict
    <2>11. /\ UNCHANGED <<cur, resume, chain, kinds>> /\ UNCHANGED <<pc, mine>>
           /\ {r} \in SUBSET Burns
           /\ \A q \in Burns \ {r} :
                ledger.returns[q].status \in {"proving", "proven", "settled"} =>
                  /\ ledger'.returns[q].status = ledger.returns[q].status
                  /\ ledger'.returns[q].batch = ledger.returns[q].batch
      BY <1>1, <1>2, <1>3
    <2>12. \A b \in ProvenOnes :
             {r} = {} \/ (~HasConfirm /\ Batch(b).leaves \subseteq VaultRoot)
      BY <2>5
    <2>13. \A b \in InHand : {r} \cap Batch(b).members \subseteq BadLock \cup VaultRoot
      BY <2>2
    <2>14. QED
      BY ONLY IInv, SightInv, <1>3, <2>3, <2>6, <2>8, <2>9, <2>10, <2>11, <2>12, <2>13, ReturnsFrame
  <1>7. QED
    BY <1>5, <1>6

(* The failures of a batch: nothing of it can land any more.               *)
LEMMA SyncFailedSight ==
  ASSUME IInv, SightInv, Quiet, SyncFailed
  PROVE  SightInv'
  <1>1. pc \in {"sync", "settle"} /\ SyncFails /\ Fail /\ UNCHANGED <<resume, chain, kinds>>
    BY DEF SyncFailed, mode
  <1>2. cur # 0
    BY <1>1 DEF IInv, StageInv, AtRest, Verdict
  <1>3. Unstopped
    BY <1>1, SyncsSucceed, NoOtherFaults DEF SightInv
  <1>4. NoneLive
    BY <1>1, <1>2, <1>3, NothingOnItsWay
  <1>5. QED
    BY <1>1, <1>2, <1>4, FailFrame DEF LandedNow

LEMMA ProofStageFails ==
  ASSUME IInv, SightInv, SimulationFailed \/ ProofFailed
  PROVE  SightInv'
  <1>1. pc \in {"simulate", "prove"} /\ Fail /\ UNCHANGED <<resume, chain, kinds>>
    BY DEF SimulationFailed, ProofFailed, mode
  <1>2. cur # 0 /\ Batch(cur).status = "proving"
    BY <1>1 DEF IInv, StageInv, AtRest, Verdict, Batch
  <1>3. NoneLive
    BY <1>1, <1>2, NothingOnItsWay
  <1>4. QED
    BY <1>1, <1>2, <1>3, FailFrame DEF LandedNow

(* No settlement of the service is lost, nor left without its receipt.     *)
LEMMA NothingLost ==
  ASSUME IInv, SightInv, Quiet
  PROVE  /\ ~SubmissionFailed /\ ~Unconfirmed /\ ~GiveUp
         /\ \A m : ~Dropped(m)
         /\ \A b : ~SelfSettled(b)
  <1>1. ~Lost
    BY DEF Lost, SightInv, ReceiptInv, Landed
  <1>2. pc # "await"
    BY DEF SightInv, ReceiptInv
  <1>3. QED
    BY <1>1, <1>2, NoOtherFaults DEF SubmissionFailed, Unconfirmed, GiveUp, Dropped, SelfSettled

(* The settlements of a batch.                                             *)
LEMMA ConfirmBatchSight ==
  ASSUME IInv, SightInv, Quiet, NEW confirmed \in SUBSET Burns, ConfirmBatch(confirmed)
  PROVE  SightInv'
  <1> DEFINE tx == CHOOSE t \in {asked[r] : r \in confirmed} : TRUE
  <1>1. /\ pc = "confirm" /\ cont = "released" /\ Answers(confirmed)
        /\ confirmed # {} /\ confirmed = DOMAIN asked
        /\ \A r, q \in confirmed : asked[r] = asked[q]
        /\ ledger' = BatchSettled(ledger, cur, tx) /\ BackToLoop
        /\ UNCHANGED <<resume, chain, kinds>>
    BY DEF ConfirmBatch, OneTransaction, mode
  <1>2. ~AtRest /\ cur # 0 /\ ledger.batches[cur].status = "proven"
    BY <1>1 DEF IInv, StageInv, AtRest, Verdict
  <1>3. /\ cur \in BatchIds(ledger) /\ LedgerInv(ledger, {cur}) /\ RecordsJust(ledger)
        /\ asked \in [DOMAIN asked -> Txs]
        /\ MembersOf(ledger, cur) \subseteq ledger.batches[cur].leaves
    BY <1>2, InFlight DEF IInv, TypeOK, LedgerInv, BundlesWhole
  <1>4. tx \in {asked[r] : r \in confirmed}
    BY <1>1
  <1> HIDE DEF tx
  <1>5. tx \in Int /\ \A r \in confirmed : asked[r] = tx
    BY <1>1, <1>3, <1>4 DEF Txs
  <1>6. \A r \in MembersOf(ledger, cur) : ReleasedIn(r, tx)
    BY <1>1, <1>3, <1>5 DEF IInv, VerdictInv, Answers, Confirmable
  <1>7. /\ OneBatchChanged(ledger'.batches, ledger, cur, ledger'.batches[cur])
        /\ ledger'.batches[cur].status = "settled"
    BY <1>1, <1>3, <1>5, <1>6, BatchSettledInv
  <1>8. Leaves \subseteq VaultRoot
    BY <1>1 DEF SightInv, AskedInv
  <1>9. Leaves \subseteq MembersOf(ledger, cur)
    <2>1. HasConfirm
      BY <1>1 DEF Answers, Confirmable
    <2>2. cur \in ProvenOnes
      BY <1>2, <1>3 DEF ProvenOnes, Batch
    <2>3. QED
      BY <2>1, <2>2 DEF SightInv, ProvenInv, StillHeld, Leaves, Batch
  <1>10. Batch(cur).status = "proven"
    BY <1>2 DEF Batch
  <1>11. QED
    BY <1>1, <1>2, <1>5, <1>7, <1>8, <1>9, <1>10, SettleFrame

LEMMA SubmittedSight ==
  ASSUME IInv, SightInv, Submitted
  PROVE  SightInv'
  <1>1. /\ pc = "receipt" /\ Landed(mine)
        /\ ledger' = BatchSettled(ledger, cur, mine) /\ BackToLoop
        /\ UNCHANGED <<resume, chain, kinds>>
    BY DEF Submitted, mode
  <1>2. cur # 0 /\ Batch(cur).status = "proven" /\ cur \in BatchIds(ledger)
        /\ ledger.batches[cur].status = "proven"
    BY <1>1, ProvenInFlight, Staged DEF Batch
  <1>3. /\ LedgerInv(ledger, {cur}) /\ RecordsJust(ledger) /\ mine \in Int
        /\ MembersOf(ledger, cur) \subseteq ledger.batches[cur].leaves
    BY <1>2 DEF IInv, TypeOK, LedgerInv, BundlesWhole
  <1>4. PICK t \in LogEntries : t.tx = mine
    BY <1>1 DEF Landed
  <1>5. TransitionOf(t) = BundleOf(cur) /\ BundleOf(cur) \in LogTransitions
    BY <1>1, <1>4, Transitions DEF SightInv, ReceiptInv
  <1>6. \A r \in MembersOf(ledger, cur) : ReleasedIn(r, mine)
    BY <1>3, <1>4, <1>5 DEF ReleasedIn, TransitionOf, BundleOf, Batch
  <1>7. /\ OneBatchChanged(ledger'.batches, ledger, cur, ledger'.batches[cur])
        /\ ledger'.batches[cur].status = "settled"
    BY <1>1, <1>2, <1>3, <1>6, BatchSettledInv
  <1>8. Leaves \subseteq MembersOf(ledger, cur)
    BY <1>1 DEF SightInv, ReceiptInv
  <1>9. QED
    BY <1>1, <1>2, <1>3, <1>5, <1>7, <1>8, SettleFrame

(* Another settlement moved the root.                                      *)
LEMMA RebasedSight ==
  ASSUME IInv, SightInv, Quiet, (\E fetched \in Fetchable : Overtaken(fetched)) \/ StaleRoot
  PROVE  SightInv'
  <1>1. CASE \E fetched \in Fetchable : Overtaken(fetched)
    <2>1. PICK fetched \in Fetchable : Overtaken(fetched)
      BY <1>1
    <2>2. /\ pc = "settle" /\ Synced(fetched) /\ Rebuilt(fetched).spent # RootOld
          /\ RebaseOrFail /\ UNCHANGED <<resume, chain, kinds>>
      BY <2>1 DEF Overtaken, SightInv, ReceiptInv, mode
    <2>3. NoneLive
      <3>1. CASE Unstopped
        BY <2>2, <3>1, ProvenInFlight, NothingOnItsWay
      <3>2. CASE ~Unstopped
        BY <2>2, <3>2, SyncedRead, ProvenInFlight, WhenNoneLive
      <3>3. QED
        BY <3>1, <3>2
    <2>4. QED
      BY <2>2, <2>3, RebaseFrame DEF LandedNow
  <1>2. CASE StaleRoot
    <2>1. /\ pc = "receipt" /\ ~Landed(mine) /\ VaultRoot # RootOld
          /\ RebaseOrFail /\ UNCHANGED <<resume, chain, kinds>>
      BY <1>2 DEF StaleRoot, mode
    <2>2. NoneLive
      BY <2>1, ProvenInFlight, WhenNoneLive
    <2>3. QED
      BY <2>1, <2>2, RebaseFrame DEF LandedNow
  <1>3. QED
    BY <1>1, <1>2

-------------------------------------------------------------------------------
(* A batch found proven at start is the one there is.                      *)
LEMMA ResumeSight ==
  ASSUME IInv, SightInv, NEW b \in resume, Resume(b)
  PROVE  SightInv'
  <1>1. /\ pc = "next" /\ cur' = b /\ pc' = "settle" /\ resume' = resume \ {b}
        /\ UNCHANGED <<ledger, acc, kept, asked, todo, cont, mine, mode, chain, faults>>
    BY DEF Resume
  <1>2. UNCHANGED <<vaultLog, mempool, kinds>>
    BY <1>1 DEF chain, mode
  <1>3. cur = 0 /\ cont = "take" /\ DOMAIN todo = {}
    BY <1>1 DEF IInv, StageInv, AtRest, SightInv, AskedInv, Verdict
  <1>4. ~Unstopped
    BY DEF SightInv, UnstoppedInv
  <1>5. b \in ProvenOnes
    BY DEF IInv, TypeOK, ResumeInv, ProvenOnes, Batch
  <1>6. b # 0
    BY <1>5, Known DEF ProvenOnes
  <1>7. /\ Ended' = Ended /\ ProvenOnes' = ProvenOnes /\ InHand' = InHand
        /\ \A c : /\ Batch(c)' = Batch(c) /\ BundleOf(c)' = BundleOf(c)
                 /\ MembersOf(ledger, c)' = MembersOf(ledger, c)
    <2>1. /\ Ended' = Ended /\ ProvenOnes' = ProvenOnes
          /\ \A c : /\ Batch(c)' = Batch(c) /\ BundleOf(c)' = BundleOf(c)
                   /\ MembersOf(ledger, c)' = MembersOf(ledger, c)
      BY <1>1 DEF Ended, ProvenOnes, BatchIds, Batch, BundleOf, MembersOf
    <2>2. InHand' = InHand
      BY <1>1, <1>3, <1>5, <1>6, <2>1 DEF InHand
    <2>3. QED
      BY <2>1, <2>2
  <1>8. LogInv' /\ SettledInv'
    BY <1>1, <1>2, <1>7, LogKept, SettledFrame DEF SightInv, SettledInv
  <1>9. ProvenInv'
    <2>1. \A c : StillHeld(c) => StillHeld(c)'
      BY <1>2, <1>7, LogKept DEF StillHeld
    <2>2. \A c \in ProvenOnes : c = b
      BY <1>5 DEF SightInv, ProvenInv
    <2>3. QED
      BY <1>1, <1>2, <1>7, <2>1, <2>2, LogKept, ProvenFrame DEF SightInv
  <1>10. MempoolInv'
    BY <1>2, <1>4, <1>7, MempoolFrame DEF SightInv
  <1>11. ReceiptInv' /\ AssemblyInv' /\ AskedInv'
    BY <1>1, <1>3 DEF ReceiptInv, AssemblyInv, AskedInv, Verdict
  <1>12. MembersInv'
    BY <1>2, <1>7, LogKept DEF SightInv, MembersInv
  <1>13. UnstoppedInv'
    BY <1>2, <1>4 DEF UnstoppedInv, Unstopped
  <1>14. QED
    BY <1>8, <1>9, <1>10, <1>11, <1>12, <1>13 DEF SightInv

(* What is due is not settled, so a batch formed of it holds nothing of a  *)
(* settled one.                                                            *)
LEMMA TakeSight ==
  ASSUME IInv, SightInv, Quiet, NEW S \in SUBSET Burns, Take(S)
  PROVE  SightInv'
  <1>0. PICK b : b = Len(ledger.batches) + 1
    OBVIOUS
  <1>1. /\ pc = "take" \/ (pc = "next" /\ resume = {})
        /\ S \in SUBSET DuePending(ledger)
        /\ ledger' = BatchFormed(ledger, S) /\ cur' = b /\ pc' = "sync"
        /\ UNCHANGED <<acc, kept, asked, todo, cont, mine, resume, mode, chain, faults>>
    BY <1>0 DEF Take, IsSelection
  <1>2. UNCHANGED <<vaultLog, mempool, kinds>>
    BY <1>1 DEF chain, mode
  <1>3. cont = "take" /\ cur = 0 /\ resume = {} /\ DOMAIN todo = {}
    BY <1>1 DEF IInv, StageInv, ResumeInv, AtRest, Verdict, SightInv, AskedInv
  <1>4. LedgerInv(ledger, {}) /\ RecordsJust(ledger) /\ Len(ledger.batches) \in Nat /\ ledger \in Ledgers
    BY <1>3, LedgerParts DEF IInv, LedgerInv, ProvingBatches, BatchIds
  <1>5. /\ BatchIds(ledger') = BatchIds(ledger) \cup {b} /\ b \notin BatchIds(ledger) /\ b # 0
        /\ \A c \in BatchIds(ledger) : ledger'.batches[c] = ledger.batches[c]
        /\ ledger'.batches[b].status = "proving"
    <2>1. /\ BatchIds(ledger') = BatchIds(ledger) \cup {b} /\ b \notin BatchIds(ledger)
          /\ \A c \in BatchIds(ledger) : ledger'.batches[c] = ledger.batches[c]
          /\ ledger'.batches[b].status = "proving"
      BY <1>0, <1>1, <1>4, BatchFormedInv
    <2>2. b # 0
      BY <1>0, <1>4
    <2>3. QED
      BY <2>1, <2>2
  <1>6. /\ \A r \in Burns \ S : ledger'.returns[r] = ledger.returns[r]
        /\ ledger'.batches[b].members = S
        /\ S \subseteq MembersOf(ledger', b)
    BY <1>0, <1>1, <1>4, FormedFields
  <1>7. \A r \in S : ledger.returns[r].status # "settled"
    BY <1>1 DEF DuePending, IsPending, FailedRecoverably
  <1>8. ProvenOnes = {}
    <2>1. ProvenOnes \subseteq resume \cup {cur}
      BY NoOtherFaults DEF IInv, ResumeInv, ProofsNotForgotten, ProvenOnes, Batch
    <2>2. QED
      BY <1>3, <2>1, Known DEF ProvenOnes
  <1>9. /\ \A c \in BatchIds(ledger) : Batch(c)' = Batch(c) /\ BundleOf(c)' = BundleOf(c)
        /\ Batch(b)'.members = S /\ Batch(b)'.status = "proving"
    BY <1>5, <1>6 DEF Batch, BundleOf
  <1>10. ProvenOnes' = {} /\ InHand' = {b}
         /\ \A c \in Ended' : c \in Ended /\ c \in BatchIds(ledger)
    <2>1. BatchIds(ledger)' = BatchIds(ledger')
      BY DEF BatchIds
    <2>2. \A c \in BatchIds(ledger') : c # b => c \in BatchIds(ledger) /\ Batch(c)' = Batch(c)
      BY <1>5, <1>9
    <2>3. ProvenOnes' = {}
      BY <1>8, <1>9, <2>1, <2>2 DEF ProvenOnes
    <2>4. InHand' = {b}
      BY <1>1, <1>5, <2>3 DEF InHand
    <2>5. \A c \in Ended' : c \in Ended /\ c \in BatchIds(ledger)
      BY <1>9, <2>1, <2>2 DEF Ended
    <2>6. QED
      BY <2>3, <2>4, <2>5
  <1>11. SettledInv'
    <2> SUFFICES ASSUME NEW c \in Ended'
                 PROVE  /\ BundleOf(c)' \in LogTransitions'
                        /\ \A r \in Batch(c)'.leaves : ledger'.returns[r].status = "settled"
                        /\ S \cap Batch(c)'.leaves = {}
      BY <1>9, <1>10 DEF SettledInv
    <2>1. c \in Ended /\ c \in BatchIds(ledger) /\ Batch(c)' = Batch(c) /\ BundleOf(c)' = BundleOf(c)
      BY <1>9, <1>10
    <2>2. Batch(c).leaves \subseteq Burns
      BY <2>1, Known DEF Batches
    <2>3. \A r \in Batch(c).leaves : ledger.returns[r].status = "settled"
      BY <2>1 DEF SightInv, SettledInv
    <2>4. S \cap Batch(c).leaves = {}
      BY <1>7, <2>3
    <2>5. QED
      BY <1>2, <1>6, <2>1, <2>2, <2>3, <2>4, LogKept DEF SightInv, SettledInv
  <1>12. ProvenInv'
    BY <1>10 DEF ProvenInv
  <1>13. MempoolInv'
    BY <1>2, <1>8, WhenNoneLive, MempoolFrame DEF SightInv
  <1>14. ReceiptInv' /\ AssemblyInv' /\ AskedInv'
    BY <1>1, <1>3 DEF ReceiptInv, AssemblyInv, AskedInv, Verdict
  <1>15. MembersInv'
    <2>1. MembersOf(ledger, b)' = MembersOf(ledger', b)
      BY DEF MembersOf
    <2>2. QED
      BY <1>6, <1>9, <1>10, <2>1 DEF MembersInv
  <1>16. UnstoppedInv'
    <2> SUFFICES ASSUME Unstopped
                 PROVE  /\ S \cap VaultRoot = {}
                        /\ \A r \in Burns \cap VaultRoot : ledger'.returns[r].status = "settled"
      BY <1>1, <1>2, <1>3, <1>9, LogKept DEF UnstoppedInv, Unstopped, Untouched
    <2>1. \A r \in Burns \cap VaultRoot : ledger.returns[r].status = "settled"
      BY <1>1 DEF SightInv, UnstoppedInv, LandedNow
    <2>2. QED
      BY <1>6, <1>7, <2>1
  <1>17. QED
    BY <1>2, <1>11, <1>12, <1>13, <1>14, <1>15, <1>16, LogKept DEF SightInv

LEMMA ProveSight ==
  ASSUME IInv, SightInv, Prove
  PROVE  SightInv'
  <1>1. /\ pc = "prove" /\ pc' = "settle"
        /\ ledger' = BatchProven(ledger, cur, kept, acc.spent)
        /\ UNCHANGED <<cur, asked, todo, cont, mine, resume, mode, chain, faults>>
    BY DEF Prove
  <1>2. UNCHANGED <<vaultLog, mempool, kinds>>
    BY <1>1 DEF chain, mode
  <1>3. /\ ~AtRest /\ cont = "take" /\ cur # 0 /\ DOMAIN todo = {}
        /\ Batch(cur).status = "proving" /\ cur \in BatchIds(ledger) /\ ledger \in Ledgers
    BY <1>1, Staged, Known DEF IInv, StageInv, AtRest, Verdict, SightInv, AskedInv, Batch
  <1>4. /\ LedgerInv(ledger, {cur}) /\ RecordsJust(ledger)
        /\ kept \in SUBSET Burns /\ acc.spent \in Roots
        /\ MembersOf(ledger, cur) \subseteq kept
    BY <1>1, <1>3, InFlight DEF IInv, TypeOK, VerdictInv
  <1>5. /\ OneBatchChanged(ledger'.batches, ledger, cur, ledger'.batches[cur])
        /\ ledger'.batches[cur].status = "proven"
    BY <1>1, <1>3, <1>4, BatchProvenInv
  <1>6. /\ \A r \in Burns \ MembersOf(ledger, cur) : ledger'.returns[r] = ledger.returns[r]
        /\ ledger'.batches[cur].members = Batch(cur).members
        /\ ledger'.batches[cur].leaves = kept /\ ledger'.batches[cur].rootOld = acc.spent
        /\ MembersOf(ledger, cur) \subseteq MembersOf(ledger', cur)
    BY <1>1, <1>3, ProvenFields DEF Batch
  <1>7. /\ kept # {} /\ kept \subseteq Batch(cur).members \ BadLock /\ Untouched(kept)
        /\ acc.spent \subseteq VaultRoot
    BY <1>1 DEF SightInv, AssemblyInv
  <1>8. (Batch(cur).members \ BadLock) \ VaultRoot \subseteq MembersOf(ledger, cur)
    BY <1>3 DEF SightInv, MembersInv, InHand
  <1>9. kept \subseteq MembersOf(ledger, cur)
    BY <1>7, <1>8 DEF Untouched
  <1>10. /\ BatchIds(ledger)' = BatchIds(ledger)
         /\ \A b \in BatchIds(ledger) \ {cur} : Batch(b)' = Batch(b) /\ BundleOf(b)' = BundleOf(b)
    BY <1>5 DEF OneBatchChanged, BatchIds, Batch, BundleOf
  <1>11. /\ Batch(cur)'.members = Batch(cur).members /\ Batch(cur)'.status = "proven"
         /\ Batch(cur)'.leaves = kept /\ Batch(cur)'.rootOld = acc.spent
         /\ MembersOf(ledger, cur)' = MembersOf(ledger', cur)
    BY <1>1, <1>5, <1>6 DEF Batch, MembersOf
  <1>12. /\ ProvenOnes' = {cur} /\ InHand' = {cur} /\ cur \in InHand
         /\ \A b \in Ended' : b \in Ended /\ BundleOf(b)' = BundleOf(b)
    <2>1. ProvenOnes = {}
      BY <1>3 DEF SightInv, ProvenInv, ProvenOnes
    <2>2. cur \in ProvenOnes' /\ cur \notin Ended'
      BY <1>1, <1>3, <1>10, <1>11 DEF ProvenOnes, Ended
    <2>3. \A b \in ProvenOnes' : b = cur
      BY <1>10, <2>1 DEF ProvenOnes
    <2>4. \A b \in Ended' : b \in Ended /\ BundleOf(b)' = BundleOf(b)
      BY <1>10, <2>2 DEF Ended
    <2>5. QED
      BY <1>1, <1>3, <2>2, <2>3, <2>4 DEF InHand
  <1>13. SettledInv'
    <2>1. ASSUME NEW b \in Ended, NEW r \in Batch(b).leaves
          PROVE  ledger'.returns[r].status = "settled"
      <3>1. Batch(b) \in Batches
        BY Known DEF Ended
      <3>2. r \in Burns \ MembersOf(ledger, cur)
        BY <1>12, <3>1 DEF Batches, SightInv, SettledInv, MembersOf, Batch
      <3>3. QED
        BY <1>6, <3>2 DEF SightInv, SettledInv
    <2>2. \A c \in InHand' : c \in InHand /\ Batch(c)'.members = Batch(c).members
      BY <1>1, <1>11, <1>12 DEF Batch
    <2>3. QED
      BY <1>2, <1>12, <2>1, <2>2, LogKept, SettledFrame DEF SightInv
  <1>14. ProvenInv'
    <2>1. kept \cap acc.spent = {}
      BY <1>7 DEF Untouched
    <2>2. StillHeld(cur)'
      BY <1>6, <1>9, <1>11 DEF StillHeld
    <2>3. Untouched(Batch(cur).leaves)'
      BY <1>2, <1>7, <1>11, LogKept DEF Untouched
    <2>4. QED
      BY <1>1, <1>2, <1>7, <1>11, <1>12, <2>1, <2>2, <2>3, LogKept DEF ProvenInv
  <1>15. MempoolInv'
    BY <1>1, <1>2, <1>3, NothingOnItsWay, MempoolFrame DEF SightInv
  <1>16. ReceiptInv' /\ AssemblyInv' /\ AskedInv'
    BY <1>1, <1>3 DEF ReceiptInv, AssemblyInv, AskedInv, Verdict
  <1>17. MembersInv'
    BY <1>1, <1>2, <1>6, <1>8, <1>11, <1>12, LogKept DEF MembersInv
  <1>18. UnstoppedInv'
    <2> SUFFICES ASSUME Unstopped
                 PROVE  /\ resume' = {} /\ Untouched(Batch(cur).members)
                        /\ \A r \in Burns \cap VaultRoot : ledger'.returns[r].status = "settled"
      BY <1>1, <1>2, <1>11, LogKept DEF UnstoppedInv, Unstopped
    <2>1. resume' = {} /\ Untouched(Batch(cur).members)
      BY <1>1, <1>3 DEF SightInv, UnstoppedInv, LandedNow
    <2>2. QED
      BY <1>1, <1>3, <1>6, <2>1, SettledElsewhere DEF LandedNow
  <1>19. QED
    BY <1>2, <1>13, <1>14, <1>15, <1>16, <1>17, <1>18, LogKept DEF SightInv

-------------------------------------------------------------------------------
(* A restart only takes proving batches out of hand.                       *)
LEMMA CutShort ==
  ASSUME IInv, ledger' = Interrupted(ledger, FALSE)
               \/ ledger' = Interrupted(Interrupted(ledger, TRUE), FALSE)
  PROVE  /\ BatchIds(ledger') = BatchIds(ledger)
         /\ \A r \in Burns : ledger.returns[r].status # "proving" => ledger'.returns[r] = ledger.returns[r]
         /\ \A b \in BatchIds(ledger) :
              ledger'.batches[b] = ledger.batches[b] \/ ledger'.batches[b].status = "interrupted"
         /\ \A b \in BatchIds(ledger) :
              ledger.batches[b].status # "proving" => ledger'.batches[b] = ledger.batches[b]
  <1>1. /\ ledger \in Ledgers /\ LedgerInv(ledger, {cur}) /\ RecordsJust(ledger)
        /\ TRUE \in BOOLEAN /\ FALSE \in BOOLEAN
    BY Known DEF IInv
  <1>2. CASE ledger' = Interrupted(ledger, FALSE)
    <2>1. BatchIds(ledger') = BatchIds(ledger)
      BY <1>1, <1>2, InterruptedInv
    <2>2. QED
      BY <1>1, <1>2, <2>1, InterruptedFields
  <1>3. CASE ledger' = Interrupted(Interrupted(ledger, TRUE), FALSE)
    <2> DEFINE K == Interrupted(ledger, TRUE)
    <2>1. /\ LedgerInv(K, {}) /\ RecordsJust(K) /\ BatchIds(K) = BatchIds(ledger)
      BY <1>1, InterruptedInv
    <2>2. K \in Ledgers
      BY <2>1 DEF LedgerInv
    <2>3. /\ \A r \in Burns : ledger.returns[r].status # "proving" => K.returns[r] = ledger.returns[r]
          /\ \A b \in BatchIds(ledger) :
               K.batches[b] = ledger.batches[b] \/ K.batches[b].status = "interrupted"
          /\ \A b \in BatchIds(ledger) :
               ledger.batches[b].status # "proving" => K.batches[b] = ledger.batches[b]
      BY <1>1, InterruptedFields
    <2> HIDE DEF K
    <2>4. BatchIds(ledger') = BatchIds(K)
      BY <1>1, <1>3, <2>1, InterruptedInv DEF K
    <2>5. /\ \A r \in Burns : K.returns[r].status # "proving" => ledger'.returns[r] = K.returns[r]
          /\ \A b \in BatchIds(K) :
               ledger'.batches[b] = K.batches[b] \/ ledger'.batches[b].status = "interrupted"
      BY <1>1, <1>3, <2>2, InterruptedFields DEF K
    <2>6. \A b \in BatchIds(K) : K.batches[b].status # "proving" => ledger'.batches[b] = K.batches[b]
      BY <1>1, <1>3, <2>2, InterruptedFields DEF K
    <2>7. \A r \in Burns : ledger.returns[r].status # "proving" => ledger'.returns[r] = ledger.returns[r]
      BY <2>3, <2>5
    <2>8. \A b \in BatchIds(ledger) :
            /\ ledger'.batches[b] = ledger.batches[b] \/ ledger'.batches[b].status = "interrupted"
            /\ ledger.batches[b].status # "proving" => ledger'.batches[b] = ledger.batches[b]
      BY <2>1, <2>3, <2>5, <2>6
    <2>9. QED
      BY <2>1, <2>4, <2>7, <2>8
  <1>4. QED
    BY <1>2, <1>3

LEMMA RestartsSight ==
  ASSUME IInv, SightInv, ~Unstopped,
         Restarts(ledger) \/ Restarts(Interrupted(ledger, TRUE))
  PROVE  SightInv'
  <1>1. /\ BackToLoop /\ UNCHANGED <<kinds, chain>>
        /\ ledger' = Interrupted(ledger, FALSE) \/ ledger' = Interrupted(Interrupted(ledger, TRUE), FALSE)
    BY DEF Restarts
  <1>2. UNCHANGED <<vaultLog, mempool, kinds>> /\ cur' = 0 /\ pc' = "next" /\ cont' = "take" /\ todo' = None
    BY <1>1 DEF chain, BackToLoop
  <1>3. /\ BatchIds(ledger)' = BatchIds(ledger)
        /\ \A r \in Burns : ledger.returns[r].status # "proving" => ledger'.returns[r] = ledger.returns[r]
        /\ \A b \in BatchIds(ledger) :
             Batch(b)' = Batch(b) \/ Batch(b)'.status = "interrupted"
        /\ \A b \in BatchIds(ledger) : Batch(b).status # "proving" => Batch(b)' = Batch(b)
    <2>1. BatchIds(ledger)' = BatchIds(ledger')
      BY DEF BatchIds
    <2>2. \A b : Batch(b)' = ledger'.batches[b]
      BY DEF Batch
    <2>3. QED
      BY <1>1, <2>1, <2>2, CutShort DEF Batch
  <1>4. /\ \A b \in Ended' : b \in Ended /\ Batch(b)' = Batch(b)
        /\ ProvenOnes' = ProvenOnes
        /\ \A b \in ProvenOnes : Batch(b)' = Batch(b) /\ BundleOf(b)' = BundleOf(b)
    BY <1>3 DEF Ended, ProvenOnes, BundleOf
  <1>5. InHand' = ProvenOnes /\ InHand' \subseteq InHand
    BY <1>2, <1>4 DEF InHand
  <1>6. ASSUME NEW b \in ProvenOnes PROVE MembersOf(ledger, b) \subseteq MembersOf(ledger, b)'
    <2> SUFFICES ASSUME NEW r \in MembersOf(ledger, b) PROVE r \in MembersOf(ledger', b)
      BY DEF MembersOf
    <2>1. b \in BatchIds(ledger) /\ r \in Burns /\ r \in ledger.batches[b].members
          /\ InBatch(ledger.returns[r], b) /\ ledger.batches[b].status = "proven"
      BY Known DEF ProvenOnes, MembersOf, Batch
    <2>2. ledger.returns[r].status = "proven"
      BY <2>1 DEF IInv, LedgerInv, MembersPlaced, InBatch
    <2>3. ledger'.returns[r] = ledger.returns[r] /\ ledger'.batches[b] = ledger.batches[b]
      BY <1>3, <2>1, <2>2 DEF Batch
    <2>4. QED
      BY <2>1, <2>3 DEF MembersOf
  <1>7. SettledInv'
    <2>1. \A b \in Ended' : b \in Ended /\ BundleOf(b)' = BundleOf(b)
      BY <1>4 DEF BundleOf
    <2>2. ASSUME NEW b \in Ended, NEW r \in Batch(b).leaves
          PROVE  ledger'.returns[r].status = "settled"
      <3>1. Batch(b) \in Batches
        BY Known DEF Ended
      <3>2. r \in Burns /\ ledger.returns[r].status = "settled"
        BY <3>1 DEF Batches, SightInv, SettledInv
      <3>3. QED
        BY <1>3, <3>2
    <2>3. \A c \in InHand' : c \in InHand /\ Batch(c)'.members = Batch(c).members
      BY <1>4, <1>5
    <2>4. QED
      BY <1>2, <2>1, <2>2, <2>3, LogKept, SettledFrame DEF SightInv
  <1>8. ProvenInv'
    <2>1. ASSUME NEW b \in ProvenOnes, StillHeld(b) PROVE StillHeld(b)'
      BY <1>2, <1>4, <1>6, <2>1, LogKept DEF StillHeld
    <2>2. QED
      BY <1>2, <1>4, <2>1, LogKept, ProvenFrame DEF SightInv
  <1>9. MempoolInv'
    BY <1>2, <1>4, MempoolFrame DEF SightInv
  <1>10. ReceiptInv' /\ AssemblyInv' /\ AskedInv'
    BY <1>2 DEF ReceiptInv, AssemblyInv, AskedInv, Verdict, None
  <1>11. MembersInv'
    BY <1>2, <1>4, <1>5, <1>6, LogKept DEF SightInv, MembersInv
  <1>12. UnstoppedInv'
    BY <1>2 DEF UnstoppedInv, Unstopped
  <1>13. QED
    BY <1>2, <1>7, <1>8, <1>9, <1>10, <1>11, <1>12, LogKept DEF SightInv

(* A new settlement is the bundle in flight, under a number of its own.    *)
LEMMA BroadcastSight ==
  ASSUME IInv, SightInv, Broadcast
  PROVE  SightInv'
  <1>0. PICK m : m = [tx |-> nextTx, rootOld |-> RootOld, nullifiers |-> Leaves]
    OBVIOUS
  <1>1. /\ pc = "submit" /\ pc' = "receipt"
        /\ mempool' = mempool \cup {m} /\ mine' = nextTx
        /\ UNCHANGED <<ledger, cur, acc, kept, asked, todo, cont, resume, mode, vaultLog, faults>>
    BY <1>0 DEF Broadcast
  <1>2. UNCHANGED kinds
    BY <1>1 DEF mode
  <1>3. /\ cur # 0 /\ cur \in ProvenOnes /\ cont = "take" /\ DOMAIN todo = {}
        /\ RootOld \subseteq VaultRoot /\ Leaves = Batch(cur).leaves /\ RootOld = Batch(cur).rootOld
    BY <1>1, ProvenInFlight
  <1>4. /\ Ended' = Ended /\ ProvenOnes' = ProvenOnes /\ InHand' = InHand /\ Leaves' = Leaves
        /\ \A b : /\ Batch(b)' = Batch(b) /\ BundleOf(b)' = BundleOf(b)
                 /\ MembersOf(ledger, b)' = MembersOf(ledger, b)
    BY <1>1 DEF Ended, ProvenOnes, InHand, BatchIds, Batch, BundleOf, MembersOf, Leaves
  <1>5. LogInv' /\ SettledInv'
    BY <1>1, <1>4, LogKept, SettledFrame DEF SightInv, SettledInv
  <1>6. ProvenInv'
    <2>1. \A b : StillHeld(b) => StillHeld(b)'
      BY <1>1, <1>4, LogKept DEF StillHeld
    <2>2. \A b \in ProvenOnes : cur = 0 \/ b = cur
      BY DEF SightInv, ProvenInv
    <2>3. QED
      BY <1>1, <1>4, <2>1, <2>2, LogKept, ProvenFrame DEF SightInv
  <1>7. TransitionOf(m) = BundleOf(cur) /\ m.tx = nextTx /\ m.rootOld = RootOld
    BY <1>0, <1>3 DEF TransitionOf, BundleOf
  <1>8. MempoolInv'
    <2> SUFFICES ASSUME NEW n \in mempool'
                 PROVE  n.rootOld \subseteq VaultRoot /\ (n.rootOld = VaultRoot => InWatch(n)')
      BY <1>1, LogKept DEF MempoolInv
    <2>1. Unstopped' <=> Unstopped
      BY <1>2 DEF Unstopped
    <2>2. CASE n \in mempool
      <3>1. n.rootOld \subseteq VaultRoot /\ (n.rootOld = VaultRoot => InWatch(n))
        BY <2>2 DEF SightInv, MempoolInv
      <3>2. Unstopped => n.rootOld # VaultRoot
        BY <1>1, <2>2, WhenNoneLive DEF NoneLive
      <3>3. ASSUME InWatch(n), ~Unstopped PROVE InWatch(n)'
        <4>1. PICK b \in ProvenOnes : BundleOf(b) = TransitionOf(n)
          BY <3>3 DEF InWatch
        <4>2. b \in ProvenOnes' /\ BundleOf(b)' = TransitionOf(n)'
          BY <1>4, <4>1 DEF TransitionOf
        <4>3. QED
          BY <2>1, <3>3, <4>2 DEF InWatch
      <3>4. QED
        BY <3>1, <3>2, <3>3
    <2>3. CASE n = m
      <3>1. n.rootOld \subseteq VaultRoot
        BY <1>3, <1>7, <2>3
      <3>2. BundleOf(cur)' = BundleOf(cur) /\ cur \in ProvenOnes'
        BY <1>1, <1>3, <1>4 DEF BundleOf, Batch
      <3>3. pc' = "receipt" /\ n.tx = mine'
        BY <1>1, <1>7, <2>3
      <3>4. TransitionOf(n) = BundleOf(cur)
        BY <1>7, <2>3
      <3>5. TransitionOf(n)' = TransitionOf(n)
        BY DEF TransitionOf
      <3>6. \E b \in ProvenOnes' : BundleOf(b)' = TransitionOf(n)'
        <4>1. PICK c : c = cur
          OBVIOUS
        <4>2. BundleOf(c)' = BundleOf(cur)'
          BY <1>1, <4>1 DEF BundleOf, Batch
        <4>3. QED
          BY <3>2, <3>4, <3>5, <4>1, <4>2
      <3>7. QED
        BY <3>1, <3>3, <3>6 DEF InWatch
    <2>4. QED
      BY <1>1, <2>2, <2>3
  <1>9. \A t \in LogEntries \cup mempool : t.tx # nextTx
    <2>1. \A t \in LogEntries \cup mempool : t.tx < nextTx
      BY DEF IInv, TxInv
    <2>2. \A t \in LogEntries \cup mempool : t.tx \in Nat
      BY Known DEF Entries
    <2>3. nextTx \in Nat
      BY DEF IInv, TypeOK
    <2>4. QED
      BY <2>1, <2>2, <2>3
  <1>10. LogEntries' = LogEntries
    BY <1>1, LogKept
  <1>11. ReceiptInv'
    <2>1. Leaves \subseteq MembersOf(ledger, cur)
      BY <1>1 DEF SightInv, ReceiptInv
    <2>2. MembersOf(ledger, cur)' = MembersOf(ledger, cur)
      BY <1>1 DEF MembersOf
    <2>3. m \in LogEntries' \cup mempool' /\ m.tx = mine'
      BY <1>1, <1>7
    <2>4. BundleOf(cur)' = BundleOf(cur)
      BY <1>1 DEF BundleOf, Batch
    <2>5. ASSUME NEW t \in LogEntries' \cup mempool', t.tx = mine'
          PROVE  TransitionOf(t)' = BundleOf(cur)'
      <3>1. t = m
        BY <1>1, <1>9, <1>10, <2>5
      <3>2. QED
        BY <1>7, <2>4, <3>1 DEF TransitionOf
    <2>6. \A t \in (LogEntries \cup mempool)' : t.tx = mine' => TransitionOf(t)' = BundleOf(cur)'
      BY <2>5
    <2>7. QED
      BY <1>1, <1>4, <2>1, <2>2, <2>3, <2>6 DEF ReceiptInv
  <1>12. AssemblyInv' /\ AskedInv'
    BY <1>1, <1>3 DEF AssemblyInv, AskedInv, Verdict
  <1>13. MembersInv'
    BY <1>1, <1>4, LogKept DEF SightInv, MembersInv
  <1>14. UnstoppedInv'
    <2>1. ~LandedNow
      BY <1>1 DEF LandedNow
    <2>2. Unstopped' <=> Unstopped
      BY <1>2 DEF Unstopped
    <2>3. Batch(cur)' = Batch(cur) /\ VaultRoot' = VaultRoot
      BY <1>1, LogKept DEF Batch
    <2>4. Unstopped => Batch(cur).members \cap VaultRoot = {}
      BY <1>3, <2>1 DEF SightInv, UnstoppedInv, Untouched
    <2>5. QED
      BY <1>1, <2>1, <2>2, <2>3, <2>4 DEF SightInv, UnstoppedInv, Untouched
  <1>15. QED
    BY <1>5, <1>6, <1>8, <1>11, <1>12, <1>13, <1>14 DEF SightInv

-------------------------------------------------------------------------------
(* The vault's log grows by a settlement on its root.                      *)
LEMMA LogGrows ==
  ASSUME IInv, LogInv, NEW e,
         LogEntries' = LogEntries \cup {e}, e.rootOld = VaultRoot,
         e.nullifiers # {}, e.nullifiers \cap VaultRoot = {}
  PROVE  /\ LogInv'
         /\ VaultRoot' = VaultRoot \cup e.nullifiers /\ VaultRoot' # VaultRoot
         /\ LogTransitions' = LogTransitions \cup {TransitionOf(e)}
         /\ \A S : ~(S \subseteq VaultRoot /\ S = VaultRoot')
  <1>1. VaultRoot' = VaultRoot \cup e.nullifiers
    BY DEF VaultRoot
  <1>2. LogTransitions' = LogTransitions \cup {TransitionOf(e)}
    BY DEF LogTransitions, TransitionOf
  <1>3. VaultRoot' # VaultRoot /\ \A S : ~(S \subseteq VaultRoot /\ S = VaultRoot')
    BY <1>1
  <1>4. \A f \in LogEntries :
          /\ f.nullifiers # {} /\ f.nullifiers \cap f.rootOld = {} /\ f.rootOld \subseteq VaultRoot
          /\ f.nullifiers \subseteq VaultRoot
    BY Known DEF LogInv
  <1>5. \A f \in LogEntries : f.rootOld # VaultRoot
    BY <1>4
  <1>6. ASSUME NEW f \in LogEntries'
        PROVE  /\ f.nullifiers # {} /\ f.nullifiers \cap f.rootOld = {} /\ f.rootOld \subseteq VaultRoot'
               /\ f.rootOld = {} \/ \E g \in LogEntries' : f.rootOld = g.rootOld \cup g.nullifiers
    <2>1. CASE f \in LogEntries
      BY <1>1, <1>4, <2>1 DEF LogInv
    <2>2. CASE f = e
      <3>1. VaultRoot = {} \/ \E g \in LogEntries : VaultRoot = g.rootOld \cup g.nullifiers
        BY DEF LogInv, VaultRoot
      <3>2. QED
        BY <1>1, <2>2, <3>1
    <2>3. QED
      BY <2>1, <2>2
  <1>7. ASSUME NEW f \in LogEntries', NEW g \in LogEntries'
        PROVE  /\ f.rootOld = g.rootOld => f = g
               /\ f.nullifiers \cap g.nullifiers # {} => f = g
    <2>1. CASE f \in LogEntries /\ g \in LogEntries
      BY <2>1 DEF LogInv
    <2>2. CASE f = e /\ g \in LogEntries
      BY <1>4, <1>5, <2>2
    <2>3. CASE f \in LogEntries /\ g = e
      BY <1>4, <1>5, <2>3
    <2>4. QED
      BY <2>1, <2>2, <2>3
  <1>8. \E f \in LogEntries' : VaultRoot' = f.rootOld \cup f.nullifiers
    BY <1>1
  <1>9. LogInv'
    BY <1>6, <1>7, <1>8 DEF LogInv
  <1>10. QED
    BY <1>1, <1>2, <1>3, <1>9

(* Only the chain moves on.                                                *)
LEMMA ChainFrame ==
  ASSUME IInv, SightInv, NEW e, UNCHANGED <<ledger, pc, task, resume, kinds>>,
         LogEntries' = LogEntries \cup {e}, e.rootOld = VaultRoot,
         e.nullifiers # {}, e.nullifiers \cap VaultRoot = {},
         mempool' \subseteq mempool,
         LogEntries \cup mempool \subseteq LogEntries' \cup mempool',
         \A t \in LogEntries' \cup mempool' : t \in LogEntries \cup mempool \/ t.tx # mine,
         \A b \in ProvenOnes :
           Batch(b).leaves \cap e.nullifiers = {} \/ BundleOf(b) = TransitionOf(e),
         AssemblyInv', UnstoppedInv'
  PROVE  SightInv'
  <1>1. UNCHANGED <<pc, cur, acc, kept, asked, todo, cont, mine>>
    BY DEF task
  <1>2. /\ LogInv'
        /\ VaultRoot' = VaultRoot \cup e.nullifiers
        /\ LogTransitions' = LogTransitions \cup {TransitionOf(e)}
        /\ \A S : ~(S \subseteq VaultRoot /\ S = VaultRoot')
    BY LogGrows DEF SightInv
  <1>3. /\ Ended' = Ended /\ ProvenOnes' = ProvenOnes /\ InHand' = InHand
        /\ Leaves' = Leaves /\ Judged' = Judged
        /\ \A b : /\ Batch(b)' = Batch(b) /\ BundleOf(b)' = BundleOf(b)
                 /\ MembersOf(ledger, b)' = MembersOf(ledger, b)
    BY <1>1 DEF Ended, ProvenOnes, InHand, BatchIds, Batch, BundleOf, MembersOf, Leaves, Judged
  <1>4. SettledInv'
    BY <1>2, <1>3, SettledFrame DEF SightInv, SettledInv
  <1>5. ProvenInv'
    <2>1. \A b : StillHeld(b) => StillHeld(b)'
      BY <1>2, <1>3 DEF StillHeld
    <2>2. ASSUME NEW b \in ProvenOnes, Untouched(Batch(b).leaves)
          PROVE  Untouched(Batch(b).leaves)' \/ BundleOf(b) \in LogTransitions'
      <3>1. Untouched(Batch(b).leaves)' <=> Batch(b).leaves \cap VaultRoot' = {}
        BY <1>3 DEF Untouched
      <3>2. QED
        BY <1>2, <2>2, <3>1 DEF Untouched
    <2>3. \A b \in ProvenOnes : cur = 0 \/ b = cur
      BY DEF SightInv, ProvenInv
    <2>4. QED
      BY <1>1, <1>2, <1>3, <2>1, <2>2, <2>3, ProvenFrame DEF SightInv
  <1>6. MempoolInv'
    <2> SUFFICES ASSUME NEW m \in mempool'
                 PROVE  m.rootOld \subseteq VaultRoot' /\ m.rootOld # VaultRoot'
      BY DEF MempoolInv
    <2>1. m.rootOld \subseteq VaultRoot
      BY DEF SightInv, MempoolInv
    <2>2. QED
      BY <1>2, <2>1
  <1>7. ReceiptInv'
    <2>1. BundleOf(cur)' = BundleOf(cur) /\ MembersOf(ledger, cur)' = MembersOf(ledger, cur)
      BY <1>1 DEF BundleOf, Batch, MembersOf
    <2>2. \A t : TransitionOf(t)' = TransitionOf(t)
      BY DEF TransitionOf
    <2>3. ASSUME pc = "receipt"
          PROVE  /\ \E t \in (LogEntries \cup mempool)' : t.tx = mine
                 /\ \A t \in (LogEntries \cup mempool)' : t.tx = mine => TransitionOf(t) = BundleOf(cur)
      BY <2>3 DEF SightInv, ReceiptInv
    <2>4. QED
      BY <1>1, <1>3, <2>1, <2>2, <2>3 DEF SightInv, ReceiptInv
  <1>8. AskedInv'
    <2>1. BundleOf(cur)' = BundleOf(cur) /\ Batch(cur)' = Batch(cur)
      BY <1>1 DEF BundleOf, Batch
    <2>2. \A t : TransitionOf(t)' = TransitionOf(t)
      BY DEF TransitionOf
    <2>3. cont = "released" => Leaves \subseteq VaultRoot'
           /\ \A r \in DOMAIN asked : \E t \in LogEntries' : TransitionOf(t) = BundleOf(cur) /\ asked[r] = t.tx
      BY <1>2 DEF SightInv, AskedInv
    <2>4. cont # "take" => Judged \subseteq Batch(cur).members \cap (BadLock \cup VaultRoot')
      BY <1>2 DEF SightInv, AskedInv
    <2>5. cont = "fail" /\ Batch(cur).status = "proven" => ~HasConfirm /\ Leaves \subseteq VaultRoot'
      BY <1>2 DEF SightInv, AskedInv
    <2>6. /\ pc \notin Verdict => DOMAIN todo = {}
          /\ pc \in Verdict /\ cont = "take" => \A r \in Judged : ledger.returns[r].status # "settled"
      BY DEF SightInv, AskedInv
    <2>7. QED
      BY <1>1, <1>3, <2>1, <2>2, <2>3, <2>4, <2>5, <2>6 DEF AskedInv
  <1>9. MembersInv'
    BY <1>2, <1>3 DEF SightInv, MembersInv
  <1>10. QED
    BY <1>2, <1>4, <1>5, <1>6, <1>7, <1>8, <1>9 DEF SightInv

(* What lands is the bundle of the proven batch.                           *)
LEMMA LandSight ==
  ASSUME IInv, SightInv, NEW m \in mempool, Land(m)
  PROVE  SightInv'
  <1>1. /\ m.rootOld = VaultRoot /\ Settles(m.tx, m.nullifiers) /\ mempool' = mempool \ {m}
        /\ UNCHANGED <<ledger, pc, task, resume, mode, nextTx, faults>>
    BY DEF Land
  <1>2. UNCHANGED <<ledger, pc, cur, acc, kept, asked, todo, cont, mine, resume, kinds>>
    BY <1>1 DEF task, mode
  <1>3. LogEntries' = LogEntries \cup {m}
    <2>1. m \in Entries
      BY Known
    <2>2. m = [rootOld |-> VaultRoot, nullifiers |-> m.nullifiers, tx |-> m.tx]
          /\ m.tx \in Nat /\ m.nullifiers \in Roots
      BY <1>1, <2>1 DEF Entries
    <2>3. QED
      BY <1>1, <2>2, SettlesFacts
  <1>4. InWatch(m)
    BY <1>1 DEF SightInv, MempoolInv
  <1>5. PICK b \in ProvenOnes : BundleOf(b) = TransitionOf(m)
    BY <1>4 DEF InWatch
  <1>6. Batch(b).rootOld = m.rootOld /\ Batch(b).leaves = m.nullifiers
    BY <1>5 DEF BundleOf, TransitionOf
  <1>7. /\ m.nullifiers # {} /\ m.nullifiers \cap VaultRoot = {}
        /\ cur = 0 \/ cur = b
        /\ \A c \in ProvenOnes : c = b
    BY <1>1, <1>5, <1>6 DEF SightInv, ProvenInv
  <1>8. VaultRoot' = VaultRoot \cup m.nullifiers
    BY <1>1, <1>3, <1>7, LogGrows DEF SightInv
  <1>9. AssemblyInv'
    <2>1. cur # 0 => Batch(cur).status = "proven"
      BY <1>5, <1>7 DEF ProvenOnes
    <2>2. pc \notin {"simulate", "prove"} /\ cont # "prove"
      BY <2>1 DEF IInv, StageInv, AtRest, Verdict, Batch
    <2>3. QED
      BY <1>2, <2>2 DEF AssemblyInv
  <1>10. UnstoppedInv'
    <2> SUFFICES ASSUME Unstopped
                 PROVE  /\ resume = {} /\ LandedNow'
                        /\ \A r \in Burns \cap VaultRoot' : ledger.returns[r].status = "settled" \/ r \in Leaves'
      BY <1>2 DEF UnstoppedInv, Unstopped
    <2>1. pc = "receipt" /\ m.tx = mine /\ resume = {}
      BY <1>4 DEF InWatch, SightInv, UnstoppedInv
    <2>2. LandedNow'
      BY <1>2, <1>3, <2>1 DEF LandedNow, Landed
    <2>3. cur = b /\ Leaves' = m.nullifiers /\ Leaves = m.nullifiers
      BY <1>2, <1>6, <1>7, <2>1, ProvenInFlight DEF Leaves, Batch
    <2>4. \A r \in Burns \cap VaultRoot : ledger.returns[r].status = "settled" \/ r \in Leaves
      BY DEF SightInv, UnstoppedInv
    <2>5. QED
      BY <1>8, <2>1, <2>2, <2>3, <2>4
  <1>11. \A c \in ProvenOnes : BundleOf(c) = TransitionOf(m)
    BY <1>5, <1>7
  <1>12. QED
    BY <1>1, <1>2, <1>3, <1>7, <1>9, <1>10, <1>11, ChainFrame

(* The other settlers move the root, and release nothing of the service.   *)
LEMMA ThirdPartySight ==
  ASSUME IInv, SightInv, OthersKeepOff, NEW S \in ThirdParty, ThirdPartySettles(S)
  PROVE  SightInv'
  <1>0. PICK e : e = [rootOld |-> VaultRoot, nullifiers |-> S, tx |-> nextTx]
    OBVIOUS
  <1>1. /\ S \cap VaultRoot = {} /\ Settles(nextTx, S)
        /\ UNCHANGED <<ledger, pc, task, resume, mode, mempool, faults>>
    BY DEF ThirdPartySettles
  <1>2. UNCHANGED <<ledger, pc, cur, acc, kept, asked, todo, cont, mine, resume, kinds, mempool>>
    BY <1>1 DEF task, mode
  <1>3. nextTx \in Nat /\ mine \in Nat /\ mine < nextTx /\ S \in Roots /\ S # {}
    BY ServiceAssumption DEF IInv, TypeOK, TxInv
  <1>4. LogEntries' = LogEntries \cup {e}
    BY <1>0, <1>1, <1>3, SettlesFacts
  <1>5. e.rootOld = VaultRoot /\ e.nullifiers = S /\ e.tx = nextTx /\ e.tx # mine
    BY <1>0, <1>3
  <1>6. VaultRoot' = VaultRoot \cup S /\ S \cap Burns = {}
    BY <1>1, <1>3, <1>4, <1>5, LogGrows DEF SightInv, OthersKeepOff
  <1>7. \A T \in SUBSET Burns : T \cap VaultRoot' = T \cap VaultRoot
    BY <1>6
  <1>8. Batch(cur)' = Batch(cur) /\ Leaves' = Leaves
    BY <1>2 DEF Batch, Leaves
  <1>9. AssemblyInv'
    <2>1. pc = "simulate" \/ pc = "prove" \/ cont = "prove" => Batch(cur).members \subseteq Burns
      <3>1. pc = "simulate" \/ pc = "prove" \/ cont = "prove" => cur # 0
        BY DEF IInv, StageInv, AtRest, Verdict
      <3>2. QED
        BY <3>1, Staged DEF Batches
    <2>2. kept \subseteq Burns
      BY DEF IInv, TypeOK
    <2>3. Untouched(kept)' <=> Untouched(kept)
      BY <1>2, <1>7, <2>2 DEF Untouched
    <2>4. QED
      BY <1>2, <1>6, <1>7, <1>8, <2>1, <2>3 DEF SightInv, AssemblyInv
  <1>10. UnstoppedInv'
    <2>1. LandedNow' <=> LandedNow
      BY <1>2, <1>4, <1>5 DEF LandedNow, Landed
    <2>2. cur # 0 => Batch(cur).members \subseteq Burns
      BY Staged DEF Batches
    <2>3. Unstopped' <=> Unstopped
      BY <1>2 DEF Unstopped
    <2>4. Burns \cap VaultRoot' = Burns \cap VaultRoot
      BY <1>7
    <2>5. ASSUME cur # 0 PROVE Untouched(Batch(cur).members)' <=> Untouched(Batch(cur).members)
      BY <1>7, <1>8, <2>2, <2>5 DEF Untouched
    <2>6. QED
      BY <1>2, <1>8, <2>1, <2>3, <2>4, <2>5 DEF SightInv, UnstoppedInv
  <1>11. \A b \in ProvenOnes : Batch(b).leaves \cap e.nullifiers = {}
    <2>1. \A b \in ProvenOnes : Batch(b).leaves \subseteq Burns
      BY Known DEF ProvenOnes, Batches
    <2>2. QED
      BY <1>5, <1>6, <2>1
  <1>12. QED
    BY <1>1, <1>2, <1>3, <1>4, <1>5, <1>9, <1>10, <1>11, ChainFrame

-------------------------------------------------------------------------------
(* Only a stop starts a drain, and only a drain ends the loop.             *)
DrainInv == Unstopped => ~draining /\ pc # "drained"

LEMMA ModeKept ==
  ASSUME IInv, [Next]_vars
  PROVE  /\ UNCHANGED <<hasSubmitter, kinds>>
         /\ draining' = draining \/ draining' = FALSE \/ Fault("stop")
         /\ pc' # "drained" \/ pc' = pc \/ draining
  <1> DEFINE Kept == /\ UNCHANGED <<hasSubmitter, kinds>>
                     /\ draining' = draining \/ draining' = FALSE \/ Fault("stop")
                     /\ pc' # "drained" \/ pc' = pc \/ draining
  <1>1. CASE OrchestratorStep
    <2>1. ASSUME NEW b \in resume, Resume(b) PROVE Kept
      BY <2>1 DEF Resume, mode
    <2>2. CASE Drained \/ NothingDue \/ RecheckFails
      BY <2>2 DEF Drained, NothingDue, RecheckFails, mode
    <2>3. ASSUME NEW fetched \in Fetchable,
                 Recheck(fetched) \/ SyncForProof(fetched) \/ AllReleased(fetched)
          PROVE  Kept
      BY <2>3 DEF Recheck, SyncForProof, AllReleased, mode
    <2>4. ASSUME NEW fetched \in Fetchable, Overtaken(fetched) \/ ReadyToSubmit(fetched)
          PROVE  Kept
      BY <2>4 DEF Overtaken, ReadyToSubmit, RebaseOrFail, Fail, BackToLoop, mode, task
    <2>5. ASSUME NEW S \in SUBSET Burns,
                 Take(S) \/ Assemble(S) \/ ConfirmBatch(S) \/ Confirm(S)
          PROVE  Kept
      BY <2>5 DEF Take, Assemble, ConfirmBatch, Confirm, BackToLoop, mode
    <2>6. CASE SyncFailed \/ SimulationFailed \/ ProofFailed \/ SubmissionFailed \/ GiveUp
      BY <2>6 DEF SyncFailed, SimulationFailed, ProofFailed, SubmissionFailed, GiveUp, Fail, BackToLoop, mode
    <2>7. ASSUME NEW r \in Burns, Exclude(r) PROVE Kept
      BY <2>7 DEF Exclude, mode
    <2>8. CASE VerdictsApplied
      BY <2>8 DEF VerdictsApplied, Fail, BackToLoop, mode, IInv, TypeOK
    <2>9. CASE Prove \/ Broadcast \/ Submitted \/ Unconfirmed
      BY <2>9 DEF Prove, Broadcast, Submitted, Unconfirmed, BackToLoop, mode, task
    <2>10. CASE StaleRoot
      BY <2>10 DEF StaleRoot, RebaseOrFail, Fail, BackToLoop, mode
    <2>11. CASE DrainedExit
      BY <2>11 DEF DrainedExit, Restarts, BackToLoop
    <2>12. QED
      BY <1>1, <2>1, <2>2, <2>3, <2>4, <2>5, <2>6, <2>7, <2>8, <2>9, <2>10, <2>11 DEF OrchestratorStep
  <1>2. ASSUME NEW r \in Burns, Post(r) \/ TimePasses(r) PROVE Kept
    BY <1>2 DEF Post, TimePasses, mode
  <1>3. CASE StartDrain
    BY <1>3 DEF StartDrain
  <1>4. CASE Crash \/ Abandon
    BY <1>4 DEF Crash, Abandon, Restarts, BackToLoop
  <1>5. CASE \/ \E m \in mempool : Land(m)
             \/ \E m \in mempool : Dropped(m)
             \/ \E S \in ThirdParty : ThirdPartySettles(S)
             \/ \E b \in BatchIds(ledger) : SelfSettled(b)
    BY <1>5 DEF Land, Dropped, ThirdPartySettles, SelfSettled, mode
  <1>6. CASE UNCHANGED vars
    BY <1>6 DEF vars, mode
  <1>7. QED
    BY <1>1, <1>2, <1>3, <1>4, <1>5, <1>6 DEF Next

LEMMA NextDrainInv ==
  ASSUME IInv, DrainInv, [Next]_vars
  PROVE  DrainInv'
  <1>1. Unstopped' <=> Unstopped
    BY ModeKept DEF Unstopped
  <1>2. Unstopped => ~Fault("stop")
    BY DEF Unstopped, Stops, Fault, MayFail
  <1>3. QED
    BY <1>1, <1>2, ModeKept DEF DrainInv

LEMMA NextSightInv ==
  ASSUME OthersKeepOff, IInv, SightInv, Quiet, DrainInv, [Next]_vars
  PROVE  SightInv'
  <1>1. CASE OrchestratorStep
    <2>1. ASSUME NEW b \in resume, Resume(b) PROVE SightInv'
      BY <2>1, ResumeSight
    <2>2. CASE Drained \/ NothingDue \/ RecheckFails
      BY <2>2, DrainedSight, NothingDueSight, RecheckFailsSight
    <2>3. ASSUME NEW fetched \in Fetchable,
                 Recheck(fetched) \/ SyncForProof(fetched) \/ AllReleased(fetched)
                   \/ Overtaken(fetched) \/ ReadyToSubmit(fetched)
          PROVE  SightInv'
      BY <2>3, RecheckSight, SyncForProofSight, AllReleasedSight, RebasedSight, ReadyToSubmitSight
    <2>4. ASSUME NEW S \in SUBSET Burns,
                 Take(S) \/ Assemble(S) \/ ConfirmBatch(S) \/ Confirm(S)
          PROVE  SightInv'
      BY <2>4, TakeSight, AssembleSight, ConfirmBatchSight, ConfirmSight
    <2>5. CASE SyncFailed \/ SimulationFailed \/ ProofFailed \/ SubmissionFailed \/ GiveUp
      BY <2>5, SyncFailedSight, ProofStageFails, NothingLost
    <2>6. ASSUME NEW r \in Burns, Exclude(r) PROVE SightInv'
      BY <2>6, ExcludeSight
    <2>7. CASE Prove \/ VerdictsApplied \/ Broadcast \/ Submitted \/ StaleRoot \/ Unconfirmed
      BY <2>7, ProveSight, VerdictsAppliedSight, BroadcastSight, SubmittedSight, RebasedSight,
         NothingLost
    <2>8. CASE DrainedExit
      BY <2>8, RestartsSight DEF DrainedExit, DrainInv
    <2>9. QED
      BY <1>1, <2>1, <2>2, <2>3, <2>4, <2>5, <2>6, <2>7, <2>8 DEF OrchestratorStep
  <1>2. ASSUME NEW r \in Burns, Post(r) \/ TimePasses(r) PROVE SightInv'
    BY <1>2, PostSight, TimePassesSight
  <1>3. CASE StartDrain
    BY <1>3, UnchangedSight DEF StartDrain
  <1>4. CASE Crash \/ Abandon
    BY <1>4, NoOtherFaults, RestartsSight DEF Crash, Abandon
  <1>5. ASSUME NEW m \in mempool, Land(m) \/ Dropped(m) PROVE SightInv'
    BY <1>5, LandSight, NothingLost
  <1>6. ASSUME NEW S \in ThirdParty, ThirdPartySettles(S) PROVE SightInv'
    BY <1>6, ThirdPartySight
  <1>7. ~\E b \in BatchIds(ledger) : SelfSettled(b)
    BY NothingLost
  <1>8. CASE UNCHANGED vars
    BY <1>8, UnchangedSight DEF vars, mode
  <1>9. QED
    BY <1>1, <1>2, <1>3, <1>4, <1>5, <1>6, <1>7, <1>8 DEF Next

LEMMA InitSightInv == Init => DrainInv /\ SightInv
  <1> SUFFICES ASSUME Init PROVE DrainInv /\ SightInv
    OBVIOUS
  <1>1. /\ cur = 0 /\ pc = "next" /\ cont = "take" /\ draining = FALSE /\ resume = {}
        /\ mempool = {} /\ DOMAIN todo = {}
    BY DEF Init, None
  <1>2. LogEntries = {} /\ VaultRoot = {}
    BY DEF Init, LogEntries, VaultRoot
  <1>3. BatchIds(ledger) = {}
    BY DEF Init, EmptyLedger, BatchIds
  <1>4. Ended = {} /\ ProvenOnes = {} /\ InHand = {}
    BY <1>1, <1>3 DEF Ended, ProvenOnes, InHand
  <1>5. LogInv /\ SettledInv /\ ProvenInv /\ MempoolInv /\ MembersInv
    BY <1>1, <1>2, <1>4 DEF LogInv, SettledInv, ProvenInv, MempoolInv, MembersInv
  <1>6. ReceiptInv /\ AssemblyInv /\ AskedInv /\ UnstoppedInv
    BY <1>1, <1>2 DEF ReceiptInv, AssemblyInv, AskedInv, UnstoppedInv, Verdict
  <1>7. QED
    BY <1>1, <1>5, <1>6 DEF DrainInv, SightInv

LEMMA SightHolds ==
  ASSUME OthersKeepOff
  PROVE  Spec => [](IInv /\ DrainInv /\ (Quiet => SightInv))
  <1> DEFINE Inv == IInv /\ DrainInv /\ (Quiet => SightInv)
  <1>1. Init => Inv
    BY InitIInv, InitSightInv
  <1>2. Inv /\ [Next]_vars => Inv'
    <2> SUFFICES ASSUME Inv, [Next]_vars PROVE Inv'
      OBVIOUS
    <2>1. IInv' /\ DrainInv'
      BY NextIInv, NextDrainInv
    <2>2. Quiet' <=> Quiet
      <3>1. UNCHANGED <<hasSubmitter, kinds>>
        BY ModeKept
      <3>2. QED
        BY ONLY <3>1 DEF Quiet, InSight
    <2>3. QED
      BY <2>1, <2>2, NextSightInv
  <1>3. QED
    BY <1>1, <1>2, PTL DEF Spec

(* When nothing but interruptions goes wrong, and no stop comes together   *)
(* with a failed sync, every batch the ledger calls settled made exactly   *)
(* its transition of the vault: the service closes a batch on the receipt  *)
(* or the releases of its own bundle, never on those of another.           *)
THEOREM SettledBatchesAreTheVaultsHolds ==
  ASSUME OthersKeepOff
  PROVE  Spec => []SettledBatchesAreTheVaults
  <1>1. ASSUME Quiet => SightInv PROVE SettledBatchesAreTheVaults
    <2> SUFFICES ASSUME Quiet, NEW t \in SettledBatches(ledger)
                 PROVE  TransitionOf(t) \in LogTransitions
      BY DEF SettledBatchesAreTheVaults, Quiet, LogTransitions
    <2>1. PICK b \in Ended : t = Transition(Batch(b))
      BY DEF SettledBatches, Ended, Batch
    <2>2. TransitionOf(t) = BundleOf(b)
      BY <2>1 DEF TransitionOf, Transition, BundleOf
    <2>3. QED
      BY <1>1, <2>2 DEF SightInv, SettledInv
  <1>2. QED
    BY <1>1, SightHolds, PTL

(* And then its bundle released no return that the ledger does not call    *)
(* settled as well.                                                        *)
THEOREM MembersSettleTogetherHolds ==
  ASSUME OthersKeepOff
  PROVE  Spec => []MembersSettleTogether
  <1>1. ASSUME Quiet => SightInv PROVE MembersSettleTogether
    BY <1>1 DEF MembersSettleTogether, Quiet, SightInv, SettledInv, Ended, Batch
  <1>2. QED
    BY <1>1, SightHolds, PTL

-------------------------------------------------------------------------------
(* The life of a return                                                    *)

(* A member of the batch in hand is open: but for one with a bad lock,     *)
(* which may have been given up already, and one found released, which a   *)
(* confirmation settles before the batch is over.                          *)
Phase(r) == PhaseOf(ledger.returns[r])
HandInv ==
  \A b \in InHand : \A r \in Batch(b).members :
    IF r \in BadLock
    THEN Phase(r) \in {"open", "given_up"}
    ELSE Phase(r) = "open" \/ (HasConfirm /\ Phase(r) = "settled")

(* A member found released is asked about in the transaction that released *)
(* it, so a confirmation, where there is one, repeats what it said before. *)
NamedInv ==
  pc = "simulate" => \A r \in acc.spent \cap Batch(cur).members : ReleasedIn(r, acc.tx[r])
AskingInv ==
  pc = "confirm" => \A r \in DOMAIN asked :
    IF cont = "take"
    THEN Phase(r) = "open"
    ELSE r \in Batch(cur).members \ BadLock /\ ReleasedIn(r, asked[r])

(* No verdict to come changes what has ended.                              *)
Harmless(r, verdict) ==
  \/ verdict.kind = "invalid" /\ r \in BadLock /\ Phase(r) \in {"open", "given_up"}
  \/ /\ verdict.kind = "confirmed" /\ HasConfirm /\ Phase(r) \in {"open", "settled"}
     /\ cont # "take" => r \notin BadLock
  \/ verdict.kind = "unconfirmed" /\ Phase(r) = "open"
JudgedInv == \A r \in DOMAIN todo : Harmless(r, todo[r])

PhaseInv == HandInv /\ NamedInv /\ AskingInv /\ JudgedInv

(* What an event of the ledger does to the phases: returns that are open   *)
(* end, all in the same way.                                               *)
Turns(L, M, to) ==
  \A r \in Burns :
    \/ PhaseOf(M.returns[r]) = PhaseOf(L.returns[r])
    \/ PhaseOf(L.returns[r]) = "open" /\ PhaseOf(M.returns[r]) = to
SamePhases(L, M) == \A r \in Burns : PhaseOf(M.returns[r]) = PhaseOf(L.returns[r])

LEMMA Phases ==
  ASSUME NEW ret \in Returns
  PROVE  /\ PhaseOf(ret) = "unknown" <=> ret.status = "absent"
         /\ PhaseOf(ret) = "open" <=>
              ret.status \in {"queued", "proving", "proven", "submitted"} \/ FailedRecoverably(ret)
         /\ PhaseOf(ret) = "settled" <=> ret.status = "settled"
         /\ PhaseOf(ret) = "given_up" <=> ret.status = "failed" /\ ret.failure # "recoverable"
  <1>1. ret.status \in Statuses
    BY DEF Returns
  <1>2. QED
    BY <1>1 DEF PhaseOf, IsDone, FailedRecoverably, Statuses

LEMMA RetryPhases ==
  ASSUME NEW ret \in Returns
  PROVE  /\ ScheduleRetry(ret) \in Returns
         /\ PhaseOf(ScheduleRetry(ret)) \in {"open", "given_up"}
         /\ ScheduleAfterInterruption(ret) \in Returns
         /\ PhaseOf(ScheduleAfterInterruption(ret)) \in {"open", "given_up"}
         /\ RequeueAfterStop(ret) \in Returns
         /\ PhaseOf(RequeueAfterStop(ret)) = "open"
  <1>1. ret.attempts + 1 \in Nat
    BY DEF Returns
  <1>2. /\ ScheduleRetry(ret) \in Returns /\ ScheduleRetry(ret).status = "failed"
        /\ PhaseOf(ScheduleRetry(ret)) \in {"open", "given_up"}
    <2>1. ScheduleRetry(ret) \in Returns
      BY <1>1 DEF ScheduleRetry, Returns, Statuses, Failures
    <2>2. ScheduleRetry(ret).status = "failed"
      BY DEF ScheduleRetry, Returns
    <2>3. QED
      BY <2>1, <2>2, Phases DEF FailedRecoverably
  <1>3. /\ ScheduleAfterInterruption(ret) \in Returns
        /\ PhaseOf(ScheduleAfterInterruption(ret)) \in {"open", "given_up"}
    <2>1. CASE Parked(ret.attempts + 1)
      BY <1>2, <2>1 DEF ScheduleAfterInterruption
    <2>2. CASE ~Parked(ret.attempts + 1)
      <3> DEFINE next == [ret EXCEPT !.status = "queued", !.attempts = @ + 1, !.waiting = TRUE, !.failure = "none"]
      <3>1. ScheduleAfterInterruption(ret) = next
        BY <2>2 DEF ScheduleAfterInterruption
      <3>2. next \in Returns /\ next.status = "queued"
        BY <1>1 DEF Returns, Statuses, Failures
      <3>3. QED
        BY <3>1, <3>2, Phases
    <2>3. QED
      BY <2>1, <2>2
  <1>4. RequeueAfterStop(ret) \in Returns /\ RequeueAfterStop(ret).status = "queued"
    BY DEF RequeueAfterStop, Returns, Statuses, Failures
  <1>5. QED
    BY <1>2, <1>3, <1>4, Phases

LEMMA VerdictPhases ==
  ASSUME NEW ret \in Returns, NEW verdict \in Verdicts
  PROVE  /\ verdict.kind = "confirmed" => PhaseOf(Excluded(ret, verdict)) = "settled"
         /\ verdict.kind = "unconfirmed" => PhaseOf(Excluded(ret, verdict)) = "open"
         /\ verdict.kind = "invalid" => PhaseOf(Excluded(ret, verdict)) = "given_up"
  <1>1. ASSUME verdict.kind = "confirmed" PROVE PhaseOf(Excluded(ret, verdict)) = "settled"
    <2>1. Excluded(ret, verdict) = SettledBy(ret, verdict.tx)
      BY <1>1 DEF Excluded
    <2>2. SettledBy(ret, verdict.tx).status = "settled"
      BY DEF SettledBy, Returns
    <2>3. QED
      BY <2>1, <2>2 DEF PhaseOf, IsDone
  <1>2. ASSUME verdict.kind = "unconfirmed" PROVE PhaseOf(Excluded(ret, verdict)) = "open"
    <2>1. Excluded(ret, verdict) = AwaitConfirmation(ret)
      BY <1>2 DEF Excluded
    <2>2. AwaitConfirmation(ret).status = "submitted"
      BY DEF AwaitConfirmation, Returns
    <2>3. QED
      BY <2>1, <2>2 DEF PhaseOf, IsDone
  <1>3. ASSUME verdict.kind = "invalid" PROVE PhaseOf(Excluded(ret, verdict)) = "given_up"
    <2> DEFINE next == [ret EXCEPT !.status = "failed", !.failure = "terminal"]
    <2>1. Excluded(ret, verdict) = next
      BY <1>3 DEF Excluded
    <2>2. next.status = "failed" /\ next.failure = "terminal"
      BY DEF Returns
    <2>3. QED
      BY <2>1, <2>2 DEF PhaseOf, IsDone, FailedRecoverably
  <1>4. QED
    BY <1>1, <1>2, <1>3

(* The events that take a return from one stage of its work to the next.   *)
LEMMA WorkPhases ==
  ASSUME NEW L \in Ledgers
  PROVE  /\ \A S \in SUBSET DuePending(L) : SamePhases(L, BatchFormed(L, S))
         /\ \A b \in BatchIds(L) : \A leaves, rootOld :
               SamePhases(L, BatchProven(L, b, leaves, rootOld))
         /\ \A b \in BatchIds(L) : SamePhases(L, BatchRebased(L, b))
  <1>1. L.returns \in [Burns -> Returns]
    BY LedgerParts
  <1>2. ASSUME NEW S \in SUBSET DuePending(L), NEW r \in Burns
        PROVE  PhaseOf(BatchFormed(L, S).returns[r]) = PhaseOf(L.returns[r])
    <2> DEFINE ret == L.returns[r]
               next == [ret EXCEPT !.status = "proving", !.batch = Len(L.batches) + 1, !.failure = "none"]
    <2>1. CASE r \in S
      <3>1. IsPending(ret) /\ ret \in Returns
        BY <1>1, <2>1 DEF DuePending
      <3>2. PhaseOf(ret) = "open"
        BY <3>1, Phases DEF IsPending
      <3>3. BatchFormed(L, S).returns[r] = next
        BY <2>1, <3>1 DEF BatchFormed, ForReturns
      <3>4. next.status = "proving"
        BY <3>1 DEF Returns
      <3>5. PhaseOf(next) = "open"
        BY <3>4 DEF PhaseOf, IsDone
      <3>6. QED
        BY <3>2, <3>3, <3>5
    <2>2. CASE r \notin S
      BY <2>2 DEF BatchFormed, ForReturns
    <2>3. QED
      BY <2>1, <2>2
  <1>3. ASSUME NEW b \in BatchIds(L), NEW r \in MembersOf(L, b)
        PROVE  r \in Burns /\ L.returns[r] \in Returns /\ PhaseOf(L.returns[r]) = "open"
    <2>1. r \in Burns
      BY LedgerParts
    <2>2. L.returns[r] \in Returns /\ L.returns[r].status \in {"proving", "proven"}
      BY <1>1, <2>1 DEF MembersOf, InBatch
    <2>3. QED
      BY <2>1, <2>2, Phases
  <1>4. ASSUME NEW b \in BatchIds(L), NEW leaves, NEW rootOld, NEW r \in Burns
        PROVE  PhaseOf(BatchProven(L, b, leaves, rootOld).returns[r]) = PhaseOf(L.returns[r])
    <2> DEFINE next == [L.returns[r] EXCEPT !.status = "proven"]
    <2>1. CASE r \in MembersOf(L, b)
      <3>1. BatchProven(L, b, leaves, rootOld).returns[r] = next
        BY <2>1 DEF BatchProven, ForReturns
      <3>2. next.status = "proven"
        BY <1>3, <2>1 DEF Returns
      <3>3. PhaseOf(next) = "open"
        BY <3>2 DEF PhaseOf, IsDone
      <3>4. QED
        BY <1>3, <2>1, <3>1, <3>3
    <2>2. CASE r \notin MembersOf(L, b)
      BY <2>2 DEF BatchProven, ForReturns
    <2>3. QED
      BY <2>1, <2>2
  <1>5. ASSUME NEW b \in BatchIds(L), NEW r \in Burns
        PROVE  PhaseOf(BatchRebased(L, b).returns[r]) = PhaseOf(L.returns[r])
    <2> DEFINE next == [L.returns[r] EXCEPT !.status = "proving"]
    <2>1. CASE r \in MembersOf(L, b)
      <3>1. BatchRebased(L, b).returns[r] = next
        BY <2>1 DEF BatchRebased, ForReturns
      <3>2. next.status = "proving"
        BY <1>3, <2>1 DEF Returns
      <3>3. PhaseOf(next) = "open"
        BY <3>2 DEF PhaseOf, IsDone
      <3>4. QED
        BY <1>3, <2>1, <3>1, <3>3
    <2>2. CASE r \notin MembersOf(L, b)
      BY <2>2 DEF BatchRebased, ForReturns
    <2>3. QED
      BY <2>1, <2>2
  <1>6. QED
    BY <1>2, <1>4, <1>5 DEF SamePhases

(* The events that end returns.                                            *)
LEMMA EndPhases ==
  ASSUME NEW L \in Ledgers
  PROVE  /\ \A b \in BatchIds(L) : Turns(L, BatchFailed(L, b), "given_up")
         /\ \A b \in BatchIds(L) : \A tx : Turns(L, BatchSettled(L, b, tx), "settled")
         /\ Turns(L, Interrupted(L, FALSE), "given_up")
         /\ SamePhases(L, Interrupted(L, TRUE))
  <1>1. L.returns \in [Burns -> Returns]
    BY LedgerParts
  <1>2. ASSUME NEW b \in BatchIds(L), NEW r \in MembersOf(L, b)
        PROVE  r \in Burns /\ L.returns[r] \in Returns /\ PhaseOf(L.returns[r]) = "open"
    <2>1. r \in Burns
      BY LedgerParts
    <2>2. L.returns[r] \in Returns /\ L.returns[r].status \in {"proving", "proven"}
      BY <1>1, <2>1 DEF MembersOf, InBatch
    <2>3. QED
      BY <2>1, <2>2, Phases
  <1>3. ASSUME NEW b \in BatchIds(L), NEW r \in Burns
        PROVE  \/ BatchFailed(L, b).returns[r] = L.returns[r]
               \/ /\ PhaseOf(L.returns[r]) = "open"
                  /\ PhaseOf(BatchFailed(L, b).returns[r]) \in {"open", "given_up"}
    <2>1. CASE r \in MembersOf(L, b)
      <3>1. BatchFailed(L, b).returns[r] = ScheduleRetry(L.returns[r])
        BY <2>1 DEF BatchFailed, ForReturns
      <3>2. QED
        BY <1>2, <2>1, <3>1, RetryPhases
    <2>2. CASE r \notin MembersOf(L, b)
      BY <2>2 DEF BatchFailed, ForReturns
    <2>3. QED
      BY <2>1, <2>2
  <1>4. ASSUME NEW b \in BatchIds(L), NEW tx, NEW r \in Burns
        PROVE  \/ BatchSettled(L, b, tx).returns[r] = L.returns[r]
               \/ /\ PhaseOf(L.returns[r]) = "open"
                  /\ PhaseOf(BatchSettled(L, b, tx).returns[r]) = "settled"
    <2> DEFINE next == [L.returns[r] EXCEPT !.status = "settled", !.tx = tx]
    <2>1. CASE r \in MembersOf(L, b)
      <3>1. BatchSettled(L, b, tx).returns[r] = next
        BY <2>1 DEF BatchSettled, ForReturns
      <3>2. next.status = "settled"
        BY <1>2, <2>1 DEF Returns
      <3>3. PhaseOf(next) = "settled"
        BY <3>2 DEF PhaseOf, IsDone
      <3>4. QED
        BY <1>2, <2>1, <3>1, <3>3
    <2>2. CASE r \notin MembersOf(L, b)
      BY <2>2 DEF BatchSettled, ForReturns
    <2>3. QED
      BY <2>1, <2>2
  <1>5. ASSUME NEW orderly \in BOOLEAN, NEW r \in Burns
        PROVE  \/ Interrupted(L, orderly).returns[r] = L.returns[r]
               \/ /\ PhaseOf(L.returns[r]) = "open"
                  /\ PhaseOf(Interrupted(L, orderly).returns[r]) \in {"open", "given_up"}
                  /\ orderly => PhaseOf(Interrupted(L, orderly).returns[r]) = "open"
    <2> DEFINE cut == {q \in Burns : \E b \in ProvingBatches(L) :
                         q \in MembersOf(L, b) /\ L.returns[q].status = "proving"}
    <2>1. CASE r \in cut
      <3>1. L.returns[r] \in Returns /\ PhaseOf(L.returns[r]) = "open"
        BY <1>2, <2>1 DEF ProvingBatches
      <3>2. Interrupted(L, orderly).returns[r] =
              IF orderly THEN RequeueAfterStop(L.returns[r]) ELSE ScheduleAfterInterruption(L.returns[r])
        BY <2>1 DEF Interrupted, ForReturns
      <3>3. QED
        BY <3>1, <3>2, RetryPhases
    <2>2. CASE r \notin cut
      BY <2>2 DEF Interrupted, ForReturns
    <2>3. QED
      BY <2>1, <2>2
  <1>6. QED
    BY <1>3, <1>4, <1>5 DEF Turns, SamePhases

(* What a step may do to the returns: nothing that shows, or it ends some, *)
(* and gives up none while the task looks at the receipt of a settlement   *)
(* that landed.                                                            *)
Ending ==
  \E to \in {"settled", "given_up"} :
    /\ Turns(ledger, ledger', to)
    /\ to = "given_up" => ~Unstopped \/ ~LandedNow

LEMMA NothingEnds ==
  ASSUME SamePhases(ledger, ledger')
  PROVE  Ending
  BY DEF Ending, Turns, SamePhases

(* A step of the task that leaves the ledger alone, with no verdict to     *)
(* come.                                                                   *)
LEMMA IdlePhases ==
  ASSUME IInv, PhaseInv, UNCHANGED ledger, cur' = cur \/ cur' \in ProvenOnes,
         pc' \notin {"simulate", "confirm"}, DOMAIN todo' = {}
  PROVE  Ending /\ PhaseInv'
  <1>1. SamePhases(ledger, ledger')
    BY DEF SamePhases
  <1>2. InHand' \subseteq InHand /\ \A b : Batch(b)' = Batch(b)
    BY DEF InHand, ProvenOnes, BatchIds, Batch
  <1>3. \A r : Phase(r)' = Phase(r)
    BY DEF Phase
  <1>4. HandInv'
    BY <1>2, <1>3 DEF PhaseInv, HandInv
  <1>5. QED
    BY <1>1, <1>4, NothingEnds DEF PhaseInv, NamedInv, AskingInv, JudgedInv

(* After the end of a batch none is in hand.                               *)
LEMMA OverPhases ==
  ASSUME IInv, SightInv, cur # 0, BackToLoop,
         OneBatchChanged(ledger'.batches, ledger, cur, ledger'.batches[cur]),
         ledger'.batches[cur].status # "proven"
  PROVE  PhaseInv'
  <1>1. cur' = 0 /\ pc' = "next" /\ DOMAIN todo' = {}
    BY DEF BackToLoop, None
  <1>2. /\ BatchIds(ledger)' = BatchIds(ledger)
        /\ \A b \in BatchIds(ledger) \ {cur} : Batch(b)' = Batch(b)
    BY DEF OneBatchChanged, BatchIds, Batch
  <1>3. ProvenOnes' = {}
    <2>1. \A b \in ProvenOnes' : b = cur
      BY <1>2 DEF ProvenOnes, SightInv, ProvenInv
    <2>2. cur \notin ProvenOnes'
      BY DEF ProvenOnes, Batch
    <2>3. QED
      BY <2>1, <2>2
  <1>4. InHand' = {}
    BY <1>1, <1>3 DEF InHand
  <1>5. QED
    BY <1>1, <1>4 DEF PhaseInv, HandInv, NamedInv, AskingInv, JudgedInv

LEMMA FailPhases ==
  ASSUME IInv, SightInv, cur # 0, Fail, Unstopped => ~LandedNow
  PROVE  Ending /\ PhaseInv'
  <1>1. BackToLoop /\ ledger' = BatchFailed(ledger, cur)
    BY DEF Fail
  <1>2. /\ OneBatchChanged(ledger'.batches, ledger, cur, ledger'.batches[cur])
        /\ ledger'.batches[cur].status = "failed"
    BY <1>1, Staged, InFlight, BatchFailedInv
  <1>3. Turns(ledger, ledger', "given_up")
    BY <1>1, Known, EndPhases
  <1>4. QED
    BY <1>1, <1>2, <1>3, OverPhases DEF Ending

LEMMA RebasePhases ==
  ASSUME IInv, SightInv, PhaseInv, pc \in {"settle", "receipt"}, RebaseOrFail, Unstopped => ~LandedNow
  PROVE  Ending /\ PhaseInv'
  <1>1. ~AtRest /\ cur # 0 /\ cont = "take" /\ DOMAIN todo = {}
    BY ProvenInFlight DEF AtRest, IInv, StageInv, Verdict
  <1>2. CASE ledger.batches[cur].rebases < MaxRebases
    <2>1. /\ ledger' = BatchRebased(ledger, cur)
          /\ pc' = "sync" /\ cur' = cur /\ todo' = todo
      BY <1>1, <1>2 DEF RebaseOrFail
    <2>2. cur \in BatchIds(ledger) /\ ledger \in Ledgers
      BY <1>1, Known
    <2>3. SamePhases(ledger, ledger')
      BY <2>1, <2>2, WorkPhases
    <2>4. /\ OneBatchChanged(ledger'.batches, ledger, cur, ledger'.batches[cur])
          /\ ledger'.batches[cur].status = "proving"
      BY <1>1, <2>1, InFlight, BatchRebasedInv
    <2>5. ledger'.batches[cur].members = Batch(cur).members /\ Batch(cur).members \subseteq Burns
      <3>1. Batch(cur) \in Batches
        BY <2>2, Known
      <3>2. QED
        BY <2>1, <2>2, <3>1, RebasedFields DEF Batch, Batches
    <2>6. \A b \in ProvenOnes' : b = cur
      BY <1>1, <2>4 DEF OneBatchChanged, BatchIds, Batch, ProvenOnes, SightInv, ProvenInv
    <2>7. InHand' \subseteq {cur} /\ cur \in InHand
      BY <1>1, <2>1, <2>6 DEF InHand
    <2>8. \A r \in Batch(cur).members : Phase(r)' = Phase(r)
      BY <2>3, <2>5 DEF SamePhases, Phase
    <2>9. Batch(cur)'.members = Batch(cur).members
      BY <2>1, <2>5 DEF Batch
    <2>10. HandInv'
      <3> SUFFICES ASSUME NEW r \in Batch(cur)'.members
                   PROVE  IF r \in BadLock THEN Phase(r)' \in {"open", "given_up"}
                          ELSE Phase(r)' = "open" \/ (HasConfirm /\ Phase(r)' = "settled")
        BY <2>1, <2>7 DEF HandInv, Batch, Phase
      <3>1. r \in Batch(cur).members /\ Phase(r)' = Phase(r)
        BY <2>8, <2>9
      <3>2. QED
        BY <2>7, <3>1 DEF PhaseInv, HandInv
    <2>11. QED
      BY <1>1, <2>1, <2>3, <2>10, NothingEnds DEF PhaseInv, NamedInv, AskingInv, JudgedInv
  <1>3. CASE ~(ledger.batches[cur].rebases < MaxRebases)
    BY <1>1, <1>3, FailPhases DEF RebaseOrFail
  <1>4. QED
    BY <1>2, <1>3

(* A change to returns that were not held before, or to no phase at all.   *)
LEMMA HandFrame ==
  ASSUME IInv, PhaseInv, ledger'.batches = ledger.batches, cur' = cur \/ cur' \in ProvenOnes,
         \A r \in Burns : Phase(r) # "unknown" => Phase(r)' = Phase(r)
  PROVE  HandInv'
  <1>1. InHand' \subseteq InHand /\ \A b : Batch(b)' = Batch(b)
    BY DEF InHand, ProvenOnes, BatchIds, Batch
  <1>2. \A b \in InHand : Batch(b).members \subseteq Burns
    BY Known DEF InHand, ProvenOnes, Batches
  <1>3. \A b \in InHand : \A r \in Batch(b).members : Phase(r) # "unknown"
    BY DEF PhaseInv, HandInv
  <1>4. \A b \in InHand : \A r \in Batch(b).members : Phase(r)' = Phase(r)
    BY <1>2, <1>3
  <1>5. QED
    BY <1>1, <1>4 DEF PhaseInv, HandInv

LEMMA RecheckPhases ==
  ASSUME IInv, SightInv, PhaseInv,
         RecheckFails \/ \E fetched \in Fetchable : Recheck(fetched)
  PROVE  Ending /\ PhaseInv'
  <1>1. /\ \A r \in ReleasesDue(ledger) : r \in Burns /\ ledger.returns[r].status = "submitted"
        /\ ledger \in Ledgers /\ ledger.returns \in [Burns -> Returns]
    BY Known DEF ReleasesDue, Held, AwaitsConfirmation
  <1>2. \A r \in ReleasesDue(ledger) : Phase(r) = "open"
    BY <1>1, Phases DEF Phase
  <1>3. CASE RecheckFails
    <2>1. /\ pc' = "exclude" /\ UNCHANGED <<ledger, cur>>
          /\ todo' = [r \in ReleasesDue(ledger) |-> [kind |-> "unconfirmed", tx |-> NoTx]]
      BY <1>3 DEF RecheckFails
    <2>2. SamePhases(ledger, ledger') /\ \A r : Phase(r)' = Phase(r)
      BY <2>1 DEF SamePhases, Phase
    <2>3. HandInv'
      BY <2>1, <2>2, HandFrame
    <2>4. JudgedInv'
      BY <1>2, <2>1, <2>2 DEF JudgedInv, Harmless
    <2>5. QED
      BY <2>1, <2>2, <2>3, <2>4, NothingEnds DEF PhaseInv, NamedInv, AskingInv
  <1>4. ASSUME NEW fetched, Recheck(fetched) PROVE Ending /\ PhaseInv'
    <2> DEFINE a == Rebuilt(fetched)
               S == ReleasesDue(ledger) \ a.spent
    <2>1. /\ pc = "next" /\ ledger' = RequeueAll(ledger, S)
          /\ DOMAIN asked' = ReleasesDue(ledger) \cap a.spent
          /\ cont' = "take" /\ pc' = "confirm" /\ UNCHANGED <<cur, todo>>
      BY <1>4 DEF Recheck
    <2> HIDE DEF a
    <2>2. /\ ledger'.batches = ledger.batches
          /\ ledger'.returns = [r \in Burns |-> IF r \in S THEN Requeued(ledger, r).returns[r]
                                                          ELSE ledger.returns[r]]
      BY <1>1, <2>1 DEF RequeueAll, Ledgers
    <2>3. ASSUME NEW r \in S PROVE PhaseOf(Requeued(ledger, r).returns[r]) = "open"
      <3> DEFINE next == [ledger.returns[r] EXCEPT !.status = "queued", !.waiting = FALSE, !.failure = "none"]
      <3>1. Requeued(ledger, r) = [ledger EXCEPT !.returns[r] = next]
        BY <1>1, <2>3 DEF Requeued, AwaitsConfirmation
      <3>2. next.status = "queued" /\ next \in Returns
        BY <1>1, <2>3 DEF Returns, Statuses, Failures
      <3> HIDE DEF next
      <3>3. Requeued(ledger, r).returns[r] = next
        BY <1>1, <2>3, <3>1 DEF Ledgers
      <3>4. QED
        BY <3>2, <3>3, Phases
    <2>4. \A r \in Burns : PhaseOf(ledger'.returns[r]) = PhaseOf(ledger.returns[r])
      BY <1>2, <2>2, <2>3 DEF Phase
    <2>5. SamePhases(ledger, ledger') /\ \A r \in Burns : Phase(r)' = Phase(r)
      BY <2>4 DEF SamePhases, Phase
    <2>6. HandInv'
      BY <2>1, <2>2, <2>5, HandFrame
    <2>7. AskingInv'
      BY <1>1, <1>2, <2>1, <2>5 DEF AskingInv
    <2>8. DOMAIN todo' = {}
      BY <2>1 DEF SightInv, AskedInv, Verdict
    <2>9. QED
      BY <2>1, <2>5, <2>6, <2>7, <2>8, NothingEnds DEF PhaseInv, NamedInv, JudgedInv
  <1>5. QED
    BY <1>3, <1>4

LEMMA SyncForProofPhases ==
  ASSUME IInv, SightInv, PhaseInv, Quiet, NEW fetched, SyncForProof(fetched)
  PROVE  Ending /\ PhaseInv'
  <1>1. /\ pc = "sync" /\ Synced(fetched) /\ acc' = Rebuilt(fetched) /\ pc' = "simulate"
        /\ UNCHANGED <<ledger, cur, todo, vaultLog>>
    BY DEF SyncForProof, chain
  <1>2. cur # 0 /\ DOMAIN todo' = {} /\ ~LandedNow
    BY <1>1 DEF IInv, StageInv, SightInv, AskedInv, Verdict, AtRest, LandedNow
  <1>3. SamePhases(ledger, ledger') /\ \A r : Phase(r)' = Phase(r)
    BY <1>1 DEF SamePhases, Phase
  <1>4. HandInv'
    BY <1>1, <1>3, HandFrame
  <1>5. LogEntries' = LogEntries /\ Batch(cur)' = Batch(cur)
    BY <1>1, LogKept DEF Batch
  <1>6. acc'.spent \subseteq VaultRoot
    BY <1>1, SyncedRead
  <1>7. \A r \in acc'.spent \cap Batch(cur).members : ReleasedIn(r, acc'.tx[r])
    <2>1. CASE Unstopped
      BY <1>2, <1>6, <2>1 DEF SightInv, UnstoppedInv, Untouched
    <2>2. CASE ~Unstopped
      <3>1. fetched = LogEntries
        BY <1>1, <2>2, SyncedRead
      <3>2. \A r \in acc'.spent : \E e \in LogEntries : r \in e.nullifiers /\ acc'.tx[r] = e.tx
        BY <1>1, <1>6, <3>1, RebuiltNamesTx DEF SightInv
      <3>3. QED
        BY <3>2 DEF ReleasedIn
    <2>3. QED
      BY <2>1, <2>2
  <1>8. NamedInv'
    BY <1>1, <1>5, <1>7 DEF NamedInv, ReleasedIn
  <1>9. QED
    BY <1>1, <1>2, <1>3, <1>4, <1>8, NothingEnds DEF PhaseInv, AskingInv, JudgedInv

LEMMA AssemblePhases ==
  ASSUME IInv, SightInv, PhaseInv, Quiet, NEW rejected, Assemble(rejected)
  PROVE  Ending /\ PhaseInv'
  <1> DEFINE members == ledger.batches[cur].members
             setAside == members \cap BadLock
             released == (members \ setAside) \cap acc.spent
  <1>1. rejected = {}
    BY NoOtherFaults DEF Assemble
  <1>2. /\ pc = "simulate" /\ pc' = "confirm"
        /\ DOMAIN todo' = setAside /\ \A r \in setAside : todo'[r].kind = "invalid"
        /\ DOMAIN asked' = released /\ \A r \in released : asked'[r] = acc.tx[r]
        /\ cont' \in {"fail", "prove"}
        /\ UNCHANGED <<ledger, cur, vaultLog>>
    BY <1>1 DEF Assemble, chain
  <1>3. cur # 0 /\ cur \in InHand /\ members = Batch(cur).members
    BY <1>2 DEF IInv, StageInv, AtRest, Verdict, Batch, InHand
  <1>4. SamePhases(ledger, ledger') /\ \A r : Phase(r)' = Phase(r)
    BY <1>2 DEF SamePhases, Phase
  <1>5. HandInv'
    BY <1>2, <1>4, HandFrame
  <1>6. JudgedInv'
    <2>1. \A r \in setAside : r \in BadLock /\ Phase(r) \in {"open", "given_up"}
      BY <1>3 DEF PhaseInv, HandInv
    <2>2. QED
      BY <1>2, <1>4, <2>1 DEF JudgedInv, Harmless
  <1>7. AskingInv'
    <2>1. \A r \in released : r \in Batch(cur).members \ BadLock /\ ReleasedIn(r, acc.tx[r])
      BY <1>2, <1>3 DEF PhaseInv, NamedInv
    <2>2. LogEntries' = LogEntries /\ Batch(cur)' = Batch(cur)
      BY <1>2, LogKept DEF Batch
    <2>3. QED
      BY <1>2, <2>1, <2>2 DEF AskingInv, ReleasedIn
  <1>8. QED
    BY <1>2, <1>4, <1>5, <1>6, <1>7, NothingEnds DEF PhaseInv, NamedInv

LEMMA ConfirmPhases ==
  ASSUME IInv, SightInv, PhaseInv, Quiet, NEW confirmed, Confirm(confirmed)
  PROVE  Ending /\ PhaseInv'
  <1>1. /\ pc = "confirm" /\ pc' = "exclude"
        /\ DOMAIN todo' = DOMAIN todo \cup DOMAIN asked
        /\ \A r \in DOMAIN asked : todo'[r] = Answered(confirmed)[r]
        /\ \A r \in DOMAIN todo \ DOMAIN asked : todo'[r] = todo[r]
        /\ cont' = "take" <=> cont = "take"
        /\ UNCHANGED <<ledger, cur>>
        /\ confirmed = Confirmable
    BY NoOtherFaults DEF Confirm, Answers
  <1>2. SamePhases(ledger, ledger') /\ \A r : Phase(r)' = Phase(r)
    BY <1>1 DEF SamePhases, Phase
  <1>3. HandInv'
    BY <1>1, <1>2, HandFrame
  <1>4. ASSUME NEW r \in DOMAIN asked PROVE Harmless(r, todo'[r])
    <2>1. /\ todo'[r].kind = IF r \in confirmed THEN "confirmed" ELSE "unconfirmed"
          /\ r \in confirmed <=> HasConfirm /\ ReleasedIn(r, asked[r])
      BY <1>1 DEF Answered, Confirmable
    <2>2. CASE cont = "take"
      BY <1>1, <2>1, <2>2 DEF PhaseInv, AskingInv, Harmless
    <2>3. CASE cont # "take"
      <3>1. r \in Batch(cur).members \ BadLock /\ ReleasedIn(r, asked[r])
        BY <1>1, <2>3 DEF PhaseInv, AskingInv
      <3>2. cur \in InHand
        BY <1>1, <2>3 DEF IInv, StageInv, AtRest, Verdict, InHand
      <3>3. Phase(r) = "open" \/ (HasConfirm /\ Phase(r) = "settled")
        BY <3>1, <3>2 DEF PhaseInv, HandInv
      <3>4. QED
        BY <2>1, <3>1, <3>3 DEF Harmless
    <2>4. QED
      BY <2>2, <2>3
  <1>5. \A r \in DOMAIN todo' : Harmless(r, todo'[r])
    BY <1>1, <1>4 DEF PhaseInv, JudgedInv
  <1>6. JudgedInv'
    BY <1>1, <1>2, <1>5 DEF JudgedInv, Harmless
  <1>7. QED
    BY <1>1, <1>2, <1>3, <1>6, NothingEnds DEF PhaseInv, NamedInv, AskingInv

LEMMA ExcludePhases ==
  ASSUME IInv, SightInv, PhaseInv, Quiet, NEW r \in Burns, Exclude(r)
  PROVE  Ending /\ PhaseInv'
  <1>1. /\ pc = "exclude" /\ r \in DOMAIN todo
        /\ ledger' = ReturnExcluded(ledger, r, todo[r])
        /\ todo' = [q \in DOMAIN todo \ {r} |-> todo[q]]
        /\ UNCHANGED <<pc, cur, cont>>
    BY DEF Exclude
  <1>2. /\ ledger \in Ledgers /\ ledger.returns \in [Burns -> Returns] /\ ledger.returns[r] \in Returns
        /\ DOMAIN todo \subseteq Burns /\ todo[r] \in Verdicts
    BY <1>1, Known, TypeParts DEF IInv, TaskType
  <1>3. /\ ledger'.batches = ledger.batches
        /\ ledger'.returns[r] = Excluded(ledger.returns[r], todo[r])
        /\ \A q \in Burns \ {r} : ledger'.returns[q] = ledger.returns[q]
    <2>1. ledger' = [ledger EXCEPT !.returns =
                       [ledger.returns EXCEPT ![r] = Excluded(ledger.returns[r], todo[r])]]
      BY <1>1, <1>2 DEF ReturnExcluded, Ledgers
    <2>2. QED
      BY <1>2, <2>1 DEF Ledgers
  <1>4. Harmless(r, todo[r])
    BY <1>1 DEF PhaseInv, JudgedInv
  <1>5. /\ todo[r].kind = "confirmed" => Phase(r)' = "settled"
        /\ todo[r].kind = "unconfirmed" => Phase(r)' = "open"
        /\ todo[r].kind = "invalid" => Phase(r)' = "given_up"
    BY <1>2, <1>3, VerdictPhases DEF Phase
  <1>6. \A q \in Burns \ {r} : Phase(q)' = Phase(q) /\ PhaseOf(ledger'.returns[q]) = PhaseOf(ledger.returns[q])
    BY <1>3 DEF Phase
  <1>7. Ending
    <2>1. ~LandedNow
      BY <1>1 DEF LandedNow
    <2>2. \/ PhaseOf(ledger'.returns[r]) = PhaseOf(ledger.returns[r])
          \/ PhaseOf(ledger.returns[r]) = "open" /\ PhaseOf(ledger'.returns[r]) \in {"settled", "given_up"}
      BY <1>4, <1>5 DEF Harmless, Phase
    <2>3. PICK to \in {"settled", "given_up"} :
            \/ PhaseOf(ledger'.returns[r]) = PhaseOf(ledger.returns[r])
            \/ PhaseOf(ledger.returns[r]) = "open" /\ PhaseOf(ledger'.returns[r]) = to
      BY <2>2
    <2>4. Turns(ledger, ledger', to)
      BY <1>6, <2>3 DEF Turns
    <2>5. QED
      BY <2>1, <2>4 DEF Ending
  <1>8. HandInv'
    <2>1. InHand' = InHand /\ \A b : Batch(b)' = Batch(b)
      BY <1>1, <1>3 DEF InHand, ProvenOnes, BatchIds, Batch
    <2>2. \A b \in InHand : Batch(b).members \subseteq Burns
      BY Known DEF InHand, ProvenOnes, Batches
    <2>3. CASE cont = "take"
      <3>1. InHand = {}
        BY <1>1, <2>3, NothingInHand DEF Verdict
      <3>2. QED
        BY <2>1, <3>1 DEF HandInv
    <2>4. CASE cont # "take"
      <3> SUFFICES ASSUME NEW b \in InHand, NEW q \in Batch(b).members
                   PROVE  IF q \in BadLock THEN Phase(q)' \in {"open", "given_up"}
                          ELSE Phase(q)' = "open" \/ (HasConfirm /\ Phase(q)' = "settled")
        BY <2>1 DEF HandInv
      <3>1. CASE q = r
        BY <1>4, <1>5, <2>4, <3>1 DEF Harmless
      <3>2. CASE q # r
        BY <1>6, <2>2, <3>2 DEF PhaseInv, HandInv
      <3>3. QED
        BY <3>1, <3>2
    <2>5. QED
      BY <2>3, <2>4
  <1>9. JudgedInv'
    <2>1. \A q \in DOMAIN todo' : q \in DOMAIN todo /\ q \in Burns \ {r} /\ todo'[q] = todo[q]
      BY <1>1, <1>2
    <2>2. QED
      BY <1>1, <1>6, <2>1 DEF PhaseInv, JudgedInv, Harmless
  <1>10. QED
    BY <1>1, <1>7, <1>8, <1>9 DEF PhaseInv, NamedInv, AskingInv

LEMMA VerdictsAppliedPhases ==
  ASSUME IInv, SightInv, PhaseInv, VerdictsApplied
  PROVE  Ending /\ PhaseInv'
  <1>1. pc = "exclude" /\ todo = None
    BY DEF VerdictsApplied
  <1>2. CASE cont = "fail"
    <2>1. Fail /\ cur # 0
      BY <1>1, <1>2 DEF VerdictsApplied, IInv, StageInv, AtRest, Verdict
    <2>2. QED
      BY <1>1, <2>1, FailPhases DEF LandedNow
  <1>3. CASE cont # "fail"
    <2>1. pc' = cont /\ UNCHANGED <<ledger, cur, todo>> /\ cont \in {"take", "prove"}
      BY <1>1, <1>3 DEF VerdictsApplied, IInv, StageInv, TypeOK
    <2>2. DOMAIN todo' = {}
      BY <1>1, <2>1 DEF None
    <2>3. QED
      BY <2>1, <2>2, IdlePhases
  <1>4. QED
    BY <1>2, <1>3

LEMMA AllReleasedPhases ==
  ASSUME IInv, SightInv, PhaseInv, Quiet, NEW fetched, AllReleased(fetched)
  PROVE  Ending /\ PhaseInv'
  <1>1. /\ pc = "settle" /\ pc' = "confirm" /\ cont' = "released"
        /\ DOMAIN asked' = Leaves \cap MembersOf(ledger, cur)
        /\ UNCHANGED <<ledger, cur, todo, vaultLog>>
    BY DEF AllReleased, SightInv, ReceiptInv, chain
  <1>2. SamePhases(ledger, ledger') /\ \A r : Phase(r)' = Phase(r)
    BY <1>1 DEF SamePhases, Phase
  <1>3. HandInv'
    BY <1>1, <1>2, HandFrame
  <1>4. LogEntries' = LogEntries /\ Batch(cur)' = Batch(cur) /\ BundleOf(cur)' = BundleOf(cur)
    BY <1>1, LogKept DEF Batch, BundleOf
  <1>5. AskingInv'
    <2>1. \A r \in DOMAIN asked' : r \in Leaves /\ r \in Batch(cur).members \ BadLock
      BY <1>1, ProvenInFlight
    <2>2. \A r \in DOMAIN asked' : \E e \in LogEntries : TransitionOf(e) = BundleOf(cur) /\ asked'[r] = e.tx
      BY <1>1, <1>4, AllReleasedSight DEF SightInv, AskedInv
    <2>3. \A e : TransitionOf(e) = BundleOf(cur) => e.nullifiers = Leaves
      BY DEF TransitionOf, BundleOf, Leaves, Batch
    <2>4. \A r \in DOMAIN asked' : ReleasedIn(r, asked'[r])
      BY <2>1, <2>2, <2>3 DEF ReleasedIn
    <2>5. QED
      BY <1>1, <1>4, <2>1, <2>4 DEF AskingInv, ReleasedIn
  <1>6. DOMAIN todo' = {}
    BY <1>1, ProvenInFlight
  <1>7. QED
    BY <1>1, <1>2, <1>3, <1>5, <1>6, NothingEnds DEF PhaseInv, NamedInv, JudgedInv

LEMMA RebasedPhases ==
  ASSUME IInv, SightInv, PhaseInv, (\E fetched \in Fetchable : Overtaken(fetched)) \/ StaleRoot
  PROVE  Ending /\ PhaseInv'
  <1>1. CASE \E fetched \in Fetchable : Overtaken(fetched)
    <2>1. pc = "settle" /\ RebaseOrFail
      BY <1>1 DEF Overtaken, SightInv, ReceiptInv
    <2>2. QED
      BY <2>1, RebasePhases DEF LandedNow
  <1>2. CASE StaleRoot
    <2>1. pc = "receipt" /\ ~LandedNow /\ RebaseOrFail
      BY <1>2 DEF StaleRoot, LandedNow
    <2>2. QED
      BY <2>1, RebasePhases
  <1>3. QED
    BY <1>1, <1>2

LEMMA BatchFails ==
  ASSUME IInv, SightInv, SyncFailed \/ SimulationFailed \/ ProofFailed
  PROVE  Ending /\ PhaseInv'
  <1>1. pc \in {"sync", "settle", "simulate", "prove"} /\ Fail
    BY DEF SyncFailed, SimulationFailed, ProofFailed
  <1>2. cur # 0 /\ ~LandedNow
    BY <1>1 DEF IInv, StageInv, AtRest, Verdict, LandedNow
  <1>3. QED
    BY <1>1, <1>2, FailPhases

LEMMA WaitingPhases ==
  ASSUME IInv, SightInv, PhaseInv, Quiet,
         \/ \E b \in resume : Resume(b)
         \/ Drained \/ NothingDue \/ Broadcast
         \/ \E fetched \in Fetchable : ReadyToSubmit(fetched)
  PROVE  Ending /\ PhaseInv'
  <1>1. CASE \E b \in resume : Resume(b)
    <2>1. PICK b \in resume : Resume(b)
      BY <1>1
    <2>2. pc = "next" /\ cur' = b /\ pc' = "settle" /\ UNCHANGED <<ledger, todo>>
      BY <2>1 DEF Resume
    <2>3. b \in ProvenOnes /\ DOMAIN todo' = {}
      BY <2>2 DEF IInv, TypeOK, ResumeInv, ProvenOnes, Batch, SightInv, AskedInv, Verdict
    <2>4. QED
      BY <2>2, <2>3, IdlePhases
  <1>2. CASE Drained \/ NothingDue
    <2>1. /\ pc \in {"next", "take"} /\ pc' \in {"next", "drained"}
          /\ UNCHANGED <<ledger, cur, todo>>
      BY <1>2 DEF Drained, NothingDue, task
    <2>2. DOMAIN todo' = {}
      BY <2>1 DEF SightInv, AskedInv, Verdict
    <2>3. QED
      BY <2>1, <2>2, IdlePhases
  <1>3. CASE Broadcast
    <2>1. pc = "submit" /\ pc' = "receipt" /\ UNCHANGED <<ledger, cur, todo>>
      BY <1>3 DEF Broadcast
    <2>2. DOMAIN todo' = {}
      BY <2>1, ProvenInFlight
    <2>3. QED
      BY <2>1, <2>2, IdlePhases
  <1>4. CASE \E fetched \in Fetchable : ReadyToSubmit(fetched)
    <2>1. pc = "settle" /\ pc' = "submit" /\ UNCHANGED <<ledger, cur, todo>>
      BY <1>4, NoOtherFaults DEF ReadyToSubmit, task
    <2>2. DOMAIN todo' = {}
      BY <2>1, ProvenInFlight
    <2>3. QED
      BY <2>1, <2>2, IdlePhases
  <1>5. QED
    BY <1>1, <1>2, <1>3, <1>4

LEMMA SettlePhases ==
  ASSUME IInv, IInv', SightInv, Quiet,
         Submitted \/ \E confirmed \in SUBSET Burns : ConfirmBatch(confirmed)
  PROVE  Ending /\ PhaseInv'
  <1>1. /\ \E tx : ledger' = BatchSettled(ledger, cur, tx)
        /\ BackToLoop /\ UNCHANGED <<resume, mode>>
    BY DEF Submitted, ConfirmBatch
  <1>2. cur # 0
    BY DEF Submitted, ConfirmBatch, IInv, StageInv, AtRest, Verdict
  <1>3. Turns(ledger, ledger', "settled")
    BY <1>1, <1>2, Known, EndPhases
  <1>4. /\ cur' = 0 /\ pc' = "next" /\ DOMAIN todo' = {} /\ resume' = resume /\ hasSubmitter'
    BY <1>1, NoOtherFaults DEF BackToLoop, None, mode
  <1>5. resume = {}
    <2>1. resume \subseteq ProvenOnes /\ cur \notin resume
      BY DEF IInv, TypeOK, ResumeInv, ProvenOnes, Batch
    <2>2. QED
      BY <1>2, <2>1 DEF SightInv, ProvenInv
  <1>6. ProvenOnes' \subseteq resume' \cup {cur'}
    BY <1>4 DEF IInv, ResumeInv, ProofsNotForgotten, ProvenOnes, Batch, BatchIds
  <1>7. 0 \notin ProvenOnes'
    BY DEF ProvenOnes, BatchIds
  <1>8. InHand' = {}
    BY <1>4, <1>5, <1>6, <1>7 DEF InHand
  <1>9. QED
    BY <1>3, <1>4, <1>8 DEF Ending, PhaseInv, HandInv, NamedInv, AskingInv, JudgedInv

(* A batch is formed of returns that are open.                             *)
LEMMA TakePhases ==
  ASSUME IInv, SightInv, PhaseInv, Quiet, NEW S \in SUBSET Burns, Take(S)
  PROVE  Ending /\ PhaseInv'
  <1>0. PICK b : b = Len(ledger.batches) + 1
    OBVIOUS
  <1>1. /\ pc = "take" \/ (pc = "next" /\ resume = {})
        /\ S \in SUBSET DuePending(ledger)
        /\ ledger' = BatchFormed(ledger, S) /\ cur' = b /\ pc' = "sync" /\ todo' = todo
    BY <1>0 DEF Take, IsSelection
  <1>2. cur = 0 /\ resume = {} /\ DOMAIN todo = {}
    BY <1>1 DEF IInv, StageInv, ResumeInv, AtRest, Verdict, SightInv, AskedInv
  <1>3. LedgerInv(ledger, {}) /\ RecordsJust(ledger) /\ Len(ledger.batches) \in Nat /\ ledger \in Ledgers
        /\ ledger.returns \in [Burns -> Returns]
    BY <1>2, LedgerParts DEF IInv, LedgerInv, ProvingBatches, BatchIds
  <1>4. /\ BatchIds(ledger') = BatchIds(ledger) \cup {b}
        /\ \A c \in BatchIds(ledger) : ledger'.batches[c] = ledger.batches[c]
        /\ ledger'.batches[b].status = "proving"
    BY <1>0, <1>1, <1>3, BatchFormedInv
  <1>5. ledger'.batches[b].members = S
    BY <1>0, <1>1, <1>3, FormedFields
  <1>6. SamePhases(ledger, ledger')
    BY <1>1, <1>3, WorkPhases
  <1>7. \A r \in S : r \in Burns /\ Phase(r) = "open"
    BY <1>1, <1>3, Phases DEF DuePending, IsPending, Phase
  <1>8. \A r \in S : Phase(r)' = "open"
    BY <1>6, <1>7 DEF SamePhases, Phase
  <1>9. ProvenOnes = {}
    <2>1. ProvenOnes \subseteq resume \cup {cur}
      BY NoOtherFaults DEF IInv, ResumeInv, ProofsNotForgotten, ProvenOnes, Batch
    <2>2. QED
      BY <1>2, <2>1, Known DEF ProvenOnes
  <1>10. ProvenOnes' = {}
    <2>1. BatchIds(ledger)' = BatchIds(ledger')
      BY DEF BatchIds
    <2>2. QED
      BY <1>4, <1>9, <2>1 DEF ProvenOnes, Batch
  <1>11. HandInv'
    BY <1>1, <1>5, <1>8, <1>10 DEF HandInv, InHand, Batch
  <1>12. QED
    BY <1>1, <1>2, <1>6, <1>11, NothingEnds DEF PhaseInv, NamedInv, AskingInv, JudgedInv

LEMMA ProvePhases ==
  ASSUME IInv, SightInv, PhaseInv, Prove
  PROVE  Ending /\ PhaseInv'
  <1>1. /\ pc = "prove" /\ pc' = "settle"
        /\ ledger' = BatchProven(ledger, cur, kept, acc.spent)
        /\ UNCHANGED <<cur, todo>>
    BY DEF Prove
  <1>2. /\ ~AtRest /\ cont = "take" /\ cur # 0 /\ DOMAIN todo = {}
        /\ Batch(cur).status = "proving" /\ cur \in BatchIds(ledger) /\ ledger \in Ledgers
    BY <1>1, Staged, Known DEF IInv, StageInv, AtRest, Verdict, SightInv, AskedInv, Batch
  <1>3. /\ LedgerInv(ledger, {cur}) /\ RecordsJust(ledger)
        /\ kept \in SUBSET Burns /\ acc.spent \in Roots
        /\ MembersOf(ledger, cur) \subseteq kept
    BY <1>1, <1>2, InFlight DEF IInv, TypeOK, VerdictInv
  <1>4. OneBatchChanged(ledger'.batches, ledger, cur, ledger'.batches[cur])
    BY <1>1, <1>2, <1>3, BatchProvenInv
  <1>5. ledger'.batches[cur].members = Batch(cur).members /\ Batch(cur).members \subseteq Burns
    BY <1>1, <1>2, Known, ProvenFields DEF Batch, Batches
  <1>6. SamePhases(ledger, ledger')
    BY <1>1, <1>2, WorkPhases
  <1>7. \A r \in Batch(cur).members : Phase(r)' = Phase(r)
    BY <1>5, <1>6 DEF SamePhases, Phase
  <1>8. cur \in InHand /\ InHand' = {cur}
    <2>1. ProvenOnes = {}
      BY <1>2 DEF SightInv, ProvenInv, ProvenOnes
    <2>2. \A b \in ProvenOnes' : b = cur
      BY <1>4, <2>1 DEF OneBatchChanged, BatchIds, Batch, ProvenOnes
    <2>3. QED
      BY <1>1, <1>2, <2>2 DEF InHand
  <1>9. Batch(cur)'.members = Batch(cur).members
    BY <1>1, <1>5 DEF Batch
  <1>10. HandInv'
    <2>1. \A r \in Batch(cur).members :
            IF r \in BadLock THEN Phase(r) \in {"open", "given_up"}
            ELSE Phase(r) = "open" \/ (HasConfirm /\ Phase(r) = "settled")
      BY <1>8 DEF PhaseInv, HandInv
    <2>2. \A b \in InHand' : Batch(b)'.members = Batch(cur).members
      BY <1>1, <1>8, <1>9 DEF Batch
    <2>3. QED
      BY <1>7, <2>1, <2>2 DEF HandInv
  <1>11. QED
    BY <1>1, <1>2, <1>6, <1>10, NothingEnds DEF PhaseInv, NamedInv, AskingInv, JudgedInv

LEMMA RestartsPhases ==
  ASSUME IInv, SightInv, PhaseInv, ~Unstopped,
         Restarts(ledger) \/ Restarts(Interrupted(ledger, TRUE))
  PROVE  Ending /\ PhaseInv'
  <1>1. /\ BackToLoop
        /\ ledger' = Interrupted(ledger, FALSE) \/ ledger' = Interrupted(Interrupted(ledger, TRUE), FALSE)
    BY DEF Restarts
  <1>2. cur' = 0 /\ pc' = "next" /\ DOMAIN todo' = {}
    BY <1>1 DEF BackToLoop, None
  <1>3. ledger \in Ledgers
    BY Known
  <1>4. Turns(ledger, ledger', "given_up")
    <2>1. CASE ledger' = Interrupted(ledger, FALSE)
      BY <1>3, <2>1, EndPhases
    <2>2. CASE ledger' = Interrupted(Interrupted(ledger, TRUE), FALSE)
      <3> DEFINE K == Interrupted(ledger, TRUE)
      <3>1. K \in Ledgers /\ SamePhases(ledger, K)
        BY <1>3, EndPhases, InterruptedInv DEF IInv, LedgerInv
      <3> HIDE DEF K
      <3>2. Turns(K, ledger', "given_up")
        BY <2>2, <3>1, EndPhases DEF K
      <3>3. QED
        BY <3>1, <3>2 DEF Turns, SamePhases
    <2>3. QED
      BY <1>1, <2>1, <2>2
  <1>5. /\ BatchIds(ledger)' = BatchIds(ledger)
        /\ \A b \in BatchIds(ledger) : Batch(b)' = Batch(b) \/ Batch(b)'.status = "interrupted"
        /\ \A r \in Burns : ledger.returns[r].status # "proving" => Phase(r)' = Phase(r)
    <2>1. BatchIds(ledger)' = BatchIds(ledger')
      BY DEF BatchIds
    <2>2. QED
      BY <1>1, <2>1, CutShort DEF Batch, Phase
  <1>6. InHand' \subseteq ProvenOnes /\ \A b \in InHand' : Batch(b)' = Batch(b)
    BY <1>2, <1>5 DEF InHand, ProvenOnes
  <1>7. ASSUME NEW b \in ProvenOnes, NEW r \in Batch(b).members
        PROVE  r \in Burns /\ ledger.returns[r].status # "proving"
    <2>1. r \in Burns /\ b \in BatchIds(ledger) /\ Batch(b).status = "proven"
      BY Known DEF ProvenOnes, Batches
    <2>2. ASSUME ledger.returns[r].status = "proving" PROVE FALSE
      <3> DEFINE c == ledger.returns[r].batch
      <3>1. c \in ProvingBatches(ledger)
        BY <2>1, <2>2 DEF IInv, LedgerInv, MembersPlaced, ProvingBatches
      <3>2. cur = c /\ cur # 0
        BY <3>1, Known DEF IInv, LedgerInv, ProvingBatches
      <3>3. b = cur
        BY <3>2 DEF SightInv, ProvenInv
      <3>4. QED
        BY <2>1, <3>1, <3>2, <3>3 DEF ProvingBatches, Batch
    <2>3. QED
      BY <2>1, <2>2
  <1>8. HandInv'
    BY <1>5, <1>6, <1>7 DEF PhaseInv, HandInv, InHand
  <1>9. QED
    BY <1>2, <1>4, <1>8 DEF Ending, PhaseInv, NamedInv, AskingInv, JudgedInv

(* What goes on beside the task.                                           *)
LEMMA BesideFrame ==
  ASSUME IInv, PhaseInv, ledger'.batches = ledger.batches, UNCHANGED <<pc, task>>,
         LogEntries \subseteq LogEntries',
         \A r \in Burns : Phase(r) # "unknown" => Phase(r)' = Phase(r)
  PROVE  PhaseInv'
  <1>1. UNCHANGED <<pc, cur, acc, asked, todo, cont>>
    BY DEF task
  <1>2. HandInv'
    BY <1>1, HandFrame
  <1>3. Batch(cur)' = Batch(cur) /\ \A r, tx : ReleasedIn(r, tx) => ReleasedIn(r, tx)'
    BY <1>1 DEF Batch, ReleasedIn
  <1>4. NamedInv'
    BY <1>1, <1>3 DEF PhaseInv, NamedInv
  <1>5. DOMAIN asked \subseteq Burns /\ DOMAIN todo \subseteq Burns
    BY TypeParts DEF IInv, TaskType
  <1>6. AskingInv'
    BY <1>1, <1>3, <1>5 DEF PhaseInv, AskingInv
  <1>7. JudgedInv'
    <2>1. \A r \in DOMAIN todo : Phase(r)' = Phase(r)
      BY <1>5 DEF PhaseInv, JudgedInv, Harmless
    <2>2. QED
      BY <1>1, <2>1 DEF PhaseInv, JudgedInv, Harmless
  <1>8. QED
    BY <1>2, <1>4, <1>6, <1>7 DEF PhaseInv

LEMMA PostPhases ==
  ASSUME IInv, PhaseInv, NEW r \in Burns, Post(r)
  PROVE  /\ PhaseInv'
         /\ Phase(r) \in {"unknown", "open"} /\ Phase(r)' = "open"
         /\ \A q \in Burns \ {r} : Phase(q)' = Phase(q)
  <1>1. UNCHANGED <<pc, task, vaultLog>>
    BY DEF Post, chain
  <1>2. ledger \in Ledgers /\ ledger.returns \in [Burns -> Returns]
    BY Known
  <1>3. Phase(r) \in {"unknown", "open"}
    BY <1>2, Phases DEF Post, Held, Phase
  <1>4. PICK ret \in Returns : ret.status = "queued" /\ ledger' = [ledger EXCEPT !.returns[r] = ret]
    BY PostedRecord
  <1>5. /\ ledger'.batches = ledger.batches /\ ledger'.returns[r] = ret
        /\ \A q \in Burns \ {r} : ledger'.returns[q] = ledger.returns[q]
    BY <1>2, <1>4 DEF Ledgers
  <1>6. Phase(r)' = "open" /\ \A q \in Burns \ {r} : Phase(q)' = Phase(q)
    BY <1>4, <1>5, Phases DEF Phase
  <1>7. \A q \in Burns : Phase(q) # "unknown" => Phase(q)' = Phase(q)
    BY <1>3, <1>6
  <1>8. QED
    BY <1>1, <1>3, <1>5, <1>6, <1>7, LogKept, BesideFrame

LEMMA TimePassesPhases ==
  ASSUME IInv, PhaseInv, NEW r \in Burns, TimePasses(r)
  PROVE  Ending /\ PhaseInv'
  <1> DEFINE ret == [ledger.returns[r] EXCEPT !.waiting = FALSE]
  <1>1. UNCHANGED <<pc, task, vaultLog>> /\ ledger' = [ledger EXCEPT !.returns[r].waiting = FALSE]
    BY DEF TimePasses, chain
  <1>2. ledger \in Ledgers /\ ledger.returns \in [Burns -> Returns]
    BY Known
  <1>3. ledger' = [ledger EXCEPT !.returns[r] = ret]
    BY <1>1
  <1>4. PhaseOf(ret) = PhaseOf(ledger.returns[r])
    BY <1>2 DEF Returns, PhaseOf, IsDone, FailedRecoverably
  <1> HIDE DEF ret
  <1>5. /\ ledger'.batches = ledger.batches /\ ledger'.returns[r] = ret
        /\ \A q \in Burns \ {r} : ledger'.returns[q] = ledger.returns[q]
    BY <1>2, <1>3 DEF Ledgers
  <1>6. SamePhases(ledger, ledger') /\ \A q \in Burns : Phase(q)' = Phase(q)
    BY <1>4, <1>5 DEF SamePhases, Phase
  <1>7. QED
    BY <1>1, <1>5, <1>6, LogKept, BesideFrame, NothingEnds

LEMMA OtherPhases ==
  ASSUME IInv, PhaseInv, UNCHANGED <<ledger, pc, task>>, LogEntries \subseteq LogEntries'
  PROVE  Ending /\ PhaseInv'
  <1>1. SamePhases(ledger, ledger') /\ \A r \in Burns : Phase(r)' = Phase(r)
    BY DEF SamePhases, Phase
  <1>2. QED
    BY <1>1, BesideFrame, NothingEnds

(* A step seen by a client: returns end, or one is accepted, or the vault  *)
(* releases some, or nothing shows.                                        *)
Accepting ==
  \E r \in Burns :
    /\ Phase(r) = "unknown" /\ Phase(r)' = "open"
    /\ \A q \in Burns \ {r} : Phase(q)' = Phase(q)
LifeStep ==
  \/ (Ending \/ Accepting) /\ UNCHANGED vaultLog
  \/ SamePhases(ledger, ledger') /\ VaultRoot \subseteq VaultRoot'

LEMMA NextPhases ==
  ASSUME OthersKeepOff, IInv, SightInv, PhaseInv, Quiet, DrainInv, [Next]_vars
  PROVE  PhaseInv' /\ LifeStep
  <1>0. IInv'
    BY NextIInv
  <1>1. CASE OrchestratorStep
    <2>1. Ending /\ PhaseInv'
      <3>1. CASE RecheckFails \/ \E fetched \in Fetchable : Recheck(fetched)
        BY <3>1, RecheckPhases
      <3>2. ASSUME NEW fetched \in Fetchable, SyncForProof(fetched) \/ AllReleased(fetched)
            PROVE  Ending /\ PhaseInv'
        BY <3>2, SyncForProofPhases, AllReleasedPhases
      <3>3. ASSUME NEW S \in SUBSET Burns, Take(S) \/ Assemble(S) \/ Confirm(S)
            PROVE  Ending /\ PhaseInv'
        BY <3>3, TakePhases, AssemblePhases, ConfirmPhases
      <3>4. CASE Submitted \/ \E confirmed \in SUBSET Burns : ConfirmBatch(confirmed)
        BY <1>0, <3>4, SettlePhases
      <3>5. CASE SyncFailed \/ SimulationFailed \/ ProofFailed
        BY <3>5, BatchFails
      <3>6. CASE SubmissionFailed \/ Unconfirmed \/ GiveUp
        BY <3>6, NothingLost
      <3>7. ASSUME NEW r \in Burns, Exclude(r) PROVE Ending /\ PhaseInv'
        BY <3>7, ExcludePhases
      <3>8. CASE Prove \/ VerdictsApplied
        BY <3>8, ProvePhases, VerdictsAppliedPhases
      <3>9. CASE StaleRoot \/ \E fetched \in Fetchable : Overtaken(fetched)
        BY <3>9, RebasedPhases
      <3>10. CASE \/ \E b \in resume : Resume(b)
                  \/ Drained \/ NothingDue \/ Broadcast
                  \/ \E fetched \in Fetchable : ReadyToSubmit(fetched)
        BY <3>10, WaitingPhases
      <3>11. CASE DrainedExit
        BY <3>11, RestartsPhases DEF DrainedExit, DrainInv
      <3>12. QED
        BY <1>1, <3>1, <3>2, <3>3, <3>4, <3>5, <3>6, <3>7, <3>8, <3>9, <3>10, <3>11
           DEF OrchestratorStep
    <2>2. UNCHANGED vaultLog
      BY <1>1 DEF OrchestratorStep, Resume, Drained, RecheckFails, Recheck, Take, NothingDue,
         SyncForProof, SyncFailed, Assemble, SimulationFailed, Prove, ProofFailed, ConfirmBatch,
         Confirm, Exclude, VerdictsApplied, AllReleased, Overtaken, ReadyToSubmit, Broadcast,
         SubmissionFailed, Submitted, StaleRoot, Unconfirmed, GiveUp, DrainedExit, Restarts, chain
    <2>3. QED
      BY <2>1, <2>2 DEF LifeStep
  <1>2. ASSUME NEW r \in Burns, Post(r) PROVE PhaseInv' /\ LifeStep
    <2>1. /\ PhaseInv'
          /\ Phase(r) \in {"unknown", "open"} /\ Phase(r)' = "open"
          /\ \A q \in Burns \ {r} : Phase(q)' = Phase(q)
      BY <1>2, PostPhases
    <2>2. UNCHANGED vaultLog
      BY <1>2 DEF Post, chain
    <2>3. CASE Phase(r) = "unknown"
      BY <2>1, <2>2, <2>3 DEF LifeStep, Accepting
    <2>4. CASE Phase(r) = "open"
      <3>1. SamePhases(ledger, ledger')
        BY <2>1, <2>4 DEF SamePhases, Phase
      <3>2. QED
        BY <2>1, <2>2, <3>1, NothingEnds DEF LifeStep
    <2>5. QED
      BY <2>1, <2>3, <2>4
  <1>3. ASSUME NEW r \in Burns, TimePasses(r) PROVE PhaseInv' /\ LifeStep
    BY <1>3, TimePassesPhases DEF LifeStep, TimePasses, chain
  <1>4. CASE StartDrain \/ UNCHANGED vars
    <2>1. UNCHANGED <<ledger, pc, task, vaultLog>>
      BY <1>4 DEF StartDrain, vars, chain
    <2>2. QED
      BY <2>1, LogKept, OtherPhases DEF LifeStep
  <1>5. CASE Crash \/ Abandon
    <2>1. Ending /\ PhaseInv'
      BY <1>5, NoOtherFaults, RestartsPhases DEF Crash, Abandon
    <2>2. UNCHANGED vaultLog
      BY <1>5 DEF Crash, Abandon, Restarts, chain
    <2>3. QED
      BY <2>1, <2>2 DEF LifeStep
  <1>6. ASSUME NEW m \in mempool, Land(m) \/ Dropped(m) PROVE PhaseInv' /\ LifeStep
    <2>1. Land(m) /\ UNCHANGED <<ledger, pc, task>>
      BY <1>6, NothingLost DEF Land
    <2>2. m.tx \in Nat /\ m.nullifiers \in Roots
      BY Known DEF Entries
    <2>3. LogEntries \subseteq LogEntries'
      BY <2>1, <2>2, SettlesFacts DEF Land
    <2>4. QED
      BY <2>1, <2>3, OtherPhases DEF LifeStep, SamePhases, VaultRoot
  <1>7. ASSUME NEW S \in ThirdParty, ThirdPartySettles(S) PROVE PhaseInv' /\ LifeStep
    <2>1. S \in Roots /\ nextTx \in Nat
      BY ServiceAssumption DEF IInv, TypeOK
    <2>2. LogEntries \subseteq LogEntries' /\ UNCHANGED <<ledger, pc, task>>
      BY <1>7, <2>1, SettlesFacts DEF ThirdPartySettles
    <2>3. QED
      BY <2>2, OtherPhases DEF LifeStep, SamePhases, VaultRoot
  <1>8. ~\E b \in BatchIds(ledger) : SelfSettled(b)
    BY NothingLost
  <1>9. QED
    BY <1>1, <1>2, <1>3, <1>4, <1>5, <1>6, <1>7, <1>8 DEF Next

(* Where the service is not stopped either, what was released is settled,  *)
(* or about to be.                                                         *)
LEMMA TrackedMeans ==
  ASSUME hasSubmitter, kinds \subseteq Interruptions \ Stops
  PROVE  Unstopped
  BY DEF Unstopped

LEMMA StepOfLife ==
  ASSUME IInv, IInv', SightInv, UNCHANGED <<hasSubmitter, kinds>>, LifeStep
  PROVE  [Lifecycle!Next]_(Lifecycle!vars)
  <1> DEFINE phase == [r \in Burns |-> PhaseOf(ledger.returns[r])]
             released == VaultRoot \cap Burns
             tracked == hasSubmitter /\ kinds \subseteq Interruptions \ Stops
  <1>1. UNCHANGED tracked
    OBVIOUS
  <1>2. phase' = [r \in Burns |-> PhaseOf(ledger'.returns[r])]
    OBVIOUS
  <1>3. ASSUME SamePhases(ledger, ledger') PROVE UNCHANGED phase
    BY <1>3 DEF SamePhases
  <1>4. ASSUME UNCHANGED vaultLog PROVE UNCHANGED released
    BY <1>4, LogKept
  <1>5. CASE Ending /\ UNCHANGED vaultLog
    <2>1. PICK to \in {"settled", "given_up"} :
            /\ Turns(ledger, ledger', to)
            /\ to = "given_up" => ~Unstopped \/ ~LandedNow
      BY <1>5 DEF Ending
    <2> DEFINE R == {r \in Burns : PhaseOf(ledger'.returns[r]) # PhaseOf(ledger.returns[r])}
    <2>2. CASE R = {}
      <3>1. SamePhases(ledger, ledger')
        BY <2>2 DEF SamePhases
      <3>2. QED
        BY <1>1, <1>3, <1>4, <1>5, <3>1 DEF Lifecycle!vars
    <2>3. CASE R # {}
      <3>1. \A r \in R : phase[r] = "open" /\ PhaseOf(ledger'.returns[r]) = to
        BY <2>1 DEF Turns
      <3>2. phase' = [r \in Burns |-> IF r \in R THEN to ELSE phase[r]]
        BY <1>2, <3>1
      <3>3. Lifecycle!Move(R, "open", to)
        BY <1>1, <1>4, <1>5, <2>3, <3>1, <3>2 DEF Lifecycle!Move
      <3>4. CASE to = "settled"
        <4>1. ASSUME NEW r \in R PROVE r \in released
          <5>1. PhaseOf(ledger'.returns[r]) = "settled" /\ r \in Burns
            BY <3>1, <3>4, <4>1
          <5>2. ledger'.returns[r].status = "settled"
            BY <5>1 DEF PhaseOf
          <5>3. \E tx : ReleasedIn(r, tx)'
            BY <5>1, <5>2 DEF IInv, RecordsJust, RecordJust, SettledJustly
          <5>4. r \in VaultRoot'
            BY <5>3 DEF ReleasedIn, VaultRoot
          <5>5. QED
            BY <1>5, <5>1, <5>4, LogKept
        <4>2. Lifecycle!Settle(R)
          BY <3>3, <3>4, <4>1 DEF Lifecycle!Settle, Lifecycle!Open, Lifecycle!Settled
        <4>3. QED
          BY <4>2 DEF Lifecycle!Next
      <3>5. CASE to = "given_up"
        <4>1. ASSUME tracked, NEW r \in R \cap VaultRoot PROVE FALSE
          <5>1. Unstopped /\ ~LandedNow
            BY <2>1, <3>5, <4>1, TrackedMeans
          <5>2. ledger.returns[r].status = "settled"
            BY <4>1, <5>1 DEF SightInv, UnstoppedInv
          <5>3. PhaseOf(ledger.returns[r]) = "open"
            BY <3>1
          <5>4. QED
            BY <5>2, <5>3 DEF PhaseOf, IsDone
        <4>2. tracked => R \cap released = {}
          BY <4>1
        <4>3. Lifecycle!GiveUp(R)
          BY <3>3, <3>5, <4>2 DEF Lifecycle!GiveUp, Lifecycle!Open, Lifecycle!GivenUp
        <4>4. QED
          BY <4>3 DEF Lifecycle!Next
      <3>6. QED
        BY <3>4, <3>5
    <2>4. QED
      BY <2>2, <2>3
  <1>6. CASE Accepting /\ UNCHANGED vaultLog
    <2>1. PICK r \in Burns :
            /\ Phase(r) = "unknown" /\ Phase(r)' = "open"
            /\ \A q \in Burns \ {r} : Phase(q)' = Phase(q)
      BY <1>6 DEF Accepting
    <2>2. phase' = [q \in Burns |-> IF q \in {r} THEN "open" ELSE phase[q]]
      BY <1>2, <2>1 DEF Phase
    <2>3. phase[r] = "unknown"
      BY <2>1 DEF Phase
    <2>4. Lifecycle!Accept(r)
      BY <1>1, <1>4, <1>6, <2>2, <2>3
         DEF Lifecycle!Accept, Lifecycle!Move, Lifecycle!Unknown, Lifecycle!Open
    <2>5. QED
      BY <2>4 DEF Lifecycle!Next
  <1>7. CASE SamePhases(ledger, ledger') /\ VaultRoot \subseteq VaultRoot'
    <2> DEFINE R == released' \ released
    <2>1. UNCHANGED phase
      BY <1>3, <1>7
    <2>2. released' = released \cup R /\ R \cap released = {} /\ R \subseteq Burns
      BY <1>7
    <2>3. CASE R = {}
      BY <1>1, <2>1, <2>2, <2>3 DEF Lifecycle!vars
    <2>4. CASE R # {}
      <3>1. Lifecycle!Release(R)
        BY <1>1, <2>1, <2>2, <2>4 DEF Lifecycle!Release
      <3>2. QED
        BY <2>2, <3>1 DEF Lifecycle!Next
    <2>5. QED
      BY <2>3, <2>4
  <1>8. QED
    BY <1>5, <1>6, <1>7 DEF LifeStep

LEMMA InitPhases == Init => PhaseInv /\ Lifecycle!Init
  <1> SUFFICES ASSUME Init PROVE PhaseInv /\ Lifecycle!Init
    OBVIOUS
  <1>1. cur = 0 /\ pc = "next" /\ DOMAIN todo = {} /\ hasSubmitter \in BOOLEAN
    BY ServiceAssumption DEF Init, None
  <1>2. BatchIds(ledger) = {}
    BY DEF Init, EmptyLedger, BatchIds
  <1>3. InHand = {}
    BY <1>1, <1>2 DEF InHand, ProvenOnes
  <1>4. PhaseInv
    BY <1>1, <1>3 DEF PhaseInv, HandInv, NamedInv, AskingInv, JudgedInv
  <1>5. VaultRoot \cap Burns = {}
    BY DEF Init, LogEntries, VaultRoot
  <1>6. ASSUME NEW r \in Burns PROVE PhaseOf(ledger.returns[r]) = "unknown"
    <2>1. ledger.returns[r] = Unknown
      BY DEF Init, EmptyLedger
    <2>2. ledger.returns[r].status = "absent"
      BY <2>1 DEF Unknown
    <2>3. QED
      BY <2>2 DEF PhaseOf, IsDone
  <1>7. (hasSubmitter /\ kinds \subseteq Interruptions \ Stops) \in BOOLEAN
    OBVIOUS
  <1>8. Lifecycle!Init
    BY <1>5, <1>6, <1>7 DEF Lifecycle!Init, Lifecycle!Unknown
  <1>9. QED
    BY <1>4, <1>8

QuietInv == IInv /\ DrainInv /\ Quiet /\ SightInv /\ PhaseInv

LEMMA QuietSteps ==
  ASSUME OthersKeepOff, QuietInv, [Next]_vars
  PROVE  QuietInv' /\ LifeStep /\ UNCHANGED <<hasSubmitter, kinds>>
  <1>1. UNCHANGED <<hasSubmitter, kinds>>
    BY ModeKept DEF QuietInv
  <1>2. Quiet' <=> Quiet
    BY ONLY <1>1 DEF Quiet, InSight
  <1>3. IInv' /\ DrainInv' /\ SightInv'
    BY NextIInv, NextDrainInv, NextSightInv DEF QuietInv
  <1>4. PhaseInv' /\ LifeStep
    BY NextPhases DEF QuietInv
  <1>5. QED
    BY <1>1, <1>2, <1>3, <1>4 DEF QuietInv

LEMMA QuietHolds ==
  ASSUME OthersKeepOff
  PROVE  Spec /\ Quiet => []QuietInv
  <1>1. Init /\ Quiet => QuietInv
    BY InitIInv, InitSightInv, InitPhases DEF QuietInv
  <1>2. QuietInv /\ [Next]_vars => QuietInv'
    BY QuietSteps
  <1>3. QED
    BY <1>1, <1>2, PTL DEF Spec

(* Then the service keeps the promise of ReturnLifecycle to its clients: a *)
(* return moves from unknown to open to an end it keeps, it is settled     *)
(* only once released, and without stops it is not given up when it is.    *)
THEOREM LifecycleImplemented ==
  ASSUME OthersKeepOff
  PROVE  Spec /\ Quiet => ImplementsLifecycle
  <1>1. Init => Lifecycle!Init
    BY InitPhases
  <1>2. QuietInv /\ [Next]_vars => [Lifecycle!Next]_(Lifecycle!vars)
    <2> SUFFICES ASSUME QuietInv, [Next]_vars PROVE [Lifecycle!Next]_(Lifecycle!vars)
      OBVIOUS
    <2>1. QuietInv' /\ LifeStep /\ UNCHANGED <<hasSubmitter, kinds>>
      BY QuietSteps
    <2>2. QED
      BY <2>1, StepOfLife DEF QuietInv
  <1>3. QED
    BY <1>1, <1>2, QuietHolds, PTL DEF Spec, Lifecycle!Spec, ImplementsLifecycle

(* And a terminal record stays terminal, so that a wallet may stop polling *)
(* it: what terminal_reopened shows takes a second source of the log that  *)
(* does not confirm what it confirmed before.                              *)
THEOREM TerminalStaysFinal ==
  ASSUME OthersKeepOff
  PROVE  Spec /\ Quiet => TerminalIsFinal
  <1> DEFINE Final == \A r \in Held(ledger) :
                        IsDone(ledger.returns[r]) => IsDone(ledger'.returns[r])
  <1>1. QuietInv /\ [Next]_vars => Final
    <2> SUFFICES ASSUME QuietInv, [Next]_vars,
                        NEW r \in Held(ledger), IsDone(ledger.returns[r])
                 PROVE  IsDone(ledger'.returns[r])
      OBVIOUS
    <2>1. r \in Burns /\ LifeStep
      BY QuietSteps DEF Held
    <2>2. Phase(r) \notin {"open", "unknown"}
      BY DEF Phase, PhaseOf
    <2>3. Phase(r)' = Phase(r)
      BY <2>1, <2>2 DEF LifeStep, Ending, Turns, Accepting, SamePhases, Phase
    <2>4. QED
      BY <2>2, <2>3 DEF Phase, PhaseOf
  <1>2. QED
    BY <1>1, QuietHolds, PTL DEF Spec, TerminalIsFinal
===============================================================================
