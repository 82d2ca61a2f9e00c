----------------------------- MODULE ReturnLedger -----------------------------
(***************************************************************************)
(* The return service's ledger, service/src/domain/ledger.rs: the records  *)
(* of the returns and of the proving batches, and what each journal event  *)
(* does to them.  The ledger is a value, and each event an operator from a *)
(* ledger to a ledger, because the journal replays the same events the     *)
(* service committed.                                                      *)
(*                                                                         *)
(* A return is named by its nullifier (the service admits one return per   *)
(* nullifier).  A schedule `not_before_ms` is the fact that it lies in the *)
(* future (`waiting`); time passing clears it.  A proof bundle is the set  *)
(* of nullifiers it releases: within a batch the leaves always stand in    *)
(* acceptance order.  A spent root is the set of nullifiers in the tree.   *)
(***************************************************************************)
EXTENDS Integers, Sequences, FiniteSets

CONSTANTS
  Burns,         \* burns a wallet may hand to this service
  Foreign,       \* burns only other settlers hold
  MaxAttempts,   \* RetryPolicy::max_attempts
  MaxRebases,    \* RetryPolicy::max_rebases
  MaxBatchSize,  \* Limits::max_size
  TrustBaseOf,   \* burn -> the trust base its proofs are under
  LocksOf        \* burn -> the lock nonces it draws on

(* A nullifier is a hash of 32 bytes: there are finitely many burns.       *)
ASSUME LedgerAssumption ==
  /\ IsFiniteSet(Burns) /\ Burns \cap Foreign = {}
  /\ MaxAttempts \in Nat \ {0}
  /\ MaxRebases \in Nat
  /\ MaxBatchSize \in Nat \ {0}

Statuses == {"absent", "queued", "proving", "proven", "submitted", "settled", "failed"}
Failures == {"none", "recoverable", "terminal"}
BatchStatuses == {"proving", "proven", "settled", "failed", "interrupted"}
NoTx == 0
Roots == SUBSET (Burns \cup Foreign)

Returns == [status : Statuses, seq : Nat, batch : Nat, failure : Failures,
            attempts : Nat, waiting : BOOLEAN, tx : Int]
Batches == [status : BatchStatuses, members : SUBSET Burns, rebases : Nat,
            leaves : SUBSET Burns, rootOld : Roots, tx : Int]
Ledgers == [returns : [Burns -> Returns], batches : Seq(Batches)]

Unknown == [status |-> "absent", seq |-> 0, batch |-> 0, failure |-> "none",
            attempts |-> 0, waiting |-> FALSE, tx |-> NoTx]
EmptyLedger == [returns |-> [r \in Burns |-> Unknown], batches |-> <<>>]

(***************************************************************************)
(* Queries                                                                 *)
(***************************************************************************)
Held(L) == {r \in Burns : L.returns[r].status # "absent"}
FailedRecoverably(ret) == ret.status = "failed" /\ ret.failure = "recoverable"
(* Mutant: a failed return is not pending again.                           *)
IsPendingMutant(ret) == ret.status = "queued"
IsPending(ret) == ret.status = "queued" \/ FailedRecoverably(ret)
AwaitsConfirmation(ret) == ret.status = "submitted"
IsDone(ret) == ret.status = "settled" \/ (ret.status = "failed" /\ ~FailedRecoverably(ret))
(* Mutant: a return whose proof is done no longer counts as a member.      *)
InBatchMutant(ret, b) == ret.batch = b /\ ret.status = "proving"
InBatch(ret, b) == ret.batch = b /\ ret.status \in {"proving", "proven"}

(* Mutant: what has become of a member since is not looked at.             *)
MembersOfMutant(L, b) == L.batches[b].members
MembersOf(L, b) == {r \in L.batches[b].members : InBatch(L.returns[r], b)}
Unfinished(L) == {r \in Held(L) : ~IsDone(L.returns[r])}
DuePending(L) == {r \in Held(L) : IsPending(L.returns[r]) /\ ~L.returns[r].waiting}
ReleasesDue(L) == {r \in Held(L) : AwaitsConfirmation(L.returns[r]) /\ ~L.returns[r].waiting}
BatchIds(L) == 1..Len(L.batches)
ProvingBatches(L) == {b \in BatchIds(L) : L.batches[b].status = "proving"}
(* Mutant: a batch one of whose members was set aside is skipped.          *)
UnsettledProofsMutant(L) ==
  {b \in BatchIds(L) : /\ L.batches[b].status = "proven"
                       /\ \A r \in L.batches[b].members : L.returns[r].status = "proven"}
UnsettledProofs(L) ==
  {b \in BatchIds(L) : L.batches[b].status = "proven" /\ L.batches[b].tx = NoTx}

(* The transitions the ledger adds to the chain log: those of its settled  *)
(* batches.                                                                *)
Transition(batch) == [rootOld |-> batch.rootOld, nullifiers |-> batch.leaves, tx |-> batch.tx]
SettledBatches(L) ==
  {Transition(L.batches[b]) : b \in {c \in BatchIds(L) : /\ L.batches[c].status = "settled"
                                                         /\ L.batches[c].leaves # {}}}

(* An earlier proof of the same leaves on the same root.                   *)
HasProofFor(L, leaves, rootOld) ==
  \E b \in BatchIds(L) : /\ L.batches[b].status # "settled"
                         /\ L.batches[b].leaves = leaves
                         /\ L.batches[b].rootOld = rootOld

(* BatchPolicy::select: the first due return, then every later one that    *)
(* shares its trust base and no lock with those taken, while there is room.*)
Earlier(L, S, r) == {s \in S : L.returns[s].seq < L.returns[r].seq}
FitsWith(r, taken) ==
  \A s \in taken : TrustBaseOf[r] = TrustBaseOf[s] /\ LocksOf[r] \cap LocksOf[s] = {}
IsSelection(L, S) ==
  /\ S # {} /\ S \subseteq DuePending(L)
  /\ \A r \in DuePending(L) :
       r \in S <=> /\ Cardinality(Earlier(L, S, r)) < MaxBatchSize
                   /\ FitsWith(r, Earlier(L, S, r))

(***************************************************************************)
(* Changes to one return                                                   *)
(***************************************************************************)
(* Mutant: off by one.                                                     *)
ParkedMutant(attempts) == attempts + 1 >= MaxAttempts
Parked(attempts) == attempts >= MaxAttempts

ScheduleRetry(ret) ==
  [ret EXCEPT !.status = "failed", !.attempts = @ + 1,
              !.waiting = ~Parked(ret.attempts + 1),
              !.failure = IF Parked(ret.attempts + 1) THEN "terminal" ELSE "recoverable"]

(* Mutant: the return takes its batch's status.                            *)
ScheduleAfterInterruptionMutant(ret) ==
  [ret EXCEPT !.status = "interrupted", !.attempts = @ + 1, !.waiting = TRUE]
ScheduleAfterInterruption(ret) ==
  IF Parked(ret.attempts + 1)
  THEN ScheduleRetry(ret)
  ELSE [ret EXCEPT !.status = "queued", !.attempts = @ + 1, !.waiting = TRUE, !.failure = "none"]

RequeueAfterStop(ret) == [ret EXCEPT !.status = "queued", !.waiting = FALSE, !.failure = "none"]

SettledBy(ret, tx) ==
  [ret EXCEPT !.status = "settled", !.waiting = FALSE, !.failure = "none", !.tx = tx]

(* A check that finds the same as the last only moves the schedule.        *)
AwaitConfirmation(ret) ==
  [ret EXCEPT !.status = "submitted", !.waiting = TRUE, !.failure = "none", !.tx = NoTx]

(***************************************************************************)
(* Events                                                                  *)
(***************************************************************************)
ForReturns(L, S, Change(_)) ==
  [r \in Burns |-> IF r \in S THEN Change(L.returns[r]) ELSE L.returns[r]]

Accepted(L, r) ==
  IF r \in Held(L)
  THEN L
  ELSE [L EXCEPT !.returns[r] = [Unknown EXCEPT !.status = "queued",
                                                !.seq = Cardinality(Held(L)) + 1]]

Requeued(L, r) ==
  LET ret == L.returns[r] IN
  IF AwaitsConfirmation(ret)
  THEN [L EXCEPT !.returns[r] = [ret EXCEPT !.status = "queued", !.waiting = FALSE, !.failure = "none"]]
  ELSE IF FailedRecoverably(ret)
       THEN [L EXCEPT !.returns[r] = [ret EXCEPT !.status = "queued", !.failure = "none"]]
       ELSE L

BatchFormed(L, members) ==
  LET id == Len(L.batches) + 1
      Join(ret) == [ret EXCEPT !.status = "proving", !.batch = id, !.failure = "none"] IN
  [returns |-> ForReturns(L, {r \in members : IsPending(L.returns[r])}, Join),
   batches |-> Append(L.batches, [status |-> "proving", members |-> members, rebases |-> 0,
                                  leaves |-> {}, rootOld |-> {}, tx |-> NoTx])]

BatchProven(L, b, leaves, rootOld) ==
  LET Prove(ret) == [ret EXCEPT !.status = "proven"] IN
  [returns |-> ForReturns(L, MembersOf(L, b), Prove),
   batches |-> [L.batches EXCEPT ![b].status = "proven", ![b].leaves = leaves,
                                 ![b].rootOld = rootOld, ![b].tx = NoTx]]

BatchSettled(L, b, tx) ==
  LET Settle(ret) == [ret EXCEPT !.status = "settled", !.tx = tx] IN
  [returns |-> ForReturns(L, MembersOf(L, b), Settle),
   batches |-> [L.batches EXCEPT ![b].status = "settled", ![b].tx = tx]]

(* Mutant: only the members still proving are retried.                     *)
BatchFailedMutant(L, b) ==
  [returns |-> ForReturns(L, {r \in MembersOf(L, b) : L.returns[r].status = "proving"},
                          ScheduleRetry),
   batches |-> [L.batches EXCEPT ![b].status = "failed"]]
BatchFailed(L, b) ==
  [returns |-> ForReturns(L, MembersOf(L, b), ScheduleRetry),
   batches |-> [L.batches EXCEPT ![b].status = "failed"]]

BatchRebased(L, b) ==
  LET Reprove(ret) == [ret EXCEPT !.status = "proving"] IN
  [returns |-> ForReturns(L, MembersOf(L, b), Reprove),
   batches |-> [L.batches EXCEPT ![b].status = "proving", ![b].rebases = @ + 1,
                                 ![b].leaves = {}, ![b].rootOld = {}]]

(* recover() and stop(): every batch still proving is interrupted, and its *)
(* proving members go back in the queue, charged an attempt after a crash. *)
Interrupted(L, orderly) ==
  LET Return(ret) == IF orderly THEN RequeueAfterStop(ret) ELSE ScheduleAfterInterruption(ret)
      cut == {r \in Burns : \E b \in ProvingBatches(L) :
                              r \in MembersOf(L, b) /\ L.returns[r].status = "proving"} IN
  [returns |-> ForReturns(L, cut, Return),
   batches |-> [b \in BatchIds(L) |-> IF b \in ProvingBatches(L)
                                      THEN [L.batches[b] EXCEPT !.status = "interrupted"]
                                      ELSE L.batches[b]]]

(* What became of a member that is set aside: already released and         *)
(* confirmed or not, rejected by the simulation, or invalid.               *)
Verdicts == [kind : {"confirmed", "unconfirmed", "rejected", "invalid"}, tx : Int]

Excluded(ret, verdict) ==
  CASE verdict.kind = "confirmed"   -> SettledBy(ret, verdict.tx)
    [] verdict.kind = "unconfirmed" -> AwaitConfirmation(ret)
    [] verdict.kind = "rejected"    -> ScheduleRetry(ret)
    [] verdict.kind = "invalid"     -> [ret EXCEPT !.status = "failed", !.failure = "terminal"]

ReturnExcluded(L, r, verdict) == [L EXCEPT !.returns[r] = Excluded(@, verdict)]
==============================================================================
