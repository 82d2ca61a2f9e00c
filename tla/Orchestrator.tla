----------------------------- MODULE Orchestrator -----------------------------
(***************************************************************************)
(* The return service at work: service/src/orchestrator.rs over the ledger,*)
(* with the intake of the API, the stop and crash paths, the relayer's     *)
(* commands, and the vault's log as the chain's other users move it.       *)
(*                                                                         *)
(* One task proves and settles batches.  Each action is what that task     *)
(* does between two awaits, so that intake, timers, the chain and a crash  *)
(* fall between any two of them; `pc` is the await it stands at, and what  *)
(* it carries across one (`acc`, `kept`, `asked`, `todo`) may be stale     *)
(* when used.  The ledger is durable: a restart finds what was committed.  *)
(*                                                                         *)
(* What goes wrong is drawn from the kinds of one of the Profiles, at most *)
(* MaxFaults times in a behaviour.                                         *)
(***************************************************************************)
EXTENDS ReturnLedger

CONSTANTS
  MaxPending,    \* BRIDGE_RETURN_MAX_PENDING
  Submitters,    \* whether BRIDGE_RETURN_SUBMIT_CMD may be set
  HasConfirm,    \* BRIDGE_RETURN_CONFIRM_CMD is set
  SelfSettle,    \* anyone submits the published bundles
  ThirdParty,    \* sets of burns other settlers prove and settle on their own
  BadLock,       \* burns whose lock refs are not the vault's
  Profiles,      \* sets of kinds of fault that occur together
  MaxFaults      \* how many of them

FaultKinds == {"unreadable", "lagging", "lying", "simulation", "rejected", "unconfirmed",
               "proof", "submission", "receipt", "dropped", "crash", "stop"}
(* Interruptions stop a batch, set-asides take a member out of it. Neither *)
(* leaves a settlement of the service unaccounted for, unless the service  *)
(* stops while one is on its way and the sync after the restart fails: its *)
(* batch is given up then, and its bundle may land on another one's watch. *)
Interruptions == {"unreadable", "lagging", "simulation", "proof", "crash", "stop"}
SetAsides == {"rejected", "unconfirmed"}
Stops == {"crash", "stop"}
FailedSyncs == {"unreadable", "lagging"}

ASSUME ServiceAssumption ==
  /\ MaxPending \in Nat
  /\ Submitters \in (SUBSET BOOLEAN) \ {{}} /\ HasConfirm \in BOOLEAN /\ SelfSettle \in BOOLEAN
  /\ ThirdParty \subseteq Roots \ {{}}
  /\ BadLock \subseteq Burns
  /\ Profiles \subseteq SUBSET FaultKinds /\ MaxFaults \in Nat

VARIABLES
  ledger,    \* the ledger, journalled before every change
  pc,        \* where the orchestrator waits
  cur,       \* the batch in flight, 0 when there is none
  acc,       \* the accumulator last rebuilt: spent nullifiers and their txids
  kept,      \* members the assembly kept
  asked,     \* member -> txid its release is to be confirmed in
  todo,      \* member -> verdict not applied yet
  cont,      \* what follows the verdicts
  mine,      \* txid of the settlement broadcast for cur
  resume,    \* proven batches found at start, not looked at yet
  draining,  \* a drain has started
  hasSubmitter, \* BRIDGE_RETURN_SUBMIT_CMD is set, fixed when the service is deployed
  kinds,     \* the kinds of fault that occur
  vaultLog,  \* the vault's settlements, in order
  mempool,   \* the service's settlements not landed yet
  nextTx,    \* next transaction id
  faults     \* faults so far

task == <<cur, acc, kept, asked, todo, cont, mine>>
mode == <<draining, hasSubmitter, kinds>>
chain == <<vaultLog, mempool, nextTx>>
vars == <<ledger, pc, task, resume, mode, chain, faults>>

Pcs == {"next", "take", "sync", "simulate", "confirm", "exclude", "prove", "settle",
        "submit", "receipt", "await", "drained"}
EmptyAcc == [spent |-> {}, tx |-> [n \in {} |-> NoTx]]
None == [r \in {} |-> NoTx]

Init ==
  /\ ledger = EmptyLedger
  /\ pc = "next" /\ cur = 0 /\ acc = EmptyAcc /\ kept = {} /\ asked = None /\ todo = None
  /\ cont = "take" /\ mine = NoTx
  /\ resume = {} /\ draining = FALSE /\ hasSubmitter \in Submitters
  /\ kinds \in Profiles
  /\ vaultLog = <<>> /\ mempool = {} /\ nextTx = 1
  /\ faults = 0

MayFail(kind) == kind \in kinds /\ faults < MaxFaults
Fault(kind) == MayFail(kind) /\ faults' = faults + 1
NoFault == UNCHANGED faults

(***************************************************************************)
(* The vault's log, and what the service reads of it                       *)
(***************************************************************************)
LogEntries == {vaultLog[i] : i \in 1..Len(vaultLog)}
VaultRoot == UNION {t.nullifiers : t \in LogEntries}
TransitionOf(t) == [rootOld |-> t.rootOld, nullifiers |-> t.nullifiers]

(* s2::rebuild follows the root links from the empty tree: no two          *)
(* transitions continue one root, and each continues a reached root.       *)
Chains(T) ==
  /\ \A t \in T : t.nullifiers # {} /\ t.nullifiers \cap t.rootOld = {}
  /\ \A t, u \in T : t.rootOld = u.rootOld => t = u
  /\ \A t \in T : t.rootOld = {} \/ \E u \in T : t.rootOld = u.rootOld \cup u.nullifiers

(* The fetched log is merged with the transitions of the settled batches;  *)
(* the first copy of a transition that names a transaction is believed.    *)
Merged(fetched) == {TransitionOf(t) : t \in fetched \cup SettledBatches(ledger)}
Rebuilt(fetched) ==
  LET spent == UNION {t.nullifiers : t \in Merged(fetched)}
      Copies(n, log) == {t \in log : n \in t.nullifiers}
      Source(n) == IF Copies(n, fetched) # {} THEN fetched ELSE SettledBatches(ledger) IN
  [spent |-> spent, tx |-> [n \in spent |-> (CHOOSE t \in Copies(n, Source(n)) : TRUE).tx]]

(* What the events command may print: the log, a prefix of it, or the log  *)
(* and a settlement that never happened, under no transaction or another's.*)
Prefixes == {{vaultLog[i] : i \in 1..k} : k \in 0..(Len(vaultLog) - 1)}
PhantomTx == -1
WithPhantom ==
  {LogEntries \cup {[rootOld |-> VaultRoot, nullifiers |-> S, tx |-> tx]} :
     S \in (SUBSET (Burns \ VaultRoot)) \ {{}}, tx \in {PhantomTx} \cup {t.tx : t \in LogEntries}}
Reads(fetched) ==
  \/ fetched = LogEntries /\ NoFault
  \/ fetched \in Prefixes /\ Fault("lagging")
  \/ fetched \in WithPhantom /\ Fault("lying")
(* What there is to read, while the task reads.                            *)
Fetchable ==
  IF pc \notin {"next", "sync", "settle", "await"}
  THEN {}
  ELSE {LogEntries} \cup (IF MayFail("lagging") THEN Prefixes ELSE {})
                    \cup (IF MayFail("lying") THEN WithPhantom ELSE {})

(* synced_accumulator: a log that is read and reproduces a root, or not.   *)
Synced(fetched) == Reads(fetched) /\ Chains(Merged(fetched))
SyncFails ==
  \/ Fault("unreadable")
  \/ \E fetched \in Fetchable : Reads(fetched) /\ ~Chains(Merged(fetched))

(***************************************************************************)
(* Ends of a batch                                                         *)
(***************************************************************************)
BackToLoop == pc' = "next" /\ cur' = 0 /\ acc' = EmptyAcc /\ kept' = {} /\ asked' = None
              /\ todo' = None /\ cont' = "take" /\ mine' = NoTx

Fail == ledger' = BatchFailed(ledger, cur) /\ BackToLoop

RebaseOrFail ==
  IF ledger.batches[cur].rebases < MaxRebases
  THEN /\ ledger' = BatchRebased(ledger, cur)
       /\ pc' = "sync" /\ mine' = NoTx /\ acc' = EmptyAcc
       /\ UNCHANGED <<cur, kept, asked, todo, cont>>
  ELSE Fail

(***************************************************************************)
(* The loop                                                                *)
(***************************************************************************)

(* A drain ends the loop; a start first looks at the proven batches.       *)
Resume(b) ==
  /\ pc = "next" /\ ~draining
  /\ b \in resume /\ \A c \in resume : b <= c
  /\ resume' = resume \ {b}
  /\ cur' = b /\ pc' = "settle"
  /\ UNCHANGED <<ledger, acc, kept, asked, todo, cont, mine, mode, chain, faults>>

Drained ==
  /\ pc \in {"next", "take"} /\ draining
  /\ pc' = "drained"
  /\ UNCHANGED <<ledger, task, resume, mode, chain, faults>>

(* recheck_releases, when the log cannot be read: every due return waits   *)
(* for the next check.                                                     *)
RecheckFails ==
  /\ pc = "next" /\ ~draining /\ resume = {} /\ ReleasesDue(ledger) # {}
  /\ SyncFails
  /\ todo' = [r \in ReleasesDue(ledger) |-> [kind |-> "unconfirmed", tx |-> NoTx]]
  /\ cont' = "take" /\ pc' = "exclude"
  /\ UNCHANGED <<ledger, cur, acc, kept, asked, mine, resume, mode, chain>>

(* Read: a release no longer in the log is queued again, the others are    *)
(* asked about.                                                            *)
RequeueAll(L, S) ==
  [L EXCEPT !.returns = [r \in Burns |-> IF r \in S THEN Requeued(L, r).returns[r] ELSE @[r]]]
Recheck(fetched) ==
  /\ pc = "next" /\ ~draining /\ resume = {} /\ ReleasesDue(ledger) # {}
  /\ Synced(fetched)
  /\ LET a == Rebuilt(fetched) IN
     /\ ledger' = RequeueAll(ledger, ReleasesDue(ledger) \ a.spent)
     /\ asked' = [r \in ReleasesDue(ledger) \cap a.spent |-> a.tx[r]]
  /\ cont' = "take" /\ pc' = "confirm"
  /\ UNCHANGED <<cur, acc, kept, todo, mine, resume, mode, chain>>

(* take_next: form a batch of what is due, or wait for a change.           *)
Take(S) ==
  /\ pc = "take" \/ (pc = "next" /\ resume = {} /\ ReleasesDue(ledger) = {})
  /\ ~draining
  /\ IsSelection(ledger, S)
  /\ ledger' = BatchFormed(ledger, S)
  /\ cur' = Len(ledger.batches) + 1
  /\ pc' = "sync"
  /\ UNCHANGED <<acc, kept, asked, todo, cont, mine, resume, mode, chain, faults>>

NothingDue ==
  /\ pc = "take" /\ ~draining
  /\ DuePending(ledger) = {}
  /\ pc' = "next"
  /\ UNCHANGED <<ledger, task, resume, mode, chain, faults>>

(***************************************************************************)
(* prove_stage                                                             *)
(***************************************************************************)
SyncForProof(fetched) ==
  /\ pc = "sync"
  /\ Synced(fetched)
  /\ acc' = Rebuilt(fetched)
  /\ pc' = "simulate"
  /\ UNCHANGED <<ledger, cur, kept, asked, todo, cont, mine, resume, mode, chain>>

(* A sync that failed in either stage fails the batch.                     *)
SyncFailed ==
  /\ pc \in {"sync", "settle"}
  /\ SyncFails
  /\ Fail
  /\ UNCHANGED <<resume, mode, chain>>

(* The simulation answers, and the assembly sorts every member of the      *)
(* batch, whatever has become of it since the batch was formed: invalid,   *)
(* rejected, already released, or kept.                                    *)
Assemble(rejected) ==
  /\ pc = "simulate"
  /\ rejected \subseteq ledger.batches[cur].members \ BadLock
  /\ IF rejected = {} THEN NoFault ELSE Fault("rejected")
  /\ LET members == ledger.batches[cur].members
         setAside == members \cap (BadLock \cup rejected)
         released == (members \ setAside) \cap acc.spent IN
     /\ kept' = members \ (setAside \cup released)
     /\ todo' = [r \in setAside |->
                   [kind |-> IF r \in BadLock THEN "invalid" ELSE "rejected", tx |-> NoTx]]
     /\ asked' = [r \in released |-> acc.tx[r]]
     /\ cont' = IF members \ (setAside \cup released) = {} THEN "fail" ELSE "prove"
  /\ pc' = "confirm"
  /\ UNCHANGED <<ledger, cur, acc, mine, resume, mode, chain>>

(* The simulation command fails, or the batch cannot be assembled.         *)
SimulationFailed ==
  /\ pc = "simulate"
  /\ Fault("simulation")
  /\ Fail
  /\ UNCHANGED <<resume, mode, chain>>

(* The proof: an earlier one of the same leaves on the same root, or a new *)
(* one.                                                                    *)
Prove ==
  /\ pc = "prove"
  /\ ledger' = BatchProven(ledger, cur, kept, acc.spent)
  /\ pc' = "settle"
  /\ acc' = EmptyAcc /\ kept' = {}
  /\ UNCHANGED <<cur, asked, todo, cont, mine, resume, mode, chain, faults>>

ProofFailed ==
  /\ pc = "prove"
  /\ ~HasProofFor(ledger, kept, acc.spent)
  /\ Fault("proof")
  /\ Fail
  /\ UNCHANGED <<resume, mode, chain>>

(***************************************************************************)
(* Verdicts                                                                *)
(***************************************************************************)

(* confirm: the second source confirms a release exactly as asked, or not  *)
(* (yet); without a confirmation command nothing is confirmed.             *)
ReleasedIn(r, tx) == \E t \in LogEntries : t.tx = tx /\ r \in t.nullifiers
Confirmable == {r \in DOMAIN asked : HasConfirm /\ ReleasedIn(r, asked[r])}
(* Mutant: the log is believed.                                            *)
AnsweredMutant(confirmed) ==
  [r \in DOMAIN asked |-> [kind |-> "confirmed", tx |-> asked[r]]]
Answered(confirmed) ==
  [r \in DOMAIN asked |->
     [kind |-> IF r \in confirmed THEN "confirmed" ELSE "unconfirmed", tx |-> asked[r]]]
Answers(confirmed) ==
  /\ confirmed \subseteq Confirmable
  /\ IF confirmed = Confirmable THEN NoFault ELSE Fault("unconfirmed")

(* released(): the batch settles as one when every release was confirmed,  *)
(* in one transaction.                                                     *)
OneTransaction(confirmed) ==
  /\ confirmed # {} /\ confirmed = DOMAIN asked
  /\ \A r, q \in confirmed : asked[r] = asked[q]

ConfirmBatch(confirmed) ==
  /\ pc = "confirm" /\ cont = "released"
  /\ Answers(confirmed)
  /\ OneTransaction(confirmed)
  /\ ledger' = BatchSettled(ledger, cur, CHOOSE tx \in {asked[r] : r \in confirmed} : TRUE)
  /\ BackToLoop
  /\ UNCHANGED <<resume, mode, chain>>

Confirm(confirmed) ==
  /\ pc = "confirm"
  /\ Answers(confirmed)
  /\ ~(cont = "released" /\ OneTransaction(confirmed))
  /\ todo' = [r \in DOMAIN todo \cup DOMAIN asked |->
                IF r \in DOMAIN asked THEN Answered(confirmed)[r] ELSE todo[r]]
  /\ asked' = None
  /\ cont' = IF cont = "released" THEN "fail" ELSE cont
  /\ pc' = "exclude"
  /\ UNCHANGED <<ledger, cur, acc, kept, mine, resume, mode, chain>>

(* exclude: the verdicts are committed one by one.                         *)
Exclude(r) ==
  /\ pc = "exclude"
  /\ r \in DOMAIN todo
  /\ ledger' = ReturnExcluded(ledger, r, todo[r])
  /\ todo' = [q \in DOMAIN todo \ {r} |-> todo[q]]
  /\ UNCHANGED <<pc, cur, acc, kept, asked, cont, mine, resume, mode, chain, faults>>

VerdictsApplied ==
  /\ pc = "exclude" /\ todo = None
  /\ IF cont = "fail"
     THEN Fail
     ELSE pc' = cont /\ cont' = "take" /\ UNCHANGED <<ledger, cur, acc, kept, asked, todo, mine>>
  /\ UNCHANGED <<resume, mode, chain, faults>>

(***************************************************************************)
(* settle_stage and await_settlement                                       *)
(***************************************************************************)
Leaves == ledger.batches[cur].leaves
RootOld == ledger.batches[cur].rootOld

(* Every nullifier of the batch is spent: ask about the members it still   *)
(* holds.                                                                  *)
AllSpent(fetched) == Leaves \subseteq Rebuilt(fetched).spent
AllReleased(fetched) ==
  /\ pc \in {"settle", "await"}
  /\ Synced(fetched)
  /\ AllSpent(fetched)
  /\ asked' = [r \in Leaves \cap MembersOf(ledger, cur) |-> Rebuilt(fetched).tx[r]]
  /\ cont' = "released" /\ pc' = "confirm"
  /\ UNCHANGED <<ledger, cur, acc, kept, todo, mine, resume, mode, chain>>

(* The vault's root is not the one the batch was proven on.                *)
Overtaken(fetched) ==
  /\ pc \in {"settle", "await"}
  /\ Synced(fetched)
  /\ ~AllSpent(fetched)
  /\ Rebuilt(fetched).spent # RootOld
  /\ RebaseOrFail
  /\ UNCHANGED <<resume, mode, chain>>

(* The batch can settle: submit it, or leave it proven without a submitter.*)
ReadyToSubmit(fetched) ==
  /\ pc = "settle"
  /\ Synced(fetched)
  /\ Rebuilt(fetched).spent = RootOld
  /\ IF hasSubmitter
     THEN pc' = "submit" /\ UNCHANGED task
     ELSE BackToLoop
  /\ UNCHANGED <<ledger, resume, mode, chain>>

(* The command broadcasts the settlement, or fails before it does.         *)
Broadcast ==
  /\ pc = "submit"
  /\ mempool' = mempool \cup {[tx |-> nextTx, rootOld |-> RootOld, nullifiers |-> Leaves]}
  /\ mine' = nextTx
  /\ nextTx' = nextTx + 1
  /\ pc' = "receipt"
  /\ UNCHANGED <<ledger, cur, acc, kept, asked, todo, cont, resume, mode, vaultLog, faults>>

(* No receipt will come: the transaction was dropped.                      *)
(* Mutant: the command reports success once it has broadcast.              *)
LandedMutant(tx) == tx # NoTx
Landed(tx) == \E t \in LogEntries : t.tx = tx
Lost == pc = "receipt" /\ ~Landed(mine) /\ \A m \in mempool : m.tx # mine

SubmissionFailed ==
  /\ pc \in {"submit", "receipt"}
  /\ Fault("submission") \/ (Lost /\ NoFault)
  /\ Fail
  /\ UNCHANGED <<resume, mode, chain>>

Submitted ==
  /\ pc = "receipt" /\ Landed(mine)
  /\ ledger' = BatchSettled(ledger, cur, mine)
  /\ BackToLoop
  /\ UNCHANGED <<resume, mode, chain, faults>>

(* The transaction reverted: another settlement moved the root first.      *)
StaleRoot ==
  /\ pc = "receipt" /\ ~Landed(mine) /\ VaultRoot # RootOld
  /\ RebaseOrFail
  /\ UNCHANGED <<resume, mode, chain, faults>>

Unconfirmed ==
  /\ pc = "receipt"
  /\ Fault("receipt") \/ (Lost /\ NoFault)
  /\ pc' = "await"
  /\ UNCHANGED <<ledger, task, resume, mode, chain>>

(* The last look at the log shows the batch neither released nor overtaken,*)
(* or cannot be made.                                                      *)
GiveUp ==
  /\ pc = "await"
  /\ \/ SyncFails
     \/ \E fetched \in Fetchable : Synced(fetched) /\ Rebuilt(fetched).spent = RootOld
  /\ Fail
  /\ UNCHANGED <<resume, mode, chain>>

(***************************************************************************)
(* Intake, timers, stop and restart                                        *)
(***************************************************************************)

(* POST /returns: accept_within.  A burn already held is answered with its *)
(* record; posting a recoverably failed one queues it again.               *)
HasRoom == Cardinality(Unfinished(ledger)) < MaxPending
Post(r) ==
  /\ pc # "drained"
  /\ \/ /\ r \notin Held(ledger)
        /\ HasRoom
        /\ ledger' = Accepted(ledger, r)
     \/ /\ r \in Held(ledger)
        /\ FailedRecoverably(ledger.returns[r])
        /\ ledger' = Requeued(ledger, r)
  /\ UNCHANGED <<pc, task, resume, mode, chain, faults>>

(* A schedule comes due.                                                   *)
TimePasses(r) ==
  /\ ledger.returns[r].waiting
  /\ ledger' = [ledger EXCEPT !.returns[r].waiting = FALSE]
  /\ UNCHANGED <<pc, task, resume, mode, chain, faults>>

StartDrain ==
  /\ ~draining
  /\ Fault("stop")
  /\ draining' = TRUE
  /\ UNCHANGED <<ledger, pc, task, resume, hasSubmitter, kinds, chain>>

(* The process ends and starts again on the journal it left: recover()     *)
(* interrupts what was proving, and the orchestrator starts over.          *)
Restarts(L) ==
  /\ ledger' = Interrupted(L, FALSE)
  /\ resume' = UnsettledProofs(L)
  /\ BackToLoop
  /\ draining' = FALSE
  /\ UNCHANGED <<hasSubmitter, kinds, chain>>

Crash == Fault("crash") /\ Restarts(ledger)
(* SIGINT, or a drain cut short: stop_proving() before the exit.           *)
Abandon == Fault("stop") /\ Restarts(Interrupted(ledger, TRUE))
DrainedExit == pc = "drained" /\ NoFault /\ Restarts(ledger)

(***************************************************************************)
(* The chain                                                               *)
(***************************************************************************)
Settles(tx, nullifiers) ==
  vaultLog' = Append(vaultLog, [rootOld |-> VaultRoot, nullifiers |-> nullifiers, tx |-> tx])

(* A broadcast settlement is mined, however late, if it is on the root.    *)
Land(m) ==
  /\ m.rootOld = VaultRoot
  /\ Settles(m.tx, m.nullifiers)
  /\ mempool' = mempool \ {m}
  /\ UNCHANGED <<ledger, pc, task, resume, mode, nextTx, faults>>

Dropped(m) ==
  /\ Fault("dropped")
  /\ mempool' = mempool \ {m}
  /\ UNCHANGED <<ledger, pc, task, resume, mode, vaultLog, nextTx>>

(* Another settler proves burns of its own, or ones it holds as well.      *)
ThirdPartySettles(S) ==
  /\ S \cap VaultRoot = {}
  /\ Settles(nextTx, S)
  /\ nextTx' = nextTx + 1
  /\ UNCHANGED <<ledger, pc, task, resume, mode, mempool, faults>>

(* Anyone submits a bundle the service published: one without a submitter  *)
(* serves every bundle as soon as it is proven.                            *)
SelfSettled(b) ==
  /\ SelfSettle /\ ~hasSubmitter
  /\ ledger.batches[b].leaves # {}
  /\ ledger.batches[b].rootOld = VaultRoot
  /\ Settles(nextTx, ledger.batches[b].leaves)
  /\ nextTx' = nextTx + 1
  /\ UNCHANGED <<ledger, pc, task, resume, mode, mempool, faults>>

(***************************************************************************)
(* Specification                                                           *)
(***************************************************************************)
OrchestratorStep ==
  \/ \E b \in resume : Resume(b)
  \/ Drained
  \/ RecheckFails
  \/ \E fetched \in Fetchable : Recheck(fetched)
  \/ \E S \in SUBSET Burns : Take(S)
  \/ NothingDue
  \/ \E fetched \in Fetchable : SyncForProof(fetched)
  \/ SyncFailed
  \/ \E rejected \in SUBSET Burns : Assemble(rejected)
  \/ SimulationFailed
  \/ Prove
  \/ ProofFailed
  \/ \E confirmed \in SUBSET Burns : ConfirmBatch(confirmed)
  \/ \E confirmed \in SUBSET Burns : Confirm(confirmed)
  \/ \E r \in Burns : Exclude(r)
  \/ VerdictsApplied
  \/ \E fetched \in Fetchable : AllReleased(fetched)
  \/ \E fetched \in Fetchable : Overtaken(fetched)
  \/ \E fetched \in Fetchable : ReadyToSubmit(fetched)
  \/ Broadcast
  \/ SubmissionFailed
  \/ Submitted
  \/ StaleRoot
  \/ Unconfirmed
  \/ GiveUp
  \/ DrainedExit

Next ==
  \/ OrchestratorStep
  \/ \E r \in Burns : Post(r)
  \/ \E r \in Burns : TimePasses(r)
  \/ StartDrain
  \/ Crash
  \/ Abandon
  \/ \E m \in mempool : Land(m)
  \/ \E m \in mempool : Dropped(m)
  \/ \E S \in ThirdParty : ThirdPartySettles(S)
  \/ \E b \in BatchIds(ledger) : SelfSettled(b)

Spec == Init /\ [][Next]_vars

(* The task keeps running, timers come due, and a settlement that can be   *)
(* mined is.                                                               *)
Fairness ==
  /\ WF_vars(OrchestratorStep)
  /\ \A r \in Burns : WF_vars(TimePasses(r))
  /\ WF_vars(\E m \in mempool : Land(m))
FairSpec == Spec /\ Fairness

(***************************************************************************)
(* Properties                                                              *)
(***************************************************************************)
Txs == Int
Entries == [rootOld : Roots, nullifiers : Roots, tx : Nat]

TypeOK ==
  /\ ledger \in Ledgers
  /\ pc \in Pcs
  /\ cur \in 0..Len(ledger.batches)
  /\ acc.spent \in Roots /\ acc.tx \in [acc.spent -> Txs]
  /\ kept \in SUBSET Burns
  /\ DOMAIN asked \subseteq Burns /\ asked \in [DOMAIN asked -> Txs]
  /\ DOMAIN todo \subseteq Burns /\ todo \in [DOMAIN todo -> Verdicts]
  /\ cont \in {"take", "prove", "fail", "released"}
  /\ mine \in Nat
  /\ resume \subseteq BatchIds(ledger)
  /\ draining \in BOOLEAN /\ hasSubmitter \in Submitters /\ kinds \in Profiles
  /\ vaultLog \in Seq(Entries)
  /\ mempool \subseteq Entries
  /\ nextTx \in Nat
  /\ faults \in 0..MaxFaults

(* A return the service calls settled was released by the vault, in the    *)
(* transaction its record names, whatever one chain source printed.        *)
SettledWasReleased ==
  \A r \in Burns : ledger.returns[r].status = "settled" => ReleasedIn(r, ledger.returns[r].tx)

(* Only the batch the task works on is being proved, and a return shown as *)
(* proving or proven is in a batch that is: it is never left behind by a   *)
(* failure, a rebase, a stop or a crash.                                   *)
NoReturnStranded ==
  /\ ProvingBatches(ledger) \subseteq {cur}
  /\ \A r \in Burns : LET ret == ledger.returns[r] IN
       ret.status \in {"proving", "proven"} =>
         /\ ret.batch \in BatchIds(ledger)
         /\ r \in ledger.batches[ret.batch].members
         /\ ledger.batches[ret.batch].status = ret.status

(* With a submitter, a proof that can still settle is never forgotten: its *)
(* batch is in flight or will be looked at, a restart included.            *)
ProofsNotForgotten ==
  hasSubmitter =>
    {b \in BatchIds(ledger) : ledger.batches[b].status = "proven"} \subseteq resume \cup {cur}

(* A return is given up for good only when its locks are not the vault's,  *)
(* or after all its attempts.                                              *)
GivenUpOnlyAfterRetries ==
  \A r \in Burns : LET ret == ledger.returns[r] IN
    ret.status = "failed" /\ ret.failure = "terminal" => r \in BadLock \/ ret.attempts >= MaxAttempts

(* The service sends its own settlements, and loses sight of none.         *)
InSight == hasSubmitter /\ (kinds \cap Stops = {} \/ kinds \cap FailedSyncs = {})

(* When nothing but interruptions goes wrong, and stops do not come        *)
(* together with failed syncs, a batch the ledger calls settled made a     *)
(* transition of the vault.                                                *)
SettledBatchesAreTheVaults ==
  kinds \subseteq Interruptions /\ InSight =>
    \A t \in SettledBatches(ledger) : TransitionOf(t) \in {TransitionOf(e) : e \in LogEntries}

(* And when a batch settles, so do all the returns its bundle released.    *)
MembersSettleTogether ==
  kinds \subseteq Interruptions /\ InSight =>
    \A b \in BatchIds(ledger) : ledger.batches[b].status = "settled" =>
      \A r \in ledger.batches[b].leaves : ledger.returns[r].status = "settled"

(* What a client is promised of each return: it is settled only when the   *)
(* vault has released it, what has ended stays as it is, and where the     *)
(* service sends its settlements, never stops, and meets no fault but      *)
(* interruptions of a batch, none is given up that the vault has released. *)
PhaseOf(ret) ==
  IF ~IsDone(ret) THEN IF ret.status = "absent" THEN "unknown" ELSE "open"
  ELSE IF ret.status = "settled" THEN "settled" ELSE "given_up"
Lifecycle == INSTANCE ReturnLifecycle WITH
  phase <- [r \in Burns |-> PhaseOf(ledger.returns[r])],
  released <- VaultRoot \cap Burns,
  tracked <- hasSubmitter /\ kinds \subseteq Interruptions \ Stops
ImplementsLifecycle == Lifecycle!Spec

(* A terminal record stays as it is.                                       *)
TerminalIsFinal ==
  [][\A r \in Held(ledger) : IsDone(ledger.returns[r]) => IsDone(ledger'.returns[r])]_vars

(* Every return accepted is in the end settled or given up; and given up   *)
(* only if its locks are not the vault's, or a settlement of the service   *)
(* was lost sight of: fewer interruptions and set-asides than the attempts *)
(* of a return do not keep it from settling.                               *)
EveryReturnEnds ==
  \A r \in Burns :
    r \in Held(ledger) ~>
      \/ ledger.returns[r].status = "settled"
      \/ /\ IsDone(ledger.returns[r])
         /\ r \in BadLock \/ ~(kinds \subseteq Interruptions \cup SetAsides /\ InSight)
==============================================================================
