----------------------------- MODULE BridgeBack -----------------------------
(***************************************************************************)
(* A return from the wallet's side: the fee terms a wallet takes from the  *)
(* service's quote, the burn it hands to the wallet engine, the keeping of *)
(* the burned token across crashes, its submission to the return service,  *)
(* and the service's answers: admission under a fee policy an operator can *)
(* change and a trust base a restart can replace, and the publication of   *)
(* the proven bundle that lets anyone settle.                              *)
(*                                                                         *)
(* Sources: packages/bridge-core/src/index.ts, bridge-plugin/src/          *)
(* {bridge-back/*, wallet/fees.ts, wallet/return-client.ts} and            *)
(* prover/crates/service/src/{api.rs, domain/fee.rs, store.rs}.  The       *)
(* wallet engine, the network that certifies and the chain are external.   *)
(* Time is counted in units, of which a settle window and the seven days   *)
(* of allowance are whole numbers; the clocks of the service, the wallet   *)
(* and the chain are one.                                                  *)
(***************************************************************************)
EXTENDS Integers, FiniteSets, FiniteSetsExt

CONSTANTS
  Tokens,        \* the wallet's tokens: 1..n, in the order they are burned
  Amount,        \* what each is worth
  Policies,      \* the fee policies an operator sets
  Epochs,        \* validator sets, each with its trust base, in order
  Allowance,     \* SUBMIT_ALLOWANCE
  MaxU64,        \* where the service's arithmetic saturates
  MaxSafe,       \* the largest deadline the wallet takes from a quote
  MaxFee,        \* the wallet's limit on a fee
  OwnDeadlines,  \* deadlines of burns that name no fee
  Submits,       \* the service has a submitter
  BurnBy,        \* bound: no burn is started later
  MaxRoot,       \* bound on the settlements of other people's returns
  MaxTime        \* bound on the clock

NoOne == "nobody"

IsCollectable(p) == p.amount = 0 \/ p.recipient # NoOne
FloorWithinAmount(p) == p.floor <= p.amount

ASSUME BridgeBackAssumption ==
  /\ IsFiniteSet(Tokens) /\ Tokens = 1..Cardinality(Tokens)
  /\ IsFiniteSet(Epochs) /\ Epochs = 1..Cardinality(Epochs)
  /\ 1 \in Tokens \cap Epochs /\ Amount \in Nat \ {0}
  /\ \A p \in Policies : /\ {p.amount, p.floor, p.window} \subseteq Nat
                          /\ IsCollectable(p) /\ FloorWithinAmount(p)
  /\ {Allowance, MaxU64, MaxSafe, MaxFee, BurnBy, MaxRoot, MaxTime} \subseteq Nat
  /\ OwnDeadlines \subseteq 0..MaxU64
  /\ Submits \in BOOLEAN

VARIABLES
  now,        \* the time
  network,    \* the validator set that certifies
  policy,     \* the service's fee policy
  base,       \* the epoch of the trust base its intake loaded
  online,     \* the service can be reached, and the app does not fail
  unknown,    \* tokens no asset of the app's configuration recognises
  flow,       \* the app's return in progress: its token and step
  burn,       \* per token, what its burn commits to once asked for
  engine,     \* per token, the wallet engine's journal of its burn
  store,      \* the burned tokens the app has persisted
  recovery,   \* recoverPendingBurns: the listed burns left, and its step
  held,       \* the returns the service holds
  bundles,    \* the proven bundles it keeps: members, and the root proven on
  root,       \* the vault's spent root: the settlements it has taken
  shared,     \* bundles third parties have fetched
  settled     \* per return, the fee its settlement paid and who submitted it

walletVars  == <<flow, burn, engine, store, recovery>>
serviceVars == <<policy, base, held, bundles>>
chainVars   == <<root, shared, settled>>
vars == <<now, network, online, unknown, walletVars, serviceVars, chainVars>>

Idle == [step |-> "idle", token |-> 0]
NotBurned == [fee |-> 0, feeTo |-> NoOne, deadline |-> 0, quoted |-> FALSE, at |-> 0, epoch |-> 0]
NoRecovery == [step |-> "idle", todo |-> {}]
Unsettled == [by |-> "none", fee |-> 0]

Init ==
  /\ now = 0 /\ network = 1 /\ base = 1 /\ policy \in Policies
  /\ online \in BOOLEAN /\ unknown \in IF online THEN {{}} ELSE {{}, {1}}
  /\ flow = Idle /\ recovery = NoRecovery
  /\ burn = [t \in Tokens |-> NotBurned]
  /\ engine = [t \in Tokens |-> "owned"]
  /\ store = {} /\ held = {} /\ shared = {}
  /\ bundles = {} /\ root = 0
  /\ settled = [t \in Tokens |-> Unsettled]

(***************************************************************************)
(* The fee policy: domain/fee.rs                                           *)
(***************************************************************************)
SaturatingAdd(a, b) == IF a + b > MaxU64 THEN MaxU64 ELSE a + b
EarliestDeadline(p, at) == SaturatingAdd(at, p.window)

(* Mutant: the quote leaves out the days a wallet has to submit.           *)
QuoteMutant(p, at) ==
  [feeTo |-> p.recipient, fee |-> p.amount, deadline |-> EarliestDeadline(p, at)]
Quote(p, at) ==
  [feeTo |-> p.recipient, fee |-> p.amount,
   deadline |-> SaturatingAdd(EarliestDeadline(p, at), Allowance)]

Refusal(p, leaf, at) ==
  IF p.floor = 0 THEN "none"
  ELSE IF leaf.feeTo # p.recipient \/ leaf.fee < p.floor THEN "fee_not_paid"
  ELSE IF leaf.deadline < EarliestDeadline(p, at) THEN "fee_deadline_passed"
  ELSE "none"

(***************************************************************************)
(* The terms a wallet burns on: wallet/fees.ts, bridge-back/burn.ts        *)
(***************************************************************************)
FeeTermsAccepted(q) ==
  /\ q.fee > 0 => q.feeTo # NoOne
  /\ q.deadline <= MaxSafe /\ q.deadline > now
  /\ q.fee <= MaxFee /\ q.fee < Amount
Provable(r) == r.fee <= Amount /\ r.deadline <= MaxU64

(* The app asks for a burn on the quote of this moment, or on terms of its *)
(* own that name no fee; the engine journals the request.  The tokens are  *)
(* numbered in the order they are burned.                                  *)
AskBurn(t, terms, quoted) ==
  /\ flow = Idle /\ engine[t] = "owned" /\ now <= BurnBy
  /\ \A u \in 1..t - 1 : engine[u] # "owned"
  /\ Provable(terms)
  /\ burn' = [burn EXCEPT ![t] =
       [fee |-> terms.fee, feeTo |-> terms.feeTo, deadline |-> terms.deadline,
        quoted |-> quoted, at |-> now, epoch |-> 0]]
  /\ engine' = [engine EXCEPT ![t] = "pending"]
  /\ flow' = [step |-> "burning", token |-> t]
  /\ UNCHANGED <<now, network, online, unknown, store, recovery,
                 serviceVars, chainVars>>

BurnOnQuote(t) ==
  LET q == Quote(policy, now) IN online /\ FeeTermsAccepted(q) /\ AskBurn(t, q, TRUE)
BurnOnOwnTerms(t, d) == AskBurn(t, [fee |-> 0, feeTo |-> NoOne, deadline |-> d], FALSE)

(***************************************************************************)
(* The wallet engine                                                       *)
(***************************************************************************)
Engine(t, from, to) ==
  /\ engine[t] = from
  /\ engine' = [engine EXCEPT ![t] = to]
  /\ UNCHANGED <<now, network, online, unknown, flow, store, recovery,
                 serviceVars, chainVars>>
Certify(t) ==
  /\ Engine(t, "pending", "certified")
  /\ burn' = [burn EXCEPT ![t].epoch = network]
EngineSettles(t) == Engine(t, "certified", "settled") /\ UNCHANGED burn

(***************************************************************************)
(* burnForReturn: burn, persist, then acknowledge                          *)
(***************************************************************************)
Flow(step, next) ==
  /\ flow.step = step
  /\ flow' = next
  /\ UNCHANGED <<now, network, online, unknown, burn, recovery,
                 serviceVars, chainVars>>

(* The engine returns the burned token once it is settled, or an error at  *)
(* any time: the app then leaves the burn to a later recovery.             *)
BurnReturns ==
  /\ Flow("burning", [flow EXCEPT !.step = "persist"])
  /\ engine[flow.token] \in {"settled", "released"}
  /\ UNCHANGED <<engine, store>>
BurnFails == ~online /\ Flow("burning", Idle) /\ UNCHANGED <<engine, store>>

PersistBurn ==
  /\ Flow("persist", [flow EXCEPT !.step = "acknowledge"])
  /\ flow.token \notin unknown
  /\ store' = store \cup {flow.token}
  /\ UNCHANGED engine
PersistFails == ~online /\ Flow("persist", Idle) /\ UNCHANGED <<engine, store>>

(* acknowledgeBurn: the engine drops the burned token from its journal.    *)
Acknowledged(t) == [engine EXCEPT ![t] = "released"]
AcknowledgeBurn ==
  /\ Flow("acknowledge", Idle)
  /\ engine' = Acknowledged(flow.token)
  /\ UNCHANGED store

(***************************************************************************)
(* recoverPendingBurns, at any time, beside a burn in progress or not: the *)
(* engine's list as it is, each settled burn persisted, then acknowledged, *)
(* and the next one taken whatever becomes of it.                          *)
(***************************************************************************)
Recovery(step, next) ==
  /\ recovery.step = step
  /\ recovery' = next
  /\ UNCHANGED <<now, network, online, unknown, burn, flow,
                 serviceVars, chainVars>>

(* Mutant: a burn the engine has certified but not settled is recovered.   *)
RecoverableMutant(t) == engine[t] \in {"pending", "settled"}
Recoverable(t) == engine[t] = "settled"

PendingBurns ==
  /\ ~online
  /\ \E t \in Tokens : engine[t] \in {"pending", "certified", "settled"}
  /\ Recovery("idle", [step |-> "persist", todo |-> {t \in Tokens : Recoverable(t)}])
  /\ UNCHANGED <<engine, store>>

(* The engine lists the burns in their order.                              *)
Listed(t) == t \in recovery.todo /\ \A u \in recovery.todo : t <= u

RecoverPersists(t) ==
  /\ Listed(t) /\ t \notin unknown
  /\ Recovery("persist", [recovery EXCEPT !.step = "acknowledge"])
  /\ store' = store \cup {t}
  /\ UNCHANGED engine

(* Mutant: the loop ends at the first burn that cannot be persisted.       *)
AfterFailureMutant(t) == {}
AfterFailure(t) == recovery.todo \ {t}
RecoverSkips(t) ==
  /\ Listed(t)
  /\ \E step \in {"persist", "acknowledge"} :
       Recovery(step, [step |-> "persist", todo |-> AfterFailure(t)])
  /\ UNCHANGED <<engine, store>>
RecoverAcknowledges(t) ==
  /\ Listed(t)
  /\ Recovery("acknowledge", [step |-> "persist", todo |-> recovery.todo \ {t}])
  /\ engine' = Acknowledged(t)
  /\ UNCHANGED store
RecoverEnds ==
  /\ recovery.todo = {}
  /\ Recovery("persist", NoRecovery)
  /\ UNCHANGED <<engine, store>>

(* The app stops and starts again: what it was doing is lost, its store    *)
(* and the engine's journal are not.                                       *)
WalletRestarts ==
  /\ ~online
  /\ flow # Idle \/ recovery.step # "idle"
  /\ flow' = Idle /\ recovery' = NoRecovery
  /\ UNCHANGED <<now, network, online, unknown, burn, engine, store,
                 serviceVars, chainVars>>

(***************************************************************************)
(* POST /returns: api.rs                                                   *)
(***************************************************************************)
(* build_wire_input and the precheck: every certificate of the burned      *)
(* token is verified against the trust base the intake loaded.             *)
PassesPrecheck(t) == burn[t].epoch = base

(* What the service answers: a burn its trust base does not certify fails  *)
(* the precheck before anything else; a return it holds is not charged     *)
(* again.  Room for new returns (`queue_full`) is ReturnLedger's.          *)
Answer(t) ==
  LET refusal == Refusal(policy, burn[t], now) IN
  IF ~PassesPrecheck(t) THEN "precheck_rejected"
  ELSE IF t \in held THEN "accepted"
  ELSE IF refusal # "none" THEN refusal
  ELSE "accepted"

(* The app posts the burned tokens it keeps, again and again, what was     *)
(* accepted or refused too, when it is not busy with a burn: it need not   *)
(* have read an answer.                                                    *)
CreateReturn(t) ==
  /\ online /\ t \in store /\ flow = Idle
  /\ held' = IF Answer(t) = "accepted" THEN held \cup {t} ELSE held
  /\ UNCHANGED <<now, network, online, unknown, walletVars, policy, base, bundles, chainVars>>

(***************************************************************************)
(* The operator.  What it changes matters to burns to come and to answers: *)
(* once every return is held, a change need not be a step.                 *)
(***************************************************************************)
ChangePolicy(p) ==
  /\ online /\ held # Tokens /\ p # policy
  /\ policy' = p
  /\ UNCHANGED <<now, network, online, unknown, walletVars, base, held, bundles,
                 chainVars>>
(* The validator set changes; later the service is restarted with the new  *)
(* trust base, on the deployment configuration that pins it.  Both last:   *)
(* what it holds is in its journal.                                        *)
ChangeValidators ==
  /\ online /\ held # Tokens /\ network + 1 \in Epochs
  /\ network' = network + 1
  /\ UNCHANGED <<now, online, unknown, walletVars, serviceVars, chainVars>>
LoadTrustBase ==
  /\ online /\ held # Tokens /\ base # network
  /\ base' = network
  /\ UNCHANGED <<now, network, online, unknown, walletVars, policy, held, bundles,
                 chainVars>>

(***************************************************************************)
(* A batch is proven on the vault's root; the service submits it, or       *)
(* whoever has its bundle, until a settlement moves the root.              *)
(***************************************************************************)
(* Mutants: whatever was submitted is proven, held or not; what was proven *)
(* once is not proven on the root that came after.                         *)
QueuedMutant == {t \in store : settled[t] = Unsettled}
Queued == {t \in held : settled[t] = Unsettled}

(* Returns are batched, and batched again after a submission that failed   *)
(* or on a root that moved; a stale bundle of theirs is then dropped.  (A  *)
(* batch that fails keeps its own, which the vault takes no more.)         *)
Superseded(b, B) == b.root # root /\ b.members \cap Queued \in (SUBSET B) \ {{}}
Prove(B) ==
  LET bundle == [members |-> B, root |-> root] IN
  /\ B # {} /\ B \subseteq Queued /\ bundle \notin bundles
  /\ \A t, u \in B : burn[t].epoch = burn[u].epoch
  /\ bundles' = {b \in bundles : ~Superseded(b, B)} \cup {bundle}
  /\ UNCHANGED <<now, network, online, unknown, walletVars, policy, base, held,
                 chainVars>>

(* self_settle_from_secs: the latest deadline of the batch.                *)
(* Mutant: the earliest.                                                   *)
SelfSettleFromMutant(b) == Min({burn[t].deadline : t \in b.members})
SelfSettleFrom(b) == Max({burn[t].deadline : t \in b.members})

(* The service publishes a stale bundle too, a settled one among them; the *)
(* vault takes it no more, and fetching it need not be a step.             *)
IsSettled(b) == \A t \in b.members : settled[t] # Unsettled
Published(b) == ~Submits \/ IsSettled(b) \/ now > SelfSettleFrom(b)
GetBatch(b) ==
  /\ b.root = root /\ b \notin shared /\ Published(b)
  /\ shared' = shared \cup {b}
  /\ UNCHANGED <<now, network, online, unknown, walletVars, serviceVars, root,
                 settled>>

(* The vault takes a bundle proven on its root, and moves the root: every  *)
(* other bundle is stale.  It pays every owner; the fee too while the      *)
(* deadline has not passed.                                                *)
FeePaid(t) == IF burn[t].feeTo # NoOne /\ now <= burn[t].deadline THEN burn[t].fee ELSE 0
FulfillBatch(b, who) ==
  /\ b.root = root
  /\ root' = root + 1
  /\ settled' = [t \in Tokens |-> IF t \in b.members THEN [by |-> who, fee |-> FeePaid(t)]
                                  ELSE settled[t]]
  /\ UNCHANGED <<now, network, online, unknown, walletVars, serviceVars, shared>>
ServiceSettles == Submits /\ \E b \in bundles : FulfillBatch(b, "service")
OthersSettle == \E b \in shared : FulfillBatch(b, "others")

(* Returns of other wallets settle too.  What makes no bundle stale need   *)
(* not be a step.                                                          *)
ForeignSettles ==
  /\ root < MaxRoot /\ \E b \in bundles : b.root = root
  /\ root' = root + 1
  /\ UNCHANGED <<now, network, online, unknown, walletVars, serviceVars, shared,
                 settled>>

(* Time matters to the service's answers only.                             *)
Tick ==
  /\ online /\ now < MaxTime
  /\ now' = now + 1
  /\ UNCHANGED <<network, online, unknown, walletVars, serviceVars, chainVars>>

Next ==
  \/ \E t \in Tokens : \/ BurnOnQuote(t) \/ \E d \in OwnDeadlines : BurnOnOwnTerms(t, d)
                      \/ Certify(t) \/ EngineSettles(t)
                      \/ CreateReturn(t)
                      \/ RecoverPersists(t) \/ RecoverSkips(t) \/ RecoverAcknowledges(t)
  \/ BurnReturns \/ BurnFails \/ PersistBurn \/ PersistFails \/ AcknowledgeBurn
  \/ PendingBurns \/ RecoverEnds
  \/ WalletRestarts
  \/ \E p \in Policies : ChangePolicy(p)
  \/ ChangeValidators \/ LoadTrustBase
  \/ \E B \in SUBSET Tokens : Prove(B)
  \/ \E b \in bundles : GetBatch(b)
  \/ ServiceSettles \/ OthersSettle \/ ForeignSettles
  \/ Tick

(* A return that was proven, on roots that have moved since.               *)
Proven(t) == \E b \in bundles : t \in b.members
Stale(t) == Proven(t) /\ settled[t] = Unsettled
            /\ \A b \in bundles : t \in b.members => b.root # root
ProveAgain ==
  Submits /\ \E B \in SUBSET Tokens : (\E t \in B : Stale(t)) /\ Prove(B)

(* The engine finishes the burns it journaled; the app runs its recovery   *)
(* again and again, and its storage does not fail a burn it knows for      *)
(* ever; time passes, and someone fetches what is published and submits    *)
(* it.  A service with a submitter finds its root moved when it submits,   *)
(* and proves on the new one, in a rebase or a retry: a root moves here    *)
(* less often than they are repeated.  Its submissions are promised        *)
(* nothing.                                                                *)
Fairness ==
  /\ WF_vars(\E t \in Tokens : Certify(t) \/ EngineSettles(t))
  /\ WF_vars(BurnReturns \/ PersistBurn)
  /\ WF_vars(PendingBurns \/ RecoverEnds \/ \E t \in Tokens : RecoverAcknowledges(t))
  /\ SF_vars(\E t \in Tokens : RecoverSkips(t))
  /\ \A t \in Tokens : SF_vars(RecoverPersists(t))
  /\ WF_vars(Tick) /\ WF_vars(OthersSettle)
  /\ WF_vars(\E b \in bundles : GetBatch(b)) /\ WF_vars(ProveAgain)
Spec == Init /\ [][Next]_vars /\ Fairness

(***************************************************************************)
(* Properties                                                              *)
(***************************************************************************)

(* Type invariant of the wallet, the service and the chain.                *)
TypeOK ==
  /\ now \in 0..MaxTime /\ network \in Epochs /\ base \in Epochs /\ policy \in Policies
  /\ flow \in [step : {"idle", "burning", "persist", "acknowledge"}, token : Tokens \cup {0}]
  /\ \A t \in Tokens : burn[t].fee <= Amount /\ burn[t].deadline <= MaxU64
  /\ engine \in [Tokens -> {"owned", "pending", "certified", "settled", "released"}]
  /\ recovery.step \in {"idle", "persist", "acknowledge"}
  /\ store \cup held \cup unknown \subseteq Tokens
  /\ root \in Nat /\ bundles \cup shared \subseteq [members : SUBSET held, root : 0..root]

(* The burned token, without which a return cannot be claimed, is never    *)
(* lost: the wallet engine lets go of it only when the app has it, whole,  *)
(* whatever crash, failed write or concurrent recovery comes between the   *)
(* steps of burnForReturn and recoverPendingBurns.                         *)
BurnedTokenKept ==
  \A t \in Tokens : /\ engine[t] = "released" => t \in store
                    /\ t \in store => burn[t].epoch # 0

(* A burn on the terms of a quote is admitted whenever it is submitted in  *)
(* the seven days after it, as long as the policy is the one that quoted:  *)
(* the quoted amount is above the floor and the deadline leaves the settle *)
(* window to the last of these days.                                       *)
QuotedBurnAdmitted ==
  \A t \in Tokens :
    (burn[t].quoted /\ now <= burn[t].at + Allowance)
      => \A p \in Policies : Quote(p, burn[t].at) = [feeTo |-> burn[t].feeTo,
             fee |-> burn[t].fee, deadline |-> burn[t].deadline]
           => Refusal(p, burn[t], now) = "none"

(* No one but the service settles a batch whose proof it keeps to itself   *)
(* while any of its fees is still due: what others submit pays no fee.     *)
OthersCollectNoFee ==
  Submits => \A t \in Tokens : settled[t].by = "others" => settled[t].fee = 0

(* Every burn the network certifies ends up with the app, if its assets    *)
(* know the token: a burn before it that cannot be persisted does not keep *)
(* recovery from it.                                                       *)
CertifiedReachesTheApp ==
  \A t \in Tokens : (engine[t] = "certified" /\ t \notin unknown) ~> (t \in store)

==============================================================================
