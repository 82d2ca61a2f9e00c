-------------------------- MODULE BridgeBack_proofs --------------------------
(***************************************************************************)
(* A burned token is never lost, a burn on quoted terms is admitted in     *)
(* time, and no one but the service settles while a fee is due: for every  *)
(* number of tokens, every set of fee policies and every allowance.        *)
(***************************************************************************)
EXTENDS BridgeBack, FiniteSetTheorems, WellFoundedInduction, TLAPS

Recipients == {p.recipient : p \in Policies} \cup {NoOne}
Burns == [fee : 0..Amount, feeTo : Recipients, deadline : 0..MaxU64,
          quoted : BOOLEAN, at : Nat, epoch : Epochs \cup {0}]

(* Types, by the parts of the state that steps of one actor touch.         *)
TypeOfBurns ==
  /\ burn \in [Tokens -> Burns]
  /\ engine \in [Tokens -> {"owned", "pending", "certified", "settled", "released"}]
TypeOfApp ==
  /\ flow \in [step : {"idle", "burning", "persist", "acknowledge"}, token : Tokens \cup {0}]
  /\ flow.step # "idle" => flow.token \in Tokens
  /\ recovery \in [step : {"idle", "persist", "acknowledge"}, todo : SUBSET Tokens]
  /\ store \subseteq Tokens /\ unknown \subseteq Tokens
TypeOfService ==
  /\ now \in 0..MaxTime /\ network \in Epochs /\ base \in Epochs /\ policy \in Policies
  /\ held \subseteq Tokens
  /\ root \in Nat
  /\ bundles \cup shared \subseteq [members : (SUBSET held) \ {{}}, root : 0..root]
TypeInv == TypeOfBurns /\ TypeOfApp /\ TypeOfService

(* Whatever the app does with a burn, the network has certified it.        *)
Done(t) == engine[t] \in {"settled", "released"}
TokenInv ==
  /\ \A t \in Tokens : engine[t] = "certified" \/ Done(t) => burn[t].epoch # 0
  /\ \A t \in Tokens : engine[t] = "released" => t \in store
  /\ \A t \in store : Done(t)
  /\ flow.step \in {"persist", "acknowledge"} => Done(flow.token)
  /\ flow.step = "acknowledge" => flow.token \in store
  /\ \A t \in recovery.todo : Done(t)
  /\ recovery.step = "acknowledge" => \A t \in Tokens : Listed(t) => t \in store

(* A bundle proven on the vault's root has settled nothing yet; one that   *)
(* others hold is stale, or none of its fees is due any more.              *)
SharedInv ==
  /\ held \subseteq store
  /\ \A b \in bundles \cup shared : b.root = root => \A t \in b.members : settled[t] = Unsettled
  /\ Submits => \A b \in shared : b.root # root \/ \A t \in b.members : burn[t].deadline < now
  /\ OthersCollectNoFee

(***************************************************************************)
(* Constants and helpers                                                   *)
(***************************************************************************)
LEMMA TokensAreOrdered ==
  Tokens \subseteq Nat /\ 1 \in Tokens
  <1>1. Cardinality(Tokens) \in Nat
    BY BridgeBackAssumption, FS_CardinalityType
  <1>2. QED
    BY <1>1, BridgeBackAssumption

LEMMA EpochsArePositive ==
  Epochs \subseteq Nat /\ 0 \notin Epochs /\ 1 \in Epochs
  <1>1. Cardinality(Epochs) \in Nat
    BY BridgeBackAssumption, FS_CardinalityType
  <1>2. QED
    BY <1>1, BridgeBackAssumption

(* The engine lists one burn at a time.                                    *)
LEMMA OneListed ==
  ASSUME recovery.todo \subseteq Tokens, NEW t, NEW u, Listed(t), Listed(u)
  PROVE  t = u
  <1>1. t \in Nat /\ u \in Nat
    BY TokensAreOrdered DEF Listed
  <1>2. t <= u /\ u <= t
    BY DEF Listed
  <1>3. QED
    BY <1>1, <1>2

LEMMA SumIsDeadline ==
  ASSUME NEW a \in Nat, NEW b \in Nat
  PROVE  /\ SaturatingAdd(a, b) \in 0..MaxU64
         /\ \A c \in Nat, d \in Nat : a <= c /\ b <= d => SaturatingAdd(a, b) <= SaturatingAdd(c, d)
  BY BridgeBackAssumption DEF SaturatingAdd

(* What the wallet burns on.                                               *)
LEMMA QuoteType ==
  ASSUME NEW p \in Policies, NEW at \in Nat
  PROVE  /\ Quote(p, at).fee \in Nat
         /\ Quote(p, at).feeTo \in Recipients
         /\ Quote(p, at).deadline \in 0..MaxU64
  <1>1. p.amount \in Nat /\ p.window \in Nat /\ Allowance \in Nat /\ MaxU64 \in Nat
    BY BridgeBackAssumption
  <1>2. EarliestDeadline(p, at) \in 0..MaxU64
    BY <1>1, SumIsDeadline DEF EarliestDeadline
  <1> DEFINE e == EarliestDeadline(p, at)
  <1>3. e \in Nat
    BY <1>1, <1>2
  <1>4. SaturatingAdd(e, Allowance) \in 0..MaxU64
    <2> HIDE DEF e
    <2> QED BY <1>1, <1>3, SumIsDeadline
  <1>5. QED
    BY <1>1, <1>4 DEF Quote, Recipients

(* Every nonempty set of naturals has a least element.                     *)
LEMMA LeastExists ==
  ASSUME NEW T, T \subseteq Nat, T # {}
  PROVE  \E x \in T : \A y \in T : x <= y
  <1>1. PICK x \in T : \A y \in T : ~ (<<y, x>> \in OpToRel(<, Nat))
    BY NatLessThanWellFounded, WFMin
  <1>2. \A y \in T : ~ (y < x)
    <2> TAKE y \in T
    <2>1. <<y, x>> \in Nat \X Nat
      OBVIOUS
    <2>2. ~ (<<y, x>> \in {ss \in Nat \X Nat : ss[1] < ss[2]})
      BY <1>1 DEF OpToRel
    <2>3. QED
      BY <2>1, <2>2
  <1>3. QED
    BY <1>2

(* A bounded set of deadlines has a latest one.                            *)
LEMMA MaxIsUpperBound ==
  ASSUME NEW S, S \subseteq 0..MaxU64, S # {}
  PROVE  Max(S) \in S /\ \A d \in S : d <= Max(S)
  <1> DEFINE T == {MaxU64 - d : d \in S}
  <1>1. MaxU64 \in Nat
    BY BridgeBackAssumption
  <1>2. T \subseteq Nat /\ T # {}
    <2>1. \A d \in S : MaxU64 - d \in Nat
      BY <1>1
    <2>2. QED
      BY <2>1
  <1>3. \E x \in T : \A y \in T : x <= y
    <2> HIDE DEF T
    <2> QED BY <1>2, LeastExists
  <1>4. PICK m \in S : \A d \in S : MaxU64 - m <= MaxU64 - d
    BY <1>3
  <1>5. \A d \in S : m >= d
    BY <1>1, <1>4
  <1>6. Max(S) \in S /\ \A d \in S : Max(S) >= d
    BY <1>5 DEF Max
  <1>7. QED
    BY <1>1, <1>6

(***************************************************************************)
(* Types                                                                   *)
(***************************************************************************)
LEMMA InitType == Init => TypeInv
  <1> SUFFICES ASSUME Init PROVE TypeInv
    OBVIOUS
  <1>1. 1 \in Tokens /\ 1 \in Epochs /\ MaxTime \in Nat /\ Amount \in Nat /\ MaxU64 \in Nat
    BY BridgeBackAssumption
  <1>2. NotBurned \in Burns
    BY <1>1 DEF NotBurned, Burns, Recipients
  <1>3. burn \in [Tokens -> Burns]
    BY <1>2 DEF Init
  <1>5. flow \in [step : {"idle", "burning", "persist", "acknowledge"}, token : Tokens \cup {0}]
    BY DEF Init, Idle
  <1>6. recovery \in [step : {"idle", "persist", "acknowledge"}, todo : SUBSET Tokens]
    BY DEF Init, NoRecovery
  <1>7. flow.step = "idle"
    BY DEF Init, Idle
  <1>8. unknown \subseteq Tokens
    BY <1>1 DEF Init
  <1>9. root \in Nat /\ bundles \cup shared = {}
    BY DEF Init
  <1>N. QED
    BY <1>1, <1>3, <1>5, <1>6, <1>7, <1>8, <1>9
       DEF Init, TypeInv, TypeOfBurns, TypeOfApp, TypeOfService

LEMMA TypesAreOK == TypeInv => TypeOK
  <1> SUFFICES ASSUME TypeInv PROVE TypeOK
    OBVIOUS
  <1>1. \A t \in Tokens : burn[t].fee <= Amount /\ burn[t].deadline <= MaxU64
    BY BridgeBackAssumption DEF TypeInv, TypeOfBurns, Burns
  <1>2. recovery.step \in {"idle", "persist", "acknowledge"}
    BY DEF TypeInv, TypeOfApp
  <1>3. QED
    BY <1>1, <1>2 DEF TypeInv, TypeOK, TypeOfBurns, TypeOfApp, TypeOfService

LEMMA BurnType ==
  ASSUME TypeInv, NEW t \in Tokens, NEW terms, NEW quoted \in BOOLEAN,
         terms.fee \in Nat, terms.feeTo \in Recipients, terms.deadline \in 0..MaxU64,
         AskBurn(t, terms, quoted)
  PROVE  TypeInv'
  <1> USE DEF TypeInv
  <1>1. [fee |-> terms.fee, feeTo |-> terms.feeTo, deadline |-> terms.deadline,
         quoted |-> quoted, at |-> now, epoch |-> 0] \in Burns
    BY BridgeBackAssumption DEF AskBurn, Provable, Burns, TypeOfService
  <1>2. TypeOfBurns'
    BY <1>1 DEF AskBurn, TypeOfBurns
  <1>3. TypeOfApp'
    BY DEF AskBurn, TypeOfApp
  <1>4. TypeOfService'
    BY DEF AskBurn, TypeOfService, serviceVars, chainVars
  <1>5. QED
    BY <1>2, <1>3, <1>4

(* What a step that leaves the wallet alone keeps of the types, and one    *)
(* that touches the wallet only.                                           *)
LEMMA TypesApart ==
  /\ TypeOfBurns /\ TypeOfApp /\ UNCHANGED <<unknown, walletVars>> => TypeOfBurns' /\ TypeOfApp'
  /\ TypeOfService /\ UNCHANGED <<now, network, serviceVars, chainVars>> => TypeOfService'
  BY DEF TypeOfBurns, TypeOfApp, TypeOfService, walletVars, serviceVars, chainVars

LEMMA WalletTypes ==
  ASSUME TypeInv,
         \/ BurnReturns \/ BurnFails \/ PersistBurn \/ PersistFails \/ AcknowledgeBurn
         \/ PendingBurns \/ RecoverEnds \/ WalletRestarts
         \/ \E t \in Tokens : \/ Certify(t) \/ EngineSettles(t)
                              \/ RecoverPersists(t) \/ RecoverSkips(t) \/ RecoverAcknowledges(t)
  PROVE  TypeInv'
  <1> USE DEF TypeInv
  <1>1. ASSUME NEW t \in Tokens, Certify(t) \/ EngineSettles(t)
        PROVE  TypeInv'
    <2>1. UNCHANGED <<now, network, serviceVars, chainVars>>
      BY <1>1 DEF Certify, EngineSettles, Engine
    <2>2. TypeOfBurns'
      BY <1>1 DEF TypeOfBurns, TypeOfService, Certify, EngineSettles, Engine, Burns
    <2>3. TypeOfApp'
      BY <1>1 DEF TypeOfApp, Certify, EngineSettles, Engine
    <2>4. QED
      BY <2>1, <2>2, <2>3, TypesApart
  <1>2. CASE BurnReturns \/ BurnFails \/ PersistBurn \/ PersistFails \/ AcknowledgeBurn
    <2>1. UNCHANGED <<now, network, serviceVars, chainVars>>
      BY <1>2 DEF BurnReturns, BurnFails, PersistBurn, PersistFails, AcknowledgeBurn, Flow
    <2>2. TypeOfBurns'
      BY <1>2 DEF TypeOfBurns, BurnReturns, BurnFails, PersistBurn, PersistFails,
                  AcknowledgeBurn, Flow, Acknowledged
    <2>3. TypeOfApp'
      BY <1>2 DEF TypeOfApp, BurnReturns, BurnFails, PersistBurn, PersistFails,
                  AcknowledgeBurn, Flow, Idle
    <2>4. QED
      BY <2>1, <2>2, <2>3, TypesApart
  <1>3. CASE PendingBurns \/ RecoverEnds \/ WalletRestarts
    <2>1. UNCHANGED <<now, network, serviceVars, chainVars>>
      BY <1>3 DEF PendingBurns, RecoverEnds, WalletRestarts, Recovery
    <2>2. TypeOfBurns'
      BY <1>3 DEF TypeOfBurns, PendingBurns, RecoverEnds, WalletRestarts, Recovery
    <2>3. TypeOfApp'
      BY <1>3 DEF TypeOfApp, PendingBurns, RecoverEnds, WalletRestarts, Recovery, Idle, NoRecovery
    <2>4. QED
      BY <2>1, <2>2, <2>3, TypesApart
  <1>4. ASSUME NEW t \in Tokens, RecoverPersists(t) \/ RecoverSkips(t) \/ RecoverAcknowledges(t)
        PROVE  TypeInv'
    <2>1. UNCHANGED <<now, network, serviceVars, chainVars>>
      BY <1>4 DEF RecoverPersists, RecoverSkips, RecoverAcknowledges, Recovery
    <2>2. TypeOfBurns'
      BY <1>4 DEF TypeOfBurns, RecoverPersists, RecoverSkips, RecoverAcknowledges, Recovery,
                  Acknowledged
    <2>3. TypeOfApp'
      BY <1>4 DEF TypeOfApp, RecoverPersists, RecoverSkips, RecoverAcknowledges, Recovery,
                  AfterFailure
    <2>4. QED
      BY <2>1, <2>2, <2>3, TypesApart
  <1>5. QED
    BY <1>1, <1>2, <1>3, <1>4

LEMMA ServiceTypes ==
  ASSUME TypeInv,
         \/ \E t \in Tokens : CreateReturn(t)
         \/ \E p \in Policies : ChangePolicy(p)
         \/ ChangeValidators \/ LoadTrustBase
         \/ \E B \in SUBSET Tokens : Prove(B)
         \/ \E b \in bundles : GetBatch(b)
         \/ ServiceSettles \/ OthersSettle \/ ForeignSettles \/ Tick
  PROVE  TypeInv'
  <1> USE DEF TypeInv
  <1>1. ASSUME NEW t \in Tokens, CreateReturn(t)
        PROVE  TypeInv'
    <2>1. UNCHANGED <<unknown, walletVars>>
      BY <1>1 DEF CreateReturn
    <2>2. held \subseteq held' /\ held' \subseteq Tokens
      BY <1>1 DEF CreateReturn, TypeOfService
    <2>3. UNCHANGED <<root, bundles, shared>>
      BY <1>1 DEF CreateReturn, chainVars
    <2>4. [members : (SUBSET held) \ {{}}, root : 0..root]
            \subseteq [members : (SUBSET held') \ {{}}, root : 0..root']
      BY <2>2, <2>3
    <2>5. bundles' \cup shared' \subseteq [members : (SUBSET held') \ {{}}, root : 0..root']
      BY <2>3, <2>4 DEF TypeOfService
    <2>6. TypeOfService'
      BY <1>1, <2>2, <2>3, <2>5 DEF CreateReturn, TypeOfService
    <2>7. QED
      BY <2>1, <2>6, TypesApart
  <1>2. CASE (\E p \in Policies : ChangePolicy(p)) \/ ChangeValidators \/ LoadTrustBase
    <2>1. UNCHANGED <<unknown, walletVars>>
      BY <1>2 DEF ChangePolicy, ChangeValidators, LoadTrustBase
    <2>2. TypeOfService'
      BY <1>2 DEF TypeOfService, ChangePolicy, ChangeValidators, LoadTrustBase,
                  serviceVars, chainVars
    <2>3. QED
      BY <2>1, <2>2, TypesApart
  <1>3. ASSUME NEW B \in SUBSET Tokens, Prove(B)
        PROVE  TypeInv'
    <2>1. UNCHANGED <<unknown, walletVars>>
      BY <1>3 DEF Prove
    <2>2. [members |-> B, root |-> root] \in [members : (SUBSET held) \ {{}}, root : 0..root]
      BY <1>3 DEF Prove, Queued, TypeOfService
    <2>3. bundles' \subseteq bundles \cup {[members |-> B, root |-> root]}
      BY <1>3 DEF Prove
    <2>4. TypeOfService'
      BY <1>3, <2>2, <2>3 DEF Prove, TypeOfService, chainVars
    <2>5. QED
      BY <2>1, <2>4, TypesApart
  <1>4. CASE (\E b \in bundles : GetBatch(b)) \/ Tick
    <2>1. UNCHANGED <<unknown, walletVars>>
      BY <1>4 DEF GetBatch, Tick
    <2>2. TypeOfService'
      BY <1>4, BridgeBackAssumption DEF TypeOfService, GetBatch, Tick, serviceVars, chainVars
    <2>3. QED
      BY <2>1, <2>2, TypesApart
  <1>5. CASE ServiceSettles \/ OthersSettle \/ ForeignSettles
    <2>1. /\ UNCHANGED <<unknown, walletVars>>
          /\ UNCHANGED <<now, network, base, policy, held, bundles, shared>>
          /\ root' = root + 1
      BY <1>5 DEF ServiceSettles, OthersSettle, FulfillBatch, ForeignSettles, serviceVars
    <2>2. root \in Nat /\ 0..root \subseteq 0..root'
      BY <2>1 DEF TypeOfService
    <2>3. [members : (SUBSET held) \ {{}}, root : 0..root]
            \subseteq [members : (SUBSET held') \ {{}}, root : 0..root']
      BY <2>1, <2>2
    <2>4. bundles' \cup shared' \subseteq [members : (SUBSET held') \ {{}}, root : 0..root']
      BY <2>1, <2>3 DEF TypeOfService
    <2>5. TypeOfService'
      BY <2>1, <2>2, <2>4 DEF TypeOfService
    <2>6. QED
      BY <2>1, <2>5, TypesApart
  <1>6. QED
    BY <1>1, <1>2, <1>3, <1>4, <1>5

LEMMA TypeStep == TypeInv /\ [Next]_vars => TypeInv'
  <1> SUFFICES ASSUME TypeInv, [Next]_vars PROVE TypeInv'
    OBVIOUS
  <1>1. CASE UNCHANGED vars
    <2>1. UNCHANGED <<unknown, walletVars>>
          /\ UNCHANGED <<now, network, serviceVars, chainVars>>
      BY <1>1 DEF vars
    <2>2. QED
      BY <2>1, TypesApart DEF TypeInv
  <1>2. ASSUME NEW t \in Tokens, BurnOnQuote(t)
        PROVE  TypeInv'
    <2> DEFINE q == Quote(policy, now)
    <2>1. policy \in Policies /\ now \in Nat
      BY DEF TypeInv, TypeOfService
    <2>2. q.fee \in Nat /\ q.feeTo \in Recipients /\ q.deadline \in 0..MaxU64
      BY <2>1, QuoteType
    <2>3. AskBurn(t, q, TRUE)
      BY <1>2 DEF BurnOnQuote
    <2> HIDE DEF q
    <2>4. QED
      BY <2>2, <2>3, BurnType
  <1>3. ASSUME NEW t \in Tokens, NEW d \in OwnDeadlines, BurnOnOwnTerms(t, d)
        PROVE  TypeInv'
    <2> DEFINE q == [fee |-> 0, feeTo |-> NoOne, deadline |-> d]
    <2>1. q.fee \in Nat /\ q.feeTo \in Recipients /\ q.deadline \in 0..MaxU64
      BY BridgeBackAssumption DEF Recipients
    <2>2. AskBurn(t, q, FALSE)
      BY <1>3 DEF BurnOnOwnTerms
    <2> HIDE DEF q
    <2>3. QED
      BY <2>1, <2>2, BurnType
  <1>4. QED
    BY <1>1, <1>2, <1>3, WalletTypes, ServiceTypes DEF Next

(***************************************************************************)
(* The burned token                                                        *)
(***************************************************************************)
LEMMA InitToken == Init => TokenInv
  BY DEF Init, TokenInv, Done, Idle, NoRecovery

(* A step that leaves the burns, the app and its engine alone.             *)
LEMMA TokenKept ==
  TokenInv /\ UNCHANGED walletVars => TokenInv'
  BY DEF TokenInv, Done, walletVars, Listed

(* A burn that is asked for had not begun.                                 *)
LEMMA AskKeepsToken ==
  ASSUME TypeInv, TokenInv, NEW t \in Tokens, NEW terms, NEW quoted, AskBurn(t, terms, quoted)
  PROVE  TokenInv'
  <1> USE DEF TypeInv
  <1>1. /\ engine[t] = "owned" /\ ~ Done(t)
        /\ engine' = [engine EXCEPT ![t] = "pending"]
        /\ flow' = [step |-> "burning", token |-> t]
        /\ UNCHANGED <<store, recovery>>
    BY DEF AskBurn, Done
  <1>2. \A u \in Tokens : u # t => engine'[u] = engine[u] /\ burn'[u] = burn[u]
    BY <1>1 DEF AskBurn, TypeOfBurns
  <1>3. engine'[t] = "pending"
    BY <1>1 DEF TypeOfBurns
  <1>4. \A u \in Tokens : Done(u) => u # t /\ Done(u)'
    BY <1>1, <1>2 DEF Done
  <1>5. QED
    BY <1>1, <1>2, <1>3, <1>4 DEF TokenInv, TypeOfApp, Done, Listed

LEMMA EngineKeepsToken ==
  ASSUME TypeInv, TokenInv, NEW t \in Tokens, Certify(t) \/ EngineSettles(t)
  PROVE  TokenInv'
  <1> USE DEF TypeInv
  <1>1. /\ engine[t] \in {"pending", "certified"} /\ UNCHANGED <<flow, store, recovery>>
        /\ \A u \in Tokens : u # t => engine'[u] = engine[u] /\ burn'[u] = burn[u]
        /\ engine'[t] \in {"certified", "settled"}
    BY DEF Certify, EngineSettles, Engine, TypeOfBurns
  <1>2. burn'[t].epoch # 0
    <2>1. CASE Certify(t)
      <3>1. burn'[t].epoch = network
        BY <2>1 DEF Certify, TypeOfBurns, Burns
      <3>2. QED
        BY <3>1, EpochsArePositive DEF TypeOfService
    <2>2. CASE EngineSettles(t)
      BY <2>2 DEF EngineSettles, Engine, TokenInv
    <2>3. QED
      BY <2>1, <2>2
  <1>3. \A u \in Tokens : Done(u) => u # t /\ Done(u)'
    BY <1>1 DEF Done
  <1>4. QED
    BY <1>1, <1>2, <1>3 DEF TokenInv, TypeOfApp, Done, Listed

(* The steps of burnForReturn.                                             *)
LEMMA FlowKeepsToken ==
  ASSUME TypeInv, TokenInv,
         BurnReturns \/ BurnFails \/ PersistBurn \/ PersistFails \/ AcknowledgeBurn
  PROVE  TokenInv'
  <1> USE DEF TypeInv
  <1>1. UNCHANGED <<burn, recovery>>
    BY DEF BurnReturns, BurnFails, PersistBurn, PersistFails, AcknowledgeBurn, Flow
  <1>2. CASE BurnReturns
    BY <1>1, <1>2 DEF BurnReturns, Flow, TokenInv, Done, Listed, TypeOfApp
  <1>3. CASE BurnFails \/ PersistFails
    BY <1>1, <1>3 DEF BurnFails, PersistFails, Flow, Idle, TokenInv, Done, Listed, TypeOfApp
  <1>4. CASE PersistBurn
    BY <1>1, <1>4 DEF PersistBurn, Flow, TokenInv, Done, Listed, TypeOfApp
  <1>5. CASE AcknowledgeBurn
    <2>1. /\ flow.token \in store /\ flow.token \in Tokens /\ Done(flow.token)
          /\ flow' = Idle /\ UNCHANGED store
          /\ engine' = [engine EXCEPT ![flow.token] = "released"]
      BY <1>5 DEF AcknowledgeBurn, Flow, Acknowledged, TokenInv, TypeOfApp
    <2>2. \A u \in Tokens : engine'[u] = IF u = flow.token THEN "released" ELSE engine[u]
      BY <2>1 DEF TypeOfBurns
    <2>3. \A u \in Tokens : Done(u) => Done(u)'
      BY <2>2 DEF Done
    <2>4. QED
      BY <1>1, <2>1, <2>2, <2>3 DEF TokenInv, TypeOfApp, Done, Listed, Idle
  <1>6. QED
    BY <1>2, <1>3, <1>4, <1>5

(* The steps of recoverPendingBurns, and the death of the app.             *)
LEMMA RecoveryKeepsToken ==
  ASSUME TypeInv, TokenInv,
         \/ PendingBurns \/ RecoverEnds \/ WalletRestarts
         \/ \E t \in Tokens : RecoverPersists(t) \/ RecoverSkips(t) \/ RecoverAcknowledges(t)
  PROVE  TokenInv'
  <1> USE DEF TypeInv
  <1>1. UNCHANGED burn
    BY DEF PendingBurns, RecoverEnds, WalletRestarts, RecoverPersists, RecoverSkips,
           RecoverAcknowledges, Recovery
  <1>2. CASE PendingBurns \/ RecoverEnds \/ WalletRestarts
    BY <1>1, <1>2 DEF PendingBurns, RecoverEnds, WalletRestarts, Recovery, Recoverable, Idle,
                      NoRecovery, TokenInv, Done, Listed, TypeOfApp
  <1>3. ASSUME NEW t \in Tokens, RecoverPersists(t)
        PROVE  TokenInv'
    <2>1. /\ Listed(t) /\ Done(t) /\ UNCHANGED <<engine, flow>>
          /\ store' = store \cup {t}
          /\ recovery'.todo = recovery.todo
      BY <1>3 DEF RecoverPersists, Recovery, Listed, TokenInv, TypeOfApp
    <2>2. \A u \in Tokens : Listed(u)' => u = t
      <3>1. \A u \in Tokens : Listed(u)' => Listed(u)
        BY <2>1 DEF Listed
      <3>2. QED
        BY <2>1, <3>1, OneListed DEF TypeOfApp
    <2>3. QED
      BY <1>1, <2>1, <2>2 DEF TokenInv, Done, TypeOfApp
  <1>4. ASSUME NEW t \in Tokens, RecoverSkips(t)
        PROVE  TokenInv'
    <2>1. recovery' = [step |-> "persist", todo |-> recovery.todo \ {t}]
          /\ UNCHANGED <<engine, flow, store>>
      BY <1>4 DEF RecoverSkips, Recovery, AfterFailure
    <2>2. QED
      BY <1>1, <2>1 DEF TokenInv, Done, TypeOfApp
  <1>5. ASSUME NEW t \in Tokens, RecoverAcknowledges(t)
        PROVE  TokenInv'
    <2>1. /\ t \in store /\ Done(t) /\ UNCHANGED <<flow, store>>
          /\ recovery' = [step |-> "persist", todo |-> recovery.todo \ {t}]
          /\ engine' = [engine EXCEPT ![t] = "released"]
      BY <1>5 DEF RecoverAcknowledges, Recovery, Acknowledged, Listed, TokenInv, TypeOfApp
    <2>2. \A u \in Tokens : engine'[u] = IF u = t THEN "released" ELSE engine[u]
      BY <2>1 DEF TypeOfBurns
    <2>3. \A u \in Tokens : Done(u) => Done(u)'
      BY <2>2 DEF Done
    <2>4. QED
      BY <1>1, <2>1, <2>2, <2>3 DEF TokenInv, TypeOfApp, Done
  <1>6. QED
    BY <1>2, <1>3, <1>4, <1>5

LEMMA TokenStep == TypeInv /\ TokenInv /\ [Next]_vars => TokenInv'
  <1> SUFFICES ASSUME TypeInv, TokenInv, [Next]_vars PROVE TokenInv'
    OBVIOUS
  <1>1. CASE UNCHANGED walletVars
    BY <1>1, TokenKept
  <1>2. ASSUME NEW t \in Tokens, BurnOnQuote(t) \/ \E d \in OwnDeadlines : BurnOnOwnTerms(t, d)
        PROVE  TokenInv'
    <2>1. \E terms, quoted : AskBurn(t, terms, quoted)
      BY <1>2 DEF BurnOnQuote, BurnOnOwnTerms
    <2>2. QED
      BY <2>1, AskKeepsToken
  <1>3. CASE \/ \E t \in Tokens : CreateReturn(t)
             \/ \E p \in Policies : ChangePolicy(p)
             \/ ChangeValidators \/ LoadTrustBase
             \/ \E B \in SUBSET Tokens : Prove(B)
             \/ \E b \in bundles : GetBatch(b)
             \/ ServiceSettles \/ OthersSettle \/ ForeignSettles \/ Tick \/ UNCHANGED vars
    <2>1. UNCHANGED walletVars
      BY <1>3 DEF CreateReturn, ChangePolicy, ChangeValidators, LoadTrustBase, Prove, GetBatch,
                  ServiceSettles, OthersSettle, FulfillBatch, ForeignSettles, Tick, vars
    <2>2. QED
      BY <2>1, <1>1
  <1>4. QED
    BY <1>2, <1>3, EngineKeepsToken, FlowKeepsToken, RecoveryKeepsToken DEF Next

(***************************************************************************)
(* The bundles others hold                                                 *)
(***************************************************************************)
LEMMA SharedMembers ==
  ASSUME TypeInv, TokenInv, SharedInv, NEW b \in bundles \cup shared
  PROVE  /\ b.root \in Nat /\ b.root <= root /\ root \in Nat
         /\ b.members # {} /\ \A t \in b.members : t \in Tokens /\ Done(t)
  <1>1. b \in [members : (SUBSET held) \ {{}}, root : 0..root]
    BY DEF TypeInv, TypeOfService
  <1>2. QED
    BY <1>1 DEF TypeInv, TypeOfService, SharedInv, TokenInv

(* What a bundle is published for lasts: its burns are not asked for       *)
(* again, and time does not go back.                                       *)
LEMMA OpenStays ==
  ASSUME TypeInv, TokenInv, SharedInv, now \in Nat, now' \in Nat, now <= now', root' = root,
         \A t \in Tokens : Done(t) => burn'[t].deadline = burn[t].deadline,
         NEW b \in shared, Submits
  PROVE  b.root # root' \/ \A t \in b.members : burn'[t].deadline < now'
  <1>1. CASE b.root # root
    BY <1>1
  <1>2. CASE \A t \in b.members : burn[t].deadline < now
    <2> SUFFICES ASSUME NEW t \in b.members PROVE burn'[t].deadline < now'
      OBVIOUS
    <2>1. t \in Tokens /\ burn'[t].deadline = burn[t].deadline
      BY SharedMembers
    <2>2. burn[t].deadline \in Nat
      BY <2>1, BridgeBackAssumption DEF TypeInv, TypeOfBurns, Burns
    <2>3. QED
      BY <1>2, <2>1, <2>2
  <1>3. QED
    BY <1>1, <1>2 DEF SharedInv

(* A root that moves leaves every bundle behind.                           *)
LEMMA MovedRoot ==
  ASSUME TypeInv, TokenInv, SharedInv, root' = root + 1, UNCHANGED <<bundles, shared>>
  PROVE  \A b \in bundles' \cup shared' : b.root # root'
  <1> SUFFICES ASSUME NEW b \in bundles \cup shared PROVE b.root # root + 1
    OBVIOUS
  <1>1. QED
    BY SharedMembers

(* A settlement by others comes after the deadlines, so it pays no fee.    *)
LEMMA SettlementKeepsShared ==
  ASSUME TypeInv, TokenInv, SharedInv, ServiceSettles \/ OthersSettle \/ ForeignSettles
  PROVE  SharedInv'
  <1>1. /\ root' = root + 1 /\ UNCHANGED <<now, burn, held, store, bundles, shared>>
    BY DEF ServiceSettles, OthersSettle, FulfillBatch, ForeignSettles, walletVars, serviceVars
  <1>2. \A b \in bundles' \cup shared' : b.root # root'
    BY <1>1, MovedRoot
  <1>3. OthersCollectNoFee'
    <2>1. CASE ServiceSettles
      BY <2>1 DEF ServiceSettles, FulfillBatch, SharedInv, OthersCollectNoFee
    <2>2. CASE ForeignSettles
      BY <2>2 DEF ForeignSettles, SharedInv, OthersCollectNoFee
    <2>3. CASE OthersSettle
      <3>1. PICK b \in shared : FulfillBatch(b, "others")
        BY <2>3 DEF OthersSettle
      <3>2. ASSUME Submits, NEW t \in b.members
            PROVE  FeePaid(t) = 0
        <4>1. burn[t].deadline < now
          BY <3>1, <3>2 DEF FulfillBatch, SharedInv
        <4>2. t \in Tokens /\ now \in Nat
          BY <3>2, SharedMembers DEF TypeInv, TypeOfService
        <4>3. burn[t].deadline \in Nat
          BY <4>2, BridgeBackAssumption DEF TypeInv, TypeOfBurns, Burns
        <4>4. QED
          BY <4>1, <4>2, <4>3 DEF FeePaid
      <3>3. ASSUME Submits, NEW t \in Tokens, settled'[t].by = "others"
            PROVE  settled'[t].fee = 0
        <4>1. settled'[t] = IF t \in b.members THEN [by |-> "others", fee |-> FeePaid(t)]
                            ELSE settled[t]
          BY <3>1 DEF FulfillBatch
        <4>2. CASE t \in b.members
          BY <3>2, <3>3, <4>1, <4>2
        <4>3. CASE t \notin b.members
          BY <3>3, <4>1, <4>3 DEF SharedInv, OthersCollectNoFee
        <4>4. QED
          BY <4>2, <4>3
      <3>4. QED
        BY <3>3 DEF OthersCollectNoFee
    <2>4. QED
      BY <2>1, <2>2, <2>3
  <1>4. QED
    BY <1>1, <1>2, <1>3 DEF SharedInv

(* A bundle is handed out once it is settled, which moved the root, or     *)
(* past its last deadline.                                                 *)
LEMMA GetKeepsShared ==
  ASSUME TypeInv, TokenInv, SharedInv, NEW b \in bundles, GetBatch(b)
  PROVE  SharedInv'
  <1>1. /\ UNCHANGED <<now, burn, held, store, bundles, root, settled>>
        /\ shared' = shared \cup {b} /\ Published(b)
    BY DEF GetBatch, walletVars, serviceVars
  <1>2. b.members # {} /\ \A t \in b.members : t \in Tokens
    BY SharedMembers
  <1>3. ASSUME Submits PROVE b.root # root \/ \A t \in b.members : burn[t].deadline < now
    <2>1. CASE IsSettled(b)
      BY <1>2, <2>1 DEF IsSettled, SharedInv
    <2>2. CASE now > SelfSettleFrom(b)
      <3> DEFINE S == {burn[t].deadline : t \in b.members}
      <3>1. S \subseteq 0..MaxU64 /\ S # {}
        BY <1>2 DEF TypeInv, TypeOfBurns, Burns
      <3>2. Max(S) \in S /\ \A d \in S : d <= Max(S)
        <4> HIDE DEF S
        <4> QED BY <3>1, MaxIsUpperBound
      <3>3. now > Max(S)
        BY <2>2 DEF SelfSettleFrom
      <3>4. \A d \in S : d < now
        <4>1. now \in Nat /\ MaxU64 \in Nat
          BY BridgeBackAssumption DEF TypeInv, TypeOfService
        <4>2. Max(S) \in 0..MaxU64
          BY <3>1, <3>2
        <4> HIDE DEF S
        <4>3. QED
          BY <3>1, <3>2, <3>3, <4>1, <4>2
      <3>5. QED
        BY <3>4
    <2>3. QED
      BY <1>1, <1>3, <2>1, <2>2 DEF Published
  <1>4. QED
    BY <1>1, <1>3 DEF SharedInv, OthersCollectNoFee

(* What is proven on the vault's root has not settled.                     *)
LEMMA ProofKeepsShared ==
  ASSUME TypeInv, TokenInv, SharedInv, NEW B \in SUBSET Tokens, Prove(B)
  PROVE  SharedInv'
  <1>1. /\ UNCHANGED <<now, burn, held, store, root, shared, settled>>
        /\ bundles' \subseteq bundles \cup {[members |-> B, root |-> root]}
        /\ \A t \in B : settled[t] = Unsettled
    BY DEF Prove, Queued, walletVars, chainVars
  <1>2. QED
    BY <1>1 DEF SharedInv, OthersCollectNoFee

LEMMA SharedStep == TypeInv /\ TokenInv /\ SharedInv /\ [Next]_vars => SharedInv'
  <1> SUFFICES ASSUME TypeInv, TokenInv, SharedInv, [Next]_vars PROVE SharedInv'
    OBVIOUS
  <1>1. CASE ServiceSettles \/ OthersSettle \/ ForeignSettles
    BY <1>1, SettlementKeepsShared
  <1>2. CASE \E b \in bundles : GetBatch(b)
    BY <1>2, GetKeepsShared
  <1>3. CASE \E B \in SUBSET Tokens : Prove(B)
    BY <1>3, ProofKeepsShared
  <1>4. ASSUME UNCHANGED <<root, bundles, shared, settled>>, held' \subseteq store',
               now \in Nat, now' \in Nat, now <= now',
               \A t \in Tokens : Done(t) => burn'[t].deadline = burn[t].deadline
        PROVE  SharedInv'
    <2>1. Submits => \A b \in shared : b.root # root' \/ \A t \in b.members : burn'[t].deadline < now'
      BY <1>4, OpenStays
    <2>2. QED
      BY <1>4, <2>1 DEF SharedInv, OthersCollectNoFee
  <1>5. now \in Nat /\ held \subseteq store
    BY DEF TypeInv, TypeOfService, SharedInv
  <1>6. ASSUME NEW t \in Tokens, BurnOnQuote(t) \/ \E d \in OwnDeadlines : BurnOnOwnTerms(t, d)
        PROVE  SharedInv'
    <2>1. PICK terms, quoted : AskBurn(t, terms, quoted)
      BY <1>6 DEF BurnOnQuote, BurnOnOwnTerms
    <2>2. \A u \in Tokens : Done(u) => burn'[u] = burn[u]
      BY <2>1 DEF AskBurn, Done, TypeInv, TypeOfBurns
    <2>3. QED
      BY <1>4, <1>5, <2>1, <2>2 DEF AskBurn, chainVars, serviceVars
  <1>7. ASSUME NEW t \in Tokens, Certify(t)
        PROVE  SharedInv'
    <2>1. \A u \in Tokens : burn'[u].deadline = burn[u].deadline
      BY <1>7 DEF Certify, TypeInv, TypeOfBurns, Burns
    <2>2. QED
      BY <1>4, <1>5, <1>7, <2>1 DEF Certify, Engine, chainVars, serviceVars
  <1>8. CASE \/ \E t \in Tokens : \/ EngineSettles(t) \/ CreateReturn(t) \/ RecoverPersists(t)
                                  \/ RecoverSkips(t) \/ RecoverAcknowledges(t)
             \/ BurnReturns \/ BurnFails \/ PersistBurn \/ PersistFails \/ AcknowledgeBurn
             \/ PendingBurns \/ RecoverEnds \/ WalletRestarts
    <2>1. /\ UNCHANGED <<root, bundles, shared, settled, now, burn>>
          /\ held' \subseteq store'
      BY <1>5, <1>8 DEF EngineSettles, Engine, CreateReturn, RecoverPersists, RecoverSkips,
         RecoverAcknowledges, BurnReturns, BurnFails, PersistBurn, PersistFails, AcknowledgeBurn,
         PendingBurns, RecoverEnds, WalletRestarts, Flow, Recovery, chainVars, serviceVars, walletVars
    <2>2. QED
      BY <1>4, <1>5, <2>1
  <1>9. CASE \/ \E p \in Policies : ChangePolicy(p)
             \/ ChangeValidators \/ LoadTrustBase \/ Tick \/ UNCHANGED vars
    <2>1. /\ UNCHANGED <<root, bundles, shared, settled, held, store, burn>>
          /\ now' \in Nat /\ now <= now'
      BY <1>5, <1>9 DEF ChangePolicy, ChangeValidators, LoadTrustBase, Tick, vars,
         chainVars, serviceVars, walletVars
    <2>2. QED
      BY <1>4, <1>5, <2>1
  <1>10. QED
    BY <1>1, <1>2, <1>3, <1>6, <1>7, <1>8, <1>9 DEF Next

(***************************************************************************)
(* Theorems                                                                *)
(***************************************************************************)
IInv == TypeInv /\ TokenInv /\ SharedInv

LEMMA Inductive == Spec => []IInv
  <1>1. Init => IInv
    <2>1. Init => SharedInv
      BY DEF Init, SharedInv, OthersCollectNoFee, Unsettled
    <2>2. QED
      BY <2>1, InitType, InitToken DEF IInv
  <1>2. IInv /\ [Next]_vars => IInv'
    BY TypeStep, TokenStep, SharedStep DEF IInv
  <1>3. QED
    BY <1>1, <1>2, PTL DEF Spec

(* Type correctness of the wallet, the service and the chain.              *)
THEOREM TypeCorrect == Spec => []TypeOK
  <1>1. IInv => TypeOK
    BY TypesAreOK DEF IInv
  <1>2. QED
    BY <1>1, Inductive, PTL

(* The wallet engine lets go of a burned token only when the app has it    *)
(* with its certificate: burnForReturn and recoverPendingBurns persist it  *)
(* before they acknowledge it, whichever of them runs, dies or fails where.*)
THEOREM TokensKept == Spec => []BurnedTokenKept
  <1>1. IInv => BurnedTokenKept
    BY DEF IInv, TokenInv, BurnedTokenKept, Done
  <1>2. QED
    BY <1>1, Inductive, PTL

(* A burn on quoted terms is admitted for the whole of SUBMIT_ALLOWANCE,   *)
(* where FeePolicy saturates too: the deadline quoted is never before the  *)
(* earliest one the policy takes by then.                                  *)
THEOREM QuotesHold == Spec => []QuotedBurnAdmitted
  <1>1. ASSUME TypeInv, NEW t \in Tokens, now <= burn[t].at + Allowance, NEW p \in Policies,
               Quote(p, burn[t].at) = [feeTo |-> burn[t].feeTo, fee |-> burn[t].fee,
                                       deadline |-> burn[t].deadline]
        PROVE  Refusal(p, burn[t], now) = "none"
    <2> DEFINE at == burn[t].at
    <2>1. /\ now \in Nat /\ at \in Nat /\ Allowance \in Nat /\ MaxU64 \in Nat
          /\ p.amount \in Nat /\ p.floor \in Nat /\ p.window \in Nat /\ p.floor <= p.amount
      BY <1>1, BridgeBackAssumption
         DEF TypeInv, TypeOfBurns, TypeOfService, Burns, FloorWithinAmount
    <2>2. /\ burn[t].feeTo = p.recipient /\ burn[t].fee = p.amount
          /\ burn[t].deadline = SaturatingAdd(SaturatingAdd(at, p.window), Allowance)
      BY <1>1 DEF Quote, EarliestDeadline
    <2>3. EarliestDeadline(p, now) <= burn[t].deadline
      <3> HIDE DEF at
      <3> QED BY <1>1, <2>1, <2>2 DEF SaturatingAdd, EarliestDeadline, at
    <2>4. EarliestDeadline(p, now) \in Nat /\ burn[t].deadline \in Nat
      <3>1. burn[t].deadline \in Nat
        BY <2>1, <1>1 DEF TypeInv, TypeOfBurns, Burns
      <3>2. QED
        BY <3>1, <2>1 DEF EarliestDeadline, SaturatingAdd
    <2>5. QED
      BY <2>1, <2>2, <2>3, <2>4 DEF Refusal
  <1>2. IInv => QuotedBurnAdmitted
    BY <1>1 DEF IInv, QuotedBurnAdmitted
  <1>3. QED
    BY <1>2, Inductive, PTL

(* A service that submits keeps its fees: get_batch hands out a bundle to  *)
(* others only when no deadline of its members is to come, or it is        *)
(* settled.                                                                *)
THEOREM FeesAreTheServices == Spec => []OthersCollectNoFee
  <1>1. IInv => OthersCollectNoFee
    BY DEF IInv, SharedInv
  <1>2. QED
    BY <1>1, Inductive, PTL
=============================================================================
