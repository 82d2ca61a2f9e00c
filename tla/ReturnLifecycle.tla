--------------------------- MODULE ReturnLifecycle ----------------------------
(***************************************************************************)
(* What the return service promises of each return it takes, and all that  *)
(* a wallet polling GET /returns can rely on: it is settled only once the  *)
(* vault has released it, and what ended has ended; where the service      *)
(* works on without losing sight of its settlements, it is given up only   *)
(* while the vault has not released it.  Orchestrator implements this      *)
(* specification.                                                          *)
(***************************************************************************)
EXTENDS FiniteSets

CONSTANT Burns

VARIABLES
  phase,    \* what a client can tell of each return
  released, \* burns the vault has released
  tracked   \* the service never stops, nor loses sight of a settlement, in this behaviour

vars == <<phase, released, tracked>>

Unknown == "unknown"
Open == "open"
Settled == "settled"
GivenUp == "given_up"

Init ==
  /\ phase = [r \in Burns |-> Unknown]
  /\ released = {}
  /\ tracked \in BOOLEAN

Move(R, from, to) ==
  /\ R # {} /\ \A r \in R : phase[r] = from
  /\ phase' = [r \in Burns |-> IF r \in R THEN to ELSE phase[r]]
  /\ UNCHANGED <<released, tracked>>

Accept(r) == Move({r}, Unknown, Open)
Settle(R) == R \subseteq released /\ Move(R, Open, Settled)
GiveUp(R) == (tracked => R \cap released = {}) /\ Move(R, Open, GivenUp)

(* The vault releases a batch, whoever proved and submitted it.            *)
Release(R) ==
  /\ R # {} /\ R \cap released = {}
  /\ released' = released \cup R
  /\ UNCHANGED <<phase, tracked>>

Next ==
  \/ \E r \in Burns : Accept(r)
  \/ \E R \in SUBSET Burns : Settle(R) \/ GiveUp(R) \/ Release(R)

Spec == Init /\ [][Next]_vars
==============================================================================
