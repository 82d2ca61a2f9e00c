---------------------------- MODULE MCOrchestrator ----------------------------
(***************************************************************************)
(* The return service on small instances: burns r1 to r3 held by the       *)
(* service, and x held by another settler.                                 *)
(***************************************************************************)
EXTENDS Orchestrator, TLC

CONSTANTS r1, r2, r3, x, base, MaxBatches, MaxSettlements

TwoBurns == {r1, r2}
ThreeBurns == {r1, r2, r3}
Others == {x}
SameBase == [r \in Burns |-> base]
OwnLocks == [r \in Burns |-> {r}]
SharedLock == [r \in Burns |-> {base}]
Nobody == {}
OneBurnBad == {r2}

(* What other settlers prove: a burn of their own, one of the service's as *)
(* well, or both in one bundle.                                            *)
OtherSettlesOwn == {{x}}
OtherSettlesBoth == {{x}, {r1}}
OtherSettlesSuperset == {{r1, x}}

(* Fault profiles: everything, everything but a lying log, each kind apart *)
(* from those that may do more harm or harm it together, nothing.          *)
AllFaults == {FaultKinds}
HonestLog == {FaultKinds \ {"lying"}}
Severities ==
  {Stops, Interruptions \ Stops, SetAsides, FaultKinds \ (Interruptions \cup SetAsides)}
NoFaults == {{}}

(* The burns of the service are interchangeable where each has its own     *)
(* lock and no other settler holds one.                                    *)
Interchangeable == Permutations(Burns)

(* The bounds of the instances: batches formed and settlements mined.      *)
Bounds ==
  /\ Len(ledger.batches) <= MaxBatches
  /\ Len(vaultLog) <= MaxSettlements
==============================================================================
