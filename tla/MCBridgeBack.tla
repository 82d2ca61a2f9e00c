---------------------------- MODULE MCBridgeBack ----------------------------
(***************************************************************************)
(* Instances of BridgeBack: two tokens of value 2, and an allowance of one *)
(* unit.  The policies quote a fee of one: enforced with a settle window   *)
(* of one unit, or not enforced with a window of two.  A burn that names   *)
(* no fee names a deadline beyond the clock.  Another wallet's return      *)
(* settles once.                                                           *)
(***************************************************************************)
EXTENDS BridgeBack

Paid    == [recipient |-> "operator", amount |-> 1, floor |-> 1, window |-> 1]
Lenient == [recipient |-> "operator", amount |-> 1, floor |-> 0, window |-> 2]

MCTokens   == 1..2
MCPolicies == {Paid, Lenient}
MCEpochs   == 1..2
MCOwnDeadlines == {9}
=============================================================================
