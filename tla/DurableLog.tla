------------------------------ MODULE DurableLog ------------------------------
(***************************************************************************)
(* What the return service is promised of its journal: what a client has   *)
(* been shown the effect of is kept, in order, for good; beyond it there   *)
(* is at most the one event whose commit was under way, which a crash may  *)
(* keep, drop or bring back, and the interruption of a proof it cut off.   *)
(* Journal implements this specification, crashes and all.                 *)
(***************************************************************************)
EXTENDS Sequences

CONSTANTS Events, Interruption

VARIABLES
  log,   \* the events a start would find
  shown  \* those a client has been shown the effect of

vars == <<log, shown>>

Tails ==
  {<<>>, <<Interruption>>} \cup {<<e>> : e \in Events} \cup {<<e, Interruption>> : e \in Events}

Init == log = <<>> /\ shown = <<>>

Write == \E tail \in Tails : log' = shown \o tail /\ UNCHANGED shown
Show == \E tail \in Tails : log' = shown \o tail /\ shown' = log'

Next == Write \/ Show

Spec == Init /\ [][Next]_vars
==============================================================================
