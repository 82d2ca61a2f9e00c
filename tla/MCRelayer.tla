------------------------------ MODULE MCRelayer -------------------------------
(***************************************************************************)
(* The relayer on a short chain: the service's settlement m and another    *)
(* settler's o, both proven on the empty root, p proven on o's, and the    *)
(* deposit d.                                                              *)
(***************************************************************************)
EXTENDS Relayer, TLC

CONSTANTS m, o, p, d

MCSettlements == {m, o, p}
MCLeavesOf == m :> {1} @@ o :> {2} @@ p :> {3}
MCRootOf == m :> {} @@ o :> {} @@ p :> {2}
MCFlavours == {Ethereum, Tron}
==============================================================================
