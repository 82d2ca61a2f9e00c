------------------------------ MODULE MCJournal ------------------------------
(***************************************************************************)
(* The journal through a few commits and crashes.  MaxEvents bounds the    *)
(* commits and MaxCrashes the deaths of the process; the file stays short  *)
(* because every start compacts it.                                        *)
(***************************************************************************)
EXTENDS Journal
==============================================================================
