------------------------------ MODULE MCMiner -------------------------------
(***************************************************************************)
(* Two users make one call each at any moment, concurrently or one after   *)
(* the other, during two synchronisations of which update sees the first.  *)
(***************************************************************************)
EXTENDS Miner
=============================================================================
