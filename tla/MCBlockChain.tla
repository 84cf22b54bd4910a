---------------------------- MODULE MCBlockChain ----------------------------
(***************************************************************************)
(* The instance of the block chain : three blocks.  TriesInMemory is 2     *)
(* instead of 128, so that the third block makes states be collected;      *)
(* weights 1 and 2 make a shorter chain the heavier one, and weight 0      *)
(* leaves a child of the head on the side.                                 *)
(* One crash at any point and one restart.                                 *)
(***************************************************************************)
EXTENDS BlockChain
=============================================================================
