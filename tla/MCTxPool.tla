------------------------------ MODULE MCTxPool ------------------------------
(***************************************************************************)
(* A chain with two branches of one block above the genesis: x includes    *)
(* a0 and a1 of account A and b0 of B, y includes none and leaves A too    *)
(* poor for a1.  A also sends a2 and a replacement r1 of a1; B sends b1    *)
(* and b2, which does not fit beside the others.  When x is abandoned by a *)
(* full pool, b0 may take the place of a1, whose account is left with a    *)
(* gap.                                                                    *)
(***************************************************************************)
EXTENDS TxPool

A == "A"
B == "B"

MCAccounts == {A, B}

MCTxs == {"a0", "a1", "a2", "r1", "b0", "b1", "b2"}

MCFrom == [t \in MCTxs |-> IF t \in {"b0", "b1", "b2"} THEN B ELSE A]

MCNonce == [t \in MCTxs |-> CASE t \in {"a0", "b0"} -> 0
                              [] t \in {"a1", "r1", "b1"} -> 1
                              [] OTHER -> 2]

MCPrice == [t \in MCTxs |-> CASE t \in {"a2", "b0", "b2"} -> 3 [] t = "r1" -> 2 [] OTHER -> 1]

MCCost == [t \in MCTxs |-> IF t = "a1" THEN 2 ELSE 1]

MCBlocks == {"g", "x", "y"}

MCParent == [b \in MCBlocks |-> "g"]

MCHeight == [b \in MCBlocks |-> IF b = "g" THEN 0 ELSE 1]

MCBlockTxs == [b \in MCBlocks |-> IF b = "x" THEN {"a0", "a1", "b0"} ELSE {}]

MCGetNonce == [b \in MCBlocks |-> [a \in MCAccounts |->
    IF b # "x" THEN 0 ELSE IF a = A THEN 2 ELSE 1]]

MCBatches == [c \in {"c", "d"} |->
    IF c = "c" THEN << [txs |-> <<"a0", "b0", "a1", "b1", "a2", "b2">>, local |-> FALSE] >>
    ELSE << [txs |-> <<"r1">>, local |-> TRUE] >>]

MCGetBalance == [b \in MCBlocks |-> [a \in MCAccounts |-> IF b = "y" THEN 1 ELSE 2]]
=============================================================================
