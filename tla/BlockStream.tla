---------------------------- MODULE BlockStream ----------------------------
(***************************************************************************)
(* What a synchronisation promises of blocks: headers are announced in     *)
(* order, blocks become whole in any order, and whole blocks enter the     *)
(* chain in the order of their numbers, each once.                         *)
(***************************************************************************)
EXTENDS Integers

VARIABLES promised,   \* number of the last header announced
          whole,      \* blocks all of whose parts were delivered
          chain       \* number of the last block in the chain

Init == promised = 0 /\ whole = {} /\ chain = 0

Promise ==
    /\ promised' \in Nat /\ promised' > promised
    /\ UNCHANGED <<whole, chain>>

Complete ==
    /\ \E B \in SUBSET (1..promised) : whole' = whole \cup B
    /\ UNCHANGED <<promised, chain>>

Extend ==
    /\ chain' \in Nat /\ chain' > chain /\ chain + 1 .. chain' \subseteq whole
    /\ UNCHANGED <<promised, whole>>

Spec == Init /\ [][Promise \/ Complete \/ Extend]_<<promised, whole, chain>>
=============================================================================
