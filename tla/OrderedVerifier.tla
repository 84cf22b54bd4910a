--------------------------- MODULE OrderedVerifier --------------------------
(***************************************************************************)
(* What consensus.Engine promises of VerifyHeaders: the verdicts of a      *)
(* batch, one per header, "the order is that of the input slice".  The     *)
(* abstract verifier is sequential: it decides header after header and     *)
(* publishes each verdict at once.  The chain may store headers of the     *)
(* batch at any time; a stored header may be waved through.                *)
(***************************************************************************)
EXTENDS HeaderVerdicts, Integers, Sequences

CONSTANTS N         \* len(headers)

VARIABLES kind,     \* kind[i]: class of the header at index i
          seals,    \* seals[i]: whether VerifySeal was requested for it
          known,    \* indices stored by the chain; -1 is the batch's parent
          results   \* verdicts published so far

vars == <<kind, seals, known, results>>

Init == /\ kind \in [0..(N-1) -> Kinds]
        /\ seals \in [0..(N-1) -> BOOLEAN]
        /\ known \subseteq {-1}
        /\ results = <<>>

(* The caller fixes which seals are checked before the first verdict.      *)
Request == /\ results = <<>>
           /\ seals' \in [0..(N-1) -> BOOLEAN]
           /\ UNCHANGED <<kind, known, results>>

(* Another import stores a header.                                         *)
Store(i) == /\ i >= 0 => kind[i] \in Importable
            /\ known' = known \cup {i}
            /\ UNCHANGED <<kind, seals, results>>

Decide == /\ Len(results) < N
          /\ \E v \in PossibleVerdicts(Len(results), kind[Len(results)],
                                       seals[Len(results)],
                                       Len(results) \in known) :
                results' = Append(results, v)
          /\ UNCHANGED <<kind, seals, known>>

Next == Request \/ Decide \/ \E i \in -1..(N-1) : Store(i)

Spec == Init /\ [][Next]_vars
=============================================================================
