--------------------------- MODULE HeaderVerdicts ---------------------------
(***************************************************************************)
(* What the engine may answer about one header of a batch.  Shared by the  *)
(* sequential reference (OrderedVerifier) and the concurrent pipeline      *)
(* (VerifyHeaders).  A header is abstracted to the outcome classes that    *)
(* verifyHeader and ValidateHeaderChain tell apart:                        *)
(*   valid    every rule holds                                             *)
(*   invalid  a rule that is checked with or without the seal fails        *)
(*   badSeal  only a rule of VerifySeal fails                              *)
(*   future   valid, but its time is ahead of the clock for now            *)
(*   banned   valid, but its hash is listed in core.BadHashes              *)
(***************************************************************************)
EXTENDS Naturals

Kinds == {"valid", "invalid", "badSeal", "future", "banned"}

Errors == {"nil", "errUnknownAncestor", "errInvalid", "errFuture"}

(* verifyHeader: the future check reads the clock, so it may pass or fail. *)
verifyHeader(kind, seal) ==
    CASE kind = "invalid" -> {"errInvalid"}
      [] kind = "badSeal" -> IF seal THEN {"errInvalid"} ELSE {"nil"}
      [] kind = "future"  -> {"nil", "errFuture"}
      [] OTHER            -> {"nil"}

(* verifyHeaderWorker: parent lookup first, then the known-header short    *)
(* cut, then the rules.                                                    *)
verifyHeaderWorker(kind, seal, hasParent, isKnown) ==
    IF ~hasParent THEN {"errUnknownAncestor"}
    ELSE IF isKnown THEN {"nil"}
    ELSE verifyHeader(kind, seal)

(* The answers that are legitimate for the header at index i of a linked   *)
(* batch, once it is known or not that the chain stores the header.        *)
PossibleVerdicts(i, kind, seal, isKnown) ==
    verifyHeader(kind, seal) \cup (IF i = 0 THEN {"errUnknownAncestor"} ELSE {})
                             \cup (IF isKnown THEN {"nil"} ELSE {})

(* Headers that another import of this node may have stored: what passed   *)
(* ValidateHeaderChain, where a bad seal passes unless it is sampled.      *)
Importable == {"valid", "future", "badSeal"}
=============================================================================
