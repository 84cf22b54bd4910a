------------------------------ MODULE MCTppow -------------------------------
(***************************************************************************)
(* Two blocks on a genesis block whose gas limit is far below the floor    *)
(* or above the ceiling, the second block past the change of the           *)
(* difficulty; three nonces; hashes that pass both targets, the first one  *)
(* only, or none; a second block that comes at once or after more than     *)
(* the target time.                                                        *)
(***************************************************************************)
EXTENDS Tppow
=============================================================================
