------------------------------ MODULE MCUncles ------------------------------
(***************************************************************************)
(* A window of three ancestors instead of seven: five headers are enough   *)
(* for a chain on which an uncle could be named again while its parent is  *)
(* still in the window, and for one to leave the window.                   *)
(***************************************************************************)
EXTENDS Uncles
=============================================================================
