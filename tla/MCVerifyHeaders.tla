--------------------------- MODULE MCVerifyHeaders --------------------------
(* Three headers on two workers: a worker takes a second header while the  *)
(* other still holds one, so verdicts are computed out of order, the done  *)
(* channel fills and the last window of sampled seals is a partial one.    *)
EXTENDS VerifyHeaders
=============================================================================
