------------------------------ MODULE MCWorker ------------------------------
(***************************************************************************)
(* The instances of the mining worker.  Calls, blocks and transactions    *)
(* are what grows, and the configurations bound them:                      *)
(*   Worker_safety    a transaction that reaches the pool at any moment,   *)
(*                    an imported block, a side block, start, stop and a   *)
(*                    request that ends in an error; channels of the real  *)
(*                    capacity                                             *)
(*   Worker_live      a transaction in the pool from the beginning, two    *)
(*                    blocks that are found, one of which may fail to be   *)
(*                    written, start, and either an imported block or      *)
(*                    close at any moment; tasks that are stale as soon as *)
(*                    their height is reached, and room for a single       *)
(*                    resubmit report, so that the channel fills           *)
(***************************************************************************)
EXTENDS Worker
=============================================================================
