---------------------------- MODULE MCDownloader ----------------------------
(* Instances of Downloader for TLC. *)
EXTENDS Downloader

(* Block 3 has neither transactions nor uncles, and block 1 no receipts. *)
SomeEmpty == [k \in Kinds |-> IF k = "body" THEN {3} ELSE {1}]

Full(P, n, l, T, f) ==
    [mode |-> "full", peers |-> P, headers |-> n, height |-> n, limit |-> l,
     troubles |-> T, faults |-> f]
Fast(P, n, h, l, T, f) ==
    [mode |-> "fast", peers |-> P, headers |-> n, height |-> h, limit |-> l,
     troubles |-> T, faults |-> f]

(* Answers, timeouts and departures at three headers and two peers; bad     *)
(* chunks and blocks at one; a moving pivot at four headers; bad states,    *)
(* blocks and chunks below a pivot; a stalling state sync; Cancel beside a  *)
(* header timeout, a state sync and a locked pivot; a single peer that      *)
(* leaves or has nothing.                                                   *)
Runs == {Full({"m", "q"}, 3, 2, {"answer", "expire", "leave"}, 1),
         Full({"m"}, 1, 2, {"chunk", "content"}, 1),
         Fast({"m"}, 4, 2, 2, {}, 0),
         Fast({"m"}, 2, 3, 2, {"content", "chunk"}, 1),
         Fast({"m"}, 2, 4, 2, {}, 0),
         Full({"m"}, 0, 2, {"headers", "cancel"}, 2),
         Fast({"m"}, 0, 2, 2, {"stall", "cancel"}, 1), Fast({"m"}, 1, 2, 2, {"cancel"}, 1),
         Full({"m"}, 1, 1, {"answer"}, 1), Full({"m"}, 0, 2, {"leave"}, 1)}

(* A peer leaves while it owes the last bodies. *)
Departure == {Full({"m", "q"}, 2, 2, {"leave"}, 1)}
=============================================================================
