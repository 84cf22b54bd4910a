---------------------------- MODULE MinerProofs -----------------------------
(***************************************************************************)
(* Starting is forbidden only during a synchronisation, for any number of  *)
(* users, of calls and of synchronisations.                                *)
(***************************************************************************)
EXTENDS Miner, TLAPS

(* Where update is: handling events, or past the end of the first          *)
(* synchronisation.                                                        *)
Handling == {"select", "forbid", "mining", "stopWorker", "clearShould", "resume", "load", "permit"}
Late == {"clear", "read", "setShould", "setMiner", "setWorker", "canStart", "setRunning",
         "send", "unsubscribe", "returned"}

ShutDown == closed \/ \E u \in Users : call[u] = "shutdown"

Types ==
    /\ pc = [p \in Procs |-> pc[p]] /\ call = [p \in Procs |-> call[p]]
    /\ canStart \in {0, 1}
    /\ pc[Update] \in {"subscribe"} \cup Handling \cup Late
    /\ call[Update] \in {"none", "start"}

(* A user's last call is known from where it is.                           *)
CallInv ==
    \A u \in Users : /\ pc[u] = "muxStop" => call[u] = "shutdown"
                     /\ pc[u] = "idle" => call[u] = "none"

(* Until the node is shut down update is subscribed while it handles       *)
(* events, StartEvent is handled during a synchronisation, and starting    *)
(* is permitted before and after.                                          *)
PhaseInv ==
    \/ ShutDown
    \/ /\ pc[Update] = "subscribe" => canStart = 1 /\ sub = "none"
       /\ pc[Update] \in Handling => sub = "open"
       /\ pc[Update] = "forbid" => sync \in {"syncing", "postEnd"}
       /\ pc[Update] \in Late => canStart = 1
       /\ canStart = 0 => \/ sync \in {"syncing", "postEnd"}
                          \/ pc[Update] \in {"load", "permit"}

IInv == Types /\ CallInv /\ PhaseInv

-----------------------------------------------------------------------------
(* Update is not a user.                                                   *)
LEMMA UpdateIsProc == Update \in Procs /\ Users \subseteq Procs /\ Update \notin Users
  BY MinerAssumption DEF Procs

(* The first state.                                                        *)
LEMMA InitIInv == Init => IInv
  <1> SUFFICES ASSUME Init PROVE IInv
    OBVIOUS
  <1>1. Types
    BY UpdateIsProc DEF Init, Types
  <1>2. CallInv
    BY UpdateIsProc DEF Init, CallInv
  <1>3. PhaseInv
    BY UpdateIsProc DEF Init, PhaseInv, Handling, Late
  <1> QED
    BY <1>1, <1>2, <1>3 DEF IInv

(* A user's step that is not the start of a call changes neither canStart  *)
(* nor the place of update; only a shutdown closes the subscription.       *)
LEMMA CallerKeeps == ASSUME IInv, NEW u \in Users, Caller(u) PROVE IInv'
  <1> USE UpdateIsProc
  <1>1. Types /\ CallInv /\ PhaseInv
    BY DEF IInv
  <1> DEFINE Moved == /\ pc' = [q \in Procs |-> pc'[q]]
                      /\ \A q \in Procs \ {u} : pc'[q] = pc[q]
                      /\ pc'[u] # "idle" /\ (pc'[u] = "muxStop" => call[u] = "shutdown")
  <1>2. ASSUME IsMining(u) \/ Close(u) \/ MuxStop(u) PROVE Moved
    BY <1>1, <1>2 DEF Types, IsMining, Close, MuxStop, At
  <1>3. ASSUME Start(u) \/ Stop(u) PROVE Moved
    <2>1. CASE SetShould(u) \/ SetMiner(u) \/ SetWorker(u)
      BY <1>1, <2>1 DEF Types, SetShould, SetMiner, SetWorker, At
    <2>2. CASE CanStart(u) \/ SetRunning(u) \/ Send(u)
      BY <1>1, <2>2 DEF Types, CanStart, SetRunning, Send, Return, At
    <2>3. CASE StopWorker(u) \/ ClearShould(u)
      BY <1>1, <2>3 DEF Types, StopWorker, ClearShould, At
    <2> QED
      BY <1>3, <2>1, <2>2, <2>3 DEF Start, Stop
  <1>4. Moved
    BY <1>2, <1>3 DEF Caller
  <1>5. /\ call' = call /\ canStart' = canStart /\ sync' = sync /\ (closed => closed')
        /\ sub' = sub \/ pc[u] = "muxStop"
    BY DEF Caller, IsMining, Close, MuxStop, Start, SetShould, SetMiner, SetWorker, CanStart,
           SetRunning, Send, Stop, StopWorker, ClearShould, At, flags, downloader
  <1>6. pc'[Update] = pc[Update]
    BY <1>4
  <1>7. Types'
    BY <1>1, <1>4, <1>5, <1>6 DEF Types
  <1>8. CallInv'
    BY <1>1, <1>4, <1>5 DEF CallInv
  <1>9. PhaseInv'
    <2>1. CASE ShutDown
      BY <1>5, <2>1 DEF ShutDown, PhaseInv
    <2>2. CASE pc[u] = "muxStop"
      BY <1>1, <1>5, <2>2 DEF CallInv, ShutDown, PhaseInv
    <2>3. CASE ~ShutDown /\ sub' = sub
      BY <1>1, <1>5, <1>6, <2>3 DEF PhaseInv
    <2> QED
      BY <1>5, <2>1, <2>2, <2>3
  <1> QED
    BY <1>7, <1>8, <1>9 DEF IInv

(* A call begins.                                                          *)
LEMMA BeginKeeps == ASSUME IInv, NEW u \in Users, NEW op \in Calls, Begin(u, op) PROVE IInv'
  <1> USE UpdateIsProc
  <1>1. Types /\ CallInv /\ PhaseInv
    BY DEF IInv
  <1>3. /\ pc[u] = "idle" /\ pc'[u] \notin {"idle", "muxStop"}
        /\ pc' = [q \in Procs |-> pc'[q]] /\ \A q \in Procs \ {u} : pc'[q] = pc[q]
    BY <1>1 DEF Types, Begin, At
  <1>4. /\ call' = [call EXCEPT ![u] = op] /\ canStart' = canStart /\ sync' = sync
        /\ closed' = closed /\ sub' = sub
    BY DEF Begin, flags, downloader
  <1>6. /\ call' = [q \in Procs |-> call'[q]] /\ call'[u] = op /\ \A q \in Procs \ {u} : call'[q] = call[q]
    BY <1>1, <1>4 DEF Types
  <1>7. Types'
    BY <1>1, <1>3, <1>4, <1>6 DEF Types
  <1>8. CallInv'
    BY <1>1, <1>3, <1>6 DEF CallInv
  <1>9. PhaseInv'
    <2>1. CASE ShutDown
      <3>1. call[u] = "none"
        BY <1>1, <1>3 DEF CallInv
      <3>2. ShutDown'
        BY <1>4, <1>6, <2>1, <3>1 DEF ShutDown
      <3> QED
        BY <3>2 DEF PhaseInv
    <2>2. CASE ~ShutDown
      BY <1>1, <1>3, <1>4, <2>2 DEF PhaseInv
    <2> QED
      BY <2>1, <2>2
  <1> QED
    BY <1>7, <1>8, <1>9 DEF IInv
(* A step of update: it moves from one place to another, and no call       *)
(* begins.                                                                 *)
LEMMA UpdaterKeeps == ASSUME IInv, Updater PROVE IInv'
  <1> USE UpdateIsProc
  <1>1. Types /\ CallInv /\ PhaseInv
    BY DEF IInv
  <1> DEFINE Moved == /\ pc' = [q \in Procs |-> pc'[q]]
                      /\ \A q \in Procs \ {Update} : pc'[q] = pc[q]
                      /\ pc'[Update] \in Handling \cup Late
                      /\ call' = [q \in Procs |-> call'[q]] /\ call'[Update] \in {"none", "start"}
                      /\ \A q \in Procs \ {Update} : call'[q] = call[q]
                      /\ canStart' \in {0, 1} /\ sync' = sync /\ closed' = closed
             Phase == ~ShutDown => PhaseInv'
  <1>2. ASSUME Subscribe \/ Quit \/ Unsubscribe PROVE Moved /\ Phase
    <2>1. Moved
      BY <1>1, <1>2 DEF Types, Subscribe, Quit, Unsubscribe, At, Handling, Late, flags, downloader
    <2>2. Phase
      BY <1>1, <1>2, <2>1 DEF Types, Subscribe, Quit, Unsubscribe, At, PhaseInv, ShutDown, Handling,
                              Late, flags, downloader
    <2> QED
      BY <2>1, <2>2
  <1>3. ASSUME Forbid \/ Mining \/ Resume PROVE Moved /\ Phase
    <2>1. Moved
      BY <1>1, <1>3 DEF Types, Forbid, Mining, Resume, At, Handling, Late, flags, downloader
    <2>2. Phase
      BY <1>1, <1>3, <2>1 DEF Types, Forbid, Mining, Resume, At, PhaseInv, Handling, Late, flags
    <2> QED
      BY <2>1, <2>2
  <1>4. ASSUME Load \/ Permit \/ Clear \/ ReadCoinbase PROVE Moved /\ Phase
    <2>1. Moved
      BY <1>1, <1>4 DEF Types, Load, Permit, Clear, ReadCoinbase, At, Handling, Late, flags, downloader
    <2>2. Phase
      BY <1>1, <1>4, <2>1 DEF Types, Load, Permit, Clear, ReadCoinbase, At, PhaseInv, Handling, Late,
                              flags
    <2> QED
      BY <2>1, <2>2
  <1>5. ASSUME Start(Update) PROVE Moved /\ Phase
    <2>1. pc[Update] \in Late \ {"unsubscribe", "returned"} /\ pc'[Update] \in Late
          /\ canStart' = canStart
      BY <1>1, <1>5 DEF Types, Start, SetShould, SetMiner, SetWorker, CanStart, SetRunning, Send,
                        Return, At, Late, flags
    <2>2. Moved
      BY <1>1, <1>5, <2>1 DEF Types, Start, SetShould, SetMiner, SetWorker, CanStart, SetRunning, Send,
                              At, flags, downloader
    <2>3. Phase
      BY <1>1, <2>1, <2>2 DEF PhaseInv, Handling, Late
    <2> QED
      BY <2>2, <2>3
  <1>6. ASSUME Stop(Update) PROVE Moved /\ Phase
    <2>1. Moved
      BY <1>1, <1>6 DEF Types, Stop, StopWorker, ClearShould, At, Handling, Late, flags, downloader
    <2>2. Phase
      BY <1>1, <1>6, <2>1 DEF Types, Stop, StopWorker, ClearShould, At, PhaseInv, Handling, Late
    <2> QED
      BY <2>1, <2>2
  <1>7. Moved /\ Phase
    BY <1>2, <1>3, <1>4, <1>5, <1>6 DEF Updater
  <1>8. Types'
    BY <1>7 DEF Types
  <1>9. CallInv'
    BY <1>1, <1>7 DEF CallInv
  <1>10. PhaseInv'
    <2>1. ShutDown => ShutDown'
      BY <1>7 DEF ShutDown
    <2> QED
      BY <1>7, <2>1 DEF PhaseInv
  <1> QED
    BY <1>8, <1>9, <1>10 DEF IInv

(* The downloader: an event it posts to an open subscription waits for     *)
(* update to take it.                                                      *)
LEMMA DownloaderKeeps == ASSUME IInv, SyncBegin \/ SyncEnd \/ Drain \/ Delivery PROVE IInv'
  <1> USE UpdateIsProc
  <1>1. Types /\ CallInv /\ PhaseInv
    BY DEF IInv
  <1>2. call' = call /\ canStart' = canStart /\ sub' = sub /\ closed' = closed
    BY DEF SyncBegin, SyncEnd, Post, Drain, Delivery, Deliver, flags
  <1>3. ShutDown => ShutDown'
    BY <1>2 DEF ShutDown
  <1>4. CASE SyncBegin \/ SyncEnd \/ Drain
    <2>1. pc' = pc
      BY <1>4 DEF SyncBegin, SyncEnd, Post, Drain
    <2>2. Types' /\ CallInv'
      BY <1>1, <1>2, <2>1 DEF Types, CallInv
    <2>3. ~ShutDown => PhaseInv'
      BY <1>1, <1>2, <1>4, <2>1 DEF Types, SyncBegin, SyncEnd, Post, Drain, downloader, PhaseInv,
                                    Handling, Late
    <2> QED
      BY <1>3, <2>2, <2>3 DEF IInv, PhaseInv
  <1>5. CASE Delivery
    <2>1. /\ pc' = [q \in Procs |-> pc'[q]] /\ \A q \in Procs \ {Update} : pc'[q] = pc[q]
          /\ pc'[Update] \in {pc[Update], "forbid", "load"}
      BY <1>1, <1>5 DEF Types, Delivery, Deliver, At
    <2>2. Types' /\ CallInv'
      BY <1>1, <1>2, <2>1 DEF Types, CallInv, Handling
    <2>3. ~ShutDown => PhaseInv'
      BY <1>1, <1>2, <1>5 DEF Types, Delivery, Deliver, At, PhaseInv, Handling, Late
    <2> QED
      BY <1>3, <2>2, <2>3 DEF IInv, PhaseInv
  <1> QED
    BY <1>4, <1>5

(* Every step, and none.                                                   *)
LEMMA NextIInv == IInv /\ [Next]_vars => IInv'
  <1> SUFFICES ASSUME IInv, [Next]_vars PROVE IInv'
    OBVIOUS
  <1>1. CASE Next
    BY <1>1, CallerKeeps, BeginKeeps, UpdaterKeeps, DownloaderKeeps DEF Next
  <1>2. CASE UNCHANGED vars
    BY <1>2 DEF vars, flags, downloader, IInv, Types, CallInv, PhaseInv, ShutDown
  <1> QED
    BY <1>1, <1>2

-----------------------------------------------------------------------------
(* Whatever users do meanwhile, update leaves starting forbidden only      *)
(* while a synchronisation is under way or its end is being handled, or    *)
(* when the miner or the node has been shut down.                          *)
THEOREM ForbiddenInSync == Spec => []ForbiddenOnlyInSync
  <1>1. IInv => ForbiddenOnlyInSync
    BY DEF IInv, PhaseInv, ShutDown, ForbiddenOnlyInSync
  <1> QED
    BY <1>1, InitIInv, NextIInv, PTL DEF Spec
=============================================================================
