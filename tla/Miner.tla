------------------------------- MODULE Miner --------------------------------
(***************************************************************************)
(* Miner of miner/miner.go: mining is interrupted by the first             *)
(* synchronisation and resumed after it.  The update goroutine listens to  *)
(* the downloader's events on the TypeMux and returns for good after the   *)
(* first DoneEvent or FailedEvent; users call StartMining, StopMining and  *)
(* SetEtherbase of fort/backend.go at any moment, and the node is stopped. *)
(* Nothing but atomic loads and stores of three flags orders them, so each *)
(* load and each store is a step.                                          *)
(*                                                                         *)
(* Every process has a program counter; Start and Stop are called by users *)
(* and by update alike.  A user makes one call.  The worker is its running *)
(* flag and the channel startCh, which newWorkLoop empties (module Worker).*)
(***************************************************************************)
EXTENDS Integers

CONSTANTS
    Users,       \* goroutines of the API, one call each
    Address,     \* the configured coinbase
    Zero,        \* the zero address
    Calls,       \* what users may call
    MaxSyncs     \* bound on synchronisations

Update == "update"
Procs == Users \cup {Update}

ASSUME MinerAssumption ==
    /\ Update \notin Users /\ Zero # Address /\ MaxSyncs \in Nat
    /\ Calls \subseteq {"start", "stop", "set", "shutdown", "close"}

VARIABLES
    canStart, shouldStart,    \* flags of Miner
    running, startCh,         \* worker: flag, entries in the channel
    coinbase, workerCoinbase,
    pc,                       \* next step of each process
    call,                     \* what each process has called last
    arg,                      \* argument of Start
    sub,                      \* subscription of update: "none", "open", "closed"
    sync, syncs,              \* the downloader and its synchronisations so far
    closed                    \* exitCh of Miner and worker is closed

flags == <<canStart, shouldStart, running, startCh>>
bases == <<coinbase, workerCoinbase>>
downloader == <<sync, syncs>>
vars == <<flags, bases, pc, call, arg, sub, downloader, closed>>

Init ==
    /\ canStart = 1 /\ shouldStart = 0 /\ running = 0 /\ startCh = 1
    /\ coinbase = Zero /\ workerCoinbase = Zero
    /\ pc = [p \in Procs |-> IF p = Update THEN "subscribe" ELSE "idle"]
    /\ call = [p \in Procs |-> "none"] /\ arg = [p \in Procs |-> Zero]
    /\ sub = "none" /\ sync = "idle" /\ syncs = 0 /\ closed = FALSE

At(p, from, to) == pc[p] = from /\ pc' = [pc EXCEPT ![p] = to]

-----------------------------------------------------------------------------
(* A user begins a call.  StartMining starts the miner unless it is mining *)
(* already; the node stops the miner and later the mux; nothing in the     *)
(* node closes the miner.                                                  *)
Begin(u, op) ==
    /\ At(u, "idle", CASE op = "start" -> "isMining"
                       [] op = "set"   -> "setMiner"
                       [] op = "close" -> "close"
                       [] OTHER        -> "stopWorker")
    /\ call' = [call EXCEPT ![u] = op]
    /\ arg' = [arg EXCEPT ![u] = Address]
    /\ UNCHANGED <<flags, bases, sub, downloader, closed>>

IsMining(u) ==
    /\ At(u, "isMining", IF running = 0 THEN "setShould" ELSE "done")
    /\ UNCHANGED <<flags, bases, call, arg, sub, downloader, closed>>

Close(u) ==
    /\ At(u, "close", "done")
    /\ closed' = TRUE
    /\ UNCHANGED <<flags, bases, call, arg, sub, downloader>>

MuxStop(u) ==
    /\ At(u, "muxStop", "done")
    /\ sub' = "closed"
    /\ UNCHANGED <<flags, bases, call, arg, downloader, closed>>

(* Start and SetEtherbase, called by a user or by update.                  *)
SetShould(p) ==
    /\ At(p, "setShould", "setMiner")
    /\ shouldStart' = 1
    /\ UNCHANGED <<canStart, running, startCh, bases, call, arg, sub, downloader, closed>>

SetMiner(p) ==
    /\ At(p, "setMiner", "setWorker")
    /\ coinbase' = arg[p]
    /\ UNCHANGED <<flags, workerCoinbase, call, arg, sub, downloader, closed>>

SetWorker(p) ==
    /\ At(p, "setWorker", IF call[p] = "set" THEN "done" ELSE "canStart")
    /\ workerCoinbase' = arg[p]
    /\ UNCHANGED <<flags, coinbase, call, arg, sub, downloader, closed>>

(* A user who is told "Network syncing, will start miner afterwards"       *)
(* remains "afterwards"; any other call of Start or Stop is done.          *)
Return(p, result) == IF p = Update THEN "unsubscribe" ELSE result

(* Mutant: a Start that is pending already is not repeated.                *)
CanStartPending(p) ==
    /\ At(p, "canStart", IF canStart = 0 \/ shouldStart = 1 THEN Return(p, "afterwards")
                         ELSE "setRunning")
    /\ UNCHANGED <<flags, bases, call, arg, sub, downloader, closed>>

CanStart(p) ==
    /\ At(p, "canStart", IF canStart = 0 THEN Return(p, "afterwards") ELSE "setRunning")
    /\ UNCHANGED <<flags, bases, call, arg, sub, downloader, closed>>

SetRunning(p) ==
    /\ At(p, "setRunning", "send")
    /\ running' = 1
    /\ UNCHANGED <<canStart, shouldStart, startCh, bases, call, arg, sub, downloader, closed>>

Send(p) ==
    /\ startCh = 0
    /\ At(p, "send", Return(p, "done"))
    /\ startCh' = 1
    /\ UNCHANGED <<canStart, shouldStart, running, bases, call, arg, sub, downloader, closed>>

(* Stop, called by a user, by the node or by update.                       *)
StopWorker(p) ==
    /\ At(p, "stopWorker", "clearShould")
    /\ running' = 0
    /\ UNCHANGED <<canStart, shouldStart, startCh, bases, call, arg, sub, downloader, closed>>

ClearShould(p) ==
    /\ At(p, "clearShould", CASE p = Update -> "resume"
                              [] call[p] = "shutdown" -> "muxStop"
                              [] OTHER -> "done")
    /\ shouldStart' = 0
    /\ UNCHANGED <<canStart, running, startCh, bases, call, arg, sub, downloader, closed>>

-----------------------------------------------------------------------------
(* update: subscribe, then handle events until the first synchronisation   *)
(* has ended, the mux is stopped or the miner closed.                      *)
Subscribe ==
    /\ At(Update, "subscribe", "select")
    /\ sub' = IF sub = "none" THEN "open" ELSE sub
    /\ UNCHANGED <<flags, bases, call, arg, downloader, closed>>

Quit ==
    /\ closed \/ sub = "closed"
    /\ At(Update, "select", "unsubscribe")
    /\ UNCHANGED <<flags, bases, call, arg, sub, downloader, closed>>

(* Mutant: update returns and leaves its subscription open.                *)
UnsubscribeNot ==
    /\ At(Update, "unsubscribe", "returned")
    /\ UNCHANGED <<flags, bases, call, arg, sub, downloader, closed>>

Unsubscribe ==
    /\ At(Update, "unsubscribe", "returned")
    /\ sub' = "closed"
    /\ UNCHANGED <<flags, bases, call, arg, downloader, closed>>

(* StartEvent: forbid starting, stop the miner if it runs and remember to  *)
(* start it again.                                                         *)
Forbid ==
    /\ At(Update, "forbid", "mining")
    /\ canStart' = 0
    /\ UNCHANGED <<shouldStart, running, startCh, bases, call, arg, sub, downloader, closed>>

Mining ==
    /\ At(Update, "mining", IF running = 1 THEN "stopWorker" ELSE "select")
    /\ UNCHANGED <<flags, bases, call, arg, sub, downloader, closed>>

(* Mutant: the flag that Stop has cleared is not set again.                *)
ResumeNot ==
    /\ At(Update, "resume", "select")
    /\ UNCHANGED <<flags, bases, call, arg, sub, downloader, closed>>

Resume ==
    /\ At(Update, "resume", "select")
    /\ shouldStart' = 1
    /\ UNCHANGED <<canStart, running, startCh, bases, call, arg, sub, downloader, closed>>

(* DoneEvent, FailedEvent: read shouldStart, permit starting, forget       *)
(* shouldStart, and Start with the coinbase of the miner.                  *)
Load ==
    /\ At(Update, "load", "permit")
    /\ call' = [call EXCEPT ![Update] = IF shouldStart = 1 THEN "start" ELSE "none"]
    /\ UNCHANGED <<flags, bases, arg, sub, downloader, closed>>

(* Mutant: starting stays forbidden.                                       *)
PermitNot ==
    /\ At(Update, "permit", "clear")
    /\ UNCHANGED <<flags, bases, call, arg, sub, downloader, closed>>

Permit ==
    /\ At(Update, "permit", "clear")
    /\ canStart' = 1
    /\ UNCHANGED <<shouldStart, running, startCh, bases, call, arg, sub, downloader, closed>>

Clear ==
    /\ At(Update, "clear", IF call[Update] = "start" THEN "read" ELSE "unsubscribe")
    /\ shouldStart' = 0
    /\ UNCHANGED <<canStart, running, startCh, bases, call, arg, sub, downloader, closed>>

ReadCoinbase ==
    /\ At(Update, "read", "setShould")
    /\ arg' = [arg EXCEPT ![Update] = coinbase]
    /\ UNCHANGED <<flags, bases, call, sub, downloader, closed>>

-----------------------------------------------------------------------------
(* The downloader posts an event when it begins and one when it ends.  A   *)
(* post returns at once if nobody has subscribed, and else when update has *)
(* taken the event or the subscription is closed.                          *)
Post(from, posting, to) ==
    /\ sync = from
    /\ sync' = IF sub = "open" THEN posting ELSE to
    /\ UNCHANGED <<flags, bases, pc, call, arg, sub, closed>>

SyncBegin == syncs < MaxSyncs /\ syncs' = syncs + 1 /\ Post("idle", "postStart", "syncing")
SyncEnd == UNCHANGED syncs /\ Post("syncing", "postEnd", "idle")

Deliver(posting, handler, to) ==
    /\ sync = posting /\ sync' = to
    /\ \/ At(Update, "select", handler)
       \/ sub = "closed" /\ UNCHANGED pc
    /\ UNCHANGED <<flags, bases, call, arg, sub, syncs, closed>>

(* newWorkLoop takes the entry.                                            *)
Drain ==
    /\ startCh = 1 /\ startCh' = 0
    /\ UNCHANGED <<canStart, shouldStart, running, bases, pc, call, arg, sub, downloader, closed>>

-----------------------------------------------------------------------------
Start(p) == SetShould(p) \/ SetMiner(p) \/ SetWorker(p) \/ CanStart(p) \/ SetRunning(p) \/ Send(p)
Stop(p) == StopWorker(p) \/ ClearShould(p)
Caller(u) == IsMining(u) \/ Close(u) \/ MuxStop(u) \/ Start(u) \/ Stop(u)
Updater ==
    \/ Subscribe \/ Quit \/ Unsubscribe \/ Forbid \/ Mining \/ Resume
    \/ Load \/ Permit \/ Clear \/ ReadCoinbase \/ Start(Update) \/ Stop(Update)
Delivery == Deliver("postStart", "forbid", "syncing") \/ Deliver("postEnd", "load", "idle")

Next ==
    \/ \E u \in Users : Caller(u) \/ \E op \in Calls : Begin(u, op)
    \/ Updater \/ Delivery \/ SyncBegin \/ SyncEnd \/ Drain

Spec == Init /\ [][Next]_vars

(* Every goroutine runs on, a synchronisation ends, and newWorkLoop takes  *)
(* entries until the worker is closed.  Nobody has to call anything.       *)
FairSpec ==
    /\ Spec /\ WF_vars(Updater) /\ WF_vars(Delivery) /\ WF_vars(SyncEnd)
    /\ WF_vars(Drain /\ ~closed)
    /\ \A u \in Users : WF_vars(Caller(u))

-----------------------------------------------------------------------------
Halted == closed \/ \E u \in Users : call[u] \in {"stop", "shutdown"}

(* Starting is forbidden only while a synchronisation is under way or its  *)
(* end is being handled: when update returns, it leaves the miner free to  *)
(* be started, or the miner or the mux has been shut down.                 *)
ForbiddenOnlyInSync ==
    canStart = 0 => \/ sync \in {"syncing", "postEnd"} \/ pc[Update] \in {"load", "permit"}
                    \/ closed \/ \E u \in Users : call[u] = "shutdown"

(* A miner that update has interrupted for a synchronisation runs again    *)
(* after it, with the coinbase it was given, unless somebody stops it.     *)
ResumesAfterSync ==
    pc[Update] = "resume" ~>
        \/ pc[Update] = "returned" /\ running = 1 /\ workerCoinbase = Address
        \/ Halted

(* Once update has returned, a Start makes the miner run whatever the      *)
(* downloader does: only the first synchronisation holds mining up.        *)
StartTakesEffect ==
    \A u \in Users : pc[Update] = "returned" /\ pc[u] = "setShould" ~> running = 1 \/ Halted

(* The downloader is never held up for ever by a miner that does not take  *)
(* its events, except after the worker is closed.                          *)
PostsReturn ==
    /\ sync = "postStart" ~> sync # "postStart" \/ closed
    /\ sync = "postEnd" ~> sync # "postEnd" \/ closed

(* What the log line of Start and the comment of shouldStart promise: a    *)
(* user told that the miner will start after the synchronisation gets a    *)
(* running miner, unless somebody stops it.                                *)
StartsAfterSync == \A u \in Users : pc[u] = "afterwards" ~> running = 1 \/ Halted
=============================================================================
