------------------------------- MODULE Worker -------------------------------
(***************************************************************************)
(* The mining worker, miner/worker.go: four goroutines joined by channels, *)
(* and the goroutines the engine seals in.                                 *)
(*                                                                         *)
(*   newWorkLoop  turns start calls, head events and timer ticks into work *)
(*                requests on newWorkCh (unbuffered, a rendezvous here)    *)
(*   mainLoop     builds a block for a request, and sends it on taskCh     *)
(*                (unbuffered); handles side blocks and new transactions   *)
(*   taskLoop     stops the sealing in flight and starts one for the task  *)
(*   resultLoop   writes sealed blocks to the chain                        *)
(*   sealers      Tppow.Seal and Tppow.mine, one pair per accepted task    *)
(*                                                                         *)
(* Blocks are reduced to what the loops tell apart.  A head is its id, its *)
(* number and the transactions its chain includes (and the greatest number *)
(* a head had so far, which only a property looks at); a task (and its     *)
(* seal hash) is its parent, number, coinbase and transactions.  Fees,     *)
(* logs, receipts and the recommit interval are left out: no guard of the  *)
(* loops depends on them.  Blocks are never full, and two tasks that       *)
(* differ in their second only are the same task here.                     *)
(***************************************************************************)
EXTENDS Integers, Sequences, FiniteSets

CONSTANTS
    StaleThreshold,   \* staleThreshold
    AdjustCap,        \* resubmitAdjustChanSize
    HeadCap,          \* chainHeadChanSize
    ResultCap,        \* resultQueueSize
    Txs,              \* transactions that may reach the pool
    Local,            \* those of local accounts
    Pooled,           \* those the pool holds when the worker is made
    \* bounds on the environment
    MaxImports, MaxSides,         \* blocks that arrive from the network
    MaxSeals,                     \* blocks the sealers find
    MaxStarts, MaxStops, MayClose,
    MaxImportsClosing,            \* MaxImports of a worker that is closed
    MaxRefused, MaxUnwritten      \* requests and writes that end in an error

ASSUME CapsAssumption == AdjustCap \in Nat \ {0} /\ HeadCap \in Nat \ {0}
                         /\ ResultCap \in Nat \ {0}
ASSUME WorkerAssumption == StaleThreshold \in Nat /\ Local \subseteq Txs
                           /\ Pooled \subseteq Txs
                           /\ MayClose \in BOOLEAN /\ MaxImportsClosing \in Nat

VARIABLES
    \* chain and pool
    head, posting, headQ, sideQ, pool, txQ,
    \* atomics and the public methods
    running, newTxs, startQ, starter, calls, closed,
    \* newWorkLoop
    npc, timer,
    \* mainLoop
    mpc, current, todo, signal, snapshot, adjust,
    failed,           \* the last request ended in an error return
    \* taskLoop
    taskExited, prev, stopGen, stopOpen, pendingTasks,
    \* engine and resultLoop
    sealers, resultQ, rpc,
    stored            \* the tasks a block of which is in the chain's database

chainVars == <<head, posting, headQ, sideQ>>
poolVars  == <<pool, txQ>>
apiVars   == <<running, startQ, starter, calls, closed>>
newVars   == <<npc, timer>>
mainVars  == <<mpc, current, todo, snapshot, failed>>
taskVars  == <<taskExited, prev, stopGen, stopOpen>>
sealVars  == <<sealers, resultQ, rpc, stored>>
vars == <<head, posting, headQ, sideQ, pool, txQ, running, newTxs, startQ,
          starter, calls, closed, npc, timer, mpc, current, todo, signal,
          snapshot, adjust, failed, taskExited, prev, stopGen, stopOpen,
          pendingTasks, sealers, resultQ, rpc, stored>>

NoTask == [parent |-> 0, num |-> 0, coinbase |-> FALSE, txs |-> {}, inc |-> {}]

Idle == [local |-> {}, remote |-> {}]

(* newWorker with init set: the start channel holds the first request.     *)
Init ==
    /\ head = [id |-> 1, num |-> 0, inc |-> {}, peak |-> 0]
    /\ posting = "none" /\ headQ = <<>> /\ sideQ = 0
    /\ pool = Pooled /\ txQ = <<>>
    /\ running = FALSE /\ newTxs = 0 /\ startQ = 1
    /\ starter = "idle" /\ closed = FALSE
    /\ calls = [start |-> 0, stop |-> 0, import |-> 0, side |-> 0, seal |-> 0,
                refused |-> 0, unwritten |-> 0]
    /\ npc = "select" /\ timer = FALSE
    /\ mpc = "select" /\ current = NoTask /\ todo = Idle
    /\ signal = "none" /\ snapshot = NoTask /\ adjust = 0
    /\ failed = FALSE
    /\ taskExited = FALSE /\ prev = NoTask
    /\ stopGen = 0 /\ stopOpen = FALSE /\ pendingTasks = {}
    /\ sealers = <<>> /\ resultQ = <<>> /\ rpc = "select"
    /\ stored = {}

-----------------------------------------------------------------------------
(* The chain and the transaction pool around the worker.                   *)

(* BlockChain writes a block under chainmu and posts its event before it   *)
(* releases the lock; the post waits for room in the subscriber's channel. *)
NewHead(num, inc) ==
    /\ head' = [id |-> head.id + 1, num |-> num, inc |-> inc,
                peak |-> IF num > head.peak THEN num ELSE head.peak]
    /\ posting' = "head"

(* A block arrives from the network: it extends the head or replaces it.   *)
ImportBlock ==
    /\ posting = "none"
    /\ calls.import < IF closed THEN MaxImportsClosing ELSE MaxImports
    /\ calls' = [calls EXCEPT !.import = @ + 1]
    /\ \/ NewHead(head.num + 1, head.inc)
       \/ \E n \in {head.num - 1, head.num} : n > 0 /\ NewHead(n, {})
    /\ UNCHANGED <<headQ, sideQ, poolVars, running, startQ, starter, closed, newTxs,
                   newVars, mainVars, signal, adjust, taskVars, pendingTasks,
                   sealVars>>

(* ... or it becomes a side block.                                         *)
ImportSide ==
    /\ posting = "none"
    /\ calls.side < MaxSides
    /\ calls' = [calls EXCEPT !.side = @ + 1]
    /\ posting' = "side"
    /\ UNCHANGED <<head, headQ, sideQ, poolVars, running, startQ, starter,
                   closed, newTxs, newVars, mainVars, signal, adjust, taskVars,
                   pendingTasks, sealVars>>

Post ==
    /\ \/ posting = "head" /\ Len(headQ) < HeadCap
          /\ headQ' = Append(headQ, head.num) /\ UNCHANGED sideQ
       \/ posting = "side"
          /\ sideQ' = sideQ + 1 /\ UNCHANGED headQ
    /\ posting' = "none"
    /\ rpc' = IF rpc = "post" THEN "select" ELSE rpc
    /\ UNCHANGED <<head, poolVars, apiVars, newTxs, newVars, mainVars, signal,
                   adjust, taskVars, pendingTasks, sealers, resultQ, stored>>

(* The pool accepts a transaction and announces it on txsCh.               *)
AddTx(tx) ==
    /\ tx \notin pool
    /\ pool' = pool \cup {tx}
    /\ txQ' = Append(txQ, tx)
    /\ UNCHANGED <<chainVars, apiVars, newTxs, newVars, mainVars, signal, adjust,
                   taskVars, pendingTasks, sealVars>>

-----------------------------------------------------------------------------
(* start, stop and close.                                                  *)

StartStore ==
    /\ starter = "idle"
    /\ calls.start < MaxStarts
    /\ calls' = [calls EXCEPT !.start = @ + 1]
    /\ running' = TRUE
    /\ starter' = "send"
    /\ UNCHANGED <<startQ, closed, chainVars, poolVars, newTxs, newVars, mainVars,
                   signal, adjust, taskVars, pendingTasks, sealVars>>

StartSend ==
    /\ starter = "send"
    /\ startQ = 0
    /\ startQ' = 1
    /\ starter' = "idle"
    /\ UNCHANGED <<running, calls, closed, chainVars, poolVars, newTxs, newVars,
                   mainVars, signal, adjust, taskVars, pendingTasks, sealVars>>

Stop ==
    /\ calls.stop < MaxStops
    /\ calls' = [calls EXCEPT !.stop = @ + 1]
    /\ running' = FALSE
    /\ UNCHANGED <<startQ, starter, closed, chainVars, poolVars, newTxs, newVars,
                   mainVars, signal, adjust, taskVars, pendingTasks, sealVars>>

Close ==
    /\ MayClose /\ ~closed /\ calls.import <= MaxImportsClosing
    /\ closed' = TRUE
    /\ UNCHANGED <<running, startQ, starter, calls, chainVars, poolVars, newTxs,
                   newVars, mainVars, signal, adjust, taskVars, pendingTasks,
                   sealVars>>

-----------------------------------------------------------------------------
(* newWorkLoop.                                                            *)

(* Mutant: a new head clears the fresh tasks as well.                      *)
clearAll(num) == pendingTasks' = {t \in pendingTasks : t.num > num + 1}

clearPending(num) ==
    pendingTasks' = {t \in pendingTasks : t.num + StaleThreshold > num}

(* commit: signal the request mainLoop works on, then offer a new one.     *)
Resubmit(s) == signal' = s /\ npc' = "send"

NewWorkStart ==
    /\ npc = "select" /\ startQ = 1
    /\ startQ' = 0
    /\ clearPending(head.num)
    /\ Resubmit("newHead")
    /\ UNCHANGED <<running, starter, calls, closed, timer, chainVars, poolVars,
                   newTxs, mainVars, adjust, taskVars, sealVars>>

NewWorkHead ==
    /\ npc = "select" /\ headQ # <<>>
    /\ headQ' = Tail(headQ)
    /\ clearPending(Head(headQ))
    /\ Resubmit("newHead")
    /\ UNCHANGED <<head, posting, sideQ, timer, poolVars, apiVars, newTxs,
                   mainVars, adjust, taskVars, sealVars>>

(* The timer fires: nothing to do without new transactions, and without    *)
(* mining it is not even rearmed.                                          *)
NewWorkTick ==
    /\ npc = "select" /\ timer
    /\ IF ~running
       THEN timer' = FALSE /\ UNCHANGED <<signal, npc>>
       ELSE /\ newTxs > 0
            /\ timer' = FALSE
            /\ Resubmit("resubmit")
    /\ UNCHANGED <<chainVars, poolVars, apiVars, newTxs, mainVars, adjust,
                   taskVars, pendingTasks, sealVars>>

NewWorkAdjust ==
    /\ npc = "select" /\ adjust > 0
    /\ adjust' = adjust - 1
    /\ UNCHANGED <<chainVars, poolVars, apiVars, newTxs, newVars, mainVars, signal,
                   taskVars, pendingTasks, sealVars>>

(* After the request is taken: timer.Reset and newTxs := 0.                *)
NewWorkReset ==
    /\ npc = "reset"
    /\ timer' = TRUE
    /\ newTxs' = 0
    /\ npc' = "select"
    /\ UNCHANGED <<chainVars, poolVars, apiVars, mainVars, signal, adjust,
                   taskVars, pendingTasks, sealVars>>

NewWorkExit ==
    /\ npc = "select" /\ closed
    /\ npc' = "exited"
    /\ UNCHANGED <<timer, chainVars, poolVars, apiVars, newTxs, mainVars, signal,
                   adjust, taskVars, pendingTasks, sealVars>>

-----------------------------------------------------------------------------
(* mainLoop.                                                               *)

(* Mutant: the request reuses the interrupt of the one before.             *)
MainNewWorkOldSignal ==
    /\ npc = "send" /\ mpc = "select"
    /\ npc' = "reset"
    /\ current' = [parent |-> head.id, num |-> head.num + 1,
                   coinbase |-> running, txs |-> {}, inc |-> head.inc]
    /\ failed' = FALSE
    /\ mpc' = "pending"
    /\ UNCHANGED <<timer, todo, snapshot, chainVars, poolVars, apiVars, newTxs,
                   signal, adjust, taskVars, pendingTasks, sealVars>>

(* Mutant: the header is kept while the parent is the same.                *)
MainNewWorkReuse ==
    /\ npc = "send" /\ mpc = "select"
    /\ npc' = "reset"
    /\ signal' = "none"
    /\ current' = [parent |-> head.id, num |-> head.num + 1,
                   coinbase |-> IF current.parent = head.id
                                THEN current.coinbase ELSE running,
                   txs |-> {}, inc |-> head.inc]
    /\ failed' = FALSE
    /\ mpc' = "pending"
    /\ UNCHANGED <<timer, todo, snapshot, chainVars, poolVars, apiVars, newTxs,
                   adjust, taskVars, pendingTasks, sealVars>>

(* newWorkCh: commitNewWork up to makeCurrent.  The parent is read once,   *)
(* and the coinbase is set only if the worker runs at this moment, which   *)
(* is late enough for a start call that stores the flag before it asks for *)
(* work.                                                                   *)
MainNewWork ==
    /\ npc = "send" /\ mpc = "select"
    /\ npc' = "reset"
    /\ signal' = "none"
    /\ current' = [parent |-> head.id, num |-> head.num + 1,
                   coinbase |-> running, txs |-> {}, inc |-> head.inc]
    /\ failed' = FALSE
    /\ mpc' = "pending"
    /\ UNCHANGED <<timer, todo, snapshot, chainVars, poolVars, apiVars, newTxs,
                   adjust, taskVars, pendingTasks, sealVars>>

(* commitNewWork gives up before makeCurrent has replaced the block: the   *)
(* worker runs without a coinbase, or the parent's header or state is not  *)
(* in the database.  TxPool.Pending never returns an error.                *)
MainNewWorkFails ==
    /\ npc = "send" /\ mpc = "select"
    /\ calls.refused < MaxRefused
    /\ calls' = [calls EXCEPT !.refused = @ + 1]
    /\ npc' = "reset"
    /\ signal' = "none"
    /\ failed' = TRUE
    /\ UNCHANGED <<timer, mpc, current, todo, snapshot, chainVars, poolVars,
                   running, startQ, starter, closed, newTxs, adjust, taskVars,
                   pendingTasks, sealVars>>

NextGroup(t) == IF t.local # {} THEN "local"
                ELSE IF t.remote # {} THEN "remote" ELSE "commit"

(* TxPool().Pending(), split into local and remote accounts.  The pool may *)
(* still hold what the new head includes.                                  *)
MainPending ==
    /\ mpc = "pending"
    /\ LET t == [local |-> pool \cap Local, remote |-> pool \ Local]
       IN todo' = t /\ mpc' = NextGroup(t)
    /\ UNCHANGED <<current, snapshot, failed, chainVars, poolVars, apiVars, newTxs,
                   newVars, signal, adjust, taskVars, pendingTasks, sealVars>>

(* commitTransaction: the nonce of a transaction that the block's chain    *)
(* includes is too low, and the transaction is skipped.                    *)
Execute(block, tx) ==
    IF tx \in block.inc THEN block ELSE [block EXCEPT !.txs = @ \cup {tx}]

(* commitTransactions: the signal is polled before every transaction.      *)
MainFill(g) ==
    /\ mpc = g
    /\ \/ /\ signal = "newHead"
          /\ mpc' = "select" /\ todo' = Idle
          /\ UNCHANGED current
       \/ /\ signal = "resubmit" \/ (signal = "none" /\ todo[g] = {})
          /\ mpc' = IF g = "local" THEN "adjustLocal" ELSE "adjustRemote"
          /\ UNCHANGED <<current, todo>>
       \/ /\ signal = "none"
          /\ \E tx \in todo[g] :
                /\ current' = Execute(current, tx)
                /\ todo' = [todo EXCEPT ![g] = @ \ {tx}]
          /\ UNCHANGED mpc
    /\ UNCHANGED <<snapshot, failed, chainVars, poolVars, apiVars, newTxs, newVars,
                   signal, adjust, taskVars, pendingTasks, sealVars>>

(* resubmitAdjustCh <-: waits while the channel is full.                   *)
MainAdjust(g) ==
    /\ mpc = g
    /\ adjust < AdjustCap
    /\ adjust' = adjust + 1
    /\ mpc' = IF g = "adjustLocal" /\ todo.remote # {} THEN "remote" ELSE "commit"
    /\ UNCHANGED <<current, todo, snapshot, failed, chainVars, poolVars, apiVars,
                   newTxs, newVars, signal, taskVars, pendingTasks, sealVars>>

(* commit: the running flag is read again.                                 *)
MainCommitIdle ==
    /\ mpc = "commit"
    /\ ~running \/ closed
    /\ snapshot' = current
    /\ mpc' = "select" /\ todo' = Idle
    /\ UNCHANGED <<current, failed, chainVars, poolVars, apiVars, newTxs, newVars,
                   signal, adjust, taskVars, pendingTasks, sealVars>>

(* Mutant: duplicates are recognised by block number.                      *)
MainCommitTaskByNumber ==
    /\ mpc = "commit"
    /\ running /\ ~taskExited
    /\ snapshot' = current
    /\ mpc' = "select" /\ todo' = Idle
    /\ IF current.num = prev.num
       THEN UNCHANGED <<prev, stopGen, stopOpen, pendingTasks, sealers>>
       ELSE /\ prev' = current
            /\ stopGen' = stopGen + 1
            /\ stopOpen' = TRUE
            /\ pendingTasks' = pendingTasks \cup {current}
            /\ sealers' = Append(sealers, [st |-> "created", task |-> current, stop |-> 0])
    /\ UNCHANGED <<current, failed, taskExited, resultQ, rpc, stored, chainVars,
                   poolVars, apiVars, newTxs, newVars, signal, adjust>>

(* taskCh <- task, and taskLoop's handling of it: a duplicate is dropped,  *)
(* otherwise the stop channel is closed and a new one made, the task       *)
(* recorded and its sealing goroutine created.                             *)
MainCommitTask ==
    /\ mpc = "commit"
    /\ running /\ ~taskExited
    /\ snapshot' = current
    /\ mpc' = "select" /\ todo' = Idle
    /\ IF current = prev
       THEN UNCHANGED <<prev, stopGen, stopOpen, pendingTasks, sealers>>
       ELSE /\ prev' = current
            /\ stopGen' = stopGen + 1
            /\ stopOpen' = TRUE
            /\ pendingTasks' = pendingTasks \cup {current}
            /\ sealers' = Append(sealers, [st |-> "created", task |-> current, stop |-> 0])
    /\ UNCHANGED <<current, failed, taskExited, resultQ, rpc, stored, chainVars,
                   poolVars, apiVars, newTxs, newVars, signal, adjust>>

(* chainSideCh: a possible uncle makes the running worker commit again.    *)
(* The engine drops uncles, so the block is the current one.               *)
MainSide ==
    /\ mpc = "select" /\ sideQ > 0
    /\ sideQ' = sideQ - 1
    /\ \/ UNCHANGED mpc
       \/ running /\ current # NoTask /\ mpc' = "commit"
    /\ UNCHANGED <<current, todo, snapshot, failed, head, posting, headQ, poolVars,
                   apiVars, newTxs, newVars, signal, adjust, taskVars, pendingTasks,
                   sealVars>>

(* txsCh: while not mining the pending block takes the transaction.        *)
MainTx ==
    /\ mpc = "select" /\ txQ # <<>>
    /\ txQ' = Tail(txQ)
    /\ IF ~running /\ current # NoTask
       THEN /\ current' = Execute(current, Head(txQ))
            /\ snapshot' = IF current' # current THEN current' ELSE snapshot
       ELSE UNCHANGED <<current, snapshot>>
    /\ newTxs' = newTxs + 1
    /\ UNCHANGED <<pool, mpc, todo, failed, chainVars, apiVars, newVars, signal,
                   adjust, taskVars, pendingTasks, sealVars>>

MainExit ==
    /\ mpc = "select" /\ closed
    /\ mpc' = "exited"
    /\ UNCHANGED <<current, todo, snapshot, failed, chainVars, poolVars, apiVars,
                   newTxs, newVars, signal, adjust, taskVars, pendingTasks, sealVars>>

-----------------------------------------------------------------------------
(* taskLoop's exit, the sealing goroutines and resultLoop.                 *)

(* Mutant: taskLoop returns only if a sealing is in flight.                *)
TaskExitInFlight ==
    /\ ~taskExited /\ closed /\ stopOpen
    /\ taskExited' = TRUE
    /\ stopOpen' = FALSE
    /\ UNCHANGED <<prev, stopGen, chainVars, poolVars, apiVars, newTxs, newVars,
                   mainVars, signal, adjust, pendingTasks, sealVars>>

TaskExit ==
    /\ ~taskExited /\ closed
    /\ taskExited' = TRUE
    /\ stopOpen' = FALSE
    /\ UNCHANGED <<prev, stopGen, chainVars, poolVars, apiVars, newTxs, newVars,
                   mainVars, signal, adjust, pendingTasks, sealVars>>

(* Mutant: the goroutine is given the stop channel of the task before.     *)
SealBeginOldStop(k) ==
    /\ sealers[k].st = "created"
    /\ sealers' = [sealers EXCEPT ![k].st = "mining", ![k].stop = k - 1]
    /\ UNCHANGED <<resultQ, rpc, stored, chainVars, poolVars, apiVars, newTxs,
                   newVars, mainVars, signal, adjust, taskVars, pendingTasks>>

(* The goroutine calls Seal with the stop channel the variable holds when  *)
(* it runs; 0 stands for the nil channel, which is never closed.           *)
SealBegin(k) ==
    /\ sealers[k].st = "created"
    /\ sealers' = [sealers EXCEPT ![k].st = "mining",
                                  ![k].stop = IF stopOpen THEN stopGen ELSE 0]
    /\ UNCHANGED <<resultQ, rpc, stored, chainVars, poolVars, apiVars, newTxs,
                   newVars, mainVars, signal, adjust, taskVars, pendingTasks>>

Ended == [st |-> "ended", task |-> NoTask, stop |-> 0]

StopClosed(g) == g # 0 /\ (g < stopGen \/ ~stopOpen)

SealStop(k) ==
    /\ sealers[k].st = "mining" /\ StopClosed(sealers[k].stop)
    /\ sealers' = [sealers EXCEPT ![k] = Ended]
    /\ UNCHANGED <<resultQ, rpc, stored, chainVars, poolVars, apiVars, newTxs,
                   newVars, mainVars, signal, adjust, taskVars, pendingTasks>>

(* A seal is found: the result is dropped when the results channel is full *)
(* and the search is over either way.                                      *)
SealFound(k) ==
    /\ sealers[k].st = "mining"
    /\ calls.seal < MaxSeals
    /\ calls' = [calls EXCEPT !.seal = @ + 1]
    /\ sealers' = [sealers EXCEPT ![k].st = "found", ![k].stop = 0]
    /\ resultQ' = IF Len(resultQ) < ResultCap
                  THEN Append(resultQ, sealers[k].task) ELSE resultQ
    /\ UNCHANGED <<rpc, stored, chainVars, poolVars, running, startQ, starter, closed,
                   newTxs, newVars, mainVars, signal, adjust, taskVars, pendingTasks>>

(* resultLoop: a block that the chain already stores is skipped (tasks of  *)
(* one seal hash may also be sealed into different blocks), and a block    *)
(* whose task was cleared is discarded.                                    *)
ResultDiscard ==
    /\ rpc = "select" /\ resultQ # <<>>
    /\ Head(resultQ) \notin pendingTasks \ stored
    /\ resultQ' = Tail(resultQ)
    /\ UNCHANGED <<sealers, rpc, stored, chainVars, poolVars, apiVars, newTxs,
                   newVars, mainVars, signal, adjust, taskVars, pendingTasks>>

(* Otherwise it is written.  The total difficulties decide whether it      *)
(* becomes the head, and a block's difficulty is its luck: no height       *)
(* bounds the difference, and a child of the head whose luck is zero has   *)
(* its parent's total and stays on the side.                               *)
ResultWrite ==
    /\ rpc = "select" /\ resultQ # <<>> /\ posting = "none"
    /\ LET t == Head(resultQ) IN
          /\ t \in pendingTasks
          /\ \/ NewHead(t.num, t.inc \cup t.txs)
             \/ posting' = "side" /\ UNCHANGED head
          /\ stored' = stored \cup {t}
    /\ resultQ' = Tail(resultQ)
    /\ rpc' = "post"
    /\ UNCHANGED <<sealers, headQ, sideQ, poolVars, apiVars, newTxs, newVars,
                   mainVars, signal, adjust, taskVars, pendingTasks>>

(* WriteBlockWithState returns an error, before or after the block reached *)
(* the database: the result is gone and nobody is told.                    *)
ResultWriteFails ==
    /\ rpc = "select" /\ resultQ # <<>> /\ posting = "none"
    /\ Head(resultQ) \in pendingTasks
    /\ calls.unwritten < MaxUnwritten
    /\ calls' = [calls EXCEPT !.unwritten = @ + 1]
    /\ stored' \in {stored, stored \cup {Head(resultQ)}}
    /\ resultQ' = Tail(resultQ)
    /\ UNCHANGED <<sealers, rpc, running, startQ, starter, closed, chainVars,
                   poolVars, newTxs, newVars, mainVars, signal, adjust, taskVars,
                   pendingTasks>>

ResultExit ==
    /\ rpc = "select" /\ closed
    /\ rpc' = "exited"
    /\ UNCHANGED <<sealers, resultQ, stored, chainVars, poolVars, apiVars, newTxs,
                   newVars, mainVars, signal, adjust, taskVars, pendingTasks>>

-----------------------------------------------------------------------------
NewWorkLoop == \/ NewWorkStart \/ NewWorkHead \/ NewWorkTick \/ NewWorkAdjust
               \/ NewWorkReset \/ NewWorkExit

MainLoop == \/ MainNewWork \/ MainNewWorkFails \/ MainPending
            \/ \E g \in {"local", "remote"} : MainFill(g)
            \/ \E g \in {"adjustLocal", "adjustRemote"} : MainAdjust(g)
            \/ MainCommitIdle \/ MainCommitTask \/ MainSide \/ MainTx \/ MainExit

ResultLoop == ResultDiscard \/ ResultWrite \/ ResultWriteFails \/ ResultExit

Sealer(k) == SealBegin(k) \/ SealStop(k)

Callers == StartStore \/ Stop \/ Close

Environment == ImportBlock \/ ImportSide \/ (\E tx \in Txs : AddTx(tx))

(* What the node's own goroutines do; the search's luck is not theirs.     *)
Goroutines == \/ NewWorkLoop \/ MainLoop \/ TaskExit \/ ResultLoop \/ Post
              \/ \E k \in 1..Len(sealers) : Sealer(k)
              \/ StartSend

Next == \/ Goroutines
        \/ \E k \in 1..Len(sealers) : SealFound(k)
        \/ Callers \/ Environment

Spec == Init /\ [][Next]_vars

(* While a goroutine can run the scheduler runs one, which is less than    *)
(* fairness to each of them; nothing is assumed of the network, the users  *)
(* or the luck of a search.                                                *)
Fairness == WF_vars(Goroutines)

FairSpec == Spec /\ Fairness

-----------------------------------------------------------------------------
(* Properties.                                                             *)

(* Nothing is queued for the worker or in the hands of one of its loops.   *)
Quiescent ==
    /\ npc = "select" /\ mpc = "select" /\ starter = "idle"
    /\ startQ = 0 /\ headQ = <<>> /\ txQ = <<>> /\ sideQ = 0 /\ posting = "none"

(* No head event is lost, whatever requests interrupt each other: unless   *)
(* the last request ended in an error return, a worker with nothing left   *)
(* to handle has built its block, and its pending snapshot, on the current *)
(* head, and if it runs and was not closed that block is the one taskLoop  *)
(* accepted last.                                                          *)
QuiescentOnHead ==
    Quiescent /\ ~failed =>
        /\ current.parent = head.id
        /\ snapshot = current
        /\ running /\ ~closed => prev = current

(* A worker that is started mines for its own account: a block that was    *)
(* begun before the flag was set has no coinbase, and commit, which reads  *)
(* the flag again, may even hand it to taskLoop; once nothing is left to   *)
(* handle the task that is sealed has one.                                 *)
SealsForCoinbase ==
    Quiescent /\ ~failed /\ running /\ ~closed => prev.coinbase

(* A block discarded by an interrupt is replaced: a semi-finished block is *)
(* dropped only when a newer request is on its way.                        *)
DiscardedIsReplaced ==
    [][\A g \in {"local", "remote"} :
         (mpc = g /\ mpc' = "select") => npc = "send"]_vars

(* Tasks are cleared as the events of earlier heads are handled, yet a     *)
(* sealed block that extends the current head is thrown away for want of   *)
(* its task only if the chain once was StaleThreshold higher than it.      *)
HeadBlockNotDiscarded ==
    [][(/\ resultQ # <<>> /\ resultQ' = Tail(resultQ)
        /\ Head(resultQ) \notin pendingTasks) =>
          \/ Head(resultQ).parent # head.id
          \/ head.num + 1 + StaleThreshold <= head.peak]_vars

OnHead(k) == sealers[k].task.parent = head.id

Sealing(k) == sealers[k].st = "mining" /\ ~StopClosed(sealers[k].stop)

(* mainLoop waits for room in resubmitAdjustCh, and newWorkLoop, which     *)
(* makes it, for mainLoop to take its request.                             *)
Deadlocked ==
    /\ mpc \in {"adjustLocal", "adjustRemote"} /\ adjust = AdjustCap
    /\ npc = "send"

(* A running worker always gets to seal on the current head, or has found  *)
(* a block on it already, unless it is stopped or closed meanwhile or the  *)
(* request for that head ends in an error return.  Only the two loops      *)
(* waiting for each other on their channels can keep it from that.         *)
SealsOnHead ==
    (running /\ ~closed) ~>
        \/ ~running \/ closed \/ failed
        \/ \E k \in 1..Len(sealers) :
              OnHead(k) /\ (Sealing(k) \/ sealers[k].st = "found")
        \/ Deadlocked

(* After close the goroutines that hand work to the engine and results to  *)
(* the chain end.                                                          *)
CloseEndsTaskAndResult == closed ~> (taskExited /\ rpc = "exited")

=============================================================================
