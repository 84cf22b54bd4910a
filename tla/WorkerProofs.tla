---------------------------- MODULE WorkerProofs ----------------------------
(***************************************************************************)
(* Proofs about the mining worker, for any heads, calls, transactions and  *)
(* channel capacities.  The inductive invariant has four parts: the types, *)
(* what a request in newWorkCh and the interrupt have to do with each      *)
(* other, what is owed while no request is outstanding, and what is known  *)
(* of every task that is being sealed.                                     *)
(***************************************************************************)
EXTENDS Worker, TLAPS

Task == [parent : Nat, num : Int, coinbase : BOOLEAN, txs : SUBSET Txs, inc : SUBSET Txs]

ChainType ==
    /\ head \in [id : Nat \ {0}, num : Int, inc : SUBSET Txs, peak : Int]
    /\ posting \in {"none", "head", "side"}
    /\ headQ \in Seq(Int) /\ pool \subseteq Txs /\ txQ \in Seq(Txs)

MainType ==
    /\ current \in Task /\ snapshot \in Task /\ pendingTasks \subseteq Task
    /\ todo \in [local : SUBSET Txs, remote : SUBSET Txs]
    /\ running \in BOOLEAN

Sealers == [st : {"created", "mining", "found", "ended"}, task : Task, stop : Nat]

SealType ==
    /\ sealers \in Seq(Sealers)
    /\ resultQ \in Seq(Task) /\ stopGen \in Nat

(* An interrupt is raised only on behalf of a request that waits. *)
SignalInv == signal # "none" => npc = "send"

(* A request for new work is on its way to mainLoop. *)
Outstanding ==
    \/ startQ = 1 \/ starter = "send" \/ npc = "send"
    \/ headQ # <<>> \/ posting = "head"

(* Without one, and unless the last ended in an error return, the block in *)
(* the making is on the head and for the worker's account if it runs, and  *)
(* once finished it was handed over.                                       *)
FreshInv ==
    ~Outstanding /\ ~failed =>
       /\ current.parent = head.id
       /\ running => current.coinbase
       /\ mpc = "select" => /\ snapshot = current
                            /\ running /\ ~closed => prev = current

(* A task on the head is pending unless its height was long past. *)
Kept(t) ==
    /\ t.parent <= head.id
    /\ t.parent = head.id =>
          /\ t.num = head.num + 1
          /\ t \in pendingTasks \/ t.num + StaleThreshold <= head.peak

KeptInv ==
    /\ current.parent <= head.id
    /\ current.parent = head.id => current.num = head.num + 1
    /\ \A i \in 1..Len(headQ) : headQ[i] <= head.peak
    /\ head.num <= head.peak
    /\ \A i \in 1..Len(sealers) : Kept(sealers[i].task)
    /\ \A i \in 1..Len(resultQ) : Kept(resultQ[i])

TypeInv == ChainType /\ MainType /\ SealType

Inv == TypeInv /\ SignalInv /\ FreshInv /\ KeptInv

-----------------------------------------------------------------------------
(* What a step leaves alone stays true. *)

LEMMA ChainKept ==
    ASSUME ChainType, UNCHANGED <<head, posting, headQ, pool, txQ>> PROVE ChainType'
  BY Zenon DEF ChainType

(* A step that leaves the tasks alone keeps their types.                   *)
LEMMA MainKept ==
    ASSUME MainType, UNCHANGED <<current, snapshot, pendingTasks, todo, running>>
    PROVE  MainType'
  BY Zenon DEF MainType

(* A step that leaves the sealers alone keeps their types.                 *)
LEMMA SealKept ==
    ASSUME SealType, UNCHANGED <<sealers, resultQ, stopGen>> PROVE SealType'
  BY Zenon DEF SealType

(* A step that leaves events, requests and blocks alone loses no head.     *)
LEMMA FreshKept ==
    ASSUME FreshInv,
           UNCHANGED <<startQ, starter, npc, headQ, posting, current, head, mpc, snapshot,
                       running, closed, prev, failed>>
    PROVE  FreshInv'
  BY Zenon DEF FreshInv, Outstanding

(* A step that leaves tasks and sealers alone clears no task.              *)
LEMMA KeptKept ==
    ASSUME KeptInv, UNCHANGED <<current, head, headQ, sealers, resultQ, pendingTasks>>
    PROVE  KeptInv'
  BY Zenon DEF KeptInv, Kept

(* A new worker has handled nothing and built nothing.                     *)
LEMMA InvInit == Init => Inv
<1> SUFFICES ASSUME Init PROVE Inv
  BY Zenon
<1>1. /\ head = [id |-> 1, num |-> 0, inc |-> {}, peak |-> 0]
      /\ posting = "none" /\ headQ = <<>> /\ pool = Pooled /\ txQ = <<>>
      /\ running = FALSE /\ startQ = 1 /\ mpc = "select"
      /\ current = NoTask /\ todo = Idle /\ signal = "none" /\ snapshot = NoTask
      /\ stopGen = 0 /\ pendingTasks = {} /\ sealers = <<>> /\ resultQ = <<>>
  BY Zenon DEF Init
<1>2. NoTask \in Task /\ NoTask.txs = {} /\ NoTask.parent = 0 /\ NoTask.inc = {}
  BY DEF NoTask, Task
<1>3. TypeInv
  <2>1. ChainType
    BY <1>1, WorkerAssumption DEF ChainType
  <2>2. MainType
    BY <1>1, <1>2, Zenon DEF MainType, Idle
  <2>3. SealType
    BY <1>1 DEF SealType
  <2> QED
    BY <2>1, <2>2, <2>3, Zenon DEF TypeInv
<1>4. SignalInv /\ FreshInv
  BY <1>1, Zenon DEF SignalInv, FreshInv, Outstanding
<1>5. KeptInv
  BY <1>1, <1>2 DEF KeptInv
<1> QED
  BY <1>3, <1>4, <1>5, Zenon DEF Inv

(* The tasks in the engine's hands and on their way back. *)
LEMMA TasksTyped ==
    ASSUME SealType
    PROVE  /\ \A i \in 1..Len(sealers) : sealers[i] \in Sealers /\ sealers[i].task \in Task
           /\ \A i \in 1..Len(resultQ) : resultQ[i] \in Task
<1>1. \A i \in 1..Len(sealers) : sealers[i] \in Sealers
  BY DEF SealType
<1>2. \A x \in Sealers : x.task \in Task
  BY Zenon DEF Sealers
<1>3. \A i \in 1..Len(resultQ) : resultQ[i] \in Task
  BY DEF SealType
<1> QED
  BY <1>1, <1>2, <1>3, Zenon

-----------------------------------------------------------------------------
(* newWorkLoop *)

(* Clearing old tasks. *)
LEMMA Cleared ==
    ASSUME TypeInv, KeptInv, NEW n \in Int, n <= head.peak, clearPending(n),
           UNCHANGED <<head, current, snapshot, todo, mpc, running, sealers, resultQ>>
    PROVE  /\ MainType'
           /\ \A i \in 1..Len(sealers) : Kept(sealers[i].task)'
           /\ \A i \in 1..Len(resultQ) : Kept(resultQ[i])'
<1>1. /\ pendingTasks' \subseteq pendingTasks
      /\ \A t \in pendingTasks : t \notin pendingTasks' => t.num + StaleThreshold <= n
  BY WorkerAssumption DEF clearPending, TypeInv, MainType, Task
<1>2. MainType'
  BY <1>1, Zenon DEF TypeInv, MainType
<1>3. ASSUME NEW t \in Task, Kept(t) PROVE Kept(t)'
  BY <1>1, <1>3, WorkerAssumption DEF Kept, Task, TypeInv, ChainType
<1>4. /\ \A i \in 1..Len(sealers) : sealers[i].task \in Task
      /\ \A i \in 1..Len(resultQ) : resultQ[i] \in Task
  BY TasksTyped, Zenon DEF TypeInv
<1> QED
  BY <1>2, <1>3, <1>4, Zenon DEF KeptInv

(* newWorkLoop, one step: each event it takes becomes a request.           *)
LEMMA NewWorkStep == Inv /\ NewWorkLoop => Inv'
<1> SUFFICES ASSUME Inv, NewWorkLoop PROVE Inv'
  BY Zenon
<1>0. TypeInv /\ SignalInv /\ FreshInv /\ KeptInv
  BY Zenon DEF Inv
<1>1. CASE NewWorkStart
  <2>1. head.num \in Int /\ head.num <= head.peak
    BY <1>0, Zenon DEF TypeInv, ChainType, KeptInv
  <2>2. clearPending(head.num) /\ npc' = "send"
        /\ UNCHANGED <<head, posting, headQ, pool, txQ, current, snapshot, todo, mpc, running,
                       sealers, resultQ, stopGen>>
    BY <1>1, Zenon DEF NewWorkStart, Resubmit, chainVars, poolVars, mainVars, sealVars, taskVars
  <2>3. /\ MainType'
        /\ \A i \in 1..Len(sealers) : Kept(sealers[i].task)'
        /\ \A i \in 1..Len(resultQ) : Kept(resultQ[i])'
    BY <1>0, <2>1, <2>2, Cleared, Zenon
  <2> QED
    BY <1>0, <2>2, <2>3, ChainKept, SealKept, Zenon
    DEF Inv, TypeInv, KeptInv, SignalInv, FreshInv, Outstanding
<1>2. CASE NewWorkHead
  <2>1. headQ # <<>> /\ headQ' = Tail(headQ) /\ clearPending(Head(headQ)) /\ npc' = "send"
        /\ UNCHANGED <<head, posting, pool, txQ, current, snapshot, todo, mpc, running,
                       sealers, resultQ, stopGen>>
    BY <1>2, Zenon DEF NewWorkHead, Resubmit, poolVars, apiVars, mainVars, sealVars, taskVars
  <2>2. Head(headQ) \in Int /\ Head(headQ) <= head.peak /\ headQ' \in Seq(Int)
        /\ \A i \in 1..Len(headQ') : headQ'[i] <= head.peak
    BY <1>0, <2>1 DEF TypeInv, ChainType, KeptInv
  <2>3. /\ MainType'
        /\ \A i \in 1..Len(sealers) : Kept(sealers[i].task)'
        /\ \A i \in 1..Len(resultQ) : Kept(resultQ[i])'
    BY <1>0, <2>1, <2>2, Cleared, Zenon
  <2>4. ChainType' /\ KeptInv'
    BY <1>0, <2>1, <2>2, <2>3, Zenon DEF TypeInv, ChainType, KeptInv
  <2> QED
    BY <1>0, <2>1, <2>3, <2>4, SealKept, Zenon
    DEF Inv, TypeInv, SignalInv, FreshInv, Outstanding
<1>3. CASE NewWorkTick \/ NewWorkAdjust \/ NewWorkReset \/ NewWorkExit
  <2>1. UNCHANGED <<head, posting, headQ, pool, txQ, startQ, starter, closed, failed, prev, mpc,
          current, snapshot, pendingTasks, todo, running, sealers, resultQ, stopGen>>
    BY <1>3, Zenon DEF NewWorkTick, NewWorkAdjust, NewWorkReset, NewWorkExit, chainVars, poolVars,
       apiVars, mainVars, taskVars, sealVars
  <2>2. npc # "send" => signal = "none"
    BY <1>0, Zenon DEF SignalInv
  <2>3. (npc' = "send" \/ npc # "send") /\ (npc' = "send" \/ signal' = signal)
    BY <1>3, Zenon DEF NewWorkTick, NewWorkAdjust, NewWorkReset, NewWorkExit, Resubmit, newVars
  <2>4. SignalInv' /\ FreshInv'
    BY <1>0, <2>1, <2>2, <2>3, Zenon DEF SignalInv, FreshInv, Outstanding
  <2> QED
    BY <1>0, <2>1, <2>4, ChainKept, MainKept, SealKept, KeptKept, Zenon DEF Inv, TypeInv
<1> QED
  BY <1>1, <1>2, <1>3, Zenon DEF NewWorkLoop

-----------------------------------------------------------------------------
(* mainLoop *)

(* Executing a transaction changes the block's transactions only. *)
LEMMA Executed ==
    ASSUME NEW c \in Task, NEW x \in Txs
    PROVE  /\ Execute(c, x) \in Task
           /\ Execute(c, x).parent = c.parent /\ Execute(c, x).num = c.num
           /\ Execute(c, x).coinbase = c.coinbase
<1>1. CASE x \in c.inc
  BY <1>1, Zenon DEF Execute
<1>2. CASE x \notin c.inc
  <2> DEFINE d == [c EXCEPT !.txs = @ \cup {x}]
  <2>1. d \in Task /\ d.parent = c.parent /\ d.num = c.num /\ d.coinbase = c.coinbase
    BY Zenon DEF Task
  <2>2. Execute(c, x) = d
    BY <1>2, Zenon DEF Execute
  <2> QED
    BY <2>1, <2>2, Zenon
<1> QED
  BY <1>1, <1>2, Zenon

(* commitNewWork builds on the head, or returns early.                     *)
LEMMA MainWorkStep == Inv /\ (MainNewWork \/ MainNewWorkFails \/ MainPending) => Inv'
<1> SUFFICES ASSUME Inv, MainNewWork \/ MainNewWorkFails \/ MainPending PROVE Inv'
  BY Zenon
<1>0. TypeInv /\ SignalInv /\ FreshInv /\ KeptInv
  BY Zenon DEF Inv
<1>1. CASE MainNewWork
  <2>1. /\ mpc = "select" /\ npc' = "reset" /\ signal' = "none" /\ mpc' = "pending"
        /\ current' = [parent |-> head.id, num |-> head.num + 1,
                       coinbase |-> running, txs |-> {}, inc |-> head.inc]
        /\ UNCHANGED <<head, posting, headQ, pool, txQ, snapshot, pendingTasks, todo, running,
                       sealers, resultQ, stopGen>>
    BY <1>1, Zenon DEF MainNewWork, chainVars, poolVars, apiVars, taskVars, sealVars
  <2>2. current' \in Task /\ current'.parent = head.id /\ current'.num = head.num + 1
        /\ current'.coinbase = running
    BY <1>0, <2>1 DEF TypeInv, ChainType, MainType, Task
  <2>3. MainType'
    BY <1>0, <2>1, <2>2, Zenon DEF TypeInv, MainType
  <2>4. SignalInv' /\ FreshInv'
    BY <2>1, <2>2, Zenon DEF SignalInv, FreshInv
  <2>5. KeptInv'
    BY <1>0, <2>1, <2>2 DEF KeptInv, Kept, TypeInv, ChainType
  <2> QED
    BY <1>0, <2>1, <2>3, <2>4, <2>5, ChainKept, SealKept, Zenon DEF Inv, TypeInv
<1>2. CASE MainPending
  <2> DEFINE t == [local |-> pool \cap Local, remote |-> pool \ Local]
  <2>1. /\ todo' = t /\ mpc' = NextGroup(t)
        /\ UNCHANGED <<head, posting, headQ, pool, txQ, startQ, starter, closed, failed, npc, signal,
             prev, current, snapshot, pendingTasks, running, sealers, resultQ, stopGen>>
    BY <1>2, Zenon DEF MainPending, chainVars, poolVars, apiVars, newVars, taskVars, sealVars
  <2>2. mpc' \in {"local", "remote", "commit"}
    BY <2>1, Zenon DEF NextGroup
  <2>3. MainType'
    BY <1>0, <2>1, <2>2, Zenon DEF TypeInv, ChainType, MainType
  <2>4. FreshInv' /\ SignalInv'
    BY <1>0, <2>1, <2>2, Zenon DEF FreshInv, Outstanding, SignalInv
  <2> QED
    BY <1>0, <2>1, <2>3, <2>4, ChainKept, SealKept, KeptKept, Zenon DEF Inv, TypeInv
<1>3. CASE MainNewWorkFails
  <2>1. /\ signal' = "none" /\ failed' = TRUE
        /\ UNCHANGED <<head, posting, headQ, pool, txQ, current, snapshot, pendingTasks, todo,
                       running, sealers, resultQ, stopGen>>
    BY <1>3, Zenon DEF MainNewWorkFails, chainVars, poolVars, taskVars, sealVars
  <2>2. SignalInv' /\ FreshInv'
    BY <2>1, Zenon DEF SignalInv, FreshInv
  <2> QED
    BY <1>0, <2>1, <2>2, ChainKept, MainKept, SealKept, KeptKept, Zenon DEF Inv, TypeInv
<1> QED
  BY <1>1, <1>2, <1>3, Zenon

(* commitTransactions fills the block, or is interrupted.                  *)
LEMMA MainFillStep ==
    ASSUME Inv, NEW g \in {"local", "remote"}, MainFill(g) PROVE Inv'
<1>0. TypeInv /\ SignalInv /\ FreshInv /\ KeptInv
  BY Zenon DEF Inv
<1>1. /\ mpc = g
      /\ UNCHANGED <<head, posting, headQ, pool, txQ, startQ, starter, closed, failed, npc, signal,
           prev, snapshot, pendingTasks, running, sealers, resultQ, stopGen>>
  BY Zenon DEF MainFill, chainVars, poolVars, apiVars, newVars, taskVars, sealVars
<1>2. SignalInv' /\ ChainType' /\ SealType'
  BY <1>0, <1>1, ChainKept, SealKept, Zenon DEF SignalInv, TypeInv
<1>3. CASE signal = "newHead" /\ mpc' = "select" /\ todo' = Idle /\ UNCHANGED current
  <2>1. Outstanding'
    BY <1>0, <1>1, <1>3, Zenon DEF SignalInv, Outstanding
  <2>2. MainType'
    BY <1>0, <1>1, <1>3, Zenon DEF TypeInv, MainType, Idle
  <2> QED
    BY <1>0, <1>1, <1>2, <1>3, <2>1, <2>2, KeptKept, Zenon DEF Inv, TypeInv, FreshInv
<1>4. CASE mpc' \in {"adjustLocal", "adjustRemote"} /\ UNCHANGED <<current, todo>>
  <2>1. MainType' /\ FreshInv'
    BY <1>0, <1>1, <1>4, Zenon DEF TypeInv, MainType, FreshInv, Outstanding
  <2> QED
    BY <1>0, <1>1, <1>2, <1>4, <2>1, KeptKept, Zenon DEF Inv, TypeInv
<1>5. ASSUME NEW tx \in todo[g], current' = Execute(current, tx),
             todo' = [todo EXCEPT ![g] = @ \ {tx}], UNCHANGED mpc
      PROVE  Inv'
  <2>1. tx \in Txs
    BY <1>0, Zenon DEF TypeInv, MainType
  <2>2. /\ current' \in Task /\ current'.parent = current.parent /\ current'.num = current.num
        /\ current'.coinbase = current.coinbase
    BY <1>0, <1>5, <2>1, Executed, Zenon DEF TypeInv, MainType
  <2>3. todo' \in [local : SUBSET Txs, remote : SUBSET Txs]
    BY <1>0, <1>5, Zenon DEF TypeInv, MainType
  <2>4. MainType'
    BY <1>0, <1>1, <2>2, <2>3, Zenon DEF TypeInv, MainType
  <2>5. FreshInv'
    BY <1>0, <1>1, <1>5, <2>2, Zenon DEF FreshInv, Outstanding
  <2>6. KeptInv'
    BY <1>0, <1>1, <2>2, Zenon DEF KeptInv, Kept
  <2> QED
    BY <1>2, <1>0, <1>1, <2>4, <2>5, <2>6, Zenon DEF Inv, TypeInv
<1> QED
  BY <1>3, <1>4, <1>5, Zenon DEF MainFill

(* The resubmit report, and commit with or without a task.                 *)
LEMMA MainCommitStep ==
    Inv /\ ((\E g \in {"adjustLocal", "adjustRemote"} : MainAdjust(g))
            \/ MainCommitIdle \/ MainCommitTask) => Inv'
<1> SUFFICES ASSUME Inv, (\E g \in {"adjustLocal", "adjustRemote"} : MainAdjust(g))
                         \/ MainCommitIdle \/ MainCommitTask
             PROVE  Inv'
  BY Zenon
<1>0. TypeInv /\ SignalInv /\ FreshInv /\ KeptInv
  BY Zenon DEF Inv
<1>1. ASSUME NEW g \in {"adjustLocal", "adjustRemote"}, MainAdjust(g) PROVE Inv'
  <2>1. /\ mpc = g /\ mpc' \in {"remote", "commit"}
        /\ UNCHANGED <<head, posting, headQ, pool, txQ, startQ, starter, closed, failed, npc, signal,
             prev, current, snapshot, pendingTasks, todo, running, sealers, resultQ, stopGen>>
    BY <1>1, Zenon DEF MainAdjust, chainVars, poolVars, apiVars, newVars, taskVars, sealVars
  <2>2. SignalInv' /\ FreshInv'
    BY <1>0, <2>1, Zenon DEF SignalInv, FreshInv, Outstanding
  <2> QED
    BY <1>0, <2>1, <2>2, ChainKept, MainKept, SealKept, KeptKept, Zenon DEF Inv, TypeInv
<1>2. CASE MainCommitIdle
  <2>1. /\ snapshot' = current /\ todo' = Idle /\ ~(running /\ ~closed)
        /\ UNCHANGED <<head, posting, headQ, pool, txQ, startQ, starter, closed, failed, npc, signal,
             current, pendingTasks, running, sealers, resultQ, stopGen>>
    BY <1>2, Zenon DEF MainCommitIdle, chainVars, poolVars, apiVars, newVars, taskVars, sealVars
  <2>2. MainType'
    BY <1>0, <2>1, Zenon DEF TypeInv, MainType, Idle
  <2>3. SignalInv' /\ FreshInv'
    BY <1>0, <2>1, Zenon DEF SignalInv, FreshInv, Outstanding
  <2> QED
    BY <1>0, <2>1, <2>2, <2>3, ChainKept, SealKept, KeptKept, Zenon DEF Inv, TypeInv
<1>3. CASE MainCommitTask
  <2>1. /\ snapshot' = current /\ todo' = Idle /\ prev' = current
        /\ UNCHANGED <<head, posting, headQ, pool, txQ, startQ, starter, closed, failed, npc, signal,
             current, running, resultQ>>
    BY <1>3, Zenon DEF MainCommitTask, chainVars, poolVars, apiVars, newVars
  <2>2. \/ UNCHANGED <<pendingTasks, sealers, stopGen>>
        \/ /\ pendingTasks' = pendingTasks \cup {current} /\ stopGen' = stopGen + 1
           /\ sealers' = Append(sealers, [st |-> "created", task |-> current, stop |-> 0])
    BY <1>3, Zenon DEF MainCommitTask
  <2>3. pendingTasks \subseteq pendingTasks' /\ pendingTasks' \subseteq pendingTasks \cup {current}
    BY <2>2, Zenon
  <2>4. MainType'
    BY <1>0, <2>1, <2>3, Zenon DEF TypeInv, MainType, Idle
  <2>5. SignalInv' /\ FreshInv'
    BY <1>0, <2>1, Zenon DEF SignalInv, FreshInv, Outstanding
  <2>6. SealType' /\ KeptInv'
    <3>1. ASSUME NEW t, Kept(t) PROVE Kept(t)'
      BY <2>1, <2>3, <3>1, Zenon DEF Kept
    <3>2. CASE UNCHANGED <<pendingTasks, sealers, stopGen>>
      BY <1>0, <2>1, <3>2, SealKept, KeptKept, Zenon DEF TypeInv
    <3>3. CASE /\ pendingTasks' = pendingTasks \cup {current} /\ stopGen' = stopGen + 1
               /\ sealers' = Append(sealers, [st |-> "created", task |-> current, stop |-> 0])
      <4> DEFINE new == [st |-> "created", task |-> current, stop |-> 0]
      <4>1. new \in Sealers /\ new.task = current
        BY <1>0, Zenon DEF TypeInv, MainType, Sealers
      <4>2. Kept(current)'
        BY <1>0, <2>1, <3>3, Zenon DEF KeptInv, Kept
      <4> HIDE DEF new
      <4>3. SealType'
        BY <1>0, <2>1, <3>3, <4>1 DEF TypeInv, SealType, new
      <4>4. ASSUME NEW i \in 1..Len(sealers') PROVE Kept(sealers[i].task)'
        <5>1. CASE i \in 1..Len(sealers)
          <6>1. sealers'[i] = sealers[i]
            BY <1>0, <3>3, <5>1 DEF TypeInv, SealType
          <6> QED
            BY <1>0, <3>1, <5>1, <6>1, Zenon DEF KeptInv
        <5>2. CASE i \notin 1..Len(sealers)
          <6>1. sealers'[i] = new
            BY <1>0, <3>3, <5>2 DEF TypeInv, SealType, new
          <6> QED
            BY <2>1, <4>1, <4>2, <6>1, Zenon
        <5> QED
          BY <5>1, <5>2, Zenon
      <4> QED
        BY <1>0, <2>1, <3>1, <4>3, <4>4, Zenon DEF KeptInv
    <3> QED
      BY <2>2, <3>2, <3>3, Zenon
  <2> QED
    BY <1>0, <2>1, <2>4, <2>5, <2>6, ChainKept, Zenon DEF Inv, TypeInv
<1> QED
  BY <1>1, <1>2, <1>3, Zenon

(* mainLoop on side blocks, transactions and exit.                         *)
LEMMA MainOtherStep == Inv /\ (MainSide \/ MainTx \/ MainExit) => Inv'
<1> SUFFICES ASSUME Inv, MainSide \/ MainTx \/ MainExit PROVE Inv'
  BY Zenon
<1>0. TypeInv /\ SignalInv /\ FreshInv /\ KeptInv
  BY Zenon DEF Inv
<1>1. CASE MainSide \/ MainExit
  <2>1. /\ mpc = "select" /\ mpc' \in {"select", "commit", "exited"}
        /\ UNCHANGED <<head, posting, headQ, pool, txQ, startQ, starter, closed, failed, npc, signal,
             prev, current, snapshot, pendingTasks, todo, running, sealers, resultQ, stopGen>>
    BY <1>1, Zenon DEF MainSide, MainExit, chainVars, poolVars, apiVars, newVars, taskVars, sealVars
  <2>2. SignalInv' /\ FreshInv'
    BY <1>0, <2>1, Zenon DEF SignalInv, FreshInv, Outstanding
  <2> QED
    BY <1>0, <2>1, <2>2, ChainKept, MainKept, SealKept, KeptKept, Zenon DEF Inv, TypeInv
<1>2. CASE MainTx
  <2>1. /\ mpc = "select" /\ txQ # <<>> /\ txQ' = Tail(txQ)
        /\ UNCHANGED <<head, posting, headQ, pool, startQ, starter, closed, failed, npc, signal, mpc,
             prev, pendingTasks, todo, running, sealers, resultQ, stopGen>>
    BY <1>2, Zenon DEF MainTx, chainVars, apiVars, newVars, taskVars, sealVars
  <2>2. ChainType'
    BY <1>0, <2>1 DEF TypeInv, ChainType
  <2>3. CASE UNCHANGED <<current, snapshot>>
    BY <1>0, <2>1, <2>2, <2>3, MainKept, SealKept, FreshKept, KeptKept, Zenon
    DEF Inv, TypeInv, SignalInv
  <2>4. CASE /\ ~running /\ current' = Execute(current, Head(txQ))
             /\ snapshot' = IF current' # current THEN current' ELSE snapshot
    <3>1. Head(txQ) \in Txs
      BY <1>0, <2>1 DEF TypeInv, ChainType
    <3>2. /\ current' \in Task /\ current'.parent = current.parent
          /\ current'.num = current.num
      BY <1>0, <2>4, <3>1, Executed, Zenon DEF TypeInv, MainType
    <3>3. MainType'
      BY <1>0, <2>1, <2>4, <3>2, Zenon DEF TypeInv, MainType
    <3>4. SignalInv' /\ FreshInv'
      BY <1>0, <2>1, <2>4, <3>2, Zenon DEF SignalInv, FreshInv, Outstanding
    <3>5. KeptInv'
      BY <1>0, <2>1, <3>2, Zenon DEF KeptInv, Kept
    <3> QED
      BY <1>0, <2>1, <2>2, <3>3, <3>4, <3>5, SealKept, Zenon DEF Inv, TypeInv
  <2> QED
    BY <1>2, <2>3, <2>4, Zenon DEF MainTx
<1> QED
  BY <1>1, <1>2, Zenon

-----------------------------------------------------------------------------
(* The sealing goroutines and resultLoop *)

LEMMA SealerStep ==
    ASSUME Inv, NEW k \in 1..Len(sealers), Sealer(k) \/ SealFound(k) PROVE Inv'
<1>0. TypeInv /\ SignalInv /\ FreshInv /\ KeptInv
  BY Zenon DEF Inv
<1>1. UNCHANGED <<head, posting, headQ, pool, txQ, startQ, starter, closed, failed, npc, signal, mpc,
          prev, current, snapshot, pendingTasks, todo, running, stopGen>>
  BY Zenon DEF Sealer, SealBegin, SealStop, SealFound, chainVars, poolVars, apiVars, newVars,
     mainVars, taskVars
<1>2. \A i \in 1..Len(sealers) : sealers[i] \in Sealers /\ sealers[i].task \in Task
  BY <1>0, TasksTyped, Zenon DEF TypeInv
<1>3. ASSUME NEW t, Kept(t) PROVE Kept(t)'
  BY <1>1, <1>3, Zenon DEF Kept
<1>4. /\ \E e \in Sealers : /\ e.task = sealers[k].task \/ e.task = NoTask
                            /\ sealers' = [sealers EXCEPT ![k] = e]
      /\ resultQ' = resultQ \/ resultQ' = Append(resultQ, sealers[k].task)
  <2>1. CASE SealBegin(k)
    <3> DEFINE g == IF stopOpen THEN stopGen ELSE 0
               e == [sealers[k] EXCEPT !.st = "mining", !.stop = g]
    <3>1. g \in Nat
      BY <1>0, Zenon DEF TypeInv, SealType
    <3>2. e \in Sealers /\ e.task = sealers[k].task
      BY <1>2, <3>1, Zenon DEF Sealers
    <3>3. sealers' = [sealers EXCEPT ![k] = e] /\ resultQ' = resultQ
      BY <1>0, <2>1, Zenon DEF SealBegin, TypeInv, SealType
    <3> QED
      BY <3>2, <3>3, Zenon
  <2>2. CASE SealStop(k)
    <3>1. Ended \in Sealers /\ Ended.task = NoTask
      BY DEF Ended, Sealers, NoTask, Task
    <3>2. sealers' = [sealers EXCEPT ![k] = Ended] /\ resultQ' = resultQ
      BY <2>2, Zenon DEF SealStop
    <3> QED
      BY <3>1, <3>2, Zenon
  <2>3. CASE SealFound(k)
    <3> DEFINE e == [sealers[k] EXCEPT !.st = "found", !.stop = 0]
    <3>1. e \in Sealers /\ e.task = sealers[k].task
      BY <1>2 DEF Sealers
    <3>2. sealers' = [sealers EXCEPT ![k] = e]
          /\ (resultQ' = resultQ \/ resultQ' = Append(resultQ, sealers[k].task))
      BY <1>0, <2>3, Zenon DEF SealFound, TypeInv, SealType
    <3> QED
      BY <3>1, <3>2, Zenon
  <2> QED
    BY <2>1, <2>2, <2>3, Zenon DEF Sealer
<1>5. PICK e \in Sealers : /\ e.task = sealers[k].task \/ e.task = NoTask
                           /\ sealers' = [sealers EXCEPT ![k] = e]
  BY <1>4, Zenon
<1>6. Kept(NoTask)
  BY <1>0 DEF Kept, NoTask, TypeInv, ChainType
<1>7. SealType'
  <2>1. sealers' \in Seq(Sealers)
    BY <1>0, <1>5 DEF TypeInv, SealType
  <2>2. resultQ' \in Seq(Task)
    BY <1>0, <1>2, <1>4, SMTT(20) DEF TypeInv, SealType
  <2> QED
    BY <1>0, <1>1, <2>1, <2>2, Zenon DEF TypeInv, SealType
<1>8. ASSUME NEW i \in 1..Len(sealers') PROVE Kept(sealers[i].task)'
  <2>1. Len(sealers') = Len(sealers) /\ sealers'[i] = IF i = k THEN e ELSE sealers[i]
    BY <1>0, <1>5 DEF TypeInv, SealType
  <2>2. Kept(sealers'[i].task)
    BY <1>0, <1>5, <1>6, <2>1, Zenon DEF KeptInv
  <2> QED
    BY <1>3, <2>2, Zenon
<1>9. ASSUME NEW i \in 1..Len(resultQ') PROVE Kept(resultQ[i])'
  <2>1. CASE i \in 1..Len(resultQ)
    <3>1. resultQ'[i] = resultQ[i]
      BY <1>0, <1>4, <2>1 DEF TypeInv, SealType
    <3> QED
      BY <1>0, <1>3, <2>1, <3>1, Zenon DEF KeptInv
  <2>2. CASE i \notin 1..Len(resultQ)
    <3>1. resultQ'[i] = sealers[k].task
      BY <1>0, <1>4, <2>2 DEF TypeInv, SealType
    <3> QED
      BY <1>0, <1>3, <3>1, Zenon DEF KeptInv
  <2> QED
    BY <2>1, <2>2, Zenon
<1>10. KeptInv'
  BY <1>0, <1>1, <1>8, <1>9, Zenon DEF KeptInv
<1> QED
  BY <1>0, <1>1, <1>7, <1>10, ChainKept, MainKept, FreshKept, Zenon
  DEF Inv, TypeInv, SignalInv

(* A new head: its parent is no task's, and its event is due. *)
LEMMA HeadMoves ==
    ASSUME TypeInv, KeptInv, NEW n \in Int, NEW x \in SUBSET Txs, NewHead(n, x),
           UNCHANGED <<headQ, pool, txQ, current, sealers>>
    PROVE  /\ ChainType' /\ FreshInv'
           /\ current'.parent < head'.id /\ head'.num <= head'.peak
           /\ \A i \in 1..Len(headQ') : headQ'[i] <= head'.peak
           /\ \A t \in Task : Kept(t) => Kept(t)'
<1>1. /\ head' \in [id : Nat \ {0}, num : Int, inc : SUBSET Txs, peak : Int]
      /\ head'.id = head.id + 1 /\ head'.num <= head'.peak /\ head.peak <= head'.peak
      /\ posting' = "head"
  BY DEF NewHead, TypeInv, ChainType
<1>2. ChainType' /\ FreshInv'
  BY <1>1, Zenon DEF TypeInv, ChainType, FreshInv, Outstanding
<1>3. \A t \in Task : Kept(t) => Kept(t)'
  BY <1>1 DEF Kept, Task, TypeInv, ChainType
<1>4. current'.parent < head'.id
  BY <1>1 DEF KeptInv, TypeInv, ChainType, MainType, Task
<1>5. \A i \in 1..Len(headQ') : headQ'[i] <= head'.peak
  BY <1>1, SMTT(20) DEF KeptInv, TypeInv, ChainType
<1> QED
  BY <1>1, <1>2, <1>3, <1>4, <1>5, Zenon

(* resultLoop writes the block, or finds no task for it.                   *)
LEMMA ResultStep == Inv /\ ResultLoop => Inv'
<1> SUFFICES ASSUME Inv, ResultLoop PROVE Inv'
  OBVIOUS
<1>0. TypeInv /\ SignalInv /\ FreshInv /\ KeptInv
  BY DEF Inv
<1>1. UNCHANGED <<headQ, pool, txQ, startQ, starter, closed, failed, npc, signal, mpc, prev, current,
          snapshot, pendingTasks, todo, running, sealers, stopGen>>
  BY Zenon DEF ResultLoop, ResultDiscard, ResultWrite, ResultWriteFails, ResultExit, chainVars, poolVars, apiVars,
     newVars, mainVars, taskVars
<1>2. /\ \A i \in 1..Len(sealers) : sealers[i].task \in Task
      /\ \A i \in 1..Len(resultQ) : resultQ[i] \in Task
  BY <1>0, TasksTyped, Zenon DEF TypeInv
<1>3. SealType' /\ \A i \in 1..Len(resultQ') : \E j \in 1..Len(resultQ) : resultQ'[i] = resultQ[j]
  <2>1. CASE resultQ' = resultQ
    BY <1>0, <1>1, <2>1, Zenon DEF TypeInv, SealType
  <2>2. CASE resultQ # <<>> /\ resultQ' = Tail(resultQ)
    <3>1. SealType' /\ Len(resultQ') = Len(resultQ) - 1 /\ Len(resultQ) \in Nat
      BY <1>0, <1>1, <2>2 DEF TypeInv, SealType
    <3>2. ASSUME NEW i \in 1..Len(resultQ')
          PROVE  i + 1 \in 1..Len(resultQ) /\ resultQ'[i] = resultQ[i + 1]
      BY <1>0, <2>2, <3>1 DEF TypeInv, SealType
    <3> QED
      BY <3>1, <3>2, Zenon
  <2> QED
    BY <2>1, <2>2, Zenon DEF ResultLoop, ResultDiscard, ResultWrite, ResultWriteFails, ResultExit
<1>4. CASE UNCHANGED <<head, posting>> \/ (posting # "head" /\ posting' = "side" /\ UNCHANGED head)
  <2>1. ChainType' /\ FreshInv'
    BY <1>0, <1>1, <1>4, Zenon DEF TypeInv, ChainType, FreshInv, Outstanding
  <2>2. KeptInv'
    BY <1>0, <1>1, <1>3, <1>4, Zenon DEF KeptInv, Kept
  <2> QED
    BY <1>0, <1>1, <1>3, <2>1, <2>2, MainKept, Zenon DEF Inv, TypeInv, SignalInv
<1>5. ASSUME NEW n \in Int, NEW x \in SUBSET Txs, NewHead(n, x) PROVE Inv'
  <2>1. /\ ChainType' /\ FreshInv'
        /\ current'.parent < head'.id /\ head'.num <= head'.peak
        /\ \A i \in 1..Len(headQ') : headQ'[i] <= head'.peak
        /\ \A t \in Task : Kept(t) => Kept(t)'
    BY <1>0, <1>1, <1>5, HeadMoves, Zenon
  <2>2. current'.parent \in Nat /\ head'.id \in Nat
    BY <1>0, <1>1, <2>1, Zenon DEF TypeInv, MainType, ChainType, Task
  <2>3. KeptInv'
    <3>1. \A i \in 1..Len(sealers') : Kept(sealers[i].task)'
      BY <1>0, <1>1, <1>2, <2>1, Zenon DEF KeptInv
    <3>2. \A i \in 1..Len(resultQ') : Kept(resultQ'[i]) /\ resultQ'[i] \in Task
      BY <1>0, <1>2, <1>3, Zenon DEF KeptInv
    <3>3. \A i \in 1..Len(resultQ') : Kept(resultQ[i])'
      BY <2>1, <3>2, Zenon
    <3> QED
      BY <2>1, <2>2, <3>1, <3>3 DEF KeptInv
  <2> QED
    BY <1>0, <1>1, <1>3, <2>1, <2>3, MainKept, Zenon DEF Inv, TypeInv, SignalInv
<1>6. CASE ResultDiscard \/ ResultWriteFails \/ ResultExit
  BY <1>4, <1>6, Zenon DEF ResultDiscard, ResultWriteFails, ResultExit, chainVars
<1>7. CASE ResultWrite
  <2> DEFINE t == Head(resultQ)
  <2>1. posting = "none" /\ \/ NewHead(t.num, t.inc \cup t.txs)
                            \/ posting' = "side" /\ UNCHANGED head
    BY <1>7, Zenon DEF ResultWrite
  <2>2. t \in Task
    BY <1>0, <1>7 DEF ResultWrite, TypeInv, SealType
  <2>3. t.num \in Int /\ t.inc \cup t.txs \in SUBSET Txs
    BY <2>2, Zenon DEF Task
  <2> QED
    BY <1>4, <1>5, <2>1, <2>3, Zenon
<1> QED
  BY <1>6, <1>7, Zenon DEF ResultLoop

-----------------------------------------------------------------------------
(* The chain and the callers *)

LEMMA ChainStep == Inv /\ (Post \/ Environment) => Inv'
<1> SUFFICES ASSUME Inv, Post \/ Environment PROVE Inv'
  OBVIOUS
<1>0. TypeInv /\ SignalInv /\ FreshInv /\ KeptInv
  BY DEF Inv
<1>1. UNCHANGED <<startQ, starter, closed, failed, npc, signal, mpc, prev, current, snapshot,
          pendingTasks, todo, running, sealers, resultQ, stopGen>>
  BY Zenon DEF Post, Environment, ImportBlock, ImportSide, AddTx, apiVars, newVars, mainVars,
     taskVars, sealVars
<1>2. MainType' /\ SealType' /\ SignalInv'
  BY <1>0, <1>1, MainKept, SealKept, Zenon DEF TypeInv, SignalInv
<1>3. CASE Post
  <2>1. UNCHANGED <<head, pool, txQ>> /\ posting' = "none"
        /\ \/ posting = "head" /\ headQ' = Append(headQ, head.num)
           \/ posting = "side" /\ headQ' = headQ
    BY <1>3, Zenon DEF Post, poolVars
  <2>2. ChainType' /\ FreshInv'
    <3>1. CASE posting = "side" /\ headQ' = headQ
      BY <1>0, <1>1, <2>1, <3>1, Zenon DEF TypeInv, ChainType, FreshInv, Outstanding
    <3>2. CASE posting = "head" /\ headQ' = Append(headQ, head.num)
      <4>1. headQ' \in Seq(Int) /\ headQ' # <<>>
        BY <1>0, <3>2 DEF TypeInv, ChainType
      <4> QED
        BY <1>0, <2>1, <4>1, Zenon DEF TypeInv, ChainType, FreshInv, Outstanding
    <3> QED
      BY <2>1, <3>1, <3>2, Zenon
  <2>3. \A i \in 1..Len(headQ') : headQ'[i] <= head.peak
    <3>1. /\ headQ \in Seq(Int) /\ head.num \in Int
          /\ \A i \in 1..Len(headQ) : headQ[i] <= head.peak
          /\ head.num <= head.peak
      BY <1>0 DEF TypeInv, ChainType, KeptInv
    <3>2. CASE headQ' = headQ
      BY <3>1, <3>2
    <3>3. CASE headQ' = Append(headQ, head.num)
      <4>1. ASSUME NEW i \in 1..Len(headQ) + 1 PROVE Append(headQ, head.num)[i] <= head.peak
        BY <3>1
      <4>2. Len(headQ') = Len(headQ) + 1
        BY <3>1, <3>3
      <4> QED BY <3>3, <4>1, <4>2
    <3> QED BY <2>1, <3>2, <3>3, Zenon
  <2>4. KeptInv'
    BY <1>0, <1>1, <2>1, <2>3, Zenon DEF KeptInv, Kept
  <2> QED
    BY <1>2, <2>2, <2>4, Zenon DEF Inv, TypeInv
<1>4. CASE ImportSide \/ \E tx \in Txs : AddTx(tx)
  <2>1. /\ UNCHANGED <<head, headQ>>
        /\ posting' = posting \/ (posting = "none" /\ posting' = "side")
        /\ \/ UNCHANGED <<pool, txQ>>
           \/ \E tx \in Txs : pool' = pool \cup {tx} /\ txQ' = Append(txQ, tx)
    BY <1>4, Zenon DEF ImportSide, AddTx, chainVars, poolVars
  <2>2. pool' \subseteq Txs /\ txQ' \in Seq(Txs)
    <3>1. pool \subseteq Txs /\ txQ \in Seq(Txs)
      BY <1>0, Zenon DEF TypeInv, ChainType
    <3>2. ASSUME NEW tx \in Txs, pool' = pool \cup {tx}, txQ' = Append(txQ, tx)
          PROVE  pool' \subseteq Txs /\ txQ' \in Seq(Txs)
      BY <3>1, <3>2
    <3> QED
      BY <2>1, <3>1, <3>2, Zenon
  <2>3. ChainType' /\ FreshInv'
    BY <1>0, <1>1, <2>1, <2>2, Zenon DEF TypeInv, ChainType, FreshInv, Outstanding
  <2> QED
    BY <1>0, <1>1, <1>2, <2>1, <2>3, KeptKept, Zenon DEF Inv, TypeInv
<1>5. CASE ImportBlock
  <2>1. \E n \in Int, x \in SUBSET Txs : NewHead(n, x)
    <3>1. head.num \in Int /\ head.inc \in SUBSET Txs /\ {} \in SUBSET Txs
          /\ head.num + 1 \in Int /\ head.num - 1 \in Int
      BY <1>0 DEF TypeInv, ChainType
    <3>2. \/ NewHead(head.num + 1, head.inc)
          \/ NewHead(head.num - 1, {}) \/ NewHead(head.num, {})
      BY <1>5, Zenon DEF ImportBlock
    <3> QED
      BY <3>1, <3>2, Zenon
  <2>2. UNCHANGED <<headQ, pool, txQ>>
    BY <1>5, Zenon DEF ImportBlock, poolVars
  <2>3. /\ ChainType' /\ FreshInv'
        /\ current'.parent < head'.id /\ head'.num <= head'.peak
        /\ \A i \in 1..Len(headQ') : headQ'[i] <= head'.peak
        /\ \A t \in Task : Kept(t) => Kept(t)'
    BY <1>0, <1>1, <2>1, <2>2, HeadMoves, Zenon
  <2>4. current'.parent \in Nat /\ head'.id \in Nat
    BY <1>2, <2>3, Zenon DEF MainType, ChainType, Task
  <2>5. /\ \A i \in 1..Len(sealers) : sealers[i].task \in Task
        /\ \A i \in 1..Len(resultQ) : resultQ[i] \in Task
    BY <1>0, TasksTyped, Zenon DEF TypeInv
  <2>6. KeptInv'
    BY <1>0, <1>1, <2>3, <2>4, <2>5 DEF KeptInv
  <2> QED
    BY <1>2, <2>3, <2>6, Zenon DEF Inv, TypeInv
<1> QED
  BY <1>3, <1>4, <1>5, Zenon DEF Environment

(* start, stop, close, the end of taskLoop, and stuttering.                *)
LEMMA CallerStep == Inv /\ (Callers \/ StartSend \/ TaskExit \/ UNCHANGED vars) => Inv'
<1> SUFFICES ASSUME Inv, Callers \/ StartSend \/ TaskExit \/ UNCHANGED vars PROVE Inv'
  BY Zenon
<1>0. TypeInv /\ SignalInv /\ FreshInv /\ KeptInv
  BY Zenon DEF Inv
<1>1. UNCHANGED <<head, posting, headQ, pool, txQ, failed, npc, signal, mpc, prev, current,
          snapshot, pendingTasks, todo, sealers, resultQ, stopGen>>
  BY Zenon DEF Callers, StartStore, StartSend, Stop, Close, TaskExit, vars, chainVars, poolVars,
     newVars, mainVars, taskVars, sealVars
<1>2. /\ running' \in BOOLEAN
      /\ (startQ' = 1 \/ starter' = "send")
         \/ (UNCHANGED <<startQ, starter>> /\ (running' => running) /\ (closed => closed'))
  <2>1. CASE StartStore \/ StartSend
    BY <1>0, <2>1, Zenon DEF StartStore, StartSend, TypeInv, MainType
  <2>2. CASE Stop
    BY <2>2, Zenon DEF Stop
  <2>3. CASE Close
    BY <1>0, <2>3, Zenon DEF Close, TypeInv, MainType
  <2>4. CASE TaskExit \/ UNCHANGED vars
    BY <1>0, <2>4 DEF TaskExit, vars, apiVars, TypeInv, MainType
  <2> QED
    BY <2>1, <2>2, <2>3, <2>4, Zenon DEF Callers
<1>3. MainType' /\ FreshInv'
  BY <1>0, <1>1, <1>2, Zenon DEF TypeInv, MainType, FreshInv, Outstanding
<1> QED
  BY <1>0, <1>1, <1>3, ChainKept, SealKept, KeptKept, Zenon DEF Inv, TypeInv, SignalInv

(* Every step keeps the invariant.                                         *)
LEMMA InvNext == Inv /\ [Next]_vars => Inv'
<1> SUFFICES ASSUME Inv, [Next]_vars PROVE Inv'
  BY Zenon
<1>1. CASE MainLoop
  BY <1>1, MainWorkStep, MainFillStep, MainCommitStep, MainOtherStep, Zenon DEF MainLoop
<1>2. CASE \E k \in 1..Len(sealers) : Sealer(k) \/ SealFound(k)
  BY <1>2, SealerStep, Zenon
<1> QED
  BY <1>1, <1>2, NewWorkStep, ResultStep, ChainStep, CallerStep, Zenon DEF Next, Goroutines

(* The invariant holds in every state.                                     *)
LEMMA InvAlways == Spec => []Inv
<1>1. Init => Inv
  BY InvInit, Zenon
<1>2. Inv /\ [Next]_vars => Inv'
  BY InvNext, Zenon
<1> QED
  BY <1>1, <1>2, PTL DEF Spec

-----------------------------------------------------------------------------
(* The results *)

(* For any number of heads, starts and stops: a worker with nothing left to *)
(* handle has built on the current head, shows that block as pending and,   *)
(* if it runs, handed it to taskLoop (newWorkLoop, commitNewWork, commit),  *)
(* unless commitNewWork returned early on the last request.                 *)
THEOREM HeadsNotLost == Spec => []QuiescentOnHead
<1>1. Inv => QuiescentOnHead
  BY DEF Inv, FreshInv, Outstanding, QuiescentOnHead, Quiescent
<1> QED
  BY <1>1, InvAlways, PTL

(* However start, stop and the requests interleave: a running worker with   *)
(* nothing left to handle seals for its own account (start stores the flag  *)
(* that commitNewWork reads before it asks for work).                       *)
THEOREM SealsForOwner == Spec => []SealsForCoinbase
<1>1. Inv => SealsForCoinbase
  BY DEF Inv, FreshInv, Outstanding, SealsForCoinbase, Quiescent
<1> QED
  BY <1>1, InvAlways, PTL

(* A semi-finished block is dropped only while newWorkLoop offers a newer   *)
(* request (the interrupt of commitTransactions).                           *)
THEOREM InterruptedReplaced == Spec => DiscardedIsReplaced
<1> DEFINE Good == \A g \in {"local", "remote"} : (mpc = g /\ mpc' = "select") => npc = "send"
<1>1. ASSUME Inv, Next, NEW g \in {"local", "remote"}, mpc = g, mpc' = "select"
      PROVE  npc = "send"
  <2>1. CASE MainLoop
    <3>1. PICK f \in {"local", "remote"} : MainFill(f)
      BY <1>1, <2>1, Zenon DEF MainLoop, MainNewWork, MainNewWorkFails, MainPending,
         MainAdjust, MainCommitIdle, MainCommitTask, MainSide, MainTx, MainExit
    <3>2. signal = "newHead"
      BY <1>1, <3>1, Zenon DEF MainFill
    <3> QED
      BY <1>1, <3>2, Zenon DEF Inv, SignalInv
  <2>2. CASE NewWorkLoop \/ TaskExit \/ ResultLoop \/ Post
    BY <1>1, <2>2, Zenon DEF NewWorkLoop, NewWorkStart, NewWorkHead, NewWorkTick, NewWorkAdjust,
       NewWorkReset, NewWorkExit, TaskExit, ResultLoop, ResultDiscard, ResultWrite, ResultWriteFails,
       ResultExit, Post, mainVars
  <2>3. CASE \/ \E k \in 1..Len(sealers) : Sealer(k) \/ SealFound(k)
             \/ StartSend \/ Callers \/ Environment
    BY <1>1, <2>3, Zenon DEF Sealer, SealBegin, SealStop, SealFound, Callers, StartStore, StartSend,
       Stop, Close, Environment, ImportBlock, ImportSide, AddTx, mainVars
  <2> QED
    BY <1>1, <2>1, <2>2, <2>3, Zenon DEF Next, Goroutines
<1>2. Inv /\ [Next]_vars => [Good]_vars
  BY <1>1, Zenon
<1> QED
  BY <1>2, InvAlways, PTL DEF Spec, DiscardedIsReplaced

(* A sealed block on the current head loses its task only if the chain once *)
(* was StaleThreshold higher than it (clearPending against resultLoop).     *)
THEOREM HeadBlocksKept == Spec => HeadBlockNotDiscarded
<1> DEFINE Good == (/\ resultQ # <<>> /\ resultQ' = Tail(resultQ)
                    /\ Head(resultQ) \notin pendingTasks) =>
                      \/ Head(resultQ).parent # head.id
                      \/ head.num + 1 + StaleThreshold <= head.peak
<1>1. ASSUME Inv, resultQ # <<>>, Head(resultQ) \notin pendingTasks,
             Head(resultQ).parent = head.id
      PROVE  head.num + 1 + StaleThreshold <= head.peak
  <2>1. Head(resultQ) = resultQ[1] /\ 1 \in 1..Len(resultQ)
    BY <1>1 DEF Inv, TypeInv, SealType
  <2>2. Kept(resultQ[1])
    BY <1>1, <2>1, Zenon DEF Inv, KeptInv
  <2> QED
    BY <1>1, <2>1, <2>2, Zenon DEF Kept
<1>2. Inv /\ [Next]_vars => [Good]_vars
  BY <1>1, Zenon
<1> QED
  BY <1>2, InvAlways, PTL DEF Spec, HeadBlockNotDiscarded

=============================================================================
