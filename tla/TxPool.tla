------------------------------- MODULE TxPool -------------------------------
(***************************************************************************)
(* The transaction pool (core/tx_pool.go, tx_list.go, tx_noncer.go).       *)
(*                                                                         *)
(* Callers add transactions under pool.mu; the goroutine loop turns chain  *)
(* heads into reset requests; scheduleReorgLoop merges the requests that   *)
(* arrive while a run is active and launches at most one runReorg at a     *)
(* time, which takes pool.mu, resets to the new head, promotes, demotes,   *)
(* truncates and, after the unlock, announces.                             *)
(*                                                                         *)
(* Data: a transaction has a sender, a nonce, a price and a cost.  Gas     *)
(* limits are abstracted (Filter drops on cost only), a transaction takes  *)
(* one slot, the price heap is the set `all' (its stale entries are        *)
(* skipped by every reader), heartbeats are abstracted (any remote account *)
(* may be old enough to be evicted, and truncateQueue may take accounts in *)
(* any order), and the chain is a finite tree of blocks whose states give  *)
(* nonces and balances.  The journal and the metrics are left out.         *)
(***************************************************************************)
EXTENDS Integers, Sequences, FiniteSets, Functions

CONSTANTS
    Accounts,
    Txs,            \* every transaction that is ever seen
    From,           \* [Txs -> Accounts]
    Nonce,          \* [Txs -> Nat]
    Price,          \* [Txs -> Nat]
    Cost,           \* [Txs -> Nat]
    Blocks,
    Genesis,
    Parent,         \* [Blocks -> Blocks], the genesis is its own parent
    Height,         \* [Blocks -> Nat]
    BlockTxs,       \* [Blocks -> SUBSET Txs]
    GetNonce,       \* [Blocks -> [Accounts -> Nat]], the state of a block
    GetBalance,     \* [Blocks -> [Accounts -> Nat]]
    PriceLimits,    \* gas prices the miner sets
    PriceBump,
    AccountSlots, GlobalSlots, AccountQueue, GlobalQueue,
    ReorgLimit,     \* 64 in the code
    Callers,        \* callers of AddLocals and AddRemotes
    Batches,        \* what each adds: [Callers -> Seq([txs: Seq(Txs), local: BOOLEAN])]
    MaxCalls,       \* bound: calls of SetGasPrice and Stop, and evictions
    MaxHeads        \* bound: chain head events

\* Transactions name an account and the limits are at least one, as sanitize
\* enforces.
ASSUME TxPoolAssumption ==
    /\ From \in [Txs -> Accounts]
    /\ Nonce \in [Txs -> Nat]
    /\ Price \in [Txs -> Nat]
    /\ Cost \in [Txs -> Nat]
    /\ Batches \in [Callers -> Seq([txs : Seq(Txs), local : BOOLEAN])]
    /\ Genesis \in Blocks
    /\ BlockTxs \in [Blocks -> SUBSET Txs]
    /\ GetNonce \in [Blocks -> [Accounts -> Nat]]
    /\ GetBalance \in [Blocks -> [Accounts -> Nat]]
    /\ AccountSlots \in Nat \ {0}
    /\ GlobalSlots \in Nat \ {0}
    /\ AccountQueue \in Nat \ {0}
    /\ GlobalQueue \in Nat \ {0}

VARIABLES
    \* the chain and loop
    current,        \* chain.CurrentBlock()
    heads,          \* number of chain head events so far
    headCh,         \* chainHeadCh
    head,           \* loop's head
    \* guarded by mu
    mu,             \* "free", or held by a "caller" or the "run"
    state,          \* the block currentState was opened at
    pool,           \* [pending, queue: per account, all: lookup, nonces]
    locals,
    gasPrice,
    \* scheduleReorgLoop
    reset,          \* the merged reset request, a set of at most one
    dirty,          \* dirtyAccounts
    events,         \* queuedEvents
    launch,         \* launchNextRun
    closed,         \* reorgShutdownCh
    scheduler,      \* scheduleReorgLoop: "run", "ending" or "done"
    \* runReorg, and the callers
    run,            \* [pc, reset, dirty, events, todo: to reinject]
    trunc,          \* truncatePending: [spammers, offenders]
    calls,          \* number of calls and evictions so far
    caller,         \* per caller: [pc, n: calls so far, todo, known, errs, dirty]
    \* observations
    announced,      \* transactions sent to the subscribers of NewTxsEvent
    refused         \* accounts that lost a transaction while reset added reorged ones

chainVars == <<current, heads, headCh, head>>
poolVars == <<mu, state, pool, locals, gasPrice>>
loopVars == <<reset, dirty, events, launch, closed, scheduler>>
runVars == <<run, trunc>>
vars == <<chainVars, poolVars, loopVars, runVars, calls, caller, announced, refused>>

\* the list of account a in T, which the pool keeps as a map of lists
Of(T, a) == {t \in T : From[t] = a}

-----------------------------------------------------------------------------
(* txList: a set of transactions of one account, one per nonce. *)

SameNonce(S, t) == {u \in S : Nonce[u] = Nonce[t]}

\* Add's price bump: strictly dearer, and by PriceBump per cent
Outbids(t, u) ==
    /\ Price[t] > Price[u]
    /\ Price[t] >= (Price[u] * (100 + PriceBump)) \div 100

Inserted(S, T) == {t \in T : \A u \in SameNonce(S, t) : Outbids(t, u)}

Replaced(S, T) == {u \in S : SameNonce(Inserted(S, T), u) # {}}

AddAll(S, T) == (S \ Replaced(S, T)) \cup Inserted(S, T)

Forward(S, n) == {t \in S : Nonce[t] < n}

Unpayable(S, balance) == {t \in S : Cost[t] > balance}

\* a strict list gives up what follows a removed transaction
Following(S, D) == {t \in S \ D : \E d \in D : Nonce[d] < Nonce[t]}

\* the first n by nonce stay, the rest is dropped
Cap(S, n) == {t \in S : Cardinality({u \in S : Nonce[u] < Nonce[t]}) >= n}

\* the run of consecutive nonces at the front, if it starts at or below start
Ready(S, start) ==
    LET front == {t \in S : \A u \in S : Nonce[t] <= Nonce[u]}
    IN  {t \in S : \E f \in front :
            /\ Nonce[f] <= start
            /\ \A n \in Nonce[f] .. Nonce[t] : \E u \in S : Nonce[u] = n}

-----------------------------------------------------------------------------
(* The operations on the lists, each under mu. *)

\* enqueueTx, for every transaction of T; what the queue refuses stays in all
Enqueue(P, T) ==
    LET put(a) == AddAll(P.queue[a], Of(T, a))
        gone == UNION {Replaced(P.queue[a], Of(T, a)) : a \in Accounts}
        new == UNION {Inserted(P.queue[a], Of(T, a)) : a \in Accounts}
    IN  [P EXCEPT !.queue = [a \in Accounts |-> put(a)],
                  !.all = (@ \ gone) \cup new]

(* Mutant: what follows a removed transaction is not queued again.         *)
RemoveTxForgets(P, D) ==
    LET hit(a) == {u \in P.pending[a] : u \in D \cap P.all}
        inv(a) == Following(P.pending[a], hit(a))
        low(a) == {Nonce[u] : u \in hit(a)} \cup {P.nonces[a]}
    IN  [pending |-> [a \in Accounts |-> P.pending[a] \ (hit(a) \cup inv(a))],
         queue |-> [a \in Accounts |-> P.queue[a] \ D],
         all |-> P.all \ D,
         nonces |-> [a \in Accounts |-> CHOOSE n \in low(a) : \A m \in low(a) : n <= m]]

(* Mutant: the nonce of the account is not lowered.                        *)
RemoveTxKeepsNonce(P, D) ==
    LET hit(a) == {u \in P.pending[a] : u \in D \cap P.all}
        inv(a) == Following(P.pending[a], hit(a))
    IN  Enqueue([P EXCEPT
                   !.pending = [a \in Accounts |-> P.pending[a] \ (hit(a) \cup inv(a))],
                   !.queue = [a \in Accounts |-> P.queue[a] \ D],
                   !.all = @ \ D], UNION {inv(a) : a \in Accounts})

\* removeTx, for every known transaction of D
RemoveTx(P, D) ==
    LET known(a) == Of(D \cap P.all, a)
        hit(a) == {u \in P.pending[a] : SameNonce(known(a), u) # {}}
        inv(a) == Following(P.pending[a], hit(a))
        gone(a) == {u \in P.queue[a] : \E d \in known(a) :
                      Nonce[d] = Nonce[u] /\ SameNonce(P.pending[a], d) = {}}
        low(a) == {Nonce[u] : u \in hit(a)} \cup {P.nonces[a]}
        P1 == [pending |-> [a \in Accounts |-> P.pending[a] \ (hit(a) \cup inv(a))],
               queue |-> [a \in Accounts |-> P.queue[a] \ gone(a)],
               all |-> P.all \ D,
               nonces |-> [a \in Accounts |->
                             CHOOSE n \in low(a) : \A m \in low(a) : n <= m]]
    IN  Enqueue(P1, UNION {inv(a) \ D : a \in Accounts})

Remote(P) == {t \in P.all : From[t] \notin locals}

(* Mutant: the pool may hold one more.                                     *)
FullAbove(P) == Cardinality(P.all) > GlobalSlots + GlobalQueue

Full(P) == Cardinality(P.all) >= GlobalSlots + GlobalQueue

\* validateTx
Valid(t, local) ==
    /\ local \/ From[t] \in locals \/ gasPrice <= Price[t]
    /\ GetNonce[state][From[t]] <= Nonce[t]
    /\ Cost[t] <= GetBalance[state][From[t]]

\* priced.Underpriced
Underpriced(P, t) ==
    /\ From[t] \notin locals
    /\ \A u \in P.all : Price[u] >= Price[t]

\* priced.Discard: the cheapest remote transactions that make room for one more.
\* Each is in the heap once here; one that was dropped and added again may be in
\* it twice, until the next reheap, and is then counted twice.
Discards(P) ==
    LET room == Cardinality(P.all) - (GlobalSlots + GlobalQueue) + 1
        before(t, u) == \/ Price[t] < Price[u]
                        \/ Price[t] = Price[u] /\ Nonce[t] >= Nonce[u]
    IN  IF ~Full(P) THEN {{}}
        ELSE {D \in SUBSET Remote(P) :
                /\ Cardinality(D) = room \/ (Cardinality(D) < room /\ D = Remote(P))
                /\ \A d \in D, u \in Remote(P) \ D : before(d, u)}

Rejects(P, t, local) ==
    \/ t \in P.all
    \/ ~Valid(t, local)
    \/ Full(P) /\ ~local /\ Underpriced(P, t)

Overlaps(P, t) == SameNonce(P.pending[From[t]], t) # {}

\* the part of add after room was made
Insert(P, t) ==
    IF Overlaps(P, t)
    THEN LET old == Replaced(P.pending[From[t]], {t})
             new == Inserted(P.pending[From[t]], {t})
         IN  [P EXCEPT !.pending[From[t]] = (@ \ old) \cup new,
                       !.all = (@ \ old) \cup new]
    ELSE Enqueue(P, {t})

-----------------------------------------------------------------------------
(* promoteExecutables and demoteUnexecutables, as functions of the accounts. *)

\* what stays of an account's queue once stale and unpayable ones are dropped
Payable(P, a) ==
    LET q == P.queue[a] \ Forward(P.queue[a], GetNonce[state][a])
    IN  q \ Unpayable(q, GetBalance[state][a])

Readies(P, a) == Ready(Payable(P, a), P.nonces[a])

Promoted(P, A) == UNION {Inserted(P.pending[a], Readies(P, a)) : a \in A}

Promote(P, A) ==
    LET rest(a) == Payable(P, a) \ Readies(P, a)
        kept(a) == IF a \in locals THEN rest(a) ELSE rest(a) \ Cap(rest(a), AccountQueue)
        queue == [a \in Accounts |-> IF a \in A THEN kept(a) ELSE P.queue[a]]
        pend == [a \in Accounts |->
                   IF a \in A THEN AddAll(P.pending[a], Readies(P, a)) ELSE P.pending[a]]
        new(a) == Inserted(P.pending[a], Readies(P, a))
    IN  [pending |-> pend,
         queue |-> queue,
         all |-> {t \in P.all :
                    From[t] \in A => \/ t \notin P.queue[From[t]] \cup P.pending[From[t]]
                                     \/ t \in queue[From[t]] \cup pend[From[t]]},
         nonces |-> [a \in Accounts |->
                       IF a \in A /\ new(a) # {}
                       THEN 1 + CHOOSE n \in {Nonce[t] : t \in new(a)} :
                                  \A t \in new(a) : Nonce[t] <= n
                       ELSE P.nonces[a]]]

Demote(P) ==
    LET old(a) == Forward(P.pending[a], GetNonce[state][a])
        live(a) == P.pending[a] \ old(a)
        drop(a) == Unpayable(live(a), GetBalance[state][a])
        inv(a) == Following(live(a), drop(a))
        left(a) == live(a) \ (drop(a) \cup inv(a))
        gapped(a) == IF \E t \in left(a) : Nonce[t] = GetNonce[state][a]
                     THEN {} ELSE left(a)
        P1 == [P EXCEPT
                 !.pending = [a \in Accounts |-> left(a) \ gapped(a)],
                 !.all = @ \ UNION {old(a) \cup drop(a) : a \in Accounts}]
    IN  Enqueue(P1, UNION {inv(a) \cup gapped(a) : a \in Accounts})

-----------------------------------------------------------------------------
(* The callers. *)

(* Mutant: new events replace the ones that wait.                          *)
PutEventsOnly(E, T) == T

\* an event map holds one transaction per account and nonce
PutEvents(E, T) ==
    {e \in E : ~\E t \in T : From[t] = From[e] /\ Nonce[t] = Nonce[e]} \cup T

\* add: the pool after D was discarded and t inserted, and how t fared
AddResult(t, D) ==
    LET P1 == RemoveTx(pool, D)
        P2 == Insert(P1, t)
    IN  [pool |-> P2,
         ok |-> t \in P2.all,
         executable |-> Overlaps(P1, t),
         replaced |-> SameNonce(P1.pending[From[t]] \cup P1.queue[From[t]], t) # {}]

\* the loop launches a run before it looks at its channels again
Receptive == scheduler = "run" /\ ~(run.pc = "none" /\ launch)

\* queueTxEvent: a replacement of a pending transaction is handed to the loop,
\* or forgotten when the pool shuts down; the events there may be afterwards
QueueTxEvent(t, r) ==
    IF ~(r.ok /\ r.executable) THEN {events}
    ELSE {E \in {events, PutEvents(events, {t})} :
            \/ Receptive /\ E = PutEvents(events, {t})
            \/ closed /\ E = events}

\* the call that caller c is in
Call(c) == Batches[c][caller[c].n]

\* addTxs merges the errors of addTxsLocked into the slots that are still nil;
\* the slot does not move on when the error merged is nil
ErrorSlots(c) ==
    LET txs == Call(c).txs
        preset == {i \in DOMAIN txs : txs[i] \in caller[c].known}
        slots[i \in 0 .. Len(txs)] ==
            IF i = 0 THEN preset
            ELSE LET free == DOMAIN txs \ slots[i - 1]
                 IN  IF i \in preset \/ i \notin caller[c].errs THEN slots[i - 1]
                     ELSE slots[i - 1] \cup {CHOOSE j \in free : \A k \in free : j <= k}
    IN  slots[Len(txs)]

\* AddLocals and AddRemotes: addTxs looks for known ones without the lock
AddTxs(c) ==
    /\ caller[c].pc = "idle"
    /\ caller[c].n + 1 \in DOMAIN Batches[c]
    /\ LET txs == Batches[c][caller[c].n + 1].txs
       IN  caller' = [caller EXCEPT
                        ![c].pc = IF Range(txs) \subseteq pool.all THEN "idle" ELSE "lock",
                        ![c].n = @ + 1,
                        ![c].todo = txs,
                        ![c].known = Range(txs) \cap pool.all,
                        ![c].errs = {},
                        ![c].dirty = {}]
    /\ UNCHANGED <<calls, chainVars, poolVars, loopVars, runVars, announced, refused>>

\* addTxsLocked: one transaction, under the lock until the last
AddTx(c) ==
    LET t == Head(caller[c].todo)
        local == Call(c).local
        last == Len(caller[c].todo) = 1
        place == Len(Call(c).txs) + 1 - Len(caller[c].todo)
        Advance(ok, D) == caller' = [caller EXCEPT
                        ![c].pc = IF last THEN "request" ELSE "add",
                        ![c].todo = Tail(@),
                        ![c].errs = IF ok THEN @ ELSE @ \cup {place},
                        ![c].dirty = @ \cup D]
    IN  /\ caller[c].pc = "add" \/ (caller[c].pc = "lock" /\ mu = "free")
        /\ mu' = IF last THEN "free" ELSE "caller"
        /\ \/ /\ t \in caller[c].known \/ Rejects(pool, t, local)
              /\ Advance(FALSE, {})
              /\ UNCHANGED <<pool, locals, events>>
           \/ /\ ~(t \in caller[c].known \/ Rejects(pool, t, local))
              /\ \E D \in Discards(pool) :
                   LET r == AddResult(t, D)
                   IN  /\ pool' = r.pool
                       /\ locals' = IF local /\ r.ok /\ ~r.executable
                                    THEN locals \cup {From[t]} ELSE locals
                       /\ events' \in QueueTxEvent(t, r)
                       /\ Advance(r.ok, IF r.ok /\ ~r.replaced THEN {From[t]} ELSE {})
        /\ UNCHANGED <<calls, chainVars, state, gasPrice, reset, dirty, launch, closed,
                       scheduler, runVars, announced, refused>>

\* requestPromoteExecutables; a synchronous caller waits for the next run
RequestPromoteExecutables(c) ==
    /\ caller[c].pc = "request"
    /\ \/ /\ Receptive
          /\ dirty' = dirty \cup caller[c].dirty
          /\ launch' = TRUE
          /\ caller' = [caller EXCEPT ![c].pc = IF Call(c).local THEN "next" ELSE "idle",
                                      ![c].known = {}, ![c].errs = {}]
       \/ /\ closed
          /\ caller' = [caller EXCEPT ![c].pc = "idle", ![c].known = {}, ![c].errs = {}]
          /\ UNCHANGED <<dirty, launch>>
    /\ UNCHANGED <<calls, chainVars, poolVars, reset, events, closed, scheduler, runVars,
                   announced, refused>>

\* SetGasPrice drops the remote transactions below the new price
SetGasPrice(price) ==
    /\ calls < MaxCalls
    /\ calls' = calls + 1
    /\ mu = "free"
    /\ price # gasPrice
    /\ gasPrice' = price
    /\ pool' = RemoveTx(pool, {t \in Remote(pool) : Price[t] < price})
    /\ UNCHANGED <<chainVars, mu, state, locals, loopVars, runVars, caller, announced,
                   refused>>

-----------------------------------------------------------------------------
(* The chain, and the goroutine loop. *)

HeadEvent(b) ==
    /\ heads < MaxHeads
    /\ ~closed
    /\ b # current
    /\ heads' = heads + 1
    /\ current' = b
    /\ headCh' = Append(headCh, b)
    /\ UNCHANGED <<calls, head, poolVars, loopVars, runVars, caller, announced, refused>>

(* Mutant: a reset that waits keeps its head.                              *)
RequestResetFirst ==
    /\ ~closed
    /\ headCh # <<>>
    /\ Receptive
    /\ reset' = IF reset = {} THEN {[old |-> head, new |-> Head(headCh)]} ELSE reset
    /\ head' = Head(headCh)
    /\ headCh' = Tail(headCh)
    /\ launch' = TRUE
    /\ UNCHANGED <<calls, current, heads, poolVars, dirty, events, closed, scheduler, runVars,
                   caller, announced, refused>>

\* loop: a chain head becomes a reset request, merged with one not yet run
RequestReset ==
    /\ ~closed
    /\ headCh # <<>>
    /\ Receptive
    /\ LET old == IF reset = {} THEN head ELSE (CHOOSE r \in reset : TRUE).old
       IN  reset' = {[old |-> old, new |-> Head(headCh)]}
    /\ head' = Head(headCh)
    /\ headCh' = Tail(headCh)
    /\ launch' = TRUE
    /\ UNCHANGED <<calls, current, heads, poolVars, dirty, events, closed, scheduler, runVars,
                   caller, announced, refused>>

\* loop: some accounts have been queuing for longer than Lifetime
Evict(A) ==
    /\ calls < MaxCalls
    /\ calls' = calls + 1
    /\ ~closed
    /\ mu = "free"
    /\ \A a \in A : pool.queue[a] # {}
    /\ pool' = RemoveTx(pool, UNION {pool.queue[a] : a \in A})
    /\ UNCHANGED <<chainVars, mu, state, locals, gasPrice, loopVars, runVars, caller,
                   announced, refused>>

\* Stop unsubscribes from the chain, whereupon loop closes reorgShutdownCh
Stop ==
    /\ calls < MaxCalls
    /\ calls' = calls + 1
    /\ ~closed
    /\ closed' = TRUE
    /\ UNCHANGED <<chainVars, poolVars, reset, dirty, events, launch, scheduler, runVars,
                   caller, announced, refused>>

-----------------------------------------------------------------------------
(* scheduleReorgLoop. *)

Move(from, to) ==
    [c \in Callers |-> IF caller[c].pc \in from THEN [caller[c] EXCEPT !.pc = to]
                                                ELSE caller[c]]

Launch ==
    /\ scheduler = "run"
    /\ run.pc = "none" /\ launch
    /\ run' = [pc |-> "lock", reset |-> reset, dirty |-> dirty, events |-> events,
               todo |-> {}]
    /\ reset' = {}
    /\ dirty' = {}
    /\ events' = {}
    /\ launch' = FALSE
    /\ caller' = Move({"next"}, "cur")
    /\ UNCHANGED <<calls, chainVars, poolVars, closed, scheduler, trunc, announced, refused>>

\* the loop receives from curDone
RunDone ==
    /\ scheduler = "run"
    /\ run.pc = "done"
    /\ run' = [run EXCEPT !.pc = "none"]
    /\ UNCHANGED <<calls, chainVars, poolVars, loopVars, trunc, caller, announced, refused>>

\* the loop sees reorgShutdownCh closed, and waits for the active run
Shutdown ==
    /\ Receptive
    /\ closed
    /\ scheduler' = "ending"
    /\ UNCHANGED <<calls, chainVars, poolVars, reset, dirty, events, launch, closed, runVars,
                   caller, announced, refused>>

\* ... and closes nextDone
ShutdownDone ==
    /\ scheduler = "ending"
    /\ run.pc \in {"none", "done"}
    /\ scheduler' = "done"
    /\ caller' = Move({"next"}, "idle")
    /\ UNCHANGED <<calls, chainVars, poolVars, reset, dirty, events, launch, closed, runVars,
                   announced, refused>>

-----------------------------------------------------------------------------
(* runReorg. *)

Ancestors[b \in Blocks] == IF b = Genesis THEN {b} ELSE {b} \cup Ancestors[Parent[b]]

\* The chain is valid: the state of a block counts the transactions of its
\* ancestors, whose nonces are consecutive per account.
ASSUME ChainAssumption ==
    \A b \in Blocks, a \in Accounts :
      /\ Parent[b] \in Blocks
      /\ GetNonce[Genesis][a] <= GetNonce[Parent[b]][a]
      /\ GetNonce[Parent[b]][a] <= GetNonce[b][a]
      /\ {Nonce[t] : t \in Of(UNION {BlockTxs[c] : c \in Ancestors[b]}, a)}
           = GetNonce[Genesis][a] .. GetNonce[b][a] - 1

\* transactions of the abandoned branch that the new one does not include
Reinject(old, new) ==
    LET txsOf(B) == UNION {BlockTxs[b] : b \in B}
        depth == IF Height[old] > Height[new] THEN Height[old] - Height[new]
                                              ELSE Height[new] - Height[old]
    IN  IF old = Parent[new] \/ depth > ReorgLimit THEN {}
        ELSE txsOf(Ancestors[old] \ Ancestors[new]) \ txsOf(Ancestors[new] \ Ancestors[old])

\* runReorg takes mu and, for a reset, opens the state of the new head
RunLock ==
    /\ run.pc = "lock"
    /\ mu = "free"
    /\ mu' = "run"
    /\ IF run.reset = {}
       THEN /\ run' = [run EXCEPT !.pc = "promote"]
            /\ UNCHANGED <<state, pool>>
       ELSE LET r == CHOOSE r \in run.reset : TRUE
            IN  /\ state' = r.new
                /\ pool' = [pool EXCEPT !.nonces = GetNonce[r.new]]
                /\ run' = [run EXCEPT !.pc = "reinject", !.todo = Reinject(r.old, r.new)]
    /\ UNCHANGED <<calls, chainVars, locals, gasPrice, loopVars, trunc, caller, announced, refused>>

\* reset adds the dropped transactions again, as remote ones
ReinjectOne(t) ==
    /\ run.pc = "reinject"
    /\ t \in run.todo
    /\ run' = [run EXCEPT !.todo = @ \ {t}]
    /\ \/ /\ Rejects(pool, t, FALSE)
          /\ refused' = refused \cup {From[t]}
          /\ UNCHANGED <<pool, events>>
       \/ /\ ~Rejects(pool, t, FALSE)
          /\ \E D \in Discards(pool) :
               LET r == AddResult(t, D)
               IN  /\ pool' = r.pool
                   /\ refused' = refused \cup {From[u] : u \in IF r.ok THEN D ELSE D \cup {t}}
                   /\ events' \in QueueTxEvent(t, r)
    /\ UNCHANGED <<calls, chainVars, mu, state, locals, gasPrice, reset, dirty, launch, closed,
                   scheduler, trunc, caller, announced>>

PromoteExecutables ==
    /\ run.pc = "promote" \/ (run.pc = "reinject" /\ run.todo = {})
    /\ LET resets == run.reset # {}
           A == IF resets THEN {a \in Accounts : pool.queue[a] # {}} ELSE run.dirty
           fresh == IF resets THEN {t \in run.events : Nonce[t] >= pool.nonces[From[t]]}
                    ELSE run.events
       IN  /\ pool' = Promote(pool, A)
           /\ run' = [run EXCEPT !.pc = IF resets THEN "demote" ELSE "pending",
                                 !.events = PutEvents(fresh, Promoted(pool, A))]
    /\ UNCHANGED <<calls, chainVars, mu, state, locals, gasPrice, loopVars, trunc, caller,
                   announced, refused>>

DemoteUnexecutables ==
    /\ run.pc = "demote"
    /\ pool' = Demote(pool)
    /\ run' = [run EXCEPT !.pc = "pending"]
    /\ UNCHANGED <<calls, chainVars, mu, state, locals, gasPrice, loopVars, trunc, caller,
                   announced, refused>>

\* every account of A loses its last pending transaction
CapOne(P, A) ==
    LET last(a) == IF a \in A THEN Cap(P.pending[a], Cardinality(P.pending[a]) - 1) ELSE {}
    IN  [P EXCEPT
           !.pending = [a \in Accounts |-> P.pending[a] \ last(a)],
           !.all = @ \ UNION {last(a) : a \in Accounts},
           !.nonces = [a \in Accounts |->
                         IF \E t \in last(a) : Nonce[t] < P.nonces[a]
                         THEN Nonce[CHOOSE t \in last(a) : TRUE] ELSE P.nonces[a]]]

Size(lists) == Cardinality(UNION {lists[a] : a \in Accounts})

Crowded == Size(pool.pending) > GlobalSlots

Len0(a) == Cardinality(pool.pending[a])

\* offenders are popped in order, this is the i-th from the end
Offender(i) == trunc.offenders[Len(trunc.offenders) + 1 - i]

\* offenders are equalised down to the one popped last
Unequal ==
    /\ Len(trunc.offenders) > 1
    /\ Len0(Offender(2)) > Len0(Offender(1))

\* then all are reduced down to the allowance
Reducible ==
    /\ trunc.offenders # <<>>
    /\ Len0(Offender(1)) > AccountSlots

Truncates(A) ==
    /\ pool' = CapOne(pool, A)
    /\ UNCHANGED runVars

\* truncatePending: the remote accounts above their allowance, largest first
Spammers ==
    /\ run.pc = "pending"
    /\ IF Crowded
       THEN /\ run' = [run EXCEPT !.pc = "equalise"]
            /\ trunc' = [offenders |-> <<>>,
                         spammers |-> {a \in Accounts \ locals : Len0(a) > AccountSlots}]
       ELSE /\ run' = [run EXCEPT !.pc = "queue"]
            /\ UNCHANGED trunc
    /\ UNCHANGED pool

TruncatePending ==
    /\ run.pc = "equalise"
    /\ \/ /\ Crowded /\ Unequal
          /\ Truncates(Range(trunc.offenders) \ {Offender(1)})
       \/ /\ Crowded /\ ~Unequal
          /\ \E a \in trunc.spammers :
               /\ \A b \in trunc.spammers : Len0(b) <= Len0(a)
               /\ trunc' = [offenders |-> Append(trunc.offenders, a),
                            spammers |-> trunc.spammers \ {a}]
          /\ UNCHANGED <<pool, run>>
       \/ /\ Crowded /\ ~Unequal /\ trunc.spammers = {}
          /\ Reducible
          /\ Truncates(Range(trunc.offenders))
       \/ /\ ~(Crowded /\ (Unequal \/ Reducible \/ trunc.spammers # {}))
          /\ run' = [run EXCEPT !.pc = "queue"]
          /\ trunc' = [offenders |-> <<>>, spammers |-> {}]
          /\ UNCHANGED pool

\* truncateQueue: a remote account gives up its last transactions
TruncateQueue(a) ==
    LET excess == Size(pool.queue) - GlobalQueue
        size == Cardinality(pool.queue[a])
    IN  /\ run.pc = "queue"
        /\ excess > 0
        /\ a \notin locals
        /\ pool.queue[a] # {}
        /\ pool' = RemoveTx(pool, Cap(pool.queue[a], IF size <= excess THEN 0 ELSE size - excess))
        /\ UNCHANGED runVars

TruncateStep == Spammers \/ TruncatePending \/ \E a \in Accounts : TruncateQueue(a)

Truncate ==
    /\ TruncateStep
    /\ UNCHANGED <<calls, chainVars, mu, state, locals, gasPrice, loopVars, caller, announced,
                   refused>>

\* the nonces follow the pending lists, and mu is released
RunUnlock ==
    /\ run.pc = "queue"
    /\ \/ Size(pool.queue) <= GlobalQueue
       \/ \A a \in Accounts \ locals : pool.queue[a] = {}
    /\ pool' = [pool EXCEPT !.nonces = [a \in Accounts |->
                  IF pool.pending[a] = {} THEN pool.nonces[a]
                  ELSE 1 + CHOOSE n \in {Nonce[t] : t \in pool.pending[a]} :
                             \A t \in pool.pending[a] : Nonce[t] <= n]]
    /\ mu' = "free"
    /\ run' = [run EXCEPT !.pc = "send"]
    /\ UNCHANGED <<calls, chainVars, state, locals, gasPrice, loopVars, trunc, caller, announced,
                   refused>>

\* txFeed.Send, then close(done)
Send ==
    /\ run.pc = "send"
    /\ announced' = announced \cup run.events
    /\ run' = [pc |-> "done", reset |-> {}, dirty |-> {}, events |-> {}, todo |-> {}]
    /\ caller' = Move({"cur"}, "idle")
    /\ UNCHANGED <<calls, chainVars, poolVars, loopVars, trunc, refused>>

-----------------------------------------------------------------------------
Init ==
    /\ current = Genesis /\ heads = 0 /\ headCh = <<>> /\ head = Genesis
    /\ mu = "free"
    /\ state = Genesis
    /\ pool = [pending |-> [a \in Accounts |-> {}], queue |-> [a \in Accounts |-> {}],
               all |-> {}, nonces |-> GetNonce[Genesis]]
    /\ locals = {}
    /\ gasPrice = CHOOSE p \in PriceLimits : \A q \in PriceLimits : p <= q
    /\ reset = {} /\ dirty = {} /\ events = {} /\ launch = FALSE
    /\ closed = FALSE /\ scheduler = "run"
    /\ run = [pc |-> "none", reset |-> {}, dirty |-> {}, events |-> {}, todo |-> {}]
    /\ trunc = [offenders |-> <<>>, spammers |-> {}]
    /\ caller = [c \in Callers |-> 
                 [pc |-> "idle", n |-> 0, todo |-> <<>>, known |-> {}, errs |-> {}, dirty |-> {}]]
    /\ calls = 0
    /\ announced = {} /\ refused = {}

RunReorg ==
    \/ RunLock
    \/ \E t \in Txs : ReinjectOne(t)
    \/ PromoteExecutables
    \/ DemoteUnexecutables
    \/ Truncate
    \/ RunUnlock
    \/ Send

ScheduleReorgLoop == Launch \/ RunDone \/ Shutdown \/ ShutdownDone

Next ==
    \/ \E c \in Callers : AddTxs(c) \/ AddTx(c) \/ RequestPromoteExecutables(c)
    \/ \E price \in PriceLimits : SetGasPrice(price)
    \/ \E b \in Blocks : HeadEvent(b)
    \/ RequestReset
    \/ \E A \in SUBSET (Accounts \ locals) : A # {} /\ Evict(A)
    \/ Stop
    \/ ScheduleReorgLoop
    \/ RunReorg

Spec == Init /\ [][Next]_vars

-----------------------------------------------------------------------------
(* Properties. *)

Listed(P) == UNION {P.pending[a] \cup P.queue[a] : a \in Accounts}

\* The lookup `all', which answers Has and Get without the lock and which
\* decides what is already known, holds exactly the transactions of the two
\* lists; none is in both, and an account has at most one transaction per
\* nonce over both: no transaction is leaked when demotion finds its nonce
\* taken, none is listed after it was dropped (add, promoteTx, removeTx,
\* demoteUnexecutables).
ListsMatchLookup ==
    /\ pool.all = Listed(pool)
    /\ \A a \in Accounts : pool.pending[a] \cap pool.queue[a] = {}
    /\ \A t, u \in Listed(pool) :
         From[t] = From[u] /\ Nonce[t] = Nonce[u] => t = u

Consecutive(a) ==
    /\ GetNonce[state][a] <= pool.nonces[a]
    /\ {Nonce[t] : t \in pool.pending[a]} = GetNonce[state][a] .. pool.nonces[a] - 1

\* Whenever the lock is free, the pending transactions of an account are the
\* executable ones, consecutive from the nonce of the state, and Nonce
\* answers the next one, unless the account lost a transaction, refused or
\* discarded for another, while reset added the reorged ones again: whatever
\* else is dropped from the middle (underpriced, unpayable, evicted,
\* truncated), what follows it is demoted and the nonce lowered before the
\* lock is released.
NonceIsNextUnlessRefused == mu = "free" => \A a \in Accounts \ refused : Consecutive(a)

\* every request was taken and its run has ended
Quiet ==
    /\ scheduler = "run" /\ ~closed
    /\ run.pc = "none" /\ ~launch
    /\ headCh = <<>>

\* Requests are never lost, merged or not: when no run is active or due, the
\* pool is on the state of the chain's head and no synchronous caller waits.
ServedOnHead ==
    Quiet => /\ state = current
             /\ \A c \in Callers : caller[c].pc \notin {"next", "cur"}

\* ... and, with no call in between, each pending transaction has been sent
\* to the subscribers of NewTxsEvent, whether it was promoted or replaced a
\* pending one, and whatever resets discarded as stale events meanwhile.
PendingAnnounced ==
    Quiet /\ (\A c \in Callers : caller[c].pc = "idle")
        => UNION {pool.pending[a] : a \in Accounts} \subseteq announced

\* AddLocals and AddRemotes answer with one error per transaction, in the
\* place of that transaction (addTxs: "merge any errors into the original
\* slice").
ErrorsInPlace ==
    \A c \in Callers : caller[c].pc = "request" => ErrorSlots(c) = caller[c].errs

\* Remote transactions never exceed the configured total, however many local
\* ones are exempt from it (add, Discard).
RemoteBounded == Cardinality(Remote(pool)) <= GlobalSlots + GlobalQueue

=============================================================================
