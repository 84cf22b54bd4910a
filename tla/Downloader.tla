----------------------------- MODULE Downloader -----------------------------
(***************************************************************************)
(* One synchronisation of fort/downloader: syncWithPeer starts five        *)
(* goroutines, which fetch headers, block bodies and receipts, schedule    *)
(* the headers and import the assembled blocks, and share the queue of     *)
(* queue.go under its lock.  Peers answer late, partly, with something     *)
(* else or never, leave, and are dropped.                                  *)
(*                                                                         *)
(* Blocks are numbered from the common ancestor, which is 0.  A request is *)
(* the set of its headers, an answer the set of the blocks whose parts it  *)
(* holds, in ascending order (0 is a part nobody asked for).               *)
(***************************************************************************)
EXTENDS Integers, Sequences, FiniteSets

CONSTANTS Peers,        \* all peers
          Master,       \* cancelPeer, the peer we synchronise with
          N,            \* the highest block number
          Scenarios,    \* what a synchronisation starts from, see below
          Empty,        \* per kind, the blocks whose part needs no request
          CacheSize,    \* blockCacheItems
          Limits,       \* values of the memory limit on the cache, in items
          Capacities,   \* numbers of items a peer may be asked for
          MaxResults,   \* maxResultsProcess
          MaxFetch,     \* MaxHeaderFetch
          MaxHeaders,   \* maxHeadersProcess
          MaxQueued,    \* maxQueuedHeaders
          Tolerated,    \* expired items above which a peer is kept (2)
          FullBlocks    \* fsMinFullBlocks

Blocks == 1..N
Kinds == {"body", "receipt"}
Routines == Kinds \cup {"headers", "schedule", "content"}

(* What may go wrong: an answer is not the whole request; requests expire;  *)
(* a peer leaves; headers do not come or do not fit their skeleton; headers *)
(* are invalid or out of order; a state is not to be had or a block is      *)
(* invalid; the master stalls the state sync; somebody calls Cancel.        *)
Troubles == {"answer", "expire", "leave", "headers", "chunk", "content", "stall", "cancel"}

(* A synchronisation: its mode (FullSync is "full", FastSync is "fast"),    *)
(* the peers registered, the number of headers the master delivers and the  *)
(* height it announces, the memory limit that the sizes of earlier blocks   *)
(* (resultSize, which Reset keeps) set, what may go wrong and how often.    *)
Scenario ==
    [mode : {"full", "fast"}, peers : {P \in SUBSET Peers : Master \in P},
     headers : 0..N, height : Nat, limit : Limits, troubles : SUBSET Troubles,
     faults : Nat]

ASSUME PeersAssumption == Master \in Peers /\ IsFiniteSet(Peers)
ASSUME BlocksAssumption == N \in Nat
ASSUME ScenariosAssumption == \A s \in Scenarios : s \in Scenario
ASSUME EmptyAssumption == Empty \in [Kinds -> SUBSET Blocks]
ASSUME LimitsAssumption ==
    CacheSize \in Nat /\ CacheSize \in Limits /\ Limits \subseteq 1..CacheSize
ASSUME SizesAssumption ==
    /\ Capacities \subseteq Nat \ {0}
    /\ MaxResults \in Nat \ {0} /\ MaxFetch \in Nat \ {0} /\ MaxHeaders \in Nat \ {0}
    /\ MaxQueued \in Nat /\ Tolerated \in Nat /\ FullBlocks \in Nat

VARIABLES sync,       \* scenario of this synchronisation
          tasks,      \* per kind: blockTaskQueue, receiptTaskQueue
          pend,       \* per kind and peer: blockPendPool, {} for no request
          done,       \* per kind: blockDonePool
          left,       \* resultCache: 0 or Pending of an allocated slot, -1 for nil
          offset,     \* resultOffset
          limit,      \* items that blockCacheMemory allows at present
          closed,     \* queue.closed
          scheduled,  \* number of the last header scheduled (headerHead)
          peers,      \* registered peers
          leaving,    \* peers unregistered whose requests are not yet revoked
          busy,       \* per kind: peers whose idle flag is 1
          lacking,    \* per peer: the blocks it was found not to have
          net,        \* requests on their way, and their answers
          wake,       \* per kind: bodyWakeCh, receiptWakeCh
          headerProc, \* headerProcCh: the last number of a batch, 0 for nil
          fetcher,    \* per kind: where fetchParts is, and its flag finished
          round,      \* per kind: its locals while it hands out requests
          headers,    \* fetchHeaders: where it is, and the headers sent on
          schedule,   \* processHeaders: where it is, and the batch it works on
          content,    \* processContent: where it is, pivot and locked-in pivot
          committed,  \* the pivot is the head, or there is none
          state,      \* the state sync of the moment
          imported,   \* number of the last block in the chain
          ret,        \* per goroutine, what it returned
          errc,       \* goroutines whose results spawnSync has not read
          main,       \* spawnSync: where it is, results read, last result
          cancelled,  \* cancelCh is closed
          faults      \* how often something went wrong

queueVars == <<tasks, pend, done, left, offset, limit, scheduled>>
peerVars == <<peers, leaving, busy, lacking>>
headerVars == <<headerProc, headers, schedule>>
contentVars == <<content, committed, state, imported>>
endVars == <<ret, errc>>
ctrlVars == <<sync, closed, main, cancelled, faults>>
vars == <<sync, tasks, pend, done, left, offset, limit, closed, scheduled, peers,
          leaving, busy, lacking, net, wake, headerProc, fetcher, round, headers, schedule,
          content, committed, state, imported, ret, errc, main, cancelled, faults>>

(* The smaller of two numbers. *)
Least(a, b) == IF a < b THEN a ELSE b

(* Trouble t comes n times more. *)
Fault(t, n) ==
    /\ n > 0 => t \in sync.troubles /\ faults + n <= sync.faults
    /\ faults' = faults + n

(* fn() returns r and its goroutine hands r to errc, while that is read. *)
Return(g, r) ==
    /\ ret' = [ret EXCEPT ![g] = r]
    /\ errc' = IF main.pc = "receive" THEN Append(errc, g) ELSE errc

-----------------------------------------------------------------------------
(* The queue *)

(* Blocks in requests of a kind. *)
Pending(k) == UNION {pend[k][p] : p \in Peers}

(* Slots of the cache that blocks may be assembled in. *)
Cache == offset .. offset + CacheSize - 1

(* resultSlots counts finished slots up to the first free one. *)
Finished(k) ==
    {b \in done[k] : b < offset + limit /\ \A c \in offset..b : left[c] >= 0}

(* Mutant: requests under way are not counted. *)
ResultSlotsDone(k) == limit - Cardinality(Finished(k))

ResultSlots(k) ==
    limit - Cardinality(Finished(k))
          - Cardinality({b \in Pending(k) : b < offset + limit})

(* Parts a block is made of. *)
Parts == IF sync.mode = "fast" THEN Kinds ELSE {"body"}

(* The tasks reserveHeaders pops for peer p: the lowest first, at most one  *)
(* per free slot, until n of them are for the request.                      *)
Below(k, b) == {c \in tasks[k] : c < b}
Popped(k, p, n) ==
    {b \in tasks[k] :
        /\ Cardinality(Below(k, b)) < ResultSlots(k)
        /\ Cardinality(Below(k, b) \ (Empty[k] \cup lacking[p])) < n}

(* Parts missing in the slot of b, which is allocated if it is not yet. *)
Slot(b) ==
    IF left[b] >= 0 THEN left[b] ELSE IF sync.mode = "fast" THEN 2 ELSE 1

(* queue.Results: the finished blocks at the front of the cache. *)
Processable ==
    {b \in Cache \cap Blocks : \A c \in offset..b : left[c] = 0}

(* UnregisterPeer: p is no longer known, and its requests are to be revoked *)
(* by whoever found it registered.                                          *)
Unregister(p) ==
    /\ peers' = peers \ {p}
    /\ leaving' = leaving \cup ({p} \cap peers)

(* Mutant: the request that is returned stays in the pool. *)
RevokeOnly(p) ==
    /\ p \in leaving
    /\ leaving' = leaving \ {p}
    /\ tasks' = [k \in Kinds |-> tasks[k] \cup pend[k][p]]
    /\ UNCHANGED <<done, left, offset, limit, scheduled, peers, busy, lacking, headerVars,
                   contentVars, endVars, ctrlVars, pend, fetcher, round, net, wake>>

(* queue.Revoke, under a lock of its own: the requests of p return to the   *)
(* queue.  A goroutine that drops a peer may go on before this step, which  *)
(* is more than the code allows unless another one dropped the peer first.  *)
Revoke(p) ==
    /\ p \in leaving
    /\ leaving' = leaving \ {p}
    /\ tasks' = [k \in Kinds |-> tasks[k] \cup pend[k][p]]
    /\ pend' = [k \in Kinds |-> [pend[k] EXCEPT ![p] = {}]]
    /\ UNCHANGED <<done, left, offset, limit, scheduled, peers, busy, lacking, headerVars,
                   contentVars, endVars, ctrlVars, fetcher, round, net, wake>>

-----------------------------------------------------------------------------
(* fetchParts *)

(* Locals of the assignment of requests, outside of it. *)
NoRound == [idles |-> {}, all |-> FALSE, running |-> FALSE, progressed |-> FALSE,
            throttled |-> FALSE]

Goto(k, pc) ==
    /\ fetcher' = [fetcher EXCEPT ![k].pc = pc]
    /\ round' = [round EXCEPT ![k] = NoRound]

Exit(k, r) == Goto(k, "exit") /\ Return(k, r)

(* Mutant: the answers to requests under way are awaited first. *)
FetcherCanceledLate(k) ==
    /\ fetcher[k].pc = "select" /\ cancelled /\ Pending(k) = {}
    /\ Exit(k, "canceled")
    /\ UNCHANGED <<queueVars, peerVars, headerVars, contentVars, ctrlVars, net, wake>>

FetcherCanceled(k) ==
    /\ fetcher[k].pc = "select" /\ cancelled
    /\ Exit(k, "canceled")
    /\ UNCHANGED <<queueVars, peerVars, headerVars, contentVars, ctrlVars, net, wake>>

FetcherWoken(k) ==
    /\ fetcher[k].pc = "select" /\ wake[k] # <<>>
    /\ fetcher' = [fetcher EXCEPT ![k].finished = @ \/ ~Head(wake[k])]
    /\ wake' = [wake EXCEPT ![k] = Tail(@)]
    /\ UNCHANGED <<queueVars, peerVars, headerVars, contentVars, endVars, ctrlVars, net,
                   round>>

(* The parts of answer A that match request R in place, from the first on. *)
Matching(R, A) == {b \in R \cap A : \A c \in R \cup A : c < b => c \in R \cap A}

(* The headers of R that an answer A is compared with, up to a mismatch. *)
Examined(R, A) ==
    {b \in R : LET before == {c \in R : c < b}
               IN  before \subseteq Matching(R, A) /\ Cardinality(before) < Cardinality(A)}

(* queue.deliver of A from p, and setIdle unless the delivery is stale. *)
Accept(k, p, A) ==
    LET R == pend[k][p]
        good == Matching(R, A)
        stale == good = {} /\ A # {}
    IN  IF R = {}
        THEN /\ busy' = [busy EXCEPT ![k] = @ \ {p}]
             /\ UNCHANGED <<queueVars, lacking, fetcher, round, endVars>>
        ELSE /\ pend' = [pend EXCEPT ![k][p] = {}]
             /\ lacking' = [lacking EXCEPT ![p] = @ \cup IF A = {} THEN R ELSE {}]
             /\ done' = [done EXCEPT ![k] = @ \cup good]
             /\ left' = [b \in Blocks |-> left[b] - IF b \in good THEN 1 ELSE 0]
             /\ tasks' = [tasks EXCEPT ![k] = @ \cup (R \ good)]
             /\ IF \E b \in Examined(R, A) : b \notin Cache \/ left[b] < 0
                THEN Exit(k, "invalid") /\ UNCHANGED busy
                ELSE /\ busy' = [busy EXCEPT ![k] = IF stale THEN @ ELSE @ \ {p}]
                     /\ UNCHANGED <<fetcher, round, endVars>>
             /\ UNCHANGED <<offset, limit, scheduled>>

Deliver(k) ==
    /\ fetcher[k].pc = "select"
    /\ \E m \in {n \in net : n.kind = k} : \E A \in SUBSET m.blocks \cup {{0}} :
          /\ Fault("answer", IF A = m.blocks THEN 0 ELSE 1)
          /\ net' = net \ {m}
          /\ IF m.peer \in peers
             THEN Accept(k, m.peer, A)
             ELSE UNCHANGED <<queueVars, busy, lacking, fetcher, round, endVars>>
    /\ UNCHANGED <<peers, leaving, headerVars, contentVars, sync, closed, main, cancelled,
                   wake>>

(* Requests are handed out to the idle peers of round r until none is left, *)
(* or the loop has nothing to check at its end and is back in select.       *)
Assigning(k, r) ==
    IF r.idles = {} /\ (r.progressed \/ r.throttled \/ r.running \/ ~r.all)
    THEN Goto(k, "select")
    ELSE /\ fetcher' = [fetcher EXCEPT ![k].pc = "assign"]
         /\ round' = [round EXCEPT ![k] = r]

(* pending() is read, and inFlight() and idle() if there is something to do. *)
Pend(k) ==
    IF tasks'[k] = {}
    THEN Goto(k, IF fetcher[k].finished THEN "flight" ELSE "select")
    ELSE Assigning(k, [idles |-> peers' \ busy'[k],
                       all |-> peers' \cap busy'[k] = {},
                       running |-> \E p \in Peers : pend'[k][p] # {},
                       progressed |-> FALSE,
                       throttled |-> FALSE])

(* The update case begins: without peers it gives up; requests E time out.  *)
(* Their peers are set idle or, when they failed at little, dropped; once   *)
(* the master is dropped the others of E are left alone.                    *)
Expire(k) ==
    /\ fetcher[k].pc = "select" /\ peers # {}
    /\ \E E \in SUBSET {p \in Peers : pend[k][p] # {}} :
         LET weak == {p \in E \cap peers : Cardinality(pend[k][p]) <= Tolerated}
         IN  \E D \in SUBSET weak, I \in SUBSET ((E \cap peers) \ weak) :
               /\ Master \notin D => D = weak /\ I = (E \cap peers) \ weak
               /\ Fault("expire", Cardinality(E))
               /\ peers' = peers \ D
               /\ leaving' = leaving \cup D
               /\ tasks' = [tasks EXCEPT ![k] = @ \cup UNION {pend[k][p] : p \in E}]
               /\ pend' = [pend EXCEPT ![k] = [p \in Peers |-> IF p \in E THEN {} ELSE @[p]]]
               /\ busy' = [busy EXCEPT ![k] = @ \ I]
               /\ cancelled' = (cancelled \/ Master \in D)
               /\ IF Master \in D
                  THEN Exit(k, "timeout")
                  ELSE Pend(k) /\ UNCHANGED endVars
    /\ UNCHANGED <<done, left, offset, limit, scheduled, lacking, headerVars,
                   contentVars, sync, closed, main, net, wake>>

NoPeers(k) ==
    /\ fetcher[k].pc = "select" /\ peers = {}
    /\ Exit(k, "nopeers")
    /\ UNCHANGED <<queueVars, peerVars, headerVars, contentVars, ctrlVars, net, wake>>

(* inFlight() is read after pending(), under a lock of its own. *)
CheckFlight(k) ==
    /\ fetcher[k].pc = "flight"
    /\ IF Pending(k) = {}
       THEN Exit(k, "nil")
       ELSE Goto(k, "select") /\ UNCHANGED endVars
    /\ UNCHANGED <<queueVars, peerVars, headerVars, contentVars, ctrlVars, net, wake>>

(* reserveHeaders for p, and FetchBodies or FetchReceipts of what it gave. *)
Reserve(k, p, n) ==
    LET popped == IF pend[k][p] = {} THEN Popped(k, p, n) ELSE {}
        noop == popped \cap Empty[k]
        sent == popped \ (Empty[k] \cup lacking[p])
    IN  /\ tasks' = [tasks EXCEPT ![k] = @ \ (noop \cup sent)]
        /\ pend' = [pend EXCEPT ![k][p] = @ \cup sent]
        /\ done' = [done EXCEPT ![k] = @ \cup noop]
        /\ left' = [b \in Blocks |->
               IF b \in popped THEN Slot(b) - IF b \in noop THEN 1 ELSE 0 ELSE left[b]]
        /\ busy' = IF sent = {} THEN busy ELSE [busy EXCEPT ![k] = @ \cup {p}]
        /\ net' = net \cup IF sent = {} THEN {}
                           ELSE {[kind |-> k, peer |-> p, blocks |-> sent]}
        /\ IF popped \subseteq Cache
           THEN /\ Assigning(k, [round[k] EXCEPT
                                !.idles = @ \ {p},
                                !.progressed = @ \/ noop # {},
                                !.running = @ \/ sent # {}])
                /\ UNCHANGED endVars
           ELSE Exit(k, "invalid")

Assign(k) ==
    /\ fetcher[k].pc = "assign"
    /\ \E p \in round[k].idles :
         IF ResultSlots(k) <= 0 \/ tasks[k] = {}
         THEN /\ Assigning(k, [round[k] EXCEPT !.idles = {},
                                               !.throttled = ResultSlots(k) <= 0])
              /\ UNCHANGED <<tasks, pend, done, left, busy, net, endVars>>
         ELSE \E n \in Capacities : Reserve(k, p, n)
    /\ UNCHANGED <<offset, limit, scheduled, peers, leaving, lacking, headerVars,
                   contentVars, ctrlVars, wake>>

(* All peers were tried, in vain, and none was busy. *)
AssignEnd(k) ==
    /\ fetcher[k].pc = "assign" /\ round[k].idles = {}
    /\ IF tasks[k] # {}
       THEN Exit(k, "unavailable")
       ELSE Goto(k, "select") /\ UNCHANGED endVars
    /\ UNCHANGED <<queueVars, peerVars, headerVars, contentVars, ctrlVars, net, wake>>

FetchParts(k) ==
    \/ FetcherCanceled(k) \/ FetcherWoken(k) \/ Deliver(k)
    \/ Expire(k) \/ NoPeers(k) \/ CheckFlight(k)
    \/ Assign(k) \/ AssignEnd(k)

-----------------------------------------------------------------------------
(* fetchHeaders.  Only its outcome is kept of the headers' own requests:    *)
(* a batch of headers that follow the last one, no more headers, headers    *)
(* that do not fit the skeleton, or no answer in time.                      *)

FirstPivot ==
    IF sync.mode = "fast" /\ sync.height > FullBlocks THEN sync.height - FullBlocks ELSE 0

HeadersReturn(r) ==
    /\ headers' = [headers EXCEPT !.pc = "exit"]
    /\ Return("headers", r)

HeadersCanceled ==
    /\ headers.pc = "fetch" /\ cancelled
    /\ HeadersReturn("canceled")
    /\ UNCHANGED <<queueVars, peerVars, contentVars, ctrlVars, fetcher, round, net, wake,
                   headerProc, schedule>>

HeadersArrive ==
    /\ headers.pc = "fetch" /\ headerProc = <<>>
    /\ headers.sent < sync.headers
    /\ headers' = [headers EXCEPT !.sent = Least(sync.headers, @ + MaxFetch)]
    /\ headerProc' = <<headers'.sent>>
    /\ UNCHANGED <<queueVars, peerVars, contentVars, endVars, ctrlVars, fetcher, round, net,
                   wake, schedule>>

(* No more headers, and no pivot to wait for. *)
HeadersEnd ==
    /\ headers.pc = "fetch" /\ headerProc = <<>>
    /\ committed \/ FirstPivot > headers.sent + 1
    /\ headerProc' = <<0>>
    /\ HeadersReturn("nil")
    /\ UNCHANGED <<queueVars, peerVars, contentVars, ctrlVars, fetcher, round, net, wake, schedule>>

HeadersInvalid ==
    /\ headers.pc = "fetch"
    /\ Fault("headers", 1)
    /\ HeadersReturn("invalid")
    /\ UNCHANGED <<queueVars, peerVars, contentVars, sync, closed, main, cancelled,
                   fetcher, round, net, wake, headerProc, schedule>>

(* The master is dropped; the others are to finish with what they have. *)
HeadersTimeout ==
    /\ headers.pc = "fetch"
    /\ Fault("headers", 1)
    /\ Unregister(Master)
    /\ headers' = [headers EXCEPT !.pc = "body"]
    /\ UNCHANGED <<queueVars, busy, lacking, contentVars, endVars, sync, closed, main,
                   cancelled, fetcher, round, net, wake, headerProc, schedule>>

(* false goes to the fetcher of kind k, unless the sync is cancelled. *)
TellEnd(k) ==
    \/ wake[k] = <<>> /\ wake' = [wake EXCEPT ![k] = <<FALSE>>]
    \/ cancelled /\ UNCHANGED wake

HeadersWake ==
    /\ headers.pc \in Kinds
    /\ TellEnd(headers.pc)
    /\ headers' = [headers EXCEPT !.pc = IF @ = "body" THEN "receipt" ELSE "last"]
    /\ UNCHANGED <<queueVars, peerVars, contentVars, endVars, ctrlVars, fetcher, round, net,
                   headerProc, schedule>>

HeadersLast ==
    /\ headers.pc = "last"
    /\ \/ headerProc = <<>> /\ headerProc' = <<0>>
       \/ cancelled /\ UNCHANGED headerProc
    /\ HeadersReturn("badpeer")
    /\ UNCHANGED <<queueVars, peerVars, contentVars, ctrlVars, fetcher, round, net, wake, schedule>>

FetchHeaders ==
    \/ HeadersCanceled \/ HeadersArrive \/ HeadersEnd \/ HeadersInvalid
    \/ HeadersTimeout \/ HeadersWake \/ HeadersLast

-----------------------------------------------------------------------------
(* processHeaders *)

ScheduleReturn(r) ==
    /\ schedule' = [schedule EXCEPT !.pc = "exit"]
    /\ Return("schedule", r)

ScheduleCanceled ==
    /\ schedule.pc \in {"take", "chunk"} /\ cancelled
    /\ ScheduleReturn("canceled")
    /\ UNCHANGED <<queueVars, peerVars, contentVars, ctrlVars, fetcher, round, net, wake,
                   headerProc, headers>>

ScheduleTake ==
    /\ schedule.pc = "take" /\ headerProc # <<>>
    /\ headerProc' = <<>>
    /\ schedule' = [pc |-> IF Head(headerProc) = 0 THEN "body" ELSE "chunk",
                    last |-> Head(headerProc),
                    got |-> schedule.got \/ Head(headerProc) # 0]
    /\ UNCHANGED <<queueVars, peerVars, contentVars, endVars, ctrlVars, fetcher, round, net,
                   wake, headers>>

(* queue.Schedule of the headers up to last. *)
Schedule(last) ==
    /\ tasks' = [k \in Kinds |-> tasks[k] \cup
                    IF k \in Parts THEN scheduled + 1 .. last ELSE {}]
    /\ scheduled' = last
    /\ UNCHANGED <<pend, done, left, offset, limit>>

(* A chunk of headers is scheduled once the queue is short enough; then the *)
(* fetchers are woken, if the batch is used up.  A header may be invalid,   *)
(* or not follow the one before it.                                         *)
ScheduleChunk ==
    /\ schedule.pc = "chunk"
    /\ \A k \in Kinds : Cardinality(tasks[k]) < MaxQueued
    /\ LET last == Least(schedule.last, scheduled + MaxHeaders)
       IN  \/ /\ Schedule(last)
              /\ schedule' = [schedule EXCEPT
                                 !.pc = IF last = schedule.last THEN "wake" ELSE "chunk"]
              /\ UNCHANGED <<endVars, faults>>
           \/ /\ Fault("chunk", 1)
              /\ \E broken \in scheduled + 1 .. last : Schedule(broken - 1)
              /\ ScheduleReturn("badpeer")
           \/ /\ Fault("chunk", 1)
              /\ sync.mode = "fast"
              /\ ScheduleReturn("invalid")
              /\ UNCHANGED queueVars
    /\ UNCHANGED <<peerVars, contentVars, sync, closed, main, cancelled, fetcher, round, net,
                   wake, headerProc, headers>>

ScheduleWake ==
    /\ schedule.pc = "wake"
    /\ wake' = [k \in Kinds |-> IF wake[k] = <<>> THEN <<TRUE>> ELSE wake[k]]
    /\ schedule' = [schedule EXCEPT !.pc = "take"]
    /\ UNCHANGED <<queueVars, peerVars, contentVars, endVars, ctrlVars, fetcher, round, net,
                   headerProc, headers>>

(* The headers are at their end: both fetchers are told, and the promise of *)
(* the master, a heavier chain than ours, is checked.                       *)
ScheduleEnd ==
    /\ schedule.pc \in Kinds
    /\ TellEnd(schedule.pc)
    /\ IF schedule.pc = "body"
       THEN schedule' = [schedule EXCEPT !.pc = "receipt"] /\ UNCHANGED endVars
       ELSE \E r \in IF sync.mode = "full" /\ schedule.got THEN {"nil"} ELSE {"nil", "stalling"} :
               ScheduleReturn(r)
    /\ UNCHANGED <<queueVars, peerVars, contentVars, ctrlVars, fetcher, round, net,
                   headerProc, headers>>

ProcessHeaders ==
    \/ ScheduleCanceled \/ ScheduleTake \/ ScheduleChunk \/ ScheduleWake \/ ScheduleEnd

-----------------------------------------------------------------------------
(* processFullSyncContent and processFastSyncContent.  The results taken    *)
(* and not yet written are the blocks imported + 1 .. offset - 1.           *)

ContentReturn(r) ==
    /\ content' = [content EXCEPT !.pc = "exit"]
    /\ Return("content", r)

(* queue.Results, which waits for a block unless a pivot is locked in. *)
ContentResults ==
    LET n == Least(Cardinality(Processable), MaxResults)
        first == offset + n
    IN  /\ content.pc = "results"
        /\ n > 0 \/ closed \/ content.locked # 0
        /\ offset' = first
        /\ done' = [k \in Kinds |-> {b \in done[k] : b >= first}]
        /\ limit' \in IF n > 0 THEN Limits ELSE {limit}
        /\ IF n = 0 /\ (content.locked = 0 \/ cancelled)
           THEN ContentReturn(CASE content.locked # 0 -> "canceled"
                                [] sync.mode = "full" \/ state.pc = "ok" -> "nil"
                                [] state.pc = "run" -> "state"
                                [] OTHER -> state.pc)
           ELSE /\ content' = [content EXCEPT
                                  !.pc = IF sync.mode = "full" THEN "import" ELSE "commit"]
                /\ UNCHANGED endVars
        /\ UNCHANGED <<tasks, pend, left, scheduled, committed, state, imported,
                       peerVars, headerVars, ctrlVars, fetcher, round, net, wake>>

(* A pivot that goes stale is moved. *)
Pivot ==
    IF ~committed /\ offset - 1 > content.pivot + 2 * FullBlocks
    THEN offset - 1 - FullBlocks ELSE content.pivot

(* Mutant: the state sync of an earlier pivot goes on. *)
RestartOnce(pivot) ==
    IF content.locked # 0 THEN state ELSE [root |-> pivot, pc |-> "run"]

(* The state sync, restarted when the pivot is a new one. *)
Restart(pivot) ==
    IF content.locked = pivot THEN state ELSE [root |-> pivot, pc |-> "run"]

(* Mutant: all blocks below the pivot are taken to be among the results. *)
LastBelowPivotAll == Pivot - 1

(* The last result below the pivot. *)
LastBelowPivot == Least(offset, Pivot) - 1

(* Blocks below the pivot are written, and the pivot is locked in when it   *)
(* is among the results.                                                    *)
ContentCommit ==
    LET below == LastBelowPivot
    IN  /\ content.pc = "commit"
        /\ \/ /\ below > imported
              /\ \/ /\ state.pc \in {"canceled", "state"}
                    /\ ContentReturn(state.pc) /\ UNCHANGED faults
                 \/ Fault("content", 1) /\ ContentReturn("invalid")
              /\ UNCHANGED <<state, imported>>
           \/ /\ below > imported => state.pc \in {"run", "ok"}
              /\ imported' = IF below > imported THEN below ELSE imported
              /\ IF imported' < Pivot /\ Pivot < offset
                 THEN /\ content' = [pc |-> "pivot", pivot |-> Pivot, locked |-> Pivot]
                      /\ state' = Restart(Pivot)
                 ELSE /\ content' = [content EXCEPT !.pc = "import", !.pivot = Pivot]
                      /\ UNCHANGED state
              /\ UNCHANGED <<endVars, faults>>
        /\ UNCHANGED <<queueVars, committed, peerVars, headerVars, sync, closed, main,
                       cancelled, fetcher, round, net, wake>>

(* The pivot is committed once its state is there, unless it cannot be      *)
(* written; until then its staleness is checked every second.               *)
ContentPivot ==
    /\ content.pc = "pivot"
    /\ \/ /\ state.pc = "ok"
          /\ imported' = content.pivot /\ committed' = TRUE
          /\ content' = [content EXCEPT !.pc = "import", !.locked = 0]
          /\ UNCHANGED <<endVars, faults>>
       \/ /\ state.pc = "ok" /\ Fault("content", 1)
          /\ ContentReturn("invalid")
          /\ UNCHANGED <<imported, committed>>
       \/ /\ state.pc \in {"canceled", "state"}
          /\ ContentReturn(state.pc)
          /\ UNCHANGED <<imported, committed, faults>>
       \/ /\ content' = [content EXCEPT !.pc = "results"]
          /\ UNCHANGED <<imported, committed, endVars, faults>>
    /\ UNCHANGED <<queueVars, state, peerVars, headerVars, sync, closed, main, cancelled,
                   fetcher, round, net, wake>>

(* importBlockResults, which may fail with some blocks imported. *)
ContentImport ==
    /\ content.pc = "import"
    /\ \/ /\ imported' = offset - 1
          /\ content' = [content EXCEPT !.pc = "results"]
          /\ UNCHANGED <<endVars, faults>>
       \/ /\ imported' \in imported .. offset - 2 /\ Fault("content", 1)
          /\ ContentReturn("invalid")
    /\ UNCHANGED <<queueVars, committed, state, peerVars, headerVars, sync, closed, main,
                   cancelled, fetcher, round, net, wake>>

ProcessContent == ContentResults \/ ContentCommit \/ ContentPivot \/ ContentImport

(* The state sync ends; an error of its own closes the queue (closeOnErr),  *)
(* and a timeout of the master cancels everything.                          *)
StateSync ==
    /\ sync.mode = "fast" /\ state.pc = "run" /\ content.pc # "exit"
    /\ \/ /\ state' = [state EXCEPT !.pc = "ok"]
          /\ UNCHANGED <<closed, cancelled, faults, peers, leaving>>
       \/ /\ cancelled /\ state' = [state EXCEPT !.pc = "canceled"]
          /\ UNCHANGED <<closed, cancelled, faults, peers, leaving>>
       \/ /\ Fault("content", 1)
          /\ state' = [state EXCEPT !.pc = "state"] /\ closed' = TRUE
          /\ UNCHANGED <<cancelled, peers, leaving>>
       \/ /\ Fault("stall", 1)
          /\ state' = [state EXCEPT !.pc = "state"] /\ closed' = TRUE
          /\ Unregister(Master) /\ cancelled' = TRUE
    /\ UNCHANGED <<queueVars, content, committed, imported, busy, lacking, headerVars,
                   endVars, sync, main, fetcher, round, net, wake>>

-----------------------------------------------------------------------------
(* spawnSync reads results in the order they come.  The queue is closed     *)
(* before the last is read, and everything is cancelled after an error.     *)
SpawnReceive ==
    /\ main.pc = "receive" /\ errc # <<>>
    /\ LET r == ret[Head(errc)]
           end == r \notin {"nil", "canceled"} \/ main.n + 1 = Cardinality(Routines)
       IN  /\ main' = [pc |-> IF end THEN "wait" ELSE "receive",
                       n |-> main.n + 1, err |-> r]
           /\ closed' = (closed \/ end \/ main.n + 2 = Cardinality(Routines))
           /\ cancelled' = (cancelled \/ end)
           /\ errc' = IF end THEN <<>> ELSE Tail(errc)
    /\ UNCHANGED <<queueVars, peerVars, headerVars, contentVars, ret, sync, faults,
                   fetcher, round, net, wake>>

(* Cancel waits for all goroutines. *)
SpawnReturn ==
    /\ main.pc = "wait" /\ \A g \in Routines : ret[g] # "none"
    /\ main' = [main EXCEPT !.pc = "done"]
    /\ UNCHANGED <<queueVars, peerVars, headerVars, contentVars, endVars, sync, closed,
                   cancelled, faults, fetcher, round, net, wake>>

(* Cancel is called from outside. *)
Cancel ==
    /\ main.pc # "done" /\ ~cancelled /\ Fault("cancel", 1)
    /\ cancelled' = TRUE
    /\ UNCHANGED <<queueVars, peerVars, headerVars, contentVars, endVars, sync, closed,
                   main, fetcher, round, net, wake>>

(* A peer disconnects. *)
UnregisterPeer ==
    /\ main.pc # "done" /\ Fault("leave", 1)
    /\ \E p \in peers : Unregister(p)
    /\ UNCHANGED <<queueVars, busy, lacking, headerVars, contentVars, endVars, sync, closed,
                   main, cancelled, fetcher, round, net, wake>>

Init ==
    /\ sync \in Scenarios
    /\ tasks = [k \in Kinds |-> {}] /\ done = [k \in Kinds |-> {}]
    /\ pend = [k \in Kinds |-> [p \in Peers |-> {}]]
    /\ left = [b \in Blocks |-> -1] /\ offset = 1 /\ limit = sync.limit
    /\ closed = FALSE /\ scheduled = 0
    /\ peers = sync.peers /\ leaving = {}
    /\ busy = [k \in Kinds |-> {}] /\ lacking = [p \in Peers |-> {}]
    /\ net = {} /\ wake = [k \in Kinds |-> <<>>] /\ headerProc = <<>>
    /\ fetcher = [k \in Kinds |-> [pc |-> "select", finished |-> FALSE]]
    /\ round = [k \in Kinds |-> NoRound]
    /\ headers = [pc |-> "fetch", sent |-> 0]
    /\ schedule = [pc |-> "take", last |-> 0, got |-> FALSE]
    /\ content = [pc |-> "results", pivot |-> FirstPivot, locked |-> 0]
    /\ committed = (FirstPivot = 0)
    /\ state = [root |-> sync.height, pc |-> "run"]
    /\ imported = 0
    /\ ret = [g \in Routines |-> "none"] /\ errc = <<>>
    /\ main = [pc |-> "receive", n |-> 0, err |-> "none"]
    /\ cancelled = FALSE /\ faults = 0

Returned == main.pc = "done" /\ UNCHANGED vars

Next ==
    \/ \E k \in Kinds : FetchParts(k)
    \/ FetchHeaders \/ ProcessHeaders \/ ProcessContent \/ StateSync
    \/ SpawnReceive \/ SpawnReturn \/ Cancel \/ UnregisterPeer
    \/ (\E p \in Peers : Revoke(p)) \/ Returned

(* Each fetcher takes its next step, and while one of the other goroutines  *)
(* can run some of them does, which is less than fairness to each.  A       *)
(* fetcher's select, which picks among the ready cases at random, does not  *)
(* pass over cancelCh for ever.                                             *)
Fairness ==
    /\ \A k \in Kinds : /\ SF_vars(FetcherCanceled(k))
                        /\ WF_vars(CheckFlight(k) \/ Assign(k) \/ AssignEnd(k))
    /\ WF_vars(\/ HeadersCanceled \/ HeadersWake \/ HeadersLast
               \/ ProcessHeaders \/ ProcessContent
               \/ SpawnReceive \/ SpawnReturn)

Spec == Init /\ [][Next]_vars /\ Fairness

-----------------------------------------------------------------------------
(* Properties *)

(* Every part of a scheduled block has one owner: the task queue, the       *)
(* request of one peer, the done pool, or a block already taken from the    *)
(* cache; whatever peers answer, and however requests expire and are        *)
(* revoked (queue.deliver, expire, Revoke, reserveHeaders).  The cache slot *)
(* of a block counts the parts that are missing.                            *)
PartsOwned ==
    /\ \A k \in Parts, b \in Blocks :
         Cardinality({o \in Peers : b \in pend[k][o]})
           + (IF b \in tasks[k] THEN 1 ELSE 0) + (IF b \in done[k] THEN 1 ELSE 0)
           + (IF b < offset THEN 1 ELSE 0) = IF b <= scheduled THEN 1 ELSE 0
    /\ \A b \in offset..N :
         left[b] = IF left[b] < 0 THEN -1
                   ELSE Cardinality({k \in Parts : b \notin done[k]})

(* The throttling of resultSlots keeps every reservation inside the cache,  *)
(* and every delivery finds its slot: no fetcher gives up with              *)
(* errInvalidChain ("index allocation went beyond available resultCache     *)
(* space", queue.go:512), also when the memory limit changes.               *)
SlotsInCache == \A k \in Kinds : ret[k] # "invalid"

(* Fast sync writes blocks above the pivot only when the pivot is the head, *)
(* and the pivot only becomes the head with its own state complete, even if *)
(* it moves while the state of the old one is being fetched                 *)
(* (processFastSyncContent).                                                *)
PivotHasState ==
    sync.mode = "fast" /\ FirstPivot > 0 =>
        IF committed THEN state.root = content.pivot /\ state.pc = "ok"
        ELSE imported < content.pivot

(* A cancelled synchronisation returns, wherever its goroutines wait        *)
(* (Cancel, spawnSync).                                                     *)
CancelReturns == cancelled ~> main.pc = "done"

(* A synchronisation that reports success has imported all the blocks whose *)
(* headers it scheduled (spawnSync closes the queue "when all fetchers have *)
(* exited", after which "the block processor" ends "when it has processed   *)
(* the queue").                                                             *)
SuccessComplete == main.pc = "done" /\ main.err = "nil" => imported = scheduled

(* The downloader turns headers into a stream of whole blocks in order. *)
Stream == INSTANCE BlockStream WITH
    promised <- scheduled,
    whole <- {b \in 1..scheduled : \A k \in Parts : b < offset \/ b \in done[k]},
    chain <- imported

(* The queue, its caches and its peers implement that stream. *)
ImplementsStream == Stream!Spec

=============================================================================
