-------------------------- MODULE DownloaderProofs --------------------------
(***************************************************************************)
(* Proofs about Downloader: for any peers, blocks, cache sizes and limits, *)
(* and whatever peers answer or fail to answer,                            *)
(*   - every part of a scheduled block has exactly one owner;              *)
(*   - the throttling keeps reservations inside the cache;                 *)
(*   - the pivot of a fast sync becomes the head with its own state only;  *)
(*   - whole blocks enter the chain in order (refinement of BlockStream).  *)
(*                                                                         *)
(* The invariant has one part per group of variables.  Queue: a part is    *)
(* with the task queue, one request or the done pool, from offset to       *)
(* scheduled; whatever left the task queue has a slot, slots are allocated *)
(* without gaps from offset on, and none lies beyond the cache.            *)
(***************************************************************************)
EXTENDS Downloader, FiniteSetTheorems, TLAPS

QueueType ==
    /\ sync \in Scenario
    /\ tasks \in [Kinds -> SUBSET Blocks]
    /\ done \in [Kinds -> SUBSET Blocks]
    /\ pend \in [Kinds -> [Peers -> SUBSET Blocks]]
    /\ left \in [Blocks -> Int]
    /\ offset \in Nat /\ offset > 0 /\ limit \in Limits
    /\ scheduled \in 0..N /\ offset <= scheduled + 1

(* The part of kind k of block b is in some request. *)
Asked(k, b) == \E p \in Peers : b \in pend[k][p]

(* Parts of b that were not delivered yet. *)
Missing(b) == (IF b \in done["body"] THEN 0 ELSE 1)
              + (IF sync.mode = "fast" /\ b \notin done["receipt"] THEN 1 ELSE 0)

Owned ==
    /\ \A k \in Parts, b \in Blocks :
          offset <= b /\ b <= scheduled => b \in tasks[k] \/ b \in done[k] \/ Asked(k, b)
    /\ \A k \in Kinds, b \in Blocks :
          b \in tasks[k] \/ b \in done[k] \/ Asked(k, b) =>
              k \in Parts /\ offset <= b /\ b <= scheduled
    /\ \A k \in Kinds, b \in Blocks : b \in tasks[k] => b \notin done[k] /\ ~Asked(k, b)
    /\ \A k \in Kinds, b \in Blocks : b \in done[k] => ~Asked(k, b)
    /\ \A k \in Kinds, b \in Blocks, p, q \in Peers :
          b \in pend[k][p] /\ b \in pend[k][q] => p = q

Slotted ==
    /\ \A b \in Blocks : b >= offset => left[b] = -1 \/ left[b] = Missing(b)
    /\ \A k \in Kinds, b \in Blocks : b \in done[k] \/ Asked(k, b) => left[b] >= 0
    /\ \A b, c \in Blocks : offset <= c /\ c < b /\ left[b] >= 0 => left[c] >= 0
    /\ \A b \in Blocks : offset <= b /\ left[b] >= 0 => b < offset + CacheSize

QueueInv == QueueType /\ Owned /\ Slotted

(* Batches of headers pass from fetchHeaders to Schedule in order. *)
HeaderInv ==
    /\ DOMAIN headers = {"pc", "sent"} /\ headers.sent \in 0..N
    /\ headerProc # <<>> => headerProc = <<0>> \/ headerProc = <<headers.sent>>
    /\ DOMAIN schedule = {"pc", "last", "got"}
    /\ schedule.last \in 0..headers.sent /\ scheduled <= headers.sent
    /\ schedule.pc = "chunk" => scheduled <= schedule.last

(* The pivot is above the imported blocks until it is committed. *)
ContentInv ==
    /\ DOMAIN content = {"pc", "pivot", "locked"}
    /\ content.pivot \in Nat /\ content.locked \in Nat
    /\ DOMAIN state = {"root", "pc"}
    /\ imported \in Nat /\ imported < offset /\ committed \in BOOLEAN
    /\ sync.mode = "full" => committed
    /\ committed => content.pivot <= imported /\ content.locked = 0
    /\ committed /\ FirstPivot > 0 => state.root = content.pivot /\ state.pc = "ok"
    /\ ~committed => imported < content.pivot
    /\ content.locked # 0 =>
          content.locked = content.pivot /\ content.pivot < offset /\ state.root = content.pivot
    /\ content.pc = "pivot" => content.locked # 0
    /\ content.pc = "import" /\ ~committed => offset <= content.pivot

(* Requests are handed out to peers only. *)
RoundInv ==
    /\ peers \subseteq Peers
    /\ round = [k \in Kinds |-> round[k]]
    /\ \A k \in Kinds : "idles" \in DOMAIN round[k] /\ round[k].idles \subseteq Peers

RetInv == DOMAIN ret = Routines /\ SlotsInCache

Inv == QueueInv /\ HeaderInv /\ ContentInv /\ RoundInv /\ RetInv

-----------------------------------------------------------------------------
(* Sets of blocks are finite. *)
LEMMA FiniteBlocks == \A S : S \subseteq Blocks => IsFiniteSet(S) /\ Cardinality(S) \in Nat
<1>1. IsFiniteSet(Blocks)
  BY BlocksAssumption, FS_Interval DEF Blocks
<1>2. QED
  BY <1>1, FS_Subset, FS_CardinalityType, Zenon

(* A union has at most as many elements as its parts together. *)
LEMMA UnionBound ==
    ASSUME NEW S, NEW T, IsFiniteSet(S), IsFiniteSet(T)
    PROVE  IsFiniteSet(S \cup T) /\ Cardinality(S \cup T) <= Cardinality(S) + Cardinality(T)
<1>1. IsFiniteSet(S \cap T)
  BY FS_Subset, Zenon
<1>2. /\ Cardinality(S \cap T) \in Nat /\ Cardinality(S) \in Nat /\ Cardinality(T) \in Nat
      /\ IsFiniteSet(S \cup T)
      /\ Cardinality(S \cup T) = Cardinality(S) + Cardinality(T) - Cardinality(S \cap T)
  BY <1>1, FS_Union, FS_CardinalityType, Zenon
<1> QED
  BY <1>2

(* reserveHeaders pops no task beyond the cache: if it did, a window of    *)
(* limit blocks from offset on would be all tasks below it, requested or   *)
(* finished, and resultSlots would not have allowed that many tasks.       *)
LEMMA PoppedInCache ==
    ASSUME QueueInv, NEW k \in Kinds, NEW p \in Peers, NEW n \in Nat, NEW b \in Popped(k, p, n)
    PROVE  b \in Cache
<1> DEFINE W == offset .. offset + limit - 1
           F == Finished(k)
           P == {c \in Pending(k) : c < offset + limit}
           T == Below(k, b)
<1>1. /\ b \in Blocks /\ b \in tasks[k] /\ k \in Parts /\ offset <= b /\ b <= scheduled
      /\ Cardinality(T) < limit - Cardinality(F) - Cardinality(P)
  BY Zenon DEF QueueInv, QueueType, Owned, Popped, ResultSlots
<1>2. /\ limit \in Nat /\ limit <= CacheSize /\ CacheSize \in Nat
      /\ offset \in Nat /\ b \in Nat /\ offset > 0
  BY <1>1, LimitsAssumption, BlocksAssumption DEF QueueInv, QueueType, Blocks
<1>3. SUFFICES ASSUME b >= offset + limit PROVE FALSE
  BY <1>1, <1>2 DEF Cache
<1>4. T \subseteq Blocks /\ F \subseteq Blocks /\ P \subseteq Blocks
  BY DEF Below, Finished, Pending, QueueInv, QueueType
<1>5. W \subseteq (T \cup F) \cup P
  <2> SUFFICES ASSUME NEW c \in W PROVE c \in T \/ c \in F \/ c \in P
    BY Zenon
  <2>1. c \in Blocks /\ offset <= c /\ c < b /\ c <= scheduled /\ c < offset + limit
    BY <1>1, <1>2, <1>3, BlocksAssumption DEF Blocks, QueueInv, QueueType
  <2>2. CASE c \in tasks[k]
    BY <2>1, <2>2, Zenon DEF Below
  <2>3. CASE c \in done[k]
    <3>1. left[c] >= 0
      BY <2>1, <2>3, Zenon DEF QueueInv, Slotted
    <3>2. \A d \in offset..c : left[d] >= 0
      <4> SUFFICES ASSUME NEW d \in offset..c PROVE left[d] >= 0
        BY Zenon
      <4>1. d \in Blocks /\ offset <= d /\ (d < c \/ d = c)
        BY <2>1, <1>2, BlocksAssumption DEF Blocks
      <4> QED
        BY <4>1, <3>1, <2>1, Zenon DEF QueueInv, Slotted
    <3> QED
      BY <3>2, <2>1, <2>3, Zenon DEF Finished
  <2>4. CASE Asked(k, c)
    BY <2>1, <2>4, Zenon DEF Asked, Pending
  <2> QED
    BY <1>1, <2>1, <2>2, <2>3, <2>4, Zenon DEF QueueInv, Owned
<1>6. /\ IsFiniteSet(T) /\ IsFiniteSet(F) /\ IsFiniteSet(P)
      /\ Cardinality(T) \in Nat /\ Cardinality(F) \in Nat /\ Cardinality(P) \in Nat
  BY <1>4, FiniteBlocks, Zenon
<1> HIDE DEF T, F, P
<1>7. IsFiniteSet(T \cup F) /\ Cardinality(T \cup F) <= Cardinality(T) + Cardinality(F)
  BY <1>6, UnionBound, Zenon
<1>8. /\ IsFiniteSet((T \cup F) \cup P)
      /\ Cardinality((T \cup F) \cup P) <= Cardinality(T \cup F) + Cardinality(P)
  BY <1>6, <1>7, UnionBound, Zenon
<1>9. Cardinality(W) = limit
  BY <1>2, FS_Interval
<1>10. Cardinality(W) <= Cardinality((T \cup F) \cup P)
  BY <1>5, <1>8, FS_Subset, Zenon
<1>11. Cardinality(T \cup F) \in Nat /\ Cardinality((T \cup F) \cup P) \in Nat
  BY <1>7, <1>8, FS_CardinalityType, Zenon
<1> HIDE DEF W
<1> QED
  BY <1>1, <1>2, <1>6, <1>7, <1>8, <1>9, <1>10, <1>11

(* What is popped is popped in order. *)
LEMMA PoppedFromBelow ==
    ASSUME QueueInv, NEW k \in Kinds, NEW p \in Peers, NEW n \in Nat,
           NEW b \in Popped(k, p, n), NEW c \in tasks[k], c < b
    PROVE  c \in Popped(k, p, n)
<1> DEFINE S == Empty[k] \cup lacking[p]
<1>1. b \in tasks[k] /\ b \in Blocks /\ c \in Blocks
  BY Zenon DEF QueueInv, QueueType, Popped
<1>2. Below(k, c) \subseteq Below(k, b) /\ Below(k, b) \subseteq Blocks
  BY <1>1, BlocksAssumption DEF Below, QueueInv, QueueType, Blocks
<1>3. /\ Cardinality(Below(k, c)) <= Cardinality(Below(k, b))
      /\ Cardinality(Below(k, c) \ S) <= Cardinality(Below(k, b) \ S)
  <2>1. IsFiniteSet(Below(k, b)) /\ IsFiniteSet(Below(k, b) \ S)
    BY <1>2, FiniteBlocks, Zenon
  <2>2. Below(k, c) \ S \subseteq Below(k, b) \ S
    BY <1>2, Zenon
  <2> HIDE DEF S
  <2> QED
    BY <1>2, <2>1, <2>2, FS_Subset, Zenon
<1>4. /\ Cardinality(Below(k, c)) \in Nat /\ Cardinality(Below(k, b)) \in Nat
      /\ Cardinality(Below(k, c) \ S) \in Nat /\ Cardinality(Below(k, b) \ S) \in Nat
  BY <1>2, FiniteBlocks, Zenon
<1>5. ResultSlots(k) \in Int
  <2>1. Finished(k) \subseteq Blocks /\ {d \in Pending(k) : d < offset + limit} \subseteq Blocks
    BY DEF Finished, Pending, QueueInv, QueueType
  <2>2. limit \in Nat
    BY LimitsAssumption DEF QueueInv, QueueType
  <2> QED
    BY <2>1, <2>2, FiniteBlocks DEF ResultSlots
<1> QED
  BY <1>3, <1>4, <1>5 DEF Popped

-----------------------------------------------------------------------------
(* The steps that change the queue *)

(* Parts depends on the scenario only. *)
LEMMA PartsSame == ASSUME UNCHANGED sync PROVE Parts' = Parts /\ FirstPivot' = FirstPivot
  BY Zenon DEF Parts, FirstPivot

(* A step that leaves the queue alone keeps its invariant.                 *)
LEMMA QueueKept == QueueInv /\ UNCHANGED <<sync, queueVars>> => QueueInv'
  BY DEF queueVars, QueueInv, QueueType, Owned, Slotted, Asked, Missing, Parts

(* Requests of the peers S[k] return to the task queue: they keep their     *)
(* slots.  This is what Revoke and expire do.                               *)
LEMMA RequestsReturn ==
    ASSUME QueueInv, UNCHANGED <<sync, done, left, offset, limit, scheduled>>,
           NEW S \in [Kinds -> SUBSET Peers],
           tasks' = [k \in Kinds |-> tasks[k] \cup UNION {pend[k][p] : p \in S[k]}],
           pend' = [k \in Kinds |-> [p \in Peers |-> IF p \in S[k] THEN {} ELSE pend[k][p]]]
    PROVE  QueueInv'
<1>1. \A k \in Kinds, b \in Blocks :
        b \in tasks'[k] <=> b \in tasks[k] \/ \E p \in Peers : p \in S[k] /\ b \in pend[k][p]
  BY Zenon DEF QueueInv, QueueType
<1>2. \A k \in Kinds, p \in Peers : pend'[k][p] = IF p \in S[k] THEN {} ELSE pend[k][p]
  BY Zenon
<1>3. \A k \in Kinds, b \in Blocks :
        Asked(k, b)' <=> \E p \in Peers : p \notin S[k] /\ b \in pend[k][p]
  BY <1>2, Zenon DEF Asked
<1>4. QueueType'
  <2>1. tasks' \in [Kinds -> SUBSET Blocks]
    BY DEF QueueInv, QueueType
  <2>2. pend' \in [Kinds -> [Peers -> SUBSET Blocks]]
    BY Zenon DEF QueueInv, QueueType
  <2> QED
    BY <2>1, <2>2, Zenon DEF QueueInv, QueueType
<1>5. \A k \in Kinds, b \in Blocks : b \in tasks[k] \/ Asked(k, b) <=> b \in tasks'[k] \/ Asked(k, b)'
  BY <1>1, <1>3, Zenon DEF Asked
<1>6. Parts' = Parts
  BY PartsSame, Zenon
<1>7. Parts \subseteq Kinds
  BY Zenon DEF Parts, Kinds
<1>8. Owned'
  <2>1. \A k \in Parts, b \in Blocks :
          offset <= b /\ b <= scheduled => b \in tasks'[k] \/ b \in done[k] \/ Asked(k, b)'
    BY <1>5, <1>7, Zenon DEF QueueInv, Owned
  <2>2. \A k \in Kinds, b \in Blocks :
          b \in tasks'[k] \/ b \in done[k] \/ Asked(k, b)' =>
              k \in Parts /\ offset <= b /\ b <= scheduled
    BY <1>5, Zenon DEF QueueInv, Owned
  <2>3. \A k \in Kinds, b \in Blocks : b \in tasks'[k] => b \notin done[k] /\ ~Asked(k, b)'
    BY <1>1, <1>3 DEF QueueInv, Owned, Asked
  <2>4. \A k \in Kinds, b \in Blocks : b \in done[k] => ~Asked(k, b)'
    BY <1>3, Zenon DEF QueueInv, Owned, Asked
  <2>5. \A k \in Kinds, b \in Blocks, p, q \in Peers :
          b \in pend'[k][p] /\ b \in pend'[k][q] => p = q
    BY <1>2, Zenon DEF QueueInv, Owned
  <2> QED
    BY <2>1, <2>2, <2>3, <2>4, <2>5, <1>6, Zenon DEF Owned
<1>9. Slotted'
  <2>1. \A k \in Kinds, b \in Blocks : b \in done[k] \/ Asked(k, b)' => left[b] >= 0
    BY <1>5, <1>3, Zenon DEF QueueInv, Slotted, Asked
  <2> QED
    BY <2>1, Zenon DEF QueueInv, Slotted, Missing
<1> QED
  BY <1>4, <1>8, <1>9, Zenon DEF QueueInv

(* Headers that are scheduled come after those that were. *)
LEMMA ScheduleQueue ==
    ASSUME QueueInv, UNCHANGED sync, NEW last \in 0..N, scheduled <= last, Schedule(last)
    PROVE  QueueInv'
<1>1. \A k \in Kinds, b \in Blocks :
        b \in tasks'[k] <=> b \in tasks[k] \/ (k \in Parts /\ scheduled < b /\ b <= last)
  BY BlocksAssumption DEF Schedule, QueueInv, QueueType, Blocks
<1>2. QueueType'
  <2>1. scheduled \in Nat /\ \A b \in scheduled + 1 .. last : b \in Blocks
    BY BlocksAssumption DEF QueueInv, QueueType, Blocks
  <2>2. tasks' \in [Kinds -> SUBSET Blocks]
    BY <2>1, Zenon DEF Schedule, QueueInv, QueueType
  <2> QED
    BY <2>1, <2>2, BlocksAssumption DEF Schedule, QueueInv, QueueType
<1>3. Owned'
  BY <1>1, PartsSame, BlocksAssumption
  DEF Schedule, QueueInv, QueueType, Owned, Asked, Parts, Kinds, Blocks
<1>4. Slotted'
  BY Zenon DEF Schedule, QueueInv, Slotted, Asked, Missing
<1> QED
  BY <1>2, <1>3, <1>4, Zenon DEF QueueInv

(* Revoke returns the requests of one peer. *)
LEMMA RevokeQueue ==
    ASSUME QueueInv, NEW p \in Peers, Revoke(p)
    PROVE  QueueInv'
<1> DEFINE S == [k \in Kinds |-> {p}]
<1>1. UNCHANGED <<sync, done, left, offset, limit, scheduled>>
  BY Zenon DEF Revoke, ctrlVars
<1>2. S \in [Kinds -> SUBSET Peers]
  BY Zenon
<1>3. tasks' = [k \in Kinds |-> tasks[k] \cup UNION {pend[k][q] : q \in S[k]}]
  BY DEF Revoke
<1>4. pend' = [k \in Kinds |-> [q \in Peers |-> IF q \in S[k] THEN {} ELSE pend[k][q]]]
  BY Zenon DEF Revoke, QueueInv, QueueType
<1> HIDE DEF S
<1> QED
  BY <1>1, <1>2, <1>3, <1>4, RequestsReturn, Zenon

(* The blocks that Results takes are complete. *)
LEMMA TakenAreDone ==
    ASSUME QueueInv, NEW n \in Nat, n <= Cardinality(Processable),
           NEW b \in offset .. offset + n - 1
    PROVE  b \in Blocks /\ b <= scheduled /\ \A k \in Parts : b \in done[k]
<1>1. offset \in Nat /\ b \in Nat /\ CacheSize \in Nat /\ Blocks \subseteq Nat /\ offset <= b
  BY BlocksAssumption, LimitsAssumption DEF QueueInv, QueueType, Blocks
<1>2. b \in Processable
  <2>1. SUFFICES ASSUME b \notin Processable PROVE FALSE
    BY Zenon
  <2>2. Processable \subseteq offset .. b - 1
    <3> SUFFICES ASSUME NEW c \in Processable, c >= b PROVE FALSE
      BY <1>1 DEF Processable, Cache
    <3>1. b \in Cache \cap Blocks
      BY <1>1, BlocksAssumption DEF Processable, Cache, Blocks, QueueInv, QueueType
    <3>2. \A d \in offset..b : left[d] = 0
      BY <1>1 DEF Processable, Cache
    <3> QED
      BY <2>1, <3>1, <3>2, Zenon DEF Processable
  <2>3. IsFiniteSet(offset .. b - 1) /\ Cardinality(offset .. b - 1) = b - offset
    <3>1. offset \in Int /\ b - 1 \in Int
      BY <1>1
    <3>2. /\ IsFiniteSet(offset .. b - 1)
          /\ Cardinality(offset .. b - 1) = IF offset > b - 1 THEN 0 ELSE (b - 1) - offset + 1
      BY <3>1, FS_Interval, Zenon
    <3> QED
      BY <1>1, <3>2
  <2>4. Cardinality(Processable) <= b - offset
    BY <2>2, <2>3, FS_Subset, ZenonT(30)
  <2>5. Cardinality(Processable) \in Nat
    BY <2>2, <2>3, FS_Subset, FS_CardinalityType, Zenon
  <2> HIDE DEF QueueInv
  <2> QED
    BY <1>1, <2>4, <2>5
<1>3. b \in Blocks /\ left[b] = 0 /\ offset <= b
  BY <1>1, <1>2 DEF Processable
<1>4. Missing(b) = 0
  BY <1>3 DEF QueueInv, Slotted
<1>5. \A k \in Parts : b \in done[k]
  BY <1>4 DEF Missing, Parts, Kinds
<1>6. "body" \in Parts /\ "body" \in Kinds
  BY Zenon DEF Parts, Kinds
<1> QED
  BY <1>3, <1>5, <1>6, Zenon DEF QueueInv, Owned

(* Results leaves the blocks from the new offset on as they were. *)
LEMMA ResultsQueue ==
    ASSUME QueueInv, UNCHANGED <<sync, tasks, pend, left, scheduled>>,
           NEW n \in Nat, n <= Cardinality(Processable),
           offset' = offset + n,
           done' = [k \in Kinds |-> {b \in done[k] : b >= offset + n}],
           limit' \in Limits
    PROVE  QueueInv'
<1>1. offset \in Nat /\ Blocks \subseteq Nat /\ Parts' = Parts /\ Parts \subseteq Kinds
  BY BlocksAssumption, PartsSame DEF QueueInv, QueueType, Blocks, Parts, Kinds
<1>2. \A k \in Kinds, b \in Blocks : b \in done'[k] <=> b \in done[k] /\ b >= offset + n
  BY Zenon
<1>3. \A k \in Kinds, b \in Blocks : Asked(k, b)' <=> Asked(k, b)
  BY Zenon DEF Asked
<1>4. \A k \in Kinds, b \in Blocks : b \in tasks[k] \/ Asked(k, b) => b >= offset + n
  <2> SUFFICES ASSUME NEW k \in Kinds, NEW b \in Blocks, b \in tasks[k] \/ Asked(k, b),
                      ~(b >= offset + n)
               PROVE  FALSE
    BY Zenon
  <2>1. b \in offset .. offset + n - 1 /\ k \in Parts
    BY <1>1 DEF QueueInv, Owned
  <2>2. b \in done[k]
    BY <2>1, TakenAreDone, Zenon
  <2> QED
    BY <2>2, Zenon DEF QueueInv, Owned
<1>5. offset + n <= scheduled + 1
  <2>1. CASE n = 0
    BY <2>1 DEF QueueInv, QueueType
  <2>2. CASE n > 0
    <3>1. offset + n - 1 \in offset .. offset + n - 1
      BY <1>1, <2>2
    <3>2. offset + n - 1 <= scheduled
      BY <3>1, TakenAreDone, Zenon
    <3> QED
      BY <1>1, <3>2 DEF QueueInv, QueueType
  <2> QED
    BY <2>1, <2>2
<1>6. QueueType'
  <2>1. done' \in [Kinds -> SUBSET Blocks]
    BY Zenon DEF QueueInv, QueueType
  <2> QED
    BY <2>1, <1>1, <1>5 DEF QueueInv, QueueType
<1>7. Owned'
  BY <1>1, <1>2, <1>3, <1>4 DEF QueueInv, QueueType, Owned
<1>8. Slotted'
  <2>1. \A b \in Blocks : b >= offset + n => Missing(b)' = Missing(b) /\ b >= offset
    <3> SUFFICES ASSUME NEW b \in Blocks, b >= offset + n
                 PROVE  Missing(b)' = Missing(b) /\ b >= offset
      BY Zenon
    <3>1. b >= offset
      BY <1>1
    <3>2. /\ b \in done["body"]' <=> b \in done["body"]
          /\ b \in done["receipt"]' <=> b \in done["receipt"]
      BY <1>2, Zenon DEF Kinds
    <3> QED
      BY <3>1, <3>2, Zenon DEF Missing
  <2>2. CacheSize \in Nat
    BY LimitsAssumption, Zenon
  <2> QED
    BY <2>1, <2>2, <1>1, <1>2, <1>3 DEF QueueInv, QueueType, Slotted
<1> QED
  BY <1>6, <1>7, <1>8, Zenon DEF QueueInv

(* A block misses none, one or both of its parts.                          *)
LEMMA MissingType == \A b : Missing(b) \in 0..2
  BY DEF Missing

(* A part less is missing once one is delivered. *)
LEMMA MissingLess ==
    ASSUME QueueInv, UNCHANGED sync, NEW k \in Parts, NEW G \in SUBSET Blocks,
           done' = [done EXCEPT ![k] = @ \cup G], NEW b \in Blocks, b \notin done[k]
    PROVE  Missing(b)' = Missing(b) - IF b \in G THEN 1 ELSE 0
<1>1. k \in Kinds /\ (k = "body" \/ (k = "receipt" /\ sync.mode = "fast"))
  BY Zenon DEF Parts, Kinds
<1>2. /\ b \in done'[k] <=> b \in G
      /\ \A j \in Kinds : j # k => done'[j] = done[j]
  BY <1>1, Zenon DEF QueueInv, QueueType
<1>3. CASE k = "body"
  <2>1. done'["receipt"] = done["receipt"]
    BY <1>2, <1>3, Zenon DEF Kinds
  <2> QED
    BY <1>2, <1>3, <2>1 DEF Missing
<1>4. CASE k = "receipt" /\ sync.mode = "fast"
  <2>1. done'["body"] = done["body"]
    BY <1>2, <1>4, Zenon DEF Kinds
  <2> QED
    BY <1>2, <1>4, <2>1 DEF Missing
<1> QED
  BY <1>1, <1>3, <1>4, Zenon

(* The slot of a task counts its missing parts, if need be from now on. *)
LEMMA SlotMissing ==
    ASSUME QueueInv, NEW k \in Kinds, NEW b \in tasks[k]
    PROVE  Slot(b) = Missing(b)
<1>1. b \in Blocks /\ b >= offset
  BY BlocksAssumption, Zenon DEF QueueInv, QueueType, Owned, Blocks
<1>2. CASE left[b] >= 0
  BY <1>1, <1>2 DEF QueueInv, Slotted, Slot
<1>3. CASE ~(left[b] >= 0)
  <2>1. \A j \in Kinds : b \notin done[j]
    BY <1>1, <1>3, Zenon DEF QueueInv, Slotted
  <2>2. b \notin done["body"] /\ b \notin done["receipt"]
    BY <2>1, Zenon DEF Kinds
  <2> QED
    BY <1>3, <2>2 DEF Slot, Missing
<1> QED
  BY <1>2, <1>3, Zenon

(* A reservation moves tasks that are inside the cache to the request of a  *)
(* peer or, if they need no request, to the done pool.                      *)
LEMMA ReserveQueue ==
    ASSUME QueueInv, NEW k \in Kinds, NEW p \in Peers, NEW n \in Capacities,
           Reserve(k, p, n), UNCHANGED <<sync, offset, limit, scheduled>>
    PROVE  /\ QueueInv'
           /\ (IF pend[k][p] = {} THEN Popped(k, p, n) ELSE {}) \subseteq Cache
<1> DEFINE popped == IF pend[k][p] = {} THEN Popped(k, p, n) ELSE {}
           noop == popped \cap Empty[k]
           sent == popped \ (Empty[k] \cup lacking[p])
<1>0. n \in Nat /\ Parts' = Parts /\ Parts \subseteq Kinds /\ Blocks \subseteq Nat
  BY SizesAssumption, BlocksAssumption, PartsSame DEF Parts, Kinds, Blocks
<1>1. popped \subseteq Cache
  BY <1>0, PoppedInCache, Zenon
<1>2. popped \subseteq tasks[k] /\ popped \subseteq Blocks
  BY Zenon DEF Popped, QueueInv, QueueType
<1>3. \A b \in popped, c \in tasks[k] : c < b => c \in popped
  BY <1>0, PoppedFromBelow, Zenon
<1>4. /\ tasks' = [tasks EXCEPT ![k] = @ \ (noop \cup sent)]
      /\ pend' = [pend EXCEPT ![k][p] = @ \cup sent]
      /\ done' = [done EXCEPT ![k] = @ \cup noop]
      /\ left' = [b \in Blocks |->
               IF b \in popped THEN Slot(b) - IF b \in noop THEN 1 ELSE 0 ELSE left[b]]
  BY Zenon DEF Reserve
<1>5. noop \subseteq popped /\ sent \subseteq popped /\ noop \cap sent = {}
  BY Zenon
<1>6. \A b \in popped : k \in Parts /\ b \in Blocks /\ offset <= b /\ b <= scheduled
                        /\ b \notin done[k] /\ ~Asked(k, b) /\ Slot(b) = Missing(b)
  BY <1>2, SlotMissing, Zenon DEF QueueInv, Owned
<1> HIDE DEF popped, noop, sent
<1>7. \A j \in Kinds, b \in Blocks :
        b \in tasks'[j] <=> b \in tasks[j] /\ ~(j = k /\ (b \in noop \/ b \in sent))
  BY <1>4, Zenon DEF QueueInv, QueueType
<1>8. \A j \in Kinds, b \in Blocks : b \in done'[j] <=> b \in done[j] \/ (j = k /\ b \in noop)
  BY <1>4, Zenon DEF QueueInv, QueueType
<1>9. \A j \in Kinds, q \in Peers, b \in Blocks :
        b \in pend'[j][q] <=> b \in pend[j][q] \/ (j = k /\ q = p /\ b \in sent)
  BY <1>4, Zenon DEF QueueInv, QueueType
<1>10. \A j \in Kinds, b \in Blocks : Asked(j, b)' <=> Asked(j, b) \/ (j = k /\ b \in sent)
  BY <1>9, Zenon DEF Asked
<1>11. QueueType'
  <2>1. tasks' \in [Kinds -> SUBSET Blocks]
    BY <1>4, Zenon DEF QueueInv, QueueType
  <2>2. done' \in [Kinds -> SUBSET Blocks]
    BY <1>4, <1>2, <1>5, Zenon DEF QueueInv, QueueType
  <2>3. pend' \in [Kinds -> [Peers -> SUBSET Blocks]]
    BY <1>4, <1>2, <1>5, SMTT(20) DEF QueueInv, QueueType
  <2>4. left' \in [Blocks -> Int]
    <3> SUFFICES ASSUME NEW b \in Blocks
                 PROVE  (IF b \in popped THEN Slot(b) - IF b \in noop THEN 1 ELSE 0
                         ELSE left[b]) \in Int
      BY <1>4, Zenon
    <3> QED
      BY <1>6, MissingType DEF QueueInv, QueueType
  <2> QED
    BY <2>1, <2>2, <2>3, <2>4, Zenon DEF QueueInv, QueueType
<1>12. Owned'
  <2>1. \A j \in Parts, b \in Blocks :
          offset <= b /\ b <= scheduled => b \in tasks'[j] \/ b \in done'[j] \/ Asked(j, b)'
    BY <1>0, <1>7, <1>8, <1>10, ZenonT(30) DEF QueueInv, Owned
  <2>2. \A j \in Kinds, b \in Blocks :
          b \in tasks'[j] \/ b \in done'[j] \/ Asked(j, b)' =>
              j \in Parts /\ offset <= b /\ b <= scheduled
    BY <1>5, <1>6, <1>7, <1>8, <1>10 DEF QueueInv, Owned
  <2>3. \A j \in Kinds, b \in Blocks : b \in tasks'[j] => b \notin done'[j] /\ ~Asked(j, b)'
    BY <1>7, <1>8, <1>10, ZenonT(30) DEF QueueInv, Owned
  <2>4. \A j \in Kinds, b \in Blocks : b \in done'[j] => ~Asked(j, b)'
    BY <1>5, <1>6, <1>8, <1>10, SMTT(20) DEF QueueInv, Owned
  <2>5. \A j \in Kinds, b \in Blocks, q, r \in Peers :
          b \in pend'[j][q] /\ b \in pend'[j][r] => q = r
    BY <1>5, <1>6, <1>9 DEF QueueInv, Owned, Asked
  <2> QED
    BY <2>1, <2>2, <2>3, <2>4, <2>5, <1>0, Zenon DEF Owned
<1>13. \A b \in Blocks : /\ b \in popped => left'[b] = Missing(b)' /\ left'[b] >= 0
                         /\ b \notin popped => left'[b] = left[b] /\ Missing(b)' = Missing(b)
  <2> SUFFICES ASSUME NEW b \in Blocks
               PROVE  /\ b \in popped => left'[b] = Missing(b)' /\ left'[b] >= 0
                      /\ b \notin popped => left'[b] = left[b] /\ Missing(b)' = Missing(b)
    BY Zenon
  <2>1. CASE b \in popped
    <3>1. Missing(b)' = Missing(b) - IF b \in noop THEN 1 ELSE 0
      BY <2>1, <1>2, <1>4, <1>5, <1>6, MissingLess, Zenon
    <3>2. left'[b] = Missing(b)'
      BY <2>1, <3>1, <1>4, <1>6, Zenon
    <3>3. Missing(b)' \in 0..2
      BY DEF Missing
    <3> QED
      BY <2>1, <3>2, <3>3
  <2>2. CASE b \notin popped
    <3>1. \A j \in Kinds : b \in done'[j] <=> b \in done[j]
      BY <2>2, <1>5, <1>8, Zenon
    <3>2. Missing(b)' = Missing(b)
      BY <3>1, Zenon DEF Missing, Kinds
    <3> QED
      BY <2>2, <3>2, <1>4, Zenon
  <2> QED
    BY <2>1, <2>2, Zenon
<1>14. Slotted'
  <2>1. \A b \in Blocks : b >= offset => left'[b] = -1 \/ left'[b] = Missing(b)'
    BY <1>13, Zenon DEF QueueInv, Slotted
  <2>2. \A j \in Kinds, b \in Blocks : b \in done'[j] \/ Asked(j, b)' => left'[b] >= 0
    BY <1>5, <1>8, <1>10, <1>13, Zenon DEF QueueInv, Slotted
  <2>3. \A b, c \in Blocks : offset <= c /\ c < b /\ left'[b] >= 0 => left'[c] >= 0
    <3> SUFFICES ASSUME NEW b \in Blocks, NEW c \in Blocks, offset <= c, c < b, left'[b] >= 0
                 PROVE  left'[c] >= 0
      BY Zenon
    <3>1. CASE b \notin popped
      BY <3>1, <1>13, Zenon DEF QueueInv, Slotted
    <3>2. CASE b \in popped
      <4>1. k \in Parts /\ c <= scheduled
        BY <3>2, <1>0, <1>6 DEF QueueInv, QueueType
      <4>2. CASE c \in tasks[k]
        BY <3>2, <4>2, <1>3, <1>13, Zenon
      <4>3. CASE c \in done[k] \/ Asked(k, c)
        BY <4>3, <1>13, Zenon DEF QueueInv, Slotted
      <4> QED
        BY <4>1, <4>2, <4>3, Zenon DEF QueueInv, Owned
    <3> QED
      BY <3>1, <3>2, Zenon
  <2>4. \A b \in Blocks : offset <= b /\ left'[b] >= 0 => b < offset + CacheSize
    BY <1>0, <1>1, <1>13, LimitsAssumption DEF QueueInv, QueueType, Slotted, Cache
  <2> QED
    BY <2>1, <2>2, <2>3, <2>4, Zenon DEF Slotted
<1> QED
  BY <1>1, <1>11, <1>12, <1>14, Zenon DEF QueueInv, popped

(* A delivery moves a request to the done pool, or back to the tasks as far *)
(* as the answer does not match it; all of its slots are in place.          *)
LEMMA AcceptQueue ==
    ASSUME QueueInv, NEW k \in Kinds, NEW p \in Peers, NEW A, Accept(k, p, A), UNCHANGED sync
    PROVE  QueueInv' /\ \A b \in Examined(pend[k][p], A) : b \in Cache /\ left[b] >= 0
<1> DEFINE R == pend[k][p]
           good == Matching(R, A)
<1>0. Parts' = Parts /\ Parts \subseteq Kinds /\ Blocks \subseteq Nat /\ R \subseteq Blocks
  BY BlocksAssumption, PartsSame DEF Parts, Kinds, Blocks, QueueInv, QueueType
<1>1. \A b \in R : /\ b \in Blocks /\ k \in Parts /\ offset <= b /\ b <= scheduled
                   /\ b \notin tasks[k] /\ b \notin done[k] /\ left[b] >= 0
                   /\ left[b] = Missing(b) /\ b < offset + CacheSize /\ Asked(k, b)
  <2> SUFFICES ASSUME NEW b \in R
               PROVE  /\ b \in Blocks /\ k \in Parts /\ offset <= b /\ b <= scheduled
                      /\ b \notin tasks[k] /\ b \notin done[k] /\ left[b] >= 0
                      /\ left[b] = Missing(b) /\ b < offset + CacheSize /\ Asked(k, b)
    BY Zenon
  <2>1. b \in Blocks /\ Asked(k, b)
    BY <1>0, Zenon DEF Asked
  <2>2. k \in Parts /\ offset <= b /\ b <= scheduled /\ b \notin tasks[k] /\ b \notin done[k]
    BY <2>1, Zenon DEF QueueInv, Owned
  <2>3. left[b] >= 0 /\ b < offset + CacheSize
    BY <2>1, <2>2, Zenon DEF QueueInv, Slotted
  <2>4. b >= offset
    BY <1>0, <2>1, <2>2, Zenon DEF QueueInv, QueueType
  <2>5. left[b] = Missing(b)
    BY <2>1, <2>3, <2>4 DEF QueueInv, Slotted
  <2> QED
    BY <2>1, <2>2, <2>3, <2>5, Zenon
<1>2. \A b \in Examined(R, A) : b \in Cache /\ left[b] >= 0
  <2>1. Examined(R, A) \subseteq R
    BY Zenon DEF Examined
  <2>2. \A b \in R : b \in Cache
    BY <1>0, <1>1, LimitsAssumption DEF Cache, QueueInv, QueueType
  <2> QED
    BY <1>1, <2>1, <2>2, Zenon
<1>3. CASE R = {}
  <2>1. UNCHANGED queueVars
    BY <1>3, Zenon DEF Accept
  <2> QED
    BY <1>2, <2>1, QueueKept, Zenon
<1>4. CASE R # {}
  <2>1. /\ pend' = [pend EXCEPT ![k][p] = {}]
        /\ done' = [done EXCEPT ![k] = @ \cup good]
        /\ left' = [b \in Blocks |-> left[b] - IF b \in good THEN 1 ELSE 0]
        /\ tasks' = [tasks EXCEPT ![k] = @ \cup (R \ good)]
        /\ UNCHANGED <<offset, limit, scheduled>>
    BY <1>4, Zenon DEF Accept
  <2>2. good \subseteq R
    BY Zenon DEF Matching
  <2>3. \A q \in Peers : q # p => pend[k][q] \cap R = {}
    BY <1>0, Zenon DEF QueueInv, Owned
  <2> HIDE DEF good
  <2>4. \A j \in Kinds, b \in Blocks :
          b \in tasks'[j] <=> b \in tasks[j] \/ (j = k /\ b \in R /\ b \notin good)
    BY <2>1, Zenon DEF QueueInv, QueueType
  <2>5. \A j \in Kinds, b \in Blocks : b \in done'[j] <=> b \in done[j] \/ (j = k /\ b \in good)
    BY <2>1, Zenon DEF QueueInv, QueueType
  <2>6. \A j \in Kinds, q \in Peers :
          pend'[j][q] = IF j = k /\ q = p THEN {} ELSE pend[j][q]
    BY <2>1, Zenon DEF QueueInv, QueueType
  <2>7. \A j \in Kinds, b \in Blocks : Asked(j, b)' <=> Asked(j, b) /\ ~(j = k /\ b \in R)
    <3> SUFFICES ASSUME NEW j \in Kinds, NEW b \in Blocks
                 PROVE  Asked(j, b)' <=> Asked(j, b) /\ ~(j = k /\ b \in R)
      BY Zenon
    <3>1. Asked(j, b)' <=> \E q \in Peers : b \in pend[j][q] /\ ~(j = k /\ q = p)
      BY <2>6, Zenon DEF Asked
    <3> QED
      BY <3>1, <2>3, Zenon DEF Asked
  <2> HIDE DEF R
  <2>8. QueueType'
    <3>1. tasks' \in [Kinds -> SUBSET Blocks]
      BY <1>0, <2>1, Zenon DEF QueueInv, QueueType
    <3>2. done' \in [Kinds -> SUBSET Blocks]
      BY <1>0, <2>1, <2>2, Zenon DEF QueueInv, QueueType
    <3>3. pend' \in [Kinds -> [Peers -> SUBSET Blocks]]
      BY <2>1, Zenon DEF QueueInv, QueueType
    <3>4. left' \in [Blocks -> Int]
      BY <2>1 DEF QueueInv, QueueType
    <3> QED
      BY <3>1, <3>2, <3>3, <3>4, <2>1, Zenon DEF QueueInv, QueueType
  <2>9. Owned'
    <3>1. \A j \in Parts, b \in Blocks :
            offset <= b /\ b <= scheduled => b \in tasks'[j] \/ b \in done'[j] \/ Asked(j, b)'
      BY <1>0, <2>4, <2>5, <2>7, Zenon DEF QueueInv, Owned
    <3>2. \A j \in Kinds, b \in Blocks :
            b \in tasks'[j] \/ b \in done'[j] \/ Asked(j, b)' =>
                j \in Parts /\ offset <= b /\ b <= scheduled
      BY <1>1, <2>2, <2>4, <2>5, <2>7, SMTT(20) DEF QueueInv, Owned
    <3>3. \A j \in Kinds, b \in Blocks : b \in tasks'[j] => b \notin done'[j] /\ ~Asked(j, b)'
      BY <1>1, <2>2, <2>4, <2>5, <2>7 DEF QueueInv, Owned
    <3>4. \A j \in Kinds, b \in Blocks : b \in done'[j] => ~Asked(j, b)'
      BY <2>2, <2>5, <2>7, Zenon DEF QueueInv, Owned
    <3>5. \A j \in Kinds, b \in Blocks, q, r \in Peers :
            b \in pend'[j][q] /\ b \in pend'[j][r] => q = r
      BY <2>6 DEF QueueInv, Owned
    <3> QED
      BY <3>1, <3>2, <3>3, <3>4, <3>5, <1>0, <2>1, Zenon DEF Owned
  <2>10. \A b \in Blocks :
           /\ b \in good => left'[b] = Missing(b)' /\ left'[b] >= 0 /\ left[b] >= 0
           /\ b \notin good => left'[b] = left[b] /\ Missing(b)' = Missing(b)
    <3> SUFFICES ASSUME NEW b \in Blocks
                 PROVE  /\ b \in good => left'[b] = Missing(b)' /\ left'[b] >= 0 /\ left[b] >= 0
                        /\ b \notin good => left'[b] = left[b] /\ Missing(b)' = Missing(b)
      BY Zenon
    <3>1. CASE b \in good
      <4>1. Missing(b)' = Missing(b) - 1
        <5>1. Missing(b)' = Missing(b) - IF b \in good THEN 1 ELSE 0
          BY <3>1, <1>0, <1>1, <2>1, <2>2, MissingLess, Zenon
        <5> QED
          BY <3>1, <5>1, Zenon
      <4>2. left'[b] = left[b] - 1
        BY <3>1, <2>1, Zenon
      <4>3. Missing(b)' \in 0..2
        BY DEF Missing
      <4> QED
        BY <3>1, <4>1, <4>2, <4>3, <1>1, <2>2
    <3>2. CASE b \notin good
      <4>1. \A j \in Kinds : b \in done'[j] <=> b \in done[j]
        BY <3>2, <2>5, Zenon
      <4>2. Missing(b)' = Missing(b)
        BY <4>1, Zenon DEF Missing, Kinds
      <4>3. left'[b] = left[b]
        BY <3>2, <2>1 DEF QueueInv, QueueType
      <4> QED
        BY <3>2, <4>2, <4>3, Zenon
    <3> QED
      BY <3>1, <3>2, Zenon
  <2>11. Slotted'
    <3>1. \A b \in Blocks : b >= offset => left'[b] = -1 \/ left'[b] = Missing(b)'
      BY <2>10, Zenon DEF QueueInv, Slotted
    <3>2. \A j \in Kinds, b \in Blocks : b \in done'[j] \/ Asked(j, b)' => left'[b] >= 0
      BY <2>5, <2>7, <2>10, Zenon DEF QueueInv, Slotted
    <3>3. \A b \in Blocks : left'[b] >= 0 <=> left[b] >= 0
      BY <2>10, Zenon
    <3> QED
      BY <3>1, <3>2, <3>3, <2>1, Zenon DEF QueueInv, Slotted
  <2> QED
    BY <1>2, <2>8, <2>9, <2>11, Zenon DEF QueueInv, R
<1> QED
  BY <1>3, <1>4, Zenon

-----------------------------------------------------------------------------
(* The other parts of the invariant, where they are left alone or changed   *)
(* in one of a few ways *)

LEMMA HeaderKept == HeaderInv /\ UNCHANGED <<headerVars, scheduled>> => HeaderInv'
  BY Zenon DEF headerVars, HeaderInv

(* A step that leaves results, state and imports alone keeps their invariant. *)
LEMMA ContentKept == ContentInv /\ UNCHANGED <<sync, contentVars, offset>> => ContentInv'
  BY PartsSame DEF contentVars, ContentInv

(* Peers that leave between two rounds do not disturb a round.             *)
LEMMA RoundKept == RoundInv /\ peers' \subseteq peers /\ UNCHANGED round => RoundInv'
  BY Zenon DEF RoundInv

(* Nothing is returned by a step that leaves the ends of the goroutines alone. *)
LEMMA RetKept == RetInv /\ UNCHANGED endVars => RetInv'
  BY Zenon DEF endVars, RetInv, SlotsInCache

(* A goroutine returns; a fetcher never with an invalid chain.             *)
LEMMA RetReturn ==
    ASSUME RetInv, NEW g \in Routines, NEW r, g \in Kinds => r # "invalid", Return(g, r)
    PROVE  RetInv'
<1>1. ret' = [ret EXCEPT ![g] = r] /\ Kinds \subseteq Routines
  BY Zenon DEF Return, Routines
<1> QED
  BY <1>1, Zenon DEF RetInv, SlotsInCache

(* A fetcher that leaves its round has no idle peers left to assign.       *)
LEMMA GotoRound ==
    ASSUME RoundInv, NEW k \in Kinds, NEW pc, Goto(k, pc), peers' \subseteq peers
    PROVE  RoundInv'
<1>1. "idles" \in DOMAIN NoRound /\ NoRound.idles = {}
  BY Zenon DEF NoRound
<1> HIDE DEF NoRound
<1>2. round' = [round EXCEPT ![k] = NoRound]
  BY Zenon DEF Goto
<1> QED
  BY <1>1, <1>2, Zenon DEF RoundInv

(* A fetcher assigns only peers of its round.                              *)
LEMMA AssigningRound ==
    ASSUME RoundInv, NEW k \in Kinds, NEW r, Assigning(k, r), peers' \subseteq peers,
           "idles" \in DOMAIN r, r.idles \subseteq Peers
    PROVE  RoundInv'
<1>1. CASE Goto(k, "select")
  BY <1>1, GotoRound, Zenon
<1>2. CASE round' = [round EXCEPT ![k] = r]
  BY <1>2, Zenon DEF RoundInv
<1> QED
  BY <1>1, <1>2, Zenon DEF Assigning

(* A new round of a fetcher starts from the peers that are registered.     *)
LEMMA PendRound ==
    ASSUME RoundInv, NEW k \in Kinds, Pend(k), peers' \subseteq peers
    PROVE  RoundInv'
<1> DEFINE r == [idles |-> peers' \ busy'[k],
                 all |-> peers' \cap busy'[k] = {},
                 running |-> \E p \in Peers : pend'[k][p] # {},
                 progressed |-> FALSE,
                 throttled |-> FALSE]
<1>1. "idles" \in DOMAIN r /\ r.idles \subseteq Peers
  BY Zenon DEF RoundInv
<1>2. CASE tasks'[k] = {}
  BY <1>2, GotoRound, Zenon DEF Pend
<1>3. CASE tasks'[k] # {}
  <2>1. Assigning(k, r)
    BY <1>3, Zenon DEF Pend
  <2> HIDE DEF r
  <2> QED
    BY <1>1, <2>1, AssigningRound, Zenon
<1> QED
  BY <1>2, <1>3, Zenon

-----------------------------------------------------------------------------
(* The invariant is preserved, goroutine by goroutine *)

LEMMA FetchPartsStep ==
    ASSUME Inv, NEW k \in Kinds, FetchParts(k)
    PROVE  Inv'
<1> USE DEF Inv
<1>0. k \in Routines
  BY Zenon DEF Routines
<1>1. ASSUME FetcherCanceled(k) \/ NoPeers(k) \/ CheckFlight(k) \/ AssignEnd(k) PROVE Inv'
  <2>1. /\ UNCHANGED <<queueVars, peerVars, headerVars, contentVars, ctrlVars>>
        /\ \/ \E r \in {"canceled", "nopeers", "nil", "unavailable"} : Exit(k, r)
           \/ Goto(k, "select") /\ UNCHANGED endVars
    BY <1>1, Zenon DEF FetcherCanceled, NoPeers, CheckFlight, AssignEnd
  <2>2. RoundInv'
    BY <2>1, GotoRound, Zenon DEF Exit, peerVars
  <2>3. RetInv'
    BY <2>1, <1>0, RetReturn, RetKept, Zenon DEF Exit
  <2> QED
    BY <2>1, <2>2, <2>3, QueueKept, HeaderKept, ContentKept, Zenon DEF queueVars, ctrlVars
<1>2. ASSUME FetcherWoken(k) PROVE Inv'
  <2>1. UNCHANGED <<queueVars, peerVars, headerVars, contentVars, endVars, ctrlVars, round>>
    BY <1>2, Zenon DEF FetcherWoken
  <2> QED
    BY <2>1, QueueKept, HeaderKept, ContentKept, RoundKept, RetKept, Zenon
    DEF queueVars, ctrlVars, peerVars
<1>3. ASSUME Deliver(k) PROVE Inv'
  <2>1. UNCHANGED <<peers, headerVars, contentVars, sync>>
    BY <1>3, Zenon DEF Deliver
  <2>2. \/ UNCHANGED <<queueVars, fetcher, round, endVars>>
        \/ \E p \in Peers : \E A : Accept(k, p, A)
    BY <1>3, Zenon DEF Deliver, RoundInv
  <2>3. QueueInv' /\ UNCHANGED <<offset, scheduled, round, endVars>>
    <3>1. CASE UNCHANGED <<queueVars, fetcher, round, endVars>>
      BY <2>1, <3>1, QueueKept, Zenon DEF queueVars
    <3>2. ASSUME NEW p \in Peers, NEW A, Accept(k, p, A)
          PROVE  QueueInv' /\ UNCHANGED <<offset, scheduled, round, endVars>>
      <4>1. QueueInv' /\ \A b \in Examined(pend[k][p], A) : b \in Cache /\ left[b] >= 0
        BY <2>1, <3>2, AcceptQueue, Zenon
      <4>2. \A b \in Examined(pend[k][p], A) : left[b] \in Int
        BY Zenon DEF Examined, QueueInv, QueueType
      <4>3. UNCHANGED <<offset, scheduled, round, endVars>>
        BY <3>2, <4>1, <4>2 DEF Accept, queueVars
      <4> QED
        BY <4>1, <4>3, Zenon
    <3> QED
      BY <2>2, <3>1, <3>2, Zenon
  <2> QED
    BY <2>1, <2>3, HeaderKept, ContentKept, RoundKept, RetKept, Zenon
<1>4. ASSUME Expire(k) PROVE Inv'
  <2>1. UNCHANGED <<sync, done, left, offset, limit, scheduled, headerVars, contentVars>>
    BY <1>4, Zenon DEF Expire
  <2> DEFINE Weak(E) == {p \in E \cap peers : Cardinality(pend[k][p]) <= Tolerated}
             Body(E, D) ==
               /\ peers' = peers \ D
               /\ tasks' = [tasks EXCEPT ![k] = @ \cup UNION {pend[k][p] : p \in E}]
               /\ pend' = [pend EXCEPT ![k] = [p \in Peers |-> IF p \in E THEN {} ELSE @[p]]]
               /\ Exit(k, "timeout") \/ (Pend(k) /\ UNCHANGED endVars)
  <2>2a. PICK E \in SUBSET {p \in Peers : pend[k][p] # {}} :
           \E D \in SUBSET Weak(E) : Body(E, D)
    BY <1>4, Zenon DEF Expire
  <2>2b. PICK D \in SUBSET Weak(E) : Body(E, D)
    BY <2>2a, Zenon
  <2>2c. E \in SUBSET Peers /\ D \in SUBSET Peers
    BY <2>2a, <2>2b, Zenon
  <2>2. /\ E \in SUBSET Peers /\ D \in SUBSET Peers
        /\ peers' = peers \ D
        /\ tasks' = [tasks EXCEPT ![k] = @ \cup UNION {pend[k][p] : p \in E}]
        /\ pend' = [pend EXCEPT ![k] = [p \in Peers |-> IF p \in E THEN {} ELSE @[p]]]
        /\ Exit(k, "timeout") \/ (Pend(k) /\ UNCHANGED endVars)
    BY <2>2b, <2>2c, Zenon
  <2>3. QueueInv'
    <3> DEFINE S == [j \in Kinds |-> IF j = k THEN E ELSE {}]
    <3>0. /\ tasks \in [Kinds -> SUBSET Blocks]
          /\ pend \in [Kinds -> [Peers -> SUBSET Blocks]]
      BY Zenon DEF QueueInv, QueueType
    <3>1. S \in [Kinds -> SUBSET Peers] /\ k \in Kinds
      BY <2>2, Zenon
    <3>2. tasks' = [j \in Kinds |-> tasks[j] \cup UNION {pend[j][q] : q \in S[j]}]
      BY <2>2, <3>0
    <3>3. pend' = [j \in Kinds |-> [q \in Peers |-> IF q \in S[j] THEN {} ELSE pend[j][q]]]
      BY <2>2, <3>0
    <3> HIDE DEF S
    <3> QED
      BY <2>1, <3>1, <3>2, <3>3, RequestsReturn, Zenon
  <2>4. RoundInv'
    BY <2>2, GotoRound, PendRound, Zenon DEF Exit
  <2>5. RetInv'
    BY <2>2, <1>0, RetReturn, RetKept, Zenon DEF Exit
  <2> QED
    BY <2>1, <2>3, <2>4, <2>5, HeaderKept, ContentKept, Zenon
<1>5. ASSUME Assign(k) PROVE Inv'
  <2>1. UNCHANGED <<sync, offset, limit, scheduled, peers, headerVars, contentVars>>
    BY <1>5, Zenon DEF Assign, ctrlVars
  <2>2. PICK p \in round[k].idles :
          IF ResultSlots(k) <= 0 \/ tasks[k] = {}
          THEN /\ Assigning(k, [round[k] EXCEPT !.idles = {},
                                                !.throttled = ResultSlots(k) <= 0])
               /\ UNCHANGED <<tasks, pend, done, left, busy, net, endVars>>
          ELSE \E n \in Capacities : Reserve(k, p, n)
    BY <1>5, Zenon DEF Assign
  <2>3. p \in Peers /\ "idles" \in DOMAIN round[k] /\ round[k].idles \subseteq Peers
    BY <2>2, Zenon DEF RoundInv
  <2>4. CASE ResultSlots(k) <= 0 \/ tasks[k] = {}
    <3> DEFINE r == [round[k] EXCEPT !.idles = {}, !.throttled = ResultSlots(k) <= 0]
    <3>1. "idles" \in DOMAIN r /\ r.idles = {}
      BY <2>3, Zenon
    <3>2. Assigning(k, r) /\ UNCHANGED <<tasks, pend, done, left, endVars>>
      BY <2>2, <2>4, Zenon
    <3> HIDE DEF r
    <3>3. RoundInv'
      BY <2>1, <3>1, <3>2, AssigningRound, Zenon
    <3> QED
      BY <2>1, <3>2, <3>3, QueueKept, HeaderKept, ContentKept, RetKept, Zenon DEF queueVars
  <2>5. CASE ~(ResultSlots(k) <= 0 \/ tasks[k] = {})
    <3>1. PICK n \in Capacities : Reserve(k, p, n)
      BY <2>2, <2>5, Zenon
    <3>2. /\ QueueInv'
          /\ (IF pend[k][p] = {} THEN Popped(k, p, n) ELSE {}) \subseteq Cache
      BY <2>1, <2>3, <3>1, ReserveQueue, Zenon
    <3>3. PICK noop, sent :
            /\ Assigning(k, [round[k] EXCEPT
                                !.idles = @ \ {p},
                                !.progressed = @ \/ noop # {},
                                !.running = @ \/ sent # {}])
            /\ UNCHANGED endVars
      BY <3>1, <3>2, Zenon DEF Reserve
    <3> DEFINE r == [round[k] EXCEPT
                        !.idles = @ \ {p},
                        !.progressed = @ \/ noop # {},
                        !.running = @ \/ sent # {}]
    <3>4. "idles" \in DOMAIN r /\ r.idles \subseteq Peers
      BY <2>3, Zenon
    <3>5. Assigning(k, r)
      BY <3>3, Zenon
    <3> HIDE DEF r
    <3>6. RoundInv'
      BY <2>1, <3>4, <3>5, AssigningRound, Zenon
    <3> QED
      BY <2>1, <3>2, <3>3, <3>6, HeaderKept, ContentKept, RetKept, SMTT(20)
  <2> QED
    BY <2>4, <2>5, Zenon
<1> QED
  BY <1>1, <1>2, <1>3, <1>4, <1>5, Zenon DEF FetchParts

(* fetchHeaders: only the header channel and its own state move.           *)
LEMMA FetchHeadersStep ==
    ASSUME Inv, FetchHeaders
    PROVE  Inv'
<1> USE DEF Inv
<1>0. "headers" \in Routines /\ "headers" \notin Kinds
  BY Zenon DEF Routines, Kinds
<1>1. UNCHANGED <<sync, done, left, offset, limit, scheduled, contentVars, round, schedule>>
  BY Zenon DEF FetchHeaders, HeadersCanceled, HeadersArrive, HeadersEnd, HeadersInvalid,
         HeadersTimeout, HeadersWake, HeadersLast, queueVars, ctrlVars
<1>2. QueueInv' /\ RoundInv'
  <2>1. UNCHANGED queueVars /\ peers' \in {peers, peers \ {Master}}
    BY Zenon DEF FetchHeaders, HeadersCanceled, HeadersArrive, HeadersEnd, HeadersInvalid,
                 HeadersTimeout, HeadersWake, HeadersLast, Unregister, peerVars
  <2> QED
    BY <1>1, <2>1, QueueKept, RoundKept, Zenon
<1>3. RetInv'
  <2>1. UNCHANGED endVars \/ \E r : Return("headers", r)
    BY Zenon DEF FetchHeaders, HeadersCanceled, HeadersArrive, HeadersEnd, HeadersInvalid,
           HeadersTimeout, HeadersWake, HeadersLast, HeadersReturn
  <2> QED
    BY <1>0, <2>1, RetKept, RetReturn, Zenon
<1>4. HeaderInv'
  <2>1. CASE HeadersArrive
    <3>1. sync.headers \in 0..N /\ MaxFetch \in Nat /\ headers.sent \in Nat
      BY SizesAssumption DEF QueueInv, QueueType, Scenario, HeaderInv
    <3>2. /\ headers' = [headers EXCEPT !.sent = Least(sync.headers, headers.sent + MaxFetch)]
          /\ headerProc' = <<headers'.sent>> /\ headers.sent < sync.headers
      BY <2>1, Zenon DEF HeadersArrive
    <3>3. /\ DOMAIN headers' = {"pc", "sent"} /\ headers'.sent \in 0..N
          /\ headers.sent <= headers'.sent
      BY <3>1, <3>2, BlocksAssumption DEF HeaderInv, Least
    <3>4. schedule.last \in 0..headers'.sent /\ scheduled <= headers'.sent
      BY <3>1, <3>3, BlocksAssumption DEF HeaderInv, QueueInv, QueueType
    <3> QED
      BY <1>1, <3>2, <3>3, <3>4, Zenon DEF HeaderInv
  <2>2. CASE ~HeadersArrive
    <3>1. \E pc : headers' = [headers EXCEPT !.pc = pc]
      BY <2>2, Zenon DEF FetchHeaders, HeadersCanceled, HeadersEnd, HeadersInvalid,
                  HeadersTimeout, HeadersWake, HeadersLast, HeadersReturn
    <3>2. DOMAIN headers' = {"pc", "sent"} /\ headers'.sent = headers.sent
      BY <3>1, Zenon DEF HeaderInv
    <3>3. headerProc' = headerProc \/ headerProc' = <<0>>
      BY <2>2, Zenon DEF FetchHeaders, HeadersCanceled, HeadersEnd, HeadersInvalid,
                  HeadersTimeout, HeadersWake, HeadersLast
    <3> QED
      BY <1>1, <3>2, <3>3, Zenon DEF HeaderInv
  <2> QED
    BY <2>1, <2>2, Zenon
<1> QED
  BY <1>1, <1>2, <1>3, <1>4, ContentKept, Zenon

(* processHeaders: headers are scheduled in order, once.                   *)
LEMMA ProcessHeadersStep ==
    ASSUME Inv, ProcessHeaders
    PROVE  Inv'
<1> USE DEF Inv
<1>0. "schedule" \in Routines /\ "schedule" \notin Kinds
  BY Zenon DEF Routines, Kinds
<1>1. UNCHANGED <<sync, offset, limit, peers, contentVars, round, headers>>
  BY Zenon DEF ProcessHeaders, ScheduleCanceled, ScheduleTake, ScheduleChunk, ScheduleWake,
         ScheduleEnd, Schedule, queueVars, ctrlVars, peerVars
<1>2. RetInv'
  <2>1. UNCHANGED endVars \/ \E r : Return("schedule", r)
    BY Zenon DEF ProcessHeaders, ScheduleCanceled, ScheduleTake, ScheduleChunk, ScheduleWake,
           ScheduleEnd, ScheduleReturn
  <2> QED
    BY <1>0, <2>1, RetKept, RetReturn, Zenon
<1>3. QueueInv' /\ HeaderInv'
  <2>1. CASE ScheduleTake
    <3>1. /\ headerProc # <<>> /\ headerProc' = <<>> /\ UNCHANGED queueVars
          /\ schedule' = [pc |-> IF Head(headerProc) = 0 THEN "body" ELSE "chunk",
                          last |-> Head(headerProc),
                          got |-> schedule.got \/ Head(headerProc) # 0]
      BY <2>1, Zenon DEF ScheduleTake
    <3>2. Head(headerProc) = 0 \/ Head(headerProc) = headers.sent
      BY <3>1 DEF HeaderInv
    <3>3. /\ DOMAIN schedule' = {"pc", "last", "got"}
          /\ schedule'.last = Head(headerProc)
          /\ schedule'.pc = "chunk" => Head(headerProc) # 0
      BY <3>1, Zenon
    <3>4. HeaderInv'
      BY <1>1, <3>1, <3>2, <3>3, BlocksAssumption DEF HeaderInv, queueVars
    <3> QED
      BY <1>1, <3>1, <3>4, QueueKept, Zenon
  <2>2. CASE ScheduleChunk
    <3> DEFINE top == Least(schedule.last, scheduled + MaxHeaders)
    <3>1. /\ schedule.pc = "chunk" /\ UNCHANGED headerProc
          /\ \/ Schedule(top) /\ \E pc : schedule' = [schedule EXCEPT !.pc = pc]
             \/ /\ \E broken \in scheduled + 1 .. top : Schedule(broken - 1)
                /\ schedule' = [schedule EXCEPT !.pc = "exit"]
             \/ UNCHANGED queueVars /\ schedule' = [schedule EXCEPT !.pc = "exit"]
      BY <2>2, Zenon DEF ScheduleChunk, ScheduleReturn
    <3>2. /\ scheduled \in Nat /\ schedule.last \in Nat /\ MaxHeaders \in Nat
          /\ scheduled <= top /\ top <= schedule.last /\ top \in 0..N
      <4>1. /\ scheduled \in 0..N /\ scheduled <= schedule.last
            /\ headers.sent \in 0..N /\ schedule.last \in 0..headers.sent
        BY <3>1, Zenon DEF QueueInv, QueueType, HeaderInv
      <4>2. MaxHeaders \in Nat /\ N \in Nat
        BY SizesAssumption, BlocksAssumption, Zenon
      <4>3. top = IF schedule.last < scheduled + MaxHeaders THEN schedule.last
                                                            ELSE scheduled + MaxHeaders
        BY Zenon DEF Least
      <4> HIDE DEF top
      <4>4. scheduled \in Nat /\ headers.sent \in Nat /\ schedule.last \in Nat
        BY <4>1, <4>2
      <4>5. scheduled <= top /\ top <= schedule.last /\ top \in Nat
        BY <4>1, <4>2, <4>3, <4>4
      <4>6. top \in 0..N
        BY <4>1, <4>2, <4>4, <4>5
      <4> QED BY <4>2, <4>4, <4>5, <4>6, Zenon
    <3>3. DOMAIN schedule' = {"pc", "last", "got"} /\ schedule'.last = schedule.last
      BY <3>1, Zenon DEF HeaderInv
    <3> HIDE DEF top
    <3>4. \/ UNCHANGED queueVars
          \/ \E n \in 0..N : scheduled <= n /\ n <= top /\ Schedule(n)
      <4>1. ASSUME NEW broken \in scheduled + 1 .. top, Schedule(broken - 1)
            PROVE  \E n \in 0..N : scheduled <= n /\ n <= top /\ Schedule(n)
        <5>1. broken - 1 \in 0..N /\ scheduled <= broken - 1 /\ broken - 1 <= top
          BY <3>2, BlocksAssumption
        <5> QED
          BY <4>1, <5>1, Zenon
      <4>2. top <= top
        BY <3>2
      <4> QED
        BY <3>1, <3>2, <4>1, <4>2, Zenon
    <3>5. QueueInv' /\ scheduled' <= top
      BY <1>1, <3>2, <3>4, QueueKept, ScheduleQueue, Zenon DEF Schedule, queueVars
    <3>6. HeaderInv'
      BY <1>1, <3>1, <3>2, <3>3, <3>5, BlocksAssumption DEF HeaderInv, QueueInv, QueueType
    <3> QED
      BY <3>5, <3>6, Zenon
  <2>3. CASE ScheduleCanceled \/ ScheduleWake \/ ScheduleEnd
    <3>1. /\ UNCHANGED <<queueVars, headerProc>>
          /\ \E pc : pc # "chunk" /\ schedule' = [schedule EXCEPT !.pc = pc]
      BY <2>3, Zenon DEF ScheduleCanceled, ScheduleWake, ScheduleEnd, ScheduleReturn
    <3>2. /\ DOMAIN schedule' = {"pc", "last", "got"} /\ schedule'.last = schedule.last
          /\ schedule'.pc # "chunk"
      BY <3>1, Zenon DEF HeaderInv
    <3>3. HeaderInv'
      BY <1>1, <3>1, <3>2, Zenon DEF HeaderInv, queueVars
    <3> QED
      BY <1>1, <3>1, <3>3, QueueKept, Zenon
  <2> QED
    BY <2>1, <2>2, <2>3, Zenon DEF ProcessHeaders
<1> QED
  BY <1>1, <1>2, <1>3, ContentKept, RoundKept, Zenon

(* processContent takes the finished results: the window moves past them.  *)
LEMMA ContentResultsStep ==
    ASSUME Inv, ContentResults
    PROVE  QueueInv' /\ ContentInv'
<1> USE DEF Inv
<1> DEFINE n == Least(Cardinality(Processable), MaxResults)
<1>1. /\ offset' = offset + n
      /\ done' = [k \in Kinds |-> {b \in done[k] : b >= offset + n}]
      /\ limit' \in IF n > 0 THEN Limits ELSE {limit}
      /\ UNCHANGED <<tasks, pend, left, scheduled, committed, state, imported, sync>>
  BY Zenon DEF ContentResults, ctrlVars
<1>2. \/ content' = [content EXCEPT !.pc = "exit"]
      \/ sync.mode # "full" /\ content' = [content EXCEPT !.pc = "commit"]
      \/ sync.mode = "full" /\ content' = [content EXCEPT !.pc = "import"]
  BY Zenon DEF ContentResults, ContentReturn
<1>3. n \in Nat /\ n <= Cardinality(Processable)
  <2>1. Processable \subseteq Blocks
    BY Zenon DEF Processable
  <2>2. Cardinality(Processable) \in Nat
    BY <2>1, FiniteBlocks, Zenon
  <2> QED
    BY <2>2, SizesAssumption DEF Least
<1>4. limit' \in Limits
  BY <1>1, Zenon DEF QueueInv, QueueType
<1> HIDE DEF n
<1>5. QueueInv'
  BY <1>1, <1>3, <1>4, ResultsQueue, Zenon
<1>6. offset \in Nat /\ offset' >= offset
  BY <1>1, <1>3 DEF QueueInv, QueueType
<1>7. /\ DOMAIN content' = {"pc", "pivot", "locked"}
      /\ content'.pivot = content.pivot /\ content'.locked = content.locked
      /\ content'.pc # "pivot" /\ (content'.pc = "import" => sync.mode = "full")
  BY <1>2, Zenon DEF ContentInv
<1>8. ContentInv'
  BY <1>1, <1>6, <1>7, PartsSame DEF ContentInv, QueueInv, QueueType
<1> QED
  BY <1>5, <1>8, Zenon

(* processContent writes the results below the pivot.                      *)
LEMMA ContentCommitStep ==
    ASSUME Inv, ContentCommit
    PROVE  ContentInv'
<1> USE DEF Inv
<1> DEFINE below == LastBelowPivot
<1>1. UNCHANGED <<sync, offset, committed>>
  BY Zenon DEF ContentCommit, queueVars
<1>2. FirstPivot' = FirstPivot
  BY <1>1, PartsSame, Zenon
<1>3. CASE content' = [content EXCEPT !.pc = "exit"] /\ UNCHANGED <<state, imported>>
  <2>1. /\ DOMAIN content' = {"pc", "pivot", "locked"}
        /\ content'.pivot = content.pivot /\ content'.locked = content.locked
        /\ content'.pc = "exit"
    BY <1>3, Zenon DEF ContentInv
  <2> QED
    BY <1>1, <1>2, <1>3, <2>1, Zenon DEF ContentInv
<1>4. ASSUME imported' = (IF below > imported THEN below ELSE imported),
             IF imported' < Pivot /\ Pivot < offset
             THEN /\ content' = [pc |-> "pivot", pivot |-> Pivot, locked |-> Pivot]
                  /\ state' = Restart(Pivot)
             ELSE /\ content' = [content EXCEPT !.pc = "import", !.pivot = Pivot]
                  /\ UNCHANGED state
      PROVE  ContentInv'
  <2>1. /\ offset \in Nat /\ imported \in Nat /\ content.pivot \in Nat /\ FullBlocks \in Nat
        /\ imported < offset /\ content.locked \in Nat
    BY SizesAssumption, Zenon DEF QueueInv, QueueType, ContentInv
  <2>2. /\ Pivot \in Nat /\ content.pivot <= Pivot
        /\ Pivot # content.pivot => ~committed /\ Pivot < offset
    BY <2>1 DEF Pivot
  <2>3. below = IF offset < Pivot THEN offset - 1 ELSE Pivot - 1
    BY <2>1, <2>2, Zenon DEF LastBelowPivot, Least
  <2> HIDE DEF below
  <2>4. CASE committed
    <3>1. Pivot = content.pivot /\ content.pivot <= imported
      BY <2>2, <2>4, Zenon DEF ContentInv
    <3>2. imported' = imported
      BY <1>4, <2>1, <2>3, <3>1
    <3>3. content' = [content EXCEPT !.pc = "import", !.pivot = Pivot] /\ UNCHANGED state
      BY <1>4, <2>1, <3>1, <3>2
    <3>4. /\ DOMAIN content' = {"pc", "pivot", "locked"} /\ content'.pc = "import"
          /\ content'.pivot = content.pivot /\ content'.locked = content.locked
      BY <3>1, <3>3, Zenon DEF ContentInv
    <3> QED
      BY <1>1, <1>2, <2>4, <3>2, <3>3, <3>4, Zenon DEF ContentInv
  <2>5. CASE ~committed
    <3>1. /\ imported' \in Nat /\ imported' < Pivot /\ imported' < offset
          /\ imported < content.pivot
      BY <1>4, <2>1, <2>2, <2>3, <2>5, SMTT(20) DEF ContentInv
    <3>2. CASE Pivot < offset
      <4>1. /\ content' = [pc |-> "pivot", pivot |-> Pivot, locked |-> Pivot]
            /\ state' = Restart(Pivot)
        BY <1>4, <3>1, <3>2, Zenon
      <4>2. DOMAIN state' = {"root", "pc"} /\ state'.root = Pivot
        BY <2>1, <2>2, <3>1, <4>1 DEF Restart, ContentInv
      <4>3. /\ DOMAIN content' = {"pc", "pivot", "locked"} /\ content'.pc = "pivot"
            /\ content'.pivot = Pivot /\ content'.locked = Pivot
        BY <4>1, Zenon
      <4> QED
        BY <1>1, <1>2, <2>2, <2>5, <3>1, <3>2, <4>2, <4>3, SMTT(20) DEF ContentInv
    <3>3. CASE ~(Pivot < offset)
      <4>1. Pivot = content.pivot
        BY <2>2, <3>3, Zenon
      <4>2. content.locked = 0
        BY <3>3, <4>1, <2>1, Zenon DEF ContentInv
      <4>3. content' = [content EXCEPT !.pc = "import", !.pivot = Pivot] /\ UNCHANGED state
        BY <1>4, <3>3, Zenon
      <4>4. /\ DOMAIN content' = {"pc", "pivot", "locked"} /\ content'.pc = "import"
            /\ content'.pivot = content.pivot /\ content'.locked = 0
        BY <4>1, <4>2, <4>3, Zenon DEF ContentInv
      <4>5. offset <= content.pivot
        BY <2>1, <3>3, <4>1
      <4> QED
        BY <1>1, <1>2, <2>5, <3>1, <4>1, <4>3, <4>4, <4>5, SMTT(20) DEF ContentInv
    <3> QED
      BY <3>2, <3>3, Zenon
  <2> QED
    BY <2>4, <2>5, Zenon DEF ContentInv
<1>5. \/ content' = [content EXCEPT !.pc = "exit"] /\ UNCHANGED <<state, imported>>
      \/ /\ imported' = (IF below > imported THEN below ELSE imported)
         /\ IF imported' < Pivot /\ Pivot < offset
            THEN /\ content' = [pc |-> "pivot", pivot |-> Pivot, locked |-> Pivot]
                 /\ state' = Restart(Pivot)
            ELSE /\ content' = [content EXCEPT !.pc = "import", !.pivot = Pivot]
                 /\ UNCHANGED state
  BY Zenon DEF ContentCommit, ContentReturn
<1> QED
  BY <1>3, <1>4, <1>5, Zenon

(* processContent, one step.                                               *)
LEMMA ProcessContentStep ==
    ASSUME Inv, ProcessContent
    PROVE  Inv'
<1> USE DEF Inv
<1>0. "content" \in Routines /\ "content" \notin Kinds
  BY Zenon DEF Routines, Kinds
<1>1. UNCHANGED <<sync, headerVars, peers, round, scheduled>>
  BY Zenon DEF ProcessContent, ContentResults, ContentCommit, ContentPivot, ContentImport,
         queueVars, ctrlVars, peerVars
<1>2. RetInv'
  <2>1. UNCHANGED endVars \/ \E r : Return("content", r)
    BY Zenon DEF ProcessContent, ContentResults, ContentCommit, ContentPivot, ContentImport,
           ContentReturn
  <2> QED
    BY <1>0, <2>1, RetKept, RetReturn, Zenon
<1>3. ASSUME UNCHANGED queueVars, ContentInv' PROVE Inv'
  BY <1>1, <1>2, <1>3, QueueKept, HeaderKept, RoundKept, Zenon
<1>4. CASE ContentResults
  BY <1>1, <1>2, <1>4, ContentResultsStep, HeaderKept, RoundKept, Zenon
<1>5. CASE ContentCommit
  <2>1. UNCHANGED queueVars
    BY <1>5, Zenon DEF ContentCommit
  <2> QED
    BY <1>3, <1>5, <2>1, ContentCommitStep, Zenon
<1>6. CASE ContentPivot
  <2>1. UNCHANGED <<queueVars, state, offset>>
    BY <1>6, Zenon DEF ContentPivot, queueVars
  <2>2. FirstPivot' = FirstPivot
    BY <1>1, PartsSame, Zenon
  <2>3. content.pc = "pivot" /\ content.locked # 0 /\ ~committed
    BY <1>6, Zenon DEF ContentPivot, ContentInv
  <2>4. /\ content.locked = content.pivot /\ content.pivot < offset
        /\ state.root = content.pivot /\ content.pivot \in Nat
    BY <2>3, Zenon DEF ContentInv
  <2>5. CASE /\ state.pc = "ok" /\ imported' = content.pivot /\ committed' = TRUE
             /\ content' = [content EXCEPT !.pc = "import", !.locked = 0]
    <3>1. /\ DOMAIN content' = {"pc", "pivot", "locked"} /\ content'.pc = "import"
          /\ content'.pivot = content.pivot /\ content'.locked = 0
      BY <2>5, Zenon DEF ContentInv
    <3>2. ContentInv'
      BY <1>1, <2>1, <2>2, <2>4, <2>5, <3>1 DEF ContentInv
    <3> QED
      BY <1>3, <2>1, <3>2, Zenon
  <2>6. CASE /\ UNCHANGED <<imported, committed>>
             /\ \E pc \in {"exit", "results"} : content' = [content EXCEPT !.pc = pc]
    <3>1. /\ DOMAIN content' = {"pc", "pivot", "locked"} /\ content'.pc \in {"exit", "results"}
          /\ content'.pivot = content.pivot /\ content'.locked = content.locked
      BY <2>6, Zenon DEF ContentInv
    <3>2. ContentInv'
      BY <1>1, <2>1, <2>2, <2>6, <3>1, Zenon DEF ContentInv
    <3> QED
      BY <1>3, <2>1, <3>2
  <2> QED
    BY <1>6, <2>5, <2>6, Zenon DEF ContentPivot, ContentReturn
<1>7. CASE ContentImport
  <2>1. UNCHANGED <<queueVars, state, offset, committed>> /\ content.pc = "import"
    BY <1>7, Zenon DEF ContentImport, queueVars
  <2>2. FirstPivot' = FirstPivot
    BY <1>1, PartsSame
  <2>3. \E pc \in {"exit", "results"} : content' = [content EXCEPT !.pc = pc]
    BY <1>7, Zenon DEF ContentImport, ContentReturn
  <2>4. /\ DOMAIN content' = {"pc", "pivot", "locked"} /\ content'.pc \in {"exit", "results"}
        /\ content'.pivot = content.pivot /\ content'.locked = content.locked
    BY <2>3, Zenon DEF ContentInv
  <2>5. imported' = offset - 1 \/ imported' \in imported .. offset - 2
    BY <1>7, Zenon DEF ContentImport
  <2>6. imported' \in Nat /\ imported <= imported' /\ imported' < offset
    BY <2>5 DEF ContentInv, QueueInv, QueueType
  <2>7. ~committed => imported' < content.pivot
    BY <2>1, <2>6 DEF ContentInv, QueueInv, QueueType
  <2>8. committed => content.pivot <= imported'
    BY <2>6 DEF ContentInv
  <2>9. ContentInv'
    BY <1>1, <2>1, <2>2, <2>4, <2>6, <2>7, <2>8, Zenon DEF ContentInv
  <2> QED
    BY <1>3, <2>1, <2>9, Zenon
<1> QED
  BY <1>4, <1>5, <1>6, <1>7, Zenon DEF ProcessContent

(* The state sync, spawnSync, Cancel and the departure of a peer. *)
LEMMA OtherStep ==
    ASSUME Inv,
           \/ StateSync \/ SpawnReceive \/ SpawnReturn \/ Cancel \/ UnregisterPeer
           \/ (\E p \in Peers : Revoke(p)) \/ UNCHANGED vars
    PROVE  Inv'
<1> USE DEF Inv
<1>1. /\ UNCHANGED <<sync, done, left, offset, limit, scheduled, headerVars, round, ret>>
      /\ UNCHANGED <<content, committed, imported>>
  BY Zenon DEF StateSync, SpawnReceive, SpawnReturn, Cancel, UnregisterPeer, Revoke, vars,
         queueVars, headerVars, contentVars, endVars, ctrlVars
<1>2. RetInv'
  BY <1>1, Zenon DEF RetInv, SlotsInCache
<1>3. QueueInv' /\ RoundInv'
  <2>1. CASE \E p \in Peers : Revoke(p)
    <3>1. QueueInv'
      BY <2>1, RevokeQueue, Zenon
    <3>2. UNCHANGED peers
      BY <2>1, Zenon DEF Revoke
    <3> QED
      BY <1>1, <3>1, <3>2, RoundKept, Zenon
  <2>2. CASE ~\E p \in Peers : Revoke(p)
    <3>1. UNCHANGED queueVars /\ (UNCHANGED peers \/ \E p : peers' = peers \ {p})
      BY <2>2, Zenon DEF StateSync, SpawnReceive, SpawnReturn, Cancel, UnregisterPeer, Unregister,
                         vars, queueVars, peerVars
    <3>2. peers' \subseteq peers
      BY <3>1, Zenon
    <3> QED
      BY <1>1, <3>1, <3>2, QueueKept, RoundKept, Zenon
  <2> QED
    BY <2>1, <2>2, Zenon
<1>4. ContentInv'
  <2>1. CASE StateSync
    <3>1. state.pc = "run" /\ \E pc : state' = [state EXCEPT !.pc = pc]
      BY <2>1, Zenon DEF StateSync
    <3>2. DOMAIN state' = {"root", "pc"} /\ state'.root = state.root
      BY <3>1, Zenon DEF ContentInv
    <3>3. ~(committed /\ FirstPivot > 0)
      BY <3>1, Zenon DEF ContentInv
    <3>4. FirstPivot' = FirstPivot
      BY <1>1, PartsSame, Zenon
    <3> QED
      BY <1>1, <3>2, <3>3, <3>4, Zenon DEF ContentInv
  <2>2. CASE ~StateSync
    <3>1. UNCHANGED state
      BY <2>2, Zenon DEF SpawnReceive, SpawnReturn, Cancel, UnregisterPeer, Revoke, vars, contentVars
    <3> QED
      BY <1>1, <3>1, ContentKept, Zenon DEF contentVars
  <2> QED
    BY <2>1, <2>2, Zenon
<1> QED
  BY <1>1, <1>2, <1>3, <1>4, HeaderKept, Zenon

(* A sync starts with an empty queue and nothing imported.                 *)
LEMMA InvInit == Init => Inv
<1> SUFFICES ASSUME Init PROVE Inv
  BY Zenon
<1>1. sync \in Scenario
  BY ScenariosAssumption, Zenon DEF Init
<1>2. /\ tasks = [k \in Kinds |-> {}] /\ done = [k \in Kinds |-> {}]
      /\ pend = [k \in Kinds |-> [p \in Peers |-> {}]]
      /\ left = [b \in Blocks |-> -1] /\ offset = 1 /\ limit = sync.limit /\ scheduled = 0
  BY Zenon DEF Init
<1>3. HeaderInv
  <2>1. /\ headers = [pc |-> "fetch", sent |-> 0] /\ headerProc = <<>>
        /\ schedule = [pc |-> "take", last |-> 0, got |-> FALSE]
    BY Zenon DEF Init
  <2> QED
    BY <1>2, <2>1, BlocksAssumption DEF HeaderInv
<1>4. ContentInv
  <2>1. FirstPivot \in Nat /\ (sync.mode = "full" => FirstPivot = 0)
    BY <1>1, SizesAssumption DEF FirstPivot, Scenario
  <2>2. /\ content = [pc |-> "results", pivot |-> FirstPivot, locked |-> 0]
        /\ committed = (FirstPivot = 0) /\ state = [root |-> sync.height, pc |-> "run"]
        /\ imported = 0
    BY Zenon DEF Init
  <2>3. committed \in BOOLEAN /\ (committed <=> FirstPivot = 0)
    BY <2>2, Zenon
  <2>4. /\ content.pivot = FirstPivot /\ content.locked = 0 /\ content.pc = "results"
        /\ DOMAIN content = {"pc", "pivot", "locked"} /\ DOMAIN state = {"root", "pc"}
    BY <2>2, Zenon
  <2>5. imported = 0 /\ offset = 1
    BY <1>2, <2>2, Zenon
  <2>6. CASE FirstPivot = 0
    <3>1. committed
      BY <2>3, <2>6, Zenon
    <3> QED
      BY <2>1, <2>3, <2>4, <2>5, <2>6, <3>1 DEF ContentInv
  <2>7. CASE FirstPivot # 0
    <3>1. ~committed
      BY <2>3, <2>7, Zenon
    <3> QED
      BY <2>1, <2>3, <2>4, <2>5, <2>7, <3>1 DEF ContentInv
  <2> QED
    BY <2>6, <2>7, Zenon
<1>5. QueueInv
  <2>0. limit \in Limits
    BY <1>1, <1>2, Zenon DEF Scenario
  <2>1. QueueType
    BY <1>1, <1>2, <2>0, BlocksAssumption, LimitsAssumption DEF QueueType
  <2>2. \A k \in Kinds, b \in Blocks : b \notin tasks[k] /\ b \notin done[k] /\ ~Asked(k, b)
    BY <1>2, Zenon DEF Asked
  <2>3. Owned
    BY <1>2, <2>2, BlocksAssumption DEF Owned, Blocks, Asked
  <2>4. Slotted
    BY <1>2, <2>2 DEF Slotted
  <2> QED
    BY <2>1, <2>3, <2>4, Zenon DEF QueueInv
<1>6. RoundInv
  <2>1. round = [k \in Kinds |-> NoRound] /\ peers = sync.peers
    BY Zenon DEF Init
  <2> QED
    BY <1>1, <2>1, Zenon DEF RoundInv, NoRound, Scenario
<1>7. RetInv
  BY Zenon DEF Init, RetInv, SlotsInCache, Routines
<1> QED
  BY <1>3, <1>4, <1>5, <1>6, <1>7, Zenon DEF Inv

(* Every step keeps the invariant.                                         *)
LEMMA InvNext == Inv /\ [Next]_vars => Inv'
  BY FetchPartsStep, FetchHeadersStep, ProcessHeadersStep, ProcessContentStep, OtherStep, Zenon
  DEF Next, Returned

(* The invariant holds in every state.                                     *)
LEMMA InvAlways == Spec => []Inv
<1>1. Init => Inv
  BY InvInit, Zenon
<1>2. Inv /\ [Next]_vars => Inv'
  BY InvNext, Zenon
<1> QED
  BY <1>1, <1>2, PTL DEF Spec

-----------------------------------------------------------------------------
(* The owners of a part, counted *)

LEMMA OneOwner ==
    ASSUME QueueInv, NEW k \in Parts, NEW b \in Blocks
    PROVE  Cardinality({o \in Peers : b \in pend[k][o]})
             + (IF b \in tasks[k] THEN 1 ELSE 0) + (IF b \in done[k] THEN 1 ELSE 0)
             + (IF b < offset THEN 1 ELSE 0) = IF b <= scheduled THEN 1 ELSE 0
<1> DEFINE O == {o \in Peers : b \in pend[k][o]}
<1>1. k \in Kinds /\ b \in Nat /\ offset \in Nat /\ scheduled \in Nat /\ offset <= scheduled + 1
  BY BlocksAssumption DEF Parts, Kinds, Blocks, QueueInv, QueueType
<1>2. Asked(k, b) => Cardinality(O) = 1
  <2> SUFFICES ASSUME Asked(k, b) PROVE Cardinality(O) = 1
    BY Zenon
  <2>1. PICK p \in Peers : b \in pend[k][p]
    BY Zenon DEF Asked
  <2>2. O = {p}
    BY <1>1, <2>1, Zenon DEF QueueInv, Owned
  <2> QED
    BY <2>2, FS_Singleton, Zenon
<1>3. ~Asked(k, b) => Cardinality(O) = 0
  <2> SUFFICES ASSUME ~Asked(k, b) PROVE Cardinality(O) = 0
    BY Zenon
  <2>1. O = {}
    BY Zenon DEF Asked
  <2> QED
    BY <2>1, FS_EmptySet, Zenon
<1>4. /\ b \in tasks[k] \/ b \in done[k] \/ Asked(k, b) <=> offset <= b /\ b <= scheduled
      /\ b \in tasks[k] => b \notin done[k] /\ ~Asked(k, b)
      /\ b \in done[k] => ~Asked(k, b)
  BY <1>1, Zenon DEF QueueInv, Owned
<1> HIDE DEF O
<1>5. Cardinality(O) + (IF b \in tasks[k] THEN 1 ELSE 0) + (IF b \in done[k] THEN 1 ELSE 0)
        + (IF b < offset THEN 1 ELSE 0) = IF b <= scheduled THEN 1 ELSE 0
  BY <1>1, <1>2, <1>3, <1>4
<1> QED
  BY <1>5, Zenon DEF O

(* resultCache counts the parts a block still misses.                      *)
LEMMA MissingCounted ==
    ASSUME NEW b
    PROVE  Cardinality({k \in Parts : b \notin done[k]}) = Missing(b)
<1> DEFINE U == {k \in Parts : b \notin done[k]}
<1>1. Cardinality({}) = 0 /\ Cardinality({"body"}) = 1 /\ Cardinality({"receipt"}) = 1
  BY FS_EmptySet, FS_Singleton, Zenon
<1>2. Cardinality({"body", "receipt"}) = 2
  <2>1. IsFiniteSet({"body"}) /\ Cardinality({"body"}) = 1
    BY FS_Singleton, Zenon
  <2>2. Cardinality({"body"} \cup {"receipt"}) = 2
    BY <2>1, FS_AddElement
  <2>3. {"body"} \cup {"receipt"} = {"body", "receipt"}
    BY Zenon
  <2> QED
    BY <2>2, <2>3, Zenon
<1>3. CASE sync.mode = "fast"
  <2>1. U = {k \in {"body", "receipt"} : b \notin done[k]}
    BY <1>3, Zenon DEF Parts, Kinds
  <2>2. CASE b \in done["body"] /\ b \in done["receipt"]
    <3>1. U = {}
      BY <2>1, <2>2, Zenon
    <3>2. Cardinality(U) = 0
      BY <1>1, <3>1, Zenon
    <3>3. Missing(b) = 0
      BY <2>2 DEF Missing
    <3> QED
      BY <3>2, <3>3, Zenon
  <2>3. CASE b \in done["body"] /\ b \notin done["receipt"]
    <3>1. U = {"receipt"}
      BY <2>1, <2>3, Zenon
    <3> QED
      BY <1>1, <1>3, <2>3, <3>1 DEF Missing
  <2>4. CASE b \notin done["body"] /\ b \in done["receipt"]
    <3>1. U = {"body"}
      BY <2>1, <2>4, Zenon
    <3> QED
      BY <1>1, <1>3, <2>4, <3>1 DEF Missing
  <2>5. CASE b \notin done["body"] /\ b \notin done["receipt"]
    <3>1. U = {"body", "receipt"}
      BY <2>1, <2>5, Zenon
    <3> QED
      BY <1>2, <1>3, <2>5, <3>1 DEF Missing
  <2> QED
    BY <2>2, <2>3, <2>4, <2>5, Zenon
<1>4. CASE sync.mode # "fast"
  <2>1. CASE b \in done["body"]
    <3>1. U = {}
      BY <1>4, <2>1, Zenon DEF Parts
    <3>2. Cardinality(U) = 0
      BY <1>1, <3>1, Zenon
    <3>3. Missing(b) = 0
      BY <1>4, <2>1 DEF Missing
    <3> QED
      BY <3>2, <3>3, Zenon
  <2>2. CASE b \notin done["body"]
    <3>1. U = {"body"}
      BY <1>4, <2>2, Zenon DEF Parts
    <3>2. Cardinality(U) = 1
      BY <1>1, <3>1, Zenon
    <3>3. Missing(b) = 1
      BY <1>4, <2>2 DEF Missing
    <3> QED
      BY <3>2, <3>3, Zenon
  <2> QED
    BY <2>1, <2>2, Zenon
<1> QED
  BY <1>3, <1>4, Zenon

(* For any number of peers, blocks and slots: no part of a scheduled block  *)
(* is lost, requested from two peers at once or delivered twice, and every  *)
(* slot counts what is missing (queue.go: reserveHeaders, deliver, expire,  *)
(* Revoke, Results).                                                        *)
THEOREM PartsHaveOwners == Spec => []PartsOwned
<1>1. Inv => PartsOwned
  <2> SUFFICES ASSUME QueueInv PROVE PartsOwned
    BY Zenon DEF Inv
  <2>1. ASSUME NEW b \in offset..N
        PROVE  left[b] = IF left[b] < 0 THEN -1
                         ELSE Cardinality({k \in Parts : b \notin done[k]})
    <3>1. b \in Blocks /\ b >= offset
      BY BlocksAssumption DEF QueueInv, QueueType, Blocks
    <3>2. left[b] = -1 \/ left[b] = Missing(b)
      BY <3>1, Zenon DEF QueueInv, Slotted
    <3> QED
      BY <3>2, MissingCounted, MissingType
  <2> QED
    BY <2>1, OneOwner, Zenon DEF PartsOwned
<1> QED
  BY <1>1, InvAlways, PTL

(* For any cache size, any memory limits and however they change, no        *)
(* reservation goes beyond the result cache and no delivery misses its slot *)
(* (queue.go: resultSlots, reserveHeaders, deliver).                        *)
THEOREM ReservationsFit == Spec => []SlotsInCache
<1>1. Inv => SlotsInCache
  BY Zenon DEF Inv, RetInv
<1> QED
  BY <1>1, InvAlways, PTL

(* However often the pivot moves, nothing above it is imported before it is *)
(* the head, and it becomes the head with its own state                     *)
(* (processFastSyncContent, commitPivotBlock).                              *)
THEOREM PivotCommittedWithState == Spec => []PivotHasState
<1>1. Inv => PivotHasState
  BY Zenon DEF Inv, ContentInv, PivotHasState
<1> QED
  BY <1>1, InvAlways, PTL

-----------------------------------------------------------------------------
(* Refinement *)

(* The blocks that are whole. *)
Whole == {b \in 1..scheduled : \A k \in Parts : b < offset \/ b \in done[k]}

(* Taking results changes where whole blocks are kept, not which they are. *)
LEMMA WholeKept ==
    ASSUME Inv, UNCHANGED sync, scheduled' >= scheduled, scheduled' \in Nat,
           \/ UNCHANGED <<offset, done>>
           \/ UNCHANGED scheduled /\ ContentResults
    PROVE  Whole' = Whole
<1>0. /\ scheduled \in Nat /\ offset \in Nat /\ offset <= scheduled + 1 /\ QueueInv
      /\ Parts' = Parts /\ "body" \in Parts /\ Parts \subseteq Kinds
  BY PartsSame DEF Inv, QueueInv, QueueType, Parts, Kinds
<1>1. CASE UNCHANGED <<offset, done>>
  <2>1. \A b \in 1..scheduled' : b \notin 1..scheduled => ~(b < offset) /\ b \notin done["body"]
    <3> SUFFICES ASSUME NEW b \in 1..scheduled', b \notin 1..scheduled
                 PROVE  ~(b < offset) /\ b \notin done["body"]
      BY Zenon
    <3>1. b > scheduled /\ b \in Nat
      BY <1>0
    <3>2. ~(b < offset)
      BY <1>0, <3>1
    <3>3. b \notin done["body"]
      BY <1>0, <3>1, BlocksAssumption DEF QueueInv, QueueType, Owned, Blocks
    <3> QED
      BY <3>2, <3>3, Zenon
  <2>2. \A b \in 1..scheduled : b \in 1..scheduled'
    BY <1>0
  <2> QED
    BY <1>0, <1>1, <2>1, <2>2, Zenon DEF Whole
<1>2. CASE UNCHANGED scheduled /\ ContentResults
  <2> DEFINE n == Least(Cardinality(Processable), MaxResults)
  <2>1. /\ offset' = offset + n
        /\ done' = [k \in Kinds |-> {b \in done[k] : b >= offset + n}]
    BY <1>2, Zenon DEF ContentResults
  <2>2. n \in Nat /\ n <= Cardinality(Processable)
    <3>1. Processable \subseteq Blocks
      BY Zenon DEF Processable
    <3>2. Cardinality(Processable) \in Nat
      BY <3>1, FiniteBlocks, Zenon
    <3> QED
      BY <3>2, SizesAssumption DEF Least
  <2> HIDE DEF n
  <2>3. \A b \in offset .. offset + n - 1 : \A k \in Parts : b \in done[k]
    BY <1>0, <2>2, TakenAreDone, Zenon
  <2>4. ASSUME NEW b \in 1..scheduled, NEW k \in Parts
        PROVE  (b < offset' \/ b \in done'[k]) <=> (b < offset \/ b \in done[k])
    <3>1. b \in done'[k] <=> b \in done[k] /\ b >= offset + n
      BY <1>0, <2>1, Zenon
    <3>2. CASE b < offset
      BY <1>0, <2>1, <2>2, <3>2
    <3>3. CASE offset <= b /\ b < offset + n
      BY <1>0, <2>1, <2>2, <2>3, <3>3, SMTT(20)
    <3>4. CASE b >= offset + n
      BY <1>0, <2>1, <2>2, <3>1, <3>4
    <3> QED
      BY <1>0, <2>2, <3>2, <3>3, <3>4
  <2> QED
    BY <1>0, <1>2, <2>4, Zenon DEF Whole
<1> QED
  BY <1>1, <1>2, Zenon

(* The fetchers only add to the done pools. *)
LEMMA DoneGrows ==
    ASSUME Inv, NEW k \in Kinds, FetchParts(k)
    PROVE  /\ UNCHANGED <<sync, offset, scheduled, imported>>
           /\ \A j \in Kinds : done[j] \subseteq done'[j]
<1>0. done \in [Kinds -> SUBSET Blocks]
  BY Zenon DEF Inv, QueueInv, QueueType
<1>1. CASE Deliver(k)
  <2>1. UNCHANGED <<sync, imported>>
    BY <1>1, Zenon DEF Deliver, contentVars
  <2>2. UNCHANGED queueVars \/ \E p, A : Accept(k, p, A)
    BY <1>1, Zenon DEF Deliver
  <2>3. UNCHANGED <<offset, scheduled>> /\ \A j \in Kinds : done[j] \subseteq done'[j]
    <3>1. CASE UNCHANGED queueVars
      BY <3>1, Zenon DEF queueVars
    <3>2. ASSUME NEW p, NEW A, Accept(k, p, A)
          PROVE  UNCHANGED <<offset, scheduled>> /\ \A j \in Kinds : done[j] \subseteq done'[j]
      <4>1. CASE pend[k][p] = {}
        BY <3>2, <4>1, Zenon DEF Accept, queueVars
      <4>2. CASE pend[k][p] # {}
        <5>1. /\ done' = [done EXCEPT ![k] = @ \cup Matching(pend[k][p], A)]
              /\ UNCHANGED <<offset, scheduled>>
          BY <3>2, <4>2, Zenon DEF Accept
        <5> QED
          BY <1>0, <5>1, Zenon
      <4> QED
        BY <4>1, <4>2, Zenon
    <3> QED
      BY <2>2, <3>1, <3>2, Zenon
  <2> QED
    BY <2>1, <2>3, Zenon
<1>2. CASE Assign(k)
  <2>1. UNCHANGED <<sync, offset, scheduled, imported>>
    BY <1>2, ZenonT(30) DEF Assign, contentVars, ctrlVars
  <2>2. UNCHANGED done \/ \E D : done' = [done EXCEPT ![k] = @ \cup D]
    BY <1>2, ZenonT(30) DEF Assign, Reserve
  <2> QED
    BY <1>0, <2>1, <2>2, Zenon
<1>3. CASE ~(Deliver(k) \/ Assign(k))
  BY <1>3, Zenon DEF FetchParts, FetcherCanceled, FetcherWoken, Expire, NoPeers, CheckFlight,
              AssignEnd, queueVars, contentVars, ctrlVars
<1> QED
  BY <1>1, <1>2, <1>3, Zenon

(* The promise, completion and extension of the stream. *)
LEMMA StepRefines ==
    ASSUME Inv, Inv', [Next]_vars
    PROVE  [Stream!Promise \/ Stream!Complete \/ Stream!Extend]_<<scheduled, Whole, imported>>
<1>0. /\ scheduled \in Nat /\ offset \in Nat /\ imported \in Nat /\ offset <= scheduled + 1
      /\ imported' \in Nat /\ imported' < offset'
      /\ scheduled' \in Nat /\ offset' \in Nat /\ offset' <= scheduled' + 1
      /\ Parts \subseteq Kinds
  <2>1. QueueType /\ QueueType' /\ ContentInv /\ ContentInv'
    BY Zenon DEF Inv, QueueInv
  <2>2. Parts \subseteq Kinds
    BY Zenon DEF Parts, Kinds
  <2>3. scheduled \in Nat /\ offset \in Nat /\ imported \in Nat /\ offset <= scheduled + 1
    BY <2>1, BlocksAssumption DEF QueueType, ContentInv
  <2>4. /\ imported' \in Nat /\ imported' < offset'
        /\ scheduled' \in Nat /\ offset' \in Nat /\ offset' <= scheduled' + 1
    <3>1. scheduled' \in 0..N /\ offset' \in Nat /\ offset' <= scheduled' + 1
      BY <2>1, Zenon DEF QueueType
    <3>2. imported' \in Nat /\ imported' < offset'
      BY <2>1, Zenon DEF ContentInv
    <3>3. scheduled' \in Nat
      BY <3>1, BlocksAssumption
    <3> QED
      BY <3>1, <3>2, <3>3, Zenon
  <2> QED
    BY <2>2, <2>3, <2>4, Zenon
<1>1. CASE UNCHANGED <<sync, offset, done, scheduled, imported>>
  <2>1. Whole' = Whole
    BY <1>1, PartsSame, Zenon DEF Whole
  <2> QED
    BY <1>1, <2>1, Zenon
<1>2. ASSUME NEW k \in Kinds, FetchParts(k)
      PROVE  Stream!Complete
  <2>1. /\ UNCHANGED <<sync, offset, scheduled, imported>>
        /\ \A j \in Kinds : done[j] \subseteq done'[j]
    BY <1>2, DoneGrows, Zenon
  <2>2. Whole \subseteq Whole' /\ Whole' \subseteq 1..scheduled
    BY <1>0, <2>1, PartsSame, Zenon DEF Whole
  <2>3. \E B \in SUBSET (1..scheduled) : Whole' = Whole \cup B
    <3>1. Whole' = Whole \cup Whole'
      BY <2>2, Zenon
    <3> QED
      BY <2>2, <3>1, Zenon
  <2> QED
    BY <2>1, <2>3, Zenon DEF Stream!Complete, Whole
<1>3. CASE ProcessHeaders
  <2>1. UNCHANGED <<sync, offset, done, imported>>
    BY <1>3, Zenon DEF ProcessHeaders, ScheduleCanceled, ScheduleTake, ScheduleChunk, ScheduleWake,
                ScheduleEnd, Schedule, queueVars, ctrlVars, contentVars
  <2>2. scheduled' >= scheduled
    <3>1. CASE ScheduleChunk
      <4>1. /\ schedule.pc = "chunk"
            /\ \/ scheduled' = Least(schedule.last, scheduled + MaxHeaders)
               \/ \E broken \in scheduled + 1 .. Least(schedule.last, scheduled + MaxHeaders) :
                     scheduled' = broken - 1
               \/ UNCHANGED scheduled
        BY <3>1, Zenon DEF ScheduleChunk, Schedule, queueVars
      <4>2. scheduled <= schedule.last /\ schedule.last \in Nat /\ MaxHeaders \in Nat
        BY <4>1, SizesAssumption DEF Inv, HeaderInv
      <4> QED
        BY <1>0, <4>1, <4>2 DEF Least
    <3>2. CASE ~ScheduleChunk
      <4>1. UNCHANGED scheduled
        BY <1>3, <3>2, Zenon DEF ProcessHeaders, ScheduleCanceled, ScheduleTake, ScheduleWake,
                          ScheduleEnd, queueVars
      <4> QED
        BY <1>0, <4>1
    <3> QED
      BY <3>1, <3>2, Zenon
  <2>3. Whole' = Whole
    BY <1>0, <2>1, <2>2, WholeKept, Zenon
  <2>4. UNCHANGED scheduled \/ scheduled' > scheduled
    BY <1>0, <2>2
  <2> QED
    BY <1>0, <2>1, <2>3, <2>4, Zenon DEF Stream!Promise, Whole
<1>4. CASE ContentResults
  <2>1. UNCHANGED <<sync, scheduled, imported>>
    BY <1>4, Zenon DEF ContentResults, ctrlVars
  <2>2. Whole' = Whole
    BY <1>0, <1>4, <2>1, WholeKept
  <2> QED
    BY <2>1, <2>2, Zenon
<1>5. CASE ContentCommit \/ ContentPivot \/ ContentImport
  <2>1. UNCHANGED <<sync, offset, done, scheduled>>
    BY <1>5, Zenon DEF ContentCommit, ContentPivot, ContentImport, queueVars, ctrlVars
  <2>2. Whole' = Whole
    BY <2>1, PartsSame, Zenon DEF Whole
  <2>3. imported + 1 .. imported' \subseteq Whole
    BY <1>0, <2>1 DEF Whole
  <2>4. imported' = imported \/ imported' > imported
    <3>1. CASE ContentCommit
      <4>1. imported' = imported \/ imported' > imported
        BY <3>1, Zenon DEF ContentCommit
      <4> QED
        BY <4>1, Zenon
    <3>2. CASE ContentPivot
      <4>1. imported' = imported \/ (content.pc = "pivot" /\ imported' = content.pivot)
        BY <3>2, Zenon DEF ContentPivot
      <4>2. content.pc = "pivot" => imported < content.pivot
        BY Zenon DEF Inv, ContentInv
      <4> QED
        BY <1>0, <4>1, <4>2, Zenon
    <3>3. CASE ContentImport
      <4>1. imported' = offset - 1 \/ imported' \in imported .. offset - 2
        BY <3>3, Zenon DEF ContentImport
      <4>2. imported <= offset - 1
        BY <1>0 DEF Inv, ContentInv
      <4> QED
        BY <1>0, <4>1, <4>2
    <3> QED
      BY <1>5, <3>1, <3>2, <3>3, Zenon
  <2> QED
    BY <1>0, <2>1, <2>2, <2>3, <2>4, Zenon DEF Stream!Extend, Whole
<1>6. ASSUME FetchHeaders \/ StateSync \/ SpawnReceive \/ SpawnReturn \/ Cancel
             \/ UnregisterPeer \/ (\E p \in Peers : Revoke(p)) \/ UNCHANGED vars
      PROVE  UNCHANGED <<sync, offset, done, scheduled, imported>>
  BY <1>6, Zenon DEF FetchHeaders, HeadersCanceled, HeadersArrive, HeadersEnd, HeadersInvalid,
      HeadersTimeout, HeadersWake, HeadersLast, StateSync, SpawnReceive, SpawnReturn,
      Cancel, UnregisterPeer, Revoke, vars, queueVars, ctrlVars, contentVars
<1> QED
  BY <1>1, <1>2, <1>3, <1>4, <1>5, <1>6, Zenon DEF Next, Returned, ProcessContent

(* For any scenario the downloader implements the stream of whole blocks:   *)
(* a block enters the chain only after all of its parts were delivered and  *)
(* all blocks before it entered (Results, importBlockResults,               *)
(* commitFastSyncData, commitPivotBlock).                                   *)
THEOREM StreamRefinement == Spec => ImplementsStream
<1>1. Init => Stream!Init
  <2>1. Init => scheduled = 0 /\ imported = 0
    BY Zenon DEF Init
  <2> QED
    BY <2>1 DEF Stream!Init
<1>2. Inv /\ Inv' /\ [Next]_vars =>
        [Stream!Promise \/ Stream!Complete \/ Stream!Extend]_<<scheduled, Whole, imported>>
  BY StepRefines, Zenon
<1> QED
  BY <1>1, <1>2, InvAlways, PTL DEF Spec, ImplementsStream, Stream!Spec, Whole

=============================================================================
