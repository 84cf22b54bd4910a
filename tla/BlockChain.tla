----------------------------- MODULE BlockChain -----------------------------
(***************************************************************************)
(* The block chain of core/blockchain.go: what InsertChain and             *)
(* WriteBlockWithState write to the database, batch by batch, how the      *)
(* heavier chain is adopted, and what a restart finds.                     *)
(*                                                                         *)
(* chainmu admits one writer, so an operation is a sequence of steps, one  *)
(* per database batch; a crash may fall between any two of them, and       *)
(* readers see the database after each.  The markers in memory change with *)
(* the batch that stores them, and the fast block marker moves with the    *)
(* header marker, so one variable stands for each pair.  A block is its    *)
(* number, its weight and whether it holds the one transaction whose       *)
(* lookup entry is followed; its state is identified with the block.       *)
(* Future blocks, SetHead, Rollback and the freezer are left out.          *)
(***************************************************************************)
EXTENDS Integers, Sequences, FiniteSets

CONSTANTS
    Diffs,           \* difficulties; below block 39200 a block weighs its luck, which may be 0
    TriesInMemory,   \* TriesInMemory
    \* bounds
    MaxBlocks, MaxBatch, MaxUnseen, MaxCrashes, MaxStops

ASSUME ChainAssumption == /\ MaxBlocks \in Nat /\ MaxBatch \in Nat
                          /\ TriesInMemory \in Nat \ {0} /\ Diffs \subseteq Nat

VARIABLES
    parent, num, td, path, holds,                   \* the blocks made so far
    stored, canon, headBlock, headHeader, lookup,   \* database
    disk, mem,                                      \* states on disk, in memory
    op,                                             \* operation under chainmu
    crashes, stops, pruned, torn                    \* history

tree == <<parent, num, td, path, holds>>
vars == <<parent, num, td, path, holds, stored, canon, headBlock, headHeader,
          lookup, disk, mem, op, crashes, stops, pruned, torn>>
history == <<crashes, stops, pruned, torn>>

Genesis == 0
None == -1
Blocks == DOMAIN parent

Idle == [pc |-> "idle", batch |-> <<>>, block |-> Genesis, new |-> {}, old |-> {}]

(* A database with the genesis block.                                      *)
Init ==
    /\ parent = [b \in {Genesis} |-> Genesis]
    /\ num = [b \in {Genesis} |-> 0] /\ td = [b \in {Genesis} |-> 0]
    /\ path = [b \in {Genesis} |-> {Genesis}] /\ holds = {}
    /\ stored = {Genesis}
    /\ canon = [n \in 0..MaxBlocks |-> IF n = 0 THEN Genesis ELSE None]
    /\ headBlock = Genesis /\ headHeader = Genesis /\ lookup = None
    /\ disk = {Genesis} /\ mem = {}
    /\ op = Idle /\ crashes = 0 /\ stops = 0 /\ pruned = FALSE /\ torn = FALSE

(* A miner somewhere makes a block.  No chain executes a transaction twice.*)
Forge(p, d, x) ==
    LET b == Cardinality(Blocks)
        Extend(f, v) == [c \in Blocks \cup {b} |-> IF c = b THEN v ELSE f[c]]
    IN  /\ op.pc = "idle" /\ b <= MaxBlocks /\ Cardinality(Blocks \ stored) < MaxUnseen
        /\ x => path[p] \cap holds = {}
        /\ parent' = Extend(parent, p)
        /\ num' = Extend(num, num[p] + 1)
        /\ td' = Extend(td, td[p] + d)
        /\ path' = Extend(path, path[p] \cup {b})
        /\ holds' = IF x THEN holds \cup {b} ELSE holds
        /\ UNCHANGED <<stored, canon, headBlock, headHeader, lookup, disk, mem,
                       op, history>>

-----------------------------------------------------------------------------
HasState(b) == b \in disk \cup mem

(* The walk from b towards the genesis block to the first of a set.        *)
Nearest(b, set) == CHOOSE a \in path[b] \cap set :
                      \A c \in path[b] \cap set : num[c] <= num[a]

(* ValidateBody of a block whose header, uncles and transactions are fine. *)
Verdict(b) == IF b \in stored /\ HasState(b) THEN "known"
              ELSE IF parent[b] \notin stored THEN "unknown"
              ELSE IF ~HasState(parent[b]) THEN "pruned" ELSE "ok"

Batches == {s \in UNION {[1..k -> Blocks \ {Genesis}] : k \in 1..MaxBatch} :
              \A i \in 1..(Len(s) - 1) : parent[s[i + 1]] = s[i]}

(* The blocks left after the known ones that are behind us.                *)
SkipKnown(s) ==
    LET behind == {k \in 0..Len(s) : \A i \in 1..k :
                     Verdict(s[i]) = "known" /\ td[s[i]] <= td[headBlock]}
        last == CHOOSE k \in behind : \A j \in behind : j <= k
    IN  SubSeq(s, last + 1, Len(s))

(* The first block that is not skipped directs the import.                 *)
Import(s) ==
    IF s = <<>> THEN Idle
    ELSE CASE Verdict(Head(s)) = "pruned"  -> [Idle EXCEPT !.pc = "side", !.batch = s]
           [] Verdict(Head(s)) = "unknown" -> Idle
           [] OTHER                        -> [Idle EXCEPT !.pc = "main", !.batch = s]

InsertChain(s) ==
    /\ op.pc = "idle"
    /\ op' = Import(SkipKnown(s))
    /\ UNCHANGED <<tree, stored, canon, headBlock, headHeader, lookup, disk, mem,
                   history>>

-----------------------------------------------------------------------------
(* writeBlockWithState up to the choice of the chain.                      *)

(* Mutant: the longer chain wins.                                          *)
ForkChoiceLongest(b) == {num[b] > num[headBlock]}

(* Heavier wins; among equals the lower number, then the local miner's or  *)
(* a coin flip.                                                            *)
ForkChoice(b) ==
    IF td[b] # td[headBlock] THEN {td[b] > td[headBlock]}
    ELSE IF num[b] # num[headBlock] THEN {num[b] < num[headBlock]}
    ELSE BOOLEAN

Continue(rest) == IF rest = <<>> THEN Idle
                  ELSE [Idle EXCEPT !.pc = "main", !.batch = rest]

(* Make b the head: through reorg unless it extends the head.              *)
Adopt(b, rest) ==
    [pc    |-> IF parent[b] = headBlock THEN "head" ELSE "reorg",
     batch |-> rest, block |-> b,
     new   |-> (path[b] \ path[headBlock]) \ {b},
     old   |-> path[headBlock] \ path[b]]

(* Mutant: states are kept for one block less.                             *)
CollectTriesEarly(b) ==
    LET chosen == num[b] - TriesInMemory + 1
    IN  IF chosen > 0
        THEN /\ \E flush \in SUBSET ({canon[chosen]} \cap mem) : disk' = disk \cup flush
             /\ mem' = {c \in mem \cup {b} : num[c] > chosen}
             /\ pruned' = (pruned \/ \E c \in mem : num[c] <= chosen)
        ELSE mem' = mem \cup {b} /\ UNCHANGED <<disk, pruned>>

(* States that are too old are dereferenced; now and then the state of the *)
(* canonical block at that depth is flushed first.                         *)
CollectTries(b) ==
    LET chosen == num[b] - TriesInMemory
    IN  IF chosen > 0
        THEN /\ \E flush \in SUBSET ({canon[chosen]} \cap mem) : disk' = disk \cup flush
             /\ mem' = {c \in mem \cup {b} : num[c] > chosen}
             /\ pruned' = (pruned \/ \E c \in mem : num[c] <= chosen)
        ELSE mem' = mem \cup {b} /\ UNCHANGED <<disk, pruned>>

writeBlock(b, rest) ==
    /\ stored' = stored \cup {b}
    /\ CollectTries(b)
    /\ \E reorg \in ForkChoice(b) : op' = IF reorg THEN Adopt(b, rest) ELSE Continue(rest)
    /\ UNCHANGED <<tree, canon, headBlock, headHeader, lookup, crashes, stops, torn>>

(* The import loop executes and writes a block ...                         *)
InsertBlock ==
    /\ op.pc = "main" /\ Verdict(Head(op.batch)) = "ok"
    /\ writeBlock(Head(op.batch), Tail(op.batch))

(* ... or adopts one it knows with its state (writeKnownBlock).            *)
InsertKnown ==
    /\ op.pc = "main" /\ Verdict(Head(op.batch)) = "known"
    /\ op' = Adopt(Head(op.batch), Tail(op.batch))
    /\ UNCHANGED <<tree, stored, canon, headBlock, headHeader, lookup, disk, mem,
                   history>>

(* The worker's own block comes with its state.                            *)
WriteBlockWithState(b) ==
    /\ op.pc = "idle"
    /\ b \notin stored /\ parent[b] \in stored
    /\ writeBlock(b, <<>>)

-----------------------------------------------------------------------------
(* The batches that make a block the head.                                 *)

(* Mutant: the other markers follow only if they are older.                *)
writeHeadBlockOlder(b) ==
    /\ canon' = [canon EXCEPT ![num[b]] = b]
    /\ lookup' = IF b \in holds THEN num[b] ELSE lookup
    /\ headBlock' = b
    /\ headHeader' = IF num[headHeader] < num[b] THEN b ELSE headHeader

writeHeadBlock(b) ==
    /\ canon' = [canon EXCEPT ![num[b]] = b]
    /\ lookup' = IF b \in holds THEN num[b] ELSE lookup
    /\ headBlock' = b
    /\ headHeader' = IF canon[num[b]] # b THEN b ELSE headHeader

(* Mutant: the new chain is written from its head downwards.               *)
ReorgBlockDownwards ==
    /\ op.pc = "reorg"
    /\ \E b \in op.new \ path[headBlock] :
          /\ \A c \in op.new \ path[headBlock] : num[b] >= num[c]
          /\ writeHeadBlock(b)
    /\ UNCHANGED <<tree, stored, disk, mem, op, history>>

(* reorg: the new chain but for its head, lowest first.                    *)
ReorgBlock ==
    /\ op.pc = "reorg"
    /\ \E b \in op.new \ path[headBlock] :
          /\ \A c \in op.new \ path[headBlock] : num[b] <= num[c]
          /\ writeHeadBlock(b)
    /\ UNCHANGED <<tree, stored, disk, mem, op, history>>

(* Mutant: transactions that came back with the new chain are dropped too. *)
ReorgIndexesAll ==
    /\ op.pc = "reorg" /\ op.new \subseteq path[headBlock]
    /\ lookup' = IF op.old \cap holds # {} THEN None ELSE lookup
    /\ canon' = [n \in 0..MaxBlocks |->
                   IF n > num[headBlock] /\ \A m \in (num[headBlock] + 1)..n : canon[m] # None
                   THEN None ELSE canon[n]]
    /\ op' = [op EXCEPT !.pc = "head"]
    /\ UNCHANGED <<tree, stored, headBlock, headHeader, disk, mem, history>>

(* Then the lookup entries of transactions that left the chain, and the    *)
(* canonical numbers above the head of this moment up to the first gap.    *)
ReorgIndexes ==
    /\ op.pc = "reorg" /\ op.new \subseteq path[headBlock]
    /\ lookup' = IF op.old \cap holds # {} /\ op.new \cap holds = {} THEN None ELSE lookup
    /\ canon' = [n \in 0..MaxBlocks |->
                   IF n > num[headBlock] /\ \A m \in (num[headBlock] + 1)..n : canon[m] # None
                   THEN None ELSE canon[n]]
    /\ op' = [op EXCEPT !.pc = "head"]
    /\ UNCHANGED <<tree, stored, headBlock, headHeader, disk, mem, history>>

WriteHead ==
    /\ op.pc = "head"
    /\ writeHeadBlock(op.block)
    /\ op' = Continue(op.batch)
    /\ UNCHANGED <<tree, stored, disk, mem, history>>

-----------------------------------------------------------------------------
(* insertSideChain.                                                        *)

(* Blocks on a pruned ancestor are written without state.                  *)
SideBlock ==
    /\ op.pc = "side"
    /\ op.batch # <<>> /\ Verdict(Head(op.batch)) = "pruned"
    /\ stored' = stored \cup {Head(op.batch)}
    /\ op' = [op EXCEPT !.batch = Tail(@), !.block = Head(op.batch)]
    /\ UNCHANGED <<tree, canon, headBlock, headHeader, lookup, disk, mem, history>>

(* The ancestors of b, itself included, up to the nearest with a state.    *)
Stateless(b) ==
    LET base == num[Nearest(b, disk \cup mem)]
    IN  [i \in 1..(num[b] - base) |-> CHOOSE c \in path[b] : num[c] = base + i]

(* If they are not lighter than our chain they are imported once more.     *)
SideDone ==
    /\ op.pc = "side"
    /\ op.batch # <<>> => Verdict(Head(op.batch)) # "pruned"
    /\ op' = IF td[headBlock] > td[op.block] THEN Idle ELSE Import(SkipKnown(Stateless(op.block)))
    /\ UNCHANGED <<tree, stored, canon, headBlock, headHeader, lookup, disk, mem,
                   history>>

-----------------------------------------------------------------------------
(* loadLastState: the head is rolled back to the nearest state on disk.    *)
repair(onDisk) == Nearest(headBlock, onDisk)

Crash ==
    /\ crashes < MaxCrashes
    /\ crashes' = crashes + 1 /\ pruned' = TRUE
    /\ headBlock' = repair(disk)
    /\ torn' = (torn \/ op.pc # "idle" \/ headBlock' # headBlock)
    /\ mem' = {} /\ op' = Idle
    /\ UNCHANGED <<tree, stored, canon, headHeader, lookup, disk, stops>>

(* Stop flushes the states of HEAD, HEAD-1 and HEAD-127; the node starts   *)
(* again.                                                                  *)
StopAndRestart ==
    LET recent == {canon[num[headBlock] - k] : k \in
                     {j \in {0, 1, TriesInMemory - 1} : j < num[headBlock]}}
        flushed == disk \cup (recent \cap mem)
    IN  /\ op.pc = "idle" /\ stops < MaxStops
        /\ stops' = stops + 1 /\ pruned' = TRUE
        /\ disk' = flushed
        /\ headBlock' = repair(flushed)
        /\ torn' = (torn \/ headBlock' # headBlock)
        /\ mem' = {}
        /\ UNCHANGED <<tree, stored, canon, headHeader, lookup, op, crashes>>

-----------------------------------------------------------------------------
Next ==
    \/ \E p \in Blocks, d \in Diffs, x \in BOOLEAN : Forge(p, d, x)
    \/ \E s \in Batches : InsertChain(s)
    \/ \E b \in Blocks : WriteBlockWithState(b)
    \/ InsertBlock \/ InsertKnown \/ ReorgBlock \/ ReorgIndexes \/ WriteHead
    \/ SideBlock \/ SideDone
    \/ Crash \/ StopAndRestart

Spec == Init /\ [][Next]_vars

-----------------------------------------------------------------------------
(* In every state, also in the middle of a reorganisation and after a      *)
(* crash at any point, the canonical numbers up to the head block lead     *)
(* along the head's own chain.                                             *)
CanonToHead ==
    \A n \in 0..num[headBlock] : canon[n] \in path[headBlock] /\ num[canon[n]] = n

(* The state of the head is there to build on, whatever the garbage        *)
(* collection of tries dropped, as long as no stored chain outgrows the    *)
(* head by TriesInMemory blocks.                                           *)
HeadHasState ==
    (op.pc = "idle" /\ \A b \in stored : num[b] < num[headBlock] + TriesInMemory)
        => HasState(headBlock)

(* As long as no state was lost, no stored block is heavier than the head, *)
(* in whatever order and batches the blocks came.                          *)
HeaviestHead == (op.pc = "idle" /\ ~pruned) => \A b \in stored : td[b] <= td[headBlock]

(* Between operations the lookup entry of a transaction gives the number   *)
(* of the canonical block that holds it, and there is no entry for one     *)
(* that reorganisations dropped.                                           *)
LookupExact ==
    (op.pc = "idle" /\ ~torn) =>
        {lookup} \ {None} = {num[b] : b \in path[headBlock] \cap holds}

(* The header marker is on the head block's chain, and not behind it.      *)
HeaderOnHead == (op.pc = "idle" /\ ~torn) => headBlock \in path[headHeader]

=============================================================================
