-------------------------- MODULE BlockChainProofs --------------------------
(***************************************************************************)
(* What holds of the block chain for trees of any size, weights, batches   *)
(* and numbers of crashes: the canonical numbers lead to the head block in *)
(* every state (IInv); the head keeps its state (StateInv), is the         *)
(* heaviest (WeightInv), and the lookup entry (LookInv) and the header     *)
(* marker (MarkInv) follow it.                                             *)
(***************************************************************************)
EXTENDS BlockChain, FiniteSetTheorems, TLAPS

(* The blocks made so far are 0..k; a block comes after its parent.        *)
Made == \E k \in Nat : k <= MaxBlocks /\ Blocks = 0..k

(* A path is a chain: one block for each number, and every block on it has *)
(* the path up to itself.                                                  *)
TreeInv ==
    /\ Made
    /\ parent \in [Blocks -> Blocks]
    /\ num \in [Blocks -> Nat]
    /\ path \in [Blocks -> SUBSET Blocks]
    /\ num[Genesis] = 0 /\ path[Genesis] = {Genesis}
    /\ \A b \in Blocks : b \in path[b] /\ Genesis \in path[b] /\ num[b] <= b
    /\ \A b \in Blocks \ {Genesis} : /\ num[b] = num[parent[b]] + 1
                                     /\ path[b] = path[parent[b]] \cup {b}
    /\ \A b \in Blocks : \A c, d \in path[b] : num[c] <= num[d] => c \in path[d]
    /\ \A b \in Blocks : \A c \in path[b] : path[c] \subseteq path[b] /\ num[c] <= num[b]
    /\ \A b \in Blocks : \A n \in 0..num[b] : \E c \in path[b] : num[c] = n

(* The head and the index exist; the state of the genesis block is on disk.*)
StoreInv ==
    /\ headBlock \in Blocks
    /\ canon \in [0..MaxBlocks -> Blocks \cup {None}]
    /\ Genesis \in disk

Ops == [pc : {"idle", "main", "side", "reorg", "head"}, batch : Seq(Blocks),
        block : Blocks, new : SUBSET Blocks, old : SUBSET Blocks]

(* While a block is being made the head: everything on its path is on the  *)
(* head's path or still to be written.                                     *)
OpInv ==
    /\ op \in Ops
    /\ op.pc = "main" => op.batch # <<>>
    /\ op.pc = "reorg" =>
          /\ op.new \subseteq path[op.block] \ {op.block}
          /\ path[op.block] \ {op.block} \subseteq op.new \cup path[headBlock]
    /\ op.pc = "head" => path[op.block] \ {op.block} \subseteq path[headBlock]

IInv == TreeInv /\ StoreInv /\ OpInv /\ CanonToHead

-----------------------------------------------------------------------------
(* A bounded nonempty set of natural numbers has a greatest element.       *)
LEMMA Greatest ==
    ASSUME NEW S, S \subseteq Nat, S # {}, NEW m \in Nat, \A x \in S : x <= m
    PROVE  \E x \in S : \A y \in S : y <= x
  <1> DEFINE T == {m - x : x \in S}
  <1>1. T \subseteq Nat /\ T # {}
    <2>1. \A x \in S : m - x \in Nat
      OBVIOUS
    <2> QED
      BY <2>1, Zenon
  <1>2. \E t \in T : \A u \in T : ~ (<<u, t>> \in OpToRel(<, Nat))
    BY <1>1, NatLessThanWellFounded, WFMin, Zenon
  <1>3. PICK t \in T : \A u \in T : ~ (<<u, t>> \in OpToRel(<, Nat))
    BY <1>2, Zenon
  <1>4. \A u \in T : ~ (u < t)
    BY <1>1, <1>3, Zenon DEF OpToRel
  <1>5. PICK x \in S : t = m - x
    BY Zenon
  <1>6. \A y \in S : y <= x
    <2>1. SUFFICES ASSUME NEW y \in S PROVE y <= x
      BY Zenon
    <2>2. m - y \in T
      BY Zenon
    <2>3. ~ (m - y < m - x)
      BY <1>4, <1>5, <2>2, Zenon
    <2> QED
      BY <2>3
  <1> QED
    BY <1>6, Zenon

(* The first of a sequence and the rest.                                   *)
LEMMA Nonempty ==
    ASSUME NEW S, NEW s \in Seq(S), s # <<>>
    PROVE  /\ Len(s) \in Nat \ {0} /\ Head(s) = s[1] /\ Head(s) \in S
           /\ Tail(s) \in Seq(S) /\ Len(Tail(s)) = Len(s) - 1
           /\ \A i \in 1..Len(Tail(s)) : Tail(s)[i] = s[i + 1]
  <1>1. Len(s) \in Nat \ {0} /\ Head(s) = s[1] /\ Head(s) \in S
    OBVIOUS
  <1>2. Tail(s) \in Seq(S) /\ Len(Tail(s)) = Len(s) - 1
    OBVIOUS
  <1>3. \A i \in 1..Len(Tail(s)) : Tail(s)[i] = s[i + 1]
    OBVIOUS
  <1> QED
    BY <1>1, <1>2, <1>3, Zenon

(* What is left of a sequence after its first k elements.                  *)
LEMMA Suffix ==
    ASSUME NEW S, NEW s \in Seq(S), NEW k \in 0..Len(s)
    PROVE  LET r == SubSeq(s, k + 1, Len(s))
           IN  /\ r \in Seq(S) /\ Len(r) = Len(s) - k
               /\ \A i \in 1..(Len(s) - k) : r[i] = s[k + i]
  <1>1. SubSeq(s, k + 1, Len(s)) \in Seq(S)
    OBVIOUS
  <1>2. Len(SubSeq(s, k + 1, Len(s))) = Len(s) - k
    OBVIOUS
  <1>3. \A i \in 1..(Len(s) - k) : SubSeq(s, k + 1, Len(s))[i] = s[k + i]
    OBVIOUS
  <1> QED
    BY <1>1, <1>2, <1>3, Zenon

(* The walk towards the genesis block finds a block of the set.            *)
LEMMA NearestOnPath ==
    ASSUME TreeInv, NEW b \in Blocks, NEW S, Genesis \in S
    PROVE  Nearest(b, S) \in path[b] \cap S
  <1> DEFINE N == {num[c] : c \in path[b] \cap S}
  <1>1. path[b] \subseteq Blocks /\ Genesis \in path[b] /\ num[b] \in Nat
        /\ \A c \in path[b] : num[c] \in Nat /\ num[c] <= num[b]
    BY Zenon DEF TreeInv
  <1>2. N \subseteq Nat /\ N # {} /\ \A x \in N : x <= num[b]
    BY <1>1, Zenon
  <1>3. \E x \in N : \A y \in N : y <= x
    <2> HIDE DEF N
    <2> QED
      BY <1>1, <1>2, Greatest, Zenon
  <1>4. \E a \in path[b] \cap S : \A c \in path[b] \cap S : num[c] <= num[a]
    BY <1>3, Zenon
  <1> QED
    BY <1>4, Zenon DEF Nearest

(* Below a block of the head's path the index follows that block's path.   *)
LEMMA CanonBelow ==
    ASSUME TreeInv, StoreInv, CanonToHead, NEW a \in path[headBlock]
    PROVE  \A n \in 0..num[a] : canon[n] \in path[a] /\ num[canon[n]] = n
  <1>1. a \in Blocks /\ num[a] \in Nat /\ num[headBlock] \in Nat /\ num[a] <= num[headBlock]
    BY Zenon DEF TreeInv, StoreInv
  <1>2. SUFFICES ASSUME NEW n \in 0..num[a]
                 PROVE  canon[n] \in path[a] /\ num[canon[n]] = n
    BY Zenon
  <1>3. canon[n] \in path[headBlock] /\ num[canon[n]] = n
    BY <1>1 DEF CanonToHead
  <1>4. canon[n] \in path[a]
    BY <1>1, <1>3, SMTT(20) DEF TreeInv, StoreInv
  <1> QED
    BY <1>3, <1>4, Zenon

(* Every number of a block has an entry in the index.                      *)
LEMMA NumBounded ==
    ASSUME TreeInv, NEW b \in Blocks
    PROVE  num[b] \in 0..MaxBlocks
  <1>1. PICK k \in Nat : k <= MaxBlocks /\ Blocks = 0..k
    BY Zenon DEF TreeInv, Made
  <1>2. num[b] \in Nat /\ num[b] <= b
    BY Zenon DEF TreeInv
  <1> QED
    BY <1>1, <1>2, ChainAssumption

(* writeHeadBlock keeps the index in order if the path of the block, but   *)
(* for itself, is on the head's path.                                      *)
LEMMA WriteHeadBlockKeeps ==
    ASSUME TreeInv, StoreInv, CanonToHead, UNCHANGED <<tree, disk>>,
           NEW b \in Blocks, path[b] \ {b} \subseteq path[headBlock], writeHeadBlock(b)
    PROVE  StoreInv' /\ CanonToHead'
  <1>1. /\ headBlock' = b /\ canon' = [canon EXCEPT ![num[b]] = b]
        /\ num' = num /\ path' = path /\ parent' = parent /\ disk' = disk
    BY Zenon DEF writeHeadBlock, tree
  <1>2. num[b] \in 0..MaxBlocks
    BY NumBounded, Zenon
  <1>3. StoreInv'
    BY <1>1, <1>2, Zenon DEF StoreInv, Blocks
  <1>4. b # Genesis => parent[b] \in path[headBlock] /\ num[b] = num[parent[b]] + 1
                       /\ path[parent[b]] \subseteq path[b] /\ num[parent[b]] \in Nat
    <2>1. SUFFICES ASSUME b # Genesis
                   PROVE  parent[b] \in path[headBlock] /\ num[b] = num[parent[b]] + 1
                          /\ path[parent[b]] \subseteq path[b] /\ num[parent[b]] \in Nat
      BY Zenon
    <2>2. /\ parent[b] \in Blocks /\ num[parent[b]] \in Nat
          /\ num[b] = num[parent[b]] + 1 /\ path[b] = path[parent[b]] \cup {b}
          /\ parent[b] \in path[parent[b]]
      BY <2>1, Zenon DEF TreeInv
    <2>3. parent[b] # b
      BY <2>2
    <2> QED
      BY <2>2, <2>3, Zenon
  <1>5. CanonToHead'
    <2>1. SUFFICES ASSUME NEW n \in 0..num[b]
                   PROVE  canon'[n] \in path[b] /\ num[canon'[n]] = n
      BY <1>1, Zenon DEF CanonToHead
    <2>2. CASE n = num[b]
      BY <1>1, <1>2, <2>2, Zenon DEF StoreInv, TreeInv
    <2>3. CASE n # num[b]
      <3>1. b # Genesis
        BY <2>3 DEF TreeInv
      <3>2. n \in 0..num[parent[b]]
        BY <1>2, <1>4, <2>3, <3>1
      <3>3. canon[n] \in path[parent[b]] /\ num[canon[n]] = n
        BY <1>4, <3>1, <3>2, CanonBelow, Zenon
      <3>4. canon'[n] = canon[n]
        BY <1>1, <1>2, <2>3 DEF StoreInv
      <3> QED
        BY <1>4, <3>1, <3>3, <3>4, Zenon
    <2> QED
      BY <2>2, <2>3, Zenon
  <1> QED
    BY <1>3, <1>5, Zenon

(* The genesis block is one of the blocks.                                 *)
LEMMA GenesisMade ==
    ASSUME TreeInv
    PROVE  Genesis \in Blocks
  BY DEF TreeInv, Made, Genesis

(* What is left of a batch is a batch.                                     *)
LEMMA SkipKnownTyped ==
    ASSUME NEW s \in Seq(Blocks)
    PROVE  SkipKnown(s) \in Seq(Blocks)
  <1> DEFINE behind == {k \in 0..Len(s) : \A i \in 1..k :
                          Verdict(s[i]) = "known" /\ td[s[i]] <= td[headBlock]}
             last == CHOOSE k \in behind : \A j \in behind : j <= k
  <1>1. Len(s) \in Nat
    OBVIOUS
  <1>2. behind \subseteq Nat /\ behind # {} /\ \A x \in behind : x <= Len(s)
    <2>1. 0 \in behind
      BY <1>1
    <2>2. behind \subseteq 0..Len(s)
      BY Zenon
    <2> QED
      BY <1>1, <2>1, <2>2
  <1>3. last \in behind
    <2> HIDE DEF behind
    <2>1. \E x \in behind : \A y \in behind : y <= x
      BY <1>1, <1>2, Greatest, Zenon
    <2> QED
      BY <2>1, Zenon
  <1>4. last \in 0..Len(s)
    BY <1>3, Zenon
  <1>5. SkipKnown(s) = SubSeq(s, last + 1, Len(s))
    BY Zenon DEF SkipKnown
  <1> HIDE DEF last
  <1>6. SubSeq(s, last + 1, Len(s)) \in Seq(Blocks)
    BY <1>4, Suffix, Zenon
  <1> QED
    BY <1>5, <1>6, Zenon

(* An import starts in one of three ways.                                  *)
LEMMA ImportTyped ==
    ASSUME TreeInv, NEW s \in Seq(Blocks)
    PROVE  /\ Import(SkipKnown(s)) \in Ops
           /\ Import(SkipKnown(s)).pc \in {"idle", "side", "main"}
           /\ Import(SkipKnown(s)).pc = "main" => Import(SkipKnown(s)).batch # <<>>
  <1>1. SkipKnown(s) \in Seq(Blocks)
    BY SkipKnownTyped, Zenon
  <1>2. Idle \in Ops /\ Idle.pc = "idle"
    BY GenesisMade DEF Idle, Ops
  <1> DEFINE r == SkipKnown(s)
             side == [Idle EXCEPT !.pc = "side", !.batch = r]
             main == [Idle EXCEPT !.pc = "main", !.batch = r]
  <1>3. side \in Ops /\ side.pc = "side" /\ main \in Ops /\ main.pc = "main" /\ main.batch = r
    <2> HIDE DEF r
    <2> QED
      BY <1>1, GenesisMade, Zenon DEF Ops, Idle, r
  <1>4. Import(r) \in {Idle, side} \/ (Import(r) = main /\ r # <<>>)
    <2> HIDE DEF r
    <2> QED
      BY Zenon DEF Import
  <1> QED
    BY <1>2, <1>3, <1>4, Zenon

(* After a block the import goes on with the next one or ends.             *)
LEMMA ContinueTyped ==
    ASSUME TreeInv, NEW rest \in Seq(Blocks)
    PROVE  /\ Continue(rest) \in Ops
           /\ Continue(rest).pc \in {"idle", "main"}
           /\ Continue(rest).pc = "main" => Continue(rest).batch # <<>>
  <1>1. Idle \in Ops /\ Idle.pc = "idle"
    BY GenesisMade DEF Idle, Ops
  <1> DEFINE main == [Idle EXCEPT !.pc = "main", !.batch = rest]
  <1>2. main \in Ops /\ main.pc = "main" /\ main.batch = rest
    BY GenesisMade, Zenon DEF Ops, Idle
  <1>3. Continue(rest) = Idle \/ (Continue(rest) = main /\ rest # <<>>)
    BY Zenon DEF Continue
  <1> QED
    BY <1>1, <1>2, <1>3, Zenon

(* Making a block the head starts with everything either on the head's     *)
(* path or still to be written.                                            *)
LEMMA AdoptTyped ==
    ASSUME TreeInv, StoreInv, NEW b \in Blocks, NEW rest \in Seq(Blocks)
    PROVE  LET o == Adopt(b, rest)
           IN  /\ o \in Ops /\ o.pc \in {"reorg", "head"} /\ o.block = b
               /\ o.new \subseteq path[b] \ {b}
               /\ path[b] \ {b} \subseteq o.new \cup path[headBlock]
               /\ o.pc = "head" => path[b] \ {b} \subseteq path[headBlock]
  <1> DEFINE o == Adopt(b, rest)
  <1>1. o = [pc    |-> IF parent[b] = headBlock THEN "head" ELSE "reorg",
             batch |-> rest, block |-> b,
             new   |-> (path[b] \ path[headBlock]) \ {b},
             old   |-> path[headBlock] \ path[b]]
    BY Zenon DEF Adopt
  <1>2. path[b] \subseteq Blocks /\ path[headBlock] \subseteq Blocks
    BY Zenon DEF TreeInv, StoreInv
  <1>3. o \in Ops /\ o.pc \in {"reorg", "head"} /\ o.block = b
    BY <1>1, <1>2 DEF Ops
  <1>4. o.new = (path[b] \ path[headBlock]) \ {b}
    BY <1>1
  <1>5. o.pc = "head" => parent[b] = headBlock
    BY <1>1
  <1>6. parent[b] = headBlock => path[b] \ {b} \subseteq path[headBlock]
    BY DEF TreeInv
  <1> HIDE DEF o
  <1> QED
    BY <1>3, <1>4, <1>5, <1>6, Zenon DEF o

(* Steps that make no block leave the tree as it is.                       *)
LEMMA TreeStays ==
    ASSUME TreeInv, UNCHANGED tree
    PROVE  TreeInv' /\ Blocks' = Blocks /\ num' = num /\ path' = path /\ parent' = parent
  <1>1. num' = num /\ path' = path /\ parent' = parent
    BY Zenon DEF tree
  <1>2. Blocks' = Blocks
    BY <1>1, Zenon DEF Blocks
  <1>3. Made'
    BY <1>2, Zenon DEF TreeInv, Made
  <1>4. TreeInv'
    BY <1>1, <1>2, <1>3 DEF TreeInv
  <1> QED
    BY <1>1, <1>2, <1>4, Zenon

(* Steps that move neither index nor head keep the index in order.         *)
LEMMA IndexStays ==
    ASSUME TreeInv, StoreInv, CanonToHead, UNCHANGED <<tree, canon, headBlock>>,
           disk \subseteq disk'
    PROVE  TreeInv' /\ StoreInv' /\ CanonToHead'
  <1>1. canon' = canon /\ headBlock' = headBlock
    BY Zenon
  <1>2. TreeInv' /\ Blocks' = Blocks /\ num' = num /\ path' = path
    BY TreeStays, Zenon
  <1>3. StoreInv'
    BY <1>1, <1>2, Zenon DEF StoreInv
  <1>4. CanonToHead'
    BY <1>1, <1>2, Zenon DEF CanonToHead
  <1> QED
    BY <1>2, <1>3, <1>4, Zenon

(* If only op changes, to something that neither switches nor lacks a      *)
(* block to import, the invariant is kept.                                 *)
LEMMA OpChange ==
    ASSUME IInv, UNCHANGED <<tree, canon, headBlock>>, disk \subseteq disk',
           op' \in Ops, op'.pc \in {"idle", "side", "main"},
           op'.pc = "main" => op'.batch # <<>>
    PROVE  IInv'
  <1>1. /\ parent' = parent /\ num' = num /\ path' = path
        /\ canon' = canon /\ headBlock' = headBlock
    BY Zenon DEF tree
  <1>2. TreeInv' /\ StoreInv' /\ CanonToHead'
    BY IndexStays, Zenon DEF IInv
  <1>3. OpInv'
    BY <1>1, Zenon DEF OpInv, Ops, Blocks
  <1> QED
    BY <1>2, <1>3, Zenon DEF IInv

(* The same when op starts to make b the head.                             *)
LEMMA OpAdopt ==
    ASSUME IInv, UNCHANGED <<tree, canon, headBlock>>, disk \subseteq disk',
           NEW b \in Blocks, NEW rest \in Seq(Blocks), op' = Adopt(b, rest)
    PROVE  IInv'
  <1>1. /\ parent' = parent /\ num' = num /\ path' = path
        /\ canon' = canon /\ headBlock' = headBlock
    BY Zenon DEF tree
  <1>2. TreeInv' /\ StoreInv' /\ CanonToHead'
    BY IndexStays, Zenon DEF IInv
  <1>3. /\ op' \in Ops /\ op'.pc \in {"reorg", "head"} /\ op'.block = b
        /\ op'.new \subseteq path[b] \ {b}
        /\ path[b] \ {b} \subseteq op'.new \cup path[headBlock]
        /\ op'.pc = "head" => path[b] \ {b} \subseteq path[headBlock]
    BY AdoptTyped, Zenon DEF IInv
  <1>4. OpInv'
    BY <1>1, <1>3, Zenon DEF OpInv, Ops, Blocks
  <1> QED
    BY <1>2, <1>4, Zenon DEF IInv

-----------------------------------------------------------------------------
(* NewBlockChain on a database with the genesis block.                     *)
LEMMA InitIInv == Init => IInv
  <1> SUFFICES ASSUME Init PROVE IInv
    BY Zenon
  <1>1. Blocks = {Genesis} /\ Blocks = 0..0
    BY DEF Init, Blocks, Genesis
  <1>2. Made
    BY <1>1, ChainAssumption DEF Made
  <1>3. TreeInv
    BY <1>1, <1>2 DEF Init, TreeInv, Genesis
  <1>4. StoreInv
    BY <1>1, ChainAssumption, Zenon DEF Init, StoreInv, Genesis, None
  <1>5. OpInv
    BY <1>1 DEF Init, OpInv, Ops, Idle
  <1>6. CanonToHead
    BY <1>1, ChainAssumption DEF Init, CanonToHead, Genesis
  <1> QED
    BY <1>3, <1>4, <1>5, <1>6, Zenon DEF IInv

(* writeBlockWithState, whether the block is adopted or not.               *)
LEMMA WriteBlockKeeps ==
    ASSUME IInv, NEW b \in Blocks, NEW rest \in Seq(Blocks), writeBlock(b, rest)
    PROVE  IInv'
  <1>1. UNCHANGED <<tree, canon, headBlock>>
    BY Zenon DEF writeBlock
  <1>2. disk \subseteq disk'
    BY Zenon DEF writeBlock, CollectTries
  <1>3. op' = Adopt(b, rest) \/ op' = Continue(rest)
    BY Zenon DEF writeBlock
  <1>4. CASE op' = Adopt(b, rest)
    BY <1>1, <1>2, <1>4, OpAdopt, Zenon
  <1>5. CASE op' = Continue(rest)
    <2>1. op' \in Ops /\ op'.pc \in {"idle", "main"} /\ (op'.pc = "main" => op'.batch # <<>>)
      BY <1>5, ContinueTyped, Zenon DEF IInv
    <2> QED
      BY <1>1, <1>2, <2>1, OpChange, Zenon
  <1> QED
    BY <1>3, <1>4, <1>5, Zenon

(* What is under way refers to blocks that exist.                          *)
LEMMA BatchFacts ==
    ASSUME IInv
    PROVE  /\ op.pc \in {"idle", "main", "side", "reorg", "head"}
           /\ op.block \in Blocks /\ op.batch \in Seq(Blocks)
           /\ op.batch # <<>> => Head(op.batch) \in Blocks /\ Tail(op.batch) \in Seq(Blocks)
           /\ op.pc = "main" => op.batch # <<>>
  <1>1. op.batch \in Seq(Blocks) /\ op.block \in Blocks
        /\ op.pc \in {"idle", "main", "side", "reorg", "head"}
    BY Zenon DEF IInv, OpInv, Ops
  <1>2. op.batch # <<>> => Head(op.batch) \in Blocks /\ Tail(op.batch) \in Seq(Blocks)
    BY <1>1, Nonempty, Zenon
  <1> QED
    BY <1>1, <1>2, Zenon DEF IInv, OpInv

(* The blocks imported again by insertSideChain form a batch.              *)
LEMMA StatelessTyped ==
    ASSUME TreeInv, StoreInv, NEW b \in Blocks
    PROVE  Stateless(b) \in Seq(Blocks)
  <1> DEFINE a == Nearest(b, disk \cup mem)
             k == num[b] - num[a]
  <1>1. a \in path[b]
    BY NearestOnPath, Zenon DEF StoreInv
  <1> HIDE DEF a
  <1>2. num[a] \in Nat /\ num[b] \in Nat /\ num[a] <= num[b] /\ path[b] \subseteq Blocks
    BY <1>1, Zenon DEF TreeInv
  <1>3. k \in Nat
    BY <1>2
  <1>4. \A i \in 1..k : (CHOOSE c \in path[b] : num[c] = num[a] + i) \in Blocks
    <2>1. SUFFICES ASSUME NEW i \in 1..k
                   PROVE  (CHOOSE c \in path[b] : num[c] = num[a] + i) \in Blocks
      BY Zenon
    <2>2. num[a] + i \in 0..num[b]
      BY <1>2
    <2>3. \E c \in path[b] : num[c] = num[a] + i
      BY <2>2, Zenon DEF TreeInv
    <2>4. (CHOOSE c \in path[b] : num[c] = num[a] + i) \in path[b]
      BY <2>3, Zenon
    <2> QED
      BY <1>2, <2>4, Zenon
  <1>5. Stateless(b) = [i \in 1..k |-> CHOOSE c \in path[b] : num[c] = num[a] + i]
    BY Zenon DEF Stateless, a
  <1> HIDE DEF k
  <1>6. Stateless(b) \in [1..k -> Blocks]
    BY <1>4, <1>5, Zenon
  <1> QED
    BY <1>3, <1>6

(* InsertChain only decides how the import begins.                         *)
LEMMA InsertChainKeeps ==
    ASSUME IInv, NEW s \in Batches, InsertChain(s)
    PROVE  IInv'
  <1>1. s \in Seq(Blocks)
    <2>1. PICK k \in 1..MaxBatch : s \in [1..k -> Blocks \ {Genesis}]
      BY Zenon DEF Batches
    <2>2. k \in Nat /\ s \in [1..k -> Blocks]
      BY <2>1, ChainAssumption
    <2> QED
      BY <2>2
  <1>2. /\ op' \in Ops /\ op'.pc \in {"idle", "side", "main"}
        /\ op'.pc = "main" => op'.batch # <<>>
    BY <1>1, ImportTyped, Zenon DEF InsertChain, IInv
  <1>3. UNCHANGED <<tree, canon, headBlock>> /\ disk \subseteq disk'
    BY Zenon DEF InsertChain
  <1> QED
    BY <1>2, <1>3, OpChange, Zenon

(* insertSideChain drops the side chain or imports it again.               *)
LEMMA SideDoneKeeps == IInv /\ SideDone => IInv'
  <1> SUFFICES ASSUME IInv, SideDone PROVE IInv'
    BY Zenon
  <1>1. Stateless(op.block) \in Seq(Blocks)
    BY BatchFacts, StatelessTyped, Zenon DEF IInv
  <1>2. Idle \in Ops /\ Idle.pc = "idle"
    BY GenesisMade DEF Idle, Ops, IInv
  <1>3. /\ op' \in Ops /\ op'.pc \in {"idle", "side", "main"}
        /\ op'.pc = "main" => op'.batch # <<>>
    BY <1>1, <1>2, ImportTyped, Zenon DEF SideDone, IInv
  <1>4. UNCHANGED <<tree, canon, headBlock>> /\ disk \subseteq disk'
    BY Zenon DEF SideDone
  <1> QED
    BY <1>3, <1>4, OpChange, Zenon

(* writeBlockWithoutState touches neither index nor head.                  *)
LEMMA SideBlockKeeps == IInv /\ SideBlock => IInv'
  <1> SUFFICES ASSUME IInv, SideBlock PROVE IInv'
    OBVIOUS
  <1>1. Head(op.batch) \in Blocks /\ Tail(op.batch) \in Seq(Blocks)
    BY BatchFacts, Zenon DEF SideBlock
  <1>2. op' = [op EXCEPT !.batch = Tail(op.batch), !.block = Head(op.batch)]
        /\ op.pc = "side" /\ op \in Ops
    BY Zenon DEF SideBlock, IInv, OpInv
  <1>3. op' \in Ops /\ op'.pc = "side"
    BY <1>1, <1>2, Zenon DEF Ops
  <1>4. UNCHANGED <<tree, canon, headBlock>> /\ disk \subseteq disk'
    BY Zenon DEF SideBlock
  <1> QED
    BY <1>3, <1>4, OpChange, Zenon

(* The next block of the new chain has its parent on the head's path, and  *)
(* what the new chain and the head have in common is below it.             *)
LEMMA ReorgBlockFacts ==
    ASSUME IInv, ReorgBlock
    PROVE  \E b \in op.new \ path[headBlock] :
              /\ writeHeadBlock(b) /\ b \in Blocks /\ b \in path[op.block] \ {op.block}
              /\ path[b] \ {b} \subseteq path[headBlock]
              /\ path[op.block] \cap path[headBlock] \subseteq path[b]
  <1>1. PICK b \in op.new \ path[headBlock] :
           (\A c \in op.new \ path[headBlock] : num[b] <= num[c]) /\ writeHeadBlock(b)
    BY Zenon DEF ReorgBlock
  <1>2. TreeInv /\ StoreInv /\ OpInv /\ op.pc = "reorg"
    BY Zenon DEF IInv, ReorgBlock
  <1>3. /\ op \in Ops /\ op.block \in Blocks
        /\ op.new \subseteq path[op.block] \ {op.block}
        /\ path[op.block] \ {op.block} \subseteq op.new \cup path[headBlock]
    BY <1>2, Zenon DEF OpInv, Ops
  <1>4. b \in path[op.block] \ {op.block} /\ b \in Blocks /\ b # Genesis
    BY <1>1, <1>2, <1>3, Zenon DEF TreeInv, StoreInv
  <1>5. parent[b] \in path[headBlock]
    <2>1. /\ parent[b] \in path[b] /\ num[parent[b]] < num[b] /\ path[b] \subseteq path[op.block]
          /\ num[b] <= num[op.block] /\ num[b] \in Nat /\ num[parent[b]] \in Nat
          /\ num[op.block] \in Nat
      <3>1. /\ parent[b] \in Blocks /\ num[b] = num[parent[b]] + 1
            /\ path[b] = path[parent[b]] \cup {b} /\ parent[b] \in path[parent[b]]
            /\ num[parent[b]] \in Nat /\ num[op.block] \in Nat
        BY <1>2, <1>3, <1>4, Zenon DEF TreeInv
      <3>2. path[b] \subseteq path[op.block] /\ num[b] <= num[op.block]
        BY <1>2, <1>3, <1>4, Zenon DEF TreeInv
      <3> QED
        BY <3>1, <3>2
    <2>2. parent[b] # op.block
      BY <2>1
    <2>3. parent[b] \in op.new \cup path[headBlock]
      BY <1>3, <2>1, <2>2, Zenon
    <2>4. ~(parent[b] \in op.new \ path[headBlock])
      BY <1>1, <2>1
    <2> QED
      BY <2>3, <2>4, Zenon
  <1>6. path[b] \ {b} \subseteq path[headBlock]
    BY <1>2, <1>4, <1>5 DEF TreeInv, StoreInv
  <1>7. ASSUME NEW c \in path[op.block] \cap path[headBlock] PROVE c \in path[b]
    <2>1. c \in Blocks
      BY <1>2, <1>3, Zenon DEF TreeInv
    <2>2. b \notin path[c]
      BY <1>1, <1>2, <2>1, Zenon DEF TreeInv, StoreInv
    <2>3. num[c] \in Nat /\ num[b] \in Nat
      BY <1>2, <1>4, <2>1, Zenon DEF TreeInv
    <2>4. num[b] <= num[c] => b \in path[c]
      BY <1>2, <1>3, <1>4 DEF TreeInv
    <2>5. num[c] <= num[b]
      BY <2>2, <2>3, <2>4
    <2> QED
      BY <1>2, <1>3, <1>4, <2>5, Zenon DEF TreeInv
  <1> QED
    BY <1>1, <1>4, <1>6, <1>7, Zenon

(* What is not yet on the new head's path is still to be written.          *)
LEMMA ReorgBlockKeeps == IInv /\ ReorgBlock => IInv'
  <1> SUFFICES ASSUME IInv, ReorgBlock PROVE IInv'
    OBVIOUS
  <1>1. PICK b \in op.new \ path[headBlock] :
              /\ writeHeadBlock(b) /\ b \in Blocks
              /\ path[b] \ {b} \subseteq path[headBlock]
              /\ path[op.block] \cap path[headBlock] \subseteq path[b]
    BY ReorgBlockFacts, Zenon
  <1>2. TreeInv /\ StoreInv /\ OpInv /\ CanonToHead /\ op.pc = "reorg"
        /\ UNCHANGED <<tree, disk, op>>
    BY Zenon DEF IInv, ReorgBlock
  <1>3. StoreInv' /\ CanonToHead'
    BY <1>1, <1>2, WriteHeadBlockKeeps, Zenon
  <1>4. TreeInv' /\ path' = path /\ Blocks' = Blocks
    BY <1>2, TreeStays, Zenon
  <1>5. path[op.block] \ {op.block} \subseteq op.new \cup path[b]
    BY <1>1, <1>2, Zenon DEF OpInv
  <1>6. headBlock' = b
    BY <1>1, Zenon DEF writeHeadBlock
  <1>7. OpInv'
    BY <1>2, <1>4, <1>5, <1>6, Zenon DEF OpInv, Ops
  <1> QED
    BY <1>3, <1>4, <1>7, Zenon DEF IInv

(* Index deletion spares the numbers up to the head of that moment.        *)
LEMMA ReorgIndexesKeeps == IInv /\ ReorgIndexes => IInv'
  <1> SUFFICES ASSUME IInv, ReorgIndexes PROVE IInv'
    OBVIOUS
  <1>1. /\ TreeInv /\ StoreInv /\ OpInv /\ CanonToHead /\ op.pc = "reorg" /\ op \in Ops
        /\ op.new \subseteq path[headBlock]
        /\ UNCHANGED tree /\ headBlock' = headBlock /\ disk' = disk
        /\ op' = [op EXCEPT !.pc = "head"]
    BY Zenon DEF IInv, OpInv, ReorgIndexes
  <1>2. TreeInv' /\ path' = path /\ num' = num /\ Blocks' = Blocks
    BY <1>1, TreeStays, Zenon
  <1>3. op' \in Ops /\ op'.pc = "head" /\ op'.block = op.block
    BY <1>1, Zenon DEF Ops
  <1>4. path[op.block] \ {op.block} \subseteq path[headBlock]
    BY <1>1, Zenon DEF OpInv
  <1>5. OpInv'
    BY <1>1, <1>2, <1>3, <1>4, Zenon DEF OpInv, Ops
  <1>6. /\ canon' \in [0..MaxBlocks -> Blocks \cup {None}]
        /\ \A n \in 0..MaxBlocks : n <= num[headBlock] => canon'[n] = canon[n]
    <2> DEFINE gone(n) == n > num[headBlock]
                          /\ \A m \in (num[headBlock] + 1)..n : canon[m] # None
    <2>1. canon' = [n \in 0..MaxBlocks |-> IF gone(n) THEN None ELSE canon[n]]
      BY Zenon DEF ReorgIndexes
    <2>2. \A n \in 0..MaxBlocks : n <= num[headBlock] => ~gone(n)
      BY <1>1 DEF TreeInv, StoreInv
    <2> HIDE DEF gone
    <2> QED
      BY <1>1, <2>1, <2>2, Zenon DEF StoreInv
  <1>7. StoreInv'
    BY <1>1, <1>2, <1>6, Zenon DEF StoreInv
  <1>8. num[headBlock] \in Nat /\ num[headBlock] <= MaxBlocks
    BY <1>1, NumBounded, ChainAssumption DEF StoreInv
  <1>9. CanonToHead'
    BY <1>1, <1>2, <1>6, <1>8, ChainAssumption DEF CanonToHead
  <1> QED
    BY <1>2, <1>5, <1>7, <1>9, Zenon DEF IInv

(* The last block of the new chain becomes the head.                       *)
LEMMA WriteHeadKeeps == IInv /\ WriteHead => IInv'
  <1> SUFFICES ASSUME IInv, WriteHead PROVE IInv'
    OBVIOUS
  <1>1. TreeInv /\ StoreInv /\ CanonToHead /\ UNCHANGED <<tree, disk>>
        /\ writeHeadBlock(op.block) /\ op' = Continue(op.batch)
    BY Zenon DEF IInv, WriteHead
  <1>2. op.block \in Blocks /\ op.batch \in Seq(Blocks)
        /\ path[op.block] \ {op.block} \subseteq path[headBlock]
    BY BatchFacts, Zenon DEF IInv, OpInv, WriteHead
  <1>3. StoreInv' /\ CanonToHead'
    BY <1>1, <1>2, WriteHeadBlockKeeps, Zenon
  <1>4. TreeInv' /\ Blocks' = Blocks
    BY <1>1, TreeStays, Zenon
  <1>5. op' \in Ops /\ op'.pc \in {"idle", "main"} /\ (op'.pc = "main" => op'.batch # <<>>)
    BY <1>1, <1>2, ContinueTyped, Zenon
  <1>6. OpInv'
    BY <1>4, <1>5, Zenon DEF OpInv, Ops
  <1> QED
    BY <1>3, <1>4, <1>6, Zenon DEF IInv

(* A restart that goes back along the head's path.                         *)
LEMMA RewindKeeps ==
    ASSUME IInv, UNCHANGED <<tree, canon>>, headBlock' \in path[headBlock],
           disk \subseteq disk', op' \in Ops, op'.pc = "idle"
    PROVE  IInv'
  <1>1. TreeInv /\ StoreInv /\ CanonToHead /\ canon' = canon
    BY Zenon DEF IInv
  <1>2. TreeInv' /\ path' = path /\ num' = num /\ Blocks' = Blocks
    BY <1>1, TreeStays, Zenon
  <1>3. StoreInv'
    BY <1>1, <1>2, Zenon DEF StoreInv, TreeInv
  <1>4. \A n \in 0..num[headBlock'] :
           canon[n] \in path[headBlock'] /\ num[canon[n]] = n
    BY <1>1, CanonBelow, Zenon
  <1>5. CanonToHead'
    BY <1>1, <1>2, <1>4, Zenon DEF CanonToHead
  <1>6. OpInv'
    BY <1>2, Zenon DEF OpInv, Ops
  <1> QED
    BY <1>2, <1>3, <1>5, <1>6, Zenon DEF IInv

(* A new block is a leaf: the paths of the others stay.                    *)
LEMMA ForgeKeeps ==
    ASSUME IInv, NEW p \in Blocks, NEW d \in Diffs, NEW x \in BOOLEAN, Forge(p, d, x)
    PROVE  IInv'
  <1> DEFINE b == Cardinality(Blocks)
  <1>1. TreeInv /\ StoreInv /\ OpInv /\ CanonToHead /\ op.pc = "idle" /\ b <= MaxBlocks
        /\ op' = op /\ canon' = canon /\ headBlock' = headBlock /\ disk' = disk
    BY Zenon DEF IInv, Forge
  <1>2. PICK k \in Nat : k <= MaxBlocks /\ Blocks = 0..k
    BY <1>1, Zenon DEF TreeInv, Made
  <1>3. b = k + 1
    BY <1>2, FS_Interval
  <1>4. b \notin Blocks /\ p < b /\ b # Genesis /\ b \in Nat /\ \A c \in Blocks : c \in Nat
    BY <1>2, <1>3 DEF Genesis
  <1>5. /\ parent' = [c \in Blocks \cup {b} |-> IF c = b THEN p ELSE parent[c]]
        /\ num' = [c \in Blocks \cup {b} |-> IF c = b THEN num[p] + 1 ELSE num[c]]
        /\ path' = [c \in Blocks \cup {b} |-> IF c = b THEN path[p] \cup {b} ELSE path[c]]
    BY Zenon DEF Forge
  <1> HIDE DEF b
  <1>6. Blocks' = Blocks \cup {b} /\ Blocks' = 0..b /\ Made'
    <2>1. Blocks' = Blocks \cup {b}
      BY <1>5, Zenon DEF Blocks
    <2>2. Blocks' = 0..b
      BY <1>2, <1>3, <2>1
    <2> QED
      BY <1>1, <1>4, <2>1, <2>2, Zenon DEF Made
  <1>7. /\ \A c \in Blocks : parent'[c] = parent[c] /\ num'[c] = num[c] /\ path'[c] = path[c]
        /\ parent'[b] = p /\ num'[b] = num[p] + 1 /\ path'[b] = path[p] \cup {b}
    BY <1>4, <1>5, Zenon
  <1>8. \A c \in Blocks : path[c] \subseteq Blocks /\ num[c] \in Nat
    BY <1>1, Zenon DEF TreeInv
  <1>9. TreeInv'
    <2>1. parent' \in [Blocks' -> Blocks']
      BY <1>1, <1>5, <1>6, Zenon DEF TreeInv
    <2>2. num' \in [Blocks' -> Nat]
      BY <1>5, <1>6, <1>8
    <2>3. path' \in [Blocks' -> SUBSET Blocks']
      BY <1>5, <1>6, <1>8, Zenon
    <2>4. num'[Genesis] = 0 /\ path'[Genesis] = {Genesis}
      BY <1>1, <1>7, GenesisMade, Zenon DEF TreeInv
    <2>5. \A c \in Blocks' : c \in path'[c] /\ Genesis \in path'[c] /\ num'[c] <= c
      <3>1. \A c \in Blocks : c \in path'[c] /\ Genesis \in path'[c] /\ num'[c] <= c
        BY <1>1, <1>7, Zenon DEF TreeInv
      <3>2. num[p] <= p /\ Genesis \in path[p]
        BY <1>1, Zenon DEF TreeInv
      <3>3. num'[b] <= b /\ b \in path'[b] /\ Genesis \in path'[b]
        BY <1>4, <1>7, <1>8, <3>2
      <3> QED
        BY <1>6, <3>1, <3>3, Zenon
    <2>6. \A c \in Blocks' \ {Genesis} : /\ num'[c] = num'[parent'[c]] + 1
                                        /\ path'[c] = path'[parent'[c]] \cup {c}
      <3>1. \A c \in Blocks \ {Genesis} : /\ num'[c] = num'[parent'[c]] + 1
                                         /\ path'[c] = path'[parent'[c]] \cup {c}
        BY <1>1, <1>7, SMTT(20) DEF TreeInv
      <3> QED
        BY <1>6, <1>7, <3>1
    <2>7. \A c \in path[p] : c \in Blocks /\ num[c] <= num[p] /\ path[c] \subseteq path[p]
      BY <1>1, Zenon DEF TreeInv
    <2>8. \A c \in Blocks' : \A e, f \in path'[c] : num'[e] <= num'[f] => e \in path'[f]
      <3>1. ASSUME NEW c \in Blocks, NEW e \in path'[c], NEW f \in path'[c], num'[e] <= num'[f]
            PROVE  e \in path'[f]
        <4>1. /\ e \in path[c] /\ f \in path[c] /\ e \in Blocks /\ f \in Blocks
              /\ num[e] <= num[f]
          BY <1>7, <1>8, <3>1, Zenon
        <4>2. \A u, v \in path[c] : num[u] <= num[v] => u \in path[v]
          BY <1>1, Zenon DEF TreeInv
        <4> QED
          BY <1>7, <4>1, <4>2, Zenon
      <3>2. ASSUME NEW e \in path'[b], NEW f \in path'[b], num'[e] <= num'[f]
            PROVE  e \in path'[f]
        <4>1. CASE f = b
          BY <4>1, Zenon
        <4>2. CASE f # b
          <5>1. f \in path[p] /\ f \in Blocks /\ num'[f] = num[f] /\ num[f] <= num[p]
                /\ path'[f] = path[f]
            BY <1>7, <2>7, <4>2, Zenon
          <5>2. e # b
            BY <1>7, <1>8, <3>2, <5>1
          <5>3. e \in path[p] /\ num'[e] = num[e]
            BY <1>7, <2>7, <5>2, Zenon
          <5> QED
            BY <1>1, <3>2, <5>1, <5>3, Zenon DEF TreeInv
        <4> QED
          BY <4>1, <4>2, Zenon
      <3> QED
        BY <1>6, <3>1, <3>2, Zenon
    <2>9. \A c \in Blocks' : \A e \in path'[c] : path'[e] \subseteq path'[c] /\ num'[e] <= num'[c]
      <3>1. ASSUME NEW c \in Blocks, NEW e \in path'[c]
            PROVE  path'[e] \subseteq path'[c] /\ num'[e] <= num'[c]
        <4>1. e \in path[c] /\ e \in Blocks
          BY <1>7, <1>8, Zenon
        <4>2. path[e] \subseteq path[c] /\ num[e] <= num[c]
          BY <1>1, <4>1, Zenon DEF TreeInv
        <4> QED
          BY <1>7, <4>1, <4>2, Zenon
      <3>2. \A e \in path[p] : path'[e] \subseteq path'[b] /\ num'[e] <= num'[b]
        BY <1>7, <1>8, <2>7
      <3>3. num'[b] <= num'[b]
        BY <1>7, <1>8
      <3> QED
        BY <1>6, <1>7, <3>1, <3>2, <3>3
    <2>10. \A c \in Blocks' : \A n \in 0..num'[c] : \E e \in path'[c] : num'[e] = n
      <3>1. \A c \in Blocks : \A n \in 0..num'[c] : \E e \in path'[c] : num'[e] = n
        <4>1. SUFFICES ASSUME NEW c \in Blocks, NEW n \in 0..num'[c]
                       PROVE  \E e \in path'[c] : num'[e] = n
          BY Zenon
        <4>2. n \in 0..num[c] /\ path'[c] = path[c]
          BY <1>7, Zenon
        <4>3. PICK e \in path[c] : num[e] = n
          BY <1>1, <4>2, Zenon DEF TreeInv
        <4>4. num'[e] = num[e]
          BY <1>7, <1>8, Zenon
        <4> QED
          BY <4>2, <4>3, <4>4, Zenon
      <3>2. ASSUME NEW n \in 0..num'[b] PROVE \E e \in path'[b] : num'[e] = n
        <4>1. CASE n = num'[b]
          BY <1>7, <4>1, Zenon
        <4>2. CASE n # num'[b]
          <5>1. n \in 0..num[p]
            BY <1>7, <1>8, <4>2
          <5>2. PICK e \in path[p] : num[e] = n
            BY <1>1, <5>1, Zenon DEF TreeInv
          <5> QED
            BY <1>7, <2>7, <5>2, Zenon
        <4> QED
          BY <4>1, <4>2, Zenon
      <3> QED
        BY <1>6, <3>1, <3>2, Zenon
    <2> QED
      BY <1>6, <2>1, <2>2, <2>3, <2>4, <2>5, <2>6, <2>8, <2>9, <2>10, Zenon DEF TreeInv
  <1>10. StoreInv'
    BY <1>1, <1>6, Zenon DEF StoreInv
  <1>11. CanonToHead'
    <2>1. headBlock \in Blocks /\ num'[headBlock] = num[headBlock] /\ path'[headBlock] = path[headBlock]
      BY <1>1, <1>7, Zenon DEF StoreInv
    <2>2. \A n \in 0..num[headBlock] : canon[n] \in path[headBlock] /\ num'[canon[n]] = n
      BY <1>1, <1>7, <1>8, <2>1, Zenon DEF CanonToHead
    <2> QED
      BY <1>1, <2>1, <2>2, Zenon DEF CanonToHead
  <1>12. OpInv'
    <2>1. op \in Ops /\ Seq(Blocks) \subseteq Seq(Blocks')
      BY <1>1, <1>6 DEF OpInv
    <2>2. op' \in Ops'
      BY <1>1, <1>6, <2>1, Zenon DEF Ops
    <2> QED
      BY <1>1, <2>2, Zenon DEF OpInv
  <1> QED
    BY <1>9, <1>10, <1>11, <1>12, Zenon DEF IInv

(* One step of the block chain.                                            *)
LEMMA NextIInv == IInv /\ [Next]_vars => IInv'
  <1> SUFFICES ASSUME IInv, [Next]_vars PROVE IInv'
    BY Zenon
  <1>1. ASSUME NEW p \in Blocks, NEW d \in Diffs, NEW x \in BOOLEAN, Forge(p, d, x)
        PROVE  IInv'
    BY <1>1, ForgeKeeps, Zenon
  <1>2. ASSUME NEW s \in Batches, InsertChain(s) PROVE IInv'
    BY <1>2, InsertChainKeeps, Zenon
  <1>3. ASSUME NEW b \in Blocks, WriteBlockWithState(b) PROVE IInv'
    <2>1. <<>> \in Seq(Blocks) /\ writeBlock(b, <<>>)
      BY <1>3 DEF WriteBlockWithState
    <2> QED
      BY <2>1, WriteBlockKeeps, Zenon
  <1>4. CASE InsertBlock
    <2>1. Head(op.batch) \in Blocks /\ Tail(op.batch) \in Seq(Blocks)
      BY <1>4, BatchFacts, Zenon DEF InsertBlock
    <2>2. writeBlock(Head(op.batch), Tail(op.batch))
      BY <1>4, Zenon DEF InsertBlock
    <2> QED
      BY <2>1, <2>2, WriteBlockKeeps, Zenon
  <1>5. CASE InsertKnown
    <2>1. Head(op.batch) \in Blocks /\ Tail(op.batch) \in Seq(Blocks)
      BY <1>5, BatchFacts, Zenon DEF InsertKnown
    <2>2. op' = Adopt(Head(op.batch), Tail(op.batch))
          /\ UNCHANGED <<tree, canon, headBlock>> /\ disk \subseteq disk'
      BY <1>5, Zenon DEF InsertKnown
    <2> QED
      BY <2>1, <2>2, OpAdopt, Zenon
  <1>6. CASE ReorgBlock
    BY <1>6, ReorgBlockKeeps, Zenon
  <1>7. CASE ReorgIndexes
    BY <1>7, ReorgIndexesKeeps, Zenon
  <1>8. CASE WriteHead
    BY <1>8, WriteHeadKeeps
  <1>9. CASE SideBlock
    BY <1>9, SideBlockKeeps
  <1>10. CASE SideDone
    BY <1>10, SideDoneKeeps
  <1>11. CASE Crash
    <2>1. headBlock' \in path[headBlock]
      BY <1>11, NearestOnPath, Zenon DEF Crash, repair, IInv, StoreInv
    <2>2. UNCHANGED <<tree, canon>> /\ disk \subseteq disk' /\ op' = Idle
      BY <1>11, Zenon DEF Crash
    <2>3. op' \in Ops /\ op'.pc = "idle"
      BY <2>2, GenesisMade DEF Idle, Ops, IInv
    <2> QED
      BY <2>1, <2>2, <2>3, RewindKeeps, Zenon
  <1>12. CASE StopAndRestart
    <2>1. disk \subseteq disk' /\ headBlock' = Nearest(headBlock, disk')
          /\ UNCHANGED <<tree, canon, op>> /\ op.pc = "idle"
      BY <1>12, Zenon DEF StopAndRestart, repair
    <2>2. headBlock' \in path[headBlock]
      BY <2>1, NearestOnPath, Zenon DEF IInv, StoreInv
    <2>3. op' \in Ops /\ op'.pc = "idle"
      BY <2>1, Zenon DEF IInv, OpInv
    <2> QED
      BY <2>1, <2>2, <2>3, RewindKeeps, Zenon
  <1>13. CASE UNCHANGED vars
    <2>1. UNCHANGED <<tree, canon, headBlock, op>> /\ disk' = disk
      BY <1>13, Zenon DEF vars, tree
    <2>2. TreeInv' /\ Blocks' = Blocks /\ path' = path
      BY <2>1, TreeStays, Zenon DEF IInv
    <2>3. StoreInv' /\ CanonToHead'
      BY <2>1, IndexStays, Zenon DEF IInv
    <2>4. OpInv'
      BY <2>1, <2>2, Zenon DEF IInv, OpInv, Ops
    <2> QED
      BY <2>2, <2>3, <2>4, Zenon DEF IInv
  <1> QED
    BY <1>1, <1>2, <1>3, <1>4, <1>5, <1>6, <1>7, <1>8, <1>9, <1>10, <1>11, <1>12, <1>13, Zenon
       DEF Next

-----------------------------------------------------------------------------
(* Whatever the blocks weigh, in whatever batches they come and wherever a *)
(* crash falls in a reorganisation, the canonical numbers up to the head   *)
(* block lead along the head's own chain.                                  *)
THEOREM CanonLeadsToHead == Spec => []CanonToHead
  <1>1. IInv => CanonToHead
    BY Zenon DEF IInv
  <1> QED
    BY <1>1, InitIInv, NextIInv, PTL DEF Spec

-----------------------------------------------------------------------------
(* No block is being made the head.                                        *)
Quiet == op.pc \in {"idle", "main", "side"}

(* The data beside the tree and the index.                                 *)
DataInv ==
    /\ parent[Genesis] = Genesis
    /\ td \in [Blocks -> Nat] /\ holds \subseteq Blocks
    /\ stored \subseteq Blocks /\ Genesis \in stored /\ mem \subseteq Blocks
    /\ headHeader \in Blocks

(* The state of the head, or of the block on its way to become the head,   *)
(* is there, unless a stored chain has outgrown the head.                  *)
StateInv ==
    /\ Quiet => \/ HasState(headBlock)
                \/ \E b \in stored : num[b] >= num[headBlock] + TriesInMemory
    /\ ~Quiet => HasState(op.block)

-----------------------------------------------------------------------------
(* What a step of writeBlockWithState does to states, weights and op.      *)
LEMMA WriteBlockFacts ==
    ASSUME IInv, DataInv, NEW b \in Blocks, NEW rest \in Seq(Blocks), writeBlock(b, rest)
    PROVE  /\ stored' = stored \cup {b} /\ disk \subseteq disk' /\ b \in mem'
           /\ mem' \subseteq mem \cup {b}
           /\ \A c \in mem : c \in mem' \/ (num[c] + TriesInMemory <= num[b] /\ pruned')
           /\ pruned => pruned'
           /\ \/ op' = Adopt(b, rest) /\ td[headBlock] <= td[b]
              \/ op' = Continue(rest) /\ td[b] <= td[headBlock]
           /\ UNCHANGED <<tree, canon, headBlock, headHeader, lookup, torn>>
  <1>1. /\ stored' = stored \cup {b} /\ CollectTries(b)
        /\ UNCHANGED <<tree, canon, headBlock, headHeader, lookup, torn>>
    BY Zenon DEF writeBlock
  <1>2. /\ num[b] \in Nat /\ td[b] \in Nat /\ td[headBlock] \in Nat
        /\ \A c \in mem : num[c] \in Nat
    BY Zenon DEF IInv, TreeInv, StoreInv, DataInv
  <1>3. /\ disk \subseteq disk' /\ b \in mem' /\ mem' \subseteq mem \cup {b}
        /\ \A c \in mem : c \in mem' \/ (num[c] + TriesInMemory <= num[b] /\ pruned')
        /\ pruned => pruned'
    <2> DEFINE chosen == num[b] - TriesInMemory
    <2>1. chosen \in Int /\ num[b] > chosen
      BY <1>2, ChainAssumption
    <2>2. CASE chosen > 0
      <3>1. /\ disk \subseteq disk' /\ mem' = {c \in mem \cup {b} : num[c] > chosen}
            /\ pruned' = (pruned \/ \E c \in mem : num[c] <= chosen)
        BY <1>1, <2>2, Zenon DEF CollectTries
      <3>2. b \in mem' /\ mem' \subseteq mem \cup {b}
        BY <2>1, <3>1, Zenon
      <3>3. ASSUME NEW c \in mem, c \notin mem'
            PROVE  num[c] + TriesInMemory <= num[b] /\ pruned'
        <4>1. num[c] <= chosen
          BY <1>2, <2>1, <3>1, <3>3
        <4>2. pruned'
          BY <3>1, <4>1, Zenon
        <4>3. num[c] + TriesInMemory <= num[b]
          BY <1>2, <4>1, ChainAssumption
        <4> QED
          BY <4>2, <4>3, Zenon
      <3> QED
        BY <3>1, <3>2, <3>3, Zenon
    <2>3. CASE ~(chosen > 0)
      BY <1>1, <2>3, Zenon DEF CollectTries
    <2> QED
      BY <2>2, <2>3, Zenon
  <1>4. \/ op' = Adopt(b, rest) /\ td[headBlock] <= td[b]
        \/ op' = Continue(rest) /\ td[b] <= td[headBlock]
    <2> DEFINE Heavier == td[b] > td[headBlock]
               Lower == num[b] < num[headBlock]
    <2>1. /\ ForkChoice(b) \subseteq BOOLEAN
          /\ td[b] # td[headBlock] => ForkChoice(b) = {Heavier}
      <3>1. Heavier \in BOOLEAN /\ Lower \in BOOLEAN
        OBVIOUS
      <3>2. ForkChoice(b) = IF td[b] # td[headBlock] THEN {Heavier}
                            ELSE IF num[b] # num[headBlock] THEN {Lower} ELSE BOOLEAN
        BY Zenon DEF ForkChoice
      <3> HIDE DEF Heavier, Lower
      <3> QED
        BY <3>1, <3>2, Zenon
    <2>2. PICK reorg \in ForkChoice(b) : op' = IF reorg THEN Adopt(b, rest) ELSE Continue(rest)
      BY Zenon DEF writeBlock
    <2>3. td[b] # td[headBlock] => reorg = Heavier
      BY <2>1, <2>2, Zenon
    <2>4. CASE reorg
      <3>1. op' = Adopt(b, rest)
        BY <2>2, <2>4, Zenon
      <3>2. td[b] # td[headBlock] => Heavier
        BY <2>3, <2>4, Zenon
      <3> QED
        BY <1>2, <3>1, <3>2
    <2>5. CASE ~reorg
      <3>1. op' = Continue(rest)
        BY <2>2, <2>5, Zenon
      <3>2. td[b] # td[headBlock] => ~Heavier
        BY <2>3, <2>5, Zenon
      <3> QED
        BY <1>2, <3>1, <3>2
    <2> QED
      BY <2>4, <2>5, Zenon
  <1> QED
    BY <1>1, <1>3, <1>4, Zenon

(* The operation that makes b the head.                                    *)
LEMMA AdoptFacts ==
    ASSUME NEW b, NEW rest
    PROVE  LET o == Adopt(b, rest)
           IN  /\ o.pc = (IF parent[b] = headBlock THEN "head" ELSE "reorg")
               /\ o.batch = rest /\ o.block = b
               /\ o.new = (path[b] \ path[headBlock]) \ {b}
               /\ o.old = path[headBlock] \ path[b]
  BY Zenon DEF Adopt

(* The rest of the batch stays to be imported.                             *)
LEMMA ContinueFacts ==
    ASSUME NEW rest
    PROVE  Continue(rest).pc \in {"idle", "main"} /\ Continue(rest).batch = rest
  BY Zenon DEF Continue, Idle

(* A new block is a leaf that nothing else refers to.                      *)
LEMMA ForgeFacts ==
    ASSUME IInv, NEW p \in Blocks, NEW d \in Diffs, NEW x \in BOOLEAN, Forge(p, d, x)
    PROVE  \E b : /\ b \notin Blocks /\ Blocks' = Blocks \cup {b}
                  /\ \A c \in Blocks : /\ parent'[c] = parent[c] /\ num'[c] = num[c]
                                       /\ path'[c] = path[c] /\ td'[c] = td[c]
                  /\ path'[b] = path[p] \cup {b} /\ td'[b] = td[p] + d
                  /\ td' = [c \in Blocks' |-> td'[c]]
                  /\ \/ holds' = holds
                     \/ holds' = holds \cup {b} /\ path[p] \cap holds = {}
  <1> DEFINE b == Cardinality(Blocks)
  <1>1. /\ parent' = [c \in Blocks \cup {b} |-> IF c = b THEN p ELSE parent[c]]
        /\ num' = [c \in Blocks \cup {b} |-> IF c = b THEN num[p] + 1 ELSE num[c]]
        /\ path' = [c \in Blocks \cup {b} |-> IF c = b THEN path[p] \cup {b} ELSE path[c]]
        /\ td' = [c \in Blocks \cup {b} |-> IF c = b THEN td[p] + d ELSE td[c]]
        /\ \/ holds' = holds
           \/ holds' = holds \cup {b} /\ path[p] \cap holds = {}
    BY Zenon DEF Forge
  <1>2. b \notin Blocks
    <2>1. PICK k \in Nat : k <= MaxBlocks /\ Blocks = 0..k
      BY Zenon DEF IInv, TreeInv, Made
    <2>2. b = k + 1
      BY <2>1, FS_Interval
    <2> QED
      BY <2>1, <2>2
  <1> HIDE DEF b
  <1>3. Blocks' = Blocks \cup {b}
    BY <1>1, Zenon DEF Blocks
  <1>4. td' = [c \in Blocks' |-> td'[c]]
    BY <1>1, <1>3, Zenon
  <1>5. \A c \in Blocks : /\ parent'[c] = parent[c] /\ num'[c] = num[c]
                          /\ path'[c] = path[c] /\ td'[c] = td[c]
    BY <1>1, <1>2, Zenon
  <1>6. path'[b] = path[p] \cup {b} /\ td'[b] = td[p] + d
    BY <1>1, Zenon
  <1> QED
    BY <1>1, <1>2, <1>3, <1>4, <1>5, <1>6, Zenon

(* A batch is a sequence of blocks.                                        *)
LEMMA BatchTyped ==
    ASSUME NEW s \in Batches
    PROVE  s \in Seq(Blocks)
  <1>1. PICK k \in 1..MaxBatch : s \in [1..k -> Blocks \ {Genesis}]
    BY Zenon DEF Batches
  <1>2. k \in Nat /\ s \in [1..k -> Blocks]
    BY <1>1, ChainAssumption
  <1> QED
    BY <1>2

(* Steps that only decide what the import does next.                       *)
LEMMA QuietSteps ==
    ASSUME IInv, (\E s \in Batches : InsertChain(s)) \/ SideBlock \/ SideDone
    PROVE  /\ Quiet /\ Quiet' /\ stored \subseteq stored'
           /\ UNCHANGED <<tree, canon, headBlock, headHeader, lookup, disk, mem, pruned, torn>>
  <1>1. ASSUME NEW s \in Batches, InsertChain(s)
        PROVE  Quiet /\ op'.pc \in {"idle", "side", "main"}
    BY <1>1, BatchTyped, ImportTyped, Zenon DEF InsertChain, IInv, Quiet
  <1>2. ASSUME SideBlock PROVE Quiet /\ op'.pc = "side"
    BY <1>2, Zenon DEF SideBlock, IInv, OpInv, Ops, Quiet
  <1>3. ASSUME SideDone PROVE Quiet /\ op'.pc \in {"idle", "side", "main"}
    BY <1>3, StatelessTyped, BatchFacts, ImportTyped, Zenon DEF SideDone, IInv, Idle, Quiet
  <1>4. /\ stored \subseteq stored'
        /\ UNCHANGED <<tree, canon, headBlock, headHeader, lookup, disk, mem, pruned, torn>>
    BY Zenon DEF InsertChain, SideBlock, SideDone, history
  <1> QED
    BY <1>1, <1>2, <1>3, <1>4, Zenon DEF Quiet

-----------------------------------------------------------------------------
(* A new database has the genesis block only.                              *)
LEMMA DataInit == Init => DataInv
  BY ChainAssumption DEF Init, DataInv, Blocks, Genesis

(* Only Forge makes blocks; blocks are stored and executed once made.      *)
LEMMA DataNext == IInv /\ DataInv /\ [Next]_vars => DataInv'
  <1> SUFFICES ASSUME IInv, DataInv, [Next]_vars PROVE DataInv'
    BY Zenon
  <1>1. ASSUME UNCHANGED tree, stored' \subseteq Blocks, stored \subseteq stored',
               mem' \subseteq Blocks, headHeader' \in Blocks
        PROVE  DataInv'
    BY <1>1, Zenon DEF DataInv, tree, Blocks
  <1>2. ASSUME NEW p \in Blocks, NEW d \in Diffs, NEW x \in BOOLEAN, Forge(p, d, x)
        PROVE  DataInv'
    <2>1. PICK b : /\ b \notin Blocks /\ Blocks' = Blocks \cup {b}
                   /\ \A c \in Blocks : parent'[c] = parent[c] /\ td'[c] = td[c]
                   /\ td'[b] = td[p] + d /\ td' = [c \in Blocks' |-> td'[c]]
                   /\ holds' \subseteq holds \cup {b}
      BY <1>2, ForgeFacts
    <2>2. UNCHANGED <<stored, mem, headHeader>>
      BY <1>2, Zenon DEF Forge
    <2>3. Genesis \in Blocks
      BY GenesisMade, Zenon DEF IInv
    <2>4. \A c \in Blocks' : td'[c] \in Nat
      BY <2>1, ChainAssumption DEF DataInv
    <2>5. td' \in [Blocks' -> Nat]
      BY <2>1, <2>4, Zenon
    <2> QED
      BY <2>1, <2>2, <2>3, <2>5, Zenon DEF DataInv
  <1>3. ASSUME NEW b \in Blocks, NEW rest \in Seq(Blocks), writeBlock(b, rest)
        PROVE  DataInv'
    <2>1. /\ stored' = stored \cup {b} /\ mem' \subseteq mem \cup {b}
          /\ UNCHANGED <<tree, headHeader>>
      BY <1>3, WriteBlockFacts, Zenon
    <2> QED
      BY <1>1, <2>1, Zenon DEF DataInv
  <1>4. CASE InsertBlock
    BY <1>3, <1>4, BatchFacts, Zenon DEF InsertBlock
  <1>5. ASSUME NEW b \in Blocks, WriteBlockWithState(b) PROVE DataInv'
    <2>1. <<>> \in Seq(Blocks)
      OBVIOUS
    <2> QED
      BY <1>3, <1>5, <2>1, Zenon DEF WriteBlockWithState
  <1>6. ASSUME NEW b \in Blocks, writeHeadBlock(b), UNCHANGED <<tree, stored, mem>>
        PROVE  DataInv'
    <2>1. headHeader' \in {b, headHeader}
      BY <1>6, Zenon DEF writeHeadBlock
    <2> QED
      BY <1>1, <1>6, <2>1, Zenon DEF DataInv
  <1>7. CASE ReorgBlock
    <2>1. PICK b \in op.new : writeHeadBlock(b)
      BY <1>7, Zenon DEF ReorgBlock
    <2>2. b \in Blocks
      BY Zenon DEF IInv, OpInv, Ops
    <2> QED
      BY <1>6, <1>7, <2>1, <2>2, Zenon DEF ReorgBlock
  <1>8. CASE WriteHead
    BY <1>6, <1>8, BatchFacts, Zenon DEF WriteHead
  <1>9. CASE SideBlock
    <2>1. Head(op.batch) \in Blocks
      BY <1>9, BatchFacts, Zenon DEF SideBlock
    <2> QED
      BY <1>1, <1>9, <2>1, Zenon DEF SideBlock, DataInv
  <1>10. CASE (\E s \in Batches : InsertChain(s)) \/ InsertKnown \/ ReorgIndexes \/ SideDone
              \/ Crash \/ StopAndRestart \/ UNCHANGED vars
    <2>1. UNCHANGED <<tree, stored, headHeader>> /\ mem' \subseteq mem
      BY <1>10, Zenon DEF InsertChain, InsertKnown, ReorgIndexes, SideDone, Crash, StopAndRestart,
                   vars, tree
    <2> QED
      BY <1>1, <2>1, Zenon DEF DataInv
  <1> QED
    BY <1>2, <1>4, <1>5, <1>7, <1>8, <1>9, <1>10, Zenon DEF Next

-----------------------------------------------------------------------------
(* The genesis block has its state.                                        *)
LEMMA StateInit == Init => StateInv
  BY DEF Init, StateInv, Quiet, HasState, Idle

(* States are dropped only when a block at least TriesInMemory above them  *)
(* is stored; a block is adopted with its state, and a restart goes back   *)
(* to one.                                                                 *)
LEMMA StateNext == IInv /\ DataInv /\ StateInv /\ [Next]_vars => StateInv'
  <1> SUFFICES ASSUME IInv, DataInv, StateInv, [Next]_vars PROVE StateInv'
    BY Zenon
  <1>1. ASSUME NEW p \in Blocks, NEW d \in Diffs, NEW x \in BOOLEAN, Forge(p, d, x)
        PROVE  StateInv'
    <2>1. \A c \in Blocks : num'[c] = num[c]
      <3>1. PICK b : \A c \in Blocks : num'[c] = num[c]
        BY <1>1, ForgeFacts, Zenon
      <3> QED
        BY <3>1, Zenon
    <2>2. UNCHANGED <<stored, headBlock, disk, mem, op>>
      BY <1>1, Zenon DEF Forge
    <2>3. headBlock \in Blocks /\ stored \subseteq Blocks
      BY Zenon DEF IInv, StoreInv, DataInv
    <2> QED
      BY <2>1, <2>2, <2>3, Zenon DEF StateInv, Quiet, HasState
  <1>2. ASSUME Quiet, NEW b \in Blocks, NEW rest \in Seq(Blocks), writeBlock(b, rest)
        PROVE  StateInv'
    <2>1. /\ stored' = stored \cup {b} /\ disk \subseteq disk' /\ b \in mem'
          /\ \A c \in mem : c \in mem' \/ num[c] + TriesInMemory <= num[b]
          /\ op' = Adopt(b, rest) \/ op' = Continue(rest)
          /\ num' = num /\ headBlock' = headBlock
      BY <1>2, WriteBlockFacts, Zenon DEF tree
    <2>2. CASE op' = Adopt(b, rest)
      <3>1. op'.pc \in {"head", "reorg"} /\ op'.block = b
        BY <2>2, AdoptFacts
      <3> QED
        BY <2>1, <3>1, Zenon DEF StateInv, Quiet, HasState
    <2>3. CASE op' = Continue(rest)
      <3>1. op'.pc \in {"idle", "main"}
        BY <2>3, ContinueFacts, Zenon
      <3>2. num[b] \in Nat /\ num[headBlock] \in Nat
        BY Zenon DEF IInv, TreeInv, StoreInv
      <3>3. CASE HasState(headBlock)
        BY <2>1, <3>1, <3>2, <3>3, ChainAssumption, Zenon DEF StateInv, Quiet, HasState
      <3>4. CASE ~HasState(headBlock)
        BY <1>2, <2>1, <3>1, <3>4, Zenon DEF StateInv, Quiet
      <3> QED
        BY <3>3, <3>4, Zenon
    <2> QED
      BY <2>1, <2>2, <2>3, Zenon
  <1>3. CASE InsertBlock
    BY <1>2, <1>3, BatchFacts, Zenon DEF InsertBlock, Quiet
  <1>4. ASSUME NEW b \in Blocks, WriteBlockWithState(b) PROVE StateInv'
    <2>1. <<>> \in Seq(Blocks)
      OBVIOUS
    <2> QED
      BY <1>2, <1>4, <2>1, Zenon DEF WriteBlockWithState, Quiet
  <1>5. CASE InsertKnown
    <2>1. op'.pc \in {"head", "reorg"} /\ op'.block = Head(op.batch)
      BY <1>5, AdoptFacts DEF InsertKnown
    <2>2. HasState(Head(op.batch)) /\ UNCHANGED <<disk, mem>>
      BY <1>5, Zenon DEF InsertKnown, Verdict
    <2> QED
      BY <2>1, <2>2, Zenon DEF StateInv, Quiet, HasState
  <1>6. CASE ReorgBlock \/ ReorgIndexes
    <2>1. /\ op.pc = "reorg" /\ op'.pc \in {"reorg", "head"} /\ op'.block = op.block
          /\ UNCHANGED <<disk, mem>>
      BY <1>6, Zenon DEF ReorgBlock, ReorgIndexes, IInv, OpInv, Ops
    <2> QED
      BY <2>1, Zenon DEF StateInv, Quiet, HasState
  <1>7. CASE WriteHead
    <2>1. op.pc = "head" /\ op'.pc \in {"idle", "main"} /\ headBlock' = op.block
          /\ UNCHANGED <<disk, mem>>
      BY <1>7, ContinueFacts, Zenon DEF WriteHead, writeHeadBlock
    <2> QED
      BY <2>1, Zenon DEF StateInv, Quiet, HasState
  <1>8. ASSUME Quiet, Quiet', UNCHANGED <<num, headBlock, disk, mem>>, stored \subseteq stored'
        PROVE  StateInv'
    BY <1>8, Zenon DEF StateInv, HasState
  <1>9. CASE (\E s \in Batches : InsertChain(s)) \/ SideBlock \/ SideDone
    BY <1>8, <1>9, QuietSteps, Zenon DEF tree
  <1>10. CASE Crash
    <2>1. headBlock' \in disk' /\ op'.pc = "idle"
      BY <1>10, NearestOnPath, Zenon DEF Crash, repair, IInv, StoreInv, Idle
    <2> QED
      BY <2>1, Zenon DEF StateInv, Quiet, HasState
  <1>11. CASE StopAndRestart
    <2>1. disk \subseteq disk' /\ headBlock' = Nearest(headBlock, disk') /\ op' = op
          /\ op.pc = "idle"
      BY <1>11, Zenon DEF StopAndRestart, repair
    <2>2. headBlock' \in disk'
      BY <2>1, NearestOnPath, Zenon DEF IInv, StoreInv
    <2> QED
      BY <2>1, <2>2, Zenon DEF StateInv, Quiet, HasState
  <1>12. CASE UNCHANGED vars
    BY <1>12, Zenon DEF vars, StateInv, Quiet, HasState
  <1> QED
    BY <1>1, <1>3, <1>4, <1>5, <1>6, <1>7, <1>9, <1>10, <1>11, <1>12, Zenon DEF Next

-----------------------------------------------------------------------------
(* Each block of the sequence is the parent of the next.                   *)
Linked(s) == \A i \in 1..(Len(s) - 1) : parent[s[i + 1]] = s[i]

(* As long as no state was lost: what is stored was executed, parents      *)
(* first; no stored block is heavier than the head or, while a block is    *)
(* being adopted, than that block; the blocks still to be imported are     *)
(* new.                                                                    *)
WeightInv ==
    ~pruned =>
        /\ op.pc # "side" /\ Linked(op.batch)
        /\ op.batch # <<>> => Head(op.batch) \notin stored
        /\ \A b \in stored : parent[b] \in stored /\ HasState(b)
        /\ Quiet => \A b \in stored : td[b] <= td[headBlock]
        /\ ~Quiet => \A b \in stored : td[b] <= td[op.block]

(* The rest of a linked sequence is linked, and starts with a child of     *)
(* what was taken.                                                         *)
LEMMA LinkedTail ==
    ASSUME NEW S, NEW s \in Seq(S), s # <<>>, Linked(s)
    PROVE  Linked(Tail(s)) /\ (Tail(s) # <<>> => parent[Head(Tail(s))] = Head(s))
  <1>1. Len(s) \in Nat \ {0}
    BY Nonempty, Zenon
  <1>2. /\ Tail(s) \in Seq(S) /\ Len(Tail(s)) = Len(s) - 1
        /\ \A i \in 1..Len(Tail(s)) : Tail(s)[i] = s[i + 1]
    BY Nonempty, Zenon
  <1>3. Linked(Tail(s))
    <2>1. SUFFICES ASSUME NEW i \in 1..(Len(Tail(s)) - 1)
                   PROVE  parent[Tail(s)[i + 1]] = Tail(s)[i]
      BY Zenon DEF Linked
    <2>2. Tail(s)[i] = s[i + 1] /\ Tail(s)[i + 1] = s[i + 1 + 1] /\ i + 1 \in 1..(Len(s) - 1)
      BY <1>1, <1>2
    <2> QED
      BY <2>2, Zenon DEF Linked
  <1>4. ASSUME Tail(s) # <<>> PROVE parent[Head(Tail(s))] = Head(s)
    <2>1. Len(Tail(s)) \in Nat \ {0} /\ Head(Tail(s)) = Tail(s)[1] /\ Head(s) = s[1]
      BY <1>2, <1>4, Nonempty, Zenon
    <2>2. Tail(s)[1] = s[1 + 1] /\ 1 \in 1..(Len(s) - 1)
      BY <1>1, <1>2, <2>1
    <2> QED
      BY <2>1, <2>2, Zenon DEF Linked
  <1> QED
    BY <1>3, <1>4, Zenon

(* What SkipKnown leaves is linked if the batch was, and starts with a     *)
(* block that is not known or is heavier than the head.                    *)
LEMMA SkipKnownFacts ==
    ASSUME NEW s \in Seq(Blocks), Linked(s)
    PROVE  LET r == SkipKnown(s)
           IN  /\ Linked(r)
               /\ r # <<>> => ~(Verdict(Head(r)) = "known" /\ td[Head(r)] <= td[headBlock])
  <1> DEFINE Behind(b) == Verdict(b) = "known" /\ td[b] <= td[headBlock]
             behind == {k \in 0..Len(s) : \A i \in 1..k : Behind(s[i])}
             last == CHOOSE k \in behind : \A j \in behind : j <= k
             r == SkipKnown(s)
  <1>1. Len(s) \in Nat
    OBVIOUS
  <1>2. behind \subseteq Nat /\ behind # {} /\ \A x \in behind : x <= Len(s)
    <2>1. 0 \in behind
      BY <1>1
    <2>2. behind \subseteq 0..Len(s)
      BY Zenon
    <2> QED
      BY <1>1, <2>1, <2>2
  <1>3. last \in behind /\ \A j \in behind : j <= last
    <2> HIDE DEF behind
    <2>1. \E x \in behind : \A y \in behind : y <= x
      BY <1>1, <1>2, Greatest, Zenon
    <2> QED
      BY <2>1, Zenon
  <1>4. r = SubSeq(s, last + 1, Len(s))
    BY Zenon DEF SkipKnown
  <1> HIDE DEF last, r, Behind
  <1>5. last \in 0..Len(s)
    BY <1>3, Zenon
  <1>6. /\ Len(r) = Len(s) - last
        /\ \A i \in 1..Len(r) : r[i] = s[last + i]
        /\ r \in Seq(Blocks)
    BY <1>4, <1>5, Suffix, Zenon
  <1>7. Linked(r)
    <2>1. SUFFICES ASSUME NEW i \in 1..(Len(r) - 1) PROVE parent[r[i + 1]] = r[i]
      BY Zenon DEF Linked
    <2>2. /\ i \in 1..Len(r) /\ i + 1 \in 1..Len(r) /\ last + i \in 1..(Len(s) - 1)
          /\ last + (i + 1) = (last + i) + 1
      BY <1>1, <1>5, <1>6
    <2>3. r[i] = s[last + i] /\ r[i + 1] = s[(last + i) + 1]
      BY <1>6, <2>2
    <2> QED
      BY <2>2, <2>3, Zenon DEF Linked
  <1>8. ASSUME r # <<>> PROVE ~Behind(Head(r))
    <2>1. Len(r) \in Nat \ {0} /\ Head(r) = r[1]
      BY <1>6, <1>8, Nonempty, Zenon
    <2>2. Head(r) = s[last + 1] /\ last + 1 \in 0..Len(s)
      BY <1>1, <1>5, <1>6, <2>1
    <2>3. last + 1 \notin behind
      BY <1>3, <1>5
    <2>4. \A i \in 1..last : Behind(s[i])
      BY <1>3, Zenon
    <2>5. PICK i \in 1..(last + 1) : ~Behind(s[i])
      BY <2>2, <2>3, Zenon
    <2>6. i = last + 1
      BY <1>5, <2>4, <2>5
    <2> QED
      BY <2>2, <2>5, <2>6, Zenon
  <1> QED
    BY <1>7, <1>8, Zenon DEF r, Behind

(* The genesis block is all there is to weigh.                             *)
LEMMA WeightInit == Init => WeightInv
  <1> SUFFICES ASSUME Init PROVE WeightInv
    OBVIOUS
  <1>1. /\ op = Idle /\ stored = {Genesis} /\ disk = {Genesis} /\ headBlock = Genesis
        /\ parent[Genesis] = Genesis /\ td[Genesis] = 0
    BY Zenon DEF Init
  <1>2. op.pc = "idle" /\ op.batch = <<>>
    BY <1>1, Zenon DEF Idle
  <1> QED
    BY <1>1, <1>2 DEF WeightInv, Quiet, HasState, Linked

(* Without lost states a batch contains nothing known once its beginning   *)
(* was skipped, so a block becomes the head by its weight only.            *)
LEMMA WeightNext == IInv /\ DataInv /\ WeightInv /\ [Next]_vars => WeightInv'
  <1> SUFFICES ASSUME IInv, DataInv, WeightInv, [Next]_vars, ~pruned' PROVE WeightInv'
    BY Zenon DEF WeightInv
  <1>1. op.batch \in Seq(Blocks) /\ headBlock \in Blocks /\ op.block \in Blocks
        /\ \A b \in Blocks : td[b] \in Nat
    BY BatchFacts, Zenon DEF IInv, StoreInv, DataInv
  <1>2. ASSUME NEW p \in Blocks, NEW d \in Diffs, NEW x \in BOOLEAN, Forge(p, d, x)
        PROVE  WeightInv'
    <2>1. \A c \in Blocks : parent'[c] = parent[c] /\ td'[c] = td[c]
      <3>1. PICK b : \A c \in Blocks : parent'[c] = parent[c] /\ td'[c] = td[c]
        BY <1>2, ForgeFacts, Zenon
      <3> QED
        BY <3>1, Zenon
    <2>2. UNCHANGED <<stored, headBlock, disk, mem, op, pruned>> /\ op.pc = "idle"
      BY <1>2, Zenon DEF Forge, history
    <2>3. stored \subseteq Blocks
      BY Zenon DEF DataInv
    <2>4. Linked(op.batch) => Linked(op.batch)'
      <3>1. \A i \in 1..(Len(op.batch) - 1) : op.batch[i + 1] \in Blocks
        BY <1>1
      <3> QED
        BY <2>1, <2>2, <3>1, Zenon DEF Linked
    <2> QED
      BY <1>1, <2>1, <2>2, <2>3, <2>4, Zenon DEF WeightInv, Quiet, HasState
  <1>3. ASSUME NEW s \in Batches, InsertChain(s) PROVE WeightInv'
    <2>1. s \in Seq(Blocks) /\ Linked(s)
      BY BatchTyped, Zenon DEF Batches, Linked
    <2> DEFINE r == SkipKnown(s)
    <2>2. /\ r \in Seq(Blocks) /\ Linked(r)
          /\ r # <<>> => ~(Verdict(Head(r)) = "known" /\ td[Head(r)] <= td[headBlock])
      BY <2>1, SkipKnownTyped, SkipKnownFacts, Zenon
    <2>3. op' = Import(r) /\ op.pc = "idle"
          /\ UNCHANGED <<tree, stored, headBlock, disk, mem, pruned>>
      BY <1>3, Zenon DEF InsertChain, history
    <2> HIDE DEF r
    <2>4. /\ \A b \in stored : parent[b] \in stored /\ HasState(b)
          /\ \A b \in stored : td[b] <= td[headBlock]
      BY <2>3, Zenon DEF WeightInv, Quiet
    <2>5. CASE op' = Idle
      <3>1. op'.pc = "idle" /\ op'.batch = <<>>
        BY <2>5, Zenon DEF Idle
      <3>2. Linked(op.batch)'
        BY <3>1 DEF Linked
      <3> QED
        BY <2>3, <2>4, <3>1, <3>2, Zenon DEF WeightInv, Quiet, HasState, tree
    <2>6. CASE op' # Idle
      <3>1. r # <<>> /\ Verdict(Head(r)) # "unknown"
            /\ (Verdict(Head(r)) # "pruned" => op' = [Idle EXCEPT !.pc = "main", !.batch = r])
        BY <2>3, <2>6, Zenon DEF Import
      <3>2. Head(r) \in Blocks
        BY <2>2, <3>1, Nonempty, Zenon
      <3>3. Verdict(Head(r)) # "pruned"
        BY <2>4, Zenon DEF Verdict
      <3>4. Head(r) \notin stored
        BY <1>1, <2>2, <2>4, <3>1, <3>2, Zenon DEF Verdict
      <3>5. op'.pc = "main" /\ op'.batch = r
        BY <3>1, <3>3, Zenon DEF Idle
      <3>6. Linked(op.batch)'
        BY <2>2, <2>3, <3>5, Zenon DEF Linked, tree
      <3> QED
        BY <2>3, <2>4, <3>4, <3>5, <3>6, Zenon DEF WeightInv, Quiet, HasState, tree
    <2> QED
      BY <2>5, <2>6, Zenon
  <1>4. ASSUME Quiet, NEW b \in Blocks, b \notin stored, parent[b] \in stored,
               NEW rest \in Seq(Blocks), Linked(rest),
               rest # <<>> => parent[Head(rest)] = b,
               writeBlock(b, rest)
        PROVE  WeightInv'
    <2>1. /\ stored' = stored \cup {b} /\ disk \subseteq disk' /\ b \in mem'
          /\ mem \subseteq mem' /\ ~pruned
          /\ \/ op' = Adopt(b, rest) /\ td[headBlock] <= td[b]
             \/ op' = Continue(rest) /\ td[b] <= td[headBlock]
          /\ UNCHANGED <<parent, td, headBlock>>
      BY <1>4, WriteBlockFacts, Zenon DEF tree
    <2>2. /\ \A c \in stored : parent[c] \in stored /\ HasState(c) /\ td[c] <= td[headBlock]
          /\ stored \subseteq Blocks
      BY <1>4, <2>1, Zenon DEF WeightInv, DataInv
    <2>3. \A c \in stored' : parent'[c] \in stored' /\ HasState(c)'
      BY <1>4, <2>1, <2>2, Zenon DEF HasState
    <2>4. rest # <<>> => Head(rest) \notin stored'
      <3>1. SUFFICES ASSUME rest # <<>>, Head(rest) \in stored' PROVE FALSE
        BY Zenon
      <3>2. parent[Head(rest)] = b
        BY <1>4, <3>1, Zenon
      <3>3. Head(rest) = b
        BY <1>4, <2>1, <2>2, <3>1, <3>2, Zenon
      <3>4. b # Genesis
        BY <1>4, Zenon DEF DataInv
      <3>5. num[b] = num[parent[b]] + 1 /\ num[b] \in Nat
        BY <3>4, Zenon DEF IInv, TreeInv
      <3> QED
        BY <3>2, <3>3, <3>5
    <2>5. CASE op' = Adopt(b, rest) /\ td[headBlock] <= td[b]
      <3>1. op'.pc \in {"head", "reorg"} /\ op'.block = b /\ op'.batch = rest
        BY <2>5, AdoptFacts
      <3>2. \A c \in stored' : td'[c] <= td'[op'.block]
        BY <1>1, <2>1, <2>2, <2>5, <3>1
      <3>3. Linked(op.batch)'
        BY <1>4, <2>1, <3>1, Zenon DEF Linked
      <3> QED
        BY <2>3, <2>4, <3>1, <3>2, <3>3, Zenon DEF WeightInv, Quiet
    <2>6. CASE op' = Continue(rest) /\ td[b] <= td[headBlock]
      <3>1. op'.pc \in {"idle", "main"} /\ op'.batch = rest
        BY <2>6, ContinueFacts, Zenon
      <3>2. \A c \in stored' : td'[c] <= td'[headBlock']
        BY <1>1, <2>1, <2>2, <2>6, Zenon
      <3>3. Linked(op.batch)'
        BY <1>4, <2>1, <3>1, Zenon DEF Linked
      <3> QED
        BY <2>3, <2>4, <3>1, <3>2, <3>3, Zenon DEF WeightInv, Quiet
    <2> QED
      BY <2>1, <2>5, <2>6, Zenon
  <1>5. CASE InsertBlock
    <2>1. /\ op.pc = "main" /\ op.batch # <<>>
          /\ Head(op.batch) \in Blocks /\ Tail(op.batch) \in Seq(Blocks)
          /\ writeBlock(Head(op.batch), Tail(op.batch))
      BY <1>5, BatchFacts, Zenon DEF InsertBlock
    <2>2. ~pruned
      BY <2>1, WriteBlockFacts, Zenon
    <2>3. Linked(op.batch) /\ Head(op.batch) \notin stored /\ parent[Head(op.batch)] \in stored
      BY <1>5, <2>1, <2>2, Zenon DEF WeightInv, InsertBlock, Verdict
    <2>4. Linked(Tail(op.batch))
          /\ (Tail(op.batch) # <<>> => parent[Head(Tail(op.batch))] = Head(op.batch))
      BY <1>1, <2>1, <2>3, LinkedTail, Zenon
    <2> QED
      BY <1>4, <2>1, <2>3, <2>4, Zenon DEF Quiet
  <1>6. ASSUME NEW b \in Blocks, WriteBlockWithState(b) PROVE WeightInv'
    <2>1. <<>> \in Seq(Blocks) /\ Linked(<<>>)
      BY DEF Linked
    <2> QED
      BY <1>4, <1>6, <2>1, Zenon DEF WriteBlockWithState, Quiet
  <1>7. CASE InsertKnown
    <2>1. ~pruned /\ op.batch # <<>> /\ Head(op.batch) \in stored
      BY <1>7, BatchFacts, Zenon DEF InsertKnown, history, Verdict
    <2> QED
      BY <2>1, Zenon DEF WeightInv
  <1>8. CASE ReorgBlock \/ ReorgIndexes
    <2>1. /\ op.pc = "reorg" /\ op'.pc \in {"reorg", "head"} /\ op'.block = op.block
          /\ op'.batch = op.batch
          /\ UNCHANGED <<tree, stored, disk, mem, pruned>>
      BY <1>8, Zenon DEF ReorgBlock, ReorgIndexes, IInv, OpInv, Ops, history
    <2>2. Linked(op.batch) => Linked(op.batch)'
      BY <2>1, Zenon DEF Linked, tree
    <2> QED
      BY <2>1, <2>2, Zenon DEF WeightInv, Quiet, HasState, tree
  <1>9. CASE WriteHead
    <2>1. /\ op.pc = "head" /\ op'.pc \in {"idle", "main"} /\ headBlock' = op.block
          /\ op'.batch = op.batch
          /\ UNCHANGED <<tree, stored, disk, mem, pruned>>
      BY <1>9, ContinueFacts, Zenon DEF WriteHead, writeHeadBlock, history
    <2>2. Linked(op.batch) => Linked(op.batch)'
      BY <2>1, Zenon DEF Linked, tree
    <2> QED
      BY <2>1, <2>2, Zenon DEF WeightInv, Quiet, HasState, tree
  <1>10. CASE SideBlock \/ SideDone
    <2>1. op.pc = "side" /\ ~pruned
      BY <1>10 DEF SideBlock, SideDone, history
    <2> QED
      BY <2>1, Zenon DEF WeightInv
  <1>11. CASE Crash \/ StopAndRestart
    BY <1>11, Zenon DEF Crash, StopAndRestart
  <1>12. CASE UNCHANGED vars
    <2>1. UNCHANGED <<tree, stored, headBlock, disk, mem, op, pruned>>
      BY <1>12, Zenon DEF vars, tree
    <2>2. Linked(op.batch) => Linked(op.batch)'
      BY <2>1, Zenon DEF Linked, tree
    <2> QED
      BY <2>1, <2>2, Zenon DEF WeightInv, Quiet, HasState, tree
  <1> QED
    BY <1>2, <1>3, <1>5, <1>6, <1>7, <1>8, <1>9, <1>10, <1>11, <1>12 DEF Next

-----------------------------------------------------------------------------
(* l is the lookup entry that the blocks of S call for.                    *)
Exact(l, S) == {l} \ {None} = {num[b] : b \in S \cap holds}

(* While a reorganisation is under way: the blocks already written that    *)
(* hold the transaction, and the chain there was before without the block  *)
(* that is being adopted.                                                  *)
Written == op.new \cap path[headBlock] \cap holds
Before == op.old \cup ((path[op.block] \ {op.block}) \ op.new)

(* A chain holds the transaction once.  Between operations the entry is    *)
(* the one the head's chain calls for; in a reorganisation it is that of   *)
(* the written part, else that of the chain before; then that of the new   *)
(* chain, unless its last block, still to be written, holds the            *)
(* transaction.                                                            *)
LookInv ==
    /\ \A b \in Blocks : \A c, d \in path[b] \cap holds : c = d
    /\ ~torn =>
        /\ Quiet => Exact(lookup, path[headBlock])
        /\ op.pc = "reorg" /\ op.block \notin holds =>
              /\ \A w \in Written : lookup = num[w]
              /\ Written = {} => Exact(lookup, Before)
              /\ \A c, d \in Before \cap holds : c = d
              /\ op.old \cap path[op.block] = {}
        /\ op.pc = "head" /\ op.block \notin holds => Exact(lookup, path[op.block])

(* The entry that one holder calls for ...                                 *)
LEMMA ExactOne ==
    ASSUME NEW S, NEW b \in S \cap holds, num[b] # None, \A c \in S \cap holds : c = b
    PROVE  Exact(num[b], S)
  <1>1. S \cap holds = {b}
    BY Zenon
  <1> QED
    BY <1>1, Zenon DEF Exact

(* ... and that no holder calls for.                                       *)
LEMMA ExactNone ==
    ASSUME NEW S, S \cap holds = {}
    PROVE  Exact(None, S)
  BY Zenon DEF Exact

(* Only the holders count.                                                 *)
LEMMA ExactSame ==
    ASSUME NEW l, NEW S, NEW T, S \cap holds = T \cap holds, Exact(l, S)
    PROVE  Exact(l, T)
  BY Zenon DEF Exact

(* No block holds the transaction.                                         *)
LEMMA LookInit == Init => LookInv
  <1> SUFFICES ASSUME Init PROVE LookInv
    OBVIOUS
  <1>1. holds = {} /\ lookup = None /\ op = Idle
    BY Zenon DEF Init
  <1>2. op.pc = "idle"
    BY <1>1, Zenon DEF Idle
  <1>3. Exact(lookup, path[headBlock])
    BY <1>1, ExactNone, Zenon
  <1> QED
    BY <1>1, <1>2, <1>3, Zenon DEF LookInv

(* The parts of LookInv in a state with the same tree.                     *)
LEMMA LookStays ==
    ASSUME UNCHANGED tree
    PROVE  /\ Blocks' = Blocks /\ num' = num /\ path' = path /\ holds' = holds /\ td' = td
           /\ parent' = parent
           /\ (Exact(lookup, path[headBlock])' <=> Exact(lookup', path[headBlock']))
           /\ (Exact(lookup, path[op.block])' <=> Exact(lookup', path[op'.block]))
           /\ (Exact(lookup, Before)' <=>
                  Exact(lookup', op'.old \cup ((path[op'.block] \ {op'.block}) \ op'.new)))
  BY Zenon DEF tree, Exact, Before, Blocks

(* The operation that makes b the head finds the entry in order.           *)
LEMMA LookAdopt ==
    ASSUME IInv, DataInv, LookInv, Quiet, NEW b \in Blocks, NEW rest, op' = Adopt(b, rest),
           UNCHANGED <<tree, headBlock, lookup, torn>>
    PROVE  LookInv'
  <1>1. /\ op'.pc = (IF parent[b] = headBlock THEN "head" ELSE "reorg") /\ op'.block = b
        /\ op'.new = (path[b] \ path[headBlock]) \ {b} /\ op'.old = path[headBlock] \ path[b]
    BY AdoptFacts
  <1>2. /\ Blocks' = Blocks /\ num' = num /\ path' = path /\ holds' = holds
        /\ (Exact(lookup, path[op.block])' <=> Exact(lookup', path[op'.block]))
        /\ (Exact(lookup, Before)' <=>
               Exact(lookup', op'.old \cup ((path[op'.block] \ {op'.block}) \ op'.new)))
    BY LookStays, Zenon
  <1>3. SUFFICES ASSUME ~torn, b \notin holds
                 PROVE  /\ parent[b] = headBlock => Exact(lookup, path[b])
                        /\ Written' = {}
                        /\ Exact(lookup, Before)'
                        /\ \A c, d \in Before' \cap holds : c = d
    <2>1. \A c \in Blocks' : \A d, e \in path'[c] \cap holds' : d = e
      BY <1>2, Zenon DEF LookInv
    <2>2. op'.old \cap path'[op'.block] = {}
      BY <1>1, <1>2, Zenon
    <2>3. op'.pc \in {"head", "reorg"} /\ (op'.pc = "head" => parent[b] = headBlock)
          /\ op'.block = b /\ holds' = holds /\ torn' = torn
      BY <1>1, <1>2, Zenon
    <2>4. parent[b] = headBlock /\ Exact(lookup, path[b]) => Exact(lookup, path[op.block])'
      BY <1>1, <1>2, Zenon
    <2> QED
      BY <2>1, <2>2, <2>3, <2>4 DEF LookInv, Quiet
  <1>4. Exact(lookup, path[headBlock]) /\ headBlock \in Blocks
    BY <1>3, Zenon DEF LookInv, IInv, StoreInv
  <1>5. ASSUME parent[b] = headBlock PROVE Exact(lookup, path[b])
    <2>1. path[b] \cap holds = path[headBlock] \cap holds
      <3>1. CASE b = Genesis
        BY <1>5, <3>1, Zenon DEF DataInv
      <3>2. CASE b # Genesis
        <4>1. path[b] = path[headBlock] \cup {b}
          BY <1>5, <3>2, Zenon DEF IInv, TreeInv
        <4> QED
          BY <1>3, <4>1, Zenon
      <3> QED
        BY <3>1, <3>2, Zenon
    <2> QED
      BY <1>4, <2>1, ExactSame, Zenon
  <1>6. Before' \cap holds = path[headBlock] \cap holds
    <2>1. Before' = op'.old \cup ((path[b] \ {b}) \ op'.new)
      BY <1>1, <1>2, Zenon DEF Before
    <2>2. Before' = path[headBlock] \ {b} \/ Before' = path[headBlock]
      BY <1>1, <2>1
    <2> QED
      BY <1>3, <2>2, Zenon
  <1>7. Exact(lookup, Before)'
    <2>1. Exact(lookup', op'.old \cup ((path[op'.block] \ {op'.block}) \ op'.new))
      BY <1>1, <1>2, <1>4, <1>6, ExactSame, Zenon DEF Before
    <2> QED
      BY <1>2, <2>1, Zenon
  <1>8. Written' = {}
    BY <1>1, <1>2, Zenon DEF Written
  <1>9. \A c, d \in Before' \cap holds : c = d
    BY <1>4, <1>6, Zenon DEF LookInv
  <1> QED
    BY <1>5, <1>7, <1>8, <1>9, Zenon


(* One batch of reorg: the block written decides if it holds the           *)
(* transaction; the blocks written before it are below it.                 *)
LEMMA LookReorgBlock ==
    ASSUME IInv, DataInv, LookInv, ReorgBlock
    PROVE  LookInv'
  <1>1. PICK b \in op.new \ path[headBlock] :
              /\ writeHeadBlock(b) /\ b \in Blocks
              /\ path[b] \ {b} \subseteq path[headBlock]
              /\ path[op.block] \cap path[headBlock] \subseteq path[b]
    BY ReorgBlockFacts, Zenon
  <1>2. /\ headBlock' = b /\ lookup' = IF b \in holds THEN num[b] ELSE lookup
        /\ op.pc = "reorg" /\ op' = op /\ torn' = torn /\ UNCHANGED tree
    BY <1>1, Zenon DEF writeHeadBlock, ReorgBlock, history
  <1>3. /\ Blocks' = Blocks /\ num' = num /\ path' = path /\ holds' = holds
        /\ (Exact(lookup, Before)' <=> Exact(lookup', Before))
    BY <1>2, LookStays, Zenon DEF Before
  <1>4. Before' = Before /\ Written' = op.new \cap path[b] \cap holds
    BY <1>2, <1>3, Zenon DEF Before, Written
  <1>5. SUFFICES ASSUME ~torn, op.block \notin holds
                 PROVE  /\ \A w \in op.new \cap path[b] \cap holds : lookup' = num[w]
                        /\ op.new \cap path[b] \cap holds = {} => Exact(lookup', Before)
    BY <1>2, <1>3, <1>4 DEF LookInv, Quiet
  <1>6. op.new \subseteq path[op.block] /\ b \in path[b]
    BY <1>1, <1>2, Zenon DEF IInv, OpInv, TreeInv
  <1>7. /\ \A w \in Written : lookup = num[w]
        /\ Written = {} => Exact(lookup, Before)
    BY <1>2, <1>5, Zenon DEF LookInv
  <1>8. CASE b \in holds
    <2>1. \A w \in path[b] \cap holds : w = b
      BY <1>1, <1>6, <1>8, Zenon DEF LookInv
    <2> QED
      BY <1>1, <1>2, <1>6, <1>8, <2>1, Zenon
  <1>9. CASE b \notin holds
    <2>1. op.new \cap path[b] \cap holds = Written
      BY <1>1, <1>6, <1>9, Zenon DEF Written
    <2> QED
      BY <1>2, <1>7, <1>9, <2>1, Zenon
  <1> QED
    BY <1>8, <1>9, Zenon

(* reorg then drops the entry if the transaction left the chain.           *)
LEMMA LookReorgIndexes ==
    ASSUME IInv, DataInv, LookInv, ReorgIndexes
    PROVE  LookInv'
  <1>1. /\ op.pc = "reorg" /\ op.new \subseteq path[headBlock]
        /\ lookup' = IF op.old \cap holds # {} /\ op.new \cap holds = {} THEN None ELSE lookup
        /\ op'.pc = "head" /\ op'.block = op.block /\ op.block \in Blocks
        /\ torn' = torn /\ UNCHANGED tree
        /\ op.new \subseteq path[op.block] \ {op.block}
    BY Zenon DEF ReorgIndexes, IInv, OpInv, Ops, history
  <1>2. /\ Blocks' = Blocks /\ num' = num /\ path' = path /\ holds' = holds
        /\ (Exact(lookup, path[op.block])' <=> Exact(lookup', path[op'.block]))
    BY <1>1, LookStays, Zenon
  <1>3. SUFFICES ASSUME ~torn, op.block \notin holds
                 PROVE  Exact(lookup', path[op.block])
    BY <1>1, <1>2 DEF LookInv, Quiet
  <1>4. /\ \A w \in Written : lookup = num[w]
        /\ Written = {} => Exact(lookup, Before)
        /\ \A c, d \in Before \cap holds : c = d
        /\ op.old \cap path[op.block] = {}
        /\ \A c, d \in path[op.block] \cap holds : c = d
    BY <1>1, <1>3, Zenon DEF LookInv
  <1>5. Written = op.new \cap holds
    BY <1>1, Zenon DEF Written
  <1>6. CASE op.new \cap holds # {}
    <2>1. PICK w \in op.new : w \in holds
      BY <1>6, Zenon
    <2>2. lookup' = num[w] /\ w \in path[op.block] \cap holds
      BY <1>1, <1>4, <1>5, <1>6, <2>1, Zenon
    <2>3. w \in Blocks
      BY <2>2, Zenon DEF DataInv
    <2>4. num[w] # None
      BY <2>3 DEF IInv, TreeInv, None
    <2> QED
      BY <1>4, <2>2, <2>4, ExactOne, Zenon
  <1>7. CASE op.new \cap holds = {} /\ op.old \cap holds # {}
    <2>1. path[op.block] \cap holds = {}
      BY <1>3, <1>4, <1>7 DEF Before
    <2> QED
      BY <1>1, <1>7, <2>1, ExactNone, Zenon
  <1>8. CASE op.new \cap holds = {} /\ op.old \cap holds = {}
    <2>1. Before \cap holds = path[op.block] \cap holds
      BY <1>3, <1>8, Zenon DEF Before
    <2> QED
      BY <1>1, <1>4, <1>5, <1>8, <2>1, ExactSame, Zenon
  <1> QED
    BY <1>6, <1>7, <1>8, Zenon

(* The last block is written with its own entry.                           *)
LEMMA LookWriteHead ==
    ASSUME IInv, DataInv, LookInv, WriteHead
    PROVE  LookInv'
  <1>1. /\ headBlock' = op.block
        /\ lookup' = IF op.block \in holds THEN num[op.block] ELSE lookup
        /\ op.pc = "head" /\ op'.pc \in {"idle", "main"} /\ torn' = torn /\ UNCHANGED tree
    BY ContinueFacts, Zenon DEF WriteHead, writeHeadBlock, history
  <1>2. /\ Blocks' = Blocks /\ num' = num /\ path' = path /\ holds' = holds
        /\ (Exact(lookup, path[headBlock])' <=> Exact(lookup', path[op.block]))
    BY <1>1, LookStays, Zenon
  <1>3. SUFFICES ASSUME ~torn PROVE Exact(lookup', path[op.block])
    BY <1>1, <1>2 DEF LookInv, Quiet
  <1>4. CASE op.block \in holds
    <2>1. op.block \in Blocks
      BY BatchFacts, Zenon
    <2>2. op.block \in path[op.block] /\ num[op.block] # None
      BY <2>1 DEF IInv, TreeInv, None
    <2>3. \A c \in path[op.block] \cap holds : c = op.block
      BY <1>4, <2>1, <2>2, Zenon DEF LookInv
    <2> QED
      BY <1>1, <1>4, <2>2, <2>3, ExactOne, Zenon
  <1>5. CASE op.block \notin holds
    BY <1>1, <1>3, <1>5, Zenon DEF LookInv
  <1> QED
    BY <1>4, <1>5, Zenon

(* Every other step leaves head, tree and entry alone, or is a restart.    *)
LEMMA LookNext == IInv /\ DataInv /\ LookInv /\ [Next]_vars => LookInv'
  <1> SUFFICES ASSUME IInv, DataInv, LookInv, [Next]_vars PROVE LookInv'
    OBVIOUS
  <1>1. ASSUME NEW p \in Blocks, NEW d \in Diffs, NEW x \in BOOLEAN, Forge(p, d, x)
        PROVE  LookInv'
    <2>1. PICK b : /\ b \notin Blocks /\ Blocks' = Blocks \cup {b}
                   /\ \A c \in Blocks : num'[c] = num[c] /\ path'[c] = path[c]
                   /\ path'[b] = path[p] \cup {b}
                   /\ \/ holds' = holds
                      \/ holds' = holds \cup {b} /\ path[p] \cap holds = {}
      BY <1>1, ForgeFacts
    <2>2. UNCHANGED <<lookup, headBlock, op, torn>> /\ op.pc = "idle"
      BY <1>1, Zenon DEF Forge, history
    <2>3. /\ headBlock \in Blocks /\ holds \subseteq Blocks
          /\ \A c \in Blocks : path[c] \subseteq Blocks
      BY Zenon DEF IInv, TreeInv, StoreInv, DataInv
    <2>4. \A c \in Blocks : path'[c] \cap holds' = path[c] \cap holds
      BY <2>1, <2>3
    <2>5. \A c \in Blocks' : \A e, f \in path'[c] \cap holds' : e = f
      <3>1. \A c \in Blocks : \A e, f \in path'[c] \cap holds' : e = f
        BY <2>4, Zenon DEF LookInv
      <3>2. path'[b] \cap holds' \subseteq {b} \/ path'[b] \cap holds' = path[p] \cap holds
        BY <2>1, <2>3, Zenon
      <3>3. \A e, f \in path'[b] \cap holds' : e = f
        BY <3>2, Zenon DEF LookInv
      <3> QED
        BY <2>1, <3>1, <3>3, Zenon
    <2>6. ~torn => Exact(lookup, path[headBlock])'
      <3>1. ~torn => Exact(lookup, path[headBlock])
        BY <2>2, Zenon DEF LookInv, Quiet
      <3>2. {num'[c] : c \in path'[headBlock] \cap holds'}
               = {num[c] : c \in path[headBlock] \cap holds}
        <4>1. \A c \in path[headBlock] \cap holds : num'[c] = num[c]
          BY <2>1, <2>3, Zenon
        <4>2. path'[headBlock] \cap holds' = path[headBlock] \cap holds
          BY <2>3, <2>4, Zenon
        <4> QED
          BY <4>1, <4>2, Zenon
      <3> QED
        BY <2>2, <3>1, <3>2, Zenon DEF Exact
    <2> QED
      BY <2>2, <2>5, <2>6, Zenon DEF LookInv
  <1>2. ASSUME Quiet, Quiet', UNCHANGED <<tree, headBlock, lookup, torn>>
        PROVE  LookInv'
    <2>1. /\ Blocks' = Blocks /\ path' = path /\ holds' = holds
          /\ (Exact(lookup, path[headBlock])' <=> Exact(lookup, path[headBlock]))
      BY <1>2, LookStays, Zenon
    <2> QED
      BY <1>2, <2>1 DEF LookInv, Quiet
  <1>3. ASSUME Quiet, NEW b \in Blocks, NEW rest \in Seq(Blocks), writeBlock(b, rest)
        PROVE  LookInv'
    <2>1. UNCHANGED <<tree, headBlock, lookup, torn>>
          /\ (op' = Adopt(b, rest) \/ op' = Continue(rest))
      BY <1>3, WriteBlockFacts, Zenon
    <2>2. CASE op' = Adopt(b, rest)
      BY <1>3, <2>1, <2>2, LookAdopt, Zenon
    <2>3. CASE op' = Continue(rest)
      <3>1. Quiet'
        BY <2>3, ContinueFacts DEF Quiet
      <3> QED
        BY <1>2, <1>3, <2>1, <3>1, Zenon
    <2> QED
      BY <2>1, <2>2, <2>3, Zenon
  <1>4. CASE InsertBlock
    BY <1>3, <1>4, BatchFacts, ZenonT(30) DEF InsertBlock, Quiet
  <1>5. ASSUME NEW b \in Blocks, WriteBlockWithState(b) PROVE LookInv'
    <2>1. <<>> \in Seq(Blocks)
      OBVIOUS
    <2> QED
      BY <1>3, <1>5, <2>1, ZenonT(30) DEF WriteBlockWithState, Quiet
  <1>6. CASE InsertKnown
    BY <1>6, BatchFacts, LookAdopt, Zenon DEF InsertKnown, Quiet, history
  <1>7. CASE ReorgBlock
    BY <1>7, LookReorgBlock, Zenon
  <1>8. CASE ReorgIndexes
    BY <1>8, LookReorgIndexes, Zenon
  <1>9. CASE WriteHead
    BY <1>9, LookWriteHead
  <1>10. CASE (\E s \in Batches : InsertChain(s)) \/ SideBlock \/ SideDone
    <2>1. Quiet /\ Quiet' /\ UNCHANGED <<tree, headBlock, lookup, torn>>
      BY <1>10, QuietSteps, Zenon
    <2> QED
      BY <1>2, <2>1, Zenon
  <1>11. CASE Crash
    <2>1. /\ UNCHANGED <<tree, lookup>> /\ op'.pc = "idle"
          /\ ~torn' => ~torn /\ op.pc = "idle" /\ headBlock' = headBlock
      BY <1>11, Zenon DEF Crash, Idle
    <2> QED
      BY <2>1, LookStays, Zenon DEF LookInv, Quiet
  <1>12. CASE StopAndRestart
    <2>1. /\ UNCHANGED <<tree, lookup>> /\ op'.pc = "idle" /\ op.pc = "idle"
          /\ ~torn' => ~torn /\ headBlock' = headBlock
      BY <1>12, Zenon DEF StopAndRestart
    <2> QED
      BY <2>1, LookStays, Zenon DEF LookInv, Quiet
  <1>13. CASE UNCHANGED vars
    <2>1. UNCHANGED <<tree, headBlock, lookup, op, torn>>
      BY <1>13, Zenon DEF vars, tree
    <2>2. /\ Blocks' = Blocks /\ num' = num /\ path' = path /\ holds' = holds
          /\ (Exact(lookup, path[headBlock])' <=> Exact(lookup, path[headBlock]))
          /\ (Exact(lookup, path[op.block])' <=> Exact(lookup, path[op.block]))
          /\ (Exact(lookup, Before)' <=> Exact(lookup, Before))
      BY <2>1, LookStays, Zenon DEF Before
    <2>3. Written' = Written /\ Before' = Before
      BY <2>1, <2>2, Zenon DEF Written, Before
    <2> QED
      BY <2>1, <2>2, <2>3, Zenon DEF LookInv, Quiet
  <1> QED
    BY <1>1, <1>4, <1>5, <1>6, <1>7, <1>8, <1>9, <1>10, <1>11, <1>12, <1>13, Zenon DEF Next

-----------------------------------------------------------------------------
(* Above the head the canonical numbers end at the first gap.              *)
NoGap ==
    \A n, m \in 0..MaxBlocks : num[headBlock] < n /\ n < m /\ canon[n] = None => canon[m] = None

Numbered == \A n \in 0..MaxBlocks : canon[n] # None => num[canon[n]] = n

Clean == \A n \in 0..MaxBlocks : n > num[headBlock] => canon[n] = None

(* The header marker is on the head's chain, at or above it; the canonical *)
(* numbers follow the marker's chain, or are deleted, up to the marker,    *)
(* and above it none belongs to the head's chain.                          *)
Marked ==
    /\ headBlock \in path[headHeader]
    /\ \A n \in 0..num[headHeader] :
          canon[n] \in path[headHeader] \/ (n > num[headBlock] /\ canon[n] = None)
    /\ \A n \in 0..MaxBlocks :
          n > num[headHeader] /\ canon[n] # None => headBlock \notin path[canon[n]]

(* The marker may fall behind in a reorganisation, when a block is written *)
(* whose number was still its own; the deletion of numbers makes up for it *)
(* before the last block.                                                  *)
MarkInv ==
    /\ NoGap /\ Numbered
    /\ ~torn =>
        /\ Quiet => Marked
        /\ op.pc = "reorg" => (op.block \in path[headBlock] => Marked)
        /\ op.pc = "head" => \/ parent[op.block] = headBlock /\ Marked
                             \/ Clean /\ (op.block \in path[headBlock] => Marked)

(* Blocks of a path are told apart by their numbers.                       *)
LEMMA PathUnique ==
    ASSUME TreeInv, NEW b \in Blocks, NEW c \in path[b], NEW d \in path[b], num[c] = num[d]
    PROVE  c = d
  <1>1. c \in Blocks /\ d \in Blocks /\ num[c] \in Nat /\ num[d] \in Nat
    BY Zenon DEF TreeInv
  <1>2. c \in path[d]
    BY <1>1, Zenon DEF TreeInv
  <1>3. CASE d = Genesis
    BY <1>2, <1>3, Zenon DEF TreeInv
  <1>4. CASE d # Genesis
    <2>1. /\ parent[d] \in Blocks /\ num[d] = num[parent[d]] + 1
          /\ path[d] = path[parent[d]] \cup {d} /\ num[parent[d]] \in Nat
      BY <1>1, <1>4, Zenon DEF TreeInv
    <2>2. \A e \in path[parent[d]] : num[e] <= num[parent[d]]
      BY <2>1, Zenon DEF TreeInv
    <2>3. c \notin path[parent[d]]
      BY <1>1, <2>1, <2>2
    <2> QED
      BY <1>2, <2>1, <2>3, Zenon
  <1> QED
    BY <1>3, <1>4, Zenon

(* Up to the head there is no gap.                                         *)
LEMMA CanonFilled ==
    ASSUME IInv
    PROVE  /\ num[headBlock] \in 0..MaxBlocks /\ None \notin Blocks
           /\ \A n \in 0..num[headBlock] : canon[n] \in Blocks /\ canon[n] # None
  <1>1. num[headBlock] \in 0..MaxBlocks
    BY NumBounded, Zenon DEF IInv, StoreInv
  <1>2. None \notin Blocks
    <2>1. PICK k \in Nat : Blocks = 0..k
      BY Zenon DEF IInv, TreeInv, Made
    <2> QED
      BY <2>1 DEF None
  <1>3. \A n \in 0..num[headBlock] : canon[n] \in Blocks
    BY Zenon DEF IInv, CanonToHead, TreeInv, StoreInv
  <1> QED
    BY <1>1, <1>2, <1>3, Zenon

(* Both markers start at the genesis block.                                *)
LEMMA MarkInit == Init => MarkInv
  <1> SUFFICES ASSUME Init PROVE MarkInv
    OBVIOUS
  <1>1. /\ canon = [n \in 0..MaxBlocks |-> IF n = 0 THEN Genesis ELSE None]
        /\ headBlock = Genesis /\ headHeader = Genesis /\ op = Idle
        /\ num[Genesis] = 0 /\ path[Genesis] = {Genesis}
    BY Zenon DEF Init
  <1>2. op.pc = "idle"
    BY <1>1, Zenon DEF Idle
  <1>3. NoGap /\ Numbered
    BY <1>1, ChainAssumption DEF NoGap, Numbered
  <1>4. Marked
    BY <1>1, ChainAssumption DEF Marked
  <1> QED
    BY <1>2, <1>3, <1>4, Zenon DEF MarkInv

(* A batch that makes b the head leaves no gap.                            *)
LEMMA GapWrite ==
    ASSUME IInv, MarkInv, UNCHANGED tree, NEW b \in Blocks, writeHeadBlock(b)
    PROVE  NoGap' /\ Numbered'
  <1>1. /\ headBlock' = b /\ canon' = [canon EXCEPT ![num[b]] = b] /\ num' = num
        /\ canon \in [0..MaxBlocks -> Blocks \cup {None}] /\ num[b] \in 0..MaxBlocks
    BY NumBounded, Zenon DEF writeHeadBlock, tree, IInv, StoreInv
  <1>2. \A n \in 0..MaxBlocks : canon'[n] = IF n = num[b] THEN b ELSE canon[n]
    BY <1>1, Zenon
  <1>3. NoGap'
    <2>1. SUFFICES ASSUME NEW n \in 0..MaxBlocks, NEW m \in 0..MaxBlocks,
                          num[b] < n, n < m, canon'[n] = None
                   PROVE  canon'[m] = None
      BY <1>1, Zenon DEF NoGap
    <2>2. canon[n] = None /\ canon'[m] = canon[m]
      BY <1>1, <1>2, <2>1
    <2>3. num[headBlock] < n
      BY <2>2, CanonFilled
    <2> QED
      BY <2>1, <2>2, <2>3, Zenon DEF MarkInv, NoGap
  <1>4. Numbered'
    BY <1>1, <1>2, Zenon DEF MarkInv, Numbered
  <1> QED
    BY <1>3, <1>4, Zenon

(* The marker moves to the head if no number above belongs to its chain.   *)
LEMMA MarkHere ==
    ASSUME IInv', UNCHANGED tree, headHeader' = headBlock',
           \A n \in 0..MaxBlocks :
              n > num[headBlock'] /\ canon'[n] # None => headBlock' \notin path[canon'[n]]
    PROVE  Marked'
  <1>1. num' = num /\ path' = path
    BY Zenon DEF tree
  <1>2. headBlock' \in path'[headBlock']
    BY Zenon DEF IInv, TreeInv, StoreInv
  <1>3. \A n \in 0..num'[headBlock'] : canon'[n] \in path'[headBlock']
    BY Zenon DEF IInv, CanonToHead
  <1> QED
    BY <1>1, <1>2, <1>3, Zenon DEF Marked


(* The last block, when it extends the head.                               *)
LEMMA MarkExtend ==
    ASSUME IInv, IInv', DataInv, MarkInv, Marked, UNCHANGED tree,
           NEW b \in Blocks, parent[b] = headBlock, writeHeadBlock(b)
    PROVE  Marked'
  <1>1. /\ headBlock' = b /\ canon' = [canon EXCEPT ![num[b]] = b]
        /\ headHeader' = IF canon[num[b]] # b THEN b ELSE headHeader
        /\ num' = num /\ path' = path
        /\ canon \in [0..MaxBlocks -> Blocks \cup {None}] /\ num[b] \in 0..MaxBlocks
    BY NumBounded, Zenon DEF writeHeadBlock, tree, IInv, StoreInv
  <1>2. /\ headBlock \in Blocks /\ headHeader \in Blocks /\ num[headBlock] \in 0..MaxBlocks
        /\ num[headHeader] \in 0..MaxBlocks /\ None \notin Blocks /\ TreeInv /\ CanonToHead
        /\ num[headBlock] \in Nat /\ num[headHeader] \in Nat /\ num[b] \in Nat
    <2>1. TreeInv /\ CanonToHead /\ headBlock \in Blocks /\ headHeader \in Blocks
      BY Zenon DEF IInv, StoreInv, DataInv
    <2>2. num[headBlock] \in Nat /\ num[headHeader] \in Nat /\ num[b] \in Nat
      BY <2>1, Zenon DEF TreeInv
    <2> QED
      BY <2>1, <2>2, NumBounded, CanonFilled, Zenon
  <1>3. CASE b = Genesis
    <2>1. headBlock = Genesis /\ num[b] = 0 /\ path[b] = {b}
      BY <1>3, Zenon DEF DataInv, IInv, TreeInv
    <2>2. canon[0] \in path[headBlock]
      BY <1>2 DEF CanonToHead
    <2>3. canon' = canon /\ headBlock' = headBlock /\ headHeader' = headHeader
      BY <1>1, <1>3, <2>1, <2>2, Zenon
    <2> QED
      BY <1>1, <2>3 DEF Marked
  <1>4. CASE b # Genesis
    <2>1. num[b] = num[headBlock] + 1 /\ path[b] = path[headBlock] \cup {b} /\ b \in path[b]
          /\ headBlock \in path[b]
      BY <1>2, <1>4, SMTT(20) DEF IInv, TreeInv
    <2>2. \A c \in Blocks : b \in path[c] => headBlock \in path[c]
      BY <2>1, Zenon DEF IInv, TreeInv
    <2>3. CASE canon[num[b]] = b
      <3>1. canon' = canon /\ headHeader' = headHeader
        BY <1>1, <2>3, ZenonT(30)
      <3>2. num[b] <= num[headHeader]
        BY <1>1, <1>2, <2>1, <2>3 DEF Marked
      <3>3. b \in path[headHeader]
        BY <1>1, <1>2, <2>3, <3>2, SMTT(20) DEF Marked
      <3>4. \A n \in 0..num[headHeader] :
               canon[n] \in path[headHeader] \/ (n > num[b] /\ canon[n] = None)
        <4>1. SUFFICES ASSUME NEW n \in 0..num[headHeader], canon[n] \notin path[headHeader]
                       PROVE  n > num[b] /\ canon[n] = None
          BY Zenon
        <4>2. n > num[headBlock] /\ canon[n] = None
          BY <4>1, Zenon DEF Marked
        <4>3. n # num[b]
          BY <1>2, <2>3, <4>2, Zenon
        <4> QED
          BY <1>1, <1>2, <2>1, <4>2, <4>3
      <3>5. \A n \in 0..MaxBlocks :
               n > num[headHeader] /\ canon[n] # None => b \notin path[canon[n]]
        BY <1>1, <2>2 DEF Marked
      <3> QED
        BY <1>1, <3>1, <3>3, <3>4, <3>5, Zenon DEF Marked
    <2>4. CASE canon[num[b]] # b
      <3>1. headHeader' = headBlock'
        BY <1>1, <2>4, Zenon
      <3>2. ASSUME NEW n \in 0..MaxBlocks, n > num[b], canon'[n] # None, b \in path[canon'[n]]
            PROVE  FALSE
        <4>1. canon'[n] = canon[n] /\ canon[n] \in Blocks
          BY <1>1, <3>2
        <4>2. n <= num[headHeader]
          BY <1>2, <2>2, <3>2, <4>1 DEF Marked
        <4>3. canon[n] \in path[headHeader]
          BY <1>2, <3>2, <4>1, <4>2 DEF Marked
        <4>4. b \in path[headHeader]
          BY <1>2, <3>2, <4>1, <4>3, Zenon DEF IInv, TreeInv
        <4>5. num[b] \in 0..num[headHeader]
          BY <1>2, <3>2, <4>2, SMTT(20)
        <4>6. canon[num[b]] # None
          BY <1>1, <1>2, <2>1, <3>2, <4>1 DEF MarkInv, NoGap
        <4>7. canon[num[b]] \in path[headHeader] /\ num[canon[num[b]]] = num[b]
          BY <1>1, <4>5, <4>6, Zenon DEF Marked, MarkInv, Numbered
        <4>8. canon[num[b]] = b
          BY <1>2, <4>4, <4>7, PathUnique, Zenon
        <4> QED
          BY <2>4, <4>8, Zenon
      <3> QED
        BY <1>1, <3>1, <3>2, MarkHere, Zenon
    <2> QED
      BY <2>3, <2>4, Zenon
  <1> QED
    BY <1>3, <1>4, Zenon

(* The last block, when the numbers above the head were deleted.           *)
LEMMA MarkReplace ==
    ASSUME IInv, IInv', DataInv, MarkInv, UNCHANGED tree,
           NEW b \in Blocks, Clean, b \in path[headBlock] => Marked, writeHeadBlock(b)
    PROVE  Marked'
  <1>1. /\ headBlock' = b /\ canon' = [canon EXCEPT ![num[b]] = b]
        /\ headHeader' = IF canon[num[b]] # b THEN b ELSE headHeader
        /\ num' = num /\ path' = path
        /\ canon \in [0..MaxBlocks -> Blocks \cup {None}] /\ num[b] \in 0..MaxBlocks
    BY NumBounded, Zenon DEF writeHeadBlock, tree, IInv, StoreInv
  <1>2. /\ headBlock \in Blocks /\ headHeader \in Blocks /\ num[headBlock] \in 0..MaxBlocks
        /\ num[headHeader] \in 0..MaxBlocks /\ None \notin Blocks /\ TreeInv /\ CanonToHead
        /\ num[headBlock] \in Nat /\ num[headHeader] \in Nat /\ num[b] \in Nat
    <2>1. TreeInv /\ CanonToHead /\ headBlock \in Blocks /\ headHeader \in Blocks
      BY Zenon DEF IInv, StoreInv, DataInv
    <2>2. num[headBlock] \in Nat /\ num[headHeader] \in Nat /\ num[b] \in Nat
      BY <2>1, Zenon DEF TreeInv
    <2> QED
      BY <2>1, <2>2, NumBounded, CanonFilled, Zenon
  <1>3. CASE canon[num[b]] = b
    <2>1. num[b] <= num[headBlock]
      BY <1>1, <1>2, <1>3, SMTT(20) DEF Clean
    <2>2. b \in path[headBlock]
      BY <1>1, <1>2, <1>3, <2>1 DEF IInv, CanonToHead
    <2>3. canon' = canon /\ headHeader' = headHeader /\ Marked
      BY <1>1, <1>3, <2>2, Zenon
    <2>4. path[headBlock] \subseteq path[headHeader] /\ num[headBlock] <= num[headHeader]
      BY <1>2, <2>3, Zenon DEF Marked, IInv, TreeInv
    <2>5. \A n \in 0..num[headHeader] :
             canon[n] \in path[headHeader] \/ (n > num[b] /\ canon[n] = None)
      <3>1. SUFFICES ASSUME NEW n \in 0..num[headHeader], n > num[headBlock]
                     PROVE  n > num[b] /\ canon[n] = None
        BY <1>2, <2>4 DEF IInv, CanonToHead
      <3> QED
        BY ChainAssumption, <1>1, <1>2, <2>1, <3>1, SMTT(20) DEF Clean
    <2>6. \A n \in 0..MaxBlocks :
             n > num[headHeader] /\ canon[n] # None => b \notin path[canon[n]]
      BY <1>2, <2>4 DEF Clean
    <2> QED
      BY <1>1, <2>2, <2>3, <2>4, <2>5, <2>6, Zenon DEF Marked
  <1>4. CASE canon[num[b]] # b
    <2>1. headHeader' = headBlock'
      BY <1>1, <1>4, Zenon
    <2>2. ASSUME NEW n \in 0..MaxBlocks, n > num[b], canon'[n] # None, b \in path[canon'[n]]
          PROVE  FALSE
      <3>1. canon'[n] = canon[n] /\ n <= num[headBlock]
        BY <1>1, <1>2, <2>2 DEF Clean
      <3>2. canon[n] \in path[headBlock]
        BY <1>2, <3>1 DEF CanonToHead
      <3>3. b \in path[headBlock]
        BY <1>2, <2>2, <3>1, <3>2, Zenon DEF TreeInv
      <3>4. canon[num[b]] \in path[headBlock] /\ num[canon[num[b]]] = num[b]
        <4>1. num[b] \in 0..num[headBlock]
          BY <1>2, <2>2, <3>1
        <4> QED
          BY <1>2, <4>1, Zenon DEF CanonToHead
      <3>5. canon[num[b]] = b
        BY <1>2, <3>3, <3>4, PathUnique, Zenon
      <3> QED
        BY <1>4, <3>5, Zenon
    <2> QED
      BY <1>1, <2>1, <2>2, MarkHere, Zenon
  <1> QED
    BY <1>3, <1>4, Zenon

(* Deletion of the numbers above the head.                                 *)
LEMMA MarkReorgIndexes ==
    ASSUME IInv, DataInv, MarkInv, ReorgIndexes
    PROVE  MarkInv'
  <1>1. /\ op.pc = "reorg" /\ op'.pc = "head" /\ op'.block = op.block
        /\ torn' = torn /\ UNCHANGED <<headBlock, headHeader, num, path, parent>>
    BY Zenon DEF ReorgIndexes, IInv, OpInv, Ops, history, tree
  <1>2. /\ headBlock \in Blocks /\ headHeader \in Blocks /\ num[headBlock] \in 0..MaxBlocks
        /\ num[headHeader] \in 0..MaxBlocks
    BY NumBounded, Zenon DEF IInv, StoreInv, DataInv
  <1>3. \A n \in 0..MaxBlocks : canon'[n] = IF n > num[headBlock] THEN None ELSE canon[n]
    <2> DEFINE gone(n) == n > num[headBlock]
                          /\ \A m \in (num[headBlock] + 1)..n : canon[m] # None
    <2>1. canon' = [n \in 0..MaxBlocks |-> IF gone(n) THEN None ELSE canon[n]]
      BY Zenon DEF ReorgIndexes
    <2>2. ASSUME NEW n \in 0..MaxBlocks, n > num[headBlock], ~gone(n) PROVE canon[n] = None
      <3>1. PICK m \in (num[headBlock] + 1)..n : canon[m] = None
        BY <2>2, Zenon
      <3>2. m \in 0..MaxBlocks /\ num[headBlock] < m /\ m <= n
        BY ChainAssumption, <1>2, <3>1
      <3> QED
        BY <3>1, <3>2 DEF MarkInv, NoGap
    <2>3. \A n \in 0..MaxBlocks : gone(n) => n > num[headBlock]
      BY Zenon
    <2> HIDE DEF gone
    <2> QED
      BY <2>1, <2>2, <2>3, Zenon
  <1>4. NoGap' /\ Numbered' /\ Clean'
    BY <1>1, <1>2, <1>3 DEF NoGap, Numbered, Clean, MarkInv
  <1>5. ASSUME Marked PROVE Marked'
    <2>1. num[headBlock] <= num[headHeader]
      BY <1>2, <1>5, Zenon DEF Marked, IInv, TreeInv
    <2>2. \A n \in 0..num[headHeader] :
             canon'[n] \in path[headHeader] \/ (n > num[headBlock] /\ canon'[n] = None)
      <3>1. SUFFICES ASSUME NEW n \in 0..num[headHeader]
                     PROVE  \/ canon'[n] \in path[headHeader]
                            \/ n > num[headBlock] /\ canon'[n] = None
        BY Zenon
      <3>2. n \in 0..MaxBlocks
        BY <1>2, ChainAssumption
      <3>3. canon[n] \in path[headHeader] \/ n > num[headBlock]
        BY <1>5, Zenon DEF Marked
      <3> QED
        BY <1>3, <3>2, <3>3, Zenon
    <2>3. \A n \in 0..MaxBlocks : n > num[headHeader] => canon'[n] = None
      BY <1>2, <1>3, <2>1
    <2> QED
      BY <1>1, <1>5, <2>2, <2>3, Zenon DEF Marked
  <1> QED
    BY <1>1, <1>4, <1>5, Zenon DEF MarkInv, Quiet

(* Steps that move neither head nor numbers keep the marker; a restart that *)
(* moves the head is not followed any further.                             *)
LEMMA MarkNext == IInv /\ IInv' /\ DataInv /\ MarkInv /\ [Next]_vars => MarkInv'
  <1> SUFFICES ASSUME IInv, IInv', DataInv, MarkInv, [Next]_vars PROVE MarkInv'
    BY Zenon
  <1>1. headBlock \in Blocks /\ headHeader \in Blocks
        /\ canon \in [0..MaxBlocks -> Blocks \cup {None}]
    BY Zenon DEF IInv, StoreInv, DataInv
  <1>2. ASSUME NEW p \in Blocks, NEW d \in Diffs, NEW x \in BOOLEAN, Forge(p, d, x)
        PROVE  MarkInv'
    <2>1. \A c \in Blocks : num'[c] = num[c] /\ path'[c] = path[c]
      <3>1. PICK b : \A c \in Blocks : num'[c] = num[c] /\ path'[c] = path[c]
        BY <1>2, ForgeFacts, Zenon
      <3> QED
        BY <3>1, Zenon
    <2>2. UNCHANGED <<canon, headBlock, headHeader, op, torn>> /\ op.pc = "idle"
      BY <1>2, Zenon DEF Forge, history
    <2>3. \A n \in 0..MaxBlocks : canon[n] # None => canon[n] \in Blocks
      BY <1>1, Zenon
    <2>4. NoGap' /\ Numbered'
      BY <1>1, <2>1, <2>2, <2>3, Zenon DEF MarkInv, NoGap, Numbered
    <2>5. Marked => Marked'
      BY <1>1, <2>1, <2>2, <2>3, Zenon DEF Marked
    <2> QED
      BY <2>2, <2>4, <2>5, Zenon DEF MarkInv, Quiet
  <1>3. ASSUME UNCHANGED <<tree, canon, headBlock, headHeader>>
        PROVE  NoGap' /\ Numbered' /\ (Marked' <=> Marked) /\ parent' = parent /\ path' = path
    BY <1>3, Zenon DEF MarkInv, NoGap, Numbered, Marked, tree
  <1>4. ASSUME Quiet, Quiet', UNCHANGED <<tree, canon, headBlock, headHeader, torn>>
        PROVE  MarkInv'
    BY <1>3, <1>4, Zenon DEF MarkInv, Quiet
  <1>5. ASSUME Quiet, NEW b \in Blocks, NEW rest, op' = Adopt(b, rest),
               UNCHANGED <<tree, canon, headBlock, headHeader, torn>>
        PROVE  MarkInv'
    <2>1. op'.pc = (IF parent[b] = headBlock THEN "head" ELSE "reorg") /\ op'.block = b
      BY <1>5, AdoptFacts
    <2> QED
      BY <1>3, <1>5, <2>1, Zenon DEF MarkInv, Quiet
  <1>6. ASSUME Quiet, NEW b \in Blocks, NEW rest \in Seq(Blocks), writeBlock(b, rest)
        PROVE  MarkInv'
    <2>1. UNCHANGED <<tree, canon, headBlock, headHeader, torn>>
          /\ (op' = Adopt(b, rest) \/ op' = Continue(rest))
      BY <1>6, WriteBlockFacts, Zenon
    <2>2. CASE op' = Continue(rest)
      <3>1. Quiet'
        BY <2>2, ContinueFacts, Zenon DEF Quiet
      <3> QED
        BY <1>4, <1>6, <2>1, <3>1, Zenon
    <2> QED
      BY <1>5, <1>6, <2>1, <2>2, Zenon
  <1>7. CASE InsertBlock
    BY <1>6, <1>7, BatchFacts, Zenon DEF InsertBlock, Quiet
  <1>8. ASSUME NEW b \in Blocks, WriteBlockWithState(b) PROVE MarkInv'
    <2>1. <<>> \in Seq(Blocks)
      OBVIOUS
    <2> QED
      BY <1>6, <1>8, <2>1, Zenon DEF WriteBlockWithState, Quiet
  <1>9. CASE InsertKnown
    BY <1>5, <1>9, BatchFacts, Zenon DEF InsertKnown, Quiet, history
  <1>10. CASE ReorgBlock
    <2>1. PICK b \in op.new \ path[headBlock] :
              writeHeadBlock(b) /\ b \in Blocks /\ b \in path[op.block] \ {op.block}
      BY <1>10, ReorgBlockFacts, Zenon
    <2>2. op.pc = "reorg" /\ op' = op /\ UNCHANGED tree /\ headBlock' = b /\ path' = path
      BY <1>10, <2>1, Zenon DEF ReorgBlock, writeHeadBlock, tree
    <2>3. op.block \notin path[b]
      <3>1. SUFFICES ASSUME op.block \in path[b] PROVE FALSE
        BY Zenon
      <3>2. op.block \in Blocks
        BY BatchFacts, Zenon
      <3>3. num[op.block] <= num[b] /\ num[b] <= num[op.block] /\ op.block \in path[op.block]
            /\ num[b] \in Nat /\ num[op.block] \in Nat /\ TreeInv
        BY <2>1, <3>1, <3>2, Zenon DEF IInv, TreeInv
      <3>4. num[b] = num[op.block]
        BY <3>3
      <3>5. b \in path[op.block] /\ b # op.block
        BY <2>1, Zenon
      <3> QED
        BY <3>2, <3>3, <3>4, <3>5, PathUnique, Zenon
    <2>4. NoGap' /\ Numbered'
      BY <2>1, <2>2, GapWrite, Zenon
    <2> QED
      BY <2>2, <2>3, <2>4, Zenon DEF MarkInv, Quiet
  <1>11. CASE ReorgIndexes
    BY <1>11, MarkReorgIndexes, Zenon
  <1>12. CASE WriteHead
    <2>1. op.pc = "head" /\ op'.pc \in {"idle", "main"} /\ UNCHANGED <<tree, torn>>
          /\ op.block \in Blocks /\ writeHeadBlock(op.block)
      BY <1>12, ContinueFacts, BatchFacts, Zenon DEF WriteHead, history
    <2>2. NoGap' /\ Numbered'
      BY <2>1, GapWrite, Zenon
    <2>3. ASSUME ~torn PROVE Marked'
      <3>1. CASE parent[op.block] = headBlock /\ Marked
        BY <2>1, <3>1, MarkExtend, Zenon
      <3>2. CASE Clean /\ (op.block \in path[headBlock] => Marked)
        BY <2>1, <3>2, MarkReplace, Zenon
      <3> QED
        BY <2>1, <2>3, <3>1, <3>2, Zenon DEF MarkInv
    <2> QED
      BY <2>1, <2>2, <2>3, Zenon DEF MarkInv, Quiet
  <1>13. CASE (\E s \in Batches : InsertChain(s)) \/ SideBlock \/ SideDone
    BY <1>4, <1>13, QuietSteps, Zenon
  <1>14. ASSUME headBlock' \in path[headBlock], UNCHANGED <<tree, canon, headHeader>>,
                op'.pc = "idle", ~torn' => ~torn /\ op.pc = "idle" /\ headBlock' = headBlock
         PROVE  MarkInv'
    <2>1. num' = num /\ canon' = canon
      BY <1>14, Zenon DEF tree
    <2>2. NoGap'
      <3>1. SUFFICES ASSUME NEW n \in 0..MaxBlocks, NEW m \in 0..MaxBlocks,
                            n < m, canon[n] = None
                     PROVE  canon[m] = None
        BY <2>1, Zenon DEF NoGap
      <3>2. num[headBlock] < n
        BY <3>1, CanonFilled
      <3> QED
        BY <3>1, <3>2, Zenon DEF MarkInv, NoGap
    <2>3. Numbered'
      BY <2>1, Zenon DEF MarkInv, Numbered
    <2>4. ~torn' => Marked'
      BY <1>3, <1>14, Zenon DEF MarkInv, Quiet
    <2> QED
      BY <1>14, <2>2, <2>3, <2>4, Zenon DEF MarkInv, Quiet
  <1>15. CASE Crash
    <2>1. headBlock' \in path[headBlock]
      BY <1>15, NearestOnPath, Zenon DEF Crash, repair, IInv, StoreInv
    <2>2. UNCHANGED <<tree, canon, headHeader>> /\ op'.pc = "idle"
          /\ (~torn' => ~torn /\ op.pc = "idle" /\ headBlock' = headBlock)
      BY <1>15, Zenon DEF Crash, Idle
    <2> QED
      BY <1>14, <2>1, <2>2, Zenon
  <1>16. CASE StopAndRestart
    <2>1. disk \subseteq disk' /\ headBlock' = Nearest(headBlock, disk')
          /\ UNCHANGED <<tree, canon, headHeader, op>> /\ op.pc = "idle"
          /\ (~torn' => ~torn /\ headBlock' = headBlock)
      BY <1>16, Zenon DEF StopAndRestart, repair
    <2>2. headBlock' \in path[headBlock]
      BY <2>1, NearestOnPath, Zenon DEF IInv, StoreInv
    <2> QED
      BY <1>14, <2>1, <2>2, Zenon
  <1>17. CASE UNCHANGED vars
    <2>1. UNCHANGED <<tree, canon, headBlock, headHeader, op, torn>>
      BY <1>17, Zenon DEF vars, tree
    <2> QED
      BY <1>3, <2>1, Zenon DEF MarkInv, Quiet, Clean, tree
  <1> QED
    BY <1>2, <1>7, <1>8, <1>9, <1>10, <1>11, <1>12, <1>13, <1>15, <1>16, <1>17, Zenon DEF Next


-----------------------------------------------------------------------------
(* The data beside the index, in every state.                              *)
LEMMA DataAlways == Spec => [](IInv /\ DataInv)
  <1>1. Init => IInv /\ DataInv
    BY InitIInv, DataInit, Zenon
  <1>2. IInv /\ DataInv /\ [Next]_vars => (IInv /\ DataInv)'
    BY NextIInv, DataNext, Zenon
  <1> QED
    BY <1>1, <1>2, PTL DEF Spec

(* However states are collected, flushed and lost, the head has its state  *)
(* unless a stored chain outgrew it by TriesInMemory blocks: what          *)
(* writeBlockWithState dereferences is never what the next block builds    *)
(* on.                                                                     *)
THEOREM HeadKeepsState == Spec => []HeadHasState
  <1>1. IInv /\ DataInv /\ StateInv => HeadHasState
    <2>1. SUFFICES ASSUME IInv, DataInv, StateInv, op.pc = "idle", ~HasState(headBlock),
                          \A b \in stored : num[b] < num[headBlock] + TriesInMemory
                   PROVE  FALSE
      BY Zenon DEF HeadHasState
    <2>2. PICK b \in stored : num[b] >= num[headBlock] + TriesInMemory
      BY <2>1, Zenon DEF StateInv, Quiet
    <2>3. num[b] \in Nat /\ num[headBlock] \in Nat
      BY <2>1, Zenon DEF IInv, TreeInv, StoreInv, DataInv
    <2> QED
      BY <2>1, <2>2, <2>3, ChainAssumption
  <1> QED
    BY <1>1, DataAlways, StateInit, StateNext, PTL DEF Spec

(* As long as no state was lost, InsertChain and WriteBlockWithState leave *)
(* a head than which no stored block is heavier, in whatever order and     *)
(* batches the blocks came.                                                *)
THEOREM HeadIsHeaviest == Spec => []HeaviestHead
  <1>1. WeightInv => HeaviestHead
    BY Zenon DEF WeightInv, HeaviestHead, Quiet
  <1> QED
    BY <1>1, DataAlways, WeightInit, WeightNext, PTL DEF Spec

(* Between operations, and unless a restart moved the head, reorg and      *)
(* writeHeadBlock have left the one lookup entry that the head's chain     *)
(* calls for.                                                              *)
THEOREM LookupFollowsHead == Spec => []LookupExact
  <1>1. LookInv => LookupExact
    BY Zenon DEF LookInv, LookupExact, Quiet, Exact
  <1> QED
    BY <1>1, DataAlways, LookInit, LookNext, PTL DEF Spec

(* Between operations, and unless a restart moved the head, the header     *)
(* marker is on the head's chain, although writeHeadBlock leaves it alone  *)
(* when a number is canonical already.                                     *)
THEOREM HeaderFollowsHead == Spec => []HeaderOnHead
  <1>1. MarkInv => HeaderOnHead
    BY Zenon DEF MarkInv, HeaderOnHead, Quiet, Marked
  <1> QED
    BY <1>1, DataAlways, MarkInit, MarkNext, PTL DEF Spec
=============================================================================
