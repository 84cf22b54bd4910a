------------------------------- MODULE Uncles -------------------------------
(***************************************************************************)
(* Uncles: which headers VerifyUncles of consensus/tppow lets a block      *)
(* include.  A block names headers that were mined beside its chain; the   *)
(* check looks back over a window of ancestors only.                       *)
(*                                                                         *)
(* Anybody makes headers, on any other header and with any list of uncles. *)
(* Headers that verifyHeader rejects are left out: neither a block nor an  *)
(* uncle is accepted with one.  A header becomes a block of the chain if   *)
(* its parent is one and VerifyUncles accepts its list; the list of one    *)
(* that does not is of no consequence, and not kept.                       *)
(***************************************************************************)
EXTENDS Integers, Sequences, FiniteSets

CONSTANTS
    Window,        \* ancestors looked at: 7
    maxUncles,
    MaxHeaders     \* bound

ASSUME UnclesAssumption == Window \in Nat /\ maxUncles \in Nat /\ MaxHeaders \in Nat

VARIABLES
    parentHash, num, path, \* headers: parent, number, itself and its ancestors
    blocks,                \* those that are blocks of the chain
    uncles                 \* the uncles of each

uncleVars == <<parentHash, num, path, blocks, uncles>>

Genesis == 0
Headers == DOMAIN parentHash

UnclesInit ==
    /\ parentHash = [h \in {Genesis} |-> Genesis] /\ num = [h \in {Genesis} |-> 0]
    /\ path = [h \in {Genesis} |-> {Genesis}]
    /\ blocks = {Genesis} /\ uncles = [h \in {Genesis} |-> <<>>]

Elements(s) == {s[i] : i \in 1..Len(s)}

(* The last blocks of the chain that ends in p.                            *)
Ancestors(p) == {a \in path[p] : num[a] > num[p] - Window}

(* Mutants: uncles of earlier blocks, or ancestors, are not refused.       *)
VerifyUnclesForgetful(p, list) ==
    /\ Len(list) <= maxUncles
    /\ \A i \in 1..Len(list) :
          /\ \A j \in 1..(i - 1) : list[j] # list[i]
          /\ list[i] \notin Ancestors(p)
          /\ parentHash[list[i]] \in Ancestors(p) \ {p}
VerifyUnclesOnChain(p, list) ==
    /\ Len(list) <= maxUncles
    /\ \A i \in 1..Len(list) :
          /\ \A a \in Ancestors(p) : list[i] \notin Elements(uncles[a])
          /\ \A j \in 1..(i - 1) : list[j] # list[i]
          /\ parentHash[list[i]] \in Ancestors(p) \ {p}

(* VerifyUncles returns nil for a block on p with this list.               *)
VerifyUncles(p, list) ==
    /\ Len(list) <= maxUncles
    /\ \A i \in 1..Len(list) :
          /\ \A a \in Ancestors(p) : list[i] \notin Elements(uncles[a])
          /\ \A j \in 1..(i - 1) : list[j] # list[i]
          /\ list[i] \notin Ancestors(p)
          /\ parentHash[list[i]] \in Ancestors(p) \ {p}

Lists == UNION {[1..k -> Headers] : k \in 0..(maxUncles + 1)}

MineHeader(p, list) ==
    LET h == Cardinality(Headers)
        Extend(f, v) == [g \in Headers \cup {h} |-> IF g = h THEN v ELSE f[g]]
        accepted == p \in blocks /\ VerifyUncles(p, list)
    IN  /\ h <= MaxHeaders
        /\ parentHash' = Extend(parentHash, p)
        /\ num' = Extend(num, num[p] + 1)
        /\ path' = Extend(path, path[p] \cup {h})
        /\ blocks' = IF accepted THEN blocks \cup {h} ELSE blocks
        /\ uncles' = Extend(uncles, IF accepted THEN list ELSE <<>>)

UnclesNext == \E p \in Headers, list \in Lists : MineHeader(p, list)

UnclesSpec == UnclesInit /\ [][UnclesNext]_uncleVars

-----------------------------------------------------------------------------
(* Along a chain no header is an uncle twice, in one block or in two,      *)
(* however far apart the two are.                                          *)
UncleOnce ==
    \A b \in blocks :
        /\ \A i, j \in 1..Len(uncles[b]) : i # j => uncles[b][i] # uncles[b][j]
        /\ \A a \in path[b] \ {b} : Elements(uncles[a]) \cap Elements(uncles[b]) = {}

(* No block has an ancestor, or itself, as an uncle, and no uncle's parent *)
(* is off the chain.                                                       *)
UncleBesideChain ==
    \A b \in blocks : \A u \in Elements(uncles[b]) : u \notin path[b] /\ parentHash[u] \in path[b]
=============================================================================
