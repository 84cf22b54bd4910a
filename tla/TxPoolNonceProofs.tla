-------------------------- MODULE TxPoolNonceProofs -------------------------
(***************************************************************************)
(* For every set of accounts, transactions, blocks and callers, every      *)
(* valid chain, and all limits: whenever the lock is free, the nonce the   *)
(* pool gives out for an account is the one after its pending ones, which  *)
(* have no gap.  The argument follows the pending list of an account       *)
(* through every stage of runReorg.                                        *)
(***************************************************************************)
EXTENDS TxPoolProofs

\* the highest nonce of S, as promotion and the end of a run compute it
Highest(S) == CHOOSE n \in {Nonce[t] : t \in S} : \A t \in S : Nonce[t] <= n

\* A finite list has a highest nonce: that of the transaction with the fewest
\* at or above it.
LEMMA HighestNonce ==
  ASSUME NEW S \in SUBSET Txs, S # {}, IsFiniteSet(S)
  PROVE  /\ Highest(S) \in Nat
         /\ \E t \in S : Nonce[t] = Highest(S)
         /\ \A t \in S : Nonce[t] <= Highest(S)
  <1> DEFINE up(t) == {u \in S : Nonce[t] <= Nonce[u]}
             K == {Cardinality(up(t)) : t \in S}
  <1>1. \A t \in S : IsFiniteSet(up(t)) /\ Cardinality(up(t)) \in Nat
    <2> SUFFICES ASSUME NEW t \in S PROVE IsFiniteSet(up(t)) /\ Cardinality(up(t)) \in Nat
      BY Zenon
    <2>1. up(t) \in SUBSET S
      BY Zenon
    <2> HIDE DEF up
    <2>2. IsFiniteSet(up(t))
      BY <2>1, FS_Subset, Zenon
    <2> QED BY <2>2, FS_CardinalityType, Zenon
  <1>2. PICK t \in S : \A u \in S : Cardinality(up(t)) <= Cardinality(up(u))
    <2> HIDE DEF up
    <2>1. K \in SUBSET Nat /\ K # {}
      BY <1>1, Zenon
    <2> HIDE DEF K
    <2>2. PICK k \in K : \A m \in K : k <= m
      BY <2>1, Least, Zenon
    <2> QED BY <2>2, Zenon DEF K
  <1>3. \A u \in S : Nonce[u] \in Nat
    BY TxPoolAssumption, Zenon
  <1>4. ASSUME NEW u \in S PROVE Nonce[u] <= Nonce[t]
    <2> SUFFICES ASSUME ~(Nonce[u] <= Nonce[t]) PROVE FALSE
      BY Zenon
    <2>1. Nonce[u] \in Nat /\ Nonce[t] \in Nat
      BY <1>3, Zenon
    <2>2. Nonce[t] <= Nonce[t] /\ ~(Nonce[u] <= Nonce[t])
      BY <2>1
    <2>3. \A v \in S : Nonce[u] <= Nonce[v] => Nonce[t] <= Nonce[v]
      <3> SUFFICES ASSUME NEW v \in S, Nonce[u] <= Nonce[v] PROVE Nonce[t] <= Nonce[v]
        BY Zenon
      <3>1. Nonce[v] \in Nat
        BY <1>3, Zenon
      <3> QED BY <2>1, <2>2, <3>1
    <2>4. up(u) \in SUBSET up(t) /\ t \in up(t) /\ t \notin up(u)
      BY <2>2, <2>3, Zenon
    <2> HIDE DEF up
    <2>5. /\ Cardinality(up(u)) <= Cardinality(up(t))
          /\ Cardinality(up(t)) # Cardinality(up(u))
      BY <1>1, <2>4, FS_Subset, Zenon
    <2>6. Cardinality(up(t)) <= Cardinality(up(u))
      BY <1>2, Zenon
    <2>7. Cardinality(up(t)) \in Nat /\ Cardinality(up(u)) \in Nat
      BY <1>1, Zenon
    <2> QED BY <2>5, <2>6, <2>7
  <1>5. Nonce[t] \in {Nonce[u] : u \in S} /\ \A u \in S : Nonce[u] <= Nonce[t]
    BY <1>4, Zenon
  <1>6. Highest(S) \in {Nonce[u] : u \in S} /\ \A u \in S : Nonce[u] <= Highest(S)
    BY <1>5, Zenon DEF Highest
  <1> QED BY <1>3, <1>6, Zenon

\* no nonce is missing from s to any of S
Gapless(S, s) ==
    \A t \in S : s <= Nonce[t] /\ \A n \in s .. Nonce[t] : \E u \in S : Nonce[u] = n

\* Consecutive nonces, and the other way round for a finite list.
LEMMA GaplessInterval ==
  ASSUME NEW S \in SUBSET Txs, NEW s \in Nat, NEW N \in Nat, s <= N,
         {Nonce[t] : t \in S} = s .. N - 1
  PROVE  Gapless(S, s)
  <1> SUFFICES ASSUME NEW t \in S
               PROVE  s <= Nonce[t] /\ \A n \in s .. Nonce[t] : \E u \in S : Nonce[u] = n
    BY Zenon DEF Gapless
  <1>1. Nonce[t] \in s .. N - 1
    BY Zenon
  <1>2. s <= Nonce[t] /\ s .. Nonce[t] \subseteq s .. N - 1
    BY <1>1
  <1>3. ASSUME NEW n \in s .. Nonce[t] PROVE \E u \in S : Nonce[u] = n
    BY <1>2, <1>3, Zenon
  <1> QED BY <1>2, <1>3, Zenon

\* Nonces without a gap are those up to the highest one.
LEMMA IntervalGapless ==
  ASSUME NEW S \in SUBSET Txs, S # {}, IsFiniteSet(S), NEW s \in Nat, Gapless(S, s)
  PROVE  /\ s <= 1 + Highest(S) /\ 1 + Highest(S) \in Nat
         /\ {Nonce[t] : t \in S} = s .. (1 + Highest(S)) - 1
  <1> DEFINE m == Highest(S)
  <1>1. m \in Nat /\ (\E t \in S : Nonce[t] = m) /\ \A t \in S : Nonce[t] <= m
    BY HighestNonce, Zenon
  <1> HIDE DEF m
  <1>2. s <= m /\ \A n \in s .. m : \E u \in S : Nonce[u] = n
    BY <1>1, Zenon DEF Gapless
  <1>3. ASSUME NEW t \in S PROVE Nonce[t] \in s .. m
    <2>1. Nonce[t] \in Nat /\ s <= Nonce[t] /\ Nonce[t] <= m
      BY <1>1, TxPoolAssumption, Zenon DEF Gapless
    <2> QED BY <1>1, <2>1
  <1>4. {Nonce[t] : t \in S} = s .. m
    BY <1>2, <1>3, Zenon
  <1>5. s <= 1 + m /\ 1 + m \in Nat /\ (1 + m) - 1 = m
    BY <1>1, <1>2
  <1> QED BY <1>4, <1>5, Zenon DEF m

\* the pending nonces go from s up to the next one
Interval(P, a, s) ==
    /\ P.nonces[a] \in Nat /\ s <= P.nonces[a]
    /\ {Nonce[t] : t \in P.pending[a]} = s .. P.nonces[a] - 1

\* removeTx leaves an account alone that has no pending transaction with a
\* nonce it names.
LEMMA RemoveTxMiss ==
  ASSUME NEW P, Sound(P), NEW D, NEW a \in Accounts, P.nonces[a] \in Nat, Hit(P, D, a) = {}
  PROVE  RemoveTx(P, D).pending[a] = P.pending[a] /\ RemoveTx(P, D).nonces[a] = P.nonces[a]
  <1>1. RemoveTx(P, D).pending[a] = Left(P, D, a)
    BY RemoveTxParts, Zenon
  <1>2. Following(P.pending[a], Hit(P, D, a)) = {}
    BY Zenon DEF Following
  <1>3. RemoveTx(P, D).pending[a] = P.pending[a]
    BY <1>1, <1>2, Zenon DEF Left
  <1>4. \/ RemoveTx(P, D).nonces[a] = P.nonces[a]
        \/ \E u \in Hit(P, D, a) : RemoveTx(P, D).nonces[a] = Nonce[u]
    BY RemoveTxNonce, Zenon
  <1> QED BY <1>3, <1>4, Zenon

\* removeTx keeps the nonces of the pending ones consecutive: it drops or queues
\* everything from the lowest one it names.
LEMMA RemoveTxInterval ==
  ASSUME NEW P, Sound(P), NEW D, NEW a \in Accounts, NEW s \in Nat, Interval(P, a, s)
  PROVE  Interval(RemoveTx(P, D), a, s)
  <1> DEFINE S == P.pending[a]
             H == Hit(P, D, a)
             N == P.nonces[a]
             Q == RemoveTx(P, D)
             M == Q.nonces[a]
  <1>1. N \in Nat /\ s <= N /\ {Nonce[t] : t \in S} = s .. N - 1
    BY Zenon DEF Interval
  <1>2. CASE H = {}
    <2>1. Q.pending[a] = S /\ Q.nonces[a] = N
      <3>1. N \in Nat
        BY <1>1, Zenon
      <3> QED BY <1>2, <3>1, RemoveTxMiss, Zenon
    <2> QED BY <1>1, <2>1, Zenon DEF Interval
  <1>3. CASE H # {}
    <2>1. /\ M \in Nat
          /\ \A u \in H : M <= Nonce[u]
          /\ M = N \/ \E u \in H : M = Nonce[u]
      <3>1. N \in Nat
        BY <1>1, Zenon
      <3>2. /\ M \in Nat
            /\ \A u \in H : M <= Nonce[u]
        BY <3>1, RemoveTxNonce, Zenon
      <3>3. M = N \/ \E u \in H : M = Nonce[u]
        BY <3>1, RemoveTxNonce
      <3> QED BY <3>2, <3>3, Zenon
    <2>2. Q.pending[a] = S \ (H \cup Following(S, H))
      <3>1. Q.pending[a] = Left(P, D, a)
        BY RemoveTxParts, Zenon
      <3> QED BY <3>1 DEF Left
    <2>3. H \subseteq S /\ S \subseteq Txs /\ \A t, u \in S : Nonce[t] = Nonce[u] => t = u
      BY Zenon DEF Hit, Sound, Shape, In, OneEach
    <2> HIDE DEF S, H, Q, M, N
    <2>4. ASSUME NEW t \in S PROVE Nonce[t] \in Nat /\ s <= Nonce[t] /\ Nonce[t] < N
      <3>1. Nonce[t] \in s .. N - 1
        BY <1>1, Zenon
      <3> QED BY <1>1, <3>1
    <2>5. PICK h \in H : M = Nonce[h]
      <3>1. PICK u \in H : TRUE
        BY <1>3, Zenon
      <3>2. M <= Nonce[u] /\ Nonce[u] \in Nat /\ Nonce[u] < N
        BY <2>1, <2>3, <2>4, <3>1, Zenon
      <3>3. M # N
        BY <1>1, <2>1, <3>2
      <3> QED BY <2>1, <3>3, Zenon
    <2>6. h \in S /\ s <= M /\ M < N
      BY <2>3, <2>4, <2>5, Zenon
    <2>7. ASSUME NEW t \in Q.pending[a] PROVE Nonce[t] \in s .. M - 1
      <3>1. t \in S /\ t \notin H /\ t \notin Following(S, H)
        BY <2>2, Zenon
      <3>2. ~(M < Nonce[t])
        BY <2>5, <3>1, Zenon DEF Following
      <3>3. M # Nonce[t]
        BY <2>3, <2>5, <2>6, <3>1, Zenon
      <3>4. Nonce[t] \in Nat /\ s <= Nonce[t]
        BY <2>4, <3>1, Zenon
      <3> QED BY <2>1, <3>2, <3>3, <3>4
    <2>8. ASSUME NEW n \in s .. M - 1 PROVE \E t \in Q.pending[a] : Nonce[t] = n
      <3>1. n \in s .. N - 1 /\ n < M /\ n \in Nat
        BY <1>1, <2>1, <2>6
      <3>2. PICK t \in S : Nonce[t] = n
        BY <1>1, <3>1, Zenon
      <3>3. ASSUME NEW u \in H PROVE ~(Nonce[u] <= n)
        <4>1. M <= Nonce[u] /\ Nonce[u] \in Nat
          BY <2>1, <2>3, <2>4, Zenon
        <4> QED BY <2>1, <3>1, <4>1
      <3>4. n <= n /\ \A u \in H : ~(Nonce[u] < n)
        <4>1. \A u \in H : Nonce[u] \in Nat /\ ~(Nonce[u] <= n)
          BY <2>3, <2>4, <3>3, Zenon
        <4> QED BY <3>1, <4>1
      <3>5. t \notin H /\ t \notin Following(S, H)
        BY <3>2, <3>3, <3>4, Zenon DEF Following
      <3> QED BY <2>2, <3>2, <3>5, Zenon
    <2>9. {Nonce[t] : t \in Q.pending[a]} = s .. M - 1
      BY <2>7, <2>8, Zenon
    <2> QED BY <2>1, <2>6, <2>9, Zenon DEF Interval, M, Q
  <1> QED BY <1>2, <1>3, Zenon

\* removeTx leaves an account alone of which it names no transaction.
LEMMA RemoveTxOther ==
  ASSUME NEW P, Sound(P), NEW D, NEW a \in Accounts, P.nonces[a] \in Nat,
         \A d \in D : From[d] # a
  PROVE  /\ RemoveTx(P, D).pending[a] = P.pending[a]
         /\ RemoveTx(P, D).queue[a] = P.queue[a]
         /\ RemoveTx(P, D).nonces[a] = P.nonces[a]
  <1> DEFINE known(b) == Of(D \cap P.all, b)
             hit(b) == {u \in P.pending[b] : SameNonce(known(b), u) # {}}
             inv(b) == Following(P.pending[b], hit(b))
             gone(b) == {u \in P.queue[b] : \E d \in known(b) :
                           Nonce[d] = Nonce[u] /\ SameNonce(P.pending[b], d) = {}}
             low(b) == {Nonce[u] : u \in hit(b)} \cup {P.nonces[b]}
             P1 == [pending |-> [b \in Accounts |-> P.pending[b] \ (hit(b) \cup inv(b))],
                    queue |-> [b \in Accounts |-> P.queue[b] \ gone(b)],
                    all |-> P.all \ D,
                    nonces |-> [b \in Accounts |->
                                  CHOOSE n \in low(b) : \A m \in low(b) : n <= m]]
             T == UNION {inv(b) \ D : b \in Accounts}
  <1>1. RemoveTx(P, D) = Enqueue(P1, T)
    BY Zenon DEF RemoveTx
  <1>2. IsPool(P1) /\ P1.queue[a] = P.queue[a] \ gone(a)
    BY Zenon DEF IsPool
  <1>3. known(a) = {}
    BY Zenon DEF Of
  <1>4. hit(a) = {} /\ gone(a) = {}
    BY <1>3, Zenon DEF SameNonce
  <1>5. inv(a) = {} /\ \A b \in Accounts : inv(b) \subseteq P.pending[b]
    BY <1>4, Zenon DEF Following
  <1>6. Hit(P, D, a) = {}
    BY <1>4, Zenon DEF Hit
  <1>7. \A b \in Accounts : \A t \in P.pending[b] : From[t] = b
    BY Zenon DEF Sound, Shape, In
  <1> HIDE DEF inv, gone, P1
  <1>8. Of(T, a) = {}
    <2> SUFFICES ASSUME NEW t \in Of(T, a) PROVE FALSE
      BY Zenon
    <2>1. PICK b \in Accounts : t \in inv(b) /\ From[t] = a
      BY Zenon DEF Of
    <2>2. b = a
      BY <1>5, <1>7, <2>1, Zenon
    <2> QED BY <1>5, <2>1, <2>2, Zenon
  <1> HIDE DEF T
  <1>9. Enqueue(P1, T).queue[a] = AddAll(P1.queue[a], Of(T, a))
    BY <1>2, EnqueueParts, Zenon
  <1>10. \A S : AddAll(S, {}) = S
    BY Zenon DEF AddAll, Inserted, Replaced, SameNonce
  <1>11. RemoveTx(P, D).queue[a] = P.queue[a]
    BY <1>1, <1>2, <1>4, <1>8, <1>9, <1>10, ZenonT(30)
  <1>12. RemoveTx(P, D).pending[a] = P.pending[a] /\ RemoveTx(P, D).nonces[a] = P.nonces[a]
    BY <1>6, RemoveTxMiss
  <1> QED BY <1>11, <1>12, Zenon

\* Add keeps the nonces there are, and adds those of what it inserts.
LEMMA AddAllNonces ==
  ASSUME NEW S, NEW T
  PROVE  /\ \A t \in S : \E u \in AddAll(S, T) : Nonce[u] = Nonce[t]
         /\ AddAll(S, T) \subseteq S \cup Inserted(S, T)
         /\ Inserted(S, T) \subseteq AddAll(S, T) /\ Inserted(S, T) \subseteq T
  <1>1. ASSUME NEW t \in S PROVE \E u \in AddAll(S, T) : Nonce[u] = Nonce[t]
    <2>1. CASE t \in Replaced(S, T)
      <3>1. PICK u \in Inserted(S, T) : Nonce[u] = Nonce[t]
        BY <2>1, Zenon DEF Replaced, SameNonce
      <3> QED BY <3>1, Zenon DEF AddAll
    <2>2. CASE t \notin Replaced(S, T)
      BY <2>2, Zenon DEF AddAll
    <2> QED BY <2>1, <2>2, Zenon
  <1> QED BY <1>1, Zenon DEF AddAll, Inserted

\* An insertion changes no set of pending nonces.
LEMMA InsertNonces ==
  ASSUME NEW P, Sound(P), NEW t \in Txs, NEW a \in Accounts
  PROVE  {Nonce[u] : u \in Insert(P, t).pending[a]} = {Nonce[u] : u \in P.pending[a]}
  <1> DEFINE Q == Insert(P, t)
  <1>1. IsPool(P) /\ P.pending \in [Accounts -> SUBSET Txs] /\ From[t] \in Accounts
    BY TxPoolAssumption, Zenon DEF Sound, Shape
  <1>2. CASE Overlaps(P, t)
    <2> DEFINE b == From[t]
               old == Replaced(P.pending[b], {t})
               new == Inserted(P.pending[b], {t})
    <2>1. Q = [P EXCEPT !.pending[b] = (@ \ old) \cup new, !.all = (@ \ old) \cup new]
      BY <1>2, Zenon DEF Insert
    <2>2. AddAll(P.pending[b], {t}) = (P.pending[b] \ old) \cup new
      BY Zenon DEF AddAll
    <2>3. \E u \in P.pending[b] : Nonce[u] = Nonce[t]
      BY <1>2, Zenon DEF Overlaps, SameNonce
    <2> HIDE DEF old, new
    <2>4. Q.pending = [P.pending EXCEPT ![b] = (@ \ old) \cup new]
      BY <1>1, <2>1 DEF IsPool
    <2> HIDE DEF Q
    <2>5. CASE a = b
      <3>1. Q.pending[a] = AddAll(P.pending[a], {t})
        BY <1>1, <2>2, <2>4, <2>5, Zenon
      <3>2. /\ \A v \in P.pending[a] : \E u \in Q.pending[a] : Nonce[u] = Nonce[v]
            /\ Q.pending[a] \subseteq P.pending[a] \cup {t}
        <4> DEFINE T == {t}
        <4> HIDE DEF T
        <4>1. Q.pending[a] = AddAll(P.pending[a], T)
          BY <3>1, Zenon DEF T
        <4>2. /\ \A v \in P.pending[a] : \E u \in AddAll(P.pending[a], T) : Nonce[u] = Nonce[v]
              /\ AddAll(P.pending[a], T) \subseteq P.pending[a] \cup Inserted(P.pending[a], T)
              /\ Inserted(P.pending[a], T) \subseteq T
          BY AddAllNonces
        <4> QED BY <4>1, <4>2, Zenon DEF T
      <3>3. \A v \in Q.pending[a] : \E u \in P.pending[a] : Nonce[u] = Nonce[v]
        BY <2>3, <2>5, <3>2, Zenon
      <3>4. {Nonce[u] : u \in Q.pending[a]} = {Nonce[u] : u \in P.pending[a]}
        BY <3>2, <3>3
      <3> QED BY <3>4, Zenon DEF Q
    <2>6. CASE a # b
      <3>1. Q.pending[a] = P.pending[a]
        BY <1>1, <2>4, <2>6, Zenon
      <3> QED BY <3>1, Zenon DEF Q
    <2> QED BY <2>5, <2>6, Zenon
  <1>3. CASE ~Overlaps(P, t)
    <2>1. Q = Enqueue(P, {t})
      BY <1>3, Zenon DEF Insert
    <2> DEFINE T == {t}
    <2> HIDE DEF T, Q
    <2>2. Enqueue(P, T).pending = P.pending
      BY <1>1, EnqueueParts, Zenon
    <2>3. Q.pending = P.pending
      BY <2>1, <2>2, Zenon DEF T
    <2> QED BY <2>3, Zenon DEF Q
  <1> QED BY <1>2, <1>3, Zenon

\* add keeps consecutive nonces.
LEMMA AddInterval ==
  ASSUME Sound(pool), NEW t \in Txs, NEW D, NEW a \in Accounts, NEW s \in Nat,
         Interval(pool, a, s)
  PROVE  Interval(AddResult(t, D).pool, a, s)
  <1> DEFINE P1 == RemoveTx(pool, D)
             P2 == Insert(P1, t)
  <1>1. AddResult(t, D).pool = P2
    BY Zenon DEF AddResult
  <1>2. Interval(P1, a, s)
    BY RemoveTxInterval
  <1>3. Sound(P1)
    BY RemoveTxSound
  <1> HIDE DEF P1
  <1>4. {Nonce[u] : u \in P2.pending[a]} = {Nonce[u] : u \in P1.pending[a]}
    BY <1>3, InsertNonces
  <1>5. P2.nonces = P1.nonces
    BY <1>3, InsertParts
  <1> HIDE DEF P2
  <1>6. Interval(P2, a, s)
    BY <1>2, <1>4, <1>5, Zenon DEF Interval
  <1> QED BY <1>1, <1>6, Zenon

\* An insertion leaves the other accounts alone; with no pending transaction in
\* its way it enters the queue, where it replaces at most the one of its nonce.
LEMMA InsertOther ==
  ASSUME NEW P, Sound(P), NEW t \in Txs, NEW a \in Accounts, From[t] # a
  PROVE  Insert(P, t).pending[a] = P.pending[a] /\ Insert(P, t).queue[a] = P.queue[a]
  <1> DEFINE Q == Insert(P, t)
  <1>1. IsPool(P) /\ P.pending \in [Accounts -> SUBSET Txs] /\ From[t] \in Accounts
    BY TxPoolAssumption, Zenon DEF Sound, Shape
  <1>2. CASE Overlaps(P, t)
    <2> DEFINE old == Replaced(P.pending[From[t]], {t})
               new == Inserted(P.pending[From[t]], {t})
    <2>1. Q = [P EXCEPT !.pending[From[t]] = (@ \ old) \cup new, !.all = (@ \ old) \cup new]
      BY <1>2, Zenon DEF Insert
    <2> HIDE DEF old, new
    <2>2. /\ Q.queue = P.queue
          /\ Q.pending = [P.pending EXCEPT ![From[t]] = (@ \ old) \cup new]
      BY <1>1, <2>1 DEF IsPool
    <2> HIDE DEF Q
    <2>3. Q.pending[a] = P.pending[a]
      BY <1>1, <2>2, Zenon
    <2> QED BY <2>2, <2>3, Zenon DEF Q
  <1>3. CASE ~Overlaps(P, t)
    <2> DEFINE T == {t}
    <2>1. Q = Enqueue(P, T)
      BY <1>3, Zenon DEF Insert
    <2>2. Of(T, a) = {}
      BY Zenon DEF Of
    <2> HIDE DEF T, Q
    <2>3. /\ Enqueue(P, T).pending = P.pending
          /\ Enqueue(P, T).queue[a] = AddAll(P.queue[a], Of(T, a))
      BY <1>1, EnqueueParts, Zenon
    <2>4. \A S : AddAll(S, {}) = S
      BY Zenon DEF AddAll, Inserted, Replaced, SameNonce
    <2> QED BY <2>1, <2>2, <2>3, <2>4, Zenon DEF Q
  <1> QED BY <1>2, <1>3, Zenon

\* A transaction that replaces no pending one is queued, if it enters at all.
LEMMA InsertQueue ==
  ASSUME NEW P, Sound(P), NEW t \in Txs, ~Overlaps(P, t), t \notin P.all, t \in Insert(P, t).all
  PROVE  /\ Insert(P, t).pending = P.pending
         /\ t \in Insert(P, t).queue[From[t]]
         /\ \A u \in P.queue[From[t]] : Nonce[u] # Nonce[t] => u \in Insert(P, t).queue[From[t]]
  <1> DEFINE Q == Insert(P, t)
             T == {t}
             a == From[t]
  <1>1. IsPool(P) /\ a \in Accounts
    BY TxPoolAssumption, Zenon DEF Sound, Shape
  <1>2. Q = Enqueue(P, T)
    BY Zenon DEF Insert
  <1>3. Of(T, a) = T
    BY Zenon DEF Of
  <1>4. Sound(Q)
    BY InsertSound
  <1>5. t \in Q.all
    OBVIOUS
  <1>6. t \notin P.pending[a]
    BY <1>1, Zenon DEF Sound, In
  <1>7. \A u : u \in T <=> u = t
    BY Zenon
  <1> HIDE DEF T, Q
  <1>8. /\ Enqueue(P, T).pending = P.pending
        /\ Enqueue(P, T).queue[a] = AddAll(P.queue[a], Of(T, a))
    BY <1>1, EnqueueParts, Zenon
  <1>9. Q.pending = P.pending /\ Q.queue[a] = AddAll(P.queue[a], T)
    BY <1>2, <1>3, <1>8, Zenon
  <1>10. t \in Q.queue[a]
    <2>1. t \in In(Q, a)
      BY <1>4, <1>5, Zenon DEF Sound
    <2> QED BY <1>6, <1>9, <2>1, Zenon DEF In
  <1>11. ASSUME NEW u \in P.queue[a], Nonce[u] # Nonce[t] PROVE u \in Q.queue[a]
    <2>1. u \notin Replaced(P.queue[a], T)
      <3> SUFFICES ASSUME u \in Replaced(P.queue[a], T) PROVE FALSE
        BY Zenon
      <3>1. PICK v \in Inserted(P.queue[a], T) : Nonce[v] = Nonce[u]
        BY Zenon DEF Replaced, SameNonce
      <3>2. v = t
        BY <1>7, <3>1, Zenon DEF Inserted
      <3> QED BY <1>11, <3>1, <3>2, Zenon
    <2> QED BY <1>9, <2>1, Zenon DEF AddAll
  <1> QED BY <1>9, <1>10, <1>11, Zenon DEF Q

-----------------------------------------------------------------------------
(* Promotion. *)

\* What is ready is a run of nonces from the front of the queue.
LEMMA ReadyRun ==
  ASSUME NEW S \in SUBSET Txs, NEW n \in Nat, Ready(S, n) # {}
  PROVE  \E f \in Ready(S, n) : /\ Nonce[f] <= n
                                /\ \A u \in S : Nonce[f] <= Nonce[u]
                                /\ Gapless(Ready(S, n), Nonce[f])
  <1> DEFINE R == Ready(S, n)
             front == {t \in S : \A u \in S : Nonce[t] <= Nonce[u]}
             Run(f, t) == \A k \in Nonce[f] .. Nonce[t] : \E u \in S : Nonce[u] = k
  <1>1. R = {t \in S : \E f \in front : Nonce[f] <= n /\ Run(f, t)}
    BY Zenon DEF Ready
  <1>2. \A t \in S : Nonce[t] \in Nat
    BY TxPoolAssumption, Zenon
  <1>3. PICK f \in front : Nonce[f] <= n
    BY <1>1, Zenon
  <1>4. f \in S /\ \A u \in S : Nonce[f] <= Nonce[u]
    BY <1>3, Zenon
  <1>5. f \in R
    <2>1. ASSUME NEW k \in Nonce[f] .. Nonce[f] PROVE k = Nonce[f]
      <3>1. Nonce[f] \in Nat
        BY <1>2, <1>4, Zenon
      <3> QED BY <3>1
    <2>2. Run(f, f)
      BY <1>4, <2>1, Zenon
    <2> HIDE DEF Run, front
    <2> QED BY <1>1, <1>3, <1>4, <2>2, Zenon
  <1>6. ASSUME NEW t \in R
        PROVE  Nonce[f] <= Nonce[t] /\ \A k \in Nonce[f] .. Nonce[t] : \E u \in R : Nonce[u] = k
    <2>1. t \in S /\ Nonce[f] <= Nonce[t]
      BY <1>1, <1>4, Zenon
    <2>2. Run(f, t)
      <3>1. PICK g \in front : Run(g, t)
        BY <1>1, Zenon
      <3>2. g \in S /\ Nonce[g] <= Nonce[f] /\ Nonce[f] <= Nonce[g]
        BY <1>4, <3>1, Zenon
      <3>3. Nonce[g] \in Nat /\ Nonce[f] \in Nat
        BY <1>2, <1>4, <3>2, Zenon
      <3>4. Nonce[g] = Nonce[f]
        BY <3>2, <3>3
      <3> QED BY <3>1, <3>4, Zenon
    <2>3. ASSUME NEW k \in Nonce[f] .. Nonce[t] PROVE \E u \in R : Nonce[u] = k
      <3>1. PICK u \in S : Nonce[u] = k
        BY <2>2, Zenon
      <3>2. Nonce[f] .. k \subseteq Nonce[f] .. Nonce[t]
        <4>1. Nonce[f] \in Nat /\ Nonce[t] \in Nat
          BY <1>2, <1>4, <2>1, Zenon
        <4> QED BY <4>1
      <3>3. Run(f, u)
        BY <2>2, <3>1, <3>2, Zenon
      <3> HIDE DEF Run, front
      <3> QED BY <1>1, <1>3, <3>1, <3>3, Zenon
    <2> QED BY <2>1, <2>3, Zenon
  <1>7. Gapless(R, Nonce[f])
    BY <1>6, Zenon DEF Gapless
  <1> QED BY <1>3, <1>4, <1>5, <1>7, Zenon

\* promoteExecutables adds all that is ready: no pending one has such a nonce.
LEMMA PromoteAdds ==
  ASSUME NEW P, Sound(P), state \in Blocks, NEW A, NEW a \in Accounts
  PROVE  /\ Promote(P, A).pending[a]
              = IF a \in A THEN P.pending[a] \cup Readies(P, a) ELSE P.pending[a]
         /\ Promote(P, A).nonces[a]
              = IF a \in A /\ Readies(P, a) # {} THEN 1 + Highest(Readies(P, a))
                ELSE P.nonces[a]
         /\ \A t \in P.pending[a], u \in Readies(P, a) : Nonce[t] # Nonce[u]
  <1> DEFINE S == P.pending[a]
             R == Readies(P, a)
  <1>1. R \subseteq P.queue[a]
    BY PromoteParts
  <1>2. ASSUME NEW t \in S, NEW u \in R, Nonce[t] = Nonce[u] PROVE FALSE
    <2>1. t \in In(P, a) /\ u \in In(P, a) /\ u \in P.queue[a]
      BY <1>1, Zenon DEF In
    <2>2. t = u
      BY <1>2, <2>1, SameIsEqual, Zenon DEF Sound
    <2> QED BY <2>1, <2>2, Zenon DEF Sound, Shape
  <1>3. Promote(P, A).pending[a] = IF a \in A THEN AddAll(S, R) ELSE S
    BY PromoteParts
  <1>4. Promote(P, A).nonces[a]
          = IF a \in A /\ Inserted(S, R) # {} THEN 1 + Highest(Inserted(S, R)) ELSE P.nonces[a]
    BY Zenon DEF Promote, Highest
  <1> HIDE DEF R, S
  <1>5. Inserted(S, R) = R
    BY <1>2, Zenon DEF Inserted, SameNonce
  <1>6. Replaced(S, R) = {}
    BY <1>2, <1>5, Zenon DEF Replaced, SameNonce
  <1>7. AddAll(S, R) = S \cup R
    BY <1>5, <1>6, Zenon DEF AddAll
  <1> QED BY <1>2, <1>3, <1>4, <1>5, <1>7, ZenonT(30) DEF R, S

-----------------------------------------------------------------------------
(* The nonces of an account through the stages of a run. *)

\* the account can pay for the transaction in the current state
Pays(t, a) == Cost[t] <= GetBalance[state][a]

\* pending transactions that the state has not executed
Live(P, a) == P.pending[a] \ Forward(P.pending[a], GetNonce[state][a])

\* while reset adds the transactions T of the branch of block o again: the
\* pending ones go on from o's nonce, and each nonce the new state takes back
\* is still to be added or queued again, unless nothing is reinjected at all
Reinjected(P, T, a, o) ==
    /\ P.nonces[a] = GetNonce[state][a]
    /\ Gapless(P.pending[a], GetNonce[o][a])
    /\ \/ Reinject(o, state) = {} /\ AtLeast(P.queue[a], GetNonce[o][a])
       \/ \A n \in GetNonce[state][a] .. GetNonce[o][a] - 1 :
            \/ \E t \in T : From[t] = a /\ Nonce[t] = n
            \/ \E u \in P.queue[a] : Nonce[u] = n /\ Pays(u, a)

\* after the promotion of a reset: no gap above the state's nonce, and the nonce
\* is raised only if the first one stays; or else all will be demoted
Demotable(P, a) ==
    \/ /\ Gapless(Live(P, a), GetNonce[state][a])
       /\ P.nonces[a] \in Nat /\ GetNonce[state][a] <= P.nonces[a]
       /\ GetNonce[state][a] # P.nonces[a] =>
            \E u \in P.pending[a] : Nonce[u] = GetNonce[state][a] /\ Pays(u, a)
    \/ /\ P.nonces[a] = GetNonce[state][a]
       /\ \A u \in P.pending[a] : Nonce[u] # GetNonce[state][a]

\* from the demotion, or a promotion without a reset, to the end of the run
Front(P, a) ==
    /\ Gapless(P.pending[a], GetNonce[state][a])
    /\ P.nonces[a] \in Nat /\ GetNonce[state][a] <= P.nonces[a]
    /\ P.pending[a] = {} => P.nonces[a] = GetNonce[state][a]

\* Without a reset, what is ready follows the pending ones.
LEMMA PromoteFront ==
  ASSUME NEW P, Sound(P), IsFiniteSet(P.all), state \in Blocks, NEW A, NEW a \in Accounts,
         Interval(P, a, GetNonce[state][a])
  PROVE  Front(Promote(P, A), a)
  <1> DEFINE s == GetNonce[state][a]
             S == P.pending[a]
             N == P.nonces[a]
             Q == Promote(P, A)
             R == Readies(P, a)
  <1>1. s \in Nat /\ N \in Nat /\ s <= N /\ {Nonce[t] : t \in S} = s .. N - 1
    BY TxPoolAssumption, Zenon DEF Interval
  <1>2. S \in SUBSET Txs /\ R \in SUBSET Txs
    <2>1. R \subseteq P.queue[a]
      BY PromoteParts
    <2> QED BY <2>1, Zenon DEF Sound, Shape
  <1>3. Gapless(S, s)
    BY <1>1, <1>2, GaplessInterval
  <1>4. /\ Q.pending[a] = IF a \in A THEN S \cup R ELSE S
        /\ Q.nonces[a] = IF a \in A /\ R # {} THEN 1 + Highest(R) ELSE N
    <2>1. /\ Promote(P, A).pending[a]
               = IF a \in A THEN P.pending[a] \cup Readies(P, a) ELSE P.pending[a]
          /\ Promote(P, A).nonces[a]
               = IF a \in A /\ Readies(P, a) # {} THEN 1 + Highest(Readies(P, a))
                 ELSE P.nonces[a]
      BY PromoteAdds, SMTT(20)
    <2> QED BY <2>1, Zenon
  <1>5. CASE ~(a \in A /\ R # {})
    <2>1. Q.pending[a] = S /\ Q.nonces[a] = N
      <3> HIDE DEF Q, R, S, N
      <3> QED BY <1>4, <1>5, Zenon
    <2>2. S = {} => N = s
      <3> SUFFICES ASSUME S = {}, N # s PROVE FALSE
        BY Zenon
      <3>1. s \in s .. N - 1
        BY <1>1
      <3> QED BY <1>1, <3>1, Zenon
    <2> QED BY <1>1, <1>3, <2>1, <2>2, Zenon DEF Front
  <1>6. CASE a \in A /\ R # {}
    <2>1. R = Ready(Payable(P, a), N) /\ Payable(P, a) \in SUBSET Txs
      <3>1. Payable(P, a) \subseteq P.queue[a]
        BY Zenon DEF Payable
      <3> QED BY <3>1, Zenon DEF Readies, Sound, Shape
    <2>2. IsFiniteSet(R)
      <3>1. R \in SUBSET P.all
        <4>1. R \subseteq P.queue[a]
          BY PromoteParts
        <4>2. ASSUME NEW t \in R PROVE t \in P.all
          <5>1. t \in P.queue[a] /\ t \in Txs /\ From[t] = a
            BY <4>1, Zenon DEF Sound, Shape, In
          <5> QED BY <5>1, Zenon DEF Sound, In
        <4> QED BY <4>2, Zenon
      <3> QED BY <3>1, FS_Subset, Zenon
    <2>3. AtLeast(R, s)
      BY PromoteParts
    <2> HIDE DEF R, S, N, Q, s
    <2>4. PICK f \in R : Nonce[f] <= N /\ Gapless(R, Nonce[f])
      <3> DEFINE Y == Payable(P, a)
      <3> HIDE DEF Y
      <3>1. R = Ready(Y, N) /\ Y \in SUBSET Txs /\ Ready(Y, N) # {}
        BY <1>6, <2>1, Zenon DEF Y
      <3>2. \E f \in Ready(Y, N) : Nonce[f] <= N /\ Gapless(Ready(Y, N), Nonce[f])
        BY <1>1, <3>1, ReadyRun
      <3> QED BY <3>1, <3>2, Zenon
    <2>5. Highest(R) \in Nat
      BY <1>2, <1>6, <2>2, HighestNonce, Zenon
    <2>6. Nonce[f] \in Nat /\ s <= Nonce[f] /\ Nonce[f] <= Highest(R)
      BY <1>2, <1>6, <2>2, <2>3, <2>4, HighestNonce, TxPoolAssumption, Zenon DEF AtLeast
    <2>7. Q.pending[a] = S \cup R /\ Q.nonces[a] = 1 + Highest(R)
      BY <1>4, <1>6, Zenon
    <2>8. ASSUME NEW t \in R
          PROVE  s <= Nonce[t] /\ \A n \in s .. Nonce[t] : \E u \in S \cup R : Nonce[u] = n
      <3>1. s <= Nonce[t] /\ Nonce[t] \in Nat
        BY <1>2, <2>3, TxPoolAssumption, Zenon DEF AtLeast
      <3>2. ASSUME NEW n \in s .. Nonce[t] PROVE \E u \in S \cup R : Nonce[u] = n
        <4>1. CASE n \in s .. N - 1
          BY <1>1, <4>1, Zenon
        <4>2. CASE n \in Nonce[f] .. Nonce[t]
          BY <2>4, <2>8, <4>2, Zenon DEF Gapless
        <4>3. n \in s .. N - 1 \/ n \in Nonce[f] .. Nonce[t]
          BY <1>1, <2>4, <2>6, <3>1
        <4> QED BY <4>1, <4>2, <4>3, Zenon
      <3> QED BY <3>1, <3>2, Zenon
    <2>9. Gapless(S \cup R, s)
      BY <1>3, <2>8, Zenon DEF Gapless
    <2>10. s <= 1 + Highest(R) /\ 1 + Highest(R) \in Nat
      BY <1>1, <2>5, <2>6
    <2>11. Q.pending[a] # {}
      BY <1>6, <2>7, Zenon
    <2> QED BY <2>7, <2>9, <2>10, <2>11, Zenon DEF Front, Q, s
  <1> QED BY <1>5, <1>6, Zenon

\* With a reset, the reinjected ones lead up to the pending ones; if nothing was
\* reinjected, either the new state is above the old one or nothing is ready.
LEMMA PromoteDemotable ==
  ASSUME NEW P, Sound(P), IsFiniteSet(P.all), state \in Blocks, NEW o \in Blocks, NEW A,
         NEW a \in Accounts, P.queue[a] # {} => a \in A, Reinjected(P, {}, a, o)
  PROVE  Demotable(Promote(P, A), a)
  <1> DEFINE s == GetNonce[state][a]
             y == GetNonce[o][a]
             S == P.pending[a]
             Q == Promote(P, A)
             R == Readies(P, a)
             Y == Payable(P, a)
  <1>1. s \in Nat /\ y \in Nat
    BY TxPoolAssumption, Zenon
  <1>2. /\ P.nonces[a] = s
        /\ Gapless(S, y)
        /\ \/ AtLeast(P.queue[a], y)
           \/ \A n \in s .. y - 1 : \E u \in P.queue[a] : Nonce[u] = n /\ Pays(u, a)
    BY Zenon DEF Reinjected
  <1>3. R = Ready(Y, s) /\ Y \subseteq P.queue[a] /\ P.queue[a] \in SUBSET Txs /\ S \in SUBSET Txs
        /\ R \subseteq Y
    <2>1. R = Ready(Y, s)
      BY <1>2, Zenon DEF Readies
    <2>2. Y \subseteq P.queue[a]
      BY Zenon DEF Payable
    <2>3. P.queue[a] \in SUBSET Txs /\ S \in SUBSET Txs
      BY Zenon DEF Sound, Shape
    <2>4. Ready(Y, s) \subseteq Y
      <3> HIDE DEF Y
      <3> QED BY Zenon DEF Ready
    <2> QED BY <2>1, <2>2, <2>3, <2>4, Zenon
  <1>4. AtLeast(R, s)
    BY PromoteParts
  <1>5. /\ Q.pending[a] = S \cup R
        /\ Q.nonces[a] = IF R # {} THEN 1 + Highest(R) ELSE s
    <2>1. /\ Q.pending[a] = IF a \in A THEN S \cup R ELSE S
          /\ Q.nonces[a] = IF a \in A /\ R # {} THEN 1 + Highest(R) ELSE P.nonces[a]
      BY PromoteAdds, Zenon
    <2>2. a \notin A => R = {}
      BY <1>3, Zenon
    <2> HIDE DEF Q, R, S, s
    <2> QED BY <1>2, <2>1, <2>2, Zenon
  <1>6. \A u \in P.queue[a] : u \in Y <=> ~(Nonce[u] < s) /\ ~(Cost[u] > GetBalance[state][a])
    BY Zenon DEF Payable, Forward, Unpayable
  <1>7. IsFiniteSet(R)
    <2>1. ASSUME NEW t \in R PROVE t \in P.all
      <3>1. t \in P.queue[a] /\ t \in Txs /\ From[t] = a
        BY <1>3, Zenon DEF Sound, Shape, In
      <3> QED BY <3>1, Zenon DEF Sound, In
    <2>2. R \in SUBSET P.all
      BY <2>1, Zenon
    <2> QED BY <2>2, FS_Subset, Zenon
  <1>8. Live(Q, a) = Q.pending[a] \ Forward(Q.pending[a], s)
    BY Zenon DEF Live
  <1>9. ASSUME NEW t \in Txs
        PROVE  /\ Nonce[t] \in Nat
               /\ Pays(t, a) <=> ~(Cost[t] > GetBalance[state][a])
    <2>1. Nonce[t] \in Nat /\ Cost[t] \in Nat /\ GetBalance[state][a] \in Nat
      BY TxPoolAssumption, Zenon
    <2> QED BY <2>1 DEF Pays
  <1> HIDE DEF s, y, S, Q, R, Y
  <1>10. ASSUME R # {}
         PROVE  \E f \in R : Nonce[f] = s /\ Pays(f, a) /\ Gapless(R, s) /\ f \in P.queue[a]
    <2>1. Y \in SUBSET Txs /\ Ready(Y, s) # {}
      BY <1>3, <1>10, Zenon
    <2>2. \E f \in Ready(Y, s) : Nonce[f] <= s /\ Gapless(Ready(Y, s), Nonce[f])
      BY <1>1, <2>1, ReadyRun
    <2>3. PICK f \in R : Nonce[f] <= s /\ Gapless(R, Nonce[f])
      BY <1>3, <2>2, Zenon
    <2>4. f \in Txs /\ f \in Y /\ f \in P.queue[a] /\ s <= Nonce[f]
      BY <1>3, <1>4, <2>3, Zenon DEF AtLeast
    <2>5. Nonce[f] = s
      <3>1. Nonce[f] \in Nat
        BY <1>9, <2>4, Zenon
      <3> QED BY <1>1, <2>3, <2>4, <3>1, SMTT(20)
    <2>6. Pays(f, a)
      BY <1>6, <1>9, <2>4, Zenon
    <2> QED BY <2>3, <2>4, <2>5, <2>6, Zenon
  <1>11. CASE \/ y <= s
              \/ \A n \in s .. y - 1 : \E u \in P.queue[a] : Nonce[u] = n /\ Pays(u, a)
    <2>1. ASSUME NEW n \in s .. y - 1 PROVE \E u \in R : Nonce[u] = n
      <3>1. \A k \in s .. y - 1 : \E u \in P.queue[a] : Nonce[u] = k /\ Pays(u, a)
        <4>1. ~(y <= s)
          BY <1>1, <2>1
        <4> QED BY <1>11, <4>1, Zenon
      <3>2. ASSUME NEW k \in s .. y - 1 PROVE \E u \in Y : Nonce[u] = k
        <4>1. PICK u \in P.queue[a] : Nonce[u] = k /\ Pays(u, a)
          BY <3>1, Zenon
        <4>2. u \in Txs
          BY <1>3, <4>1, Zenon
        <4>3. ~(Nonce[u] < s)
          BY <1>1, <4>1
        <4> QED BY <1>6, <1>9, <4>1, <4>2, <4>3, Zenon
      <3>3. s \in s .. y - 1 /\ s .. n \subseteq s .. y - 1
        BY <1>1, <2>1
      <3>4. PICK f \in Y : Nonce[f] = s
        BY <3>2, <3>3, Zenon
      <3>5. ASSUME NEW u \in Y PROVE Nonce[f] <= Nonce[u]
        <4>1. u \in Txs /\ ~(Nonce[u] < s)
          BY <1>3, <1>6, Zenon
        <4>2. Nonce[u] \in Nat
          BY <1>9, <4>1, Zenon
        <4> QED BY <1>1, <3>4, <4>1, <4>2, SMTT(20)
      <3>6. PICK u \in Y : Nonce[u] = n
        BY <2>1, <3>2, Zenon
      <3>7. Nonce[f] <= s
        BY <1>1, <3>4
      <3>8. \A k \in Nonce[f] .. Nonce[u] : \E v \in Y : Nonce[v] = k
        BY <3>2, <3>3, <3>4, <3>6, Zenon
      <3>9. u \in Ready(Y, s)
        BY <3>5, <3>6, <3>7, <3>8, Zenon DEF Ready
      <3> QED BY <1>3, <3>6, <3>9, Zenon
    <2>2. ASSUME NEW t \in S \cup R, NEW n \in s .. Nonce[t] PROVE \E u \in S \cup R : Nonce[u] = n
      <3>1. CASE t \in R
        <4>1. Gapless(R, s)
          BY <1>10, <3>1, Zenon
        <4> QED BY <2>2, <3>1, <4>1, Zenon DEF Gapless
      <3>2. CASE t \in S
        <4>1. t \in Txs /\ Nonce[t] \in Nat
          BY <1>3, <1>9, <3>2, Zenon
        <4>2. n \in s .. y - 1 \/ n \in y .. Nonce[t]
          BY <1>1, <2>2, <4>1
        <4>3. CASE n \in y .. Nonce[t]
          BY <1>2, <3>2, <4>3, Zenon DEF Gapless
        <4> QED BY <2>1, <4>2, <4>3, Zenon
      <3> QED BY <2>2, <3>1, <3>2, Zenon
    <2>3. \A t \in S \cup R : t \in Txs /\ Nonce[t] \in Nat
      <3>1. R \subseteq Txs
        BY <1>3, Zenon
      <3> QED BY <1>3, <1>9, <3>1, Zenon
    <2>4. ASSUME NEW t \in Live(Q, a)
          PROVE  s <= Nonce[t] /\ \A n \in s .. Nonce[t] : \E u \in Live(Q, a) : Nonce[u] = n
      <3>1. t \in S \cup R /\ ~(Nonce[t] < s)
        BY <1>5, <1>8, Zenon DEF Forward
      <3>2. s <= Nonce[t]
        <4>1. Nonce[t] \in Nat
          BY <2>3, <3>1, Zenon
        <4> QED BY <1>1, <3>1, <4>1
      <3>3. ASSUME NEW n \in s .. Nonce[t] PROVE \E u \in Live(Q, a) : Nonce[u] = n
        <4>1. PICK u \in S \cup R : Nonce[u] = n
          BY <2>2, <3>1, Zenon
        <4>2. ~(Nonce[u] < s)
          BY <1>1, <4>1
        <4> QED BY <1>5, <1>8, <4>1, <4>2, Zenon DEF Forward
      <3> QED BY <3>2, <3>3, Zenon
    <2>5. Gapless(Live(Q, a), s)
      BY <2>4, Zenon DEF Gapless
    <2>6. Q.nonces[a] \in Nat /\ s <= Q.nonces[a]
      <3>1. CASE R = {}
        <4>1. Q.nonces[a] = s
          BY <1>5, <3>1, Zenon
        <4> QED BY <1>1, <4>1
      <3>2. CASE R # {}
        <4>1. Q.nonces[a] = 1 + Highest(R)
          BY <1>5, <3>2, Zenon
        <4>2. R \in SUBSET Txs
          BY <1>3, Zenon
        <4>3. Highest(R) \in Nat /\ \A t \in R : Nonce[t] <= Highest(R)
          BY <1>7, <3>2, <4>2, HighestNonce, Zenon
        <4>4. s <= Highest(R)
          BY <1>10, <3>2, <4>3, Zenon
        <4> QED BY <1>1, <4>1, <4>3, <4>4, SMTT(20)
      <3> QED BY <3>1, <3>2, Zenon
    <2>7. s # Q.nonces[a] => \E u \in Q.pending[a] : Nonce[u] = s /\ Pays(u, a)
      BY <1>5, <1>10, Zenon
    <2> QED BY <2>5, <2>6, <2>7, Zenon DEF Demotable, s, Q
  <1>12. CASE ~(y <= s) /\ AtLeast(P.queue[a], y)
    <2>1. R = {}
      <3> SUFFICES ASSUME R # {} PROVE FALSE
        BY Zenon
      <3>1. PICK f \in P.queue[a] : Nonce[f] = s
        BY <1>10, Zenon
      <3>2. y <= s
        BY <1>12, <3>1, Zenon DEF AtLeast
      <3> QED BY <1>12, <3>2, Zenon
    <2>2. Q.pending[a] = S /\ Q.nonces[a] = s
      BY <1>5, <2>1, Zenon
    <2>3. ASSUME NEW u \in S, Nonce[u] = s PROVE FALSE
      <3>1. y <= Nonce[u]
        BY <1>2, Zenon DEF Gapless
      <3> QED BY <1>12, <2>3, <3>1, Zenon
    <2> QED BY <2>2, <2>3, Zenon DEF Demotable, s, Q
  <1> QED BY <1>2, <1>11, <1>12, Zenon

-----------------------------------------------------------------------------
(* Demotion and truncation. *)

\* demoteUnexecutables leaves no gap: an unpayable one takes what follows it
\* along, and all go when the first one is missing.
LEMMA DemoteFront ==
  ASSUME NEW P, Sound(P), state \in Blocks, NEW a \in Accounts, Demotable(P, a)
  PROVE  Front(Demote(P), a)
  <1> DEFINE old(b) == Forward(P.pending[b], GetNonce[state][b])
             live(b) == P.pending[b] \ old(b)
             drop(b) == Unpayable(live(b), GetBalance[state][b])
             inv(b) == Following(live(b), drop(b))
             left(b) == live(b) \ (drop(b) \cup inv(b))
             gapped(b) == IF \E t \in left(b) : Nonce[t] = GetNonce[state][b]
                          THEN {} ELSE left(b)
             P1 == [P EXCEPT
                      !.pending = [b \in Accounts |-> left(b) \ gapped(b)],
                      !.all = @ \ UNION {old(b) \cup drop(b) : b \in Accounts}]
             T == UNION {inv(b) \cup gapped(b) : b \in Accounts}
             s == GetNonce[state][a]
             N == P.nonces[a]
             Q == Demote(P)
  <1>1. Q = Enqueue(P1, T)
    BY Zenon DEF Demote
  <1>2. IsPool(P1) /\ P1.pending = [b \in Accounts |-> left(b) \ gapped(b)] /\ P1.nonces = P.nonces
    BY Zenon DEF Sound, Shape, IsPool
  <1>3. Q.pending[a] = left(a) \ gapped(a) /\ Q.nonces[a] = N
    <2> HIDE DEF T, P1, left, gapped, Q
    <2>1. Enqueue(P1, T).pending = P1.pending /\ Enqueue(P1, T).nonces = P1.nonces
      BY <1>2, EnqueueParts, Zenon
    <2> QED BY <1>1, <1>2, <2>1, Zenon
  <1> DEFINE L == live(a)
             U == drop(a)
             F == left(a)
  <1>4. s \in Nat
    BY TxPoolAssumption, Zenon
  <1>5. L \in SUBSET Txs /\ (\A t, u \in L : Nonce[t] = Nonce[u] => t = u) /\ L = Live(P, a)
        /\ L \subseteq P.pending[a]
    BY Zenon DEF Sound, Shape, OneEach, In, Live
  <1>6. \A t \in L : Nonce[t] \in Nat /\ s <= Nonce[t]
    <2> SUFFICES ASSUME NEW t \in L PROVE Nonce[t] \in Nat /\ s <= Nonce[t]
      BY Zenon
    <2>1. Nonce[t] \in Nat /\ ~(Nonce[t] < s)
      BY <1>5, TxPoolAssumption, Zenon DEF Forward
    <2> QED BY <1>4, <2>1
  <1>7. \A u \in L : u \in U <=> Cost[u] > GetBalance[state][a]
    BY Zenon DEF Unpayable
  <1>8. U \subseteq L
    BY Zenon DEF Unpayable
  <1>9. \A t : t \in F <=> t \in L /\ t \notin U /\ ~\E d \in U : Nonce[d] < Nonce[t]
    BY Zenon DEF Following
  <1>10. gapped(a) = IF \E t \in F : Nonce[t] = s THEN {} ELSE F
    BY Zenon
  <1>11. \A u \in P.pending[a] : Nonce[u] = s => u \in L
    <2>1. ~(s < s)
      BY <1>4
    <2> QED BY <2>1, Zenon DEF Forward
  <1> HIDE DEF L, U, F, live, drop, left, gapped, Q, s, N
  <1>12. Q.pending[a] = (IF \E t \in F : Nonce[t] = s THEN F ELSE {}) /\ Q.nonces[a] = N
    <2>1. Q.pending[a] = F \ gapped(a)
      BY <1>3, Zenon DEF F
    <2>2. CASE \E t \in F : Nonce[t] = s
      <3>1. gapped(a) = {}
        BY <1>10, <2>2, Zenon
      <3>2. F \ {} = F
        BY Zenon
      <3> QED BY <1>3, <2>1, <2>2, <3>1, <3>2, Zenon
    <2>3. CASE ~\E t \in F : Nonce[t] = s
      <3>1. gapped(a) = F
        BY <1>10, <2>3, Zenon
      <3>2. F \ F = {}
        BY Zenon
      <3> QED BY <1>3, <2>1, <2>3, <3>1, <3>2, ZenonT(30)
    <2> QED BY <2>2, <2>3, Zenon
  <1>13. Gapless({}, s)
    BY Zenon DEF Gapless
  <1>14. CASE /\ Gapless(L, s)
              /\ N \in Nat /\ s <= N
              /\ s # N => \E u \in P.pending[a] : Nonce[u] = s /\ Pays(u, a)
    <2>1. ASSUME NEW t \in F, NEW n \in s .. Nonce[t] PROVE \E u \in F : Nonce[u] = n
      <3>1. t \in L /\ t \notin U /\ (~\E d \in U : Nonce[d] < Nonce[t]) /\ Nonce[t] \in Nat
        BY <1>6, <1>9, Zenon
      <3>2. PICK u \in L : Nonce[u] = n
        BY <1>14, <3>1, Zenon DEF Gapless
      <3>3. n \in Nat /\ n <= Nonce[t]
        BY <1>4, <3>1
      <3>4. ASSUME NEW d \in U, Nonce[d] < n PROVE FALSE
        <4>1. Nonce[d] \in Nat
          BY <1>6, <1>8, Zenon
        <4>2. Nonce[d] < Nonce[t]
          BY <3>1, <3>3, <3>4, <4>1, SMTT(20)
        <4> QED BY <3>1, <4>2, Zenon
      <3>5. u \notin U
        <4> SUFFICES ASSUME u \in U PROVE FALSE
          BY Zenon
        <4>1. ~(n < Nonce[t])
          BY <3>1, <3>2, Zenon
        <4>2. n = Nonce[t]
          BY <3>1, <3>3, <4>1, SMTT(20)
        <4>3. u = t
          BY <1>5, <3>1, <3>2, <4>2, Zenon
        <4> QED BY <3>1, <4>3, Zenon
      <3> QED BY <1>9, <3>2, <3>4, <3>5, Zenon
    <2>2. Gapless(F, s)
      <3>1. \A t \in F : s <= Nonce[t]
        BY <1>6, <1>9, Zenon
      <3> QED BY <2>1, <3>1, Zenon DEF Gapless
    <2>3. CASE \E t \in F : Nonce[t] = s
      <3>1. Q.pending[a] = F /\ F # {}
        BY <1>12, <2>3, Zenon
      <3> QED BY <1>12, <1>14, <2>2, <3>1, Zenon DEF Front, Q, s
    <2>4. CASE ~\E t \in F : Nonce[t] = s
      <3>1. Q.pending[a] = {}
        BY <1>12, <2>4, Zenon
      <3>2. N = s
        <4> SUFFICES ASSUME s # N PROVE FALSE
          BY Zenon
        <4>1. PICK u \in P.pending[a] : Nonce[u] = s /\ Pays(u, a)
          BY <1>14, Zenon
        <4>2. u \in L
          BY <1>11, <4>1, Zenon
        <4>3. ~(Cost[u] > GetBalance[state][a])
          <5>1. u \in Txs
            BY <1>5, <4>2, Zenon
          <5>2. Cost[u] \in Nat /\ GetBalance[state][a] \in Nat /\ Cost[u] <= GetBalance[state][a]
            BY <4>1, <5>1, TxPoolAssumption, Zenon DEF Pays
          <5> QED BY <5>2
        <4>4. ASSUME NEW d \in U, Nonce[d] < Nonce[u] PROVE FALSE
          <5>1. Nonce[d] \in Nat /\ s <= Nonce[d]
            BY <1>6, <1>8, Zenon
          <5> QED BY <1>4, <4>1, <4>4, <5>1
        <4>5. u \in F
          BY <1>7, <1>9, <4>2, <4>3, <4>4, Zenon
        <4> QED BY <2>4, <4>1, <4>5, Zenon
      <3> QED BY <1>12, <1>13, <1>14, <3>1, <3>2, ZenonT(30) DEF Front, Q, s
    <2> QED BY <2>3, <2>4, Zenon
  <1>15. CASE N = s /\ \A u \in P.pending[a] : Nonce[u] # s
    <2>1. ~\E t \in F : Nonce[t] = s
      BY <1>5, <1>9, <1>15, Zenon
    <2>2. Q.pending[a] = {} /\ Q.nonces[a] = s
      BY <1>12, <1>15, <2>1, Zenon
    <2>3. s <= s
      BY <1>4
    <2> QED BY <1>4, <1>13, <2>2, <2>3, Zenon DEF Front, Q, s
  <1> QED BY <1>5, <1>14, <1>15, Zenon DEF Demotable, s, N

\* truncatePending takes the last one of a list.
LEMMA CapOneFront ==
  ASSUME NEW P, Sound(P), IsFiniteSet(P.all), state \in Blocks, NEW A, NEW a \in Accounts,
         Front(P, a)
  PROVE  Front(CapOne(P, A), a)
  <1> DEFINE S == P.pending[a]
             s == GetNonce[state][a]
             N == P.nonces[a]
             below(t) == {u \in S : Nonce[u] < Nonce[t]}
             last == IF a \in A THEN Cap(S, Cardinality(S) - 1) ELSE {}
             Q == CapOne(P, A)
  <1>1. /\ Q.pending[a] = S \ last
        /\ Q.nonces[a] = IF \E t \in last : Nonce[t] < N
                         THEN Nonce[CHOOSE t \in last : TRUE] ELSE N
    BY Zenon DEF CapOne, Sound, Shape, IsPool
  <1>2. s \in Nat
    BY TxPoolAssumption, Zenon
  <1>3. Gapless(S, s) /\ N \in Nat /\ s <= N /\ (S = {} => N = s)
    BY Zenon DEF Front
  <1>4. S \in SUBSET Txs /\ \A t, u \in S : Nonce[t] = Nonce[u] => t = u
    BY Zenon DEF Sound, Shape, OneEach, In
  <1>5. \A t \in S : Nonce[t] \in Nat /\ s <= Nonce[t]
    BY <1>3, <1>4, TxPoolAssumption, Zenon DEF Gapless
  <1>6. IsFiniteSet(S)
    <2>1. S \in SUBSET P.all
      <3>1. ASSUME NEW t \in S PROVE t \in P.all
        <4>1. t \in Txs /\ From[t] = a
          BY <1>4, Zenon DEF Sound, Shape, In
        <4> QED BY <4>1, Zenon DEF Sound, In
      <3> QED BY <3>1, Zenon
    <2> QED BY <2>1, FS_Subset, Zenon
  <1>7. \A t \in S : IsFiniteSet(below(t)) /\ Cardinality(below(t)) \in Nat
    <2> SUFFICES ASSUME NEW t \in S PROVE IsFiniteSet(below(t)) /\ Cardinality(below(t)) \in Nat
      BY Zenon
    <2>1. below(t) \in SUBSET S
      BY Zenon
    <2> HIDE DEF below, S
    <2>2. IsFiniteSet(below(t))
      BY <1>6, <2>1, FS_Subset, Zenon
    <2> QED BY <2>2, FS_CardinalityType, Zenon
  <1>8. last \subseteq S /\ \A t \in last : Cardinality(below(t)) >= Cardinality(S) - 1
    BY Zenon DEF Cap
  <1>9. a \in A => \A t \in S : Cardinality(below(t)) >= Cardinality(S) - 1 => t \in last
    BY Zenon DEF Cap
  <1>10. a \notin A => last = {}
    BY Zenon
  <1>11. Cardinality(S) \in Nat
    BY <1>6, FS_CardinalityType, Zenon
  <1> HIDE DEF last, Q, N, s
  \* what lies below one that stays also stays
  <1>12. ASSUME NEW t \in S, t \notin last, NEW u \in S, Nonce[u] <= Nonce[t] PROVE u \notin last
    <2> SUFFICES ASSUME u \in last PROVE FALSE
      BY Zenon
    <2>1. ASSUME NEW v \in S, Nonce[v] < Nonce[u] PROVE Nonce[v] < Nonce[t]
      <3>1. Nonce[v] \in Nat /\ Nonce[u] \in Nat /\ Nonce[t] \in Nat
        BY <1>5, Zenon
      <3> QED BY <1>12, <2>1, <3>1
    <2>2. below(u) \in SUBSET below(t)
      BY <2>1, Zenon
    <2> HIDE DEF below
    <2>3. Cardinality(below(u)) <= Cardinality(below(t))
      BY <1>7, <2>2, FS_Subset, Zenon
    <2>4. Cardinality(below(u)) >= Cardinality(S) - 1
      BY <1>8, Zenon
    <2>5. ~(Cardinality(below(t)) >= Cardinality(S) - 1)
      BY <1>9, <1>10, <1>12, Zenon
    <2>6. Cardinality(below(u)) \in Nat /\ Cardinality(below(t)) \in Nat
      BY <1>7, Zenon
    <2> QED BY <1>11, <2>3, <2>4, <2>5, <2>6, SMTT(20)
  <1>13. Gapless(S \ last, s)
    <2> SUFFICES ASSUME NEW t \in S \ last
                 PROVE  /\ s <= Nonce[t]
                        /\ \A n \in s .. Nonce[t] : \E u \in S \ last : Nonce[u] = n
      BY Zenon DEF Gapless
    <2>1. s <= Nonce[t]
      BY <1>5, Zenon
    <2>2. ASSUME NEW n \in s .. Nonce[t] PROVE \E u \in S \ last : Nonce[u] = n
      <3>1. PICK u \in S : Nonce[u] = n
        BY <1>3, Zenon DEF Gapless
      <3>2. Nonce[u] <= Nonce[t]
        <4>1. Nonce[t] \in Nat
          BY <1>5, Zenon
        <4> QED BY <1>2, <3>1, <4>1
      <3>3. u \notin last
        BY <1>12, <3>1, <3>2, Zenon
      <3> QED BY <3>1, <3>3, Zenon
    <2> QED BY <2>1, <2>2, Zenon
  <1>14. Q.nonces[a] \in Nat /\ s <= Q.nonces[a]
    <2>1. CASE \E t \in last : Nonce[t] < N
      <3>1. (CHOOSE t \in last : TRUE) \in last
        BY <2>1, Zenon
      <3> QED BY <1>1, <1>5, <1>8, <2>1, <3>1, Zenon
    <2>2. CASE ~\E t \in last : Nonce[t] < N
      BY <1>1, <1>3, <2>2, Zenon
    <2> QED BY <2>1, <2>2, Zenon
  <1>15. ASSUME S \ last = {} PROVE Q.nonces[a] = s
    <2>1. CASE S = {}
      <3>1. ~\E t \in last : Nonce[t] < N
        BY <1>8, <2>1, Zenon
      <3> QED BY <1>1, <1>3, <2>1, <3>1, Zenon
    <2>2. CASE S # {}
      <3>1. PICK v \in S : TRUE
        BY <2>2, Zenon
      <3>2. s \in s .. Nonce[v]
        <4>1. Nonce[v] \in Nat /\ s <= Nonce[v]
          BY <1>5, Zenon
        <4> QED BY <1>2, <4>1
      <3>3. PICK f \in S : Nonce[f] = s
        BY <1>3, <3>2, Zenon DEF Gapless
      <3>4. last = S
        BY <1>8, <1>15, Zenon
      <3>5. below(f) = {}
        <4> SUFFICES ASSUME NEW u \in S, Nonce[u] < Nonce[f] PROVE FALSE
          BY Zenon
        <4>1. Nonce[u] \in Nat /\ s <= Nonce[u]
          BY <1>5, Zenon
        <4> QED BY <1>2, <3>3, <4>1, SMTT(20)
      <3>6. Cardinality(below(f)) = 0
        BY <3>5, FS_EmptySet, Zenon
      <3>7. Cardinality(below(f)) >= Cardinality(S) - 1
        BY <1>8, <3>4, Zenon
      <3> HIDE DEF S, below
      <3>8. Cardinality(S) <= 1
        BY <1>11, <3>6, <3>7, SMTT(20)
      <3>9. Cardinality({f}) = 1 /\ {f} \in SUBSET S
        BY <3>3, FS_Singleton, Zenon
      <3>10. Cardinality({f}) <= Cardinality(S)
        BY <1>6, <3>9, FS_Subset, ZenonT(30)
      <3>11. Cardinality(S) = Cardinality({f})
        BY <1>11, <3>8, <3>9, <3>10, SMTT(20)
      <3>12. S = {f}
        BY <1>6, <3>9, <3>11, FS_Subset, Zenon
      <3>13. (CHOOSE t \in last : TRUE) = f
        BY <3>4, <3>12, Zenon
      <3>14. CASE s < N
        <4>1. \E t \in last : Nonce[t] < N
          BY <3>3, <3>4, <3>14, Zenon
        <4> QED BY <1>1, <3>3, <3>13, <4>1, Zenon
      <3>15. CASE ~(s < N)
        <4>1. N = s
          BY <1>2, <1>3, <3>15
        <4>2. ~\E t \in last : Nonce[t] < N
          BY <3>3, <3>4, <3>12, <3>15, Zenon
        <4> QED BY <1>1, <4>1, <4>2, Zenon
      <3> QED BY <3>14, <3>15, Zenon
    <2> QED BY <2>1, <2>2, Zenon
  <1> QED BY <1>1, <1>13, <1>14, <1>15, Zenon DEF Front, Q, s

\* truncateQueue names no pending nonce.
LEMMA QueueNoHit ==
  ASSUME NEW P, Sound(P), NEW b \in Accounts, NEW D \in SUBSET P.queue[b], NEW a \in Accounts
  PROVE  Hit(P, D, a) = {}
  <1> SUFFICES ASSUME NEW u \in P.pending[a], SameNonce(Of(D \cap P.all, a), u) # {} PROVE FALSE
    BY Zenon DEF Hit
  <1>1. PICK d \in D : From[d] = a /\ Nonce[d] = Nonce[u]
    BY Zenon DEF SameNonce, Of
  <1>2. d \in P.queue[b] /\ From[d] = b
    BY <1>1, Zenon DEF Sound, Shape, In
  <1>3. d \in In(P, a) /\ u \in In(P, a) /\ d \in P.queue[a]
    BY <1>1, <1>2, Zenon DEF In
  <1>4. d = u
    BY <1>1, <1>3, SameIsEqual, Zenon DEF Sound
  <1> QED BY <1>3, <1>4, Zenon DEF Sound, Shape

-----------------------------------------------------------------------------
(* Reinjection. *)

\* Each nonce that a reorg takes back is that of a transaction to add again,
\* unless reset adds none at all.
LEMMA ReinjectCovers ==
  ASSUME NEW o \in Blocks, NEW n \in Blocks, NEW a \in Accounts
  PROVE  \/ Reinject(o, n) = {}
         \/ \A k \in GetNonce[n][a] .. GetNonce[o][a] - 1 :
              \E t \in Reinject(o, n) : From[t] = a /\ Nonce[t] = k
  <1> DEFINE txsOf(B) == UNION {BlockTxs[b] : b \in B}
             X == txsOf(Ancestors[o])
             Y == txsOf(Ancestors[n])
  <1>1. \/ Reinject(o, n) = {}
        \/ Reinject(o, n) = txsOf(Ancestors[o] \ Ancestors[n]) \ txsOf(Ancestors[n] \ Ancestors[o])
    BY Zenon DEF Reinject
  <1>2. ASSUME NEW k \in GetNonce[n][a] .. GetNonce[o][a] - 1
        PROVE  \E t \in txsOf(Ancestors[o] \ Ancestors[n]) \ txsOf(Ancestors[n] \ Ancestors[o]) :
                 From[t] = a /\ Nonce[t] = k
    <2>1. /\ {Nonce[t] : t \in Of(X, a)} = GetNonce[Genesis][a] .. GetNonce[o][a] - 1
          /\ {Nonce[t] : t \in Of(Y, a)} = GetNonce[Genesis][a] .. GetNonce[n][a] - 1
      BY ChainAssumption, Zenon
    <2>2. /\ Parent[n] \in Blocks /\ GetNonce[Genesis][a] <= GetNonce[Parent[n]][a]
          /\ GetNonce[Parent[n]][a] <= GetNonce[n][a]
      BY ChainAssumption, Zenon
    <2>3. /\ GetNonce[Genesis][a] \in Nat /\ GetNonce[n][a] \in Nat /\ GetNonce[o][a] \in Nat
          /\ GetNonce[Parent[n]][a] \in Nat
      BY <2>2, TxPoolAssumption, Zenon
    <2>4. k \in GetNonce[Genesis][a] .. GetNonce[o][a] - 1
      BY <1>2, <2>2, <2>3, SMTT(20)
    <2>5. ~(k \in GetNonce[Genesis][a] .. GetNonce[n][a] - 1)
      BY <1>2, <2>3
    <2>6. \A t : t \in X <=> \E c \in Ancestors[o] : t \in BlockTxs[c]
      BY Zenon
    <2>7. \A t, c : c \in Ancestors[n] /\ t \in BlockTxs[c] => t \in Y
      BY Zenon
    <2> HIDE DEF X, Y
    <2>8. PICK t \in Of(X, a) : Nonce[t] = k
      BY <2>1, <2>4, Zenon
    <2>9. t \in X /\ From[t] = a
      BY <2>8, Zenon DEF Of
    <2>10. t \notin Y
      BY <2>1, <2>5, <2>8, <2>9, Zenon DEF Of
    <2>11. PICK c \in Ancestors[o] : t \in BlockTxs[c]
      BY <2>6, <2>9, Zenon
    <2>12. c \notin Ancestors[n]
      BY <2>7, <2>10, <2>11, Zenon
    <2>13. t \in txsOf(Ancestors[o] \ Ancestors[n])
      BY <2>11, <2>12, Zenon
    <2>14. t \notin txsOf(Ancestors[n] \ Ancestors[o])
      BY <2>7, <2>10, Zenon
    <2> QED BY <2>8, <2>9, <2>13, <2>14, Zenon
  <1> HIDE DEF txsOf
  <1> QED BY <1>1, <1>2, Zenon

\* What one reinjection does to an account that loses nothing by it.
LEMMA ReinjectEffect ==
  ASSUME Sound(pool), NEW t \in Txs, ReinjectOne(t), NEW a \in Accounts, a \notin refused'
  PROVE  /\ a \notin refused
         /\ \/ pool' = pool /\ From[t] # a
            \/ \E D : /\ t \notin pool.all /\ Pays(t, From[t])
                      /\ pool' = AddResult(t, D).pool
                      /\ \A d \in D : From[d] # a
                      /\ From[t] = a => AddResult(t, D).ok
  <1>1. CASE Rejects(pool, t, FALSE)
    <2>1. refused' = refused \cup {From[t]} /\ pool' = pool
      BY <1>1, Zenon DEF ReinjectOne
    <2> QED BY <2>1, Zenon
  <1>2. CASE ~Rejects(pool, t, FALSE)
    <2>1. PICK D : /\ pool' = AddResult(t, D).pool
                   /\ refused' = refused \cup
                        {From[u] : u \in IF AddResult(t, D).ok THEN D ELSE D \cup {t}}
      BY <1>2, Zenon DEF ReinjectOne
    <2>2. t \notin pool.all /\ Pays(t, From[t])
      BY <1>2, Zenon DEF Rejects, Valid, Pays
    <2> DEFINE ok == AddResult(t, D).ok
    <2> HIDE DEF ok
    <2>3. refused' = refused \cup {From[u] : u \in IF ok THEN D ELSE D \cup {t}}
      BY <2>1, Zenon DEF ok
    <2>4. a \notin refused /\ (\A d \in D : From[d] # a) /\ (From[t] = a => ok)
      <3>1. CASE ok
        BY <2>3, <3>1, Zenon
      <3>2. CASE ~ok
        BY <2>3, <3>2, Zenon
      <3> QED BY <3>1, <3>2, Zenon
    <2> QED BY <2>1, <2>2, <2>4, Zenon DEF ok
  <1> QED BY <1>1, <1>2, Zenon

\* the reset of the run leaves block o
Leaves(o) == run.reset = {[old |-> o, new |-> state]}

\* A reinjected transaction is queued, and no queued nonce is lost.
LEMMA ReinjectKeeps ==
  ASSUME Sound(pool), FloorInv, ResetInv, Served, NEW t \in Txs, ReinjectOne(t),
         NEW o \in Blocks, Leaves(o),
         NEW a \in Accounts, a \notin refused', Reinjected(pool, run.todo, a, o)
  PROVE  Reinjected(pool', run'.todo, a, o)
  <1> DEFINE s == GetNonce[state][a]
             y == GetNonce[o][a]
  <1>1. /\ run.pc = "reinject" /\ t \in run.todo /\ run'.todo = run.todo \ {t}
        /\ state \in Blocks /\ a \in Accounts
    BY Zenon DEF ReinjectOne, Served, ResetInv
  <1>2. run.todo \subseteq Reinject(o, state)
    <2>1. PICK p \in Blocks : /\ run.reset = {[old |-> p, new |-> state]}
                              /\ run.todo \subseteq Reinject(p, state)
      BY <1>1, Zenon DEF ResetInv
    <2>2. [old |-> p, new |-> state] = [old |-> o, new |-> state]
      BY <2>1, Zenon DEF Leaves
    <2>3. [old |-> p, new |-> state].old = p /\ [old |-> o, new |-> state].old = o
      BY Zenon
    <2>4. p = o
      BY <2>2, <2>3, Zenon
    <2> QED BY <2>1, <2>4, Zenon
  <1>3. /\ pool.nonces[a] = s /\ Gapless(pool.pending[a], y)
        /\ \A n \in s .. y - 1 : \/ \E u \in run.todo : From[u] = a /\ Nonce[u] = n
                                 \/ \E u \in pool.queue[a] : Nonce[u] = n /\ Pays(u, a)
    <2>1. Reinject(o, state) # {}
      BY <1>1, <1>2, Zenon
    <2> QED BY <2>1, Zenon DEF Reinjected
  <1>4. s \in Nat
    BY <1>1, NonceNat, Zenon
  <1> SUFFICES /\ pool'.nonces[a] = s /\ pool'.pending[a] = pool.pending[a]
               /\ From[t] = a => t \in pool'.queue[a] /\ Pays(t, a)
               /\ \A u \in pool.queue[a] : From[t] # a \/ Nonce[u] # Nonce[t] => u \in pool'.queue[a]
    <2>1. ASSUME NEW n \in s .. y - 1
          PROVE  \/ \E u \in run'.todo : From[u] = a /\ Nonce[u] = n
                 \/ \E u \in pool'.queue[a] : Nonce[u] = n /\ Pays(u, a)
      <3>1. CASE From[t] = a /\ Nonce[t] = n
        BY <3>1, Zenon
      <3>2. CASE ~(From[t] = a /\ Nonce[t] = n)
        <4>1. CASE \E u \in run.todo : From[u] = a /\ Nonce[u] = n
          BY <1>1, <3>2, <4>1, Zenon
        <4>2. CASE \E u \in pool.queue[a] : Nonce[u] = n /\ Pays(u, a)
          BY <3>2, <4>2, Zenon
        <4> QED BY <1>3, <2>1, <4>1, <4>2, Zenon
      <3> QED BY <3>1, <3>2, Zenon
    <2> QED BY <1>3, <2>1, Zenon DEF Reinjected
  <1>5. CASE pool' = pool /\ From[t] # a
    BY <1>3, <1>5, Zenon
  <1>6. CASE \E D : /\ t \notin pool.all /\ Pays(t, From[t])
                    /\ pool' = AddResult(t, D).pool
                    /\ \A d \in D : From[d] # a
                    /\ From[t] = a => AddResult(t, D).ok
    <2>1. PICK D : /\ t \notin pool.all /\ Pays(t, From[t])
                   /\ pool' = AddResult(t, D).pool
                   /\ \A d \in D : From[d] # a
                   /\ From[t] = a => AddResult(t, D).ok
      BY <1>6, Zenon
    <2> DEFINE P1 == RemoveTx(pool, D)
               P2 == Insert(P1, t)
    <2>2. AddResult(t, D).pool = P2 /\ (AddResult(t, D).ok <=> t \in P2.all)
      BY Zenon DEF AddResult
    <2>3. Sound(P1)
      BY RemoveTxSound
    <2>4. /\ P1.pending[a] = pool.pending[a] /\ P1.queue[a] = pool.queue[a]
          /\ P1.nonces[a] = s
      <3>1. pool.nonces[a] \in Nat
        BY <1>3, <1>4, Zenon
      <3>2. /\ RemoveTx(pool, D).pending[a] = pool.pending[a]
            /\ RemoveTx(pool, D).queue[a] = pool.queue[a]
            /\ RemoveTx(pool, D).nonces[a] = pool.nonces[a]
        <4>1. \A d \in D : From[d] # a
          BY <2>1, Zenon
        <4>2. a \in Accounts
          BY Zenon
        <4> QED BY <3>1, <4>1, <4>2, RemoveTxOther, Zenon
      <3> QED BY <1>3, <3>2, Zenon
    <2>5. t \notin P1.all
      BY <2>1, RemoveTxAll, Zenon
    <2> HIDE DEF P1
    <2>6. P2.nonces = P1.nonces
      BY <1>1, <2>3, InsertParts, Zenon
    <2>7. CASE From[t] # a
      <3>1. P2.pending[a] = P1.pending[a] /\ P2.queue[a] = P1.queue[a]
        BY <1>1, <2>3, <2>7, InsertOther
      <3> HIDE DEF P2
      <3> QED BY <2>1, <2>2, <2>4, <2>6, <2>7, <3>1, Zenon
    <2>8. CASE From[t] = a
      <3>1. Nonce[t] < y
        BY <1>1, <1>2, <2>8, ReinjectBelow, ZenonT(30)
      <3>2. ~Overlaps(P1, t)
        <4> SUFFICES ASSUME NEW u \in P1.pending[a], Nonce[u] = Nonce[t] PROVE FALSE
          BY <2>8, Zenon DEF Overlaps, SameNonce
        <4>1. y <= Nonce[t]
          BY <1>3, <2>4, Zenon DEF Gapless
        <4>2. y \in Nat
          BY <1>1, NonceNat, ZenonT(30)
        <4>3. Nonce[t] \in Nat
          BY TxPoolAssumption
        <4> QED BY <3>1, <4>1, <4>2, <4>3, SMTT(20)
      <3>3. t \in Insert(P1, t).all
        BY <2>1, <2>2, <2>8, Zenon
      <3>4. /\ Insert(P1, t).pending = P1.pending
            /\ t \in Insert(P1, t).queue[From[t]]
            /\ \A u \in P1.queue[From[t]] : Nonce[u] # Nonce[t] => u \in Insert(P1, t).queue[From[t]]
        BY <2>3, <2>5, <3>2, <3>3, InsertQueue, ZenonT(30)
      <3>5. /\ P2.pending = P1.pending /\ t \in P2.queue[a]
            /\ \A u \in P1.queue[a] : Nonce[u] # Nonce[t] => u \in P2.queue[a]
        BY <2>8, <3>4, Zenon
      <3> HIDE DEF P2
      <3> QED BY <2>1, <2>2, <2>4, <2>6, <2>8, <3>5, Zenon
    <2> QED BY <2>7, <2>8, Zenon
  <1> QED BY <1>5, <1>6, ReinjectEffect, Zenon

-----------------------------------------------------------------------------
(* The nonces, through every stage of a run. *)

\* the stages between which the nonces are not the next ones
Unsettled == {"reinject", "demote", "pending", "equalise", "queue"}

\* What holds of an account that lost nothing to a reset, at each stage.
NonceInv == \A a \in Accounts \ refused :
    /\ run.pc = "reinject" => \A r \in run.reset : Reinjected(pool, run.todo, a, r.old)
    /\ run.pc = "demote" => Demotable(pool, a)
    /\ run.pc \in {"pending", "equalise", "queue"} => Front(pool, a)
    /\ run.pc \notin Unsettled => Interval(pool, a, GetNonce[state][a])

\* What a stage says of a pool is the same before and after a step that keeps
\* the state.
LEMMA SameState ==
  ASSUME state' = state, NEW a \in Accounts
  PROVE  /\ Front(pool', a) => Front(pool, a)'
         /\ Demotable(pool', a) => Demotable(pool, a)'
         /\ \A o : Reinjected(pool', run'.todo, a, o) => Reinjected(pool, run.todo, a, o)'
         /\ Interval(pool', a, GetNonce[state][a]) => Interval(pool, a, GetNonce[state][a])'
  <1>1. Front(pool', a) => Front(pool, a)'
    BY Zenon DEF Front, Gapless
  <1>2. Demotable(pool', a) => Demotable(pool, a)'
    BY Zenon DEF Demotable, Gapless, Live, Forward, Pays
  <1>3. ASSUME NEW o, Reinjected(pool', run'.todo, a, o) PROVE Reinjected(pool, run.todo, a, o)'
    BY <1>3, Zenon DEF Reinjected, Gapless, Pays, AtLeast
  <1>4. Interval(pool', a, GetNonce[state][a]) => Interval(pool, a, GetNonce[state][a])'
    BY Zenon DEF Interval
  <1> QED BY <1>1, <1>2, <1>3, <1>4, Zenon

\* A reset moves the state: the nonces it takes back are those of transactions
\* to add again.
LEMMA RunLockNonce ==
  ASSUME NonceInv, FloorInv, ResetInv, Served, Sound(pool), RunLock, run.reset # {},
         NEW a \in Accounts \ refused
  PROVE  \A r \in run'.reset : Reinjected(pool, run.todo, a, r.old)'
  <1> DEFINE n == Target(run.reset)
             y == GetNonce[state][a]
  <1>1. run.pc = "lock" /\ run'.reset = run.reset
    BY Zenon DEF RunLock, Served
  <1>2. /\ n \in Blocks /\ state \in Blocks
        /\ (CHOOSE r \in run.reset : TRUE) = [old |-> state, new |-> n]
        /\ run.reset = {[old |-> state, new |-> n]}
    BY <1>1, RequestTarget, Zenon DEF ResetInv
  <1>3. [old |-> state, new |-> n].old = state /\ [old |-> state, new |-> n].new = n
    BY Zenon
  <1>4. /\ state' = n /\ pool' = [pool EXCEPT !.nonces = GetNonce[n]]
        /\ run'.todo = Reinject(state, n)
    <2>1. /\ state' = (CHOOSE r \in run.reset : TRUE).new
          /\ pool' = [pool EXCEPT !.nonces = GetNonce[(CHOOSE r \in run.reset : TRUE).new]]
          /\ run'.todo = Reinject((CHOOSE r \in run.reset : TRUE).old,
                                  (CHOOSE r \in run.reset : TRUE).new)
      BY Zenon DEF RunLock, Served
    <2> HIDE DEF n
    <2> QED BY <1>2, <1>3, <2>1, Zenon
  <1> HIDE DEF n
  <1>5. pool'.pending = pool.pending /\ pool'.queue = pool.queue /\ pool'.nonces = GetNonce[n]
    BY <1>4, Zenon DEF Sound, Shape, IsPool
  <1>6. Interval(pool, a, y) /\ AtLeast(pool.queue[a], y)
    BY <1>1, Zenon DEF NonceInv, Unsettled, FloorInv
  <1>7. Gapless(pool.pending[a], y)
    <2>1. pool.pending[a] \in SUBSET Txs
      BY Zenon DEF Sound, Shape
    <2>2. y \in Nat
      BY <1>2, NonceNat, Zenon
    <2> QED BY <1>6, <2>1, <2>2, GaplessInterval, Zenon DEF Interval
  <1>8. \/ Reinject(state, n) = {}
        \/ \A k \in GetNonce[n][a] .. y - 1 :
             \E t \in Reinject(state, n) : From[t] = a /\ Nonce[t] = k
    <2>1. a \in Accounts
      BY Zenon
    <2> QED BY <1>2, <2>1, ReinjectCovers
  <1>9. ASSUME NEW o, o = state PROVE Reinjected(pool, run.todo, a, o)'
    <2>1. Gapless(pool'.pending[a], GetNonce[o][a]) /\ AtLeast(pool'.queue[a], GetNonce[o][a])
      BY <1>5, <1>6, <1>7, <1>9, Zenon
    <2>2. \/ Reinject(o, n) = {}
          \/ \A k \in GetNonce[n][a] .. GetNonce[o][a] - 1 :
               \E t \in run'.todo : From[t] = a /\ Nonce[t] = k
      BY <1>4, <1>8, <1>9, Zenon
    <2> QED BY <1>4, <1>5, <2>1, <2>2, Zenon DEF Reinjected, Gapless, AtLeast
  <1> QED BY <1>1, <1>2, <1>3, <1>9, ZenonT(30)

\* Outside a run, a call or an eviction keeps the nonces the next ones.
LEMMA CallNonce ==
  ASSUME NonceInv, IInv, LockInv, ResetInv, NEW a \in Accounts \ refused,
         \/ \E c \in Callers : AddTx(c)
         \/ \E price \in PriceLimits : SetGasPrice(price)
         \/ \E A \in SUBSET (Accounts \ locals) : A # {} /\ Evict(A)
  PROVE  run'.pc \notin Unsettled /\ state' = state /\ Interval(pool', a, GetNonce[state][a])
  <1>1. UNCHANGED <<run, state>> /\ mu # "run"
    BY Zenon DEF AddTx, SetGasPrice, Evict, LockInv, runVars
  <1>2. run.pc \notin Unsettled
    BY <1>1, Zenon DEF LockInv, Busy, Unsettled
  <1>3. /\ Sound(pool) /\ CallersOK /\ state \in Blocks /\ a \in Accounts
        /\ Interval(pool, a, GetNonce[state][a])
    BY <1>2, Zenon DEF NonceInv, IInv, ResetInv
  <1>4. GetNonce[state][a] \in Nat
    BY <1>3, NonceNat, Zenon
  <1>5. Interval(pool', a, GetNonce[state][a])
    <2>1. CASE pool' = pool
      BY <1>3, <2>1, Zenon
    <2>2. CASE \E t \in Txs : \E D : pool' = AddResult(t, D).pool
      <3>0. PICK t \in Txs : \E D : pool' = AddResult(t, D).pool
        BY <2>2, Zenon
      <3>1. PICK D : pool' = AddResult(t, D).pool
        BY <3>0, Zenon
      <3>2. Interval(AddResult(t, D).pool, a, GetNonce[state][a])
        BY <1>3, <1>4, AddInterval, Zenon
      <3> QED BY <3>1, <3>2, Zenon
    <2>3. CASE \E D : pool' = RemoveTx(pool, D)
      <3>1. PICK D : pool' = RemoveTx(pool, D)
        BY <2>3, Zenon
      <3>2. Interval(RemoveTx(pool, D), a, GetNonce[state][a])
        BY <1>3, <1>4, RemoveTxInterval
      <3> QED BY <3>1, <3>2, Zenon
    <2>4. CASE \E c \in Callers : AddTx(c)
      BY <1>3, <2>1, <2>2, <2>4, AddTxAdds, Zenon
    <2> QED BY <2>3, <2>4, Zenon DEF SetGasPrice, Evict
  <1> QED BY <1>1, <1>2, <1>5, Zenon

\* Promotion, after a reset or without one.
LEMMA PromoteNonce ==
  ASSUME NonceInv, IInv, BoundInv, Served, ResetInv, PromoteExecutables,
         NEW a \in Accounts \ refused
  PROVE  /\ state' = state
         /\ \/ run'.pc = "demote" /\ Demotable(pool', a)
            \/ run'.pc = "pending" /\ Front(pool', a)
  <1> DEFINE A == IF run.reset # {} THEN {b \in Accounts : pool.queue[b] # {}} ELSE run.dirty
  <1>1. /\ pool' = Promote(pool, A) /\ state' = state
        /\ run'.pc = IF run.reset # {} THEN "demote" ELSE "pending"
        /\ run.pc = "promote" \/ (run.pc = "reinject" /\ run.todo = {})
    BY Zenon DEF PromoteExecutables, Served
  <1>2. run.pc = "promote" <=> run.reset = {}
    BY <1>1, Zenon DEF ResetInv
  <1>3. /\ Sound(pool) /\ state \in Blocks /\ a \in Accounts /\ IsFiniteSet(pool.all)
    BY Zenon DEF IInv, ResetInv, BoundInv
  <1>4. CASE run.reset # {}
    <2>1. run.pc = "reinject" /\ run.todo = {}
      BY <1>1, <1>2, <1>4, Zenon
    <2>2. PICK o \in Blocks : run.reset = {[old |-> o, new |-> state]}
      BY <2>1, Zenon DEF ResetInv
    <2>3. [old |-> o, new |-> state].old = o
      BY Zenon
    <2>4. Reinjected(pool, run.todo, a, o)
      BY <2>1, <2>2, <2>3, Zenon DEF NonceInv
    <2>5. Reinjected(pool, {}, a, o)
      BY <2>1, <2>4, Zenon
    <2>6. pool.queue[a] # {} => a \in A
      BY <1>3, <1>4, Zenon
    <2> HIDE DEF A
    <2>7. Demotable(Promote(pool, A), a)
      BY <1>3, <2>5, <2>6, PromoteDemotable
    <2> QED BY <1>1, <1>4, <2>7, Zenon
  <1>5. CASE run.reset = {}
    <2>1. run.pc = "promote"
      BY <1>2, <1>5, Zenon
    <2>2. Interval(pool, a, GetNonce[state][a])
      BY <2>1, Zenon DEF NonceInv, Unsettled
    <2> HIDE DEF A
    <2>3. Front(Promote(pool, A), a)
      BY <1>3, <2>2, PromoteFront
    <2> QED BY <1>1, <1>5, <2>3, Zenon
  <1> QED BY <1>4, <1>5, Zenon

\* Truncation caps the pending lists from behind, and takes only queued
\* transactions after that.
LEMMA TruncateNonce ==
  ASSUME NonceInv, IInv, BoundInv, Served, ResetInv, Truncate, NEW a \in Accounts \ refused
  PROVE  /\ state' = state /\ run'.pc \in {"pending", "equalise", "queue"}
         /\ Front(pool', a)
  <1>1. /\ state' = state /\ run.pc \in {"pending", "equalise", "queue"}
        /\ run'.pc \in {"pending", "equalise", "queue"}
    BY Zenon DEF Truncate, TruncateStep, Spammers, TruncatePending, Truncates, TruncateQueue,
       runVars, Served
  <1>2. /\ Sound(pool) /\ state \in Blocks /\ a \in Accounts /\ IsFiniteSet(pool.all)
        /\ Front(pool, a)
    BY <1>1, Zenon DEF IInv, ResetInv, BoundInv, NonceInv
  <1>3. CASE pool' = pool
    BY <1>1, <1>2, <1>3, Zenon
  <1>4. CASE \E A : pool' = CapOne(pool, A)
    <2>1. PICK A : pool' = CapOne(pool, A)
      BY <1>4, Zenon
    <2>2. Front(CapOne(pool, A), a)
      BY <1>2, CapOneFront
    <2> QED BY <1>1, <2>1, <2>2, Zenon
  <1>5. CASE \E b \in Accounts : TruncateQueue(b)
    <2>0. PICK b \in Accounts : \E n : pool' = RemoveTx(pool, Cap(pool.queue[b], n))
      BY <1>5, Zenon DEF TruncateQueue
    <2>1. PICK n : pool' = RemoveTx(pool, Cap(pool.queue[b], n))
      BY <2>0, Zenon
    <2> DEFINE D == Cap(pool.queue[b], n)
    <2>2. D \in SUBSET pool.queue[b]
      BY Zenon DEF Cap
    <2>3. pool' = RemoveTx(pool, D)
      BY <2>1, Zenon
    <2> HIDE DEF D
    <2>4. Hit(pool, D, a) = {}
      BY <1>2, <2>2, QueueNoHit
    <2>5. pool.nonces[a] \in Nat
      BY <1>2, Zenon DEF Front
    <2>6. /\ RemoveTx(pool, D).pending[a] = pool.pending[a]
          /\ RemoveTx(pool, D).nonces[a] = pool.nonces[a]
      BY <1>2, <2>4, <2>5, RemoveTxMiss, SMTT(20)
    <2>7. Front(pool', a)
      BY <1>2, <2>3, <2>6, Zenon DEF Front
    <2> QED BY <1>1, <2>7, Zenon
  <1>6. Spammers => pool' = pool
    BY Zenon DEF Spammers
  <1>7. TruncatePending => pool' = pool \/ \E A : pool' = CapOne(pool, A)
    BY Zenon DEF TruncatePending, Truncates
  <1> QED BY <1>3, <1>4, <1>5, <1>6, <1>7, Zenon DEF Truncate, TruncateStep

\* At the end of a run the nonces follow the pending lists.
LEMMA RunUnlockNonce ==
  ASSUME NonceInv, IInv, BoundInv, Served, ResetInv, RunUnlock, NEW a \in Accounts \ refused
  PROVE  state' = state /\ run'.pc = "send" /\ Interval(pool', a, GetNonce[state][a])
  <1> DEFINE S == pool.pending[a]
             s == GetNonce[state][a]
  <1>1. state' = state /\ run.pc = "queue" /\ run'.pc = "send"
    BY Zenon DEF RunUnlock, Served
  <1>2. /\ Sound(pool) /\ state \in Blocks /\ a \in Accounts /\ IsFiniteSet(pool.all)
        /\ Front(pool, a)
    BY <1>1, Zenon DEF IInv, ResetInv, BoundInv, NonceInv
  <1>3. /\ pool'.pending = pool.pending
        /\ pool'.nonces = [b \in Accounts |-> IF pool.pending[b] = {} THEN pool.nonces[b]
                                              ELSE 1 + Highest(pool.pending[b])]
    BY <1>2, Zenon DEF RunUnlock, Highest, Sound, Shape, IsPool
  <1>4. pool'.nonces[a] = IF S = {} THEN pool.nonces[a] ELSE 1 + Highest(S)
    BY <1>2, <1>3, Zenon
  <1>5. s \in Nat /\ Gapless(S, s) /\ (S = {} => pool.nonces[a] = s)
    BY <1>2, NonceNat, Zenon DEF Front
  <1>6. S \in SUBSET Txs /\ IsFiniteSet(S)
    <2>1. S \subseteq pool.all /\ S \in SUBSET Txs
      BY <1>2, Zenon DEF Sound, Shape, In
    <2> QED BY <1>2, <2>1, FS_Subset, Zenon
  <1> HIDE DEF S, s
  <1>7. CASE S = {}
    <2>1. pool'.nonces[a] = s
      BY <1>4, <1>5, <1>7, Zenon
    <2>2. s <= s /\ s .. s - 1 = {}
      BY <1>5
    <2>3. {Nonce[t] : t \in S} = {}
      BY <1>7, Zenon
    <2>4. {Nonce[t] : t \in S} = s .. pool'.nonces[a] - 1
      BY <2>1, <2>2, <2>3, Zenon
    <2> QED BY <1>1, <1>3, <1>5, <2>1, <2>2, <2>4, Zenon DEF Interval, S, s
  <1>8. CASE S # {}
    <2>1. /\ s <= 1 + Highest(S) /\ 1 + Highest(S) \in Nat
          /\ {Nonce[t] : t \in S} = s .. (1 + Highest(S)) - 1
      BY <1>5, <1>6, <1>8, IntervalGapless
    <2>2. pool'.nonces[a] = 1 + Highest(S)
      BY <1>4, <1>8, Zenon
    <2> QED BY <1>1, <1>3, <2>1, <2>2, Zenon DEF Interval, S, s
  <1> QED BY <1>7, <1>8, Zenon

\* Every step keeps what each stage says of the nonces.
LEMMA NextNonce ==
  NonceInv /\ IInv /\ BoundInv /\ Served /\ LockInv /\ ResetInv /\ FloorInv /\ [Next]_vars
    => NonceInv'
  <1> SUFFICES ASSUME NonceInv, IInv, BoundInv, Served, LockInv, ResetInv, FloorInv, [Next]_vars,
                      NEW a \in Accounts, a \notin refused'
               PROVE  /\ run'.pc = "reinject" =>
                           \A r \in run'.reset : Reinjected(pool, run.todo, a, r.old)'
                      /\ run'.pc = "demote" => Demotable(pool, a)'
                      /\ run'.pc \in {"pending", "equalise", "queue"} => Front(pool, a)'
                      /\ run'.pc \notin Unsettled => Interval(pool, a, GetNonce[state][a])'
    BY Zenon DEF NonceInv
  <1>1. CASE \/ \E c \in Callers : AddTx(c)
             \/ \E price \in PriceLimits : SetGasPrice(price)
             \/ \E A \in SUBSET (Accounts \ locals) : A # {} /\ Evict(A)
    <2>1. a \in Accounts \ refused
      BY <1>1, Zenon DEF AddTx, SetGasPrice, Evict
    <2>2. run'.pc \notin Unsettled /\ state' = state /\ Interval(pool', a, GetNonce[state][a])
      BY <1>1, <2>1, CallNonce, Zenon
    <2> QED BY <2>2, SameState, Zenon DEF Unsettled
  <1>2. ASSUME NEW t \in Txs, ReinjectOne(t)
        PROVE  /\ run'.pc = "reinject"
               /\ \A r \in run'.reset : Reinjected(pool, run.todo, a, r.old)'
    <2>1. /\ run.pc = "reinject" /\ run'.pc = "reinject" /\ run'.reset = run.reset
          /\ state' = state /\ Sound(pool)
      BY <1>2, Zenon DEF ReinjectOne, Served, IInv
    <2>2. a \notin refused
      BY <1>2, <2>1, ReinjectEffect, Zenon
    <2>3. PICK o \in Blocks : run.reset = {[old |-> o, new |-> state]}
      BY <2>1, Zenon DEF ResetInv
    <2>4. [old |-> o, new |-> state].old = o
      BY Zenon
    <2>5. Reinjected(pool, run.todo, a, o)
      BY <2>1, <2>2, <2>3, <2>4, Zenon DEF NonceInv
    <2>6. Reinjected(pool', run'.todo, a, o)
      <3>1. Leaves(o)
        BY <2>3, Zenon DEF Leaves
      <3> QED BY <1>2, <2>1, <2>5, <3>1, ReinjectKeeps, Zenon
    <2>7. Reinjected(pool, run.todo, a, o)'
      BY <2>1, <2>6, SameState, Zenon
    <2> QED BY <2>1, <2>3, <2>4, <2>7, Zenon
  <1>3. CASE PromoteExecutables
    <2>1. a \in Accounts \ refused
      BY <1>3, Zenon DEF PromoteExecutables
    <2>2. /\ state' = state
          /\ \/ run'.pc = "demote" /\ Demotable(pool', a)
             \/ run'.pc = "pending" /\ Front(pool', a)
      BY <1>3, <2>1, PromoteNonce, Zenon
    <2> QED BY <2>2, SameState, Zenon DEF Unsettled
  <1>4. CASE DemoteUnexecutables
    <2>1. /\ pool' = Demote(pool) /\ state' = state /\ run.pc = "demote" /\ run'.pc = "pending"
          /\ a \notin refused
      BY <1>4, Zenon DEF DemoteUnexecutables, Served
    <2>2. Sound(pool) /\ state \in Blocks /\ Demotable(pool, a)
      BY <2>1, Zenon DEF IInv, ResetInv, NonceInv
    <2>3. Front(Demote(pool), a)
      BY <2>2, DemoteFront
    <2>4. Front(pool', a)
      BY <2>1, <2>3, Zenon
    <2> QED BY <2>1, <2>4, SameState, Zenon DEF Unsettled
  <1>5. CASE Truncate
    <2>1. a \in Accounts \ refused
      BY <1>5, Zenon DEF Truncate
    <2>2. /\ state' = state /\ run'.pc \in {"pending", "equalise", "queue"}
          /\ Front(pool', a)
      BY <1>5, <2>1, TruncateNonce, Zenon
    <2> QED BY <2>2, SameState, Zenon DEF Unsettled
  <1>6. CASE RunUnlock
    <2>1. a \in Accounts \ refused
      BY <1>6, Zenon DEF RunUnlock
    <2>2. state' = state /\ run'.pc = "send" /\ Interval(pool', a, GetNonce[state][a])
      BY <1>6, <2>1, RunUnlockNonce, Zenon
    <2> QED BY <2>2, SameState, Zenon DEF Unsettled
  <1>7. CASE RunLock /\ run.reset # {}
    <2>1. run'.pc = "reinject" /\ a \in Accounts \ refused /\ Sound(pool)
      BY <1>7, Zenon DEF RunLock, Served, IInv
    <2>2. \A r \in run'.reset : Reinjected(pool, run.todo, a, r.old)'
      BY <1>7, <2>1, RunLockNonce, Zenon
    <2> QED BY <2>1, <2>2, Zenon DEF Unsettled
  <1>8. CASE (RunLock /\ run.reset = {}) \/ Launch \/ RunDone \/ Send
    <2>1. /\ UNCHANGED <<pool, state, refused>>
          /\ run.pc \in {"lock", "none", "done", "send"}
          /\ run'.pc \in {"promote", "lock", "none", "done"}
      <3>1. CASE RunLock /\ run.reset = {}
        BY <3>1, Zenon DEF RunLock, Served
      <3>2. CASE Launch
        BY <3>2, Zenon DEF Launch, poolVars
      <3>3. CASE RunDone
        BY <3>3, Zenon DEF RunDone, Served, poolVars
      <3>4. CASE Send
        BY <3>4, Zenon DEF Send, poolVars
      <3> QED BY <1>8, <3>1, <3>2, <3>3, <3>4, ZenonT(30)
    <2>2. Interval(pool', a, GetNonce[state][a])
      BY <2>1, Zenon DEF NonceInv, Unsettled
    <2> QED BY <2>1, <2>2, SameState, Zenon DEF Unsettled
  <1>9. CASE \/ \E c \in Callers : AddTxs(c) \/ RequestPromoteExecutables(c)
             \/ \E b \in Blocks : HeadEvent(b)
             \/ RequestReset \/ Stop \/ Shutdown \/ ShutdownDone
             \/ UNCHANGED vars
    <2>1. UNCHANGED <<pool, state, run, refused>>
      BY <1>9, ZenonT(30) DEF AddTxs, RequestPromoteExecutables, HeadEvent, RequestReset, Stop, Shutdown,
         ShutdownDone, vars, poolVars, runVars
    <2>2. /\ run.pc = "reinject" =>
               \A r \in run.reset : Reinjected(pool', run'.todo, a, r.old)
          /\ run.pc = "demote" => Demotable(pool', a)
          /\ run.pc \in {"pending", "equalise", "queue"} => Front(pool', a)
          /\ run.pc \notin Unsettled => Interval(pool', a, GetNonce[state][a])
      BY <2>1, Zenon DEF NonceInv
    <2> QED BY <2>1, <2>2, SameState, Zenon
  <1>10. CASE \E t \in Txs : ReinjectOne(t)
    BY <1>2, <1>10, Zenon DEF Unsettled
  <1> QED BY <1>1, <1>3, <1>4, <1>5, <1>6, <1>7, <1>8, <1>9, <1>10, ZenonT(30)
      DEF Next, ScheduleReorgLoop, RunReorg

\* For any accounts, transactions, valid chain, callers and limits: whenever
\* the lock is free, the pending transactions of an account that lost none
\* while a reset added the reorged ones again are consecutive from the nonce
\* of the state, and Nonce answers the next one.
THEOREM NoncesAreNext == Spec => []NonceIsNextUnlessRefused
  <1> DEFINE I == BoundInv /\ Served /\ LockInv /\ ResetInv /\ FloorInv /\ NonceInv
  <1>1. Init => BoundInv /\ Served /\ LockInv /\ ResetInv /\ FloorInv
    BY InitBound, InitRun, Zenon
  <1>2. Init => NonceInv
    <2> SUFFICES ASSUME Init, NEW a \in Accounts
                 PROVE  run.pc = "none" /\ Interval(pool, a, GetNonce[state][a])
      BY Zenon DEF NonceInv, Unsettled
    <2>1. /\ run.pc = "none" /\ state = Genesis /\ Genesis \in Blocks
          /\ pool.pending[a] = {} /\ pool.nonces = GetNonce[Genesis]
      BY TxPoolAssumption, Zenon DEF Init
    <2>2. GetNonce[Genesis][a] \in Nat
      BY <2>1, NonceNat, Zenon
    <2> DEFINE s == GetNonce[Genesis][a]
    <2>3. s <= s /\ s .. s - 1 = {}
      <3> HIDE DEF s
      <3>1. s \in Nat
        BY <2>2 DEF s
      <3> QED BY <3>1
    <2>4. {Nonce[t] : t \in pool.pending[a]} = {}
      BY <2>1, Zenon
    <2> QED BY <2>1, <2>2, <2>3, <2>4, Zenon DEF Interval
  <1>3. I /\ IInv /\ [Next]_vars => I'
    <2> SUFFICES ASSUME I, IInv, [Next]_vars PROVE I'
      BY Zenon
    <2>1. CallersOK
      BY Zenon DEF IInv
    <2>2. Served' /\ LockInv' /\ ResetInv' /\ BoundInv'
      BY <2>1, NextServed, NextLock, NextReset, NextBound, Zenon
    <2>3. FloorInv' /\ NonceInv'
      BY NextFloor, NextNonce, Zenon
    <2> QED BY <2>2, <2>3, Zenon
  <1>4. I => NonceIsNextUnlessRefused
    <2> SUFFICES ASSUME I, mu = "free", NEW a \in Accounts \ refused PROVE Consecutive(a)
      BY Zenon DEF NonceIsNextUnlessRefused
    <2>1. run.pc \notin Unsettled
      BY Zenon DEF LockInv, Busy, Unsettled
    <2>2. Interval(pool, a, GetNonce[state][a])
      BY <2>1, Zenon DEF NonceInv
    <2> QED BY <2>2, Zenon DEF Interval, Consecutive
  <1>5. (Init => IInv) /\ (IInv /\ [Next]_vars => IInv')
    BY InitInv, NextInv, Zenon
  <1>6. Init => I
    BY <1>1, <1>2, Zenon
  <1> HIDE DEF I
  <1> QED BY <1>3, <1>4, <1>5, <1>6, PTL DEF Spec

=============================================================================
