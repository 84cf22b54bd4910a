---------------------------- MODULE TxPoolProofs ----------------------------
(***************************************************************************)
(* For every set of accounts, transactions, blocks and callers, every      *)
(* valid chain, and all limits: the lists and the lookup agree (each       *)
(* operation on the lists keeps them sound, and every action applies such  *)
(* operations to the pool), no request is lost, remote transactions stay   *)
(* within the configured total, and pending transactions are announced,    *)
(* which follows the pool through every stage of runReorg.                 *)
(***************************************************************************)
EXTENDS TxPool, FiniteSetTheorems, WellFoundedInduction, TLAPS

OneEach(S) == \A t, u \in S : Nonce[t] = Nonce[u] => t = u

\* both lists of account a, and the account's part of the lookup
In(P, a) == P.pending[a] \cup P.queue[a]

IsPool(P) == DOMAIN P = {"pending", "queue", "all", "nonces"}

Shape(P) ==
    /\ IsPool(P)
    /\ P.pending \in [Accounts -> SUBSET Txs]
    /\ P.queue \in [Accounts -> SUBSET Txs]
    /\ P.all \in SUBSET Txs
    /\ \A a \in Accounts : \A t \in In(P, a) : From[t] = a
    /\ \A a \in Accounts : OneEach(In(P, a)) /\ P.pending[a] \cap P.queue[a] = {}

Sound(P) ==
    /\ Shape(P)
    /\ \A t \in Txs : t \in P.all <=> t \in In(P, From[t])

-----------------------------------------------------------------------------
(* txList. *)

\* Add keeps one transaction per nonce.
LEMMA AddAllOneEach ==
  ASSUME NEW S \in SUBSET Txs, NEW T \in SUBSET Txs, OneEach(S), OneEach(T)
  PROVE  /\ OneEach(AddAll(S, T))
         /\ Inserted(S, T) \subseteq T
         /\ Replaced(S, T) \subseteq S
         /\ \A t \in Inserted(S, T) : \A u \in S \ Replaced(S, T) : Nonce[t] # Nonce[u]
  <1>1. Inserted(S, T) \subseteq T /\ Replaced(S, T) \subseteq S
    BY Zenon DEF Inserted, Replaced
  <1>2. \A t \in Inserted(S, T) : \A u \in S \ Replaced(S, T) : Nonce[t] # Nonce[u]
    BY Zenon DEF Replaced, SameNonce
  <1>3. OneEach(AddAll(S, T))
    BY <1>1, <1>2, Zenon DEF OneEach, AddAll
  <1> QED BY <1>1, <1>2, <1>3, Zenon

\* enqueueTx: transactions whose nonces are not pending enter the queue, and
\* what the lookup held beyond the lists before is listed now.
LEMMA EnqueueSound ==
  ASSUME NEW P, Shape(P), NEW T \in SUBSET Txs,
         \A a \in Accounts : OneEach(Of(T, a)),
         \A t \in T : SameNonce(P.pending[From[t]], t) = {},
         \A t \in Txs : t \in In(P, From[t]) => t \in P.all,
         \A t \in P.all : \/ t \in In(P, From[t])
                          \/ t \in Inserted(P.queue[From[t]], Of(T, From[t]))
  PROVE  Sound(Enqueue(P, T))
  <1> DEFINE Q == Enqueue(P, T)
             ins(a) == Inserted(P.queue[a], Of(T, a))
             rep(a) == Replaced(P.queue[a], Of(T, a))
             gone == UNION {rep(a) : a \in Accounts}
             new == UNION {ins(a) : a \in Accounts}
  <1>1. ASSUME NEW a \in Accounts
        PROVE  /\ P.queue[a] \in SUBSET Txs /\ Of(T, a) \in SUBSET Txs
               /\ OneEach(P.queue[a]) /\ OneEach(Of(T, a))
               /\ OneEach(AddAll(P.queue[a], Of(T, a)))
               /\ ins(a) \subseteq Of(T, a) /\ rep(a) \subseteq P.queue[a]
               /\ \A t \in ins(a) : \A u \in P.queue[a] \ rep(a) : Nonce[t] # Nonce[u]
    <2>1. /\ P.queue[a] \in SUBSET Txs /\ Of(T, a) \in SUBSET Txs
          /\ OneEach(P.queue[a]) /\ OneEach(Of(T, a))
      BY <1>1, Zenon DEF Shape, Of, OneEach, In
    <2> QED BY <2>1, AddAllOneEach, Zenon
  <1>2. /\ IsPool(Q)
        /\ Q.pending = P.pending
        /\ Q.queue = [a \in Accounts |-> AddAll(P.queue[a], Of(T, a))]
        /\ Q.all = (P.all \ gone) \cup new
    BY Zenon DEF Enqueue, Shape, IsPool
  <1>3. \A a \in Accounts : Q.queue[a] = (P.queue[a] \ rep(a)) \cup ins(a)
    BY <1>2, Zenon DEF AddAll
  <1>4. \A t \in Txs : /\ t \in gone <=> t \in rep(From[t])
                       /\ t \in new <=> t \in ins(From[t])
    <2>1. \A a \in Accounts : \A t \in rep(a) \cup ins(a) : From[t] = a
      BY <1>1, Zenon DEF Shape, Of, In
    <2> QED BY <2>1, TxPoolAssumption
  <1>5. /\ Q.pending \in [Accounts -> SUBSET Txs]
        /\ Q.queue \in [Accounts -> SUBSET Txs]
        /\ Q.all \in SUBSET Txs
    <2>1. new \subseteq Txs
      BY <1>1, Zenon
    <2>2. \A a \in Accounts : Q.queue[a] \subseteq Txs
      BY <1>1, <1>3
    <2> QED BY <2>1, <2>2, <1>2, Zenon DEF Shape
  <1>6. ASSUME NEW a \in Accounts, NEW t \in In(Q, a) PROVE From[t] = a
    <2>1. t \in In(P, a) \/ t \in Of(T, a)
      BY <1>1, <1>2, <1>3, <1>6 DEF In
    <2> QED BY <2>1, <1>6, Zenon DEF Shape, Of
  <1>7. ASSUME NEW a \in Accounts PROVE OneEach(In(Q, a)) /\ Q.pending[a] \cap Q.queue[a] = {}
    <2>1. OneEach(P.pending[a] \cup P.queue[a]) /\ OneEach(Q.queue[a])
      BY <1>1, <1>2, <1>7 DEF Shape, In
    <2>2. \A t \in ins(a) : \A u \in P.pending[a] : Nonce[t] # Nonce[u]
      BY <1>1, <1>7, ZenonT(30) DEF SameNonce, Of
    <2>3. P.pending[a] \cap P.queue[a] = {}
      BY <1>7, Zenon DEF Shape
    <2>4. Q.pending[a] \cap Q.queue[a] = {}
      BY <2>2, <2>3, <1>2, <1>3, <1>7, Zenon
    <2>5. OneEach(In(Q, a))
      BY <2>1, <2>2, <1>2, <1>3, <1>7 DEF OneEach, In
    <2> QED BY <2>4, <2>5, Zenon
  <1>8. ASSUME NEW t \in Txs PROVE t \in Q.all <=> t \in In(Q, From[t])
    <2> DEFINE a == From[t]
    <2>1. a \in Accounts
      BY TxPoolAssumption, Zenon
    <2>2. t \in Q.all <=> (t \in P.all /\ t \notin rep(a)) \/ t \in ins(a)
      BY <1>2, <1>4, Zenon
    <2>3. t \in In(Q, a) <=> t \in P.pending[a] \/ (t \in P.queue[a] /\ t \notin rep(a)) \/ t \in ins(a)
      BY <1>2, <1>3, <2>1, Zenon DEF In
    <2>4. t \in P.pending[a] => t \notin rep(a)
      <3> SUFFICES ASSUME t \in P.pending[a], t \in rep(a) PROVE FALSE
        BY Zenon
      <3>1. PICK v \in ins(a) : Nonce[v] = Nonce[t]
        BY Zenon DEF Replaced, SameNonce
      <3>2. v \in T /\ From[v] = a
        BY <1>1, <2>1, Zenon DEF Of
      <3> QED BY <3>1, <3>2, Zenon DEF SameNonce
    <2> QED BY <2>1, <2>2, <2>3, <2>4, Zenon DEF In
  <1> QED BY <1>2, <1>5, <1>6, <1>7, <1>8, Zenon DEF Sound, Shape

\* Dropping transactions, or moving them from one list to the other, keeps
\* the shape.
LEMMA Shrink ==
  ASSUME NEW P, Shape(P), NEW Q, IsPool(Q),
         Q.pending \in [Accounts -> SUBSET Txs], Q.queue \in [Accounts -> SUBSET Txs],
         Q.all \in SUBSET Txs,
         \A a \in Accounts : /\ In(Q, a) \subseteq In(P, a)
                             /\ Q.pending[a] \cap Q.queue[a] = {}
  PROVE  Shape(Q)
  <1>1. \A a \in Accounts : OneEach(In(Q, a))
    BY Zenon DEF Shape, OneEach
  <1>2. \A a \in Accounts : \A t \in In(Q, a) : From[t] = a
    BY Zenon DEF Shape
  <1> QED BY <1>1, <1>2, Zenon DEF Shape

\* What two transactions of one account with the same nonce have in common.
LEMMA SameIsEqual ==
  ASSUME NEW P, Shape(P), NEW a \in Accounts, NEW t \in In(P, a), NEW u \in In(P, a),
         Nonce[t] = Nonce[u]
  PROVE  t = u
  BY Zenon DEF Shape, OneEach

\* Removing transactions, with what followed them queued again, keeps the
\* lists sound.
LEMMA RemoveTxSound ==
  ASSUME NEW P, Sound(P), NEW D
  PROVE  Sound(RemoveTx(P, D))
  <1> DEFINE known(a) == Of(D \cap P.all, a)
             hit(a) == {u \in P.pending[a] : SameNonce(known(a), u) # {}}
             inv(a) == Following(P.pending[a], hit(a))
             gone(a) == {u \in P.queue[a] : \E d \in known(a) :
                           Nonce[d] = Nonce[u] /\ SameNonce(P.pending[a], d) = {}}
             low(a) == {Nonce[u] : u \in hit(a)} \cup {P.nonces[a]}
             P1 == [pending |-> [a \in Accounts |-> P.pending[a] \ (hit(a) \cup inv(a))],
                    queue |-> [a \in Accounts |-> P.queue[a] \ gone(a)],
                    all |-> P.all \ D,
                    nonces |-> [a \in Accounts |->
                                  CHOOSE n \in low(a) : \A m \in low(a) : n <= m]]
             T == UNION {inv(a) \ D : a \in Accounts}
  <1>1. RemoveTx(P, D) = Enqueue(P1, T)
    BY Zenon DEF RemoveTx
  <1>2. Shape(P)
    BY Zenon DEF Sound
  <1>3. \A a \in Accounts : /\ P1.pending[a] = P.pending[a] \ (hit(a) \cup inv(a))
                            /\ P1.queue[a] = P.queue[a] \ gone(a)
    BY Zenon
  <1>4. \A a \in Accounts : inv(a) \subseteq P.pending[a] /\ inv(a) \cap hit(a) = {}
    BY Zenon DEF Following
  <1>5. Shape(P1)
    <2>1. IsPool(P1)
      BY Zenon DEF IsPool
    <2>2. /\ P1.pending \in [Accounts -> SUBSET Txs]
          /\ P1.queue \in [Accounts -> SUBSET Txs]
          /\ P1.all \in SUBSET Txs
      BY <1>2, Zenon DEF Shape
    <2>3. \A a \in Accounts : /\ In(P1, a) \subseteq In(P, a)
                              /\ P1.pending[a] \cap P1.queue[a] = {}
      BY <1>2, <1>3, Zenon DEF Shape, In
    <2> HIDE DEF P1
    <2> QED BY <1>2, <2>1, <2>2, <2>3, Shrink, Zenon
  <1>6. \A a \in Accounts : Of(T, a) = inv(a) \ D
    <2>1. \A a \in Accounts : \A t \in P.pending[a] : From[t] = a
      BY <1>2, Zenon DEF Shape, In
    <2>2. \A a \in Accounts : \A t \in inv(a) : From[t] = a
      BY <1>4, <2>1, Zenon
    <2> HIDE DEF inv
    <2> QED BY <2>2, Zenon DEF Of
  <1>7. T \in SUBSET Txs
    BY <1>2, <1>4, Zenon DEF Shape
  <1>8. \A t \in Txs : From[t] \in Accounts
    BY TxPoolAssumption, Zenon
  <1>9. \A a \in Accounts : OneEach(Of(T, a))
    <2> HIDE DEF inv
    <2> QED BY <1>2, <1>4, <1>6 DEF OneEach, Shape, In
  <1>10. ASSUME NEW t \in T PROVE SameNonce(P1.pending[From[t]], t) = {}
    <2> DEFINE a == From[t]
    <2>1. a \in Accounts /\ t \in inv(a) /\ t \in P.pending[a]
      <3>1. PICK b \in Accounts : t \in inv(b) \ D
        BY <1>10, Zenon
      <3>2. t \in P.pending[b]
        BY <1>4, <3>1, Zenon
      <3>3. From[t] = b
        BY <1>2, <3>2, Zenon DEF Shape, In
      <3> QED BY <3>1, <3>2, <3>3, Zenon
    <2>2. ASSUME NEW u \in P1.pending[a], Nonce[u] = Nonce[t] PROVE FALSE
      <3>1. u \in P.pending[a] /\ u \notin inv(a)
        BY <1>3, <2>1, <2>2, Zenon
      <3>2. u = t
        BY <1>2, <2>1, <2>2, <3>1, SameIsEqual DEF In
      <3> QED BY <2>1, <3>1, <3>2, Zenon
    <2> QED BY <2>2, Zenon DEF SameNonce
  <1>11. ASSUME NEW t \in Txs, t \in In(P1, From[t]) PROVE t \in P1.all
    <2> DEFINE a == From[t]
    <2>1. a \in Accounts /\ t \in In(P, a) /\ t \in P.all
      BY <1>3, <1>8, <1>11, Zenon DEF In, Sound
    <2>2. ASSUME t \in D PROVE FALSE
      <3>1. t \in known(a)
        BY <2>1, <2>2, Zenon DEF Of
      <3>2. CASE t \in P.pending[a]
        <4>1. t \in hit(a)
          BY <3>1, <3>2, Zenon DEF SameNonce
        <4> QED BY <4>1, <3>2, <1>2, <1>3, <1>11, <2>1, Zenon DEF In, Shape
      <3>3. CASE t \in P.queue[a] /\ t \notin P.pending[a]
        <4>1. SameNonce(P.pending[a], t) = {}
          BY <3>3, <1>2, <2>1, SameIsEqual DEF SameNonce, In
        <4>2. t \in gone(a)
          BY <4>1, <3>1, <3>3, Zenon
        <4> QED BY <4>2, <3>3, <1>3, <1>11, <2>1, Zenon DEF In
      <3> QED BY <2>1, <3>2, <3>3, Zenon DEF In
    <2> QED BY <2>1, <2>2, Zenon
  <1>12. ASSUME NEW t \in P1.all
         PROVE  \/ t \in In(P1, From[t])
                \/ t \in Inserted(P1.queue[From[t]], Of(T, From[t]))
    <2> DEFINE a == From[t]
    <2>1. t \in Txs /\ a \in Accounts /\ t \in In(P, a) /\ t \in P.all /\ t \notin D
      BY <1>8, <1>12, <1>2, Zenon DEF Sound, Shape
    <2>2. ASSUME NEW d \in known(a), Nonce[d] = Nonce[t] PROVE FALSE
      <3>1. d \in D /\ d \in In(P, a)
        BY <1>2, Zenon DEF Of, Sound, Shape
      <3> QED BY <1>2, <2>1, <2>2, <3>1, SameIsEqual, Zenon
    <2>3. t \notin hit(a) /\ t \notin gone(a)
      BY <2>2, Zenon DEF SameNonce
    <2>4. CASE t \in inv(a)
      <3>1. t \in Of(T, a) /\ t \in P.pending[a]
        BY <1>4, <1>6, <2>1, <2>4, Zenon
      <3>2. SameNonce(P1.queue[a], t) = {}
        <4>1. ASSUME NEW u \in P.queue[a], Nonce[u] = Nonce[t] PROVE FALSE
          <5>1. u = t
            BY <1>2, <2>1, <4>1, SameIsEqual, Zenon DEF In
          <5> QED BY <5>1, <4>1, <3>1, <1>2, <2>1, Zenon DEF Shape
        <4> QED BY <4>1, <1>3, <2>1, Zenon DEF SameNonce
      <3> QED BY <3>1, <3>2, Zenon DEF Inserted
    <2>5. CASE t \notin inv(a)
      BY <1>3, <2>1, <2>3, <2>5, Zenon DEF In
    <2> QED BY <2>4, <2>5, Zenon
  <1> HIDE DEF P1, T
  <1> QED BY <1>1, <1>5, <1>7, <1>9, <1>10, <1>11, <1>12, EnqueueSound, Zenon

\* So does inserting a transaction that the lookup does not know.
LEMMA InsertSound ==
  ASSUME NEW P, Sound(P), NEW t \in Txs
  PROVE  Sound(Insert(P, t))
  <1> DEFINE a == From[t]
  <1>1. Shape(P) /\ a \in Accounts
    BY TxPoolAssumption, Zenon DEF Sound
  <1>2. CASE Overlaps(P, t)
    <2> DEFINE old == Replaced(P.pending[a], {t})
               new == Inserted(P.pending[a], {t})
               Q == Insert(P, t)
    <2>1. /\ IsPool(Q)
          /\ Q.pending = [P.pending EXCEPT ![a] = (@ \ old) \cup new]
          /\ Q.queue = P.queue
          /\ Q.all = (P.all \ old) \cup new
      BY <1>1, <1>2, Zenon DEF Insert, Shape, IsPool
    <2>2. /\ OneEach(AddAll(P.pending[a], {t}))
          /\ new \subseteq {t} /\ old \subseteq P.pending[a]
      <3>1. P.pending[a] \in SUBSET Txs /\ {t} \in SUBSET Txs
        BY <1>1, Zenon DEF Shape
      <3>2. OneEach(P.pending[a]) /\ OneEach({t})
        <4>1. OneEach(In(P, a))
          BY <1>1, Zenon DEF Shape
        <4> QED BY <4>1, Zenon DEF OneEach, In
      <3> DEFINE S == P.pending[a]
                 T == {t}
      <3> HIDE DEF S, T
      <3>3. S \in SUBSET Txs /\ T \in SUBSET Txs /\ OneEach(S) /\ OneEach(T)
        BY <3>1, <3>2, Zenon DEF S, T
      <3>4. OneEach(AddAll(S, T)) /\ Inserted(S, T) \subseteq T /\ Replaced(S, T) \subseteq S
        BY <3>3, AddAllOneEach, Zenon
      <3> QED BY <3>4, Zenon DEF S, T
    <2>3. \A b \in Accounts : P.pending[b] \in SUBSET Txs
      BY <1>1, Zenon DEF Shape
    <2> HIDE DEF Q, old, new
    <2>4. /\ Q.pending \in [Accounts -> SUBSET Txs]
          /\ Q.pending[a] = (P.pending[a] \ old) \cup new
          /\ \A b \in Accounts : b # a => Q.pending[b] = P.pending[b]
      BY <1>1, <2>1, <2>2, <2>3 DEF Shape
    <2>5. PICK u \in P.pending[a] : Nonce[u] = Nonce[t]
      BY <1>2, Zenon DEF Overlaps, SameNonce
    <2>6. ASSUME NEW v \in P.queue[a], Nonce[v] = Nonce[t] PROVE FALSE
      <3>1. v = u
        BY <1>1, <2>5, <2>6, SameIsEqual, Zenon DEF In
      <3> QED BY <3>1, <2>5, <2>6, <1>1, Zenon DEF Shape
    <2>7. \A b \in Accounts : \A v \in In(Q, b) : From[v] = b
      <3>1. \A b \in Accounts : \A v \in In(P, b) : From[v] = b
        BY <1>1, Zenon DEF Shape
      <3> QED BY <1>1, <2>1, <2>2, <2>4, <3>1 DEF In
    <2>8. ASSUME NEW b \in Accounts
          PROVE  OneEach(In(Q, b)) /\ Q.pending[b] \cap Q.queue[b] = {}
      <3>1. CASE b # a
        BY <1>1, <2>1, <2>4, <2>8, <3>1, Zenon DEF Shape, In
      <3>2. CASE b = a
        <4>1. OneEach(Q.pending[a]) /\ OneEach(P.pending[a] \cup P.queue[a])
          BY <1>1, <2>2, <2>4, Zenon DEF AddAll, Shape, In, old, new
        <4>2. Q.pending[a] \cap Q.queue[a] = {}
          BY <1>1, <2>1, <2>2, <2>4, <2>6, Zenon DEF Shape
        <4>3. OneEach(In(Q, a))
          BY <4>1, <2>1, <2>2, <2>4, <2>6, Zenon DEF OneEach, In
        <4> QED BY <3>2, <4>2, <4>3, Zenon
      <3> QED BY <3>1, <3>2, Zenon
    <2>9. ASSUME NEW v \in Txs PROVE v \in Q.all <=> v \in In(Q, From[v])
      <3>1. v \in P.all <=> v \in In(P, From[v])
        BY <2>9, Zenon DEF Sound
      <3>2. From[v] \in Accounts
        BY <2>9, TxPoolAssumption, Zenon
      <3>3. CASE From[v] # a
        <4>1. v \notin old /\ v \notin new
          BY <1>1, <2>2, <3>3, Zenon DEF Shape, In
        <4> QED BY <4>1, <2>1, <2>4, <3>1, <3>2, <3>3, Zenon DEF In
      <3>4. CASE From[v] = a
        <4>1. v \in P.queue[a] => v \notin old
          BY <1>1, <2>2, Zenon DEF Shape
        <4> QED BY <4>1, <2>1, <2>4, <3>1, <3>4, Zenon DEF In
      <3> QED BY <3>3, <3>4, Zenon
    <2>10. Q.all \in SUBSET Txs
      BY <1>1, <2>1, <2>2, Zenon DEF Shape
    <2>11. Q.queue \in [Accounts -> SUBSET Txs]
      BY <1>1, <2>1, Zenon DEF Shape
    <2> QED BY <2>1, <2>4, <2>7, <2>8, <2>9, <2>10, <2>11, Zenon DEF Sound, Shape, Q
  <1>3. CASE ~Overlaps(P, t)
    <2>1. Insert(P, t) = Enqueue(P, {t})
      BY <1>3, Zenon DEF Insert
    <2>2. \A b \in Accounts : OneEach(Of({t}, b))
      BY Zenon DEF OneEach, Of
    <2>3. \A u \in {t} : SameNonce(P.pending[From[u]], u) = {}
      BY <1>3, Zenon DEF Overlaps
    <2>4. /\ \A u \in Txs : u \in In(P, From[u]) => u \in P.all
          /\ \A u \in P.all : u \in In(P, From[u])
      BY <1>1, Zenon DEF Sound, Shape
    <2> QED BY <1>1, <2>1, <2>2, <2>3, <2>4, EnqueueSound, Zenon
  <1> QED BY <1>2, <1>3, Zenon

\* So does taking the last pending transaction of some accounts.
LEMMA CapOneSound ==
  ASSUME NEW P, Sound(P), NEW A
  PROVE  Sound(CapOne(P, A))
  <1> DEFINE last(a) == IF a \in A THEN Cap(P.pending[a], Cardinality(P.pending[a]) - 1) ELSE {}
             Q == CapOne(P, A)
             gone == UNION {last(a) : a \in Accounts}
  <1>1. Shape(P)
    BY DEF Sound
  <1>2. /\ IsPool(Q)
        /\ Q.pending = [a \in Accounts |-> P.pending[a] \ last(a)]
        /\ Q.queue = P.queue
        /\ Q.all = P.all \ gone
    BY <1>1, Zenon DEF CapOne, Shape, IsPool
  <1>3. \A a \in Accounts : last(a) \subseteq P.pending[a]
    BY Zenon DEF Cap
  <1> HIDE DEF last, Q
  <1>4. \A a \in Accounts : Q.pending[a] = P.pending[a] \ last(a)
    BY <1>2, Zenon
  <1>5. Shape(Q)
    <2>1. /\ Q.pending \in [Accounts -> SUBSET Txs] /\ Q.queue \in [Accounts -> SUBSET Txs]
          /\ Q.all \in SUBSET Txs
      BY <1>1, <1>2 DEF Shape
    <2>2. \A a \in Accounts : In(Q, a) \subseteq In(P, a) /\ Q.pending[a] \cap Q.queue[a] = {}
      <3>1. Q.queue = P.queue
        BY <1>2, Zenon
      <3>2. \A a \in Accounts : P.pending[a] \cap P.queue[a] = {}
        BY <1>1, Zenon DEF Shape
      <3> QED BY <1>4, <3>1, <3>2, Zenon DEF In
    <2> QED BY <1>1, <1>2, <2>1, <2>2, Shrink, Zenon
  <1>6. ASSUME NEW t \in Txs PROVE t \in Q.all <=> t \in In(Q, From[t])
    <2>1. From[t] \in Accounts /\ (t \in P.all <=> t \in In(P, From[t]))
      BY TxPoolAssumption, Zenon DEF Sound
    <2>2. t \in gone <=> t \in last(From[t])
      <3>1. \A a \in Accounts : \A u \in last(a) : From[u] = a
        BY <1>1, <1>3, Zenon DEF Shape, In
      <3> QED BY <3>1, <2>1, Zenon
    <2>3. t \in P.queue[From[t]] => t \notin last(From[t])
      BY <1>1, <1>3, <2>1, Zenon DEF Shape
    <2> QED BY <1>2, <1>4, <2>1, <2>2, <2>3 DEF In
  <1> QED BY <1>5, <1>6, Zenon DEF Sound, Q

\* So does moving the executable ones of some accounts to pending.
LEMMA PromoteSound ==
  ASSUME NEW P, Sound(P), NEW A
  PROVE  Sound(Promote(P, A))
  <1> DEFINE rdy(a) == Readies(P, a)
             rest(a) == Payable(P, a) \ rdy(a)
             kept(a) == IF a \in locals THEN rest(a) ELSE rest(a) \ Cap(rest(a), AccountQueue)
             que == [a \in Accounts |-> IF a \in A THEN kept(a) ELSE P.queue[a]]
             pend == [a \in Accounts |->
                        IF a \in A THEN AddAll(P.pending[a], rdy(a)) ELSE P.pending[a]]
             Q == Promote(P, A)
  <1>1. Shape(P)
    BY DEF Sound
  <1>2. /\ IsPool(Q)
        /\ Q.pending = pend
        /\ Q.queue = que
        /\ Q.all = {t \in P.all :
                      From[t] \in A => \/ t \notin P.queue[From[t]] \cup P.pending[From[t]]
                                       \/ t \in que[From[t]] \cup pend[From[t]]}
    BY Zenon DEF Promote, IsPool
  <1>3. ASSUME NEW a \in Accounts
        PROVE  /\ rdy(a) \subseteq P.queue[a]
               /\ kept(a) \subseteq P.queue[a] \ rdy(a)
               /\ AddAll(P.pending[a], rdy(a)) \subseteq P.pending[a] \cup rdy(a)
    <2>1. Payable(P, a) \subseteq P.queue[a] /\ rdy(a) \subseteq Payable(P, a)
      BY Zenon DEF Payable, Readies, Ready
    <2>2. AddAll(P.pending[a], rdy(a)) \subseteq P.pending[a] \cup rdy(a)
      BY Zenon DEF AddAll, Inserted
    <2> QED BY <2>1, <2>2, Zenon
  <1> HIDE DEF Q, rdy, kept
  <1>4. \A a \in Accounts : In(Q, a) \subseteq In(P, a) /\ Q.pending[a] \cap Q.queue[a] = {}
    <2>1. \A a \in Accounts : P.pending[a] \cap P.queue[a] = {}
      BY <1>1 DEF Shape
    <2>2. ASSUME NEW a \in Accounts
          PROVE  /\ Q.pending[a] \subseteq P.pending[a] \cup rdy(a)
                 /\ Q.queue[a] \subseteq P.queue[a]
                 /\ Q.pending[a] \cap Q.queue[a] = {}
      BY <1>2, <1>3, <2>1, <2>2
    <2> QED BY <1>3, <2>2, Zenon DEF In
  <1>5. Shape(Q)
    <2>1. \A a \in Accounts : P.pending[a] \in SUBSET Txs /\ P.queue[a] \in SUBSET Txs
      BY <1>1, Zenon DEF Shape
    <2>2. \A a \in Accounts : Q.pending[a] \in SUBSET Txs /\ Q.queue[a] \in SUBSET Txs
      BY <1>4, <2>1, Zenon DEF In
    <2>3. Q.pending \in [Accounts -> SUBSET Txs] /\ Q.queue \in [Accounts -> SUBSET Txs]
      BY <1>2, <2>2, Zenon
    <2>4. Q.all \in SUBSET Txs
      BY <1>1, <1>2, Zenon DEF Shape
    <2> QED BY <1>1, <1>2, <1>4, <2>3, <2>4, Shrink, Zenon
  <1>6. ASSUME NEW t \in Txs PROVE t \in Q.all <=> t \in In(Q, From[t])
    <2>1. From[t] \in Accounts /\ (t \in P.all <=> t \in In(P, From[t]))
      BY TxPoolAssumption DEF Sound
    <2>2. In(Q, From[t]) = que[From[t]] \cup pend[From[t]]
      BY <1>2, Zenon DEF In
    <2>3. From[t] \notin A => In(Q, From[t]) = In(P, From[t])
      BY <1>2, <2>1, Zenon DEF In
    <2> QED BY <1>2, <1>4, <2>1, <2>2, <2>3, Zenon DEF In
  <1> QED BY <1>5, <1>6, Zenon DEF Sound, Q

\* So does queuing the pending ones that a new state invalidates.
LEMMA DemoteSound ==
  ASSUME NEW P, Sound(P)
  PROVE  Sound(Demote(P))
  <1> DEFINE old(a) == Forward(P.pending[a], GetNonce[state][a])
             live(a) == P.pending[a] \ old(a)
             drop(a) == Unpayable(live(a), GetBalance[state][a])
             inv(a) == Following(live(a), drop(a))
             left(a) == live(a) \ (drop(a) \cup inv(a))
             gapped(a) == IF \E t \in left(a) : Nonce[t] = GetNonce[state][a]
                          THEN {} ELSE left(a)
             out(a) == old(a) \cup drop(a)
             back(a) == inv(a) \cup gapped(a)
             P1 == [P EXCEPT
                      !.pending = [a \in Accounts |-> left(a) \ gapped(a)],
                      !.all = @ \ UNION {old(a) \cup drop(a) : a \in Accounts}]
             T == UNION {inv(a) \cup gapped(a) : a \in Accounts}
  <1>1. Demote(P) = Enqueue(P1, T)
    BY Zenon DEF Demote
  <1>2. Shape(P)
    BY DEF Sound
  <1>3. /\ IsPool(P1)
        /\ P1.pending = [a \in Accounts |-> left(a) \ gapped(a)]
        /\ P1.queue = P.queue
        /\ P1.all = P.all \ UNION {out(a) : a \in Accounts}
    BY <1>2, Zenon DEF Shape, IsPool
  <1>4. ASSUME NEW a \in Accounts
        PROVE  /\ left(a) \ gapped(a) = P.pending[a] \ (out(a) \cup back(a))
               /\ out(a) \subseteq P.pending[a] /\ back(a) \subseteq P.pending[a]
               /\ out(a) \cap back(a) = {}
    <2>1. /\ old(a) \subseteq P.pending[a] /\ drop(a) \subseteq live(a)
          /\ inv(a) \subseteq live(a) \ drop(a) /\ gapped(a) \subseteq left(a)
      BY Zenon DEF Forward, Unpayable, Following
    <2> HIDE DEF old, drop, inv, gapped
    <2> QED BY <2>1, Zenon
  <1>5. T = UNION {back(a) : a \in Accounts}
    BY Zenon
  <1> HIDE DEF out, back, P1, T, left, gapped
  <1>6. \A a \in Accounts : P1.pending[a] = P.pending[a] \ (out(a) \cup back(a))
    BY <1>3, <1>4, Zenon
  <1>7. \A a \in Accounts : /\ P.pending[a] \in SUBSET Txs
                            /\ P.pending[a] \cap P.queue[a] = {}
                            /\ \A t \in P.pending[a] : From[t] = a
    BY <1>2, Zenon DEF Shape, In
  <1>8. Shape(P1)
    <2>1. P1.pending \in [Accounts -> SUBSET Txs]
      BY <1>3, <1>6, <1>7
    <2>2. P1.queue \in [Accounts -> SUBSET Txs] /\ P1.all \in SUBSET Txs
      BY <1>2, <1>3, Zenon DEF Shape
    <2>3. \A a \in Accounts : /\ In(P1, a) \subseteq In(P, a)
                              /\ P1.pending[a] \cap P1.queue[a] = {}
      BY <1>3, <1>6, <1>7 DEF In
    <2> QED BY <1>2, <1>3, <2>1, <2>2, <2>3, Shrink, Zenon
  <1>9. T \in SUBSET Txs /\ \A a \in Accounts : Of(T, a) = back(a)
    <2>1. \A a \in Accounts : \A t \in back(a) : From[t] = a /\ t \in Txs
      BY <1>4, <1>7, Zenon
    <2> QED BY <1>5, <2>1 DEF Of
  <1>10. \A a \in Accounts : OneEach(Of(T, a))
    BY <1>2, <1>4, <1>9 DEF OneEach, Shape, In
  <1>11. ASSUME NEW t \in T PROVE SameNonce(P1.pending[From[t]], t) = {}
    <2> DEFINE a == From[t]
    <2>1. a \in Accounts /\ t \in back(a) /\ t \in P.pending[a]
      BY <1>4, <1>5, <1>7, <1>11
    <2>2. ASSUME NEW u \in P1.pending[a], Nonce[u] = Nonce[t] PROVE FALSE
      <3>1. u \in P.pending[a] /\ u \notin back(a)
        BY <1>6, <2>1, <2>2, Zenon
      <3>2. u = t
        BY <1>2, <2>1, <2>2, <3>1, SameIsEqual, Zenon DEF In
      <3> QED BY <2>1, <3>1, <3>2, Zenon
    <2> QED BY <2>2, Zenon DEF SameNonce
  <1>12. \A t \in Txs : t \in P1.all <=> t \in P.all /\ t \notin out(From[t])
    <2>1. \A a \in Accounts : \A t \in out(a) : From[t] = a
      BY <1>4, <1>7, Zenon
    <2>2. \A t \in Txs : From[t] \in Accounts
      BY TxPoolAssumption
    <2> QED BY <1>3, <2>1, <2>2
  <1>13. ASSUME NEW t \in Txs, t \in In(P1, From[t]) PROVE t \in P1.all
    <2>1. From[t] \in Accounts /\ (t \in P.all <=> t \in In(P, From[t]))
      BY TxPoolAssumption DEF Sound
    <2> QED BY <1>3, <1>4, <1>6, <1>7, <1>12, <1>13, <2>1 DEF In
  <1>14. ASSUME NEW t \in P1.all
         PROVE  \/ t \in In(P1, From[t])
                \/ t \in Inserted(P1.queue[From[t]], Of(T, From[t]))
    <2> DEFINE a == From[t]
    <2>1. /\ t \in Txs /\ a \in Accounts /\ t \in In(P, a) /\ t \notin out(a)
      BY <1>8, <1>12, <1>14, TxPoolAssumption, Zenon DEF Sound, Shape
    <2>2. CASE t \in back(a)
      <3>1. t \in Of(T, a) /\ t \in P.pending[a]
        BY <1>4, <1>9, <2>1, <2>2, Zenon
      <3>2. ASSUME NEW u \in P.queue[a], Nonce[u] = Nonce[t] PROVE FALSE
        <4>1. u = t
          BY <1>2, <2>1, <3>2, SameIsEqual, Zenon DEF In
        <4> QED BY <4>1, <3>2, <3>1, <1>7, <2>1, Zenon
      <3> QED BY <3>1, <3>2, <1>3, Zenon DEF Inserted, SameNonce
    <2>3. CASE t \notin back(a)
      BY <1>3, <1>6, <2>1, <2>3 DEF In
    <2> QED BY <2>2, <2>3, Zenon
  <1> QED BY <1>1, <1>8, <1>9, <1>10, <1>11, <1>13, <1>14, EnqueueSound, Zenon

-----------------------------------------------------------------------------
(* The actions. *)

\* a caller that is adding has a transaction left to add
CallerOK(r) ==
    /\ DOMAIN r = {"pc", "n", "todo", "known", "errs", "dirty"}
    /\ r.todo \in Seq(Txs)
    /\ r.pc \in {"lock", "add"} => r.todo # <<>>

CallersOK ==
    /\ DOMAIN caller = Callers
    /\ \A c \in Callers : CallerOK(caller[c])

IInv == Sound(pool) /\ CallersOK

\* A new table of nonces leaves the lists alone.
LEMMA NoncesSound ==
  ASSUME NEW P, Sound(P), NEW n
  PROVE  Sound([P EXCEPT !.nonces = n])
  <1> DEFINE Q == [P EXCEPT !.nonces = n]
  <1>1. Shape(P)
    BY DEF Sound
  <1>2. IsPool(Q) /\ Q.pending = P.pending /\ Q.queue = P.queue /\ Q.all = P.all
    BY <1>1, Zenon DEF Shape, IsPool
  <1> HIDE DEF Q
  <1>3. Shape(Q)
    BY <1>1, <1>2, Zenon DEF Shape, In
  <1>4. \A t \in Txs : t \in Q.all <=> t \in In(Q, From[t])
    BY <1>2, Zenon DEF Sound, In
  <1> QED BY <1>3, <1>4, Zenon DEF Sound, Q

\* add as a whole: room is made, then the transaction is inserted.
LEMMA AddResultSound ==
  ASSUME Sound(pool), NEW t \in Txs, NEW D
  PROVE  Sound(AddResult(t, D).pool)
  BY RemoveTxSound, InsertSound, Zenon DEF AddResult

\* Waking callers changes nothing but where they stand.
LEMMA MoveOK ==
  ASSUME CallersOK, NEW from, NEW to, to \notin {"lock", "add"}, caller' = Move(from, to)
  PROVE  CallersOK'
  <1> SUFFICES ASSUME NEW c \in Callers PROVE CallerOK(caller'[c])
    BY Zenon DEF CallersOK, Move
  <1>1. caller'[c] = IF caller[c].pc \in from THEN [caller[c] EXCEPT !.pc = to] ELSE caller[c]
    BY Zenon DEF Move
  <1>2. CallerOK(caller[c])
    BY Zenon DEF CallersOK
  <1> QED BY <1>1, <1>2, Zenon DEF CallerOK

\* A call begins: its transactions are remembered, none is listed yet.
LEMMA AddTxsInv == ASSUME IInv, NEW c \in Callers, AddTxs(c) PROVE IInv'
  <1>1. Sound(pool)'
    BY Zenon DEF IInv, AddTxs, poolVars
  <1>2. ASSUME NEW d \in Callers PROVE CallerOK(caller'[d])
    <2> DEFINE txs == Batches[c][caller[c].n + 1].txs
    <2>1. CallerOK(caller[d]) /\ txs \in Seq(Txs)
      <3> DEFINE i == caller[c].n + 1
      <3>1. i \in DOMAIN Batches[c] /\ Batches[c] \in Seq([txs : Seq(Txs), local : BOOLEAN])
        BY TxPoolAssumption, Zenon DEF AddTxs
      <3> HIDE DEF i
      <3>2. Batches[c][i] \in [txs : Seq(Txs), local : BOOLEAN]
        <4> DEFINE R == [txs : Seq(Txs), local : BOOLEAN]
        <4> HIDE DEF R
        <4>1. ASSUME NEW s \in Seq(R), NEW j \in DOMAIN s PROVE s[j] \in R
          OBVIOUS
        <4> QED BY <3>1, <4>1, Zenon DEF R
      <3>3. Batches[c][i].txs \in Seq(Txs)
        BY <3>2, Zenon
      <3>4. CallerOK(caller[d])
        BY Zenon DEF IInv, CallersOK
      <3> QED BY <3>3, <3>4, Zenon DEF i
    <2>2. CASE d # c
      BY <2>1, <2>2, Zenon DEF AddTxs, IInv, CallersOK
    <2>3. CASE d = c
      <3>1. /\ DOMAIN caller'[c] = DOMAIN caller[c]
            /\ caller'[c].pc = IF Range(txs) \subseteq pool.all THEN "idle" ELSE "lock"
            /\ caller'[c].todo = txs
        BY <2>1, <2>3, Zenon DEF AddTxs, IInv, CallersOK, CallerOK
      <3>2. txs = <<>> => Range(txs) \subseteq pool.all
        BY DEF Range
      <3> HIDE DEF txs
      <3> QED BY <2>1, <2>3, <3>1, <3>2, Zenon DEF CallerOK
    <2> QED BY <2>2, <2>3, Zenon
  <1>3. DOMAIN caller' = Callers
    BY Zenon DEF AddTxs, IInv, CallersOK
  <1> QED BY <1>1, <1>2, <1>3, Zenon DEF IInv, CallersOK

\* A caller adds its next transaction.
LEMMA AddTxInv == ASSUME IInv, NEW c \in Callers, AddTx(c) PROVE IInv'
  <1> DEFINE t == Head(caller[c].todo)
             last == Len(caller[c].todo) = 1
  <1>1. CallerOK(caller[c]) /\ caller[c].pc \in {"lock", "add"}
    BY Zenon DEF AddTx, IInv, CallersOK
  <1>2. t \in Txs /\ Tail(caller[c].todo) \in Seq(Txs)
    BY <1>1 DEF CallerOK
  <1>3. ~last => Tail(caller[c].todo) # <<>>
    <2> DEFINE s == caller[c].todo
    <2>1. s \in Seq(Txs) /\ s # <<>>
      BY <1>1, Zenon DEF CallerOK
    <2> HIDE DEF s
    <2>2. Len(s) \in Nat /\ Len(s) # 0 /\ Len(Tail(s)) = Len(s) - 1
      BY <2>1
    <2>3. Len(s) # 1 => Tail(s) # <<>>
      BY <2>2
    <2> QED BY <2>3, Zenon DEF s
  <1>4. Sound(pool)'
    <2>1. pool' = pool \/ \E D : pool' = AddResult(t, D).pool
      BY Zenon DEF AddTx
    <2> QED BY <1>2, <2>1, AddResultSound, Zenon DEF IInv
  <1>5. PICK D, E : caller' = [caller EXCEPT
                        ![c].pc = IF last THEN "request" ELSE "add",
                        ![c].todo = Tail(@),
                        ![c].errs = E,
                        ![c].dirty = @ \cup D]
    BY ZenonT(30) DEF AddTx
  <1>6. DOMAIN caller' = Callers
    BY <1>5, Zenon DEF IInv, CallersOK
  <1>7. ASSUME NEW d \in Callers PROVE CallerOK(caller'[d])
    <2>1. CallerOK(caller[d])
      BY DEF IInv, CallersOK
    <2>2. CASE d # c
      BY <1>5, <2>1, <2>2, Zenon DEF IInv, CallersOK
    <2>3. CASE d = c
      <3>1. /\ DOMAIN caller'[c] = DOMAIN caller[c]
            /\ caller'[c].pc = IF last THEN "request" ELSE "add"
            /\ caller'[c].todo = Tail(caller[c].todo)
        BY <1>1, <1>5, Zenon DEF IInv, CallersOK, CallerOK
      <3> QED BY <1>1, <1>2, <1>3, <2>3, <3>1, Zenon DEF CallerOK
    <2> QED BY <2>2, <2>3
  <1> QED BY <1>4, <1>6, <1>7, Zenon DEF IInv, CallersOK

\* A caller asks for a run.
LEMMA RequestPromoteInv ==
  ASSUME IInv, NEW c \in Callers, RequestPromoteExecutables(c) PROVE IInv'
  <1>1. Sound(pool)'
    BY Zenon DEF IInv, RequestPromoteExecutables, poolVars
  <1>2. PICK pc \in {"next", "idle"} : caller' = [caller EXCEPT ![c].pc = pc]
    <2>1. \/ caller' = [caller EXCEPT ![c].pc = IF Call(c).local THEN "next" ELSE "idle"]
          \/ caller' = [caller EXCEPT ![c].pc = "idle"]
      BY DEF RequestPromoteExecutables
    <2>2. \/ caller' = [caller EXCEPT ![c].pc = "next"]
          \/ caller' = [caller EXCEPT ![c].pc = "idle"]
      BY <2>1, Zenon
    <2> QED BY <2>2, Zenon
  <1>3. ASSUME NEW d \in Callers PROVE CallerOK(caller'[d])
    <2>1. CallerOK(caller[d])
      BY Zenon DEF IInv, CallersOK
    <2> QED BY <1>2, <2>1, Zenon DEF IInv, CallersOK, CallerOK
  <1> QED BY <1>1, <1>2, <1>3, Zenon DEF IInv, CallersOK

\* The steps of runReorg after it took mu: none touches the callers.
LEMMA RunInv ==
  ASSUME IInv,
         \/ RunLock \/ (\E t \in Txs : ReinjectOne(t)) \/ PromoteExecutables
         \/ DemoteUnexecutables \/ Truncate \/ RunUnlock
  PROVE  IInv'
  <1>1. CASE RunLock
    BY <1>1, NoncesSound DEF IInv, CallersOK, RunLock
  <1>2. CASE \E t \in Txs : ReinjectOne(t)
    <2>1. PICK t \in Txs : ReinjectOne(t)
      BY <1>2, Zenon
    <2>2. caller' = caller /\ (pool' = pool \/ \E D : pool' = AddResult(t, D).pool)
      BY <2>1, Zenon DEF ReinjectOne
    <2> QED BY <2>2, AddResultSound, Zenon DEF IInv, CallersOK
  <1>3. CASE PromoteExecutables
    <2>1. caller' = caller /\ \E A : pool' = Promote(pool, A)
      BY <1>3, Zenon DEF PromoteExecutables
    <2> QED BY <2>1, PromoteSound, Zenon DEF IInv, CallersOK
  <1>4. CASE DemoteUnexecutables
    BY <1>4, DemoteSound, Zenon DEF IInv, CallersOK, DemoteUnexecutables
  <1>5. CASE Truncate
    <2>1. caller' = caller /\ TruncateStep
      BY <1>5, Zenon DEF Truncate
    <2>2. CASE Spammers
      BY <2>1, <2>2, Zenon DEF Spammers, IInv, CallersOK
    <2>3. CASE TruncatePending
      <3>1. pool' = pool \/ \E A : pool' = CapOne(pool, A)
        BY <2>3, Zenon DEF TruncatePending, Truncates
      <3> QED BY <2>1, <3>1, CapOneSound, Zenon DEF IInv, CallersOK
    <2>4. CASE \E a \in Accounts : TruncateQueue(a)
      <3>1. \E D : pool' = RemoveTx(pool, D)
        BY <2>4, Zenon DEF TruncateQueue
      <3> QED BY <2>1, <3>1, RemoveTxSound, Zenon DEF IInv, CallersOK
    <2> QED BY <2>1, <2>2, <2>3, <2>4, Zenon DEF TruncateStep
  <1>6. CASE RunUnlock
    <2>1. caller' = caller /\ \E n : pool' = [pool EXCEPT !.nonces = n]
      BY <1>6, Zenon DEF RunUnlock
    <2> QED BY <2>1, NoncesSound DEF IInv, CallersOK
  <1> QED BY <1>1, <1>2, <1>3, <1>4, <1>5, <1>6, Zenon

\* The pool starts empty, with every caller idle.
LEMMA InitInv == Init => IInv
  <1> SUFFICES ASSUME Init PROVE IInv
    BY Zenon
  <1>1. Sound(pool)
    BY TxPoolAssumption, Zenon DEF Init, Sound, Shape, IsPool, In, OneEach
  <1>2. CallersOK
    <2>1. /\ DOMAIN caller = Callers
          /\ \A c \in Callers :
               caller[c] = [pc |-> "idle", n |-> 0, todo |-> <<>>, known |-> {}, errs |-> {},
                            dirty |-> {}]
      BY Zenon DEF Init
    <2>2. \A c \in Callers : caller[c].todo \in Seq(Txs) /\ caller[c].pc = "idle"
      <3>1. <<>> \in Seq(Txs)
        OBVIOUS
      <3>2. \A c \in Callers : caller[c].todo = <<>> /\ caller[c].pc = "idle"
        <4> SUFFICES ASSUME NEW c \in Callers
                     PROVE  caller[c].todo = <<>> /\ caller[c].pc = "idle"
          BY Zenon
        <4>1. caller[c] = [pc |-> "idle", n |-> 0, todo |-> <<>>, known |-> {}, errs |-> {},
                            dirty |-> {}]
          BY <2>1, Zenon
        <4> QED BY <4>1
      <3> QED BY <3>1, <3>2, Zenon
    <2>3. DOMAIN [pc |-> "idle", n |-> 0, todo |-> <<>>, known |-> {}, errs |-> {},
                            dirty |-> {}]
            = {"pc", "n", "todo", "known", "errs", "dirty"}
      BY Zenon
    <2> QED BY <2>1, <2>2, <2>3, Zenon DEF CallersOK, CallerOK
  <1> QED BY <1>1, <1>2, Zenon DEF IInv

\* Every step preserves the invariant: one case per action of Next.
LEMMA NextInv == IInv /\ [Next]_vars => IInv'
  <1> SUFFICES ASSUME IInv, [Next]_vars PROVE IInv'
    BY Zenon
  <1>1. CASE \E c \in Callers : AddTxs(c) \/ AddTx(c) \/ RequestPromoteExecutables(c)
    BY <1>1, AddTxsInv, AddTxInv, RequestPromoteInv, Zenon
  <1>2. CASE \E price \in PriceLimits : SetGasPrice(price)
    BY <1>2, RemoveTxSound, Zenon DEF IInv, CallersOK, SetGasPrice
  <1>3. CASE \E b \in Blocks : HeadEvent(b)
    BY <1>3, Zenon DEF IInv, CallersOK, HeadEvent, poolVars
  <1>4. CASE RequestReset
    BY <1>4, Zenon DEF IInv, CallersOK, RequestReset, poolVars
  <1>5. CASE \E A \in SUBSET (Accounts \ locals) : A # {} /\ Evict(A)
    BY <1>5, RemoveTxSound, Zenon DEF IInv, CallersOK, Evict
  <1>6. CASE Stop
    BY <1>6, Zenon DEF IInv, CallersOK, Stop, poolVars
  <1>7. CASE Launch
    BY <1>7, MoveOK DEF IInv, Launch, poolVars
  <1>8. CASE RunDone \/ Shutdown
    BY <1>8, Zenon DEF IInv, CallersOK, RunDone, Shutdown, poolVars
  <1>9. CASE ShutdownDone
    BY <1>9, MoveOK DEF IInv, ShutdownDone, poolVars
  <1>10. CASE RunReorg
    <2>1. CASE Send
      <3>1. caller' = Move({"cur"}, "idle") /\ pool' = pool
        BY <2>1, Zenon DEF Send, poolVars
      <3>2. CallersOK'
        BY <3>1, MoveOK DEF IInv
      <3> QED BY <3>1, <3>2, Zenon DEF IInv
    <2> QED BY <1>10, <2>1, RunInv, Zenon DEF RunReorg
  <1>11. CASE UNCHANGED vars
    BY <1>11, Zenon DEF IInv, CallersOK, vars, poolVars
  <1> QED
    BY <1>1, <1>2, <1>3, <1>4, <1>5, <1>6, <1>7, <1>8, <1>9, <1>10, <1>11, Zenon
    DEF Next, ScheduleReorgLoop

\* The inductive invariant implies the property that is checked.
LEMMA SoundImpliesMatch == Sound(pool) => ListsMatchLookup
  <1> SUFFICES ASSUME Sound(pool) PROVE ListsMatchLookup
    BY Zenon
  <1>1. Shape(pool)
    BY Zenon DEF Sound
  <1>2. \A a \in Accounts : In(pool, a) \subseteq Txs /\ \A t \in In(pool, a) : From[t] = a
    BY <1>1, Zenon DEF Shape, In
  <1>3. \A t \in Listed(pool) : t \in Txs /\ From[t] \in Accounts /\ t \in In(pool, From[t])
    BY <1>2, Zenon DEF Listed, In
  <1>4. \A t \in Txs : From[t] \in Accounts /\ (t \in In(pool, From[t]) => t \in Listed(pool))
    BY TxPoolAssumption, Zenon DEF Listed, In
  <1>5. pool.all \subseteq Txs
    BY <1>1, Zenon DEF Shape
  <1>6. pool.all = Listed(pool)
    BY <1>3, <1>4, <1>5, Zenon DEF Sound
  <1>7. \A a \in Accounts : pool.pending[a] \cap pool.queue[a] = {}
    BY <1>1, Zenon DEF Shape
  <1>8. \A t, u \in Listed(pool) : From[t] = From[u] /\ Nonce[t] = Nonce[u] => t = u
    BY <1>1, <1>3, SameIsEqual, Zenon
  <1> QED BY <1>6, <1>7, <1>8, Zenon DEF ListsMatchLookup

\* For any accounts, transactions, chain, limits and callers: the lookup holds
\* exactly what the two lists hold, no transaction is in both lists, and no
\* account has two for one nonce, whatever adds, removals, promotions,
\* demotions and truncations interleave.
THEOREM PoolListsMatchLookup == Spec => []ListsMatchLookup
  <1>1. Init => IInv
    BY InitInv, Zenon
  <1>2. IInv /\ [Next]_vars => IInv'
    BY NextInv, Zenon
  <1>3. IInv => ListsMatchLookup
    BY SoundImpliesMatch, Zenon DEF IInv
  <1> QED BY <1>1, <1>2, <1>3, PTL DEF Spec

-----------------------------------------------------------------------------
(* Requests. *)

Target(R) == (CHOOSE r \in R : TRUE).new

\* a head is in the channel, or in the request that waits, or in the one the
\* active run has not applied yet, or the state is opened at it; a caller that
\* waits has a run due or under way
Served ==
    /\ headCh \in Seq(Blocks)
    /\ current = IF headCh = <<>> THEN head ELSE headCh[Len(headCh)]
    /\ head = IF reset # {} THEN Target(reset)
              ELSE IF run.pc = "lock" /\ run.reset # {} THEN Target(run.reset)
              ELSE state
    /\ reset # {} => launch
    /\ DOMAIN run = {"pc", "reset", "dirty", "events", "todo"}
    /\ \A c \in Callers : caller[c].pc = "next" => launch
    /\ \A c \in Callers : caller[c].pc = "cur" => run.pc \notin {"none", "done"}

\* Neither the chain nor the loop moves while callers add transactions.
LEMMA CallersServed ==
  ASSUME Served, CallersOK, NEW c \in Callers,
         AddTxs(c) \/ AddTx(c) \/ RequestPromoteExecutables(c)
  PROVE  Served'
  <1>1. /\ UNCHANGED <<headCh, current, head, reset, run, state>>
        /\ launch => launch'
    <2>1. CASE AddTxs(c)
      BY <2>1, Zenon DEF AddTxs, chainVars, poolVars, loopVars, runVars
    <2>2. CASE AddTx(c)
      BY <2>2, Zenon DEF AddTx, chainVars, runVars
    <2>3. CASE RequestPromoteExecutables(c)
      BY <2>3 DEF RequestPromoteExecutables, chainVars, poolVars, runVars
    <2> QED BY <2>1, <2>2, <2>3, Zenon
  <1>2. \A d \in Callers \ {c} : caller'[d] = caller[d]
    BY Zenon DEF AddTxs, AddTx, RequestPromoteExecutables, CallersOK
  <1>3. /\ caller'[c].pc # "cur"
        /\ caller'[c].pc = "next" => launch'
    <2>1. CallerOK(caller[c])
      BY Zenon DEF CallersOK
    <2>2. CASE AddTxs(c)
      <3>1. caller'[c].pc \in {"idle", "lock"}
        BY <2>1, <2>2, Zenon DEF AddTxs, CallersOK, CallerOK
      <3> QED BY <3>1, Zenon
    <2>3. CASE AddTx(c)
      <3>1. PICK D, E : caller' = [caller EXCEPT
                        ![c].pc = IF Len(caller[c].todo) = 1 THEN "request" ELSE "add",
                        ![c].todo = Tail(@),
                        ![c].errs = E,
                        ![c].dirty = @ \cup D]
        BY <2>3, ZenonT(30) DEF AddTx
      <3>2. caller'[c].pc \in {"request", "add"}
        BY <2>1, <3>1, Zenon DEF CallersOK, CallerOK
      <3> QED BY <3>2, Zenon
    <2>4. CASE RequestPromoteExecutables(c)
      BY <2>1, <2>4 DEF RequestPromoteExecutables, CallersOK, CallerOK
    <2> QED BY <2>2, <2>3, <2>4, Zenon
  <1> QED BY <1>1, <1>2, <1>3, Zenon DEF Served

\* What Move does to one caller.
LEMMA MovePc ==
  ASSUME CallersOK, NEW from, NEW to, caller' = Move(from, to), NEW c \in Callers
  PROVE  caller'[c].pc = IF caller[c].pc \in from THEN to ELSE caller[c].pc
  BY Zenon DEF Move, CallersOK, CallerOK

\* runReorg opens the state of its request, and wakes its callers as it ends.
LEMMA RunServed ==
  ASSUME Served, CallersOK, RunReorg
  PROVE  Served'
  <1>1. UNCHANGED <<headCh, current, head, reset, launch>>
    BY Zenon DEF RunReorg, RunLock, ReinjectOne, PromoteExecutables, DemoteUnexecutables, Truncate,
       RunUnlock, Send, chainVars, loopVars
  <1>2. CASE RunLock
    <2>1. run'.pc \in {"promote", "reinject"} /\ DOMAIN run' = DOMAIN run
      BY <1>2, Zenon DEF RunLock, Served
    <2>2. state' = IF run.reset = {} THEN state ELSE Target(run.reset)
      BY <1>2, Zenon DEF RunLock, Target
    <2>3. caller' = caller /\ run.pc = "lock"
      BY <1>2, Zenon DEF RunLock
    <2> QED BY <1>1, <2>1, <2>2, <2>3, Zenon DEF Served
  <1>3. CASE \/ \E t \in Txs : ReinjectOne(t)
             \/ PromoteExecutables \/ DemoteUnexecutables \/ Truncate \/ RunUnlock
    <2>1. state' = state /\ caller' = caller
      BY <1>3, Zenon DEF ReinjectOne, PromoteExecutables, DemoteUnexecutables, Truncate, RunUnlock
    <2>2. /\ run.pc # "lock"
          /\ DOMAIN run' = DOMAIN run
          /\ run'.pc \notin {"lock", "none", "done"}
      BY <1>3, Zenon DEF Served, ReinjectOne, PromoteExecutables, DemoteUnexecutables, Truncate,
         TruncateStep, Spammers, TruncatePending, Truncates, TruncateQueue, RunUnlock, runVars
    <2> QED BY <1>1, <2>1, <2>2, Zenon DEF Served
  <1>4. CASE Send
    <2>1. /\ run.pc = "send" /\ state' = state
          /\ run' = [pc |-> "done", reset |-> {}, dirty |-> {}, events |-> {}, todo |-> {}]
          /\ caller' = Move({"cur"}, "idle")
      BY <1>4, Zenon DEF Send, poolVars
    <2>2. DOMAIN run' = {"pc", "reset", "dirty", "events", "todo"} /\ run'.pc = "done"
      BY <2>1, Zenon
    <2>3. \A c \in Callers : caller'[c].pc = IF caller[c].pc = "cur" THEN "idle" ELSE caller[c].pc
      BY <2>1, MovePc
    <2> QED BY <1>1, <2>1, <2>2, <2>3, Zenon DEF Served
  <1> QED BY <1>2, <1>3, <1>4, Zenon DEF RunReorg

\* Every step keeps track of the head and of the waiting callers.
LEMMA NextServed == Served /\ CallersOK /\ [Next]_vars => Served'
  <1> SUFFICES ASSUME Served, CallersOK, [Next]_vars PROVE Served'
    BY Zenon
  <1>1. CASE \E c \in Callers : AddTxs(c) \/ AddTx(c) \/ RequestPromoteExecutables(c)
    BY <1>1, CallersServed, Zenon
  <1>2. CASE \/ \E price \in PriceLimits : SetGasPrice(price)
             \/ \E A \in SUBSET (Accounts \ locals) : A # {} /\ Evict(A)
             \/ Stop
             \/ Shutdown
             \/ UNCHANGED vars
    <2>1. UNCHANGED <<headCh, current, head, reset, launch, run, state, caller>>
      BY <1>2, Zenon DEF SetGasPrice, Evict, Stop, Shutdown, vars, chainVars, poolVars, loopVars,
         runVars
    <2> QED BY <2>1, Zenon DEF Served
  <1>3. ASSUME NEW b \in Blocks, HeadEvent(b) PROVE Served'
    <2>1. UNCHANGED <<head, reset, launch, run, state, caller>>
      BY <1>3, Zenon DEF HeadEvent, poolVars, loopVars, runVars
    <2>2. /\ current' = b /\ headCh' = Append(headCh, b)
          /\ headCh' \in Seq(Blocks) /\ headCh' # <<>> /\ headCh'[Len(headCh')] = b
      BY <1>3 DEF HeadEvent, Served
    <2> QED BY <2>1, <2>2, Zenon DEF Served
  <1>4. CASE RequestReset
    <2>1. UNCHANGED <<current, run, state, caller>> /\ launch'
      BY <1>4, Zenon DEF RequestReset, poolVars, runVars
    <2>2. /\ headCh # <<>> /\ head' = Head(headCh) /\ headCh' = Tail(headCh)
          /\ \E o : reset' = {[old |-> o, new |-> Head(headCh)]}
      BY <1>4, Zenon DEF RequestReset
    <2>3. reset' # {} /\ Target(reset') = Head(headCh)
      <3> DEFINE request(o) == [old |-> o, new |-> Head(headCh)]
      <3>1. PICK o : reset' = {request(o)}
        BY <2>2, Zenon
      <3>2. request(o).new = Head(headCh)
        BY Zenon
      <3> HIDE DEF request
      <3>3. (CHOOSE r \in {request(o)} : TRUE) = request(o)
        BY Zenon
      <3> QED BY <3>1, <3>2, <3>3, Zenon DEF Target
    <2>4. /\ headCh' \in Seq(Blocks)
          /\ headCh[Len(headCh)] = IF Tail(headCh) = <<>> THEN Head(headCh)
                                   ELSE Tail(headCh)[Len(Tail(headCh))]
      <3>1. headCh \in Seq(Blocks) /\ headCh # <<>>
        BY <2>2, Zenon DEF Served
      <3>2. Tail(headCh) \in Seq(Blocks) /\ Len(headCh) \in Nat \ {0}
            /\ Len(Tail(headCh)) = Len(headCh) - 1
        BY <3>1
      <3>3. CASE Len(headCh) = 1
        <4>1. ASSUME NEW s \in Seq(Blocks), Len(s) = 0 PROVE s = <<>>
          BY <4>1
        <4>2. Len(Tail(headCh)) = 0
          BY <3>2, <3>3
        <4>3. Tail(headCh) = <<>>
          BY <3>2, <4>1, <4>2, Zenon
        <4>4. headCh[1] = Head(headCh)
          BY <3>1
        <4> QED BY <2>2, <3>2, <3>3, <4>3, <4>4, Zenon
      <3>4. CASE Len(headCh) > 1
        <4>1. Tail(headCh)[Len(headCh) - 1] = headCh[Len(headCh)] /\ Tail(headCh) # <<>>
          BY <3>1, <3>2, <3>4
        <4> QED BY <2>2, <3>2, <4>1, Zenon
      <3> QED BY <2>2, <3>2, <3>3, <3>4
    <2> QED BY <2>1, <2>2, <2>3, <2>4, Zenon DEF Served
  <1>5. CASE Launch
    <2>1. /\ UNCHANGED <<headCh, current, head, state>>
          /\ run.pc = "none" /\ reset' = {}
          /\ caller' = Move({"next"}, "cur")
          /\ run' = [pc |-> "lock", reset |-> reset, dirty |-> dirty, events |-> events,
                     todo |-> {}]
      BY <1>5, Zenon DEF Launch, chainVars, poolVars
    <2>2. DOMAIN run' = {"pc", "reset", "dirty", "events", "todo"} /\ run'.pc = "lock"
          /\ run'.reset = reset
      BY <2>1, Zenon
    <2>3. \A c \in Callers : caller'[c].pc = IF caller[c].pc = "next" THEN "cur" ELSE caller[c].pc
      BY <2>1, MovePc
    <2> QED BY <2>1, <2>2, <2>3, Zenon DEF Served
  <1>6. CASE RunDone
    <2>1. UNCHANGED <<headCh, current, head, reset, launch, state, caller>>
      BY <1>6, Zenon DEF RunDone, chainVars, poolVars, loopVars
    <2>2. run.pc = "done" /\ run'.pc = "none" /\ DOMAIN run' = DOMAIN run
      BY <1>6, Zenon DEF RunDone, Served
    <2> QED BY <2>1, <2>2, Zenon DEF Served
  <1>7. CASE ShutdownDone
    <2>1. UNCHANGED <<headCh, current, head, reset, launch, run, state>>
      BY <1>7, Zenon DEF ShutdownDone, chainVars, poolVars, runVars
    <2>2. \A c \in Callers : caller'[c].pc = IF caller[c].pc = "next" THEN "idle" ELSE caller[c].pc
      BY <1>7, MovePc DEF ShutdownDone
    <2> QED BY <2>1, <2>2, Zenon DEF Served
  <1> QED
    BY <1>1, <1>2, <1>3, <1>4, <1>5, <1>6, <1>7, RunServed, Zenon DEF Next, ScheduleReorgLoop

\* For any chain, callers and requests: no reset and no waiting caller is lost
\* when scheduleReorgLoop merges requests that arrive during a run.
THEOREM RequestsServed == Spec => []ServedOnHead
  <1>1. Init => Served
    <2> SUFFICES ASSUME Init PROVE Served
      OBVIOUS
    <2>1. run = [pc |-> "none", reset |-> {}, dirty |-> {}, events |-> {}, todo |-> {}]
      BY Zenon DEF Init
    <2>2. DOMAIN run = {"pc", "reset", "dirty", "events", "todo"} /\ run.pc = "none"
      BY <2>1, Zenon
    <2>3. \A c \in Callers : caller[c].pc = "idle"
      BY Zenon DEF Init
    <2>4. /\ headCh = <<>> /\ head = Genesis /\ current = Genesis /\ state = Genesis
          /\ reset = {} /\ headCh \in Seq(Blocks)
      BY DEF Init
    <2> QED BY <2>2, <2>3, <2>4, Zenon DEF Served
  <1>2. Served /\ CallersOK /\ [Next]_vars => Served'
    BY NextServed, Zenon
  <1>3. Served => ServedOnHead
    BY Zenon DEF Served, ServedOnHead, Quiet
  <1>4. (Init => IInv) /\ (IInv /\ [Next]_vars => IInv') /\ (IInv => CallersOK)
    BY InitInv, NextInv, Zenon DEF IInv
  <1> QED BY <1>1, <1>2, <1>3, <1>4, PTL DEF Spec

-----------------------------------------------------------------------------
(* The bound on remote transactions. *)

\* the pool is finite, and within its limits up to local transactions
BoundInv == IsFiniteSet(pool.all) /\ RemoteBounded

\* Queuing adds to the lookup at most what is queued.
LEMMA EnqueueAll ==
  ASSUME NEW P, IsPool(P), NEW T
  PROVE  Enqueue(P, T).all \subseteq P.all \cup T
  <1> DEFINE gone == UNION {Replaced(P.queue[a], Of(T, a)) : a \in Accounts}
             new == UNION {Inserted(P.queue[a], Of(T, a)) : a \in Accounts}
  <1>1. Enqueue(P, T).all = (P.all \ gone) \cup new
    BY DEF Enqueue, IsPool
  <1>2. new \subseteq T
    BY Zenon DEF Inserted, Of
  <1> HIDE DEF gone, new
  <1> QED BY <1>1, <1>2, Zenon

\* A removal takes all it was asked for from the lookup, and adds nothing.
LEMMA RemoveTxAll ==
  ASSUME NEW P, Sound(P), NEW D
  PROVE  RemoveTx(P, D).all \subseteq P.all \ D
  <1> DEFINE known(a) == Of(D \cap P.all, a)
             hit(a) == {u \in P.pending[a] : SameNonce(known(a), u) # {}}
             inv(a) == Following(P.pending[a], hit(a))
             gone(a) == {u \in P.queue[a] : \E d \in known(a) :
                           Nonce[d] = Nonce[u] /\ SameNonce(P.pending[a], d) = {}}
             low(a) == {Nonce[u] : u \in hit(a)} \cup {P.nonces[a]}
             P1 == [pending |-> [a \in Accounts |-> P.pending[a] \ (hit(a) \cup inv(a))],
                    queue |-> [a \in Accounts |-> P.queue[a] \ gone(a)],
                    all |-> P.all \ D,
                    nonces |-> [a \in Accounts |->
                                  CHOOSE n \in low(a) : \A m \in low(a) : n <= m]]
             T == UNION {inv(a) \ D : a \in Accounts}
  <1>1. RemoveTx(P, D) = Enqueue(P1, T)
    BY Zenon DEF RemoveTx
  <1>2. IsPool(P1) /\ P1.all = P.all \ D
    BY DEF IsPool
  <1>3. \A a \in Accounts : inv(a) \subseteq P.pending[a]
    BY Zenon DEF Following
  <1>4. \A a \in Accounts : \A t \in P.pending[a] : t \in P.all
    BY Zenon DEF Sound, Shape, In
  <1> HIDE DEF inv, P1
  <1>5. T \subseteq P.all \ D
    BY <1>3, <1>4, Zenon
  <1> HIDE DEF T
  <1> QED BY <1>1, <1>2, <1>5, EnqueueAll, Zenon

\* Demotion moves or drops.
LEMMA DemoteAll ==
  ASSUME NEW P, Sound(P)
  PROVE  Demote(P).all \subseteq P.all
  <1> DEFINE old(a) == Forward(P.pending[a], GetNonce[state][a])
             live(a) == P.pending[a] \ old(a)
             drop(a) == Unpayable(live(a), GetBalance[state][a])
             inv(a) == Following(live(a), drop(a))
             left(a) == live(a) \ (drop(a) \cup inv(a))
             gapped(a) == IF \E t \in left(a) : Nonce[t] = GetNonce[state][a]
                          THEN {} ELSE left(a)
             P1 == [P EXCEPT
                      !.pending = [a \in Accounts |-> left(a) \ gapped(a)],
                      !.all = @ \ UNION {old(a) \cup drop(a) : a \in Accounts}]
             T == UNION {inv(a) \cup gapped(a) : a \in Accounts}
  <1>1. Demote(P) = Enqueue(P1, T)
    BY Zenon DEF Demote
  <1>2. IsPool(P1) /\ P1.all \subseteq P.all
    BY DEF Sound, Shape, IsPool
  <1>3. \A a \in Accounts : inv(a) \subseteq P.pending[a] /\ gapped(a) \subseteq P.pending[a]
    BY Zenon DEF Following
  <1>4. \A a \in Accounts : \A t \in P.pending[a] : t \in P.all
    BY Zenon DEF Sound, Shape, In
  <1> HIDE DEF inv, gapped, P1
  <1>5. T \subseteq P.all
    BY <1>3, <1>4, Zenon
  <1> HIDE DEF T
  <1> QED BY <1>1, <1>2, <1>5, EnqueueAll, Zenon

\* An insertion adds its transaction at most.
LEMMA InsertAll ==
  ASSUME NEW P, Sound(P), NEW t \in Txs
  PROVE  Insert(P, t).all \subseteq P.all \cup {t}
  <1>1. IsPool(P)
    BY Zenon DEF Sound, Shape
  <1>2. CASE Overlaps(P, t)
    <2> DEFINE old == Replaced(P.pending[From[t]], {t})
               new == Inserted(P.pending[From[t]], {t})
    <2>1. Insert(P, t).all = (P.all \ old) \cup new
      BY <1>1, <1>2 DEF Insert, IsPool
    <2>2. new \subseteq {t}
      BY Zenon DEF Inserted
    <2> HIDE DEF old, new
    <2> QED BY <2>1, <2>2, Zenon
  <1>3. CASE ~Overlaps(P, t)
    BY <1>1, <1>3, EnqueueAll, Zenon DEF Insert
  <1> QED BY <1>2, <1>3

\* A pool that loses transactions, or gets more local accounts, stays within
\* its bound.
LEMMA BoundShrinks ==
  ASSUME BoundInv, NEW P, NEW L, P.all \subseteq pool.all, locals \subseteq L
  PROVE  /\ IsFiniteSet(P.all)
         /\ Cardinality({t \in P.all : From[t] \notin L}) <= GlobalSlots + GlobalQueue
  <1> DEFINE R == {t \in pool.all : From[t] \notin locals}
             S == {t \in P.all : From[t] \notin L}
  <1>1. IsFiniteSet(pool.all) /\ Cardinality(R) <= GlobalSlots + GlobalQueue
    BY Zenon DEF BoundInv, RemoteBounded, Remote
  <1>2. R \in SUBSET pool.all /\ S \in SUBSET R /\ P.all \in SUBSET pool.all
    BY Zenon
  <1> HIDE DEF R, S
  <1>3. IsFiniteSet(R) /\ IsFiniteSet(P.all)
    BY <1>1, <1>2, FS_Subset, Zenon
  <1>4. IsFiniteSet(S) /\ Cardinality(S) <= Cardinality(R)
    BY <1>2, <1>3, FS_Subset, Zenon
  <1>5. Cardinality(S) \in Nat /\ Cardinality(R) \in Nat
    BY <1>3, <1>4, FS_CardinalityType, Zenon
  <1>6. GlobalSlots + GlobalQueue \in Nat
    BY TxPoolAssumption
  <1> QED BY <1>1, <1>3, <1>4, <1>5, <1>6 DEF S

\* Room is made for a transaction before it is inserted: either the pool is
\* not full, or Discard takes the excess and one more, or no remote one is left.
LEMMA AddBounded ==
  ASSUME Sound(pool), BoundInv, NEW t \in Txs, NEW D \in Discards(pool), NEW L,
         locals \subseteq L
  PROVE  LET P == AddResult(t, D).pool
         IN  /\ IsFiniteSet(P.all)
             /\ Cardinality({u \in P.all : From[u] \notin L}) <= GlobalSlots + GlobalQueue
  <1> DEFINE P == AddResult(t, D).pool
             S == {u \in P.all : From[u] \notin L}
             R == Remote(pool) \ D
             C == GlobalSlots + GlobalQueue
             N == Cardinality(pool.all)
  <1>1. C \in Nat \ {0}
    BY TxPoolAssumption
  <1>2. IsFiniteSet(pool.all) /\ Remote(pool) \in SUBSET pool.all
    BY Zenon DEF BoundInv, Remote
  <1>3. N \in Nat /\ IsFiniteSet(Remote(pool)) /\ Cardinality(Remote(pool)) <= N
    BY <1>2, FS_Subset, FS_CardinalityType, Zenon
  <1>4. P.all \subseteq (pool.all \ D) \cup {t}
    <2>1. RemoveTx(pool, D).all \subseteq pool.all \ D
      BY RemoveTxAll, Zenon
    <2>2. P = Insert(RemoveTx(pool, D), t)
      BY DEF AddResult
    <2>3. P.all \subseteq RemoveTx(pool, D).all \cup {t}
      BY <2>2, RemoveTxSound, InsertAll, Zenon
    <2> HIDE DEF P
    <2> QED BY <2>1, <2>3, Zenon
  <1> HIDE DEF P
  <1>5. S \subseteq R \cup {t}
    BY <1>4, Zenon DEF Remote
  <1>6. IsFiniteSet(P.all)
    <2>1. IsFiniteSet(pool.all \cup {t})
      BY <1>2, FS_AddElement, Zenon
    <2>2. P.all \in SUBSET (pool.all \cup {t})
      BY <1>4, Zenon
    <2> QED BY <2>1, <2>2, FS_Subset, Zenon
  <1> HIDE DEF S
  <1>7. IsFiniteSet(R) /\ Cardinality(R) \in Nat
        /\ Cardinality(R) = Cardinality(Remote(pool)) - Cardinality(Remote(pool) \cap D)
    BY <1>3, FS_Difference, FS_CardinalityType, Zenon
  <1>8. Cardinality(R) <= C - 1
    <2> DEFINE room == N - C + 1
    <2>1. Cardinality(Remote(pool)) \in Nat
      BY <1>3, FS_CardinalityType, Zenon
    <2>2. CASE ~Full(pool)
      <3>1. N < C
        BY <1>1, <1>3, <2>2 DEF Full
      <3>2. R \in SUBSET Remote(pool)
        BY Zenon
      <3>3. Cardinality(R) <= Cardinality(Remote(pool))
        BY <1>3, <3>2, FS_Subset, Zenon
      <3> QED BY <1>1, <1>3, <1>7, <2>1, <3>1, <3>3
    <2>3. CASE Full(pool)
      <3>1. /\ D \in SUBSET Remote(pool)
            /\ Cardinality(D) = room \/ D = Remote(pool)
        BY <2>3, Zenon DEF Discards
      <3>2. CASE D = Remote(pool)
        <4>1. R = {}
          BY <3>2, Zenon
        <4>2. Cardinality(R) = 0
          BY <4>1, FS_EmptySet, Zenon
        <4> QED BY <1>1, <4>2
      <3>3. CASE Cardinality(D) = room
        <4>1. Remote(pool) \cap D = D
          BY <3>1, Zenon
        <4>2. Cardinality(R) = Cardinality(Remote(pool)) - (N - C + 1)
          BY <1>7, <3>3, <4>1, Zenon
        <4> QED BY <1>1, <1>3, <2>1, <4>2
      <3> QED BY <3>1, <3>2, <3>3, Zenon
    <2> QED BY <2>2, <2>3, Zenon
  <1> HIDE DEF R, C, N
  <1>9. Cardinality(S) <= C
    <2>1. IsFiniteSet(R \cup {t}) /\ Cardinality(R \cup {t}) \in Nat
          /\ Cardinality(R \cup {t}) = IF t \in R THEN Cardinality(R) ELSE Cardinality(R) + 1
      BY <1>7, FS_AddElement, FS_CardinalityType, Zenon
    <2>2. Cardinality(R \cup {t}) <= C
      BY <1>1, <1>7, <1>8, <2>1
    <2>3. S \in SUBSET (R \cup {t})
      BY <1>5, Zenon
    <2>4. IsFiniteSet(S) /\ Cardinality(S) <= Cardinality(R \cup {t})
      BY <2>1, <2>3, FS_Subset, Zenon
    <2>5. Cardinality(S) \in Nat
      BY <2>4, FS_CardinalityType, Zenon
    <2> QED BY <1>1, <2>1, <2>2, <2>4, <2>5
  <1> QED BY <1>6, <1>9, Zenon DEF S, C, P

\* Every step keeps the bound: one case per operation on the pool.
LEMMA NextBound == IInv /\ BoundInv /\ [Next]_vars => BoundInv'
  <1> SUFFICES ASSUME IInv, BoundInv, [Next]_vars PROVE BoundInv'
    OBVIOUS
  <1>1. Sound(pool)
    BY Zenon DEF IInv
  <1>2. ASSUME pool'.all \subseteq pool.all, locals \subseteq locals'
        PROVE  BoundInv'
    <2>1. /\ IsFiniteSet(pool'.all)
          /\ Cardinality({t \in pool'.all : From[t] \notin locals'}) <= GlobalSlots + GlobalQueue
      BY <1>2, BoundShrinks, Zenon
    <2> QED BY <2>1, Zenon DEF BoundInv, RemoteBounded, Remote
  <1>3. ASSUME NEW t \in Txs, NEW D \in Discards(pool), pool' = AddResult(t, D).pool,
               locals \subseteq locals'
        PROVE  BoundInv'
    <2>1. /\ IsFiniteSet(pool'.all)
          /\ Cardinality({u \in pool'.all : From[u] \notin locals'}) <= GlobalSlots + GlobalQueue
      BY <1>1, <1>3, AddBounded, Zenon
    <2> QED BY <2>1, Zenon DEF BoundInv, RemoteBounded, Remote
  <1>4. CASE \E c \in Callers : AddTx(c)
    <2>1. PICK c \in Callers : AddTx(c)
      BY <1>4, Zenon
    <2> DEFINE t == Head(caller[c].todo)
    <2>2. t \in Txs
      <3>1. CallerOK(caller[c]) /\ caller[c].pc \in {"lock", "add"}
        BY <2>1, Zenon DEF AddTx, IInv, CallersOK
      <3> QED BY <3>1 DEF CallerOK
    <2>3. /\ locals \subseteq locals'
          /\ pool' = pool \/ \E D \in Discards(pool) : pool' = AddResult(t, D).pool
      BY <2>1, Zenon DEF AddTx
    <2> HIDE DEF t
    <2> QED BY <1>2, <1>3, <2>2, <2>3, Zenon
  <1>5. CASE \E t \in Txs : ReinjectOne(t)
    <2>1. PICK t \in Txs : ReinjectOne(t)
      BY <1>5, Zenon
    <2>2. /\ locals' = locals
          /\ pool' = pool \/ \E D \in Discards(pool) : pool' = AddResult(t, D).pool
      BY <2>1, Zenon DEF ReinjectOne
    <2> QED BY <1>2, <1>3, <2>2, Zenon
  <1>6. CASE \/ \E price \in PriceLimits : SetGasPrice(price)
             \/ \E A \in SUBSET (Accounts \ locals) : A # {} /\ Evict(A)
             \/ \E a \in Accounts : TruncateQueue(a) /\ locals' = locals
    <2>1. locals' = locals /\ \E D : pool' = RemoveTx(pool, D)
      BY <1>6, Zenon DEF SetGasPrice, Evict, TruncateQueue
    <2>2. pool'.all \subseteq pool.all
      BY <1>1, <2>1, RemoveTxAll, Zenon
    <2> QED BY <1>2, <2>1, <2>2, Zenon
  <1>7. CASE PromoteExecutables
    <2>1. locals' = locals /\ \E A : pool' = Promote(pool, A)
      BY <1>7, Zenon DEF PromoteExecutables
    <2>2. \A A : Promote(pool, A).all \subseteq pool.all
      BY Zenon DEF Promote
    <2> QED BY <1>2, <2>1, <2>2, Zenon
  <1>8. CASE DemoteUnexecutables
    <2>1. locals' = locals /\ pool' = Demote(pool)
      BY <1>8, Zenon DEF DemoteUnexecutables
    <2> QED BY <1>1, <1>2, <2>1, DemoteAll, Zenon
  <1>9. CASE TruncatePending /\ locals' = locals
    <2>1. pool' = pool \/ \E A : pool' = CapOne(pool, A)
      BY <1>9, Zenon DEF TruncatePending, Truncates
    <2>2. \A A : CapOne(pool, A).all \subseteq pool.all
      BY <1>1 DEF CapOne, Sound, Shape, IsPool
    <2> QED BY <1>2, <1>9, <2>1, <2>2, Zenon
  <1>10. CASE RunLock \/ RunUnlock
    <2>1. locals' = locals /\ (pool' = pool \/ \E n : pool' = [pool EXCEPT !.nonces = n])
      BY <1>10, Zenon DEF RunLock, RunUnlock
    <2>2. \A n : [pool EXCEPT !.nonces = n].all = pool.all
      BY <1>1 DEF Sound, Shape, IsPool
    <2> QED BY <1>2, <2>1, <2>2, Zenon
  <1>11. CASE \/ \E c \in Callers : AddTxs(c) \/ RequestPromoteExecutables(c)
              \/ \E b \in Blocks : HeadEvent(b)
              \/ RequestReset \/ Stop \/ ScheduleReorgLoop \/ Send
              \/ (Spammers /\ locals' = locals) \/ UNCHANGED vars
    <2>1. locals' = locals /\ pool' = pool
      BY <1>11, ZenonT(30) DEF AddTxs, RequestPromoteExecutables, HeadEvent, RequestReset, Stop,
         ScheduleReorgLoop, Launch, RunDone, Shutdown, ShutdownDone, Send, Spammers, vars, poolVars
    <2> QED BY <1>2, <2>1, Zenon
  <1>12. Truncate => \/ Spammers /\ locals' = locals
                     \/ TruncatePending /\ locals' = locals
                     \/ \E a \in Accounts : TruncateQueue(a) /\ locals' = locals
    BY Zenon DEF Truncate, TruncateStep
  <1> QED
    BY <1>4, <1>5, <1>6, <1>7, <1>8, <1>9, <1>10, <1>11, <1>12, Zenon DEF Next, RunReorg

\* The empty pool is within the bound.
LEMMA InitBound == Init => BoundInv
  <1> SUFFICES ASSUME Init PROVE BoundInv
    OBVIOUS
  <1>1. pool.all = {}
    BY DEF Init
  <1>2. Remote(pool) = {}
    BY <1>1, Zenon DEF Remote
  <1>3. Cardinality(Remote(pool)) = 0 /\ IsFiniteSet(pool.all)
    BY <1>1, <1>2, FS_EmptySet, Zenon
  <1> QED BY <1>3, TxPoolAssumption DEF BoundInv, RemoteBounded

\* For any limits, callers and local accounts: remote transactions never
\* exceed the configured total, since add makes room before it inserts and no
\* other operation puts a transaction into the lookup.
THEOREM RemotesBounded == Spec => []RemoteBounded
  <1>1. BoundInv => RemoteBounded
    BY Zenon DEF BoundInv
  <1> QED BY <1>1, InitBound, InitInv, NextInv, NextBound, PTL DEF Spec

-----------------------------------------------------------------------------
(* The lock. *)

\* the stages of a run that hold the lock
Busy == {"reinject", "promote", "demote", "pending", "equalise", "queue"}

\* mu is held by the run between its lock and its unlock, or by the one caller
\* that is adding
LockInv ==
    /\ run.pc \in Busy <=> mu = "run"
    /\ \A c \in Callers : caller[c].pc = "add" => mu = "caller"
    /\ \A c, d \in Callers : caller[c].pc = "add" /\ caller[d].pc = "add" => c = d

\* What AddTx does to the callers.
LEMMA AddTxCaller ==
  ASSUME CallersOK, NEW c \in Callers, AddTx(c)
  PROVE  /\ caller'[c].pc = IF Len(caller[c].todo) = 1 THEN "request" ELSE "add"
         /\ \A d \in Callers \ {c} : caller'[d] = caller[d]
  <1>1. PICK D, E : caller' = [caller EXCEPT
                        ![c].pc = IF Len(caller[c].todo) = 1 THEN "request" ELSE "add",
                        ![c].todo = Tail(@),
                        ![c].errs = E,
                        ![c].dirty = @ \cup D]
    BY ZenonT(30) DEF AddTx
  <1>2. CallerOK(caller[c])
    BY Zenon DEF CallersOK
  <1> QED BY <1>1, <1>2, Zenon DEF CallersOK, CallerOK

\* Every step hands mu over as the code locks and unlocks.
LEMMA NextLock == LockInv /\ Served /\ CallersOK /\ [Next]_vars => LockInv'
  <1> SUFFICES ASSUME LockInv, Served, CallersOK, [Next]_vars PROVE LockInv'
    BY Zenon
  <1>1. ASSUME NEW c \in Callers, AddTxs(c) \/ RequestPromoteExecutables(c) PROVE LockInv'
    <2>1. UNCHANGED <<run, mu>>
      BY <1>1, Zenon DEF AddTxs, RequestPromoteExecutables, runVars, poolVars
    <2>2. \A d \in Callers \ {c} : caller'[d] = caller[d]
      BY <1>1, Zenon DEF AddTxs, RequestPromoteExecutables, CallersOK
    <2>3. caller'[c].pc \in {"idle", "lock", "next"}
      <3>1. CallerOK(caller[c])
        BY Zenon DEF CallersOK
      <3>2. CASE AddTxs(c)
        BY <3>1, <3>2, Zenon DEF AddTxs, CallersOK, CallerOK
      <3>3. CASE RequestPromoteExecutables(c)
        BY <3>1, <3>3 DEF RequestPromoteExecutables, CallersOK, CallerOK
      <3> QED BY <1>1, <3>2, <3>3, Zenon
    <2>4. \A d \in Callers : caller'[d].pc = "add" => caller[d].pc = "add" /\ d # c
      BY <2>2, <2>3, Zenon
    <2> QED BY <2>1, <2>4, Zenon DEF LockInv
  <1>2. ASSUME NEW c \in Callers, AddTx(c) PROVE LockInv'
    <2> DEFINE last == Len(caller[c].todo) = 1
    <2>1. /\ UNCHANGED run
          /\ mu' = IF last THEN "free" ELSE "caller"
          /\ caller[c].pc = "add" \/ mu = "free"
      BY <1>2, Zenon DEF AddTx, runVars
    <2>2. /\ caller'[c].pc = IF last THEN "request" ELSE "add"
          /\ \A d \in Callers \ {c} : caller'[d] = caller[d]
      BY <1>2, AddTxCaller, Zenon
    <2> HIDE DEF last
    <2>3. \A d \in Callers \ {c} : caller'[d].pc # "add"
      BY <2>1, <2>2, Zenon DEF LockInv
    <2>4. run.pc \notin Busy
      BY <2>1, Zenon DEF LockInv
    <2>5. CASE last
      BY <2>1, <2>2, <2>3, <2>4, <2>5, Zenon DEF LockInv
    <2>6. CASE ~last
      BY <2>1, <2>2, <2>3, <2>4, <2>6, Zenon DEF LockInv
    <2> QED BY <2>5, <2>6, Zenon
  <1>3. CASE \/ \E price \in PriceLimits : SetGasPrice(price)
             \/ \E b \in Blocks : HeadEvent(b)
             \/ RequestReset \/ Stop \/ Shutdown
             \/ \E A \in SUBSET (Accounts \ locals) : A # {} /\ Evict(A)
             \/ UNCHANGED vars
    <2>1. UNCHANGED <<run, mu, caller>>
      BY <1>3, Zenon DEF SetGasPrice, HeadEvent, RequestReset, Stop, Shutdown, Evict, vars,
         poolVars, runVars
    <2> QED BY <2>1, Zenon DEF LockInv
  <1>4. ASSUME NEW from, NEW to, to # "add", caller' = Move(from, to), mu' = mu,
               run'.pc \in Busy <=> run.pc \in Busy
        PROVE  LockInv'
    <2>1. \A c \in Callers : caller'[c].pc = "add" => caller[c].pc = "add"
      <3> SUFFICES ASSUME NEW c \in Callers, caller'[c].pc = "add" PROVE caller[c].pc = "add"
        BY Zenon
      <3>1. caller'[c].pc = IF caller[c].pc \in from THEN to ELSE caller[c].pc
        BY <1>4, MovePc, ZenonT(30)
      <3> QED BY <1>4, <3>1, Zenon
    <2> QED BY <1>4, <2>1, Zenon DEF LockInv
  <1>5. CASE Launch
    <2>1. caller' = Move({"next"}, "cur") /\ mu' = mu /\ run.pc = "none" /\ run'.pc = "lock"
      BY <1>5, Zenon DEF Launch, poolVars
    <2> QED BY <1>4, <2>1, Zenon DEF Busy
  <1>6. CASE ShutdownDone
    <2>1. caller' = Move({"next"}, "idle") /\ mu' = mu /\ run' = run
      BY <1>6, Zenon DEF ShutdownDone, poolVars, runVars
    <2> QED BY <1>4, <2>1, Zenon
  <1>7. CASE Send
    <2>1. caller' = Move({"cur"}, "idle") /\ mu' = mu /\ run.pc = "send" /\ run'.pc = "done"
      BY <1>7, Zenon DEF Send, poolVars
    <2> QED BY <1>4, <2>1, Zenon DEF Busy
  <1>8. CASE RunDone
    <2>1. UNCHANGED <<mu, caller>> /\ run.pc = "done" /\ run'.pc = "none"
      BY <1>8, Zenon DEF RunDone, poolVars, Served
    <2> QED BY <2>1, Zenon DEF LockInv, Busy
  <1>9. CASE RunLock
    <2>1. mu = "free" /\ mu' = "run" /\ caller' = caller /\ run'.pc \in {"promote", "reinject"}
      BY <1>9, Zenon DEF RunLock, Served
    <2> QED BY <2>1, Zenon DEF LockInv, Busy
  <1>10. CASE RunUnlock
    <2>1. mu' = "free" /\ caller' = caller /\ run.pc = "queue" /\ run'.pc = "send"
      BY <1>10, Zenon DEF RunUnlock, Served
    <2> QED BY <2>1, Zenon DEF LockInv, Busy
  <1>11. CASE \/ \E t \in Txs : ReinjectOne(t)
              \/ PromoteExecutables \/ DemoteUnexecutables \/ Truncate
    <2>1. UNCHANGED <<mu, caller>>
      BY <1>11, Zenon DEF ReinjectOne, PromoteExecutables, DemoteUnexecutables, Truncate
    <2>2. run.pc \in Busy /\ run'.pc \in Busy
      BY <1>11, Zenon DEF Served, ReinjectOne, PromoteExecutables, DemoteUnexecutables, Truncate,
         TruncateStep, Spammers, TruncatePending, Truncates, TruncateQueue, runVars, Busy
    <2> QED BY <2>1, <2>2, Zenon DEF LockInv
  <1> QED
    BY <1>1, <1>2, <1>3, <1>5, <1>6, <1>7, <1>8, <1>9, <1>10, <1>11, Zenon
    DEF Next, ScheduleReorgLoop, RunReorg

-----------------------------------------------------------------------------
(* The reset a run carries out. *)

\* the head the pool will be on once the active run has its lock
Base == IF run.pc = "lock" /\ run.reset # {} THEN Target(run.reset) ELSE state

\* a request that leads from block b
Request(R, b) == b \in Blocks /\ \E n \in Blocks : R = {[old |-> b, new |-> n]}

\* requests lead from where the pool is, or will be, to the next head
ResetInv ==
    /\ state \in Blocks /\ head \in Blocks
    /\ reset # {} => Request(reset, Base)
    /\ run.pc = "lock" /\ run.reset # {} => Request(run.reset, state)
    /\ run.pc = "reinject" => \E o \in Blocks :
         /\ run.reset = {[old |-> o, new |-> state]}
         /\ run.todo \subseteq Reinject(o, state)
    /\ run.pc = "demote" => run.reset # {}
    /\ run.pc = "promote" => run.reset = {}

\* The request of a set of one.
LEMMA ChooseOne == ASSUME NEW r PROVE (CHOOSE x \in {r} : TRUE) = r
  BY Zenon

\* What a request holds: the block it leaves and the block it moves to.
LEMMA RequestTarget ==
  ASSUME NEW R, NEW b, Request(R, b)
  PROVE  /\ Target(R) \in Blocks
         /\ (CHOOSE r \in R : TRUE) = [old |-> b, new |-> Target(R)]
         /\ R = {[old |-> b, new |-> Target(R)]}
  <1>1. PICK n \in Blocks : R = {[old |-> b, new |-> n]}
    BY Zenon DEF Request
  <1>2. (CHOOSE r \in R : TRUE) = [old |-> b, new |-> n]
    BY <1>1, ChooseOne, Zenon
  <1>3. [old |-> b, new |-> n].new = n
    BY Zenon
  <1>4. Target(R) = n
    BY <1>2, <1>3, Zenon DEF Target
  <1> QED BY <1>1, <1>2, <1>4, Zenon

\* Every step keeps the requests in line: merged ones keep the older start.
LEMMA NextReset == ResetInv /\ Served /\ [Next]_vars => ResetInv'
  <1> SUFFICES ASSUME ResetInv, Served, [Next]_vars PROVE ResetInv'
    BY Zenon
  <1>1. CASE \/ \E c \in Callers : AddTxs(c) \/ AddTx(c) \/ RequestPromoteExecutables(c)
             \/ \E price \in PriceLimits : SetGasPrice(price)
             \/ \E b \in Blocks : HeadEvent(b)
             \/ Stop \/ Shutdown \/ ShutdownDone
             \/ \E A \in SUBSET (Accounts \ locals) : A # {} /\ Evict(A)
             \/ UNCHANGED vars
    <2>1. UNCHANGED <<run, state, head, reset>>
      <3>1. ASSUME NEW c \in Callers, AddTxs(c) PROVE UNCHANGED <<run, state, head, reset>>
        BY <3>1, Zenon DEF AddTxs, chainVars, poolVars, loopVars, runVars
      <3>2. ASSUME NEW c \in Callers, AddTx(c) PROVE UNCHANGED <<run, state, head, reset>>
        BY <3>2, Zenon DEF AddTx, chainVars, runVars
      <3>3. ASSUME NEW c \in Callers, RequestPromoteExecutables(c)
            PROVE  UNCHANGED <<run, state, head, reset>>
        BY <3>3, Zenon DEF RequestPromoteExecutables, chainVars, poolVars, runVars
      <3>4. CASE \/ \E price \in PriceLimits : SetGasPrice(price)
                 \/ \E b \in Blocks : HeadEvent(b)
                 \/ Stop \/ Shutdown \/ ShutdownDone
                 \/ \E A \in SUBSET (Accounts \ locals) : A # {} /\ Evict(A)
                 \/ UNCHANGED vars
        BY <3>4, Zenon DEF SetGasPrice, HeadEvent, Stop, Shutdown, ShutdownDone, Evict, vars,
           chainVars, poolVars, loopVars, runVars
      <3> QED BY <1>1, <3>1, <3>2, <3>3, <3>4, Zenon
    <2> QED BY <2>1, Zenon DEF ResetInv, Base, Request, Target
  <1>2. CASE RequestReset
    <2>1. UNCHANGED <<run, state>>
      BY <1>2, Zenon DEF RequestReset, poolVars, runVars
    <2>2. head' = Head(headCh) /\ Head(headCh) \in Blocks
      BY <1>2 DEF RequestReset, Served
    <2>3. reset' = {[old |-> IF reset = {} THEN head ELSE (CHOOSE r \in reset : TRUE).old,
                     new |-> Head(headCh)]}
      BY <1>2, Zenon DEF RequestReset
    <2>4. Base \in Blocks
      BY RequestTarget, Zenon DEF ResetInv, Base
    <2>5. (IF reset = {} THEN head ELSE (CHOOSE r \in reset : TRUE).old) = Base
      <3>1. CASE reset = {}
        BY <3>1, Zenon DEF Served, Base
      <3>2. CASE reset # {}
        <4>1. (CHOOSE r \in reset : TRUE) = [old |-> Base, new |-> Target(reset)]
          BY <3>2, RequestTarget, Zenon DEF ResetInv
        <4>2. [old |-> Base, new |-> Target(reset)].old = Base
          BY Zenon
        <4> QED BY <3>2, <4>1, <4>2, Zenon
      <3> QED BY <3>1, <3>2, Zenon
    <2>6. Base' = Base
      <3>1. run' = run /\ state' = state
        BY <2>1, Zenon
      <3> QED BY <3>1 DEF Base, Target
    <2>7. reset' = {[old |-> Base, new |-> Head(headCh)]}
      BY <2>3, <2>5, Zenon
    <2>8. Request(reset', Base)
      BY <2>2, <2>4, <2>7, Zenon DEF Request
    <2> QED BY <2>1, <2>2, <2>6, <2>8, Zenon DEF ResetInv
  <1>3. CASE Launch
    <2>1. /\ UNCHANGED <<head, state>>
          /\ run.pc = "none" /\ reset' = {}
          /\ run' = [pc |-> "lock", reset |-> reset, dirty |-> dirty, events |-> events,
                     todo |-> {}]
      BY <1>3, Zenon DEF Launch, chainVars, poolVars
    <2>2. run'.pc = "lock" /\ run'.reset = reset
      BY <2>1, Zenon
    <2>3. Base = state
      BY <2>1, Zenon DEF Base
    <2> QED BY <2>1, <2>2, <2>3, Zenon DEF ResetInv
  <1>4. CASE RunDone \/ Send
    <2>1. UNCHANGED <<head, state, reset>> /\ run.pc \in {"done", "send"}
          /\ run'.pc \in {"none", "done"}
      <3>1. CASE RunDone
        BY <3>1, Zenon DEF RunDone, chainVars, poolVars, loopVars, Served
      <3>2. CASE Send
        BY <3>2, Zenon DEF Send, chainVars, poolVars, loopVars
      <3> QED BY <1>4, <3>1, <3>2, Zenon
    <2>2. Base' = Base
      BY <2>1, Zenon DEF Base
    <2> QED BY <2>1, <2>2, Zenon DEF ResetInv
  <1>5. CASE RunLock
    <2>1. UNCHANGED <<head, reset>> /\ run.pc = "lock"
      BY <1>5, Zenon DEF RunLock, chainVars, loopVars
    <2>2. CASE run.reset = {}
      <3>1. state' = state /\ run'.pc = "promote" /\ run'.reset = {}
        BY <1>5, <2>2, Zenon DEF RunLock, Served
      <3>2. Base' = Base
        BY <2>2, <3>1, Zenon DEF Base
      <3> QED BY <2>1, <3>1, <3>2, Zenon DEF ResetInv
    <2>3. CASE run.reset # {}
      <3> DEFINE n == Target(run.reset)
      <3>1. n \in Blocks /\ (CHOOSE r \in run.reset : TRUE) = [old |-> state, new |-> n]
            /\ run.reset = {[old |-> state, new |-> n]}
        BY <2>1, <2>3, RequestTarget, Zenon DEF ResetInv
      <3>2. [old |-> state, new |-> n].old = state /\ [old |-> state, new |-> n].new = n
        BY Zenon
      <3>3. /\ state' = n /\ run'.pc = "reinject" /\ run'.reset = run.reset
            /\ run'.todo = Reinject(state, n)
        <4> DEFINE r == CHOOSE r \in run.reset : TRUE
        <4>1. /\ state' = r.new
              /\ run' = [run EXCEPT !.pc = "reinject", !.todo = Reinject(r.old, r.new)]
          BY <1>5, <2>3, Zenon DEF RunLock
        <4>2. r.new = n /\ r.old = state
          BY <3>1, <3>2, Zenon
        <4> HIDE DEF r, n
        <4>3. run' = [run EXCEPT !.pc = "reinject", !.todo = Reinject(state, n)]
          BY <4>1, <4>2, Zenon
        <4> QED BY <4>1, <4>2, <4>3, Zenon DEF Served
      <3>4. Base' = Base
        BY <2>1, <2>3, <3>3, Zenon DEF Base
      <3> HIDE DEF n
      <3> QED BY <2>1, <3>1, <3>3, <3>4, Zenon DEF ResetInv
    <2> QED BY <2>2, <2>3, Zenon
  <1>6. CASE \E t \in Txs : ReinjectOne(t)
    <2>1. /\ UNCHANGED <<head, state, reset>> /\ run.pc = "reinject"
          /\ run'.pc = run.pc /\ run'.reset = run.reset /\ run'.todo \subseteq run.todo
      BY <1>6, ZenonT(30) DEF ReinjectOne, chainVars, Served
    <2>2. Base' = Base
      BY <2>1, Zenon DEF Base
    <2> QED BY <2>1, <2>2, Zenon DEF ResetInv
  <1>7. CASE PromoteExecutables
    <2>1. /\ UNCHANGED <<head, state, reset>> /\ run.pc \in {"reinject", "promote"}
          /\ run'.pc = (IF run.reset # {} THEN "demote" ELSE "pending")
          /\ run'.reset = run.reset
      BY <1>7, Zenon DEF PromoteExecutables, chainVars, loopVars, Served
    <2>2. Base' = Base
      BY <2>1, Zenon DEF Base
    <2> QED BY <2>1, <2>2, Zenon DEF ResetInv
  <1>8. CASE DemoteUnexecutables \/ Truncate \/ RunUnlock
    <2>1. /\ UNCHANGED <<head, state, reset>> /\ run.pc # "lock"
          /\ run'.pc \in {"pending", "equalise", "queue", "send"}
      BY <1>8, Zenon DEF DemoteUnexecutables, Truncate, RunUnlock, TruncateStep, Spammers,
         TruncatePending, Truncates, TruncateQueue, chainVars, loopVars, runVars, Served
    <2>2. Base' = Base
      BY <2>1, Zenon DEF Base
    <2> QED BY <2>1, <2>2, Zenon DEF ResetInv
  <1> QED
    BY <1>1, <1>2, <1>3, <1>4, <1>5, <1>6, <1>7, <1>8, Zenon
    DEF Next, ScheduleReorgLoop, RunReorg

\* The nonce of an account in the state of a block.
LEMMA NonceNat ==
  ASSUME NEW b \in Blocks, NEW a \in Accounts
  PROVE  GetNonce[b][a] \in Nat
  BY TxPoolAssumption, Zenon

-----------------------------------------------------------------------------
(* What the operations do to the lists of one account. *)

\* no transaction of S is below nonce n
AtLeast(S, n) == \A t \in S : n <= Nonce[t]

\* pending transactions whose nonces a removal names
Hit(P, D, a) == {u \in P.pending[a] : SameNonce(Of(D \cap P.all, a), u) # {}}

\* ... and the pending ones it leaves
Left(P, D, a) == P.pending[a] \ (Hit(P, D, a) \cup Following(P.pending[a], Hit(P, D, a)))

Lowest(N) == CHOOSE n \in N : \A m \in N : n <= m

\* the next nonce after a removal: the lowest one hit, if any
Lowered(P, D, a) == Lowest({Nonce[u] : u \in Hit(P, D, a)} \cup {P.nonces[a]})

\* A set of naturals has a least element.
LEMMA Least ==
  ASSUME NEW N \in SUBSET Nat, N # {}
  PROVE  \E n \in N : \A m \in N : n <= m
  <1> DEFINE R == OpToRel(<, Nat)
  <1>1. IsWellFoundedOn(R, Nat)
    BY NatLessThanWellFounded, Zenon
  <1>2. \A x, y \in Nat : x < y => <<x, y>> \in R
    BY DEF OpToRel
  <1> HIDE DEF R
  <1>3. PICK n \in N : \A m \in N : ~(<<m, n>> \in R)
    BY <1>1, WFMin, Zenon
  <1>4. ASSUME NEW m \in N PROVE n <= m
    <2>1. m \in Nat /\ n \in Nat
      BY Zenon
    <2>2. ~(m < n)
      BY <1>2, <1>3, <2>1, Zenon
    <2> QED BY <2>1, <2>2
  <1> QED BY <1>4, Zenon

\* enqueueTx touches queues and the lookup only.
LEMMA EnqueueParts ==
  ASSUME NEW P, IsPool(P), NEW T
  PROVE  /\ Enqueue(P, T).pending = P.pending
         /\ Enqueue(P, T).nonces = P.nonces
         /\ \A a \in Accounts :
              /\ Enqueue(P, T).queue[a] = AddAll(P.queue[a], Of(T, a))
              /\ Enqueue(P, T).queue[a] \subseteq P.queue[a] \cup Of(T, a)
  <1> DEFINE Q == Enqueue(P, T)
  <1>1. /\ Q.pending = P.pending /\ Q.nonces = P.nonces
        /\ Q.queue = [a \in Accounts |-> AddAll(P.queue[a], Of(T, a))]
    BY Zenon DEF Enqueue, IsPool
  <1> HIDE DEF Q
  <1>2. \A S, U : AddAll(S, U) \subseteq S \cup U
    BY Zenon DEF AddAll, Inserted
  <1>3. \A a \in Accounts : Q.queue[a] = AddAll(P.queue[a], Of(T, a))
    BY <1>1, Zenon
  <1>4. \A a \in Accounts : Q.queue[a] \subseteq P.queue[a] \cup Of(T, a)
    <2> SUFFICES ASSUME NEW a \in Accounts
                 PROVE  Q.queue[a] \subseteq P.queue[a] \cup Of(T, a)
      BY Zenon
    <2>1. AddAll(P.queue[a], Of(T, a)) \subseteq P.queue[a] \cup Of(T, a)
      BY <1>2, ZenonT(30)
    <2> QED BY <1>3, <2>1, Zenon
  <1> QED BY <1>1, <1>3, <1>4, ZenonT(30) DEF Q

\* removeTx takes the named ones from the pending list, and what follows them;
\* the latter may enter the queue.
LEMMA RemoveTxParts ==
  ASSUME NEW P, Sound(P), NEW D, NEW a \in Accounts
  PROVE  /\ RemoveTx(P, D).pending[a] = Left(P, D, a)
         /\ RemoveTx(P, D).pending[a] \subseteq P.pending[a]
         /\ RemoveTx(P, D).queue[a] \subseteq P.queue[a] \cup P.pending[a]
         /\ RemoveTx(P, D).nonces[a] = Lowered(P, D, a)
  <1> DEFINE known(b) == Of(D \cap P.all, b)
             hit(b) == {u \in P.pending[b] : SameNonce(known(b), u) # {}}
             inv(b) == Following(P.pending[b], hit(b))
             gone(b) == {u \in P.queue[b] : \E d \in known(b) :
                           Nonce[d] = Nonce[u] /\ SameNonce(P.pending[b], d) = {}}
             low(b) == {Nonce[u] : u \in hit(b)} \cup {P.nonces[b]}
             P1 == [pending |-> [b \in Accounts |-> P.pending[b] \ (hit(b) \cup inv(b))],
                    queue |-> [b \in Accounts |-> P.queue[b] \ gone(b)],
                    all |-> P.all \ D,
                    nonces |-> [b \in Accounts |->
                                  CHOOSE n \in low(b) : \A m \in low(b) : n <= m]]
             T == UNION {inv(b) \ D : b \in Accounts}
  <1>1. RemoveTx(P, D) = Enqueue(P1, T)
    BY Zenon DEF RemoveTx
  <1>2. /\ IsPool(P1)
        /\ P1.pending[a] = P.pending[a] \ (hit(a) \cup inv(a))
        /\ P1.queue[a] \subseteq P.queue[a]
        /\ P1.nonces[a] = Lowest(low(a))
    BY Zenon DEF IsPool, Lowest
  <1>3. \A b \in Accounts : inv(b) \subseteq P.pending[b]
    BY Zenon DEF Following
  <1>4. \A b \in Accounts : \A t \in P.pending[b] : From[t] = b
    BY Zenon DEF Sound, Shape, In
  <1> HIDE DEF inv, P1
  <1>5. Of(T, a) \subseteq P.pending[a]
    <2> SUFFICES ASSUME NEW t \in Of(T, a) PROVE t \in P.pending[a]
      BY Zenon
    <2>1. PICK b \in Accounts : t \in inv(b) /\ From[t] = a
      BY Zenon DEF Of
    <2> QED BY <1>3, <1>4, <2>1, Zenon
  <1> HIDE DEF T
  <1>6. /\ RemoveTx(P, D).pending = P1.pending /\ RemoveTx(P, D).nonces = P1.nonces
        /\ RemoveTx(P, D).queue[a] \subseteq P1.queue[a] \cup Of(T, a)
    <2>1. /\ Enqueue(P1, T).pending = P1.pending /\ Enqueue(P1, T).nonces = P1.nonces
          /\ Enqueue(P1, T).queue[a] \subseteq P1.queue[a] \cup Of(T, a)
      <3>1. IsPool(P1)
        BY <1>2, Zenon
      <3> QED BY <3>1, EnqueueParts, ZenonT(30)
    <2> QED BY <1>1, <2>1, ZenonT(30)
  <1>7. hit(a) = Hit(P, D, a)
    BY Zenon DEF Hit
  <1>8. RemoveTx(P, D).queue[a] \subseteq P.queue[a] \cup P.pending[a]
    BY <1>2, <1>5, <1>6, Zenon
  <1>9. RemoveTx(P, D).pending[a] \subseteq P.pending[a]
    BY <1>2, <1>6, Zenon
  <1> HIDE DEF hit
  <1> QED BY <1>2, <1>6, <1>7, <1>8, <1>9, Zenon DEF inv, Left, Lowered

\* ... and never raises a nonce.
LEMMA RemoveTxNonce ==
  ASSUME NEW P, Sound(P), NEW D, NEW a \in Accounts, P.nonces[a] \in Nat
  PROVE  /\ RemoveTx(P, D).nonces[a] \in Nat
         /\ RemoveTx(P, D).nonces[a] <= P.nonces[a]
         /\ \A u \in Hit(P, D, a) : RemoveTx(P, D).nonces[a] <= Nonce[u]
         /\ \/ RemoveTx(P, D).nonces[a] = P.nonces[a]
            \/ \E u \in Hit(P, D, a) : RemoveTx(P, D).nonces[a] = Nonce[u]
  <1> DEFINE low == {Nonce[u] : u \in Hit(P, D, a)} \cup {P.nonces[a]}
             n == RemoveTx(P, D).nonces[a]
  <1>1. Hit(P, D, a) \subseteq Txs
    BY Zenon DEF Hit, Sound, Shape
  <1>2. low \in SUBSET Nat /\ P.nonces[a] \in low
    <2>1. \A u \in Hit(P, D, a) : Nonce[u] \in Nat
      BY <1>1, TxPoolAssumption, Zenon
    <2> QED BY <2>1, Zenon
  <1>3. n = Lowest(low)
    <2>1. RemoveTx(P, D).nonces[a] = Lowered(P, D, a)
      BY RemoveTxParts, Zenon
    <2> QED BY <2>1, Zenon DEF Lowered
  <1> HIDE DEF n
  <1>4. low # {}
    BY <1>2, Zenon
  <1>5. \E k \in low : \A m \in low : k <= m
    <2> HIDE DEF low
    <2> QED BY <1>2, <1>4, Least, Zenon
  <1>6. n \in low /\ \A m \in low : n <= m
    <2> HIDE DEF low
    <2> QED BY <1>3, <1>5, Zenon DEF Lowest
  <1>7. n \in Nat
    BY <1>2, <1>6, Zenon
  <1> QED BY <1>6, <1>7, Zenon DEF n

\* A transaction is pending after its insertion only in the place of one.
LEMMA InsertParts ==
  ASSUME NEW P, Sound(P), NEW t \in Txs, NEW a \in Accounts
  PROVE  /\ Insert(P, t).nonces = P.nonces
         /\ Insert(P, t).pending[a] \subseteq P.pending[a] \cup {t}
         /\ t \in Insert(P, t).pending[a] /\ t \notin P.pending[a] =>
              /\ From[t] = a /\ Overlaps(P, t) /\ t \in Insert(P, t).all
              /\ \E u \in P.pending[a] : Nonce[u] = Nonce[t]
         /\ Insert(P, t).queue[a] \subseteq P.queue[a] \cup {u \in {t} : From[u] = a}
  <1> DEFINE Q == Insert(P, t)
  <1>1. IsPool(P) /\ P.pending \in [Accounts -> SUBSET Txs] /\ From[t] \in Accounts
    BY TxPoolAssumption, Zenon DEF Sound, Shape
  <1>2. CASE Overlaps(P, t)
    <2> DEFINE old == Replaced(P.pending[From[t]], {t})
               new == Inserted(P.pending[From[t]], {t})
               F == (P.pending[From[t]] \ old) \cup new
    <2>1. Q = [P EXCEPT !.pending[From[t]] = (@ \ old) \cup new, !.all = (@ \ old) \cup new]
      BY <1>2, Zenon DEF Insert
    <2>2. new \subseteq {t} /\ \E u \in P.pending[From[t]] : Nonce[u] = Nonce[t]
      BY <1>2, Zenon DEF Inserted, Overlaps, SameNonce
    <2> HIDE DEF old, new
    <2>3. /\ Q.nonces = P.nonces /\ Q.queue = P.queue
          /\ Q.pending = [P.pending EXCEPT ![From[t]] = (@ \ old) \cup new]
          /\ Q.all = (P.all \ old) \cup new
      BY <1>1, <2>1 DEF IsPool
    <2> HIDE DEF Q
    <2>4. Q.pending[a] = IF a = From[t] THEN (P.pending[a] \ old) \cup new ELSE P.pending[a]
      BY <1>1, <2>3, Zenon
    <2>5. CASE a = From[t]
      <3>1. Q.pending[a] = (P.pending[a] \ old) \cup new
        BY <2>4, <2>5, Zenon
      <3> QED BY <1>2, <2>2, <2>3, <2>5, <3>1, Zenon DEF Q
    <2>6. CASE a # From[t]
      <3>1. Q.pending[a] = P.pending[a]
        BY <2>4, <2>6, Zenon
      <3> QED BY <2>3, <3>1, Zenon DEF Q
    <2> QED BY <2>5, <2>6, Zenon
  <1>3. CASE ~Overlaps(P, t)
    <2>1. Q = Enqueue(P, {t})
      BY <1>3, Zenon DEF Insert
    <2> DEFINE T == {t}
    <2> HIDE DEF T, Q
    <2>2. Q = Enqueue(P, T)
      BY <2>1, Zenon DEF T
    <2>3. /\ Enqueue(P, T).pending = P.pending /\ Enqueue(P, T).nonces = P.nonces
          /\ Enqueue(P, T).queue[a] \subseteq P.queue[a] \cup Of(T, a)
      BY <1>1, EnqueueParts, Zenon
    <2>4. Q.queue[a] \subseteq P.queue[a] \cup {u \in {t} : From[u] = a}
      BY <2>2, <2>3, Zenon DEF Of, T
    <2> QED BY <2>2, <2>3, <2>4, Zenon DEF Q
  <1> QED BY <1>2, <1>3, Zenon

\* promoteExecutables adds what is ready, which the state's nonce has not passed.
LEMMA PromoteParts ==
  ASSUME NEW P, Sound(P), state \in Blocks, NEW A, NEW a \in Accounts
  PROVE  /\ Promote(P, A).pending[a] = IF a \in A THEN AddAll(P.pending[a], Readies(P, a))
                                                   ELSE P.pending[a]
         /\ Promote(P, A).queue[a] \subseteq P.queue[a]
         /\ Readies(P, a) \subseteq P.queue[a]
         /\ AtLeast(Readies(P, a), GetNonce[state][a])
         /\ a \in A => AtLeast(Promote(P, A).queue[a], GetNonce[state][a])
  <1> DEFINE rest(b) == Payable(P, b) \ Readies(P, b)
             kept(b) == IF b \in locals THEN rest(b)
                        ELSE rest(b) \ Cap(rest(b), AccountQueue)
             Q == Promote(P, A)
  <1>1. /\ Q.pending = [b \in Accounts |->
                         IF b \in A THEN AddAll(P.pending[b], Readies(P, b)) ELSE P.pending[b]]
        /\ Q.queue = [b \in Accounts |-> IF b \in A THEN kept(b) ELSE P.queue[b]]
    BY Zenon DEF Promote
  <1>2. kept(a) \subseteq Payable(P, a) /\ Readies(P, a) \subseteq Payable(P, a)
    BY Zenon DEF Readies, Ready
  <1>3. Payable(P, a) \subseteq P.queue[a] /\ AtLeast(Payable(P, a), GetNonce[state][a])
    <2>1. Payable(P, a) \subseteq P.queue[a] \ Forward(P.queue[a], GetNonce[state][a])
      BY Zenon DEF Payable
    <2>2. ASSUME NEW u \in Payable(P, a) PROVE GetNonce[state][a] <= Nonce[u]
      <3>1. u \in P.queue[a] /\ ~(Nonce[u] < GetNonce[state][a])
        BY <2>1, Zenon DEF Forward
      <3>2. Nonce[u] \in Nat /\ GetNonce[state][a] \in Nat
        <4>1. u \in Txs
          BY <3>1, Zenon DEF Sound, Shape
        <4> QED BY <4>1, TxPoolAssumption, Zenon
      <3> QED BY <3>1, <3>2
    <2> QED BY <2>1, <2>2, Zenon DEF AtLeast
  <1>4. Q.pending[a] = (IF a \in A THEN AddAll(P.pending[a], Readies(P, a)) ELSE P.pending[a])
        /\ Q.queue[a] = IF a \in A THEN kept(a) ELSE P.queue[a]
    BY <1>1, Zenon
  <1> HIDE DEF kept, Q
  <1>5. Q.queue[a] \subseteq P.queue[a] /\ (a \in A => Q.queue[a] \subseteq Payable(P, a))
    BY <1>2, <1>3, <1>4, Zenon
  <1> QED BY <1>2, <1>3, <1>4, <1>5, Zenon DEF AtLeast, Q

\* demoteUnexecutables keeps no pending one that the state's nonce has passed.
LEMMA DemoteParts ==
  ASSUME NEW P, Sound(P), state \in Blocks, NEW a \in Accounts
  PROVE  /\ Demote(P).pending[a] \subseteq P.pending[a]
         /\ Demote(P).queue[a] \subseteq P.queue[a] \cup P.pending[a]
         /\ AtLeast(Demote(P).pending[a], GetNonce[state][a])
         /\ \A t \in Demote(P).queue[a] : t \notin P.queue[a] => GetNonce[state][a] <= Nonce[t]
  <1> DEFINE old(b) == Forward(P.pending[b], GetNonce[state][b])
             live(b) == P.pending[b] \ old(b)
             drop(b) == Unpayable(live(b), GetBalance[state][b])
             inv(b) == Following(live(b), drop(b))
             left(b) == live(b) \ (drop(b) \cup inv(b))
             gapped(b) == IF \E t \in left(b) : Nonce[t] = GetNonce[state][b]
                          THEN {} ELSE left(b)
             P1 == [P EXCEPT
                      !.pending = [b \in Accounts |-> left(b) \ gapped(b)],
                      !.all = @ \ UNION {old(b) \cup drop(b) : b \in Accounts}]
             T == UNION {inv(b) \cup gapped(b) : b \in Accounts}
  <1>1. Demote(P) = Enqueue(P1, T)
    BY Zenon DEF Demote
  <1>2. IsPool(P1) /\ P1.pending = [b \in Accounts |-> left(b) \ gapped(b)] /\ P1.queue = P.queue
    BY Zenon DEF Sound, Shape, IsPool
  <1>3. \A b \in Accounts : /\ inv(b) \subseteq live(b) /\ gapped(b) \subseteq live(b)
                            /\ left(b) \subseteq live(b)
    BY Zenon DEF Following
  <1>4. \A b \in Accounts : live(b) \subseteq P.pending[b] /\ \A t \in P.pending[b] : From[t] = b
    BY Zenon DEF Sound, Shape, In
  <1>5. ASSUME NEW t \in live(a) PROVE GetNonce[state][a] <= Nonce[t]
    <2>1. t \in P.pending[a] /\ ~(Nonce[t] < GetNonce[state][a])
      BY Zenon DEF Forward
    <2>2. Nonce[t] \in Nat /\ GetNonce[state][a] \in Nat
      <3>1. t \in Txs
        BY <2>1, Zenon DEF Sound, Shape
      <3> QED BY <3>1, TxPoolAssumption, ZenonT(30)
    <2> QED BY <2>1, <2>2
  <1> HIDE DEF live, inv, gapped, left, P1
  <1>6. Of(T, a) \subseteq live(a)
    <2> SUFFICES ASSUME NEW t \in Of(T, a) PROVE t \in live(a)
      BY Zenon
    <2>1. PICK b \in Accounts : t \in inv(b) \cup gapped(b) /\ From[t] = a
      BY Zenon DEF Of
    <2> QED BY <1>3, <1>4, <2>1, Zenon
  <1> HIDE DEF T
  <1>7. /\ Demote(P).pending = P1.pending
        /\ Demote(P).queue[a] \subseteq P1.queue[a] \cup Of(T, a)
    <2>1. IsPool(P1)
      BY <1>2, Zenon
    <2>2. /\ Enqueue(P1, T).pending = P1.pending
          /\ Enqueue(P1, T).queue[a] \subseteq P1.queue[a] \cup Of(T, a)
      BY <2>1, EnqueueParts, Zenon
    <2> QED BY <1>1, <2>2, Zenon
  <1>8. Demote(P).pending[a] \subseteq live(a)
    BY <1>2, <1>3, <1>7, Zenon
  <1>9. Demote(P).queue[a] \subseteq P.queue[a] \cup live(a)
    BY <1>2, <1>6, <1>7, Zenon
  <1> QED BY <1>4, <1>5, <1>8, <1>9, Zenon DEF AtLeast

\* truncatePending touches no queue.
LEMMA CapOneParts ==
  ASSUME NEW P, Sound(P), NEW A, NEW a \in Accounts
  PROVE  CapOne(P, A).pending[a] \subseteq P.pending[a] /\ CapOne(P, A).queue = P.queue
  BY Zenon DEF CapOne, Sound, Shape, IsPool

\* add puts its transaction into the queue, or into the place of a pending one.
LEMMA AddParts ==
  ASSUME Sound(pool), NEW t \in Txs, t \notin pool.all, NEW D, NEW a \in Accounts
  PROVE  /\ AddResult(t, D).pool.pending[a] \subseteq pool.pending[a] \cup {t}
         /\ t \in AddResult(t, D).pool.pending[a] =>
              From[t] = a /\ AddResult(t, D).ok /\ AddResult(t, D).executable
         /\ AddResult(t, D).executable => \E u \in pool.pending[From[t]] : Nonce[u] = Nonce[t]
         /\ AddResult(t, D).ok /\ AddResult(t, D).executable
              => t \in AddResult(t, D).pool.pending[From[t]]
         /\ AddResult(t, D).pool.queue[a]
              \subseteq pool.queue[a] \cup pool.pending[a] \cup {u \in {t} : From[u] = a}
         /\ AddResult(t, D).pool.nonces = RemoveTx(pool, D).nonces
  <1> DEFINE P1 == RemoveTx(pool, D)
             Q == Insert(P1, t)
             R == AddResult(t, D)
  <1>1. /\ R.pool = Q /\ (R.ok <=> t \in Q.all) /\ (R.executable <=> Overlaps(P1, t))
    BY Zenon DEF AddResult
  <1>2. Sound(P1)
    BY RemoveTxSound, Zenon
  <1>3. \A b \in Accounts : P1.pending[b] \subseteq pool.pending[b]
    <2> SUFFICES ASSUME NEW b \in Accounts PROVE P1.pending[b] \subseteq pool.pending[b]
      BY Zenon
    <2> QED BY RemoveTxParts, Zenon
  <1>4. P1.queue[a] \subseteq pool.queue[a] \cup pool.pending[a]
    BY RemoveTxParts, Zenon
  <1>5. t \notin P1.all
    BY RemoveTxAll, Zenon
  <1>6. From[t] \in Accounts
    BY TxPoolAssumption, Zenon
  <1>7. \A b \in Accounts : t \notin P1.pending[b]
    <2>1. \A b \in Accounts : \A u \in P1.pending[b] : u \in P1.all
      BY <1>2, Zenon DEF Sound, Shape, In
    <2> QED BY <1>5, <2>1, Zenon
  <1> HIDE DEF P1, R
  <1>8. /\ Q.nonces = P1.nonces
        /\ Q.pending[a] \subseteq P1.pending[a] \cup {t}
        /\ t \in Q.pending[a] /\ t \notin P1.pending[a] =>
             From[t] = a /\ Overlaps(P1, t) /\ t \in Q.all
        /\ Q.queue[a] \subseteq P1.queue[a] \cup {u \in {t} : From[u] = a}
    BY <1>2, InsertParts
  <1>9. Overlaps(P1, t) => \E u \in pool.pending[From[t]] : Nonce[u] = Nonce[t]
    BY <1>3, <1>6, Zenon DEF Overlaps, SameNonce
  <1>10. Overlaps(P1, t) /\ t \in Q.all => t \in Q.pending[From[t]]
    <2> SUFFICES ASSUME Overlaps(P1, t), t \in Q.all PROVE t \in Q.pending[From[t]]
      BY Zenon
    <2> DEFINE old == Replaced(P1.pending[From[t]], {t})
               new == Inserted(P1.pending[From[t]], {t})
    <2>1. Q = [P1 EXCEPT !.pending[From[t]] = (@ \ old) \cup new, !.all = (@ \ old) \cup new]
      BY Zenon DEF Insert
    <2>2. IsPool(P1) /\ P1.pending \in [Accounts -> SUBSET Txs]
      BY <1>2, Zenon DEF Sound, Shape
    <2> HIDE DEF Q, old, new
    <2>3. Q.all = (P1.all \ old) \cup new
      BY <2>1, <2>2, Zenon DEF IsPool
    <2>4. Q.pending = [P1.pending EXCEPT ![From[t]] = (@ \ old) \cup new]
      BY <2>1, <2>2, Zenon DEF IsPool
    <2>5. Q.pending[From[t]] = (P1.pending[From[t]] \ old) \cup new
      BY <1>6, <2>2, <2>4, Zenon
    <2> QED BY <1>5, <2>3, <2>5, Zenon
  <1>11. R.pool.queue[a] \subseteq pool.queue[a] \cup pool.pending[a] \cup {u \in {t} : From[u] = a}
    BY <1>1, <1>4, <1>8, Zenon
  <1>12. R.pool.pending[a] \subseteq pool.pending[a] \cup {t}
    BY <1>1, <1>3, <1>8, Zenon
  <1> HIDE DEF Q
  <1>13. /\ t \in R.pool.pending[a] => From[t] = a /\ R.ok /\ R.executable
         /\ R.executable => \E u \in pool.pending[From[t]] : Nonce[u] = Nonce[t]
         /\ R.ok /\ R.executable => t \in R.pool.pending[From[t]]
         /\ R.pool.nonces = P1.nonces
    BY <1>1, <1>7, <1>8, <1>9, <1>10, Zenon
  <1> QED BY <1>11, <1>12, <1>13, Zenon DEF R, P1

-----------------------------------------------------------------------------
(* The state's nonces and the lists. *)

\* no list holds a transaction the state has executed, but in a run that resets:
\* pending ones are checked by the demotion only, queued ones by the promotion
FloorInv == \A a \in Accounts :
    /\ run.pc \notin {"reinject", "demote"} => AtLeast(pool.pending[a], GetNonce[state][a])
    /\ run.pc # "reinject" => AtLeast(pool.queue[a], GetNonce[state][a])
    /\ run.pc = "reinject" =>
         /\ \A r \in run.reset : AtLeast(pool.pending[a], GetNonce[r.old][a])
         /\ pool.nonces[a] \in Nat /\ pool.nonces[a] <= GetNonce[state][a]

\* All but four actions only drop transactions, or queue pending ones.
LEMMA OtherLists ==
  ASSUME Sound(pool), [Next]_vars,
         ~\E c \in Callers : AddTx(c), ~\E t \in Txs : ReinjectOne(t),
         ~PromoteExecutables, ~DemoteUnexecutables, NEW a \in Accounts
  PROVE  /\ pool'.pending[a] \subseteq pool.pending[a]
         /\ pool'.queue[a] \subseteq pool.queue[a] \cup pool.pending[a]
  <1>1. ASSUME NEW D, pool' = RemoveTx(pool, D)
        PROVE  /\ pool'.pending[a] \subseteq pool.pending[a]
               /\ pool'.queue[a] \subseteq pool.queue[a] \cup pool.pending[a]
    <2>1. /\ RemoveTx(pool, D).pending[a] \subseteq pool.pending[a]
          /\ RemoveTx(pool, D).queue[a] \subseteq pool.queue[a] \cup pool.pending[a]
      BY RemoveTxParts, Zenon
    <2> QED BY <1>1, <2>1, Zenon
  <1>2. CASE \/ \E price \in PriceLimits : SetGasPrice(price)
             \/ \E A \in SUBSET (Accounts \ locals) : A # {} /\ Evict(A)
             \/ Truncate /\ \E b \in Accounts : TruncateQueue(b)
    <2>1. \E D : pool' = RemoveTx(pool, D)
      BY <1>2, Zenon DEF SetGasPrice, Evict, TruncateQueue
    <2> QED BY <1>1, <2>1, Zenon
  <1>3. CASE \/ \E c \in Callers : AddTxs(c) \/ RequestPromoteExecutables(c)
             \/ \E b \in Blocks : HeadEvent(b)
             \/ RequestReset \/ Stop \/ ScheduleReorgLoop \/ Send
             \/ Truncate /\ Spammers
             \/ UNCHANGED vars
    <2>1. pool' = pool
      BY <1>3, ZenonT(30) DEF AddTxs, RequestPromoteExecutables, HeadEvent, RequestReset, Stop, Spammers,
         ScheduleReorgLoop, Launch, RunDone, Shutdown, ShutdownDone, Send, vars, poolVars
    <2> QED BY <2>1, Zenon
  <1>4. CASE RunLock \/ RunUnlock
    <2>1. pool' = pool \/ \E n : pool' = [pool EXCEPT !.nonces = n]
      BY <1>4, Zenon DEF RunLock, RunUnlock
    <2>2. pool'.pending = pool.pending /\ pool'.queue = pool.queue
      BY <2>1, Zenon DEF Sound, Shape, IsPool
    <2> QED BY <2>2, Zenon
  <1>5. CASE Truncate /\ TruncatePending
    <2>1. pool' = pool \/ \E A : pool' = CapOne(pool, A)
      BY <1>5, Zenon DEF TruncatePending, Truncates
    <2> QED BY <2>1, CapOneParts, Zenon
  <1>6. Truncate => Spammers \/ TruncatePending \/ \E b \in Accounts : TruncateQueue(b)
    BY Zenon DEF Truncate, TruncateStep
  <1> QED
    BY <1>2, <1>3, <1>4, <1>5, <1>6, Zenon DEF Next, RunReorg

\* Where the run stands after each action.
LEMMA NextPc ==
  ASSUME Served, [Next]_vars
  PROVE  /\ run'.pc = "reinject" /\ run.pc # "reinject" =>
              run.pc = "lock" /\ RunLock /\ run.reset # {}
         /\ run'.pc = "demote" /\ run.pc # "demote" => PromoteExecutables
         /\ run.pc = "reinject" /\ run'.pc # "reinject" => PromoteExecutables
         /\ run.pc = "demote" /\ run'.pc # "demote" => DemoteUnexecutables
         /\ state' # state => RunLock /\ run.reset # {}
  <1>1. CASE RunLock
    BY <1>1, Zenon DEF RunLock, Served
  <1>2. CASE PromoteExecutables
    BY <1>2, Zenon DEF PromoteExecutables, Served
  <1>3. CASE DemoteUnexecutables
    BY <1>3, Zenon DEF DemoteUnexecutables, Served
  <1>4. CASE Truncate
    <2>1. state' = state /\ run.pc \in {"pending", "equalise", "queue"}
          /\ run'.pc \in {"pending", "equalise", "queue"}
      BY <1>4, Zenon DEF Served, Truncate, TruncateStep, Spammers, TruncatePending, Truncates,
         TruncateQueue, runVars
    <2> QED BY <2>1, Zenon
  <1>5. CASE RunUnlock \/ Send \/ RunDone \/ Launch
    <2>1. state' = state /\ run.pc \in {"queue", "send", "done", "none"}
          /\ run'.pc \in {"send", "done", "none", "lock"}
      <3>1. CASE RunUnlock
        BY <3>1, Zenon DEF RunUnlock, Served
      <3>2. CASE Send
        BY <3>2, Zenon DEF Send, poolVars
      <3>3. CASE RunDone
        BY <3>3, Zenon DEF RunDone, poolVars, Served
      <3>4. CASE Launch
        BY <3>4, Zenon DEF Launch, poolVars
      <3> QED BY <1>5, <3>1, <3>2, <3>3, <3>4, Zenon
    <2> QED BY <2>1, Zenon
  <1>6. CASE \E t \in Txs : ReinjectOne(t)
    <2>1. state' = state /\ run'.pc = run.pc
      BY <1>6, Zenon DEF ReinjectOne, Served
    <2> QED BY <2>1, Zenon
  <1>7. CASE \/ \E c \in Callers : AddTxs(c) \/ AddTx(c) \/ RequestPromoteExecutables(c)
             \/ \E price \in PriceLimits : SetGasPrice(price)
             \/ \E b \in Blocks : HeadEvent(b)
             \/ RequestReset \/ Stop \/ Shutdown \/ ShutdownDone
             \/ \E A \in SUBSET (Accounts \ locals) : A # {} /\ Evict(A)
             \/ UNCHANGED vars
    <2>1. UNCHANGED <<run, state>>
      <3>1. CASE \E c \in Callers : AddTx(c)
        BY <3>1, Zenon DEF AddTx, runVars
      <3>2. CASE \E c \in Callers : AddTxs(c) \/ RequestPromoteExecutables(c)
        BY <3>2, ZenonT(30) DEF AddTxs, RequestPromoteExecutables, poolVars, runVars
      <3>3. CASE \/ \E price \in PriceLimits : SetGasPrice(price)
                 \/ \E A \in SUBSET (Accounts \ locals) : A # {} /\ Evict(A)
        BY <3>3, Zenon DEF SetGasPrice, Evict, runVars
      <3>4. CASE \/ \E b \in Blocks : HeadEvent(b)
                 \/ RequestReset \/ Stop \/ Shutdown \/ ShutdownDone
                 \/ UNCHANGED vars
        BY <3>4, Zenon DEF HeadEvent, RequestReset, Stop, Shutdown, ShutdownDone, vars, poolVars,
           runVars
      <3> QED BY <1>7, <3>1, <3>2, <3>3, <3>4, Zenon
    <2> QED BY <2>1, Zenon
  <1> QED
    BY <1>1, <1>2, <1>3, <1>4, <1>5, <1>6, <1>7, Zenon DEF Next, ScheduleReorgLoop, RunReorg

\* What AddTx adds.
LEMMA AddTxAdds ==
  ASSUME CallersOK, NEW c \in Callers, AddTx(c)
  PROVE  \/ UNCHANGED <<pool, events>>
         \/ \E t \in Txs : \E D :
              /\ t \notin pool.all /\ GetNonce[state][From[t]] <= Nonce[t]
              /\ pool' = AddResult(t, D).pool
              /\ events' \in QueueTxEvent(t, AddResult(t, D))
  <1> DEFINE t == Head(caller[c].todo)
  <1>1. t \in Txs
    <2>1. CallerOK(caller[c]) /\ caller[c].pc \in {"lock", "add"}
      BY Zenon DEF AddTx, CallersOK
    <2> QED BY <2>1 DEF CallerOK
  <1>2. CASE UNCHANGED <<pool, locals, events>>
    BY <1>2, Zenon
  <1>3. CASE \E local, D : /\ ~Rejects(pool, t, local)
                           /\ pool' = AddResult(t, D).pool
                           /\ events' \in QueueTxEvent(t, AddResult(t, D))
    <2>1. PICK local, D : /\ ~Rejects(pool, t, local)
                          /\ pool' = AddResult(t, D).pool
                          /\ events' \in QueueTxEvent(t, AddResult(t, D))
      BY <1>3, Zenon
    <2>2. t \notin pool.all /\ GetNonce[state][From[t]] <= Nonce[t]
      BY <2>1, Zenon DEF Rejects, Valid
    <2> HIDE DEF t
    <2> QED BY <1>1, <2>1, <2>2, Zenon
  <1> QED BY <1>2, <1>3, Zenon DEF AddTx

\* What ReinjectOne adds.
LEMMA ReinjectAdds ==
  ASSUME NEW t \in Txs, ReinjectOne(t)
  PROVE  \/ UNCHANGED <<pool, events>>
         \/ \E D : /\ t \notin pool.all
                   /\ pool' = AddResult(t, D).pool
                   /\ events' \in QueueTxEvent(t, AddResult(t, D))
  BY Zenon DEF ReinjectOne, Rejects

\* Every step keeps the lists above the state's nonces as far as the run got.
LEMMA NextFloor ==
  FloorInv /\ IInv /\ Served /\ LockInv /\ ResetInv /\ [Next]_vars => FloorInv'
  <1> SUFFICES ASSUME FloorInv, IInv, Served, LockInv, ResetInv, [Next]_vars,
                      NEW a \in Accounts
               PROVE  /\ run'.pc \notin {"reinject", "demote"} =>
                           AtLeast(pool'.pending[a], GetNonce[state'][a])
                      /\ run'.pc # "reinject" => AtLeast(pool'.queue[a], GetNonce[state'][a])
                      /\ run'.pc = "reinject" =>
                           /\ \A r \in run'.reset : AtLeast(pool'.pending[a], GetNonce[r.old][a])
                           /\ pool'.nonces[a] \in Nat /\ pool'.nonces[a] <= GetNonce[state'][a]
    BY Zenon DEF FloorInv
  <1> DEFINE s == GetNonce[state][a]
  <1>1. Sound(pool) /\ CallersOK /\ state \in Blocks
    BY Zenon DEF IInv, ResetInv
  <1>2. CASE \E c \in Callers : AddTx(c)
    <2>1. UNCHANGED <<run, state>> /\ mu # "run"
      BY <1>2, Zenon DEF AddTx, LockInv, runVars
    <2>2. run.pc \notin Busy
      BY <2>1, Zenon DEF LockInv
    <2>3. run.pc \notin {"reinject", "demote"}
      BY <2>2, Zenon DEF Busy
    <2>4. AtLeast(pool.pending[a], s) /\ AtLeast(pool.queue[a], s)
      BY <2>3, Zenon DEF FloorInv
    <2>5. CASE pool' = pool
      BY <2>1, <2>3, <2>4, <2>5, Zenon
    <2>6. CASE pool' # pool
      <3>0. PICK t \in Txs : \E D : /\ t \notin pool.all /\ GetNonce[state][From[t]] <= Nonce[t]
                                    /\ pool' = AddResult(t, D).pool
        BY <1>1, <1>2, <2>6, AddTxAdds, Zenon
      <3>1. PICK D : /\ t \notin pool.all /\ GetNonce[state][From[t]] <= Nonce[t]
                     /\ pool' = AddResult(t, D).pool
        BY <3>0, ZenonT(30)
      <3>2. /\ pool'.pending[a] \subseteq pool.pending[a] \cup {t}
            /\ t \in pool'.pending[a] => From[t] = a
            /\ pool'.queue[a] \subseteq pool.queue[a] \cup pool.pending[a]
                                        \cup {u \in {t} : From[u] = a}
        BY <1>1, <3>1, AddParts
      <3>3. AtLeast(pool'.pending[a], s)
        BY <2>4, <3>1, <3>2, Zenon DEF AtLeast
      <3>4. AtLeast(pool'.queue[a], s)
        BY <2>4, <3>1, <3>2, Zenon DEF AtLeast
      <3> QED BY <2>1, <2>3, <3>3, <3>4, Zenon
    <2> QED BY <2>5, <2>6, Zenon
  <1>3. ASSUME NEW t \in Txs, ReinjectOne(t) PROVE
                /\ run'.pc = "reinject" /\ run'.reset = run.reset /\ state' = state
                /\ \A r \in run.reset : AtLeast(pool'.pending[a], GetNonce[r.old][a])
                /\ pool'.nonces[a] \in Nat /\ pool'.nonces[a] <= s
    <2>1. run.pc = "reinject" /\ run'.pc = "reinject" /\ run'.reset = run.reset /\ state' = state
      BY <1>3, Zenon DEF ReinjectOne, Served
    <2>2. /\ \A r \in run.reset : AtLeast(pool.pending[a], GetNonce[r.old][a])
          /\ pool.nonces[a] \in Nat /\ pool.nonces[a] <= s
      BY <2>1, Zenon DEF FloorInv
    <2>3. CASE pool' = pool
      BY <2>1, <2>2, <2>3, Zenon
    <2>4. CASE pool' # pool
      <3>1. PICK D : t \notin pool.all /\ pool' = AddResult(t, D).pool
        BY <1>3, <2>4, ReinjectAdds, ZenonT(30)
      <3>2. /\ pool'.pending[a] \subseteq pool.pending[a] \cup {t}
            /\ t \in pool'.pending[a] => From[t] = a /\ AddResult(t, D).executable
            /\ AddResult(t, D).executable => \E u \in pool.pending[From[t]] : Nonce[u] = Nonce[t]
            /\ pool'.nonces = RemoveTx(pool, D).nonces
        BY <1>1, <3>1, AddParts
      <3>3. t \in pool'.pending[a] => \E u \in pool.pending[a] : Nonce[u] = Nonce[t]
        BY <3>2, Zenon
      <3>4. \A r \in run.reset : AtLeast(pool'.pending[a], GetNonce[r.old][a])
        BY <2>2, <3>2, <3>3, Zenon DEF AtLeast
      <3>5. pool'.nonces[a] \in Nat /\ pool'.nonces[a] <= pool.nonces[a]
        <4>1. RemoveTx(pool, D).nonces[a] \in Nat /\ RemoveTx(pool, D).nonces[a] <= pool.nonces[a]
          BY <1>1, <2>2, RemoveTxNonce, ZenonT(30)
        <4> QED BY <3>2, <4>1, Zenon
      <3>6. pool'.nonces[a] <= s
        <4>1. s \in Nat
          BY <1>1, TxPoolAssumption, Zenon
        <4> QED BY <2>2, <3>5, <4>1
      <3> QED BY <2>1, <3>4, <3>5, <3>6, Zenon
    <2> QED BY <2>3, <2>4, Zenon
  <1>4. CASE PromoteExecutables
    <2> DEFINE A == IF run.reset # {} THEN {b \in Accounts : pool.queue[b] # {}} ELSE run.dirty
    <2>1. /\ pool' = Promote(pool, A) /\ state' = state
          /\ run'.pc = IF run.reset # {} THEN "demote" ELSE "pending"
          /\ run.pc \in {"promote", "reinject"}
      BY <1>4, Zenon DEF PromoteExecutables, Served
    <2>2. run.pc = "promote" <=> run.reset = {}
      BY <2>1, Zenon DEF ResetInv
    <2>3. /\ pool'.pending[a] = IF a \in A THEN AddAll(pool.pending[a], Readies(pool, a))
                                           ELSE pool.pending[a]
          /\ pool'.queue[a] \subseteq pool.queue[a]
          /\ AtLeast(Readies(pool, a), s)
          /\ a \in A => AtLeast(pool'.queue[a], s)
      <3> HIDE DEF A
      <3>1. /\ Promote(pool, A).pending[a] = IF a \in A THEN AddAll(pool.pending[a], Readies(pool, a))
                                                        ELSE pool.pending[a]
            /\ Promote(pool, A).queue[a] \subseteq pool.queue[a]
            /\ AtLeast(Readies(pool, a), s)
            /\ a \in A => AtLeast(Promote(pool, A).queue[a], s)
        BY <1>1, PromoteParts, Zenon
      <3> QED BY <2>1, <3>1, Zenon
    <2>4. CASE run.reset # {}
      <3>1. a \notin A => pool.queue[a] = {}
        BY <2>4, Zenon
      <3>2. AtLeast(pool'.queue[a], s)
        BY <2>3, <3>1, Zenon DEF AtLeast
      <3> QED BY <2>1, <2>4, <3>2, Zenon
    <2>5. CASE run.reset = {}
      <3>1. AtLeast(pool.pending[a], s) /\ AtLeast(pool.queue[a], s)
        BY <2>2, <2>5, Zenon DEF FloorInv
      <3>2. pool'.pending[a] \subseteq pool.pending[a] \cup Readies(pool, a)
        <4> HIDE DEF A
        <4> QED BY <2>3, Zenon DEF AddAll, Inserted
      <3>3. AtLeast(pool'.pending[a], s) /\ AtLeast(pool'.queue[a], s)
        BY <2>3, <3>1, <3>2, Zenon DEF AtLeast
      <3> QED BY <2>1, <2>5, <3>3, Zenon
    <2> QED BY <2>4, <2>5, Zenon
  <1>5. CASE DemoteUnexecutables
    <2>1. pool' = Demote(pool) /\ state' = state /\ run.pc = "demote" /\ run'.pc = "pending"
      BY <1>5, Zenon DEF DemoteUnexecutables, Served
    <2>2. AtLeast(pool.queue[a], s)
      BY <2>1, Zenon DEF FloorInv
    <2>3. /\ AtLeast(pool'.pending[a], s)
          /\ \A t \in pool'.queue[a] : t \notin pool.queue[a] => s <= Nonce[t]
      BY <1>1, <2>1, DemoteParts, Zenon
    <2>4. AtLeast(pool'.queue[a], s)
      BY <2>2, <2>3, Zenon DEF AtLeast
    <2> QED BY <2>1, <2>3, <2>4, Zenon
  <1>6. CASE RunLock /\ run.reset # {}
    <2> DEFINE n == Target(run.reset)
    <2>1. run.pc = "lock" /\ run'.pc = "reinject" /\ run'.reset = run.reset
      BY <1>6, Zenon DEF RunLock, Served
    <2>2. run.reset = {[old |-> state, new |-> n]} /\ n \in Blocks
      BY <1>6, <2>1, RequestTarget, Zenon DEF ResetInv
    <2>3. state' = n /\ pool' = [pool EXCEPT !.nonces = GetNonce[n]]
      BY <1>6, Zenon DEF RunLock, Target
    <2> HIDE DEF n
    <2>4. pool'.pending = pool.pending /\ pool'.nonces = GetNonce[n]
      BY <1>1, <2>3, Zenon DEF Sound, Shape, IsPool
    <2>5. \A r \in run.reset : r.old = state
      <3>1. [old |-> state, new |-> n].old = state
        BY Zenon
      <3> QED BY <2>2, <3>1, Zenon
    <2>6. AtLeast(pool.pending[a], s)
      BY <2>1, Zenon DEF FloorInv
    <2>7. GetNonce[n][a] \in Nat
      BY <2>2, TxPoolAssumption, Zenon
    <2>8. GetNonce[n][a] <= GetNonce[n][a]
      BY <2>7
    <2> QED BY <2>1, <2>3, <2>4, <2>5, <2>6, <2>7, <2>8, Zenon
  <1>7. CASE /\ ~\E c \in Callers : AddTx(c)
             /\ ~\E t \in Txs : ReinjectOne(t)
             /\ ~PromoteExecutables
             /\ ~DemoteUnexecutables
             /\ ~(RunLock /\ run.reset # {})
    <2>1. /\ pool'.pending[a] \subseteq pool.pending[a]
          /\ pool'.queue[a] \subseteq pool.queue[a] \cup pool.pending[a]
      BY <1>1, <1>7, OtherLists, Zenon
    <2>2. /\ run'.pc = "reinject" <=> run.pc = "reinject"
          /\ run'.pc = "demote" <=> run.pc = "demote"
          /\ state' = state
      BY <1>7, NextPc, Zenon
    <2>3. run.pc \in {"reinject", "demote"} => pool' = pool /\ run' = run
      <3>1. run.pc \in {"reinject", "demote"} => mu = "run"
        BY Zenon DEF LockInv, Busy
      <3> SUFFICES ASSUME run.pc \in {"reinject", "demote"}, mu = "run"
                   PROVE  pool' = pool /\ run' = run
        BY <3>1, Zenon
      <3>2. run.pc \notin {"lock", "none", "done", "pending", "equalise", "queue", "send"}
        BY Zenon
      <3>3. ~Launch /\ ~RunDone /\ ~Truncate /\ ~RunUnlock /\ ~Send /\ ~RunLock
        BY <3>2, Zenon DEF Launch, RunDone, Truncate, TruncateStep, Spammers, TruncatePending,
           TruncateQueue, RunUnlock, Send, RunLock
      <3>4. CASE \/ \E c \in Callers : AddTxs(c) \/ RequestPromoteExecutables(c)
                 \/ \E b \in Blocks : HeadEvent(b)
                 \/ RequestReset \/ Stop \/ Shutdown \/ ShutdownDone
                 \/ UNCHANGED vars
        BY <3>4, ZenonT(30) DEF AddTxs, RequestPromoteExecutables, HeadEvent, RequestReset, Stop, Shutdown,
           ShutdownDone, vars, poolVars, runVars
      <3>5. CASE \/ \E price \in PriceLimits : SetGasPrice(price)
                 \/ \E A \in SUBSET (Accounts \ locals) : A # {} /\ Evict(A)
        BY <3>5, Zenon DEF SetGasPrice, Evict
      <3> QED BY <1>7, <3>3, <3>4, <3>5, Zenon DEF Next, ScheduleReorgLoop, RunReorg
    <2>4. CASE run.pc \in {"reinject", "demote"}
      BY <2>2, <2>3, <2>4, Zenon DEF FloorInv
    <2>5. CASE run.pc \notin {"reinject", "demote"}
      <3>1. AtLeast(pool.pending[a], s) /\ AtLeast(pool.queue[a], s)
        BY <2>5, Zenon DEF FloorInv
      <3>2. AtLeast(pool'.pending[a], s) /\ AtLeast(pool'.queue[a], s)
        BY <2>1, <3>1, Zenon DEF AtLeast
      <3> QED BY <2>2, <2>5, <3>2, Zenon
    <2> QED BY <2>4, <2>5, Zenon
  <1> HIDE DEF s
  <1>8. CASE \E t \in Txs : ReinjectOne(t)
    BY <1>3, <1>8, Zenon DEF s
  <1> QED BY <1>2, <1>4, <1>5, <1>6, <1>7, <1>8, Zenon

-----------------------------------------------------------------------------
(* Announcements. *)

\* the transactions of the branch that led to a block are below its nonces
LEMMA ReinjectBelow ==
  ASSUME NEW o \in Blocks, NEW n, NEW t \in Txs, t \in Reinject(o, n)
  PROVE  Nonce[t] < GetNonce[o][From[t]]
  <1> DEFINE a == From[t]
             T == UNION {BlockTxs[c] : c \in Ancestors[o]}
  <1>1. t \in T
    <2>1. \E B : t \in UNION {BlockTxs[c] : c \in Ancestors[o] \ B}
      <3>1. Reinject(o, n) \subseteq UNION {BlockTxs[c] : c \in Ancestors[o] \ Ancestors[n]}
        BY Zenon DEF Reinject
      <3> QED BY <3>1, Zenon
    <2> QED BY <2>1, Zenon
  <1>2. a \in Accounts
    BY TxPoolAssumption, Zenon
  <1>3. {Nonce[u] : u \in Of(T, a)} = GetNonce[Genesis][a] .. GetNonce[o][a] - 1
    BY <1>2, ChainAssumption, Zenon
  <1> HIDE DEF T, a
  <1>4. t \in Of(T, a)
    BY <1>1, Zenon DEF Of, a
  <1>5. Nonce[t] \in GetNonce[Genesis][a] .. GetNonce[o][a] - 1
    BY <1>3, <1>4, Zenon
  <1>6. GetNonce[Genesis][a] \in Nat /\ GetNonce[o][a] \in Nat
    BY <1>2, TxPoolAssumption, Zenon
  <1>7. Nonce[t] < GetNonce[o][a]
    BY <1>5, <1>6
  <1> QED BY <1>7, Zenon DEF a

\* So none of them takes the place of a pending one, and reset queues no event.
LEMMA ReinjectQuiet ==
  ASSUME FloorInv, IInv, ResetInv, NEW t \in Txs, ReinjectOne(t)
  PROVE  /\ events' = events
         /\ \A a \in Accounts : pool'.pending[a] \subseteq pool.pending[a]
  <1>1. CASE UNCHANGED <<pool, events>>
    BY <1>1, Zenon
  <1>2. CASE \E D : /\ t \notin pool.all
                    /\ pool' = AddResult(t, D).pool
                    /\ events' \in QueueTxEvent(t, AddResult(t, D))
    <2>1. PICK D : /\ t \notin pool.all
                   /\ pool' = AddResult(t, D).pool
                   /\ events' \in QueueTxEvent(t, AddResult(t, D))
      BY <1>2, Zenon
    <2>2. Sound(pool) /\ run.pc = "reinject" /\ t \in run.todo /\ From[t] \in Accounts
      BY TxPoolAssumption, Zenon DEF IInv, ReinjectOne
    <2>3. PICK o \in Blocks : /\ run.reset = {[old |-> o, new |-> state]}
                              /\ run.todo \subseteq Reinject(o, state)
      BY <2>2, Zenon DEF ResetInv
    <2>4. Nonce[t] < GetNonce[o][From[t]]
      BY <2>2, <2>3, ReinjectBelow, Zenon
    <2>5. AtLeast(pool.pending[From[t]], GetNonce[o][From[t]])
      <3>1. [old |-> o, new |-> state].old = o /\ [old |-> o, new |-> state] \in run.reset
        BY <2>3, Zenon
      <3>2. \A r \in run.reset : AtLeast(pool.pending[From[t]], GetNonce[r.old][From[t]])
        BY <2>2, Zenon DEF FloorInv
      <3> QED BY <3>1, <3>2, Zenon
    <2>6. ASSUME NEW u \in pool.pending[From[t]], Nonce[u] = Nonce[t] PROVE FALSE
      <3>1. GetNonce[o][From[t]] <= Nonce[t]
        BY <2>5, <2>6, Zenon DEF AtLeast
      <3>2. GetNonce[o][From[t]] \in Nat /\ Nonce[t] \in Nat
        BY <2>2, TxPoolAssumption, Zenon
      <3> QED BY <2>4, <3>1, <3>2
    <2>7. ~AddResult(t, D).executable
      <3>1. AddResult(t, D).executable => \E u \in pool.pending[From[t]] : Nonce[u] = Nonce[t]
        BY <2>1, <2>2, AddParts, SMTT(20)
      <3> QED BY <2>6, <3>1, ZenonT(30)
    <2>8. events' = events
      BY <2>1, <2>7, Zenon DEF QueueTxEvent
    <2>9. ASSUME NEW a \in Accounts PROVE pool'.pending[a] \subseteq pool.pending[a]
      <3>1. /\ pool'.pending[a] \subseteq pool.pending[a] \cup {t}
            /\ t \in pool'.pending[a] => AddResult(t, D).executable
        BY <2>1, <2>2, AddParts
      <3> QED BY <2>7, <3>1, ZenonT(30)
    <2> QED BY <2>8, <2>9, Zenon
  <1> QED BY <1>1, <1>2, ReinjectAdds, Zenon

\* t is announced, or an event of it waits
Heard(t) == t \in announced \cup events \cup run.events

\* a pending transaction is announced or about to be, unless the demotion of
\* the run will drop it; an event that waits will get a run
AnnInv ==
    /\ run.pc \in {"none", "done"} => run.events = {}
    /\ ~closed =>
       /\ events # {} => launch \/ \E c \in Callers : caller[c].pc \in {"add", "request"}
       /\ \A a \in Accounts : \A t \in pool.pending[a] :
            \/ Heard(t)
            \/ run.pc = "demote" /\ Nonce[t] < GetNonce[state][a]

\* AddTx queues the event of a replacement, and drops the one it replaces.
LEMMA AddTxAnn ==
  ASSUME AnnInv, IInv, LockInv, IInv', NEW c \in Callers, AddTx(c)
  PROVE  AnnInv'
  <1>1. UNCHANGED <<run, state, announced, launch, closed>> /\ mu # "run"
    BY Zenon DEF AddTx, runVars, LockInv
  <1>2. run.pc # "demote" /\ Sound(pool) /\ CallersOK
    BY <1>1, Zenon DEF LockInv, Busy, IInv
  <1>3. caller'[c].pc \in {"add", "request"}
    BY <1>2, AddTxCaller, Zenon
  <1>4. ASSUME ~closed, NEW a \in Accounts, NEW u \in pool'.pending[a] PROVE Heard(u)'
    <2>1. CASE UNCHANGED <<pool, events>>
      BY <1>1, <1>2, <1>4, <2>1, Zenon DEF AnnInv, Heard
    <2>2. CASE \E t \in Txs : \E D : /\ t \notin pool.all
                                     /\ pool' = AddResult(t, D).pool
                                     /\ events' \in QueueTxEvent(t, AddResult(t, D))
      <3>0. PICK t \in Txs : \E D : /\ t \notin pool.all
                                    /\ pool' = AddResult(t, D).pool
                                    /\ events' \in QueueTxEvent(t, AddResult(t, D))
        BY <2>2, Zenon
      <3>1. PICK D : /\ t \notin pool.all
                     /\ pool' = AddResult(t, D).pool
                     /\ events' \in QueueTxEvent(t, AddResult(t, D))
        BY <3>0, ZenonT(30)
      <3> DEFINE R == AddResult(t, D)
      <3>2. /\ pool'.pending[a] \subseteq pool.pending[a] \cup {t}
            /\ t \in pool'.pending[a] => R.ok /\ R.executable
        BY <1>2, <3>1, AddParts, SMTT(20)
      <3>3. R.ok /\ R.executable => t \in pool'.pending[From[t]]
        <4>1. From[t] \in Accounts
          BY TxPoolAssumption, Zenon
        <4> QED BY <1>2, <3>1, <4>1, AddParts, ZenonT(30)
      <3> HIDE DEF R
      <3>4. \/ events' = events /\ ~(R.ok /\ R.executable)
            \/ events' = PutEvents(events, {t}) /\ R.ok /\ R.executable
        BY <1>4, <3>1, Zenon DEF QueueTxEvent, R
      <3>5. CASE u = t
        BY <3>2, <3>4, <3>5, Zenon DEF PutEvents, Heard
      <3>6. CASE u # t
        <4>1. u \in pool.pending[a]
          BY <3>2, <3>6, Zenon
        <4>2. Heard(u)
          BY <1>2, <1>4, <4>1, Zenon DEF AnnInv
        <4>3. CASE events' = events
          BY <1>1, <4>2, <4>3, Zenon DEF Heard
        <4>4. CASE events' = PutEvents(events, {t}) /\ t \in pool'.pending[From[t]]
          <5>1. From[t] = From[u] /\ Nonce[t] = Nonce[u] => FALSE
            <6> SUFFICES ASSUME From[t] = From[u], Nonce[t] = Nonce[u] PROVE FALSE
              BY Zenon
            <6>1. Shape(pool')
              BY Zenon DEF IInv, Sound
            <6>2. From[u] = a
              BY <6>1, Zenon DEF Shape, In
            <6>3. t \in In(pool', a) /\ u \in In(pool', a)
              BY <4>4, <6>2, Zenon DEF In
            <6>4. t = u
              BY <6>1, <6>3, SameIsEqual, Zenon
            <6> QED BY <3>6, <6>4, Zenon
          <5>2. u \in events => u \in events'
            BY <4>4, <5>1, Zenon DEF PutEvents
          <5> QED BY <1>1, <4>2, <5>2, Zenon DEF Heard
        <4> QED BY <3>3, <3>4, <4>3, <4>4, Zenon
      <3> QED BY <3>5, <3>6, Zenon
    <2> QED BY <1>2, <2>1, <2>2, AddTxAdds, Zenon
  <1> QED BY <1>1, <1>3, <1>4, Zenon DEF AnnInv

\* accounts marked for promotion are accounts
DirtyInv ==
    /\ dirty \subseteq Accounts
    /\ run.dirty \subseteq Accounts
    /\ \A c \in Callers : caller[c].dirty \subseteq Accounts

\* Every step marks senders only.
LEMMA NextDirty == DirtyInv /\ CallersOK /\ Served /\ [Next]_vars => DirtyInv'
  <1> SUFFICES ASSUME DirtyInv, CallersOK, Served, [Next]_vars PROVE DirtyInv'
    BY Zenon
  <1>1. ASSUME NEW c \in Callers, AddTx(c) PROVE DirtyInv'
    <2> DEFINE t == Head(caller[c].todo)
    <2>1. UNCHANGED <<dirty, run>>
      BY <1>1, Zenon DEF AddTx, runVars
    <2>2. From[t] \in Accounts
      <3>1. CallerOK(caller[c]) /\ caller[c].pc \in {"lock", "add"}
        BY <1>1, Zenon DEF AddTx, CallersOK
      <3>2. t \in Txs
        BY <3>1 DEF CallerOK
      <3> QED BY <3>2, TxPoolAssumption, Zenon
    <2>3. PICK D, E : /\ D \subseteq {From[t]}
                      /\ caller' = [caller EXCEPT
                           ![c].pc = IF Len(caller[c].todo) = 1 THEN "request" ELSE "add",
                           ![c].todo = Tail(@),
                           ![c].errs = E,
                           ![c].dirty = @ \cup D]
      <3>1. CASE UNCHANGED <<pool, locals, events>>
        BY <1>1, ZenonT(30) DEF AddTx
      <3> QED BY <1>1, ZenonT(30) DEF AddTx
    <2> HIDE DEF t
    <2>4. \A d \in Callers : caller'[d].dirty \subseteq caller[d].dirty \cup D
      <3> SUFFICES ASSUME NEW d \in Callers
                   PROVE  caller'[d].dirty \subseteq caller[d].dirty \cup D
        BY Zenon
      <3>1. CallerOK(caller[d]) /\ DOMAIN caller = Callers
        BY Zenon DEF CallersOK
      <3>2. CASE d = c
        <4>1. caller'[c].dirty = caller[c].dirty \cup D
          BY <2>3, <3>1, <3>2, Zenon DEF CallerOK
        <4> QED BY <3>2, <4>1, Zenon
      <3>3. CASE d # c
        <4>1. caller'[d] = caller[d]
          BY <2>3, <3>1, <3>3, Zenon
        <4> QED BY <4>1, Zenon
      <3> QED BY <3>2, <3>3, Zenon
    <2> QED BY <2>1, <2>2, <2>3, <2>4, Zenon DEF DirtyInv
  <1>2. ASSUME NEW c \in Callers, AddTxs(c) PROVE DirtyInv'
    <2>1. UNCHANGED <<dirty, run>>
      BY <1>2, Zenon DEF AddTxs, loopVars, runVars
    <2>2. ASSUME NEW d \in Callers PROVE caller'[d].dirty \subseteq caller[d].dirty
      <3>1. CallerOK(caller[d]) /\ DOMAIN caller = Callers
        BY Zenon DEF CallersOK
      <3>2. CASE d = c
        <4>1. caller'[d].dirty = {}
          BY <1>2, <3>1, <3>2, Zenon DEF AddTxs, CallerOK
        <4> QED BY <4>1, Zenon
      <3>3. CASE d # c
        <4>1. caller'[d] = caller[d]
          BY <1>2, <3>1, <3>3, Zenon DEF AddTxs
        <4> QED BY <4>1, Zenon
      <3> QED BY <3>2, <3>3, Zenon
    <2> QED BY <2>1, <2>2, Zenon DEF DirtyInv
  <1>3. ASSUME NEW c \in Callers, RequestPromoteExecutables(c) PROVE DirtyInv'
    <2>1. run' = run /\ dirty' \subseteq dirty \cup caller[c].dirty
      BY <1>3 DEF RequestPromoteExecutables, runVars
    <2>2. ASSUME NEW d \in Callers PROVE caller'[d].dirty = caller[d].dirty
      <3>1. CallerOK(caller[d]) /\ DOMAIN caller = Callers
        BY Zenon DEF CallersOK
      <3> QED BY <1>3, <3>1 DEF RequestPromoteExecutables, CallerOK
    <2> QED BY <2>1, <2>2, Zenon DEF DirtyInv
  <1>4. ASSUME NEW from, NEW to, caller' = Move(from, to)
        PROVE  \A c \in Callers : caller'[c].dirty = caller[c].dirty
    <2> SUFFICES ASSUME NEW c \in Callers PROVE caller'[c].dirty = caller[c].dirty
      BY Zenon
    <2>1. CallerOK(caller[c])
      BY Zenon DEF CallersOK
    <2> QED BY <1>4, <2>1, Zenon DEF Move, CallerOK
  <1>5. CASE Launch
    <2>1. caller' = Move({"next"}, "cur") /\ dirty' = {}
          /\ run' = [pc |-> "lock", reset |-> reset, dirty |-> dirty, events |-> events,
                     todo |-> {}]
      BY <1>5, Zenon DEF Launch
    <2>2. run'.dirty = dirty
      BY <2>1, Zenon
    <2>3. \A c \in Callers : caller'[c].dirty = caller[c].dirty
      BY <1>4, <2>1, Zenon
    <2> QED BY <2>1, <2>2, <2>3, Zenon DEF DirtyInv
  <1>6. CASE Send
    <2>1. caller' = Move({"cur"}, "idle") /\ dirty' = dirty
          /\ run' = [pc |-> "done", reset |-> {}, dirty |-> {}, events |-> {}, todo |-> {}]
      BY <1>6, Zenon DEF Send, loopVars
    <2>2. run'.dirty = {}
      BY <2>1, Zenon
    <2>3. \A c \in Callers : caller'[c].dirty = caller[c].dirty
      BY <1>4, <2>1, Zenon
    <2> QED BY <2>1, <2>2, <2>3, Zenon DEF DirtyInv
  <1>7. CASE ShutdownDone
    <2>1. caller' = Move({"next"}, "idle") /\ dirty' = dirty /\ run' = run
      BY <1>7, Zenon DEF ShutdownDone, runVars
    <2>3. \A c \in Callers : caller'[c].dirty = caller[c].dirty
      BY <1>4, <2>1, Zenon
    <2> QED BY <2>1, <2>3, Zenon DEF DirtyInv
  <1>8. CASE \/ RunLock \/ (\E t \in Txs : ReinjectOne(t)) \/ PromoteExecutables
             \/ DemoteUnexecutables \/ Truncate \/ RunUnlock \/ RunDone
    <2>1. caller' = caller /\ dirty' = dirty
      BY <1>8, Zenon DEF RunLock, ReinjectOne, PromoteExecutables, DemoteUnexecutables, Truncate,
         RunUnlock, RunDone, loopVars
    <2>2. run'.dirty = run.dirty
      BY <1>8, Zenon DEF RunLock, ReinjectOne, PromoteExecutables, DemoteUnexecutables, Truncate,
         TruncateStep, Spammers, TruncatePending, Truncates, TruncateQueue, RunUnlock, RunDone,
         runVars, Served
    <2> QED BY <2>1, <2>2, Zenon DEF DirtyInv
  <1>9. CASE \/ \E price \in PriceLimits : SetGasPrice(price)
             \/ \E b \in Blocks : HeadEvent(b)
             \/ RequestReset \/ Stop \/ Shutdown
             \/ \E A \in SUBSET (Accounts \ locals) : A # {} /\ Evict(A)
             \/ UNCHANGED vars
    <2>1. UNCHANGED <<run, dirty, caller>>
      BY <1>9, Zenon DEF SetGasPrice, HeadEvent, RequestReset, Stop, Shutdown, Evict, vars,
         loopVars, runVars
    <2> QED BY <2>1, Zenon DEF DirtyInv
  <1> QED
    BY <1>1, <1>2, <1>3, <1>5, <1>6, <1>7, <1>8, <1>9, Zenon
    DEF Next, ScheduleReorgLoop, RunReorg

\* Promotions are announced; a stale event of a reset belongs to a transaction
\* that the demotion drops.
LEMMA PromoteAnn ==
  ASSUME AnnInv, IInv, DirtyInv, Served, FloorInv, ResetInv, IInv', PromoteExecutables
  PROVE  AnnInv'
  <1> DEFINE A == IF run.reset # {} THEN {b \in Accounts : pool.queue[b] # {}} ELSE run.dirty
             fresh == IF run.reset # {} THEN {t \in run.events : Nonce[t] >= pool.nonces[From[t]]}
                      ELSE run.events
             new == Promoted(pool, A)
  <1>1. /\ pool' = Promote(pool, A) /\ state' = state
        /\ run'.pc = IF run.reset # {} THEN "demote" ELSE "pending"
        /\ run'.events = PutEvents(fresh, new)
        /\ run.pc \in {"promote", "reinject"}
        /\ UNCHANGED <<announced, events, launch, closed, caller>>
    BY Zenon DEF PromoteExecutables, Served, loopVars
  <1>2. Sound(pool) /\ Shape(pool) /\ Shape(pool') /\ state \in Blocks
    BY Zenon DEF IInv, Sound, ResetInv
  <1>3. A \subseteq Accounts
    BY Zenon DEF DirtyInv
  <1>4. run.reset # {} => run.pc = "reinject"
    BY <1>1, Zenon DEF ResetInv
  <1> HIDE DEF A
  <1>5. ASSUME NEW b \in Accounts
        PROVE  /\ pool'.pending[b] = IF b \in A THEN AddAll(pool.pending[b], Readies(pool, b))
                                                ELSE pool.pending[b]
               /\ Readies(pool, b) \subseteq pool.queue[b]
    <2>1. /\ Promote(pool, A).pending[b] = IF b \in A THEN AddAll(pool.pending[b], Readies(pool, b))
                                                      ELSE pool.pending[b]
          /\ Readies(pool, b) \subseteq pool.queue[b]
      BY <1>2, PromoteParts
    <2> QED BY <1>1, <2>1, Zenon
  <1>6. ASSUME NEW t \in new PROVE From[t] \in Accounts /\ t \in pool'.pending[From[t]]
    <2>1. PICK b \in A : t \in Inserted(pool.pending[b], Readies(pool, b))
      BY <1>6, Zenon DEF Promoted
    <2>2. b \in Accounts /\ t \in Readies(pool, b)
      BY <1>3, <2>1, Zenon DEF Inserted
    <2>3. t \in pool.queue[b]
      BY <1>5, <2>2, Zenon
    <2>4. From[t] = b
      BY <1>2, <2>2, <2>3, Zenon DEF Shape, In
    <2>5. t \in pool'.pending[b]
      BY <1>5, <2>1, <2>2, Zenon DEF AddAll
    <2> QED BY <2>2, <2>4, <2>5, Zenon
  <1>7. ASSUME NEW a \in Accounts, NEW u \in pool'.pending[a], u \notin pool.pending[a]
        PROVE  u \in new
    <2>1. a \in A
      BY <1>5, <1>7, Zenon
    <2>2. u \in AddAll(pool.pending[a], Readies(pool, a))
      BY <1>5, <1>7, <2>1, Zenon
    <2>3. u \in Inserted(pool.pending[a], Readies(pool, a))
      BY <1>7, <2>2, Zenon DEF AddAll
    <2> QED BY <2>1, <2>3, Zenon DEF Promoted
  <1> HIDE DEF new
  <1>8. ASSUME ~closed, NEW a \in Accounts, NEW u \in pool'.pending[a]
        PROVE  \/ Heard(u)'
               \/ run'.pc = "demote" /\ Nonce[u] < GetNonce[state'][a]
    <2>1. CASE u \in new
      BY <1>1, <2>1, Zenon DEF PutEvents, Heard
    <2>2. CASE u \notin new
      <3>1. u \in pool.pending[a]
        BY <1>7, <1>8, <2>2, Zenon
      <3>2. Heard(u)
        BY <1>1, <1>8, <3>1, Zenon DEF AnnInv
      <3>3. CASE u \in announced \cup events
        BY <1>1, <3>3, Zenon DEF Heard
      <3>4. CASE u \in run.events
        <4>1. From[u] = a /\ u \in Txs
          BY <1>2, <3>1, Zenon DEF Shape, In
        <4>2. CASE u \in fresh
          <5>1. ASSUME NEW t \in new, From[t] = From[u], Nonce[t] = Nonce[u] PROVE FALSE
            <6>1. t \in In(pool', a) /\ u \in In(pool', a)
              BY <1>6, <1>8, <4>1, <5>1, Zenon DEF In
            <6>2. t = u
              BY <1>2, <5>1, <6>1, SameIsEqual, Zenon
            <6> QED BY <2>2, <6>2, Zenon
          <5>2. u \in PutEvents(fresh, new)
            BY <4>2, <5>1, Zenon DEF PutEvents
          <5> QED BY <1>1, <5>2, Zenon DEF Heard
        <4>3. CASE u \notin fresh
          <5>1. run.reset # {} /\ ~(Nonce[u] >= pool.nonces[a])
            BY <3>4, <4>1, <4>3, Zenon
          <5>2. pool.nonces[a] \in Nat /\ pool.nonces[a] <= GetNonce[state][a]
            BY <1>4, <5>1, Zenon DEF FloorInv
          <5>3. Nonce[u] \in Nat /\ GetNonce[state][a] \in Nat
            BY <1>2, <4>1, TxPoolAssumption, Zenon
          <5>4. Nonce[u] < GetNonce[state][a]
            BY <5>1, <5>2, <5>3
          <5> QED BY <1>1, <5>1, <5>4, Zenon
        <4> QED BY <4>2, <4>3, Zenon
      <3> QED BY <3>2, <3>3, <3>4, Zenon DEF Heard
    <2> QED BY <2>1, <2>2, Zenon
  <1>9. run'.pc \notin {"none", "done"}
    BY <1>1, Zenon
  <1>10. ~closed' => (events' # {} => launch' \/ \E c \in Callers : caller'[c].pc \in {"add", "request"})
    BY <1>1, Zenon DEF AnnInv
  <1>11. closed' = closed
    BY <1>1, Zenon
  <1> QED BY <1>8, <1>9, <1>10, <1>11, Zenon DEF AnnInv

\* Every other step keeps what is announced or due, and pending lists shrink.
LEMMA OtherAnn ==
  ASSUME AnnInv, IInv, Served, LockInv, ResetInv, FloorInv, [Next]_vars,
         ~\E c \in Callers : AddTx(c), ~PromoteExecutables
  PROVE  AnnInv'
  <1>1. Sound(pool) /\ CallersOK /\ state \in Blocks
    BY Zenon DEF IInv, ResetInv
  <1>2. ASSUME NEW a \in Accounts PROVE pool'.pending[a] \subseteq pool.pending[a]
    <2>1. CASE \E t \in Txs : ReinjectOne(t)
      BY <1>2, <2>1, ReinjectQuiet, Zenon
    <2>2. CASE DemoteUnexecutables
      <3>1. Demote(pool).pending[a] \subseteq pool.pending[a]
        BY <1>1, DemoteParts
      <3> QED BY <2>2, <3>1, ZenonT(30) DEF DemoteUnexecutables
    <2>3. CASE ~(\E t \in Txs : ReinjectOne(t)) /\ ~DemoteUnexecutables
      BY <1>1, <2>3, OtherLists, Zenon
    <2> QED BY <2>1, <2>2, <2>3, Zenon
  <1>3. ASSUME NEW from \in {{"next"}, {"cur"}}, NEW to, caller' = Move(from, to),
               NEW c \in Callers, caller[c].pc \in {"add", "request"}
        PROVE  caller'[c] = caller[c]
    <2>1. caller[c].pc \notin from
      BY <1>3, Zenon
    <2> QED BY <1>3, <2>1, Zenon DEF Move
  \* events, announcements and the run's own events
  <1>4. /\ run'.pc \in {"none", "done"} => run'.events = {}
        /\ announced \cup events \cup run.events \subseteq announced' \cup events' \cup run'.events
        /\ ~closed' => ~closed
        /\ ~closed' /\ events' # {} =>
             \/ launch'
             \/ events' = events /\ (launch => launch')
                /\ \A c \in Callers : caller[c].pc \in {"add", "request"} =>
                                        caller'[c].pc \in {"add", "request"}
    <2>1. CASE Launch
      <3>1. run' = [pc |-> "lock", reset |-> reset, dirty |-> dirty, events |-> events,
                    todo |-> {}]
            /\ events' = {} /\ announced' = announced /\ closed' = closed /\ run.pc = "none"
        BY <2>1, Zenon DEF Launch
      <3>2. run'.events = events /\ run'.pc = "lock" /\ run.events = {}
        BY <3>1, Zenon DEF AnnInv
      <3> QED BY <3>1, <3>2, Zenon
    <2>2. CASE Send
      <3>1. /\ run' = [pc |-> "done", reset |-> {}, dirty |-> {}, events |-> {}, todo |-> {}]
            /\ events' = events /\ announced' = announced \cup run.events
            /\ closed' = closed /\ launch' = launch /\ caller' = Move({"cur"}, "idle")
        BY <2>2, Zenon DEF Send, loopVars
      <3>2. run'.events = {}
        BY <3>1, Zenon
      <3>3. \A c \in Callers : caller[c].pc \in {"add", "request"} => caller'[c] = caller[c]
        BY <1>3, <3>1, Zenon
      <3> QED BY <3>1, <3>2, <3>3, Zenon
    <2>3. CASE ShutdownDone
      <3>1. UNCHANGED <<run, events, announced, closed, launch>> /\ caller' = Move({"next"}, "idle")
        BY <2>3, Zenon DEF ShutdownDone, runVars
      <3>2. \A c \in Callers : caller[c].pc \in {"add", "request"} => caller'[c] = caller[c]
        BY <1>3, <3>1, Zenon
      <3> QED BY <3>1, <3>2, Zenon DEF AnnInv
    <2>4. ASSUME NEW d \in Callers, RequestPromoteExecutables(d) PROVE
             /\ UNCHANGED <<run, events, announced, closed>> /\ (launch' \/ closed)
      BY <2>4, Zenon DEF RequestPromoteExecutables, runVars
    <2>5. ASSUME NEW d \in Callers, AddTxs(d) PROVE
             /\ UNCHANGED <<run, events, announced, closed, launch>>
             /\ \A c \in Callers : caller[c].pc \in {"add", "request"} => caller'[c] = caller[c]
      <3>1. UNCHANGED <<run, events, announced, closed, launch>> /\ caller[d].pc = "idle"
        BY <2>5, Zenon DEF AddTxs, loopVars, runVars
      <3>2. ASSUME NEW c \in Callers, caller[c].pc \in {"add", "request"} PROVE caller'[c] = caller[c]
        <4>1. c # d /\ DOMAIN caller = Callers
          BY <1>1, <3>1, <3>2, Zenon DEF CallersOK
        <4> QED BY <2>5, <4>1, Zenon DEF AddTxs
      <3> QED BY <3>1, <3>2, Zenon
    <2>6. CASE RunDone
      <3>1. run.pc = "done" /\ run'.events = run.events
            /\ UNCHANGED <<events, announced, closed, launch, caller>>
        BY <2>6, Zenon DEF RunDone, Served, loopVars
      <3> QED BY <3>1, Zenon DEF AnnInv
    <2>7. CASE \/ RunLock \/ (\E t \in Txs : ReinjectOne(t)) \/ DemoteUnexecutables \/ Truncate
               \/ RunUnlock
      <3>1. UNCHANGED <<announced, closed, launch, caller>>
        BY <2>7, Zenon DEF RunLock, ReinjectOne, DemoteUnexecutables, Truncate, RunUnlock, loopVars
      <3>2. run'.events = run.events /\ run'.pc \notin {"none", "done"}
        <4>1. CASE RunLock \/ DemoteUnexecutables \/ RunUnlock
          BY <4>1, Zenon DEF RunLock, DemoteUnexecutables, RunUnlock, Served
        <4>2. CASE \E t \in Txs : ReinjectOne(t)
          BY <4>2, Zenon DEF ReinjectOne, Served
        <4>3. CASE Truncate
          BY <4>3, Zenon DEF Truncate, TruncateStep, Spammers, TruncatePending, Truncates,
             TruncateQueue, runVars, Served
        <4> QED BY <2>7, <4>1, <4>2, <4>3, Zenon
      <3>3. events' = events
        <4>1. CASE \E t \in Txs : ReinjectOne(t)
          BY <4>1, ReinjectQuiet, Zenon
        <4> QED BY <2>7, <4>1, Zenon DEF RunLock, DemoteUnexecutables, Truncate, RunUnlock, loopVars
      <3> QED BY <3>1, <3>2, <3>3, Zenon
    <2>8. CASE RequestReset
      <3>1. launch' /\ UNCHANGED <<run, events, announced, closed>>
        BY <2>8, Zenon DEF RequestReset, runVars
      <3> QED BY <3>1, Zenon DEF AnnInv
    <2>9. CASE Stop
      <3>1. closed' /\ UNCHANGED <<run, events, announced>>
        BY <2>9, Zenon DEF Stop, runVars
      <3> QED BY <3>1, Zenon DEF AnnInv
    <2>10. CASE \/ \E price \in PriceLimits : SetGasPrice(price)
                \/ \E b \in Blocks : HeadEvent(b)
                \/ Shutdown
                \/ \E A \in SUBSET (Accounts \ locals) : A # {} /\ Evict(A)
                \/ UNCHANGED vars
      <3>1. UNCHANGED <<run, events, announced, closed, launch, caller>>
        BY <2>10, Zenon DEF SetGasPrice, HeadEvent, Shutdown, Evict, vars, loopVars, runVars
      <3> QED BY <3>1, Zenon DEF AnnInv
    <2>11. CASE \E d \in Callers : RequestPromoteExecutables(d)
      <3>1. UNCHANGED <<run, events, announced, closed>> /\ (launch' \/ closed)
        BY <2>4, <2>11, Zenon
      <3>2. run'.pc \in {"none", "done"} => run'.events = {}
        BY <3>1, Zenon DEF AnnInv
      <3> QED BY <3>1, <3>2, Zenon
    <2>12. CASE \E d \in Callers : AddTxs(d)
      BY <2>5, <2>12, Zenon DEF AnnInv
    <2> QED
      BY <2>1, <2>2, <2>3, <2>6, <2>7, <2>8, <2>9, <2>10, <2>11, <2>12, Zenon
      DEF Next, ScheduleReorgLoop, RunReorg
  <1>5. ASSUME ~closed', NEW a \in Accounts, NEW u \in pool'.pending[a]
        PROVE  \/ Heard(u)'
               \/ run'.pc = "demote" /\ Nonce[u] < GetNonce[state'][a]
    <2>1. u \in pool.pending[a] /\ ~closed
      BY <1>2, <1>4, <1>5, Zenon
    <2>2. CASE Heard(u)
      BY <1>4, <2>2, Zenon DEF Heard
    <2>3. CASE run.pc = "demote" /\ Nonce[u] < GetNonce[state][a]
      <3>1. CASE DemoteUnexecutables
        <4>1. AtLeast(Demote(pool).pending[a], GetNonce[state][a])
          BY <1>1, DemoteParts, Zenon
        <4>2. GetNonce[state][a] <= Nonce[u]
          BY <1>5, <3>1, <4>1, Zenon DEF DemoteUnexecutables, AtLeast
        <4>3. u \in Txs
          BY <1>1, <2>1, Zenon DEF Sound, Shape
        <4>4. Nonce[u] \in Nat /\ GetNonce[state][a] \in Nat
          BY <1>1, <4>3, TxPoolAssumption, Zenon
        <4> QED BY <2>3, <4>2, <4>4
      <3>2. CASE ~DemoteUnexecutables
        <4>1. run'.pc = "demote"
          BY <2>3, <3>2, NextPc, Zenon
        <4>2. state' = state
          BY <2>3, NextPc, Zenon DEF RunLock
        <4> QED BY <2>3, <4>1, <4>2, Zenon
      <3> QED BY <3>1, <3>2, Zenon
    <2> QED BY <2>1, <2>2, <2>3, Zenon DEF AnnInv
  <1>6. ASSUME ~closed', events' # {}
        PROVE  launch' \/ \E c \in Callers : caller'[c].pc \in {"add", "request"}
    BY <1>4, <1>6, Zenon DEF AnnInv
  <1> QED BY <1>4, <1>5, <1>6, Zenon DEF AnnInv

\* Every step keeps pending transactions announced or due to be.
LEMMA NextAnn ==
  AnnInv /\ IInv /\ Served /\ LockInv /\ ResetInv /\ DirtyInv /\ FloorInv /\ IInv' /\ [Next]_vars
    => AnnInv'
  <1>1. CASE \E c \in Callers : AddTx(c)
    BY <1>1, AddTxAnn, Zenon
  <1>2. CASE PromoteExecutables
    BY <1>2, PromoteAnn, Zenon
  <1> QED BY <1>1, <1>2, OtherAnn, Zenon

\* The initial state satisfies what holds of the runs.
LEMMA InitRun == Init => Served /\ LockInv /\ ResetInv /\ FloorInv
  <1> SUFFICES ASSUME Init PROVE Served /\ LockInv /\ ResetInv /\ FloorInv
    BY Zenon
  <1>1. run = [pc |-> "none", reset |-> {}, dirty |-> {}, events |-> {}, todo |-> {}]
    BY Zenon DEF Init
  <1>2. DOMAIN run = {"pc", "reset", "dirty", "events", "todo"} /\ run.pc = "none" /\ run.reset = {}
    BY <1>1, Zenon
  <1>3. \A c \in Callers : caller[c].pc = "idle"
    BY Zenon DEF Init
  <1>4. /\ headCh = <<>> /\ head = Genesis /\ current = Genesis /\ state = Genesis
        /\ reset = {} /\ headCh \in Seq(Blocks)
    BY DEF Init
  <1>5. \A a \in Accounts : pool.pending[a] = {} /\ pool.queue[a] = {}
    BY Zenon DEF Init
  <1>6. mu = "free"
    BY Zenon DEF Init
  <1>7. Served
    BY <1>2, <1>3, <1>4, Zenon DEF Served
  <1>8. LockInv
    BY <1>2, <1>3, <1>6, Zenon DEF LockInv, Busy
  <1>9. ResetInv
    BY <1>2, <1>4, TxPoolAssumption, Zenon DEF ResetInv
  <1>10. FloorInv
    BY <1>2, <1>5, Zenon DEF FloorInv, AtLeast
  <1> QED BY <1>7, <1>8, <1>9, <1>10, Zenon

\* For any accounts, transactions, chain, callers and limits: when every run
\* has ended and no caller is active, each pending transaction has been sent
\* to the subscribers of NewTxsEvent.  Promotions travel in the run's own event
\* map and replacements in the loop's; no reset drops an event whose
\* transaction stays pending.
THEOREM PendingIsAnnounced == Spec => []PendingAnnounced
  <1> DEFINE I == Served /\ LockInv /\ ResetInv /\ DirtyInv /\ FloorInv /\ AnnInv
  <1>1. Init => I
    <2> SUFFICES ASSUME Init PROVE I
      BY Zenon
    <2>1. run = [pc |-> "none", reset |-> {}, dirty |-> {}, events |-> {}, todo |-> {}]
      BY Zenon DEF Init
    <2>2. run.pc = "none" /\ run.dirty = {} /\ run.events = {}
      BY <2>1, Zenon
    <2>3. \A c \in Callers : caller[c].pc = "idle" /\ caller[c].dirty = {}
      BY Zenon DEF Init
    <2>4. \A a \in Accounts : pool.pending[a] = {}
      BY Zenon DEF Init
    <2>5. dirty = {} /\ events = {}
      BY Zenon DEF Init
    <2>6. Served /\ LockInv /\ ResetInv /\ FloorInv
      BY InitRun, Zenon
    <2>7. DirtyInv
      BY <2>2, <2>3, <2>5, Zenon DEF DirtyInv
    <2>8. AnnInv
      BY <2>2, <2>4, <2>5, Zenon DEF AnnInv
    <2> QED BY <2>6, <2>7, <2>8, Zenon
  <1>2. I /\ IInv /\ IInv' /\ [Next]_vars => I'
    <2> SUFFICES ASSUME I, IInv, IInv', [Next]_vars PROVE I'
      BY Zenon
    <2>1. CallersOK
      BY Zenon DEF IInv
    <2>2. Served' /\ LockInv' /\ ResetInv' /\ DirtyInv'
      BY <2>1, NextServed, NextLock, NextReset, NextDirty, Zenon
    <2>3. FloorInv' /\ AnnInv'
      BY NextFloor, NextAnn, Zenon
    <2> QED BY <2>2, <2>3, Zenon
  <1>3. I => PendingAnnounced
    <2> SUFFICES ASSUME I, Quiet, \A c \in Callers : caller[c].pc = "idle",
                        NEW a \in Accounts, NEW t \in pool.pending[a]
                 PROVE  t \in announced
      BY Zenon DEF PendingAnnounced
    <2>1. run.pc = "none" /\ ~launch /\ ~closed
      BY Zenon DEF Quiet
    <2>2. run.events = {} /\ events = {}
      BY <2>1, Zenon DEF AnnInv
    <2>3. Heard(t)
      BY <2>1, Zenon DEF AnnInv
    <2> QED BY <2>2, <2>3, Zenon DEF Heard
  <1>4. (Init => IInv) /\ (IInv /\ [Next]_vars => IInv')
    BY InitInv, NextInv, Zenon
  <1> HIDE DEF I
  <1> QED BY <1>1, <1>2, <1>3, <1>4, PTL DEF Spec
=============================================================================
