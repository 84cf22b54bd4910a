---------------------------- MODULE TppowProofs -----------------------------
(***************************************************************************)
(* What the miner seals the verifier accepts, for all lucks, targets,      *)
(* hashes, gas targets above the least, block times and widths of nonces.  *)
(* And no header is an uncle twice on a chain, for any window, number of   *)
(* uncles and tree of headers: an uncle is younger than the window, so a   *)
(* block that named it before is inside it.                                *)
(***************************************************************************)
EXTENDS Tppow, Uncles, FiniteSetTheorems, TLAPS

Fields == {"number", "time", "gasLimit", "gasUsed", "basis", "alpha", "lucky", "beta",
           "difficulty", "first", "second"}

(* A header whose time and gas are sound.                                  *)
Sound(h) ==
    /\ DOMAIN h = Fields /\ h = [f \in Fields |-> h[f]]
    /\ h.number \in Nat /\ h.time \in Nat
    /\ h.gasLimit \in Nat /\ h.gasUsed \in Nat
    /\ h.gasLimit >= MinGasLimit /\ h.gasUsed <= h.gasLimit

(* The header on its way from Prepare to delivery.                         *)
Busy == seal # "returned" \/ pc # "ended"

Prepared ==
    /\ header.number = parent.number + 1
    /\ header.time > parent.time /\ header.time <= now + 1
    /\ header.gasLimit = CalcGasLimit(parent)
    /\ calcParam(header.number, header.time, parent)
          = [basis |-> header.basis, alpha |-> header.alpha]

(* What the first search has settled, and what the second.                 *)
Lucky ==
    /\ hashA[header.first] < header.alpha
    /\ lucks[header.first] = header.lucky
    /\ header.beta = calcBeta(header.lucky, header.basis)
    /\ header.difficulty = calcDifficulty(header)

IInv ==
    /\ now \in Nat
    /\ Sound(head) /\ Sound(parent) /\ Sound(header)
    /\ pc \in {"search_luck", "search_block", "found", "ended"}
    /\ Busy => Prepared
    /\ (pc \in {"search_block", "found"} \/ seal = "found") => Lucky
    /\ (pc = "found" \/ seal = "found") => hashB[header.second] < header.beta
    /\ seal = "found" => pc = "ended"

-----------------------------------------------------------------------------
(* CalcGasLimit stays within the bound verifyHeader imposes.               *)
THEOREM GasLimitInBounds ==
    ASSUME NEW p, Sound(p)
    PROVE  LET g == CalcGasLimit(p)
           IN  /\ g \in Nat /\ g >= MinGasLimit
               /\ g < p.gasLimit + p.gasLimit \div GasLimitBoundDivisor
               /\ g > p.gasLimit - p.gasLimit \div GasLimitBoundDivisor
  <1> DEFINE L == p.gasLimit
             U == p.gasUsed
             contrib == (U + U \div 2) \div 1024
             q == L \div 1024
             wanted == L - (q - 1) + contrib
             limit == IF wanted < 5000 THEN 5000 ELSE wanted
             g == CalcGasLimit(p)
  <1>1. L \in Nat /\ U \in Nat /\ L >= 5000 /\ U <= L
    BY DEF Sound, MinGasLimit
  <1>2. GasFloor \in Nat /\ GasCeil \in Nat /\ GasFloor >= 6144 /\ GasCeil >= GasFloor
    BY EngineAssumption DEF GasLimitBoundDivisor
  <1>3. g = IF limit < GasFloor
            THEN IF L + (q - 1) > GasFloor THEN GasFloor ELSE L + (q - 1)
            ELSE IF limit > GasCeil
            THEN IF L - (q - 1) < GasCeil THEN GasCeil ELSE L - (q - 1)
            ELSE limit
    BY DEF CalcGasLimit, GasLimitBoundDivisor, MinGasLimit
  <1> HIDE DEF g, L, U
  <1>4. q \in Nat /\ 1024 * q <= L /\ L < 1024 * q + 1024
    BY <1>1
  <1>5. contrib \in Nat /\ 1024 * contrib <= U + U \div 2 /\ 2 * (U \div 2) <= U
    BY <1>1
  <1> HIDE DEF q, contrib
  <1>6. limit \in Nat /\ limit >= 5000 /\ limit >= wanted /\ wanted = L - q + 1 + contrib
        /\ (limit = 5000 \/ limit = wanted) /\ q >= 4
    BY <1>1, <1>4, <1>5
  <1>7. limit >= 6144 => limit < L + q
    BY <1>1, <1>4, <1>5, <1>6
  <1> HIDE DEF limit, wanted
  <1>8. g \in Nat /\ g >= 5000 /\ g < L + q /\ g > L - q
    BY <1>1, <1>2, <1>3, <1>4, <1>5, <1>6, <1>7
  <1> QED
    BY <1>8 DEF g, L, q, MinGasLimit, GasLimitBoundDivisor

(* The parts of IInv that a step leaves alone stay.                        *)
LEMMA Unchanged ==
    ASSUME IInv, UNCHANGED <<parent, header, hashA, lucks, hashB>>,
           now' \in Nat, now' >= now, Sound(head)',
           pc' \in {"search_luck", "search_block", "found", "ended"},
           Busy' => Busy,
           pc' \in {"search_block", "found"} \/ seal' = "found" =>
              pc \in {"search_block", "found"} \/ seal = "found",
           pc' = "found" \/ seal' = "found" => pc = "found" \/ seal = "found",
           seal' = "found" => pc' = "ended"
    PROVE  IInv'
  <1>1. parent' = parent /\ header' = header /\ hashA' = hashA /\ lucks' = lucks /\ hashB' = hashB
    BY Zenon
  <1>2. Sound(parent)' /\ Sound(header)'
    BY <1>1, Zenon DEF IInv, Sound
  <1>3. Prepared => Prepared'
    <2>1. CalcGasLimit(parent)' = CalcGasLimit(parent)
      BY <1>1, Zenon DEF CalcGasLimit
    <2>2. calcParam(header.number, header.time, parent)' = calcParam(header.number, header.time, parent)
      BY <1>1, ZenonT(30) DEF calcParam
    <2>3. header.time \in Nat /\ now \in Nat
      BY Zenon DEF IInv, Sound
    <2> QED
      BY <1>1, <2>1, <2>2, <2>3 DEF Prepared
  <1>4. Lucky => Lucky'
    BY <1>1 DEF Lucky, calcBeta, calcDifficulty
  <1> QED
    BY <1>1, <1>2, <1>3, <1>4, Zenon DEF IInv

(* The genesis header is sound, and nothing is being sealed.               *)
LEMMA InitIInv == Init => IInv
  <1> SUFFICES ASSUME Init PROVE IInv
    OBVIOUS
  <1>1. PICK gas \in GenesisGas : head = GenesisHeader(gas)
    BY DEF Init
  <1>2. gas \in Nat /\ gas >= MinGasLimit
    BY EngineAssumption
  <1>3. Sound(head)
    BY <1>1, <1>2 DEF GenesisHeader, Sound, Fields, MinGasLimit
  <1> QED
    BY <1>3 DEF Init, IInv, Busy

(* Prepare and commitNewWork settle time, gas limit and parameters.        *)
LEMMA PrepareKeeps == IInv /\ Prepare => IInv'
  <1> SUFFICES ASSUME IInv, Prepare PROVE IInv'
    OBVIOUS
  <1> DEFINE time == IF now > head.time THEN now ELSE head.time + 1
             param == calcParam(head.number + 1, time, head)
             gas == CalcGasLimit(head)
  <1>1. PICK used \in {0, gas} :
           header' = [GenesisHeader(gas) EXCEPT
                         !.number = head.number + 1, !.time = time, !.gasUsed = used,
                         !.basis = param.basis, !.alpha = param.alpha]
    BY Zenon DEF Prepare
  <1>2. /\ time <= now + 1 /\ parent' = head /\ head' = head /\ now' = now
        /\ pc = "ended" /\ pc' = pc /\ seal' = "ready"
        /\ Sound(head) /\ now \in Nat
    BY DEF Prepare, IInv, search
  <1>3. gas \in Nat /\ gas >= MinGasLimit
    BY <1>2, GasLimitInBounds
  <1>4. time \in Nat /\ time > head.time /\ head.number \in Nat
    BY <1>2 DEF Sound
  <1>5. param = [basis |-> param.basis, alpha |-> param.alpha]
    BY DEF calcParam
  <1> HIDE DEF gas, time, param
  <1>6. /\ DOMAIN header' = Fields /\ header' = [f \in Fields |-> header'[f]]
        /\ header'.number = head.number + 1 /\ header'.time = time
        /\ header'.gasLimit = gas /\ header'.gasUsed = used
        /\ header'.basis = param.basis /\ header'.alpha = param.alpha
    BY <1>1, Zenon DEF GenesisHeader, Fields
  <1>7. Sound(header') /\ Sound(parent') /\ Sound(head')
    BY <1>2, <1>3, <1>4, <1>6 DEF Sound, MinGasLimit
  <1>8. Prepared'
    BY <1>2, <1>4, <1>5, <1>6 DEF Prepared, gas, param
  <1> QED
    BY <1>2, <1>7, <1>8 DEF IInv, Busy

(* The luck, the target and the difficulty are set together.               *)
LEMMA TryFirstKeeps ==
    ASSUME IInv, NEW n, TryFirst(n)
    PROVE  IInv'
  <1>1. PICK aHash \in Outcomes(hashA, n), luck \in 0..(maxLuck - 1) :
          LET lucky == [header EXCEPT !.lucky = luck, !.first = n,
                                      !.beta = calcBeta(luck, header.basis)]
          IN  /\ hashA' = Try(hashA, n, aHash)
              /\ IF aHash < header.alpha
                 THEN /\ lucks' = Try(lucks, n, luck)
                      /\ header' = [lucky EXCEPT !.difficulty = calcDifficulty(lucky)]
                      /\ pc' = "search_block"
                 ELSE UNCHANGED <<lucks, header, pc>>
    BY Zenon DEF TryFirst
  <1>2. /\ pc = "search_luck" /\ now' = now /\ head' = head /\ parent' = parent
        /\ seal' = seal /\ hashB' = hashB
        /\ Sound(head) /\ Sound(parent) /\ Sound(header) /\ now \in Nat /\ seal # "found"
        /\ Prepared
    BY DEF TryFirst, IInv, Busy
  <1>3. Sound(head') /\ Sound(parent')
    BY <1>2 DEF Sound
  <1>4. CASE aHash < header.alpha
    <2> DEFINE lucky == [header EXCEPT !.lucky = luck, !.first = n,
                                       !.beta = calcBeta(luck, header.basis)]
    <2>1. /\ hashA' = Try(hashA, n, aHash) /\ lucks' = Try(lucks, n, luck)
          /\ header' = [lucky EXCEPT !.difficulty = calcDifficulty(lucky)]
          /\ pc' = "search_block"
      BY <1>1, <1>4
    <2>2. /\ DOMAIN header' = Fields /\ header' = [f \in Fields |-> header'[f]]
          /\ header'.number = header.number /\ header'.time = header.time
          /\ header'.gasLimit = header.gasLimit /\ header'.gasUsed = header.gasUsed
          /\ header'.basis = header.basis /\ header'.alpha = header.alpha
          /\ header'.lucky = luck /\ header'.first = n
          /\ header'.beta = calcBeta(luck, header.basis)
          /\ header'.difficulty = calcDifficulty(lucky)
          /\ lucky.number = header.number /\ lucky.lucky = luck /\ lucky.basis = header.basis
      BY <1>2, <2>1, Zenon DEF Sound, Fields
    <2>3. calcDifficulty(lucky) = calcDifficulty(header')
      BY <2>2 DEF calcDifficulty
    <2>4. hashA'[n] = aHash /\ lucks'[n] = luck
      BY <2>1 DEF Try
    <2> HIDE DEF lucky
    <2>5. Sound(header')
      BY <1>2, <2>2 DEF Sound
    <2>6. Prepared'
      BY <1>2, <2>2 DEF Prepared, calcParam
    <2>7. Lucky'
      BY <1>4, <2>2, <2>3, <2>4 DEF Lucky
    <2> QED
      BY <1>2, <1>3, <2>1, <2>5, <2>6, <2>7 DEF IInv
  <1>5. CASE ~(aHash < header.alpha)
    <2>1. header' = header /\ pc' = pc
      BY <1>1, <1>5
    <2>2. Sound(header') /\ Prepared'
      BY <1>2, <2>1 DEF Sound, Prepared
    <2> QED
      BY <1>2, <1>3, <2>1, <2>2 DEF IInv
  <1> QED
    BY <1>4, <1>5

(* The second search changes nothing but its own nonce.                    *)
LEMMA TrySecondKeeps ==
    ASSUME IInv, NEW n, TrySecond(n)
    PROVE  IInv'
  <1>1. PICK b \in Outcomes(hashB, n) :
          /\ hashB' = Try(hashB, n, b)
          /\ IF b < header.beta
             THEN header' = [header EXCEPT !.second = n] /\ pc' = "found"
             ELSE UNCHANGED <<header, pc>>
    BY DEF TrySecond
  <1>2. /\ pc = "search_block" /\ now' = now /\ head' = head /\ parent' = parent
        /\ seal' = seal /\ hashA' = hashA /\ lucks' = lucks
        /\ Sound(head) /\ Sound(parent) /\ Sound(header) /\ now \in Nat /\ seal # "found"
        /\ Prepared /\ Lucky
    BY DEF TrySecond, IInv, Busy
  <1>3. Sound(head') /\ Sound(parent')
    BY <1>2 DEF Sound
  <1>4. /\ DOMAIN header' = Fields /\ header' = [f \in Fields |-> header'[f]]
        /\ header'.number = header.number /\ header'.time = header.time
        /\ header'.gasLimit = header.gasLimit /\ header'.gasUsed = header.gasUsed
        /\ header'.basis = header.basis /\ header'.alpha = header.alpha
        /\ header'.lucky = header.lucky /\ header'.first = header.first
        /\ header'.beta = header.beta /\ header'.difficulty = header.difficulty
        /\ (b < header.beta => header'.second = n /\ pc' = "found")
        /\ (~(b < header.beta) => pc' = pc)
    BY <1>1, <1>2 DEF Sound, Fields
  <1>5. hashB'[n] = b
    BY <1>1 DEF Try
  <1>6. Sound(header')
    BY <1>2, <1>4 DEF Sound
  <1>7. Prepared'
    BY <1>2, <1>4 DEF Prepared, calcParam
  <1>8. Lucky'
    BY <1>2, <1>4 DEF Lucky, calcDifficulty
  <1> QED
    BY <1>2, <1>3, <1>4, <1>5, <1>6, <1>7, <1>8 DEF IInv

(* One step of the clock, the worker, Seal or mine.                        *)
LEMMA NextIInv == IInv /\ [Next]_vars => IInv'
  <1> SUFFICES ASSUME IInv, [Next]_vars PROVE IInv'
    OBVIOUS
  <1> USE DEF search
  <1>1. ASSUME NEW d \in Ticks, Tick(d) PROVE IInv'
    <2>1. now' \in Nat /\ now' >= now
      BY <1>1, EngineAssumption DEF Tick, IInv
    <2>2. UNCHANGED <<parent, header, hashA, lucks, hashB, head, pc, seal>>
      BY <1>1 DEF Tick
    <2> QED
      BY <2>1, <2>2, Unchanged DEF IInv, Sound, Busy
  <1>2. CASE Prepare
    BY <1>2, PrepareKeeps, SMTT(20)
  <1>3. ASSUME NEW fn, NEW sn, Seal(fn, sn) PROVE IInv'
    BY <1>3, Unchanged, SMTT(20) DEF Seal, IInv, Sound, Busy
  <1>4. CASE Stop
    BY <1>4, Unchanged DEF Stop, IInv, Sound, Busy
  <1>5. CASE SearchLuck
    BY <1>5, TryFirstKeeps DEF SearchLuck
  <1>6. CASE SearchBlock
    BY <1>6, TrySecondKeeps DEF SearchBlock
  <1>7. CASE Aborted
    <2>1. UNCHANGED <<parent, header, head, now, seal>> /\ pc' = "ended" /\ pc # "ended"
      BY <1>7 DEF Aborted
    <2>2. seal # "found" /\ Prepared
      BY <2>1 DEF IInv, Busy
    <2>3. Prepared'
      BY <2>1, <2>2, SMTT(20) DEF Prepared
    <2> QED
      BY <2>1, <2>2, <2>3 DEF IInv, Sound
  <1>8. CASE Found
    BY <1>8, Unchanged, SMTT(20) DEF Found, IInv, Sound, Busy
  <1>9. CASE SealStop
    BY <1>9, Unchanged DEF SealStop, IInv, Sound, Busy
  <1>10. CASE SealDeliver
    <2>1. /\ UNCHANGED <<parent, header, now, pc>> /\ seal' = "returned" /\ seal = "found"
          /\ (head' = head \/ head' = header) /\ pc = "ended"
      BY <1>10, SMTT(20) DEF SealDeliver, IInv
    <2> QED
      BY <2>1 DEF IInv, Sound, Busy
  <1>11. CASE UNCHANGED vars
    BY <1>11, Unchanged DEF vars, IInv, Sound, Busy
  <1> QED
    BY <1>1, <1>2, <1>3, <1>4, <1>5, <1>6, <1>7, <1>8, <1>9, <1>10, <1>11 DEF Next, Mine

-----------------------------------------------------------------------------
(* Every block that mine reports to Seal passes verifyHeader, however long *)
(* the search took.                                                        *)
THEOREM MinedIsAccepted == Spec => []MinedAccepted
  <1>1. IInv => MinedAccepted
    <2> SUFFICES ASSUME IInv, seal = "found" PROVE verifyHeader(header, parent)
      BY DEF MinedAccepted
    <2>1. Sound(parent) /\ Sound(header) /\ Prepared /\ Lucky /\ now \in Nat
          /\ hashB[header.second] < header.beta
      BY DEF IInv, Busy
    <2>2. /\ header.gasLimit >= MinGasLimit
          /\ header.gasLimit < parent.gasLimit + parent.gasLimit \div GasLimitBoundDivisor
          /\ header.gasLimit > parent.gasLimit - parent.gasLimit \div GasLimitBoundDivisor
      BY <2>1, GasLimitInBounds DEF Prepared
    <2>3. header.time <= now + allowedFutureBlockTime
      BY <2>1 DEF Prepared, Sound, allowedFutureBlockTime
    <2>4. VerifySeal(header)
      BY <2>1 DEF Lucky, VerifySeal
    <2> QED
      BY <2>1, <2>2, <2>3, <2>4 DEF Prepared, Sound, verifyHeader
  <1> QED
    BY <1>1, InitIInv, NextIInv, PTL DEF Spec

-----------------------------------------------------------------------------
(* The fields the engine computes are numbers, and so are the hashes.      *)
Counted(h) ==
    h.basis \in Nat /\ h.alpha \in Nat /\ h.beta \in Nat /\ h.lucky \in 0..(maxLuck - 1)

FieldInv ==
    /\ Counted(head) /\ Counted(parent) /\ Counted(header)
    /\ \A n \in DOMAIN hashB : hashB[n] \in Nat
    /\ (pc = "found" \/ seal = "found") => header.second \in DOMAIN hashB

(* A quotient of naturals is a natural.                                    *)
LEMMA Quotient == \A x \in Nat, y \in Nat \ {0} : x \div y \in Nat
  OBVIOUS

(* A product of naturals is a natural.                                     *)
LEMMA Product == \A x, y \in Nat : x * y \in Nat
  OBVIOUS

(* calcBeta gives a target, and none to a basis of zero.                   *)
LEMMA BetaCounted ==
    ASSUME NEW luck \in 0..(maxLuck - 1), NEW basis \in Nat
    PROVE  calcBeta(luck, basis) \in Nat /\ (basis = 0 => calcBeta(luck, basis) = 0)
  <1> DEFINE d == maxLuck - luck
             q == (basis * maxLuck) \div d
  <1>1. maxLuck \in Nat /\ d \in Nat \ {0}
    BY EngineAssumption
  <1> HIDE DEF d
  <1>2. q \in Nat
    BY <1>1, Product, Quotient
  <1>3. (q * maxLuck) \div d \in Nat
    <2> HIDE DEF q
    <2> QED
      BY <1>1, <1>2, Product, Quotient
  <1>4. basis = 0 => (q * maxLuck) \div d = 0
    <2>1. \A y \in Nat \ {0} : 0 \div y = 0
      OBVIOUS
    <2> SUFFICES ASSUME basis = 0 PROVE (q * maxLuck) \div d = 0
      OBVIOUS
    <2>2. basis * maxLuck = 0
      BY <1>1
    <2>3. q = 0
      BY <1>1, <2>1, <2>2
    <2>4. q * maxLuck = 0
      BY <1>1, <2>3
    <2> QED
      BY <1>1, <2>1, <2>4
  <1> QED
    BY <1>3, <1>4 DEF calcBeta, d, q

(* calcParam gives numbers.                                                *)
LEMMA ParamCounted ==
    ASSUME NEW n, NEW t, NEW p, Counted(p)
    PROVE  calcParam(n, t, p).basis \in Nat /\ calcParam(n, t, p).alpha \in Nat
  <1>1. \A x \in Nat, r \in {90, 96, 105, 110} : Percent(x, r) \in Nat
    BY DEF Percent
  <1> HIDE DEF Percent
  <1> DEFINE rate == IF p.alpha < p.beta \div 5 THEN 96 ELSE 105
             pace == IF t - p.time > 20 THEN 110 ELSE 90
             basis == Percent(p.basis, rate)
  <1>2. rate \in {90, 96, 105, 110} /\ pace \in {90, 96, 105, 110}
    OBVIOUS
  <1> HIDE DEF rate, pace
  <1>3. basis \in Nat
    BY <1>1, <1>2 DEF Counted
  <1> HIDE DEF basis
  <1>4. Percent(basis, pace) \in Nat /\ Percent(p.alpha, pace) \in Nat
    BY <1>1, <1>2, <1>3, SMTT(20) DEF Counted
  <1>5. initBasis \in Nat /\ initDifficultyAlpha \in Nat
    BY EngineAssumption
  <1> QED
    BY <1>4, <1>5 DEF calcParam, basis, rate, pace

(* The genesis header counts from zero.                                    *)
LEMMA FieldInit == Init => FieldInv
  BY EngineAssumption DEF Init, GenesisHeader, FieldInv, Counted, Untried

(* The new header takes its parameters from the head.                      *)
LEMMA FieldPrepare == IInv /\ FieldInv /\ Prepare => FieldInv'
  <1> SUFFICES ASSUME IInv, FieldInv, Prepare PROVE FieldInv'
    OBVIOUS
  <1> DEFINE time == IF now > head.time THEN now ELSE head.time + 1
             param == calcParam(head.number + 1, time, head)
             gas == CalcGasLimit(head)
  <1>1. PICK used \in {0, gas} :
           header' = [GenesisHeader(gas) EXCEPT
                         !.number = head.number + 1, !.time = time, !.gasUsed = used,
                         !.basis = param.basis, !.alpha = param.alpha]
    BY Zenon DEF Prepare
  <1>2. param.basis \in Nat /\ param.alpha \in Nat
    BY ParamCounted DEF FieldInv
  <1> HIDE DEF gas, time, param
  <1>3. /\ header'.basis = param.basis /\ header'.alpha = param.alpha
        /\ header'.beta = 0 /\ header'.lucky = 0
    BY <1>1 DEF GenesisHeader
  <1>4. Counted(header)'
    BY <1>2, <1>3, EngineAssumption DEF Counted
  <1>5. /\ parent' = head /\ head' = head /\ hashB' = hashB
        /\ pc' = "ended" /\ seal' = "ready"
    BY DEF Prepare, search
  <1> QED
    BY <1>4, <1>5 DEF FieldInv, Counted

(* A luck below maxLuck gives a target.                                    *)
LEMMA FieldFirst ==
    ASSUME IInv, FieldInv, NEW n, TryFirst(n)
    PROVE  FieldInv'
  <1>1. PICK aHash \in Outcomes(hashA, n), luck \in 0..(maxLuck - 1) :
          LET lucky == [header EXCEPT !.lucky = luck, !.first = n,
                                      !.beta = calcBeta(luck, header.basis)]
          IN  IF aHash < header.alpha
              THEN /\ header' = [lucky EXCEPT !.difficulty = calcDifficulty(lucky)]
                   /\ pc' = "search_block"
              ELSE UNCHANGED <<header, pc>>
    BY Zenon DEF TryFirst
  <1>2. /\ head' = head /\ parent' = parent /\ hashB' = hashB /\ seal' = seal
        /\ pc = "search_luck" /\ seal # "found" /\ Sound(header)
    BY DEF TryFirst, IInv
  <1>3. calcBeta(luck, header.basis) \in Nat
    BY BetaCounted DEF FieldInv, Counted
  <1>4. CASE aHash < header.alpha
    <2> DEFINE lucky == [header EXCEPT !.lucky = luck, !.first = n,
                                       !.beta = calcBeta(luck, header.basis)]
               difficulty == calcDifficulty(lucky)
    <2>1. header' = [lucky EXCEPT !.difficulty = difficulty] /\ pc' = "search_block"
      BY <1>1, <1>4
    <2> HIDE DEF difficulty
    <2>2. /\ header'.basis = header.basis /\ header'.alpha = header.alpha
          /\ header'.lucky = luck /\ header'.beta = calcBeta(luck, header.basis)
      BY <1>2, <2>1 DEF Sound, Fields
    <2>3. Counted(header)'
      BY <1>3, <2>2 DEF FieldInv, Counted
    <2> QED
      BY <1>2, <2>1, <2>3 DEF FieldInv, Counted
  <1>5. CASE ~(aHash < header.alpha)
    BY <1>1, <1>2, <1>5 DEF FieldInv, Counted
  <1> QED
    BY <1>4, <1>5

(* A nonce that was found has been tried.                                  *)
LEMMA FieldSecond ==
    ASSUME IInv, FieldInv, NEW n, TrySecond(n)
    PROVE  FieldInv'
  <1>1. PICK b \in Outcomes(hashB, n) :
          /\ hashB' = Try(hashB, n, b)
          /\ IF b < header.beta
             THEN header' = [header EXCEPT !.second = n] /\ pc' = "found"
             ELSE UNCHANGED <<header, pc>>
    BY DEF TrySecond
  <1>2. /\ head' = head /\ parent' = parent /\ seal' = seal
        /\ pc = "search_block" /\ seal # "found" /\ Sound(header)
    BY DEF TrySecond, IInv
  <1>3. b \in Nat
    <2>1. CASE n \in DOMAIN hashB
      BY <2>1 DEF Outcomes, FieldInv
    <2>2. CASE n \notin DOMAIN hashB
      <3>1. b \in Hashes
        BY <2>2 DEF Outcomes
      <3>2. Hashes \subseteq 0..HashMax /\ HashMax \in Nat
        BY EngineAssumption
      <3> QED
        BY <3>1, <3>2
    <2> QED
      BY <2>1, <2>2
  <1>4. DOMAIN hashB' = DOMAIN hashB \cup {n} /\ \A k \in DOMAIN hashB' : hashB'[k] \in Nat
    BY <1>1, <1>3 DEF Try, FieldInv
  <1>5. /\ header'.basis = header.basis /\ header'.alpha = header.alpha
        /\ header'.lucky = header.lucky /\ header'.beta = header.beta
        /\ (b < header.beta => header'.second = n)
        /\ (~(b < header.beta) => pc' = pc)
    BY <1>1, <1>2 DEF Sound, Fields
  <1>6. Counted(head)' /\ Counted(parent)' /\ Counted(header)'
    BY <1>2, <1>5 DEF FieldInv, Counted
  <1>7. (pc' = "found" \/ seal' = "found") => header'.second \in DOMAIN hashB'
    BY <1>2, <1>4, <1>5
  <1> QED
    BY <1>4, <1>6, <1>7 DEF FieldInv

(* One step of the clock, the worker, Seal or mine.                        *)
LEMMA FieldNext == IInv /\ FieldInv /\ [Next]_vars => FieldInv'
  <1> SUFFICES ASSUME IInv, FieldInv, [Next]_vars PROVE FieldInv'
    OBVIOUS
  <1> USE DEF search
  <1>1. CASE Prepare
    BY <1>1, FieldPrepare
  <1>2. CASE SearchLuck
    BY <1>2, FieldFirst DEF SearchLuck
  <1>3. CASE SearchBlock
    BY <1>3, FieldSecond DEF SearchBlock
  <1>4. CASE Aborted \/ SealDeliver
    <2>1. /\ head' \in {head, header} /\ parent' = parent /\ header' = header
          /\ hashB' = Untried /\ pc' = "ended" /\ seal' # "found"
      BY <1>4 DEF Aborted, SealDeliver, Forget, IInv
    <2> QED
      BY <2>1, SMTT(30) DEF FieldInv, Counted, Untried
  <1>5. CASE \/ \E d \in Ticks : Tick(d)
             \/ \E fn, sn \in {n \in Nonces : 2 * n < NonceSpace} : Seal(fn, sn)
             \/ Stop \/ Found \/ SealStop \/ UNCHANGED vars
    <2>1. /\ UNCHANGED <<head, parent, header, hashB>>
          /\ (pc' = "found" \/ seal' = "found") => (pc = "found" \/ seal = "found")
      BY <1>5 DEF Tick, Seal, Stop, Found, SealStop, vars
    <2> QED
      BY <2>1 DEF FieldInv, Counted
  <1> QED
    BY <1>1, <1>2, <1>3, <1>4, <1>5 DEF Next, Mine

-----------------------------------------------------------------------------
(* A header that differs from a mined one in a field the engine computes   *)
(* is rejected: the parameters by calcParam, the target and the difficulty *)
(* by calcBeta and calcDifficulty, the luck by the hash of the first nonce.*)
THEOREM EngineFieldsForced == Spec => []FieldsForced
  <1>1. IInv /\ FieldInv => FieldsForced
    <2> SUFFICES ASSUME IInv, FieldInv, seal = "found",
                        NEW field \in {"basis", "alpha", "beta", "difficulty", "lucky"},
                        NEW v \in {header[field] - 1, header[field] + 1},
                        v >= 0,
                        verifyHeader([header EXCEPT ![field] = v], parent)
                 PROVE  FALSE
      BY Zenon DEF FieldsForced
    <2> DEFINE h == [header EXCEPT ![field] = v]
    <2>1. /\ Counted(header) /\ Sound(header) /\ Prepared /\ Lucky
          /\ hashB[header.second] \in Nat /\ hashB[header.second] < header.beta
      BY DEF IInv, FieldInv, Busy
    <2>2. header.basis # 0
      <3>1. header.beta # 0
        BY <2>1 DEF Counted
      <3> QED
        BY <2>1, <3>1, BetaCounted DEF Lucky, Counted
    <2>3. header.difficulty \in Int
      <3>1. HashMax * 1000000 \in Nat
        BY EngineAssumption
      <3>2. (HashMax * 1000000) \div header.basis \in Nat
        BY <2>1, <2>2, <3>1, Quotient DEF Counted
      <3> QED
        BY <2>1, <3>2, EngineAssumption DEF Lucky, calcDifficulty, Counted
    <2>4. header[field] \in Int
      BY <2>1, <2>3, EngineAssumption DEF Counted
    <2>5. v # header[field]
      BY <2>4
    <2>6. /\ \A f \in Fields : h[f] = IF f = field THEN v ELSE header[f]
          /\ field \in Fields
      BY <2>1 DEF Sound, Fields
    <2>7. /\ calcParam(h.number, h.time, parent) = [basis |-> h.basis, alpha |-> h.alpha]
          /\ calcBeta(h.lucky, h.basis) = h.beta /\ lucks[h.first] = h.lucky
          /\ calcDifficulty(h) = h.difficulty
      BY DEF verifyHeader, VerifySeal
    <2> HIDE DEF h
    <2>8. h.number = header.number /\ h.time = header.time /\ h.first = header.first
      BY <2>6, SMTT(30) DEF Fields
    <2>9. h.basis = header.basis /\ h.alpha = header.alpha /\ h.lucky = header.lucky
      BY <2>1, <2>7, <2>8, SMTT(30) DEF Prepared, Lucky
    <2>10. h.beta = header.beta
      BY <2>1, <2>7, <2>9, SMTT(30) DEF Lucky
    <2>11. h.difficulty = header.difficulty
      BY <2>1, <2>7, <2>8, <2>9, SMTT(30) DEF Lucky, calcDifficulty
    <2>12. h[field] = header[field]
      BY <2>9, <2>10, <2>11
    <2> QED
      BY <2>5, <2>6, <2>12
  <1> QED
    BY <1>1, InitIInv, NextIInv, FieldInit, FieldNext, PTL DEF Spec

-----------------------------------------------------------------------------
(* The tree of headers: a header is above its ancestors.                   *)
TreeInv ==
    /\ \E k \in Nat : Headers = 0..k
    /\ parentHash \in [Headers -> Headers]
    /\ num \in [Headers -> Nat]
    /\ path \in [Headers -> SUBSET Headers]
    /\ \A h \in Headers : h \in path[h]
    /\ \A h \in Headers \ {Genesis} : num[h] = num[parentHash[h]] + 1
    /\ parentHash[Genesis] = Genesis
    /\ \A h \in Headers : \A a \in path[h] \ {h} : num[a] < num[h]

(* Only blocks have uncles, and these are older than the block.            *)
ListInv ==
    /\ blocks \subseteq Headers
    /\ DOMAIN uncles = Headers
    /\ \A b \in Headers : Elements(uncles[b]) \subseteq Headers
    /\ \A b \in Headers : \A u \in Elements(uncles[b]) : num[u] < num[b]
    /\ \A b \in Headers \ blocks : Elements(uncles[b]) = {}

UncleInv == TreeInv /\ ListInv /\ UncleOnce /\ UncleBesideChain

-----------------------------------------------------------------------------
(* What VerifyUncles has seen of each uncle: its number is in the window,  *)
(* it is not on the chain, and no block of the chain named it.             *)
LEMMA VerifiedUncle ==
    ASSUME UncleInv, NEW p \in Headers, NEW list \in Lists, VerifyUncles(p, list),
           NEW u \in Elements(list)
    PROVE  /\ u \in Headers /\ u \notin path[p] /\ parentHash[u] \in path[p]
           /\ num[u] <= num[p]
           /\ \A a \in path[p] : u \notin Elements(uncles[a])
  <1>1. PICK i \in 1..Len(list) : u = list[i]
    BY Zenon DEF Elements
  <1>2. u \in Headers
    <2>1. PICK k \in 0..(maxUncles + 1) : list \in [1..k -> Headers]
      BY Zenon DEF Lists
    <2> QED
      BY <1>1, <2>1, UnclesAssumption
  <1>3. /\ \A a \in Ancestors(p) : u \notin Elements(uncles[a])
        /\ u \notin Ancestors(p)
        /\ parentHash[u] \in Ancestors(p) /\ parentHash[u] # p
    BY <1>1, Zenon DEF VerifyUncles
  <1>4. u # Genesis
    BY <1>3, Zenon DEF UncleInv, TreeInv
  <1>5. parentHash[u] \in path[p] /\ num[parentHash[u]] > num[p] - Window /\ num[parentHash[u]] < num[p]
    BY <1>3, Zenon DEF UncleInv, TreeInv, Ancestors
  <1>6. /\ num[u] = num[parentHash[u]] + 1 /\ num[parentHash[u]] \in Nat /\ num[p] \in Nat
        /\ num[u] \in Nat
    BY <1>2, <1>4, Zenon DEF UncleInv, TreeInv
  <1>7. num[u] > num[p] - Window /\ num[u] <= num[p]
    BY <1>5, <1>6, UnclesAssumption
  <1>8. u \notin path[p]
    BY <1>3, <1>7, Zenon DEF Ancestors
  <1>9. ASSUME NEW a \in path[p], u \in Elements(uncles[a]) PROVE FALSE
    <2>1. a \in Headers /\ num[a] \in Nat
      BY Zenon DEF UncleInv, TreeInv
    <2>2. num[u] < num[a]
      BY <1>9, <2>1, Zenon DEF UncleInv, ListInv
    <2>3. a \in Ancestors(p)
      BY <1>6, <1>7, <2>1, <2>2, UnclesAssumption DEF Ancestors
    <2> QED
      BY <1>3, <1>9, <2>3, Zenon
  <1> QED
    BY <1>2, <1>5, <1>7, <1>8, <1>9, Zenon

(* The genesis block alone.                                                *)
LEMMA InitUncles == UnclesInit => UncleInv
  <1> SUFFICES ASSUME UnclesInit PROVE UncleInv
    BY Zenon
  <1>1. Headers = {0} /\ Headers = 0..0
    BY DEF UnclesInit, Headers, Genesis
  <1>2. TreeInv
    BY <1>1, Zenon DEF UnclesInit, TreeInv, Genesis
  <1>3. Elements(uncles[0]) = {}
    BY DEF UnclesInit, Elements, Genesis
  <1>4. ListInv
    BY <1>1, <1>3, Zenon DEF UnclesInit, ListInv, Genesis
  <1>5. UncleOnce /\ UncleBesideChain
    BY <1>3 DEF UnclesInit, UncleOnce, UncleBesideChain, Genesis
  <1> QED
    BY <1>2, <1>4, <1>5, Zenon DEF UncleInv

(* A new header is a leaf; if it is accepted, its uncles are fresh.        *)
LEMMA MineHeaderKeeps ==
    ASSUME UncleInv, NEW p \in Headers, NEW list \in Lists, MineHeader(p, list)
    PROVE  UncleInv'
  <1> DEFINE h == Cardinality(Headers)
             accepted == p \in blocks /\ VerifyUncles(p, list)
             named == IF accepted THEN list ELSE <<>>
  <1>1. PICK k \in Nat : Headers = 0..k
    BY Zenon DEF UncleInv, TreeInv
  <1>2. h = k + 1
    BY <1>1, FS_Interval
  <1>3. h \notin Headers /\ h # Genesis /\ Headers \cup {h} = 0..(k + 1)
    BY <1>1, <1>2 DEF Genesis
  <1>4. /\ parentHash' = [g \in Headers \cup {h} |-> IF g = h THEN p ELSE parentHash[g]]
        /\ num' = [g \in Headers \cup {h} |-> IF g = h THEN num[p] + 1 ELSE num[g]]
        /\ path' = [g \in Headers \cup {h} |-> IF g = h THEN path[p] \cup {h} ELSE path[g]]
        /\ uncles' = [g \in Headers \cup {h} |-> IF g = h THEN named ELSE uncles[g]]
        /\ blocks' = IF accepted THEN blocks \cup {h} ELSE blocks
    BY Zenon DEF MineHeader
  <1>5. \A u \in Elements(named) :
           /\ u \in Headers /\ u \notin path[p] /\ parentHash[u] \in path[p]
           /\ num[u] <= num[p]
           /\ \A a \in path[p] : u \notin Elements(uncles[a])
    <2>1. ~accepted => Elements(named) = {}
      BY DEF Elements
    <2> QED
      BY <2>1, VerifiedUncle, Zenon
  <1>6. \A i, j \in 1..Len(named) : i # j => named[i] # named[j]
    <2>1. CASE accepted
      <3>1. \A i \in 1..Len(list) : \A j \in 1..(i - 1) : list[j] # list[i]
        BY <2>1, Zenon DEF VerifyUncles
      <3>2. \A i, j \in 1..Len(list) : i # j => j \in 1..(i - 1) \/ i \in 1..(j - 1)
        <4>1. PICK n \in Nat : list \in [1..n -> Headers]
          BY UnclesAssumption DEF Lists
        <4> QED
          BY <4>1
      <3> QED
        BY <2>1, <3>1, <3>2, Zenon
    <2>2. CASE ~accepted
      BY <2>2
    <2> QED
      BY <2>1, <2>2, Zenon
  <1>7. ~accepted => Elements(named) = {}
    BY DEF Elements
  <1> HIDE DEF h, named, accepted
  <1>8. Headers' = Headers \cup {h}
    BY <1>4, Zenon DEF Headers
  <1>9. /\ \A g \in Headers : parentHash'[g] = parentHash[g] /\ num'[g] = num[g] /\ path'[g] = path[g]
                              /\ uncles'[g] = uncles[g]
        /\ parentHash'[h] = p /\ num'[h] = num[p] + 1 /\ path'[h] = path[p] \cup {h}
        /\ uncles'[h] = named
    BY <1>3, <1>4, Zenon
  <1>10. \A g \in Headers : num[g] \in Nat /\ path[g] \subseteq Headers /\ parentHash[g] \in Headers
                            /\ Elements(uncles[g]) \subseteq Headers
    BY Zenon DEF UncleInv, TreeInv, ListInv
  <1>11. TreeInv'
    <2>1. (\E n \in Nat : Headers = 0..n)'
      BY <1>1, <1>3, <1>8
    <2>2. parentHash' \in [Headers' -> Headers'] /\ num' \in [Headers' -> Nat]
          /\ path' \in [Headers' -> SUBSET Headers']
      BY <1>4, <1>8, <1>10
    <2>3. \A g \in Headers' : g \in path'[g]
      BY <1>8, <1>9, Zenon DEF UncleInv, TreeInv
    <2>4. \A g \in Headers' \ {Genesis} : num'[g] = num'[parentHash'[g]] + 1
      <3>1. \A g \in Headers \ {Genesis} : num'[g] = num'[parentHash'[g]] + 1
        <4>1. \A g \in Headers \ {Genesis} : num[g] = num[parentHash[g]] + 1
          BY Zenon DEF UncleInv, TreeInv
        <4> QED
          BY <1>9, <1>10, <4>1
      <3> QED
        BY <1>8, <1>9, <3>1, ZenonT(30)
    <2>5. parentHash'[Genesis] = Genesis
      BY <1>1, <1>9, SMTT(30) DEF UncleInv, TreeInv, Genesis
    <2>6. \A g \in Headers' : \A a \in path'[g] \ {g} : num'[a] < num'[g]
      <3>1. \A g \in Headers : \A a \in path'[g] \ {g} : num'[a] < num'[g]
        BY <1>9, <1>10, Zenon DEF UncleInv, TreeInv
      <3>2. \A a \in path[p] : num[a] <= num[p]
        <4>1. \A a \in path[p] \ {p} : num[a] < num[p]
          BY Zenon DEF UncleInv, TreeInv
        <4> QED
          BY <1>10, <4>1
      <3>3. \A a \in path'[h] \ {h} : num'[a] < num'[h]
        BY <1>9, <1>10, <3>2, SMTT(30)
      <3> QED
        BY <1>8, <3>1, <3>3, Zenon
    <2> QED
      BY <2>1, <2>2, <2>3, <2>4, <2>5, <2>6, Zenon DEF TreeInv
  <1>12. /\ \A g \in Headers : Elements(uncles'[g]) = Elements(uncles[g])
         /\ Elements(uncles'[h]) = Elements(named)
    BY <1>9 DEF Elements
  <1>13. ListInv'
    <2>1. blocks' \subseteq Headers' /\ DOMAIN uncles' = Headers'
      BY <1>4, <1>8, Zenon DEF UncleInv, ListInv
    <2>2. \A b \in Headers' : Elements(uncles'[b]) \subseteq Headers'
      BY <1>5, <1>8, <1>10, <1>12, Zenon
    <2>3. \A b \in Headers' : \A u \in Elements(uncles'[b]) : num'[u] < num'[b]
      <3>1. \A b \in Headers : \A u \in Elements(uncles[b]) : num'[u] < num'[b]
        BY <1>9, <1>10, Zenon DEF UncleInv, ListInv
      <3>2. \A u \in Elements(named) : num'[u] < num'[h]
        BY <1>5, <1>9, <1>10
      <3> QED
        BY <1>8, <1>12, <3>1, <3>2, Zenon
    <2>4. \A b \in Headers' \ blocks' : Elements(uncles'[b]) = {}
      <3>1. h \notin blocks' => Elements(named) = {}
        BY <1>4, <1>7, Zenon
      <3>2. blocks \subseteq blocks'
        BY <1>4, Zenon
      <3> QED
        BY <1>8, <1>12, <3>1, <3>2, Zenon DEF UncleInv, ListInv
    <2> QED
      BY <2>1, <2>2, <2>3, <2>4, Zenon DEF ListInv
  <1>14. UncleOnce'
    <2>1. SUFFICES ASSUME NEW b \in blocks'
                   PROVE  /\ \A i, j \in 1..Len(uncles'[b]) : i # j => uncles'[b][i] # uncles'[b][j]
                          /\ \A a \in path'[b] \ {b} :
                                Elements(uncles'[a]) \cap Elements(uncles'[b]) = {}
      BY Zenon DEF UncleOnce, Elements
    <2>2. CASE b = h
      <3>1. \A a \in path[p] : Elements(uncles'[a]) \cap Elements(named) = {}
        BY <1>5, <1>10, <1>12, Zenon
      <3> QED
        BY <1>6, <1>9, <1>12, <2>2, <3>1
    <2>3. CASE b # h
      <3>1. b \in blocks /\ b \in Headers
        BY <1>4, <2>1, <2>3, Zenon DEF UncleInv, ListInv
      <3>2. \A a \in path[b] \ {b} : Elements(uncles[a]) \cap Elements(uncles[b]) = {}
        BY <3>1, Zenon DEF UncleInv, UncleOnce
      <3>3. \A i, j \in 1..Len(uncles[b]) : i # j => uncles[b][i] # uncles[b][j]
        BY <3>1, Zenon DEF UncleInv, UncleOnce
      <3> QED
        BY <1>9, <1>10, <1>12, <3>1, <3>2, <3>3
    <2> QED
      BY <2>2, <2>3, Zenon
  <1>15. UncleBesideChain'
    <2>1. SUFFICES ASSUME NEW b \in blocks', NEW u \in Elements(uncles'[b])
                   PROVE  u \notin path'[b] /\ parentHash'[u] \in path'[b]
      BY ZenonT(30) DEF UncleBesideChain, Elements
    <2>2. CASE b = h
      BY <1>3, <1>5, <1>9, <1>12, <2>1, <2>2
    <2>3. CASE b # h
      <3>1. b \in blocks /\ b \in Headers
        BY <1>4, <2>1, <2>3, Zenon DEF UncleInv, ListInv
      <3>2. u \in Headers /\ u \notin path[b] /\ parentHash[u] \in path[b]
        BY <1>10, <1>12, <2>1, <3>1, Zenon DEF UncleInv, UncleBesideChain
      <3> QED
        BY <1>9, <3>1, <3>2, Zenon
    <2> QED
      BY <2>2, <2>3, Zenon
  <1> QED
    BY <1>11, <1>13, <1>14, <1>15, Zenon DEF UncleInv

(* Stuttering keeps the invariant.                                         *)
LEMMA NextUncles == UncleInv /\ [UnclesNext]_uncleVars => UncleInv'
  <1> SUFFICES ASSUME UncleInv, [UnclesNext]_uncleVars PROVE UncleInv'
    BY Zenon
  <1>1. CASE UnclesNext
    BY <1>1, MineHeaderKeeps, Zenon DEF UnclesNext
  <1>2. CASE UNCHANGED uncleVars
    <2>1. parentHash' = parentHash /\ num' = num /\ path' = path /\ blocks' = blocks /\ uncles' = uncles
      BY <1>2, Zenon DEF uncleVars
    <2>2. Headers' = Headers
      BY <2>1, Zenon DEF Headers
    <2>3. TreeInv'
      BY <2>1, <2>2, Zenon DEF UncleInv, TreeInv
    <2>4. \A b : Elements(uncles[b])' = Elements(uncles[b])
      BY <2>1, Zenon DEF Elements
    <2>5. ListInv'
      BY <2>1, <2>2, <2>4, Zenon DEF UncleInv, ListInv
    <2>6. UncleOnce'
      <3>1. SUFFICES ASSUME NEW b \in blocks
                     PROVE  /\ \A i, j \in 1..Len(uncles'[b]) :
                                  i # j => uncles'[b][i] # uncles'[b][j]
                            /\ \A a \in path'[b] \ {b} :
                                  Elements(uncles[a])' \cap Elements(uncles[b])' = {}
        BY <2>1, Zenon DEF UncleOnce
      <3>2. /\ \A i, j \in 1..Len(uncles[b]) : i # j => uncles[b][i] # uncles[b][j]
            /\ \A a \in path[b] \ {b} : Elements(uncles[a]) \cap Elements(uncles[b]) = {}
        BY Zenon DEF UncleInv, UncleOnce
      <3>3. \A i, j \in 1..Len(uncles'[b]) : i # j => uncles'[b][i] # uncles'[b][j]
        BY <2>1, <3>2, Zenon
      <3>4. \A a \in path'[b] \ {b} : Elements(uncles[a])' \cap Elements(uncles[b])' = {}
        BY <2>1, <2>4, <3>2, Zenon
      <3> QED
        BY <3>3, <3>4, Zenon
    <2>7. UncleBesideChain'
      BY <2>1, ZenonT(30) DEF UncleInv, UncleBesideChain, Elements
    <2> QED
      BY <2>3, <2>5, <2>6, <2>7, Zenon DEF UncleInv
  <1> QED
    BY <1>1, <1>2, Zenon

-----------------------------------------------------------------------------
(* Although VerifyUncles looks at a window of ancestors only, no header is *)
(* an uncle twice on a whole chain.                                        *)
THEOREM UnclesNamedOnce == UnclesSpec => []UncleOnce
  <1>1. UncleInv => UncleOnce
    BY Zenon DEF UncleInv
  <1> QED
    BY <1>1, InitUncles, NextUncles, PTL DEF UnclesSpec

(* Nor is a block of the chain, however old, an uncle of a later one.      *)
THEOREM UnclesBesideChain == UnclesSpec => []UncleBesideChain
  <1>1. UncleInv => UncleBesideChain
    BY Zenon DEF UncleInv
  <1> QED
    BY <1>1, InitUncles, NextUncles, PTL DEF UnclesSpec
=============================================================================
