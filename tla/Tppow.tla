------------------------------- MODULE Tppow --------------------------------
(***************************************************************************)
(* The engine of consensus/tppow: a miner prepares a header on the head it *)
(* knows, searches the two nonces in a goroutine that Seal starts and      *)
(* aborts, and delivers the block; verifyHeader judges headers.            *)
(*                                                                         *)
(* A hash is a number that nature picks the first time a nonce is tried    *)
(* and that stays the same for the block (hashA, lucks, hashB).  Searches  *)
(* share nothing, so one at a time is followed; hash values are those      *)
(* after the division by HashScale.                                        *)
(***************************************************************************)
EXTENDS Integers, FiniteSets

CONSTANTS
    maxLuck, initBasis, initDifficultyAlpha,
    HashMax,                \* max256 / HashScale
    difficultyAjustBlock,
    GasFloor, GasCeil,      \* miner configuration
    NonceSpace,             \* 2^64
    Hashes,                 \* hash values nature picks from
    GenesisGas,             \* gas limits of genesis blocks
    Ticks,                  \* how far the clock moves
    MaxTime, MaxHeight      \* bounds

MinGasLimit == 5000
GasLimitBoundDivisor == 1024
allowedFutureBlockTime == 15

(* The miner's gas target is far above the least gas limit (8000000 by     *)
(* default).                                                               *)
ASSUME EngineAssumption ==
    /\ maxLuck \in Nat \ {0} /\ HashMax \in Nat /\ initBasis \in Nat
    /\ initDifficultyAlpha \in Nat
    /\ GasFloor \in Nat /\ GasCeil \in Nat
    /\ GasFloor >= 6 * GasLimitBoundDivisor /\ GasCeil >= GasFloor
    /\ NonceSpace \in Nat \ {0} /\ Hashes \subseteq 0..HashMax
    /\ GenesisGas \subseteq {g \in Nat : g >= MinGasLimit}
    /\ Ticks \subseteq Nat /\ MaxTime \in Nat /\ MaxHeight \in Nat

VARIABLES
    now,                    \* Unix time
    head,                   \* header of the head block
    parent, header,         \* header being sealed and its parent
    hashA, lucks, hashB,    \* hashes tried so far for this block
    pc, nonce,              \* mine: label and the nonce tried last
    seal, stop, abort       \* Seal and its channels

vars == <<now, head, parent, header, hashA, lucks, hashB, pc, nonce, seal, stop, abort>>
search == <<hashA, lucks, hashB, pc, nonce>>

Nonces == 0..(NonceSpace - 1)

-----------------------------------------------------------------------------
(* Arithmetic on headers.                                                  *)

(* The comment's formula, basis * (lmax / (lmax - luck))^2, with the       *)
(* quotient rounded down twice.                                            *)
calcBeta(luck, basis) ==
    ((((basis * maxLuck) \div (maxLuck - luck)) * maxLuck) \div (maxLuck - luck))

calcDifficulty(h) ==
    IF h.number < difficultyAjustBlock THEN h.lucky ELSE (HashMax * 1000000) \div h.basis

Percent(x, p) == (x * p) \div 100

calcParam(number, time, p) ==
    IF number <= 1 THEN [basis |-> initBasis, alpha |-> initDifficultyAlpha]
    ELSE LET basis == Percent(p.basis, IF p.alpha < p.beta \div 5 THEN 96 ELSE 105)
             pace  == IF time - p.time > 20 THEN 110 ELSE 90
         IN  [basis |-> Percent(basis, pace), alpha |-> Percent(p.alpha, pace)]

(* Mutant: the gas limit moves by the whole bound.                         *)
CalcGasLimitFull(p) ==
    LET decay == p.gasLimit \div GasLimitBoundDivisor
    IN  IF p.gasLimit < GasFloor THEN p.gasLimit + decay ELSE GasFloor

(* core.CalcGasLimit; limits stay below 2^63, so nothing wraps.            *)
CalcGasLimit(p) ==
    LET contrib == (p.gasUsed + p.gasUsed \div 2) \div GasLimitBoundDivisor
        decay   == p.gasLimit \div GasLimitBoundDivisor - 1
        wanted  == p.gasLimit - decay + contrib
        limit   == IF wanted < MinGasLimit THEN MinGasLimit ELSE wanted
    IN  IF limit < GasFloor
        THEN IF p.gasLimit + decay > GasFloor THEN GasFloor ELSE p.gasLimit + decay
        ELSE IF limit > GasCeil
        THEN IF p.gasLimit - decay < GasCeil THEN GasCeil ELSE p.gasLimit - decay
        ELSE limit

-----------------------------------------------------------------------------
(* Verification.                                                           *)

(* Mutant: the difficulty the header claims is not checked.                *)
VerifySealUnweighed(h) ==
    /\ hashA[h.first] < h.alpha
    /\ calcBeta(h.lucky, h.basis) = h.beta
    /\ lucks[h.first] = h.lucky
    /\ hashB[h.second] < h.beta

(* The seal: both searches succeeded, and what they determine is there.    *)
VerifySeal(h) ==
    /\ hashA[h.first] < h.alpha
    /\ calcBeta(h.lucky, h.basis) = h.beta
    /\ lucks[h.first] = h.lucky
    /\ hashB[h.second] < h.beta
    /\ calcDifficulty(h) = h.difficulty

(* verifyHeader returns nil.                                               *)
verifyHeader(h, p) ==
    /\ h.time <= now + allowedFutureBlockTime
    /\ h.time > p.time
    /\ h.gasUsed <= h.gasLimit
    /\ h.gasLimit < p.gasLimit + p.gasLimit \div GasLimitBoundDivisor
    /\ h.gasLimit > p.gasLimit - p.gasLimit \div GasLimitBoundDivisor
    /\ h.gasLimit >= MinGasLimit
    /\ h.number = p.number + 1
    /\ calcParam(h.number, h.time, p) = [basis |-> h.basis, alpha |-> h.alpha]
    /\ VerifySeal(h)

-----------------------------------------------------------------------------
GenesisHeader(gas) ==
    [number |-> 0, time |-> 0, gasLimit |-> gas, gasUsed |-> 0, basis |-> 0, alpha |-> 0,
     lucky |-> 0, beta |-> 0, difficulty |-> 0, first |-> 0, second |-> 0]

Untried == [n \in {} |-> 0]

Init ==
    /\ now = 0
    /\ \E gas \in GenesisGas : head = GenesisHeader(gas)
    /\ parent = head /\ header = head
    /\ hashA = Untried /\ lucks = Untried /\ hashB = Untried
    /\ pc = "ended" /\ nonce = [first |-> 0, second |-> 0]
    /\ seal = "returned" /\ stop = FALSE /\ abort = FALSE

Tick(d) ==
    /\ now + d <= MaxTime
    /\ now' = now + d
    /\ UNCHANGED <<head, parent, header, search, seal, stop, abort>>

(* commitNewWork makes the header, not more than a second ahead of the     *)
(* clock, and Prepare its parameters.                                      *)
Prepare ==
    LET time  == IF now > head.time THEN now ELSE head.time + 1
        param == calcParam(head.number + 1, time, head)
    IN  /\ seal = "returned" /\ pc = "ended" /\ head.number < MaxHeight
        /\ time <= now + 1
        /\ parent' = head
        /\ \E used \in {0, CalcGasLimit(head)} :
              header' = [GenesisHeader(CalcGasLimit(head)) EXCEPT
                            !.number = head.number + 1, !.time = time, !.gasUsed = used,
                            !.basis = param.basis, !.alpha = param.alpha]
        /\ seal' = "ready"
        /\ UNCHANGED <<now, head, search, stop, abort>>

(* Seal starts mine from two random nonces below 2^63.                     *)
Seal(fn, sn) ==
    /\ seal = "ready"
    /\ seal' = "wait" /\ stop' = FALSE /\ abort' = FALSE
    /\ pc' = "search_luck" /\ nonce' = [first |-> fn, second |-> sn]
    /\ UNCHANGED <<now, head, parent, header, hashA, lucks, hashB>>

(* The worker closes the stop channel, in favour of newer work.            *)
Stop ==
    /\ seal = "wait" /\ ~stop
    /\ stop' = TRUE
    /\ UNCHANGED <<now, head, parent, header, search, seal, abort>>

-----------------------------------------------------------------------------
(* mine.                                                                   *)
Try(f, n, v) == [m \in DOMAIN f \cup {n} |-> IF m = n THEN v ELSE f[m]]
Outcomes(f, n) == IF n \in DOMAIN f THEN {f[n]} ELSE Hashes

(* A first nonce; with a luck come the target of the second search and the *)
(* difficulty.                                                             *)
TryFirst(n) ==
    /\ pc = "search_luck" /\ ~abort
    /\ nonce' = [nonce EXCEPT !.first = n]
    /\ \E aHash \in Outcomes(hashA, n), luck \in 0..(maxLuck - 1) :
          LET lucky == [header EXCEPT !.lucky = luck, !.first = n,
                                      !.beta = calcBeta(luck, header.basis)]
          IN  /\ hashA' = Try(hashA, n, aHash)
              /\ IF aHash < header.alpha
                 THEN /\ lucks' = Try(lucks, n, luck)
                      /\ header' = [lucky EXCEPT !.difficulty = calcDifficulty(lucky)]
                      /\ pc' = "search_block"
                 ELSE UNCHANGED <<lucks, header, pc>>
    /\ UNCHANGED <<now, head, parent, hashB, seal, stop, abort>>

TrySecond(n) ==
    /\ pc = "search_block" /\ ~abort
    /\ nonce' = [nonce EXCEPT !.second = n]
    /\ \E b \in Outcomes(hashB, n) :
          /\ hashB' = Try(hashB, n, b)
          /\ IF b < header.beta
             THEN header' = [header EXCEPT !.second = n] /\ pc' = "found"
             ELSE UNCHANGED <<header, pc>>
    /\ UNCHANGED <<now, head, parent, hashA, lucks, seal, stop, abort>>

SearchLuck == TryFirst((nonce.first + 1) % NonceSpace)
SearchBlock == TrySecond((nonce.second + 1) % NonceSpace)

(* The goroutine's variables are gone, and nobody asks for the hashes.     *)
Forget ==
    /\ nonce' = [first |-> 0, second |-> 0]
    /\ hashA' = Untried /\ lucks' = Untried /\ hashB' = Untried

Aborted ==
    /\ pc # "ended" /\ abort
    /\ pc' = "ended" /\ Forget
    /\ UNCHANGED <<now, head, parent, header, seal, stop, abort>>

(* mine hands the block to Seal.                                           *)
Found ==
    /\ pc = "found" /\ seal = "wait"
    /\ pc' = "ended" /\ seal' = "found"
    /\ UNCHANGED <<now, head, parent, header, hashA, lucks, hashB, nonce, stop, abort>>

-----------------------------------------------------------------------------
(* Mutant: Seal returns without closing abort.                             *)
SealStopOnly ==
    /\ seal = "wait" /\ stop
    /\ seal' = "returned"
    /\ UNCHANGED <<now, head, parent, header, search, stop, abort>>

SealStop ==
    /\ seal = "wait" /\ stop
    /\ seal' = "returned" /\ abort' = TRUE
    /\ UNCHANGED <<now, head, parent, header, search, stop>>

(* The block becomes the head, unless the results channel is full or a     *)
(* heavier one came.                                                       *)
SealDeliver ==
    /\ seal = "found"
    /\ seal' = "returned" /\ abort' = TRUE
    /\ head' \in {head, header} /\ Forget
    /\ UNCHANGED <<now, parent, header, pc, stop>>

-----------------------------------------------------------------------------
Mine == SearchLuck \/ SearchBlock \/ Aborted \/ Found

Next ==
    \/ \E d \in Ticks : Tick(d)
    \/ Prepare
    \/ \E fn, sn \in {n \in Nonces : 2 * n < NonceSpace} : Seal(fn, sn)
    \/ Stop \/ Mine \/ SealStop \/ SealDeliver

Spec == Init /\ [][Next]_vars

(* The goroutines of mine and Seal keep running.                           *)
FairSpec == Spec /\ WF_vars(Mine) /\ WF_vars(SealStop \/ SealDeliver)

-----------------------------------------------------------------------------
(* A block that mine reports passes verifyHeader, whatever the clock has   *)
(* done since Prepare: the miner's parameters, gas limit, luck, target and *)
(* difficulty are those the verifier computes.                             *)
MinedAccepted == seal = "found" => verifyHeader(header, parent)

(* The seal leaves no choice: a header that differs from the mined one in  *)
(* one of the fields the engine computes is rejected.                      *)
FieldsForced ==
    seal = "found" =>
        \A field \in {"basis", "alpha", "beta", "difficulty", "lucky"} :
            \A v \in {header[field] - 1, header[field] + 1} :
                (v >= 0 /\ (field = "lucky" => v < maxLuck)) =>
                    ~verifyHeader([header EXCEPT ![field] = v], parent)

(* No mining goroutine outlives the Seal call that started it.             *)
SealLeavesNoMiner == (seal = "returned") ~> (pc = "ended")
=============================================================================
