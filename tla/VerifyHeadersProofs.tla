------------------------- MODULE VerifyHeadersProofs ------------------------
(***************************************************************************)
(* Proofs about the concurrent header verifier, for every batch length,    *)
(* number of threads and sampling frequency.  IInv is inductive; the       *)
(* safety invariants of VerifyHeaders and the refinement of                *)
(* OrderedVerifier follow from it.                                         *)
(***************************************************************************)
EXTENDS VerifyHeaders, TLAPS

Active(w) == wpc[w] \in {"verify", "report"}

Possible(i) == PossibleVerdicts(i, kind[i], seals[i], i \in known)

(* Nothing runs before ValidateHeaderChain has checked the links.          *)
StartInv ==
    /\ dpc = "off" => /\ in = 0
                      /\ \A w \in Workers : wpc[w] = "off"
    /\ cpc = "start" => dpc = "off" /\ received = 0
    /\ dpc # "off" => /\ \A i \in 1..(N-1) : linked[i]
                      /\ seals \in SealSamples

(* What the node stores is importable, and a stored parent stays stored.   *)
ChainInv ==
    /\ \A i \in Index : i \in known => kind[i] \in Importable
    /\ errors[0] = "nil" => -1 \in known

(* Only indices below in were handed out; a finished slot holds a          *)
(* legitimate verdict.                                                     *)
DoneInv ==
    /\ \A i \in Index : checked[i] => i < in /\ errors[i] \in Possible(i)
    /\ \A k \in 1..Len(done) : done[k] < in /\ errors[done[k]] \in Possible(done[k])

(* The verdicts sent are those of the first headers, in order.             *)
SentInv ==
    /\ \/ Len(sent) = out
       \/ dpc = "returned" /\ out = N - 1 /\ Len(sent) = N
    /\ \A k \in 1..Len(sent) : checked[k-1] /\ sent[k] = errors[k-1]

(* A worker owns its index until it has reported it.                       *)
WorkerInv ==
    \A w \in Workers : Active(w) =>
        /\ windex[w] < in
        /\ ~checked[windex[w]]
        /\ \A k \in 1..Len(done) : done[k] # windex[w]
        /\ \A v \in Workers \ {w} : Active(v) => windex[v] # windex[w]
        /\ wpc[w] = "report" => errors[windex[w]] \in Possible(windex[w])

(* The caller consumes a prefix of the verdicts, all nil so far.           *)
CallerInv ==
    /\ received <= Len(sent)
    /\ cpc \in {"check", "receive"} => received < N
    /\ cpc # "returned" => result = <<0, "none">>
    /\ \A k \in 1..received : sent[k] = "nil" /\ kind[k-1] # "banned"
    /\ cpc = "receive" => kind[received] # "banned"
    /\ result[2] = "nil" => received = N
    /\ (cpc = "returned" /\ result[2] \in Errors \ {"nil"}) =>
          /\ received = result[1]
          /\ result[1] < Len(sent)
          /\ sent[result[1] + 1] = result[2]

IInv == /\ TypeOK /\ StartInv /\ ChainInv /\ DoneInv /\ SentInv
        /\ WorkerInv /\ CallerInv

-----------------------------------------------------------------------------
(* N is positive and there is at least one worker.                         *)
LEMMA Constants_OK ==
    /\ N \in Nat /\ N > 0
    /\ NumWorkers \in Nat /\ NumWorkers > 0
    /\ 0 \in Index /\ N - 1 \in Index
BY BatchAssumption, ProcsAssumption DEF NumWorkers, Index

(* Initially nothing was handed out, sent or received.                     *)
LEMMA InitIInv == Init => IInv
<1> SUFFICES ASSUME Init PROVE IInv
  BY Zenon
<1> USE Constants_OK, KindsAssumption
<1>1. TypeOK
  <2>1. kind \in [Index -> Kinds] /\ known \in SUBSET (-1..(N-1))
    BY DEF Init
  <2>2. result \in Index \X Returns
    BY Zenon DEF Init, Returns
  <2>3. sent \in Seq(Verdicts) /\ Len(sent) <= N
    BY DEF Init
  <2>4. done \in Seq(Index) /\ Len(done) <= NumWorkers
    BY DEF Init
  <2>5. errors \in [Index -> Verdicts]
    BY Zenon DEF Init, Verdicts
  <2>6. stopping \in BOOLEAN /\ abort \in BOOLEAN
    BY Zenon DEF Init
  <2>7. linked \in [1..(N-1) -> BOOLEAN] /\ seals \in [Index -> BOOLEAN]
        /\ checked \in [Index -> BOOLEAN]
    BY Zenon DEF Init
  <2>8. wpc \in [Workers -> {"off", "idle", "verify", "report", "exited"}]
        /\ windex \in [Workers -> Index]
    BY Zenon DEF Init
  <2>9. cpc \in {"start", "check", "receive", "returned"} /\ received \in 0..N
        /\ dpc \in {"off", "select", "emit", "returned"} /\ in \in 0..N /\ out \in Index
    BY DEF Init
  <2> QED BY <2>1, <2>2, <2>3, <2>4, <2>5, <2>6, <2>7, <2>8, <2>9, Zenon DEF TypeOK
<1>2. StartInv /\ ChainInv
  BY DEF Init, StartInv, ChainInv, Index
<1>3. DoneInv /\ SentInv
  BY DEF Init, DoneInv, SentInv, Index
<1>4. WorkerInv /\ CallerInv
  BY DEF Init, WorkerInv, CallerInv, Active, Errors
<1> QED BY <1>1, <1>2, <1>3, <1>4, Zenon DEF IInv

(* Sampled seals are a Boolean per header.                                 *)
LEMMA SealSamplesType == SealSamples \subseteq [Index -> BOOLEAN]
BY Zenon DEF SealSamples

(* Importing elsewhere only adds importable headers to the stored ones,    *)
(* and what was a legitimate verdict remains one.                          *)
LEMMA ImportElsewhereIInv == ASSUME NEW i \in -1..(N-1), IInv, ImportElsewhere(i) PROVE IInv'
<1> USE Constants_OK DEF IInv, ImportElsewhere, batch, node, caller, dispatcher, workers
<1>1. TypeOK'
  BY Zenon DEF TypeOK
<1>2. StartInv'
  BY Zenon DEF TypeOK, StartInv
<1>3. ChainInv'
  <2>1. \A j \in Index : j \in known' => kind[j] \in Importable
    BY DEF TypeOK, ChainInv, Index
  <2>2. errors[0] = "nil" => -1 \in known'
    BY Zenon DEF ChainInv
  <2> QED BY <2>1, <2>2, Zenon DEF ChainInv
<1>m. \A j, v : v \in Possible(j) => v \in Possible(j)'
  BY Zenon DEF Possible, PossibleVerdicts
<1>4. DoneInv'
  BY <1>m, Zenon DEF TypeOK, DoneInv
<1>5. SentInv'
  BY Zenon DEF TypeOK, SentInv
<1>6. WorkerInv'
  BY <1>m, Zenon DEF TypeOK, WorkerInv, Active
<1>7. CallerInv'
  BY Zenon DEF TypeOK, CallerInv
<1> QED BY <1>1, <1>2, <1>3, <1>4, <1>5, <1>6, <1>7, Zenon

(* The shutdown flag is in none of the conjuncts.                          *)
LEMMA StopNodeIInv == ASSUME IInv, StopNode PROVE IInv'
<1> USE Constants_OK DEF IInv, StopNode, batch, node, caller, dispatcher, workers
<1>1. TypeOK'
  BY Zenon DEF TypeOK
<1>2. StartInv'
  BY Zenon DEF TypeOK, StartInv
<1>3. ChainInv'
  BY Zenon DEF TypeOK, ChainInv
<1>4. DoneInv'
  BY Zenon DEF TypeOK, DoneInv, Possible
<1>5. SentInv'
  BY Zenon DEF TypeOK, SentInv
<1>6. WorkerInv'
  BY Zenon DEF TypeOK, WorkerInv, Active, Possible
<1>7. CallerInv'
  BY Zenon DEF TypeOK, CallerInv
<1> QED BY <1>1, <1>2, <1>3, <1>4, <1>5, <1>6, <1>7, Zenon

(* An unlinked batch ends the call before anything is started.             *)
LEMMA RejectUnlinkedIInv == ASSUME IInv, RejectUnlinked PROVE IInv'
<1> USE Constants_OK DEF IInv, RejectUnlinked, batch, node, caller, dispatcher, workers, Return
<1>1. TypeOK'
  <2>1. result' \in Index \X Returns /\ cpc' \in {"returned"}
    BY Zenon DEF Returns
  <2> QED BY <2>1, Zenon DEF TypeOK
<1>2. StartInv'
  BY Zenon DEF TypeOK, StartInv
<1>3. ChainInv'
  BY Zenon DEF TypeOK, ChainInv
<1>4. DoneInv'
  BY Zenon DEF TypeOK, DoneInv, Possible
<1>5. SentInv'
  BY Zenon DEF TypeOK, SentInv
<1>6. WorkerInv'
  BY Zenon DEF TypeOK, WorkerInv, Active, Possible
<1>7. CallerInv'
  BY Zenon DEF TypeOK, StartInv, CallerInv, Errors
<1> QED BY <1>1, <1>2, <1>3, <1>4, <1>5, <1>6, <1>7, Zenon

(* Starting the verifier fixes the seals while no slot is filled.          *)
LEMMA StartVerifierIInv == ASSUME IInv, StartVerifier PROVE IInv'
<1> USE Constants_OK DEF IInv, StartVerifier, batch, node, caller, dispatcher, workers
<1>1. TypeOK'
  <2>1. seals' \in [Index -> BOOLEAN]
    BY SealSamplesType, Zenon
  <2>2. wpc' \in [Workers -> {"off", "idle", "verify", "report", "exited"}]
    BY Zenon
  <2> QED BY <2>1, <2>2, Zenon DEF TypeOK
<1>2. StartInv'
  BY Zenon DEF TypeOK, StartInv
<1>3. ChainInv'
  BY Zenon DEF TypeOK, ChainInv
<1>4. DoneInv'
  <2>1. in = 0
    BY Zenon DEF StartInv
  <2> QED BY <2>1 DEF TypeOK, DoneInv, Index
<1>5. SentInv'
  BY Zenon DEF TypeOK, StartInv, SentInv
<1>6. WorkerInv'
  BY Zenon DEF TypeOK, WorkerInv, Active, Possible
<1>7. CallerInv'
  BY Zenon DEF TypeOK, StartInv, CallerInv
<1> QED BY <1>1, <1>2, <1>3, <1>4, <1>5, <1>6, <1>7, Zenon

(* The loop head returns, or goes on with a header that is not banned.     *)
LEMMA CheckHeaderIInv == ASSUME IInv, CheckHeader PROVE IInv'
<1> USE Constants_OK DEF IInv, CheckHeader, batch, node, caller, dispatcher, workers, Return
<1>1. TypeOK'
  <2>1. result' \in Index \X Returns
    BY DEF TypeOK, CallerInv, Returns, Index
  <2>2. cpc' \in {"start", "check", "receive", "returned"} /\ abort' \in BOOLEAN
    BY Zenon DEF TypeOK
  <2> QED BY <2>1, <2>2, Zenon DEF TypeOK
<1>2. StartInv'
  BY Zenon DEF TypeOK, StartInv
<1>3. ChainInv'
  BY Zenon DEF TypeOK, ChainInv
<1>4. DoneInv'
  BY Zenon DEF TypeOK, DoneInv, Possible
<1>5. SentInv'
  BY Zenon DEF TypeOK, SentInv
<1>6. WorkerInv'
  BY Zenon DEF TypeOK, WorkerInv, Active, Possible
<1>7. CallerInv'
  BY DEF TypeOK, CallerInv, Errors
<1> QED BY <1>1, <1>2, <1>3, <1>4, <1>5, <1>6, <1>7, Zenon

(* Receiving a verdict extends the consumed prefix or ends the loop.       *)
LEMMA ReceiveVerdictIInv == ASSUME IInv, ReceiveVerdict PROVE IInv'
<1> USE Constants_OK DEF IInv, ReceiveVerdict, batch, node, caller, dispatcher, workers, Return
<1>1. TypeOK'
  <2>1. sent[received + 1] \in Verdicts /\ received < N
    BY DEF TypeOK, CallerInv
  <2>2. result' \in Index \X Returns
    BY <2>1 DEF TypeOK, Returns, Verdicts, Index
  <2>3. cpc' \in {"start", "check", "receive", "returned"} /\ received' \in 0..N
    BY <2>1 DEF TypeOK
  <2>4. abort' \in BOOLEAN
    BY Zenon DEF TypeOK
  <2> QED BY <2>2, <2>3, <2>4, Zenon DEF TypeOK
<1>2. StartInv'
  BY Zenon DEF TypeOK, StartInv
<1>3. ChainInv'
  BY Zenon DEF TypeOK, ChainInv
<1>4. DoneInv'
  BY Zenon DEF TypeOK, DoneInv, Possible
<1>5. SentInv'
  BY Zenon DEF TypeOK, SentInv
<1>6. WorkerInv'
  BY Zenon DEF TypeOK, WorkerInv, Active, Possible
<1>7. CallerInv'
  <2>1. CASE sent[received + 1] # "nil"
    BY <2>1 DEF TypeOK, CallerInv
  <2>2. CASE sent[received + 1] = "nil"
    <3>1. received < N /\ kind[received] # "banned" /\ received \in Nat
      BY DEF TypeOK, CallerInv
    <3>2. \A k \in 1..received' : sent[k] = "nil" /\ kind[k-1] # "banned"
      BY <2>2, <3>1 DEF CallerInv
    <3>3. CASE received + 1 = N
      BY <2>2, <3>1, <3>2, <3>3 DEF TypeOK, CallerInv, Errors
    <3>4. CASE received + 1 # N
      BY <2>2, <3>1, <3>2, <3>4 DEF TypeOK, CallerInv, Errors
    <3> QED BY <3>3, <3>4, Zenon
  <2> QED BY <2>1, <2>2, Zenon
<1> QED BY <1>1, <1>2, <1>3, <1>4, <1>5, <1>6, <1>7, Zenon

(* The index handed to a worker is fresh, neither checked nor in done.     *)
LEMMA SendInputIInv == ASSUME NEW w \in Workers, IInv, SendInput(w) PROVE IInv'
<1> USE Constants_OK DEF IInv, SendInput, batch, node, caller, dispatcher, workers
<1>1. TypeOK'
  <2>1. in \in Index /\ in' \in 0..N
    BY DEF TypeOK, Index
  <2>2. windex' \in [Workers -> Index]
    BY <2>1, Zenon DEF TypeOK
  <2>3. wpc' \in [Workers -> {"off", "idle", "verify", "report", "exited"}]
    BY Zenon DEF TypeOK
  <2> QED BY <2>1, <2>2, <2>3, Zenon DEF TypeOK
<1>2. StartInv'
  BY Zenon DEF TypeOK, StartInv
<1>3. ChainInv'
  BY Zenon DEF TypeOK, ChainInv
<1>4. DoneInv'
  <2>1. \A i \in Int : i < in => i < in'
    BY DEF TypeOK
  <2>2. \A k \in 1..Len(done) : done[k] \in Int
    BY DEF TypeOK, Index
  <2> QED BY <2>1, <2>2 DEF DoneInv, Possible, Index
<1>5. SentInv'
  BY Zenon DEF TypeOK, SentInv
<1>6. WorkerInv'
  <2>1. in \in Index /\ in' = in + 1
    BY DEF TypeOK, Index
  <2>2. /\ windex'[w] = in /\ wpc'[w] = "verify"
        /\ \A u \in Workers \ {w} : windex'[u] = windex[u] /\ wpc'[u] = wpc[u]
    BY Zenon DEF TypeOK
  <2>3. ~checked[in] /\ \A k \in 1..Len(done) : done[k] # in
    BY <2>1 DEF TypeOK, DoneInv, Index
  <2>4. \A u \in Workers \ {w} : Active(u) => windex[u] \in Int /\ windex[u] < in
    BY DEF TypeOK, WorkerInv, Index
  <2> QED BY <2>1, <2>2, <2>3, <2>4 DEF WorkerInv, Active, Possible, Index
<1>7. CallerInv'
  BY Zenon DEF TypeOK, CallerInv
<1> QED BY <1>1, <1>2, <1>3, <1>4, <1>5, <1>6, <1>7, Zenon

(* A finished index becomes checked; no worker holds it any more.          *)
LEMMA ReceiveDoneIInv == ASSUME IInv, ReceiveDone PROVE IInv'
<1> USE Constants_OK DEF IInv, ReceiveDone, batch, node, caller, dispatcher, workers
<1>1. TypeOK'
  <2>1. Head(done) \in Index /\ Tail(done) \in Seq(Index) /\ Len(Tail(done)) = Len(done) - 1
    BY DEF TypeOK
  <2>2. checked' \in [Index -> BOOLEAN]
    BY <2>1, Zenon DEF TypeOK
  <2> QED BY <2>1, <2>2 DEF TypeOK
<1>2. StartInv'
  BY Zenon DEF TypeOK, StartInv
<1>3. ChainInv'
  BY Zenon DEF TypeOK, ChainInv
<1>4. DoneInv'
  <2>1. Head(done) = done[1] /\ Len(done) > 0 /\ Len(Tail(done)) = Len(done) - 1
    BY DEF TypeOK
  <2>2. \A k \in 1..Len(done') : k + 1 \in 1..Len(done) /\ done'[k] = done[k + 1]
    BY <2>1 DEF TypeOK
  <2>3. \A k \in 1..Len(done') : done'[k] < in' /\ errors'[done'[k]] \in Possible(done'[k])
    BY <2>2, Zenon DEF DoneInv
  <2>4. \A j \in Index : checked'[j] => j < in /\ errors[j] \in Possible(j)
    BY <2>1 DEF TypeOK, DoneInv
  <2> QED BY <2>3, <2>4, Zenon DEF DoneInv, Possible
<1>5. SentInv'
  BY DEF TypeOK, SentInv
<1>6. WorkerInv'
  <2>1. Head(done) = done[1] /\ Len(done) > 0 /\ Len(Tail(done)) = Len(done) - 1
    BY DEF TypeOK
  <2>2. \A k \in 1..Len(done') : k + 1 \in 1..Len(done) /\ done'[k] = done[k + 1]
    BY <2>1 DEF TypeOK
  <2>3. \A v \in Workers : Active(v) => ~checked'[windex[v]]
    BY <2>1 DEF TypeOK, WorkerInv
  <2>4. \A v \in Workers : Active(v) => \A k \in 1..Len(done') : done'[k] # windex[v]
    BY <2>2, Zenon DEF WorkerInv
  <2> QED BY <2>3, <2>4, Zenon DEF WorkerInv, Active, Possible
<1>7. CallerInv'
  BY Zenon DEF TypeOK, CallerInv
<1> QED BY <1>1, <1>2, <1>3, <1>4, <1>5, <1>6, <1>7, Zenon

(* The verdict sent next is that of the first header not sent yet.         *)
LEMMA EmitIInv == ASSUME IInv, Emit PROVE IInv'
<1> USE Constants_OK DEF IInv, Emit, batch, node, caller, dispatcher, workers
<1>1. TypeOK'
  <2>1. Len(sent) = out
    BY Zenon DEF SentInv
  <2>2. sent' \in Seq(Verdicts) /\ Len(sent') <= N
    BY <2>1 DEF TypeOK, Index
  <2>3. out' \in Index /\ dpc' \in {"off", "select", "emit", "returned"}
    BY DEF TypeOK, Index
  <2> QED BY <2>2, <2>3, Zenon DEF TypeOK
<1>2. StartInv'
  BY Zenon DEF TypeOK, StartInv
<1>3. ChainInv'
  BY Zenon DEF TypeOK, ChainInv
<1>4. DoneInv'
  BY Zenon DEF TypeOK, DoneInv, Possible
<1>5. SentInv'
  <2>1. Len(sent) = out /\ checked[out] /\ sent' = Append(sent, errors[out])
    BY Zenon DEF SentInv
  <2>2. /\ checked' = checked /\ errors' = errors
        /\ IF out = N - 1 THEN dpc' = "returned" /\ out' = out ELSE out' = out + 1
    BY Zenon
  <2>3. sent \in Seq(Verdicts) /\ errors[out] \in Verdicts /\ out \in Nat
    BY DEF TypeOK, Index
  <2>4. Len(sent') = out + 1
    BY <2>1, <2>3
  <2>5. ASSUME NEW k \in 1..out + 1 PROVE checked[k-1] /\ sent'[k] = errors[k-1]
    <3>1. CASE k = out + 1
      <4>1. k - 1 = out
        BY <2>3, <3>1
      <4>2. sent'[k] = errors[out]
        BY <2>1, <2>3, <3>1
      <4> QED BY <2>1, <4>1, <4>2, Zenon
    <3>2. CASE k # out + 1
      <4>1. k \in 1..Len(sent)
        BY <2>1, <2>3, <3>2
      <4>2. sent'[k] = sent[k]
        BY <2>1, <2>3, <4>1
      <4> QED BY <4>1, <4>2, Zenon DEF SentInv
    <3> QED BY <3>1, <3>2, Zenon
  <2>6. \/ Len(sent') = out'
        \/ dpc' = "returned" /\ out' = N - 1 /\ Len(sent') = N
    <3>1. N \in Nat
      BY Zenon
    <3>2. CASE out = N - 1
      BY <2>2, <2>3, <2>4, <3>1, <3>2
    <3>3. CASE out # N - 1
      BY <2>2, <2>4, <3>3, Zenon
    <3> QED BY <3>2, <3>3, Zenon
  <2> QED BY <2>2, <2>4, <2>5, <2>6, Zenon DEF SentInv
<1>6. WorkerInv'
  BY Zenon DEF TypeOK, WorkerInv, Active, Possible
<1>7. CallerInv'
  BY DEF TypeOK, CallerInv
<1> QED BY <1>1, <1>2, <1>3, <1>4, <1>5, <1>6, <1>7, Zenon

(* Leaving the emit loop changes only the dispatcher's position.           *)
LEMMA StopEmittingIInv == ASSUME IInv, StopEmitting PROVE IInv'
<1> USE Constants_OK DEF IInv, StopEmitting, batch, node, caller, dispatcher, workers
<1>1. TypeOK'
  BY Zenon DEF TypeOK
<1>2. StartInv'
  BY Zenon DEF TypeOK, StartInv
<1>3. ChainInv'
  BY Zenon DEF TypeOK, ChainInv
<1>4. DoneInv'
  BY Zenon DEF TypeOK, DoneInv, Possible
<1>5. SentInv'
  BY Zenon DEF TypeOK, SentInv
<1>6. WorkerInv'
  BY Zenon DEF TypeOK, WorkerInv, Active, Possible
<1>7. CallerInv'
  BY Zenon DEF TypeOK, CallerInv
<1> QED BY <1>1, <1>2, <1>3, <1>4, <1>5, <1>6, <1>7, Zenon

(* An abort leaves the verdicts sent so far as they are.                   *)
LEMMA DispatcherAbortsIInv == ASSUME IInv, DispatcherAborts PROVE IInv'
<1> USE Constants_OK DEF IInv, DispatcherAborts, batch, node, caller, dispatcher, workers
<1>1. TypeOK'
  BY Zenon DEF TypeOK
<1>2. StartInv'
  BY Zenon DEF TypeOK, StartInv
<1>3. ChainInv'
  BY Zenon DEF TypeOK, ChainInv
<1>4. DoneInv'
  BY Zenon DEF TypeOK, DoneInv, Possible
<1>5. SentInv'
  BY Zenon DEF TypeOK, SentInv
<1>6. WorkerInv'
  BY Zenon DEF TypeOK, WorkerInv, Active, Possible
<1>7. CallerInv'
  BY Zenon DEF TypeOK, CallerInv
<1> QED BY <1>1, <1>2, <1>3, <1>4, <1>5, <1>6, <1>7, Zenon

(* A worker fills the slot it owns, with a legitimate verdict.             *)
LEMMA VerifyIInv == ASSUME NEW w \in Workers, IInv, Verify(w) PROVE IInv'
<1> USE Constants_OK DEF IInv, Verify, batch, node, caller, dispatcher, workers, HasParent
<1> DEFINE j == windex[w]
<1>a. j \in Index /\ ~checked[j] /\ Active(w) /\ dpc # "off" /\ j < in
  BY Zenon DEF TypeOK, WorkerInv, Active, StartInv
<1>b. \A i \in 1..(N-1) : linked[i]
  BY <1>a, Zenon DEF StartInv
<1>c. PICK v \in verifyHeaderWorker(kind[j], seals[j], HasParent(j), j \in known) :
         errors' = [errors EXCEPT ![j] = v]
  BY Zenon
<1>d. v \in Possible(j) /\ v \in Errors /\ (j = 0 /\ v = "nil" => -1 \in known)
  <2>1. CASE ~HasParent(j)
    BY <2>1, <1>a, <1>b, <1>c DEF verifyHeaderWorker, Possible, PossibleVerdicts, Errors, Index
  <2>2. CASE HasParent(j) /\ j \in known
    <3>1. v = "nil"
      BY <2>2, <1>c, Zenon DEF verifyHeaderWorker
    <3> QED BY <2>2, <3>1, Zenon DEF Possible, PossibleVerdicts, Errors
  <2>3. CASE HasParent(j) /\ j \notin known
    <3>1. v \in verifyHeader(kind[j], seals[j])
      BY <2>3, <1>c, Zenon DEF verifyHeaderWorker
    <3>2. v \in Possible(j)
      BY <3>1, Zenon DEF Possible, PossibleVerdicts
    <3>3. v \in Errors
      BY <3>1, Zenon DEF verifyHeader, Errors
    <3> QED BY <2>3, <3>2, <3>3, Zenon
  <2> QED BY <2>1, <2>2, <2>3, Zenon
<1>e. errors'[j] = v /\ \A i \in Index \ {j} : errors'[i] = errors[i]
  BY <1>a, <1>c, Zenon DEF TypeOK
<1> HIDE DEF j
<1>1. TypeOK'
  <2>1. errors' \in [Index -> Verdicts]
    BY <1>a, <1>c, <1>d, Zenon DEF TypeOK, Verdicts
  <2>2. wpc' \in [Workers -> {"off", "idle", "verify", "report", "exited"}]
    BY Zenon DEF TypeOK
  <2> QED BY <2>1, <2>2, Zenon DEF TypeOK
<1>2. StartInv'
  BY <1>a, Zenon DEF TypeOK, StartInv
<1>3. ChainInv'
  BY <1>d, <1>e, Zenon DEF ChainInv
<1>4. DoneInv'
  <2>1. \A i \in Index : checked[i] => i # j
    BY <1>a, Zenon
  <2>2. \A k \in 1..Len(done) : done[k] \in Index /\ done[k] # j
    BY <1>a DEF TypeOK, WorkerInv, j
  <2> QED BY <2>1, <2>2, <1>e, Zenon DEF DoneInv, Possible
<1>5. SentInv'
  <2>1. \A k \in 1..Len(sent) : k - 1 \in Index
    BY DEF TypeOK, Index
  <2>2. \A k \in 1..Len(sent) : checked[k-1]
    BY Zenon DEF SentInv
  <2>3. \A k \in 1..Len(sent) : k - 1 # j
    BY <1>a, <2>2, Zenon
  <2>4. \A k \in 1..Len(sent) : errors'[k-1] = errors[k-1]
    BY <2>1, <2>3, <1>e, Zenon
  <2> QED BY <2>4, Zenon DEF SentInv
<1>6. WorkerInv'
  <2>1. \A u \in Workers : Active(u)' <=> Active(u)
    BY Zenon DEF TypeOK, Active
  <2>2. \A u \in Workers \ {w} : Active(u) => windex[u] \in Index /\ windex[u] # j
    BY <1>a, Zenon DEF TypeOK, WorkerInv, j
  <2>3. \A u \in Workers : wpc'[u] = "report" => errors'[windex[u]] \in Possible(windex[u])
    BY <2>2, <1>d, <1>e, Zenon DEF TypeOK, WorkerInv, Active, j
  <2> QED BY <2>1, <2>3, Zenon DEF WorkerInv, Possible
<1>7. CallerInv'
  BY Zenon DEF TypeOK, CallerInv
<1> QED BY <1>1, <1>2, <1>3, <1>4, <1>5, <1>6, <1>7, Zenon

(* A worker gives up its index when it puts it in done.                    *)
LEMMA ReportIInv == ASSUME NEW w \in Workers, IInv, Report(w) PROVE IInv'
<1> USE Constants_OK DEF IInv, Report, batch, node, caller, dispatcher, workers
<1>1. TypeOK'
  BY DEF TypeOK
<1>2. StartInv'
  BY Zenon DEF TypeOK, StartInv
<1>3. ChainInv'
  BY Zenon DEF TypeOK, ChainInv
<1>4. DoneInv'
  <2>1. windex[w] \in Index /\ windex[w] < in /\ errors[windex[w]] \in Possible(windex[w])
    BY Zenon DEF TypeOK, WorkerInv, Active
  <2>2. \A k \in 1..Len(done') : done'[k] = IF k <= Len(done) THEN done[k] ELSE windex[w]
    BY <2>1 DEF TypeOK
  <2>3. \A k \in 1..Len(done') : done'[k] < in /\ errors[done'[k]] \in Possible(done'[k])
    BY <2>1, <2>2, SMTT(20) DEF TypeOK, DoneInv
  <2> QED BY <2>3, Zenon DEF DoneInv, Possible
<1>5. SentInv'
  BY Zenon DEF TypeOK, SentInv
<1>6. WorkerInv'
  BY DEF TypeOK, WorkerInv, Active, Possible
<1>7. CallerInv'
  BY Zenon DEF TypeOK, CallerInv
<1> QED BY <1>1, <1>2, <1>3, <1>4, <1>5, <1>6, <1>7, Zenon

(* A worker that exits holds no index.                                     *)
LEMMA WorkerExitsIInv == ASSUME NEW w \in Workers, IInv, WorkerExits(w) PROVE IInv'
<1> USE Constants_OK DEF IInv, WorkerExits, batch, node, caller, dispatcher, workers
<1>1. TypeOK'
  BY Zenon DEF TypeOK
<1>2. StartInv'
  BY Zenon DEF TypeOK, StartInv
<1>3. ChainInv'
  BY Zenon DEF TypeOK, ChainInv
<1>4. DoneInv'
  BY Zenon DEF TypeOK, DoneInv, Possible
<1>5. SentInv'
  BY Zenon DEF TypeOK, SentInv
<1>6. WorkerInv'
  BY Zenon DEF TypeOK, WorkerInv, Active, Possible
<1>7. CallerInv'
  BY Zenon DEF TypeOK, CallerInv
<1> QED BY <1>1, <1>2, <1>3, <1>4, <1>5, <1>6, <1>7, Zenon

-----------------------------------------------------------------------------
(* A step that leaves every variable unchanged preserves IInv.             *)
LEMMA StutterIInv == ASSUME IInv, UNCHANGED vars PROVE IInv'
<1> USE DEF IInv, vars
<1>1. TypeOK'
  BY Zenon DEF TypeOK
<1>2. StartInv'
  BY Zenon DEF StartInv
<1>3. ChainInv'
  BY Zenon DEF ChainInv
<1>4. DoneInv'
  BY Zenon DEF DoneInv, Possible
<1>5. SentInv'
  BY Zenon DEF SentInv
<1>6. WorkerInv'
  BY Zenon DEF WorkerInv, Active, Possible
<1>7. CallerInv'
  BY Zenon DEF CallerInv
<1> QED BY <1>1, <1>2, <1>3, <1>4, <1>5, <1>6, <1>7, Zenon

(* IInv holds in every reachable state, whatever the caller, the           *)
(* dispatcher, the workers and concurrent imports do.                      *)
THEOREM Invariance == Spec => []IInv
<1>1. IInv /\ [Next]_vars => IInv'
  <2> SUFFICES ASSUME IInv, [Next]_vars PROVE IInv'
    BY Zenon
  <2>1. CASE CallerStep
    BY <2>1, RejectUnlinkedIInv, StartVerifierIInv, CheckHeaderIInv,
       ReceiveVerdictIInv, Zenon DEF CallerStep
  <2>2. CASE DispatcherStep
    BY <2>2, SendInputIInv, ReceiveDoneIInv, EmitIInv, StopEmittingIInv,
       DispatcherAbortsIInv, Zenon DEF DispatcherStep
  <2>3. ASSUME NEW w \in Workers, WorkerStep(w) PROVE IInv'
    BY <2>3, VerifyIInv, ReportIInv, WorkerExitsIInv, Zenon DEF WorkerStep
  <2>4. CASE Environment
    BY <2>4, StopNodeIInv, ImportElsewhereIInv, Zenon DEF Environment
  <2>5. CASE UNCHANGED vars
    BY <2>5, StutterIInv, Zenon
  <2> QED BY <2>1, <2>2, <2>3, <2>4, <2>5, Zenon DEF Next
<1> QED BY <1>1, InitIInv, PTL DEF Spec

(* The variables keep their types, and neither channel is ever filled      *)
(* beyond its capacity.                                                    *)
THEOREM TypeCorrect == Spec => []TypeOK
<1>1. IInv => TypeOK
  BY Zenon DEF IInv
<1> QED BY <1>1, Invariance, PTL

(* The verdicts come out in header order and each is the verdict a worker  *)
(* computed for that header.                                               *)
THEOREM OrderedResults == Spec => []ResultsInOrder
<1>1. IInv => ResultsInOrder
  <2> SUFFICES ASSUME IInv, NEW k \in 1..Len(sent)
               PROVE  sent[k] = errors[k-1] /\ errors[k-1] \in Possible(k-1)
    BY Zenon DEF ResultsInOrder, Possible
  <2>1. k - 1 \in Index
    BY Constants_OK DEF IInv, TypeOK, Index
  <2>2. checked[k-1] /\ sent[k] = errors[k-1]
    BY Zenon DEF IInv, SentInv
  <2> QED BY <2>1, <2>2, Zenon DEF IInv, DoneInv
<1> QED BY <1>1, Invariance, PTL

(* No slot of the errors slice is written by two workers or read while a   *)
(* worker may still write it.                                              *)
THEOREM SlotsUnshared == Spec => []ErrorSlotsUnshared
<1>1. IInv => ErrorSlotsUnshared
  BY Zenon DEF IInv, WorkerInv, Active, ErrorSlotsUnshared
<1> QED BY <1>1, Invariance, PTL

(* ValidateHeaderChain returns the index and error of the first failure.   *)
THEOREM FirstFailure == Spec => []FirstFailureReported
<1>1. IInv => FirstFailureReported
  <2> SUFFICES ASSUME IInv, cpc = "returned", result[2] \in Errors \ {"nil"}
               PROVE  /\ errors[result[1]] = result[2]
                      /\ \A j \in Index : j < result[1] => errors[j] = "nil"
    BY Zenon DEF FirstFailureReported
  <2>1. result[1] \in Index /\ received = result[1] /\ result[1] < Len(sent)
        /\ sent[result[1] + 1] = result[2] /\ Len(sent) \in Nat
    BY DEF IInv, TypeOK, CallerInv
  <2>2. errors[result[1]] = result[2]
    <3>1. result[1] + 1 \in 1..Len(sent) /\ (result[1] + 1) - 1 = result[1]
      BY <2>1 DEF Index
    <3> QED BY <3>1, <2>1, Zenon DEF IInv, SentInv
  <2>3. ASSUME NEW j \in Index, j < result[1] PROVE errors[j] = "nil"
    <3>1. j + 1 \in 1..received /\ j + 1 \in 1..Len(sent) /\ (j + 1) - 1 = j
      BY <2>1, <2>3 DEF Index
    <3>2. sent[j+1] = "nil"
      BY <3>1, Zenon DEF IInv, CallerInv
    <3> QED BY <3>1, <3>2, Zenon DEF IInv, SentInv
  <2> QED BY <2>2, <2>3, Zenon
<1> QED BY <1>1, Invariance, PTL

(* In an accepted batch every verdict was received and is nil.             *)
LEMMA AcceptedAllNil ==
    ASSUME IInv, result[2] = "nil"
    PROVE  /\ dpc # "off"
           /\ \A i \in Index : /\ errors[i] = "nil" /\ kind[i] # "banned"
                               /\ i \in known \/ "nil" \in verifyHeader(kind[i], seals[i])
<1>1. received = N /\ Len(sent) \in Nat /\ N <= Len(sent)
  BY Constants_OK DEF IInv, TypeOK, CallerInv
<1>2. dpc # "off"
  <2>1. 1 \in 1..Len(sent) /\ 1 - 1 = 0
    BY <1>1, Constants_OK
  <2>2. checked[0]
    BY <2>1, Zenon DEF IInv, SentInv
  <2>3. 0 < in
    BY <2>2, Constants_OK, Zenon DEF IInv, DoneInv
  <2> QED BY <2>3 DEF IInv, StartInv
<1>3. ASSUME NEW i \in Index
      PROVE  /\ errors[i] = "nil" /\ kind[i] # "banned"
             /\ i \in known \/ "nil" \in verifyHeader(kind[i], seals[i])
  <2>1. i + 1 \in 1..received /\ i + 1 \in 1..Len(sent) /\ (i + 1) - 1 = i
    BY <1>1, Constants_OK DEF Index
  <2>2. sent[i+1] = "nil" /\ kind[i] # "banned"
    BY <2>1, Zenon DEF IInv, CallerInv
  <2>3. errors[i] = "nil" /\ checked[i]
    BY <2>1, <2>2, Zenon DEF IInv, SentInv
  <2>4. "nil" \in Possible(i)
    BY <2>3, Zenon DEF IInv, DoneInv
  <2> QED BY <2>2, <2>3, <2>4, Zenon DEF Possible, PossibleVerdicts
<1> QED BY <1>2, <1>3, Zenon

(* An accepted batch starts at a stored parent, and no header in it breaks *)
(* a rule that was checked; a seal that was asked for is good, unless the  *)
(* chain had stored the header.                                            *)
THEOREM AcceptedVerified == Spec => []AcceptedBatchVerified
<1>1. IInv => AcceptedBatchVerified
  <2> SUFFICES ASSUME IInv, result[2] = "nil"
               PROVE  /\ -1 \in known
                      /\ \A i \in Index :
                           /\ kind[i] \in {"valid", "future", "badSeal"}
                           /\ kind[i] = "badSeal" => ~seals[i] \/ i \in known
    BY Zenon DEF AcceptedBatchVerified
  <2>1. -1 \in known
    BY AcceptedAllNil, Constants_OK, Zenon DEF IInv, ChainInv
  <2>2. ASSUME NEW i \in Index
        PROVE  /\ kind[i] \in {"valid", "future", "badSeal"}
               /\ kind[i] = "badSeal" => ~seals[i] \/ i \in known
    <3>1. /\ kind[i] \in Kinds /\ kind[i] # "banned"
          /\ i \in known \/ "nil" \in verifyHeader(kind[i], seals[i])
      BY AcceptedAllNil, Zenon DEF IInv, TypeOK
    <3>2. kind[i] # "invalid"
      <4>1. CASE i \in known
        BY <4>1, Zenon DEF IInv, ChainInv, Importable
      <4>2. CASE "nil" \in verifyHeader(kind[i], seals[i])
        BY <4>2, Zenon DEF verifyHeader
      <4> QED BY <3>1, <4>1, <4>2, Zenon
    <3>3. kind[i] = "badSeal" => ~seals[i] \/ i \in known
      BY <3>1, Zenon DEF verifyHeader
    <3> QED BY <3>1, <3>2, <3>3, Zenon DEF Kinds
  <2> QED BY <2>1, <2>2, Zenon
<1> QED BY <1>1, Invariance, PTL

(* Sampling leaves no window of CheckFreq headers, and no batch end, made  *)
(* only of bad seals that are new to the chain.                            *)
THEOREM SealsSampled == Spec => []SealSampled
<1>1. IInv /\ AcceptedBatchVerified => SealSampled
  <2> SUFFICES ASSUME IInv, AcceptedBatchVerified, result[2] = "nil", CheckFreq > 0
               PROVE  /\ ~NewBadSeal(N-1)
                      /\ \A b \in Windows : \E i \in InWindow(b) : ~NewBadSeal(i)
    BY Zenon DEF SealSampled
  <2>1. \A i \in Index : seals[i] => ~NewBadSeal(i)
    BY Zenon DEF AcceptedBatchVerified, NewBadSeal
  <2>2. seals \in SealSamples /\ CheckFreq # 0
    BY AcceptedAllNil, FreqAssumption DEF IInv, StartInv
  <2>3. PICK pick \in [Windows -> Index] :
           /\ \A b \in Windows : pick[b] \in InWindow(b)
           /\ seals = [i \in Index |-> i = N - 1 \/ \E b \in Windows : i = pick[b]]
    BY <2>2, Zenon DEF SealSamples
  <2>4. seals[N-1]
    BY <2>3, Constants_OK, Zenon
  <2>5. \A b \in Windows : pick[b] \in Index /\ seals[pick[b]]
    BY <2>3, Zenon
  <2> QED BY <2>1, <2>3, <2>4, <2>5, Constants_OK, Zenon
<1> QED BY <1>1, Invariance, AcceptedVerified, PTL

-----------------------------------------------------------------------------
(* Every step of the pipeline is a step of the sequential verifier or a    *)
(* stutter of it: only Emit publishes, and it publishes the next verdict,  *)
(* which imports since it was computed leave legitimate.                   *)
LEMMA StepRefines == ASSUME IInv, Next PROVE [Ordered!Next]_(Ordered!vars)
<1> USE DEF batch, node, caller, dispatcher, workers, Ordered!vars
<1>1. CASE Emit
  <2>1. Len(sent) = out /\ out \in Index /\ Len(sent) < N
    BY <1>1, Constants_OK DEF Emit, IInv, TypeOK, SentInv, Index
  <2>2. errors[out] \in Possible(out)
    BY <1>1, <2>1, Zenon DEF Emit, IInv, DoneInv
  <2>3. errors[out] \in Ordered!PossibleVerdicts(Len(sent), kind[Len(sent)], seals[Len(sent)],
                                                Len(sent) \in known)
    BY <2>1, <2>2, Zenon DEF Possible, PossibleVerdicts, verifyHeader,
                      Ordered!PossibleVerdicts, Ordered!verifyHeader
  <2>4. sent' = Append(sent, errors[out]) /\ UNCHANGED <<kind, seals, known>>
    BY <1>1, Zenon DEF Emit
  <2> QED BY <2>1, <2>3, <2>4, Zenon DEF Ordered!Next, Ordered!Decide
<1>2. CASE StartVerifier
  <2>1. sent = <<>>
    <3>1. in = 0
      BY <1>2, Zenon DEF StartVerifier, IInv, StartInv
    <3>2. ~(1 \in 1..Len(sent))
      BY <3>1, Constants_OK DEF IInv, SentInv, DoneInv
    <3> QED BY <3>2 DEF IInv, TypeOK
  <2>2. seals' \in [0..(N-1) -> BOOLEAN] /\ UNCHANGED <<kind, known, sent>>
    BY <1>2, SealSamplesType, Zenon DEF StartVerifier, Index
  <2> QED BY <2>1, <2>2, Zenon DEF Ordered!Next, Ordered!Request
<1>3. CASE RejectUnlinked \/ CheckHeader \/ ReceiveVerdict
  BY <1>3, Zenon DEF RejectUnlinked, CheckHeader, ReceiveVerdict
<1>4. CASE (\E w \in Workers : SendInput(w)) \/ ReceiveDone \/ StopEmitting \/ DispatcherAborts
  BY <1>4, Zenon DEF SendInput, ReceiveDone, StopEmitting, DispatcherAborts
<1>5. CASE \E w \in Workers : WorkerStep(w)
  BY <1>5, Zenon DEF WorkerStep, Verify, Report, WorkerExits
<1>6. CASE StopNode
  BY <1>6, Zenon DEF StopNode
<1>7. ASSUME NEW i \in -1..(N-1), ImportElsewhere(i) PROVE Ordered!Store(i)
  BY <1>7, Zenon DEF ImportElsewhere, Ordered!Store, Importable, Ordered!Importable
<1> QED BY <1>1, <1>2, <1>3, <1>4, <1>5, <1>6, <1>7, Zenon
        DEF Next, CallerStep, DispatcherStep, Environment, Ordered!Next

(* The concurrent verifier implements the sequential one.                  *)
THEOREM Refinement == Spec => ImplementsOrdered
<1>1. Init => Ordered!Init
  <2> SUFFICES ASSUME Init PROVE Ordered!Init
    OBVIOUS
  <2>1. BatchKinds \subseteq Ordered!Kinds
    BY KindsAssumption, Zenon DEF Kinds, Ordered!Kinds
  <2>2. kind \in [0..(N-1) -> Ordered!Kinds]
    BY <2>1, Zenon DEF Init, Index
  <2>3. seals \in [0..(N-1) -> BOOLEAN] /\ sent = <<>> /\ known \subseteq {-1}
    BY Zenon DEF Init, Index
  <2> QED BY <2>2, <2>3, Zenon DEF Ordered!Init
<1>2. IInv /\ [Next]_vars => [Ordered!Next]_(Ordered!vars)
  BY StepRefines, Zenon DEF vars, Ordered!vars
<1> QED BY <1>1, <1>2, Invariance, PTL DEF Spec, Ordered!Spec, ImplementsOrdered
=============================================================================
