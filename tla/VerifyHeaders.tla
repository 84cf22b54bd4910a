---------------------------- MODULE VerifyHeaders ---------------------------
(***************************************************************************)
(* The concurrent header verifier of the TPPoW engine and its caller.      *)
(*                                                                         *)
(*   Tppow.VerifyHeaders          consensus/tppow/tppow.go                 *)
(*   HeaderChain.ValidateHeaderChain   core/headerchain.go                 *)
(*                                                                         *)
(* The caller checks that the batch is linked, samples the seals to check  *)
(* and starts the verifier.  The verifier is one dispatcher goroutine and  *)
(* NumWorkers worker goroutines, joined by the channels                    *)
(*   inputs     unbuffered, dispatcher to workers (a rendezvous here)      *)
(*   done       capacity NumWorkers, workers to dispatcher                 *)
(*   errorsOut  capacity N, dispatcher to caller                           *)
(*   abort      closed by the caller when it returns                       *)
(* Other goroutines of the node may import headers of the batch meanwhile. *)
(***************************************************************************)
EXTENDS HeaderVerdicts, Integers, Sequences

CONSTANTS N,          \* len(headers), not zero: an empty batch starts nothing
          MaxProcs,   \* runtime.GOMAXPROCS(0)
          CheckFreq,  \* one seal in CheckFreq is verified; 0 verifies none
          BatchKinds  \* the classes of header a batch may hold

ASSUME BatchAssumption == N \in Nat \ {0}
ASSUME ProcsAssumption == MaxProcs \in Nat \ {0}
ASSUME FreqAssumption  == CheckFreq \in Nat
ASSUME KindsAssumption == BatchKinds \subseteq Kinds

Index == 0..(N-1)

NumWorkers == IF N < MaxProcs THEN N ELSE MaxProcs

Workers == 1..NumWorkers

VARIABLES
    \* the batch and the node
    kind,       \* kind[i]: class of header i
    linked,     \* linked[i]: header i names header i-1 as its parent
    known,      \* indices stored by the chain; -1 is the parent of header 0
    stopping,   \* procInterrupt()
    \* the caller
    cpc, seals, received, result,
    \* the dispatcher
    dpc, in, out, checked, sent,
    \* the workers
    wpc, windex, errors, done,
    \* closed by the caller
    abort

batch      == <<kind, linked>>
node       == <<known, stopping>>
caller     == <<cpc, seals, received, result, abort>>
dispatcher == <<dpc, in, out, checked, sent>>
workers    == <<wpc, windex, errors, done>>
vars == <<kind, linked, known, stopping, cpc, seals, received, result,
          dpc, in, out, checked, sent, wpc, windex, errors, done, abort>>

Init == /\ kind \in [Index -> BatchKinds]
        /\ linked \in [1..(N-1) -> BOOLEAN]
        /\ known \in {{}, {-1}}
        /\ stopping = FALSE
        /\ cpc = "start"
        /\ seals = [i \in Index |-> FALSE]
        /\ received = 0
        /\ result = <<0, "none">>
        /\ dpc = "off" /\ in = 0 /\ out = 0
        /\ checked = [i \in Index |-> FALSE]
        /\ sent = <<>>
        /\ wpc = [w \in Workers |-> "off"]
        /\ windex = [w \in Workers |-> 0]
        /\ errors = [i \in Index |-> "none"]
        /\ done = <<>>
        /\ abort = FALSE

-----------------------------------------------------------------------------
(* The node around the verifier.                                           *)

(* Another goroutine stores a header of the batch, parents first; it may   *)
(* have sampled other seals.                                               *)
ImportElsewhere(i) ==
    /\ i \notin known
    /\ i >= 0 => /\ kind[i] \in Importable
                 /\ i - 1 \in known
                 /\ i > 0 => linked[i]
    /\ known' = known \cup {i}
    /\ UNCHANGED <<stopping, batch, caller, dispatcher, workers>>

StopNode ==
    /\ ~stopping
    /\ stopping' = TRUE
    /\ UNCHANGED <<known, batch, caller, dispatcher, workers>>

-----------------------------------------------------------------------------
(* ValidateHeaderChain.                                                    *)

Windows == IF CheckFreq = 0 THEN {} ELSE 0..((N \div CheckFreq) - 1)

InWindow(b) == (b * CheckFreq)..(b * CheckFreq + CheckFreq - 1)

(* Mutant: the last header's seal is not requested.                        *)
SealSamplesNoLast ==
    {[i \in Index |-> \E b \in Windows : i = pick[b]] :
        pick \in {p \in [Windows -> Index] :
                     \A b \in Windows : p[b] \in InWindow(b)}}

(* The seals the sampling may request: one per full window of CheckFreq    *)
(* headers, and the last header's.                                         *)
SealSamples ==
    IF CheckFreq = 0 THEN {[i \in Index |-> FALSE]}
    ELSE {[i \in Index |-> i = N - 1 \/ \E b \in Windows : i = pick[b]] :
             pick \in {p \in [Windows -> Index] :
                          \A b \in Windows : p[b] \in InWindow(b)}}

Return(i, err) == /\ cpc' = "returned"
                  /\ result' = <<i, err>>

(* The batch does not link: nothing is started.                            *)
RejectUnlinked ==
    /\ cpc = "start"
    /\ \E i \in 1..(N-1) : ~linked[i]
    /\ Return(0, "errNonContiguous")
    /\ UNCHANGED <<seals, received, abort, batch, node, dispatcher, workers>>

StartVerifier ==
    /\ cpc = "start"
    /\ \A i \in 1..(N-1) : linked[i]
    /\ seals' \in SealSamples
    /\ cpc' = "check"
    /\ dpc' = "select"
    /\ wpc' = [w \in Workers |-> "idle"]
    /\ UNCHANGED <<received, result, abort, batch, node, in, out, checked,
                   sent, windex, errors, done>>

(* Mutant: the ban list is not consulted.                                  *)
CheckHeaderNoBan ==
    /\ cpc = "check"
    /\ IF stopping
       THEN Return(0, "errAborted") /\ abort' = TRUE
       ELSE cpc' = "receive" /\ UNCHANGED <<result, abort>>
    /\ UNCHANGED <<seals, received, batch, node, dispatcher, workers>>

(* Top of the loop: shutdown, then the ban list, then wait for a verdict.  *)
CheckHeader ==
    /\ cpc = "check"
    /\ \/ /\ stopping
          /\ Return(0, "errAborted")
          /\ abort' = TRUE
       \/ /\ ~stopping
          /\ kind[received] = "banned"
          /\ Return(received, "errBlacklisted")
          /\ abort' = TRUE
       \/ /\ ~stopping
          /\ kind[received] # "banned"
          /\ cpc' = "receive"
          /\ UNCHANGED <<result, abort>>
    /\ UNCHANGED <<seals, received, batch, node, dispatcher, workers>>

(* Mutant: the index returned with a failure is the one before.            *)
ReceiveVerdictSkewed ==
    /\ cpc = "receive"
    /\ received < Len(sent)
    /\ LET err == sent[received + 1] IN
          IF err # "nil"
          THEN /\ Return(IF received = 0 THEN 0 ELSE received - 1, err)
               /\ abort' = TRUE
               /\ UNCHANGED received
          ELSE /\ received' = received + 1
               /\ IF received + 1 = N
                  THEN Return(0, "nil") /\ abort' = TRUE
                  ELSE cpc' = "check" /\ UNCHANGED <<result, abort>>
    /\ UNCHANGED <<seals, batch, node, dispatcher, workers>>

(* <-results: a failure ends the loop, and so does the last header.        *)
ReceiveVerdict ==
    /\ cpc = "receive"
    /\ received < Len(sent)
    /\ LET err == sent[received + 1] IN
          IF err # "nil"
          THEN /\ Return(received, err)
               /\ abort' = TRUE
               /\ UNCHANGED received
          ELSE /\ received' = received + 1
               /\ IF received + 1 = N
                  THEN Return(0, "nil") /\ abort' = TRUE
                  ELSE cpc' = "check" /\ UNCHANGED <<result, abort>>
    /\ UNCHANGED <<seals, batch, node, dispatcher, workers>>

-----------------------------------------------------------------------------
(* The dispatcher goroutine of VerifyHeaders.                              *)

(* Mutant: inputs is not set to nil at the end, the last index goes out    *)
(* again.                                                                  *)
SendInputAgain(w) ==
    /\ dpc = "select"
    /\ wpc[w] = "idle"
    /\ in' = IF in + 1 = N THEN in ELSE in + 1
    /\ wpc' = [wpc EXCEPT ![w] = "verify"]
    /\ windex' = [windex EXCEPT ![w] = in]
    /\ UNCHANGED <<dpc, out, checked, sent, errors, done, batch, node, caller>>

(* case inputs <- in: handed to a worker that waits on the channel.        *)
SendInput(w) ==
    /\ dpc = "select"
    /\ in < N
    /\ wpc[w] = "idle"
    /\ in' = in + 1
    /\ wpc' = [wpc EXCEPT ![w] = "verify"]
    /\ windex' = [windex EXCEPT ![w] = in]
    /\ UNCHANGED <<dpc, out, checked, sent, errors, done, batch, node, caller>>

(* case index := <-done                                                    *)
ReceiveDone ==
    /\ dpc = "select"
    /\ done # <<>>
    /\ checked' = [checked EXCEPT ![Head(done)] = TRUE]
    /\ done' = Tail(done)
    /\ dpc' = "emit"
    /\ UNCHANGED <<in, out, sent, wpc, windex, errors, batch, node, caller>>

(* Mutant: verdicts go out without waiting for the next header's.          *)
EmitUnchecked ==
    /\ dpc = "emit"
    /\ sent' = Append(sent, errors[out])
    /\ IF out = N - 1
       THEN dpc' = "returned" /\ UNCHANGED out
       ELSE out' = out + 1 /\ UNCHANGED dpc
    /\ UNCHANGED <<in, checked, workers, batch, node, caller>>

(* Mutant: at most one verdict goes out per finished header.               *)
EmitOne ==
    /\ dpc = "emit"
    /\ checked[out]
    /\ sent' = Append(sent, errors[out])
    /\ IF out = N - 1
       THEN dpc' = "returned" /\ UNCHANGED out
       ELSE out' = out + 1 /\ dpc' = "select"
    /\ UNCHANGED <<in, checked, workers, batch, node, caller>>

(* errorsOut <- errors[out] while the next header is checked.              *)
Emit ==
    /\ dpc = "emit"
    /\ checked[out]
    /\ Len(sent) - received < N
    /\ sent' = Append(sent, errors[out])
    /\ IF out = N - 1
       THEN dpc' = "returned" /\ UNCHANGED out
       ELSE out' = out + 1 /\ UNCHANGED dpc
    /\ UNCHANGED <<in, checked, workers, batch, node, caller>>

StopEmitting ==
    /\ dpc = "emit"
    /\ ~checked[out]
    /\ dpc' = "select"
    /\ UNCHANGED <<in, out, checked, sent, workers, batch, node, caller>>

(* case <-abort                                                            *)
DispatcherAborts ==
    /\ dpc = "select"
    /\ abort
    /\ dpc' = "returned"
    /\ UNCHANGED <<in, out, checked, sent, workers, batch, node, caller>>

-----------------------------------------------------------------------------
(* A worker goroutine of VerifyHeaders.                                    *)

HasParent(i) == IF i = 0 THEN -1 \in known ELSE linked[i]

Verify(w) ==
    /\ wpc[w] = "verify"
    /\ \E v \in verifyHeaderWorker(kind[windex[w]], seals[windex[w]],
                                   HasParent(windex[w]), windex[w] \in known) :
          errors' = [errors EXCEPT ![windex[w]] = v]
    /\ wpc' = [wpc EXCEPT ![w] = "report"]
    /\ UNCHANGED <<windex, done, batch, node, caller, dispatcher>>

(* Mutant: the done channel is not bounded.                                *)
ReportUnbounded(w) ==
    /\ wpc[w] = "report"
    /\ done' = Append(done, windex[w])
    /\ wpc' = [wpc EXCEPT ![w] = "idle"]
    /\ UNCHANGED <<windex, errors, batch, node, caller, dispatcher>>

(* done <- index                                                           *)
Report(w) ==
    /\ wpc[w] = "report"
    /\ Len(done) < NumWorkers
    /\ done' = Append(done, windex[w])
    /\ wpc' = [wpc EXCEPT ![w] = "idle"]
    /\ UNCHANGED <<windex, errors, batch, node, caller, dispatcher>>

(* Mutant: inputs is closed on the abort path only.                        *)
WorkerExitsOnAbort(w) ==
    /\ wpc[w] = "idle"
    /\ dpc = "returned" /\ Len(sent) < N
    /\ wpc' = [wpc EXCEPT ![w] = "exited"]
    /\ UNCHANGED <<windex, errors, done, batch, node, caller, dispatcher>>

(* The dispatcher has returned and closed inputs.                          *)
WorkerExits(w) ==
    /\ wpc[w] = "idle"
    /\ dpc = "returned"
    /\ wpc' = [wpc EXCEPT ![w] = "exited"]
    /\ UNCHANGED <<windex, errors, done, batch, node, caller, dispatcher>>

-----------------------------------------------------------------------------
CallerStep == RejectUnlinked \/ StartVerifier \/ CheckHeader \/ ReceiveVerdict

DispatcherStep == \/ \E w \in Workers : SendInput(w)
                  \/ ReceiveDone \/ Emit \/ StopEmitting \/ DispatcherAborts

WorkerStep(w) == Verify(w) \/ Report(w) \/ WorkerExits(w)

Environment == StopNode \/ \E i \in -1..(N-1) : ImportElsewhere(i)

Next == \/ CallerStep
        \/ DispatcherStep
        \/ \E w \in Workers : WorkerStep(w)
        \/ Environment

Spec == Init /\ [][Next]_vars

(* While a goroutine can run the scheduler runs one, which is less than    *)
(* fairness to each; the node need neither stop nor import.                *)
FairSpec == /\ Spec
            /\ WF_vars(CallerStep \/ DispatcherStep \/ \E w \in Workers : WorkerStep(w))

-----------------------------------------------------------------------------
(* Properties.                                                             *)

Verdicts == Errors \cup {"none"}

Returns == Errors \cup {"none", "errNonContiguous", "errAborted", "errBlacklisted"}

(* Every variable stays in its range; the done channel and the number of   *)
(* verdicts in errorsOut never exceed the capacities make() gave them.     *)
TypeOK ==
    /\ kind \in [Index -> Kinds]
    /\ linked \in [1..(N-1) -> BOOLEAN]
    /\ known \in SUBSET (-1..(N-1))
    /\ stopping \in BOOLEAN
    /\ cpc \in {"start", "check", "receive", "returned"}
    /\ seals \in [Index -> BOOLEAN]
    /\ received \in 0..N
    /\ result \in Index \X Returns
    /\ dpc \in {"off", "select", "emit", "returned"}
    /\ in \in 0..N
    /\ out \in Index
    /\ checked \in [Index -> BOOLEAN]
    /\ sent \in Seq(Verdicts) /\ Len(sent) <= N
    /\ wpc \in [Workers -> {"off", "idle", "verify", "report", "exited"}]
    /\ windex \in [Workers -> Index]
    /\ errors \in [Index -> Verdicts]
    /\ done \in Seq(Index) /\ Len(done) <= NumWorkers
    /\ abort \in BOOLEAN

(* "the order is that of the input slice": the k-th verdict published is   *)
(* the verdict some worker computed for header k-1, although the workers   *)
(* finish in any order and their done messages arrive in any order.        *)
ResultsInOrder ==
    \A k \in 1..Len(sent) :
        /\ sent[k] = errors[k-1]
        /\ sent[k] \in PossibleVerdicts(k-1, kind[k-1], seals[k-1], k-1 \in known)

(* The errors slice is shared without a lock: no two workers hold the same *)
(* index, and none holds an index whose slot the dispatcher may read.      *)
ErrorSlotsUnshared ==
    \A w \in Workers : wpc[w] \in {"verify", "report"} =>
        /\ ~checked[windex[w]]
        /\ \A v \in Workers \ {w} :
              wpc[v] \in {"verify", "report"} => windex[v] # windex[w]

(* ValidateHeaderChain reports the first header that fails: the returned   *)
(* index carries the returned error and every header before it passed.     *)
FirstFailureReported ==
    (cpc = "returned" /\ result[2] \in Errors \ {"nil"}) =>
        /\ errors[result[1]] = result[2]
        /\ \A j \in Index : j < result[1] => errors[j] = "nil"

(* A batch ValidateHeaderChain accepts has no header that breaks a rule,   *)
(* save for seals nobody asked for or headers the chain stored beside the  *)
(* batch, and none on the ban list; it starts at a header whose parent the *)
(* chain stores.                                                           *)
AcceptedBatchVerified ==
    result[2] = "nil" =>
        /\ -1 \in known
        /\ \A i \in Index :
              /\ kind[i] \in {"valid", "future", "badSeal"}
              /\ kind[i] = "badSeal" => ~seals[i] \/ i \in known

(* A bad seal that the batch brings to the chain.                          *)
NewBadSeal(i) == kind[i] = "badSeal" /\ i \notin known

(* Sparse seal checking still leaves no window of CheckFreq headers, and   *)
(* no batch end, made only of headers with a bad seal that are new to the  *)
(* chain.                                                                  *)
SealSampled ==
    (result[2] = "nil" /\ CheckFreq > 0) =>
        /\ ~NewBadSeal(N-1)
        /\ \A b \in Windows : \E i \in InWindow(b) : ~NewBadSeal(i)

(* The caller gets an answer in every execution: no interleaving of        *)
(* dispatcher, workers and imports leaves it waiting on results.           *)
CallerReturns == <>(cpc = "returned")

AllExited == \A w \in Workers : wpc[w] = "exited"

(* When the last verdict is published the deferred close(inputs) ends      *)
(* every worker.                                                           *)
WorkersExitAfterDelivery == (Len(sent) = N) ~> AllExited

(* The pipeline implements the sequential verifier.                        *)
Ordered == INSTANCE OrderedVerifier WITH results <- sent

ImplementsOrdered == Ordered!Spec
=============================================================================
