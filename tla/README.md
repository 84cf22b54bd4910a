# Formal models of go-luck

TLA+ models of the consensus, mining, transaction pool and synchronisation core
of go-luck, a go-ethereum derivative whose proof of work is TPPoW (two-phase proof of work): a first
nonce search decides how lucky a block is, and the luck scales the target of a
second search and, below block 39200, the weight of the block. Modules, TLC
configurations and TLAPS proofs live side by side in this directory;
`PROJECT.json` maps every definition to the lines of the source it models and
lists components, runs, mutants, findings, hazards and theorems. Source paths
below are relative to `src/`.

    tlc -config Miner.cfg MCMiner      # a run: configuration, MC module
    tlapm MinerProofs.tla              # the proofs of a module

## The system and its parts

A node receives blocks from the network (`fort/fetcher`, `fort/downloader`) or
mines them (`miner`), checks their headers and seals with the engine
(`consensus/tppow`), and adopts the heaviest chain (`core/blockchain.go`). A new
head is announced to the miner's worker, which builds a block on it from the
transaction pool and hands it to the engine to be sealed.

| part | source | here |
|---|---|---|
| batch header verification | `consensus/tppow/tppow.go`, `core/headerchain.go` | `HeaderVerdicts`, `VerifyHeaders`, `OrderedVerifier` |
| TPPoW engine: parameters, sealing, header rules | `consensus/tppow/tppow.go`, `core/block_validator.go` | `Tppow` |
| uncle rule | `consensus/tppow/tppow.go` | `Uncles` |
| block import, fork choice, database, restart | `core/blockchain.go` | `BlockChain` |
| mining worker | `miner/worker.go` | `Worker` |
| miner and downloader events | `miner/miner.go`, `event/event.go`, `fort/backend.go` | `Miner` |
| transaction pool | `core/tx_pool.go`, `core/tx_list.go`, `core/tx_noncer.go` | `TxPool` |
| downloader and its queue | `fort/downloader/downloader.go`, `fort/downloader/queue.go` | `Downloader`, `BlockStream` |
| everything else | | see *What is not modelled* |

How the models meet: `Worker` uses the engine as the goroutines of `Seal` and
`mine`, which `Tppow` models in detail; `Worker` sees the chain as its head and
events, which `BlockChain` produces; `Miner` sees the worker as its running flag
and start channel, and the downloader as the events it posts; `TxPool` sees the
chain as its head events and the states of its blocks. Each interface is the one the Go code has (a channel or an
atomic flag), so a model can be read beside its neighbour, but the modules are
not instantiated in one another: their product is out of TLC's reach.

## Modules

### Header verification: `VerifyHeaders`, `HeaderVerdicts`, `OrderedVerifier`

`Tppow.VerifyHeaders` hands header indexes to worker goroutines over an
unbuffered channel, collects their completions over a channel with one slot per
worker, and releases verdicts in header order; its caller `ValidateHeaderChain`
samples seals, checks for banned hashes and shutdown, and takes verdicts one by
one. A header is its kind (`valid`, `invalid`, `badSeal`, `future`, `banned`);
`HeaderVerdicts` says what the engine may answer for it. Concurrent imports store
headers of the batch at any time, also ones with a bad seal, since the other import
samples seals too; a header that is stored already is accepted without a look.
`AcceptedBatchVerified` and `SealSampled` say what an accepted batch is worth in
spite of that. `OrderedVerifier` is the abstract
specification: verdicts appear one at a time, in order, as a sequential loop
would give them. `ImplementsOrdered` is the refinement.

### Engine: `Tppow`

`Prepare` (header time, gas limit, basis and first target), `Seal` with its
goroutine `mine` (two searches with wrapping nonces), `stop` and delivery;
`calcParam`, `calcBeta`, `calcDifficulty`, `CalcGasLimit` as operators, and
`verifyHeader` with `VerifySeal` as the receiving node evaluates them. The hash of
a nonce is chosen by nature when it is first tried and is then fixed until the
goroutine ends. Integers are unbounded, as `math/big` is.

### Uncles: `Uncles`

Headers form an arbitrary tree, each with an arbitrary list of uncles; a header
becomes a block of the chain if `VerifyUncles` accepts it. The module is about
what a check over a window of ancestors says of whole chains. Its specification is
`UnclesSpec`: its names are distinct from those of `Tppow`, so that the proofs about
the engine can use both.

### Block chain: `BlockChain`

`InsertChain` and `WriteBlockWithState` as sequences of database batches under
`chainmu`: skipping known blocks, execution, fork choice by total difficulty,
`reorg` block by block, index deletion, side chains with missing states, the
collection of old tries, and what `loadLastState` and `repair` make of the
database after a crash between any two batches or after `Stop`.

### Worker: `Worker`

The four loops, their channels with their capacities, the atomics `running` and
`newTxs`, interrupts, tasks keyed by seal hash, the sealing goroutines with the
stop channel they capture, and results that come late. A block is its parent,
number, coinbase and transactions. A request may end in one of the error returns of
`commitNewWork` (`failed` records it, until the next request), a block may be
kept aside by the chain, and writing it may fail. `TxPool.Pending` never
returns an error, so that its check is left out.

Three things came up while modelling. A worker whose own block is kept
aside or cannot be written does not search again on that head before a new head,
transaction or start. `mainLoop` reports an interrupted fill on `resubmitAdjustCh`
(`miner/worker.go:823`), and `newWorkLoop` waits for `mainLoop` when it submits a
request; when the channel is full the two wait for each other. `SealsOnHead` excepts
that state (`Deadlocked`), and is violated without the exception. Last,
`newWorkLoop` clears `newTxs` after it sent its request (line 311), and may so undo
the count of transactions that came in between; the recommit timer then finds
nothing to do. No property covers the last one.

### Miner: `Miner`

`update` of the miner, which stops mining for the first synchronisation and
resumes it afterwards; `Start`, `Stop` and `SetEtherbase`, called by users through
the backend; the subscription to the `TypeMux`. Every atomic load and store is a
step.

### Transaction pool: `TxPool`

Callers of `AddLocals` and `AddRemotes` look for known transactions without the
lock and add the rest one by one under `mu`; `loop` turns chain heads into reset
requests, evicts and stops; `scheduleReorgLoop` merges requests and launches one
`runReorg` at a time, which resets to the new head, adds the transactions of an
abandoned branch again, promotes, demotes, truncates both lists and, after the
unlock, announces. A transaction is its sender, nonce, price and cost; the pool
is the record `pool` of pending and queued sets per account, the lookup `all` and
the virtual nonces. The operations of `txList` and of the pool (`Enqueue`,
`RemoveTx`, `Insert`, `Promote`, `Demote`, `CapOne`) are operators on that record.
Ties of price, heartbeats and map order are left open. The chain is a finite tree
whose states count the transactions of their blocks (`ChainAssumption`).

### Downloader: `Downloader`, `BlockStream`

One synchronisation from `spawnSync` on: the five goroutines that fetch headers,
bodies and receipts, schedule headers and import content; the queue with its task
queues, requests per peer, done pools and result cache; `Reserve`, `Deliver`,
`ExpireRequests`, `Revoke`, under a lock of its own after the peer was unregistered,
and the throttling by the cache and its memory limit, which depends on the blocks of
earlier synchronisations;
the pivot of a fast sync, which moves while it is waited for; errors, `Cancel`, and
peers that answer late, partly, wrongly or never, and leave. `BlockStream` is the
abstract specification: whole blocks enter the chain in order, each once.

## Runs

| run | instance | distinct states | shows |
|---|---|---|---|
| `verify_headers` | 3 headers (valid, bad seal, banned), 2 workers, sampling every 2 | 972,676 | order, slot ownership, first failure, accepted batches, sampling; return, exit of workers; refinement |
| `worker_safety` | 1 imported block, 1 transaction, 1 side block, 1 start, 1 stop, 1 request that fails | 2,703,580 | no head is lost, interrupted blocks are replaced, a running worker's block has its coinbase |
| `worker_liveness` | 2 found blocks, 1 write that fails, 1 start, 1 imported block or close | 262,565 | a running worker seals on the head or has found a block on it, unless it is deadlocked; blocks on the head are not discarded; `taskLoop` and `resultLoop` end |
| `blockchain_safety` | 3 blocks of weight 0 to 2, batches of 2, 1 crash, 1 restart | 664,240 | index, state, lookup and markers of the head; heaviest chain |
| `engine` | 2 blocks, 3 nonces, 3 hash values | 412,936 | mined blocks verify, computed fields are forced, searches end |
| `uncles` | 6 headers, window 3, lists of up to 3 | 5,154 | an uncle is named once per chain and is never on it |
| `miner` | 2 users, 2 synchronisations | 127,706 | mining resumes, starting is forbidden only in the first synchronisation, the downloader is not held up |
| `miner_start` | 1 user, 1 synchronisation | violation | a start that was told to wait is forgotten |
| `tx_pool` | 2 accounts, 7 transactions, 2 callers, 2 heads in a tree of 3 blocks, room for 5 | 198,412 | lookup and lists agree, nonces have no holes, requests and announcements are not lost, the pool stays within its size |
| `tx_pool_errors` | the same | violation | an error is reported at the wrong transaction |
| `downloader` | 10 synchronisations, full and fast, of up to 4 blocks, 2 peers, cache of 2 | 254,402 | every part has one owner, reservations fit the cache, the pivot has its state, blocks leave in order, a cancelled synchronisation returns |
| `downloader_done` | 2 blocks, a peer that leaves | violation | a synchronisation succeeds without blocks it scheduled |

Every property of a passing run is violated when the definition named in
`PROJECT.json` is replaced by its mutant, an operator that stands right before it.

The three violations are disagreements between the code and its own words:

- `miner_start`: `update` reads `shouldStart` before it permits starting and clears
  it after (`miner/miner.go:106`), so a `Start` in between is lost in spite of
  its log line.
- `tx_pool_errors`: `addTxs` merges the errors of the new transactions into the
  first slot that is still nil (`core/tx_pool.go:811`); behind an accepted
  transaction the slot does not move on, and a later error is reported for the
  accepted one.
- `downloader_done`: `fetchParts` asks for pending tasks and for requests in flight
  under two separate locks (`fort/downloader/downloader.go:1294`); a peer that
  leaves in between moves its tasks from the second answer to the first, and the
  fetcher ends.

`NonceIsNextUnlessRefused` has an exception that the comment of `Nonce`
(`core/tx_pool.go`: the next nonce "with all transactions executable by the pool
already applied on top") does not mention. When `reset` adds the transactions of an
abandoned branch to a full pool, one of them may be refused, or discarded to make
room for the next; `demoteUnexecutables` looks for a gap at the front of the pending
list only, so the account may be left with a gap further up and a nonce beyond it.
The variable `refused` records such accounts, and the property holds for all
others. The instance of `tx_pool` contains such a case: without the exception, or
with one for refused transactions only, the property is violated on it.

### Bounds

Every bound is a constant with a comment. Two workers and three headers let a
worker take a second header while another is still computing. Three blocks with
`TriesInMemory` 2 instead of 128 make states be collected and a shorter chain be
the heavier one; larger trees (four blocks) were also run while the model was
built, and add nothing to what is found. A window of 3 with six headers has
chains on which an uncle leaves the window. Two users of the miner suffice for any
two calls to race each other and `update`. Nonces, hashes and lucks take the few
values around the targets. The worker's channels keep their real capacity, except
that `resubmitAdjustCh` has room for one report in `worker_liveness`, so that it
fills; there an import may take the number of a block that was found and is not
written yet, and a worker that is closed sees new heads of its own making only. The
pool holds five transactions, fewer than are sent, so that
discarding, both truncations and a reinjection into a full pool happen; its chain
has a block that includes three transactions and a sibling that includes none. Each
of its two callers makes one call, so that calls of different callers race; that a
caller may call any number of times is left to the proofs. The
downloader's cache of two is smaller than a synchronisation of four blocks, so
throttling and the moving pivot happen. No symmetry reduction is used, since most
runs check liveness or have few symmetric values.

### Fairness

The Go scheduler runs every runnable goroutine eventually. The models assume weak
fairness of each goroutine's next step, or less where the property needs less and
TLC is faster: in `VerifyHeaders` and `Worker`, and for the goroutines of
`Downloader` other than the fetchers, only that while one of them can run, one of
them does. `select` may take any ready case, and is not assumed to be
fair between them, with one exception: a fetcher of the downloader whose cancel
channel is closed takes that case eventually (strong fairness), since it selects
again after each other event, and picks among the ready cases at random. Nothing
is assumed of users, of the network or of the hashes: nobody has to call, no block
has to come, no nonce has to succeed. A synchronisation ends (its requests have
timeouts), and `newWorkLoop` empties the start channel while it is not closed; both
are assumptions of `Miner` only. `DoneEvent` and `FailedEvent` are handled alike, so
an end is one event.

## Proofs

The provers check every step; nothing is assumed but the named assumptions on the
constants, which TLC also evaluates.

| module | theorems | argument |
|---|---|---|
| `VerifyHeadersProofs` | `TypeCorrect`, `OrderedResults`, `SlotsUnshared`, `FirstFailure`, `AcceptedVerified`, `SealsSampled`, `Refinement` | the invariant says who owns each header index (waiting, with one worker, in the done channel, collected, published) and what is known of its verdict there; each index has one owner, so slots are unshared and the published prefix is what a sequential verifier would publish |
| `WorkerProofs` | `HeadsNotLost`, `SealsForOwner`, `InterruptedReplaced`, `HeadBlocksKept` | four parts: types; a request in `newWorkCh` and the interrupt belong together; what is owed on the head, and to the coinbase, while no request is outstanding and the last one did not fail; what is known of every task being sealed (its number is one above its parent's) |
| `BlockChainProofs` | `CanonLeadsToHead`, `HeadKeepsState`, `HeadIsHeaviest`, `LookupFollowsHead`, `HeaderFollowsHead` | paths are chains (one block per number); while a block is being adopted, everything below it is on the head's path or still to be written, lowest first, so each batch extends the head's own chain and a crash may fall anywhere (`IInv`); on top of it, which states are kept (`StateInv`), that the head outweighs what is stored with a state (`WeightInv`), and what a reorganisation in progress still owes to lookup and markers (`LookInv`, `MarkInv`) |
| `TppowProofs`, on `Tppow` | `MinedIsAccepted`, `EngineFieldsForced`, `GasLimitInBounds` | what `Prepare` and the first search have settled stays settled until delivery, and each settled field is a function of the parent and the luck (`FieldInv`), so a changed one fails its check; the gas limit rule is arithmetic over `\div`, and needs floors of at least 6 * 1024 |
| `TppowProofs`, on `Uncles` | `UnclesNamedOnce`, `UnclesBesideChain` | an uncle is older than its block and its parent is in the window; a block outside the window is too old to have named it |
| `MinerProofs` | `ForbiddenInSync` | until the node is shut down, `update` stays subscribed while it handles events, so once subscribed it misses none of the first synchronisation's, and starting is permitted before the first and after the last of them |
| `TxPoolProofs` | `PoolListsMatchLookup`, `RequestsServed`, `RemotesBounded`, `PendingIsAnnounced` | each operation on the lists keeps them sound: one transaction per nonce over both lists, and the lookup is their union; every request in the scheduler's hands leads to the newest head and has a launch due; `add` discards before it inserts, and nothing else adds to the lookup (`BoundInv` also keeps it finite); for the last one, what each stage of `runReorg` leaves to the next one (below) |
| `TxPoolNonceProofs` | `NoncesAreNext` | on the invariants of `TxPoolProofs`, what each stage of `runReorg` knows of the nonces of an account's pending transactions (below) |
| `DownloaderProofs` | `PartsHaveOwners`, `ReservationsFit`, `PivotCommittedWithState`, `StreamRefinement` | a part is with the task queue, one request or the done pool, from the offset of the cache to the last scheduled block; whatever left the task queue has a slot, slots are allocated without gaps from the offset on |

The theorems hold for every value of the constants: batch lengths and thread
counts, heads and calls, trees, weights and crashes, targets and hashes, windows and
uncle counts, users, transactions, prices and limits, peers and cache sizes.
Hardly any property is inductive as it stands. Without the fact about the
operation in progress, a batch of `reorg` could be written above a gap
(`CanonToHead`); without knowing that uncles are older than the block that names
them, one could be named again outside the window (`UncleOnce`); without the slots
below it, a reservation could be made beyond the cache (`SlotsInCache`).

The two theorems about what `runReorg` does to the pending lists follow it stage by
stage. Under both lie who holds the lock when (`LockInv`), that a run's reset leads
from the pool's own state (`ResetInv`), and which lists are already at or above the
nonces of that state (`FloorInv`). `PendingIsAnnounced` adds where the event of each
pending transaction is: sent, in the run's map, or in the loop's map with a launch
due (`AnnInv`); `PromoteExecutables` of a reset throws away events below the new
nonces, and the demotion that follows drops their transactions.
`NoncesAreNext` adds what is known of an account's nonces at each stage
(`NonceInv`): after `reset` the pending ones still go on from the nonce of the old
state, and each nonce that the new state takes back is that of a transaction to be
added again or queued (`Reinjected`; a valid chain has one transaction for each
nonce, `ChainAssumption`); after the promotion there is no gap above the new state's
nonce, or the first nonce is missing and the demotion will empty the list
(`Demotable`); from then on, or after a promotion without a reset, the pending ones
start at the state's nonce without a gap, but the pool's nonce may be off (`Front`),
until `runReorg` sets it before it unlocks. `NonceInv` was first checked by TLC on
the instance of `tx_pool`.

Only model-checked: all liveness properties (`CallerReturns`,
`WorkersExitAfterDelivery`, `SealsOnHead`, `CloseEndsTaskAndResult`,
`SealLeavesNoMiner`, `ResumesAfterSync`, `StartTakesEffect`,
`PostsReturn`, `CancelReturns`), which are out of the prover's reach. Every safety
property of the passing runs is proved.

## What is not modelled

- Parts of modelled files: block rewards; `SetHead`, `Rollback`, future and bad
  blocks, receipts and the freezer in `core/blockchain.go`; the recommit interval,
  gas and log feeds of the worker.
- Execution of transactions (`core/vm`, `core/state`, `trie`): a state is
  identified with its block.
- Of the transaction pool: the journal, metrics, gas limits, transactions of more
  than one slot, stale entries of the price heap (every reader skips them, except
  that a transaction dropped and added again may be counted twice by `Discard`), the
  order of heartbeats, and the early returns of `reset` for a head or a state that
  is missing (without `SetHead` blocks are not deleted).
- Of the downloader: the ancestor search and the height request, skeleton
  requests, light synchronisation, the rollback of headers, peers that join during
  a synchronisation, throughput estimates, the requests of the state sync,
  `Terminate`, and the limits of the freezer.
- `fort/fetcher`, `fort/handler.go`, `core/rawdb` (freezer), `event/feed.go`,
  `core/chain_indexer.go`: not modelled yet.
- `ethash` and `clique`: the backend always creates the TPPoW engine.
- Networking, light clients, whisper, RPC, accounts, signing, console, mobile
  bindings, metrics: independent of consensus, mostly input and output.
- Encodings and hashes are injective.

## Plan

1. `Feed` (`event/feed.go`): every subscriber of the moment gets every value once,
   in order, while others subscribe and unsubscribe.
2. Block fetcher (`fort/fetcher/block_fetcher.go`): announcements through their
   five stages, limits per peer, forgetting.
3. `BlockChain`: `SetHead`, future blocks, the freezer's migration and its crash
   points.
