# NovaCoin 3.0 in TLA+

Specifications, model-checking runs and machine-checked proofs for the NovaCoin
(Supernova) node: a Go program in which validators exchange blocks (called
vertices) that form a DAG, are rewarded for them in a persistent ledger, and are
slashed for signing two blocks in one round.

The modules are translations of the code under `src/`. They keep its control flow
(locks, early returns, error paths, the order of writes) and abstract its data:
an address, a block, a packet or a transaction is a model value with the fields
the code branches on. `PROJECT.json` names the source lines of every definition.

## 1. Inventory

| Part | State | Operations that change it | Shared with |
|---|---|---|---|
| Safe arithmetic `core/math` | none | `SafeAdd`, `SafeSub`, `SafeMul` | executor, slasher |
| Account state `core/execution/state.go` | accounts in memory and in Badger | one setter per field, each saving the account | executor, block handler, mempool (nonces) |
| Executor `core/execution/executor.go` | none of its own | `Execute` (7 types), `ProcessBatch`, `ApplyBlockReward` | block handler |
| Vertex store `core/pulse/store.go` | vertices, tips, recent list, their saved copies | `AddVertex`, `LoadTips` | every peer's reader, the miner |
| Slasher, validation `core/staking` | evidence per round, slash records, jail | `RecordBlockSigned`, `Slash`; `ValidateBlock` reads | block handler |
| Block handling `core/p2p/server.go` | per reader: where it is in `handleBlock` | `handleBlock`, `handleMessage` | all of the above |
| Connections `core/p2p/server.go`, `peer.go`, `transport.go` | peers, known addresses, counts per host | `acceptLoop`, `Connect`, `handleConn`, `readLoop`, `RemovePeer`, `handleAddr` | reputation, auto-grant |
| Reputation `core/p2p/reputation.go` | score and ban of a node, bans of addresses | `AdjustScore` behind the `Record` methods, `BanPeer`, `UnbanPeer`, cleanup | connections, block handler |
| Mempool `core/tpu/mempool.go` | pending transactions | `Add`, `GetBatch`, `RemoveExpired`, `Stop` | ingest, readers, miner, explorer |
| UDP ingest `core/tpu/ingest.go` | packet queue, rate limits, metrics, shutdown | `Start`, workers, cleanup, `Stop` | mempool |
| Node `main.go` | granted peers | genesis allocation, auto-grant, mining loop, shutdown | everything |
| Gossip `core/p2p/server.go` | messages between nodes, per end: where it is | `BroadcastBlock`, `RebroadcastBlock`, `SendGetDAG`, `handleGetDAG`, `handleDAG` | vertex store, slasher, miner of every node |
| Finality `core/pulse/finality.go` | confirmations per vertex | `RecordVertex`, `IsFinalized`, `Cleanup` | explorer callback |
| Wallet manager `core/wallet` | wallets in memory and on disk | create, import, unlock, lock, delete | explorer |
| Explorer `explorer.go`, caches `core/cache` | indexes, websocket clients | callbacks and requests | reads the node |
| Decoding, crypto, database, tools | none | I/O and pure functions | |

What makes this system hard: every peer has a reader goroutine, and `handleBlock`
takes the locks of the DAG, the slasher and the accounts one after the other, so a
check and the action that relies on it are never one step; `AddVertex` saves its
tips after it has released the mutex; `Execute` is a sequence of separately durable
writes; a restart keeps the accounts and forgets the DAG, the evidence and the
scores; `Stop` races with the goroutines it stops; amounts sit at the edge of
`uint64`; vertex callbacks run in goroutines of their own, in any order; a wallet is
looked up under one mutex and used under another; blocks travel as broadcasts and as
whole DAGs while connections come and go. `PROJECT.json` lists these hazards at their lines.

Two facts about the node shape what the models say. It never executes the
transactions of its blocks: `Execute` and `ProcessBatch` have no caller outside the
package, so `Ledger` describes the executor as a component, and in `Mempool` the
nonces of the accounts are constant. And blocks made by `NewVertex` have
round 0, so at every other node the second block of a validator is a double sign
(run `SecondBlockSlashed`).

## 2. Modules

`X` is the specification and `MCX` its instance for TLC. Section 4 lists the modules with
the theorems, `...Proofs`, several of which are about more than one specification.

* **SafeMath** - `SafeAddOk`, `SafeSubOk` and `SafeMulOk` are the error tests as the
  code writes them; `MaxUint` stands for 2^64-1, so overflow happens at any width.
* **Accounts** (extends SafeMath) - the account record and the accessors of
  `StateManager`. An absent account is a zero account, which is what getters return.
* **Ledger** (extends Accounts) - one action per transaction type and
  `ApplyBlockReward`; a step is a whole call that returns true. `now` and
  `unstakedAt` are history variables. Blocks carry timestamps out of order, at most
  `MaxSkew` behind the latest: the one assumption the code does not itself enforce,
  made a constant so that the theorem shows its effect.
* **LedgerCalls** - the same calls as lists of single writes (`todo`): each `Set`
  changes memory and the database; `Restart` may come between any two. It loads the
  database, and the genesis allocation follows setter by setter (`Allocate`, `boot`)
  before any call, so a crash may cut that too. A save may fail: the
  setters ignore the error of `persistAccount`, so memory and database differ until
  the account is saved again (`unsaved`). A load may fail: the account then starts
  empty (`unread`). The code loads an account when it is first used, the model all of
  them at the start; a read error between a getter and a setter of one call is not
  modelled. It instantiates Ledger with `accounts <- before`, the accounts at the last
  call boundary.
* **Dag** - `AddVertex` as `Insert` (under the mutex), `BeginTxn`, `saveTipsTxn`,
  `saveRecentTxn` and `Commit` (without it), or `FailedUpdate`, which the code only
  logs. The data race is nondeterministic: an iteration over a map that changes yields
  all keys that stayed and any that came or went; a slice header mixes the values that
  `Recent` had meanwhile, of which `AddVertex` writes two (one too long, then cut).
* **BlockHandler** (extends Accounts, PeerScore) - `handleBlock` as one action per
  critical section for each reader, the miner's `AddVertex`, and `Restart`. The
  block's fees are added with wrap-around, the stake and balance are read in one
  step and written in another.
* **Mempool** - `Add` makes room first and checks afterwards, as the code does; the
  choice among equal fees is nondeterministic (Go's map order).
* **Ingest** - receive loop, workers, rate-limit cleanup, `Start` (which adds one
  goroutine to the wait group at a time) and `Stop` (which closes three things one
  after the other) as separate processes. A send on the closed queue is a panic.
* **PeerScore**, **Reputation** - clamped scores, bans of nodes and of addresses that
  nodes share, the ticker that lifts them. Each method is one critical section.
  `RepSpec` is the manager alone, with `BanPeer` and `UnbanPeer`, which no code calls.
* **Peers** (extends Reputation) - the connections: one accepting goroutine, one per
  connection; the checks of `acceptLoop` in three steps, the handshake, `AddPeer`,
  the four critical sections of the auto-grant callback, and `RemovePeer`, which
  goes by remote address. The reputation manager is composed in: the actions of
  Peers are conjoined with its `GetOrCreate`, `AdjustScore` and cleanup.
* **Gossip** - how blocks travel between nodes. Each end of a connection has one
  goroutine that registers the peer (`AddPeer`, then reading and `SendGetDAG`) and then
  reads; `handleBlock` is three steps (known, checked, added), `handleGetDAG` is a
  send from inside the read loop (`SendAnswer`) that waits for the other end when the DAG
  does not fit into the buffers. The requests `SendGetAddr` and `SendGetDAG` are one
  message and their answers one answer, since the same loop handles both. A broadcast
  sends from a goroutine per peer, so the messages of
  a connection have no order, and they compete with an answer for the buffers. A message
  longer than `MaxMessageSize` (`TooLong`) and a block bigger than `MaxBlockSize`
  (`TooBig`) are discarded. Connections break and nodes restart (`faults`). The
  amounts are left to BlockHandler, the limits and bans to Peers.
* **Caches** - `LRU.Get` and `Set`, `BoundedSlice.Append` and `BoundedMap.Append` as
  functions on sequences. It defines its three helpers on sequences itself, because
  SequencesExt brings in modules that make the prover several times slower in everything
  that extends it.
* **Finality** - `RecordVertex`, `Cleanup`, and `IsFinalized` in its two critical
  sections.
* **Explorer** (extends Caches, Finality) - `startExplorerAPI` on a node that is already
  running: snapshot, callback, wrapping of the callback by the finality tracker; a
  goroutine per vertex with the callback `AddVertex` found; the broadcaster behind an
  unbuffered channel and its websocket clients; the lookups that move keys in the
  caches. The loops over transactions, entries and vertices are `InOrder`. `blockUses`, `txUses` and `log` keep what an unbounded cache would hold.
* **Wallet** - the manager's map, the wallet objects (`heap`), which outlive their entry
  in the map while a request holds them, and the files. One action per critical section
  and per system call; opening empties the file, writing fills it, `Unlink` removes it,
  each may fail (`Delete` ignores that), and a restart (`Reload`) may come between and
  skip files it cannot read. `promised` is what the last call that succeeded on an
  address said is stored; `damaged` and `adrift` are the addresses whose file, or whose
  object in the map, a failure or two overlapping changes have made unpredictable;
  `disturbed` marks the requests whose ground another one changed.

History variables (`now`, `unstakedAt`, `before`, `applied`, `unsaved`, `unread`, `late`,
`failed`, `overlapped`, `mined`, `passed`, `paid`, `credited`, `taken`, `admitted`,
`touched`, `slashed` of Gossip, `gap`, `owed`, `promised`, `damaged`, `adrift`,
`lockedSince`) record what happened and guard nothing, with one exception: `mined` keeps
a peer from sending a block of this node that the node has not made.

## 3. Runs

Every run finishes; none uses a state constraint. `Wallet` uses symmetry, over requests
and passwords, which are only compared; it checks no liveness. Bounds are guards of
the actions and constants of the modules.

| Run | Checks | Instance |
|---|---|---|
| `Ledger` | `ValueConserved`, `OwnerSpends`, `UnbondingHeld`, `RewardHalves` | 2 accounts, words 0..4, 2 nonces each, times 0..2, skew 1 |
| `LedgerCalls` | `AtomicCalls` (implements Ledger), `CrashNeverMints`, `ReplaysBounded` | 2 accounts, words 0..3, 2 nonces, one timestamp, 1 founder, 1 crash and 1 failing save or load anywhere |
| `Dag` | `Wavefront`, `KnownIsSaved`, `DiskWavefront` | a root with two children, 2 threads, recent list of 2, 1 crash |
| `Blocks` | `NoConflictingAccepted`, `PaidOncePerReader`, `BooksBounded` | 2 readers with 2 messages each, 7 blocks, the miner, 1 restart |
| `Mempool` | `EvictsCheapestWhenFull`, `NothingStays` | 5 transactions, pool of 2, clock 1..6 |
| `Ingest` | `TypeOK`, `PacketsAccounted`, `NoWorkAfterStop`, `BurstBound`, `StopReturns` | 2 workers, 4 packets of 3 kinds, queue of 1, 2 per window, clock 0..2 |
| `Peers` | `TypeOK`, `InboundCounted`, `GrantBeforeBlocks`, `AddressStaysBanned`, `BansEnd` | 2 nodes at one address, 2 accepted connections from one port and 1 dialled, score steps of -20, bans of 1, clock 0..3 |
| `Gossip` | `HonestUnslashed`, `Delivered` | 3 nodes in a row, 2 blocks of one miner, buffers of 1 and 0 vertices, a message holds 1 block, 1 fault |
| `Explorer` | `ExplorerTypeOK`, `ConfirmationsExact`, `FinalityEarned`, `CachesKeepRecent`, `TxHasRecord`, `FeedComplete`, `EveryVertexIndexed`, `CallbacksEnd` | 3 vertices, 2 transactions, 3 addresses, caches of 1 and 2, 2 clients of which one may go or stall |
| `Wallet` | `KeepsPromise`, `LockHolds`, `SendFindsKey` | 1 address, 2 passwords, 3 requests at a time, 5 calls, 1 restart |

Invariants that the proofs establish for every instance and that only bound a
component's own state (the type invariants of Ledger, Dag, BlockHandler, Mempool,
Reputation, Gossip and Wallet, `LicencesPermanent`, `LowScoreIsBanned`) are not repeated in the
runs; section 4 lists them.

What they show:

* *Ledger*: a transaction moves value between its two parties and destroys exactly
  the fee it is charged; an account shrinks only with its owner's next nonce; unbonding funds are held for the period less the
  skew although several unstakes share one release time; the reward halves down to 1.
* *LedgerCalls*: the single writes add up to the atomic operation, also when a
  transfer fails halfway and puts the sender back, and also on accounts that a crash
  left half-written. Every operation debits before it credits, so a crash can lose
  value but never make any. The steps of a crash and of a start are exempt from
  `AtomicCalls`, since neither is an operation of Ledger; for `CrashNeverMints` each
  setter of the genesis allocation begins a new account of the value. A save or a load
  that failed leaves amounts on disk that memory has no longer, and `CrashNeverMints`
  allows for exactly those (`StaleWealth`). `ReplaysBounded`: a nonce takes effect once
  more for each crash and each failed save, never more often, unless its account could
  not be loaded and has forgotten its nonces.
* *Dag*: for two racing threads the tips in memory are the wavefront but for vertices
  that came after their children. A vertex in memory is saved, being saved, or its
  transaction failed; the last is for good, since `AddVertex` returns at once for a
  vertex that memory knows. The saved tips cover the saved vertices while no two calls
  have overlapped (they can save their tips in the wrong order) and every start could
  read the tips; a vertex whose child could not be saved is excepted, because the child
  has taken it from the tips.
* *Blocks*: conflicting blocks never both enter the DAG while the evidence of their
  round is kept. Updates of stake and balance can be lost in races, but never take
  more than was slashed or add more than was paid.
* *Mempool*: making room before the checks costs at most one transaction, the cheapest,
  and a refused `Add` leaves the pool one short of full, so the next evicts nothing.
* *Peers*: an address stays banned as long as one of its nodes is, and bans end, whatever
  the connections of both nodes report meanwhile. The theorems about `RepSpec` except
  addresses that someone banned or pardoned by hand (`touched`), since `BanPeer` and
  `UnbanPeer` overwrite the end of a ban that other nodes share.
* *Ingest*: `BurstBound` is the exact limit of the rate limiter, `2N - 1` in a window
  (with `2N - 2` TLC finds a counterexample in this instance).
* *Gossip*: a block reaches the other end of every connection that stays up, by a
  broadcast or by the answer to `SendGetDAG`, whatever the order in which the two ends
  register and restart. The exceptions are those the code has: the other end refuses
  the block, the block or the DAG is over the size limits, or both read loops are stuck
  for good in an answer for which the buffers have no room (`Wedged`), which the run
  reaches. A validator with one block is never slashed.
* *Explorer*: whatever the order of the callbacks, confirmations are the mentions by
  recorded children, finality is recorded only for vertices that had earned it, the
  caches hold the most recent entries, and every vertex is indexed unless it was added
  between the snapshot and the callback (`gap`: those never are). `/api/transaction`
  reads the index and the history one after the other; `TxHasRecord` is about each state
  between critical sections. A client that stays gets every vertex;
  callbacks pile up only behind a client that does not read.
* *Wallet*: the file holds what the last successful `Create`, `Import` or `Delete` said,
  also in the middle of the next call and after a crash there, and the map does whenever
  no request is between map and file. The exceptions: two such requests changed the map
  between each other's map and file; a write was cut short or failed; a file could not be
  removed or read. A locked wallet stays locked although requests that unlocked it
  before go on; not covered are requests that had begun and are still to decrypt, and a
  wallet that replaced the one `Lock` had looked up. A send finds its key again, also in
  a wallet that was imported meanwhile, unless the address was locked or deleted since
  its first lookup.

Two runs show places where the code departs from what the repository says; they are the
findings of `PROJECT.json`.

| Run | Statement | What happens |
|---|---|---|
| `BlockPaidTwice` | `PaidOnce`: "Already have it, don't process or rebroadcast" | two readers both find a block missing and both pay it |
| `SecondBlockSlashed` | `NoMinerSlashed`: a double sign is "Signing two different blocks at same height" | rounds are compared, every round is 0, and a miner's neighbour slashes it for its second block |

**Why the bounds are enough.** Words of 0..3 or 0..4 are small enough that balances,
stakes and licences reach the top within two nonces and large enough for amounts, fees and rewards to differ.
Two accounts give every sender/receiver relation but a third bystander, which the
proof covers. Two threads or readers give every race between a read and a write of
one other process; the proofs of Dag and BlockHandler are for any number. One
restart separates "before" from "after"; a second one starts from states of the same
kind. Alice's balance in `Blocks` is two rewards below the top, the queue and pool
are filled by one or two entries, and the clocks of Mempool, Ingest and Peers run
past the end of what starts early enough; LedgerCalls needs no clock, since its
question is where a call is cut. No block of the `Gossip` instance is `TooBig`: such a
block is dropped like one that is known. Three nodes in a row are the least with a node that
only relays; with two blocks of one author, a DAG that overfills one connection and
a single block that overfills the other, every message meets every state of the
slasher and of the buffers. The explorer's caches overflow with the second or third
vertex, and its last vertex names a parent twice and repeats a transaction. Three
requests are two that race and a third that replaces the object between them; the
proofs of Wallet are for any number of requests, addresses, calls and restarts.

**Fairness.** `Mempool`: the clock and the cleanup ticker go on (`WF` on `PoolTick` and
`RemoveExpired`), because `cleanupLoop` does nothing else until it is stopped; so
`NothingStays` is conditional on `stopped`. `Peers`: the same for the clock and the ticker
of the reputation manager.
`Ingest`: weak fairness of each worker, the cleanup goroutine's exit and the steps of
`Stop`, as Go schedules runnable goroutines and the queue holds finitely many
packets; nothing is assumed of the network, the clock or the receive loop. `Explorer`:
weak fairness of the start-up code, the callback goroutines and the broadcaster, and
strong fairness of a callback's send on the channel, because Go queues blocked senders
first in, first out; nothing is assumed of clients, so `CallbacksEnd` excepts stalled
ones. `Gossip`: an end that can take a step, and a miner that has a block to broadcast,
eventually goes on; connections, faults and mining are free.

Deadlock is not checked in `Ledger`, `LedgerCalls`, `Dag`, `Blocks`, `Mempool`,
`Ingest`, `Peers`, `Gossip`, `Explorer` and `Wallet`: their instances end when the
nonces, messages, connections, vertices or calls are used up, or their clocks have run
out.

## 4. Proofs

Every safety invariant, action property and type invariant that a run checks is also
proved, for every value of the constants that satisfies the named assumptions
(`MaxUintAssumption`, `LedgerAssumption`, `LedgerCallsAssumption`, `FoundersAssumption`, `DagAssumption`,
`BlockHandlerAssumption`, `MempoolAssumption`, `IngestAssumption`, `ReputationAssumption`,
`PeersAssumption`, `GossipAssumption`, `FinalityAssumption`, `ExplorerAssumption`,
`WalletAssumption`). The assumptions type the constants and ask little more: a vertex is
not its own parent, a slash percentage is at most 100, sizes that divide or bound
something are not 0, accounts, workers and connections are finitely many, and two nodes
of Gossip do not make the same block. TLC evaluates them in the runs.

| Module | About | Theorems | Argument |
|---|---|---|---|
| AccountsProofs | SafeMath, Accounts | `SafeAddSubExact`, `SafeMulExact` | the overflow tests are exact; wrapping a product takes away at least `MaxUint + 1`, which the quotient shows; lemmas on the setters |
| LedgerProofs | Ledger | `TypeCorrect`, `ValueIsConserved`, `OnlyOwnerSpends`, `LicencesArePermanent`, `UnbondingIsHeld`, `RewardsHalve` | one effect lemma per operation; the action properties follow from the effects; induction over the exponent for the reward |
| ExecuteProofs | LedgerCalls | lemmas | sums over accounts; what `Execute` reads decides writes that lead to Ledger's result |
| LedgerCallsProofs | LedgerCalls | `CallsInvariant`, `CallsAreAtomic`, `CallsImplementLedger`, `CrashesNeverMint`, `ReplaysAreBounded` | every write, crash, failed save and failed load keeps the invariant; the last write of a call is a step of Ledger |
| NodeProofs | BlockHandler | `TypeCorrect`, `ConflictsStayOut`, `ReadersPayOnce`, `BooksStayBounded` | any number of readers |
| NodeProofs | Wallet | `WalletTypeCorrect`, `PromisesKept`, `LocksHold`, `SendsFindKey` | any number of concurrent requests; one lemma per step of a request |
| PipelineProofs | Mempool | `PoolTypeCorrect`, `EvictionsTakeCheapest` | cardinality of the pool after making room |
| PipelineProofs | Ingest | `IngestTypeCorrect`, `EveryPacketAccounted`, `WorkersRestAfterStop`, `BurstsAreBounded` | any number of workers and senders; the admissions of a sender in groups |
| PipelineProofs | Dag | `DagTypeCorrect`, `TipsCoverWavefront`, `KnownVerticesAreSaved`, `SavedTipsCoverSaved` | any number of threads |
| P2PProofs | Reputation, Peers | `RepTypeCorrect`, `LowScoresAreBanned`, `AddressesStayBanned`, `NodeKeepsBans`, `PeersTypeCorrect`, `InboundIsCounted`, `GrantsBeforeBlocks` | any number of nodes per address and of connections; the steps of Peers keep what Reputation proves |
| P2PProofs | Gossip | `GossipTypeCorrect`, `HonestNeverSlashed` | any network, any faults |
| ExplorerProofs | Caches, Finality, Explorer | `ExplorerTypeCorrect`, `ConfirmationsAreExact`, `FinalityIsEarned`, `CachesAreRecent`, `TxsHaveRecords`, `FeedsAreComplete` | any DAG, any clients, any sizes of the caches |

Why the invariants are strengthened:

* `UnbondingInv` adds that unstake times are not in the future. Without it a later
  unstake with an earlier timestamp could not be compared with the one it overwrites.
* `IInv` of ExecuteProofs says what the writes that are still to be made (`todo`) will
  do. `CallInv`: no write brings the total above what it was when the call began, only
  the last write of a successful call changes a nonce, and it leads to the result of the
  operation of Ledger, or back to where the call began; during a start there is no call. This is the refinement: only the
  last write changes `before`. `DiskInv`: what did not fail to be saved is in the
  database as in memory. `ReplayInv` counts the effects that a crash could still make a
  repetition: a crash or a failed save adds at most one, because only one nonce is due.
* `SoloInv` (for `DiskWavefront`) says at most one thread is inside `AddVertex`, that
  memory *and* disk together are covered by the tips in memory, and that what the
  thread is about to save is what memory holds. The union matters: after a restart
  memory has no vertices, yet the loaded tips must still cover the disk. Both covers
  leave out vertices with a child in `failed`, and what is in memory and not on disk is
  the vertex being added or in `failed`.
* BlockHandler's type correctness needs what a reader carries between two critical
  sections (`CarriesOk`): a slash of at most the stake that was read, a balance into
  which the reward fits. `EvidenceInv` relates the blocks that passed to the evidence
  on record or to the later block that removed it; `PaidInv` says a block not in the
  DAG has not been paid since the start; `BooksInv` extends the bounds to values that
  are read but not yet written back.
* `IngestInv` says that nothing is queued before the receive loop runs and that the
  loop runs only when every worker was started, so a worker that is scheduled after
  `Stop` has returned finds no packet; and that any two groups of admissions of a sender, less
  one packet, take longer than a window (`RateInv`).
* `BanInv` (for `AddressStaysBanned`) says no ban ends later than one that would start
  now, so that a new ban of a shared address never shortens an older one. `GrantInv`
  says that who is marked as granted, or is about to be, has a grant.
* `GossipInv` says that messages, ends and slashers have only blocks that were made, so
  that two different ones of an author need two mined blocks (`HonestUnslashed`).
* `WalletInv` says what a request may rely on between two of its steps. `Alone`: of two
  requests that are both between map and file of an address, each is marked
  `disturbed`. `Own`: an undisturbed request that stores still finds its object in the map,
  with the password it gave, and the file in the state its own last step left; an
  undisturbed send finds an object that is unlocked or is the one it is about to unlock.
  `LockedAlone`: nobody is about to decrypt or replace a wallet that counts as locked.
  None of the three properties is inductive without them.
* `ExplorerInv` has four parts. `TrackerInv`: the mentions of a vertex are finitely many,
  so that they can be counted. `TaskInv`: a goroutine that is going to record its vertex
  has not done so. `FeedInv`: nothing is owed to a client that has gone or that the
  broadcaster has no vertex for. `IndexInv`: the caches are the ends of what was used,
  without a key twice, the keys of the history are in the order of eviction, and each
  slice is the end of the log since its key was new. Inside the critical section of a vertex,
  `IndexInv` holds with the transactions whose records are still to come as a parameter.

Induction over data is done with sets: `WellFoundedInduction` gives a least
counterexample in a set of numbers, which the provers can use, where an induction rule
with a property as its parameter is beyond them (`UpTo` in ExplorerProofs, the sums in
AccountsProofs and ExecuteProofs). A loop `InOrder(Op, ...)` gets a lemma for each `Op`
that its result is the end of a path of steps, and the invariant goes along the path.
The modules try Zenon before the SMT solver, since most steps have no arithmetic.

**Model-checked only.** Liveness (`NothingStays`, `StopReturns`, `BansEnd`, `Delivered`,
`EveryVertexIndexed`, `CallbacksEnd`), which rests on fairness and `ENABLED` and is outside
the prover's reach; and `PaidOnce` and `NoMinerSlashed`, which the code violates.

## 5. Differences between documents and code met while modelling

The runs `BlockPaidTwice` and `SecondBlockSlashed` demonstrate two of them. The models follow the code in these
other places as well; the properties named state what remains true.

* `transaction.go:95` "each nonce used once": the nonce is the last of several durable
  writes, so a crash or a failed save before it lets a transaction take effect once
  more (`ReplaysBounded`).
* `ingest.go:289` "Stop gracefully shuts down the ingest server": the receive loop is not
  in the wait group, and its send into the closed queue panics.
* `main.go:295` "This allows new validators to join": only the genesis node writes the
  grant, so only there are the blocks of the new validator accepted (Gossip, `enough`).
* `ARCHITECTURE.md:25` "Finality: ~30 seconds (6 confirmations)": `IsFinalized` and
  `Cleanup` have no caller in the node, and a confirmation is counted per mention of a
  parent, so a child that names it twice confirms it twice.
* `explorer.go:1024` the nonce of a send is that of the database plus one; as the node
  executes no transactions, two sends carry the same one.

* `executor.go:221` "Enforce 14-day unbonding period": a second unstake in a block with
  an earlier timestamp brings the release forward by up to the skew (`UnbondingHeld`
  states what remains true).
* `transaction.go:117` "This address must sign the transaction and pay fees": stake,
  unstake, withdraw and delegate transactions are not charged (`Charged`).
* `ARCHITECTURE.md:230` lists delegations as locked; they are part of the validator's
  own stake, which the validator can unstake.
* `store.go:164` "GetTips returns the current "Wavefront" of the DAG": a vertex that
  arrives after its child stays a tip (`late`). Saved tips can miss a saved vertex
  after overlapping saves (`overlapped`).
* `store.go:34` "inserts a new vertex into the DAG and persists it": a failed transaction
  is logged and not repeated (`KnownIsSaved`).
* `wallet.go:476` "Delete removes a wallet": the error of `os.Remove` is ignored, so the
  file may stay and a restart bring the wallet back (`damaged`).
* `ARCHITECTURE.md:105` "500 NVN per block": after a restart the DAG in memory is empty
  and a block that comes again is paid again, hence `1 + restarts` in
  `PaidOncePerReader`.
* `state.go:34` "proper locking to prevent race conditions": a slower reader can write
  back a stake it read before another reader's slash.
* `ARCHITECTURE.md:276` "During jail: Cannot produce valid blocks": `IsJailed` has no
  caller.
* `slashing.go:110` "keep last 1000 rounds": one round is deleted per block, so skipped
  rounds stay.
* `README.md:178` "Overflow-protected calculations throughout": the fees of a block are
  added without a check (`CollectedFees`).
* `mempool.go:88` "Add inserts a transaction if it's not already present": a rejected
  `Add` to a full pool may already have evicted another transaction
  (`EvictsCheapestWhenFull` bounds that).
* `README.md:180` "5-minute TTL": `GetBatch` does not ask `IsExpired` again, and an entry
  stays for an hour; as nonces do not advance, a mined transaction can be added again.
* `transaction.go:262` "<= 10 txs per address per minute": windows are fixed, so up to
  19 pass in a minute (`BurstBound`).
* `ARCHITECTURE.md:552` "Auto-ban at score <= -50": between the end of a ban and the next
  cleanup a peer is not banned anew.
* `server.go:48`-`50` `ConnCount`, `MaxPeers` and `MaxPerIP`: connections in their
  handshake are not peers yet, dialled ones are discounted without having been
  counted, and a failed handshake stays counted. `InboundCounted` is what holds.
* `main.go:325` "Grant 1500 NVN": two connections of one node can both be granted.

## 6. Not modelled

* The `MsgTx` case of `handleMessage`: it calls `Mempool.Add`, which is modelled with all
  its callers. The addresses in the answer of `handleGetAddr`; that the answer is sent
  from the read loop is part of Gossip.
* The explorer's endpoints that only read, `Get`, `List` and `Info` of the wallet manager,
  and `LRU.Delete`, which has no caller.
* Read errors of Badger after the start (LedgerCalls), and the two critical sections of
  `/api/transaction` (Explorer).
* Jail: `Slash` sets it in BlockHandler, and nothing in the code reads it, so a property
  could only restate the assignment. The age of a transaction when it is mined and the
  order of nonces in a batch: the node executes no batches.
* Hashing, signatures, encryption, gob encoding and the transport: their outcome is a
  field (`Signed`) or a separate action (`ProtocolError`, `HandshakeFails`, `Invalid`).
* `SafeDiv`, the `Must` and `Checked` forms, the downtime and invalid-block offences and
  the deprecated rate-limit methods have no caller.
* Command-line tools and the web interface's content.

## 7. Plan

Order: what holds money first, then what feeds it, then what shows it.

1. *Done*: SafeMath, Accounts, Ledger, LedgerCalls with failing saves and loads, Dag,
   BlockHandler, Mempool, Ingest, Reputation, Peers, Gossip, Caches, Finality, Explorer,
   Wallet, and the theorems of section 4: a proof of every safety property the runs
   check.
2. *AutoGrant and start*: a module for `main.go` in which the grant callback, the genesis
   allocation and restarts meet, with a bound on what a node is granted.
3. *Composition*: BlockHandler over the single writes of LedgerCalls in place of whole
   accounts, so that a crash may also cut a reward short.

## 8. Running

    tlc -workers 2 -config Blocks.cfg MCBlockHandler
    tlapm NodeProofs.tla

The module of each run is in `PROJECT.json`.
