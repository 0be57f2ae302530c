# Tycho, specified in TLA+

Tycho is a node for a TVM blockchain. Its mempool orders external messages with a
DAG-based Byzantine fault tolerant protocol (`consensus/`), its collator turns the
ordered messages into blocks (`collator/`), the other crates move and keep data
(`network/`, `storage/`, `core/`) and expose it (`rpc/`, `control/`, `cli/`).

This directory specifies the parts whose correctness depends on the order of steps
of several actors. In the mempool: how a round goes by and how broadcasts come in, how a
missing point is downloaded, how a point of the DAG is accepted and signed, what its
signatures prove, how proofs spread, which rounds the node keeps, and which anchors it
hands to the collator. Between the two: which messages of an anchor a collator gets.
Above them: how the collation manager brings together the blocks it
collates, receives, validates and commits, and how validators agree on a block by their
signatures. Safety properties are model-checked on small instances with TLC, and most of
those of the mempool and of the validators are proved for every instance with TLAPS.

## 1. The mempool in one page

Every validator makes at most one *point* per *round*. A point refers to points of the
previous round (its *includes*) and, one round deeper, to points it signed but did not
include (its *witness*). Other validators sign the point; the author's next point
carries the signatures of 2F others as *evidence*. A validator that broke the protocol
may make several *versions* of a point, and every node keeps them in one *location* of
its DAG, the slot of an author in a round.

Every fourth round begins a *wave*: its leader makes an anchor candidate, then a proof
that refers to it, then a trigger that refers to the proof. A trigger commits its
anchor and all anchors linked to it. The points below an anchor that were not
committed earlier are its history. The collator executes the messages in these points,
so all nodes have to agree on anchors and histories.

A node resolves (downloads, verifies, validates) points in tasks that run in parallel.
The engine goes round by round; a committer task works on a longer window of rounds in
the background. When the node falls behind too far, the window is reset and some
anchors are skipped.

### The collator in one page

A node collates blocks of the masterchain and of a shard from the anchors of the mempool.
A master block includes the newest shard blocks; it is due when the shards have imported
anchors up to a chain time. A collated master block is *validated*: validators send each
other their signatures until each has those of two thirds of the weight. Then it is
*committed*: its messages, which wait as a *diff* in the queue of internal messages, are
committed there, and the block is sent to be applied to the state. The node receives the
blocks of the network as well, before or after it has collated its own, and its own may be
another. When it has fallen behind it cancels its collators and *syncs*: it restores the
queue from received blocks and goes on from the last of them.

## 2. Modules

| Module | Code | Role |
| --- | --- | --- |
| `Cert` | `consensus/src/models/cert.rs` | lock-free spreading of certification, one atomic access per step |
| `Certification` | the same file, as its callers see it | abstract specification that `Cert` implements |
| `DagLocation` | `dag/{dag_location,dag_point_future,producer}.rs`, `intercom/broadcast/signer.rs`, restore in `engine/impl_.rs` | one location: versions, first resolved and first valid, signing, own points, crash and restart |
| `Promise` | what the above amounts to | abstract specification that `DagLocation` implements and `Evidence` uses |
| `Evidence` | `models/peer_count.rs`, `dag/{producer,verifier}.rs` | the network: faulty and honest peers, what 2F signatures prove |
| `AnchorCommit` | `dag/commit/{mod,back,anchor_chain}.rs`, `dag/anchor_stage.rs` | which anchors are committed, in which order, with which points |
| `DagWindow` | `dag/front.rs`, `dag/commit/mod.rs`, `engine/{impl_,committer_task,round_watch}.rs`, `collator/.../anchor_handler.rs` | which rounds are kept, pause, gaps, what the adapter is told to skip |
| `RoundTask` | `engine/round_task.rs`, `intercom/broadcast/{broadcaster,collector}.rs` | one round: own point, Broadcaster and Collector, which wait for each other |
| `Threshold` | `dag/threshold.rs` | counting the points of a round, with delays and cancellation |
| `Intake` | `intercom/broadcast/{broadcast_filter,signer}.rs`, `intercom/core/responder.rs` | broadcasts and signature requests against an engine that changes its round |
| `Limiter` | `intercom/dependency/limiter.rs` | permits of download tasks, newest round first |
| `Download` | `intercom/dependency/{downloader,uploader}.rs` | one download task and the peers it asks |
| `Downloads` | `Downloader::run` | composes the two: a task among others in the limiter |
| `Deduplicator` | `collator/src/mempool/impls/std_impl/{deduplicator,parser}.rs` | which messages of an anchor are new, as operators on its state |
| `AnchorCache` | `collator/src/mempool/impls/std_impl/cache.rs` | anchors for the collators, as operators on its state |
| `IndexMap` | external: the crate `indexmap` | a map that keeps the order of insertion, used by these two |
| `Adapter` | `std_impl.rs`, `std_impl/anchor_handler.rs`, `engine/lifecycle/recover.rs`, `Engine::pre_run`, imports of `collator/src/collator/mod.rs` | composes these two with the runs of the engine, the applied blocks and a collator |
| `CollationSync` | `collator/src/manager/{mod,types}.rs` | when the next master block is due |
| `BlocksCache` | `collator/src/manager/blocks_cache.rs` | blocks collated and received, as operators on its state |
| `Collation` | `collator/src/manager/mod.rs`, `collator/mod.rs`, `do_collate`, `internal_queue/queue.rs`, `state_node.rs` | composes these two with collators, queue and state of a node |
| `Session` | `collator/src/validator/impls/std_impl/{mod,session}.rs`, `validator/rpc/service.rs` | several validators that exchange signatures of blocks |
| `*_proof` | | theorems and proofs about the module of that name; `Round_proof` is about `RoundTask` and `Evidence`, `Download_proof` about `Limiter` and `Download` in their composition |
| `MC*` | | instances for TLC |

How they fit together:

    Cert -> Certification        DagLocation -> Promise -> Evidence -> AnchorCommit
    (a proof certifies all       (one node keeps its       (so signatures    (so all nodes
     points below it)             promise per location)     prove something)  commit the same)

    Intake -> Threshold -> RoundTask             DagWindow
    (points come in, are counted, and end        (which part of the DAG
     the round)                                   AnchorCommit can see)

    Limiter, Download -> Downloads               CollationSync, BlocksCache -> Collation
    (a point that is asked for comes,            (what a node collates, validates and
     or cannot be proven)                         commits); Session (what a validation is)

    Deduplicator, AnchorCache -> Adapter
    (what a collator gets of the anchors that AnchorCommit commits and DagWindow skips)

`DagLocation` implements `Promise` (property `KeepsPromise`, theorem `PromiseIsKept`).
`Evidence` composes one location of every peer by the operators of `Promise`; its
property `CertifiedIsSeen` is what `AnchorCommit` assumes of the leaders' links (its
operator `Linked`). `Certification` is implemented by `Cert` (property
`CertifiesNothingElse`, theorem `Refinement`). `RoundTask` sees the Threshold as an
event (`PointsArrive`), which `Threshold` justifies with `ThresholdIsReached`; the latter
takes from `DagLocation` that one version of a point is counted.

### Cert

State: for every cell the two atomic flags, the life cycle of its dependencies behind
the mutex, and whether the cell was freed; for every thread the next atomic access and
the three rotating maps of `traverse_certify`. Actions, one for each atomic access:

| Action | Code |
| --- | --- |
| `SetDeps`, `RecheckCertified` | the two loads in `Cert::set_deps` |
| `StoreDeps`, `PublishDeps` | mutex and Release store in `CertInner::set_deps` |
| `LoadOvertakesStore` | the second load performed while that store is still buffered |
| `Certify`, `CertifyAsDep` | compare-exchange of `try_certify` |
| `TakeFlag`, `TakeDeps` | compare-exchange and mutex in `try_take_deps` |
| `RotateDeps`, `Return` | `rotate_left` and the end of the traversal |
| `DropCert` | the DAG round is freed, weak references no longer upgrade |

The memory order is part of the model. A Release store followed by an Acquire load of
another location may be reordered, by the language and by x86-64. `overtaken` records
the cells where this happened and made a difference.

### DagLocation

State: the `OnceLock`s of `InclusionState` (`resolved`, `valid`, `signable`,
`signature`), the task of every version (`future`, with its local `status`), the stored
statuses `db`, the engine's position relative to the round (`at`, `made`) and what the
own points of the next two rounds refer to. `handed` are the versions for which a
signature left the node; it survives a crash, because others have it.

One action per critical section: `AddVersion`, `InsertPoint`, `Acquire`,
`AcquireValid`, `SetStatus`, `Resolve`, `Count` are the steps of a version's task;
`Sign` answers a request, possibly with a head the engine has already left;
`ProduceIncludes` and `ProduceWitness` make the own points. `Restart` is a crash at any
point followed by `pre_run` with `acquire_restore`. `Recover` is the recovery loop after a
`HistoryConflict`: the new run of the engine first resets every stored status to one without
flags (`ResetStatuses`) and validates the points anew. `handed` begins anew with a reset, and `resets`
counts them. A status whose point is not in the store (`points`)
cannot be loaded after a reset, which is a panic of `multi_get_info`. What a validation
concludes is left open. The location belongs to another peer.

### Evidence

State: the set of faulty peers, the versions that were made, the location at each peer
as `Promise` describes it, the versions that were proven and those that some point
three rounds later does not see. Faulty peers sign and refer as they like. A peer that
restarts within these rounds counts as faulty, because its signatures are not stored
(section 6).

### AnchorCommit

The DAG is fixed by `Init`, for every shape of the leaders' chain within the bounds;
the points resolve in any order. `StartCommit`, `Enqueue` and `Dequeue` are the steps
of `Committer::commit`; between them tasks resolve and each step may find a point that
is not resolved yet, or a conflict (a point certified by others but invalid here),
which drops the window. The operators `LastUnusable`, `AnchorChain` and
`GatherUncommitted` are the walks of `DagBack`. What all nodes must agree on is defined
by the DAG alone (`Canon`, `CanonPoints`).

### DagWindow

A window is an interval of rounds. `FillToTop` is `DagFront::fill_to_top` as a
function. `PreRun`, `StartRound`, `Pause`, `Tick`, `EndRound` are the engine; `Commit`,
`DropOnConflict`, `FailOnConflict` the committer task; `LearnRound` and `LearnAnchor`
the consensus and the collator. Which rounds hold anchors is left open. `steady` tells
whether the interval of the engine ticked in every round so far.

### RoundTask

State: the own point task (`own`), the Broadcaster with its sets of peers, signatures,
rejections and queries in flight, the byte `attempt`, the Collector and the two channels
between them.

| Action | Code |
| --- | --- |
| `ReplayPoint`, `NotAllowed`, `ProducePoint`, `SeeRetryOrClosed` | the ways out of `own_point_task` |
| `should_finish`, `match_broadcast_result`, `match_signature_result`, `match_peer_updates` | arms of the select in `Broadcaster::run` |
| `ReachedThreshold`, `ReceiveSignal`, `Tick`, `match_consensus` | arms of the biased select in `CollectorTask::run` |
| `PointsArrive`, `ConsensusMoves` | the Threshold and the broadcast filter, as the Collector sees them |

Priorities of the biased select are guards of the lower arms. An update of the peers that
is lost because the receiver lagged behind is one that does not come; the channel closes
with the engine only. `run_continue`, which goes on
broadcasting the previous point, is left out: nothing on the node reads its result.

### Threshold

State: the points on their way (`adding`, `channel`), `delayed` and `ready`, the packed
counters and the one user that may hold the lock: first the Collector of the round, then
the producer of the next. `add` is two steps, because another thread may receive the point
or read the counters between them and after; `Receive` or `Expire` and `Count` are the two
steps of an iteration of `reached`. `CollectorLeaves` and `ProducerLeaves` drop the future
at an await. `GetDelayed`, `Drain`, `GetReached` are `get_reached`. A point is `due` when
its time is not ahead of clock and skew. A panic sets `panic`. The order of the delay queue
is the one the code relies on: what is due comes first.

### Intake

State: what each peer does with its point, the queries being served, the filter, the points
in the DAG, the consensus round, the engine's head `top` and the `published` one. A query
loads the head (`ReceiveBroadcast`, `ReceiveSignatureRequest`) and uses it in later steps:
`AddToDag`, `AddToFilter`, `set_max`, `CheckConsensus`, `clean` are `BroadcastFilter::add`;
`SearchFilter` and `SearchDag` are the Signer. `Update` is `Responder::update`, one step per
lock. `StartRound` and `EndRound` are the engine, which may jump to the consensus round.
The bottom of the DAG is a fixed distance below its top here (`DagWindow` has the rest).
`Points` are those that verify and come from their author, a validator of the round; others
leave the filter's state as it is.
`late` is history: points put into the filter under a head that the engine had left.

### Limiter, Download, Downloads

`Limiter` has a guest for every download task: it goes past the queue (`Bypass`), or waits
at the semaphore of its round (`Wait`, `Acquire`); `Leave` drops the guard and passes a
permit on to the newest round; `AbortWaiting` is the drop of a task that waits. `Download`
is one task: the peers it has not done with, its dependers, its counters; `Tick` asks more
peers, `Answer` takes what one says, `Broadcast` is the point that comes by broadcast. The
peers sign, learn, prove and forget the point meanwhile, and enter and leave the schedule.
What a peer answers follows from the status in its store (`uploader.rs`); a faulty one
answers anything. In `Downloads` one task is modelled in full and the others hold their
guards.

### Deduplicator, AnchorCache, Adapter

`Adapter` follows the messages of committed anchors to a collator of the same node. State:
the run of the engine (`run`: next anchor, first one with a complete history), the anchor
handler with its two deduplicators, the cache, `top_known_anchor` (`top`), the last applied
master block and one of its own that is not accepted yet (`applied`, `own`), and the
collator with its AnchorsCache and the query it awaits. An anchor stands for its round; its
payload is given (`content`), except for the first anchors of a run, whose history may be
incomplete: these may have any part of the payload so far.

`HandleAnchor` is `Shuttle::handle`. `PreRun` starts a run below the top known anchor;
`Gap`, `DropOnConflict`, `Recover` and `Restart` are the ways the chain of anchors is
interrupted. `Sync` and `NotifySynced` are the two halves of a sync, between which the
collator already queries; `OwnBlock` and `AcceptOwn` those of a block collated here. Either
raises the top known anchor first, and the cache is cleared up to it in a later step
(`ClearCache`), with anchors pushed and queries answered in between. `Check`
and `Await` are one turn of a query, `Wake` the next one: a notification counts from the
moment the loop has subscribed. A failed assertion of the deduplicator ends the handler
(`panic`), an error of the cache the collator (`failed`).

An announcement of a gap is handled before the anchors it is about; when this is not so is a
question for `DagWindow` (`SteadySkipsIncomplete`).

### CollationSync, BlocksCache, Collation

The state of the manager is one record `m`; the operators of `BlocksCache` and
`CollationSync` map it to the next one and carry the names of the functions they translate.
A handler of the manager holds `ready_to_sync` from its first to its last step, so that it
is one action; a sync is two, because blocks are received before its end.

| Action | Code |
| --- | --- |
| `TakeTask`, `InitAnchors`, `ImportNextAnchor`, `NotFound`, `Cancel`, `ReachChainTime` | a collator from its task to the anchors of a block |
| `Collate`, `UpdateQueue` | `do_collate`: the diffs it needs are checked; the diff of the block is applied and the block reported |
| `handle_collated_block_candidate`, `handle_collation_skipped`, `handle_collation_cancelled` | events of a collator |
| `TakeBatch`, `handle_block_from_bc` | received blocks |
| `EndSync` | the end of `sync_to_applied_mc_block` |
| `ValidationEnds`, `CommitValidated` | `handle_validated_master_block` |
| `Apply` | the state takes a block and reports it |
| `Restart` | a crash, and the start from the applied state and the stored queue |

The network has one chain. What a block contains is abstracted to its seqno, its chain time,
the shard block it includes and whether it is the block of the network. Errors of the code are
collected in `panic`. `restore_queue` starts from the state of a block (`Border`): that of a
block in the cache, or of one that was applied; for any other the state is not found, and with
`fast_sync`, which is the default, the queue is then restored from the first diff. A cancel
reaches a collator in any phase; one that comes after the last check of `do_collate` may be
consumed with the attempt and have no effect. Four things this code does break what the
comments intend, and are remembered in `seen` when they happen, so that the properties can be
stated for all other behaviours (section 6).

### Session

State of each node: its sessions, `block_signatures` (`tree`), `cached_signatures`, and for
each block a task with the slots for signatures, the future of each peer and the result.
`ValidateBlock` prepares the block from the cache, `Insert` publishes it and starts a future
for each missing signature, `Collect` and `Skip` are the arms of its select. `Ask`,
`AskAgain` and `Retry` are the loops of `receive_signature`; `Exchange` is a query that
arrives, with or without its answer. `CancelValidation` and `Prune` are the two halves of
`cancel_validation`, between which other steps come; `Restart` forgets everything. Faulty
validators ask and answer with any signature. History: what a node has `signed`, for which
seqnos it has forgotten it (`excused`), and the results (`complete`).

`Insert` publishes a block only where no other of its seqno is published; a node that has
published one and gets another ends the second validation. Two steps of the code are merged
where nobody can tell: an answer and the `add_signature` after it (the compare-and-swap
decides), and the publication of a block and the start of its futures.

## 3. What the runs check

| Run | Shows |
| --- | --- |
| `cert` | no panic of cert.rs is reachable; dependencies leave the mutex once and only from certified cells; nothing else is certified; certification spreads, except where a re-check overtook its store |
| `location` | no assertion fails before a restart; one signature per location, over restarts too, until the stored statuses are reset; one version counts for the Threshold; `Promise` is kept until a crash |
| `evidence` | at most one version of a point is ever proven, and no later point misses it, whenever the proof is made |
| `commit` | for every shape of the chain over three waves a node executes the same anchors as all others, without a hole, and each anchor has the points the DAG assigns to it, also those referenced as a witness only; once all tasks are resolved, every anchor up to the last trigger is executed, also after a conflict |
| `window` | no assertion on the windows fails; their length is bounded; the adapter's cache is filled in order; an anchor with incomplete history is not executed as long as the interval ticks in every round |
| `round` | no connected signer drops out of the retry loop; a round that ends as ready has the evidence the next own point needs; the tasks never wait for each other forever |
| `threshold` | no panic of threshold.rs is reachable; no point is lost when a waiter is dropped; the includes are complete; a threshold with enough points is reached |
| `intake` | a reliable minority in the filter moves the consensus round; no peer is asked to repeat what is there; a broadcast that was lost, pruned, cleaned or inserted too late still reaches the DAG |
| `download` | the permits of the limiter add up, up to those lost with aborted waiters, and nobody waits while permits are free; a task gives up only a point that is not and will not be proven; a task ends if a reachable peer keeps the point |
| `adapter` | wherever a node starts and whatever it skips, its collator has of each anchor the messages a node has that saw all anchors, without a gap; no query fails; a collator that waits has missed no push, and the mempool does not pause for it |
| `collation` | apart from the four named causes, and a master block whose anchors the mempool does not have, no step of the manager, the collators, the cache and the queue fails; only valid blocks are sent to sync and only their diffs are committed, over a crash too; the range of applied blocks is in the cache, and what was released is not; a collator has one attempt at a time; no sync waits for a collator that has nothing to report |
| `session` | no two blocks of a seqno are validated; a validation ends when nodes of enough weight have published its block |

Type correctness is part of the inductive invariants of section 4, and of `NoPanic` of
`commit`, `Credits` of `download`, `SameExternals` of `adapter` and `RangeIsCached` of
`collation`.

Each property has a mutant in `PROJECT.json`: a definition altered as a
plausible bug would alter it, for which TLC finds the property violated. The mutants
stand right before the definitions they replace.

### Bounds, and why they are enough

- `cert`: two threads and three cells: `z` includes `y` and has `x` as a witness, `y`
  includes `x`; `y` and `z` are roots. Two threads suffice for every race of the code, which has
  two-party protocols only (taker against setter, taker against taker); the three
  linked cells make a cell reachable through both maps in different turns of the
  rotation. The safety properties are proved for all numbers of threads and all graphs.
- `location`: three versions (first resolved, first valid and one more may all differ),
  all verdicts, two restarts or resets in any order (the second meets a database written by
  the first).
  Versions are symmetric.
- `evidence`: four peers, which is 3F+1 with F = 1, two versions.
- `commit`: three waves let a chain skip a wave and still be extended; one odd point (late, or a
  witness only) and one conflict, at any place; `History` is longer than a wave, so that
  histories overlap, and shorter than three, so that the window is cut. Without late
  points there is nothing to interleave. The safety properties also hold with two odd points,
  which can block two different walks (4,551,112 states, too many for a regular run).
- `window`: `MaxRound` 12 with the smallest sizes the configuration allows. The longest
  window is 8 rounds, so a reset, a second reset while the first is pending, and
  anchors after it all fit. The properties are proved for all configurations.
- `round`: the node and two peers, both of which have to sign (F = 1). One may be
  absent at the start, and is lost or comes back (one update) at any moment. The attempt
  wraps at 4 instead of 256, so that the resend at zero happens while answers are on their
  way. Deadlock is not checked: a round ends. The safety properties are proved for all
  validator sets and wraps.
- `threshold`: four validators, F = 1, so that one point comes after the threshold; any of
  them early or due, two users. Deadlock is not checked: the points are used up. Proved for
  all validator sets that fit a byte.
- `intake`: two queries at a time, which is what a race in the filter takes. Two points of
  round 5 make a minority, so that the engine jumps over a point of round 4; a point of
  round 6 is what `clean` drops. The engine starts at round 3 and goes up to 7, where round 4
  is outdated. `CacheRounds` 0 prunes every point beyond the next round. Only the author of
  the ill-formed point of round 4 goes on asking (`Alive`): this point can take every way
  through the filter, and further peers that ask multiply the states without new ways.
  Deadlock is not checked: rounds end at the bound.
- `download`: the author, another peer and a faulty one, of which two have to say no (F = 1).
  The peer that is neither may enter and leave the schedule (`Moving`), refer to the point
  (`LateDependers`) and leave the round behind (`Advancing`). One task of an older and one of a
  newer round with no task bypassing, so that every way through the queue is taken. The
  attempt wraps at 2. The counting argument is proved for all sets of peers.
- `adapter`: seven anchors, messages are remembered for two, history and skipped rounds are one
  each, so that a run that starts at the highest top is four rounds below it. One message comes
  again at once and again after two rounds, one in two encodings, and there are bytes that are
  no message. One interruption; the properties also hold with two, and with messages remembered
  for three rounds, two skipped rounds and nine anchors. What follows a repetition of anchors,
  or a conflict that overtakes a recovery (section 6), is not explored (`CONSTRAINT`). Deadlock
  is not checked: the anchors end.
- `collation`: three master blocks, two of which bring a shard block; the first leaves messages
  for the next, so that it is due at once, the last is a key block that changes the consensus
  config. One odd event: a wrong shard block, a missing anchor or a crash; a wrong master block
  is always possible. Deadlock is not checked: the network ends at its last block. Right after
  an own master block the received ones are never far enough ahead to sync (`FarAhead` for
  "M") with three blocks and `MinDelta` 2. Larger instances were explored once, with the same
  result: four master blocks, where this happens (29.8 million states), and `MinDelta` 1 (2.4
  million), also with `MaxLag` 1. In none of them does the master collator find the consensus
  lagging before the chain time of its block (`lags` in `ReachChainTime`).
- `session`: nodes with weights 3 and 2 and a faulty validator with weight 2, so that the
  threshold is 5 and every pair but the lighter one reaches it. Node `a` gets both candidates,
  `b` one of them, and the faulty one signs the other: `a` has the weight for either, so that only
  the check at the publication keeps it from validating both. One query at a time, so
  that a query that gets no answer blocks the others. One event: a later block is received, of
  the same or the next session, or a node restarts. Both in one behaviour, with liveness, were
  checked once on a smaller set of candidates (141,212 states), and both nodes ahead of each
  other without liveness (239,600).
  Deadlock is not checked: validations end.

### Fairness

- `Cert`: weak fairness of each thread's `Step`. The code waits for nobody except in two
  short critical sections. Nobody is obliged to call `set_deps` or `certify`, or to
  free a cell.
- `AnchorCommit`: weak fairness of `Resolve` (every task ends: a download ends with
  `NotFound` at the latest), of `StartCommit`, `Enqueue` and `Dequeue` (the engine runs
  the committer on every tick), and strong fairness of `ExtendFromFront`. The engine
  extends the window between two commits only, so the action is enabled again and again
  but not continuously; the engine does it before each commit task.
- `RoundTask`: weak fairness of the tasks' own steps and of the timer (the runtime polls
  them); strong fairness of `match_consensus`, which the biased select may postpone; and of
  the successful answers of each peer. The last is an assumption on the network: `RoundEnds`
  holds for a round that was overtaken, or in which the points come and 2F others stay
  connected.
- `Threshold`: weak fairness of the steps of whoever holds the lock. Nobody is obliged to
  add a point.
- `Intake`: weak fairness of each query and of `Update` (they wait for nobody), strong
  fairness of the repeated broadcasts and requests of a peer: of those that are repeated for
  ever some arrive. The engine is not obliged to go on.
- `Downloads`: tasks come, take their permits and end (weak); the interval ticks (weak); a peer
  that is asked again and again answers at last, and the random choice of peers passes nobody
  over for ever (strong). No query has to end.
- `Session`: futures are polled, queries time out, and the pause after a wrong signature ends
  (weak); a waiter for a permit gets its turn, as the semaphore is fair, and of the queries to a
  peer that would answer some are answered in time (strong). Nobody is obliged to validate.

`Collation` has no liveness property: collation waits for anchors and blocks that nobody has
to send. What would keep a sync from ever coming is stated as the invariant `ActiveTries`.

## 4. What is proved

TLAPS checks these for every value of the constants, from the named assumptions of the
modules and nothing else.

**`Cert_proof`**, for any number of threads and any dependency graph. `Safe` says which
thread may hold a cell at which label and how flags and mutex relate (`Sync`): at most
one thread is between winning `has_deps` and emptying the mutex, and the mutex is `Set`
then. It gives `NeverPanics` and `DepsAreTakenOnce`. `Sound` (only dependencies of
certified cells are queued) gives `Refinement`. `InCharge` is the argument for the
re-check: for every certified cell with known dependencies, either each dependency is
certified, freed or queued by some thread, or some thread is still bound to take them.
`Recorded` exempts a thread whose load overtook its store. When all threads are idle
nobody is bound, so all are certified: `NothingIsMissed`.

**`DagLocation_proof`**, for any number of versions, restarts and resets. `IInv` consists of
`Owner` (which task may believe it is the first), `Stored` (the database agrees with
the tasks that wrote it), `Readable` (every status that was reset has its point in the store,
or the restore has failed and no task runs), `Digests` (the two locks name versions that exist),
`Signing`, `Decided` (what `get_or_reject` closed stays closed) and `InOrder`. It gives
`SignsOnce`, `CountsOneVersion`, `ReferencesWhatItSigned`, `PanicsOnlyAfterRestart`, and
`PromiseIsKept`, the step simulation of `Promise`. `SignsOnce` is about the signatures since
the last reset of the statuses, `ReferencesWhatItSigned` about a node without one.

**`DagWindow_proof`**, for every configuration that `MempoolConfigBuilder` accepts
(`max_consensus_lag_rounds >= commit_history_rounds`). `FillFacts` states what
`fill_to_top` does to windows that fit together, in one lemma that `StartRound` and the
two calls in `pre_run` share. `IInv` relates the front to a committer that is away
(`Windows`, `Behind`), remembers what a pending reset will yield (`PendingKeeps`), and
says where an announced bottom is on its way to the adapter (`Taken`, `AtOnce`,
`Announced`). It gives `NeverPanics`, `StaysBounded`, `KeepsTopKnownAnchor`,
`CacheInOrder` and `TicksSkipIncomplete`.

**`Round_proof`**, second part, about `Evidence`, for any finite set of at least three peers, at
most F of them faulty. `MajoritiesMeet` is the quorum argument on `OneF` as the code rounds it.
`EvidenceInv` says that honest locations keep `Promise` (`Kept`, `AuthorKept`), that a proven version
has its signers (`Proven`) and that a missed version has a majority that will never
refer to it (`Missing`). It gives `OneIsCertified` and `CertifiedCannotBeMissed`.

**`Round_proof`**, first part, about `RoundTask`, for any validator set. `IInv` adds to the properties that no
connected peer counts as removed, so that queries to it are really sent (`Disjoint`), and
that an Ok of the Broadcaster, on its way or received, is backed by 2F signatures, which
never get fewer and become the evidence (`Backed`). It gives `TypeCorrect`,
`NobodyIsForgotten` and `ReadyRoundIsBacked`.

**`Threshold_proof`**, for any validator set with 3F+1 within a byte, as `PeerCount` asserts.
`Exact` says by how much the counters lag behind the containers while a user is between a
change and `set_decrease`: by the points removed from the channel, on both sides, so the
sum is always right. With `NothingLost` the sum is the number of points added, which bounds
every counter and the channel. `Promised` carries what `get_reached` saw at its call through
the draining. It gives `ThresholdNeverPanics`, `NoPointIsLost`, `TotalIsAlwaysExact` and
`IncludesAreAlwaysComplete`.

**`Intake_proof`**, for any set of points, handlers and rounds. `FilterInv` says that a query uses
its head late but never early, that the DAG has no round above the engine's, and how far the
flush has got at each step of `Update` (`Lowest`): what came into the filter in time is not
below. With it `MinorityMovesConsensus` follows step by step, a round above the consensus being
on its way to `set_max`, and `NoNeedlessRepeat`, an action property.

**`Download_proof`**, for any number of tasks in the limiter, and any set of peers with at most F
faulty ones. `LInv` counts per semaphore: those that came to it and have not passed are its
permits and what its round still counts (`Open`). A queue is made only while the bypass is
exhausted, and that lasts as long as the queue. The sums over all semaphores give
`CreditsAreKept`. `IInv` says that the
task has counted each removed peer once, and that a removed peer that follows the protocol has
rejected the point or does not keep it, and never will sign it (`Gone`). `Quorum` is the argument on
2F others and the 2F+1 holders of a proven point. It gives `GivenUpIsUnproven`.

**`Session_proof`**, for all validators, weights, candidates and sessions. `Weight` is only
assumed to be additive. `Good` says of a task, and `CacheGood` of the cache, that a signature
kept for an honest peer is over a block this peer has published; `TreeGood` that without an
excuse a node has published only the block it still holds; `CompleteGood` that a result has
the weight and its signers. Each helper of the model has a lemma (`FillGood`, `TakeGood`,
`ReusedGood`, ...), each action one that cites them. `Quorums` is the argument on
`weight_threshold` as the code rounds it. It gives `SessionAgreement`.

Only model-checked: all liveness (`CertificationSpreads`, `AllExecuted`, `RoundEnds`,
`ThresholdIsReached`, `ReachesDag`, `Downloaded`, `SupportedEnds`), because TLAPS does not
treat fairness here; all of `AnchorCommit`, whose walks and reference definitions are recursive
over the DAG, and of `Collation`, whose handlers fold over blocks and diffs, so that their
results need induction over data; and `Adapter`.

## 5. Disagreements between code and comments

- `NothingMissed` and `CertificationSpreads` except the cells in `overtaken`
  (`consensus/src/models/cert.rs:49`). The comment says the re-check is
  there because `certify()` may miss `has_deps`. The load may be performed before the
  store it follows; then each side misses the other, and the dependencies stay
  uncertified until another proof reaches them. A sequentially consistent fence between
  the two would close it.
- `NoPanicBeforeRestart` stops at the first restart (`consensus/src/dag/dag_location.rs:173`),
  after which `NoPanic` is violated with two versions. The assertion says "first valid must not
  be init earlier than first resolved". A location closed by `get_or_reject` before any version
  was acquired is not stored as closed. If a version became first valid meanwhile, the restart
  restores `valid` without `resolved`. The next valid version then initialises `resolved` and
  finds another version in `valid`, which is an assertion.
- `SteadySkipsIncomplete` is stated for an interval that ticks in every round
  (`consensus/src/engine/impl_.rs:413`). The bottom of a gap waits in a local
  variable of `Engine::run` for the next tick; a second gap in between is not recorded.
  The adapter is told the older bottom and executes an anchor whose history is
  incomplete.
- `OneAttemptUnlessStale` excepts chain times that survive a sync
  (`collator/src/manager/mod.rs:2620`). The comment at line 2639 explains why they must not:
  "so we will have two parallel collations for shard that will cause panic further". Chain times
  above that of the block synced to are kept; with them a master block may be found due after
  the sync, and a collator is started that already runs.

## 6. Observations

- A signature given to a peer is not stored. After a restart the node may have handed
  out a signature for a version that its own later points do not refer to; this is why
  `KeepsPromise` ends with the first crash, and why `Evidence` counts a peer that
  restarts in these rounds as faulty.
- `SignOnce` holds over restarts nevertheless, because the first resolved version is
  stored before it can be signed. It does not hold over a recovery from a `HistoryConflict`:
  the new run calls `reset_statuses`, which forgets the version that was the first one, and
  after it another version may be the first and be signed. `SignOnce` is therefore about the
  signatures between two resets, and `SignedIsReferenced` about a node without a reset.
- `pre_run` may place the top of the DAG above the pause bound; the loop then pauses
  until the collator catches up.
- `signer.rs:52` says of points above the head that they "may be in BroadcastFilter only".
  Between the flush and the publication of a new head they may be in the DAG only: the
  Signer, with the old head, answers NoPoint and the peer repeats a broadcast that was
  received. This is harmless, and `AskedAgainOnlyIfAbsent` is therefore stated for the newest
  head.
- A broadcast handled with an old head may enter the filter after its round was flushed. If
  it is the next round, the point stays there, and the Signer answers TryLater, until the
  engine starts another round; `ReachesDag` therefore begins when the round is current.

Downloads:

- A task that is aborted while it waits in the limiter (`effects/task.rs:92`) keeps its
  `inflight` count, so that the permit that was to come is lost. After `download_tasks + 1` such
  losses no download starts any more; `Credits` counts them as lost.
- The comments in `downloader.rs:149` and `:206` say that only reliable answers are counted,
  and that the author's is not; `verify` counts the answers of all. What keeps the count
  meaningful is that each peer is counted once.
- `NotFoundIsUnproven` needs that the author is in the schedule of the next round and that
  signers keep the round. A closed channel (the task then waits for ever) and a failed
  verification (a panic) are not modelled; updates of the schedule that are lost are, as the
  task's view may lag behind at will.

Adapter:

- After a history conflict the recovery loop (`recover.rs:64`) starts a run below the top known
  anchor that sends its anchors to the same handler (`repeated` in `seen`). A message it has
  seen in a later anchor fails the assertion "uniqueness check out of rounds order"; otherwise
  the anchor replaces the one in the cache and lacks the messages that are taken for
  duplicates. `SameExternals` holds until then.
- The same recovery may be followed by a conflict that drops rounds before the new run has come
  as far as the collator (`overtaken`). The collator keeps what it has imported, while
  the anchors between the two are never handled again. `SameExternals` holds until then.
- `SameExternals` excepts a message that comes in two encodings. The deduplicator of messages
  only sees a message whose bytes are new. With `deduplicate_rounds` 3, let one encoding come
  in rounds 4, 6 and the other in round 8: a node that handled round 4 dropped the bytes of
  round 6, remembers the message for round 4 and takes the one of round 8 for new. A node
  that handles complete anchors from round 5 on remembers it for round 6 and drops it,
  although round 8 is the first one it may execute.
- When rounds are dropped after a conflict (`dropped`), anchors below the pause bound may be
  gone for good. A collator that waits for one goes on with a sync only.
- With `deduplicate_rounds` 0 the first anchor that is pushed after a gap may be the one after
  the top known anchor, and `FirstAnchorRemoved` is reachable; `LagAssumption` excludes it.
- A change of genesis empties the cache before the old session has stopped, so that its last
  anchors may still be pushed. It is not modelled.

Collation. The first four are the causes named in `seen`; where a property excepts one, its
comment says so.

- `stale`: the chain times of section 5.
- `revived`: a candidate that was cancelled, or differs from the received block, is processed
  like any other when no sync follows.
- `kept`: `clear_uncommitted_state` clears only the shards that have a commit pointer, while
  `node/mod.rs` expects everything uncommitted to be gone after a restart.
- `again`: after a crash between the commit of the diffs and the save of the state the block
  is collated again. It may differ and fail at its diff, and does no other harm.
- Of a batch of received blocks, `mod.rs:1172` takes the first master block as the last one.
- A cancel that finds nobody waiting is stored, and cancels a later attempt, or is consumed by
  an attempt that does not look at it any more and then has no effect.
- A master block is to import anchors up to a chain time that a shard has seen. If the mempool
  says that the next anchor does not exist, the collation fails with an error ("no anchor" in
  `panic`), where the same answer elsewhere cancels the attempt. `NoPanic` admits this error.
- `refresh_collation_sessions` returns early when the synced block is older than the last
  processed one.
- A collator about to be cancelled that skips its attempt counts as cancelled, and no sync
  follows. A shard block that differs from the received one leaves the master collator
  active; the clearing drops diffs that were right.
- The result of a validation is applied by seqno alone, and a second validation of the same
  seqno fails because the first is in progress.
- A master block of its own that changed the consensus config and turns out to be another than
  the received one leaves the master collator about to be cancelled with nothing in flight
  (the exception `m.delayed # {}` in `ActiveTries`).

Validation:

- Nothing is persisted. After a restart, and after an old block was removed, a validator may
  sign another block of the same seqno; `OneBlock` counts its weight as faulty then.
- A validation that is published after the blocks around it were cancelled runs on until the
  next cancel, or ends by the exchange of signatures.
- `cancel_validation` cancels the session it finds; older ones only once they are
  `old_blocks_to_keep` behind.

## 7. Inventory

The parts of the repository, what they hold and what is hard about them. "Module" names
what models the part, or the planned module of section 8.

| Part | State and operations | Hard behaviour | Module |
| --- | --- | --- | --- |
| Cert | flags and dependencies per point; set_deps, certify | lock-free races, memory order | `Cert` |
| InclusionState, DagPointFuture | first resolved, first valid, signature; acquire, resolve, sign, get_or_reject | races of versions, crash between store and resolve | `DagLocation` |
| PeerCount, evidence rules | thresholds; verify | faulty peers, quorums | `Evidence` |
| Committer, DagBack, AnchorChain | window of rounds, chain, used stages; commit | late and conflicting points | `AnchorCommit` |
| DagFront, Engine::run, CommitterTask | two windows, pause bound; fill_to_top, pre_run | task away, gaps, feedback of the collator | `DagWindow` |
| Threshold | channel, delay queue, counters; add, reached, get_reached | counters against queue, lock between two users | `Threshold` |
| Broadcaster, Collector | signatures, rejections, jobs of a round; signals | biased selects, retries, late answers | `RoundTask` |
| BroadcastFilter, Responder, Signer | points of future rounds by author, published head | f+1 equality, flush against add, stale heads | `Intake` |
| Downloader, Limiter | queries in flight, permits, waiters | 2F negative answers, cancellation of a waiter | `Limiter`, `Download`, `Downloads` |
| RoundTaskReady, Producer | own point of a round | order of signer, threshold, store, broadcast | `RoundTask` (tasks), `Evidence` (rule) |
| PeerSchedule | previous, current, next peers | a switch inside a wave | `Schedule` |
| Point statuses in the store | flags per point; merge, reset, load_restore | merge order, cleaning | `StatusMerge` |
| Engine lifecycle | session, recovery loop | restart inside a session, stop racing recovery | `Adapter` (restart), `Lifecycle` |
| InputBuffer | messages, offset; push, fetch, commit | eviction between fetch and commit | `Lifecycle` |
| Deduplicator, AnchorHandler | seen messages by anchor | nodes that start at different anchors | `Adapter` |
| Anchor cache | waiters, anchors; push, clear, reset, pause | lost wake-up, pause against import | `Adapter` |
| State update queue | unsigned updates; push, signed | a change of genesis in between | `Lifecycle` |
| Validator session | slots and signatures per block | signature before, during and after validation, cancel | `Session` |
| Collation manager, blocks cache | collated, received, applied blocks | three sources in any order, sync, cancel | `CollationSync`, `BlocksCache`, `Collation` |
| Internal queue | diffs, commit pointers, ranges to delete | crash between commit and deletion | `Collation` |
| Block strider, state applier | last processed block | shard blocks before master, crash before commit | `Strider` |
| Block storage, slot subscriptions | handles, waiters | subscribe against store | `Strider` |
| Shared, PrioritySemaphore | waiters, permits | wake-up and cancellation | `Sync` |
| ConnectionManager | active connections | simultaneous dial | `Connections` |
| DHT, overlays, RPC, archives, CLI, control, light node, simulator, block-util | | best-effort input and output, pure data | not planned |

The properties that define a correct system, from the outside in: all nodes execute the
same messages in the same order (anchors, points, deduplication, order of externals);
a block is committed once and only with a quorum of signatures; a crash loses nothing
that others rely on; a node that is connected and not too far behind goes on.

## 8. Plan

In this order; each new module comes with its runs, mutants and, where TLAPS can reach
it, a proof module.

1. `Lifecycle`: InputBuffer, state update queue, change of genesis, stop of a session, and
   `Adapter` beside it. Theorem: agreement of the deduplicators.
2. `Schedule`, `StatusMerge`; then `Strider`, `Sync`, `Connections`.
3. `AnchorCommit` with several versions of a point, fed by `DagLocation`'s results.
4. Proofs about `Adapter` and `BlocksCache`.

Left out of `Collation`: changes of the validator set, splits and merges of shards; a stored
diff that cannot be loaded, and a node that starts from a persistent state; the diffs skipped
by `min_processed_to`; the order of delayed updates with equal seqno; the forced master block
after more than four uncommitted ones; anchors imported before a cancel; notifications to
the mempool and the reset of its genesis; empty diffs and the garbage collection of the queue.

Left out of `Adapter`: the offset inside an anchor, the wait of `pre_run` for a top known
anchor that is not too old (which a node never meets that keeps its applied blocks), and blocks
of others that are received while a block of its own waits to be accepted.

Left out of `Session`: the load and insert of `create_cache_slots`, whose race leaves slots that
nobody uses, and the two reads of `exchange_signatures`, which are one step.

Not modelled, and why: execution of transactions, cells, encodings and proofs of blocks
are data without interleaving; network discovery, file and database input and output
have no property of their own beyond what the parts above assume of them. All
components and the main open hazards are listed in `PROJECT.json`.
