# TLA+ models of the Acki-Nacki node

This directory holds TLA+ specifications of the block-producing node in
`src/`. Each specification is checked with TLC. `PROJECT.json` records:

- which module models which source lines (`map`);
- the runs and what each one checks;
- the mutants: code changes that each property must catch;
- the hazards of the code that the runs are aimed at.

## The system

A validator node (`src/node/src/bin/node.rs`) runs several cooperating parts
that share a block-state repository and exchange data over channels.

| Part | Source | State | Operations |
|------|--------|-------|------------|
| Attestation-target service | `node/services/attestations_target/service.rs` | per block: initial attestations target, verified attestations, fork resolutions, flags *initial target met*, *met in resolved fork*, *invalidated*, *finalized* | `evaluate`, `evaluate_chain`, `invalidate_blocks`, `evaluate_attestations`, `evaluate_block_attestations`, the speculative check `evaluate_if_next_block_ancestors_required_attestations_will_be_met`, `find_next_block_known_dependants` |
| Producer loop | `block/producer/process.rs` | per thread: the active producer thread, the cached optimistic state, the buffers of received acks/nacks, `produced_blocks`, the timeout | `start_thread_production`, `produce_next`, `stop_thread_production`, `get_produced_blocks`, `set_timeout`, `send_epoch_message`, `aggregate_acks`, `aggregate_nacks` |
| Single block producer | `block/producer/single_block_producer.rs` | none of its own | `produce`: slash whitelist from nacks, reference selection, building, the load-balancing check |
| Special-message dispatch | `block/producer/builder/special_messages.rs` | the pending epoch/dapp messages, the pool of active transactions, the active destinations | `execute_epoch_messages`, `execute_dapp_config_messages` |
| Aggregated thread load | `multithreading/load_balancing_service/aggregated_thread_load.rs` | ring buffer `window`, `cursor`, `aggregated_value`, `is_filled` | `new`, `append_from`, `reset`, `is_ready`, `load_value` |
| Block keeper system | `node/block_keeper_system.rs`, `block_keeper_system/epoch.rs` | BK sets versioned by seq_no; per keeper: epoch finish and status | `check_and_touch_block_keeper_epochs`, `update_block_keeper_set_from_common_section`, `get_block_keeper_set` |
| Configuration | `config/mod.rs` | constants | `must_save_state_on_seq_no` |
| Pub/sub receiver | `network/src/pub_sub/receiver.rs` | the connection, spawned transfer tasks, the transfer-result channel, the node's incoming channel, the stop watch | `receiver` loop, the spawned `transfer` tasks |
| Proxy manager | `proxy/src/proxy_manager/mod.rs` | the proxy config file, the running proxy's loaded config | `proxy_manager` loop, `reload_proxy` |
| Network (rest), GraphQL, helper CLI | `network/`, `gql-server/`, `node-helper/` | sockets, files, DB | I/O |

### How the parts interact

- **Block production and attestations.** The producer loop
  (`produce_next`) builds one block at a time for a thread. In each block it
  puts the acks and nacks that other nodes sent, after folding them per
  block.
- **Marking blocks.** The attestation-target service runs from a loop that
  the repository heartbeat wakes. It looks at every unfinalized block. It
  marks a block's attestation target met, or invalidates the block. It
  decides from the attestations and fork resolutions recorded on the
  block's checkpoint descendant.
- **Finalization.** Finalization is done outside `src/`. It needs the
  target to be met.
- **Epoch touches.** The block keeper system sends epoch-touch messages
  into the producer. The builder runs those messages in parallel through
  the special-message dispatch.

### Behaviours that make it hard

- **Service against the repository.** The service walks a chain while the
  node stores blocks, records attestations and finalizes blocks. A walk
  may return early after it has already marked some blocks.
- **Fork resolution.** A block that lost on initial attestations can still
  be met as a fork winner, but only if its checkpoint is met itself.
- **Cutoffs.** Every chain that goes below the thread's last finalized
  seq_no is invalid.
- **Producer loop.** It drains ack/nack buffers under a lock, then may
  return on an external stop before using them. It caches the optimistic
  state across restarts of production.
- **Dispatch loop.** It keeps at most `parallelization_level`
  transactions in flight. It never runs two at once for one account. It
  applies results strictly in dispatch order.
- **Load window.** It keeps a running sum over a ring buffer.
- **Pub/sub receiver.** Spawned transfer tasks, the receiver loop and the
  node's consumer run concurrently over two bounded channels, and the
  loop ends on a stop, a closed connection, a failed transfer or a gone
  consumer while tasks may still be finishing.

### What makes each part correct

- **Attestation-target service:**
  - a block is marked met only on its checkpoint's word;
  - a block is invalidated only with a reason;
  - every block whose checkpoint holds enough signers is eventually
    decided.
- **Producer loop:**
  - acks and nacks that were received end up in a block, or are kept;
  - the produced blocks come out in seq_no order;
  - the ack/nack fold does not depend on arrival order (spec §5 calls it
    commutative).
- **Dispatch:**
  - the pool never exceeds its bound;
  - no account has two transactions in flight;
  - results are applied in the order of the filtered input;
  - the loop terminates.
- **Load window:** the aggregate equals the sum of the window, and once
  ready, the sum of the last W samples.
- **Block keepers:** an outdated epoch is touched at most twice, and then
  it is expired.

## Modules

### `AttestationsTarget` (with `MC_AttestationsTarget`)

This module models `service.rs`.

**Constants.** The block tree is a constant: `Blocks`, `Parent`,
`ThreadOf`, and each block's `Target`, given as `[descendant_generations,
count]`.

**Variables.** They are the repository fields the service reads and
writes:

- `stored`
- `targetSet`
- `verified[c]`: the signer count per ancestor whose checkpoint `c` is
- `resolvesForks[c]`
- `initialMet`, `forkMet`
- `invalidated`, `finalized`

**Operators and actions.**

| Definition | Code |
|------------|------|
| `EvaluateChain(tail)` | one iteration of `evaluate`: a tail of the unfinalized snapshot with the cutoff of its thread |
| `ChainOutcome` | `evaluate_chain` and `invalidate_blocks` |
| `SelectFrom` | `select_unfinalized_ancestor_blocks` (in the repository, outside `src/`, modelled after `prepare_chain`): the walk up to the first finalized block, stopping with `InvalidatedParent` or `BlockSeqNoCutoff` |
| `EvaluateFrom` | the loop of `evaluate_attestations`, with its checks in the code's order, generic over a chain and its `peek` view |
| `EvaluateBlockAttestations` | `evaluate_block_attestations`, over a `TargetBlock` record |
| `BlockTarget`, `PhantomTarget` | the two `TargetBlock` implementations: a stored block, and the phantom next block (its attestations default to the empty set, its target is never met) |
| `ChainPeeks`, `PhantomChainPeeks` | the two `AsChain` implementations: the chain alone, and the chain with the phantom one past its end |
| `SpeculativeCheck` | `evaluate_if_next_block_ancestors_required_attestations_will_be_met`, with its mapping of walk results to true, false or an error |
| `PrepareFrom`, `PrepareChain` | `prepare_chain` |
| `FindNextBlockKnownDependants` | `find_next_block_known_dependants` |
| `RecoverUnprocessedBlock(b)` | the startup pass of `node.rs` (lines 368–395) over one unprocessed block: an `InvalidatedParent` or `BlockSeqNoCutoff` answer of the walk invalidates the chain it carries |

A block's checkpoint is `chain.peek(k-1)` after the block is popped, which
is chain position `i + k` of the `peek` view.

The callbacks write while the walk goes on. So `EvaluateFrom` returns the
marks it made before an early return, and `EvaluateChain` applies them.

One walk is one atomic step. The walk only reads blocks after the current
one, which it never writes. So what interleaves with it are the
environment steps between walks.

**The environment.** The environment actions stand for code that is not
under `src/`:

- `StoreBlock` stores a block.
- `SetTarget` sets a block's initial target.
- `RecordCheckpointData` records a block's verified attestations and its
  fork resolutions. These two are set together, so a checkpoint with only
  one of them, which the code also just skips, is not a separate state.
- `Finalize` finalizes a met, valid block whose parent is finalized and
  that has no finalized sibling.

**The zero block.** The zero block `Genesis` is finalized and belongs to
every thread. A thread with no finalized block of its own gets cutoff 0.

**Fairness.** The evaluation of each tail is weakly fair. `node.rs`
starts a heartbeat thread that touches the repository. The service loop
wakes on it and evaluates the whole unfinalized snapshot each time. The
environment gets no fairness: blocks need not be stored, attested or
finalized.

**Trees** (in `MC_AttestationsTarget`):

- **fork tree:** `G<-b1<-b2<-b3<-b4`, plus `b1<-c2` and `b2<-d3`.
  - b2 and c2 are a fork. b3 may name b2 as the winner.
  - b4 decides b3, so the resolved-fork path is reachable.
  - Finalizing b2 cuts c2 off.
  - b1 looks two generations down.
  - d3 is in thread T1, so a checkpoint in another thread is reachable.
- **short tree:** the fork tree without b4 and d3.

A checkpoint holds 2 or 3 signers against a required 3, so both outcomes
occur.

**Restarts.** The startup pass reads only persisted block-state flags.
So `RecoverUnprocessedBlock` is a step that may come at any time, which
covers a restart after any history. The constant `Restarts` enables it.
It is TRUE in the fork run. It is FALSE in the liveness run, whose
progress claim is about a node that stays up.

| Run | Config | Properties | What it shows |
|-----|--------|------------|---------------|
| at_fork | `MC_AttestationsTarget_fork.cfg` | `TypeOK`, `MetIsJustified`, `InvalidationIsJustified` | Marks are backed by the checkpoint data, and a checkpoint in another thread never marks a block. Secondary marks need a met checkpoint. Every invalidation has a failed, cut-off or invalid path behind it. |
| at_live | `MC_AttestationsTarget_live.cfg` | `KnownDependantsAreCheckpointed`, `SufficientAttestationsPass`, `CheckpointDecides` | `find_next_block_known_dependants` names exactly the ancestors whose checkpoint the next block is (a reference walks the tree). A next block that attests each of them enough passes the speculative check whenever the parent's chain passes the walk. The walk does not get stuck on undecidable blocks: a block whose checkpoint verified enough signers is eventually met, invalidated or finalized. |

The liveness run uses the short tree because checking fairness of the
recursive walk makes TLC roughly a hundred times slower per state. The
short tree still has two blocks sharing one checkpoint, plus a fork.

**Mutants.**

| Mutant | Caught by |
|--------|-----------|
| the resolved-fork case without the checkpoint-met check | `MetIsJustified` |
| an unresolved fork treated as invalid | `InvalidationIsJustified` |
| the startup pass invalidates every selected chain, whatever the walk answered | `InvalidationIsJustified` |
| evaluating tails not yet stored | `TypeOK` |
| no thread check | `MetIsJustified` |
| a walk that stops at the first met block | `CheckpointDecides` |
| dependants counted against the chain length without the next block | `KnownDependantsAreCheckpointed` |
| the phantom peeked one position early | `SufficientAttestationsPass` |

### `AckAggregation` (with `MC_AckAggregation`)

This module models the ack and nack buffers of the producer and their fold
in `process.rs`.

**Variables.** The state is the two buffers, `receivedAcks` and
`receivedNacks`.

**Actions.**

- `ReceiveAck` and `ReceiveNack` are the transport pushing an envelope.
- `ProduceNext` is the "read messages" part of `produce_next`, lines
  130-142. It copies and clears both buffers.

**The fold.** `AggregateAcks` and `AggregateNacks` are the two folds. They
are the same code, applied to the copied buffer, and their results are what
the next block carries.

- `AddEnvelope` is one `entry(..).and_modify(..).or_insert(..)` step.
- `MergeEnvelope` is the `and_modify` closure.

**Envelopes.** An envelope is abstracted to three parts:

- its block id;
- its signer occurrences, as a bag;
- its BLS aggregate, as the bag of signer signatures multiplied into it.

A BLS aggregate verifies against the occurrences exactly when the two bags
are equal.

**Bounds.** Two block ids, two signers, and up to three envelopes per
buffer. Every envelope a single keeper signs has each of its signers once.

| Run | Config | Properties | What it shows |
|-----|--------|------------|---------------|
| ack_fold | `MC_AckAggregation.cfg` | `SignatureMatchesOccurrences`, `SignersAreKept`, `RedeliveryIsIgnored` | Folded envelopes verify and keep every signer. Delivering the buffer a second time changes nothing. |
| ack_fold_order | `MC_AckAggregation_order.cfg` | `FoldIsCommutative` (violated) | Acks `{0}` then `{0,1}` fold to occurrences `{0:2,1:1}`. The other order gives `{0:1,1:1}`. The spec says the fold is commutative and does not double-count a re-added signer. |

**Mutants.**

| Mutant | Caught by |
|--------|-----------|
| the occurrences merged without the signature | `SignatureMatchesOccurrences` |
| growth measured against the incoming envelope | `SignersAreKept` |
| a merge when the signer count did not grow | `RedeliveryIsIgnored` |

**Not modelled here.** The external stop between the drain and the commit
loses the drained envelopes. The same return at `process.rs:306` loses the
drained epoch-touch data, which the `bk_epoch_lost` run shows.

### `LoadAggregation` (with `MC_LoadAggregation`)

This module models `AggregatedLoad` in `aggregated_thread_load.rs`.

**Variables.** `window`, `cursor`, `aggregatedValue` and `isFilled` are the
struct's fields. `recent` and `sinceReset` are ghost variables: the samples
appended since the last reset.

**Actions.**

- `Init` is `new`.
- `AppendFrom(v)` is `append_from`, with `v` the block's queue length.
- `Reset` is `reset`.

**Operators.** `IsReady` and `LoadValue` are the getters.

**Left out.** The `InThreadAccountsLoad` half of each slot moves by the same
steps in the same slots, so it is left out.

**Bounds.** The window has 5 slots and lengths run from 0 to 2. Resets then
happen at every cursor position, before and after the first wrap, and a
ready value mixes samples of several wraps.

| Run | Config | Properties | What it shows |
|-----|--------|------------|---------------|
| load_window | `MC_LoadAggregation.cfg` | `RunningSumIsWindowSum`, `ReadyLoadIsRecent` | The running sum is the sum of the slots. The sum can be trusted only after a full window of samples since the last reset. It then equals their sum. |

**Mutants.**

| Mutant | Caught by |
|--------|-----------|
| the evicted value not subtracted | `RunningSumIsWindowSum` |
| reset without clearing the cursor | `ReadyLoadIsRecent` |

**Window size 0.** With `window_size` 0 the first append panics. The model
assumes a window of at least one slot.

### `ParallelExecutor` (with `SequentialExecution`, `MC_ParallelExecutor`)

This module models the two dispatch loops of `special_messages.rs`:
`execute_epoch_messages` and `execute_dapp_config_messages`. The variable
`loop` says which one runs. It is fixed in the initial state from the
constant `Loops`, so a single run checks both functions.

**Variables.** `pending` is the message queue (`epoch_block_keeper_data` or
`config_messages`). `active` is `active_ext_threads`: each entry is a
message and the state of its execution, running or the result it sent.
`activeDst` is `active_destinations`. `applied` is the sequence of results
`after_transaction` applied. `producedInternal` and `outMsgDescr` are the
config messages the DApp loop enqueues before running any. `pc` is where
the builder thread is.

**Actions.**

- `TouchMessage` is `create_epoch_touch_message`: a touch to the
  keeper's address. That address is the one `decode_epoch_data` printed
  from the account, so it always parses back to an internal destination.
- `Collect` is the function entry. The DApp loop first builds its
  messages (`ConfigDapps`, `ConfigMessages`): dapps with nothing minted,
  with no credit entry, or with unlimited credit are skipped. The
  HashMap gives the messages in any order, so `Collect` picks one.
- `Fill` is the fill part of one iteration, atomic (`FillLoop`). It runs
  while the pool has room. It drops a head with no destination, or in the
  epoch loop one outside the thread. It starts a head whose destination
  is free. It stops at a head whose destination is busy (head-of-line
  blocking).
- `DrainOne` pops the front execution once it has sent its result. An
  error result returns from the function with the rest still in flight.
- `DrainStop` ends the iteration when the front is still running, and the
  loop when queue and pool are both empty.
- `Complete(i)` is executor thread `i` sending its result, `ok` or `err`,
  at any moment. This is what interleaves with the builder.

**Refinement.** `SequentialExecution` is what the executor promises (spec
4.D): the admissible messages are applied one at a time in queue order,
the first failure aborts, and the run ends. The mapping sends `queue` to
the admissible messages of the pool followed by those of the queue. Under
this mapping `Fill`, `Complete` and `DrainStop` are stutters, `DrainOne`
is `Apply` or `Abort`, and the final `DrainStop` is `Finish`.

**Fairness.** The builder thread spins without blocking, so it has weak
fairness. Each execution runs to completion: `NO_LIMITS` is used, but gas
bounds the run. So each `Complete(i)` has weak fairness.

**Deadlock.** Once the function has returned and every execution has
finished, nothing moves. So `CHECK_DEADLOCK` is `FALSE`.

**Bounds.** The pool holds two. The epoch queue has seven keepers:

- two to the same wallet back to back, which exercises head-of-line
  blocking;
- one outside the thread;
- later messages that can finish before earlier ones.

A keeper with no destination cannot occur in the epoch loop (see
`TouchMessage`), so the model data has none.

The DApp map has six dapps, one for each skip reason and three that get
messages. Every order of the three is explored.

| Run | Config | Properties | What it shows |
|-----|--------|------------|---------------|
| pe | `MC_ParallelExecutor.cfg` | `OneInFlightPerAccount`, `FillSaturatesPool`, `ImplementsSequentialExecution` | Both loops are covered: the epoch loop, and the DApp loop in every HashMap order. In every order of completions and failures, each fill leaves the pool at most full, and less than full only when the queue is empty or its head waits behind an execution to the same account. Each loop runs one execution per account. It applies results in queue order and terminates. |

The DApp loop has no thread-membership check (`special_messages.rs:200`).
A config address outside the thread would be executed. This is recorded as
a hazard; the run's DApp map only holds in-thread config addresses.

**Mutants.**

| Mutant | Caught by |
|--------|-----------|
| pool bound tested with `>` instead of `>=` | `FillSaturatesPool` |
| no head-of-line break | `OneInFlightPerAccount` |
| drain the first finished execution instead of the front | `ImplementsSequentialExecution` |

### `BlockKeeperEpoch` (with `MC_BlockKeeperEpoch`)

This module models the versioned block-keeper sets of a thread and the
touching of expired epochs (`block_keeper_system.rs`). It also models the
channel that carries a touch to the production thread (`process.rs`).

**Variables.**

- `bkSets` is the thread's `BTreeMap<seq_no, BlockKeeperSet>`. A keeper's
  data is its wallet index, epoch, finish time and status, as
  `decode_epoch_data` produces it from the epoch account (`Decoded`).
  The constant `Storage` gives each epoch account's fields, wallet id and
  finish time. An account missing a field decodes to nothing. The wallet
  id is cut to `u16`.
- `now` is the wall clock.
- `applied` counts the blocks whose keeper changes were applied.
- `sender` says whether `epoch_block_keeper_data_senders` exists, and
  whether its receiver is still alive.
- `chan` holds the data sent and not yet drained.
- `touches` and `included` are ghost variables. `touches` records every
  touch sent and when. `included` is the set of epochs a kept block
  carries a touch for.

**Actions.**

- `CheckAndTouch` is `check_and_touch_block_keeper_epochs`. It runs under
  the lock, on the latest version. Every keeper whose finish time has
  passed and that is not Expired is sent, in HashMap order. Each one
  then goes through `Touched`:
  - Active: RetryDelta more seconds, and it becomes CalledToFinish;
  - CalledToFinish: it becomes Expired.
- `UpdateBlockKeeperSet` is `update_block_keeper_set_from_common_section`
  for the next block. It is applied atomically (see the hazards).
  `ApplyChanges` applies the removals first, then the additions.
  `AddedData` decodes the added accounts; if two decode to the same wallet
  index, the later insert wins.
- `StartThreadProduction` creates the channel.
- `ProduceNext` is one production iteration that drains the channel and
  keeps its block.
- `ProduceNextStopped` is the iteration in which the external stop
  arrives. The drained data is gone, and the receiver goes with the
  thread.
- `Tick` advances the clock.
- `CheckCalled` is the caller's policy. The caller is outside `src/`: it
  may check at any time, or only while producing.

**Bounds.** There are two keepers, with epochs finishing at 0 and 1:

- block 1 rotates signer 1 to a new epoch by removing and adding it in
  one block;
- block 3 removes signer 2 and adds an account that lacks `_stake`, so
  it decodes to nothing;
- the clock runs to 8, which is past every finish plus the 5 s delay.

| Run | Config | Properties | What it shows |
|-----|--------|------------|---------------|
| bk_epoch | `MC_BlockKeeperEpoch.cfg` | `AtMostTwoTouches`, `TouchesAreSpaced`, `KeeperSetsFollowChanges` | The touch state machine touches each epoch at most twice. It never touches early, and the retry waits the delay. Each keeper-set version equals a reference fold of the block changes up to its seq_no. |
| bk_epoch_lost | `MC_BlockKeeperEpoch_lost.cfg` | `ExpiredEpochWasTouched` (violation) | Checks run only while producing. Even so, both touches of an epoch can be drained by an iteration that an external stop ends. The epoch then becomes Expired with no touch in any block. The same return at `process.rs:306` drops the drained acks and nacks too. |

**Mutants.**

| Mutant | Caught by |
|--------|-----------|
| CalledToFinish never becomes Expired | `AtMostTwoTouches` |
| no RetryDelta extension | `TouchesAreSpaced` |
| additions applied before removals | `KeeperSetsFollowChanges` |

**Wallet-id truncation.** `decode_epoch_data` casts the wallet id to `u16`
(`epoch.rs:61`). Two wallets 65536 apart then share an index, and the
later one replaces the earlier in the keeper set. A hand run with wallet
id 65537 next to wallet 1 breaks `KeeperSetsFollowChanges`, whose
reference keys keepers by the full id. It is listed as a hazard.

### `ProductionLoop` (with `MC_ProductionLoop`)

This module models one thread's `TVMBlockProducerProcess` (`process.rs`).
The node starts a production thread from a parent block, collects what the
thread produces, and stops it.

**Variables.**

- `handle` is `active_producer_thread`: the running thread, or 0.
- `prod[k]` is the k-th production thread spawned. It holds its current
  optimistic state (`tip`), where it is in its iteration (`pc`), whether
  its control channel holds a stop, and the block it has just built.
- `producedBlocks` is the shared `produced_blocks` vector.
- `cache` is `optimistic_state_cache`. `repo` is the set of states the
  repository holds.
- `node` is the thread the node is joining in `stop_thread_production`,
  or 0 if it is not joining.
- `buffer` is the shared ack, nack and epoch input.
- `handedOut` and `received` are ghost variables.

A block is `[id, parent, seq, inputs]`. A state is named by its block.
A production thread's `pc` is `"read"`, `"built"`, `"returned"` or
`"dead"`. A dead thread is one that panicked.

**Actions.**

- `ProduceBlock(k)` is `produce_next` up to the builder's join. It drains
  the buffers under lock, and builds a child of the thread's state with
  `Produce`. `Prepared` is the pre-processing and `build_block` part (the
  parent, the seq_no and the drained inputs); `Produce` adds the block id
  as `AckiNackiBlock::new` does. The builder, its timeout and the sleep are one step.
- `Produce` is `TVMBlockProducer::produce` (`single_block_producer.rs`).
  The block carries the drained acks and nacks. The slash messages made
  from the nacks, the TVM build and the forward threads table chosen by
  the load-balancing answer are data, and are not modelled.
- `ProducePanics(k)` covers the load-balancing check answering
  `ThreadIsNotInTheTable`. That answer panics the builder thread
  (`single_block_producer.rs:238`). The `expect` on its join then panics
  the production thread (`process.rs:297`). The drained inputs go with
  it. The check is a service outside `src/`, so its answer is drawn from
  the constant `LoadBalancing`.
- `ReturnOnStop(k)` is the `try_recv` at line 306 that sees a stop. The
  built block is dropped, the state is stored (`store_optimistic`), and
  the thread returns it.
- `Commit(k)` is the rest of `produce_next`. The block's state becomes the
  thread's state, it is stored, and the block is pushed.
- `StartThreadProduction(prev)` is refused while a thread runs. Otherwise
  it spawns a thread from `InitialState(prev)`: the cache if it is
  `prev`'s state, else the repository's, else the zero state for the
  default id. The caller (outside `src/`) passes genesis or a block it
  was handed.
- `StopThreadProduction` takes the handle, sends the stop, and blocks.
  `JoinProducer` is the join returning. The returned state becomes the
  cache, and the uncollected blocks are drained and dropped.
- `StopDeadThread` stops a dead thread. The handle is taken and the
  control send fails, so the function returns its error. `JoinFails` is
  a thread that died after the stop was sent, so the join fails. Either
  way the function returns before it updates the cache or drains
  `produced_blocks`.
- `GetProducedBlocks` drains `produced_blocks`, sorted by seq_no. While
  the handle is held by a dead thread, the function's assert panics the
  node, so the model takes no step there.
- `Receive(i)` is the transport filling the buffers.
- `must_save_state_on_seq_no` is the function of `config/mod.rs`: a
  state is saved to disk when its seq_no falls in a later bucket of
  `save_state_frequency` (the constant `SaveFreq`) than its parent's, or,
  without a parent, when it is a multiple of it. Its caller, the
  repository's `store_optimistic_in_cache`, is outside `src/`; spec 4.F
  (commit) says it saves to disk when the function answers true.
  `SavedOnDisk` is that set, derived from `repo` (spec-modelled). Every
  stored block has a parent here, so the `None` branch is not reached.

**Fairness.** A production thread loops without waiting on the node, so
each thread has weak fairness. So does the join, succeeding or failing:
the node blocks in it.

**Bounds.**

- Two spawned threads, so that there is a restart and a refused start.
- Three fresh block ids. After that a thread builds only to see a stop,
  so a stop is always answered.
- Two inputs.
- `SaveFreq = 2`, so that a chain of three blocks crosses a bucket
  boundary and a restart can begin on either side of it.
- The load-balancing check answers `ContinueAsIs` or `Split`. In the
  passing run and in pl_panic it may also answer `ThreadIsNotInTheTable`.

| Run | Config | Properties | What it shows |
|-----|--------|------------|---------------|
| pl_chain | `MC_ProductionLoop.cfg` | `ChainWhileNoPanic`, `SavedWithinFrequency`, `StopReturns` | Until a builder panics, `produced_blocks` holds a single chain across starts, stops and collections (spec 5, per-thread linearity). Every stored state, committed or returned on a stop, has an ancestor-or-self saved to disk fewer than `SaveFreq` seq numbers below it, so losing the cache loses less than one save interval. Every stop's join returns, including the join of a thread that panicked. |
| pl_panic | `MC_ProductionLoop_panic.cfg` | `ProducedBlocksFormChain` (violation) | A thread commits block 1, then its builder panics. Stopping it fails and leaves block 1 queued. A start from genesis then pushes block 2, also a child of genesis, behind it. Spec 7 says builder errors roll back at the iteration boundary. |

**Mutants.**

| Mutant | Caught by |
|--------|-----------|
| a second start while a thread runs is not refused | `ChainWhileNoPanic` |
| the uncollected blocks are kept across a stop | `ChainWhileNoPanic` |
| the thread is joined without the stop being sent | `StopReturns` |
| `must_save_state_on_seq_no` takes the parent's bucket from the block's own seq_no | `SavedWithinFrequency` |

### `PubSubReceiver` (with `MC_PubSubReceiver`)

This module models the `receiver` function of one pub/sub connection
(`network/src/pub_sub/receiver.rs`). It is the part of the network layer
with concurrency of its own.

**Variables.**

- `conn` is the QUIC connection, open or closed by the peer.
- `task[m]` is the spawned task for the stream that carries message `m`:
  not yet accepted, transferring, finished with `ok` or `err`, its result
  sent, or its result dropped.
- `chan` is the bounded transfer-result channel (capacity 10 in the code).
- `rx` is the loop: in the `select`, awaiting `incoming_tx.send`
  (`forward`, with the message in `fwd`), or returned.
- `incoming` and `consumer` are the node's incoming channel and its
  receiving end.
- `stop` and `stopSeen` are the stop watch and whether `changed()` has
  reported it.
- `delivered` is a ghost variable: what the node took, in order.

**Actions.** One per `select` branch and outcome: `AcceptOk(m)` spawns a
task, `AcceptErr` ends the loop on a closed connection, `RecvOk` starts
forwarding a good result, `RecvErr` ends the loop on a failed transfer,
`Forward` is the awaited send completing, `ForwardFails` is the send
failing because the consumer is gone, and `StopChanged` ends the loop on
a stop. Each task makes three steps: `Transfer(m)` decides the outcome,
`SendResult(m)` is the awaited send into the result channel, and
`SendFails(m)` is that send failing once the loop has returned and dropped
the receiver. The environment closes the connection, consumes, detaches
the consumer (its buffered messages go with it) and sets the stop.

**Fairness.** The runtime polls the loop and each task whenever they can
move, so each has weak fairness. `tokio::select!` polls its branches in a
random order, so no branch starves another. The node's consumer is assumed to keep
taking messages while attached; without that, a full incoming channel
blocks the loop in `Forward` and a stop is never seen.

**Deadlock.** After the loop has returned and every task has sent or
dropped its result, nothing moves. So `CHECK_DEADLOCK` is `FALSE`.

**Bounds.** Three messages, a result channel of capacity 2 and an
incoming channel of capacity 1. So a task can be blocked on a full result
channel while the loop is blocked on a full incoming channel, and every
way of ending the loop meets a task still in flight.

| Run | Config | Properties | What it shows |
|-----|--------|------------|---------------|
| rx | `MC_PubSubReceiver.cfg` | `TypeOK`, `NoLossWhileRunning`, `TransferredReachesNode`, `StopEndsReceiver` | While the loop runs and the consumer is attached, no transferred message is dropped: each is in the result channel, being forwarded or with the node. Each successful transfer reaches the node unless the loop ends or the consumer detaches first. A stop always ends the loop, even while it forwards and tasks wait on the full channel. |

**Mutants.**

| Mutant | Caught by |
|--------|-----------|
| the result channel's capacity test one past the end | `TypeOK` |
| the loop forwards with `try_send` and drops on a full channel | `NoLossWhileRunning` |
| a task sends its result with `try_send` and drops it on a full channel | `TransferredReachesNode` |
| the stop branch without its `break` | `StopEndsReceiver` |

### `ProxyManager` (with `MC_ProxyManager`)

This module models the proxy manager (`proxy/src/proxy_manager/mod.rs`).
Every 5 s it loads the proxy config file and asks the chain for the list
of proxies. If the list differs from the set of enabled outer urls, it
enables every connection whose outer url is listed, saves the file and
signals the proxy to reload it.

**Variables.** `saved` is the enabled flag of each connection in the file,
which survives a restart. `running` is what the proxy process has loaded.
`pc` is where the manager is: at the top of the loop, between the save
and the reload, asleep, or exited. `chainAt` is the chain's current list
in the sequence `Published`. `failures` counts I/O failures up to
`MaxFailures`.

**Actions.**

- `InSync`: the list equals the enabled outer urls, so the manager
  sleeps.
- `UnknownProxy`: the list names a url no connection has, so it exits
  with 1.
- `Update`: `Enable` sets every listed connection's flag and clears none;
  the file is saved.
- `IoFails`: `try_load`, `get_proxy_list` or `save` fails, and `?`
  exits before the file changes.
- `Reload`: the docker or `kill -HUP` signal reaches the proxy, which
  loads the file.
- `ReloadFails`: the docker call, or spawning `kill`, fails, so the
  process exits.
- `ReloadPanics`: the `pid_path` command is `unimplemented!()`, and the
  panic ends the process.
- `KillIgnored`: `kill` runs but fails. `output()` still returns `Ok`, so
  the manager carries on.
- `Wake`: the sleep ends.

The environment is `Restart` (the supervisor starts an exited manager)
and `Publish` (the chain moves to its next list).

**Fairness.** The manager never blocks for long, so it has weak fairness.
So does the restart, so that a violation cannot come from the manager
staying dead. Failures and the chain's changes are never forced.

**Bounds.** Three connections: two with outer urls and one without. One
is enabled at the start. The chain lists `{u1}`, then `{u1, u2}`. One
failure is allowed.

| Run | Config | Properties | What it shows |
|-----|--------|------------|---------------|
| proxy_stale | `MC_ProxyManager.cfg` | `SavedConfigIsLoaded` (violation) | The chain adds u2, and the manager saves the file with c2 enabled. The docker reload then fails and the process exits. After the restart the file equals the list, so `proxy_set != enabled_outers` is false on every iteration. The proxy never loads c2. |

**Reload storm.** `Enable` never disables. In a hand run, the list goes
from `{u1, u2}` to `{u1}` with c1 and c2 enabled. Then
`EventuallyQuiet == <>[](pc # "reload")` fails: the manager saves and
signals on every iteration, and u2 stays enabled. This is listed as a
hazard; no run slot is left for it.

## Plan

Modules, in the order they are built:

1. `AttestationsTarget`: done, the speculative check and
   `find_next_block_known_dependants` included. A property comparing a
   speculative answer with the evaluation once the block is stored is
   still open.
2. `AckAggregation`: done.
3. `ProductionLoop`: done for start, stop, the iterations and the
   collection. The timeout correction (`ProductionTimeoutCorrection`) is
   defined outside `src/`, and spec.md leaves its formula unspecified
   (section 9, open questions), so it is not modelled.
4. `ParallelExecutor`: done.
5. `LoadAggregation`: done.
6. `BlockKeeperEpoch`: done.
7. `must_save_state_on_seq_no`: done, as an operator applied to the
   stored states (`SavedWithinFrequency`).
8. `PubSubReceiver`: done for one connection.
9. `ProxyManager`: done.
10. Still open, for want of a run slot: violation runs for the wallet-id
    truncation in `decode_epoch_data`, the DApp loop's missing membership
    check and the proxy manager's reload storm.

Bounds: 3–5 blocks, 2 threads, 2–3 signers, windows of 2–3 and pools of
1–2. These make every branch of the code reachable while TLC finishes
within minutes.

## Not modelled

- The rest of the network layer (the pub/sub sender, configuration,
  metrics), GraphQL and the helper CLI are I/O.
- The proxy publisher's `cli.rs` is argument parsing.
- The stub repository is a test double.
- The rest of `node.rs` is wiring: services, channels and threads.
- TVM execution is out of reach.
- Epoch-message encoding is formatting.
- `ProductionTimeoutCorrection` (the corrected sleep of an iteration) is
  defined outside `src/` and its formula is an open question of the
  specification; the model makes the build and its sleep one step.
- Some of the code the service depends on is outside `src/`: block-state
  storage, finalization and the setting of targets. It is modelled from
  the specification as environment actions, marked `spec_modelled` in the
  map.
