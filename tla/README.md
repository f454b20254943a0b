# TLA+ verification of dogeos-reth

This directory is a formal model of the parts of `dogeos-reth` in which order,
concurrency, failure or arithmetic at a limit decide correctness, with the TLC
runs that check the model on small instances and TLAPS proofs that hold for every
value of the constants. `PROJECT.json` is the machine-readable index: components,
runs, mutants, the map from definitions to source lines, hazards, findings and
theorems.

Run a check with `tlc -config <cfg> <module>` and a proof with
`tlapm <module>.tla`, both from this directory.

## 1. Inventory of the system

`dogeos-reth` is an execution client for the DogeOS L2: a set of crates that
configure reth. Reth itself (engine tree, database, networking, payload jobs, the
transaction pool), revm, alloy and tokio are external; they appear in the models only
through what the repository's code expects of them.

| Part (crate) | State | Operations | Interacts with |
|---|---|---|---|
| Transaction validator (`dogeos-reth-txpool/src/validator.rs`) | `l1_fee_cache` (Ready/Unavailable/Disabled), `l1_fee_refresh_lock` | `validate_one`, `refresh_l1_fee_cache_from_latest` | provider reads; called by the executor and by the maintenance task |
| L1 fee maintenance (`dogeos-reth-node/src/pool.rs`) | broadcast receiver, retry delay and deadline | startup drain, notification, lag, close, retry | canonical-state broadcast of the engine; refreshes the cache; gates `build_pool` |
| Validation executor (`dogeos-reth-txpool/src/executor.rs`) | two semaphores, blocking jobs | `validate_transaction`, cancellation by drop | RPC and peer tasks; tokio |
| Code-witness meter (`dogeos-reth-evm/src/code_witness.rs`) | accepted/pending code sets and byte counters, limit flag | inspector hooks, begin/accept/reject | shared between the EVM's inspector and its user |
| Admission simulation (`dogeos-reth-txpool/src/code_witness.rs`) | a fresh meter per transaction | `validate_code_witness` | meter, EVM, validator |
| Payload builder (`dogeos-reth-payload`) | `ExecutionInfo`, breaker, best-transactions iterator | one `build_payload` attempt | meter, block executor, pool iterator, payload job (cancellation) |
| Block executor (`dogeos-reth-evm/src/block`, `tx`, `receipt.rs`) | gas used, receipts, EVM switches, state | pre-execution changes, execute, commit, finish | transitions, system caller, state hook |
| EVM configuration and assembly (`dogeos-reth-evm/src/config.rs`, `build.rs`) | none | block environments for building, import and payloads; the header of a built block | builder, engine import, consensus |
| Fork transitions (`dogeos-reth-evm/src/transitions`) | oracle and token accounts | Feynman, GalileoV2, Tsuki | executed before every block; state hook |
| Base fee (`dogeos-reth-evm/src/base_fee.rs`) | overhead slot in L2 state | next fee, predicted fee | builder, import check, pool maintenance, fee RPCs |
| Consensus (`dogeos-reth-consensus`) | none | header, parent, body, post-execution checks | engine import |
| Engine types (`dogeos-reth-engine`, `dogeos-reth-node/src/lib.rs`) | none (reth's payload service keeps jobs by id) | attribute and payload validation, payload id, envelopes, local miner's attributes | Engine API, builder |
| Pool base-fee maintenance (`dogeos-reth-txpool/src/maintenance.rs`) | the pool's pending base fee | `set_block_info`, `on_canonical_state_change` | base fee, inner pool |
| scroll/1 wire (`dogeos-scroll-wire`) | connections, outbound queues, event queue | connect, send, receive, announce | network, importer |
| Announcement importer (`dogeos-reth-node/src/wire_import.rs`) | LRU set of announcements | `import_event`, `run` | manager, engine handle |
| Hard forks, chain spec (`dogeos-hardforks`, `dogeos-chainspec`) | schedules, genesis | reading and accepting a genesis, activation, fork ids, fee parameters, spec ids | everything; peers |
| Raw-transaction submission (`dogeos-reth-rpc/src/forwarder.rs`, `sequencer.rs`, `dogeos-reth-node/src/lib.rs`) | installed handler, sequencer client | admit, then forward, awaited or spawned | pool, sequencer |
| RPC forms (`dogeos-rpc-types`, `dogeos-reth-rpc`, `dogeos-reth-txpool/src/transaction.rs`) | none | requests, responses, pool transactions and their conversions | types and codecs |
| Types and codecs (`dogeos-protocol-types`, `dogeos-reth-primitives`) | none | conversions between network, memory, database and JSON forms | everything |

What is hard here, and what each part has to guarantee:

* **L1 fee cache and its task.** The provider's head moves at any time; a refresh
  reads it twice around an exact-state load; notifications can lag; reads fail. The
  cache must never mix heads, go back, or be trusted after a failed refresh; no head
  may be missed; admission must recover without a new block.
* **Executor.** A request can be dropped at each await while its job runs on. Capacity
  must be neither lost nor duplicated.
* **Meter and builder.** Optional and mandatory transactions, three resource budgets,
  rollback after a rejected candidate, and an inspector whose halt looks like a normal
  result. A built block must fit every budget, keep all mandatory transactions and
  have no gap in a sender's nonces.
* **Block execution.** Check switches that outlive the transaction they were set for;
  a fee computed after the execution from values loaded before it; three routes to a
  transaction environment that must lead to the same block.
* **Codecs.** Five transaction types, each written and read in half a dozen forms
  that add, drop or recompute the tag, the signature, the hash and the L1 fee.
* **Header agreement.** Three code paths (builder, import, pool) compute the same fee
  from a state slot that any block may change, with a fork boundary in between.
* **Wire.** Reconnects with two live connections of one peer; a bounded duplicate
  filter; an importer that must outlive errors.
* **Fork transitions and schedules.** Each block tries every active transition because
  the executor does not know the parent's timestamp; they must act once and in order.
  The schedule comes from a document the node only partly validates, and decides rules,
  contracts and peers in three different places.
* **Requests.** The local pool and the sequencer decide one after the other and the
  second may fail, or its caller may leave in between; payload jobs are shared by an id
  that hashes optional fields without a tag; a payload travels through a form that drops
  header fields.

## 2. Modules

| Module | Models | Composes |
|---|---|---|
| `L1FeeCache` | cache, refresh protocol and the cache read of a validation | |
| `L1FeeMaintenance` | pool startup and the maintenance task | EXTENDS `L1FeeCache` |
| `AdmissionCapacity` | abstract promise of the executor | |
| `ValidationExecutor` | the executor | INSTANCE `AdmissionCapacity` |
| `CodeWitnessMeter` | meter, handle, inspector hooks | |
| `PayloadBuilder` | one build attempt | EXTENDS `CodeWitnessMeter` |
| `HeaderChain` | base fee, gas limit and timestamp: builder, import, pool | |
| `ScrollWire` | wire protocol and importer | |
| `ChainSpec` | genesis documents, fork schedules, fork ids, spec ids, fee parameters | |
| `ForkTransitions` | pre-block execution, the state hook, chains and peers | EXTENDS `ChainSpec` |
| `BlockExecution` | executor, block and transaction environments, receipts: a builder and an importer | |
| `ProtocolForms` | conversions of transactions and receipts | |
| `RpcForms` | pool transactions, RPC requests and responses | EXTENDS `ProtocolForms` |
| `TxSubmission` | raw transactions: handler, forwarder, sequencer client | |
| `EngineRequests` | attributes, payload ids and jobs, envelopes, local miner | EXTENDS `TxSubmission` |
| `PartialSums` | the sum over the start of a sequence, for gas, fees and sizes | |
| `L1FeeMaintenanceProofs` | theorems about the cache and its task | EXTENDS `L1FeeMaintenance` |
| `PayloadBuilderProofs` | theorems about the meter and the builder | EXTENDS `PayloadBuilder`, `PartialSumsProofs` |
| `ComponentProofs` | theorems about three components that share nothing | EXTENDS `HeaderChain`, `ScrollWire`, `ValidationExecutor` |
| `ForkTransitionsProofs` | theorems about schedules, transitions and peers | EXTENDS `ForkTransitions`, `PartialSumsProofs` |
| `BlockExecutionProofs` | theorems about builder and importer | EXTENDS `BlockExecution`, `PartialSumsProofs` |
| `NodeRequestsProofs` | theorems about submission and Engine requests | EXTENDS `EngineRequests` |
| `RpcFormsProofs` | theorems about all forms | EXTENDS `RpcForms` |
| `PartialSumsProofs` | lemmas on sums and on least elements | EXTENDS `PartialSums` |
| `MC*` | instances for TLC | EXTEND the module they check |

Every module names its source file in its header; operators carry the names of the
functions they translate where TLA+ allows it. Operators named `X_Something` are
plausible wrong versions of `X`; the specifications never use them. `PROJECT.json`
lists for each property the one that violates it.

### L1FeeCache, L1FeeMaintenance

A head stands for a sealed header hash, and a snapshot records its head and the head
whose state its fees were read from, so a wrong state read shows. `epoch` counts head
changes; `cacheEpoch`, `confirmed`, `began` and `served` are history variables that
date the cache's last confirmation, a caller's last head check, the start of its
call, and the newest start among calls that have returned. One action per step of
`refresh_l1_fee_cache_from_latest` between two provider reads: lock, header read,
cached shortcut, exact-state load, second header read, retry or give up, publish.
Any number of callers may refresh, since the method is public.

`L1FeeMaintenance` restricts the callers to the node's one task and adds the
broadcast channel (positions `sent` and `rpos`; a receiver more than `Capacity`
behind gets `Lagged`), the startup order of `build_pool` (subscribe, hydrate, spawn,
drain, reconcile, ready) and the `select!` loop with its retry deadline. A deadline
is represented by the delay it was armed with; time itself is left to the scheduler.

### ValidationExecutor, AdmissionCapacity

Permit counts, the FIFO queue of the worker semaphore, and per request the state of
its future and of its blocking job. The job drops the worker permit before the
in-flight permit. `Cancel` drops the future wherever it is. The refinement mapping
takes as admitted the requests that hold an in-flight permit, and as refused those
whose last answer was `Busy`.

### CodeWitnessMeter, PayloadBuilder

Codes are hashes; `CodeBytes` gives the length of a set of codes and is only assumed
to be additive. A hook records all codes it finds at once. The hooks that run inside
the interpreter stop it when a limit is raised, the others do not, which is why an
over-budget execution may also end normally.

`PayloadBuilder` is one call of `build_payload`: system phase, forced transactions,
pool loop, finalization. `used`, `witness` and `reserves` record what the executions
really loaded, independently of the meter, so the budget property does not trust the
accounting it is about. The EVM decides which codes are loaded, the gas used and
whether a transaction is invalid (which it reports before its first frame). The pool's
iterator is the set of positions of the offered list it has still to yield:
`next` takes the smallest, `mark_invalid` removes those of one sender. `skipped` holds
the positions of the forced transactions the EVM called invalid, since one transaction
may be forced twice; `PlaceOf` says where the others end up in the block.

### HeaderChain

The tip's timestamp, gas limit, gas used and base fee, the overhead slot of its
post-state, and one candidate block, built or from a peer. Rules that allow a single
value (zero nonce, empty extra data, roots, receipts) are one field `defect` that
names the stage refusing the block. The pool's fee is set from the current head, or
kept when the head's state cannot be read.

### ScrollWire

Connections are numbered in the order in which they are opened. Each is polled by the
network; all feed one event queue. The manager belongs to the importer or to an
embedder that also announces blocks. An announcement is a body under a key, the key being
what the signature and the duplicate filter cover: header hash and signature. The importer
marks a key before the engine has seen the body, so one key may come with several bodies
and only the first is submitted; `AuthorizedIsSubmitted` speaks of keys for that reason.

### ChainSpec, ForkTransitions

`ChainSpec` has no state. A genesis document is a record of JSON values as far as the
readers tell them apart (absent, null, a number, a hexadecimal or decimal text, anything
else); `GenesisAccepted` collects the refusals of the readers in `genesis.rs` and of the
validation of the schedule, and `FromCustomGenesis`, `DevSpec` and `BuilderSpec` are the
three ways to a specification. A fork hash is the genesis hash with the set of activations it has
absorbed; reth's fork filter is external.

`ForkTransitions` runs chains of such specifications. Contract code is represented by
where it came from, the two penalty slots by one value. The chain is kept with each
block's state so that reorganizations can return to it; a block whose system call fails
is dropped. `followed` is what a consumer of the state hook derives from the updates. A
peer with another schedule is compared at every pair of heads. The fork that separates
the network is the first one scheduled after Tsuki: TsukiV2 on the built-in networks, but
a custom schedule may put another fork between them (the document `Split`), and
`PeersFollowRules` speaks of whichever comes first.

### BlockExecution

Two executors over the same parent state. The builder is offered transactions in any
order: each is refused, or executed and then discarded or committed
(`execute_transaction_without_commit`, `commit_transaction`). The importer executes
what was committed, with environments made by `from_recovered_tx`, `from_encoded_tx` or
`from_tx_with_compression_info`; for the last, it may be given one compression info
too few or too many. What the EVM does with a transaction (gas used, success, a new
value for the gas oracle) belongs to the transaction, so that an execution is a
function of its inputs; the L1 cost is a constant operator of the encoded bytes,
ratio, size and oracle value. Calldata and encoded bytes are a length and the length
zstd gives them. The builder's block environment comes from `next_evm_env`, the
importer's from the assembled header (`evm_env`) or from the payload
(`evm_env_for_payload`); fees go to the beneficiary of the environment, which is the
fee vault where the chain has one. Without a vault the builder's is the suggested fee
recipient, which the attributes choose freely, and the importer's the zero coinbase of the
assembled header. `ImportAgrees` states what follows: equal receipts and gas, and a state
that is the builder's with the fees of the block moved from the one recipient to the
other, hence the builder's state when the two agree.

### ProtocolForms, RpcForms

One object with its present form, the fields the repository's code treats specially
(type or tag, signature, carried hash, L1 fee) and an opaque body. Each conversion is
an action, decoders that refuse and readers that panic included. Objects enter as
transactions signed here, as bytes from outside with any tag, as JSON from outside with
any tag over the fields of any type and any hash, or as receipts of an execution. A Keccak
hash is the tuple of what is hashed, so equal hashes mean equal contents; `Strange` holds
hashes of something else.

JSON is read by its tag and, when that reading fails, as a legacy transaction whatever the
tag (`JsonType`). The hash it carries is believed. `kept` says whether every form so far
has carried the hash: as long as it holds, the hash is the one that entered, right or
wrong; from the first form without one (network bytes, compact, a typed transaction,
bincode of all but L1 messages) it is the computed one. `IdentityKept` states both.

An asymmetry the model keeps: without a bloom, `ScrollReceipt` decodes a receipt tagged
with type 0 and encodes it again without the tag, while the form with a bloom and
`ScrollReceiptEnvelope` refuse it. `WrittenIsReadable` excepts it from the byte-exact
round trip, which the code's documentation promises for `ScrollReceiptEnvelope` only.

`RpcForms` adds the pool's transaction with its cached encoding, requests, and the
responses for transactions and receipts with their JSON. Every form of a transaction
answers the same questions (nonce, fee cap, tip, gas price, the price paid under a base
fee); those answers are its view, and `PriceShownIsPaid` compares views across forms.

### TxSubmission, EngineRequests

`TxSubmission` is the life of one `eth_sendRawTransaction` call under the handler the
node installs at start: the local pool decides, then the transaction is forwarded, while
the caller waits (`await`) or after it was answered (`spawn`), or not at all (`local`).
What the pool refuses, and whether the sequencer accepts, fails, or accepts with the
answer lost, is left open. A caller that has no answer yet may leave at any await
(`DropCall`), which ends everything its request had still to do, an awaited forward
included; a spawned forward goes on.

`EngineRequests` adds forkchoice updates with attributes, the local miner's own,
payload jobs by id, builder passes over the pool, `getPayload` in each version and
`newPayload` with what was fetched. A digest stands for its input: the sequence of bytes
that is hashed, without tags or lengths, in which a number of some width is that many
bytes and `extra_data` whatever bytes it has. Fields can therefore coincide as they do in
the code. Imported blocks take their transactions out of the pool that
`TxSubmission` fills.

## 3. Runs

All runs finish in less than three minutes on two cores.

| Run | Instance | What it shows |
|---|---|---|
| `fee_cache` | 2 callers, 2 heads, 3 head changes, 1 fault, 2 attempts, 1 validation | the refresh protocol under concurrency |
| `fee_maintenance` | 3 head changes, 2 faults, channel of 1, 3 attempts, backoff 2 then 3, 1 validation, fair | no lost wake-up, retry exactly while unavailable; startup ends and the cache recovers |
| `executor` | 4 requests, 3 in-flight, 2 workers, fair | conservation, queue, refinement of `AdmissionCapacity`; no starvation, abandoned jobs return capacity |
| `payload_builder` | 7 transactions: 2 L1 messages, a forced one, a blob, two of one sender, one with an authorization; 2 codes, budget 3, u64 of 4; several limits; up to two forced, also the same one twice; fair | exact accounting of the meter around budget and saturation; contents of built blocks; every attempt returns |
| `header_chain` | timestamps to 3 with TsukiV2 at 2, gas limits 8 to 11, fees to 7, overheads unset, small and saturating | agreement of builder, import and pool |
| `child_timestamp` | the same | violation: see Findings |
| `scroll_wire` | 2 peers, 3 connections, 3 messages, 4 announcements (two bodies under one key, one key not authorized), LRU of 1, fair | duplicate filter and registration; the importer does not stop |
| `fork_transitions` | mainnet, chikyu and dev in small timestamps, six further accepted documents or builders, ten to be refused; chains of 4 | transitions act once, in order, and reach the hook; rules, contracts and peers follow the accepted schedule |
| `block_execution` | 5 transactions of 2 senders (2 L1 messages, one that moves the oracle, one below the base fee), 7 offers, block gas 7, a chain with a fee vault and two without, one of which suggests a recipient | accounting, restored checks, fees charged as recorded, agreement of the import and its environment |
| `protocol_forms` | 2 bodies, 2 signatures, L1 fees 0, 1 and one above u128, base fees 0 to 3, one foreign type, one wrong hash | identity through any chain of conversions; what is written can be read; the price shown is the price paid |
| `node_requests` | 1 transaction in 2 calls, 2 payload requests of 3 kinds (two of them with one id) and the local miner's, `getPayload` V2 and V3, 2 blocks; forwards fair | truthful answers, payloads as asked for unless hints differ, built blocks import, admitted transactions are forwarded unless the caller leaves |
| `payload_id` | the same with 1 call | violation: see Findings |

**Why the bounds are enough.** Each was chosen so that the case the property is about
happens with room to spare: two callers and three head changes allow a head to move
away and back around a refresh and a second refresh to overtake it; a channel of one
lags with two notifications; three in-flight permits over two workers leave one waiter
and one refused request; a u64 of 4 saturates inside the reachable sums; the budget
can be met exactly and exceeded by one; the fork boundary lies between two reachable
timestamps; an LRU of one evicts with the second key, and three
messages are two bodies of one key and another key in any order; seven
offers of two gas each overrun a block of seven, and one sender's nonce is right only
after its L1 message; two calls with one transaction are the shortest race for the pool,
and two requests the shortest collision of ids, with the second block a child of the
first, where the extra data of one reads like the pool part and gas limit of the other.
Four timestamps separate the activations of every document. `protocol_forms` has no bound
on the number of conversions. A builder's meter has a step allowance of `u64::MAX` and
sees its hooks in the order of executions; other orders, empty codes and the step limit
are covered by `MeterAccounting` and `MeterDecides` only. The mutants
demonstrate it: every property is violated by a plausible change of the code inside
the same bounds. The proofs do not depend on any bound.

**Deadlock.** It is checked in `fee_cache`, `executor`, `header_chain`
and `fork_transitions`. The other systems may stop: a task ends when its channel is
closed, a build attempt returns, an import ends, an object that is refused goes no
further, and a bounded number of messages, calls or requests runs out.

**Fairness.**
* `FairMSpec`: weak fairness of the engine's notification of a head it has set, of
  `build_pool`, and of the task. The runtime polls a woken task, and a due timer wakes
  it. Nothing is assumed of heads, reads or validations; their bounds make them stop.
* `FairSpec` (executor): weak fairness of the FIFO semaphore, of the poll of a granted
  future, and of the blocking job, which ends because the simulation is step-limited.
* `FairBuilderSpec`: the build thread runs and an execution ends (gas).
* `FairWSpec`: the importer task is polled and the engine handle resolves, if only
  with an error when the engine is gone.
* `NodeSpec`: weak fairness of each forward, which is spawned on the runtime or polled
  inside its caller's request for as long as that exists; a request that is dropped takes
  its forward with it. Nothing is assumed of the sequencer's answer, which the client
  awaits without a timeout.

**Findings.** `child_timestamp` shows that the comment on
`predict_next_block_base_fee` ("the earliest timestamp a child can have,
`parent.timestamp + 1`") disagrees with import and the Engine validator, which allow a
child with its parent's timestamp. Only predictions are affected, and only when the
TsukiV2 boundary lies between the two: `PoolFeeFitsChild` holds everywhere else, and is
proved.

`payload_id` shows that the comment on `payload_id_scroll` ("Generates a stable payload
identifier over every DogeOS-specific input") does not hold of the code: the optional
inputs are concatenated without tags or lengths, so a request whose `extra_data` reads
like the pool part and gas limit of another, or whose nonce hint is the other's gas limit,
has the other's id, and is served from its job. `PayloadServesRequest`, which is proved,
says that this takes two requests with different block data hints.

## 4. Proofs

| Theorem | States |
|---|---|
| `TypeCorrect`, `RefreshContract`, `SnapshotsCorrect`, `AdmissionSound`, `PublicationMonotone` | the properties of `fee_cache`, for any heads, callers, validations and attempts |
| `WakeupsKept`, `RetriesTracked`, `NodeAdmissionSound` | the safety properties of `fee_maintenance`, for any channel capacity and backoff |
| `PermitsAlwaysConserved`, `QueueCorrect`, `ExecutorImplementsCapacity` | the safety properties of `executor` and its refinement, for any finite set of requests and limits |
| `MeterAccounting`, `MeterDecides`, `AdmissionErrorsTrue` | types and the meter's properties in `payload_builder`, in any order of calls, for any additive code measure, limits and integer width |
| `BuilderTypeCorrect`, `CodeBudgetKept`, `GasAlwaysFits`, `NoncesAlwaysGapless`, `LimitsKept`, `L1OrderKept`, `ForcedAlwaysKept` | types and all safety properties of `payload_builder`, for any transactions, lists and limits |
| `HeaderTypeCorrect`, `FeeStaysInBand`, `BuilderImports`, `PoolFeeFits` | types and all properties of `header_chain`, for any fee parameters, overheads, limits and fork time |
| `WireTypeCorrect`, `FilterIsLastSubmitted`, `NewestConnectionRegistered` | types and the safety properties of `scroll_wire`, for any peers, filter size and number of connections |
| `HookReproducesState`, `ContractsFollowForks`, `TransitionsActOnce`, `RulesFollowContracts`, `PeersAlwaysFollowRules` | all properties of `fork_transitions`, for any networks and documents |
| `CommittedIsAccountedThm`, `ChecksRestoredThm`, `FeesAreChargedThm`, `ImportAgreesThm` | all properties of `block_execution`, for any transactions, accounts, parent state, chains, recipients and L1 cost |
| `IdentityAlwaysKept`, `WrittenAlwaysReadable`, `ShownPriceIsPaid` | all properties of `protocol_forms`, for any bodies, signatures, fees, foreign types and wrong hashes |
| `AnswerIsTruthfulThm`, `PayloadServesRequestThm`, `BuiltIsImportedThm` | the safety properties of `node_requests`, for any transactions, callers, requests and attributes |

Every safety property that a passing run checks is thus also a theorem. Assumptions are
those the modules declare (named `...Assumption`); TLC evaluates them on every run.
Section 5 says which of them are about the environment.

* **`CacheInv`** (`L1FeeCache`). `ReturnedRefreshIsServed` is not inductive: one has
  to know that only the lock's holder is inside the critical section (`LockInv`), that
  no recorded epoch is in the future (`EpochInv`), that a loaded snapshot is exact and
  is its target's (`LoadedInv`), that what is about to be published was confirmed
  after the call began and no earlier than the cache (`PublishInv`), and that a call
  about to return is covered by the cache (`DoneInv`). `TxInv` and `ValidAffordable`
  carry the same to running validations.
* **`MaintenanceInv`** (`L1FeeMaintenance`) adds that the receiver is never ahead of
  the broadcast nor the broadcast of the chain (`ChannelInv`), that a refresh is in
  progress exactly in the phases that wait for one (`PhaseInv`), and that what the
  cache holds or is about to hold covers everything received (`CoverInv`). The last
  is where "subscribe before hydrate" and "resubscribe before refresh" are used.
* **`ExecutorInv`** (`ValidationExecutor`) adds that a job exists exactly while its
  future awaits it or was dropped (`FutureAndJob`); conservation then follows from
  one lemma on how a single request's step changes the two sets of holders.
* **`MeterInv`** (`CodeWitnessMeter`) is the conjunction of the type, accounting and
  decision properties with the fact that a candidate's own bytes cover what it adds to
  the block, which the admission error needs; the accounting proof rests on the
  additivity of `CodeBytes` over disjoint sets and on saturation absorbing further
  additions.
* **`BuilderInv`** (`PayloadBuilder`) contains `MeterInv`, whose lemmas are reused
  hook by hook, and ties the meter to what really happened: the accepted codes are the
  block's witness without empty codes, the pending ones those of the current execution,
  and an execution the inspector stopped has a raised limit (`WitnessInv`). The budget of
  a returned block then follows from the last acceptance, at finalization.
* **`ChainInv`** (`PayloadBuilder`), for the nonces: whatever precedes an offered
  transaction in its sender's chain is still offered, settled, or being executed, and
  is settled when the later one's turn comes. It needs that the iterator yields in
  order, and that a drop removes the rest of the sender's list.
* **`ContentInv`** (`PayloadBuilder`), for the contents: each forced transaction passed
  so far is skipped or at its place in the block, and nothing else is there until the
  pool's turn (`ForcedInv`); only L2 transactions come from the pool (`OrderInv`); the
  builder's DA count is the sum over the block, and while forced transactions run it is
  at most the sum over those passed, itself at most the total checked up front
  (`DaInv`). A transaction forced twice is why places, not transactions, are counted.
* **`HInv`** (`HeaderChain`) adds to `FeeBand` what a waiting candidate owes to the tip
  it was made for (`CandInv`) and where the pool's fee comes from (`PoolInv`). The
  arithmetic (the gas ramp within the bound that import allows, the clamp) is in lemmas
  on integers.
* **`WInv`** (`ScrollWire`) adds that connections are opened in the order of their
  numbers, that their events are queued in that order without a gap at the end
  (`OrderInv`), and that a registered or failed connection has no event left
  (`RegisteredInv`): an older event can then not overtake a newer registration.
* **`TransitionInv`** (`ForkTransitions`) says that a fork that is active in a block has
  its contract in place from then on (`CanonInv`), that inside a block this holds for
  the transitions already tried (`BlockInv`, `Handled`), and that an owner's setting
  implies that Feynman has acted (`SettingInv`). A transition fires only if its contract
  is not in place, hence only where its fork was not active before, from the second
  block on. `ScheduleFacts` takes from the acceptance of a document that TsukiV2 never
  precedes Tsuki and that no DogeOS fork activates by block number. For the peers,
  `KeysFacts` and `NextFacts` say which times a fork filter absorbs and which it announces
  next; a node's own ids are then accepted at any pair of heads because the two sets of
  passed times are initial parts of one set (`SameNext`, `LastPassed`, `OwnAccepted`), and
  a stranger is refused because the separating time is in one hash and in no hash of the
  other (`StrangerRefused`).
* **`Inv`** (`BlockExecutionProofs`, theorem `ExecutionInv`). What an execution does is a
  function of the block environment, the database and the gas used: not of the EVM
  switches nor of the L1 values an earlier transaction left, nor of the route by which the
  transaction's environment was made (`EvmOutcome`). An executor therefore carries its own
  history: entry `i` of its hook and receipts is the outcome of transaction `i` on entry
  `i - 1` (`BuildInv`). Nonces and balances are then sums along this history (`NonceInv`,
  `FeesInv`), and an importer that agrees so far agrees on the next entry (`ImportInv`):
  its state there
  is the builder's with the fees so far moved to its own recipient (`MovedAt`), which no
  execution reads.
* **`NodeInv`** (`NodeRequestsProofs`, theorem `NodeInvariant`). The stage of a call says
  what it may have been told (`CallInv`); a transaction was admitted once for each time it
  left the pool and once more while it is there (`PoolInv`); a job, and what was fetched
  from it, was started by a request with its id (`RequestInv`, `JobInv`).
  `SameIdSameInputs` reads the hashed bytes back: two attributes with one id and one
  block data hint ask for the same block, since the lengths then tell where the pool part
  ends and whether a gas limit follows.
* **`FormsInv`** (`RpcForms`) has one shape per form, which describes the object by its
  origin alone, with the bytes it was read from (`ReadInv`) and what can have been refused
  (`FaultInv`). `HashInv` is kept apart: where a form has a hash it is the one kept or
  is computed on
  demand, and where it has none the one kept is the computed one. There is one step per
  conversion; the properties follow from the shape of the present form.
* **Sums.** `SumTo` is a recursive function over a prefix. The library's induction rules
  have an operator parameter and cannot be used, so `PartialSumsProofs` shows by a least
  counterexample (`LeastNat`, from the well-foundedness of `<`) that the function exists
  and that a sum grows by its next entry (`SumStep`), from which the bounds and the
  comparisons of two sums follow.

Type invariants are proved and not repeated in the runs; nor are the proved
`SnapshotIsExact`, `QueueIsWaiters` and `AdmissionErrorTruthful`.

Only model-checked is liveness, since the prover has neither fairness nor ENABLED:
`EventuallyCurrent`, `CapacityReturns`, `BuildEnds`, `AuthorizedIsSubmitted` and
`AdmittedIsForwarded`. `ChildAfterPrediction` and `PayloadIdTellsInputs` are violated,
see Findings.

Attempting the proofs corrected two statements that the instances were too small to
refute: `ForcedKept` spoke of transactions instead of positions, which is wrong when one
is forced twice, and `PeersFollowRules` named TsukiV2 where the code separates peers at the
first fork after Tsuki. The instances now contain both cases.

## 5. Assumptions about the environment

* The engine sets a canonical head before it broadcasts its notification, and notifies
  every head it sets.
* Provider reads are atomic and may fail at any time; a state opened by hash belongs to
  that hash.
* Tokio's semaphores serve their waiters in order and a dropped waiter leaves the
  queue; `select!` may take any ready branch; broadcast receivers lag as documented.
* A builder's meter has a step allowance of `u64::MAX`, so steps are counted in
  `CodeWitnessMeter` only. A transaction that executes enters at least one frame. The code
  budget is below `u64::MAX` (`BuilderAssumption`), where the saturating counters stop,
  and empty code has no bytes (`EmptyCodeAssumption`).
* The pool applies the current head only; the inner pool and its iterator are reth's.
  The iterator offers a transaction once, and what is forced is not also offered behind
  another transaction of its sender (`PoolAssumption`).
* A block from a peer has at most one defect besides its timestamp, gas limit and fee.
* A configured gas target is at least `MINIMUM_GAS_LIMIT`.
* Feynman is active from genesis on every network (`TransitionAssumption`), as the
  built-in ones have it; the node refuses no custom genesis for activating it later.
* Activation times and the genesis time are natural numbers, and a fork given by a block
  number is active from genesis (`TimeAssumption`), as in all built-in networks: fork ids
  are compared by timestamp here.
* The accounts and the oracle of the parent state hold natural numbers, the beneficiary is
  no sender (`StateAssumption`), and an L1 cost is a natural number (`CostAssumption`).
* Attributes carry the fields of `ScrollPayloadAttributes` and finitely many callers
  submit (`RequestAssumption`, `CallersAssumption`).
* A transaction body has a nonce, a fee cap and, for the types with two fees, a tip
  (`RpcAssumption`).
* Fee vault, suggested recipient and the zero address are not senders of the block
  (`ChainAssumption`, `StateAssumption`), and no transaction reads the recipient, by
  `COINBASE` or by its balance: what the EVM does belongs to the transaction.
* No wrong hash is the absent one (`FormsAssumption`).
* The EVM reads the gas oracle once per paying transaction, before it executes it, and
  an L1 message pays nothing.
* A caller of the cached route computes its compression infos as the executor would.
* RLP, serde and the compact derive round-trip the fields they are given.
* The LRU set does not promote an entry on lookup.
* The payload service keeps a running job when another request has its id, and ends it
  when its payload is fetched.

**Observations.** Behaviour the models keep, that no document of the repository
contradicts, and that a maintainer may want to know:
* A call whose forward fails leaves its transaction in the local pool; a repeated call is
  refused there as known and is not forwarded. The same holds of a call that is dropped
  between the admission and an awaited forward. No property calls either an error:
  `AnswerIsTruthful` checks what is told, `AdmittedIsForwarded` that nothing else prevents
  the forward.
* An announcement with the header and signature of a block and another body, when it comes
  first, is submitted and marks their key; the genuine block is then dropped as a duplicate
  until the key is evicted.
* Without a fee vault and with a suggested recipient other than zero, an importer's state
  differs from the builder's in who has the fees, so the block does not have the state
  root its header names; the node refuses no such attributes.
* JSON with the tag of another chain over legacy fields is read as a legacy transaction.
  A wrong hash that JSON brings survives memory, pool, responses and, for L1 messages,
  bincode, until a form drops it.
* The builder skips an L1 message that the EVM calls invalid, and a later one then leaves a
  gap in the queue indices that consensus refuses (`BuiltL1Order` excepts such messages).
* The third and fourth `getPayload` envelopes carry a withdrawals list, which the
  node's own validator refuses (`BuiltIsImported` excepts them).
* Of a custom schedule only Tsuki and TsukiV2 are checked for their order.
* The sequencer client has no timeout.

## 6. Not modelled

* EVM semantics, precompiles and the compressor: libraries.
* `witness_state.rs` and the RPC's execution witness: a wrapper that records reads and a
  replay through it; neither changes state.
* The priority-fee suggestion: statistics over recent blocks that change no state.
* The environment of the admission simulation: a pure construction, run with the meter
  that `CodeWitnessMeter` models.
* Storage selection, command-line arguments, the binary and the type-level wiring of the
  node.
* Field layouts of the encodings and signer recovery.
* Reth's engine tree, database, networking and payload jobs: external, represented by
  what this repository expects of them.

`PROJECT.json` gives the reason per component.

## 7. Plan

1. *Done.* All components that change state, with their runs: fee cache and maintenance,
   executor, meter, builder, headers, wire, chain specifications and fork transitions,
   block execution and its environments, protocol and RPC forms, submission and Engine
   requests. Proofs of every safety property that the runs check.
2. *Next, prove.* Weaker assumptions where the proofs allow it (Feynman from genesis, forks
   by block number); that the block execution implements an abstract ledger that applies
   one transaction at a time; that the fee cache implements an abstract register of
   confirmed heads.
3. *Next, model.* Validator, executor and meter composed as the admission path, with the
   simulation's environment; builder, block execution and header chain composed from
   attributes to an imported block; the priority-fee suggestion.
