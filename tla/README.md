# A TLA+ verification of HyperCore

HyperCore (`src/`) is a perpetual and spot exchange that runs as an application
of a blockchain: a matching engine per kind of market, one balance sheet for
the trading side ("core") and the EVM side, a chain application that executes
signed transactions in blocks, several ways to agree on blocks, persistence in
RocksDB, a gateway and an indexer. This directory holds TLA+ models of the
parts that carry its own logic, TLC runs over small instances, and theorems
that TLAPS checks for every value of the constants.

`PROJECT.json` lists the components, the runs, the mutants (a plausible bug per
checked property, each of which the run must notice), the source lines of every
definition, the hazards and the theorems. To repeat a run:
`tlc -config MCSpotEngine.cfg MCSpotEngine`; to repeat the proofs:
`tlapm SpotEngineProofs.tla`.

## Inventory

| Component | State | Operations | What is hard about it |
|---|---|---|---|
| Balance sheet `primitives/unified_state.rs` | per (account, token) total, core view, EVM view | credit, debit, view transfers, transfer | one lock, taken anew for each write, four kinds of writers |
| Spot engine `engine/spot_engine.rs`, `primitives/spot.rs`, `engine/orderbook.rs` | reservations, orders map, order book, account index, ids | deploy_token, place_order, cancel_order, cancel_all_orders, view_transfer | a call is many balance writes, each may fail; the maps lag behind the book; amounts are rounded differently |
| Perp engine `engine/lib.rs`, `matching.rs`, `state.rs` | positions, orders, book, triggers, histories | place_order, cancel, triggers, re-org snapshot | errors after makers were consumed, triggers that trigger triggers |
| Clearing `engine/risk.rs`, `funding.rs`, `liquidation.rs`, `batch_ops.rs`, `primitives/position.rs` | margin, funding index, insurance fund | margin checks, funding, liquidation, ADL | accounts found under water first and closed later; money rounded at every step |
| Mempool `chain/mempool.rs` | transactions by hash, by account and nonce, by arrival | add, remove, prune, get_pending | three indexes, eviction in the middle of add |
| Block producer `chain/block_producer.rs` | incoming queue, collected batches, running block | submit_tx, produce_block, the pipelined collector and executor | threads race; a transaction can be collected twice |
| Chain application `chain/app.rs`, `state.rs`, `tx.rs`, `merkle.rs` | nonces, client order ids, balance tree, app hash | check_tx, execute_tx, end_block, commit, proofs | a transaction of several orders is not atomic; proofs mix live and cached state |
| HyperBFT `chain/hyperbft/` | height, votes, speculation | propose, vote, commit, view timeout | lost, repeated and reordered messages, timeouts, crashes |
| CometBFT application `chain/cometbft/` | height, app hash, pending write, snapshots | the ABCI calls, handshake, state sync | replay after a crash at any step, failed writes |
| Attestation `chain/attestation*.rs`, `divergence_handler.rs` | attestations by height, own hashes, halt flag | record, collect, gossip, halt | four tasks, bounded channels, late and early attestations |
| Persistence `persistence/`, `chain/persistence_integration.rs` | column families of RocksDB, snapshots | extract, persist, load, restore, snapshots | crash between steps, entries that are not cleared, text conversions |
| EVM `evm/` | accounts, storage | transactions, simulations, precompiles, JSON-RPC | balances read before and written after |
| Gateway `gateway/` | rate limits, connections, subscriptions | HTTP and WebSocket handlers, routing, info queries | retries, slow clients, requests that bypass the blocks |
| Indexer `indexer/` | SQL tables, candles | follow blocks, write rows and candles | the process dies between two statements |
| Node `node/main.rs` | wiring | genesis, start, post-commit handler | two modes with their own code |
| Contracts, SDKs, front end, scripts | external | – | not core logic |

How they interact. The node builds one `UnifiedState` and gives it to the spot
engine, the perp engine, the EVM state and the chain application, each of which
locks it for single reads and writes. The spot engine sits behind a lock of its
own, which a call holds from start to end. Under CometBFT the gateway broadcasts
a transaction and every validator executes the decided blocks through the ABCI
calls, persists at Commit and makes snapshots from the database. On a single
node the gateway executes a transaction directly on the application
(`handlers.rs:1046`) or, for a spot request, on the spot engine, between the
blocks; its binary endpoint does so in every mode (`handlers.rs:142`). The block
producer drains its queue into the mempool, fills a block, executes it under the
application's write lock, clears the pool and calls a post-commit handler, which
writes the state except the perp engine to the database (`main.rs:741`), attests
the block and hands its events to the WebSocket feed. `submit_tx`, which fills
that queue, is what the producer offers; no start-up wires a caller to it. The
indexer polls blocks and their events. HyperBFT drives a block producer per
validator over a message channel; it is not wired into `main.rs` yet.

What makes each part correct:

* balance sheet: `total = core_view + evm_view` in every entry at all times, no
  negative view as long as requests are positive;
* spot engine: reservations match the open orders and stay within the core
  view, the book is never crossed, fills follow price-time priority, trades
  create and destroy no base tokens;
* perp engine: longs and shorts balance and the open interest is their size,
  every order in the book can be found, fills never exceed an order, no trigger
  order is overlooked, every call returns;
* clearing: funding is paid once an interval, the end of a block only reduces
  positions, and block after block what is under water is closed;
* mempool and block production: the indexes name live transactions, a
  transaction takes effect at most once, what is accepted is included or
  evicted, what a block committed and the handler writes is durable;
* HyperBFT: a decision has a quorum, two decisions of one height take double
  votes, what is proposed is committed;
* chain application: client order ids lead to the right order, proofs show
  committed balances, the app hash commits to the state;
* validator: after a crash a node has applied every block once, unless the
  restart lost something; its database is an atomic store, a synced node has the
  orders and balances of one block;
* attestation: a node in the minority notices, one in the majority runs, and
  attesting never stops block production;
* submission: replicas that did nothing on their own agree, a signed request
  that has succeeded takes no further effect;
* feed and indexer: a subscriber sees an unbroken run of events, candles count
  a trade at most once.

## Modules

| Module | Models | Notes |
|---|---|---|
| `UnifiedState` | the balance sheet | operators; each is one critical section of the sheet's lock |
| `OrderBook` | the order book both engines match against | operators |
| `SpotEngine`, `MCSpotEngine` | the spot engine and the other writers of the sheet | extends `UnifiedState`, `OrderBook` |
| `PerpEngine`, `MCPerpEngine` | orders, matching, fills, positions and trigger orders of a perp market | extends `OrderBook` |
| `EngineTables` | the tables of the perp engine's state: orders by account, triggers and their index, histories, re-org snapshot | operators, checked in `MCPerpEngine` |
| `InfoApi` | the gateway's answers about books, orders, fills, candles | operators, checked in `MCPerpEngine` |
| `Clearing`, `MCClearing` | margin, funding, liquidation, insurance fund and ADL on several markets | |
| `RiskMath` | formulas of positions, margin, batches and funding | operators, checked in `MCClearing` |
| `Mempool` | the transaction pool | `MempoolSpec` is the pool alone |
| `BlockProducer`, `MCBlockProducer` | gateway threads, both block producers, nonces, persistence and restart | extends `Mempool`; two runs |
| `Bootstrap` | genesis in both modes, default markets, funding and price tasks | operators, checked in `MCBlockProducer` |
| `HyperBft` | HyperBFT validators and their messages | runs use it directly |
| `Merkle` | trees, proofs and their verification | operators |
| `ChainApp`, `MCChainApp` | execution of transactions over both engines, client order ids, balance proofs | extends `Merkle` |
| `AppHash` | what the app hash and the EVM state root commit to | extends `Merkle`; operators, checked in `MCChainApp` |
| `StateStore` | abstract specification: a store that holds one block's complete state | refined by `ValidatorNode` |
| `Persister` | the database: persist_state and load_state | |
| `ValidatorNode`, `MCValidatorNode` | a validator under CometBFT with crashes, replay, snapshots and a node that syncs | extends `Persister` |
| `StateCodec` | what each part of the state becomes when written and read back | operators, checked in `MCValidatorNode` |
| `Attestation` | producer, gossip loop, forwarder and alert handler of a node | runs use it directly |
| `NodeEvents` | the committed blocks and their events | |
| `WsFeed` | from the post-commit handler to a WebSocket client | extends `NodeEvents` |
| `Indexer` | the indexing loop and its tables | extends `NodeEvents` |
| `Feed`, `MCFeed` | feed and indexer side by side over one node | composes `WsFeed` and `Indexer` |
| `Evm` | transactions, gas and simulations of the EVM executor | operators |
| `Submission`, `MCSubmission` | gateway, EVM RPC and CometBFT admission on several validators | extends `Evm`; two runs |
| `Gateway` | validation, conversion, routing, batches, order statuses | operators, checked in `MCSubmission` |
| `RateLimit` | quotas, client addresses, eviction | operators, checked in `MCSubmission` |
| `Precompiles` | the read precompiles | operators, checked in `MCSubmission` |
| `SumTheorems` | sums over finite sets and sequences, induction | used by the proofs |
| `SpotEngineProofs`, `PerpEngineProofs`, `AttestationProofs`, `SubmissionProofs` | theorems about the module of that name | |
| `BlockProofs` | theorems about `BlockProducer`, `Mempool` and `Clearing` | |
| `ChainProofs` | theorems about `HyperBft`, `ChainApp` and `Merkle` | |
| `NodeProofs` | theorems about `ValidatorNode` and `Feed` | |

A definition named like `X_Word` next to a definition `X` with the comment
"Mutant" is a deliberately wrong version of `X`. No specification uses it.

### UnifiedState and SpotEngine

The sheet is a function from the keys that have an entry, since a debit of a
missing entry fails while a credit creates it. Amounts are raw integers at the
token's own scale, so `Decimal` products and conversions are integer divisions
that cut off towards zero (`Truncated` in `Notional`, `ToUsdc`, the fees and the
size that the lot check compares, `size_normalized`); scales are constants.

A price or an amount of a request may be negative or zero: `Decimal` reads a
sign (`decimal.rs:101`), `validate_price` asks for the tick only
(`spot.rs:260`), and the binary endpoint and a transaction sent to CometBFT
directly do not pass the gateway's `validation.rs`. A size has to be a lot at
least. `Counted` keeps how many requests the gateway would have refused
(`unchecked`).

`place_order` and `cancel_all_orders` hold the engine lock, so at most one such
call is in progress and `pc` says where it stands: `match` (one iteration of
the matching loop per `MatchMaker`), `SyncMakers` (writing the matched makers
back to the orders map and the account index), then for every fill
`buyer_pays`, `buyer_receives`, `seller_pays`, `seller_receives` (the four
balance writes of `apply_fill`, each of which takes the sheet's lock), then
`finish` (rest, or drop and release). A balance write that fails ends the call
as the code's `?` does and leaves what was done before it. The other users of
the sheet (`usd_transfer`, `withdraw`, `evm_action`, `set_balance`,
`perp_settle`) are enabled between any two of these steps; `MaxDisturbances`
bounds how many of them run and how many requests are unchecked, `MaxEvents`
these and the orders together. The properties of an engine that is alone are
stated for the `Undisturbed` one: nobody else has written the sheet, and every
request was positive.

A token is deployed at set-up and in genesis only (`main.rs:1329`, gateway
`main.rs:224`, `app.rs:163`), so allocations are natural numbers. All requests
of a market are taken to have the scale that a transaction gives them
(`tx.rs:431`); the single node's JSON handler reads a spot size at the token's
own decimals instead (`handlers.rs:1400`), and a market with orders of both
scales is not modelled.

Left out: market statistics, events, the always-true `is_active`, several
genesis allocations to one recipient, and snapshot/restore of the engine.
`view_transfer` reads and writes the sheet in two critical sections; it is one
action here because nothing but the core view can change between the two, and
the second one checks the core view again.

### PerpEngine

One market. `orders` is the map that queries, cancellations and the orders root
of the AppHash use; `book` is the one the matching uses and the database keeps.
The code updates them at different moments, and so do the actions: `MatchMaker`
is one turn of `match_against_asks`/`match_against_bids` and touches the book
only, `EndMatching` is `handle_unfilled` and the synchronisation of the makers,
`apply_fill` is one fill (positions, open interest, mark price, cancellation of
the trigger orders of an account that has become flat), `FinishOrder` puts the
remainder into the maps and, after a trade, lets `check_triggers` take the
trigger orders that the mark price meets.

`check_triggers` places what it has taken with `place_order`, whose fills lead
to further sweeps. `frames` is the stack of these calls, the innermost first;
`place_triggered` is one turn of the loop of the innermost one. Everything runs
under the engine's lock, so the other operations wait until it is `Free`.

Money is abstracted: a margin check may go either way for any order that is not
reduce-only (`Refuse`), and any account with a position may be liquidated, with
any ADL reductions. This allows more behaviours than the code has, so an
invariant that holds here holds with the checks in place. Prices and sizes are
raw integers, prices of any sign (`market.rs:138` asks for the tick only), and
the smoothing of the mark price truncates as `Decimal` does. A mark price of
zero is taken for none, and the sweep is skipped. `Restart` is the extraction
after a block followed by the restore: orders come back from the book, accounts
and trigger orders do not come back. The bound `MaxOrders` on ids leaves one id
for each stored trigger order, so that a bound never stops a cascade half way
and deadlock can be checked.

Left out: paused markets (nothing pauses one), client order ids, fill and
funding histories, a trigger price without a direction, which no transaction
can carry (`tx.rs:436`), and the second market.

### Mempool and BlockProducer

A transaction is a hash with a sender and a nonce; two transactions of an
account may share a nonce. `by_time` is the order of arrival: its keys are
instants of a monotonic clock, and a signature is recovered between two reads.
`add` contains the refusals, the eviction loop and the nonce check in the order
of the code. `get_pending` is the set of sequences the iteration over a
`HashMap` can produce.

`BlockProducer` has the gateway threads (`check_tx`, then `push`), a collector
(`StartCollect`, `DrainOne` with the pool's lock held, `Collect`, `Send`) and an
executor (`BeginBlock`, `ExecuteNext`, `Commit`, `ClearNext`, `FinishBlock`).
Where `pipelined`, an initial choice, they are two tasks and a bounded channel;
otherwise the loop of `BlockProducer`, in which collecting waits until the last
block is finished. What a transaction does is abstracted to how often it was
executed; whether its action succeeds is a free choice, since a failed action
uses no nonce. `ExecuteDirect` is a request that the single node's gateway
executes on the application between two blocks; `outside` counts those since the
last write. `FinishBlock` contains the post-commit handler, which is not given
the perp engine (`Perp`: the transactions whose effects stay in it) and whose
database write may fail. While a request or the price task holds an engine's
lock, `extract_state` panics instead (`persistence_integration.rs:139`, `199`)
and with it the task that produces blocks: the executor is `"dead"` until the
next start. `Restart` stands for a crash at any moment and the start that
follows: the executed state is what the database holds, the nonces are empty.
The halt flag and the attestation of a block are in `Attestation`; `stop` is
left out.

### HyperBft

One record of variables per validator, and `messages`, the set of all messages
sent. A validator may receive any of them, in any order, again, or never. All
validators are correct; `Crash` stops one for good and also stands for
`shutdown` and for a closed channel. `CountVote` is `add_vote` with the
`commit_block` that follows a quorum. The block hash is a function of all
fields, so a block stands for its hash. `decided` records what each validator
committed; the code keeps the height only. `executed` counts the blocks that a
leader has run through its block producer, which happens when it proposes.

### Clearing and RiskMath

`Clearing` has the money of the perpetuals on several markets: `core` is the
sheet, `balance` the engine's copy of it, which only `place_order` brings up to
date. Orders rest and are taken whole, since partial matching is `PerpEngine`'s.
The end of a block is a chain of steps under the engine's lock (`pc`): settle
funding market by market (`todo`), find the accounts under water
(`find_underwater_accounts`: a batch check per position, then a confirmation),
cut their positions one by one (`queue`), and for each deficit deleverage
candidates (`adl`). The steps are separate because each reads what the one
before has changed; no request comes in between. `adl.done` are the accounts
that the current deleveraging has cut: one of them may be the account whose own
close follows with the size that was computed before (`ClosedTwice`). Amounts
are integers in their smallest unit and every division cuts off, as `Decimal`
does. `held` is a history variable, the positions open since the last
settlement. Maker and taker pay the same fee rate, and there is no rebate.

`RiskMath` has the formulas that `Clearing` does not step through: fill PnL,
liquidation price, margin summary, the batch variants, premium, funding times.
`MCClearing` compares each with a definition of what it should be over bounded
inputs.

### ChainApp, Merkle and AppHash

A transaction is executed order by order (`tx` is the one in progress), and
fails between two of them at an order that cannot be read, or at an engine lock
that a hundred tries do not get; what it has done stays. The engines are seen
through what they answer: refused, or accepted with some makers filled, resting
or not. A spot order that is accepted and keeps a remainder gets its name even
if the remainder was dropped (`app.rs:379`), a perp order only if it rests
(`named`). `cloid_to_oid` and `oid_to_cloid` are changed exactly where the code
changes them, which is not always both. `end_block` caches the tree of the
balance sheet; `prove_balance` takes the position of the account from the live
sheet and the path from the cached tree. `placed` and `confirmed` are history.

Hashes are collision-free: a hash is the tuple of what was hashed, marked as an
entry or a pair (the code hashes 72 bytes of an entry and 64 of a pair, so the
two do not coincide either). `AppHash` is
`compute_app_hash` with every root, over the whole state as a record.

### ValidatorNode, Persister, StateStore and StateCodec

`ValidatorNode` runs the ABCI handlers with the database and the snapshot files
in the order of the code: `finalize_block` (with the guard against a repeated
block), `commit` (persist, which may fail and is only logged, then a snapshot
made from the database, then the clean-up of old ones, file by file), the
handshake after a restart, and a second node that fetches chunks. `Crash` may
come at any of these points. A block places or cancels an order, so that a block
executed twice or not at all shows; it arms a trigger, or moves the mark price,
which makes orders of the triggers; it sets a funding value; it creates or
destroys a contract. `Chains` bounds which blocks follow each other.

A restart is not the identity. `triggers` stand for everything that only the
process knows and later blocks depend on: trigger orders, timestamp nonces, spot
reservations, margin modes. A funding value (`market`) of more than eight
decimals makes every start panic (`Unreadable`), one of fewer comes back with
another raw value (`"moved"`, which also stands for an orders map that is
rebuilt from a book that differs), and the entries of a destroyed contract are
still in the database, whose EVM column families are never cleared. `lost`
records whether a restart came at a height where there was any of it. `agrees`
says whether the app hash is still that of the chain; CometBFT sends no block to
a node whose hash is not. A state sync restores orders and balances, but no
nonces, client order ids or EVM state (`cometbft/app.rs:1019`), which `Synced`
says field by field.

`StateStore` is the abstract specification: the database holds nothing or the
complete state that the execution of one block has left, and only a later
block's state replaces it. `StoreRefined` instantiates it with the mapping
`StoredState` (what the database would give back) and `executed`, the states
after the blocks this node has executed, leaving out the EVM families, for which
it does not hold. `StateCodec` is the detail under it: for each part of the
state, what is written as which text, and what reading it back yields.

### Attestation

Four tasks joined by bounded channels: the producer (executes, records its own
hash, stores its own attestation, checks, broadcasts), the gossip loop, the
forwarder and the alert handler. `CheckDivergence` reads votes and own hash
anew, after the lock of the store was given back, as the code does, and the
forwarder looks at the age of an attestation (`ForwarderAge`) and stores it
under two locks, between which the producer may record a hash; the alert is sent
by the task that checked, and waits if the channel is full. Which validators
compute a wrong hash from which height on is an initial choice. Each validator
has one unit of power; the threshold is 67 of 100. Signatures hold, and every
sender is a registered validator: the refusal of unknown ones is left out.

### WsFeed, Indexer and Feed

`WsFeed` has three buffers that are full in three ways: `try_send` on the event
channel gives up the whole block, broadcast channels overwrite what a slow
receiver has not read, the client's channel makes senders wait. Forwarders,
subscriptions and the connection's reader are tasks of their own. `Indexer`
writes a row per block, then each event and candle with a statement of its own;
a statement may fail and the process may die between any two; the row of a block
may fail for ever, and the indexer then never gets past it. An event that does
not parse (`main.rs:610`) is passed over by both. `Feed` runs both on the same
node.

The indexer of the model reads the node's blocks. The binary that is built today
reads an engine state of its own, which stays empty (`indexer/main.rs:57`), and
its row of a block cannot be inserted at all: a number is bound to a timestamp
column (`db.rs:59`), and every block without a hash gets the same one in a
unique column (`ingest.rs:68`). So no property says that every block is indexed;
what is counted is counted at most once.

### Submission, Evm and Gateway

`Submission` follows a request on all its ways: JSON exchange endpoints, binary
endpoint, EVM JSON-RPC; directly executed (single node) or broadcast and
executed by every validator. A client sends a request as often as it likes, so a
lost answer and a retry need no action of their own. The binary endpoint
executes on the node that got the request, under CometBFT too, and there on an
application of its own: the gateway's, which shares sheet and engines with the
chain's and not the nonces (`main.rs:893`; `Apps`). `Tx` is the transaction that
the gateway makes of a request; of the fields that a signature covers only the
kind matters, because a spot cancel becomes a transaction whose sender recovers
to an address nobody owns (`sender`).

A request for orders has two. An order may be unreadable, and the lock of its
engine may not be got in a hundred tries, on this validator only (`Stops` says
how many orders got theirs, `Reached` where the transaction ends). A transaction
that fails half way keeps what its earlier orders did and uses no nonce. `apart`
records which validators have executed something on their own, or missed a lock.

`Evm` has `EnsureSender` (the faucet), gas, the write-back of balances, and the
simulations that must not leave anything behind. revm debits the gas limit at
the transaction's price as far as there is money, pays back what is not used and
pays the coinbase above the base fee; the base fee is burnt (`executor.rs:363`).
A contract that destroys itself in its constructor pays its heir, but the sheet
keeps its balance (`executor.rs:171`). On a single node the balances are loaded
(`EvmRun`) and written back (`EvmWrite`) in two steps, with other requests in
between; in a block nothing comes in between. The node's own gas fees, which no
start-up enables, are left out, and so are the block number and time that the
executor takes from the node itself (`executor.rs:544`), which contracts could
read.

`Gateway`, `RateLimit`, `Precompiles`, `InfoApi`, `EngineTables` and `Bootstrap`
are operators only: those parts have no interleaving of their own that the
state machines do not have, and are checked on bounded inputs by the named
assumptions of the MC modules.

## Runs

All bounds are constants named in the modules. Ten runs pass; `producer_nonce`
and `submission_replicas` are expected to find a violation of what the
repository says.

| Run | Instance | What it shows |
|---|---|---|
| `spot` | 2 accounts, 1 token, 4 orders or 3 and 1 disturbance, 2 sizes, prices 2, 3 and -2, amounts 3 and -1, lots of 2, scales and fees that round | whoever writes and wherever a call fails: `ViewsAddUp`, `BookNotCrossed`, `AsksReserved`, `FillsInPriority`; while requests are positive: `NothingNegative`; in an undisturbed engine: `ReservedWithinCore`, `SellerDelivers`, `BaseNotMinted` |
| `perp` | 2 accounts, 6 ids, 3 plain and 3 stop requests at prices 100, 200 and -90, 1 liquidation, restarts | `PositionConsistency`, `BookIsListed`, `NoOverfill`, `TriggersSwept`, `CascadeEnds` |
| `clearing` | 3 accounts with 500, 500 and 125, 2 markets, 3 requests of which one far from the mark price, 2 trades, 1 settlement, 1 change of leverage or mode | `FundingIndexCurrent`, `ClearingShrinks`, `ClearingConverges` |
| `producer` | 5 transactions of 2 accounts, one of them of the perp engine, pool of 2, blocks of 1, channel of 1, 2 submissions, 1 restart; either producer | `NoDanglingIndex`, `DurableBetweenBlocks`, `TimestampOnce`, `IndexedIsTaken` |
| `producer_nonce` | the same without a restart | violated: `NonceUsedOnce` |
| `hyperbft` | 3 validators, f = 1, 1 height, 1 timeout, 1 crash | `ForksTakeDoubleVotes`, `ProposedIsCommitted` |
| `validator` | 1 key, every chain of 2 blocks and some of 3, a snapshot each block, 1 kept, 2 chunks, 1 failed write, 1 crash | `StoreRefined`, `CatchesUp`, `SyncedIsWhole`, `SameAsChain` |
| `chain_app` | 3 accounts of which 2 in genesis, 1 client order id, 3 orders, 3 transactions, 1 transfer, 1 restart | `CloidEntriesTrue`, `StillFindable`, `ProofsSound` |
| `attestation` | 4 validators, the node and one other may diverge, one other is a block ahead, channels of 1, 1 block, 1 halt cleared | `MajorityNotHalted`, `MinorityHalts`, `EveryBlockIsSent` |
| `feed` | 2 blocks, each empty, an unparsed event and a fill, or a liquidation; all channels of 1; 1 fault besides failing block rows | `NoGap`, `FeedFollowsChain`, `CandlesTrue` |
| `submission` | 2 validators, 2 accounts, 1 nonce, 2 requests with gas price 2 in the EVM, 2 blocks of up to 2, 1 simulation; either router | `ReplicasAgree`, `AppliedOnce` |
| `submission_replicas` | the same with gas price 0 and no simulation | violated: `ReplicasIdentical` |

Why the bounds are enough to be interesting. Three orders are a maker, a taker
that fills it in part, and one that meets the rest; four orders add a second
maker behind the first one. Two prices give fills better than the limit, and the
negative one a fill that pays the buyer. One disturbance, a write by another
user of the sheet or a request that the gateway would have refused, is enough to
invalidate each single check the engine has made. In `perp` the requests include
a post-only and a fill-or-kill order that fail after fills, orders that meet the
account's own, and stop orders on both sides whose trigger prices one trade
moves the mark past, so that one triggered order triggers the next; a trade at
-90 takes the mark price from 10 through zero. Six ids are two makers, a taker
and three triggered orders, or a stop, its trigger and four others. In
`clearing` the third account is poor enough that a trade away from the mark
price puts it under water, the trade at ten times the mark price leaves it so
deep below zero that it is deleveraged before its own position is closed, two
blocks of partial liquidation empty the insurance fund, and the deleveraged
account may itself be in the queue. In `producer` the pool is small enough that
eviction happens on almost every path; the transactions include two with the
same nonce and timestamp nonces on both sides of each other, and a clock of two
ticks with an "hour" of two lets one be too old, current or ahead. In `hyperbft`
one timeout is enough for two proposals of one height, and three votes of three
validators for a double vote to matter. The chains of `validator` have every
block follow every other; the third block is where a crash replays two blocks
after a failed write, or where a trigger that was lost would have mattered.
Keeping one snapshot means that a fetch always races a clean-up. In `chain_app`
two orders of one account can share the client order id, and the third account
enters the sheet between the other two, so that an index into the live sheet and
the cached tree differ. Four validators are the fewest for which one dissenter
does not break the quorum of 0.67; channels of one fill at the first message,
and one block is enough for each to be full once. In `feed` the second block
overwrites what a slow subscriber has not read. In `submission` a repeated
nonce, a second order that cannot be read and a lock that is missed on one of
two validators need no more than two requests; the gas price is above the base
fee, so that some is burnt and some paid.

Deadlock is checked in `perp`, `clearing` and `chain_app`, where a call in
progress must always be able to go on; elsewhere it is not, since with bounded
inputs those models come to rest.

Fairness. `producer`: the interval timer fires and collector, executor and
submitting threads run, which the tokio scheduler provides. `hyperbft`: a
validator that has not crashed keeps running and messages it has not handled
keep arriving, over a transport that delivers to the sender as well, since
otherwise the leader does not vote; progress is claimed as long as no view has
timed out and 2f+1 validators, here all three, are alive, and for the first
height, as a message for a later height that arrives early is dropped and a
stalled validator then depends on being sent it again. `clearing`: blocks go on
being produced. `validator`: the process runs and is started again after a
crash, and CometBFT goes on calling it; whether it comes back is left open once
a restart has lost something. `attestation`: each task is scheduled, and the
publishing branch of the gossip loop's `select!`, which picks at random among
its ready branches, is strongly fair. The other runs check no liveness and
assume no fairness.

### Operators against their references

Operator modules are checked by named assumptions that TLC evaluates over
bounded inputs at the start of the run of the MC module. Some say what holds,
others pin down where the code departs from what one would expect.

* `MCChainApp` over `AppHash`: equal hashes mean equal committed parts and the
  parts that count change the hash (`HashIsCommitment`), which parts do not
  (`LeftOut`), nonce proofs (`NonceProofs`).
* `MCValidatorNode` over `StateCodec`: `RestartKeeps`, `FundingRateOnRestart`,
  `SpotOnRestart`, `WrittenIsCritical`.
* `MCClearing` over `RiskMath`: `FillPnlAgrees`, `LiquidationPriceSharp`,
  `SummaryConsistent`, `BatchIsClose`, `BatchesAgree`, `FundingOnce`,
  `MarketDataAgrees`, `LeverageAboveMaintenance`.
* `MCPerpEngine` over `EngineTables` and `InfoApi`: `TablesAgree`,
  `UnknownMarketIsListed`, `SweepTakesCrossed`, `CancelTakesAll`,
  `ReorgRestores`, `ReorgReorders`, `LevelsAddUp`, `ImpactOutsideSpread`,
  `OpenOrdersRest`, `CandleRunsBackwards`, `FillsShown`, `CoinNames`.
* `MCSubmission` over `Gateway` (`ValidatedIsReadable`, `ValidatedIsBounded`,
  `AmountsAreNot`, `ReasonsAreMet`, `CapitalsGuess`, `SignedFields`,
  `BatchIsSequence`, `NothingExecutesLocally`, `StatusesPerOrder`), `RateLimit`
  (`BurstBounds`, `RefusedIsCounted`, `PerAddress`, `EvictionForgives`,
  `AddressOrder`) and `Precompiles` (`SpotNeverAnswers`, `BookAnswerIsWhole`,
  `NegativesWrap`, `AbsentIsZero`).
* `MCBlockProducer` over `Bootstrap`: `GenesisAgrees`, `GenesisDisagrees`,
  `MalformedGenesis`, `TokensByPosition`, `OwnGenesis`, `NothingTwice`,
  `ShownFundingIsZero`.

## Where the code and its comments or the reader's expectation differ

The models show these; the properties are stated so that they say what remains
true.

Trading engines:

* when another writer has moved the seller's tokens out of the core view, the
  seller's debit fails after the buyer was credited, and the credit stays
  (`spot_engine.rs:996`); `BaseNotMinted` is stated for the undisturbed engine;
* prices, transfer amounts and withdrawals may be negative where a request does
  not pass the gateway's validation (`decimal.rs:101`): reservations and views
  may then become negative, a fill pays the buyer, a mark price may become zero,
  for which triggers are not swept; `NothingNegative`, the properties of the
  undisturbed engine and `TriggersSwept` say what remains;
* a sequential nonce ahead of the expected one is accepted, and raises the
  expected one by one only, so that the same transaction is accepted again
  (`chain/state.rs:359`), against invariant I6 of `docs/SECURITY.md` ("Each
  nonce used at most once per account"), which run `producer_nonce` refutes; the
  theorem `SequentialNoncesBounded` states what remains true;
* a liquidation closes a position against nobody and leaves the open interest
  as it was (`engine/lib.rs:919`), against invariant I4 of `docs/SECURITY.md`;
  `PositionConsistency` holds up to the first liquidation only, and says nothing
  about what comes after;
* a reduce-only order is checked for its side and not for its size, and may turn
  the position over (`engine/lib.rs:555`); a post-only perp order is refused
  only if it is filled in part, and trades as a taker if it is filled completely
  (`matching.rs:271`); a failed post-only or fill-or-kill order keeps the makers
  it consumed (`matching.rs:276`);
* trigger orders that one sweep has taken are placed although an earlier one has
  closed the position they belonged to (`engine/lib.rs:588`); anyone may cancel
  a trigger order (`app.rs:979`);
* trigger orders, margin modes and the account map are not persisted: after a
  restart stop orders are gone, and accounts that have not traded since are not
  looked at for liquidation (`persistence_integration.rs:573`);
* a buy filled at a better price than its limit leaves the difference reserved
  for good (`spot_engine.rs:762`), and the taker fee, which was never reserved,
  is released out of the reservation of other bids (`:976`);
* transfers, withdrawals and EVM actions of the chain application check the core
  view and not what is reserved in it (`app.rs:1025`, `1049`, `1133`); this is
  why `ReservedWithinCore` is stated for the undisturbed engine;
* a post-only spot order that crosses is matched (`spot_engine.rs:628`);
* the taker fee is credited to nobody and the rebate paid by nobody (`:981`), so
  only base tokens have a conservation property;
* a second transaction with the nonce of a pending one displaces it from the
  account index and leaves it in the pool (`mempool.rs:127`), which is one way
  an acknowledged transaction is never selected; a refusal by `add` while
  draining is the other (`:387`);
* the last timestamp nonces are not persisted, so after a restart of a single
  node a timestamp nonce is accepted a second time (`node/main.rs:434`); this is
  why `TimestampOnce` is stated up to the first restart;
* the post-commit handler writes the state without perp orders and positions
  (`node/main.rs:741`), and what the gateway executes after a block waits for
  the next one; a lock of an engine that is held at that moment ends block
  production with a panic (`persistence_integration.rs:139`);
  `DurableBetweenBlocks` and `IndexedIsTaken` say what remains;
* a view timeout of HyperBFT rolls nothing back on the leader, which has
  executed its proposal (`runner.rs:194`), and neither the height nor the leader
  changes (`:153`), so a leader that crashed before proposing stops its height;
* what is persisted of the perp orders is the book, what is hashed is the orders
  map; the two differ after a self-trade or a failed post-only order
  (`matching.rs:149`, `lib.rs:204`), so a restart changes the orders root
  (`persistence_integration.rs:117`), against `MULTINODE_DEBUG.md:136`;
* after a view timeout two proposals of one height can both be committed
  (`runner.rs:242`), against the quorum argument of `runner.rs:5` and
  `voter.rs:11`; `ForksTakeDoubleVotes` states what remains.

Clearing:

* realized PnL is never credited to the unified balance, the result of the
  funding debit is ignored, and the engine's balance is only synchronised by
  `place_order`; the index price stays the initial price;
* a new position starts with funding index 0 and pays what accrued before it;
* a deficit is used as a notional when candidates for deleveraging are cut;
  candidates may be on either side and include the bankrupt account, and one
  that is deleveraged before its own close is closed with the size computed
  before: its position may turn round, which `ClearingShrinks` bounds by that
  size;
* cross accounts are only looked at when one of their positions fails the
  isolated batch check (against `risk.rs:151`); the batch compares with `<`, the
  confirmation with `<=`; ties follow the order of a `HashMap` (against
  `lib.rs:863`);
* positions below `PartialDen` units are never cut, which `ClearingConverges`
  exempts; `initial_margin_factor`, `liquidation_fee_rate` and `max_open_orders`
  are never used.

Chain application and app hash:

* the spot engine, triggers, margin modes and the kind, time in force and
  reduce-only flag of an order are not committed to (against `state.rs:416`);
* spot order ids start again after a restart, so that an old client order id may
  name another order; triggers' ids are registered though no book has them;
  `spot_cancel_all`, self-trades and sweeps leave entries; reusing an id drops
  the newer entry; the clean-up of spot makers is skipped when a lock is taken;
* a failed transaction keeps the effects of its earlier orders and uses no
  nonce, so that they take effect again when it is sent again (`app.rs:366`),
  which `AppliedOnce` excepts; a failed cancel succeeds and uses one; a
  contended lock fails a transaction on one validator only (`app.rs:28`),
  against "all validators will produce identical results" (`app.rs:268`): run
  `submission_replicas`;
* a state re-org snapshot leaves out the perp engine and `oid_to_cloid`.

Validator and persistence:

* funding rate and accumulator have ten decimals, are written trimmed and read
  with eight: more than eight places panic at every restart, fewer come back as
  another raw value, with another app hash (`persistence_integration.rs:598`);
* spot orders are stored under market 255 and read as market 127, in no book;
  spot reservations and counters, timestamp nonces, trade ids, triggers, margin
  modes and EVM block hashes do not come back, and a restored spot market has
  other size limits;
* EVM entries are never deleted; a failed write is only logged; the label of a
  snapshot may be above the height of its state; a clean-up removes `.json`
  before `.meta`; a synced node has neither nonces, client order ids nor EVM
  state, and persists nothing before its next Commit;
* `info` recomputes the app hash with the app hash folded in, so that a mismatch
  is always logged; client order ids are hashed and not "critical".

Attestation:

* the node registers only its own validator, so that on a real network the
  others' attestations are refused; with threshold 0.67 three equal validators
  need all three votes; an attestation from the future purges older ones; the
  handler of `create_attestation_system` has a history of its own.

Feed and indexer:

* a subscription that lagged dies silently and cannot be renewed; a client with
  `userOrders` and `userFills` gets events twice; CometBFT mode feeds nothing;
* a crash between a block's row and its events loses the events; a backfill
  counts twice; the indexer binary follows an empty engine state, and its block
  rows cannot be inserted; order ids of spot and perp collide, and migration 001
  lacks columns.

Submission, gateway and EVM:

* a spot cancel is signed as such and converted to a cancel (`handlers.rs:1215`,
  `tx.rs:169`), so that under CometBFT it comes from an address nobody owns;
* the binary endpoint executes locally in every mode, against `tx_router.rs:4`,
  and counts its nonces apart from the chain's; a lock that the local execution
  holds may fail a transaction of the block: run `submission_replicas` reaches
  two validators of one height with different states;
* the EVM checks no nonce, gives an unknown sender 10^20 units that nothing
  backs; the base fee is burnt, also where it could not be debited, and what is
  paid back for unused gas may not have been debited either; the balance of a
  destroyed contract stays in the sheet; a halted call commits and returns an
  error; block number and timestamp are the node's own;
* on a single node the balances of all loaded accounts are written back over
  what other requests have changed meanwhile (`executor.rs:177`); no property of
  the supply is stated;
* on a single node spot requests have no nonce check; batches and the binary
  endpoint are not limited; a minute admits almost twice the burst; a request
  that its endpoint refuses has used the global quota; an evicted client has its
  whole burst again;
* validation accepts lower-case time in force, `0X` addresses and transfer
  amounts that the conversion refuses, and sets no upper limit for transfers;
  "TP" and "SL" in capitals are taken for no direction; trigger fields and the
  client order id are not signed; a partly filled spot order is "filled" under
  the chain, an unfilled IOC "resting";
* orders for an unknown market stay in the account list only; a self-trade is
  recorded twice; `userFills` shows makers the taker's side; a candle snapshot
  has open and close swapped; funding histories come from the gateway's own
  engine, whose rate is zero;
* spot precompiles never answer, negatives are not sign-extended, an absent
  market reads as zeros and an absent book is an error.

Start-up:

* the single node deploys TEST at token 1 while genesis names BTC, and credits
  token 2, which does not exist; genesis amounts of every token but USDC are
  read with 18 decimals; what does not parse is raw units under CometBFT and
  nothing on a single node; a malformed entry makes a validator ignore genesis
  and stops a single node half-way.

## Theorems

All are proved for every value of the constants under the assumptions named in
the modules: scales, tick and lot positive, rates of fees at most one, limits
natural numbers, what genesis and a deployment allocate natural numbers,
requests of any sign, the sender and nonce of each transaction fixed, channels
of at least one, accounts finitely many wherever amounts are added up and in
genesis, at least two accounts and one validator in `Submission` (a transfer has
somebody to go to), gas prices natural numbers, event kinds that are strings,
and placeholders that are not values (`NoState` no state, `NoMsg` no message).
Some proofs modules hold the theorems of two components; no proof about one
component uses the assumptions of the other. `SumTheorems` has what the proofs
about amounts need of sums over a finite set and over a sequence. Sums and
recursive functions are reasoned about by induction with a set (the numbers, or
the subsets, for which the claim holds) in place of the induction predicate.

`SpotEngineProofs`:

* `SheetAlwaysValid`: `Spec => [](TypeOK /\ ViewsAddUp)`, for requests of any
  sign. The inductive invariant `TypeInv` adds `SweepInv`: what
  `cancel_all_orders` has still to cancel exists, because nothing else touches
  orders while it runs.
* `NeverNegative`: `Spec => []NothingNegative`. `PositiveInv` adds, for as long
  as every request was one that the gateway lets through, that the prices of
  orders and the quote amounts of pending fills are not negative either. The
  arithmetic core is `FeesBounded`: after cutting off, a fee or rebate is at
  most the amount it is taken from, so no debit or credit is negative.
* `BookNeverCrossed`: `Spec => []BookNotCrossed`. `TakerClear` carries the end
  of the matching loop over to the moment the order rests: with size left it
  crosses no order of the other side, because the best one does not cross
  (`LoopEndClears`) and nothing enters the book in between. A fill that fails
  half way ends the call before the order rests.
* `PriorityRespected`: `Spec => []FillsInPriority`. `FillsAhead` says that the
  fills so far come before everything the taker may still match; it needs that
  a maker that is left partly filled ends the loop.
* `AsksAlwaysReserved`: `Spec => []AsksReserved`. `Backed` says what the
  reservation has to cover while a call is in progress: the asks in the book,
  the fills whose seller has not delivered, and what the taker has still to
  sell. During the matching loop the orders map lags behind the book, which
  `BookSynced` and `Unsynced` account for.
* `EngineNeverOverReserves`: `Spec => []ReservedWithinCore`, and
  `SellerAlwaysDelivers`: `Spec => []SellerDelivers`, both about the undisturbed
  engine. After a fill has released its part, the debits that follow must not
  reach into what is still reserved: `DeliveryInv` says that between the release
  and the seller's debit the core view holds the amount to be delivered on top
  of everything reserved. `AloneInv` is this, for as long as the engine is
  undisturbed, with the invariants above; a step that leaves it undisturbed was
  the engine's own (`StillUndisturbed`).
* `BaseNeverMinted`: `Spec => BaseNotMinted`, an action property, from
  `AloneInv` and what one balance write does to a sum over the accounts.

`PerpEngineProofs`:

* `MatchableOrdersListed`: `Spec => []BookIsListed`. The inductive invariant
  `PerpInv` adds that the order being placed is in the book only if it rests
  (`TakerInBook`), which rests on ids being new (`IdsGivenOut`): without it an
  order without a rest could stay unlisted.
* `NoTriggerOverlooked`: `Spec => []TriggersSwept`. Between the first fill and
  the end of the call the mark price may have met trigger orders that are not
  yet taken, so `SweptOrTrading` states the property for every point but that
  one, and `FillsShrinkTaker` says that the final sweep comes whenever a fill
  was applied. The property exempts a mark price of zero, for which the code
  skips the sweep and which prices of both signs can reach.
* `PerpTypesHold`: `Spec => []PerpTypeOK`.
* `OrdersNeverOverfilled`: `Spec => []NoOverfill`. `FillInv` relates three sizes
  of an order that change at different steps: what the book or the taker has
  left, what the pending fills will take, and what the orders map shows. Traded,
  pending and left are together at most the original size.
* `PositionsStayConsistent`: `Spec => []PositionConsistency`. A fill changes two
  positions by opposite amounts (or one twice, in a self-trade); `long_delta`
  and its mirror move the open interest by what the sums of the long and of the
  short positions move, also through a flip. `FillInv` gives that the sizes are
  positive.
* `EveryCascadeEnds`: `Spec => CascadeEnds`. `place_order` and `check_triggers`
  call each other; the measure is the set of trigger orders not yet placed,
  then the phase of the order, then what the phase has left. Placing a
  triggered order makes the set smaller only if no order is in two lists, which
  `Apart` states: a sweep takes an order out of the store when it lists it, and
  new trigger orders are stored only when no sweep is under way.

`BlockProofs`, about `BlockProducer` and `Clearing`:

* `PoolIndexSound`: `MempoolSpec => []NoDanglingIndex`. The invariant adds that
  a nonce is indexed under its own transaction and that the time index, from
  which eviction removes, only has known hashes.
* `TimestampNoncesOnce`: `Spec => []TimestampOnce`, and
  `SequentialNoncesBounded`, what is true in place of the `NonceUsedOnce` that
  run `producer_nonce` refutes: a sequential nonce n is executed at most n + 1
  times. The invariant `UsedNonces` relates the executions of each transaction
  to the account's nonces: an executed timestamp nonce is not above the last one
  recorded, and no transaction has more executions than its account has nonces
  used. It does not mention queue, pool or batches: however a transaction gets
  into several batches, and whatever the gateway executes beside them, only the
  check at execution counts.
* `DatabaseUpToDate`: `Spec => []DurableBetweenBlocks`: of the parts that are
  written, the database lacks between two blocks what the gateway has executed
  since the last one, no more. `DiskInv` adds the type of `outside`.
* `FundingOnceAnInterval`: `ClearingSpec => []FundingIndexCurrent`. `FundingInv`
  adds the shape of the tables, that a position counted as held is open
  (`HeldOpen`), since one that was closed and opened again starts at index 0,
  and that nothing is left to settle outside the settlement (`TodoIsFunding`).

`ChainProofs`, about `HyperBft`, `ChainApp` and `Merkle`:

* `QuorumDecides`: `Spec => [](DecidedByQuorum /\ ForksTakeDoubleVotes)`, with
  timeouts and so with forks. A validator that takes a certificate checks only
  its length, so the invariant `BftInv` says that every certificate ever sent is
  backed by votes that were sent, every vote is for a proposal, and collectors
  hold votes that were sent. Two quorums then have 2(2f+1) - n members in common
  (`QuorumsMeet`), each of which has sent both votes.
* `CloidEntriesAlwaysTrue` and `OrdersAlwaysFindable`: `AppSpec =>
  []CloidEntriesTrue` and `AppSpec => []StillFindable`. `AppInv` has the ids
  (`OrdersInv`: ids are new, until a restart starts those of the spot engine
  again), the transaction in progress (`TxInv`: what it will register it has
  placed, what it will remove is gone), that every live entry is in both maps
  and of an order placed under that name (`IndexOK`), and that confirmed orders
  are found (`Findable`). An order that is registered and filled in the same
  transaction is the delicate case: the removal comes after all registrations.
* `BalanceProofsSound`: `AppSpec => []ProofsSound`, and `NoOtherProofAccepted`:
  `AppSpec => []AnyProofSound`, which says of every path, of any length and with
  any siblings, that what it shows is an entry of the tree. `SheetInv`: the
  sheet is finite and the cached tree is the tree of some list of entries, not
  always of today's. The lemmas follow the three functions of the tree.
  `TreeBuilt`: every turn of the loop shortens the top level, so it ends with a
  single node, each level being the `NextLevel` of the one below.
  `LeavesHaveProofs`: the path of a leaf goes through the node above it at every
  level, the last and odd one included, and so arrives at the root. `NodesBelow`
  and `OnlyLeavesProved`: a node above the leaves hashes two nodes of the level
  below and an entry is no pair, so a path that arrives at the root has come
  down the tree and begins at a leaf.

`NodeProofs`, about `ValidatorNode` and `Feed`:

* `AppliedExactlyOnce`: `Spec => []SameAsChain`. The inductive invariant `VInv`
  says what the application, the database and the pending state are at every
  stage: as long as nothing was lost, the database is the state of some decided
  block, at or behind the application, and the pending state is that of the
  block just executed, strictly ahead of the database. So what a restart loads
  and replays leads to the same state again, if nothing was there that a restart
  loses (`RestoreGives`).
* `SyncedNodesAreWhole`: `Spec => []SyncedIsWhole`. `SInv` adds that a snapshot
  on disk, and the hash it was offered with, are of one state of the database; a
  state whose app hash is accepted has the orders and balances of the chain,
  also on a node that has lost other parts. The hash stands for the contents, so
  chunks of two snapshots do not pass.
* `DatabaseImplementsStore`: `Spec => StoreRefined`, the refinement of
  `StateStore`: executing a block adds to what may be stored, only a write that
  succeeds changes what is, everything else is a stutter.
* `CandlesAlwaysTrue`: `ReadersSpec => []CandlesTrue`. `IndexInv` says that the
  rows are those of the first so many blocks, and where the process stands
  between two statements (`PlaceInv`): a candle has counted no trade that is
  ahead of it (`CandlesInv`). The row of a block is written before its events,
  so a process that dies never comes back to a block it has begun.
* `ClientsNeverSkip`: `ReadersSpec => []NoGap`. `StreamInv` says of every
  forwarder that its messages in the client's channel and at the client are a
  run that ends just before the position it reads next.
* `FeedAlwaysFollowsChain`: `ReadersSpec => []FeedFollowsChain`. `QueueInv`: the
  blocks that wait are in order, behind the one being broadcast, and none was
  dropped. `SentInv`: a channel has every event behind the broadcaster as often
  as its kind asks, and nothing of what is still to come.

`SubmissionProofs`:

* `RequestsAppliedOnce`: `Spec => []AppliedOnce`. `Good` is kept by every
  transaction of a block, whatever its luck with the locks: what was applied as
  a whole has used its sender's nonce up in that application (`Used`), and is
  not applied there again (`Once`). `GoodInv` says it of every validator, and
  gives the types of what is sent.
* `ReplicasAlwaysAgree`: `Spec => []ReplicasAgree`. `ReplicaInv`: there is a
  history that is a function of the decided blocks alone, and every validator
  that is not `apart` is somewhere in it. Nothing is assumed about who uses the
  binary endpoint or misses a lock: those validators are the ones that are
  apart.

`AttestationProofs`:

* `MajorityRuns`: `Spec => []MajorityNotHalted`, for any number of validators.
  The invariant `AInv` says of every alert under way what the property says of
  the halt (`AlertsSound`). Its core is `CheckSound`: two hashes among the votes
  of a quorum, and a majority of them other than the node's, leave at most two
  thirds of all power on the node's hash.
* `MinorityIsNoticed`: `Spec => []MinorityHalts`. `AllNoticed` needs that the
  node's own vote is stored after its own hash is recorded (`OwnLate`) and that
  only foreign votes come from the network (`ForeignOnly`): whichever of hash
  and votes comes last, a check follows it.

Only model-checked: liveness (`IndexedIsTaken`, `ProposedIsCommitted`,
`ClearingConverges`, `CatchesUp`, `EveryBlockIsSent`), which is out of the
prover's reach, and `ClearingShrinks`, whose case of an account that is
deleveraged before its own position is closed would need the whole arithmetic of
equity in an invariant; the run reaches it. The operations of the pool that the
producers never call (`mark_invalid`, `prune_expired`, `clear_invalid_cache`)
are in no run and covered by `PoolIndexSound`.

## Not modelled

* `EngineHandle`, `MatchingCore`, the object pools and the metrics of the
  engine, memory-mapped state and huge pages: benchmarks use them, no binary
  does.
* `AbciService`, `StateExtractor`, `snapshot`/`restore` of `AppState`: only
  tests call them.
* `ActionQueue` of the CoreWriter: nothing fills or drains it; the chain's
  `EvmAction`, which takes its place, is modelled.
* Validator set: no call changes it after the start.
* The socket server that decodes ABCI calls, HTTP, the layout of binary frames,
  the read-only SQL of the indexer and read-only EVM RPC calls: pure
  input and output.
* revm, RocksDB, CometBFT and tokio are external: modelled only by how the code
  uses them.
* Contracts, SDKs, front end, scripts: clients of the system.

What would come next: several keys and two crashes in `validator` on a larger
machine.
