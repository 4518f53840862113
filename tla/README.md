# Verification of rust-sniper

TLA+ models, TLC checks and TLAPS proofs for the trading bot in `src/`: a set of tokio
actors that watch Ethereum's pending transactions and blocks, simulate them against a forked
state, and buy and sell tokens by bundles sent to relays. Paths below are relative to
`src/src/simulation/src/` unless they start with `main.rs`.

## The system

| Component | Code | State | Operations |
|---|---|---|---|
| Main, control plane | `main.rs` | the bounded channels (20), one task per Kafka message | create a trader, cancel, update anti-rug, force an exit, take profit; forward engine events to Kafka |
| Simulator engine | `simulator/mod.rs` | the map token -> (broadcast, request channel), the shared token pool | add a token; dispatch pending transactions; forget an ended simulator |
| Simulator | `simulator/simulator.rs`, `simulator/event.rs` | the token's state (Launch, Changed, Closed), `sell_check`, its event queue | serve requests; simulate on a transaction and on a block; end without receivers |
| Trader engine | `trader/mod.rs` | the map trader -> command channel | create, terminate, forward three commands; forget an ended trader |
| Trader | `trader/trader.rs` | its event queue; all else through the portfolio | entry check; handle twelve kinds of event; four commands |
| Portfolio, store | `portfolio/*.rs` | in Redis: an open position and a profile per trader | make orders from signals; statistics; update a position from transactions |
| Executor | `executor/mod.rs`, `executor/sender/*`, `executor/transaction.rs` | the shared queue of bundle orders, spawned tasks | receive orders; send now or queue; drain six seconds after a block; build, post, await and answer bundles |
| Block stream | `stream/block.rs` | a watch of the last block | publish; values not seen in time are lost |
| Forked chain state | `simulator/simulation/fork_db/*` | a local cache per EVM, a shared cache, listeners and in-flight fetches | read accounts, slots, hashes; commit; poll |
| Token simulation | `simulator/simulation/*.rs` | none of its own | runs revm: taxes, highest buy, sale, gas |
| Types, state differences, bindings | `types/`, `token/`, `dex/`, `utils/`, `abi/` | none | conversions |

How they interact: `main.rs` sends AddToken to the simulator engine and gets a handle (a
broadcast receiver and a request sender), which it passes with CreateTrader to the trader
engine. The trader sends requests to its simulator and hears its broadcasts; it hands an order
with the sending half of a response channel to the executor and *waits* until the channel
answers or closes. Position and profile are in Redis. The simulators, the executor and main
share the block watch. The simulators' EVMs read through ForkDB clients that *block* on the
backend's thread.

What is hard here:

- the executor's queue is shared with tasks that sleep for six seconds with a block they
  remember; orders must neither get lost nor be bundled twice;
- "sender dropped" is the only sign of a failed order, so every failure and every panic must
  drop every clone, and a dropped sender means less than the trader takes it for;
- between a trader's decision and its refreshed position lie a gas estimate, a channel, some
  blocks, an answer, a deleted and a rewritten record;
- broadcasts lag, maps are updated by tasks that run some time after an actor has ended,
  messages of one user are handled by concurrent tasks;
- a hand-written `Future::poll` must not sleep while something is ready.

The hazards, each at its line and with the properties that would catch it, are listed in
`PROJECT.json`.

## The modules

| Module | Models | Run by | Proved in |
|---|---|---|---|
| `OrderService` | what the executor promises to traders (abstract) | `MCExecutor`, as a property of `Executor_safety` | `ExecutorProofs` |
| `Executor` | executor, its tasks, the block watch, the traders' waiting | `MCExecutor` | `ExecutorProofs` |
| `Trader` | one trader with portfolio and store, its view of simulator and executor | `MCTrader` | `TraderProofs` |
| `ForkBackend` | ForkDB clients and GlobalBackend | `MCForkBackend` | `ForkBackendProofs` |
| `Engines` | the life of traders and simulators, from Kafka message to removal | `MCEngines` | `EnginesProofs` |
| `Simulator` | the simulator of one token, the dispatch of pending transactions to it, its traders' requests | `MCSimulator` | `SimulatorProofs` |
| `MapGuards` | the guards of `token_pool` and `simulators` that the simulator engine holds over an await, and the threads they block | `MCParts` | liveness, by TLC only |
| `MaxBuy` | the search for the largest purchase | `MCParts` | `MaxBuyProofs` |
| `TradeOutlook` | from the trades simulated in the next blocks to an entry order | `MCParts` | `PartsProofs` |
| `ExitDecision` | from the two tests of a sale to an exit order | `MCParts` | `PartsProofs` |
| `WalletSale` | the split of a sale over wallets, and the order after its gas estimate | `MCParts` | `PartsProofs` |
| `PairSearch` | the new pools in a state difference | `MCParts` | `PartsProofs` |
| `QueueLemmas` | what appending to a queue and taking its head do to its length and its members | | itself |

### Executor

`order_rx` is the order channel, `bundle_q` the queue under its mutex. Both are sets: no
property is about their order, and the retain of the drain keeps it irrelevant for which
orders leave. A member of `tasks` is a spawned task that is asleep before it drains (with the
`oracle.next` it captured) or about to build bundles; a member of `bundles` is a constructed
bundle with its posting task, whose stages are `posting`, `posted` (waiting for the relays),
`answering` and `closed`. `owed` are the response senders that the task still holds, so
`Held` is exactly the set of orders whose channel is open; `ReceiveClosed` is enabled when
nothing holds a sender and nothing has been answered.

| Action | Code |
|---|---|
| `Submit`, `ReceiveAnswer`, `ReceiveClosed` | `trader.rs`, OrderNew |
| `SeeBlock`, `HandleBlock` | the block branch: `changed()` marks the value seen, the body reads the watch again later |
| `ReceiveOrder` (`ProcessBundle`, `ProcessNormal`) | the order branch, whole |
| `DrainQueue` | the drain under the lock; sleeping is the time before it |
| `SendOrders`, `SendOrdersPanics` | `send_orders` up to the spawns, or a panic while signing |
| `PostBundle`, `ResolveBundle` | `send_bundle` at all relays, joined |
| `AnswerOrder`, `AnswerPanics` | building and sending one answer, or the unwrapped client panics |
| `MineBlock`, `PublishBlock`, `TenSecondsPass` | the chain, the stream (which may skip blocks), the clock |

A block's time matters only through `abs_diff(latest.timestamp) <= 10`, which is `early`:
arbitrary when a block is published, and it only turns false until the next.

`Forms` are the contents an order may have: its type, the block it is for (0 for any) and what it is
bundled with. A target is the `oracle.next` of some moment up to now, or, for a launch, the
first block at which the token can be traded (`simulator/event.rs`), up to `Horizon` blocks beyond the
next. Such an order is not sent at once however young the block is (`SendNow`), and one drain task after the
other pushes it back until its block comes (`DrainQueue`). If its block does not come within the
model it stays in the queue; the liveness properties say so.

`OrderService` is the promise. Each order has a phase: `idle`, `held`, then either `bundled` and perhaps
`landed`, or `discarded`. `open` are the orders with a living sender. The mapping (`Phase`) sends an
order that is in two bundles, or in a bundle and still on its way to one, to `doubled`, a phase in which
the service has no order, so a second bundling is no step of it and no stutter either. Answering takes an open
sender and a landed order without an answer; a trader reads "closed" only when no sender is left,
and no sender of a `held` order goes without the order being discarded.

### Trader

`event_q` is the trader's own queue, `command_rx` and `simulation_rx` (with `lagged`) its
inputs, `requests` and `armed` the registrations of the test sale and the simulator's
`sell_check`. `position` is what the store holds; `removed` is the position that
`update_from_transaction` has removed and not yet written back. A position is `fresh` while
its `realized_pnl` is zero. The history variables `holding`, `buys` and `initials` are the
chain's side. A signal is abstracted to what the trader makes of it (`AllSignals`).

`pc` is `deaf` after `Lagged`: the pattern `Ok(..)` does not match, tokio disables the branch
for this `select!`, and only a command ends it.

A behaviour starts in one of several `Settings`, which fix the capacities, the signals and
commands that occur, and the `Faults` the environment may commit, so that each property says under
which assumption it holds. The faults are: an order that landed and is answered None ("unreported",
which `Executor_dropped` shows to be possible), a crash with restart ("crash"), a failing store
("store"), a sale with no net profit ("flat"). Four of the invariants are for settings without
faults, and they have to be: any of the first three breaks `SingleBuy` (a landed order without an answer leaves no position;
a crash comes while the position is removed or the order in flight; a failed write is only
logged), and the fourth breaks `TakeInitialsOnce`: a sale below its fee
realizes zero (`position.rs`, `checked_sub(fee).unwrap_or_default()`), so the initials are taken
out again, against `portfolio.rs`' "only take out initials and do not trigger again". A store
may fail wherever the code asks it; the event then comes to nothing, except that it stops a trader about to
decide on a purchase. `OrderMatchesPosition` and
`TerminateEnds` survive all four together.

### ForkBackend

A client blocks on one request at a time, so the channel and the queue of the backend are
sets. `PollFuture` polls one future of a round, `todo` are those the round has not polled yet;
`Fetched` (the provider) and `Ask` (a client) may run between any two steps and set `woken`. The
cache's made-up account of a slot inserted first (`empty`) is modelled, because whether it can
ever be observed is a question (`NoPhantomAccount`).

A behaviour starts with any initial database that `to_cache_db` makes of a state difference
(`InitialDbs`: a slot comes with its account), and with any slots that the factory has injected by
`insert_account_storage` (`Injections`). The accounts that the program makes up itself and inserts
with `insert_account_info` (its contract, its wallets) are left out: they are nobody's question to the backend.

### Engines

One token, one trader per user. A simulator's generation tells it from earlier simulators of
the token, a handle is a generation. `handle` counts as a receiver while it travels. Traders
may end at any time for reasons of their own (`TraderEnds`); the removal from a map is a step of
its own.

| Action | Code |
|---|---|
| `Consume` | the Kafka stream and the spawned task, which panics on a payload it cannot read |
| `SendAddToken`, `SendCreateTrader`, `SendCommand` | the sends of a task, each waiting for room; with the response before the next |
| `TaskFails` | the error arms: a send fails, or a response channel closes, because the engine is gone |
| `AddToken`, `CreateTrader` | one command of an engine, with its response |
| `TakeCommand`, `ForwardCommand` | the four other commands of the trader engine (`Topics`): found in the map, then sent to the trader, *waiting* while its channel is full |
| `HandleCommand`, `TraderEnds`, `RemoveTrader` | the trader, and the task that waits for its end |
| `SimulatorEnds`, `RemoveSimulator` | the same of a simulator |
| `SimulatorEngineStops`, `TraderEnginePanics`, `SimulatorPanics` | the unwraps of the websocket client and of the store, and the breaks on a closed stream; allowed by `Faults` |

When an engine is gone so are the commands in its channel, with their response senders and handles.
`CreateIsAnswered` therefore ends in "failed" only if an engine is gone. A command
that overtakes the create before it (each message has a task of its own) finds no trader,
is passed over and reported as done: the module has both orders, but no property requires one, as the code
promises none.

### Simulator

`pc` is the place in the loop: `select`, `events` (draining the simulator's own queue), `closed`
(the loop has ended and the request channel's receiver is dropped). `state` is the code's state;
`signal` and `announced` are what the broadcast has said. A launch found by a block has no
transaction: the code fills in `Transaction::default()`, here `NoTx`.

| Action | Code |
|---|---|
| `StartDispatch`, `SendTransaction` | the engine's branch for pending transactions; between the two it awaits the provider and room in the channel |
| `Request`, `Leave` | `update_antirug` of a trader; the end of a trader, which drops its handle |
| `TakeRequest`, `TakeBlock` | the two branches of the `select!`, with the check of `receiver_count` that follows |
| `HandleTransaction`, `TransactionFails` | `Event::TransactionNew`, and its early `continue`s |
| `HandleBlock`, `SkipBlock`, `BlockFails` | `Event::BlockConfirmed`, and its early `continue`s |
| `SimulationPanics` | the unwraps of `prepare_database` and of `token_liquidity.rs` |

Abstracted: what the EVM finds is whether a trade works after some transactions on a block
(`Works`): it does if one of them opens the token, or the token was open in that block. Opening is
for good (a token that closes again is for the tested sales of `Trader`). Which
transactions touch the token, and which of them show a new pool in their state difference
(`PairCreating`), are constants. `TradeSimulation` and `EstimateGas` are left out: they spawn a
task that answers a trader (`Trader` and `TradeOutlook` have the answers) and change nothing here.
`due` (who had registered when a transaction was sent), `announced` and `failed` are history.

### The parts

Six modules model code whose state lasts for one call, one event or one await. Each has an
`Init` of its own that takes every input of its instance, actions for the steps of the code, and a
state in which it is idle. `MCParts` puts them side by side: a behaviour is one of them at work, from
all its inputs, while the others stay idle. They share no variable, so interleaving them would show
nothing more.

**`MapGuards`.** `add_token` awaits the creation of a token with the write guard of a shard of
`token_pool`; the dispatch awaits room in a simulator's channel with the read guard of a shard of
`simulators`. A task that wants the shard blocks its *thread*, so the question is one of threads:
`reading` and `Removing` are tasks that occupy one, and every other step needs `FreeWorker`. With
more worker threads than tasks that one guard can block (`Roomy`) the engine always gets through.
With fewer it may not: with two worker threads, two traders or simulators that look up a token
of the shard while another one is created leave no thread to poll the creation. `MCWorkers` has
both numbers, and the property is about the roomy one.

**`MaxBuy`.** One action per way through the loop of `simulate_token_max_buy`, for a token with a
limit and a tax on the amount, and a provider that may fail in any
round, for the round as a whole (not for some of its fifteen purchases only). The
arithmetic is the code's, on smaller balances. Two things it shows: a token
whose limit is below about 1/295245 of the pair is reported as one that cannot be bought; and
the search never ends if the provider fails after the tenth round for a pair whose balance is so
small that the tolerance is zero (`counter == 10` is tested for equality, and the interval stops
shrinking at one amount).
`HighestIsFound` makes one exception, for tokens whose tax leaves a single unit of the largest
purchase, or nothing: there a later round may miss the purchase that an earlier one has found
(an amount just below the best one leaves nothing), shrink the interval away from it and end at an amount
well below the largest. A balance of 29,524,500 with a limit of 100 and a tax of 99 percent is
answered with 23; that market is in `MCMarkets`.

**`TradeOutlook`.** A trade's outcome in each of the next `Horizon` blocks; the simulator's
`generate_state` and what it keeps, publishes, or answers to an entry check that runs beside it;
the trader's decision and its target block. `TargetIsTradable` is stated for launches and for
traders with tax limits; it leaves out two cases that the code does not protect:

- a Changed event of a trader without limits is bought unseen, since nobody asks
  `SimulationState::buy_valid` and `sell_valid`;
- an entry check that finds a launch older than the horizon answers with its old simulation as a
  change for the next block (`IsFresh`).

Another thing the module shows: `buy_fee` and `sell_fee` are the highest of all ten blocks, and 100
in a block where the trade fails, so a token that opens one block later is no Launch yet; a later
target than the first block is left to sell taxes between 91 and 99.

**`ExitDecision`.** `truth` is what the EVM would answer to the sale before and after a pending
transaction, and where the provider fails. `SimulateSell` is what the simulator makes of it,
`GenerateExitOrder` the chain of tests in `event.rs` and `portfolio.rs`. Without faults a trap
worth escaping is always escaped and a healthy token is kept. A fault in the second test only
reads as a trap and sells a healthy position; a fault in the first hides one. In the state Closed
the liquidity is zero, which reads as a honeypot; in the state Launch the exit is put in front
of the launch's transaction and not of the one that was simulated (`StateTx`).

**`WalletSale`.** The balances of the wallets and a percentage. `SellFromNextWallet` is a round of
the loop. Everything on the way that unwraps or overflows is a panic, which takes the trader's task
with it, and `cause` says which: the client, the nonce or the balances (`SetupFails`), the sum of the
balances (`TotalOverflows`), and in a round (`SaleDoesNotFit`) the wallet after the last one (a
percentage above one hundred), an amount beyond 128 bits, or a wallet number beyond a byte. A percentage of the total that
overflows sells nothing. Widths are constants.
`Paired` is what the gas estimate does to the order: every transaction with every signer, so an
order for *n* wallets comes back with *n²* transactions and each nonce *n* times. `SoldAsAsked` is about the
distinct sales and neither requires these copies nor forbids them; what the chain makes of a
repeated nonce is not in the model. `mask` is the
wallets that a full sale names; a wallet beyond its sixteen bits wraps around to one that may be
empty, or panics in a build with overflow checks. No property is about the mask.

**`PairSearch`.** The two loops of `update_pairs_for_tokens` over tokens and factories. A factory
is not in the state difference, is in it with its number of pairs unchanged, is deployed by the
transaction, or has new pairs. If the number is unchanged, the `?` returns from the function
and no token gets its pool. The pair read is the one at the *old* number, the first of several that a
transaction creates; the comments beside it (`utils/state_diff.rs:216` and `:224`) speak of the new length
and of the pair before it, which would be the last (`LastPair`; see `findings`). A later factory overwrites what an earlier one gave.
`PairsAreRight` says exactly that, in both directions, and that a search without a result has met an
unchanged factory.

## The runs

Every run finishes within about three minutes. `CHECK_DEADLOCK FALSE` is set where the system may
stop: the chain of `Executor` has a last block, a trader ends, the messages of `Engines` run
out. In `ForkBackend_core` deadlock is checked: a client that only waits would be one.

| Run | Instance | Shows |
|---|---|---|
| `Executor_safety` | 2 orders of six forms (all types, 2 keys so a batch may split, no target, or one up to 3 blocks ahead), 2 tasks, 3 blocks, channel of 1 | no order is bundled twice or before its target; an answer follows the landing; an order reported gone is gone; Executor implements OrderService |
| `Executor_liveness` | 2 orders of type Bundle for block 3 or 4 of 4, fairness | an order that is pushed back by several tasks is bundled when its block comes; waiting traders are resolved |
| `Trader_core` | two settings, fairness: `Calm` (all signals and commands, broadcast of 2, requests of 2, no faults) and `Faulty` (all faults together, two signals, commands to terminate and to exit, channels of 1) | the trader's invariants without faults, and which survive them; a command to terminate ends the trader |
| `ForkBackend_core` | 2 clients, one account, slot and number, every initial database, fairness | no double fetch, no forgotten client, no lost wake-up, no phantom account; every client is answered |
| `Engines_core` | 6 messages, 2 users, all channels of 1, engines and simulators may panic, fairness | one simulator per token; simulators go when the traders have gone; creates are answered unless an engine is gone |
| `Simulator_core` | 2 transactions, one of which opens the token, a private opening, 3 blocks, 1 trader, channel of 1, fairness | a launch stays the target until it is mined, tested sales are the registered ones, signals do not go back, openings are signalled |
| `Parts_core` | the six parts, one at work at a time; fairness of `MapGuards` and `MaxBuy` | guards held over an await are released; the search ends and finds the limit; entry orders are for blocks that were simulated as tradable; exits are worth their gas and are not missed; a sale sells what was asked from who has it; pools are found |

Runs that TLC must refute, each a comment or message of the code that the code does not keep
(quoted under `findings`):

| Run | Claim | Why it fails |
|---|---|---|
| `Executor_dropped` | a dropped sender means not included | lost acknowledgement, or a panic while the answer is built |
| `Trader_deaf` (setting `Buyable`) | the trader will receive new simulations | `Lagged` disables the branch |
| `Engines_map` | removed from the map | removed from a copy of the map |
| `Engines_zombie` | requests can always be sent | a subscription to a simulator that has just ended |
| `Simulator_launch` | a launch is handled in the new block | its block was skipped by the watch, or it was dispatched after its block |

### Bounds, and why they are enough

- Two orders and two tasks let two drain tasks compete for the queue, with the executor as a
  third. Three blocks let a task outlive its block and a bundle miss
  its own; with a fourth, and targets two blocks beyond the next, an order is pushed back by more than one
  task before it is due, and some targets are for a block that never comes. The proofs below do not depend on them.
- One trader sees the others only as signals that are not its own (`quiet`). `MaxBuys = 2`
  is one more than the property allows, likewise `MaxInitials`; they bound landing only.
- A broadcast of 1 or 2 instead of 10 is overrun sooner; command channels of 1 or 2 instead of
  10 are full sooner.
- Two clients of the backend can compete for a key; a third adds a second listener to a list
  whose members are all treated alike. One slot suffices, as slots meet only in their account.
- Two transactions, one that opens the token and one that does not, are every role a transaction
  plays for a launch: the target, what is simulated behind it, what comes first. Three blocks let
  one be skipped between two that are seen. A trader's registrations concern no other trader.
- Six messages of two users: both users come and go, one asks twice, and a command and a cancel
  overfill its trader's channel of one, so the engine waits; one message cannot be read.
- `MapGuards`: three tokens, of which two share a shard of each map, are the least with a
  reader of another token; two worker threads can all be blocked, three cannot.
- `MaxBuy`: balances and limits around every point where the search changes its mind (the number
  of parts, the tolerance, the smallest amounts tried, nine tenths); at most 30,000,000, as TLC
  computes with 32 bits, which is enough for a tolerance of ten.
- `TradeOutlook`: two of the ten blocks of the horizon let the first valid block be the first, the
  second or none; three blocks are one beyond the horizon of the first, so a launch can be stale.
- `ExitDecision`: what a sale brings is 0, 1, 2 or 5, on both sides of the gas and of two
  fifths of each other; a sale may fail and the provider may fail in either test.
- `WalletSale`: contracts of no, one, three and four wallets, with a byte of 3 and a mask of two bits, so there are
  wallets beyond both; balances of 0 to 4 and, beyond the largest amount (4), of 5 and 400, two of
  which overflow a word of 600; percentages with and without rounding, zero, and above one hundred.
- `PairSearch`: two tokens, two factories, up to two pairs in each; a pair may be of both tokens.

### Fairness, and why the code justifies it

Weak fairness of a task's or actor's next step is tokio's: a task that is ready is polled. In
`Executor`, further: blocks keep coming and are fetched; the relays answer (their futures have a
deadline, the bundle's block); a receiver whose channel has a value or is closed returns. The
branches of a `select!` are polled in random order, so a branch that is ready again and again is
taken: this is the *strong* fairness of `RecvCommand`; for the finite orders of `Executor` weak
fairness per branch says the same. In `ForkBackend` the backend has a thread of its own and the
provider answers or fails. In `Engines` a trader comes back to its
commands in the end and handles them (`WaitingIsResolved` and `TerminateEnds` are the reasons); ends
of other kinds are possible and not assumed, and a simulator that has no receiver is woken by a block or a request. Panics,
crashes and the environment's choices are never fair. In `Simulator` the `select!` is random as
well, so the block branch, ready again and again among requests, is taken (strong fairness of
`TakeBlock`); blocks keep coming and the newest is fetched in the end. That the simulations
succeed is not assumed: the liveness properties end in `failed`.

In `MapGuards` fairness is that of the runtime as well, and only while a thread is free: what
the engine awaits completes (the provider answers or fails), a simulator takes its requests, a lock
that is free is taken. New transactions, requests and ends of simulators are not fair. In `MaxBuy`
the search goes on; a failure of the provider is not fair, so it may happen at any time or never.

## The proofs

Every safety property of the passing runs is a theorem, for every value of the constants that the
module's named assumption admits. The assumptions say that capacities and bounds are
positive, that the sets of inputs are of their types (a tax is less than one hundred percent, a
message is of one of the topics), that the kinds of keys are disjoint, and, for `PairSearch`, that there is a factory
(`main.rs` adds Uniswap V2's). TLC evaluates them in every run.

An invariant is seldom inductive alone. Each proof module begins with the inductive
invariant as a conjunction of named parts; for each part there is a lemma that `Init` has it and one that
every step keeps it, with a case per action, and the theorems at its end follow from
the invariant.

| Module | Theorem | Property |
|---|---|---|
| `ExecutorProofs` | `ExecutorTypes`, `ExecutorInvariant` | `TypeOK`, `IInv` |
| | `NoOrderBundledTwice`, `NoBundleBeforeTarget`, `AnswersAreTrue`, `GivenUpIsGone` | `NeverBundledTwice`, `NotBeforeTarget`, `AnsweredIsLanded`, `GoneIsGone` |
| | `ExecutorRefines` | `ImplementsOrderService` |
| `TraderProofs` | `TraderTypes`, `OrderFitsPosition` | `TypeOK`, `OrderMatchesPosition`, with any faults |
| | `TraderBuysOnce`, `InitialsTakenOnce`, `PositionIsOnChain`, `TestSaleHasPosition` | `SingleBuy`, `TakeInitialsOnce`, `PositionAgrees`, `ArmedWithPosition`, without faults |
| `ForkBackendProofs` | `ForkTypes`, `KeyIsFetchedOnce`, `ListenersHaveFetch` | `TypeOK`, `OneFetchPerKey`, `ListenedIsFetched` |
| | `ClientIsKnownOnce`, `WakeupIsNotLost`, `AccountIsFromChain` | `NobodyForgotten`, `NoLostWakeup`, `NoPhantomAccount` |
| `EnginesProofs` | `EnginesTypes`, `TokenHasOneSimulator` | `TypeOK`, `OneSimulator` |
| `SimulatorProofs` | `SimulatorTypes`, `LaunchIsKept`, `ChecksFollowOrders` | `TypeOK`, `LaunchKeptUntilMined`, `ChecksAreDue` |
| | `SignalsGoOn` | `SignalsNeverGoBack` (an action property) |
| `PartsProofs` | `EntryIsTradable`, `ExitPaysOff`, `FoundPairsAreRight` | `TargetIsTradable`, `ExitIsWorthIt`, `PairsAreRight` |
| | `SaleIsAsAsked` | `SoldAsAsked` |
| `MaxBuyProofs` | `LargestPurchaseIsFound` | `HighestIsFound` |

**`ExecutorProofs`: `IInv`.** The conjunction of `TypeOK`, `Exclusive`, `BatchIsDue`,
`NotBeforeTarget`, `SendersKept`, `AnsweredIsLanded`, `OwedUnanswered` and `GoneIsGone`.
`NeverBundledTwice` alone does not say that an order not yet submitted is
nowhere, so `Submit` could add one that is already bundled; `Exclusive` says so, and that channel,
queue, batches and bundles share no order. A task asleep has no batch (`BatchIsDue`), or
`DrainQueue` could overwrite one. `NotBeforeTarget` needs that a batch is due for the block of its
task, from the moment it is drained or sent at once (`BatchIsDue`): both tests, of the task and of the
executor, are in it, as targets may lie any number of blocks ahead. `AnsweredIsLanded` needs that
a bundle in stage `answering` has landed, and `GoneIsGone` that an open bundle's task owes or has
answered every one of its orders (`SendersKept`). `ExecutorRefines`: under the mapping `Phase`,
every step is a step of `OrderService` or a stutter. `PlacesApart` draws from `Exclusive` that no order is ever
`doubled`; `OwedUnanswered` that an order is answered once; `RefinedStep` goes through the actions.

**`TraderProofs`: `TraderInv`.** `OrderMatchesPosition` speaks of an order in the queue
and at the executor; that the position still fits when the answer comes back
is kept only together with where the order is otherwise: `FlightMatches` follows it
from the decision over the executor to the event that changes the position. It needs that the queue
never holds two events (`OneEvent`), or a second decision could lie behind the first. Without
faults, `HoldingsAgree` relates the tokens on the chain to the stored position, up to a landed order
whose event is on its way and up to the position that is removed while it is refreshed; `BoughtOnce` and `TakenOnce` say where what
was bought is (in the position, on its way there, or gone with it), so that a second purchase would
need a trader without a position that goes on; `ArmedForPosition` is about what the simulator will
test once it has served the requests on their way. The actions are first shown to have one of twelve
shapes (`Ends`, `Decides`, `Sends`, `Answers`, `Removes`, `Stores`, ...), each of which says what
a step does to queue, order, position and chain; the parts are then proved over the shapes.

**`ForkBackendProofs`: `ForkInv`.** `NobodyForgotten` counts where a client's request is;
`InOnePlace` says of each place what it holds (a request is for the key that the client's step
waits for, a listener has no request left), which is what keeps the count at one when a request becomes a listener and when a fetch
answers all listeners of its key. `Fetches` is `OneFetchPerKey` with
`ListenedIsFetched`: either alone is not inductive, since a second fetch is avoided by looking at the
listeners. `NothingMissed` states `NoLostWakeup` already for the round of polls before the sleep:
without a wakeup every future not looked at yet is in flight or still to be polled. `AccountFirst`
follows a slot through the client that asks for it: its account is in the cache before it asks.

**`EnginesProofs`: `EnginesInv`.** A new simulator is numbered by those before it; `GenerationsInOrder`
says that they are numbered from one and are no more than the tasks that have a handle, so a
number is left for each message. `TasksInOrder` says which messages can be in which channel, and
`MapHasLiving` that a simulator stays in the map until the task that waits for its end removes it.

**`SimulatorProofs`: `SimulatorInv`.** `ChecksAreDue` compares the simulator's registrations with those
at the time of sending; `ChecksFollow` says that there is a sequence of sets of traders from the one
to the other, one request at a time, with each transaction in the channel due for its own. `OneAtHand` is
that the engine sends one transaction at a time and the loop handles one event. `SignalFollows` relates the
last broadcast to the state, which `LaunchKeptUntilMined` does for the launches.

**`PartsProofs`.** `OutlookInv`: what the simulator keeps, an entry check was given and a trader has
not yet seen was simulated for a block up to the newest, and a launch that is kept is one. `ExitInv`:
the two tests are of the sales as they are. `SearchInv`: each
token and factory visited so far has left its pool or a later one, no factory visited was one without a new
pair, and nothing is found that is not there. The
highest tax, `CHOOSE`n from a set, and the first valid block need that such members exist; the latter
is the least-number principle, cited as `WFMin` for `<` on the naturals.

`SaleInv` follows the loop of a partial sale: while something is left to sell, the order so far
empties one wallet after the other (`Begun`), and when nothing is left it is `Complete`: all
but the last sale take the whole wallet, and the last one takes something. `Estimated` is a complete
list with each sale once or as often as there are sales, next to each other; where these copies are
is the lemma `Places`, and `RepeatedFacts` counts them. The balances are summed by the recursive function `Sums`. What
it computes for a sequence of any length is proved by induction from the least number that is not in a set
(`Induction`): that the sums exist and are naturals, that they grow, agree up to where two
sequences do, and stay after the last member that is not zero. A sale that does not fit
has a cause in the inputs (`SaleIsTooLarge`): too large a balance, too many wallets, or no wallet left,
and then more than the total was asked for (`AmountFacts`).

**`MaxBuyProofs`: `MaxBuyInv`.** As long as nothing has been bought (`Shrinking`) the interval is zero and the
balance over a power of three, and reaches the largest purchase; once something has been bought
(`Narrowing`) the interval goes from next to the best purchase to beyond the largest, and is at most about twice
the largest purchase long. Two lemmas carry it: `PurchaseIsSeen`, in an interval of that length some point
above half of the largest purchase can be bought and leaves something after the tax, so no round turns back; and
`BestIsLast`, the best point is the last that can be bought, so the next interval still
contains the largest purchase. Rounding is part of both (`PointFacts`: how far the points of
`(upper - lower) * i / 15` lie apart). The first proof attempt failed where the tax leaves a single unit: that case is the
exception in `HighestIsFound` described above.

Only model-checked:

- liveness: `TerminateEnds`, `QueuedIsDrained`, `WaitingIsResolved`, `AnsweredInTheEnd`,
  `SimulatorsGoWithTraders`, `CreateIsAnswered`, `LaunchIsSignalled`, `OpenIsSignalled`,
  `GuardsAreReleased`, `SearchEnds`. The prover does not treat fairness and `ENABLED`.

## Not modelled, and why

- What revm computes, ABI encoding, signing, access lists, generated bindings: no control of their
  own, out of TLC's reach. The results of a simulation are inputs of the modules.
- The sums of profits and costs in `position.rs` beyond the test of `realized_pnl`, and the formula of
  the base fee in `stream/block.rs`: arithmetic of one expression.
- The text form of identifiers and the conversions between types: identifiers are model values.
- `stream/tx.rs` forwards a subscription into a channel. That transactions come late or never is
  in `Simulator`.
- Several traders over one executor, and the trader with the simulator step by step: each module has
  the other side as an environment that may do anything the code of the other side can.
- `normal_sender.rs`: its only call is commented out. `Executor` models what is left, a task that
  drops the order.
- Events forwarded to Kafka and logging: output only.
- The `dry` feature's shortcuts.
- A trader task that panics while the process goes on: its effect on the position is that of
  `Crash`, and its entry in the engine's map is that of an ended trader (`Engines_map`).

## Plan

1. Abstract specifications of `ForkBackend` (a cache that answers each request once) and of `Engines` (a
   simulation that is shared while it has listeners), with refinements, as `OrderService` is for
   `Executor`.
2. Compositions: several traders over `OrderService`, and `Trader` with `Simulator`.
