# Verification of astroport-core (Juno)

TLA+ models of the contracts and of the indexer in this repository, the TLC
configurations that check them, and TLAPS proofs about them. Paths without a
prefix are relative to the root of the repository; file names such as
`state.rs` without a directory are those of `contracts/tokenomics/incentives/src`.

- [1. The system](#1-the-system)
- [2. Plan](#2-plan)
- [3. Modules](#3-modules)
- [4. Runs](#4-runs)
- [5. Assumptions and fairness](#5-assumptions-and-fairness)
- [6. Where the code departs from what is said of it](#6-where-the-code-departs-from-what-is-said-of-it)
- [7. Proofs](#7-proofs)
- [8. Only model-checked, or not modelled](#8-only-model-checked-or-not-modelled)

## 1. The system

Contracts run as transactions: a message is handled to the end, its
submessages after it, and an error takes everything back. The difficulty is in
long sequences of messages, in the time that passes between them, in rounding,
and in submessages that call back. The indexer is ordinary concurrent software:
processes that share a database and can die between any two statements.

| component | state | operations | interacts with | what makes it correct |
|---|---|---|---|---|
| **incentives** (`contracts/tokenomics/incentives`) | `POOLS`, `USER_INFO`, `EXTERNAL_REWARD_SCHEDULES`, `FINISHED_REWARD_INDEXES`, `ORPHANED_REWARDS`, `ACTIVE_POOLS`, `BLOCKED_TOKENS`, config | deposit, withdraw, claim; set up pools, set the rate, block tokens, deactivate; incentivize, remove a reward, claim orphans | asks the factory whether a pair is registered and its type blacklisted; is called by the factory at deregistration; pays by submessages with replies | everybody gets exactly the share their stake earned, once; every position can be left; nothing is owed that is not held; the allocation points add up |
| incentives: replies (`reply.rs`) | `NEXT_REPLY_ID`, `PENDING_REWARD_TRANSFERS` | register, reply | the chain's submessages, re-entrant tokens | one payload for one transfer; a failed one is orphaned exactly once |
| **factory** (`contracts/factory`) | `PAIRS`, `PAIR_CONFIGS`, `TMP_PAIR_INFO`, `TRACKER_CONFIG`, config | create a pair and its reply, deregister, configure pair types | instantiates pairs, calls incentives; pairs read the coin registry | the pair of a key is one of assets with that key, set up to its end; pairs agree on decimals; a deregistered pair earns nothing |
| ownership (`packages/astroport/src/common.rs`) | `OWNERSHIP_PROPOSAL` | propose, drop, claim | incentives, factory, registry | only a proposed and unexpired candidate becomes owner |
| **pair** (`contracts/pair`) | balances, LP supply, price accumulators, `BALANCES` snapshots | provide, withdraw, swap | factory for fees, tracker, incentives (auto-stake) | the value of a share never falls; prices accumulate modulo 2^128 |
| pair_stable | the same, `PRECISIONS`, the ramp of the amplification, observations | the same, start and stop a ramp | the same | the invariant per share does not fall but for rounding; the amplification moves slowly |
| pair_concentrated (`packages/astroport_pcl_common`) | the same, parameters, price scale, oracle price, profit and losses | the same, promote amp and gamma, update parameters | the same | the recorded profit is there; a repeg leaves half of it; the price scale follows prices that lasted |
| router | what was left with it | a chain of swaps | pairs | each hop swaps all that is held by then; at least what was simulated is delivered |
| observations, circular buffer (`packages/circular_buffer`, `observation.rs`) | a ring of observations, one that waits | save, query | pairs | the newest n entries; the search finds the right two; answers stand |
| oracle, tokenfactory_tracker, native_coin_registry, whitelist | small maps and accumulators | update, query | pairs, the bank | averages survive the wrap; snapshots equal the bank's balances |
| **indexer: ingestion** (`indexer/src/indexer.ts`, `db.ts`) | cursor, `processed_blocks`, staging batches, events | plan a range, write blocks or merge a batch | RPC, Postgres | every block up to the cursor is there once, from one fork |
| indexer: candle jobs (`db.ts`, `candle-worker.ts`) | `candle_jobs`, `swaps`, `token_candles` | enqueue, claim, rebuild, complete, fail | the ingestion's transactions, several workers | completed candles contain every swap, and candles catch up |
| indexer: snapshot jobs (`db.ts`, `snapshot-worker.ts`) | `snapshot_jobs` | enqueue, claim with a lease, succeed, fail | the same | no job is left behind; attempts are bounded |
| indexer: API, frontend, packages, deployment | none of their own | reads, forms, scripts | everything | out of scope |

Hard behaviours, each with its lines in `PROJECT.json` under `hazards`:

- *incentives*: a reward ends, is removed and returns while a position sleeps;
  schedules overlap and a pool sleeps through several of their periods; two
  messages in one second; orphans; transfers that fail or call back; the
  reward-token limit; rates recomputed after every change of the active pools.
- *factory*: a reply that finds the slot of another creation; creations that
  fail within others; keys that collide; proposals that outlive an owner.
- *pairs*: rounding in sequences of messages, deposits that are or are not in
  the balance yet, sums that wrap, a ramp that is restarted, a price scale that
  moves while fees leave, a ring that goes round.
- *router and tracker*: what a route finds when its turn comes; movements of a
  token announced before they are made.
- *indexer*: workers overtaken as stale, swaps committed during a rebuild,
  crashes between commits, reorganisations, two ingesters.

## 2. Plan

In the order of what a mistake would cost; what is done is what sections 3, 4
and 7 describe.

| step | modules | state |
|---|---|---|
| incentives: rewards, positions, emissions, and second-by-second accounting as its promise | `PoolRewards`, `Incentives`, `IncentivesProperties`, `RewardLedger`, `IncentivesLedger` | done, with proofs |
| incentives: transfers and replies | `RewardTransfers` | done, with proofs |
| candle jobs | `CandleJobs` | done, with proofs |
| ingestion and snapshot jobs | `Ingestion`, `SnapshotJobs` | done, with proofs |
| constant product pair, LP token tracker, router, oracle | `Decimals`, `PairMath`, `LpToken`, `Snapshots`, `Pair`, `LpTracker`, `Router`, `Oracle` | done, with proofs |
| factory, coin registry, ownership | `Ownership`, `Factory` | done, with proofs |
| observations | `CircularBuffer`, `Observations`, `PriceObservations` | done, with proofs |
| stable pair | `StableMath`, `StablePair` | done, the amplification with proofs |
| concentrated pair | `ConcentratedMath`, `ConcentratedPair` | done, the price scale and the observations with proofs |

Left: routes over pairs of several kinds; tracking of balances that is switched
on in a pair that exists; `candle_jobs` fed by `Ingestion` instead of by
`WriteBlock`; bounds on the error of the rounded curves, which the proofs of
`ProfitBacked`, `RepegKeepsHalf`, `ValueKept` and both `QuotesSuffice` would
need.

## 3. Modules

`Sums` has the two sums all modules use, as recursive functions, so that the
modules can be proved about. A definition whose name has an underscore, such as
`SyncPosition_OldTime`, is not part of a model: it is the definition before the
underscore as a plausible mistake would make it, and stands in front of it; each
property is known to fail when one of them takes the place of the original.

### PoolRewards

`state.rs` as operators from values to values. A pool in storage (`EmptyPool`,
`total_lp`, `last_update_ts`, `rewards`) is loaded into memory with a list of
rewards to remove (`Load`), brought up to a time (`UpdateRewards`), changed
(`SetInternalRewards`, `DisableInternalRewards`, `IncentivizeReward`,
`DeregisterReward`) and saved (`Stored`, `SaveFinished`, `OrphanCredit`).
`UpdateReward` is the loop of `update_rewards` over the periods of a schedule
that have passed, without the loop: the emissions of the stretches are summed
(`PassedRewards`) and the last one that has not ended goes on (`Running`).
Positions are `UserInfo` records; `FinishedReward`, `ResetUserIndex` and
`ActiveReward` are what a claim pays for the rewards that ended and for those
that run, and `ClaimUnderflows` says that the checked subtraction at
`state.rs:691` fails.

Decimals are integers times `Scale` (10^18 in the code); every division rounds
down where the code's does (`Floor`, `CalculateReward`, `ScheduleRate`,
`InternalRate`). Tokens are numbers, token 1 is the reward token, and
`Internal` (0) is the key of `RewardType::Int`: the same order as the storage
keys, which `ClaimOrphanedRewards` depends on. The schedules of a token are a
function from the second a period ends to its rate, 0 for none. Epochs last
`EpochLength` seconds.

### Incentives

One action for each message, with the factory's deregistration and blacklist.
A handler that returns an error leaves no trace, so its checks are guards.
`Loaded(p)` is `PoolInfo::load` and `update_rewards`; `SavePools` and
`OrphanedBySave` are the effect of `save`; `PayClaim` is `claim_rewards`. A
transfer may fail only for the tokens in `FlakyTokens`, or when the balance does
not suffice, and is then credited to `ORPHANED_REWARDS`: the two steps of
`RewardTransfers` in one, which is sound because that module shows that a
payload is settled once whatever happens in between. `Deposit` stands for the
three ways into `deposit` (native coins, cw20 hook, on behalf of another).
Fees of `Incentivize` never rest in the contract. Several schedules in one
message (`incentivize_many`) are several `Incentivize` steps at one time.

### IncentivesProperties, RewardLedger, IncentivesLedger

`IncentivesProperties` states the invariants. `RewardLedger` is the promise
without its mechanism: each second every pool emits what was planned for that
second and those who are staked then are owed their shares at once.
`IncentivesLedger` maps the contract to it (`owed` is what the `PendingRewards`
query returns, `plan` is read off schedules, `free` is the balance without
orphans) and has `ImplementsLedger` as the property.

### RewardTransfers

Handlers that nest. `store` is the storage as the running code sees it, `stack`
holds the frames of the running transaction with their queues of submessages.
`Handle` registers the transfers and returns them (`claim_rewards`,
`claim_orphaned_rewards`; `remove_reward_from_pool` sends its one transfer in
the same way), `Begin` saves the storage, `Succeed` moves the money and calls
`reply`, `Fail(i)` restores what was saved and calls `reply` with an error,
`Abort` restores the last commit. What is not in `src/` (wasmd's dispatch) is
marked external in the map.

### Decimals, PairMath, LpToken, Snapshots

What the pairs share. `Decimals` is the arithmetic of `Decimal` and
`Decimal256`: whole atomics, every operation rounds down. `PairMath` translates
`compute_swap`, `compute_offer_amount`, `calculate_shares`,
`get_share_in_assets`, `assert_max_spread` and `assert_slippage_tolerance` of
`contracts/pair`. `LpToken` mints (the minimum to the pair itself at first, the
share to the receiver or to incentives), burns and sends. `Snapshots` is
`SnapshotMap` with `Strategy::EveryBlock`: the value before the first write of
each height, and the query that walks from a height to the next such entry.

### Pair

One action for each message of `contracts/pair`. `pools` is what the bank and
the cw20 contracts say, before the assets of a message: a native deposit is
in that answer already and is subtracted, a cw20 deposit is pulled afterwards,
and both ways the handlers compute with the balances before. `SwapResult` has
the three ways out of a swap (receiver, maker, fee sharing) and `leaving` what
leaves the ask pool; `AfterSwap` is what the handler believes to be left, which
it stores in `BALANCES`. `AccumulatePrices` runs with the pools before the
message, as in the code. `Donate` is a plain transfer, which no handler sees.

### LpTracker, Router, Oracle

Each is composed with the pair and adds actions to the pair's. `LpTracker` is
`contracts/periphery/tokenfactory_tracker`: the chain announces each movement of
the LP token before it makes it; the movements of one message follow one
another (`Track`). `BurnNotifies` is whether the chain calls once more after a
burn; `FALSE` is the pessimistic choice. `given` remembers what plain transfers
brought since the pair's last message, which no handler has seen, and `began`
what each block began with. `Router` folds `execute_swap_operation`
over a route within one transaction (`Travel`), each swap offering what the
router holds by then, with what somebody left there; with one pair, a route of
two hops returns to pools it has changed itself, which is the hardest case for
the simulation. `Oracle` samples `CumulativePrices` at arbitrary times; `seen`
and `span` remember the prices that stood.

### StableMath, StablePair

`ComputeD` and `CalcY` are the Newton iterations of `math.rs` step by step, on
decimals that round down (`DStep` is `calculate_step`), as folds over the
iterations that stop at the tolerance. `StablePair` has the handlers of
`pair_stable` with assets of different kinds (`Native`: a native deposit is
taken off, a cw20 deposit is not there), one-sided liquidity with its fee
(`Shares`), `StartChangingAmp` and `StopChangingAmp`, swaps with fees, the
accumulated prices and the observations. `amps` remembers the amplification of
each block.

### ConcentratedMath, ConcentratedPair

`CurveF` is the function whose roots `newton_d` and `newton_y` approach.
`CalcD` and `CalcY` find the same roots by bisection, to the last digit: the
iterations converge to them within the tolerance of the code, and on the coarse
decimals of an instance Newton's derivative would only add errors of its own.
`HalfPow` is the series of `half_float_pow` with its tolerance. `UpdatePrice` is
`update_price` in its parts: oracle price, profit, losses, and repeg.
`ConcentratedPair` has the handlers: provide with the imbalance fee, withdraw,
swap with the dynamic fee, `PromoteParams`, `StopPromotion`, `UpdateParams`, fee
sharing, the accumulated prices, `BALANCES` and the observations. `traded`
remembers the last price of each block, `valuedWith` the amp and gamma with
which the profit was last computed.

### CircularBuffer, Observations, PriceObservations

`CircularBuffer` is the array and the head, read modulo the capacity.
`Observations` adds what a swap does: commit what waits with the moving average
(`AccumulateSwapSizes`), leave its sizes to wait (`SavePrecommit`), and the
query with its binary search (`Neighbours`) and interpolation. A range that has
become empty has no answer (`Endless`): the loop of the code would not end
there. It is part of both pairs above, and states what either should promise:
`Reference` is the same answer found by looking at every observation that is
kept. `PriceObservations` drives it alone, with any sizes of swaps, until the
ring has gone round.

### Ownership, Factory

`Ownership` is `common.rs`. `Factory` instantiates it twice, for the factory
and for a pair, whose owner is the factory's until it has one. A creation is a
frame of `calls` between `CreatePair` and `RegisterPair`, the reply;
`DenomCreated` and `TrackerInstantiated` are the pair's own replies in between,
in which the pair's code may create another pair. `FailCreation` takes back the
creation and all within it. `Key` is a function of sets of assets that may
collide, as concatenated denoms do. The coin registry is a function; `touched`
remembers what its owner changed. `Deregister` of this module removes the entry;
its call of incentives is in `Incentives`.

### CandleJobs

`WriteBlock` is a block's transaction (`mergeStagedBatch`, or `writeBlock` with
`enqueueCandleJobForSwap`); a batch merged a second time brings no swap and
enqueues all the same. A worker's statements commit one by one:
`ClaimNextCandleJob`, `ReadSwaps`, `WriteCandle` for each row,
`CompleteCandleJob`, and `FailCandleJob` or `Crash` between any two of them.
Candles are not fenced, completion and failure are (`Holds`). A row says how
many of the day's swaps it was built from, and a job has one row for each of
the three intervals: what a row contains is a function of the swaps that were
read, so their number is what tells rows apart. Times are left out: `run_after`
only delays a claim, and staleness is the guard `Stale`.

### Ingestion, SnapshotJobs

`Ingestion` is `indexer.ts` with the tables it writes. An ingester plans a range
after the cursor, fetches its blocks in any order while the chain may grow or
replace its last blocks, and writes them one transaction each (`WriteBlock`) or
all in one (`WriteBatch`); `Accepts` and `AcceptsBatch` are the checks of
`recordProcessedBlock` and `validateStagedBlockContinuity`, `Record` what one
transaction does. `WriteReserveSnapshots` is the inline snapshot after the
commit. A crash is possible wherever an ingester has something to lose. One
pair is followed, with a swap in each block from the one that creates it.
`SnapshotJobs` adds the workers: they claim a batch, the leases run out at any
time without their knowing, and each job is then marked by those who think they
have it (`Owns` is the `WHERE` clause that decides).

### MC modules

Each gives the structured constants of one component their values. The modules
`SumLemmas`, `IncentivesProofs`, `TransferProofs`, `CandleProofs`,
`FactoryProofs`, `PairProofs`, `CurveProofs` and `IndexerProofs` hold the proofs
(section 7).

## 4. Runs

Deadlock is not checked: every model stops when its bounds are reached.

| run | states | what it asks |
|---|---|---|
| `stakes` | 170538 | Two stakers and a reward that starts, ends, is removed (keeping or bypassing later periods) and returns; transfers fail. Positions can be left, stakes add up, debts are backed, schedules run past the update. |
| `emissions` | 64560 | Two pools and a staker; pools set up, blacklisted, deactivated and deregistered in every order, tokens blocked two at once, of one pool and of both; rates that do not divide. Pools stay listed, only a batch with two tokens of one pool breaks the sum of the points and new points mend it, rates are within bounds while it holds, and what is emitted is the rate of that second (`ImplementsLedger`). |
| `ledger` | 68382 | Two stakers, schedules of one and two epochs, overlapping, pools that sleep for three seconds: the refinement for external rewards (a claim that shrank, or a second that was counted twice, would be a step the ledger does not have). |
| `transfers` | 4253 | Three claims over two tokens, nested three deep: each payload stays with its transfer, and nothing is lost or paid twice. |
| `pair` | 232979 | Pair, tracker and router in one: shares are backed, no share loses value, the pair's history is what it held less exactly the gifts it had not been told of, the tracker's is what was held, quotes suffice, routes that come back deliver what was simulated. |
| `oracle` | 980714 | The oracle's averages lie between the prices that stood, with sums that wrap at 16 and samples at any time. |
| `stable` | 504108 | The amplification started, stopped and restarted; liquidity of one asset and both, swaps with and without fees: the pace of the amplification, the worth of a share, that quotes suffice. |
| `concentrated` | 51710 | Deposits, gifts, swaps that move the price scale, promotion of amp and gamma, fees paid out: profit is backed, a repeg leaves half of it, the price scale follows prices that blocks ended with, quotes suffice. |
| `observations` | 97925 | A ring of three through more than two rounds: the query against its reference, answers that stand, averages among the prices. |
| `factory` | 1412748 | Creations within creations, failures, colliding keys, a registry that changes, handovers with expiry. |
| `indexer` | 23043 | Two ingesters on one cursor; a poller with inline snapshots; a poller with two workers. Ledger, counting, marks, and that ingestion and jobs come to an end. |
| `candles` | 249636 | Two workers, two days, two swaps each, two losses: freshness, no going back, catching up. |

Why the bounds are enough.

*Time*: epochs of one or two seconds put the start, the end, the sleep through
an end and the return of a reward within four seconds, the longest of
the sequences the code distinguishes (before, at, after the end of a period; one
and several periods passed). Pairs live for three to five blocks: one to
provide, one to trade, one in which accumulated sums and last prices are used;
ramps take two, the shortest a ramp may take, so that one can be run, stopped
and restarted. Observations have eight, so that a ring of three goes round
twice. *Actors*: shares interact only through totals; two stakers have every
relation. The pairs have one user besides the pair itself and incentives,
because no handler looks at who sends; the theorems of the constant product pair
hold for any number. Ingesters and candle workers are two: one that acts and one
that overtakes it. *Pools*: emission rates are coupled through the total of
points; two pools allow one to leave while the other stays. *Money*:
`MaxBalance` allows a second deposit while the first is running; pools of at
most 13 units make every rounding error a large part of the amounts; `MaxLeft`
lets something stand in the router's way. *Decimals* have two to five digits
instead of eighteen, so that one atomic is large as well; the ratios between the
code's constants are kept in order (the tolerance is far below a unit, the
unit below the amounts; `MinTradeSize`, 260 and 800 atomics, is
below an offer, so that the return decides whether a swap is observed). One ask for
each pair is quoted (`Asks`), before and after every swap.
`Modulus` is 16 in `oracle`, where sums wrap, and 1 (accumulated sums are
constantly 0) in the runs that do not ask about them. *Amplification*: a factor
of 3 within two blocks, from 1 to 3 and 6, where the code has 10 within a day.
*Choices*: `stable` and `concentrated` have no autostaking, which differs only
in who gets the shares, and no tracked balances; both are in `pair`. *Nesting*:
three claims have an inner, an outer and one in between; two creations are one
within another; six ids are what six transfers need, and `MaxReplyId` stands for
the gas that bounds nesting. *Factory*: one pair type that is both priced and
trackable and two keys for three assets. *Indexer*: four blocks, a depth of one
and a replacement of two blocks let the chain replace a confirmed block; one
crash at any point; two attempts are one that is lost and a last one. *Candles*:
a swap before and one during a rebuild; a loss of each of the two workers.

## 5. Assumptions and fairness

- **A careful owner** (`CarefulOwner`): in the runs of incentives the owner
  removes a reward only when nothing of it is orphaned and in a block in which
  nobody claimed from the pool and no other reward of it was finished. The code
  does not ask for this; section 6 says what happens without it.
- **Pools within the scale**: the theorems about the pair assume that a pool
  holds at most `Scale` units, 10^18 in the code (`MaxPool <= Scale`). The swap
  subtracts a quotient that was rounded down at the 18th digit; with more units
  than that, the digit is worth a unit and the trader may get it. The assumption
  is needed by that step alone; for a token of six decimals it is 10^12 whole
  tokens, for one of eighteen it is a single one.
- **Assets of five or more decimals** (`Unit[i] <= MinTradeSize` in three
  theorems about the concentrated pair): a whole unit of either asset is at most
  `MIN_TRADE_SIZE`, 10^-5 (`packages/astroport/src/pair.rs:22`). A swap that is
  observed then returns at least one unit; section 6 says what happens without.
- **Limits of the parameters** (`PclInputs`): those of
  `packages/astroport_pcl_common/src/consts.rs` in their order, and what the
  messages of a run may carry, as `Inputs` of `ConcentratedPair` lists it.
- **Gifts**: the oracle is checked without plain transfers to the pair, which
  change the price of time that has passed already (the pair prices the time
  since its last message by what it holds now).
- **One period, one wrap**: in `oracle` the sum over a period must not exceed
  the modulus, 2^128 in the code.
- **An owner who leaves coins alone**: `PairsAgreeOnDecimals` speaks of coins
  that the registry's owner did not change.
- **Rounding and tolerance**: `ValueKept` allows for one unit of an asset and
  the tolerance of the iterations, `ProfitBacked` and `RepegKeepsHalf` for
  `Rounding` atomics, 2 of 10000.
- **Punctual workers** (`Punctual`): a rebuild of candles takes less than
  `CANDLE_WORKER_STALE_AFTER_MS` (ten minutes), or its worker is dead. An
  overtaken worker that lives still writes its older candles, and nothing
  repairs them until the next swap of the day: the mutated
  `Claimable_AnyRunning` shows it.
- **Whole days**: `CANDLE_WORKER_BATCH_SIZE` is at least the number of swaps of
  a day, as its default is.

Fairness is stated in two modules. `CandleJobs` has weak fairness of each worker's next
statement and of the claim of each job: a worker polls for ever
(`candle-worker.ts:36-41`), ends on an error and is started again by its
supervisor, and claims are ordered by `run_after`, so that no job is passed over
for ever. `SnapshotJobs` has weak fairness of each ingester's next step
(`indexer.ts:79-85` repeats `runOnce` for ever, and the process is started again
when it throws), of each worker's answer, and of
a claim of each job: claims take the oldest rows first, and a lease runs out by
itself. Ingesters' crashes, errors and lost candle workers are bounded
(`MaxCrashes`, `MaxLosses`); a snapshot worker's death costs an attempt, and
those are bounded by the code. None of them is fair. `CatchesUp` says nothing
once a confirmed block was replaced: then the ledger refuses every block
that follows, by design. All other modules state safety only: nothing in a
contract happens unless somebody sends a message.

## 6. Where the code departs from what is said of it

Met while modelling; each can be followed in the lines given.

Incentives:

- `save` writes the finished entry of a pool and second as a whole
  (`state.rs:482`). Two rewards removed in one second leave the second one's
  entry only, and outstanding claims on the first are gone; `state.rs:28-29`
  promises that they can be claimed.
- A staker claims, and later in the same second the reward is removed. The
  position, which looks for entries after `last_claim_time` only, keeps its
  index. When the token returns and is finished with a lower index, the
  subtraction fails (`state.rs:691`) in every claim, deposit and withdrawal of
  that staker.
- The orphaned part of a removed reward is sent to the receiver and credited to
  `ORPHANED_REWARDS` as well (`state.rs:393`).
- The limit of reward tokens is tested with `==` (`state.rs:296`). The reward
  token may exceed it, and afterwards so may any other.
- Blocking two assets of one pool in one message subtracts its points twice
  from `total_alloc_points` (`execute.rs:488`), though
  `packages/astroport/src/incentives.rs:364` says that it "must be the sum of
  all allocation points in all active generators". The other pools are then
  given rates that together exceed `reward_per_second`, and a later
  deregistration or block may fail in the checked subtraction, until
  `SetupPools` computes the sum anew. `AllocPointsAddUp` names this batch as the
  one message that breaks the sum, and `EmissionWithinRate` speaks of the times
  when the sum is right.
- Periods left behind by a removal with `bypass_upcoming_schedules` are read
  again when the same token is incentivized later and its first schedule ends
  (`state.rs:139`), though `packages/astroport/src/incentives.rs:155` says they
  are stuck forever.
- `deactivate_pool` returns early for a pool whose rate is zero
  (`utils.rs:175`), so that a pair deregistered while `reward_per_second` is
  zero keeps its points and emits once a rate is set, though
  `contracts/factory/src/contract.rs:437` says its points are set to zero.

Pairs:

- `compute_offer_amount` rounds the offer it quotes down
  (`contracts/pair/src/contract.rs:1249`): whoever offers just the quote may get
  less than he asked for, by as much as one unit of the offered asset is worth
  (of pools of 249 and 704 units, 3 are quoted for 10 at 0.6 percent, and return
  8). `QuotesSuffice` speaks of one unit more.
- A route of three or more swaps over one pair may deliver a unit less than the
  router simulates, which asks for each swap of the pair as it is before the
  route (pools of 5 and 47 units, 0.3 percent of which the maker gets 7, and 2
  offered: after three swaps 7 are simulated, 6 delivered). `RoutesDeliver`
  promises as much for two.
- Moving averages: "the next index contains the oldest value" is said of
  `buffer.head() + 1` (`contracts/pair_stable/src/utils.rs:349`, and the same in
  `pair_concentrated/src/utils.rs`), but the oldest is at `head()`. The entry
  that leaves the sum is the second oldest, so that the average is not the mean
  of the entries kept; it still lies among the prices observed.
- `PrecommitObservation::save` adds up the sizes of one block's swaps
  (`packages/astroport/src/observation.rs:174`), but the second swap of a block
  has committed what waits before, though it is of that very block; what the
  later swaps add is skipped, because an observation of that time is there
  (`contracts/pair_stable/src/utils.rs:347`). A block is observed by its first
  swap alone.
- `pair_stable` accumulates prices with pools that include a native deposit of
  the same message (`contracts/pair_stable/src/contract.rs:435`: what line 386
  takes off is a copy); `contracts/pair` takes it off first.
- The stable return is what is left of a pool rounded to whole units
  (`contracts/pair_stable/src/utils.rs:271`): up to one unit goes to the trader.
  `ValueKept` allows for it.
- The concentrated pair compares the profit with the one recorded before amp and
  gamma moved, as soon as the ramp has ended
  (`packages/astroport_pcl_common/src/state.rs:382`): what the last stretch of a
  ramp did to D is booked as a loss and may refuse a trade.
- With `min_price_scale_delta` 0 and the oracle at the price scale, `norm` is 0
  and the new price scale is divided by it
  (`packages/astroport_pcl_common/src/state.rs:425`).
- Swaps are observed from `MIN_TRADE_SIZE` on, which is compared in decimals,
  before the return is rounded to whole units. For an asset of fewer than five
  decimals the observation may be one of a return of 0, and the next swap
  divides by it (`contracts/pair_concentrated/src/contract.rs:768`).
- The minimum that the concentrated pair keeps at first is left out when a share
  is valued (`contracts/pair_concentrated/src/utils.rs:208`); what was given to
  an empty pair before is the first provider's.
- The concentrated pair ignores `min_assets_to_receive` of a withdrawal, and
  `mid_fee` may be raised above `out_fee` by an update of one of them.
- The tracker saves the supply as it was before a burn
  (`contracts/periphery/tokenfactory_tracker/src/contract.rs:123`): what
  `TotalSupplyAt` answers is too much until the next movement.

Factory and indexer:

- The owner of the factory may propose a first owner of a pair; the proposal
  stands when the factory has passed to somebody else
  (`packages/astroport/src/common.rs:104`). `OwnersChosenInTime` allows for it.
- A snapshot job whose worker dies on the last attempt stays leased for ever:
  no claim takes it and nothing fails it (`indexer/src/db.ts:180`). `JobsSettle`
  allows for it.
- Reserve snapshots written inline after the commit are lost in a crash
  (`indexer/src/indexer.ts:162`).

## 7. Proofs

All theorems are about `Spec` of their module for every value of the constants
that satisfies the named assumptions.

- `SumLemmas`: sums over ranges and subsets: their type, bounds, monotonicity,
  and what changing one term does; what a quotient that is rounded down keeps;
  remainders (of what is counted round a ring or wraps) and the least and the
  greatest of a bounded set.
  Induction over numbers is `RangeInduction`, about a set of them.
- `IncentivesProofs` begins with what the operators of `PoolRewards` keep: the
  types of pools, schedules, finished entries and positions, `last_update_ts`
  within the present, and that every external reward runs past the update. Then
  `TypeCorrect`, `StakesAlwaysAddUp`, `SchedulesAlwaysRunPastUpdate` and
  `TimesAlwaysOrdered` need one another: a withdrawal leaves `total_lp` unsigned
  because it is the sum of the stakes; `rps * (next_update_ts -
  last_update_ts)` is unsigned because schedules run past the update; that is
  kept because a pool is never updated beyond the present; and a claim finds
  every finished entry that concerns it because no entry is newer than its
  pool. Their conjunction `IInv` is inductive; the proof has a lemma for each
  group of actions.
  - *Emissions*: `EmittingPoolsAlwaysListed` and `BlockedPoolsStayInactive`, from
    an invariant of their own about stored rates; `AllocPointsAlwaysAddUp` and
    `EmissionAlwaysWithinRate` hold for every batch of blocked tokens. The sum
    is not an invariant (section 6), so that what is proved of each action is
    about its step (`KeepsPoints`): points that it sets are summed anew, and
    else it keeps a sum that is right unless it blocks several tokens of one
    active pool. `RatesShared` is an invariant whether the sum is right or not:
    each active pool has just the rate that follows from its points, the total
    and `reward_per_second`. Whenever the sum is right, the rates then add up to
    no more than what is shared, since quotients that are rounded down do
    (`SharesWithin`).
  - *Exits*: `PositionsCanAlwaysExit`, under `CarefulOwner`. The invariant
    `ExitInv` says of each position and token that the index it was synced at is
    not beyond the one its claim begins with: that of the first entry finished
    after its last claim, or else that of the reward, or 0. Removing a reward
    keeps this because nobody claimed in that second (what makes the owner
    careful), so that every position still looks for the new entry.
  - *Owed*: `OwedAlwaysStays`, under `CarefulOwner`: no step takes back what a
    position is owed (`PendingReward`, what `query_pending_rewards` answers). One
    that nobody touches is owed the same after every message, in this pool or
    another, and no less when time passes; one that claims or changes its stake
    is owed nothing afterwards. This is the part of `ImplementsLedger` about
    `owed` with the roundings of the code left in, for all amounts. The claim is
    rewritten as its `Worth` (`ClaimIs`): what the entries it has not seen bring,
    and the growth of the index since, which is that of the stored reward and of
    the one being removed together (`MemIndex`). An update never lowers that
    index (`MemIndexGrows`), however many periods it passes. A save that removes
    the reward moves its index into an entry and restarts at 0, and the worth is
    the same (`SavedWorth`); for this nothing of the reward may be orphaned while
    someone is staked, and nobody may have claimed in that second, as `ExitInv`
    already needs. Every handler saves pools that are `Settled` in this sense
    (`StepsSettle`). Internal emissions are not in `ExitInv`; `InternalCovered`
    adds that no position is ahead of their index. `IndexOf` of a reward that is
    absent is 0.
  - *Backing*: `ExternalRewardsAlwaysBacked`, under `CarefulOwner` and without
    removals that bypass upcoming schedules (`TRUE \notin RemovalModes`). The
    property speaks of whole tokens and of pools brought up to now, which no
    handler keeps by itself; `Backed` counts in atomics of `Decimal256`, before
    anything is rounded down, and at the stored indexes. For each external
    token, the balance covers what all positions have gained (`Entitled`: the
    entries each has not seen and the growth of the index since it was synced,
    times its stake), what stored rates and schedules have still to emit
    (`ToCome`), what is set aside while nobody stakes, and the ledger of the
    owner. An update only moves between these (`UpdateConserves`,
    `UpdateKeepsDue`), save moves the gains of a removed reward into an entry
    (`SavedGained`), a claim pays at most what is gained (`ClaimWithin`: it
    rounds down once for each entry), and a schedule adds just its deposit,
    however many stored periods it overlaps (`InsertedAdds`,
    `IncentivizeAdds`). `OrderInv` is needed for that: stored periods end on
    epoch boundaries, and none ends before the one in force. A removal gives the
    receiver what was to come and leaves no period behind (`RemovalDue`).
    Neither condition can be spared, since each excludes a debt of section 6:
    the orphaned part that is paid twice, and the bypassed periods that a later
    schedule emits out of its own deposit.
  The first two groups do not use `CarefulOwner`: they hold for every owner.
- `TransferProofs`: `TransfersTypeCorrect`, `PendingAlwaysInFlight`,
  `NothingEverLostOrDoubled`, for any claims, amounts and nesting. A transfer
  that fails brings back an earlier storage, so that a statement about the
  present one alone is not inductive: `TransferInv` speaks of every storage that
  may come back. The one saved when handler `i` began its transfer has the
  pending entries of the first `i` handlers' messages, each message an id of
  its own, and its books balance; the last committed one has nothing pending.
- `CandleProofs`: `CandleTypes`, `CompletedJobsFresh`, `CandlesOnlyGrow`, under
  `Punctual` and `WholeDay`. `CompletedMeansFresh` alone is not inductive: a
  job completes correctly because its worker is the only one on it
  (`WorkersHold`: whoever works on a job holds it in the table), because what it
  read is all there is unless a rerun was requested, and because all rows it
  has passed say what it read (`ReadIsCurrent`).
- `PairProofs`: `PairTypeCorrect`, `SharesStayBacked`, `ShareValueHolds`, for
  pools within the scale. The rounding is in lemmas about `PairMath`:
  `ShareBounds` and `RefundBounds` (a share and a refund are at most in
  proportion), `GrossBounds` (what a swap pays leaves the product of the pools
  where it was or above; this is where `MaxPool <= Scale` enters), `ValueKept`
  (proportion in both pools means that value per share is kept). The invariant
  `PairInv` has the shares out add up to the supply (`SharesHeld`): without it a
  burn might leave less supply than the pair's own minimum, and a withdrawal
  could empty a pool. These are about `Pair` alone.
  `SharesStayBackedOnRoutes`, `ShareValueHoldsOnRoutes` and `RoutesLeaveNothing`
  are about the pair with its router: by induction over a route of any length
  (`RouteKeeps`) the product of the pools does not fall, what the last hop's
  handler believes to be left is what is held, and each asset that was offered
  is gone from the router. `BalanceHistoryAlwaysHolds` and
  `TrackerAlwaysAgrees` are about the pair with the tracker and its routes: each
  snapshot's current value is the balance, and loading it at any earlier block
  gives what that block began with. For the tracker that is all, and a message
  of several movements keeps it at each of them (`Passing`). Plain transfers to
  the pair bypass `BALANCES`: what is recorded plus what was given since the
  message before (`given`) is exactly what the pair holds, so that a record that
  is stale, early or rounded otherwise than the transfers would be found.
  `RoutesAlwaysDeliver` and `QuotesAlwaysSuffice` are about what is simulated:
  the return of a swap grows with the offer and with the pool that is asked and
  shrinks with the other (`GrossGrows`), rounding included, and each swap turns
  the pools in favour of the one that comes back; an amount of at most `Scale`
  units loses less than two between the rounded reciprocal of the rate and the
  rounded commission (`QuoteReturns`).
  `AverageAlwaysWithinPrices` is about the pair with its oracle, for any period,
  modulus and times of sampling. `OracleInv` says that what an accumulated
  price has grown by since the last sample is, up to a multiple of the modulus,
  the sum of prices that stood (`Grown`, `Within`): a message adds the piece
  since the one before it, which is what the seconds in between would have
  added (`SecondAdds`) because no message means the same pools.
- `CurveProofs`, about both pairs with a curve. `AmpAlwaysMovesSlowly`, for every limit on changes and every
  duration of them. A window of `MinAmpChangingTime` may see the end of one
  change and the beginning of the next. The two do not multiply to more than
  one change may have: the next one begins no sooner than that time after the
  former, so that what the former has made of the value in its last `u` units
  of time (`Approached`) leaves just the factor that the next one can make in
  the rest of the window. `AmpInv` keeps the history of both.
  The theorems about observations are for rings of any size, first of the stable
  pair.
  `QueriesAlwaysFindMoment` and `AnswersAlwaysStand` rest on `ObservedInv`: the
  last entries of the log are in the ring where its head says (`RingInv`), and
  their times increase, because what is committed is later than what was. The
  binary search is then right by induction on the width of its range
  (`SearchExists`, `NeighboursAre`): the target never leaves it, so that it does
  not become empty. `AveragesAlwaysWithinObserved` needs to know what the averages
  sum up, since it is not the entries kept (section 6): from the moment the ring
  is about to be full, the average times the capacity is the sum of all but one
  of the latest prices and of one average that stays in it for ever, but for
  what each division rounded away (`AveragesRound`).
  The same three are proved of `PriceObservations` (`Alone` in this module), for
  swaps of any sizes, and of the concentrated pair (`Pcl`), for assets of five
  or more decimals: all three drive the same code (`SameObserving`), and what is
  left to show of the concentrated pair is that a swap which is observed
  returns at least one unit (`SwapPays`: the fees in whole units never exceed
  what is returned).
  - *The price scale*: `PegAlwaysFollowsTrades`. `PegKept` says that oracle and
    scale lie between the least and the greatest price that a block ended with,
    less two atomics for each block so far. The oracle is an average of itself
    and of the last price, weighted with the series of `half_float_pow`, which
    is a loop whose result must be shown to stay within the scale; the new scale
    lies between the old one and the oracle, since it steps towards it by a part
    of the distance that is never more than the whole; and both are kept when a
    repeg is taken back. Lemmas about bisection and about bounded loops are by
    induction over the rounds.
  - *Types and shares*: `ConcentratedAlwaysTyped` and
    `ConcentratedSharesAlwaysHeld` rest on the same invariant, `PclInv`: the
    parameters stay within their limits, those that amp and gamma come from as
    well as long as they change (`RampKept`), shares add up to the supply, and
    where there is a recorded profit there are shares.
- `FactoryProofs`: `RegisteredServes`, `DecimalsAgree`, `OwnersChosen`. The
  invariant `CreationInv` speaks of the whole stack: creations are numbered in
  the order they nest (`Nested`), every frame would go back to a register that
  names only contracts before it (`Saved`), a contract is as far set up as its
  frame says (`Due`), and the slot, as each creation would find it, has the key
  of its own contract or one that is taken (`SlotFits`): a creation that finds
  the key of one within it can only fail, because that one is registered.
- `IndexerProofs`: `LedgerStaysWhole`, `CountedOnce`, `MarksAreHolders`, for any
  deployment. `LedgerInv` says that what is recorded starts at the first block,
  has no gap and is one chain, that it is complete with its swaps and jobs
  wherever it is recorded (so that a cursor that moves back does no harm), and
  that what an ingester is about to write lies directly after something
  recorded (`Ingesters`), which is what makes a check of one parent enough.

## 8. Only model-checked, or not modelled

Only model-checked:

- the refinement `ImplementsLedger`, in which each second shares what it emits
  exactly: it holds where rates and stakes divide into whole units, as in its
  run, while rounded indexes give less. What can be said for all numbers is
  that nothing owed is taken back (`OwedAlwaysStays`) and that it is backed
  (`ExternalRewardsBacked`). Backing with removals that bypass upcoming
  schedules is only model-checked, in `stakes`, where one period at a time is
  stored;
- `QuotesSuffice` of the stable and of the concentrated pair, `ValueKept`,
  `ProfitBacked` and `RepegKeepsHalf`: they rest on how far the roots that
  iterations approach are from those of the exact curve. `ProfitBacked` also
  needs that a curve rounded at each operation is monotone, which it is only
  within an error that none of the lemmas bounds;
- the liveness properties (`CandlesCatchUp`, `CatchesUp`,
  `JobsSettle`), because the prover does not support liveness under fairness.

The two curves are checked on a few hundred units and four digits. That shows
the handlers' order of steps and of rounding, not that the iterations converge
for all pools of 10^18: the code itself fails a message in which they do not
within their limit. For the concentrated pair it is the roots that are modelled,
not the path of Newton's method to them.

Not modelled:

- in incentives: `UpdateConfig` (addresses and parameters that a run holds
  constant), the queries but `PendingRewards`, and the migration;
- in the pairs: queries that read storage back, migrations, swaps paid to
  somebody other than the sender and switching on the tracking of balances in
  a pair that exists;
- in the factory: paging queries, migration, and the deposit that registering
  a coin asks for;
- in the circular buffer: the pushes that are committed later and the iterator,
  which no contract uses;
- in the indexer: parsing of events, metadata of assets (a swap without decimals
  is left out of the candles), and `backfill:candles`, which rewrites candles
  without the job table;
- overflow of 128-bit and 256-bit amounts, which checked arithmetic turns into
  errors far from any state a run reaches, and gas, but for the bounds on
  nesting;
- the whitelist, a list of admins in front of messages it passes on; the
  frontend and the API, which keep no state that others depend on; deployment
  and scripts.
