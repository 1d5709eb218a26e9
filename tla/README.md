# A verification development for the course repository

This directory holds TLA+ models of the smart contracts of the repository and of
the parts of the vendored tool chain (`foundry-zksync`: anvil, forge) that keep
state, the TLC runs that check them on small instances, and TLAPS proofs of the
properties that matter most for every instance. `PROJECT.json` maps each
definition to the lines it models and lists components, runs, mutants, findings,
hazards and theorems.

## The system: an inventory

The Solidity projects do not call one another. The tool chain runs their tests
(forge), sends their transactions (forge script) and serves a local chain (anvil).

| Part | State | Hard behaviour | Correct means | Module |
|---|---|---|---|---|
| **DSCEngine**, DecentralizedStableCoin, OracleLib | deposits, debts, DSC ledger | prices move and go stale between transactions; rounding; a liquidation acts on two users and three contracts | books match tokens; no withdrawal into a broken position; seizure only on the liquidation terms; positions can be closed | `DSCEngine` |
| **Raffle** | players, OPEN or CALCULATING, pot | the answer comes in a later transaction; the winner runs code while being paid; the callback may revert | one draw at a time over a closed list; every round ends | `Raffle` |
| **RebaseToken**, **Vault**, **RebaseTokenPool** | principal, rate and timestamp per user and chain, the vault's ETH, messages | interest accrues between calls; rates travel in messages that arrive late and in any order | no token made or lost; nobody's balance falls unless they spend | `RebaseToken` |
| **FundMe** | funders, amounts, balance | the owner runs code while being paid and may refuse | what is recorded is what is held, and a withdrawal finds everybody | `FundMe` |
| **BasicNft**, **MoodNft** | counter, owners, URIs, moods | `_safeMint` calls out before the counter is raised | ids unique, each with what its minter passed | `Nfts` |
| **anvil: pool, node, miner** | five indices of the pool, mining mode, block producer | requests, the service and `evm_mine` interleave between locks | indices agree; no transaction twice or out of order; ready ones are mined | `AnvilPool`, `AnvilNode`, `AnvilLedger` |
| **anvil: backend** | blocks, index, state, history of states, snapshots, dump | snapshots, reverts, rollbacks, reorgs and restarts take several locks | chain, state, history and index belong together | `AnvilChain` |
| **anvil: time, fees, filters** | clock, next timestamp, fee cache, log filters | exact times, intervals and offsets take over from one another; notifications come late; blocks are reverted | no block before its parent; cached fees are the chain's; each log arrives once | `AnvilTime`, `AnvilListeners` |
| **forge: cheatcode inspector** | pranks, broadcasts, expectations, mocks, recordings per depth | hooks of nested calls that revert, are mocked or return early | senders are real; a pass means that what was expected happened | `Cheatcodes` |
| **forge: multi-fork backend** | databases, journals, forks, snapshots, shared handler | journals are swapped and merged under a running transaction | forks are separate; writes and failures survive switching and reverting | `ForkBackend` |
| **forge script** | sequences, receipts, pending hashes, files | the process stops anywhere; nodes lose transactions and answers | complete means all mined; slow means one after the other | `ScriptBroadcast` |
| **forge: invariant tests** | run, call sequence, failure, shrinker, failure file | discards, reverts, time-outs, limits; the file outlives the contracts | counterexamples replay; a broken invariant is not a success | `InvariantTest` |

## Conventions

*Contracts.* One external transaction is one action, two where the code calls out
and the callee may call back. A revert undoes the transaction, so each condition
under which the code reverts is a conjunct of the action. Actions and views have
the names of the Solidity functions; the first parameter is `msg.sender`.

*Rust.* A step is what happens under one lock or up to the next await, or, where
one thread owns the state, one call. Structures are records, options are sets of
at most one element, and operations on a structure are operators from it to the
result, named as in the source.

Definitions whose names end in `_Something` next to the original are mutants:
plausible bugs, one per property, under which the property fails. Variables called
history, `past`, `memory`, `story`, `taken`, `given`, `flips` only remember for the
properties, for the bounds and for what the environment may still do.

Several components that keep their state apart share one run: the MC module extends
all of them, its variable `part` chooses one in the initial state, and only that one
takes steps. The state space is the sum, not the product, of the parts.
`MCContracts`, `MCAnvilBackend` and `MCFoundry` are built so.

Left out everywhere: events, getters and error texts; token allowances (every
`transferFrom` spends tokens of the account that sends the transaction); gas, except
where it decides what a block takes. OpenZeppelin, Chainlink, CCIP, revm and the
remote nodes are modelled from how the code uses them and marked external.

## Modules

| Module | Content |
|---|---|
| `ERC20`, `Maps`, `FoldTheorems` | effect of transfer, mint and burn on a ledger; inserting into maps; lemmas on sums over finite functions and on folds over sequences |
| `DSCEngine`, `DSCEngineProofs`, `MCDSCEngine` | engine, coin, price check, feeds, time; proofs; instances |
| `Raffle`, `MCRaffle` | raffle, coordinator, keeper, time (proofs in `ContractProofs`); instances |
| `RebaseToken`, `FundMe`, `Nfts`, `ContractProofs`, `MCContracts` | the other contracts; proofs; one run for them and Raffle |
| `AnvilPool`, `AnvilNode`, `AnvilLedger`, `AnvilPoolProofs`, `AnvilIndexProofs`, `AnvilNodeProofs`, `MCAnvilNode` | the pool; the node that runs it; what the node promises; proofs; instances |
| `AnvilChain`, `AnvilTime`, `AnvilListeners`, `AnvilBackendProofs`, `MCAnvilBackend` | the parts of the backend; proofs about the last two; one run for them and the pool |
| `Cheatcodes`, `ForkBackend`, `ScriptBroadcast`, `InvariantTest`, `FoundryProofs`, `MCFoundry` | the parts of forge; proofs about the forks; one run for them |

### DSCEngine

`s_collateralDeposited` and `s_DSCMinted` are the engine's mappings. `collateral[t]`
and `dsc` are the ledgers of the tokens, with the engine among the accounts, and
`totalSupply` is the coin's. `price`, `age` and `moves` are what a feed reports, how
long ago (capped just above `TIMEOUT`), and how often it moved (a bound). `Readable`
is the staleness check of OracleLib and the overflow that stops a negative answer.
`HealthFactorHolds(debt, deposit)` is `_revertIfHealthFactorIsBroken` on a position as
it is at that point of the transaction; `_redeemCollateral` and `_burnDSC` are the
internal functions, used by `redeemCollateral`, `burnDSC`, `redeemCollateralForDSC`
and `liquidate`, with all the checks each of these makes. `nonReentrant` needs no
counterpart, because the collateral tokens are plain ERC20 tokens without callbacks.
The environment acts through `transferDSC`, `transferCollateral` (to the engine too),
`burnFrom` (inherited and not restricted to the owner), `updateAnswer` and `Tick`.

### Raffle

`s_players`, `s_raffleState` and `s_recentWinner` are the contract's; `elapsed` is the
time since `s_lastTimestamp`, capped just above `i_interval`; `balance` and `wallet` are
ETH; `requests` counts what the coordinator has to answer. `answerRequest` is the
coordinator's transaction: it uses the request up and calls `fulfillRandomWords`. If
that reverts, because the winner is one of the accounts in `Rejecting`, only the request
is gone. The callback ends with a call of the winner: `paying` is the winner until
`callReturns`, and in between no time passes and no other answer comes, but the raffle
may be called again, by as many purchases of tickets as one likes.

### RebaseToken, FundMe, Nfts

`tokens[c]` is a RebaseToken per chain with rates, timestamps and principals; interest
is minted by every call that touches a user (`_mintAccruedInterest`) and rounded
down as in the code. `vault` holds the ETH; `messages` are CCIP messages, delivered
in any order by `releaseOrMint` and made by `lockOrBurn`. `MAX` is the largest uint256:
products and supplies beyond it revert, and as an amount it asks for the whole balance
(`amountOf`), in transfers, redemptions and burns. A bridge transfer of `MAX` burns what
the pool has and sends `MAX` in the message; `unburned` is the difference. The two chains
have one clock and roles are with vault and pool from the start, as the deployment leaves
them.

`getPrice` and `getConversionRate` of FundMe are the library's: a negative answer of the
feed wraps when it is cast, and the conversion rounds down or overflows. A withdrawal is two steps around the transfer to the owner, who may
fund or withdraw again in between or refuse, which restores what `withdrawal` keeps.
`withdraw` and `cheaperWithdraw` write the same state and are one action. A mint of
`Nfts` is two steps around the receiver's call; `flipMood` may come in between.

### anvil

`AnvilPool` has the pool's operations as operators on a record: the ready queue with
its provided markers, the waiting transactions with their required ones, replacement,
pruning and the iterator of miners. Requests and blocks are atomic there.
`AnvilNode` interleaves them: a request reads the nonce, awaits, and adds the
transaction; the service polls the miner, queues and starts blocks; `evm_mine` mines
on a thread of its own; a block is mined under the mining lock and the pool is told
afterwards, in two steps. `AnvilLedger` is what clients may rely on, and the node is
shown to implement it with `accepted` and `chain` as they are (the refinement mapping
sets the accepted transactions at the start to the forced ones).

`AnvilChain` has the blocks, the environment's number, the database, the history of
states and the snapshots. Mining, reverting, rolling back, reorganising, dumping and
restarting take their locks one after the other, one step each. Two constants
describe the clients: `Serial`, whether they and the miner wait for one another, and
`OnlyLiveSnapshots`, whether they revert only to snapshots that are left (reverting
to one that is gone still takes the blocks back before it fails).
`AnvilTime` is the TimeManager with the requests that turn it. `AnvilListeners` is what
hears of a new block: the next base fee, the fee history service with its queue of
notifications, the base fees that `eth_feeHistory` returns from its cache (`fee_history`,
with the limit of `MAX_BLOCK_COUNT` blocks to a request), and one log filter from its
installation to its eviction. The rewards of the fee history are not modelled.

### forge

`Cheatcodes`: `frames` is the EVM's call stack. The running contract may call, create,
log, use a cheatcode, return, revert or halt, and a caller may catch. `call_hook` and
`create_hook` do what the hooks do before a call, in their order and with their early
returns; `call_end` and `create_end` what they do after it, one operator per part of the
function. `Plays` are the sets of cheatcodes one test uses together.

`ForkBackend`: an account has its info and one slot, and a value says where it comes
from: the n-th local write, a chain at a block, or nowhere. `backend` is the struct
with `mem_db`, the forks with their caches and journals, the two maps that find a fork,
and the snapshots; `handler` is the one MultiForkHandler that all copies share.
`select_fork`, `roll_fork`, `revert_state` and the merges follow the code; a
transaction ends with `transact_with_env`, which commits, or with `call_with_env`, which
drops the copy. Every fork cheatcode makes its caller persistent first (`persist_caller`),
also when it is refused afterwards (`selectForkFails`). `is_success` is what the executor
makes of a transaction: the backend's flag, the flag that a failed assertion stores
in the cheatcode account's journal, and the same flag in the database. A transaction is
committed whether an assertion failed in it or not, and others follow, as after a call of
`beforeTestSetup` whose failure did not revert. The executor of invariant tests, which commits the result of a call afterwards, is not a step of this module.

`ScriptBroadcast`: `forge` is the process, `disk` the two files, `nodes` the mempools and
chains. Every `save` is two steps, so that a crash can leave a file torn. `Crash`, lost
answers, evictions, reverting transactions and nonces used elsewhere are bounded by
`MaxFaults`. Whether transactions go out one at a time is decided for each chain of a
script (`sequential_broadcast`): chains without batches or with their own gas rules are
`one_by_one`, the option `--slow` and a second sender concern all of them. The processes
that resume a script are started with the same options. The processes are bounded by
`MaxCommands`: `simulate`, the broadcast and those that `resume` it.

`InvariantTest`: the contracts under test are a table from state and call to a result
(returns, reverts, is discarded, fails an assertion) and a set of states in which the
invariant does not hold. A test begins with the failure file, goes through runs and
calls, and ends with shrinking, the replay and the report. Between two tests the
author may edit the contracts, and the test contract with them or not.

## Runs

| Run | Shows |
|---|---|
| `dsc_engine` | `DepositsAreHeld`, `SupplyIsOwed`: the books match the tokens. `WithdrawalsLeaveHealthy`: no step that raises a debt or takes collateral leaves a broken position. `SeizedOnLiquidationTerms`: collateral goes to others only from a broken position that is healthy after, for at most 110% of the debt cancelled, all roundings included. `BrokenPositionsCanBeClosed`, `DepositorsCanLeave`: liquidation and exit are not only safe but possible |
| `dsc_two_tokens` | `UnreadableFeedFreezes`: one stale or negative feed stops withdrawals and debt changes in every token |
| `raffle_liveness` | `TicketsLeadToDraw`, `DrawsFinish`, when every player accepts ETH |
| `contracts` | Raffle with a player that rejects ETH: `TicketsAreInThePot`, `AnswerFindsItsRound`, `DrawsPayOneTicketHolder`. RebaseToken: `TokensAreAccountedFor`, `BalancesOnlyGrow`. FundMe: `FundsAreTheFunders`. Nfts: `TokensAreAsMinted` |
| `anvil_node` | `NodeIsConsistent` between any two locks, and `ImplementsLedger`: however two producers and the clients interleave, a transaction is mined once and in the order of nonces |
| `anvil_node_modes` | `ForcedOpenTheChain`, and `ReadyLeavesPool`: once the node mines at intervals, what is ready is mined or dropped |
| `anvil_backend` | pool: `PoolIndicesAgree`, `RejectedLeavesNoTrace`, `PoolFollowsState`; chain: `ChainHangsTogether`, `StatesAreOfTheirBlocks`, `RevertRestores`; clock: `TimestampsKeepTheirOrder`; listeners: `FeeHistoryIsTrue`, `LogsArriveOnce`, `PolledStaysActive` |
| `foundry` | inspector: `SendersAreReal`, `PassMeansExpectationsMet`, `RecordingTellsReverts`, `BroadcastNoncesFollow`; forks: `ForksAreSeparate`, `WritesSurviveSwitches`, `FailuresAreNotLost`; script: `SlowSendsAfterSuccess`, `CompleteMeansAllMined`; invariant tests: `VerdictsAreRight` |

Four runs show where the code and what is written about it part:

| Run | Written | The code |
|---|---|---|
| `dsc_partial_repayment` | the check in `burnDSC` would never hit (its comment) | it rejects a partial repayment of a broken position |
| `dsc_liquidation_gap` | liquidators lose the reward at 100% collateral or less (`liquidate`) | between 100% and 110% every liquidation reverts |
| `raffle_rejected_prize` | a winner is drawn after a certain period (lottery README) | a winner that rejects ETH leaves the raffle in CALCULATING for good |
| `anvil_chain_race` | the mining lock prevents race conditions during mining (`mem/mod.rs`) | a revert or rollback between two steps of a block does not take it, and leaves a state that is not the best block's |

### What the properties leave open

A property that excepts a case names it in its comment; these are the cases, found
by TLC on the way, in which the plain statement does not hold of the code.

*Cheatcodes.* A prank left behind by a frame that returned stays in force, the end of
a creation takes a single-call prank and with it all others (`inspector.rs` 840), and
`stopBroadcast` in an inner frame leaves `tx.origin` as it was: `past.astray`. The end
of the root call returns early for a pending `assumeNoRevert` or `expectRevert` and
skips the other checks (1485, 1508): `past.settled`. The same early returns, and the
one of a mocked call (1100), leave the stack of recorded accesses one entry off:
`past.skewed`. A call that halts, out of gas for one, is rolled back like one that reverts,
but the recording does not mark it, because the hooks ask `is_revert` (900, 1582). A frame
that reverts gives back the nonces of its creations, while the
transactions recorded in it stay (1192): `past.undone`.

*AnvilChain.* A restarted node has its own genesis block beside the one it loads, and
writes both to its next state file; after a second restart the order of a hash map
decides which of them number 0 is, so that the first block need not be on top of it
(`storage.rs` 415): `restarts`.

*RebaseToken.* A bridge transfer of `type(uint256).max` mints more on the other chain than
it burned, or reverts there if that passes the largest supply: `unburned`.

*ForkBackend.* A failure that was committed by an earlier transaction is found in the
database only; reverting to a snapshot asks the journal alone (`backend/mod.rs` 988) and
replaces the database, so that the failure is gone with it: `memory.failed` drops it then.
`memory.last` drops what the code does not carry over: the journal of
the target keeps a persistent account as it was if the fork that is left had not loaded
its slot; a fork made after the first selection starts from accounts of no chain;
rolling a fork that is not active keeps its old journal, and rolling the active
one restores accounts from before the first selection. A snapshot taken without a
fork leaves a later fork active when reverted to. The handler is shared, so the block
of a fork that a call rolled is still there after the copy is dropped, although
`cow.rs` 45 says that no call "will ever persistently modify" the backend; and a new
fork of the same chain and block inherits it.

*ScriptBroadcast.* A resumed script finds its place by counting receipts (`broadcast.rs`
317): after a revert in the middle of a batch it passes over the reverted transaction
and sends one again that has a receipt, where `lib.rs` says that `--resume` submits
"transactions that failed or timed-out previously". A transaction that the node
does not know counts as known (`receipts.rs` 42). A torn file makes `--resume` take the
dry run (`build.rs` 336). A crash between sending and saving leaves a script that cannot be
resumed, because the nonce it expects is used. None of these makes `CompleteMeansAllMined`
false: a script that reports that it is complete is, whatever it went through.

*InvariantTest.* The shrinker needs one iteration more than there are calls: with
`shrink_run_limit` equal to the length the last removal is not tested, although
`shrink.rs` 83 says that the length is enough. `shrink_run_limit` is three, the length of
the longest sequence, and `VerdictsAreRight` allows such a counterexample the one call that
was removed last. The calls recorded for a failure of `afterInvariant` end with one that was never made
(`invariant/mod.rs` 464), so that such a counterexample need not replay. After that failure
the campaign goes on, and a later error takes its place. A failed assertion that
neither reverts nor is asked to fail keeps the invariant unasserted for the rest of
the run.

*anvil.* `Serial` and `OnlyLiveSnapshots` are assumed in `anvil_backend`; without the
first the run `anvil_chain_race` shows what happens. `evm_setTime` may take the clock
back. Fee history entries after a revert are those of the chain, but the cache may
exceed its limit or miss blocks, so that what `eth_feeHistory` returns is claimed until the
first revert only; and it is claimed for requests that stay above the oldest entry. A filter installed while a block is made may miss its log or
report it twice.

### Bounds, and why they are enough

*DSCEngine.* Two users, because a liquidation involves two; one token in the main run
and two in the run about feeds. `PRECISION = 100` and
`ADDITIONAL_FEED_PRECISION` of 5 or 50 keep the code's formulas with small answers,
several of which make the divisions round; 0 and a negative answer are among them.
In the main run a position reaches the limit of health exactly, exactly 110%
with the DSC for the whole debt in the other user's hands, the gap between 100% and
110%, and less than 100%. A feed moves at most `MaxMoves` times and may repeat its
answer at will. The users are symmetric. With 18-digit amounts the products of the
code stay far below 2^256.

*Contracts.* Raffle: three players with ETH for two tickets each, at most four tickets a
round, payments of nothing, the fee and more, words beyond the number of tickets; the
number of rounds is not bounded. RebaseToken: two holders, two chains, three units of
time, a precision of 2 so that interest rounds, one lower rate, two messages under
way so that they overtake one another, four transactions beside the passing of time (a
deposit, a bridge transfer, its delivery and one more), and 20 for the largest uint256, which
a message of `MAX` passes. FundMe: answers of the feed that are negative and on both sides of
the minimum, a word of 64 values that the wrapped price overflows, three entries of funders
that repeat, withdrawals nested once. Nfts: two
minters and two ids, enough for a receiver that mints again. Holders are symmetric.

*anvil.* The pool has six transactions of two senders, two nonces at two prices, so
that replacements free, displace and unlock others; a block holds three units of gas.
The node has three transactions, one request and one queued block at a time beside
two producers. The chain makes up to three blocks after genesis with two snapshots and two
restarts, with history limits below that; more blocks repeat these cases. The clock
has four values and three blocks; the fee cache holds two of three blocks.

*forge.* Three frames, three calls and two cheatcodes of one group: a cheatcode
in an inner frame, a call below it and one after it. Two forks of one chain at two
blocks, two writes, one snapshot, three transactions, six steps. One to three transactions of
one or two senders on one or two chains, of which one may take transactions one by one,
batches of up to three, three faults, four processes. Two inputs, contracts of three states with the invariant two calls away,
two runs of three calls, two tests.

The safety runs of components that stop by their bounds, or in the code, switch the
deadlock check off.

### Fairness

`FairSpec` of Raffle assumes weak fairness of `Tick` (time passes), of `performUpkeep`
(Automation calls it while `checkUpkeep` returns true, and anyone else can), of
`Answer` (the coordinator answers a funded request) and of `callReturns` (a call ends, by
its gas if not before). It does not assume that anybody
enters, nor which word comes. `Fairness` of AnvilNode assumes that the service is polled
when the miner or the producer can go on (their wakers see to it), that an interval
goes on ticking, and that a block once begun is mined and pruned; clients owe
nothing. Each conjunct is weak fairness with its condition written out.
DSCEngine states what users can do with `ENABLED`: no code makes anybody liquidate.
The other runs assume no fairness and claim safety only.

## Proofs

A theorem holds for every value of the constants that satisfies the named
assumptions of its module: finite sets of users, tokens, players, donors, holders and
transactions; amounts, prices, times, nonces and bounds that are natural numbers;
positive divisors. What is more than that: the engine is not one of the users
(`UsersAssumption`), the pool of a bridge is not one of the holders (`RebaseAssumption`),
a transaction fits into a block (`TransactionsAssumption`, which the backend validates
before it adds one), half of a block's gas limit is not zero (`ListenersAssumption`, the
fee calculation divides by it), the cheatcode account is not one the test deploys
(`ForkAssumption`). TLC evaluates all of them in the runs.

Every proof about states has the same form: an inductive invariant, an initial step, a
lemma for each action or group of actions, and a last step that combines them.

**DSCEngine, state.** `TypeCorrect`, `DepositsHeld`, `SupplyOwed` and `SupplyHeld` follow
from `IInv == TypeOK /\ DepositsAreHeld /\ SupplyIsOwed /\ SupplyIsHeld`. The conjuncts
need one another: that the supply stays a natural number when DSC is burned needs
that the supply is the sum of the balances, so that the burned balance is part of it;
every sum needs that its terms are natural numbers. The argument is about sums of
finite functions; `FoldTheorems` derives what is needed of the library's sum (its
type, monotonicity and what updating one entry does), by an induction over subsets
that it proves from the well-ordering of the naturals. `DepositEffect`, `RedeemEffect`,
`MintEffect` and `BurnEffect` are the effects of the parts transactions are made of, and
the step proof has one case per action.

**DSCEngine, steps.** `WithdrawalSafety`, `OracleFreeze` and `SeizureTerms` are the three
action properties. The first two come down to which health check is the last in each
transaction and which feeds it reads. The third needs arithmetic over roundings:
`BonusArithmetic` and `BonusBound` show that the three divisions of `liquidate`, each
rounding down, never give more than 110% of the debt covered.

**Raffle.** `RaffleIInv == TypeOK /\ TicketsAreInThePot /\ AnswerFindsItsRound /\ RoundHasBegun` gives the three
theorems about states. That a request finds players is inductive because only
an answer clears the list, and that there is one request because `performUpkeep` finds the
raffle open. `RoundHasBegun`, the fourth conjunct, is about the call of the winner: while it
lasts the raffle is open and no time has passed since the round began, so that `checkUpkeep`
refuses another draw. `SalesClosed` and `DrawsPay` are the action properties; `DrawHasWinner`
shows that the index is one of the list's.

**The other contracts.** `MintedTokens`: `NftsIInv` adds to the property that the state a
revert of the running mint would restore is right as well, and that the token being
minted is owned before the counter moves, so that a receiver that mints again
fails. `FundersAreBooked`: `FundMeIInv` says the same of the whole stack of nested
withdrawals; the reset of all funders is a fold, shown to leave zeros.
`TokensAccounted`: `RebaseIInv` balances deposits, redemptions, rewards, principals on
both chains, interest minted, messages under way and what messages of `MAX` carry beyond
the tokens burned for them; each transaction is a sequence of
moves (accrue, mint, burn, transfer) whose effect on the totals is a lemma.
`BalancesGrow` is the action property of the token. Its invariant, `SoundChains`, says
that principals are natural numbers, that nobody is stamped later than now and that who
was never stamped has no tokens. With it, stamping a user leaves the balance exactly
as it was (`AccrueStamps`, `BalanceStamped`: the rounded division undoes the product when
no time has passed), time only adds (`BalanceGrows`), and a new rate is only written
where no interest is due under the old one; so a transaction takes from nobody but
who signed it.

**anvil's node.** `NodeImplementsLedger` is the refinement: every behaviour of `NodeSpec`
is one of `AnvilLedger`, with the mapping described above. `NodeIInv` says that whatever
the pool, the miner, the queue and the two threads hold was accepted (`PoolHolds` for
the pool), and that the chain is `Ordered`: it has as many transactions of a sender as
that account's nonce says, each with the nonce it should. The pool enters
only through what its operations may bring in; that a block is in order
comes from the execution (`ExecuteHolds`), which runs a block's transactions one
after the other and drops those whose nonce is not the account's. Two producers that
take the same ready transactions therefore cannot mine one twice, whatever
the pool still lists. `NodeTypes` is the part about the form of the state.

**anvil's pool.** `PoolSpec` is the pool with atomic requests and blocks, as the
`anvil_backend` run checks it. `PoolIInv` adds to `PoolHolds` that the indices agree
(`Indexed`: the provided markers are those of the ready transactions, a waiting one
misses exactly the marker before its own, the required markers list who waits for which,
and no marker is provided and waited for) and that the pool `Follows` the accounts'
nonces. `MarkersAgree` is the part of `PoolIndicesAgree` about markers.
`RejectionsLeaveNoTrace` needs the last part of `Indexed`: a transaction is rejected
after what it would unlock has been taken out of the waiting ones, but it is rejected
only because its marker is provided, and then nobody waits for it. `PoolKeepsUp` needs
that pruning removes what a block included from both sides. Adding and pruning are
loops; between two of their rounds the indices agree, inside a round they do not.
`Promoting` is what else holds between two rounds of adding: until the new transaction is
in, nothing has moved, and what is left to add are later transactions of its
sender (`PromotingRound`); `PruneRoundIndexed` is the round of pruning.

**anvil's clock.** `TimestampOrder`: `TimeIInv` adds that the remembered timestamp is not
below the last block's unless `evm_setTime` went back since, and that an exact
timestamp that waits is not below the remembered one.

**anvil's listeners.** `BlocksIInv` orders the hashes of the chain, the block in the
making above all others. With it, `FilterIInv` says that what a filter delivered, the logs
it read and the blocks it heard of follow each other, and that of the chain only the
block not announced yet is missing: `LogsOnce`. `PolledKept` follows from
the deadline being the last poll plus keepalive. `CacheIInv` says where the fee cache is on
its way: it has the `Window` of the last blocks up to `LastTaken`, and the notifications
left are the blocks after that, until a revert; after one, an entry that is not
the chain's has a notification waiting that will replace it (`Fresh`). `TakeAll` is what
the loop over the notifications makes of that, `FeeHistoryTrue` the result.

**forge's forks.** `FailuresKept`: `FailureIInv` says that a failed assertion is in the
backend's flag or in the journal of the running transaction, and that one of an earlier
transaction is in the flag or the database of the backend that the executor asks, which is
its own while a call runs on a copy. The property alone is not inductive: the next
step may merge the journal into another fork's, replace it by a snapshot's or commit it,
and what comes from there must not hide the flag. So `JournalOK`
says of every journal, active, stored with a fork or in a snapshot, that the cheatcode
account, if it was touched, has the flag, and `BackendOK` that this account is persistent, so
that every merge takes it along. The lemmas follow the flag through loading and
rereading (`CachedFlag`, `RereadFlag`), merging (`MergedFlag`), committing (`CommitOK`),
selecting and rolling forks, snapshots and reverts; `FailureKept` is the step.

*Loops.* Where the models fold over a sequence, `FoldTheorems` relates the library's fold to
the sequence of its intermediate results (`FoldLeftRun`), and `UpTo` is induction
along it for a set of indices. That is enough to carry an invariant through a loop, and
all the proofs about pool, execution, filters, cache and funders use it.

### Model-checked only

Liveness (`TicketsLeadToDraw`, `DrawsFinish`, `ReadyLeavesPool`) and the properties with
`ENABLED` (`BrokenPositionsCanBeClosed`, `DepositorsCanLeave`), which the prover does not
handle. Of `PoolIndicesAgree`, that the iterator reaches every ready transaction
(`EveryReadyIsYielded`): it is the result of a loop bounded by the size of the pool, and
that the bound suffices needs an induction over the dependencies. `NodeIsConsistent`
for the same reason, and `ForcedOpenTheChain`. `AnvilChain`, `Cheatcodes`,
`InvariantTest`, `ScriptBroadcast` and the rest of `ForkBackend`: no inductive
invariant has been written for them.

## What is not modelled, and why

*Contracts.* MerkleAirdrop: with proofs and signatures abstract, one flag is left.
MinimalAccount, ZkMinimalAccount, DAO, upgradeable boxes and clones: what orders
their steps (entry point, bootloader, governor, proxy) is not in the repository.
SimpleStorage, FunWithStorage, OurToken and the Encoding lessons: single assignments.
SignatureVerifier: ecrecover. Deployment scripts: what they leave behind is the initial
state of the models. Within the modelled contracts: gas; overflow of 256-bit products other
than the one that stops a negative price; tokens that charge fees or call back; ETH
forced into a contract past its functions; changes of ownership and of roles.

*anvil.* What the EVM does with a transaction; forks of a remote chain; calls and
traces; `anvil_set*`; blob fees; block and pending-transaction filters and
subscriptions; impersonation.

*forge.* Inspector: isolation, the CREATE2 factory, delegations, `deal` records, emitters,
calldata and gas matching, gas metering, arbitrary storage, memory checks. Backend: forks at
a transaction and replaying, other fields of the environment than the number, reverts of
frames that switch forks, several senders, a backend launched with a fork, errors of the
node. Script: a second broadcast of the same script, gas estimation, signers, verification.
Invariant tests: call overriding, targets and created contracts, dictionaries,
coverage; unit and fuzz tests.

*The rest of the tool chain* has about 137000 lines: configuration and command line,
formatter and documentation, compilers, linking and verification, cast and chisel,
traces, debugger and coverage, wallets, and a second virtual machine for zkSync. Most of it
are conversions of text and of data without protocol state, or the calling of external
programs. The map covers about 5% of these lines: the stateful cores of anvil and forge,
where interleavings, failures and long sequences of calls decide, and where a model
says more than a test.
