# Ophis: specifications of the settlement system

Ophis is a batch-auction exchange in the CoW Protocol family. Owners sign
orders off chain; a Rust backend collects them, runs auctions among solvers
and submits the winning settlements; Solidity contracts hold the only
authority over an owner's tokens; TypeScript services pay rebates and sponsor
private transactions. This directory holds TLA+ models of the parts whose
correctness rests on the order in which things happen, the TLC configurations
that check them on small instances, and TLAPS proofs, for every value of the
constants, of every safety property the passing runs check.

`PROJECT.json` is the index: components, runs, hazards, findings, theorems,
and for each definition the source lines it models. Paths below are relative
to `src/`; `crates/` stands for `apps/backend/crates/`.

To check one instance, `tlc -config MCSettlement.cfg MCSettlement.tla`; to
check the proofs of one module, `tlapm SettlementProofs.tla`.

## 1. Inventory

### How the parts fit together

```
 owner --signed order--> order book --> Postgres <---------------+
                                          |                      | events
                         solvable orders  v                      |
   block stream --> maintenance --> autopilot run loop     event indexing
                    (waits for)     auction | winners            ^
                                            v                    | logs
                                   drivers: solve, settle        |
                                            | one nonce, n mempools
   governance --> allow list --onlySolver--> GPv2Settlement -----+
   (Safe, timelock, guardian)                  | relayer pulls, settlement pays
   curator --> vault policy module --presigns--+
   fee liquidator (a solver) --sweeps fees--> fee Safe --> rebate indexer --> wallets
                                                           trade rewards --> rewards distributor
   private swap client --encrypted request--> broadcaster --> private endpoint --> chain
```

The backend's processes share Postgres and talk HTTP; every one of them sees
the chain through a node that may lag, fail or reorganise. A contract sees
only transactions, one at a time, but hands control to other contracts in the
middle of them.

### Components

| component | state | operations | what is hard | correct when |
|---|---|---|---|---|
| **Settlement contract** `contracts/src/contracts/GPv2Settlement.sol` | `filledAmount`, `preSignature`, the reentrancy guard | `settle`, `swap`, `invalidateOrder`, `setPreSignature`, two storage refunds | external calls between the phases of one transaction, reverts at any of them, rounding of partial fills, storage freed at expiry | an owner never trades beyond the signed terms, without consent or after cancelling |
| **Solver allow list** `GPv2AllowListAuthentication.sol`, `AllowListGuardian.sol` | manager, pending manager, solvers, proxy admin, guardian, timelock queue | solver and role changes, directly or scheduled | an installation made of several calls by several accounts; a timelock that breaks | nothing gains power without notice; removal always works |
| **Rewards distributor** `rewards/OphisRewardsDistributor.sol` | two inventories, prize and ticket per wallet, signer and epoch, balance | `assign`, `claim`, pause, `setRewardSigner` | anyone relays any signed statement in any order | every assigned prize is payable, once |
| **Vault policy module** `vault/OphisVaultPolicyModule.sol` | live order per token, turnover bucket; writes allowance and presignature | `rebalance`, `cancel` | fills, feeds and owners act between its calls; integer roundings accumulate | one live order per token, bounded value loss and turnover |
| **Broadcaster** `apps/broadcaster`, `apps/railgun/operator/protected-provider.ts` | request journal, transport journal, nonce, daily budget | request, reconcile, cancel, retry, acknowledge a loss | awaits inside one request, two journals, stops, lost submissions, replaced blocks | one nonce pending, gas within budget, nothing paid twice |
| **Event indexing** `crates/event-indexing`, stores, `autopilot/src/maintenance.rs` | events in Postgres, checkpoint row, last handled blocks | update, persist, announce, restart | reorganisations during an update, partial updates, restarts | the database holds exactly the canonical events |
| **Autopilot run loop**, leader lock, orders cache `crates/autopilot/src/run_loop.rs`, `solvable_orders.rs` | leadership, last auction and block, cached orders, saved competitions | acquire, wait, read, cut, compete, save, execute, observe | leadership and caches are read, then awaited past; several instances on one database | one leader drives auctions, on indexed state; no order wins twice at once |
| **Driver submission** `crates/driver/src/domain/mempools.rs` | signer locks, last submissions, a loop per mempool | execute, submit, replace, cancel, last look | one nonce on several mempools, deadlines, cancellations, aborted tasks | a failed execution leaves no settlement behind; nothing replaces another's |
| **Driver settle queue** `crates/driver/src/domain/competition/mod.rs` | solutions kept for `settle`, permits, submission accounts | solve, settle, acquire, release | a task aborted where it waits; a cache that evicts | executed once; no slot lost |
| **Winner selection** `crates/winner-selection/src` | none | filter, rank, pick, score | a pure function with edge cases | fair winners and reference scores |
| **Own-fee payout** `apps/rebate-indexer/src/ownFee/payout.ts` | batches and entries per month, a Safe queue | accrue, propose, reconcile, poll | a crash between a row and a proposal; owners execute when they like | no month paid twice, the queue funded, executions recorded |
| Order book, validation | orders in Postgres | create, cancel, replace | concurrent writes to one row | an order stored is one the chain accepts |
| Refunder | none of its own | refund expired EthFlow orders | status read, then a transaction | no order refunded twice, none forgotten |
| Rebate batches, affiliate and partner payouts | batches, entries and accrual basis in Postgres; a Safe queue | accrue, propose, reconcile | a crash between a row and a proposal | nobody paid twice, nothing lost |
| Fee liquidator, route adapters | allowed venues and tokens | sweep, consolidate | runs as a solver inside a settlement | fees leave only to the fee Safe |
| Quoting, solver engines, simulation, SDKs, frontends, scripts, infrastructure | caches and configuration | requests | external services | out of scope, see section 8 |

## 2. Modules

| module | models |
|---|---|
| `Settlement` | the settlement contract with signing, relayer and transfers |
| `OrderPromise` | what the contract promises the owner of an order; `Settlement` implements it |
| `SolverAllowList` | authenticator, guardian contract, proxy admin, timelock |
| `RewardsDistributor` | the prize campaign |
| `VaultPolicy` | the module, with settlement, feeds and owners around it |
| `Broadcaster` | request handler, reconciler, both journals, recovery commands, chain |
| `EventIndexing` | block stream, event handler, two event stores, announcement, chain |
| `RunLoop` | autopilot instances: lock, maintenance, orders cache, auctions, executions |
| `SettleQueue` | one lane of the driver: proposed settlements, requests, slots |
| `Submission` | the driver's executions: submit loops, mempools, signer lock, cancellation |
| `WinnerSelection` | the arbitration of one auction |
| `OwnFeePayout` | months, batches, proposals, pollers and nights on one sovereign chain |
| `SettlementProofs`, `SolverAllowListProofs`, `VaultProofs`, `BroadcasterProofs` | theorems and proofs, each about the module it extends |
| `PayoutProofs` | the same for `RewardsDistributor` and `OwnFeePayout` |
| `DriverProofs` | the same for `SettleQueue` and `Submission` |
| `AutopilotProofs` | the same for `RunLoop`, `EventIndexing` and `WinnerSelection` |
| `Sums` | lemmas about sums, greatest and least elements of finite sets, which the others cite |
| `MC...` with its `.cfg` files | the instances TLC checks |

A mutant is a small plausible bug written next to the definition it replaces
(`GuardianMayAdd` beside `MayUse`, `FundedAlone` beside `Funded`). Substituted
into the model, each makes one property fail under that property's own run,
which shows that the run reaches the case the property is about. Where a run
checks several short facts about one component, `Inv` is their conjunction
with the types. Where one module of proofs extends several components, their
names carry a prefix: `IndexInv`, `SelectionSpec`, `QueueInit`, `OwnFeeNext`.

The backend's modules follow one settlement: `RunLoop` saves a winner and asks
a driver, `SettleQueue` admits the request and executes it, `Submission` is
that execution, `EventIndexing` finds its event, and `RunLoop`'s observer
attributes it. Each takes from its neighbours only what the code relies on: an
execution in `SettleQueue` ends in either result, the driver in `RunLoop` may
answer anything or nothing, a wait for indexing may time out.

### Settlement and OrderPromise

`phase` is the program counter of the one transaction that can be running:
`nonReentrant` keeps a second `settle` or `swap` out, which is the guard of
`Enter`. `settle` is `pre`, `trades`, `in`, `intra`, `out`, `post`, in the
order of the code; `swap` is `swap`, `swapped`. In every phase but `trades`
control is elsewhere, so `invalidateOrder`, `setPreSignature` and the EIP-1271
wallet's change of mind are enabled there, as they are between transactions.
`Scheme` gives each order the ways its owner may sign it.
The storage refunds are `onlyInteraction`: they run only while the contract
executes interactions. `Revert`, at any point, restores `saved`, the storage
at the start of the transaction. `computeTradeExecution` is an action per
trade with the contract's checks and its SafeMath over `MaxUint`. Owed amounts
are what `transferFromAccounts` and `transferToAccounts` have still to move.

Abstracted: a uid stands for digest, owner and expiry; the transfers of one
order are summed over a settlement; balances are not kept, since a transfer
that fails is a revert. `OrderTerms` excludes zero amounts because the order
book refuses them (`crates/shared/src/order_validation.rs:723`).

Apart from time, `OrderPromise` has one action, `Transaction`: any set of
orders is filled within its terms, or cancelled, at once. The refinement hides
everything before a commit: its state is `saved` while a transaction runs.

### SolverAllowList

The authenticator's functions take the caller, so one definition serves the
Safe, a proposed manager, the guardian contract and the timelock. The guardian
contract is a second caller with its own guards (`MayUse`). The timelock is a
set of scheduled calls which anyone executes once they are `MinDelay` old;
`Break` takes the keys from its proposers. `transferOwnership` is the proxy
admin's move.

### RewardsDistributor

`Sign` adds a statement under the key and epoch of the moment; `assign`
accepts any statement ever signed, `claim` any assigned wallet, `Fund` any
amount. All counters are kept as the contract keeps them, so its `assert`s
become `BooksBalance`.

### VaultPolicy

`rebalance` and `cancel` are one step each: the allowed tokens call nobody
back. Their guards are `_enforcePolicy`, the sequencer and feed checks, the
floor with both of its truncating divisions and the turnover bucket with its
draining. Around them move `Fill` (what the settlement needs and takes),
`UpdateFeed`, `SequencerTurns`, the owners, and time.

### Broadcaster

`task`, `rec` and `cli` are the program counters of the request handler, the
reconciler and a recovery command: one action between two awaits. `rows` and
`transport` survive `Stop`, nothing else does. A submission reaches the
endpoint even when the handler sees an error; the chain includes any disclosed
transaction of the next nonce, now or much later, and replaces only its last
block, which is what waiting for two confirmations assumes. With `NodeMisses`
the node may not find a receipt it has; what is then recorded has the time of
the block the reconciler started from, which may be any time since the nonce
was consumed. `Horizon`, from which `Init` chooses,
pairs how long the clock runs with how often the service may stop.

### EventIndexing

A block is the sequence of forks that mined its ancestors and itself, so equal
blocks have equal hashes and a fork differs from the first replaced block on.
`task` holds what `update_events` keeps on its stack between two awaits; each
read takes what the chain shows at that moment, which need not fit what the
previous read showed. `Fail` returns an error anywhere and `Restart` leaves
only the database. Both indexers are modelled, with reorganisations (`Begin`
to `PersistLatest`) and with deterministic finality (`BeginFinal` to
`PersistRange`); `final`, chosen in `Init`, says which the chain has. `Store`
selects the settlement store, whose replacement deletes everything from the
first block on, or the refund store, which deletes its range only.

### RunLoop

An instance is a record: where its loop waits, whether it leads, its cached
auction, its previous auction and block, the two watch channels of its
maintenance task. A step is what the code does between two awaits: the lock,
the wait for a block, the read of open orders (full or incremental), the
filter by orders in flight, the cut, the competition with the save of its
winners. Each saved winner is an execution of its own, which the driver may
answer, which sees its settlement attributed or reaches its deadline. The
chain mines a winner while its driver was asked. `setup`, chosen in `Init`
from `Setups`, says which instances, orders, blocks, stops and faults there
are: `database` lets single queries fail, `maintenance` lets indexing fail or
the wait time out, `sessions` lets the lock's session die under its leader.

### SettleQueue and Submission

In `SettleQueue` a request is `idle`, `admitted`, `found`, `racing` or
`holding` a slot, then `executing`; an abort is enabled where the task awaits.
The cache is a sequence, most recent first, which a solve fills and truncates.
Delegated accounts that are released come back through `returning`, since the
code returns them from a spawned task.

In `Submission` a task holds its signer's lock and runs one loop per mempool:
simulate, read nonce and price, decide between submitting and replacing,
broadcast, watch blocks, give up by cancelling, take a last look at the
receipt. `wire` holds broadcasts that left but did not arrive; a loop that is
dropped because another succeeded leaves its request there. A node accepts a
transaction whose nonce is free or whose price is high enough. `setup` gives
the mempools, tasks and deadlines of one driver.

### WinnerSelection

A solution gives each directed pair a score, none (only the solver's own
liquidity traded) or an error. `Bid` appends a solution, `Arbitrate` filters,
ranks and picks, `ComputeReferenceScores` picks again without each winning
solver, from the ranking of the first pick as the code does. `wrapped` maps a
pair of the native token to the pair of its wrapper, which the code does for
the winners and not for the scores. Sorting and picking are loops over a list
in the code; `SortByKey` and `PickWinners` state what they return, the one
ordered listing, and the set in which each element is decided by those before
it.

### OwnFeePayout

`run` is the pipeline that holds the advisory lock, one step per database
statement or call: the nightly reconciliation, then in the monthly section the
accrual, and the proposals with the two reads that make `remaining` and one
nonce read per run. `OnBeforeSubmit`, `Send` and `Proposed` are the three
writes around a submission; `wire` holds it until it arrives or is lost,
whatever the process was told. `pollers` and `paying` are the background
promises, which `Stop` forgets. The Safe's owners execute the queue by nonce,
or other transactions, whenever they like.

## 3. Runs

| run | instance | shows |
|---|---|---|
| `settlement` | a partially fillable sell order of a contract wallet and a fill-or-kill buy order, 1,365,248 states | fills tracked, owner protected, consent, finality of cancellation; `Settlement` implements `OrderPromise` |
| `allow_list` | four accounts and a timelock, 257,124 states | no power without notice, and safety of a broken timelock |
| `rewards` | two wallets, two keys, one prize of each kind, 208,134 states | solvency, uniqueness, books, void old signatures |
| `vault` | two orders of one token, prices 0 to 2, 804,048 states | one presignature, exact allowance, turnover, value |
| `broadcaster` | two requests, five horizons of clock and stops, 251,482 states | nonce, budget and reserve, journals and answers, settlement; a paid request settles |
| `indexing` | 8 blocks, two reorganisations, one restart, 3,343,636 states | the store follows the handled blocks |
| `indexing_refunds` | 4 blocks, a reorganisation, the refund store | **violation**, see section 6 |
| `submission` | one signer, two mempools, five setups of tasks, deadlines and a fault, 140,784 states | failure leaves nothing, no displacement, true answers; executions end |
| `settle_queue` | three requests, one delegated account, two auctions, 42,488 states | executed once, slots exclusive and never lost, requests answered |
| `run_loop` | two instances, or one with two orders, a restart or a fault: six setups, 507,153 states | one leader, current auctions, no order in flight twice, true outcomes; executions end |
| `winner_selection` | three solutions of three solvers on two pairs, 1,301,166 states | filter, winners and reference scores against their definitions |
| `own_fee` | two months, amounts to 2, three units of fees, one fault, 204,847 states | a month paid once, funded queue, executions recorded |

Bounds, and why they are enough:

- *Settlement.* Orders interact through nothing but the transaction frame:
  their `filledAmount` and presignatures are separate, so two show that a
  commit is atomic. The first signs by presignature or EIP-1271, the second by
  ECDSA. A limit of 2 for 3 leaves a remainder in every partial fill; with
  `MaxUint` 6 both
  SafeMath reverts and the mark of an invalidated order occur; `MaxTime` 1
  covers a live and an expired order. The proofs remove all these bounds.
- *Allow list.* Roles are held by single accounts: the Safe, the timelock and
  one other reach each pair of holders. Time 2 lets a call ripen after the
  installation while another waits.
- *Rewards.* Two wallets and one prize of each kind make them compete for an
  inventory and for a ticket; `MaxEpoch` 2 lets a key leave office and come
  back.
- *Vault.* Superseding needs two orders of a token. A day is two units, a ttl
  one: the bucket drains by half and an order outlives its price. Token units
  of 10 make both truncations bite.
- *Broadcaster.* Two requests overlap and, one settled, follow each other.
  Costs go up to 2, the budget is 2, the funds 4 with a reserve of 1: a
  cancellation that costs more than what it replaces fills the budget. A day is
  one unit of time, so what was spent leaves the budget when the clock runs
  for two.
- *Indexing.* `Depth` 2 and `Queried` 4 keep the code's ratio of 64 to 128,
  and `HistoryMax` of 4 exceeds `Depth` + 1 as 200 does. 8 blocks leave history to
  read in parts before a tail; two reorganisations let the second begin while
  the first is repaired.
- *Submission.* Two tasks are enough to contend for a signer, and two mempools
  for the loops to race; three blocks put a deadline before, at and after the
  last. The cap of 3 lets a price be bumped until it may not be. Faults and
  two tasks in two mempools come in setups of their own: together they are too
  many interleavings, and each property fails for a mutant in one of them.
- *Settle queue.* More requests than are admitted, more admitted than there
  are slots, fewer settlements than requests; a cache of one auction of two
  evicts.
- *Run loop.* With a deadline of one block, two auctions and three blocks an
  order may win again after its deadline; two instances and one stop are a
  takeover. Faults come one at a time, and without them the properties make no
  exception.
- *Winner selection.* Filtering needs two solvers that beat a third; two
  winners at most leave a third solution out by number and by overlap. Scores
  cover ties, unscored and invalid pairs. Solvers and pairs are symmetric.
- *Own fee.* A second month is proposed while the first is queued, executed,
  failed or lost. Two months of up to 2 exceed what the Safe ever receives. One
  transaction of the owners' own may take a nonce; one fault is a stop or a
  lost write anywhere.

`CHECK_DEADLOCK FALSE` is set for `allow_list`, where time and the queue are
bounded and every role may have been given away, for `winner_selection`, which
ends with the scores, and for the indexing runs, whose bounded chain ends with
everything indexed.

## 4. Fairness

- *Broadcaster.* `main.ts` starts the reconciler every 30 seconds and the
  service manager restarts a stopped service, hence weak fairness of
  `ReconcileStart` and strong fairness of `Start` (a recovery command holding
  the lock disables it for a while). Running code proceeds or fails: weak
  fairness of `ReconcileFails` and `CommandStops`. A read of the node may fail
  often but not for ever, which is strong fairness of the steps that use an
  answer. Nothing is assumed of the chain: the property starts from a
  transaction that is mined.
- *Submission.* Blocks are announced, a loop that can go on does, and a request
  is answered, by acceptance or by an error, as the HTTP client's timeout makes
  sure. Strong fairness of `Acquire`: tokio's mutex is a fair queue, so a
  waiting task gets the lock though others take it in between.
- *Settle queue.* Tasks proceed, the driver answers solves, a released account
  is sent back. Strong fairness of the two acquisitions, for the same reason.
  An execution ends: that is `ExecutionsEnd` of `Submission`.
- *Run loop.* Blocks come, loops and maintenance tasks are scheduled, a stopped
  instance is restarted where the setup restarts it, and executions step.
  Nothing says who leads: a session whose process died silently holds the lock
  for as long as Postgres takes to notice, so that somebody leads is not
  claimed.
- *Own fee.* The scheduler runs a night whenever one is due and each of its
  steps ends; a poller that recorded an execution performs its second write.
  Strong fairness of `Records`: over the nights the service answers for each
  open proposal now and then. Nothing is assumed of the Safe's owners.
- *The other runs* check safety only.

## 5. What is proved

For every value of the constants that satisfies the named assumptions:

| module | theorem | says |
|---|---|---|
| `SettlementProofs` | `TypeCorrect`, `FillCorrect`, `OwnersProtected`, `CancelsAreFinal`, `ConsentRequired` | the five properties of run `settlement` |
| | `PromiseKept` | `Spec => ImplementsPromise` |
| `SolverAllowListProofs` | `TransfersAreAnnounced`, `PowerNeedsNotice`, `BrokenTimelockFailsSafe` | the three properties of run `allow_list` |
| `PayoutProofs` | `TypeCorrect`, `PrizesArePayable`, `OnePrizePerWallet`, `AssertsHold`, `OldSignaturesAreVoid` | the types and the four properties of run `rewards` |
| | `PayoutIsSafe`, `PayoutIsFunded` | the two safety properties of run `own_fee` |
| `VaultProofs` | `TypeCorrect`, `OnePresignaturePerToken`, `AllowanceIsTheOrders`, `TwiceTheCap`, `FillsAreWithinPolicy` | the five properties of run `vault` |
| `BroadcasterProofs` | `OneNonce`, `SettledOnChain`, `DisclosedIsJournaled`, `LimitsHold` | the four safety properties of run `broadcaster` |
| `AutopilotProofs` | `OutcomesAreTrue`, `LeaderIsAlone`, `AuctionMissesNoTrade`, `OrdersWinOnce` | the four safety properties of run `run_loop` |
| | `StoreIsConsistent`, `AnnouncedIsHandled` | the two properties of run `indexing`, the first for the settlement store |
| | `CheckpointLosesNothing` | what holds of the refund store too |
| | `SelectionIsSound`, `ReferenceIsPossible` | the two properties of run `winner_selection` |
| `DriverProofs` | `QueueIsKept`, `ExecutedOnce` | the two safety properties of run `settle_queue` |
| | `OkIsOnChain`, `FailureIsClean`, `LockKeepsPlace` | the three safety properties of run `submission` |

**Settlement.** Assumed: orders have positive amounts, `NoUid` is no uid,
`MaxUint` is positive and bounds the prices. None of the properties is
inductive: a revert may undo half a transaction, so something must be known of
`saved` too. The invariant is `TypeOK` with `LedgerOK` (an order's totals
respect its limit price and its fee's proportion and, while it can trade,
`filledAmount` is what it executed), `SavedOK` (the same of the saved storage),
`OwedOK` (amounts are owed only in the phases that will transfer them) and
`SwapOK` (the vault's amounts respect the swap's limit). The arithmetic is in
lemmas over integers: a floor or a ceiling of a clearing price never takes
more than the limit price allows, and sums of such fills neither.
`CancelIsFinal` needs `SinceBegin`, which relates the running transaction to
the storage it began with; `ConsentInv` does the same for consent. Consent
here is a history of what the owner ever gave, which a revert undoes; that a
presignature withdrawn or freed at expiry authorises nothing is the guard of
the fill, not this theorem. For the
refinement, every step but a commit leaves what a reader of the chain sees,
and a commit is one `Transaction`, whose orders are those `SinceBegin` says
have changed.

**Rewards.** Assumed: prizes are positive with one larger, inventories are
numbers. The invariant adds `Counted` (each counter is the cardinality of a
set of wallets), `Money` (balance plus payments is income), `Prizes` (a
claimed wallet was paid what it won) and `Signatures` (a statement of the
current epoch was signed in the current term). Solvency follows: the prizes
outstanding are the difference of two counted sums.

**Vault.** Assumed: positive units, prices and limits, slippage of at most
10%. The invariant adds `BucketInv` (turnover since any moment is bounded by
what has drained and what is left in the bucket) and `SignedInv` (a
presignature of the module is an accepted order of a known moment). The value
bound is two lemmas about the truncating divisions of the floor.

**Solver allow list.** Assumed: the Safe, the guardian contract, the timelock
and the other accounts are different, the delay is positive. The invariant
adds one conjunct, `AdminStays`: once the admin role had moved before the
manager role, the timelock keeps it. Lemma `Roles` says what the
guards then leave: on an installed system no account passes
`onlyManagerOrOwner` by a direct call, so that a change of power is either the
acceptance of a pending transfer, or the execution of a scheduled call that
waited its delay. The two other theorems are action properties, and follow
from the same lemma case by case.

**Broadcaster.** Assumed: positive costs, a daily budget that covers one, and
that `NoTx` and `NoPending` are neither transactions nor rows. `IInv` relates
what the five processes hold: a row reserves what was signed for it
(`RowsInv`), the chain holds disclosed transactions by nonce (`MinedInv`), the
transport's journal names a row (`TransportInv`), and each process knows of its
row only what no other takes back (`TaskInv`, `RecInv`, `CliInv`). That no two
rows are pending rests on the order of the handler's checks: from the reading
of the state until the journal is written, every row's nonce is below its own.
`LimitsHold`, the day's budget and the reserve, is proved on top. The journal
and the chain know of a cost at different times, so the invariant counts
neither: `Owed` takes of each row what was reserved while its nonce can still
be consumed, and what it cost afterwards. The exposure the code computes is
never less, because a receipt is found at or after the block it is for, and
what was paid within a day is never more, because each transaction has a row of
its own. `AtRest` carries the second reading of the state to the journal, and
what is spent for good plus the one pending reservation leaves the reserve. The
sums are `SumFunctionOnSet` of the community modules, whose definition is
recursive; the lemmas about them (an element adds its value, a sum grows along
an injection) are proved by counting: a sum of numbers is the cardinality of a
set of pairs, and a smallest set for which it is not cannot exist.

**Run loop.** Assumed: names for nobody and nothing, known setups, blocks that
count from 1. The invariant says where each thing was read: `ProcessInv` (what
a process announced is indexed and attributed), `CacheInv` (the cached orders
traded only after the settlement the cache remembers, an auction's only after
its block), `LeaderInv` (who leads holds the lock), `SolveInv` (an earlier
winner with an order of the auction being solved is past its deadline or was
mined, and no two processes solve one auction), `WinnersInv` (the same of two
winners), `ExecutionInv` (who runs an execution, and that a timeout is past its
deadline). `AuctionMissesNoTrade` rests on the first two; for `OrdersWinOnce`
the winners that the cut left out are all there are, because nobody else leads
in between. Where a setup has faults the formulas make the exceptions of the
properties and no other.

**Settle queue.** Assumed: finitely many requests and accounts, and a cache of
at least one auction of one solution. `SettledOnce` is not inductive: requests
may ask for the same settlement. The invariant adds that the cache has no
duplicates (`NoDuplicates`), that no settlement is of an auction still to come
(`FromAuctions`) and that what was executed has left the cache (`Gone`); the
lemmas say what `swap_remove_front`, the insertion at the front and the
truncation do to a sequence without duplicates. `SlotsAreHeld` adds that only a
request that holds or executes has a slot.

**Submission.** Assumed: a setup has a mempool and deadlines, prices are
positive. `FailedLeavesNothing` is an argument over several loops
that share one nonce and one signer. `LockInv` says that only an execution that holds its
signer's lock has loops at work; `ChainInv` that a signer's transactions are
mined in the order of their nonces and that a mempool has one transaction for a
nonce not yet consumed; `BroadcastInv`, loop by loop, that a settlement in a
mempool or on its way is the one its own loop put there and still accounts for,
at a price the loop remembers, so that its cancellation replaces it. `LockKeepsPlace`
is an action property of the same invariant.

**Indexing.** Assumed: positive limits, `Depth` at most half of `Queried` and
below `HistoryMax - 1`, as 64, 128 and 200 are; and, as the code does, that
a reorganisation replaces at most `Depth` blocks. The properties speak of the
database when the update is over, or was interrupted; the invariant speaks of
what `update_events` holds in between. `Seen` is all that is known of a block
once read: its number is not above the chain's, and what lies `Depth` below it
is on the chain for good. On it rest `HandledInv` (the handled blocks increase,
and those still canonical are ancestors of the last), `RangeInv`, `LatestInv`
and `HistoryInv` (the tail is of one chain and continues either the handled
blocks or a block they share with it, and history ends `Depth` below the head)
and `FinalInv` (what was fetched and verified is the range's events).
`CheckpointLosesNothing` adds `StoreInv`, which orders checkpoint, handled
blocks and store, and holds for both stores. That the settlement store has
exactly the events of the last handled block and its ancestors (`Mirror`) needs
that its replacement deletes everything from the first block on:
`StoreIsConsistent` assumes `Store = "settlements"`, and for the refund store
the corresponding property is the violation of section 6.

**Own fees.** Assumed: bounds are numbers, there is a month, and NULL is no
hash. `PayoutIsSafe` is about a run that stops anywhere and about submissions
that arrive after it. `PlanInv` says what the run holds: the batches it will
propose are still computed, and the one it is at was marked before it was sent,
so that no proposal of its month is on the way or in the queue. `SentInv` orders
the nonces of one run. `NonceInv` bounds nonces by what was used: each locked
month has made room for one. `RecordInv` ties what a poller waits for to its
row. `PayoutIsFunded` adds `FundsInv`: from the reserve on, what is live and
what the run may still promise are together within the Safe's balance and
`slipped`, what was executed and recorded between the two reads. That
`reservedForQueued`, a sum over months, bounds `Live`, a sum over proposals, is
an injection, since no month has two.

**Winner selection.** Assumed: finitely many solvers and pairs, numbers as
scores. Each state is computed from the one before, so the work is in lemmas
about the operators. `SortIsListing`: `SortByKey` lists each index once and in
order; an ordered listing exists because counting what precedes an index gives
each its own place. `WinnersAreSelected`: a set as `PickWinners` describes it
exists, since a shortest prefix without one would extend a prefix with one, and
has disjoint pairs and nothing to add.
`BaselineIsSecond`: two different solvers exceed a score exactly when the
baseline does, which gives `FilteredByTwo`. `FairIsSorted` and
`RankingIsJustified`: a fair solution that lost shares a pair with a better
winner, or there are `max_winners` better ones, because the pick goes by score
and the ranking keeps that order. `ReferenceOutcome` holds although the list
given to the second pick is not sorted by score: maximality does not need it.

The runs check these formulas on their instances, the inductive invariants
were checked there before they were proved, and what is proved holds for any
number of orders, accounts, wallets, requests, instances and amounts.

## 6. Findings

- `indexing_refunds` (a run, expected to violate `NoOrphans`): the refund
  store's replacement deletes its own range only
  (`database/ethflow_events/event_storing.rs:85`). After a partial update of a
  reorganised tail, refunds of removed blocks remain above it.

The following are configurations beside the runs. Each checks one property,
which the code breaks; `tlc -config <cfg> <module>` shows how.

- `MCBroadcasterCancel.cfg`, `CancellationIsRecorded`: a second cancellation
  overwrites the first in the journal. If the first is the one mined, its
  receipt is never found, the row is confirmed at its maximum cost and no
  command releases it. `apps/broadcaster/README.md:61` promises the actual
  cost.
- `MCIndexingRestart.cfg` (of `MCEventIndexing`), `NoOrphans`: a restart keeps
  the number of the last handled block but not its hash, so a block replaced
  meanwhile is not noticed. Its events stay, and hide the new block's because
  inserts ignore conflicts.
- `MCRunLoopStart.cfg`, `FirstAuctionIsCurrent`: `MaintenanceSync` starts with
  the current block's number (`autopilot/src/maintenance.rs:142`) although the
  field is documented as the last block whose essential processing completed
  (line 43). Until the first block is handled the run loop does not wait, and
  the first auction may hold an order already filled. `AuctionIsCurrent`
  excepts that block, and `AnnouncesHandled` speaks of steps that announce.
- `MCSettleQueueCache.cfg`, `RecentSettlementsStay`: a settlement is taken out
  of the cache by `swap_remove_front` (`driver/src/domain/competition/mod.rs:1107`),
  which moves the newest to the removed one's place. A later truncation then
  evicts a recent settlement before older ones, although the cache is sized for
  the last `MAX_CONCURRENT_AUCTIONS` auctions.
- `MCSubmissionCancel.cfg`, `CancelOrSettle`: a loop that reads its nonce after
  a faster loop's cancellation was mined gets the next one and broadcasts the
  settlement that was given up. The documentation of `cancel_all` has the two
  share a nonce.
- `MCReferenceScores.cfg` (of `MCWinnerSelection`), `ReferenceWithoutSolver`:
  `pick_winners` needs its argument sorted by score, and the ranking passed to
  it for the reference scores is sorted winners first
  (`winner-selection/src/arbitrator.rs:51`, `564`, `621`); nor is the fairness
  filter repeated without the solver. The score may differ from "the total
  score of all winning solutions if the solver S had not participated"
  (`autopilot/src/domain/competition/winner_selection.rs:21`). What does hold
  is `ReferenceIsAnOutcome`.
- `MCOwnFeeOverdraw.cfg`, `NeverOverdrawn`: the balance is read before the
  reserve (`payout.ts:307`, `316`). A payout executed and recorded by a poller
  between the two reads is in the balance and no longer in the reserve, so
  queued proposals can together exceed the balance, which lines 269 and 270
  exclude. `QueueIsFunded` bounds the excess by what was recorded in between.
- `MCOwnFeeEntries.cfg`, `ExecutedIsPaid`: the batch becomes executed in one
  statement and its entries paid in the next (`payout.ts:496`, `499`); after a
  stop in between no later run looks at the batch. `ExecutionsAreRecorded`
  excepts a fault between the two writes, and none before the first.

Seen while modelling, and not checked by a run:

- The fairness filter compares a solution with the best baseline of two
  different solvers, in effect the second best; the documentation
  (`autopilot/src/domain/competition/winner_selection.rs:11`) speaks of the
  best solution for the pair. `FilteredByTwo` states what the code does.
- A restart after a partial replacement resumes from a checkpoint that may be
  above the replaced range, so blocks between are not read again
  (`event-indexing/src/event_handler.rs:506-510` and `665`).
- A failed update is retried at the next block only (`maintenance.rs:150`), so
  indexing is live only while the chain produces blocks.

## 7. Only model-checked

Liveness (`PaidIsSettled`, `ExecutionsEnd` of two modules, `SlotsGoRound`,
`ExecutionsAreRecorded`) stays with TLC: the prover does not reason about
fairness or `ENABLED`. Every safety property of a passing run has a theorem.
Induction over data is out of the prover's reach too, since the library's
induction theorems take an operator; the proofs about sums, listings and picks
count, or go by a smallest counterexample, instead.

## 8. Not modelled

Each part has its reason in `PROJECT.json`. In short: solver engines,
liquidity sources, quoting and price estimation are numeric search whose
result the contract checks; the route adapters are calls a settlement already
treats as arbitrary; simulation, tracing, configuration, storage queries,
SDKs, agents, frontends, scripts and infrastructure keep no protocol state. Of
the modelled parts these are left out: proxy upgrades and the timelock's own
roles; reentrant reward or vault tokens; the broadcaster's fee quotes, rate
limits and fork mode; the event handler's start block setting and its pages of
more than 10,000 events; in the autopilot the filters by balance, signature,
token and price, and the creation and cancellation of orders while it runs; in
the driver the solving itself, transaction types and gas estimation, and
blocks that are replaced under a submission; in winner selection the score of
an order, sums that saturate and solvers that give two solutions one id; in the
own-fee payout how trades make what is owed and how it is split, and transfers
out of the Safe by transactions of its owners' own, which take a nonce in the
model and no funds.

## 9. Plan

What is left, in the order of what matters:

1. **Rebate batches** (`RebateBatch`): rows, the Safe queue, the accrual basis
   of the direct mode, on the pattern of `OwnFeePayout`; then the affiliate and
   partner payouts, which spend the same Safe and each reserve what the others
   have queued.
2. **Refunder**: eligible orders read from the store, filtered by their status
   on chain, refunded in batches.
3. **Fee liquidator** over `Settlement`'s interaction phase.
4. **Proofs** of the same kind for those modules: the lemmas of `Sums` and the
   invariant of `OwnFeePayout` are what a batch of rebates will need.
