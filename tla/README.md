# Ergo Protocol in TLA+

A verification project for the Ergo Protocol repository: a lending protocol of
Soroban contracts on Stellar (`contracts/`), with a TypeScript server that
indexes its events (`server/`), keepers (`keepers/`) and a web client
(`client/`). Each module translates code; `PROJECT.json` maps every definition
to the lines it stands for.

## 1. Inventory

How the parts interact. The Core Pool asks the Oracle Aggregator for prices and
the Compliance Gate for permission (both by cross-contract calls inside the
user's transaction), and moves tokens through the market assets' token
contracts. The Liquidation Engine reads health factors and positions from the
pool, settles liquidations in it and draws shortfalls from the Backstop.
Governance calls whitelisted targets after a vote and a timelock, and pays
emissions by Backstop share. The server polls the contracts' events into its
database; keepers work on that database; the client builds, signs and submits
transactions. The ledger runs transactions one at a time, and a call that
returns an error or traps loses every write it made: the modules rely on both.

| Component | State | Operations | Hard behaviour | What makes it correct |
|---|---|---|---|---|
| Core Pool `contracts/core-pool` | admin, dependencies, market records with totals, positions; the tokens it holds | initialize, set_dependency, create/pause/resume_market, supply, withdraw, borrow, repay, compliance_clawback, liquidate_position | totals kept by hand beside positions; two records of one market in one call; markets sharing an asset; health factors that depend on every position and price | totals are the sums of positions; tokens and debts cover claims; ceilings hold; debt only where admissible; nobody made liquidatable by a user's own step |
| Core Pool views `core-pool/src/lib.rs`, `interest_rate.rs` | none that lasts | market and user statistics, four previews | scales; temporary writes | a preview agrees with the operation it previews |
| Backstop `contracts/backstop` | pool and user balances, one pending withdrawal per pool and user, allocations; tokens | deposit, queue_withdrawal, claim_withdrawal, draw, set_allocation, gulp_emissions | a second queue, draws between queue and claim, pools sharing one token balance, the cooldown | a pool's claims are paid from its own deposits; nothing queued is lost |
| Liquidation Engine `contracts/liquidation-engine` | auctions (a snapshot of a position), their count, a flash context | create, fill, flash fill, protocol liquidator, finalize bad debt | snapshots grow stale; several auctions on one position; calls into two other contracts that may fail | the discount is capped over an auction's life; a fill on a standing debt pays for what it takes; little is left of a closed auction's debt |
| Oracle Aggregator `contracts/oracle-aggregator` | feeds per asset, tripped flag, last good price | register_feed, get_price, trip, confirm_pause, override | staleness at the boundary, deviation, trips that roll back | a price answered is the lower median of fresh feeds that agree, or with none a built-in one |
| Governance `contracts/governance` | whitelist, proposals, votes | create, vote, finalize, execute, distribute_emissions | clocks (time and ledgers), repeated calls, failing targets | one vote each, execution at most once, after the timelock, on a whitelisted target |
| Compliance Gate `contracts/compliance` | permissioned flags, allowlists, issuers, the pool's address | check_authorized, flag, allow, set_issuer, clawback | changes between check and use | only an issuer claws back; only allowed users borrow |
| Ergo token, test assets `contracts/ergo-token`, `contracts/testnet-mock-assets` | balances, allowances, supply | mint, burn, transfer, approve, faucet | allowances and self-transfers | supply is the sum of balances |
| Event indexer `server/src/services/indexer.ts`, `db/index.ts` | checkpoint (memory and database), events, transactions, auctions, the day's figures | boot, poll, page, process, checkpoint; the admin page's reads | crash between processing and checkpoint, retries, truncated windows, retention, failed statements, a read beside the indexer | no event before the checkpoint is missing; an auction's row says what the log says; the checkpoint moves on |
| Server prices and routes `server/src` | proposals, prices, the faucet's account, each in memory and in a table or on the ledger | post, vote, load; price requests; faucet requests | two copies of a row, upserts in any order, requests that read before others write, restarts | votes count once; numbers are shared only by requests that ran together; prices stay near the feed's; who is told of a payment was paid |
| Keepers `keepers/src` | none of their own | watcher, liquidator, flash filler | several rows written one by one, from rows read earlier; cycles that overlap | an auction is filled once unless two cycles have it |
| Client transactions `client/lib/transactions.ts`, `hooks/useTransactionBuilder.ts`, `ErgoDashboard.tsx` | per-click progress, the history | approve and act: supply, withdraw, borrow, repay, stake, compliance, fees, faucet | two transactions per action, polling limits, lost answers, network switches in the middle | what a polled flow enters in the history is true; a flow that gave up left nothing that lands; no panel stays locked |
| Client UI `ErgoDashboard.tsx`, `lib/stellar-wallet.tsx`, `lib/hooks` | wallet, network, what each view shows, what it keeps of a wallet in local storage | connect, disconnect, switch, open a section, reload, poll, sign on mainnet | answers that come after the user has moved on | views come to show the connected wallet; books match their lists |
| Deployment `client/deploy-and-setup.js`, `scripts/`, `client/mint_testnet_ergo.js` | the ledger, env files, a script's place | deploy, initialise, wire, list, seed, mint, pay | transactions given up on that land later, scripts started again | env files name what is set up; no pool is seeded twice; a repeated deployment gets through |

`PROJECT.json` lists under "hazards" what is hard to test in this code, each at
its line, with the property that covers it or the reason why none does.

## 2. Plan

| Step | Modules | Composition and abstract specification | Runs | Theorems |
|---|---|---|---|---|
| 1 (done) | `Tally`, `CorePool`, `AssetVaults`, `PoolVaults` | the pool implements `AssetVaults` | core_books, core_risk, core_emode | type, books, ceiling, admissible debt, pause, liquidation, refinement, claims |
| 2 (done) | `Backstop` | accounts of its own: what was deposited, drawn, claimed and replaced | backstop, backstop_share | books of the fund, cooldown |
| 3 (done) | `LiquidationEngine` | the whole pool with auctions beside it; implements `CorePool` | liquidation, liquidation_price | auction records' types, stranded debt, life-long discount, paid fills, refinement of the pool |
| 4 (done) | `Indexer` | the chain as an environment; crash and restart; liveness under weak fairness of its loop | indexer | types, nothing missed, rows follow the log |
| 5 (done) | `Deployment` | the scripts against one ledger, run after run | deployment | systems set up, single payments |
| 6 (done) | `ClientTransactions` | flows against the ledger and the wallet | client_tx | types, polled entries, time-outs, refusals |
| 7 (done) | `ClientSession` | one view of the page, or one of its books | client_session | types, views at rest, true books |
| 8 (done) | `Governance`, `OracleAggregator`, `Token`, `Proposals`, `PriceService`, `Faucet`, `FlashFiller`, under `Services` | components without shared state, one followed by each behaviour | services | every property of the run |
| 9 | `Compliance` | the gate in place of `CorePool`'s `authorized`, if it comes to keep related state | - | - |

The order was chosen by what is hard: concurrency, crashes and retries first.
Small contracts and services share the run `services`, each with properties of
its own.

## 3. Modules

- `Tally`: the sum of a natural-number function over a finite set, defined by
  counting (`Total(f, S)` is the number of pairs of an x in S and a unit of
  `f[x]`, the size of a disjoint union), and the smaller of two numbers.
  Counting instead of recursion is what lets the provers reason about sums.
  `TallyProofs`: the lemmas (a sum after one summand changed, monotonicity, the
  least and the greatest element, and induction over the sets of numbers that
  satisfy a condition, with which recursive functions are reasoned about).
- `CorePool`: the contract. `supplied[m][u]` and `borrowed[m][u]` are the
  stored positions, `totalSupplied`, `totalBorrowed`, `active` and `terms` the
  fields of a market's record, `DOMAIN terms` the markets list, `dependency`
  and `admin` the instance storage. One action is one successful transaction; a
  failed one changes nothing. The actions carry the names of the entry points.
  The environment: `wallet` is the token contracts' ledger (a transfer is part
  of the action and fails when the balance is short), `price` the oracle's
  answer per market (0: none), `authorized` the gate's answer. In the two
  handlers that store, check and restore, a primed book in the guard is the
  stored position the check reads.
- `AssetVaults`: what the pool promises about an asset, without markets and
  users. `PoolVaults`: the refinement mapping (cash is the pool's balance,
  claims and loans are the totals of the asset's markets).
- `MCCorePool` and its three cfg files: instances for TLC.
- `CorePoolProofs`: the proofs, the Liquidation Engine's at its end.
- `Backstop`: the insurance fund. `poolBalance`, `userBalance`, `pending` and
  `allocation` are the storage keys of those names, `wallet` the base asset's
  ledger (all pools share the balance `wallet[Vault]`), `now` the ledger's
  timestamp. The actions are the entry points; `Draw` is any draw by the
  registered engine, for any amount. `drawn`, `stranded` and `queuedAt` are
  history that only properties read. The pool's balance is an integer: nothing
  in `queue_withdrawal` keeps it from falling below zero after a draw.
  `MCBackstop`, `BackstopProofs`.
- `LiquidationEngine`: extends `CorePool` with `auctions` (the records by id),
  `sequence` (the ledger's number, which the discount is measured in) and
  `corePool` (the engine was initialized); `opening` is history. A step is a
  step of the pool's users, admins or environment (`PoolStep`), or one of the
  engine: `CreateAuction` reads the pool's health factor and positions,
  `FillAuction` computes `Reward` from the record and makes the pool's
  `LiquidatePosition` in the same transaction. The pool's own liquidations by
  other bound contracts are left to `CorePool`: here the bound engine is this
  one. `MCLiquidation`; proofs in `CorePoolProofs`.

- `Indexer`: one process with a state (`pc`) per await of `runLoop` and
  `indexNextBatch`; the locals of a batch, the memory (`useDb`,
  `memCheckpoint`) and the tables are variables. The chain is a constant
  sequence of events of which `latest` says how much is visible. A failed
  statement is logged and forgotten, as in `db/index.ts`; a failed RPC call is
  retried. `base`, `affected`, `jumped` and `readFailed` are history. `admin` is
  the admin page's query, whose late answer writes memory's checkpoint.
- `Deployment`: each script is a list of steps (`Steps`), a step sends at most
  one transaction and waits for it. `ledger` is a bag of facts. A fault loses a
  transaction, fails a request, kills the process, or makes it give up on a
  transaction that lands later (`orphans`). `SetUp` is all that the scripts'
  own transactions set up, which is less than the contracts know of (section 6).
- `ClientTransactions`: a flow per click with a state (`phase`) per await,
  `tx` what became of each transaction. `Handler` gives each handler's
  polls, validity and first leg. A tick is ten seconds. getAccount and
  prepareTransaction are one step (`Build`). `history` starts with the entries
  the page makes up for a wallet without a list (`Samples`), and two handlers
  add to it without a transaction: `HandleVote` and
  `HandleMainnetSignAndSubmit`, whose signed payment is thrown away.
- `ClientSession`: data are told apart by the wallet and the network they were
  fetched for. `view` is the view a behaviour follows, since no two share
  state; `PreviewView` waits before it asks and takes its question back, and
  `BackstopView` is asked for only while its `section` is open, or by a handler
  of the backstop's panel that ends (`BackstopHandlerEnds`). A
  behaviour may follow a book instead: `books` and `lists` are what local
  storage keeps of each wallet (mainnet positions, recorded when a transaction
  is signed; credit delegations; rewards; transactions of both networks), `book`
  and `transactions` what the page shows of it. `Pools` is what the pools of the
  page show. `handler` stands for a flow of `ClientTransactions` of which only
  the end matters here.
- `Services` brings together seven components that call nothing of each other:
  a behaviour follows one `part`, so the run is their sum and not their
  product. `Governance` (ballots beside the tallies, `trace` the history of a
  proposal's finalization and calls), `OracleAggregator` (the list of feeds and
  the flag; a read that returns an error changes nothing, for the host drops
  its writes, `Kept`; the sort is a recursive function), `Token` (the Ergo token and the test assets, whose code is the same
  but for the faucet; `approved` and `spent` are history), `Proposals` (memory
  and table, upserts in any order, two POSTs at once; `together`, `blind` and
  `lost` are the history by which a shared number is excused), `PriceService`
  (requests of two prices each, whose feed call and query are steps of their
  own), `Faucet` (the treasury's sequence number), `FlashFiller` (cycles of
  separate writes; `setInterval` starts one whether or not the last is over, so
  `Cycles` of them are under way together. The records memory hands out are
  shared objects: `records` has what each says, `memRecord` the one memory has).
- `MCIndexer`, `MCDeployment`, `MCClientTransactions`, `MCClientSession` and
  `MCServices` with a cfg file each; `IndexerProofs`, `DeploymentProofs`,
  `ClientTransactionsProofs`, `ClientSessionProofs`, `ServicesProofs`.

A definition marked "Wrong on purpose" or "mutant:" is a fault put in place of
the operation after it: each property is known to fail under one.

## 4. Runs

| Run | Question | Instance |
|---|---|---|
| core_books | do the books stay right through every operation in every order? | 2 users, 2 markets on one asset or on two, amounts 1 and 2, ceilings 2 and 1, 57 518 distinct states |
| core_risk | is debt admissible when taken, and is nobody put under the threshold by a user's or the admin's step? | 2 users, 2 assets, a permissioned or E-Mode market, prices 5, 9 and none, 40 497 distinct states |
| core_emode | does the documented 93% E-Mode threshold hold on the deployed listing? | the listing of `client/deploy-and-setup.js`; violated |
| backstop | do the fund's books account for every token through second requests and draws, and is the cooldown kept? | 2 users, 2 pools, amounts 1 and 2, endowments 3 and 1, cooldown 2, clock to 4, 1 206 797 distinct states |
| backstop_share | is a depositor's share a number of basis points, as the emissions code says? | the same instance; violated |
| liquidation | what do auctions give away and leave behind, and are fills paid for, while the pool moves under them? | a borrower and a supplier who liquidates, 2 markets, calls of 10 and 20, fills of 10, 19 and 20, 2 auctions, 0, 100 or 200 ledgers, 223 562 distinct states |
| liquidation_price | is collateral sold at the oracle's price less the curve's discount? | the same instance; violated |
| indexer | is no event lost or misread through crashes, failures, cut windows and retention, and does the record catch up? | 7 events of ledgers 3 to 6, pages of 2, 2 pages, a window of 2 ledgers, retention 3, 1 fault, 2 crashes, 265 457 distinct states |
| deployment | what may a script leave behind, and does starting it again help? | 2 assets, 2 markets, plans of up to 3 scripts, 2 faults, 350 491 distinct states |
| client_tx | what do clicks do on the ledger, and what does the page say of it? | 2 clicks of 7 kinds, 1 mishap, 2 networks, 2 747 477 distinct states |
| client_session | what does the page show in the end, and what does it keep? | 2 wallets, 2 networks, 5 moves, 1 failed request, lists of 4 or 5 entries in all, 1 009 418 distinct states |
| services | does each small contract and service keep its promise? | see below; 3 247 481 distinct states |

Bounds, and why they are enough: `Amounts`, `Endowment`, `Prices`, `Listings`
are small sets. Amounts 1 and 2 with endowments of 2 and 1 make a position
smaller than the amount asked (repay, claw back and liquidate less), a pool too
short of tokens to pay, a ceiling reached in one step and in two, and a
liquidation with debt and collateral in one market. Two users are a debtor and
a liquidator or supplier. In core_risk the prices 5 and 9 make a debt unhealthy
by a price move, and 8500/9000 with the boost at 9000 is the tightest listing
for which thresholds dominate. `MCConstraint` cuts what multiplies states
without interacting: the oracle and the engine are bound before the first
listing (`WiredFirst`), the gate's answers matter only for a permissioned
market (`GateMatters`), and one thing is out of order at a time (`OneDisorder`:
a paused market, a missing price or a closed gate). Steps that leave the
constraint are still checked, not explored further. i128 saturation
(`saturating_add`, `saturating_mul`) is outside every bound and not modelled:
amounts are unbounded naturals. No run of a contract has fairness or claims
liveness: nothing in these contracts happens without somebody's call. No state
of theirs deadlocks.

In the backstop runs a cooldown of 2 and a clock to 4 let a request mature, be
replaced before and after it matures, and be followed by another whole
cooldown; endowments of 3 and 1 let one user hold positions in both pools
and draws overdraw a pool with requests waiting in it. In the liquidation runs
`Amounts` (1..40) is the range of numbers the pool may be asked to move (a
reward outside it is not explored) and the calls move 10 or 20; 19 of a debt of
20 leaves a record that one more unit closes, and 100 ledgers are the curve's
whole window, so a fill earns no discount, all of it, or the constant one after
the window. `MCConstraint` of `MCLiquidation` sets everything up in one order,
lets the clock run only once an auction exists, keeps markets active and the
gate open (core_books and core_risk move those) and lets one of the two users
borrow. Two auctions may be open on one position.

That the engine implements the pool (`ImplementsPool`) is proved and not
model-checked: checking a step relation of the pool's size on every transition
would take longer than everything else in the run.

In the indexer run two pages of two events are the page budget, so that a
window of two ledgers is cut; an auction is created, filled and created again,
one transaction carries events of two kinds, one contract is past the filter's
limit, and retention passes a checkpoint while the process is down. Two crashes
let a replay be interrupted by another. `NoBusyLedger` (an `ASSUME` of
`MCIndexer`) says that no ledger alone fills the budget: see section 7.

The plans of the deployment run repeat a testnet and a mainnet deployment,
pay, and seed before deploying. Three testnet runs are what one
fault can cost and one more; two faults let a transaction given up on take the
sequence number of the next run. The script stops at its end or at its first
error, and so does a behaviour: deadlock is not checked.

Two clicks are a flow beside another or a retry after it. The kinds left out of
the run (unstake, compliance, hookBorrow) are a leg of one that is in it. A
mishap is a failed or postponed request or a switch of network. Five moves of
a session are a connection answered late, two switches and a reload. In both
the user may stop: deadlock is not checked.

In the services run: two proposals, two voters of whom each is a quorum
(`TotalPower` 600, weight 100, 15%), timelocks of 1 to 3 and four ledgers, so
that votes, finalizations and executions meet every boundary; lists of up to
three feeds at 100, 120, 121 or silent, that is within, at and past 20% of each
other, of an asset with a built-in price or without; two holders, amounts up to
2 and a supply up to 2; two posted proposals beside one built in, two votes, one
failure and one restart, which may lose the database or find it again, with up
to three requests and upserts under way (`MCConstraint`); two price requests at
a time, two publications, an asset with a price in memory or without, one move
of the feed or restart; three users of the faucet with two mishaps; two auctions
of one borrower with collateral for two, two cycles of the filler and one failed
call, replay or restart, up to three records. `MCConstraint` lets the calls under
way share their number with the mishaps, and the publications theirs with the
feed's moves. Each part may reach a bound: deadlock is not
checked. `Titles` and `Requests` are symmetric; the run has no liveness.

Fairness, where liveness is claimed, is weak and on the code's own steps only.
`Indexer`: the event loop runs a pending callback sooner or later and `sleep` is
a timer; boots, failures and the chain are not fair. `Deployment`: the operator
starts the next script of the plan, and a running script goes on.
`ClientTransactions`: time passes and each flow's pending callback runs; neither
the wallet, nor the user, nor the ledger has to do anything (`PanelUnlocks`
excepts a flow that waits for the wallet). `ClientSession`: intervals fire and
requests are answered or fail.

## 5. Proofs

Every theorem holds for all users, markets, listings, prices and amounts that
meet the named assumptions of the modules (finite sets of users, markets,
assets, pools, titles and auctions; a contract is not a user; positive amounts
and prices; the flows of an abstract step include every part of an amount;
ledgers advance by positive numbers; the chain's events are in the order of
their ledgers, and the lookback starts after the first ledger and within
retention; the scripts' lists are of strings, with no market twice).

- The inductive invariant is `BooksInv`: types, totals equal to sums,
  ceilings, and `UnlistedMarketsEmpty`. The last is what makes the rest
  inductive: `create_market` sets a market's totals to zero, which agrees with
  the positions only if an unlisted market has none. Non-negative positions
  come from the checks of withdraw and from `Least`. A step changes one
  position and one total by one amount; `TotalChange` carries the sum.
- `NewDebtIsAdmissible` and `PausedMarketsOnlyShrink` are proved action by
  action from the types; `NoSuddenLiquidation` adds `ThresholdsDominate` as a
  hypothesis (nothing in `create_market` enforces it, and core_emode shows a
  listing without it): the health check at the collateral factor bounds the
  value at the threshold, summand by summand (`TermUnderTotal`,
  `TotalMonotone`, `ProductMonotone`).
- `PoolImplementsVaults` maps each action to a flow or a stutter and
  `ClaimsAlwaysCovered` takes `Covered` from the abstract `VaultsCovered`.

- `BackstopBooks` and `CooldownAlways` rest on `CapitalInv`: types, the two
  balance equations and `RequestsWait` (a waiting request's unlock time is a
  whole cooldown after its user last queued), which is what makes the cooldown
  inductive: the record alone does not say when it was made. Sums over pools of
  sums over users change by one amount (`SumsChange`).
- `DiscountAlwaysCapped` rests on `RecordsInv`, which adds to the types that a
  record is open just while it has debt and collateral left
  (`OpenWhileBothLeft`) and `RecordsFall` (what is left of a record is at most
  what it opened with, and it opened in the past). The cap over the whole life of an auction is
  carried through a partial fill by arithmetic (`CapKept`): each part gives
  away at most 1.1 times its share of what was left, and what was left is
  bounded by the cap so far. `CurrentFillsAlwaysPay` combines the same bound on
  one fill with what the pool settles. `LittleIsStranded` follows from the cap: a
  closed record has no debt, or no collateral, and all the collateral given away
  at no more than 1.1 times its share was paid for with ten elevenths of the
  debt.
- `EngineImplementsPool` shows each step of the engine to be a step of the pool
  or a stutter, so that every theorem about the pool holds beside the
  engine; `BooksHoldBesideEngine` draws two of them.

- `NothingIsEverMissed` rests on `IndexerInv`, which says what is known in the
  middle of a batch (`Batch`): what was fetched or handled has no gap below any
  of it, because a page takes the first events of what is left (`PageFacts`,
  `FetchFacts`), and an incomplete window is handled up to the last ledger
  seen. `Whole` carries the record from one place the loop may go on from to
  the next: the saved checkpoint, memory's, the admin page's answer, and the
  window's start, with the ledgers of a jump put on the account of `jumped`.
- `RowsAlwaysFollow` needs the order too (`RowsInv`). A row that does not follow
  its last event has that event still to come (`Pending`): after an event to
  come, everything of the batch is to come (`InOrder`), and no place the loop
  may go on from lies past it. The last is what `Restart` says, and where it
  was not as simple as it looked: `SkipAhead` (`indexer.ts:143`) computes its checkpoint from the
  ledger that was the latest when the batch began, so that a batch that was
  held up for longer than the retention less the lookback moves the checkpoint
  *back*. No replay comes of it, for the RPC no longer serves the ledgers it
  moved over, and the invariant carries that case along as
  `checkpoint < OldestLedger`.
- In `DeploymentProofs` the scripts are first brought into order as sequences
  (`Order`: initialising, wiring and listing, then seeding, then the env files;
  no two supplies are equal; `OneMint`: one mint, after the token's
  initialisation), for lists of any length. `Walk` then says what a run has got
  to: what is required of the steps behind it is on the ledger (`Laid`), and no
  seeding or mint ahead of it is there or on its way (`Unsupplied`, `Unminted`). An
  error leads to the end, or over steps nothing requires (`ErrorLeads`), so one
  lemma (`MovesOn`) carries `Walk` through every action. What makes it inductive
  from one run to the next is `Sourced`: a pool is only supplied by the run it
  is named after, and a mint on the ledger means the token was initialised,
  which stops a second mainnet run before its mint.
- `TransactionsInv` gives each phase of a flow what it knows: which of its
  transactions is signed, submitted or in a ledger, how long ago it was built
  and how many polls were made since, and that a flow's own legs are one after
  another. Each property is a clause about one phase. `TimedOutIsDead` is
  arithmetic on the polls: fifteen of them are past the validity.
  `PolledEntriesAreTrue` needs of an entry only the click it is from, and of a
  flow that is done that its last poll saw its act succeed.
- `SessionInv` has a half for the views and one for the books. `ViewInv`: while
  nothing has raced, there is at most one request, and it is as the page would
  make it now (`AsIfNow`: wallet, network, an amount typed, the backstop's
  section open), so whatever answer
  comes is the right one; each step either keeps that or makes a new request
  of an empty set, or sets `raced`. `BookInv`: `BooksMatch` alone is not
  inductive, for a signature writes an amount captured earlier. It needs what
  is captured (`BookSigned`: the signer's stored book, unless `tainted`), what
  a page showing someone else's book shows (`BookStored`: that wallet's), and
  that dialogs and handlers exist on the mainnet page only. One more entry is
  one more step of the replay (`ReplayAppend`), by induction on the list.
- In `ServicesProofs` each part of `Services` has its own invariant, proved on
  the part's own step and put together at the end, since a step of one part
  leaves the others' variables alone. `GovernanceInv` carries a decision along:
  each tally is the weight of the ballots on its side, a proposal past Active
  was carried by them, and its status tells how often its target was called.
  `TokenInv` is types and the property itself: a burn keeps the supply a
  natural number only because a balance is at most the sum of all, and a
  transfer is two changes of one summand one after the other, which is why a
  transfer to oneself needs no case of its own. The oracle's answer rests on
  `MedianInTheMiddle`: the insertion sort keeps order and contents, by
  induction on the list, so at least half the feeds lie on either side of the
  entry taken. `PublishedPriceDrifts` bounds a recursive function (`Ratchet`)
  the same way, by the number of publications. Of the prices,
  each one that is held - in memory, in the row, on its way to it, or by a
  request - lies between a known one and the ratchet of a known one, and a query
  is made only where memory began without a price, so that what a late one
  brings back was published by some request. `ProposalsInv` says of the votes
  what a row may lag behind memory by, and of the titles that a row is owned by
  a title created with its number (`Owned`), that a created row is in the table,
  on its way or in the memory it began in (`RowsFound`), that two POSTs under
  way count as together (`PostsApart`), and that one passes every number taken
  before it but for those excused (`Passed`). The filler's invariant has three
  parts: an uncontested auction is had by one cycle at most, and by none once
  its collateral was taken (`Single`), no record says less than what is left
  after all that was taken (`Bounded`), and while nothing crossed or was
  spoiled each says exactly that (`Exact`). The faucet's says whose payment is not yet
  known to whom.

Induction over data is done here over sets: to prove something of every number
it is enough that the set of those for which it fails has no least element
(`Smallest`, `Induction`), and a recursive function is shown to be what its
definition says by building it up to each number (`BuiltUp`, `RecursionUpTo`).

Only model-checked: the counterexamples of core_emode, backstop_share and
liquidation_price. Out of the prover's reach: liveness under fairness (`CatchesUp`, `TestnetGetsThrough`,
`PanelUnlocks`, `PolledViewsHeal`), which needs ENABLED.

## 6. What is not modelled, and why

Storage lifetime and fees, signatures (an action of user u stands for u's
signed call), event payloads, and the repository's pure views and previews: no
operation reads them (`simulate_*` stores a position, evaluates the health
factor `CorePool` models, and stores the old one again within the call). Tokens reach the pool only through its operations. A dependency
bound to an address that is not the contract it should be is not modelled
beyond "bound or not": what the bound contract may do is every answer and every
call the environment and the contract steps make.

In the Backstop `gulp_emissions` stores nothing. In the Liquidation Engine four
entry points fail in every state and roll back whole, so they are no steps:
`fill_via_flash_loan` (and `execute_op` under it) because the pool's
`flash_loan` returns an error, `run_protocol_liquidator` and
`finalize_bad_debt` because the pool would have to move the engine's tokens in
a nested call the engine did not authorize. The draw of the Backstop is
therefore not reached through the engine's code as it is; `Backstop` keeps it
as an operation of whatever contract is registered as its engine.

The Compliance Gate: each operation is one guarded write of one key, and no two
keys are related. `CorePool` takes every answer of a gate and models the
clawback a gate makes in it, which covers any gate. Governance's
`distribute_emissions` stores nothing of its own. The token's `set_admin` only
changes whose authorization is asked for, and approvals do not expire.

Of the server: the routes that only read rows, the simulated history, and
`syncLiveState`, which calls `get_market_state`, a function the Core Pool does
not have, and so writes nothing. Of the keepers: the watcher, which reads
`db.memoryStore`, a property that does not exist, and fails in every cycle
before it writes; `triggerAuction` is modelled though nothing calls it. Rows of
`positions` come from outside `FlashFiller`. `getSoroswapPrice` draws a factor
at random within 0.2%: `PriceService` takes the extremes. A row is read when a
load is asked for and may be old when it arrives. Whether a process has a
database is decided before it takes its first request (a top-level await in
`db/index.ts:109`), so `useDb` changes from one process to the next only.

Of the client: rendering, forms, the static pages, and hooks the dashboard does
not use other than those named in `map`. The RPC is assumed to show a ledger as
soon as it is closed, and the clocks of page and ledger to agree. Of the
scripts: those that only read, the removal of a WASM section before an upload,
and the tests; and `restore-contract.js`, which changes nothing: it looks for
`sim.restoreState` (line 47), a field the SDK does not set (it reports
`restorePreamble`), so that it takes every contract that answers for active.

What the deployments leave out themselves, and `SetUp` therefore with them:
neither calls `set_core_pool` of the Compliance Gate, without which a clawback
only emits its event (`compliance/src/clawback.rs:25`); the testnet's oracle
gets no feed and answers its built-in prices; on mainnet the Backstop and
Governance are, unless the environment says otherwise, the Compliance contract
(`deploy-mainnet.js:189`), which is initialised as such. `seed-liquidity.ts`
never gets past its first approval, and `mint_testnet_ergo.js` pays again when
it is run again, as meant: `NothingPaidTwice` is about the seeding and the mint
of the deployments.

What the code does and a property therefore excepts or states, by name:

- of two clicks on a ten-poll panel (20 s) the first may land after it was given
  up on (validity 30 or 60 s): `TimedOutIsDead` is about fifteen polls; a wallet
  that never answers keeps its panel locked (`PanelUnlocks`);
- the transactions list starts with two made-up entries for a wallet that has
  none (`ErgoDashboard.tsx:867`), a vote and a mainnet payment that was signed
  and thrown away enter it too (`:1101`, `:1500`), under the heading "Live
  verified transaction hashes on Stellar" (`:3245`): `PolledEntriesAreTrue` is
  about the entries of the flows that poll;
- two POSTs at once take one number (`together`), as does one whose list came
  from a restarted memory or lacks a lost row (`blind`, `lost`); a load that
  comes back late hides a vote, and the seeds 1 to 3 hide the table's rows after
  a restart (`raced`, `Seeds`);
- two faucet requests take one sequence number (`touched`);
- an auction that two cycles of the filler have listed, or whose row was not
  closed or was written again, is settled twice (`contested`); two cycles with
  the position in hand lose one another's update (`crossed`); a fill that fails
  or stops half way stays half done (`spoiled`);
- a late query for a price puts an older price back: `PriceDrift` is a bound on
  all that may be there;
- a late answer to the admin page sets the indexer back, and a crash in the
  replay that follows leaves a filled auction open (`admin.late`);
- answers in the wrong order stay on views that are not polled (`raced`), the
  preview of an amount typed earlier among them; the user's backstop balances
  are fetched in the backstop's section only and never reset, so elsewhere they
  stay an earlier wallet's, or empty, in the totals and the rewards made from
  them (`ErgoDashboard.tsx:818`, `:942`, `:1028`);
- a wallet that signs while another one's mainnet book is shown gets that book
  (`tainted`); a handler that ends after a switch of wallet shows the list, and a
  signature the book, of the wallet it was started by (`strayed`);
- several auctions on one position are bounded only by the pool's cut, and
  `CurrentFillsPay` is about a pool that still has the recorded debt;
- a mainnet deployment that failed cannot be repeated, for its fixed contracts
  are initialised (`TestnetGetsThrough` is about testnet).

## 7. Findings

- core_emode: `health_factor.rs:42` uses the listed liquidation threshold in
  E-Mode too, while `docs/protocol/technical-architecture.md:352` says it is
  "boosted to $0.93$ under E-Mode".
- backstop_share: `draw` lowers a pool's balance and no user's, so
  `calculate_share` (`emissions.rs:35`) passes 100%; the emitter that pays by it
  (`governance/src/emitter.rs:17`) says "in bps: 0 to 10,000". For the same
  reason the requests queued in a drawn pool are paid out of other pools'
  tokens, or not at all once those run out: `TokensAccounted` counts them
  together, across pools, because the contract does.
- liquidation_price: a fill's reward comes from the amounts recorded when the
  auction was opened, and the pool cuts the payment down to the debt of the
  moment. In the run's trace the borrower repays everything before the fill,
  which then pays nothing and takes the recorded collateral.
  `docs/protocol/liquidations.md:8` says liquidators "pay the outstanding debt
  to the Core Pool and receive the borrower's collateral at the current curve
  discount". `CurrentFillsPay` is what does hold: on a debt still standing, a
  fill pays its part at the recorded ratio and at most 10% more.

Met while reading, and not shown by a run of their own:

- `indexer.ts:168` says a cut window resumes "so the remainder is picked up on
  the next cycle". When the cut is in the window's first ledger the checkpoint
  stays where it was, and the same events are fetched for ever: `CatchesUp`
  holds under `NoBusyLedger` only.
- The oracle is not the one `docs/protocol/oracle-aggregator.md` describes, and
  `ReadsAnswer` states what the code does: a feed is fresh for 300 s
  (`aggregate.rs:6`; the document has 200 ledgers, `:12`); one fresh feed is
  enough (`aggregate.rs:8`; two, `:13`); with none the built-in price of the
  asset is answered and becomes the last good one, and only an asset without one
  gets `NoValidFeeds` (`aggregate.rs:40`; an error and the last good price,
  `:13`); the limit of the deviation is 20% (`aggregate.rs:7`; 5%, `:33`); and
  the flag `get_price` sets is dropped with the error it returns, so only a trip
  by hand lasts (the document has it committed, `:37`).
- No contract emits the events `Supply`, `Withdraw`, `Borrow` and `Repay` the
  indexer writes transactions for, and the data of those that are emitted are
  bare numbers: the indexer finds no user in them, and reads every auction's id
  as 0 (`indexer.ts:253`, `:270`).
- `finalize_proposal` stores Defeated and returns an error, so a proposal that
  lost stays Active. `docs/protocol/governance.md` gives 5 days, 4% and 48 hours
  where the code has 1 day, 15% and delays in ledgers. `execute_proposal` calls
  its target without arguments.
- `handleVote` (`ErgoDashboard.tsx:1092`) maps the list of proposals with a
  callback that returns nothing for the others, so they are lost from the page's
  list until it is fetched again.
- `clawback_position` does not check that the market is permissioned, as its
  comment says; `approve` of the token ignores its expiration ledger;
  `seed-liquidity.ts:99` approves to ledger 500, which an asset contract refuses
  once the chain is past it, so the script ends at its first approval.
