# Betdoc: a TLA+ model of where the money is

Betdoc places bets at bookmakers for a user, keeps the stake in escrow in a double-entry ledger
while a bet is open, and settles it when its market is graded. In front of that stands a router that
splits an order over several bookmaker accounts and holds each part's stake on its account. This
directory models both parts (`src/backend/app/services/cfo_*.py`, `order_resolver.py`,
`adapters/execution/`; `services/execution/`, `services/vault/account_rotator.py`,
`workers/execution_dispatcher.py`), and ten services around them that have races, retries and crashes of
their own: the global stop, venue sessions, the exchange path, bots' capital and orders, arbitrage legs,
the tick and ledger archives, and two stream consumers of `src/src/betdoc`. TLC checks
them all on small instances. TLAPS proves each of their safety and action properties for every value of the
constants; what is left to TLC alone is one liveness property.

    tlc -workers 2 -config CfoTwoOrders.cfg MCCfoExecution.tla     # a run
    tlc -workers 2 -config SmartRouterOrders.cfg MCSmartRouter.tla # a run of the router
    tlc -workers 2 -config Services.cfg MCServices.tla             # the ten services
    tlapm CfoExecutionProofs.tla                                  # the proofs: every *Proofs.tla

## 1. The system

| component | state | operations | talks to |
|---|---|---|---|
| CFO ledger (`cfo_ledger.py`, `models/cfo_vault.py`) | bankroll row (available, exposure, peak), one `PhantomLedger` row per order, append-only journal legs, audit rows, market results | `lock_bankroll`, `reserve`, `reduce_to_fill`, `release`, `settle`, `mark_peak`, `resolve_manually`, `record_result`, `settle_markets`, `allocate`, `deallocate` | Postgres (row lock `FOR UPDATE NOWAIT`) |
| Two-phase executor (`cfo_execution.py`) | one process per request; a Redis claim per idempotency key | `_claim`, `_pre_guards`, `EXECUTION_ATTEMPT`, `_locked` (lock, recheck, reserve, **call the bookmaker**, commit or roll back), `_conclude` | ledger, risk guard, gateway |
| Execution adapters (`adapters/execution/factory.py`, `sniper.py`) | none of their own | `place`: ACCEPTED, REJECTED or UNKNOWN; `fetch_statuses` | the bookmaker over HTTP |
| Order resolver (`order_resolver.py`, `workers/sniper.py`) | `resolve_attempts`, `next_resolve_at` on the row | `run`: poll "my bets", confirm, return, dead-letter, hand a grade to the sweep | adapters, ledger |
| Settlement sweep (`settle_markets`, `workers/cfo_settlement.py`) | what it read | read due bets, lock, settle each, mark peak, commit | ledger |
| Risk guard (`risk_guard.py`) | kill switch and loss streak in Redis, limits in Postgres | `check` before, `recheck_locked` under the lock | ledger |
| Smart order router (`execution/smart_router.py`, `execution_dispatcher.py`, `circuit_breaker.py`) | routed orders, slices, breakers | claim, plan, reserve, guard, dispatch, apply, finish, sweep | vault rotator, executor |
| Vault account rotator (`vault/account_rotator.py`) | `reserved` per account, one hold per order | `reserve`, `shrink`, `release`, `release_finished` | router, sniper |
| Leg executor (`leg_executor.py`, `arbitrage_calc.py`) | the legs fired so far | arbitrage and hedge, leg after leg, re-sized to what filled | executor |
| Control Panel and Sentinel commands (`control_panel.py`, `manager.py`, `sentinel_commands.py`) | the settings row, a Redis flag, a snapshot, a one-time code, the command log | emergency stop, PATCH, `/halt`, `/resume` | risk guard |
| Session manager (`session_manager.py`), throttle | a token per venue in Redis and in each process, two locks | `bearer`, `refresh_due`, `_refresh`, the retry after a 401 | venues' login, adapters |
| Exchange execution and reconciliation (`execution_service.py`, `reconciliation_service.py`) | `bet_ledger` rows, the mandate's row lock | reserve, call, `_finalize`; `sweep_stale_bets`, `resolve_unknown_bet` | an exchange |
| Hive bots (`hive_engine.py`, `hive_worker.py`, `hive_trading.py`) | bots, plans and slices, the merge lock, sub-accounts | a signal fires or plans; slices run; capital, mode, archive | ledger, executor |
| Nalanda archive (`nalanda_firehose.py`, `nalanda_cleanser.py`, `nalanda_mirror.py`, `nalanda_chain.py`) | a Redis stream and lease, the lake; cursor and hash chain | read, filter, store, acknowledge, drain; sweep | Redis, Postgres |
| betdoc: inference daemon (`daemon/worker.py`) | a partition's offset, a batch per member | poll, run, dead-letter, commit | Kafka, a process pool |
| betdoc: event bus and orchestrator (`event_bus.py`, `orchestrator.py`) | a stream with its group, per process a queue and batches in flight | publish, consume, reclaim, quarantine; offer, collect, evaluate, stand down | Redis, the twin |
| Omni fleet, real-money and paper trading, portfolio views, core and wire orchestrators | their own tables and streams | see `PROJECT.json` | |
| Models, maths, sports data, feeds, API, frontend | none that matters here | | |

Who races whom. Every HTTP execution is a task of its own; celery beat runs the sweep and the
resolver, and an administrator can run the resolver by hand (`POST /sniper/resolve-now`) beside
it; an administrator rules on bets by hand; the bookmaker strikes, refuses and grades in its own
time. They meet on one bankroll row. The executor **holds that row's lock across the HTTP call** and
everybody else either waits a little, skips its turn or works on what it read before.

What makes each correct:

* ledger: the two balances are explained by the journal and the open bets; each bet's money goes
  out once and comes back, is paid out or is booked as lost once; the peak is a high-water mark;
* executor: one bet per idempotency key; no live bet without a trace; the guards hold for
  orders that race through them;
* resolver, sweep, rulings: stale reads never touch a closed bet, never grade an unstruck one; a doubt
  ends;
* router and vault: an account's holds never exceed its funds, a hold of a bet that may be live is
  not given back, every routed order ends;
* stops: no order passes a stop nobody lifted, and no stale handler lifts one;
* sessions: one login at a time while the locks hold, no order fired twice with a refused token;
* exchange path: one bet per key, the mandate never exceeded, a live bet always counted, a ruling final;
* bots: moving capital makes no money and is no performance, what is in a bot's account is funded as its mode says, an archived bot
  is empty; no two bots of an owner hold opposite outcomes, a slice fires once unless its row was lost;
* legs: a slipped fill is covered by the legs after it, none of which outgrows what was checked;
* archives: what is acknowledged is stored, what the cursor has passed is in the chain;
* streams: what is committed was handled, a process that shuts down in order leaves nothing behind.

`PROJECT.json` lists every hazard at its line.

## 2. Modules

| module | what it is |
|---|---|
| `CfoLedger` | the ledger's functions, as operators from a *book* to a book. A book is what one transaction over the account can read and write: the bankroll row, each order's row, each order's journal legs (summed per ledger account) with the P&L its `SETTLED` audit rows carry |
| `BetEscrow` | the abstract specification: what the ledger promises about each bet |
| `ExecutorContract` | the abstract specification of the executor for its callers: the rows it leaves, what becomes of them, which bets are struck |
| `CfoExecution` | the processes: requests, bookmaker, market, rulings, resolver runs, sweeps, and the lock; the properties; the refinement mappings onto `BetEscrow` and `ExecutorContract` |
| `MCCfoExecution` | the instances TLC checks |
| `SlicePlan` | the router's planner, `plan_slices`, as an operator from what the venues offer to stakes per venue |
| `SmartRouter` | routes, the dispatcher over an executor reduced to its answers and rows, breakers, the Vault's holds, the sweeps, an operator; their properties; the mapping of its executions onto `ExecutorContract` |
| `MCSmartRouter` | the router's instances |
| `KillSwitch` | the stop's two records, the four handlers that write them, the guard that reads them |
| `SessionCache` | tokens, both locks, refreshes, refused orders and their retry |
| `ExchangeExecution` | the three phases of a request, the exchange, the sweep, an administrator |
| `BotCapital` | slider, mode change and archiving beside bets of the bot and of its owner |
| `HiveMerge` | signals and slices under the merge lock, the wash-trade check, redelivered tasks |
| `LegSequence` | an arbitrage's legs, floors, fills and re-sizing |
| `Firehose` | the stream, the lease, the filter that holds ticks back, the lake |
| `MirrorSweep` | rows that commit late, overlapping sweeps, the cursor, the chain's head lock |
| `InferenceDaemon` | members of a consumer group, their batches, commits and crashes |
| `EventBus`, `OpportunityFeed` | the bus's consumer group; on it the orchestrator's two loops in several processes |
| `MCServices` | one instance for these ten, which share no state |
| `SumFacts` | sums, products and recursions over finite sets: the induction the proofs below share |
| `CfoExecutionProofs` | lemmas on the ledger's operators; journal, balances, peak and cap |
| `CfoEscrowProofs` | the ledger against the bookmaker, and the refinements of `BetEscrow` and `ExecutorContract` |
| `SmartRouterProofs`, `RouterAmountProofs` | the router's statuses; its amounts, the planner, and the contract |
| `ControlProofs` | `KillSwitch`, `BotCapital`, `HiveMerge`, `SessionCache` |
| `ExchangeProofs` | `ExchangeExecution`, `LegSequence` |
| `StreamProofs` | `InferenceDaemon`, `MirrorSweep`, `Firehose`, `OpportunityFeed` |

How state corresponds to the code:

* `book` is the committed database, `work` the uncommitted one of the transaction that holds the
  bankroll lock, `lock` its holder. A commit copies the bankroll row and the rows the holder had read
  `FOR UPDATE` (`RowsOf`); a row somebody else updated meanwhile keeps its update.
  Transactions that make no call and take no second look (`resolve_manually`, the resolver's
  column updates) are one step; they wait for the lock or row when the code does.
* `pc[r]` is where a request is: `Claim` (`_claim`), `Attempt` (`_pre_guards`, prepare, the required
  audit row), `LockAndReserve`, `Send`, one of `Accept`, `Reject`, `TimeOut`, `CommitFails`, then
  `Conclude`. `Die` may happen between any two of them.
* `trail[r]` holds the audit events committed for a request. Rows that the code writes with
  `required=False` may be lost (`TryRecord`).
* `claimed[k]` is the Redis key; `ClaimExpires` its TTL.
* `venue[k]` is the bookmaker's record of a client reference (external; a reference is one order
  there, which is what the `Idempotency-Key` header asks for). It changes at any time, also while the
  executor has given up on it. `result[m]` is `MarketResult`.
* `run[w]` is what a resolver run or a sweep has read so far and may be out of date when used:
  `Poll` reads a row and the bookmaker's answer, `PollFailed`, `StillOpen`, `Resolve`,
  `ResolveLater`, `Stated` act on it; `SweepRead` reads what is due, `SweepLock` takes the lock and looks
  again, `SweepSettle` grades bet by bet, `SweepCommit` marks the peak and commits.

And in `SmartRouter`, where nobody keeps a lock from one transaction to the next and every write is a
compare-and-set on a status read earlier:

* `order`, `slice`, `breaker` are the tables of `models/execution_router.py` (status and amounts); a slice is
  named by its order and its venue, which is what its idempotency key says. `hold[o][v]` is the
  open `VaultAccountReservation` of that slice (0: none, or released), `reserved[v]` the account's column.
  Each venue has one account. A breaker starts with whatever earlier orders left it.
* `shot[o][v]` is a slice on its way: not sent, sent (the executor is working), over; with the answer the
  dispatcher got (`UNKNOWN` as soon as it timed out, whatever the executor does afterwards) and
  whether the bet was struck, which nobody in the system sees. `row[o][v]` is the `PhantomLedger` row under the
  slice's key; `UNCONFIRMED` is `PENDING` with `reconcile_required`. `LedgerMoves` is what
  the resolver, the sweep and rulings do to it, cut down to its status; below.
* `pc[o]` is where `route` is: `Claim`, then `Reserve` or `Refuse`, `Abort` or `Dispatch`, `Apply`, one
  `Record` per answer (`todo`), one `OnTrip` per tripped breaker (`trips`), and `finish`.
* `finish` reads (`FinishRead`), then compares-and-sets (`FinishWrite`); `agenda[a]` are the orders an agent has
  still to finish and `seen[a]` what it read. A route, a sweep and an operator may be in `finish` of one order at once.
* `found[s]` is what a sweep read of slices and ledger rows, `target[p]` the slice an operator looked at.
* `Die` and `SweepStops` may cut the processes in `Mortal` anywhere. What was sent may then have been struck.

How the two compose. The router calls the executor once for each slice and afterwards looks only at the ledger row under the
slice's key. `ExecutorContract` is what stands between them: of each order it has the row, the stake asked for, whether its execution may
still be running, and whether the bookmaker struck it. An execution leaves no row, a confirmed one of what was matched, or one in doubt
of the whole stake, and none after its end; a row goes from doubt to a confirmation, a grade, a return or a
person, from there to a ruling, and returned is only what was never struck. `CfoExecution` implements it (`KeepsContract`: run `resubmit`,
theorem `ContractKept`), and `SmartRouter`'s executions stay within it (`VenuesKeepContract`, theorem
`VenueSideIsContract`), taking what may become of a row from the contract itself (`Rulings`). So
the router's model needs none of the executor's locks, runs and crashes, and cannot meet a row the executor does not leave. One
thing is chosen early there: `shot.struck` is fixed when an execution ends, while a bet in doubt may really be struck later.
No harm is done, since between its end and a late strike a row can only go to a person, which the contract allows a struck bet as well.

The ten services. In each, a step is what the code does between two awaits (or under one lock or transaction), and
what a handler read before an await is kept in its record (`desk`, `turn`, `sweep`, `member`, ...) and may be old when
used.

* `KillSwitch`: `desk[h]` is the request a handler serves with the settings row its session loaded; the commit
  writes only the columns whose value differs from it, as SQLAlchemy does. `losses` bounds Redis calls that fail and
  keys that Redis loses. `barred` remembers the orders that met a stop.
* `SessionCache`: no clock. The Redis lock may run out at any moment, also during its holder's login, and a wait for it may end at any
  moment: `SNIPER_AUTH_TIMEOUT_SECONDS` limits a phase of a request, not a refresh and the login after it. Redis may be away, a worker may
  die with the lock. `calm` says that none of this has yet touched a caller between the locks and its answer.
* `ExchangeExecution`: time is in units of the exchange's timeout; that a database step takes at most one is an
  assumption. The sweep's age (`STALE_AFTER_SECONDS`, 60 s beside a call of 10 s) is 6 of them. Pre-flight checks may refuse anything.
* `BotCapital`: requests hold the bot's row, bets do not. `believed` is the mode and status the worker has cached
  (`HIVE_BOT_CACHE_SECONDS`); the row may change any number of times before it looks again.
* `HiveMerge`: no clock. The merge lock may run out at any moment, also in its holder's turn (`overrun` remembers that), and so may the
  executor's claim on a key (60 s, `cfo_execution.py:244`), which is shorter than a task's redelivery. Of the executor it has the claim, the
  ledger's unique key, the bankroll lock held over the call, and the row that a failed commit or a death rolls back although the bet is
  struck. A plan's slices run as tasks that may be delivered again; `struck` and `lost` count bets and lost rows.
* `LegSequence`: odds in tenths, stakes in paise, `Decimal` rounding as the code rounds.
* `Firehose`: the lease may end at any moment without the consumer noticing; steps may fail (`BadSteps`).
  `unstored` remembers the ticks whose insert failed, or was cancelled, while a tick of their entry was held.
* `MirrorSweep`: the clock, commits up to `CommitLag` after the stamp, sweeps up to `SweepSpan` long;
  `OverlapAssumption` says the overlap covers both.
* `InferenceDaemon`: the broker refuses a commit of a member that lost the partition; such a member goes on with its batch.
* `OpportunityFeed`: a quote passes the age limit (`1..old`) independently of the bus, whose idle time is a setting from 1 s up, so any
  pending quote may be claimed at any moment. A failed bus call ends the consume loop and the process with it (`ProcessDies`). An entry that the envelope model
  may refuse (`Garbled`) is refused or not, by each consumer.

Abstractions. Amounts are whole rupees and the price is the profit per rupee, so commission and rounding are
out; poll times and deadlines are nondeterministic (an order may be polled, or be overdue, at any moment);
of the risk guard only the market cap and the stake cap are computed, and the other pillars
(drawdown, streak, velocity, kill switch), limits, routes and ID translation are a refusal that may
happen (`Block`, `BlockAtLock`); a resolver run handles one order at a time; a person
rules truthfully, from the bookmaker's records. Left out: `risk_reducing` hedge legs, foreign currency,
the notifications after a fill, and a commit that succeeds while its
acknowledgement is lost.

In the router, the slippage guard's arithmetic is a choice: any set of venues may be quoted (`Reserve`), the
order may be refused or aborted (`Refuse`, `Abort`). A venue's capacity is its account's free funds, without the user's stake
cap and the venue's maximum, which only lower it. A pause and a streak's window end at any moment
(`PauseEnds`, `Streaks`). `VAULT_RESERVATION_TTL_MINUTES` is longer than any route that is still running (`Outlived`); a process
that died, or a slice nobody waits for, may outlive it. Left out: several accounts of one bookmaker, receipts
and their archive, alerts, orders the sniper routes by itself.

## 3. Runs

| run | instance | shows |
|---|---|---|
| `two_orders` | two orders on opposite outcomes of one fixture, stakes 2 and 1 of 20, cap 10% (= 2), prices 1 and 2, a sweep; 2,630,888 states | `TypeOK`, `LedgerExplainsBalances`, `NeverGradesAnUnstruckBet`, `MarketCapHolds`, `PeakIsHighWaterMark`. One order wins what the other loses in one batch, so a peak marked inside it would show; together the stakes break the cap unless the first is filled in part |
| `resubmit` | one order clicked twice, fills of 1, 2 and (too many) 3, a resolver and a sweep; 1,727,252 states | `JournalTellsEveryBet`, `LiveBetIsInSight`, `OneExecutionPerKey`, `ClosedIsFinal`, `ImplementsEscrow` and `KeepsContract`: every step is a step of `BetEscrow` and of `ExecutorContract` |
| `doubt_ends` | one order, two overlapping resolver runs, dead-letter after two failures, `FairSpec`; 143,667 states | `DoubtEnds`: an unconfirmed order is confirmed, returned, ruled on or dead-lettered |
| `two_routes` | two orders of 2 over one account with 3, one of them mortal, a sweep, a breaker that trips at 2; 688,821 states | `ReservedIsTheOpenHolds`, `ReleasedIsNeverSent`, `OpenBetIsHeld`, `StatusesMoveForward`. The second order fits only when the first is refused, released or filled in part |
| `route_and_sweep` | one order of 3 over two accounts with 2 each, a sweep, an operator, a breaker that trips at once, route and sweep mortal; 1,520,905 states | `TypeOK`, `ClosedOrderAddsUp`, `RouteLeavesNothingHalfway`, `PlanCoversTheOrder`. 3 over 2 + 2 needs both accounts and the planner's remainder |
| `services` | the ten services, each alone in its own part of the state space; 2,575,966 states | the twenty properties below |
| `error_answer` | one order; `ErrorsAreFinal = FALSE` | violation of `LiveBetIsInSight`, below |
| `paper_money` | one bot with its owner's account, a deposit of 2, sliders 0 to 2, two bets | violation of `RealMoneyAddsUp`, below |
| `dead_letter` | one order, two resolver runs | violation of `DeadLetterWaitsForAPerson`, below |
| `fill` | one order, one account, a sweep | violation of `FilledMeansBet`, below |
| `refusal` | as `fill` | violation of `RejectedMeansNoBet`, below |
| `unfinished` | as `fill` | violation of `AnsweredOrderIsFinished`, below |

Deadlock is not checked (`CHECK_DEADLOCK FALSE`): with every request done, every bet closed and every market
graded the system really stops.

Bounds. Every race in the code is between at most two transactions on one account plus a stale reader, so
two requests, or one request with a resolver and a sweep, meet each pair; three of a kind add no new
pair. `MaxFailures = 2` (the setting is larger) gives the counter a step that retries and a step that
dead-letters. Opening 20 with both percentages at 10 makes the cap exactly the larger stake. There
are no unbounded counters: each request runs once, a market is graded once, a venue's record only moves
forward. `Fills` contains more than the stake in `resubmit`, because a bookmaker that claims to have matched more than was asked is treated
as unconfirmed (`factory.py`).

For the router, orders interact only through an account's funds and a breaker's trip, which two orders on one account have in full;
everything else concerns one order, whose slices interact only in the plan and in `finish`, for which two
venues are enough. A sweep and a route, or an operator and a route, are the pairs that finish an order
together. Each order is routed once (a second submission only reads), each slice is sent once, breakers
count to `Failures`: nothing grows without bound. `Mortal` keeps the two-order run small: one order that
dies half-way beside one that does not.

Fairness (`Fairness`, used only by `doubt_ends`). The locked section of an execution runs to its end or its
process dies (`_run_to_completion`, the HTTP timeout): weak fairness. A run that has begun goes on or stops: weak fairness. Beat
starts the resolver over and over, over every due order, so no order is left out for
ever, and not every run dies or finds the bankroll locked: strong fairness of `Poll`, `PollFailed`,
`Resolve`. Nothing is assumed of the bookmaker, of people or of claims.

### The run `services`

The services share no variables, so their product would say nothing that the sum does not. The variable `focus` picks one
of them in the initial state; it takes all the steps, from any of its own initial states, while the others stay in
one (`Rests`). Every property is checked in every state, and bites where its component is the focus.

| component | instance | properties |
|---|---|---|
| `KillSwitch` | three requests, two at once, one chat, one order, one lost Redis call, limits 0 and 1 | `StopBarsOrders`, `OnlyALiftEndsAStop` |
| `SessionCache` | two callers in one worker or two, orders or the beat's refresh, two tokens, an outage | `OneUsableToken`, `RetryCarriesAnotherToken` |
| `ExchangeExecution` | two requests: one user with one key or two, or two users with one key; limit 2 | `ExposureWithinMandate`, `LiveBetIsCounted`, `OneSendPerKey`, `RulingStands` |
| `BotCapital` | a deposit of 2, sliders 0 to 2, two bets | `MovingKeepsRealMoney`, `FundsMatchMode`, `ArchivedBotIsEmpty`, `CapitalIsNotPerformance` |
| `HiveMerge` | two signals on any two outcomes, a plan of one slice, one redelivery | `NoWashTrade`, `SecondBetNeedsALostRow` |
| `LegSequence` | three legs at odds 2.9 to 4.0, fills from 2.4 to 4.1, totals 20 and 31 paise | `SlippedFillsCover`, `StakesStayChecked` |
| `Firehose` | two frames over two cells, two consumers, a failing step | `AckedTicksAreStored` |
| `MirrorSweep` | two rows, two sweepers, pages of one row, at most two a sweep | `NoFactSkipped` |
| `InferenceDaemon` | three records, two members, batches of two, two troubles | `CommittedIsHandled` |
| `OpportunityFeed` | two quotes of one opportunity, one of them perhaps garbled; a process that sheds with a queue of one, one that collects two; a death | `ShutdownLosesNoQuote` |

The bounds are where each hazard first appears: two callers for a race, a third request so that a lift of one stop can meet another stop;
a second page so that a sweep ends between rows; a batch of two so that a commit can be half-way through one; a queue of
one so that it is full. A first entry that has used up its deliveries before the behaviour begins stands
for the processes it killed. One slice is enough for the bots: slices of one plan back the same outcome under different keys, so what two of them
can do to each other is to find the market busy or the plan cancelled, which the signal and the redelivery do to one. (With two slices the
module has 13.5 million states, and both properties hold.) Callers are interchangeable, so of the placements of two in two workers only one of each
kind is an initial state (`FirstCallerFirst`). Each of the properties fails when one line of the model
is changed as a bug would change the code (`mutants` in `PROJECT.json`).

### Disagreements the runs show

* `error_answer`: every answer outside 2xx is `REJECTED` (`factory.py:149`), also a 5xx that a proxy sends
  after the order was delivered; the reservation is rolled back and the bet may be alive with nothing in the ledger
  that points at it. `factory.py:15` promises "anything ambiguous is UNKNOWN, never a
  rejection". The other runs take the code's assumption as given (`ErrorsAreFinal = TRUE`).
* `paper_money`: a worker bets in the mode it has cached (`hive_worker.py:121`), and no one compares it with the row. A bot with capital
  is activated and cached; its owner sets the capital to zero, pauses the bot, changes its mode and gives it capital again, funded for the new
  mode; the worker bets in the old one. TLC prints one of two traces of the same length: a bot cached as `PAPER` and now `LIVE` loses a
  simulated bet out of real money, or one cached as `LIVE` and now `PAPER` loses a real bet that no account with real money shows. `hive_trading.py:221`: "paper
  capital never turns into live capital, nor back".
* `dead_letter`: a slower resolver run applies its answer to an order another run has dead-lettered;
  `models/cfo_vault.py:63` says "nothing retries it until a person resolves it".
* `fill`: the router's sweep takes any ledger row that is not `REJECTED` or dead-lettered for a
  confirmation (`smart_router.py:877`), a row that still waits for reconciliation included. A slice nobody confirmed becomes
  `FILLED` with its whole stake, and stays so when the resolver returns the stake. `execution_dispatcher.py:6`: "FILLED / PARTIAL:
  the venue holds the bet".
* `refusal`: `LEDGER_COMMIT_FAILED` is a `CfoError` like a refusal, so the slice is `REJECTED` and its hold released
  (`execution_dispatcher.py:120`) while the bet lives; `:7` says "REJECTED: the bet does not exist".
* `unfinished`: route and sweep are in `finish` together, both have read `DISPATCHING`; the route, which saw no answer, writes
  `UNCONFIRMED` first, the sweep, which saw all of them, loses its compare-and-set (`smart_router.py:723`) and returns. No
  later sweep looks at the order. `execution_dispatcher.py:17` says its slices "are filled and their orders finished".

### Disagreements seen while modelling, without a run

* Stops. Two `/halt`s and a `/resume`: the second halt finds nothing to save, and the resume may be refused as the Control Panel's stop
  (`sentinel_commands.py:142-150`, `:201`). An emergency stop of a stopped row writes only the stamp, so a lift that is
  under way survives it. `/resume CODE` compares the stamp in one session and lifts in another.
* Resolver. An order confirmed later keeps the asked price and stake (`order_resolver.py:174`, `_manual` passes only the remote id), so it
  settles at amounts the bookmaker does not pay; `cfo_execution.py:364` says "the price actually struck is the one that settles".
* Sessions. "Refresh is single-flight" (`session_manager.py:7-8`): a waiter gives up on the Redis lock after two timeouts and refreshes without
  it, and the lock runs out after three, while a refresh and the login after it may take longer, as the timeout is one of each phase
  (`:198`, `:213`). `OneUsableToken` says what is left: until then. `bearer` promises a token that lasts, which a venue whose tokens live no longer than the margin cannot give; an older token in Redis overwrites a newer one in memory after a failed write.
* Bots. "Two workers ... cannot both get through the checks" (`hive_engine.py:9-11`), "one order per owner and market at a time"
  (`config.py:167`): the merge lock lives for 30 s, or as little as 1 s, and the waits under it (bankroll lock, rate limit, login, bookmaker, a second
  order after a 401) may take longer. Then two bots may oppose each other; `NoWashTrade` says until when they do not. A task
  redelivered after its worker died with a bet struck finds the row rolled back and the claim gone (60 s), and sends the bet again; only the
  bookmaker's check of the `Idempotency-Key` stops it (`SecondBetNeedsALostRow` says that nothing else gets there). `set_capital` moves the target
  minus `allocated_capital`, so profit cannot be released and then archiving and the mode's change are refused (`:209`), and a bot with a shadow P&L can
  never be archived. A cancelled plan's slice still fires when the plan is running (`hive_engine.py:358`). A redelivery that finds a duplicate writes `FAILED`
  over `FIRED`. A slice queued while its planner holds the lock finds the market busy, which cancels the plan.
* Legs. Re-sizing rounds to the paisa, so "can never turn the arbitrage into a loss" (`leg_executor.py:18`) holds up to that rounding; a price better
  than asked makes the next leg larger than the pre-flight checked (`:9`). The two properties say so.
* Firehose. "At least once, never lost" (`nalanda_firehose.py:19-20`): an insert that fails, or is cancelled by a shutdown, takes its decided ticks
  along, and an entry of theirs that has another tick held is acknowledged when that one is stored. A tick of an entry with nothing held is
  read again. `AckedTicksAreStored` excepts just these ticks; the stream is trimmed at `MAXLEN` (`config.py:197`).
* Mirror. The overlap has to cover the longest transaction and the longest sweep together (300 s, `nalanda_mirror.py:5`); more rows than
  `page` times `max_pages` within it, and the cursor stands still.
* Daemon. A broken process pool is not replaced, so a whole topic drains into the dead-letter file; `_handle_record` says it returns False for
  transient failures and never does (`worker.py:1204`); "bounds duplicates to exactly one message" (`:1154`) fails after a failed
  commit; the offset may go back when the partition returns to a member with an old batch.
* Feed. With an idle stream `consume` yields nothing, so the consume loop does not see the shutdown event, whatever
  `consume_block_ms` ("Bounded so shutdown latency never exceeds one block period"). Quotes are acknowledged when they are buffered,
  before they are evaluated: a process that dies, or stands down, takes them along, where `event_bus.py:16-20` says "genuine at-least-once";
  `ShutdownLosesNoQuote` excepts them by name. Where the idle time is shorter than the age limit, a quote claimed from a process
  still at work on it is evaluated twice and spends its share of the loss budget twice. The quarantine claims entries with
  no idle time from live consumers, and writes an empty letter when the entry is acknowledged or trimmed meanwhile.
* Elsewhere. An order past the guard goes out although the stop is pressed while it waits for the bankroll (`risk_guard.py:266`);
  `BetLedger`'s gates are read before the mandate's lock and not again; the router's deficit counts a dropped venue; unanswered slices are
  skipped for ever by its sweep; orphaned `RESERVED` orders keep their holds until the TTL; the `odds > 1` CHECK is met again at commit.

## 4. Proofs

Every theorem holds for all values of the constants that its module's assumption allows; every run
evaluates that assumption. `PROJECT.json` lists the theorems; the tables name the invariants they rest on.

### Sums without an induction principle (`SumFacts`)

Balances, caps, exposures, holds and plans are sums with `SumFunctionOnSet`, which is defined by recursion over subsets. The
library's induction theorems take the predicate as a parameter, which none of the installed provers can instantiate. So the
induction is done over a *set* of subsets. In a nonempty set of subsets of a finite set some member includes no other
(`LeastSubset`, from the well-foundedness of strict inclusion); hence a set of subsets that holds the empty one and
is closed under adding an element holds them all (`SubsetInduction`). The same argument shows that the recursion has a solution
and one only (`FoldExists`, `FoldsAgree`), from which `SumRemove` follows: any element may be taken out of a sum
first. The rest (changing one term, adding terms, bounds, a positive sum has a positive term) are corollaries, and products and the
planner's thinning of a fleet go the same way.

### Ledger and executor

For any number of requests, orders, markets, resolvers and sweeps, under `ConstantsAssumption` (finite sets of
keys and requests, positive stakes, prices and fills, workers and requests disjoint).

| theorem | says |
|---|---|
| `Invariant` | `Spec => []IInv` |
| `TypeCorrect` | `Spec => []TypeOK`: in particular no balance goes below zero |
| `JournalCorrect` | `Spec => []JournalTellsEveryBet` |
| `ClosedForever` | `Spec => ClosedIsFinal` |
| `PeakCorrect` | `Spec => PeakIsHighWaterMark` |
| `BalancesExplained` | `Spec => []LedgerExplainsBalances` |
| `MarketCapped` | `Spec => []MarketCapHolds` |
| `BetInvariant`, `NoUnstruckGrade` | `Spec => [](IInv /\ BetInv)`, `Spec => []NeverGradesAnUnstruckBet` |
| `ExecutedOnce` | `Spec => []OneExecutionPerKey` |
| `BetInSight` | `Spec => []LiveBetIsInSight`, assuming `ErrorsAreFinal` |
| `EscrowImplemented` | `Spec => ImplementsEscrow` |
| `ContractKept` | `Spec => KeepsContract` |

`JournalTellsEveryBet` is not inductive: the commit writes `work`, of which it says nothing. `IInv` adds
that `work`'s bets tell their story too and differ from the committed ones only in the holder's rows
(`LockInv`), that an executor's uncommitted row is the reservation it made, pending and of the stake asked for
(`ReservationInv`), that a sweep's rows were pending in the committed book when it locked them and are pending or graded in its own
(`SweepInv`), and that the peak is at least the equity and is left alone by everything but
`MarkPeak` (`PeakInv`). The argument then goes action by action. Each posting preserves
`BetJournal` by a lemma on that operator of `CfoLedger`; a commit preserves it because every row it writes comes from
`work` and every other from `book`; a closed bet is safe because every row a transaction writes was open
under the lock or the row's own guard, which is exactly what the code's second look is for.

`LedgerExplainsBalances` says that the two balances are the deposit plus the sum over all bets of their legs. It is proved of the
committed book and of `work` at once (`BalanceInv`), as a commit copies balances and legs separately: they match because
outside the holder's rows `work`'s legs are still the committed ones. Each posting moves one bet's legs and the balances by
the same amounts. `MarketCapHolds` is about `work` at the call: taking the
reservation's row into the sum over the market adds its stake (`ReservedOnMarket`), which is what was compared with the cap under the lock, and from
there to the call the holder's `work` is left alone (`RequestLocks`).

`NeverGradesAnUnstruckBet` relates the ledger to the bookmaker, who moves by himself, and to what runs have read. `BetInv`
says what each row may rely on (an open row without doubt, and a graded one, has a struck bet; a returned one has
none), and that what a run has read stays true until it is used, because a struck bet stays struck
(`VenueKept`). Each step is one of a few moves of single rows (`RowMoves`), and these are the moves `BetEscrow` allows,
which gives `EscrowImplemented`: initial states map to initial states and every step, for each bet, to a step or a stutter.
`ContractKept` uses the same moves, read as a caller sees them (`CallerMove`): what a ruling was based on is still
true (`TakeMoves`, `RuleMoves`), and an execution that has left its row or died does not come back (`OverStays`).
`ExecutedOnce` needs that an executed request left a row behind (`OnceInv`): the second look
under the lock finds it, however often the claim expired. `BetInSight` is false where an error answer may hide a struck bet (run `error_answer`), hence its
hypothesis.

### Router

For any number of orders, venues, sweeps and operators, under `RouterAssumption`; the proofs about statuses use of it only that a process
is an order's route, a sweep or an operator and not two of them, those about amounts also the finite sets and the numbers' signs.

| theorem | says |
|---|---|
| `RouterInvariant` | `Spec => []RouterInv` |
| `ReleasedNeverSent` | `Spec => []ReleasedIsNeverSent` |
| `NothingHalfway` | `Spec => []RouteLeavesNothingHalfway` |
| `ForwardOnly` | `Spec => StatusesMoveForward` |
| `PlanFacts` | a plan gives each of its venues between its minimum and its capacity, and its slices add up to the stake |
| `AmountInvariant`, `RouterTypes` | `Spec => []AmountInv`, `Spec => []TypeOK`: no subtraction of the router goes below zero |
| `ReservedAddsUp` | `Spec => []ReservedIsTheOpenHolds` |
| `OpenBetsAreHeld` | `Spec => []OpenBetIsHeld` |
| `PlanCovers` | `Spec => []PlanCoversTheOrder` |
| `ClosedOrdersAddUp` | `Spec => []ClosedOrderAddsUp` |
| `VenueSideIsContract` | `Spec => VenuesKeepContract` |

None of the first three properties is inductive. A released slice is unsent because the compare-and-set found it
`RESERVED`, so `SliceInv` says which statuses have no shot, that a row has a shot behind it, and that
nothing is planned before the process has reserved. `finish` writes over an order it read
earlier, so `AgentInv` says what may have become of the order since: it has been sent, and it has not gone from
`UNCONFIRMED` back to `DISPATCHING`, which is why the status alone is enough for the compare-and-set.
`OrderInv` ties an order's status to where its process is: when `route` comes to `finish`, the order is `DISPATCHING`,
`UNCONFIRMED` or closed, whoever else has been there. `HelperInv` says that an operator holding a stale
slice has nothing else under way. `RouterSteps` proves of each action that it preserves all of this and that every status
moves along `OrderMove` and `SliceMove`, from which `ForwardOnly` follows. These four need no
amounts: the plan could be any function, and the venue any adversary.

The other five are about amounts. `AmountInv` adds them to `RouterInv`. `SliceAmounts` says of a slice what its status and its shot
allow it to stake, to hold, to have been answered and to show in the ledger; a slice that may go out or is out is held in full, an open
row is within its hold, and an answer tells what the row says. `OrderAmounts` says what an order's slices add up to, and that the slices of a closed order are over and give its status and amount;
`SeenAmounts` says the same of a reading that is going to close an order, which is why an old one still writes the right sum. `FoundIsInLedger` says that what a
sweep found in the ledger is still there. One step changes one slice (`Change`), so the sums change by one term; `EveryStep` goes through the
actions. The planner's facts are those of its recursion: the thinning of the fleet ends with venues none of which is below its minimum
(`RemainingFacts`), and the remainder handed out in order of price is used up where the capacities suffice (`FillsUp`).

`VenueSideIsContract` needs of the amounts that a slice which is out has no row and that stakes do not change, and of the strikes that
nothing is struck before its execution ends and nothing returned was (`Strikes`); `VenueSteps` says of every action
that it leaves an execution and its row alone, ends it, or rules on the row. With `ContractKept` it closes the gap between the two models:
what is proved of the router holds beside the executor that is modelled in full, as far as the contract speaks of it.

### Services

| theorem | says | rests on |
|---|---|---|
| `NoOrderPassesAStop` | `KsSpec => []StopBarsOrders` | `KsInv`: an order that met a stop nobody lifted leaves the row's limit at 0 (`BarredIsStopped`), and a `/resume` on its way to a lift has its code (`LiftsAreConfirmed`) |
| `StopsEndOnPurpose` | `KsSpec => OnlyALiftEndsAStop` | the same: a commit writes a column only when the handler means to |
| `OneKeySendsOnce`, `NoLiveBetIsForgotten`, `NoLateWriteOverARuling`, `ExTypeCorrect` | `OneSendPerKey`, `LiveBetIsCounted`, `RulingStands`, `ExTypeOK` of `ExSpec` | `ExInv`: of the requests with one key one inserts (`OneInserts`) and owns the row to the end of its call (`OwnsItsRow`), whose age is bounded by its stage, so the sweep cannot reach it (`Young`); row and bet tell the same story (`BetIsRows`, `RowIsBets`) |
| `NoMoneyFromMoving`, `FundsFollowTheRow`, `NothingIsLeftBehind` | `MovingKeepsRealMoney`, `FundsMatchMode`, `ArchivedBotIsEmpty` of `CapSpec` | that what a request found empty when it took the bot's row is still empty when it commits, which bets that do not take the row must not undo |
| `MovingCapitalIsNotPerformance`, `CapTypeCorrect` | `CapitalIsNotPerformance`, `CapTypeOK` of `CapSpec` | no equity is above its peak |
| `SessionInvariant`, `OneTokenAtATime`, `AnotherTokenEachTime`, `NoStampedeInAProcess` | `[]SessInv`, `OneUsableToken`, `RetryCarriesAnotherToken`, `OneGrantPerProcess` of `SessSpec` | as long as the run is calm, a caller between the locks and its answer has the lease, so there is one (`SingleFlight`); and while a login is being answered no token is usable, because the second look saw none |
| `HiveInvariant`, `BotsNeverOppose`, `SecondBetAfterALostRow` | `[]HiveInv`, `NoWashTrade`, `SecondBetNeedsALostRow` of `HiveSpec` | until a turn outlives its lock, who is in one has the lock (`TurnIsLocked`), so what it found open when it looked is what is open when it places (`NobodyOpposes`); always: one delivery of a key at a time is at the bookmaker, and then the ledger has no row of it (`PlacedOnce`), and what was struck is on the ledger or was lost (`BetsTold`) |
| `MirrorSkipsNothing`, `MirrorTypeCorrect` | `NoFactSkipped`, `MirrorTypeOK` of `MirrorSpec` | a row certainly committed before a sweep began is in its hand or still ahead of it in keyset order (`Sweeping`), and the clock is bounded by open transactions and running sweeps (`Timely`), so the overlap reaches back far enough |
| `DaemonInvariant`, `DaemonCommitsHandled`, `DaemonTypeCorrect` | `[]DmInv`, `CommittedIsHandled`, `DmTypeOK` of `DmSpec` | a member has handled everything before the record in hand (`BatchFollows`); what the owner fetches next follows what is handled and the rest of its own batch (`FetchFollows`) |
| `MandateNeverExceeded` | `ExposureWithinMandate` of `ExSpec` | a request that has inserted but not committed still has the mandate under which it compared the sum with the limit (`CheckedUnderLock`); every other step leaves the sum or takes a row out |
| `LegInvariant`, `LegTypes`, `SlippedFillsAreCovered`, `StakesAreChecked` | `[]LegInv`, `LegTypeOK`, `SlippedFillsCover`, `StakesStayChecked` of `LegSpec` | `Cover`, below |
| `FirehoseInvariant`, `AcknowledgedIsStored` | `[]FirehoseInv`, `AckedTicksAreStored` of `FirehoseSpec` | of every entry a consumer may still acknowledge, each tick is in the lake, in the insert under way, held by the filter or one of those a failed insert lost (`NothingMislaid`); what an insert holds is decided (`DecidedToStore`) |
| `FeedInvariant`, `ShutdownIsClean`, `FeedTypeCorrect` | `[]FeedInv`, `ShutdownLosesNoQuote`, `FeedTypeOK` of `FeedSpec` | what is no longer pending is evaluated, passed over, a dead letter or in a buffer (`Accounted`), and a process that is draining, or has ended after it, has none (`ReaderInv`) |

They hold for any number of requests, chats, orders, users, keys, callers, workers, signals, slices, rows, sweepers, members, readers, records, odds and
legs, under the modules' assumptions. `NoFactSkipped` is false without `OverlapAssumption`, and the theorem says what an operator who changes the
overlap or a timeout has to keep. The exchange's theorems rest on the timing assumption of its model (no step of a request takes longer than
the exchange's timeout). Those of `HiveMerge`, `SessionCache`, `BotCapital` and `OpportunityFeed` rest on no timing at all: where the code's promise needs one that
nothing enforces, the property itself says what it excepts.
That `"free"`, which marks a lock nobody has, is no caller or request is an assumption of `SessionCache` and `ExchangeExecution`.

`SlippedFillsCover` is nonlinear in the number of legs. With `P` the product of the prices of the legs that have not
fired and `B` the sum over them of what the other prices' product is (`Book`), a target payout `t` still covers everything when what was spent, times
`P`, is at most `t * (P - B)`. That is `Cover`. It holds after the first fill, because the pre-flight found the book below one; a leg that fills at its floor or
above hands it on to the remaining legs, since the floor is exactly the price at which `Cover` of the next leg still holds (`NextLegCovers`, with
`BookAdd` and `ProductStep` to take a leg out of `B` and `P`); re-sizing rounds to a stake unit, which costs less than one unit at
the leg's price, and the property allows for it.

### Only model-checked

`DoubtEnds`, which is liveness: `ENABLED` and fairness are beyond this prover. Every invariant and every other action property that
a passing run checks is the statement of a theorem. The type invariants of the ten services are theorems (`KsTypeCorrect`, `SessTypeCorrect`,
`HiveTypeCorrect`, `FirehoseTypeCorrect` and those above) and not among the run's properties.

## 5. Plan

In this order; each composes what exists where it says so.

1. *done* `CfoLedger`, `CfoExecution`, `BetEscrow`, their runs and proofs.
2. *done* `SlicePlan`, `SmartRouter`, their runs and proofs. Later: the liveness of an order without crashes, under
   the fairness of its own process and the beat's sweeps.
3. *done* the services: `KillSwitch`, `SessionCache`, `ExchangeExecution`, `BotCapital`, `HiveMerge`, `LegSequence`,
   `Firehose`, `MirrorSweep`, `InferenceDaemon`, `EventBus` with `OpportunityFeed`, and proofs of all ten.
4. *done* every safety and action property of the runs as a theorem, and the refinements of `BetEscrow` and `ExecutorContract`. Next: abstract
   specifications of the exchange path (one bet per key, as `BetEscrow` has it) and of the archives (a prefix that only grows), and
   the steps that `Fairness` promises as lemmas (which action every doubtful order has, without `ENABLED`), on which `DoubtEnds` rests.
5. Models still worth having: the loss streak's Redis counter against the ledger, the Sentinel debouncer, the Vault prober, the Omni
   fleet's quorum and spool.

## Not modelled

Most of the repository's lines are arithmetic over prices, probabilities and features, feed parsing, sport
adapters, currency tables, the twin engine, HTTP schemas and the frontend: sequential code in which unit tests reach every
case, and nothing a model checker would decide. The Omni fleet polls feeds and votes on odds, and moves no money.
Real-money and paper services are smaller bankrolls of the ledger's kind. The orchestrators of `domain/the_core` and
`domain/the_hive` live in one process and drive parts that are modelled by themselves. The Smart Router and the executor with its
ledger are composed through `ExecutorContract`, and not in one instance; the answers the router gets are bounded by no specification but its own model; the ten services touch the ledger through
`allocate`, `deallocate`, `reserve` and `settle`, which `BotCapital` repeats for two accounts.
