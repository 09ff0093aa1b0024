# Verification of the ATRA runtime

TLA+ specifications of the ATRA trading runtime (`src/runtime`) and of the parts of its
gateway (`src/gateway`) that keep state, checked with TLC on small instances and, where
a property matters for every instance, proved with TLAPS.

## The system

ATRA is a self-hosted trading agent. One Node process (the *runtime*) holds encrypted
wallets, runs agents that propose swaps and liquidity actions, passes each proposal
through a deterministic risk engine, and executes what is allowed, on paper or LIVE. State
is in one SQLite database. Node runs a handler to completion, so two handlers interleave
only at `await`s; but nearly every statement commits on its own, so a process can die
between any two of them. Those two facts shape the models: an action is the code between
two commits, a flag (`pc`, `rpc`) says where a handler stands, and `Crash` is enabled
everywhere.

| Part | State | Operations | Hard because |
|---|---|---|---|
| Control plane (`core/state.ts`, `http/routes/control.ts`) | mode, switches, LIVE checklist, session start | stop, clear, pause, resume, checklist step, activate, revert, policy change, boot | each operation is several commits |
| Schedulers (`trading/scheduler.ts`, `liquidity/scheduler.ts`) | enabled rows, timers | configure, emergency disarm, start | armed at boot from rows a crash may have left |
| Trade pipeline (`trading/pipeline.ts`, `trading/trades.ts`) | trade rows, the cycle's locals | one cycle | a mode read once, used after many awaits |
| Executors (`execution/live.ts`, `paper.ts`) | rows, fills, the chain | sign, send, await, book, reconcile | crashes, lost answers, a reconciler beside a cycle |
| Risk and books (`risk/*`, `trading/ledger.ts`, `trading/proposal.ts`) | policy, verdicts, cooldowns, positions, P&L | build, evaluate, book, mark | roundings at the caps, proposals older than the books they meet |
| Market data (`market/*`) | a cache of half a minute | look up, compare | two providers, late or wrong, and a cache between |
| Liquidity (`liquidity/*`) | LP rows, positions, P&L | as for trades, plus positions | as for trades, and two ledgers |
| Custody (`wallet/*`, `core/auth.ts`, `http/routes/setup.ts`) | vault, sessions, tokens, wallets, withdrawals | set up, unlock, sign, export, withdraw | single use, throttles, crashes |
| Treasury (`treasury/*`) | proposals, caps, freeze, admin secret and tokens | propose, approve, export, sign in | caps counted over months, a freeze mid-way, checks before a wait |
| Telegram and gateway (`telegram/*`, `gateway/src/*`) | links, pairing codes, sockets, quotas | pair, deliver, revoke | duplicates, reconnects, limits |

### What makes each part correct

- **Control plane.** The emergency stop and LIVE never coexist where anything can act on
  them; LIVE never survives a process; a checklist step serves one activation. Each
  operation is two to five commits and a process may die between them.
- **Trade and liquidity execution.** The hash of a transaction is on disk before the network
  sees it; a key is used once per row, under a persisted verdict, never with a switch on; a
  settled row says what the chain said; the ledger has each settled action once; every write
  is legal for the row it meets. The cycle, the reconciler, the operator and the chain
  interleave at every await.
- **Treasury.** One instruction per exported proposal; nothing moves under a freeze; what is
  approved is within the caps of the moment; the granted payment does not change.
- **Withdrawals.** One transfer per quote and per idempotency key, whatever is repeated;
  rows that tell the truth.
- **Custody.** A bounded number of guesses; each sensitive act paid for by a proof of the
  password in that session and for that purpose; a key in memory that will be wiped; one
  password.
- **Treasury gate.** The secret is set once; a token opens the gate only to the session that
  gave the secret, for its lifetime and until its sign-out.
- **Wallets.** An address that was shown is never forgotten, whatever is retried.
- **Telegram and gateway.** The two sides agree on who is paired; a command takes effect at
  most once and in order; the stop takes two messages of one account; notifications are
  bounded; a reply reaches the call it answers; quotas are never exceeded; a revocation ends
  the sockets that were open.
- **Risk engine and books.** The books never invent money; caps bind what is booked; an exit
  is never trapped by a limit for entries.
- **Market data.** A list is ordered and its ages are true; an undisputed price that more
  than one provider gave is near every one of theirs (one provider alone is believed).
- **Ranges.** A planned range is usable and can be paid for; its books add up.

## The modules

| Module | Models | State and actions |
|---|---|---|
| `LiveAuthority` | what the rest of the runtime may rely on about LIVE | abstract specification: mode, session, stop, pause; grant, expire, leave, engage, clear |
| `RuntimeControl` | `core/state.ts`, the control routes, the schedulers' rows and timers, the hooks of `core/services.ts` | one action per commit; `pc` is the commit the handler has reached; `Crash` anywhere, `Boot` is the constructor |
| `TradeRows` | the `TRANSITIONS` table of `trading/trades.ts` | shared by the two executors |
| `TradeLifecycle` | what a trade promises | abstract specification: a row goes from open to committed to settled as the chain decides |
| `TradeExecution` | `trading/pipeline.ts`, `execution/live.ts`, `execution/paper.ts`, `risk/gate.ts`, `util/mutex.ts` | EXTENDS `LiveAuthority` (the control plane at any await), the cycle (`pc`), the reconciler (`rpc`), the chain (`net`) |
| `LpExecution` | `liquidity/pipeline.ts`, `live.ts`, `paper.ts`, `store.ts` | the same shape over `LiveAuthority`, plus positions, the wallet's LP tokens and the P&L rows |
| `Treasury` | `treasury/service.ts`, `store.ts`, `caps.ts` | proposals, caps, providers, the freeze; an export is two actions around its await |
| `Withdrawal` | `wallet/withdrawal.ts`, the transfers of `chains/evm/adapter.ts` | a quote and its execution, one action per await; a nonce shared with the agent |
| `Custody` | `core/auth.ts`, `wallet/vault.ts`, `http/routes/auth.ts` | a request and its waits for key derivations; credential, header, key, tokens, throttle |
| `TreasuryAdmin` | `treasury/admin.ts`, its rows in `treasury/store.ts`, the `/admin` routes | a setup and a sign-in are two actions each around the hash; tokens, both throttles, the gate |
| `Wallets` | `wallet/service.ts`, the secrets of `wallet/vault.ts`, `http/routes/setup.ts` | one action per statement of `createAgentWallets` and of `/setup/complete`; export and signing key |
| `Stamps` | the arrays of times of the two throttles and of the notifier | bags of times: how many there are of each; filter by age, push, take one out, count |
| `TelegramRuntime` | `telegram/pairing.ts`, `telegram/commands.ts` | link and code rows, replay cursor, emergency challenge; one action per command that changes something |
| `TelegramLink` | `telegram/transport.ts` (gateway), `telegram/service.ts`, `gateway` `hub.ts`, `webhook.ts`, `pairing.ts` | EXTENDS `TelegramRuntime`; sockets, frames, handlers as tasks with one action per stretch between two awaits, lost calls and connections |
| `TelegramDirect` | `telegram/transport.ts` (direct) | EXTENDS `TelegramRuntime`; the poll, its offset and a death in between |
| `TelegramNotifier` | `telegram/notifications.ts` | slots, cooldowns, sends under way that fail late, the daily loss warning |
| `Gateway` | `gateway` `tokens.ts`, `auth.ts`, `admin.ts`, `proxy.ts`, `quota.ts`, `ratelimit.ts`, `rpc.ts`, `market.ts`, `inference.ts`, `cache.ts`, the counters of `hub.ts`, `index.ts` | a request is one action per stretch between two awaits; tokens, usage, cache, sockets, a revocation |
| `RiskEngine` | `risk/engine.ts`, `risk/money.ts` | pure operators: each tier is a sequence of checks, the verdict the first that fails |
| `PaperBooks` | `trading/ledger.ts`, `trading/proposal.ts`, `execution/paper.ts`, `liquidity/proposal.ts`, `liquidity/paper.ts`, `liquidity/evm/v2-pool.ts`, `risk/gate.ts` | EXTENDS `RiskEngine`; a proposal is built, the world changes, the gate decides and the fill is booked |
| `Market` | `market/service.ts`, its providers, `#liquidity` of `trading/proposal.ts` | lookups with late answers, the cache, the comparison of prices |
| `Ranges` | `liquidity/evm/range-plan.ts`, `tick-math.ts`, the range half of `liquidity/store.ts` | pure operators for a plan; one action per store method |

`TradeExecution` and `LpExecution` compose with the control plane through `LiveAuthority`
rather than through `RuntimeControl` itself: the refinement `RuntimeControl =>
LiveAuthority` (checked and proved) is what makes that sound, and it keeps both state
spaces small. The seven `*Proofs` modules hold the theorems of the components they extend
(`CustodyProofs` those of `Custody`, `TreasuryAdmin`, `Wallets` and `Withdrawal`;
`RemoteProofs` those of `TelegramLink`, `TelegramDirect`, `TelegramNotifier` and `Gateway`);
`Sums` holds the lemmas about sums that five of them share;
the `MC*` modules add what TLC needs (symmetry, a set of caps). `MCTreasury`, `MCCustody`,
`MCTelegram` and `MCRisk` hold several components that share no state as *scenes*: one is chosen in the
initial state and the variables of the others rest, so that one run explores each of them in
full without their product.

History variables (`torn`, `raced`, `signatures`, `walked`, `tries`, `proofs`, `acts`,
`version`, `effects`, `engaged`, `proven`, `told`, `handed`, ...) are read by properties
only. `torn` and `raced` name exactly the rows for which a property is known not to hold, so
that it is stated of all others.

`PROJECT.json` maps every definition to its lines.

## The runs

| Run | Asks | Bounds |
|---|---|---|
| `control` | Does LIVE never survive a boot, whichever commit the process dies at? Is the checklist walked anew? Does the control plane implement `LiveAuthority`, in which a stop revokes LIVE? | two steps of the checklist, time 0..3 with a step TTL of 1 and a session of 2, three boots, two policy versions |
| `trade` | Legal marks, one signature under a verdict, books, no stranded row, the stop, `TradeLifecycle` | two rows, two deaths |
| `trade_liveness` | Does a cycle, and the reconciler, end? | two rows, one death |
| `lp` | Rows that say what the chain said, one signature under a verdict and never under a stop, books, and the position book as what the wallet holds | two rows, one death |
| `treasury` | *books*: one instruction per export, the freeze, the caps, the grounds of an approval. *gate*: whom a treasury token lets in and how many wrong secrets are answered | two proposals, one provider, two months, amounts up to 1, two overlapping exports; two secrets, sessions and jobs, one admin token, time 0..2, one death |
| `custody` | *password*: guesses, proofs and acts, the key's timer. *wallets*: is an address ever forgotten? *withdrawals*: one transfer per quote and key, honest rows | two requests at once, two passwords, two sessions, one token, time 0..3, one death; four keys, two chains, two deaths; two quotes, two keys, three nonces, two deaths |
| `remote` | *pairing*, *commands*, *direct*, *notify*: do the sides agree, does a command act once and in order, does the stop take two messages, is the notifier bounded? *proxies*, *sockets*, *days*: does a call get its own answer, do quotas hold over midnight, does a revocation end sessions? | two accounts, one code, three messages (two while pairing), two sockets, two faults (one among commands), one death; an hour of 3 ticks with a cap of 2, clock 0..6; three requests, two tokens, batches up to 3 with a limit of 2, a market name in two cases, days 0..2 |
| `risk` | *books*: no profit without a move, exits open, caps on what is booked. *market*: honest lists, prices two providers gave are wrong only if both are. *plans*, *ranges*: plans that can be minted, books that add up | base 2 for the decimals and 8 for basis points, so small amounts meet every rounding, three fills, one price move, one policy edit, a day change; two lookups, feed time 0..2; Q = 64, a ladder of 15 ticks; two positions in two pools, four changes |

Two rows are enough for the executors because no action relates more than the row of the
cycle and the row of the reconciler; a second death is what finds a row that both a dead
cycle and a dead reconciler left. Two quotes make a shared nonce and a shared key. Two months
let a month turn between evaluation and date. A step TTL of 1 within a clock of 3 lets a step
expire and be recorded again. Two accounts and two sockets make a redeemer that is not the
operator and a socket that is replaced; three messages are a command, its repetition and one
that overtakes it, or `/emergency`, CONFIRM and a second CONFIRM. Three requests make one that
fills the cache, one that reads it and one that runs between. A cap of two with two secrets
that wait at once is what lets a guess pass a lock that is falling. Three fills are an entry, a second
entry at another price and an exit.

Deadlock is checked except in `custody`, `remote` and `risk`, where quotes, sessions,
messages, requests and moves run out.

Where a module states a type invariant no run repeats it: those of the control plane, the
trades, the liquidity rows, the treasury and the withdrawals are theorems. So are `StoppedMeansPaper`, the `ChainIsTheTruth` of
a trade and `SeenIsRecorded`, which follow from, or lie below, what the runs check.

Four further runs show TLC refuting what a comment or a document says:

- `review`: a policy changed in PAPER does not clear `riskReviewed`, so LIVE begins under
  limits nobody reviewed (`risk/store.ts` says otherwise).
- `one_password`: a death between the rewrapped vault and the new login hash leaves two
  passwords; the old one signs in and fails to unlock, the new one is refused.
- `market_key`: the key of a market query is made of the lower-cased address, while the
  provider is asked with the caller's spelling (`market.ts:389` says that the key identifies
  the query). Solana addresses differ by case, so a query may be told the miss, the empty list
  or the missing price of another one for a minute. What does hold is `AnswersAreTheirOwn`: a
  cached answer is that of a query of the same route and, but for case, the same name.
- `unpriced_loss`: a holding that is neither side of the trade is not priced, so the ledger
  reports no unrealized loss at all, and the daily loss limit sees less than was lost
  (`trading/ledger.ts:505` says it would see more).

### Fairness

`FairSpec` of `TradeExecution` has weak fairness of the steps of the cycle, of the
reconciler and of the other holder of the lock. Each await in those handlers is a fetch
with a timeout (`util/http.ts`) or a receipt poll with a deadline
(`live.ts #awaitReceipt`), so a handler that can go on does. Nothing is assumed of the
operator, of the chain (it need never confirm) or of crashes.

## The proofs

The theorems hold for every value of the constants, under the named assumptions of each
module (`ConstantsAssumption`, `TradeConstants`, `LpConstants`, `TreasuryConstants`,
`WithdrawalConstants`, `CustodyConstants`, `AdminConstants`, `WalletConstants`,
`TelegramConstants`, `LinkConstants`, `NotifierConstants`, `GatewayConstants`, `RequestBodies`,
`ScaleAssumption`, `BooksAssumption`, `LimitsAssumption`, `MarketConstants`, `RangeConstants`,
`RangeBooksConstants`, `PlanRequestsAreValid`): bounds are naturals, a "none" value is not a member of the set it stands outside of, sets of tokens
and requests are finite, counters are kept for at least a day (seven days in
`hub.ts`), and a body that is no batch is one call. Nothing is assumed
of how market names fold. The treasury's lock lasts no longer than the
window its failures are counted in (5 and 15 minutes, `treasury/admin.ts:41`) and its limit is
positive; a rejection's cooldown is longer than a send and no longer than an hour. There are finitely many proposals (their
ids are UUIDs) and tokens (the registry is a table), prices are positive (a zero is unknown to
the engine), so are the reserves and the supply of a pool that is quoted, and a policy's
amounts and ages are naturals, as its schema says; the native coin has the decimals of the registry
(`nativeTokenRef` of `risk/engine.ts`), a paper bankroll is an amount, and the two assets of a pool differ. The ratios of the ticks rise strictly with the tick
and are positive; what is paid into, or out of, a range is a natural number (`assertRealized` of
`liquidity/store.ts` refuses the rest), and the requests for a plan are those its assertions
let through (`assertSqrtRatio`, `halfWidthTicksForBps`, `assertTickSpacing`, `assertAmount`
and the tolerance of `minimumAmounts`). One provider lists a pool of a chain once in an answer: that
is assumed of the service, the code does not look. TLC evaluates them in every run.

- **RuntimeControlProofs.** `ControlInv` is types, `HandlerInv` (what each half-finished
  handler has established), `StopInv`, `SessionInv` and `ChecklistInv`. The properties speak
  of a settled process only and are not inductive; the parts carry them through every
  point a process can die at. From it: the three invariants, the types, and the
  refinement of `LiveAuthority` (initial states map to initial states, each step to a step or
  a stutter).
- **TradeExecutionProofs.** `TradeInv` has `PointInv` (where the cycle and the reconciler
  stand decides the status of their row, which is what makes a write legal), `RowInv` (status,
  hash, chain and key of a row, whoever works on it) and `BooksInv`. From it: all six
  invariants, `StopHolds`, and the refinement of `TradeLifecycle`.
- **Sums.** What a sum over a finite set is, for any function: the fold of the community
  modules has a solution on a finite set, the order it takes the elements in does not matter,
  and from that how a total grows, splits, skips zeros and rises, and what pushing to, or
  filtering, a bag of times does to its count. The induction over subsets
  is an argument by the least size of a counterexample (`WFMin` of the library), which needs
  no operator as a parameter.
- **TreasuryProofs.** `OneInstruction` is inductive with the types. The freeze and the
  grounds of an approval are action properties from the types and a lemma on which actions
  move which rows. `LimitsAreKept` needs that a granted row is dated (`Dated`) and has its
  provider and period (`Named`): the rows an approval adds to are then those that were summed
  when it was evaluated, and itself.
- **RiskProofs.** Six arguments; the first is about the caps. `OkMeansEveryCheck` says what an OK of the engine stands for. `CapsAreKept`
  follows from it with `RiskInv`: nothing held costs nothing (`BooksTypes`), and a proposal
  that waits for the gate carries amounts the engine can value and the liquidity position as
  it is (`CycleWaits`), whatever the market, the pool, the clock and the operator did in
  between. The executors book a swap's cost rounded down and an add's rounded up, the engine
  valued both rounded up: the deployed capital is a sum over the tokens that are no quote
  asset, and it rises by no more than was allowed.
  *What the books earn* (`NoProfitWithoutAMove`) cannot be inducted on as it stands: `Earned`
  adds values that were each rounded down, and a sale takes from a sum of roundings another
  one. `LedgerInv` therefore counts in integer parts of a micro-USD (`Scale` is a multiple of every
  denominator, `Parts` the whole value of an amount) and in shares of the pool's supply, so that nothing
  is rounded: while nothing has moved, what is held, less what it cost, and what was
  realized are together ahead by at most `MicroPerFill` less the gas, for each fill, and a
  cycle under way was quoted at the market as it is. A purchase at its quote gains nothing but
  the rounding of its cost; a sale, an add and a removal round against the books. `Earned`
  lies below the parts.
  *Exits* (`ExitsAreOpen`): seven tiers of the engine are gone through check by check for a sale
  quoted now, and of the eighth all but the comparison with the market. What that one finds
  missing is rounding: the sale pays out whole base units, its worth is rounded down and the
  worth of what is sold up (`SalePaysItsWorth`, in the same parts of a micro-USD). With slippage
  and impact limits worth that much (`RoundingIsTolerated`) the answer is OK, otherwise
  `QUOTE_OFF_MARKET` is the only refusal there can be.
  *Range books* (`RangeBooksBalance`) are inductive with what a row is (`RangeTypes`), which
  row a replacement points at (`RangeLinks`), and that the trail adds up to the row, what was
  released reached the P&L of its day, and a rebalance is counted once (`TrailAddsUp`,
  `ReleasesReachThePnl`, `RebalancesAreCounted`).
  *Plans* (`PlansCanBeMinted`): the search for a tick is a least counterexample; the aligned
  ticks are multiples of the spacing, so what was asked for lies between them; the liquidity
  of each side is rounded down, what the pool charges for it rounded up, and a chain of
  divisions keeps the charge under the capital and above the minimums.
  *Market*: `InOrder` is a permutation in order, so a list of both providers, deduplicated and
  sorted, has a pool at most twice and the deepest first, and an undisputed price is the least
  or the greatest of two that are within the tolerance.
- **LpExecutionProofs.** `LpInv` is the argument of `TradeInv` for a row with a position:
  types, `PointInv` (what each point of the cycle and of the reconciler knows of its row),
  `RowInv` (status against hash and chain) and `BooksInv` (the bookings due at each point,
  `Due`, which the executor makes before the mark and the reconciler after it). From it: the
  types, `ChainIsTheTruth`, `BooksAgree` and `StopHolds`. `PositionIsTheWallet` is inductive
  with it and one fact more (`WalletInv`): nothing of the row has reached the network when it
  is about to be sent. A confirmation then moves the wallet and what is owed by one amount
  (`OneMoreOwed`), and a booking moves the book and what is owed (`OneLessOwed`): the row it
  books is confirmed and was not booked before. A removal larger than the book stays owed.
- **CustodyProofs.** `Held` says what a waiting request holds, which makes `KeyIsTimed`
  inductive; `Balance` adds the unspent tokens of a session and a purpose to its acts, and is
  kept by counting: a proof pays for a token and a token for an act. `GuessesStayBounded`
  follows from `ThrottleInv`: while the check is open, the attempts of the last period are
  among the failures on file, which are fewer than the limit; while it is locked, none of them
  outlives the lock. `GateStaysHeld` needs what the sign-in that waits for its hash has
  proven and, for the secrets, `LockInv`: the wrong secrets answered in a period and the checks
  that wait are no more than the limit and all the checks but one. When the lock falls, those
  that wait were let through before; while it stands, nobody joins them.
  `NoAddressIsForgotten` needs
  the point at which `createAgentWallets` died: a sealed key without its row is no address
  that was shown.
  The withdrawals are here as well: `Stages` says what a row may be while its execution
  waits; with it the three safety properties are inductive.
- **RemoteProofs.** Four arguments.
  `RouterInv`, shared by both transports, is about the command router alone: `CursorLeads` (no
  update after a chat's cursor took effect) gives `EffectsAdvance`; with the open challenge's
  `/emergency` (unanswered by any CONFIRM of its account) it gives `StopTakesTwo`. It is kept
  whatever order and number of times the transport delivers in.
  `LinkInv` is about the two link rows: a frame, a task of the hub or a handler of the webhook
  is `Faithful` when it is of an older version of the gateway's row, or carries the row as it
  is; `Agreement` says that a runtime that was welcomed and told of the row as it is has a
  link exactly when the gateway has one, or that a revoke is on its way. `SidesAgree` is the
  case in which nothing is under way.
  `QuotaInv` relates the counters to the admitted requests: their number never passes the
  quota, nor the counter for as long as that is kept; a day whose counter was purged cannot
  be counted on any more. `AnswerInv` says of each request what its place in the
  pipeline means, and of each cache entry whose answer it is: of a call its own, of a market
  query that of one with the same key, and keys agree only where route and, but for case, name
  do (`OneMarketKey`).
  `NotifierInv` relates the slots to what went out or is on its way: for any part of the last
  hour the slots taken in it are no fewer (`SlotsCover`), which a late failure keeps because it
  gives back a slot of its own tick; an hour around a new event has therefore less than the cap.
  That a key's memory, and the cooldown, are given back only by their holder needs that no
  other event of the key is under way (`FlightsAreFresh`) and that what went out under it is
  an hour old (`KeysRemember`).

Only model-checked:

- the liveness properties `CycleEnds` and `ReconcilerEnds` (out of the prover's reach).

## What modelling showed besides

Behaviour met on the way that no run claims as an error, for the people who keep the code:

- A swap left broadcast is settled only by a restart; the comment at `execution/live.ts:499`
  also names the next cycle.
- A LIVE fill whose process dies between `recordFill` and `markFilled` is booked a second
  time by the reconciler (`torn` in `TradeExecution`).
- An in-flight trade whose outcome is unknown is not counted in the deployed-capital cap.
- PAPER rows that died in `dispatched` are listed by the LIVE reconciler and failed there.
- A LIVE removal that confirms while the add before it is still open is never booked.
- The comment at `liquidity/live.ts:217` on the order of the two reconcilers is out of date;
  no builder produces `lp_rebalance`, and no executor calls the V3 range functions.
- `exportProposal` does not look at the provider's recipient again.
- A withdrawal that died `prepared` or `simulated` is shown as submitted and never read
  again; a broadcast error marks a row failed although the transfer may land (the audit row
  says unresolved); withdrawals share the nonce with the executors without a lock.
- Setup that dies between the password and the vault cannot be finished: `/setup` refuses and
  nothing else creates the vault, although `http/routes/auth.ts:91` expects it.

Control and execution, where a comment says otherwise:

- The emergency stop writes its row first and calls its hooks last (`core/state.ts:297`); a
  process that dies in between comes back stopped, with the schedule armed, which
  `trading/scheduler.ts:20` rules out. The cycles are refused until the stop is cleared.
- The LP reconciler lists its rows after the swap reconciler is done (`core/services.ts:420`),
  by when the server serves, so it can list the row of the running cycle
  (`liquidity/live.ts:217`); `raced` names those rows.
- A liquidity row settled by the reconciler (`liquidity/live.ts:750`) gets no P&L row, so its
  loss and gas are in no day (`liquidity/store.ts:945`).

Telegram and gateway:

- A code can be redeemed twice: the runtime offers its pending code again on every welcome,
  which resets `used_at` (`docs/telegram.md:78` says single use). Two redeemers overwrite
  each other's `tg_links` row.
- A late `paired` frame after a dashboard unpair links again until the revoke is carried out;
  a welcome that crosses a `paired` frame, or a revoke that fails, leaves the two sides apart
  until the next connection. `SidesAgree` is stated for when nothing is under way.
- Of two updates that overtake each other the earlier is dropped as a replay. A command may
  take effect although the answer was OFFLINE (8 s). Two processes with one token supersede
  each other for ever.
- The notifier's limits are in memory; the daily loss is warned of in one attempt a day, and
  twice after a death between the send and its record.
- A connection past the token check is accepted after `closeSockets`, and the comment that it
  "dies at the next sweep at worst" does not hold: the alarm never looks at tokens.
- An unparsable upstream body with status 200 is cached as an empty list for a minute.

Market, risk and books:

- A pool both providers list is counted twice in the depth of an aggregator's quote
  (`trading/proposal.ts:427`): `getPoolsForToken` keeps both readings.
  `dedupeByPool` does not look at freshness as its comment says; the median of two prices is
  the lower one; `getPool` answers from the cache a reading that may have no price, and takes
  a failure of every provider for "not found".
- The slippage limit is rounded twice (`trading/proposal.ts:207`, `v2-router.ts:195`,
  `risk/money.ts:120`), so a quote on the limit may be refused.
- A swap carries no LP exposure, so trading and LP together can pass `maxTotalDeployedUsd`
  (`docs/specs/risk-engine-spec.md:579`). LIVE trades in flight are not counted either.
- The cost of a purchase is rounded down (`trading/ledger.ts:196`, where the comment at `:20`
  rules out a rounding in the ledger's favour): where a base unit of the stablecoin is not
  worth whole micro-USD a fill may book up to one that nobody earned. `NoProfitWithoutAMove`
  grants it in that case only (`MicroPerFill`); the run `risk` is in the other case, the
  theorem is for both.
- A holding of a few base units can be refused its exit as off the market: its sale is worth
  less than it by the roundings, and a small percentage of a small amount does not cover them.
  `ExitsAreOpen` says when (`RoundingIsTolerated`, always the case in the run `risk`).
- An LP add spends paper tokens without reducing the trading position, and a removal credits
  the wallet without opening one. Paper gas is never deducted. Taking a token off the
  allowlist traps its position.
- `planRange` accepts a plan of no liquidity; `toRiskSnapshot` counts rebalances only for
  pools with an open V2 position; the cap per pool does not see V3 capital.

Custody:

- A wrong treasury secret is charged after its key derivation (`treasury/admin.ts:27` says
  before), so overlapping guesses all pass the lock; a restart forgets them; and an admin
  sign-out during a running sign-in does not reach the token it issues.
- `/setup/complete` sent again without limits changes the installation's chains and not the
  policy's. A death between a sealed key and its wallet row leaves an unused secret.

## Not modelled, and why

ABI coding and the 256-bit widths (out of TLC's reach; the roundings are checked at a small
fixed point), cryptography (a derivation is a wait, a wrong password a failed comparison),
prompts and parsing of model answers (a choice), chain reads and upstream bodies (choices),
logging, audit rows, metering and responses (nothing reads them back to decide), read-only
commands and reports, the DELETE variant of the gateway's revocation that also unlinks
Telegram, migrations, the web site, the Python model and the scripts. `PROJECT.json` lists
each.

## Plan

What is left, in order:

1. `TradeLifecycle` for liquidity rows. A row that the reconciler listed while its cycle ran
   (`raced`) may be failed when the network has its transaction, so the promise is to be
   stated for the others, or for a reconciler that waits for the lock; `LpInv` has what the
   rest of the refinement needs.
2. An abstract specification of a paired account that `TelegramLink` and `TelegramDirect`
   both implement.
