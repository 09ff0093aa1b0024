----------------------------- MODULE PaperBooks -----------------------------
(***************************************************************************)
(* The PAPER books: what the trading and the liquidity cycle do to the     *)
(* ledger when the risk engine decides.  A cycle first builds a proposal   *)
(* from prices, balances, a quote and (for liquidity) a pool reading;      *)
(* prices, the pool, the clock, the policy and the bankroll may all change *)
(* before it reaches the gate.  From there on PAPER is synchronous: the    *)
(* gate marks the ledger, evaluates and, when the verdict is OK, the paper *)
(* executor starts the cooldowns and books the fill in one transaction.    *)
(* One cycle runs at a time: both pipelines share the cycle lock.          *)
(*                                                                         *)
(* Balances are in base units and money in integers, with the code's       *)
(* roundings.  One pool of Token0 and Token1 stands for the v2 pools.      *)
(***************************************************************************)
EXTENDS RiskEngine, FiniteSets, FiniteSetsExt

CONSTANTS
    Tokens,         \* the registry's tokens on the chain, Native among them
    Decimals,       \* token -> its decimals
    Token0, Token1, \* the assets of the pool
    Pool,           \* the pool's address
    Router,         \* the contract and program that swaps call
    Policies,       \* the policies the operator may store
    FirstPolicy,    \* the one stored at the start
    Prices,         \* token -> the prices the market may show
    Pools,          \* what the pool may hold: [r0, r1, supply]
    Notionals,      \* the sizes, in USD, the agents ask for
    Bankrolls,      \* token -> the paper balances the operator may set
    Gas,            \* the fee estimate, in native units
    PaperExtra,     \* PAPER_EXTRA_SLIPPAGE_BPS
    MaxClock, MaxFills, MaxMoves, MaxEdits

\* The registry is finite and its decimals scale by whole numbers.  A price is
\* positive: one of zero counts as no price (engine.ts, a zero is unknown;
\* proposal.ts, it buys nothing).  A pool without reserves or supply is not
\* quoted (v2-pool.ts, paper.ts).  A policy passed its schema, so its amounts
\* are not negative.  Missing is none of the snapshots that are taken.
ASSUME BooksAssumption ==
    /\ {Native, Token0, Token1} \subseteq Tokens /\ Pool \notin Tokens
    /\ Stablecoins \subseteq Tokens
    /\ IsFiniteSet(Tokens)
    /\ \A t \in Tokens : Decimals[t] \in Nat /\ Ten^Decimals[t] \in Nat \ {0}
    /\ \A t \in Tokens : Prices[t] \subseteq Nat \ {0} /\ Prices[t] # {}
    /\ \A p \in Pools : {p.r0, p.r1, p.supply} \subseteq Nat \ {0}
    /\ \A p \in Policies \union {FirstPolicy} :
          /\ PolicyIsValid(p)
          /\ {p.maxDeployed, p.maxSlippage, p.lp.maxCapital, p.lp.maxSlippage} \subseteq Nat
    /\ Notionals \subseteq Nat
    /\ Missing \notin [deployed : Nat, rebalances : {<< >>},
                       positions : UNION {[D -> [tokens : Nat, capital : Nat]] : D \in {{}, {Pool}}}]
    /\ {Gas, PaperExtra, MaxClock, MaxFills, MaxMoves, MaxEdits} \subseteq Nat

\* The other limits of the schema are not negative either, the native coin has
\* the registry's decimals, a bankroll is an amount, a pool has two assets, and
\* Missing is none of the data whose absence it stands for.
ASSUME LimitsAssumption ==
    /\ \A p \in Policies \union {FirstPolicy} :
          /\ {p.maxImpact, p.minLiquidity, p.skew, p.priceAge, p.quoteAge, p.balanceAge,
              p.liquidityAge, p.feeAge, p.actionAge} \subseteq Nat
          /\ p.nativeDecimals = Decimals[Native]
    /\ \A t \in Tokens : /\ Bankrolls[t] \subseteq Nat
                          /\ \E m \in Bankrolls[t] : \A n \in Bankrolls[t] : n <= m
    /\ Token0 # Token1
    /\ Missing \notin Int /\ Missing # {Router}
    /\ Missing \notin [value : Int, at : Int] \union [at : Int]
    /\ Missing \notin [expected : Int, min : Int, slippage : Int, impact : Int, at : Int]

VARIABLES
    chain,      \* the chain both cycles work on
    clock,
    market,     \* token -> the cross-checked price
    pool,       \* the pool's reserves and supply on chain
    policy,
    pos,        \* token -> [amount, basis]; amount 0 is no row
    paper,      \* token -> the paper balance
    lp,         \* the LP position: [tokens, capital]; tokens 0 is no row
    realized,   \* day -> realized profit booked on it (fills and lp_pnl)
    anchor,     \* day -> unrealized profit at its first complete mark, or Missing
    cooldowns,  \* market -> last dispatch
    lastAny,
    cycle,      \* the proposal a running cycle has built, or Missing
    moves,      \* how often a price or the pool has moved
    edits,      \* how often the operator has stored a policy or a bankroll
    fills       \* how many fills were booked

books == <<pos, paper, lp, realized>>
world == <<chain, market, pool, moves>>
bounds == <<edits, fills>>
pacing == <<cooldowns, lastAny>>
vars == <<chain, clock, market, pool, policy, pos, paper, lp, realized, anchor,
          cooldowns, lastAny, cycle, moves, edits, fills>>

Day(t) == t \div DayLength

Days == 0 .. Day(MaxClock)

Ref(t) == [address |-> t, decimals |-> Decimals[t]]

Worth(t, amount, prices, rounding) == NativeToUsd(amount, Decimals[t], prices[t], rounding)

Stamp(v, at) == [value |-> v, at |-> at]

-----------------------------------------------------------------------------
(* trading/ledger.ts.                                                      *)

IsQuote(t) == t = Native \/ t \in Stablecoins

Held == {t \in Tokens : pos[t].amount > 0}

\* The part of the mark that needs no price: the cost of everything that is
\* not a quote asset.
Basis == [t \in Tokens |-> pos[t].basis]

Deployed == MapThenSumSet(LAMBDA t : Basis[t], {t \in Held : ~IsQuote(t)})

Gains(prices) == [t \in Tokens |-> Worth(t, pos[t].amount, prices, "floor") - pos[t].basis]

UnrealizedAt(prices, tokens) == MapThenSumSet(LAMBDA t : Gains(prices)[t], tokens)

\* The mark is complete only when every holding has a price; it is Missing else.
MarkUnrealized(prices, priced) ==
    IF Held \subseteq priced THEN UnrealizedAt(prices, Held) ELSE Missing

\* Mutant: what was never a position earns its proceeds against no cost.
ReducePositionKeepsProceeds(p, amount, proceeds) ==
    LET sold == IF amount > p.amount THEN p.amount ELSE amount
        cost == CeilDiv(p.basis * sold, p.amount)
    IN  IF p.amount = 0 THEN [row |-> p, realized |-> 0]
        ELSE [row |-> [amount |-> p.amount - sold, basis |-> p.basis - cost],
              realized |-> proceeds - cost]

\* Selling spends the position at average cost, the cost rounded up and the
\* proceeds of the part that was a position rounded down.
ReducePosition(p, amount, proceeds) ==
    LET sold == IF amount > p.amount THEN p.amount ELSE amount
        cost == CeilDiv(p.basis * sold, p.amount)
        gained == IF sold = amount THEN proceeds ELSE FloorDiv(proceeds * sold, amount)
    IN  IF p.amount = 0 THEN [row |-> p, realized |-> 0]
        ELSE [row |-> IF sold = p.amount THEN [amount |-> 0, basis |-> 0]
                      ELSE [amount |-> p.amount - sold, basis |-> p.basis - cost],
              realized |-> gained - cost]

AddPosition(p, amount, cost) == [amount |-> p.amount + amount, basis |-> p.basis + cost]

\* One transaction: a paper balance that would go negative undoes all of it.
RecordFill(a, received, prices, fee) ==
    LET in == a.tokenIn.address  out == a.tokenOut.address
        paid == Worth(in, a.amountIn, prices, "floor")
        reduced == ReducePosition(pos[in], a.amountIn, paid)
    IN  /\ received > 0
        /\ paper[in] >= a.amountIn
        /\ pos' = [pos EXCEPT ![in] = reduced.row, ![out] = AddPosition(@, received, paid)]
        /\ paper' = [paper EXCEPT ![in] = @ - a.amountIn, ![out] = @ + received]
        /\ realized' = [realized EXCEPT ![Day(clock)] = @ + reduced.realized - fee]
        /\ UNCHANGED lp

FillIsBooked(a, received) == received > 0 /\ paper[a.tokenIn.address] >= a.amountIn

-----------------------------------------------------------------------------
(* trading/proposal.ts.                                                    *)

\* What the venue pays for an amount at the market's prices: external.
Fair(in, out, amount) ==
    FloorDiv(amount * market[in] * Ten^Decimals[out], market[out] * Ten^Decimals[in])

\* The minimum that goes with an expected amount.  The EVM routers' adapter
\* takes the slippage off rounded up, Jupiter's API rounded down.
Minimum(expected, slippage) ==
    IF chain = "solana" THEN expected - FloorDiv(expected * slippage, BPS_DENOM)
                        ELSE expected - BpsOf(expected, slippage)

Quote(expected, slippage) ==
    [expected |-> expected, min |-> Minimum(expected, slippage), slippage |-> slippage,
     impact |-> 0, at |-> clock]

\* The funding stablecoin: the fullest one for an entry, any for an exit.
Funding(token, isExit) ==
    LET stables == {t \in DOMAIN policy.tokens \intersect Stablecoins : t # token}
    IN  IF isExit THEN stables
        ELSE {t \in stables : paper[t] > 0 /\ \A u \in stables : paper[u] <= paper[t]}

SwapAmount(decision, token, in, notional) ==
    LET wanted == UsdToTokenUnits(notional, Decimals[in], market[in])
        held == pos[token].amount
    IN  CASE decision = "CLOSE" -> held
          [] decision = "REDUCE" -> IF wanted > held THEN held ELSE wanted
          [] OTHER -> wanted

Balances(tokens) ==
    [t \in Tokens \union {Pool} |-> IF t \in tokens THEN Stamp(paper[t], clock) ELSE Missing]

PriceStamps(tokens, prices, at) ==
    [t \in Tokens \union {Pool} |-> IF t \in tokens THEN Stamp(prices[t], at) ELSE Missing]

\* What every candidate carries.
Base(kind, in, out, amount, quote, contract) ==
    [kind |-> kind, mode |-> "PAPER", chain |-> chain, protocol |-> "dex",
     contract |-> contract, programs |-> IF chain = "solana" THEN {contract} ELSE Missing,
     reduceOnly |-> FALSE, tokenIn |-> Ref(in), tokenOut |-> Ref(out), amountIn |-> amount,
     quote |-> quote, feeAt |-> clock, feeNative |-> Gas, feeFamily |-> chain,
     lp |-> Missing, cycle |-> fills, proposedAt |-> clock, key |-> Missing]

Keyed(a) == [a EXCEPT !.key = IntentOf(a)]

SwapProposal(in, out, amount, expected, isExit) ==
    [action |-> Keyed([Base("swap", in, out, amount, Quote(expected, policy.maxSlippage), Router)
                          EXCEPT !.reduceOnly = isExit]),
     snap |-> [prices |-> PriceStamps({in, out, Native}, market, clock),
               balances |-> Balances({in, Native}),
               liquidity |-> Stamp(policy.minLiquidity, clock),
               poolLiquidity |-> Missing, lp |-> Missing],
     stage |-> "built", priced |-> {in, out, Native}]

BuildSwap(decision, token, notional, short) ==
    LET isExit == decision \in {"REDUCE", "CLOSE"}
    IN  /\ cycle = Missing /\ fills < MaxFills
        /\ token \in DOMAIN policy.tokens /\ token # Native
        /\ isExit => pos[token].amount > 0
        /\ \E funding \in Funding(token, isExit) :
              LET in == IF isExit THEN token ELSE funding
                  out == IF isExit THEN funding ELSE token
                  amount == SwapAmount(decision, token, in, notional)
                  expected == Fair(in, out, amount) - short
              IN  /\ amount > 0 /\ expected > 0
                  /\ cycle' = SwapProposal(in, out, amount, expected, isExit)
        /\ UNCHANGED <<world, clock, policy, books, anchor, pacing, bounds>>

-----------------------------------------------------------------------------
(* liquidity/proposal.ts and the v2 pool's arithmetic.                     *)

PoolValue(p, prices) ==
    Worth(Token0, p.r0, prices, "floor") + Worth(Token1, p.r1, prices, "floor")

\* How far the pool's own price is from the market's, in basis points.
Deviation(p, prices) ==
    LET v0 == Worth(Token0, p.r0, prices, "floor")
        v1 == Worth(Token1, p.r1, prices, "floor")
        low == Min({v0, v1})
    IN  IF low <= 0 THEN BPS_DENOM ELSE CeilDiv((Max({v0, v1}) - low) * BPS_DENOM, low)

ShareOfReserves(p, tokens) ==
    [a0 |-> FloorDiv(tokens * p.r0, p.supply), a1 |-> FloorDiv(tokens * p.r1, p.supply)]

Minted(p, a0, a1) ==
    Min({FloorDiv(a0 * p.supply, p.r0), FloorDiv(a1 * p.supply, p.r1)})

\* The router's ratio adjustment, then the pair's mint formula.
V2AddQuote(p, desired0, desired1) ==
    LET optimal1 == FloorDiv(desired0 * p.r1, p.r0)
        a0 == IF optimal1 <= desired1 THEN desired0 ELSE FloorDiv(desired1 * p.r0, p.r1)
        a1 == IF optimal1 <= desired1 THEN optimal1 ELSE desired1
    IN  [a0 |-> a0, a1 |-> a1, minted |-> Minted(p, a0, a1)]

LpLeg == [pool |-> Pool, amountB |-> Missing, lpTokens |-> Missing, claimable |-> Missing]

\* The LP slice of a snapshot: what the LP rows carry, one pool here.
LpSnapshot ==
    [deployed |-> lp.capital, rebalances |-> << >>,
     positions |-> [p \in IF lp.tokens = 0 THEN {} ELSE {Pool} |-> lp]]

LpProposal(action, read, plan) ==
    [action |-> Keyed(action),
     snap |-> [prices |-> PriceStamps({Token0, Token1, Native}, read.prices, read.at),
               balances |-> Balances({Token0, Token1, Native}),
               liquidity |-> Missing,
               poolLiquidity |-> Stamp(PoolValue(read.pool, read.prices), read.at),
               lp |-> LpSnapshot],
     stage |-> "built", priced |-> {Token0, Token1, Native}, pool |-> read.pool, plan |-> plan]

\* The cycle reads the pool and the prices, then asks the agent; the quote
\* reads the pool again.
ReadPool ==
    /\ cycle = Missing /\ fills < MaxFills /\ chain = "evm"
    /\ cycle' = [stage |-> "read", pool |-> pool, prices |-> market, at |-> clock]
    /\ UNCHANGED <<world, clock, policy, books, anchor, pacing, bounds>>

AddLiquidity(read, capital) ==
    LET half == capital \div 2
        desired0 == UsdToTokenUnits(half, Decimals[Token0], read.prices[Token0])
        desired1 == UsdToTokenUnits(capital - half, Decimals[Token1], read.prices[Token1])
        q == V2AddQuote(pool, desired0, desired1)
        quote == Quote(q.minted, policy.lp.maxSlippage)
        action == [Base("lp_add", Token0, Token1, q.a0, quote, Router)
                      EXCEPT !.lp = [LpLeg EXCEPT !.amountB = q.a1]]
    IN  /\ Deviation(read.pool, read.prices) <= policy.lp.maxSlippage
        /\ desired0 > 0 /\ desired1 > 0 /\ q.minted > 0 /\ q.a0 > 0 /\ q.a1 > 0
        /\ cycle' = LpProposal(action, read, [kind |-> "add", a0 |-> q.a0, a1 |-> q.a1,
                                              min |-> quote.min])

RemoveLiquidity(read, exit) ==
    LET half == lp.tokens \div 2
        tokens == IF exit \/ half = 0 THEN lp.tokens ELSE half
        share == ShareOfReserves(pool, tokens)
        quote == Quote(share.a1, policy.lp.maxSlippage)
        action == [Base("lp_remove", Token0, Token1, share.a0, quote, Router)
                      EXCEPT !.lp = [LpLeg EXCEPT !.lpTokens = tokens]]
    IN  /\ lp.tokens > 0 /\ share.a0 > 0 /\ share.a1 > 0
        /\ cycle' = LpProposal(action, read, [kind |-> "remove", tokens |-> tokens,
                                              min0 |-> Minimum(share.a0, policy.lp.maxSlippage),
                                              min1 |-> quote.min])

BuildLp(decision, capital) ==
    /\ cycle # Missing /\ cycle.stage = "read"
    /\ CASE decision = "ADD_LIQUIDITY" -> AddLiquidity(cycle, capital)
         [] decision = "HOLD" -> cycle' = Missing
         [] OTHER -> RemoveLiquidity(cycle, decision = "EXIT")
    /\ UNCHANGED <<world, clock, policy, books, anchor, pacing, bounds>>

-----------------------------------------------------------------------------
(* risk/gate.ts and the paper executors.                                   *)

\* The anchor the gate reads: the day's row, written now when the mark is
\* complete and there is none yet.
AnchorNow(unrealized) ==
    IF anchor[Day(clock)] = Missing THEN unrealized ELSE anchor[Day(clock)]

OrZero(x) == IF x = Missing THEN 0 ELSE x

\* toRiskLedger: the ledger marked with the prices the proposal looked up.
\* An incomplete mark is reported as no unrealized profit.
RiskState(priced, prices) ==
    LET unrealized == MarkUnrealized(prices, priced)
    IN  [emergencyStop |-> FALSE, globalPause |-> FALSE, mode |-> "PAPER", liveUntil |-> 0,
         dayStart |-> Day(clock) * DayLength,
         positions |-> [t \in Tokens |-> pos[t].amount],
         deployed |-> Deployed, realized |-> realized[Day(clock)],
         unrealized |-> OrZero(unrealized),
         unrealizedAtStart |-> OrZero(AnchorNow(unrealized)),
         cooldowns |-> cooldowns, lastAny |-> lastAny, rebalances |-> << >>]

\* The prices a snapshot carries, as the mark uses them.
Looked(c) == [t \in Tokens |-> IF t \in c.priced THEN c.snap.prices[t].value ELSE 0]

Decision(c) ==
    Evaluate([now |-> clock, policy |-> policy, action |-> c.action,
              state |-> RiskState(c.priced, Looked(c)), snap |-> c.snap])

Fee(c) == Worth(Native, c.action.feeNative, Looked(c), "ceil")

\* Dispatch starts the cooldowns, whatever becomes of the fill.
MarkDispatched(a) ==
    /\ cooldowns' = [m \in DOMAIN cooldowns \union {Market(a)} |->
                        IF m = Market(a) THEN clock ELSE cooldowns[m]]
    /\ lastAny' = clock

Received(q) == q.expected - BpsOf(q.expected, (q.slippage \div 2) + PaperExtra)

PaperSwap(c) ==
    LET a == c.action  received == Received(a.quote)
    IN  IF received >= a.quote.min /\ FillIsBooked(a, received)
        THEN RecordFill(a, received, Looked(c), Fee(c)) /\ fills' = fills + 1
        ELSE UNCHANGED <<books, fills>>

BookAdd(minted, capital) ==
    lp' = [tokens |-> lp.tokens + minted, capital |-> lp.capital + capital]

\* The cost of what is burned, rounded up.
CostReleased(tokens) == CeilDiv(lp.capital * tokens, lp.tokens)

BookRemove(tokens) ==
    lp' = [tokens |-> lp.tokens - tokens,
           capital |-> IF tokens = lp.tokens THEN 0 ELSE lp.capital - CostReleased(tokens)]

RecordPnl(proceeds, released, fee) ==
    realized' = [realized EXCEPT ![Day(clock)] = @ + proceeds - released - fee]

PaperAdd(c) ==
    LET plan == c.plan
        minted == Minted(c.pool, plan.a0, plan.a1)
        capital == Worth(Token0, plan.a0, Looked(c), "ceil")
                     + Worth(Token1, plan.a1, Looked(c), "ceil")
    IN  IF minted >= plan.min /\ minted > 0 /\ paper[Token0] >= plan.a0 /\ paper[Token1] >= plan.a1
        THEN /\ paper' = [paper EXCEPT ![Token0] = @ - plan.a0, ![Token1] = @ - plan.a1]
             /\ BookAdd(minted, capital)
             /\ RecordPnl(0, 0, Fee(c))
             /\ UNCHANGED pos /\ fills' = fills + 1
        ELSE UNCHANGED <<books, fills>>

PaperRemove(c) ==
    LET plan == c.plan
        out == ShareOfReserves(c.pool, plan.tokens)
        proceeds == Worth(Token0, out.a0, Looked(c), "floor")
                      + Worth(Token1, out.a1, Looked(c), "floor")
    IN  IF out.a0 >= plan.min0 /\ out.a1 >= plan.min1 /\ plan.tokens <= lp.tokens
        THEN /\ paper' = [paper EXCEPT ![Token0] = @ + out.a0, ![Token1] = @ + out.a1]
             /\ BookRemove(plan.tokens)
             /\ RecordPnl(proceeds, CostReleased(plan.tokens), Fee(c))
             /\ UNCHANGED pos /\ fills' = fills + 1
        ELSE UNCHANGED <<books, fills>>

\* The gate's verdict and, when it allows, the fill: one synchronous step.
\* The day's anchor is written whatever the verdict.
Decide ==
    /\ cycle # Missing /\ cycle.stage = "built"
    /\ anchor' = [anchor EXCEPT ![Day(clock)] =
                     AnchorNow(MarkUnrealized(Looked(cycle), cycle.priced))]
    /\ IF Decision(cycle) = "OK"
       THEN /\ MarkDispatched(cycle.action)
            /\ CASE cycle.action.kind = "swap" -> PaperSwap(cycle)
                 [] cycle.action.kind = "lp_add" -> PaperAdd(cycle)
                 [] OTHER -> PaperRemove(cycle)
       ELSE UNCHANGED <<books, pacing, fills>>
    /\ cycle' = Missing
    /\ UNCHANGED <<world, clock, policy, edits>>

-----------------------------------------------------------------------------
(* The world and the operator.                                             *)

Tick ==
    /\ clock < MaxClock /\ clock' = clock + 1
    /\ UNCHANGED <<world, policy, books, anchor, pacing, cycle, bounds>>

MovePrice(t, p) ==
    /\ moves < MaxMoves /\ p # market[t]
    /\ market' = [market EXCEPT ![t] = p] /\ moves' = moves + 1
    /\ UNCHANGED <<chain, pool, clock, policy, books, anchor, pacing, cycle, bounds>>

MovePool(p) ==
    /\ moves < MaxMoves /\ chain = "evm" /\ p # pool
    /\ pool' = p /\ moves' = moves + 1
    /\ UNCHANGED <<chain, market, clock, policy, books, anchor, pacing, cycle, bounds>>

UpdatePolicy(p) ==
    /\ edits < MaxEdits /\ edits' = edits + 1
    /\ p # policy /\ PolicyIsValid(p) /\ policy' = p
    /\ UNCHANGED <<world, clock, books, anchor, pacing, cycle, fills>>

SetPaperBalance(t, amount) ==
    /\ edits < MaxEdits /\ edits' = edits + 1
    /\ amount # paper[t] /\ paper' = [paper EXCEPT ![t] = amount]
    /\ UNCHANGED <<world, clock, policy, pos, lp, realized, anchor, pacing, cycle, fills>>

Init ==
    /\ chain \in {"evm", "solana"}
    /\ clock = 0 /\ moves = 0 /\ edits = 0 /\ fills = 0
    /\ market = [t \in Tokens |-> Min(Prices[t])]
    /\ pool \in Pools /\ (chain = "solana" => pool = CHOOSE p \in Pools : TRUE)
    /\ policy = FirstPolicy
    /\ pos = [t \in Tokens |-> [amount |-> 0, basis |-> 0]]
    /\ paper = [t \in Tokens |-> Max(Bankrolls[t])]
    /\ lp = [tokens |-> 0, capital |-> 0]
    /\ realized = [d \in Days |-> 0]
    /\ anchor = [d \in Days |-> Missing]
    /\ cooldowns = << >> /\ lastAny = Missing
    /\ cycle = Missing

Next ==
    \/ \E decision \in {"OPEN", "REDUCE", "CLOSE"}, t \in Tokens, n \in Notionals, short \in {0, 1} :
          BuildSwap(decision, t, n, short)
    \/ ReadPool
    \/ \E decision \in {"ADD_LIQUIDITY", "REMOVE_LIQUIDITY", "EXIT", "HOLD"}, n \in Notionals :
          BuildLp(decision, n)
    \/ Decide
    \/ Tick
    \/ \E t \in Tokens : \E p \in Prices[t] : MovePrice(t, p)
    \/ \E p \in Pools : MovePool(p)
    \/ \E p \in Policies : UpdatePolicy(p)
    \/ \E t \in Tokens : \E amount \in Bankrolls[t] : SetPaperBalance(t, amount)

Spec == Init /\ [][Next]_vars

-----------------------------------------------------------------------------
(* Properties.                                                             *)

\* What the books say was earned: everything realized, what the holdings are
\* worth above their cost, and what the LP position would pay out above its.
Earned ==
    LET share == ShareOfReserves(pool, lp.tokens)
    IN  MapThenSumSet(LAMBDA d : realized[d], Days)
          + UnrealizedAt(market, Held)
          + Worth(Token0, share.a0, market, "floor") + Worth(Token1, share.a1, market, "floor")
          - lp.capital

\* The cost of a purchase is rounded down to a micro-USD, so a fill may earn less than one
\* that nobody paid, unless a base unit of every stablecoin is worth whole ones.
MicroPerFill == IF \A t \in Stablecoins : market[t] % Ten^Decimals[t] = 0 THEN 0 ELSE 1

\* The paper books never invent money: while no price and no pool has moved,
\* whatever was opened, reduced, closed, added and removed, in whatever sizes
\* and with whatever rounding, the books are down by at least the gas of
\* every fill, but for the rounded cost of what was bought (ledger.ts recordFill and
\* #reducePosition, store.ts bookRemove, liquidity/paper.ts).
NoProfitWithoutAMove ==
    moves = 0 => Earned <= fills * (MicroPerFill - Worth(Native, Gas, market, "ceil"))

\* The caps bind what is booked, not only what was proposed: a swap that
\* raises the deployed capital leaves it within maxTotalDeployedUsd, an LP
\* add leaves deployed plus LP capital within it and the pool's capital
\* within maxLpCapitalUsd, although the policy, the books and the prices may
\* have changed since the proposal was built (engine.ts deployed.total and
\* lp.capital, read by the gate at decision time).
EntriesKeepTheCaps ==
    [][ /\ Deployed' > Deployed => Deployed' <= policy.maxDeployed
        /\ lp'.capital > lp.capital =>
              /\ Deployed + lp'.capital <= policy.maxDeployed
              /\ lp'.capital <= policy.lp.maxCapital ]_vars

\* The market order that sells all of a holding at the market price.
ExitOrder(t, stable) ==
    LET expected == Fair(t, stable, pos[t].amount)
    IN  [SwapProposal(t, stable, pos[t].amount, expected, TRUE)
            EXCEPT !.action.quote = Quote(expected, 0)]

\* The policy lists the chain, the venue and both tokens with the registry's
\* decimals, and nothing is stopped.
MayTrade(in, out) ==
    /\ ~policy.emergencyStop /\ ~policy.globalPause
    /\ chain \in policy.chains
    /\ "dex" \in DOMAIN policy.protocols /\ Router \in policy.protocols["dex"].contracts
    /\ \A t \in {in, out} : t \in DOMAIN policy.tokens /\ policy.tokens[t] = Decimals[t]

\* What rounding may take from a sale at the market price: less than a base
\* unit that is not paid out, and a micro-USD more when a unit is worth no
\* whole number of them.
RoundingOf(stable) ==
    Worth(stable, 1, market, "ceil") + IF market[stable] % Ten^Decimals[stable] = 0 THEN 0 ELSE 1

\* The slippage and the impact the operator tolerates are worth that much.
RoundingIsTolerated(t, stable) ==
    RoundingOf(stable) <= BpsOf(Worth(t, pos[t].amount, market, "ceil"),
                                Min({policy.maxSlippage + policy.maxImpact, BPS_DENOM}))

\* An exit is always open: whatever the day has lost, however much is
\* deployed, whatever the cooldowns and however large the position, the gate
\* allows a holding that is in the wallet to be sold at the market into a
\* stablecoin the policy lists, as long as gas can be paid and nothing is
\* stopped (engine.ts: the exemptions of reduceOnly actions).  Only a holding
\* so small that its tolerance is less than the roundings of its own quote may
\* look off the market.
ExitsAreOpen ==
    \A t \in Held, stable \in Stablecoins :
        /\ MayTrade(t, stable) /\ ~IsQuote(t)
        /\ Fair(t, stable, pos[t].amount) > 0
        /\ paper[t] >= pos[t].amount /\ paper[Native] >= Gas
        /\ Worth(Native, Gas, market, "ceil") <= policy.maxFee
        => /\ Decision(ExitOrder(t, stable)) \in {"OK", "QUOTE_OFF_MARKET"}
           /\ RoundingIsTolerated(t, stable) => Decision(ExitOrder(t, stable)) = "OK"

\* A holding that the proposal did not price never makes the engine less
\* strict: what it takes for the day's loss is no less than the loss with
\* every holding marked at the market (ledger.ts toRiskLedger).
LossCapSeesEveryHolding ==
    cycle # Missing /\ cycle.stage = "built" /\ anchor[Day(clock)] # Missing
      /\ (\A t \in cycle.priced : cycle.snap.prices[t].value = market[t])
    => LET lossWith(priced) == DailyLoss([policy |-> policy, state |-> RiskState(priced, market)])
       IN  lossWith(cycle.priced) >= lossWith(Tokens)
=============================================================================
