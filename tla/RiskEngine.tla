----------------------------- MODULE RiskEngine -----------------------------
(***************************************************************************)
(* The deterministic risk engine: a pure function from an action, the      *)
(* operator's policy, the runtime's state and a market snapshot to a       *)
(* verdict.  Each check of the code is one record of the sequence that its *)
(* tier returns, in the canonical order; the verdict is the code of the    *)
(* first one that fails.  A check that does not apply to the action is one *)
(* that passes.  What the code prints beside a check (observed, limit,     *)
(* detail) is left out.                                                    *)
(*                                                                         *)
(* Money keeps its roundings: an amount of base units is worth             *)
(* amount * price / 10^decimals, a fraction that the code rounds against   *)
(* the trade.  The powers of ten are the constants Ten and BPS_DENOM, so   *)
(* that a small instance meets the roundings with small numbers.           *)
(***************************************************************************)
EXTENDS Integers, Sequences

CONSTANTS
    Missing,        \* an absent datum: no stamped value, no leg, no entry
    Ten,            \* the base of the decimals: one token is Ten^decimals units
    BPS_DENOM,      \* basis points in the whole (10 000)
    DayLength,      \* one UTC day on the clock
    Stablecoins,    \* the registry's stablecoins
    Native,         \* the native coin's sentinel address
    SystemPrograms  \* Solana programs that any transaction may carry

ASSUME ScaleAssumption ==
    /\ Ten \in Nat \ {0} /\ BPS_DENOM \in Nat \ {0} /\ DayLength \in Nat \ {0}
    /\ Native \notin Stablecoins

-----------------------------------------------------------------------------
(* risk/money.ts: integer money.  BigInt division truncates toward zero.   *)

FloorDiv(a, b) == IF a < 0 THEN -((-a) \div b) ELSE a \div b

CeilDiv(a, b) == IF a <= 0 THEN FloorDiv(a, b) ELSE (a + b - 1) \div b

\* Only a positive price is a price: zero is how a provider says "unknown".
UsablePrice(p) == p # Missing /\ p.value > 0

NativeToUsd(amount, decimals, price, rounding) ==
    IF rounding = "ceil" THEN CeilDiv(amount * price, Ten^decimals)
                         ELSE FloorDiv(amount * price, Ten^decimals)

\* The value of an amount at a stamped price, Missing when there is no price.
Valued(amount, ref, p, rounding) ==
    IF UsablePrice(p) THEN NativeToUsd(amount, ref.decimals, p.value, rounding)
                      ELSE Missing

BpsOf(value, bps) == CeilDiv(value * bps, BPS_DENOM)

ImpliedSlippage(quote) ==
    LET implied == CeilDiv((quote.expected - quote.min) * BPS_DENOM, quote.expected)
    IN  IF quote.expected > 0 /\ quote.min <= quote.expected /\ implied > quote.slippage
        THEN implied ELSE quote.slippage

UsdToTokenUnits(usd, decimals, price) ==
    IF price <= 0 THEN 0 ELSE FloorDiv(usd * Ten^decimals, price)

Plus(a, b) == IF a = Missing \/ b = Missing THEN Missing ELSE a + b

AtMost(a, max) == a # Missing /\ a <= max

AtLeast(a, min) == a # Missing /\ a >= min

-----------------------------------------------------------------------------
(* The kinds of action and their exemptions.                               *)

LpEntries == {"lp_add", "lp_rebalance"}

LpKinds == LpEntries \union {"lp_remove", "lp_claim"}

IsLp(a) == a.kind \in LpKinds

IsApprove(a) == a.kind = "approve"

IsExit(a) == a.reduceOnly /\ a.kind = "swap"

IsLpApprove(a) == IsApprove(a) /\ a.lp # Missing

Market(a) == {a.tokenIn.address, a.tokenOut.address}

\* proposedActionSchema: what a proposal of each kind must and must not carry.
ActionIsValid(a) ==
    /\ a.amountIn = 0 => a.kind = "lp_claim"
    /\ a.reduceOnly => a.kind = "swap"
    /\ IsLp(a) => a.lp # Missing
    /\ a.kind = "swap" => a.lp = Missing
    /\ a.lp # Missing =>
          /\ a.kind \in LpEntries => a.lp.amountB # Missing
          /\ a.lp.amountB # 0
          /\ a.kind = "lp_remove" => a.lp.lpTokens \notin {Missing, 0}
          /\ a.kind = "lp_claim" => a.lp.claimable # Missing /\ a.contract = a.lp.pool
          /\ IsApprove(a) => a.tokenIn.address = a.lp.pool
    /\ IF IsApprove(a)
       THEN a.quote = Missing /\ a.tokenIn.address = a.tokenOut.address
       ELSE /\ (a.quote = Missing) <=> (a.kind = "lp_claim")
            /\ a.tokenIn.address # a.tokenOut.address
    /\ a.quote # Missing => a.quote.expected > 0 /\ a.quote.min <= a.quote.expected
    /\ (a.chain = "solana") <=> (a.programs # Missing)
    /\ (a.chain = "solana") <=> (a.feeFamily = "solana")

DecimalsMatch(a, policy) ==
    \A ref \in {a.tokenIn, a.tokenOut} :
        ref.address \in DOMAIN policy.tokens => policy.tokens[ref.address] = ref.decimals

\* What the action does, never when it was proposed: the fields that the
\* idempotency key digests.
IntentOf(a) ==
    <<a.cycle, a.chain, a.kind, a.protocol, a.tokenIn.address, a.tokenOut.address,
      a.amountIn, a.reduceOnly>>

-----------------------------------------------------------------------------
(* The checks, in the order in which the code reports them.                *)

Check(code, passed) == [code |-> code, passed |-> passed]

Tier0(i) ==
    LET a == i.action  p == i.policy  s == i.state
    IN  << Check("SCHEMA_INVALID", p.version = 1),
           Check("SCHEMA_INVALID", ActionIsValid(a)),
           Check("SCHEMA_INVALID", ActionIsValid(a) => DecimalsMatch(a, p)),
           Check("SCHEMA_INVALID", ActionIsValid(a) => a.key = IntentOf(a)),
           Check("EMERGENCY_STOP", ~(p.emergencyStop \/ s.emergencyStop)),
           Check("GLOBAL_PAUSE", ~(p.globalPause \/ s.globalPause)),
           Check("MODE_MISMATCH", a.mode = s.mode),
           Check("LIVE_NOT_ACTIVATED", a.mode = "PAPER" \/ s.liveUntil > i.now) >>

\* A datum is fresh when it is present, no older than its limit and no
\* further in the future than the clock skew allows.
Fresh(i, stamp, maxAge) ==
    /\ stamp # Missing
    /\ i.now - stamp.at >= -i.policy.skew
    /\ i.now - stamp.at <= maxAge

PriceFresh(i, stamp) == Fresh(i, stamp, i.policy.priceAge) /\ UsablePrice(stamp)

PoolAllowed(a, p) ==
    /\ a.protocol \in p.lp.protocols
    /\ <<a.protocol, a.lp.pool>> \in p.lp.pools

PriceIn(i) == i.snap.prices[i.action.tokenIn.address]

PriceOut(i) == i.snap.prices[i.action.tokenOut.address]

\* Both legs of an entry at the snapshot's prices, each rounded up.
LpCapital(i) ==
    Plus(Valued(i.action.amountIn, i.action.tokenIn, PriceIn(i), "ceil"),
         Valued(i.action.lp.amountB, i.action.tokenOut, PriceOut(i), "ceil"))

LpHeld(i) ==
    IF i.snap.lp # Missing /\ i.action.lp.pool \in DOMAIN i.snap.lp.positions
    THEN i.snap.lp.positions[i.action.lp.pool] ELSE [tokens |-> 0, capital |-> 0]

StructureChecks(i) ==
    LET a == i.action  p == i.policy
    IN  << Check("CHAIN_UNSUPPORTED", a.chain \in p.chains),
           Check("POOL_NOT_ALLOWLISTED", IsLp(a) \/ IsLpApprove(a) => PoolAllowed(a, p)),
           Check("LP_CAPITAL_EXCEEDS_MAX",
                 a.kind \in LpEntries =>
                     AtMost(Plus(LpHeld(i).capital, LpCapital(i)), p.lp.maxCapital)) >>

\* Swaps read the liquidity of the quoted market, LP entries the pool's TVL.
LiquidityOf(i) ==
    IF i.action.kind \in LpEntries THEN i.snap.poolLiquidity
    ELSE IF IsLp(i.action) THEN Missing ELSE i.snap.liquidity

FreshnessChecks(i) ==
    LET a == i.action  p == i.policy  s == i.snap
    IN  << Check("DATA_STALE", Fresh(i, [at |-> a.proposedAt], p.actionAge)),
           Check("DATA_STALE", i.state.dayStart = (i.now \div DayLength) * DayLength),
           Check("DATA_STALE", PriceFresh(i, PriceIn(i))),
           Check("DATA_STALE", IsApprove(a) \/ PriceFresh(i, PriceOut(i))),
           Check("DATA_STALE", PriceFresh(i, s.prices[Native])),
           Check("DATA_STALE", IsApprove(a) \/ a.quote = Missing
                                 \/ Fresh(i, [at |-> a.quote.at], p.quoteAge)),
           Check("DATA_STALE", Fresh(i, [at |-> a.feeAt], p.feeAge)),
           Check("DATA_STALE", a.kind \in {"lp_remove", "lp_claim"}
                                 \/ Fresh(i, s.balances[a.tokenIn.address], p.balanceAge)),
           Check("DATA_STALE", Fresh(i, s.balances[Native], p.balanceAge)),
           Check("DATA_STALE", IsApprove(a) \/ a.quote = Missing \/ a.kind = "lp_remove"
                                 \/ Fresh(i, LiquidityOf(i), p.liquidityAge)) >>

\* The contract is a spender for an approval, the pool for a claim, one of
\* the protocol's contracts otherwise; on Solana the transaction must carry
\* it and no program beyond the protocol's and the system's.
ContractAllowed(a, p) ==
    /\ a.protocol \in DOMAIN p.protocols
    /\ CASE IsApprove(a) -> a.contract \in p.protocols[a.protocol].spenders
         [] a.kind = "lp_claim" -> a.lp # Missing /\ a.contract = a.lp.pool
         [] OTHER -> a.contract \in p.protocols[a.protocol].contracts
    /\ a.chain = "solana" =>
          /\ a.contract \in a.programs
          /\ a.programs \subseteq p.protocols[a.protocol].contracts \union SystemPrograms

AllowlistChecks(i) ==
    LET a == i.action  p == i.policy
    IN  << Check("TOKEN_NOT_ALLOWLISTED",
                 \/ a.tokenIn.address \in DOMAIN p.tokens
                 \/ IsLpApprove(a) /\ PoolAllowed(a, p)),
           Check("TOKEN_NOT_ALLOWLISTED",
                 IsApprove(a) \/ a.tokenOut.address \in DOMAIN p.tokens),
           Check("PROTOCOL_NOT_ALLOWLISTED", a.protocol \in DOMAIN p.protocols),
           Check("CONTRACT_UNKNOWN", ContractAllowed(a, p)) >>

\* An exit sells what the ledger holds, no more of it, back into a stablecoin.
ReducesOnly(i) ==
    LET a == i.action  held == i.state.positions[a.tokenIn.address]
    IN  /\ held > 0 /\ a.amountIn <= held
        /\ a.tokenIn.address \notin Stablecoins
        /\ a.tokenOut.address \in Stablecoins

\* Today's drawdown as a positive number: what was realized, and how far the
\* open positions have moved since the day's anchor; gains offset losses.
DailyLoss(i) ==
    LET s == i.state
        moved == IF i.policy.includeUnrealized THEN s.unrealized - s.unrealizedAtStart ELSE 0
        lost == -s.realized - moved
    IN  IF lost > 0 THEN lost ELSE 0

AmountInUsd(i) == Valued(i.action.amountIn, i.action.tokenIn, PriceIn(i), "ceil")

FeeUsd(i) ==
    Valued(i.action.feeNative, [decimals |-> i.policy.nativeDecimals], i.snap.prices[Native], "ceil")

WorstCase(i) ==
    LET a == i.action  p == i.policy
        cost(capital, bps) == IF capital = Missing THEN Missing
                              ELSE Plus(FeeUsd(i), BpsOf(capital, bps))
    IN  CASE a.kind \in LpEntries -> cost(LpCapital(i), p.lp.maxSlippage)
          [] IsLp(a) -> FeeUsd(i)
          [] IsApprove(a) -> IF AmountInUsd(i) = Missing THEN Missing ELSE FeeUsd(i)
          [] OTHER -> cost(AmountInUsd(i), p.maxSlippage)

\* Mutant: an LP entry is held to what the swaps have deployed.
ProjectedDeployedForgetsLp(i) ==
    Plus(i.state.deployed,
         IF i.action.kind \in LpEntries THEN LpCapital(i) ELSE AmountInUsd(i))

ProjectedDeployed(i) ==
    LET lpDeployed == IF i.snap.lp = Missing THEN 0 ELSE i.snap.lp.deployed
    IN  Plus(i.state.deployed + lpDeployed,
             IF i.action.kind \in LpEntries THEN LpCapital(i) ELSE AmountInUsd(i))

\* Mutant: an exit is held to the day's loss limit like an entry.
ExposureChecksTrapExits(i) ==
    LET a == i.action  p == i.policy
    IN  << Check("REDUCE_ONLY_MISMATCH", IsExit(a) => ReducesOnly(i)),
           Check("SIZE_EXCEEDS_MAX_TRADE", IsExit(a) \/ IsLp(a) \/ IsLpApprove(a)
                                             \/ AtMost(AmountInUsd(i), p.maxTrade)),
           Check("DAILY_LOSS_BREACHED", a.kind = "lp_remove"
                                          \/ AtMost(Plus(DailyLoss(i), WorstCase(i)), p.maxDailyLoss)),
           Check("TOTAL_DEPLOYED_BREACHED",
                 IsExit(a) \/ IsApprove(a) \/ a.kind \in {"lp_remove", "lp_claim"}
                   \/ AtMost(ProjectedDeployed(i), p.maxDeployed)) >>

ExposureChecks(i) ==
    LET a == i.action  p == i.policy
    IN  << Check("REDUCE_ONLY_MISMATCH", IsExit(a) => ReducesOnly(i)),
           Check("SIZE_EXCEEDS_MAX_TRADE", IsExit(a) \/ IsLp(a) \/ IsLpApprove(a)
                                             \/ AtMost(AmountInUsd(i), p.maxTrade)),
           Check("DAILY_LOSS_BREACHED", IsExit(a) \/ a.kind = "lp_remove"
                                          \/ AtMost(Plus(DailyLoss(i), WorstCase(i)), p.maxDailyLoss)),
           Check("TOTAL_DEPLOYED_BREACHED",
                 IsExit(a) \/ IsApprove(a) \/ a.kind \in {"lp_remove", "lp_claim"}
                   \/ AtMost(ProjectedDeployed(i), p.maxDeployed)) >>

\* The quote against the cross-checked market: what it pays out is worth no
\* less than what goes in, less the operator's slippage and impact budget.
OnMarket(i) ==
    LET a == i.action  p == i.policy
        out == Valued(a.quote.expected, a.tokenOut, PriceOut(i), "floor")
        budget == p.maxSlippage + p.maxImpact
        tolerance == IF budget < BPS_DENOM THEN budget ELSE BPS_DENOM
    IN  /\ AmountInUsd(i) # Missing
        /\ AtLeast(out, AmountInUsd(i) - BpsOf(AmountInUsd(i), tolerance))

ExecutionChecks(i) ==
    LET a == i.action  p == i.policy
        swaps == a.kind = "swap" /\ a.quote # Missing
    IN  << Check("SLIPPAGE_EXCEEDS_MAX", swaps => ImpliedSlippage(a.quote) <= p.maxSlippage),
           Check("SLIPPAGE_EXCEEDS_MAX", swaps => a.quote.impact <= p.maxImpact),
           Check("QUOTE_OFF_MARKET", swaps => OnMarket(i)),
           Check("FEE_EXCEEDS_MAX", AtMost(FeeUsd(i), p.maxFee)),
           Check("LIQUIDITY_BELOW_MIN",
                 swaps => LiquidityOf(i) # Missing /\ LiquidityOf(i).value >= p.minLiquidity) >>

Elapsed(i, last, seconds) == last = Missing \/ i.now - last >= seconds

\* An exit, an LP removal and the approval that enables it are never paced.
PacingChecks(i) ==
    LET a == i.action
        last == IF Market(a) \in DOMAIN i.state.cooldowns
                THEN i.state.cooldowns[Market(a)] ELSE Missing
    IN  << Check("COOLDOWN_ACTIVE", IsExit(a) \/ IsApprove(a) \/ a.kind = "lp_remove"
                                      \/ Elapsed(i, last, i.policy.cooldown)),
           Check("COOLDOWN_ACTIVE", IsExit(a) \/ a.kind = "lp_remove" \/ IsLpApprove(a)
                                      \/ Elapsed(i, i.state.lastAny, i.policy.interval)) >>

BalanceChecks(i) ==
    LET a == i.action
        needed == a.amountIn + (IF a.tokenIn.address = Native THEN a.feeNative ELSE 0)
        held(t) == IF i.snap.balances[t] = Missing THEN Missing ELSE i.snap.balances[t].value
    IN  << Check("BALANCE_INSUFFICIENT", IsApprove(a) \/ a.kind \in {"lp_remove", "lp_claim"}
                                           \/ AtLeast(held(a.tokenIn.address), needed)),
           Check("BALANCE_INSUFFICIENT", AtLeast(held(Native), a.feeNative)) >>

\* The greater of the ledger's and the snapshot's count of today's rebalances.
RebalancesToday(i) ==
    LET counts == {0} \union
                  {f[i.action.lp.pool] : f \in {g \in {i.state.rebalances, i.snap.lp.rebalances} :
                                                  i.action.lp.pool \in DOMAIN g}}
    IN  CHOOSE n \in counts : \A m \in counts : m <= n

LpChecks(i) ==
    LET a == i.action  p == i.policy
        balanceB == i.snap.balances[a.tokenOut.address]
        claimable == Plus(Valued(a.lp.claimable.a, a.tokenIn, PriceIn(i), "floor"),
                          Valued(a.lp.claimable.b, a.tokenOut, PriceOut(i), "floor"))
    IN  << Check("REDUCE_ONLY_MISMATCH",
                 /\ a.kind \in {"lp_remove", "lp_claim"} => LpHeld(i).tokens > 0
                 /\ a.kind = "lp_remove" => a.lp.lpTokens <= LpHeld(i).tokens),
           Check("POOL_LIQUIDITY_BELOW_MIN",
                 a.kind \in LpEntries => LiquidityOf(i) # Missing
                                           /\ LiquidityOf(i).value >= p.lp.minLiquidity),
           Check("REBALANCE_LIMIT_REACHED",
                 a.kind = "lp_rebalance" => RebalancesToday(i) < p.lp.maxRebalances),
           Check("SLIPPAGE_EXCEEDS_MAX",
                 a.quote # Missing => ImpliedSlippage(a.quote) <= p.lp.maxSlippage),
           Check("FEE_EXCEEDS_MAX", AtMost(FeeUsd(i), p.lp.maxGas)),
           Check("FEE_BELOW_CLAIM_THRESHOLD",
                 a.kind = "lp_claim" => AtLeast(claimable, p.lp.minClaim)),
           Check("DATA_STALE", a.kind \in LpEntries => Fresh(i, balanceB, p.balanceAge)),
           Check("BALANCE_INSUFFICIENT",
                 a.kind \in LpEntries => balanceB # Missing /\ balanceB.value >= a.lp.amountB) >>

-----------------------------------------------------------------------------

Failures(checks) == {n \in DOMAIN checks : ~checks[n].passed}

\* The code of the first check that failed.
Verdict(checks) ==
    IF Failures(checks) = {} THEN "OK"
    ELSE checks[CHOOSE n \in Failures(checks) : \A m \in Failures(checks) : n <= m].code

RemainingChecks(i) ==
    StructureChecks(i) \o FreshnessChecks(i) \o AllowlistChecks(i) \o ExposureChecks(i)
      \o ExecutionChecks(i) \o PacingChecks(i) \o BalanceChecks(i)
      \o (IF IsLp(i.action) THEN LpChecks(i) ELSE << >>)

\* Tier 0 short-circuits: nothing below means anything while it fails.
Evaluate(i) ==
    IF Failures(Tier0(i)) # {} THEN Verdict(Tier0(i)) ELSE Verdict(RemainingChecks(i))

-----------------------------------------------------------------------------
(* risk/policy.ts: the rules between the fields of a policy.  The operator's *)
(* candidate is stored only when all hold.                                  *)

PolicyIsValid(p) ==
    /\ p.version = 1
    /\ p.chains # {}
    /\ p.maxTrade <= p.maxDeployed
    /\ p.maxTrade > 0 /\ p.maxDailyLoss > 0 /\ p.maxFee > 0
    /\ p.maxSlippage >= 1 /\ p.maxImpact >= 1 /\ p.lp.maxSlippage >= 1
    /\ \A k \in DOMAIN p.protocols : p.protocols[k].spenders \subseteq p.protocols[k].contracts
=============================================================================
