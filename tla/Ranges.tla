------------------------------- MODULE Ranges -------------------------------
(***************************************************************************)
(* Concentrated liquidity: the arithmetic of a range before it is minted   *)
(* (liquidity/evm/range-plan.ts, tick-math.ts) and the books of the        *)
(* positions that were (the range half of liquidity/store.ts). No executor *)
(* of the repository mints yet: the callers are what the two are for.      *)
(*                                                                         *)
(* The arithmetic is exact in the code, so it is checked at a small fixed  *)
(* point: Q for 2^96 and a short ladder of ratios for the one of 1.0001.   *)
(* All the roundings are the code's. The store is synchronous: a method is *)
(* one transaction.                                                        *)
(***************************************************************************)
EXTENDS Integers, Sequences, FiniteSets, FiniteSetsExt

CONSTANTS NoRow,                \* no row, no range, no plan
          Q, RangeBps,          \* Q96, BPS_DENOM
          MinTick, MaxTick,
          Ratio,                \* getSqrtRatioAtTick: tick -> its ratio
          MaxLiquidity,         \* MAX_UINT128
          PlanRequests,         \* what a plan may be asked for
          TokenIds, RangePools, \* position NFTs, pools
          Liquidities, Capitals, Proceeds, GasCosts,
          MaxRangeDay, MaxRangeChanges   \* bounds

ASSUME RangeConstants ==
    /\ {Q, RangeBps, MaxLiquidity, MaxTick, -MinTick} \subseteq Nat \ {0} /\ MinTick \in Int
    /\ \A t \in MinTick..MaxTick : Ratio[t] \in Nat \ {0}
    /\ \A t \in MinTick..(MaxTick - 1) : Ratio[t] < Ratio[t + 1]

\* assertSqrtRatio, halfWidthTicksForBps, assertTickSpacing, assertAmount and
\* minimumAmounts refuse any other.
ASSUME PlanRequestsAreValid ==
    \A r \in PlanRequests :
       /\ r.price \in Nat /\ r.price >= Ratio[MinTick]
       /\ r.width \in Nat /\ r.spacing \in Nat \ {0} /\ r.outward \in BOOLEAN
       /\ r.amount0 \in Nat /\ r.amount1 \in Nat /\ r.slippage \in 0..RangeBps

RangeRows == [pool : RangePools, liquidity : Nat, capital : Nat, closed : BOOLEAN]

\* openRangePosition, adjustRangePosition and assertRealized refuse other amounts.
ASSUME RangeBooksConstants ==
    /\ IsFiniteSet(TokenIds) /\ NoRow \notin RangeRows
    /\ Liquidities \subseteq Nat \ {0} /\ Capitals \subseteq Nat
    /\ Proceeds \subseteq Nat /\ GasCosts \subseteq Nat

VARIABLES rangePlan,        \* the last plan: what was asked and what came out
          rangeDay,
          rangeRow,         \* lp_range_positions: token id -> its row
          rangeEvents,      \* lp_range_events
          rangePnl,         \* the rows of lp_pnl that range positions wrote
          rangeRebalances   \* lp_range_rebalances

rangeVars == <<rangePlan, rangeDay, rangeRow, rangeEvents, rangePnl, rangeRebalances>>

-----------------------------------------------------------------------------
(* Ticks.                                                                  *)

\* The division of bigint, toward zero.
Truncated(v, s) == IF v >= 0 THEN v \div s ELSE -((-v) \div s)

AlignDown(v, s) == (IF v % s = 0 \/ v >= 0 THEN Truncated(v, s) ELSE Truncated(v, s) - 1) * s
AlignUp(v, s) == (IF v % s = 0 \/ v <= 0 THEN Truncated(v, s) ELSE Truncated(v, s) + 1) * s

IntoRange(t, s) == IF t < MinTick THEN t + s ELSE IF t > MaxTick THEN t - s ELSE t
Clamp(t) == IF t < MinTick THEN MinTick ELSE IF t > MaxTick THEN MaxTick ELSE t

IsUsableTick(t, s) == t \in MinTick..MaxTick /\ t % s = 0
AlignTickDown(t, s) == IntoRange(AlignDown(t, s), s)
AlignTickUp(t, s) == IntoRange(AlignUp(t, s), s)
NearestUsableTick(t, s) == IntoRange(AlignDown(2 * t + s, 2 * s) \div 2, s)

\* No range where the bounds meet.
RangeFromHalfWidth(tick, half, s, outward) ==
    LET low == Clamp(tick - half)
        high == Clamp(tick + half)
        lower == IF outward THEN AlignTickDown(low, s) ELSE AlignTickUp(low, s)
        upper == IF outward THEN AlignTickUp(high, s) ELSE AlignTickDown(high, s)
    IN  IF lower >= upper THEN NoRow ELSE [lower |-> lower, upper |-> upper]

\* The binary search over the ladder.
HalfWidthTicksForBps(bps) ==
    LET fits(t) == Ratio[t] * Ratio[t] * RangeBps <= (RangeBps + bps) * Q * Q
        search[w \in (0..MaxTick) \X (0..MaxTick)] ==
            IF w[1] >= w[2] THEN w[1]
            ELSE LET mid == (w[1] + w[2] + 1) \div 2
                 IN  IF fits(mid) THEN search[<<mid, w[2]>>] ELSE search[<<w[1], mid - 1>>]
    IN  search[<<0, MaxTick>>]

\* getTickAtSqrtRatio.
TickAt(price) ==
    CHOOSE t \in MinTick..MaxTick :
        Ratio[t] <= price /\ (t = MaxTick \/ price < Ratio[t + 1])

-----------------------------------------------------------------------------
(* From capital to liquidity, and back.                                    *)

\* Mutant: the intermediate product is rounded up.
LiquidityForAmount0RoundsUp(low, high, amount) ==
    (amount * ((low * high + Q - 1) \div Q)) \div (high - low)

LiquidityForAmount0(low, high, amount) == (amount * ((low * high) \div Q)) \div (high - low)
LiquidityForAmount1(low, high, amount) == (amount * Q) \div (high - low)

\* The price p is below, inside or above the range; both sides bind inside.
MaxLiquidityForAmounts(p, range, amount0, amount1) ==
    LET lower == Ratio[range.lower]
        upper == Ratio[range.upper]
    IN  IF p <= lower THEN LiquidityForAmount0(lower, upper, amount0)
        ELSE IF p >= upper THEN LiquidityForAmount1(lower, upper, amount1)
        ELSE Min({LiquidityForAmount0(p, upper, amount0),
                  LiquidityForAmount1(lower, p, amount1)})

MaxLiquidityPerTick(s) ==
    LET low == Truncated(MinTick, s) * s
        high == Truncated(MaxTick, s) * s
    IN  MaxLiquidity \div ((high - low) \div s + 1)

Amount0ForLiquidity(low, high, l) == ((l * Q * (high - low)) \div high) \div low
Amount1ForLiquidity(low, high, l) == (l * (high - low)) \div Q

\* getAmountsForLiquidity, with the two formulas it is made of.
AmountsWith(A0(_, _, _), A1(_, _, _), p, range, l) ==
    LET lower == Ratio[range.lower]
        upper == Ratio[range.upper]
    IN  IF p <= lower THEN <<A0(lower, upper, l), 0>>
        ELSE IF p >= upper THEN <<0, A1(lower, upper, l)>>
        ELSE <<A0(p, upper, l), A1(lower, p, l)>>

AmountsForLiquidity(p, range, l) ==
    AmountsWith(Amount0ForLiquidity, Amount1ForLiquidity, p, range, l)

MinimumAmount(amount, slippage) ==
    (amount * (RangeBps - slippage) + RangeBps - 1) \div RangeBps

RangeStatus(tick, range) ==
    [side |-> IF tick < range.lower THEN "below"
              ELSE IF tick < range.upper THEN "in-range" ELSE "above",
     outside |-> IF tick < range.lower THEN range.lower - tick
                 ELSE IF tick > range.upper THEN tick - range.upper ELSE 0]

\* planRange: refused, or what the range takes of the capital. "internal" is the
\* assertion that the amounts cannot exceed it.
PlanRange(r, range) ==
    LET l == MaxLiquidityForAmounts(r.price, range, r.amount0, r.amount1)
        amounts == AmountsForLiquidity(r.price, range, l)
    IN  IF \/ ~IsUsableTick(range.lower, r.spacing) \/ ~IsUsableTick(range.upper, r.spacing)
           \/ r.amount0 = 0 /\ r.amount1 = 0
           \/ l > MaxLiquidity \/ l > MaxLiquidityPerTick(r.spacing)
        THEN [status |-> "refused"]
        ELSE IF amounts[1] > r.amount0 \/ amounts[2] > r.amount1 THEN [status |-> "internal"]
        ELSE [status |-> "planned", range |-> range, liquidity |-> l, amounts |-> amounts,
              minimums |-> [i \in 1..2 |-> MinimumAmount(amounts[i], r.slippage)],
              at |-> RangeStatus(TickAt(r.price), range)]

\* A width in basis points around the price, as a range, as a plan.
MakePlan(r) ==
    LET range == RangeFromHalfWidth(TickAt(r.price), HalfWidthTicksForBps(r.width),
                                    r.spacing, r.outward)
    IN  /\ rangePlan' = [request |-> r, range |-> range,
                    result |-> IF range = NoRow THEN [status |-> "refused"]
                               ELSE PlanRange(r, range)]
        /\ UNCHANGED <<rangeDay, rangeRow, rangeEvents, rangePnl, rangeRebalances>>

-----------------------------------------------------------------------------
(* The books.                                                              *)

Booked(id) == rangeRow[id] # NoRow

\* #recordRangeEvent, of the row as it now stands.
RecordRangeEvent(id, action, row, liquidity, capital) ==
    rangeEvents' = Append(rangeEvents,
        [id |-> id, action |-> action, liquidity |-> liquidity, capital |-> capital,
         liquidityAfter |-> row.liquidity, capitalAfter |-> row.capital])

\* Mutant: a burn that leaves something writes no row.
RecordRangePnlOfExits(id, action, released, proceeds, fee) ==
    IF action = "REMOVE" THEN UNCHANGED rangePnl
    ELSE rangePnl' = Append(rangePnl,
            [id |-> id, action |-> action, day |-> rangeDay, proceeds |-> proceeds,
             released |-> released, fee |-> fee, realized |-> proceeds - released - fee])

\* #recordRangePnl, recordPnl.
RecordRangePnl(id, action, released, proceeds, fee) ==
    rangePnl' = Append(rangePnl,
        [id |-> id, action |-> action, day |-> rangeDay, proceeds |-> proceeds,
         released |-> released, fee |-> fee, realized |-> proceeds - released - fee])

\* #resolveRebalancedFrom: the position a mint replaces must be booked, open or not.
Replaceable(id, from) == from # NoRow => (from # id /\ Booked(from))

\* #countRangeRebalance: at the mint, on the pool of the new position.
CountRangeRebalance(id, pool, from) ==
    rangeRebalances' = IF from = NoRow THEN rangeRebalances
                       ELSE rangeRebalances \cup
                              {[pool |-> pool, closed |-> from, opened |-> id, day |-> rangeDay]}

OpenRangePosition(id, pool, liquidity, capital, from, fee) ==
    LET row == [pool |-> pool, liquidity |-> liquidity, capital |-> capital, closed |-> FALSE]
    IN  /\ ~Booked(id) /\ Replaceable(id, from)
        /\ rangeRow' = [rangeRow EXCEPT ![id] = row]
        /\ RecordRangeEvent(id, "ADD", row, liquidity, capital)
        /\ CountRangeRebalance(id, pool, from)
        /\ RecordRangePnl(id, IF from = NoRow THEN "ADD" ELSE "REBALANCE", 0, 0, fee)
        /\ UNCHANGED <<rangePlan, rangeDay>>

\* The basis a burn releases, rounded up.
RangeCostReleased(row, burned) ==
    (row.capital * burned + row.liquidity - 1) \div row.liquidity

\* adjustRangePosition, adding: also to a row that was closed.
IncreaseRangePosition(id, liquidity, capital, fee) ==
    /\ Booked(id)
    /\ LET row == [rangeRow[id] EXCEPT !.liquidity = @ + liquidity, !.capital = @ + capital,
                                       !.closed = FALSE]
       IN  /\ rangeRow' = [rangeRow EXCEPT ![id] = row]
           /\ RecordRangeEvent(id, "ADD", row, liquidity, capital)
           /\ RecordRangePnl(id, "ADD", 0, 0, fee)
    /\ UNCHANGED <<rangePlan, rangeDay, rangeRebalances>>

\* adjustRangePosition, burning.
DecreaseRangePosition(id, burned, proceeds, fee) ==
    /\ Booked(id) /\ burned \in 1..rangeRow[id].liquidity
    /\ LET released == RangeCostReleased(rangeRow[id], burned)
           row == [rangeRow[id] EXCEPT !.liquidity = @ - burned, !.capital = @ - released,
                                       !.closed = rangeRow[id].liquidity = burned]
           action == IF row.closed THEN "EXIT" ELSE "REMOVE"
       IN  /\ rangeRow' = [rangeRow EXCEPT ![id] = row]
           /\ RecordRangeEvent(id, action, row, -burned, -released)
           /\ RecordRangePnl(id, action, released, proceeds, fee)
    /\ UNCHANGED <<rangePlan, rangeDay, rangeRebalances>>

CloseRangePosition(id, proceeds, fee) ==
    /\ Booked(id) /\ rangeRow[id].liquidity > 0
    /\ DecreaseRangePosition(id, rangeRow[id].liquidity, proceeds, fee)

\* The sum of a column over some of its rows.
SumOf(column, rows) == MapThenSumSet(LAMBDA i : column[i], rows)

\* What toRiskSnapshot adds for range positions: the capital of the open ones, and the
\* rebalances of the day, of a pool.
RangeDeployed ==
    LET open == {id \in TokenIds : Booked(id) /\ ~rangeRow[id].closed}
    IN  SumOf([id \in open |-> rangeRow[id].capital], open)

RangeRebalancesToday(pool) ==
    Cardinality({r \in rangeRebalances : r.pool = pool /\ r.day = rangeDay})

NextRangeDay ==
    /\ rangeDay < MaxRangeDay /\ rangeDay' = rangeDay + 1
    /\ UNCHANGED <<rangePlan, rangeRow, rangeEvents, rangePnl, rangeRebalances>>

RangesInit ==
    /\ rangePlan = NoRow /\ rangeDay = 0
    /\ rangeRow = [id \in TokenIds |-> NoRow]
    /\ rangeEvents = <<>> /\ rangePnl = <<>> /\ rangeRebalances = {}

RangeChange(id, fee) ==
    /\ Len(rangeEvents) < MaxRangeChanges
    /\ \/ \E pool \in RangePools, l \in Liquidities, c \in Capitals, from \in TokenIds \cup {NoRow} :
             OpenRangePosition(id, pool, l, c, from, fee)
       \/ \E l \in Liquidities, c \in Capitals : IncreaseRangePosition(id, l, c, fee)
       \/ \E l \in Liquidities, p \in Proceeds : DecreaseRangePosition(id, l, p, fee)
       \/ \E p \in Proceeds : CloseRangePosition(id, p, fee)

BooksNext == (\E id \in TokenIds, fee \in GasCosts : RangeChange(id, fee)) \/ NextRangeDay
PlansNext == rangePlan = NoRow /\ \E r \in PlanRequests : MakePlan(r)

RangesSpec == RangesInit /\ [][BooksNext \/ PlansNext]_rangeVars

-----------------------------------------------------------------------------
(* The range of a width is one the pool accepts, and an outward one reaches at least *)
(* as far as was asked, to the last usable ticks; the nearest usable tick is.         *)
(* (range-plan.ts rangeFromHalfWidth, halfWidthTicksForBps, nearestUsableTick.)       *)
RangeIsUsable ==
    LET r == rangePlan.request
        s == r.spacing
        tick == TickAt(r.price)
        usable == {t \in MinTick..MaxTick : t % s = 0}
        asked == {t \in 0..MaxTick :
                     Ratio[t] * Ratio[t] * RangeBps <= (RangeBps + r.width) * Q * Q}
        half == Max(asked \cup {0})
        apart(t) == IF t > tick THEN t - tick ELSE tick - t
    IN  /\ rangePlan.range # NoRow =>
              /\ {rangePlan.range.lower, rangePlan.range.upper} \subseteq usable
              /\ r.outward =>
                    /\ rangePlan.range.lower <= Max({tick - half, Min(usable)})
                    /\ rangePlan.range.upper >= Min({tick + half, Max(usable)})
              /\ ~r.outward =>
                    /\ rangePlan.range.lower >= tick - half
                    /\ rangePlan.range.upper <= tick + half
        /\ NearestUsableTick(tick, s) \in usable
        /\ \A t \in usable : apart(NearestUsableTick(tick, s)) <= apart(t)

\* What the pool charges for a mint: it rounds up where the reader rounds down.
Charge0(low, high, l) == ((l * Q * (high - low) + high - 1) \div high + low - 1) \div low
Charge1(low, high, l) == (l * (high - low) + Q - 1) \div Q

(* A plan is for a usable range and can be paid for: what the pool charges for its    *)
(* liquidity, rounded against the operator, is no more than the capital and no less   *)
(* than the minimums. Out of its range it takes one token only.                       *)
(* (range-plan.ts planRange, getLiquidityForAmount0, minimumAmounts; tick-math.ts.)   *)
PlansCanBeMinted ==
    rangePlan # NoRow =>
        /\ RangeIsUsable
        /\ rangePlan.result.status # "internal"
        /\ rangePlan.result.status = "planned" =>
              LET r == rangePlan.request
                  charge == AmountsWith(Charge0, Charge1, r.price, rangePlan.range,
                                        rangePlan.result.liquidity)
              IN  /\ charge[1] <= r.amount0 /\ charge[2] <= r.amount1
                  /\ \A i \in 1..2 : rangePlan.result.minimums[i] <= charge[i]
                  /\ rangePlan.result.at.side = "below" => charge[2] = 0
                  /\ rangePlan.result.at.side = "above" => charge[1] = 0
                  /\ rangePlan.result.at.outside > 0 => rangePlan.result.at.side # "in-range"

\* The rows a position has in the trail of events.
Trail(id) == {i \in DOMAIN rangeEvents : rangeEvents[i].id = id}

LiquidityMoved == [i \in DOMAIN rangeEvents |-> rangeEvents[i].liquidity]
CapitalMoved == [i \in DOMAIN rangeEvents |-> rangeEvents[i].capital]
CapitalPaid ==
    [i \in DOMAIN rangeEvents |-> IF rangeEvents[i].capital > 0 THEN rangeEvents[i].capital ELSE 0]
CashEarned == [i \in DOMAIN rangePnl |-> rangePnl[i].proceeds - rangePnl[i].fee]
Realized == [i \in DOMAIN rangePnl |-> rangePnl[i].realized]

(* Whatever was added, burned, closed and added again: the trail of a position adds   *)
(* up to its row, the capital at risk is what was paid in and not yet released, and    *)
(* all that was released has reached the daily loss, with the gas.                     *)
(* (store.ts openRangePosition, adjustRangePosition, toRiskSnapshot, recordPnl.)       *)
RangeBooksBalance ==
    /\ \A id \in TokenIds : Booked(id) =>
          /\ SumOf(LiquidityMoved, Trail(id)) = rangeRow[id].liquidity
          /\ SumOf(CapitalMoved, Trail(id)) = rangeRow[id].capital
          /\ rangeRow[id].closed <=> rangeRow[id].liquidity = 0
          /\ rangeRow[id].closed => rangeRow[id].capital = 0
    /\ SumOf(Realized, DOMAIN rangePnl) =
          SumOf(CashEarned, DOMAIN rangePnl)
             - (SumOf(CapitalPaid, DOMAIN rangeEvents) - RangeDeployed)
    /\ \A pool \in RangePools :
          RangeRebalancesToday(pool) =
              Cardinality({i \in DOMAIN rangePnl :
                  /\ rangePnl[i].action = "REBALANCE" /\ rangePnl[i].day = rangeDay
                  /\ rangeRow[rangePnl[i].id].pool = pool})
=============================================================================
