------------------------------- MODULE MCRisk -------------------------------
(***************************************************************************)
(* Four scenes: the market readings, the books of a PAPER runtime, the     *)
(* plans and the books of range positions.                                 *)
(* PAPER books on small numbers.  One token is two base units, so that a   *)
(* unit of A at price 3 is worth one and a half: the roundings all matter. *)
(* A quarter (two of eight basis points) is the slippage the policy allows. *)
(***************************************************************************)
EXTENDS PaperBooks, Market, Ranges, TLC

CONSTANT Scenes     \* the scenes of the run

VARIABLE scene

MCTokens == {"USD", "A", "B", "N"}

MCDecimals == [t \in MCTokens |-> 1]

MCPolicy ==
    [version |-> 1, chains |-> {"evm", "solana"},
     tokens |-> [t \in MCTokens |-> 1],
     protocols |-> "dex" :> [contracts |-> {"router"}, spenders |-> {}],
     maxTrade |-> 8, maxDailyLoss |-> 6, maxDeployed |-> 12, maxFee |-> 1, minLiquidity |-> 1,
     maxSlippage |-> 2, maxImpact |-> 2, cooldown |-> 1, interval |-> 0, skew |-> 0,
     priceAge |-> 1, quoteAge |-> 0, balanceAge |-> 1, liquidityAge |-> 1, feeAge |-> 1,
     actionAge |-> 1, includeUnrealized |-> TRUE, globalPause |-> FALSE,
     emergencyStop |-> FALSE, nativeDecimals |-> 1,
     lp |-> [pools |-> {<<"dex", "pair">>}, protocols |-> {"dex"}, maxCapital |-> 16,
             minLiquidity |-> 1, maxRebalances |-> 1, maxSlippage |-> 2, maxGas |-> 1,
             minClaim |-> 1]]

\* The operator's alternatives: tighter limits, and a pause.
MCPolicies ==
    { MCPolicy,
      [MCPolicy EXCEPT !.maxTrade = 4, !.maxDeployed = 8, !.maxDailyLoss = 1],
      [MCPolicy EXCEPT !.globalPause = TRUE] }

MCPrices == ("USD" :> {2}) @@ ("A" :> {2, 3}) @@ ("B" :> {2}) @@ ("N" :> {2})

MCPools == {[r0 |-> 8, r1 |-> 8, supply |-> 8], [r0 |-> 6, r1 |-> 10, supply |-> 8]}

MCBankrolls == ("USD" :> {16}) @@ ("A" :> {8}) @@ ("B" :> {0}) @@ ("N" :> {2})

\* DexScreener and GeckoTerminal on one token: pools both of them list, a row of another
\* chain, a malformed one, no liquidity, no price, the token on the quote side.
Row(id, price, liquidity) ==
    [wellFormed |-> TRUE, chain |-> "solana", pool |-> id, base |-> "T", quote |-> "USD",
     dex |-> "d", price |-> price, liquidity |-> liquidity]

MCDexBodies ==
    { << Row("p", 10000, 1), Row("q", 10202, 2) >>,
      << [Row("p", 10000, 2) EXCEPT !.base = "USD", !.quote = "T"], Row("q", 0, 0) >>,
      << [Row("r", 10000, 3) EXCEPT !.chain = "base"],
         [Row("p", 10000, 1) EXCEPT !.wellFormed = FALSE] >> }

MCGeckoBodies ==
    { << Row("p", 10100, 1), Row("q", 10000, -1) >>,
      << [Row("p", 1, 1) EXCEPT !.wellFormed = FALSE], Row("q", 10000, 3) >> }

\* A ladder of fifteen ticks: each ratio about a tenth above the one before.
MCRatio ==
    LET up == <<33, 36, 40, 44, 48, 53, 58, 64, 70, 77, 85, 94, 103, 113, 125>>
    IN  [t \in -7..7 |-> up[t + 8]]

MCMinTick == -7

\* Prices on a tick, next to one and between two; widths from nothing to the whole
\* ladder; spacings that do and do not divide its ends; capital on one side or both.
MCPlanRequests ==
    [price : {33, 34, 44, 52, 53, 63, 64, 65, 84, 103, 112, 113, 124}, width : {0, 12, 30, 80, 800},
     spacing : {1, 2, 3, 5}, outward : BOOLEAN, amount0 : {0, 1, 7, 23}, amount1 : {0, 3, 11},
     slippage : {3}]

-----------------------------------------------------------------------------
MCInit ==
    /\ scene \in Scenes /\ Init /\ MarketInit /\ RangesInit
    /\ scene # "books" => chain = "solana"

BooksScene == scene = "books" /\ Next /\ UNCHANGED <<scene, marketVars, rangeVars>>
MarketScene == scene = "market" /\ MarketNext /\ UNCHANGED <<scene, vars, rangeVars>>
PlansScene == scene = "plans" /\ PlansNext /\ UNCHANGED <<scene, vars, marketVars>>
RangesScene == scene = "ranges" /\ BooksNext /\ UNCHANGED <<scene, vars, marketVars>>

MCNext == BooksScene \/ MarketScene \/ PlansScene \/ RangesScene
MCSpec == MCInit /\ [][MCNext]_<<scene, vars, marketVars, rangeVars>>
=============================================================================
