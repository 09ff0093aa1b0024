----------------------------- MODULE RiskProofs -----------------------------
(***************************************************************************)
(* The risk engine, the PAPER books, the range positions and the market    *)
(* readings, for any tokens, prices, pools and policies.                   *)
(*                                                                         *)
(* Engine and books: an OK means that every check passed; an entry the     *)
(* gate allows keeps the caps in the books, because a proposal that waits  *)
(* for the gate still carries what the books say (CycleWaits) and the      *)
(* executors book what the engine valued, rounded against the trade.       *)
(* What the books earn: counted in parts of a micro-USD so small that      *)
(* nothing is rounded, a fill quoted at the market as it is costs them its *)
(* gas at least, but for the rounded cost of a purchase.                   *)
(* Exits: no tier of the engine but the comparison with the market can     *)
(* refuse one, and that only for what its own roundings take.              *)
(* Range books: each event changes its row by what it records.             *)
(* Plans: the search for a tick finds the greatest one, the alignments are *)
(* multiples of the spacing, and every rounding of the plan is below the   *)
(* pool's.                                                                 *)
(* Market: a sort is a permutation in order, so a list of both providers   *)
(* has each pool at most twice, and the two prices of a reading are its    *)
(* least and its greatest.                                                 *)
(***************************************************************************)
EXTENDS PaperBooks, Market, Ranges, Sums, SequenceTheorems, TLAPS

-----------------------------------------------------------------------------
(* Integer money.                                                          *)

\* Division of naturals.
LEMMA Division ==
  ASSUME NEW a \in Nat, NEW b \in Nat \ {0}
  PROVE  a \div b \in Nat /\ b * (a \div b) <= a /\ a < b * (a \div b) + b
  OBVIOUS

\* A fraction of naturals, rounded down and up.
LEMMA Fraction ==
  ASSUME NEW a \in Nat, NEW b \in Nat \ {0}
  PROVE  /\ FloorDiv(a, b) \in Nat /\ CeilDiv(a, b) \in Nat
         /\ FloorDiv(a, b) <= CeilDiv(a, b)
<1>1. FloorDiv(a, b) = a \div b /\ a \div b \in Nat
  BY Division DEF FloorDiv
<1>2. CASE a = 0
  BY <1>1, <1>2 DEF CeilDiv
<1>3. CASE a > 0
  <2>1. a + b - 1 \in Nat /\ CeilDiv(a, b) = (a + b - 1) \div b
    BY <1>3 DEF CeilDiv
  <2> DEFINE q == a \div b  r == (a + b - 1) \div b
  <2>2. q \in Nat /\ r \in Nat /\ b * q <= a /\ a + b - 1 < b * r + b
    BY <2>1, Division
  <2>3. q <= r
    <3> HIDE DEF q, r
    <3>1. SUFFICES ASSUME q >= r + 1 PROVE FALSE
      BY <2>2
    <3>2. b * q >= b * (r + 1)
      BY <2>2, <3>1
    <3>3. b * (r + 1) = b * r + b
      BY <2>2
    <3>4. b * q \in Int /\ b * r \in Int
      BY <2>2
    <3> QED
      BY <2>2, <3>2, <3>3, <3>4
  <2> QED
    BY <1>1, <2>1, <2>2, <2>3
<1> QED
  BY <1>2, <1>3

LEMMA FractionOfInt ==
  ASSUME NEW a \in Int, NEW b \in Nat \ {0}
  PROVE  FloorDiv(a, b) \in Int /\ CeilDiv(a, b) \in Int
<1>1. CASE a >= 0
  BY <1>1, Fraction
<1>2. CASE a < 0
  <2>1. (-a) \div b \in Nat
    BY <1>2, Division
  <2> QED
    BY <1>2, <2>1 DEF FloorDiv, CeilDiv
<1> QED
  BY <1>1, <1>2

\* The part of a cost that goes with the part of a holding that is sold.
LEMMA PartOfCost ==
  ASSUME NEW cost \in Nat, NEW whole \in Nat \ {0}, NEW part \in Nat, part <= whole
  PROVE  CeilDiv(cost * part, whole) \in 0 .. cost
<1>1. cost * part \in Nat /\ cost * part <= cost * whole /\ cost * whole \in Nat
  OBVIOUS
<1>2. CASE cost * part = 0
  BY <1>2, Division DEF CeilDiv, FloorDiv
<1>3. CASE cost * part > 0
  <2> DEFINE n == cost * part + whole - 1
             q == n \div whole
  <2>1. CeilDiv(cost * part, whole) = q
    BY <1>1, <1>3 DEF CeilDiv
  <2>2. n \in Nat
    BY <1>1, <1>3
  <2>3. q \in Nat /\ whole * q <= n
    BY <2>2, Division
  <2>4. n < cost * whole + whole
    BY <1>1
  <2>5. q <= cost
    <3> HIDE DEF q, n
    <3>1. SUFFICES ASSUME q >= cost + 1 PROVE FALSE
      BY <2>3
    <3>2. whole * q >= whole * (cost + 1)
      BY <2>3, <3>1
    <3>3. whole * (cost + 1) = cost * whole + whole
      OBVIOUS
    <3>4. whole * q \in Int
      BY <2>3
    <3> QED
      BY <1>1, <2>2, <2>3, <2>4, <3>2, <3>3, <3>4
  <2> QED
    BY <2>1, <2>3, <2>5
<1> QED
  BY <1>1, <1>2, <1>3

\* What an amount is worth: no less rounded up than down.
LEMMA WorthIsMoney ==
  ASSUME NEW t \in Tokens, NEW amount \in Nat, NEW prices, prices[t] \in Nat
  PROVE  /\ Worth(t, amount, prices, "floor") \in Nat
         /\ Worth(t, amount, prices, "ceil") \in Nat
         /\ Worth(t, amount, prices, "floor") <= Worth(t, amount, prices, "ceil")
<1>1. amount * prices[t] \in Nat
  OBVIOUS
<1>2. Ten^Decimals[t] \in Nat \ {0}
  BY BooksAssumption
<1> QED
  BY <1>1, <1>2, Fraction DEF Worth, NativeToUsd

-----------------------------------------------------------------------------
(* The verdict.                                                            *)

\* The codes of engine.ts; an action that is allowed has none of them.
Codes ==
   {"SCHEMA_INVALID", "EMERGENCY_STOP", "GLOBAL_PAUSE", "MODE_MISMATCH",
    "LIVE_NOT_ACTIVATED", "CHAIN_UNSUPPORTED", "POOL_NOT_ALLOWLISTED",
    "LP_CAPITAL_EXCEEDS_MAX", "DATA_STALE", "TOKEN_NOT_ALLOWLISTED",
    "PROTOCOL_NOT_ALLOWLISTED", "CONTRACT_UNKNOWN", "REDUCE_ONLY_MISMATCH",
    "SIZE_EXCEEDS_MAX_TRADE", "DAILY_LOSS_BREACHED", "TOTAL_DEPLOYED_BREACHED",
    "SLIPPAGE_EXCEEDS_MAX", "QUOTE_OFF_MARKET", "FEE_EXCEEDS_MAX", "LIQUIDITY_BELOW_MIN",
    "COOLDOWN_ACTIVE", "BALANCE_INSUFFICIENT", "POOL_LIQUIDITY_BELOW_MIN",
    "REBALANCE_LIMIT_REACHED", "FEE_BELOW_CLAIM_THRESHOLD"}

Row == [code : Codes, passed : BOOLEAN]

Checks == Seq(Row)

LEMMA NoCodeIsOK == \A c \in Codes : c # "OK"
  BY DEF Codes

\* The first failure has a code, and it is not OK.
LEMMA VerdictTells ==
  ASSUME NEW s \in Checks
  PROVE  Verdict(s) = "OK" <=> Failures(s) = {}
<1>1. CASE Failures(s) = {}
  BY <1>1 DEF Verdict
<1>2. CASE Failures(s) # {}
  <2>1. Failures(s) \subseteq Nat
    BY DEF Failures, Checks
  <2>2. \E n \in Failures(s) : \A m \in Failures(s) : n <= m
    <3> DEFINE T == Failures(s)
    <3> HIDE DEF T
    <3>1. T \subseteq Nat /\ T # {}
      BY <1>2, <2>1 DEF T
    <3>2. \E n \in T : \A m \in T : n <= m
      BY <3>1, LeastOf
    <3> QED
      BY <3>2 DEF T
  <2> DEFINE first == CHOOSE n \in Failures(s) : \A m \in Failures(s) : n <= m
  <2>3. first \in Failures(s)
    BY <2>2
  <2>4. Verdict(s) = s[first].code
    BY <1>2 DEF Verdict
  <2> HIDE DEF first
  <2>5. first \in DOMAIN s
    BY <2>3 DEF Failures
  <2>6. s[first] \in Row
    BY <2>5 DEF Checks
  <2> QED
    BY <1>2, <2>4, <2>6, NoCodeIsOK DEF Row
<1> QED
  BY <1>1, <1>2

\* A list of checks has a failure where one of its parts has.
LEMMA JoinedChecks ==
  ASSUME NEW s \in Checks, NEW t \in Checks
  PROVE  /\ s \o t \in Checks
         /\ Failures(s \o t) = {} <=> Failures(s) = {} /\ Failures(t) = {}
<1>1. s \o t \in Checks
  BY DEF Checks
<1>2. /\ DOMAIN s = 1 .. Len(s) /\ DOMAIN t = 1 .. Len(t)
      /\ Len(s) \in Nat /\ Len(t) \in Nat
      /\ DOMAIN (s \o t) = 1 .. Len(s) + Len(t)
  BY DEF Checks
<1>3. \A n \in 1 .. Len(s) : (s \o t)[n] = s[n]
  BY DEF Checks
<1>4. \A n \in 1 .. Len(t) : (s \o t)[Len(s) + n] = t[n]
  BY DEF Checks
<1>5. ASSUME Failures(s \o t) = {} PROVE Failures(s) = {} /\ Failures(t) = {}
  <2>1. \A n \in DOMAIN (s \o t) : (s \o t)[n].passed
    BY <1>5 DEF Failures
  <2>2. \A n \in DOMAIN s : s[n].passed
    BY <1>2, <1>3, <2>1
  <2>3. ASSUME NEW n \in DOMAIN t PROVE t[n].passed
    <3>1. Len(s) + n \in DOMAIN (s \o t)
      BY <1>2
    <3> QED
      BY <1>2, <1>4, <2>1, <3>1
  <2> QED
    BY <2>2, <2>3 DEF Failures
<1>6. ASSUME Failures(s) = {}, Failures(t) = {} PROVE Failures(s \o t) = {}
  <2>1. (\A n \in DOMAIN s : s[n].passed) /\ (\A n \in DOMAIN t : t[n].passed)
    BY <1>6 DEF Failures
  <2>2. ASSUME NEW n \in DOMAIN (s \o t) PROVE (s \o t)[n].passed
    <3>1. CASE n <= Len(s)
      BY <1>2, <1>3, <2>1, <3>1
    <3>2. CASE n > Len(s)
      <4>1. n - Len(s) \in 1 .. Len(t) /\ Len(s) + (n - Len(s)) = n
        BY <1>2, <3>2
      <4> QED
        BY <1>2, <1>4, <2>1, <4>1
    <3> QED
      BY <1>2, <3>1, <3>2
  <2> QED
    BY <2>2 DEF Failures
<1> QED
  BY <1>1, <1>5, <1>6

LEMMA CheckIsRow == \A c \in Codes, p \in BOOLEAN : Check(c, p) \in Row
  BY DEF Check, Row

\* Every tier is a list of checks.
LEMMA Tiers ==
  ASSUME NEW i
  PROVE  /\ Tier0(i) \in Checks /\ StructureChecks(i) \in Checks
         /\ FreshnessChecks(i) \in Checks /\ AllowlistChecks(i) \in Checks
         /\ ExposureChecks(i) \in Checks /\ ExecutionChecks(i) \in Checks
         /\ PacingChecks(i) \in Checks /\ BalanceChecks(i) \in Checks
         /\ LpChecks(i) \in Checks
<1>1. Tier0(i) \in Checks
  BY SMTT(30) DEF Tier0, ActionIsValid, Check, Checks, Row, Codes
<1>2. StructureChecks(i) \in Checks
  BY SMTT(30) DEF StructureChecks, Check, Checks, Row, Codes
<1>3. FreshnessChecks(i) \in Checks
  BY SMTT(30) DEF FreshnessChecks, Fresh, PriceFresh, Check, Checks, Row, Codes
<1>4. AllowlistChecks(i) \in Checks
  BY SMTT(30) DEF AllowlistChecks, ContractAllowed, Check, Checks, Row, Codes
<1>5. ExposureChecks(i) \in Checks
  BY SMTT(30) DEF ExposureChecks, Check, Checks, Row, Codes
<1>6. ExecutionChecks(i) \in Checks
  BY SMTT(30) DEF ExecutionChecks, AtMost, Check, Checks, Row, Codes
<1>7. PacingChecks(i) \in Checks
  BY SMTT(30) DEF PacingChecks, Check, Checks, Row, Codes
<1>8. BalanceChecks(i) \in Checks
  BY SMTT(30) DEF BalanceChecks, AtLeast, Check, Checks, Row, Codes
<1>9. LpChecks(i) \in Checks
  BY SMTT(30) DEF LpChecks, AtMost, AtLeast, Check, Checks, Row, Codes
<1> QED
  BY <1>1, <1>2, <1>3, <1>4, <1>5, <1>6, <1>7, <1>8, <1>9

\* The engine allows an action exactly when each check of each tier passes, the tier of the
\* liquidity actions included when it is one (engine.ts evaluate).
THEOREM OkMeansEveryCheck ==
  ASSUME NEW i
  PROVE  Evaluate(i) = "OK" <=>
           /\ Failures(Tier0(i)) = {} /\ Failures(StructureChecks(i)) = {}
           /\ Failures(FreshnessChecks(i)) = {} /\ Failures(AllowlistChecks(i)) = {}
           /\ Failures(ExposureChecks(i)) = {} /\ Failures(ExecutionChecks(i)) = {}
           /\ Failures(PacingChecks(i)) = {} /\ Failures(BalanceChecks(i)) = {}
           /\ IsLp(i.action) => Failures(LpChecks(i)) = {}
<1> DEFINE s0 == Tier0(i)  s1 == StructureChecks(i)  s2 == FreshnessChecks(i)
           s3 == AllowlistChecks(i)  s4 == ExposureChecks(i)  s5 == ExecutionChecks(i)
           s6 == PacingChecks(i)  s7 == BalanceChecks(i)
           s8 == IF IsLp(i.action) THEN LpChecks(i) ELSE << >>
<1>1. /\ s0 \in Checks /\ s1 \in Checks /\ s2 \in Checks /\ s3 \in Checks /\ s4 \in Checks
      /\ s5 \in Checks /\ s6 \in Checks /\ s7 \in Checks
  BY Tiers
<1>2. s8 \in Checks
  BY Tiers DEF Checks
<1>3. Failures(s8) = {} <=> (IsLp(i.action) => Failures(LpChecks(i)) = {})
  <2>1. Failures(<< >>) = {}
    BY DEF Failures
  <2> QED
    BY <2>1
<1>4. Evaluate(i) = IF Failures(s0) # {} THEN Verdict(s0)
                    ELSE Verdict(s1 \o s2 \o s3 \o s4 \o s5 \o s6 \o s7 \o s8)
  BY DEF Evaluate, RemainingChecks
<1> HIDE DEF s0, s1, s2, s3, s4, s5, s6, s7, s8
<1> DEFINE t2 == s1 \o s2  t3 == t2 \o s3  t4 == t3 \o s4  t5 == t4 \o s5
           t6 == t5 \o s6  t7 == t6 \o s7  t8 == t7 \o s8
<1>5. t2 \in Checks /\ (Failures(t2) = {} <=> Failures(s1) = {} /\ Failures(s2) = {})
  BY <1>1, JoinedChecks
<1>6. t3 \in Checks /\ (Failures(t3) = {} <=> Failures(t2) = {} /\ Failures(s3) = {})
  <2> HIDE DEF t2
  <2> QED BY <1>1, <1>5, JoinedChecks
<1>7. t4 \in Checks /\ (Failures(t4) = {} <=> Failures(t3) = {} /\ Failures(s4) = {})
  <2> HIDE DEF t3
  <2> QED BY <1>1, <1>6, JoinedChecks
<1>8. t5 \in Checks /\ (Failures(t5) = {} <=> Failures(t4) = {} /\ Failures(s5) = {})
  <2> HIDE DEF t4
  <2> QED BY <1>1, <1>7, JoinedChecks
<1>9. t6 \in Checks /\ (Failures(t6) = {} <=> Failures(t5) = {} /\ Failures(s6) = {})
  <2> HIDE DEF t5
  <2> QED BY <1>1, <1>8, JoinedChecks
<1>10. t7 \in Checks /\ (Failures(t7) = {} <=> Failures(t6) = {} /\ Failures(s7) = {})
  <2> HIDE DEF t6
  <2> QED BY <1>1, <1>9, JoinedChecks
<1>11. t8 \in Checks /\ (Failures(t8) = {} <=> Failures(t7) = {} /\ Failures(s8) = {})
  <2> HIDE DEF t7
  <2> QED BY <1>2, <1>10, JoinedChecks
<1>12. Evaluate(i) = IF Failures(s0) # {} THEN Verdict(s0) ELSE Verdict(t8)
  BY <1>4
<1> HIDE DEF t2, t3, t4, t5, t6, t7, t8
<1>13. Verdict(s0) = "OK" <=> Failures(s0) = {}
  BY <1>1, VerdictTells
<1>14. Verdict(t8) = "OK" <=> Failures(t8) = {}
  BY <1>11, VerdictTells
<1>15. Evaluate(i) = "OK" <=> Failures(s0) = {} /\ Failures(t8) = {}
  BY <1>12, <1>13, <1>14
<1>16. Failures(t8) = {} <=>
         /\ Failures(s1) = {} /\ Failures(s2) = {} /\ Failures(s3) = {} /\ Failures(s4) = {}
         /\ Failures(s5) = {} /\ Failures(s6) = {} /\ Failures(s7) = {} /\ Failures(s8) = {}
  BY <1>5, <1>6, <1>7, <1>8, <1>9, <1>10, <1>11
<1> QED
  BY <1>3, <1>15, <1>16 DEF s0, s1, s2, s3, s4, s5, s6, s7

-----------------------------------------------------------------------------
(* The books, and the proposal that waits for the gate.                    *)

\* Nothing held costs nothing, and nothing is dated before its price exists.
BooksTypes ==
  /\ pos \in [Tokens -> [amount : Nat, basis : Nat]]
  /\ \A t \in Tokens : pos[t].amount = 0 => pos[t].basis = 0
  /\ lp \in [tokens : Nat, capital : Nat]
  /\ lp.tokens = 0 => lp.capital = 0
  /\ market \in [Tokens -> Nat \ {0}]
  /\ pool \in Pools
  /\ policy \in Policies \union {FirstPolicy}

\* A swap between two tokens that the proposal priced.
SwapWaits(c) ==
  /\ c.action.kind = "swap" /\ c.action.amountIn \in Nat
  /\ \E in, out \in Tokens :
        /\ in # out /\ {in, out} \subseteq c.priced
        /\ c.action.tokenIn = Ref(in) /\ c.action.tokenOut = Ref(out)
  /\ c.action.quote.expected \in Int /\ c.action.quote.slippage \in Nat
  /\ c.snap.lp = Missing

\* An add of the plan's amounts to the pool, beside the position as it is now.
AddWaits(c) ==
  /\ c.action.kind = "lp_add"
  /\ c.plan.a0 \in Nat /\ c.plan.a1 \in Nat /\ c.pool \in Pools
  /\ {Token0, Token1} \subseteq c.priced
  /\ c.action.tokenIn = Ref(Token0) /\ c.action.amountIn = c.plan.a0
  /\ c.action.tokenOut = Ref(Token1) /\ c.action.lp.amountB = c.plan.a1
  /\ c.action.lp.pool = Pool
  /\ c.snap.lp = LpSnapshot

RemoveWaits(c) ==
  c.action.kind = "lp_remove" /\ c.plan.tokens \in Nat /\ c.pool \in Pools

\* Every built proposal is one of the three, and what it carries is priced.
Built(c) ==
  /\ c.stage = "built"
  /\ c.priced \subseteq Tokens
  /\ \A t \in c.priced : c.snap.prices[t].value \in Nat
  /\ SwapWaits(c) \/ AddWaits(c) \/ RemoveWaits(c)

\* What a cycle carries from one step to the next.
CycleWaits ==
  cycle # Missing =>
    /\ cycle.stage = "read" => cycle.pool \in Pools /\ cycle.prices \in [Tokens -> Nat \ {0}]
    /\ cycle.stage = "built" => Built(cycle)

RiskInv == BooksTypes /\ CycleWaits

\* The sets the model picks from have a least element.
LEMMA LeastIsOne == ASSUME NEW S \in SUBSET Nat, S # {} PROVE Min(S) \in S
<1>1. \E n \in S : \A m \in S : n <= m
  BY LeastOf
<1> QED
  BY <1>1 DEF Min

LEMMA LesserOfTwo == ASSUME NEW x \in Int, NEW y \in Int PROVE Min({x, y}) \in Int
<1>1. \E n \in {x, y} : \A m \in {x, y} : n <= m
  OBVIOUS
<1>2. Min({x, y}) \in {x, y}
  BY <1>1 DEF Min
<1> QED
  BY <1>2

LEMMA InitRisk == Init => RiskInv
<1> SUFFICES ASSUME Init PROVE RiskInv
  OBVIOUS
<1>1. market \in [Tokens -> Nat \ {0}]
  <2>1. \A t \in Tokens : Min(Prices[t]) \in Nat \ {0}
    <3> SUFFICES ASSUME NEW t \in Tokens PROVE Min(Prices[t]) \in Nat \ {0}
      OBVIOUS
    <3>1. Prices[t] \subseteq Nat \ {0} /\ Prices[t] # {}
      BY BooksAssumption
    <3>2. Min(Prices[t]) \in Prices[t]
      BY <3>1, LeastIsOne
    <3> QED
      BY <3>1, <3>2
  <2> QED
    BY <2>1 DEF Init
<1>2. BooksTypes
  BY <1>1 DEF Init, BooksTypes
<1>3. CycleWaits
  BY DEF Init, CycleWaits
<1> QED
  BY <1>2, <1>3 DEF RiskInv

\* The clock, the market, the pool, the operator and the cycle's own building leave the
\* position and the cost of the holdings alone.
BooksRest == UNCHANGED <<pos, lp>>

LEMMA OnlyTheGateBooks ==
  ASSUME [Next]_vars
  PROVE  Decide \/ BooksRest
<1>1. ASSUME NEW d \in {"OPEN", "REDUCE", "CLOSE"}, NEW t \in Tokens, NEW n \in Notionals,
             NEW short \in {0, 1}, BuildSwap(d, t, n, short)
      PROVE  BooksRest
  BY <1>1 DEF BuildSwap, books, BooksRest
<1>2. ASSUME NEW d \in {"ADD_LIQUIDITY", "REMOVE_LIQUIDITY", "EXIT", "HOLD"}, NEW n \in Notionals,
             BuildLp(d, n)
      PROVE  BooksRest
  BY <1>2 DEF BuildLp, books, BooksRest
<1>3. CASE ReadPool \/ Tick
  BY <1>3 DEF ReadPool, Tick, books, BooksRest
<1>4. ASSUME NEW t \in Tokens, NEW p \in Prices[t], MovePrice(t, p) PROVE BooksRest
  BY <1>4 DEF MovePrice, books, BooksRest
<1>5. ASSUME NEW p \in Pools, MovePool(p) PROVE BooksRest
  BY <1>5 DEF MovePool, books, BooksRest
<1>6. ASSUME NEW p \in Policies, UpdatePolicy(p) PROVE BooksRest
  BY <1>6 DEF UpdatePolicy, books, BooksRest
<1>7. ASSUME NEW t \in Tokens, NEW amount \in Bankrolls[t], SetPaperBalance(t, amount)
      PROVE  BooksRest
  BY <1>7 DEF SetPaperBalance, BooksRest
<1>8. CASE UNCHANGED vars
  BY <1>8 DEF vars, BooksRest
<1> QED
  BY <1>1, <1>2, <1>3, <1>4, <1>5, <1>6, <1>7, <1>8 DEF Next

\* The market, the pool and the policy stay what they may be.
LEMMA WorldStays ==
  ASSUME BooksTypes, [Next]_vars
  PROVE  /\ market' \in [Tokens -> Nat \ {0}] /\ pool' \in Pools
         /\ policy' \in Policies \union {FirstPolicy}
<1> USE DEF BooksTypes
<1>1. ASSUME UNCHANGED <<market, pool, policy>>
      PROVE  /\ market' \in [Tokens -> Nat \ {0}] /\ pool' \in Pools
             /\ policy' \in Policies \union {FirstPolicy}
  BY <1>1
<1>2. ASSUME NEW d \in {"OPEN", "REDUCE", "CLOSE"}, NEW t \in Tokens, NEW n \in Notionals,
             NEW short \in {0, 1}, BuildSwap(d, t, n, short)
      PROVE  UNCHANGED <<market, pool, policy>>
  BY <1>2 DEF BuildSwap, world
<1>3. ASSUME NEW d \in {"ADD_LIQUIDITY", "REMOVE_LIQUIDITY", "EXIT", "HOLD"}, NEW n \in Notionals,
             BuildLp(d, n)
      PROVE  UNCHANGED <<market, pool, policy>>
  BY <1>3 DEF BuildLp, world
<1>4. CASE ReadPool \/ Tick
  BY <1>1, <1>4 DEF ReadPool, Tick, world
<1>5. ASSUME NEW t \in Tokens, NEW p \in Prices[t], MovePrice(t, p)
      PROVE  /\ market' \in [Tokens -> Nat \ {0}] /\ pool' \in Pools
             /\ policy' \in Policies \union {FirstPolicy}
  <2>1. p \in Nat \ {0}
    BY BooksAssumption
  <2> QED
    BY <1>5, <2>1 DEF MovePrice
<1>6. ASSUME NEW p \in Pools, MovePool(p)
      PROVE  /\ market' \in [Tokens -> Nat \ {0}] /\ pool' \in Pools
             /\ policy' \in Policies \union {FirstPolicy}
  BY <1>6 DEF MovePool
<1>7. ASSUME NEW p \in Policies, UpdatePolicy(p)
      PROVE  /\ market' \in [Tokens -> Nat \ {0}] /\ pool' \in Pools
             /\ policy' \in Policies \union {FirstPolicy}
  BY <1>7 DEF UpdatePolicy, world
<1>8. ASSUME NEW t \in Tokens, NEW amount \in Bankrolls[t], SetPaperBalance(t, amount)
      PROVE  UNCHANGED <<market, pool, policy>>
  BY <1>8 DEF SetPaperBalance, world
<1>9. CASE Decide
  BY <1>1, <1>9 DEF Decide, world
<1>10. CASE UNCHANGED vars
  BY <1>1, <1>10 DEF vars
<1> QED
  BY <1>1, <1>2, <1>3, <1>4, <1>5, <1>6, <1>7, <1>8, <1>9, <1>10 DEF Next

LEMMA Stamps ==
  ASSUME NEW tokens \in SUBSET Tokens, NEW prices \in [Tokens -> Nat \ {0}], NEW at
  PROVE  \A t \in tokens : PriceStamps(tokens, prices, at)[t].value \in Nat
BY DEF PriceStamps, Stamp

LEMMA PolicyIsTyped ==
  ASSUME BooksTypes
  PROVE  /\ policy.maxDeployed \in Nat /\ policy.maxSlippage \in Nat
         /\ policy.lp.maxCapital \in Nat /\ policy.lp.maxSlippage \in Nat
BY BooksAssumption DEF BooksTypes

LEMMA SwapIsBuilt ==
  ASSUME BooksTypes, NEW in \in Tokens, NEW out \in Tokens, in # out,
         NEW amount \in Nat, NEW expected \in Int, NEW isExit
  PROVE  Built(SwapProposal(in, out, amount, expected, isExit))
<1> DEFINE c == SwapProposal(in, out, amount, expected, isExit)
<1>1. c.stage = "built" /\ c.priced = {in, out, Native} /\ c.priced \subseteq Tokens
  BY BooksAssumption DEF SwapProposal
<1>2. c.snap.prices = PriceStamps({in, out, Native}, market, clock) /\ c.snap.lp = Missing
  BY DEF SwapProposal
<1>3. \A t \in c.priced : c.snap.prices[t].value \in Nat
  BY <1>1, <1>2, Stamps DEF BooksTypes
<1>4. /\ c.action.kind = "swap" /\ c.action.amountIn = amount
      /\ c.action.tokenIn = Ref(in) /\ c.action.tokenOut = Ref(out)
      /\ c.action.quote = Quote(expected, policy.maxSlippage)
  BY DEF SwapProposal, Keyed, Base
<1>5. c.action.quote.expected = expected /\ c.action.quote.slippage = policy.maxSlippage
  BY <1>4 DEF Quote
<1> HIDE DEF c
<1>6. SwapWaits(c)
  BY <1>1, <1>2, <1>4, <1>5, PolicyIsTyped DEF SwapWaits
<1> QED
  BY <1>1, <1>3, <1>6 DEF Built, c

\* What the venue pays is an integer, and so is what buys an amount of dollars.
LEMMA FairIsInteger ==
  ASSUME BooksTypes, NEW in \in Tokens, NEW out \in Tokens, NEW amount \in Nat
  PROVE  Fair(in, out, amount) \in Int
<1> DEFINE ti == Ten^Decimals[in]  to == Ten^Decimals[out]  mi == market[in]  mo == market[out]
<1>1. ti \in Nat \ {0} /\ to \in Nat \ {0} /\ mi \in Nat \ {0} /\ mo \in Nat \ {0}
  BY BooksAssumption DEF BooksTypes
<1>2. Fair(in, out, amount) = FloorDiv(amount * mi * to, mo * ti)
  BY DEF Fair
<1> HIDE DEF ti, to, mi, mo
<1>3. amount * mi * to \in Nat /\ mo * ti \in Nat \ {0}
  BY <1>1
<1> QED
  BY <1>2, <1>3, Fraction

LEMMA UnitsAreNatural ==
  ASSUME NEW t \in Tokens, NEW usd \in Nat, NEW price \in Nat \ {0}
  PROVE  UsdToTokenUnits(usd, Decimals[t], price) \in Nat
<1> DEFINE scale == Ten^Decimals[t]
<1>1. scale \in Nat \ {0}
  BY BooksAssumption
<1>2. UsdToTokenUnits(usd, Decimals[t], price) = FloorDiv(usd * scale, price)
  BY DEF UsdToTokenUnits
<1> HIDE DEF scale
<1>3. usd * scale \in Nat
  BY <1>1
<1> QED
  BY <1>2, <1>3, Fraction

LEMMA BuildSwapWaits ==
  ASSUME BooksTypes, NEW decision \in {"OPEN", "REDUCE", "CLOSE"}, NEW token \in Tokens,
         NEW notional \in Notionals, NEW short \in {0, 1},
         BuildSwap(decision, token, notional, short)
  PROVE  Built(cycle')
<1> DEFINE isExit == decision \in {"REDUCE", "CLOSE"}
<1>1. PICK funding \in Funding(token, isExit) :
         LET in == IF isExit THEN token ELSE funding
             out == IF isExit THEN funding ELSE token
             amount == SwapAmount(decision, token, in, notional)
             expected == Fair(in, out, amount) - short
         IN  /\ amount > 0 /\ expected > 0
             /\ cycle' = SwapProposal(in, out, amount, expected, isExit)
  BY DEF BuildSwap
<1> DEFINE in == IF isExit THEN token ELSE funding
           out == IF isExit THEN funding ELSE token
           amount == SwapAmount(decision, token, in, notional)
           expected == Fair(in, out, amount) - short
<1>2. funding \in Tokens /\ funding # token
  BY BooksAssumption DEF Funding
<1>3. in \in Tokens /\ out \in Tokens /\ in # out
  BY <1>2
<1>4. cycle' = SwapProposal(in, out, amount, expected, isExit)
  BY <1>1
<1> HIDE DEF in, out
<1>5. amount \in Nat
  <2>1. pos[token].amount \in Nat /\ market[in] \in Nat \ {0} /\ notional \in Nat
    BY <1>3, BooksAssumption DEF BooksTypes
  <2>2. UsdToTokenUnits(notional, Decimals[in], market[in]) \in Nat
    BY <1>3, <2>1, UnitsAreNatural
  <2> QED
    BY <2>1, <2>2 DEF SwapAmount
<1>6. expected \in Int
  <2> HIDE DEF amount
  <2>1. Fair(in, out, amount) \in Int
    BY <1>3, <1>5, FairIsInteger
  <2> QED
    BY <2>1
<1> HIDE DEF amount, expected, isExit
<1> QED
  BY <1>3, <1>4, <1>5, <1>6, SwapIsBuilt

LEMMA LpIsBuilt ==
  ASSUME BooksTypes, NEW action, NEW read, read.prices \in [Tokens -> Nat \ {0}], NEW plan,
         NEW c, c = LpProposal(action, read, plan)
  PROVE  /\ c.stage = "built" /\ c.priced = {Token0, Token1, Native} /\ c.priced \subseteq Tokens
         /\ \A t \in c.priced : c.snap.prices[t].value \in Nat
         /\ c.action = Keyed(action) /\ c.plan = plan /\ c.pool = read.pool
         /\ c.snap.lp = LpSnapshot
<1>1. c.stage = "built" /\ c.priced = {Token0, Token1, Native} /\ c.priced \subseteq Tokens
  BY BooksAssumption DEF LpProposal
<1>2. /\ c.snap.prices = PriceStamps({Token0, Token1, Native}, read.prices, read.at)
      /\ c.snap.lp = LpSnapshot
      /\ c.action = Keyed(action) /\ c.plan = plan /\ c.pool = read.pool
  BY DEF LpProposal
<1>3. \A t \in c.priced : c.snap.prices[t].value \in Nat
  BY <1>1, <1>2, Stamps
<1> QED
  BY <1>1, <1>2, <1>3

LEMMA AddWaitsForTheGate ==
  ASSUME BooksTypes, NEW read, read.prices \in [Tokens -> Nat \ {0}], read.pool \in Pools,
         NEW capital \in Nat, AddLiquidity(read, capital)
  PROVE  Built(cycle')
<1> DEFINE half == capital \div 2
           desired0 == UsdToTokenUnits(half, Decimals[Token0], read.prices[Token0])
           desired1 == UsdToTokenUnits(capital - half, Decimals[Token1], read.prices[Token1])
           q == V2AddQuote(pool, desired0, desired1)
           quote == Quote(q.minted, policy.lp.maxSlippage)
           action == [Base("lp_add", Token0, Token1, q.a0, quote, Router)
                         EXCEPT !.lp = [LpLeg EXCEPT !.amountB = q.a1]]
           plan == [kind |-> "add", a0 |-> q.a0, a1 |-> q.a1, min |-> quote.min]
<1>1. q.a0 > 0 /\ q.a1 > 0 /\ cycle' = LpProposal(action, read, plan)
  BY DEF AddLiquidity
<1>2. desired0 \in Nat /\ desired1 \in Nat
  <2>1. half \in Nat /\ capital - half \in Nat
    <3>1. capital \div 2 \in Nat /\ 2 * (capital \div 2) <= capital
      BY Division
    <3> QED
      BY <3>1
  <2>2. /\ Token0 \in Tokens /\ read.prices[Token0] \in Nat \ {0}
        /\ Token1 \in Tokens /\ read.prices[Token1] \in Nat \ {0}
    BY BooksAssumption
  <2> HIDE DEF half
  <2> QED
    BY <2>1, <2>2, UnitsAreNatural
<1>3. q.a0 \in Nat /\ q.a1 \in Nat
  <2> HIDE DEF desired0, desired1
  <2>1. pool.r0 \in Nat \ {0} /\ pool.r1 \in Nat \ {0}
    BY BooksAssumption DEF BooksTypes
  <2>2. desired0 * pool.r1 \in Nat /\ desired1 * pool.r0 \in Nat
    BY <1>2, <2>1
  <2>3. FloorDiv(desired0 * pool.r1, pool.r0) \in Nat /\ FloorDiv(desired1 * pool.r0, pool.r1) \in Nat
    BY <2>1, <2>2, Fraction
  <2> QED
    BY <1>2, <2>3 DEF V2AddQuote
<1> DEFINE c == LpProposal(action, read, plan)
<1>4. /\ c.stage = "built" /\ c.priced = {Token0, Token1, Native} /\ c.priced \subseteq Tokens
      /\ \A t \in c.priced : c.snap.prices[t].value \in Nat
      /\ c.action = Keyed(action) /\ c.plan = plan /\ c.pool = read.pool
      /\ c.snap.lp = LpSnapshot
  <2>1. c = LpProposal(action, read, plan)
    OBVIOUS
  <2> HIDE DEF action, plan, c
  <2> QED
    BY <2>1, LpIsBuilt
<1>5. /\ plan.a0 = q.a0 /\ plan.a1 = q.a1
      /\ action.kind = "lp_add" /\ action.tokenIn = Ref(Token0) /\ action.tokenOut = Ref(Token1)
      /\ action.amountIn = q.a0 /\ action.lp.amountB = q.a1 /\ action.lp.pool = Pool
  <2> HIDE DEF q, quote
  <2> QED
    BY DEF Base, LpLeg
<1>6. /\ Keyed(action).kind = action.kind /\ Keyed(action).tokenIn = action.tokenIn
      /\ Keyed(action).tokenOut = action.tokenOut /\ Keyed(action).amountIn = action.amountIn
      /\ Keyed(action).lp = action.lp
  <2> HIDE DEF q, quote
  <2> QED
    BY DEF Keyed, Base
<1> HIDE DEF q, quote, action, plan, c
<1>7. AddWaits(c)
  BY <1>3, <1>4, <1>5, <1>6 DEF AddWaits
<1> QED
  BY <1>1, <1>4, <1>7 DEF Built, c

LEMMA RemoveWaitsForTheGate ==
  ASSUME BooksTypes, NEW read, read.prices \in [Tokens -> Nat \ {0}], read.pool \in Pools,
         NEW all \in BOOLEAN, RemoveLiquidity(read, all)
  PROVE  Built(cycle')
<1> DEFINE half == lp.tokens \div 2
           tokens == IF all \/ half = 0 THEN lp.tokens ELSE half
           share == ShareOfReserves(pool, tokens)
           quote == Quote(share.a1, policy.lp.maxSlippage)
           action == [Base("lp_remove", Token0, Token1, share.a0, quote, Router)
                         EXCEPT !.lp = [LpLeg EXCEPT !.lpTokens = tokens]]
           plan == [kind |-> "remove", tokens |-> tokens,
                    min0 |-> Minimum(share.a0, policy.lp.maxSlippage), min1 |-> quote.min]
<1>1. cycle' = LpProposal(action, read, plan)
  BY DEF RemoveLiquidity
<1>2. tokens \in Nat
  <2>1. lp.tokens \in Nat
    BY DEF BooksTypes
  <2>2. half \in Nat
    BY <2>1, Division
  <2> QED
    BY <2>1, <2>2
<1> DEFINE c == LpProposal(action, read, plan)
<1>3. /\ c.stage = "built" /\ c.priced \subseteq Tokens
      /\ \A t \in c.priced : c.snap.prices[t].value \in Nat
      /\ c.action = Keyed(action) /\ c.plan = plan /\ c.pool = read.pool
  <2>1. c = LpProposal(action, read, plan)
    OBVIOUS
  <2> HIDE DEF half, tokens, share, quote, action, plan, c
  <2>2. /\ c.stage = "built" /\ c.priced = {Token0, Token1, Native} /\ c.priced \subseteq Tokens
        /\ \A t \in c.priced : c.snap.prices[t].value \in Nat
        /\ c.action = Keyed(action) /\ c.plan = plan /\ c.pool = read.pool
        /\ c.snap.lp = LpSnapshot
    BY <2>1, LpIsBuilt
  <2> QED
    BY <2>2
<1> HIDE DEF tokens, share, quote
<1>4. Keyed(action).kind = "lp_remove" /\ plan.tokens = tokens
  BY DEF Keyed, Base
<1> HIDE DEF action, plan, c
<1>5. RemoveWaits(c)
  BY <1>2, <1>3, <1>4 DEF RemoveWaits
<1> QED
  BY <1>1, <1>3, <1>5 DEF Built, c


\* Whatever happens beside it, a cycle carries what it needs to the gate.
LEMMA NextCycleWaits ==
  ASSUME BooksTypes, CycleWaits, [Next]_vars
  PROVE  CycleWaits'
<1>1. ASSUME Built(cycle'), UNCHANGED lp PROVE CycleWaits'
  <2>1. LpSnapshot' = LpSnapshot
    BY <1>1 DEF LpSnapshot
  <2>2. Built(cycle)'
    BY <1>1, <2>1 DEF Built, SwapWaits, AddWaits, RemoveWaits
  <2>3. cycle'.stage = "built"
    BY <1>1 DEF Built
  <2> QED
    BY <2>2, <2>3 DEF CycleWaits
<1>2. ASSUME UNCHANGED <<cycle, lp>> PROVE CycleWaits'
  <2>1. LpSnapshot' = LpSnapshot
    BY <1>2 DEF LpSnapshot
  <2>2. Built(cycle)' <=> Built(cycle)
    BY <1>2, <2>1 DEF Built, SwapWaits, AddWaits, RemoveWaits
  <2> QED
    BY <1>2, <2>2 DEF CycleWaits
<1>3. ASSUME cycle' = Missing PROVE CycleWaits'
  BY <1>3 DEF CycleWaits
<1>4. ASSUME NEW d \in {"OPEN", "REDUCE", "CLOSE"}, NEW t \in Tokens, NEW n \in Notionals,
             NEW short \in {0, 1}, BuildSwap(d, t, n, short)
      PROVE  CycleWaits'
  <2>1. Built(cycle')
    BY <1>4, BuildSwapWaits
  <2>2. UNCHANGED lp
    BY <1>4 DEF BuildSwap, books
  <2> QED
    BY <1>1, <2>1, <2>2
<1>5. CASE ReadPool
  <2>1. cycle'.stage = "read" /\ cycle'.pool = pool /\ cycle'.prices = market
    BY <1>5 DEF ReadPool
  <2> QED
    BY <2>1 DEF BooksTypes, CycleWaits
<1>6. ASSUME NEW d \in {"ADD_LIQUIDITY", "REMOVE_LIQUIDITY", "EXIT", "HOLD"}, NEW n \in Notionals,
             BuildLp(d, n)
      PROVE  CycleWaits'
  <2>1. cycle.pool \in Pools /\ cycle.prices \in [Tokens -> Nat \ {0}] /\ UNCHANGED lp
    BY <1>6 DEF BuildLp, CycleWaits, books
  <2>2. n \in Nat
    BY BooksAssumption
  <2>3. CASE d = "ADD_LIQUIDITY"
    <3>1. AddLiquidity(cycle, n)
      BY <1>6, <2>3 DEF BuildLp
    <3> QED
      BY <1>1, <2>1, <2>2, <3>1, AddWaitsForTheGate
  <2>4. CASE d = "HOLD"
    BY <1>3, <1>6, <2>4 DEF BuildLp
  <2>5. CASE d \in {"REMOVE_LIQUIDITY", "EXIT"}
    <3>1. RemoveLiquidity(cycle, d = "EXIT")
      BY <1>6, <2>5 DEF BuildLp
    <3>2. (d = "EXIT") \in BOOLEAN
      OBVIOUS
    <3> QED
      BY <1>1, <2>1, <3>1, <3>2, RemoveWaitsForTheGate
  <2> QED
    BY <2>3, <2>4, <2>5
<1>7. CASE Tick
  BY <1>2, <1>7 DEF Tick, books
<1>8. ASSUME NEW t \in Tokens, NEW p \in Prices[t], MovePrice(t, p) PROVE CycleWaits'
  BY <1>2, <1>8 DEF MovePrice, books
<1>9. ASSUME NEW p \in Pools, MovePool(p) PROVE CycleWaits'
  BY <1>2, <1>9 DEF MovePool, books
<1>10. ASSUME NEW p \in Policies, UpdatePolicy(p) PROVE CycleWaits'
  BY <1>2, <1>10 DEF UpdatePolicy, books
<1>11. ASSUME NEW t \in Tokens, NEW amount \in Bankrolls[t], SetPaperBalance(t, amount)
       PROVE  CycleWaits'
  BY <1>2, <1>11 DEF SetPaperBalance
<1>12. CASE Decide
  BY <1>3, <1>12 DEF Decide
<1>13. CASE UNCHANGED vars
  BY <1>2, <1>13 DEF vars
<1> QED
  BY <1>4, <1>5, <1>6, <1>7, <1>8, <1>9, <1>10, <1>11, <1>12, <1>13 DEF Next

-----------------------------------------------------------------------------
(* What the executors book.                                                *)

LEMMA LookedUp ==
  ASSUME NEW c, Built(c), NEW t \in c.priced
  PROVE  t \in Tokens /\ Looked(c)[t] = c.snap.prices[t].value /\ Looked(c)[t] \in Nat
BY DEF Built, Looked

\* A sale takes from a position at most what it holds and what that cost.
LEMMA SaleIsCovered ==
  ASSUME NEW p \in [amount : Nat, basis : Nat], p.amount = 0 => p.basis = 0,
         NEW amount \in Nat, NEW proceeds, NEW row, row = ReducePosition(p, amount, proceeds).row
  PROVE  /\ row \in [amount : Nat, basis : Nat]
         /\ row.amount = 0 => row.basis = 0
         /\ row.basis <= p.basis
<1> DEFINE sold == IF amount > p.amount THEN p.amount ELSE amount
           cost == CeilDiv(p.basis * sold, p.amount)
<1>1. p.amount \in Nat /\ p.basis \in Nat
  OBVIOUS
<1>2. CASE p.amount = 0
  BY <1>1, <1>2 DEF ReducePosition
<1>3. CASE p.amount # 0
  <2>1. sold \in Nat /\ sold <= p.amount
    BY <1>1
  <2>2. cost \in 0 .. p.basis
    <3> HIDE DEF sold
    <3> QED
      BY <1>1, <1>3, <2>1, PartOfCost
  <2>3. row = IF sold = p.amount THEN [amount |-> 0, basis |-> 0]
              ELSE [amount |-> p.amount - sold, basis |-> p.basis - cost]
    BY <1>3 DEF ReducePosition
  <2> HIDE DEF sold, cost
  <2>4. p.basis - cost \in Nat /\ p.basis - cost <= p.basis /\ p.amount - sold \in Nat
    BY <1>1, <2>1, <2>2
  <2>5. sold # p.amount => p.amount - sold # 0
    BY <1>1, <2>1
  <2> QED
    BY <1>1, <2>3, <2>4, <2>5
<1> QED
  BY <1>2, <1>3

LEMMA ReceivedIsInteger ==
  ASSUME NEW q, q.expected \in Int, q.slippage \in Nat
  PROVE  Received(q) \in Int
<1>1. q.slippage \div 2 \in Nat /\ PaperExtra \in Nat
  BY BooksAssumption, Division
<1> DEFINE bps == (q.slippage \div 2) + PaperExtra
<1>2. bps \in Nat
  BY <1>1
<1> HIDE DEF bps
<1>3. q.expected * bps \in Int
  BY <1>2
<1>4. BpsOf(q.expected, bps) \in Int
  BY <1>3, ScaleAssumption, FractionOfInt DEF BpsOf
<1> QED
  BY <1>4 DEF Received, bps

\* A swap adds to the cost of what it bought no more than what it paid, rounded down.
LEMMA SwapIsBooked ==
  ASSUME BooksTypes, NEW c, Built(c), SwapWaits(c), PaperSwap(c),
         NEW in \in Tokens, NEW out \in Tokens, in # out, in \in c.priced,
         c.action.tokenIn = Ref(in), c.action.tokenOut = Ref(out)
  PROVE  /\ UNCHANGED lp
         /\ pos' \in [Tokens -> [amount : Nat, basis : Nat]]
         /\ \A t \in Tokens : pos'[t].amount = 0 => pos'[t].basis = 0
         /\ \A t \in Tokens \ {out} : pos'[t].basis <= pos[t].basis
         /\ pos'[out].basis <= pos[out].basis + Worth(in, c.action.amountIn, Looked(c), "floor")
<1> DEFINE a == c.action
           received == Received(a.quote)
           paid == Worth(in, a.amountIn, Looked(c), "floor")
           row == ReducePosition(pos[in], a.amountIn, paid).row
<1>1. a.amountIn \in Nat /\ received \in Int
  <2>1. a.quote.expected \in Int /\ a.quote.slippage \in Nat /\ a.amountIn \in Nat
    BY DEF SwapWaits
  <2> QED
    BY <2>1, ReceivedIsInteger
<1>2. paid \in Nat
  BY <1>1, LookedUp, WorthIsMoney
<1>3. \A t \in Tokens : /\ pos[t] \in [amount : Nat, basis : Nat]
                        /\ pos[t].amount = 0 => pos[t].basis = 0
                        /\ pos[t].amount \in Nat /\ pos[t].basis \in Nat
  BY DEF BooksTypes
<1>4. CASE UNCHANGED <<books, fills>>
  <2>1. UNCHANGED <<pos, lp>>
    BY <1>4 DEF books
  <2> HIDE DEF paid
  <2>2. /\ \A t \in Tokens : pos[t].basis <= pos[t].basis
        /\ pos[out].basis <= pos[out].basis + paid
    BY <1>2, <1>3
  <2> QED
    BY <2>1, <2>2 DEF BooksTypes, paid
<1>5. CASE received > 0 /\ RecordFill(a, received, Looked(c), Fee(c))
  <2>1. a.tokenIn.address = in /\ a.tokenOut.address = out
    BY DEF Ref
  <2>2. /\ pos' = [pos EXCEPT ![in] = row, ![out] = AddPosition(@, received, paid)]
        /\ UNCHANGED lp
    BY <1>5, <2>1 DEF RecordFill
  <2>3. row \in [amount : Nat, basis : Nat] /\ (row.amount = 0 => row.basis = 0)
        /\ row.basis <= pos[in].basis
    <3> HIDE DEF paid
    <3> QED
      BY <1>1, <1>3, SaleIsCovered
  <2> DEFINE bought == AddPosition(pos[out], received, paid)
  <2>4. /\ bought \in [amount : Nat, basis : Nat] /\ bought.amount # 0
        /\ bought.basis = pos[out].basis + paid
    <3> HIDE DEF paid, received
    <3>1. received > 0 /\ received \in Nat
      BY <1>1, <1>5
    <3>2. pos[out].amount + received \in Nat /\ pos[out].amount + received # 0
          /\ pos[out].basis + paid \in Nat
      BY <1>2, <1>3, <3>1
    <3> QED
      BY <3>2 DEF AddPosition
  <2> HIDE DEF row, paid, received
  <2>5. \A t \in Tokens : pos'[t] = IF t = out THEN bought ELSE IF t = in THEN row ELSE pos[t]
    BY <2>2 DEF BooksTypes
  <2>6. pos' \in [Tokens -> [amount : Nat, basis : Nat]]
    <3>1. DOMAIN pos' = Tokens /\ pos' = [t \in Tokens |-> pos'[t]]
      BY <2>2 DEF BooksTypes
    <3> HIDE DEF bought
    <3> QED
      BY <1>3, <2>3, <2>4, <2>5, <3>1
  <2> HIDE DEF bought
  <2>7. \A t \in Tokens : pos'[t].amount = 0 => pos'[t].basis = 0
    BY <1>3, <2>3, <2>4, <2>5
  <2>8. \A t \in Tokens \ {out} : pos'[t].basis <= pos[t].basis
    BY <1>3, <2>3, <2>5
  <2>9. pos'[out].basis <= pos[out].basis + paid
    BY <1>2, <1>3, <2>4, <2>5
  <2> QED
    BY <2>2, <2>6, <2>7, <2>8, <2>9 DEF paid
<1> QED
  <2>1. \/ UNCHANGED <<books, fills>>
        \/ FillIsBooked(a, received) /\ RecordFill(a, received, Looked(c), Fee(c))
    BY DEF PaperSwap
  <2> QED
    BY <1>4, <1>5, <2>1 DEF FillIsBooked

\* An add books what the engine valued.
LEMMA AddIsBooked ==
  ASSUME BooksTypes, NEW c, Built(c), AddWaits(c), PaperAdd(c)
  PROVE  /\ UNCHANGED pos
         /\ lp' \in [tokens : Nat, capital : Nat]
         /\ lp'.tokens = 0 => lp'.capital = 0
         /\ \/ lp' = lp
            \/ lp'.capital = lp.capital + Worth(Token0, c.plan.a0, Looked(c), "ceil")
                                        + Worth(Token1, c.plan.a1, Looked(c), "ceil")
<1> DEFINE minted == Minted(c.pool, c.plan.a0, c.plan.a1)
           w0 == Worth(Token0, c.plan.a0, Looked(c), "ceil")
           w1 == Worth(Token1, c.plan.a1, Looked(c), "ceil")
<1>1. w0 \in Nat /\ w1 \in Nat
  <2>1. c.plan.a0 \in Nat /\ c.plan.a1 \in Nat /\ Token0 \in c.priced /\ Token1 \in c.priced
    BY DEF AddWaits
  <2> QED
    BY <2>1, LookedUp, WorthIsMoney
<1>2. minted \in Int
  <2>1. /\ c.pool.r0 \in Nat \ {0} /\ c.pool.r1 \in Nat \ {0} /\ c.pool.supply \in Nat \ {0}
        /\ c.plan.a0 \in Nat /\ c.plan.a1 \in Nat
    BY BooksAssumption DEF AddWaits
  <2>2. c.plan.a0 * c.pool.supply \in Nat /\ c.plan.a1 * c.pool.supply \in Nat
    BY <2>1
  <2>3. /\ FloorDiv(c.plan.a0 * c.pool.supply, c.pool.r0) \in Int
        /\ FloorDiv(c.plan.a1 * c.pool.supply, c.pool.r1) \in Int
    BY <2>1, <2>2, Fraction
  <2> QED
    BY <2>3, LesserOfTwo DEF Minted
<1>3. lp.tokens \in Nat /\ lp.capital \in Nat
  BY DEF BooksTypes
<1>4. CASE UNCHANGED <<books, fills>>
  BY <1>4 DEF books, BooksTypes
<1>5. CASE minted > 0 /\ BookAdd(minted, w0 + w1) /\ UNCHANGED pos
  <2> HIDE DEF minted, w0, w1
  <2>1. lp' = [tokens |-> lp.tokens + minted, capital |-> lp.capital + (w0 + w1)]
    BY <1>5 DEF BookAdd
  <2>2. /\ lp.tokens + minted \in Nat /\ lp.tokens + minted # 0
        /\ lp.capital + (w0 + w1) \in Nat /\ lp.capital + (w0 + w1) = lp.capital + w0 + w1
    BY <1>1, <1>2, <1>3, <1>5
  <2> QED
    BY <1>5, <2>1, <2>2 DEF w0, w1
<1> QED
  BY <1>4, <1>5 DEF PaperAdd

\* A removal burns no more than the position and releases no more than it cost.
LEMMA RemoveIsBooked ==
  ASSUME BooksTypes, NEW c, RemoveWaits(c), PaperRemove(c)
  PROVE  /\ UNCHANGED pos
         /\ lp' \in [tokens : Nat, capital : Nat]
         /\ lp'.tokens = 0 => lp'.capital = 0
         /\ lp'.capital <= lp.capital
<1> DEFINE burnt == c.plan.tokens
<1>1. lp.tokens \in Nat /\ lp.capital \in Nat /\ burnt \in Nat
  BY DEF BooksTypes, RemoveWaits
<1>2. CASE UNCHANGED <<books, fills>>
  <2>1. UNCHANGED <<pos, lp>>
    BY <1>2 DEF books
  <2> QED
    BY <1>1, <2>1 DEF BooksTypes
<1>3. CASE burnt <= lp.tokens /\ BookRemove(burnt) /\ UNCHANGED pos
  <2>1. lp' = [tokens |-> lp.tokens - burnt,
               capital |-> IF burnt = lp.tokens THEN 0 ELSE lp.capital - CostReleased(burnt)]
    BY <1>3 DEF BookRemove
  <2>2. CASE burnt = lp.tokens
    BY <1>1, <1>3, <2>1, <2>2
  <2>3. CASE burnt # lp.tokens
    <3>1. lp.tokens \in Nat \ {0} /\ lp.tokens - burnt \in Nat \ {0}
      BY <1>1, <1>3, <2>3
    <3>2. CostReleased(burnt) \in 0 .. lp.capital
      BY <1>1, <1>3, <3>1, PartOfCost DEF CostReleased
    <3>3. lp.capital - CostReleased(burnt) \in Nat
          /\ lp.capital - CostReleased(burnt) <= lp.capital
      BY <1>1, <3>2
    <3> QED
      BY <1>3, <2>1, <2>3, <3>1, <3>3
  <2> QED
    BY <2>2, <2>3
<1> QED
  BY <1>2, <1>3 DEF PaperRemove

-----------------------------------------------------------------------------
(* The caps.                                                               *)

Bought == {t \in Tokens : ~IsQuote(t)}

\* What is deployed is the cost of every token that is not a quote asset: what is not held
\* costs nothing.
LEMMA CostOfHoldings ==
  ASSUME NEW p \in [Tokens -> [amount : Nat, basis : Nat]],
         \A t \in Tokens : p[t].amount = 0 => p[t].basis = 0,
         NEW f, f = [t \in Tokens |-> p[t].basis]
  PROVE  /\ Total(f, {t \in {u \in Tokens : p[u].amount > 0} : ~IsQuote(t)}) = Total(f, Bought)
         /\ Total(f, Bought) \in Nat
<1> DEFINE S == {t \in {u \in Tokens : p[u].amount > 0} : ~IsQuote(t)}
<1>1. IsFiniteSet(Bought) /\ S \subseteq Bought
  <2>1. Bought \subseteq Tokens
    BY DEF Bought
  <2> QED
    BY <2>1, BooksAssumption, FS_Subset DEF Bought
<1>2. \A t \in Bought : f[t] \in Nat
  BY DEF Bought
<1>3. \A t \in Bought \ S : f[t] = 0
  BY DEF Bought
<1> HIDE DEF S
<1>4. Total(f, Bought) = Total(f, S)
  BY <1>1, <1>2, <1>3, TotalSkipsZeros
<1>5. Total(f, Bought) \in Nat
  BY <1>1, <1>2, TotalIsNat
<1> QED
  BY <1>4, <1>5 DEF S

LEMMA DeployedIsTotal == Deployed = Total(Basis, {t \in Held : ~IsQuote(t)})
  BY DEF Deployed, Total

LEMMA DeployedIsCost ==
  ASSUME BooksTypes
  PROVE  Deployed = Total(Basis, Bought) /\ Deployed \in Nat
<1>1. /\ pos \in [Tokens -> [amount : Nat, basis : Nat]]
      /\ \A t \in Tokens : pos[t].amount = 0 => pos[t].basis = 0
  BY DEF BooksTypes
<1>2. Deployed = Total(Basis, {t \in {u \in Tokens : pos[u].amount > 0} : ~IsQuote(t)})
  BY DeployedIsTotal DEF Held
<1>3. Basis = [t \in Tokens |-> pos[t].basis]
  BY DEF Basis
<1> QED
  BY <1>1, <1>2, <1>3, CostOfHoldings

LEMMA DeployedIsCostNext ==
  ASSUME /\ pos' \in [Tokens -> [amount : Nat, basis : Nat]]
         /\ \A t \in Tokens : pos'[t].amount = 0 => pos'[t].basis = 0
  PROVE  Deployed' = Total(Basis', Bought) /\ Deployed' \in Nat
<1>1. Deployed' = Total(Basis', {t \in {u \in Tokens : pos'[u].amount > 0} : ~IsQuote(t)})
  <2>1. (Deployed = Total(Basis, {t \in Held : ~IsQuote(t)}))'
    BY DeployedIsTotal, PTL
  <2> QED
    BY <2>1 DEF Held
<1>2. Basis' = [t \in Tokens |-> pos'[t].basis]
  BY DEF Basis
<1> QED
  BY <1>1, <1>2, CostOfHoldings

\* What the engine read when it decided.
Read(c) ==
  [now |-> clock, policy |-> policy, action |-> c.action,
   state |-> RiskState(c.priced, Looked(c)), snap |-> c.snap]

LEMMA TheCapsWereChecked ==
  ASSUME NEW c, Decision(c) = "OK"
  PROVE  /\ IsExit(c.action) => ReducesOnly(Read(c))
         /\ \/ IsExit(c.action) \/ IsApprove(c.action) \/ c.action.kind \in {"lp_remove", "lp_claim"}
            \/ AtMost(ProjectedDeployed(Read(c)), policy.maxDeployed)
         /\ c.action.kind \in LpEntries =>
              AtMost(Plus(LpHeld(Read(c)).capital, LpCapital(Read(c))), policy.lp.maxCapital)
<1> DEFINE i == Read(c)
<1>1. Evaluate(i) = "OK"
  BY DEF Decision, Read
<1> HIDE DEF i
<1>2. Failures(ExposureChecks(i)) = {} /\ Failures(StructureChecks(i)) = {}
  BY <1>1, OkMeansEveryCheck
<1>3. ExposureChecks(i)[1].passed /\ ExposureChecks(i)[4].passed /\ StructureChecks(i)[3].passed
  <2>1. 1 \in DOMAIN ExposureChecks(i) /\ 4 \in DOMAIN ExposureChecks(i)
    BY DEF ExposureChecks
  <2>2. 3 \in DOMAIN StructureChecks(i)
    BY DEF StructureChecks
  <2> QED
    BY <1>2, <2>1, <2>2 DEF Failures
<1>4. i.action = c.action /\ i.policy = policy
  BY DEF i, Read
<1>5. /\ IsExit(i.action) => ReducesOnly(i)
      /\ \/ IsExit(i.action) \/ IsApprove(i.action) \/ i.action.kind \in {"lp_remove", "lp_claim"}
         \/ AtMost(ProjectedDeployed(i), i.policy.maxDeployed)
  BY <1>3 DEF ExposureChecks, Check
<1>6. i.action.kind \in LpEntries =>
        AtMost(Plus(LpHeld(i).capital, LpCapital(i)), i.policy.lp.maxCapital)
  BY <1>3 DEF StructureChecks, Check
<1> QED
  BY <1>4, <1>5, <1>6 DEF i

\* What is valued at a price is valued at the price that was looked up.
LEMMA ValuedIsWorth ==
  ASSUME NEW c, NEW t, NEW amount, Looked(c)[t] = c.snap.prices[t].value,
         Valued(amount, Ref(t), c.snap.prices[t], "ceil") # Missing
  PROVE  Valued(amount, Ref(t), c.snap.prices[t], "ceil") = Worth(t, amount, Looked(c), "ceil")
BY DEF Valued, Ref, Worth

\* A swap the engine allows sells into a stablecoin or stays within the deployed capital.
LEMMA SwapIsWithin ==
  ASSUME BooksTypes, NEW c, Built(c), SwapWaits(c), Decision(c) = "OK",
         NEW in \in Tokens, NEW out \in Tokens, in \in c.priced,
         c.action.tokenIn = Ref(in), c.action.tokenOut = Ref(out)
  PROVE  \/ out \in Stablecoins
         \/ Deployed + Worth(in, c.action.amountIn, Looked(c), "ceil") <= policy.maxDeployed
<1> DEFINE i == Read(c)
<1>1. /\ i.action = c.action /\ i.snap = c.snap /\ i.state.deployed = Deployed
  BY DEF Read, RiskState
<1>2. c.action.kind = "swap" /\ c.snap.lp = Missing
  BY DEF SwapWaits
<1>3. Ref(in).address = in /\ Ref(out).address = out
  BY DEF Ref
<1>4. CASE IsExit(c.action)
  <2>1. ReducesOnly(i)
    BY <1>4, TheCapsWereChecked
  <2> HIDE DEF i
  <2> QED
    BY <1>1, <1>3, <2>1 DEF ReducesOnly
<1>5. CASE ~IsExit(c.action)
  <2>1. AtMost(ProjectedDeployed(i), policy.maxDeployed)
    BY <1>2, <1>5, TheCapsWereChecked DEF IsApprove
  <2> HIDE DEF i
  <2>2. ProjectedDeployed(i) = Plus(Deployed + 0, AmountInUsd(i))
    BY <1>1, <1>2 DEF ProjectedDeployed, LpEntries
  <2>3. AmountInUsd(i) = Valued(c.action.amountIn, Ref(in), c.snap.prices[in], "ceil")
    BY <1>1, <1>3 DEF AmountInUsd, PriceIn
  <2>4. AmountInUsd(i) # Missing /\ ProjectedDeployed(i) = (Deployed + 0) + AmountInUsd(i)
        /\ ProjectedDeployed(i) <= policy.maxDeployed
    BY <2>1, <2>2 DEF AtMost, Plus
  <2>5. AmountInUsd(i) = Worth(in, c.action.amountIn, Looked(c), "ceil")
    BY <2>3, <2>4, LookedUp, ValuedIsWorth
  <2>6. Deployed + 0 = Deployed
    BY DeployedIsCost
  <2> QED
    BY <2>4, <2>5, <2>6
<1> QED
  BY <1>4, <1>5

\* An add the engine allows is within both caps, beside what the books hold now.
LEMMA AddIsWithin ==
  ASSUME BooksTypes, NEW c, Built(c), AddWaits(c), Decision(c) = "OK"
  PROVE  LET w0 == Worth(Token0, c.plan.a0, Looked(c), "ceil")
             w1 == Worth(Token1, c.plan.a1, Looked(c), "ceil")
         IN  /\ Deployed + (lp.capital + w0 + w1) <= policy.maxDeployed
             /\ lp.capital + w0 + w1 <= policy.lp.maxCapital
<1> DEFINE i == Read(c)
           w0 == Worth(Token0, c.plan.a0, Looked(c), "ceil")
           w1 == Worth(Token1, c.plan.a1, Looked(c), "ceil")
<1>1. /\ i.action = c.action /\ i.snap = c.snap /\ i.state.deployed = Deployed
  BY DEF Read, RiskState
<1>2. /\ c.action.kind = "lp_add" /\ c.snap.lp = LpSnapshot /\ c.action.lp.pool = Pool
      /\ c.action.tokenIn = Ref(Token0) /\ c.action.tokenOut = Ref(Token1)
      /\ c.action.amountIn = c.plan.a0 /\ c.action.lp.amountB = c.plan.a1
      /\ Token0 \in c.priced /\ Token1 \in c.priced
      /\ c.plan.a0 \in Nat /\ c.plan.a1 \in Nat
  BY DEF AddWaits
<1>3. /\ LpSnapshot # Missing /\ LpSnapshot.deployed = lp.capital
      /\ DOMAIN LpSnapshot.positions = (IF lp.tokens = 0 THEN {} ELSE {Pool})
      /\ lp.tokens # 0 => LpSnapshot.positions[Pool] = lp
  <2>1. LpSnapshot \in [deployed : Nat, rebalances : {<< >>},
                        positions : UNION {[D -> [tokens : Nat, capital : Nat]] : D \in {{}, {Pool}}}]
    BY DEF LpSnapshot, BooksTypes
  <2> QED
    BY <2>1, BooksAssumption DEF LpSnapshot
<1>4. w0 \in Nat /\ w1 \in Nat /\ lp.capital \in Nat /\ Deployed \in Nat
  <2>1. lp.capital \in Nat /\ Deployed \in Nat
    BY DeployedIsCost DEF BooksTypes
  <2> QED
    BY <1>2, <2>1, LookedUp, WorthIsMoney
<1>5. /\ AtMost(ProjectedDeployed(i), policy.maxDeployed)
      /\ AtMost(Plus(LpHeld(i).capital, LpCapital(i)), policy.lp.maxCapital)
  <2>1. ~IsExit(c.action) /\ ~IsApprove(c.action) /\ c.action.kind \notin {"lp_remove", "lp_claim"}
        /\ c.action.kind \in LpEntries
    BY <1>2 DEF IsExit, IsApprove, LpEntries
  <2> QED
    BY <2>1, TheCapsWereChecked
<1> HIDE DEF i
<1>6. LpCapital(i) # Missing /\ LpCapital(i) = w0 + w1
  <2> DEFINE v0 == Valued(c.action.amountIn, Ref(Token0), c.snap.prices[Token0], "ceil")
             v1 == Valued(c.action.lp.amountB, Ref(Token1), c.snap.prices[Token1], "ceil")
  <2>1. LpCapital(i) = Plus(v0, v1)
    BY <1>1, <1>2 DEF LpCapital, PriceIn, PriceOut, Ref
  <2>2. LpCapital(i) # Missing
    BY <1>5 DEF AtMost, Plus
  <2>3. v0 # Missing /\ v1 # Missing /\ LpCapital(i) = v0 + v1
    <3> HIDE DEF v0, v1
    <3> QED
      BY <2>1, <2>2 DEF Plus
  <2>4. v0 = w0 /\ v1 = w1
    BY <1>2, <2>3, LookedUp, ValuedIsWorth
  <2> HIDE DEF v0, v1
  <2> QED
    BY <2>2, <2>3, <2>4
<1>7. LpHeld(i).capital = lp.capital
  <2>1. CASE lp.tokens = 0
    BY <1>1, <1>2, <1>3, <2>1 DEF LpHeld, BooksTypes
  <2>2. CASE lp.tokens # 0
    BY <1>1, <1>2, <1>3, <2>2 DEF LpHeld
  <2> QED
    BY <2>1, <2>2
<1>8. lp.capital + (w0 + w1) <= policy.lp.maxCapital
  BY <1>5, <1>6, <1>7 DEF AtMost, Plus
<1>9. ProjectedDeployed(i) = Plus(Deployed + lp.capital, LpCapital(i))
  BY <1>1, <1>2, <1>3 DEF ProjectedDeployed, LpEntries
<1>10. (Deployed + lp.capital) + (w0 + w1) <= policy.maxDeployed
  BY <1>5, <1>6, <1>9 DEF AtMost, Plus
<1> HIDE DEF w0, w1
<1>11. /\ Deployed + (lp.capital + w0 + w1) = (Deployed + lp.capital) + (w0 + w1)
       /\ lp.capital + w0 + w1 = lp.capital + (w0 + w1)
  BY <1>4
<1> QED
  BY <1>8, <1>10, <1>11 DEF w0, w1

\* The gate books nothing, or what the executor of the proposal's kind books.
LEMMA GateBooksOneFill ==
  ASSUME CycleWaits, Decide
  PROVE  /\ Built(cycle)
         /\ \/ BooksRest
            \/ Decision(cycle) = "OK" /\ SwapWaits(cycle) /\ PaperSwap(cycle)
            \/ Decision(cycle) = "OK" /\ AddWaits(cycle) /\ PaperAdd(cycle)
            \/ Decision(cycle) = "OK" /\ RemoveWaits(cycle) /\ PaperRemove(cycle)
<1>1. Built(cycle)
  BY DEF Decide, CycleWaits
<1>2. CASE Decision(cycle) # "OK"
  <2>1. BooksRest
    BY <1>2 DEF Decide, books, BooksRest
  <2> QED
    BY <1>1, <2>1
<1>3. CASE Decision(cycle) = "OK"
  <2>1. /\ cycle.action.kind = "swap" => PaperSwap(cycle)
        /\ cycle.action.kind = "lp_add" => PaperAdd(cycle)
        /\ cycle.action.kind = "lp_remove" => PaperRemove(cycle)
    BY <1>3 DEF Decide
  <2>2. /\ SwapWaits(cycle) => cycle.action.kind = "swap"
        /\ AddWaits(cycle) => cycle.action.kind = "lp_add"
        /\ RemoveWaits(cycle) => cycle.action.kind = "lp_remove"
    BY DEF SwapWaits, AddWaits, RemoveWaits
  <2>3. SwapWaits(cycle) \/ AddWaits(cycle) \/ RemoveWaits(cycle)
    BY <1>1 DEF Built
  <2> QED
    BY <1>1, <1>3, <2>1, <2>2, <2>3
<1> QED
  BY <1>2, <1>3

LEMMA HoldingsStay ==
  ASSUME BooksTypes, CycleWaits, [Next]_vars
  PROVE  /\ pos' \in [Tokens -> [amount : Nat, basis : Nat]]
         /\ \A t \in Tokens : pos'[t].amount = 0 => pos'[t].basis = 0
         /\ lp' \in [tokens : Nat, capital : Nat]
         /\ lp'.tokens = 0 => lp'.capital = 0
<1>1. CASE BooksRest
  BY <1>1 DEF BooksRest, BooksTypes
<1>2. CASE Decide
  <2>1. Built(cycle)
    BY <1>2, GateBooksOneFill
  <2>2. CASE SwapWaits(cycle) /\ PaperSwap(cycle)
    <3>1. PICK in \in Tokens, out \in Tokens :
             /\ in # out /\ {in, out} \subseteq cycle.priced
             /\ cycle.action.tokenIn = Ref(in) /\ cycle.action.tokenOut = Ref(out)
      BY <2>2 DEF SwapWaits
    <3>2. /\ UNCHANGED lp
          /\ pos' \in [Tokens -> [amount : Nat, basis : Nat]]
          /\ \A t \in Tokens : pos'[t].amount = 0 => pos'[t].basis = 0
      BY <2>1, <2>2, <3>1, SwapIsBooked
    <3> QED
      BY <3>2 DEF BooksTypes
  <2>3. CASE AddWaits(cycle) /\ PaperAdd(cycle)
    BY <2>1, <2>3, AddIsBooked DEF BooksTypes
  <2>4. CASE RemoveWaits(cycle) /\ PaperRemove(cycle)
    BY <2>4, RemoveIsBooked DEF BooksTypes
  <2> QED
    BY <1>1, <1>2, <2>2, <2>3, <2>4, GateBooksOneFill
<1> QED
  BY <1>1, <1>2, OnlyTheGateBooks

LEMMA NextRisk ==
  ASSUME RiskInv, [Next]_vars
  PROVE  RiskInv'
<1>1. BooksTypes /\ CycleWaits
  BY DEF RiskInv
<1>2. BooksTypes'
  BY <1>1, HoldingsStay, WorldStays DEF BooksTypes
<1>3. CycleWaits'
  BY <1>1, NextCycleWaits
<1> QED
  BY <1>2, <1>3 DEF RiskInv

LEMMA AlwaysRisk == Spec => []RiskInv
  BY InitRisk, NextRisk, PTL DEF Spec

\* A swap raises what is deployed by no more than what the engine valued.
LEMMA SwapKeepsTheCap ==
  ASSUME BooksTypes, NEW c, Built(c), SwapWaits(c), PaperSwap(c), Decision(c) = "OK"
  PROVE  /\ UNCHANGED lp
         /\ Deployed' > Deployed => Deployed' <= policy.maxDeployed
<1>1. PICK in \in Tokens, out \in Tokens :
         /\ in # out /\ {in, out} \subseteq c.priced
         /\ c.action.tokenIn = Ref(in) /\ c.action.tokenOut = Ref(out)
  BY DEF SwapWaits
<1> DEFINE paid == Worth(in, c.action.amountIn, Looked(c), "floor")
           valued == Worth(in, c.action.amountIn, Looked(c), "ceil")
<1>2. paid \in Nat /\ valued \in Nat /\ paid <= valued
  <2>1. c.action.amountIn \in Nat
    BY DEF SwapWaits
  <2> QED
    BY <1>1, <2>1, LookedUp, WorthIsMoney
<1>3. /\ UNCHANGED lp
      /\ pos' \in [Tokens -> [amount : Nat, basis : Nat]]
      /\ \A t \in Tokens : pos'[t].amount = 0 => pos'[t].basis = 0
      /\ \A t \in Tokens \ {out} : pos'[t].basis <= pos[t].basis
      /\ pos'[out].basis <= pos[out].basis + paid
  BY <1>1, SwapIsBooked
<1>4. \/ out \in Stablecoins
      \/ Deployed + valued <= policy.maxDeployed
  BY <1>1, SwapIsWithin
<1> HIDE DEF paid, valued
<1>5. /\ Deployed = Total(Basis, Bought) /\ Deployed \in Nat
      /\ Deployed' = Total(Basis', Bought) /\ Deployed' \in Nat
  BY <1>3, DeployedIsCost, DeployedIsCostNext
<1> DEFINE f == Basis
           g == Basis'
<1>6. /\ Total(g, Bought) <= Total(f, Bought) + paid
      /\ out \notin Bought => Total(g, Bought) <= Total(f, Bought)
  <2>1. IsFiniteSet(Bought)
    <3>1. Bought \subseteq Tokens
      BY DEF Bought
    <3> QED
      BY <3>1, BooksAssumption, FS_Subset
  <2>2. \A t \in Tokens : /\ f[t] = pos[t].basis /\ pos[t].basis \in Nat
                          /\ g[t] = pos'[t].basis /\ pos'[t].basis \in Nat
    BY <1>3 DEF Basis, BooksTypes
  <2> HIDE DEF f, g
  <2>3. \A t \in Bought : f[t] \in Nat /\ g[t] \in Nat
    BY <2>2 DEF Bought
  <2>4. \A t \in Bought \ {out} : g[t] <= f[t]
    BY <1>3, <2>2 DEF Bought
  <2>5. out \in Bought => g[out] <= f[out] + paid
    BY <1>3, <2>2
  <2> QED
    BY <1>2, <2>1, <2>3, <2>4, <2>5, TotalRises
<1>7. out \in Stablecoins => out \notin Bought
  BY DEF Bought, IsQuote
<1>8. policy.maxDeployed \in Nat
  BY PolicyIsTyped
<1>9. Deployed' <= Deployed + paid /\ (out \in Stablecoins => Deployed' <= Deployed)
  BY <1>5, <1>6, <1>7
<1> QED
  BY <1>2, <1>3, <1>4, <1>5, <1>8, <1>9

\* No step of the books breaks a cap.
LEMMA StepKeepsTheCaps ==
  ASSUME BooksTypes, CycleWaits, [Next]_vars
  PROVE  /\ Deployed' > Deployed => Deployed' <= policy.maxDeployed
         /\ lp'.capital > lp.capital =>
               /\ Deployed + lp'.capital <= policy.maxDeployed
               /\ lp'.capital <= policy.lp.maxCapital
<1>1. /\ pos' \in [Tokens -> [amount : Nat, basis : Nat]]
      /\ \A t \in Tokens : pos'[t].amount = 0 => pos'[t].basis = 0
      /\ lp.capital \in Nat /\ lp'.capital \in Nat
  BY HoldingsStay DEF BooksTypes
<1>2. Deployed \in Nat /\ Deployed' \in Nat
  BY <1>1, DeployedIsCost, DeployedIsCostNext
<1>3. ASSUME UNCHANGED pos PROVE ~(Deployed' > Deployed)
  <2>1. Basis' = Basis
    BY <1>3 DEF Basis
  <2>2. Deployed' = Deployed
    BY <1>1, <2>1, DeployedIsCost, DeployedIsCostNext
  <2> QED
    BY <1>2, <2>2
<1>4. ASSUME lp'.capital <= lp.capital PROVE ~(lp'.capital > lp.capital)
  BY <1>1, <1>4
<1>5. CASE BooksRest
  <2>1. UNCHANGED pos /\ lp'.capital <= lp.capital
    BY <1>1, <1>5 DEF BooksRest
  <2> QED
    BY <1>3, <1>4, <2>1
<1>6. CASE Decide
  <2>1. Built(cycle)
    BY <1>6, GateBooksOneFill
  <2>2. CASE Decision(cycle) = "OK" /\ SwapWaits(cycle) /\ PaperSwap(cycle)
    <3>1. UNCHANGED lp /\ (Deployed' > Deployed => Deployed' <= policy.maxDeployed)
      BY <2>1, <2>2, SwapKeepsTheCap
    <3>2. lp'.capital <= lp.capital
      BY <1>1, <3>1
    <3> QED
      BY <1>4, <3>1, <3>2
  <2>3. CASE Decision(cycle) = "OK" /\ AddWaits(cycle) /\ PaperAdd(cycle)
    <3> DEFINE w0 == Worth(Token0, cycle.plan.a0, Looked(cycle), "ceil")
               w1 == Worth(Token1, cycle.plan.a1, Looked(cycle), "ceil")
    <3>1. UNCHANGED pos /\ (lp' = lp \/ lp'.capital = lp.capital + w0 + w1)
      BY <2>1, <2>3, AddIsBooked
    <3>2. /\ Deployed + (lp.capital + w0 + w1) <= policy.maxDeployed
          /\ lp.capital + w0 + w1 <= policy.lp.maxCapital
      BY <2>1, <2>3, AddIsWithin
    <3> HIDE DEF w0, w1
    <3> QED
      BY <1>1, <1>3, <1>4, <3>1, <3>2
  <2>4. CASE Decision(cycle) = "OK" /\ RemoveWaits(cycle) /\ PaperRemove(cycle)
    <3>1. UNCHANGED pos /\ lp'.capital <= lp.capital
      BY <2>4, RemoveIsBooked
    <3> QED
      BY <1>3, <1>4, <3>1
  <2> QED
    BY <1>5, <1>6, <2>2, <2>3, <2>4, GateBooksOneFill
<1> QED
  BY <1>5, <1>6, OnlyTheGateBooks

\* The caps bind what is booked (engine.ts deployed.total and lp.capital, read by the gate at
\* decision time; trading/ledger.ts recordFill, liquidity/paper.ts): whatever moved between the
\* proposal and the verdict, a swap that raises the deployed capital leaves it within
\* maxTotalDeployedUsd, and an LP add leaves deployed plus LP capital within it and the pool's
\* capital within maxLpCapitalUsd.
THEOREM CapsAreKept == Spec => EntriesKeepTheCaps
<1>1. RiskInv /\ [Next]_vars =>
        [ /\ Deployed' > Deployed => Deployed' <= policy.maxDeployed
          /\ lp'.capital > lp.capital =>
                /\ Deployed + lp'.capital <= policy.maxDeployed
                /\ lp'.capital <= policy.lp.maxCapital ]_vars
  BY StepKeepsTheCaps DEF RiskInv
<1> QED
  BY <1>1, AlwaysRisk, PTL DEF Spec, EntriesKeepTheCaps

-----------------------------------------------------------------------------
(* What the books earn while nothing moves.  Amounts are compared in parts *)
(* of a micro-USD so small that a base unit of every token is worth a whole *)
(* number of them, and in shares of the pool's supply: no rounding is left, *)
(* and what each executor books is a sum of terms that do not grow.        *)

\* A fraction against its denominator.
LEMMA FloorIs ==
  ASSUME NEW a \in Nat, NEW b \in Nat \ {0}
  PROVE  /\ FloorDiv(a, b) \in Nat /\ b * FloorDiv(a, b) <= a /\ a < b * FloorDiv(a, b) + b
         /\ \A q \in Nat : b * q <= a => q <= FloorDiv(a, b)
<1> DEFINE p == a \div b
<1>1. FloorDiv(a, b) = p
  BY DEF FloorDiv
<1>2. p \in Nat /\ b * p <= a /\ a < b * p + b
  BY Division
<1> HIDE DEF p
<1>3. ASSUME NEW q \in Nat, b * q <= a PROVE q <= p
  <2>1. SUFFICES ASSUME q >= p + 1 PROVE FALSE
    BY <1>2
  <2>2. b * q >= b * (p + 1) /\ b * (p + 1) = b * p + b
    BY <1>2, <2>1
  <2>3. b * p \in Int /\ b * q \in Int
    BY <1>2
  <2> QED
    BY <1>2, <1>3, <2>2, <2>3
<1> QED
  BY <1>1, <1>2, <1>3

LEMMA CeilCovers ==
  ASSUME NEW a \in Nat, NEW b \in Nat \ {0}
  PROVE  CeilDiv(a, b) \in Nat /\ a <= b * CeilDiv(a, b)
<1>1. CASE a = 0
  <2>1. CeilDiv(a, b) = 0
    BY <1>1, Division DEF CeilDiv, FloorDiv
  <2> QED
    BY <1>1, <2>1
<1>2. CASE a > 0
  <2> DEFINE q == (a + b - 1) \div b
  <2>1. CeilDiv(a, b) = q
    BY <1>2 DEF CeilDiv
  <2>2. a + b - 1 \in Nat
    BY <1>2
  <2>3. q \in Nat /\ a + b - 1 < b * q + b
    BY <2>2, Division
  <2> HIDE DEF q
  <2>4. b * q \in Int
    BY <2>3
  <2> QED
    BY <2>1, <2>3, <2>4
<1> QED
  BY <1>1, <1>2

\* Whole numbers that are not zero have a multiple in common.
LEMMA CommonMultiple ==
  ASSUME NEW T, IsFiniteSet(T), NEW d, \A x \in T : d[x] \in Nat \ {0}
  PROVE  \E m \in Nat \ {0} : \A x \in T : \E k \in Nat \ {0} : m = k * d[x]
<1> DEFINE Common(m, s) == \A x \in s : \E k \in Nat \ {0} : m = k * d[x]
           P == {s \in SUBSET T : \E m \in Nat \ {0} : Common(m, s)}
<1>1. ASSUME NEW s \in SUBSET T, \A u \in SUBSET s : u # s => u \in P PROVE s \in P
  <2>1. CASE s = {}
    <3>1. Common(1, s) /\ 1 \in Nat \ {0}
      BY <2>1
    <3> HIDE DEF Common
    <3> QED
      BY <3>1
  <2>2. CASE s # {}
    <3>1. PICK x \in s : TRUE
      BY <2>2
    <3> DEFINE u == s \ {x}
    <3>2. u \in P
      <4>1. u \in SUBSET s /\ u # s
        BY <3>1
      <4> HIDE DEF P, u
      <4> QED
        BY <1>1, <4>1
    <3>3. PICK m \in Nat \ {0} : Common(m, u)
      BY <3>2
    <3>4. d[x] \in Nat \ {0}
      BY <3>1
    <3>5. m * d[x] \in Nat \ {0}
      BY <3>4
    <3>6. ASSUME NEW y \in s PROVE \E k \in Nat \ {0} : m * d[x] = k * d[y]
      <4>1. CASE y = x
        BY <4>1
      <4>2. CASE y # x
        <5>1. PICK k \in Nat \ {0} : m = k * d[y]
          BY <3>3, <3>6, <4>2
        <5>2. d[y] \in Nat
          BY <3>6
        <5>3. k * d[x] \in Nat \ {0} /\ (k * d[y]) * d[x] = (k * d[x]) * d[y]
          BY <3>4, <5>2
        <5> QED
          BY <5>1, <5>3
      <4> QED
        BY <4>1, <4>2
    <3>7. Common(m * d[x], s)
      BY <3>6
    <3> HIDE DEF Common
    <3> QED
      BY <3>5, <3>7
  <2> QED
    BY <2>1, <2>2
<1> HIDE DEF P
<1>2. T \in P
  BY <1>1, SubsetInduction
<1> QED
  BY <1>2 DEF P

\* A micro-USD in parts of which a base unit of every token is worth a whole number.
Scale == CHOOSE m \in Nat \ {0} : \A t \in Tokens : \E k \in Nat \ {0} : m = k * Ten^Decimals[t]

Parts(t) == CHOOSE k \in Nat \ {0} : Scale = k * Ten^Decimals[t]

Unit(t) == Parts(t) * market[t]

LEMMA ScaleIs ==
  /\ Scale \in Nat \ {0}
  /\ \A t \in Tokens : Parts(t) \in Nat \ {0} /\ Scale = Parts(t) * Ten^Decimals[t]
<1> DEFINE d == [t \in Tokens |-> Ten^Decimals[t]]
           Common(m) == \A t \in Tokens : \E k \in Nat \ {0} : m = k * Ten^Decimals[t]
<1>1. \A t \in Tokens : d[t] = Ten^Decimals[t] /\ d[t] \in Nat \ {0}
  BY BooksAssumption
<1>2. IsFiniteSet(Tokens)
  BY BooksAssumption
<1> HIDE DEF d
<1>3. \E m \in Nat \ {0} : \A t \in Tokens : \E k \in Nat \ {0} : m = k * d[t]
  BY <1>1, <1>2, CommonMultiple
<1>4. \E m \in Nat \ {0} : Common(m)
  BY <1>1, <1>3
<1>5. Scale = CHOOSE m \in Nat \ {0} : Common(m)
  BY DEF Scale
<1> HIDE DEF Common
<1>6. Scale \in Nat \ {0} /\ Common(Scale)
  BY <1>4, <1>5
<1>7. ASSUME NEW t \in Tokens
      PROVE  Parts(t) \in Nat \ {0} /\ Scale = Parts(t) * Ten^Decimals[t]
  <2>1. \E k \in Nat \ {0} : Scale = k * Ten^Decimals[t]
    BY <1>6 DEF Common
  <2> QED
    BY <2>1 DEF Parts
<1> QED
  BY <1>6, <1>7

LEMMA UnitsAre ==
  ASSUME BooksTypes, NEW t \in Tokens
  PROVE  /\ Ten^Decimals[t] \in Nat \ {0} /\ market[t] \in Nat \ {0}
         /\ Parts(t) \in Nat \ {0} /\ Scale = Parts(t) * Ten^Decimals[t]
         /\ Unit(t) = Parts(t) * market[t] /\ Unit(t) \in Nat
<1>1. market[t] \in Nat \ {0} /\ Ten^Decimals[t] \in Nat \ {0}
  BY BooksAssumption DEF BooksTypes
<1>2. Parts(t) \in Nat \ {0} /\ Scale = Parts(t) * Ten^Decimals[t]
  BY ScaleIs
<1>3. Parts(t) * market[t] \in Nat
  BY <1>1, <1>2
<1> QED
  BY <1>1, <1>2, <1>3 DEF Unit

LEMMA Multiple ==
  ASSUME NEW a \in Nat, NEW b \in Nat \ {0}, a % b = 0
  PROVE  \E q \in Nat : a = b * q
<1>1. a = b * (a \div b)
  OBVIOUS
<1> QED
  BY <1>1, Division

\* A division in parts.
LEMMA DivisionInParts ==
  ASSUME NEW k \in Nat \ {0}, NEW d \in Nat \ {0}, NEW x \in Nat, NEW p \in Nat \ {0}
  PROVE  /\ (k * d) * FloorDiv(x * p, d) <= x * (k * p)
         /\ x * (k * p) < (k * d) * FloorDiv(x * p, d) + k * d
         /\ x * (k * p) <= (k * d) * CeilDiv(x * p, d)
         /\ p % d = 0 => (k * d) * FloorDiv(x * p, d) = x * (k * p)
<1> DEFINE a == x * p  w == FloorDiv(a, d)  v == CeilDiv(a, d)
<1>1. a \in Nat
  OBVIOUS
<1>2. w \in Nat /\ d * w <= a /\ a < d * w + d /\ \A q \in Nat : d * q <= a => q <= w
  BY <1>1, FloorIs
<1>3. v \in Nat /\ a <= d * v
  BY <1>1, CeilCovers
<1>4. x * (k * p) = k * a
  OBVIOUS
<1>5. p % d = 0 => d * w = a
  <2> SUFFICES ASSUME p % d = 0 PROVE d * w = a
    OBVIOUS
  <2>1. PICK q \in Nat : p = d * q
    BY Multiple
  <2>2. a = d * (x * q) /\ x * q \in Nat
    BY <2>1
  <2> DEFINE r == x * q
  <2>3. r \in Nat /\ a = d * r
    BY <2>2
  <2> HIDE DEF r, w, a
  <2>4. r <= w
    BY <1>2, <2>3
  <2>5. d * r <= d * w
    BY <1>2, <2>3, <2>4
  <2>6. d * r \in Int /\ d * w \in Int
    BY <1>2, <2>3
  <2> QED
    BY <1>2, <2>3, <2>5, <2>6
<1> HIDE DEF w, v
<1> HIDE DEF a
<1>6. (k * d) * w = k * (d * w) /\ (k * d) * v = k * (d * v)
  BY <1>2, <1>3
<1> DEFINE y == d * w  z == d * v
<1>7. y \in Nat /\ z \in Nat /\ y <= a /\ a < y + d /\ a <= z
  BY <1>2, <1>3
<1> HIDE DEF y, z
<1>8. k * y <= k * a /\ k * a < k * (y + d) /\ k * a <= k * z
  BY <1>1, <1>7
<1>9. k * (y + d) = k * y + k * d
  BY <1>7
<1>10. k * y <= k * a /\ k * a < k * y + k * d /\ k * a <= k * z
  BY <1>8, <1>9
<1>11. p % d = 0 => k * y = k * a
  BY <1>5 DEF y
<1> QED
  BY <1>4, <1>6, <1>10, <1>11 DEF a, w, v, y, z

\* What an amount is worth at the market, against its worth in parts.
LEMMA WorthInParts ==
  ASSUME BooksTypes, NEW t \in Tokens, NEW x \in Nat, NEW prices, prices[t] = market[t]
  PROVE  /\ Worth(t, x, prices, "floor") \in Nat /\ Worth(t, x, prices, "ceil") \in Nat
         /\ Scale * Worth(t, x, prices, "floor") <= x * Unit(t)
         /\ x * Unit(t) < Scale * Worth(t, x, prices, "floor") + Scale
         /\ x * Unit(t) <= Scale * Worth(t, x, prices, "ceil")
         /\ market[t] % Ten^Decimals[t] = 0 => Scale * Worth(t, x, prices, "floor") = x * Unit(t)
<1> DEFINE k == Parts(t)  d == Ten^Decimals[t]  p == market[t]
<1>1. /\ d \in Nat \ {0} /\ p \in Nat \ {0} /\ k \in Nat \ {0}
      /\ Scale = k * d /\ Unit(t) = k * p
  BY UnitsAre
<1>2. /\ Worth(t, x, prices, "floor") = FloorDiv(x * p, d)
      /\ Worth(t, x, prices, "ceil") = CeilDiv(x * p, d)
  BY DEF Worth, NativeToUsd
<1>3. Worth(t, x, prices, "floor") \in Nat /\ Worth(t, x, prices, "ceil") \in Nat
  <2>1. prices[t] \in Nat
    BY <1>1
  <2> QED
    BY <2>1, WorthIsMoney
<1> HIDE DEF k, d, p
<1>4. /\ (k * d) * FloorDiv(x * p, d) <= x * (k * p)
      /\ x * (k * p) < (k * d) * FloorDiv(x * p, d) + k * d
      /\ x * (k * p) <= (k * d) * CeilDiv(x * p, d)
      /\ p % d = 0 => (k * d) * FloorDiv(x * p, d) = x * (k * p)
  BY <1>1, DivisionInParts
<1> QED
  BY <1>1, <1>2, <1>3, <1>4 DEF p, d

\* No more is received than was paid.
LEMMA FairInParts ==
  ASSUME BooksTypes, NEW in \in Tokens, NEW out \in Tokens, NEW x \in Nat, NEW r \in Nat,
         r <= Fair(in, out, x)
  PROVE  /\ r * Unit(out) <= x * Unit(in)
         /\ market[out] % Ten^Decimals[out] = 0 =>
              r * Unit(out) <= Scale * Worth(in, x, market, "floor")
<1> DEFINE ki == Parts(in)  di == Ten^Decimals[in]  pi == market[in]
           ko == Parts(out)  do == Ten^Decimals[out]  po == market[out]
<1>1. /\ di \in Nat \ {0} /\ pi \in Nat \ {0} /\ ki \in Nat \ {0}
      /\ Scale = ki * di /\ Unit(in) = ki * pi
  BY UnitsAre
<1>2. /\ do \in Nat \ {0} /\ po \in Nat \ {0} /\ ko \in Nat \ {0}
      /\ Scale = ko * do /\ Unit(out) = ko * po
  BY UnitsAre
<1>3. Fair(in, out, x) = FloorDiv(x * pi * do, po * di)
  BY DEF Fair
<1>4. Worth(in, x, market, "floor") = FloorDiv(x * pi, di)
  BY DEF Worth, NativeToUsd
<1>5. Scale \in Nat \ {0}
  BY ScaleIs
<1> HIDE DEF ki, di, pi, ko, do, po
<1>6. r * (po * di) <= x * pi * do
  <2> DEFINE n == x * pi * do  m == po * di
  <2>1. n \in Nat /\ m \in Nat \ {0}
    BY <1>1, <1>2
  <2> HIDE DEF n, m
  <2> DEFINE q == FloorDiv(n, m)
  <2>2. q \in Nat /\ m * q <= n /\ r <= q
    BY <1>3, <2>1, FloorIs DEF n, m
  <2> HIDE DEF q
  <2>3. r * m <= q * m /\ q * m = m * q
    BY <2>1, <2>2
  <2>4. r * m \in Int /\ m * q \in Int
    BY <2>1, <2>2
  <2>5. r * m <= n
    BY <2>1, <2>2, <2>3, <2>4
  <2> QED
    BY <2>5 DEF n, m
<1>7. r * (ko * po) <= x * (ki * pi)
  <2> DEFINE y == r * (ko * po)  z == x * (ki * pi)  c == ki * ko
  <2>1. y \in Nat /\ z \in Nat /\ c \in Nat
    BY <1>1, <1>2
  <2>2. c * (r * (po * di)) = y * (ki * di)
    BY <1>1, <1>2
  <2>3. c * (x * pi * do) = z * (ko * do)
    BY <1>1, <1>2
  <2>4. c * (r * (po * di)) <= c * (x * pi * do)
    <3> DEFINE l == r * (po * di)  h == x * pi * do
    <3>1. l \in Nat /\ h \in Nat /\ l <= h
      BY <1>1, <1>2, <1>6
    <3> HIDE DEF l, h, c
    <3>2. c * l <= c * h
      BY <2>1, <3>1
    <3> QED
      BY <3>2 DEF l, h
  <2>5. y * Scale <= z * Scale
    BY <1>1, <1>2, <2>2, <2>3, <2>4
  <2> HIDE DEF y, z
  <2>6. y <= z
    <3>1. SUFFICES ASSUME y >= z + 1 PROVE FALSE
      BY <2>1
    <3>2. y * Scale >= (z + 1) * Scale
      BY <1>5, <2>1, <3>1
    <3>3. (z + 1) * Scale = z * Scale + Scale
      BY <1>5, <2>1
    <3>4. y * Scale \in Int /\ z * Scale \in Int
      BY <1>5, <2>1
    <3> QED
      BY <1>5, <2>5, <3>2, <3>3, <3>4
  <2> QED
    BY <2>6 DEF y, z
<1>8. ASSUME po % do = 0 PROVE r * (ko * po) <= Scale * FloorDiv(x * pi, di)
  <2>1. PICK q \in Nat : po = do * q
    BY <1>2, <1>8, Multiple
  <2> DEFINE s == r * q
  <2>2. s \in Nat
    OBVIOUS
  <2>3. di * s <= x * pi
    <3> DEFINE l == di * s  h == x * pi
    <3>1. l \in Nat /\ h \in Nat
      BY <1>1
    <3>2. r * (po * di) = do * l
      BY <1>1, <1>2, <2>1
    <3>3. x * pi * do = do * h
      BY <1>1, <1>2
    <3> HIDE DEF l, h
    <3>4. do * l <= do * h
      BY <1>6, <3>2, <3>3
    <3>5. l <= h
      <4>1. SUFFICES ASSUME l >= h + 1 PROVE FALSE
        BY <3>1
      <4>2. do * l >= do * (h + 1) /\ do * (h + 1) = do * h + do
        BY <1>2, <3>1, <4>1
      <4>3. do * l \in Int /\ do * h \in Int
        BY <1>2, <3>1
      <4> QED
        BY <1>2, <3>4, <4>2, <4>3
    <3> QED
      BY <3>5 DEF l, h
  <2> DEFINE w == FloorDiv(x * pi, di)
  <2>4. x * pi \in Nat
    BY <1>1
  <2>5. w \in Nat /\ s <= w
    <3> HIDE DEF s
    <3> QED
      BY <1>1, <2>2, <2>3, <2>4, FloorIs
  <2>6. r * (ko * po) = Scale * s
    BY <1>2, <2>1
  <2> HIDE DEF w, s
  <2>7. Scale * s <= Scale * w
    BY <1>5, <2>2, <2>5
  <2> QED
    BY <2>6, <2>7 DEF w
<1> QED
  BY <1>1, <1>2, <1>4, <1>7, <1>8 DEF po, do

\* What was realized, and until when.
LedgerTypes ==
  /\ clock \in 0 .. MaxClock /\ fills \in Nat /\ moves \in Nat
  /\ realized \in [Days -> Int]

\* A proposal that is decided on the market it was built on: it sells or buys a stablecoin
\* and expects no more than the market pays; its pool is the pool as it is.
AtTheMarket(c) ==
  /\ \A t \in c.priced : c.snap.prices[t].value = market[t]
  /\ Native \in c.priced /\ c.action.feeNative = Gas
  /\ c.action.kind = "swap" =>
        /\ c.action.amountIn > 0 /\ c.action.quote.expected > 0
        /\ \E in, out \in Tokens :
              /\ in # out /\ {in, out} \subseteq c.priced
              /\ in \in Stablecoins \/ out \in Stablecoins
              /\ c.action.tokenIn = Ref(in) /\ c.action.tokenOut = Ref(out)
              /\ c.action.quote.expected <= Fair(in, out, c.action.amountIn)
  /\ c.action.kind = "lp_add" => c.pool = pool
  /\ c.action.kind = "lp_remove" =>
        c.pool = pool /\ c.plan.tokens > 0 /\ {Token0, Token1} \subseteq c.priced

\* How far each holding is ahead of its cost, in parts.
AheadOf(p) == [t \in Tokens |-> p[t].amount * Unit(t) - Scale * p[t].basis]

GasOfFill == Worth(Native, Gas, market, "ceil")

LEMMA DaysAre ==
  ASSUME LedgerTypes
  PROVE  IsFiniteSet(Days) /\ Day(clock) \in Days
<1>1. DayLength \in Nat \ {0} /\ MaxClock \in Nat /\ clock \in Nat /\ clock <= MaxClock
  BY ScaleAssumption, BooksAssumption DEF LedgerTypes
<1> DEFINE a == clock \div DayLength  b == MaxClock \div DayLength
<1>2. a \in Nat /\ DayLength * a <= clock
  BY <1>1, Division
<1>3. b \in Nat /\ MaxClock < DayLength * b + DayLength
  BY <1>1, Division
<1>4. Days = 0 .. b /\ Day(clock) = a
  BY DEF Days, Day
<1> HIDE DEF a, b
<1>5. a <= b
  <2>1. SUFFICES ASSUME a >= b + 1 PROVE FALSE
    BY <1>2, <1>3
  <2>2. DayLength * a >= DayLength * (b + 1) /\ DayLength * (b + 1) = DayLength * b + DayLength
    BY <1>1, <1>2, <1>3, <2>1
  <2>3. DayLength * a \in Int /\ DayLength * b \in Int
    BY <1>1, <1>2, <1>3
  <2> QED
    BY <1>1, <1>2, <1>3, <2>2, <2>3
<1>6. IsFiniteSet(0 .. b)
  BY <1>3, FS_Interval
<1> QED
  BY <1>2, <1>3, <1>4, <1>5, <1>6

\* The cost of all of a position is all of its cost.
LEMMA AllOfCost ==
  ASSUME NEW b \in Nat, NEW m \in Nat \ {0}, NEW n \in Nat, n <= m
  PROVE  /\ CeilDiv(b * n, m) \in Nat /\ CeilDiv(b * n, m) <= b
         /\ n = m => CeilDiv(b * n, m) = b
<1> DEFINE cost == CeilDiv(b * n, m)
<1>1. cost \in 0 .. b
  BY PartOfCost
<1>2. ASSUME n = m PROVE cost >= b
  <2> DEFINE a == b * n
  <2>1. a \in Nat /\ a = m * b
    BY <1>2
  <2>2. cost \in Nat /\ a <= m * cost
    <3> HIDE DEF a
    <3>1. CeilDiv(a, m) \in Nat /\ a <= m * CeilDiv(a, m)
      BY <2>1, CeilCovers
    <3> QED
      BY <3>1 DEF a
  <2> HIDE DEF cost, a
  <2>3. SUFFICES ASSUME b >= cost + 1 PROVE FALSE
    BY <2>2
  <2>4. m * b >= m * (cost + 1) /\ m * (cost + 1) = m * cost + m
    BY <2>2, <2>3
  <2>5. m * b \in Int /\ m * cost \in Int
    BY <2>2
  <2> QED
    BY <2>1, <2>2, <2>4, <2>5
<1> HIDE DEF cost
<1>3. cost \in Nat /\ cost <= b /\ (n = m => cost = b)
  BY <1>1, <1>2
<1> QED
  BY <1>3 DEF cost

\* A sale realizes no more than what was sold is worth above its cost.
LEMMA SaleEarnsNothing ==
  ASSUME NEW p \in [amount : Nat, basis : Nat], p.amount = 0 => p.basis = 0,
         NEW x \in Nat \ {0}, NEW paid \in Nat, NEW s \in Nat \ {0}, NEW u \in Nat,
         s * paid <= x * u, NEW res, res = ReducePosition(p, x, paid)
  PROVE  /\ res.realized \in Int
         /\ s * res.realized + (res.row.amount * u - s * res.row.basis) <= p.amount * u - s * p.basis
<1> DEFINE sold == IF x > p.amount THEN p.amount ELSE x
           cost == CeilDiv(p.basis * sold, p.amount)
           gained == IF sold = x THEN paid ELSE FloorDiv(paid * sold, x)
<1>1. p.amount \in Nat /\ p.basis \in Nat
  OBVIOUS
<1>2. CASE p.amount = 0
  <2>1. res.realized = 0 /\ res.row = p
    BY <1>2 DEF ReducePosition
  <2>2. p.amount * u - s * p.basis \in Int
    BY <1>1
  <2> QED
    BY <2>1, <2>2
<1>3. CASE p.amount # 0
  <2>1. sold \in Nat /\ sold <= p.amount /\ sold <= x
    BY <1>1
  <2>2. /\ res.realized = gained - cost
        /\ res.row = IF sold = p.amount THEN [amount |-> 0, basis |-> 0]
                     ELSE [amount |-> p.amount - sold, basis |-> p.basis - cost]
    BY <1>3 DEF ReducePosition
  <2> HIDE DEF sold
  <2>3. cost \in Nat /\ (sold = p.amount => cost = p.basis)
    BY <1>1, <1>3, <2>1, AllOfCost
  <2>4. gained \in Nat /\ s * gained <= sold * u
    <3>1. CASE sold = x
      BY <3>1
    <3>2. CASE sold # x
      <4> DEFINE g == FloorDiv(paid * sold, x)
      <4>1. gained = g
        BY <3>2
      <4>2. paid * sold \in Nat
        BY <2>1
      <4>3. g \in Nat /\ x * g <= paid * sold
        BY <4>2, FloorIs
      <4> HIDE DEF g, gained
      <4>4. s * (x * g) <= s * (paid * sold)
        <5> DEFINE l == x * g  h == paid * sold
        <5>1. l \in Nat /\ h \in Nat /\ l <= h
          BY <4>2, <4>3
        <5> HIDE DEF l, h
        <5>2. s * l <= s * h
          BY <5>1
        <5> QED
          BY <5>2 DEF l, h
      <4>5. sold * (s * paid) <= sold * (x * u)
        <5> DEFINE l == s * paid  h == x * u
        <5>1. l \in Nat /\ h \in Nat /\ l <= h
          OBVIOUS
        <5> HIDE DEF l, h
        <5>2. sold * l <= sold * h
          BY <2>1, <5>1
        <5> QED
          BY <5>2 DEF l, h
      <4>6. s * (paid * sold) = sold * (s * paid)
        BY <2>1
      <4>7. s * (x * g) = x * (s * g) /\ sold * (x * u) = x * (sold * u)
        BY <2>1, <4>3
      <4> DEFINE y == s * g  z == sold * u
      <4>8. y \in Nat /\ z \in Nat
        BY <2>1, <4>3
      <4>9. x * y \in Int /\ x * z \in Int /\ s * (paid * sold) \in Int
        BY <2>1, <4>8
      <4>10. x * y <= x * z
        BY <4>4, <4>5, <4>6, <4>7, <4>9
      <4> HIDE DEF y, z
      <4>11. y <= z
        <5>1. SUFFICES ASSUME y >= z + 1 PROVE FALSE
          BY <4>8
        <5>2. x * y >= x * (z + 1) /\ x * (z + 1) = x * z + x
          BY <4>8, <5>1
        <5> QED
          BY <4>9, <4>10, <5>2
      <4> QED
        BY <4>1, <4>3, <4>11 DEF y, z
    <3> QED
      BY <3>1, <3>2
  <2> HIDE DEF cost, gained
  <2>5. res.row.amount = p.amount - sold /\ res.row.basis = p.basis - cost
    BY <1>1, <2>1, <2>2, <2>3
  <2>6. (p.amount - sold) * u = p.amount * u - sold * u
    BY <1>1, <2>1
  <2>7. s * (p.basis - cost) = s * p.basis - s * cost /\ s * (gained - cost) = s * gained - s * cost
    BY <1>1, <2>3, <2>4
  <2>8. /\ p.amount * u \in Int /\ sold * u \in Int /\ s * p.basis \in Int
        /\ s * cost \in Int /\ s * gained \in Int
    BY <1>1, <2>1, <2>3, <2>4
  <2>9. res.realized \in Int
    BY <2>2, <2>3, <2>4
  <2> QED
    BY <2>2, <2>4, <2>5, <2>6, <2>7, <2>8, <2>9
<1> QED
  BY <1>2, <1>3

\* The executor receives no more than was quoted.
LEMMA ReceivedIsNoMore ==
  ASSUME NEW q, q.expected \in Nat, q.slippage \in Nat
  PROVE  Received(q) <= q.expected
<1> DEFINE bps == (q.slippage \div 2) + PaperExtra  cut == BpsOf(q.expected, bps)
<1>1. bps \in Nat
  <2>1. q.slippage \div 2 \in Nat /\ PaperExtra \in Nat
    BY BooksAssumption, Division
  <2> QED
    BY <2>1
<1>2. cut \in Nat
  <2> HIDE DEF bps
  <2>1. q.expected * bps \in Nat
    BY <1>1
  <2> QED
    BY <2>1, ScaleAssumption, Fraction DEF BpsOf
<1>3. Received(q) = q.expected - cut
  BY DEF Received
<1> HIDE DEF cut
<1> QED
  BY <1>2, <1>3

\* The gas a proposal is charged, at the market.
LEMMA FeeIsGas ==
  ASSUME BooksTypes, NEW c, Built(c), AtTheMarket(c)
  PROVE  Fee(c) = GasOfFill /\ GasOfFill \in Nat /\ Looked(c)[Native] = market[Native]
<1>1. Native \in c.priced /\ c.action.feeNative = Gas /\ c.snap.prices[Native].value = market[Native]
  BY DEF AtTheMarket
<1>2. Looked(c)[Native] = market[Native]
  BY <1>1, LookedUp
<1>3. Fee(c) = GasOfFill
  BY <1>1, <1>2 DEF Fee, GasOfFill, Worth
<1>4. GasOfFill \in Nat
  <2>1. Gas \in Nat /\ Native \in Tokens
    BY BooksAssumption
  <2> QED
    BY <2>1, WorthInParts DEF GasOfFill
<1> QED
  BY <1>2, <1>3, <1>4

\* A day's result changes by what was booked on it.
LEMMA DayIsBooked ==
  ASSUME LedgerTypes, NEW d \in Int,
         realized' = [realized EXCEPT ![Day(clock)] = @ + d]
  PROVE  /\ realized' \in [Days -> Int]
         /\ Total(realized, Days) \in Int /\ Total(realized', Days) = Total(realized, Days) + d
<1>1. IsFiniteSet(Days) /\ Day(clock) \in Days
  BY DaysAre
<1>2. realized \in [Days -> Int] /\ \A x \in Days : realized[x] \in Int
  BY DEF LedgerTypes
<1> DEFINE g == realized'  z == Day(clock)
<1>3. g \in [Days -> Int] /\ g[z] = realized[z] + d /\ \A x \in Days \ {z} : g[x] = realized[x]
  BY <1>1, <1>2
<1> HIDE DEF g, z
<1>4. \A x \in Days : g[x] \in Int
  BY <1>3
<1>5. z \in Days
  BY <1>1 DEF z
<1>6. /\ Total(realized, Days) \in Int /\ Total(g, Days) \in Int
      /\ Total(g, Days) = Total(realized, Days) - realized[z] + g[z]
  BY <1>1, <1>2, <1>3, <1>4, <1>5, TotalChanges
<1>7. realized[z] \in Int
  BY <1>2, <1>5
<1> QED
  BY <1>3, <1>6, <1>7 DEF g

\* A swap leaves the holdings and what was realized ahead of their cost by less than one
\* micro-USD more, and not at all where a stablecoin is worth whole ones.
LEMMA SwapEarnsNothing ==
  ASSUME BooksTypes, LedgerTypes, NEW c, Built(c), SwapWaits(c), AtTheMarket(c), PaperSwap(c)
  PROVE  \/ UNCHANGED <<pos, lp, realized, fills>>
         \/ /\ UNCHANGED lp /\ fills' = fills + 1 /\ realized' \in [Days -> Int]
            /\ Scale * Total(realized', Days) + Total(AheadOf(pos'), Tokens)
                 <= (Scale * Total(realized, Days) + Total(AheadOf(pos), Tokens))
                      + Scale * (MicroPerFill - GasOfFill)
<1>1. PICK in \in Tokens, out \in Tokens :
         /\ in # out /\ {in, out} \subseteq c.priced
         /\ in \in Stablecoins \/ out \in Stablecoins
         /\ c.action.tokenIn = Ref(in) /\ c.action.tokenOut = Ref(out)
         /\ c.action.quote.expected <= Fair(in, out, c.action.amountIn)
  BY DEF AtTheMarket, SwapWaits
<1> DEFINE a == c.action
           x == a.amountIn
           received == Received(a.quote)
           paid == Worth(in, x, Looked(c), "floor")
           res == ReducePosition(pos[in], x, paid)
           fee == Fee(c)
<1>2. x \in Nat \ {0} /\ a.quote.expected \in Nat /\ a.quote.slippage \in Nat
  BY DEF AtTheMarket, SwapWaits
<1>3. received \in Int /\ received <= a.quote.expected
  BY <1>2, ReceivedIsInteger, ReceivedIsNoMore
<1>4. Looked(c)[in] = market[in] /\ paid = Worth(in, x, market, "floor")
  <2>1. Looked(c)[in] = market[in]
    BY <1>1, LookedUp DEF AtTheMarket
  <2> QED
    BY <2>1 DEF Worth
<1>5. fee = GasOfFill /\ GasOfFill \in Nat
  BY FeeIsGas
<1>6. CASE UNCHANGED <<books, fills>>
  BY <1>6 DEF books
<1>7. CASE received > 0 /\ RecordFill(a, received, Looked(c), fee) /\ fills' = fills + 1
  <2>1. a.tokenIn.address = in /\ a.tokenOut.address = out
    BY <1>1 DEF Ref
  <2>2. /\ pos' = [pos EXCEPT ![in] = res.row, ![out] = AddPosition(@, received, paid)]
        /\ realized' = [realized EXCEPT ![Day(clock)] = @ + res.realized - fee]
        /\ UNCHANGED lp
    BY <1>7, <2>1 DEF RecordFill
  <2>3. /\ paid \in Nat /\ Scale * paid <= x * Unit(in) /\ x * Unit(in) < Scale * paid + Scale
        /\ market[in] % Ten^Decimals[in] = 0 => Scale * paid = x * Unit(in)
    BY <1>2, <1>4, WorthInParts
  <2>4. /\ received \in Nat /\ received * Unit(out) <= x * Unit(in)
        /\ market[out] % Ten^Decimals[out] = 0 => received * Unit(out) <= Scale * paid
    <3>1. received \in Nat /\ received <= Fair(in, out, x)
      <4>1. Fair(in, out, x) \in Int
        BY <1>2, FairIsInteger
      <4> HIDE DEF received
      <4> QED
        BY <1>1, <1>2, <1>3, <1>7, <4>1
    <3> HIDE DEF received, paid
    <3> QED
      BY <1>2, <1>4, <3>1, FairInParts
  <2>5. Scale \in Nat \ {0} /\ Unit(in) \in Nat /\ Unit(out) \in Nat
    BY ScaleIs, UnitsAre
  <2>6. /\ pos[in] \in [amount : Nat, basis : Nat] /\ (pos[in].amount = 0 => pos[in].basis = 0)
        /\ pos[out].amount \in Nat /\ pos[out].basis \in Nat
        /\ pos[in].amount \in Nat /\ pos[in].basis \in Nat
    BY DEF BooksTypes
  <2> HIDE DEF paid
  <2>7. /\ res.realized \in Int
        /\ Scale * res.realized + (res.row.amount * Unit(in) - Scale * res.row.basis)
             <= pos[in].amount * Unit(in) - Scale * pos[in].basis
    <3>1. res = ReducePosition(pos[in], x, paid)
      OBVIOUS
    <3> HIDE DEF res, x
    <3> QED
      BY <1>2, <2>3, <2>5, <2>6, <3>1, SaleEarnsNothing
  <2>8. res.row \in [amount : Nat, basis : Nat]
    BY <1>2, <2>6, SaleIsCovered
  <2> HIDE DEF res, received, fee
  <2> DEFINE gain == MicroPerFill
             old == AheadOf(pos)
             new == AheadOf(pos')
             fi == pos[in].amount * Unit(in) - Scale * pos[in].basis
             gi == res.row.amount * Unit(in) - Scale * res.row.basis
             fo == pos[out].amount * Unit(out) - Scale * pos[out].basis
             go == fo + (received * Unit(out) - Scale * paid)
  <2>9. received * Unit(out) - Scale * paid <= Scale * gain /\ gain \in Nat
    <3> DEFINE r == received * Unit(out)  p == Scale * paid  v == x * Unit(in)
    <3>1. r \in Nat /\ p \in Nat /\ v \in Nat /\ r <= v /\ v < p + Scale
      BY <1>2, <2>3, <2>4, <2>5
    <3>2. CASE \A t \in Stablecoins : market[t] % Ten^Decimals[t] = 0
      <4>1. gain = 0
        BY <3>2 DEF MicroPerFill
      <4>2. r <= p
        BY <1>1, <2>3, <2>4, <3>1, <3>2
      <4>3. Scale * gain = 0
        BY <2>5, <4>1
      <4>4. gain \in Nat
        BY <4>1
      <4> HIDE DEF r, p, gain
      <4>5. r - p <= Scale * gain
        BY <3>1, <4>2, <4>3
      <4> QED
        BY <4>4, <4>5 DEF r, p
    <3>3. CASE ~(\A t \in Stablecoins : market[t] % Ten^Decimals[t] = 0)
      <4>1. gain = 1
        BY <3>3 DEF MicroPerFill
      <4>2. Scale * gain = Scale
        BY <2>5, <4>1
      <4>3. gain \in Nat
        BY <4>1
      <4> HIDE DEF r, p, v, gain
      <4>4. r - p <= Scale * gain
        BY <2>5, <3>1, <4>2
      <4> QED
        BY <4>3, <4>4 DEF r, p
    <3> QED
      BY <3>2, <3>3
  <2>10. /\ \A t \in Tokens : old[t] \in Int
         /\ old[in] = fi /\ old[out] = fo /\ new[in] = gi /\ new[out] = go
         /\ \A t \in Tokens \ {in, out} : new[t] = old[t]
    <3>1. \A t \in Tokens : /\ pos[t].amount \in Nat /\ pos[t].basis \in Nat
                            /\ Unit(t) \in Nat /\ Scale \in Nat
      BY <2>5, UnitsAre DEF BooksTypes
    <3>2. /\ pos'[in] = res.row /\ pos'[out] = AddPosition(pos[out], received, paid)
          /\ \A t \in Tokens \ {in, out} : pos'[t] = pos[t]
      BY <1>1, <2>2 DEF BooksTypes
    <3>3. \A t \in Tokens : /\ old[t] = pos[t].amount * Unit(t) - Scale * pos[t].basis
                            /\ new[t] = pos'[t].amount * Unit(t) - Scale * pos'[t].basis
      BY DEF AheadOf
    <3>4. /\ pos'[out].amount = pos[out].amount + received
          /\ pos'[out].basis = pos[out].basis + paid
      BY <3>2 DEF AddPosition
    <3> HIDE DEF old, new
    <3>5. \A t \in Tokens : old[t] \in Int
      BY <3>1, <3>3
    <3>6. old[in] = fi /\ old[out] = fo /\ new[in] = gi
      BY <3>2, <3>3
    <3>7. new[out] = go
      <4>1. new[out] = (pos[out].amount + received) * Unit(out) - Scale * (pos[out].basis + paid)
        BY <3>3, <3>4
      <4>2. /\ (pos[out].amount + received) * Unit(out)
                 = pos[out].amount * Unit(out) + received * Unit(out)
            /\ Scale * (pos[out].basis + paid) = Scale * pos[out].basis + Scale * paid
        BY <2>3, <2>4, <2>5, <2>6
      <4>3. /\ pos[out].amount * Unit(out) \in Int /\ received * Unit(out) \in Int
            /\ Scale * pos[out].basis \in Int /\ Scale * paid \in Int
        BY <2>3, <2>4, <2>5, <2>6
      <4> QED
        BY <4>1, <4>2, <4>3
    <3>8. \A t \in Tokens \ {in, out} : new[t] = old[t]
      BY <3>2, <3>3
    <3> QED
      BY <3>5, <3>6, <3>7, <3>8
  <2>11. fi \in Int /\ fo \in Int /\ gi \in Int /\ go \in Int
    <3>1. /\ fi \in Int /\ fo \in Int
      BY <2>5, <2>6
    <3>2. res.row.amount \in Nat /\ res.row.basis \in Nat
      BY <2>8
    <3>3. gi \in Int
      BY <2>5, <3>2
    <3>4. received * Unit(out) \in Int /\ Scale * paid \in Int
      BY <2>3, <2>4, <2>5
    <3> QED
      BY <3>1, <3>3, <3>4
  <2>12. /\ Total(old, Tokens) \in Int
         /\ Total(new, Tokens) = Total(old, Tokens) - fi + gi - fo + go
    <3> DEFINE U == Tokens \ {in}
    <3> HIDE DEF old, new, fi, fo, gi, go
    <3>1. (\A t \in Tokens : old[t] \in Int) /\ (\A t \in Tokens : new[t] \in Int)
      BY <2>10, <2>11
    <3>2. IsFiniteSet(Tokens)
      BY BooksAssumption
    <3>3. Total(old, Tokens) = old[in] + Total(old, U) /\ Total(new, Tokens) = new[in] + Total(new, U)
      BY <3>1, <3>2, TotalSplits
    <3>4. /\ IsFiniteSet(U) /\ out \in U
          /\ (\A t \in U : old[t] \in Int) /\ (\A t \in U : new[t] \in Int)
          /\ \A t \in U \ {out} : new[t] = old[t]
      BY <1>1, <2>10, <3>1, <3>2, FS_RemoveElement
    <3> HIDE DEF U
    <3> DEFINE V == U \ {out}
    <3>5. Total(old, U) = old[out] + Total(old, V) /\ Total(new, U) = new[out] + Total(new, V)
      BY <3>4, TotalSplits
    <3>6. IsFiniteSet(V) /\ (\A t \in V : old[t] \in Int) /\ (\A t \in V : new[t] = old[t])
      BY <3>4, FS_RemoveElement
    <3> HIDE DEF V
    <3>7. Total(old, V) \in Int /\ Total(new, V) = Total(old, V)
      BY <3>6, TotalIsInt, TotalOfSame
    <3> QED
      BY <2>10, <2>11, <3>3, <3>5, <3>7
  <2>13. /\ realized' \in [Days -> Int] /\ Total(realized, Days) \in Int
         /\ Total(realized', Days) = Total(realized, Days) + (res.realized - fee)
    <3>1. res.realized - fee \in Int
      BY <1>5, <2>7
    <3>2. realized[Day(clock)] \in Int
      BY DaysAre DEF LedgerTypes
    <3>3. realized[Day(clock)] + res.realized - fee = realized[Day(clock)] + (res.realized - fee)
      BY <1>5, <2>7, <3>2
    <3>4. realized' = [realized EXCEPT ![Day(clock)] = @ + (res.realized - fee)]
      BY <2>2, <3>3
    <3> QED
      BY <3>1, <3>4, DayIsBooked
  <2>14. Scale * Total(realized', Days)
           = Scale * Total(realized, Days) + Scale * res.realized - Scale * fee
    BY <1>5, <2>5, <2>7, <2>13
  <2>15. Scale * (gain - GasOfFill) = Scale * gain - Scale * fee
    <3> HIDE DEF gain
    <3> QED
      BY <1>5, <2>5, <2>9
  <2>16. /\ Scale * Total(realized, Days) \in Int /\ Scale * res.realized \in Int
         /\ Scale * fee \in Int /\ Scale * gain \in Int
    <3> HIDE DEF gain
    <3> QED
      BY <1>5, <2>5, <2>7, <2>9, <2>13
  <2>17. Scale * res.realized + gi <= fi /\ go - fo <= Scale * gain
    <3> DEFINE r == received * Unit(out) - Scale * paid
    <3>1. r \in Int
      BY <2>3, <2>4, <2>5
    <3> HIDE DEF fo, r, gain
    <3>2. go = fo + r
      BY DEF r
    <3>3. r <= Scale * gain
      BY <2>9 DEF r
    <3> HIDE DEF go
    <3> QED
      BY <2>7, <2>11, <2>16, <3>1, <3>2, <3>3
  <2> HIDE DEF old, new, fi, gi, fo, go, gain
  <2>18. Scale * Total(realized', Days) + Total(new, Tokens)
           <= (Scale * Total(realized, Days) + Total(old, Tokens)) + Scale * (gain - GasOfFill)
    BY <2>11, <2>12, <2>14, <2>15, <2>16, <2>17
  <2> QED
    BY <1>7, <2>2, <2>13, <2>18 DEF old, new, gain
<1> QED
  <2>1. \/ UNCHANGED <<books, fills>>
        \/ received > 0 /\ RecordFill(a, received, Looked(c), fee) /\ fills' = fills + 1
    BY DEF PaperSwap, FillIsBooked
  <2> HIDE DEF a, x, received, paid, res, fee
  <2> QED
    BY <1>6, <1>7, <2>1

\* What the whole pool is worth, and how far an LP position is ahead of its cost, in parts of
\* the pool's supply.
PoolUnit == pool.r0 * Unit(Token0) + pool.r1 * Unit(Token1)

LpAhead(p) == p.tokens * PoolUnit - pool.supply * (Scale * p.capital)

LEMMA LegScales ==
  ASSUME NEW a \in Nat, NEW b \in Nat, NEW c \in Nat, NEW d \in Nat, NEW u \in Nat, a * b <= c * d
  PROVE  a * (b * u) <= c * (d * u)
<1> DEFINE l == a * b  h == c * d
<1>1. l \in Nat /\ h \in Nat /\ l <= h
  OBVIOUS
<1>2. a * (b * u) = l * u /\ c * (d * u) = h * u
  OBVIOUS
<1> HIDE DEF l, h
<1>3. l * u <= h * u
  BY <1>1
<1> QED
  BY <1>2, <1>3

LEMMA TimesKeeps ==
  ASSUME NEW q \in Nat, NEW a \in Int, NEW b \in Int, a <= b
  PROVE  q * a <= q * b /\ q * a \in Int /\ q * b \in Int
OBVIOUS

\* What is minted is worth no more than what was paid in.
LEMMA AddInParts ==
  ASSUME NEW m \in Nat, NEW q \in Nat, NEW s \in Nat,
         NEW a0 \in Nat, NEW r0 \in Nat, NEW u0 \in Nat, NEW w0 \in Nat,
         NEW a1 \in Nat, NEW r1 \in Nat, NEW u1 \in Nat, NEW w1 \in Nat,
         m * r0 <= q * a0, m * r1 <= q * a1, a0 * u0 <= s * w0, a1 * u1 <= s * w1
  PROVE  m * (r0 * u0 + r1 * u1) <= q * (s * (w0 + w1))
<1> DEFINE v0 == a0 * u0  v1 == a1 * u1  p0 == r0 * u0  p1 == r1 * u1  x0 == s * w0  x1 == s * w1
<1>1. v0 \in Nat /\ v1 \in Nat /\ p0 \in Nat /\ p1 \in Nat /\ x0 \in Nat /\ x1 \in Nat
  OBVIOUS
<1>2. m * p0 <= q * v0 /\ m * p1 <= q * v1
  BY LegScales
<1>3. v0 <= x0 /\ v1 <= x1 /\ s * (w0 + w1) = x0 + x1
  OBVIOUS
<1> HIDE DEF v0, v1, p0, p1, x0, x1
<1>4. q * v0 <= q * x0 /\ q * v1 <= q * x1
  BY <1>1, <1>3, TimesKeeps
<1>5. m * (p0 + p1) = m * p0 + m * p1 /\ q * (x0 + x1) = q * x0 + q * x1
  BY <1>1
<1>6. /\ m * p0 \in Int /\ m * p1 \in Int /\ q * v0 \in Int /\ q * v1 \in Int
      /\ q * x0 \in Int /\ q * x1 \in Int
  BY <1>1
<1>7. m * (p0 + p1) <= q * (x0 + x1)
  BY <1>2, <1>4, <1>5, <1>6
<1> QED
  BY <1>3, <1>7 DEF p0, p1

\* What is paid out is worth no more than what was burned.
LEMMA RemoveInParts ==
  ASSUME NEW n \in Nat, NEW q \in Nat, NEW s \in Nat,
         NEW a0 \in Nat, NEW r0 \in Nat, NEW u0 \in Nat, NEW w0 \in Nat,
         NEW a1 \in Nat, NEW r1 \in Nat, NEW u1 \in Nat, NEW w1 \in Nat,
         q * a0 <= n * r0, q * a1 <= n * r1, s * w0 <= a0 * u0, s * w1 <= a1 * u1
  PROVE  q * (s * (w0 + w1)) <= n * (r0 * u0 + r1 * u1)
<1> DEFINE v0 == a0 * u0  v1 == a1 * u1  p0 == r0 * u0  p1 == r1 * u1  x0 == s * w0  x1 == s * w1
<1>1. v0 \in Nat /\ v1 \in Nat /\ p0 \in Nat /\ p1 \in Nat /\ x0 \in Nat /\ x1 \in Nat
  OBVIOUS
<1>2. q * v0 <= n * p0 /\ q * v1 <= n * p1
  BY LegScales
<1>3. x0 <= v0 /\ x1 <= v1 /\ s * (w0 + w1) = x0 + x1
  OBVIOUS
<1> HIDE DEF v0, v1, p0, p1, x0, x1
<1>4. q * x0 <= q * v0 /\ q * x1 <= q * v1
  BY <1>1, <1>3, TimesKeeps
<1>5. n * (p0 + p1) = n * p0 + n * p1 /\ q * (x0 + x1) = q * x0 + q * x1
  BY <1>1
<1>6. /\ n * p0 \in Int /\ n * p1 \in Int /\ q * v0 \in Int /\ q * v1 \in Int
      /\ q * x0 \in Int /\ q * x1 \in Int
  BY <1>1
<1>7. q * (x0 + x1) <= n * (p0 + p1)
  BY <1>2, <1>4, <1>5, <1>6
<1> QED
  BY <1>3, <1>7 DEF p0, p1

\* What is booked beside a change of the position.
LEMMA BookedBeside ==
  ASSUME NEW q \in Nat, NEW s \in Nat, NEW gas \in Nat, NEW r \in Int, NEW d \in Int,
         NEW l \in Int, NEW k \in Int, q * (s * d) + k <= l
  PROVE  q * (s * (r + (d - gas))) + k <= q * (s * r) + l - q * (s * gas)
<1> DEFINE sr == s * r  sd == s * d  sg == s * gas
<1>1. sr \in Int /\ sd \in Int /\ sg \in Int /\ s * (r + (d - gas)) = sr + sd - sg
  OBVIOUS
<1> HIDE DEF sr, sd, sg
<1>2. q * (sr + sd - sg) = q * sr + q * sd - q * sg
  BY <1>1
<1>3. q * sr \in Int /\ q * sd \in Int /\ q * sg \in Int
  BY <1>1
<1>4. q * sd + k <= l
  BY DEF sd
<1>5. q * (sr + sd - sg) + k <= q * sr + l - q * sg
  BY <1>2, <1>3, <1>4
<1> QED
  BY <1>1, <1>5 DEF sr, sg

LEMMA PoolIs ==
  ASSUME BooksTypes
  PROVE  /\ pool.r0 \in Nat \ {0} /\ pool.r1 \in Nat \ {0} /\ pool.supply \in Nat \ {0}
         /\ Token0 \in Tokens /\ Token1 \in Tokens
         /\ Scale \in Nat \ {0} /\ Unit(Token0) \in Nat /\ Unit(Token1) \in Nat
         /\ PoolUnit \in Nat
         /\ lp.tokens \in Nat /\ lp.capital \in Nat
<1>1. /\ pool.r0 \in Nat \ {0} /\ pool.r1 \in Nat \ {0} /\ pool.supply \in Nat \ {0}
      /\ Token0 \in Tokens /\ Token1 \in Tokens
      /\ lp.tokens \in Nat /\ lp.capital \in Nat
  BY BooksAssumption DEF BooksTypes
<1>2. Scale \in Nat \ {0} /\ Unit(Token0) \in Nat /\ Unit(Token1) \in Nat
  BY <1>1, ScaleIs, UnitsAre
<1> DEFINE u0 == Unit(Token0)  u1 == Unit(Token1)
<1>3. u0 \in Nat /\ u1 \in Nat /\ PoolUnit = pool.r0 * u0 + pool.r1 * u1
  BY <1>2 DEF PoolUnit
<1> HIDE DEF u0, u1
<1>4. PoolUnit \in Nat
  BY <1>1, <1>3
<1> QED
  BY <1>1, <1>2, <1>4

LEMMA AddEarnsNothing ==
  ASSUME BooksTypes, LedgerTypes, NEW c, Built(c), AddWaits(c), AtTheMarket(c), PaperAdd(c)
  PROVE  \/ UNCHANGED <<pos, lp, realized, fills>>
         \/ /\ UNCHANGED pos /\ fills' = fills + 1 /\ realized' \in [Days -> Int]
            /\ Total(realized, Days) \in Int /\ Total(realized', Days) \in Int
            /\ pool.supply * (Scale * Total(realized', Days)) + LpAhead(lp')
                 <= pool.supply * (Scale * Total(realized, Days)) + LpAhead(lp)
                      - pool.supply * (Scale * GasOfFill)
<1> DEFINE a0 == c.plan.a0  a1 == c.plan.a1
           m == Minted(c.pool, a0, a1)
           w0 == Worth(Token0, a0, Looked(c), "ceil")
           w1 == Worth(Token1, a1, Looked(c), "ceil")
           q == pool.supply  s == Scale
           u0 == Unit(Token0)  u1 == Unit(Token1)
<1>1. /\ pool.r0 \in Nat \ {0} /\ pool.r1 \in Nat \ {0} /\ q \in Nat \ {0}
      /\ Token0 \in Tokens /\ Token1 \in Tokens
      /\ s \in Nat \ {0} /\ u0 \in Nat /\ u1 \in Nat /\ PoolUnit \in Nat
      /\ lp.tokens \in Nat /\ lp.capital \in Nat
  BY PoolIs
<1>2. a0 \in Nat /\ a1 \in Nat /\ c.pool = pool /\ {Token0, Token1} \subseteq c.priced
  BY DEF AddWaits, AtTheMarket
<1>3. CASE UNCHANGED <<books, fills>>
  BY <1>3 DEF books
<1>4. CASE /\ m > 0 /\ BookAdd(m, w0 + w1) /\ RecordPnl(0, 0, Fee(c))
           /\ UNCHANGED pos /\ fills' = fills + 1
  <2>1. Looked(c)[Token0] = market[Token0] /\ Looked(c)[Token1] = market[Token1]
    BY <1>2, LookedUp DEF AtTheMarket
  <2>2. w0 \in Nat /\ w1 \in Nat /\ a0 * u0 <= s * w0 /\ a1 * u1 <= s * w1
    BY <1>1, <1>2, <2>1, WorthInParts
  <2>3. m \in Nat /\ m * pool.r0 <= q * a0 /\ m * pool.r1 <= q * a1
    <3> DEFINE n0 == a0 * q  n1 == a1 * q
               f0 == FloorDiv(n0, pool.r0)  f1 == FloorDiv(n1, pool.r1)
    <3>1. n0 \in Nat /\ n1 \in Nat /\ n0 = q * a0 /\ n1 = q * a1
      BY <1>1, <1>2
    <3>2. m = Min({f0, f1})
      BY <1>2 DEF Minted
    <3> HIDE DEF n0, n1, m
    <3>3. f0 \in Nat /\ pool.r0 * f0 <= n0 /\ f1 \in Nat /\ pool.r1 * f1 <= n1
      BY <1>1, <3>1, FloorIs
    <3> HIDE DEF f0, f1
    <3>4. m \in Nat /\ m <= f0 /\ m <= f1
      <4>1. \E n \in {f0, f1} : \A k \in {f0, f1} : n <= k
        BY <3>3
      <4>2. Min({f0, f1}) \in {f0, f1} /\ \A k \in {f0, f1} : Min({f0, f1}) <= k
        BY <4>1 DEF Min
      <4> QED
        BY <3>2, <3>3, <4>2
    <3>5. pool.r0 * m <= pool.r0 * f0 /\ pool.r1 * m <= pool.r1 * f1
      BY <1>1, <3>3, <3>4
    <3>6. /\ pool.r0 * m = m * pool.r0 /\ pool.r1 * m = m * pool.r1
          /\ m * pool.r0 \in Int /\ m * pool.r1 \in Int
          /\ pool.r0 * f0 \in Int /\ pool.r1 * f1 \in Int
      BY <1>1, <3>3, <3>4
    <3> QED
      BY <3>1, <3>3, <3>4, <3>5, <3>6
  <2>4. lp' = [tokens |-> lp.tokens + m, capital |-> lp.capital + (w0 + w1)]
    BY <1>4 DEF BookAdd
  <2>5. lp'.tokens = lp.tokens + m /\ lp'.capital = lp.capital + (w0 + w1)
    BY <2>4
  <2>6. Fee(c) = GasOfFill /\ GasOfFill \in Nat
    BY FeeIsGas
  <2>7. m * (pool.r0 * u0 + pool.r1 * u1) <= q * (s * (w0 + w1))
    <3> HIDE DEF a0, a1, m, w0, w1, q, s, u0, u1
    <3> QED
      BY <1>1, <1>2, <2>2, <2>3, AddInParts
  <2>8. PoolUnit = pool.r0 * u0 + pool.r1 * u1
    BY DEF PoolUnit
  <2> HIDE DEF m, w0, w1, q, s, u0, u1
  <2> DEFINE w == w0 + w1
  <2>9. LpAhead(lp') <= LpAhead(lp) /\ LpAhead(lp) \in Int /\ LpAhead(lp') \in Int
    <3>1. w \in Nat /\ m * PoolUnit <= q * (s * w)
      BY <2>2, <2>7, <2>8
    <3>2. /\ LpAhead(lp) = lp.tokens * PoolUnit - q * (s * lp.capital)
          /\ LpAhead(lp') = (lp.tokens + m) * PoolUnit - q * (s * (lp.capital + w))
      BY <2>5 DEF LpAhead, q, s
    <3> HIDE DEF w
    <3>3. /\ (lp.tokens + m) * PoolUnit = lp.tokens * PoolUnit + m * PoolUnit
          /\ s * (lp.capital + w) = s * lp.capital + s * w
      BY <1>1, <2>3, <3>1
    <3>4. s * lp.capital \in Nat /\ s * w \in Nat
      BY <1>1, <3>1
    <3>5. q * (s * lp.capital + s * w) = q * (s * lp.capital) + q * (s * w)
      BY <1>1, <3>4
    <3>6. /\ lp.tokens * PoolUnit \in Int /\ m * PoolUnit \in Int
          /\ q * (s * lp.capital) \in Int /\ q * (s * w) \in Int
      BY <1>1, <2>3, <3>4
    <3> QED
      BY <3>1, <3>2, <3>3, <3>5, <3>6
  <2>10. /\ realized' \in [Days -> Int] /\ Total(realized, Days) \in Int
         /\ Total(realized', Days) = Total(realized, Days) + (0 - GasOfFill)
    <3>1. 0 - GasOfFill \in Int
      BY <2>6
    <3>2. realized[Day(clock)] \in Int
      BY DaysAre DEF LedgerTypes
    <3>3. realized[Day(clock)] + 0 - 0 - Fee(c) = realized[Day(clock)] + (0 - GasOfFill)
      BY <2>6, <3>2
    <3>4. realized' = [realized EXCEPT ![Day(clock)] = @ + (0 - GasOfFill)]
      BY <1>4, <3>3 DEF RecordPnl
    <3> QED
      BY <3>1, <3>4, DayIsBooked
  <2>11. q * (s * 0) + LpAhead(lp') <= LpAhead(lp)
    <3>1. q * (s * 0) = 0
      BY <1>1
    <3> QED
      BY <2>9, <3>1
  <2> DEFINE r == Total(realized, Days)  l == LpAhead(lp)  k == LpAhead(lp')
  <2>12. q * (s * (r + (0 - GasOfFill))) + k <= q * (s * r) + l - q * (s * GasOfFill)
    <3>1. r \in Int /\ l \in Int /\ k \in Int /\ q * (s * 0) + k <= l
      BY <2>9, <2>10, <2>11
    <3> HIDE DEF r, l, k
    <3> QED
      BY <1>1, <2>6, <3>1, BookedBeside
  <2>13. Total(realized', Days) \in Int
    BY <2>6, <2>10
  <2> QED
    BY <1>4, <2>10, <2>12, <2>13 DEF q, s
<1> QED
  <2> HIDE DEF m, w0, w1
  <2> QED
    BY <1>3, <1>4 DEF PaperAdd, m, w0, w1

LEMMA RemoveEarnsNothing ==
  ASSUME BooksTypes, LedgerTypes, NEW c, Built(c), RemoveWaits(c), AtTheMarket(c), PaperRemove(c)
  PROVE  \/ UNCHANGED <<pos, lp, realized, fills>>
         \/ /\ UNCHANGED pos /\ fills' = fills + 1 /\ realized' \in [Days -> Int]
            /\ Total(realized, Days) \in Int /\ Total(realized', Days) \in Int
            /\ pool.supply * (Scale * Total(realized', Days)) + LpAhead(lp')
                 <= pool.supply * (Scale * Total(realized, Days)) + LpAhead(lp)
                      - pool.supply * (Scale * GasOfFill)
<1> DEFINE n == c.plan.tokens
           out == ShareOfReserves(c.pool, n)
           w0 == Worth(Token0, out.a0, Looked(c), "floor")
           w1 == Worth(Token1, out.a1, Looked(c), "floor")
           cost == CostReleased(n)
           q == pool.supply  s == Scale
           u0 == Unit(Token0)  u1 == Unit(Token1)
<1>1. /\ pool.r0 \in Nat \ {0} /\ pool.r1 \in Nat \ {0} /\ q \in Nat \ {0}
      /\ Token0 \in Tokens /\ Token1 \in Tokens
      /\ s \in Nat \ {0} /\ u0 \in Nat /\ u1 \in Nat /\ PoolUnit \in Nat
      /\ lp.tokens \in Nat /\ lp.capital \in Nat
  BY PoolIs
<1>2. n \in Nat \ {0} /\ c.pool = pool /\ {Token0, Token1} \subseteq c.priced
  BY DEF RemoveWaits, AtTheMarket
<1>3. CASE UNCHANGED <<books, fills>>
  BY <1>3 DEF books
<1>4. CASE /\ n <= lp.tokens /\ BookRemove(n) /\ RecordPnl(w0 + w1, cost, Fee(c))
           /\ UNCHANGED pos /\ fills' = fills + 1
  <2>1. Looked(c)[Token0] = market[Token0] /\ Looked(c)[Token1] = market[Token1]
    BY <1>2, LookedUp DEF AtTheMarket
  <2>2. /\ out.a0 \in Nat /\ q * out.a0 <= n * pool.r0
        /\ out.a1 \in Nat /\ q * out.a1 <= n * pool.r1
    <3> DEFINE n0 == n * pool.r0  n1 == n * pool.r1
    <3>1. n0 \in Nat /\ n1 \in Nat
      BY <1>1, <1>2
    <3>2. out.a0 = FloorDiv(n0, q) /\ out.a1 = FloorDiv(n1, q)
      BY <1>2 DEF ShareOfReserves
    <3> HIDE DEF n0, n1, out
    <3>3. /\ out.a0 \in Nat /\ q * out.a0 <= n0
          /\ out.a1 \in Nat /\ q * out.a1 <= n1
      BY <1>1, <3>1, <3>2, FloorIs
    <3> QED
      BY <3>3 DEF n0, n1
  <2>3. w0 \in Nat /\ w1 \in Nat /\ s * w0 <= out.a0 * u0 /\ s * w1 <= out.a1 * u1
    <3> HIDE DEF out
    <3> QED
      BY <1>1, <2>1, <2>2, WorthInParts
  <2>4. cost \in Nat /\ cost <= lp.capital /\ (n = lp.tokens => cost = lp.capital)
    <3>1. lp.tokens \in Nat \ {0} /\ n \in Nat /\ n <= lp.tokens
      BY <1>1, <1>2, <1>4
    <3>2. cost = CeilDiv(lp.capital * n, lp.tokens)
      BY DEF CostReleased
    <3> HIDE DEF cost, n
    <3> QED
      BY <1>1, <3>1, <3>2, AllOfCost
  <2>5. lp' = [tokens |-> lp.tokens - n,
               capital |-> IF n = lp.tokens THEN 0 ELSE lp.capital - cost]
    BY <1>4 DEF BookRemove
  <2> HIDE DEF cost
  <2>6. lp'.tokens = lp.tokens - n /\ lp'.capital = lp.capital - cost
    BY <1>1, <2>4, <2>5
  <2>7. Fee(c) = GasOfFill /\ GasOfFill \in Nat
    BY FeeIsGas
  <2>8. q * (s * (w0 + w1)) <= n * (pool.r0 * u0 + pool.r1 * u1)
    <3> HIDE DEF n, out, w0, w1, q, s, u0, u1
    <3> QED
      BY <1>1, <1>2, <2>2, <2>3, RemoveInParts
  <2>9. PoolUnit = pool.r0 * u0 + pool.r1 * u1
    BY DEF PoolUnit
  <2> HIDE DEF n, out, w0, w1, q, s, u0, u1
  <2> DEFINE w == w0 + w1
  <2>10. /\ q * (s * (w - cost)) + LpAhead(lp') <= LpAhead(lp)
         /\ LpAhead(lp) \in Int /\ LpAhead(lp') \in Int
    <3>1. w \in Nat /\ q * (s * w) <= n * PoolUnit
      BY <2>3, <2>8, <2>9
    <3>2. /\ LpAhead(lp) = lp.tokens * PoolUnit - q * (s * lp.capital)
          /\ LpAhead(lp') = (lp.tokens - n) * PoolUnit - q * (s * (lp.capital - cost))
      BY <2>6 DEF LpAhead, q, s
    <3> HIDE DEF w
    <3>3. /\ (lp.tokens - n) * PoolUnit = lp.tokens * PoolUnit - n * PoolUnit
          /\ s * (lp.capital - cost) = s * lp.capital - s * cost
          /\ s * (w - cost) = s * w - s * cost
      BY <1>1, <1>2, <2>4, <3>1
    <3>4. s * lp.capital \in Nat /\ s * w \in Nat /\ s * cost \in Nat
      BY <1>1, <2>4, <3>1
    <3>5. /\ q * (s * lp.capital - s * cost) = q * (s * lp.capital) - q * (s * cost)
          /\ q * (s * w - s * cost) = q * (s * w) - q * (s * cost)
      BY <1>1, <3>4
    <3>6. /\ lp.tokens * PoolUnit \in Int /\ n * PoolUnit \in Int
          /\ q * (s * lp.capital) \in Int /\ q * (s * w) \in Int /\ q * (s * cost) \in Int
      BY <1>1, <1>2, <3>4
    <3> QED
      BY <3>1, <3>2, <3>3, <3>5, <3>6
  <2> DEFINE d == w - cost
  <2>11. d \in Int
    BY <2>3, <2>4
  <2>12. /\ realized' \in [Days -> Int] /\ Total(realized, Days) \in Int
         /\ Total(realized', Days) = Total(realized, Days) + (d - GasOfFill)
    <3>1. d - GasOfFill \in Int
      BY <2>7, <2>11
    <3>2. realized[Day(clock)] \in Int
      BY DaysAre DEF LedgerTypes
    <3>3. realized[Day(clock)] + (w0 + w1) - cost - Fee(c) = realized[Day(clock)] + (d - GasOfFill)
      BY <2>3, <2>4, <2>7, <3>2
    <3>4. realized' = [realized EXCEPT ![Day(clock)] = @ + (d - GasOfFill)]
      BY <1>4, <3>3 DEF RecordPnl
    <3> HIDE DEF d
    <3> QED
      BY <3>1, <3>4, DayIsBooked
  <2> DEFINE r == Total(realized, Days)  l == LpAhead(lp)  k == LpAhead(lp')
  <2>13. q * (s * (r + (d - GasOfFill))) + k <= q * (s * r) + l - q * (s * GasOfFill)
    <3>1. r \in Int /\ l \in Int /\ k \in Int /\ q * (s * d) + k <= l
      BY <2>10, <2>12
    <3> HIDE DEF r, l, k, d
    <3> QED
      BY <1>1, <2>7, <2>11, <3>1, BookedBeside
  <2>14. Total(realized', Days) \in Int
    BY <2>7, <2>11, <2>12
  <2> HIDE DEF d
  <2> QED
    BY <1>4, <2>12, <2>13, <2>14 DEF q, s
<1> QED
  <2> HIDE DEF w0, w1, cost
  <2> QED
    BY <1>3, <1>4 DEF PaperRemove, w0, w1, cost

\* What a proposal carries of the market it was priced at.
LEMMA StampsAre ==
  ASSUME NEW tokens \in SUBSET Tokens, NEW prices, NEW at, NEW t \in tokens
  PROVE  PriceStamps(tokens, prices, at)[t].value = prices[t]
BY DEF PriceStamps, Stamp

LEMMA SwapIsAtTheMarket ==
  ASSUME BooksTypes, NEW decision \in {"OPEN", "REDUCE", "CLOSE"}, NEW token \in Tokens,
         NEW notional \in Notionals, NEW short \in {0, 1},
         BuildSwap(decision, token, notional, short)
  PROVE  AtTheMarket(cycle')
<1> DEFINE isExit == decision \in {"REDUCE", "CLOSE"}
<1>1. PICK funding \in Funding(token, isExit) :
         LET in == IF isExit THEN token ELSE funding
             out == IF isExit THEN funding ELSE token
             amount == SwapAmount(decision, token, in, notional)
             expected == Fair(in, out, amount) - short
         IN  /\ amount > 0 /\ expected > 0
             /\ cycle' = SwapProposal(in, out, amount, expected, isExit)
  BY DEF BuildSwap
<1> DEFINE in == IF isExit THEN token ELSE funding
           out == IF isExit THEN funding ELSE token
           amount == SwapAmount(decision, token, in, notional)
           expected == Fair(in, out, amount) - short
<1>2. funding \in Tokens /\ funding # token /\ funding \in Stablecoins
  BY BooksAssumption DEF Funding
<1>3. in \in Tokens /\ out \in Tokens /\ in # out /\ (in \in Stablecoins \/ out \in Stablecoins)
  BY <1>2
<1>4. cycle' = SwapProposal(in, out, amount, expected, isExit) /\ amount > 0 /\ expected > 0
  BY <1>1
<1> HIDE DEF in, out
<1>5. amount \in Nat
  <2>1. pos[token].amount \in Nat /\ market[in] \in Nat \ {0} /\ notional \in Nat
    BY <1>3, BooksAssumption DEF BooksTypes
  <2>2. UsdToTokenUnits(notional, Decimals[in], market[in]) \in Nat
    BY <1>3, <2>1, UnitsAreNatural
  <2> QED
    BY <2>1, <2>2 DEF SwapAmount
<1>6. expected \in Int /\ expected <= Fair(in, out, amount)
  <2> HIDE DEF amount
  <2>1. Fair(in, out, amount) \in Int
    BY <1>3, <1>5, FairIsInteger
  <2> QED
    BY <2>1
<1> HIDE DEF amount, expected, isExit
<1> DEFINE c == SwapProposal(in, out, amount, expected, isExit)
<1>7. c.priced = {in, out, Native} /\ c.priced \in SUBSET Tokens
  BY <1>3, BooksAssumption DEF SwapProposal
<1>8. c.snap.prices = PriceStamps({in, out, Native}, market, clock)
  BY DEF SwapProposal
<1>9. \A t \in c.priced : c.snap.prices[t].value = market[t]
  BY <1>7, <1>8, StampsAre
<1>10. /\ c.action.kind = "swap" /\ c.action.amountIn = amount /\ c.action.feeNative = Gas
       /\ c.action.tokenIn = Ref(in) /\ c.action.tokenOut = Ref(out)
       /\ c.action.quote = Quote(expected, policy.maxSlippage)
  BY DEF SwapProposal, Keyed, Base
<1>11. c.action.quote.expected = expected
  BY <1>10 DEF Quote
<1> HIDE DEF c
<1>12. AtTheMarket(c)
  BY <1>3, <1>4, <1>6, <1>7, <1>9, <1>10, <1>11 DEF AtTheMarket
<1> QED
  BY <1>4, <1>12 DEF c

LEMMA LpIsAtTheMarket ==
  ASSUME NEW read, read.prices = market, NEW action, NEW plan,
         action.feeNative = Gas, NEW c, c = LpProposal(action, read, plan),
         Keyed(action).kind = action.kind, Keyed(action).feeNative = action.feeNative
  PROVE  /\ \A t \in c.priced : c.snap.prices[t].value = market[t]
         /\ {Native, Token0, Token1} \subseteq c.priced /\ c.action.feeNative = Gas
         /\ c.action.kind = action.kind /\ c.plan = plan /\ c.pool = read.pool
<1>1. /\ c.priced = {Token0, Token1, Native} /\ c.priced \in SUBSET Tokens
      /\ c.snap.prices = PriceStamps({Token0, Token1, Native}, read.prices, read.at)
      /\ c.action = Keyed(action) /\ c.plan = plan /\ c.pool = read.pool
  BY BooksAssumption DEF LpProposal
<1>2. \A t \in c.priced : c.snap.prices[t].value = market[t]
  BY <1>1, StampsAre
<1> QED
  BY <1>1, <1>2

LEMMA AddIsAtTheMarket ==
  ASSUME NEW read, read.prices = market, read.pool = pool,
         NEW capital, AddLiquidity(read, capital)
  PROVE  AtTheMarket(cycle')
<1> DEFINE half == capital \div 2
           desired0 == UsdToTokenUnits(half, Decimals[Token0], read.prices[Token0])
           desired1 == UsdToTokenUnits(capital - half, Decimals[Token1], read.prices[Token1])
           q == V2AddQuote(pool, desired0, desired1)
           quote == Quote(q.minted, policy.lp.maxSlippage)
           action == [Base("lp_add", Token0, Token1, q.a0, quote, Router)
                         EXCEPT !.lp = [LpLeg EXCEPT !.amountB = q.a1]]
           plan == [kind |-> "add", a0 |-> q.a0, a1 |-> q.a1, min |-> quote.min]
           c == LpProposal(action, read, plan)
<1>1. cycle' = c
  BY DEF AddLiquidity
<1> HIDE DEF q, quote
<1>2. action.kind = "lp_add" /\ action.feeNative = Gas
  BY DEF Base
<1>3. Keyed(action).kind = action.kind /\ Keyed(action).feeNative = action.feeNative
  BY DEF Keyed, Base
<1>4. c = LpProposal(action, read, plan)
  OBVIOUS
<1> HIDE DEF action, plan, c
<1>5. /\ \A t \in c.priced : c.snap.prices[t].value = market[t]
      /\ {Native, Token0, Token1} \subseteq c.priced /\ c.action.feeNative = Gas
      /\ c.action.kind = action.kind /\ c.plan = plan /\ c.pool = read.pool
  BY <1>2, <1>3, <1>4, LpIsAtTheMarket
<1> QED
  BY <1>1, <1>2, <1>5 DEF AtTheMarket

LEMMA RemoveIsAtTheMarket ==
  ASSUME BooksTypes, NEW read, read.prices = market, read.pool = pool,
         NEW all \in BOOLEAN, RemoveLiquidity(read, all)
  PROVE  AtTheMarket(cycle')
<1> DEFINE half == lp.tokens \div 2
           tokens == IF all \/ half = 0 THEN lp.tokens ELSE half
           share == ShareOfReserves(pool, tokens)
           quote == Quote(share.a1, policy.lp.maxSlippage)
           action == [Base("lp_remove", Token0, Token1, share.a0, quote, Router)
                         EXCEPT !.lp = [LpLeg EXCEPT !.lpTokens = tokens]]
           plan == [kind |-> "remove", tokens |-> tokens,
                    min0 |-> Minimum(share.a0, policy.lp.maxSlippage), min1 |-> quote.min]
           c == LpProposal(action, read, plan)
<1>1. cycle' = c /\ lp.tokens > 0
  BY DEF RemoveLiquidity
<1>2. tokens > 0
  <2>1. lp.tokens \in Nat
    BY DEF BooksTypes
  <2>2. half \in Nat
    BY <2>1, Division
  <2> HIDE DEF half
  <2> QED
    BY <1>1, <2>2
<1> HIDE DEF tokens, share, quote
<1>3. action.kind = "lp_remove" /\ action.feeNative = Gas /\ plan.tokens = tokens
  BY DEF Base
<1>4. Keyed(action).kind = action.kind /\ Keyed(action).feeNative = action.feeNative
  BY DEF Keyed, Base
<1>5. c = LpProposal(action, read, plan)
  OBVIOUS
<1> HIDE DEF action, plan, c
<1>6. /\ \A t \in c.priced : c.snap.prices[t].value = market[t]
      /\ {Native, Token0, Token1} \subseteq c.priced /\ c.action.feeNative = Gas
      /\ c.action.kind = action.kind /\ c.plan = plan /\ c.pool = read.pool
  BY <1>3, <1>4, <1>5, LpIsAtTheMarket
<1> QED
  BY <1>1, <1>2, <1>3, <1>6 DEF AtTheMarket

\* What the running cycle has read or built.
CycleIsAtTheMarket ==
  cycle # Missing =>
    /\ cycle.stage = "read" => cycle.pool = pool /\ cycle.prices = market
    /\ cycle.stage = "built" => AtTheMarket(cycle)

\* A step moves the market or leaves it.
LEMMA MarketMoves ==
  ASSUME moves \in Nat, [Next]_vars
  PROVE  /\ moves' \in Nat
         /\ moves' = 0 => moves = 0 /\ UNCHANGED <<market, pool>>
<1>1. ASSUME UNCHANGED <<market, pool, moves>>
      PROVE  moves' \in Nat /\ (moves' = 0 => moves = 0 /\ UNCHANGED <<market, pool>>)
  BY <1>1
<1>2. ASSUME NEW d \in {"OPEN", "REDUCE", "CLOSE"}, NEW t \in Tokens, NEW n \in Notionals,
             NEW short \in {0, 1}, BuildSwap(d, t, n, short)
      PROVE  UNCHANGED <<market, pool, moves>>
  BY <1>2 DEF BuildSwap, world
<1>3. ASSUME NEW d \in {"ADD_LIQUIDITY", "REMOVE_LIQUIDITY", "EXIT", "HOLD"}, NEW n \in Notionals,
             BuildLp(d, n)
      PROVE  UNCHANGED <<market, pool, moves>>
  BY <1>3 DEF BuildLp, world
<1>4. ReadPool \/ Tick \/ Decide \/ UNCHANGED vars => UNCHANGED <<market, pool, moves>>
  BY DEF ReadPool, Tick, Decide, vars, world
<1>5. ASSUME NEW t \in Tokens, NEW p \in Prices[t], MovePrice(t, p) PROVE moves' = moves + 1
  BY <1>5 DEF MovePrice
<1>6. ASSUME NEW p \in Pools, MovePool(p) PROVE moves' = moves + 1
  BY <1>6 DEF MovePool
<1>7. ASSUME NEW p \in Policies, UpdatePolicy(p) PROVE UNCHANGED <<market, pool, moves>>
  BY <1>7 DEF UpdatePolicy, world
<1>8. ASSUME NEW t \in Tokens, NEW amount \in Bankrolls[t], SetPaperBalance(t, amount)
      PROVE  UNCHANGED <<market, pool, moves>>
  BY <1>8 DEF SetPaperBalance, world
<1>9. ASSUME moves' = moves + 1
       PROVE  moves' \in Nat /\ (moves' = 0 => moves = 0 /\ UNCHANGED <<market, pool>>)
  BY <1>9
<1> QED
  BY <1>1, <1>2, <1>3, <1>4, <1>5, <1>6, <1>7, <1>8, <1>9 DEF Next

\* While nothing moves, a cycle stays at the market it was built on.
LEMMA NextIsAtTheMarket ==
  ASSUME BooksTypes, CycleIsAtTheMarket, UNCHANGED <<market, pool>>, [Next]_vars
  PROVE  CycleIsAtTheMarket'
<1>1. ASSUME NEW c, AtTheMarket(c), cycle' = c, c.stage = "built" PROVE CycleIsAtTheMarket'
  <2>1. \A in, out, x : Fair(in, out, x)' = Fair(in, out, x)
    BY DEF Fair
  <2>2. AtTheMarket(cycle)'
    BY <1>1, <2>1 DEF AtTheMarket
  <2> QED
    BY <1>1, <2>2 DEF CycleIsAtTheMarket
<1>2. ASSUME cycle' = cycle PROVE CycleIsAtTheMarket'
  <2>1. CASE cycle # Missing /\ cycle.stage = "built"
    BY <1>1, <1>2, <2>1 DEF CycleIsAtTheMarket
  <2>2. CASE ~(cycle # Missing /\ cycle.stage = "built")
    BY <1>2, <2>2 DEF CycleIsAtTheMarket
  <2> QED
    BY <2>1, <2>2
<1>3. ASSUME cycle' = Missing PROVE CycleIsAtTheMarket'
  BY <1>3 DEF CycleIsAtTheMarket
<1>4. ASSUME NEW d \in {"OPEN", "REDUCE", "CLOSE"}, NEW t \in Tokens, NEW n \in Notionals,
             NEW short \in {0, 1}, BuildSwap(d, t, n, short)
      PROVE  CycleIsAtTheMarket'
  <2>1. AtTheMarket(cycle')
    BY <1>4, SwapIsAtTheMarket
  <2>2. cycle'.stage = "built"
    BY <1>4, BuildSwapWaits DEF Built
  <2> QED
    BY <1>1, <2>1, <2>2
<1>5. CASE ReadPool
  <2>1. cycle' = [stage |-> "read", pool |-> pool, prices |-> market, at |-> clock]
    BY <1>5 DEF ReadPool
  <2>2. cycle'.stage = "read" /\ cycle'.pool = pool /\ cycle'.prices = market
    BY <2>1
  <2> QED
    BY <2>2 DEF CycleIsAtTheMarket
<1>6. ASSUME NEW d \in {"ADD_LIQUIDITY", "REMOVE_LIQUIDITY", "EXIT", "HOLD"}, NEW n \in Notionals,
             BuildLp(d, n)
      PROVE  CycleIsAtTheMarket'
  <2>1. cycle.prices = market /\ cycle.pool = pool
    BY <1>6 DEF BuildLp, CycleIsAtTheMarket
  <2>2. CASE d = "ADD_LIQUIDITY"
    <3>1. AddLiquidity(cycle, n)
      BY <1>6, <2>2 DEF BuildLp
    <3>2. AtTheMarket(cycle')
      BY <2>1, <3>1, AddIsAtTheMarket
    <3>3. cycle'.stage = "built"
      BY <3>1 DEF AddLiquidity, LpProposal
    <3> QED
      BY <1>1, <3>2, <3>3
  <2>3. CASE d = "HOLD"
    BY <1>3, <1>6, <2>3 DEF BuildLp
  <2>4. CASE d \in {"REMOVE_LIQUIDITY", "EXIT"}
    <3>1. RemoveLiquidity(cycle, d = "EXIT") /\ (d = "EXIT") \in BOOLEAN
      BY <1>6, <2>4 DEF BuildLp
    <3>2. AtTheMarket(cycle')
      BY <2>1, <3>1, RemoveIsAtTheMarket
    <3>3. cycle'.stage = "built"
      BY <3>1 DEF RemoveLiquidity, LpProposal
    <3> QED
      BY <1>1, <3>2, <3>3
  <2> QED
    BY <2>2, <2>3, <2>4
<1>7. CASE Tick
  BY <1>2, <1>7 DEF Tick
<1>8. ASSUME NEW t \in Tokens, NEW p \in Prices[t], MovePrice(t, p) PROVE CycleIsAtTheMarket'
  BY <1>2, <1>8 DEF MovePrice
<1>9. ASSUME NEW p \in Pools, MovePool(p) PROVE CycleIsAtTheMarket'
  BY <1>2, <1>9 DEF MovePool
<1>10. ASSUME NEW p \in Policies, UpdatePolicy(p) PROVE CycleIsAtTheMarket'
  BY <1>2, <1>10 DEF UpdatePolicy
<1>11. ASSUME NEW t \in Tokens, NEW amount \in Bankrolls[t], SetPaperBalance(t, amount)
       PROVE  CycleIsAtTheMarket'
  BY <1>2, <1>11 DEF SetPaperBalance
<1>12. CASE Decide
  BY <1>3, <1>12 DEF Decide
<1>13. CASE UNCHANGED vars
  BY <1>2, <1>13 DEF vars
<1> QED
  BY <1>4, <1>5, <1>6, <1>7, <1>8, <1>9, <1>10, <1>11, <1>12, <1>13 DEF Next

LedgerRest == UNCHANGED <<pos, lp, realized, fills>>

LEMMA OnlyTheGateEarns ==
  ASSUME [Next]_vars
  PROVE  Decide \/ LedgerRest
<1>1. ASSUME NEW d \in {"OPEN", "REDUCE", "CLOSE"}, NEW t \in Tokens, NEW n \in Notionals,
             NEW short \in {0, 1}, BuildSwap(d, t, n, short)
      PROVE  LedgerRest
  BY <1>1 DEF BuildSwap, books, bounds, LedgerRest
<1>2. ASSUME NEW d \in {"ADD_LIQUIDITY", "REMOVE_LIQUIDITY", "EXIT", "HOLD"}, NEW n \in Notionals,
             BuildLp(d, n)
      PROVE  LedgerRest
  BY <1>2 DEF BuildLp, books, bounds, LedgerRest
<1>3. ReadPool \/ Tick \/ UNCHANGED vars => LedgerRest
  BY DEF ReadPool, Tick, vars, books, bounds, LedgerRest
<1>4. ASSUME NEW t \in Tokens, NEW p \in Prices[t], MovePrice(t, p) PROVE LedgerRest
  BY <1>4 DEF MovePrice, books, bounds, LedgerRest
<1>5. ASSUME NEW p \in Pools, MovePool(p) PROVE LedgerRest
  BY <1>5 DEF MovePool, books, bounds, LedgerRest
<1>6. ASSUME NEW p \in Policies, UpdatePolicy(p) PROVE LedgerRest
  BY <1>6 DEF UpdatePolicy, books, LedgerRest
<1>7. ASSUME NEW t \in Tokens, NEW amount \in Bankrolls[t], SetPaperBalance(t, amount)
      PROVE  LedgerRest
  BY <1>7 DEF SetPaperBalance, LedgerRest
<1> QED
  BY <1>1, <1>2, <1>3, <1>4, <1>5, <1>6, <1>7 DEF Next

\* How far the books are ahead of what was paid for, and how far they may be, in parts of the
\* pool's supply.
Ahead(r, p, l) ==
  pool.supply * (Scale * Total(r, Days) + Total(AheadOf(p), Tokens)) + LpAhead(l)

MayBeAhead(n) == pool.supply * (Scale * (n * (MicroPerFill - GasOfFill)))

LEMMA AheadIsInteger ==
  ASSUME BooksTypes, LedgerTypes
  PROVE  /\ Total(realized, Days) \in Int /\ Total(AheadOf(pos), Tokens) \in Int
         /\ LpAhead(lp) \in Int /\ Ahead(realized, pos, lp) \in Int
<1>1. Total(realized, Days) \in Int
  <2>1. IsFiniteSet(Days) /\ \A d \in Days : realized[d] \in Int
    BY DaysAre DEF LedgerTypes
  <2> QED
    BY <2>1, TotalIsInt
<1>2. Total(AheadOf(pos), Tokens) \in Int
  <2> DEFINE f == AheadOf(pos)
  <2>1. \A t \in Tokens : f[t] \in Int
    <3> SUFFICES ASSUME NEW t \in Tokens PROVE f[t] \in Int
      OBVIOUS
    <3> DEFINE u == Unit(t)
    <3>1. pos[t].amount \in Nat /\ pos[t].basis \in Nat /\ u \in Nat /\ Scale \in Nat
      BY ScaleIs, UnitsAre DEF BooksTypes
    <3>2. f[t] = pos[t].amount * u - Scale * pos[t].basis
      BY DEF AheadOf
    <3> HIDE DEF u, f
    <3> QED
      BY <3>1, <3>2
  <2> HIDE DEF f
  <2>2. Total(f, Tokens) \in Int
    BY <2>1, BooksAssumption, TotalIsInt
  <2> QED
    BY <2>2 DEF f
<1>3. pool.supply \in Nat /\ Scale \in Nat /\ PoolUnit \in Nat /\ lp.tokens \in Nat /\ lp.capital \in Nat
  BY PoolIs
<1>4. LpAhead(lp) \in Int
  BY <1>3 DEF LpAhead
<1> DEFINE c == Scale * Total(realized, Days) + Total(AheadOf(pos), Tokens)
<1>5. c \in Int /\ Ahead(realized, pos, lp) = pool.supply * c + LpAhead(lp)
  BY <1>1, <1>2, <1>3 DEF Ahead
<1> HIDE DEF c
<1> QED
  BY <1>1, <1>2, <1>3, <1>4, <1>5

LEMMA MicroOrNothing == MicroPerFill \in {0, 1}
  BY DEF MicroPerFill

LEMMA DecideIsAStep == Decide => [Next]_vars
  BY DEF Next

LEMMA GasIsMoney == ASSUME BooksTypes PROVE GasOfFill \in Nat
<1>1. Gas \in Nat /\ Native \in Tokens
  BY BooksAssumption
<1> QED
  BY <1>1, WorthInParts DEF GasOfFill

\* A fill brings the books forward by no more than the micro-USD of its rounding, less gas.
LEMMA GateEarnsNothing ==
  ASSUME BooksTypes, CycleWaits, LedgerTypes, CycleIsAtTheMarket, Decide
  PROVE  \/ LedgerRest
         \/ /\ fills' = fills + 1 /\ realized' \in [Days -> Int]
            /\ Ahead(realized', pos', lp') <= Ahead(realized, pos, lp)
                 + pool.supply * (Scale * (MicroPerFill - GasOfFill))
            /\ Ahead(realized', pos', lp') \in Int
<1> DEFINE q == pool.supply  s == Scale  gain == MicroPerFill  gas == GasOfFill
           r == Total(realized, Days)  h == Total(AheadOf(pos), Tokens)  l == LpAhead(lp)
           rr == Total(realized', Days)  hh == Total(AheadOf(pos'), Tokens)  ll == LpAhead(lp')
<1>1. q \in Nat /\ s \in Nat /\ r \in Int /\ h \in Int /\ l \in Int
  BY PoolIs, AheadIsInteger
<1>2. Built(cycle) /\ AtTheMarket(cycle)
  BY DEF Decide, CycleWaits, CycleIsAtTheMarket
<1>3. gas \in Nat /\ gain \in {0, 1}
  BY <1>2, FeeIsGas, MicroOrNothing
<1>4. Ahead(realized, pos, lp) = q * (s * r + h) + l
  BY DEF Ahead
<1>5. Ahead(realized', pos', lp') = q * (s * rr + hh) + ll
  BY DEF Ahead
<1>6. \/ LedgerRest
      \/ SwapWaits(cycle) /\ PaperSwap(cycle)
      \/ AddWaits(cycle) /\ PaperAdd(cycle)
      \/ RemoveWaits(cycle) /\ PaperRemove(cycle)
  <2>1. CASE Decision(cycle) # "OK"
    BY <2>1 DEF Decide, books, LedgerRest
  <2>2. CASE Decision(cycle) = "OK"
    <3>1. /\ cycle.action.kind = "swap" => PaperSwap(cycle)
          /\ cycle.action.kind = "lp_add" => PaperAdd(cycle)
          /\ cycle.action.kind = "lp_remove" => PaperRemove(cycle)
      BY <2>2 DEF Decide
    <3>2. /\ SwapWaits(cycle) => cycle.action.kind = "swap"
          /\ AddWaits(cycle) => cycle.action.kind = "lp_add"
          /\ RemoveWaits(cycle) => cycle.action.kind = "lp_remove"
      BY DEF SwapWaits, AddWaits, RemoveWaits
    <3> QED
      BY <1>2, <3>1, <3>2 DEF Built
  <2> QED
    BY <2>1, <2>2
<1>7. CASE SwapWaits(cycle) /\ PaperSwap(cycle)
  <2>1. \/ LedgerRest
        \/ /\ UNCHANGED lp /\ fills' = fills + 1 /\ realized' \in [Days -> Int]
           /\ s * rr + hh <= (s * r + h) + s * (gain - gas)
    BY <1>2, <1>7, SwapEarnsNothing DEF LedgerRest
  <2>2. ASSUME UNCHANGED lp, s * rr + hh <= (s * r + h) + s * (gain - gas),
               rr \in Int, hh \in Int
        PROVE  /\ q * (s * rr + hh) + ll <= (q * (s * r + h) + l) + q * (s * (gain - gas))
               /\ q * (s * rr + hh) + ll \in Int
    <3> DEFINE x == s * rr + hh  y == s * r + h  z == s * (gain - gas)
    <3>1. x \in Int /\ y \in Int /\ z \in Int /\ x <= y + z
      BY <1>1, <1>3, <2>2
    <3>2. ll = l
      BY <2>2
    <3> HIDE DEF x, y, z, ll, l, q
    <3>3. q * x <= q * (y + z) /\ q * x \in Int
      BY <1>1, <3>1, TimesKeeps
    <3>4. q * (y + z) = q * y + q * z /\ q * y \in Int /\ q * z \in Int
      BY <1>1, <3>1
    <3>5. q * x + ll <= (q * y + l) + q * z /\ q * x + ll \in Int
      BY <1>1, <3>2, <3>3, <3>4
    <3> QED
      BY <3>5 DEF x, y, z
  <2>3. ASSUME realized' \in [Days -> Int] PROVE rr \in Int
    <3>1. \A d \in Days : realized'[d] \in Int
      BY <2>3
    <3> QED
      BY <3>1, DaysAre, TotalIsInt
  <2>4. hh \in Int
    <3> DEFINE g == AheadOf(pos')
    <3>1. \A t \in Tokens : g[t] \in Int
      <4> SUFFICES ASSUME NEW t \in Tokens PROVE g[t] \in Int
        OBVIOUS
      <4> DEFINE u == Unit(t)
      <4>1. pos' \in [Tokens -> [amount : Nat, basis : Nat]]
        BY HoldingsStay, DecideIsAStep
      <4>2. pos'[t].amount \in Nat /\ pos'[t].basis \in Nat /\ u \in Nat /\ s \in Nat
        BY <4>1, ScaleIs, UnitsAre
      <4>3. g[t] = pos'[t].amount * u - s * pos'[t].basis
        BY DEF AheadOf
      <4> HIDE DEF u, g, s
      <4> QED
        BY <4>2, <4>3
    <3> HIDE DEF g
    <3>2. Total(g, Tokens) \in Int
      BY <3>1, BooksAssumption, TotalIsInt
    <3> QED
      BY <3>2 DEF g
  <2> HIDE DEF q, s, gain, gas, r, h, l, rr, hh, ll
  <2>5. \/ LedgerRest
        \/ /\ fills' = fills + 1 /\ realized' \in [Days -> Int]
           /\ q * (s * rr + hh) + ll <= (q * (s * r + h) + l) + q * (s * (gain - gas))
           /\ q * (s * rr + hh) + ll \in Int
    BY <2>1, <2>2, <2>3, <2>4
  <2> QED
    BY <1>4, <1>5, <2>5 DEF q, s, gain, gas
<1>8. ASSUME \/ UNCHANGED <<pos, lp, realized, fills>>
             \/ /\ UNCHANGED pos /\ fills' = fills + 1 /\ realized' \in [Days -> Int]
                /\ r \in Int /\ rr \in Int
                /\ q * (s * rr) + ll <= q * (s * r) + l - q * (s * gas)
      PROVE  \/ LedgerRest
             \/ /\ fills' = fills + 1 /\ realized' \in [Days -> Int]
                /\ Ahead(realized', pos', lp') <= Ahead(realized, pos, lp)
                     + q * (s * (gain - gas))
                /\ Ahead(realized', pos', lp') \in Int
  <2>1. CASE UNCHANGED <<pos, lp, realized, fills>>
    BY <2>1 DEF LedgerRest
  <2>2. CASE /\ UNCHANGED pos /\ fills' = fills + 1 /\ realized' \in [Days -> Int]
             /\ rr \in Int
             /\ q * (s * rr) + ll <= q * (s * r) + l - q * (s * gas)
    <3>1. hh = h
      BY <2>2
    <3>2. ll \in Int
      <4>1. lp' \in [tokens : Nat, capital : Nat]
        BY HoldingsStay, DecideIsAStep
      <4>2. LpAhead(lp') = lp'.tokens * PoolUnit - q * (s * lp'.capital)
        BY DEF LpAhead
      <4> HIDE DEF q, s, ll
      <4>3. LpAhead(lp') \in Int
        BY <1>1, <4>1, <4>2, PoolIs
      <4> QED
        BY <4>3 DEF ll
    <3> HIDE DEF q, s, gain, gas, r, h, l, rr, hh, ll
    <3> DEFINE sr == s * r  srr == s * rr  sg == s * gas  sn == s * gain
    <3>3. /\ sr \in Int /\ srr \in Int /\ sg \in Int /\ sn \in Nat
          /\ s * (gain - gas) = sn - sg
      BY <1>1, <1>3, <2>2
    <3>4. q * srr + ll <= q * sr + l - q * sg
      BY <2>2
    <3> HIDE DEF sr, srr, sg, sn
    <3>5. /\ q * (sr + h) = q * sr + q * h /\ q * (srr + h) = q * srr + q * h
          /\ q * (sn - sg) = q * sn - q * sg
      BY <1>1, <3>3
    <3>6. /\ q * sr \in Int /\ q * srr \in Int /\ q * sg \in Int /\ q * sn \in Nat /\ q * h \in Int
      BY <1>1, <3>3
    <3>7. /\ q * (srr + hh) + ll <= (q * (sr + h) + l) + q * (sn - sg)
          /\ q * (srr + hh) + ll \in Int
      BY <1>1, <3>1, <3>2, <3>4, <3>5, <3>6
    <3> QED
      BY <1>4, <1>5, <2>2, <3>3, <3>7 DEF sr, srr
  <2> QED
    BY <1>8, <2>1, <2>2
<1>9. CASE AddWaits(cycle) /\ PaperAdd(cycle)
  BY <1>2, <1>8, <1>9, AddEarnsNothing
<1>10. CASE RemoveWaits(cycle) /\ PaperRemove(cycle)
  BY <1>2, <1>8, <1>10, RemoveEarnsNothing
<1> QED
  BY <1>6, <1>7, <1>9, <1>10

LedgerInv ==
  /\ moves \in Nat
  /\ moves = 0 => /\ LedgerTypes /\ CycleIsAtTheMarket
                  /\ Ahead(realized, pos, lp) <= MayBeAhead(fills)

LEMMA InitLedger == Init => LedgerInv
<1> SUFFICES ASSUME Init PROVE LedgerInv
  OBVIOUS
<1>1. LedgerTypes
  <2>1. realized = [d \in Days |-> 0] /\ clock = 0 /\ fills = 0 /\ moves = 0 /\ MaxClock \in Nat
    BY BooksAssumption DEF Init
  <2> QED
    BY <2>1 DEF LedgerTypes
<1>2. BooksTypes
  BY InitRisk DEF RiskInv
<1>3. CycleIsAtTheMarket
  BY DEF Init, CycleIsAtTheMarket
<1>4. Total(realized, Days) = 0
  <2>1. realized = [d \in Days |-> 0]
    BY DEF Init
  <2>2. \A d \in Days : realized[d] = 0
    BY <2>1
  <2>3. IsFiniteSet(Days)
    BY <1>1, DaysAre
  <2> QED
    BY <2>2, <2>3, TotalOfZeros
<1>5. Total(AheadOf(pos), Tokens) = 0
  <2> DEFINE f == AheadOf(pos)
  <2>1. ASSUME NEW t \in Tokens PROVE f[t] = 0
    <3> DEFINE u == Unit(t)
    <3>1. pos[t] = [amount |-> 0, basis |-> 0] /\ u \in Nat /\ Scale \in Nat
      BY <1>2, ScaleIs, UnitsAre DEF Init
    <3>2. f[t] = pos[t].amount * u - Scale * pos[t].basis
      BY DEF AheadOf
    <3> HIDE DEF u, f
    <3> QED
      BY <3>1, <3>2
  <2> HIDE DEF f
  <2>2. Total(f, Tokens) = 0
    BY <2>1, BooksAssumption, TotalOfZeros
  <2> QED
    BY <2>2 DEF f
<1>6. pool.supply \in Nat /\ Scale \in Nat /\ PoolUnit \in Nat
  BY <1>2, PoolIs
<1>7. LpAhead(lp) = 0
  <2>1. lp.tokens = 0 /\ lp.capital = 0
    BY DEF Init
  <2> QED
    BY <1>6, <2>1 DEF LpAhead
<1>8. Ahead(realized, pos, lp) = 0
  BY <1>4, <1>5, <1>6, <1>7 DEF Ahead
<1>9. MayBeAhead(fills) = 0
  <2>1. GasOfFill \in Nat /\ fills = 0 /\ MicroPerFill \in {0, 1}
    BY <1>2, GasIsMoney, MicroOrNothing DEF Init
  <2> QED
    BY <1>6, <2>1 DEF MayBeAhead
<1> QED
  BY <1>1, <1>3, <1>8, <1>9 DEF LedgerInv, LedgerTypes

\* Each fill may bring the books as far forward as the one before.
LEMMA OneFillMore ==
  ASSUME BooksTypes, LedgerTypes
  PROVE  /\ MayBeAhead(fills) \in Int
         /\ MayBeAhead(fills + 1) = MayBeAhead(fills)
              + pool.supply * (Scale * (MicroPerFill - GasOfFill))
         /\ pool.supply * (Scale * (MicroPerFill - GasOfFill)) \in Int
<1> DEFINE q == pool.supply  s == Scale  e == MicroPerFill - GasOfFill  n == fills
<1>1. q \in Nat /\ s \in Nat /\ n \in Nat
  BY PoolIs DEF LedgerTypes
<1>2. e \in Int
  BY GasIsMoney, MicroOrNothing
<1>3. MayBeAhead(n) = q * (s * (n * e)) /\ MayBeAhead(n + 1) = q * (s * ((n + 1) * e))
  BY DEF MayBeAhead
<1> HIDE DEF q, s, e, n
<1>4. (n + 1) * e = n * e + e /\ n * e \in Int
  BY <1>1, <1>2
<1>5. s * (n * e + e) = s * (n * e) + s * e /\ s * (n * e) \in Int /\ s * e \in Int
  BY <1>1, <1>2, <1>4
<1>6. /\ q * (s * (n * e) + s * e) = q * (s * (n * e)) + q * (s * e)
      /\ q * (s * (n * e)) \in Int /\ q * (s * e) \in Int
  BY <1>1, <1>5
<1> QED
  BY <1>3, <1>4, <1>5, <1>6 DEF q, s, e, n

\* The unit of account does not change while the market does not.
LEMMA UnitsStay ==
  ASSUME UNCHANGED <<market, pool>>
  PROVE  /\ Ahead(realized, pos, lp)' = Ahead(realized', pos', lp')
         /\ MayBeAhead(fills)' = MayBeAhead(fills')
<1>1. \A t \in Tokens : Unit(t)' = Unit(t)
  BY DEF Unit
<1>2. AheadOf(pos)' = AheadOf(pos')
  BY <1>1 DEF AheadOf
<1>3. PoolUnit' = PoolUnit
  BY DEF PoolUnit, Unit
<1>4. LpAhead(lp)' = LpAhead(lp')
  BY <1>3 DEF LpAhead
<1>5. Ahead(realized, pos, lp)' = Ahead(realized', pos', lp')
  BY <1>2, <1>4 DEF Ahead
<1>6. GasOfFill' = GasOfFill /\ MicroPerFill' = MicroPerFill
  BY DEF GasOfFill, MicroPerFill, Worth
<1> QED
  BY <1>5, <1>6 DEF MayBeAhead

LEMMA ClockTicks ==
  ASSUME clock \in 0 .. MaxClock, [Next]_vars
  PROVE  clock' \in 0 .. MaxClock
<1>1. MaxClock \in Nat
  BY BooksAssumption
<1>2. CASE Tick
  BY <1>1, <1>2 DEF Tick
<1>3. ASSUME ~Tick PROVE UNCHANGED clock
  BY <1>3 DEF Next, BuildSwap, ReadPool, BuildLp, Decide, MovePrice, MovePool, UpdatePolicy,
       SetPaperBalance, vars
<1> QED
  BY <1>2, <1>3

LEMMA NextLedger ==
  ASSUME RiskInv, LedgerInv, [Next]_vars
  PROVE  LedgerInv'
<1>1. BooksTypes /\ CycleWaits
  BY DEF RiskInv
<1>2. moves' \in Nat /\ (moves' = 0 => moves = 0 /\ UNCHANGED <<market, pool>>)
  BY MarketMoves DEF LedgerInv
<1> SUFFICES ASSUME moves' = 0
             PROVE  /\ LedgerTypes' /\ CycleIsAtTheMarket'
                    /\ Ahead(realized, pos, lp)' <= MayBeAhead(fills)'
  BY <1>2 DEF LedgerInv
<1>3. moves = 0 /\ UNCHANGED <<market, pool>>
  BY <1>2
<1>4. LedgerTypes /\ CycleIsAtTheMarket /\ Ahead(realized, pos, lp) <= MayBeAhead(fills)
  BY <1>3 DEF LedgerInv
<1>5. CycleIsAtTheMarket'
  BY <1>1, <1>3, <1>4, NextIsAtTheMarket
<1>6. clock' \in 0 .. MaxClock /\ fills \in Nat
  BY <1>4, ClockTicks DEF LedgerTypes
<1>7. \/ LedgerRest
      \/ /\ fills' = fills + 1 /\ realized' \in [Days -> Int]
         /\ Ahead(realized', pos', lp') <= Ahead(realized, pos, lp)
              + pool.supply * (Scale * (MicroPerFill - GasOfFill))
         /\ Ahead(realized', pos', lp') \in Int
  BY <1>1, <1>4, OnlyTheGateEarns, GateEarnsNothing
<1>8. LedgerTypes'
  BY <1>2, <1>4, <1>6, <1>7 DEF LedgerTypes, LedgerRest, Days
<1>9. Ahead(realized', pos', lp') <= MayBeAhead(fills')
  <2>1. CASE LedgerRest
    <3>1. /\ Ahead(realized', pos', lp') = Ahead(realized, pos, lp)
          /\ MayBeAhead(fills') = MayBeAhead(fills)
      BY <2>1 DEF LedgerRest
    <3> QED
      BY <1>4, <3>1
  <2>2. CASE /\ fills' = fills + 1
             /\ Ahead(realized', pos', lp') <= Ahead(realized, pos, lp)
                  + pool.supply * (Scale * (MicroPerFill - GasOfFill))
             /\ Ahead(realized', pos', lp') \in Int
    <3> DEFINE x == Ahead(realized', pos', lp')  y == Ahead(realized, pos, lp)
               m == MayBeAhead(fills)  mm == MayBeAhead(fills + 1)
               z == pool.supply * (Scale * (MicroPerFill - GasOfFill))
    <3>1. y \in Int /\ m \in Int /\ z \in Int /\ mm = m + z
      BY <1>1, <1>4, AheadIsInteger, OneFillMore
    <3>2. x \in Int /\ y <= m /\ x <= y + z
      BY <1>4, <2>2
    <3> HIDE DEF x, y, m, mm, z
    <3>3. x <= mm
      BY <3>1, <3>2
    <3> QED
      BY <2>2, <3>3 DEF x, mm
  <2> QED
    BY <1>7, <2>1, <2>2
<1> QED
  BY <1>3, <1>5, <1>8, <1>9, UnitsStay

LEMMA AlwaysLedger == Spec => []LedgerInv
  BY InitLedger, NextLedger, AlwaysRisk, PTL DEF Spec

\* A multiple is no more than another only where the terms are.
LEMMA Cancels ==
  ASSUME NEW q \in Nat \ {0}, NEW a \in Int, NEW b \in Int, q * a <= q * b
  PROVE  a <= b
<1>1. SUFFICES ASSUME a >= b + 1 PROVE FALSE
  OBVIOUS
<1>2. q * a >= q * (b + 1) /\ q * (b + 1) = q * b + q
  BY <1>1
<1>3. q * a \in Int /\ q * b \in Int
  OBVIOUS
<1> QED
  BY <1>2, <1>3

LEMMA HoldingsInParts ==
  ASSUME BooksTypes
  PROVE  /\ UnrealizedAt(market, Held) \in Int
         /\ Scale * UnrealizedAt(market, Held) <= Total(AheadOf(pos), Tokens)
<1> DEFINE f == Gains(market)  g == AheadOf(pos)
<1>1. UnrealizedAt(market, Held) = Total(f, Held)
  BY DEF UnrealizedAt, Total
<1>2. ASSUME NEW t \in Tokens
      PROVE  /\ f[t] \in Int /\ g[t] \in Int /\ Scale * f[t] <= g[t]
             /\ t \notin Held => f[t] = 0
  <2> DEFINE w == Worth(t, pos[t].amount, market, "floor")  u == Unit(t)
             x == pos[t].amount  b == pos[t].basis
  <2>1. x \in Nat /\ b \in Nat /\ (x = 0 => b = 0) /\ u \in Nat /\ Scale \in Nat \ {0}
    BY ScaleIs, UnitsAre DEF BooksTypes
  <2>2. w \in Nat /\ Scale * w <= x * u
    BY <2>1, WorthInParts
  <2>3. f[t] = w - b /\ g[t] = x * u - Scale * b
    BY DEF Gains, AheadOf
  <2>4. t \notin Held => x = 0
    BY <2>1 DEF Held
  <2> HIDE DEF w, u, x, b, f, g
  <2>5. Scale * (w - b) = Scale * w - Scale * b
    BY <2>1, <2>2
  <2>6. Scale * w \in Int /\ Scale * b \in Int /\ x * u \in Int
    BY <2>1, <2>2
  <2>7. x = 0 => w = 0 /\ b = 0
    <3> SUFFICES ASSUME x = 0 PROVE w = 0 /\ b = 0
      OBVIOUS
    <3>1. x * u = 0
      BY <2>1
    <3>2. Scale * w <= 0
      BY <2>2, <3>1
    <3>3. ASSUME w >= 1 PROVE FALSE
      <4>1. Scale * w >= 1
        BY <2>1, <2>2, <3>3
      <4> QED
        BY <2>6, <3>2, <4>1
    <3> QED
      BY <2>1, <2>2, <3>3
  <2> QED
    BY <2>1, <2>2, <2>3, <2>4, <2>5, <2>6, <2>7
<1>3. IsFiniteSet(Tokens) /\ Held \subseteq Tokens /\ Scale \in Nat
  BY BooksAssumption, ScaleIs DEF Held
<1> HIDE DEF f, g
<1>4. \A t \in Tokens : f[t] \in Int
  BY <1>2
<1>5. \A t \in Tokens \ Held : f[t] = 0
  BY <1>2
<1>6. Total(f, Tokens) = Total(f, Held) /\ Total(f, Tokens) \in Int
  BY <1>3, <1>4, <1>5, TotalSkipsZeros, TotalIsInt
<1>7. Scale * Total(f, Tokens) <= Total(g, Tokens)
  BY <1>2, <1>3, TotalScales
<1> QED
  BY <1>1, <1>6, <1>7 DEF g

\* What the books have earned is no more than how far they are ahead.
LEMMA EarnedInParts ==
  ASSUME BooksTypes, LedgerTypes
  PROVE  /\ Earned \in Int
         /\ pool.supply * (Scale * Earned) <= Ahead(realized, pos, lp)
<1> DEFINE q == pool.supply  s == Scale
           share == ShareOfReserves(pool, lp.tokens)
           w0 == Worth(Token0, share.a0, market, "floor")
           w1 == Worth(Token1, share.a1, market, "floor")
           r == Total(realized, Days)  v == UnrealizedAt(market, Held)
           h == Total(AheadOf(pos), Tokens)  l == LpAhead(lp)
           u0 == Unit(Token0)  u1 == Unit(Token1)
<1>1. /\ pool.r0 \in Nat \ {0} /\ pool.r1 \in Nat \ {0} /\ q \in Nat \ {0}
      /\ Token0 \in Tokens /\ Token1 \in Tokens
      /\ s \in Nat \ {0} /\ u0 \in Nat /\ u1 \in Nat /\ PoolUnit \in Nat
      /\ lp.tokens \in Nat /\ lp.capital \in Nat
  BY PoolIs
<1>2. r \in Int /\ h \in Int /\ l \in Int
  BY AheadIsInteger
<1>3. v \in Int /\ s * v <= h
  BY HoldingsInParts
<1>4. /\ share.a0 \in Nat /\ q * share.a0 <= lp.tokens * pool.r0
      /\ share.a1 \in Nat /\ q * share.a1 <= lp.tokens * pool.r1
  <2> DEFINE n0 == lp.tokens * pool.r0  n1 == lp.tokens * pool.r1
  <2>1. n0 \in Nat /\ n1 \in Nat
    BY <1>1
  <2>2. share.a0 = FloorDiv(n0, q) /\ share.a1 = FloorDiv(n1, q)
    BY DEF ShareOfReserves
  <2> HIDE DEF n0, n1, share
  <2>3. share.a0 \in Nat /\ q * share.a0 <= n0 /\ share.a1 \in Nat /\ q * share.a1 <= n1
    BY <1>1, <2>1, <2>2, FloorIs
  <2> QED
    BY <2>3 DEF n0, n1
<1>5. w0 \in Nat /\ w1 \in Nat /\ s * w0 <= share.a0 * u0 /\ s * w1 <= share.a1 * u1
  <2> HIDE DEF share
  <2> QED
    BY <1>1, <1>4, WorthInParts
<1>6. q * (s * (w0 + w1)) <= lp.tokens * PoolUnit
  <2>1. q * (s * (w0 + w1)) <= lp.tokens * (pool.r0 * u0 + pool.r1 * u1)
    <3> HIDE DEF q, s, share, w0, w1, u0, u1
    <3> QED
      BY <1>1, <1>4, <1>5, RemoveInParts
  <2> QED
    BY <2>1 DEF PoolUnit
<1>7. Earned = r + v + w0 + w1 - lp.capital
  BY DEF Earned, Total
<1>8. Ahead(realized, pos, lp) = q * (s * r + h) + l
  BY DEF Ahead
<1>9. l = lp.tokens * PoolUnit - q * (s * lp.capital)
  BY DEF LpAhead
<1> HIDE DEF q, s, share, w0, w1, r, v, h, l, u0, u1
<1> DEFINE w == w0 + w1  k == lp.capital  y == lp.tokens * PoolUnit
           sr == s * r  sv == s * v  sw == s * w  sk == s * k
<1>10. w \in Nat /\ k \in Nat /\ y \in Nat /\ q * sw <= y /\ l = y - q * sk
  BY <1>1, <1>5, <1>6, <1>9
<1>11. Earned = r + v + w - k /\ Earned \in Int
  BY <1>1, <1>2, <1>3, <1>5, <1>7
<1> HIDE DEF w, k, y
<1>12. s * (r + v + w - k) = sr + sv + sw - sk /\ sr \in Int /\ sv \in Int /\ sw \in Int /\ sk \in Int
  BY <1>1, <1>2, <1>3, <1>10
<1>13. sv <= h
  BY <1>3
<1> HIDE DEF sr, sv, sw, sk
<1>14. /\ q * (sr + sv + sw - sk) = q * sr + q * sv + q * sw - q * sk
       /\ q * (sr + h) = q * sr + q * h
  BY <1>1, <1>2, <1>12
<1>15. /\ q * sr \in Int /\ q * sv \in Int /\ q * sw \in Int /\ q * sk \in Int
       /\ q * h \in Int /\ q * sv <= q * h
  BY <1>1, <1>2, <1>12, <1>13, TimesKeeps
<1>16. q * (sr + sv + sw - sk) <= q * (sr + h) + l
  BY <1>10, <1>14, <1>15
<1>17. s * Earned = sr + sv + sw - sk /\ Ahead(realized, pos, lp) = q * (sr + h) + l
  BY <1>8, <1>11, <1>12 DEF sr
<1>18. q * (s * Earned) <= Ahead(realized, pos, lp)
  BY <1>16, <1>17
<1> QED
  BY <1>11, <1>18 DEF q, s

\* For any tokens, prices, pools, policies and sizes: while no price and no pool has moved, the
\* paper books are down by the gas of every fill, whatever was bought, sold, added and removed;
\* a purchase whose cost is rounded down brings each fill less than a micro-USD back.
THEOREM BooksNeverInventMoney == Spec => []NoProfitWithoutAMove
<1>1. RiskInv /\ LedgerInv => NoProfitWithoutAMove
  <2> SUFFICES ASSUME RiskInv, LedgerInv, moves = 0
               PROVE  Earned <= fills * (MicroPerFill - GasOfFill)
    BY DEF NoProfitWithoutAMove, GasOfFill
  <2>1. BooksTypes /\ LedgerTypes /\ Ahead(realized, pos, lp) <= MayBeAhead(fills)
    BY DEF RiskInv, LedgerInv
  <2> DEFINE q == pool.supply  s == Scale  e == Earned  m == fills * (MicroPerFill - GasOfFill)
             a == Ahead(realized, pos, lp)
  <2>2. q \in Nat \ {0} /\ s \in Nat \ {0}
    BY <2>1, PoolIs
  <2>3. e \in Int /\ a \in Int /\ q * (s * e) <= a
    BY <2>1, EarnedInParts, AheadIsInteger
  <2>4. m \in Int
    <3>1. fills \in Nat /\ GasOfFill \in Nat /\ MicroPerFill \in {0, 1}
      BY <2>1, GasIsMoney, MicroOrNothing DEF LedgerTypes
    <3> QED
      BY <3>1
  <2>5. a <= q * (s * m)
    BY <2>1 DEF MayBeAhead
  <2> HIDE DEF q, s, e, m, a
  <2>6. s * e \in Int /\ s * m \in Int
    BY <2>2, <2>3, <2>4
  <2>7. q * (s * e) \in Int /\ q * (s * m) \in Int
    BY <2>2, <2>6
  <2>8. q * (s * e) <= q * (s * m)
    BY <2>3, <2>5, <2>7
  <2>9. s * e <= s * m
    BY <2>2, <2>6, <2>8, Cancels
  <2>10. e <= m
    BY <2>2, <2>3, <2>4, <2>9, Cancels
  <2> QED
    BY <2>10 DEF e, m
<1> QED
  BY <1>1, AlwaysRisk, AlwaysLedger, PTL

-----------------------------------------------------------------------------
(* Exits.                                                                  *)

\* The wallet holds amounts.
WalletTypes == clock \in Nat /\ paper \in [Tokens -> Int]

\* A bankroll is an amount.
LEMMA InitWallet == Init => WalletTypes
<1> SUFFICES ASSUME Init PROVE WalletTypes
  OBVIOUS
<1>1. \A t \in Tokens : Max(Bankrolls[t]) \in Int
  <2> SUFFICES ASSUME NEW t \in Tokens PROVE Max(Bankrolls[t]) \in Int
    OBVIOUS
  <2>1. Bankrolls[t] \subseteq Nat /\ \E m \in Bankrolls[t] : \A n \in Bankrolls[t] : n <= m
    BY LimitsAssumption
  <2>2. \E m \in Bankrolls[t] : \A n \in Bankrolls[t] : m >= n
    BY <2>1
  <2>3. Max(Bankrolls[t]) \in Bankrolls[t]
    BY <2>2 DEF Max
  <2> QED
    BY <2>1, <2>3
<1> QED
  BY <1>1 DEF Init, WalletTypes

\* Two entries of the wallet are replaced by amounts.
LEMMA TwoEntries ==
  ASSUME NEW f \in [Tokens -> Int], NEW a, NEW b, NEW v \in Int, NEW w \in Int
  PROVE  [f EXCEPT ![a] = v, ![b] = w] \in [Tokens -> Int]
OBVIOUS

\* What a share of the pool pays out is a whole number of units.
LEMMA SharesAreInt ==
  ASSUME NEW p \in Pools, NEW tokens \in Nat
  PROVE  ShareOfReserves(p, tokens).a0 \in Int /\ ShareOfReserves(p, tokens).a1 \in Int
<1>1. p.r0 \in Nat \ {0} /\ p.r1 \in Nat \ {0} /\ p.supply \in Nat \ {0}
  BY BooksAssumption
<1>2. tokens * p.r0 \in Int /\ tokens * p.r1 \in Int
  BY <1>1
<1>3. FloorDiv(tokens * p.r0, p.supply) \in Int /\ FloorDiv(tokens * p.r1, p.supply) \in Int
  BY <1>1, <1>2, FractionOfInt
<1> QED
  BY <1>3 DEF ShareOfReserves

\* A fill moves amounts in the wallet.
LEMMA WalletAtTheGate ==
  ASSUME RiskInv, WalletTypes, Decide
  PROVE  WalletTypes'
<1>1. Built(cycle) /\ clock' = clock
  BY DEF Decide, RiskInv, CycleWaits
<1>2. CASE UNCHANGED books
  BY <1>1, <1>2 DEF WalletTypes, books
<1>3. CASE SwapWaits(cycle) /\ PaperSwap(cycle) /\ ~UNCHANGED books
  <2> DEFINE a == cycle.action  received == Received(a.quote)
  <2>1. received \in Int /\ a.amountIn \in Nat
    <3>1. a.quote.expected \in Int /\ a.quote.slippage \in Nat /\ a.amountIn \in Nat
      BY <1>3 DEF SwapWaits
    <3> QED
      BY <3>1, ReceivedIsInteger
  <2>2. paper' = [paper EXCEPT ![a.tokenIn.address] = @ - a.amountIn,
                               ![a.tokenOut.address] = @ + received]
    BY <1>3 DEF PaperSwap, RecordFill
  <2> DEFINE in == a.tokenIn.address  out == a.tokenOut.address  n == a.amountIn
  <2> HIDE DEF received, in, out, n
  <2>3. /\ n \in Nat /\ received \in Int
        /\ in \in Tokens /\ out \in Tokens /\ in # out
        /\ paper' = [paper EXCEPT ![in] = @ - n, ![out] = @ + received]
    BY <1>3, <2>1, <2>2 DEF in, out, n, SwapWaits, Ref
  <2>4. paper' \in [Tokens -> Int]
    <3> DEFINE v == paper[in] - n  w == paper[out] + received
    <3>1. paper \in [Tokens -> Int] /\ v \in Int /\ w \in Int
      BY <2>3 DEF WalletTypes
    <3>2. paper' = [paper EXCEPT ![in] = v, ![out] = w]
      BY <2>3
    <3> HIDE DEF v, w
    <3> QED
      BY <3>1, <3>2, TwoEntries
  <2> QED
    BY <1>1, <2>4 DEF WalletTypes
<1>4. CASE AddWaits(cycle) /\ PaperAdd(cycle) /\ ~UNCHANGED books
  <2> DEFINE x == cycle.plan.a0  y == cycle.plan.a1
  <2>1. /\ x \in Nat /\ y \in Nat
        /\ Token0 \in Tokens /\ Token1 \in Tokens /\ Token0 # Token1
        /\ paper' = [paper EXCEPT ![Token0] = @ - x, ![Token1] = @ - y]
    BY <1>4, BooksAssumption, LimitsAssumption DEF AddWaits, PaperAdd
  <2> HIDE DEF x, y
  <2>2. paper' \in [Tokens -> Int]
    <3> DEFINE v == paper[Token0] - x  w == paper[Token1] - y
    <3>1. paper \in [Tokens -> Int] /\ v \in Int /\ w \in Int
      BY <2>1 DEF WalletTypes
    <3>2. paper' = [paper EXCEPT ![Token0] = v, ![Token1] = w]
      BY <2>1
    <3> HIDE DEF v, w
    <3> QED
      BY <3>1, <3>2, TwoEntries
  <2> QED
    BY <1>1, <2>2 DEF WalletTypes
<1>5. CASE RemoveWaits(cycle) /\ PaperRemove(cycle) /\ ~UNCHANGED books
  <2> DEFINE out == ShareOfReserves(cycle.pool, cycle.plan.tokens)
  <2>1. out.a0 \in Int /\ out.a1 \in Int
    BY <1>5, SharesAreInt DEF RemoveWaits
  <2>2. /\ Token0 \in Tokens /\ Token1 \in Tokens /\ Token0 # Token1
        /\ paper' = [paper EXCEPT ![Token0] = @ + out.a0, ![Token1] = @ + out.a1]
    BY <1>5, BooksAssumption, LimitsAssumption DEF PaperRemove
  <2> HIDE DEF out
  <2>3. paper' \in [Tokens -> Int]
    <3> DEFINE v == paper[Token0] + out.a0  w == paper[Token1] + out.a1
    <3>1. paper \in [Tokens -> Int] /\ v \in Int /\ w \in Int
      BY <2>1, <2>2 DEF WalletTypes
    <3>2. paper' = [paper EXCEPT ![Token0] = v, ![Token1] = w]
      BY <2>1, <2>2
    <3> HIDE DEF v, w
    <3> QED
      BY <3>1, <3>2, TwoEntries
  <2> QED
    BY <1>1, <2>3 DEF WalletTypes
<1>6. CASE Decision(cycle) = "OK"
  <2>1. /\ cycle.action.kind = "swap" => PaperSwap(cycle)
        /\ cycle.action.kind = "lp_add" => PaperAdd(cycle)
        /\ cycle.action.kind = "lp_remove" => PaperRemove(cycle)
    BY <1>6 DEF Decide
  <2>2. /\ SwapWaits(cycle) => cycle.action.kind = "swap"
        /\ AddWaits(cycle) => cycle.action.kind = "lp_add"
        /\ RemoveWaits(cycle) => cycle.action.kind = "lp_remove"
    BY DEF SwapWaits, AddWaits, RemoveWaits
  <2> QED
    BY <1>1, <1>2, <1>3, <1>4, <1>5, <2>1, <2>2 DEF Built
<1>7. CASE Decision(cycle) # "OK"
  BY <1>2, <1>7 DEF Decide
<1> QED
  BY <1>6, <1>7

\* So does every other step.
LEMMA NextWallet ==
  ASSUME RiskInv, WalletTypes, [Next]_vars
  PROVE  WalletTypes'
<1> USE DEF WalletTypes
<1>1. ASSUME NEW d \in {"OPEN", "REDUCE", "CLOSE"}, NEW t \in Tokens, NEW n \in Notionals,
             NEW short \in {0, 1}, BuildSwap(d, t, n, short)
      PROVE  WalletTypes'
  BY <1>1 DEF BuildSwap, books
<1>2. ASSUME NEW d \in {"ADD_LIQUIDITY", "REMOVE_LIQUIDITY", "EXIT", "HOLD"}, NEW n \in Notionals,
             BuildLp(d, n)
      PROVE  WalletTypes'
  BY <1>2 DEF BuildLp, books
<1>3. CASE ReadPool
  BY <1>3 DEF ReadPool, books
<1>4. CASE Tick
  BY <1>4 DEF Tick, books
<1>5. ASSUME NEW t \in Tokens, NEW p \in Prices[t], MovePrice(t, p) PROVE WalletTypes'
  BY <1>5 DEF MovePrice, books
<1>6. ASSUME NEW p \in Pools, MovePool(p) PROVE WalletTypes'
  BY <1>6 DEF MovePool, books
<1>7. ASSUME NEW p \in Policies, UpdatePolicy(p) PROVE WalletTypes'
  BY <1>7 DEF UpdatePolicy, books
<1>8. ASSUME NEW t \in Tokens, NEW amount \in Bankrolls[t], SetPaperBalance(t, amount)
      PROVE  WalletTypes'
  <2>1. amount \in Int
    BY LimitsAssumption
  <2> QED
    BY <1>8, <2>1 DEF SetPaperBalance
<1>9. CASE Decide
  BY <1>9, WalletAtTheGate
<1>10. CASE UNCHANGED vars
  BY <1>10 DEF vars
<1> QED
  BY <1>1, <1>2, <1>3, <1>4, <1>5, <1>6, <1>7, <1>8, <1>9, <1>10 DEF Next

\* The wallet holds amounts in every reachable state.
LEMMA AlwaysWallet == Spec => [](RiskInv /\ WalletTypes)
<1>1. RiskInv /\ [Next]_vars => RiskInv'
  BY NextRisk
<1>2. RiskInv /\ WalletTypes /\ [Next]_vars => WalletTypes'
  BY NextWallet
<1> QED
  BY <1>1, <1>2, InitRisk, InitWallet, PTL DEF Spec

\* A fraction rounded up is less than one above it.
LEMMA CeilIsTight ==
  ASSUME NEW a \in Nat, NEW b \in Nat \ {0}
  PROVE  CeilDiv(a, b) \in Nat /\ b * CeilDiv(a, b) < a + b
<1>1. CASE a = 0
  <2>1. CeilDiv(a, b) = 0
    BY <1>1, Division DEF CeilDiv, FloorDiv
  <2> QED
    BY <1>1, <2>1
<1>2. CASE a > 0
  <2> DEFINE q == (a + b - 1) \div b
  <2>1. CeilDiv(a, b) = q
    BY <1>2 DEF CeilDiv
  <2>2. a + b - 1 \in Nat
    BY <1>2
  <2>3. q \in Nat /\ b * q <= a + b - 1
    BY <2>2, Division
  <2> HIDE DEF q
  <2>4. b * q \in Int
    BY <2>3
  <2> QED
    BY <2>1, <2>3, <2>4
<1> QED
  BY <1>1, <1>2

\* What an amount is worth rounded up, in parts.
LEMMA CeiledInParts ==
  ASSUME BooksTypes, NEW t \in Tokens, NEW x \in Nat
  PROVE  Scale * Worth(t, x, market, "ceil") < x * Unit(t) + Scale
<1> DEFINE k == Parts(t)  d == Ten^Decimals[t]  p == market[t]
<1>1. /\ d \in Nat \ {0} /\ p \in Nat \ {0} /\ k \in Nat \ {0}
      /\ Scale = k * d /\ Unit(t) = k * p
  BY UnitsAre
<1>2. Worth(t, x, market, "ceil") = CeilDiv(x * p, d)
  BY DEF Worth, NativeToUsd
<1> HIDE DEF k, d, p
<1> DEFINE a == x * p  v == CeilDiv(a, d)
<1>3. a \in Nat
  BY <1>1
<1> HIDE DEF a
<1>4. v \in Nat /\ d * v < a + d
  BY <1>1, <1>3, CeilIsTight
<1> HIDE DEF v
<1> DEFINE y == d * v
<1>5. y \in Nat /\ y < a + d
  BY <1>1, <1>4
<1> HIDE DEF y
<1>6. k * y < k * (a + d) /\ k * (a + d) = k * a + k * d
  BY <1>1, <1>3, <1>5
<1>7. (k * d) * v = k * y
  BY <1>1, <1>4 DEF y
<1>8. x * (k * p) = k * a
  BY <1>1 DEF a
<1> QED
  BY <1>1, <1>2, <1>6, <1>7, <1>8 DEF v, a

\* What is not paid out of a sale at the market is less than a base unit.
LEMMA FairIsTight ==
  ASSUME BooksTypes, NEW in \in Tokens, NEW out \in Tokens, NEW x \in Nat
  PROVE  /\ Fair(in, out, x) \in Nat
         /\ x * Unit(in) < Fair(in, out, x) * Unit(out) + Unit(out)
<1> DEFINE ki == Parts(in)  di == Ten^Decimals[in]  pi == market[in]
           ko == Parts(out)  do == Ten^Decimals[out]  po == market[out]
           r == Fair(in, out, x)
<1>1. /\ di \in Nat \ {0} /\ pi \in Nat \ {0} /\ ki \in Nat \ {0}
      /\ Scale = ki * di /\ Unit(in) = ki * pi
  BY UnitsAre
<1>2. /\ do \in Nat \ {0} /\ po \in Nat \ {0} /\ ko \in Nat \ {0}
      /\ Scale = ko * do /\ Unit(out) = ko * po
  BY UnitsAre
<1>3. r = FloorDiv(x * pi * do, po * di)
  BY DEF Fair
<1>4. Scale \in Nat \ {0}
  BY ScaleIs
<1> HIDE DEF ki, di, pi, ko, do, po, r
<1>5. r \in Nat /\ x * pi * do < (r + 1) * (po * di)
  <2> DEFINE n == x * pi * do  m == po * di
  <2>1. n \in Nat /\ m \in Nat \ {0}
    BY <1>1, <1>2
  <2> HIDE DEF n, m
  <2>2. r \in Nat /\ n < m * r + m
    BY <1>3, <2>1, FloorIs DEF n, m
  <2>3. m * r + m = (r + 1) * m
    BY <2>1, <2>2
  <2> QED
    BY <2>2, <2>3 DEF n, m
<1>6. x * (ki * pi) < (r + 1) * (ko * po)
  <2> DEFINE s == r + 1  y == s * (ko * po)  z == x * (ki * pi)  c == ki * ko
  <2>1. s \in Nat
    BY <1>5
  <2> HIDE DEF s
  <2>2. y \in Nat /\ z \in Nat /\ c \in Nat \ {0}
    BY <1>1, <1>2, <2>1
  <2>3. c * (s * (po * di)) = y * (ki * di)
    BY <1>1, <1>2, <2>1
  <2>4. c * (x * pi * do) = z * (ko * do)
    BY <1>1, <1>2
  <2>5. c * (x * pi * do) < c * (s * (po * di))
    <3> DEFINE l == x * pi * do  h == s * (po * di)
    <3>1. l \in Nat /\ h \in Nat /\ l < h
      BY <1>1, <1>2, <1>5, <2>1 DEF s
    <3> HIDE DEF l, h, c
    <3>2. c * l < c * h
      BY <2>2, <3>1
    <3> QED
      BY <3>2 DEF l, h
  <2>6. z * Scale < y * Scale
    BY <1>1, <1>2, <2>3, <2>4, <2>5
  <2> HIDE DEF y, z
  <2>7. z < y
    <3>1. SUFFICES ASSUME z >= y PROVE FALSE
      BY <2>2
    <3>2. z * Scale >= y * Scale
      BY <1>4, <2>2, <3>1
    <3>3. y * Scale \in Int /\ z * Scale \in Int
      BY <1>4, <2>2
    <3> QED
      BY <2>6, <3>2, <3>3
  <2> QED
    BY <2>7 DEF y, z, s
<1>7. (r + 1) * (ko * po) = r * (ko * po) + ko * po
  BY <1>2, <1>5
<1> QED
  BY <1>1, <1>2, <1>5, <1>6, <1>7 DEF r

\* Parts of a micro-USD are compared as micro-USD.
LEMMA LessInScale ==
  ASSUME NEW s \in Nat \ {0}, NEW a \in Int, NEW b \in Int, s * a < s * b
  PROVE  a < b
<1>1. SUFFICES ASSUME a >= b PROVE FALSE
  OBVIOUS
<1>2. s * a >= s * b
  BY <1>1
<1>3. s * a \in Int /\ s * b \in Int
  OBVIOUS
<1> QED
  BY <1>2, <1>3

\* A sale at the market price pays what is sold, but for the roundings.
LEMMA SalePaysItsWorth ==
  ASSUME BooksTypes, NEW t \in Tokens, NEW stable \in Tokens, NEW x \in Nat
  PROVE  Worth(t, x, market, "ceil")
           <= Worth(stable, Fair(t, stable, x), market, "floor") + RoundingOf(stable)
<1> DEFINE s == Scale  f == Fair(t, stable, x)  u == Unit(stable)
           v == Worth(t, x, market, "ceil")  w == Worth(stable, f, market, "floor")
           r == Worth(stable, 1, market, "ceil")  whole == market[stable] % Ten^Decimals[stable] = 0
           have == x * Unit(t)  paid == f * u
<1>1. s \in Nat \ {0} /\ u \in Nat /\ have \in Nat /\ f \in Nat /\ have < paid + u
  <2>1. Unit(t) \in Nat
    BY UnitsAre
  <2> QED
    BY <2>1, ScaleIs, UnitsAre, FairIsTight
<1>2. v \in Nat /\ s * v < have + s
  BY CeiledInParts, WorthInParts
<1>3. /\ w \in Nat /\ paid < s * w + s /\ (whole => s * w = paid)
  <2> HIDE DEF f
  <2> QED
    BY <1>1, WorthInParts
<1>4. r \in Nat /\ u <= s * r
  <2>1. r \in Nat /\ 1 * Unit(stable) <= Scale * r
    BY WorthInParts
  <2> QED
    BY <1>1, <2>1
<1>5. RoundingOf(stable) = r + IF whole THEN 0 ELSE 1
  BY DEF RoundingOf
<1>6. paid \in Nat
  BY <1>1
<1> HIDE DEF s, f, u, v, w, r, whole, have, paid
<1>7. s * w \in Int /\ s * r \in Int /\ s * v \in Int
  BY <1>1, <1>2, <1>3, <1>4
<1>8. CASE whole
  <2>1. s * v < s * w + s * r + s
    BY <1>1, <1>2, <1>3, <1>4, <1>6, <1>7, <1>8
  <2>2. s * w + s * r + s = s * (w + r + 1)
    BY <1>1, <1>3, <1>4
  <2>3. v < w + r + 1
    BY <1>1, <1>2, <1>3, <1>4, <2>1, <2>2, LessInScale
  <2> QED
    BY <1>2, <1>3, <1>4, <1>5, <1>8, <2>3 DEF v, w, f
<1>9. CASE ~whole
  <2>1. s * v < s * w + s * r + s + s
    BY <1>1, <1>2, <1>3, <1>4, <1>6, <1>7
  <2>2. s * w + s * r + s + s = s * (w + r + 2)
    BY <1>1, <1>3, <1>4
  <2>3. v < w + r + 2
    BY <1>1, <1>2, <1>3, <1>4, <2>1, <2>2, LessInScale
  <2> QED
    BY <1>2, <1>3, <1>4, <1>5, <1>9, <2>3 DEF v, w, f
<1> QED
  BY <1>8, <1>9

\* No check of a list fails with another code.
FailsOnly(s, code) == \A n \in DOMAIN s : s[n].passed \/ s[n].code = code

\* A list of checks that fail with one code only has no other verdict.
LEMMA VerdictOfOne ==
  ASSUME NEW s \in Checks, NEW code, FailsOnly(s, code)
  PROVE  Verdict(s) \in {"OK", code}
<1>1. CASE Failures(s) = {}
  BY <1>1 DEF Verdict
<1>2. CASE Failures(s) # {}
  <2>1. Failures(s) \subseteq Nat
    BY DEF Failures, Checks
  <2>2. \E n \in Failures(s) : \A m \in Failures(s) : n <= m
    <3> DEFINE T == Failures(s)
    <3> HIDE DEF T
    <3>1. T \subseteq Nat /\ T # {}
      BY <1>2, <2>1 DEF T
    <3>2. \E n \in T : \A m \in T : n <= m
      BY <3>1, LeastOf
    <3> QED
      BY <3>2 DEF T
  <2> DEFINE first == CHOOSE n \in Failures(s) : \A m \in Failures(s) : n <= m
  <2>3. first \in Failures(s)
    BY <2>2
  <2>4. Verdict(s) = s[first].code
    BY <1>2 DEF Verdict
  <2> HIDE DEF first
  <2>5. first \in DOMAIN s /\ ~s[first].passed
    BY <2>3 DEF Failures
  <2> QED
    BY <2>4, <2>5 DEF FailsOnly
<1> QED
  BY <1>1, <1>2

\* Neither has the list that joins two of them.
LEMMA JoinedFailsOnly ==
  ASSUME NEW s \in Checks, NEW t \in Checks, NEW code, FailsOnly(s, code), FailsOnly(t, code)
  PROVE  FailsOnly(s \o t, code)
<1>1. s \in Seq(Row) /\ t \in Seq(Row)
  BY DEF Checks
<1>2. Len(s) \in Nat /\ Len(t) \in Nat /\ DOMAIN s = 1 .. Len(s) /\ DOMAIN t = 1 .. Len(t)
      /\ DOMAIN (s \o t) = 1 .. (Len(s) + Len(t))
  BY <1>1
<1>3. SUFFICES ASSUME NEW n \in DOMAIN (s \o t) PROVE (s \o t)[n].passed \/ (s \o t)[n].code = code
  BY DEF FailsOnly
<1>4. CASE n <= Len(s)
  <2>1. n \in DOMAIN s /\ (s \o t)[n] = s[n]
    BY <1>1, <1>2, <1>4
  <2> QED
    BY <2>1 DEF FailsOnly
<1>5. CASE n > Len(s)
  <2>1. n - Len(s) \in DOMAIN t /\ (s \o t)[n] = t[n - Len(s)]
    BY <1>1, <1>2, <1>5
  <2> QED
    BY <2>1 DEF FailsOnly
<1> QED
  BY <1>2, <1>4, <1>5

\* A list without a failure is such a list for any code.
LEMMA NoFailure == ASSUME NEW s, Failures(s) = {}, NEW code PROVE FailsOnly(s, code)
  BY DEF Failures, FailsOnly

\* An action is refused with one code only when each tier fails with no other.
LEMMA RefusedOnlyBy ==
  ASSUME NEW i, NEW code, Failures(Tier0(i)) = {},
         Failures(StructureChecks(i)) = {}, Failures(FreshnessChecks(i)) = {},
         Failures(AllowlistChecks(i)) = {}, Failures(ExposureChecks(i)) = {},
         FailsOnly(ExecutionChecks(i), code), Failures(PacingChecks(i)) = {},
         Failures(BalanceChecks(i)) = {}, ~IsLp(i.action)
  PROVE  Evaluate(i) \in {"OK", code}
<1> DEFINE s1 == StructureChecks(i)  s2 == FreshnessChecks(i)
           s3 == AllowlistChecks(i)  s4 == ExposureChecks(i)  s5 == ExecutionChecks(i)
           s6 == PacingChecks(i)  s7 == BalanceChecks(i)
           s8 == IF IsLp(i.action) THEN LpChecks(i) ELSE << >>
<1>1. /\ s1 \in Checks /\ s2 \in Checks /\ s3 \in Checks /\ s4 \in Checks
      /\ s5 \in Checks /\ s6 \in Checks /\ s7 \in Checks
  BY Tiers
<1>2. s8 \in Checks /\ FailsOnly(s8, code)
  BY DEF Checks, FailsOnly
<1>3. /\ FailsOnly(s1, code) /\ FailsOnly(s2, code) /\ FailsOnly(s3, code) /\ FailsOnly(s4, code)
      /\ FailsOnly(s5, code) /\ FailsOnly(s6, code) /\ FailsOnly(s7, code)
  BY NoFailure
<1>4. Evaluate(i) = Verdict(s1 \o s2 \o s3 \o s4 \o s5 \o s6 \o s7 \o s8)
  BY DEF Evaluate, RemainingChecks
<1> HIDE DEF s1, s2, s3, s4, s5, s6, s7, s8
<1> DEFINE t2 == s1 \o s2  t3 == t2 \o s3  t4 == t3 \o s4  t5 == t4 \o s5
           t6 == t5 \o s6  t7 == t6 \o s7  t8 == t7 \o s8
<1>5. t2 \in Checks /\ FailsOnly(t2, code)
  BY <1>1, <1>3, JoinedChecks, JoinedFailsOnly
<1> HIDE DEF t2
<1>6. t3 \in Checks /\ FailsOnly(t3, code)
  BY <1>1, <1>3, <1>5, JoinedChecks, JoinedFailsOnly
<1> HIDE DEF t3
<1>7. t4 \in Checks /\ FailsOnly(t4, code)
  BY <1>1, <1>3, <1>6, JoinedChecks, JoinedFailsOnly
<1> HIDE DEF t4
<1>8. t5 \in Checks /\ FailsOnly(t5, code)
  BY <1>1, <1>3, <1>7, JoinedChecks, JoinedFailsOnly
<1> HIDE DEF t5
<1>9. t6 \in Checks /\ FailsOnly(t6, code)
  BY <1>1, <1>3, <1>8, JoinedChecks, JoinedFailsOnly
<1> HIDE DEF t6
<1>10. t7 \in Checks /\ FailsOnly(t7, code)
  BY <1>1, <1>3, <1>9, JoinedChecks, JoinedFailsOnly
<1> HIDE DEF t7
<1>11. t8 \in Checks /\ FailsOnly(t8, code)
  BY <1>1, <1>2, <1>10, JoinedChecks, JoinedFailsOnly
<1> HIDE DEF t8
<1>12. Evaluate(i) = Verdict(t8)
  BY <1>4 DEF t2, t3, t4, t5, t6, t7, t8
<1> QED
  BY <1>11, <1>12, VerdictOfOne

\* What an exit sells, and what the engine reads of it.
ExitReads(i, t, stable, f) ==
  /\ i.now = clock /\ i.policy = policy
  /\ i.action.kind = "swap" /\ i.action.mode = "PAPER" /\ i.action.chain = chain
  /\ i.action.protocol = "dex" /\ i.action.contract = Router
  /\ i.action.programs = (IF chain = "solana" THEN {Router} ELSE Missing)
  /\ i.action.reduceOnly /\ i.action.tokenIn = Ref(t) /\ i.action.tokenOut = Ref(stable)
  /\ i.action.amountIn = pos[t].amount /\ i.action.feeAt = clock /\ i.action.feeNative = Gas
  /\ i.action.feeFamily = chain /\ i.action.lp = Missing /\ i.action.proposedAt = clock
  /\ i.action.key = IntentOf(i.action)
  /\ i.action.quote = [expected |-> f, min |-> f, slippage |-> 0, impact |-> 0, at |-> clock]
  /\ i.snap.prices = PriceStamps({t, stable, Native}, market, clock)
  /\ i.snap.balances = Balances({t, Native})
  /\ i.snap.liquidity = Stamp(policy.minLiquidity, clock)
  /\ ~i.state.emergencyStop /\ ~i.state.globalPause /\ i.state.mode = "PAPER"
  /\ i.state.dayStart = Day(clock) * DayLength
  /\ i.state.positions = [u \in Tokens |-> pos[u].amount]

\* The engine reads of an exit what the books and the market say now.
LEMMA ExitIsRead ==
  ASSUME NEW t, NEW stable, Fair(t, stable, pos[t].amount) \in Nat
  PROVE  /\ Decision(ExitOrder(t, stable)) = Evaluate(Read(ExitOrder(t, stable)))
         /\ ExitReads(Read(ExitOrder(t, stable)), t, stable, Fair(t, stable, pos[t].amount))
<1> DEFINE f == Fair(t, stable, pos[t].amount)
           p == SwapProposal(t, stable, pos[t].amount, f, TRUE)
           c == ExitOrder(t, stable)  a == p.action  b == c.action  i == Read(c)
<1>1. c = [p EXCEPT !.action.quote = Quote(f, 0)]
  BY DEF ExitOrder
<1> HIDE DEF f
<1>2. /\ a.kind = "swap" /\ a.mode = "PAPER" /\ a.chain = chain
      /\ a.protocol = "dex" /\ a.contract = Router
      /\ a.programs = (IF chain = "solana" THEN {Router} ELSE Missing)
      /\ a.reduceOnly = TRUE /\ a.tokenIn = Ref(t) /\ a.tokenOut = Ref(stable)
      /\ a.amountIn = pos[t].amount /\ a.feeAt = clock /\ a.feeNative = Gas
      /\ a.feeFamily = chain /\ a.lp = Missing /\ a.proposedAt = clock /\ a.cycle = fills
  BY DEF SwapProposal, Keyed, Base
<1>3. a.key = <<fills, chain, "swap", "dex", Ref(t).address, Ref(stable).address,
                pos[t].amount, TRUE>>
  BY DEF SwapProposal, Keyed, Base, IntentOf
<1>4. Quote(f, 0) = [expected |-> f, min |-> f, slippage |-> 0, impact |-> 0, at |-> clock]
  <2>1. Minimum(f, 0) = f
    <3>1. f \in Nat /\ f * 0 = 0
      BY DEF f
    <3>2. FloorDiv(0, BPS_DENOM) = 0 /\ CeilDiv(0, BPS_DENOM) = 0
      BY ScaleAssumption, Division DEF FloorDiv, CeilDiv
    <3> QED
      BY <3>1, <3>2 DEF Minimum, BpsOf
  <2> QED
    BY <2>1 DEF Quote
<1>5. /\ p.snap.prices = PriceStamps({t, stable, Native}, market, clock)
      /\ p.snap.balances = Balances({t, Native})
      /\ p.snap.liquidity = Stamp(policy.minLiquidity, clock)
  BY DEF SwapProposal
<1>6. /\ DOMAIN p = {"action", "snap", "stage", "priced"}
      /\ DOMAIN a = {"kind", "mode", "chain", "protocol", "contract", "programs", "reduceOnly",
                     "tokenIn", "tokenOut", "amountIn", "quote", "feeAt", "feeNative",
                     "feeFamily", "lp", "cycle", "proposedAt", "key"}
  BY DEF SwapProposal, Keyed, Base
<1> HIDE DEF p
<1>7. /\ c.snap = p.snap
      /\ b = [a EXCEPT !.quote = Quote(f, 0)]
  BY <1>1, <1>6
<1> HIDE DEF c
<1>8. b.quote = [expected |-> f, min |-> f, slippage |-> 0, impact |-> 0, at |-> clock]
  BY <1>4, <1>6, <1>7
<1> DEFINE rest == {"kind", "mode", "chain", "protocol", "contract", "programs", "reduceOnly",
                    "tokenIn", "tokenOut", "amountIn", "feeAt", "feeNative",
                    "feeFamily", "lp", "cycle", "proposedAt", "key"}
<1>9. \A r \in rest : b[r] = a[r]
  BY <1>6, <1>7
<1>10. /\ b.kind = a.kind /\ b.mode = a.mode /\ b.chain = a.chain /\ b.protocol = a.protocol
       /\ b.contract = a.contract /\ b.programs = a.programs /\ b.reduceOnly = a.reduceOnly
       /\ b.tokenIn = a.tokenIn /\ b.tokenOut = a.tokenOut /\ b.amountIn = a.amountIn
       /\ b.feeAt = a.feeAt /\ b.feeNative = a.feeNative /\ b.feeFamily = a.feeFamily
       /\ b.lp = a.lp /\ b.cycle = a.cycle /\ b.proposedAt = a.proposedAt /\ b.key = a.key
  BY <1>9
<1> HIDE DEF a, b
<1>11. b.key = IntentOf(b)
  BY <1>2, <1>3, <1>10 DEF IntentOf
<1>12. /\ i.now = clock /\ i.policy = policy /\ i.action = b /\ i.snap = c.snap
       /\ i.state = RiskState(c.priced, Looked(c))
  BY DEF Read, b
<1>13. /\ i.state.emergencyStop = FALSE /\ i.state.globalPause = FALSE /\ i.state.mode = "PAPER"
       /\ i.state.dayStart = Day(clock) * DayLength
       /\ i.state.positions = [u \in Tokens |-> pos[u].amount]
  BY <1>12 DEF RiskState
<1>14. Decision(c) = Evaluate(i)
  BY DEF Decision, Read
<1> HIDE DEF i
<1>15. ExitReads(i, t, stable, f)
  BY <1>2, <1>5, <1>7, <1>8, <1>10, <1>11, <1>12, <1>13 DEF ExitReads
<1> QED
  BY <1>14, <1>15 DEF c, i, f

\* What the policy's schema says of the limits an exit meets.
LEMMA LimitsAreNatural ==
  ASSUME BooksTypes
  PROVE  /\ policy.version = 1 /\ policy.nativeDecimals = Decimals[Native]
         /\ policy.maxSlippage \in Nat /\ policy.maxImpact \in Nat /\ policy.minLiquidity \in Nat
         /\ policy.skew \in Nat /\ policy.priceAge \in Nat /\ policy.quoteAge \in Nat
         /\ policy.balanceAge \in Nat /\ policy.liquidityAge \in Nat /\ policy.feeAge \in Nat
         /\ policy.actionAge \in Nat
<1>1. policy \in Policies \union {FirstPolicy}
  BY DEF BooksTypes
<1>2. PolicyIsValid(policy) /\ policy.maxSlippage \in Nat
  BY <1>1, BooksAssumption
<1>3. /\ {policy.maxImpact, policy.minLiquidity, policy.skew, policy.priceAge, policy.quoteAge,
          policy.balanceAge, policy.liquidityAge, policy.feeAge, policy.actionAge} \subseteq Nat
      /\ policy.nativeDecimals = Decimals[Native]
  BY <1>1, LimitsAssumption
<1> QED
  BY <1>2, <1>3 DEF PolicyIsValid

\* A datum of the present is fresh.
LEMMA NowIsFresh ==
  ASSUME NEW i, i.now \in Nat, i.policy.skew \in Nat, NEW age \in Nat, NEW stamp,
         stamp # Missing, stamp.at = i.now
  PROVE  Fresh(i, stamp, age)
<1>1. i.now - stamp.at = 0
  OBVIOUS
<1> QED
  BY <1>1 DEF Fresh

\* An exit that may happen, as the engine reads it.
ExitIsAsked(i, t, stable, f) ==
  /\ ExitReads(i, t, stable, f) /\ f \in Nat \ {0}
  /\ t \in Held /\ ~IsQuote(t) /\ stable \in Stablecoins /\ MayTrade(t, stable)
  /\ paper[t] >= pos[t].amount /\ paper[Native] >= Gas
  /\ Worth(Native, Gas, market, "ceil") <= policy.maxFee

\* What it sells and for what, and the prices and balances the engine finds.
LEMMA ExitFacts ==
  ASSUME BooksTypes, WalletTypes, NEW i, NEW t, NEW stable, NEW f, ExitIsAsked(i, t, stable, f)
  PROVE  /\ t \in Tokens /\ stable \in Tokens /\ Native \in Tokens
         /\ t # stable /\ t # Native /\ stable # Native /\ t \notin Stablecoins
         /\ pos[t].amount \in Nat \ {0} /\ Gas \in Nat /\ clock \in Nat
         /\ i.action.tokenIn.address = t /\ i.action.tokenIn.decimals = Decimals[t]
         /\ i.action.tokenOut.address = stable /\ i.action.tokenOut.decimals = Decimals[stable]
         /\ \A u \in {t, stable, Native} : /\ market[u] \in Nat \ {0}
                                            /\ i.snap.prices[u] = Stamp(market[u], clock)
         /\ \A u \in {t, Native} : /\ paper[u] \in Int
                                    /\ i.snap.balances[u] = Stamp(paper[u], clock)
<1>1. t \in Tokens /\ pos[t].amount > 0 /\ t # Native /\ t \notin Stablecoins
  BY DEF ExitIsAsked, Held, IsQuote
<1>2. stable \in Stablecoins /\ ExitReads(i, t, stable, f)
  BY DEF ExitIsAsked
<1>3. stable \in Tokens /\ Native \in Tokens /\ stable # Native /\ Gas \in Nat
  BY <1>2, BooksAssumption, ScaleAssumption
<1>4. pos[t].amount \in Nat \ {0} /\ clock \in Nat
  BY <1>1 DEF BooksTypes, WalletTypes
<1>5. /\ i.action.tokenIn = Ref(t) /\ i.action.tokenOut = Ref(stable)
      /\ i.snap.prices = PriceStamps({t, stable, Native}, market, clock)
      /\ i.snap.balances = Balances({t, Native})
  BY <1>2 DEF ExitReads
<1>6. ASSUME NEW u \in {t, stable, Native}
      PROVE  market[u] \in Nat \ {0} /\ i.snap.prices[u] = Stamp(market[u], clock)
  <2>1. u \in Tokens
    BY <1>1, <1>3
  <2> QED
    BY <1>5, <2>1 DEF BooksTypes, PriceStamps
<1>7. ASSUME NEW u \in {t, Native}
      PROVE  paper[u] \in Int /\ i.snap.balances[u] = Stamp(paper[u], clock)
  <2>1. u \in Tokens
    BY <1>1, <1>3
  <2> QED
    BY <1>5, <2>1 DEF WalletTypes, Balances
<1>8. /\ i.action.tokenIn.address = t /\ i.action.tokenIn.decimals = Decimals[t]
      /\ i.action.tokenOut.address = stable /\ i.action.tokenOut.decimals = Decimals[stable]
  BY <1>5 DEF Ref
<1> QED
  BY <1>1, <1>2, <1>3, <1>4, <1>6, <1>7, <1>8

\* A list none of whose checks fails.
LEMMA AllPassed ==
  ASSUME NEW s, \A n \in DOMAIN s : s[n].passed
  PROVE  Failures(s) = {}
  BY DEF Failures

\* An exit is valid, carries its key, and nothing is stopped.
LEMMA ExitIsWellFormed ==
  ASSUME BooksTypes, WalletTypes, NEW i, NEW t, NEW stable, NEW f, ExitIsAsked(i, t, stable, f)
  PROVE  Failures(Tier0(i)) = {}
<1> DEFINE a == i.action  p == i.policy  st == i.state
<1>1. ExitReads(i, t, stable, f) /\ f \in Nat \ {0} /\ MayTrade(t, stable)
  BY DEF ExitIsAsked
<1>2. /\ a.kind = "swap" /\ a.mode = "PAPER" /\ a.chain = chain
      /\ a.programs = (IF chain = "solana" THEN {Router} ELSE Missing)
      /\ a.amountIn = pos[t].amount /\ a.feeFamily = chain /\ a.lp = Missing
      /\ a.key = IntentOf(a)
      /\ a.quote = [expected |-> f, min |-> f, slippage |-> 0, impact |-> 0, at |-> clock]
      /\ ~st.emergencyStop /\ ~st.globalPause /\ st.mode = "PAPER" /\ p = policy
  BY <1>1 DEF ExitReads
<1>3. /\ t # stable /\ pos[t].amount \in Nat \ {0} /\ clock \in Nat
      /\ a.tokenIn.address = t /\ a.tokenIn.decimals = Decimals[t]
      /\ a.tokenOut.address = stable /\ a.tokenOut.decimals = Decimals[stable]
  BY ExitFacts
<1>4. a.quote # Missing /\ a.quote.expected = f /\ a.quote.min = f
  BY <1>1, <1>2, <1>3, LimitsAssumption
<1>5. {Router} # Missing
  BY LimitsAssumption
<1> HIDE DEF a, p, st
<1>6. ActionIsValid(a)
  BY <1>1, <1>2, <1>3, <1>4, <1>5
     DEF ActionIsValid, IsLp, LpKinds, LpEntries, IsApprove
<1>7. DecimalsMatch(a, p)
  <2>1. policy.tokens[t] = Decimals[t] /\ policy.tokens[stable] = Decimals[stable]
    BY <1>1 DEF MayTrade
  <2> QED
    BY <1>2, <1>3, <2>1 DEF DecimalsMatch
<1>8. p.version = 1
  BY <1>2, LimitsAreNatural
<1>9. ~p.emergencyStop /\ ~p.globalPause
  BY <1>1, <1>2 DEF MayTrade
<1>10. \A n \in DOMAIN Tier0(i) : Tier0(i)[n].passed
  <2>1. DOMAIN Tier0(i) = 1..8
    BY DEF Tier0
  <2>2. Tier0(i)[1].passed
    BY <1>2, <1>6, <1>7, <1>8, <1>9 DEF Tier0, Check, a, p, st
  <2>3. Tier0(i)[2].passed
    BY <1>2, <1>6, <1>7, <1>8, <1>9 DEF Tier0, Check, a, p, st
  <2>4. Tier0(i)[3].passed
    BY <1>2, <1>6, <1>7, <1>8, <1>9 DEF Tier0, Check, a, p, st
  <2>5. Tier0(i)[4].passed
    BY <1>2, <1>6, <1>7, <1>8, <1>9 DEF Tier0, Check, a, p, st
  <2>6. Tier0(i)[5].passed
    BY <1>2, <1>6, <1>7, <1>8, <1>9 DEF Tier0, Check, a, p, st
  <2>7. Tier0(i)[6].passed
    BY <1>2, <1>6, <1>7, <1>8, <1>9 DEF Tier0, Check, a, p, st
  <2>8. Tier0(i)[7].passed
    BY <1>2, <1>6, <1>7, <1>8, <1>9 DEF Tier0, Check, a, p, st
  <2>9. Tier0(i)[8].passed
    BY <1>2, <1>6, <1>7, <1>8, <1>9 DEF Tier0, Check, a, p, st
  <2> QED
    BY <2>1, <2>2, <2>3, <2>4, <2>5, <2>6, <2>7, <2>8, <2>9
<1> QED
  BY <1>10, AllPassed

\* Its chain, tokens, venue and contract are listed, and it is no liquidity action.
LEMMA ExitIsStructured ==
  ASSUME BooksTypes, WalletTypes, NEW i, NEW t, NEW stable, NEW f, ExitIsAsked(i, t, stable, f)
  PROVE  /\ Failures(StructureChecks(i)) = {} /\ Failures(AllowlistChecks(i)) = {}
         /\ ~IsLp(i.action)
<1> DEFINE a == i.action  p == i.policy
<1>1. ExitReads(i, t, stable, f) /\ MayTrade(t, stable)
  BY DEF ExitIsAsked
<1>2. /\ a.kind = "swap" /\ a.chain = chain /\ a.protocol = "dex" /\ a.contract = Router
      /\ a.programs = (IF chain = "solana" THEN {Router} ELSE Missing) /\ p = policy
  BY <1>1 DEF ExitReads
<1>3. a.tokenIn.address = t /\ a.tokenOut.address = stable
  BY ExitFacts
<1>4. /\ a.chain \in p.chains /\ "dex" \in DOMAIN p.protocols
      /\ Router \in p.protocols["dex"].contracts
      /\ t \in DOMAIN p.tokens /\ stable \in DOMAIN p.tokens
  BY <1>1, <1>2 DEF MayTrade
<1> HIDE DEF a, p
<1>5. ~IsLp(a) /\ a.kind \notin LpEntries /\ ~IsApprove(a) /\ ~IsLpApprove(a)
  BY <1>2 DEF IsLp, LpKinds, LpEntries, IsApprove, IsLpApprove
<1>6. ContractAllowed(a, p)
  BY <1>2, <1>4, <1>5 DEF ContractAllowed
<1>7. \A n \in DOMAIN StructureChecks(i) : StructureChecks(i)[n].passed
  <2>1. DOMAIN StructureChecks(i) = 1..3
    BY DEF StructureChecks
  <2>2. StructureChecks(i)[1].passed
    BY <1>4, <1>5 DEF StructureChecks, Check, a, p
  <2>3. StructureChecks(i)[2].passed
    BY <1>4, <1>5 DEF StructureChecks, Check, a, p
  <2>4. StructureChecks(i)[3].passed
    BY <1>4, <1>5 DEF StructureChecks, Check, a, p
  <2> QED
    BY <2>1, <2>2, <2>3, <2>4
<1>8. \A n \in DOMAIN AllowlistChecks(i) : AllowlistChecks(i)[n].passed
  <2>1. DOMAIN AllowlistChecks(i) = 1..4
    BY DEF AllowlistChecks
  <2>2. AllowlistChecks(i)[1].passed
    BY <1>2, <1>3, <1>4, <1>6 DEF AllowlistChecks, Check, a, p
  <2>3. AllowlistChecks(i)[2].passed
    BY <1>2, <1>3, <1>4, <1>6 DEF AllowlistChecks, Check, a, p
  <2>4. AllowlistChecks(i)[3].passed
    BY <1>2, <1>3, <1>4, <1>6 DEF AllowlistChecks, Check, a, p
  <2>5. AllowlistChecks(i)[4].passed
    BY <1>2, <1>3, <1>4, <1>6 DEF AllowlistChecks, Check, a, p
  <2> QED
    BY <2>1, <2>2, <2>3, <2>4, <2>5
<1> QED
  BY <1>5, <1>7, <1>8, AllPassed DEF a

\* Everything an exit was quoted with is of the present.
LEMMA ExitIsFresh ==
  ASSUME BooksTypes, WalletTypes, NEW i, NEW t, NEW stable, NEW f, ExitIsAsked(i, t, stable, f)
  PROVE  Failures(FreshnessChecks(i)) = {}
<1> DEFINE a == i.action  p == i.policy  s == i.snap
<1>1. ExitReads(i, t, stable, f)
  BY DEF ExitIsAsked
<1>2. /\ i.now = clock /\ p = policy /\ a.kind = "swap" /\ a.proposedAt = clock /\ a.feeAt = clock
      /\ a.quote = [expected |-> f, min |-> f, slippage |-> 0, impact |-> 0, at |-> clock]
      /\ s.liquidity = Stamp(policy.minLiquidity, clock)
      /\ i.state.dayStart = Day(clock) * DayLength
  BY <1>1 DEF ExitReads
<1>3. /\ a.tokenIn.address = t /\ a.tokenOut.address = stable /\ clock \in Nat
      /\ \A u \in {t, stable, Native} : /\ market[u] \in Nat \ {0}
                                         /\ s.prices[u] = Stamp(market[u], clock)
      /\ \A u \in {t, Native} : paper[u] \in Int /\ s.balances[u] = Stamp(paper[u], clock)
  BY ExitFacts
<1>4. /\ p.skew \in Nat /\ p.priceAge \in Nat /\ p.quoteAge \in Nat /\ p.balanceAge \in Nat
      /\ p.liquidityAge \in Nat /\ p.feeAge \in Nat /\ p.actionAge \in Nat
      /\ policy.minLiquidity \in Nat
  BY <1>2, LimitsAreNatural
<1>5. ASSUME NEW v \in Int, NEW age \in Nat
      PROVE  Fresh(i, Stamp(v, clock), age)
  <2>1. Stamp(v, clock) # Missing /\ Stamp(v, clock).at = clock
    BY <1>3, LimitsAssumption DEF Stamp
  <2> QED
    BY <1>2, <1>3, <1>4, <2>1, NowIsFresh
<1>6. ASSUME NEW age \in Nat
      PROVE  Fresh(i, [at |-> clock], age)
  <2>1. [at |-> clock] # Missing /\ [at |-> clock].at = clock
    BY <1>3, LimitsAssumption
  <2> QED
    BY <1>2, <1>3, <1>4, <2>1, NowIsFresh
<1>7. ASSUME NEW u \in {t, stable, Native}
      PROVE  PriceFresh(i, s.prices[u])
  <2>1. market[u] \in Nat \ {0} /\ s.prices[u] = Stamp(market[u], clock)
    BY <1>3
  <2>2. UsablePrice(s.prices[u])
    BY <1>3, <2>1, LimitsAssumption DEF UsablePrice, Stamp
  <2>3. Fresh(i, s.prices[u], p.priceAge)
    BY <1>4, <1>5, <2>1
  <2> QED
    BY <2>2, <2>3 DEF PriceFresh
<1>8. Fresh(i, s.balances[t], p.balanceAge) /\ Fresh(i, s.balances[Native], p.balanceAge)
  BY <1>3, <1>4, <1>5
<1>9. Fresh(i, LiquidityOf(i), p.liquidityAge)
  <2>1. LiquidityOf(i) = Stamp(policy.minLiquidity, clock)
    BY <1>2 DEF LiquidityOf, IsLp, LpKinds, LpEntries
  <2> QED
    BY <1>4, <1>5, <2>1
<1>10. /\ Fresh(i, [at |-> a.proposedAt], p.actionAge) /\ Fresh(i, [at |-> a.feeAt], p.feeAge)
       /\ Fresh(i, [at |-> a.quote.at], p.quoteAge)
  BY <1>2, <1>4, <1>6
<1>11. /\ PriceFresh(i, PriceIn(i)) /\ PriceFresh(i, PriceOut(i)) /\ PriceFresh(i, s.prices[Native])
       /\ Fresh(i, s.balances[a.tokenIn.address], p.balanceAge)
  BY <1>3, <1>7, <1>8 DEF PriceIn, PriceOut
<1>12. i.state.dayStart = (i.now \div DayLength) * DayLength
  BY <1>2 DEF Day
<1> HIDE DEF a, p, s
<1>13. \A n \in DOMAIN FreshnessChecks(i) : FreshnessChecks(i)[n].passed
  <2>1. DOMAIN FreshnessChecks(i) = 1..10
    BY DEF FreshnessChecks
  <2>2. FreshnessChecks(i)[1].passed
    BY <1>8, <1>9, <1>10, <1>11, <1>12 DEF FreshnessChecks, Check, a, p, s
  <2>3. FreshnessChecks(i)[2].passed
    BY <1>8, <1>9, <1>10, <1>11, <1>12 DEF FreshnessChecks, Check, a, p, s
  <2>4. FreshnessChecks(i)[3].passed
    BY <1>8, <1>9, <1>10, <1>11, <1>12 DEF FreshnessChecks, Check, a, p, s
  <2>5. FreshnessChecks(i)[4].passed
    BY <1>8, <1>9, <1>10, <1>11, <1>12 DEF FreshnessChecks, Check, a, p, s
  <2>6. FreshnessChecks(i)[5].passed
    BY <1>8, <1>9, <1>10, <1>11, <1>12 DEF FreshnessChecks, Check, a, p, s
  <2>7. FreshnessChecks(i)[6].passed
    BY <1>8, <1>9, <1>10, <1>11, <1>12 DEF FreshnessChecks, Check, a, p, s
  <2>8. FreshnessChecks(i)[7].passed
    BY <1>8, <1>9, <1>10, <1>11, <1>12 DEF FreshnessChecks, Check, a, p, s
  <2>9. FreshnessChecks(i)[8].passed
    BY <1>8, <1>9, <1>10, <1>11, <1>12 DEF FreshnessChecks, Check, a, p, s
  <2>10. FreshnessChecks(i)[9].passed
    BY <1>8, <1>9, <1>10, <1>11, <1>12 DEF FreshnessChecks, Check, a, p, s
  <2>11. FreshnessChecks(i)[10].passed
    BY <1>8, <1>9, <1>10, <1>11, <1>12 DEF FreshnessChecks, Check, a, p, s
  <2> QED
    BY <2>1, <2>2, <2>3, <2>4, <2>5, <2>6, <2>7, <2>8, <2>9, <2>10, <2>11
<1> QED
  BY <1>13, AllPassed

\* An exit is neither sized, nor held to the day's loss, nor paced; it sells
\* what is held, and the wallet has it and the gas.
LEMMA ExitIsExempt ==
  ASSUME BooksTypes, WalletTypes, NEW i, NEW t, NEW stable, NEW f, ExitIsAsked(i, t, stable, f)
  PROVE  /\ Failures(ExposureChecks(i)) = {} /\ Failures(PacingChecks(i)) = {}
         /\ Failures(BalanceChecks(i)) = {}
<1> DEFINE a == i.action  s == i.snap
<1>1. ExitReads(i, t, stable, f) /\ stable \in Stablecoins
      /\ paper[t] >= pos[t].amount /\ paper[Native] >= Gas
  BY DEF ExitIsAsked
<1>2. /\ a.kind = "swap" /\ a.reduceOnly /\ a.amountIn = pos[t].amount /\ a.feeNative = Gas
      /\ i.state.positions = [u \in Tokens |-> pos[u].amount]
  BY <1>1 DEF ExitReads
<1>3. /\ t \in Tokens /\ t # Native /\ t \notin Stablecoins /\ pos[t].amount \in Nat \ {0}
      /\ a.tokenIn.address = t /\ a.tokenOut.address = stable /\ Gas \in Nat /\ clock \in Nat
      /\ \A u \in {t, Native} : paper[u] \in Int /\ s.balances[u] = Stamp(paper[u], clock)
  BY ExitFacts
<1> HIDE DEF a, s
<1>4. IsExit(a)
  BY <1>2 DEF IsExit
<1>5. ReducesOnly(i)
  BY <1>1, <1>2, <1>3 DEF ReducesOnly, a
<1>6. \A u \in {t, Native} : s.balances[u] # Missing /\ s.balances[u].value = paper[u]
  BY <1>3, LimitsAssumption DEF Stamp
<1>7. \A u \in {t, Native} : paper[u] # Missing
  BY <1>3, LimitsAssumption
<1>8. \A n \in DOMAIN ExposureChecks(i) : ExposureChecks(i)[n].passed
  <2>1. DOMAIN ExposureChecks(i) = 1..4
    BY DEF ExposureChecks
  <2>2. ExposureChecks(i)[1].passed
    BY <1>4, <1>5 DEF ExposureChecks, Check, a
  <2>3. ExposureChecks(i)[2].passed
    BY <1>4, <1>5 DEF ExposureChecks, Check, a
  <2>4. ExposureChecks(i)[3].passed
    BY <1>4, <1>5 DEF ExposureChecks, Check, a
  <2>5. ExposureChecks(i)[4].passed
    BY <1>4, <1>5 DEF ExposureChecks, Check, a
  <2> QED
    BY <2>1, <2>2, <2>3, <2>4, <2>5
<1>9. \A n \in DOMAIN PacingChecks(i) : PacingChecks(i)[n].passed
  <2>1. DOMAIN PacingChecks(i) = 1..2
    BY DEF PacingChecks
  <2>2. PacingChecks(i)[1].passed
    BY <1>4 DEF PacingChecks, Check, a
  <2>3. PacingChecks(i)[2].passed
    BY <1>4 DEF PacingChecks, Check, a
  <2> QED
    BY <2>1, <2>2, <2>3
<1>10. \A n \in DOMAIN BalanceChecks(i) : BalanceChecks(i)[n].passed
  <2>1. AtLeast(paper[t], pos[t].amount + 0) /\ AtLeast(paper[Native], Gas)
    BY <1>1, <1>3, <1>7 DEF AtLeast
  <2>2. DOMAIN BalanceChecks(i) = 1..2
    BY DEF BalanceChecks
  <2>3. BalanceChecks(i)[1].passed
    BY <1>2, <1>3, <1>6, <2>1 DEF BalanceChecks, Check, a, s
  <2>4. BalanceChecks(i)[2].passed
    BY <1>2, <1>3, <1>6, <2>1 DEF BalanceChecks, Check, a, s
  <2> QED
    BY <2>2, <2>3, <2>4
<1> QED
  BY <1>8, <1>9, <1>10, AllPassed

\* The quote promises what it expects, and the fee and the liquidity are as allowed:
\* only the comparison with the market is left.
LEMMA ExitIsWithinLimits ==
  ASSUME BooksTypes, WalletTypes, NEW i, NEW t, NEW stable, NEW f, ExitIsAsked(i, t, stable, f)
  PROVE  /\ FailsOnly(ExecutionChecks(i), "QUOTE_OFF_MARKET")
         /\ OnMarket(i) => Failures(ExecutionChecks(i)) = {}
<1> DEFINE a == i.action  p == i.policy  q == a.quote  fee == Worth(Native, Gas, market, "ceil")
           s == ExecutionChecks(i)
<1>1. ExitReads(i, t, stable, f) /\ f \in Nat \ {0} /\ fee <= policy.maxFee
  BY DEF ExitIsAsked
<1>2. /\ a.kind = "swap" /\ p = policy /\ a.feeNative = Gas
      /\ q = [expected |-> f, min |-> f, slippage |-> 0, impact |-> 0, at |-> clock]
      /\ i.snap.liquidity = Stamp(policy.minLiquidity, clock)
  BY <1>1 DEF ExitReads
<1>3. /\ Native \in Tokens /\ Gas \in Nat /\ clock \in Nat /\ market[Native] \in Nat \ {0}
      /\ i.snap.prices[Native] = Stamp(market[Native], clock)
  BY ExitFacts
<1>4. /\ policy.nativeDecimals = Decimals[Native] /\ policy.maxSlippage \in Nat
      /\ policy.maxImpact \in Nat /\ policy.minLiquidity \in Nat
  BY LimitsAreNatural
<1>5. ImpliedSlippage(q) = 0 /\ q.impact = 0
  <2>1. q.expected = f /\ q.min = f /\ q.slippage = 0 /\ q.impact = 0
    BY <1>2
  <2>2. (f - f) * BPS_DENOM = 0
    BY <1>1, ScaleAssumption
  <2>3. CeilDiv(0, f) = 0
    BY <1>1, Division DEF CeilDiv, FloorDiv
  <2> QED
    BY <1>1, <2>1, <2>2, <2>3 DEF ImpliedSlippage
<1>6. FeeUsd(i) = fee /\ fee \in Nat /\ fee # Missing
  <2>1. UsablePrice(i.snap.prices[Native]) /\ i.snap.prices[Native].value = market[Native]
    BY <1>3, LimitsAssumption DEF UsablePrice, Stamp
  <2>2. FeeUsd(i) = NativeToUsd(Gas, Decimals[Native], market[Native], "ceil")
    BY <1>2, <1>4, <2>1 DEF FeeUsd, Valued
  <2>3. fee \in Nat
    BY <1>3, WorthInParts
  <2> QED
    BY <2>2, <2>3, LimitsAssumption DEF Worth
<1>7. AtMost(FeeUsd(i), p.maxFee)
  BY <1>1, <1>2, <1>6 DEF AtMost
<1>8. LiquidityOf(i) # Missing /\ LiquidityOf(i).value >= p.minLiquidity
  <2>1. LiquidityOf(i) = Stamp(policy.minLiquidity, clock)
    BY <1>2 DEF LiquidityOf, IsLp, LpKinds, LpEntries
  <2> QED
    BY <1>2, <1>3, <1>4, <2>1, LimitsAssumption DEF Stamp
<1> HIDE DEF a, p, q, fee
<1>9. DOMAIN s = 1..5
  BY DEF ExecutionChecks
<1>10. s[1].passed
  <2>1. ImpliedSlippage(i.action.quote) <= i.policy.maxSlippage
    BY <1>2, <1>4, <1>5 DEF a, p, q
  <2> QED
    BY <2>1 DEF ExecutionChecks, Check
<1>11. s[2].passed
  <2>1. i.action.quote.impact <= i.policy.maxImpact
    BY <1>2, <1>4, <1>5 DEF a, p, q
  <2> QED
    BY <2>1 DEF ExecutionChecks, Check
<1>12. s[3].code = "QUOTE_OFF_MARKET" /\ (OnMarket(i) => s[3].passed)
  BY DEF ExecutionChecks, Check
<1>13. s[4].passed
  BY <1>7 DEF ExecutionChecks, Check, p
<1>14. s[5].passed
  BY <1>8 DEF ExecutionChecks, Check, p
<1> HIDE DEF s
<1>15. FailsOnly(s, "QUOTE_OFF_MARKET")
  BY <1>9, <1>10, <1>11, <1>12, <1>13, <1>14 DEF FailsOnly
<1>16. OnMarket(i) => Failures(s) = {}
  BY <1>9, <1>10, <1>11, <1>12, <1>13, <1>14 DEF Failures
<1> QED
  BY <1>15, <1>16 DEF s

\* A sale at the market is on the market when its roundings are tolerated.
LEMMA ExitIsOnMarket ==
  ASSUME BooksTypes, WalletTypes, NEW i, NEW t, NEW stable,
         ExitIsAsked(i, t, stable, Fair(t, stable, pos[t].amount)), RoundingIsTolerated(t, stable)
  PROVE  OnMarket(i)
<1> DEFINE f == Fair(t, stable, pos[t].amount)  x == pos[t].amount
           a == i.action  p == i.policy
           v == Worth(t, x, market, "ceil")  w == Worth(stable, f, market, "floor")
           budget == p.maxSlippage + p.maxImpact
           tolerance == IF budget < BPS_DENOM THEN budget ELSE BPS_DENOM
           margin == BpsOf(v, tolerance)
<1>1. ExitReads(i, t, stable, f) /\ f \in Nat \ {0}
  BY DEF ExitIsAsked
<1>2. /\ t \in Tokens /\ stable \in Tokens /\ x \in Nat \ {0} /\ clock \in Nat
      /\ a.tokenIn.address = t /\ a.tokenIn.decimals = Decimals[t]
      /\ a.tokenOut.address = stable /\ a.tokenOut.decimals = Decimals[stable]
      /\ \A u \in {t, stable} : /\ market[u] \in Nat \ {0}
                                 /\ i.snap.prices[u] = Stamp(market[u], clock)
  BY <1>1, ExitFacts
<1>3. v <= w + RoundingOf(stable)
  BY <1>2, SalePaysItsWorth
<1> HIDE DEF f
<1>4. p = policy /\ a.amountIn = x /\ a.quote.expected = f
  BY <1>1 DEF ExitReads
<1>5. budget \in Nat
  BY <1>4, LimitsAreNatural
<1>6. \A u \in {t, stable} : /\ UsablePrice(i.snap.prices[u])
                             /\ i.snap.prices[u].value = market[u]
  BY <1>2, LimitsAssumption DEF UsablePrice, Stamp
<1>7. AmountInUsd(i) = v
  BY <1>2, <1>4, <1>6 DEF AmountInUsd, PriceIn, Valued, Worth
<1>8. Valued(a.quote.expected, a.tokenOut, PriceOut(i), "floor") = w
  BY <1>2, <1>4, <1>6 DEF PriceOut, Valued, Worth
<1>9. v \in Nat /\ w \in Nat
  BY <1>1, <1>2, WorthInParts
<1>10. tolerance = Min({budget, BPS_DENOM}) /\ tolerance \in Nat
  <2>1. BPS_DENOM \in Nat
    BY ScaleAssumption
  <2>2. Min({budget, BPS_DENOM}) \in {budget, BPS_DENOM}
        /\ \A k \in {budget, BPS_DENOM} : Min({budget, BPS_DENOM}) <= k
    <3> HIDE DEF budget
    <3>1. \E m \in {budget, BPS_DENOM} : \A k \in {budget, BPS_DENOM} : m <= k
      BY <1>5, <2>1
    <3> QED
      BY <3>1 DEF Min
  <2> HIDE DEF budget
  <2> QED
    BY <1>5, <2>1, <2>2
<1>11. RoundingOf(stable) <= margin
  BY <1>4, <1>10 DEF RoundingIsTolerated
<1>12. margin \in Nat
  <2>1. v * tolerance \in Nat
    BY <1>9, <1>10
  <2> QED
    BY <2>1, Fraction, ScaleAssumption DEF BpsOf
<1>13. RoundingOf(stable) \in Int
  <2>1. Worth(stable, 1, market, "ceil") \in Nat
    BY <1>2, WorthInParts
  <2> QED
    BY <2>1 DEF RoundingOf
<1> HIDE DEF v, w, margin, tolerance, budget
<1>14. w >= v - margin
  BY <1>3, <1>9, <1>11, <1>12, <1>13
<1>15. v # Missing /\ w # Missing
  BY <1>9, LimitsAssumption
<1> QED
  BY <1>7, <1>8, <1>14, <1>15 DEF OnMarket, AtLeast, margin, tolerance, budget, a, p

\* The engine's answer to an exit, in any state with typed books and wallet.
LEMMA ExitsStayOpen ==
  ASSUME BooksTypes, WalletTypes
  PROVE  ExitsAreOpen
<1> SUFFICES ASSUME NEW t \in Held, NEW stable \in Stablecoins,
                    MayTrade(t, stable), ~IsQuote(t), Fair(t, stable, pos[t].amount) > 0,
                    paper[t] >= pos[t].amount, paper[Native] >= Gas,
                    Worth(Native, Gas, market, "ceil") <= policy.maxFee
             PROVE  /\ Decision(ExitOrder(t, stable)) \in {"OK", "QUOTE_OFF_MARKET"}
                    /\ RoundingIsTolerated(t, stable) => Decision(ExitOrder(t, stable)) = "OK"
  BY DEF ExitsAreOpen
<1> DEFINE f == Fair(t, stable, pos[t].amount)  c == ExitOrder(t, stable)  i == Read(c)
<1>1. f \in Nat
  <2>1. t \in Tokens /\ stable \in Tokens
    BY BooksAssumption DEF Held
  <2>2. pos[t].amount \in Nat
    BY <2>1 DEF BooksTypes
  <2> QED
    BY <2>1, <2>2, FairIsTight
<1>2. Decision(c) = Evaluate(i) /\ ExitReads(i, t, stable, f)
  BY <1>1, ExitIsRead
<1> HIDE DEF c, i
<1>3. ExitIsAsked(i, t, stable, f)
  BY <1>1, <1>2 DEF ExitIsAsked
<1> HIDE DEF f
<1>4. /\ Failures(Tier0(i)) = {} /\ Failures(StructureChecks(i)) = {}
      /\ Failures(FreshnessChecks(i)) = {} /\ Failures(AllowlistChecks(i)) = {}
      /\ Failures(ExposureChecks(i)) = {} /\ Failures(PacingChecks(i)) = {}
      /\ Failures(BalanceChecks(i)) = {} /\ ~IsLp(i.action)
  BY <1>3, ExitIsWellFormed, ExitIsStructured, ExitIsFresh, ExitIsExempt
<1>5. /\ FailsOnly(ExecutionChecks(i), "QUOTE_OFF_MARKET")
      /\ OnMarket(i) => Failures(ExecutionChecks(i)) = {}
  BY <1>3, ExitIsWithinLimits
<1>6. Evaluate(i) \in {"OK", "QUOTE_OFF_MARKET"}
  BY <1>4, <1>5, RefusedOnlyBy
<1>7. ASSUME RoundingIsTolerated(t, stable)
      PROVE  Evaluate(i) = "OK"
  <2>1. OnMarket(i)
    BY <1>3, <1>7, ExitIsOnMarket DEF f
  <2> QED
    BY <1>4, <1>5, <2>1, OkMeansEveryCheck
<1> QED
  BY <1>2, <1>6, <1>7 DEF c

\* Whatever was opened, reduced, closed, added and removed, whatever the day has lost and
\* whatever the cooldowns, a holding that is in the wallet can be sold at the market into
\* a listed stablecoin: the engine allows it, and only its comparison of the quote with the
\* market may refuse it, when the tolerated slippage is worth less than the roundings of the
\* quote (engine.ts evaluate: the exemptions of reduceOnly actions).
THEOREM ExitsAreAlwaysOpen == Spec => []ExitsAreOpen
<1>1. RiskInv /\ WalletTypes => ExitsAreOpen
  BY ExitsStayOpen DEF RiskInv
<1> QED
  BY <1>1, AlwaysWallet, PTL

-----------------------------------------------------------------------------
(***************************************************************************)
(* The books of range positions.                                           *)
(***************************************************************************)

EventRows == [id : TokenIds, action : {"ADD", "REMOVE", "EXIT"}, liquidity : Int, capital : Int,
              liquidityAfter : Nat, capitalAfter : Nat]
PnlRows == [id : TokenIds, action : {"ADD", "REBALANCE", "REMOVE", "EXIT"}, day : Nat,
            proceeds : Nat, released : Nat, fee : Nat, realized : Int]
RebalanceRows == [pool : RangePools, closed : TokenIds, opened : TokenIds, day : Nat]

RangeTypes ==
    /\ rangeDay \in Nat
    /\ rangeRow \in [TokenIds -> RangeRows \cup {NoRow}]
    /\ rangeEvents \in Seq(EventRows)
    /\ rangePnl \in Seq(PnlRows)
    /\ rangeRebalances \subseteq RebalanceRows /\ IsFiniteSet(rangeRebalances)

\* What the trail, the P&L and the rebalances are of has a row, and none of them is of
\* a day to come.
RangeLinks ==
    /\ \A i \in DOMAIN rangeEvents : Booked(rangeEvents[i].id)
    /\ \A i \in DOMAIN rangePnl : Booked(rangePnl[i].id) /\ rangePnl[i].day <= rangeDay
    /\ \A r \in rangeRebalances : Booked(r.opened) /\ r.day <= rangeDay


LEMMA SumIsTotal == ASSUME NEW f, NEW S PROVE SumOf(f, S) = Total(f, S)
  BY DEF SumOf, Total

\* A table with a row more, of which some rows are added up.
LEMMA OneRowMore ==
    ASSUME NEW n \in Nat, NEW S \in SUBSET (1..n), NEW f, NEW g,
           \A i \in S : f[i] \in Int /\ g[i] = f[i], g[n + 1] \in Int
    PROVE  /\ SumOf(f, S) \in Int /\ SumOf(g, S) = SumOf(f, S)
           /\ SumOf(g, S \cup {n + 1}) = SumOf(f, S) + g[n + 1]
<1>1. IsFiniteSet(S) /\ n + 1 \notin S
  <2>1. IsFiniteSet(1..n) /\ n + 1 \notin 1..n
    <3>1. 1 \in Int /\ n \in Int /\ n + 1 \notin 1..n
      OBVIOUS
    <3> QED
      BY <3>1, FS_Interval
  <2> QED
    BY <2>1, FS_Subset
<1>2. Total(g, S) = Total(f, S) /\ Total(f, S) \in Int
  BY <1>1, TotalOfSame, TotalIsInt
<1>3. Total(g, S \cup {n + 1}) = g[n + 1] + Total(g, S)
  <2>1. \A i \in S : g[i] \in Int
    OBVIOUS
  <2> QED
    BY <1>1, <2>1, TotalAdds
<1> QED
  BY <1>2, <1>3, SumIsTotal

\* Nothing more is due on a whole position than its basis.
LEMMA CostOfAll ==
    ASSUME NEW row \in RangeRows, NEW burned \in 1..row.liquidity
    PROVE  /\ RangeCostReleased(row, burned) \in 0..row.capital
           /\ burned = row.liquidity => RangeCostReleased(row, burned) = row.capital
<1> DEFINE c == row.capital  l == row.liquidity  n == c * burned + l - 1  q == n \div l
<1>1. c \in Nat /\ l \in Nat \ {0} /\ burned \in Nat \ {0} /\ burned <= l
  BY DEF RangeRows
<1>2. RangeCostReleased(row, burned) = q
  BY DEF RangeCostReleased
<1> HIDE DEF c, l
<1>3. c * burned \in Nat /\ c * l \in Nat /\ c * burned <= c * l
  BY <1>1
<1>4. n \in Nat /\ q \in Nat /\ l * q <= n /\ n < l * q + l
  BY <1>1, <1>3, Division
<1> HIDE DEF q
<1>5. q <= c
  <2>1. SUFFICES ASSUME q >= c + 1 PROVE FALSE
    BY <1>1, <1>4
  <2>2. l * q >= l * (c + 1) /\ l * (c + 1) = c * l + l
    BY <1>1, <1>4, <2>1
  <2> QED
    BY <1>1, <1>3, <1>4, <2>2
<1>6. burned = l => q >= c
  <2>1. SUFFICES ASSUME burned = l, q + 1 <= c PROVE FALSE
    BY <1>1, <1>4
  <2>2. l * (q + 1) <= l * c /\ l * (q + 1) = l * q + l /\ l * c = c * burned
    BY <1>1, <1>4, <2>1
  <2> QED
    BY <1>1, <1>3, <1>4, <2>2
<1> QED
  BY <1>1, <1>2, <1>4, <1>5, <1>6 DEF c, l

Was(id) == IF Booked(id) THEN rangeRow[id] ELSE [liquidity |-> 0, capital |-> 0]

\* What every change of a position does: to its row, the trail and the P&L.
Changes(id, row, e, p) ==
    /\ rangeRow' = [rangeRow EXCEPT ![id] = row]
    /\ rangeEvents' = Append(rangeEvents, e) /\ rangePnl' = Append(rangePnl, p)
    /\ rangeDay' = rangeDay
    /\ row \in RangeRows /\ e \in EventRows /\ p \in PnlRows
    /\ e.id = id /\ p.id = id /\ p.day = rangeDay
    /\ row.liquidity = Was(id).liquidity + e.liquidity
    /\ row.capital = Was(id).capital + e.capital
    /\ (row.closed <=> row.liquidity = 0) /\ (row.closed => row.capital = 0)
    /\ p.released = (IF e.capital > 0 THEN 0 ELSE -e.capital)
    /\ p.realized = p.proceeds - p.released - p.fee

\* A mint that replaces a position is the only change that counts as a rebalance.
CountsOnce(id, row, p) ==
    \/ /\ p.action # "REBALANCE" /\ rangeRebalances' = rangeRebalances
       /\ Booked(id) => row.pool = rangeRow[id].pool
    \/ /\ p.action = "REBALANCE" /\ ~Booked(id)
       /\ \E from \in TokenIds :
             rangeRebalances' = rangeRebalances \cup
                {[pool |-> row.pool, closed |-> from, opened |-> id, day |-> rangeDay]}

LEMMA OpenChanges ==
    ASSUME RangeTypes, NEW id \in TokenIds, NEW thePool \in RangePools, NEW l \in Liquidities,
           NEW c \in Capitals, NEW from \in TokenIds \cup {NoRow}, NEW fee \in GasCosts,
           OpenRangePosition(id, thePool, l, c, from, fee)
    PROVE  \E row, e, p : Changes(id, row, e, p) /\ CountsOnce(id, row, p)
<1> DEFINE row == [pool |-> thePool, liquidity |-> l, capital |-> c, closed |-> FALSE]
           e == [id |-> id, action |-> "ADD", liquidity |-> l, capital |-> c,
                 liquidityAfter |-> l, capitalAfter |-> c]
           p == [id |-> id, action |-> IF from = NoRow THEN "ADD" ELSE "REBALANCE",
                 day |-> rangeDay, proceeds |-> 0, released |-> 0, fee |-> fee,
                 realized |-> 0 - 0 - fee]
<1>1. l \in Nat \ {0} /\ c \in Nat /\ fee \in Nat /\ rangeDay \in Nat
  BY RangeBooksConstants DEF RangeTypes
<1>2. /\ rangeRow' = [rangeRow EXCEPT ![id] = row] /\ rangeEvents' = Append(rangeEvents, e)
      /\ rangePnl' = Append(rangePnl, p) /\ rangeDay' = rangeDay /\ ~Booked(id)
      /\ from # NoRow => Booked(from)
      /\ rangeRebalances' = IF from = NoRow THEN rangeRebalances
                            ELSE rangeRebalances \cup
                              {[pool |-> thePool, closed |-> from, opened |-> id, day |-> rangeDay]}
  BY DEF OpenRangePosition, RecordRangeEvent, RecordRangePnl, CountRangeRebalance, Replaceable
<1>3. row \in RangeRows /\ e \in EventRows /\ p \in PnlRows
  BY <1>1 DEF RangeRows, EventRows, PnlRows
<1>4. Changes(id, row, e, p)
  BY <1>1, <1>2, <1>3 DEF Changes, Was
<1>5. CountsOnce(id, row, p)
  BY <1>2 DEF CountsOnce
<1> QED
  BY <1>4, <1>5

LEMMA RowChanged ==
    ASSUME NEW row \in RangeRows, NEW l, NEW c, NEW closed
    PROVE  [row EXCEPT !.liquidity = l, !.capital = c, !.closed = closed]
              = [pool |-> row.pool, liquidity |-> l, capital |-> c, closed |-> closed]
<1> DEFINE new == [row EXCEPT !.liquidity = l, !.capital = c, !.closed = closed]
<1>1. /\ DOMAIN new = {"pool", "liquidity", "capital", "closed"}
      /\ new = [f \in DOMAIN new |-> new[f]]
  BY DEF RangeRows
<1>2. new.pool = row.pool /\ new.liquidity = l
  BY DEF RangeRows
<1>3. new.capital = c /\ new.closed = closed
  BY DEF RangeRows
<1> HIDE DEF new
<1>4. new = [pool |-> row.pool, liquidity |-> l, capital |-> c, closed |-> closed]
  BY <1>1, <1>2, <1>3
<1> QED
  BY <1>4 DEF new

LEMMA IncreaseChanges ==
    ASSUME RangeTypes, NEW id \in TokenIds, NEW l \in Liquidities, NEW c \in Capitals,
           NEW fee \in GasCosts, IncreaseRangePosition(id, l, c, fee)
    PROVE  \E row, e, p : Changes(id, row, e, p) /\ CountsOnce(id, row, p)
<1> DEFINE old == rangeRow[id]
           row == [old EXCEPT !.liquidity = @ + l, !.capital = @ + c, !.closed = FALSE]
           e == [id |-> id, action |-> "ADD", liquidity |-> l, capital |-> c,
                 liquidityAfter |-> row.liquidity, capitalAfter |-> row.capital]
           p == [id |-> id, action |-> "ADD", day |-> rangeDay, proceeds |-> 0, released |-> 0,
                 fee |-> fee, realized |-> 0 - 0 - fee]
<1>1. l \in Nat \ {0} /\ c \in Nat /\ fee \in Nat /\ rangeDay \in Nat
  BY RangeBooksConstants DEF RangeTypes
<1>2. /\ rangeRow' = [rangeRow EXCEPT ![id] = row] /\ rangeEvents' = Append(rangeEvents, e)
      /\ rangePnl' = Append(rangePnl, p) /\ rangeDay' = rangeDay /\ Booked(id)
      /\ rangeRebalances' = rangeRebalances
  BY DEF IncreaseRangePosition, RecordRangeEvent, RecordRangePnl
<1>3. old \in RangeRows
  BY <1>2 DEF RangeTypes, Booked
<1>4. /\ row \in RangeRows /\ row.liquidity = old.liquidity + l /\ row.liquidity # 0
      /\ row.capital = old.capital + c /\ row.closed = FALSE /\ row.pool = old.pool
  <2>1. old.liquidity \in Nat /\ old.capital \in Nat /\ old.pool \in RangePools
    BY <1>3 DEF RangeRows
  <2>2. row = [pool |-> old.pool, liquidity |-> old.liquidity + l,
               capital |-> old.capital + c, closed |-> FALSE]
    BY <1>3, RowChanged, Zenon
  <2>3. old.liquidity + l \in Nat \ {0} /\ old.capital + c \in Nat
    BY <1>1, <2>1
  <2> HIDE DEF row
  <2> QED
    BY <2>1, <2>2, <2>3 DEF RangeRows
<1> HIDE DEF row
<1>5. e \in EventRows /\ p \in PnlRows
  BY <1>1, <1>4 DEF RangeRows, EventRows, PnlRows
<1>6. Changes(id, row, e, p)
  BY <1>1, <1>2, <1>4, <1>5 DEF Changes, Was
<1>7. CountsOnce(id, row, p)
  BY <1>2, <1>4 DEF CountsOnce
<1> QED
  BY <1>6, <1>7

LEMMA DecreaseChanges ==
    ASSUME RangeTypes, NEW id \in TokenIds, NEW burned \in Nat, NEW proceeds \in Proceeds,
           NEW fee \in GasCosts, DecreaseRangePosition(id, burned, proceeds, fee)
    PROVE  \E row, e, p : Changes(id, row, e, p) /\ CountsOnce(id, row, p)
<1> DEFINE old == rangeRow[id]
           released == RangeCostReleased(old, burned)
           whole == old.liquidity = burned
           row == [old EXCEPT !.liquidity = @ - burned, !.capital = @ - released,
                              !.closed = whole]
           action == IF row.closed THEN "EXIT" ELSE "REMOVE"
           e == [id |-> id, action |-> action, liquidity |-> -burned, capital |-> -released,
                 liquidityAfter |-> row.liquidity, capitalAfter |-> row.capital]
           p == [id |-> id, action |-> action, day |-> rangeDay, proceeds |-> proceeds,
                 released |-> released, fee |-> fee, realized |-> proceeds - released - fee]
<1>1. proceeds \in Nat /\ fee \in Nat /\ rangeDay \in Nat
  BY RangeBooksConstants DEF RangeTypes
<1>2. /\ rangeRow' = [rangeRow EXCEPT ![id] = row] /\ rangeEvents' = Append(rangeEvents, e)
      /\ rangePnl' = Append(rangePnl, p) /\ rangeDay' = rangeDay /\ Booked(id)
      /\ burned \in 1..old.liquidity /\ rangeRebalances' = rangeRebalances
  BY DEF DecreaseRangePosition, RecordRangeEvent, RecordRangePnl
<1>3. old \in RangeRows
  BY <1>2 DEF RangeTypes, Booked
<1>4. released \in 0..old.capital /\ (burned = old.liquidity => released = old.capital)
  BY <1>2, <1>3, CostOfAll
<1> HIDE DEF released, whole
<1>5. old.liquidity \in Nat /\ old.capital \in Nat
  BY <1>3 DEF RangeRows
<1>6. /\ row \in RangeRows /\ row.liquidity = old.liquidity - burned
      /\ row.capital = old.capital - released /\ row.closed = whole
      /\ row.pool = old.pool
  <2>1. row = [pool |-> old.pool, liquidity |-> old.liquidity - burned,
               capital |-> old.capital - released, closed |-> whole]
    BY <1>3, RowChanged, Zenon
  <2>2. /\ old.liquidity - burned \in Nat /\ old.capital - released \in Nat
        /\ old.pool \in RangePools /\ whole \in BOOLEAN
    BY <1>2, <1>3, <1>4, <1>5 DEF RangeRows, whole
  <2> HIDE DEF row
  <2> QED
    BY <2>1, <2>2 DEF RangeRows
<1> HIDE DEF row
<1>7. released \in Nat /\ -released \in Int /\ proceeds - released - fee \in Int
  BY <1>1, <1>4, <1>5
<1>8. e \in EventRows /\ p \in PnlRows
  BY <1>1, <1>2, <1>5, <1>6, <1>7 DEF RangeRows, EventRows, PnlRows
<1>9. Changes(id, row, e, p)
  <2>1. Was(id) = old
    BY <1>2 DEF Was
  <2>2. (row.closed <=> row.liquidity = 0) /\ (row.closed => row.capital = 0)
    <3>1. CASE whole
      <4>1. row.liquidity = 0 /\ row.capital = 0
        BY <1>4, <1>5, <1>6, <3>1 DEF whole
      <4>2. row.closed
        BY <1>6, <3>1, Zenon
      <4> QED
        BY <4>1, <4>2
    <3>2. CASE ~whole
      <4>1. row.liquidity # 0
        BY <1>2, <1>5, <1>6, <3>2 DEF whole
      <4>2. ~row.closed
        BY <1>6, <3>2, Zenon
      <4> QED
        BY <4>1, <4>2
    <3> QED
      BY <3>1, <3>2
  <2>3. released = IF -released > 0 THEN 0 ELSE -(-released)
    BY <1>7
  <2>4. row.liquidity = old.liquidity + (-burned) /\ row.capital = old.capital + (-released)
    BY <1>2, <1>5, <1>6, <1>7
  <2> QED
    BY <1>2, <1>6, <1>8, <2>1, <2>2, <2>3, <2>4 DEF Changes
<1>10. CountsOnce(id, row, p)
  BY <1>2, <1>6 DEF CountsOnce
<1> QED
  BY <1>9, <1>10

LEMMA CloseChanges ==
    ASSUME RangeTypes, NEW id \in TokenIds, NEW proceeds \in Proceeds,
           NEW fee \in GasCosts, CloseRangePosition(id, proceeds, fee)
    PROVE  \E row, e, p : Changes(id, row, e, p) /\ CountsOnce(id, row, p)
<1>1. rangeRow[id] \in RangeRows /\ DecreaseRangePosition(id, rangeRow[id].liquidity, proceeds, fee)
  BY DEF CloseRangePosition, RangeTypes, Booked
<1>2. rangeRow[id].liquidity \in Nat
  BY <1>1 DEF RangeRows
<1> QED
  BY <1>1, <1>2, DecreaseChanges

LEMMA OneChange ==
    ASSUME RangeTypes, NEW id \in TokenIds, NEW fee \in GasCosts, RangeChange(id, fee)
    PROVE  \E row, e, p : Changes(id, row, e, p) /\ CountsOnce(id, row, p)
<1>1. CASE \E thePool \in RangePools, l \in Liquidities, c \in Capitals,
              from \in TokenIds \cup {NoRow} : OpenRangePosition(id, thePool, l, c, from, fee)
  BY <1>1, OpenChanges
<1>2. CASE \E l \in Liquidities, c \in Capitals : IncreaseRangePosition(id, l, c, fee)
  BY <1>2, IncreaseChanges
<1>3. CASE \E l \in Liquidities, p \in Proceeds : DecreaseRangePosition(id, l, p, fee)
  <2>1. Liquidities \subseteq Nat
    BY RangeBooksConstants
  <2> QED
    BY <1>3, <2>1, DecreaseChanges
<1>4. CASE \E p \in Proceeds : CloseRangePosition(id, p, fee)
  BY <1>4, CloseChanges
<1> QED
  BY <1>1, <1>2, <1>3, <1>4 DEF RangeChange

\* The rows of a table after one more.
LEMMA AfterOneMore ==
    ASSUME NEW R, NEW s \in Seq(R), NEW t, NEW r \in R, t = Append(s, r)
    PROVE  /\ Len(s) \in Nat /\ DOMAIN s = 1..Len(s)
           /\ t \in Seq(R) /\ DOMAIN t = DOMAIN s \cup {Len(s) + 1} /\ Len(s) + 1 \notin DOMAIN s
           /\ \A i \in DOMAIN s : t[i] = s[i] /\ s[i] \in R
           /\ t[Len(s) + 1] = r
  BY AppendProperties, LenProperties, ElementOfSeq

LEMMA ChangeKeepsTypes ==
    ASSUME RangeTypes, NEW id \in TokenIds, NEW row, NEW e, NEW p,
           Changes(id, row, e, p), CountsOnce(id, row, p)
    PROVE  RangeTypes'
<1>1. rangeDay' \in Nat /\ rangeRow' \in [TokenIds -> RangeRows \cup {NoRow}]
  BY DEF RangeTypes, Changes
<1>2. rangeEvents' \in Seq(EventRows) /\ rangePnl' \in Seq(PnlRows)
  BY AfterOneMore DEF RangeTypes, Changes
<1>3. rangeRebalances' \subseteq RebalanceRows /\ IsFiniteSet(rangeRebalances')
  <2>1. CASE rangeRebalances' = rangeRebalances
    BY <2>1 DEF RangeTypes
  <2>2. ASSUME NEW from \in TokenIds,
               rangeRebalances' = rangeRebalances \cup
                 {[pool |-> row.pool, closed |-> from, opened |-> id, day |-> rangeDay]}
        PROVE  rangeRebalances' \subseteq RebalanceRows /\ IsFiniteSet(rangeRebalances')
    <3>1. [pool |-> row.pool, closed |-> from, opened |-> id, day |-> rangeDay] \in RebalanceRows
      BY DEF RebalanceRows, RangeRows, RangeTypes, Changes
    <3> QED
      BY <2>2, <3>1, FS_AddElement DEF RangeTypes
  <2> QED
    BY <2>1, <2>2 DEF CountsOnce
<1> QED
  BY <1>1, <1>2, <1>3 DEF RangeTypes

LEMMA ChangeKeepsLinks ==
    ASSUME RangeTypes, RangeLinks, NEW id \in TokenIds, NEW row, NEW e, NEW p,
           Changes(id, row, e, p), CountsOnce(id, row, p)
    PROVE  RangeLinks'
<1>1. \A x \in TokenIds : Booked(x) => rangeRow'[x] # NoRow
  BY RangeBooksConstants DEF Booked, Changes, RangeTypes
<1>2. rangeRow'[id] # NoRow /\ rangeDay' = rangeDay
  BY RangeBooksConstants DEF Booked, Changes, RangeTypes
<1>3. \A i \in DOMAIN rangeEvents' : rangeRow'[rangeEvents'[i].id] # NoRow
  <2>1. TAKE i \in DOMAIN rangeEvents'
  <2>2. CASE i \in DOMAIN rangeEvents
    <3>1. rangeEvents'[i] = rangeEvents[i] /\ rangeEvents[i] \in EventRows
      BY <2>2, AfterOneMore DEF RangeTypes, Changes
    <3>2. rangeEvents[i].id \in TokenIds
      BY <3>1 DEF EventRows
    <3> QED
      BY <2>2, <3>1, <3>2, <1>1 DEF RangeLinks
  <2>3. CASE i = Len(rangeEvents) + 1
    BY <2>3, <1>2, AfterOneMore DEF RangeTypes, Changes
  <2> QED
    BY <2>1, <2>2, <2>3, AfterOneMore DEF RangeTypes, Changes
<1>4. \A i \in DOMAIN rangePnl' : rangeRow'[rangePnl'[i].id] # NoRow /\ rangePnl'[i].day <= rangeDay'
  <2>1. TAKE i \in DOMAIN rangePnl'
  <2>2. CASE i \in DOMAIN rangePnl
    <3>1. rangePnl'[i] = rangePnl[i] /\ rangePnl[i] \in PnlRows
      BY <2>2, AfterOneMore DEF RangeTypes, Changes
    <3>2. rangePnl[i].id \in TokenIds
      BY <3>1 DEF PnlRows
    <3> QED
      BY <2>2, <3>1, <3>2, <1>1, <1>2 DEF RangeLinks
  <2>3. CASE i = Len(rangePnl) + 1
    BY <2>3, <1>2, AfterOneMore DEF RangeTypes, Changes
  <2> QED
    BY <2>1, <2>2, <2>3, AfterOneMore DEF RangeTypes, Changes
<1>5. \A r \in rangeRebalances' : rangeRow'[r.opened] # NoRow /\ r.day <= rangeDay'
  <2>1. \A r \in rangeRebalances : rangeRow'[r.opened] # NoRow /\ r.day <= rangeDay'
    BY <1>1, <1>2 DEF RangeLinks, RangeTypes, RebalanceRows
  <2>2. ASSUME NEW from \in TokenIds
        PROVE  LET r == [pool |-> row.pool, closed |-> from, opened |-> id, day |-> rangeDay]
               IN  rangeRow'[r.opened] # NoRow /\ r.day <= rangeDay'
    BY <1>2 DEF RangeTypes
  <2> QED
    BY <2>1, <2>2 DEF CountsOnce
<1> QED
  BY <1>3, <1>4, <1>5 DEF RangeLinks, Booked

\* The first part of the books, of a position.
TrailAddsUp(id) ==
    /\ SumOf(LiquidityMoved, Trail(id)) = rangeRow[id].liquidity
    /\ SumOf(CapitalMoved, Trail(id)) = rangeRow[id].capital
    /\ rangeRow[id].closed <=> rangeRow[id].liquidity = 0
    /\ rangeRow[id].closed => rangeRow[id].capital = 0

LEMMA ChangeKeepsTrails ==
    ASSUME RangeTypes, RangeLinks, \A x \in TokenIds : Booked(x) => TrailAddsUp(x),
           NEW id \in TokenIds, NEW row, NEW e, NEW p, Changes(id, row, e, p)
    PROVE  (\A x \in TokenIds : Booked(x) => TrailAddsUp(x))'
<1> DEFINE n == Len(rangeEvents)
<1>1. /\ n \in Nat /\ DOMAIN rangeEvents = 1..n /\ DOMAIN rangeEvents' = (1..n) \cup {n + 1}
      /\ n + 1 \notin 1..n
      /\ \A i \in 1..n : rangeEvents'[i] = rangeEvents[i] /\ rangeEvents[i] \in EventRows
      /\ rangeEvents'[n + 1] = e /\ e \in EventRows /\ e.id = id
  <2>1. rangeEvents \in Seq(EventRows) /\ e \in EventRows /\ rangeEvents' = Append(rangeEvents, e)
        /\ e.id = id
    BY DEF RangeTypes, Changes
  <2>2. /\ n \in Nat /\ DOMAIN rangeEvents = 1..n
        /\ DOMAIN rangeEvents' = DOMAIN rangeEvents \cup {n + 1} /\ n + 1 \notin DOMAIN rangeEvents
        /\ \A i \in DOMAIN rangeEvents : rangeEvents'[i] = rangeEvents[i] /\ rangeEvents[i] \in EventRows
        /\ rangeEvents'[n + 1] = e
    BY <2>1, AfterOneMore
  <2> HIDE DEF n
  <2> QED
    BY <2>1, <2>2
<1> HIDE DEF n
<1>2. SUFFICES ASSUME NEW x \in TokenIds, rangeRow'[x] # NoRow PROVE TrailAddsUp(x)'
  BY DEF Booked
<1> DEFINE S == Trail(x)
           L1 == LiquidityMoved  L2 == LiquidityMoved'
           C1 == CapitalMoved  C2 == CapitalMoved'
<1>3. S \in SUBSET (1..n)
  BY <1>1 DEF Trail
<1>4. /\ \A i \in S : L1[i] \in Int /\ L2[i] = L1[i] /\ C1[i] \in Int /\ C2[i] = C1[i]
      /\ L2[n + 1] = e.liquidity /\ e.liquidity \in Int
      /\ C2[n + 1] = e.capital /\ e.capital \in Int
  <2>1. \A i \in 1..n : rangeEvents[i].liquidity \in Int /\ rangeEvents[i].capital \in Int
    BY <1>1 DEF EventRows
  <2>2. \A i \in 1..n : /\ L1[i] = rangeEvents[i].liquidity /\ L2[i] = rangeEvents[i].liquidity
                         /\ C1[i] = rangeEvents[i].capital /\ C2[i] = rangeEvents[i].capital
    BY <1>1 DEF LiquidityMoved, CapitalMoved
  <2>3. L2[n + 1] = e.liquidity /\ C2[n + 1] = e.capital
    BY <1>1 DEF LiquidityMoved, CapitalMoved
  <2>4. e.liquidity \in Int /\ e.capital \in Int
    BY <1>1 DEF EventRows
  <2> QED
    BY <1>3, <2>1, <2>2, <2>3, <2>4
<1>5. /\ SumOf(L2, S) = SumOf(L1, S) /\ SumOf(C2, S) = SumOf(C1, S)
      /\ SumOf(L2, S \cup {n + 1}) = SumOf(L1, S) + e.liquidity
      /\ SumOf(C2, S \cup {n + 1}) = SumOf(C1, S) + e.capital
  <2> HIDE DEF S, L1, L2, C1, C2
  <2>1. \A f, g : (\A i \in S : f[i] \in Int /\ g[i] = f[i]) /\ g[n + 1] \in Int
                    => /\ SumOf(g, S) = SumOf(f, S)
                       /\ SumOf(g, S \cup {n + 1}) = SumOf(f, S) + g[n + 1]
    <3>1. n \in Nat /\ S \in SUBSET (1..n)
      BY <1>1, <1>3
    <3>2. SUFFICES ASSUME NEW f, NEW g, \A i \in S : f[i] \in Int /\ g[i] = f[i], g[n + 1] \in Int
          PROVE  /\ SumOf(g, S) = SumOf(f, S)
                 /\ SumOf(g, S \cup {n + 1}) = SumOf(f, S) + g[n + 1]
      OBVIOUS
    <3> QED
      BY ONLY <3>1, <3>2, OneRowMore
  <2>2. SumOf(L2, S) = SumOf(L1, S) /\ SumOf(L2, S \cup {n + 1}) = SumOf(L1, S) + e.liquidity
    <3>1. (\A i \in S : L1[i] \in Int /\ L2[i] = L1[i]) /\ L2[n + 1] \in Int
      BY <1>4
    <3>2. SumOf(L2, S) = SumOf(L1, S) /\ SumOf(L2, S \cup {n + 1}) = SumOf(L1, S) + L2[n + 1]
      BY <2>1, <3>1
    <3> QED
      BY <3>2, <1>4
  <2>3. SumOf(C2, S) = SumOf(C1, S) /\ SumOf(C2, S \cup {n + 1}) = SumOf(C1, S) + e.capital
    <3>1. (\A i \in S : C1[i] \in Int /\ C2[i] = C1[i]) /\ C2[n + 1] \in Int
      BY <1>4
    <3>2. SumOf(C2, S) = SumOf(C1, S) /\ SumOf(C2, S \cup {n + 1}) = SumOf(C1, S) + C2[n + 1]
      BY <2>1, <3>1
    <3> QED
      BY <3>2, <1>4
  <2> QED
    BY <2>2, <2>3
<1>6. Trail(x)' = IF x = id THEN S \cup {n + 1} ELSE S
  BY <1>1 DEF Trail
<1>7. SumOf(L1, S) = Was(x).liquidity /\ SumOf(C1, S) = Was(x).capital
  <2>1. CASE Booked(x)
    BY <2>1 DEF TrailAddsUp, Was
  <2>2. CASE ~Booked(x)
    <3>1. S = {}
      BY <2>2 DEF Trail, RangeLinks
    <3> HIDE DEF S, L1, C1
    <3>2. SumOf(L1, S) = 0 /\ SumOf(C1, S) = 0
      BY <3>1, SumIsTotal, TotalOfNothing
    <3> QED
      BY <2>2, <3>2 DEF Was
  <2> QED
    BY <2>1, <2>2
<1>8. /\ (TrailAddsUp(x)' <=>
            /\ SumOf(L2, Trail(x)') = rangeRow'[x].liquidity
            /\ SumOf(C2, Trail(x)') = rangeRow'[x].capital
            /\ rangeRow'[x].closed <=> rangeRow'[x].liquidity = 0
            /\ rangeRow'[x].closed => rangeRow'[x].capital = 0)
  BY DEF TrailAddsUp
<1>9. CASE x = id
  <2>1. rangeRow'[x] = row
    BY <1>9 DEF Changes, RangeTypes
  <2>2. /\ row.liquidity = Was(x).liquidity + e.liquidity
        /\ row.capital = Was(x).capital + e.capital
        /\ row.closed <=> row.liquidity = 0
        /\ row.closed => row.capital = 0
    BY <1>9 DEF Changes
  <2> HIDE DEF S, L1, L2, C1, C2
  <2> QED
    BY <1>5, <1>6, <1>7, <1>8, <1>9, <2>1, <2>2
<1>10. CASE x # id
  <2>1. rangeRow'[x] = rangeRow[x] /\ Booked(x)
    BY <1>2, <1>10 DEF Changes, RangeTypes, Booked
  <2>2. /\ SumOf(L1, S) = rangeRow[x].liquidity
        /\ SumOf(C1, S) = rangeRow[x].capital
        /\ rangeRow[x].closed <=> rangeRow[x].liquidity = 0
        /\ rangeRow[x].closed => rangeRow[x].capital = 0
    BY <2>1 DEF TrailAddsUp
  <2> HIDE DEF S, L1, L2, C1, C2
  <2> QED
    BY <1>5, <1>6, <1>8, <1>10, <2>1, <2>2
<1> QED
  BY <1>9, <1>10

\* What is at risk in the open rows is what all of them hold: a closed row holds nothing.
AtRisk == [id \in TokenIds |-> IF Booked(id) THEN rangeRow[id].capital ELSE 0]

LEMMA AtRiskIsDeployed ==
    RangeTypes /\ (\A x \in TokenIds : Booked(x) => TrailAddsUp(x))
       => RangeDeployed = SumOf(AtRisk, TokenIds)
<1> SUFFICES ASSUME RangeTypes, \A x \in TokenIds : Booked(x) => TrailAddsUp(x)
             PROVE  RangeDeployed = SumOf(AtRisk, TokenIds)
  OBVIOUS
<1> DEFINE open == {id \in TokenIds : Booked(id) /\ ~rangeRow[id].closed}
           held == [id \in open |-> rangeRow[id].capital]
<1>1. RangeDeployed = SumOf(held, open)
  BY DEF RangeDeployed
<1>2. IsFiniteSet(TokenIds) /\ open \subseteq TokenIds
  BY RangeBooksConstants
<1>3. \A id \in TokenIds : AtRisk[id] \in Int
  BY DEF AtRisk, RangeTypes, Booked, RangeRows
<1>4. \A id \in TokenIds \ open : AtRisk[id] = 0
  BY DEF AtRisk, TrailAddsUp
<1>5. \A id \in open : AtRisk[id] = held[id]
  BY DEF AtRisk
<1> HIDE DEF open, held
<1>6. Total(AtRisk, TokenIds) = Total(AtRisk, open)
  BY <1>2, <1>3, <1>4, TotalSkipsZeros
<1>7. Total(AtRisk, open) = Total(held, open)
  BY <1>2, <1>5, FS_Subset, TotalOfSame
<1> QED
  BY <1>1, <1>6, <1>7, SumIsTotal

\* The second part of the books.
ReleasesReachThePnl ==
    SumOf(Realized, DOMAIN rangePnl) =
       SumOf(CashEarned, DOMAIN rangePnl)
          - (SumOf(CapitalPaid, DOMAIN rangeEvents) - SumOf(AtRisk, TokenIds))

LEMMA ColumnGrows ==
    ASSUME NEW k \in Nat, NEW D, NEW E, D = 1..k, E = D \cup {k + 1}, NEW f, NEW g, NEW d \in Int,
           \A i \in D : f[i] \in Int /\ g[i] = f[i], g[k + 1] = d
    PROVE  SumOf(f, D) \in Int /\ SumOf(g, E) = SumOf(f, D) + d
<1>1. /\ k \in Nat /\ D \in SUBSET (1..k) /\ g[k + 1] \in Int
      /\ \A i \in D : f[i] \in Int /\ g[i] = f[i]
  OBVIOUS
<1>2. SumOf(f, D) \in Int /\ SumOf(g, D \cup {k + 1}) = SumOf(f, D) + g[k + 1]
  BY ONLY <1>1, OneRowMore
<1> QED
  BY <1>2

\* What a row more adds to the columns that are added up whole.
LEMMA ColumnsGrow ==
    ASSUME RangeTypes, NEW id \in TokenIds, NEW row, NEW e, NEW p, Changes(id, row, e, p)
    PROVE  /\ SumOf(Realized, DOMAIN rangePnl) \in Int
           /\ SumOf(CashEarned, DOMAIN rangePnl) \in Int
           /\ SumOf(CapitalPaid, DOMAIN rangeEvents) \in Int
           /\ SumOf(Realized', DOMAIN rangePnl') = SumOf(Realized, DOMAIN rangePnl) + p.realized
           /\ SumOf(CashEarned', DOMAIN rangePnl')
                 = SumOf(CashEarned, DOMAIN rangePnl) + (p.proceeds - p.fee)
           /\ SumOf(CapitalPaid', DOMAIN rangeEvents')
                 = SumOf(CapitalPaid, DOMAIN rangeEvents)
                      + (IF e.capital > 0 THEN e.capital ELSE 0)
<1> DEFINE n == Len(rangeEvents)  D == DOMAIN rangeEvents  E == DOMAIN rangeEvents'
           m == Len(rangePnl)  F == DOMAIN rangePnl  G == DOMAIN rangePnl'
<1>1. /\ n \in Nat /\ D = 1..n /\ E = D \cup {n + 1}
      /\ \A i \in D : rangeEvents'[i] = rangeEvents[i] /\ rangeEvents[i] \in EventRows
      /\ rangeEvents'[n + 1] = e /\ e \in EventRows
  BY AfterOneMore DEF RangeTypes, Changes
<1>2. /\ m \in Nat /\ F = 1..m /\ G = F \cup {m + 1}
      /\ \A i \in F : rangePnl'[i] = rangePnl[i] /\ rangePnl[i] \in PnlRows
      /\ rangePnl'[m + 1] = p /\ p \in PnlRows
  BY AfterOneMore DEF RangeTypes, Changes
<1>3. /\ SumOf(Realized, F) \in Int
      /\ SumOf(Realized', G) = SumOf(Realized, F) + p.realized
  <2> DEFINE f == Realized  g == Realized'  value(q) == q.realized  d == value(p)
  <2>1. (\A i \in F : f[i] = value(rangePnl[i]) /\ g[i] = value(rangePnl[i])) /\ g[m + 1] = d
    BY <1>2 DEF Realized
  <2>2. \A q \in PnlRows : value(q) \in Int
    <3>1. \A q \in PnlRows : q.realized \in Int /\ q.proceeds \in Nat /\ q.fee \in Nat
      BY DEF PnlRows
    <3> QED
      BY <3>1
  <2> HIDE DEF value, D, E, F, G, n, m
  <2>3. (\A i \in F : f[i] \in Int /\ g[i] = f[i]) /\ d \in Int
    BY <1>2, <2>1, <2>2
  <2> HIDE DEF f, g, d
  <2>4. m \in Nat /\ F = 1..m /\ G = F \cup {m + 1} /\ g[m + 1] = d
    BY <1>2, <2>1
  <2>5. SumOf(f, F) \in Int /\ SumOf(g, G) = SumOf(f, F) + d
    BY <2>3, <2>4, ColumnGrows
  <2> QED
    BY <2>5 DEF f, g, d, value
<1>4. /\ SumOf(CashEarned, F) \in Int
      /\ SumOf(CashEarned', G) = SumOf(CashEarned, F) + (p.proceeds - p.fee)
  <2> DEFINE f == CashEarned  g == CashEarned'  value(q) == q.proceeds - q.fee  d == value(p)
  <2>1. (\A i \in F : f[i] = value(rangePnl[i]) /\ g[i] = value(rangePnl[i])) /\ g[m + 1] = d
    BY <1>2 DEF CashEarned
  <2>2. \A q \in PnlRows : value(q) \in Int
    <3>1. \A q \in PnlRows : q.realized \in Int /\ q.proceeds \in Nat /\ q.fee \in Nat
      BY DEF PnlRows
    <3> QED
      BY <3>1
  <2> HIDE DEF value, D, E, F, G, n, m
  <2>3. (\A i \in F : f[i] \in Int /\ g[i] = f[i]) /\ d \in Int
    BY <1>2, <2>1, <2>2
  <2> HIDE DEF f, g, d
  <2>4. m \in Nat /\ F = 1..m /\ G = F \cup {m + 1} /\ g[m + 1] = d
    BY <1>2, <2>1
  <2>5. SumOf(f, F) \in Int /\ SumOf(g, G) = SumOf(f, F) + d
    BY <2>3, <2>4, ColumnGrows
  <2> QED
    BY <2>5 DEF f, g, d, value
<1>5. /\ SumOf(CapitalPaid, D) \in Int
      /\ SumOf(CapitalPaid', E) = SumOf(CapitalPaid, D) + (IF e.capital > 0 THEN e.capital ELSE 0)
  <2> DEFINE f == CapitalPaid  g == CapitalPaid'  value(q) == IF q.capital > 0 THEN q.capital ELSE 0  d == value(e)
  <2>1. (\A i \in D : f[i] = value(rangeEvents[i]) /\ g[i] = value(rangeEvents[i])) /\ g[n + 1] = d
    BY <1>1 DEF CapitalPaid
  <2>2. \A q \in EventRows : value(q) \in Int
    <3>1. \A q \in EventRows : q.capital \in Int
      BY DEF EventRows
    <3> QED
      BY <3>1
  <2> HIDE DEF value, D, E, F, G, n, m
  <2>3. (\A i \in D : f[i] \in Int /\ g[i] = f[i]) /\ d \in Int
    BY <1>1, <2>1, <2>2
  <2> HIDE DEF f, g, d
  <2>4. n \in Nat /\ D = 1..n /\ E = D \cup {n + 1} /\ g[n + 1] = d
    BY <1>1, <2>1
  <2>5. SumOf(f, D) \in Int /\ SumOf(g, E) = SumOf(f, D) + d
    BY <2>3, <2>4, ColumnGrows
  <2> QED
    BY <2>5 DEF f, g, d, value
<1> QED
  BY <1>3, <1>4, <1>5

LEMMA AtRiskMoves ==
    ASSUME RangeTypes, NEW id \in TokenIds, NEW row, NEW e, NEW p, Changes(id, row, e, p)
    PROVE  /\ SumOf(AtRisk, TokenIds) \in Int
           /\ SumOf(AtRisk', TokenIds) = SumOf(AtRisk, TokenIds) + e.capital
<1> DEFINE f == AtRisk  g == AtRisk'
<1>1. \A x \in TokenIds : rangeRow'[x] = IF x = id THEN row ELSE rangeRow[x]
  BY DEF Changes, RangeTypes
<1>2. row \in RangeRows /\ e \in EventRows /\ row.capital = Was(id).capital + e.capital
      /\ row # NoRow
  BY RangeBooksConstants DEF Changes
<1>3. \A x \in TokenIds : f[x] \in Int /\ (x # id => g[x] = f[x])
  BY <1>1 DEF AtRisk, Booked, RangeTypes, RangeRows
<1>4. g[id] = row.capital /\ f[id] = Was(id).capital /\ row.capital \in Int /\ e.capital \in Int
  BY <1>1, <1>2 DEF AtRisk, Booked, Was, RangeRows, EventRows
<1> HIDE DEF f, g
<1>5. \A x \in TokenIds : g[x] \in Int
  BY <1>3, <1>4
<1>6. IsFiniteSet(TokenIds) /\ IsFiniteSet(TokenIds \ {id})
  BY RangeBooksConstants, FS_RemoveElement
<1>7. Total(f, TokenIds) = f[id] + Total(f, TokenIds \ {id})
      /\ Total(g, TokenIds) = g[id] + Total(g, TokenIds \ {id})
  BY <1>3, <1>5, <1>6, TotalSplits
<1>8. Total(g, TokenIds \ {id}) = Total(f, TokenIds \ {id})
  BY <1>3, <1>6, TotalOfSame
<1>9. Total(f, TokenIds \ {id}) \in Int
  BY <1>3, <1>6, TotalIsInt
<1>10. f[id] \in Int /\ g[id] = f[id] + e.capital /\ e.capital \in Int
  BY <1>2, <1>3, <1>4
<1>11. Total(f, TokenIds) \in Int /\ Total(g, TokenIds) = Total(f, TokenIds) + e.capital
  <2> DEFINE rest == Total(f, TokenIds \ {id})
  <2>1. rest \in Int /\ Total(f, TokenIds) = f[id] + rest /\ Total(g, TokenIds) = g[id] + rest
    BY <1>7, <1>8, <1>9
  <2> HIDE DEF rest
  <2> QED
    BY <2>1, <1>10
<1>12. SumOf(f, TokenIds) \in Int /\ SumOf(g, TokenIds) = SumOf(f, TokenIds) + e.capital
  BY <1>11, SumIsTotal
<1> QED
  BY <1>12 DEF f, g

LEMMA ChangeKeepsReleases ==
    ASSUME RangeTypes, ReleasesReachThePnl, NEW id \in TokenIds, NEW row, NEW e, NEW p,
           Changes(id, row, e, p)
    PROVE  ReleasesReachThePnl'
<1> DEFINE r == SumOf(Realized, DOMAIN rangePnl)
           c == SumOf(CashEarned, DOMAIN rangePnl)
           k == SumOf(CapitalPaid, DOMAIN rangeEvents)
           a == SumOf(AtRisk, TokenIds)
           paid == IF e.capital > 0 THEN e.capital ELSE 0
<1>1. r \in Int /\ c \in Int /\ k \in Int /\ a \in Int /\ r = c - (k - a)
  BY ColumnsGrow, AtRiskMoves DEF ReleasesReachThePnl
<1>2. /\ SumOf(Realized', DOMAIN rangePnl') = r + p.realized
      /\ SumOf(CashEarned', DOMAIN rangePnl') = c + (p.proceeds - p.fee)
      /\ SumOf(CapitalPaid', DOMAIN rangeEvents') = k + paid
      /\ SumOf(AtRisk', TokenIds) = a + e.capital
  BY ColumnsGrow, AtRiskMoves
<1>3. /\ e.capital \in Int /\ p.proceeds \in Int /\ p.fee \in Int
      /\ p.released = (IF e.capital > 0 THEN 0 ELSE -e.capital)
      /\ p.realized = p.proceeds - p.released - p.fee
  BY DEF Changes, EventRows, PnlRows
<1> HIDE DEF r, c, k, a
<1>4. r + p.realized = (c + (p.proceeds - p.fee)) - ((k + paid) - (a + e.capital))
  BY <1>1, <1>3
<1> HIDE DEF paid
<1>5. SumOf(Realized', DOMAIN rangePnl') =
         SumOf(CashEarned', DOMAIN rangePnl')
            - (SumOf(CapitalPaid', DOMAIN rangeEvents') - SumOf(AtRisk', TokenIds))
  BY <1>2, <1>4
<1> QED
  BY <1>5 DEF ReleasesReachThePnl

\* The third part of the books: the two ways the rebalances of the day are counted.
OfToday(thePool) == {r \in rangeRebalances : r.pool = thePool /\ r.day = rangeDay}
PaidToday(thePool) ==
    {i \in DOMAIN rangePnl :
        /\ rangePnl[i].action = "REBALANCE" /\ rangePnl[i].day = rangeDay
        /\ rangeRow[rangePnl[i].id].pool = thePool}

RebalancesAreCounted ==
    \A thePool \in RangePools : Cardinality(OfToday(thePool)) = Cardinality(PaidToday(thePool))

LEMMA ChangeKeepsRebalances ==
    ASSUME RangeTypes, RangeLinks, RebalancesAreCounted, NEW id \in TokenIds,
           NEW row, NEW e, NEW p, Changes(id, row, e, p), CountsOnce(id, row, p)
    PROVE  RebalancesAreCounted'
<1> DEFINE n == Len(rangePnl)
<1>1. SUFFICES ASSUME NEW thePool \in RangePools
               PROVE  Cardinality(OfToday(thePool)') = Cardinality(PaidToday(thePool)')
  BY DEF RebalancesAreCounted
<1> DEFINE A == OfToday(thePool)  B == PaidToday(thePool)
<1>2. /\ n \in Nat /\ DOMAIN rangePnl = 1..n /\ DOMAIN rangePnl' = DOMAIN rangePnl \cup {n + 1}
      /\ n + 1 \notin DOMAIN rangePnl
      /\ \A i \in DOMAIN rangePnl : rangePnl'[i] = rangePnl[i] /\ rangePnl[i].id \in TokenIds
      /\ rangePnl'[n + 1] = p
  <2>1. rangePnl \in Seq(PnlRows) /\ p \in PnlRows /\ rangePnl' = Append(rangePnl, p)
    BY DEF RangeTypes, Changes
  <2>2. /\ n \in Nat /\ DOMAIN rangePnl = 1..n
        /\ DOMAIN rangePnl' = DOMAIN rangePnl \cup {n + 1} /\ n + 1 \notin DOMAIN rangePnl
        /\ \A i \in DOMAIN rangePnl : rangePnl'[i] = rangePnl[i] /\ rangePnl[i] \in PnlRows
        /\ rangePnl'[n + 1] = p
    BY <2>1, AfterOneMore
  <2> HIDE DEF n
  <2> QED
    BY <2>2 DEF PnlRows
<1> HIDE DEF n
<1>3. /\ p.id = id /\ p.day = rangeDay /\ rangeDay' = rangeDay /\ row \in RangeRows
      /\ \A x \in TokenIds : rangeRow'[x] = IF x = id THEN row ELSE rangeRow[x]
  BY DEF Changes, RangeTypes
<1>4. \A i \in DOMAIN rangePnl : Booked(rangePnl[i].id)
  BY DEF RangeLinks
<1>5. IsFiniteSet(A) /\ IsFiniteSet(B) /\ B \subseteq DOMAIN rangePnl /\ A \subseteq rangeRebalances
  <2>1. A \subseteq rangeRebalances /\ B \subseteq DOMAIN rangePnl
    BY DEF OfToday, PaidToday
  <2>2. IsFiniteSet(DOMAIN rangePnl)
    <3>1. n \in Int /\ 1 \in Int
      BY <1>2
    <3> QED
      BY <1>2, <3>1, FS_Interval
  <2> QED
    BY <2>1, <2>2, FS_Subset DEF RangeTypes
<1>6. Cardinality(A) = Cardinality(B)
  BY DEF RebalancesAreCounted
<1>7. \A i \in DOMAIN rangePnl :
         rangeRow'[rangePnl[i].id].pool = rangeRow[rangePnl[i].id].pool
  BY <1>2, <1>3, <1>4 DEF CountsOnce
<1>8. PaidToday(thePool)' = B \cup (IF p.action = "REBALANCE" /\ row.pool = thePool THEN {n + 1} ELSE {})
  <2>1. rangeRow'[p.id] = row
    BY <1>3
  <2>2. \A i \in DOMAIN rangePnl : i \in PaidToday(thePool)' <=> i \in B
    BY <1>2, <1>3, <1>7 DEF PaidToday
  <2>3. n + 1 \in PaidToday(thePool)' <=> (p.action = "REBALANCE" /\ row.pool = thePool)
    BY <1>2, <1>3, <2>1 DEF PaidToday
  <2>4. PaidToday(thePool)' \subseteq DOMAIN rangePnl \cup {n + 1}
    BY <1>2 DEF PaidToday
  <2> HIDE DEF B
  <2> QED
    BY <1>5, <2>2, <2>3, <2>4
<1>9. CASE p.action # "REBALANCE"
  <2>1. OfToday(thePool)' = A
    BY <1>3, <1>9 DEF CountsOnce, OfToday
  <2>2. PaidToday(thePool)' = B
    BY <1>8, <1>9
  <2> QED
    BY <2>1, <2>2, <1>6
<1>10. ASSUME p.action = "REBALANCE", NEW from \in TokenIds,
              rangeRebalances' = rangeRebalances \cup
                {[pool |-> row.pool, closed |-> from, opened |-> id, day |-> rangeDay]}
       PROVE  Cardinality(OfToday(thePool)') = Cardinality(PaidToday(thePool)')
  <2> DEFINE new == [pool |-> row.pool, closed |-> from, opened |-> id, day |-> rangeDay]
  <2>1. new.pool = row.pool /\ new.day = rangeDay /\ new.opened = id
    OBVIOUS
  <2>2. ~Booked(id)
    BY <1>10 DEF CountsOnce
  <2>3. new \notin rangeRebalances
    BY <2>1, <2>2 DEF RangeLinks
  <2> HIDE DEF new
  <2>4. rangeRebalances' = rangeRebalances \cup {new}
    BY <1>10 DEF new
  <2>5. OfToday(thePool)' = IF row.pool = thePool THEN A \cup {new} ELSE A
    BY <1>3, <2>1, <2>4 DEF OfToday
  <2>6. PaidToday(thePool)' = IF row.pool = thePool THEN B \cup {n + 1} ELSE B
    BY <1>8, <1>10
  <2>7. new \notin A /\ n + 1 \notin B
    BY <1>2, <1>5, <2>3
  <2> HIDE DEF A, B
  <2>8. CASE row.pool = thePool
    <3>1. Cardinality(A \cup {new}) = Cardinality(A) + 1
      BY <1>5, <2>7, FS_AddElement
    <3>2. Cardinality(B \cup {n + 1}) = Cardinality(B) + 1
      BY <1>5, <2>7, FS_AddElement
    <3> QED
      BY <1>6, <2>5, <2>6, <2>8, <3>1, <3>2
  <2>9. CASE row.pool # thePool
    BY <1>6, <2>5, <2>6, <2>9
  <2> QED
    BY <2>8, <2>9
<1> QED
  BY <1>9, <1>10 DEF CountsOnce

-----------------------------------------------------------------------------
RangeIInv ==
    /\ RangeTypes /\ RangeLinks
    /\ \A x \in TokenIds : Booked(x) => TrailAddsUp(x)
    /\ ReleasesReachThePnl /\ RebalancesAreCounted

\* The parts are what the books are made of.
LEMMA PartsOfTheBooks ==
    ASSUME RangeTypes
    PROVE  RangeBooksBalance <=>
              /\ \A x \in TokenIds : Booked(x) => TrailAddsUp(x)
              /\ ReleasesReachThePnl /\ RebalancesAreCounted
<1>1. RebalancesAreCounted <=>
        \A thePool \in RangePools :
          RangeRebalancesToday(thePool) =
              Cardinality({i \in DOMAIN rangePnl :
                  /\ rangePnl[i].action = "REBALANCE" /\ rangePnl[i].day = rangeDay
                  /\ rangeRow[rangePnl[i].id].pool = thePool})
  BY DEF RebalancesAreCounted, RangeRebalancesToday, OfToday, PaidToday
<1>2. (\A x \in TokenIds : Booked(x) => TrailAddsUp(x)) <=>
        \A id \in TokenIds : Booked(id) =>
          /\ SumOf(LiquidityMoved, Trail(id)) = rangeRow[id].liquidity
          /\ SumOf(CapitalMoved, Trail(id)) = rangeRow[id].capital
          /\ rangeRow[id].closed <=> rangeRow[id].liquidity = 0
          /\ rangeRow[id].closed => rangeRow[id].capital = 0
  BY DEF TrailAddsUp
<1>3. (\A x \in TokenIds : Booked(x) => TrailAddsUp(x))
        => RangeDeployed = SumOf(AtRisk, TokenIds)
  BY AtRiskIsDeployed
<1> QED
  BY <1>1, <1>2, <1>3 DEF RangeBooksBalance, ReleasesReachThePnl

LEMMA ChangeKeepsBooks ==
    ASSUME RangeIInv, NEW id \in TokenIds, NEW fee \in GasCosts, RangeChange(id, fee)
    PROVE  RangeIInv'
<1>1. PICK row, e, p : Changes(id, row, e, p) /\ CountsOnce(id, row, p)
  BY OneChange DEF RangeIInv
<1>2. RangeTypes' /\ RangeLinks'
  BY <1>1, ChangeKeepsTypes, ChangeKeepsLinks DEF RangeIInv
<1>3. (\A x \in TokenIds : Booked(x) => TrailAddsUp(x))'
  BY <1>1, ChangeKeepsTrails DEF RangeIInv
<1>4. ReleasesReachThePnl'
  BY <1>1, ChangeKeepsReleases DEF RangeIInv
<1>5. RebalancesAreCounted'
  BY <1>1, ChangeKeepsRebalances DEF RangeIInv
<1> QED
  BY <1>2, <1>3, <1>4, <1>5 DEF RangeIInv

\* On a new day nothing is of the day yet, and the rest of the books is the same.
LEMMA DayKeepsBooks ==
    ASSUME RangeIInv, NextRangeDay
    PROVE  RangeIInv'
<1>1. /\ rangeDay \in Nat /\ rangeDay' = rangeDay + 1
      /\ UNCHANGED <<rangeRow, rangeEvents, rangePnl, rangeRebalances>>
  BY DEF NextRangeDay, RangeIInv, RangeTypes
<1>2. RangeTypes'
  BY <1>1 DEF RangeIInv, RangeTypes
<1>3. RangeLinks'
  <2>1. \A i \in DOMAIN rangePnl : rangePnl[i].day \in Nat
    <3>1. rangePnl \in Seq(PnlRows) /\ \A q \in PnlRows : q.day \in Nat
      BY DEF RangeIInv, RangeTypes, PnlRows
    <3>2. \A i \in DOMAIN rangePnl : rangePnl[i] \in PnlRows
      BY <3>1, LenProperties, ElementOfSeq
    <3> QED
      BY <3>1, <3>2
  <2>2. \A r \in rangeRebalances : r.day \in Nat
    BY DEF RangeIInv, RangeTypes, RebalanceRows
  <2> QED
    BY <1>1, <2>1, <2>2 DEF RangeIInv, RangeLinks, Booked
<1>4. (\A x \in TokenIds : Booked(x) => TrailAddsUp(x))'
  BY <1>1 DEF RangeIInv, TrailAddsUp, Booked, Trail, LiquidityMoved, CapitalMoved
<1>5. ReleasesReachThePnl'
  BY <1>1 DEF RangeIInv, ReleasesReachThePnl, Realized, CashEarned, CapitalPaid, AtRisk, Booked
<1>6. RebalancesAreCounted'
  <2>1. SUFFICES ASSUME NEW thePool \in RangePools
                 PROVE  Cardinality(OfToday(thePool)') = Cardinality(PaidToday(thePool)')
    BY DEF RebalancesAreCounted
  <2>2. OfToday(thePool)' = {}
    <3>1. \A r \in rangeRebalances : r.day # rangeDay + 1
      BY <1>1 DEF RangeIInv, RangeLinks
    <3> QED
      BY <1>1, <3>1 DEF OfToday
  <2>3. PaidToday(thePool)' = {}
    <3>1. \A i \in DOMAIN rangePnl : rangePnl[i].day # rangeDay + 1
      BY <1>1 DEF RangeIInv, RangeLinks
    <3> QED
      BY <1>1, <3>1 DEF PaidToday
  <2> QED
    BY <2>2, <2>3
<1> QED
  BY <1>2, <1>3, <1>4, <1>5, <1>6 DEF RangeIInv

LEMMA BooksStart == RangesInit => RangeIInv
<1> SUFFICES ASSUME RangesInit PROVE RangeIInv
  OBVIOUS
<1>1. /\ rangeDay = 0 /\ rangeRow = [id \in TokenIds |-> NoRow]
      /\ rangeEvents = <<>> /\ rangePnl = <<>> /\ rangeRebalances = {}
  BY DEF RangesInit
<1>2. RangeTypes
  BY <1>1, FS_EmptySet, EmptySeq DEF RangeTypes
<1>3. RangeLinks
  BY <1>1 DEF RangeLinks
<1>4. \A x \in TokenIds : Booked(x) => TrailAddsUp(x)
  BY <1>1 DEF Booked
<1>5. ReleasesReachThePnl
  <2>1. DOMAIN rangeEvents = {} /\ DOMAIN rangePnl = {}
    BY <1>1
  <2>2. \A f : SumOf(f, {}) = 0
    BY SumIsTotal, TotalOfNothing
  <2>3. SumOf(AtRisk, TokenIds) = 0
    <3>1. \A x \in TokenIds : AtRisk[x] = 0
      BY <1>1 DEF AtRisk, Booked
    <3>2. Total(AtRisk, TokenIds) = Total(AtRisk, {})
      BY <3>1, RangeBooksConstants, TotalSkipsZeros
    <3> QED
      BY <3>2, SumIsTotal, TotalOfNothing
  <2> QED
    BY <2>1, <2>2, <2>3 DEF ReleasesReachThePnl
<1>6. RebalancesAreCounted
  BY <1>1 DEF RebalancesAreCounted, OfToday, PaidToday
<1> QED
  BY <1>2, <1>3, <1>4, <1>5, <1>6 DEF RangeIInv

\* Range books that add up (store.ts openRangePosition, adjustRangePosition, recordPnl,
\* toRiskSnapshot): whatever was opened, increased, decreased and closed, in any amounts and on
\* any day, the trail of a position adds up to its row, the capital at risk is what was paid in
\* and not yet released, and all that was released reached the daily loss with its gas.
THEOREM RangeBooksBalanced == RangesSpec => []RangeBooksBalance
<1>1. RangesInit => RangeIInv
  BY BooksStart
<1>2. RangeIInv /\ [BooksNext \/ PlansNext]_rangeVars => RangeIInv'
  <2> SUFFICES ASSUME RangeIInv, [BooksNext \/ PlansNext]_rangeVars PROVE RangeIInv'
    OBVIOUS
  <2>1. CASE BooksNext
    BY <2>1, ChangeKeepsBooks, DayKeepsBooks DEF BooksNext
  <2>2. CASE UNCHANGED <<rangeDay, rangeRow, rangeEvents, rangePnl, rangeRebalances>>
    BY <2>2 DEF RangeIInv, RangeTypes, RangeLinks, TrailAddsUp, ReleasesReachThePnl,
         RebalancesAreCounted, OfToday, PaidToday, Booked, Trail, LiquidityMoved, CapitalMoved,
         Realized, CashEarned, CapitalPaid, AtRisk
  <2>3. CASE PlansNext
    BY <2>2, <2>3 DEF PlansNext, MakePlan
  <2>4. CASE UNCHANGED rangeVars
    BY <2>2, <2>4 DEF rangeVars
  <2> QED
    BY <2>1, <2>3, <2>4
<1>3. RangeIInv => RangeBooksBalance
  BY PartsOfTheBooks DEF RangeIInv
<1> QED
  BY <1>1, <1>2, <1>3, PTL DEF RangesSpec
-----------------------------------------------------------------------------
(***************************************************************************)
(* A range before it is minted.                                            *)
(***************************************************************************)

LEMMA TickBounds == MinTick \in Int /\ MaxTick \in Int /\ MinTick < 0 /\ 0 < MaxTick
  BY RangeConstants

LEMMA IntDivision ==
    ASSUME NEW v \in Int, NEW s \in Nat \ {0}
    PROVE  v \div s \in Int /\ s * (v \div s) <= v /\ v < s * (v \div s) + s
  OBVIOUS

LEMMA MultiplesOf ==
    ASSUME NEW v \in Int, NEW s \in Nat \ {0}
    PROVE  v % s = 0 <=> \E k \in Int : v = s * k
<1>1. ASSUME v % s = 0 PROVE \E k \in Int : v = s * k
  <2>1. v = s * (v \div s)
    BY <1>1
  <2> QED
    BY <2>1, IntDivision
<1>2. ASSUME NEW k \in Int, v = s * k PROVE v % s = 0
  BY <1>2
<1> QED
  BY <1>1, <1>2

\* Multiples lie a whole spacing apart.
LEMMA MultiplesLieApart ==
    ASSUME NEW j \in Int, NEW k \in Int, NEW s \in Nat \ {0}, s * j < s * k
    PROVE  s * j + s <= s * k
<1>1. SUFFICES ASSUME k <= j PROVE FALSE
  <2>1. CASE j + 1 <= k
    <3>1. s * (j + 1) <= s * k /\ s * (j + 1) = s * j + s
      BY <2>1
    <3> QED
      BY <3>1
  <2> QED
    BY <2>1
<1>2. s * k <= s * j
  BY <1>1
<1> QED
  BY <1>2

\* The two alignments are the multiples next to a value.
LEMMA AlignedDown ==
    ASSUME NEW v \in Int, NEW s \in Nat \ {0}
    PROVE  \E k \in Int : AlignDown(v, s) = s * k /\ s * k <= v /\ v < s * k + s
<1>1. CASE v >= 0
  <2>1. AlignDown(v, s) = (v \div s) * s
    BY <1>1 DEF AlignDown, Truncated
  <2>2. v \div s \in Int /\ s * (v \div s) <= v /\ v < s * (v \div s) + s
    BY IntDivision
  <2> QED
    BY <2>1, <2>2
<1>2. CASE v < 0
  <2> DEFINE w == -v  q == w \div s
  <2>1. q \in Int /\ s * q <= w /\ w < s * q + s /\ (w = s * q \/ s * q < w) /\ v = -w /\ w \in Int
    BY IntDivision
  <2>2. Truncated(v, s) = -q
    BY <1>2 DEF Truncated
  <2> HIDE DEF q, w
  <2>3. CASE w = s * q
    <3>1. v = s * (-q) /\ -q \in Int /\ (-q) * s = s * (-q)
      BY <2>1, <2>3
    <3>2. v % s = 0
      BY <3>1, MultiplesOf
    <3>3. AlignDown(v, s) = s * (-q)
      BY <2>2, <3>1, <3>2 DEF AlignDown
    <3> QED
      BY <3>1, <3>3
  <2>4. CASE s * q < w
    <3>1. v % s # 0
      <4>1. SUFFICES ASSUME NEW k \in Int, v = s * k PROVE FALSE
        BY MultiplesOf
      <4>2. -k \in Int /\ w = s * (-k)
        BY <2>1, <4>1
      <4>3. s * q + s <= s * (-k)
        BY <2>1, <2>4, <4>2, MultiplesLieApart
      <4> QED
        BY <2>1, <4>2, <4>3
    <3>2. AlignDown(v, s) = (-q - 1) * s
      BY <1>2, <2>2, <3>1 DEF AlignDown
    <3>3. (-q - 1) * s = s * (-q - 1) /\ s * (-q - 1) = -(s * q) - s /\ -q - 1 \in Int
      BY <2>1
    <3>4. -(s * q) - s <= v /\ v < -(s * q)
      BY <2>1, <2>4
    <3>5. v < -(s * q) - s + s
      BY <2>1, <3>4
    <3> QED
      BY <3>2, <3>3, <3>4, <3>5
  <2> QED
    BY <2>1, <2>3, <2>4
<1> QED
  BY <1>1, <1>2

LEMMA AlignedUp ==
    ASSUME NEW v \in Int, NEW s \in Nat \ {0}
    PROVE  \E k \in Int : AlignUp(v, s) = s * k /\ v <= s * k /\ s * k < v + s
<1>1. CASE v > 0
  <2> DEFINE q == v \div s
  <2>1. q \in Int /\ s * q <= v /\ v < s * q + s
    BY IntDivision
  <2>2. Truncated(v, s) = q
    BY <1>1 DEF Truncated
  <2> HIDE DEF q
  <2>3. CASE v = s * q
    <3>1. v % s = 0
      BY <2>1, <2>3, MultiplesOf
    <3>2. AlignUp(v, s) = q * s /\ q * s = s * q
      BY <2>1, <2>2, <3>1 DEF AlignUp
    <3> QED
      BY <2>1, <2>3, <3>2
  <2>4. CASE s * q < v
    <3>1. v % s # 0
      <4>1. SUFFICES ASSUME NEW k \in Int, v = s * k PROVE FALSE
        BY MultiplesOf
      <4>2. s * q + s <= s * k
        BY <2>1, <2>4, <4>1, MultiplesLieApart
      <4> QED
        BY <2>1, <4>1, <4>2
    <3>2. AlignUp(v, s) = (q + 1) * s
      BY <1>1, <2>2, <3>1 DEF AlignUp
    <3>3. (q + 1) * s = s * (q + 1) /\ s * (q + 1) = s * q + s /\ q + 1 \in Int
      BY <2>1
    <3>4. v <= s * q + s /\ s * q + s < v + s
      BY <2>1, <2>4
    <3> QED
      BY <3>2, <3>3, <3>4
  <2> QED
    BY <2>1, <2>3, <2>4
<1>2. CASE v <= 0
  <2> DEFINE w == -v  q == w \div s
  <2>1. q \in Int /\ s * q <= w /\ w < s * q + s /\ v = -w /\ w \in Int
    BY IntDivision
  <2> HIDE DEF q, w
  <2>2. Truncated(v, s) = -q
    <3>1. CASE v = 0
      <4>1. w = 0 /\ v = w
        BY <2>1, <3>1
      <4>2. q = 0
        <5>1. s * q <= 0 /\ 0 < s * q + s
          BY <2>1, <4>1
        <5>2. q >= 1 => s * q >= s
          BY <2>1
        <5>3. q <= -1 => s * q <= -s
          BY <2>1
        <5> QED
          BY <2>1, <5>1, <5>2, <5>3
      <4> QED
        BY <3>1, <4>1, <4>2 DEF Truncated, q
    <3>2. CASE v < 0
      BY <3>2 DEF Truncated, q, w
    <3> QED
      BY <1>2, <3>1, <3>2
  <2>3. AlignUp(v, s) = (-q) * s
    BY <1>2, <2>2 DEF AlignUp
  <2>4. (-q) * s = s * (-q) /\ s * (-q) = -(s * q) /\ -q \in Int
    BY <2>1
  <2>5. v <= -(s * q) /\ -(s * q) < v + s
    BY <2>1
  <2> QED
    BY <2>3, <2>4, <2>5
<1> QED
  BY <1>1, <1>2

UsableTicks(s) == {t \in MinTick..MaxTick : t % s = 0}

LEMMA UsableTicksAre ==
    ASSUME NEW s \in Nat \ {0}, NEW t
    PROVE  t \in UsableTicks(s) <=> t \in MinTick..MaxTick /\ \E k \in Int : t = s * k
<1>1. ASSUME t \in MinTick..MaxTick PROVE t \in Int
  BY <1>1, TickBounds
<1> QED
  BY <1>1, MultiplesOf DEF UsableTicks

\* A multiple next below a tick is brought into the range at its lower end, and there
\* it is the first usable tick.
LEMMA FlooredTick ==
    ASSUME NEW v \in MinTick..MaxTick, NEW s \in Nat \ {0}, NEW k \in Int,
           s * k <= v, v < s * k + s
    PROVE  /\ IntoRange(s * k, s) \in UsableTicks(s)
           /\ s * k >= MinTick => IntoRange(s * k, s) = s * k
           /\ s * k < MinTick => /\ IntoRange(s * k, s) = s * k + s
                               /\ \A u \in UsableTicks(s) : s * k + s <= u
<1> DEFINE m == s * k
<1>1. m \in Int /\ v \in Int /\ MinTick <= v /\ v <= MaxTick
  BY TickBounds
<1>2. CASE m >= MinTick
  <2>1. IntoRange(m, s) = m
    BY <1>1, <1>2, TickBounds DEF IntoRange
  <2>2. m \in UsableTicks(s)
    <3>1. m \in MinTick..MaxTick /\ m = s * k
      BY <1>1, <1>2, TickBounds
    <3> HIDE DEF m
    <3> QED
      BY <3>1, UsableTicksAre
  <2> QED
    BY <1>1, <1>2, <2>1, <2>2, TickBounds
<1>3. CASE m < MinTick
  <2>1. IntoRange(m, s) = m + s
    BY <1>3 DEF IntoRange
  <2>2. m + s = s * (k + 1) /\ k + 1 \in Int /\ m + s \in Int
    BY <1>1
  <2>3. m + s <= 0
    <3>1. s * 0 = 0 /\ 0 \in Int
      OBVIOUS
    <3>2. s * k < s * 0
      BY <1>1, <1>3, <3>1, TickBounds
    <3> QED
      BY <3>1, <3>2, MultiplesLieApart
  <2>4. m + s \in UsableTicks(s)
    <3> DEFINE t == m + s  j == k + 1
    <3>1. t \in MinTick..MaxTick /\ j \in Int /\ t = s * j
      BY <1>1, <1>3, <2>2, <2>3, TickBounds
    <3> HIDE DEF t, j
    <3>2. t \in UsableTicks(s)
      BY <3>1, UsableTicksAre
    <3> QED
      BY <3>2 DEF t
  <2>5. ASSUME NEW u \in UsableTicks(s) PROVE m + s <= u
    <3>1. PICK j \in Int : u = s * j /\ u \in MinTick..MaxTick
      BY UsableTicksAre
    <3>2. s * k < s * j
      BY <1>1, <1>3, <3>1, TickBounds
    <3> QED
      BY <3>1, <3>2, MultiplesLieApart
  <2> QED
    BY <1>1, <1>3, <2>1, <2>4, <2>5, TickBounds
<1> QED
  BY <1>1, <1>2, <1>3, TickBounds

LEMMA CeiledTick ==
    ASSUME NEW v \in MinTick..MaxTick, NEW s \in Nat \ {0}, NEW k \in Int,
           v <= s * k, s * k < v + s
    PROVE  /\ IntoRange(s * k, s) \in UsableTicks(s)
           /\ s * k <= MaxTick => IntoRange(s * k, s) = s * k
           /\ s * k > MaxTick => /\ IntoRange(s * k, s) = s * k - s
                               /\ \A u \in UsableTicks(s) : u <= s * k - s
<1> DEFINE m == s * k
<1>1. m \in Int /\ v \in Int /\ MinTick <= v /\ v <= MaxTick
  BY TickBounds
<1>2. CASE m <= MaxTick
  <2>1. IntoRange(m, s) = m
    BY <1>1, <1>2, TickBounds DEF IntoRange
  <2>2. m \in UsableTicks(s)
    <3>1. m \in MinTick..MaxTick /\ m = s * k
      BY <1>1, <1>2, TickBounds
    <3> HIDE DEF m
    <3> QED
      BY <3>1, UsableTicksAre
  <2> QED
    BY <1>1, <1>2, <2>1, <2>2, TickBounds
<1>3. CASE m > MaxTick
  <2>1. IntoRange(m, s) = m - s
    BY <1>1, <1>3, TickBounds DEF IntoRange
  <2>2. m - s = s * (k - 1) /\ k - 1 \in Int /\ m - s \in Int
    BY <1>1
  <2>3. m - s >= 0
    <3>1. s * 0 = 0 /\ 0 \in Int
      OBVIOUS
    <3>2. s * 0 < s * k
      BY <1>1, <1>3, <3>1, TickBounds
    <3>3. s * 0 + s <= s * k
      BY <3>1, <3>2, MultiplesLieApart
    <3> QED
      BY <1>1, <3>1, <3>3
  <2>4. m - s \in UsableTicks(s)
    <3> DEFINE t == m - s  j == k - 1
    <3>1. t \in MinTick..MaxTick /\ j \in Int /\ t = s * j
      BY <1>1, <1>3, <2>2, <2>3, TickBounds
    <3> HIDE DEF t, j
    <3>2. t \in UsableTicks(s)
      BY <3>1, UsableTicksAre
    <3> QED
      BY <3>2 DEF t
  <2>5. ASSUME NEW u \in UsableTicks(s) PROVE u <= m - s
    <3>1. PICK j \in Int : u = s * j /\ u \in MinTick..MaxTick
      BY UsableTicksAre
    <3>2. s * j < s * k
      BY <1>1, <1>3, <3>1, TickBounds
    <3>3. s * j + s <= s * k
      BY <3>1, <3>2, MultiplesLieApart
    <3> QED
      BY <1>1, <3>1, <3>3
  <2> QED
    BY <1>1, <1>3, <2>1, <2>4, <2>5, TickBounds
<1> QED
  BY <1>1, <1>2, <1>3, TickBounds

\* The greatest and the least of a set of ticks.
LEMMA GreatestOf ==
    ASSUME NEW a \in Int, NEW b \in Int, NEW S, S \subseteq a..b, S # {}
    PROVE  Max(S) \in S /\ \A x \in S : x <= Max(S)
<1> DEFINE D == {b - x : x \in S}
<1>1. D \subseteq Nat /\ D # {}
  <2>1. \A x \in S : x \in Int /\ b - x \in Nat
    OBVIOUS
  <2> QED
    BY <2>1
<1>2. PICK d \in D : \A m \in D : d <= m
  BY <1>1, LeastOf
<1>3. PICK y \in S : d = b - y
  BY <1>2
<1>4. \A x \in S : x <= y
  BY <1>2, <1>3
<1>5. \E y_1 \in S : \A x \in S : y_1 >= x
  BY <1>3, <1>4
<1>6. Max(S) \in S /\ \A x \in S : Max(S) >= x
  BY <1>5 DEF Max
<1> QED
  BY <1>6

LEMMA LeastOfTicks ==
    ASSUME NEW a \in Int, NEW b \in Int, NEW S, S \subseteq a..b, S # {}
    PROVE  Min(S) \in S /\ \A x \in S : Min(S) <= x
<1> DEFINE D == {x - a : x \in S}
<1>1. D \subseteq Nat /\ D # {}
  <2>1. \A x \in S : x \in Int /\ x - a \in Nat
    OBVIOUS
  <2> QED
    BY <2>1
<1>2. PICK d \in D : \A m \in D : d <= m
  BY <1>1, LeastOf
<1>3. PICK y \in S : d = y - a
  BY <1>2
<1>4. \A x \in S : y <= x
  <2>1. TAKE x \in S
  <2>2. x - a \in D
    OBVIOUS
  <2> HIDE DEF D
  <2>3. d <= x - a
    BY <1>2, <2>2
  <2>4. x \in Int /\ y \in Int
    OBVIOUS
  <2> QED
    BY <1>3, <2>3, <2>4
<1>5. Min(S) \in S /\ \A x \in S : Min(S) <= x
  BY <1>3, <1>4 DEF Min
<1> QED
  BY <1>5

LEMMA OfTwo ==
    ASSUME NEW a \in Int, NEW b \in Int
    PROVE  /\ Max({a, b}) \in {a, b} /\ a <= Max({a, b}) /\ b <= Max({a, b})
           /\ Min({a, b}) \in {a, b} /\ Min({a, b}) <= a /\ Min({a, b}) <= b
<1>1. \E x \in {a, b} : \A y \in {a, b} : x >= y
  BY a >= b \/ b >= a
<1>2. \E x \in {a, b} : \A y \in {a, b} : x <= y
  BY a <= b \/ b <= a
<1>3. Max({a, b}) \in {a, b} /\ \A y \in {a, b} : Max({a, b}) >= y
  BY <1>1 DEF Max
<1>4. Min({a, b}) \in {a, b} /\ \A y \in {a, b} : Min({a, b}) <= y
  BY <1>2 DEF Min
<1> QED
  BY <1>3, <1>4

\* A value held to the ticks a pool has.
LEMMA ClampedTick ==
    ASSUME NEW t \in Int
    PROVE  /\ Clamp(t) \in MinTick..MaxTick
           /\ t < MinTick => Clamp(t) = MinTick
           /\ t > MaxTick => Clamp(t) = MaxTick
           /\ t \in MinTick..MaxTick => Clamp(t) = t
  BY TickBounds DEF Clamp

LEMMA LowerBoundOutward ==
    ASSUME NEW t \in Int, t <= MaxTick, NEW s \in Nat \ {0}
    PROVE  LET bound == AlignTickDown(Clamp(t), s)
           IN  bound \in UsableTicks(s) /\ bound <= Max({t, Min(UsableTicks(s))})
<1> DEFINE v == Clamp(t)  U == UsableTicks(s)  least == Min(U)  far == Max({t, least})
<1>1. v \in MinTick..MaxTick /\ v \in Int
  BY ClampedTick, TickBounds
<1>2. PICK k \in Int : AlignDown(v, s) = s * k /\ s * k <= v /\ v < s * k + s
  BY <1>1, AlignedDown
<1> DEFINE m == s * k  bound == IntoRange(m, s)
<1>3. AlignTickDown(v, s) = bound
  BY <1>2 DEF AlignTickDown
<1>4. /\ bound \in U /\ m \in Int
      /\ m >= MinTick => bound = m
      /\ m < MinTick => \A u \in U : bound <= u
  BY <1>1, <1>2, FlooredTick
<1>5. U \subseteq MinTick..MaxTick /\ U # {}
  BY <1>4 DEF UsableTicks
<1>6. least \in U /\ least \in Int /\ MinTick <= least /\ bound \in Int
  BY <1>4, <1>5, TickBounds, LeastOfTicks
<1>7. t <= far /\ least <= far /\ far \in Int
  BY <1>6, OfTwo
<1>8. m <= v
  BY <1>2
<1> HIDE DEF v, U, least, far, bound, m
<1>9. bound <= far
  <2>1. CASE m < MinTick
    BY <1>4, <1>6, <1>7, <2>1, TickBounds
  <2>2. CASE m >= MinTick /\ t >= MinTick
    <3>1. v = t
      BY <2>2, ClampedTick, TickBounds DEF v
    <3> QED
      BY <1>4, <1>6, <1>7, <1>8, <2>2, <3>1, TickBounds
  <2>3. CASE m >= MinTick /\ t < MinTick
    <3>1. v = MinTick
      BY <2>3, ClampedTick DEF v
    <3> QED
      BY <1>4, <1>5, <1>6, <1>7, <1>8, <2>3, <3>1, TickBounds
  <2> QED
    BY <1>4, <2>1, <2>2, <2>3, TickBounds
<1> QED
  BY <1>3, <1>4, <1>9 DEF v, U, far, least

LEMMA UpperBoundOutward ==
    ASSUME NEW t \in Int, t >= MinTick, NEW s \in Nat \ {0}
    PROVE  LET bound == AlignTickUp(Clamp(t), s)
           IN  bound \in UsableTicks(s) /\ bound >= Min({t, Max(UsableTicks(s))})
<1> DEFINE v == Clamp(t)  U == UsableTicks(s)  most == Max(U)  far == Min({t, most})
<1>1. v \in MinTick..MaxTick /\ v \in Int
  BY ClampedTick, TickBounds
<1>2. PICK k \in Int : AlignUp(v, s) = s * k /\ v <= s * k /\ s * k < v + s
  BY <1>1, AlignedUp
<1> DEFINE m == s * k  bound == IntoRange(m, s)
<1>3. AlignTickUp(v, s) = bound
  BY <1>2 DEF AlignTickUp
<1>4. /\ bound \in U /\ m \in Int
      /\ m <= MaxTick => bound = m
      /\ m > MaxTick => \A u \in U : u <= bound
  BY <1>1, <1>2, CeiledTick
<1>5. U \subseteq MinTick..MaxTick /\ U # {}
  BY <1>4 DEF UsableTicks
<1>6. most \in U /\ most \in Int /\ most <= MaxTick /\ bound \in Int
  BY <1>4, <1>5, TickBounds, GreatestOf
<1>7. far <= t /\ far <= most /\ far \in Int
  BY <1>6, OfTwo
<1>8. v <= m
  BY <1>2
<1> HIDE DEF v, U, most, far, bound, m
<1>9. bound >= far
  <2>1. CASE m > MaxTick
    BY <1>4, <1>6, <1>7, <2>1, TickBounds
  <2>2. CASE m <= MaxTick /\ t <= MaxTick
    <3>1. v = t
      BY <2>2, ClampedTick, TickBounds DEF v
    <3> QED
      BY <1>4, <1>6, <1>7, <1>8, <2>2, <3>1, TickBounds
  <2>3. CASE m <= MaxTick /\ t > MaxTick
    <3>1. v = MaxTick
      BY <2>3, ClampedTick DEF v
    <3> QED
      BY <1>4, <1>5, <1>6, <1>7, <1>8, <2>3, <3>1, TickBounds
  <2> QED
    BY <1>4, <2>1, <2>2, <2>3, TickBounds
<1> QED
  BY <1>3, <1>4, <1>9 DEF v, U, far, most

\* An inward bound can only have been brought back past what was asked when no usable
\* tick is left beyond it, and then the two bounds meet.
LEMMA BoundsInward ==
    ASSUME NEW t \in Int, NEW h \in Int, t <= MaxTick, h >= MinTick, NEW s \in Nat \ {0}
    PROVE  LET lower == AlignTickUp(Clamp(t), s)
               upper == AlignTickDown(Clamp(h), s)
           IN  /\ lower \in UsableTicks(s) /\ upper \in UsableTicks(s)
               /\ lower < upper => t <= lower /\ upper <= h
<1> DEFINE low == Clamp(t)  high == Clamp(h)
<1>1. /\ low \in MinTick..MaxTick /\ low \in Int /\ t <= low
      /\ high \in MinTick..MaxTick /\ high \in Int /\ high <= h
  BY ClampedTick, TickBounds
<1>2. PICK j \in Int : AlignUp(low, s) = s * j /\ low <= s * j /\ s * j < low + s
  BY <1>1, AlignedUp
<1>3. PICK k \in Int : AlignDown(high, s) = s * k /\ s * k <= high /\ high < s * k + s
  BY <1>1, AlignedDown
<1> DEFINE m == s * j  lower == IntoRange(m, s)  n == s * k  upper == IntoRange(n, s)
<1>4. AlignTickUp(low, s) = lower /\ AlignTickDown(high, s) = upper
  BY <1>2, <1>3 DEF AlignTickUp, AlignTickDown
<1>5. /\ lower \in UsableTicks(s) /\ m \in Int
      /\ m <= MaxTick => lower = m
      /\ m > MaxTick => \A u \in UsableTicks(s) : u <= lower
  BY <1>1, <1>2, CeiledTick
<1>6. /\ upper \in UsableTicks(s) /\ n \in Int
      /\ n >= MinTick => upper = n
      /\ n < MinTick => \A u \in UsableTicks(s) : upper <= u
  BY <1>1, <1>3, FlooredTick
<1>7. low <= m /\ n <= high
  BY <1>2, <1>3
<1>8. lower \in Int /\ upper \in Int
  BY <1>5, <1>6, TickBounds DEF UsableTicks
<1> HIDE DEF low, high, lower, upper, m, n
<1>9. ASSUME lower < upper PROVE t <= lower /\ upper <= h
  <2>1. m <= MaxTick /\ n >= MinTick
    BY <1>5, <1>6, <1>8, <1>9, TickBounds
  <2> QED
    BY <1>1, <1>5, <1>6, <1>7, <2>1
<1> QED
  BY <1>4, <1>5, <1>6, <1>9 DEF low, high

LEMMA RangesAreUsable ==
    ASSUME NEW tick \in MinTick..MaxTick, NEW half \in Nat, NEW s \in Nat \ {0},
           NEW outward \in BOOLEAN, NEW range,
           range = RangeFromHalfWidth(tick, half, s, outward), range # NoRow
    PROVE  /\ range = [lower |-> range.lower, upper |-> range.upper]
           /\ range.lower \in UsableTicks(s) /\ range.upper \in UsableTicks(s)
           /\ range.lower < range.upper
           /\ outward => /\ range.lower <= Max({tick - half, Min(UsableTicks(s))})
                         /\ range.upper >= Min({tick + half, Max(UsableTicks(s))})
           /\ ~outward => range.lower >= tick - half /\ range.upper <= tick + half
<1> DEFINE t == tick - half  h == tick + half
           lower == IF outward THEN AlignTickDown(Clamp(t), s) ELSE AlignTickUp(Clamp(t), s)
           upper == IF outward THEN AlignTickUp(Clamp(h), s) ELSE AlignTickDown(Clamp(h), s)
<1>1. t \in Int /\ h \in Int /\ t <= MaxTick /\ h >= MinTick
  BY TickBounds
<1>2. RangeFromHalfWidth(tick, half, s, outward)
        = IF lower >= upper THEN NoRow ELSE [lower |-> lower, upper |-> upper]
  BY DEF RangeFromHalfWidth
<1> DEFINE down == AlignTickDown(Clamp(t), s)  up == AlignTickUp(Clamp(h), s)
           ceiled == AlignTickUp(Clamp(t), s)  floored == AlignTickDown(Clamp(h), s)
           least == Max({t, Min(UsableTicks(s))})  most == Min({h, Max(UsableTicks(s))})
<1>3. /\ down \in UsableTicks(s) /\ down <= least
      /\ up \in UsableTicks(s) /\ up >= most
  <2> HIDE DEF t, h
  <2> QED
    BY <1>1, LowerBoundOutward, UpperBoundOutward
<1>4. /\ ceiled \in UsableTicks(s) /\ floored \in UsableTicks(s)
      /\ ceiled < floored => t <= ceiled /\ floored <= h
  <2> HIDE DEF t, h
  <2> QED
    BY <1>1, BoundsInward
<1>5. lower = (IF outward THEN down ELSE ceiled) /\ upper = IF outward THEN up ELSE floored
  OBVIOUS
<1> HIDE DEF lower, upper, down, up, ceiled, floored, least, most, t, h
<1>6. lower \in UsableTicks(s) /\ upper \in UsableTicks(s) /\ lower \in Int /\ upper \in Int
  BY <1>3, <1>4, <1>5, TickBounds DEF UsableTicks
<1>7. range = [lower |-> lower, upper |-> upper] /\ lower < upper
  BY <1>2, <1>6
<1>8. range.lower = lower /\ range.upper = upper
  BY <1>7
<1>9. outward => lower <= least /\ upper >= most
  BY <1>3, <1>5
<1>10. ~outward => lower >= t /\ upper <= h
  BY <1>1, <1>4, <1>5, <1>6, <1>7
<1> QED
  BY <1>6, <1>7, <1>8, <1>9, <1>10 DEF least, most, t, h

\* Of two usable ticks on one side of a tick the nearer is nearer.
LEMMA NearestIsNearest ==
    ASSUME NEW tick \in MinTick..MaxTick, NEW s \in Nat \ {0}
    PROVE  LET apart(t) == IF t > tick THEN t - tick ELSE tick - t
               nearest == NearestUsableTick(tick, s)
           IN  /\ nearest \in UsableTicks(s)
               /\ \A t \in UsableTicks(s) : apart(nearest) <= apart(t)
<1> DEFINE apart(t) == IF t > tick THEN t - tick ELSE tick - t
<1>1. tick \in Int /\ 2 * tick + s \in Int /\ 2 * s \in Nat \ {0} /\ MinTick <= tick /\ tick <= MaxTick
  BY TickBounds
<1>2. PICK k \in Int : /\ AlignDown(2 * tick + s, 2 * s) = (2 * s) * k
                      /\ (2 * s) * k <= 2 * tick + s /\ 2 * tick + s < (2 * s) * k + 2 * s
  BY <1>1, AlignedDown
<1> DEFINE m == s * k  nearest == IntoRange(m, s)
<1>3. m \in Int /\ (2 * s) * k = 2 * m
  OBVIOUS
<1>4. ((2 * s) * k) \div 2 = m
  <2> HIDE DEF m
  <2>1. (2 * m) \div 2 = m
    BY <1>3
  <2> QED
    BY <1>3, <2>1
<1>5. NearestUsableTick(tick, s) = nearest
  BY <1>2, <1>4 DEF NearestUsableTick
<1>6. 2 * m <= 2 * tick + s /\ 2 * tick < 2 * m + s
  BY <1>2, <1>3
<1>7. \A t \in UsableTicks(s) : t \in Int /\ MinTick <= t /\ t <= MaxTick
                               /\ (t < m => t + s <= m) /\ (m < t => m + s <= t)
  <2>1. TAKE t \in UsableTicks(s)
  <2>2. PICK j \in Int : t = s * j /\ t \in MinTick..MaxTick
    BY UsableTicksAre
  <2>3. (s * j < s * k => s * j + s <= s * k) /\ (s * k < s * j => s * k + s <= s * j)
    BY MultiplesLieApart
  <2> QED
    BY <2>2, <2>3, TickBounds
<1>8. /\ m < MinTick => nearest = m + s
      /\ m > MaxTick => nearest = m - s
      /\ m \in MinTick..MaxTick => nearest = m
  BY <1>3, TickBounds DEF IntoRange
<1>9. nearest \in UsableTicks(s)
  <2>1. CASE s * k <= tick
    <3>1. tick < s * k + s
      BY <1>1, <1>3, <1>6
    <3> QED
      BY <2>1, <3>1, FlooredTick
  <2>2. CASE tick <= s * k
    <3>1. s * k < tick + s
      BY <1>1, <1>3, <1>6
    <3> QED
      BY <2>2, <3>1, CeiledTick
  <2> QED
    BY <1>1, <1>3, <2>1, <2>2
<1>10. \A t \in UsableTicks(s) : apart(nearest) <= apart(t)
  <2>1. TAKE t \in UsableTicks(s)
  <2> HIDE DEF m, nearest
  <2>2. t \in Int /\ MinTick <= t /\ t <= MaxTick /\ (t < m => t + s <= m) /\ (m < t => m + s <= t)
    BY <1>7
  <2>3. CASE m < MinTick
    BY <1>1, <1>3, <1>6, <1>8, <2>2, <2>3, TickBounds
  <2>4. CASE m > MaxTick
    BY <1>1, <1>3, <1>6, <1>8, <2>2, <2>4, TickBounds
  <2>5. CASE m \in MinTick..MaxTick
    BY <1>1, <1>3, <1>6, <1>8, <2>2, <2>5, TickBounds
  <2> QED
    BY <1>3, <2>3, <2>4, <2>5, TickBounds
<1> QED
  BY <1>5, <1>9, <1>10

-----------------------------------------------------------------------------
\* The ladder climbs: it does at every rung, so no pair of ticks is the first that does not.
LEMMA LadderClimbs ==
    ASSUME NEW a \in MinTick..MaxTick, NEW b \in MinTick..MaxTick, a < b
    PROVE  Ratio[a] < Ratio[b]
<1> DEFINE Bad == {n \in Nat : a + 1 + n <= MaxTick /\ ~(Ratio[a] < Ratio[a + 1 + n])}
<1>1. SUFFICES Bad = {}
  <2>1. b - a - 1 \in Nat /\ a + 1 + (b - a - 1) = b /\ b <= MaxTick
    BY TickBounds
  <2>2. ASSUME Bad = {} PROVE \A n \in Nat : a + 1 + n <= MaxTick => Ratio[a] < Ratio[a + 1 + n]
    BY <2>2
  <2> QED
    BY <2>1, <2>2
<1>2. SUFFICES ASSUME Bad # {} PROVE FALSE
  OBVIOUS
<1>3. PICK n \in Bad : \A k \in Bad : n <= k
  <2>1. Bad \subseteq Nat
    OBVIOUS
  <2> QED
    BY <1>2, <2>1, LeastOf
<1>4. n \in Nat /\ a + 1 + n <= MaxTick /\ ~(Ratio[a] < Ratio[a + 1 + n])
  OBVIOUS
<1>5. a \in Int /\ MinTick <= a
  BY TickBounds
<1>6. Ratio[a] < Ratio[a + 1]
  BY <1>4, <1>5, RangeConstants, TickBounds
<1>7. n >= 1
  BY <1>4, <1>5, <1>6
<1>8. n - 1 \in Nat /\ n - 1 \notin Bad
  BY <1>3, <1>4, <1>7
<1>9. Ratio[a] < Ratio[a + 1 + (n - 1)]
  BY <1>4, <1>5, <1>8, TickBounds
<1>10. Ratio[a + 1 + (n - 1)] < Ratio[a + 1 + n]
  <2> DEFINE t == a + n
  <2>1. t \in MinTick..(MaxTick - 1) /\ a + 1 + (n - 1) = t /\ a + 1 + n = t + 1
    BY <1>4, <1>5, <1>7, TickBounds
  <2> HIDE DEF t
  <2>2. Ratio[t] < Ratio[t + 1]
    BY <2>1, RangeConstants
  <2> QED
    BY <2>1, <2>2
<1>11. Ratio[a] \in Nat /\ Ratio[a + 1 + (n - 1)] \in Nat /\ Ratio[a + 1 + n] \in Nat
  <2>1. a + 1 + (n - 1) \in MinTick..MaxTick /\ a + 1 + n \in MinTick..MaxTick
    BY <1>4, <1>5, <1>7, TickBounds
  <2> QED
    BY <2>1, RangeConstants
<1> QED
  BY <1>4, <1>9, <1>10, <1>11

\* The tick of a price is the rung at or next below it.
LEMMA TickOfAPrice ==
    ASSUME NEW price \in Nat, price >= Ratio[MinTick]
    PROVE  /\ TickAt(price) \in MinTick..MaxTick
           /\ Ratio[TickAt(price)] <= price
           /\ TickAt(price) = MaxTick \/ price < Ratio[TickAt(price) + 1]
<1> DEFINE S == {t \in MinTick..MaxTick : Ratio[t] <= price}  top == Max(S)
<1>1. S \subseteq MinTick..MaxTick /\ MinTick \in S
  BY TickBounds
<1>2. top \in S /\ \A x \in S : x <= top
  BY <1>1, TickBounds, GreatestOf
<1>3. top = MaxTick \/ price < Ratio[top + 1]
  <2>1. SUFFICES ASSUME top # MaxTick PROVE price < Ratio[top + 1]
    OBVIOUS
  <2>2. top + 1 \in MinTick..MaxTick /\ top + 1 > top
    BY <1>2, <2>1, TickBounds
  <2>3. top + 1 \notin S
    BY <1>2, <2>2, TickBounds
  <2>4. Ratio[top + 1] \in Nat
    BY <2>2, RangeConstants
  <2> QED
    BY <2>2, <2>3, <2>4
<1>4. \E t \in MinTick..MaxTick : Ratio[t] <= price /\ (t = MaxTick \/ price < Ratio[t + 1])
  BY <1>2, <1>3
<1> QED
  BY <1>4 DEF TickAt

\* What a width in basis points reaches on the ladder.
Reached(bps) == {t \in 0..MaxTick : Ratio[t] * Ratio[t] * RangeBps <= (RangeBps + bps) * Q * Q}

LEMMA ReachedIsBelow ==
    ASSUME NEW bps \in Nat, NEW t \in Reached(bps), NEW u \in 0..t
    PROVE  u \in Reached(bps)
<1>1. t \in 0..MaxTick /\ u \in 0..MaxTick /\ t \in MinTick..MaxTick /\ u \in MinTick..MaxTick
  BY TickBounds DEF Reached
<1> DEFINE x == Ratio[u]  y == Ratio[t]  cap == (RangeBps + bps) * Q * Q
<1>2. x \in Nat /\ y \in Nat /\ RangeBps \in Nat
  BY <1>1, RangeConstants
<1>3. x <= y
  <2>1. u = t \/ u < t
    BY <1>1
  <2> QED
    BY <1>1, <1>2, <2>1, LadderClimbs
<1>4. cap \in Nat /\ y * y * RangeBps <= cap
  BY <1>2, RangeConstants DEF Reached
<1> HIDE DEF x, y, cap
<1>5. x * x <= y * y /\ x * x \in Nat /\ y * y \in Nat
  <2>1. x * x <= x * y /\ x * y <= y * y
    BY <1>2, <1>3
  <2> QED
    BY <1>2, <2>1
<1>6. x * x * RangeBps <= y * y * RangeBps /\ x * x * RangeBps \in Nat /\ y * y * RangeBps \in Nat
  BY <1>2, <1>5
<1>7. x * x * RangeBps <= cap
  BY <1>4, <1>6
<1> QED
  BY <1>1, <1>7 DEF Reached, x, cap

\* Any function that the search defines finds the greatest of them, held to the
\* interval: no interval is a shortest one on which it does not.
Halves(search, top) ==
    \A x, y \in 0..MaxTick :
       LET mid == (x + y + 1) \div 2
       IN  search[<<x, y>>] = IF x >= y THEN x
                              ELSE IF mid <= top THEN search[<<mid, y>>]
                              ELSE search[<<x, mid - 1>>]

LEMMA SearchFinds ==
    ASSUME NEW top \in 0..MaxTick, NEW search,
           Halves(search, top),
           NEW a \in 0..MaxTick, NEW b \in 0..MaxTick, a <= top, top <= b
    PROVE  search[<<a, b>>] = top
<1> DEFINE Bad == {n \in Nat : \E x, y \in 0..MaxTick :
                      x <= top /\ top <= y /\ y - x = n /\ search[<<x, y>>] # top}
<1>1. SUFFICES Bad = {}
  <2>1. b - a \in Nat
    OBVIOUS
  <2>2. search[<<a, b>>] # top => b - a \in Bad
    BY <2>1
  <2> QED
    BY <2>2
<1>2. SUFFICES ASSUME Bad # {} PROVE FALSE
  OBVIOUS
<1>3. PICK n \in Bad : \A k \in Bad : n <= k
  <2>1. Bad \subseteq Nat
    OBVIOUS
  <2> QED
    BY <1>2, <2>1, LeastOf
<1>4. PICK x \in 0..MaxTick, y \in 0..MaxTick :
         x <= top /\ top <= y /\ y - x = n /\ search[<<x, y>>] # top
  BY <1>3
<1> DEFINE mid == (x + y + 1) \div 2
<1>5. search[<<x, y>>] = IF x >= y THEN x
                         ELSE IF mid <= top THEN search[<<mid, y>>] ELSE search[<<x, mid - 1>>]
  BY DEF Halves
<1>6. x < y
  <2>1. x >= y => x = top
    BY <1>4
  <2> QED
    BY <1>4, <1>5, <2>1
<1>7. mid \in Int /\ x < mid /\ mid <= y
  BY <1>6, TickBounds
<1> HIDE DEF mid
<1>8. \A u, v \in 0..MaxTick : u <= top /\ top <= v /\ v - u < n => search[<<u, v>>] = top
  <2>1. SUFFICES ASSUME NEW u \in 0..MaxTick, NEW v \in 0..MaxTick, u <= top, top <= v, v - u < n,
                        search[<<u, v>>] # top
                 PROVE  FALSE
    OBVIOUS
  <2>2. v - u \in Nat
    BY <2>1, TickBounds
  <2>3. v - u \in Bad
    BY <2>1, <2>2
  <2> HIDE DEF Bad
  <2>4. n <= v - u
    BY <1>3, <2>3
  <2> QED
    BY <1>4, <2>1, <2>4, TickBounds
<1>9. CASE mid <= top
  <2>1. mid \in 0..MaxTick /\ y - mid < n
    BY <1>4, <1>7, <1>9, TickBounds
  <2>2. search[<<mid, y>>] = top
    BY <1>4, <1>8, <1>9, <2>1
  <2> QED
    BY <1>4, <1>5, <1>6, <1>9, <2>2, TickBounds
<1>10. CASE mid > top
  <2>1. mid - 1 \in 0..MaxTick /\ top <= mid - 1 /\ (mid - 1) - x < n
    BY <1>4, <1>7, <1>10, TickBounds
  <2>2. search[<<x, mid - 1>>] = top
    BY <1>4, <1>8, <2>1
  <2> QED
    BY <1>4, <1>5, <1>6, <1>7, <1>10, <2>2, TickBounds
<1> QED
  BY <1>7, <1>9, <1>10, TickBounds

\* The search is defined, and what it finds is the widest that was asked for.
LEMMA WidthIsReached ==
    ASSUME NEW bps \in Nat
    PROVE  LET half == Max(Reached(bps) \cup {0})
           IN  half \in 0..MaxTick /\ HalfWidthTicksForBps(bps) = half
<1> DEFINE top == Max(Reached(bps) \cup {0})
           Pairs == (0..MaxTick) \X (0..MaxTick)
           fits(t) == Ratio[t] * Ratio[t] * RangeBps <= (RangeBps + bps) * Q * Q
           Middle(w) == (w[1] + w[2] + 1) \div 2
           Step(f) == [w \in Pairs |->
                         IF w[1] >= w[2] THEN w[1]
                         ELSE IF fits(Middle(w)) THEN f[<<Middle(w), w[2]>>]
                              ELSE f[<<w[1], Middle(w) - 1>>]]
           Halving(f) == [w \in Pairs |->
                         IF w[1] >= w[2] THEN w[1]
                         ELSE IF Middle(w) <= top THEN f[<<Middle(w), w[2]>>]
                              ELSE f[<<w[1], Middle(w) - 1>>]]
<1>1. top \in Reached(bps) \cup {0} /\ \A x \in Reached(bps) \cup {0} : x <= top
  <2>1. Reached(bps) \cup {0} \subseteq 0..MaxTick
    BY TickBounds DEF Reached
  <2> QED
    BY <2>1, TickBounds, GreatestOf
<1>2. top \in 0..MaxTick
  BY <1>1, TickBounds DEF Reached
<1>3. HalfWidthTicksForBps(bps) = (CHOOSE f : f = Step(f))[<<0, MaxTick>>]
  BY DEF HalfWidthTicksForBps
<1>4. \A t \in 1..MaxTick : fits(t) <=> t <= top
  <2>1. TAKE t \in 1..MaxTick
  <2>2. t \in 0..MaxTick /\ t > 0 /\ t \in Int /\ (fits(t) <=> t \in Reached(bps))
    BY TickBounds DEF Reached
  <2>3. t \in Reached(bps) => t <= top
    BY <1>1
  <2>4. t <= top => t \in Reached(bps)
    <3>1. SUFFICES ASSUME t <= top PROVE t \in Reached(bps)
      OBVIOUS
    <3>2. top # 0 /\ t \in 0..top
      BY <1>2, <2>2, <3>1
    <3> HIDE DEF top
    <3> QED
      BY <1>1, <3>2, ReachedIsBelow
  <2> QED
    BY <2>2, <2>3, <2>4
<1> HIDE DEF top, fits
<1>5. \A w \in Pairs : /\ w[1] \in 0..MaxTick /\ w[2] \in 0..MaxTick
                       /\ w[1] < w[2] => /\ Middle(w) \in 1..MaxTick
                                         /\ w[1] < Middle(w) /\ Middle(w) <= w[2]
  BY TickBounds
<1>6. \A f : Step(f) = Halving(f)
  <2>1. TAKE f
  <2>2. ASSUME NEW w \in Pairs PROVE Step(f)[w] = Halving(f)[w]
    <3>1. CASE w[1] >= w[2]
      BY <3>1
    <3>2. CASE ~(w[1] >= w[2])
      <4>1. Middle(w) \in 1..MaxTick
        BY <1>5, <3>2, TickBounds
      <4> HIDE DEF Middle
      <4> QED
        BY <1>4, <3>2, <4>1
    <3> QED
      BY <3>1, <3>2
  <2> QED
    BY <2>2
<1> DEFINE Found == [w \in Pairs |-> IF w[1] >= w[2] \/ top <= w[1] THEN w[1]
                                     ELSE IF top >= w[2] THEN w[2] ELSE top]
<1>7. Found = Halving(Found)
  <2>1. ASSUME NEW w \in Pairs PROVE Found[w] = Halving(Found)[w]
    <3> DEFINE x == w[1]  y == w[2]  mid == Middle(w)
    <3>1. x \in 0..MaxTick /\ y \in 0..MaxTick
      BY <1>5
    <3>2. CASE x >= y
      BY <3>2
    <3>3. CASE x < y
      <4>1. mid \in 0..MaxTick /\ mid - 1 \in 0..MaxTick /\ x < mid /\ mid <= y /\ mid \in Int
        BY <1>5, <3>3, TickBounds
      <4>2. <<mid, y>> \in Pairs /\ <<x, mid - 1>> \in Pairs
        BY <3>1, <4>1
      <4>3. Found[<<mid, y>>] = IF mid >= y \/ top <= mid THEN mid ELSE IF top >= y THEN y ELSE top
        BY <4>2
      <4>4. Found[<<x, mid - 1>>] = IF x >= mid - 1 \/ top <= x THEN x
                                    ELSE IF top >= mid - 1 THEN mid - 1 ELSE top
        BY <4>2
      <4>5. Found[w] = IF x >= y \/ top <= x THEN x ELSE IF top >= y THEN y ELSE top
        OBVIOUS
      <4>6. Halving(Found)[w] = IF x >= y THEN x
                                ELSE IF mid <= top THEN Found[<<mid, y>>]
                                ELSE Found[<<x, mid - 1>>]
        OBVIOUS
      <4> HIDE DEF x, y, mid, Found, Halving
      <4>7. CASE mid <= top
        BY <1>2, <3>1, <3>3, <4>1, <4>3, <4>5, <4>6, <4>7, TickBounds
      <4>8. CASE ~(mid <= top)
        BY <1>2, <3>1, <3>3, <4>1, <4>4, <4>5, <4>6, <4>8, TickBounds
      <4> QED
        BY <4>7, <4>8
    <3> QED
      BY <3>1, <3>2, <3>3, TickBounds
  <2> QED
    BY <2>1
<1> DEFINE search == CHOOSE f : f = Step(f)
<1>8. search = Halving(search)
  <2> HIDE DEF Step, Halving
  <2>1. \E f : f = Step(f)
    BY <1>6, <1>7
  <2>2. search = Step(search)
    BY <2>1
  <2> QED
    BY <1>6, <2>2
<1> HIDE DEF search
<1>9. search[<<0, MaxTick>>] = top
  <2>1. Halves(search, top)
    <3> SUFFICES ASSUME NEW x \in 0..MaxTick, NEW y \in 0..MaxTick
                 PROVE  LET mid == (x + y + 1) \div 2
                        IN  search[<<x, y>>] = IF x >= y THEN x
                                               ELSE IF mid <= top THEN search[<<mid, y>>]
                                               ELSE search[<<x, mid - 1>>]
      BY DEF Halves
    <3>1. <<x, y>> \in Pairs /\ <<x, y>>[1] = x /\ <<x, y>>[2] = y
      OBVIOUS
    <3>2. search[<<x, y>>] = Halving(search)[<<x, y>>]
      BY <1>8
    <3> QED
      BY <3>1, <3>2
  <2>2. 0 \in 0..MaxTick /\ MaxTick \in 0..MaxTick /\ 0 <= top /\ top <= MaxTick
    BY <1>2, TickBounds
  <2> QED
    BY <1>2, <2>1, <2>2, SearchFinds
<1> QED
  BY <1>2, <1>3, <1>9 DEF search, top

-----------------------------------------------------------------------------
\* A quotient rounded up is the least that covers.
LEMMA RoundedUp ==
    ASSUME NEW a \in Nat, NEW b \in Nat \ {0}
    PROVE  /\ (a + b - 1) \div b \in Nat
           /\ \A c \in Nat : a <= b * c => (a + b - 1) \div b <= c
           /\ a \div b <= (a + b - 1) \div b
<1> DEFINE q == (a + b - 1) \div b  f == a \div b
<1>1. a + b - 1 \in Nat
  OBVIOUS
<1>2. q \in Nat /\ b * q <= a + b - 1 /\ a + b - 1 < b * q + b
  BY <1>1, Division
<1>3. f \in Nat /\ b * f <= a
  BY Division
<1> HIDE DEF q, f
<1>4. ASSUME NEW c \in Nat, a <= b * c PROVE q <= c
  <2>1. SUFFICES ASSUME c + 1 <= q PROVE FALSE
    BY <1>2
  <2>2. b * (c + 1) <= b * q /\ b * (c + 1) = b * c + b
    BY <1>2, <2>1
  <2>3. b * c \in Nat /\ b * q \in Nat
    BY <1>2
  <2> QED
    BY <1>2, <1>4, <2>2, <2>3
<1>5. f <= q
  <2>1. SUFFICES ASSUME q + 1 <= f PROVE FALSE
    BY <1>2, <1>3
  <2>2. b * (q + 1) <= b * f /\ b * (q + 1) = b * q + b
    BY <1>2, <1>3, <2>1
  <2>3. b * q \in Nat /\ b * f \in Nat
    BY <1>2, <1>3
  <2> QED
    BY <1>2, <1>3, <2>2, <2>3
<1> QED
  BY <1>2, <1>4, <1>5 DEF q, f

LEMMA QuotientsGrow ==
    ASSUME NEW a \in Nat, NEW c \in Nat, a <= c, NEW b \in Nat \ {0}
    PROVE  a \div b <= c \div b
<1> DEFINE f == a \div b  g == c \div b
<1>1. f \in Nat /\ b * f <= a /\ g \in Nat /\ c < b * g + b
  BY Division
<1> HIDE DEF f, g
<1>2. f <= g
  <2>1. SUFFICES ASSUME g + 1 <= f PROVE FALSE
    BY <1>1
  <2>2. b * (g + 1) <= b * f /\ b * (g + 1) = b * g + b
    BY <1>1, <2>1
  <2>3. b * g \in Nat /\ b * f \in Nat
    BY <1>1
  <2> QED
    BY <1>1, <2>2, <2>3
<1> QED
  BY <1>2 DEF f, g

\* What the pool charges for a liquidity that the capital was found to allow is no more
\* than the capital, though it rounds up where the plan rounded down.
LEMMA Charged0 ==
    ASSUME NEW lo \in Nat \ {0}, NEW hi \in Nat \ {0}, lo < hi, NEW a \in Nat, NEW l \in Nat,
           l <= LiquidityForAmount0(lo, hi, a)
    PROVE  /\ Charge0(lo, hi, l) \in Nat /\ Charge0(lo, hi, l) <= a
           /\ Amount0ForLiquidity(lo, hi, l) \in Nat
           /\ Amount0ForLiquidity(lo, hi, l) <= Charge0(lo, hi, l)
<1> DEFINE d == hi - lo  p == lo * hi  k == p \div Q  most == (a * k) \div d  x == l * Q * d
<1>1. Q \in Nat \ {0} /\ d \in Nat \ {0} /\ p \in Nat
  BY RangeConstants
<1>2. k \in Nat /\ Q * k <= p
  BY <1>1, Division
<1>3. a * k \in Nat
  BY <1>2
<1>4. most \in Nat /\ d * most <= a * k
  BY <1>1, <1>3, Division
<1>5. l <= most
  BY DEF LiquidityForAmount0
<1>6. p = hi * lo
  OBVIOUS
<1> HIDE DEF p, k, most, d
<1>7. l * d <= a * k
  <2>1. d * l <= d * most /\ d * l = l * d
    BY <1>1, <1>4, <1>5
  <2> QED
    BY <1>1, <1>3, <1>4, <2>1
<1>8. x \in Nat /\ x <= hi * (a * lo) /\ a * lo \in Nat
  <2>1. x = Q * (l * d) /\ l * d \in Nat
    BY <1>1
  <2>2. Q * (l * d) <= Q * (a * k)
    BY <1>1, <1>3, <1>7, <2>1
  <2>3. Q * (a * k) = a * (Q * k) /\ Q * k \in Nat
    BY <1>1, <1>2
  <2>4. a * (Q * k) <= a * p
    BY <1>1, <1>2, <2>3
  <2>5. a * p = hi * (a * lo) /\ a * p \in Nat /\ a * lo \in Nat
    BY <1>1, <1>6
  <2>6. x \in Nat /\ Q * (a * k) \in Nat
    BY <1>1, <1>3, <2>1
  <2> QED
    BY <2>1, <2>2, <2>3, <2>4, <2>5, <2>6
<1> DEFINE c == (x + hi - 1) \div hi  f == x \div hi  e == (c + lo - 1) \div lo  g == f \div lo
<1>9. Charge0(lo, hi, l) = e /\ Amount0ForLiquidity(lo, hi, l) = g
  BY DEF Charge0, Amount0ForLiquidity, d
<1> HIDE DEF x
<1>10. c \in Nat /\ c <= a * lo /\ f <= c /\ f \in Nat
  BY <1>8, RoundedUp, Division
<1> HIDE DEF c, f
<1>11. e \in Nat /\ e <= a /\ c \div lo <= e
  <2>1. a * lo = lo * a
    OBVIOUS
  <2> QED
    BY <1>10, <2>1, RoundedUp
<1>12. g \in Nat /\ g <= c \div lo /\ c \div lo \in Nat
  BY <1>10, QuotientsGrow, Division
<1> HIDE DEF e, g
<1>13. g <= e
  BY <1>11, <1>12
<1> QED
  BY <1>9, <1>11, <1>12, <1>13

LEMMA Charged1 ==
    ASSUME NEW lo \in Nat \ {0}, NEW hi \in Nat \ {0}, lo < hi, NEW a \in Nat, NEW l \in Nat,
           l <= LiquidityForAmount1(lo, hi, a)
    PROVE  /\ Charge1(lo, hi, l) \in Nat /\ Charge1(lo, hi, l) <= a
           /\ Amount1ForLiquidity(lo, hi, l) \in Nat
           /\ Amount1ForLiquidity(lo, hi, l) <= Charge1(lo, hi, l)
<1> DEFINE d == hi - lo  most == (a * Q) \div d  x == l * d
<1>1. Q \in Nat \ {0} /\ d \in Nat \ {0} /\ a * Q \in Nat
  BY RangeConstants
<1>2. most \in Nat /\ d * most <= a * Q
  BY <1>1, Division
<1>3. l <= most
  BY DEF LiquidityForAmount1
<1>4. Charge1(lo, hi, l) = (x + Q - 1) \div Q /\ Amount1ForLiquidity(lo, hi, l) = x \div Q
  BY DEF Charge1, Amount1ForLiquidity
<1> HIDE DEF d, most
<1>5. x \in Nat /\ x <= Q * a
  <2>1. d * l <= d * most /\ d * l = l * d /\ a * Q = Q * a
    BY <1>1, <1>2, <1>3
  <2> QED
    BY <1>1, <1>2, <2>1
<1> HIDE DEF x
<1>6. x \div Q \in Nat
  BY <1>1, <1>5, Division
<1> QED
  BY <1>1, <1>4, <1>5, <1>6, RoundedUp

LEMMA MinimumsAreLess ==
    ASSUME NEW amount \in Nat, NEW slippage \in 0..RangeBps
    PROVE  MinimumAmount(amount, slippage) <= amount /\ MinimumAmount(amount, slippage) \in Nat
<1> DEFINE x == amount * (RangeBps - slippage)
<1>1. RangeBps \in Nat \ {0} /\ RangeBps - slippage \in Nat /\ RangeBps - slippage <= RangeBps
  BY RangeConstants
<1>2. x \in Nat /\ x <= RangeBps * amount
  <2>1. amount * (RangeBps - slippage) <= amount * RangeBps /\ amount * RangeBps = RangeBps * amount
    BY <1>1
  <2> QED
    BY <1>1, <2>1
<1>3. MinimumAmount(amount, slippage) = (x + RangeBps - 1) \div RangeBps
  BY DEF MinimumAmount
<1> HIDE DEF x
<1> QED
  BY <1>1, <1>2, <1>3, RoundedUp

LEMMA ChargesFit ==
    ASSUME NEW p \in Nat, NEW range, range.lower \in MinTick..MaxTick,
           range.upper \in MinTick..MaxTick, range.lower < range.upper,
           NEW amount0 \in Nat, NEW amount1 \in Nat
    PROVE  LET l == MaxLiquidityForAmounts(p, range, amount0, amount1)
               amounts == AmountsForLiquidity(p, range, l)
               charge == AmountsWith(Charge0, Charge1, p, range, l)
           IN  /\ \A i \in 1..2 : amounts[i] \in Nat /\ charge[i] \in Nat /\ amounts[i] <= charge[i]
               /\ charge[1] <= amount0 /\ charge[2] <= amount1
               /\ p <= Ratio[range.lower] => charge[2] = 0
               /\ p >= Ratio[range.upper] => charge[1] = 0
<1> DEFINE lo == Ratio[range.lower]  hi == Ratio[range.upper]
           l == MaxLiquidityForAmounts(p, range, amount0, amount1)
           amounts == AmountsForLiquidity(p, range, l)
           charge == AmountsWith(Charge0, Charge1, p, range, l)
<1>1. lo \in Nat \ {0} /\ hi \in Nat \ {0} /\ lo < hi
  BY RangeConstants, LadderClimbs
<1>2. l = IF p <= lo THEN LiquidityForAmount0(lo, hi, amount0)
          ELSE IF p >= hi THEN LiquidityForAmount1(lo, hi, amount1)
          ELSE Min({LiquidityForAmount0(p, hi, amount0), LiquidityForAmount1(lo, p, amount1)})
  BY DEF MaxLiquidityForAmounts
<1>3. amounts = IF p <= lo THEN <<Amount0ForLiquidity(lo, hi, l), 0>>
                ELSE IF p >= hi THEN <<0, Amount1ForLiquidity(lo, hi, l)>>
                ELSE <<Amount0ForLiquidity(p, hi, l), Amount1ForLiquidity(lo, p, l)>>
  BY DEF AmountsForLiquidity, AmountsWith
<1>4. charge = IF p <= lo THEN <<Charge0(lo, hi, l), 0>>
               ELSE IF p >= hi THEN <<0, Charge1(lo, hi, l)>>
               ELSE <<Charge0(p, hi, l), Charge1(lo, p, l)>>
  BY DEF AmountsWith
<1>5. ASSUME NEW a \in Nat \ {0}, NEW b \in Nat \ {0}, a < b, NEW amount \in Nat
      PROVE  LiquidityForAmount0(a, b, amount) \in Nat /\ LiquidityForAmount1(a, b, amount) \in Nat
  <2>1. Q \in Nat \ {0} /\ a * b \in Nat /\ b - a \in Nat \ {0} /\ amount * Q \in Nat
    BY <1>5, RangeConstants
  <2>2. (a * b) \div Q \in Nat
    BY <2>1, Division
  <2>3. amount * ((a * b) \div Q) \in Nat
    BY <2>2
  <2> QED
    BY <2>1, <2>3, Division DEF LiquidityForAmount0, LiquidityForAmount1
<1> HIDE DEF lo, hi, l, amounts, charge
<1> DEFINE Goal ==
               /\ \A i \in 1..2 : amounts[i] \in Nat /\ charge[i] \in Nat /\ amounts[i] <= charge[i]
               /\ charge[1] <= amount0 /\ charge[2] <= amount1
               /\ p <= lo => charge[2] = 0
               /\ p >= hi => charge[1] = 0
<1>6. ASSUME NEW x0 \in Nat, NEW x1 \in Nat, NEW c0 \in Nat, NEW c1 \in Nat,
             amounts = <<x0, x1>>, charge = <<c0, c1>>,
             x0 <= c0, x1 <= c1, c0 <= amount0, c1 <= amount1,
             p <= lo => c1 = 0, p >= hi => c0 = 0
      PROVE  Goal
  BY <1>6
<1> SUFFICES Goal
  BY DEF lo, hi, l, amounts, charge
<1> HIDE DEF Goal
<1>7. CASE p <= lo
  <2>1. l = LiquidityForAmount0(lo, hi, amount0) /\ l \in Nat /\ l <= LiquidityForAmount0(lo, hi, amount0)
    BY <1>1, <1>2, <1>5, <1>7
  <2>2. /\ Charge0(lo, hi, l) \in Nat /\ Charge0(lo, hi, l) <= amount0
        /\ Amount0ForLiquidity(lo, hi, l) \in Nat /\ Amount0ForLiquidity(lo, hi, l) <= Charge0(lo, hi, l)
    BY <1>1, <2>1, Charged0
  <2>3. amounts = <<Amount0ForLiquidity(lo, hi, l), 0>> /\ charge = <<Charge0(lo, hi, l), 0>>
    BY <1>3, <1>4, <1>7
  <2>4. ~(p >= hi)
    BY <1>1, <1>7
  <2> QED
    BY <1>6, <2>2, <2>3, <2>4
<1>8. CASE p >= hi
  <2>1. ~(p <= lo)
    BY <1>1, <1>8
  <2>2. l = LiquidityForAmount1(lo, hi, amount1) /\ l \in Nat /\ l <= LiquidityForAmount1(lo, hi, amount1)
    BY <1>1, <1>2, <1>5, <1>8, <2>1
  <2>3. /\ Charge1(lo, hi, l) \in Nat /\ Charge1(lo, hi, l) <= amount1
        /\ Amount1ForLiquidity(lo, hi, l) \in Nat /\ Amount1ForLiquidity(lo, hi, l) <= Charge1(lo, hi, l)
    BY <1>1, <2>2, Charged1
  <2>4. amounts = <<0, Amount1ForLiquidity(lo, hi, l)>> /\ charge = <<0, Charge1(lo, hi, l)>>
    BY <1>3, <1>4, <1>8, <2>1
  <2> DEFINE c1 == Charge1(lo, hi, l)  x1 == Amount1ForLiquidity(lo, hi, l)
  <2>5. /\ x1 \in Nat /\ c1 \in Nat /\ x1 <= c1 /\ c1 <= amount1 /\ 0 <= amount0
        /\ amounts = <<0, x1>> /\ charge = <<0, c1>>
    BY <2>3, <2>4
  <2> HIDE DEF c1, x1
  <2> QED
    BY <1>6, <2>1, <2>5
<1>9. CASE ~(p <= lo) /\ ~(p >= hi)
  <2>1. p \in Nat \ {0} /\ lo < p /\ p < hi
    BY <1>1, <1>9
  <2> DEFINE l0 == LiquidityForAmount0(p, hi, amount0)  l1 == LiquidityForAmount1(lo, p, amount1)
  <2>2. l0 \in Nat /\ l1 \in Nat
    BY <1>1, <1>5, <2>1
  <2>3. l = Min({l0, l1})
    BY <1>2, <1>9
  <2>4. l \in Nat /\ l <= l0 /\ l <= l1
    <3> HIDE DEF l0, l1
    <3>1. Min({l0, l1}) \in {l0, l1} /\ Min({l0, l1}) <= l0 /\ Min({l0, l1}) <= l1
      <4>1. l0 \in Int /\ l1 \in Int
        BY <2>2
      <4> QED
        BY <4>1, OfTwo, Zenon
    <3> QED
      BY <2>2, <2>3, <3>1
  <2>5. /\ Charge0(p, hi, l) \in Nat /\ Charge0(p, hi, l) <= amount0
        /\ Amount0ForLiquidity(p, hi, l) \in Nat /\ Amount0ForLiquidity(p, hi, l) <= Charge0(p, hi, l)
    BY <1>1, <2>1, <2>4, Charged0
  <2>6. /\ Charge1(lo, p, l) \in Nat /\ Charge1(lo, p, l) <= amount1
        /\ Amount1ForLiquidity(lo, p, l) \in Nat /\ Amount1ForLiquidity(lo, p, l) <= Charge1(lo, p, l)
    BY <1>1, <2>1, <2>4, Charged1
  <2>7. /\ amounts = <<Amount0ForLiquidity(p, hi, l), Amount1ForLiquidity(lo, p, l)>>
        /\ charge = <<Charge0(p, hi, l), Charge1(lo, p, l)>>
    BY <1>3, <1>4, <1>9
  <2> QED
    BY <1>6, <1>9, <2>5, <2>6, <2>7
<1> QED
  BY <1>7, <1>8, <1>9

\* Below the lower bound by the tick is below it by the price, and so above.
LEMMA SidesAgree ==
    ASSUME NEW p \in Nat, p >= Ratio[MinTick], NEW lower \in MinTick..MaxTick,
           NEW upper \in MinTick..MaxTick
    PROVE  /\ TickAt(p) < lower => p <= Ratio[lower]
           /\ TickAt(p) >= upper => p >= Ratio[upper]
<1> DEFINE t == TickAt(p)
<1>1. t \in MinTick..MaxTick /\ Ratio[t] <= p /\ (t = MaxTick \/ p < Ratio[t + 1])
  BY TickOfAPrice
<1> HIDE DEF t
<1>2. ASSUME t < lower PROVE p <= Ratio[lower]
  <2>1. t # MaxTick /\ t + 1 \in MinTick..MaxTick /\ t + 1 <= lower
    BY <1>1, <1>2, TickBounds
  <2>2. p < Ratio[t + 1] /\ Ratio[t + 1] \in Nat /\ Ratio[lower] \in Nat
    BY <1>1, <2>1, RangeConstants
  <2>3. Ratio[t + 1] <= Ratio[lower]
    <3>1. CASE t + 1 = lower
      BY <2>2, <3>1
    <3>2. CASE t + 1 # lower
      <4>1. t + 1 < lower
        BY <2>1, <3>2, TickBounds
      <4> QED
        BY <2>1, <2>2, <4>1, LadderClimbs
    <3> QED
      BY <3>1, <3>2
  <2> QED
    BY <2>2, <2>3
<1>3. ASSUME t >= upper PROVE p >= Ratio[upper]
  <2>1. Ratio[upper] \in Nat /\ Ratio[t] \in Nat
    BY <1>1, RangeConstants
  <2>2. Ratio[upper] <= Ratio[t]
    <3>1. CASE upper = t
      BY <2>1, <3>1
    <3>2. CASE upper # t
      <4>1. upper < t
        BY <1>1, <1>3, <3>2, TickBounds
      <4> QED
        BY <1>1, <2>1, <4>1, LadderClimbs
    <3> QED
      BY <3>1, <3>2
  <2> QED
    BY <1>1, <2>1, <2>2
<1> QED
  BY <1>2, <1>3 DEF t

\* What PlansCanBeMinted says of a plan, of a request and what came out.
MintedWell(r, range, result) ==
    /\ result.status # "internal"
    /\ result.status = "planned" =>
          LET charge == AmountsWith(Charge0, Charge1, r.price, range, result.liquidity)
          IN  /\ charge[1] <= r.amount0 /\ charge[2] <= r.amount1
              /\ \A i \in 1..2 : result.minimums[i] <= charge[i]
              /\ result.at.side = "below" => charge[2] = 0
              /\ result.at.side = "above" => charge[1] = 0
              /\ result.at.outside > 0 => result.at.side # "in-range"

LEMMA PlannedIsMintedWell ==
    ASSUME NEW r \in PlanRequests, NEW range, range.lower \in MinTick..MaxTick,
           range.upper \in MinTick..MaxTick, range.lower < range.upper
    PROVE  MintedWell(r, range, PlanRange(r, range))
<1> DEFINE l == MaxLiquidityForAmounts(r.price, range, r.amount0, r.amount1)
           amounts == AmountsForLiquidity(r.price, range, l)
           charge == AmountsWith(Charge0, Charge1, r.price, range, l)
           tick == TickAt(r.price)
           at == RangeStatus(tick, range)
           minimums == [i \in 1..2 |-> MinimumAmount(amounts[i], r.slippage)]
           planned == [status |-> "planned", range |-> range, liquidity |-> l, amounts |-> amounts,
                       minimums |-> minimums, at |-> at]
           result == PlanRange(r, range)
<1>1. /\ r.price \in Nat /\ r.price >= Ratio[MinTick]
      /\ r.amount0 \in Nat /\ r.amount1 \in Nat /\ r.slippage \in 0..RangeBps
  BY PlanRequestsAreValid
<1>2. /\ \A i \in 1..2 : amounts[i] \in Nat /\ charge[i] \in Nat /\ amounts[i] <= charge[i]
      /\ charge[1] <= r.amount0 /\ charge[2] <= r.amount1
      /\ r.price <= Ratio[range.lower] => charge[2] = 0
      /\ r.price >= Ratio[range.upper] => charge[1] = 0
  BY <1>1, ChargesFit, ZenonT(30)
<1>3. ~(amounts[1] > r.amount0 \/ amounts[2] > r.amount1)
  <2> HIDE DEF amounts, charge
  <2>1. /\ amounts[1] \in Nat /\ charge[1] \in Nat /\ amounts[1] <= charge[1]
        /\ amounts[2] \in Nat /\ charge[2] \in Nat /\ amounts[2] <= charge[2]
    BY <1>2
  <2> QED
    BY <1>1, <1>2, <2>1
<1>4. result = [status |-> "refused"] \/ result = planned
  BY <1>3 DEF PlanRange
<1>5. tick \in Int /\ range.lower \in Int /\ range.upper \in Int
  BY <1>1, TickOfAPrice, TickBounds
<1>6. /\ tick < range.lower => r.price <= Ratio[range.lower]
      /\ tick >= range.upper => r.price >= Ratio[range.upper]
  BY <1>1, SidesAgree
<1>7. /\ at.side = (IF tick < range.lower THEN "below"
                   ELSE IF tick < range.upper THEN "in-range" ELSE "above")
      /\ at.outside = (IF tick < range.lower THEN range.lower - tick
                      ELSE IF tick > range.upper THEN tick - range.upper ELSE 0)
  BY DEF RangeStatus
<1>8. \A i \in 1..2 : minimums[i] <= charge[i]
  <2>1. TAKE i \in 1..2
  <2> HIDE DEF amounts, charge
  <2>2. MinimumAmount(amounts[i], r.slippage) <= amounts[i]
        /\ MinimumAmount(amounts[i], r.slippage) \in Nat
    BY <1>1, <1>2, MinimumsAreLess
  <2> QED
    BY <1>2, <2>2
<1>9. CASE result = [status |-> "refused"]
  <2>1. result.status = "refused"
    BY <1>9
  <2> HIDE DEF result
  <2>2. MintedWell(r, range, result)
    BY <2>1 DEF MintedWell
  <2> QED
    BY <2>2 DEF result
<1>10. CASE result = planned
  <2> HIDE DEF result
  <2>1. /\ result.status = "planned" /\ result.liquidity = l /\ result.minimums = minimums
        /\ result.at = at
    BY <1>10
  <2> HIDE DEF l, minimums, at, tick
  <2>2. at.side = "below" => tick < range.lower
    BY <1>7
  <2>3. at.side = "above" => tick >= range.upper
    BY <1>5, <1>7
  <2>4. at.outside > 0 => at.side # "in-range"
    BY <1>5, <1>7
  <2>5. MintedWell(r, range, result)
    <3> DEFINE cost == AmountsWith(Charge0, Charge1, r.price, range, result.liquidity)
    <3>1. cost = charge
      BY <2>1
    <3> HIDE DEF cost, charge
    <3>2. /\ cost[1] <= r.amount0 /\ cost[2] <= r.amount1
          /\ \A i \in 1..2 : result.minimums[i] <= cost[i]
          /\ result.at.side = "below" => cost[2] = 0
          /\ result.at.side = "above" => cost[1] = 0
          /\ result.at.outside > 0 => result.at.side # "in-range"
      BY <1>2, <1>6, <1>8, <2>1, <2>2, <2>3, <2>4, <3>1
    <3> QED
      BY <2>1, <3>2 DEF MintedWell, cost
  <2> QED
    BY <2>5 DEF result
<1> QED
  BY <1>4, <1>9, <1>10

\* What RangeIsUsable says, of a request and its range.
UsableFor(r, range) ==
    LET s == r.spacing
        tick == TickAt(r.price)
        half == Max(Reached(r.width) \cup {0})
        apart(t) == IF t > tick THEN t - tick ELSE tick - t
    IN  /\ range # NoRow =>
              /\ {range.lower, range.upper} \subseteq UsableTicks(s)
              /\ r.outward =>
                    /\ range.lower <= Max({tick - half, Min(UsableTicks(s))})
                    /\ range.upper >= Min({tick + half, Max(UsableTicks(s))})
              /\ ~r.outward => range.lower >= tick - half /\ range.upper <= tick + half
        /\ NearestUsableTick(tick, s) \in UsableTicks(s)
        /\ \A t \in UsableTicks(s) : apart(NearestUsableTick(tick, s)) <= apart(t)

LEMMA PlanIsGood ==
    ASSUME NEW r \in PlanRequests, NEW range, NEW result,
           range = RangeFromHalfWidth(TickAt(r.price), HalfWidthTicksForBps(r.width),
                                      r.spacing, r.outward),
           result = IF range = NoRow THEN [status |-> "refused"] ELSE PlanRange(r, range)
    PROVE  UsableFor(r, range) /\ MintedWell(r, range, result)
<1> DEFINE s == r.spacing  tick == TickAt(r.price)  half == Max(Reached(r.width) \cup {0})
<1>1. s \in Nat \ {0} /\ r.outward \in BOOLEAN /\ r.width \in Nat
  BY PlanRequestsAreValid
<1>2. tick \in MinTick..MaxTick
  BY PlanRequestsAreValid, TickOfAPrice
<1>3. half \in Nat /\ HalfWidthTicksForBps(r.width) = half
  BY <1>1, WidthIsReached
<1>4. range = RangeFromHalfWidth(tick, half, s, r.outward)
  BY <1>3
<1>5. ASSUME range # NoRow
      PROVE  /\ range.lower \in UsableTicks(s) /\ range.upper \in UsableTicks(s)
             /\ range.lower < range.upper
             /\ r.outward => /\ range.lower <= Max({tick - half, Min(UsableTicks(s))})
                             /\ range.upper >= Min({tick + half, Max(UsableTicks(s))})
             /\ ~r.outward => range.lower >= tick - half /\ range.upper <= tick + half
  <2> HIDE DEF s, tick, half
  <2> QED
    BY <1>1, <1>2, <1>3, <1>4, <1>5, RangesAreUsable
<1>6. /\ NearestUsableTick(tick, s) \in UsableTicks(s)
      /\ \A t \in UsableTicks(s) :
            (IF NearestUsableTick(tick, s) > tick THEN NearestUsableTick(tick, s) - tick
             ELSE tick - NearestUsableTick(tick, s)) <= IF t > tick THEN t - tick ELSE tick - t
  <2> HIDE DEF s, tick
  <2> QED
    BY <1>1, <1>2, NearestIsNearest
<1>7. UsableFor(r, range)
  <2> HIDE DEF s, tick, half
  <2>1. UsableFor(r, range) <=>
          /\ range # NoRow =>
              /\ {range.lower, range.upper} \subseteq UsableTicks(s)
              /\ r.outward =>
                    /\ range.lower <= Max({tick - half, Min(UsableTicks(s))})
                    /\ range.upper >= Min({tick + half, Max(UsableTicks(s))})
              /\ ~r.outward => range.lower >= tick - half /\ range.upper <= tick + half
          /\ NearestUsableTick(tick, s) \in UsableTicks(s)
          /\ \A t \in UsableTicks(s) :
                (IF NearestUsableTick(tick, s) > tick THEN NearestUsableTick(tick, s) - tick
                 ELSE tick - NearestUsableTick(tick, s)) <= IF t > tick THEN t - tick ELSE tick - t
    BY Zenon DEF UsableFor, s, tick, half
  <2> QED
    BY <1>5, <1>6, <2>1, Zenon
<1>8. CASE range = NoRow
  <2>1. result.status = "refused"
    BY <1>8
  <2> QED
    BY <1>7, <2>1 DEF MintedWell
<1>9. CASE range # NoRow
  <2>1. range.lower \in MinTick..MaxTick /\ range.upper \in MinTick..MaxTick
    BY <1>5, <1>9 DEF UsableTicks
  <2>2. MintedWell(r, range, PlanRange(r, range))
    BY <1>5, <1>9, <2>1, PlannedIsMintedWell
  <2> QED
    BY <1>7, <1>9, <2>2
<1> QED
  BY <1>8, <1>9

LEMMA GoodPlansCanBeMinted ==
    PlansCanBeMinted <=>
       (rangePlan # NoRow => /\ UsableFor(rangePlan.request, rangePlan.range)
                             /\ MintedWell(rangePlan.request, rangePlan.range, rangePlan.result))
<1>1. RangeIsUsable <=> UsableFor(rangePlan.request, rangePlan.range)
  BY DEF RangeIsUsable, UsableFor, UsableTicks, Reached
<1> QED
  BY <1>1 DEF PlansCanBeMinted, MintedWell

\* A plan the pool accepts (range-plan.ts planRange, rangeFromHalfWidth, minimumAmounts): for any
\* ladder of ratios, spacing, width, price and capital, the range is usable and reaches as far
\* as was asked, and what the pool charges for the liquidity, rounded against the operator, is
\* within the capital and above the minimums.
THEOREM PlansCanAlwaysBeMinted == RangesSpec => []PlansCanBeMinted
<1>1. RangesInit => PlansCanBeMinted
  BY DEF RangesInit, PlansCanBeMinted
<1>2. PlansCanBeMinted /\ [BooksNext \/ PlansNext]_rangeVars => PlansCanBeMinted'
  <2> SUFFICES ASSUME PlansCanBeMinted, [BooksNext \/ PlansNext]_rangeVars
               PROVE  PlansCanBeMinted'
    OBVIOUS
  <2>1. CASE UNCHANGED rangePlan
    <3>1. (PlansCanBeMinted <=>
             (rangePlan # NoRow => /\ UsableFor(rangePlan.request, rangePlan.range)
                             /\ MintedWell(rangePlan.request, rangePlan.range, rangePlan.result)))'
      BY GoodPlansCanBeMinted, PTL
    <3> QED
      BY <2>1, <3>1, GoodPlansCanBeMinted
  <2>2. ASSUME NEW r \in PlanRequests, MakePlan(r) PROVE PlansCanBeMinted'
    <3> DEFINE range == RangeFromHalfWidth(TickAt(r.price), HalfWidthTicksForBps(r.width),
                                           r.spacing, r.outward)
               result == IF range = NoRow THEN [status |-> "refused"] ELSE PlanRange(r, range)
    <3>1. rangePlan' = [request |-> r, range |-> range, result |-> result]
      BY <2>2 DEF MakePlan
    <3>2. UsableFor(r, range) /\ MintedWell(r, range, result)
      BY PlanIsGood
    <3> HIDE DEF range, result
    <3>3. rangePlan'.request = r /\ rangePlan'.range = range /\ rangePlan'.result = result
      BY <3>1
    <3>4. (PlansCanBeMinted <=>
             (rangePlan # NoRow => /\ UsableFor(rangePlan.request, rangePlan.range)
                             /\ MintedWell(rangePlan.request, rangePlan.range, rangePlan.result)))'
      BY GoodPlansCanBeMinted, PTL
    <3> QED
      BY <3>2, <3>3, <3>4
  <2>3. ASSUME BooksNext PROVE UNCHANGED rangePlan
    <3>1. ASSUME NEW id, NEW thePool, NEW l, NEW c, NEW from, NEW fee,
                 OpenRangePosition(id, thePool, l, c, from, fee)
          PROVE  UNCHANGED rangePlan
      BY <3>1, Zenon DEF OpenRangePosition
    <3>2. ASSUME NEW id, NEW l, NEW c, NEW fee, IncreaseRangePosition(id, l, c, fee)
          PROVE  UNCHANGED rangePlan
      BY <3>2, Zenon DEF IncreaseRangePosition
    <3>3. ASSUME NEW id, NEW l, NEW p, NEW fee, DecreaseRangePosition(id, l, p, fee)
          PROVE  UNCHANGED rangePlan
      BY <3>3, Zenon DEF DecreaseRangePosition
    <3>4. ASSUME NEW id, NEW p, NEW fee, CloseRangePosition(id, p, fee)
          PROVE  UNCHANGED rangePlan
      BY <3>4, <3>3, Zenon DEF CloseRangePosition
    <3>5. ASSUME NextRangeDay PROVE UNCHANGED rangePlan
      BY <3>5, Zenon DEF NextRangeDay
    <3> QED
      BY <2>3, <3>1, <3>2, <3>3, <3>4, <3>5, Zenon DEF BooksNext, RangeChange
  <2> QED
    BY <2>1, <2>2, <2>3 DEF PlansNext, rangeVars
<1> QED
  BY <1>1, <1>2, PTL DEF RangesSpec
-----------------------------------------------------------------------------
(***************************************************************************)
(* Lists in order.                                                         *)
(***************************************************************************)

Orders(order, D) ==
    /\ \A i \in D : <<i, i>> \notin order
    /\ \A i, j \in D : i # j => <<i, j>> \in order \/ <<j, i>> \in order
    /\ \A i, j, k \in D : <<i, j>> \in order /\ <<j, k>> \in order => <<i, k>> \in order

Before(i, order, D) == {j \in D : <<j, i>> \in order}

\* How many go before tells the places apart, and takes every value.
LEMMA RanksAreAll ==
    ASSUME NEW D, IsFiniteSet(D), NEW order, Orders(order, D),
           NEW rank, rank = [i \in D |-> 1 + Cardinality(Before(i, order, D))]
    PROVE  /\ \A i \in D : rank[i] \in 1..Cardinality(D)
           /\ \A i, j \in D : <<i, j>> \in order => rank[i] < rank[j]
           /\ \A r \in 1..Cardinality(D) : \E i \in D : rank[i] = r
<1> DEFINE n == Cardinality(D)
<1>1. n \in Nat
  BY FS_CardinalityType
<1>2. \A i \in D : IsFiniteSet(Before(i, order, D)) /\ Cardinality(Before(i, order, D)) \in Nat
  <2> TAKE i \in D
  <2>1. Before(i, order, D) \subseteq D
    BY DEF Before
  <2> QED
    BY <2>1, FS_Subset, FS_CardinalityType
<1>3. ASSUME NEW i \in D PROVE rank[i] \in 1..n
  <2>1. Before(i, order, D) \subseteq D \ {i}
    BY DEF Before, Orders
  <2>2. IsFiniteSet(D \ {i}) /\ Cardinality(D \ {i}) = n - 1
    BY FS_RemoveElement
  <2>3. Cardinality(Before(i, order, D)) <= n - 1
    BY <2>1, <2>2, FS_Subset
  <2>4. rank[i] = 1 + Cardinality(Before(i, order, D))
    OBVIOUS
  <2> HIDE DEF n
  <2> QED
    BY <1>1, <1>2, <2>3, <2>4
<1>4. ASSUME NEW i \in D, NEW j \in D, <<i, j>> \in order PROVE rank[i] < rank[j]
  <2>1. Before(i, order, D) \cup {i} \subseteq Before(j, order, D)
    BY <1>4 DEF Before, Orders
  <2>2. i \notin Before(i, order, D)
    BY DEF Before, Orders
  <2>3. Cardinality(Before(i, order, D) \cup {i}) = Cardinality(Before(i, order, D)) + 1
    BY <1>2, <2>2, FS_AddElement
  <2>4. Cardinality(Before(i, order, D) \cup {i}) <= Cardinality(Before(j, order, D))
    BY <1>2, <2>1, FS_Subset
  <2>5. /\ rank[i] = 1 + Cardinality(Before(i, order, D))
        /\ rank[j] = 1 + Cardinality(Before(j, order, D))
    OBVIOUS
  <2> QED
    BY <1>2, <2>3, <2>4, <2>5
<1>5. rank \in Injection(D, 1..n)
  <2>1. rank \in [D -> 1..n]
    BY <1>3
  <2>2. ASSUME NEW i \in D, NEW j \in D, rank[i] = rank[j] PROVE i = j
    <3>1. SUFFICES ASSUME i # j PROVE FALSE
      OBVIOUS
    <3>2. <<i, j>> \in order \/ <<j, i>> \in order
      BY <3>1 DEF Orders
    <3>3. rank[i] \in Nat /\ rank[j] \in Nat
      BY <1>1, <1>3
    <3> QED
      BY <1>4, <2>2, <3>2, <3>3
  <2> HIDE DEF n
  <2> QED
    BY <2>1, <2>2 DEF Injection, IsInjective
<1>6. IsFiniteSet(1..n) /\ Cardinality(1..n) = n
  <2> HIDE DEF n
  <2>1. 1 \in Int /\ n \in Int
    BY <1>1
  <2>2. Cardinality(1..n) = IF 1 > n THEN 0 ELSE n - 1 + 1
    BY <2>1, FS_Interval
  <2>3. (IF 1 > n THEN 0 ELSE n - 1 + 1) = n
    BY <1>1
  <2> QED
    BY <2>1, <2>2, <2>3, FS_Interval
<1>7. rank \in Surjection(D, 1..n)
  <2>1. Cardinality(D) = Cardinality(1..n)
    BY <1>6
  <2> HIDE DEF n
  <2> QED
    BY <1>5, <1>6, <2>1, FS_Injection
<1>8. ASSUME NEW r \in 1..n PROVE \E i \in D : rank[i] = r
  <2> HIDE DEF n
  <2> QED
    BY <1>7 DEF Surjection
<1> QED
  BY <1>3, <1>4, <1>8

\* How a list in order is made of the list: p is one to one, reaches every place, and
\* takes them in the order.
Arranges(p, order, N, D) ==
    /\ p \in [N -> D]
    /\ \A i \in D : \E r \in N : p[r] = i
    /\ \A q, r \in N : q < r => <<p[q], p[r]>> \in order
    /\ \A q, r \in N : p[q] = p[r] => q = r
    /\ \A rows : InOrder(rows, D, order) = [r \in N |-> rows[p[r]]]

LEMMA InOrderIs ==
    ASSUME NEW D, IsFiniteSet(D), NEW order, Orders(order, D), NEW N, N = 1..Cardinality(D)
    PROVE  \E p : Arranges(p, order, N, D)
<1> DEFINE rank == [i \in D |-> 1 + Cardinality(Before(i, order, D))]
           p == [r \in N |-> CHOOSE i \in D : rank[i] = r]
<1>1. /\ \A i \in D : rank[i] \in N
      /\ \A i, j \in D : <<i, j>> \in order => rank[i] < rank[j]
      /\ \A r \in N : \E i \in D : rank[i] = r
  <2> HIDE DEF rank
  <2> SUFFICES rank = [i \in D |-> 1 + Cardinality(Before(i, order, D))]
    BY RanksAreAll
  <2> QED
    BY DEF rank
<1>2. N \subseteq Nat
  BY FS_CardinalityType
<1>3. \A rows : InOrder(rows, D, order) = [r \in N |-> rows[p[r]]]
  <2> TAKE rows
  <2>1. InOrder(rows, D, order) = [r \in N |-> rows[CHOOSE i \in D : rank[i] = r]]
    BY Zenon DEF InOrder, Before
  <2> HIDE DEF rank
  <2> QED
    BY <2>1
<1> HIDE DEF rank
<1>4. \A r \in N : p[r] \in D /\ rank[p[r]] = r
  BY <1>1
<1>5. \A i, j \in D : rank[i] = rank[j] => i = j
  <2> SUFFICES ASSUME NEW i \in D, NEW j \in D, rank[i] = rank[j], i # j PROVE FALSE
    OBVIOUS
  <2>1. <<i, j>> \in order \/ <<j, i>> \in order
    BY DEF Orders
  <2>2. rank[i] \in Nat /\ rank[j] \in Nat
    BY <1>1, <1>2
  <2> QED
    BY <1>1, <2>1, <2>2
<1>6. \A i \in D : \E r \in N : p[r] = i
  <2> TAKE i \in D
  <2>1. rank[i] \in N /\ p[rank[i]] \in D /\ rank[p[rank[i]]] = rank[i]
    BY <1>1, <1>4
  <2> HIDE DEF p
  <2> QED
    BY <1>5, <2>1
<1>7. p \in [N -> D]
  BY <1>4
<1> HIDE DEF p
<1>8. \A q, r \in N : p[q] = p[r] => q = r
  BY <1>4
<1>9. ASSUME NEW q \in N, NEW r \in N, q < r PROVE <<p[q], p[r]>> \in order
  <2>1. p[q] # p[r] /\ q \in Nat /\ r \in Nat
    BY <1>4, <1>2, <1>9
  <2>2. ~(<<p[r], p[q]>> \in order)
    <3>1. SUFFICES ASSUME <<p[r], p[q]>> \in order PROVE FALSE
      OBVIOUS
    <3>2. rank[p[r]] < rank[p[q]]
      BY <1>1, <1>4, <3>1
    <3> QED
      BY <1>4, <1>9, <2>1, <3>2
  <2> QED
    BY <1>4, <2>1, <2>2 DEF Orders
<1> QED
  BY <1>3, <1>6, <1>7, <1>8, <1>9, Zenon DEF Arranges

LEMMA AscendingOrders ==
    ASSUME NEW n \in Nat, NEW D, D \subseteq 1..n, NEW key, \A i \in D : key[i] \in Int
    PROVE  Orders(Ascending(key, D), D) /\ IsFiniteSet(D)
<1>1. \A i, j \in D : <<i, j>> \in Ascending(key, D) <=>
                         key[i] < key[j] \/ (key[i] = key[j] /\ i < j)
  BY DEF Ascending
<1>2. \A i \in D : i \in Int /\ key[i] \in Int
  OBVIOUS
<1>3. IsFiniteSet(D)
  BY FS_Interval, FS_Subset, 1 \in Int, n \in Int
<1> DEFINE order == Ascending(key, D)
<1> HIDE DEF order
<1>4. Orders(order, D)
  BY <1>1, <1>2 DEF Orders, order
<1> QED
  BY <1>3, <1>4 DEF order
-----------------------------------------------------------------------------
(***************************************************************************)
(* What the providers list.                                                *)
(***************************************************************************)

ListedRows == UNION {{body[i] : i \in DOMAIN body} : body \in DexBodies \cup GeckoBodies}

Snapshots ==
    [pool : {row.pool : row \in ListedRows}, base : {row.base : row \in ListedRows},
     quote : {row.quote : row \in ListedRows}, dex : {row.dex : row \in ListedRows},
     price : (Nat \ {0}) \cup {None}, liquidity : Nat \cup {None},
     observedAt : Nat, freshness : Nat]

SeenBy(snaps, at) == \A i \in 1..Len(snaps) : snaps[i].observedAt <= at
ListsOnce(snaps) ==
    \A i, j \in 1..Len(snaps) : snaps[i].pool = snaps[j].pool => i = j
ListsTwice(snaps) ==
    \A i, j, k \in 1..Len(snaps) :
       snaps[i].pool = snaps[j].pool /\ snaps[j].pool = snaps[k].pool => i = j \/ j = k \/ i = k
DeepestFirst(snaps) ==
    \A i, j \in 1..Len(snaps) : i < j => Depth(snaps[i]) >= Depth(snaps[j])

LEMMA DepthIsInt == ASSUME NEW s \in Snapshots PROVE Depth(s) \in Int
  BY DEF Depth, Snapshots

LEMMA DexSnapshots ==
    ASSUME NEW body \in DexBodies \cup GeckoBodies, NEW i \in DOMAIN body, NEW at \in Nat
    PROVE  /\ DexSnapshot(body[i], at) \in Snapshots
           /\ DexSnapshot(body[i], at).pool = body[i].pool
           /\ DexSnapshot(body[i], at).observedAt = at
<1> DEFINE row == body[i]
<1>1. row \in ListedRows /\ row.price \in Int /\ row.liquidity \in Int
  BY MarketConstants DEF ListedRows
<1> HIDE DEF row
<1>2. DecimalOrNull(row.price) \in (Nat \ {0}) \cup {None}
  BY <1>1 DEF DecimalOrNull
<1>3. NumberToDecimal(row.liquidity) \in Nat \cup {None}
  BY <1>1 DEF NumberToDecimal
<1>4. /\ row.pool \in {r.pool : r \in ListedRows} /\ row.base \in {r.base : r \in ListedRows}
      /\ row.quote \in {r.quote : r \in ListedRows} /\ row.dex \in {r.dex : r \in ListedRows}
  BY <1>1
<1>5. DexSnapshot(row, at) \in Snapshots
  BY <1>2, <1>3, <1>4 DEF DexSnapshot, Snapshots
<1>6. DexSnapshot(row, at).pool = row.pool /\ DexSnapshot(row, at).observedAt = at
  BY DEF DexSnapshot
<1> QED
  BY <1>5, <1>6 DEF row

LEMMA GeckoSnapshots ==
    ASSUME NEW body \in GeckoBodies, NEW i \in DOMAIN body, NEW at \in Nat
    PROVE  /\ GeckoSnapshot(body[i], at) \in Snapshots
           /\ GeckoSnapshot(body[i], at).pool = body[i].pool
           /\ GeckoSnapshot(body[i], at).observedAt = at
<1> DEFINE s == DexSnapshot(body[i], at)  d == DecimalOrNull(body[i].liquidity)
<1>1. s \in Snapshots /\ s.pool = body[i].pool /\ s.observedAt = at
  BY DexSnapshots
<1>2. d \in Nat \cup {None}
  BY MarketConstants DEF DecimalOrNull
<1>3. GeckoSnapshot(body[i], at) = [s EXCEPT !.liquidity = d]
  BY DEF GeckoSnapshot
<1> HIDE DEF s, d
<1>4. [s EXCEPT !.liquidity = d] \in Snapshots
  BY <1>1, <1>2 DEF Snapshots
<1>5. [s EXCEPT !.liquidity = d].pool = s.pool /\ [s EXCEPT !.liquidity = d].observedAt = s.observedAt
  BY <1>1 DEF Snapshots
<1> QED
  BY <1>1, <1>3, <1>4, <1>5

\* A list with its rows in another order: what is said of each, and of how often a pool is
\* listed, stays.
Reordered(snaps, of, p) ==
    /\ p \in [1..Len(of) -> 1..Len(of)]
    /\ \A q, r \in 1..Len(of) : p[q] = p[r] => q = r
    /\ snaps = [r \in 1..Len(of) |-> of[p[r]]]

LEMMA ReorderedIsAList ==
    ASSUME NEW S, NEW of \in Seq(S), NEW p, NEW snaps, Reordered(snaps, of, p)
    PROVE  /\ snaps \in Seq(S) /\ Len(snaps) = Len(of)
           /\ \A r \in 1..Len(of) : p[r] \in 1..Len(of) /\ snaps[r] = of[p[r]]
<1>1. Len(of) \in Nat /\ \A i \in 1..Len(of) : of[i] \in S
  OBVIOUS
<1>2. \A r \in 1..Len(of) : p[r] \in 1..Len(of) /\ snaps[r] = of[p[r]] /\ snaps[r] \in S
  BY <1>1 DEF Reordered
<1>3. DOMAIN snaps = 1..Len(of) /\ snaps \in [1..Len(of) -> S]
  BY <1>1, <1>2 DEF Reordered
<1> QED
  BY <1>1, <1>2, <1>3

LEMMA DeepestFirstIs ==
    ASSUME NEW of \in Seq(Snapshots)
    PROVE  /\ \E p : Reordered(DeepestFirstOf(of), of, p)
           /\ DeepestFirst(DeepestFirstOf(of))
<1> DEFINE n == Len(of)
           D == 1..n
           key == [i \in D |-> -Depth(of[i])]
           order == Ascending(key, D)
<1>1. n \in Nat /\ DOMAIN of = 1..n /\ \A i \in 1..n : of[i] \in Snapshots
  OBVIOUS
<1>2. \A i \in D : Depth(of[i]) \in Int /\ key[i] = -Depth(of[i]) /\ key[i] \in Int
  BY <1>1, DepthIsInt
<1>3. DeepestFirstOf(of) = InOrder(of, D, order)
  BY <1>1 DEF DeepestFirstOf
<1> HIDE DEF n, key
<1>4. Orders(order, D) /\ IsFiniteSet(D)
  BY <1>1, <1>2, AscendingOrders
<1>5. D = 1..Cardinality(D)
  <2>1. 1 \in Int /\ n \in Int
    BY <1>1
  <2>2. Cardinality(1..n) = IF 1 > n THEN 0 ELSE n - 1 + 1
    BY <2>1, FS_Interval
  <2>3. (IF 1 > n THEN 0 ELSE n - 1 + 1) = n
    BY <1>1
  <2> QED
    BY <2>2, <2>3
<1>6. \A i, j \in D : <<i, j>> \in order => key[i] <= key[j]
  BY <1>2 DEF Ascending
<1> HIDE DEF order, D
<1>7. PICK p : Arranges(p, order, D, D)
  BY <1>4, <1>5, InOrderIs
<1>8. /\ p \in [D -> D]
      /\ \A q, r \in D : q < r => <<p[q], p[r]>> \in order
      /\ \A q, r \in D : p[q] = p[r] => q = r
      /\ \A rows : InOrder(rows, D, order) = [r \in D |-> rows[p[r]]]
  BY <1>7 DEF Arranges
<1>9. DeepestFirstOf(of) = [r \in D |-> of[p[r]]]
  BY <1>3, <1>8
<1>10. Reordered(DeepestFirstOf(of), of, p)
  BY <1>8, <1>9 DEF Reordered, n, D
<1>11. DeepestFirst(DeepestFirstOf(of))
  <2>1. Len(DeepestFirstOf(of)) = n /\ \A r \in D : DeepestFirstOf(of)[r] = of[p[r]]
    BY <1>10, ReorderedIsAList DEF n, D
  <2>2. ASSUME NEW i \in D, NEW j \in D, i < j
        PROVE  Depth(of[p[i]]) >= Depth(of[p[j]])
    <3>1. p[i] \in D /\ p[j] \in D /\ <<p[i], p[j]>> \in order
      BY <1>8, <2>2
    <3>2. key[p[i]] <= key[p[j]]
      BY <1>6, <3>1
    <3> QED
      BY <1>2, <3>1, <3>2
  <2> QED
    BY <2>1, <2>2 DEF DeepestFirst, D
<1> QED
  BY <1>10, <1>11

\* What a reordering keeps.
LEMMA ReorderedKeeps ==
    ASSUME NEW of \in Seq(Snapshots), NEW p, NEW snaps, Reordered(snaps, of, p), NEW at
    PROVE  /\ SeenBy(of, at) => SeenBy(snaps, at)
           /\ ListsOnce(of) => ListsOnce(snaps)
           /\ ListsTwice(of) => ListsTwice(snaps)
<1> DEFINE D == 1..Len(of)
<1>1. /\ 1..Len(snaps) = D
      /\ \A r \in D : p[r] \in D /\ snaps[r] = of[p[r]]
  BY ReorderedIsAList
<1>2. \A q, r \in D : p[q] = p[r] => q = r
  BY DEF Reordered
<1> HIDE DEF D
<1>3. SeenBy(of, at) => SeenBy(snaps, at)
  BY <1>1, Zenon DEF SeenBy, D
<1>4. ListsOnce(of) => ListsOnce(snaps)
  <2>1. ListsOnce(of) <=> \A i, j \in D : of[i].pool = of[j].pool => i = j
    BY Zenon DEF ListsOnce, D
  <2>2. ListsOnce(snaps) <=> \A i, j \in D : snaps[i].pool = snaps[j].pool => i = j
    BY <1>1, Zenon DEF ListsOnce
  <2> QED
    BY <1>1, <1>2, <2>1, <2>2
<1>5. ListsTwice(of) => ListsTwice(snaps)
  <2>1. ListsTwice(of) <=> \A i, j, k \in D :
           of[i].pool = of[j].pool /\ of[j].pool = of[k].pool => i = j \/ j = k \/ i = k
    BY Zenon DEF ListsTwice, D
  <2>2. ListsTwice(snaps) <=> \A i, j, k \in D :
           snaps[i].pool = snaps[j].pool /\ snaps[j].pool = snaps[k].pool
              => i = j \/ j = k \/ i = k
    <3>1. 1..Len(snaps) = D
      BY <1>1
    <3> QED
      BY <3>1, Zenon DEF ListsTwice
  <2> QED
    BY <1>1, <1>2, <2>1, <2>2
<1> QED
  BY <1>3, <1>4, <1>5

\* A provider's own list, as of a time.
Listed(snaps, at) == snaps \in Seq(Snapshots) /\ SeenBy(snaps, at) /\ ListsOnce(snaps)

LEMMA MapListLists ==
    ASSUME NEW body \in GeckoBodies, NEW at \in Nat
    PROVE  Listed(MapList(body, at), at)
<1> DEFINE s == MapList(body, at)  n == Len(body)
<1>1. n \in Nat /\ DOMAIN body = 1..n
  BY MarketConstants DEF IsRows
<1>2. CASE s = <<>>
  BY <1>2 DEF Listed, SeenBy, ListsOnce
<1>3. CASE s # <<>>
  <2>1. s = [i \in 1..n |-> GeckoSnapshot(body[i], at)]
    BY <1>1, <1>3 DEF MapList
  <2>2. \A i \in 1..n : /\ GeckoSnapshot(body[i], at) \in Snapshots
                        /\ GeckoSnapshot(body[i], at).pool = body[i].pool
                        /\ GeckoSnapshot(body[i], at).observedAt = at
    BY <1>1, GeckoSnapshots
  <2>3. \A i, j \in 1..n : body[i].pool = body[j].pool => i = j
    BY <1>1, MarketConstants
  <2> HIDE DEF s, n
  <2>4. \A i \in 1..n : s[i] \in Snapshots /\ s[i].pool = body[i].pool /\ s[i].observedAt = at
    BY <2>1, <2>2
  <2>5. s \in Seq(Snapshots) /\ Len(s) = n
    <3>1. s \in [1..n -> Snapshots]
      BY <2>1, <2>2
    <3> QED
      BY <1>1, <3>1
  <2>6. SeenBy(s, at)
    BY <2>4, <2>5 DEF SeenBy
  <2>7. ListsOnce(s)
    BY <2>3, <2>4, <2>5 DEF ListsOnce
  <2> QED
    BY <2>5, <2>6, <2>7 DEF Listed, s
<1> QED
  BY <1>2, <1>3

LEMMA MapManyLists ==
    ASSUME NEW body \in DexBodies, NEW at \in Nat
    PROVE  Listed(MapMany(body, at), at)
<1> DEFINE n == Len(body)
           D == {i \in DOMAIN body : Usable(body[i])}
           N == 1..Cardinality(D)
           rows == [i \in D |-> DexSnapshot(body[i], at)]
           order == Ascending([i \in D |-> i], D)
           s == MapMany(body, at)
<1>1. n \in Nat /\ DOMAIN body = 1..n /\ D \subseteq 1..n
  BY MarketConstants DEF IsRows
<1>2. \A i \in D : /\ rows[i] \in Snapshots
                   /\ rows[i].pool = body[i].pool /\ rows[i].observedAt = at
  BY <1>1, DexSnapshots
<1>3. \A i, j \in D : body[i].pool = body[j].pool => i = j
  BY MarketConstants
<1>4. s = InOrder(rows, D, order)
  BY DEF MapMany
<1>5. Orders(order, D) /\ IsFiniteSet(D)
  <2> DEFINE key == [i \in D |-> i]
  <2>1. \A i \in D : key[i] \in Int
    BY <1>1
  <2> HIDE DEF key, D
  <2> QED
    BY <1>1, <2>1, AscendingOrders DEF key
<1>6. Cardinality(D) \in Nat
  BY <1>5, FS_CardinalityType
<1> HIDE DEF D, rows, order, s
<1>7. N = 1..Cardinality(D)
  OBVIOUS
<1> HIDE DEF N
<1>8. PICK p : Arranges(p, order, N, D)
  BY <1>5, <1>7, InOrderIs
<1>9. /\ p \in [N -> D]
      /\ \A q, r \in N : p[q] = p[r] => q = r
      /\ \A list : InOrder(list, D, order) = [r \in N |-> list[p[r]]]
  BY <1>8 DEF Arranges
<1>10. s = [r \in N |-> rows[p[r]]]
  BY <1>4, <1>9
<1>11. \A r \in N : p[r] \in D /\ s[r] \in Snapshots /\ s[r].pool = body[p[r]].pool
                   /\ s[r].observedAt = at
  BY <1>2, <1>9, <1>10
<1>12. s \in Seq(Snapshots) /\ Len(s) = Cardinality(D)
  <2>1. s \in [N -> Snapshots]
    BY <1>10, <1>11
  <2> QED
    BY <1>6, <1>7, <2>1
<1>13. 1..Len(s) = N
  BY <1>12, <1>7
<1>14. SeenBy(s, at)
  BY <1>11, <1>13 DEF SeenBy
<1>15. ListsOnce(s)
  BY <1>3, <1>9, <1>11, <1>13 DEF ListsOnce
<1> QED
  BY <1>12, <1>14, <1>15 DEF Listed, s

LEMMA DexPoolsAreListed ==
    ASSUME NEW body \in DexBodies, NEW at \in Nat
    PROVE  Listed(DexPools(body, at), at) /\ DexPools(body, at) \in Seq(Snapshots)
<1> DEFINE of == MapMany(body, at)
<1>1. Listed(of, at)
  BY MapManyLists
<1> HIDE DEF of
<1>2. PICK p : Reordered(DeepestFirstOf(of), of, p)
  BY <1>1, DeepestFirstIs DEF Listed
<1>3. Listed(DeepestFirstOf(of), at)
  BY <1>1, <1>2, ReorderedIsAList, ReorderedKeeps DEF Listed
<1> QED
  BY <1>3 DEF DexPools, Listed, of
-----------------------------------------------------------------------------
(***************************************************************************)
(* Prices.                                                                 *)
(***************************************************************************)

\* Sorted prices: each of the prices, from the lowest to the highest.
LEMMA SortedPricesAre ==
    ASSUME NEW prices \in Seq(Nat \ {0}), NEW n, n = Len(prices)
    PROVE  /\ Len(SortedPrices(prices)) = n
           /\ \A r \in 1..n : SortedPrices(prices)[r] \in Nat \ {0}
           /\ \A q, r \in 1..n : q <= r => SortedPrices(prices)[q] <= SortedPrices(prices)[r]
           /\ \A i \in 1..n : \E r \in 1..n : SortedPrices(prices)[r] = prices[i]
<1> DEFINE D == 1..n
           order == Ascending(prices, D)
           s == SortedPrices(prices)
<1>1. n \in Nat /\ DOMAIN prices = D /\ \A i \in D : prices[i] \in Nat \ {0}
  OBVIOUS
<1>2. s = InOrder(prices, D, order)
  BY <1>1 DEF SortedPrices
<1>3. Orders(order, D) /\ IsFiniteSet(D)
  BY <1>1, AscendingOrders
<1>4. D = 1..Cardinality(D)
  <2>1. 1 \in Int /\ n \in Int
    BY <1>1
  <2>2. Cardinality(1..n) = IF 1 > n THEN 0 ELSE n - 1 + 1
    BY <2>1, FS_Interval
  <2>3. (IF 1 > n THEN 0 ELSE n - 1 + 1) = n
    BY <1>1
  <2> QED
    BY <2>2, <2>3
<1>5. \A i, j \in D : <<i, j>> \in order => prices[i] <= prices[j]
  BY <1>1 DEF Ascending
<1>6. \A r \in D : r \in Nat
  BY <1>1
<1> HIDE DEF order, D, s
<1>7. PICK p : Arranges(p, order, D, D)
  BY <1>3, <1>4, InOrderIs
<1>8. /\ p \in [D -> D]
      /\ \A i \in D : \E r \in D : p[r] = i
      /\ \A q, r \in D : q < r => <<p[q], p[r]>> \in order
      /\ s = [r \in D |-> prices[p[r]]]
  BY <1>2, <1>7 DEF Arranges
<1>9. \A r \in D : p[r] \in D /\ s[r] = prices[p[r]] /\ s[r] \in Nat \ {0}
  BY <1>1, <1>8
<1>10. Len(s) = n
  <2>1. s \in [D -> Nat \ {0}]
    BY <1>8, <1>9
  <2> QED
    BY <1>1, <2>1 DEF D
<1>11. ASSUME NEW q \in D, NEW r \in D, q <= r PROVE s[q] <= s[r]
  <2>1. CASE q = r
    BY <1>9, <2>1
  <2>2. CASE q < r
    BY <1>5, <1>8, <1>9, <2>2
  <2> QED
    BY <1>6, <1>11, <2>1, <2>2
<1>12. \A i \in D : \E r \in D : s[r] = prices[i]
  BY <1>8, <1>9
<1> QED
  BY <1>9, <1>10, <1>11, <1>12 DEF D, s

Spread(low, high) == (2 * (high - low) * 10000 + low) \div (2 * low)

\* A spread within the tolerance leaves no room for two prices that are not near.
LEMMA SpreadBounds ==
    ASSUME NEW low \in Nat \ {0}, NEW high \in Nat \ {0}, low <= high,
           Spread(low, high) <= Tolerance,
           NEW p \in Nat, low <= p, p <= high, NEW q \in Nat, low <= q, q <= high
    PROVE  Near(p, q)
<1> DEFINE a == 2 * (high - low) * 10000 + low  d == a \div (2 * low)
<1>1. a \in Nat /\ 2 * low \in Nat \ {0} /\ a = 20000 * (high - low) + low
  OBVIOUS
<1>2. d \in Nat /\ a < (2 * low) * d + 2 * low
  <2> DEFINE b == 2 * low
  <2>1. a \in Nat /\ b \in Nat \ {0}
    BY <1>1
  <2> HIDE DEF a, b
  <2>2. a \div b \in Nat /\ a < b * (a \div b) + b
    BY <2>1, Division
  <2> QED
    BY <2>2 DEF b
<1>3. d <= Tolerance /\ Tolerance \in Nat
  BY MarketConstants DEF Spread
<1> HIDE DEF a, d
<1>4. low * d <= low * Tolerance
  BY <1>2, <1>3
<1>5. (2 * low) * d = 2 * (low * d) /\ low * d \in Nat /\ low * Tolerance \in Nat
  BY <1>2, <1>3
<1>6. 20000 * (high - low) < 2 * (low * Tolerance) + low
  <2> DEFINE x == low * d  y == low * Tolerance
  <2>1. x <= y /\ x \in Nat /\ y \in Nat /\ a < 2 * x + 2 * low
    BY <1>2, <1>4, <1>5
  <2> HIDE DEF x, y
  <2>2. 20000 * (high - low) < 2 * y + low
    BY <1>1, <2>1
  <2> QED
    BY <2>2 DEF y
<1>7. 2 * (low * Tolerance) + low = (2 * Tolerance + 1) * low
  BY <1>3
<1> DEFINE far == IF p > q THEN p - q ELSE q - p
           least == IF p > q THEN q ELSE p
<1>8. far \in Nat /\ far <= high - low /\ least \in Nat /\ low <= least
  OBVIOUS
<1> HIDE DEF far, least
<1>9. (2 * Tolerance + 1) * low <= (2 * Tolerance + 1) * least
  BY <1>3, <1>8
<1>10. 20000 * far < (2 * Tolerance + 1) * least
  <2> DEFINE x == (2 * Tolerance + 1) * low  y == (2 * Tolerance + 1) * least
  <2>1. x \in Nat /\ y \in Nat /\ x <= y /\ 20000 * (high - low) < x
    BY <1>3, <1>6, <1>7, <1>8, <1>9
  <2> HIDE DEF x, y
  <2>2. 20000 * far < y
    BY <1>8, <2>1
  <2> QED
    BY <2>2 DEF y
<1> QED
  BY <1>10 DEF Near, far, least

LEMMA UndisputedIsNear ==
    ASSUME NEW prices \in Seq(Nat \ {0}), Len(prices) >= 2, MaxDeviationBps(prices) <= Tolerance
    PROVE  \A i \in 1..Len(prices) : Near(Median(prices), prices[i])
<1> DEFINE n == Len(prices)
           s == SortedPrices(prices)
           m == (n - 1) \div 2 + 1
<1>1. n \in Nat /\ n >= 2
  OBVIOUS
<1>2. m \in 1..n /\ 1 \in 1..n /\ n \in 1..n
  BY <1>1
<1>3. /\ Len(s) = n /\ \A r \in 1..n : s[r] \in Nat \ {0}
      /\ \A q, r \in 1..n : q <= r => s[q] <= s[r]
      /\ \A i \in 1..n : \E r \in 1..n : s[r] = prices[i]
  BY SortedPricesAre
<1>4. Median(prices) = s[m]
  BY DEF Median
<1>5. MaxDeviationBps(prices) = Spread(s[1], s[n])
  BY <1>3 DEF MaxDeviationBps, Spread
<1> HIDE DEF s, n, m
<1> DEFINE low == s[1]  high == s[n]
<1>6. low \in Nat \ {0} /\ high \in Nat \ {0} /\ low <= high
  BY <1>1, <1>2, <1>3
<1>7. ASSUME NEW r \in 1..n PROVE s[r] \in Nat /\ low <= s[r] /\ s[r] <= high
  <2>1. 1 <= r /\ r <= n
    BY <1>1
  <2>2. s[r] \in Nat \ {0}
    BY <1>3
  <2>3. s[1] <= s[r] /\ s[r] <= s[n]
    BY <1>2, <1>3, <2>1
  <2> QED
    BY <2>2, <2>3
<1>8. ASSUME NEW i \in 1..n PROVE Near(s[m], prices[i])
  <2>1. PICK r \in 1..n : s[r] = prices[i]
    BY <1>3
  <2>2. s[m] \in Nat /\ low <= s[m] /\ s[m] <= high
    BY <1>2, <1>7
  <2>3. s[r] \in Nat /\ low <= s[r] /\ s[r] <= high
    BY <1>7
  <2>4. Spread(low, high) <= Tolerance
    BY <1>5
  <2> HIDE DEF low, high
  <2>5. Near(s[m], s[r])
    BY <1>6, <2>2, <2>4, <2>3, SpreadBounds
  <2> QED
    BY <2>1, <2>5
<1> QED
  BY <1>4, <1>8 DEF n
-----------------------------------------------------------------------------
(***************************************************************************)
(* The depth of a pair.                                                    *)
(***************************************************************************)

\* What at most two share, counted for each of them, is at most twice what is counted once.
LEMMA TwoOfEach ==
    ASSUME NEW S, IsFiniteSet(S), NEW T, IsFiniteSet(T), NEW f, NEW g, NEW h,
           \A x \in S : f[x] \in Nat /\ h[x] \in T /\ f[x] <= g[h[x]],
           \A y \in T : g[y] \in Nat,
           \A x, y, z \in S : h[x] = h[y] /\ h[y] = h[z] => x = y \/ y = z \/ x = z
    PROVE  Total(f, S) <= 2 * Total(g, T)
<1> DEFINE Of(t) == {x \in S : h[x] \in t}
           P == {t \in SUBSET T : Total(f, Of(t)) <= 2 * Total(g, t)}
<1>1. \A t \in SUBSET T : /\ IsFiniteSet(t) /\ IsFiniteSet(Of(t)) /\ Of(t) \subseteq S
                         /\ Total(g, t) \in Nat /\ Total(f, Of(t)) \in Nat
  <2> TAKE t \in SUBSET T
  <2>1. IsFiniteSet(t) /\ Of(t) \subseteq S
    BY FS_Subset
  <2>2. IsFiniteSet(Of(t))
    BY <2>1, FS_Subset
  <2>3. Total(g, t) \in Nat
    BY <2>1, TotalIsNat
  <2> HIDE DEF Of
  <2>4. Total(f, Of(t)) \in Nat
    BY <2>1, <2>2, TotalIsNat
  <2> QED
    BY <2>1, <2>2, <2>3, <2>4
<1>2. ASSUME NEW t \in SUBSET T, \A u \in SUBSET t : u # t => u \in P
      PROVE  t \in P
  <2>1. CASE t = {}
    <3>1. Of(t) = {}
      BY <2>1
    <3>2. Total(f, Of(t)) = 0 /\ Total(g, t) = 0
      BY <2>1, <3>1, TotalOfNothing
    <3> QED
      BY <3>2
  <2>2. ASSUME NEW y \in t PROVE t \in P
    <3> DEFINE u == t \ {y}  A == Of(u)
    <3>1. u \in SUBSET T /\ u \in SUBSET t /\ u # t
      OBVIOUS
    <3>2. Total(f, A) <= 2 * Total(g, u)
      BY <1>2, <3>1
    <3>3. Total(g, t) = g[y] + Total(g, u)
      <4>1. \A x \in t : g[x] \in Int
        OBVIOUS
      <4> QED
        BY <1>1, <4>1, TotalSplits
    <3>4. A \subseteq Of(t) /\ Of(t) = A \cup {x \in S : h[x] = y}
      OBVIOUS
    <3>5. \A x \in S : h[x] = y => x \notin A
      OBVIOUS
    <3>6. IsFiniteSet(A) /\ A \subseteq S /\ Total(f, A) \in Nat /\ Total(g, u) \in Nat
      BY <1>1, <3>1
    <3>7. g[y] \in Nat /\ \A x \in A : f[x] \in Int
      BY <3>6
    <3> HIDE DEF A, u
    <3>8. Total(f, Of(t)) <= Total(f, A) + 2 * g[y]
      <4>1. CASE \A x \in S : h[x] # y
        <5>1. Of(t) = A
          BY <3>4, <4>1
        <5> HIDE DEF Of
        <5> QED
          BY <3>6, <3>7, <5>1
      <4>2. ASSUME NEW x \in S, h[x] = y, \A z \in S : h[z] = y => z = x
            PROVE  Total(f, Of(t)) <= Total(f, A) + 2 * g[y]
        <5>1. Of(t) = A \cup {x} /\ x \notin A /\ f[x] \in Int /\ f[x] <= g[y] /\ f[x] \in Nat
          BY <3>4, <3>5, <4>2
        <5>2. Total(f, A \cup {x}) = f[x] + Total(f, A)
          BY <3>6, <3>7, <5>1, TotalAdds
        <5> HIDE DEF Of
        <5> QED
          BY <3>6, <3>7, <5>1, <5>2
      <4>3. ASSUME NEW x \in S, h[x] = y, NEW z \in S, h[z] = y, z # x
            PROVE  Total(f, Of(t)) <= Total(f, A) + 2 * g[y]
        <5> DEFINE B == A \cup {x}
        <5>1. \A v \in S : h[v] = y => v = x \/ v = z
          BY <4>3
        <5>2. Of(t) = B \cup {z} /\ z \notin B /\ x \notin A
          BY <3>4, <3>5, <4>3, <5>1
        <5>3. f[x] \in Nat /\ f[x] <= g[y] /\ f[z] \in Nat /\ f[z] <= g[y] /\ f[x] \in Int /\ f[z] \in Int
          BY <4>3
        <5>4. Total(f, B) = f[x] + Total(f, A)
          BY <3>6, <3>7, <5>2, <5>3, TotalAdds
        <5>5. IsFiniteSet(B) /\ \A v \in B : f[v] \in Int
          BY <3>6, <3>7, <5>3, FS_AddElement
        <5> HIDE DEF Of, B
        <5>6. Total(f, B \cup {z}) = f[z] + Total(f, B)
          BY <5>2, <5>3, <5>5, TotalAdds
        <5> QED
          BY <3>6, <3>7, <5>2, <5>3, <5>4, <5>6
      <4> QED
        BY <4>1, <4>2, <4>3
    <3>9. Total(f, Of(t)) \in Nat
      BY <1>1
    <3>10. Total(f, Of(t)) <= 2 * Total(g, t)
      <4> DEFINE a == Total(f, Of(t))  b == Total(f, A)  c == Total(g, u)  d == Total(g, t)  e == g[y]
      <4>1. a \in Nat /\ b \in Nat /\ c \in Nat /\ e \in Nat /\ d = e + c /\ b <= 2 * c
            /\ a <= b + 2 * e
        BY <3>2, <3>3, <3>6, <3>7, <3>8, <3>9
      <4> HIDE DEF a, b, c, d, e
      <4>2. a <= 2 * d
        BY <4>1
      <4> QED
        BY <4>2 DEF a, d
    <3> QED
      BY <3>10
  <2> QED
    BY <2>1, <2>2
<1> HIDE DEF P
<1>3. T \in P
  BY <1>2, SubsetInduction
<1>4. Total(f, Of(T)) <= 2 * Total(g, T)
  BY <1>3 DEF P
<1>5. Of(T) = S
  OBVIOUS
<1> QED
  BY <1>4, <1>5

LEMMA PairDepthBounds ==
    ASSUME NEW s \in Seq(Snapshots), ListsTwice(s), NEW a, NEW b
    PROVE  PairTotal(s, a, b) <= 2 * PairDepth(s, a, b)
<1> DEFINE n == Len(s)
           of == OfPair(s, a, b)
           ids == {s[i].pool : i \in of}
           same(id) == {s[i].liquidity : i \in {j \in of : s[j].pool = id}}
           deepest == [id \in ids |-> Max(same(id))]
           liquidity == [i \in of |-> s[i].liquidity]
           place == [i \in of |-> s[i].pool]
<1>1. n \in Nat /\ DOMAIN s = 1..n /\ \A i \in 1..n : s[i] \in Snapshots
  OBVIOUS
<1>2. of \subseteq 1..n /\ \A i \in of : s[i].liquidity \in Nat
  BY <1>1 DEF OfPair, Trades, Snapshots
<1>3. IsFiniteSet(of)
  BY <1>1, <1>2, FS_Interval, FS_Subset, 1 \in Int, n \in Int
<1>4. PairTotal(s, a, b) = Total(liquidity, of)
  BY DEF PairTotal, Total
<1>5. PairDepth(s, a, b) = Total(deepest, ids)
  BY DEF PairDepth, Total
<1>6. \A i, j, k \in of : s[i].pool = s[j].pool /\ s[j].pool = s[k].pool
                            => i = j \/ j = k \/ i = k
  BY <1>2 DEF ListsTwice
<1> HIDE DEF of, n
<1>7. \A i \in of : place[i] = s[i].pool /\ s[i].pool \in ids /\ liquidity[i] = s[i].liquidity
  OBVIOUS
<1>8. place \in Surjection(of, ids)
  BY DEF Surjection
<1>9. IsFiniteSet(ids)
  <2> HIDE DEF ids, place
  <2> QED
    BY <1>3, <1>8, FS_Surjection
<1>10. ASSUME NEW i \in of
       PROVE  deepest[s[i].pool] \in Nat /\ s[i].liquidity <= deepest[s[i].pool]
  <2> DEFINE id == s[i].pool  V == same(id)
  <2>1. s[i].liquidity \in V /\ V \subseteq Nat
    BY <1>2
  <2>2. \E top \in Nat : \A v \in V : v <= top
    <3> DEFINE D == {j \in of : s[j].pool = id}
    <3>1. \A j, k, l \in D : j = k \/ k = l \/ j = l
      BY <1>6
    <3>2. i \in D /\ \A j \in D : s[j].liquidity \in Nat
      BY <1>2
    <3>3. V = {s[j].liquidity : j \in D}
      OBVIOUS
    <3> HIDE DEF D, V
    <3>4. CASE \A j \in D : j = i
      BY <3>2, <3>3, <3>4
    <3>5. ASSUME NEW j \in D, j # i PROVE \E top \in Nat : \A v \in V : v <= top
      <4>1. \A k \in D : k = i \/ k = j
        BY <3>1, <3>2, <3>5
      <4>2. s[i].liquidity \in Nat /\ s[j].liquidity \in Nat
        BY <3>2
      <4>3. CASE s[i].liquidity <= s[j].liquidity
        BY <3>3, <4>1, <4>2, <4>3
      <4>4. CASE s[j].liquidity <= s[i].liquidity
        BY <3>3, <4>1, <4>2, <4>4
      <4> QED
        BY <4>2, <4>3, <4>4
    <3> QED
      BY <3>4, <3>5
  <2>3. PICK top \in Nat : \A v \in V : v <= top
    BY <2>2
  <2>4. V \subseteq 0..top
    <3> HIDE DEF V
    <3> QED
      BY <2>1, <2>3
  <2>5. deepest[id] = Max(V)
    BY <1>7
  <2> HIDE DEF V, id
  <2>6. Max(V) \in V /\ \A v \in V : v <= Max(V)
    BY <2>1, <2>4, GreatestOf, 0 \in Int, top \in Int
  <2> QED
    BY <2>1, <2>5, <2>6 DEF id
<1>11. \A id \in ids : \E i \in of : id = s[i].pool
  OBVIOUS
<1> HIDE DEF ids, deepest, liquidity, place
<1>12. Total(liquidity, of) <= 2 * Total(deepest, ids)
  <2>1. \A i \in of : liquidity[i] \in Nat /\ place[i] \in ids /\ liquidity[i] <= deepest[place[i]]
    BY <1>2, <1>7, <1>10
  <2>2. \A id \in ids : deepest[id] \in Nat
    BY <1>10, <1>11
  <2>3. \A i, j, k \in of : place[i] = place[j] /\ place[j] = place[k]
                              => i = j \/ j = k \/ i = k
    BY <1>6, <1>7
  <2> QED
    BY <1>3, <1>9, <2>1, <2>2, <2>3, TwoOfEach
<1> QED
  BY <1>4, <1>5, <1>12
-----------------------------------------------------------------------------
(***************************************************************************)
(* The lists of the service.                                               *)
(***************************************************************************)

LEMMA AgedSnapshot ==
    ASSUME feedTime \in Nat, NEW s \in Snapshots
    PROVE  /\ Aged(s) \in Snapshots
           /\ Aged(s).pool = s.pool /\ Aged(s).observedAt = s.observedAt
           /\ Depth(Aged(s)) = Depth(s)
           /\ s.observedAt <= feedTime => Aged(s).freshness = feedTime - s.observedAt
<1> DEFINE age == IF feedTime > s.observedAt THEN feedTime - s.observedAt ELSE 0
<1>1. Aged(s) = [s EXCEPT !.freshness = age]
  BY DEF Aged
<1>2. s.observedAt \in Nat
  BY DEF Snapshots
<1>3. age \in Nat /\ (s.observedAt <= feedTime => age = feedTime - s.observedAt)
  BY <1>2
<1> HIDE DEF age
<1>4. [s EXCEPT !.freshness = age] \in Snapshots
  BY <1>3 DEF Snapshots
<1>5. /\ [s EXCEPT !.freshness = age].pool = s.pool
      /\ [s EXCEPT !.freshness = age].observedAt = s.observedAt
      /\ [s EXCEPT !.freshness = age].liquidity = s.liquidity
      /\ [s EXCEPT !.freshness = age].freshness = age
  BY DEF Snapshots
<1>6. Depth(Aged(s)) = Depth(s)
  BY <1>1, <1>5 DEF Depth
<1> QED
  BY <1>1, <1>3, <1>4, <1>5, <1>6

LEMMA AgedList ==
    ASSUME feedTime \in Nat, NEW s \in Seq(Snapshots), NEW at
    PROVE  /\ AgedAll(s) \in Seq(Snapshots)
           /\ SeenBy(s, at) => SeenBy(AgedAll(s), at)
           /\ ListsTwice(s) => ListsTwice(AgedAll(s))
           /\ DeepestFirst(s) => DeepestFirst(AgedAll(s))
           /\ SeenBy(s, feedTime) =>
                 \A i \in 1..Len(AgedAll(s)) :
                    AgedAll(s)[i].freshness = feedTime - AgedAll(s)[i].observedAt
<1> DEFINE n == Len(s)  t == AgedAll(s)
<1>1. n \in Nat /\ DOMAIN s = 1..n /\ \A i \in 1..n : s[i] \in Snapshots
  OBVIOUS
<1>2. t = [i \in 1..n |-> Aged(s[i])]
  BY <1>1 DEF AgedAll
<1>3. \A i \in 1..n :
         /\ t[i] \in Snapshots /\ t[i].pool = s[i].pool /\ t[i].observedAt = s[i].observedAt
         /\ Depth(t[i]) = Depth(s[i])
         /\ s[i].observedAt <= feedTime => t[i].freshness = feedTime - s[i].observedAt
  BY <1>1, <1>2, AgedSnapshot
<1> HIDE DEF t
<1>4. t \in Seq(Snapshots) /\ Len(t) = n
  <2> HIDE DEF n
  <2>1. t \in [1..n -> Snapshots]
    BY <1>2, <1>3
  <2> QED
    BY <1>1, <2>1
<1>5. SeenBy(s, at) => SeenBy(t, at)
  BY <1>3, <1>4 DEF SeenBy
<1>6. ListsTwice(s) => ListsTwice(t)
  BY <1>3, <1>4 DEF ListsTwice
<1>7. DeepestFirst(s) => DeepestFirst(t)
  BY <1>3, <1>4 DEF DeepestFirst
<1>8. SeenBy(s, feedTime) => \A i \in 1..Len(t) : t[i].freshness = feedTime - t[i].observedAt
  BY <1>3, <1>4 DEF SeenBy
<1> QED
  BY <1>4, <1>5, <1>6, <1>7, <1>8 DEF t

\* The lists of the two providers, one after the other.
LEMMA JoinedLists ==
    ASSUME NEW at, NEW s, Listed(s, at), NEW t, Listed(t, at)
    PROVE  s \o t \in Seq(Snapshots) /\ SeenBy(s \o t, at) /\ ListsTwice(s \o t)
<1> DEFINE m == Len(s)  n == Len(t)  u == s \o t
<1>1. s \in Seq(Snapshots) /\ t \in Seq(Snapshots) /\ m \in Nat /\ n \in Nat
  BY DEF Listed
<1>2. /\ u \in Seq(Snapshots) /\ Len(u) = m + n
      /\ \A i \in 1..(m + n) : u[i] = IF i <= m THEN s[i] ELSE t[i - m]
  BY <1>1, ConcatProperties
<1>3. /\ \A i \in 1..m : s[i].observedAt <= at
      /\ \A i \in 1..n : t[i].observedAt <= at
      /\ \A i, j \in 1..m : s[i].pool = s[j].pool => i = j
      /\ \A i, j \in 1..n : t[i].pool = t[j].pool => i = j
  BY DEF Listed, SeenBy, ListsOnce
<1> HIDE DEF m, n, u
<1>4. \A i \in 1..(m + n) : IF i <= m THEN i \in 1..m ELSE i - m \in 1..n
  BY <1>1
<1>5. SeenBy(u, at)
  BY <1>2, <1>3, <1>4 DEF SeenBy
<1>6. ASSUME NEW i \in 1..(m + n), NEW j \in 1..(m + n), u[i].pool = u[j].pool, i <= m <=> j <= m
      PROVE  i = j
  <2>1. CASE i <= m
    BY <1>2, <1>3, <1>4, <1>6, <2>1
  <2>2. CASE ~(i <= m)
    <3>1. i - m \in 1..n /\ j - m \in 1..n /\ u[i] = t[i - m] /\ u[j] = t[j - m]
      BY <1>2, <1>4, <1>6, <2>2
    <3>2. i - m = j - m
      BY <1>3, <1>6, <3>1
    <3> QED
      BY <1>1, <3>2
  <2> QED
    BY <2>1, <2>2
<1>7. ListsTwice(u)
  BY <1>2, <1>6 DEF ListsTwice
<1> QED
  BY <1>2, <1>5, <1>7 DEF u

\* What PoolListsAreHonest says of an answer.
Honest(s, at) ==
    LET aggregate == [aggregator |-> TRUE, market |-> None, venue |-> None]
    IN  /\ \A i, j \in DOMAIN s : i < j => Depth(s[i]) >= Depth(s[j])
        /\ \A i \in DOMAIN s : s[i].freshness = at - s[i].observedAt
        /\ \A i \in DOMAIN s :
              LET total == Liquidity(s, Token, s[i].quote, aggregate)
              IN  total # None => total <= 2 * PairDepth(s, Token, s[i].quote)

LEMMA InOrderAndAgeIsHonest ==
    ASSUME NEW s \in Seq(Snapshots), DeepestFirst(s), ListsTwice(s), NEW at,
           \A i \in 1..Len(s) : s[i].freshness = at - s[i].observedAt
    PROVE  Honest(s, at)
<1> DEFINE aggregate == [aggregator |-> TRUE, market |-> None, venue |-> None]
<1>1. DOMAIN s = 1..Len(s)
  OBVIOUS
<1>2. ASSUME NEW quote, Liquidity(s, Token, quote, aggregate) # None
      PROVE  Liquidity(s, Token, quote, aggregate) <= 2 * PairDepth(s, Token, quote)
  <2>1. Liquidity(s, Token, quote, aggregate) = PairTotal(s, Token, quote)
    BY <1>2 DEF Liquidity
  <2>2. PairTotal(s, Token, quote) <= 2 * PairDepth(s, Token, quote)
    BY PairDepthBounds
  <2> QED
    BY <2>1, <2>2, Zenon
<1>3. \A i, j \in DOMAIN s : i < j => Depth(s[i]) >= Depth(s[j])
  BY <1>1, Zenon DEF DeepestFirst
<1>4. \A i \in DOMAIN s : s[i].freshness = at - s[i].observedAt
  BY <1>1, Zenon
<1> QED
  BY <1>2, <1>3, <1>4, Zenon DEF Honest
-----------------------------------------------------------------------------
(***************************************************************************)
(* The lookups and the cache.                                              *)
(***************************************************************************)

\* What a provider's answer to a lookup of a kind is, at a time.
GoodReading(kind, reading, at) ==
    reading.settled = "fulfilled" =>
       /\ kind = "pools" => Listed(reading.value, at)
       /\ kind = "price" => reading.value \in (Nat \ {0}) \cup {None}

\* What OneRightProviderIsEnough says of an answer.
Sound(answer) ==
    Len(answer.sources) >= 2 /\ ~answer.disputed =>
       \A i \in DOMAIN answer.sources : Near(answer.price, answer.sources[i])

LookupFields == {"at", "kind", "since", "result", "answer", "ended"}

LookupHolds(r, at) ==
    /\ DOMAIN r = LookupFields
    /\ r.at = "asked" =>
          /\ DOMAIN r.result = 1..2
          /\ \A i \in 1..2 : GoodReading(r.kind, r.result[i], at)
    /\ r.at = "done" /\ r.kind = "pools" => Honest(r.answer, r.ended)
    /\ r.at = "done" /\ r.kind = "price" => Sound(r.answer)

\* What the cache keeps of a token's pools.
KeptList(snaps, at) ==
    snaps \in Seq(Snapshots) /\ DeepestFirst(snaps) /\ ListsTwice(snaps) /\ SeenBy(snaps, at)

MarketInv ==
    /\ feedTime \in Nat
    /\ DOMAIN feedCache = {"pools", "pool"}
    /\ feedCache["pools"] # None => KeptList(feedCache["pools"].snaps, feedTime)
    /\ DOMAIN lookup = Lookups
    /\ \A l \in Lookups : LookupHolds(lookup[l], feedTime)

LEMMA LaterIsFine ==
    ASSUME NEW at \in Nat
    PROVE  /\ \A snaps : KeptList(snaps, at) => KeptList(snaps, at + 1)
           /\ \A r : LookupHolds(r, at) => LookupHolds(r, at + 1)
<1>1. ASSUME NEW snaps \in Seq(Snapshots), SeenBy(snaps, at) PROVE SeenBy(snaps, at + 1)
  <2> SUFFICES ASSUME NEW i \in 1..Len(snaps) PROVE snaps[i].observedAt <= at + 1
    BY DEF SeenBy
  <2>1. snaps[i].observedAt <= at
    BY <1>1 DEF SeenBy
  <2>2. snaps[i] \in Snapshots
    OBVIOUS
  <2>3. snaps[i].observedAt \in Nat
    BY <2>2 DEF Snapshots
  <2> QED
    BY <2>1, <2>3
<1>2. \A snaps : Listed(snaps, at) => Listed(snaps, at + 1)
  BY <1>1 DEF Listed
<1>3. \A kind, reading : GoodReading(kind, reading, at) => GoodReading(kind, reading, at + 1)
  BY <1>2, Zenon DEF GoodReading
<1>4. \A snaps : KeptList(snaps, at) => KeptList(snaps, at + 1)
  BY <1>1 DEF KeptList
<1>5. \A r : LookupHolds(r, at) => LookupHolds(r, at + 1)
  BY <1>3, Zenon DEF LookupHolds
<1> QED
  BY <1>4, <1>5

\* The other lookups stay as they are.
LEMMA OthersStay ==
    ASSUME MarketInv, NEW l \in Lookups, NEW r, LookupHolds(r, feedTime),
           lookup' = [lookup EXCEPT ![l] = r], feedTime' = feedTime
    PROVE  /\ DOMAIN lookup' = Lookups
           /\ \A m \in Lookups : LookupHolds(lookup'[m], feedTime')
<1>1. DOMAIN lookup = Lookups /\ \A m \in Lookups : LookupHolds(lookup[m], feedTime)
  BY DEF MarketInv
<1>2. DOMAIN lookup' = Lookups /\ lookup'[l] = r /\ \A m \in Lookups : m # l => lookup'[m] = lookup[m]
  BY <1>1
<1>3. ASSUME NEW m \in Lookups PROVE LookupHolds(lookup'[m], feedTime')
  <2>1. CASE m = l
    BY <1>2, <2>1
  <2>2. CASE m # l
    BY <1>1, <1>2, <2>2
  <2> QED
    BY <2>1, <2>2
<1> QED
  BY <1>2, <1>3

LEMMA Returned ==
    ASSUME MarketInv, NEW l \in Lookups, NEW answer, Return(l, answer), feedTime' = feedTime,
           lookup[l].kind = "pools" => Honest(answer, feedTime),
           lookup[l].kind = "price" => Sound(answer)
    PROVE  /\ DOMAIN lookup' = Lookups
           /\ \A m \in Lookups : LookupHolds(lookup'[m], feedTime')
<1> DEFINE r == [lookup[l] EXCEPT !.at = "done", !.answer = answer, !.ended = feedTime,
                                  !.result = <<>>]
<1>1. DOMAIN lookup = Lookups /\ DOMAIN lookup[l] = LookupFields
  BY DEF MarketInv, LookupHolds
<1>2. lookup' = [lookup EXCEPT ![l] = r]
  BY <1>1 DEF Return
<1>3. /\ DOMAIN r = LookupFields /\ r.at = "done" /\ r.answer = answer /\ r.ended = feedTime
      /\ r.kind = lookup[l].kind
  BY <1>1 DEF LookupFields
<1> HIDE DEF r
<1>4. LookupHolds(r, feedTime)
  BY <1>3, Zenon DEF LookupHolds
<1> QED
  BY <1>2, <1>4, OthersStay

LEMMA Failed ==
    ASSUME MarketInv, NEW l \in Lookups, Fail(l), feedTime' = feedTime
    PROVE  /\ DOMAIN lookup' = Lookups
           /\ \A m \in Lookups : LookupHolds(lookup'[m], feedTime')
<1> DEFINE r == [lookup[l] EXCEPT !.at = "failed"]
<1>1. DOMAIN lookup = Lookups /\ DOMAIN lookup[l] = LookupFields
  BY DEF MarketInv, LookupHolds
<1>2. lookup' = [lookup EXCEPT ![l] = r]
  BY <1>1 DEF Fail
<1>3. DOMAIN r = LookupFields /\ r.at = "failed"
  BY <1>1 DEF LookupFields
<1> HIDE DEF r
<1>4. LookupHolds(r, feedTime)
  BY <1>3 DEF LookupHolds
<1> QED
  BY <1>2, <1>4, OthersStay

LEMMA Settled ==
    ASSUME MarketInv, NEW l \in Lookups, lookup[l].at = "asked", NEW i \in 1..2, NEW settled,
           NEW value, Settle(l, i, settled, value), feedTime' = feedTime,
           GoodReading(lookup[l].kind, [settled |-> settled, value |-> value], feedTime)
    PROVE  /\ DOMAIN lookup' = Lookups
           /\ \A m \in Lookups : LookupHolds(lookup'[m], feedTime')
<1> DEFINE reading == [settled |-> settled, value |-> value]
           result == [lookup[l].result EXCEPT ![i] = reading]
           r == [lookup[l] EXCEPT !.result = result]
<1>1. /\ DOMAIN lookup = Lookups /\ DOMAIN lookup[l] = LookupFields
      /\ DOMAIN lookup[l].result = 1..2
      /\ \A j \in 1..2 : GoodReading(lookup[l].kind, lookup[l].result[j], feedTime)
  BY DEF MarketInv, LookupHolds
<1>2. lookup' = [lookup EXCEPT ![l] = r]
  BY <1>1 DEF Settle
<1>3. GoodReading(lookup[l].kind, reading, feedTime)
  OBVIOUS
<1> HIDE DEF reading
<1>4. /\ DOMAIN result = 1..2
      /\ \A j \in 1..2 : GoodReading(lookup[l].kind, result[j], feedTime)
  <2>1. DOMAIN result = 1..2 /\ result[i] = reading
        /\ \A j \in 1..2 : j # i => result[j] = lookup[l].result[j]
    BY <1>1
  <2> HIDE DEF result
  <2> QED
    BY <1>1, <1>3, <2>1
<1> HIDE DEF result
<1>5. /\ DOMAIN r = LookupFields /\ r.at = "asked" /\ r.result = result
      /\ r.kind = lookup[l].kind
  BY <1>1 DEF LookupFields
<1> HIDE DEF r
<1>6. LookupHolds(r, feedTime)
  BY <1>4, <1>5 DEF LookupHolds
<1> QED
  BY <1>2, <1>6, OthersStay

LEMMA DexPriceIs ==
    ASSUME NEW body \in DexBodies, NEW at \in Nat
    PROVE  DexPrice(body, at) \in (Nat \ {0}) \cup {None}
<1> DEFINE pools == DexPools(body, at)
           asBase == {i \in DOMAIN pools : pools[i].base = Token /\ pools[i].price # None}
<1>1. pools \in Seq(Snapshots)
  BY DexPoolsAreListed
<1>2. DexPrice(body, at) = IF asBase = {} THEN None ELSE pools[Min(asBase)].price
  BY DEF DexPrice
<1> HIDE DEF pools
<1>3. Len(pools) \in Nat /\ DOMAIN pools = 1..Len(pools) /\ \A i \in DOMAIN pools : pools[i] \in Snapshots
  BY <1>1
<1>4. CASE asBase # {}
  <2>1. asBase \subseteq 1..Len(pools) /\ 1 \in Int /\ Len(pools) \in Int
    BY <1>3
  <2> HIDE DEF asBase
  <2>2. Min(asBase) \in asBase
    BY <1>4, <2>1, LeastOfTicks
  <2>3. pools[Min(asBase)] \in Snapshots
    BY <1>3, <2>1, <2>2
  <2> QED
    BY <1>2, <1>4, <2>3 DEF Snapshots
<1> QED
  BY <1>2, <1>4

\* What the providers answer to a lookup of any kind.
LEMMA AnswersAreGood ==
    ASSUME feedTime \in Nat, NEW kind
    PROVE  /\ \A body \in DexBodies : GoodReading(kind,
                 [settled |-> "fulfilled", value |-> DexResult(kind, body, feedTime)], feedTime)
           /\ kind # "price" => \A body \in GeckoBodies : GoodReading(kind,
                 [settled |-> "fulfilled", value |-> GeckoResult(kind, body, feedTime)], feedTime)
           /\ kind = "price" => \A p \in GeckoPrices : GoodReading(kind,
                 [settled |-> "fulfilled", value |-> DecimalOrNull(p)], feedTime)
           /\ GoodReading(kind, [settled |-> "rejected", value |-> None], feedTime)
<1>1. ASSUME NEW body \in DexBodies
      PROVE  GoodReading(kind,
                 [settled |-> "fulfilled", value |-> DexResult(kind, body, feedTime)], feedTime)
  <2>1. kind = "pools" => DexResult(kind, body, feedTime) = DexPools(body, feedTime)
    BY DEF DexResult
  <2>2. kind = "price" => DexResult(kind, body, feedTime) = DexPrice(body, feedTime)
    BY DEF DexResult
  <2>3. Listed(DexPools(body, feedTime), feedTime)
    BY DexPoolsAreListed
  <2>4. DexPrice(body, feedTime) \in (Nat \ {0}) \cup {None}
    BY DexPriceIs
  <2> QED
    BY <2>1, <2>2, <2>3, <2>4 DEF GoodReading
<1>2. ASSUME kind # "price", NEW body \in GeckoBodies
      PROVE  GoodReading(kind,
                 [settled |-> "fulfilled", value |-> GeckoResult(kind, body, feedTime)], feedTime)
  <2>1. kind = "pools" => GeckoResult(kind, body, feedTime) = MapList(body, feedTime)
    BY DEF GeckoResult
  <2>2. Listed(MapList(body, feedTime), feedTime)
    BY MapListLists
  <2> QED
    BY <1>2, <2>1, <2>2 DEF GoodReading
<1>3. ASSUME kind = "price", NEW p \in GeckoPrices
      PROVE  GoodReading(kind, [settled |-> "fulfilled", value |-> DecimalOrNull(p)], feedTime)
  <2>1. DecimalOrNull(p) \in (Nat \ {0}) \cup {None}
    BY MarketConstants DEF DecimalOrNull
  <2> QED
    BY <1>3, <2>1 DEF GoodReading
<1>4. GoodReading(kind, [settled |-> "rejected", value |-> None], feedTime)
  BY DEF GoodReading
<1> QED
  BY <1>1, <1>2, <1>3, <1>4

LEMMA ProviderKeeps ==
    ASSUME MarketInv, NEW l \in Lookups, NEW i \in 1..2, ProviderAnswers(l, i)
    PROVE  MarketInv'
<1>1. feedTime \in Nat /\ UNCHANGED <<feedTime, feedCache>> /\ lookup[l].at = "asked"
  BY DEF MarketInv, ProviderAnswers
<1>2. \/ Settle(l, i, "rejected", None)
      \/ \E body \in DexBodies :
            Settle(l, i, "fulfilled", DexResult(lookup[l].kind, body, feedTime))
      \/ /\ lookup[l].kind # "price"
         /\ \E body \in GeckoBodies :
               Settle(l, i, "fulfilled", GeckoResult(lookup[l].kind, body, feedTime))
      \/ /\ lookup[l].kind = "price"
         /\ \E p \in GeckoPrices : Settle(l, i, "fulfilled", DecimalOrNull(p))
  BY Zenon DEF ProviderAnswers
<1>3. \E settled, value :
         /\ Settle(l, i, settled, value)
         /\ GoodReading(lookup[l].kind, [settled |-> settled, value |-> value], feedTime)
  BY <1>1, <1>2, AnswersAreGood, Zenon
<1>4. /\ DOMAIN lookup' = Lookups
      /\ \A m \in Lookups : LookupHolds(lookup'[m], feedTime')
  BY <1>1, <1>3, Settled
<1> QED
  BY <1>1, <1>4 DEF MarketInv

LEMMA StartKeeps ==
    ASSUME MarketInv, NEW l \in Lookups, NEW kind \in Kinds, StartLookup(l, kind)
    PROVE  MarketInv'
<1>1. feedTime \in Nat /\ UNCHANGED <<feedTime, feedCache>>
  BY DEF MarketInv, StartLookup
<1>2. CASE Cached(kind)
  <2> DEFINE found == IF kind = "pools" THEN FromCache(kind) ELSE Head0(FromCache(kind))
             r == [Idle EXCEPT !.at = "done", !.kind = kind, !.since = feedTime,
                               !.ended = feedTime, !.answer = found]
  <2>1. lookup' = [lookup EXCEPT ![l] = r]
    BY <1>2, Zenon DEF StartLookup
  <2>2. kind # "price"
    BY <1>2 DEF Cached
  <2>3. ASSUME kind = "pools" PROVE Honest(found, feedTime)
    <3>1. KeptList(feedCache["pools"].snaps, feedTime)
      BY <1>2, <2>3 DEF Cached, MarketInv
    <3> DEFINE snaps == feedCache["pools"].snaps
    <3>2. found = AgedAll(snaps)
      BY <2>3 DEF FromCache
    <3>3. KeptList(snaps, feedTime)
      BY <3>1
    <3> HIDE DEF snaps
    <3>4. Honest(AgedAll(snaps), feedTime)
      BY <1>1, <3>3, AgedList, InOrderAndAgeIsHonest DEF KeptList
    <3> QED
      BY <3>2, <3>4
  <2>4. kind = "pools" => Honest(found, feedTime)
    BY <2>3
  <2> HIDE DEF found
  <2>5. /\ DOMAIN r = LookupFields /\ r.at = "done" /\ r.kind = kind /\ r.answer = found
        /\ r.ended = feedTime
    BY DEF Idle, LookupFields
  <2> HIDE DEF r
  <2>6. LookupHolds(r, feedTime)
    BY <2>2, <2>4, <2>5, Zenon DEF LookupHolds
  <2>7. /\ DOMAIN lookup' = Lookups
        /\ \A m \in Lookups : LookupHolds(lookup'[m], feedTime')
    BY <1>1, <2>1, <2>6, OthersStay
  <2> QED
    BY <1>1, <2>7 DEF MarketInv
<1>3. CASE ~Cached(kind)
  <2> DEFINE asked == [i \in DOMAIN Providers |-> Waiting]
             r == [Idle EXCEPT !.at = "asked", !.kind = kind, !.since = feedTime,
                               !.result = asked]
  <2>1. lookup' = [lookup EXCEPT ![l] = r]
    BY <1>3, Zenon DEF StartLookup
  <2>2. DOMAIN asked = 1..2 /\ \A i \in 1..2 : asked[i].settled = "waiting"
    BY DEF Providers, Waiting
  <2> HIDE DEF asked
  <2>3. DOMAIN r = LookupFields /\ r.at = "asked" /\ r.result = asked
    BY DEF Idle, LookupFields
  <2> HIDE DEF r
  <2>4. LookupHolds(r, feedTime)
    BY <2>2, <2>3 DEF LookupHolds, GoodReading
  <2>5. /\ DOMAIN lookup' = Lookups
        /\ \A m \in Lookups : LookupHolds(lookup'[m], feedTime')
    BY <1>1, <2>1, <2>4, OthersStay
  <2> QED
    BY <1>1, <2>5 DEF MarketInv
<1> QED
  BY <1>2, <1>3

\* The answers of a lookup of which every provider has answered.
LEMMA ReadingsAreGood ==
    ASSUME MarketInv, NEW l \in Lookups, AllSettled(l)
    PROVE  \A i \in 1..2 : i \in Answered(l) =>
              /\ lookup[l].kind = "pools" => Listed(Reading(l, i), feedTime)
              /\ lookup[l].kind = "price" => Reading(l, i) \in (Nat \ {0}) \cup {None}
<1>1. \A i \in 1..2 : GoodReading(lookup[l].kind, lookup[l].result[i], feedTime)
  BY DEF MarketInv, LookupHolds, AllSettled
<1> QED
  BY <1>1, Zenon DEF GoodReading, Answered, Reading

LEMMA PoolsKeep ==
    ASSUME MarketInv, NEW l \in Lookups, EndPools(l), UNCHANGED feedTime
    PROVE  MarketInv'
<1>1. /\ feedTime \in Nat /\ feedTime' = feedTime /\ lookup[l].kind = "pools" /\ AllSettled(l)
      /\ DOMAIN feedCache = {"pools", "pool"}
  BY DEF MarketInv, EndPools
<1>2. CASE Answered(l) = {}
  <2>1. Fail(l) /\ UNCHANGED feedCache
    BY <1>2, Zenon DEF EndPools
  <2> QED
    BY <1>1, <2>1, Failed DEF MarketInv
<1>3. CASE Answered(l) # {}
  <2> DEFINE all == AgedAll(Collect(l))  answer == DeepestFirstOf(all)
  <2>1. ToCache("pools", answer) /\ Return(l, answer)
    BY <1>3, Zenon DEF EndPools
  <2>2. /\ Collect(l) \in Seq(Snapshots) /\ SeenBy(Collect(l), feedTime)
        /\ ListsTwice(Collect(l))
    <3> DEFINE first == IF 1 \in Answered(l) THEN Reading(l, 1) ELSE <<>>
               second == IF 2 \in Answered(l) THEN Reading(l, 2) ELSE <<>>
    <3>1. Listed(<<>>, feedTime)
      BY DEF Listed, SeenBy, ListsOnce
    <3>2. Listed(first, feedTime) /\ Listed(second, feedTime)
      BY <1>1, <3>1, ReadingsAreGood
    <3>3. Collect(l) = first \o second
      BY DEF Collect
    <3> HIDE DEF first, second
    <3> QED
      BY <3>2, <3>3, JoinedLists
  <2>3. /\ all \in Seq(Snapshots) /\ SeenBy(all, feedTime) /\ ListsTwice(all)
        /\ \A i \in 1..Len(all) : all[i].freshness = feedTime - all[i].observedAt
    <3> DEFINE list == Collect(l)
    <3>1. list \in Seq(Snapshots) /\ SeenBy(list, feedTime) /\ ListsTwice(list)
      BY <2>2
    <3> HIDE DEF list
    <3>2. /\ AgedAll(list) \in Seq(Snapshots) /\ SeenBy(AgedAll(list), feedTime)
          /\ ListsTwice(AgedAll(list))
          /\ \A i \in 1..Len(AgedAll(list)) :
                AgedAll(list)[i].freshness = feedTime - AgedAll(list)[i].observedAt
      BY <1>1, <3>1, AgedList
    <3> QED
      BY <3>2 DEF list
  <2> HIDE DEF all
  <2>4. PICK p : Reordered(answer, all, p)
    BY <2>3, DeepestFirstIs
  <2>5. DeepestFirst(answer)
    BY <2>3, DeepestFirstIs
  <2> HIDE DEF answer
  <2>6. /\ answer \in Seq(Snapshots) /\ Len(answer) = Len(all)
        /\ \A r \in 1..Len(all) : p[r] \in 1..Len(all) /\ answer[r] = all[p[r]]
    BY <2>3, <2>4, ReorderedIsAList
  <2>7. SeenBy(answer, feedTime) /\ ListsTwice(answer)
    BY <2>3, <2>4, ReorderedKeeps
  <2>8. \A i \in 1..Len(answer) : answer[i].freshness = feedTime - answer[i].observedAt
    BY <2>3, <2>6
  <2>9. Honest(answer, feedTime)
    BY <2>5, <2>6, <2>7, <2>8, InOrderAndAgeIsHonest
  <2>10. /\ DOMAIN lookup' = Lookups
         /\ \A m \in Lookups : LookupHolds(lookup'[m], feedTime')
    BY <1>1, <2>1, <2>9, Returned
  <2>11. /\ DOMAIN feedCache' = {"pools", "pool"} /\ feedCache'["pools"].snaps = answer
    BY <1>1, <2>1 DEF ToCache
  <2>12. KeptList(feedCache'["pools"].snaps, feedTime')
    BY <1>1, <2>5, <2>6, <2>7, <2>11 DEF KeptList
  <2> QED
    BY <1>1, <2>10, <2>11, <2>12 DEF MarketInv
<1> QED
  BY <1>2, <1>3

LEMMA PoolKeeps ==
    ASSUME MarketInv, NEW l \in Lookups, EndPool(l), UNCHANGED feedTime
    PROVE  MarketInv'
<1>1. /\ feedTime \in Nat /\ feedTime' = feedTime /\ lookup[l].kind = "pool"
      /\ DOMAIN feedCache = {"pools", "pool"}
  BY DEF MarketInv, EndPool
<1>2. \E answer : Return(l, answer)
  BY Zenon DEF EndPool
<1>3. DOMAIN feedCache' = DOMAIN feedCache /\ feedCache'["pools"] = feedCache["pools"]
  <2>1. UNCHANGED feedCache \/ \E snaps : ToCache("pool", snaps)
    BY Zenon DEF EndPool
  <2>2. ASSUME NEW snaps, ToCache("pool", snaps)
        PROVE  DOMAIN feedCache' = DOMAIN feedCache /\ feedCache'["pools"] = feedCache["pools"]
    BY <1>1, <2>2 DEF ToCache
  <2> QED
    BY <2>1, <2>2
<1>4. /\ DOMAIN lookup' = Lookups
      /\ \A m \in Lookups : LookupHolds(lookup'[m], feedTime')
  BY <1>1, <1>2, Returned
<1> QED
  BY <1>1, <1>3, <1>4 DEF MarketInv

LEMMA ObservationsAre ==
    ASSUME MarketInv, NEW l \in Lookups, AllSettled(l), lookup[l].kind = "price"
    PROVE  Observations(l) \in Seq(Nat \ {0})
<1> DEFINE P == Nat \ {0}
           list(i) == IF i \in Answered(l) /\ Reading(l, i) # None THEN <<Reading(l, i)>> ELSE <<>>
<1>1. \A i \in 1..2 : i \in Answered(l) => Reading(l, i) \in P \cup {None}
  BY ReadingsAreGood
<1> HIDE DEF P
<1>2. ASSUME NEW i \in 1..2 PROVE list(i) \in Seq(P)
  <2>1. \A x \in P : <<x>> \in Seq(P)
    OBVIOUS
  <2>2. <<>> \in Seq(P)
    OBVIOUS
  <2> QED
    BY <1>1, <2>1, <2>2
<1>3. Observations(l) = list(1) \o list(2)
  BY DEF Observations
<1>4. list(1) \in Seq(P) /\ list(2) \in Seq(P)
  BY <1>2
<1> HIDE DEF list
<1> QED
  BY <1>3, <1>4, ConcatProperties DEF P

LEMMA PriceKeeps ==
    ASSUME MarketInv, NEW l \in Lookups, EndPrice(l), UNCHANGED feedTime
    PROVE  MarketInv'
<1> DEFINE prices == Observations(l)
           answer == CrossChecked(prices, lookup[l].since)
<1>1. /\ feedTime \in Nat /\ feedTime' = feedTime /\ lookup[l].kind = "price" /\ AllSettled(l)
      /\ feedCache' = feedCache /\ Return(l, answer)
  BY DEF MarketInv, EndPrice
<1>2. prices \in Seq(Nat \ {0})
  BY <1>1, ObservationsAre
<1> HIDE DEF prices
<1>3. Sound(answer)
  <2>1. /\ answer.sources = prices
        /\ prices # <<>> => answer.price = Median(prices)
        /\ answer.disputed <=> Len(prices) >= 2 /\ MaxDeviationBps(prices) > Tolerance
    BY DEF CrossChecked
  <2> HIDE DEF answer
  <2> SUFFICES ASSUME Len(prices) >= 2, ~answer.disputed
               PROVE  \A i \in DOMAIN prices : Near(answer.price, prices[i])
    BY <2>1 DEF Sound
  <2>2. prices # <<>> /\ DOMAIN prices = 1..Len(prices)
    BY <1>2
  <2>3. ~(MaxDeviationBps(prices) > Tolerance)
    BY <2>1
  <2>4. MaxDeviationBps(prices) \in Nat /\ Tolerance \in Nat
    <3> DEFINE s == SortedPrices(prices)  n == Len(prices)
    <3>1. n \in Nat /\ 1 \in 1..n /\ n \in 1..n
      BY <1>2
    <3>2. /\ Len(s) = n /\ s[1] \in Nat \ {0} /\ s[n] \in Nat \ {0} /\ s[1] <= s[n]
      BY <1>2, <3>1, SortedPricesAre
    <3>3. MaxDeviationBps(prices) = (2 * (s[n] - s[1]) * 10000 + s[1]) \div (2 * s[1])
      BY <3>2 DEF MaxDeviationBps
    <3> DEFINE a == 2 * (s[n] - s[1]) * 10000 + s[1]  b == 2 * s[1]
    <3> HIDE DEF s, n
    <3>4. a \in Nat /\ b \in Nat \ {0}
      BY <3>2
    <3>5. MaxDeviationBps(prices) = a \div b
      BY <3>3
    <3> HIDE DEF a, b
    <3> QED
      BY <3>4, <3>5, Division, MarketConstants
  <2>5. MaxDeviationBps(prices) <= Tolerance
    BY <2>3, <2>4
  <2>6. \A i \in 1..Len(prices) : Near(Median(prices), prices[i])
    BY <1>2, <2>5, UndisputedIsNear
  <2> QED
    BY <2>1, <2>2, <2>6
<1> HIDE DEF answer
<1>4. /\ DOMAIN lookup' = Lookups
      /\ \A m \in Lookups : LookupHolds(lookup'[m], feedTime')
  BY <1>1, <1>3, Returned
<1> QED
  BY <1>1, <1>4 DEF MarketInv

LEMMA MarketStarts == MarketInit => MarketInv
<1> SUFFICES ASSUME MarketInit PROVE MarketInv
  OBVIOUS
<1>1. /\ feedTime = 0 /\ DOMAIN feedCache = {"pools", "pool"} /\ feedCache["pools"] = None
      /\ DOMAIN lookup = Lookups /\ \A l \in Lookups : lookup[l] = Idle
  BY DEF MarketInit
<1>2. DOMAIN Idle = LookupFields /\ Idle.at = "idle"
  BY DEF Idle, LookupFields
<1>3. \A at : LookupHolds(Idle, at)
  BY <1>2 DEF LookupHolds
<1> QED
  BY <1>1, <1>3 DEF MarketInv

LEMMA MarketSteps == MarketInv /\ [MarketNext]_marketVars => MarketInv'
<1> SUFFICES ASSUME MarketInv, [MarketNext]_marketVars PROVE MarketInv'
  OBVIOUS
<1>1. CASE UNCHANGED marketVars
  BY <1>1 DEF marketVars, MarketInv
<1>2. ASSUME NEW l \in Lookups, NEW k \in Kinds, StartLookup(l, k) PROVE MarketInv'
  BY <1>2, StartKeeps
<1>3. ASSUME NEW l \in Lookups, NEW i \in DOMAIN Providers, ProviderAnswers(l, i) PROVE MarketInv'
  <2>1. i \in 1..2
    BY DEF Providers
  <2> QED
    BY <1>3, <2>1, ProviderKeeps
<1>4. ASSUME NEW l \in Lookups, EndPools(l), UNCHANGED feedTime PROVE MarketInv'
  BY <1>4, PoolsKeep
<1>5. ASSUME NEW l \in Lookups, EndPool(l), UNCHANGED feedTime PROVE MarketInv'
  BY <1>5, PoolKeeps
<1>6. ASSUME NEW l \in Lookups, EndPrice(l), UNCHANGED feedTime PROVE MarketInv'
  BY <1>6, PriceKeeps
<1>7. CASE FeedTick
  <2>1. feedTime \in Nat /\ feedTime' = feedTime + 1 /\ UNCHANGED <<feedCache, lookup>>
    BY <1>7 DEF FeedTick, MarketInv
  <2> QED
    BY <2>1, LaterIsFine DEF MarketInv
<1> QED
  BY <1>1, <1>2, <1>3, <1>4, <1>5, <1>6, <1>7, Zenon DEF MarketNext

\* Lists of pools that are honest (service.ts getPoolsForToken, #fromCache, #stamp; proposal.ts
\* #liquidity): whatever the providers answer, however late, and whichever lookups overlap, a
\* list is deepest first with true ages, from the cache too, and the depth a proposal reads
\* off it counts no pool more than twice.
THEOREM PoolListsAreAlwaysHonest == MarketSpec => []PoolListsAreHonest
<1>1. MarketInv => PoolListsAreHonest
  BY Zenon DEF MarketInv, LookupHolds, PoolListsAreHonest, PoolAnswers, Honest
<1> QED
  BY <1>1, MarketStarts, MarketSteps, PTL DEF MarketSpec

\* A price that two providers agree on (service.ts getCrossCheckedPrice, median,
\* maxDeviationBps): for any readings and any tolerance, a price that is not disputed is within
\* the tolerance, rounded, of each provider's own.
THEOREM OneRightProviderIsAlwaysEnough == MarketSpec => []OneRightProviderIsEnough
<1>1. MarketInv => OneRightProviderIsEnough
  BY Zenon DEF MarketInv, LookupHolds, OneRightProviderIsEnough, Sound
<1> QED
  BY <1>1, MarketStarts, MarketSteps, PTL DEF MarketSpec
=============================================================================
