------------------------------- MODULE Market -------------------------------
(***************************************************************************)
(* What the runtime reads of the market: the two providers                 *)
(* (market/providers), the service that asks both, keeps their answers for *)
(* half a minute and compares their prices (market/service.ts), and the    *)
(* liquidity figure a proposal takes from it (trading/proposal.ts).        *)
(*                                                                         *)
(* A lookup is asynchronous: the providers answer one after the other, and *)
(* other lookups run meanwhile. A number stands for a decimal string; None *)
(* is null. Symbols, names, volumes and percentages are read by no check   *)
(* and are left out.                                                       *)
(***************************************************************************)
EXTENDS Integers, Sequences, FiniteSets, FiniteSetsExt

CONSTANTS None,            \* null
          Chain, Token,    \* what the lookups are about
          DexBodies,       \* what DexScreener may answer: sequences of rows
          GeckoBodies,     \* what GeckoTerminal may answer
          GeckoPrices,     \* what its price endpoint may answer
          Tolerance,       \* deviationToleranceBps
          CacheTtl,        \* cacheTtlMs, in ticks
          Lookups,         \* lookups, of one kind each
          MaxFeedTime      \* bound: ticks

\* A list of rows, by their places.
IsRows(rows) == Len(rows) \in Nat /\ DOMAIN rows = 1..Len(rows)

\* A row of DexScreener that #mapMany keeps.
Usable(row) == row.wellFormed /\ row.chain = Chain

\* Decimals are numbers, as the schemas of both providers say; None is none. A provider
\* lists a pool of the chain once.
ASSUME MarketConstants ==
    /\ Tolerance \in Nat /\ CacheTtl \in Nat /\ MaxFeedTime \in Nat
    /\ None \notin Int /\ GeckoPrices \subseteq Int
    /\ \A body \in DexBodies \cup GeckoBodies :
          IsRows(body) /\ \A i \in DOMAIN body : {body[i].price, body[i].liquidity} \subseteq Int
    /\ \A body \in DexBodies : \A i, j \in DOMAIN body :
          Usable(body[i]) /\ Usable(body[j]) /\ body[i].pool = body[j].pool => i = j
    /\ \A body \in GeckoBodies : \A i, j \in DOMAIN body :
          body[i].pool = body[j].pool => i = j

Providers == <<"dexscreener", "geckoterminal">>
Kinds == {"pools", "pool", "price"}

VARIABLES feedTime,
          feedCache,       \* #cache, per kind of key: an entry or None
          lookup           \* each lookup: what was asked, answered and returned

marketVars == <<feedTime, feedCache, lookup>>

-----------------------------------------------------------------------------
(* Normalisation.                                                          *)

\* normalizeDecimal, decimalOrNull: zero and anything unparsable are no value.
DecimalOrNull(v) == IF v > 0 THEN v ELSE None

\* numberToDecimal: a zero is a value, a negative number is none.
NumberToDecimal(v) == IF v >= 0 THEN v ELSE None

\* toSnapshot of each provider; neither stamps its rows, so the time of the fetch is
\* the time of the observation.
DexSnapshot(row, at) ==
    [pool |-> row.pool, base |-> row.base, quote |-> row.quote, dex |-> row.dex,
     price |-> DecimalOrNull(row.price), liquidity |-> NumberToDecimal(row.liquidity),
     observedAt |-> at, freshness |-> 0]

GeckoSnapshot(row, at) ==
    [DexSnapshot(row, at) EXCEPT !.liquidity = DecimalOrNull(row.liquidity)]

Depth(s) == IF s.liquidity = None THEN -1 ELSE s.liquidity

\* The rows at some places, in an order: the set of pairs of places of which the first
\* goes before the second.
InOrder(rows, places, order) ==
    LET rank == [i \in places |-> 1 + Cardinality({j \in places : <<j, i>> \in order})]
    IN  [r \in 1..Cardinality(places) |-> rows[CHOOSE i \in places : rank[i] = r]]

\* A stable sort by a number per place.
Ascending(key, places) ==
    {p \in places \X places :
        key[p[1]] < key[p[2]] \/ (key[p[1]] = key[p[2]] /\ p[1] < p[2])}

\* sort(byLiquidityDescending), which is stable.
DeepestFirstOf(snaps) ==
    InOrder(snaps, DOMAIN snaps,
            Ascending([i \in DOMAIN snaps |-> -Depth(snaps[i])], DOMAIN snaps))

Head0(seq) == IF seq = <<>> THEN None ELSE seq[1]

-----------------------------------------------------------------------------
(* The providers.                                                          *)

\* #mapMany: a malformed row, or one of another chain, is dropped.
MapMany(body, at) ==
    LET usable == {i \in DOMAIN body : Usable(body[i])}
    IN  InOrder([i \in usable |-> DexSnapshot(body[i], at)], usable,
                Ascending([i \in usable |-> i], usable))

\* GeckoTerminal is asked for one network; one malformed row spoils the list.
MapList(body, at) ==
    IF \E i \in DOMAIN body : ~body[i].wellFormed THEN <<>>
    ELSE [i \in DOMAIN body |-> GeckoSnapshot(body[i], at)]

DexPools(body, at) == DeepestFirstOf(MapMany(body, at))

\* getTokenPriceUsd of DexScreener: the deepest pool that quotes the token itself.
DexPrice(body, at) ==
    LET pools == DexPools(body, at)
        asBase == {i \in DOMAIN pools : pools[i].base = Token /\ pools[i].price # None}
    IN  IF asBase = {} THEN None ELSE pools[Min(asBase)].price

\* What each provider returns to a lookup.
DexResult(kind, body, at) ==
    CASE kind = "pools" -> DexPools(body, at)
      [] kind = "pool"  -> Head0(MapMany(body, at))
      [] kind = "price" -> DexPrice(body, at)

GeckoResult(kind, body, at) ==
    CASE kind = "pools" -> MapList(body, at)
      [] kind = "pool"  -> Head0(MapList(body, at))

-----------------------------------------------------------------------------
(* The service.                                                            *)

\* #stamp, at the time it is called.
Aged(s) == [s EXCEPT !.freshness = IF feedTime > s.observedAt
                                    THEN feedTime - s.observedAt ELSE 0]
AgedAll(snaps) == [i \in DOMAIN snaps |-> Aged(snaps[i])]

\* #fromCache, where it finds an entry young enough. A price is never cached.
Cached(kind) ==
    /\ kind # "price" /\ feedCache[kind] # None
    /\ feedTime - feedCache[kind].storedAt <= CacheTtl

FromCache(kind) == AgedAll(feedCache[kind].snaps)

\* #toCache. The array is stored, not a copy of it: a sort in place sorts the entry.
ToCache(kind, snaps) ==
    feedCache' = [feedCache EXCEPT ![kind] = [snaps |-> snaps, storedAt |-> feedTime]]

Answered(l) == {i \in DOMAIN Providers : lookup[l].result[i].settled = "fulfilled"}

Reading(l, i) == lookup[l].result[i].value

\* What was found, in the order of the providers: the prices of getCrossCheckedPrice,
\* the readings of getPool.
Observations(l) ==
    LET list(i) == IF i \in Answered(l) /\ Reading(l, i) # None THEN <<Reading(l, i)>> ELSE <<>>
    IN  list(1) \o list(2)

SortedPrices(prices) == InOrder(prices, DOMAIN prices, Ascending(prices, DOMAIN prices))

\* median: of two, the lower.
Median(prices) == SortedPrices(prices)[(Len(prices) - 1) \div 2 + 1]

\* Mutant: the spread is measured against the higher price.
MaxDeviationOfHigh(prices) ==
    LET s == SortedPrices(prices)
        high == s[Len(s)]
    IN  (2 * (high - s[1]) * 10000 + high) \div (2 * high)

\* maxDeviationBps, rounded to the nearest.
MaxDeviationBps(prices) ==
    LET s == SortedPrices(prices)
        low == s[1]
    IN  (2 * (s[Len(s)] - low) * 10000 + low) \div (2 * low)

CrossChecked(prices, since) ==
    [price |-> IF prices = <<>> THEN None ELSE Median(prices),
     sources |-> prices,
     disputed |-> Len(prices) >= 2 /\ MaxDeviationBps(prices) > Tolerance,
     observedAt |-> since]

Idle == [at |-> "idle", kind |-> None, since |-> 0, result |-> <<>>, answer |-> None,
         ended |-> 0]

Waiting == [settled |-> "waiting", value |-> None]

MarketInit ==
    /\ feedTime = 0
    /\ feedCache = [k \in {"pools", "pool"} |-> None]
    /\ lookup = [l \in Lookups |-> Idle]

Return(l, answer) ==
    lookup' = [lookup EXCEPT ![l].at = "done", ![l].answer = answer, ![l].ended = feedTime,
                             ![l].result = <<>>]

Fail(l) == lookup' = [lookup EXCEPT ![l].at = "failed"]

\* A lookup starts: from the cache, or every provider is asked.
StartLookup(l, kind) ==
    /\ lookup[l].at = "idle"
    /\ \/ /\ Cached(kind)
          /\ lookup' = [lookup EXCEPT ![l] =
                [Idle EXCEPT !.at = "done", !.kind = kind, !.since = feedTime,
                             !.ended = feedTime,
                             !.answer = IF kind = "pools" THEN FromCache(kind)
                                        ELSE Head0(FromCache(kind))]]
       \/ /\ ~Cached(kind)
          /\ lookup' = [lookup EXCEPT ![l] =
                [Idle EXCEPT !.at = "asked", !.kind = kind, !.since = feedTime,
                             !.result = [i \in DOMAIN Providers |-> Waiting]]]
    /\ UNCHANGED <<feedTime, feedCache>>

Settle(l, i, settled, value) ==
    lookup' = [lookup EXCEPT ![l].result[i] = [settled |-> settled, value |-> value]]

\* One provider answers, or fails: a rate limit, an error, ten seconds over.
ProviderAnswers(l, i) ==
    /\ lookup[l].at = "asked" /\ lookup[l].result[i].settled = "waiting"
    /\ \/ Settle(l, i, "rejected", None)
       \/ /\ i = 1
          /\ \E body \in DexBodies :
                Settle(l, i, "fulfilled", DexResult(lookup[l].kind, body, feedTime))
       \/ /\ i = 2 /\ lookup[l].kind # "price"
          /\ \E body \in GeckoBodies :
                Settle(l, i, "fulfilled", GeckoResult(lookup[l].kind, body, feedTime))
       \/ /\ i = 2 /\ lookup[l].kind = "price"
          /\ \E p \in GeckoPrices : Settle(l, i, "fulfilled", DecimalOrNull(p))
    /\ UNCHANGED <<feedTime, feedCache>>

AllSettled(l) ==
    /\ lookup[l].at = "asked"
    /\ \A i \in DOMAIN Providers : lookup[l].result[i].settled # "waiting"

\* #collect: nothing but failures is an error, never an empty market.
Collect(l) ==
    LET list(i) == IF i \in Answered(l) THEN Reading(l, i) ELSE <<>>
    IN  list(1) \o list(2)

\* Mutant: the answer is sorted, the entry keeps the order of the providers.
EndPoolsSortsACopy(l) ==
    /\ lookup[l].kind = "pools" /\ AllSettled(l)
    /\ IF Answered(l) = {} THEN Fail(l) /\ UNCHANGED feedCache
       ELSE /\ ToCache("pools", AgedAll(Collect(l)))
            /\ Return(l, DeepestFirstOf(AgedAll(Collect(l))))

\* getPoolsForToken, after the last answer: the array that went into the cache is
\* sorted in place on its way out.
EndPools(l) ==
    /\ lookup[l].kind = "pools" /\ AllSettled(l)
    /\ IF Answered(l) = {} THEN Fail(l) /\ UNCHANGED feedCache
       ELSE /\ ToCache("pools", DeepestFirstOf(AgedAll(Collect(l))))
            /\ Return(l, DeepestFirstOf(AgedAll(Collect(l))))

\* getPool: the first reading with a price; failures are silence.
EndPool(l) ==
    /\ lookup[l].kind = "pool" /\ AllSettled(l)
    /\ LET snaps == AgedAll(Observations(l))
           priced == {i \in DOMAIN snaps : snaps[i].price # None}
       IN  IF snaps = <<>> THEN Return(l, None) /\ UNCHANGED feedCache
           ELSE /\ ToCache("pool", snaps)
                /\ Return(l, snaps[IF priced = {} THEN 1 ELSE Min(priced)])

EndPrice(l) ==
    /\ lookup[l].kind = "price" /\ AllSettled(l)
    /\ Return(l, CrossChecked(Observations(l), lookup[l].since))
    /\ UNCHANGED feedCache

FeedTick ==
    /\ feedTime < MaxFeedTime
    /\ feedTime' = feedTime + 1
    /\ UNCHANGED <<feedCache, lookup>>

MarketNext ==
    \/ \E l \in Lookups, k \in Kinds : StartLookup(l, k)
    \/ \E l \in Lookups, i \in DOMAIN Providers : ProviderAnswers(l, i)
    \/ \E l \in Lookups : (EndPools(l) \/ EndPool(l) \/ EndPrice(l)) /\ UNCHANGED feedTime
    \/ FeedTick

MarketSpec == MarketInit /\ [][MarketNext]_marketVars

-----------------------------------------------------------------------------
(* The liquidity of a proposal's market, from the pools of its token.      *)

Trades(pool, a, b) == {a, b} \subseteq {pool.base, pool.quote} /\ pool.liquidity # None

\* Where the pools of a pair stand in a list.
OfPair(pools, a, b) == {i \in DOMAIN pools : Trades(pools[i], a, b)}

\* #liquidity: an aggregator reaches the pools of the pair together; a venue's quote is
\* measured on its own pool, or on the deepest of the venue's, or not at all.
PairTotal(pools, a, b) ==
    LET liquidity == [i \in OfPair(pools, a, b) |-> pools[i].liquidity]
    IN  MapThenSumSet(LAMBDA i : liquidity[i], OfPair(pools, a, b))

VenueDepth(pools, a, b, quote) ==
    LET exact == {i \in OfPair(pools, a, b) : pools[i].pool = quote.market}
        ofVenue == {i \in OfPair(pools, a, b) : pools[i].dex = quote.venue}
    IN  CASE exact # {}                   -> pools[Min(exact)].liquidity
          [] exact = {} /\ ofVenue # {}   -> Max({pools[i].liquidity : i \in ofVenue})
          [] exact = {} /\ ofVenue = {}   -> None

Liquidity(pools, a, b, quote) ==
    IF ~quote.aggregator THEN VenueDepth(pools, a, b, quote)
    ELSE IF PairTotal(pools, a, b) > 0 THEN PairTotal(pools, a, b) ELSE None

-----------------------------------------------------------------------------
PoolAnswers == {l \in Lookups : lookup[l].at = "done" /\ lookup[l].kind = "pools"}

\* The deepest reading of each pool of the pair, added up.
PairDepth(pools, a, b) ==
    LET of == OfPair(pools, a, b)
        ids == {pools[i].pool : i \in of}
        deepest == [id \in ids |->
                      Max({pools[i].liquidity : i \in {j \in of : pools[j].pool = id}})]
    IN  MapThenSumSet(LAMBDA id : deepest[id], ids)

(* A list of pools is deepest first and every reading in it has its true age, also   *)
(* when it comes from the cache, whose entry is the array an earlier lookup sorted;    *)
(* and the depth a proposal reads off it counts no pool more often than there are      *)
(* providers to list it.                                                               *)
(* (service.ts getPoolsForToken, #fromCache, #toCache, #stamp; proposal.ts #liquidity.) *)
PoolListsAreHonest ==
    \A l \in PoolAnswers :
        LET s == lookup[l].answer
            aggregate == [aggregator |-> TRUE, market |-> None, venue |-> None]
        IN  /\ \A i, j \in DOMAIN s : i < j => Depth(s[i]) >= Depth(s[j])
            /\ \A i \in DOMAIN s : s[i].freshness = lookup[l].ended - s[i].observedAt
            /\ \A i \in DOMAIN s :
                  LET total == Liquidity(s, Token, s[i].quote, aggregate)
                  IN  total # None => total <= 2 * PairDepth(s, Token, s[i].quote)

\* The two prices are apart by no more than the tolerance, rounded.
Near(p, q) ==
    20000 * (IF p > q THEN p - q ELSE q - p) < (2 * Tolerance + 1) * (IF p > q THEN q ELSE p)

(* A price that is not disputed, and that more than one provider gave, is near every *)
(* provider's own: it is right within the tolerance as soon as one of them is.        *)
(* (service.ts getCrossCheckedPrice, median, maxDeviationBps.)                        *)
OneRightProviderIsEnough ==
    \A l \in Lookups :
        lookup[l].at = "done" /\ lookup[l].kind = "price" =>
            LET answer == lookup[l].answer IN
            Len(answer.sources) >= 2 /\ ~answer.disputed =>
                \A i \in DOMAIN answer.sources : Near(answer.price, answer.sources[i])
=============================================================================
