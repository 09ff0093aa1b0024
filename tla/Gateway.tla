------------------------------ MODULE Gateway ------------------------------
(***************************************************************************)
(* The gateway's own requests: tokens and their revocation (tokens.ts,     *)
(* auth.ts, admin.ts), the guard in front of every proxy (proxy.ts,        *)
(* ratelimit.ts, quota.ts and the counters of hub.ts), the proxies         *)
(* (rpc.ts, market.ts, inference.ts) with their cache (cache.ts), and the  *)
(* upgrade to a socket (index.ts). One worker serves each request; other   *)
(* requests run at every await, so a request is one action per stretch     *)
(* between two awaits. The hub runs one event at a time.                   *)
(*                                                                         *)
(* Time is the UTC day. Metering and headers are left out.                 *)
(***************************************************************************)
EXTENDS Integers, Sequences, FiniteSets

CONSTANTS Absent,        \* no such row, entry, reply or number
          Requests,      \* requests that may arrive, each once
          Tokens,        \* installation tokens that may be minted
          InstallOf,     \* token -> its installation
          Cap,           \* quotaLimits: kind -> requests a day
          Retention,     \* USAGE_RETENTION_DAYS
          Reads,         \* calls (method and parameters) the allowlist of the chain has
          Ttl,           \* call -> CACHE_TTL_SECONDS of its method, 0 for never
          MaxBatch,      \* MAX_BATCH
          RpcBodies,     \* bodies of /v1/rpc: [batch, calls], or Absent for no JSON-RPC
          MarketQueries, \* [route, name] of /v1/market, or Absent for a malformed one;
                         \* the name is all the caller spells out: source, chain,
                         \* address, pool or text, timeframe and limit
          Folded,        \* name -> the name in lower case
          MaxDay         \* bound: the last day

VARIABLES day,
          tokenRow,      \* install_tokens: token -> its row, or Absent
          req,           \* each request and how far it is
          usage,         \* quota_usage: [day, install, kind] -> [used, rejected]
          cache,         \* the proxies' cache: what is kept, by key
          puts,          \* puts left to waitUntil
          sock,          \* the hub's open sockets
          revoke         \* the revocation under way

gatewayVars == <<day, tokenRow, req, usage, cache, puts, sock, revoke>>

RequestKinds == {"rpc", "market", "inference", "ws"}

ASSUME GatewayConstants ==
    /\ Retention \in Nat \ {0} /\ MaxBatch \in Nat /\ MaxDay \in Nat
    /\ Cap \in [RequestKinds -> Nat]
    /\ IsFiniteSet(Requests) /\ Absent \notin Nat

\* A body that is no batch is one call.
ASSUME RequestBodies ==
    \A body \in RpcBodies \ {Absent} :
        /\ body.calls \in Seq({body.calls[n] : n \in DOMAIN body.calls})
        /\ body.batch \/ Len(body.calls) = 1

Scopes == {"telegram", "rpc", "market", "inference"}
DefaultScopes == Scopes \ {"inference"}
ScopeOf(kind) == IF kind = "ws" THEN "telegram" ELSE kind
Installs == {InstallOf[t] : t \in Tokens}

-----------------------------------------------------------------------------
(* Tokens.                                                                 *)

\* authenticateInstallToken, then the scope of the route.
Authentic(t, kind) ==
    /\ tokenRow[t] # Absent
    /\ ~tokenRow[t].revoked
    /\ tokenRow[t].expires > day
    /\ ScopeOf(kind) \in tokenRow[t].scopes

\* mintInstallToken: a new row, beside the others of the installation.
Mint(t) ==
    /\ tokenRow[t] = Absent
    /\ \E expires \in {day + 1, MaxDay + 1}, scopes \in {DefaultScopes, Scopes} :
          tokenRow' = [tokenRow EXCEPT ![t] = [revoked |-> FALSE, expires |-> expires,
                                               scopes |-> scopes]]
    /\ UNCHANGED <<day, req, usage, cache, puts, sock, revoke>>

RevokeCounts(i) ==
    /\ revoke.at = "idle"
    /\ \E t \in Tokens : InstallOf[t] = i /\ tokenRow[t] # Absent
    /\ revoke' = [at |-> "known", install |-> i]
    /\ UNCHANGED <<tokenRow, sock>>

RevokeRows(i) ==
    tokenRow' = [t \in Tokens |->
                    IF InstallOf[t] = i /\ tokenRow[t] # Absent
                    THEN [tokenRow[t] EXCEPT !.revoked = TRUE] ELSE tokenRow[t]]

CloseSockets(i) == sock' = {s \in sock : s.install # i}

\* Mutant: the sockets are closed before the rows are updated.
RevokeClosesFirst(i) ==
    /\ revoke.install = i
    /\ \/ /\ revoke.at = "known" /\ revoke' = [revoke EXCEPT !.at = "updated"]
          /\ CloseSockets(i) /\ UNCHANGED tokenRow
       \/ /\ revoke.at = "updated" /\ revoke' = [revoke EXCEPT !.at = "closed"]
          /\ RevokeRows(i)
          /\ sock' = {[s EXCEPT !.early = @ \/ s.install = i] : s \in sock}

\* revoke: the rows first, then the hub is asked to close the sockets. When the hub
\* fails the rows are revoked and the sockets stay.
RevokeStep(i) ==
    /\ revoke.install = i
    /\ \/ /\ revoke.at = "known" /\ revoke' = [revoke EXCEPT !.at = "updated"]
          /\ RevokeRows(i)
          /\ sock' = {[s EXCEPT !.early = @ \/ s.install = i] : s \in sock}
       \/ /\ revoke.at = "updated"
          /\ \/ revoke' = [revoke EXCEPT !.at = "closed"] /\ CloseSockets(i)
             \/ revoke' = [revoke EXCEPT !.at = "hub failed"] /\ UNCHANGED sock
          /\ UNCHANGED tokenRow

Revoke ==
    /\ \E i \in Installs : RevokeCounts(i) \/ RevokeStep(i)
    /\ UNCHANGED <<day, req, usage, cache, puts>>

-----------------------------------------------------------------------------
(* Quotas, in the hub.                                                     *)

UsageOf(d, i, k) == IF <<d, i, k>> \in DOMAIN usage THEN usage[<<d, i, k>>]
                    ELSE [used |-> 0, rejected |-> 0]

\* consumeQuota: the cap is compared with the count before this request.
Allowed(d, i, k) == UsageOf(d, i, k).used < Cap[k]

ConsumeQuota(d, i, k) ==
    LET row == UsageOf(d, i, k)
        next == IF Allowed(d, i, k) THEN [row EXCEPT !.used = @ + 1]
                ELSE [row EXCEPT !.rejected = @ + 1]
    IN  usage' = [x \in DOMAIN usage \cup {<<d, i, k>>} |->
                     IF x = <<d, i, k>> THEN next ELSE usage[x]]

\* Mutant: the cutoff is a day late.
PurgeTheDayBefore ==
    /\ \E x \in DOMAIN usage : x[1] < day - Retention + 1
    /\ usage' = [x \in {y \in DOMAIN usage : y[1] >= day - Retention + 1} |-> usage[x]]
    /\ UNCHANGED <<day, tokenRow, req, cache, puts, sock, revoke>>

\* purgeUsage, from the cron.
PurgeUsage ==
    /\ \E x \in DOMAIN usage : x[1] < day - Retention
    /\ usage' = [x \in {y \in DOMAIN usage : y[1] >= day - Retention} |-> usage[x]]
    /\ UNCHANGED <<day, tokenRow, req, cache, puts, sock, revoke>>

-----------------------------------------------------------------------------
(* A request, up to the guard.                                             *)

NoRequest == [at |-> "idle", kind |-> Absent, token |-> Absent, body |-> Absent,
              now |-> 0, admitted |-> Absent, cached |-> FALSE, answer |-> Absent]

Install(r) == InstallOf[req[r].token]

\* The request ends without an answer of the proxy.
Refused == [NoRequest EXCEPT !.at = "refused"]

\* What may be asked: an inference body is its messages; the upgrade has none.
Bodies(kind) == CASE kind = "rpc" -> RpcBodies
                  [] kind = "market" -> MarketQueries
                  [] kind = "inference" -> {Absent, "messages"}
                  [] kind = "ws" -> {"upgrade"}

Arrive(r, kind, t) ==
    /\ req[r].at = "idle"
    /\ \E body \in Bodies(kind) :
          req' = [req EXCEPT ![r] = [NoRequest EXCEPT !.at = "sent", !.kind = kind,
                                                      !.token = t, !.body = body]]
    /\ UNCHANGED <<day, tokenRow, usage, cache, puts, sock, revoke>>

\* The checks of /v1/rpc: JSON-RPC, a batch of a size that is served, and every method
\* on the allowlist of the chain.
ValidRpc(body) ==
    /\ body # Absent
    /\ Len(body.calls) \in 1..MaxBatch
    /\ \A n \in DOMAIN body.calls : body.calls[n].call \in Reads

\* The five market routes: a chain, an address or a pool, a source, a size.
ValidMarket(query) == query # Absent

\* A provider is configured and the body holds messages.
ValidInference(body) == body # Absent

Valid(kind, body) == CASE kind = "rpc" -> ValidRpc(body)
                       [] kind = "market" -> ValidMarket(body)
                       [] kind = "inference" -> ValidInference(body)
                       [] kind = "ws" -> TRUE

\* requireInstall and the route's checks. A proxy's clock is read before the limiter.
Authenticate(r) ==
    /\ req[r].at = "sent"
    /\ req' = [req EXCEPT ![r] =
          IF Authentic(@.token, @.kind) /\ Valid(@.kind, @.body)
          THEN [@ EXCEPT !.at = "checked", !.now = day] ELSE Refused]
    /\ UNCHANGED <<day, tokenRow, usage, cache, puts, sock, revoke>>

\* allow: a binding that is absent, or that fails, lets everything pass.
Allow(r, now) ==
    /\ req[r].at = "checked"
    /\ \/ req' = [req EXCEPT ![r].at = "limited", ![r].now = now]
       \/ req' = [req EXCEPT ![r] = Refused]
    /\ UNCHANGED <<day, tokenRow, usage, cache, puts, sock, revoke>>

\* The burst limiter of the proxies.
Burst(r) == req[r].kind # "ws" /\ Allow(r, req[r].now)

\* That of the upgrade, and its subprotocol. Only then is the clock read.
UpgradeBurst(r) == req[r].kind = "ws" /\ Allow(r, day)

\* The call to the hub: the request is counted on the day it was told.
Spend(r) ==
    /\ req[r].at = "limited"
    /\ LET d == req[r].now
           k == req[r].kind
       IN  /\ ConsumeQuota(d, Install(r), k)
           /\ req' = [req EXCEPT ![r] =
                 IF Allowed(d, Install(r), k)
                 THEN [@ EXCEPT !.at = "admitted", !.admitted = d] ELSE Refused]
    /\ UNCHANGED <<day, tokenRow, cache, puts, sock, revoke>>

\* guardProxy, and the quota of connects.
Guard(r) == req[r].kind # "ws" /\ Spend(r)
UpgradeQuota(r) == req[r].kind = "ws" /\ Spend(r)

\* The hub takes the socket and closes the installation's others.
Accept(r) ==
    /\ req[r].at = "admitted" /\ req[r].kind = "ws"
    /\ sock' = {s \in sock : s.install # Install(r)}
                 \cup {[install |-> Install(r), early |-> FALSE]}
    /\ req' = [req EXCEPT ![r].at = "served"]
    /\ UNCHANGED <<day, tokenRow, usage, cache, puts, revoke>>

-----------------------------------------------------------------------------
(* The proxies.                                                            *)

\* Mutant: the key leaves out the route.
NameKey(query) == <<"market", Folded[query.name]>>

\* What a market query is kept under. Addresses are lower-cased, while the provider is
\* asked with the caller's spelling, and Solana's addresses differ by case: two queries
\* may have one key.
MarketKey(query) == <<"market", query.route, Folded[query.name]>>

\* The key of a request that is cached: a single call of an idempotent method, or any
\* market query.
Key(r) ==
    CASE req[r].kind = "rpc" /\ ~req[r].body.batch /\ Ttl[req[r].body.calls[1].call] > 0
            -> <<"rpc", req[r].body.calls[1].call>>
      [] req[r].kind = "market" -> MarketKey(req[r].body)
      [] OTHER -> Absent

\* The cached value under the caller's own id.
FromStore(r) ==
    IF req[r].kind = "rpc"
    THEN << [id |-> req[r].body.calls[1].id, value |-> cache[Key(r)]] >>
    ELSE << [id |-> Absent, value |-> cache[Key(r)]] >>

\* The cache is read. Without a key, or when the store fails, it is a miss.
Look(r) ==
    /\ req[r].at = "admitted" /\ req[r].kind # "ws"
    /\ \/ /\ Key(r) # Absent /\ Key(r) \in DOMAIN cache
          /\ req' = [req EXCEPT ![r].at = "served", ![r].cached = TRUE,
                                ![r].answer = FromStore(r)]
       \/ req' = [req EXCEPT ![r].at = "asked"]
    /\ UNCHANGED <<day, tokenRow, usage, cache, puts, sock, revoke>>

\* The provider of the calls under their new ids: their numbers in the batch. A reply
\* answers one of them with a result, null or an error; any may be missing, in any
\* order, or there twice.
Said(calls, n) == {[of |-> calls[n].call, what |-> w] : w \in {"result", "null", "error"}}

UpstreamReplies(calls) ==
    LET reply == UNION {{[number |-> n, value |-> v] : v \in Said(calls, n)} :
                           n \in DOMAIN calls}
    IN  UNION {[1..m -> reply] : m \in 0..Len(calls)}

\* byId: the last reply with the number; replyFor: an error where there is none.
NoResponse == [of |-> Absent, what |-> "no response"]

ReplyFor(calls, replies, n) ==
    LET with == {m \in DOMAIN replies : replies[m].number = n}
        last == CHOOSE m \in with : \A k \in with : k <= m
    IN  [id |-> calls[n].id,
         value |-> IF with = {} THEN NoResponse ELSE replies[last].value]

\* Mutant: the replies are taken in the order they came.
RepliesInOrder(calls, replies) ==
    [n \in DOMAIN calls |->
        [id |-> calls[n].id,
         value |-> IF n \in DOMAIN replies THEN replies[n].value ELSE NoResponse]]

RepliesById(calls, replies) == [n \in DOMAIN calls |-> ReplyFor(calls, replies, n)]

\* An answer of the upstream: served, and a result that is not null is put in the
\* cache when the request has a key.
RpcAnswers(r) ==
    /\ req[r].at = "asked" /\ req[r].kind = "rpc"
    /\ \E replies \in UpstreamReplies(req[r].body.calls) :
          LET answer == RepliesById(req[r].body.calls, replies) IN
          /\ req' = [req EXCEPT ![r].at = "served", ![r].answer = answer]
          /\ puts' = IF Key(r) # Absent /\ answer[1].value.what = "result"
                     THEN puts \cup {[key |-> Key(r), value |-> answer[1].value]} ELSE puts
    /\ UNCHANGED <<day, tokenRow, usage, cache, sock, revoke>>

\* What the five routes may yield: a list is data however short, a price is data even
\* where there is none, a pool or candles the provider does not have are a miss.
PoolsForToken(query) == {[of |-> query, what |-> "result"]}
TokenPrice(query) == {[of |-> query, what |-> w] : w \in {"result", "no price"}}
PoolById(query) == {[of |-> query, what |-> w] : w \in {"result", "miss"}}
Ohlcv(query) == {[of |-> query, what |-> w] : w \in {"result", "miss"}}
Search(query) == {[of |-> query, what |-> "result"]}

MarketOutcomes(query) ==
    CASE query.route = "pools"  -> PoolsForToken(query)
      [] query.route = "price"  -> TokenPrice(query)
      [] query.route = "pool"   -> PoolById(query)
      [] query.route = "ohlcv"  -> Ohlcv(query)
      [] query.route = "search" -> Search(query)

\* answer: hits and misses are both kept.
MarketAnswers(r) ==
    /\ req[r].at = "asked" /\ req[r].kind = "market"
    /\ \E v \in MarketOutcomes(req[r].body) :
          /\ req' = [req EXCEPT ![r].at = "served", ![r].answer = << [id |-> Absent, value |-> v] >>]
          /\ puts' = puts \cup {[key |-> Key(r), value |-> v]}
    /\ UNCHANGED <<day, tokenRow, usage, cache, sock, revoke>>

\* runWorkersAi, runUpstream.
InferenceAnswers(r) ==
    /\ req[r].at = "asked" /\ req[r].kind = "inference"
    /\ req' = [req EXCEPT ![r].at = "served"]
    /\ UNCHANGED <<day, tokenRow, usage, cache, puts, sock, revoke>>

\* The caller is told, nothing is kept, the quota stays spent.
Fails(r, kind) ==
    /\ req[r].at = "asked" /\ req[r].kind = kind
    /\ req' = [req EXCEPT ![r].at = "failed"]
    /\ UNCHANGED <<day, tokenRow, usage, cache, puts, sock, revoke>>

\* callUpstream: a rate limit, an error, no JSON, too much of it, no answer in time.
RpcFails(r) == Fails(r, "rpc")

\* providerGet: a rate limit, an error other than not found, no answer in time.
MarketFails(r) == Fails(r, "market")

\* An error, no text in the answer, no answer in time.
InferenceFails(r) == Fails(r, "inference")

\* A put lands, or the store fails and it is lost.
Put(p) ==
    /\ puts' = puts \ {p}
    /\ \/ cache' = [k \in DOMAIN cache \cup {p.key} |-> IF k = p.key THEN p.value ELSE cache[k]]
       \/ UNCHANGED cache
    /\ UNCHANGED <<day, tokenRow, req, usage, sock, revoke>>

\* The seconds of an entry are over.
Expire(k) ==
    /\ cache' = [x \in DOMAIN cache \ {k} |-> cache[x]]
    /\ UNCHANGED <<day, tokenRow, req, usage, puts, sock, revoke>>

\* Midnight. No request is served over two of them.
NextDay ==
    /\ day < MaxDay
    /\ \A r \in Requests : req[r].at \in {"checked", "limited"} => req[r].now >= day
    /\ day' = day + 1
    /\ UNCHANGED <<tokenRow, req, usage, cache, puts, sock, revoke>>

GatewayInit ==
    /\ day = 0
    /\ tokenRow = [t \in Tokens |-> Absent]
    /\ req = [r \in Requests |-> NoRequest]
    /\ usage = << >> /\ cache = << >> /\ puts = {}
    /\ sock = {} /\ revoke = [at |-> "idle", install |-> Absent]

GatewayNext ==
    \/ \E t \in Tokens : Mint(t)
    \/ \E r \in Requests, k \in RequestKinds, t \in Tokens : Arrive(r, k, t)
    \/ \E r \in Requests :
          \/ Authenticate(r) \/ Burst(r) \/ UpgradeBurst(r) \/ Guard(r) \/ UpgradeQuota(r)
          \/ Accept(r) \/ Look(r) \/ RpcAnswers(r) \/ MarketAnswers(r) \/ InferenceAnswers(r)
          \/ RpcFails(r) \/ MarketFails(r) \/ InferenceFails(r)
    \/ \E p \in puts : Put(p)
    \/ \E k \in DOMAIN cache : Expire(k)
    \/ Revoke \/ PurgeUsage \/ NextDay

GatewaySpec == GatewayInit /\ [][GatewayNext]_gatewayVars

-----------------------------------------------------------------------------
\* Two queries whose names are one in lower case.
SameButForCase(p, q) == p.route = q.route /\ Folded[p.name] = Folded[q.name]

\* What a caller of a market query may be told.
MarketAnswer(query, value, cached) ==
    IF cached
    THEN \E p \in MarketQueries \ {Absent} :
            SameButForCase(p, query) /\ value \in MarketOutcomes(p)
    ELSE value \in MarketOutcomes(query)

(* Every call of a served request has a reply of its own: under the id the caller  *)
(* gave, and with what was said of that very call, or that nothing was. What comes *)
(* from the cache is never an error and never null. A market query is answered     *)
(* with what its provider yields for it or, from the cache, with what was yielded  *)
(* for a query of the same route whose name differs at most by case.               *)
(* (rpc.ts byId, replyFor and the put; market.ts answer, its keys at 404, 440,      *)
(* 483, 526 and 573.)                                                               *)
AnswersAreTheirOwn ==
    \A r \in Requests :
        /\ req[r].at = "served" /\ req[r].kind = "rpc" =>
              LET calls == req[r].body.calls IN
              /\ Len(req[r].answer) = Len(calls)
              /\ \A n \in DOMAIN calls :
                    LET a == req[r].answer[n] IN
                    /\ a.id = calls[n].id
                    /\ a.value = NoResponse \/ a.value.of = calls[n].call
                    /\ req[r].cached => a.value.what = "result"
        /\ req[r].at = "served" /\ req[r].kind = "market" =>
              MarketAnswer(req[r].body, req[r].answer[1].value, req[r].cached)

(* The key of a market query identifies it: whoever asks is answered with what the   *)
(* provider yields for the query as it was asked, never for another spelling of it.  *)
(* (market.ts 389, "Identifies the query for the cache, provider included.")          *)
KeyIdentifiesTheQuery ==
    \A r \in Requests :
        req[r].at = "served" /\ req[r].kind = "market" =>
            req[r].answer[1].value \in MarketOutcomes(req[r].body)

(* No installation is served more requests of a kind on one day than its quota,      *)
(* whatever midnight, the housekeeping and other requests do while one is under way. *)
(* (hub.ts consumeQuota, purgeUsage; proxy.ts guardProxy.)                            *)
QuotaHolds ==
    \A d \in 0..MaxDay, i \in Installs, k \in RequestKinds :
        Cardinality({r \in Requests :
            req[r].admitted = d /\ req[r].kind = k /\ Install(r) = i}) <= Cap[k]

(* Once a revocation has closed the sockets, no socket that was open when the rows   *)
(* were revoked is left; one may be, of a request that had passed the check.          *)
(* (admin.ts revoke; hub.ts closeSockets.)                                            *)
SessionsEnd ==
    revoke.at = "closed" => \A s \in sock : s.install = revoke.install => ~s.early
=============================================================================
