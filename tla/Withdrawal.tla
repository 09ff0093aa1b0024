----------------------------- MODULE Withdrawal -----------------------------
(***************************************************************************)
(* Operator withdrawals: a quote, one submission of it, one signed         *)
(* transfer, and the row that tells the operator what became of it.        *)
(*                                                                         *)
(* A quote is used at most once, so a row and the execution that made it   *)
(* are named after their quote.  An action is the code between two awaits  *)
(* of execute, or between two commits where a death in between matters.    *)
(* The wallet's nonce is shared with the agent's trades, which take none   *)
(* of the locks of this service.                                           *)
(***************************************************************************)
EXTENDS Naturals

CONSTANTS
    Quotes,         \* quote ids, and the rows made from them
    ClientKeys,     \* Idempotency-Key values a client sends
    NoClientKey,    \* a submission without the header
    MaxNonce,       \* bound on transactions the agent sends from the same wallet
    MaxDeaths       \* bound on deaths of the process

ASSUME WithdrawalConstants ==
    /\ NoClientKey \notin ClientKeys \cup Quotes
    /\ MaxNonce \in Nat /\ MaxDeaths \in Nat

VARIABLES
    (* the process *)
    quote,          \* "none", "open", "blocked" (not submittable), "gone"
    waits,          \* where the execution of a quote waits
    unlocked,       \* the vault
    (* wallet_transactions, and the audit row of a failure *)
    status, hash, key,
    unresolved,     \* the failure was recorded with a hash: outcome unknown
    (* the chain *)
    nonce,          \* nonce of the transfer, read with its signing context
    tx,             \* what the network knows of the transfer
    nextNonce,      \* next nonce the chain will mine
    pool,           \* next nonce counting pending transactions
    agent,          \* nonces for which the agent has sent a transaction
    (* bound and history *)
    deaths,
    signed          \* transfers signed for a quote

local == <<quote, waits, unlocked>>
table == <<status, hash, key, unresolved>>
chain == <<tx, nextNonce, pool, agent>>
withdrawalVars == <<local, table, nonce, chain, deaths, signed>>

WithdrawalInit ==
    /\ quote = [q \in Quotes |-> "none"]
    /\ waits = [q \in Quotes |-> "idle"]
    /\ unlocked = FALSE
    /\ status = [q \in Quotes |-> "none"]
    /\ hash = [q \in Quotes |-> FALSE]
    /\ key = [q \in Quotes |-> NoClientKey]
    /\ unresolved = [q \in Quotes |-> FALSE]
    /\ nonce = [q \in Quotes |-> 0]
    /\ tx = [q \in Quotes |-> "unsent"]
    /\ nextNonce = 0 /\ pool = 0 /\ agent = {}
    /\ deaths = 0
    /\ signed = [q \in Quotes |-> 0]

-----------------------------------------------------------------------------
(***************************************************************************)
(* Quotes.                                                                 *)
(***************************************************************************)

\* quote: submittable when the fee is known and the balance covers it
Quote(q, submittable) ==
    /\ quote[q] = "none"
    /\ quote' = [quote EXCEPT ![q] = IF submittable THEN "open" ELSE "blocked"]
    /\ UNCHANGED <<waits, unlocked, table, nonce, chain, deaths, signed>>

\* #pruneQuotes, before every read of the map
Expire(q) ==
    /\ quote[q] \in {"open", "blocked"}
    /\ quote' = [quote EXCEPT ![q] = "gone"]
    /\ UNCHANGED <<waits, unlocked, table, nonce, chain, deaths, signed>>

-----------------------------------------------------------------------------
(***************************************************************************)
(* execute.                                                                *)
(***************************************************************************)

\* Mutant: a repeated key is not looked up.
AnyKey(k) == TRUE

\* #findByIdempotencyKey: a key seen before answers with its row and submits nothing.
FreshKey(k) == k = NoClientKey \/ \A q \in Quotes : key[q] # k

\* The route's checks, the quote's, then the quote is consumed and the row inserted, with
\* no await in between.  Each submission has spent a re-authentication of its own.
Submit(q, k) ==
    /\ unlocked
    /\ FreshKey(k)
    /\ quote[q] = "open"
    /\ quote' = [quote EXCEPT ![q] = "gone"]
    /\ status' = [status EXCEPT ![q] = "prepared"]
    /\ key' = [key EXCEPT ![q] = k]
    /\ waits' = [waits EXCEPT ![q] = "context"]
    /\ UNCHANGED <<unlocked, hash, unresolved, nonce, chain, deaths, signed>>

\* transferSigningContext answers with the pending nonce.
Context(q) ==
    /\ waits[q] = "context"
    /\ nonce' = [nonce EXCEPT ![q] = pool]
    /\ waits' = [waits EXCEPT ![q] = "sign"]
    /\ UNCHANGED <<quote, unlocked, table, chain, deaths, signed>>

\* #fail before anything was signed: no context, a vault that locked meanwhile, a key that
\* does not match its address.
FailUnsigned(q) ==
    /\ waits[q] \in {"context", "sign"}
    /\ status' = [status EXCEPT ![q] = "failed"]
    /\ waits' = [waits EXCEPT ![q] = "idle"]
    /\ UNCHANGED <<quote, unlocked, hash, key, unresolved, nonce, chain, deaths, signed>>

\* useSigningKey, then the hash and status "simulated" in one statement
Sign(q) ==
    /\ waits[q] = "sign" /\ unlocked
    /\ signed' = [signed EXCEPT ![q] = @ + 1]
    /\ hash' = [hash EXCEPT ![q] = TRUE]
    /\ status' = [status EXCEPT ![q] = "simulated"]
    /\ waits' = [waits EXCEPT ![q] = "send"]
    /\ UNCHANGED <<quote, unlocked, key, unresolved, nonce, chain, deaths>>

\* The raw transaction leaves the process and the node takes it: it is pending unless its
\* nonce is mined, and it counts among the pending ones.
Reach(q) ==
    /\ waits[q] = "send"
    /\ tx[q] = "unsent" /\ nonce[q] >= nextNonce
    /\ tx' = [tx EXCEPT ![q] = "pending"]
    /\ pool' = IF nonce[q] = pool THEN pool + 1 ELSE pool
    /\ UNCHANGED <<local, table, nonce, nextNonce, agent, deaths, signed>>

\* broadcastSigned returns: the node has it.
Sent(q) ==
    /\ waits[q] = "send" /\ tx[q] # "unsent"
    /\ status' = [status EXCEPT ![q] = "submitted"]
    /\ waits' = [waits EXCEPT ![q] = "confirm"]
    /\ UNCHANGED <<quote, unlocked, hash, key, unresolved, nonce, chain, deaths, signed>>

\* Mutant: the failure is recorded like one before the signature.
SendFailsQuietly(q) ==
    /\ waits[q] = "send"
    /\ status' = [status EXCEPT ![q] = "failed"]
    /\ waits' = [waits EXCEPT ![q] = "idle"]
    /\ UNCHANGED <<quote, unlocked, hash, key, unresolved, nonce, chain, deaths, signed>>

\* broadcastSigned throws: the node refused it, or its answer was lost.
SendFails(q) ==
    /\ waits[q] = "send"
    /\ status' = [status EXCEPT ![q] = "failed"]
    /\ unresolved' = [unresolved EXCEPT ![q] = TRUE]
    /\ waits' = [waits EXCEPT ![q] = "idle"]
    /\ UNCHANGED <<quote, unlocked, hash, key, nonce, chain, deaths, signed>>

\* What the row becomes when the chain answers
Outcome(q) == IF tx[q] = "mined" THEN "confirmed" ELSE "failed"

\* #awaitConfirmation sees a receipt, or gives up after thirty seconds.
Confirm(q) ==
    /\ waits[q] = "confirm"
    /\ waits' = [waits EXCEPT ![q] = "idle"]
    /\ \/ /\ tx[q] \in {"mined", "reverted"}
          /\ status' = [status EXCEPT ![q] = Outcome(q)]
       \/ UNCHANGED status
    /\ UNCHANGED <<quote, unlocked, hash, key, unresolved, nonce, chain, deaths, signed>>

\* refresh: only a row that is "submitted" and has a hash is read again.
Refresh(q) ==
    /\ status[q] = "submitted" /\ hash[q]
    /\ tx[q] \in {"mined", "reverted"}
    /\ status' = [status EXCEPT ![q] = Outcome(q)]
    /\ UNCHANGED <<local, hash, key, unresolved, nonce, chain, deaths, signed>>

-----------------------------------------------------------------------------
(***************************************************************************)
(* The vault, the agent, the chain and the process.                        *)
(***************************************************************************)

\* unlock, lock and the autolock of the vault (Custody)
VaultFlips ==
    /\ unlocked' = ~unlocked
    /\ UNCHANGED <<quote, waits, table, nonce, chain, deaths, signed>>

\* The executors send a transaction of the agent from the same wallet, with a nonce they
\* read when this one was the next.
TradeSent(n) ==
    /\ n \in nextNonce..pool /\ n \notin agent /\ n < MaxNonce
    /\ agent' = agent \cup {n}
    /\ pool' = IF n = pool THEN pool + 1 ELSE pool
    /\ UNCHANGED <<local, table, nonce, tx, nextNonce, deaths, signed>>

\* A block takes the next nonce: transfers that wait with it are dead, but the one taken.
Mine(taken, as) ==
    /\ nextNonce' = nextNonce + 1
    /\ tx' = [q \in Quotes |->
                IF q = taken THEN as
                ELSE IF tx[q] = "pending" /\ nonce[q] = nextNonce THEN "dropped"
                ELSE tx[q]]
    /\ UNCHANGED <<local, table, nonce, pool, agent, deaths, signed>>

MineTransfer(q, as) == tx[q] = "pending" /\ nonce[q] = nextNonce /\ Mine(q, as)
MineTrade == nextNonce \in agent /\ Mine(NoClientKey, "dropped")

\* The process dies: quotes and executions are gone, the vault is locked.
ProcessDies ==
    /\ deaths < MaxDeaths
    /\ deaths' = deaths + 1
    /\ quote' = [q \in Quotes |-> IF quote[q] = "none" THEN "none" ELSE "gone"]
    /\ waits' = [q \in Quotes |-> "idle"]
    /\ unlocked' = FALSE
    /\ UNCHANGED <<table, nonce, chain, signed>>

WithdrawalNext ==
    \/ \E q \in Quotes, s \in BOOLEAN : Quote(q, s)
    \/ \E q \in Quotes, k \in ClientKeys \cup {NoClientKey} : Submit(q, k)
    \/ \E q \in Quotes :
          \/ Expire(q) \/ Context(q) \/ FailUnsigned(q) \/ Sign(q) \/ Reach(q) \/ Sent(q)
          \/ SendFails(q) \/ Confirm(q) \/ Refresh(q)
    \/ \E q \in Quotes, as \in {"mined", "reverted"} : MineTransfer(q, as)
    \/ \E n \in 0..MaxNonce : TradeSent(n)
    \/ VaultFlips \/ MineTrade \/ ProcessDies

WithdrawalSpec == WithdrawalInit /\ [][WithdrawalNext]_withdrawalVars

-----------------------------------------------------------------------------
(***************************************************************************)
(* Properties                                                              *)
(***************************************************************************)

\* Every column, every local and the chain hold values of their types.
WithdrawalTypeOK ==
    /\ quote \in [Quotes -> {"none", "open", "blocked", "gone"}]
    /\ waits \in [Quotes -> {"idle", "context", "sign", "send", "confirm"}]
    /\ unlocked \in BOOLEAN
    /\ status \in [Quotes -> {"none", "prepared", "simulated", "submitted", "confirmed", "failed"}]
    /\ hash \in [Quotes -> BOOLEAN] /\ unresolved \in [Quotes -> BOOLEAN]
    /\ key \in [Quotes -> ClientKeys \cup {NoClientKey}]
    /\ nonce \in [Quotes -> Nat]
    /\ tx \in [Quotes -> {"unsent", "pending", "mined", "reverted", "dropped"}]
    /\ nextNonce \in Nat /\ pool \in Nat /\ agent \subseteq Nat
    /\ deaths \in Nat /\ signed \in [Quotes -> Nat]

\* An interrupted withdrawal is never a second transaction: a quote is signed for once, and
\* a key names one row, across repeats, overlapping submissions and deaths (withdrawal.ts
\* execute, "never a second transaction").
NeverTwice ==
    \A q \in Quotes :
       /\ signed[q] <= 1
       /\ \A p \in Quotes \ {q} : key[q] # NoClientKey => key[p] # key[q]

\* What the network has seen is on disk with its hash, whenever the process died
\* (withdrawal.ts execute, "Hash on disk before the network sees the transaction").
SeenIsRecorded == \A q \in Quotes : tx[q] # "unsent" => hash[q] /\ status[q] # "prepared"

\* A row that says confirmed was mined, and one that says failed moved nothing, unless the
\* failure was recorded as unresolved (withdrawal.ts execute, refresh, #fail).
RowTellsTheTruth ==
    \A q \in Quotes :
       /\ status[q] = "confirmed" => tx[q] = "mined"
       /\ status[q] = "failed" /\ ~unresolved[q] => tx[q] \in {"unsent", "reverted"}
       /\ status[q] = "submitted" => tx[q] # "unsent"

\* What makes the above inductive: where an execution waits, what its row says and what
\* exists of its transfer agree, and a row outlives the execution that wrote it.
Stages ==
    \A q \in Quotes :
       /\ quote[q] # "gone" => waits[q] = "idle" /\ status[q] = "none"
       /\ status[q] = "none" => waits[q] = "idle" /\ key[q] = NoClientKey
       /\ signed[q] = (IF hash[q] THEN 1 ELSE 0)
       /\ status[q] \in {"none", "prepared"} => ~hash[q]
       /\ waits[q] \in {"context", "sign"} => status[q] = "prepared"
       /\ waits[q] = "send" => status[q] = "simulated"
       /\ waits[q] = "confirm" => status[q] \in {"submitted", "confirmed", "failed"} /\ tx[q] # "unsent"
       /\ status[q] \in {"simulated", "submitted", "confirmed"} => hash[q]
=============================================================================
