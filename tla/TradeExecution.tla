--------------------------- MODULE TradeExecution ---------------------------
(***************************************************************************)
(* One trade from proposal to settlement: AutoTradePipeline.runCycle, the  *)
(* trade row's state machine, the risk gate's persisted verdict, the paper *)
(* and LIVE executors, the chain, and the reconciler a new process runs.   *)
(*                                                                         *)
(* pc and rpc name the point the cycle and the reconciler have reached.    *)
(* At an await point anything else may run: the control plane (through the *)
(* LiveAuthority interface), the chain, the other of the two.  Between two *)
(* await points Node runs nothing else, but each statement commits on its  *)
(* own, so the process may die between any two of them.                    *)
(***************************************************************************)
EXTENDS LiveAuthority, TradeRows, Naturals

CONSTANTS
    MaxTrades,      \* bound on trade rows
    MaxCrashes      \* bound on process deaths

ASSUME TradeConstants == MaxTrades \in Nat /\ MaxCrashes \in Nat

Trades == 1..MaxTrades
NoTrade == 0

VARIABLES
    (* rows of the trades table, action_decisions, cooldowns, fills *)
    status,         \* trades.status; "none" for a row not inserted yet
    kind,           \* trades.kind: an ERC-20 approval or a swap
    rmode,          \* trades.mode
    hash,           \* trades.tx_hash is set
    priced,         \* the quote prices are on the row
    verdict,        \* action_decisions: what the gate persisted
    cooled,         \* rows whose dispatch started the market's cooldown
    fills,          \* fills rows per trade
    (* the process *)
    up,
    pc,             \* the cycle; "idle" when #running is false
    cmode,          \* the mode the cycle read when it got the lock
    cur,            \* the row the cycle is working on
    rpc,            \* the reconciler
    todo,           \* the rows its listInFlight returned and it has not reached
    rcur,           \* the row it is settling
    lpLock,         \* the liquidity pipeline holds the cycle lock
    (* the world *)
    net,            \* what has become of the trade's transaction
    (* history, read by properties only *)
    signatures,     \* times the key was used for the row
    torn,           \* rows whose process died between the ledger and the row
    orphans,        \* rows whose process died while a cycle worked on them
    crashes

rows  == <<status, kind, rmode, hash, priced, verdict, cooled, fills>>
proc  == <<up, pc, cmode, cur>>
recon == <<rpc, todo, rcur>>
hist  == <<signatures, torn, orphans, crashes>>
tvars == <<rows, proc, recon, lpLock, net, hist>>
vars  == <<laVars, tvars>>

\* TradeStore.#transition: an illegal move throws and writes nothing.
Transition(t, s) ==
    /\ s \in TRANSITIONS(status[t])
    /\ status' = [status EXCEPT ![t] = s]

\* TradeStore.listInFlight
InFlight == {t \in Trades : status[t] \in {"dispatched", "signed", "broadcast"}}

Awaits == {"idle", "queued", "deciding", "approved", "preparing", "broadcasting", "awaiting"}
Pcs == Awaits \cup {"proposed", "gated", "allowed", "priced", "dispatched", "cooled",
                    "signing", "sending", "booking", "row"}

\* The event loop is free: neither the cycle nor the reconciler is between two awaits.
CycleWaits == pc \in Awaits
ReconcilerWaits == rpc \in {"idle", "scan"}
Free == up /\ CycleWaits /\ ReconcilerWaits

Init ==
    /\ LAInit
    /\ status = [t \in Trades |-> "none"]
    /\ kind = [t \in Trades |-> "swap"]
    /\ rmode = [t \in Trades |-> "PAPER"]
    /\ hash = [t \in Trades |-> FALSE]
    /\ priced = [t \in Trades |-> FALSE]
    /\ verdict = [t \in Trades |-> "none"]
    /\ cooled = {}
    /\ fills = [t \in Trades |-> 0]
    /\ up = TRUE
    /\ pc = "idle" /\ cmode = "PAPER" /\ cur = NoTrade
    /\ rpc = "idle" /\ todo = {} /\ rcur = NoTrade
    /\ lpLock = FALSE
    /\ net = [t \in Trades |-> "none"]
    /\ signatures = [t \in Trades |-> 0]
    /\ torn = {} /\ orphans = {}
    /\ crashes = 0

-----------------------------------------------------------------------------
(***************************************************************************)
(* The cycle, up to the risk verdict.                                      *)
(***************************************************************************)

\* Where every return of #run leads: the lock is released and #running cleared; the
\* cycle's locals go.
End ==
    /\ pc' = "idle"
    /\ cur' = NoTrade
    /\ cmode' = "PAPER"

\* runCycle: a second cycle is refused outright, the first one queues for the lock.
StartCycle ==
    /\ Free /\ pc = "idle"
    /\ pc' = "queued"
    /\ UNCHANGED <<laVars, rows, up, cmode, cur, recon, lpLock, net, hist>>

\* #run: the mode is read once, the switches are read once, research begins.
AcquireLock ==
    /\ Free /\ pc = "queued" /\ ~lpLock
    /\ \/ /\ estop \/ paused
          /\ UNCHANGED status
          /\ End
       \/ /\ ~estop /\ ~paused
          /\ cmode' = mode
          /\ pc' = "deciding"
          /\ UNCHANGED <<status, cur>>
    /\ UNCHANGED <<laVars, kind, rmode, hash, priced, verdict, cooled, fills, up, recon,
                   lpLock, net, signatures, torn, orphans, crashes>>

\* Research, the trader or the builder came back with nothing to do.
NoProposal ==
    /\ Free /\ pc = "deciding"
    /\ UNCHANGED status
    /\ End
    /\ UNCHANGED <<laVars, kind, rmode, hash, priced, verdict, cooled, fills, up, recon,
                   lpLock, net, signatures, torn, orphans, crashes>>

\* trades.propose; an approval is proposed first, only in a LIVE cycle.
Propose(t, k) ==
    /\ Free
    /\ \/ pc = "deciding" /\ (k = "approve" => cmode = "LIVE" /\ t < MaxTrades)
       \/ pc = "approved" /\ k = "swap"
    /\ status[t] = "none" /\ \A u \in Trades : u < t => status[u] # "none"
    /\ status' = [status EXCEPT ![t] = "proposed"]
    /\ kind' = [kind EXCEPT ![t] = k]
    /\ rmode' = [rmode EXCEPT ![t] = cmode]
    /\ cur' = t
    /\ pc' = "proposed"
    /\ UNCHANGED <<laVars, hash, priced, verdict, cooled, fills, up, cmode, recon, lpLock,
                   net, hist>>

\* Mutant: the gate trusts the mode the cycle read at its start.
MayAllowStaleMode ==
    /\ ~estop /\ ~paused

\* The tier-0 checks of the engine the verdict cannot be positive without: the mode is
\* the runtime's, a LIVE session is in force, neither switch is on.  Every other check
\* may reject as well.
MayAllow ==
    /\ cmode = mode
    /\ cmode = "LIVE" => session
    /\ ~estop /\ ~paused

\* gate.decide: evaluated and persisted in one transaction.
GateDecide ==
    /\ up /\ pc = "proposed"
    /\ \E v \in {"allow", "reject"} :
          /\ v = "allow" => MayAllow
          /\ verdict' = [verdict EXCEPT ![cur] = v]
    /\ pc' = "gated"
    /\ UNCHANGED <<laVars, status, kind, rmode, hash, priced, cooled, fills, up, cmode, cur,
                   recon, lpLock, net, hist>>

\* trades.decide
ApplyVerdict ==
    /\ up /\ pc = "gated"
    /\ \/ /\ verdict[cur] = "allow"
          /\ Transition(cur, "allowed")
          /\ pc' = "allowed"
          /\ UNCHANGED <<cmode, cur>>
       \/ /\ verdict[cur] = "reject"
          /\ Transition(cur, "rejected")
          /\ End
    /\ UNCHANGED <<laVars, kind, rmode, hash, priced, verdict, cooled, fills, up, recon,
                   lpLock, net, signatures, torn, orphans, crashes>>

-----------------------------------------------------------------------------
(***************************************************************************)
(* The executors.                                                          *)
(***************************************************************************)

\* LiveExecutor.#refusal, for a row whose action is LIVE.  The session is not consulted.
Refusal == mode # "LIVE" \/ estop \/ paused

\* #fail of both executors: a row that cannot move to failed stays where it is.
Fail(t) ==
    status' = IF "failed" \in TRANSITIONS(status[t])
                 THEN [status EXCEPT ![t] = "failed"] ELSE status

\* Mutant: the prices stay in memory.
RecordNoPrices ==
    /\ up /\ pc = "allowed" /\ cmode = "LIVE" /\ kind[cur] = "swap"
    /\ pc' = "priced"
    /\ UNCHANGED <<laVars, rows, up, cmode, cur, recon, lpLock, net, hist>>

\* execute: the first look at the switches, and the quote prices onto the row.
RecordQuotePrices ==
    /\ up /\ pc = "allowed" /\ cmode = "LIVE" /\ kind[cur] = "swap"
    /\ IF Refusal
          THEN Fail(cur) /\ End /\ UNCHANGED priced
          ELSE /\ priced' = [priced EXCEPT ![cur] = TRUE]
               /\ pc' = "priced"
               /\ UNCHANGED <<status, cmode, cur>>
    /\ UNCHANGED <<laVars, kind, rmode, hash, verdict, cooled, fills, up, recon, lpLock, net,
                   signatures, torn, orphans, crashes>>

\* trades.markDispatched, of the swap, of the approval (executeApprove) and on paper.
MarkDispatched ==
    /\ up
    /\ \/ pc = "priced"
       \/ pc = "allowed" /\ (cmode = "PAPER" \/ kind[cur] = "approve")
    /\ IF pc = "allowed" /\ cmode = "LIVE" /\ Refusal
          THEN Fail(cur) /\ End
          ELSE /\ Transition(cur, "dispatched")
               /\ pc' = "dispatched"
               /\ UNCHANGED <<cmode, cur>>
    /\ UNCHANGED <<laVars, kind, rmode, hash, priced, verdict, cooled, fills, up, recon,
                   lpLock, net, signatures, torn, orphans, crashes>>

\* gate.markDispatched: an approval starts no cooldown.  A LIVE transaction is then built,
\* simulated and prepared for signing, each an await.
StartCooldown ==
    /\ up /\ pc = "dispatched"
    /\ cooled' = IF kind[cur] = "approve" THEN cooled ELSE cooled \cup {cur}
    /\ pc' = IF cmode = "LIVE" THEN "preparing" ELSE "cooled"
    /\ UNCHANGED <<laVars, status, kind, rmode, hash, priced, verdict, fills, up, cmode, cur,
                   recon, lpLock, net, hist>>

\* PaperExecutor.execute refuses a fill below minAmountOut or an overdraft.
PaperFails ==
    /\ up /\ pc = "cooled"
    /\ Fail(cur)
    /\ End
    /\ UNCHANGED <<laVars, kind, rmode, hash, priced, verdict, cooled, fills, up, recon,
                   lpLock, net, signatures, torn, orphans, crashes>>

\* Build, simulation, fee estimate, fee overrun, wrong target or a locked vault.
PrepareFails ==
    /\ Free /\ pc = "preparing"
    /\ Fail(cur)
    /\ End
    /\ UNCHANGED <<laVars, kind, rmode, hash, priced, verdict, cooled, fills, up, recon,
                   lpLock, net, signatures, torn, orphans, crashes>>

\* Mutant: the switches are not read again.
SignUnchecked ==
    /\ Free /\ pc = "preparing"
    /\ signatures' = [signatures EXCEPT ![cur] = @ + 1]
    /\ pc' = "signing"
    /\ UNCHANGED <<laVars, rows, up, cmode, cur, recon, lpLock, net, torn, orphans, crashes>>

\* #signAndSend: the switches are read again, and the key is used.
Sign ==
    /\ Free /\ pc = "preparing"
    /\ IF Refusal
          THEN Fail(cur) /\ End /\ UNCHANGED signatures
          ELSE /\ signatures' = [signatures EXCEPT ![cur] = @ + 1]
               /\ pc' = "signing"
               /\ UNCHANGED <<status, cmode, cur>>
    /\ UNCHANGED <<laVars, kind, rmode, hash, priced, verdict, cooled, fills, up, recon,
                   lpLock, net, torn, orphans, crashes>>

\* Mutant: the transaction is sent first and recorded afterwards.
MarkSignedAfterSend ==
    /\ up /\ pc = "signing"
    /\ net' = [net EXCEPT ![cur] = "sent"]
    /\ pc' = "sending"
    /\ UNCHANGED <<laVars, rows, up, cmode, cur, recon, lpLock, hist>>

\* trades.markSigned: the hash is on disk before the network sees the transaction.
MarkSigned ==
    /\ up /\ pc = "signing"
    /\ Transition(cur, "signed")
    /\ hash' = [hash EXCEPT ![cur] = TRUE]
    /\ pc' = "sending"
    /\ UNCHANGED <<laVars, kind, rmode, priced, verdict, cooled, fills, up, cmode, cur, recon,
                   lpLock, net, hist>>

\* adapter.broadcast is called.
Send ==
    /\ up /\ pc = "sending"
    /\ net' = [net EXCEPT ![cur] = "sent"]
    /\ pc' = "broadcasting"
    /\ UNCHANGED <<laVars, rows, up, cmode, cur, recon, lpLock, hist>>

\* The node answered, so it has the transaction.
MarkBroadcast ==
    /\ Free /\ pc = "broadcasting" /\ net[cur] # "sent"
    /\ Transition(cur, "broadcast")
    /\ pc' = "awaiting"
    /\ UNCHANGED <<laVars, kind, rmode, hash, priced, verdict, cooled, fills, up, cmode, cur,
                   recon, lpLock, net, hist>>

\* The call failed; the node may or may not have the transaction.  The row stays signed.
BroadcastFails ==
    /\ Free /\ pc = "broadcasting"
    /\ UNCHANGED status
    /\ End
    /\ UNCHANGED <<laVars, kind, rmode, hash, priced, verdict, cooled, fills, up, recon,
                   lpLock, net, signatures, torn, orphans, crashes>>

\* Mutant: the poll has no deadline.
ReceiptNeverTimesOut ==
    /\ Free /\ pc = "awaiting"
    /\ UNCHANGED vars

\* #awaitReceipt runs out of time, or cannot read a receipt: the row stays broadcast.
ReceiptTimesOut ==
    /\ Free /\ pc = "awaiting"
    /\ UNCHANGED status
    /\ End
    /\ UNCHANGED <<laVars, kind, rmode, hash, priced, verdict, cooled, fills, up, recon,
                   lpLock, net, signatures, torn, orphans, crashes>>

\* The chain answered: the row fails, or the fill is booked.
ReceiptArrives ==
    /\ Free /\ pc = "awaiting"
    /\ \/ /\ net[cur] = "reverted"
          /\ Fail(cur)
          /\ End
       \/ /\ net[cur] = "confirmed"
          /\ pc' = IF kind[cur] = "approve" THEN "row" ELSE "booking"
          /\ UNCHANGED <<status, cmode, cur>>
    /\ UNCHANGED <<laVars, kind, rmode, hash, priced, verdict, cooled, fills, up, recon,
                   lpLock, net, signatures, torn, orphans, crashes>>

\* ledger.recordFill, one transaction: from #bookFill and from the paper executor.
RecordFill ==
    /\ up /\ pc \in {"booking", "cooled"}
    /\ fills' = [fills EXCEPT ![cur] = @ + 1]
    /\ pc' = "row"
    /\ UNCHANGED <<laVars, status, kind, rmode, hash, priced, verdict, cooled, up, cmode, cur,
                   recon, lpLock, net, hist>>

\* trades.markFilled; the swap follows an approval in the same cycle.
MarkFilled ==
    /\ up /\ pc = "row"
    /\ Transition(cur, "filled")
    /\ IF kind[cur] = "approve"
          THEN pc' = "approved" /\ UNCHANGED <<cmode, cur>>
          ELSE End
    /\ UNCHANGED <<laVars, kind, rmode, hash, priced, verdict, cooled, fills, up, recon,
                   lpLock, net, signatures, torn, orphans, crashes>>

-----------------------------------------------------------------------------
(***************************************************************************)
(* The reconciler.  It runs at boot, without the lock, while requests are  *)
(* already served; it reads its rows before anything else can run.         *)
(***************************************************************************)

\* The row it reaches next: listInFlight orders by proposed_at.
NextRow(t) == t \in todo /\ \A u \in todo : t <= u

\* A row without a signature on record never reached the network.
ReconcileUnsigned(t) ==
    /\ Free /\ rpc = "scan" /\ NextRow(t)
    /\ status[t] = "dispatched" \/ ~hash[t]
    /\ Transition(t, "failed")
    /\ todo' = todo \ {t}
    /\ UNCHANGED <<laVars, kind, rmode, hash, priced, verdict, cooled, fills, proc, rpc, rcur,
                   lpLock, net, hist>>

\* Mutant: the row is asked about again until the chain answers.
ReconcileUnknownRetries(t) ==
    /\ Free /\ rpc = "scan" /\ NextRow(t)
    /\ status[t] # "dispatched" /\ hash[t]
    /\ UNCHANGED vars

\* No receipt, a pending one, or an error: the row is left for the next restart.
ReconcileUnknown(t) ==
    /\ Free /\ rpc = "scan" /\ NextRow(t)
    /\ status[t] # "dispatched" /\ hash[t]
    /\ todo' = todo \ {t}
    /\ UNCHANGED <<laVars, rows, proc, rpc, rcur, lpLock, net, hist>>

\* Mutant: a row that died in signed is settled as it is.
ReconcileReceiptFromSigned(t) ==
    /\ Free /\ rpc = "scan" /\ NextRow(t)
    /\ status[t] # "dispatched" /\ hash[t]
    /\ net[t] \in {"confirmed", "reverted"}
    /\ UNCHANGED status
    /\ rcur' = t
    /\ rpc' = IF net[t] = "reverted" THEN "fail"
              ELSE IF kind[t] = "swap" /\ priced[t] THEN "booking" ELSE "row"
    /\ UNCHANGED <<laVars, kind, rmode, hash, priced, verdict, cooled, fills, proc, todo,
                   lpLock, net, hist>>

\* Mutant: a reconciled fill settles the row without reaching the ledger.
ReconcileReceiptUnbooked(t) ==
    /\ Free /\ rpc = "scan" /\ NextRow(t)
    /\ status[t] # "dispatched" /\ hash[t]
    /\ net[t] \in {"confirmed", "reverted"}
    /\ IF status[t] = "signed" THEN Transition(t, "broadcast") ELSE UNCHANGED status
    /\ rcur' = t
    /\ rpc' = IF net[t] = "reverted" THEN "fail" ELSE "row"
    /\ UNCHANGED <<laVars, kind, rmode, hash, priced, verdict, cooled, fills, proc, todo,
                   lpLock, net, hist>>

\* The chain has it, so it was broadcast, whatever the row says; the row goes through
\* broadcast, and a fill is booked if there are prices to book it with.
ReconcileReceipt(t) ==
    /\ Free /\ rpc = "scan" /\ NextRow(t)
    /\ status[t] # "dispatched" /\ hash[t]
    /\ net[t] \in {"confirmed", "reverted"}
    /\ IF status[t] = "signed" THEN Transition(t, "broadcast") ELSE UNCHANGED status
    /\ rcur' = t
    /\ rpc' = IF net[t] = "reverted" THEN "fail"
              ELSE IF kind[t] = "swap" /\ priced[t] THEN "booking" ELSE "row"
    /\ UNCHANGED <<laVars, kind, rmode, hash, priced, verdict, cooled, fills, proc, todo,
                   lpLock, net, hist>>

\* The row is done with; the scan goes on.
NextInScan ==
    /\ todo' = todo \ {rcur}
    /\ rpc' = "scan"
    /\ rcur' = NoTrade

ReconcileFailed ==
    /\ up /\ rpc = "fail"
    /\ Transition(rcur, "failed")
    /\ NextInScan
    /\ UNCHANGED <<laVars, kind, rmode, hash, priced, verdict, cooled, fills, proc, lpLock,
                   net, hist>>

ReconcileBook ==
    /\ up /\ rpc = "booking"
    /\ fills' = [fills EXCEPT ![rcur] = @ + 1]
    /\ rpc' = "row"
    /\ UNCHANGED <<laVars, status, kind, rmode, hash, priced, verdict, cooled, proc, todo,
                   rcur, lpLock, net, hist>>

ReconcileFilled ==
    /\ up /\ rpc = "row"
    /\ Transition(rcur, "filled")
    /\ NextInScan
    /\ UNCHANGED <<laVars, kind, rmode, hash, priced, verdict, cooled, fills, proc, lpLock,
                   net, hist>>

ReconcileDone ==
    /\ Free /\ rpc = "scan" /\ todo = {}
    /\ rpc' = "idle"
    /\ UNCHANGED <<laVars, rows, proc, todo, rcur, lpLock, net, hist>>

-----------------------------------------------------------------------------
(***************************************************************************)
(* The world.                                                              *)
(***************************************************************************)

\* A request that was sent reaches the node, at any time or never.
NodeAccepts(t) ==
    /\ CycleWaits \/ ~up
    /\ net[t] = "sent"
    /\ net' = [net EXCEPT ![t] = "pending"]
    /\ UNCHANGED <<laVars, rows, proc, recon, lpLock, hist>>

ChainDecides(t, outcome) ==
    /\ CycleWaits \/ ~up
    /\ net[t] = "pending"
    /\ net' = [net EXCEPT ![t] = outcome]
    /\ UNCHANGED <<laVars, rows, proc, recon, lpLock, hist>>

\* The operator and the clock, through the control plane.
Control ==
    /\ Free
    /\ LANext
    /\ UNCHANGED tvars

\* The liquidity pipeline takes and releases the lock the two share.  The lock is
\* FIFO: a queued trade cycle is not overtaken.
LpTakesLock ==
    /\ Free /\ ~lpLock /\ pc = "idle"
    /\ lpLock' = TRUE
    /\ UNCHANGED <<laVars, rows, proc, recon, net, hist>>

LpReleasesLock ==
    /\ Free /\ lpLock
    /\ lpLock' = FALSE
    /\ UNCHANGED <<laVars, rows, proc, recon, net, hist>>

\* The process dies; LIVE does not survive it.
Crash ==
    /\ up /\ crashes < MaxCrashes
    /\ up' = FALSE
    /\ mode' = "PAPER" /\ session' = FALSE
    /\ End
    /\ rpc' = "idle" /\ todo' = {} /\ rcur' = NoTrade
    /\ lpLock' = FALSE
    /\ crashes' = crashes + 1
    /\ torn' = torn \cup (IF pc = "row" /\ kind[cur] = "swap" THEN {cur} ELSE {})
                    \cup (IF rpc = "row" /\ kind[rcur] = "swap" THEN {rcur} ELSE {})
    /\ orphans' = IF cur = NoTrade THEN orphans ELSE orphans \cup {cur}
    /\ UNCHANGED <<estop, paused, rows, net, signatures>>

\* The new process reads its in-flight rows before it serves anything.
Boot ==
    /\ ~up
    /\ up' = TRUE
    /\ todo' = InFlight
    /\ rpc' = "scan"
    /\ UNCHANGED <<laVars, rows, pc, cmode, cur, rcur, lpLock, net, hist>>

Cycle ==
    \/ AcquireLock \/ NoProposal
    \/ \E t \in Trades, k \in {"approve", "swap"} : Propose(t, k)
    \/ GateDecide \/ ApplyVerdict \/ RecordQuotePrices \/ MarkDispatched \/ StartCooldown
    \/ PaperFails \/ PrepareFails \/ Sign \/ MarkSigned \/ Send
    \/ MarkBroadcast \/ BroadcastFails \/ ReceiptTimesOut \/ ReceiptArrives
    \/ RecordFill \/ MarkFilled

Reconcile ==
    \/ \E t \in Trades :
          ReconcileUnsigned(t) \/ ReconcileUnknown(t) \/ ReconcileReceipt(t)
    \/ ReconcileFailed \/ ReconcileBook \/ ReconcileFilled \/ ReconcileDone

Next ==
    \/ StartCycle \/ Cycle \/ Reconcile
    \/ \E t \in Trades : NodeAccepts(t)
    \/ \E t \in Trades, outcome \in {"confirmed", "reverted"} : ChainDecides(t, outcome)
    \/ Control \/ LpTakesLock \/ LpReleasesLock
    \/ Crash \/ Boot

Spec == Init /\ [][Next]_vars

\* Every await of a cycle and of the reconciler has a timeout of its own, and the
\* liquidity pipeline's cycle ends too.
FairSpec == Spec /\ WF_vars(Cycle) /\ WF_vars(Reconcile) /\ WF_vars(LpReleasesLock)

-----------------------------------------------------------------------------
(***************************************************************************)
(* Properties                                                              *)
(***************************************************************************)

\* Every column and every field holds a value of its type.
TypeOK ==
    /\ mode \in {"PAPER", "LIVE"}
    /\ session \in BOOLEAN /\ estop \in BOOLEAN /\ paused \in BOOLEAN
    /\ status \in [Trades -> Statuses]
    /\ kind \in [Trades -> {"approve", "swap"}]
    /\ rmode \in [Trades -> {"PAPER", "LIVE"}]
    /\ hash \in [Trades -> BOOLEAN]
    /\ priced \in [Trades -> BOOLEAN]
    /\ verdict \in [Trades -> {"none", "allow", "reject"}]
    /\ cooled \subseteq Trades
    /\ fills \in [Trades -> Nat]
    /\ up \in BOOLEAN
    /\ pc \in Pcs
    /\ cmode \in {"PAPER", "LIVE"}
    /\ cur \in Trades \cup {NoTrade}
    /\ rpc \in {"idle", "scan", "fail", "booking", "row"}
    /\ todo \subseteq Trades
    /\ rcur \in Trades \cup {NoTrade}
    /\ lpLock \in BOOLEAN
    /\ net \in [Trades -> {"none", "sent", "pending", "confirmed", "reverted"}]
    /\ signatures \in [Trades -> Nat]
    /\ torn \subseteq Trades /\ orphans \subseteq Trades
    /\ crashes \in Nat

\* The status a process that stands at p is about to write to its row.
Target(p) ==
    CASE p = "gated"        -> {"allowed", "rejected"}
      [] p = "priced"       -> {"dispatched"}
      [] p = "cooled"       -> {"filled", "failed"}
      [] p = "preparing"    -> {"signed", "failed"}
      [] p = "signing"      -> {"signed"}
      [] p = "broadcasting" -> {"broadcast"}
      [] p = "awaiting"     -> {"filled", "failed"}
      [] p = "booking"      -> {"filled"}
      [] p = "row"          -> {"filled"}
      [] p = "fail"         -> {"failed"}
      [] OTHER              -> {}

\* No mark of an executor or of the reconciler is refused by the trade row's state
\* machine, so none throws half-way through a trade (trades.ts #transition): after a
\* crash at any commit, with the reconciler and a new cycle running side by side, the
\* row is in a state the write expects.
MarksAreLegal ==
    /\ cur # NoTrade => Target(pc) \subseteq TRANSITIONS(status[cur])
    /\ rcur # NoTrade => Target(rpc) \subseteq TRANSITIONS(status[rcur])
    /\ \A t \in todo : "failed" \in TRANSITIONS(status[t])

\* The hash is on disk before the network sees the transaction, and a settled LIVE row
\* says what the chain said (live.ts #signAndSend, reconcile).
ChainIsTheTruth ==
    \A t \in Trades :
        /\ net[t] # "none" =>
              hash[t] /\ status[t] \in {"signed", "broadcast", "filled", "failed"}
        /\ status[t] = "filled" /\ rmode[t] = "LIVE" => net[t] = "confirmed"
        /\ status[t] = "failed" /\ hash[t] => net[t] = "reverted"

\* A key was used for a row at most once, only for a LIVE action the gate allowed, with
\* the cooldown started and the prices a restart will need on disk (live.ts execute).
SpentUnderAVerdict ==
    \A t \in Trades : signatures[t] > 0 =>
        /\ signatures[t] = 1
        /\ rmode[t] = "LIVE" /\ verdict[t] = "allow"
        /\ kind[t] = "swap" => t \in cooled /\ priced[t]

\* The ledger holds one fill for each filled swap and none for anything else.  The
\* exception is a row whose process died between recordFill and markFilled, which are
\* two commits (live.ts #bookFill, paper.ts execute).
BooksAgree ==
    \A t \in Trades \ torn :
        (t = cur /\ pc = "row") \/ (t = rcur /\ rpc = "row")
        \/ fills[t] = (IF status[t] = "filled" /\ kind[t] = "swap" THEN 1 ELSE 0)

\* A cycle that ends leaves its row ended too, or named by a hash the chain can be asked
\* about; only the death of the process leaves a row proposed, allowed or dispatched.
NoStrandedRow ==
    \A t \in Trades \ orphans :
        status[t] \in {"proposed", "allowed", "dispatched"} => t = cur

\* A key is never used with a switch on or outside LIVE, although the first look at the
\* switches lies several awaits earlier (live.ts #signAndSend).
StopHolds ==
    [][\A t \in Trades : signatures'[t] # signatures[t] =>
           mode = "LIVE" /\ ~estop /\ ~paused]_vars

\* The executors implement TradeLifecycle.
Phase(s) ==
    CASE s = "none" -> "none"
      [] s \in {"proposed", "allowed", "dispatched"} -> "open"
      [] s \in {"signed", "broadcast"} -> "committed"
      [] s = "filled" -> "filled"
      [] OTHER -> "void"
Lifecycle == INSTANCE TradeLifecycle
    WITH phase <- [t \in Trades |-> Phase(status[t])], chain <- net
ImplementsLifecycle == Lifecycle!LCSpec

\* A cycle always ends and gives the lock back, and so does the reconciler: no await is
\* without a deadline (pipeline.ts runCycle, live.ts #awaitReceipt, reconcile).
CycleEnds == pc # "idle" ~> pc = "idle"
ReconcilerEnds == rpc # "idle" ~> rpc = "idle"
=============================================================================
