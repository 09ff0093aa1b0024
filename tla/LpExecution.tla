---------------------------- MODULE LpExecution ----------------------------
(***************************************************************************)
(* One liquidity action from proposal to settlement: LiquidityPipeline,    *)
(* the paper and LIVE liquidity executors, the position and P&L books of   *)
(* LiquidityStore, and the reconciler LiquidityService.start runs.         *)
(*                                                                         *)
(* The rows are the trades table TradeExecution uses and the steps up to   *)
(* the receipt are the same; what differs is what a settled row means.  A  *)
(* row changes a position the wallet really holds, the executor books it   *)
(* before it marks the row and the reconciler after it, and the list the   *)
(* reconciler works through is read only when the swap reconciler is done, *)
(* while requests are already served.                                      *)
(***************************************************************************)
EXTENDS LiveAuthority, TradeRows, Naturals, FiniteSetsExt

CONSTANTS
    MaxTrades,      \* bound on trade rows
    MaxCrashes      \* bound on process deaths

ASSUME LpConstants == MaxTrades \in Nat /\ MaxCrashes \in Nat

Trades == 1..MaxTrades
NoTrade == 0

Kinds == {"approve", "add", "remove", "claim"}
Moves == {"add", "remove"}      \* the kinds that change a position
Minted == 2                     \* LP tokens an add mints: enough to remove half of

VARIABLES
    (* rows of the trades table and action_decisions *)
    status, kind, rmode, hash, verdict,
    amount,         \* LP tokens the row mints or burns (route.lpTokens of a removal)
    (* LiquidityStore: lp_positions, lp_pnl *)
    pos,            \* LP tokens on the position row of each mode
    pnl,            \* lp_pnl rows per trade
    (* the process *)
    up, pc, cmode, cur,
    held,           \* the position the cycle read
    rpc, todo, rcur,
    seen,           \* the status each listed row had when listInFlight read it
    tradeLock,      \* the trade pipeline holds the cycle lock
    (* the world *)
    net,            \* what has become of the row's transaction
    wallet,         \* LP tokens the wallet holds on chain
    (* history, read by properties only *)
    booked,         \* times the position was changed for the row
    signatures,     \* times the key was used for the row
    torn,           \* rows whose process died between the position and the row
    raced,          \* rows of the running cycle the reconciler listed
    crashes

plan  == <<kind, rmode, amount>>
rows  == <<status, plan, hash, verdict>>
books == <<pos, pnl, booked>>
cyc   == <<pc, cmode, cur, held>>
recon == <<rpc, todo, rcur, seen>>
world == <<net, wallet>>
hist  == <<signatures, torn, raced, crashes>>
lvars == <<rows, books, up, cyc, recon, tradeLock, world, hist>>
vars  == <<laVars, lvars>>

Legal(t, s) == s \in TRANSITIONS(status[t])
Write(t, s) == status' = [status EXCEPT ![t] = s]

\* TradeStore.listInFlight, the liquidity rows of it
InFlight == {t \in Trades : status[t] \in {"dispatched", "signed", "broadcast"}}

Awaits == {"idle", "queued", "reading", "deciding", "approved", "preparing",
           "broadcasting", "awaiting"}
Pcs == Awaits \cup {"proposed", "gated", "allowed", "dispatched", "signing", "sending",
                    "booking", "row"}

\* "queued": the swap reconciler is at work; "asking": a receipt is awaited.
CycleWaits == pc \in Awaits
ReconcilerWaits == rpc \in {"idle", "queued", "asking"}
Free == up /\ CycleWaits /\ ReconcilerWaits

Init ==
    /\ LAInit
    /\ status = [t \in Trades |-> "none"]
    /\ kind = [t \in Trades |-> "approve"]
    /\ rmode = [t \in Trades |-> "PAPER"]
    /\ hash = [t \in Trades |-> FALSE]
    /\ verdict = [t \in Trades |-> "none"]
    /\ amount = [t \in Trades |-> 0]
    /\ pos = [m \in {"PAPER", "LIVE"} |-> 0]
    /\ pnl = [t \in Trades |-> 0] /\ booked = [t \in Trades |-> 0]
    /\ up = TRUE
    /\ pc = "idle" /\ cmode = "PAPER" /\ cur = NoTrade /\ held = 0
    /\ rpc = "idle" /\ todo = {} /\ rcur = NoTrade
    /\ seen = [t \in Trades |-> "none"]
    /\ tradeLock = FALSE
    /\ net = [t \in Trades |-> "none"] /\ wallet = 0
    /\ signatures = [t \in Trades |-> 0]
    /\ torn = {} /\ raced = {}
    /\ crashes = 0

-----------------------------------------------------------------------------
(***************************************************************************)
(* The cycle, up to the risk verdict.                                      *)
(***************************************************************************)

\* Every return of #run, and every exception out of it: the lock is released.
End ==
    /\ pc' = "idle"
    /\ cur' = NoTrade /\ cmode' = "PAPER" /\ held' = 0

Goto(p) == pc' = p /\ UNCHANGED <<cmode, cur, held>>

StartCycle ==
    /\ Free /\ pc = "idle"
    /\ Goto("queued")
    /\ UNCHANGED <<laVars, rows, books, up, recon, tradeLock, world, hist>>

\* #base and the head of #run: mode and switches are read with the lock held.
AcquireLock ==
    /\ Free /\ pc = "queued" /\ ~tradeLock
    /\ \/ (estop \/ paused) /\ End
       \/ /\ ~estop /\ ~paused
          /\ pc' = "reading" /\ cmode' = mode
          /\ UNCHANGED <<cur, held>>
    /\ UNCHANGED <<laVars, rows, books, up, recon, tradeLock, world, hist>>

\* #position: the chain's reading in LIVE, the book's in PAPER; a reading that failed is
\* no position.
ReadPosition ==
    /\ Free /\ pc = "reading"
    /\ pc' = "deciding"
    /\ \/ held' = IF cmode = "LIVE" THEN wallet ELSE pos["PAPER"]
       \/ held' = 0
    /\ UNCHANGED <<laVars, rows, books, up, cmode, cur, recon, tradeLock, world, hist>>

\* HOLD, an unreadable pool, nothing built, or an allowance that could not be read.
NoProposal ==
    /\ Free /\ pc \in {"reading", "deciding", "approved"}
    /\ End
    /\ UNCHANGED <<laVars, rows, books, up, recon, tradeLock, world, hist>>

\* LpProposalBuilder: what each action would move.  A removal is the whole position or
\* half of it; a claim is built in LIVE only.
Plan(k, n) ==
    \/ k = "approve" /\ cmode = "LIVE" /\ n = 0
    \/ k = "add" /\ n = Minted
    \/ k = "remove" /\ held > 0 /\ n \in {held, IF held \div 2 = 0 THEN held ELSE held \div 2}
    \/ k = "claim" /\ cmode = "LIVE" /\ n = 0

\* trades.propose, of an approval leg (#ensureAllowance) or of the action itself.  The
\* last row is kept for the action.
Propose(t, k) ==
    /\ Free
    /\ pc = "deciding" \/ (pc = "approved" /\ k # "claim")
    /\ status[t] = "none" /\ \A u \in Trades : u < t => status[u] # "none"
    /\ k = "approve" => t < MaxTrades
    /\ \E n \in 0..held + Minted :
          /\ Plan(k, n)
          /\ amount' = [amount EXCEPT ![t] = n]
    /\ Write(t, "proposed")
    /\ kind' = [kind EXCEPT ![t] = k]
    /\ rmode' = [rmode EXCEPT ![t] = cmode]
    /\ cur' = t
    /\ pc' = "proposed"
    /\ UNCHANGED <<laVars, hash, verdict, books, up, cmode, held, recon, tradeLock, world, hist>>

\* The tier-0 checks no verdict is positive without.
MayAllow ==
    /\ cmode = mode
    /\ cmode = "LIVE" => session
    /\ ~estop /\ ~paused

\* gate.decide
GateDecide ==
    /\ up /\ pc = "proposed"
    /\ \E v \in {"allow", "reject"} :
          /\ v = "allow" => MayAllow
          /\ verdict' = [verdict EXCEPT ![cur] = v]
    /\ Goto("gated")
    /\ UNCHANGED <<laVars, status, plan, hash, books, up, recon, tradeLock, world, hist>>

\* trades.decide
ApplyVerdict ==
    /\ up /\ pc = "gated"
    /\ \/ verdict[cur] = "allow" /\ Write(cur, "allowed") /\ Goto("allowed")
       \/ verdict[cur] = "reject" /\ Write(cur, "rejected") /\ End
    /\ UNCHANGED <<laVars, plan, hash, verdict, books, up, recon, tradeLock, world, hist>>

-----------------------------------------------------------------------------
(***************************************************************************)
(* The executors.  A mark the row's state machine refuses throws, and the  *)
(* exception ends the cycle where it stands.                               *)
(***************************************************************************)

\* LiveLpExecutor.#refusal, for a row whose action is LIVE
Refusal == mode # "LIVE" \/ estop \/ paused

\* #fail swallows the refusal of a row that has ended already.
Fail(t) == IF Legal(t, "failed") THEN Write(t, "failed") ELSE UNCHANGED status

\* A mark and where the executor goes on from it.
Mark(t, s, p) ==
    IF Legal(t, s) THEN Write(t, s) /\ Goto(p) ELSE UNCHANGED status /\ End

\* execute, executeApprove and the paper executor: refusal, trades.markDispatched and
\* gate.markDispatched.
MarkDispatched ==
    /\ up /\ pc = "allowed"
    /\ IF cmode = "LIVE" /\ Refusal
          THEN Fail(cur) /\ End
          ELSE Mark(cur, "dispatched", IF cmode = "LIVE" THEN "preparing" ELSE "dispatched")
    /\ UNCHANGED <<laVars, plan, hash, verdict, books, up, recon, tradeLock, world, hist>>

\* Simulation, fee estimate, fee overrun, wrong target or a locked vault.
PrepareFails ==
    /\ Free /\ pc = "preparing"
    /\ Fail(cur) /\ End
    /\ UNCHANGED <<laVars, plan, hash, verdict, books, up, recon, tradeLock, world, hist>>

\* Mutant: only the mode is read again.
SignDespiteStop ==
    /\ Free /\ pc = "preparing"
    /\ IF mode # "LIVE"
          THEN Fail(cur) /\ End /\ UNCHANGED signatures
          ELSE /\ signatures' = [signatures EXCEPT ![cur] = @ + 1]
               /\ Goto("signing")
               /\ UNCHANGED status
    /\ UNCHANGED <<laVars, plan, hash, verdict, books, up, recon, tradeLock, world, torn,
                   raced, crashes>>

\* #signAndSend: the switches are read again, and the key is used.
Sign ==
    /\ Free /\ pc = "preparing"
    /\ IF Refusal
          THEN Fail(cur) /\ End /\ UNCHANGED signatures
          ELSE /\ signatures' = [signatures EXCEPT ![cur] = @ + 1]
               /\ Goto("signing")
               /\ UNCHANGED status
    /\ UNCHANGED <<laVars, plan, hash, verdict, books, up, recon, tradeLock, world, torn,
                   raced, crashes>>

\* trades.markSigned: before the network sees the transaction.
MarkSigned ==
    /\ up /\ pc = "signing"
    /\ Mark(cur, "signed", "sending")
    /\ hash' = [hash EXCEPT ![cur] = @ \/ Legal(cur, "signed")]
    /\ UNCHANGED <<laVars, plan, verdict, books, up, recon, tradeLock, world, hist>>

\* adapter.broadcast is called.
Send ==
    /\ up /\ pc = "sending"
    /\ net' = [net EXCEPT ![cur] = "sent"]
    /\ Goto("broadcasting")
    /\ UNCHANGED <<laVars, rows, books, up, recon, tradeLock, wallet, hist>>

MarkBroadcast ==
    /\ Free /\ pc = "broadcasting" /\ net[cur] # "sent"
    /\ Mark(cur, "broadcast", "awaiting")
    /\ UNCHANGED <<laVars, plan, hash, verdict, books, up, recon, tradeLock, world, hist>>

\* Mutant: an error from the node is taken for a refusal.
BroadcastErrorFails ==
    /\ Free /\ pc = "broadcasting"
    /\ Fail(cur) /\ End
    /\ UNCHANGED <<laVars, plan, hash, verdict, books, up, recon, tradeLock, world, hist>>

\* The call failed; the node may or may not have the transaction.  The row stays signed.
BroadcastFails ==
    /\ Free /\ pc = "broadcasting"
    /\ End
    /\ UNCHANGED <<laVars, rows, books, up, recon, tradeLock, world, hist>>

\* #awaitReceipt runs out of time: the row stays broadcast.
ReceiptTimesOut ==
    /\ Free /\ pc = "awaiting"
    /\ End
    /\ UNCHANGED <<laVars, rows, books, up, recon, tradeLock, world, hist>>

ReceiptArrives ==
    /\ Free /\ pc = "awaiting"
    /\ \/ net[cur] = "reverted" /\ Fail(cur) /\ End
       \/ /\ net[cur] = "confirmed"
          /\ Goto(IF kind[cur] = "approve" THEN "row" ELSE "booking")
          /\ UNCHANGED status
    /\ UNCHANGED <<laVars, plan, hash, verdict, books, up, recon, tradeLock, world, hist>>

\* Mutant: every removal is taken for an exit.
RebookExit(t) ==
    /\ pos' = [pos EXCEPT ![rmode[t]] = IF kind[t] = "add" THEN @ + amount[t]
                                        ELSE IF kind[t] = "remove" THEN 0 ELSE @]
    /\ booked' = [booked EXCEPT ![t] = IF kind[t] \in Moves THEN @ + 1 ELSE @]

\* bookAdd and bookRemove.  A removal the book cannot cover leaves the position as it is.
Rebook(t) ==
    LET old == pos[rmode[t]]
        ok == kind[t] = "add" \/ (kind[t] = "remove" /\ amount[t] <= old)
    IN  /\ pos' = [pos EXCEPT ![rmode[t]] =
                      IF kind[t] = "add" THEN old + amount[t]
                      ELSE IF ok THEN old - amount[t] ELSE old]
        /\ booked' = [booked EXCEPT ![t] = IF ok THEN @ + 1 ELSE @]

\* PaperLpExecutor: below a minimum, or more than the book covers.
PaperFails ==
    /\ up /\ pc = "dispatched"
    /\ Fail(cur) /\ End
    /\ UNCHANGED <<laVars, plan, hash, verdict, books, up, recon, tradeLock, world, hist>>

\* Mutant: a removal does not reach the position.
BookAddsOnly ==
    /\ up /\ pc \in {"booking", "dispatched"}
    /\ IF kind[cur] = "add" THEN Rebook(cur) ELSE UNCHANGED <<pos, booked>>
    /\ pnl' = [pnl EXCEPT ![cur] = @ + 1]
    /\ Goto("row")
    /\ UNCHANGED <<laVars, rows, up, recon, tradeLock, world, hist>>

\* #book and the paper executor's #add and #remove: position and P&L in one transaction.
Book ==
    /\ up
    /\ \/ pc = "booking"
       \/ pc = "dispatched" /\ (kind[cur] = "remove" => amount[cur] <= pos["PAPER"])
    /\ Rebook(cur)
    /\ pnl' = [pnl EXCEPT ![cur] = @ + 1]
    /\ Goto("row")
    /\ UNCHANGED <<laVars, rows, up, recon, tradeLock, world, hist>>

\* trades.markFilled; the next leg or the action follows an approval in the same cycle.
MarkFilled ==
    /\ up /\ pc = "row"
    /\ IF Legal(cur, "filled") /\ kind[cur] = "approve"
          THEN Write(cur, "filled") /\ Goto("approved")
          ELSE /\ IF Legal(cur, "filled") THEN Write(cur, "filled") ELSE UNCHANGED status
               /\ End
    /\ UNCHANGED <<laVars, plan, hash, verdict, books, up, recon, tradeLock, world, hist>>

-----------------------------------------------------------------------------
(***************************************************************************)
(* The reconciler.  It decides by the status it read with its list, and    *)
(* writes to the row as it is now; a refused write aborts the start of the *)
(* background services.                                                    *)
(***************************************************************************)

NextRow(t) == t \in todo /\ \A u \in todo : t <= u

Nothing == [t \in Trades |-> "none"]

\* An exception ends the reconciler; a settled or unanswered row is left for the next.
Abort == rpc' = "idle" /\ todo' = {} /\ rcur' = NoTrade /\ seen' = Nothing
NextInScan(t) ==
    /\ rpc' = "scan" /\ todo' = todo \ {t} /\ rcur' = NoTrade
    /\ seen' = [seen EXCEPT ![t] = "none"]

\* LiquidityService.start, once services.live.reconcile() has returned
ReconcileStart ==
    /\ Free /\ rpc = "queued"
    /\ rpc' = "scan"
    /\ todo' = InFlight
    /\ seen' = [t \in Trades |-> IF t \in InFlight THEN status[t] ELSE "none"]
    /\ raced' = raced \cup ({cur} \cap InFlight)
    /\ UNCHANGED <<laVars, rows, books, up, cyc, rcur, tradeLock, world, signatures, torn,
                   crashes>>

\* A row listed as dispatched never reached the signer; the others are asked about.
ReconcileRow(t) ==
    /\ up /\ rpc = "scan" /\ NextRow(t)
    /\ IF seen[t] = "dispatched"
          THEN IF Legal(t, "failed") THEN Write(t, "failed") /\ NextInScan(t)
                                     ELSE Abort /\ UNCHANGED status
          ELSE rpc' = "asking" /\ UNCHANGED <<status, todo, rcur, seen>>
    /\ UNCHANGED <<laVars, plan, hash, verdict, books, up, cyc, tradeLock, world, hist>>

ReconcileUnknown(t) ==
    /\ Free /\ rpc = "asking" /\ NextRow(t)
    /\ NextInScan(t)
    /\ UNCHANGED <<laVars, rows, books, up, cyc, tradeLock, world, hist>>

\* The chain has decided: the row goes through broadcast.
ReconcileReceipt(t) ==
    /\ Free /\ rpc = "asking" /\ NextRow(t)
    /\ net[t] \in {"confirmed", "reverted"}
    /\ IF seen[t] = "signed" /\ ~Legal(t, "broadcast")
          THEN Abort /\ UNCHANGED status
          ELSE /\ IF seen[t] = "signed" THEN Write(t, "broadcast") ELSE UNCHANGED status
               /\ rcur' = t
               /\ rpc' = IF net[t] = "reverted" THEN "fail" ELSE "row"
               /\ UNCHANGED <<todo, seen>>
    /\ UNCHANGED <<laVars, plan, hash, verdict, books, up, cyc, tradeLock, world, hist>>

ReconcileFailed ==
    /\ up /\ rpc = "fail"
    /\ IF Legal(rcur, "failed") THEN Write(rcur, "failed") /\ NextInScan(rcur)
                                ELSE Abort /\ UNCHANGED status
    /\ UNCHANGED <<laVars, plan, hash, verdict, books, up, cyc, tradeLock, world, hist>>

\* #bookReconciled: the row first ...
ReconcileFilled ==
    /\ up /\ rpc = "row"
    /\ IF Legal(rcur, "filled") THEN Write(rcur, "filled") /\ rpc' = "book" /\ UNCHANGED <<todo, rcur, seen>>
                                ELSE Abort /\ UNCHANGED status
    /\ UNCHANGED <<laVars, plan, hash, verdict, books, up, cyc, tradeLock, world, hist>>

\* ... then the position, without a P&L row.
ReconcileBook ==
    /\ up /\ rpc = "book"
    /\ Rebook(rcur)
    /\ NextInScan(rcur)
    /\ UNCHANGED <<laVars, rows, pnl, up, cyc, tradeLock, world, hist>>

ReconcileDone ==
    /\ up /\ rpc = "scan" /\ todo = {}
    /\ rpc' = "idle"
    /\ UNCHANGED <<laVars, rows, books, up, cyc, todo, rcur, seen, tradeLock, world, hist>>

-----------------------------------------------------------------------------
(***************************************************************************)
(* The world.                                                              *)
(***************************************************************************)

NodeAccepts(t) ==
    /\ CycleWaits \/ ~up
    /\ net[t] = "sent"
    /\ net' = [net EXCEPT ![t] = "pending"]
    /\ UNCHANGED <<laVars, rows, books, up, cyc, recon, tradeLock, wallet, hist>>

\* A burn the wallet cannot cover reverts.
ChainDecides(t, outcome) ==
    /\ CycleWaits \/ ~up
    /\ net[t] = "pending"
    /\ outcome = "confirmed" /\ kind[t] = "remove" => amount[t] <= wallet
    /\ net' = [net EXCEPT ![t] = outcome]
    /\ wallet' = IF outcome = "reverted" \/ kind[t] \notin Moves THEN wallet
                 ELSE IF kind[t] = "add" THEN wallet + amount[t] ELSE wallet - amount[t]
    /\ UNCHANGED <<laVars, rows, books, up, cyc, recon, tradeLock, hist>>

Control ==
    /\ Free
    /\ LANext
    /\ UNCHANGED lvars

TradeTakesLock ==
    /\ Free /\ ~tradeLock /\ pc = "idle"
    /\ tradeLock' = TRUE
    /\ UNCHANGED <<laVars, rows, books, up, cyc, recon, world, hist>>

TradeReleasesLock ==
    /\ Free /\ tradeLock
    /\ tradeLock' = FALSE
    /\ UNCHANGED <<laVars, rows, books, up, cyc, recon, world, hist>>

Crash ==
    /\ up /\ crashes < MaxCrashes
    /\ up' = FALSE
    /\ mode' = "PAPER" /\ session' = FALSE
    /\ End
    /\ Abort
    /\ tradeLock' = FALSE
    /\ crashes' = crashes + 1
    /\ torn' = torn \cup {t \in Trades : /\ kind[t] \in Moves
                                         /\ \/ t = cur /\ pc = "row"
                                            \/ t = rcur /\ rpc = "book"}
    /\ UNCHANGED <<estop, paused, rows, books, world, signatures, raced>>

\* The new process serves requests while the swap reconciler works.
Boot ==
    /\ ~up
    /\ up' = TRUE
    /\ rpc' = "queued"
    /\ UNCHANGED <<laVars, rows, books, cyc, todo, rcur, seen, tradeLock, world, hist>>

Next ==
    \/ StartCycle \/ AcquireLock \/ ReadPosition \/ NoProposal
    \/ \E t \in Trades, k \in Kinds : Propose(t, k)
    \/ GateDecide \/ ApplyVerdict \/ MarkDispatched
    \/ PrepareFails \/ Sign \/ MarkSigned \/ Send \/ MarkBroadcast \/ BroadcastFails
    \/ ReceiptTimesOut \/ ReceiptArrives \/ PaperFails \/ Book \/ MarkFilled
    \/ ReconcileStart
    \/ \E t \in Trades : ReconcileRow(t) \/ ReconcileUnknown(t) \/ ReconcileReceipt(t)
    \/ ReconcileFailed \/ ReconcileFilled \/ ReconcileBook \/ ReconcileDone
    \/ \E t \in Trades : NodeAccepts(t)
    \/ \E t \in Trades, outcome \in {"confirmed", "reverted"} : ChainDecides(t, outcome)
    \/ Control \/ TradeTakesLock \/ TradeReleasesLock
    \/ Crash \/ Boot

Spec == Init /\ [][Next]_vars

-----------------------------------------------------------------------------
(***************************************************************************)
(* Properties                                                              *)
(***************************************************************************)

\* Every column and every field holds a value of its type.
TypeOK ==
    /\ mode \in {"PAPER", "LIVE"}
    /\ session \in BOOLEAN /\ estop \in BOOLEAN /\ paused \in BOOLEAN
    /\ status \in [Trades -> Statuses] /\ seen \in [Trades -> Statuses]
    /\ kind \in [Trades -> Kinds]
    /\ rmode \in [Trades -> {"PAPER", "LIVE"}]
    /\ hash \in [Trades -> BOOLEAN]
    /\ verdict \in [Trades -> {"none", "allow", "reject"}]
    /\ amount \in [Trades -> Nat]
    /\ pos \in [{"PAPER", "LIVE"} -> Nat]
    /\ pnl \in [Trades -> Nat] /\ booked \in [Trades -> Nat]
    /\ up \in BOOLEAN
    /\ pc \in Pcs /\ cmode \in {"PAPER", "LIVE"} /\ cur \in Trades \cup {NoTrade} /\ held \in Nat
    /\ rpc \in {"idle", "queued", "scan", "asking", "fail", "row", "book"}
    /\ todo \subseteq Trades /\ rcur \in Trades \cup {NoTrade}
    /\ tradeLock \in BOOLEAN
    /\ net \in [Trades -> {"none", "sent", "pending", "confirmed", "reverted"}]
    /\ wallet \in Nat
    /\ signatures \in [Trades -> Nat]
    /\ torn \subseteq Trades /\ raced \subseteq Trades
    /\ crashes \in Nat

\* A settled LIVE row says what the chain said, and what the network has seen is named on
\* disk, unless the reconciler listed the row while the cycle that owns it was running
\* (liquidity/live.ts #signAndSend, reconcile).
ChainIsTheTruth ==
    \A t \in Trades :
        /\ net[t] # "none" => hash[t]
        /\ t \notin raced =>
              /\ net[t] # "none" => status[t] \in {"signed", "broadcast", "filled", "failed"}
              /\ status[t] = "filled" /\ rmode[t] = "LIVE" => net[t] = "confirmed"
              /\ status[t] = "failed" /\ hash[t] => net[t] = "reverted"

\* Each settled add and removal is in the position book once, and nothing that did not
\* settle is, although the executor books before it marks the row and the reconciler
\* after it; the day's P&L has an action at most once.  The exceptions: a process that died
\* between the two commits, a row both worked on, and a LIVE removal of more than the book
\* held, which is left out of it.
BooksAgree ==
    \A t \in Trades \ (torn \cup raced) :
        /\ \/ t = cur /\ pc = "row"
           \/ t = rcur /\ rpc = "book"
           \/ /\ status[t] = "filled" /\ kind[t] = "remove" /\ rmode[t] = "LIVE"
              /\ booked[t] \in {0, 1}
           \/ booked[t] = (IF status[t] = "filled" /\ kind[t] \in Moves THEN 1 ELSE 0)
        /\ pnl[t] <= 1

\* Confirmed rows of a kind that the book does not show yet, and what they have moved.
Owed(k) == {t \in Trades : kind[t] = k /\ net[t] = "confirmed" /\ booked[t] = 0}
Unbooked(k) == MapThenSumSet(LAMBDA t : amount[t], Owed(k))

\* The LIVE position on the book, corrected for what is confirmed and not booked yet, is
\* the position of the wallet, whatever order rows confirm, time out and are reconciled
\* in (liquidity/live.ts #book, #bookReconciled; liquidity/store.ts bookAdd, bookRemove).
PositionIsTheWallet ==
    torn = {} /\ raced = {} =>
        pos["LIVE"] + Unbooked("add") = wallet + Unbooked("remove")

\* A key is used at most once for a row, only for a LIVE action the gate allowed, and never
\* with a switch on or outside LIVE, however long ago those were read (liquidity/live.ts
\* #signAndSend).
StopHolds ==
    [][\A t \in Trades : signatures'[t] # signatures[t] =>
           /\ mode = "LIVE" /\ ~estop /\ ~paused
           /\ signatures[t] = 0 /\ rmode[t] = "LIVE" /\ verdict[t] = "allow"]_vars
=============================================================================
