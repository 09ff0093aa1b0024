------------------------- MODULE LpExecutionProofs -------------------------
(***************************************************************************)
(* Proofs about LpExecution, for any number of rows and of deaths.         *)
(*                                                                         *)
(* The reconciler of liquidity works while requests are served, so it may  *)
(* list the row a running cycle works on.  What ties a point of the cycle  *)
(* or of the reconciler to the status of its row therefore holds for rows  *)
(* that were not listed in this way (raced); what protects the key and the *)
(* order of hash and network holds for every row.  The parts: CycleStatus  *)
(* and CycleFacts for the cycle, ReconcilerFacts for the reconciler,       *)
(* RowInv for a row by itself and BooksInv for the position and the P&L.   *)
(***************************************************************************)
EXTENDS LpExecution, Sums

\* A row before and after its dispatch; no row goes back.
Early == {"none", "proposed", "rejected", "allowed"}
Settling == {"dispatched", "signed", "broadcast", "filled", "failed"}

\* Points at which the cycle has no row.
Rowless == {"idle", "queued", "reading", "deciding"}

\* Where the cycle stands decides the status of its row.
CycleStatus ==
    /\ pc \in {"proposed", "gated"} => status[cur] = "proposed"
    /\ pc = "allowed" => status[cur] = "allowed"
    /\ pc \in {"dispatched", "preparing", "signing", "sending", "broadcasting", "awaiting",
               "booking", "row", "approved"} => status[cur] \in Settling
    /\ cur \notin raced =>
          /\ pc \in {"dispatched", "preparing", "signing"} => status[cur] = "dispatched"
          /\ pc \in {"sending", "broadcasting"} => status[cur] = "signed"
          /\ pc \in {"awaiting", "booking"} => status[cur] = "broadcast"
          /\ pc = "row" => status[cur] = IF cmode = "LIVE" THEN "broadcast" ELSE "dispatched"
          /\ pc = "approved" => status[cur] = "filled"

CycleFacts ==
    /\ ~up => pc = "idle" /\ rpc = "idle"
    /\ CycleWaits \/ ReconcilerWaits
    /\ pc \in Rowless <=> cur = NoTrade
    /\ cur # NoTrade => rmode[cur] = cmode /\ (kind[cur] = "approve" => cmode = "LIVE")
    /\ pc \in {"allowed", "dispatched", "preparing"} => verdict[cur] = "allow"
    /\ pc \in {"preparing", "signing", "sending", "broadcasting", "awaiting", "booking",
               "approved"} => cmode = "LIVE"
    /\ pc = "dispatched" => cmode = "PAPER"
    /\ pc = "preparing" => signatures[cur] = 0
    /\ pc \in {"sending", "broadcasting", "awaiting"} => hash[cur]
    /\ pc = "booking" \/ (pc = "row" /\ cmode = "LIVE") => net[cur] = "confirmed"

ReconcilerFacts ==
    /\ rpc \in {"idle", "queued"} => todo = {}
    /\ rpc \in {"fail", "row", "book"} <=> rcur # NoTrade
    /\ rcur # NoTrade => rcur \in todo
    /\ \A t \in todo : status[t] \in Settling
    /\ cur \in todo => cur \in raced
    /\ rpc = "fail" => net[rcur] = "reverted"
    /\ rpc \in {"row", "book"} => net[rcur] = "confirmed"
    /\ rpc = "book" => status[rcur] = "filled"
    /\ \A t \in todo \ raced :
          /\ t # rcur => status[t] = seen[t] /\ seen[t] \in {"dispatched", "signed", "broadcast"}
          /\ t = rcur /\ rpc \in {"fail", "row"} => status[t] = "broadcast"

PointInv == CycleStatus /\ CycleFacts /\ ReconcilerFacts

\* What a row says by itself.
RowInv ==
    \A t \in Trades :
        /\ status[t] # "cancelled"
        /\ status[t] \in Early => signatures[t] = 0 /\ t \notin raced
        /\ net[t] # "none" => hash[t]
        /\ t \notin raced =>
              /\ status[t] \in Early \cup {"dispatched"} => ~hash[t] /\ net[t] = "none"
              /\ status[t] \in {"signed", "broadcast"} => hash[t] /\ rmode[t] = "LIVE"
              /\ status[t] = "filled" /\ rmode[t] = "LIVE" => net[t] = "confirmed"
              /\ status[t] = "filled" /\ rmode[t] = "PAPER" => net[t] = "none"
              /\ status[t] = "failed" => net[t] = IF hash[t] THEN "reverted" ELSE "none"

\* The row's effect is due: it is filled, or its cycle is about to say so, and the
\* reconciler is not between the row and the position.
Due(t) ==
    \/ status[t] = "filled" /\ ~(t = rcur /\ rpc = "book")
    \/ t = cur /\ pc = "row"

BooksInv ==
    /\ \A t \in Trades : pnl[t] <= 1 /\ (status[t] \in Early => pnl[t] = 0)
    /\ pc \notin Rowless \cup {"row", "approved"} => pnl[cur] = 0
    /\ \A t \in Trades \ (torn \cup raced) :
          \/ booked[t] = IF Due(t) /\ kind[t] \in Moves THEN 1 ELSE 0
          \/ Due(t) /\ kind[t] = "remove" /\ rmode[t] = "LIVE" /\ booked[t] = 0

LpInv == TypeOK /\ PointInv /\ RowInv /\ BooksInv

-----------------------------------------------------------------------------
\* The statuses from which the state machine of trades.ts lets a row be marked.
LEMMA LegalFrom ==
    \A s \in Statuses :
        /\ "dispatched" \in TRANSITIONS(s) <=> s = "allowed"
        /\ "signed" \in TRANSITIONS(s) <=> s = "dispatched"
        /\ "broadcast" \in TRANSITIONS(s) <=> s = "signed"
        /\ "filled" \in TRANSITIONS(s) <=> s \in {"dispatched", "broadcast"}
        /\ "failed" \in TRANSITIONS(s) <=> s \in {"dispatched", "signed", "broadcast"}
  BY DEF Statuses, TRANSITIONS

\* The marker for no trade is none of them.
LEMMA NoTradeIsNoRow == NoTrade \notin Trades
  BY DEF NoTrade, Trades

\* What markSigned does to the hash column, as a formula rather than a value.
LEMMA HashIsStored ==
    ASSUME TypeOK, MarkSigned, cur \in Trades
    PROVE  \A t \in Trades : hash'[t] <=> (hash[t] \/ (t = cur /\ Legal(cur, "signed")))
  BY DEF TypeOK, MarkSigned

\* The steps that touch no row, no book, no signature and nothing on the chain.
Quiet ==
    \/ StartCycle \/ AcquireLock \/ ReadPosition \/ NoProposal
    \/ BroadcastFails \/ ReceiptTimesOut
    \/ \E t \in Trades : ReconcileUnknown(t)
    \/ ReconcileDone \/ Control \/ TradeTakesLock \/ TradeReleasesLock \/ Boot
    \/ UNCHANGED vars

LEMMA QuietSteps ==
    ASSUME Quiet
    PROVE  UNCHANGED <<rows, books, world, signatures, torn, raced>>
  BY DEF Quiet, StartCycle, AcquireLock, ReadPosition, NoProposal, BroadcastFails,
         ReceiptTimesOut, ReconcileUnknown, ReconcileDone, Control, TradeTakesLock,
         TradeReleasesLock, Boot, vars, lvars, rows, plan, books, world, hist

\* It holds at the start.
LEMMA InitLp == Init => LpInv
<1> SUFFICES ASSUME Init PROVE LpInv
  OBVIOUS
<1> USE LpConstants DEF Init, LAInit
<1>1. TypeOK
  <2>1. /\ mode \in {"PAPER", "LIVE"} /\ session \in BOOLEAN /\ estop \in BOOLEAN
        /\ paused \in BOOLEAN /\ up \in BOOLEAN /\ tradeLock \in BOOLEAN
    BY Zenon
  <2>2. /\ status \in [Trades -> Statuses] /\ seen \in [Trades -> Statuses]
        /\ kind \in [Trades -> Kinds]
        /\ rmode \in [Trades -> {"PAPER", "LIVE"}]
        /\ verdict \in [Trades -> {"none", "allow", "reject"}]
        /\ net \in [Trades -> {"none", "sent", "pending", "confirmed", "reverted"}]
    BY DEF Statuses, Kinds
  <2>3. hash \in [Trades -> BOOLEAN]
    BY Zenon
  <2>4. /\ amount \in [Trades -> Nat] /\ pos \in [{"PAPER", "LIVE"} -> Nat]
        /\ pnl \in [Trades -> Nat] /\ booked \in [Trades -> Nat]
        /\ signatures \in [Trades -> Nat]
        /\ held \in Nat /\ wallet \in Nat /\ crashes \in Nat
    OBVIOUS
  <2>5. /\ todo \subseteq Trades /\ torn \subseteq Trades /\ raced \subseteq Trades
        /\ pc \in Pcs /\ cmode \in {"PAPER", "LIVE"}
        /\ cur \in Trades \cup {NoTrade} /\ rcur \in Trades \cup {NoTrade}
        /\ rpc \in {"idle", "queued", "scan", "asking", "fail", "row", "book"}
    BY DEF Pcs, Awaits
  <2> QED
    BY <2>1, <2>2, <2>3, <2>4, <2>5 DEF TypeOK
<1>2. CycleStatus
  BY DEF CycleStatus
<1>3. CycleFacts
  BY DEF CycleFacts, Rowless, NoTrade, CycleWaits, ReconcilerWaits, Awaits
<1>4. ReconcilerFacts
  BY DEF ReconcilerFacts, NoTrade
<1>5. RowInv
  BY DEF RowInv, Early
<1>6. BooksInv
  BY DEF BooksInv, Due, Rowless
<1> QED
  BY <1>1, <1>2, <1>3, <1>4, <1>5, <1>6 DEF LpInv, PointInv

\* Every step keeps the types,
LEMMA StepType ==
    TypeOK /\ PointInv /\ [Next]_vars => TypeOK'
<1> SUFFICES ASSUME TypeOK, PointInv, [Next]_vars PROVE TypeOK'
  OBVIOUS
<1> USE LpConstants
    DEF TypeOK, Statuses, Kinds, Pcs, Awaits, NoTrade, vars, lvars, laVars, rows, plan, books, cyc, recon, world, hist,
        Legal, Write, End, Goto, Fail, Mark, Abort, NextInScan, Nothing, Free
<1>1. CASE StartCycle BY <1>1 DEF StartCycle
<1>2. CASE AcquireLock BY <1>2 DEF AcquireLock
<1>3. CASE ReadPosition BY <1>3 DEF ReadPosition
<1>4. CASE NoProposal BY <1>4 DEF NoProposal
<1>5. ASSUME NEW t \in Trades, NEW k \in Kinds, Propose(t, k) PROVE TypeOK'
  <2>1. amount' \in [Trades -> Nat]
    BY <1>5 DEF Propose, Minted
  <2> QED
    BY <1>5, <2>1 DEF Propose
<1>6. CASE GateDecide
  BY <1>6 DEF GateDecide, PointInv, CycleFacts, Rowless
<1>7. CASE ApplyVerdict BY <1>7 DEF ApplyVerdict
<1>8. CASE MarkDispatched BY <1>8 DEF MarkDispatched
<1>9. CASE PrepareFails BY <1>9 DEF PrepareFails
<1>10. CASE Sign
  BY <1>10 DEF Sign, PointInv, CycleFacts, Rowless
<1>11. CASE MarkSigned
  <2>1. hash' \in [Trades -> BOOLEAN]
    BY <1>11, Zenon DEF MarkSigned
  <2> QED
    BY <1>11, <2>1 DEF MarkSigned
<1>12. CASE Send
  <2>1. net' \in [Trades -> {"none", "sent", "pending", "confirmed", "reverted"}]
    BY <1>12 DEF Send
  <2> QED
    BY <1>12, <2>1 DEF Send
<1>13. CASE MarkBroadcast BY <1>13 DEF MarkBroadcast
<1>14. CASE BroadcastFails BY <1>14 DEF BroadcastFails
<1>15. CASE ReceiptTimesOut BY <1>15 DEF ReceiptTimesOut
<1>16. CASE ReceiptArrives BY <1>16 DEF ReceiptArrives
<1>17. CASE PaperFails BY <1>17 DEF PaperFails
<1>18. CASE Book
  <2>1. cur \in Trades
    BY <1>18 DEF Book, PointInv, CycleFacts, Rowless
  <2>2. pos' \in [{"PAPER", "LIVE"} -> Nat] /\ booked' \in [Trades -> Nat]
    BY <1>18, <2>1 DEF Book, Rebook
  <2>3. pnl' \in [Trades -> Nat]
    BY <1>18, <2>1 DEF Book
  <2> QED
    BY <1>18, <2>1, <2>2, <2>3 DEF Book
<1>19. CASE MarkFilled BY <1>19 DEF MarkFilled
<1>20. CASE ReconcileStart
  BY <1>20 DEF ReconcileStart, InFlight
<1>21. ASSUME NEW t \in Trades, ReconcileRow(t) PROVE TypeOK' BY <1>21 DEF ReconcileRow
<1>22. ASSUME NEW t \in Trades, ReconcileUnknown(t) PROVE TypeOK' BY <1>22 DEF ReconcileUnknown
<1>23. ASSUME NEW t \in Trades, ReconcileReceipt(t) PROVE TypeOK' BY <1>23 DEF ReconcileReceipt
<1>24. CASE ReconcileFailed BY <1>24 DEF ReconcileFailed
<1>25. CASE ReconcileFilled BY <1>25 DEF ReconcileFilled
<1>26. CASE ReconcileBook
  <2>1. rcur \in Trades
    BY <1>26 DEF ReconcileBook, PointInv, ReconcilerFacts
  <2>2. pos' \in [{"PAPER", "LIVE"} -> Nat] /\ booked' \in [Trades -> Nat]
    BY <1>26, <2>1 DEF ReconcileBook, Rebook
  <2>3. todo' \subseteq Trades /\ seen' \in [Trades -> Statuses]
    BY <1>26 DEF ReconcileBook
  <2> QED
    BY <1>26, <2>2, <2>3 DEF ReconcileBook
<1>27. CASE ReconcileDone BY <1>27 DEF ReconcileDone
<1>28. ASSUME NEW t \in Trades, NodeAccepts(t) PROVE TypeOK' BY <1>28 DEF NodeAccepts
<1>29. ASSUME NEW t \in Trades, NEW outcome \in {"confirmed", "reverted"}, ChainDecides(t, outcome)
      PROVE TypeOK'
  <2>1. wallet' \in Nat
    BY <1>29 DEF ChainDecides, Moves
  <2> QED
    BY <1>29, <2>1 DEF ChainDecides
<1>30. CASE Control
  <2>1. session' \in BOOLEAN /\ estop' \in BOOLEAN /\ paused' \in BOOLEAN
    BY <1>30, Zenon DEF Control, LANext, Grant, Expire, Leave, Engage, Clear, Pause, Resume
  <2>2. mode' \in {"PAPER", "LIVE"}
    BY <1>30 DEF Control, LANext, Grant, Expire, Leave, Engage, Clear, Pause, Resume
  <2> QED
    BY <1>30, <2>1, <2>2 DEF Control
<1>31. CASE TradeTakesLock BY <1>31 DEF TradeTakesLock
<1>32. CASE TradeReleasesLock
  <2>1. tradeLock' \in BOOLEAN
    BY <1>32, Zenon DEF TradeReleasesLock
  <2> QED
    BY <1>32, <2>1 DEF TradeReleasesLock
<1>33. CASE Crash
  <2>1. session' \in BOOLEAN /\ up' \in BOOLEAN /\ tradeLock' \in BOOLEAN
    BY <1>33, Zenon DEF Crash
  <2> QED
    BY <1>33, <2>1 DEF Crash
<1>34. CASE Boot BY <1>34 DEF Boot
<1>35. CASE UNCHANGED vars BY <1>35
<1> QED
  BY <1>1, <1>2, <1>3, <1>4, <1>5, <1>6, <1>7, <1>8, <1>9, <1>10, <1>11, <1>12, <1>13,
     <1>14, <1>15, <1>16, <1>17, <1>18, <1>19, <1>20, <1>21, <1>22, <1>23, <1>24, <1>25,
     <1>26, <1>27, <1>28, <1>29, <1>30, <1>31, <1>32, <1>33, <1>34, <1>35 DEF Next

\* the facts about the point a cycle has reached,
LEMMA StepStatus ==
    TypeOK /\ PointInv /\ RowInv /\ [Next]_vars => CycleStatus'
<1> SUFFICES ASSUME TypeOK, PointInv, RowInv, [Next]_vars PROVE CycleStatus'
  OBVIOUS
<1> USE LpConstants, LegalFrom, NoTradeIsNoRow
    DEF TypeOK, NoTrade, vars, lvars, laVars, rows, plan, books, cyc, recon, world, hist,
        Legal, Write, End, Goto, Fail, Mark, Abort, NextInScan, Nothing, Free, CycleWaits, ReconcilerWaits, Awaits,
        PointInv, CycleStatus, CycleFacts, ReconcilerFacts, Rowless, Settling
<1>1. CASE StartCycle BY <1>1 DEF StartCycle
<1>2. CASE AcquireLock BY <1>2 DEF AcquireLock
<1>3. CASE ReadPosition BY <1>3 DEF ReadPosition
<1>4. CASE NoProposal BY <1>4 DEF NoProposal
<1>5. ASSUME NEW t \in Trades, NEW k \in Kinds, Propose(t, k) PROVE CycleStatus'
  BY <1>5 DEF Propose, Trades
<1>6. CASE GateDecide BY <1>6 DEF GateDecide
<1>7. CASE ApplyVerdict BY <1>7 DEF ApplyVerdict
<1>8. CASE MarkDispatched BY <1>8 DEF MarkDispatched
<1>9. CASE PrepareFails BY <1>9 DEF PrepareFails
<1>10. CASE Sign BY <1>10 DEF Sign
<1>11. CASE MarkSigned BY <1>11 DEF MarkSigned
<1>12. CASE Send BY <1>12 DEF Send
<1>13. CASE MarkBroadcast BY <1>13 DEF MarkBroadcast
<1>14. CASE BroadcastFails BY <1>14 DEF BroadcastFails
<1>15. CASE ReceiptTimesOut BY <1>15 DEF ReceiptTimesOut
<1>16. CASE ReceiptArrives BY <1>16 DEF ReceiptArrives
<1>17. CASE PaperFails BY <1>17 DEF PaperFails
<1>18. CASE Book BY <1>18 DEF Book
<1>19. CASE MarkFilled BY <1>19 DEF MarkFilled
<1>20. CASE ReconcileStart BY <1>20 DEF ReconcileStart, InFlight
<1>21. ASSUME NEW t \in Trades, ReconcileRow(t) PROVE CycleStatus'
  BY <1>21 DEF ReconcileRow, NextRow
<1>22. ASSUME NEW t \in Trades, ReconcileUnknown(t) PROVE CycleStatus'
  BY <1>22 DEF ReconcileUnknown
<1>23. ASSUME NEW t \in Trades, ReconcileReceipt(t) PROVE CycleStatus'
  BY <1>23 DEF ReconcileReceipt, NextRow
<1>24. CASE ReconcileFailed BY <1>24 DEF ReconcileFailed
<1>25. CASE ReconcileFilled BY <1>25 DEF ReconcileFilled
<1>26. CASE ReconcileBook BY <1>26 DEF ReconcileBook
<1>27. CASE ReconcileDone BY <1>27 DEF ReconcileDone
<1>28. ASSUME NEW t \in Trades, NodeAccepts(t) PROVE CycleStatus' BY <1>28 DEF NodeAccepts
<1>29. ASSUME NEW t \in Trades, NEW outcome \in {"confirmed", "reverted"}, ChainDecides(t, outcome)
      PROVE CycleStatus'
  BY <1>29 DEF ChainDecides
<1>30. CASE Control
  BY <1>30 DEF Control, LANext, Grant, Expire, Leave, Engage, Clear, Pause, Resume
<1>31. CASE TradeTakesLock BY <1>31 DEF TradeTakesLock
<1>32. CASE TradeReleasesLock BY <1>32 DEF TradeReleasesLock
<1>33. CASE Crash BY <1>33 DEF Crash
<1>34. CASE Boot BY <1>34 DEF Boot
<1>35. CASE UNCHANGED vars BY <1>35
<1> QED
  BY <1>1, <1>2, <1>3, <1>4, <1>5, <1>6, <1>7, <1>8, <1>9, <1>10, <1>11, <1>12, <1>13,
     <1>14, <1>15, <1>16, <1>17, <1>18, <1>19, <1>20, <1>21, <1>22, <1>23, <1>24, <1>25,
     <1>26, <1>27, <1>28, <1>29, <1>30, <1>31, <1>32, <1>33, <1>34, <1>35 DEF Next

\* what the cycle knows at that point,
LEMMA StepFacts ==
    TypeOK /\ PointInv /\ RowInv /\ [Next]_vars => CycleFacts'
<1> SUFFICES ASSUME TypeOK, PointInv, RowInv, [Next]_vars PROVE CycleFacts'
  OBVIOUS
<1> USE LpConstants, LegalFrom, NoTradeIsNoRow
    DEF TypeOK, NoTrade, vars, lvars, laVars, rows, plan, books, cyc, recon, world, hist,
        Legal, Write, End, Goto, Fail, Mark, Abort, NextInScan, Nothing, Free, CycleWaits, ReconcilerWaits, Awaits,
        PointInv, CycleStatus, CycleFacts, ReconcilerFacts, Rowless
<1>1. CASE StartCycle BY <1>1 DEF StartCycle
<1>2. CASE AcquireLock BY <1>2 DEF AcquireLock
<1>3. CASE ReadPosition BY <1>3 DEF ReadPosition
<1>4. CASE NoProposal BY <1>4 DEF NoProposal
<1>5. ASSUME NEW t \in Trades, NEW k \in Kinds, Propose(t, k) PROVE CycleFacts'
  BY <1>5 DEF Propose, Trades, Plan
<1>6. CASE GateDecide BY <1>6 DEF GateDecide
<1>7. CASE ApplyVerdict BY <1>7 DEF ApplyVerdict
<1>8. CASE MarkDispatched BY <1>8 DEF MarkDispatched, RowInv, Early
<1>9. CASE PrepareFails BY <1>9 DEF PrepareFails
<1>10. CASE Sign BY <1>10 DEF Sign
<1>11. CASE MarkSigned
  <2>1. cur \in Trades
    BY <1>11 DEF MarkSigned
  <2> QED
    BY <1>11, <2>1, HashIsStored DEF MarkSigned
<1>12. CASE Send BY <1>12 DEF Send
<1>13. CASE MarkBroadcast BY <1>13 DEF MarkBroadcast
<1>14. CASE BroadcastFails BY <1>14 DEF BroadcastFails
<1>15. CASE ReceiptTimesOut BY <1>15 DEF ReceiptTimesOut
<1>16. CASE ReceiptArrives BY <1>16 DEF ReceiptArrives
<1>17. CASE PaperFails BY <1>17 DEF PaperFails
<1>18. CASE Book BY <1>18 DEF Book
<1>19. CASE MarkFilled BY <1>19 DEF MarkFilled
<1>20. CASE ReconcileStart BY <1>20 DEF ReconcileStart
<1>21. ASSUME NEW t \in Trades, ReconcileRow(t) PROVE CycleFacts' BY <1>21 DEF ReconcileRow
<1>22. ASSUME NEW t \in Trades, ReconcileUnknown(t) PROVE CycleFacts'
  BY <1>22 DEF ReconcileUnknown
<1>23. ASSUME NEW t \in Trades, ReconcileReceipt(t) PROVE CycleFacts'
  BY <1>23 DEF ReconcileReceipt
<1>24. CASE ReconcileFailed BY <1>24 DEF ReconcileFailed
<1>25. CASE ReconcileFilled BY <1>25 DEF ReconcileFilled
<1>26. CASE ReconcileBook BY <1>26 DEF ReconcileBook
<1>27. CASE ReconcileDone BY <1>27 DEF ReconcileDone
<1>28. ASSUME NEW t \in Trades, NodeAccepts(t) PROVE CycleFacts' BY <1>28 DEF NodeAccepts
<1>29. ASSUME NEW t \in Trades, NEW outcome \in {"confirmed", "reverted"}, ChainDecides(t, outcome)
      PROVE CycleFacts'
  BY <1>29 DEF ChainDecides
<1>30. CASE Control
  BY <1>30 DEF Control, LANext, Grant, Expire, Leave, Engage, Clear, Pause, Resume
<1>31. CASE TradeTakesLock BY <1>31 DEF TradeTakesLock
<1>32. CASE TradeReleasesLock BY <1>32 DEF TradeReleasesLock
<1>33. CASE Crash BY <1>33 DEF Crash
<1>34. CASE Boot BY <1>34 DEF Boot
<1>35. CASE UNCHANGED vars BY <1>35
<1> QED
  BY <1>1, <1>2, <1>3, <1>4, <1>5, <1>6, <1>7, <1>8, <1>9, <1>10, <1>11, <1>12, <1>13,
     <1>14, <1>15, <1>16, <1>17, <1>18, <1>19, <1>20, <1>21, <1>22, <1>23, <1>24, <1>25,
     <1>26, <1>27, <1>28, <1>29, <1>30, <1>31, <1>32, <1>33, <1>34, <1>35 DEF Next

\* what the reconciler knows at its own,
LEMMA StepReconciler ==
    TypeOK /\ PointInv /\ RowInv /\ [Next]_vars => ReconcilerFacts'
<1> SUFFICES ASSUME TypeOK, PointInv, RowInv, [Next]_vars PROVE ReconcilerFacts'
  OBVIOUS
<1> USE LpConstants, LegalFrom, NoTradeIsNoRow
    DEF TypeOK, NoTrade, vars, lvars, laVars, rows, plan, books, cyc, recon, world, hist,
        Legal, Write, End, Goto, Fail, Mark, Abort, NextInScan, Nothing, Free, CycleWaits, ReconcilerWaits, Awaits,
        PointInv, CycleStatus, CycleFacts, ReconcilerFacts, Rowless, Settling
<1>1. CASE StartCycle BY <1>1 DEF StartCycle
<1>2. CASE AcquireLock BY <1>2 DEF AcquireLock
<1>3. CASE ReadPosition BY <1>3 DEF ReadPosition
<1>4. CASE NoProposal BY <1>4 DEF NoProposal
<1>5. ASSUME NEW t \in Trades, NEW k \in Kinds, Propose(t, k) PROVE ReconcilerFacts'
  BY <1>5 DEF Propose
<1>6. CASE GateDecide BY <1>6 DEF GateDecide
<1>7. CASE ApplyVerdict BY <1>7 DEF ApplyVerdict
<1>8. CASE MarkDispatched BY <1>8 DEF MarkDispatched
<1>9. CASE PrepareFails BY <1>9 DEF PrepareFails
<1>10. CASE Sign BY <1>10 DEF Sign
<1>11. CASE MarkSigned BY <1>11 DEF MarkSigned
<1>12. CASE Send BY <1>12 DEF Send
<1>13. CASE MarkBroadcast BY <1>13 DEF MarkBroadcast
<1>14. CASE BroadcastFails BY <1>14 DEF BroadcastFails
<1>15. CASE ReceiptTimesOut BY <1>15 DEF ReceiptTimesOut
<1>16. CASE ReceiptArrives BY <1>16 DEF ReceiptArrives
<1>17. CASE PaperFails BY <1>17 DEF PaperFails
<1>18. CASE Book BY <1>18 DEF Book
<1>19. CASE MarkFilled BY <1>19 DEF MarkFilled
<1>20. CASE ReconcileStart BY <1>20 DEF ReconcileStart, InFlight
<1>21. ASSUME NEW t \in Trades, ReconcileRow(t) PROVE ReconcilerFacts'
  BY <1>21 DEF ReconcileRow, NextRow
<1>22. ASSUME NEW t \in Trades, ReconcileUnknown(t) PROVE ReconcilerFacts'
  BY <1>22 DEF ReconcileUnknown, NextRow
<1>23. ASSUME NEW t \in Trades, ReconcileReceipt(t) PROVE ReconcilerFacts'
  BY <1>23 DEF ReconcileReceipt, NextRow, RowInv, Early
<1>24. CASE ReconcileFailed BY <1>24 DEF ReconcileFailed
<1>25. CASE ReconcileFilled BY <1>25 DEF ReconcileFilled
<1>26. CASE ReconcileBook BY <1>26 DEF ReconcileBook
<1>27. CASE ReconcileDone BY <1>27 DEF ReconcileDone
<1>28. ASSUME NEW t \in Trades, NodeAccepts(t) PROVE ReconcilerFacts' BY <1>28 DEF NodeAccepts
<1>29. ASSUME NEW t \in Trades, NEW outcome \in {"confirmed", "reverted"}, ChainDecides(t, outcome)
      PROVE ReconcilerFacts'
  BY <1>29 DEF ChainDecides
<1>30. CASE Control
  BY <1>30 DEF Control, LANext, Grant, Expire, Leave, Engage, Clear, Pause, Resume
<1>31. CASE TradeTakesLock BY <1>31 DEF TradeTakesLock
<1>32. CASE TradeReleasesLock BY <1>32 DEF TradeReleasesLock
<1>33. CASE Crash BY <1>33 DEF Crash
<1>34. CASE Boot BY <1>34 DEF Boot
<1>35. CASE UNCHANGED vars BY <1>35
<1> QED
  BY <1>1, <1>2, <1>3, <1>4, <1>5, <1>6, <1>7, <1>8, <1>9, <1>10, <1>11, <1>12, <1>13,
     <1>14, <1>15, <1>16, <1>17, <1>18, <1>19, <1>20, <1>21, <1>22, <1>23, <1>24, <1>25,
     <1>26, <1>27, <1>28, <1>29, <1>30, <1>31, <1>32, <1>33, <1>34, <1>35 DEF Next

\* what a row says of the chain,
LEMMA StepRow ==
    TypeOK /\ PointInv /\ RowInv /\ [Next]_vars => RowInv'
<1> SUFFICES ASSUME TypeOK, PointInv, RowInv, [Next]_vars PROVE RowInv'
  OBVIOUS
<1> USE LpConstants, LegalFrom, NoTradeIsNoRow
    DEF TypeOK, NoTrade, vars, lvars, laVars, rows, plan, books, cyc, recon, world, hist,
        Legal, Write, End, Goto, Fail, Mark, Abort, NextInScan, Nothing, Free, CycleWaits, ReconcilerWaits, Awaits,
        PointInv, CycleStatus, CycleFacts, ReconcilerFacts, Rowless, Settling, Early, RowInv
<1>1. CASE Quiet
  BY <1>1, QuietSteps
<1>2. ASSUME NEW t \in Trades, NEW k \in Kinds, Propose(t, k) PROVE RowInv' BY <1>2 DEF Propose
<1>3. CASE GateDecide BY <1>3 DEF GateDecide
<1>4. CASE ApplyVerdict BY <1>4 DEF ApplyVerdict
<1>5. CASE MarkDispatched BY <1>5 DEF MarkDispatched
<1>6. CASE PrepareFails BY <1>6 DEF PrepareFails
<1>7. CASE Sign BY <1>7 DEF Sign
<1>8. CASE MarkSigned
  <2>1. cur \in Trades
    BY <1>8 DEF MarkSigned
  <2> QED
    BY <1>8, <2>1, HashIsStored DEF MarkSigned
<1>9. CASE Send BY <1>9 DEF Send
<1>10. CASE MarkBroadcast BY <1>10 DEF MarkBroadcast
<1>11. CASE ReceiptArrives BY <1>11 DEF ReceiptArrives
<1>12. CASE PaperFails BY <1>12 DEF PaperFails
<1>13. CASE Book BY <1>13 DEF Book
<1>14. CASE MarkFilled BY <1>14 DEF MarkFilled
<1>15. CASE ReconcileStart BY <1>15 DEF ReconcileStart, InFlight
<1>16. ASSUME NEW t \in Trades, ReconcileRow(t) PROVE RowInv' BY <1>16 DEF ReconcileRow, NextRow
<1>17. ASSUME NEW t \in Trades, ReconcileReceipt(t) PROVE RowInv'
  BY <1>17 DEF ReconcileReceipt, NextRow
<1>18. CASE ReconcileFailed BY <1>18 DEF ReconcileFailed
<1>19. CASE ReconcileFilled BY <1>19 DEF ReconcileFilled
<1>20. CASE ReconcileBook BY <1>20 DEF ReconcileBook
<1>21. ASSUME NEW t \in Trades, NodeAccepts(t) PROVE RowInv' BY <1>21 DEF NodeAccepts
<1>22. ASSUME NEW t \in Trades, NEW outcome \in {"confirmed", "reverted"}, ChainDecides(t, outcome)
      PROVE RowInv'
  BY <1>22 DEF ChainDecides
<1>23. CASE Crash BY <1>23 DEF Crash
<1> QED
  BY <1>1, <1>2, <1>3, <1>4, <1>5, <1>6, <1>7, <1>8, <1>9, <1>10, <1>11, <1>12, <1>13,
     <1>14, <1>15, <1>16, <1>17, <1>18, <1>19, <1>20, <1>21, <1>22, <1>23 DEF Next, Quiet

\* and the books.
LEMMA StepBooks ==
    TypeOK /\ PointInv /\ RowInv /\ BooksInv /\ [Next]_vars => BooksInv'
<1> SUFFICES ASSUME TypeOK, PointInv, RowInv, BooksInv, [Next]_vars PROVE BooksInv'
  OBVIOUS
<1> USE LpConstants, LegalFrom, NoTradeIsNoRow
    DEF TypeOK, NoTrade, vars, lvars, laVars, rows, plan, books, cyc, recon, world, hist,
        Legal, Write, End, Goto, Fail, Mark, Abort, NextInScan, Nothing, Free, CycleWaits, ReconcilerWaits, Awaits,
        PointInv, CycleStatus, CycleFacts, ReconcilerFacts, Rowless, Settling, Early, RowInv, BooksInv, Due, Moves
<1>1. CASE StartCycle BY <1>1 DEF StartCycle
<1>2. CASE AcquireLock BY <1>2 DEF AcquireLock
<1>3. CASE ReadPosition BY <1>3 DEF ReadPosition
<1>4. CASE NoProposal BY <1>4 DEF NoProposal
<1>5. ASSUME NEW t \in Trades, NEW k \in Kinds, Propose(t, k) PROVE BooksInv'
  BY <1>5 DEF Propose
<1>6. CASE GateDecide BY <1>6 DEF GateDecide
<1>7. CASE ApplyVerdict BY <1>7 DEF ApplyVerdict
<1>8. CASE MarkDispatched BY <1>8 DEF MarkDispatched
<1>9. CASE PrepareFails BY <1>9 DEF PrepareFails
<1>10. CASE Sign BY <1>10 DEF Sign
<1>11. CASE MarkSigned BY <1>11 DEF MarkSigned
<1>12. CASE Send BY <1>12 DEF Send
<1>13. CASE MarkBroadcast BY <1>13 DEF MarkBroadcast
<1>14. CASE BroadcastFails BY <1>14 DEF BroadcastFails
<1>15. CASE ReceiptTimesOut BY <1>15 DEF ReceiptTimesOut
<1>16. CASE ReceiptArrives BY <1>16 DEF ReceiptArrives
<1>17. CASE PaperFails BY <1>17 DEF PaperFails
<1>18. CASE Book BY <1>18 DEF Book, Rebook
<1>19. CASE MarkFilled BY <1>19 DEF MarkFilled
<1>20. CASE ReconcileStart BY <1>20 DEF ReconcileStart, InFlight
<1>21. ASSUME NEW t \in Trades, ReconcileRow(t) PROVE BooksInv'
  BY <1>21 DEF ReconcileRow, NextRow
<1>22. ASSUME NEW t \in Trades, ReconcileUnknown(t) PROVE BooksInv'
  BY <1>22 DEF ReconcileUnknown
<1>23. ASSUME NEW t \in Trades, ReconcileReceipt(t) PROVE BooksInv'
  BY <1>23 DEF ReconcileReceipt, NextRow
<1>24. CASE ReconcileFailed BY <1>24 DEF ReconcileFailed
<1>25. CASE ReconcileFilled BY <1>25 DEF ReconcileFilled
<1>26. CASE ReconcileBook BY <1>26 DEF ReconcileBook, Rebook
<1>27. CASE ReconcileDone BY <1>27 DEF ReconcileDone
<1>28. ASSUME NEW t \in Trades, NodeAccepts(t) PROVE BooksInv' BY <1>28 DEF NodeAccepts
<1>29. ASSUME NEW t \in Trades, NEW outcome \in {"confirmed", "reverted"}, ChainDecides(t, outcome)
      PROVE BooksInv'
  BY <1>29 DEF ChainDecides
<1>30. CASE Control
  BY <1>30 DEF Control, LANext, Grant, Expire, Leave, Engage, Clear, Pause, Resume
<1>31. CASE TradeTakesLock BY <1>31 DEF TradeTakesLock
<1>32. CASE TradeReleasesLock BY <1>32 DEF TradeReleasesLock
<1>33. CASE Crash BY <1>33 DEF Crash
<1>34. CASE Boot BY <1>34 DEF Boot
<1>35. CASE UNCHANGED vars BY <1>35
<1> QED
  BY <1>1, <1>2, <1>3, <1>4, <1>5, <1>6, <1>7, <1>8, <1>9, <1>10, <1>11, <1>12, <1>13,
     <1>14, <1>15, <1>16, <1>17, <1>18, <1>19, <1>20, <1>21, <1>22, <1>23, <1>24, <1>25,
     <1>26, <1>27, <1>28, <1>29, <1>30, <1>31, <1>32, <1>33, <1>34, <1>35 DEF Next

-----------------------------------------------------------------------------
\* The inductive invariant holds in every reachable state: the types, what the cycle and
\* the reconciler know of row and chain at each of their points, and the books
\* (liquidity/live.ts execute, #signAndSend, reconcile; liquidity/store.ts).
THEOREM LpInvariant == Spec => []LpInv
<1>1. LpInv /\ [Next]_vars => LpInv'
  BY StepType, StepStatus, StepFacts, StepReconciler, StepRow, StepBooks DEF LpInv, PointInv
<1> QED
  BY InitLp, <1>1, PTL DEF Spec

\* Every column and every field keeps its type, in every interleaving of the cycle, the
\* reconciler, the chain, the control plane and process deaths.
THEOREM LpTypes == Spec => []TypeOK
<1>1. LpInv => TypeOK
  BY DEF LpInv
<1> QED
  BY LpInvariant, <1>1, PTL

\* Nothing reaches the network before its hash is on disk; a settled LIVE row the
\* reconciler did not list under a running cycle says what the chain said (liquidity/live.ts
\* #signAndSend, reconcile).
THEOREM LpChainDecidesTheRow == Spec => []ChainIsTheTruth
<1>1. LpInv => ChainIsTheTruth
  BY DEF LpInv, TypeOK, RowInv, ChainIsTheTruth, Early, Statuses
<1> QED
  BY LpInvariant, <1>1, PTL

\* Each settled add and removal is in the position book once and in the day's P&L at most
\* once, although the executor books before it marks the row and the reconciler after it
\* (liquidity/live.ts #book, #bookReconciled; liquidity/paper.ts).
THEOREM LpBooksAgree == Spec => []BooksAgree
<1>1. LpInv => BooksAgree
  BY DEF LpInv, BooksInv, BooksAgree, Due, TypeOK
<1> QED
  BY LpInvariant, <1>1, PTL

\* The key is used once for a row, for a LIVE action the gate allowed, and never with a
\* switch on, however long ago the switches were first read (liquidity/live.ts #signAndSend).
THEOREM LpStopReachesTheKey == Spec => StopHolds
<1> DEFINE KeyStep == \A t \in Trades : signatures'[t] # signatures[t] =>
                          /\ mode = "LIVE" /\ ~estop /\ ~paused
                          /\ signatures[t] = 0 /\ rmode[t] = "LIVE" /\ verdict[t] = "allow"
<1>1. LpInv /\ [Next]_vars => [KeyStep]_vars
  <2> SUFFICES ASSUME LpInv, [Next]_vars PROVE KeyStep \/ UNCHANGED vars
    OBVIOUS
  <2>1. CASE Sign
    BY <2>1 DEF Sign, Refusal, Goto, LpInv, TypeOK, PointInv, CycleFacts, Rowless, NoTrade
  <2>2. CASE signatures' = signatures
    BY <2>2
  <2>3. Sign \/ signatures' = signatures
    BY DEF Next, StartCycle, AcquireLock, ReadPosition, NoProposal, Propose, GateDecide,
           ApplyVerdict, MarkDispatched, PrepareFails, MarkSigned, Send, MarkBroadcast,
           BroadcastFails, ReceiptTimesOut, ReceiptArrives, PaperFails, Book, MarkFilled,
           ReconcileStart, ReconcileRow, ReconcileUnknown, ReconcileReceipt, ReconcileFailed,
           ReconcileFilled, ReconcileBook, ReconcileDone, NodeAccepts, ChainDecides, Control,
           TradeTakesLock, TradeReleasesLock, Crash, Boot, vars, lvars, hist
  <2> QED
    BY <2>1, <2>2, <2>3
<1> QED
  BY LpInvariant, <1>1, PTL DEF Spec, StopHolds

-----------------------------------------------------------------------------
(***************************************************************************)
(* The wallet.                                                             *)
(***************************************************************************)

\* The network has not seen what is about to be sent, and the book and the wallet agree.
WalletInv ==
    torn = {} /\ raced = {} =>
        /\ pc = "sending" => net[cur] = "none"
        /\ pos["LIVE"] + Unbooked("add") = wallet + Unbooked("remove")

\* What is owed is a sum over rows.
LEMMA OwedIsASum ==
    ASSUME TypeOK, NEW k
    PROVE  /\ Unbooked(k) = Total(amount, Owed(k)) /\ Unbooked(k) \in Nat
           /\ IsFiniteSet(Owed(k)) /\ \A t \in Owed(k) : amount[t] \in Nat
<1>1. IsFiniteSet(Trades)
  BY LpConstants, FS_Interval DEF Trades
<1>2. Owed(k) \subseteq Trades
  BY DEF Owed
<1>3. IsFiniteSet(Owed(k))
  BY <1>1, <1>2, FS_Subset
<1>4. \A t \in Owed(k) : amount[t] \in Nat
  BY <1>2 DEF TypeOK
<1>5. Unbooked(k) = Total(amount, Owed(k))
  BY DEF Unbooked, Total
<1> QED
  BY <1>3, <1>4, <1>5, TotalIsNat

LEMMA UnbookedIsTotal ==
    Unbooked("add") = Total(amount, Owed("add")) /\ Unbooked("remove") = Total(amount, Owed("remove"))
  BY DEF Unbooked, Total

LEMMA SumIsNext == ASSUME NEW k \in Moves PROVE Unbooked(k)' = Total(amount', Owed(k)')
<1>1. (/\ Unbooked("add") = Total(amount, Owed("add"))
       /\ Unbooked("remove") = Total(amount, Owed("remove")))'
  BY UnbookedIsTotal, PTL
<1>2. k = "add" \/ k = "remove"
  BY DEF Moves
<1>3. CASE k = "add"
  BY <1>1, <1>3
<1>4. CASE k = "remove"
  BY <1>1, <1>4
<1> QED
  BY <1>2, <1>3, <1>4

\* Nothing owed is settled and nothing more is owed.
LEMMA NothingMoves ==
    ASSUME TypeOK, NEW k \in Moves, Owed(k)' = Owed(k), \A t \in Owed(k) : amount'[t] = amount[t]
    PROVE  Unbooked(k)' = Unbooked(k)
<1>1. Total(amount', Owed(k)) = Total(amount, Owed(k))
  BY OwedIsASum, TotalOfSame
<1> QED
  BY <1>1, OwedIsASum, SumIsNext

LEMMA OneMoreOwed ==
    ASSUME TypeOK, NEW k \in Moves, NEW t \in Trades, t \notin Owed(k), Owed(k)' = Owed(k) \cup {t},
           amount' = amount
    PROVE  Unbooked(k)' = amount[t] + Unbooked(k)
<1>1. amount[t] \in Nat
  BY DEF TypeOK
<1>2. Total(amount, Owed(k) \cup {t}) = amount[t] + Total(amount, Owed(k))
  <2>1. IsFiniteSet(Owed(k)) /\ \A u \in Owed(k) : amount[u] \in Int
    BY OwedIsASum
  <2> QED
    BY <1>1, <2>1, TotalAdds
<1> QED
  BY <1>2, OwedIsASum, SumIsNext

LEMMA OneLessOwed ==
    ASSUME TypeOK, NEW k \in Moves, NEW t \in Owed(k), Owed(k)' = Owed(k) \ {t}, amount' = amount
    PROVE  Unbooked(k) = amount[t] + Unbooked(k)' /\ Unbooked(k)' \in Nat
<1>1. Total(amount, Owed(k)) = amount[t] + Total(amount, Owed(k) \ {t})
  BY OwedIsASum, TotalSplits
<1>2. IsFiniteSet(Owed(k) \ {t}) /\ \A u \in Owed(k) \ {t} : amount[u] \in Nat
  BY OwedIsASum, FS_RemoveElement
<1>3. Total(amount, Owed(k) \ {t}) \in Nat
  BY <1>2, TotalIsNat
<1> QED
  BY <1>1, <1>3, OwedIsASum, SumIsNext

\* Only these rows of the chain, the plan and the books are read by the sums.
LEMMA WalletRests ==
    ASSUME TypeOK, WalletInv, torn \subseteq torn', raced \subseteq raced',
           torn' = {} /\ raced' = {} /\ pc' = "sending" => net'[cur'] = "none",
           UNCHANGED <<pos, wallet>>,
           \A k \in Moves : /\ Owed(k)' = Owed(k)
                            /\ \A t \in Owed(k) : amount'[t] = amount[t]
    PROVE  WalletInv'
<1>1. \A k \in Moves : Unbooked(k)' = Unbooked(k)
  BY NothingMoves
<1>2. "add" \in Moves /\ "remove" \in Moves
  BY DEF Moves
<1> QED
  BY <1>1, <1>2 DEF WalletInv

\* A confirmed row of the wallet reaches the book.
LEMMA RebookIsOwed ==
    ASSUME TypeOK, NEW t \in Trades, Rebook(t), booked[t] = 0,
           rmode[t] = "LIVE" => net[t] = "confirmed",
           rmode[t] = "PAPER" => net[t] = "none",
           UNCHANGED <<kind, amount, net, wallet>>,
           pos["LIVE"] + Unbooked("add") = wallet + Unbooked("remove")
    PROVE  pos'["LIVE"] + Unbooked("add")' = wallet' + Unbooked("remove")'
<1> DEFINE ok == kind[t] = "add" \/ (kind[t] = "remove" /\ amount[t] <= pos[rmode[t]])
<1>0. /\ pos \in [{"PAPER", "LIVE"} -> Nat] /\ rmode[t] \in {"PAPER", "LIVE"}
      /\ amount[t] \in Nat /\ wallet \in Nat /\ booked \in [Trades -> Nat]
  BY DEF TypeOK
<1>1. /\ booked' = [booked EXCEPT ![t] = IF ok THEN booked[t] + 1 ELSE booked[t]]
      /\ pos' = [pos EXCEPT ![rmode[t]] = IF kind[t] = "add" THEN pos[rmode[t]] + amount[t]
                                          ELSE IF ok THEN pos[rmode[t]] - amount[t]
                                          ELSE pos[rmode[t]]]
  BY DEF Rebook
<1>2. \A k \in Moves : Unbooked(k) \in Nat
  BY OwedIsASum
<1>3. \A u \in Trades : u # t => booked'[u] = booked[u]
  BY <1>0, <1>1
<1>4. CASE rmode[t] = "PAPER"
  <2>1. \A k \in Moves : Owed(k)' = Owed(k)
    BY <1>3, <1>4 DEF Owed
  <2>2. \A k \in Moves : Unbooked(k)' = Unbooked(k)
    BY <2>1, NothingMoves
  <2>3. pos'["LIVE"] = pos["LIVE"]
    BY <1>0, <1>1, <1>4
  <2> QED
    BY <2>2, <2>3 DEF Moves
<1>5. CASE rmode[t] = "LIVE" /\ ~ok
  <2>1. booked' = booked /\ pos' = pos
    BY <1>0, <1>1, <1>5
  <2>2. \A k \in Moves : Owed(k)' = Owed(k)
    BY <2>1 DEF Owed
  <2>3. \A k \in Moves : Unbooked(k)' = Unbooked(k)
    BY <2>2, NothingMoves
  <2> QED
    BY <2>1, <2>3 DEF Moves
<1>6. CASE rmode[t] = "LIVE" /\ ok
  <2>1. booked'[t] = 1
    BY <1>0, <1>1, <1>6
  <2>2. t \in Owed(kind[t]) /\ Owed(kind[t])' = Owed(kind[t]) \ {t}
    BY <1>3, <1>6, <2>1 DEF Owed
  <2>3. Unbooked(kind[t]) = amount[t] + Unbooked(kind[t])' /\ Unbooked(kind[t])' \in Nat
    BY <1>6, <2>2, OneLessOwed DEF Moves
  <2>4. \A k \in Moves : k # kind[t] => Unbooked(k)' = Unbooked(k)
    <3>1. \A k \in Moves : k # kind[t] => Owed(k)' = Owed(k)
      BY <1>3 DEF Owed
    <3> QED
      BY <3>1, NothingMoves
  <2>5. CASE kind[t] = "add"
    <3>1. pos'["LIVE"] = pos["LIVE"] + amount[t]
      BY <1>0, <1>1, <1>6, <2>5
    <3>2. Unbooked("remove")' = Unbooked("remove")
      BY <2>4, <2>5 DEF Moves
    <3>3. /\ Unbooked("add") = amount[t] + Unbooked("add")' /\ Unbooked("add")' \in Nat
          /\ Unbooked("add") \in Nat /\ Unbooked("remove") \in Nat
      BY <1>2, <2>3, <2>5 DEF Moves
    <3>4. pos["LIVE"] \in Nat /\ amount[t] \in Nat /\ wallet' = wallet /\ wallet \in Nat
      BY <1>0
    <3> QED
      BY <3>1, <3>2, <3>3, <3>4
  <2>6. CASE kind[t] = "remove" /\ amount[t] <= pos[rmode[t]]
    <3>1. pos'["LIVE"] = pos["LIVE"] - amount[t]
      BY <1>0, <1>1, <1>6, <2>6
    <3>2. Unbooked("add")' = Unbooked("add")
      BY <2>4, <2>6 DEF Moves
    <3>3. /\ Unbooked("remove") = amount[t] + Unbooked("remove")' /\ Unbooked("remove")' \in Nat
          /\ Unbooked("add") \in Nat /\ Unbooked("remove") \in Nat
      BY <1>2, <2>3, <2>6 DEF Moves
    <3>4. pos["LIVE"] \in Nat /\ amount[t] \in Nat /\ wallet' = wallet /\ wallet \in Nat
      BY <1>0
    <3> QED
      BY <3>1, <3>2, <3>3, <3>4
  <2> QED
    BY <1>6, <2>5, <2>6
<1> QED
  BY <1>0, <1>4, <1>5, <1>6

\* A row that is not on the book yet, at the points that book.
LEMMA NotBookedYet ==
    ASSUME LpInv, torn = {}, raced = {}
    PROVE  /\ up /\ pc \in {"booking", "dispatched"} =>
                 /\ cur \in Trades /\ booked[cur] = 0
                 /\ rmode[cur] = "LIVE" => net[cur] = "confirmed"
                 /\ rmode[cur] = "PAPER" => net[cur] = "none"
           /\ up /\ rpc = "book" =>
                 /\ rcur \in Trades /\ booked[rcur] = 0
                 /\ rmode[rcur] = "LIVE" /\ net[rcur] = "confirmed"
           /\ \A t \in Trades : net[t] = "pending" => booked[t] = 0
           /\ pc = "signing" => net[cur] = "none"
           /\ \A t \in Trades : status[t] = "none" => net[t] = "none"
<1>0. TypeOK /\ CycleStatus /\ CycleFacts /\ ReconcilerFacts /\ RowInv /\ BooksInv
  BY DEF LpInv, PointInv
<1>1. \A t \in Trades : booked[t] # 0 => Due(t)
  BY <1>0 DEF BooksInv
<1>2. pc \notin Rowless => cur \in Trades
  BY <1>0 DEF CycleFacts, TypeOK
<1>3. ASSUME up, pc \in {"booking", "dispatched"}
      PROVE  /\ cur \in Trades /\ booked[cur] = 0
             /\ rmode[cur] = "LIVE" => net[cur] = "confirmed"
             /\ rmode[cur] = "PAPER" => net[cur] = "none"
  <2>1. cur \in Trades
    BY <1>2, <1>3 DEF Rowless
  <2>2. status[cur] \in {"broadcast", "dispatched"} /\ (pc = "dispatched" => status[cur] = "dispatched")
    BY <1>0, <1>3 DEF CycleStatus
  <2>3. booked[cur] = 0
    BY <1>1, <1>3, <2>1, <2>2 DEF Due
  <2>4. /\ pc = "booking" => cmode = "LIVE" /\ net[cur] = "confirmed"
        /\ pc = "dispatched" => cmode = "PAPER"
        /\ rmode[cur] = cmode
    BY <1>0, <1>3, <2>1, NoTradeIsNoRow DEF CycleFacts
  <2>5. pc = "dispatched" => net[cur] = "none"
    BY <1>0, <2>1, <2>2 DEF RowInv
  <2> QED
    BY <1>3, <2>1, <2>3, <2>4, <2>5
<1>4. ASSUME rpc = "book"
      PROVE  /\ rcur \in Trades /\ booked[rcur] = 0
             /\ rmode[rcur] = "LIVE" /\ net[rcur] = "confirmed"
  <2>1. /\ rcur \in Trades /\ rcur \in todo /\ status[rcur] = "filled"
        /\ net[rcur] = "confirmed" /\ rcur # cur
    BY <1>0, <1>4 DEF ReconcilerFacts, TypeOK
  <2>2. booked[rcur] = 0
    BY <1>1, <1>4, <2>1 DEF Due
  <2>3. rmode[rcur] = "LIVE"
    BY <1>0, <2>1 DEF RowInv, TypeOK
  <2> QED
    BY <2>1, <2>2, <2>3
<1>5. ASSUME NEW t \in Trades, net[t] = "pending" PROVE booked[t] = 0
  <2>1. status[t] # "filled"
    BY <1>0, <1>5 DEF RowInv, TypeOK
  <2>2. ~(t = cur /\ pc = "row")
    BY <1>0, <1>5, NoTradeIsNoRow DEF CycleStatus, CycleFacts, RowInv, TypeOK
  <2> QED
    BY <1>1, <2>1, <2>2 DEF Due
<1>6. pc = "signing" => net[cur] = "none"
  BY <1>0, <1>2 DEF CycleStatus, RowInv, Rowless
<1>7. \A t \in Trades : status[t] = "none" => net[t] = "none"
  BY <1>0 DEF RowInv, Early
<1> QED
  BY <1>3, <1>4, <1>5, <1>6, <1>7

LEMMA InitWallet == Init => WalletInv
<1> SUFFICES ASSUME Init PROVE WalletInv
  OBVIOUS
<1>1. /\ \A t \in Trades : net[t] = "none"
      /\ pos["LIVE"] = 0 /\ wallet = 0 /\ pc = "idle"
  BY DEF Init
<1>2. \A k \in Moves : Owed(k) = {}
  BY <1>1 DEF Owed
<1>3. \A k \in Moves : Unbooked(k) = Total(amount, {})
  BY <1>2 DEF Unbooked, Total
<1>4. Unbooked("add") = 0 /\ Unbooked("remove") = 0
  BY <1>3, TotalOfNothing DEF Moves
<1> QED
  BY <1>1, <1>4 DEF WalletInv

\* The steps after which every row of the sums, the book and the wallet is as it was.
LEMMA StepWallet ==
    ASSUME LpInv, WalletInv, [Next]_vars
    PROVE  WalletInv'
<1> SUFFICES ASSUME torn' = {}, raced' = {} PROVE WalletInv'
  BY DEF WalletInv
<1>0. TypeOK
  BY DEF LpInv
<1>1. torn = {} /\ raced = {}
  BY DEF Next, StartCycle, AcquireLock, ReadPosition, NoProposal, Propose, GateDecide,
         ApplyVerdict, MarkDispatched, PrepareFails, Sign, MarkSigned, Send, MarkBroadcast,
         BroadcastFails, ReceiptTimesOut, ReceiptArrives, PaperFails, Book, MarkFilled,
         ReconcileStart, ReconcileRow, ReconcileUnknown, ReconcileReceipt, ReconcileFailed,
         ReconcileFilled, ReconcileBook, ReconcileDone, NodeAccepts, ChainDecides, Control,
         TradeTakesLock, TradeReleasesLock, Crash, Boot, vars, lvars, hist
<1>2. /\ pos["LIVE"] + Unbooked("add") = wallet + Unbooked("remove")
      /\ pc = "sending" => net[cur] = "none"
  BY <1>1 DEF WalletInv
\* Same plan, chain and books; only "sending" must be reached with nothing sent.
<1>3. ASSUME UNCHANGED <<kind, amount, net, pos, booked, wallet>>,
             pc' = "sending" => net[cur'] = "none"
      PROVE  WalletInv'
  <2>1. \A k \in Moves : Owed(k)' = Owed(k)
    BY <1>3 DEF Owed
  <2> QED
    BY <1>0, <1>1, <1>3, <2>1, WalletRests
<1>4. ASSUME NEW t \in Trades, NEW k \in Kinds, Propose(t, k) PROVE WalletInv'
  <2>1. /\ net[t] = "none" /\ UNCHANGED <<net, pos, booked, wallet>> /\ pc' = "proposed"
        /\ \A u \in Trades : u # t => kind'[u] = kind[u] /\ amount'[u] = amount[u]
    BY <1>0, <1>1, <1>4, NotBookedYet DEF Propose, books, world, TypeOK
  <2>2. \A j : Owed(j)' = Owed(j) /\ t \notin Owed(j) /\ Owed(j) \subseteq Trades
    BY <2>1 DEF Owed
  <2>3. \A j : \A u \in Owed(j) : amount'[u] = amount[u]
    BY <2>1, <2>2
  <2> QED
    BY <1>0, <1>1, <2>1, <2>2, <2>3, WalletRests
<1>5. CASE Send
  <2>1. /\ pc = "sending" /\ net[cur] = "none" /\ net' = [net EXCEPT ![cur] = "sent"]
        /\ UNCHANGED <<kind, amount, pos, booked, wallet>> /\ pc' = "broadcasting"
    BY <1>2, <1>5 DEF Send, Goto, rows, plan, books
  <2>2. \A k \in Moves : Owed(k)' = Owed(k)
    BY <1>0, <2>1 DEF Owed, TypeOK
  <2> QED
    BY <1>0, <1>1, <2>1, <2>2, WalletRests
<1>6. ASSUME NEW t \in Trades, NodeAccepts(t) PROVE WalletInv'
  <2>1. /\ net[t] = "sent" /\ net' = [net EXCEPT ![t] = "pending"]
        /\ UNCHANGED <<kind, amount, pos, booked, wallet, pc>> /\ (CycleWaits \/ ~up)
    BY <1>6 DEF NodeAccepts, rows, plan, books, cyc
  <2>2. \A k \in Moves : Owed(k)' = Owed(k)
    BY <1>0, <2>1 DEF Owed, TypeOK
  <2>3. pc' # "sending"
    BY <2>1 DEF CycleWaits, Awaits, LpInv, PointInv, CycleFacts
  <2> QED
    BY <1>0, <1>1, <2>1, <2>2, <2>3, WalletRests
<1>7. ASSUME NEW t \in Trades, NEW o \in {"confirmed", "reverted"}, ChainDecides(t, o)
      PROVE  WalletInv'
  <2>1. /\ net[t] = "pending" /\ net' = [net EXCEPT ![t] = o] /\ booked[t] = 0
        /\ UNCHANGED <<kind, amount, pos, booked, pc>> /\ (CycleWaits \/ ~up)
        /\ o = "confirmed" /\ kind[t] = "remove" => amount[t] <= wallet
        /\ wallet' = IF o = "reverted" \/ kind[t] \notin Moves THEN wallet
                     ELSE IF kind[t] = "add" THEN wallet + amount[t] ELSE wallet - amount[t]
    BY <1>1, <1>7, NotBookedYet DEF ChainDecides, rows, plan, books, cyc
  <2>2. pc' # "sending"
    BY <2>1 DEF CycleWaits, Awaits, LpInv, PointInv, CycleFacts
  <2>3. net'[t] = o /\ \A u \in Trades : u # t => net'[u] = net[u]
    BY <1>0, <2>1 DEF TypeOK
  <2>4. CASE o = "reverted" \/ kind[t] \notin Moves
    <3>1. \A k \in Moves : Owed(k)' = Owed(k)
      BY <2>1, <2>3, <2>4 DEF Owed
    <3> QED
      BY <1>0, <1>1, <2>1, <2>2, <2>4, <3>1, WalletRests
  <2>5. CASE o = "confirmed" /\ kind[t] \in Moves
    <3>1. t \notin Owed(kind[t]) /\ Owed(kind[t])' = Owed(kind[t]) \cup {t}
      BY <2>1, <2>3, <2>5 DEF Owed
    <3>2. Unbooked(kind[t])' = amount[t] + Unbooked(kind[t])
      BY <1>0, <2>1, <2>5, <3>1, OneMoreOwed
    <3>3. \A k \in Moves : k # kind[t] => Owed(k)' = Owed(k)
      BY <2>1, <2>3 DEF Owed
    <3>4. \A k \in Moves : k # kind[t] => Unbooked(k)' = Unbooked(k)
      BY <1>0, <2>1, <3>3, NothingMoves
    <3>5. /\ \A k \in Moves : Unbooked(k) \in Nat
          /\ amount[t] \in Nat /\ wallet \in Nat /\ pos["LIVE"] \in Nat
      BY <1>0, OwedIsASum DEF TypeOK
    <3>6. CASE kind[t] = "add"
      <4>1. wallet' = wallet + amount[t] /\ Unbooked("remove")' = Unbooked("remove")
        BY <2>1, <2>5, <3>4, <3>6 DEF Moves
      <4>2. pos'["LIVE"] + Unbooked("add")' = wallet' + Unbooked("remove")'
        BY <1>2, <2>1, <3>2, <3>5, <3>6, <4>1 DEF Moves
      <4> QED
        BY <2>2, <4>2 DEF WalletInv
    <3>7. CASE kind[t] = "remove"
      <4>1. /\ wallet' = wallet - amount[t] /\ amount[t] <= wallet
            /\ Unbooked("add")' = Unbooked("add")
        BY <2>1, <2>5, <3>4, <3>7 DEF Moves
      <4>2. pos'["LIVE"] + Unbooked("add")' = wallet' + Unbooked("remove")'
        BY <1>2, <2>1, <3>2, <3>5, <3>7, <4>1 DEF Moves
      <4> QED
        BY <2>2, <4>2 DEF WalletInv
    <3> QED
      BY <2>5, <3>6, <3>7 DEF Moves
  <2> QED
    BY <2>4, <2>5
<1>8. CASE Book
  <2>1. /\ cur \in Trades /\ Rebook(cur) /\ UNCHANGED <<kind, amount, net, wallet>>
        /\ booked[cur] = 0 /\ pc' = "row"
        /\ rmode[cur] = "LIVE" => net[cur] = "confirmed"
        /\ rmode[cur] = "PAPER" => net[cur] = "none"
    BY <1>1, <1>8, NotBookedYet DEF Book, Goto, rows, plan, world
  <2> QED
    BY <1>0, <1>2, <2>1, RebookIsOwed DEF WalletInv
<1>9. CASE ReconcileBook
  <2>1. /\ rcur \in Trades /\ Rebook(rcur)
        /\ UNCHANGED <<kind, amount, net, wallet, pc, cur>>
        /\ booked[rcur] = 0 /\ rmode[rcur] = "LIVE" /\ net[rcur] = "confirmed"
    BY <1>1, <1>9, NotBookedYet DEF ReconcileBook, rows, plan, world, cyc
  <2>2. pos'["LIVE"] + Unbooked("add")' = wallet' + Unbooked("remove")'
    BY <1>0, <1>2, <2>1, RebookIsOwed
  <2> QED
    BY <1>2, <2>1, <2>2 DEF WalletInv
<1>10. CASE MarkSigned
  BY <1>1, <1>3, <1>10, NotBookedYet DEF MarkSigned, Mark, Goto, End, plan, books, world
<1>11. CASE Crash
  BY <1>3, <1>11 DEF Crash, End, rows, plan, books, world
<1>12. CASE Quiet
  <2>1. UNCHANGED <<kind, amount, net, pos, booked, wallet>>
    BY <1>12, QuietSteps DEF rows, plan, books, world
  <2>2. pc' = "sending" => pc = "sending" /\ cur' = cur
    BY <1>12 DEF Quiet, StartCycle, AcquireLock, ReadPosition, NoProposal, BroadcastFails,
         ReceiptTimesOut, ReconcileUnknown, ReconcileDone, Control, TradeTakesLock,
         TradeReleasesLock, Boot, vars, lvars, cyc, Goto, End
  <2> QED
    BY <1>2, <1>3, <2>1, <2>2
<1>13. CASE \/ GateDecide \/ ApplyVerdict \/ MarkDispatched \/ PrepareFails \/ Sign
            \/ MarkBroadcast \/ ReceiptArrives \/ PaperFails \/ MarkFilled
  <2>1. UNCHANGED <<kind, amount, net, pos, booked, wallet>> /\ pc' # "sending"
    BY <1>13 DEF GateDecide, ApplyVerdict, MarkDispatched, PrepareFails, Sign, MarkBroadcast,
         ReceiptArrives, PaperFails, MarkFilled, Mark, Goto, End, rows, plan, books, world
  <2> QED
    BY <1>3, <2>1
<1>14. ASSUME \/ ReconcileStart \/ ReconcileFailed \/ ReconcileFilled
              \/ \E t \in Trades : ReconcileRow(t) \/ ReconcileReceipt(t)
       PROVE  WalletInv'
  <2>1. UNCHANGED <<kind, amount, net, pos, booked, wallet, pc, cur>>
    BY <1>14 DEF ReconcileStart, ReconcileFailed, ReconcileFilled, ReconcileRow,
         ReconcileReceipt, rows, plan, books, world, cyc
  <2> QED
    BY <1>2, <1>3, <2>1
<1> QED
  BY <1>4, <1>5, <1>6, <1>7, <1>8, <1>9, <1>10, <1>11, <1>12, <1>13, <1>14 DEF Next, Quiet

\* Whatever order rows confirm, time out and are reconciled in, the LIVE position on the
\* book and what is confirmed and not booked yet are what the wallet holds (liquidity/live.ts
\* #book, #bookReconciled; liquidity/store.ts bookAdd, bookRemove).
THEOREM LpPositionIsTheWallet == Spec => []PositionIsTheWallet
<1>1. WalletInv => PositionIsTheWallet
  BY DEF WalletInv, PositionIsTheWallet
<1>2. LpInv /\ WalletInv /\ [Next]_vars => WalletInv'
  BY StepWallet
<1> QED
  BY <1>1, <1>2, InitWallet, LpInvariant, PTL DEF Spec
=============================================================================
