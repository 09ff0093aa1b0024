------------------------ MODULE TradeExecutionProofs ------------------------
(***************************************************************************)
(* Proofs about TradeExecution, for any number of trades and of deaths.    *)
(*                                                                         *)
(* The invariant has three parts.  PointInv ties the point the cycle and   *)
(* the reconciler stand at to the row each works on; it is what makes      *)
(* every write legal.  RowInv says, row by row and independently of who    *)
(* works on it, how the status relates to the hash, the chain and the key. *)
(* BooksInv does the same for the ledger.                                  *)
(***************************************************************************)
EXTENDS TradeExecution, TLAPS

\* Where the cycle stands decides the status of its row.
CycleStatus ==
    /\ pc \in {"proposed", "gated"} => status[cur] = "proposed"
    /\ pc \in {"allowed", "priced"} => status[cur] = "allowed"
    /\ pc \in {"dispatched", "cooled", "preparing", "signing"} => status[cur] = "dispatched"
    /\ pc \in {"sending", "broadcasting"} => status[cur] = "signed"
    /\ pc \in {"awaiting", "booking"} => status[cur] = "broadcast"
    /\ pc = "row" => status[cur] = IF cmode = "LIVE" THEN "broadcast" ELSE "dispatched"
    /\ pc = "approved" => status[cur] = "filled"

CycleFacts ==
    /\ ~up => pc = "idle" /\ rpc = "idle"
    /\ pc \in {"idle", "queued", "deciding"} <=> cur = NoTrade
    /\ cur # NoTrade => rmode[cur] = cmode
    /\ pc \in {"allowed", "priced", "dispatched", "preparing"} => verdict[cur] = "allow"
    /\ pc \in {"priced", "preparing", "signing", "sending", "broadcasting", "awaiting",
               "booking", "approved"} => cmode = "LIVE"
    /\ pc \in {"priced", "cooled", "booking"} => kind[cur] = "swap"
    /\ pc = "cooled" => cmode = "PAPER"
    /\ pc = "approved" => kind[cur] = "approve"
    /\ pc \in {"priced", "dispatched"} /\ cmode = "LIVE" /\ kind[cur] = "swap" => priced[cur]
    /\ pc = "preparing" /\ kind[cur] = "swap" => priced[cur] /\ cur \in cooled
    /\ pc \in {"gated", "allowed"} /\ verdict[cur] = "allow" /\ cmode = "LIVE" => ~Refusal
    /\ pc \in {"gated"} => verdict[cur] \in {"allow", "reject"}

CycleChain ==
    /\ pc \in {"dispatched", "preparing"} => signatures[cur] = 0
    /\ pc = "signing" => signatures[cur] = 1
    /\ pc \in {"signing", "sending"} => net[cur] = "none"
    /\ pc \in {"broadcasting", "awaiting"} => net[cur] # "none"
    /\ pc = "booking" \/ (pc = "row" /\ cmode = "LIVE") => net[cur] = "confirmed"

ReconcilerFacts ==
    /\ rpc = "idle" => todo = {}
    /\ rpc \in {"idle", "scan"} <=> rcur = NoTrade
    /\ rcur # NoTrade => rcur \in todo /\ status[rcur] = "broadcast"
    /\ todo \subseteq InFlight
    /\ cur \notin todo
    /\ rpc = "fail" => net[rcur] = "reverted"
    /\ rpc \in {"booking", "row"} => net[rcur] = "confirmed"
    /\ rpc = "booking" => kind[rcur] = "swap"

PointInv == CycleStatus /\ CycleFacts /\ CycleChain /\ ReconcilerFacts

\* What a row says by itself.
RowInv ==
    \A t \in Trades :
        /\ kind[t] = "approve" => rmode[t] = "LIVE"
        /\ status[t] \in {"none", "proposed", "allowed", "rejected"} => signatures[t] = 0
        /\ status[t] \in {"none", "proposed", "allowed", "rejected", "dispatched"} =>
              ~hash[t] /\ net[t] = "none"
        /\ status[t] \in {"signed", "broadcast"} =>
              hash[t] /\ signatures[t] = 1 /\ rmode[t] = "LIVE"
        /\ status[t] = "filled" /\ rmode[t] = "LIVE" => net[t] = "confirmed" /\ hash[t]
        /\ status[t] = "filled" /\ rmode[t] = "PAPER" => net[t] = "none" /\ ~hash[t]
        /\ status[t] = "failed" => (hash[t] => net[t] = "reverted") /\ (~hash[t] => net[t] = "none")
        /\ rmode[t] = "PAPER" => signatures[t] = 0
        /\ status[t] # "cancelled"

BooksInv ==
    \A t \in Trades \ torn :
        fills[t] = IF kind[t] = "swap"
                      /\ (status[t] = "filled" \/ (t = cur /\ pc = "row")
                          \/ (t = rcur /\ rpc = "row"))
                   THEN 1 ELSE 0

TradeInv ==
    /\ TypeOK /\ PointInv /\ RowInv
    /\ SpentUnderAVerdict /\ NoStrandedRow /\ BooksInv

-----------------------------------------------------------------------------
LEMMA FailIsLegal ==
    \A s \in Statuses :
        "failed" \in TRANSITIONS(s) <=> s \in {"dispatched", "signed", "broadcast"}
  BY DEF Statuses, TRANSITIONS

LEMMA InitTrade == Init => TradeInv
<1> SUFFICES ASSUME Init PROVE TradeInv
  OBVIOUS
<1> USE TradeConstants DEF Init, LAInit
<1>1. TypeOK
  <2>1. /\ mode \in {"PAPER", "LIVE"} /\ session \in BOOLEAN /\ estop \in BOOLEAN
        /\ paused \in BOOLEAN /\ up \in BOOLEAN /\ lpLock \in BOOLEAN
    BY Zenon
  <2>2. /\ status \in [Trades -> Statuses]
        /\ kind \in [Trades -> {"approve", "swap"}]
        /\ rmode \in [Trades -> {"PAPER", "LIVE"}]
        /\ verdict \in [Trades -> {"none", "allow", "reject"}]
        /\ fills \in [Trades -> Nat] /\ signatures \in [Trades -> Nat]
        /\ net \in [Trades -> {"none", "sent", "pending", "confirmed", "reverted"}]
    BY DEF Statuses
  <2>3. hash \in [Trades -> BOOLEAN] /\ priced \in [Trades -> BOOLEAN]
    BY Zenon
  <2>4. /\ cooled \subseteq Trades /\ todo \subseteq Trades /\ torn \subseteq Trades
        /\ orphans \subseteq Trades /\ crashes \in Nat
        /\ pc \in Pcs /\ cmode \in {"PAPER", "LIVE"}
        /\ cur \in Trades \cup {NoTrade} /\ rcur \in Trades \cup {NoTrade}
        /\ rpc \in {"idle", "scan", "fail", "booking", "row"}
    BY DEF Pcs, Awaits
  <2> QED
    BY <2>1, <2>2, <2>3, <2>4 DEF TypeOK
<1>2. CycleStatus /\ CycleChain
  BY DEF CycleStatus, CycleChain
<1>3. CycleFacts
  BY DEF CycleFacts, NoTrade
<1>4. ReconcilerFacts
  BY DEF ReconcilerFacts, NoTrade
<1>5. RowInv
  BY DEF RowInv
<1>6. SpentUnderAVerdict /\ NoStrandedRow
  BY DEF SpentUnderAVerdict, NoStrandedRow
<1>7. BooksInv
  BY DEF BooksInv
<1> QED
  BY <1>1, <1>2, <1>3, <1>4, <1>5, <1>6, <1>7 DEF TradeInv, PointInv

LEMMA StepType ==
    TypeOK /\ PointInv /\ [Next]_vars => TypeOK'
<1> SUFFICES ASSUME TypeOK, PointInv, [Next]_vars PROVE TypeOK'
  OBVIOUS
<1> USE TradeConstants
    DEF TypeOK, Statuses, Pcs, Awaits, NoTrade, vars, tvars, laVars, rows, proc, recon, hist, End, Fail, Transition,
        NextInScan, Free, CycleWaits, ReconcilerWaits, InFlight
<1>1. CASE StartCycle BY <1>1 DEF StartCycle
<1>2. CASE AcquireLock BY <1>2 DEF AcquireLock
<1>3. CASE NoProposal BY <1>3 DEF NoProposal
<1>4. ASSUME NEW t \in Trades, NEW k \in {"approve", "swap"}, Propose(t, k) PROVE TypeOK'
  BY <1>4 DEF Propose
<1>5. CASE GateDecide
  BY <1>5 DEF GateDecide, PointInv, CycleFacts, ReconcilerFacts
<1>6. CASE ApplyVerdict BY <1>6 DEF ApplyVerdict
<1>7. CASE RecordQuotePrices BY <1>7 DEF RecordQuotePrices
<1>8. CASE MarkDispatched BY <1>8 DEF MarkDispatched
<1>9. CASE StartCooldown
  BY <1>9 DEF StartCooldown, PointInv, CycleFacts, ReconcilerFacts
<1>10. CASE PaperFails BY <1>10 DEF PaperFails
<1>11. CASE PrepareFails BY <1>11 DEF PrepareFails
<1>12. CASE Sign BY <1>12 DEF Sign
<1>13. CASE MarkSigned BY <1>13 DEF MarkSigned
<1>14. CASE Send BY <1>14 DEF Send
<1>15. CASE MarkBroadcast BY <1>15 DEF MarkBroadcast
<1>16. CASE BroadcastFails BY <1>16 DEF BroadcastFails
<1>17. CASE ReceiptTimesOut BY <1>17 DEF ReceiptTimesOut
<1>18. CASE ReceiptArrives BY <1>18 DEF ReceiptArrives
<1>19. CASE RecordFill
  BY <1>19 DEF RecordFill, PointInv, CycleFacts, ReconcilerFacts
<1>20. CASE MarkFilled BY <1>20 DEF MarkFilled
<1>21. ASSUME NEW t \in Trades, ReconcileUnsigned(t) PROVE TypeOK'
  BY <1>21 DEF ReconcileUnsigned
<1>22. ASSUME NEW t \in Trades, ReconcileUnknown(t) PROVE TypeOK'
  BY <1>22 DEF ReconcileUnknown
<1>23. ASSUME NEW t \in Trades, ReconcileReceipt(t) PROVE TypeOK'
  BY <1>23 DEF ReconcileReceipt
<1>24. CASE ReconcileFailed
  BY <1>24 DEF ReconcileFailed, PointInv, CycleFacts, ReconcilerFacts
<1>25. CASE ReconcileBook
  BY <1>25 DEF ReconcileBook, PointInv, CycleFacts, ReconcilerFacts
<1>26. CASE ReconcileFilled
  BY <1>26 DEF ReconcileFilled, PointInv, CycleFacts, ReconcilerFacts
<1>27. CASE ReconcileDone BY <1>27 DEF ReconcileDone
<1>28. ASSUME NEW t \in Trades, NodeAccepts(t) PROVE TypeOK'
  BY <1>28 DEF NodeAccepts
<1>29. ASSUME NEW t \in Trades, NEW outcome \in {"confirmed", "reverted"}, ChainDecides(t, outcome) PROVE TypeOK'
  BY <1>29 DEF ChainDecides
<1>30. CASE Control
  <2>1. session' \in BOOLEAN /\ estop' \in BOOLEAN /\ paused' \in BOOLEAN
    BY <1>30, Zenon DEF Control, LANext, Grant, Expire, Leave, Engage, Clear, Pause, Resume
  <2>2. mode' \in {"PAPER", "LIVE"}
    BY <1>30 DEF Control, LANext, Grant, Expire, Leave, Engage, Clear, Pause, Resume
  <2> QED
    BY <1>30, <2>1, <2>2 DEF Control
<1>31. CASE LpTakesLock BY <1>31 DEF LpTakesLock
<1>32. CASE LpReleasesLock
  <2>1. lpLock' \in BOOLEAN
    BY <1>32, Zenon DEF LpReleasesLock
  <2> QED
    BY <1>32, <2>1 DEF LpReleasesLock
<1>33. CASE Crash
  <2>1. session' \in BOOLEAN /\ up' \in BOOLEAN /\ lpLock' \in BOOLEAN
    BY <1>33, Zenon DEF Crash
  <2>2. torn' \subseteq Trades /\ orphans' \subseteq Trades
    BY <1>33 DEF Crash, PointInv, CycleFacts, ReconcilerFacts
  <2> QED
    BY <1>33, <2>1, <2>2 DEF Crash
<1>34. CASE Boot BY <1>34 DEF Boot
<1>35. CASE UNCHANGED vars BY <1>35
<1> QED
  BY <1>1, <1>2, <1>3, <1>4, <1>5, <1>6, <1>7, <1>8, <1>9, <1>10, <1>11, <1>12,
     <1>13, <1>14, <1>15, <1>16, <1>17, <1>18, <1>19, <1>20, <1>21, <1>22, <1>23,
     <1>24, <1>25, <1>26, <1>27, <1>28, <1>29, <1>30, <1>31, <1>32, <1>33, <1>34,
     <1>35 DEF Next, Cycle, Reconcile

LEMMA StepStatus ==
    TypeOK /\ PointInv /\ RowInv /\ [Next]_vars => CycleStatus'
<1> SUFFICES ASSUME TypeOK, PointInv, RowInv, [Next]_vars PROVE CycleStatus'
  OBVIOUS
<1> USE TradeConstants, FailIsLegal
    DEF TypeOK, NoTrade, vars, tvars, laVars, rows, proc, recon, hist, End, Fail, Transition,
        NextInScan, Free, CycleWaits, ReconcilerWaits,
        PointInv, CycleStatus, CycleFacts, CycleChain, ReconcilerFacts, Awaits
<1>1. CASE StartCycle BY <1>1 DEF StartCycle
<1>2. CASE AcquireLock BY <1>2 DEF AcquireLock
<1>3. CASE NoProposal BY <1>3 DEF NoProposal
<1>4. ASSUME NEW t \in Trades, NEW k \in {"approve", "swap"}, Propose(t, k) PROVE CycleStatus'
  BY <1>4 DEF Propose
<1>5. CASE GateDecide BY <1>5 DEF GateDecide
<1>6. CASE ApplyVerdict BY <1>6 DEF ApplyVerdict
<1>7. CASE RecordQuotePrices BY <1>7 DEF RecordQuotePrices
<1>8. CASE MarkDispatched BY <1>8 DEF MarkDispatched
<1>9. CASE StartCooldown BY <1>9 DEF StartCooldown
<1>10. CASE PaperFails BY <1>10 DEF PaperFails
<1>11. CASE PrepareFails BY <1>11 DEF PrepareFails
<1>12. CASE Sign BY <1>12 DEF Sign
<1>13. CASE MarkSigned BY <1>13 DEF MarkSigned
<1>14. CASE Send BY <1>14 DEF Send
<1>15. CASE MarkBroadcast BY <1>15 DEF MarkBroadcast
<1>16. CASE BroadcastFails BY <1>16 DEF BroadcastFails
<1>17. CASE ReceiptTimesOut BY <1>17 DEF ReceiptTimesOut
<1>18. CASE ReceiptArrives BY <1>18 DEF ReceiptArrives
<1>19. CASE RecordFill BY <1>19 DEF RecordFill
<1>20. CASE MarkFilled BY <1>20 DEF MarkFilled
<1>21. ASSUME NEW t \in Trades, ReconcileUnsigned(t) PROVE CycleStatus'
  BY <1>21 DEF ReconcileUnsigned, NextRow
<1>22. ASSUME NEW t \in Trades, ReconcileUnknown(t) PROVE CycleStatus'
  BY <1>22 DEF ReconcileUnknown
<1>23. ASSUME NEW t \in Trades, ReconcileReceipt(t) PROVE CycleStatus'
  BY <1>23 DEF ReconcileReceipt, NextRow
<1>24. CASE ReconcileFailed BY <1>24 DEF ReconcileFailed
<1>25. CASE ReconcileBook BY <1>25 DEF ReconcileBook
<1>26. CASE ReconcileFilled BY <1>26 DEF ReconcileFilled
<1>27. CASE ReconcileDone BY <1>27 DEF ReconcileDone
<1>28. ASSUME NEW t \in Trades, NodeAccepts(t) PROVE CycleStatus'
  BY <1>28 DEF NodeAccepts
<1>29. ASSUME NEW t \in Trades, NEW outcome \in {"confirmed", "reverted"}, ChainDecides(t, outcome) PROVE CycleStatus'
  BY <1>29 DEF ChainDecides
<1>30. CASE Control BY <1>30 DEF Control, LANext, Grant, Expire, Leave, Engage, Clear, Pause, Resume
<1>31. CASE LpTakesLock BY <1>31 DEF LpTakesLock
<1>32. CASE LpReleasesLock BY <1>32 DEF LpReleasesLock
<1>33. CASE Crash BY <1>33 DEF Crash
<1>34. CASE Boot BY <1>34 DEF Boot
<1>35. CASE UNCHANGED vars BY <1>35
<1> QED
  BY <1>1, <1>2, <1>3, <1>4, <1>5, <1>6, <1>7, <1>8, <1>9, <1>10, <1>11, <1>12,
     <1>13, <1>14, <1>15, <1>16, <1>17, <1>18, <1>19, <1>20, <1>21, <1>22, <1>23,
     <1>24, <1>25, <1>26, <1>27, <1>28, <1>29, <1>30, <1>31, <1>32, <1>33, <1>34,
     <1>35 DEF Next, Cycle, Reconcile

LEMMA StepFacts ==
    TypeOK /\ PointInv /\ RowInv /\ [Next]_vars => CycleFacts'
<1> SUFFICES ASSUME TypeOK, PointInv, RowInv, [Next]_vars PROVE CycleFacts'
  OBVIOUS
<1> USE TradeConstants, FailIsLegal
    DEF TypeOK, NoTrade, vars, tvars, laVars, rows, proc, recon, hist, End, Fail, Transition,
        NextInScan, Free, CycleWaits, ReconcilerWaits,
        PointInv, CycleStatus, CycleFacts, CycleChain, ReconcilerFacts, Refusal, MayAllow, Awaits
<1>1. CASE StartCycle BY <1>1 DEF StartCycle
<1>2. CASE AcquireLock BY <1>2 DEF AcquireLock
<1>3. CASE NoProposal BY <1>3 DEF NoProposal
<1>4. ASSUME NEW t \in Trades, NEW k \in {"approve", "swap"}, Propose(t, k) PROVE CycleFacts'
  BY <1>4 DEF Propose, Trades
<1>5. CASE GateDecide BY <1>5 DEF GateDecide
<1>6. CASE ApplyVerdict BY <1>6 DEF ApplyVerdict
<1>7. CASE RecordQuotePrices BY <1>7 DEF RecordQuotePrices
<1>8. CASE MarkDispatched BY <1>8 DEF MarkDispatched
<1>9. CASE StartCooldown
  BY <1>9 DEF StartCooldown, RowInv
<1>10. CASE PaperFails BY <1>10 DEF PaperFails
<1>11. CASE PrepareFails BY <1>11 DEF PrepareFails
<1>12. CASE Sign BY <1>12 DEF Sign
<1>13. CASE MarkSigned BY <1>13 DEF MarkSigned
<1>14. CASE Send BY <1>14 DEF Send
<1>15. CASE MarkBroadcast BY <1>15 DEF MarkBroadcast
<1>16. CASE BroadcastFails BY <1>16 DEF BroadcastFails
<1>17. CASE ReceiptTimesOut BY <1>17 DEF ReceiptTimesOut
<1>18. CASE ReceiptArrives BY <1>18 DEF ReceiptArrives
<1>19. CASE RecordFill BY <1>19 DEF RecordFill
<1>20. CASE MarkFilled
  BY <1>20 DEF MarkFilled, RowInv
<1>21. ASSUME NEW t \in Trades, ReconcileUnsigned(t) PROVE CycleFacts'
  BY <1>21 DEF ReconcileUnsigned
<1>22. ASSUME NEW t \in Trades, ReconcileUnknown(t) PROVE CycleFacts'
  BY <1>22 DEF ReconcileUnknown
<1>23. ASSUME NEW t \in Trades, ReconcileReceipt(t) PROVE CycleFacts'
  BY <1>23 DEF ReconcileReceipt
<1>24. CASE ReconcileFailed BY <1>24 DEF ReconcileFailed
<1>25. CASE ReconcileBook BY <1>25 DEF ReconcileBook
<1>26. CASE ReconcileFilled BY <1>26 DEF ReconcileFilled
<1>27. CASE ReconcileDone BY <1>27 DEF ReconcileDone
<1>28. ASSUME NEW t \in Trades, NodeAccepts(t) PROVE CycleFacts'
  BY <1>28 DEF NodeAccepts
<1>29. ASSUME NEW t \in Trades, NEW outcome \in {"confirmed", "reverted"}, ChainDecides(t, outcome) PROVE CycleFacts'
  BY <1>29 DEF ChainDecides
<1>30. CASE Control BY <1>30 DEF Control, LANext, Grant, Expire, Leave, Engage, Clear, Pause, Resume
<1>31. CASE LpTakesLock BY <1>31 DEF LpTakesLock
<1>32. CASE LpReleasesLock BY <1>32 DEF LpReleasesLock
<1>33. CASE Crash BY <1>33 DEF Crash
<1>34. CASE Boot BY <1>34 DEF Boot
<1>35. CASE UNCHANGED vars BY <1>35
<1> QED
  BY <1>1, <1>2, <1>3, <1>4, <1>5, <1>6, <1>7, <1>8, <1>9, <1>10, <1>11, <1>12,
     <1>13, <1>14, <1>15, <1>16, <1>17, <1>18, <1>19, <1>20, <1>21, <1>22, <1>23,
     <1>24, <1>25, <1>26, <1>27, <1>28, <1>29, <1>30, <1>31, <1>32, <1>33, <1>34,
     <1>35 DEF Next, Cycle, Reconcile

LEMMA StepChain ==
    TypeOK /\ PointInv /\ RowInv /\ [Next]_vars => CycleChain'
<1> SUFFICES ASSUME TypeOK, PointInv, RowInv, [Next]_vars PROVE CycleChain'
  OBVIOUS
<1> USE TradeConstants, FailIsLegal
    DEF TypeOK, NoTrade, vars, tvars, laVars, rows, proc, recon, hist, End, Fail, Transition,
        NextInScan, Free, CycleWaits, ReconcilerWaits,
        PointInv, CycleStatus, CycleFacts, CycleChain, ReconcilerFacts, Awaits
<1>1. CASE StartCycle BY <1>1 DEF StartCycle
<1>2. CASE AcquireLock BY <1>2 DEF AcquireLock
<1>3. CASE NoProposal BY <1>3 DEF NoProposal
<1>4. ASSUME NEW t \in Trades, NEW k \in {"approve", "swap"}, Propose(t, k) PROVE CycleChain'
  BY <1>4 DEF Propose
<1>5. CASE GateDecide BY <1>5 DEF GateDecide
<1>6. CASE ApplyVerdict BY <1>6 DEF ApplyVerdict
<1>7. CASE RecordQuotePrices BY <1>7 DEF RecordQuotePrices
<1>8. CASE MarkDispatched
  BY <1>8 DEF MarkDispatched, RowInv
<1>9. CASE StartCooldown BY <1>9 DEF StartCooldown
<1>10. CASE PaperFails BY <1>10 DEF PaperFails
<1>11. CASE PrepareFails BY <1>11 DEF PrepareFails
<1>12. CASE Sign
  BY <1>12 DEF Sign, RowInv
<1>13. CASE MarkSigned BY <1>13 DEF MarkSigned
<1>14. CASE Send BY <1>14 DEF Send
<1>15. CASE MarkBroadcast BY <1>15 DEF MarkBroadcast
<1>16. CASE BroadcastFails BY <1>16 DEF BroadcastFails
<1>17. CASE ReceiptTimesOut BY <1>17 DEF ReceiptTimesOut
<1>18. CASE ReceiptArrives BY <1>18 DEF ReceiptArrives
<1>19. CASE RecordFill BY <1>19 DEF RecordFill
<1>20. CASE MarkFilled BY <1>20 DEF MarkFilled
<1>21. ASSUME NEW t \in Trades, ReconcileUnsigned(t) PROVE CycleChain'
  BY <1>21 DEF ReconcileUnsigned
<1>22. ASSUME NEW t \in Trades, ReconcileUnknown(t) PROVE CycleChain'
  BY <1>22 DEF ReconcileUnknown
<1>23. ASSUME NEW t \in Trades, ReconcileReceipt(t) PROVE CycleChain'
  BY <1>23 DEF ReconcileReceipt
<1>24. CASE ReconcileFailed BY <1>24 DEF ReconcileFailed
<1>25. CASE ReconcileBook BY <1>25 DEF ReconcileBook
<1>26. CASE ReconcileFilled BY <1>26 DEF ReconcileFilled
<1>27. CASE ReconcileDone BY <1>27 DEF ReconcileDone
<1>28. ASSUME NEW t \in Trades, NodeAccepts(t) PROVE CycleChain'
  BY <1>28 DEF NodeAccepts
<1>29. ASSUME NEW t \in Trades, NEW outcome \in {"confirmed", "reverted"}, ChainDecides(t, outcome) PROVE CycleChain'
  BY <1>29 DEF ChainDecides
<1>30. CASE Control BY <1>30 DEF Control, LANext, Grant, Expire, Leave, Engage, Clear, Pause, Resume
<1>31. CASE LpTakesLock BY <1>31 DEF LpTakesLock
<1>32. CASE LpReleasesLock BY <1>32 DEF LpReleasesLock
<1>33. CASE Crash BY <1>33 DEF Crash
<1>34. CASE Boot BY <1>34 DEF Boot
<1>35. CASE UNCHANGED vars BY <1>35
<1> QED
  BY <1>1, <1>2, <1>3, <1>4, <1>5, <1>6, <1>7, <1>8, <1>9, <1>10, <1>11, <1>12,
     <1>13, <1>14, <1>15, <1>16, <1>17, <1>18, <1>19, <1>20, <1>21, <1>22, <1>23,
     <1>24, <1>25, <1>26, <1>27, <1>28, <1>29, <1>30, <1>31, <1>32, <1>33, <1>34,
     <1>35 DEF Next, Cycle, Reconcile

LEMMA StepReconciler ==
    TypeOK /\ PointInv /\ RowInv /\ [Next]_vars => ReconcilerFacts'
<1> SUFFICES ASSUME TypeOK, PointInv, RowInv, [Next]_vars PROVE ReconcilerFacts'
  OBVIOUS
<1> USE TradeConstants, FailIsLegal
    DEF TypeOK, NoTrade, vars, tvars, laVars, rows, proc, recon, hist, End, Fail, Transition,
        NextInScan, Free, CycleWaits, ReconcilerWaits,
        PointInv, CycleStatus, CycleFacts, CycleChain, ReconcilerFacts, InFlight, NextRow, Awaits
<1>1. CASE StartCycle BY <1>1 DEF StartCycle
<1>2. CASE AcquireLock BY <1>2 DEF AcquireLock
<1>3. CASE NoProposal BY <1>3 DEF NoProposal
<1>4. ASSUME NEW t \in Trades, NEW k \in {"approve", "swap"}, Propose(t, k) PROVE ReconcilerFacts'
  BY <1>4 DEF Propose
<1>5. CASE GateDecide BY <1>5 DEF GateDecide
<1>6. CASE ApplyVerdict
  BY <1>6 DEF ApplyVerdict, Trades
<1>7. CASE RecordQuotePrices BY <1>7 DEF RecordQuotePrices
<1>8. CASE MarkDispatched BY <1>8 DEF MarkDispatched
<1>9. CASE StartCooldown BY <1>9 DEF StartCooldown
<1>10. CASE PaperFails
  BY <1>10 DEF PaperFails, Trades
<1>11. CASE PrepareFails
  BY <1>11 DEF PrepareFails, Trades
<1>12. CASE Sign
  BY <1>12 DEF Sign, Trades
<1>13. CASE MarkSigned BY <1>13 DEF MarkSigned
<1>14. CASE Send BY <1>14 DEF Send
<1>15. CASE MarkBroadcast BY <1>15 DEF MarkBroadcast
<1>16. CASE BroadcastFails
  BY <1>16 DEF BroadcastFails, Trades
<1>17. CASE ReceiptTimesOut
  BY <1>17 DEF ReceiptTimesOut, Trades
<1>18. CASE ReceiptArrives
  BY <1>18 DEF ReceiptArrives, Trades
<1>19. CASE RecordFill BY <1>19 DEF RecordFill
<1>20. CASE MarkFilled
  BY <1>20 DEF MarkFilled, Trades
<1>21. ASSUME NEW t \in Trades, ReconcileUnsigned(t) PROVE ReconcilerFacts'
  BY <1>21 DEF ReconcileUnsigned
<1>22. ASSUME NEW t \in Trades, ReconcileUnknown(t) PROVE ReconcilerFacts'
  BY <1>22 DEF ReconcileUnknown
<1>23. ASSUME NEW t \in Trades, ReconcileReceipt(t) PROVE ReconcilerFacts'
  BY <1>23 DEF ReconcileReceipt, Trades
<1>24. CASE ReconcileFailed BY <1>24 DEF ReconcileFailed
<1>25. CASE ReconcileBook BY <1>25 DEF ReconcileBook
<1>26. CASE ReconcileFilled BY <1>26 DEF ReconcileFilled
<1>27. CASE ReconcileDone BY <1>27 DEF ReconcileDone
<1>28. ASSUME NEW t \in Trades, NodeAccepts(t) PROVE ReconcilerFacts'
  BY <1>28 DEF NodeAccepts
<1>29. ASSUME NEW t \in Trades, NEW outcome \in {"confirmed", "reverted"}, ChainDecides(t, outcome) PROVE ReconcilerFacts'
  BY <1>29 DEF ChainDecides
<1>30. CASE Control BY <1>30 DEF Control, LANext, Grant, Expire, Leave, Engage, Clear, Pause, Resume
<1>31. CASE LpTakesLock BY <1>31 DEF LpTakesLock
<1>32. CASE LpReleasesLock BY <1>32 DEF LpReleasesLock
<1>33. CASE Crash
  BY <1>33 DEF Crash, Trades
<1>34. CASE Boot
  BY <1>34 DEF Boot, Trades
<1>35. CASE UNCHANGED vars BY <1>35
<1> QED
  BY <1>1, <1>2, <1>3, <1>4, <1>5, <1>6, <1>7, <1>8, <1>9, <1>10, <1>11, <1>12,
     <1>13, <1>14, <1>15, <1>16, <1>17, <1>18, <1>19, <1>20, <1>21, <1>22, <1>23,
     <1>24, <1>25, <1>26, <1>27, <1>28, <1>29, <1>30, <1>31, <1>32, <1>33, <1>34,
     <1>35 DEF Next, Cycle, Reconcile

LEMMA StepRow ==
    TypeOK /\ PointInv /\ RowInv /\ [Next]_vars => RowInv'
<1> SUFFICES ASSUME TypeOK, PointInv, RowInv, [Next]_vars PROVE RowInv'
  OBVIOUS
<1> USE TradeConstants, FailIsLegal
    DEF TypeOK, NoTrade, vars, tvars, laVars, rows, proc, recon, hist, End, Fail, Transition,
        NextInScan, Free, CycleWaits, ReconcilerWaits,
        PointInv, CycleStatus, CycleFacts, CycleChain, ReconcilerFacts, RowInv, InFlight, NextRow, Awaits
<1>1. CASE StartCycle BY <1>1 DEF StartCycle
<1>2. CASE AcquireLock BY <1>2 DEF AcquireLock
<1>3. CASE NoProposal BY <1>3 DEF NoProposal
<1>4. ASSUME NEW t \in Trades, NEW k \in {"approve", "swap"}, Propose(t, k) PROVE RowInv'
  BY <1>4 DEF Propose
<1>5. CASE GateDecide BY <1>5 DEF GateDecide
<1>6. CASE ApplyVerdict BY <1>6 DEF ApplyVerdict
<1>7. CASE RecordQuotePrices BY <1>7 DEF RecordQuotePrices
<1>8. CASE MarkDispatched BY <1>8 DEF MarkDispatched
<1>9. CASE StartCooldown BY <1>9 DEF StartCooldown
<1>10. CASE PaperFails BY <1>10 DEF PaperFails
<1>11. CASE PrepareFails BY <1>11 DEF PrepareFails
<1>12. CASE Sign BY <1>12 DEF Sign
<1>13. CASE MarkSigned BY <1>13 DEF MarkSigned
<1>14. CASE Send BY <1>14 DEF Send
<1>15. CASE MarkBroadcast BY <1>15 DEF MarkBroadcast
<1>16. CASE BroadcastFails BY <1>16 DEF BroadcastFails
<1>17. CASE ReceiptTimesOut BY <1>17 DEF ReceiptTimesOut
<1>18. CASE ReceiptArrives BY <1>18 DEF ReceiptArrives
<1>19. CASE RecordFill BY <1>19 DEF RecordFill
<1>20. CASE MarkFilled BY <1>20 DEF MarkFilled
<1>21. ASSUME NEW t \in Trades, ReconcileUnsigned(t) PROVE RowInv'
  BY <1>21 DEF ReconcileUnsigned
<1>22. ASSUME NEW t \in Trades, ReconcileUnknown(t) PROVE RowInv'
  BY <1>22 DEF ReconcileUnknown
<1>23. ASSUME NEW t \in Trades, ReconcileReceipt(t) PROVE RowInv'
  BY <1>23 DEF ReconcileReceipt
<1>24. CASE ReconcileFailed BY <1>24 DEF ReconcileFailed
<1>25. CASE ReconcileBook BY <1>25 DEF ReconcileBook
<1>26. CASE ReconcileFilled BY <1>26 DEF ReconcileFilled
<1>27. CASE ReconcileDone BY <1>27 DEF ReconcileDone
<1>28. ASSUME NEW t \in Trades, NodeAccepts(t) PROVE RowInv'
  BY <1>28 DEF NodeAccepts
<1>29. ASSUME NEW t \in Trades, NEW outcome \in {"confirmed", "reverted"}, ChainDecides(t, outcome) PROVE RowInv'
  BY <1>29 DEF ChainDecides
<1>30. CASE Control BY <1>30 DEF Control, LANext, Grant, Expire, Leave, Engage, Clear, Pause, Resume
<1>31. CASE LpTakesLock BY <1>31 DEF LpTakesLock
<1>32. CASE LpReleasesLock BY <1>32 DEF LpReleasesLock
<1>33. CASE Crash BY <1>33 DEF Crash
<1>34. CASE Boot BY <1>34 DEF Boot
<1>35. CASE UNCHANGED vars BY <1>35
<1> QED
  BY <1>1, <1>2, <1>3, <1>4, <1>5, <1>6, <1>7, <1>8, <1>9, <1>10, <1>11, <1>12,
     <1>13, <1>14, <1>15, <1>16, <1>17, <1>18, <1>19, <1>20, <1>21, <1>22, <1>23,
     <1>24, <1>25, <1>26, <1>27, <1>28, <1>29, <1>30, <1>31, <1>32, <1>33, <1>34,
     <1>35 DEF Next, Cycle, Reconcile

LEMMA StepSpent ==
    TypeOK /\ PointInv /\ RowInv /\ SpentUnderAVerdict /\ [Next]_vars => SpentUnderAVerdict'
<1> SUFFICES ASSUME TypeOK, PointInv, RowInv, SpentUnderAVerdict, [Next]_vars PROVE SpentUnderAVerdict'
  OBVIOUS
<1> USE TradeConstants, FailIsLegal
    DEF TypeOK, NoTrade, vars, tvars, laVars, rows, proc, recon, hist, End, Fail, Transition,
        NextInScan, Free, CycleWaits, ReconcilerWaits,
        PointInv, CycleStatus, CycleFacts, CycleChain, ReconcilerFacts, RowInv, SpentUnderAVerdict, Awaits
<1>1. CASE StartCycle BY <1>1 DEF StartCycle
<1>2. CASE AcquireLock BY <1>2 DEF AcquireLock
<1>3. CASE NoProposal BY <1>3 DEF NoProposal
<1>4. ASSUME NEW t \in Trades, NEW k \in {"approve", "swap"}, Propose(t, k) PROVE SpentUnderAVerdict'
  BY <1>4 DEF Propose
<1>5. CASE GateDecide BY <1>5 DEF GateDecide
<1>6. CASE ApplyVerdict BY <1>6 DEF ApplyVerdict
<1>7. CASE RecordQuotePrices BY <1>7 DEF RecordQuotePrices
<1>8. CASE MarkDispatched BY <1>8 DEF MarkDispatched
<1>9. CASE StartCooldown BY <1>9 DEF StartCooldown
<1>10. CASE PaperFails BY <1>10 DEF PaperFails
<1>11. CASE PrepareFails BY <1>11 DEF PrepareFails
<1>12. CASE Sign BY <1>12 DEF Sign
<1>13. CASE MarkSigned BY <1>13 DEF MarkSigned
<1>14. CASE Send BY <1>14 DEF Send
<1>15. CASE MarkBroadcast BY <1>15 DEF MarkBroadcast
<1>16. CASE BroadcastFails BY <1>16 DEF BroadcastFails
<1>17. CASE ReceiptTimesOut BY <1>17 DEF ReceiptTimesOut
<1>18. CASE ReceiptArrives BY <1>18 DEF ReceiptArrives
<1>19. CASE RecordFill BY <1>19 DEF RecordFill
<1>20. CASE MarkFilled BY <1>20 DEF MarkFilled
<1>21. ASSUME NEW t \in Trades, ReconcileUnsigned(t) PROVE SpentUnderAVerdict'
  BY <1>21 DEF ReconcileUnsigned
<1>22. ASSUME NEW t \in Trades, ReconcileUnknown(t) PROVE SpentUnderAVerdict'
  BY <1>22 DEF ReconcileUnknown
<1>23. ASSUME NEW t \in Trades, ReconcileReceipt(t) PROVE SpentUnderAVerdict'
  BY <1>23 DEF ReconcileReceipt
<1>24. CASE ReconcileFailed BY <1>24 DEF ReconcileFailed
<1>25. CASE ReconcileBook BY <1>25 DEF ReconcileBook
<1>26. CASE ReconcileFilled BY <1>26 DEF ReconcileFilled
<1>27. CASE ReconcileDone BY <1>27 DEF ReconcileDone
<1>28. ASSUME NEW t \in Trades, NodeAccepts(t) PROVE SpentUnderAVerdict'
  BY <1>28 DEF NodeAccepts
<1>29. ASSUME NEW t \in Trades, NEW outcome \in {"confirmed", "reverted"}, ChainDecides(t, outcome) PROVE SpentUnderAVerdict'
  BY <1>29 DEF ChainDecides
<1>30. CASE Control BY <1>30 DEF Control, LANext, Grant, Expire, Leave, Engage, Clear, Pause, Resume
<1>31. CASE LpTakesLock BY <1>31 DEF LpTakesLock
<1>32. CASE LpReleasesLock BY <1>32 DEF LpReleasesLock
<1>33. CASE Crash BY <1>33 DEF Crash
<1>34. CASE Boot BY <1>34 DEF Boot
<1>35. CASE UNCHANGED vars BY <1>35
<1> QED
  BY <1>1, <1>2, <1>3, <1>4, <1>5, <1>6, <1>7, <1>8, <1>9, <1>10, <1>11, <1>12,
     <1>13, <1>14, <1>15, <1>16, <1>17, <1>18, <1>19, <1>20, <1>21, <1>22, <1>23,
     <1>24, <1>25, <1>26, <1>27, <1>28, <1>29, <1>30, <1>31, <1>32, <1>33, <1>34,
     <1>35 DEF Next, Cycle, Reconcile

LEMMA StepStranded ==
    TypeOK /\ PointInv /\ RowInv /\ NoStrandedRow /\ [Next]_vars => NoStrandedRow'
<1> SUFFICES ASSUME TypeOK, PointInv, RowInv, NoStrandedRow, [Next]_vars PROVE NoStrandedRow'
  OBVIOUS
<1> USE TradeConstants, FailIsLegal
    DEF TypeOK, NoTrade, vars, tvars, laVars, rows, proc, recon, hist, End, Fail, Transition,
        NextInScan, Free, CycleWaits, ReconcilerWaits,
        PointInv, CycleStatus, CycleFacts, CycleChain, ReconcilerFacts, NoStrandedRow, InFlight, NextRow, Awaits
<1>1. CASE StartCycle BY <1>1 DEF StartCycle
<1>2. CASE AcquireLock BY <1>2 DEF AcquireLock
<1>3. CASE NoProposal BY <1>3 DEF NoProposal
<1>4. ASSUME NEW t \in Trades, NEW k \in {"approve", "swap"}, Propose(t, k) PROVE NoStrandedRow'
  <2>1. \A u \in Trades \ {t} : status'[u] = status[u]
    BY <1>4 DEF Propose
  <2>2. cur' = t /\ orphans' = orphans /\ pc \in {"deciding", "approved"}
    BY <1>4 DEF Propose
  <2> QED
    BY <2>1, <2>2 DEF Trades
<1>5. CASE GateDecide BY <1>5 DEF GateDecide
<1>6. CASE ApplyVerdict BY <1>6 DEF ApplyVerdict
<1>7. CASE RecordQuotePrices BY <1>7 DEF RecordQuotePrices
<1>8. CASE MarkDispatched BY <1>8 DEF MarkDispatched
<1>9. CASE StartCooldown BY <1>9 DEF StartCooldown
<1>10. CASE PaperFails BY <1>10 DEF PaperFails
<1>11. CASE PrepareFails BY <1>11 DEF PrepareFails
<1>12. CASE Sign BY <1>12 DEF Sign
<1>13. CASE MarkSigned BY <1>13 DEF MarkSigned
<1>14. CASE Send BY <1>14 DEF Send
<1>15. CASE MarkBroadcast BY <1>15 DEF MarkBroadcast
<1>16. CASE BroadcastFails BY <1>16 DEF BroadcastFails
<1>17. CASE ReceiptTimesOut BY <1>17 DEF ReceiptTimesOut
<1>18. CASE ReceiptArrives BY <1>18 DEF ReceiptArrives
<1>19. CASE RecordFill BY <1>19 DEF RecordFill
<1>20. CASE MarkFilled BY <1>20 DEF MarkFilled
<1>21. ASSUME NEW t \in Trades, ReconcileUnsigned(t) PROVE NoStrandedRow'
  BY <1>21 DEF ReconcileUnsigned
<1>22. ASSUME NEW t \in Trades, ReconcileUnknown(t) PROVE NoStrandedRow'
  BY <1>22 DEF ReconcileUnknown
<1>23. ASSUME NEW t \in Trades, ReconcileReceipt(t) PROVE NoStrandedRow'
  BY <1>23 DEF ReconcileReceipt
<1>24. CASE ReconcileFailed BY <1>24 DEF ReconcileFailed
<1>25. CASE ReconcileBook BY <1>25 DEF ReconcileBook
<1>26. CASE ReconcileFilled BY <1>26 DEF ReconcileFilled
<1>27. CASE ReconcileDone BY <1>27 DEF ReconcileDone
<1>28. ASSUME NEW t \in Trades, NodeAccepts(t) PROVE NoStrandedRow'
  BY <1>28 DEF NodeAccepts
<1>29. ASSUME NEW t \in Trades, NEW outcome \in {"confirmed", "reverted"}, ChainDecides(t, outcome) PROVE NoStrandedRow'
  BY <1>29 DEF ChainDecides
<1>30. CASE Control BY <1>30 DEF Control, LANext, Grant, Expire, Leave, Engage, Clear, Pause, Resume
<1>31. CASE LpTakesLock BY <1>31 DEF LpTakesLock
<1>32. CASE LpReleasesLock BY <1>32 DEF LpReleasesLock
<1>33. CASE Crash BY <1>33 DEF Crash
<1>34. CASE Boot BY <1>34 DEF Boot
<1>35. CASE UNCHANGED vars BY <1>35
<1> QED
  BY <1>1, <1>2, <1>3, <1>4, <1>5, <1>6, <1>7, <1>8, <1>9, <1>10, <1>11, <1>12,
     <1>13, <1>14, <1>15, <1>16, <1>17, <1>18, <1>19, <1>20, <1>21, <1>22, <1>23,
     <1>24, <1>25, <1>26, <1>27, <1>28, <1>29, <1>30, <1>31, <1>32, <1>33, <1>34,
     <1>35 DEF Next, Cycle, Reconcile

LEMMA StepBooks ==
    TypeOK /\ PointInv /\ RowInv /\ SpentUnderAVerdict /\ BooksInv /\ [Next]_vars => BooksInv'
<1> SUFFICES ASSUME TypeOK, PointInv, RowInv, SpentUnderAVerdict, BooksInv, [Next]_vars PROVE BooksInv'
  OBVIOUS
<1> USE TradeConstants, FailIsLegal
    DEF TypeOK, NoTrade, vars, tvars, laVars, rows, proc, recon, hist, End, Fail, Transition,
        NextInScan, Free, CycleWaits, ReconcilerWaits,
        PointInv, CycleStatus, CycleFacts, CycleChain, ReconcilerFacts, RowInv, SpentUnderAVerdict, BooksInv,
        NextRow, InFlight, Awaits
<1>1. CASE StartCycle BY <1>1 DEF StartCycle
<1>2. CASE AcquireLock BY <1>2 DEF AcquireLock
<1>3. CASE NoProposal BY <1>3 DEF NoProposal
<1>4. ASSUME NEW t \in Trades, NEW k \in {"approve", "swap"}, Propose(t, k) PROVE BooksInv'
  <2>1. t # cur /\ t # rcur
    BY <1>4 DEF Propose, Trades
  <2>2. fills' = fills /\ torn' = torn /\ rcur' = rcur /\ rpc' = rpc /\ pc' = "proposed"
    BY <1>4 DEF Propose
  <2>3. \A u \in Trades \ {t} : status'[u] = status[u] /\ kind'[u] = kind[u]
    BY <1>4 DEF Propose
  <2>4. status[t] = "none" /\ status'[t] = "proposed"
    BY <1>4 DEF Propose
  <2>5. pc \in {"deciding", "approved"}
    BY <1>4 DEF Propose
  <2> QED
    BY <2>1, <2>2, <2>3, <2>4, <2>5
<1>5. CASE GateDecide BY <1>5 DEF GateDecide
<1>6. CASE ApplyVerdict BY <1>6 DEF ApplyVerdict
<1>7. CASE RecordQuotePrices BY <1>7 DEF RecordQuotePrices
<1>8. CASE MarkDispatched BY <1>8 DEF MarkDispatched
<1>9. CASE StartCooldown BY <1>9 DEF StartCooldown
<1>10. CASE PaperFails BY <1>10 DEF PaperFails
<1>11. CASE PrepareFails BY <1>11 DEF PrepareFails
<1>12. CASE Sign BY <1>12 DEF Sign
<1>13. CASE MarkSigned BY <1>13 DEF MarkSigned
<1>14. CASE Send BY <1>14 DEF Send
<1>15. CASE MarkBroadcast BY <1>15 DEF MarkBroadcast
<1>16. CASE BroadcastFails BY <1>16 DEF BroadcastFails
<1>17. CASE ReceiptTimesOut BY <1>17 DEF ReceiptTimesOut
<1>18. CASE ReceiptArrives BY <1>18 DEF ReceiptArrives
<1>19. CASE RecordFill BY <1>19 DEF RecordFill
<1>20. CASE MarkFilled BY <1>20 DEF MarkFilled
<1>21. ASSUME NEW t \in Trades, ReconcileUnsigned(t) PROVE BooksInv'
  BY <1>21 DEF ReconcileUnsigned
<1>22. ASSUME NEW t \in Trades, ReconcileUnknown(t) PROVE BooksInv'
  BY <1>22 DEF ReconcileUnknown
<1>23. ASSUME NEW t \in Trades, ReconcileReceipt(t) PROVE BooksInv'
  BY <1>23 DEF ReconcileReceipt
<1>24. CASE ReconcileFailed BY <1>24 DEF ReconcileFailed
<1>25. CASE ReconcileBook BY <1>25 DEF ReconcileBook
<1>26. CASE ReconcileFilled BY <1>26 DEF ReconcileFilled
<1>27. CASE ReconcileDone BY <1>27 DEF ReconcileDone
<1>28. ASSUME NEW t \in Trades, NodeAccepts(t) PROVE BooksInv'
  BY <1>28 DEF NodeAccepts
<1>29. ASSUME NEW t \in Trades, NEW outcome \in {"confirmed", "reverted"}, ChainDecides(t, outcome) PROVE BooksInv'
  BY <1>29 DEF ChainDecides
<1>30. CASE Control BY <1>30 DEF Control, LANext, Grant, Expire, Leave, Engage, Clear, Pause, Resume
<1>31. CASE LpTakesLock BY <1>31 DEF LpTakesLock
<1>32. CASE LpReleasesLock BY <1>32 DEF LpReleasesLock
<1>33. CASE Crash BY <1>33 DEF Crash
<1>34. CASE Boot BY <1>34 DEF Boot
<1>35. CASE UNCHANGED vars BY <1>35
<1> QED
  BY <1>1, <1>2, <1>3, <1>4, <1>5, <1>6, <1>7, <1>8, <1>9, <1>10, <1>11, <1>12,
     <1>13, <1>14, <1>15, <1>16, <1>17, <1>18, <1>19, <1>20, <1>21, <1>22, <1>23,
     <1>24, <1>25, <1>26, <1>27, <1>28, <1>29, <1>30, <1>31, <1>32, <1>33, <1>34,
     <1>35 DEF Next, Cycle, Reconcile

-----------------------------------------------------------------------------
\* TradeInv holds in every reachable state, for any number of trades and deaths.
THEOREM TradeInvariant == Spec => []TradeInv
<1>1. TradeInv /\ [Next]_vars => TradeInv'
  BY StepType, StepStatus, StepFacts, StepChain, StepReconciler, StepRow, StepSpent,
     StepStranded, StepBooks DEF TradeInv, PointInv
<1> QED
  BY InitTrade, <1>1, PTL DEF Spec

\* Every column keeps its type (trading/trades.ts, execution/live.ts).
THEOREM TradeTypes == Spec => []TypeOK
<1>1. TradeInv => TypeOK
  BY DEF TradeInv
<1> QED
  BY <1>1, TradeInvariant, PTL

\* No mark of the executors or of the reconciler throws (trades.ts #transition).
THEOREM MarksNeverThrow == Spec => []MarksAreLegal
<1>1. TradeInv => MarksAreLegal
  <2> SUFFICES ASSUME TradeInv PROVE MarksAreLegal
    OBVIOUS
  <2> USE DEF TradeInv, PointInv, TypeOK
  <2>1. cur # NoTrade => Target(pc) \subseteq TRANSITIONS(status[cur])
    BY DEF CycleStatus, CycleFacts, Target, TRANSITIONS, Pcs, Awaits
  <2>2. rcur # NoTrade => Target(rpc) \subseteq TRANSITIONS(status[rcur])
    BY DEF ReconcilerFacts, Target, TRANSITIONS
  <2>3. \A t \in todo : "failed" \in TRANSITIONS(status[t])
    BY DEF ReconcilerFacts, InFlight, TRANSITIONS
  <2> QED
    BY <2>1, <2>2, <2>3 DEF MarksAreLegal
<1> QED
  BY <1>1, TradeInvariant, PTL

\* The network sees only what the database names, and a settled row says what the chain
\* said (live.ts #signAndSend, reconcile).
THEOREM ChainDecidesTheRow == Spec => []ChainIsTheTruth
<1>1. TradeInv => ChainIsTheTruth
  BY DEF TradeInv, TypeOK, Statuses, RowInv, ChainIsTheTruth
<1> QED
  BY <1>1, TradeInvariant, PTL

\* One use of the key per row, under an allowed verdict, cooldown and prices on disk.
THEOREM OneSignatureUnderAVerdict == Spec => []SpentUnderAVerdict
<1>1. TradeInv => SpentUnderAVerdict
  BY DEF TradeInv
<1> QED
  BY <1>1, TradeInvariant, PTL

\* The ledger and the rows agree but for a torn booking (live.ts #bookFill, paper.ts).
THEOREM LedgerAgrees == Spec => []BooksAgree
<1>1. TradeInv => BooksAgree
  BY DEF TradeInv, TypeOK, BooksInv, BooksAgree
<1> QED
  BY <1>1, TradeInvariant, PTL

\* Only a death strands a row before its signature (pipeline.ts #run, live.ts #fail).
THEOREM CycleStrandsNoRow == Spec => []NoStrandedRow
<1>1. TradeInv => NoStrandedRow
  BY DEF TradeInv
<1> QED
  BY <1>1, TradeInvariant, PTL

-----------------------------------------------------------------------------
\* What StopHolds says of one step.
KeyUse ==
    \A t \in Trades : signatures'[t] # signatures[t] => mode = "LIVE" /\ ~estop /\ ~paused

LEMMA StepKey ==
    TypeOK /\ [Next]_vars => KeyUse
<1> SUFFICES ASSUME TypeOK, [Next]_vars PROVE KeyUse
  OBVIOUS
<1> USE DEF KeyUse, vars, tvars, rows, proc, recon, hist, End, Refusal
<1>1. CASE StartCycle BY <1>1 DEF StartCycle
<1>2. CASE AcquireLock BY <1>2 DEF AcquireLock
<1>3. CASE NoProposal BY <1>3 DEF NoProposal
<1>4. ASSUME NEW t \in Trades, NEW k \in {"approve", "swap"}, Propose(t, k) PROVE KeyUse
  BY <1>4 DEF Propose
<1>5. CASE GateDecide BY <1>5 DEF GateDecide
<1>6. CASE ApplyVerdict BY <1>6 DEF ApplyVerdict
<1>7. CASE RecordQuotePrices BY <1>7 DEF RecordQuotePrices
<1>8. CASE MarkDispatched BY <1>8 DEF MarkDispatched
<1>9. CASE StartCooldown BY <1>9 DEF StartCooldown
<1>10. CASE PaperFails BY <1>10 DEF PaperFails
<1>11. CASE PrepareFails BY <1>11 DEF PrepareFails
<1>12. CASE Sign BY <1>12 DEF Sign
<1>13. CASE MarkSigned BY <1>13 DEF MarkSigned
<1>14. CASE Send BY <1>14 DEF Send
<1>15. CASE MarkBroadcast BY <1>15 DEF MarkBroadcast
<1>16. CASE BroadcastFails BY <1>16 DEF BroadcastFails
<1>17. CASE ReceiptTimesOut BY <1>17 DEF ReceiptTimesOut
<1>18. CASE ReceiptArrives BY <1>18 DEF ReceiptArrives
<1>19. CASE RecordFill BY <1>19 DEF RecordFill
<1>20. CASE MarkFilled BY <1>20 DEF MarkFilled
<1>21. ASSUME NEW t \in Trades, ReconcileUnsigned(t) PROVE KeyUse
  BY <1>21 DEF ReconcileUnsigned
<1>22. ASSUME NEW t \in Trades, ReconcileUnknown(t) PROVE KeyUse
  BY <1>22 DEF ReconcileUnknown
<1>23. ASSUME NEW t \in Trades, ReconcileReceipt(t) PROVE KeyUse
  BY <1>23 DEF ReconcileReceipt
<1>24. CASE ReconcileFailed BY <1>24 DEF ReconcileFailed
<1>25. CASE ReconcileBook BY <1>25 DEF ReconcileBook
<1>26. CASE ReconcileFilled BY <1>26 DEF ReconcileFilled
<1>27. CASE ReconcileDone BY <1>27 DEF ReconcileDone
<1>28. ASSUME NEW t \in Trades, NodeAccepts(t) PROVE KeyUse
  BY <1>28 DEF NodeAccepts
<1>29. ASSUME NEW t \in Trades, NEW outcome \in {"confirmed", "reverted"}, ChainDecides(t, outcome) PROVE KeyUse
  BY <1>29 DEF ChainDecides
<1>30. CASE Control
  BY <1>30 DEF Control
<1>31. CASE LpTakesLock BY <1>31 DEF LpTakesLock
<1>32. CASE LpReleasesLock BY <1>32 DEF LpReleasesLock
<1>33. CASE Crash BY <1>33 DEF Crash
<1>34. CASE Boot BY <1>34 DEF Boot
<1>35. CASE UNCHANGED vars BY <1>35
<1> QED
  BY <1>1, <1>2, <1>3, <1>4, <1>5, <1>6, <1>7, <1>8, <1>9, <1>10, <1>11, <1>12,
     <1>13, <1>14, <1>15, <1>16, <1>17, <1>18, <1>19, <1>20, <1>21, <1>22, <1>23,
     <1>24, <1>25, <1>26, <1>27, <1>28, <1>29, <1>30, <1>31, <1>32, <1>33, <1>34,
     <1>35 DEF Next, Cycle, Reconcile

\* No key is used with a switch on or outside LIVE (live.ts #signAndSend).
THEOREM StopReachesTheKey == Spec => StopHolds
<1>1. TypeOK /\ [Next]_vars => [KeyUse]_vars
  BY StepKey
<1> QED
  BY <1>1, TradeTypes, PTL DEF Spec, StopHolds, KeyUse

-----------------------------------------------------------------------------
(***************************************************************************)
(* The executors implement TradeLifecycle.  A step that writes a status    *)
(* moves one phase or none; the rest of the steps leave the phases and the *)
(* chain alone.                                                            *)
(***************************************************************************)
Phases == [t \in Trades |-> Phase(status[t])]

LEMMA PhaseTable ==
    /\ Phase("none") = "none"
    /\ Phase("proposed") = "open" /\ Phase("allowed") = "open" /\ Phase("dispatched") = "open"
    /\ Phase("signed") = "committed" /\ Phase("broadcast") = "committed"
    /\ Phase("filled") = "filled"
    /\ Phase("failed") = "void" /\ Phase("rejected") = "void"
  BY DEF Phase

\* The writes to a row's status that the lifecycle allows.
RowMove(t, s) ==
    /\ status' = [status EXCEPT ![t] = s]
    /\ net' = net
    /\ \/ status[t] = "none" /\ s = "proposed"
       \/ /\ status[t] \in {"proposed", "allowed", "dispatched"}
          /\ s \in {"allowed", "dispatched", "rejected", "failed", "filled", "signed"}
       \/ status[t] = "signed" /\ s = "broadcast"
       \/ status[t] \in {"signed", "broadcast"} /\ s = "filled" /\ net[t] = "confirmed"
       \/ status[t] \in {"signed", "broadcast"} /\ s = "failed" /\ net[t] = "reverted"

\* The changes on the chain that it allows.
ChainMove(t) ==
    /\ status' = status
    /\ \/ /\ status[t] \in {"signed", "broadcast"} /\ net[t] = "none"
          /\ net' = [net EXCEPT ![t] = "sent"]
       \/ net[t] = "sent" /\ net' = [net EXCEPT ![t] = "pending"]
       \/ /\ net[t] = "pending"
          /\ \E o \in {"confirmed", "reverted"} : net' = [net EXCEPT ![t] = o]

LEMMA RowMoveIsAbstract ==
    ASSUME TypeOK, NEW t \in Trades, NEW s \in Statuses, RowMove(t, s)
    PROVE  [Lifecycle!LCNext]_(Lifecycle!lcVars)
<1>1. Phases' = [Phases EXCEPT ![t] = Phase(s)] /\ Phases[t] = Phase(status[t])
  BY DEF TypeOK, Phases, RowMove
<1>2. \/ Phase(s) = Phase(status[t])
      \/ Phase(status[t]) = "none" /\ Phase(s) = "open"
      \/ Phase(status[t]) = "open" /\ Phase(s) \in {"void", "filled", "committed"}
      \/ Phase(status[t]) = "committed" /\ Phase(s) = "filled" /\ net[t] = "confirmed"
      \/ Phase(status[t]) = "committed" /\ Phase(s) = "void" /\ net[t] = "reverted"
  BY PhaseTable DEF RowMove
<1>3. CASE Phase(s) = Phase(status[t])
  BY <1>1, <1>3 DEF Phases, RowMove, Lifecycle!lcVars
<1>4. CASE Phase(s) # Phase(status[t])
  <2>1. Lifecycle!Open(t) \/ Lifecycle!Abandon(t) \/ Lifecycle!Simulate(t)
        \/ Lifecycle!Commit(t) \/ Lifecycle!Settle(t)
    BY <1>1, <1>2, <1>4
    DEF Phases, RowMove, Lifecycle!Open, Lifecycle!Abandon, Lifecycle!Simulate,
        Lifecycle!Commit, Lifecycle!Settle, Lifecycle!Move
  <2> QED
    BY <2>1 DEF Lifecycle!LCNext
<1> QED
  BY <1>3, <1>4

LEMMA ChainMoveIsAbstract ==
    ASSUME TypeOK, NEW t \in Trades, ChainMove(t)
    PROVE  [Lifecycle!LCNext]_(Lifecycle!lcVars)
<1>1. Phases' = Phases /\ Phases[t] = Phase(status[t])
  BY DEF TypeOK, Phases, ChainMove
<1>2. Lifecycle!Transmit(t) \/ Lifecycle!ChainStep(t)
  BY <1>1, PhaseTable DEF Phases, ChainMove, Lifecycle!Transmit, Lifecycle!ChainStep
<1> QED
  BY <1>2 DEF Lifecycle!LCNext

LEMMA StepLifecycle ==
    TradeInv /\ [Next]_vars => [Lifecycle!LCNext]_(Lifecycle!lcVars)
<1> SUFFICES ASSUME TradeInv, [Next]_vars PROVE [Lifecycle!LCNext]_(Lifecycle!lcVars)
  OBVIOUS
<1> USE TradeConstants, FailIsLegal
    DEF TradeInv, TypeOK, NoTrade, vars, tvars, rows, proc, recon, hist, End, Fail, Transition,
        NextInScan, PointInv, CycleStatus, CycleFacts, CycleChain, ReconcilerFacts, RowInv
<1>1. CASE StartCycle BY <1>1 DEF StartCycle, Lifecycle!lcVars
<1>2. CASE AcquireLock BY <1>2 DEF AcquireLock, Lifecycle!lcVars
<1>3. CASE NoProposal BY <1>3 DEF NoProposal, Lifecycle!lcVars
<1>4. ASSUME NEW t \in Trades, NEW k \in {"approve", "swap"}, Propose(t, k) PROVE [Lifecycle!LCNext]_(Lifecycle!lcVars)
  <2>1. t \in Trades /\ RowMove(t, "proposed")
    BY <1>4 DEF Propose, RowMove
  <2> QED
    BY <2>1, RowMoveIsAbstract DEF Statuses
<1>5. CASE GateDecide BY <1>5 DEF GateDecide, Lifecycle!lcVars
<1>6. CASE ApplyVerdict
  <2>1. cur \in Trades /\ (RowMove(cur, "allowed") \/ RowMove(cur, "rejected"))
    BY <1>6 DEF ApplyVerdict, RowMove
  <2> QED
    BY <2>1, RowMoveIsAbstract DEF Statuses
<1>7. CASE RecordQuotePrices
  <2>1. \/ status' = status /\ net' = net
        \/ cur \in Trades /\ RowMove(cur, "failed")
    BY <1>7 DEF RecordQuotePrices, RowMove
  <2> QED
    BY <2>1, RowMoveIsAbstract DEF Statuses, Lifecycle!lcVars
<1>8. CASE MarkDispatched
  <2>1. \/ status' = status /\ net' = net
        \/ cur \in Trades /\ RowMove(cur, "dispatched")
    BY <1>8 DEF MarkDispatched, RowMove
  <2> QED
    BY <2>1, RowMoveIsAbstract DEF Statuses, Lifecycle!lcVars
<1>9. CASE StartCooldown BY <1>9 DEF StartCooldown, Lifecycle!lcVars
<1>10. CASE PaperFails
  <2>1. cur \in Trades /\ RowMove(cur, "failed")
    BY <1>10 DEF PaperFails, RowMove
  <2> QED
    BY <2>1, RowMoveIsAbstract DEF Statuses
<1>11. CASE PrepareFails
  <2>1. cur \in Trades /\ RowMove(cur, "failed")
    BY <1>11 DEF PrepareFails, RowMove
  <2> QED
    BY <2>1, RowMoveIsAbstract DEF Statuses
<1>12. CASE Sign
  <2>1. \/ status' = status /\ net' = net
        \/ cur \in Trades /\ RowMove(cur, "failed")
    BY <1>12 DEF Sign, RowMove
  <2> QED
    BY <2>1, RowMoveIsAbstract DEF Statuses, Lifecycle!lcVars
<1>13. CASE MarkSigned
  <2>1. cur \in Trades /\ RowMove(cur, "signed")
    BY <1>13 DEF MarkSigned, RowMove
  <2> QED
    BY <2>1, RowMoveIsAbstract DEF Statuses
<1>14. CASE Send
  <2>1. cur \in Trades /\ ChainMove(cur)
    BY <1>14 DEF Send, ChainMove
  <2> QED
    BY <2>1, ChainMoveIsAbstract
<1>15. CASE MarkBroadcast
  <2>1. cur \in Trades /\ RowMove(cur, "broadcast")
    BY <1>15 DEF MarkBroadcast, RowMove
  <2> QED
    BY <2>1, RowMoveIsAbstract DEF Statuses
<1>16. CASE BroadcastFails BY <1>16 DEF BroadcastFails, Lifecycle!lcVars
<1>17. CASE ReceiptTimesOut BY <1>17 DEF ReceiptTimesOut, Lifecycle!lcVars
<1>18. CASE ReceiptArrives
  <2>1. \/ status' = status /\ net' = net
        \/ cur \in Trades /\ RowMove(cur, "failed")
    BY <1>18 DEF ReceiptArrives, RowMove
  <2> QED
    BY <2>1, RowMoveIsAbstract DEF Statuses, Lifecycle!lcVars
<1>19. CASE RecordFill BY <1>19 DEF RecordFill, Lifecycle!lcVars
<1>20. CASE MarkFilled
  <2>1. cur \in Trades /\ RowMove(cur, "filled")
    BY <1>20 DEF MarkFilled, RowMove
  <2> QED
    BY <2>1, RowMoveIsAbstract DEF Statuses
<1>21. ASSUME NEW t \in Trades, ReconcileUnsigned(t) PROVE [Lifecycle!LCNext]_(Lifecycle!lcVars)
  <2>1. t \in Trades /\ RowMove(t, "failed")
    BY <1>21 DEF ReconcileUnsigned, RowMove
  <2> QED
    BY <2>1, RowMoveIsAbstract DEF Statuses
<1>22. ASSUME NEW t \in Trades, ReconcileUnknown(t) PROVE [Lifecycle!LCNext]_(Lifecycle!lcVars)
  BY <1>22 DEF ReconcileUnknown, Lifecycle!lcVars
<1>23. ASSUME NEW t \in Trades, ReconcileReceipt(t) PROVE [Lifecycle!LCNext]_(Lifecycle!lcVars)
  <2>1. \/ status' = status /\ net' = net
        \/ t \in Trades /\ RowMove(t, "broadcast")
    BY <1>23 DEF ReconcileReceipt, RowMove
  <2> QED
    BY <2>1, RowMoveIsAbstract DEF Statuses, Lifecycle!lcVars
<1>24. CASE ReconcileFailed
  <2>1. rcur \in Trades /\ RowMove(rcur, "failed")
    BY <1>24 DEF ReconcileFailed, RowMove
  <2> QED
    BY <2>1, RowMoveIsAbstract DEF Statuses
<1>25. CASE ReconcileBook BY <1>25 DEF ReconcileBook, Lifecycle!lcVars
<1>26. CASE ReconcileFilled
  <2>1. rcur \in Trades /\ RowMove(rcur, "filled")
    BY <1>26 DEF ReconcileFilled, RowMove
  <2> QED
    BY <2>1, RowMoveIsAbstract DEF Statuses
<1>27. CASE ReconcileDone BY <1>27 DEF ReconcileDone, Lifecycle!lcVars
<1>28. ASSUME NEW t \in Trades, NodeAccepts(t) PROVE [Lifecycle!LCNext]_(Lifecycle!lcVars)
  <2>1. t \in Trades /\ ChainMove(t)
    BY <1>28 DEF NodeAccepts, ChainMove
  <2> QED
    BY <2>1, ChainMoveIsAbstract
<1>29. ASSUME NEW t \in Trades, NEW outcome \in {"confirmed", "reverted"}, ChainDecides(t, outcome) PROVE [Lifecycle!LCNext]_(Lifecycle!lcVars)
  <2>1. t \in Trades /\ ChainMove(t)
    BY <1>29 DEF ChainDecides, ChainMove
  <2> QED
    BY <2>1, ChainMoveIsAbstract
<1>30. CASE Control
  BY <1>30 DEF Control, Lifecycle!lcVars
<1>31. CASE LpTakesLock BY <1>31 DEF LpTakesLock, Lifecycle!lcVars
<1>32. CASE LpReleasesLock BY <1>32 DEF LpReleasesLock, Lifecycle!lcVars
<1>33. CASE Crash BY <1>33 DEF Crash, Lifecycle!lcVars
<1>34. CASE Boot BY <1>34 DEF Boot, Lifecycle!lcVars
<1>35. CASE UNCHANGED vars BY <1>35 DEF Lifecycle!lcVars
<1> QED
  BY <1>1, <1>2, <1>3, <1>4, <1>5, <1>6, <1>7, <1>8, <1>9, <1>10, <1>11, <1>12,
     <1>13, <1>14, <1>15, <1>16, <1>17, <1>18, <1>19, <1>20, <1>21, <1>22, <1>23,
     <1>24, <1>25, <1>26, <1>27, <1>28, <1>29, <1>30, <1>31, <1>32, <1>33, <1>34,
     <1>35 DEF Next, Cycle, Reconcile

LEMMA InitLifecycle == Init => Lifecycle!LCInit
  BY PhaseTable DEF Init, Lifecycle!LCInit

\* The pipeline, the executors and the reconciler implement TradeLifecycle.
THEOREM ExecutionImplementsLifecycle == Spec => ImplementsLifecycle
<1>1. Spec => []TradeInv
  BY TradeInvariant
<1> QED
  BY <1>1, InitLifecycle, StepLifecycle, PTL DEF Spec, ImplementsLifecycle, Lifecycle!LCSpec
=============================================================================
