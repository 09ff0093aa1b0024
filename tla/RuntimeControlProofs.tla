------------------------ MODULE RuntimeControlProofs ------------------------
(***************************************************************************)
(* Proofs about RuntimeControl, for every checklist, every pair of time    *)
(* limits and any number of crashes.                                       *)
(*                                                                         *)
(* The properties of a settled process are not inductive: they have to be  *)
(* carried through every half-finished handler and through the rows a dead *)
(* process leaves behind.  ControlInv says what holds at each of those     *)
(* points.                                                                 *)
(***************************************************************************)
EXTENDS RuntimeControl, TLAPS

\* What a handler that is under way has already established.
HandlerInv ==
    /\ ~up => pc = "idle"
    /\ pc \in {"stop_mode", "stop_reset", "stop_trade", "stop_lp", "stop_freeze"} => estop
    /\ pc \in {"stop_reset", "stop_trade", "stop_lp", "stop_freeze", "paper_reset",
               "boot_reset"} => mode = "PAPER"
    /\ pc \in {"live_reset", "live_stamp"} => ~estop /\ ~paused /\ mode = "LIVE"

\* The stop and LIVE meet only inside setEmergencyStop and in a dead process's rows.
StopInv == up /\ pc # "stop_mode" /\ estop => mode = "PAPER"

\* A LIVE session, wherever it can be observed, began in this process.
SessionInv ==
    /\ activatedAt <= now
    /\ pc = "live_stamp" => \A s \in Steps : stamps[s] = Never
    /\ up /\ mode = "LIVE" /\ pc \in {"idle", "policy_hook"} =>
          /\ activatedAt # Never
          /\ activatedBoot = boots
          /\ \A s \in Steps : stamps[s] = Never \/ activatedAt <= stamps[s]

\* Outside the window between leaving LIVE and #resetChecklist, on disk as in memory.
ChecklistInv ==
    pc \notin {"stop_mode", "stop_reset", "paper_reset", "boot_reset"} =>
        \A s \in Steps : stamps[s] # Never => s \in walked \/ torn

ControlInv == TypeOK /\ HandlerInv /\ StopInv /\ SessionInv /\ ChecklistInv

-----------------------------------------------------------------------------
LEMMA InitInv == Init => ControlInv
<1> SUFFICES ASSUME Init PROVE ControlInv
  OBVIOUS
<1> USE ConstantsAssumption DEF Init, Never
<1>1. TypeOK
  <2>1. now \in Time /\ stamps \in [Steps -> Time \cup {Never}] /\ activatedAt \in Time \cup {Never}
    BY DEF Time
  <2>2. /\ version \in Nat /\ boots \in Nat /\ activatedBoot \in Nat /\ reviewed \in Nat
    OBVIOUS
  <2>3. pc \in Handlers /\ mode \in {"PAPER", "LIVE"} /\ walked \subseteq Steps
    BY DEF Handlers
  <2>4. /\ estop \in BOOLEAN /\ paused \in BOOLEAN /\ tradeEnabled \in BOOLEAN
        /\ lpEnabled \in BOOLEAN /\ frozen \in BOOLEAN /\ up \in BOOLEAN
        /\ started \in BOOLEAN /\ tradeArmed \in BOOLEAN /\ lpArmed \in BOOLEAN
        /\ torn \in BOOLEAN
    BY Zenon
  <2> QED
    BY <2>1, <2>2, <2>3, <2>4 DEF TypeOK
<1>2. HandlerInv /\ StopInv
  BY DEF HandlerInv, StopInv
<1>3. SessionInv
  BY DEF SessionInv
<1>4. ChecklistInv
  BY DEF ChecklistInv
<1> QED
  BY <1>1, <1>2, <1>3, <1>4 DEF ControlInv

LEMMA StepType == TypeOK /\ [Next]_vars => TypeOK'
<1> SUFFICES ASSUME TypeOK, [Next]_vars PROVE TypeOK'
  OBVIOUS
<1> USE ConstantsAssumption
    DEF TypeOK, Handlers, Time, Never, vars, disk, sched, hist, ResetChecklist, Settled
<1>1. CASE EngageStop BY <1>1 DEF EngageStop
<1>2. CASE StopMode BY <1>2 DEF StopMode
<1>3. CASE StopReset BY <1>3 DEF StopReset
<1>4. CASE StopTrade BY <1>4 DEF StopTrade
<1>5. CASE StopLp BY <1>5 DEF StopLp
<1>6. CASE StopFreeze BY <1>6 DEF StopFreeze
<1>7. CASE ClearStop BY <1>7 DEF ClearStop
<1>8. CASE ClearFreeze BY <1>8 DEF ClearFreeze
<1>9. CASE Pause BY <1>9 DEF Pause
<1>10. CASE Resume BY <1>10 DEF Resume
<1>11. ASSUME NEW s \in Steps, RecordActivationStep(s) PROVE TypeOK'
  BY <1>11 DEF RecordActivationStep
<1>12. CASE ActivateLive BY <1>12 DEF ActivateLive
<1>13. CASE LiveReset BY <1>13 DEF LiveReset
<1>14. CASE LiveStamp BY <1>14 DEF LiveStamp
<1>15. CASE RevertToPaper BY <1>15 DEF RevertToPaper
<1>16. CASE PaperReset BY <1>16 DEF PaperReset
<1>17. CASE UpdatePolicy BY <1>17 DEF UpdatePolicy
<1>18. CASE PolicyHook BY <1>18 DEF PolicyHook
<1>19. ASSUME NEW enabled \in BOOLEAN, ConfigureTrade(enabled) PROVE TypeOK'
  BY <1>19 DEF ConfigureTrade
<1>20. ASSUME NEW enabled \in BOOLEAN, ConfigureLp(enabled) PROVE TypeOK'
  BY <1>20 DEF ConfigureLp
<1>21. CASE StartSchedules BY <1>21 DEF StartSchedules
<1>22. CASE Crash BY <1>22 DEF Crash
<1>23. CASE Boot BY <1>23 DEF Boot
<1>24. CASE BootReset BY <1>24 DEF BootReset
<1>25. CASE Tick BY <1>25 DEF Tick
<1>26. CASE UNCHANGED vars BY <1>26
<1> QED
  BY <1>1, <1>2, <1>3, <1>4, <1>5, <1>6, <1>7, <1>8, <1>9, <1>10, <1>11, <1>12, <1>13,
     <1>14, <1>15, <1>16, <1>17, <1>18, <1>19, <1>20, <1>21, <1>22, <1>23, <1>24, <1>25,
     <1>26 DEF Next
LEMMA StepHandler ==
    TypeOK /\ HandlerInv /\ StopInv /\ [Next]_vars => HandlerInv' /\ StopInv'
<1> SUFFICES ASSUME TypeOK, HandlerInv, StopInv, [Next]_vars PROVE HandlerInv' /\ StopInv'
  OBVIOUS
<1> USE DEF TypeOK, HandlerInv, StopInv, vars, disk, sched, hist, Settled, Handlers
<1>1. CASE EngageStop BY <1>1 DEF EngageStop
<1>2. CASE StopMode BY <1>2 DEF StopMode
<1>3. CASE StopReset BY <1>3 DEF StopReset
<1>4. CASE StopTrade BY <1>4 DEF StopTrade
<1>5. CASE StopLp BY <1>5 DEF StopLp
<1>6. CASE StopFreeze BY <1>6 DEF StopFreeze
<1>7. CASE ClearStop BY <1>7 DEF ClearStop
<1>8. CASE ClearFreeze BY <1>8 DEF ClearFreeze
<1>9. CASE Pause BY <1>9 DEF Pause
<1>10. CASE Resume BY <1>10 DEF Resume
<1>11. ASSUME NEW s \in Steps, RecordActivationStep(s) PROVE HandlerInv' /\ StopInv'
  BY <1>11 DEF RecordActivationStep
<1>12. CASE ActivateLive BY <1>12 DEF ActivateLive
<1>13. CASE LiveReset BY <1>13 DEF LiveReset
<1>14. CASE LiveStamp BY <1>14 DEF LiveStamp
<1>15. CASE RevertToPaper BY <1>15 DEF RevertToPaper
<1>16. CASE PaperReset BY <1>16 DEF PaperReset
<1>17. CASE UpdatePolicy BY <1>17 DEF UpdatePolicy
<1>18. CASE PolicyHook BY <1>18 DEF PolicyHook
<1>19. ASSUME NEW enabled \in BOOLEAN, ConfigureTrade(enabled) PROVE HandlerInv' /\ StopInv'
  BY <1>19 DEF ConfigureTrade
<1>20. ASSUME NEW enabled \in BOOLEAN, ConfigureLp(enabled) PROVE HandlerInv' /\ StopInv'
  BY <1>20 DEF ConfigureLp
<1>21. CASE StartSchedules BY <1>21 DEF StartSchedules
<1>22. CASE Crash BY <1>22 DEF Crash
<1>23. CASE Boot BY <1>23 DEF Boot
<1>24. CASE BootReset BY <1>24 DEF BootReset
<1>25. CASE Tick BY <1>25 DEF Tick
<1>26. CASE UNCHANGED vars BY <1>26
<1> QED
  BY <1>1, <1>2, <1>3, <1>4, <1>5, <1>6, <1>7, <1>8, <1>9, <1>10, <1>11, <1>12, <1>13,
     <1>14, <1>15, <1>16, <1>17, <1>18, <1>19, <1>20, <1>21, <1>22, <1>23, <1>24,
     <1>25, <1>26 DEF Next

LEMMA StepSession ==
    TypeOK /\ HandlerInv /\ SessionInv /\ [Next]_vars => SessionInv'
<1> SUFFICES ASSUME TypeOK, HandlerInv, SessionInv, [Next]_vars PROVE SessionInv'
  OBVIOUS
<1> USE ConstantsAssumption
    DEF TypeOK, HandlerInv, SessionInv, vars, disk, sched, hist, Settled, Time, Never,
        ResetChecklist, Handlers
<1>1. CASE EngageStop BY <1>1 DEF EngageStop
<1>2. CASE StopMode BY <1>2 DEF StopMode
<1>3. CASE StopReset BY <1>3 DEF StopReset
<1>4. CASE StopTrade BY <1>4 DEF StopTrade
<1>5. CASE StopLp BY <1>5 DEF StopLp
<1>6. CASE StopFreeze BY <1>6 DEF StopFreeze
<1>7. CASE ClearStop BY <1>7 DEF ClearStop
<1>8. CASE ClearFreeze BY <1>8 DEF ClearFreeze
<1>9. CASE Pause BY <1>9 DEF Pause
<1>10. CASE Resume BY <1>10 DEF Resume
<1>11. ASSUME NEW s \in Steps, RecordActivationStep(s) PROVE SessionInv'
  BY <1>11 DEF RecordActivationStep
<1>12. CASE ActivateLive BY <1>12 DEF ActivateLive
<1>13. CASE LiveReset BY <1>13 DEF LiveReset
<1>14. CASE LiveStamp BY <1>14 DEF LiveStamp
<1>15. CASE RevertToPaper BY <1>15 DEF RevertToPaper
<1>16. CASE PaperReset BY <1>16 DEF PaperReset
<1>17. CASE UpdatePolicy BY <1>17 DEF UpdatePolicy
<1>18. CASE PolicyHook BY <1>18 DEF PolicyHook
<1>19. ASSUME NEW enabled \in BOOLEAN, ConfigureTrade(enabled) PROVE SessionInv'
  BY <1>19 DEF ConfigureTrade
<1>20. ASSUME NEW enabled \in BOOLEAN, ConfigureLp(enabled) PROVE SessionInv'
  BY <1>20 DEF ConfigureLp
<1>21. CASE StartSchedules BY <1>21 DEF StartSchedules
<1>22. CASE Crash BY <1>22 DEF Crash
<1>23. CASE Boot BY <1>23 DEF Boot
<1>24. CASE BootReset BY <1>24 DEF BootReset
<1>25. CASE Tick BY <1>25 DEF Tick
<1>26. CASE UNCHANGED vars BY <1>26
<1> QED
  BY <1>1, <1>2, <1>3, <1>4, <1>5, <1>6, <1>7, <1>8, <1>9, <1>10, <1>11, <1>12, <1>13,
     <1>14, <1>15, <1>16, <1>17, <1>18, <1>19, <1>20, <1>21, <1>22, <1>23, <1>24,
     <1>25, <1>26 DEF Next

LEMMA StepChecklist ==
    TypeOK /\ HandlerInv /\ ChecklistInv /\ [Next]_vars => ChecklistInv'
<1> SUFFICES ASSUME TypeOK, HandlerInv, ChecklistInv, [Next]_vars PROVE ChecklistInv'
  OBVIOUS
<1> USE DEF TypeOK, HandlerInv, ChecklistInv, vars, disk, sched, hist, Settled, ResetChecklist, Handlers
<1>1. CASE EngageStop BY <1>1 DEF EngageStop
<1>2. CASE StopMode BY <1>2 DEF StopMode
<1>3. CASE StopReset BY <1>3 DEF StopReset
<1>4. CASE StopTrade BY <1>4 DEF StopTrade
<1>5. CASE StopLp BY <1>5 DEF StopLp
<1>6. CASE StopFreeze BY <1>6 DEF StopFreeze
<1>7. CASE ClearStop BY <1>7 DEF ClearStop
<1>8. CASE ClearFreeze BY <1>8 DEF ClearFreeze
<1>9. CASE Pause BY <1>9 DEF Pause
<1>10. CASE Resume BY <1>10 DEF Resume
<1>11. ASSUME NEW s \in Steps, RecordActivationStep(s) PROVE ChecklistInv'
  BY <1>11 DEF RecordActivationStep
<1>12. CASE ActivateLive BY <1>12 DEF ActivateLive
<1>13. CASE LiveReset BY <1>13 DEF LiveReset
<1>14. CASE LiveStamp BY <1>14 DEF LiveStamp
<1>15. CASE RevertToPaper BY <1>15 DEF RevertToPaper
<1>16. CASE PaperReset BY <1>16 DEF PaperReset
<1>17. CASE UpdatePolicy BY <1>17 DEF UpdatePolicy
<1>18. CASE PolicyHook BY <1>18 DEF PolicyHook
<1>19. ASSUME NEW enabled \in BOOLEAN, ConfigureTrade(enabled) PROVE ChecklistInv'
  BY <1>19 DEF ConfigureTrade
<1>20. ASSUME NEW enabled \in BOOLEAN, ConfigureLp(enabled) PROVE ChecklistInv'
  BY <1>20 DEF ConfigureLp
<1>21. CASE StartSchedules BY <1>21 DEF StartSchedules
<1>22. CASE Crash BY <1>22 DEF Crash
<1>23. CASE Boot BY <1>23 DEF Boot
<1>24. CASE BootReset BY <1>24 DEF BootReset
<1>25. CASE Tick BY <1>25 DEF Tick
<1>26. CASE UNCHANGED vars BY <1>26
<1> QED
  BY <1>1, <1>2, <1>3, <1>4, <1>5, <1>6, <1>7, <1>8, <1>9, <1>10, <1>11, <1>12, <1>13,
     <1>14, <1>15, <1>16, <1>17, <1>18, <1>19, <1>20, <1>21, <1>22, <1>23, <1>24,
     <1>25, <1>26 DEF Next

\* ControlInv holds in every reachable state, for every choice of the constants.
THEOREM ControlInvariant == Spec => []ControlInv
<1>1. ControlInv /\ [Next]_vars => ControlInv'
  BY StepType, StepHandler, StepSession, StepChecklist DEF ControlInv
<1> QED
  BY InitInv, <1>1, PTL DEF Spec
-----------------------------------------------------------------------------
\* Every row keeps its type (core/state.ts and the rows it writes).
THEOREM TypeCorrect == Spec => []TypeOK
<1>1. ControlInv => TypeOK
  BY DEF ControlInv
<1> QED
  BY <1>1, ControlInvariant, PTL

\* The emergency stop and LIVE never coexist in a settled process (setEmergencyStop,
\* #demoteOnBoot), whatever commit an earlier process died at.
THEOREM StopRevokesLive == Spec => []StoppedMeansPaper
<1>1. ControlInv => StoppedMeansPaper
  BY DEF ControlInv, StopInv, StoppedMeansPaper, Settled
<1> QED
  BY <1>1, ControlInvariant, PTL

\* LIVE is never resumed by a process start, and never by a step used before (activateLive).
THEOREM LiveNeverResumed == Spec => []LiveIsOfThisBoot
<1>1. ControlInv => LiveIsOfThisBoot
  BY DEF ControlInv, SessionInv, LiveIsOfThisBoot, Settled
<1> QED
  BY <1>1, ControlInvariant, PTL

\* Steps on file were recorded since LIVE was last left, but for a torn reset (#resetChecklist).
THEOREM ChecklistIsWalkedAnew == Spec => []ChecklistWalkedAnew
<1>1. ControlInv => ChecklistWalkedAnew
  BY DEF ControlInv, ChecklistInv, ChecklistWalkedAnew, Settled
<1> QED
  BY <1>1, ControlInvariant, PTL

-----------------------------------------------------------------------------
(***************************************************************************)
(* The control plane implements LiveAuthority.  A commit maps to a step of *)
(* the interface only where it starts or ends a handler: EngageStop to     *)
(* Engage, LiveStamp to Grant, Tick to Expire, everything that leaves a    *)
(* settled LIVE state to Leave; the commits between change nothing visible.*)
(***************************************************************************)
VisibleMode == IF Settled THEN mode ELSE "PAPER"
Session == Settled /\ SessionInForce

LEMMA InitAuthority == Init => Authority!LAInit
<1> SUFFICES ASSUME Init PROVE Authority!LAInit
  OBVIOUS
<1>1. (IF Settled THEN mode ELSE "PAPER") = "PAPER" /\ estop = FALSE /\ paused = FALSE
  BY DEF Init
<1>2. (Settled /\ SessionInForce) = FALSE
  BY DEF Init, SessionInForce
<1> QED
  BY <1>1, <1>2, Zenon DEF Authority!LAInit

LEMMA StepAuthority ==
    ControlInv /\ ControlInv' /\ [Next]_vars => [Authority!LANext]_(Authority!laVars)
<1> SUFFICES ASSUME ControlInv, ControlInv', [Next]_vars
             PROVE  [Authority!LANext]_(Authority!laVars)
  OBVIOUS
<1>t. TypeOK /\ TypeOK' /\ HandlerInv /\ HandlerInv' /\ StopInv /\ SessionInv
  BY DEF ControlInv
<1>l. Session \in BOOLEAN /\ Session' \in BOOLEAN
  BY DEF Session, Settled, SessionInForce
<1>0. \/ UNCHANGED <<VisibleMode, Session, estop, paused>>
      \/ /\ VisibleMode = "PAPER" /\ ~estop /\ ~paused
         /\ VisibleMode' = "LIVE" /\ Session' /\ UNCHANGED <<estop, paused>>
      \/ Session /\ ~Session' /\ UNCHANGED <<VisibleMode, estop, paused>>
      \/ /\ VisibleMode = "LIVE" /\ VisibleMode' = "PAPER" /\ ~Session'
         /\ UNCHANGED <<estop, paused>>
      \/ estop' /\ VisibleMode' = "PAPER" /\ ~Session' /\ UNCHANGED paused
      \/ estop /\ ~estop' /\ UNCHANGED <<VisibleMode, Session, paused>>
      \/ ~paused /\ paused' /\ UNCHANGED <<VisibleMode, Session, estop>>
      \/ paused /\ ~estop /\ ~paused' /\ UNCHANGED <<VisibleMode, Session, estop>>
  <2> USE <1>t, ConstantsAssumption
      DEF TypeOK, HandlerInv, StopInv, SessionInv, vars, disk, sched, hist, Settled,
          SessionInForce, Time, Never, ResetChecklist, Handlers, VisibleMode, Session
  <2>1. CASE EngageStop BY <2>1 DEF EngageStop
  <2>2. CASE StopMode BY <2>2 DEF StopMode
  <2>3. CASE StopReset BY <2>3 DEF StopReset
  <2>4. CASE StopTrade BY <2>4 DEF StopTrade
  <2>5. CASE StopLp BY <2>5 DEF StopLp
  <2>6. CASE StopFreeze BY <2>6 DEF StopFreeze
  <2>7. CASE ClearStop BY <2>7 DEF ClearStop
  <2>8. CASE ClearFreeze BY <2>8 DEF ClearFreeze
  <2>9. CASE Pause BY <2>9 DEF Pause
  <2>10. CASE Resume BY <2>10 DEF Resume
  <2>11. CASE \E s \in Steps : RecordActivationStep(s) BY <2>11 DEF RecordActivationStep
  <2>12. CASE ActivateLive BY <2>12 DEF ActivateLive
  <2>13. CASE LiveReset BY <2>13 DEF LiveReset
  <2>14. CASE LiveStamp BY <2>14 DEF LiveStamp
  <2>15. CASE RevertToPaper BY <2>15 DEF RevertToPaper
  <2>16. CASE PaperReset BY <2>16 DEF PaperReset
  <2>17. CASE UpdatePolicy BY <2>17 DEF UpdatePolicy
  <2>18. CASE PolicyHook BY <2>18 DEF PolicyHook
  <2>19. CASE \E enabled \in BOOLEAN : ConfigureTrade(enabled) BY <2>19 DEF ConfigureTrade
  <2>20. CASE \E enabled \in BOOLEAN : ConfigureLp(enabled) BY <2>20 DEF ConfigureLp
  <2>21. CASE StartSchedules BY <2>21 DEF StartSchedules
  <2>22. CASE Crash BY <2>22 DEF Crash
  <2>23. CASE Boot BY <2>23 DEF Boot
  <2>24. CASE BootReset BY <2>24 DEF BootReset
  <2>25. CASE Tick BY <2>25 DEF Tick
  <2>26. CASE UNCHANGED vars BY <2>26
  <2> QED
    BY <2>1, <2>2, <2>3, <2>4, <2>5, <2>6, <2>7, <2>8, <2>9, <2>10, <2>11, <2>12,
       <2>13, <2>14, <2>15, <2>16, <2>17, <2>18, <2>19, <2>20, <2>21, <2>22, <2>23,
       <2>24, <2>25, <2>26 DEF Next
<1> QED
  BY <1>0, <1>l, <1>t, Zenon
  DEF VisibleMode, Session, TypeOK, Authority!LANext, Authority!laVars, Authority!Grant,
      Authority!Expire, Authority!Leave, Authority!Engage, Authority!Clear,
      Authority!Pause, Authority!Resume

\* RuntimeControl implements LiveAuthority (core/state.ts, core/services.ts, index.ts).
THEOREM ControlImplementsAuthority == Spec => ImplementsLiveAuthority
<1>1. Spec => []ControlInv
  BY ControlInvariant
<1> QED
  BY <1>1, InitAuthority, StepAuthority, PTL DEF Spec, ImplementsLiveAuthority, Authority!LASpec
=============================================================================
