--------------------------- MODULE RuntimeControl ---------------------------
(***************************************************************************)
(* The runtime's control plane: runtime/src/core/state.ts, the control     *)
(* routes, the risk-policy store's change hook, the emergency-stop hooks   *)
(* wired in core/services.ts, the two schedulers' enabled rows and timers, *)
(* and the boot sequence of index.ts.                                      *)
(*                                                                         *)
(* Node runs a handler to completion, so handlers never interleave with    *)
(* each other; but every prepare().run() outside a transaction is a commit *)
(* of its own, so the process may die between two of them.  A handler is   *)
(* therefore a chain of steps named by pc, one per commit, and Crash is    *)
(* enabled at each of them.                                                *)
(***************************************************************************)
EXTENDS Integers

CONSTANTS
    Steps,          \* the checklist (ActivationStep, six steps in the code)
    RiskReviewed,   \* the step that says the operator reviewed the limits
    StepTTL,        \* ACTIVATION_STEP_TTL_MS, in clock units
    SessionTTL,     \* LIVE_SESSION_TTL_MS, in clock units
    MaxTime,        \* bound on the clock
    MaxBoots,       \* bound on process starts
    MaxVersion      \* bound on policy versions

ASSUME ConstantsAssumption ==
    /\ RiskReviewed \in Steps
    /\ StepTTL \in Nat
    /\ SessionTTL \in Nat \ {0}
    /\ MaxTime \in Nat
    /\ MaxBoots \in Nat
    /\ MaxVersion \in Nat

Never == -1      \* a NULL timestamp column

VARIABLES
    (* rows on disk *)
    mode,           \* installation.mode
    estop,          \* runtime_state.emergency_stop
    paused,         \* runtime_state.global_pause
    stamps,         \* live_activation: when each step was recorded
    activatedAt,    \* live_activation.activated_at
    version,        \* risk_policy.version
    tradeEnabled,   \* scheduler_state.auto_trade_enabled
    lpEnabled,      \* the LP scheduler's enabled row
    frozen,         \* treasury_config.frozen
    (* the process *)
    up,             \* the process is running
    pc,             \* where the handler that is running stands
    started,        \* startBackgroundServices has armed the schedules
    tradeArmed,     \* AutoTradeScheduler.#timer is set
    lpArmed,        \* LiquidityScheduler.#timer is set
    (* the world *)
    now,            \* wall clock
    (* history, read by properties only *)
    boots,          \* process starts so far
    activatedBoot,  \* the boot that granted the LIVE session
    reviewed,       \* the policy version riskReviewed was last recorded against
    walked,         \* steps recorded since LIVE was last granted or left
    torn            \* the process died between leaving LIVE and clearing the checklist

disk  == <<mode, estop, paused, stamps, activatedAt, version, tradeEnabled, lpEnabled, frozen>>
sched == <<tradeEnabled, lpEnabled, tradeArmed, lpArmed>>
hist  == <<activatedBoot, reviewed, walked, torn>>
vars  == <<disk, up, pc, started, tradeArmed, lpArmed, now, boots, hist>>

Handlers == {"idle", "boot_reset",
             "stop_mode", "stop_reset", "stop_trade", "stop_lp", "stop_freeze",
             "live_reset", "live_stamp", "policy_hook", "paper_reset"}

\* Nothing is in progress: what any request, timer or agent sees.
Settled == up /\ pc = "idle"

\* getActivation: a step counts while it is recent.
Fresh(s) == stamps[s] # Never /\ now - stamps[s] <= StepTTL

\* getActivation().missing
Missing == {s \in Steps : ~Fresh(s)}

\* toRiskState: the session the risk engine's live.activated check accepts.
SessionInForce ==
    /\ mode = "LIVE"
    /\ activatedAt # Never
    /\ now < activatedAt + SessionTTL

(***************************************************************************)
(* #resetChecklist, one UPDATE statement.                                  *)
(***************************************************************************)
ResetChecklist ==
    /\ stamps' = [s \in Steps |-> Never]
    /\ activatedAt' = Never

Init ==
    /\ mode = "PAPER"
    /\ estop = FALSE /\ paused = FALSE
    /\ stamps = [s \in Steps |-> Never]
    /\ activatedAt = Never
    /\ version = 1
    /\ tradeEnabled = FALSE /\ lpEnabled = FALSE
    /\ frozen = FALSE
    /\ up = TRUE /\ pc = "idle" /\ started = TRUE
    /\ tradeArmed = FALSE /\ lpArmed = FALSE
    /\ now = 0
    /\ boots = 1
    /\ activatedBoot = 0
    /\ reviewed = 0
    /\ walked = {}
    /\ torn = FALSE

-----------------------------------------------------------------------------
(***************************************************************************)
(* setEmergencyStop(true): the row, the mode, the checklist, and then the  *)
(* hooks registered in core/services.ts.                                   *)
(***************************************************************************)
EngageStop ==
    /\ Settled
    /\ estop' = TRUE
    /\ pc' = "stop_mode"
    /\ walked' = {}
    /\ UNCHANGED <<mode, paused, stamps, activatedAt, version, frozen, sched, up,
                   started, now, boots, activatedBoot, reviewed, torn>>

StopMode ==
    /\ up /\ pc = "stop_mode"
    /\ mode' = "PAPER"
    /\ pc' = "stop_reset"
    /\ UNCHANGED <<estop, paused, stamps, activatedAt, version, frozen, sched, up,
                   started, now, boots, hist>>

\* Mutant: the stop ends the session but leaves the recorded steps on file.
StopResetKeepsSteps ==
    /\ up /\ pc = "stop_reset"
    /\ activatedAt' = Never
    /\ pc' = "stop_trade"
    /\ UNCHANGED <<mode, estop, paused, stamps, version, frozen, sched, up, started,
                   now, boots, hist>>

StopReset ==
    /\ up /\ pc = "stop_reset"
    /\ ResetChecklist
    /\ pc' = "stop_trade"
    /\ UNCHANGED <<mode, estop, paused, version, frozen, sched, up, started, now,
                   boots, hist>>

\* AutoTradeScheduler.disableForEmergency
StopTrade ==
    /\ up /\ pc = "stop_trade"
    /\ tradeArmed' = FALSE
    /\ tradeEnabled' = FALSE
    /\ pc' = "stop_lp"
    /\ UNCHANGED <<mode, estop, paused, stamps, activatedAt, version, lpEnabled,
                   frozen, up, started, lpArmed, now, boots, hist>>

\* LiquidityService.onEmergencyStop -> LiquidityScheduler.disableForEmergency
StopLp ==
    /\ up /\ pc = "stop_lp"
    /\ lpArmed' = FALSE
    /\ lpEnabled' = FALSE
    /\ pc' = "stop_freeze"
    /\ UNCHANGED <<mode, estop, paused, stamps, activatedAt, version, tradeEnabled,
                   frozen, up, started, tradeArmed, now, boots, hist>>

\* treasury.freeze, unless it is frozen already
StopFreeze ==
    /\ up /\ pc = "stop_freeze"
    /\ frozen' = TRUE
    /\ pc' = "idle"
    /\ UNCHANGED <<mode, estop, paused, stamps, activatedAt, version, sched, up,
                   started, now, boots, hist>>

\* setEmergencyStop(false), behind a re-authentication token.  No hook acts on it.
ClearStop ==
    /\ Settled
    /\ estop' = FALSE
    /\ UNCHANGED <<mode, paused, stamps, activatedAt, version, frozen, sched, up, pc,
                   started, now, boots, hist>>

\* The treasury admin's separate action.
ClearFreeze ==
    /\ Settled
    /\ frozen' = FALSE
    /\ UNCHANGED <<mode, estop, paused, stamps, activatedAt, version, sched, up, pc,
                   started, now, boots, hist>>

-----------------------------------------------------------------------------
Pause ==
    /\ Settled
    /\ paused' = TRUE
    /\ UNCHANGED <<mode, estop, stamps, activatedAt, version, frozen, sched, up, pc,
                   started, now, boots, hist>>

\* Resume must not quietly clear an emergency stop.
Resume ==
    /\ Settled
    /\ ~estop
    /\ paused' = FALSE
    /\ UNCHANGED <<mode, estop, stamps, activatedAt, version, frozen, sched, up, pc,
                   started, now, boots, hist>>

-----------------------------------------------------------------------------
\* recordActivationStep: in any mode, under any switch.
RecordActivationStep(s) ==
    /\ Settled
    /\ stamps' = [stamps EXCEPT ![s] = now]
    /\ walked' = walked \cup {s}
    /\ reviewed' = IF s = RiskReviewed THEN version ELSE reviewed
    /\ UNCHANGED <<mode, estop, paused, activatedAt, version, frozen, sched, up, pc,
                   started, now, boots, activatedBoot, torn>>

\* Mutant: the pause is not consulted.
ActivateLiveWhilePaused ==
    /\ Settled
    /\ ~estop
    /\ Missing = {}
    /\ mode' = "LIVE"
    /\ pc' = "live_reset"
    /\ UNCHANGED <<estop, paused, stamps, activatedAt, version, frozen, sched, up,
                   started, now, boots, hist>>

\* activateLive: the guards and the first commit ...
ActivateLive ==
    /\ Settled
    /\ ~estop
    /\ ~paused
    /\ Missing = {}
    /\ mode' = "LIVE"
    /\ pc' = "live_reset"
    /\ UNCHANGED <<estop, paused, stamps, activatedAt, version, frozen, sched, up,
                   started, now, boots, hist>>

\* ... the steps are consumed ...
LiveReset ==
    /\ up /\ pc = "live_reset"
    /\ ResetChecklist
    /\ walked' = {}
    /\ pc' = "live_stamp"
    /\ UNCHANGED <<mode, estop, paused, version, frozen, sched, up, started, now,
                   boots, activatedBoot, reviewed, torn>>

\* ... and the session starts.
LiveStamp ==
    /\ up /\ pc = "live_stamp"
    /\ activatedAt' = now
    /\ activatedBoot' = boots
    /\ pc' = "idle"
    /\ UNCHANGED <<mode, estop, paused, stamps, version, frozen, sched, up, started,
                   now, boots, reviewed, walked, torn>>

\* revertToPaper: always allowed.
RevertToPaper ==
    /\ Settled
    /\ mode' = "PAPER"
    /\ walked' = {}
    /\ pc' = "paper_reset"
    /\ UNCHANGED <<estop, paused, stamps, activatedAt, version, frozen, sched, up,
                   started, now, boots, activatedBoot, reviewed, torn>>

PaperReset ==
    /\ up /\ pc = "paper_reset"
    /\ ResetChecklist
    /\ pc' = "idle"
    /\ UNCHANGED <<mode, estop, paused, version, frozen, sched, up, started, now,
                   boots, hist>>

\* RiskPolicyStore.update writes the new version ...
UpdatePolicy ==
    /\ Settled
    /\ version < MaxVersion
    /\ version' = version + 1
    /\ pc' = "policy_hook"
    /\ UNCHANGED <<mode, estop, paused, stamps, activatedAt, frozen, sched, up, started,
                   now, boots, hist>>

\* ... and its onChanged hook drops LIVE, and only LIVE.
PolicyHook ==
    /\ up /\ pc = "policy_hook"
    /\ \/ /\ mode = "LIVE"
          /\ mode' = "PAPER"
          /\ walked' = {}
          /\ pc' = "paper_reset"
       \/ /\ mode # "LIVE"
          /\ pc' = "idle"
          /\ UNCHANGED <<mode, walked>>
    /\ UNCHANGED <<estop, paused, stamps, activatedAt, version, frozen, sched, up,
                   started, now, boots, activatedBoot, reviewed, torn>>

-----------------------------------------------------------------------------
\* AutoTradeScheduler.configure; the LP scheduler's is the same code over its own row.
ConfigureTrade(enabled) ==
    /\ Settled
    /\ enabled => ~estop
    /\ tradeEnabled' = enabled
    /\ tradeArmed' = enabled
    /\ UNCHANGED <<mode, estop, paused, stamps, activatedAt, version, lpEnabled, frozen,
                   up, pc, started, lpArmed, now, boots, hist>>

ConfigureLp(enabled) ==
    /\ Settled
    /\ enabled => ~estop
    /\ lpEnabled' = enabled
    /\ lpArmed' = enabled
    /\ UNCHANGED <<mode, estop, paused, stamps, activatedAt, version, tradeEnabled,
                   frozen, up, pc, started, tradeArmed, now, boots, hist>>

\* startBackgroundServices: once both reconcilers are done, arm what the rows say.
\* Neither scheduler's start() looks at the emergency stop.
StartSchedules ==
    /\ Settled
    /\ ~started
    /\ started' = TRUE
    /\ lpArmed' = (lpArmed \/ lpEnabled)
    /\ tradeArmed' = (tradeArmed \/ tradeEnabled)
    /\ UNCHANGED <<disk, up, pc, now, boots, hist>>

-----------------------------------------------------------------------------
\* The process dies: between two requests or between two commits of one.
Crash ==
    /\ up
    /\ boots < MaxBoots
    /\ up' = FALSE
    /\ pc' = "idle"
    /\ started' = FALSE
    /\ tradeArmed' = FALSE
    /\ lpArmed' = FALSE
    /\ torn' = IF pc \in {"stop_mode", "stop_reset", "paper_reset", "boot_reset"}
                  THEN TRUE ELSE torn
    /\ UNCHANGED <<disk, now, boots, activatedBoot, reviewed, walked>>

\* Mutant: no demotion on boot.
BootResumesLive ==
    /\ ~up
    /\ up' = TRUE
    /\ boots' = boots + 1
    /\ pc' = "idle"
    /\ UNCHANGED <<mode, walked, estop, paused, stamps, activatedAt, version, frozen,
                   sched, started, now, activatedBoot, reviewed, torn>>

\* The StateStore constructor: #demoteOnBoot acts only on a row that says LIVE.
Boot ==
    /\ ~up
    /\ up' = TRUE
    /\ boots' = boots + 1
    /\ \/ /\ mode = "LIVE"
          /\ mode' = "PAPER"
          /\ walked' = {}
          /\ pc' = "boot_reset"
       \/ /\ mode # "LIVE"
          /\ pc' = "idle"
          /\ UNCHANGED <<mode, walked>>
    /\ UNCHANGED <<estop, paused, stamps, activatedAt, version, frozen, sched, started,
                   now, activatedBoot, reviewed, torn>>

BootReset ==
    /\ up /\ pc = "boot_reset"
    /\ ResetChecklist
    /\ pc' = "idle"
    /\ UNCHANGED <<mode, estop, paused, version, frozen, sched, up, started, now,
                   boots, hist>>

\* A handler reads the clock once, so time passes only between handlers.
Tick ==
    /\ pc = "idle"
    /\ now < MaxTime
    /\ now' = now + 1
    /\ UNCHANGED <<disk, up, pc, started, tradeArmed, lpArmed, boots, hist>>

Next ==
    \/ EngageStop \/ StopMode \/ StopReset \/ StopTrade \/ StopLp \/ StopFreeze
    \/ ClearStop \/ ClearFreeze \/ Pause \/ Resume
    \/ \E s \in Steps : RecordActivationStep(s)
    \/ ActivateLive \/ LiveReset \/ LiveStamp
    \/ RevertToPaper \/ PaperReset
    \/ UpdatePolicy \/ PolicyHook
    \/ \E enabled \in BOOLEAN : ConfigureTrade(enabled)
    \/ \E enabled \in BOOLEAN : ConfigureLp(enabled)
    \/ StartSchedules
    \/ Crash \/ Boot \/ BootReset
    \/ Tick

Spec == Init /\ [][Next]_vars

-----------------------------------------------------------------------------
(***************************************************************************)
(* Properties                                                              *)
(***************************************************************************)
Time == 0..MaxTime

\* Every row and every field of the process holds a value of its column's type.
TypeOK ==
    /\ mode \in {"PAPER", "LIVE"}
    /\ estop \in BOOLEAN /\ paused \in BOOLEAN
    /\ stamps \in [Steps -> Time \cup {Never}]
    /\ activatedAt \in Time \cup {Never}
    /\ version \in Nat
    /\ tradeEnabled \in BOOLEAN /\ lpEnabled \in BOOLEAN /\ frozen \in BOOLEAN
    /\ up \in BOOLEAN /\ pc \in Handlers /\ started \in BOOLEAN
    /\ tradeArmed \in BOOLEAN /\ lpArmed \in BOOLEAN
    /\ now \in Time
    /\ boots \in Nat /\ activatedBoot \in Nat /\ reviewed \in Nat
    /\ walked \subseteq Steps
    /\ torn \in BOOLEAN

\* The emergency stop and LIVE never coexist where anything can act on them, although
\* the two rows are written by separate commits and the process may have died between
\* them (state.ts setEmergencyStop, #demoteOnBoot).
StoppedMeansPaper == Settled /\ estop => mode = "PAPER"

\* A process start never resumes LIVE: the session in force was granted by this very
\* process, has a start time, and no checklist step recorded before that grant is
\* still on file to be used for the next one (state.ts activateLive, #demoteOnBoot).
LiveIsOfThisBoot ==
    Settled /\ mode = "LIVE" =>
        /\ activatedAt # Never
        /\ activatedBoot = boots
        /\ \A s \in Steps : stamps[s] = Never \/ activatedAt <= stamps[s]

\* A checklist step on file was recorded after LIVE was last granted or left and after
\* the last emergency stop, so no step is used for two activations; the one exception is
\* a process that died between leaving LIVE and #resetChecklist.
ChecklistWalkedAnew ==
    Settled => \A s \in Steps : stamps[s] # Never => s \in walked \/ torn

\* The limits the LIVE session runs under are the ones the operator reviewed:
\* "limits the operator has not reviewed since they changed are limits they have not
\* agreed to trade under" (risk/store.ts onChanged).
LiveLimitsWereReviewed ==
    pc = "live_reset" => reviewed = version

\* The control plane implements LiveAuthority: whatever commit the process is at or dies
\* at, LIVE is granted with both switches off, and the stop takes it away at once.
Authority == INSTANCE LiveAuthority
    WITH mode <- IF Settled THEN mode ELSE "PAPER", session <- Settled /\ SessionInForce
ImplementsLiveAuthority == Authority!LASpec
=============================================================================
