--------------------------- MODULE LiveAuthority ---------------------------
(***************************************************************************)
(* What the runtime's control plane promises to everything that can spend  *)
(* money: the mode and the session a request, a timer or an agent sees,    *)
(* and the two switches that take LIVE away.                               *)
(*                                                                         *)
(* RuntimeControl implements this specification although it keeps the mode *)
(* and the session in three database rows, writes them one commit at a     *)
(* time and may die between any two commits.  TradeExecution and           *)
(* LpExecution are written against this interface.                         *)
(***************************************************************************)

VARIABLES
    mode,      \* the mode that is visible
    session,   \* the LIVE session has not run out
    estop,     \* the emergency stop is engaged
    paused     \* the global pause is engaged

laVars == <<mode, session, estop, paused>>

LAInit ==
    /\ mode = "PAPER"
    /\ session = FALSE
    /\ estop = FALSE
    /\ paused = FALSE

\* LIVE is only ever granted with both switches off.
Grant ==
    /\ mode = "PAPER" /\ ~estop /\ ~paused
    /\ mode' = "LIVE"
    /\ session' = TRUE
    /\ UNCHANGED <<estop, paused>>

\* The session runs out.  The mode does not follow it.
Expire ==
    /\ session
    /\ session' = FALSE
    /\ UNCHANGED <<mode, estop, paused>>

\* LIVE may be lost at any moment: a restart, a policy change, the operator.
Leave ==
    /\ mode = "LIVE"
    /\ mode' = "PAPER"
    /\ session' = FALSE
    /\ UNCHANGED <<estop, paused>>

\* Engaging the stop takes LIVE away in the same step.
Engage ==
    /\ estop' = TRUE
    /\ mode' = "PAPER"
    /\ session' = FALSE
    /\ UNCHANGED paused

Clear ==
    /\ estop
    /\ estop' = FALSE
    /\ UNCHANGED <<mode, session, paused>>

\* A pause stops automation but does not end the session.
Pause ==
    /\ ~paused
    /\ paused' = TRUE
    /\ UNCHANGED <<mode, session, estop>>

\* Resuming never touches the emergency stop.
Resume ==
    /\ paused /\ ~estop
    /\ paused' = FALSE
    /\ UNCHANGED <<mode, session, estop>>

LANext == Grant \/ Expire \/ Leave \/ Engage \/ Clear \/ Pause \/ Resume

LASpec == LAInit /\ [][LANext]_laVars
============================================================================
