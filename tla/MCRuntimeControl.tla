-------------------------- MODULE MCRuntimeControl --------------------------
(***************************************************************************)
(* RuntimeControl with two checklist steps, a step lifetime of one clock   *)
(* unit and a session of two, so that steps and sessions both expire.      *)
(***************************************************************************)
EXTENDS RuntimeControl
=============================================================================
