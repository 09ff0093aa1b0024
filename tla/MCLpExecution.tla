--------------------------- MODULE MCLpExecution ---------------------------
(***************************************************************************)
(* LpExecution with two rows: an add and a removal, or an approval and the *)
(* action it is for, with a process death anywhere.                        *)
(***************************************************************************)
EXTENDS LpExecution
============================================================================
