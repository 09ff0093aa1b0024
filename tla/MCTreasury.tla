----------------------------- MODULE MCTreasury -----------------------------
(***************************************************************************)
(* Two scenes: one is chosen at the start and the variables of the other   *)
(* rest.  Treasury with one provider and two proposals across two months,  *)
(* the caps admitting both, one of them or none, the budget likewise; and  *)
(* the gate in front of it, two sessions and two requests at once.         *)
(***************************************************************************)
EXTENDS Treasury, TreasuryAdmin, TLC

VARIABLE scene

MCCaps == {[payment |-> 1, monthly |-> 1, threshold |-> 2],
           [payment |-> 1, monthly |-> 2, threshold |-> 1]}
Symmetry == Permutations(Proposals)

MCInit == scene \in {"books", "gate"} /\ Init /\ AdminInit

BookScene == scene = "books" /\ Next /\ UNCHANGED <<scene, adminVars>>
GateScene == scene = "gate" /\ AdminNext /\ UNCHANGED <<scene, vars>>

MCNext == BookScene \/ GateScene
MCSpec == MCInit /\ [][MCNext]_<<scene, vars, adminVars>>
=============================================================================
