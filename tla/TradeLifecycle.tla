-------------------------- MODULE TradeLifecycle --------------------------
(***************************************************************************)
(* What the executors promise about a trade, whatever dies and whatever    *)
(* comes late: the network is only ever given a transaction the database   *)
(* already names, it is given it once, and from then on the chain alone    *)
(* decides how the trade ends.  A trade that has ended does not move.      *)
(***************************************************************************)
CONSTANT Trades

VARIABLES
    phase,     \* none, open, committed (a hash is on disk), filled, void
    chain      \* what the network knows: none, sent, pending, confirmed, reverted

lcVars == <<phase, chain>>

LCInit ==
    /\ phase = [t \in Trades |-> "none"]
    /\ chain = [t \in Trades |-> "none"]

Move(t, from, to) ==
    /\ phase[t] = from
    /\ phase' = [phase EXCEPT ![t] = to]
    /\ UNCHANGED chain

Open(t) == Move(t, "none", "open")

\* Only a trade nothing was signed for can be given up, or filled on paper.
Abandon(t) == Move(t, "open", "void")
Simulate(t) == Move(t, "open", "filled")

Commit(t) == Move(t, "open", "committed")

Transmit(t) ==
    /\ phase[t] = "committed" /\ chain[t] = "none"
    /\ chain' = [chain EXCEPT ![t] = "sent"]
    /\ UNCHANGED phase

ChainStep(t) ==
    /\ \/ chain[t] = "sent" /\ chain' = [chain EXCEPT ![t] = "pending"]
       \/ /\ chain[t] = "pending"
          /\ \E o \in {"confirmed", "reverted"} : chain' = [chain EXCEPT ![t] = o]
    /\ UNCHANGED phase

Settle(t) ==
    \/ chain[t] = "confirmed" /\ Move(t, "committed", "filled")
    \/ chain[t] = "reverted" /\ Move(t, "committed", "void")

LCNext ==
    \E t \in Trades :
        Open(t) \/ Abandon(t) \/ Simulate(t) \/ Commit(t) \/ Transmit(t) \/ ChainStep(t)
            \/ Settle(t)

LCSpec == LCInit /\ [][LCNext]_lcVars
===========================================================================
