----------------------------- MODULE TradeRows -----------------------------
(***************************************************************************)
(* The status column of the trades table, which swaps and liquidity        *)
(* actions share: trading/trades.ts.                                       *)
(***************************************************************************)

Statuses == {"none", "proposed", "rejected", "allowed", "dispatched", "signed",
             "broadcast", "filled", "failed", "cancelled"}

\* TRANSITIONS of trading/trades.ts; "none" is a row not inserted yet.
TRANSITIONS(s) ==
    CASE s = "proposed"   -> {"rejected", "allowed"}
      [] s = "allowed"    -> {"dispatched", "cancelled"}
      [] s = "dispatched" -> {"signed", "filled", "failed", "cancelled"}
      [] s = "signed"     -> {"broadcast", "failed"}
      [] s = "broadcast"  -> {"filled", "failed"}
      [] OTHER            -> {}
============================================================================
