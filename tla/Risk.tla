-------------------------------- MODULE Risk ---------------------------------
(***************************************************************************)
(* Pre-trade risk (crates/risk), run on the engine thread before an order  *)
(* leaves.  The risk engine's own state is the one-second rate window; the *)
(* kill flag is shared with other threads and lives in the modules that    *)
(* compose them.  Rejections are counted by reason in the code; the        *)
(* counters are left out, so the six checks without a side effect are one  *)
(* conjunction.                                                            *)
(***************************************************************************)
EXTENDS Oms, FiniteSets

CONSTANTS
  MaxOrderQty,     \* limits.max_order_qty
  MaxPosition,     \* limits.max_position
  MaxOpenOrders,   \* limits.max_open_orders
  PriceBand,       \* limits.price_band_ticks
  MaxOrdersPerSec, \* limits.max_orders_per_sec
  MaxLoss,         \* limits.max_loss, in half ticks
  Second,          \* length of the rate window
  NoMid            \* the book has no mid: one side is empty (None)

ASSUME RiskAssumption ==
  /\ MaxOrderQty \in Nat
  /\ MaxPosition \in Nat
  /\ MaxOpenOrders \in Nat
  /\ PriceBand \in Nat
  /\ MaxOrdersPerSec \in Nat
  /\ MaxLoss \in Int
  /\ Second \in Nat \ {0}
  /\ NoMid \notin Int

NewRisk == [window_start |-> 0, window_count |-> 0]

\* Mutant of Worst: open orders are not counted.
WorstWithoutOpen(oms, side, qty) ==
  IF side = "Buy" THEN oms.position + qty ELSE oms.position - qty

(* The position if every open order on the side, and this one, filled.     *)
Worst(oms, side, qty) ==
  IF side = "Buy" THEN oms.position + oms.open["Buy"] + qty
                  ELSE oms.position - oms.open["Sell"] - qty

WithinPosition(oms, side, qty) ==
  /\ Worst(oms, side, qty) <= MaxPosition
  /\ -Worst(oms, side, qty) <= MaxPosition

(* |price - mid| <= band, doubled so that the mid stays an integer. *)
WithinBand(price, mid2) ==
  /\ 2 * price - mid2 <= 2 * PriceBand
  /\ mid2 - 2 * price <= 2 * PriceBand

(* The checks before the rate limit; they change nothing. *)
Admissible(oms, killed, side, price, qty, mid2) ==
  /\ ~killed
  /\ qty > 0 /\ qty <= MaxOrderQty
  /\ Cardinality(DOMAIN oms.orders) < MaxOpenOrders
  /\ WithinPosition(oms, side, qty)
  /\ mid2 # NoMid
  /\ WithinBand(price, mid2)

\* Mutants of Window: only the count is reset; it is never restarted.
WindowNotMoved(risk, now) ==
  IF now - risk.window_start >= Second
  THEN [risk EXCEPT !.window_count = 0]
  ELSE risk

WindowNotRestarted(risk, now) == risk

(* A window that is a second old or more is restarted at now. *)
Window(risk, now) ==
  IF now - risk.window_start >= Second
  THEN [window_start |-> now, window_count |-> 0]
  ELSE risk

UnderRate(risk, now) == Window(risk, now).window_count < MaxOrdersPerSec

(* The window after an order that passed every check. *)
Counted(risk, now) ==
  [Window(risk, now) EXCEPT !.window_count = @ + 1]

(* Post-trade check: the loss limit is crossed. *)
LossLimitHit(oms, mid2) == mid2 # NoMid /\ Pnl2(oms, mid2) < -MaxLoss

=============================================================================
