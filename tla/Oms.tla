--------------------------------- MODULE Oms ---------------------------------
(***************************************************************************)
(* Order management: the engine's record of its own orders, position and   *)
(* cash (crates/oms).  The OMS belongs to the engine thread and is updated *)
(* synchronously, so each method is an operator from the old record to the *)
(* new one; the modules that own an OMS variable apply it.                 *)
(*                                                                         *)
(* Fees, fill and volume counters and the sent timestamp are left out: no  *)
(* control depends on them.                                                *)
(***************************************************************************)
EXTENDS Integers

Side == {"Buy", "Sell"}
TimeInForce == {"Gtc", "Ioc", "PostOnly"}
OrdStatus == {"PendingNew", "Live", "PendingCancel"}
RejectReason == {"UnknownOrder", "WouldCross", "InvalidOrder"}

Sign(side) == IF side = "Buy" THEN 1 ELSE -1
Opposite(side) == IF side = "Buy" THEN "Sell" ELSE "Buy"

(* Execution reports, one constructor per ExecKind. *)
Ack(id)               == [kind |-> "Ack", id |-> id]
Canceled(id)          == [kind |-> "Canceled", id |-> id]
Rejected(id, reason)  == [kind |-> "Rejected", id |-> id, reason |-> reason]
Fill(id, price, qty, leaves) ==
  [kind |-> "Fill", id |-> id, price |-> price, qty |-> qty, leaves |-> leaves]

(* The record of open orders without id. *)
Without(orders, id) == [i \in DOMAIN orders \ {id} |-> orders[i]]

(* The open order id replaced by order, added if it was not there. *)
With(orders, id, order) ==
  [i \in DOMAIN orders \cup {id} |-> IF i = id THEN order ELSE orders[i]]

(* The open quantity of a side moved by qty. *)
Shift(open, side, qty) == [open EXCEPT ![side] = @ + qty]

NewOms ==
  [orders |-> [i \in {} |-> 0], next_cl_id |-> 1, position |-> 0, cash |-> 0,
   open |-> [s \in Side |-> 0]]

\* Mutant of NextClId: the counter is read and not advanced.
NextClIdReused(oms) == oms

NextClId(oms) == [oms EXCEPT !.next_cl_id = @ + 1]

NewOrder(side, price, qty) ==
  [side |-> side, price |-> price, leaves |-> qty, status |-> "PendingNew",
   acked |-> FALSE]

OnNewSent(oms, id, side, price, qty) ==
  [oms EXCEPT !.orders = With(oms.orders, id, NewOrder(side, price, qty)),
              !.open = Shift(oms.open, side, qty)]

(* The order id with another status. *)
SetStatus(oms, id, status) ==
  LET order == [oms.orders[id] EXCEPT !.status = status]
  IN [oms EXCEPT !.orders = With(oms.orders, id, order)]

\* Mutants of OnCancelSent: the order is forgotten when the cancel leaves; the
\* status is not recorded.
OnCancelSentForgets(oms, id) ==
  IF id \in DOMAIN oms.orders
  THEN [oms EXCEPT !.orders = Without(oms.orders, id)] ELSE oms
OnCancelSentUnmarked(oms, id) == oms

OnCancelSent(oms, id) ==
  IF id \in DOMAIN oms.orders THEN SetStatus(oms, id, "PendingCancel") ELSE oms

RemoveOrder(oms, id) ==
  IF id \in DOMAIN oms.orders
  THEN LET order == oms.orders[id]
       IN [oms EXCEPT !.orders = Without(oms.orders, id),
                      !.open = Shift(oms.open, order.side, -order.leaves)]
  ELSE oms

\* Mutant of OnAck: the status is not moved on.
OnAckStatusKept(oms, id) ==
  IF id \in DOMAIN oms.orders
  THEN LET order == [oms.orders[id] EXCEPT !.acked = TRUE]
       IN [oms EXCEPT !.orders = With(oms.orders, id, order)]
  ELSE oms

OnAck(oms, id) ==
  IF id \in DOMAIN oms.orders
  THEN LET old == oms.orders[id]
           status == IF old.status = "PendingNew" THEN "Live" ELSE old.status
           order == [old EXCEPT !.acked = TRUE, !.status = status]
       IN [oms EXCEPT !.orders = With(oms.orders, id, order)]
  ELSE oms

\* Mutants of OnFill: a filled order is not removed; the open quantity moves by
\* what is left instead of what was filled.
OnFillKeepsFilled(oms, e) ==
  IF e.id \in DOMAIN oms.orders
  THEN LET side == oms.orders[e.id].side
           order == [oms.orders[e.id] EXCEPT !.leaves = e.leaves]
       IN [oms EXCEPT !.orders = With(oms.orders, e.id, order),
                      !.open = Shift(oms.open, side, -e.qty),
                      !.position = oms.position + Sign(side) * e.qty]
  ELSE oms
OnFillOpenByLeaves(oms, e) ==
  IF e.id \in DOMAIN oms.orders
  THEN LET side == oms.orders[e.id].side
           order == [oms.orders[e.id] EXCEPT !.leaves = e.leaves]
       IN [oms EXCEPT
             !.orders = IF e.leaves = 0 THEN Without(oms.orders, e.id)
                        ELSE With(oms.orders, e.id, order),
             !.open = Shift(oms.open, side, -e.leaves),
             !.position = oms.position + Sign(side) * e.qty]
  ELSE oms

(* A fill of an unknown order changes nothing.  The leaves of a known one  *)
(* are taken from the report, the open quantity moves by the filled one.   *)
OnFill(oms, e) ==
  IF e.id \in DOMAIN oms.orders
  THEN LET side == oms.orders[e.id].side
           order == [oms.orders[e.id] EXCEPT !.leaves = e.leaves]
       IN [oms EXCEPT
             !.orders = IF e.leaves = 0 THEN Without(oms.orders, e.id)
                        ELSE With(oms.orders, e.id, order),
             !.open = Shift(oms.open, side, -e.qty),
             !.position = oms.position + Sign(side) * e.qty,
             !.cash = oms.cash - Sign(side) * e.qty * e.price]
  ELSE oms

\* Mutant of OnRejected: only cancels are thought to be rejected.
OnRejectedAsCancel(oms, e) ==
  IF e.id \notin DOMAIN oms.orders THEN oms
  ELSE IF e.reason = "UnknownOrder" THEN RemoveOrder(oms, e.id)
       ELSE SetStatus(oms, e.id, "Live")

(* Never acked: the new order was rejected.  Acked and unknown to the      *)
(* venue: it is gone.  Otherwise the cancel failed and the order works on. *)
OnRejected(oms, e) ==
  IF e.id \notin DOMAIN oms.orders THEN oms
  ELSE IF ~oms.orders[e.id].acked \/ e.reason = "UnknownOrder"
       THEN RemoveOrder(oms, e.id)
       ELSE SetStatus(oms, e.id, "Live")

OnExec(oms, e) ==
  CASE e.kind = "Ack"      -> OnAck(oms, e.id)
    [] e.kind = "Fill"     -> OnFill(oms, e)
    [] e.kind = "Canceled" -> RemoveOrder(oms, e.id)
    [] e.kind = "Rejected" -> OnRejected(oms, e)

(* The venue's report was a fill the OMS recognised (on_exec returned it). *)
IsKnownFill(oms, e) == e.kind = "Fill" /\ e.id \in DOMAIN oms.orders

(* Profit and loss in half ticks: mid2 is best bid plus best ask.          *)
Pnl2(oms, mid2) == 2 * oms.cash + oms.position * mid2

=============================================================================
