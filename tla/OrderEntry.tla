------------------------------ MODULE OrderEntry ------------------------------
(***************************************************************************)
(* The order path of a trading session: the engine thread (crates/engine)  *)
(* with its OMS, risk engine and an arbitrary strategy, the venue thread,  *)
(* and the operator's kill switch, an atomic flag the web server, the loss *)
(* limit and the engine share.                                             *)
(*                                                                         *)
(* The engine thread is one event loop.  pc says where in a call it is:    *)
(* "poll", "apply" and "send" are the parts of drain_venue and             *)
(* process_intents, "book" the strategy callback at the end of on_md,      *)
(* "pnl" the end of housekeeping; after says where the call returns to.    *)
(* The other threads move between any two of these steps.                  *)
(***************************************************************************)
EXTENDS Risk, OrderVenue, Totals

CONSTANTS
  Qtys,        \* order quantities a strategy may ask for, bad ones included
  Tifs,        \* times in force it uses
  Mids,        \* sums of best bid and ask the book may show
  Controls,    \* what the operator does: a subset of {"kill", "unkill"}
  MaxOrders,   \* bound: orders sent in a behaviour
  MaxIntents,  \* bound: intents a strategy leaves pending
  MaxTime      \* bound: event time

ASSUME OrderEntryAssumption ==
  /\ Qtys \subseteq Int
  /\ Tifs \subseteq TimeInForce
  /\ Mids \subseteq Int
  /\ Controls \subseteq {"kill", "unkill"}
  /\ MaxOrders \in Nat /\ MaxIntents \in Nat /\ MaxTime \in Nat

VARIABLES
  oms, risk,
  kill,          \* the shared kill flag
  kill_handled,  \* the engine has canceled everything for this kill
  pc, after,     \* control of the engine thread
  batch,         \* execution reports polled and not applied yet
  intents,       \* what the strategy asked for and was not processed yet
  now,           \* event time of the last market-data message
  mid2           \* best bid plus best ask of the book, or NoMid

engineVars == <<oms, risk, kill, kill_handled, pc, after, batch, intents,
                now, mid2>>
vars == <<engineVars, venueVars>>

NewIntent == [kind : {"New"}, side : Side, price : Prices, qty : Qtys,
              tif : Tifs]
CancelIntent == [kind : {"Cancel"}, id : 1..MaxOrders]
Intent == NewIntent \cup CancelIntent

Init ==
  /\ oms = NewOms /\ risk = NewRisk
  /\ kill = FALSE /\ kill_handled = FALSE
  /\ pc = "idle" /\ after = "idle"
  /\ batch = <<>> /\ intents = <<>>
  /\ now = 0 /\ mid2 = NoMid
  /\ VenueInit

(* The strategy appends any intents; it may also do nothing. *)
StrategyEmits ==
  \E n \in 0..(MaxIntents - Len(intents)) :
    \E out \in [1..n -> Intent] : intents' = intents \o out

(* process_intents is called: nothing to do when there are no intents. *)
CallProcessIntents(then) ==
  /\ pc' = IF intents' = <<>> THEN then ELSE "send"
  /\ after' = then

(* on_md: the book applies the message, the strategy sees a trade; the     *)
(* venue is drained next.                                                  *)
OnMd ==
  /\ pc = "idle"
  /\ now' \in now..MaxTime
  /\ mid2' \in Mids \cup {NoMid}
  /\ StrategyEmits
  /\ pc' = "poll" /\ after' = "book"
  /\ UNCHANGED <<oms, risk, kill, kill_handled, batch, venueVars>>

(* run_loop drains the venue after a burst of market data. *)
DrainVenue ==
  /\ pc = "idle"
  /\ pc' = "poll" /\ after' = "idle"
  /\ UNCHANGED <<oms, risk, kill, kill_handled, batch, intents, now, mid2,
                 venueVars>>

(* Everything in the ring is popped; with no report, drain_venue returns   *)
(* and leaves pending intents for the end of on_md.                        *)
Poll ==
  /\ pc = "poll"
  /\ batch' = execCh
  /\ execCh' = <<>>
  /\ pc' = IF execCh = <<>> THEN after ELSE "apply"
  /\ UNCHANGED <<oms, risk, kill, kill_handled, after, intents, now, mid2,
                 orderCh, resting, taking>>

(* One report: the OMS first; on a fill the strategy and the loss limit.   *)
ApplyExec ==
  /\ pc = "apply"
  /\ LET e == Head(batch)
     IN /\ oms' = OnExec(oms, e)
        /\ IF IsKnownFill(oms, e)
           THEN /\ StrategyEmits
                /\ kill' = (kill \/ LossLimitHit(oms', mid2))
           ELSE UNCHANGED <<intents, kill>>
  /\ batch' = Tail(batch)
  /\ IF batch' = <<>> THEN CallProcessIntents(after)
                      ELSE UNCHANGED <<pc, after>>
  /\ UNCHANGED <<risk, kill_handled, now, mid2, venueVars>>

(* End of on_md.  The strategy runs when the batch is complete, the book   *)
(* is not crossed and the kill flag is off.                                *)
OnBook ==
  /\ pc = "book"
  /\ \/ ~kill /\ StrategyEmits
     \/ UNCHANGED intents
  /\ CallProcessIntents("idle")
  /\ UNCHANGED <<oms, risk, kill, kill_handled, batch, now, mid2, venueVars>>

(* process_intents, one intent: a new order that passes risk is numbered,  *)
(* recorded and sent.                                                      *)
SendNew ==
  /\ pc = "send" /\ Head(intents).kind = "New"
  /\ LET i == Head(intents)
         id == oms.next_cl_id
     IN /\ Admissible(oms, kill, i.side, i.price, i.qty, mid2)
        /\ UnderRate(risk, now)
        /\ id <= MaxOrders
        /\ risk' = Counted(risk, now)
        /\ oms' = OnNewSent(NextClId(oms),
                            id, i.side, i.price, i.qty)
        /\ orderCh' = Append(orderCh,
                             NewCmd(id, i.side, i.price, i.qty, i.tif))
  /\ intents' = Tail(intents)
  /\ CallProcessIntents(after)
  /\ UNCHANGED <<kill, kill_handled, batch, now, mid2, execCh, resting,
                 taking>>

(* One that fails is dropped; the rate window may have been restarted. The *)
(* bound MaxOrders drops orders too.                                       *)
RefuseNew ==
  /\ pc = "send" /\ Head(intents).kind = "New"
  /\ LET i == Head(intents)
         ok == Admissible(oms, kill, i.side, i.price, i.qty, mid2)
     IN /\ ~(ok /\ UnderRate(risk, now) /\ oms.next_cl_id <= MaxOrders)
        /\ risk' = IF ok THEN Window(risk, now) ELSE risk
  /\ intents' = Tail(intents)
  /\ CallProcessIntents(after)
  /\ UNCHANGED <<oms, kill, kill_handled, batch, now, mid2, venueVars>>

(* A cancel is never risk-checked; it is sent once per order. *)
SendCancel ==
  /\ pc = "send" /\ Head(intents).kind = "Cancel"
  /\ LET id == Head(intents).id
     IN IF id \in DOMAIN oms.orders
           /\ oms.orders[id].status # "PendingCancel"
        THEN /\ oms' = OnCancelSent(oms, id)
             /\ orderCh' = Append(orderCh, CancelCmd(id))
        ELSE UNCHANGED <<oms, orderCh>>
  /\ intents' = Tail(intents)
  /\ CallProcessIntents(after)
  /\ UNCHANGED <<risk, kill, kill_handled, batch, now, mid2, execCh, resting,
                 taking>>

(* The orders cancel_all asks to cancel. *)
Cancelable ==
  {id \in DOMAIN oms.orders : oms.orders[id].status # "PendingCancel"}

\* Mutant of CancelAll: orders not acked yet are skipped.
CancelAllLive ==
  \E n \in 0..MaxOrders :
    \E ids \in [1..n -> {id \in Cancelable : oms.orders[id].acked}] :
      /\ \A i, j \in 1..n : i # j => ids[i] # ids[j]
      /\ \A id \in Cancelable :
           oms.orders[id].acked => \E i \in 1..n : ids[i] = id
      /\ intents' =
           intents \o [i \in 1..n |-> [kind |-> "Cancel", id |-> ids[i]]]

(* cancel_all: in the order of the hash map, which is any order. *)
CancelAll ==
  \E n \in 0..MaxOrders : \E ids \in [1..n -> Cancelable] :
    /\ \A i, j \in 1..n : i # j => ids[i] # ids[j]
    /\ \A id \in Cancelable : \E i \in 1..n : ids[i] = id
    /\ intents' = intents \o [i \in 1..n |-> [kind |-> "Cancel", id |-> ids[i]]]

\* Mutant of Housekeeping: the kill counts as handled before it happened.
HousekeepingAlwaysHandled ==
  /\ pc = "idle"
  /\ IF kill /\ ~kill_handled THEN CancelAll ELSE UNCHANGED intents
  /\ kill_handled' = TRUE
  /\ CallProcessIntents("pnl")
  /\ UNCHANGED <<oms, risk, kill, batch, now, mid2, venueVars>>

Housekeeping ==
  /\ pc = "idle"
  /\ IF kill /\ ~kill_handled THEN CancelAll ELSE UNCHANGED intents
  /\ kill_handled' = kill
  /\ CallProcessIntents("pnl")
  /\ UNCHANGED <<oms, risk, kill, batch, now, mid2, venueVars>>

\* Mutant of CheckPnl: the loss limit is looked at on fills only.
CheckPnlOnFillsOnly ==
  /\ pc = "pnl"
  /\ pc' = "idle"
  /\ UNCHANGED <<oms, risk, kill, kill_handled, after, batch, intents, now,
                 mid2, venueVars>>

CheckPnl ==
  /\ pc = "pnl"
  /\ kill' = (kill \/ LossLimitHit(oms, mid2))
  /\ pc' = "idle"
  /\ UNCHANGED <<oms, risk, kill_handled, after, batch, intents, now, mid2,
                 venueVars>>

(* POST /api/kill and /api/unkill, on the web server's thread. *)
Kill ==
  /\ "kill" \in Controls
  /\ kill' = TRUE
  /\ UNCHANGED <<oms, risk, kill_handled, pc, after, batch, intents, now,
                 mid2, venueVars>>

Unkill ==
  /\ "unkill" \in Controls
  /\ kill' = FALSE
  /\ UNCHANGED <<oms, risk, kill_handled, pc, after, batch, intents, now,
                 mid2, venueVars>>

Working == Poll \/ ApplyExec \/ OnBook \/ SendNew \/ RefuseNew \/ SendCancel
           \/ CheckPnl

EngineNext == OnMd \/ DrainVenue \/ Housekeeping \/ Working

Next == \/ EngineNext
        \/ VenueNext /\ UNCHANGED engineVars
        \/ Kill \/ Unkill

Spec == Init /\ [][Next]_vars

(* Both threads loop until stop: the engine finishes what it is doing, its *)
(* run loop drains the venue in every iteration and does housekeeping in   *)
(* every 1024th, whatever market data arrives; the venue handles the       *)
(* commands that are due in every iteration.  The market and the operator  *)
(* owe nothing.                                                            *)
FairSpec ==
  /\ Spec
  /\ WF_vars(Working)
  /\ SF_vars(DrainVenue)
  /\ SF_vars(Housekeeping)
  /\ WF_vars(VenueCommand /\ UNCHANGED engineVars)

-----------------------------------------------------------------------------
(* Types. *)

IsPartialFunction(f, S, T) ==
  /\ f = [x \in DOMAIN f |-> f[x]]
  /\ DOMAIN f \subseteq S
  /\ \A x \in DOMAIN f : f[x] \in T

OrderId == 1..MaxOrders
Order == [side : Side, price : Prices, leaves : Nat \ {0},
          status : OrdStatus, acked : BOOLEAN]
IsOms(o) ==
  /\ o = [orders |-> o.orders, next_cl_id |-> o.next_cl_id,
          position |-> o.position, cash |-> o.cash, open |-> o.open]
  /\ IsPartialFunction(o.orders, OrderId, Order)
  /\ o.next_cl_id \in 1..(MaxOrders + 1)
  /\ o.position \in Int /\ o.cash \in Int
  /\ o.open \in [Side -> Int]
Exec == [kind : {"Ack", "Canceled"}, id : OrderId]
        \cup [kind : {"Rejected"}, id : OrderId, reason : RejectReason]
        \cup [kind : {"Fill"}, id : OrderId, price : Prices,
              qty : Nat \ {0}, leaves : Nat]
NewOrderCmd == [cmd : {"New"}, id : OrderId, side : Side, price : Prices,
                qty : Nat, tif : Tifs]
OrderCmd == NewOrderCmd \cup [cmd : {"Cancel"}, id : OrderId]
Resting == [side : Side, price : Prices, leaves : Nat \ {0}]

ASSUME NoOrderAssumption == NoOrder \notin NewOrderCmd

(* Every variable has its type; the engine thread holds reports only while *)
(* it applies them and has an intent at hand when it processes one.        *)
TypeOK ==
  /\ IsOms(oms)
  /\ risk \in [window_start : Nat, window_count : Nat]
  /\ kill \in BOOLEAN /\ kill_handled \in BOOLEAN
  /\ pc \in {"idle", "poll", "apply", "send", "book", "pnl"}
  /\ after \in {"idle", "book", "pnl"}
  /\ batch \in Seq(Exec) /\ (pc = "apply" <=> batch # <<>>)
  /\ execCh \in Seq(Exec)
  /\ orderCh \in Seq(OrderCmd)
  /\ intents \in Seq(Intent) /\ (pc = "send" => intents # <<>>)
  /\ now \in 0..MaxTime
  /\ mid2 \in Mids \cup {NoMid}
  /\ IsPartialFunction(resting, OrderId, Resting)
  /\ taking \in NewOrderCmd \cup {NoOrder}

-----------------------------------------------------------------------------
(* Safety. *)

(* However late, early or interleaved the reports arrive, the position     *)
(* never leaves the limit the risk check promises (risk.rs, max_position). *)
PositionWithinLimit ==
  /\ oms.position <= MaxPosition
  /\ -oms.position <= MaxPosition

(* What the OMS believes is left on a side, one entry per order number. *)
LeavesTable(orders, side) ==
  [id \in OrderId |-> IF id \in DOMAIN orders /\ orders[id].side = side
                      THEN orders[id].leaves ELSE 0]
OmsLeaves(side) == SumUpTo(LeavesTable(oms.orders, side), MaxOrders)

(* The running open quantity the risk check reads is what the open orders  *)
(* have left, although fills, cancels and rejects adjust the two in        *)
(* different ways (oms.rs, on_exec and remove).                            *)
OpenQtyIsSumOfLeaves == \A side \in Side : oms.open[side] = OmsLeaves(side)

(* Reports the engine has not applied yet, oldest first. *)
Reports == batch \o execCh
ReportsOf(id) == {i \in 1..Len(Reports) : Reports[i].id = id}
IsFill(i) == Reports[i].kind = "Fill"

(* The report ends the order: it is the last one except cancel-rejects. *)
Ends(e) == \/ e.kind = "Canceled"
           \/ e.kind = "Fill" /\ e.leaves = 0
           \/ e.kind = "Rejected" /\ e.reason # "UnknownOrder"

(* Quantity filled by the reports in r; ordered by the commands in ch. *)
FilledIn(r, id) ==
  SumUpTo([i \in 1..Len(r) |-> IF r[i].kind = "Fill" /\ r[i].id = id
                               THEN r[i].qty ELSE 0], Len(r))
OrderedIn(ch, id) ==
  SumUpTo([i \in 1..Len(ch) |-> IF ch[i].cmd = "New" /\ ch[i].id = id
                                THEN ch[i].qty ELSE 0], Len(ch))

(* What the venue may still execute of the order. *)
VenueLeaves(id) ==
  IF id \in DOMAIN resting THEN resting[id].leaves
  ELSE IF taking # NoOrder /\ taking.id = id THEN taking.qty
  ELSE OrderedIn(orderCh, id)

(* The OMS and the venue agree on every order up to the fills in flight: a *)
(* lost, doubled or misapplied report, or one applied to another order,    *)
(* breaks the equality.  Once a cancel or a reject is in flight the OMS    *)
(* may only believe in more than the venue.                                *)
OmsMatchesVenue ==
  \A id \in DOMAIN oms.orders :
    LET ours == oms.orders[id].leaves
        theirs == VenueLeaves(id) + FilledIn(Reports, id)
    IN IF \E i \in ReportsOf(id) : Reports[i].kind \in {"Canceled", "Rejected"}
                                  /\ Ends(Reports[i])
       THEN ours > theirs
       ELSE ours = theirs

(* The venue never works an order the OMS has forgotten: no exposure is    *)
(* invisible to the risk check or beyond the reach of cancel_all.          *)
NoOrphanOrders ==
  /\ DOMAIN resting \subseteq DOMAIN oms.orders
  /\ taking # NoOrder /\ taking.qty > 0 => taking.id \in DOMAIN oms.orders

(* The OMS ignores fills of orders it does not know; no fill of ours is    *)
(* ever one of those, whatever cancels crossed it on the wire.             *)
FillsAreKnown ==
  \A i \in 1..Len(Reports) : IsFill(i) => Reports[i].id \in DOMAIN oms.orders

(* With nothing in flight the two sides know the same orders: no ghost     *)
(* stays in the OMS for the strategy to cancel for ever (docs/src/risk.md, *)
(* "Order management").                                                    *)
NoGhostOrders ==
  (orderCh = <<>> /\ Reports = <<>> /\ taking = NoOrder)
    => DOMAIN oms.orders = DOMAIN resting

(* The account behaves as the abstract specification promises: each step   *)
(* of the two threads numbers and takes one order, executes one for what   *)
(* the venue executed, closes one, or leaves the account alone.            *)
Account == INSTANCE Exposure WITH
  ExposureLimit <- MaxPosition, LargestOrder <- MaxOrderQty,
  book <- [id \in DOMAIN oms.orders |->
            [side |-> oms.orders[id].side, leaves |-> oms.orders[id].leaves]],
  position <- oms.position, open <- oms.open, next_id <- oms.next_cl_id

ImplementsExposure == Account!ExposureSpec

(* docs/src/risk.md: "When it's set, the engine cancels every working      *)
(* order on its next housekeeping pass".                                   *)
IsHousekeeping == pc = "idle" /\ pc' \in {"pnl", "send"}
KillCancelsAll ==
  [][IsHousekeeping /\ kill =>
       \A id \in Cancelable :
         \E i \in 1..Len(intents') :
           intents'[i] = [kind |-> "Cancel", id |-> id]]_vars

(* Cancels are never blocked and never repeated: at most one cancel of an  *)
(* order is on its way or answered and not applied yet.                    *)
OneCancelInFlight ==
  \A id \in OrderId :
    Cardinality({i \in 1..Len(orderCh) : orderCh[i] = CancelCmd(id)})
    + Cardinality({i \in ReportsOf(id) :
                     Reports[i] = Rejected(id, "UnknownOrder")}) <= 1

-----------------------------------------------------------------------------
(* Liveness. *)

Status(id) == IF id \in DOMAIN oms.orders THEN oms.orders[id].status ELSE "Gone"

(* Every order sent is answered: acked, or ended. *)
NewSettles == \A id \in OrderId :
  (Status(id) = "PendingNew") ~> (Status(id) # "PendingNew")

(* Every cancel sent ends with its order out of the OMS, also when fills,  *)
(* rejects or the end of an IOC order race it.                             *)
CancelSettles == \A id \in OrderId :
  (Status(id) = "PendingCancel") ~> (Status(id) = "Gone")

(* Once the kill flag is set, and nobody clears it, the account ends up    *)
(* without open orders.                                                    *)
KillFlattensOrders == kill ~> (DOMAIN oms.orders = {})

(* A loss beyond the limit that lasts trips the kill switch, also when no  *)
(* fill comes and only the market moves (engine.rs, housekeeping).         *)
LossTripsKill ==
  LossLimitHit(oms, mid2) ~> (kill \/ ~LossLimitHit(oms, mid2))

=============================================================================
