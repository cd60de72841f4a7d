------------------------------ MODULE OrderVenue ------------------------------
(***************************************************************************)
(* What order entry sees of the simulated venue thread (crates/sim): our   *)
(* commands leave in FIFO order (order ring plus the simulated wire), the  *)
(* matching engine handles them one at a time, and every private execution *)
(* report comes back in FIFO order and is never lost.                      *)
(*                                                                         *)
(* The rest of the market is abstract: any resting order may be filled at  *)
(* any time, an incoming one may take any quantity at its limit or better. *)
(* Reports are pushed to the ring one by one, so the engine may see the    *)
(* reports of one match in several polls.                                  *)
(***************************************************************************)
EXTENDS Oms, Sequences

CONSTANTS Prices,  \* prices our orders may have and trades may happen at
          NoOrder  \* no order is being matched

ASSUME VenueAssumption == Prices \subseteq Int

VARIABLES
  orderCh,  \* our commands on their way to the matching engine
  execCh,   \* the ring of private execution reports
  resting,  \* our orders resting in the matching engine's book
  taking    \* our order the matching engine is executing, or NoOrder

venueVars == <<orderCh, execCh, resting, taking>>

(* Order commands, one constructor per OrderCmd. *)
NewCmd(id, side, price, qty, tif) ==
  [cmd |-> "New", id |-> id, side |-> side, price |-> price, qty |-> qty,
   tif |-> tif]
CancelCmd(id) == [cmd |-> "Cancel", id |-> id]

(* A limit on the given side is at or through the price. *)
Crosses(side, limit, price) ==
  IF side = "Buy" THEN price <= limit ELSE price >= limit

VenueInit ==
  /\ orderCh = <<>>
  /\ execCh = <<>>
  /\ resting = [i \in {} |-> 0]
  /\ taking = NoOrder

Report(e) == execCh' = Append(execCh, e)

(* A post-only order that would cross is rejected, any other is acked and  *)
(* then matched.                                                           *)
VenueReject ==
  /\ taking = NoOrder
  /\ orderCh # <<>> /\ Head(orderCh).cmd = "New"
  /\ Head(orderCh).tif = "PostOnly"
  /\ orderCh' = Tail(orderCh)
  /\ Report(Rejected(Head(orderCh).id, "WouldCross"))
  /\ UNCHANGED <<resting, taking>>

VenueAccept ==
  /\ taking = NoOrder
  /\ orderCh # <<>> /\ Head(orderCh).cmd = "New"
  /\ orderCh' = Tail(orderCh)
  /\ taking' = Head(orderCh)
  /\ Report(Ack(Head(orderCh).id))
  /\ UNCHANGED resting

(* The incoming order takes qty at the maker's price. *)
VenueTake(price, qty) ==
  /\ taking # NoOrder
  /\ taking.tif # "PostOnly"
  /\ Crosses(taking.side, taking.price, price)
  /\ taking' = [taking EXCEPT !.qty = @ - qty]
  /\ Report(Fill(taking.id, price, qty, taking.qty - qty))
  /\ UNCHANGED <<orderCh, resting>>

\* Mutant of VenueRest: the IOC remainder is dropped without a report.
VenueRestSilentIoc ==
  /\ taking # NoOrder
  /\ taking' = NoOrder
  /\ resting' =
       IF taking.qty > 0 /\ taking.tif # "Ioc"
       THEN With(resting, taking.id,
                 [side |-> taking.side, price |-> taking.price,
                  leaves |-> taking.qty])
       ELSE resting
  /\ UNCHANGED <<orderCh, execCh>>

(* Nothing more to take: an IOC remainder is canceled, any other rests. *)
VenueRest ==
  /\ taking # NoOrder
  /\ taking' = NoOrder
  /\ IF taking.qty > 0 /\ taking.tif = "Ioc"
     THEN Report(Canceled(taking.id)) ELSE UNCHANGED execCh
  /\ resting' =
       IF taking.qty > 0 /\ taking.tif # "Ioc"
       THEN With(resting, taking.id,
                 [side |-> taking.side, price |-> taking.price,
                  leaves |-> taking.qty])
       ELSE resting
  /\ UNCHANGED orderCh

(* A resting order is hit, by the background flow or by our own incoming   *)
(* order: there is no self-trade prevention.                               *)
VenueMake(id, qty) ==
  LET left == resting[id].leaves - qty
  IN /\ \/ taking = NoOrder
        \/ /\ taking # NoOrder
           /\ taking.side = Opposite(resting[id].side)
           /\ Crosses(taking.side, taking.price, resting[id].price)
     /\ Report(Fill(id, resting[id].price, qty, left))
     /\ resting' = IF left = 0 THEN Without(resting, id)
                   ELSE With(resting, id, [resting[id] EXCEPT !.leaves = left])
     /\ UNCHANGED <<orderCh, taking>>

\* Mutants of VenueCancel: the cancel is not reported; the order stays in the
\* book.
VenueCancelSilent ==
  /\ taking = NoOrder
  /\ orderCh # <<>> /\ Head(orderCh).cmd = "Cancel"
  /\ orderCh' = Tail(orderCh)
  /\ resting' = Without(resting, Head(orderCh).id)
  /\ UNCHANGED <<execCh, taking>>
VenueCancelKeeps ==
  /\ taking = NoOrder
  /\ orderCh # <<>> /\ Head(orderCh).cmd = "Cancel"
  /\ orderCh' = Tail(orderCh)
  /\ IF Head(orderCh).id \in DOMAIN resting
     THEN Report(Canceled(Head(orderCh).id))
     ELSE Report(Rejected(Head(orderCh).id, "UnknownOrder"))
  /\ UNCHANGED <<resting, taking>>

VenueCancel ==
  /\ taking = NoOrder
  /\ orderCh # <<>> /\ Head(orderCh).cmd = "Cancel"
  /\ orderCh' = Tail(orderCh)
  /\ LET id == Head(orderCh).id
     IN IF id \in DOMAIN resting
        THEN /\ resting' = Without(resting, id)
             /\ Report(Canceled(id))
        ELSE /\ Report(Rejected(id, "UnknownOrder"))
             /\ UNCHANGED resting
  /\ UNCHANGED taking

(* What the venue thread does with our commands. *)
VenueCommand == VenueReject \/ VenueAccept \/ VenueRest \/ VenueCancel

(* What the market does to our orders. *)
VenueTrade ==
  \/ /\ taking # NoOrder
     /\ \E price \in Prices, qty \in 1..taking.qty : VenueTake(price, qty)
  \/ \E id \in DOMAIN resting :
       \E qty \in 1..resting[id].leaves : VenueMake(id, qty)

VenueNext == VenueCommand \/ VenueTrade

=============================================================================
