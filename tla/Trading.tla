------------------------------- MODULE Trading -------------------------------
(***************************************************************************)
(* The engine thread with its book, its OMS and a strategy, over           *)
(* either venue: "sim", the gateway to the simulated venue's thread, which *)
(* OrderVenue describes; or "paper", the paper venue of crates/engine,     *)
(* which fills our orders inside the calls the engine makes.               *)
(*                                                                         *)
(* pc is where the engine thread is: "idle", in the paper venue's          *)
(* on_market ("market"), in drain_venue ("drain"), at the strategy         *)
(* ("book"), in process_intents ("send"), or in the paper venue's send     *)
(* ("command", "take", "rest").  The engine polls before it sends, and the *)
(* venue's thread and it share rings only: what the venue does during      *)
(* drain_venue or process_intents it may as well do before or after.       *)
(*                                                                         *)
(* Risk, the kill switch and the loss limit are OrderEntry's: here any new *)
(* order may be refused and the strategy may not be called.                *)
(***************************************************************************)
EXTENDS Strategies

CONSTANTS
  Strategy, Gateways,  \* strategies and venues to look at
  Prices, Qtys,        \* of the market's levels and trades
  MaxOrders,           \* bound: orders sent
  MaxReports,          \* bound: reports a market move may add to
  NoOrder

ASSUME TradingAssumption ==
  /\ Strategy \subseteq {"market_maker", "imbalance", "dyn"}
  /\ Gateways \subseteq {"sim", "paper"}
  /\ Prices \subseteq Int /\ Qtys \subseteq Nat \ {0}
  /\ MaxOrders \in Nat /\ MaxReports \in Nat

VARIABLES
  strategy, gateway,
  book,             \* the engine's
  md, final,        \* the message that on_md was called with, and its flag
  oms, pc, intents,
  orderCh, execCh,  \* commands, and reports not polled
  resting, taking,  \* of the simulated venue; of the paper venue, taking
  quotes,           \* the paper venue's orders, as its vector has them
  next, remaining   \* of on_market: the next order, what is left of a trade

venueVars == <<orderCh, execCh, resting, taking>>
paperVars == <<quotes, next, remaining>>
engineVars == <<book, md, final, oms, pc, intents>>
vars == <<strategy, gateway, engineVars, venueVars, paperVars>>

(* The simulated venue's thread. *)
Sim == INSTANCE OrderVenue WITH Prices <- QuotePrices

Paper == gateway = "paper"

(* Fills of the simulated venue do not depend on the messages; its prices  *)
(* stand still, and only the imbalance taker looks at its sizes.           *)
StillPrice(side) == IF side = "Buy" THEN Min(QuotePrices) ELSE Max(QuotePrices)
StillBook == [s \in Side |-> <<Level(StillPrice(s), Min(Qtys))>>]
StillSizes == IF strategy = "imbalance" THEN Qtys ELSE {Min(Qtys)}

(* Prices that a level or an order may have. *)
AnyPrice == QuotePrices \cup Prices \cup {StillPrice(s) : s \in Side}

ASSUME NoOrderAssumption ==
  NoOrder \notin [cmd : {"New"}, id : Nat, side : Side, price : AnyPrice,
                  qty : Nat, tif : TimeInForce]

(* Bound: a strategy of any other kind sends one order, and over the paper *)
(* venue.  OrderEntry has one over the simulated venue.                    *)
OrdersOf == IF strategy = "dyn" THEN Min({1, MaxOrders}) ELSE MaxOrders

Init ==
  /\ strategy \in Strategy /\ gateway \in Gateways
  /\ strategy = "dyn" => Paper
  /\ book = (IF Paper THEN EmptyBook ELSE StillBook) /\ md = ClearMsg /\ final = FALSE
  /\ oms = NewOms /\ pc = "idle" /\ intents = <<>>
  /\ Sim!VenueInit
  /\ quotes = <<>> /\ next = 1 /\ remaining = 0

-----------------------------------------------------------------------------
(* The engine. *)

Messages ==
  IF Paper
  THEN {TopMsg(s, p, q) : s \in Side, p \in Prices, q \in Qtys \cup {0}}
         \cup {TradeMsg(s, p, q) : s \in Side, p \in Prices, q \in Qtys}
         \cup {ClearMsg}
  ELSE {LevelMsg(s, StillPrice(s), q) : s \in Side, q \in StillSizes}

OnMd ==
  /\ pc = "idle"
  /\ md' \in Messages /\ final' \in BOOLEAN
  /\ book' = Apply(book, md')
  /\ pc' = IF Paper THEN "market" ELSE "drain"
  /\ next' = 1
  /\ remaining' = IF md'.kind = "Trade" THEN md'.qty ELSE 0
  /\ UNCHANGED <<strategy, gateway, oms, intents, venueVars, quotes>>

(* The OMS after the reports, oldest first. *)
OnExecs(known, reports) ==
  LET applied[i \in 0..Len(reports)] ==
        IF i = 0 THEN known ELSE OnExec(applied[i-1], reports[i])
  IN applied[Len(reports)]

(* All reports are applied.  The built-in strategies do nothing on a fill; *)
(* OrderEntry has one that may.                                            *)
Drained ==
  /\ oms' = OnExecs(oms, execCh)
  /\ execCh' = <<>>

DrainVenue ==
  /\ pc \in {"idle", "drain"}
  /\ Drained
  /\ pc' = IF pc = "drain" THEN "book" ELSE "idle"
  /\ md' = ClearMsg
  /\ UNCHANGED <<strategy, gateway, book, final, intents, orderCh, resting,
                 taking, paperVars>>

(* The strategy is called at the end of a batch, if the book is not        *)
(* crossed and the kill switch is off.                                     *)
OnBook ==
  /\ pc = "book"
  /\ \/ /\ final /\ ~IsCrossed(book)
        /\ intents' \in OnBookOf(strategy, oms, book)
     \/ UNCHANGED intents
  /\ pc' = "send"
  /\ final' = FALSE
  /\ UNCHANGED <<strategy, gateway, book, md, oms, venueVars, paperVars>>

(* A kill cancels every order. *)
CancelAll ==
  /\ pc = "idle"
  /\ intents' = CancelIntents(DOMAIN oms.orders \ PendingCancels(oms))
  /\ pc' = "send"
  /\ UNCHANGED <<strategy, gateway, book, md, final, oms, venueVars, paperVars>>

(* A command leaves: the paper venue handles it before send returns. *)
Sends(command) ==
  /\ orderCh' = Append(orderCh, command)
  /\ pc' = IF Paper THEN "command" ELSE pc

SendNew ==
  /\ pc = "send" /\ intents # <<>> /\ Head(intents).kind = "New"
  /\ LET i == Head(intents)
         id == oms.next_cl_id
     IN /\ id <= OrdersOf
        /\ oms' = OnNewSent(NextClId(oms), id, i.side, i.price, i.qty)
        /\ Sends(Sim!NewCmd(id, i.side, i.price, i.qty, i.tif))
  /\ intents' = Tail(intents)
  /\ UNCHANGED <<strategy, gateway, book, md, final, execCh, resting, taking,
                 paperVars>>

(* Risk refuses it. *)
RefuseNew ==
  /\ pc = "send" /\ intents # <<>> /\ Head(intents).kind = "New"
  /\ intents' = Tail(intents)
  /\ UNCHANGED <<strategy, gateway, book, md, final, oms, pc, venueVars, paperVars>>

SendCancel ==
  /\ pc = "send" /\ intents # <<>> /\ Head(intents).kind = "Cancel"
  /\ LET id == Head(intents).id
     IN IF id \in DOMAIN oms.orders \ PendingCancels(oms)
        THEN oms' = OnCancelSent(oms, id) /\ Sends(Sim!CancelCmd(id))
        ELSE UNCHANGED <<oms, orderCh, pc>>
  /\ intents' = Tail(intents)
  /\ UNCHANGED <<strategy, gateway, book, md, final, execCh, resting, taking,
                 paperVars>>

ProcessedIntents ==
  /\ pc = "send" /\ intents = <<>>
  /\ pc' = "idle"
  /\ UNCHANGED <<strategy, gateway, book, md, final, oms, intents, venueVars,
                 paperVars>>

-----------------------------------------------------------------------------
(* The paper venue: send.  Its touches are the book's bests, which it      *)
(* takes over with every message.                                          *)

Command == Head(orderCh)
TouchCrosses(side, price) ==
  /\ HasBest(book, Opposite(side))
  /\ Sim!Crosses(side, price, BestPrice(book, Opposite(side)))

PaperReject ==
  /\ pc = "command" /\ Command.cmd = "New"
  /\ Command.tif = "PostOnly" /\ TouchCrosses(Command.side, Command.price)
  /\ Sim!Report(Rejected(Command.id, "WouldCross"))
  /\ orderCh' = Tail(orderCh)
  /\ pc' = "send"
  /\ UNCHANGED <<strategy, gateway, book, md, final, oms, intents, resting,
                 taking, paperVars>>

PaperAck ==
  /\ pc = "command" /\ Command.cmd = "New"
  /\ LET crosses == TouchCrosses(Command.side, Command.price)
     IN /\ ~(crosses /\ Command.tif = "PostOnly")
        /\ pc' = IF crosses THEN "take" ELSE "rest"
  /\ Sim!Report(Ack(Command.id))
  /\ taking' = Command
  /\ orderCh' = Tail(orderCh)
  /\ UNCHANGED <<strategy, gateway, book, md, final, oms, intents, resting,
                 paperVars>>

(* It takes what the touch shows, however often that was taken before. *)
PaperTake ==
  /\ pc = "take"
  /\ LET touch == BestLevel(book, Opposite(taking.side))
         take  == Min({taking.qty, touch.qty})
     IN /\ taking' = [taking EXCEPT !.qty = @ - take]
        /\ Sim!Report(Fill(taking.id, touch.price, take, taking'.qty))
  /\ pc' = "rest"
  /\ UNCHANGED <<strategy, gateway, book, md, final, oms, intents, orderCh,
                 resting, paperVars>>

\* Mutant of PaperRest: what is left of an IOC order rests.
PaperRestAll ==
  /\ pc = "rest"
  /\ quotes' = IF taking.qty > 0
               THEN Append(quotes, [id |-> taking.id, side |-> taking.side,
                                    price |-> taking.price, leaves |-> taking.qty])
               ELSE quotes
  /\ UNCHANGED execCh
  /\ taking' = NoOrder
  /\ pc' = "send"
  /\ UNCHANGED <<strategy, gateway, book, md, final, oms, intents, orderCh,
                 resting, next, remaining>>

PaperRest ==
  /\ pc = "rest"
  /\ IF taking.qty > 0 /\ taking.tif = "Ioc"
     THEN Sim!Report(Canceled(taking.id)) ELSE UNCHANGED execCh
  /\ quotes' = IF taking.qty > 0 /\ taking.tif # "Ioc"
               THEN Append(quotes, [id |-> taking.id, side |-> taking.side,
                                    price |-> taking.price, leaves |-> taking.qty])
               ELSE quotes
  /\ taking' = NoOrder
  /\ pc' = "send"
  /\ UNCHANGED <<strategy, gateway, book, md, final, oms, intents, orderCh,
                 resting, next, remaining>>

(* The last order takes the place of the canceled one. *)
SwapRemove(s, i) ==
  [j \in 1..(Len(s) - 1) |-> IF j = i THEN s[Len(s)] ELSE s[j]]

PaperCancel ==
  /\ pc = "command" /\ Command.cmd = "Cancel"
  /\ LET Found == {i \in DOMAIN quotes : quotes[i].id = Command.id}
     IN IF Found = {}
        THEN /\ Sim!Report(Rejected(Command.id, "UnknownOrder"))
             /\ UNCHANGED quotes
        ELSE /\ Sim!Report(Canceled(Command.id))
             /\ quotes' = SwapRemove(quotes, Min(Found))
  /\ orderCh' = Tail(orderCh)
  /\ pc' = "send"
  /\ UNCHANGED <<strategy, gateway, book, md, final, oms, intents, resting,
                 taking, next, remaining>>

-----------------------------------------------------------------------------
(* The paper venue: on_market, one order at a time. *)

(* What a message fills of an order: as much as the trade has left if it   *)
(* went through the order's price, everything if the touch crosses it at   *)
(* the end of a batch.                                                     *)
FillOf(o) ==
  CASE md.kind = "Trade" ->
         IF o.side = Opposite(md.side)
              /\ Sim!Crosses(o.side, o.price, md.price) /\ md.price # o.price
         THEN Min({o.leaves, remaining}) ELSE 0
    [] md.kind # "Trade" /\ final ->
         IF TouchCrosses(o.side, o.price) THEN o.leaves ELSE 0
    [] OTHER -> 0

Filling == {i \in next..Len(quotes) : FillOf(quotes[i]) > 0}

FillResting ==
  /\ pc = "market" /\ Filling # {}
  /\ LET i   == Min(Filling)
         o   == quotes[i]
         qty == FillOf(o)
     IN /\ quotes' = [quotes EXCEPT ![i].leaves = @ - qty]
        /\ remaining' = IF md.kind = "Trade" THEN remaining - qty ELSE remaining
        /\ Sim!Report(Fill(o.id, o.price, qty, o.leaves - qty))
        /\ next' = i + 1
  /\ UNCHANGED <<strategy, gateway, book, md, final, oms, pc, intents, orderCh,
                 resting, taking>>

(* The orders of s that are not filled, one after the other. *)
Keep(kept, o) == IF o.leaves > 0 THEN Append(kept, o) ELSE kept
Retained(s) ==
  LET kept[i \in 0..Len(s)] ==
        IF i = 0 THEN <<>> ELSE Keep(kept[i-1], s[i])
  IN kept[Len(s)]

(* Filled orders go when all have been looked at. *)
Retain ==
  /\ pc = "market" /\ Filling = {}
  /\ quotes' = Retained(quotes)
  /\ next' = 1 /\ remaining' = 0
  /\ pc' = "drain"
  /\ UNCHANGED <<strategy, gateway, book, md, final, oms, intents, venueVars>>

-----------------------------------------------------------------------------

SimVenueSteps ==
  /\ ~Paper
  /\ Sim!VenueCommand \/ (Len(execCh) <= MaxReports /\ Sim!VenueTrade)
  /\ UNCHANGED <<strategy, gateway, engineVars, paperVars>>

Engine == OnMd \/ DrainVenue \/ OnBook \/ CancelAll \/ SendNew \/ RefuseNew
          \/ SendCancel \/ ProcessedIntents
PaperVenue == PaperReject \/ PaperAck \/ PaperTake \/ PaperRest \/ PaperCancel
              \/ FillResting \/ Retain

Next == Engine \/ PaperVenue \/ SimVenueSteps

Spec == Init /\ [][Next]_vars

-----------------------------------------------------------------------------
(* Orders of ours that the venue may still fill, as the OMS knows them. *)
OpenOn(side) == {id \in DOMAIN oms.orders : oms.orders[id].side = side}

(* The market maker looks at two quotes under cancel and one that works,   *)
(* the imbalance taker at no open order, before either sends one: there    *)
(* are never more than three orders on a side, or one in all.              *)
FewOrders ==
  /\ strategy = "imbalance" => Cardinality(DOMAIN oms.orders) <= 1
  /\ strategy = "market_maker" =>
       \A side \in Side : Cardinality(OpenOn(side)) <= 3

(* max_inventory is the "Largest position the strategy will build"         *)
(* (strategies/src/registry.rs:26), whatever the venue fills and when.     *)
WithinMaxInventory ==
  strategy # "dyn" =>
    \A side \in Side : Sign(side) * oms.position <= MaxInventory

(* The position is within max_inventory, whatever is still in the market,  *)
(* when orders are canceled as soon as that is asked for (PaperVenue) or   *)
(* there is never more than one (ImbalanceTaker).  Where quotes may be     *)
(* filled on the way to their cancels, the market maker's older ones come  *)
(* on top of it, two at most (market_maker.rs, manage_side).               *)
Allowance == IF Paper \/ strategy = "imbalance" THEN 0 ELSE 2 * OrderQty
InventoryBound ==
  strategy # "dyn" =>
    \A side \in Side :
      Sign(side) * oms.position <= MaxInventory + Allowance

(* Both venues are the venue of the order-entry model: what that model     *)
(* promises of limits, kills and reports holds with paper fills too.       *)
Working == {i \in DOMAIN quotes : quotes[i].leaves > 0}
Placed == [id \in {quotes[i].id : i \in Working} |->
             LET o == quotes[CHOOSE i \in Working : quotes[i].id = id]
             IN [side |-> o.side, price |-> o.price, leaves |-> o.leaves]]
Venue == INSTANCE OrderVenue WITH
  Prices <- QuotePrices \cup Prices, resting <- IF Paper THEN Placed ELSE resting
ImplementsOrderVenue ==
  [][Venue!VenueNext \/ Engine]_(Venue!venueVars)

=============================================================================
