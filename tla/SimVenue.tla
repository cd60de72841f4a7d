------------------------------- MODULE SimVenue -------------------------------
(***************************************************************************)
(* The simulated venue thread (crates/sim/src/venue.rs): the matching      *)
(* engine, our commands and the background flow of a zero-intelligence     *)
(* market.  The random choices of the background are arbitrary ones, and   *)
(* its two clocks (due times of commands, arrival times of the flow) are   *)
(* left out: either may come next.                                         *)
(*                                                                         *)
(* Events are published as they happen, not at the end of the call: the    *)
(* thread does nothing else in between, and no other sees its state.       *)
(***************************************************************************)
EXTENDS Matching, Totals

CONSTANTS
  Qtys,        \* order quantities
  Tifs,        \* times in force of ours
  MaxBgOrders, \* cfg.max_bg_orders
  MaxOurs,     \* bound: our orders sent
  MaxBg,       \* bound: background orders sent
  MaxQueue     \* bound: commands and reports under way

ASSUME SimVenueAssumption ==
  /\ Prices \subseteq Int
  /\ Qtys \subseteq Nat \ {0}
  /\ Tifs \subseteq TimeInForce
  /\ MaxBgOrders \in Nat /\ MaxOurs \in Nat /\ MaxBg \in Nat /\ MaxQueue \in Nat
  /\ NoTaker \notin [cmd : {"New"}, id : Int, side : Side, price : Int, qty : Int,
                    tif : TimeInForce]

VARIABLES
  orderCh,     \* our commands: order ring and simulated wire
  sent,        \* our orders sent so far
  bg_orders,   \* background orders to choose a cancel from; may be filled
  next_bg      \* background orders submitted so far

vars == <<matchingVars, orderCh, sent, bg_orders, next_bg>>

(* BG_ID_BASE keeps the background's ids apart from ours. *)
BgId(n) == MaxOurs + n

Init ==
  /\ MatchingInit
  /\ orderCh = <<>> /\ sent = 0
  /\ bg_orders = {} /\ next_bg = 0

(* The engine thread: it numbers its orders, cancels what it sent before   *)
(* and takes the reports.                                                  *)
EngineSends ==
  /\ \/ /\ sent < MaxOurs
        /\ sent' = sent + 1
        /\ \E side \in Side, price \in Prices, qty \in Qtys, tif \in Tifs :
             orderCh' = Append(orderCh,
                               [cmd |-> "New", id |-> sent + 1, side |-> side,
                                price |-> price, qty |-> qty, tif |-> tif])
     \/ /\ Len(orderCh) + Len(execCh) < MaxQueue
        /\ \E id \in 1..sent : orderCh' = Append(orderCh, [cmd |-> "Cancel", id |-> id])
        /\ UNCHANGED sent
  /\ UNCHANGED <<matchingVars, bg_orders, next_bg>>

EnginePolls ==
  /\ execCh' = <<>>
  /\ UNCHANGED <<levels, orders, pc, taker, hit, ladder, arrived, orderCh,
                 sent, bg_orders, next_bg>>

OurOrder(m) == [owner |-> "Ours", id |-> m.id, side |-> m.side,
                price |-> m.price, qty |-> m.qty, tif |-> m.tif]

HandleOurOrder ==
  /\ orderCh # <<>>
  /\ LET m == Head(orderCh)
     IN IF m.cmd = "New" THEN RejectOrder(OurOrder(m)) \/ AcceptOrder(OurOrder(m))
                         ELSE CancelOrder("Ours", m.id)
  /\ orderCh' = Tail(orderCh)
  /\ UNCHANGED <<sent, bg_orders, next_bg>>

BgOrder(side, price, qty, tif) ==
  [owner |-> "Bg", id |-> BgId(next_bg + 1), side |-> side, price |-> price,
   qty |-> qty, tif |-> tif]

(* Every 20,000th action forgets the background orders that are gone. *)
Remembered == {bg_orders, bg_orders \cap DOMAIN orders}

BgPassive ==
  /\ next_bg < MaxBg
  /\ \E known \in Remembered :
       /\ Cardinality(known) < MaxBgOrders
       /\ bg_orders' = known \cup {BgId(next_bg + 1)}
  /\ \E side \in Side, price \in Prices, qty \in Qtys :
       AcceptOrder(BgOrder(side, price, qty, "Gtc"))
  /\ next_bg' = next_bg + 1
  /\ UNCHANGED <<orderCh, sent>>

BgCancel ==
  /\ \E known \in Remembered : \E id \in known :
       /\ CancelOrder("Bg", id)
       /\ bg_orders' = known \ {id}
  /\ UNCHANGED <<orderCh, sent, next_bg>>

BgAggressive ==
  /\ next_bg < MaxBg
  /\ bg_orders' \in Remembered
  /\ \E side \in Side, price \in Prices, qty \in Qtys :
       AcceptOrder(BgOrder(side, price, qty, "Ioc"))
  /\ next_bg' = next_bg + 1
  /\ UNCHANGED <<orderCh, sent>>

Matches == Match /\ UNCHANGED <<orderCh, sent, bg_orders, next_bg>>

Next == \/ EngineSends \/ EnginePolls
        \/ HandleOurOrder \/ BgPassive \/ BgCancel \/ BgAggressive \/ Matches

Spec == Init /\ [][Next]_vars

-----------------------------------------------------------------------------

(* Where an order came to rest among those still there. *)
Place(id) == CHOOSE i \in 1..Len(arrived) : arrived[i] = id

(* The orders at a price, and what each order has left there. *)
AtPrice(side, price) ==
  {id \in DOMAIN orders : orders[id].side = side /\ orders[id].price = price}
LeavesAt(side, price) ==
  [id \in 1..BgId(MaxBg) |->
     IF id \in AtPrice(side, price) THEN orders[id].leaves ELSE 0]

(* The two views of the book agree: a level holds exactly the orders of    *)
(* its side and price, oldest first, and the sum of what they have left.   *)
BookIsConsistent ==
  pc \in {"idle", "match"} =>
    /\ ToSet(arrived) = DOMAIN orders
    /\ \A s \in Side :
         /\ DOMAIN levels[s] = {p \in Prices : AtPrice(s, p) # {}}
         /\ \A p \in DOMAIN levels[s] :
              LET queue == levels[s][p].queue
              IN /\ ToSet(queue) = AtPrice(s, p)
                 /\ \A i, j \in DOMAIN queue :
                      i < j => Place(queue[i]) < Place(queue[j])
                 /\ levels[s][p].total = SumUpTo(LeavesAt(s, p), BgId(MaxBg))

(* Whatever crosses is matched before the call returns. *)
NotCrossed ==
  pc = "idle" /\ HasBest("Buy") /\ HasBest("Sell") => Best("Buy") < Best("Sell")

(* Who applies the level updates of the feed has the book's quantities     *)
(* after every call: no change of a level is left unpublished.             *)
LadderIsBook ==
  pc = "idle" =>
    ladder = [s \in Side |-> [p \in DOMAIN levels[s] |-> levels[s][p].total]]

(* Price-time priority (matching.rs:1): no order is hit while one of its   *)
(* side has a better price, or the same price and an earlier place.        *)
Better(side, p, q) == IF side = "Buy" THEN p > q ELSE p < q
PriceTimePriority ==
  [][\A id \in DOMAIN orders \cap DOMAIN orders' :
       orders'[id].leaves < orders[id].leaves =>
         \A other \in DOMAIN orders \ {id} :
           LET m == orders[id]
               o == orders[other]
           IN o.side = m.side =>
                /\ ~Better(m.side, o.price, m.price)
                /\ o.price = m.price => Place(other) > Place(id)]_vars

(* To the engine thread the venue behaves as OrderVenue says: the abstract *)
(* venue of the order-entry model leaves nothing out that this one does.   *)
OursResting == {id \in DOMAIN orders : orders[id].owner = "Ours"
                                        /\ orders[id].leaves > 0}
Venue == INSTANCE OrderVenue WITH
  NoOrder <- NoTaker,
  resting <- [id \in OursResting |->
                [side |-> orders[id].side, price |-> orders[id].price,
                 leaves |-> orders[id].leaves]],
  taking <- IF pc # "idle" /\ taker.owner = "Ours"
            THEN [cmd |-> "New", id |-> taker.id, side |-> taker.side,
                  price |-> taker.price, qty |-> taker.qty, tif |-> taker.tif]
            ELSE NoTaker
EngineStep == EngineSends \/ EnginePolls
ImplementsOrderVenue ==
  Venue!VenueInit /\ [][Venue!VenueNext \/ EngineStep]_(Venue!venueVars)

(* The nested loops of submit end: while a call goes on, every step of it  *)
(* has less of the order to fill, fewer levels in front of it, or is       *)
(* closer to the end of the iteration.  A level left behind with no orders *)
(* would let the venue thread go round for ever.                           *)
Stage == CASE pc = "match" /\ taker.qty > 0 -> 3
           [] pc = "maker" -> 2
           [] pc = "taker" -> 1
           [] OTHER -> 0
Work == <<taker.qty, Cardinality(DOMAIN levels[Facing]), Stage>>
LessWork(w, v) == \E i \in 1..3 : w[i] < v[i] /\ \A j \in 1..(i - 1) : w[j] = v[j]
SubmitProgresses ==
  [][pc # "idle" /\ pc' # "idle" => LessWork(Work', Work)]_<<levels, orders, pc, taker, hit>>

=============================================================================
