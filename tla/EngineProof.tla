------------------------------ MODULE EngineProof ------------------------------
(***************************************************************************)
(* The engine thread with its strategies, over either venue (Trading): how *)
(* many orders a strategy has open, how far the position goes, and that    *)
(* both venues are OrderVenue.  At the end, the throttle the engine's risk *)
(* check keeps (RateLimit).                                                *)
(*                                                                         *)
(* A strategy decides on the OMS as it is when it is called; what bounds   *)
(* the position is the OMS as it will be when every report under way is    *)
(* applied, View.  The two differ by the reports in execCh, which only     *)
(* take orders away and never add to the position plus what is open of a   *)
(* side (Follows).  Two invariants carry the argument:                     *)
(*                                                                         *)
(*   Orderly    types, and an order of ours is in one place only: a        *)
(*              command under way, in the venue's hands, or resting.       *)
(*   Accounted  the OMS and its view: what is left of an order in the view *)
(*              is what is left of it at the venue (Linked), the open      *)
(*              quantity of a side is the sum of what is left of its       *)
(*              orders (Books), and that sum with the position is bounded  *)
(*              (Bounded).  Of the strategy: the taker has an order, or an *)
(*              intent for one, never both (ImbalanceInv); the maker       *)
(*              intends a new quote on a side only behind the cancels of   *)
(*              all quotes there, of which at most two are still to be     *)
(*              confirmed (SideInv); over the paper venue, which confirms  *)
(*              a cancel before the next intent is looked at, none is      *)
(*              (PaperMaker).                                              *)
(*                                                                         *)
(* First what a report does, then what a sequence of them does, then what  *)
(* the strategies answer, then one lemma per action.                       *)
(***************************************************************************)
EXTENDS Trading, RateLimit, Lemmas

IsOrder(x) ==
  /\ x = [side |-> x.side, price |-> x.price, leaves |-> x.leaves,
          status |-> x.status, acked |-> x.acked]
  /\ x.side \in Side /\ x.leaves \in Int /\ x.acked \in BOOLEAN

IsOms(o) ==
  /\ o = [orders |-> o.orders, next_cl_id |-> o.next_cl_id,
          position |-> o.position, cash |-> o.cash, open |-> o.open]
  /\ \A id \in DOMAIN o.orders : IsOrder(o.orders[id])
  /\ o.next_cl_id \in Nat \ {0} /\ o.position \in Int
  /\ o.open \in [Side -> Int]

Numbered(o) ==
  /\ DOMAIN o.orders \subseteq 1..(o.next_cl_id - 1)
  /\ \A id \in DOMAIN o.orders : o.orders[id].leaves \in 0..OrderQty

Own(o, side) == {id \in DOMAIN o.orders : o.orders[id].side = side}
Live(o, side) == Own(o, side) \ PendingCancels(o)

(* Position if everything open on the side were filled. *)
Room(o, side) == Sign(side) * o.position + o.open[side]

Leaves(o, side) ==
  [i \in 1..MaxOrders |-> IF i \in Own(o, side) THEN o.orders[i].leaves ELSE 0]
OpenAddsUp(o) ==
  \A side \in Side : IsSum(Leaves(o, side), MaxOrders, o.open[side])

(* Reports took v from o: orders went, and the position with all that is   *)
(* open did not grow on either side.                                       *)
Follows(v, o) ==
  /\ DOMAIN v.orders \subseteq DOMAIN o.orders
  /\ v.next_cl_id = o.next_cl_id
  /\ \A id \in DOMAIN v.orders :
       /\ v.orders[id].side = o.orders[id].side
       /\ id \in PendingCancels(o) <=> id \in PendingCancels(v)
  /\ \A side \in Side : Room(v, side) <= Room(o, side)

ReportKinds == {"Ack", "Fill", "Canceled", "Rejected"}
IsReport(e, n) ==
  /\ e.kind \in ReportKinds /\ e.id \in 1..(n-1)
  /\ e.kind = "Fill" => e.qty \in Nat /\ e.leaves \in 0..OrderQty
  /\ e.kind = "Rejected" => e.reason \in {"UnknownOrder", "WouldCross"}

(* A post-only order that is rejected is in no view. *)
CrossedGone(r, v) ==
  \A i \in 1..Len(r) :
    r[i].kind = "Rejected" /\ r[i].reason = "WouldCross"
      => r[i].id \notin DOMAIN v.orders

(* The OMS once every report under way is applied. *)
View == OnExecs(oms, execCh)

News(ch) == {i \in 1..Len(ch) : ch[i].cmd = "New"}
Distinct(ch) == \A i, j \in News(ch) : ch[i].id = ch[j].id => i = j
QuoteIds == {quotes[i].id : i \in 1..Len(quotes)}

Levels == IF Paper THEN [price : Prices, qty : Qtys]
          ELSE [price : AnyPrice, qty : Qtys \cup {Min(Qtys)}]
Intents == [kind : {"New"}, side : Side, price : AnyPrice, qty : 1..OrderQty,
            tif : TimeInForce] \cup [kind : {"Cancel"}, id : Nat]
NewCmds(qtys) == [cmd : {"New"}, id : Nat, side : Side, price : AnyPrice,
                  qty : qtys, tif : TimeInForce]
Cmds == NewCmds(1..OrderQty) \cup [cmd : {"Cancel"}, id : Nat]
Takings == NewCmds(0..OrderQty)
Rests == [side : Side, price : AnyPrice, leaves : 0..OrderQty]
Quotes == [id : Nat, side : Side, price : AnyPrice, leaves : 0..OrderQty]

(* A sequence of whatever it holds. *)
IsRow(s) == s \in Seq({s[i] : i \in 1..Len(s)})

Given(id) == id \in 1..(oms.next_cl_id - 1)

(* Over the simulated venue an order is on the wire, taking or resting.    *)
SimInv ==
  /\ pc \in {"idle", "drain", "book", "send"}
  /\ quotes = <<>>
  /\ Distinct(orderCh)
  /\ \A i \in News(orderCh) : orderCh[i].id \notin DOMAIN resting
  /\ taking # NoOrder =>
       /\ taking \in Takings /\ Given(taking.id)
       /\ taking.id \notin DOMAIN resting
       /\ \A i \in News(orderCh) : orderCh[i].id # taking.id
  /\ \A id \in DOMAIN resting : Given(id) /\ resting[id] \in Rests

(* Over the paper venue a command is handled before anything else happens. *)
PaperInv ==
  /\ DOMAIN resting = {}
  /\ IF pc = "command" THEN Len(orderCh) = 1 ELSE orderCh = <<>>
  /\ IF pc \in {"take", "rest"}
     THEN taking \in Takings /\ Given(taking.id) /\ taking.id \notin QuoteIds
     ELSE taking = NoOrder
  /\ pc = "take" => /\ taking.tif # "PostOnly" /\ taking.qty > 0
                    /\ TouchCrosses(taking.side, taking.price)
  /\ \A i \in News(orderCh) : orderCh[i].id \notin QuoteIds
  /\ \A i, j \in 1..Len(quotes) : quotes[i].id = quotes[j].id => i = j
  /\ \A i \in 1..Len(quotes) :
       Given(quotes[i].id) /\ (pc # "market" => quotes[i].leaves > 0)
  /\ next \in Nat \ {0} /\ remaining \in Nat

Orderly ==
  /\ strategy \in {"market_maker", "imbalance", "dyn"}
  /\ gateway \in {"sim", "paper"}
  /\ pc \in {"idle", "market", "drain", "book", "send", "command", "take", "rest"}
  /\ book \in [Side -> Seq(Levels)]
  /\ intents \in Seq(Intents)
  /\ pc \in {"idle", "market", "drain", "book"} => intents = <<>>
  /\ IsOms(oms) /\ Numbered(oms)
  /\ IsRow(execCh)
  /\ \A i \in 1..Len(execCh) : IsReport(execCh[i], oms.next_cl_id)
  /\ orderCh \in Seq(Cmds) /\ quotes \in Seq(Quotes)
  /\ \A i \in 1..Len(orderCh) : Given(orderCh[i].id)
  /\ IF Paper THEN PaperInv ELSE SimInv

(* What is left of an order in the view is what the venue has left of it.  *)
Linked(v) ==
  /\ \A i \in News(orderCh) :
       LET c == orderCh[i]
       IN c.id \in DOMAIN v.orders => /\ v.orders[c.id].leaves = c.qty
                                      /\ ~v.orders[c.id].acked
  /\ (IF Paper THEN pc \in {"take", "rest"} ELSE taking # NoOrder) =>
       (taking.id \in DOMAIN v.orders => v.orders[taking.id].leaves = taking.qty)
  /\ \A id \in DOMAIN resting \cap DOMAIN v.orders :
       v.orders[id].leaves = resting[id].leaves
  /\ \A i \in 1..Len(quotes) :
       quotes[i].id \in DOMAIN v.orders =>
         v.orders[quotes[i].id].leaves = quotes[i].leaves

IsNew(x) == x.kind = "New"
IsCancel(x, id) == x.kind = "Cancel" /\ x.id = id
Cancelled(in, n, id) == \E j \in 1..n : IsCancel(in[j], id)
NewOf(in, side) == {i \in 1..Len(in) : IsNew(in[i]) /\ in[i].side = side}

(* The taker has one order, or means to send one. *)
ImbalanceInv(o, v, in) ==
  \/ /\ DOMAIN o.orders = {} /\ Len(in) = 1 /\ IsNew(in[1])
     /\ Room(v, in[1].side) + in[1].qty <= MaxInventory
  \/ /\ \A i \in 1..Len(in) : ~IsNew(in[i])
     /\ \E x : DOMAIN o.orders \subseteq {x}

AtMostTwo(S) == \E x, y : S \subseteq {x, y}
AtMostThree(S) == \E x, y, z : S \subseteq {x, y, z}
Affordable(v, side, paper) ==
  IF paper THEN Sign(side) * v.position + OrderQty <= MaxInventory
  ELSE Room(v, side) + OrderQty <= MaxInventory + 2 * OrderQty

(* The maker means to send one quote on the side, behind the cancels of    *)
(* all it has there; or it has up to three, all but one of them canceled.  *)
SideInv(o, v, in, side, paper) ==
  /\ \A i \in NewOf(in, side) :
       /\ \A j \in NewOf(in, side) : i = j
       /\ in[i].tif = "PostOnly" /\ in[i].qty = OrderQty
       /\ AtMostTwo(Own(o, side))
       /\ \A id \in Live(o, side) : Cancelled(in, i - 1, id)
       /\ Affordable(v, side, paper)
  /\ NewOf(in, side) = {} =>
       /\ AtMostThree(Own(o, side))
       /\ \E x : \A id \in Live(o, side) : id = x \/ Cancelled(in, Len(in), id)

(* Over the paper venue a canceled quote is gone with the call.            *)
PaperMaker(o, v) ==
  /\ pc # "take"
  /\ \A i \in News(orderCh) : orderCh[i].tif = "PostOnly"
  /\ \A id \in DOMAIN v.orders \cap PendingCancels(o) :
       pc = "command" /\ orderCh[1] = Sim!CancelCmd(id)
  /\ pc = "book" => execCh = <<>>

MakerInv(o, v, in) ==
  /\ \A side \in Side : SideInv(o, v, in, side, Paper)
  /\ Paper => PaperMaker(o, v)

Books(o, v, r) ==
  /\ o.next_cl_id <= MaxOrders + 1
  /\ IsOms(v) /\ Numbered(v)
  /\ Follows(v, o)
  /\ CrossedGone(r, v)
  /\ OpenAddsUp(o) /\ OpenAddsUp(v)

Bounded(v) == \A side \in Side : Room(v, side) <= MaxInventory + Allowance

Accounted ==
  strategy # "dyn" =>
    /\ Books(oms, View, execCh)
    /\ Linked(View)
    /\ Bounded(View)
    /\ InventoryBound
    /\ strategy = "imbalance" => ImbalanceInv(oms, View, intents)
    /\ strategy = "market_maker" => MakerInv(oms, View, intents)

-----------------------------------------------------------------------------
(* What a report does to the OMS: something to the one order it names. *)

(* The order goes. *)
Gone(x, e) ==
  \/ e.kind = "Fill" /\ e.leaves = 0
  \/ e.kind = "Canceled"
  \/ e.kind = "Rejected" /\ (~x.acked \/ e.reason = "UnknownOrder")

(* What becomes of it if it stays. *)
Updated(x, e) ==
  CASE e.kind = "Ack" ->
         [x EXCEPT !.acked = TRUE,
                   !.status = IF x.status = "PendingNew" THEN "Live" ELSE x.status]
    [] e.kind = "Fill" -> [x EXCEPT !.leaves = e.leaves]
    [] OTHER -> [x EXCEPT !.status = "Live"]

(* What is traded, and what is no longer open. *)
Traded(e) == IF e.kind = "Fill" THEN e.qty ELSE 0
Freed(x, e) ==
  IF e.kind = "Fill" THEN e.qty ELSE IF Gone(x, e) THEN x.leaves ELSE 0

Effect(o, p, e, x) ==
  /\ DOMAIN p.orders = IF Gone(x, e) THEN DOMAIN o.orders \ {e.id}
                       ELSE DOMAIN o.orders
  /\ \A i \in DOMAIN p.orders :
       p.orders[i] = IF i = e.id THEN Updated(x, e) ELSE o.orders[i]
  /\ p.next_cl_id = o.next_cl_id
  /\ p.position = o.position + Sign(x.side) * Traded(e)
  /\ p.open \in [Side -> Int]
  /\ p.open[x.side] = o.open[x.side] - Freed(x, e)
  /\ \A s \in Side \ {x.side} : p.open[s] = o.open[s]

LEMMA SignIs == \A side \in Side : Sign(side) \in {1, -1}
BY DEF Sign

LEMMA RoomIsInt ==
  ASSUME NEW o, IsOms(o), NEW side \in Side
  PROVE  Room(o, side) \in Int
<1>1. PICK p \in Int, q \in Int, n \in {1, -1} :
         p = o.position /\ q = o.open[side] /\ n = Sign(side)
  BY SignIs DEF IsOms
<1>2. CASE n = 1
  BY <1>1, <1>2 DEF Room
<1>3. CASE n = -1
  BY <1>1, <1>3 DEF Room
<1>. QED  BY <1>1, <1>2, <1>3, SignIs

LEMMA ShiftIs ==
  ASSUME NEW open \in [Side -> Int], NEW side \in Side, NEW qty \in Int
  PROVE  /\ Shift(open, side, qty) \in [Side -> Int]
         /\ Shift(open, side, qty)[side] = open[side] + qty
         /\ \A s \in Side \ {side} : Shift(open, side, qty)[s] = open[s]
BY DEF Shift

LEMMA OrderUpdated ==
  ASSUME NEW x, IsOrder(x), NEW e, NEW n, IsReport(e, n)
  PROVE  /\ IsOrder(Updated(x, e))
         /\ Updated(x, e).side = x.side
         /\ e.kind = "Fill" => Updated(x, e).leaves = e.leaves
         /\ e.kind # "Fill" => Updated(x, e).leaves = x.leaves
         /\ e.kind = "Ack" => Updated(x, e).acked
         /\ e.kind # "Ack" => Updated(x, e).acked = x.acked
         /\ e.kind \in {"Ack", "Fill"} =>
              (Updated(x, e).status = "PendingCancel" <=> x.status = "PendingCancel")
<1>1. /\ x = [side |-> x.side, price |-> x.price, leaves |-> x.leaves,
               status |-> x.status, acked |-> x.acked]
      /\ x.side \in Side /\ x.leaves \in Int /\ x.acked \in BOOLEAN
  BY DEF IsOrder
<1>2. CASE e.kind = "Ack"
  <2>1. PICK status : status = IF x.status = "PendingNew" THEN "Live" ELSE x.status
    OBVIOUS
  <2>2. Updated(x, e) = [side |-> x.side, price |-> x.price, leaves |-> x.leaves,
                       status |-> status, acked |-> TRUE]
    BY <1>1, <1>2, <2>1 DEF Updated
  <2>. QED  BY <1>1, <1>2, <2>1, <2>2 DEF IsOrder
<1>3. CASE e.kind = "Fill"
  <2>1. Updated(x, e) = [side |-> x.side, price |-> x.price, leaves |-> e.leaves,
                       status |-> x.status, acked |-> x.acked]
    BY <1>1, <1>3 DEF Updated
  <2>. QED  BY <1>1, <1>3, <2>1 DEF IsOrder, IsReport
<1>4. CASE e.kind \notin {"Ack", "Fill"}
  <2>1. Updated(x, e) = [side |-> x.side, price |-> x.price, leaves |-> x.leaves,
                       status |-> "Live", acked |-> x.acked]
    BY <1>1, <1>4 DEF Updated
  <2>. QED  BY <1>1, <1>4, <2>1 DEF IsOrder
<1>. QED  BY <1>2, <1>3, <1>4

LEMMA OmsIs ==
  ASSUME NEW orders, NEW next_id, NEW position, NEW cash, NEW open,
         NEW o,
         o = [orders |-> orders, next_cl_id |-> next_id, position |-> position,
              cash |-> cash, open |-> open],
         \A id \in DOMAIN orders : IsOrder(orders[id]),
         next_id \in Nat \ {0}, position \in Int, open \in [Side -> Int]
  PROVE  /\ IsOms(o)
         /\ o.orders = orders /\ o.next_cl_id = next_id
         /\ o.position = position /\ o.open = open
BY DEF IsOms

(* The OMS with other orders, open quantities and another position. *)
LEMMA Effected ==
  ASSUME NEW o, IsOms(o), NEW e, NEW n, IsReport(e, n), e.id \in DOMAIN o.orders,
         NEW f, NEW cash, NEW p,
         p = [orders |-> f, next_cl_id |-> o.next_cl_id,
              position |-> o.position + Sign(o.orders[e.id].side) * Traded(e),
              cash |-> cash,
              open |-> Shift(o.open, o.orders[e.id].side,
                             -Freed(o.orders[e.id], e))],
         DOMAIN f = IF Gone(o.orders[e.id], e) THEN DOMAIN o.orders \ {e.id}
                    ELSE DOMAIN o.orders,
         \A i \in DOMAIN f :
           f[i] = IF i = e.id THEN Updated(o.orders[e.id], e) ELSE o.orders[i]
  PROVE  IsOms(p) /\ Effect(o, p, e, o.orders[e.id])
<1>1. PICK x : x = o.orders[e.id]
  OBVIOUS
<1>2. IsOrder(x) /\ x.side \in Side /\ x.leaves \in Int
  BY <1>1 DEF IsOms, IsOrder
<1>3. PICK t \in Int, d \in Int : t = Traded(e) /\ d = Freed(x, e)
  BY <1>2 DEF IsReport, Traded, Freed
<1>4. PICK pos \in Int : pos = o.position + Sign(x.side) * Traded(e)
  <2>1. Sign(x.side) \in Int
    BY <1>2, SignIs
  <2>. QED  BY <1>3, <2>1 DEF IsOms
<1>5. PICK op : op = Shift(o.open, x.side, -d)
  OBVIOUS
<1>6. /\ op \in [Side -> Int]
      /\ op[x.side] = o.open[x.side] - d
      /\ \A s \in Side \ {x.side} : op[s] = o.open[s]
  <2>1. -d \in Int /\ o.open \in [Side -> Int]
    BY DEF IsOms
  <2>2. o.open[x.side] + (-d) = o.open[x.side] - d
    BY <1>2, <2>1
  <2>. QED  BY <1>2, <1>5, <2>1, <2>2, ShiftIs
<1>7. \A i \in DOMAIN f : IsOrder(f[i])
  <2>1. IsOrder(Updated(x, e))
    BY <1>2, OrderUpdated
  <2>2. \A i \in DOMAIN f : i \in DOMAIN o.orders
    OBVIOUS
  <2>. QED  BY <1>1, <2>1, <2>2 DEF IsOms
<1>8. p = [orders |-> f, next_cl_id |-> o.next_cl_id, position |-> pos,
           cash |-> cash, open |-> op]
  BY <1>1, <1>3, <1>4, <1>5
<1>9. /\ IsOms(p) /\ p.orders = f /\ p.next_cl_id = o.next_cl_id
      /\ p.position = pos /\ p.open = op
  <2>1. o.next_cl_id \in Nat \ {0}
    BY DEF IsOms
  <2>. QED  BY <1>6, <1>7, <1>8, <2>1, OmsIs
<1>. QED  BY <1>1, <1>3, <1>4, <1>6, <1>9 DEF Effect

LEMMA ShiftNothing ==
  ASSUME NEW open \in [Side -> Int], NEW side \in Side
  PROVE  Shift(open, side, -0) = open
BY DEF Shift

(* Every report does what Effect says to the order it names, and nothing   *)
(* if there is none.                                                       *)
LEMMA ExecEffect ==
  ASSUME NEW o, IsOms(o), NEW e, NEW n, IsReport(e, n)
  PROVE  /\ IsOms(OnExec(o, e))
         /\ IF e.id \in DOMAIN o.orders
            THEN Effect(o, OnExec(o, e), e, o.orders[e.id])
            ELSE OnExec(o, e) = o
<1>1. e.kind \in ReportKinds
  BY DEF IsReport
<1>2. CASE e.id \notin DOMAIN o.orders
  <2>1. OnExec(o, e) = o
    BY <1>1, <1>2 DEF ReportKinds, OnExec, OnAck, OnFill, RemoveOrder,
       OnRejected
  <2>. QED  BY <1>2, <2>1
<1>3. CASE e.id \in DOMAIN o.orders
  <2>1. PICK x : x = o.orders[e.id]
    OBVIOUS
  <2>2. PICK f : f = IF Gone(x, e) THEN Without(o.orders, e.id)
                     ELSE With(o.orders, e.id, Updated(x, e))
    OBVIOUS
  <2>3. /\ DOMAIN f = IF Gone(x, e) THEN DOMAIN o.orders \ {e.id}
                      ELSE DOMAIN o.orders
        /\ \A i \in DOMAIN f :
             f[i] = IF i = e.id THEN Updated(x, e) ELSE o.orders[i]
    <3>1. DOMAIN o.orders \cup {e.id} = DOMAIN o.orders
      BY <1>3
    <3>2. CASE Gone(x, e)
      <4>1. f = [i \in DOMAIN o.orders \ {e.id} |-> o.orders[i]]
        BY <2>2, <3>2 DEF Without
      <4>. QED  BY <3>2, <4>1
    <3>3. CASE ~Gone(x, e)
      <4>1. f = [i \in DOMAIN o.orders |->
                   IF i = e.id THEN Updated(x, e) ELSE o.orders[i]]
        BY <2>2, <3>1, <3>3 DEF With
      <4>. QED  BY <3>3, <4>1
    <3>. QED  BY <3>2, <3>3
  <2>4. PICK pos, op :
          /\ pos = o.position + Sign(x.side) * Traded(e)
          /\ op = Shift(o.open, x.side, -Freed(x, e))
    OBVIOUS
  <2>5. \E cash : OnExec(o, e) = [orders |-> f, next_cl_id |-> o.next_cl_id,
                                  position |-> pos, cash |-> cash, open |-> op]
    <3>1. /\ o = [orders |-> o.orders, next_cl_id |-> o.next_cl_id,
                  position |-> o.position, cash |-> o.cash, open |-> o.open]
          /\ o.open \in [Side -> Int] /\ o.position \in Int
          /\ x.side \in Side
      BY <1>3, <2>1 DEF IsOms, IsOrder
    <3>2. /\ Traded(e) = 0 => pos = o.position
          /\ Freed(x, e) = 0 => op = o.open
      <4>1. Traded(e) = 0 => pos = o.position
        BY <2>4, <3>1, SignIs
      <4>2. Freed(x, e) = 0 => op = o.open
        BY <2>4, <3>1, ShiftNothing
      <4>. QED  BY <4>1, <4>2
    <3>3. CASE e.kind = "Ack"
      <4>1. ~Gone(x, e) /\ Traded(e) = 0 /\ Freed(x, e) = 0
        BY <3>3 DEF Gone, Traded, Freed
      <4>2. OnExec(o, e) = [o EXCEPT !.orders = With(o.orders, e.id, Updated(x, e))]
        BY <1>3, <2>1, <3>3 DEF OnExec, OnAck, Updated
      <4>3. OnExec(o, e) = [o EXCEPT !.orders = f]
        BY <2>2, <4>1, <4>2
      <4>. QED  BY <3>1, <3>2, <4>1, <4>3
    <3>4. CASE e.kind = "Fill"
      <4>1. Gone(x, e) <=> e.leaves = 0
        BY <3>4 DEF Gone
      <4>2. /\ pos = o.position + Sign(x.side) * e.qty
            /\ op = Shift(o.open, x.side, -e.qty)
        BY <2>4, <3>4 DEF Traded, Freed
      <4>3. Updated(x, e) = [x EXCEPT !.leaves = e.leaves]
        BY <3>4 DEF Updated
      <4>4. PICK cash : OnExec(o, e) = [o EXCEPT
               !.orders = IF e.leaves = 0 THEN Without(o.orders, e.id)
                          ELSE With(o.orders, e.id, [x EXCEPT !.leaves = e.leaves]),
               !.open = Shift(o.open, x.side, -e.qty),
               !.position = o.position + Sign(x.side) * e.qty,
               !.cash = cash]
        BY <1>3, <2>1, <3>4 DEF OnExec, OnFill
      <4>5. f = IF e.leaves = 0 THEN Without(o.orders, e.id)
                ELSE With(o.orders, e.id, [x EXCEPT !.leaves = e.leaves])
        BY <2>2, <4>1, <4>3
      <4>6. OnExec(o, e) = [o EXCEPT !.orders = f, !.open = op, !.position = pos,
                                     !.cash = cash]
        BY <4>2, <4>4, <4>5
      <4>. QED  BY <3>1, <4>6
    <3>5. ASSUME OnExec(o, e) = RemoveOrder(o, e.id), Gone(x, e), e.kind # "Fill"
          PROVE  \E cash : OnExec(o, e) =
                    [orders |-> f, next_cl_id |-> o.next_cl_id,
                     position |-> pos, cash |-> cash, open |-> op]
      <4>1. Traded(e) = 0 /\ op = Shift(o.open, x.side, -x.leaves)
        BY <2>4, <3>5 DEF Traded, Freed
      <4>2. OnExec(o, e) = [o EXCEPT !.orders = Without(o.orders, e.id),
                                     !.open = Shift(o.open, x.side, -x.leaves)]
        BY <1>3, <2>1, <3>5 DEF RemoveOrder
      <4>3. OnExec(o, e) = [o EXCEPT !.orders = f, !.open = op]
        BY <2>2, <3>5, <4>1, <4>2
      <4>. QED  BY <3>1, <3>2, <4>1, <4>3
    <3>6. CASE e.kind = "Canceled"
      <4>1. OnExec(o, e) = RemoveOrder(o, e.id)
        BY <3>6 DEF OnExec
      <4>2. Gone(x, e) /\ e.kind # "Fill"
        BY <3>6 DEF Gone
      <4>. QED  BY <3>5, <4>1, <4>2
    <3>7. CASE e.kind = "Rejected" /\ Gone(x, e)
      <4>1. OnExec(o, e) = RemoveOrder(o, e.id)
        BY <1>3, <2>1, <3>7 DEF OnExec, OnRejected, Gone
      <4>. QED  BY <3>5, <3>7, <4>1
    <3>8. CASE e.kind = "Rejected" /\ ~Gone(x, e)
      <4>1. Traded(e) = 0 /\ Freed(x, e) = 0
        BY <3>8 DEF Traded, Freed
      <4>2. OnExec(o, e) = SetStatus(o, e.id, "Live")
        BY <1>3, <2>1, <3>8 DEF OnExec, OnRejected, Gone
      <4>3. Updated(x, e) = [x EXCEPT !.status = "Live"]
        BY <3>8 DEF Updated
      <4>4. OnExec(o, e) = [o EXCEPT !.orders = f]
        BY <2>1, <2>2, <3>8, <4>2, <4>3 DEF SetStatus
      <4>. QED  BY <3>1, <3>2, <4>1, <4>4
    <3>. QED  BY <1>1, <3>3, <3>4, <3>6, <3>7, <3>8 DEF ReportKinds
  <2>6. PICK cash, p : /\ p = OnExec(o, e)
                       /\ p = [orders |-> f, next_cl_id |-> o.next_cl_id,
                               position |-> pos, cash |-> cash, open |-> op]
    BY <2>5
  <2>7. p = [orders |-> f, next_cl_id |-> o.next_cl_id,
             position |-> o.position + Sign(o.orders[e.id].side) * Traded(e),
             cash |-> cash,
             open |-> Shift(o.open, o.orders[e.id].side, -Freed(o.orders[e.id], e))]
    BY <2>1, <2>4, <2>6
  <2>8. IsOms(p) /\ Effect(o, p, e, o.orders[e.id])
    BY <1>3, <2>1, <2>3, <2>7, Effected
  <2>. QED  BY <1>3, <2>6, <2>8
<1>. QED  BY <1>2, <1>3

Moves(o, p, e, x) ==
  /\ Freed(x, e) \in Int
  /\ \A s \in Side :
       p.open[s] = o.open[s] - (IF s = x.side THEN Freed(x, e) ELSE 0)

LEMMA OpenAfter ==
  ASSUME NEW o, IsOms(o), NEW p, NEW x, IsOrder(x), NEW e, NEW n, IsReport(e, n),
         Effect(o, p, e, x)
  PROVE  Moves(o, p, e, x)
<1>1. PICK d \in Int : d = Freed(x, e)
  BY DEF IsOrder, Freed, IsReport
<1>2. /\ o.open \in [Side -> Int] /\ p.open[x.side] = o.open[x.side] - d
      /\ \A s \in Side \ {x.side} : p.open[s] = o.open[s]
  BY <1>1 DEF Effect, IsOms
<1>3. x.side \in Side
  BY DEF IsOrder
<1>. QED  BY <1>1, <1>2, <1>3 DEF Moves

-----------------------------------------------------------------------------
(* Reports one after the other. *)

Trail(o, r, a) ==
  a = [i \in 0..Len(r) |-> IF i = 0 THEN o ELSE OnExec(a[i-1], r[i])]

LEMMA TrailExists ==
  ASSUME NEW o, NEW S, NEW r \in Seq(S)
  PROVE  \E a : Trail(o, r, a)
<1>. DEFINE Up(k) == \E a : a = [i \in 0..k |-> IF i = 0 THEN o
                                              ELSE OnExec(a[i-1], r[i])]
            T == {k \in 0..Len(r) : ~Up(k)}
<1>1. Len(r) \in Nat
  OBVIOUS
<1>2. Up(0)
  <2>1. PICK a : a = [i \in 0..0 |-> o]
    OBVIOUS
  <2>2. \A i \in 0..0 : i = 0
    OBVIOUS
  <2>3. a = [i \in 0..0 |-> IF i = 0 THEN o ELSE OnExec(a[i-1], r[i])]
    BY <2>1, <2>2
  <2>. QED  BY <2>3
<1>3. ASSUME NEW k \in Nat, Up(k) PROVE Up(k + 1)
  <2>1. PICK a : a = [i \in 0..k |-> IF i = 0 THEN o ELSE OnExec(a[i-1], r[i])]
    BY <1>3
  <2>2. PICK b : b = [i \in 0..(k + 1) |-> IF i = k + 1 THEN OnExec(a[k], r[k + 1])
                                           ELSE a[i]]
    OBVIOUS
  <2>3. ASSUME NEW i \in 0..(k + 1)
        PROVE  b[i] = IF i = 0 THEN o ELSE OnExec(b[i-1], r[i])
    <3>1. CASE i = k + 1
      <4>1. i # 0 /\ i - 1 = k /\ k \in 0..(k + 1) /\ k # k + 1
        BY <3>1
      <4>. QED  BY <2>2, <3>1, <4>1
    <3>2. CASE i = 0
      <4>1. 0 \in 0..k /\ 0 # k + 1
        OBVIOUS
      <4>. QED  BY <2>1, <2>2, <3>2, <4>1
    <3>3. CASE i # 0 /\ i # k + 1
      <4>1. i \in 0..k /\ i - 1 \in 0..(k + 1) /\ i - 1 # k + 1
        BY <3>3
      <4>2. b[i] = a[i] /\ b[i-1] = a[i-1]
        BY <2>2, <3>3, <4>1
      <4>3. a[i] = OnExec(a[i-1], r[i])
        BY <2>1, <3>3, <4>1
      <4>. QED  BY <3>3, <4>2, <4>3
    <3>. QED  BY <3>1, <3>2, <3>3
  <2>4. b = [i \in 0..(k + 1) |-> IF i = 0 THEN o ELSE OnExec(b[i-1], r[i])]
    <3>1. b = [i \in 0..(k + 1) |-> b[i]]
      BY <2>2
    <3>. QED  BY <2>3, <3>1
  <2>. QED  BY <2>4
<1>. HIDE DEF Up
<1>4. T = {}
  <2>. SUFFICES ASSUME T # {} PROVE FALSE
    OBVIOUS
  <2>1. PICK m \in T : \A k \in T : m <= k
    <3>1. T \in SUBSET Nat
      BY <1>1
    <3>. HIDE DEF T
    <3>. QED  BY <3>1, LeastNat
  <2>2. m \in 0..Len(r) /\ ~Up(m) /\ m # 0
    BY <1>2
  <2>3. m - 1 \in 0..Len(r) /\ m - 1 \in Nat /\ ~(m <= m - 1)
    BY <1>1, <2>2
  <2>4. Up(m - 1)
    BY <2>1, <2>3
  <2>5. Up(m - 1 + 1) /\ m - 1 + 1 = m
    BY <1>3, <2>2, <2>3, <2>4
  <2>. QED  BY <2>2, <2>5
<1>5. Up(Len(r))
  BY <1>1, <1>4
<1>. QED  BY <1>5 DEF Up, Trail

LEMMA TrailIs ==
  ASSUME NEW o, NEW S, NEW r \in Seq(S)
  PROVE  \E a : Trail(o, r, a) /\ OnExecs(o, r) = a[Len(r)]
<1>. DEFINE applied == CHOOSE a : Trail(o, r, a)
<1>1. Trail(o, r, applied)
  BY TrailExists
<1>2. OnExecs(o, r) = applied[Len(r)]
  BY DEF OnExecs, Trail
<1>. QED  BY <1>1, <1>2

LEMMA TrailSteps ==
  ASSUME NEW o, NEW r, NEW a, Trail(o, r, a), Len(r) \in Nat
  PROVE  /\ a[0] = o
         /\ \A i \in 1..Len(r) : a[i] = OnExec(a[i-1], r[i])
<1>1. a = [i \in 0..Len(r) |-> IF i = 0 THEN o ELSE OnExec(a[i-1], r[i])]
  BY DEF Trail
<1>2. \A i \in 1..Len(r) : i \in 0..Len(r) /\ i # 0
  OBVIOUS
<1>3. 0 \in 0..Len(r)
  OBVIOUS
<1>. QED  BY <1>1, <1>2, <1>3

(* There is one trail. *)
LEMMA TrailsAgree ==
  ASSUME NEW n \in Nat, NEW o, NEW r, NEW a, NEW b,
         a[0] = o, b[0] = o,
         \A i \in 1..n : a[i] = OnExec(a[i-1], r[i]),
         \A i \in 1..n : b[i] = OnExec(b[i-1], r[i])
  PROVE  a[n] = b[n]
<1>. DEFINE T == {k \in 0..n : a[k] # b[k]}
<1>1. T = {}
  <2>. SUFFICES ASSUME T # {} PROVE FALSE
    OBVIOUS
  <2>1. PICK m \in T : \A k \in T : m <= k
    <3>1. T \in SUBSET Nat
      OBVIOUS
    <3>. HIDE DEF T
    <3>. QED  BY <3>1, LeastNat
  <2>2. m \in 0..n /\ a[m] # b[m] /\ m # 0
    OBVIOUS
  <2>3. m - 1 \in 0..n /\ m \in 1..n /\ ~(m <= m - 1)
    BY <2>2
  <2>4. a[m-1] = b[m-1]
    BY <2>1, <2>3
  <2>. QED  BY <2>2, <2>3, <2>4
<1>2. n \in 0..n
  OBVIOUS
<1>. QED  BY <1>1, <1>2

LEMMA ExecsNone ==
  ASSUME NEW o
  PROVE  OnExecs(o, <<>>) = o
<1>1. <<>> \in Seq({}) /\ Len(<<>>) = 0
  OBVIOUS
<1>2. PICK a : Trail(o, <<>>, a) /\ OnExecs(o, <<>>) = a[Len(<<>>)]
  BY <1>1, TrailIs
<1>. QED  BY <1>1, <1>2, TrailSteps

LEMMA ExecsAppend ==
  ASSUME NEW o, NEW S, NEW r \in Seq(S), NEW e \in S
  PROVE  OnExecs(o, Append(r, e)) = OnExec(OnExecs(o, r), e)
<1>1. PICK n, q : n = Len(r) /\ q = Append(r, e)
  OBVIOUS
<1>2. /\ n \in Nat /\ q \in Seq(S) /\ Len(q) = n + 1
      /\ q[n+1] = e /\ \A i \in 1..n : q[i] = r[i]
  BY <1>1
<1>3. PICK a : Trail(o, r, a) /\ OnExecs(o, r) = a[n]
  BY <1>1, TrailIs
<1>4. PICK b : Trail(o, q, b) /\ OnExecs(o, q) = b[n+1]
  BY <1>2, TrailIs
<1>5. a[0] = o /\ \A i \in 1..n : a[i] = OnExec(a[i-1], r[i])
  BY <1>1, <1>2, <1>3, TrailSteps
<1>6. b[0] = o /\ \A i \in 1..(n+1) : b[i] = OnExec(b[i-1], q[i])
  BY <1>2, <1>4, TrailSteps
<1>7. b[n] = a[n]
  <2>1. \A i \in 1..n : b[i] = OnExec(b[i-1], q[i])
    BY <1>2, <1>6
  <2>2. \A i \in 1..n : r[i] = q[i]
    BY <1>2
  <2>3. a[0] = o /\ b[0] = o /\ n \in Nat
    BY <1>2, <1>5, <1>6
  <2>4. \A i \in 1..n : a[i] = OnExec(a[i-1], r[i])
    BY <1>5
  <2>5. \A i \in 1..n : b[i] = OnExec(b[i-1], r[i])
    BY <2>1, <2>2
  <2>6. a[n] = b[n]
    BY <2>3, <2>4, <2>5, TrailsAgree
  <2>. QED  BY <2>6
<1>8. b[n+1] = OnExec(b[n], e)
  <2>1. n + 1 \in 1..(n+1) /\ (n + 1) - 1 = n
    BY <1>2
  <2>. QED  BY <1>2, <1>6, <2>1
<1>. QED  BY <1>1, <1>3, <1>4, <1>7, <1>8

(* Reports keep the OMS an OMS. *)
AllReports(r, n) == \A i \in 1..Len(r) : IsReport(r[i], n)

LEMMA TrailTyped ==
  ASSUME NEW o, IsOms(o), NEW r, NEW n, AllReports(r, n), Len(r) \in Nat,
         NEW a, a[0] = o, \A i \in 1..Len(r) : a[i] = OnExec(a[i-1], r[i])
  PROVE  \A k \in 0..Len(r) : IsOms(a[k])
<1>. DEFINE T == {k \in 0..Len(r) : ~IsOms(a[k])}
<1>1. T = {}
  <2>. SUFFICES ASSUME T # {} PROVE FALSE
    OBVIOUS
  <2>1. PICK m \in T : \A k \in T : m <= k
    <3>1. T \in SUBSET Nat
      OBVIOUS
    <3>. HIDE DEF T
    <3>. QED  BY <3>1, LeastNat
  <2>2. m \in 0..Len(r) /\ ~IsOms(a[m]) /\ m # 0
    OBVIOUS
  <2>3. m - 1 \in 0..Len(r) /\ m \in 1..Len(r) /\ ~(m <= m - 1)
    BY <2>2
  <2>4. IsOms(a[m-1]) /\ IsReport(r[m], n)
    BY <2>1, <2>3 DEF AllReports
  <2>5. IsOms(OnExec(a[m-1], r[m]))
    BY <2>4, ExecEffect
  <2>. QED  BY <2>2, <2>3, <2>5
<1>. QED  BY <1>1

(* One OMS is the other with one more order. *)
Joined(o, p, id, x) ==
  /\ id \notin DOMAIN o.orders
  /\ DOMAIN p.orders = DOMAIN o.orders \cup {id}
  /\ p.orders[id] = x
  /\ \A i \in DOMAIN o.orders : p.orders[i] = o.orders[i]
  /\ p.position = o.position
  /\ p.next_cl_id = o.next_cl_id + 1
  /\ p.open[x.side] = o.open[x.side] + x.leaves
  /\ \A s \in Side \ {x.side} : p.open[s] = o.open[s]

(* Reports of other orders leave it so. *)
LEMMA JoinedStep ==
  ASSUME NEW o, IsOms(o), NEW p, IsOms(p), NEW id, NEW x, IsOrder(x),
         Joined(o, p, id, x), NEW e, NEW n, IsReport(e, n), e.id # id
  PROVE  Joined(OnExec(o, e), OnExec(p, e), id, x)
<1>1. PICK o2, p2 : o2 = OnExec(o, e) /\ p2 = OnExec(p, e)
  OBVIOUS
<1>2. CASE e.id \notin DOMAIN o.orders
  <2>1. e.id \notin DOMAIN p.orders
    BY <1>2 DEF Joined
  <2>2. o2 = o /\ p2 = p
    BY <1>1, <1>2, <2>1, ExecEffect
  <2>. QED  BY <1>1, <2>2
<1>3. CASE e.id \in DOMAIN o.orders
  <2>1. PICK y : y = o.orders[e.id] /\ y = p.orders[e.id]
    BY <1>3 DEF Joined
  <2>2. e.id \in DOMAIN p.orders
    BY <1>3 DEF Joined
  <2>3. Effect(o, o2, e, y) /\ IsOms(o2)
    BY <1>1, <1>3, <2>1, ExecEffect
  <2>4. Effect(p, p2, e, y) /\ IsOms(p2)
    BY <1>1, <2>1, <2>2, ExecEffect
  <2>5. /\ id \notin DOMAIN o2.orders
        /\ DOMAIN p2.orders = DOMAIN o2.orders \cup {id}
        /\ p2.orders[id] = x
        /\ \A i \in DOMAIN o2.orders : p2.orders[i] = o2.orders[i]
    BY <2>3, <2>4 DEF Effect, Joined
  <2>6. p2.position = o2.position /\ p2.next_cl_id = o2.next_cl_id + 1
    BY <2>3, <2>4 DEF Effect, Joined
  <2>7. /\ p2.open[x.side] = o2.open[x.side] + x.leaves
        /\ \A s \in Side \ {x.side} : p2.open[s] = o2.open[s]
    <3>1. /\ x.side \in Side /\ x.leaves \in Int /\ y.side \in Side
          /\ o.open \in [Side -> Int] /\ p.open \in [Side -> Int]
          /\ Freed(y, e) \in Int /\ IsOrder(y)
      <4>1. IsOrder(y)
        BY <1>3, <2>1 DEF IsOms
      <4>2. Freed(y, e) \in Int
        <5>1. Moves(o, o2, e, y)
          BY <2>3, <4>1, OpenAfter
        <5>. QED  BY <5>1 DEF Moves
      <4>. QED  BY <4>1, <4>2 DEF IsOms, IsOrder
    <3>2. \A s \in Side : /\ o2.open[s] = o.open[s] - (IF s = y.side THEN Freed(y, e) ELSE 0)
                          /\ p2.open[s] = p.open[s] - (IF s = y.side THEN Freed(y, e) ELSE 0)
      <4>1. Moves(o, o2, e, y)
        BY <2>3, <3>1, OpenAfter
      <4>2. Moves(p, p2, e, y)
        BY <2>4, <3>1, OpenAfter
      <4>. QED  BY <4>1, <4>2 DEF Moves
    <3>3. /\ p.open[x.side] = o.open[x.side] + x.leaves
          /\ \A s \in Side \ {x.side} : p.open[s] = o.open[s]
      BY DEF Joined
    <3>4. PICK d \in Int : d = Freed(y, e)
      BY <3>1
    <3>. QED  BY <3>1, <3>2, <3>3, <3>4
  <2>. QED  BY <1>1, <2>5, <2>6, <2>7 DEF Joined
<1>. QED  BY <1>2, <1>3

(* One OMS is the other with a cancel of id sent, for sure if firm. *)
Marked(o, p, id, firm) ==
  /\ DOMAIN p.orders = DOMAIN o.orders
  /\ \A i \in DOMAIN o.orders :
       /\ p.orders[i].side = o.orders[i].side
       /\ p.orders[i].leaves = o.orders[i].leaves
       /\ p.orders[i].acked = o.orders[i].acked
       /\ i # id => p.orders[i].status = o.orders[i].status
       /\ i = id /\ firm => p.orders[i].status = "PendingCancel"
  /\ p.position = o.position
  /\ p.next_cl_id = o.next_cl_id
  /\ \A s \in Side : p.open[s] = o.open[s]

Crossed(e) == e.kind = "Rejected" /\ e.reason = "WouldCross"

LEMMA MarkedStep ==
  ASSUME NEW o, IsOms(o), NEW p, IsOms(p), NEW id, NEW firm \in BOOLEAN,
         Marked(o, p, id, firm), NEW e, NEW n, IsReport(e, n),
         firm /\ e.id = id => ~Crossed(e)
  PROVE  Marked(OnExec(o, e), OnExec(p, e), id, firm)
<1>1. PICK o2, p2 : o2 = OnExec(o, e) /\ p2 = OnExec(p, e)
  OBVIOUS
<1>2. CASE e.id \notin DOMAIN o.orders
  <2>1. e.id \notin DOMAIN p.orders
    BY <1>2 DEF Marked
  <2>2. o2 = o /\ p2 = p
    BY <1>1, <1>2, <2>1, ExecEffect
  <2>. QED  BY <1>1, <2>2
<1>3. CASE e.id \in DOMAIN o.orders
  <2>1. PICK x, y : x = o.orders[e.id] /\ y = p.orders[e.id]
    OBVIOUS
  <2>2. e.id \in DOMAIN p.orders
    BY <1>3 DEF Marked
  <2>3. Effect(o, o2, e, x) /\ IsOrder(x) /\ IsOms(o2)
    BY <1>1, <1>3, <2>1, ExecEffect DEF IsOms
  <2>4. Effect(p, p2, e, y) /\ IsOrder(y) /\ IsOms(p2)
    BY <1>1, <2>1, <2>2, ExecEffect DEF IsOms
  <2>5. /\ y.side = x.side /\ y.leaves = x.leaves /\ y.acked = x.acked
        /\ e.id # id => y.status = x.status
        /\ e.id = id /\ firm => y.status = "PendingCancel"
    BY <1>3, <2>1 DEF Marked
  <2>6. /\ Gone(y, e) <=> Gone(x, e)
        /\ Freed(y, e) = Freed(x, e)
    BY <2>5 DEF Gone, Freed
  <2>7. /\ Updated(y, e).side = Updated(x, e).side
        /\ Updated(y, e).leaves = Updated(x, e).leaves
        /\ Updated(y, e).acked = Updated(x, e).acked
    <3>1. e.kind = "Fill" \/ e.kind # "Fill"
      OBVIOUS
    <3>2. e.kind = "Ack" => Updated(x, e).acked = TRUE /\ Updated(y, e).acked = TRUE
      BY <2>3, <2>4 DEF Updated, IsOrder
    <3>3. /\ Updated(x, e).side = x.side
          /\ e.kind = "Fill" => Updated(x, e).leaves = e.leaves
          /\ e.kind # "Fill" => Updated(x, e).leaves = x.leaves
          /\ e.kind # "Ack" => Updated(x, e).acked = x.acked
      BY <2>3, OrderUpdated
    <3>4. /\ Updated(y, e).side = y.side
          /\ e.kind = "Fill" => Updated(y, e).leaves = e.leaves
          /\ e.kind # "Fill" => Updated(y, e).leaves = y.leaves
          /\ e.kind # "Ack" => Updated(y, e).acked = y.acked
      BY <2>4, OrderUpdated
    <3>. QED  BY <2>5, <3>1, <3>2, <3>3, <3>4
  <2>8. e.id # id => Updated(y, e).status = Updated(x, e).status
    <3>1. \A z : IsOrder(z) =>
            Updated(z, e).status =
              IF e.kind = "Ack"
              THEN IF z.status = "PendingNew" THEN "Live" ELSE z.status
              ELSE IF e.kind = "Fill" THEN z.status ELSE "Live"
      BY DEF Updated, IsOrder
    <3>. QED  BY <2>3, <2>4, <2>5, <3>1
  <2>9. e.id = id /\ firm /\ ~Gone(y, e) => Updated(y, e).status = "PendingCancel"
    <3>. SUFFICES ASSUME e.id = id, firm, ~Gone(y, e)
                  PROVE  Updated(y, e).status = "PendingCancel"
      OBVIOUS
    <3>1. e.kind \in {"Ack", "Fill"}
      BY DEF Gone, IsReport, ReportKinds, Crossed
    <3>. QED  BY <2>4, <2>5, <3>1, OrderUpdated
  <2>10. /\ DOMAIN p2.orders = DOMAIN o2.orders
         /\ \A i \in DOMAIN o2.orders :
              /\ i # e.id => p2.orders[i] = p.orders[i] /\ o2.orders[i] = o.orders[i]
                             /\ i \in DOMAIN o.orders
              /\ i = e.id => /\ p2.orders[i] = Updated(y, e) /\ o2.orders[i] = Updated(x, e)
                             /\ ~Gone(y, e)
    <3>1. DOMAIN p.orders = DOMAIN o.orders
      BY DEF Marked
    <3>. QED  BY <2>3, <2>4, <2>6, <3>1 DEF Effect
  <2>11. \A i \in DOMAIN o2.orders :
           /\ p2.orders[i].side = o2.orders[i].side
           /\ p2.orders[i].leaves = o2.orders[i].leaves
           /\ p2.orders[i].acked = o2.orders[i].acked
           /\ i # id => p2.orders[i].status = o2.orders[i].status
           /\ i = id /\ firm => p2.orders[i].status = "PendingCancel"
    <3>. SUFFICES ASSUME NEW i \in DOMAIN o2.orders
                  PROVE  /\ p2.orders[i].side = o2.orders[i].side
                         /\ p2.orders[i].leaves = o2.orders[i].leaves
                         /\ p2.orders[i].acked = o2.orders[i].acked
                         /\ i # id => p2.orders[i].status = o2.orders[i].status
                         /\ i = id /\ firm => p2.orders[i].status = "PendingCancel"
      OBVIOUS
    <3>1. CASE i = e.id
      BY <2>7, <2>8, <2>9, <2>10, <3>1
    <3>2. CASE i # e.id
      BY <2>10, <3>2 DEF Marked
    <3>. QED  BY <3>1, <3>2
  <2>12. p2.position = o2.position /\ p2.next_cl_id = o2.next_cl_id
    BY <2>3, <2>4, <2>5 DEF Effect, Marked
  <2>13. \A s \in Side : p2.open[s] = o2.open[s]
    <3>1. \A s \in Side : o2.open[s] = o.open[s] - (IF s = x.side THEN Freed(x, e) ELSE 0)
      <4>1. Moves(o, o2, e, x)
        BY <2>3, OpenAfter
      <4>. QED  BY <4>1 DEF Moves
    <3>2. \A s \in Side : p2.open[s] = p.open[s] - (IF s = y.side THEN Freed(y, e) ELSE 0)
      <4>1. Moves(p, p2, e, y)
        BY <2>4, OpenAfter
      <4>. QED  BY <4>1 DEF Moves
    <3>3. \A s \in Side : p.open[s] = o.open[s]
      BY DEF Marked
    <3>4. y.side = x.side /\ Freed(y, e) = Freed(x, e)
      BY <2>5, <2>6
    <3>. SUFFICES ASSUME NEW s \in Side PROVE p2.open[s] = o2.open[s]
      OBVIOUS
    <3>5. CASE s = x.side
      BY <3>1, <3>2, <3>3, <3>4, <3>5
    <3>6. CASE s # x.side
      BY <3>1, <3>2, <3>3, <3>4, <3>6
    <3>. QED  BY <3>5, <3>6
  <2>. QED  BY <1>1, <2>10, <2>11, <2>12, <2>13 DEF Marked
<1>. QED  BY <1>2, <1>3

(* So does a whole sequence of them. *)
LEMMA JoinedView ==
  ASSUME NEW o, IsOms(o), NEW p, IsOms(p), NEW id, NEW x, IsOrder(x),
         Joined(o, p, id, x),
         NEW S, NEW r \in Seq(S), NEW n, AllReports(r, n),
         \A i \in 1..Len(r) : r[i].id # id
  PROVE  Joined(OnExecs(o, r), OnExecs(p, r), id, x)
<1>1. Len(r) \in Nat
  OBVIOUS
<1>2. PICK a : Trail(o, r, a) /\ OnExecs(o, r) = a[Len(r)]
  BY TrailIs
<1>3. PICK b : Trail(p, r, b) /\ OnExecs(p, r) = b[Len(r)]
  BY TrailIs
<1>4. a[0] = o /\ \A i \in 1..Len(r) : a[i] = OnExec(a[i-1], r[i])
  BY <1>1, <1>2, TrailSteps
<1>5. b[0] = p /\ \A i \in 1..Len(r) : b[i] = OnExec(b[i-1], r[i])
  BY <1>1, <1>3, TrailSteps
<1>6. \A k \in 0..Len(r) : IsOms(a[k])
  BY <1>1, <1>4, TrailTyped
<1>7. \A k \in 0..Len(r) : IsOms(b[k])
  BY <1>1, <1>5, TrailTyped
<1>. DEFINE T == {k \in 0..Len(r) : ~Joined(a[k], b[k], id, x)}
<1>8. T = {}
  <2>. SUFFICES ASSUME T # {} PROVE FALSE
    OBVIOUS
  <2>1. PICK m \in T : \A k \in T : m <= k
    <3>1. T \in SUBSET Nat
      BY <1>1
    <3>. HIDE DEF T
    <3>. QED  BY <3>1, LeastNat
  <2>2. m \in 0..Len(r) /\ ~Joined(a[m], b[m], id, x) /\ m # 0
    BY <1>4, <1>5
  <2>3. m - 1 \in 0..Len(r) /\ m \in 1..Len(r) /\ ~(m <= m - 1)
    BY <1>1, <2>2
  <2>4. PICK u, v, e : u = a[m-1] /\ v = b[m-1] /\ e = r[m]
    OBVIOUS
  <2>5. Joined(u, v, id, x) /\ IsOms(u) /\ IsOms(v)
    BY <1>6, <1>7, <2>1, <2>3, <2>4
  <2>6. IsReport(e, n) /\ e.id # id
    BY <2>3, <2>4 DEF AllReports
  <2>7. Joined(OnExec(u, e), OnExec(v, e), id, x)
    BY <2>5, <2>6, JoinedStep
  <2>. QED  BY <1>4, <1>5, <2>2, <2>3, <2>4, <2>7
<1>9. Len(r) \in 0..Len(r)
  BY <1>1
<1>. QED  BY <1>2, <1>3, <1>8, <1>9

LEMMA MarkedView ==
  ASSUME NEW o, IsOms(o), NEW p, IsOms(p), NEW id, NEW firm \in BOOLEAN,
         Marked(o, p, id, firm),
         NEW S, NEW r \in Seq(S), NEW n, AllReports(r, n),
         firm => \A i \in 1..Len(r) : r[i].id = id => ~Crossed(r[i])
  PROVE  Marked(OnExecs(o, r), OnExecs(p, r), id, firm)
<1>1. Len(r) \in Nat
  OBVIOUS
<1>2. PICK a : Trail(o, r, a) /\ OnExecs(o, r) = a[Len(r)]
  BY TrailIs
<1>3. PICK b : Trail(p, r, b) /\ OnExecs(p, r) = b[Len(r)]
  BY TrailIs
<1>4. a[0] = o /\ \A i \in 1..Len(r) : a[i] = OnExec(a[i-1], r[i])
  BY <1>1, <1>2, TrailSteps
<1>5. b[0] = p /\ \A i \in 1..Len(r) : b[i] = OnExec(b[i-1], r[i])
  BY <1>1, <1>3, TrailSteps
<1>6. \A k \in 0..Len(r) : IsOms(a[k])
  BY <1>1, <1>4, TrailTyped
<1>7. \A k \in 0..Len(r) : IsOms(b[k])
  BY <1>1, <1>5, TrailTyped
<1>. DEFINE T == {k \in 0..Len(r) : ~Marked(a[k], b[k], id, firm)}
<1>8. T = {}
  <2>. SUFFICES ASSUME T # {} PROVE FALSE
    OBVIOUS
  <2>1. PICK m \in T : \A k \in T : m <= k
    <3>1. T \in SUBSET Nat
      BY <1>1
    <3>. HIDE DEF T
    <3>. QED  BY <3>1, LeastNat
  <2>2. m \in 0..Len(r) /\ ~Marked(a[m], b[m], id, firm) /\ m # 0
    BY <1>4, <1>5
  <2>3. m - 1 \in 0..Len(r) /\ m \in 1..Len(r) /\ ~(m <= m - 1)
    BY <1>1, <2>2
  <2>4. PICK u, v, e : u = a[m-1] /\ v = b[m-1] /\ e = r[m]
    OBVIOUS
  <2>5. Marked(u, v, id, firm) /\ IsOms(u) /\ IsOms(v)
    BY <1>6, <1>7, <2>1, <2>3, <2>4
  <2>6. IsReport(e, n) /\ (firm /\ e.id = id => ~Crossed(e))
    BY <2>3, <2>4 DEF AllReports
  <2>7. Marked(OnExec(u, e), OnExec(v, e), id, firm)
    BY <2>5, <2>6, MarkedStep
  <2>. QED  BY <1>4, <1>5, <2>2, <2>3, <2>4, <2>7
<1>9. Len(r) \in 0..Len(r)
  BY <1>1
<1>. QED  BY <1>2, <1>3, <1>8, <1>9

LEMMA ViewTyped ==
  ASSUME NEW o, IsOms(o), NEW S, NEW r \in Seq(S), NEW n, AllReports(r, n)
  PROVE  IsOms(OnExecs(o, r))
<1>1. Len(r) \in Nat
  OBVIOUS
<1>2. PICK a : Trail(o, r, a) /\ OnExecs(o, r) = a[Len(r)]
  BY TrailIs
<1>3. a[0] = o /\ \A i \in 1..Len(r) : a[i] = OnExec(a[i-1], r[i])
  BY <1>1, <1>2, TrailSteps
<1>4. \A k \in 0..Len(r) : IsOms(a[k])
  BY <1>1, <1>3, TrailTyped
<1>. QED  BY <1>1, <1>2, <1>4

-----------------------------------------------------------------------------
(* What sending does to the OMS. *)
LEMMA NewSentIs ==
  ASSUME NEW o, IsOms(o), NEW id, id \notin DOMAIN o.orders,
         NEW side \in Side, NEW price, NEW qty \in Int,
         NEW p, p = OnNewSent(NextClId(o), id, side, price, qty)
  PROVE  /\ IsOms(p) /\ IsOrder(NewOrder(side, price, qty))
         /\ Joined(o, p, id, NewOrder(side, price, qty))
<1>1. PICK x : x = NewOrder(side, price, qty)
  OBVIOUS
<1>2. IsOrder(x) /\ x.side = side /\ x.leaves = qty
  BY <1>1 DEF NewOrder, IsOrder
<1>3. o = [orders |-> o.orders, next_cl_id |-> o.next_cl_id,
           position |-> o.position, cash |-> o.cash, open |-> o.open]
  BY DEF IsOms
<1>4. PICK f, op : f = With(o.orders, id, x) /\ op = Shift(o.open, side, qty)
  OBVIOUS
<1>5. PICK q : q = NextClId(o)
  OBVIOUS
<1>6. q = [orders |-> o.orders, next_cl_id |-> o.next_cl_id + 1,
           position |-> o.position, cash |-> o.cash, open |-> o.open]
  BY <1>3, <1>5 DEF NextClId
<1>7. p = [orders |-> f, next_cl_id |-> o.next_cl_id + 1,
           position |-> o.position, cash |-> o.cash, open |-> op]
  <2>1. p = [q EXCEPT !.orders = With(q.orders, id, NewOrder(side, price, qty)),
                      !.open = Shift(q.open, side, qty)]
    BY <1>5 DEF OnNewSent
  <2>2. q.orders = o.orders /\ q.open = o.open
    BY <1>6
  <2>3. p = [q EXCEPT !.orders = f, !.open = op]
    BY <1>1, <1>4, <2>1, <2>2
  <2>. QED  BY <1>6, <2>3
<1>8. /\ DOMAIN f = DOMAIN o.orders \cup {id} /\ f[id] = x
      /\ \A i \in DOMAIN o.orders : f[i] = o.orders[i]
  BY <1>4 DEF With
<1>9. /\ op \in [Side -> Int] /\ op[side] = o.open[side] + qty
      /\ \A s \in Side \ {side} : op[s] = o.open[s]
  <2>1. PICK q2 \in [Side -> Int] : q2 = o.open
    BY DEF IsOms
  <2>2. op = Shift(q2, side, qty)
    BY <1>4, <2>1
  <2>3. /\ op \in [Side -> Int] /\ op[side] = q2[side] + qty
        /\ \A s \in Side \ {side} : op[s] = q2[s]
    BY <2>2, ShiftIs
  <2>. QED  BY <2>1, <2>3
<1>10. \A i \in DOMAIN f : IsOrder(f[i])
  <2>1. \A i \in DOMAIN o.orders : IsOrder(o.orders[i])
    BY DEF IsOms
  <2>. QED  BY <1>2, <1>8, <2>1
<1>11. o.next_cl_id + 1 \in Nat \ {0} /\ o.position \in Int
  BY DEF IsOms
<1>12. /\ IsOms(p) /\ p.orders = f /\ p.next_cl_id = o.next_cl_id + 1
       /\ p.position = o.position /\ p.open = op
  BY <1>7, <1>9, <1>10, <1>11, OmsIs
<1>. QED  BY <1>1, <1>2, <1>8, <1>9, <1>12 DEF Joined

LEMMA CancelSentIs ==
  ASSUME NEW o, IsOms(o), NEW id \in DOMAIN o.orders,
         NEW p, p = OnCancelSent(o, id)
  PROVE  IsOms(p) /\ Marked(o, p, id, TRUE)
<1>1. PICK x : x = [o.orders[id] EXCEPT !.status = "PendingCancel"]
  OBVIOUS
<1>2. /\ IsOrder(x) /\ x.status = "PendingCancel"
      /\ x.side = o.orders[id].side /\ x.leaves = o.orders[id].leaves
      /\ x.acked = o.orders[id].acked
  <2>1. PICK y : y = o.orders[id] /\ IsOrder(y)
    BY DEF IsOms
  <2>2. x = [side |-> y.side, price |-> y.price, leaves |-> y.leaves,
             status |-> "PendingCancel", acked |-> y.acked]
    BY <1>1, <2>1 DEF IsOrder
  <2>. QED  BY <2>1, <2>2 DEF IsOrder
<1>3. o = [orders |-> o.orders, next_cl_id |-> o.next_cl_id,
           position |-> o.position, cash |-> o.cash, open |-> o.open]
  BY DEF IsOms
<1>4. PICK f : f = With(o.orders, id, x)
  OBVIOUS
<1>5. p = [o EXCEPT !.orders = f]
  BY <1>1, <1>4 DEF OnCancelSent, SetStatus
<1>6. p = [orders |-> f, next_cl_id |-> o.next_cl_id,
           position |-> o.position, cash |-> o.cash, open |-> o.open]
  BY <1>3, <1>5
<1>7. /\ DOMAIN f = DOMAIN o.orders /\ f[id] = x
      /\ \A i \in DOMAIN o.orders \ {id} : f[i] = o.orders[i]
  BY <1>4 DEF With
<1>8. \A i \in DOMAIN f : IsOrder(f[i])
  BY <1>2, <1>7 DEF IsOms
<1>9. o.next_cl_id \in Nat \ {0} /\ o.position \in Int /\ o.open \in [Side -> Int]
  BY DEF IsOms
<1>10. /\ IsOms(p) /\ p.orders = f /\ p.next_cl_id = o.next_cl_id
       /\ p.position = o.position /\ p.open = o.open
  BY <1>6, <1>8, <1>9, OmsIs
<1>. QED  BY <1>2, <1>7, <1>10 DEF Marked
(* A report that fits: a fill is of what the order has left, a rejection   *)
(* of one that would cross is of an order that was not accepted.           *)
Apt(v, e) ==
  e.id \in DOMAIN v.orders =>
    /\ e.kind = "Fill" => v.orders[e.id].leaves = e.qty + e.leaves
    /\ Crossed(e) => ~v.orders[e.id].acked

(* Any report keeps the numbers and the sizes. *)
LEMMA NumberedStep ==
  ASSUME NEW o, IsOms(o), Numbered(o), NEW e, NEW n, IsReport(e, n)
  PROVE  Numbered(OnExec(o, e)) /\ OnExec(o, e).next_cl_id = o.next_cl_id
<1>1. PICK p : p = OnExec(o, e)
  OBVIOUS
<1>2. CASE e.id \notin DOMAIN o.orders
  BY <1>2, ExecEffect
<1>3. CASE e.id \in DOMAIN o.orders
  <2>1. PICK x : x = o.orders[e.id]
    OBVIOUS
  <2>2. Effect(o, p, e, x)
    BY <1>1, <1>3, <2>1, ExecEffect
  <2>3. IsOrder(x) /\ x.leaves \in 0..OrderQty
    BY <1>3, <2>1 DEF IsOms, Numbered
  <2>4. Updated(x, e).leaves \in 0..OrderQty
    <3>1. e.kind = "Fill" => Updated(x, e).leaves = e.leaves
      BY <2>3, OrderUpdated
    <3>2. e.kind # "Fill" => Updated(x, e).leaves = x.leaves
      BY <2>3, OrderUpdated
    <3>. QED  BY <2>3, <3>1, <3>2 DEF IsReport
  <2>5. DOMAIN p.orders \subseteq DOMAIN o.orders /\ p.next_cl_id = o.next_cl_id
    BY <2>2 DEF Effect
  <2>6. \A i \in DOMAIN p.orders : p.orders[i].leaves \in 0..OrderQty
    BY <2>2, <2>4, <2>5 DEF Effect, Numbered
  <2>. QED  BY <1>1, <2>5, <2>6 DEF Numbered
<1>. QED  BY <1>2, <1>3

LEMMA ViewNumbered ==
  ASSUME NEW o, IsOms(o), Numbered(o), NEW S, NEW r \in Seq(S), NEW n,
         AllReports(r, n)
  PROVE  Numbered(OnExecs(o, r)) /\ OnExecs(o, r).next_cl_id = o.next_cl_id
<1>1. Len(r) \in Nat
  OBVIOUS
<1>2. PICK a : Trail(o, r, a) /\ OnExecs(o, r) = a[Len(r)]
  BY TrailIs
<1>3. a[0] = o /\ \A i \in 1..Len(r) : a[i] = OnExec(a[i-1], r[i])
  BY <1>1, <1>2, TrailSteps
<1>4. \A k \in 0..Len(r) : IsOms(a[k])
  BY <1>1, <1>3, TrailTyped
<1>. DEFINE Fine(k) == Numbered(a[k]) /\ a[k].next_cl_id = o.next_cl_id
            T == {k \in 0..Len(r) : ~Fine(k)}
<1>5. T = {}
  <2>. SUFFICES ASSUME T # {} PROVE FALSE
    OBVIOUS
  <2>1. PICK m \in T : \A k \in T : m <= k
    <3>1. T \in SUBSET Nat
      BY <1>1
    <3>. HIDE DEF T
    <3>. QED  BY <3>1, LeastNat
  <2>2. m \in 0..Len(r) /\ ~Fine(m) /\ m # 0
    BY <1>3
  <2>3. m - 1 \in 0..Len(r) /\ m \in 1..Len(r) /\ ~(m <= m - 1)
    BY <1>1, <2>2
  <2>4. PICK u, e : u = a[m-1] /\ e = r[m]
    OBVIOUS
  <2>5. IsOms(u) /\ Numbered(u) /\ u.next_cl_id = o.next_cl_id
    BY <1>4, <2>1, <2>3, <2>4
  <2>6. IsReport(e, n)
    BY <2>3, <2>4 DEF AllReports
  <2>7. Numbered(OnExec(u, e)) /\ OnExec(u, e).next_cl_id = u.next_cl_id
    BY <2>5, <2>6, NumberedStep
  <2>. QED  BY <1>3, <2>2, <2>3, <2>4, <2>5, <2>7
<1>6. Len(r) \in 0..Len(r)
  BY <1>1
<1>. QED  BY <1>2, <1>5, <1>6
-----------------------------------------------------------------------------
(* The open quantities of an OMS that differs in one order. *)
LEMMA LeavesType ==
  ASSUME NEW o, Numbered(o), NEW side
  PROVE  Leaves(o, side) \in [1..MaxOrders -> Nat]
<1>1. \A i \in Own(o, side) : o.orders[i].leaves \in Nat
  BY DEF Own, Numbered
<1>. QED  BY <1>1 DEF Leaves

LEMMA OpenIsNat ==
  ASSUME NEW o, OpenAddsUp(o), NEW side \in Side
  PROVE  o.open[side] \in Nat
<1>1. IsSum(Leaves(o, side), MaxOrders, o.open[side]) /\ MaxOrders \in Nat
  BY TradingAssumption DEF OpenAddsUp
<1>. QED  BY <1>1, SumIsNat

Differ(v, w, id) ==
  \A i \in (DOMAIN v.orders \cup DOMAIN w.orders) \ {id} :
    /\ i \in DOMAIN v.orders /\ i \in DOMAIN w.orders
    /\ w.orders[i].side = v.orders[i].side
    /\ w.orders[i].leaves = v.orders[i].leaves

LEMMA OpenMoves ==
  ASSUME NEW v, Numbered(v), NEW w, Numbered(w), NEW id \in 1..MaxOrders,
         Differ(v, w, id), OpenAddsUp(v),
         \A s \in Side :
           w.open[s] = v.open[s] - Leaves(v, s)[id] + Leaves(w, s)[id]
  PROVE  OpenAddsUp(w)
<1>. SUFFICES ASSUME NEW s \in Side
              PROVE  IsSum(Leaves(w, s), MaxOrders, w.open[s])
  BY DEF OpenAddsUp
<1>1. PICK f, h, t : f = Leaves(v, s) /\ h = Leaves(w, s) /\ t = v.open[s]
  OBVIOUS
<1>2. f \in [1..MaxOrders -> Nat] /\ h \in [1..MaxOrders -> Nat]
  BY <1>1, LeavesType
<1>3. IsSum(f, MaxOrders, t) /\ MaxOrders \in Nat
  BY <1>1, TradingAssumption DEF OpenAddsUp
<1>4. \A i \in 1..MaxOrders : i # id => h[i] = f[i]
  <2>. SUFFICES ASSUME NEW i \in 1..MaxOrders, i # id PROVE h[i] = f[i]
    OBVIOUS
  <2>1. i \in Own(w, s) <=> i \in Own(v, s)
    BY DEF Differ, Own
  <2>2. i \in Own(v, s) => w.orders[i].leaves = v.orders[i].leaves
    BY DEF Differ, Own
  <2>. QED  BY <1>1, <2>1, <2>2 DEF Leaves
<1>5. IsSum(h, MaxOrders, t - f[id] + h[id])
  BY <1>2, <1>3, <1>4, SumUpdate
<1>6. w.open[s] = t - f[id] + h[id]
  BY <1>1
<1>. QED  BY <1>1, <1>5, <1>6

(* The orders of the side that are left out have nothing open. *)
LEMMA NoneOpen ==
  ASSUME NEW o, OpenAddsUp(o), NEW side \in Side, Own(o, side) = {}
  PROVE  o.open[side] = 0
<1>1. MaxOrders \in Nat
  BY TradingAssumption
<1>2. PICK f : f = Leaves(o, side)
  OBVIOUS
<1>3. \A i \in 1..MaxOrders : f[i] = 0
  BY <1>2 DEF Leaves
<1>4. IsSum(f, MaxOrders, o.open[side])
  BY <1>2 DEF OpenAddsUp
<1>5. IsSum(f, MaxOrders, 0)
  BY <1>1, <1>3, ZeroSum
<1>6. SumUpTo(f, MaxOrders) = 0
  BY <1>1, <1>5, SumIsTotal
<1>7. SumUpTo(f, MaxOrders) = o.open[side]
  BY <1>1, <1>4, SumIsTotal
<1>. QED  BY <1>6, <1>7

(* Two orders have at most two times the order quantity open. *)
LEMMA TwoOpen ==
  ASSUME NEW o, Numbered(o), OpenAddsUp(o), NEW side \in Side,
         NEW x, NEW y, Own(o, side) \subseteq {x, y}
  PROVE  o.open[side] <= 2 * OrderQty
<1>1. MaxOrders \in Nat /\ OrderQty \in Nat
  BY TradingAssumption, StrategiesAssumption
<1>2. PICK f : f = Leaves(o, side)
  OBVIOUS
<1>3. f \in [1..MaxOrders -> Nat]
  BY <1>2, LeavesType
<1>4. \A i \in 1..MaxOrders : f[i] \in 0..OrderQty
  <2>1. \A i \in Own(o, side) : o.orders[i].leaves \in 0..OrderQty
    BY DEF Own, Numbered
  <2>. QED  BY <1>1, <1>2, <2>1 DEF Leaves
<1>5. \A i \in 1..MaxOrders : i # x /\ i # y => f[i] = 0
  BY <1>2 DEF Leaves
<1>6. PICK z \in [1..MaxOrders -> Nat] : \A i \in 1..MaxOrders : z[i] = 0
  <2>1. [i \in 1..MaxOrders |-> 0] \in [1..MaxOrders -> Nat]
    OBVIOUS
  <2>. QED  BY <2>1
<1>7. IsSum(z, MaxOrders, 0)
  BY <1>1, <1>6, ZeroSum
<1>8. PICK g : /\ g \in [1..MaxOrders -> Nat]
               /\ \A i \in 1..MaxOrders : g[i] = IF i = x THEN f[i] ELSE 0
  <2>1. PICK h : h = [i \in 1..MaxOrders |-> IF i = x THEN f[i] ELSE 0]
    OBVIOUS
  <2>2. h \in [1..MaxOrders -> Nat]
    BY <1>3, <2>1
  <2>3. \A i \in 1..MaxOrders : h[i] = IF i = x THEN f[i] ELSE 0
    BY <2>1
  <2>. QED  BY <2>2, <2>3
<1>9. \E a \in 0..OrderQty : IsSum(g, MaxOrders, a)
  <2>1. CASE x \in 1..MaxOrders
    <3>1. \A i \in 1..MaxOrders : i # x => g[i] = z[i]
      BY <1>6, <1>8
    <3>2. IsSum(g, MaxOrders, 0 - z[x] + g[x])
      BY <1>1, <1>6, <1>7, <1>8, <2>1, <3>1, SumUpdate
    <3>3. z[x] = 0 /\ g[x] = f[x] /\ f[x] \in 0..OrderQty
      BY <1>4, <1>6, <1>8, <2>1
    <3>4. 0 - z[x] + g[x] = f[x]
      BY <1>1, <3>3
    <3>. QED  BY <3>2, <3>3, <3>4
  <2>2. CASE x \notin 1..MaxOrders
    <3>1. \A i \in 1..MaxOrders : g[i] = 0
      BY <1>8, <2>2
    <3>2. IsSum(g, MaxOrders, 0) /\ 0 \in 0..OrderQty
      BY <1>1, <3>1, ZeroSum
    <3>. QED  BY <3>2
  <2>. QED  BY <2>1, <2>2
<1>10. PICK a \in 0..OrderQty : IsSum(g, MaxOrders, a)
  BY <1>9
<1>11. \E b \in 0..(2 * OrderQty) : IsSum(f, MaxOrders, b)
  <2>1. CASE y \in 1..MaxOrders
    <3>1. \A i \in 1..MaxOrders : i # y => f[i] = g[i]
      BY <1>5, <1>8
    <3>2. IsSum(f, MaxOrders, a - g[y] + f[y])
      BY <1>1, <1>3, <1>8, <1>10, <2>1, <3>1, SumUpdate
    <3>3. g[y] \in 0..OrderQty /\ f[y] \in 0..OrderQty
      BY <1>1, <1>4, <1>8, <2>1
    <3>4. a - g[y] + f[y] \in Nat
      BY <1>1, <3>2, SumIsNat
    <3>5. a - g[y] + f[y] <= 2 * OrderQty
      BY <1>1, <1>10, <3>3
    <3>6. a - g[y] + f[y] \in 0..(2 * OrderQty)
      BY <1>1, <3>4, <3>5
    <3>. QED  BY <3>2, <3>6
  <2>2. CASE y \notin 1..MaxOrders
    <3>1. f = [i \in 1..MaxOrders |-> f[i]] /\ g = [i \in 1..MaxOrders |-> g[i]]
      BY <1>3, <1>8
    <3>2. \A i \in 1..MaxOrders : f[i] = g[i]
      BY <1>5, <1>8, <2>2
    <3>3. f = g
      BY <3>1, <3>2
    <3>. QED  BY <1>1, <1>10, <3>3
  <2>. QED  BY <2>1, <2>2
<1>12. PICK b \in 0..(2 * OrderQty) : IsSum(f, MaxOrders, b)
  BY <1>11
<1>13. SumUpTo(f, MaxOrders) = b
  BY <1>1, <1>12, SumIsTotal
<1>14. SumUpTo(f, MaxOrders) = o.open[side]
  <2>1. IsSum(f, MaxOrders, o.open[side])
    BY <1>2 DEF OpenAddsUp
  <2>. QED  BY <1>1, <2>1, SumIsTotal
<1>. QED  BY <1>1, <1>12, <1>13, <1>14

(* Books of an OMS and of what it comes to with the reports under way:     *)
(* they stay in order with one more report, ...                            *)
LEMMA BooksReport ==
  ASSUME NEW o, NEW v, NEW S, NEW r \in Seq(S), Books(o, v, r), IsOms(o),
         NEW e \in S, IsReport(e, o.next_cl_id), Apt(v, e),
         NEW w, w = OnExec(v, e)
  PROVE  /\ Books(o, w, Append(r, e))
         /\ \A s \in Side : Room(w, s) <= Room(v, s)
         /\ e.kind # "Fill" => w.position = v.position
<1>1. /\ IsOms(v) /\ Numbered(v) /\ Follows(v, o) /\ CrossedGone(r, v)
      /\ OpenAddsUp(v)
  BY DEF Books
<1>2. IsOms(w) /\ Numbered(w) /\ w.next_cl_id = v.next_cl_id
  BY <1>1, ExecEffect, NumberedStep
<1>3. CASE e.id \notin DOMAIN v.orders
  <2>1. w = v
    BY <1>1, <1>3, ExecEffect
  <2>2. CrossedGone(Append(r, e), v)
    BY <1>1, <1>3 DEF CrossedGone
  <2>3. \A s \in Side : Room(v, s) \in Int
    BY <1>1, RoomIsInt
  <2>. QED  BY <2>1, <2>2, <2>3 DEF Books
<1>4. CASE e.id \in DOMAIN v.orders
  <2>1. PICK id, x : id = e.id /\ x = v.orders[e.id]
    OBVIOUS
  <2>2. Effect(v, w, e, x)
    BY <1>1, <1>4, <2>1, ExecEffect
  <2>3. /\ IsOrder(x) /\ x.side \in Side /\ x.leaves \in 0..OrderQty
        /\ id \in DOMAIN v.orders
    BY <1>1, <1>4, <2>1 DEF IsOms, IsOrder, Numbered
  <2>4. /\ e.kind = "Fill" => x.leaves = e.qty + e.leaves /\ e.qty \in Nat
        /\ Crossed(e) => ~x.acked
        /\ e.kind \in ReportKinds
        /\ e.kind = "Rejected" => e.reason \in {"UnknownOrder", "WouldCross"}
    BY <1>4, <2>1 DEF Apt, IsReport
  <2>5. ~Gone(x, e) => e.kind \in {"Ack", "Fill"}
    BY <2>4 DEF Gone, Crossed, ReportKinds
  <2>6. /\ DOMAIN w.orders = IF Gone(x, e) THEN DOMAIN v.orders \ {id}
                             ELSE DOMAIN v.orders
        /\ \A i \in DOMAIN w.orders :
             /\ i \in DOMAIN v.orders
             /\ i # id => w.orders[i] = v.orders[i]
             /\ i = id => w.orders[i] = Updated(x, e) /\ ~Gone(x, e)
    BY <2>1, <2>2 DEF Effect
  <2>7. /\ Updated(x, e).side = x.side
        /\ e.kind = "Fill" => Updated(x, e).leaves = e.leaves
        /\ e.kind # "Fill" => Updated(x, e).leaves = x.leaves
        /\ e.kind \in {"Ack", "Fill"} =>
             (Updated(x, e).status = "PendingCancel" <=> x.status = "PendingCancel")
    BY <2>3, OrderUpdated
  <2>8. /\ Freed(x, e) \in Nat
        /\ \A s \in Side :
             w.open[s] = v.open[s] - (IF s = x.side THEN Freed(x, e) ELSE 0)
    <3>1. Moves(v, w, e, x)
      BY <1>1, <2>2, <2>3, OpenAfter
    <3>2. Freed(x, e) \in Nat
      BY <2>3, <2>4 DEF Freed
    <3>. QED  BY <3>1, <3>2 DEF Moves
  <2>9. OpenAddsUp(w)
    <3>1. Differ(v, w, id)
      BY <2>6 DEF Differ
    <3>2. id \in 1..MaxOrders
      <4>1. id \in 1..(v.next_cl_id - 1) /\ v.next_cl_id <= MaxOrders + 1
        BY <1>1, <2>3 DEF Numbered, Books, Follows
      <4>2. MaxOrders \in Nat /\ v.next_cl_id \in Nat
        BY <1>1, TradingAssumption DEF IsOms
      <4>. QED  BY <4>1, <4>2
    <3>3. \A s \in Side : Leaves(v, s)[id] = IF s = x.side THEN x.leaves ELSE 0
      BY <2>1, <2>3, <3>2 DEF Leaves, Own
    <3>4. \A s \in Side : Leaves(w, s)[id] =
             IF s = x.side /\ ~Gone(x, e) THEN Updated(x, e).leaves ELSE 0
      <4>. SUFFICES ASSUME NEW s \in Side
                    PROVE  Leaves(w, s)[id] =
                             IF s = x.side /\ ~Gone(x, e)
                             THEN Updated(x, e).leaves ELSE 0
        OBVIOUS
      <4>1. Leaves(w, s)[id] = IF id \in Own(w, s) THEN w.orders[id].leaves ELSE 0
        BY <3>2 DEF Leaves
      <4>2. id \in Own(w, s) <=> s = x.side /\ ~Gone(x, e)
        BY <2>3, <2>6, <2>7 DEF Own
      <4>3. id \in Own(w, s) => w.orders[id] = Updated(x, e)
        BY <2>6 DEF Own
      <4>. QED  BY <4>1, <4>2, <4>3
    <3>5. /\ Gone(x, e) => Freed(x, e) = x.leaves
          /\ ~Gone(x, e) => Updated(x, e).leaves = x.leaves - Freed(x, e)
      <4>1. CASE e.kind = "Fill"
        BY <2>3, <2>4, <2>7, <4>1 DEF Freed, Gone, IsReport
      <4>2. CASE e.kind # "Fill"
        BY <2>3, <2>7, <4>2 DEF Freed
      <4>. QED  BY <4>1, <4>2
    <3>6. \A s \in Side : w.open[s] = v.open[s] - Leaves(v, s)[id] + Leaves(w, s)[id]
      <4>. SUFFICES ASSUME NEW s \in Side
                    PROVE  w.open[s] = v.open[s] - Leaves(v, s)[id] + Leaves(w, s)[id]
        OBVIOUS
      <4>1. v.open[s] \in Int
        BY <1>1 DEF IsOms
      <4>2. PICK d \in Nat, l \in Nat : d = Freed(x, e) /\ l = x.leaves
        BY <2>3, <2>8
      <4>3. PICK u : d = Freed(x, e) /\ l = x.leaves /\ u = Updated(x, e).leaves
        BY <4>2
      <4>4. CASE s # x.side
        BY <2>8, <3>3, <3>4, <4>1, <4>4
      <4>5. CASE s = x.side /\ Gone(x, e)
        <5>1. /\ w.open[s] = v.open[s] - d /\ d = l
              /\ Leaves(v, s)[id] = l /\ Leaves(w, s)[id] = 0
          BY <2>8, <3>3, <3>4, <3>5, <4>3, <4>5
        <5>. QED  BY <4>1, <4>3, <5>1
      <4>6. CASE s = x.side /\ ~Gone(x, e)
        <5>1. /\ w.open[s] = v.open[s] - d /\ u = l - d
              /\ Leaves(v, s)[id] = l /\ Leaves(w, s)[id] = u
          BY <2>8, <3>3, <3>4, <3>5, <4>3, <4>6
        <5>. QED  BY <4>1, <4>3, <5>1
      <4>. QED  BY <4>4, <4>5, <4>6
    <3>. QED  BY <1>1, <1>2, <3>1, <3>2, <3>6, OpenMoves
  <2>10. \A s \in Side : Room(w, s) <= Room(v, s)
    <3>. SUFFICES ASSUME NEW s \in Side PROVE Room(w, s) <= Room(v, s)
      OBVIOUS
    <3>1. PICK d \in Nat, t \in Nat, p \in Int, q \in Int :
            d = Freed(x, e) /\ t = Traded(e) /\ p = v.position /\ q = v.open[s]
      BY <1>1, <2>4, <2>8 DEF IsOms, Traded
    <3>2. t <= d
      BY <2>4, <3>1 DEF Traded, Freed
    <3>3. Room(v, s) = Sign(s) * p + q
      BY <3>1 DEF Room
    <3>4. w.position = p + Sign(x.side) * t
      BY <2>2, <3>1 DEF Effect
    <3>5. w.open[s] = q - (IF s = x.side THEN d ELSE 0)
      BY <2>8, <3>1
    <3>6. Room(w, s) = Sign(s) * w.position + w.open[s]
      BY DEF Room
    <3>7. CASE s = x.side
      <4>1. CASE Sign(s) = 1
        BY <3>1, <3>2, <3>3, <3>4, <3>5, <3>6, <3>7, <4>1
      <4>2. CASE Sign(s) = -1
        <5>1. w.position = p - t /\ w.open[s] = q - d
          BY <3>1, <3>4, <3>5, <3>7, <4>2
        <5>2. PICK a \in Int, b \in Int : a = p - t /\ b = q - d
          BY <3>1
        <5>3. Room(w, s) = Sign(s) * a + b
          BY <3>6, <5>1, <5>2
        <5>4. Room(w, s) = b - a /\ Room(v, s) = q - p
          BY <3>3, <4>2, <5>2, <5>3
        <5>5. b - a <= q - p
          BY <3>2, <5>2
        <5>. QED  BY <5>4, <5>5
      <4>. QED  BY <4>1, <4>2, SignIs
    <3>8. CASE s # x.side
      <4>1. \/ Sign(s) = 1 /\ Sign(x.side) = -1
            \/ Sign(s) = -1 /\ Sign(x.side) = 1
        BY <2>3, <3>8 DEF Sign, Side
      <4>2. CASE Sign(s) = 1 /\ Sign(x.side) = -1
        BY <3>1, <3>3, <3>4, <3>5, <3>6, <3>8, <4>2
      <4>3. CASE Sign(s) = -1 /\ Sign(x.side) = 1
        BY <3>1, <3>3, <3>4, <3>5, <3>6, <3>8, <4>3
      <4>. QED  BY <4>1, <4>2, <4>3
    <3>. QED  BY <3>7, <3>8
  <2>11. Follows(w, o)
    <3>1. DOMAIN w.orders \subseteq DOMAIN o.orders /\ w.next_cl_id = o.next_cl_id
      BY <1>1, <1>2, <2>6 DEF Follows
    <3>2. ASSUME NEW i \in DOMAIN w.orders
          PROVE  /\ w.orders[i].side = o.orders[i].side
                 /\ i \in PendingCancels(o) <=> i \in PendingCancels(w)
      <4>1. /\ i \in DOMAIN v.orders
            /\ v.orders[i].side = o.orders[i].side
            /\ i \in PendingCancels(o) <=> i \in PendingCancels(v)
        BY <1>1, <2>6, <3>2 DEF Follows
      <4>2. CASE i # id
        BY <2>6, <3>2, <4>1, <4>2 DEF PendingCancels
      <4>3. CASE i = id
        <5>1. w.orders[i] = Updated(x, e) /\ e.kind \in {"Ack", "Fill"}
          BY <2>5, <2>6, <3>2, <4>3
        <5>. QED  BY <2>1, <2>7, <3>2, <4>1, <4>3, <5>1 DEF PendingCancels
      <4>. QED  BY <4>2, <4>3
    <3>3. \A s \in Side : Room(w, s) <= Room(o, s)
      <4>. SUFFICES ASSUME NEW s \in Side PROVE Room(w, s) <= Room(o, s)
        OBVIOUS
      <4>1. Room(w, s) <= Room(v, s) /\ Room(v, s) <= Room(o, s)
        BY <1>1, <2>10 DEF Follows
      <4>2. Room(w, s) \in Int /\ Room(v, s) \in Int /\ Room(o, s) \in Int
        BY <1>1, <1>2, RoomIsInt
      <4>. QED  BY <4>1, <4>2
    <3>. QED  BY <3>1, <3>2, <3>3 DEF Follows
  <2>12. CrossedGone(Append(r, e), w)
    <3>. SUFFICES ASSUME NEW i \in 1..Len(Append(r, e)), Crossed(Append(r, e)[i])
                  PROVE  Append(r, e)[i].id \notin DOMAIN w.orders
      BY DEF CrossedGone, Crossed
    <3>1. CASE i = Len(r) + 1
      <4>1. Append(r, e)[i] = e
        BY <3>1
      <4>2. Gone(x, e)
        BY <2>4, <4>1 DEF Gone, Crossed
      <4>. QED  BY <2>1, <2>6, <4>1, <4>2
    <3>2. CASE i \in 1..Len(r)
      <4>1. Append(r, e)[i] = r[i]
        BY <3>2
      <4>. QED  BY <1>1, <2>6, <3>2, <4>1 DEF CrossedGone, Crossed
    <3>. QED  BY <3>1, <3>2
  <2>13. e.kind # "Fill" => w.position = v.position
    <3>1. w.position = v.position + Sign(x.side) * Traded(e)
      BY <2>2 DEF Effect
    <3>2. Sign(x.side) \in Int /\ v.position \in Int
      BY <1>1, <2>3, SignIs DEF IsOms
    <3>. QED  BY <3>1, <3>2 DEF Traded
  <2>. QED  BY <1>2, <2>9, <2>10, <2>11, <2>12, <2>13 DEF Books
<1>. QED  BY <1>3, <1>4

(* ... with one more order, ...                                            *)
Roomier(v, w, x) ==
  /\ w.position = v.position
  /\ \A s \in Side :
       Room(w, s) = Room(v, s) + (IF s = x.side THEN x.leaves ELSE 0)

LEMMA BooksNew ==
  ASSUME NEW o, NEW v, NEW r, NEW n, AllReports(r, n), Books(o, v, r), IsOms(o),
         Numbered(o),
         NEW p, IsOms(p), NEW w, IsOms(w), NEW id, id = o.next_cl_id, id = n,
         NEW x, IsOrder(x), x.leaves \in 0..OrderQty, x.status = "PendingNew",
         Joined(o, p, id, x), Joined(v, w, id, x), id <= MaxOrders
  PROVE  Books(p, w, r) /\ Numbered(p) /\ Roomier(v, w, x)
<1>1. /\ IsOms(v) /\ Numbered(v) /\ Follows(v, o) /\ CrossedGone(r, v)
      /\ OpenAddsUp(o) /\ OpenAddsUp(v)
  BY DEF Books
<1>2. id \in Nat \ {0} /\ id \in 1..MaxOrders /\ x.side \in Side /\ MaxOrders \in Nat
  BY TradingAssumption DEF IsOms, IsOrder
<1>3. v.next_cl_id = id /\ p.next_cl_id = id + 1 /\ w.next_cl_id = id + 1
  BY <1>1 DEF Follows, Joined
<1>4. ASSUME NEW a, NEW b, IsOms(a), IsOms(b), Numbered(a), a.next_cl_id = id,
             Joined(a, b, id, x)
      PROVE  Numbered(b) /\ (OpenAddsUp(a) => OpenAddsUp(b))
             /\ \A s \in Side :
                  Room(b, s) = Room(a, s) + (IF s = x.side THEN x.leaves ELSE 0)
  <2>1. b.next_cl_id = id + 1 /\ id + 1 - 1 = id /\ id - 1 \in Nat
    BY <1>2, <1>4 DEF Joined
  <2>2. DOMAIN b.orders \subseteq 1..id
    <3>1. 1..(id - 1) \subseteq 1..id /\ id \in 1..id
      BY <1>2
    <3>2. DOMAIN a.orders \subseteq 1..(id - 1)
      BY <1>4 DEF Numbered
    <3>3. DOMAIN b.orders = DOMAIN a.orders \cup {id}
      BY <1>4 DEF Joined
    <3>. QED  BY <3>1, <3>2, <3>3
  <2>3. \A i \in DOMAIN b.orders : b.orders[i].leaves \in 0..OrderQty
    BY <1>4 DEF Joined, Numbered
  <2>4. Numbered(b)
    <3>1. b.next_cl_id - 1 = id
      BY <1>2, <2>1
    <3>. QED  BY <2>2, <2>3, <3>1 DEF Numbered
  <2>5. \A s \in Side :
           /\ a.open[s] \in Int
           /\ b.open[s] = a.open[s] + (IF s = x.side THEN x.leaves ELSE 0)
    <3>1. \A s \in Side : a.open[s] \in Int
      BY <1>4 DEF IsOms
    <3>2. /\ b.open[x.side] = a.open[x.side] + x.leaves
          /\ \A s \in Side \ {x.side} : b.open[s] = a.open[s]
      BY <1>4 DEF Joined
    <3>. SUFFICES ASSUME NEW s \in Side
                  PROVE  b.open[s] = a.open[s] + (IF s = x.side THEN x.leaves ELSE 0)
      BY <3>1
    <3>3. CASE s = x.side
      BY <3>2, <3>3
    <3>4. CASE s # x.side
      BY <3>1, <3>2, <3>4
    <3>. QED  BY <3>3, <3>4
  <2>6. ASSUME OpenAddsUp(a) PROVE OpenAddsUp(b)
    <3>1. Differ(a, b, id)
      BY <1>4 DEF Differ, Joined
    <3>2. \A s \in Side : b.open[s] = a.open[s] - Leaves(a, s)[id] + Leaves(b, s)[id]
      <4>. SUFFICES ASSUME NEW s \in Side
                    PROVE  b.open[s] = a.open[s] - Leaves(a, s)[id] + Leaves(b, s)[id]
        OBVIOUS
      <4>1. Leaves(a, s)[id] = 0
        BY <1>2, <1>4 DEF Leaves, Own, Joined
      <4>2. Leaves(b, s)[id] = IF s = x.side THEN x.leaves ELSE 0
        <5>1. id \in DOMAIN b.orders /\ b.orders[id] = x
          BY <1>4 DEF Joined
        <5>. QED  BY <1>2, <5>1 DEF Leaves, Own
      <4>3. CASE s = x.side
        BY <2>5, <4>1, <4>2, <4>3
      <4>4. CASE s # x.side
        BY <2>5, <4>1, <4>2, <4>4
      <4>. QED  BY <4>3, <4>4
    <3>. QED  BY <1>2, <1>4, <2>4, <2>6, <3>1, <3>2, OpenMoves
  <2>7. ASSUME NEW s \in Side
        PROVE  Room(b, s) = Room(a, s) + (IF s = x.side THEN x.leaves ELSE 0)
    <3>1. PICK m : m = Sign(s) * a.position
      OBVIOUS
    <3>2. m \in Int
      <4>1. a.position \in Int
        BY <1>4 DEF IsOms
      <4>2. CASE Sign(s) = 1
        BY <3>1, <4>1, <4>2
      <4>3. CASE Sign(s) = -1
        BY <3>1, <4>1, <4>3
      <4>. QED  BY <4>2, <4>3, SignIs
    <3>3. b.position = a.position
      BY <1>4 DEF Joined
    <3>4. Room(a, s) = m + a.open[s] /\ Room(b, s) = m + b.open[s]
      BY <3>1, <3>3 DEF Room
    <3>5. PICK h \in Int : h = IF s = x.side THEN x.leaves ELSE 0
      OBVIOUS
    <3>. QED  BY <2>5, <3>2, <3>4, <3>5
  <2>. QED  BY <2>4, <2>6, <2>7
<1>5. /\ Numbered(p) /\ OpenAddsUp(p)
      /\ \A s \in Side :
           Room(p, s) = Room(o, s) + (IF s = x.side THEN x.leaves ELSE 0)
  BY <1>1, <1>4
<1>6. /\ Numbered(w) /\ OpenAddsUp(w)
      /\ \A s \in Side :
           Room(w, s) = Room(v, s) + (IF s = x.side THEN x.leaves ELSE 0)
  BY <1>1, <1>3, <1>4
<1>7. Follows(w, p)
  <2>1. DOMAIN w.orders \subseteq DOMAIN p.orders
    BY <1>1 DEF Follows, Joined
  <2>2. ASSUME NEW i \in DOMAIN w.orders
        PROVE  /\ w.orders[i].side = p.orders[i].side
               /\ i \in PendingCancels(p) <=> i \in PendingCancels(w)
    <3>1. CASE i = id
      <4>1. w.orders[i] = x /\ p.orders[i] = x
        BY <3>1 DEF Joined
      <4>. QED  BY <2>1, <2>2, <4>1 DEF PendingCancels
    <3>2. CASE i # id
      <4>1. i \in DOMAIN v.orders /\ i \in DOMAIN o.orders
        BY <1>1, <2>2, <3>2 DEF Follows, Joined
      <4>2. w.orders[i] = v.orders[i] /\ p.orders[i] = o.orders[i]
        BY <4>1 DEF Joined
      <4>3. /\ v.orders[i].side = o.orders[i].side
            /\ i \in PendingCancels(o) <=> i \in PendingCancels(v)
        BY <1>1, <4>1 DEF Follows
      <4>. QED  BY <2>1, <2>2, <4>1, <4>2, <4>3 DEF PendingCancels
    <3>. QED  BY <3>1, <3>2
  <2>3. ASSUME NEW s \in Side PROVE Room(w, s) <= Room(p, s)
    <3>1. PICK h \in Int : h = IF s = x.side THEN x.leaves ELSE 0
      OBVIOUS
    <3>2. Room(v, s) \in Int /\ Room(o, s) \in Int /\ Room(v, s) <= Room(o, s)
      BY <1>1, RoomIsInt DEF Follows
    <3>3. Room(w, s) = Room(v, s) + h /\ Room(p, s) = Room(o, s) + h
      BY <1>5, <1>6, <3>1
    <3>. QED  BY <3>1, <3>2, <3>3
  <2>. QED  BY <1>3, <2>1, <2>2, <2>3 DEF Follows
<1>8. CrossedGone(r, w)
  <2>1. \A i \in 1..Len(r) : r[i].id # id
    BY <1>2 DEF AllReports, IsReport
  <2>2. DOMAIN w.orders = DOMAIN v.orders \cup {id}
    BY DEF Joined
  <2>. QED  BY <1>1, <2>1, <2>2 DEF CrossedGone
<1>9. p.next_cl_id <= MaxOrders + 1
  BY <1>2, <1>3
<1>10. Roomier(v, w, x)
  BY <1>6 DEF Roomier, Joined
<1>11. Books(p, w, r)
  BY <1>5, <1>6, <1>7, <1>8, <1>9 DEF Books
<1>. QED  BY <1>5, <1>10, <1>11

(* ... with a cancel sent, ...                                             *)
SameRoom(v, w) ==
  w.position = v.position /\ \A side \in Side : Room(w, side) = Room(v, side)

LEMMA BooksCancel ==
  ASSUME NEW o, NEW v, NEW r, Books(o, v, r), IsOms(o), Numbered(o),
         NEW p, IsOms(p), NEW w, IsOms(w), NEW id, NEW firm \in BOOLEAN,
         firm <=> id \in DOMAIN v.orders,
         Marked(o, p, id, TRUE), Marked(v, w, id, firm)
  PROVE  Books(p, w, r) /\ Numbered(p) /\ SameRoom(v, w)
<1>1. /\ IsOms(v) /\ Numbered(v) /\ Follows(v, o) /\ CrossedGone(r, v)
      /\ OpenAddsUp(o) /\ OpenAddsUp(v) /\ o.next_cl_id <= MaxOrders + 1
  BY DEF Books
<1>2. ASSUME NEW a, NEW b, NEW f, Numbered(a), Marked(a, b, id, f)
      PROVE  Numbered(b) /\ (OpenAddsUp(a) => OpenAddsUp(b))
             /\ \A s \in Side : Room(b, s) = Room(a, s)
  <2>1. Numbered(b)
    BY <1>2 DEF Numbered, Marked
  <2>2. \A s \in Side : Leaves(b, s) = Leaves(a, s)
    <3>. SUFFICES ASSUME NEW s \in Side PROVE Leaves(b, s) = Leaves(a, s)
      OBVIOUS
    <3>1. Own(b, s) = Own(a, s)
      BY <1>2 DEF Own, Marked
    <3>2. \A i \in Own(a, s) : b.orders[i].leaves = a.orders[i].leaves
      BY <1>2 DEF Own, Marked
    <3>. QED  BY <3>1, <3>2 DEF Leaves
  <2>3. \A s \in Side : b.open[s] = a.open[s] /\ b.position = a.position
    BY <1>2 DEF Marked
  <2>. QED  BY <2>1, <2>2, <2>3 DEF OpenAddsUp, Room
<1>3. /\ Numbered(p) /\ OpenAddsUp(p) /\ \A s \in Side : Room(p, s) = Room(o, s)
      /\ Numbered(w) /\ OpenAddsUp(w) /\ \A s \in Side : Room(w, s) = Room(v, s)
  <2>1. /\ Numbered(p) /\ (OpenAddsUp(o) => OpenAddsUp(p))
        /\ \A s \in Side : Room(p, s) = Room(o, s)
    BY <1>2
  <2>2. /\ Numbered(w) /\ (OpenAddsUp(v) => OpenAddsUp(w))
        /\ \A s \in Side : Room(w, s) = Room(v, s)
    BY <1>1, <1>2
  <2>. QED  BY <1>1, <2>1, <2>2
<1>4. DOMAIN p.orders = DOMAIN o.orders /\ DOMAIN w.orders = DOMAIN v.orders
      /\ p.next_cl_id = o.next_cl_id /\ w.next_cl_id = v.next_cl_id
  BY DEF Marked
<1>5. Follows(w, p)
  <2>1. ASSUME NEW i \in DOMAIN w.orders
        PROVE  /\ w.orders[i].side = p.orders[i].side
               /\ i \in PendingCancels(p) <=> i \in PendingCancels(w)
    <3>1. /\ i \in DOMAIN v.orders /\ i \in DOMAIN o.orders
          /\ v.orders[i].side = o.orders[i].side
          /\ i \in PendingCancels(o) <=> i \in PendingCancels(v)
      BY <1>1, <1>4, <2>1 DEF Follows
    <3>2. w.orders[i].side = v.orders[i].side /\ p.orders[i].side = o.orders[i].side
      BY <3>1 DEF Marked
    <3>3. CASE i = id
      <4>1. p.orders[i].status = "PendingCancel" /\ w.orders[i].status = "PendingCancel"
        BY <3>1, <3>3 DEF Marked
      <4>. QED  BY <1>4, <3>1, <3>2, <4>1 DEF PendingCancels
    <3>4. CASE i # id
      <4>1. /\ p.orders[i].status = o.orders[i].status
            /\ w.orders[i].status = v.orders[i].status
        BY <3>1, <3>4 DEF Marked
      <4>. QED  BY <1>4, <3>1, <3>2, <4>1 DEF PendingCancels
    <3>. QED  BY <3>3, <3>4
  <2>2. \A s \in Side : Room(w, s) <= Room(p, s)
    BY <1>1, <1>3 DEF Follows
  <2>3. DOMAIN w.orders \subseteq DOMAIN p.orders /\ w.next_cl_id = p.next_cl_id
    BY <1>1, <1>4 DEF Follows
  <2>. QED  BY <2>1, <2>2, <2>3 DEF Follows
<1>6. CrossedGone(r, w)
  BY <1>1, <1>4 DEF CrossedGone
<1>7. SameRoom(v, w)
  BY <1>3 DEF SameRoom, Marked
<1>8. Books(p, w, r)
  BY <1>1, <1>3, <1>4, <1>5, <1>6 DEF Books
<1>. QED  BY <1>3, <1>7, <1>8

(* ... and when all reports are taken in.                                  *)
LEMMA BooksDrained ==
  ASSUME NEW o, NEW v, NEW r, Books(o, v, r)
  PROVE  Books(v, v, <<>>)
<1>1. /\ IsOms(v) /\ Numbered(v) /\ OpenAddsUp(v) /\ v.next_cl_id <= MaxOrders + 1
  BY DEF Books, Follows
<1>2. \A s \in Side : Room(v, s) <= Room(v, s)
  BY <1>1, RoomIsInt
<1>3. Follows(v, v)
  BY <1>2 DEF Follows
<1>4. CrossedGone(<<>>, v)
  BY DEF CrossedGone
<1>. QED  BY <1>1, <1>3, <1>4 DEF Books
-----------------------------------------------------------------------------
(* The answers of the strategies. *)

(* The elements of a finite set, in a row. *)
LEMMA SetToSeqIs ==
  ASSUME NEW S, IsFiniteSet(S)
  PROVE  /\ SetToSeq(S) \in Seq(S)
         /\ \A x \in S : \E i \in 1..Len(SetToSeq(S)) : SetToSeq(S)[i] = x
<1>1. PICK n : n = Cardinality(S)
  OBVIOUS
<1>2. n \in Nat /\ ExistsBijection(1..n, S)
  BY <1>1, FS_CardinalityType
<1>3. \E f \in [1..n -> S] : IsInjective(f)
  BY <1>2 DEF ExistsBijection, Bijection, Injection
<1>4. PICK q : q = SetToSeq(S)
  OBVIOUS
<1>5. q \in [1..n -> S] /\ IsInjective(q)
  BY <1>1, <1>3, <1>4 DEF SetToSeq
<1>6. q \in Seq(S) /\ Len(q) = n
  BY <1>2, <1>5
<1>7. q \in Injection(1..n, S)
  BY <1>5 DEF Injection
<1>8. IsFiniteSet(1..n) /\ Cardinality(1..n) = Cardinality(S)
  BY <1>1, <1>2, FS_Interval
<1>9. q \in Surjection(1..n, S)
  BY <1>7, <1>8, FS_Injection
<1>10. \A x \in S : \E i \in 1..n : q[i] = x
  BY <1>9 DEF Surjection
<1>. QED  BY <1>4, <1>6, <1>10

(* One cancel for each. *)
Cancels(c, ids) ==
  /\ c \in Seq(Intents)
  /\ \A i \in 1..Len(c) : c[i].kind = "Cancel" /\ c[i].id \in ids
  /\ \A id \in ids : \E i \in 1..Len(c) : IsCancel(c[i], id)

LEMMA CancelIntentsAre ==
  ASSUME NEW ids, IsFiniteSet(ids), ids \subseteq Nat
  PROVE  Cancels(CancelIntents(ids), ids)
<1>1. PICK S : S = {[kind |-> "Cancel", id |-> id] : id \in ids}
  OBVIOUS
<1>2. IsFiniteSet(S)
  <2>1. PICK f : f = [id \in ids |-> [kind |-> "Cancel", id |-> id]]
    OBVIOUS
  <2>2. f \in Surjection(ids, S)
    <3>1. f \in [ids -> S]
      BY <1>1, <2>1
    <3>2. \A x \in S : \E id \in ids : f[id] = x
      BY <1>1, <2>1
    <3>. QED  BY <3>1, <3>2 DEF Surjection
  <2>. QED  BY <2>2, FS_Surjection
<1>3. PICK c : c = CancelIntents(ids) /\ c = SetToSeq(S)
  BY <1>1 DEF CancelIntents
<1>4. c \in Seq(S) /\ \A x \in S : \E i \in 1..Len(c) : c[i] = x
  BY <1>2, <1>3, SetToSeqIs
<1>5. \A x \in S : x \in Intents /\ x.kind = "Cancel" /\ x.id \in ids
  <2>1. \A id \in ids : id \in Nat
    OBVIOUS
  <2>. QED  BY <1>1, <2>1 DEF Intents
<1>6. c \in Seq(Intents) /\ \A i \in 1..Len(c) : c[i] \in S
  BY <1>4, <1>5
<1>7. ASSUME NEW id \in ids PROVE \E i \in 1..Len(c) : IsCancel(c[i], id)
  <2>1. PICK x : x = [kind |-> "Cancel", id |-> id]
    OBVIOUS
  <2>2. x \in S
    BY <1>1, <2>1
  <2>3. PICK i \in 1..Len(c) : c[i] = x
    BY <1>4, <2>2
  <2>. QED  BY <2>1, <2>3 DEF IsCancel
<1>. QED  BY <1>3, <1>5, <1>6, <1>7 DEF Cancels

(* What the strategies see of an OMS. *)
LEMMA OrdersFinite ==
  ASSUME NEW o, IsOms(o), Numbered(o), NEW T, T \subseteq DOMAIN o.orders
  PROVE  IsFiniteSet(T) /\ T \subseteq Nat
<1>1. o.next_cl_id - 1 \in Nat
  BY DEF IsOms
<1>2. IsFiniteSet(1..(o.next_cl_id - 1))
  BY <1>1, FS_Interval
<1>3. T \subseteq 1..(o.next_cl_id - 1)
  BY DEF Numbered
<1>4. T \subseteq Nat
  BY <1>1, <1>3
<1>5. IsFiniteSet(T)
  BY <1>2, <1>3, FS_Subset
<1>. QED  BY <1>4, <1>5
-----------------------------------------------------------------------------
(* What the book holds. *)
LEMMA GreatestIs ==
  ASSUME NEW n \in Nat, NEW T \in SUBSET (0..n), T # {}
  PROVE  Max(T) \in T
<1>1. \E m \in T : \A k \in T : m >= k
  <2>1. PICK m \in T : \A k \in T : k <= m
    BY GreatestNat
  <2>2. \A k \in T : m >= k
    BY <2>1
  <2>. QED  BY <2>2
<1>. QED  BY <1>1 DEF Max

(* The place that Find gives is in the ladder. *)
InLadder(place, l) ==
  /\ place.found => place.at \in 1..Len(l)
  /\ ~place.found => place.at \in 0..Len(l)

LEMMA FindInLadder ==
  ASSUME NEW side \in Side, NEW S, NEW l \in Seq(S), NEW price
  PROVE  InLadder(Find(side, l, price), l)
<1>. DEFINE k == Key(side, price)
            lim == Max({0, Len(l) - TopScan})
            Stops == {i \in (lim + 1)..Len(l) : Key(side, l[i].price) <= k}
            sub == SubSeq(l, 1, lim)
            Same == {i \in DOMAIN sub : Key(side, sub[i].price) = k}
            Below == {i \in DOMAIN sub : Key(side, sub[i].price) < k}
<1>1. Len(l) \in Nat /\ TopScan \in Nat
  BY TopScanAssumption
<1>2. lim \in 0..Len(l)
  <2>1. CASE Len(l) - TopScan >= 0
    <3>1. /\ {0, Len(l) - TopScan} \in SUBSET (0..Len(l))
          /\ {0, Len(l) - TopScan} # {}
      BY <1>1, <2>1
    <3>2. lim \in {0, Len(l) - TopScan}
      BY <1>1, <3>1, GreatestIs
    <3>. HIDE DEF lim
    <3>. QED  BY <3>1, <3>2
  <2>2. CASE ~(Len(l) - TopScan >= 0)
    <3>1. 0 >= Len(l) - TopScan /\ 0 >= 0
      BY <1>1, <2>2
    <3>2. \A x \in {0, Len(l) - TopScan} :
            (\A y \in {0, Len(l) - TopScan} : x >= y) <=> x = 0
      BY <1>1, <2>2
    <3>3. lim = 0
      BY <3>2 DEF Max
    <3>. QED  BY <1>1, <3>3
  <2>. QED  BY <2>1, <2>2
<1>. HIDE DEF lim, k
<1>3. /\ Len(sub) = lim /\ DOMAIN sub = 1..lim
  BY <1>1, <1>2
<1>4. Find(side, l, price) =
        IF Stops = {} THEN BinarySearch(side, sub, k)
        ELSE IF Key(side, l[Max(Stops)].price) = k THEN At(Max(Stops))
             ELSE After(Max(Stops))
  BY DEF Find, k, lim
<1>5. CASE Stops # {}
  <2>1. Stops \in SUBSET (0..Len(l)) /\ Stops \subseteq 1..Len(l)
    BY <1>1, <1>2
  <2>2. Max(Stops) \in Stops
    <3>. HIDE DEF Stops
    <3>. QED  BY <1>1, <1>5, <2>1, GreatestIs
  <2>3. Max(Stops) \in 1..Len(l) /\ Max(Stops) \in 0..Len(l)
    <3>. HIDE DEF Stops
    <3>. QED  BY <2>1, <2>2
  <2>. HIDE DEF Stops
  <2>. QED  BY <1>4, <1>5, <2>3 DEF InLadder, At, After
<1>6. CASE Stops = {}
  <2>1. PICK b : b = BinarySearch(side, sub, k)
    OBVIOUS
  <2>2. b = IF Same = {} THEN After(Cardinality(Below)) ELSE At(Max(Same))
    BY <2>1 DEF BinarySearch
  <2>3. CASE Same # {}
    <3>1. Same \in SUBSET (0..lim) /\ Same \subseteq 1..lim
      BY <1>2, <1>3
    <3>2. Max(Same) \in Same
      <4>. HIDE DEF Same
      <4>1. lim \in Nat
        BY <1>2
      <4>. QED  BY <2>3, <3>1, <4>1, GreatestIs
    <3>3. Max(Same) \in 1..Len(l)
      <4>. HIDE DEF Same
      <4>1. \A i \in 1..lim : i \in 1..Len(l)
        BY <1>1, <1>2
      <4>. QED  BY <3>1, <3>2, <4>1
    <3>. HIDE DEF Same, Stops
    <3>. QED  BY <1>4, <1>6, <2>1, <2>2, <2>3, <3>3 DEF InLadder, At
  <2>4. CASE Same = {}
    <3>1. Below \subseteq 1..lim
      BY <1>3
    <3>. HIDE DEF Below, Same, Stops
    <3>2. IsFiniteSet(1..lim) /\ Cardinality(1..lim) = lim
      BY <1>2, FS_Interval
    <3>3. /\ Cardinality(Below) \in Nat /\ Cardinality(Below) <= lim
      <4>1. IsFiniteSet(Below) /\ Cardinality(Below) <= Cardinality(1..lim)
        BY <3>1, <3>2, FS_Subset
      <4>. QED  BY <3>2, <4>1, FS_CardinalityType
    <3>4. Cardinality(Below) \in 0..Len(l)
      BY <1>1, <1>2, <3>3
    <3>. QED  BY <1>4, <1>6, <2>1, <2>2, <2>4, <3>4 DEF InLadder, After
  <2>. QED  BY <2>3, <2>4
<1>. QED  BY <1>5, <1>6

(* A level of the set put in place, or taken away. *)
LEMMA SetTyped ==
  ASSUME NEW side \in Side, NEW S, NEW l \in Seq(S), NEW price, NEW qty,
         (qty > 0 \/ ~(qty <= 0)) => Level(price, qty) \in S
  PROVE  Set(side, l, price, qty) \in Seq(S)
<1>1. PICK place, x, a : place = Find(side, l, price) /\ x = Level(price, qty)
                         /\ a = place.at
  OBVIOUS
<1>2. InLadder(place, l)
  BY <1>1, FindInLadder
<1>3. Set(side, l, price, qty) =
        IF place.found
        THEN IF qty <= 0 THEN RemoveAt(l, a) ELSE ReplaceAt(l, a, x)
        ELSE IF qty > 0 THEN InsertAt(l, a + 1, x) ELSE l
  BY <1>1 DEF Set
<1>4. CASE place.found
  <2>1. a \in 1..Len(l)
    BY <1>1, <1>2, <1>4 DEF InLadder
  <2>2. RemoveAt(l, a) \in Seq(S)
    <3>1. RemoveAt(l, a) = Cut(l, a)
      BY DEF RemoveAt, Cut
    <3>. QED  BY <2>1, <3>1, CutIs
  <2>3. ~(qty <= 0) => ReplaceAt(l, a, x) \in Seq(S)
    BY <1>1, <2>1 DEF ReplaceAt
  <2>. QED  BY <1>3, <1>4, <2>2, <2>3
<1>5. CASE ~place.found
  <2>1. a \in 0..Len(l) /\ Len(l) \in Nat
    BY <1>1, <1>2, <1>5 DEF InLadder
  <2>2. qty > 0 => InsertAt(l, a + 1, x) \in Seq(S)
    <3>. SUFFICES ASSUME x \in S PROVE InsertAt(l, a + 1, x) \in Seq(S)
      BY <1>1
    <3>1. SubSeq(l, 1, (a + 1) - 1) \in Seq(S)
      BY <2>1
    <3>2. SubSeq(l, a + 1, Len(l)) \in Seq(S)
      BY <2>1
    <3>3. <<x>> \in Seq(S)
      OBVIOUS
    <3>4. SubSeq(l, 1, (a + 1) - 1) \o <<x>> \in Seq(S)
      BY <3>1, <3>3, ConcatAt
    <3>5. SubSeq(l, 1, (a + 1) - 1) \o <<x>> \o SubSeq(l, a + 1, Len(l)) \in Seq(S)
      BY <3>2, <3>4, ConcatAt
    <3>. QED  BY <3>5 DEF InsertAt
  <2>. QED  BY <1>3, <1>5, <2>2
<1>. QED  BY <1>4, <1>5

LEMMA PopTyped ==
  ASSUME NEW S, NEW l \in Seq(S), NEW gone
  PROVE  PopWhile(l, gone) \in Seq(S)
<1>1. PICK T : T = {0} \cup (DOMAIN l \ gone)
  OBVIOUS
<1>2. T \in SUBSET (0..Len(l)) /\ T # {} /\ Len(l) \in Nat
  BY <1>1
<1>3. Max(T) \in 0..Len(l)
  BY <1>2, GreatestIs
<1>4. SubSeq(l, 1, Max(T)) \in Seq(S)
  BY <1>2, <1>3
<1>. QED  BY <1>1, <1>4 DEF PopWhile

IsBook(b) == b \in [Side -> Seq(Levels)]

(* No message of the feed puts anything else there. *)
LEMMA ApplyTyped ==
  ASSUME IsBook(book), NEW m \in Messages
  PROVE  IsBook(Apply(book, m))
<1>1. book \in [Side -> Seq(Levels)]
  BY DEF IsBook
<1>2. \A side \in Side : Opposite(side) \in Side
  BY DEF Side, Opposite
<1>3. CASE m.kind = "Clear"
  BY <1>3 DEF Apply, EmptyBook, IsBook
<1>4. CASE m.kind = "Trade"
  BY <1>1, <1>4 DEF Apply, IsBook
<1>5. CASE m.kind = "Level"
  <2>1. ~Paper /\ \E s \in Side, q \in StillSizes : m = LevelMsg(s, StillPrice(s), q)
    BY <1>5 DEF Messages, TopMsg, TradeMsg, ClearMsg
  <2>2. PICK side \in Side, qty \in StillSizes : m = LevelMsg(side, StillPrice(side), qty)
    BY <2>1
  <2>3. m.side = side /\ m.price = StillPrice(side) /\ m.qty = qty
    BY <2>2 DEF LevelMsg
  <2>4. qty \in Qtys \cup {Min(Qtys)}
    BY DEF StillSizes
  <2>5. Level(StillPrice(side), qty) \in Levels
    BY <2>1, <2>4 DEF Level, Levels, AnyPrice
  <2>6. Set(side, book[side], StillPrice(side), qty) \in Seq(Levels)
    BY <1>1, <2>5, SetTyped
  <2>7. Apply(book, m) = [book EXCEPT ![side] = Set(side, book[side], StillPrice(side), qty)]
    BY <1>5, <2>3 DEF Apply, SetLevel
  <2>. QED  BY <1>1, <2>6, <2>7 DEF IsBook
<1>6. CASE m.kind = "Top"
  <2>1. Paper /\ \E s \in Side, p \in Prices, q \in Qtys \cup {0} : m = TopMsg(s, p, q)
    BY <1>6 DEF Messages, LevelMsg, TradeMsg, ClearMsg
  <2>2. PICK side \in Side, price \in Prices, qty \in Qtys \cup {0} :
          m = TopMsg(side, price, qty)
    BY <2>1
  <2>3. m.side = side /\ m.price = price /\ m.qty = qty
    BY <2>2 DEF TopMsg
  <2>4. qty > 0 \/ ~(qty <= 0) => Level(price, qty) \in Levels
    BY <2>1, <2>2 DEF Level, Levels
  <2>5. PICK own, opp : /\ own = PopWhile(book[side], Better(side, price, book[side]))
                        /\ opp = PopWhile(book[Opposite(side)],
                                   Through(side, price, book[Opposite(side)]))
    OBVIOUS
  <2>6. own \in Seq(Levels) /\ opp \in Seq(Levels)
    BY <1>1, <1>2, <2>5, PopTyped
  <2>7. Set(side, own, price, qty) \in Seq(Levels)
    BY <2>4, <2>6, SetTyped
  <2>8. Apply(book, m) = [s \in Side |-> IF s = side THEN Set(side, own, price, qty) ELSE opp]
    BY <1>6, <2>3, <2>5 DEF Apply, SetTop
  <2>. QED  BY <2>6, <2>7, <2>8 DEF IsBook
<1>7. m.kind \in {"Level", "Top", "Trade", "Clear"}
  BY DEF Messages, LevelMsg, TopMsg, TradeMsg, ClearMsg
<1>. QED  BY <1>3, <1>4, <1>5, <1>6, <1>7
-----------------------------------------------------------------------------
(* One side of the market maker. *)

(* What ManageSide answers. *)
SideAnswer(o, a, side) ==
  /\ a \in Seq(Intents)
  /\ \A i \in 1..Len(a) :
       IsNew(a[i]) =>
         /\ i = Len(a) /\ a[i].side = side
         /\ a[i].tif = "PostOnly" /\ a[i].qty = OrderQty
         /\ AtMostTwo(Own(o, side))
         /\ \A id \in Live(o, side) : Cancelled(a, i - 1, id)
         /\ Wants(o, side)
  /\ \E x : \A id \in Live(o, side) : id = x \/ Cancelled(a, Len(a), id)

LEMMA AtMostOne ==
  ASSUME NEW S, IsFiniteSet(S), Cardinality(S) < 2
  PROVE  \E y : S \subseteq {y}
<1>1. Cardinality(S) \in Nat
  BY FS_CardinalityType
<1>2. Cardinality(S) = 0 \/ Cardinality(S) = 1
  BY <1>1
<1>3. CASE Cardinality(S) = 0
  <2>1. S = {}
    BY <1>3, FS_EmptySet
  <2>. QED  BY <2>1
<1>4. CASE Cardinality(S) = 1
  <2>1. \E y : S = {y}
    BY <1>4, FS_Singleton
  <2>. QED  BY <2>1
<1>. QED  BY <1>2, <1>3, <1>4

(* Cancels, and a new order after them. *)
EndsNew(a, ids, x) ==
  /\ a \in Seq(Intents) /\ a[Len(a)] = x
  /\ \A i \in 1..Len(a) : IsNew(a[i]) => i = Len(a)
  /\ \A id \in ids : Cancelled(a, Len(a) - 1, id) /\ Cancelled(a, Len(a), id)

LEMMA ThenNew ==
  ASSUME NEW ids, NEW c, Cancels(c, ids),
         NEW x, x \in Intents, IsNew(x), NEW a, a = c \o <<x>>
  PROVE  EndsNew(a, ids, x)
<1>1. c \in Seq(Intents) /\ \A i \in 1..Len(c) : c[i].kind = "Cancel"
  BY DEF Cancels
<1>2. PICK n \in Nat : n = Len(c)
  BY <1>1
<1>3. c \in Seq(Intents) /\ <<x>> \in Seq(Intents) /\ Len(<<x>>) = 1
  BY <1>1
<1>4. /\ a \in Seq(Intents) /\ Len(a) = n + 1
      /\ \A j \in 1..(n + 1) : a[j] = IF j <= n THEN c[j] ELSE <<x>>[j - n]
  BY <1>2, <1>3, ConcatAt
<1>5. a[n + 1] = x
  <2>1. n + 1 \in 1..(n + 1) /\ ~(n + 1 <= n) /\ (n + 1) - n = 1
    BY <1>2
  <2>. QED  BY <1>4, <2>1
<1>6. \A j \in 1..n : a[j] = c[j] /\ a[j].kind = "Cancel"
  BY <1>1, <1>2, <1>4
<1>7. \A j \in 1..(n + 1) : IsNew(a[j]) => j = n + 1
  BY <1>2, <1>6 DEF IsNew
<1>8. ASSUME NEW id \in ids PROVE Cancelled(a, n, id) /\ Cancelled(a, n + 1, id)
  <2>1. PICK j \in 1..n : IsCancel(c[j], id)
    BY <1>2 DEF Cancels
  <2>2. j \in 1..(n + 1) /\ IsCancel(a[j], id)
    BY <1>2, <1>6, <2>1
  <2>. QED  BY <2>1, <2>2 DEF Cancelled
<1>9. (n + 1) - 1 = n
  BY <1>2
<1>. QED  BY <1>2, <1>4, <1>5, <1>7, <1>8, <1>9 DEF EndsNew

LEMMA ManageSideAnswers ==
  ASSUME NEW o, IsOms(o), Numbered(o), NEW side \in Side,
         NEW price \in QuotePrices, NEW throttled \in BOOLEAN,
         NEW a \in ManageSide(o, side, Desired(o, side, price), throttled),
         NEW x0, Live(o, side) \subseteq {x0}
  PROVE  SideAnswer(o, a, side)
<1>1. PICK desired : desired = Desired(o, side, price)
  OBVIOUS
<1>2. desired # NoQuote => Wants(o, side) /\ desired = price
  BY <1>1 DEF Desired
<1>. DEFINE own == {id \in DOMAIN o.orders : o.orders[id].side = side}
            cancelling == own \cap PendingCancels(o)
            tolerance == IF throttled THEN 4 * RequoteTicks ELSE RequoteTicks
            near == {id \in own \ cancelling :
                       /\ desired # NoQuote
                       /\ Abs(o.orders[id].price - desired) < tolerance}
            keeps == IF near = {} THEN {{}} ELSE {{id} : id \in near}
<1>3. PICK kept \in keeps :
        a = CancelIntents((own \ cancelling) \ kept)
              \o (IF MaySendNew(desired, kept, throttled, cancelling)
                  THEN <<NewIntent(side, desired, OrderQty, "PostOnly")>> ELSE <<>>)
  BY <1>1 DEF ManageSide
<1>4. own = Own(o, side) /\ own \ cancelling = Live(o, side)
  BY DEF Own, Live
<1>5. kept = {} \/ \E id \in Live(o, side) : kept = {id}
  BY <1>3, <1>4
<1>6. PICK ids, c : ids = Live(o, side) \ kept /\ c = CancelIntents(ids)
  OBVIOUS
<1>7. IsFiniteSet(ids) /\ ids \subseteq Nat
  <2>1. ids \subseteq DOMAIN o.orders
    BY <1>6 DEF Live, Own
  <2>. QED  BY <2>1, OrdersFinite
<1>8. Cancels(c, ids)
  BY <1>6, <1>7, CancelIntentsAre
<1>9. PICK may \in BOOLEAN : may = MaySendNew(desired, kept, throttled, cancelling)
  BY DEF MaySendNew
<1>10. may => /\ desired # NoQuote /\ kept = {} /\ Cardinality(cancelling) < 2
  BY <1>9 DEF MaySendNew
<1>11. PICK new : new = NewIntent(side, desired, OrderQty, "PostOnly")
  OBVIOUS
<1>12. a = c \o (IF may THEN <<new>> ELSE <<>>)
  BY <1>3, <1>4, <1>6, <1>9, <1>11
<1>13. IsFiniteSet(cancelling) /\ own = cancelling \cup Live(o, side)
  <2>1. cancelling \subseteq DOMAIN o.orders
    OBVIOUS
  <2>2. IsFiniteSet(cancelling)
    <3>. HIDE DEF cancelling
    <3>. QED  BY <2>1, OrdersFinite
  <2>. QED  BY <1>4, <2>2
<1>. HIDE DEF own, cancelling, near, keeps, tolerance
<1>14. CASE may
  <2>1. new \in Intents /\ IsNew(new) /\ new.side = side /\ new.tif = "PostOnly"
        /\ new.qty = OrderQty
    <3>1. desired \in AnyPrice /\ OrderQty \in 1..OrderQty
      BY <1>2, <1>10, <1>14, StrategiesAssumption DEF AnyPrice
    <3>. QED  BY <1>11, <3>1 DEF NewIntent, Intents, TimeInForce, IsNew
  <2>2. a = c \o <<new>>
    BY <1>12, <1>14
  <2>3. /\ a \in Seq(Intents) /\ a[Len(a)] = new
        /\ \A i \in 1..Len(a) : IsNew(a[i]) => i = Len(a)
        /\ \A id \in ids : Cancelled(a, Len(a) - 1, id) /\ Cancelled(a, Len(a), id)
    <3>1. EndsNew(a, ids, new)
      BY <1>8, <2>1, <2>2, ThenNew
    <3>. QED  BY <3>1 DEF EndsNew
  <2>4. ids = Live(o, side)
    BY <1>6, <1>10, <1>14
  <2>5. AtMostTwo(Own(o, side))
    <3>1. PICK y : cancelling \subseteq {y}
      BY <1>10, <1>13, <1>14, AtMostOne
    <3>2. Own(o, side) \subseteq {x0, y}
      BY <1>4, <1>13, <3>1
    <3>. QED  BY <3>2 DEF AtMostTwo
  <2>6. \A i \in 1..Len(a) :
          IsNew(a[i]) =>
            /\ i = Len(a) /\ a[i].side = side
            /\ a[i].tif = "PostOnly" /\ a[i].qty = OrderQty
            /\ AtMostTwo(Own(o, side))
            /\ \A id \in Live(o, side) : Cancelled(a, i - 1, id)
            /\ Wants(o, side)
    BY <1>2, <1>10, <1>14, <2>1, <2>3, <2>4, <2>5
  <2>7. \A id \in Live(o, side) : id = x0 \/ Cancelled(a, Len(a), id)
    BY <2>3, <2>4
  <2>. QED  BY <2>3, <2>6, <2>7 DEF SideAnswer
<1>15. CASE ~may
  <2>1. c \in Seq(Intents) /\ \A i \in 1..Len(c) : c[i].kind = "Cancel"
    BY <1>8 DEF Cancels
  <2>2. a = c
    BY <1>12, <1>15, <2>1
  <2>3. \A i \in 1..Len(a) : ~IsNew(a[i])
    BY <2>1, <2>2 DEF IsNew
  <2>4. \E x : \A id \in Live(o, side) : id = x \/ Cancelled(a, Len(a), id)
    <3>1. \A id \in ids : Cancelled(a, Len(a), id)
      BY <1>8, <2>2 DEF Cancels, Cancelled
    <3>2. PICK x : \A id \in Live(o, side) : id = x \/ id \in ids
      BY <1>5, <1>6
    <3>. QED  BY <3>1, <3>2
  <2>. QED  BY <2>1, <2>2, <2>3, <2>4 DEF SideAnswer
<1>. QED  BY <1>14, <1>15

(* The answer for a side, somewhere in the whole answer. *)
LEMMA SidePlaced ==
  ASSUME NEW o, NEW side, NEW a, SideAnswer(o, a, side),
         NEW in, in \in Seq(Intents), NEW k \in Nat, NEW v, NEW paper,
         k + Len(a) <= Len(in), \A i \in 1..Len(a) : in[k + i] = a[i],
         \A i \in NewOf(in, side) : i - k \in 1..Len(a),
         AtMostThree(Own(o, side)),
         Wants(o, side) /\ AtMostTwo(Own(o, side)) => Affordable(v, side, paper)
  PROVE  SideInv(o, v, in, side, paper)
<1>1. PICK n \in Nat, m \in Nat : n = Len(a) /\ m = Len(in) /\ k + n <= m
  BY DEF SideAnswer
<1>2. \A i \in NewOf(in, side) :
        /\ i \in 1..m /\ i - k \in 1..n /\ k + (i - k) = i
        /\ in[i] = a[i - k] /\ IsNew(a[i - k])
  <2>. SUFFICES ASSUME NEW i \in NewOf(in, side)
                PROVE  /\ i \in 1..m /\ i - k \in 1..n /\ k + (i - k) = i
                       /\ in[i] = a[i - k] /\ IsNew(a[i - k])
    OBVIOUS
  <2>1. i \in 1..m /\ IsNew(in[i]) /\ i - k \in 1..n
    BY <1>1 DEF NewOf
  <2>2. k + (i - k) = i
    BY <1>1, <2>1
  <2>3. in[i] = a[i - k]
    BY <1>1, <2>1, <2>2
  <2>. QED  BY <2>1, <2>2, <2>3
<1>3. \A l, id : l \in 0..n /\ Cancelled(a, l, id) => Cancelled(in, k + l, id)
  <2>. SUFFICES ASSUME NEW l \in 0..n, NEW id, NEW j \in 1..l, IsCancel(a[j], id)
                PROVE  \E q \in 1..(k + l) : IsCancel(in[q], id)
    BY DEF Cancelled
  <2>1. k + j \in 1..(k + l) /\ j \in 1..n
    BY <1>1
  <2>2. in[k + j] = a[j]
    BY <1>1, <2>1
  <2>. QED  BY <2>1, <2>2
<1>4. ASSUME NEW i \in NewOf(in, side)
      PROVE  /\ \A j \in NewOf(in, side) : i = j
             /\ in[i].tif = "PostOnly" /\ in[i].qty = OrderQty
             /\ AtMostTwo(Own(o, side))
             /\ \A id \in Live(o, side) : Cancelled(in, i - 1, id)
             /\ Affordable(v, side, paper)
  <2>1. PICK p : p = i - k
    OBVIOUS
  <2>2. p \in 1..n /\ in[i] = a[p] /\ IsNew(a[p]) /\ k + p = i
    BY <1>2, <2>1
  <2>3. /\ p = n
        /\ a[p].tif = "PostOnly" /\ a[p].qty = OrderQty
        /\ AtMostTwo(Own(o, side))
        /\ \A id \in Live(o, side) : Cancelled(a, p - 1, id)
        /\ Wants(o, side)
    BY <1>1, <2>2 DEF SideAnswer
  <2>4. \A j \in NewOf(in, side) : i = j
    <3>. SUFFICES ASSUME NEW j \in NewOf(in, side) PROVE i = j
      OBVIOUS
    <3>1. j - k \in 1..n /\ IsNew(a[j - k]) /\ k + (j - k) = j
      BY <1>2
    <3>2. j - k = n
      BY <1>1, <3>1 DEF SideAnswer
    <3>. QED  BY <2>2, <2>3, <3>1, <3>2
  <2>5. \A id \in Live(o, side) : Cancelled(in, i - 1, id)
    <3>1. p - 1 \in 0..n /\ k + (p - 1) = i - 1
      BY <1>1, <2>2
    <3>. QED  BY <1>3, <2>3, <3>1
  <2>. QED  BY <2>2, <2>3, <2>4, <2>5
<1>5. \E x : \A id \in Live(o, side) : id = x \/ Cancelled(in, m, id)
  <2>1. PICK x : \A id \in Live(o, side) : id = x \/ Cancelled(a, n, id)
    BY <1>1 DEF SideAnswer
  <2>2. n \in 0..n
    BY <1>1
  <2>3. \A id : Cancelled(in, k + n, id) => Cancelled(in, m, id)
    <3>1. \A j \in 1..(k + n) : j \in 1..m
      BY <1>1
    <3>. QED  BY <3>1 DEF Cancelled
  <2>4. \A id \in Live(o, side) : id = x \/ Cancelled(in, m, id)
    BY <1>3, <2>1, <2>2, <2>3
  <2>. QED  BY <2>4
<1>. QED  BY <1>1, <1>4, <1>5 DEF SideInv

QuietSide(o, side) ==
  AtMostThree(Own(o, side)) /\ \E x : Live(o, side) \subseteq {x}
Quiet(o) == \A side \in Side : QuietSide(o, side)

MakerAnswer(o, v, in, paper) ==
  /\ in \in Seq(Intents)
  /\ \A side \in Side : SideInv(o, v, in, side, paper)

LEMMA NothingToDo ==
  ASSUME NEW o, Quiet(o), NEW v, NEW paper
  PROVE  MakerAnswer(o, v, <<>>, paper)
<1>1. <<>> \in Seq(Intents) /\ Len(<<>>) = 0
  OBVIOUS
<1>2. \A side : NewOf(<<>>, side) = {}
  BY <1>1 DEF NewOf
<1>3. ASSUME NEW side \in Side PROVE SideInv(o, v, <<>>, side, paper)
  <2>1. AtMostThree(Own(o, side)) /\ \E x : Live(o, side) \subseteq {x}
    BY DEF Quiet, QuietSide
  <2>2. \E x : \A id \in Live(o, side) : id = x \/ Cancelled(<<>>, Len(<<>>), id)
    BY <2>1
  <2>. QED  BY <1>2, <2>1, <2>2 DEF SideInv
<1>. QED  BY <1>1, <1>3 DEF MakerAnswer

LEMMA MarketMakerAnswers ==
  ASSUME NEW o, IsOms(o), Numbered(o), Quiet(o), NEW v, NEW paper,
         \A side \in Side :
           Wants(o, side) /\ AtMostTwo(Own(o, side)) => Affordable(v, side, paper),
         NEW b, NEW a, a \in MarketMaker(o, b)
  PROVE  MakerAnswer(o, v, a, paper)
<1>1. CASE a = <<>>
  BY <1>1, NothingToDo
<1>2. CASE a # <<>>
  <2>1. PICK q \in QuotePrices \X QuotePrices, slow \in BOOLEAN \X BOOLEAN :
          \E x \in ManageSide(o, "Buy", Desired(o, "Buy", q[1]), slow[1]),
             y \in ManageSide(o, "Sell", Desired(o, "Sell", q[2]), slow[2]) :
            a = x \o y
    <3>1. TwoSided(b)
      BY <1>2 DEF MarketMaker
    <3>2. a \in UNION {ManageSides(o, q, slow) :
                          q \in QuotePairs(b), slow \in BOOLEAN \X BOOLEAN}
      BY <3>1 DEF MarketMaker
    <3>3. PICK q \in QuotePairs(b), slow \in BOOLEAN \X BOOLEAN :
            a \in ManageSides(o, q, slow)
      BY <3>2
    <3>4. q \in QuotePrices \X QuotePrices
      BY DEF QuotePairs
    <3>5. \E x \in ManageSide(o, "Buy", Desired(o, "Buy", q[1]), slow[1]),
             y \in ManageSide(o, "Sell", Desired(o, "Sell", q[2]), slow[2]) :
            a = x \o y
      BY <3>3 DEF ManageSides
    <3>. QED  BY <3>4, <3>5
  <2>2. PICK x \in ManageSide(o, "Buy", Desired(o, "Buy", q[1]), slow[1]),
             y \in ManageSide(o, "Sell", Desired(o, "Sell", q[2]), slow[2]) :
          a = x \o y
    BY <2>1
  <2>3. "Buy" \in Side /\ "Sell" \in Side /\ Side = {"Buy", "Sell"}
    BY DEF Side
  <2>4. SideAnswer(o, x, "Buy")
    <3>1. PICK x0 : Live(o, "Buy") \subseteq {x0}
      BY <2>3 DEF Quiet, QuietSide
    <3>2. PICK p, s : p = q[1] /\ s = slow[1]
      OBVIOUS
    <3>3. p \in QuotePrices /\ s \in BOOLEAN
      BY <3>2
    <3>4. x \in ManageSide(o, "Buy", Desired(o, "Buy", p), s)
      BY <2>2, <3>2
    <3>. QED  BY <2>3, <3>1, <3>3, <3>4, ManageSideAnswers
  <2>5. SideAnswer(o, y, "Sell")
    <3>1. PICK x0 : Live(o, "Sell") \subseteq {x0}
      BY <2>3 DEF Quiet, QuietSide
    <3>2. PICK p, s : p = q[2] /\ s = slow[2]
      OBVIOUS
    <3>3. p \in QuotePrices /\ s \in BOOLEAN
      BY <3>2
    <3>4. y \in ManageSide(o, "Sell", Desired(o, "Sell", p), s)
      BY <2>2, <3>2
    <3>. QED  BY <2>3, <3>1, <3>3, <3>4, ManageSideAnswers
  <2>6. PICK n \in Nat, m \in Nat : n = Len(x) /\ m = Len(y)
    BY <2>4, <2>5 DEF SideAnswer
  <2>7. /\ a \in Seq(Intents) /\ Len(a) = n + m
        /\ \A j \in 1..(n + m) : a[j] = IF j <= n THEN x[j] ELSE y[j - n]
    <3>1. x \in Seq(Intents) /\ y \in Seq(Intents)
      BY <2>4, <2>5 DEF SideAnswer
    <3>. QED  BY <2>2, <2>6, <3>1, ConcatAt
  <2>8. \A i \in 1..n : a[0 + i] = x[i] /\ a[i] = x[i]
    BY <2>6, <2>7
  <2>9. \A i \in 1..m : a[n + i] = y[i]
    <3>. SUFFICES ASSUME NEW i \in 1..m PROVE a[n + i] = y[i]
      OBVIOUS
    <3>1. n + i \in 1..(n + m) /\ ~(n + i <= n) /\ (n + i) - n = i
      BY <2>6
    <3>. QED  BY <2>7, <3>1
  <2>10. \A i \in NewOf(a, "Buy") : i - 0 \in 1..n
    <3>. SUFFICES ASSUME NEW i \in NewOf(a, "Buy") PROVE i - 0 \in 1..n
      OBVIOUS
    <3>1. i \in 1..(n + m) /\ IsNew(a[i]) /\ a[i].side = "Buy"
      BY <2>7 DEF NewOf
    <3>2. CASE i <= n
      BY <2>6, <3>1, <3>2
    <3>3. CASE ~(i <= n)
      <4>1. i - n \in 1..m /\ a[i] = y[i - n]
        BY <2>6, <2>7, <3>1, <3>3
      <4>2. IsNew(y[i - n]) => y[i - n].side = "Sell"
        BY <2>5, <2>6, <4>1 DEF SideAnswer
      <4>. QED  BY <3>1, <4>1, <4>2
    <3>. QED  BY <3>2, <3>3
  <2>11. \A i \in NewOf(a, "Sell") : i - n \in 1..m
    <3>. SUFFICES ASSUME NEW i \in NewOf(a, "Sell") PROVE i - n \in 1..m
      OBVIOUS
    <3>1. i \in 1..(n + m) /\ IsNew(a[i]) /\ a[i].side = "Sell"
      BY <2>7 DEF NewOf
    <3>2. CASE i <= n
      <4>1. i \in 1..n /\ a[i] = x[i]
        BY <2>6, <2>7, <3>1, <3>2
      <4>2. IsNew(x[i]) => x[i].side = "Buy"
        BY <2>4, <2>6, <4>1 DEF SideAnswer
      <4>. QED  BY <3>1, <4>1, <4>2
    <3>3. CASE ~(i <= n)
      BY <2>6, <3>1, <3>3
    <3>. QED  BY <3>2, <3>3
  <2>12. SideInv(o, v, a, "Buy", paper)
    <3>1. 0 \in Nat /\ 0 + Len(x) <= Len(a)
      BY <2>6, <2>7
    <3>2. AtMostThree(Own(o, "Buy"))
      BY <2>3 DEF Quiet, QuietSide
    <3>3. /\ \A i \in 1..Len(x) : a[0 + i] = x[i]
          /\ \A i \in NewOf(a, "Buy") : i - 0 \in 1..Len(x)
      BY <2>6, <2>8, <2>10
    <3>4. Wants(o, "Buy") /\ AtMostTwo(Own(o, "Buy")) => Affordable(v, "Buy", paper)
      BY <2>3
    <3>5. a \in Seq(Intents)
      BY <2>7
    <3>. QED  BY <2>4, <3>1, <3>2, <3>3, <3>4, <3>5, SidePlaced
  <2>13. SideInv(o, v, a, "Sell", paper)
    <3>1. n + Len(y) <= Len(a)
      BY <2>6, <2>7
    <3>2. AtMostThree(Own(o, "Sell"))
      BY <2>3 DEF Quiet, QuietSide
    <3>3. /\ \A i \in 1..Len(y) : a[n + i] = y[i]
          /\ \A i \in NewOf(a, "Sell") : i - n \in 1..Len(y)
      BY <2>6, <2>9, <2>11
    <3>4. Wants(o, "Sell") /\ AtMostTwo(Own(o, "Sell")) => Affordable(v, "Sell", paper)
      BY <2>3
    <3>5. a \in Seq(Intents)
      BY <2>7
    <3>. QED  BY <2>5, <2>6, <3>1, <3>2, <3>3, <3>4, <3>5, SidePlaced
  <2>. QED  BY <2>3, <2>7, <2>12, <2>13 DEF MakerAnswer
<1>. QED  BY <1>1, <1>2
(* What a report leaves of the other orders, and what the one it names is  *)
(* if it stays.                                                            *)
Touched(v, w, e) ==
  /\ \A id : id # e.id => (id \in DOMAIN w.orders <=> id \in DOMAIN v.orders)
  /\ \A id \in DOMAIN w.orders : id # e.id => w.orders[id] = v.orders[id]
  /\ e.id \in DOMAIN w.orders =>
       /\ e.id \in DOMAIN v.orders /\ ~Gone(v.orders[e.id], e)
       /\ e.kind = "Fill" => w.orders[e.id].leaves = e.leaves
       /\ e.kind # "Fill" => w.orders[e.id].leaves = v.orders[e.id].leaves

LEMMA ReportTouches ==
  ASSUME NEW v, IsOms(v), NEW e, NEW n, IsReport(e, n), NEW w, w = OnExec(v, e)
  PROVE  Touched(v, w, e)
<1>1. CASE e.id \notin DOMAIN v.orders
  <2>1. w = v
    BY <1>1, ExecEffect
  <2>. QED  BY <1>1, <2>1 DEF Touched
<1>2. CASE e.id \in DOMAIN v.orders
  <2>1. PICK x : x = v.orders[e.id]
    OBVIOUS
  <2>2. Effect(v, w, e, x)
    BY <1>2, <2>1, ExecEffect
  <2>3. IsOrder(x)
    BY <1>2, <2>1 DEF IsOms
  <2>4. /\ DOMAIN w.orders = IF Gone(x, e) THEN DOMAIN v.orders \ {e.id}
                             ELSE DOMAIN v.orders
        /\ \A i \in DOMAIN w.orders :
             w.orders[i] = IF i = e.id THEN Updated(x, e) ELSE v.orders[i]
    BY <2>2 DEF Effect
  <2>5. /\ e.kind = "Fill" => Updated(x, e).leaves = e.leaves
        /\ e.kind # "Fill" => Updated(x, e).leaves = x.leaves
    BY <2>3, OrderUpdated
  <2>6. \A id : id # e.id => (id \in DOMAIN w.orders <=> id \in DOMAIN v.orders)
    BY <2>4
  <2>7. \A id \in DOMAIN w.orders : id # e.id => w.orders[id] = v.orders[id]
    BY <2>4
  <2>8. e.id \in DOMAIN w.orders =>
          ~Gone(x, e) /\ w.orders[e.id] = Updated(x, e)
    BY <2>4
  <2>. QED  BY <1>2, <2>1, <2>5, <2>6, <2>7, <2>8 DEF Touched
<1>. QED  BY <1>1, <1>2

-----------------------------------------------------------------------------
(* The strategies' invariants, as the books move and intents are sent.     *)

(* A row without its first element. *)
Behind(t, s) ==
  /\ Len(s) \in Nat \ {0} /\ Len(t) = Len(s) - 1
  /\ \A i \in 1..Len(t) : i + 1 \in 1..Len(s) /\ t[i] = s[i + 1]
  /\ \A i \in 1..Len(s) : i = 1 \/ (i - 1 \in 1..Len(t) /\ t[i - 1] = s[i])

LEMMA TailIs ==
  ASSUME NEW S, NEW s \in Seq(S), s # <<>>
  PROVE  /\ Head(s) = s[1] /\ s[1] \in S /\ 1 \in 1..Len(s)
         /\ Tail(s) \in Seq(S) /\ Behind(Tail(s), s)
<1>1. PICK n \in Nat : n = Len(s)
  OBVIOUS
<1>2. PICK t : n = Len(s) /\ t = Tail(s)
  BY <1>1
<1>3. n # 0
  BY <1>1
<1>4. t \in Seq(S) /\ Len(t) = n - 1 /\ \A i \in 1..(n - 1) : t[i] = s[i + 1]
  BY <1>2, <1>3
<1>5. \A i \in 1..(n - 1) : i + 1 \in 1..n
  BY <1>3
<1>6. \A i \in 1..n : i = 1 \/ (i - 1 \in 1..(n - 1) /\ t[i - 1] = s[i])
  <2>. SUFFICES ASSUME NEW i \in 1..n, i # 1
                PROVE  i - 1 \in 1..(n - 1) /\ t[i - 1] = s[i]
    OBVIOUS
  <2>1. i - 1 \in 1..(n - 1) /\ (i - 1) + 1 = i
    BY <1>3
  <2>. QED  BY <1>4, <2>1
<1>7. Behind(t, s)
  BY <1>2, <1>3, <1>4, <1>5, <1>6 DEF Behind
<1>8. Head(s) = s[1] /\ s[1] \in S /\ 1 \in 1..n
  BY <1>2, <1>3
<1>. QED  BY <1>2, <1>4, <1>7, <1>8

(* A report of the venue. *)
LEMMA SideReport ==
  ASSUME NEW o, NEW v, NEW in, NEW side \in Side, NEW paper \in BOOLEAN,
         SideInv(o, v, in, side, paper), IsOms(v),
         NEW w, IsOms(w), Room(w, side) <= Room(v, side),
         paper /\ NewOf(in, side) # {} => w.position = v.position
  PROVE  SideInv(o, w, in, side, paper)
<1>1. NewOf(in, side) # {} /\ Affordable(v, side, paper) => Affordable(w, side, paper)
  <2>1. PICK a \in Int, b \in Int : a = Room(v, side) /\ b = Room(w, side) /\ b <= a
    BY RoomIsInt
  <2>2. OrderQty \in Nat /\ MaxInventory \in Nat
    BY StrategiesAssumption
  <2>3. CASE paper
    BY <2>3 DEF Affordable
  <2>4. CASE ~paper
    BY <2>1, <2>2, <2>4 DEF Affordable
  <2>. QED  BY <2>3, <2>4
<1>. QED  BY <1>1 DEF SideInv

(* The first intent is not a new order of the side, and what it cancels is *)
(* no longer live.                                                         *)
LEMMA SideTail ==
  ASSUME NEW o, NEW v, NEW in, NEW side \in Side, NEW paper,
         SideInv(o, v, in, side, paper),
         NEW t, Behind(t, in), ~(IsNew(in[1]) /\ in[1].side = side),
         NEW p, Own(p, side) = Own(o, side), Live(p, side) \subseteq Live(o, side),
         \A id \in Live(p, side) : ~IsCancel(in[1], id),
         NEW w, w.position = v.position, Room(w, side) = Room(v, side)
  PROVE  SideInv(p, w, t, side, paper)
<1>1. PICK n \in Nat \ {0} : n = Len(in) /\ Len(t) = n - 1
  BY DEF Behind
<1>2. \A i \in NewOf(t, side) : i + 1 \in NewOf(in, side) /\ t[i] = in[i + 1]
  BY DEF Behind, NewOf
<1>3. \A i \in NewOf(in, side) : i - 1 \in NewOf(t, side)
  BY DEF Behind, NewOf
<1>4. \A id \in Live(p, side), k \in 1..n :
        Cancelled(in, k, id) => Cancelled(t, k - 1, id)
  <2>. SUFFICES ASSUME NEW id \in Live(p, side), NEW k \in 1..n,
                       NEW j \in 1..k, IsCancel(in[j], id)
                PROVE  \E i \in 1..(k - 1) : IsCancel(t[i], id)
    BY DEF Cancelled
  <2>1. j # 1
    OBVIOUS
  <2>2. j \in 1..n /\ j - 1 \in 1..(k - 1)
    BY <2>1
  <2>3. t[j - 1] = in[j]
    BY <1>1, <2>1, <2>2 DEF Behind
  <2>. QED  BY <2>2, <2>3
<1>5. Affordable(v, side, paper) <=> Affordable(w, side, paper)
  BY DEF Affordable
<1>6. ASSUME NEW i \in NewOf(t, side)
      PROVE  /\ \A j \in NewOf(t, side) : i = j
             /\ t[i].tif = "PostOnly" /\ t[i].qty = OrderQty
             /\ AtMostTwo(Own(p, side))
             /\ \A id \in Live(p, side) : Cancelled(t, i - 1, id)
             /\ Affordable(w, side, paper)
  <2>1. PICK k : k = i + 1
    OBVIOUS
  <2>2. i \in 1..(n - 1) /\ k \in 1..n /\ k - 1 = i /\ k - 1 \in 1..n
    BY <1>1, <2>1 DEF NewOf
  <2>3. k \in NewOf(in, side) /\ t[i] = in[k]
    BY <1>2, <2>1
  <2>4. /\ \A j \in NewOf(in, side) : k = j
        /\ in[k].tif = "PostOnly" /\ in[k].qty = OrderQty
        /\ AtMostTwo(Own(o, side))
        /\ \A id \in Live(o, side) : Cancelled(in, k - 1, id)
        /\ Affordable(v, side, paper)
    BY <2>3 DEF SideInv
  <2>5. \A j \in NewOf(t, side) : i = j
    <3>. SUFFICES ASSUME NEW j \in NewOf(t, side) PROVE i = j
      OBVIOUS
    <3>1. j + 1 = k /\ j \in Nat
      BY <1>1, <1>2, <2>4 DEF NewOf
    <3>. QED  BY <2>1, <2>2, <3>1
  <2>6. \A id \in Live(p, side) : Cancelled(t, i - 1, id)
    BY <1>4, <2>2, <2>4
  <2>. QED  BY <1>5, <2>3, <2>4, <2>5, <2>6
<1>7. NewOf(t, side) = {} =>
        /\ AtMostThree(Own(p, side))
        /\ \E x : \A id \in Live(p, side) : id = x \/ Cancelled(t, Len(t), id)
  <2>. SUFFICES ASSUME NewOf(t, side) = {}
                PROVE  /\ AtMostThree(Own(p, side))
                       /\ \E x : \A id \in Live(p, side) :
                                   id = x \/ Cancelled(t, Len(t), id)
    OBVIOUS
  <2>1. NewOf(in, side) = {}
    BY <1>3
  <2>2. PICK x : \A id \in Live(o, side) : id = x \/ Cancelled(in, n, id)
    BY <1>1, <2>1 DEF SideInv
  <2>3. \A id \in Live(p, side) : id = x \/ Cancelled(t, n - 1, id)
    BY <1>4, <2>2
  <2>4. AtMostThree(Own(p, side))
    BY <2>1 DEF SideInv
  <2>. QED  BY <1>1, <2>3, <2>4
<1>. QED  BY <1>6, <1>7 DEF SideInv

(* The first intent is the new order of the side. *)
LEMMA SideLast ==
  ASSUME NEW o, NEW v, NEW in, NEW side \in Side, NEW paper,
         SideInv(o, v, in, side, paper),
         NEW t, Behind(t, in), 1 \in NewOf(in, side),
         NEW p, AtMostThree(Own(p, side)), NEW x, Live(p, side) \subseteq {x}, NEW w
  PROVE  SideInv(p, w, t, side, paper)
<1>1. NewOf(t, side) = {}
  <2>. SUFFICES ASSUME NEW i \in NewOf(t, side) PROVE FALSE
    OBVIOUS
  <2>1. i \in Nat \ {0} /\ i + 1 \in NewOf(in, side)
    BY DEF Behind, NewOf
  <2>2. i + 1 = 1
    BY <2>1 DEF SideInv
  <2>. QED  BY <2>1, <2>2
<1>. QED  BY <1>1 DEF SideInv

(* What the new order finds of its side. *)
LEMMA FirstOfSide ==
  ASSUME NEW o, NEW v, NEW in, NEW side, NEW paper,
         SideInv(o, v, in, side, paper), 1 \in NewOf(in, side)
  PROVE  /\ in[1].tif = "PostOnly" /\ in[1].qty = OrderQty
         /\ AtMostTwo(Own(o, side)) /\ Live(o, side) = {}
         /\ Affordable(v, side, paper)
<1>1. \A id : ~Cancelled(in, 1 - 1, id)
  BY DEF Cancelled
<1>2. \A id \in Live(o, side) : Cancelled(in, 1 - 1, id)
  BY DEF SideInv
<1>. QED  BY <1>1, <1>2 DEF SideInv
-----------------------------------------------------------------------------
(* The other strategies' answers. *)

LEMMA LesserIs ==
  ASSUME NEW a \in Int, NEW b \in Int
  PROVE  Min({a, b}) \in {a, b} /\ Min({a, b}) <= a /\ Min({a, b}) <= b
<1>1. \E x \in {a, b} : \A y \in {a, b} : x <= y
  <2>1. CASE a <= b
    BY <2>1
  <2>2. CASE b <= a
    BY <2>2
  <2>. QED  BY <2>1, <2>2
<1>2. PICK m : m = CHOOSE x \in {a, b} : \A y \in {a, b} : x <= y
  OBVIOUS
<1>3. m \in {a, b} /\ \A y \in {a, b} : m <= y
  BY <1>1, <1>2
<1>. QED  BY <1>2, <1>3 DEF Min

LEMMA BestTyped ==
  ASSUME IsBook(book), NEW side \in Side, HasBest(book, side)
  PROVE  /\ BestPrice(book, side) \in AnyPrice
         /\ Paper => BestLevel(book, side).qty \in Nat \ {0}
<1>1. PICK n \in Nat \ {0} : n = Len(book[side])
  <2>1. book[side] \in Seq(Levels) /\ book[side] # <<>>
    BY DEF IsBook, HasBest
  <2>. QED  BY <2>1
<1>2. PICK l, x : l = book[side] /\ n = Len(l) /\ x = l[n]
  BY <1>1
<1>3. x \in Levels
  <2>1. l \in Seq(Levels) /\ n \in 1..Len(l)
    BY <1>2 DEF IsBook
  <2>. QED  BY <1>2, <2>1
<1>4. BestLevel(book, side) = x
  BY <1>2 DEF BestLevel, Last
<1>5. x.price \in AnyPrice /\ (Paper => x.qty \in Nat \ {0})
  <2>1. CASE Paper
    BY <1>3, <2>1, TradingAssumption DEF Levels, AnyPrice
  <2>2. CASE ~Paper
    BY <1>3, <2>2 DEF Levels
  <2>. QED  BY <2>1, <2>2
<1>. QED  BY <1>4, <1>5 DEF BestPrice

(* One new order, typed. *)
LEMMA OneNewIs ==
  ASSUME NEW side \in Side, NEW price \in AnyPrice, NEW qty \in 1..OrderQty,
         NEW tif \in TimeInForce
  PROVE  /\ <<NewIntent(side, price, qty, tif)>> \in Seq(Intents)
         /\ Len(<<NewIntent(side, price, qty, tif)>>) = 1
         /\ IsNew(<<NewIntent(side, price, qty, tif)>>[1])
         /\ <<NewIntent(side, price, qty, tif)>>[1].side = side
         /\ <<NewIntent(side, price, qty, tif)>>[1].qty = qty
<1>1. PICK x : x = NewIntent(side, price, qty, tif)
  OBVIOUS
<1>2. x = [kind |-> "New", side |-> side, price |-> price, qty |-> qty, tif |-> tif]
  BY <1>1 DEF NewIntent
<1>3. x \in Intents
  BY <1>2 DEF Intents
<1>4. <<x>> \in Seq(Intents) /\ Len(<<x>>) = 1 /\ <<x>>[1] = x
  BY <1>3
<1>5. IsNew(x) /\ x.side = side /\ x.qty = qty
  BY <1>2 DEF IsNew
<1>. QED  BY <1>1, <1>4, <1>5

(* What the imbalance taker sends fits. *)
TakerAnswer(o, a) ==
  /\ a \in Seq(Intents) /\ Len(a) = 1 /\ IsNew(a[1]) /\ a[1].side \in Side
  /\ Sign(a[1].side) * o.position + a[1].qty <= MaxInventory
  /\ a[1].qty \in Int

LEMMA SignalAnswers ==
  ASSUME NEW o, o.position \in Int, IsBook(book), TwoSided(book),
         Signal(o, book) # <<>>
  PROVE  TakerAnswer(o, Signal(o, book))
<1>. DEFINE imb == Imbalance(book, SignalLevels)
            Joins(side) ==
              Sign(side) * imb.num * 10 > Threshold * imb.den /\ Wants(o, side)
            Take(side, qty) ==
              <<NewIntent(side, BestPrice(book, Opposite(side)), qty, "Ioc")>>
<1>. PICK a : a = Signal(o, book)
  OBVIOUS
<1>1. /\ OrderQty \in Nat \ {0} /\ MaxInventory \in Nat /\ "Ioc" \in TimeInForce
      /\ "Buy" \in Side /\ "Sell" \in Side
  BY StrategiesAssumption DEF TimeInForce, Side
<1>2. ASSUME NEW side \in Side, NEW qty \in 1..OrderQty, a = Take(side, qty),
             Sign(side) * o.position + qty <= MaxInventory
      PROVE  TakerAnswer(o, a)
  <2>1. PICK p : p = BestPrice(book, Opposite(side))
    OBVIOUS
  <2>2. p \in AnyPrice
    <3>1. Opposite(side) \in Side
      BY DEF Opposite, Side
    <3>. QED  BY <2>1, <3>1, BestTyped DEF TwoSided
  <2>3. a = <<NewIntent(side, p, qty, "Ioc")>>
    BY <1>2, <2>1
  <2>. QED  BY <1>1, <1>2, <2>2, <2>3, OneNewIs DEF TakerAnswer
<1>3. CASE \E side \in Side : Joins(side)
  <2>1. PICK side \in Side : side = (CHOOSE s \in Side : Joins(s)) /\ Joins(side)
    BY <1>3
  <2>2. a = Take(side, OrderQty)
    BY <1>3, <2>1 DEF Signal
  <2>3. Sign(side) * o.position + OrderQty <= MaxInventory
    BY <2>1 DEF Wants
  <2>4. OrderQty \in 1..OrderQty
    BY <1>1
  <2>. HIDE DEF Take
  <2>. QED  BY <1>2, <2>2, <2>3, <2>4
<1>4. CASE ~(\E side \in Side : Joins(side))
  <2>1. PICK side, qty : /\ side = (IF o.position > 0 THEN "Sell" ELSE "Buy")
                         /\ qty = Min({Abs(o.position), OrderQty})
    OBVIOUS
  <2>2. o.position # 0 /\ a = Take(side, qty)
    <3>1. a = IF Abs(imb.num) * 10 < imb.den /\ o.position # 0
              THEN Take(side, qty) ELSE <<>>
      BY <1>4, <2>1 DEF Signal
    <3>. QED  BY <3>1
  <2>3. PICK m \in Int, n \in Nat : m = o.position /\ n = Abs(m) /\ n > 0
    <3>1. PICK m \in Int : m = o.position /\ m # 0
      BY <2>2
    <3>2. Abs(m) \in Nat /\ Abs(m) > 0
      BY <3>1 DEF Abs
    <3>. QED  BY <3>1, <3>2
  <2>4. qty \in {n, OrderQty} /\ qty <= n /\ qty <= OrderQty
    <3>1. n \in Int /\ OrderQty \in Int /\ qty = Min({n, OrderQty})
      BY <1>1, <2>1, <2>3
    <3>2. PICK z : z = OrderQty
      OBVIOUS
    <3>3. Min({n, z}) \in {n, z} /\ Min({n, z}) <= n /\ Min({n, z}) <= z
      BY <3>1, <3>2, LesserIs
    <3>. QED  BY <3>1, <3>2, <3>3
  <2>5. side \in Side /\ Sign(side) * m = -n
    <3>1. CASE m > 0
      BY <1>1, <2>1, <2>3, <3>1 DEF Abs, Sign
    <3>2. CASE ~(m > 0)
      BY <1>1, <2>1, <2>2, <2>3, <3>2 DEF Abs, Sign
    <3>. QED  BY <3>1, <3>2
  <2>6. qty \in 1..OrderQty /\ -n + qty <= MaxInventory
    BY <1>1, <2>3, <2>4
  <2>. HIDE DEF Take
  <2>. QED  BY <1>2, <2>2, <2>3, <2>5, <2>6
<1>. QED  BY <1>3, <1>4

LEMMA ImbalanceAnswers ==
  ASSUME NEW o, IsOms(o), OpenAddsUp(o), IsBook(book),
         NEW v, IsOms(v), \A s \in Side : Room(v, s) <= Room(o, s),
         ImbalanceInv(o, v, <<>>), NEW a, a \in ImbalanceTaker(o, book)
  PROVE  a \in Seq(Intents) /\ ImbalanceInv(o, v, a)
<1>1. CASE a = <<>>
  BY <1>1
<1>2. CASE a # <<>>
  <2>1. TwoSided(book) /\ DOMAIN o.orders = {} /\ a = Signal(o, book)
    BY <1>2 DEF ImbalanceTaker, Idle
  <2>2. o.position \in Int
    BY DEF IsOms
  <2>3. TakerAnswer(o, a)
    BY <1>2, <2>1, <2>2, SignalAnswers
  <2>4. PICK side \in Side, qty \in Int : side = a[1].side /\ qty = a[1].qty
    BY <2>3 DEF TakerAnswer
  <2>5. o.open[side] = 0
    <3>1. Own(o, side) = {}
      BY <2>1 DEF Own
    <3>. QED  BY <3>1, NoneOpen
  <2>6. PICK r \in Int : r = Sign(side) * o.position
    BY <2>2, SignIs
  <2>7. PICK x \in Int : x = Room(v, side)
    BY RoomIsInt
  <2>8. x <= r
    <3>1. Room(o, side) = r
      BY <2>5, <2>6 DEF Room
    <3>. QED  BY <2>7, <3>1
  <2>9. x + qty <= MaxInventory
    <3>1. r + qty <= MaxInventory /\ MaxInventory \in Nat
      BY <2>3, <2>4, <2>6, StrategiesAssumption DEF TakerAnswer
    <3>. QED  BY <2>8, <3>1
  <2>10. Room(v, a[1].side) + a[1].qty <= MaxInventory
    BY <2>4, <2>7, <2>9
  <2>. QED  BY <2>1, <2>3, <2>10 DEF TakerAnswer, ImbalanceInv
<1>. QED  BY <1>1, <1>2

LEMMA DynAnswers ==
  ASSUME NEW o, IsOms(o), Numbered(o), NEW a, a \in DynStrategy(o)
  PROVE  a \in Seq(Intents)
<1>. DEFINE N == [kind : {"New"}, side : Side, price : DynPrices,
                  qty : {OrderQty}, tif : TimeInForce]
<1>1. \/ a = <<>>
      \/ \E i \in N : a = <<i>>
      \/ \E id \in DOMAIN o.orders : a = CancelIntents({id})
  BY DEF DynStrategy
<1>2. CASE \E i \in N : a = <<i>>
  <2>1. PICK i \in N : a = <<i>>
    BY <1>2
  <2>2. DynPrices \subseteq AnyPrice /\ OrderQty \in 1..OrderQty
    BY StrategiesAssumption DEF AnyPrice
  <2>3. i \in Intents
    BY <2>2 DEF Intents
  <2>. QED  BY <2>1, <2>3
<1>3. CASE \E id \in DOMAIN o.orders : a = CancelIntents({id})
  <2>1. PICK id \in DOMAIN o.orders : a = CancelIntents({id})
    BY <1>3
  <2>2. PICK ids : ids = {id} /\ ids \subseteq DOMAIN o.orders
    OBVIOUS
  <2>3. Cancels(a, ids)
    BY <2>1, <2>2, OrdersFinite, CancelIntentsAre
  <2>. QED  BY <2>3 DEF Cancels
<1>4. CASE a = <<>>
  BY <1>4
<1>. QED  BY <1>1, <1>2, <1>3, <1>4
-----------------------------------------------------------------------------
(* Steps that report. *)

LEMMA RowAppend ==
  ASSUME NEW s, IsRow(s), NEW e
  PROVE  IsRow(Append(s, e)) /\ \E S : s \in Seq(S) /\ e \in S
<1>1. PICK S : S = {s[i] : i \in 1..Len(s)}
  OBVIOUS
<1>2. s \in Seq(S)
  BY <1>1 DEF IsRow
<1>3. PICK n \in Nat : n = Len(s)
  BY <1>2
<1>4. PICK T : T = S \cup {e}
  OBVIOUS
<1>5. s \in Seq(T) /\ e \in T
  BY <1>2, <1>4
<1>6. PICK t : t = Append(s, e)
  OBVIOUS
<1>7. /\ t \in Seq(T) /\ Len(t) = n + 1 /\ t[n + 1] = e
      /\ \A i \in 1..n : t[i] = s[i]
  BY <1>3, <1>5, <1>6
<1>8. PICK U : U = {t[i] : i \in 1..Len(t)}
  OBVIOUS
<1>9. \A i \in 1..(n + 1) : t[i] \in U
  BY <1>7, <1>8
<1>10. t \in Seq(U)
  <2>1. t = [i \in 1..(n + 1) |-> t[i]]
    BY <1>3, <1>7
  <2>. QED  BY <1>3, <1>9, <2>1
<1>. QED  BY <1>5, <1>6, <1>8, <1>10 DEF IsRow

LEMMA RowEmpty == IsRow(<<>>)
BY DEF IsRow

(* What Orderly says of the OMS and of the one the reports lead to. *)
ViewOrderly ==
  /\ IsOms(View) /\ Numbered(View) /\ View.next_cl_id = oms.next_cl_id
  /\ AllReports(execCh, oms.next_cl_id)
  /\ \E S : execCh \in Seq(S)

LEMMA ViewIs ==
  ASSUME Orderly
  PROVE  ViewOrderly
<1>1. PICK S : execCh \in Seq(S)
  BY DEF Orderly, IsRow
<1>2. AllReports(execCh, oms.next_cl_id) /\ IsOms(oms) /\ Numbered(oms)
  BY DEF Orderly, AllReports
<1>3. IsOms(View)
  BY <1>1, <1>2, ViewTyped DEF View
<1>4. Numbered(View) /\ View.next_cl_id = oms.next_cl_id
  BY <1>1, <1>2, ViewNumbered DEF View
<1>. QED  BY <1>1, <1>2, <1>3, <1>4 DEF ViewOrderly

(* What a report does to the view. *)
Viewed(e) ==
  /\ View' = OnExec(View, e)
  /\ IsOms(View') /\ Touched(View, View', e)
  /\ Books(oms, View', Append(execCh, e))
  /\ \A s \in Side : Room(View', s) <= Room(View, s)
  /\ e.kind # "Fill" => View'.position = View.position

LEMMA ReportStep ==
  ASSUME Orderly, Books(oms, View, execCh),
         NEW e, IsReport(e, oms.next_cl_id), Apt(View, e),
         execCh' = Append(execCh, e), oms' = oms
  PROVE  Viewed(e)
<1>1. PICK S : execCh \in Seq(S) /\ e \in S
  BY RowAppend DEF Orderly
<1>2. View' = OnExec(View, e)
  <2>1. OnExecs(oms, Append(execCh, e)) = OnExec(OnExecs(oms, execCh), e)
    BY <1>1, ExecsAppend
  <2>. QED  BY <2>1 DEF View
<1>3. PICK v, w : v = View /\ w = View'
  OBVIOUS
<1>4. IsOms(v) /\ IsOms(oms)
  BY <1>3, ViewIs DEF ViewOrderly, Orderly
<1>5. w = OnExec(v, e)
  BY <1>2, <1>3
<1>6. IsOms(w) /\ Touched(v, w, e)
  BY <1>4, <1>5, ExecEffect, ReportTouches
<1>7. Books(oms, v, execCh) /\ Apt(v, e)
  BY <1>3
<1>8. /\ Books(oms, w, Append(execCh, e))
      /\ \A s \in Side : Room(w, s) <= Room(v, s)
      /\ e.kind # "Fill" => w.position = v.position
  BY <1>1, <1>4, <1>5, <1>7, BooksReport
<1>. QED  BY <1>2, <1>3, <1>6, <1>8 DEF Viewed

LEMMA ImbalanceReport ==
  ASSUME NEW o, NEW v, NEW in \in Seq(Intents), ImbalanceInv(o, v, in), IsOms(v),
         NEW w, IsOms(w), \A s \in Side : Room(w, s) <= Room(v, s)
  PROVE  ImbalanceInv(o, w, in)
<1>1. CASE /\ DOMAIN o.orders = {} /\ Len(in) = 1 /\ IsNew(in[1])
           /\ Room(v, in[1].side) + in[1].qty <= MaxInventory
  <2>1. in[1] \in Intents /\ IsNew(in[1])
    <3>1. 1 \in 1..Len(in)
      BY <1>1
    <3>2. \A i \in 1..Len(in) : in[i] \in Intents
      OBVIOUS
    <3>. QED  BY <1>1, <3>1, <3>2
  <2>2. PICK side \in Side, qty \in Int : side = in[1].side /\ qty = in[1].qty
    BY <2>1 DEF Intents, IsNew
  <2>3. PICK a \in Int, b \in Int : a = Room(v, side) /\ b = Room(w, side) /\ b <= a
    BY RoomIsInt
  <2>4. a + qty <= MaxInventory /\ MaxInventory \in Nat
    BY <1>1, <2>2, <2>3, StrategiesAssumption
  <2>5. b + qty <= MaxInventory
    BY <2>3, <2>4
  <2>6. Room(w, in[1].side) + in[1].qty <= MaxInventory
    BY <2>2, <2>3, <2>5
  <2>. QED  BY <1>1, <2>6 DEF ImbalanceInv
<1>2. CASE /\ \A i \in 1..Len(in) : ~IsNew(in[i])
           /\ \E x : DOMAIN o.orders \subseteq {x}
  BY <1>2 DEF ImbalanceInv
<1>. QED  BY <1>1, <1>2 DEF ImbalanceInv

LEMMA BoundedLess ==
  ASSUME NEW v, NEW w, IsOms(v), IsOms(w), NEW n \in Int,
         \A s \in Side : Room(w, s) <= Room(v, s),
         \A s \in Side : Room(v, s) <= n
  PROVE  \A s \in Side : Room(w, s) <= n
<1>1. ASSUME NEW side \in Side PROVE Room(w, side) <= n
  <2>1. PICK a \in Int, b \in Int : a = Room(v, side) /\ b = Room(w, side)
    BY RoomIsInt
  <2>2. b <= a /\ a <= n
    BY <2>1
  <2>3. b <= n
    BY <2>1, <2>2
  <2>. QED  BY <2>1, <2>3
<1>. QED  BY <1>1, Zenon

LEMMA AllowanceIs == MaxInventory + Allowance \in Int
BY StrategiesAssumption DEF Allowance

LEMMA AccountedReport ==
  ASSUME Orderly, Accounted, strategy # "dyn",
         NEW e, IsReport(e, oms.next_cl_id), Apt(View, e),
         execCh' = Append(execCh, e), UNCHANGED <<strategy, gateway, oms, intents>>,
         Linked(View)',
         strategy = "market_maker" /\ Paper /\ e.kind = "Fill" => intents = <<>>,
         strategy = "market_maker" /\ Paper => PaperMaker(oms, View)'
  PROVE  Accounted'
<1>1. Viewed(e)
  BY ReportStep DEF Accounted
<1>2. PICK v, w : v = View /\ w = View'
  OBVIOUS
<1>3. /\ IsOms(v) /\ IsOms(w)
      /\ \A s \in Side : Room(w, s) <= Room(v, s)
      /\ e.kind # "Fill" => w.position = v.position
      /\ intents \in Seq(Intents)
  BY <1>1, <1>2, ViewIs DEF Viewed, ViewOrderly, Orderly
<1>4. Books(oms, View, execCh)'
  BY <1>1 DEF Viewed
<1>5. Bounded(View)'
  <2>1. \A s \in Side : Room(v, s) <= MaxInventory + Allowance
    BY <1>2 DEF Accounted, Bounded
  <2>2. PICK n \in Int : n = MaxInventory + Allowance
    BY AllowanceIs
  <2>3. \A s \in Side : Room(w, s) <= n
    BY <1>3, <2>1, <2>2, BoundedLess
  <2>4. Allowance' = Allowance
    BY DEF Allowance, Paper
  <2>. QED  BY <1>2, <2>2, <2>3, <2>4 DEF Bounded
<1>6. InventoryBound'
  BY DEF Accounted, InventoryBound, Allowance, Paper
<1>7. strategy = "imbalance" => ImbalanceInv(oms, View, intents)'
  <2>. SUFFICES ASSUME strategy = "imbalance" PROVE ImbalanceInv(oms, w, intents)
    BY <1>2
  <2>1. ImbalanceInv(oms, v, intents)
    BY <1>2 DEF Accounted
  <2>. QED  BY <1>3, <2>1, ImbalanceReport
<1>8. strategy = "market_maker" => MakerInv(oms, View, intents)'
  <2>. SUFFICES ASSUME strategy = "market_maker"
                PROVE  MakerInv(oms, View, intents)'
    OBVIOUS
  <2>1. \A s \in Side : SideInv(oms, v, intents, s, Paper)
    BY <1>2 DEF Accounted, MakerInv
  <2>2. ASSUME NEW s \in Side PROVE SideInv(oms, w, intents, s, Paper)
    <3>1. Paper /\ NewOf(intents, s) # {} => w.position = v.position
      <4>1. intents = <<>> => NewOf(intents, s) = {}
        BY DEF NewOf
      <4>. QED  BY <1>3, <4>1
    <3>2. PICK p \in BOOLEAN : p = Paper
      BY DEF Paper
    <3>. QED  BY <1>3, <2>1, <3>1, <3>2, SideReport
  <2>3. Paper' = Paper
    BY DEF Paper
  <2>4. \A s \in Side : SideInv(oms, View, intents, s, Paper)'
    BY <1>2, <2>2, <2>3
  <2>. QED  BY <2>3, <2>4 DEF MakerInv
<1>. QED  BY <1>4, <1>5, <1>6, <1>7, <1>8 DEF Accounted
(* A step that reports nothing, and changes nothing the accounts are of.   *)
LEMMA AccountedSame ==
  ASSUME Accounted, UNCHANGED <<strategy, gateway, oms, intents, execCh>>,
         strategy # "dyn" => Linked(View)',
         strategy = "market_maker" /\ Paper => PaperMaker(oms, View)'
  PROVE  Accounted'
<1>. SUFFICES ASSUME strategy # "dyn" PROVE Accounted'
  BY DEF Accounted
<1>1. View' = View /\ Paper' = Paper /\ Allowance' = Allowance
  BY DEF View, Paper, Allowance
<1>2. Books(oms, View, execCh)'
  BY <1>1 DEF Accounted
<1>3. Bounded(View)' /\ InventoryBound'
  BY <1>1 DEF Accounted, Bounded, InventoryBound
<1>4. strategy = "imbalance" => ImbalanceInv(oms, View, intents)'
  BY <1>1 DEF Accounted
<1>5. strategy = "market_maker" => MakerInv(oms, View, intents)'
  <2>. SUFFICES ASSUME strategy = "market_maker"
                PROVE  MakerInv(oms, View, intents)'
    OBVIOUS
  <2>1. \A s \in Side : SideInv(oms, View, intents, s, Paper)
    BY DEF Accounted, MakerInv
  <2>2. \A s \in Side : SideInv(oms, View, intents, s, Paper)'
    BY <1>1, <2>1
  <2>. QED  BY <1>1, <2>2 DEF MakerInv
<1>. QED  BY <1>2, <1>3, <1>4, <1>5 DEF Accounted

-----------------------------------------------------------------------------
(* Steps of a venue. *)

(* A wire without its first command. *)
WireBehind(t, ch) ==
  /\ t \in Seq(Cmds) /\ 1 \in 1..Len(ch) /\ ch[1] \in Cmds /\ Head(ch) = ch[1]
  /\ \A i \in 1..Len(t) : \E j \in 1..Len(ch) : t[i] = ch[j]
  /\ \A i \in News(t) : \E j \in News(ch) : t[i] = ch[j]
  /\ Distinct(ch) => Distinct(t)
  /\ Distinct(ch) /\ 1 \in News(ch) => \A i \in News(t) : t[i].id # ch[1].id

LEMMA WireTail ==
  ASSUME NEW ch \in Seq(Cmds), ch # <<>>
  PROVE  WireBehind(Tail(ch), ch)
<1>1. PICK t : t = Tail(ch)
  OBVIOUS
<1>2. /\ Head(ch) = ch[1] /\ ch[1] \in Cmds /\ 1 \in 1..Len(ch)
      /\ t \in Seq(Cmds) /\ Behind(t, ch)
  BY <1>1, TailIs
<1>3. PICK n \in Nat : n = Len(t)
  BY <1>2
<1>4. \A i \in 1..n : i + 1 \in 1..Len(ch) /\ t[i] = ch[i + 1]
  BY <1>2, <1>3 DEF Behind
<1>5. \A i \in 1..Len(t) : \E j \in 1..Len(ch) : t[i] = ch[j]
  BY <1>3, <1>4
<1>6. \A i \in News(t) : i \in 1..n /\ i + 1 \in News(ch) /\ t[i] = ch[i + 1]
  BY <1>3, <1>4 DEF News
<1>7. \A i \in News(t) : \E j \in News(ch) : t[i] = ch[j]
  BY <1>6
<1>8. ASSUME Distinct(ch) PROVE Distinct(t)
  <2>. SUFFICES ASSUME NEW i \in News(t), NEW j \in News(t), t[i].id = t[j].id
                PROVE  i = j
    BY DEF Distinct
  <2>1. i + 1 = j + 1
    BY <1>6, <1>8 DEF Distinct
  <2>2. i \in Nat /\ j \in Nat
    BY <1>3, <1>6
  <2>. QED  BY <2>1, <2>2
<1>9. ASSUME Distinct(ch), 1 \in News(ch), NEW i \in News(t)
      PROVE  t[i].id # ch[1].id
  <2>1. i \in Nat \ {0} /\ i + 1 # 1
    BY <1>3, <1>6
  <2>. QED  BY <1>6, <1>9, <2>1 DEF Distinct
<1>. QED  BY <1>1, <1>2, <1>5, <1>7, <1>8, <1>9 DEF WireBehind

(* The reports, with or without one more. *)
Grows(e) ==
  /\ IsRow(execCh')
  /\ \A i \in 1..Len(execCh') : IsReport(execCh'[i], oms.next_cl_id)

LEMMA ReportsGrow ==
  ASSUME Orderly, NEW e, IsReport(e, oms.next_cl_id), execCh' = Append(execCh, e)
  PROVE  Grows(e)
<1>1. IsRow(execCh')
  BY RowAppend DEF Orderly
<1>2. PICK S : execCh \in Seq(S) /\ e \in S
  BY RowAppend DEF Orderly
<1>3. PICK n \in Nat : n = Len(execCh)
  BY <1>2
<1>4. PICK r : n = Len(execCh) /\ r = execCh'
  BY <1>3
<1>5. Len(r) = n + 1 /\ r[n + 1] = e /\ \A i \in 1..n : r[i] = execCh[i]
  BY <1>2, <1>4
<1>6. ASSUME NEW i \in 1..(n + 1) PROVE IsReport(r[i], oms.next_cl_id)
  <2>1. CASE i = n + 1
    BY <1>5, <2>1
  <2>2. CASE i # n + 1
    <3>1. i \in 1..n
      BY <1>4, <2>2
    <3>. QED  BY <1>4, <1>5, <3>1 DEF Orderly
  <2>. QED  BY <2>1, <2>2
<1>. QED  BY <1>1, <1>4, <1>5, <1>6 DEF Grows

LEMMA ReportsSame ==
  ASSUME Orderly, execCh' = execCh, NEW e
  PROVE  Grows(e)
BY DEF Orderly, Grows

LEMMA OrderlyVenue ==
  ASSUME Orderly, UNCHANGED <<strategy, gateway, book, oms, intents>>,
         pc' \in {"idle", "market", "drain", "book", "send", "command", "take", "rest"},
         pc' \in {"idle", "market", "drain", "book"} => intents = <<>>,
         NEW e, Grows(e), orderCh' \in Seq(Cmds), quotes' \in Seq(Quotes),
         \A i \in 1..Len(orderCh') : Given(orderCh'[i].id),
         IF Paper THEN PaperInv' ELSE SimInv'
  PROVE  Orderly'
<1>1. Paper' = Paper /\ Levels' = Levels
  BY DEF Paper, Levels
<1>2. book' \in [Side -> Seq(Levels)]'
  BY <1>1 DEF Orderly
<1>3. \A i \in 1..Len(orderCh') : Given(orderCh[i].id)'
  BY DEF Given
<1>. QED  BY <1>1, <1>2, <1>3 DEF Orderly, Grows
-----------------------------------------------------------------------------
(* The simulated venue. *)

SimStep == UNCHANGED <<strategy, gateway, engineVars, paperVars>>

LEMMA SimOrderly ==
  ASSUME Orderly, ~Paper, SimStep, NEW e, Grows(e), orderCh' \in Seq(Cmds),
         \A i \in 1..Len(orderCh') : \E j \in 1..Len(orderCh) : orderCh'[i] = orderCh[j],
         Distinct(orderCh'),
         \A i \in News(orderCh') : orderCh'[i].id \notin DOMAIN resting',
         taking' # NoOrder =>
           /\ taking' \in Takings /\ Given(taking'.id)
           /\ taking'.id \notin DOMAIN resting'
           /\ \A i \in News(orderCh') : orderCh'[i].id # taking'.id,
         \A id \in DOMAIN resting' : Given(id) /\ resting'[id] \in Rests
  PROVE  Orderly'
<1>1. /\ UNCHANGED <<strategy, gateway, book, oms, pc, intents, quotes>>
      /\ quotes' \in Seq(Quotes)
  BY DEF SimStep, engineVars, paperVars, Orderly
<1>2. \A i \in 1..Len(orderCh') : Given(orderCh'[i].id)
  BY DEF Orderly
<1>3. SimInv'
  <2>1. pc' \in {"idle", "drain", "book", "send"} /\ quotes' = <<>>
    BY <1>1 DEF Orderly, SimInv
  <2>2. taking' # NoOrder => Given(taking.id)'
    BY <1>1 DEF Given
  <2>3. \A id \in DOMAIN resting' : id \in 1..(oms'.next_cl_id - 1)
    BY <1>1 DEF Given
  <2>. QED  BY <2>1, <2>2, <2>3 DEF SimInv, Given
<1>4. /\ pc' \in {"idle", "market", "drain", "book", "send", "command", "take", "rest"}
      /\ pc' \in {"idle", "market", "drain", "book"} => intents = <<>>
  BY <1>1 DEF Orderly
<1>. QED  BY <1>1, <1>2, <1>3, <1>4, OrderlyVenue

(* The links of the simulated venue. *)
LEMMA SimLinked ==
  ASSUME ~Paper, quotes = <<>>, SimStep, NEW w, w = View',
         \A i \in News(orderCh') :
           orderCh'[i].id \in DOMAIN w.orders =>
             /\ w.orders[orderCh'[i].id].leaves = orderCh'[i].qty
             /\ ~w.orders[orderCh'[i].id].acked,
         taking' # NoOrder =>
           (taking'.id \in DOMAIN w.orders => w.orders[taking'.id].leaves = taking'.qty),
         \A id \in DOMAIN resting' \cap DOMAIN w.orders :
           w.orders[id].leaves = resting'[id].leaves
  PROVE  Linked(View)'
<1>1. ~Paper' /\ quotes' = <<>>
  BY DEF SimStep, paperVars, Paper
<1>2. \A i \in 1..Len(quotes') : FALSE
  BY <1>1
<1>. QED  BY <1>1, <1>2 DEF Linked

LEMMA SimAccounted ==
  ASSUME Orderly, Accounted, ~Paper, SimStep, NEW e, IsReport(e, oms.next_cl_id),
         execCh' = Append(execCh, e), strategy # "dyn" => Apt(View, e),
         strategy # "dyn" => Linked(View)'
  PROVE  Accounted'
<1>1. UNCHANGED <<strategy, gateway, oms, intents>>
  BY DEF SimStep, engineVars
<1>2. CASE strategy = "dyn"
  BY <1>1, <1>2 DEF Accounted
<1>3. CASE strategy # "dyn"
  BY <1>1, <1>3, AccountedReport
<1>. QED  BY <1>2, <1>3

(* The first command, when it is a new order. *)
HeadNew ==
  /\ WireBehind(Tail(orderCh), orderCh) /\ 1 \in News(orderCh)
  /\ Head(orderCh) = orderCh[1] /\ orderCh[1] \in NewCmds(1..OrderQty)
  /\ Given(orderCh[1].id)

LEMMA HeadNewIs ==
  ASSUME Orderly, orderCh # <<>>, Head(orderCh).cmd = "New"
  PROVE  HeadNew
<1>1. WireBehind(Tail(orderCh), orderCh)
  BY WireTail DEF Orderly
<1>2. /\ Head(orderCh) = orderCh[1] /\ 1 \in 1..Len(orderCh)
      /\ orderCh[1] \in Cmds
  BY <1>1 DEF WireBehind
<1>3. Given(orderCh[1].id)
  BY <1>2 DEF Orderly
<1>4. 1 \in News(orderCh) /\ orderCh[1] \in NewCmds(1..OrderQty)
  BY <1>2 DEF News, Cmds, NewCmds
<1>. QED  BY <1>1, <1>2, <1>3, <1>4 DEF HeadNew

LEMMA SimReject ==
  ASSUME Orderly, Accounted, ~Paper, SimStep, Sim!VenueReject
  PROVE  Orderly' /\ Accounted'
<1>1. /\ HeadNew /\ orderCh' = Tail(orderCh) /\ taking = NoOrder
      /\ taking' = taking /\ resting' = resting
  BY HeadNewIs DEF Sim!VenueReject
<1>2. PICK c, e : c = orderCh[1] /\ e = Rejected(c.id, "WouldCross")
  OBVIOUS
<1>3. execCh' = Append(execCh, e)
  BY <1>1, <1>2 DEF HeadNew, Sim!VenueReject, Sim!Report, Sim!Rejected,
     Rejected
<1>4. e.kind = "Rejected" /\ e.id = c.id /\ e.reason = "WouldCross"
  BY <1>2 DEF Rejected
<1>5. IsReport(e, oms.next_cl_id)
  BY <1>1, <1>2, <1>4 DEF HeadNew, Given, IsReport, ReportKinds
<1>6. SimInv /\ WireBehind(orderCh', orderCh)
  BY <1>1 DEF Orderly, HeadNew
<1>7. /\ \A i \in News(orderCh') :
           orderCh'[i].id # c.id /\ \E j \in News(orderCh) : orderCh'[i] = orderCh[j]
      /\ c.id \notin DOMAIN resting
  BY <1>1, <1>2, <1>6 DEF SimInv, WireBehind, HeadNew
<1>8. Orderly'
  <2>1. Grows(e)
    BY <1>3, <1>5, ReportsGrow
  <2>2. /\ orderCh' \in Seq(Cmds) /\ Distinct(orderCh')
        /\ \A i \in 1..Len(orderCh') : \E j \in 1..Len(orderCh) : orderCh'[i] = orderCh[j]
    BY <1>6 DEF WireBehind, SimInv
  <2>3. \A i \in News(orderCh') : orderCh'[i].id \notin DOMAIN resting'
    BY <1>1, <1>6, <1>7 DEF SimInv
  <2>4. \A id \in DOMAIN resting' : Given(id) /\ resting'[id] \in Rests
    BY <1>1, <1>6 DEF SimInv
  <2>. QED  BY <1>1, <2>1, <2>2, <2>3, <2>4, SimOrderly
<1>9. ASSUME strategy # "dyn" PROVE Apt(View, e) /\ Linked(View)'
  <2>1. Linked(View) /\ Books(oms, View, execCh)
    BY <1>9 DEF Accounted
  <2>2. PICK v, w : v = View /\ w = View'
    OBVIOUS
  <2>3. /\ \A i \in News(orderCh) :
             orderCh[i].id \in DOMAIN v.orders =>
               /\ v.orders[orderCh[i].id].leaves = orderCh[i].qty
               /\ ~v.orders[orderCh[i].id].acked
        /\ \A id \in DOMAIN resting \cap DOMAIN v.orders :
             v.orders[id].leaves = resting[id].leaves
    BY <2>1, <2>2 DEF Linked
  <2>4. Apt(View, e)
    BY <1>1, <1>2, <1>4, <2>2, <2>3 DEF Apt, HeadNew
  <2>5. Touched(v, w, e)
    <3>1. oms' = oms
      BY DEF SimStep, engineVars
    <3>. QED  BY <1>3, <1>5, <2>1, <2>2, <2>4, <3>1, ReportStep DEF Viewed
  <2>6. \A id \in DOMAIN w.orders :
          id # c.id => id \in DOMAIN v.orders /\ w.orders[id] = v.orders[id]
    BY <1>4, <2>5 DEF Touched
  <2>7. Linked(View)'
    <3>1. \A i \in News(orderCh') :
            orderCh'[i].id \in DOMAIN w.orders =>
              /\ w.orders[orderCh'[i].id].leaves = orderCh'[i].qty
              /\ ~w.orders[orderCh'[i].id].acked
      BY <1>7, <2>3, <2>6
    <3>2. \A id \in DOMAIN resting' \cap DOMAIN w.orders :
            w.orders[id].leaves = resting'[id].leaves
      BY <1>1, <1>7, <2>3, <2>6
    <3>. QED  BY <1>1, <1>6, <2>2, <3>1, <3>2, SimLinked DEF SimInv
  <2>. QED  BY <2>4, <2>7
<1>. QED  BY <1>3, <1>5, <1>8, <1>9, SimAccounted
(* The links of the simulated venue's orders. *)
SimLinks(v) ==
  /\ \A i \in News(orderCh) :
       orderCh[i].id \in DOMAIN v.orders =>
         v.orders[orderCh[i].id].leaves = orderCh[i].qty /\ ~v.orders[orderCh[i].id].acked
  /\ taking # NoOrder =>
       (taking.id \in DOMAIN v.orders => v.orders[taking.id].leaves = taking.qty)
  /\ \A id \in DOMAIN resting \cap DOMAIN v.orders :
       v.orders[id].leaves = resting[id].leaves

LEMMA SimLinksAre ==
  ASSUME Accounted, ~Paper, strategy # "dyn"
  PROVE  SimLinks(View) /\ Books(oms, View, execCh)
<1>1. Linked(View) /\ Books(oms, View, execCh)
  BY DEF Accounted
<1>2. PICK v : v = View
  OBVIOUS
<1>3. SimLinks(v)
  BY <1>1, <1>2 DEF Linked, SimLinks
<1>. QED  BY <1>1, <1>2, <1>3

LEMMA SimTouched ==
  ASSUME Orderly, Accounted, strategy # "dyn", SimStep, NEW e,
         IsReport(e, oms.next_cl_id), Apt(View, e), execCh' = Append(execCh, e)
  PROVE  Touched(View, View', e)
<1>1. oms' = oms
  BY DEF SimStep, engineVars
<1>2. Books(oms, View, execCh)
  BY DEF Accounted
<1>. QED  BY <1>1, <1>2, ReportStep DEF Viewed

LEMMA SimAccept ==
  ASSUME Orderly, Accounted, ~Paper, SimStep, Sim!VenueAccept
  PROVE  Orderly' /\ Accounted'
<1>1. /\ HeadNew /\ orderCh' = Tail(orderCh) /\ taking = NoOrder
      /\ taking' = Head(orderCh) /\ resting' = resting
  BY HeadNewIs DEF Sim!VenueAccept
<1>2. PICK c, e : c = orderCh[1] /\ e = Ack(c.id)
  OBVIOUS
<1>3. execCh' = Append(execCh, e)
  BY <1>1, <1>2 DEF HeadNew, Sim!VenueAccept, Sim!Report, Sim!Ack, Ack
<1>4. e.kind = "Ack" /\ e.id = c.id
  BY <1>2 DEF Ack
<1>5. IsReport(e, oms.next_cl_id)
  BY <1>1, <1>2, <1>4 DEF HeadNew, Given, IsReport, ReportKinds
<1>6. SimInv /\ WireBehind(orderCh', orderCh) /\ taking' = c
  BY <1>1, <1>2 DEF Orderly, HeadNew
<1>7. /\ \A i \in News(orderCh') :
           orderCh'[i].id # c.id /\ \E j \in News(orderCh) : orderCh'[i] = orderCh[j]
      /\ c.id \notin DOMAIN resting
  BY <1>1, <1>2, <1>6 DEF SimInv, WireBehind, HeadNew
<1>8. Orderly'
  <2>1. Grows(e)
    BY <1>3, <1>5, ReportsGrow
  <2>2. /\ orderCh' \in Seq(Cmds) /\ Distinct(orderCh')
        /\ \A i \in 1..Len(orderCh') : \E j \in 1..Len(orderCh) : orderCh'[i] = orderCh[j]
    BY <1>6 DEF WireBehind, SimInv
  <2>3. \A i \in News(orderCh') : orderCh'[i].id \notin DOMAIN resting'
    BY <1>1, <1>6, <1>7 DEF SimInv
  <2>4. \A id \in DOMAIN resting' : Given(id) /\ resting'[id] \in Rests
    BY <1>1, <1>6 DEF SimInv
  <2>5. /\ taking' \in Takings /\ Given(taking'.id)
        /\ taking'.id \notin DOMAIN resting'
        /\ \A i \in News(orderCh') : orderCh'[i].id # taking'.id
    <3>1. c \in Takings
      BY <1>1, <1>2 DEF HeadNew, NewCmds, Takings
    <3>. QED  BY <1>1, <1>2, <1>6, <1>7, <3>1 DEF HeadNew
  <2>. QED  BY <2>1, <2>2, <2>3, <2>4, <2>5, SimOrderly
<1>9. ASSUME strategy # "dyn" PROVE Apt(View, e) /\ Linked(View)'
  <2>1. PICK v, w : v = View /\ w = View'
    OBVIOUS
  <2>2. SimLinks(v)
    BY <1>9, <2>1, SimLinksAre
  <2>3. Apt(View, e)
    BY <1>4 DEF Apt, Crossed
  <2>4. Touched(v, w, e)
    BY <1>3, <1>5, <1>9, <2>1, <2>3, SimTouched
  <2>5. /\ \A id \in DOMAIN w.orders :
             id # c.id => id \in DOMAIN v.orders /\ w.orders[id] = v.orders[id]
        /\ c.id \in DOMAIN w.orders =>
             c.id \in DOMAIN v.orders /\ w.orders[c.id].leaves = v.orders[c.id].leaves
    BY <1>4, <2>4 DEF Touched
  <2>6. \A i \in News(orderCh') :
          orderCh'[i].id \in DOMAIN w.orders =>
            /\ w.orders[orderCh'[i].id].leaves = orderCh'[i].qty
            /\ ~w.orders[orderCh'[i].id].acked
    BY <1>7, <2>2, <2>5 DEF SimLinks
  <2>7. \A id \in DOMAIN resting' \cap DOMAIN w.orders :
          w.orders[id].leaves = resting'[id].leaves
    BY <1>1, <1>7, <2>2, <2>5 DEF SimLinks
  <2>8. taking'.id \in DOMAIN w.orders => w.orders[taking'.id].leaves = taking'.qty
    BY <1>1, <1>2, <1>6, <2>2, <2>5 DEF SimLinks, HeadNew
  <2>9. Linked(View)'
    BY <1>6, <2>1, <2>6, <2>7, <2>8, SimLinked DEF SimInv
  <2>. QED  BY <2>3, <2>9
<1>. QED  BY <1>3, <1>5, <1>8, <1>9, SimAccounted

(* A fill of the order that is being executed. *)
LEMMA SimTake ==
  ASSUME Orderly, Accounted, ~Paper, SimStep, taking # NoOrder,
         NEW price, NEW qty \in 1..taking.qty, Sim!VenueTake(price, qty)
  PROVE  Orderly' /\ Accounted'
<1>1. /\ SimInv /\ taking \in Takings /\ Given(taking.id)
      /\ taking.id \notin DOMAIN resting
      /\ \A i \in News(orderCh) : orderCh[i].id # taking.id
      /\ orderCh' = orderCh /\ resting' = resting
  BY DEF Orderly, SimInv, Sim!VenueTake
<1>2. PICK n \in 0..OrderQty : n = taking.qty
  BY <1>1 DEF Takings, NewCmds
<1>3. PICK c, e : /\ c = [taking EXCEPT !.qty = n - qty]
                  /\ e = Fill(taking.id, price, qty, n - qty)
  OBVIOUS
<1>4. execCh' = Append(execCh, e) /\ taking' = c
  BY <1>2, <1>3 DEF Sim!VenueTake, Sim!Report, Sim!Fill, Fill
<1>5. qty \in Nat /\ n - qty \in 0..OrderQty /\ n = qty + (n - qty)
  BY <1>2, StrategiesAssumption
<1>6. e.kind = "Fill" /\ e.id = taking.id /\ e.qty = qty /\ e.leaves = n - qty
  BY <1>3 DEF Fill
<1>7. c \in Takings /\ c.id = taking.id /\ c.qty = n - qty
  BY <1>1, <1>3, <1>5 DEF Takings, NewCmds
<1>8. IsReport(e, oms.next_cl_id)
  BY <1>1, <1>5, <1>6 DEF Given, IsReport, ReportKinds
<1>9. Orderly'
  <2>1. Grows(e)
    BY <1>4, <1>8, ReportsGrow
  <2>2. /\ orderCh' \in Seq(Cmds) /\ Distinct(orderCh')
        /\ \A i \in 1..Len(orderCh') : \E j \in 1..Len(orderCh) : orderCh'[i] = orderCh[j]
    BY <1>1 DEF SimInv, Orderly
  <2>3. \A i \in News(orderCh') : orderCh'[i].id \notin DOMAIN resting'
    BY <1>1 DEF SimInv
  <2>4. \A id \in DOMAIN resting' : Given(id) /\ resting'[id] \in Rests
    BY <1>1 DEF SimInv
  <2>5. /\ taking' \in Takings /\ Given(taking'.id)
        /\ taking'.id \notin DOMAIN resting'
        /\ \A i \in News(orderCh') : orderCh'[i].id # taking'.id
    BY <1>1, <1>4, <1>7
  <2>. QED  BY <2>1, <2>2, <2>3, <2>4, <2>5, SimOrderly
<1>10. ASSUME strategy # "dyn" PROVE Apt(View, e) /\ Linked(View)'
  <2>1. PICK v, w : v = View /\ w = View'
    OBVIOUS
  <2>2. SimLinks(v)
    BY <1>10, <2>1, SimLinksAre
  <2>3. Apt(View, e)
    BY <1>2, <1>5, <1>6, <2>1, <2>2 DEF Apt, Crossed, SimLinks
  <2>4. Touched(v, w, e)
    BY <1>4, <1>8, <1>10, <2>1, <2>3, SimTouched
  <2>5. /\ \A id \in DOMAIN w.orders :
             id # taking.id => id \in DOMAIN v.orders /\ w.orders[id] = v.orders[id]
        /\ taking.id \in DOMAIN w.orders => w.orders[taking.id].leaves = n - qty
    BY <1>6, <2>4 DEF Touched
  <2>6. \A i \in News(orderCh') :
          orderCh'[i].id \in DOMAIN w.orders =>
            /\ w.orders[orderCh'[i].id].leaves = orderCh'[i].qty
            /\ ~w.orders[orderCh'[i].id].acked
    BY <1>1, <2>2, <2>5 DEF SimLinks
  <2>7. \A id \in DOMAIN resting' \cap DOMAIN w.orders :
          w.orders[id].leaves = resting'[id].leaves
    BY <1>1, <2>2, <2>5 DEF SimLinks
  <2>8. taking'.id \in DOMAIN w.orders => w.orders[taking'.id].leaves = taking'.qty
    BY <1>4, <1>7, <2>5
  <2>9. Linked(View)'
    BY <1>1, <2>1, <2>6, <2>7, <2>8, SimLinked DEF SimInv
  <2>. QED  BY <2>3, <2>9
<1>. QED  BY <1>4, <1>8, <1>9, <1>10, SimAccounted
(* The order rests, or what is left of it is canceled. *)
LEMMA SimRest ==
  ASSUME Orderly, Accounted, ~Paper, SimStep, Sim!VenueRest
  PROVE  Orderly' /\ Accounted'
<1>1. /\ SimInv /\ taking \in Takings /\ Given(taking.id) /\ taking # NoOrder
      /\ taking.id \notin DOMAIN resting
      /\ \A i \in News(orderCh) : orderCh[i].id # taking.id
      /\ orderCh' = orderCh /\ taking' = NoOrder
  BY DEF Orderly, SimInv, Sim!VenueRest
<1>2. PICK c, e, b : /\ c = taking /\ e = Canceled(c.id)
                     /\ b = (c.qty > 0 /\ c.tif # "Ioc")
  OBVIOUS
<1>3. c.qty \in 0..OrderQty
  BY <1>1, <1>2 DEF Takings, NewCmds
<1>4. \/ execCh' = execCh
      \/ execCh' = Append(execCh, e) /\ ~b
  BY <1>2 DEF Sim!VenueRest, Sim!Report, Sim!Canceled, Canceled
<1>5. resting' = IF b THEN Sim!With(resting, c.id, [side |-> c.side, price |-> c.price,
                                                leaves |-> c.qty])
                 ELSE resting
  BY <1>2 DEF Sim!VenueRest
<1>6. /\ DOMAIN resting' = IF b THEN DOMAIN resting \cup {c.id} ELSE DOMAIN resting
      /\ \A id \in DOMAIN resting : id # c.id => resting'[id] = resting[id]
      /\ b => resting'[c.id].leaves = c.qty /\ resting'[c.id] \in Rests
  <2>1. CASE b
    <3>1. PICK x : x = [side |-> c.side, price |-> c.price, leaves |-> c.qty]
      OBVIOUS
    <3>2. resting' = [i \in DOMAIN resting \cup {c.id} |->
                        IF i = c.id THEN x ELSE resting[i]]
      BY <1>5, <2>1, <3>1 DEF Sim!With
    <3>3. x \in Rests
      BY <1>1, <1>2, <1>3, <3>1 DEF Rests, Takings, NewCmds
    <3>. QED  BY <2>1, <3>1, <3>2, <3>3
  <2>2. CASE ~b
    BY <1>5, <2>2
  <2>. QED  BY <2>1, <2>2
<1>7. e.kind = "Canceled" /\ e.id = c.id
  BY <1>2 DEF Canceled
<1>8. IsReport(e, oms.next_cl_id)
  BY <1>1, <1>2, <1>7 DEF Given, IsReport, ReportKinds
<1>9. Orderly'
  <2>1. Grows(e)
    BY <1>4, <1>8, ReportsGrow, ReportsSame
  <2>2. /\ orderCh' \in Seq(Cmds) /\ Distinct(orderCh')
        /\ \A i \in 1..Len(orderCh') : \E j \in 1..Len(orderCh) : orderCh'[i] = orderCh[j]
    BY <1>1 DEF SimInv, Orderly
  <2>3. \A i \in News(orderCh') : orderCh'[i].id \notin DOMAIN resting'
    BY <1>1, <1>2, <1>6 DEF SimInv
  <2>4. \A id \in DOMAIN resting' : Given(id) /\ resting'[id] \in Rests
    BY <1>1, <1>2, <1>3, <1>6 DEF SimInv
  <2>. QED  BY <1>1, <2>1, <2>2, <2>3, <2>4, SimOrderly
<1>10. ASSUME strategy # "dyn", NEW v, v = View, NEW w, w = View',
              \A id \in DOMAIN w.orders :
                 id # c.id => id \in DOMAIN v.orders /\ w.orders[id] = v.orders[id],
              b => w = v
       PROVE  Linked(View)'
  <2>1. SimLinks(v)
    BY <1>10, SimLinksAre
  <2>2. \A i \in News(orderCh') :
          orderCh'[i].id \in DOMAIN w.orders =>
            /\ w.orders[orderCh'[i].id].leaves = orderCh'[i].qty
            /\ ~w.orders[orderCh'[i].id].acked
    BY <1>1, <1>2, <1>10, <2>1 DEF SimLinks
  <2>3. \A id \in DOMAIN resting' \cap DOMAIN w.orders :
          w.orders[id].leaves = resting'[id].leaves
    <3>. SUFFICES ASSUME NEW id \in DOMAIN resting' \cap DOMAIN w.orders
                  PROVE  w.orders[id].leaves = resting'[id].leaves
      OBVIOUS
    <3>1. CASE id = c.id
      BY <1>1, <1>2, <1>6, <1>10, <2>1, <3>1 DEF SimLinks
    <3>2. CASE id # c.id
      <4>1. /\ id \in DOMAIN v.orders /\ w.orders[id] = v.orders[id]
            /\ id \in DOMAIN resting /\ resting'[id] = resting[id]
        BY <1>6, <1>10, <3>2
      <4>. QED  BY <2>1, <4>1 DEF SimLinks
    <3>. QED  BY <3>1, <3>2
  <2>. QED  BY <1>1, <1>10, <2>2, <2>3, SimLinked DEF SimInv
<1>11. CASE execCh' = execCh
  <2>1. View' = View
    BY <1>11 DEF View, SimStep, engineVars
  <2>2. strategy # "dyn" => Linked(View)'
    BY <1>10, <2>1
  <2>3. UNCHANGED <<strategy, gateway, oms, intents, execCh>>
    BY <1>11 DEF SimStep, engineVars
  <2>. QED  BY <1>9, <2>2, <2>3, AccountedSame
<1>12. CASE execCh' = Append(execCh, e) /\ ~b
  <2>1. strategy # "dyn" => Apt(View, e)
    BY <1>7 DEF Apt, Crossed
  <2>2. ASSUME strategy # "dyn" PROVE Linked(View)'
    <3>1. PICK v, w : v = View /\ w = View'
      OBVIOUS
    <3>2. Touched(v, w, e)
      BY <1>8, <1>12, <2>1, <2>2, <3>1, SimTouched
    <3>3. \A id \in DOMAIN w.orders :
             id # c.id => id \in DOMAIN v.orders /\ w.orders[id] = v.orders[id]
      BY <1>7, <3>2 DEF Touched
    <3>. QED  BY <1>10, <1>12, <2>2, <3>1, <3>3
  <2>. QED  BY <1>8, <1>9, <1>12, <2>1, <2>2, SimAccounted
<1>. QED  BY <1>4, <1>11, <1>12

(* A fill of an order that rests. *)
LEMMA SimMake ==
  ASSUME Orderly, Accounted, ~Paper, SimStep,
         NEW id \in DOMAIN resting, NEW qty \in 1..resting[id].leaves,
         Sim!VenueMake(id, qty)
  PROVE  Orderly' /\ Accounted'
<1>1. /\ SimInv /\ Given(id) /\ orderCh' = orderCh /\ taking' = taking
      /\ taking # NoOrder => taking.id # id
      /\ \A i \in News(orderCh) : orderCh[i].id # id
  BY DEF Orderly, SimInv, Sim!VenueMake
<1>2. PICK n \in 0..OrderQty : n = resting[id].leaves
  BY <1>1 DEF SimInv, Rests
<1>3. PICK m \in 0..OrderQty : m = n - qty /\ n = qty + m /\ qty \in Nat
  BY <1>2, StrategiesAssumption
<1>4. PICK e : e = Fill(id, resting[id].price, qty, m)
  OBVIOUS
<1>5. e.kind = "Fill" /\ e.id = id /\ e.qty = qty /\ e.leaves = m
  BY <1>4 DEF Fill
<1>6. execCh' = Append(execCh, e)
  BY <1>2, <1>3, <1>4 DEF Sim!VenueMake, Sim!Report, Sim!Fill, Fill
<1>7. resting' = IF m = 0 THEN Sim!Without(resting, id)
                 ELSE Sim!With(resting, id, [resting[id] EXCEPT !.leaves = m])
  BY <1>2, <1>3 DEF Sim!VenueMake
<1>8. /\ DOMAIN resting' \subseteq DOMAIN resting
      /\ \A j \in DOMAIN resting' :
           IF j = id THEN resting'[j].leaves = m /\ resting'[j] \in Rests
           ELSE resting'[j] = resting[j]
  <2>1. CASE m = 0
    <3>1. resting' = [j \in DOMAIN resting \ {id} |-> resting[j]]
      BY <1>7, <2>1 DEF Sim!Without
    <3>. QED  BY <3>1
  <2>2. CASE m # 0
    <3>1. PICK x : x = [resting[id] EXCEPT !.leaves = m]
      OBVIOUS
    <3>2. resting' = [j \in DOMAIN resting \cup {id} |->
                        IF j = id THEN x ELSE resting[j]]
      BY <1>7, <2>2, <3>1 DEF Sim!With
    <3>3. x.leaves = m /\ x \in Rests
      <4>1. resting[id] \in Rests
        BY <1>1 DEF SimInv
      <4>. QED  BY <1>3, <3>1, <4>1 DEF Rests
    <3>. QED  BY <2>2, <3>2, <3>3
  <2>. QED  BY <2>1, <2>2
<1>9. IsReport(e, oms.next_cl_id)
  BY <1>1, <1>3, <1>5 DEF Given, IsReport, ReportKinds
<1>10. Orderly'
  <2>1. Grows(e)
    BY <1>6, <1>9, ReportsGrow
  <2>2. /\ orderCh' \in Seq(Cmds) /\ Distinct(orderCh')
        /\ \A i \in 1..Len(orderCh') : \E j \in 1..Len(orderCh) : orderCh'[i] = orderCh[j]
    BY <1>1 DEF SimInv, Orderly
  <2>3. \A i \in News(orderCh') : orderCh'[i].id \notin DOMAIN resting'
    BY <1>1, <1>8 DEF SimInv
  <2>4. \A j \in DOMAIN resting' : Given(j) /\ resting'[j] \in Rests
    BY <1>1, <1>3, <1>8 DEF SimInv
  <2>5. taking' # NoOrder =>
          /\ taking' \in Takings /\ Given(taking'.id)
          /\ taking'.id \notin DOMAIN resting'
          /\ \A i \in News(orderCh') : orderCh'[i].id # taking'.id
    BY <1>1, <1>8 DEF SimInv
  <2>. QED  BY <2>1, <2>2, <2>3, <2>4, <2>5, SimOrderly
<1>11. ASSUME strategy # "dyn" PROVE Apt(View, e) /\ Linked(View)'
  <2>1. PICK v, w : v = View /\ w = View'
    OBVIOUS
  <2>2. SimLinks(v)
    BY <1>11, <2>1, SimLinksAre
  <2>3. Apt(View, e)
    BY <1>2, <1>3, <1>5, <2>1, <2>2 DEF Apt, Crossed, SimLinks
  <2>4. Touched(v, w, e)
    BY <1>6, <1>9, <1>11, <2>1, <2>3, SimTouched
  <2>5. /\ \A j \in DOMAIN w.orders :
             j # id => j \in DOMAIN v.orders /\ w.orders[j] = v.orders[j]
        /\ id \in DOMAIN w.orders => w.orders[id].leaves = m
    BY <1>5, <2>4 DEF Touched
  <2>6. \A i \in News(orderCh') :
          orderCh'[i].id \in DOMAIN w.orders =>
            /\ w.orders[orderCh'[i].id].leaves = orderCh'[i].qty
            /\ ~w.orders[orderCh'[i].id].acked
    BY <1>1, <2>2, <2>5 DEF SimLinks
  <2>7. \A j \in DOMAIN resting' \cap DOMAIN w.orders :
          w.orders[j].leaves = resting'[j].leaves
    <3>. SUFFICES ASSUME NEW j \in DOMAIN resting' \cap DOMAIN w.orders
                  PROVE  w.orders[j].leaves = resting'[j].leaves
      OBVIOUS
    <3>1. CASE j = id
      BY <1>8, <2>5, <3>1
    <3>2. CASE j # id
      <4>1. /\ j \in DOMAIN v.orders /\ w.orders[j] = v.orders[j]
            /\ j \in DOMAIN resting /\ resting'[j] = resting[j]
        BY <1>8, <2>5, <3>2
      <4>. QED  BY <2>2, <4>1 DEF SimLinks
    <3>. QED  BY <3>1, <3>2
  <2>8. taking' # NoOrder =>
          (taking'.id \in DOMAIN w.orders => w.orders[taking'.id].leaves = taking'.qty)
    BY <1>1, <2>2, <2>5 DEF SimLinks
  <2>9. Linked(View)'
    BY <1>1, <2>1, <2>6, <2>7, <2>8, SimLinked DEF SimInv
  <2>. QED  BY <2>3, <2>9
<1>. QED  BY <1>6, <1>9, <1>10, <1>11, SimAccounted
(* The first command, when it is a cancel. *)
HeadCancel ==
  /\ WireBehind(Tail(orderCh), orderCh)
  /\ Head(orderCh) = orderCh[1] /\ Given(orderCh[1].id)

LEMMA HeadCancelIs ==
  ASSUME Orderly, orderCh # <<>>
  PROVE  HeadCancel
<1>1. WireBehind(Tail(orderCh), orderCh)
  BY WireTail DEF Orderly
<1>2. /\ Head(orderCh) = orderCh[1] /\ 1 \in 1..Len(orderCh)
  BY <1>1 DEF WireBehind
<1>3. Given(orderCh[1].id)
  BY <1>2 DEF Orderly
<1>. QED  BY <1>1, <1>2, <1>3 DEF HeadCancel

(* Whatever is reported of the order, it no longer rests. *)
LEMMA SimCancel ==
  ASSUME Orderly, Accounted, ~Paper, SimStep, Sim!VenueCancel
  PROVE  Orderly' /\ Accounted'
<1>1. /\ HeadCancel /\ orderCh' = Tail(orderCh) /\ taking = NoOrder
      /\ taking' = NoOrder
  BY HeadCancelIs DEF Sim!VenueCancel
<1>2. PICK id : id = orderCh[1].id
  OBVIOUS
<1>3. PICK e : e = IF id \in DOMAIN resting THEN Canceled(id)
                   ELSE Rejected(id, "UnknownOrder")
  OBVIOUS
<1>4. Head(orderCh).id = id
  BY <1>1, <1>2 DEF HeadCancel
<1>5. execCh' = Append(execCh, e)
  BY <1>3, <1>4
     DEF Sim!VenueCancel, Sim!Report, Sim!Rejected, Rejected, Sim!Canceled, Canceled
<1>6. resting' = IF id \in DOMAIN resting THEN Sim!Without(resting, id) ELSE resting
  BY <1>4 DEF Sim!VenueCancel
<1>7. /\ DOMAIN resting' = DOMAIN resting \ {id}
      /\ \A j \in DOMAIN resting' : resting'[j] = resting[j]
  BY <1>6 DEF Sim!Without
<1>8. /\ e.id = id /\ e.kind \in {"Canceled", "Rejected"}
      /\ e.kind = "Rejected" => e.reason = "UnknownOrder"
  BY <1>3 DEF Rejected, Canceled
<1>9. IsReport(e, oms.next_cl_id)
  BY <1>1, <1>2, <1>8 DEF HeadCancel, Given, IsReport, ReportKinds
<1>10. SimInv /\ WireBehind(orderCh', orderCh)
  BY <1>1 DEF Orderly, HeadCancel
<1>11. \A i \in News(orderCh') : \E j \in News(orderCh) : orderCh'[i] = orderCh[j]
  BY <1>10 DEF WireBehind
<1>12. Orderly'
  <2>1. Grows(e)
    BY <1>5, <1>9, ReportsGrow
  <2>2. /\ orderCh' \in Seq(Cmds) /\ Distinct(orderCh')
        /\ \A i \in 1..Len(orderCh') : \E j \in 1..Len(orderCh) : orderCh'[i] = orderCh[j]
    BY <1>10 DEF WireBehind, SimInv
  <2>3. \A i \in News(orderCh') : orderCh'[i].id \notin DOMAIN resting'
    BY <1>7, <1>10, <1>11 DEF SimInv
  <2>4. \A j \in DOMAIN resting' : Given(j) /\ resting'[j] \in Rests
    BY <1>7, <1>10 DEF SimInv
  <2>. QED  BY <1>1, <2>1, <2>2, <2>3, <2>4, SimOrderly
<1>13. ASSUME strategy # "dyn" PROVE Apt(View, e) /\ Linked(View)'
  <2>1. PICK v, w : v = View /\ w = View'
    OBVIOUS
  <2>2. SimLinks(v)
    BY <1>13, <2>1, SimLinksAre
  <2>3. Apt(View, e)
    BY <1>8 DEF Apt, Crossed
  <2>4. Touched(v, w, e)
    BY <1>5, <1>9, <1>13, <2>1, <2>3, SimTouched
  <2>5. /\ \A j \in DOMAIN w.orders : j \in DOMAIN v.orders /\ w.orders[j] = v.orders[j]
    BY <1>8, <2>4 DEF Touched, Gone
  <2>6. \A i \in News(orderCh') :
          orderCh'[i].id \in DOMAIN w.orders =>
            /\ w.orders[orderCh'[i].id].leaves = orderCh'[i].qty
            /\ ~w.orders[orderCh'[i].id].acked
    BY <1>11, <2>2, <2>5 DEF SimLinks
  <2>7. \A j \in DOMAIN resting' \cap DOMAIN w.orders :
          w.orders[j].leaves = resting'[j].leaves
    BY <1>7, <2>2, <2>5 DEF SimLinks
  <2>8. Linked(View)'
    BY <1>1, <1>10, <2>1, <2>6, <2>7, SimLinked DEF SimInv
  <2>. QED  BY <2>3, <2>8
<1>. QED  BY <1>5, <1>9, <1>12, <1>13, SimAccounted

LEMMA SimPreserves ==
  ASSUME Orderly, Accounted, SimVenueSteps
  PROVE  Orderly' /\ Accounted'
<1>1. ~Paper /\ SimStep
  BY DEF SimVenueSteps, SimStep
<1>2. CASE Sim!VenueReject
  BY <1>1, <1>2, SimReject
<1>3. CASE Sim!VenueAccept
  BY <1>1, <1>3, SimAccept
<1>4. CASE Sim!VenueRest
  BY <1>1, <1>4, SimRest
<1>5. CASE Sim!VenueCancel
  BY <1>1, <1>5, SimCancel
<1>6. CASE /\ taking # NoOrder
           /\ \E price \in QuotePrices, qty \in 1..taking.qty : Sim!VenueTake(price, qty)
  BY <1>1, <1>6, SimTake
<1>7. CASE \E id \in DOMAIN resting :
             \E qty \in 1..resting[id].leaves : Sim!VenueMake(id, qty)
  BY <1>1, <1>7, SimMake
<1>. QED
  BY <1>2, <1>3, <1>4, <1>5, <1>6, <1>7
     DEF SimVenueSteps, Sim!VenueCommand, Sim!VenueTrade
-----------------------------------------------------------------------------
(* The paper venue. *)

PaperStep == UNCHANGED <<strategy, gateway, book, oms, intents, resting>>

LEMMA PaperLinked ==
  ASSUME Paper, PaperStep, DOMAIN resting = {}, NEW w, w = View',
         \A i \in News(orderCh') :
           orderCh'[i].id \in DOMAIN w.orders =>
             /\ w.orders[orderCh'[i].id].leaves = orderCh'[i].qty
             /\ ~w.orders[orderCh'[i].id].acked,
         pc' \in {"take", "rest"} =>
           (taking'.id \in DOMAIN w.orders => w.orders[taking'.id].leaves = taking'.qty),
         \A i \in 1..Len(quotes') :
           quotes'[i].id \in DOMAIN w.orders =>
             w.orders[quotes'[i].id].leaves = quotes'[i].leaves
  PROVE  Linked(View)'
<1>1. Paper' /\ DOMAIN resting' = {}
  BY DEF PaperStep, Paper
<1>. QED  BY <1>1 DEF Linked

LEMMA PaperAccounted ==
  ASSUME Orderly, Accounted, Paper, PaperStep, NEW e, IsReport(e, oms.next_cl_id),
         execCh' = Append(execCh, e),
         strategy # "dyn" => Apt(View, e) /\ Linked(View)',
         strategy = "market_maker" =>
           (e.kind = "Fill" => intents = <<>>) /\ PaperMaker(oms, View)'
  PROVE  Accounted'
<1>1. UNCHANGED <<strategy, gateway, oms, intents>>
  BY DEF PaperStep
<1>2. CASE strategy = "dyn"
  BY <1>1, <1>2 DEF Accounted
<1>3. CASE strategy # "dyn"
  BY <1>1, <1>3, AccountedReport
<1>. QED  BY <1>2, <1>3

LEMMA PaperOrderly ==
  ASSUME Orderly, Paper, PaperStep, NEW e, Grows(e),
         pc' \in {"market", "drain", "send", "take", "rest"},
         pc' \in {"market", "drain"} => intents = <<>>,
         orderCh' = <<>>, quotes' \in Seq(Quotes),
         IF pc' \in {"take", "rest"}
         THEN taking' \in Takings /\ Given(taking'.id) /\ taking'.id \notin QuoteIds'
         ELSE taking' = NoOrder,
         pc' = "take" => /\ taking'.tif # "PostOnly" /\ taking'.qty > 0
                         /\ TouchCrosses(taking'.side, taking'.price),
         \A i, j \in 1..Len(quotes') : quotes'[i].id = quotes'[j].id => i = j,
         \A i \in 1..Len(quotes') :
           Given(quotes'[i].id) /\ (pc' # "market" => quotes'[i].leaves > 0),
         next' \in Nat \ {0}, remaining' \in Nat
  PROVE  Orderly'
<1>1. UNCHANGED <<strategy, gateway, book, oms, intents>>
  BY DEF PaperStep
<1>2. /\ orderCh' \in Seq(Cmds) /\ News(orderCh') = {}
      /\ \A i \in 1..Len(orderCh') : Given(orderCh'[i].id)
  BY DEF News
<1>3. PaperInv'
  <2>1. DOMAIN resting' = {}
    BY DEF Orderly, PaperInv, PaperStep
  <2>2. \A id : Given(id)' <=> Given(id)
    BY <1>1 DEF Given
  <2>3. pc' = "take" => TouchCrosses(taking.side, taking.price)'
    BY <1>1 DEF TouchCrosses
  <2>4. \A i \in 1..Len(quotes') : Given(quotes[i].id)'
    BY <1>1 DEF Given
  <2>5. pc' \in {"take", "rest"} => Given(taking.id)'
    BY <1>1 DEF Given
  <2>. QED  BY <1>2, <2>1, <2>3, <2>4, <2>5 DEF PaperInv
<1>4. /\ pc' \in {"idle", "market", "drain", "book", "send", "command", "take", "rest"}
      /\ pc' \in {"idle", "market", "drain", "book"} => intents = <<>>
  OBVIOUS
<1>. QED  BY <1>1, <1>2, <1>3, <1>4, OrderlyVenue

(* The links of the paper venue's orders. *)
PaperLinks(v) ==
  /\ \A i \in News(orderCh) :
       orderCh[i].id \in DOMAIN v.orders =>
         v.orders[orderCh[i].id].leaves = orderCh[i].qty /\ ~v.orders[orderCh[i].id].acked
  /\ pc \in {"take", "rest"} =>
       (taking.id \in DOMAIN v.orders => v.orders[taking.id].leaves = taking.qty)
  /\ \A i \in 1..Len(quotes) :
       quotes[i].id \in DOMAIN v.orders =>
         v.orders[quotes[i].id].leaves = quotes[i].leaves

LEMMA PaperLinksAre ==
  ASSUME Accounted, Paper, strategy # "dyn"
  PROVE  PaperLinks(View)
<1>1. Linked(View)
  BY DEF Accounted
<1>2. PICK v : v = View
  OBVIOUS
<1>3. PaperLinks(v)
  BY <1>1, <1>2 DEF Linked, PaperLinks
<1>. QED  BY <1>2, <1>3

LEMMA PaperTouched ==
  ASSUME Orderly, Accounted, strategy # "dyn", PaperStep, NEW e,
         IsReport(e, oms.next_cl_id), Apt(View, e), execCh' = Append(execCh, e)
  PROVE  Touched(View, View', e)
<1>1. oms' = oms
  BY DEF PaperStep
<1>2. Books(oms, View, execCh)
  BY DEF Accounted
<1>. QED  BY <1>1, <1>2, ReportStep DEF Viewed

LEMMA EmptyIs ==
  ASSUME NEW S, NEW s \in Seq(S)
  PROVE  s = <<>> <=> Len(s) = 0
OBVIOUS

(* The one command the paper venue is called with. *)
TheCommand ==
  /\ PaperInv /\ taking = NoOrder
  /\ Tail(orderCh) = <<>> /\ Head(orderCh) = orderCh[1] /\ Given(orderCh[1].id)
  /\ orderCh[1].cmd = "New" => orderCh[1] \in NewCmds(1..OrderQty) /\ 1 \in News(orderCh)
  /\ News(orderCh) \subseteq {1}

LEMMA TheCommandIs ==
  ASSUME Orderly, Paper, pc = "command"
  PROVE  TheCommand
<1>1. PaperInv /\ orderCh \in Seq(Cmds) /\ Len(orderCh) = 1 /\ taking = NoOrder
  BY DEF Orderly, PaperInv
<1>2. orderCh # <<>>
  <2>1. orderCh \in Seq(Cmds) /\ Len(orderCh) = 1
    BY <1>1
  <2>2. orderCh = <<>> <=> Len(orderCh) = 0
    BY <2>1, EmptyIs
  <2>. QED  BY <2>1, <2>2
<1>3. /\ Head(orderCh) = orderCh[1] /\ orderCh[1] \in Cmds /\ 1 \in 1..Len(orderCh)
      /\ Tail(orderCh) \in Seq(Cmds) /\ Behind(Tail(orderCh), orderCh)
  BY <1>1, <1>2, TailIs
<1>4. Len(Tail(orderCh)) = 0
  BY <1>1, <1>3 DEF Behind
<1>5. Tail(orderCh) = <<>>
  BY <1>3, <1>4, EmptyIs
<1>6. Given(orderCh[1].id)
  BY <1>3 DEF Orderly
<1>7. News(orderCh) \subseteq {1}
  BY <1>1 DEF News
<1>8. orderCh[1].cmd = "New" => orderCh[1] \in NewCmds(1..OrderQty) /\ 1 \in News(orderCh)
  BY <1>3 DEF News, Cmds, NewCmds
<1>. QED  BY <1>1, <1>3, <1>5, <1>6, <1>7, <1>8 DEF TheCommand

(* A quote of the maker that is being canceled is in nobody's view, but    *)
(* for the command under way.                                              *)
LEMMA StillPaperMaker ==
  ASSUME Paper, strategy = "market_maker", Accounted, PaperStep,
         pc' \notin {"take", "book"}, News(orderCh') = {},
         DOMAIN View'.orders \subseteq DOMAIN View.orders,
         \A id \in DOMAIN View'.orders :
           ~(pc = "command" /\ orderCh[1] = Sim!CancelCmd(id))
  PROVE  PaperMaker(oms, View)'
<1>1. PaperMaker(oms, View) /\ oms' = oms
  BY DEF Accounted, MakerInv, PaperStep
<1>2. PICK v, w : v = View /\ w = View'
  OBVIOUS
<1>3. \A id \in DOMAIN w.orders \cap PendingCancels(oms) : FALSE
  BY <1>1, <1>2 DEF PaperMaker
<1>. QED  BY <1>1, <1>2, <1>3 DEF PaperMaker

LEMMA PaperRejects ==
  ASSUME Orderly, Accounted, Paper, PaperReject
  PROVE  Orderly' /\ Accounted'
<1>1. /\ TheCommand /\ orderCh' = <<>> /\ orderCh[1].cmd = "New"
      /\ pc' = "send" /\ taking' = taking /\ quotes' = quotes
      /\ UNCHANGED <<next, remaining>>
  <2>1. pc = "command" /\ Command.cmd = "New" /\ orderCh' = Tail(orderCh)
    BY DEF PaperReject
  <2>. QED  BY <2>1, TheCommandIs DEF PaperReject, TheCommand, Command,
               paperVars
<1>2. PaperStep
  BY DEF PaperReject, PaperStep
<1>3. PICK c, e : c = orderCh[1] /\ e = Rejected(c.id, "WouldCross")
  OBVIOUS
<1>4. execCh' = Append(execCh, e)
  BY <1>1, <1>3 DEF TheCommand, PaperReject, Command, Sim!Report
<1>5. e.kind = "Rejected" /\ e.id = c.id /\ e.reason = "WouldCross"
  BY <1>3 DEF Rejected
<1>6. IsReport(e, oms.next_cl_id)
  BY <1>1, <1>3, <1>5 DEF TheCommand, Given, IsReport, ReportKinds
<1>7. PaperInv /\ c.id \notin QuoteIds /\ News(orderCh') = {}
  BY <1>1, <1>3 DEF TheCommand, PaperInv, News
<1>8. Orderly'
  <2>1. Grows(e)
    BY <1>4, <1>6, ReportsGrow
  <2>2. /\ quotes' \in Seq(Quotes) /\ pc = "command"
        /\ \A i, j \in 1..Len(quotes') : quotes'[i].id = quotes'[j].id => i = j
    BY <1>1 DEF Orderly, TheCommand, PaperInv, PaperReject
  <2>3. \A i \in 1..Len(quotes') :
          Given(quotes'[i].id) /\ (pc' # "market" => quotes'[i].leaves > 0)
    BY <1>1, <2>2 DEF TheCommand, PaperInv
  <2>4. next' \in Nat \ {0} /\ remaining' \in Nat /\ taking' = NoOrder
    BY <1>1 DEF TheCommand, PaperInv
  <2>. QED  BY <1>1, <1>2, <2>1, <2>2, <2>3, <2>4, PaperOrderly
<1>9. ASSUME strategy # "dyn"
      PROVE  /\ Apt(View, e) /\ Linked(View)'
             /\ strategy = "market_maker" => PaperMaker(oms, View)'
  <2>1. PICK v, w : v = View /\ w = View'
    OBVIOUS
  <2>2. PaperLinks(v)
    BY <1>9, <2>1, PaperLinksAre
  <2>3. Apt(View, e)
    BY <1>1, <1>3, <1>5, <2>1, <2>2 DEF Apt, PaperLinks, TheCommand
  <2>4. Touched(v, w, e)
    BY <1>2, <1>4, <1>6, <1>9, <2>1, <2>3, PaperTouched
  <2>5. \A id \in DOMAIN w.orders :
          id \in DOMAIN v.orders /\ (id # c.id => w.orders[id] = v.orders[id])
    BY <1>5, <2>4 DEF Touched
  <2>6. \A i \in 1..Len(quotes') :
          quotes'[i].id \in DOMAIN w.orders =>
            w.orders[quotes'[i].id].leaves = quotes'[i].leaves
    BY <1>1, <1>7, <2>2, <2>5 DEF PaperLinks, QuoteIds
  <2>7. Linked(View)'
    BY <1>1, <1>2, <1>7, <2>1, <2>6, PaperLinked DEF PaperInv
  <2>8. \A id : orderCh[1] # Sim!CancelCmd(id)
    BY <1>1 DEF Sim!CancelCmd
  <2>9. DOMAIN View'.orders \subseteq DOMAIN View.orders
    BY <2>1, <2>5
  <2>10. strategy = "market_maker" => PaperMaker(oms, View)'
    BY <1>1, <1>2, <1>7, <2>8, <2>9, StillPaperMaker
  <2>. QED  BY <2>3, <2>7, <2>10
<1>. QED  BY <1>2, <1>4, <1>5, <1>6, <1>8, <1>9, PaperAccounted

LEMMA PaperAcks ==
  ASSUME Orderly, Accounted, Paper, PaperAck
  PROVE  Orderly' /\ Accounted'
<1>1. /\ TheCommand /\ orderCh' = <<>> /\ orderCh[1].cmd = "New"
      /\ quotes' = quotes /\ UNCHANGED <<next, remaining>> /\ pc = "command"
      /\ Command = orderCh[1]
  <2>1. pc = "command" /\ Command.cmd = "New" /\ orderCh' = Tail(orderCh)
    BY DEF PaperAck
  <2>. QED  BY <2>1, TheCommandIs DEF PaperAck, TheCommand, Command, paperVars
<1>2. PaperStep
  BY DEF PaperAck, PaperStep
<1>3. PICK c, e : c = orderCh[1] /\ e = Ack(c.id)
  OBVIOUS
<1>4. execCh' = Append(execCh, e) /\ taking' = c
  BY <1>1, <1>3 DEF PaperAck, Sim!Report
<1>5. e.kind = "Ack" /\ e.id = c.id
  BY <1>3 DEF Ack
<1>6. IsReport(e, oms.next_cl_id)
  BY <1>1, <1>3, <1>5 DEF TheCommand, Given, IsReport, ReportKinds
<1>7. /\ PaperInv /\ c.id \notin QuoteIds /\ News(orderCh') = {}
      /\ c \in NewCmds(1..OrderQty) /\ c.qty > 0
  BY <1>1, <1>3 DEF TheCommand, PaperInv, News, NewCmds
<1>8. /\ pc' \in {"take", "rest"}
      /\ pc' = "take" => c.tif # "PostOnly" /\ TouchCrosses(c.side, c.price)
  BY <1>1, <1>3 DEF PaperAck
<1>9. c \in Takings
  BY <1>7 DEF NewCmds, Takings
<1>10. Orderly'
  <2>1. Grows(e)
    BY <1>4, <1>6, ReportsGrow
  <2>2. /\ quotes' \in Seq(Quotes)
        /\ \A i, j \in 1..Len(quotes') : quotes'[i].id = quotes'[j].id => i = j
    BY <1>1 DEF Orderly, TheCommand, PaperInv
  <2>3. \A i \in 1..Len(quotes') :
          Given(quotes'[i].id) /\ (pc' # "market" => quotes'[i].leaves > 0)
    BY <1>1 DEF TheCommand, PaperInv
  <2>4. next' \in Nat \ {0} /\ remaining' \in Nat
    BY <1>1 DEF TheCommand, PaperInv
  <2>5. taking' \in Takings /\ Given(taking'.id) /\ taking'.id \notin QuoteIds'
    BY <1>1, <1>3, <1>4, <1>7, <1>9 DEF TheCommand, QuoteIds
  <2>6. pc' = "take" => /\ taking'.tif # "PostOnly" /\ taking'.qty > 0
                        /\ TouchCrosses(taking'.side, taking'.price)
    BY <1>4, <1>7, <1>8
  <2>. QED  BY <1>1, <1>2, <1>8, <2>1, <2>2, <2>3, <2>4, <2>5, <2>6,
               PaperOrderly
<1>11. ASSUME strategy # "dyn"
       PROVE  /\ Apt(View, e) /\ Linked(View)'
              /\ strategy = "market_maker" => PaperMaker(oms, View)'
  <2>1. PICK v, w : v = View /\ w = View'
    OBVIOUS
  <2>2. PaperLinks(v)
    BY <1>11, <2>1, PaperLinksAre
  <2>3. Apt(View, e)
    BY <1>5 DEF Apt, Crossed
  <2>4. Touched(v, w, e)
    BY <1>2, <1>4, <1>6, <1>11, <2>1, <2>3, PaperTouched
  <2>5. \A id \in DOMAIN w.orders :
          /\ id \in DOMAIN v.orders
          /\ id # c.id => w.orders[id] = v.orders[id]
          /\ id = c.id => w.orders[id].leaves = v.orders[id].leaves
    BY <1>5, <2>4 DEF Touched
  <2>6. \A i \in 1..Len(quotes') :
          quotes'[i].id \in DOMAIN w.orders =>
            w.orders[quotes'[i].id].leaves = quotes'[i].leaves
    BY <1>1, <1>7, <2>2, <2>5 DEF PaperLinks, QuoteIds
  <2>7. taking'.id \in DOMAIN w.orders => w.orders[taking'.id].leaves = taking'.qty
    BY <1>1, <1>3, <1>4, <2>2, <2>5 DEF PaperLinks, TheCommand
  <2>8. Linked(View)'
    BY <1>1, <1>2, <1>7, <2>1, <2>6, <2>7, PaperLinked DEF PaperInv
  <2>9. strategy = "market_maker" => PaperMaker(oms, View)'
    <3>. SUFFICES ASSUME strategy = "market_maker" PROVE PaperMaker(oms, View)'
      OBVIOUS
    <3>1. PaperMaker(oms, View)
      BY DEF Accounted, MakerInv
    <3>2. pc' = "rest"
      BY <1>1, <1>3, <1>8, <3>1 DEF PaperMaker, TheCommand
    <3>3. \A id : orderCh[1] # Sim!CancelCmd(id)
      BY <1>1 DEF Sim!CancelCmd
    <3>4. DOMAIN View'.orders \subseteq DOMAIN View.orders
      BY <2>1, <2>5
    <3>. QED  BY <1>2, <1>7, <3>2, <3>3, <3>4, StillPaperMaker
  <2>. QED  BY <2>3, <2>8, <2>9
<1>. QED  BY <1>2, <1>4, <1>5, <1>6, <1>10, <1>11, PaperAccounted

LEMMA PaperTakes ==
  ASSUME Orderly, Accounted, Paper, PaperTake
  PROVE  Orderly' /\ Accounted'
<1>1. /\ PaperInv /\ taking \in Takings /\ Given(taking.id) /\ pc = "take"
      /\ taking.id \notin QuoteIds /\ orderCh = <<>>
      /\ taking.tif # "PostOnly" /\ TouchCrosses(taking.side, taking.price)
      /\ orderCh' = <<>> /\ pc' = "rest" /\ quotes' = quotes
      /\ UNCHANGED <<next, remaining>>
  BY DEF Orderly, PaperInv, PaperTake, paperVars
<1>2. PaperStep
  BY DEF PaperTake, PaperStep
<1>3. PICK n \in 1..OrderQty : n = taking.qty
  BY <1>1 DEF Takings, NewCmds, PaperInv
<1>4. PICK touch : touch = BestLevel(book, Opposite(taking.side))
  OBVIOUS
<1>5. touch.qty \in Nat \ {0}
  <2>1. Opposite(taking.side) \in Side /\ HasBest(book, Opposite(taking.side))
    BY <1>1 DEF TouchCrosses, Takings, NewCmds, Opposite, Side
  <2>2. IsBook(book)
    BY DEF Orderly, IsBook
  <2>. QED  BY <1>4, <2>1, <2>2, BestTyped
<1>6. PICK q : q = Min({n, touch.qty})
  OBVIOUS
<1>7. q \in 1..n
  <2>1. PICK t \in Nat \ {0} : t = touch.qty
    BY <1>5
  <2>2. n \in Int /\ t \in Int /\ q = Min({n, t})
    BY <1>3, <1>6, <2>1
  <2>3. q \in {n, t} /\ q <= n
    BY <2>2, LesserIs
  <2>. QED  BY <1>3, <2>1, <2>3
<1>8. PICK m \in 0..OrderQty : m = n - q /\ n = q + m /\ q \in Nat
  BY <1>3, <1>7, StrategiesAssumption
<1>9. PICK c, e : /\ c = [taking EXCEPT !.qty = m]
                  /\ e = Fill(taking.id, touch.price, q, m)
  OBVIOUS
<1>10. c \in Takings /\ c.id = taking.id /\ c.qty = m
  BY <1>1, <1>8, <1>9 DEF Takings, NewCmds
<1>11. taking' = c /\ execCh' = Append(execCh, e)
  <2>1. taking' = [taking EXCEPT !.qty = n - q]
    BY <1>3, <1>4, <1>6 DEF PaperTake
  <2>2. taking' = c
    BY <1>8, <1>9, <2>1
  <2>3. execCh' = Append(execCh, Fill(taking.id, touch.price, q, taking'.qty))
    BY <1>3, <1>4, <1>6 DEF PaperTake, Sim!Report
  <2>. QED  BY <1>9, <1>10, <2>2, <2>3
<1>12. e.kind = "Fill" /\ e.id = taking.id /\ e.qty = q /\ e.leaves = m
  BY <1>9 DEF Fill
<1>13. IsReport(e, oms.next_cl_id)
  BY <1>1, <1>8, <1>12 DEF Given, IsReport, ReportKinds
<1>14. Orderly'
  <2>1. Grows(e)
    BY <1>11, <1>13, ReportsGrow
  <2>2. /\ quotes' \in Seq(Quotes)
        /\ \A i, j \in 1..Len(quotes') : quotes'[i].id = quotes'[j].id => i = j
    BY <1>1 DEF Orderly, PaperInv
  <2>3. \A i \in 1..Len(quotes') :
          Given(quotes'[i].id) /\ (pc' # "market" => quotes'[i].leaves > 0)
    BY <1>1 DEF PaperInv
  <2>4. next' \in Nat \ {0} /\ remaining' \in Nat
    BY <1>1 DEF PaperInv
  <2>5. taking' \in Takings /\ Given(taking'.id) /\ taking'.id \notin QuoteIds'
    BY <1>1, <1>10, <1>11 DEF QuoteIds
  <2>. QED  BY <1>1, <1>2, <2>1, <2>2, <2>3, <2>4, <2>5, PaperOrderly
<1>15. ASSUME strategy # "dyn"
       PROVE  Apt(View, e) /\ Linked(View)'
  <2>1. PICK v, w : v = View /\ w = View'
    OBVIOUS
  <2>2. PaperLinks(v)
    BY <1>15, <2>1, PaperLinksAre
  <2>3. Apt(View, e)
    BY <1>1, <1>3, <1>8, <1>12, <2>1, <2>2 DEF Apt, Crossed, PaperLinks
  <2>4. Touched(v, w, e)
    BY <1>2, <1>11, <1>13, <1>15, <2>1, <2>3, PaperTouched
  <2>5. \A id \in DOMAIN w.orders :
          /\ id \in DOMAIN v.orders
          /\ id # c.id => w.orders[id] = v.orders[id]
          /\ id = c.id => w.orders[id].leaves = m
    BY <1>10, <1>12, <2>4 DEF Touched
  <2>6. \A i \in 1..Len(quotes') :
          quotes'[i].id \in DOMAIN w.orders =>
            w.orders[quotes'[i].id].leaves = quotes'[i].leaves
    BY <1>1, <1>10, <2>2, <2>5 DEF PaperLinks, QuoteIds
  <2>7. taking'.id \in DOMAIN w.orders => w.orders[taking'.id].leaves = taking'.qty
    BY <1>10, <1>11, <2>5
  <2>8. News(orderCh') = {} /\ DOMAIN resting = {}
    BY <1>1 DEF News, PaperInv
  <2>9. Linked(View)'
    BY <1>1, <1>2, <2>1, <2>6, <2>7, <2>8, PaperLinked
  <2>. QED  BY <2>3, <2>9
<1>16. strategy # "market_maker"
  BY <1>1 DEF Accounted, MakerInv, PaperMaker
<1>. QED  BY <1>2, <1>11, <1>13, <1>14, <1>15, <1>16, PaperAccounted

LEMMA QuoteAppended ==
  ASSUME NEW s \in Seq(Quotes), NEW x \in Quotes,
         \A i, j \in 1..Len(s) : s[i].id = s[j].id => i = j,
         \A i \in 1..Len(s) : s[i].id # x.id
  PROVE  /\ Append(s, x) \in Seq(Quotes)
         /\ \A i, j \in 1..Len(Append(s, x)) :
              Append(s, x)[i].id = Append(s, x)[j].id => i = j
         /\ \A i \in 1..Len(Append(s, x)) :
              Append(s, x)[i] = x \/ \E j \in 1..Len(s) : Append(s, x)[i] = s[j]
<1>1. PICK n \in Nat : n = Len(s)
  OBVIOUS
<1>2. PICK t : t = Append(s, x)
  OBVIOUS
<1>3. /\ t \in Seq(Quotes) /\ Len(t) = n + 1 /\ t[n + 1] = x
      /\ \A i \in 1..n : t[i] = s[i]
  BY <1>1, <1>2
<1>4. \A i \in 1..(n + 1) : i = n + 1 \/ i \in 1..n
  OBVIOUS
<1>5. ASSUME NEW i \in 1..(n + 1), NEW j \in 1..(n + 1), t[i].id = t[j].id
      PROVE  i = j
  <2>1. CASE i \in 1..n /\ j \in 1..n
    BY <1>1, <1>3, <1>5, <2>1
  <2>2. CASE i = n + 1 /\ j \in 1..n
    BY <1>1, <1>3, <1>5, <2>2
  <2>3. CASE i \in 1..n /\ j = n + 1
    BY <1>1, <1>3, <1>5, <2>3
  <2>. QED  BY <1>4, <2>1, <2>2, <2>3
<1>6. \A i \in 1..(n + 1) : t[i] = x \/ \E j \in 1..n : t[i] = s[j]
  BY <1>3, <1>4
<1>. QED  BY <1>1, <1>2, <1>3, <1>5, <1>6

LEMMA PaperRests ==
  ASSUME Orderly, Accounted, Paper, PaperRest
  PROVE  Orderly' /\ Accounted'
<1>1. /\ PaperInv /\ taking \in Takings /\ Given(taking.id) /\ pc = "rest"
      /\ taking.id \notin QuoteIds /\ orderCh = <<>>
      /\ orderCh' = <<>> /\ pc' = "send" /\ taking' = NoOrder
      /\ UNCHANGED <<next, remaining>>
  BY DEF Orderly, PaperInv, PaperRest
<1>2. PaperStep
  BY DEF PaperRest, PaperStep
<1>3. PICK c, e, x : /\ c = taking /\ e = Canceled(c.id)
                     /\ x = [id |-> c.id, side |-> c.side, price |-> c.price,
                             leaves |-> c.qty]
  OBVIOUS
<1>4. /\ c.qty \in 0..OrderQty /\ x \in Quotes /\ x.id = c.id /\ x.leaves = c.qty
      /\ c.id \notin QuoteIds
  BY <1>1, <1>3 DEF Takings, NewCmds, Quotes
<1>5. \/ execCh' = execCh /\ quotes' = quotes
      \/ execCh' = execCh /\ c.qty > 0 /\ quotes' = Append(quotes, x)
      \/ execCh' = Append(execCh, e) /\ quotes' = quotes
  <2>1. CASE c.qty > 0 /\ c.tif = "Ioc"
    BY <1>3, <2>1 DEF PaperRest, Sim!Report
  <2>2. CASE c.qty > 0 /\ c.tif # "Ioc"
    BY <1>3, <2>2 DEF PaperRest
  <2>3. CASE ~(c.qty > 0)
    BY <1>3, <2>3 DEF PaperRest
  <2>. QED  BY <2>1, <2>2, <2>3
<1>6. e.kind = "Canceled" /\ e.id = c.id
  BY <1>3 DEF Canceled
<1>7. IsReport(e, oms.next_cl_id)
  BY <1>1, <1>3, <1>6 DEF Given, IsReport, ReportKinds
<1>8. /\ quotes \in Seq(Quotes)
      /\ \A i, j \in 1..Len(quotes) : quotes[i].id = quotes[j].id => i = j
      /\ \A i \in 1..Len(quotes) :
           quotes[i].id # c.id /\ Given(quotes[i].id) /\ quotes[i].leaves > 0
  BY <1>1, <1>4 DEF Orderly, PaperInv, QuoteIds
<1>9. /\ quotes' \in Seq(Quotes)
      /\ \A i, j \in 1..Len(quotes') : quotes'[i].id = quotes'[j].id => i = j
      /\ \A i \in 1..Len(quotes') :
           \/ execCh' = execCh /\ c.qty > 0 /\ quotes'[i] = x
           \/ \E j \in 1..Len(quotes) : quotes'[i] = quotes[j]
  <2>1. CASE quotes' = quotes
    BY <1>8, <2>1
  <2>2. CASE execCh' = execCh /\ c.qty > 0 /\ quotes' = Append(quotes, x)
    <3>1. \A i \in 1..Len(quotes) : quotes[i].id # x.id
      BY <1>4, <1>8
    <3>2. PICK t : t = Append(quotes, x)
      OBVIOUS
    <3>3. /\ t \in Seq(Quotes)
          /\ \A i, j \in 1..Len(t) : t[i].id = t[j].id => i = j
          /\ \A i \in 1..Len(t) : t[i] = x \/ \E j \in 1..Len(quotes) : t[i] = quotes[j]
      BY <1>4, <1>8, <3>1, <3>2, QuoteAppended
    <3>. QED  BY <2>2, <3>2, <3>3
  <2>. QED  BY <1>5, <2>1, <2>2
<1>10. Orderly'
  <2>1. Grows(e)
    BY <1>5, <1>7, ReportsGrow, ReportsSame
  <2>2. \A i \in 1..Len(quotes') :
          Given(quotes'[i].id) /\ (pc' # "market" => quotes'[i].leaves > 0)
    BY <1>1, <1>3, <1>4, <1>8, <1>9
  <2>3. next' \in Nat \ {0} /\ remaining' \in Nat
    BY <1>1 DEF PaperInv
  <2>. QED  BY <1>1, <1>2, <1>9, <2>1, <2>2, <2>3, PaperOrderly
<1>11. News(orderCh') = {} /\ DOMAIN resting = {}
  BY <1>1 DEF News, PaperInv
<1>12. ASSUME strategy # "dyn", NEW v, v = View, NEW w, w = View',
              \A id \in DOMAIN w.orders :
                 id \in DOMAIN v.orders /\ (id # c.id => w.orders[id] = v.orders[id]),
              execCh' = execCh => w = v
       PROVE  /\ Linked(View)'
              /\ strategy = "market_maker" => PaperMaker(oms, View)'
  <2>1. PaperLinks(v)
    BY <1>12, PaperLinksAre
  <2>2. \A i \in 1..Len(quotes') :
          quotes'[i].id \in DOMAIN w.orders =>
            w.orders[quotes'[i].id].leaves = quotes'[i].leaves
    <3>. SUFFICES ASSUME NEW i \in 1..Len(quotes'), quotes'[i].id \in DOMAIN w.orders
                  PROVE  w.orders[quotes'[i].id].leaves = quotes'[i].leaves
      OBVIOUS
    <3>1. CASE execCh' = execCh /\ quotes'[i] = x
      BY <1>1, <1>3, <1>4, <1>12, <2>1, <3>1 DEF PaperLinks
    <3>2. CASE \E j \in 1..Len(quotes) : quotes'[i] = quotes[j]
      BY <1>8, <1>12, <2>1, <3>2 DEF PaperLinks
    <3>. QED  BY <1>9, <3>1, <3>2
  <2>3. Linked(View)'
    BY <1>1, <1>2, <1>11, <1>12, <2>2, PaperLinked
  <2>4. DOMAIN View'.orders \subseteq DOMAIN View.orders
    BY <1>12
  <2>5. strategy = "market_maker" => PaperMaker(oms, View)'
    BY <1>1, <1>2, <1>11, <2>4, StillPaperMaker
  <2>. QED  BY <2>3, <2>5
<1>13. CASE execCh' = execCh
  <2>1. View' = View
    BY <1>2, <1>13 DEF View, PaperStep
  <2>2. strategy # "dyn" => /\ Linked(View)'
                            /\ strategy = "market_maker" => PaperMaker(oms, View)'
    BY <1>12, <2>1
  <2>3. UNCHANGED <<strategy, gateway, oms, intents, execCh>>
    BY <1>2, <1>13 DEF PaperStep
  <2>. QED  BY <1>10, <2>2, <2>3, AccountedSame
<1>14. CASE execCh' = Append(execCh, e) /\ execCh' # execCh
  <2>1. strategy # "dyn" => Apt(View, e)
    BY <1>6 DEF Apt, Crossed
  <2>2. ASSUME strategy # "dyn"
        PROVE  /\ Linked(View)'
               /\ strategy = "market_maker" => PaperMaker(oms, View)'
    <3>1. PICK v, w : v = View /\ w = View'
      OBVIOUS
    <3>2. Touched(v, w, e)
      BY <1>2, <1>7, <1>14, <2>1, <2>2, <3>1, PaperTouched
    <3>3. \A id \in DOMAIN w.orders :
             id \in DOMAIN v.orders /\ (id # c.id => w.orders[id] = v.orders[id])
      BY <1>6, <3>2 DEF Touched
    <3>. QED  BY <1>12, <1>14, <2>2, <3>1, <3>3
  <2>. QED  BY <1>2, <1>6, <1>7, <1>10, <1>14, <2>1, <2>2, PaperAccounted
<1>. QED  BY <1>5, <1>13, <1>14
(* The orders that are retained, one after the other. *)
Sieve(r, a) ==
  a = [i \in 0..Len(r) |-> IF i = 0 THEN <<>> ELSE Keep(a[i-1], r[i])]

LEMMA SieveExists ==
  ASSUME NEW S, NEW r \in Seq(S)
  PROVE  \E a : Sieve(r, a)
<1>. DEFINE Up(k) == \E a : a = [i \in 0..k |-> IF i = 0 THEN <<>>
                                              ELSE Keep(a[i-1], r[i])]
            T == {k \in 0..Len(r) : ~Up(k)}
<1>1. Len(r) \in Nat
  OBVIOUS
<1>2. Up(0)
  <2>1. PICK a : a = [i \in 0..0 |-> <<>>]
    OBVIOUS
  <2>2. \A i \in 0..0 : i = 0
    OBVIOUS
  <2>3. a = [i \in 0..0 |-> IF i = 0 THEN <<>> ELSE Keep(a[i-1], r[i])]
    BY <2>1, <2>2
  <2>. QED  BY <2>3
<1>3. ASSUME NEW k \in Nat, Up(k) PROVE Up(k + 1)
  <2>1. PICK a : a = [i \in 0..k |-> IF i = 0 THEN <<>> ELSE Keep(a[i-1], r[i])]
    BY <1>3
  <2>2. PICK b : b = [i \in 0..(k + 1) |-> IF i = k + 1 THEN Keep(a[k], r[k + 1])
                                           ELSE a[i]]
    OBVIOUS
  <2>3. ASSUME NEW i \in 0..(k + 1)
        PROVE  b[i] = IF i = 0 THEN <<>> ELSE Keep(b[i-1], r[i])
    <3>1. CASE i = k + 1
      <4>1. i # 0 /\ i - 1 = k /\ k \in 0..(k + 1) /\ k # k + 1
        BY <3>1
      <4>. QED  BY <2>2, <3>1, <4>1
    <3>2. CASE i = 0
      <4>1. 0 \in 0..k /\ 0 # k + 1
        OBVIOUS
      <4>. QED  BY <2>1, <2>2, <3>2, <4>1
    <3>3. CASE i # 0 /\ i # k + 1
      <4>1. i \in 0..k /\ i - 1 \in 0..(k + 1) /\ i - 1 # k + 1
        BY <3>3
      <4>2. b[i] = a[i] /\ b[i-1] = a[i-1]
        BY <2>2, <3>3, <4>1
      <4>3. a[i] = Keep(a[i-1], r[i])
        BY <2>1, <3>3, <4>1
      <4>. QED  BY <3>3, <4>2, <4>3
    <3>. QED  BY <3>1, <3>2, <3>3
  <2>4. b = [i \in 0..(k + 1) |-> IF i = 0 THEN <<>> ELSE Keep(b[i-1], r[i])]
    <3>1. b = [i \in 0..(k + 1) |-> b[i]]
      BY <2>2
    <3>. QED  BY <2>3, <3>1
  <2>. QED  BY <2>4
<1>. HIDE DEF Up
<1>4. T = {}
  <2>. SUFFICES ASSUME T # {} PROVE FALSE
    OBVIOUS
  <2>1. PICK m \in T : \A k \in T : m <= k
    <3>1. T \in SUBSET Nat
      BY <1>1
    <3>. HIDE DEF T
    <3>. QED  BY <3>1, LeastNat
  <2>2. m \in 0..Len(r) /\ ~Up(m) /\ m # 0
    BY <1>2
  <2>3. m - 1 \in 0..Len(r) /\ m - 1 \in Nat /\ ~(m <= m - 1)
    BY <1>1, <2>2
  <2>4. Up(m - 1)
    BY <2>1, <2>3
  <2>5. Up(m - 1 + 1) /\ m - 1 + 1 = m
    BY <1>3, <2>2, <2>3, <2>4
  <2>. QED  BY <2>2, <2>5
<1>5. Up(Len(r))
  BY <1>1, <1>4
<1>. QED  BY <1>5 DEF Up, Sieve

LEMMA SieveIs ==
  ASSUME NEW S, NEW r \in Seq(S)
  PROVE  \E a : Sieve(r, a) /\ Retained(r) = a[Len(r)]
<1>. DEFINE kept == CHOOSE a : Sieve(r, a)
<1>1. Sieve(r, kept)
  BY SieveExists
<1>2. Retained(r) = kept[Len(r)]
  BY DEF Retained, Sieve
<1>. QED  BY <1>1, <1>2

LEMMA SieveSteps ==
  ASSUME NEW r, NEW a, Sieve(r, a), Len(r) \in Nat
  PROVE  /\ a[0] = <<>>
         /\ \A i \in 1..Len(r) : a[i] = Keep(a[i-1], r[i])
<1>1. a = [i \in 0..Len(r) |-> IF i = 0 THEN <<>> ELSE Keep(a[i-1], r[i])]
  BY DEF Sieve
<1>2. \A i \in 1..Len(r) : i \in 0..Len(r) /\ i # 0
  OBVIOUS
<1>3. 0 \in 0..Len(r)
  OBVIOUS
<1>. QED  BY <1>1, <1>2, <1>3

(* Of the first k orders of s, those of t are retained, the others filled. *)
Sieved(t, s, k) ==
  /\ t \in Seq(Quotes)
  /\ \A i, j \in 1..Len(t) : t[i].id = t[j].id => i = j
  /\ \A i \in 1..Len(t) : t[i].leaves > 0 /\ \E j \in 1..k : t[i] = s[j]
  /\ \A j \in 1..k : s[j].leaves > 0 => \E i \in 1..Len(t) : t[i] = s[j]

LEMMA SieveKeeps ==
  ASSUME NEW s \in Seq(Quotes), NEW k \in 1..Len(s),
         \A i, j \in 1..Len(s) : s[i].id = s[j].id => i = j,
         NEW t, Sieved(t, s, k - 1)
  PROVE  Sieved(Keep(t, s[k]), s, k)
<1>1. PICK x \in Quotes : x = s[k]
  OBVIOUS
<1>2. PICK n \in Nat : n = Len(s)
  OBVIOUS
<1>3. \A j \in 1..(k - 1) : j \in 1..k /\ j \in 1..n /\ j # k
  BY <1>2
<1>4. k \in 1..k /\ k \in 1..n
  BY <1>2
<1>5. /\ t \in Seq(Quotes)
      /\ \A i, j \in 1..Len(t) : t[i].id = t[j].id => i = j
      /\ \A i \in 1..Len(t) :
           t[i].leaves > 0 /\ \E j \in 1..(k - 1) : t[i] = s[j]
      /\ \A j \in 1..(k - 1) :
           s[j].leaves > 0 => \E i \in 1..Len(t) : t[i] = s[j]
      /\ \A j \in 1..k : j \in 1..(k - 1) \/ j = k
  BY DEF Sieved
<1>6. CASE x.leaves > 0
  <2>1. PICK u : u = Append(t, x)
    OBVIOUS
  <2>2. \A i \in 1..Len(t) : t[i].id # x.id
    BY <1>1, <1>2, <1>3, <1>4, <1>5
  <2>3. /\ u \in Seq(Quotes)
        /\ \A i, j \in 1..Len(u) : u[i].id = u[j].id => i = j
        /\ \A i \in 1..Len(u) : u[i] = x \/ \E j \in 1..Len(t) : u[i] = t[j]
    BY <1>5, <2>1, <2>2, QuoteAppended
  <2>4. \A i \in 1..Len(u) : u[i].leaves > 0 /\ \E j \in 1..k : u[i] = s[j]
    <3>. SUFFICES ASSUME NEW i \in 1..Len(u)
                  PROVE  u[i].leaves > 0 /\ \E j \in 1..k : u[i] = s[j]
      OBVIOUS
    <3>1. CASE u[i] = x
      BY <1>1, <1>4, <1>6, <3>1
    <3>2. CASE \E j \in 1..Len(t) : u[i] = t[j]
      BY <1>3, <1>5, <3>2
    <3>. QED  BY <2>3, <3>1, <3>2
  <2>5. Keep(t, s[k]) = u
    BY <1>1, <1>6, <2>1 DEF Keep
  <2>6. \A j \in 1..k : s[j].leaves > 0 => \E i \in 1..Len(u) : u[i] = s[j]
    <3>1. PICK m \in Nat : m = Len(t)
      BY <1>5
    <3>2. /\ Len(u) = m + 1 /\ m + 1 \in 1..(m + 1) /\ u[m + 1] = x
          /\ \A i \in 1..m : i \in 1..(m + 1) /\ u[i] = t[i]
      BY <1>5, <2>1, <3>1
    <3>. QED  BY <1>1, <1>5, <3>1, <3>2
  <2>. QED  BY <2>3, <2>4, <2>5, <2>6 DEF Sieved
<1>7. CASE ~(x.leaves > 0)
  <2>1. Keep(t, s[k]) = t
    BY <1>1, <1>7 DEF Keep
  <2>2. \A i \in 1..Len(t) : t[i].leaves > 0 /\ \E j \in 1..k : t[i] = s[j]
    BY <1>3, <1>5
  <2>3. \A j \in 1..k : s[j].leaves > 0 => \E i \in 1..Len(t) : t[i] = s[j]
    BY <1>1, <1>5, <1>7
  <2>. QED  BY <1>5, <2>1, <2>2, <2>3 DEF Sieved
<1>. QED  BY <1>6, <1>7

LEMMA RetainedIs ==
  ASSUME NEW s \in Seq(Quotes),
         \A i, j \in 1..Len(s) : s[i].id = s[j].id => i = j
  PROVE  Sieved(Retained(s), s, Len(s))
<1>1. PICK n \in Nat : n = Len(s)
  OBVIOUS
<1>2. PICK a : Sieve(s, a) /\ Retained(s) = a[n]
  BY <1>1, SieveIs
<1>3. a[0] = <<>> /\ \A i \in 1..n : a[i] = Keep(a[i-1], s[i])
  BY <1>1, <1>2, SieveSteps
<1>. DEFINE T == {k \in 0..n : ~Sieved(a[k], s, k)}
<1>4. Sieved(a[0], s, 0)
  <2>1. <<>> \in Seq(Quotes) /\ Len(<<>>) = 0
    OBVIOUS
  <2>. QED  BY <1>3, <2>1 DEF Sieved
<1>5. T = {}
  <2>. SUFFICES ASSUME T # {} PROVE FALSE
    OBVIOUS
  <2>1. PICK m \in T : \A k \in T : m <= k
    <3>1. T \in SUBSET Nat
      BY <1>1
    <3>. HIDE DEF T
    <3>. QED  BY <3>1, LeastNat
  <2>2. m \in 0..n /\ ~Sieved(a[m], s, m) /\ m # 0
    BY <1>4
  <2>3. m - 1 \in 0..n /\ m \in 1..n /\ ~(m <= m - 1)
    BY <1>1, <2>2
  <2>4. Sieved(a[m-1], s, m - 1)
    BY <2>1, <2>3
  <2>5. Sieved(Keep(a[m-1], s[m]), s, m)
    BY <1>1, <2>3, <2>4, SieveKeeps
  <2>. QED  BY <1>3, <2>2, <2>3, <2>5
<1>6. n \in 0..n
  BY <1>1
<1>. QED  BY <1>1, <1>2, <1>5, <1>6

(* A sequence of quotes with the last one in the place of one that goes.   *)
Swapped(t, s, id) ==
  /\ t \in Seq(Quotes)
  /\ \A i, j \in 1..Len(t) : t[i].id = t[j].id => i = j
  /\ \A i \in 1..Len(t) :
       t[i].id # id /\ \E j \in 1..Len(s) : t[i] = s[j]
  /\ \A j \in 1..Len(s) : s[j].id # id => \E i \in 1..Len(t) : t[i] = s[j]

LEMMA SwapRemoved ==
  ASSUME NEW s \in Seq(Quotes), NEW k \in 1..Len(s),
         \A i, j \in 1..Len(s) : s[i].id = s[j].id => i = j
  PROVE  Swapped(SwapRemove(s, k), s, s[k].id)
<1>1. PICK n \in Nat \ {0} : n = Len(s) /\ k \in 1..n
  OBVIOUS
<1>2. PICK t : t = SwapRemove(s, k)
  OBVIOUS
<1>3. t = [j \in 1..(n - 1) |-> IF j = k THEN s[n] ELSE s[j]]
  BY <1>1, <1>2 DEF SwapRemove
<1>4. PICK h : h = [j \in 1..(n - 1) |-> IF j = k THEN n ELSE j]
  OBVIOUS
<1>5. \A i \in 1..(n - 1) : h[i] \in 1..n /\ h[i] # k /\ t[i] = s[h[i]]
  <2>. SUFFICES ASSUME NEW i \in 1..(n - 1)
                PROVE  h[i] \in 1..n /\ h[i] # k /\ t[i] = s[h[i]]
    OBVIOUS
  <2>1. CASE i = k
    BY <1>1, <1>3, <1>4, <2>1
  <2>2. CASE i # k
    BY <1>1, <1>3, <1>4, <2>2
  <2>. QED  BY <2>1, <2>2
<1>6. \A i, j \in 1..(n - 1) : h[i] = h[j] => i = j
  BY <1>1, <1>4
<1>7. t \in Seq(Quotes) /\ Len(t) = n - 1
  <2>1. \A i \in 1..(n - 1) : t[i] \in Quotes
    BY <1>1, <1>5
  <2>. QED  BY <1>1, <1>3, <2>1
<1>8. ASSUME NEW i \in 1..(n - 1), NEW j \in 1..(n - 1), t[i].id = t[j].id
      PROVE  i = j
  <2>1. h[i] \in 1..n /\ h[j] \in 1..n /\ s[h[i]].id = s[h[j]].id
    BY <1>5, <1>8
  <2>2. h[i] = h[j]
    BY <1>1, <2>1
  <2>. QED  BY <1>6, <2>2
<1>9. \A i \in 1..(n - 1) : t[i].id # s[k].id /\ \E j \in 1..n : t[i] = s[j]
  BY <1>1, <1>5
<1>10. Len(t) = n - 1 /\ Len(s) = n
  BY <1>1, <1>7
<1>11. ASSUME NEW j \in 1..n, s[j].id # s[k].id
       PROVE  \E i \in 1..(n - 1) : t[i] = s[j]
  <2>1. j # k
    BY <1>11
  <2>2. CASE j = n
    <3>1. k \in 1..(n - 1) /\ h[k] = n
      BY <1>1, <1>4, <2>1, <2>2
    <3>. QED  BY <1>5, <2>2, <3>1
  <2>3. CASE j # n
    <3>1. j \in 1..(n - 1) /\ h[j] = j
      BY <1>1, <1>4, <2>1, <2>3
    <3>. QED  BY <1>5, <3>1
  <2>. QED  BY <2>2, <2>3
<1>12. \A i, j \in 1..Len(t) : t[i].id = t[j].id => i = j
  BY <1>8, <1>10
<1>13. \A i \in 1..Len(t) :
         t[i].id # s[k].id /\ \E j \in 1..Len(s) : t[i] = s[j]
  BY <1>9, <1>10
<1>14. \A j \in 1..Len(s) :
         s[j].id # s[k].id => \E i \in 1..Len(t) : t[i] = s[j]
  BY <1>10, <1>11
<1>. QED  BY <1>2, <1>7, <1>12, <1>13, <1>14 DEF Swapped

LEMMA SingleMin ==
  ASSUME NEW T, NEW k \in Int, T = {k}
  PROVE  Min(T) = k
<1>1. T = {k, k}
  OBVIOUS
<1>2. Min({k, k}) \in {k, k}
  BY LesserIs
<1>. QED  BY <1>1, <1>2

(* Whatever is reported of the quote, it is no longer there. *)
LEMMA PaperCancels ==
  ASSUME Orderly, Accounted, Paper, PaperCancel
  PROVE  Orderly' /\ Accounted'
<1>1. /\ TheCommand /\ orderCh' = <<>> /\ orderCh[1].cmd = "Cancel"
      /\ pc' = "send" /\ taking' = taking /\ pc = "command"
      /\ UNCHANGED <<next, remaining>> /\ Command = orderCh[1]
  <2>1. pc = "command" /\ Command.cmd = "Cancel" /\ orderCh' = Tail(orderCh)
    BY DEF PaperCancel
  <2>. QED  BY <2>1, TheCommandIs DEF PaperCancel, TheCommand, Command
<1>2. PaperStep
  BY DEF PaperCancel, PaperStep
<1>3. PICK c : c = orderCh[1].id
  OBVIOUS
<1>4. PICK Found : Found = {i \in 1..Len(quotes) : quotes[i].id = c}
  OBVIOUS
<1>5. /\ quotes \in Seq(Quotes)
      /\ \A i, j \in 1..Len(quotes) : quotes[i].id = quotes[j].id => i = j
      /\ \A i \in 1..Len(quotes) : Given(quotes[i].id) /\ quotes[i].leaves > 0
  BY <1>1 DEF Orderly, TheCommand, PaperInv
<1>6. DOMAIN quotes = 1..Len(quotes)
  BY <1>5
<1>7. /\ Found = {} => /\ execCh' = Append(execCh, Rejected(c, "UnknownOrder"))
                       /\ quotes' = quotes
      /\ Found # {} => /\ execCh' = Append(execCh, Canceled(c))
                       /\ quotes' = SwapRemove(quotes, Min(Found))
  BY <1>1, <1>3, <1>4, <1>6 DEF PaperCancel, Sim!Report
<1>8. \E e : /\ execCh' = Append(execCh, e) /\ e.id = c
             /\ e.kind \in {"Canceled", "Rejected"}
             /\ e.kind = "Rejected" => e.reason = "UnknownOrder"
  <2>1. CASE Found = {}
    BY <1>7, <2>1 DEF Rejected
  <2>2. CASE Found # {}
    BY <1>7, <2>2 DEF Canceled
  <2>. QED  BY <2>1, <2>2
<1>9. PICK e : /\ execCh' = Append(execCh, e) /\ e.id = c
               /\ e.kind \in {"Canceled", "Rejected"}
               /\ e.kind = "Rejected" => e.reason = "UnknownOrder"
  BY <1>8
<1>10. /\ quotes' \in Seq(Quotes)
       /\ \A i, j \in 1..Len(quotes') : quotes'[i].id = quotes'[j].id => i = j
       /\ \A i \in 1..Len(quotes') : \E j \in 1..Len(quotes) : quotes'[i] = quotes[j]
  <2>1. CASE Found = {}
    BY <1>5, <1>7, <2>1
  <2>2. CASE Found # {}
    <3>1. PICK k \in Found : TRUE
      BY <2>2
    <3>2. Found = {k} /\ k \in Int /\ k \in 1..Len(quotes)
      BY <1>4, <1>5
    <3>3. Min(Found) = k
      BY <3>2, SingleMin
    <3>4. PICK t : t = SwapRemove(quotes, k)
      OBVIOUS
    <3>5. quotes' = t
      BY <1>7, <2>2, <3>3, <3>4
    <3>6. Swapped(t, quotes, quotes[k].id)
      BY <1>5, <3>2, <3>4, SwapRemoved
    <3>7. /\ t \in Seq(Quotes)
          /\ \A i, j \in 1..Len(t) : t[i].id = t[j].id => i = j
          /\ \A i \in 1..Len(t) : \E j \in 1..Len(quotes) : t[i] = quotes[j]
      BY <3>6 DEF Swapped
    <3>. QED  BY <3>5, <3>7
  <2>. QED  BY <2>1, <2>2
<1>11. IsReport(e, oms.next_cl_id)
  BY <1>1, <1>3, <1>9 DEF TheCommand, Given, IsReport, ReportKinds
<1>12. PaperInv /\ News(orderCh') = {} /\ taking = NoOrder
  BY <1>1 DEF TheCommand, News
<1>13. Orderly'
  <2>1. Grows(e)
    BY <1>9, <1>11, ReportsGrow
  <2>2. \A i \in 1..Len(quotes') :
          Given(quotes'[i].id) /\ (pc' # "market" => quotes'[i].leaves > 0)
    BY <1>5, <1>10
  <2>3. next' \in Nat \ {0} /\ remaining' \in Nat
    BY <1>1, <1>12 DEF PaperInv
  <2>. QED  BY <1>1, <1>2, <1>10, <1>12, <2>1, <2>2, <2>3, PaperOrderly
<1>14. ASSUME strategy # "dyn"
       PROVE  /\ Apt(View, e) /\ Linked(View)'
              /\ strategy = "market_maker" => PaperMaker(oms, View)'
  <2>1. PICK v, w : v = View /\ w = View'
    OBVIOUS
  <2>2. PaperLinks(v)
    BY <1>14, <2>1, PaperLinksAre
  <2>3. Apt(View, e)
    BY <1>9 DEF Apt, Crossed
  <2>4. Touched(v, w, e)
    BY <1>2, <1>9, <1>11, <1>14, <2>1, <2>3, PaperTouched
  <2>5. \A id \in DOMAIN w.orders :
          id # c /\ id \in DOMAIN v.orders /\ w.orders[id] = v.orders[id]
    BY <1>9, <2>4 DEF Touched, Gone
  <2>6. \A i \in 1..Len(quotes') :
          quotes'[i].id \in DOMAIN w.orders =>
            w.orders[quotes'[i].id].leaves = quotes'[i].leaves
    BY <1>10, <2>2, <2>5 DEF PaperLinks
  <2>7. Linked(View)'
    BY <1>1, <1>2, <1>12, <2>1, <2>6, PaperLinked DEF PaperInv
  <2>8. \A id \in DOMAIN View'.orders : orderCh[1] # Sim!CancelCmd(id)
    BY <1>3, <2>1, <2>5 DEF Sim!CancelCmd
  <2>9. DOMAIN View'.orders \subseteq DOMAIN View.orders
    BY <2>1, <2>5
  <2>10. strategy = "market_maker" => PaperMaker(oms, View)'
    BY <1>1, <1>2, <1>12, <2>8, <2>9, StillPaperMaker
  <2>. QED  BY <2>3, <2>7, <2>10
<1>. QED  BY <1>2, <1>9, <1>11, <1>13, <1>14, PaperAccounted

(* What a message fills of an order. *)
LEMMA FillOfIs ==
  ASSUME NEW o, o.leaves \in Nat, remaining \in Nat
  PROVE  /\ FillOf(o) \in 0..o.leaves
         /\ md.kind = "Trade" => FillOf(o) <= remaining
<1>1. PICK n \in Nat, m \in Nat : n = o.leaves /\ m = remaining
  OBVIOUS
<1>2. PICK q : q = Min({n, m})
  OBVIOUS
<1>3. n = o.leaves /\ m = remaining /\ q = Min({n, m})
  BY <1>1, <1>2
<1>4. q \in {n, m} /\ q <= n /\ q <= m
  BY <1>3, LesserIs
<1>5. q \in 0..n /\ 0 \in 0..n /\ n \in 0..n
  BY <1>3, <1>4
<1>6. CASE md.kind = "Trade"
  <2>1. FillOf(o) = q \/ FillOf(o) = 0
    BY <1>3, <1>6 DEF FillOf
  <2>. QED  BY <1>3, <1>4, <1>5, <2>1
<1>7. CASE md.kind # "Trade" /\ final
  <2>1. FillOf(o) = n \/ FillOf(o) = 0
    BY <1>3, <1>7 DEF FillOf
  <2>. QED  BY <1>3, <1>5, <1>7, <2>1
<1>8. CASE md.kind # "Trade" /\ ~final
  <2>1. FillOf(o) = 0
    BY <1>8 DEF FillOf
  <2>. QED  BY <1>3, <1>5, <1>8, <2>1
<1>. QED  BY <1>6, <1>7, <1>8

(* A quote that is filled in part. *)
Once(s) == \A i, j \in 1..Len(s) : s[i].id = s[j].id => i = j
Partly(t, s, k, q) ==
  /\ t \in Seq(Quotes) /\ Len(t) = Len(s)
  /\ \A i, j \in 1..Len(t) : t[i].id = t[j].id => i = j
  /\ \A i \in 1..Len(t) : t[i].id = s[i].id /\ (i # k => t[i] = s[i])
  /\ t[k].leaves = s[k].leaves - q

LEMMA QuoteFilled ==
  ASSUME NEW s \in Seq(Quotes), NEW k \in 1..Len(s), NEW q \in 0..s[k].leaves,
         Once(s)
  PROVE  Partly([s EXCEPT ![k].leaves = @ - q], s, k, q)
<1>1. PICK t : t = [s EXCEPT ![k].leaves = @ - q]
  OBVIOUS
<1>2. PICK n \in Nat : n = Len(s) /\ k \in 1..n
  OBVIOUS
<1>3. PICK x : x = s[k]
  OBVIOUS
<1>4. PICK m \in 0..OrderQty : m = x.leaves - q
  <2>1. s[k] \in Quotes
    OBVIOUS
  <2>2. s[k].leaves \in 0..OrderQty
    BY <2>1 DEF Quotes
  <2>3. s[k].leaves - q \in 0..OrderQty
    BY <2>2, StrategiesAssumption
  <2>. QED  BY <1>3, <2>3
<1>5. x = s[k] /\ m = x.leaves - q /\ x \in Quotes
  BY <1>3, <1>4
<1>6. PICK y : y = [x EXCEPT !.leaves = m]
  OBVIOUS
<1>7. y \in Quotes /\ y.id = x.id /\ y.leaves = m
  BY <1>5, <1>6 DEF Quotes
<1>8. t = [s EXCEPT ![k] = y]
  BY <1>5, <1>6, <1>1
<1>9. /\ t \in Seq(Quotes) /\ Len(t) = n /\ t[k] = y
      /\ \A i \in 1..n : i # k => t[i] = s[i]
  BY <1>2, <1>7, <1>8
<1>10. \A i \in 1..n : t[i].id = s[i].id
  BY <1>5, <1>7, <1>9
<1>11. \A i, j \in 1..n : t[i].id = t[j].id => i = j
  BY <1>2, <1>10 DEF Once
<1>12. Partly(t, s, k, q)
  BY <1>2, <1>5, <1>7, <1>9, <1>10, <1>11 DEF Partly
<1>. QED  BY <1>1, <1>12

(* The first of the orders that are filled. *)
LEMMA FirstFilling ==
  ASSUME Orderly, Paper, pc = "market", Filling # {}
  PROVE  \E k \in 1..Len(quotes) :
           k = Min(Filling) /\ FillOf(quotes[k]) > 0
<1>1. quotes \in Seq(Quotes) /\ next \in Nat \ {0}
  BY DEF Orderly, PaperInv
<1>2. PICK T : T = Filling
  OBVIOUS
<1>3. \A i \in T : i \in Nat /\ i \in 1..Len(quotes) /\ FillOf(quotes[i]) > 0
  BY <1>1, <1>2 DEF Filling
<1>4. T \in SUBSET Nat /\ T # {}
  BY <1>2, <1>3
<1>5. \E m \in T : \A k \in T : m <= k
  BY <1>4, LeastNat
<1>6. Min(T) \in T
  BY <1>5 DEF Min
<1>. QED  BY <1>2, <1>3, <1>6

LEMMA PaperFills ==
  ASSUME Orderly, Accounted, Paper, FillResting
  PROVE  Orderly' /\ Accounted'
<1>1. /\ PaperInv /\ pc = "market" /\ pc' = pc /\ orderCh = <<>> /\ orderCh' = <<>>
      /\ taking = NoOrder /\ taking' = NoOrder /\ intents = <<>>
      /\ remaining \in Nat /\ Filling # {}
  BY DEF FillResting, Orderly, PaperInv
<1>2. PaperStep
  BY DEF FillResting, PaperStep
<1>3. PICK k \in 1..Len(quotes) : k = Min(Filling) /\ FillOf(quotes[k]) > 0
  BY <1>1, FirstFilling
<1>4. PICK o : o = quotes[k]
  OBVIOUS
<1>5. /\ quotes \in Seq(Quotes) /\ o \in Quotes
      /\ \A i, j \in 1..Len(quotes) : quotes[i].id = quotes[j].id => i = j
      /\ \A i \in 1..Len(quotes) : Given(quotes[i].id)
  BY <1>1, <1>3, <1>4 DEF Orderly, PaperInv
<1>6. o.leaves \in 0..OrderQty /\ OrderQty \in Nat
  BY <1>5, StrategiesAssumption DEF Quotes
<1>7. o.leaves \in Nat
  BY <1>6
<1>8. PICK q \in 0..o.leaves : q = FillOf(o)
  BY <1>1, <1>7, FillOfIs
<1>9. md.kind = "Trade" => q <= remaining
  BY <1>1, <1>7, <1>8, FillOfIs
<1>10. PICK m \in 0..OrderQty : m = o.leaves - q /\ o.leaves = q + m /\ q \in Nat
  BY <1>6, <1>8
<1>11. PICK e : e = Fill(o.id, o.price, q, m)
  OBVIOUS
<1>12. /\ execCh' = Append(execCh, e) /\ next' = k + 1
       /\ quotes' = [quotes EXCEPT ![k].leaves = @ - q]
       /\ remaining' = IF md.kind = "Trade" THEN remaining - q ELSE remaining
  BY <1>3, <1>4, <1>8, <1>10, <1>11 DEF FillResting, Sim!Report
<1>13. e.kind = "Fill" /\ e.id = o.id /\ e.qty = q /\ e.leaves = m
  BY <1>11 DEF Fill
<1>14. IsReport(e, oms.next_cl_id) /\ Given(o.id)
  BY <1>3, <1>4, <1>5, <1>10, <1>13 DEF Given, IsReport, ReportKinds
<1>15. PICK t : t = quotes'
  OBVIOUS
<1>16. t = [quotes EXCEPT ![k].leaves = @ - q] /\ q \in 0..quotes[k].leaves
  BY <1>4, <1>12, <1>15
<1>17. /\ t \in Seq(Quotes) /\ Len(t) = Len(quotes)
       /\ \A i, j \in 1..Len(t) : t[i].id = t[j].id => i = j
       /\ \A i \in 1..Len(t) : t[i].id = quotes[i].id /\ (i # k => t[i] = quotes[i])
       /\ t[k].leaves = quotes[k].leaves - q
  <2>1. Once(quotes)
    BY <1>5 DEF Once
  <2>2. Partly([quotes EXCEPT ![k].leaves = @ - q], quotes, k, q)
    BY <1>5, <1>16, <2>1, QuoteFilled
  <2>3. Partly(t, quotes, k, q)
    BY <1>16, <2>2
  <2>. QED  BY <2>3 DEF Partly
<1>18. Orderly'
  <2>1. Grows(e)
    BY <1>12, <1>14, ReportsGrow
  <2>2. /\ quotes' \in Seq(Quotes)
        /\ \A i, j \in 1..Len(quotes') : quotes'[i].id = quotes'[j].id => i = j
    BY <1>15, <1>17
  <2>3. \A i \in 1..Len(quotes') :
          Given(quotes'[i].id) /\ (pc' # "market" => quotes'[i].leaves > 0)
    BY <1>1, <1>5, <1>15, <1>17
  <2>4. next' \in Nat \ {0} /\ remaining' \in Nat
    BY <1>1, <1>3, <1>9, <1>10, <1>12
  <2>. QED  BY <1>1, <1>2, <2>1, <2>2, <2>3, <2>4, PaperOrderly
<1>19. ASSUME strategy # "dyn"
       PROVE  /\ Apt(View, e) /\ Linked(View)'
              /\ strategy = "market_maker" => PaperMaker(oms, View)'
  <2>1. PICK v, w : v = View /\ w = View'
    OBVIOUS
  <2>2. PaperLinks(v)
    BY <1>19, <2>1, PaperLinksAre
  <2>3. Apt(View, e)
    BY <1>3, <1>4, <1>10, <1>13, <2>1, <2>2 DEF Apt, Crossed, PaperLinks
  <2>4. Touched(v, w, e)
    BY <1>2, <1>12, <1>14, <1>19, <2>1, <2>3, PaperTouched
  <2>5. \A id \in DOMAIN w.orders :
          /\ id \in DOMAIN v.orders
          /\ id # o.id => w.orders[id] = v.orders[id]
          /\ id = o.id => w.orders[id].leaves = m
    BY <1>13, <2>4 DEF Touched
  <2>6. \A i \in 1..Len(quotes') :
          quotes'[i].id \in DOMAIN w.orders =>
            w.orders[quotes'[i].id].leaves = quotes'[i].leaves
    <3>. SUFFICES ASSUME NEW i \in 1..Len(t), t[i].id \in DOMAIN w.orders
                  PROVE  w.orders[t[i].id].leaves = t[i].leaves
      BY <1>15
    <3>1. CASE i = k
      BY <1>4, <1>10, <1>17, <2>5, <3>1
    <3>2. CASE i # k
      <4>1. /\ i \in 1..Len(quotes) /\ t[i] = quotes[i]
            /\ quotes[i].id # o.id
        BY <1>3, <1>4, <1>5, <1>17, <3>2
      <4>. QED  BY <2>2, <2>5, <4>1 DEF PaperLinks
    <3>. QED  BY <3>1, <3>2
  <2>7. News(orderCh') = {} /\ DOMAIN resting = {} /\ pc' \notin {"take", "rest"}
    BY <1>1 DEF News, PaperInv
  <2>8. Linked(View)'
    BY <1>1, <1>2, <2>1, <2>6, <2>7, PaperLinked
  <2>9. DOMAIN View'.orders \subseteq DOMAIN View.orders
    BY <2>1, <2>5
  <2>10. strategy = "market_maker" => PaperMaker(oms, View)'
    BY <1>1, <1>2, <2>7, <2>9, StillPaperMaker
  <2>. QED  BY <2>3, <2>8, <2>10
<1>. QED  BY <1>1, <1>2, <1>12, <1>14, <1>18, <1>19, PaperAccounted

LEMMA PaperRetains ==
  ASSUME Orderly, Accounted, Paper, Retain
  PROVE  Orderly' /\ Accounted'
<1>1. /\ PaperInv /\ pc = "market" /\ pc' = "drain" /\ orderCh = <<>> /\ orderCh' = <<>>
      /\ taking = NoOrder /\ taking' = NoOrder /\ intents = <<>>
      /\ execCh' = execCh /\ next' = 1 /\ remaining' = 0
  BY DEF Retain, Orderly, PaperInv, venueVars
<1>2. PaperStep
  BY DEF Retain, PaperStep, venueVars
<1>3. PICK t : t = Retained(quotes)
  OBVIOUS
<1>4. quotes' = t
  BY <1>3 DEF Retain
<1>5. /\ quotes \in Seq(Quotes)
      /\ \A i, j \in 1..Len(quotes) : quotes[i].id = quotes[j].id => i = j
      /\ \A i \in 1..Len(quotes) : Given(quotes[i].id)
  BY <1>1 DEF Orderly, PaperInv
<1>6. Sieved(t, quotes, Len(quotes))
  BY <1>3, <1>5, RetainedIs
<1>7. /\ t \in Seq(Quotes)
      /\ \A i, j \in 1..Len(t) : t[i].id = t[j].id => i = j
      /\ \A i \in 1..Len(t) :
           t[i].leaves > 0 /\ \E j \in 1..Len(quotes) : t[i] = quotes[j]
  BY <1>6 DEF Sieved
<1>8. Orderly'
  <2>1. PICK e : e = Ack(1)
    OBVIOUS
  <2>2. Grows(e)
    BY <1>1, ReportsSame
  <2>3. /\ quotes' \in Seq(Quotes)
        /\ \A i, j \in 1..Len(quotes') : quotes'[i].id = quotes'[j].id => i = j
    BY <1>4, <1>7
  <2>4. \A i \in 1..Len(quotes') :
          Given(quotes'[i].id) /\ (pc' # "market" => quotes'[i].leaves > 0)
    BY <1>4, <1>5, <1>7
  <2>. QED  BY <1>1, <1>2, <2>2, <2>3, <2>4, PaperOrderly
<1>9. UNCHANGED <<strategy, gateway, oms, intents, execCh>>
  BY <1>1, <1>2 DEF PaperStep
<1>10. View' = View
  BY <1>9 DEF View
<1>11. ASSUME strategy # "dyn"
       PROVE  /\ Linked(View)'
              /\ strategy = "market_maker" => PaperMaker(oms, View)'
  <2>1. PICK w : w = View /\ w = View'
    BY <1>10
  <2>2. PaperLinks(w)
    BY <1>11, <2>1, PaperLinksAre
  <2>3. \A i \in 1..Len(quotes') :
          quotes'[i].id \in DOMAIN w.orders =>
            w.orders[quotes'[i].id].leaves = quotes'[i].leaves
    BY <1>4, <1>7, <2>2 DEF PaperLinks
  <2>4. News(orderCh') = {} /\ DOMAIN resting = {} /\ pc' \notin {"take", "rest"}
    BY <1>1 DEF News, PaperInv
  <2>5. Linked(View)'
    BY <1>1, <1>2, <2>1, <2>3, <2>4, PaperLinked
  <2>6. DOMAIN View'.orders \subseteq DOMAIN View.orders
    BY <2>1
  <2>7. strategy = "market_maker" => PaperMaker(oms, View)'
    BY <1>1, <1>2, <1>11, <2>4, <2>6, StillPaperMaker
  <2>. QED  BY <2>5, <2>7
<1>. QED  BY <1>8, <1>9, <1>11, AccountedSame

(* The paper venue's steps.  Over the simulated venue there are none.      *)
LEMMA PaperPreserves ==
  ASSUME Orderly, Accounted, PaperVenue
  PROVE  Orderly' /\ Accounted'
<1>1. pc \in {"command", "take", "rest", "market"}
  BY DEF PaperVenue, PaperReject, PaperAck, PaperTake, PaperRest, PaperCancel,
         FillResting, Retain
<1>2. Paper
  BY <1>1 DEF Orderly, SimInv
<1>. QED
  BY <1>2, PaperRejects, PaperAcks, PaperTakes, PaperRests, PaperCancels,
     PaperFills, PaperRetains DEF PaperVenue

-----------------------------------------------------------------------------
(* The engine. *)

(* Steps that leave the venue alone. *)
StillVenue == UNCHANGED <<strategy, gateway, orderCh, resting, taking, quotes>>
Resting == pc \in {"idle", "drain", "book", "send"}
Restless == pc \in {"idle", "market", "drain", "book", "send"}

LEMMA CalmOrderly ==
  ASSUME Orderly, StillVenue, Resting, Restless', pc' = "market" => Paper,
         IsOms(oms'), Numbered(oms'), oms'.next_cl_id = oms.next_cl_id,
         IsRow(execCh'), AllReports(execCh', oms.next_cl_id),
         book' \in [Side -> Seq(Levels)], intents' \in Seq(Intents),
         pc' # "send" => intents' = <<>>,
         Paper => next' \in Nat \ {0} /\ remaining' \in Nat
  PROVE  Orderly'
<1>1. /\ Paper' = Paper /\ Levels' = Levels
      /\ UNCHANGED <<strategy, gateway, orderCh, resting, taking, quotes>>
  BY DEF StillVenue, Paper, Levels
<1>2. \A id : Given(id)' <=> Given(id)
  BY DEF Given
<1>3. /\ pc \in {"idle", "drain", "book", "send"}
      /\ pc' \in {"idle", "market", "drain", "book", "send"}
  BY DEF Resting, Restless
<1>4. book' \in [Side -> Seq(Levels)]'
  BY <1>1
<1>5. \A i \in 1..Len(execCh') : IsReport(execCh'[i], oms'.next_cl_id)
  BY DEF AllReports
<1>6. \A i \in 1..Len(orderCh') : Given(orderCh[i].id)'
  BY <1>1, <1>2 DEF Orderly
<1>7. ASSUME Paper PROVE PaperInv'
  <2>1. PaperInv /\ orderCh = <<>> /\ taking = NoOrder
    BY <1>3, <1>7 DEF Orderly, PaperInv
  <2>2. DOMAIN resting' = {} /\ orderCh' = <<>> /\ taking' = NoOrder
    BY <1>1, <2>1 DEF PaperInv
  <2>3. News(orderCh') = {}
    BY <2>2 DEF News
  <2>4. \A i \in 1..Len(quotes') : Given(quotes[i].id)' /\ quotes'[i].leaves > 0
    BY <1>1, <1>2, <1>3, <2>1 DEF PaperInv
  <2>5. \A i, j \in 1..Len(quotes') : quotes'[i].id = quotes'[j].id => i = j
    BY <1>1, <2>1 DEF PaperInv
  <2>. QED  BY <1>3, <1>7, <2>2, <2>3, <2>4, <2>5 DEF PaperInv
<1>8. ASSUME ~Paper PROVE SimInv'
  <2>1. SimInv
    BY <1>8 DEF Orderly
  <2>2. pc' \in {"idle", "drain", "book", "send"}
    BY <1>3, <1>8
  <2>3. taking # NoOrder => Given(taking.id)'
    BY <1>1, <2>1 DEF SimInv, Given
  <2>4. \A id \in DOMAIN resting' : Given(id)'
    BY <1>1, <2>1 DEF SimInv, Given
  <2>. QED  BY <1>1, <2>1, <2>2, <2>3, <2>4 DEF SimInv, Given
<1>. QED  BY <1>1, <1>3, <1>4, <1>5, <1>6, <1>7, <1>8 DEF Orderly

(* The links depend on the venue alone. *)
LEMMA CalmLinked ==
  ASSUME Orderly, StillVenue, Resting, Restless', NEW v, Linked(v), v = View'
  PROVE  Linked(View)'
<1>1. Paper => pc' \notin {"take", "rest"}
  BY DEF Restless
<1>2. UNCHANGED <<orderCh, resting, taking, quotes>> /\ Paper' = Paper
  BY DEF StillVenue, Paper
<1>. QED  BY <1>1, <1>2 DEF Linked

(* The books are kept, and there may be new intents. *)
LEMMA CalmAccounted ==
  ASSUME Orderly, Accounted, StillVenue, UNCHANGED <<oms, execCh>>,
         Resting, Restless',
         strategy = "imbalance" => ImbalanceInv(oms, View, intents'),
         strategy = "market_maker" => MakerAnswer(oms, View, intents', Paper),
         pc' = "book" => pc = "book"
  PROVE  Accounted'
<1>. SUFFICES ASSUME strategy # "dyn" PROVE Accounted'
  BY DEF Accounted, StillVenue
<1>1. View' = View /\ Paper' = Paper /\ Allowance' = Allowance
      /\ strategy' = strategy /\ orderCh' = orderCh
  BY DEF View, Paper, Allowance, StillVenue
<1>2. Books(oms, View, execCh)'
  BY <1>1 DEF Accounted
<1>3. Linked(View)'
  <2>1. PICK v : v = View /\ v = View'
    BY <1>1
  <2>2. Linked(v)
    BY <2>1 DEF Accounted
  <2>. QED  BY <2>1, <2>2, CalmLinked
<1>4. Bounded(View)' /\ InventoryBound'
  BY <1>1 DEF Accounted, Bounded, InventoryBound
<1>5. strategy' = "imbalance" => ImbalanceInv(oms, View, intents)'
  BY <1>1
<1>6. strategy' = "market_maker" => MakerInv(oms, View, intents)'
  <2>. SUFFICES ASSUME strategy = "market_maker"
                PROVE  MakerInv(oms, View, intents)'
    BY <1>1
  <2>1. \A s \in Side : SideInv(oms, View, intents', s, Paper)
    BY DEF MakerAnswer
  <2>2. \A s \in Side : SideInv(oms, View, intents, s, Paper)'
    BY <1>1, <2>1
  <2>3. ASSUME Paper PROVE PaperMaker(oms, View)'
    <3>1. PaperMaker(oms, View) /\ pc # "command"
      BY <2>3 DEF Accounted, MakerInv, Resting
    <3>2. PICK v : v = View /\ v = View'
      BY <1>1
    <3>3. DOMAIN v.orders \cap PendingCancels(oms) = {}
      BY <3>1, <3>2 DEF PaperMaker
    <3>4. pc' # "take" /\ (pc' = "book" => execCh' = <<>>)
      BY <3>1 DEF PaperMaker, Restless
    <3>5. \A i \in News(orderCh') : orderCh'[i].tif = "PostOnly"
      BY <1>1, <3>1 DEF PaperMaker
    <3>. QED  BY <3>2, <3>3, <3>4, <3>5 DEF PaperMaker
  <2>. QED  BY <1>1, <2>2, <2>3 DEF MakerInv
<1>. QED  BY <1>2, <1>3, <1>4, <1>5, <1>6 DEF Accounted

(* Both, when neither the OMS nor the reports change. *)
LEMMA Calm ==
  ASSUME Orderly, Accounted, StillVenue, UNCHANGED <<oms, execCh>>,
         Resting, Restless', pc' = "market" => Paper,
         book' \in [Side -> Seq(Levels)], intents' \in Seq(Intents),
         pc' # "send" => intents' = <<>>,
         Paper => next' \in Nat \ {0} /\ remaining' \in Nat,
         strategy = "imbalance" => ImbalanceInv(oms, View, intents'),
         strategy = "market_maker" => MakerAnswer(oms, View, intents', Paper),
         pc' = "book" => pc = "book"
  PROVE  Orderly' /\ Accounted'
<1>1. /\ IsOms(oms') /\ Numbered(oms') /\ oms'.next_cl_id = oms.next_cl_id
      /\ IsRow(execCh') /\ AllReports(execCh', oms.next_cl_id)
  BY DEF Orderly, AllReports
<1>2. Orderly'
  BY <1>1, CalmOrderly
<1>. QED  BY <1>2, CalmAccounted

(* What the accounts say of the intents there are. *)
LEMMA IntentsFit ==
  ASSUME Orderly, Accounted
  PROVE  /\ intents \in Seq(Intents)
         /\ strategy = "imbalance" => ImbalanceInv(oms, View, intents)
         /\ strategy = "market_maker" => MakerAnswer(oms, View, intents, Paper)
BY DEF Orderly, Accounted, MakerInv, MakerAnswer

LEMMA NextTyped ==
  ASSUME Orderly
  PROVE  Paper => next \in Nat \ {0} /\ remaining \in Nat
BY DEF Orderly, PaperInv

(* A message of the feed. *)
LEMMA MdPreserves ==
  ASSUME Orderly, Accounted, OnMd
  PROVE  Orderly' /\ Accounted'
<1>1. /\ pc = "idle" /\ md' \in Messages /\ book' = Apply(book, md')
      /\ pc' = IF Paper THEN "market" ELSE "drain"
      /\ next' = 1 /\ remaining' = IF md'.kind = "Trade" THEN md'.qty ELSE 0
      /\ UNCHANGED <<strategy, gateway, oms, intents, orderCh, execCh, resting,
                     taking, quotes>>
  BY DEF OnMd, venueVars
<1>2. StillVenue /\ Resting /\ Restless' /\ (pc' = "market" => Paper)
  BY <1>1 DEF StillVenue, Resting, Restless
<1>3. book' \in [Side -> Seq(Levels)]
  <2>1. IsBook(book)
    BY DEF Orderly, IsBook
  <2>2. PICK m \in Messages : m = md'
    BY <1>1
  <2>3. IsBook(Apply(book, m))
    BY <2>1, ApplyTyped
  <2>. QED  BY <1>1, <2>2, <2>3 DEF IsBook
<1>4. Paper => next' \in Nat \ {0} /\ remaining' \in Nat
  <2>. SUFFICES ASSUME Paper, md'.kind = "Trade" PROVE md'.qty \in Nat
    BY <1>1
  <2>1. \E s \in Side, p \in Prices, q \in Qtys : md' = TradeMsg(s, p, q)
    BY <1>1 DEF Messages, TopMsg, ClearMsg
  <2>. QED  BY <2>1, TradingAssumption DEF TradeMsg
<1>5. /\ intents = <<>> /\ intents' = <<>> /\ intents' \in Seq(Intents)
  BY <1>1 DEF Orderly
<1>6. /\ strategy = "imbalance" => ImbalanceInv(oms, View, intents')
      /\ strategy = "market_maker" => MakerAnswer(oms, View, intents', Paper)
  BY <1>1, IntentsFit
<1>. QED  BY <1>1, <1>2, <1>3, <1>4, <1>5, <1>6, Calm

(* With no intents left nothing is to do: there are at most three orders   *)
(* of a side, and one that lives.                                          *)
LEMMA IdleMaker ==
  ASSUME NEW o, NEW v, NEW paper, MakerAnswer(o, v, <<>>, paper)
  PROVE  Quiet(o)
<1>1. Len(<<>>) = 0 /\ \A s : NewOf(<<>>, s) = {}
  BY DEF NewOf
<1>2. \A id : ~Cancelled(<<>>, 0, id)
  BY DEF Cancelled
<1>. SUFFICES ASSUME NEW side \in Side PROVE QuietSide(o, side)
  BY DEF Quiet
<1>3. SideInv(o, v, <<>>, side, paper)
  BY DEF MakerAnswer
<1>4. /\ AtMostThree(Own(o, side))
      /\ \E x : \A id \in Live(o, side) : id = x \/ Cancelled(<<>>, Len(<<>>), id)
  BY <1>1, <1>3 DEF SideInv
<1>5. PICK x : \A id \in Live(o, side) : id = x \/ Cancelled(<<>>, Len(<<>>), id)
  BY <1>4
<1>6. \A id \in Live(o, side) : id = x
  BY <1>1, <1>2, <1>5
<1>7. \E y : Live(o, side) \subseteq {y}
  BY <1>6
<1>. QED  BY <1>4, <1>7 DEF QuietSide

LEMMA IdleTaker ==
  ASSUME NEW o, NEW v, ImbalanceInv(o, v, <<>>)
  PROVE  \E x : DOMAIN o.orders \subseteq {x}
<1>1. Len(<<>>) = 0
  OBVIOUS
<1>. QED  BY <1>1 DEF ImbalanceInv

(* What the maker may send, judged by the OMS, is affordable with what the *)
(* reports under way will make of it.                                      *)
LEMMA MakerAffords ==
  ASSUME Orderly, Accounted, strategy = "market_maker", pc = "book",
         NEW side \in Side, Wants(oms, side), AtMostTwo(Own(oms, side))
  PROVE  Affordable(View, side, Paper)
<1>1. PICK v, o : v = View /\ o = oms
  OBVIOUS
<1>2. /\ IsOms(o) /\ IsOms(v) /\ Numbered(o) /\ OpenAddsUp(o)
      /\ Room(v, side) <= Room(o, side)
  BY <1>1, ViewIs DEF ViewOrderly, Orderly, Accounted, Books, Follows
<1>3. CASE Paper
  <2>1. execCh = <<>>
    BY <1>3 DEF Accounted, MakerInv, PaperMaker
  <2>2. v = o
    BY <1>1, <2>1, ExecsNone DEF View
  <2>. QED  BY <1>1, <1>3, <2>2 DEF Affordable, Wants
<1>4. CASE ~Paper
  <2>1. PICK x, y : Own(o, side) \subseteq {x, y}
    BY <1>1 DEF AtMostTwo
  <2>2. o.open[side] <= 2 * OrderQty
    BY <1>2, <2>1, TwoOpen
  <2>3. PICK s \in Int, p \in Int : s = o.open[side] /\ p = Sign(side) * o.position
    <3>1. o.open[side] \in Int /\ o.position \in Int /\ Sign(side) \in Int
      BY <1>2, SignIs DEF IsOms
    <3>. QED  BY <3>1
  <2>4. Room(o, side) = p + s /\ p + OrderQty <= MaxInventory
    BY <1>1, <2>3 DEF Room, Wants
  <2>5. PICK a \in Int : a = Room(v, side)
    BY <1>2, RoomIsInt
  <2>6. a <= p + s /\ s <= 2 * OrderQty
    BY <1>2, <2>2, <2>3, <2>4, <2>5
  <2>7. a + OrderQty <= MaxInventory + 2 * OrderQty
    BY <2>4, <2>6, StrategiesAssumption
  <2>. QED  BY <1>1, <1>4, <2>5, <2>7 DEF Affordable
<1>. QED  BY <1>3, <1>4

LEMMA BookPreserves ==
  ASSUME Orderly, Accounted, OnBook
  PROVE  Orderly' /\ Accounted'
<1>1. /\ pc = "book" /\ pc' = "send"
      /\ UNCHANGED <<strategy, gateway, book, oms, orderCh, execCh, resting,
                     taking, quotes, next, remaining>>
      /\ intents' = intents \/ intents' \in OnBookOf(strategy, oms, book)
  BY DEF OnBook, venueVars, paperVars
<1>2. /\ StillVenue /\ Resting /\ Restless' /\ (pc' = "market" => Paper)
      /\ (pc' = "book" => pc = "book")
  BY <1>1 DEF StillVenue, Resting, Restless
<1>3. /\ intents = <<>> /\ intents \in Seq(Intents) /\ IsBook(book)
      /\ book' \in [Side -> Seq(Levels)] /\ IsOms(oms) /\ Numbered(oms)
  BY <1>1 DEF Orderly, IsBook
<1>4. Paper => next' \in Nat \ {0} /\ remaining' \in Nat
  BY <1>1, NextTyped
<1>5. CASE intents' = intents
  <2>1. /\ strategy = "imbalance" => ImbalanceInv(oms, View, intents')
        /\ strategy = "market_maker" => MakerAnswer(oms, View, intents', Paper)
    BY <1>5, IntentsFit
  <2>. QED  BY <1>1, <1>2, <1>3, <1>4, <1>5, <2>1, Calm
<1>6. CASE intents' \in OnBookOf(strategy, oms, book)
  <2>1. PICK a, v : a = intents' /\ v = View
    OBVIOUS
  <2>2. IsOms(v)
    BY <2>1, ViewIs DEF ViewOrderly
  <2>3. CASE strategy = "market_maker"
    <3>1. a \in MarketMaker(oms, book)
      BY <1>6, <2>1, <2>3 DEF OnBookOf
    <3>2. Quiet(oms)
      <4>1. MakerAnswer(oms, v, <<>>, Paper)
        BY <1>3, <2>1, <2>3, IntentsFit
      <4>. QED  BY <4>1, IdleMaker
    <3>3. \A side \in Side :
            Wants(oms, side) /\ AtMostTwo(Own(oms, side)) => Affordable(v, side, Paper)
      BY <1>1, <2>1, <2>3, MakerAffords
    <3>4. MakerAnswer(oms, v, a, Paper)
      BY <1>3, <3>1, <3>2, <3>3, MarketMakerAnswers
    <3>5. a \in Seq(Intents)
      BY <3>4 DEF MakerAnswer
    <3>. QED  BY <1>1, <1>2, <1>3, <1>4, <2>1, <2>3, <3>4, <3>5, Calm
  <2>4. CASE strategy = "imbalance"
    <3>1. a \in ImbalanceTaker(oms, book)
      BY <1>6, <2>1, <2>4 DEF OnBookOf
    <3>2. OpenAddsUp(oms) /\ \A s \in Side : Room(v, s) <= Room(oms, s)
      BY <2>1, <2>4 DEF Accounted, Books, Follows
    <3>3. ImbalanceInv(oms, v, <<>>)
      BY <1>3, <2>1, <2>4, IntentsFit
    <3>4. a \in Seq(Intents) /\ ImbalanceInv(oms, v, a)
      BY <1>3, <2>2, <3>1, <3>2, <3>3, ImbalanceAnswers
    <3>. QED  BY <1>1, <1>2, <1>3, <1>4, <2>1, <2>4, <3>4, Calm
  <2>5. CASE strategy = "dyn"
    <3>1. a \in DynStrategy(oms)
      BY <1>6, <2>1, <2>5 DEF OnBookOf
    <3>2. a \in Seq(Intents)
      BY <1>3, <3>1, DynAnswers
    <3>. QED  BY <1>1, <1>2, <1>3, <1>4, <2>1, <2>5, <3>2, Calm
  <2>. QED  BY <2>3, <2>4, <2>5 DEF Orderly
<1>. QED  BY <1>1, <1>5, <1>6

(* A kill: cancels alone are added to nothing. *)
LEMMA CancelsFit ==
  ASSUME NEW o, NEW v, NEW paper, Quiet(o), NEW c, NEW ids, Cancels(c, ids)
  PROVE  MakerAnswer(o, v, c, paper)
<1>1. c \in Seq(Intents) /\ \A i \in 1..Len(c) : ~IsNew(c[i])
  BY DEF Cancels, IsNew
<1>. SUFFICES ASSUME NEW side \in Side PROVE SideInv(o, v, c, side, paper)
  BY <1>1 DEF MakerAnswer
<1>2. NewOf(c, side) = {}
  BY <1>1 DEF NewOf
<1>3. AtMostThree(Own(o, side)) /\ \E x : Live(o, side) \subseteq {x}
  BY DEF Quiet, QuietSide
<1>4. \E x : \A id \in Live(o, side) : id = x \/ Cancelled(c, Len(c), id)
  BY <1>3
<1>. QED  BY <1>2, <1>3, <1>4 DEF SideInv

LEMMA KillPreserves ==
  ASSUME Orderly, Accounted, CancelAll
  PROVE  Orderly' /\ Accounted'
<1>1. PICK ids : ids = DOMAIN oms.orders \ PendingCancels(oms)
  OBVIOUS
<1>2. /\ pc = "idle" /\ pc' = "send" /\ intents' = CancelIntents(ids)
      /\ UNCHANGED <<strategy, gateway, book, oms, orderCh, execCh, resting,
                     taking, quotes, next, remaining>>
  BY <1>1 DEF CancelAll, venueVars, paperVars
<1>3. /\ StillVenue /\ Resting /\ Restless' /\ (pc' = "market" => Paper)
      /\ (pc' = "book" => pc = "book")
  BY <1>2 DEF StillVenue, Resting, Restless
<1>4. /\ intents = <<>> /\ book' \in [Side -> Seq(Levels)]
      /\ IsOms(oms) /\ Numbered(oms)
  BY <1>2 DEF Orderly
<1>5. Paper => next' \in Nat \ {0} /\ remaining' \in Nat
  BY <1>2, NextTyped
<1>6. PICK c, v : c = intents' /\ v = View
  OBVIOUS
<1>7. Cancels(c, ids)
  <2>1. ids \subseteq DOMAIN oms.orders
    BY <1>1
  <2>2. IsFiniteSet(ids) /\ ids \subseteq Nat
    BY <1>4, <2>1, OrdersFinite
  <2>. QED  BY <1>2, <1>6, <2>2, CancelIntentsAre
<1>8. c \in Seq(Intents) /\ \A i \in 1..Len(c) : ~IsNew(c[i])
  BY <1>7 DEF Cancels, IsNew
<1>9. ASSUME strategy = "imbalance" PROVE ImbalanceInv(oms, v, c)
  <2>1. ImbalanceInv(oms, v, <<>>)
    BY <1>4, <1>6, <1>9, IntentsFit
  <2>2. \E x : DOMAIN oms.orders \subseteq {x}
    BY <2>1, IdleTaker
  <2>. QED  BY <1>8, <2>2 DEF ImbalanceInv
<1>10. ASSUME strategy = "market_maker" PROVE MakerAnswer(oms, v, c, Paper)
  <2>1. MakerAnswer(oms, v, <<>>, Paper)
    BY <1>4, <1>6, <1>10, IntentsFit
  <2>2. Quiet(oms)
    BY <2>1, IdleMaker
  <2>. QED  BY <1>7, <2>2, CancelsFit
<1>. QED  BY <1>2, <1>3, <1>4, <1>5, <1>6, <1>8, <1>9, <1>10, Calm

(* All intents are sent. *)
LEMMA SentPreserves ==
  ASSUME Orderly, Accounted, ProcessedIntents
  PROVE  Orderly' /\ Accounted'
<1>1. /\ pc = "send" /\ pc' = "idle" /\ intents = <<>> /\ intents' = intents
      /\ UNCHANGED <<strategy, gateway, book, oms, orderCh, execCh, resting,
                     taking, quotes, next, remaining>>
  BY DEF ProcessedIntents, venueVars, paperVars
<1>2. /\ StillVenue /\ Resting /\ Restless' /\ (pc' = "market" => Paper)
      /\ (pc' = "book" => pc = "book")
  BY <1>1 DEF StillVenue, Resting, Restless
<1>3. book' \in [Side -> Seq(Levels)]
  BY <1>1 DEF Orderly
<1>4. Paper => next' \in Nat \ {0} /\ remaining' \in Nat
  BY <1>1, NextTyped
<1>5. /\ intents' \in Seq(Intents)
      /\ strategy = "imbalance" => ImbalanceInv(oms, View, intents')
      /\ strategy = "market_maker" => MakerAnswer(oms, View, intents', Paper)
  BY <1>1, IntentsFit
<1>. QED  BY <1>1, <1>2, <1>3, <1>4, <1>5, Calm

(* The first of the intents, typed. *)
FirstIntent(in) ==
  /\ in \in Seq(Intents) /\ Head(in) = in[1] /\ 1 \in 1..Len(in)
  /\ Tail(in) \in Seq(Intents) /\ Behind(Tail(in), in)
  /\ in[1].kind = "New" =>
       /\ IsNew(in[1]) /\ in[1].side \in Side /\ in[1].price \in AnyPrice
       /\ in[1].qty \in 1..OrderQty /\ in[1].tif \in TimeInForce
       /\ 1 \in NewOf(in, in[1].side)
  /\ in[1].kind = "Cancel" => ~IsNew(in[1])

LEMMA FirstIntentIs ==
  ASSUME NEW in \in Seq(Intents), in # <<>>
  PROVE  FirstIntent(in)
<1>1. /\ Head(in) = in[1] /\ in[1] \in Intents /\ 1 \in 1..Len(in)
      /\ Tail(in) \in Seq(Intents) /\ Behind(Tail(in), in)
  BY TailIs
<1>2. in[1].kind = "New" =>
        /\ IsNew(in[1]) /\ in[1].side \in Side /\ in[1].price \in AnyPrice
        /\ in[1].qty \in 1..OrderQty /\ in[1].tif \in TimeInForce
  BY <1>1 DEF Intents, IsNew
<1>3. in[1].kind = "New" => 1 \in NewOf(in, in[1].side)
  BY <1>1, <1>2 DEF NewOf
<1>4. in[1].kind = "Cancel" => ~IsNew(in[1])
  BY DEF IsNew
<1>. QED  BY <1>1, <1>2, <1>3, <1>4 DEF FirstIntent

(* A new order is not sent: its side is as it was, and has none to send.   *)
LEMMA RefusedFits ==
  ASSUME NEW o, NEW v, NEW in, NEW paper, FirstIntent(in), in[1].kind = "New"
  PROVE  /\ ImbalanceInv(o, v, in) => ImbalanceInv(o, v, Tail(in))
         /\ MakerAnswer(o, v, in, paper) => MakerAnswer(o, v, Tail(in), paper)
<1>1. PICK t : t = Tail(in)
  OBVIOUS
<1>2. /\ t \in Seq(Intents) /\ Behind(t, in) /\ 1 \in 1..Len(in) /\ IsNew(in[1])
      /\ in[1].side \in Side /\ 1 \in NewOf(in, in[1].side)
  BY <1>1 DEF FirstIntent
<1>3. ASSUME ImbalanceInv(o, v, in) PROVE ImbalanceInv(o, v, t)
  <2>1. DOMAIN o.orders = {} /\ Len(in) = 1
    BY <1>2, <1>3 DEF ImbalanceInv
  <2>2. Len(t) = 0 /\ DOMAIN o.orders \subseteq {1}
    BY <1>2, <2>1 DEF Behind
  <2>. QED  BY <2>2 DEF ImbalanceInv
<1>4. ASSUME MakerAnswer(o, v, in, paper), NEW side \in Side
      PROVE  SideInv(o, v, t, side, paper)
  <2>1. SideInv(o, v, in, side, paper)
    BY <1>4 DEF MakerAnswer
  <2>2. CASE in[1].side = side
    <3>1. 1 \in NewOf(in, side)
      BY <1>2, <2>2
    <3>2. AtMostTwo(Own(o, side)) /\ Live(o, side) = {}
      BY <2>1, <3>1, FirstOfSide
    <3>3. AtMostThree(Own(o, side)) /\ Live(o, side) \subseteq {1}
      BY <3>2 DEF AtMostTwo, AtMostThree
    <3>. QED  BY <1>2, <2>1, <3>1, <3>3, SideLast
  <2>3. CASE in[1].side # side
    <3>1. \A id \in Live(o, side) : ~IsCancel(in[1], id)
      BY <1>2 DEF IsNew, IsCancel
    <3>. QED  BY <1>2, <2>1, <2>3, <3>1, SideTail
  <2>. QED  BY <2>2, <2>3
<1>. QED  BY <1>1, <1>2, <1>3, <1>4 DEF MakerAnswer

LEMMA RefusePreserves ==
  ASSUME Orderly, Accounted, RefuseNew
  PROVE  Orderly' /\ Accounted'
<1>1. /\ pc = "send" /\ pc' = "send" /\ intents # <<>> /\ Head(intents).kind = "New"
      /\ intents' = Tail(intents)
      /\ UNCHANGED <<strategy, gateway, book, oms, orderCh, execCh, resting,
                     taking, quotes, next, remaining>>
  BY DEF RefuseNew, venueVars, paperVars
<1>2. /\ StillVenue /\ Resting /\ Restless' /\ (pc' = "market" => Paper)
      /\ (pc' = "book" => pc = "book")
  BY <1>1 DEF StillVenue, Resting, Restless
<1>3. book' \in [Side -> Seq(Levels)] /\ intents \in Seq(Intents)
  BY <1>1 DEF Orderly
<1>4. Paper => next' \in Nat \ {0} /\ remaining' \in Nat
  BY <1>1, NextTyped
<1>5. FirstIntent(intents)
  BY <1>1, <1>3, FirstIntentIs
<1>6. intents[1].kind = "New" /\ Tail(intents) \in Seq(Intents)
  BY <1>1, <1>5 DEF FirstIntent
<1>7. PICK v : v = View
  OBVIOUS
<1>8. strategy = "imbalance" => ImbalanceInv(oms, v, Tail(intents))
  <2>1. strategy = "imbalance" => ImbalanceInv(oms, v, intents)
    BY <1>7, IntentsFit
  <2>. QED  BY <1>5, <1>6, <2>1, RefusedFits
<1>9. strategy = "market_maker" => MakerAnswer(oms, v, Tail(intents), Paper)
  <2>1. strategy = "market_maker" => MakerAnswer(oms, v, intents, Paper)
    BY <1>7, IntentsFit
  <2>. QED  BY <1>5, <1>6, <2>1, RefusedFits
<1>. QED  BY <1>1, <1>2, <1>3, <1>4, <1>6, <1>7, <1>8, <1>9, Calm

(* All reports are taken in: the OMS is what was in view. *)
LEMMA DrainPreserves ==
  ASSUME Orderly, Accounted, DrainVenue
  PROVE  Orderly' /\ Accounted'
<1>1. /\ pc \in {"idle", "drain"} /\ pc' \in {"idle", "book"}
      /\ oms' = View /\ execCh' = <<>> /\ intents' = intents
      /\ UNCHANGED <<strategy, gateway, book, orderCh, resting, taking, quotes,
                     next, remaining>>
  BY DEF DrainVenue, Drained, View, paperVars
<1>2. StillVenue /\ Resting /\ Restless' /\ (pc' = "market" => Paper)
  BY <1>1 DEF StillVenue, Resting, Restless
<1>3. intents = <<>> /\ intents' = <<>> /\ intents' \in Seq(Intents)
      /\ book' \in [Side -> Seq(Levels)]
  BY <1>1 DEF Orderly
<1>4. Paper => next' \in Nat \ {0} /\ remaining' \in Nat
  BY <1>1, NextTyped
<1>5. PICK o, v : o = oms /\ v = View
  OBVIOUS
<1>6. IsOms(v) /\ Numbered(v) /\ v.next_cl_id = o.next_cl_id
  BY <1>5, ViewIs DEF ViewOrderly
<1>7. Orderly'
  <2>1. IsRow(execCh') /\ AllReports(execCh', oms.next_cl_id)
    BY <1>1, RowEmpty DEF AllReports
  <2>. QED  BY <1>1, <1>2, <1>3, <1>4, <1>5, <1>6, <2>1, CalmOrderly
<1>8. oms' = v /\ View' = v
  BY <1>1, <1>5, ExecsNone DEF View
<1>9. ASSUME strategy # "dyn" PROVE Accounted'
  <2>1. Books(o, v, execCh) /\ Linked(v) /\ Bounded(v) /\ InventoryBound
    BY <1>5, <1>9 DEF Accounted
  <2>2. /\ Paper' = Paper /\ Allowance' = Allowance /\ strategy' = strategy
        /\ orderCh' = orderCh
    BY <1>1 DEF Paper, Allowance
  <2>3. Books(oms, View, execCh)'
    BY <1>1, <1>8, <2>1, BooksDrained
  <2>4. Linked(View)'
    BY <1>2, <1>8, <2>1, CalmLinked
  <2>5. Bounded(View)'
    BY <1>8, <2>1, <2>2 DEF Bounded
  <2>6. InventoryBound'
    <3>. SUFFICES ASSUME NEW side \in Side
                  PROVE  Sign(side) * v.position <= MaxInventory + Allowance
      BY <1>8, <2>2 DEF InventoryBound
    <3>1. v.open[side] \in Nat
      BY <2>1, OpenIsNat DEF Books
    <3>2. PICK p \in Int, n \in Int : /\ p = Sign(side) * v.position
                                      /\ n = MaxInventory + Allowance
      BY <1>6, SignIs, AllowanceIs DEF IsOms
    <3>3. p + v.open[side] <= n
      BY <2>1, <3>2 DEF Bounded, Room
    <3>. QED  BY <3>1, <3>2, <3>3
  <2>7. \A id \in DOMAIN v.orders :
          /\ id \in DOMAIN o.orders /\ v.orders[id].side = o.orders[id].side
          /\ id \in PendingCancels(o) <=> id \in PendingCancels(v)
    BY <2>1 DEF Books, Follows
  <2>8. ASSUME strategy = "imbalance" PROVE ImbalanceInv(v, v, <<>>)
    <3>1. ImbalanceInv(o, v, <<>>)
      BY <1>3, <1>5, <2>8, IntentsFit
    <3>2. \E x : DOMAIN v.orders \subseteq {x}
      BY <2>7, <3>1, IdleTaker
    <3>3. \A i \in 1..Len(<<>>) : FALSE
      OBVIOUS
    <3>. QED  BY <3>2, <3>3 DEF ImbalanceInv
  <2>9. ASSUME strategy = "market_maker" PROVE MakerInv(v, v, <<>>)'
    <3>1. MakerAnswer(o, v, <<>>, Paper)
      BY <1>3, <1>5, <2>9, IntentsFit
    <3>2. Quiet(o)
      BY <3>1, IdleMaker
    <3>3. Quiet(v)
      <4>. SUFFICES ASSUME NEW side \in Side PROVE QuietSide(v, side)
        BY DEF Quiet
      <4>1. QuietSide(o, side)
        BY <3>2 DEF Quiet
      <4>2. Own(v, side) \subseteq Own(o, side)
        BY <2>7 DEF Own
      <4>3. Live(v, side) \subseteq Live(o, side)
        BY <2>7, <4>2 DEF Live, Own
      <4>4. AtMostThree(Own(v, side))
        BY <4>1, <4>2 DEF QuietSide, AtMostThree
      <4>5. PICK x : Live(o, side) \subseteq {x}
        BY <4>1 DEF QuietSide
      <4>6. Live(v, side) \subseteq {x}
        BY <4>3, <4>5
      <4>. QED  BY <4>4, <4>6 DEF QuietSide
    <3>4. MakerAnswer(v, v, <<>>, Paper)
      BY <3>3, NothingToDo
    <3>5. \A side \in Side : SideInv(v, v, <<>>, side, Paper)
      BY <3>4 DEF MakerAnswer
    <3>6. ASSUME Paper PROVE PaperMaker(v, v)'
      <4>1. PaperMaker(o, v)
        BY <1>5, <2>9, <3>6 DEF Accounted, MakerInv
      <4>2. DOMAIN v.orders \cap PendingCancels(v) = {}
        BY <1>1, <2>7, <4>1 DEF PaperMaker
      <4>3. \A i \in News(orderCh') : orderCh'[i].tif = "PostOnly"
        BY <2>2, <4>1 DEF PaperMaker
      <4>. QED  BY <1>1, <4>2, <4>3 DEF PaperMaker
    <3>. QED  BY <2>2, <3>5, <3>6 DEF MakerInv
  <2>10. strategy' = "imbalance" => ImbalanceInv(oms, View, intents)'
    BY <1>3, <1>8, <2>2, <2>8
  <2>11. strategy' = "market_maker" => MakerInv(oms, View, intents)'
    <3>. SUFFICES ASSUME strategy = "market_maker" PROVE MakerInv(oms, View, intents)'
      BY <2>2
    <3>1. MakerInv(v, v, <<>>)'
      BY <2>9
    <3>. QED  BY <1>3, <1>8, <3>1 DEF MakerInv
  <2>. QED  BY <2>3, <2>4, <2>5, <2>6, <2>10, <2>11 DEF Accounted
<1>. QED  BY <1>1, <1>7, <1>9 DEF Accounted

(* One more command on the wire. *)
WireAhead(t, ch, c) ==
  /\ t \in Seq(Cmds)
  /\ \A i \in 1..Len(t) : t[i] = c \/ \E j \in 1..Len(ch) : t[i] = ch[j]
  /\ \A i \in News(t) :
       (c.cmd = "New" /\ t[i] = c) \/ \E j \in News(ch) : t[i] = ch[j]
  /\ ch = <<>> => Len(t) = 1 /\ t[1] = c
  /\ Distinct(ch) /\ (c.cmd = "New" => \A j \in News(ch) : ch[j].id # c.id)
       => Distinct(t)

LEMMA WireAppend ==
  ASSUME NEW ch \in Seq(Cmds), NEW c \in Cmds
  PROVE  WireAhead(Append(ch, c), ch, c)
<1>1. PICK n \in Nat : n = Len(ch)
  OBVIOUS
<1>2. PICK t : t = Append(ch, c)
  OBVIOUS
<1>3. /\ t \in Seq(Cmds) /\ Len(t) = n + 1 /\ t[n + 1] = c
      /\ \A i \in 1..n : t[i] = ch[i]
  BY <1>1, <1>2
<1>4. \A i \in 1..(n + 1) : i = n + 1 \/ i \in 1..n
  OBVIOUS
<1>5. \A i \in News(t) : (i = n + 1 /\ c.cmd = "New") \/ (i \in News(ch) /\ t[i] = ch[i])
  BY <1>1, <1>3, <1>4 DEF News
<1>6. \A i \in 1..Len(t) : t[i] = c \/ \E j \in 1..Len(ch) : t[i] = ch[j]
  BY <1>1, <1>3, <1>4
<1>7. \A i \in News(t) :
        (c.cmd = "New" /\ t[i] = c) \/ \E j \in News(ch) : t[i] = ch[j]
  BY <1>3, <1>5
<1>8. ch = <<>> => Len(t) = 1 /\ t[1] = c
  BY <1>2
<1>9. ASSUME Distinct(ch), c.cmd = "New" => \A j \in News(ch) : ch[j].id # c.id
      PROVE  Distinct(t)
  <2>. SUFFICES ASSUME NEW i \in News(t), NEW j \in News(t), t[i].id = t[j].id
                PROVE  i = j
    BY DEF Distinct
  <2>1. CASE i = n + 1 /\ j = n + 1
    BY <2>1
  <2>2. CASE i = n + 1 /\ c.cmd = "New" /\ j \in News(ch) /\ t[j] = ch[j]
    BY <1>3, <1>9, <2>2
  <2>3. CASE j = n + 1 /\ c.cmd = "New" /\ i \in News(ch) /\ t[i] = ch[i]
    BY <1>3, <1>9, <2>3
  <2>4. CASE i \in News(ch) /\ t[i] = ch[i] /\ j \in News(ch) /\ t[j] = ch[j]
    BY <1>9, <2>4 DEF Distinct
  <2>. QED  BY <1>5, <2>1, <2>2, <2>3, <2>4
<1>. QED  BY <1>2, <1>3, <1>6, <1>7, <1>8, <1>9 DEF WireAhead

(* A command leaves. *)
Sent ==
  /\ pc = "send" /\ pc' = IF Paper THEN "command" ELSE pc
  /\ intents' \in Seq(Intents) /\ IsOms(oms') /\ Numbered(oms')
  /\ UNCHANGED <<strategy, gateway, book, execCh, resting, taking, quotes, next,
                 remaining>>

LEMMA SentOrderly ==
  ASSUME Orderly, Sent, NEW c \in Cmds, orderCh' = Append(orderCh, c),
         NEW n \in Nat, n = oms.next_cl_id,
         NEW m \in Nat, m = oms'.next_cl_id, n <= m, c.id \in 1..(m - 1),
         c.cmd = "New" => c.id = n
  PROVE  Orderly'
<1>1. /\ pc = "send" /\ pc' = IF Paper THEN "command" ELSE pc
      /\ Paper' = Paper /\ Levels' = Levels
      /\ UNCHANGED <<strategy, gateway, book, execCh, resting, taking, quotes, next,
                     remaining>>
  BY DEF Sent, Paper, Levels
<1>2. PICK ch, t : ch = orderCh /\ t = orderCh'
  OBVIOUS
<1>3. ch \in Seq(Cmds) /\ WireAhead(t, ch, c)
  BY <1>2, WireAppend DEF Orderly
<1>4. \A id : Given(id) => id \in 1..(m - 1)
  BY DEF Given
<1>5. book' \in [Side -> Seq(Levels)]'
  BY <1>1 DEF Orderly
<1>6. \A i \in 1..Len(execCh') : IsReport(execCh'[i], oms'.next_cl_id)
  <2>1. \A i \in 1..Len(execCh) : IsReport(execCh[i], n)
    BY DEF Orderly
  <2>2. \A e : IsReport(e, n) => IsReport(e, m)
    <3>1. \A id \in 1..(n - 1) : id \in 1..(m - 1)
      OBVIOUS
    <3>. QED  BY <3>1 DEF IsReport
  <2>. QED  BY <1>1, <2>1, <2>2
<1>7. \A i \in 1..Len(t) : t[i].id \in 1..(m - 1)
  BY <1>2, <1>3, <1>4 DEF WireAhead, Orderly
<1>8. \A i \in 1..Len(orderCh') : Given(orderCh[i].id)'
  BY <1>2, <1>7 DEF Given
<1>9. \A id : Given(id) => id # n
  BY DEF Given
<1>10. ASSUME Paper PROVE PaperInv'
  <2>1. PaperInv /\ ch = <<>> /\ taking = NoOrder /\ DOMAIN resting = {}
    BY <1>1, <1>2, <1>10 DEF Orderly, PaperInv
  <2>2. Len(t) = 1 /\ t[1] = c
    BY <1>3, <2>1 DEF WireAhead
  <2>3. \A i \in News(t) : t[i] = c /\ c.cmd = "New"
    BY <2>1, <2>2, <1>3 DEF WireAhead, News
  <2>4. \A i \in 1..Len(quotes) : Given(quotes[i].id) /\ quotes[i].leaves > 0
    BY <1>1, <2>1 DEF PaperInv
  <2>5. \A i \in News(t) : t[i].id \notin QuoteIds
    BY <1>9, <2>3, <2>4 DEF QuoteIds
  <2>6. \A i \in News(orderCh') : orderCh'[i].id \notin QuoteIds'
    BY <1>1, <1>2, <2>5 DEF QuoteIds
  <2>7. \A i \in 1..Len(quotes') : Given(quotes[i].id)' /\ quotes'[i].leaves > 0
    BY <1>1, <1>4, <2>4 DEF Given
  <2>8. /\ \A i, j \in 1..Len(quotes') : quotes'[i].id = quotes'[j].id => i = j
        /\ next' \in Nat \ {0} /\ remaining' \in Nat
    BY <1>1, <2>1 DEF PaperInv
  <2>9. pc' = "command" /\ taking' = NoOrder /\ DOMAIN resting' = {}
    BY <1>1, <1>10, <2>1
  <2>. QED  BY <1>2, <2>2, <2>6, <2>7, <2>8, <2>9 DEF PaperInv
<1>11. ASSUME ~Paper PROVE SimInv'
  <2>1. SimInv
    BY <1>11 DEF Orderly
  <2>2. pc' \in {"idle", "drain", "book", "send"} /\ quotes' = <<>>
    BY <1>1, <1>11, <2>1 DEF SimInv
  <2>3. \A j \in News(ch) : Given(ch[j].id) /\ ch[j].id # n
    BY <1>2, <1>9 DEF Orderly, News
  <2>4. Distinct(t)
    BY <1>2, <1>3, <2>1, <2>3 DEF WireAhead, SimInv
  <2>5. \A i \in News(t) : (t[i].id = n) \/ (\E j \in News(ch) : t[i] = ch[j])
    BY <1>3 DEF WireAhead
  <2>6. n \notin DOMAIN resting
    BY <1>9, <2>1 DEF SimInv
  <2>7. \A i \in News(t) : t[i].id \notin DOMAIN resting
    BY <1>2, <2>1, <2>5, <2>6 DEF SimInv
  <2>8. ASSUME taking # NoOrder
        PROVE  /\ taking \in Takings /\ Given(taking.id)
               /\ taking.id \notin DOMAIN resting
               /\ \A i \in News(t) : t[i].id # taking.id
    <3>1. /\ taking \in Takings /\ Given(taking.id) /\ taking.id \notin DOMAIN resting
          /\ \A j \in News(ch) : ch[j].id # taking.id
      BY <1>2, <2>1, <2>8 DEF SimInv
    <3>. QED  BY <1>9, <2>5, <3>1
  <2>9. \A id \in DOMAIN resting : Given(id) /\ resting[id] \in Rests
    BY <2>1 DEF SimInv
  <2>10. taking' # NoOrder => Given(taking.id)'
    BY <1>1, <1>4, <2>8 DEF Given
  <2>11. \A id \in DOMAIN resting' : Given(id)' /\ resting'[id] \in Rests
    BY <1>1, <1>4, <2>9 DEF Given
  <2>. QED  BY <1>1, <1>2, <2>2, <2>4, <2>7, <2>8, <2>10, <2>11 DEF SimInv
<1>12. /\ pc' \in {"command", "send"} /\ orderCh' \in Seq(Cmds)
       /\ quotes' \in Seq(Quotes) /\ IsRow(execCh')
       /\ strategy' \in {"market_maker", "imbalance", "dyn"}
       /\ gateway' \in {"sim", "paper"}
  BY <1>1, <1>2, <1>3 DEF Orderly, WireAhead
<1>13. intents' \in Seq(Intents) /\ IsOms(oms)' /\ Numbered(oms)'
  BY DEF Sent
<1>. QED
  BY <1>1, <1>5, <1>6, <1>8, <1>10, <1>11, <1>12, <1>13 DEF Orderly

(* A cancel is sent, or none is needed. *)
Fewer(o, p, id) ==
  /\ DOMAIN p.orders = DOMAIN o.orders
  /\ \A side \in Side : /\ Own(p, side) = Own(o, side)
                        /\ Live(p, side) \subseteq Live(o, side) \ {id}

LEMMA CancelledFits ==
  ASSUME NEW o, NEW v, NEW in, NEW paper, FirstIntent(in), in[1].kind = "Cancel",
         NEW p, Fewer(o, p, in[1].id), NEW w, SameRoom(v, w)
  PROVE  /\ ImbalanceInv(o, v, in) => ImbalanceInv(p, w, Tail(in))
         /\ MakerAnswer(o, v, in, paper) => MakerAnswer(p, w, Tail(in), paper)
<1>1. PICK t : t = Tail(in)
  OBVIOUS
<1>2. t \in Seq(Intents) /\ Behind(t, in) /\ ~IsNew(in[1])
  BY <1>1 DEF FirstIntent
<1>3. ASSUME ImbalanceInv(o, v, in) PROVE ImbalanceInv(p, w, t)
  <2>1. /\ \A i \in 1..Len(in) : ~IsNew(in[i])
        /\ \E x : DOMAIN o.orders \subseteq {x}
    BY <1>2, <1>3 DEF ImbalanceInv
  <2>2. \A i \in 1..Len(t) : ~IsNew(t[i])
    BY <1>2, <2>1 DEF Behind
  <2>. QED  BY <2>1, <2>2 DEF ImbalanceInv, Fewer
<1>4. ASSUME MakerAnswer(o, v, in, paper), NEW side \in Side
      PROVE  SideInv(p, w, t, side, paper)
  <2>1. SideInv(o, v, in, side, paper)
    BY <1>4 DEF MakerAnswer
  <2>2. /\ Own(p, side) = Own(o, side) /\ Live(p, side) \subseteq Live(o, side)
        /\ \A id \in Live(p, side) : ~IsCancel(in[1], id)
    BY DEF Fewer, IsCancel
  <2>3. w.position = v.position /\ Room(w, side) = Room(v, side)
    BY DEF SameRoom
  <2>. QED  BY <1>2, <2>1, <2>2, <2>3, SideTail
<1>. QED  BY <1>1, <1>2, <1>3, <1>4 DEF MakerAnswer

LEMMA MarkedFewer ==
  ASSUME NEW o, NEW p, NEW id, Marked(o, p, id, TRUE)
  PROVE  Fewer(o, p, id)
<1>1. /\ DOMAIN p.orders = DOMAIN o.orders
      /\ \A i \in DOMAIN o.orders :
           /\ p.orders[i].side = o.orders[i].side
           /\ i # id => p.orders[i].status = o.orders[i].status
           /\ i = id => p.orders[i].status = "PendingCancel"
  BY DEF Marked
<1>2. ASSUME NEW side \in Side
      PROVE  /\ Own(p, side) = Own(o, side)
             /\ Live(p, side) \subseteq Live(o, side) \ {id}
  <2>1. Own(p, side) = Own(o, side)
    BY <1>1 DEF Own
  <2>2. \A i \in Live(p, side) : i # id /\ i \in Live(o, side)
    BY <1>1 DEF Live, Own, PendingCancels
  <2>. QED  BY <2>1, <2>2
<1>. QED  BY <1>1, <1>2 DEF Fewer

(* The cancel is not needed: there is no such order, or it is asked for.   *)
LEMMA CancelNothing ==
  ASSUME Orderly, Accounted, SendCancel,
         Head(intents).id \notin DOMAIN oms.orders \ PendingCancels(oms)
  PROVE  Orderly' /\ Accounted'
<1>1. /\ pc = "send" /\ pc' = "send" /\ intents # <<>>
      /\ Head(intents).kind = "Cancel" /\ intents' = Tail(intents)
      /\ UNCHANGED <<strategy, gateway, book, oms, orderCh, execCh, resting,
                     taking, quotes, next, remaining>>
  BY DEF SendCancel, paperVars
<1>2. /\ StillVenue /\ Resting /\ Restless' /\ (pc' = "market" => Paper)
      /\ (pc' = "book" => pc = "book")
  BY <1>1 DEF StillVenue, Resting, Restless
<1>3. book' \in [Side -> Seq(Levels)] /\ intents \in Seq(Intents)
  BY <1>1 DEF Orderly
<1>4. Paper => next' \in Nat \ {0} /\ remaining' \in Nat
  BY <1>1, NextTyped
<1>5. FirstIntent(intents)
  BY <1>1, <1>3, FirstIntentIs
<1>6. intents[1].kind = "Cancel" /\ Tail(intents) \in Seq(Intents)
  BY <1>1, <1>5 DEF FirstIntent
<1>7. PICK v, p, o : v = View /\ p = Paper /\ o = oms
  OBVIOUS
<1>8. Fewer(o, o, intents[1].id) /\ SameRoom(v, v)
  <2>1. intents[1].id \notin DOMAIN o.orders \ PendingCancels(o)
    BY <1>5, <1>7 DEF FirstIntent
  <2>2. \A side \in Side : intents[1].id \notin Live(o, side)
    BY <2>1 DEF Live, Own
  <2>. QED  BY <2>2 DEF Fewer, SameRoom
<1>9. PICK in : in = intents
  OBVIOUS
<1>10. /\ ImbalanceInv(o, v, in) => ImbalanceInv(o, v, Tail(in))
       /\ MakerAnswer(o, v, in, p) => MakerAnswer(o, v, Tail(in), p)
  BY <1>5, <1>6, <1>8, <1>9, CancelledFits
<1>11. /\ strategy = "imbalance" => ImbalanceInv(o, v, in)
       /\ strategy = "market_maker" => MakerAnswer(o, v, in, p)
  BY <1>7, <1>9, IntentsFit
<1>. QED  BY <1>1, <1>2, <1>3, <1>4, <1>6, <1>7, <1>9, <1>10, <1>11, Calm

(* The cancel is sent. *)
LEMMA CancelSome ==
  ASSUME Orderly, Accounted, SendCancel,
         Head(intents).id \in DOMAIN oms.orders \ PendingCancels(oms)
  PROVE  Orderly' /\ Accounted'
<1>1. PICK id : id = Head(intents).id
  OBVIOUS
<1>2. /\ pc = "send" /\ intents # <<>> /\ Head(intents).kind = "Cancel"
      /\ intents' = Tail(intents) /\ pc' = IF Paper THEN "command" ELSE pc
      /\ oms' = OnCancelSent(oms, id)
      /\ orderCh' = Append(orderCh, Sim!CancelCmd(id))
      /\ UNCHANGED <<strategy, gateway, book, execCh, resting, taking, quotes, next,
                     remaining>>
  BY <1>1 DEF SendCancel, Sends, paperVars
<1>3. PICK o, p, v, in, r, c : /\ o = oms /\ p = oms' /\ v = View /\ in = intents
                               /\ r = execCh /\ c = Sim!CancelCmd(id)
  OBVIOUS
<1>4. /\ in \in Seq(Intents) /\ IsOms(o) /\ Numbered(o) /\ in # <<>>
      /\ id \in DOMAIN o.orders /\ id \notin PendingCancels(o)
  BY <1>1, <1>2, <1>3 DEF Orderly
<1>5. FirstIntent(in)
  BY <1>4, FirstIntentIs
<1>6. in[1].kind = "Cancel" /\ Tail(in) \in Seq(Intents) /\ in[1].id = id
  BY <1>1, <1>2, <1>3, <1>5 DEF FirstIntent
<1>7. IsOms(p) /\ Marked(o, p, id, TRUE)
  BY <1>2, <1>3, <1>4, CancelSentIs
<1>8. p.next_cl_id = o.next_cl_id /\ Numbered(p)
  BY <1>4, <1>7 DEF Marked, Numbered
<1>9. PICK n \in Nat : n = o.next_cl_id
  BY <1>4 DEF IsOms
<1>10. id \in 1..(n - 1) /\ id \in Nat
  BY <1>4, <1>9 DEF Numbered
<1>11. c \in Cmds /\ c.cmd = "Cancel" /\ c.id = id
  BY <1>3, <1>10 DEF Sim!CancelCmd, Cmds
<1>12. Orderly'
  <2>1. Sent
    BY <1>2, <1>3, <1>6, <1>7, <1>8 DEF Sent
  <2>2. /\ n = oms.next_cl_id /\ n = oms'.next_cl_id /\ n <= n
        /\ c.id \in 1..(n - 1) /\ (c.cmd = "New" => c.id = n)
        /\ orderCh' = Append(orderCh, c)
    BY <1>2, <1>3, <1>8, <1>9, <1>10, <1>11
  <2>. QED  BY <1>11, <2>1, <2>2, SentOrderly
<1>13. ASSUME strategy # "dyn" PROVE Accounted'
  <2>1. /\ Books(o, v, r) /\ Linked(v) /\ Bounded(v) /\ InventoryBound
    BY <1>3, <1>13 DEF Accounted
  <2>2. /\ Paper' = Paper /\ Allowance' = Allowance /\ strategy' = strategy
        /\ execCh' = r
    BY <1>2, <1>3 DEF Paper, Allowance
  <2>3. PICK w : w = View'
    OBVIOUS
  <2>4. PICK firm \in BOOLEAN : firm <=> id \in DOMAIN v.orders
    OBVIOUS
  <2>5. IsOms(v) /\ AllReports(r, n) /\ \E S : r \in Seq(S)
    BY <1>3, <1>9, ViewIs DEF ViewOrderly
  <2>6. IsOms(w) /\ Marked(v, w, id, firm)
    <3>1. PICK S : r \in Seq(S)
      BY <2>5
    <3>2. Marked(o, p, id, firm)
      BY <1>7 DEF Marked
    <3>3. firm => \A i \in 1..Len(r) : r[i].id = id => ~Crossed(r[i])
      BY <2>1, <2>4 DEF Books, CrossedGone, Crossed
    <3>4. w = OnExecs(p, r) /\ v = OnExecs(o, r)
      BY <1>3, <2>2, <2>3 DEF View
    <3>5. Marked(OnExecs(o, r), OnExecs(p, r), id, firm)
      BY <1>4, <1>7, <2>5, <3>1, <3>2, <3>3, MarkedView
    <3>6. IsOms(OnExecs(p, r))
      BY <1>7, <2>5, <3>1, ViewTyped
    <3>. QED  BY <3>4, <3>5, <3>6
  <2>7. Books(p, w, r) /\ Numbered(p) /\ SameRoom(v, w)
    <3>1. IsOms(o) /\ Numbered(o) /\ IsOms(p) /\ IsOms(w) /\ Books(o, v, r)
      BY <1>4, <1>7, <2>1, <2>6
    <3>2. (firm <=> id \in DOMAIN v.orders) /\ Marked(o, p, id, TRUE)
      BY <1>7, <2>4
    <3>3. Marked(v, w, id, firm)
      BY <2>6
    <3>. QED  BY <3>1, <3>2, <3>3, BooksCancel
  <2>8. Books(p, w, r) /\ \A s \in Side : Room(w, s) = Room(v, s)
    BY <2>7 DEF SameRoom
  <2>9. Books(oms, View, execCh)'
    BY <1>3, <2>2, <2>3, <2>8
  <2>10. /\ DOMAIN w.orders = DOMAIN v.orders /\ w.position = v.position
        /\ \A i \in DOMAIN v.orders : /\ w.orders[i].leaves = v.orders[i].leaves
                                      /\ w.orders[i].acked = v.orders[i].acked
    BY <2>6 DEF Marked
  <2>11. Linked(View)'
    <3>1. PICK ch, t : ch = orderCh /\ t = orderCh'
      OBVIOUS
    <3>2. \A i \in News(t) : \E j \in News(ch) : t[i] = ch[j]
      <4>1. ch \in Seq(Cmds)
        BY <3>1 DEF Orderly
      <4>2. t = Append(ch, c)
        BY <1>2, <1>3, <3>1
      <4>3. WireAhead(t, ch, c)
        BY <1>11, <4>1, <4>2, WireAppend
      <4>. QED  BY <1>11, <4>3 DEF WireAhead
    <3>3. \A j \in News(ch) :
            ch[j].id \in DOMAIN v.orders => /\ v.orders[ch[j].id].leaves = ch[j].qty
                                            /\ ~v.orders[ch[j].id].acked
      BY <2>1, <3>1 DEF Linked
    <3>4. \A i \in News(t) :
            t[i].id \in DOMAIN w.orders => /\ w.orders[t[i].id].leaves = t[i].qty
                                           /\ ~w.orders[t[i].id].acked
      BY <2>10, <3>2, <3>3
    <3>5. /\ pc = "send" /\ pc' \notin {"take", "rest"}
          /\ UNCHANGED <<resting, taking, quotes>>
      BY <1>2
    <3>6. ~Paper /\ taking # NoOrder =>
            (taking.id \in DOMAIN w.orders => w.orders[taking.id].leaves = taking.qty)
      BY <2>1, <2>10 DEF Linked
    <3>7. /\ \A i \in DOMAIN resting \cap DOMAIN w.orders :
               w.orders[i].leaves = resting[i].leaves
          /\ \A i \in 1..Len(quotes) :
               quotes[i].id \in DOMAIN w.orders =>
                 w.orders[quotes[i].id].leaves = quotes[i].leaves
      BY <2>1, <2>10 DEF Linked
    <3>. QED  BY <2>2, <2>3, <3>1, <3>4, <3>5, <3>6, <3>7 DEF Linked
  <2>12. Bounded(View)'
    BY <2>1, <2>2, <2>3, <2>8 DEF Bounded
  <2>13. InventoryBound'
    <3>1. p.position = o.position
      BY <1>7 DEF Marked
    <3>. QED  BY <1>3, <2>1, <2>2, <3>1 DEF InventoryBound
  <2>14. Fewer(o, p, in[1].id) /\ SameRoom(v, w)
    BY <1>6, <1>7, <2>8, <2>10, MarkedFewer DEF SameRoom
  <2>15. strategy' = "imbalance" => ImbalanceInv(oms, View, intents)'
    <3>. SUFFICES ASSUME strategy = "imbalance" PROVE ImbalanceInv(p, w, Tail(in))
      BY <1>2, <1>3, <2>2, <2>3
    <3>1. ImbalanceInv(o, v, in)
      BY <1>3, IntentsFit
    <3>. QED  BY <1>5, <1>6, <2>14, <3>1, CancelledFits
  <2>16. strategy' = "market_maker" => MakerInv(oms, View, intents)'
    <3>. SUFFICES ASSUME strategy = "market_maker" PROVE MakerInv(oms, View, intents)'
      BY <2>2
    <3>1. PICK q : q = Paper
      OBVIOUS
    <3>2. MakerAnswer(o, v, in, q)
      BY <1>3, <3>1, IntentsFit
    <3>3. MakerAnswer(p, w, Tail(in), q)
      BY <1>5, <1>6, <2>14, <3>2, CancelledFits
    <3>4. \A s \in Side : SideInv(p, w, Tail(in), s, Paper)
      BY <3>1, <3>3 DEF MakerAnswer
    <3>5. \A s \in Side : SideInv(oms, View, intents, s, Paper)'
      BY <1>2, <1>3, <2>2, <2>3, <3>4
    <3>6. ASSUME Paper PROVE PaperMaker(oms, View)'
      <4>1. PaperMaker(o, v)
        BY <1>3, <3>6 DEF Accounted, MakerInv
      <4>2. DOMAIN v.orders \cap PendingCancels(o) = {}
        BY <1>2, <4>1 DEF PaperMaker
      <4>3. pc' = "command" /\ orderCh = <<>>
        BY <1>2, <3>6 DEF Orderly, PaperInv
      <4>4. orderCh' = <<c>>
        BY <1>2, <1>3, <4>3
      <4>5. \A i \in DOMAIN p.orders : i # id => p.orders[i].status = o.orders[i].status
        BY <1>7 DEF Marked
      <4>6. \A i \in PendingCancels(p) : i = id \/ i \in PendingCancels(o)
        BY <1>7, <4>5 DEF PendingCancels, Marked
      <4>7. \A i \in DOMAIN w.orders \cap PendingCancels(p) :
              pc' = "command" /\ orderCh'[1] = Sim!CancelCmd(i)
        BY <1>3, <2>10, <4>2, <4>3, <4>4, <4>6
      <4>8. News(orderCh') = {}
        BY <1>11, <4>4 DEF News
      <4>9. \A i \in News(orderCh') : orderCh'[i].tif = "PostOnly"
        BY <4>8
      <4>10. \A i \in DOMAIN w.orders \cap PendingCancels(p) :
               (pc = "command" /\ orderCh[1] = Sim!CancelCmd(i))'
        BY <4>7 DEF Sim!CancelCmd
      <4>. QED  BY <1>3, <2>3, <4>3, <4>9, <4>10 DEF PaperMaker
    <3>. QED  BY <2>2, <3>5, <3>6 DEF MakerInv
  <2>. QED  BY <2>9, <2>11, <2>12, <2>13, <2>15, <2>16 DEF Accounted
<1>. QED  BY <1>2, <1>12, <1>13 DEF Accounted

(* A new order is sent. *)
NewSent(o, p, v, w, id, x) ==
  /\ Joined(o, p, id, x) /\ Joined(v, w, id, x)
  /\ x.status # "PendingCancel"
  /\ \A i \in DOMAIN o.orders : i # id

(* It is the taker's one order. *)
LEMMA TakerSends ==
  ASSUME NEW o, NEW v, NEW in, FirstIntent(in), IsNew(in[1]), ImbalanceInv(o, v, in),
         NEW p, NEW w, NEW id, NEW x, NewSent(o, p, v, w, id, x)
  PROVE  /\ Room(v, in[1].side) + in[1].qty <= MaxInventory
         /\ ImbalanceInv(p, w, Tail(in))
<1>1. PICK t : t = Tail(in)
  OBVIOUS
<1>2. 1 \in 1..Len(in) /\ Behind(t, in)
  BY <1>1 DEF FirstIntent
<1>3. /\ DOMAIN o.orders = {} /\ Len(in) = 1
      /\ Room(v, in[1].side) + in[1].qty <= MaxInventory
  BY <1>2 DEF ImbalanceInv
<1>4. Len(t) = 0
  BY <1>2, <1>3 DEF Behind
<1>5. DOMAIN p.orders \subseteq {id}
  BY <1>3 DEF NewSent, Joined
<1>6. \A i \in 1..Len(t) : ~IsNew(t[i])
  BY <1>4
<1>7. \E y : DOMAIN p.orders \subseteq {y}
  BY <1>5
<1>8. ImbalanceInv(p, w, t)
  BY <1>6, <1>7 DEF ImbalanceInv
<1>. QED  BY <1>1, <1>3, <1>8

(* It is the maker's one order of its side. *)
LEMMA MakerSends ==
  ASSUME NEW o, NEW v, NEW in, NEW paper, FirstIntent(in), in[1].kind = "New",
         MakerAnswer(o, v, in, paper),
         NEW p, NEW w, NEW id, NEW x, x.side = in[1].side, x.leaves \in Int,
         IsOms(v), IsOms(w), NewSent(o, p, v, w, id, x), Roomier(v, w, x)
  PROVE  MakerAnswer(p, w, Tail(in), paper)
<1>1. PICK t : t = Tail(in)
  OBVIOUS
<1>2. /\ t \in Seq(Intents) /\ Behind(t, in) /\ 1 \in 1..Len(in) /\ IsNew(in[1])
      /\ in[1].side \in Side /\ 1 \in NewOf(in, in[1].side)
  BY <1>1 DEF FirstIntent
<1>3. /\ DOMAIN p.orders = DOMAIN o.orders \cup {id} /\ p.orders[id] = x
      /\ \A i \in DOMAIN o.orders : i # id /\ p.orders[i] = o.orders[i]
      /\ x.status # "PendingCancel"
  BY DEF NewSent, Joined
<1>4. ASSUME NEW side \in Side PROVE SideInv(p, w, t, side, paper)
  <2>1. SideInv(o, v, in, side, paper)
    BY DEF MakerAnswer
  <2>2. CASE in[1].side = side
    <3>1. 1 \in NewOf(in, side)
      BY <1>2, <2>2
    <3>2. AtMostTwo(Own(o, side)) /\ Live(o, side) = {}
      BY <2>1, <3>1, FirstOfSide
    <3>3. Own(p, side) \subseteq Own(o, side) \cup {id}
      BY <1>3 DEF Own
    <3>4. PICK y, z : Own(o, side) \subseteq {y, z}
      BY <3>2 DEF AtMostTwo
    <3>5. Own(p, side) \subseteq {y, z, id}
      BY <3>3, <3>4
    <3>6. AtMostThree(Own(p, side))
      BY <3>5 DEF AtMostThree
    <3>7. Live(p, side) \subseteq {id}
      BY <1>3, <3>2 DEF Live, Own, PendingCancels
    <3>. QED  BY <1>2, <2>1, <3>1, <3>6, <3>7, SideLast
  <2>3. CASE in[1].side # side
    <3>1. Own(p, side) = Own(o, side)
      BY <1>3, <2>3 DEF Own
    <3>2. Live(p, side) \subseteq Live(o, side)
      BY <1>3, <3>1 DEF Live, Own, PendingCancels
    <3>3. \A i \in Live(p, side) : ~IsCancel(in[1], i)
      BY <1>2 DEF IsNew, IsCancel
    <3>4. w.position = v.position /\ Room(w, side) = Room(v, side)
      <4>1. side # x.side /\ Room(v, side) \in Int
        BY <2>3, RoomIsInt
      <4>. QED  BY <4>1 DEF Roomier
    <3>. QED  BY <1>2, <2>1, <2>3, <3>1, <3>2, <3>3, <3>4, SideTail
  <2>. QED  BY <2>2, <2>3
<1>. QED  BY <1>1, <1>2, <1>4 DEF MakerAnswer

(* The order fits under the bound. *)
LEMMA SentBounded ==
  ASSUME NEW v, IsOms(v), NEW w, NEW x, x.side \in Side, x.leaves \in Int,
         Roomier(v, w, x), NEW n \in Int, \A s \in Side : Room(v, s) <= n,
         Room(v, x.side) + x.leaves <= n
  PROVE  \A s \in Side : Room(w, s) <= n
<1>. SUFFICES ASSUME NEW s \in Side PROVE Room(w, s) <= n
  OBVIOUS
<1>1. PICK a \in Int : a = Room(v, s)
  BY RoomIsInt
<1>2. Room(w, s) = a + (IF s = x.side THEN x.leaves ELSE 0)
  BY <1>1 DEF Roomier
<1>3. CASE s = x.side
  BY <1>1, <1>2, <1>3
<1>4. CASE s # x.side
  BY <1>1, <1>2, <1>4
<1>. QED  BY <1>3, <1>4

(* What a strategy sends fits. *)
LEMMA SentFits ==
  ASSUME Orderly, Accounted, strategy # "dyn", pc = "send",
         FirstIntent(intents), intents[1].kind = "New"
  PROVE  Room(View, intents[1].side) + intents[1].qty <= MaxInventory + Allowance
<1>1. PICK o, v, in, side : o = oms /\ v = View /\ in = intents /\ side = in[1].side
  OBVIOUS
<1>2. /\ IsNew(in[1]) /\ side \in Side /\ 1 \in NewOf(in, side)
  BY <1>1 DEF FirstIntent
<1>3. PICK a \in Int, qty \in Int : a = Room(v, side) /\ qty = in[1].qty
  <2>1. IsOms(v)
    BY <1>1, ViewIs DEF ViewOrderly
  <2>2. in[1].qty \in Int
    BY <1>1 DEF FirstIntent
  <2>. QED  BY <1>2, <2>1, <2>2, RoomIsInt
<1>4. CASE strategy = "imbalance"
  <2>1. ImbalanceInv(o, v, in)
    BY <1>1, <1>4, IntentsFit
  <2>2. 1 \in 1..Len(in)
    BY <1>1 DEF FirstIntent
  <2>3. a + qty <= MaxInventory
    BY <1>1, <1>2, <1>3, <2>1, <2>2 DEF ImbalanceInv
  <2>4. Allowance = 0
    BY <1>4 DEF Allowance
  <2>. QED  BY <1>1, <1>3, <2>3, <2>4, StrategiesAssumption
<1>5. CASE strategy = "market_maker"
  <2>1. SideInv(o, v, in, side, Paper)
    BY <1>1, <1>2, <1>5, IntentsFit DEF MakerAnswer
  <2>2. PICK paper : paper = Paper
    OBVIOUS
  <2>3. qty = OrderQty /\ Live(o, side) = {} /\ Affordable(v, side, paper)
    BY <1>2, <1>3, <2>1, <2>2, FirstOfSide
  <2>4. CASE ~Paper
    BY <1>1, <1>3, <1>5, <2>2, <2>3, <2>4, StrategiesAssumption DEF Affordable,
       Allowance
  <2>5. CASE Paper
    <3>1. PaperMaker(o, v) /\ Books(o, v, execCh)
      BY <1>1, <1>5, <2>5 DEF Accounted, MakerInv
    <3>2. DOMAIN v.orders \cap PendingCancels(o) = {} /\ pc # "command"
      BY <3>1 DEF PaperMaker
    <3>3. Own(v, side) \subseteq Own(o, side)
      BY <3>1 DEF Books, Follows, Own
    <3>4. Own(v, side) = {}
      BY <2>3, <3>2, <3>3 DEF Live, Own
    <3>5. v.open[side] = 0
      BY <1>2, <3>1, <3>4, NoneOpen DEF Books
    <3>6. PICK p \in Int : p = Sign(side) * v.position
      <4>1. v.position \in Int
        BY <3>1 DEF Books, IsOms
      <4>. QED  BY <1>2, <4>1, SignIs
    <3>7. a = p
      BY <1>3, <3>5, <3>6 DEF Room
    <3>8. a + qty <= MaxInventory
      BY <2>2, <2>3, <2>5, <3>6, <3>7 DEF Affordable
    <3>9. Allowance = 0
      BY <2>5 DEF Allowance
    <3>. QED  BY <1>1, <1>3, <3>8, <3>9, StrategiesAssumption
  <2>. QED  BY <2>4, <2>5
<1>. QED  BY <1>4, <1>5 DEF Orderly

LEMMA SendPreserves ==
  ASSUME Orderly, Accounted, SendNew
  PROVE  Orderly' /\ Accounted'
<1>1. PICK o, p, v, in, r : o = oms /\ p = oms' /\ v = View /\ in = intents /\ r = execCh
  OBVIOUS
<1>2. PICK n \in Nat \ {0} : n = o.next_cl_id
  BY <1>1 DEF Orderly, IsOms
<1>3. /\ pc = "send" /\ in # <<>> /\ in \in Seq(Intents) /\ Head(in).kind = "New"
      /\ intents' = Tail(in) /\ pc' = IF Paper THEN "command" ELSE pc
      /\ UNCHANGED <<strategy, gateway, book, execCh, resting, taking, quotes, next,
                     remaining>>
  BY <1>1 DEF SendNew, Sends, paperVars, Orderly
<1>4. FirstIntent(in)
  BY <1>3, FirstIntentIs
<1>5. PICK i : i = in[1]
  OBVIOUS
<1>6. /\ i.kind = "New" /\ i.side \in Side /\ i.price \in AnyPrice /\ IsNew(i)
      /\ i.qty \in 1..OrderQty /\ i.tif \in TimeInForce /\ Tail(in) \in Seq(Intents)
      /\ Head(in) = i
  BY <1>3, <1>4, <1>5 DEF FirstIntent
<1>7. PICK x, c : /\ x = NewOrder(i.side, i.price, i.qty)
                  /\ c = Sim!NewCmd(n, i.side, i.price, i.qty, i.tif)
  OBVIOUS
<1>8. /\ n <= OrdersOf /\ p = OnNewSent(NextClId(o), n, i.side, i.price, i.qty)
      /\ orderCh' = Append(orderCh, c)
  BY <1>1, <1>2, <1>3, <1>6, <1>7 DEF SendNew, Sends
<1>9. /\ x.side = i.side /\ x.leaves = i.qty /\ x.status = "PendingNew" /\ ~x.acked
      /\ x.leaves \in 0..OrderQty /\ x.leaves \in Int
  BY <1>6, <1>7, StrategiesAssumption DEF NewOrder
<1>10. /\ c \in Cmds /\ c.cmd = "New" /\ c.id = n /\ c.qty = i.qty /\ c.tif = i.tif
  BY <1>6, <1>7 DEF Sim!NewCmd, Cmds, NewCmds
<1>11. IsOms(o) /\ Numbered(o) /\ \A id \in DOMAIN o.orders : id # n
  BY <1>1, <1>2 DEF Orderly, Numbered
<1>12. IsOms(p) /\ IsOrder(x) /\ Joined(o, p, n, x)
  <2>1. n \notin DOMAIN o.orders /\ i.qty \in Int
    BY <1>6, <1>11
  <2>. QED  BY <1>6, <1>7, <1>8, <1>11, <2>1, NewSentIs
<1>13. p.next_cl_id = n + 1 /\ Numbered(p)
  <2>1. p.next_cl_id = n + 1
    BY <1>2, <1>12 DEF Joined
  <2>2. DOMAIN p.orders \subseteq 1..n
    BY <1>2, <1>11, <1>12 DEF Joined, Numbered
  <2>3. \A id \in DOMAIN p.orders : p.orders[id].leaves \in 0..OrderQty
    BY <1>9, <1>11, <1>12 DEF Joined, Numbered
  <2>4. (n + 1) - 1 = n
    BY <1>2
  <2>. QED  BY <2>1, <2>2, <2>3, <2>4 DEF Numbered
<1>14. Orderly'
  <2>1. Sent
    BY <1>1, <1>3, <1>6, <1>12, <1>13 DEF Sent
  <2>2. PICK m \in Nat : m = n + 1
    BY <1>2
  <2>3. /\ n \in Nat /\ n = oms.next_cl_id /\ m = oms'.next_cl_id /\ n <= m
        /\ c.id \in 1..(m - 1) /\ (c.cmd = "New" => c.id = n)
    BY <1>1, <1>2, <1>10, <1>13, <2>2
  <2>. QED  BY <1>8, <1>10, <2>1, <2>2, <2>3, SentOrderly
<1>15. ASSUME strategy # "dyn" PROVE Accounted'
  <2>1. /\ Books(o, v, r) /\ Linked(v) /\ Bounded(v) /\ InventoryBound
    BY <1>1, <1>15 DEF Accounted
  <2>2. /\ Paper' = Paper /\ Allowance' = Allowance /\ strategy' = strategy
        /\ execCh' = r
    BY <1>1, <1>3 DEF Paper, Allowance
  <2>3. PICK w : w = View'
    OBVIOUS
  <2>4. IsOms(v) /\ AllReports(r, n) /\ \E S : r \in Seq(S)
    BY <1>1, <1>2, ViewIs DEF ViewOrderly
  <2>5. IsOms(w) /\ Joined(v, w, n, x)
    <3>1. PICK S : r \in Seq(S)
      BY <2>4
    <3>2. \A k \in 1..Len(r) : r[k].id # n
      BY <1>2, <2>4 DEF AllReports, IsReport
    <3>3. w = OnExecs(p, r) /\ v = OnExecs(o, r)
      BY <1>1, <2>2, <2>3 DEF View
    <3>4. Joined(OnExecs(o, r), OnExecs(p, r), n, x)
      BY <1>11, <1>12, <2>4, <3>1, <3>2, JoinedView
    <3>5. IsOms(OnExecs(p, r))
      BY <1>12, <2>4, <3>1, ViewTyped
    <3>. QED  BY <3>3, <3>4, <3>5
  <2>6. Books(p, w, r) /\ Numbered(p) /\ Roomier(v, w, x)
    <3>1. n <= MaxOrders
      BY <1>8, <1>15 DEF OrdersOf
    <3>2. /\ AllReports(r, n) /\ Books(o, v, r) /\ IsOms(o) /\ Numbered(o)
          /\ IsOms(p) /\ IsOms(w) /\ n = o.next_cl_id /\ IsOrder(x)
          /\ x.leaves \in 0..OrderQty /\ x.status = "PendingNew"
          /\ Joined(o, p, n, x) /\ Joined(v, w, n, x)
      BY <1>2, <1>9, <1>11, <1>12, <2>1, <2>4, <2>5
    <3>. QED  BY <3>1, <3>2, BooksNew
  <2>7. Books(oms, View, execCh)'
    BY <1>1, <2>2, <2>3, <2>6
  <2>8. /\ DOMAIN w.orders = DOMAIN v.orders \cup {n} /\ w.orders[n] = x
        /\ \A id \in DOMAIN v.orders : w.orders[id] = v.orders[id]
    BY <2>5 DEF Joined
  <2>9. Linked(View)'
    <3>1. PICK ch, t : ch = orderCh /\ t = orderCh'
      OBVIOUS
    <3>2. \A k \in News(t) : t[k] = c \/ \E j \in News(ch) : t[k] = ch[j]
      <4>1. ch \in Seq(Cmds)
        BY <3>1 DEF Orderly
      <4>2. t = Append(ch, c)
        BY <1>8, <3>1
      <4>3. WireAhead(t, ch, c)
        BY <1>10, <4>1, <4>2, WireAppend
      <4>. QED  BY <4>3 DEF WireAhead
    <3>3. \A j \in News(ch) :
            /\ ch[j].id # n
            /\ ch[j].id \in DOMAIN v.orders => /\ v.orders[ch[j].id].leaves = ch[j].qty
                                               /\ ~v.orders[ch[j].id].acked
      BY <1>1, <1>2, <2>1, <3>1 DEF Linked, Orderly, News, Given
    <3>4. \A k \in News(t) :
            t[k].id \in DOMAIN w.orders => /\ w.orders[t[k].id].leaves = t[k].qty
                                           /\ ~w.orders[t[k].id].acked
      BY <1>9, <1>10, <2>8, <3>2, <3>3
    <3>5. /\ pc = "send" /\ pc' \notin {"take", "rest"}
          /\ UNCHANGED <<resting, taking, quotes>>
      BY <1>3
    <3>6. \A id : Given(id) => id # n
      BY <1>1, <1>2 DEF Given
    <3>7. ~Paper /\ taking # NoOrder =>
            (taking.id \in DOMAIN w.orders => w.orders[taking.id].leaves = taking.qty)
      <4>. SUFFICES ASSUME ~Paper, taking # NoOrder, taking.id \in DOMAIN w.orders
                    PROVE  w.orders[taking.id].leaves = taking.qty
        OBVIOUS
      <4>1. taking.id # n
        BY <3>6 DEF Orderly, SimInv
      <4>. QED  BY <2>1, <2>8, <4>1 DEF Linked
    <3>8. \A id \in DOMAIN resting \cap DOMAIN w.orders :
            w.orders[id].leaves = resting[id].leaves
      <4>1. n \notin DOMAIN resting
        BY <3>6 DEF Orderly, SimInv, PaperInv
      <4>. QED  BY <2>1, <2>8, <4>1 DEF Linked
    <3>9. \A k \in 1..Len(quotes) :
            quotes[k].id \in DOMAIN w.orders =>
              w.orders[quotes[k].id].leaves = quotes[k].leaves
      <4>1. \A k \in 1..Len(quotes) : quotes[k].id # n
        <5>1. CASE Paper
          BY <3>6, <5>1 DEF Orderly, PaperInv
        <5>2. CASE ~Paper
          <6>1. Len(quotes) = 0
            BY <5>2 DEF Orderly, SimInv
          <6>. QED  BY <6>1
        <5>. QED  BY <5>1, <5>2
      <4>. QED  BY <2>1, <2>8, <4>1 DEF Linked
    <3>. QED  BY <2>2, <2>3, <3>1, <3>4, <3>5, <3>7, <3>8, <3>9 DEF Linked
  <2>10. Bounded(View)'
    <3>1. PICK b \in Int : b = MaxInventory + Allowance
      BY AllowanceIs
    <3>2. \A s \in Side : Room(v, s) <= b
      BY <2>1, <3>1 DEF Bounded
    <3>3. Room(v, x.side) + x.leaves <= b
      BY <1>1, <1>3, <1>4, <1>5, <1>6, <1>9, <1>15, <3>1, SentFits
    <3>4. x.side \in Side
      BY <1>6, <1>9
    <3>5. \A s \in Side : Room(w, s) <= b
      BY <1>9, <2>4, <2>6, <3>2, <3>3, <3>4, SentBounded
    <3>. QED  BY <2>2, <2>3, <3>1, <3>5 DEF Bounded
  <2>11. InventoryBound'
    <3>1. p.position = o.position
      BY <1>12 DEF Joined
    <3>. QED  BY <1>1, <2>1, <2>2, <3>1 DEF InventoryBound
  <2>12. NewSent(o, p, v, w, n, x)
    BY <1>9, <1>11, <1>12, <2>5 DEF NewSent
  <2>13. strategy' = "imbalance" => ImbalanceInv(oms, View, intents)'
    <3>. SUFFICES ASSUME strategy = "imbalance" PROVE ImbalanceInv(p, w, Tail(in))
      BY <1>1, <1>3, <2>2, <2>3
    <3>1. ImbalanceInv(o, v, in) /\ IsNew(in[1])
      BY <1>1, <1>5, <1>6, IntentsFit
    <3>. QED  BY <1>4, <2>12, <3>1, TakerSends
  <2>14. strategy' = "market_maker" => MakerInv(oms, View, intents)'
    <3>. SUFFICES ASSUME strategy = "market_maker" PROVE MakerInv(oms, View, intents)'
      BY <2>2
    <3>1. PICK q : q = Paper
      OBVIOUS
    <3>2. MakerAnswer(o, v, in, q)
      BY <1>1, <3>1, IntentsFit
    <3>3. MakerAnswer(p, w, Tail(in), q)
      <4>1. x.side = in[1].side /\ in[1].kind = "New"
        BY <1>5, <1>6, <1>9
      <4>. QED  BY <1>4, <1>9, <2>4, <2>5, <2>6, <2>12, <3>2, <4>1, MakerSends
    <3>4. \A s \in Side : SideInv(p, w, Tail(in), s, Paper)
      BY <3>1, <3>3 DEF MakerAnswer
    <3>5. \A s \in Side : SideInv(oms, View, intents, s, Paper)'
      BY <1>1, <1>3, <2>2, <2>3, <3>4
    <3>6. ASSUME Paper PROVE PaperMaker(oms, View)'
      <4>1. PaperMaker(o, v)
        BY <1>1, <3>6 DEF Accounted, MakerInv
      <4>2. DOMAIN v.orders \cap PendingCancels(o) = {}
        BY <1>3, <4>1 DEF PaperMaker
      <4>3. pc' = "command" /\ orderCh = <<>>
        BY <1>3, <3>6 DEF Orderly, PaperInv
      <4>4. orderCh' = <<c>>
        BY <1>8, <4>3
      <4>5. i.tif = "PostOnly"
        <5>1. SideInv(o, v, in, i.side, q) /\ 1 \in NewOf(in, i.side)
          BY <1>4, <1>5, <1>6, <3>2 DEF MakerAnswer, FirstIntent
        <5>. QED  BY <1>5, <5>1, FirstOfSide
      <4>6. \A k \in News(orderCh') : orderCh'[k].tif = "PostOnly"
        BY <1>10, <4>4, <4>5 DEF News
      <4>7. \A id \in DOMAIN w.orders : id \notin PendingCancels(p)
        <5>1. /\ DOMAIN p.orders = DOMAIN o.orders \cup {n} /\ p.orders[n] = x
              /\ \A id \in DOMAIN o.orders : p.orders[id] = o.orders[id]
          BY <1>12 DEF Joined
        <5>2. n \notin PendingCancels(p)
          BY <1>9, <5>1 DEF PendingCancels
        <5>3. \A id \in DOMAIN v.orders : id \in DOMAIN o.orders
          BY <2>1 DEF Books, Follows
        <5>4. \A id \in DOMAIN v.orders : id \notin PendingCancels(p)
          BY <4>2, <5>1, <5>3 DEF PendingCancels
        <5>. QED  BY <2>8, <5>2, <5>4
      <4>. QED  BY <1>1, <2>3, <4>3, <4>6, <4>7 DEF PaperMaker
    <3>. QED  BY <2>2, <3>5, <3>6 DEF MakerInv
  <2>. QED  BY <2>7, <2>9, <2>10, <2>11, <2>13, <2>14 DEF Accounted
<1>. QED  BY <1>3, <1>14, <1>15 DEF Accounted

-----------------------------------------------------------------------------
(* The first state, and every step. *)

LEMMA NewOmsIs ==
  /\ IsOms(NewOms) /\ Numbered(NewOms) /\ DOMAIN NewOms.orders = {}
  /\ NewOms.next_cl_id = 1 /\ NewOms.position = 0
  /\ \A side \in Side : NewOms.open[side] = 0
<1>1. PICK orders : orders = [i \in {} |-> 0]
  OBVIOUS
<1>2. PICK open : open = [s \in Side |-> 0]
  OBVIOUS
<1>3. DOMAIN orders = {} /\ open \in [Side -> Int] /\ \A s \in Side : open[s] = 0
  BY <1>1, <1>2
<1>4. NewOms = [orders |-> orders, next_cl_id |-> 1, position |-> 0,
                cash |-> 0, open |-> open]
  BY <1>1, <1>2 DEF NewOms
<1>5. /\ IsOms(NewOms) /\ NewOms.orders = orders /\ NewOms.next_cl_id = 1
      /\ NewOms.position = 0 /\ NewOms.open = open
  <2>1. 1 \in Nat \ {0} /\ 0 \in Int /\ \A id \in DOMAIN orders : IsOrder(orders[id])
    BY <1>3
  <2>. QED  BY <1>3, <1>4, <2>1, OmsIs
<1>. QED  BY <1>3, <1>5 DEF Numbered

LEMMA InitOrderly ==
  ASSUME Init
  PROVE  Orderly
<1>1. /\ oms = NewOms /\ pc = "idle" /\ intents = <<>> /\ quotes = <<>>
      /\ orderCh = <<>> /\ execCh = <<>> /\ taking = NoOrder
      /\ resting = [i \in {} |-> 0] /\ next = 1 /\ remaining = 0
  BY DEF Init, Sim!VenueInit
<1>2. DOMAIN resting = {}
  BY <1>1
<1>3. book \in [Side -> Seq(Levels)]
  <2>1. CASE Paper
    BY <2>1 DEF Init, EmptyBook
  <2>2. CASE ~Paper
    <3>1. ASSUME NEW s \in Side
          PROVE  <<Level(StillPrice(s), Min(Qtys))>> \in Seq(Levels)
      <4>1. StillPrice(s) \in AnyPrice
        BY DEF AnyPrice
      <4>2. Level(StillPrice(s), Min(Qtys)) \in Levels
        BY <2>2, <4>1 DEF Levels, Level
      <4>. QED  BY <4>2
    <3>. QED  BY <2>2, <3>1 DEF Init, StillBook
  <2>. QED  BY <2>1, <2>2
<1>4. IF Paper THEN PaperInv ELSE SimInv
  <2>1. News(orderCh) = {}
    BY <1>1 DEF News
  <2>2. PaperInv
    BY <1>1, <1>2, <2>1 DEF PaperInv
  <2>3. SimInv
    BY <1>1, <1>2, <2>1 DEF SimInv, Distinct
  <2>. QED  BY <2>2, <2>3
<1>5. strategy \in {"market_maker", "imbalance", "dyn"} /\ gateway \in {"sim", "paper"}
  BY TradingAssumption DEF Init
<1>6. IsRow(execCh) /\ Len(execCh) = 0 /\ Len(orderCh) = 0
  BY <1>1, RowEmpty
<1>7. IsOms(oms) /\ Numbered(oms)
  BY <1>1, NewOmsIs
<1>8. orderCh \in Seq(Cmds) /\ quotes \in Seq(Quotes) /\ intents \in Seq(Intents)
  BY <1>1
<1>. QED  BY <1>1, <1>3, <1>4, <1>5, <1>6, <1>7, <1>8 DEF Orderly

LEMMA NothingLinked ==
  ASSUME Init, NEW v, DOMAIN v.orders = {}
  PROVE  Linked(v)
<1>1. /\ quotes = <<>> /\ orderCh = <<>> /\ taking = NoOrder /\ pc = "idle"
      /\ resting = [i \in {} |-> 0]
  BY DEF Init, Sim!VenueInit
<1>2. News(orderCh) = {} /\ Len(quotes) = 0
  BY <1>1 DEF News
<1>. QED  BY <1>1, <1>2 DEF Linked

LEMMA InitAccounted ==
  ASSUME Init
  PROVE  Accounted
<1>. SUFFICES ASSUME strategy # "dyn" PROVE Accounted
  BY DEF Accounted
<1>1. oms = NewOms /\ intents = <<>> /\ orderCh = <<>> /\ execCh = <<>> /\ pc = "idle"
  BY DEF Init, Sim!VenueInit
<1>2. PICK o : o = oms
  OBVIOUS
<1>3. View = o
  BY <1>1, <1>2, ExecsNone DEF View
<1>4. /\ IsOms(o) /\ Numbered(o) /\ DOMAIN o.orders = {} /\ o.next_cl_id = 1
      /\ o.position = 0 /\ \A side \in Side : o.open[side] = 0
  BY <1>1, <1>2, NewOmsIs
<1>5. MaxOrders \in Nat
  BY TradingAssumption
<1>6. ASSUME NEW side \in Side PROVE Room(o, side) = 0
  <2>1. Sign(side) \in {1, -1}
    BY SignIs
  <2>. QED  BY <1>4, <2>1 DEF Room
<1>7. Allowance \in Nat /\ MaxInventory \in Nat
  BY StrategiesAssumption DEF Allowance
<1>8. Books(oms, View, execCh)
  <2>1. OpenAddsUp(o)
    <3>. SUFFICES ASSUME NEW side \in Side
                  PROVE  IsSum(Leaves(o, side), MaxOrders, o.open[side])
      BY DEF OpenAddsUp
    <3>1. \A i \in 1..MaxOrders : Leaves(o, side)[i] = 0
      BY <1>4, <1>5 DEF Leaves, Own
    <3>2. IsSum(Leaves(o, side), MaxOrders, 0)
      BY <1>5, <3>1, ZeroSum
    <3>. QED  BY <1>4, <3>2
  <2>2. Follows(o, o)
    BY <1>4, <1>6 DEF Follows
  <2>3. CrossedGone(execCh, o)
    BY <1>4 DEF CrossedGone
  <2>. QED  BY <1>2, <1>3, <1>4, <1>5, <2>1, <2>2, <2>3 DEF Books
<1>9. Linked(View)
  BY <1>3, <1>4, NothingLinked
<1>10. Bounded(View)
  <2>1. \A side \in Side : Room(View, side) = 0
    BY <1>3, <1>6
  <2>2. 0 <= MaxInventory + Allowance
    BY <1>7
  <2>. QED  BY <2>1, <2>2 DEF Bounded
<1>11. InventoryBound
  <2>1. ASSUME NEW side \in Side
        PROVE  Sign(side) * oms.position <= MaxInventory + Allowance
    <3>1. Sign(side) \in {1, -1}
      BY SignIs
    <3>. QED  BY <1>2, <1>4, <1>7, <3>1
  <2>. QED  BY <2>1 DEF InventoryBound
<1>12. ImbalanceInv(oms, View, intents)
  <2>1. Len(intents) = 0
    BY <1>1
  <2>. QED  BY <1>2, <1>4, <2>1 DEF ImbalanceInv
<1>13. MakerInv(oms, View, intents)
  <2>1. ASSUME NEW side \in Side PROVE SideInv(o, o, <<>>, side, Paper)
    <3>1. NewOf(<<>>, side) = {}
      BY DEF NewOf
    <3>2. Own(o, side) = {} /\ Live(o, side) = {}
      BY <1>4 DEF Own, Live
    <3>. QED  BY <3>1, <3>2 DEF SideInv, AtMostThree
  <2>2. PaperMaker(o, o)
    <3>1. News(orderCh) = {}
      BY <1>1 DEF News
    <3>. QED  BY <1>1, <1>4, <3>1 DEF PaperMaker
  <2>. QED  BY <1>1, <1>2, <1>3, <2>1, <2>2 DEF MakerInv
<1>. QED  BY <1>8, <1>9, <1>10, <1>11, <1>12, <1>13 DEF Accounted

LEMMA NothingHappens ==
  ASSUME Orderly, Accounted, UNCHANGED vars
  PROVE  Orderly' /\ Accounted'
<1>1. UNCHANGED <<strategy, gateway, book, md, final, oms, pc, intents, orderCh,
                  execCh, resting, taking, quotes, next, remaining>>
  BY DEF vars, engineVars, venueVars, paperVars
<1>2. Orderly'
  <2>1. Levels' = Levels /\ Paper' = Paper
    BY <1>1 DEF Levels, Paper
  <2>2. PaperInv => PaperInv'
    <3>1. TouchCrosses(taking.side, taking.price) =>
            TouchCrosses(taking.side, taking.price)'
      BY <1>1 DEF TouchCrosses
    <3>. QED  BY <1>1, <3>1 DEF PaperInv, Given, QuoteIds
  <2>3. SimInv => SimInv'
    BY <1>1 DEF SimInv, Given
  <2>. QED  BY <1>1, <2>1, <2>2, <2>3 DEF Orderly, Given
<1>3. strategy # "dyn" => Linked(View)'
  <2>1. PICK v : v = View
    OBVIOUS
  <2>2. View' = v
    BY <1>1, <2>1 DEF View
  <2>3. Linked(v) => Linked(v)'
    BY <1>1 DEF Linked, Paper
  <2>. QED  BY <2>1, <2>2, <2>3 DEF Accounted
<1>4. strategy = "market_maker" /\ Paper => PaperMaker(oms, View)'
  <2>1. PICK o, v : o = oms /\ v = View
    OBVIOUS
  <2>2. View' = v /\ oms' = o
    BY <1>1, <2>1 DEF View
  <2>3. PaperMaker(o, v) => PaperMaker(oms, View)'
    BY <1>1, <2>2 DEF PaperMaker
  <2>. QED  BY <2>1, <2>3 DEF Accounted, MakerInv
<1>. QED  BY <1>1, <1>2, <1>3, <1>4, AccountedSame

LEMMA NextPreserves ==
  ASSUME Orderly, Accounted, [Next]_vars
  PROVE  Orderly' /\ Accounted'
<1>1. CASE SendCancel
  BY <1>1, CancelNothing, CancelSome
<1>2. CASE Engine
  BY <1>1, <1>2, MdPreserves, DrainPreserves, BookPreserves, KillPreserves,
     SendPreserves, RefusePreserves, SentPreserves DEF Engine
<1>3. CASE PaperVenue
  BY <1>3, PaperPreserves
<1>4. CASE SimVenueSteps
  BY <1>4, SimPreserves
<1>5. CASE UNCHANGED vars
  BY <1>5, NothingHappens
<1>. QED  BY <1>2, <1>3, <1>4, <1>5 DEF Next

(* Orders of ours are in order (Orderly) and accounted for (Accounted) in  *)
(* every state.                                                            *)
THEOREM EngineInvariant == Spec => [](Orderly /\ Accounted)
<1>1. Init => Orderly /\ Accounted
  BY InitOrderly, InitAccounted
<1>2. Orderly /\ Accounted /\ [Next]_vars => Orderly' /\ Accounted'
  BY NextPreserves
<1>. QED  BY <1>1, <1>2, PTL DEF Spec

(* The position never passes max_inventory, or that and the two older      *)
(* quotes the market maker may have under cancel at a venue with a wire.   *)
THEOREM InventoryBounded == Spec => []InventoryBound
<1>1. Accounted => InventoryBound
  BY DEF Accounted, InventoryBound
<1>. QED  BY <1>1, EngineInvariant, PTL

LEMMA FewOf ==
  ASSUME NEW x, NEW y, NEW z, NEW S, S \subseteq {x, y, z}
  PROVE  IsFiniteSet(S) /\ Cardinality(S) <= 3
<1>1. IsFiniteSet({x}) /\ Cardinality({x}) = 1
  BY FS_Singleton
<1>2. /\ IsFiniteSet({x} \cup {y})
      /\ Cardinality({x} \cup {y}) = IF y \in {x} THEN 1 ELSE 2
  BY <1>1, FS_AddElement
<1>3. PICK T : T = {x} \cup {y}
  OBVIOUS
<1>4. IsFiniteSet(T) /\ Cardinality(T) \in {1, 2}
  BY <1>2, <1>3
<1>5. /\ IsFiniteSet(T \cup {z})
      /\ Cardinality(T \cup {z}) = IF z \in T THEN Cardinality(T) ELSE Cardinality(T) + 1
  BY <1>4, FS_AddElement
<1>6. IsFiniteSet(T \cup {z}) /\ Cardinality(T \cup {z}) \in Nat
      /\ Cardinality(T \cup {z}) <= 3
  BY <1>4, <1>5
<1>7. S \subseteq T \cup {z}
  BY <1>3
<1>8. /\ IsFiniteSet(S)
      /\ Cardinality(S) <= Cardinality(T \cup {z})
  BY <1>6, <1>7, FS_Subset
<1>9. Cardinality(S) \in Nat
  BY <1>8, FS_CardinalityType
<1>. QED  BY <1>6, <1>8, <1>9

LEMMA FewOfOne ==
  ASSUME NEW x, NEW S, S \subseteq {x}
  PROVE  IsFiniteSet(S) /\ Cardinality(S) <= 1
<1>1. IsFiniteSet({x}) /\ Cardinality({x}) = 1
  BY FS_Singleton
<1>. QED  BY <1>1, FS_Subset

(* There are never more than three open orders of the market maker on a    *)
(* side, nor more than one of the imbalance taker.                         *)
THEOREM FewOrdersAlways == Spec => []FewOrders
<1>1. ASSUME Orderly, Accounted PROVE FewOrders
  <2>1. ASSUME strategy = "imbalance" PROVE Cardinality(DOMAIN oms.orders) <= 1
    <3>1. ImbalanceInv(oms, View, intents)
      BY <1>1, <2>1 DEF Accounted
    <3>2. \E x : DOMAIN oms.orders \subseteq {x}
      BY <3>1 DEF ImbalanceInv
    <3>. QED  BY <3>2, FewOfOne
  <2>2. ASSUME strategy = "market_maker", NEW side \in Side
        PROVE  Cardinality(OpenOn(side)) <= 3
    <3>1. SideInv(oms, View, intents, side, Paper)
      BY <1>1, <2>2 DEF Accounted, MakerInv
    <3>2. AtMostThree(Own(oms, side))
      <4>1. CASE NewOf(intents, side) = {}
        BY <3>1, <4>1 DEF SideInv
      <4>2. CASE NewOf(intents, side) # {}
        <5>1. AtMostTwo(Own(oms, side))
          BY <3>1, <4>2 DEF SideInv
        <5>. QED  BY <5>1 DEF AtMostTwo, AtMostThree
      <4>. QED  BY <4>1, <4>2
    <3>3. OpenOn(side) = Own(oms, side)
      BY DEF OpenOn, Own
    <3>. QED  BY <3>2, <3>3, FewOf DEF AtMostThree
  <2>. QED  BY <2>1, <2>2 DEF FewOrders
<1>. QED  BY <1>1, EngineInvariant, PTL

-----------------------------------------------------------------------------
(* The order-rate throttle.  The history of accepted orders falls into the *)
(* orders of the present window, the last window_count ones, and those of  *)
(* windows that are over; orders that were a full window before the        *)
(* present one came at least a second before it.                           *)

(* Accepted orders of earlier windows. *)
Past(r, s) == Len(s) - r.window_count

(* The clock is behind nothing. *)
NotAhead(r, t, s) ==
  /\ r.window_start <= t
  /\ \A k \in 1..Len(s) : s[k] <= t

InOrder(s) == \A i, j \in 1..Len(s) : i <= j => s[i] <= s[j]

(* Orders of the present window fall into it. *)
InWindow(r, s) ==
  /\ r.window_count <= MaxOrdersPerSec /\ r.window_count <= Len(s)
  /\ \A k \in 1..Len(s) :
       k > Past(r, s) => /\ r.window_start <= s[k]
                         /\ s[k] < r.window_start + Second

(* Orders of earlier windows precede it, a full window of them by a second.*)
BeforeWindow(r, s) ==
  \A k \in 1..Len(s) :
    /\ k <= Past(r, s) => s[k] <= r.window_start
    /\ k <= Past(r, s) - MaxOrdersPerSec => s[k] + Second <= r.window_start

(* TwiceTheLimit of a history. *)
Spread(s) ==
  \A i, j \in 1..Len(s) : j = i + 2 * MaxOrdersPerSec => s[j] - s[i] >= Second

Windows == [window_start : Nat, window_count : Nat]

Throttled(r, t, s) ==
  /\ r \in Windows /\ t \in Nat /\ s \in Seq(Nat)
  /\ NotAhead(r, t, s)
  /\ InOrder(s)
  /\ InWindow(r, s)
  /\ BeforeWindow(r, s)
  /\ Spread(s)

(* A restarted window is empty, and the one before it is a full one or     *)
(* less.                                                                   *)
LEMMA RestartKeeps ==
  ASSUME NEW r, NEW t, NEW s, Throttled(r, t, s)
  PROVE  Throttled(Window(r, t), t, s)
<1>. USE RiskAssumption
<1>1. CASE t - r.window_start < Second
  <2>1. Window(r, t) = r
    BY <1>1 DEF Throttled, Windows, Window
  <2>. QED  BY <2>1
<1>2. CASE t - r.window_start >= Second
  <2>. DEFINE w == [window_start |-> t, window_count |-> 0]
  <2>1. Window(r, t) = w
    BY <1>2 DEF Throttled, Windows, Window
  <2>2. w \in Windows /\ w.window_start = t /\ w.window_count = 0
    BY DEF Throttled, Windows
  <2>3. Len(s) \in Nat /\ \A k \in 1..Len(s) : s[k] \in Nat
    BY DEF Throttled
  <2>4. Past(w, s) = Len(s)
    BY <2>2, <2>3 DEF Past
  <2>. HIDE DEF w
  <2>5. NotAhead(w, t, s)
    BY <2>2, <2>3 DEF Throttled, NotAhead
  <2>6. InWindow(w, s)
    BY <2>2, <2>3, <2>4 DEF InWindow
  <2>7. BeforeWindow(w, s)
    <3>. SUFFICES ASSUME NEW k \in 1..Len(s)
                  PROVE  /\ s[k] <= t
                         /\ k <= Len(s) - MaxOrdersPerSec => s[k] + Second <= t
      BY <2>2, <2>4 DEF BeforeWindow
    <3>1. s[k] <= t
      BY DEF Throttled, NotAhead
    <3>2. ASSUME k <= Len(s) - MaxOrdersPerSec
          PROVE  s[k] + Second <= t
      <4>1. r.window_count \in Nat /\ r.window_start \in Nat /\ t \in Nat
        BY DEF Throttled, Windows
      <4>2. k <= Past(r, s)
        BY <2>3, <3>2, <4>1 DEF Throttled, InWindow, Past
      <4>3. s[k] <= r.window_start
        BY <4>2 DEF Throttled, BeforeWindow
      <4>. QED  BY <1>2, <2>3, <4>1, <4>3
    <3>. QED  BY <3>1, <3>2
  <2>. QED  BY <2>1, <2>2, <2>5, <2>6, <2>7 DEF Throttled
<1>. QED
  <2>1. r.window_start \in Int /\ t \in Int
    BY DEF Throttled, Windows
  <2>. QED  BY <1>1, <1>2, <2>1

(* An order that is within the limit joins a window that is not over.      *)
LEMMA CountKeeps ==
  ASSUME NEW r, NEW t, NEW s, Throttled(r, t, s),
         r.window_count < MaxOrdersPerSec, t < r.window_start + Second
  PROVE  Throttled([r EXCEPT !.window_count = @ + 1], t, Append(s, t))
<1>. USE RiskAssumption
<1>. DEFINE w == [r EXCEPT !.window_count = @ + 1]
            n == Append(s, t)
<1>1. /\ w \in Windows /\ w.window_start = r.window_start
      /\ w.window_count = r.window_count + 1
  BY DEF Throttled, Windows
<1>2. /\ r.window_start \in Nat /\ r.window_count \in Nat /\ t \in Nat
      /\ Len(s) \in Nat /\ \A k \in 1..Len(s) : s[k] \in Nat
      /\ r.window_count <= Len(s) /\ r.window_start <= t
  BY DEF Throttled, Windows, InWindow, NotAhead
<1>3. /\ n \in Seq(Nat) /\ Len(n) = Len(s) + 1 /\ n[Len(s) + 1] = t
      /\ \A k \in 1..Len(s) : n[k] = s[k]
  BY DEF Throttled
<1>. HIDE DEF w, n
<1>4. Past(w, n) = Past(r, s) /\ Past(r, s) \in Nat /\ Past(r, s) <= Len(s)
  <2>1. PICK m \in Nat, c \in Nat : m = Len(s) /\ c = r.window_count /\ c <= m
    BY <1>2
  <2>2. Past(r, s) = m - c /\ Past(w, n) = (m + 1) - (c + 1)
    BY <1>1, <1>3, <2>1 DEF Past
  <2>3. m - c = (m + 1) - (c + 1) /\ m - c \in Nat /\ m - c <= m
    BY <2>1
  <2>. QED  BY <2>1, <2>2, <2>3
<1>5. NotAhead(w, t, n)
  <2>. SUFFICES ASSUME NEW k \in 1..Len(n) PROVE n[k] <= t
    BY <1>1, <1>2 DEF NotAhead
  <2>1. CASE k \in 1..Len(s)
    BY <1>3, <2>1 DEF Throttled, NotAhead
  <2>. QED  BY <1>2, <1>3, <2>1
<1>6. InOrder(n)
  <2>. SUFFICES ASSUME NEW i \in 1..Len(n), NEW j \in 1..Len(n), i <= j
                PROVE  n[i] <= n[j]
    BY DEF InOrder
  <2>1. CASE j \in 1..Len(s)
    <3>1. i \in 1..Len(s)
      BY <1>2, <2>1
    <3>. QED  BY <1>3, <2>1, <3>1 DEF Throttled, InOrder
  <2>2. CASE j = Len(s) + 1
    BY <1>1, <1>3, <1>5, <2>2 DEF NotAhead
  <2>. QED  BY <1>2, <1>3, <2>1, <2>2
<1>7. InWindow(w, n)
  <2>. SUFFICES ASSUME NEW k \in 1..Len(n), k > Past(r, s)
                PROVE  r.window_start <= n[k] /\ n[k] < r.window_start + Second
    BY <1>1, <1>2, <1>3, <1>4 DEF InWindow
  <2>1. CASE k = Len(s) + 1
    BY <1>2, <1>3, <2>1
  <2>2. CASE k \in 1..Len(s)
    BY <1>3, <2>2 DEF Throttled, InWindow
  <2>. QED  BY <1>2, <1>3, <2>1, <2>2
<1>8. BeforeWindow(w, n)
  <2>. SUFFICES ASSUME NEW k \in 1..Len(n), k <= Past(r, s)
                PROVE  /\ n[k] <= r.window_start
                       /\ k <= Past(r, s) - MaxOrdersPerSec =>
                            n[k] + Second <= r.window_start
    BY <1>1, <1>2, <1>3, <1>4 DEF BeforeWindow
  <2>1. k \in 1..Len(s) /\ n[k] = s[k]
    BY <1>2, <1>3, <1>4
  <2>. QED  BY <2>1 DEF Throttled, BeforeWindow
<1>9. Spread(n)
  <2>. SUFFICES ASSUME NEW i \in 1..Len(n), NEW j \in 1..Len(n),
                       j = i + 2 * MaxOrdersPerSec
                PROVE  n[j] - n[i] >= Second
    BY DEF Spread
  <2>1. i \in 1..Len(s) /\ j \in 1..(Len(s) + 1)
    BY <1>2, <1>3
  <2>2. CASE j \in 1..Len(s)
    <3>1. s[j] - s[i] >= Second
      BY <2>1, <2>2 DEF Throttled, Spread
    <3>. QED  BY <1>3, <2>1, <2>2, <3>1
  <2>3. CASE j = Len(s) + 1
    <3>1. i <= Past(r, s) - MaxOrdersPerSec
      BY <1>2, <2>1, <2>3 DEF Past
    <3>2. s[i] + Second <= r.window_start
      BY <2>1, <3>1 DEF Throttled, BeforeWindow
    <3>3. r.window_start <= t
      BY DEF Throttled, NotAhead
    <3>4. n[j] = t /\ n[i] = s[i]
      BY <1>3, <2>1, <2>3
    <3>. QED  BY <1>2, <2>1, <3>2, <3>3, <3>4
  <2>4. ASSUME j # Len(s) + 1 PROVE j \in 1..Len(s)
    <3>1. Len(s) \in Nat
      BY <1>2
    <3>. QED  BY <2>1, <2>4, <3>1
  <2>. QED  BY <2>2, <2>3, <2>4
<1>. QED  BY <1>1, <1>2, <1>3, <1>5, <1>6, <1>7, <1>8, <1>9 DEF Throttled, w, n

-----------------------------------------------------------------------------

RateInv == /\ TypeOK
        /\ Throttled(risk, now, sent)

(* A fresh window, no orders. *)
LEMMA RateInitInv == RateInit => RateInv
BY RiskAssumption, RateLimitAssumption
   DEF RateInit, RateInv, TypeOK, NewRisk, Throttled, Windows, NotAhead, InOrder,
       InWindow, BeforeWindow, Spread, Past

(* What the types leave to say once the throttle is in order. *)
LEMMA ThrottledTyped ==
  ASSUME NEW r, NEW t, NEW s, Throttled(r, t, s),
         t \in 0..MaxTime, s \in Seq(0..MaxTime)
  PROVE  /\ r \in Windows
         /\ r.window_start <= t /\ r.window_count <= MaxOrdersPerSec
         /\ \A i, j \in 1..Len(s) : i <= j => s[i] <= s[j]
BY DEF Throttled, NotAhead, InWindow, InOrder

LEMMA RateNextInv == RateInv /\ [RateNext]_rateVars => RateInv'
<1>. SUFFICES ASSUME RateInv, [RateNext]_rateVars PROVE RateInv'
  OBVIOUS
<1>. USE RiskAssumption, RateLimitAssumption
<1>1. /\ now \in 0..MaxTime /\ sent \in Seq(0..MaxTime) /\ TypeOK
      /\ Throttled(risk, now, sent)
  BY DEF RateInv, TypeOK
<1>. SUFFICES /\ Throttled(risk', now', sent')
              /\ now' \in 0..MaxTime /\ sent' \in Seq(0..MaxTime)
  <2>. SUFFICES ASSUME Throttled(risk', now', sent'),
                       now' \in 0..MaxTime, sent' \in Seq(0..MaxTime)
                PROVE  RateInv'
    OBVIOUS
  <2>1. /\ risk' \in Windows
        /\ risk'.window_start <= now' /\ risk'.window_count <= MaxOrdersPerSec
        /\ \A i, j \in 1..Len(sent') : i <= j => sent'[i] <= sent'[j]
    BY ThrottledTyped
  <2>. QED  BY <2>1 DEF RateInv, TypeOK, Windows
<1>2. CASE Tick
  <2>1. now' \in 0..MaxTime /\ now <= now' /\ risk' = risk /\ sent' = sent
    BY <1>1, <1>2 DEF Tick
  <2>2. /\ risk.window_start \in Nat /\ Len(sent) \in Nat
        /\ \A k \in 1..Len(sent) : sent[k] \in Nat
    BY <1>1 DEF Throttled, Windows
  <2>3. NotAhead(risk, now', sent)
    BY <1>1, <2>1, <2>2 DEF Throttled, NotAhead
  <2>. QED  BY <1>1, <2>1, <2>3 DEF Throttled
<1>3. CASE Pass
  <2>. DEFINE r == Window(risk, now)
  <2>1. Throttled(r, now, sent)
    BY <1>1, RestartKeeps
  <2>2. now < r.window_start + Second
    BY <1>1 DEF Throttled, Windows, Window
  <2>3. /\ r.window_count < MaxOrdersPerSec
        /\ risk' = [r EXCEPT !.window_count = @ + 1]
        /\ sent' = Append(sent, now) /\ now' = now
    BY <1>3 DEF Pass, UnderRate, Counted
  <2>. HIDE DEF r
  <2>4. Throttled([r EXCEPT !.window_count = @ + 1], now, Append(sent, now))
    BY <2>1, <2>2, <2>3, CountKeeps
  <2>. QED  BY <1>1, <2>3, <2>4
<1>4. CASE Refuse
  <2>1. Throttled(Window(risk, now), now, sent)
    BY <1>1, RestartKeeps
  <2>. QED  BY <1>1, <1>4, <2>1 DEF Refuse
<1>5. CASE UNCHANGED rateVars
  BY <1>1, <1>5 DEF rateVars
<1>. QED  BY <1>2, <1>3, <1>4, <1>5 DEF RateNext

LEMMA RateSpecInv == RateSpec => []RateInv
BY RateInitInv, RateNextInv, PTL DEF RateSpec

(* No interval shorter than a second sees more than twice the number of    *)
(* orders the throttle is configured with, whatever the limit.             *)
THEOREM RateBound == RateSpec => []TwiceTheLimit
<1>1. RateInv => TwiceTheLimit
  BY DEF RateInv, Throttled, Spread, TwiceTheLimit
<1>. QED  BY <1>1, RateSpecInv, PTL

(* Whenever the next order would be refused for its rate, a full number of *)
(* orders was accepted in the last second (check_inner's window).          *)
THEOREM NoEarlyRefusal == RateSpec => []RefusedOnlyWhenFull
<1>. DEFINE Full ==
       LET first == Len(sent) - MaxOrdersPerSec + 1
       IN /\ first > 0
          /\ first <= Len(sent) => sent[first] > now - Second
<1>1. ASSUME RateInv, ~UnderRate(risk, now) PROVE Full
  <2>. DEFINE r == Window(risk, now)
  <2>1. Throttled(r, now, sent)
    BY <1>1, RestartKeeps DEF RateInv
  <2>2. now < r.window_start + Second
    BY <1>1, RiskAssumption DEF RateInv, Throttled, Windows, Window
  <2>3. r.window_count >= MaxOrdersPerSec
    BY <1>1, <2>1, RiskAssumption DEF UnderRate, Throttled, Windows
  <2>. HIDE DEF r
  <2>4. /\ r.window_start \in Nat /\ r.window_count = MaxOrdersPerSec
        /\ now \in Nat /\ Len(sent) \in Nat
        /\ \A k \in 1..Len(sent) : sent[k] \in Nat
    BY <2>1, <2>3, RiskAssumption DEF Throttled, Windows, InWindow
  <2>5. Len(sent) - MaxOrdersPerSec + 1 > 0
    BY <2>1, <2>4, RiskAssumption DEF Throttled, InWindow
  <2>6. ASSUME Len(sent) - MaxOrdersPerSec + 1 <= Len(sent)
        PROVE  sent[Len(sent) - MaxOrdersPerSec + 1] > now - Second
    <3>. DEFINE k == Len(sent) - MaxOrdersPerSec + 1
    <3>1. k \in 1..Len(sent) /\ k > Past(r, sent)
      BY <2>4, <2>5, <2>6, RiskAssumption DEF Past
    <3>. HIDE DEF k
    <3>2. r.window_start <= sent[k]
      BY <2>1, <3>1 DEF Throttled, InWindow
    <3>3. sent[k] > now - Second
      BY <2>2, <2>4, <3>1, <3>2, RiskAssumption
    <3>. QED  BY <3>3 DEF k
  <2>. QED  BY <2>5, <2>6
<1>2. RateInv => RefusedOnlyWhenFull
  BY <1>1 DEF RefusedOnlyWhenFull
<1>. QED  BY <1>2, RateSpecInv, PTL

-----------------------------------------------------------------------------
(* Trading is order entry's venue, OrderVenue.  With the simulated one it  *)
(* is so word for word; the orders that the paper venue's vector holds are *)
(* the resting ones, by id.                                                *)

(* Orders of the vector that are not filled. *)
Unfilled(s) == {x \in {s[i] : i \in 1..Len(s)} : x.leaves > 0}
Entry(x) == [side |-> x.side, price |-> x.price, leaves |-> x.leaves]
Holds(f, S) ==
  /\ f = [id \in {x.id : x \in S} |-> f[id]]
  /\ \A x \in S : f[x.id] = Entry(x)
ById(S) == \A x, y \in S : x.id = y.id => x = y

LEMMA UnfilledById ==
  ASSUME NEW s, Once(s)
  PROVE  ById(Unfilled(s))
BY DEF Once, ById, Unfilled

(* Placed, of any vector. *)
PlacedOf(s) ==
  [id \in {s[i].id : i \in {j \in DOMAIN s : s[j].leaves > 0}} |->
     LET o == s[CHOOSE i \in {j \in DOMAIN s : s[j].leaves > 0} : s[i].id = id]
     IN [side |-> o.side, price |-> o.price, leaves |-> o.leaves]]

LEMMA PlacedHolds ==
  ASSUME NEW s \in Seq(Quotes), Once(s)
  PROVE  Holds(PlacedOf(s), Unfilled(s))
<1>1. PICK W : W = {j \in DOMAIN s : s[j].leaves > 0}
  OBVIOUS
<1>2. PICK f : f = PlacedOf(s)
  OBVIOUS
<1>3. f = [id \in {s[i].id : i \in W} |-> Entry(s[CHOOSE i \in W : s[i].id = id])]
  BY <1>1, <1>2 DEF PlacedOf, Entry
<1>4. W = {j \in 1..Len(s) : s[j].leaves > 0}
  BY <1>1
<1>5. {s[i].id : i \in W} = {x.id : x \in Unfilled(s)}
  BY <1>4 DEF Unfilled
<1>6. ASSUME NEW x \in Unfilled(s) PROVE f[x.id] = Entry(x)
  <2>1. PICK k \in W : x = s[k]
    BY <1>4 DEF Unfilled
  <2>2. PICK c : c = CHOOSE i \in W : s[i].id = x.id
    OBVIOUS
  <2>3. c \in W /\ s[c].id = x.id
    BY <2>1, <2>2
  <2>4. c = k
    BY <1>4, <2>1, <2>3 DEF Once
  <2>5. x.id \in {s[i].id : i \in W}
    BY <2>1
  <2>6. f[x.id] = Entry(s[c])
    BY <1>3, <2>2, <2>5
  <2>. QED  BY <2>1, <2>4, <2>6
<1>7. f = [id \in {x.id : x \in Unfilled(s)} |-> f[id]]
  <2>1. PICK D : D = {s[i].id : i \in W}
    OBVIOUS
  <2>2. f = [id \in D |-> f[id]]
    BY <1>3, <2>1
  <2>. QED  BY <1>5, <2>1, <2>2
<1>. QED  BY <1>2, <1>6, <1>7 DEF Holds

LEMMA HoldSame ==
  ASSUME NEW S, NEW f, Holds(f, S), NEW g, Holds(g, S)
  PROVE  f = g
<1>1. PICK D : D = {x.id : x \in S}
  OBVIOUS
<1>2. f = [id \in D |-> f[id]] /\ g = [id \in D |-> g[id]]
  BY <1>1 DEF Holds
<1>3. \A id \in D : f[id] = g[id]
  BY <1>1 DEF Holds
<1>. QED  BY <1>2, <1>3

(* An order joins, goes, or takes the place of the one with its id. *)
LEMMA HoldWith ==
  ASSUME NEW S, NEW f, Holds(f, S), NEW x, NEW T, NEW g, Holds(g, T),
         x \in T, \A y \in T : y = x \/ (y \in S /\ y.id # x.id),
         \A y \in S : y.id = x.id \/ y \in T
  PROVE  g = With(f, x.id, Entry(x))
<1>1. PICK h : h = With(f, x.id, Entry(x))
  OBVIOUS
<1>2. DOMAIN f = {y.id : y \in S} /\ DOMAIN g = {y.id : y \in T}
  BY DEF Holds
<1>3. DOMAIN g = DOMAIN f \cup {x.id}
  BY <1>2
<1>4. h = [i \in DOMAIN g |-> IF i = x.id THEN Entry(x) ELSE f[i]]
  BY <1>1, <1>3 DEF With
<1>5. ASSUME NEW i \in DOMAIN g PROVE g[i] = h[i]
  <2>1. PICK y \in T : i = y.id
    BY <1>2
  <2>2. g[i] = Entry(y)
    BY <2>1 DEF Holds
  <2>3. CASE y = x
    BY <1>4, <2>1, <2>2, <2>3
  <2>4. CASE y \in S /\ y.id # x.id
    <3>1. f[i] = Entry(y)
      BY <2>1, <2>4 DEF Holds
    <3>. QED  BY <1>4, <2>1, <2>2, <2>4, <3>1
  <2>. QED  BY <2>3, <2>4
<1>6. g = [i \in DOMAIN g |-> g[i]] /\ h = [i \in DOMAIN g |-> h[i]]
  BY <1>2, <1>4 DEF Holds
<1>. QED  BY <1>1, <1>5, <1>6

LEMMA HoldWithout ==
  ASSUME NEW S, NEW f, Holds(f, S), NEW id, NEW T, NEW g, Holds(g, T),
         \A y : y \in T <=> y \in S /\ y.id # id
  PROVE  g = Without(f, id)
<1>1. PICK h : h = Without(f, id)
  OBVIOUS
<1>2. DOMAIN f = {y.id : y \in S} /\ DOMAIN g = {y.id : y \in T}
  BY DEF Holds
<1>3. DOMAIN g = DOMAIN f \ {id}
  BY <1>2
<1>4. h = [i \in DOMAIN g |-> f[i]]
  BY <1>1, <1>3 DEF Without
<1>5. ASSUME NEW i \in DOMAIN g PROVE g[i] = h[i]
  <2>1. PICK y \in T : i = y.id
    BY <1>2
  <2>2. g[i] = Entry(y) /\ f[i] = Entry(y)
    BY <2>1 DEF Holds
  <2>. QED  BY <1>4, <2>2
<1>6. g = [i \in DOMAIN g |-> g[i]] /\ h = [i \in DOMAIN g |-> h[i]]
  BY <1>2, <1>4 DEF Holds
<1>. QED  BY <1>1, <1>5, <1>6

(* The paper venue's orders in a state and the next. *)
PaperHeld ==
  /\ Paper /\ Paper'
  /\ Once(quotes) /\ Once(quotes)'
  /\ quotes \in Seq(Quotes) /\ quotes' \in Seq(Quotes)
  /\ Holds(Placed, Unfilled(quotes)) /\ Holds(Placed, Unfilled(quotes))'

LEMMA PaperVenueHeld ==
  ASSUME Orderly, Accounted, PaperVenue
  PROVE  PaperHeld
<1>1. pc \in {"command", "take", "rest", "market"} /\ gateway' = gateway
  BY DEF PaperVenue, PaperReject, PaperAck, PaperTake, PaperRest, PaperCancel,
     FillResting, Retain
<1>2. Paper
  BY <1>1 DEF Orderly, SimInv
<1>3. Paper'
  BY <1>1, <1>2 DEF Paper
<1>4. Orderly'
  BY PaperPreserves
<1>5. quotes \in Seq(Quotes) /\ Once(quotes)
  BY <1>2 DEF Orderly, PaperInv, Once
<1>6. quotes' \in Seq(Quotes) /\ Once(quotes)'
  BY <1>3, <1>4 DEF Orderly, PaperInv, Once
<1>7. Placed = PlacedOf(quotes) /\ Placed' = PlacedOf(quotes')
  BY DEF Placed, Working, PlacedOf
<1>8. Holds(Placed, Unfilled(quotes))
  BY <1>5, <1>7, PlacedHolds
<1>9. Holds(PlacedOf(quotes'), Unfilled(quotes'))
  <2>1. PICK t : t = quotes'
    OBVIOUS
  <2>2. t \in Seq(Quotes) /\ Once(t)
    BY <1>6, <2>1 DEF Once
  <2>. QED  BY <2>1, <2>2, PlacedHolds
<1>. QED  BY <1>2, <1>3, <1>5, <1>6, <1>7, <1>8, <1>9 DEF PaperHeld

LEMMA PlacedStill ==
  ASSUME PaperHeld, Unfilled(quotes') = Unfilled(quotes)
  PROVE  Placed' = Placed
<1>1. PICK f, g, S : f = Placed /\ g = Placed' /\ S = Unfilled(quotes)
  OBVIOUS
<1>2. Holds(f, S) /\ Holds(g, S)
  BY <1>1 DEF PaperHeld
<1>. QED  BY <1>1, <1>2, HoldSame

LEMMA RejectImplements ==
  ASSUME Orderly, PaperHeld, PaperReject
  PROVE  Venue!VenueNext
<1>1. taking = NoOrder /\ orderCh # <<>>
  <2>1. pc = "command" /\ Paper
    BY DEF PaperHeld, PaperReject
  <2>2. taking = NoOrder /\ Len(orderCh) = 1
    BY <2>1 DEF Orderly, PaperInv
  <2>. QED  BY <2>2
<1>2. Placed' = Placed
  BY PlacedStill DEF PaperReject, paperVars
<1>3. Venue!VenueReject
  BY <1>1, <1>2 DEF PaperReject, Command, Venue!VenueReject, Venue!Report,
     Sim!Report, Venue!Rejected, Rejected, PaperHeld
<1>. QED  BY <1>3 DEF Venue!VenueNext, Venue!VenueCommand

LEMMA AckImplements ==
  ASSUME Orderly, PaperHeld, PaperAck
  PROVE  Venue!VenueNext
<1>1. taking = NoOrder /\ orderCh # <<>>
  <2>1. pc = "command" /\ Paper
    BY DEF PaperHeld, PaperAck
  <2>2. taking = NoOrder /\ Len(orderCh) = 1
    BY <2>1 DEF Orderly, PaperInv
  <2>. QED  BY <2>2
<1>2. Placed' = Placed
  BY PlacedStill DEF PaperAck, paperVars
<1>3. Venue!VenueAccept
  BY <1>1, <1>2 DEF PaperAck, Command, Venue!VenueAccept, Venue!Report,
     Sim!Report, Venue!Ack, Ack, PaperHeld
<1>. QED  BY <1>3 DEF Venue!VenueNext, Venue!VenueCommand

LEMMA IsTaken ==
  ASSUME Orderly, Paper, pc \in {"take", "rest"}
  PROVE  /\ taking # NoOrder
         /\ taking \in Takings
         /\ \A i \in 1..Len(quotes) : quotes[i].id # taking.id
<1>1. taking \in Takings /\ taking.id \notin QuoteIds
  BY DEF Orderly, PaperInv
<1>2. Takings \subseteq [cmd : {"New"}, id : Nat, side : Side, price : AnyPrice,
                         qty : Nat, tif : TimeInForce]
  BY StrategiesAssumption DEF Takings, NewCmds
<1>. QED  BY <1>1, <1>2, NoOrderAssumption DEF QuoteIds

LEMMA TakeImplements ==
  ASSUME Orderly, PaperHeld, PaperTake
  PROVE  Venue!VenueNext
<1>1. /\ pc = "take" /\ Paper /\ Paper'
      /\ UNCHANGED <<orderCh, resting, quotes>>
  BY DEF PaperTake, PaperHeld, paperVars
<1>2. PICK touch : touch = BestLevel(book, Opposite(taking.side))
  OBVIOUS
<1>3. PICK take : take = Min({taking.qty, touch.qty})
  OBVIOUS
<1>4. /\ taking' = [taking EXCEPT !.qty = @ - take]
      /\ Sim!Report(Fill(taking.id, touch.price, take, taking'.qty))
  BY <1>2, <1>3 DEF PaperTake
<1>5. /\ taking \in Takings /\ taking # NoOrder /\ taking.tif # "PostOnly"
      /\ taking.qty > 0 /\ TouchCrosses(taking.side, taking.price)
  BY <1>1, IsTaken DEF Orderly, PaperInv
<1>6. touch.price \in Prices /\ touch.qty \in Nat \ {0}
  <2>1. Opposite(taking.side) \in Side /\ HasBest(book, Opposite(taking.side))
    BY <1>5 DEF TouchCrosses, Takings, NewCmds, Side, Opposite
  <2>2. Levels = [price : Prices, qty : Qtys]
    BY <1>1 DEF Levels
  <2>3. PICK R : R = [price : Prices, qty : Qtys]
    OBVIOUS
  <2>4. PICK s \in Seq(R) : s = book[Opposite(taking.side)]
    BY <2>1, <2>2, <2>3 DEF Orderly
  <2>5. s # <<>> /\ touch = s[Len(s)]
    BY <1>2, <2>1, <2>4 DEF HasBest, BestLevel, Last
  <2>6. touch \in R
    BY <2>4, <2>5
  <2>. QED  BY <2>3, <2>6, TradingAssumption
<1>7. PICK n \in Nat \ {0}, m \in Nat \ {0} : n = taking.qty /\ m = touch.qty
  BY <1>5, <1>6, StrategiesAssumption DEF Takings, NewCmds
<1>8. take \in 1..n
  <2>1. take \in {n, m} /\ take <= n
    BY <1>3, <1>7, LesserIs
  <2>. QED  BY <2>1
<1>9. taking'.qty = n - take
  <2>1. taking = [cmd |-> taking.cmd, id |-> taking.id, side |-> taking.side,
                  price |-> taking.price, qty |-> taking.qty, tif |-> taking.tif]
    BY <1>5 DEF Takings, NewCmds
  <2>. QED  BY <1>4, <1>7, <2>1
<1>10. Placed' = Placed
  BY <1>1, PlacedStill
<1>11. Venue!Crosses(taking.side, taking.price, touch.price)
  BY <1>2, <1>5 DEF TouchCrosses, Venue!Crosses, Sim!Crosses, BestPrice
<1>12. Venue!VenueTake(touch.price, take)
  BY <1>1, <1>4, <1>5, <1>7, <1>9, <1>10, <1>11
     DEF Venue!VenueTake, Venue!Report, Sim!Report, Venue!Fill, Fill
<1>13. touch.price \in QuotePrices \cup Prices /\ take \in 1..taking.qty
  BY <1>6, <1>7, <1>8
<1>. QED  BY <1>5, <1>12, <1>13 DEF Venue!VenueNext, Venue!VenueTrade

LEMMA RestImplements ==
  ASSUME Orderly, PaperHeld, PaperRest
  PROVE  Venue!VenueNext
<1>1. pc = "rest" /\ Paper /\ Paper' /\ taking' = NoOrder /\ orderCh' = orderCh
  BY DEF PaperRest, PaperHeld
<1>2. /\ taking # NoOrder /\ taking \in Takings
      /\ \A i \in 1..Len(quotes) : quotes[i].id # taking.id
  BY <1>1, IsTaken
<1>3. PICK f, g, s, t : f = Placed /\ g = Placed' /\ s = quotes /\ t = quotes'
  OBVIOUS
<1>4. /\ Holds(f, Unfilled(s)) /\ Holds(g, Unfilled(t))
      /\ s \in Seq(Quotes) /\ t \in Seq(Quotes)
  BY <1>3 DEF PaperHeld
<1>5. g = IF taking.qty > 0 /\ taking.tif # "Ioc"
          THEN With(f, taking.id,
                    [side |-> taking.side, price |-> taking.price,
                     leaves |-> taking.qty])
          ELSE f
  <2>1. CASE taking.qty > 0 /\ taking.tif # "Ioc"
    <3>1. PICK x : x = [id |-> taking.id, side |-> taking.side,
                        price |-> taking.price, leaves |-> taking.qty]
      OBVIOUS
    <3>2. t = Append(s, x)
      BY <1>3, <2>1, <3>1 DEF PaperRest
    <3>3. PICK n \in Nat : n = Len(s)
      BY <1>4
    <3>4. /\ Len(t) = n + 1 /\ n + 1 \in 1..(n + 1) /\ t[n + 1] = x
          /\ \A i \in 1..n : i \in 1..(n + 1) /\ t[i] = s[i]
          /\ \A i \in 1..(n + 1) : i \in 1..n \/ i = n + 1
      BY <1>4, <3>2, <3>3
    <3>5. x.leaves > 0 /\ x.id = taking.id
      BY <2>1, <3>1
    <3>6. x \in Unfilled(t)
      BY <3>4, <3>5 DEF Unfilled
    <3>7. \A y \in Unfilled(t) : y = x \/ (y \in Unfilled(s) /\ y.id # x.id)
      BY <1>2, <1>3, <3>3, <3>4, <3>5 DEF Unfilled
    <3>8. \A y \in Unfilled(s) : y.id = x.id \/ y \in Unfilled(t)
      BY <3>3, <3>4 DEF Unfilled
    <3>9. g = With(f, x.id, Entry(x))
      BY <1>4, <3>6, <3>7, <3>8, HoldWith
    <3>. QED  BY <2>1, <3>1, <3>9 DEF Entry
  <2>2. CASE ~(taking.qty > 0 /\ taking.tif # "Ioc")
    <3>1. t = s
      BY <1>3, <2>2 DEF PaperRest
    <3>2. g = f
      BY <1>4, <3>1, HoldSame
    <3>. QED  BY <2>2, <3>2
  <2>. QED  BY <2>1, <2>2
<1>6. IF taking.qty > 0 /\ taking.tif = "Ioc"
      THEN Venue!Report(Venue!Canceled(taking.id)) ELSE UNCHANGED execCh
  BY DEF PaperRest, Sim!Report, Venue!Report, Venue!Canceled, Canceled
<1>7. Venue!VenueRest
  BY <1>1, <1>2, <1>3, <1>5, <1>6 DEF Venue!VenueRest, Venue!With, With
<1>. QED  BY <1>7 DEF Venue!VenueNext, Venue!VenueCommand

LEMMA CancelImplements ==
  ASSUME Orderly, PaperHeld, PaperCancel
  PROVE  Venue!VenueNext
<1>1. /\ pc = "command" /\ Paper /\ Paper' /\ Head(orderCh).cmd = "Cancel"
      /\ orderCh' = Tail(orderCh) /\ taking' = taking
  BY DEF PaperCancel, PaperHeld, Command
<1>2. taking = NoOrder /\ orderCh # <<>>
  <2>1. taking = NoOrder /\ Len(orderCh) = 1
    BY <1>1 DEF Orderly, PaperInv
  <2>. QED  BY <2>1
<1>3. PICK c : c = Head(orderCh).id
  OBVIOUS
<1>4. PICK f, g, s, t : f = Placed /\ g = Placed' /\ s = quotes /\ t = quotes'
  OBVIOUS
<1>5. /\ Holds(f, Unfilled(s)) /\ Holds(g, Unfilled(t)) /\ Once(s)
      /\ s \in Seq(Quotes) /\ t \in Seq(Quotes)
      /\ \A i \in 1..Len(s) : s[i].leaves > 0
  <2>1. \A i \in 1..Len(quotes) : quotes[i].leaves > 0
    BY <1>1 DEF Orderly, PaperInv
  <2>. QED  BY <1>4, <2>1 DEF PaperHeld, Once
<1>6. PICK Found : Found = {i \in 1..Len(s) : s[i].id = c}
  OBVIOUS
<1>7. DOMAIN s = 1..Len(s)
  BY <1>5
<1>8. /\ Found = {} => /\ execCh' = Append(execCh, Rejected(c, "UnknownOrder"))
                       /\ t = s
      /\ Found # {} => /\ execCh' = Append(execCh, Canceled(c))
                       /\ t = SwapRemove(s, Min(Found))
  BY <1>3, <1>4, <1>6, <1>7 DEF PaperCancel, Command, Sim!Report
<1>9. DOMAIN f = {x.id : x \in Unfilled(s)}
  BY <1>5 DEF Holds
<1>10. c \in DOMAIN f <=> Found # {}
  BY <1>5, <1>6, <1>9 DEF Unfilled
<1>11. Found = {} => g = f
  BY <1>5, <1>8, HoldSame
<1>12. ASSUME Found # {} PROVE g = Without(f, c)
  <2>1. PICK k \in 1..Len(s) : s[k].id = c
    BY <1>6, <1>12
  <2>2. Found = {k}
    BY <1>5, <1>6, <2>1 DEF Once
  <2>3. Min(Found) = k
    BY <2>1, <2>2, SingleMin
  <2>4. Swapped(t, s, c)
    <3>1. \A i, j \in 1..Len(s) : s[i].id = s[j].id => i = j
      BY <1>5 DEF Once
    <3>2. Swapped(SwapRemove(s, k), s, s[k].id)
      BY <1>5, <3>1, SwapRemoved
    <3>. QED  BY <1>8, <1>12, <2>1, <2>3, <3>2
  <2>5. \A y : y \in Unfilled(t) <=> y \in Unfilled(s) /\ y.id # c
    BY <2>4 DEF Swapped, Unfilled
  <2>. QED  BY <1>5, <2>5, HoldWithout
<1>13. IF c \in DOMAIN f
       THEN g = Venue!Without(f, c) /\ Venue!Report(Venue!Canceled(c))
       ELSE Venue!Report(Venue!Rejected(c, "UnknownOrder")) /\ g = f
  BY <1>8, <1>10, <1>11, <1>12 DEF Venue!Without, Without, Venue!Report,
     Venue!Canceled, Canceled, Venue!Rejected, Rejected
<1>14. Venue!VenueCancel
  BY <1>1, <1>2, <1>3, <1>4, <1>13 DEF Venue!VenueCancel
<1>. QED  BY <1>14 DEF Venue!VenueNext, Venue!VenueCommand

LEMMA FillImplements ==
  ASSUME Orderly, PaperHeld, FillResting
  PROVE  Venue!VenueNext
<1>1. /\ pc = "market" /\ Paper /\ Paper' /\ Filling # {} /\ remaining \in Nat
      /\ taking = NoOrder /\ taking' = taking /\ orderCh' = orderCh
  BY DEF FillResting, PaperHeld, Orderly, PaperInv
<1>2. PICK k \in 1..Len(quotes) : k = Min(Filling) /\ FillOf(quotes[k]) > 0
  BY <1>1, FirstFilling
<1>3. PICK f, g, s, t : f = Placed /\ g = Placed' /\ s = quotes /\ t = quotes'
  OBVIOUS
<1>4. /\ Holds(f, Unfilled(s)) /\ Holds(g, Unfilled(t)) /\ Once(s)
      /\ s \in Seq(Quotes) /\ t \in Seq(Quotes)
  BY <1>3 DEF PaperHeld, Once
<1>5. PICK o \in Quotes : o = s[k]
  BY <1>2, <1>3, <1>4
<1>6. PICK l \in Nat : l = o.leaves
  BY StrategiesAssumption DEF Quotes
<1>7. PICK q : q = FillOf(o)
  OBVIOUS
<1>8. q \in 1..l
  <2>1. FillOf(o) \in 0..o.leaves
    BY <1>1, <1>6, FillOfIs
  <2>2. FillOf(o) > 0
    BY <1>2, <1>3, <1>5
  <2>. QED  BY <1>6, <1>7, <2>1, <2>2
<1>9. /\ t = [s EXCEPT ![k].leaves = @ - q]
      /\ execCh' = Append(execCh, Fill(o.id, o.price, q, o.leaves - q))
  BY <1>2, <1>3, <1>5, <1>7 DEF FillResting, Sim!Report
<1>10. Partly(t, s, k, q)
  <2>1. q \in 0..s[k].leaves /\ k \in 1..Len(s) /\ s \in Seq(Quotes) /\ Once(s)
    BY <1>2, <1>3, <1>4, <1>5, <1>6, <1>8
  <2>2. Partly([s EXCEPT ![k].leaves = @ - q], s, k, q)
    BY <2>1, QuoteFilled
  <2>. QED  BY <1>9, <2>2
<1>11. PICK n \in Nat : n = Len(s) /\ k \in 1..n
  BY <1>2, <1>3, <1>4
<1>12. PICK x : x = t[k]
  OBVIOUS
<1>13. /\ Len(t) = n /\ x.id = o.id /\ x.side = o.side /\ x.price = o.price
       /\ x.leaves = l - q
       /\ \A i \in 1..n : i # k => t[i] = s[i]
  <2>1. x = [o EXCEPT !.leaves = @ - q]
    BY <1>4, <1>5, <1>9, <1>11, <1>12
  <2>2. o = [id |-> o.id, side |-> o.side, price |-> o.price, leaves |-> o.leaves]
    BY DEF Quotes
  <2>3. x.id = o.id /\ x.side = o.side /\ x.price = o.price
    BY <2>1, <2>2
  <2>. QED  BY <1>5, <1>6, <1>10, <1>11, <1>12, <2>3 DEF Partly
<1>14. o \in Unfilled(s)
  BY <1>5, <1>6, <1>8, <1>11 DEF Unfilled
<1>15. o.id \in DOMAIN f /\ f[o.id] = Entry(o)
  BY <1>4, <1>14 DEF Holds
<1>16. \A i \in 1..n : i # k => s[i].id # o.id
  BY <1>4, <1>5, <1>11 DEF Once
<1>17. g = IF l - q = 0 THEN Without(f, o.id)
           ELSE With(f, o.id, [Entry(o) EXCEPT !.leaves = l - q])
  <2>1. CASE l - q = 0
    <3>1. \A y : y \in Unfilled(t) <=> y \in Unfilled(s) /\ y.id # o.id
      <4>1. \A y \in Unfilled(t) : y \in Unfilled(s) /\ y.id # o.id
        BY <1>11, <1>12, <1>13, <1>16, <2>1 DEF Unfilled
      <4>2. \A y \in Unfilled(s) : y.id # o.id => y \in Unfilled(t)
        BY <1>5, <1>11, <1>13 DEF Unfilled
      <4>. QED  BY <4>1, <4>2
    <3>2. g = Without(f, o.id)
      BY <1>4, <3>1, HoldWithout
    <3>. QED  BY <2>1, <3>2
  <2>2. CASE l - q # 0
    <3>1. x.leaves > 0
      BY <1>8, <1>13, <2>2
    <3>2. x \in Unfilled(t)
      BY <1>11, <1>12, <1>13, <3>1 DEF Unfilled
    <3>3. \A y \in Unfilled(t) : y = x \/ (y \in Unfilled(s) /\ y.id # x.id)
      BY <1>11, <1>12, <1>13, <1>16 DEF Unfilled
    <3>4. \A y \in Unfilled(s) : y.id = x.id \/ y \in Unfilled(t)
      BY <1>5, <1>11, <1>13 DEF Unfilled
    <3>5. g = With(f, x.id, Entry(x))
      BY <1>4, <3>2, <3>3, <3>4, HoldWith
    <3>6. Entry(x) = [Entry(o) EXCEPT !.leaves = l - q]
      BY <1>13 DEF Entry
    <3>. QED  BY <1>13, <2>2, <3>5, <3>6
  <2>. QED  BY <2>1, <2>2
<1>18. f[o.id].leaves = l /\ f[o.id].price = o.price
  BY <1>6, <1>15 DEF Entry
<1>19. execCh' = Append(execCh, Fill(o.id, f[o.id].price, q, l - q))
  BY <1>6, <1>9, <1>18
<1>20. g = IF l - q = 0 THEN Without(f, o.id)
           ELSE With(f, o.id, [f[o.id] EXCEPT !.leaves = l - q])
  BY <1>15, <1>17
<1>21. Venue!VenueMake(o.id, q)
  BY <1>1, <1>3, <1>18, <1>19, <1>20
     DEF Venue!VenueMake, Venue!Report, Venue!Fill, Fill, Venue!Without, Without,
     Venue!With, With
<1>22. o.id \in DOMAIN (IF Paper THEN Placed ELSE resting)
  BY <1>1, <1>3, <1>15
<1>23. q \in 1..(IF Paper THEN Placed ELSE resting)[o.id].leaves
  BY <1>1, <1>3, <1>8, <1>18
<1>. QED  BY <1>21, <1>22, <1>23 DEF Venue!VenueNext, Venue!VenueTrade

LEMMA RetainImplements ==
  ASSUME Orderly, PaperHeld, Retain
  PROVE  Placed' = Placed
<1>1. PICK s, t : s = quotes /\ t = quotes'
  OBVIOUS
<1>2. s \in Seq(Quotes) /\ t = Retained(s)
  BY <1>1 DEF PaperHeld, Retain
<1>3. \A i, j \in 1..Len(s) : s[i].id = s[j].id => i = j
  BY <1>1 DEF PaperHeld, Once
<1>4. Sieved(t, s, Len(s))
  BY <1>2, <1>3, RetainedIs
<1>5. Unfilled(t) = Unfilled(s)
  <2>1. \A y \in Unfilled(t) : y \in Unfilled(s)
    BY <1>4 DEF Sieved, Unfilled
  <2>2. \A y \in Unfilled(s) : y \in Unfilled(t)
    BY <1>4 DEF Sieved, Unfilled
  <2>. QED  BY <2>1, <2>2
<1>. QED  BY <1>1, <1>5, PlacedStill

LEMMA PaperImplements ==
  ASSUME Orderly, Accounted, PaperVenue
  PROVE  [Venue!VenueNext]_(Venue!venueVars)
<1>1. PaperHeld
  BY PaperVenueHeld
<1>2. ASSUME Retain PROVE UNCHANGED Venue!venueVars
  <2>1. Placed' = Placed
    BY <1>1, <1>2, RetainImplements
  <2>. QED  BY <1>1, <1>2, <2>1 DEF Retain, venueVars, Venue!venueVars, PaperHeld
<1>. QED  BY <1>1, <1>2, RejectImplements, AckImplements, TakeImplements,
            RestImplements, CancelImplements, FillImplements DEF PaperVenue

LEMMA SimImplements ==
  ASSUME SimVenueSteps
  PROVE  Venue!VenueNext
<1>1. ~Paper /\ ~Paper'
  BY DEF SimVenueSteps, Paper
<1>2. CASE Sim!VenueReject
  <2>1. Venue!VenueReject
    BY <1>1, <1>2 DEF Sim!VenueReject, Venue!VenueReject, Sim!Report,
       Venue!Report, Sim!Rejected, Venue!Rejected
  <2>. QED  BY <2>1 DEF Venue!VenueNext, Venue!VenueCommand
<1>3. CASE Sim!VenueAccept
  <2>1. Venue!VenueAccept
    BY <1>1, <1>3 DEF Sim!VenueAccept, Venue!VenueAccept, Sim!Report,
       Venue!Report, Sim!Ack, Venue!Ack
  <2>. QED  BY <2>1 DEF Venue!VenueNext, Venue!VenueCommand
<1>4. CASE Sim!VenueRest
  <2>1. Venue!VenueRest
    BY <1>1, <1>4 DEF Sim!VenueRest, Venue!VenueRest, Sim!Report, Venue!Report,
       Sim!Canceled, Venue!Canceled, Sim!With, Venue!With
  <2>. QED  BY <2>1 DEF Venue!VenueNext, Venue!VenueCommand
<1>5. CASE Sim!VenueCancel
  <2>1. Venue!VenueCancel
    BY <1>1, <1>5 DEF Sim!VenueCancel, Venue!VenueCancel, Sim!Report,
       Venue!Report, Sim!Canceled, Venue!Canceled, Sim!Rejected, Venue!Rejected,
       Sim!Without, Venue!Without
  <2>. QED  BY <2>1 DEF Venue!VenueNext, Venue!VenueCommand
<1>6. ASSUME NEW price \in QuotePrices, NEW qty \in 1..taking.qty,
             taking # NoOrder, Sim!VenueTake(price, qty)
      PROVE  Venue!VenueNext
  <2>1. Venue!VenueTake(price, qty)
    BY <1>1, <1>6 DEF Sim!VenueTake, Venue!VenueTake, Sim!Crosses, Venue!Crosses,
       Sim!Report, Venue!Report, Sim!Fill, Venue!Fill
  <2>2. price \in QuotePrices \cup Prices
    OBVIOUS
  <2>. QED  BY <1>6, <2>1, <2>2 DEF Venue!VenueNext, Venue!VenueTrade
<1>7. ASSUME NEW id \in DOMAIN resting, NEW qty \in 1..resting[id].leaves,
             Sim!VenueMake(id, qty)
      PROVE  Venue!VenueNext
  <2>1. Venue!VenueMake(id, qty)
    BY <1>1, <1>7 DEF Sim!VenueMake, Venue!VenueMake, Sim!Crosses, Venue!Crosses,
       Sim!Report, Venue!Report, Sim!Fill, Venue!Fill, Sim!With, Venue!With,
       Sim!Without, Venue!Without, Sim!Opposite, Venue!Opposite
  <2>2. /\ id \in DOMAIN (IF Paper THEN Placed ELSE resting)
        /\ qty \in 1..(IF Paper THEN Placed ELSE resting)[id].leaves
    BY <1>1
  <2>. QED  BY <2>1, <2>2 DEF Venue!VenueNext, Venue!VenueTrade
<1>. QED  BY <1>2, <1>3, <1>4, <1>5, <1>6, <1>7
          DEF SimVenueSteps, Sim!VenueCommand, Sim!VenueTrade

(* Both venues, and the engine with them, keep to what the order-entry     *)
(* model says of a venue: its commands, reports and resting orders change  *)
(* by the steps of OrderVenue, or the engine's.                            *)
THEOREM EngineRefinesVenue == Spec => ImplementsOrderVenue
<1>1. Orderly /\ Accounted /\ [Next]_vars =>
        [Venue!VenueNext \/ Engine]_(Venue!venueVars)
  <2>. SUFFICES ASSUME Orderly, Accounted, [Next]_vars
                PROVE  [Venue!VenueNext \/ Engine]_(Venue!venueVars)
    OBVIOUS
  <2>1. CASE PaperVenue
    BY <2>1, PaperImplements
  <2>2. CASE SimVenueSteps
    BY <2>2, SimImplements
  <2>3. CASE UNCHANGED vars
    BY <2>3 DEF vars, venueVars, paperVars, engineVars, Venue!venueVars, Paper,
       Placed, Working
  <2>. QED  BY <2>1, <2>2, <2>3 DEF Next
<1>. QED  BY <1>1, EngineInvariant, PTL DEF Spec, ImplementsOrderVenue

===============================================================================
