------------------------------ MODULE Strategies ------------------------------
(***************************************************************************)
(* The strategies (crates/strategies).  A strategy reads the book and the  *)
(* OMS and answers with intents: an operator here gives the set of answers *)
(* it may give.                                                            *)
(*                                                                         *)
(* Time is left out: a throttle or a cool-down may be over or not.  So is  *)
(* the floating-point pricing of the market maker: with any spread, skew   *)
(* and volatility its quotes may be anywhere, in order and not crossing    *)
(* the touch.                                                              *)
(***************************************************************************)
EXTENDS Book

CONSTANTS
  QuotePrices,   \* bound: prices the market maker may come to
  DynPrices,     \* bound: prices any other strategy sends orders at
  OrderQty,      \* quote_qty, qty
  MaxInventory,  \* max_inventory
  RequoteTicks,  \* requote_ticks
  Threshold,     \* threshold, in tenths
  SignalLevels,  \* levels
  NoQuote        \* no quote is desired on a side (None)

ASSUME StrategiesAssumption ==
  /\ QuotePrices \subseteq Int /\ DynPrices \subseteq QuotePrices
  /\ OrderQty \in Nat \ {0}
  /\ MaxInventory \in Nat /\ MaxInventory >= OrderQty
  /\ RequoteTicks \in Nat \ {0}
  /\ Threshold \in Nat /\ SignalLevels \in Nat \ {0}

NewIntent(side, price, qty, tif) ==
  [kind |-> "New", side |-> side, price |-> price, qty |-> qty, tif |-> tif]
CancelIntents(ids) == SetToSeq({[kind |-> "Cancel", id |-> id] : id \in ids})

Abs(n) == IF n < 0 THEN -n ELSE n

PendingCancels(oms) ==
  {id \in DOMAIN oms.orders : oms.orders[id].status = "PendingCancel"}

-----------------------------------------------------------------------------
(* Market maker. *)

\* Mutant of MaySendNew: quotes being canceled are not looked at.
MaySendNewAnyway(desired, kept, throttled, cancelling) ==
  desired # NoQuote /\ kept = {} /\ ~throttled

(* A new quote goes out when none is kept, the throttle is over and at     *)
(* most one older quote still waits for its cancel.                        *)
MaySendNew(desired, kept, throttled, cancelling) ==
  /\ desired # NoQuote /\ kept = {} /\ ~throttled
  /\ Cardinality(cancelling) < 2

(* One quote near the desired price is kept, the others are canceled.  A   *)
(* throttled side tolerates a staler one.                                  *)
ManageSide(oms, side, desired, throttled) ==
  LET own        == {id \in DOMAIN oms.orders : oms.orders[id].side = side}
      cancelling == own \cap PendingCancels(oms)
      tolerance  == IF throttled THEN 4 * RequoteTicks ELSE RequoteTicks
      near       == {id \in own \ cancelling :
                       /\ desired # NoQuote
                       /\ Abs(oms.orders[id].price - desired) < tolerance}
      keeps      == IF near = {} THEN {{}} ELSE {{id} : id \in near}
  IN {CancelIntents((own \ cancelling) \ kept)
        \o (IF MaySendNew(desired, kept, throttled, cancelling)
            THEN <<NewIntent(side, desired, OrderQty, "PostOnly")>> ELSE <<>>) :
      kept \in keeps}

(* The side would not push the position past max_inventory; orders in the  *)
(* market are not counted.                                                 *)
Wants(oms, side) == Sign(side) * oms.position + OrderQty <= MaxInventory

Desired(oms, side, price) == IF Wants(oms, side) THEN price ELSE NoQuote

(* Desired prices for the two sides, and the answers that follow. *)
QuotePairs(book) ==
  {q \in QuotePrices \X QuotePrices :
     /\ q[1] < BestPrice(book, "Sell") /\ q[2] > BestPrice(book, "Buy")
     /\ q[1] <= q[2]}
ManageSides(oms, q, slow) ==
  {b \o s : b \in ManageSide(oms, "Buy", Desired(oms, "Buy", q[1]), slow[1]),
            s \in ManageSide(oms, "Sell", Desired(oms, "Sell", q[2]), slow[2])}

MarketMaker(oms, book) ==
  IF ~TwoSided(book) THEN {<<>>}
  ELSE UNION {ManageSides(oms, q, slow) :
                q \in QuotePairs(book), slow \in BOOLEAN \X BOOLEAN}

-----------------------------------------------------------------------------
(* Imbalance taker. *)

\* Mutant of Idle: the previous order may still be open.
IdleAnyway(oms) == TRUE

(* No order is open; the cool-down may be over. *)
Idle(oms) == DOMAIN oms.orders = {}

(* It joins a heavy imbalance, and flattens the position when there is     *)
(* next to none, each time with one IOC order at the touch.                *)
Signal(oms, book) ==
  LET imb == Imbalance(book, SignalLevels)
      Joins(side) ==
        Sign(side) * imb.num * 10 > Threshold * imb.den /\ Wants(oms, side)
      Take(side, qty) ==
        <<NewIntent(side, BestPrice(book, Opposite(side)), qty, "Ioc")>>
  IN IF \E side \in Side : Joins(side)
     THEN Take(CHOOSE side \in Side : Joins(side), OrderQty)
     ELSE IF Abs(imb.num) * 10 < imb.den /\ oms.position # 0
     THEN Take(IF oms.position > 0 THEN "Sell" ELSE "Buy",
               Min({Abs(oms.position), OrderQty}))
     ELSE <<>>

ImbalanceTaker(oms, book) ==
  IF ~TwoSided(book) \/ ~Idle(oms) THEN {<<>>}
  ELSE {<<>>, Signal(oms, book)}

-----------------------------------------------------------------------------
(* Any other strategy, a plugin say: one new order of any time in force,   *)
(* or a cancel of one order it has.                                        *)
DynStrategy(oms) ==
  {<<>>}
    \cup {<<i>> : i \in [kind : {"New"}, side : Side, price : DynPrices,
                         qty : {OrderQty}, tif : TimeInForce]}
    \cup {CancelIntents({id}) : id \in DOMAIN oms.orders}

(* Static dispatch of any.rs. *)
OnBookOf(strategy, oms, book) ==
  CASE strategy = "market_maker" -> MarketMaker(oms, book)
    [] strategy = "imbalance"    -> ImbalanceTaker(oms, book)
    [] strategy = "dyn"          -> DynStrategy(oms)

=============================================================================
