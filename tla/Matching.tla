------------------------------- MODULE Matching -------------------------------
(***************************************************************************)
(* The matching engine of the simulated venue (crates/sim/src/matching.rs):*)
(* a limit order book with price-time priority.  submit is a nested loop,  *)
(* so it is split into its iterations: pc is "idle" between calls, "match" *)
(* at the head of the loop over price levels, "maker" when the next order  *)
(* of the queue is to be hit (or the inner loop is over) and "taker" when  *)
(* the incoming order's side of that fill is to be reported.               *)
(*                                                                         *)
(* MatchEvents go where publish() sends them: our own reports to the       *)
(* private ring, levels to the public feed, here kept as the ladder a      *)
(* subscriber has built.  Trades change no state.                          *)
(***************************************************************************)
EXTENDS Oms, Sequences, SequencesExt

CONSTANTS Prices,   \* prices of orders
          NoTaker   \* no order is being matched

VARIABLES
  levels,    \* side -> price -> total and queue of ids
  orders,    \* id -> resting order
  pc,
  taker,     \* the order submit was called with; qty is what it has left
  hit,       \* quantity of the maker fill whose taker fill is due
  execCh,    \* our private execution reports
  ladder,    \* side -> price -> quantity, from the public level updates
  arrived    \* history: ids in the order in which they came to rest

matchingVars == <<levels, orders, pc, taker, hit, execCh, ladder, arrived>>

Owner == {"Ours", "Bg"}
Empty == [x \in {} |-> 0]

MatchingInit ==
  /\ levels = [s \in Side |-> Empty]
  /\ orders = Empty
  /\ pc = "idle" /\ taker = NoTaker /\ hit = 0
  /\ execCh = <<>>
  /\ ladder = [s \in Side |-> Empty]
  /\ arrived = <<>>

(* best_bid, best_ask *)
HasBest(side) == DOMAIN levels[side] # {}
Best(side) == IF side = "Buy" THEN Max(DOMAIN levels[side])
                              ELSE Min(DOMAIN levels[side])

\* Mutant of CrossesBest: an equal price does not cross.
CrossesBestStrictly(side, limit) ==
  LET other == Opposite(side)
  IN /\ HasBest(other)
     /\ IF side = "Buy" THEN Best(other) < limit ELSE Best(other) > limit

CrossesBest(side, limit) ==
  LET other == Opposite(side)
  IN /\ HasBest(other)
     /\ IF side = "Buy" THEN Best(other) <= limit ELSE Best(other) >= limit

(* A queue without id, where it has it. *)
Dequeued(queue, id) ==
  LET There == {i \in DOMAIN queue : queue[i] = id}
  IN IF There = {} THEN queue ELSE RemoveAt(queue, Min(There))

(* publish: reports of the background's orders are dropped. *)
Report(owner, e) ==
  execCh' = IF owner = "Ours" THEN Append(execCh, e) ELSE execCh

(* A level update reaches the subscriber: quantity 0 removes the level. *)
Update(side, price, qty) ==
  ladder' = [ladder EXCEPT ![side] = IF qty = 0 THEN Without(ladder[side], price)
                                     ELSE With(ladder[side], price, qty)]

SetLevel(side, price, level) ==
  [levels EXCEPT ![side] = With(levels[side], price, level)]
DropLevel(side, price) ==
  [levels EXCEPT ![side] = Without(levels[side], price)]

Invalid(o) == o.qty <= 0 \/ o.id \in DOMAIN orders
WouldCross(o) == o.tif = "PostOnly" /\ CrossesBest(o.side, o.price)

RejectOrder(o) ==
  /\ pc = "idle"
  /\ Invalid(o) \/ WouldCross(o)
  /\ Report(o.owner, Rejected(o.id, IF Invalid(o) THEN "InvalidOrder"
                                    ELSE "WouldCross"))
  /\ UNCHANGED <<levels, orders, pc, taker, hit, ladder, arrived>>

AcceptOrder(o) ==
  /\ pc = "idle"
  /\ ~Invalid(o) /\ ~WouldCross(o)
  /\ Report(o.owner, Ack(o.id))
  /\ taker' = o /\ pc' = "match"
  /\ UNCHANGED <<levels, orders, hit, ladder, arrived>>

Facing == Opposite(taker.side)
Touch == Best(Facing)
TouchLevel == levels[Facing][Touch]

(* Head of the outer loop. *)
EnterLevel ==
  /\ pc = "match"
  /\ taker.qty > 0 /\ CrossesBest(taker.side, taker.price)
  /\ pc' = "maker"
  /\ UNCHANGED <<levels, orders, taker, hit, execCh, ladder, arrived>>

FillQty(leaves) == Min({taker.qty, leaves})

\* Mutant of Reduced: the level keeps its total.
ReducedQueueOnly(level, qty) == level

Reduced(level, qty) == [level EXCEPT !.total = @ - qty]

(* Inner loop: the order at the front of the queue is hit ... *)
MakerFill ==
  /\ pc = "maker"
  /\ taker.qty > 0 /\ TouchLevel.queue # <<>>
  /\ LET id == Head(TouchLevel.queue)
         q == FillQty(orders[id].leaves)
         left == orders[id].leaves - q
     IN /\ orders' = With(orders, id, [orders[id] EXCEPT !.leaves = left])
        /\ levels' = SetLevel(Facing, Touch, Reduced(TouchLevel, q))
        /\ Report(orders[id].owner, Fill(id, Touch, q, left))
        /\ hit' = q
  /\ pc' = "taker"
  /\ UNCHANGED <<taker, ladder, arrived>>

\* Mutant of TakerReport: it reports what was left before the fill.
TakerReportStale == Fill(taker.id, Touch, hit, taker.qty)

TakerReport == Fill(taker.id, Touch, hit, taker.qty - hit)

(* ... and the incoming order is filled against it; a filled maker leaves. *)
TakerFill ==
  /\ pc = "taker"
  /\ taker' = [taker EXCEPT !.qty = @ - hit]
  /\ Report(taker.owner, TakerReport)
  /\ hit' = 0
  /\ LET id == Head(TouchLevel.queue)
     IN IF orders[id].leaves = 0
        THEN /\ levels' = SetLevel(Facing, Touch,
                                   [TouchLevel EXCEPT !.queue = Tail(@)])
             /\ orders' = Without(orders, id)
             /\ arrived' = Dequeued(arrived, id)
        ELSE UNCHANGED <<levels, orders, arrived>>
  /\ pc' = "maker"
  /\ UNCHANGED ladder

\* Mutant of LevelsLeft: an empty level is not removed.
LevelsLeftKeepsEmpty == levels

LevelsLeft ==
  IF TouchLevel.queue = <<>> THEN DropLevel(Facing, Touch) ELSE levels

\* Mutant of Publish: the level is not published.
PublishNothing == UNCHANGED ladder

Publish == Update(Facing, Touch, TouchLevel.total)

(* The inner loop is over: its level is published, and removed when empty. *)
LeaveLevel ==
  /\ pc = "maker"
  /\ taker.qty = 0 \/ TouchLevel.queue = <<>>
  /\ Publish
  /\ levels' = LevelsLeft
  /\ pc' = "match"
  /\ UNCHANGED <<orders, taker, hit, execCh, arrived>>

\* Mutant of Enqueued: the newcomer goes to the front.
EnqueuedInFront(level, id, qty) ==
  [total |-> level.total + qty, queue |-> <<id>> \o level.queue]

Enqueued(level, id, qty) ==
  [total |-> level.total + qty, queue |-> Append(level.queue, id)]

(* Nothing more to match: an IOC remainder is canceled, another one rests  *)
(* behind the orders of its price.                                         *)
Finish ==
  /\ pc = "match"
  /\ ~(taker.qty > 0 /\ CrossesBest(taker.side, taker.price))
  /\ IF taker.qty > 0 /\ taker.tif # "Ioc"
     THEN LET side == taker.side
              price == taker.price
              old == IF price \in DOMAIN levels[side] THEN levels[side][price]
                     ELSE [total |-> 0, queue |-> <<>>]
              new == Enqueued(old, taker.id, taker.qty)
          IN /\ levels' = SetLevel(side, price, new)
             /\ orders' = With(orders, taker.id,
                               [owner |-> taker.owner, side |-> side,
                                price |-> price, leaves |-> taker.qty])
             /\ Update(side, price, new.total)
             /\ arrived' = Append(arrived, taker.id)
             /\ UNCHANGED execCh
     ELSE /\ IF taker.qty > 0 THEN Report(taker.owner, Canceled(taker.id))
             ELSE UNCHANGED execCh
          /\ UNCHANGED <<levels, orders, ladder, arrived>>
  /\ pc' = "idle" /\ taker' = NoTaker
  /\ UNCHANGED hit

CancelOrder(owner, id) ==
  /\ pc = "idle"
  /\ IF id \in DOMAIN orders /\ orders[id].owner = owner
     THEN LET o == orders[id]
              level == levels[o.side][o.price]
              queue == Dequeued(level.queue, id)
              total == level.total - o.leaves
          IN /\ orders' = Without(orders, id)
             /\ levels' = IF queue = <<>> THEN DropLevel(o.side, o.price)
                          ELSE SetLevel(o.side, o.price,
                                        [total |-> total, queue |-> queue])
             /\ Update(o.side, o.price, Max({total, 0}))
             /\ arrived' = Dequeued(arrived, id)
             /\ Report(owner, Canceled(id))
     ELSE /\ Report(owner, Rejected(id, "UnknownOrder"))
          /\ UNCHANGED <<levels, orders, ladder, arrived>>
  /\ UNCHANGED <<pc, taker, hit>>

Match == EnterLevel \/ MakerFill \/ TakerFill \/ LeaveLevel \/ Finish

=============================================================================
