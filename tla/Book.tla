--------------------------------- MODULE Book ---------------------------------
(***************************************************************************)
(* The price-level book of crates/book.  A side is a ladder: a sequence of *)
(* levels whose last one is the best.  The book belongs to one thread, so  *)
(* each method is an operator from the old book to the new one.  The last  *)
(* trade and the count of updates are left out: no control depends on      *)
(* them.                                                                   *)
(***************************************************************************)
EXTENDS Oms, SequencesExt

CONSTANT TopScan  \* levels searched one by one before the bisection

ASSUME TopScanAssumption == TopScan \in Nat

Level(price, qty) == [price |-> price, qty |-> qty]
EmptyBook == [s \in Side |-> <<>>]

(* Market-data messages, one constructor per MdKind. *)
LevelMsg(side, price, qty) ==
  [kind |-> "Level", side |-> side, price |-> price, qty |-> qty]
TopMsg(side, price, qty) ==
  [kind |-> "Top", side |-> side, price |-> price, qty |-> qty]
TradeMsg(aggressor, price, qty) ==
  [kind |-> "Trade", side |-> aggressor, price |-> price, qty |-> qty]
ClearMsg == [kind |-> "Clear"]

(* Bids ascend by price and asks descend: one order serves both sides. *)
Key(side, price) == Sign(side) * price

-----------------------------------------------------------------------------
(* The place of a price in a ladder: where it is, or after how many levels *)
(* it belongs.                                                             *)
At(i)    == [found |-> TRUE,  at |-> i]
After(n) == [found |-> FALSE, at |-> n]

(* binary_search_by of the standard library, on a sorted slice. *)
BinarySearch(side, levels, k) ==
  LET Same == {i \in DOMAIN levels : Key(side, levels[i].price) = k}
      Below == {i \in DOMAIN levels : Key(side, levels[i].price) < k}
  IN IF Same = {} THEN After(Cardinality(Below)) ELSE At(Max(Same))

(* From the best level down to the first one that is not better; the       *)
(* levels beyond the scanned ones are bisected.                            *)
Find(side, ladder, price) ==
  LET k == Key(side, price)
      lim == Max({0, Len(ladder) - TopScan})
      Stops == {i \in (lim + 1)..Len(ladder) : Key(side, ladder[i].price) <= k}
  IN IF Stops = {} THEN BinarySearch(side, SubSeq(ladder, 1, lim), k)
     ELSE IF Key(side, ladder[Max(Stops)].price) = k THEN At(Max(Stops))
          ELSE After(Max(Stops))

(* A quantity of nothing removes the level it names. *)
Set(side, ladder, price, qty) ==
  LET place == Find(side, ladder, price)
  IN IF place.found
     THEN IF qty <= 0 THEN RemoveAt(ladder, place.at)
          ELSE ReplaceAt(ladder, place.at, Level(price, qty))
     ELSE IF qty > 0 THEN InsertAt(ladder, place.at + 1, Level(price, qty))
          ELSE ladder

-----------------------------------------------------------------------------
(* The ladder without its best levels at the places of gone, down to the   *)
(* first one that stays.                                                   *)
PopWhile(ladder, gone) ==
  SubSeq(ladder, 1, Max({0} \cup (DOMAIN ladder \ gone)))

(* The places of levels better than price on its own side, and of those of *)
(* the opposite side that it is at or through.                             *)
Better(side, price, ladder) ==
  {i \in DOMAIN ladder : Key(side, ladder[i].price) > Key(side, price)}
Through(side, price, ladder) ==
  {i \in DOMAIN ladder : Key(side, ladder[i].price) <= Key(side, price)}

SetLevel(book, side, price, qty) ==
  [book EXCEPT ![side] = Set(side, @, price, qty)]

\* Mutant of SetTop: the opposite side is left alone.
SetTopOneSided(book, side, price, qty) ==
  LET own == PopWhile(book[side], Better(side, price, book[side]))
  IN [book EXCEPT ![side] = Set(side, own, price, qty)]

(* Better levels of the side go, and those of the other side that the new  *)
(* top crosses.                                                            *)
SetTop(book, side, price, qty) ==
  LET other == book[Opposite(side)]
      own == PopWhile(book[side], Better(side, price, book[side]))
      opp == PopWhile(other, Through(side, price, other))
  IN [s \in Side |-> IF s = side THEN Set(side, own, price, qty) ELSE opp]

Apply(book, md) ==
  CASE md.kind = "Level" -> SetLevel(book, md.side, md.price, md.qty)
    [] md.kind = "Top"   -> SetTop(book, md.side, md.price, md.qty)
    [] md.kind = "Trade" -> book
    [] md.kind = "Clear" -> EmptyBook

-----------------------------------------------------------------------------
(* What the readers of the book ask. *)
HasBest(book, side) == book[side] # <<>>
BestLevel(book, side) == Last(book[side])
BestPrice(book, side) == BestLevel(book, side).price
TwoSided(book) == \A s \in Side : HasBest(book, s)
IsCrossed(book) ==
  TwoSided(book) /\ BestPrice(book, "Buy") >= BestPrice(book, "Sell")

(* The size of the best n levels of a side. *)
TopSize(book, side, n) ==
  FoldSeq(LAMBDA l, sum : l.qty + sum, 0,
          SubSeq(book[side], Max({1, Len(book[side]) - n + 1}), Len(book[side])))

(* Volume imbalance of the best n levels, as a fraction of its sum. *)
Imbalance(book, n) ==
  LET b == TopSize(book, "Buy", n)
      a == TopSize(book, "Sell", n)
  IN [num |-> b - a, den |-> b + a]

=============================================================================
