------------------------------- MODULE BookMap -------------------------------
(***************************************************************************)
(* What the price-level book promises: a quantity per side and price, 0    *)
(* where there is no level, that follows the messages it is given.  How    *)
(* levels are kept, searched and moved is not its business.                *)
(***************************************************************************)
EXTENDS Integers

CONSTANTS Prices

VARIABLES
  size,    \* size[side][price]
  applied  \* the messages applied, or as much of them as one cares to keep

Sides == {"Buy", "Sell"}
Empty == [s \in Sides |-> [p \in Prices |-> 0]]

(* A bid at p is beyond q when it is higher, an offer when it is lower. *)
IsBeyond(s, p, q) == IF s = "Buy" THEN p > q ELSE p < q

(* The top of a side is all there is at its price; no level beyond it is   *)
(* true any more, on its own side or on the other.                         *)
WithTop(side, price, qty) ==
  [s \in Sides |-> [p \in Prices |->
     CASE p = price             -> IF s = side THEN qty ELSE 0
       [] IsBeyond(s, p, price) -> 0
       [] OTHER                 -> size[s][p]]]

Sized(m) ==
  CASE m.kind = "Level" -> [size EXCEPT ![m.side][m.price] = m.qty]
    [] m.kind = "Top"   -> WithTop(m.side, m.price, m.qty)
    [] m.kind = "Trade" -> size
    [] m.kind = "Clear" -> Empty

Init == size = Empty

Next == size' = Sized(applied')

MapSpec == Init /\ [][Next]_<<size, applied>>

=============================================================================
