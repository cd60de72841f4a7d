------------------------------- MODULE Exposure -------------------------------
(***************************************************************************)
(* What order management and pre-trade risk together promise of the        *)
(* account, with no threads, messages or strategy in sight: orders are     *)
(* numbered once, are taken only while the worst case stays within the     *)
(* limit, are executed for at most what they have left, and are closed     *)
(* once.                                                                   *)
(***************************************************************************)
EXTENDS Integers

CONSTANTS ExposureLimit, LargestOrder

VARIABLES
  book,      \* open orders: number -> side and leaves
  position,
  open,      \* open quantity of each side
  next_id

Sides == {"Buy", "Sell"}
Signed(side, qty) == IF side = "Buy" THEN qty ELSE -qty

ExposureInit ==
  /\ book = [i \in {} |-> 0]
  /\ position = 0
  /\ open = [s \in Sides |-> 0]
  /\ next_id = 1

(* A new order, if the position stays within the limit when every open     *)
(* order of its side is filled.                                            *)
Submit(side, qty) ==
  /\ Signed(side, position) + open[side] + qty <= ExposureLimit
  /\ book' = [i \in DOMAIN book \cup {next_id} |->
                IF i = next_id THEN [side |-> side, leaves |-> qty]
                ELSE book[i]]
  /\ open' = [open EXCEPT ![side] = @ + qty]
  /\ next_id' = next_id + 1
  /\ UNCHANGED position

(* The order is executed for exactly qty of what it has left. *)
Execute(id, qty) ==
  LET side == book[id].side
  IN /\ position' = position + Signed(side, qty)
     /\ open' = [open EXCEPT ![side] = @ - qty]
     /\ book' = IF qty = book[id].leaves
                THEN [i \in DOMAIN book \ {id} |-> book[i]]
                ELSE [book EXCEPT ![id].leaves = @ - qty]
     /\ UNCHANGED next_id

(* What is left of the order is canceled. *)
Close(id) ==
  /\ open' = [open EXCEPT ![book[id].side] = @ - book[id].leaves]
  /\ book' = [i \in DOMAIN book \ {id} |-> book[i]]
  /\ UNCHANGED <<position, next_id>>

ExposureNext ==
  \/ \E side \in Sides, qty \in 1..LargestOrder : Submit(side, qty)
  \/ \E id \in DOMAIN book :
       \/ \E qty \in 1..book[id].leaves : Execute(id, qty)
       \/ Close(id)

ExposureSpec ==
  ExposureInit /\ [][ExposureNext]_<<book, position, open, next_id>>

=============================================================================
