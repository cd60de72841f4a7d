-------------------------------- MODULE MCFeed --------------------------------
(* Values of Feed's constants that a configuration cannot write down. *)
EXTENDS Feed

(* One lot bid at 1 and one lot offered at 3. *)
StartOneByOne ==
  [s \in Side |-> [p \in Prices |->
     CASE s = "Buy" /\ p = 1 -> 1 [] s = "Sell" /\ p = 3 -> 1 [] OTHER -> 0]]

=============================================================================
