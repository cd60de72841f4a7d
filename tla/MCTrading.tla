------------------------------ MODULE MCTrading -------------------------------
(***************************************************************************)
(* What the engine thread lets out, asked in one run: how many orders and  *)
(* how much inventory a strategy builds (Trading), and how many orders a   *)
(* second the risk engine passes (RateLimit).  The two share no state, so  *)
(* a behaviour is one of either, and the state of the other stands still.  *)
(***************************************************************************)
EXTENDS Trading, RateLimit

VARIABLE asked  \* which of the two moves

MCInit == Init /\ RateInit /\ asked \in {"trading", "throttle"}

MCNext ==
  /\ \/ asked = "trading" /\ Next /\ UNCHANGED rateVars
     \/ asked = "throttle" /\ RateNext /\ UNCHANGED vars
  /\ UNCHANGED asked

MCSpec == MCInit /\ [][MCNext]_<<vars, rateVars, asked>>

=============================================================================
