------------------------------ MODULE RateLimit ------------------------------
(***************************************************************************)
(* The order-rate throttle of the risk engine (crates/risk) over time.     *)
(* The window restarts at the first order a second or more after its       *)
(* start, so two full windows may touch: what is guaranteed of any second  *)
(* is twice the configured number, and what is refused had a full one.     *)
(***************************************************************************)
EXTENDS Risk, Sequences

CONSTANTS MaxTime,  \* bound: event time
          MaxSent   \* bound: orders accepted

ASSUME RateLimitAssumption == MaxTime \in Nat /\ MaxSent \in Nat

VARIABLES
  risk, now,
  sent       \* history: event times of the orders that passed

rateVars == <<risk, now, sent>>

RateInit == risk = NewRisk /\ now = 0 /\ sent = <<>>

(* Market data moves the event time, which is a monotonic clock's. *)
Tick ==
  /\ now' \in now..MaxTime
  /\ UNCHANGED <<risk, sent>>

(* An order that passed the other checks passes the throttle ... *)
Pass ==
  /\ UnderRate(risk, now)
  /\ Len(sent) < MaxSent
  /\ risk' = Counted(risk, now)
  /\ sent' = Append(sent, now)
  /\ UNCHANGED now

(* ... or does not; the window may have restarted all the same. *)
Refuse ==
  /\ ~UnderRate(risk, now)
  /\ risk' = Window(risk, now)
  /\ UNCHANGED <<now, sent>>

RateNext == Tick \/ Pass \/ Refuse

RateSpec == RateInit /\ [][RateNext]_rateVars

-----------------------------------------------------------------------------

(* The window is behind the clock, its count within the limit; the history *)
(* is in order.                                                            *)
TypeOK ==
  /\ risk \in [window_start : Nat, window_count : Nat]
  /\ risk.window_start <= now /\ risk.window_count <= MaxOrdersPerSec
  /\ now \in 0..MaxTime
  /\ sent \in Seq(0..MaxTime)
  /\ \A i, j \in 1..Len(sent) : i <= j => sent[i] <= sent[j]

(* No interval shorter than a second sees more than twice the limit: of    *)
(* any 2 * MaxOrdersPerSec + 1 orders in a row the last comes a second     *)
(* after the first.                                                        *)
TwiceTheLimit ==
  \A i, j \in 1..Len(sent) :
    j = i + 2 * MaxOrdersPerSec => sent[j] - sent[i] >= Second

(* Whenever an order would be refused, the last second saw the full number *)
(* of them: the throttle does not hold on to a window that is over.        *)
RefusedOnlyWhenFull ==
  ~UnderRate(risk, now) =>
    LET first == Len(sent) - MaxOrdersPerSec + 1
    IN /\ first > 0
       /\ first <= Len(sent) => sent[first] > now - Second

=============================================================================
