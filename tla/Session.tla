------------------------------- MODULE Session -------------------------------
(***************************************************************************)
(* A session with the simulated venue (apps/cli/src/run.rs): its threads,  *)
(* the bounded rings between them and how they stop.  The engine sends     *)
(* orders and waits for room, the venue sends execution reports and waits  *)
(* for room; market data is dropped when its ring is full.  Main raises    *)
(* the stop flag, both threads look at it at the head of their loop only,  *)
(* and main joins them.  The journal thread is in JournalThread.           *)
(*                                                                         *)
(* A push and a pop are single steps (Ring implements BoundedQueue).  What *)
(* an order is worth, and what becomes of it in the OMS and in the book,   *)
(* is left out (OrderEntry, Matching): an order has some lots at the venue *)
(* and a report tells whether it is its order's last.                      *)
(***************************************************************************)
EXTENDS Naturals, Sequences, FiniteSets

CONSTANTS
  OrderCap, ExecCap, MdCap, \* slots of the rings
  MaxOpenOrders,  \* limits.max_open_orders
  Lots,           \* quantity of an order
  EngineBurst,    \* messages the engine takes between two looks at the flag
  FlowBurst,      \* the same for the venue's background flow
  MaxOrders       \* bound: orders sent

ASSUME SessionAssumption ==
  /\ {OrderCap, ExecCap, MdCap} \subseteq Nat \ {0}
  /\ {Lots, EngineBurst, FlowBurst} \subseteq Nat \ {0}
  /\ {MaxOpenOrders, MaxOrders} \subseteq Nat

VARIABLES
  stop, main,
  orderRing, execRing,
  mdRing,                        \* number of messages in it
  \* engine
  epc,
  round,                         \* of intents still to come in this pass
  back,                          \* where to go after the last
  open, canceling,               \* the OMS: open orders, those PendingCancel
  execs,                         \* reports polled
  cancels, news,                 \* intents
  mdLeft, sent,
  \* venue
  vpc, inflight,
  working,                       \* id -> lots resting
  out,                           \* reports to publish
  flow                           \* left of the burst

mainVars == <<stop, main>>
omsVars == <<open, canceling>>
intentVars == <<cancels, news, round, back>>
engineVars == <<epc, omsVars, execs, intentVars, mdLeft, sent>>
venueVars == <<vpc, inflight, working, out, flow>>
vars == <<mainVars, orderRing, execRing, mdRing, engineVars, venueVars>>

New(id) == [cmd |-> "New", id |-> id]
Cancel(id) == [cmd |-> "Cancel", id |-> id]
Report(id, last) == [id |-> id, last |-> last]

Init ==
  /\ stop = FALSE /\ main = "supervise"
  /\ orderRing = <<>> /\ execRing = <<>> /\ mdRing = 0
  /\ epc = "head" /\ round = 0 /\ back = "head"
  /\ open = {} /\ canceling = {} /\ execs = <<>>
  /\ cancels = {} /\ news = 0 /\ mdLeft = 0 /\ sent = 0
  /\ vpc = "head" /\ inflight = <<>> /\ working = [x \in {} |-> 0]
  /\ out = <<>> /\ flow = 0

-----------------------------------------------------------------------------
(* Main *)

(* The duration is over, or Ctrl-C. *)
Stop ==
  /\ main = "supervise"
  /\ stop' = TRUE /\ main' = "join"
  /\ UNCHANGED <<orderRing, execRing, mdRing, engineVars, venueVars>>

Join ==
  /\ main = "join"
  /\ epc = "done" /\ vpc = "done"
  /\ main' = "ended"
  /\ UNCHANGED <<stop, orderRing, execRing, mdRing, engineVars, venueVars>>

-----------------------------------------------------------------------------
(* Engine thread *)

(* Head of the loop; shutdown cancels every order. *)
EngineHead ==
  /\ epc = "head"
  /\ IF stop
     THEN /\ epc' = "send" /\ back' = "done"
          /\ cancels' = open \ canceling
          /\ UNCHANGED mdLeft
     ELSE /\ epc' = "md" /\ mdLeft' = EngineBurst
          /\ UNCHANGED <<back, cancels>>
  /\ UNCHANGED <<mainVars, orderRing, execRing, mdRing, omsVars, execs, news,
                 round, sent, venueVars>>

(* The reports are polled; what comes of them is sent, then what comes of  *)
(* the book or of housekeeping.                                            *)
PollVenue ==
  /\ execs' = execRing /\ execRing' = <<>>
  /\ epc' = "apply" /\ round' = 2

EngineMd ==
  /\ epc = "md" /\ mdRing > 0 /\ mdLeft > 0
  /\ mdRing' = mdRing - 1 /\ mdLeft' = mdLeft - 1
  /\ PollVenue /\ back' = "md"
  /\ UNCHANGED <<mainVars, orderRing, omsVars, cancels, news, sent, venueVars>>

(* No market data, or a burst of it: the reports are polled all the same. *)
EnginePoll ==
  /\ epc = "md" /\ (mdRing = 0 \/ mdLeft = 0)
  /\ PollVenue /\ back' = "head" /\ mdLeft' = 0
  /\ UNCHANGED <<mainVars, orderRing, mdRing, omsVars, cancels, news, sent,
                 venueVars>>

EngineApply ==
  /\ epc = "apply" /\ execs # <<>>
  /\ LET e == Head(execs)
         gone == IF e.last THEN {e.id} ELSE {}
     IN open' = open \ gone /\ canceling' = canceling \ gone
  /\ execs' = Tail(execs)
  /\ UNCHANGED <<mainVars, orderRing, execRing, mdRing, epc, intentVars,
                 mdLeft, sent, venueVars>>

(* The strategy wants any cancels and orders, housekeeping all cancels. *)
EngineIntents ==
  /\ epc = "apply" /\ execs = <<>>
  /\ cancels' \in SUBSET (open \ canceling)
  /\ news' \in 0..MaxOpenOrders
  /\ epc' = "send" /\ round' = round - 1
  /\ UNCHANGED <<mainVars, orderRing, execRing, mdRing, back, omsVars, execs,
                 mdLeft, sent, venueVars>>

(* process_intents: the engine waits for room in the order ring. *)
SendCancel ==
  /\ epc = "send" /\ Len(orderRing) < OrderCap
  /\ \E id \in cancels :
       /\ orderRing' = Append(orderRing, Cancel(id))
       /\ cancels' = cancels \ {id}
       /\ canceling' = canceling \cup {id}
  /\ UNCHANGED <<mainVars, execRing, mdRing, epc, round, back, open, execs,
                 news, mdLeft, sent, venueVars>>

\* Mutant of MayOpen: an order being canceled no longer counts.
MayOpenIgnoresCancels == Cardinality(open \ canceling) < MaxOpenOrders

(* check_new's limit on open orders. *)
MayOpen == Cardinality(open) < MaxOpenOrders

SendNew ==
  /\ epc = "send" /\ Len(orderRing) < OrderCap
  /\ news > 0 /\ MayOpen /\ sent < MaxOrders
  /\ sent' = sent + 1
  /\ orderRing' = Append(orderRing, New(sent + 1))
  /\ open' = open \cup {sent + 1}
  /\ news' = news - 1
  /\ UNCHANGED <<mainVars, execRing, mdRing, epc, round, back, canceling,
                 execs, cancels, mdLeft, venueVars>>

(* Risk may refuse any order (Risk). *)
RefuseNew ==
  /\ epc = "send" /\ news > 0
  /\ news' = news - 1
  /\ UNCHANGED <<mainVars, orderRing, execRing, mdRing, epc, round, back,
                 omsVars, execs, cancels, mdLeft, sent, venueVars>>

\* Mutant of AllSent: shutdown waits until its cancels are confirmed.
AllSentAndDead ==
  epc = "send" /\ cancels = {} /\ news = 0 /\ (back = "done" => open = {})

AllSent == epc = "send" /\ cancels = {} /\ news = 0

EngineSent ==
  /\ AllSent
  /\ epc' = IF round > 0 THEN "apply" ELSE back
  /\ UNCHANGED <<mainVars, orderRing, execRing, mdRing, omsVars, execs,
                 intentVars, mdLeft, sent, venueVars>>

Engine ==
  \/ EngineHead \/ EngineMd \/ EnginePoll \/ EngineApply \/ EngineIntents
  \/ SendCancel \/ SendNew \/ RefuseNew \/ EngineSent

-----------------------------------------------------------------------------
(* Venue thread *)

VenueHead ==
  /\ vpc = "head"
  /\ vpc' = IF stop THEN "done" ELSE "take"
  /\ UNCHANGED <<mainVars, orderRing, execRing, mdRing, engineVars, inflight,
                 working, out, flow>>

(* Every order in the ring goes onto the simulated wire. *)
VenueTake ==
  /\ vpc = "take"
  /\ IF orderRing # <<>>
     THEN /\ inflight' = Append(inflight, Head(orderRing))
          /\ orderRing' = Tail(orderRing)
          /\ UNCHANGED vpc
     ELSE vpc' = "handle" /\ UNCHANGED <<inflight, orderRing>>
  /\ UNCHANGED <<mainVars, execRing, mdRing, engineVars, working, out, flow>>

(* Market data of a change of the book: lost when the ring is full. *)
Publish == mdRing' = IF mdRing < MdCap THEN mdRing + 1 ELSE mdRing

(* Reports of an order filled for some lots at once: it rests, or its      *)
(* remainder is canceled.                                                  *)
Fills(id, n) == [i \in 1..n |-> Report(id, i = Lots)]
Handled(m) ==
  IF m.cmd = "Cancel"
  THEN {[reports |-> <<Report(m.id, m.id \in DOMAIN working)>>, lots |-> 0]}
  ELSE {[reports |-> <<Report(m.id, TRUE)>>, lots |-> 0]}   \* rejected
       \cup {[reports |-> <<Report(m.id, FALSE)>> \o Fills(m.id, n),
              lots |-> Lots - n] : n \in 0..Lots}
       \cup {[reports |-> <<Report(m.id, FALSE)>> \o Fills(m.id, n)
                          \o <<Report(m.id, TRUE)>>,
              lots |-> 0] : n \in 0..(Lots - 1)}

Resting(lots) == {id \in DOMAIN lots : lots[id] > 0}

SetWorking(id, n) ==
  LET lots == [x \in DOMAIN working \cup {id} |->
                 IF x = id THEN n ELSE working[x]]
  IN working' = [x \in Resting(lots) |-> lots[x]]

(* A message of the wire is due. *)
VenueHandle ==
  /\ vpc = "handle" /\ out = <<>> /\ inflight # <<>>
  /\ \E r \in Handled(Head(inflight)) :
       out' = r.reports /\ SetWorking(Head(inflight).id, r.lots)
  /\ inflight' = Tail(inflight)
  /\ Publish \/ UNCHANGED mdRing
  /\ UNCHANGED <<mainVars, orderRing, execRing, engineVars, vpc, flow>>

(* Nothing is due (any more). *)
VenueIdle ==
  /\ vpc = "handle" /\ out = <<>>
  /\ vpc' = "flow" /\ flow' \in 0..FlowBurst
  /\ UNCHANGED <<mainVars, orderRing, execRing, mdRing, engineVars, inflight,
                 working, out>>

(* A background order: it may fill one of ours. *)
VenueFlow ==
  /\ vpc = "flow" /\ out = <<>> /\ flow > 0
  /\ flow' = flow - 1
  /\ \/ UNCHANGED <<working, out, mdRing>>
     \/ Publish /\ UNCHANGED <<working, out>>
     \/ /\ Publish
        /\ \E id \in DOMAIN working :
             /\ out' = <<Report(id, working[id] = 1)>>
             /\ SetWorking(id, working[id] - 1)
  /\ UNCHANGED <<mainVars, orderRing, execRing, engineVars, vpc, inflight>>

VenueLoops ==
  /\ vpc = "flow" /\ out = <<>> /\ flow = 0
  /\ vpc' = "head"
  /\ UNCHANGED <<mainVars, orderRing, execRing, mdRing, engineVars, inflight,
                 working, out, flow>>

(* publish: the venue waits for room in the report ring. *)
VenuePublish ==
  /\ out # <<>> /\ Len(execRing) < ExecCap
  /\ execRing' = Append(execRing, Head(out))
  /\ out' = Tail(out)
  /\ UNCHANGED <<mainVars, orderRing, mdRing, engineVars, vpc, inflight,
                 working, flow>>

Venue ==
  \/ VenueHead \/ VenueTake \/ VenueHandle \/ VenueIdle \/ VenueFlow
  \/ VenueLoops \/ VenuePublish

-----------------------------------------------------------------------------

Next == Stop \/ Join \/ Engine \/ Venue

Spec == Init /\ [][Next]_vars

(* Every thread runs on; nobody has to stop the session. *)
FairSpec ==
  /\ Spec
  /\ WF_vars(Engine) /\ WF_vars(Venue) /\ WF_vars(Join)

-----------------------------------------------------------------------------

(* Nothing may block the engine (docs/src/adr/0002:24): it never waits for *)
(* the venue to make room for an order, because max_open_orders, which     *)
(* counts orders being canceled, also limits what can be in the ring: an   *)
(* order, its cancel and the late cancel of the order whose place it took. *)
EngineNeverWaits ==
  epc = "send" /\ (cancels # {} \/ (news > 0 /\ MayOpen)) =>
    Len(orderRing) < OrderCap

(* A session that is told to stop ends (run.rs joins every thread): no    *)
(* thread is left waiting for room in a ring whose reader is gone.         *)
SessionEnds == stop ~> (main = "ended")

=============================================================================
