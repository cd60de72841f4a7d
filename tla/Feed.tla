--------------------------------- MODULE Feed ---------------------------------
(***************************************************************************)
(* Market data from a venue to the engine's book: the websocket runner,    *)
(* the adapter's parser and the emitter on the feed thread (crates/        *)
(* adapters), the ring, and on_md on the engine thread.  The simulated     *)
(* venue's publisher is a feed too: it sends updates only, from the first  *)
(* level on, and is never disconnected.                                    *)
(*                                                                         *)
(* fpc is where the feed thread is: at the "head" of the reconnect loop,   *)
(* in "connect", at the head of the "session" loop, waiting in "recv", or  *)
(* in "flush"; "ended" when it has returned.                               *)
(***************************************************************************)
EXTENDS Protocols

CONSTANTS
  Prices, Qtys,   \* of the venue's levels and trades
  Feeds,          \* protocols to look at; "sim" is the simulated venue
  StartBook,      \* what a network venue quotes when the session starts
  RingCap,        \* slots of the ring
  MayGarble,      \* frames may have a number that does not parse
  MaxReconnects,  \* bound: failed or closed connections
  MaxFrames,      \* bound: frames the venue sends
  NoMsg

ASSUME FeedAssumption ==
  /\ Prices \subseteq Int /\ IsFiniteSet(Prices)
  /\ Qtys \subseteq Nat \ {0}
  /\ StartBook \in [Side -> [Prices -> Nat]]
  /\ Feeds \subseteq Protocol \cup {"sim"}
  /\ RingCap \in Nat \ {0} /\ MayGarble \in BOOLEAN
  /\ MaxReconnects \in Nat /\ MaxFrames \in Nat

VARIABLES
  feed,        \* the protocol of this session
  venue,       \* the venue's own book
  fpc,
  subscribed,  \* the venue has our subscription
  snapped,     \* it has sent the snapshot that follows one (Kraken)
  pending,     \* collected by the emitter and not pushed yet
  seq, dropped,
  sync,        \* history: how much of the venue's book the pushed messages tell
  ring,
  book, last_seq, md_gaps,  \* of the engine
  last,        \* history: the message the engine applied last
  stop, reconnects, frames

engineVars == <<book, last_seq, md_gaps, last>>
emitterVars == <<pending, seq, dropped, sync, ring>>
venueVars == <<venue, subscribed, snapped, frames>>
vars == <<feed, fpc, stop, reconnects, venueVars, emitterVars, engineVars>>

Simulated == feed = "sim"
NoLevels == [s \in Side |-> [p \in Prices |-> 0]]

Init ==
  /\ feed \in Feeds
  /\ venue = IF Simulated THEN NoLevels ELSE StartBook
  /\ fpc = IF Simulated THEN "session" ELSE "head"
  /\ subscribed = Simulated /\ snapped = FALSE
  /\ pending = <<>> /\ seq = 0 /\ dropped = 0
  /\ sync = IF Simulated THEN "all" ELSE "none"
  /\ ring = <<>>
  /\ book = EmptyBook /\ last_seq = 0 /\ md_gaps = 0 /\ last = NoMsg
  /\ stop = FALSE /\ reconnects = 0 /\ frames = 0

-----------------------------------------------------------------------------
(* The websocket runner and the loop of the simulated venue. *)

LoopHead ==
  /\ fpc = "head"
  /\ fpc' = IF stop THEN "ended" ELSE "connect"
  /\ UNCHANGED <<feed, stop, reconnects, venueVars, emitterVars, engineVars>>

(* Connected: the subscriptions go out, Alpaca's only after its login. *)
Connect ==
  /\ fpc = "connect"
  /\ fpc' = "session"
  /\ subscribed' = (feed # "alpaca") /\ snapped' = FALSE
  /\ UNCHANGED <<feed, stop, reconnects, venue, frames, emitterVars, engineVars>>

(* The connection fails or the venue closes it; the runner backs off and   *)
(* tries again, unless it is to stop.  What the venue sends until the next *)
(* subscription is missed.                                                 *)
Fail ==
  /\ fpc \in {"connect", "recv"} /\ ~Simulated
  /\ reconnects < MaxReconnects
  /\ fpc' = IF stop THEN "ended" ELSE "head"
  /\ reconnects' = IF stop THEN reconnects ELSE reconnects + 1
  /\ subscribed' = FALSE /\ sync' = "none"
  /\ UNCHANGED <<feed, stop, snapped, venue, frames, pending, seq, dropped, ring,
                 engineVars>>

SessionHead ==
  /\ fpc = "session"
  /\ fpc' = IF ~stop THEN "recv" ELSE IF Simulated THEN "ended" ELSE "head"
  /\ UNCHANGED <<feed, stop, reconnects, venueVars, emitterVars, engineVars>>

(* No frame for half a second: look at the flag again. *)
Timeout ==
  /\ fpc = "recv"
  /\ fpc' = "session"
  /\ UNCHANGED <<feed, stop, reconnects, venueVars, emitterVars, engineVars>>

-----------------------------------------------------------------------------
(* A frame of the venue arrives and is parsed. *)

(* The messages the frame stands for: those of the simulated venue are its *)
(* level updates and trades themselves.                                    *)
Parsed(f) ==
  IF Simulated THEN Ok(IF f.channel = "trade" THEN Trades(f) ELSE BothSides(f))
  ELSE OnText(feed, f)

(* How much of the venue's book ours tells after the frame, if nothing of  *)
(* it is dropped: all of it after a snapshot, the bests after a quote.     *)
SyncAfter(f) ==
  CASE f.channel = "book" /\ f.snapshot -> "all"
    [] f.channel = "best"               -> "best"
    [] OTHER                            -> sync

(* What is told of a book is lost, once some of it has been told. *)
Lost == IF sync = "none" THEN "none" ELSE "lost"

(* A frame that does not parse is discarded as a whole. *)
OnFrame(f) ==
  /\ fpc = "recv" /\ frames < MaxFrames
  /\ pending' = Parsed(f).msgs
  /\ sync' = IF Parsed(f).ok THEN SyncAfter(f)
             ELSE IF f.channel \in {"book", "best"} THEN Lost ELSE sync
  /\ fpc' = IF pending' = <<>> THEN "session" ELSE "flush"
  /\ frames' = frames + 1
  /\ UNCHANGED <<feed, stop, reconnects, seq, dropped, ring, engineVars>>

(* The levels of a side, best first: each behind those ahead of it. *)
Quoted(levels, side) == {p \in Prices : levels[side][p] > 0}
Quotes(levels, side) == Quoted(levels, side) # {}
Ahead(levels, side, p) ==
  {q \in Quoted(levels, side) : Key(side, q) > Key(side, p)}
BestFirst(levels, side) ==
  LET Row(i) == CHOOSE p \in Quoted(levels, side) :
                 Cardinality(Ahead(levels, side, p)) = i - 1
  IN [i \in 1..Cardinality(Quoted(levels, side)) |->
        Level(Row(i), levels[side][Row(i)])]
Uncrossed(levels) ==
  \A b, a \in Prices : levels["Buy"][b] > 0 /\ levels["Sell"][a] > 0 => b < a

Garbled == IF MayGarble /\ ~Simulated THEN BOOLEAN ELSE {FALSE}
BookFrame(snapshot, bids, asks, bad) ==
  [channel |-> "book", snapshot |-> snapshot, bids |-> bids, asks |-> asks,
   bad |-> bad]
BestFrame(levels, bad) ==
  [channel |-> "best", bids |-> BestFirst(levels, "Buy"),
   asks |-> BestFirst(levels, "Sell"), bad |-> bad]
TradeFrame(side, price, qty, bad) ==
  [channel |-> "trade", aggressor |-> side, price |-> price, qty |-> qty,
   bad |-> bad]

(* The venue's book changes at one price; it stays uncrossed, and feeds    *)
(* that only tell bests have one on each side.                             *)
Moves(s, p, q) ==
  /\ venue' = [venue EXCEPT ![s][p] = q]
  /\ venue' # venue
  /\ Uncrossed(venue')
  /\ feed \in {"kraken", "sim"} \/ \A t \in Side : Quotes(venue', t)

(* Venues that send changes send the changed level; the others the bests.  *)
UpdateFrame ==
  /\ subscribed
  /\ (feed = "kraken" => snapped)
  /\ \E s \in Side, p \in Prices, q \in Qtys \cup {0}, bad \in Garbled :
       LET Row(t) == IF t = s THEN <<Level(p, q)>> ELSE <<>>
       IN /\ Moves(s, p, q)
          /\ OnFrame(IF feed \in {"kraken", "sim"}
                     THEN BookFrame(FALSE, Row("Buy"), Row("Sell"), bad)
                     ELSE BestFrame(venue', bad))
  /\ UNCHANGED <<subscribed, snapped>>

(* The whole book: Kraken sends it once after the subscription. *)
SnapshotFrame ==
  /\ subscribed
  /\ feed \in {"okx", "binance"} \/ (feed = "kraken" /\ ~snapped)
  /\ snapped' = TRUE
  /\ \E bad \in Garbled :
       OnFrame(BookFrame(TRUE, BestFirst(venue, "Buy"), BestFirst(venue, "Sell"), bad))
  /\ UNCHANGED <<venue, subscribed>>

(* A trade may be told before the first snapshot. *)
TradePrint ==
  /\ subscribed
  /\ \E side \in Side, p \in Prices, q \in Qtys, bad \in Garbled :
       /\ venue[Opposite(side)][p] >= q
       /\ OnFrame(TradeFrame(side, p, q, bad))
  /\ UNCHANGED <<venue, subscribed, snapped>>

(* Acknowledgements and refusals; Alpaca's answer to the login makes the   *)
(* runner subscribe.                                                       *)
ControlFrame ==
  /\ ~Simulated
  /\ \E channel \in {"control", "refusal"} :
       /\ OnFrame([channel |-> channel, bad |-> FALSE])
       /\ subscribed' = (subscribed \/ channel = "control")
  /\ UNCHANGED <<venue, snapped>>

(* What happens at the venue while it does not tell us. *)
VenueMovesUnseen ==
  /\ ~subscribed \/ (feed = "kraken" /\ ~snapped)
  /\ frames < MaxFrames
  /\ \E s \in Side, p \in Prices, q \in Qtys \cup {0} : Moves(s, p, q)
  /\ frames' = frames + 1
  /\ UNCHANGED <<feed, fpc, stop, reconnects, subscribed, snapped, emitterVars,
                 engineVars>>

-----------------------------------------------------------------------------
(* The emitter: flush, one message.  The last one of a batch remembers,    *)
(* for the properties, the venue's book and how much of it was told.       *)
Entry(md, n, final) ==
  [md |-> md, seq |-> n, final |-> final,
   sync |-> IF final THEN sync ELSE "mid",
   venue |-> IF final THEN venue ELSE NoMsg]

HasRoom == Len(ring) < RingCap
SyncWithout(md) == IF md.kind = "Trade" THEN sync ELSE Lost

\* Mutants of Push: the number is not used up by a message that is dropped; a
\* full ring is waited for.
PushKeepsNumber ==
  /\ fpc = "flush"
  /\ IF HasRoom
     THEN /\ ring' = Append(ring, Entry(Head(pending), seq + 1, Len(pending) = 1))
          /\ seq' = seq + 1
          /\ UNCHANGED <<dropped, sync>>
     ELSE /\ dropped' = dropped + 1 /\ sync' = SyncWithout(Head(pending))
          /\ UNCHANGED <<ring, seq>>
  /\ pending' = Tail(pending)
  /\ fpc' = IF pending' = <<>> THEN "session" ELSE "flush"
  /\ UNCHANGED <<feed, stop, reconnects, venueVars, engineVars>>
PushWaits ==
  /\ fpc = "flush"
  /\ HasRoom
  /\ seq' = seq + 1
  /\ ring' = Append(ring, Entry(Head(pending), seq', Len(pending) = 1))
  /\ pending' = Tail(pending)
  /\ fpc' = IF pending' = <<>> THEN "session" ELSE "flush"
  /\ UNCHANGED <<feed, stop, reconnects, venueVars, dropped, sync, engineVars>>

(* A message that finds the ring full is dropped and counted, whichever    *)
(* part of the batch it is.                                                *)
Push ==
  /\ fpc = "flush"
  /\ seq' = seq + 1
  /\ IF HasRoom
     THEN /\ ring' = Append(ring, Entry(Head(pending), seq', Len(pending) = 1))
          /\ UNCHANGED <<dropped, sync>>
     ELSE /\ dropped' = dropped + 1 /\ sync' = SyncWithout(Head(pending))
          /\ UNCHANGED ring
  /\ pending' = Tail(pending)
  /\ fpc' = IF pending' = <<>> THEN "session" ELSE "flush"
  /\ UNCHANGED <<feed, stop, reconnects, venueVars, engineVars>>

-----------------------------------------------------------------------------
(* The engine. *)

(* How many numbers are missing before n; before the first message that is *)
(* not known.                                                              *)
Missed(n) == IF last_seq # 0 /\ n > last_seq + 1 THEN n - last_seq - 1 ELSE 0

OnMd ==
  /\ ring # <<>>
  /\ LET m == Head(ring)
     IN /\ md_gaps' = md_gaps + Missed(m.seq)
        /\ last_seq' = m.seq
        /\ book' = Apply(book, m.md)
        /\ last' = m
  /\ ring' = Tail(ring)
  /\ UNCHANGED <<feed, fpc, stop, reconnects, venueVars, pending, seq, dropped, sync>>

Stop ==
  /\ stop' = TRUE
  /\ UNCHANGED <<feed, fpc, reconnects, venueVars, emitterVars, engineVars>>

FeedThread == LoopHead \/ Connect \/ SessionHead \/ Timeout \/ Push

Next ==
  \/ FeedThread \/ Fail
  \/ UpdateFrame \/ SnapshotFrame \/ TradePrint \/ ControlFrame
  \/ VenueMovesUnseen \/ OnMd \/ Stop

Spec == Init /\ [][Next]_vars

(* The feed thread runs, and attempts to connect come to an end; neither   *)
(* the venue nor the engine has to do anything.                            *)
FairSpec == Spec /\ WF_vars(FeedThread)

-----------------------------------------------------------------------------
(* What the ladders stand for: nothing, unless each is strictly sorted and *)
(* has no empty level.                                                     *)
IsLadder(side, ladder) ==
  /\ \A i \in 1..(Len(ladder) - 1) :
       Key(side, ladder[i].price) < Key(side, ladder[i + 1].price)
  /\ \A i \in DOMAIN ladder : ladder[i].qty > 0
SizeAt(ladder, p) ==
  LET There == {i \in DOMAIN ladder : ladder[i].price = p}
  IN IF There = {} THEN 0 ELSE ladder[Max(There)].qty
Sizes == IF \A s \in Side : IsLadder(s, book[s])
         THEN [s \in Side |-> [p \in Prices |-> SizeAt(book[s], p)]]
         ELSE <<>>

(* The engine's book is the map of levels that follows its messages,       *)
(* whatever they are and however its ladders are searched (book.rs).       *)
Map == INSTANCE BookMap WITH
  size <- Sizes, applied <- IF last_seq = 0 THEN ClearMsg ELSE last.md
ImplementsBookMap == Map!MapSpec

BestsAgree(levels) ==
  \A s \in Side : Quotes(levels, s) =>
    HasBest(book, s) /\ BestLevel(book, s) = BestFirst(levels, s)[1]

(* Where the strategy may act, the end of a batch, the book is the venue's *)
(* as of that batch, if nothing was lost since the last snapshot, and the  *)
(* bests are the venue's if nothing was lost since the last quote: across  *)
(* dropped messages, discarded frames and reconnects.                      *)
SyncedBookIsTrue ==
  last # NoMsg /\ last.final =>
    /\ last.sync = "all"  => Sizes = last.venue
    /\ last.sync = "best" => BestsAgree(last.venue)

(* Every message dropped for want of room is a gap the engine has counted, *)
(* or will count at the next message that gets through (docs/src/          *)
(* architecture.md, "dropped (and counted as a sequence gap)").            *)
GapsCountDrops ==
  dropped = md_gaps + (seq - last_seq - Len(ring))

(* events.rs:6: "Last message of a venue packet/batch: the book is         *)
(* consistent, strategies may act.", once the venue has told its book on   *)
(* this connection.                                                        *)
BatchEndsConsistent ==
  last # NoMsg /\ last.final /\ last.sync # "none" => BestsAgree(last.venue)

(* A stop ends the feed thread, whatever the venue and the engine do: the  *)
(* emitter does not wait for an engine that has ended.                     *)
FeedEnds == stop ~> (fpc = "ended")

=============================================================================
