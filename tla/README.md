# Tickrail in TLA+

A verification project for tickrail, a low-latency trading engine in Rust: TLA+ modules
of its core, TLC configurations that check them on small instances, and proofs checked
by TLAPS.

## The system

One **engine thread** owns all trading state. The other threads talk to it through
bounded single-producer single-consumer rings and one atomic flag.

```
 feed adapter  --md ring-->           --journal ring-->  journal writer
      or                     engine   --stats, latency-> telemetry, web server
 simulated venue <-orders--  thread        ^
                 --reports->               +--kill flag-- web server, loss limit
```

| component | state | operations | hard behaviour | what makes it correct |
|---|---|---|---|---|
| OMS `crates/oms` | open orders, position, cash, open quantity per side | new and cancel sent, reports applied | reports cross cancels; rejects are ambiguous | agrees with the venue up to what is in flight; running sums are the sums |
| risk `crates/risk` | rate window, limits | check of a new order, loss limit | decides while fills are on the wire | the position limit holds whatever arrives later |
| engine `crates/engine` | book, intents, kill_handled | market data, drain, intents, housekeeping, shutdown | callbacks of the strategy in the middle of a drain; kill flag at any time | a kill cancels everything; every order is settled |
| gateway, paper venue `engine/venue.rs` | paper orders, pending reports | send, poll, fill on market data | fills while iterating, stale touch | one end of every order |
| matching engine `sim/matching.rs` | levels, queues, orders | submit, cancel | three structures changed in nested loops | price-time priority, uncrossed, published levels are the book |
| simulated venue `sim/venue.rs` | wire, background orders | our commands, background flow, publish | drops market data, waits for room for reports | private reports are never lost |
| ring `core/ring.rs` | two indices, slots, cached indices | push, push_spin, pop | lock-free, stale caches, wrapping | a bounded queue without data races |
| L2 book `crates/book` | two sorted ladders | level, top, clear | mixed linear and binary search; a new top makes levels stale on both sides | equals the map of levels |
| journal `crates/journal`, `export.rs`, `csv.rs` | file | write, read, export, read back | stop while the engine still pushes, a torn tail, batches guessed from timestamps | nothing that was pushed is lost, and what is exported replays |
| feed `crates/adapters` | pending batch, sequence number | parse, flush, discard, reconnect | partial batches, discarded frames, updates missed while disconnected | the book the strategy sees is the venue's unless a loss was counted |
| strategies `crates/strategies` | last quote, last order | on_book | act on an OMS that is behind | inventory limits, few orders |
| telemetry, CLI, Python | snapshots, threads | kill, unkill, start, stop | stop order of the threads | every thread is joined |

The hazards this list leads to are in `PROJECT.json`, each at its line and with the
properties that would catch it.

## Modules

| module | what it is | models |
|---|---|---|
| `Oms` | operators on the OMS record, one per method | `crates/oms` |
| `Risk` | the checks before an order and the loss limit | `crates/risk` |
| `OrderVenue` | the venue as order entry sees it: commands out and reports back in order | `crates/sim`, seen from the engine |
| `OrderEntry` | engine thread, venue thread, kill switch and an arbitrary strategy | `engine.rs`, with the above |
| `Exposure` | abstract: what the account promises | - |
| `Ring` | the ring, one step per access to shared memory | `core/ring.rs` |
| `BoundedQueue` | abstract: a bounded queue whose calls have results | - |
| `Matching` | the matching engine, one step per loop iteration | `sim/matching.rs` |
| `SimVenue` | the venue thread around it, with the background flow | `sim/venue.rs` |
| `RateLimit` | the order throttle with the history of the orders it let through | `crates/risk`, the rate window |
| `Session` | engine, venue and main on bounded rings, until main has joined the others | `run.rs`, `run_loop`, the loop of `sim/venue.rs` |
| `Book` | operators on the two ladders, one per method | `crates/book` |
| `BookMap` | abstract: a quantity per side and price | - |
| `Protocols` | what each adapter makes of a frame | `on_text` of `okx.rs`, `binance.rs`, `kraken.rs`, `alpaca.rs` |
| `Feed`, `MCFeed` | websocket runner, emitter, ring and the engine's book; values of constants | `ws.rs`, `emit.rs`, `on_md` |
| `Strategies` | the answers each built-in strategy may give | `crates/strategies` |
| `Trading` | engine, book, strategy and the paper or the simulated venue | `engine.rs`, `engine/venue.rs` |
| `MCTrading` | `Trading` and `RateLimit` side by side, for one run | - |
| `JournalFormat` | record codec, reader, export, csv reader, decimal parser | `crates/journal`, `export.rs`, `csv.rs`, `parse_fixed` |
| `JournalThread`, `MCJournal` | the engine's records, their ring and the thread that writes them; sessions to record | `run_writer`, `Engine::journal` |
| `Totals` | the sum of a table of numbers, which properties compare running totals with | - |
| `Lemmas` | lemmas: finite sets, sequences, sums, remainders | - |
| `OrderEntryProof` | theorems of `OrderEntry` | - |
| `EngineProof` | theorems of `Trading`, that both its venues implement `OrderVenue` among them, and of `RateLimit` | - |
| `SessionProof` | a theorem of `Session` | - |
| `VenueProof` | theorems of `SimVenue`, its implementation of `OrderVenue` among them | - |
| `FeedProof` | theorems of `Feed`, its implementation of `BookMap` among them | - |
| `JournalProof` | theorems of `JournalThread` and of the codec of `JournalFormat` | - |
| `RingProof` | theorems of `Ring`, its implementation of `BoundedQueue` among them | - |

How they compose: `OrderEntry` extends `Risk` and `OrderVenue`, which extend `Oms`.
`OrderEntry` implements `Exposure`. `SimVenue` extends `Matching` and implements
`OrderVenue`, which is proved, so what is proved of the account against the small venue
holds against the matching engine. `Ring` implements `BoundedQueue`, which is what lets
`OrderVenue`, `Session` and `JournalThread` use sequences for rings. `RateLimit` uses
the operators of `Risk` that `OrderEntry` uses; `MCTrading` checks it beside `Trading`,
with which it shares no state, and a behaviour is one of either. `Book` extends `Oms` for the sides only,
and `Protocols`, `Strategies` and `JournalFormat` extend `Book`. `Feed` extends
`Protocols` and implements `BookMap`: what a message means is stated there, how the
ladders find its place is `Book`'s. `Trading` extends `Strategies`; its simulated venue
is `OrderVenue` itself, its paper venue implements `OrderVenue`, which is proved as
well, so what is proved of the account holds with either. `JournalThread` extends `JournalFormat` and replays with
`Book`. `OrderEntry` has unbounded channels: `EngineNeverWaits` of `Session` says that
the bounded ones make no difference to the engine, and `SessionProof` that it holds for
every capacity large enough.

**State and actions of `OrderEntry`.** `oms`, `risk`, `intents` and `kill_handled` are
the fields of `Engine`; `batch` is `execs` while it is drained; `orderCh` is the order
ring together with the venue's `inflight` queue, `execCh` the report ring. `pc` says
where the engine thread is in `on_md`, `drain_venue`, `process_intents` or
`housekeeping`, `after` where a nested call returns to. `OnMd` is the part of `on_md` up
to `drain_venue`, `Poll` and `ApplyExec` are `drain_venue`, `OnBook` is the rest,
`SendNew`, `RefuseNew` and `SendCancel` are one iteration of `process_intents`. The
strategy is any strategy: in each callback it may append any intents. Popping the report
ring until it is empty is one step, because it takes what is there at the moment it
finds nothing more. Cash is in ticks times lots and fees are left out, so the loss limit
compares twice the gross PnL.

**State and actions of `Ring`.** The producer's local index equals the shared one except
inside `push`, so one variable stands for both; the cached copies of the other side's
index are variables. A step makes at most one access to shared memory. Release stores
and acquire loads make every behaviour of a race-free program an interleaving;
`NoDataRace` is the premise of that argument and is checked in the same run.

**State and actions of `Matching`.** `levels` are the two BTreeMaps, `orders` the
HashMap, `taker` the argument and the local `leaves` of `submit`. `pc` marks the
iteration. `ladder` and `arrived` are history: what a subscriber of the level updates
knows, and the order in which orders came to rest. Events are published as they arise,
while the code publishes them when the call returns; the thread does nothing else in
between and nobody else reads its state.

**State and actions of `Session`.** The orders are numbers here and the OMS is the sets
of open orders and of those being canceled. `epc` and `vpc` are where the two threads
are in `run_loop` and `VenueSim::run`; `cancels` and `news` are the intents, any in each
of the two calls of `process_intents` of a pass. `out` is what is left of the events
`publish` hands over. A message on the simulated wire is due at any time after it was
sent. `EngineHead` and `VenueHead` are the only places that read the stop flag. The feed
threads, the journal and the telemetry end by themselves or are elsewhere and do not
hold the two up. That the session ends does not mean that the venue took the cancels of
`shutdown`: its thread may have left on the same flag.

**State and actions of `Book` and `Feed`.** A ladder is a sequence with the best level
last, as the vector is; `Find` scans the last `TopScan` levels and bisects the rest. The
standard library's bisection is its contract. `fpc` is where the feed thread is in the
reconnect loop, `session` and `flush`; `pending` is the emitter's batch. A frame is what
is left of the JSON once parsed, `bad` when one of its numbers does not parse. `OnFrame`
is one iteration of `session` up to `flush`, `Push` one iteration of `flush`, since the
engine pops in between. `Fail` is any error: a refused connection, a closed stream, a
failed send. The venue's own book moves by one level at a time and stays uncrossed;
between subscriptions it moves unseen. Venues send as the adapters rely on: OKX and
Binance snapshots and bests, Kraken one snapshot per subscription and then changes,
Alpaca quotes after its login. The feed `"sim"` is the publisher of `sim/venue.rs`,
which sends changes from an empty book on and drops what finds the ring full in the same
way. `sync` is history: whether everything the venue said since its last snapshot (or
quote) was pushed; the last message of a batch carries it and the venue's book of that
moment, for the properties to compare with.

**State and actions of `Strategies` and `Trading`.** Each strategy is an operator from
book and OMS to the set of answers it may give. The market maker's reservation price,
volatility and throttle are floating point and time: its quotes are any two of
`QuotePrices` in order that do not cross the touch, and a side is throttled or not. The
imbalance taker's signal is computed from the book. `DynStrategy` is any other strategy,
which may also cross the touch with a post-only order; in `Trading` it sends one order,
over the paper venue. In `Trading`, `pc` is where the
engine thread is, inside the paper venue's calls as well: `on_market` fills one order a
step (`FillResting`, then `Retain`), `send` is `PaperReject`, or `PaperAck` followed by
`PaperTake` and `PaperRest`, or `PaperCancel`. `quotes` is its vector with the order
`swap_remove` leaves. With the simulated venue the prices stand still and fills come
when they like; orders may also be refused or all canceled, which stands for risk and
the kill switch.

**State and actions of `JournalFormat` and `JournalThread`.** A record is kept field by
field as `encode` lays it out; `Decode` reads it back, numbers as two's complement
modulo `Word`, which is 2^64 in the code. `ring` holds the numbers of the records in the
order they were made, `session` says what each of them is. `EngineHead` reads the flag
and decides for a pass or for shutdown, each of which makes up to `PassRecords` records.
The writer's local count is the flag `wrote`; `WriterCheck` is the test of the flag and
of the ring, one step because the flag never falls and a record that comes in between
makes the test fail. `file` is what the writer has handed to its buffer of a megabyte,
which goes to disk when it is full and when the writer leaves. Either may fail:
`WriterFails` is a write that does, `WriterFlush` the last flush, whose error the code
ignores. `DiskKeepsPart` says what is left then, any beginning of the file, with or
without a torn record. The thread ends in the same way with or without an error, so
`failed` is history, for the properties to tell the two apart. A torn header is not
modelled: the reader refuses such a file as a whole. `ExportFeed` is `tickrail export --format feed`, `ReadFile` the offline
reader of the csv adapter; both work on a finished file and are operators of the
property `ExportReplays`.

## Runs

| run | question | bounds |
|---|---|---|
| `order_entry_limit` | is the account safe under every order of reports and every time in force, and does it implement `Exposure`? | two orders of two lots, position limit 3, one pending intent, one mid at which two lots bought lose enough to trip the kill switch, unkill |
| `order_entry_kill` | does a kill cancel everything, is everything settled, does a lasting loss trip the switch? | two orders of one lot, position limit 1, one mid that makes a loss |
| `order_entry_rekill` | expected to fail: see Findings | as above, with unkill |
| `ring` | is the ring a queue, free of races, live? | 4 slots, indices modulo 8, two values |
| `sim_venue` | is the book consistent, uncrossed, fair, correctly published; does it implement `OrderVenue`; does `submit` get on? | two orders of ours, two of the background, two prices, 1-2 lots |
| `trading` | how many orders and how much inventory do the built-in strategies build, over both venues; does the paper venue implement `OrderVenue`? How many orders fit in a second, and when is one refused? | four orders, or one of any other strategy; three market prices, two quote prices, inventory limit of one quote; throttle of two orders over three seconds of three ticks |
| `trading_inventory` | expected to fail: see Findings | the market maker over the simulated venue, as above, with three quote prices so that it can move a bid |
| `feed` | is the book the venue's when nothing was lost, is every loss counted, does the thread end; does `Book` implement `BookMap`? | five feeds, three prices, three frames or moves, one reconnect, ring of two, `TopScan` 1 |
| `feed_lost` | expected to fail: see Findings | Kraken, no garbled frame, no reconnect |
| `session_end` | does the engine ever wait for room, does a stop end both threads, with back-pressure on the order ring? | one open order at a time of two lots, four in all, bursts of two, room for all reports |
| `journal_thread` | is every record in the file or counted, does the export replay, do both threads end, also when the disk fails a write or the last flush? | three sessions of ten records, ring of two, seven records and up to three at shutdown |
| `journal_lost` | expected to fail: see Findings | as above, disk does not fail |

Why the bounds are enough to be interesting. Two orders are the least for one report to
be applied while another order is checked, sent or canceled, and for an order to trade
with our own. Two lots are the least for a partial fill. A position limit of three makes
a second order of two lots pass or fail with the state of the first. Four slots and a
modulus of eight let both indices wrap and let the ring be full at every offset. Four
orders in `SimVenue` fill a queue of three behind one price, or two levels, before the
order that hits them. Four orders in `Trading` are the three the market maker can have
on a side and one on the other, or four in a row of the imbalance taker. A ring of two
slots holds less than the smallest snapshot of a two-sided book (clear and two levels),
so that any part of a batch can be dropped; with `TopScan` 1 three prices are enough for
a search to go beyond the scanned levels, and in `Trading` and in the journal `TopScan`
is the code's 8. The three sessions of `MCJournal` have every kind of record, a negative
price, a trade with a timestamp of its own inside a batch, batches of one timestamp, and
levels that go and come back; `Word` is 256 there, the least power of two that their
numbers fit. Two full windows of the throttle touch within two seconds; the third is for
a window that is over to be started anew. In the runs of `OrderEntry` `MaxTime = 0`
freezes the rate window, which they do not ask about. Every bound is a
constant: `MaxOrders`, `MaxIntents`, `MaxTime`, `MaxSent`, `MaxOurs`, `MaxBg`, `MaxQueue`,
`MaxReports` (how many reports of a market move may wait in `Trading`), `MaxFrames`,
`MaxReconnects`, `QuotePrices`, `DynPrices`, `PassRecords`, `MaxRecords`. `MaxOrders`
makes the engine drop an order (`RefuseNew`), which a strategy can do anyway.

`Session` has an order ring of three slots for one open order, because the limit on open
orders is what keeps the ring from filling: an order, its cancel, and the late cancel of
the order whose place it took. Two slots violate `EngineNeverWaits`. Larger instances
are too long for a run (two orders open at a time, three in all, have three million
states); for them there is the theorem `NeverWaits`. The code has 4096 slots
(`run.rs:99`) for 16 open orders by default and does not tie the two. The report ring has room for all reports of an open
order (`Lots + 3`: ack, fills, end, cancel-reject), so it never fills there and what the
run shows of back-pressure is the order ring's; with less the venue can be left waiting
for an engine that has ended, which the code's 16384 slots make remote.

`OrderEntry` never deadlocks (the engine can always do housekeeping), nor do `Ring`,
`SimVenue`, `Trading` and `RateLimit`, and deadlock checking is on in their runs. A
session ends, so it is off in `Session`, `Feed` and `JournalThread`, whose liveness
properties exclude an end too early.

**Fairness.** In `OrderEntry`: weak fairness of what the engine thread has begun
(`Working`), strong fairness of `DrainVenue` and `Housekeeping`, because `run_loop`
drains in every iteration and keeps house in every 1024th however much market data there
is, and weak fairness of the venue's handling of commands, because its loop pops the
ring in every iteration. The market need never trade and the operator need never act. In
`Ring`: a call that has begun goes on, and the consumer keeps polling; nobody has to
push. `SimVenue` needs none: `SubmitProgresses` is a measure that every step of a
`submit` lowers, so its loops end without any assumption. In `Feed`: the feed thread
runs and an attempt to connect comes to an end. `connect_async` has no timeout of its
own in the code, so that part is an assumption on the network, and a stop during the
pause before a reconnect takes effect after it. Neither the venue nor the engine has to
do anything. `Trading` states no liveness. In `Session` and `JournalThread`: each thread
runs on, because it has a core or the scheduler gives it time; nobody has to stop the
session, and messages need never become due.

## Proofs

For every set of prices, quantities, mids and limits, every number of orders and any
number of pending intents (`RiskAssumption`, `VenueAssumption`, `OrderEntryAssumption`):

* `TypeInvariant`: `Spec => []TypeOK`, in `OrderEntryProof`. One lemma per action; the
  lemmas `OmsType...` say that each OMS operator keeps the record's type.
* `PositionLimit`: `Spec => []PositionWithinLimit`, `FillsKnownAlways`: `Spec =>
  []FillsAreKnown` and `NoOrphans`: `Spec => []NoOrphanOrders`, in `OrderEntryProof`.
* `EngineKeepsAccount`: `Spec => ImplementsExposure`, in `OrderEntryProof`: order entry
  implements the abstract account of `Exposure`.

`PositionWithinLimit` is not inductive: it says nothing of the fills still on the wire.
`IInv` adds to the types:

* the *worst case*: the position with all open quantity of a side filled is within the
  limit, the thing the risk check establishes and every report preserves;
* the *running sum*: the open quantity of a side is the sum of the leaves of its open
  orders, which keeps the worst case from drifting (`Lemmas` has the sums);
* the *chain*: the reports of an order under way continue its leaves without a gap. The
  first fill starts from the OMS's leaves, each next one from the last, and the venue
  holds what the last one left; nothing follows the report that ends the order, except
  cancel-rejects;
* bookkeeping of the wire: an order is in one place only (command, being matched,
  resting), a cancel travels behind its order, and numbers not used yet appear nowhere.

The chain is what makes a fill known when it is applied: an order leaves the OMS only by
the report that ends its chain. One lemma per action shows that `IInv` is kept; the
facts about appending, applying and submitting that they share come before them.

The refinement needs the same invariant: a report may execute only what the account has
left, which is what the chain says of the first fill in flight. Only `ApplyExec` and
`SendNew` move the account (`ApplyRefines`, `SendNewRefines`), every other step is a
stutter of it.

On top of `IInv`:

* `NoGhosts`: `Spec => []NoGhostOrders` and `CancelsOnce`: `Spec => []OneCancelInFlight`;
* `OmsMatches`: `Spec => []OmsMatchesVenue` and `OpenQtyIsSum`: `Spec =>
  []OpenQtyIsSumOfLeaves`;
* `KillCancels`: `"unkill" \notin Controls => (Spec => KillCancelsAll)`.

That the OMS forgets what the venue is done with needs the converse of the chain
(`Accounted`): an order of the OMS is held by the venue with something left, or a report
that ends it is on the way. A reject of an order the OMS has an ack of would only set it
live again, so the invariant also says that an order on the wire, or refused, has no ack
(`NotAcked`, `RejectsNew`). `CancelOnce` counts the cancel and its late answer together;
it is kept because a status of `PendingCancel` never goes back while such a cancel or
answer is under way. `NoOrderAssumption` (the value for "no order is being matched" is no
order) is assumed here.

`OmsMatches` says more than the chain: not only that the fills on the way fit what the
OMS believes, but that what is left at the venue and those fills add up to it, and that
nothing is missing but what an end on the way explains. Its invariant adds that an order
filled to the end is neither canceled nor rejected after (`MatchInv`). `KillCancels` has
the hypothesis that nobody takes a kill back, and needs it: the run `order_entry_rekill`
is the counterexample without it (see Findings). `KillInv` ties `kill_handled` to what
the pass that set it has asked for.

`SessionProof` shows `NeverWaits`: `3 * MaxOpenOrders <= OrderCap => (Spec =>
[]EngineNeverWaits)`, for every number of orders and lots. The hypothesis is the room the
argument needs, and the code's sizes are far inside it. A limit on what is open now says
nothing by itself of a ring that the venue empties when it likes. `SessionInv` therefore
says that a new order in the ring, together with the older orders that are open or have
a cancel behind it, is within the limit (`Share`): those it found open when it was sent.
From that it follows that new orders, their cancels and the late cancels of orders whose
place they took are at most the limit each.

`EngineProof` shows of the engine thread with a strategy, over either venue, for any
prices and quantities, any `max_inventory` that has room for one order, and any number
of orders and reports (`TradingAssumption`, `StrategiesAssumption`):

* `FewOrdersAlways` (`Spec => []FewOrders`) and `InventoryBounded` (`Spec =>
  []InventoryBound`), for the market maker and the imbalance taker;
* `EngineRefinesVenue` (`Spec => ImplementsOrderVenue`), for any strategy of `Trading`.

What a strategy reads is the OMS as of the last poll, while fills, cancels and rejects of
the orders it counts are still in the ring. Neither property is inductive, then: both are
about what the OMS says now, and what bounds them is what it will say. `View` is the OMS
with every report under way applied, and the invariant relates the two and the venue.

`Orderly` has the types and says that an order is in one place: a command on its way, in
the matching engine's hands, resting, or in the paper venue's vector, where no two have
one id. `Accounted` says, of the built-in strategies, that

* reports only take away: the view's orders are some of the OMS's, and the position with
  all that is open on a side is in the view no more than in the OMS (`Follows`);
* what is left of an order in the view is what the venue has left of it (`Linked`), so a
  report the venue is about to send changes the view by what it says;
* the open quantity of a side is the sum of what is left of its orders (`Books`), so an
  order that goes takes no more room with it than it had;
* the position of the view with all that is open on a side is within the bound
  (`Bounded`). A fill moves quantity from the second to the first, a cancel or a reject
  gives some back, and only a new order adds to it;
* what the strategy means to send fits: the taker has one order, or an intent for one,
  never both (`ImbalanceInv`); the maker has an intent for one quote on a side only
  behind cancels of all its quotes there, of which there are two at most, or it has up to three quotes, all but one of them under cancel (`SideInv`). Each old
  quote is one `OrderQty` at most, which is where the allowance of two comes from. At the
  paper venue a cancel is confirmed before the next intent is looked at, so the view has
  no quote under cancel (`PaperMaker`) and there is no allowance.

Both were model-checked on the instance of `trading` before they were proved. A report
does one thing to one order (`ExecEffect`), and two OMS records that differ by one order,
or by a cancel that was sent, go on to differ by just that through any reports
(`JoinedView`, `MarkedView`): so a command that is sent while reports are under way
changes the view as it changes the OMS. `Trading` drains the queue with a function over
its places (`OnExecs`), and the lemmas on it are by the least place that goes wrong.

For the refinement the paper venue's vector is the set of its orders that are not filled
(`Unfilled`), and `Placed` the record of them by id (`Holds`). An order that rests joins
that set, a fill replaces or removes one, swapping the last order into the place of a
canceled one removes it and no other (`SwapRemoved`), and dropping the filled orders at
the end of `on_market` leaves the set alone (`RetainedIs`). `NoOrderAssumption` has the
value that stands for no taker outside the set of commands.

`EngineProof` also shows of the throttle `RateBound` (`RateSpec => []TwiceTheLimit`) and
`NoEarlyRefusal` (`RateSpec => []RefusedOnlyWhenFull`) for every limit and every run of the
clock. The invariant (`RateInv`) splits the history of orders at the start of the present window: those from
there on are as many as the counter says, and every stretch of the earlier ones that is
shorter than a second lies in two windows at most, each of which let the limit through.
An interval that reaches into the present window takes at most the limit from each side.
An order is refused only while the window is less than a second old and its count is the
limit; the orders it counts are the last ones of the history, which are those
`RefusedOnlyWhenFull` asks for.

`RingProof` shows, for every power of two of slots and every width of the indices that
is a multiple of it (`RingAssumption`), `RaceFree` (`Spec => []NoDataRace`),
`StaleIsSafe` (`Spec => []CachesAreSafe`) and `RingIsQueue` (`Spec => ImplementsQueue`).
The remainders come from lemmas about division (`DivMod`, `SmallMultiple`, `Distribute`
in `Lemmas`). The inductive invariant says that a cached index shows
no more room or values than there are (`RoomSeen`, `ValueSeen`) and, of each point of a
call, what has been decided so far and which slots hold the queue (`Pushed`, `Written`,
`Taken`). It is needed because the slot a push writes is safe only on account of an
index read some steps earlier. Every step is then a step of `BoundedQueue` or leaves it
alone.

`FeedProof` shows `GapsCounted` (`Spec => []GapsCountDrops`), `BookIsMap` (`Spec =>
ImplementsBookMap`) and `BookIsTrue` (`Spec => []SyncedBookIsTrue`) for every set of feeds
and every finite set of prices (`FeedAssumption`), every size of the ring, and any number
of frames and reconnects.
That the drops are the numbers missing is not inductive: the invariant adds that the
ring's numbers ascend from beyond the engine's last one, and that the very first message
is never dropped, since the engine, which takes a `last_seq` of 0 for "none yet", counts
no gap in front of it. A ring of at least one slot makes this so. `BookIsMap` holds for
every `TopScan`: in a strictly sorted ladder the scan of the last levels and the
bisection of the rest find the one place a price can have, so a change of a level
changes the map at that price only and leaves the ladder sorted; what a new best makes
stale is the end of the other ladder. It needs that whatever the adapters make of a frame
is a message with a side, a price and a quantity that is not negative, which is shown of
each protocol and carried through the batch and the ring.

`BookIsTrue` compares the engine's book with the venue's through messages that are still
on their way, so its invariant (`SyncInv`) follows the book along them: `TrailOK` says
that the sizes the messages of the ring make of it one after the other, and those not
pushed yet after them, meet the venue's book of each batch at its last message, and the
venue's present book at the end of the trail, all of it or its bests as `sync` says. The
engine then takes the first step of the trail, a push moves the boundary between its two
parts, and a dropped level ends what is told. Of a frame only what it does to the end of
the trail is left to show: a clear and the rows of both sides give every price the
venue's size (`SnapshotTold`, `BothSidesTell`; the rows are all the prices of a side, best
first, `RowsAre`), a level changes one price of both books (`LevelTold`), and two tops of
an uncrossed book leave each other's level in place (`TopsAgree`). `SyncOK` says at which
places of the feed thread nothing is told: it is why what the venue does unseen, while
nobody is subscribed, cannot make the trail wrong.

`VenueProof` shows of the venue thread, for every set of prices and quantities and every
number of orders (`SimVenueAssumption`):

* `BookConsistent` (`Spec => []BookIsConsistent`), `NeverCrossed` (`Spec =>
  []NotCrossed`), `LadderRebuildsBook` (`Spec => []LadderIsBook`);
* `Priority` (`Spec => PriceTimePriority`) and `SubmitEnds` (`Spec =>
  SubmitProgresses`);
* `VenueImplemented` (`Spec => ImplementsOrderVenue`).

The levels with their queues and totals, the map of orders and the order of arrivals are
three accounts of one book that `submit` changes one after the other, and between two of
its iterations a level may be empty, or a filled order head its queue. `VInv` is what
holds at every point: a level lists the orders of its side and price once each, in the
order in which they came to rest, and its total is the sum of what they have left
(`BookOK`); empty levels and filled orders are only where the incoming order is
(`NoneEmpty`, `NoneFilled`, `TakerOK`); what rests is uncrossed (`Uncrossed`); what was
published gives every level but the one being hit (`LadderOK`); the ring holds commands with numbers in use once each (`CommandsOK`). `VInv`
was model-checked on the instance of `sim_venue` before it was proved. That the best
prices exist at all is a lemma on finite sets of integers, so the sets of levels are
shown finite. For the refinement every step of `submit` is mapped to a submission, a
trade, an end or a stutter of `OrderVenue`; orders of the background are no part of it.
`SimVenueAssumption` has the value that stands for no taker outside the set of commands,
as `NoOrderAssumption` does.

`JournalProof` shows `RecordsReadBack`: `Decode(Encode(r)) = r` for every record `r` of
`Record`, whose numbers are those that fit 64 bits, with or without sign
(`FormatAssumption`); `NothingIsLost` (`Spec => []NothingLost`) and `RestIsDrained`
(`Spec => DrainsTheRest`), for every set of sessions, every size of the ring and any
number of records (`JournalAssumption`). A kept record has a *place*: its number less the
dropped ones before it. `JournalInv` says that the file up to its end, and the ring from
there on, have every kept record in its place, so that a pop only moves the boundary
between the two and a drop only moves the places of records not made yet
(`DropKeepsPlaces`). Once a write or the last flush has failed the file is a beginning of
that with at most part of a record behind it. The theorem then follows from the codec: the
reader stops at the torn record, and nowhere before it (`FileReads`). `DrainsTheRest` is
about the moment the writer leaves its loop for the last flush; what that flush may lose
is in `NothingLost`.

Only model-checked:

* `ExportReplays`: what the decimal parser makes of what the formatter wrote, digit by
  digit, and the replay of a file are inductions over data; nor does it hold of every
  sequence of records, only of those a venue's batches can make, such as the sessions of
  `MCJournal`;
* liveness under fairness, which is out of the prover's reach: `KillFlattensOrders`,
  `CancelSettles`, `NewSettles`, `LossTripsKill`, `PushReturns`, `FeedEnds`,
  `SessionEnds` and `ThreadsEnd`.

Every other property of a passing run is a theorem.

## Findings

* **The second kill of two is not seen** (`order_entry_rekill`). `docs/src/risk.md:28`:
  "When it's set, the engine cancels every working order on its next housekeeping pass".
  `housekeeping` cancels when the flag is on and `kill_handled` is not, and clears
  `kill_handled` only when a pass finds the flag off. If the operator kills, unkills, an
  order is sent, and kills again, all between two passes after the first kill was
  handled, the pass finds the flag on and the kill handled. New orders are refused, but
  the one sent in between keeps working. The run's counterexample is that history.

* **The last records of a session can be lost** (`journal_lost`).
  `docs/src/journal.md:5`: "every market-data message, order and execution report is
  recorded", and `crates/journal/src/lib.rs:244`: "drains the ring to disk until `stop`,
  then drains the rest". The writer leaves when it finds the flag set and the ring
  empty; the engine may then still be in the pass it had begun, and always has the
  cancels of `shutdown` before it. They are pushed into a ring nobody reads and are not
  counted as dropped. With the flag raised by main for all threads at once nothing
  orders the two. When the engine is done first, all is written (`DrainsTheRest`).

* **The market maker builds more than `max_inventory`** (`trading_inventory`).
  `crates/strategies/src/registry.rs:26`: "Largest position the strategy will build, in
  instrument units." `on_book` compares the position and one more quote with it
  (`market_maker.rs:110`), and `manage_side` sends that quote in the call that cancels an
  older one, while another may already wait for its cancel. What those may still fill is
  not counted. In the run's counterexample the limit is one quote of two: the maker moves
  its bid by a tick at position 0, the old bid is filled by one on the way to its cancel
  and the new one by two. At most two quotes come on top of the limit, and none over the
  paper venue, where a cancel takes effect at once: that is `InventoryBound`, which is
  proved.

* **A batch can end on an inconsistent book** (`feed_lost`).
  `crates/core/src/events.rs:6` says of `LAST_IN_BATCH`: "Last message of a venue
  packet/batch: the book is consistent, strategies may act.", and
  `docs/src/adapters.md:124` that the runner pushes a frame's messages "to the engine as
  one consistent batch". `flush` drops each message that finds the ring full and tries
  the next: when the engine makes room in between, the rest of the batch gets through,
  its last message with the flag. In the run's counterexample a snapshot does not fit a
  ring of two slots and its last level still ends the batch, so the strategy acts on a
  book without one of the bests. The engine counts the gap (`GapsCountDrops`) and does
  not otherwise react; the book is right again after the next snapshot, which Kraken
  sends only after a reconnect. Rings of the default size make it rare.

Worth knowing, and no contradiction with the documents:

* The error of the journal's last flush is ignored (`journal/src/lib.rs:262`), and the
  number of records the session's summary prints is that of those handed to the buffer
  (`summary.rs:31`). A disk that is full at the end leaves a shorter file, and nobody is
  told; what is there reads as a beginning of the session (`NothingLost`).
* The feed format has no end-of-batch flag: `read_file` ends a batch where the timestamp
  changes. A trade with a timestamp of its own inside a venue's batch splits it in the
  replay; `ExportReplays` holds because such a trade changes no level and the batches of
  the sessions put levels of one timestamp together. A frame of Alpaca with two quotes of
  different times would be split between them, on a book the session had but did not act
  on. A file whose last batch lost its
  end in the ring gets one.
* `read_file` fails a file for one bad row, the live csv feed skips the row.

## Not modelled

Fees, counters and timestamps for display; the text of logs; histograms and web pages;
the JSON of the venue protocols, their http lookup of precisions and the RFC 3339
parser; configuration files; thread pinning and wait strategies; the Python bindings,
which convert and forward. The random walk of the simulated market is any choice of
order or cancel, and its clocks are left out: any command or background action may come
next. The `SNAPSHOT` flag, which nothing reads, and the instrument of a message are left
out. Time and floating-point prices of the strategies are arbitrary choices. `Decimal`
is exact, as formatting a double is up to 2^53. Alpaca's aggressor, inferred from the
last quote, is the frame's. The live pacing of the csv feed is not modelled, its file
reader is.

## Plan

Modelled so far is every component that keeps trading state. What is left:

1. Recovery of the feed: what a consumer could do about a counted gap is not in the
   code; once it is, `BatchEndsConsistent` is the property to ask for.
2. Larger instances of `feed` (four frames, two reconnects) and `trading` (five orders),
   which pass the size of a routine run.
