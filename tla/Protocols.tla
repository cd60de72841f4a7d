------------------------------ MODULE Protocols ------------------------------
(***************************************************************************)
(* What the adapters of crates/adapters make of one frame of their venue:  *)
(* on_text of each of them, from a frame to the messages it collects in    *)
(* the emitter.  A frame is what is left of the JSON once it is read: its  *)
(* channel, the rows of both sides, and whether one of its numbers does    *)
(* not parse.                                                              *)
(***************************************************************************)
EXTENDS Book

Protocol == {"okx", "binance", "kraken", "alpaca"}

(* on_text returns Ok with the messages, or Err. *)
Ok(msgs) == [ok |-> TRUE, msgs |-> msgs]
Err      == [ok |-> FALSE, msgs |-> <<>>]

(* The first number that does not parse ends the frame with an error. *)
Read(f, msgs) == IF f.bad THEN Err ELSE Ok(msgs)

Rows(side, rows) ==
  [i \in DOMAIN rows |-> LevelMsg(side, rows[i].price, rows[i].qty)]
BothSides(f) == Rows("Buy", f.bids) \o Rows("Sell", f.asks)

(* The best row of a side, if the frame has one. *)
FirstTop(side, rows) ==
  IF rows = <<>> THEN <<>> ELSE <<TopMsg(side, rows[1].price, rows[1].qty)>>
BothTops(f) == <<TopMsg("Buy", f.bids[1].price, f.bids[1].qty),
                 TopMsg("Sell", f.asks[1].price, f.asks[1].qty)>>
Trades(f) == <<TradeMsg(f.aggressor, f.price, f.qty)>>

(* OKX: books5 is a snapshot at every change, bbo-tbt the best of each side *)
(* that has one; events are acknowledgements or refusals.                   *)
OkxText(f) ==
  CASE f.channel = "control" -> Ok(<<>>)
    [] f.channel = "refusal" -> Err
    [] f.channel = "trade"   -> Read(f, Trades(f))
    [] f.channel = "book"    -> Read(f, <<ClearMsg>> \o BothSides(f))
    [] f.channel = "best"    -> Read(f, FirstTop("Buy", f.bids)
                                        \o FirstTop("Sell", f.asks))

(* Binance: depth20 is a snapshot every 100 ms, bookTicker both bests.  No  *)
(* frame is an acknowledgement: the streams are in the URL.                 *)
BinanceText(f) ==
  CASE f.channel \notin {"trade", "best", "book"} -> Err
    [] f.channel = "trade" -> Read(f, Trades(f))
    [] f.channel = "best"  -> Read(f, BothTops(f))
    [] f.channel = "book"  -> Read(f, <<ClearMsg>> \o BothSides(f))

\* Mutant of KrakenText: every book frame is taken for an update.
KrakenTextUpdatesOnly(f) ==
  CASE f.channel = "refusal" -> Err
    [] f.channel = "control" -> Ok(<<>>)
    [] f.channel = "trade"   -> Read(f, Trades(f))
    [] f.channel = "book"    -> Read(f, BothSides(f))

(* Kraken: one snapshot after the subscription, then changed levels only. *)
KrakenText(f) ==
  CASE f.channel = "refusal" -> Err
    [] f.channel = "control" -> Ok(<<>>)
    [] f.channel = "trade"   -> Read(f, Trades(f))
    [] f.channel = "book"    -> Read(f, (IF f.snapshot THEN <<ClearMsg>> ELSE <<>>)
                                        \o BothSides(f))

(* Alpaca: a quote is both bests; there is no book.  The aggressor of a     *)
(* trade is inferred from the last quote and is what the frame says here.   *)
AlpacaText(f) ==
  CASE f.channel = "refusal" -> Err
    [] f.channel = "control" -> Ok(<<>>)
    [] f.channel = "trade"   -> Read(f, Trades(f))
    [] f.channel = "best"    -> Read(f, BothTops(f))

OnText(protocol, f) ==
  CASE protocol = "okx"     -> OkxText(f)
    [] protocol = "binance" -> BinanceText(f)
    [] protocol = "kraken"  -> KrakenText(f)
    [] protocol = "alpaca"  -> AlpacaText(f)

=============================================================================
