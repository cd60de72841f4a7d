------------------------------ MODULE MCJournal ------------------------------
(* Sessions for JournalThread: ten records each. *)
EXTENDS JournalThread

(* A snapshot in one batch, a negative price, a trade with its own         *)
(* timestamp inside a batch, and every kind of order and report.           *)
Mixed == <<
  MdRecord(1, 11, 7, FALSE, ClearMsg),
  MdRecord(2, 11, 7, FALSE, LevelMsg("Buy", -5, 12)),
  MdRecord(3, 11, 7, TRUE, LevelMsg("Sell", 10, 1)),
  NewRecord(12, 1, "Buy", -5, 100, "PostOnly"),
  ExecRecord(13, Ack(1)),
  MdRecord(4, 14, 8, FALSE, TradeMsg("Sell", -5, 2)),
  MdRecord(5, 14, 9, TRUE, TradeMsg("Buy", 10, 1)),
  ExecRecord(15, FillBy("Taker", 1, -5, 40, 60)),
  CancelRecord(16, 1),
  ExecRecord(17, Rejected(1, "UnknownOrder")) >>

(* Batches of one timestamp, with and without anything between them. *)
SameTime == <<
  MdRecord(1, 11, 7, FALSE, TopMsg("Buy", 99, 3)),
  MdRecord(2, 11, 7, TRUE, TopMsg("Sell", 101, 3)),
  ExecRecord(12, Canceled(1)),
  MdRecord(3, 13, 7, FALSE, TopMsg("Buy", 100, 1)),
  MdRecord(4, 13, 7, TRUE, TopMsg("Sell", 102, 2)),
  MdRecord(6, 14, 6, FALSE, ClearMsg),
  MdRecord(7, 14, 6, FALSE, LevelMsg("Buy", 0, 4)),
  MdRecord(8, 14, 6, TRUE, LevelMsg("Sell", 1, 5)),
  NewRecord(15, 2, "Sell", 1, 3, "Ioc"),
  ExecRecord(16, FillBy("Maker", 2, 1, 3, 0)) >>

(* Changes of a book in small batches: levels that go and come back, a      *)
(* batch that is a trade, and trades behind the levels of their batch.      *)
Updates == <<
  MdRecord(1, 11, 5, TRUE, LevelMsg("Buy", 7, 2)),
  MdRecord(2, 12, 6, FALSE, LevelMsg("Sell", 9, 1)),
  MdRecord(3, 12, 6, TRUE, LevelMsg("Buy", 7, 0)),
  MdRecord(4, 13, 6, TRUE, LevelMsg("Buy", 8, 3)),
  ExecRecord(13, Rejected(3, "WouldCross")),
  MdRecord(5, 14, 8, TRUE, TradeMsg("Buy", 9, 1)),
  MdRecord(6, 15, 8, FALSE, LevelMsg("Sell", 9, 0)),
  MdRecord(7, 15, 9, TRUE, TradeMsg("Buy", 9, 1)),
  MdRecord(8, 16, 9, FALSE, LevelMsg("Buy", 7, 1)),
  MdRecord(9, 16, 9, TRUE, LevelMsg("Sell", 9, 4)) >>

SomeSessions == {Mixed, SameTime, Updates}

=============================================================================
