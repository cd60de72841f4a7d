---------------------------- MODULE JournalFormat ----------------------------
(***************************************************************************)
(* The files of a session: the journal's records of 48 bytes (crates/      *)
(* journal), the feed format that `tickrail export --format feed` makes of *)
(* them (apps/cli/src/export.rs), and the csv adapter that reads it back   *)
(* (crates/adapters/src/csv.rs) with the decimal parser of crates/core.    *)
(*                                                                         *)
(* A record is kept field by field, at the offsets of docs/src/journal.md; *)
(* the instrument is the same for all of them and left out.  A decimal is  *)
(* a sequence of characters.                                               *)
(***************************************************************************)
EXTENDS Book

CONSTANTS
  Word,           \* 2^64: what a field of eight bytes holds
  PriceDecimals,  \* of the instrument, in the header
  QtyDecimals,
  NoValue,        \* None, or a row that does not parse
  Torn            \* a record of which the file has a part only

(* What the engine records. *)
MdRecord(seq, recv_ts, exch_ts, final, msg) ==
  [type |-> "Md", seq |-> seq, recv_ts |-> recv_ts, exch_ts |-> exch_ts,
   final |-> final, msg |-> msg]
NewRecord(ts, id, side, price, qty, tif) ==
  [type |-> "Order", ts |-> ts, cmd |-> "New", id |-> id, side |-> side,
   price |-> price, qty |-> qty, tif |-> tif]
CancelRecord(ts, id) ==
  [type |-> "Order", ts |-> ts, cmd |-> "Cancel", id |-> id]
ExecRecord(ts, exec) == [type |-> "Exec", ts |-> ts, exec |-> exec]
FillBy(liquidity, id, price, qty, leaves) ==
  [kind |-> "Fill", id |-> id, price |-> price, qty |-> qty,
   leaves |-> leaves, liquidity |-> liquidity]

(* The numbers a field of eight bytes stands for, and the records of them. *)
Unsigned == 0..(Word - 1)
Signed   == -(Word \div 2)..(Word \div 2 - 1)

MarketMsg ==
  [kind : {"Level", "Top", "Trade"}, side : Side, price : Signed, qty : Signed]
    \cup {ClearMsg}
Execution ==
  [kind : {"Ack", "Canceled"}, id : Unsigned]
    \cup [kind : {"Rejected"}, id : Unsigned,
          reason : {"UnknownOrder", "WouldCross", "InvalidOrder"}]
    \cup [kind : {"Fill"}, id : Unsigned, price : Signed, qty : Signed,
          leaves : Signed, liquidity : {"Maker", "Taker"}]
Record ==
  [type : {"Md"}, seq : Unsigned, recv_ts : Unsigned, exch_ts : Unsigned,
   final : BOOLEAN, msg : MarketMsg]
    \cup [type : {"Order"}, ts : Unsigned, cmd : {"New"}, id : Unsigned,
          side : Side, price : Signed, qty : Signed, tif : TimeInForce]
    \cup [type : {"Order"}, ts : Unsigned, cmd : {"Cancel"}, id : Unsigned]
    \cup [type : {"Exec"}, ts : Unsigned, exec : Execution]

-----------------------------------------------------------------------------
(* Numbers of the file.  A signed number is written as its two's           *)
(* complement.                                                             *)
U64(n) == n % Word

\* Mutant of I64: the sign is lost.
I64Unsigned(u) == u

I64(u) == IF u >= Word \div 2 THEN u - Word ELSE u

MdCodes     == [Level |-> 1, Trade |-> 2, Clear |-> 3, Top |-> 4]
SideCodes   == [Buy |-> 0, Sell |-> 1]
CmdCodes    == [New |-> 1, Cancel |-> 2]
TifCodes    == [Gtc |-> 0, Ioc |-> 1, PostOnly |-> 2]
ExecCodes   == [Ack |-> 1, Fill |-> 2, Canceled |-> 3, Rejected |-> 4]
LiqCodes    == [Maker |-> 0, Taker |-> 1]
ReasonCodes == [UnknownOrder |-> 1, WouldCross |-> 2, InvalidOrder |-> 3]

(* The name a code stands for. *)
Named(codes, v) ==
  LET Of == {name \in DOMAIN codes : codes[name] = v}
  IN IF Of = {} THEN NoValue ELSE CHOOSE name \in Of : TRUE

(* A record of the file: codes in the single bytes, words in the others.   *)
Block == [type : 0..3, subtype : 0..4, side : 0..1, flags : 0..3, ts : Unsigned,
          id : Unsigned, price : Unsigned, qty : Unsigned, extra : Unsigned]

ASSUME FormatAssumption ==
  /\ Word \in Nat /\ Word % 2 = 0 /\ Word > 2
  /\ PriceDecimals \in Nat /\ QtyDecimals \in Nat
  /\ NoValue \notin Record /\ Torn \notin Block
  /\ \A codes \in {MdCodes, SideCodes, CmdCodes, TifCodes, ExecCodes, ReasonCodes} :
       NoValue \notin DOMAIN codes

Blank == [type |-> 0, subtype |-> 0, side |-> 0, flags |-> 0, ts |-> 0,
          id |-> 0, price |-> 0, qty |-> 0, extra |-> 0]

EncodeMd(r) ==
  LET b == [Blank EXCEPT !.type = 1, !.subtype = MdCodes[r.msg.kind],
                         !.flags = IF r.final THEN 1 ELSE 0, !.ts = r.recv_ts,
                         !.id = r.seq, !.extra = r.exch_ts]
  IN IF r.msg.kind = "Clear" THEN b
     ELSE [b EXCEPT !.side = SideCodes[r.msg.side],
                    !.price = U64(r.msg.price), !.qty = U64(r.msg.qty)]

EncodeOrder(r) ==
  LET b == [Blank EXCEPT !.type = 2, !.subtype = CmdCodes[r.cmd], !.ts = r.ts,
                         !.id = r.id]
  IN IF r.cmd = "Cancel" THEN b
     ELSE [b EXCEPT !.side = SideCodes[r.side], !.flags = TifCodes[r.tif],
                    !.price = U64(r.price), !.qty = U64(r.qty)]

EncodeExec(r) ==
  LET e == r.exec
      b == [Blank EXCEPT !.type = 3, !.subtype = ExecCodes[e.kind],
                         !.ts = r.ts, !.id = e.id]
  IN CASE e.kind = "Fill" ->
            [b EXCEPT !.flags = LiqCodes[e.liquidity], !.price = U64(e.price),
                      !.qty = U64(e.qty), !.extra = U64(e.leaves)]
       [] e.kind = "Rejected" -> [b EXCEPT !.flags = ReasonCodes[e.reason]]
       [] OTHER -> b

Encode(r) == CASE r.type = "Md"    -> EncodeMd(r)
               [] r.type = "Order" -> EncodeOrder(r)
               [] r.type = "Exec"  -> EncodeExec(r)

DecodeMd(b) ==
  LET kind == Named(MdCodes, b.subtype)
      side == Named(SideCodes, b.side)
      msg  == [kind |-> kind, side |-> side, price |-> I64(b.price),
               qty |-> I64(b.qty)]
  IN IF kind = NoValue \/ (kind # "Clear" /\ side = NoValue) THEN NoValue
     ELSE MdRecord(b.id, b.ts, b.extra, b.flags % 2 = 1,
                   IF kind = "Clear" THEN ClearMsg ELSE msg)

DecodeOrder(b) ==
  LET cmd  == Named(CmdCodes, b.subtype)
      side == Named(SideCodes, b.side)
      tif  == Named(TifCodes, b.flags)
  IN CASE cmd = "Cancel" -> CancelRecord(b.ts, b.id)
       [] cmd = "New" /\ NoValue \notin {side, tif} ->
            NewRecord(b.ts, b.id, side, I64(b.price), I64(b.qty), tif)
       [] OTHER -> NoValue

DecodeExec(b) ==
  LET kind   == Named(ExecCodes, b.subtype)
      reason == Named(ReasonCodes, b.flags)
      liquidity == IF b.flags = 0 THEN "Maker" ELSE "Taker"
  IN CASE kind = "Ack"      -> ExecRecord(b.ts, Ack(b.id))
       [] kind = "Canceled" -> ExecRecord(b.ts, Canceled(b.id))
       [] kind = "Fill" ->
            ExecRecord(b.ts, FillBy(liquidity, b.id, I64(b.price), I64(b.qty),
                                    I64(b.extra)))
       [] kind = "Rejected" /\ reason # NoValue ->
            ExecRecord(b.ts, Rejected(b.id, reason))
       [] OTHER -> NoValue

Decode(b) == CASE b.type = 1 -> DecodeMd(b)
               [] b.type = 2 -> DecodeOrder(b)
               [] b.type = 3 -> DecodeExec(b)
               [] OTHER      -> NoValue

(* The reader ends at the first record that is not whole, and skips those  *)
(* it does not understand.                                                 *)
Readable(file) ==
  LET whole == Min({Len(file) + 1} \cup {i \in DOMAIN file : file[i] = Torn}) - 1
      read[n \in 0..whole] ==
        IF n = 0 THEN <<>>
        ELSE IF Decode(file[n]) = NoValue THEN read[n - 1]
        ELSE Append(read[n - 1], Decode(file[n]))
  IN read[whole]

-----------------------------------------------------------------------------
(* Decimals. *)

Digits == <<"0", "1", "2", "3", "4", "5", "6", "7", "8", "9">>
DigitOf == [c \in ToSet(Digits) |-> CHOOSE n \in 0..9 : Digits[n + 1] = c]

(* The least len digits of n. *)
LastDigits(n, len) ==
  [i \in 1..len |-> Digits[((n \div 10^(len - i)) % 10) + 1]]
Width(n) == CHOOSE w \in 1..20 : 10^w > n /\ (w = 1 \/ 10^(w - 1) <= n)

(* "{:.*}" of the fixed-point number n, exact up to 2^53. *)
Decimal(n, decimals) ==
  LET abs   == IF n < 0 THEN -n ELSE n
      whole == abs \div 10^decimals
  IN (IF n < 0 THEN <<"-">> ELSE <<>>)
       \o LastDigits(whole, Width(whole))
       \o (IF decimals = 0 THEN <<>> ELSE <<".">>)
       \o LastDigits(abs, decimals)

(* One digit; those beyond the instrument's precision must be zeros.       *)
Digit(st, d, decimals) ==
  IF st.dot /\ st.frac >= decimals
  THEN IF d = 0 THEN st ELSE [st EXCEPT !.ok = FALSE]
  ELSE [st EXCEPT !.int = 10 * @ + d, !.frac = IF st.dot THEN @ + 1 ELSE @,
                  !.ok = @ /\ 10 * st.int + d < Word \div 2]

ParseFixed(text, decimals) ==
  IF text = <<>> THEN NoValue ELSE
  LET neg == Head(text) = "-"
      Step(st, c) ==
        IF ~st.ok THEN st
        ELSE IF c \in DOMAIN DigitOf THEN Digit(st, DigitOf[c], decimals)
        ELSE IF c = "." /\ ~st.dot THEN [st EXCEPT !.dot = TRUE]
        ELSE [st EXCEPT !.ok = FALSE]
      st == FoldLeft(Step, [int |-> 0, frac |-> 0, dot |-> FALSE, ok |-> TRUE],
                     IF neg THEN Tail(text) ELSE text)
      int == st.int * 10^(decimals - st.frac)
  IN IF ~st.ok \/ int >= Word \div 2 THEN NoValue ELSE IF neg THEN -int ELSE int

-----------------------------------------------------------------------------
(* The feed format. *)

(* A row per market-data record, with the venue's timestamp. *)
ExportRow(r) ==
  IF r.msg.kind = "Clear"
  THEN [ts |-> r.exch_ts, event |-> "Clear", side |-> NoValue,
        price |-> <<>>, qty |-> <<>>]
  ELSE [ts |-> r.exch_ts, event |-> r.msg.kind, side |-> r.msg.side,
        price |-> Decimal(r.msg.price, PriceDecimals),
        qty |-> Decimal(r.msg.qty, QtyDecimals)]
ExportFeed(records) ==
  LET md == SelectSeq(records, LAMBDA r : r.type = "Md")
  IN [i \in DOMAIN md |-> ExportRow(md[i])]

ParseRow(row) ==
  LET price == ParseFixed(row.price, PriceDecimals)
      qty   == ParseFixed(row.qty, QtyDecimals)
  IN CASE row.event = "Clear" -> ClearMsg
       [] /\ row.event # "Clear"
          /\ row.side # NoValue /\ price # NoValue /\ qty # NoValue ->
            [kind |-> row.event, side |-> row.side, price |-> price, qty |-> qty]
       [] OTHER -> NoValue

\* Mutant of EndsBatch: every row is a batch.
EndsBatchAlways(rows, i) == TRUE

(* Rows of one timestamp are one batch. *)
EndsBatch(rows, i) == i = Len(rows) \/ rows[i + 1].ts # rows[i].ts

(* read_file; one row that does not parse fails the file. *)
ReadFile(rows) ==
  IF \E i \in DOMAIN rows : ParseRow(rows[i]) = NoValue THEN NoValue
  ELSE [i \in DOMAIN rows |->
          MdRecord(i, rows[i].ts, rows[i].ts, EndsBatch(rows, i), ParseRow(rows[i]))]

=============================================================================
