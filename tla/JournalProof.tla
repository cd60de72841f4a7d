---------------------------- MODULE JournalProof ----------------------------
(***************************************************************************)
(* What is recorded is what is read.  First the codec: every record of the *)
(* journal comes back from its 48 bytes.  Then the places: a kept record   *)
(* is behind the kept ones before it, wherever the boundary between file   *)
(* and ring is.  Last the two together, over every run of both threads.    *)
(***************************************************************************)
EXTENDS JournalThread, Lemmas

(* The reader finds the records before the first one that is not whole. *)
LEMMA ReadableIs ==
  ASSUME NEW S, NEW f \in Seq(S), NEW n \in 0..Len(f),
         \A i \in 1..n : f[i] # Torn /\ Decode(f[i]) # NoValue,
         n < Len(f) => f[n + 1] = Torn
  PROVE  Readable(f) = [i \in 1..n |-> Decode(f[i])]
<1>. DEFINE torn == {i \in DOMAIN f : f[i] = Torn}
            whole == Min({Len(f) + 1} \cup torn) - 1
            Step(h, m) == [i \in 0..m |->
                             IF i = 0 THEN <<>>
                             ELSE IF Decode(f[i]) = NoValue THEN h[i - 1]
                             ELSE Append(h[i - 1], Decode(f[i]))]
            read(m) == CHOOSE h : h = Step(h, m)
            g == [i \in 0..n |-> [k \in 1..i |-> Decode(f[k])]]
<1>1. whole = n
  <2>1. n + 1 \in {Len(f) + 1} \cup torn
    OBVIOUS
  <2>2. \A i \in {Len(f) + 1} \cup torn : n + 1 <= i /\ i \in Int
    OBVIOUS
  <2>3. Min({Len(f) + 1} \cup torn) \in {Len(f) + 1} \cup torn
        /\ \A i \in {Len(f) + 1} \cup torn : Min({Len(f) + 1} \cup torn) <= i
    <3>. HIDE DEF torn
    <3>. QED  BY <2>1, <2>2 DEF Min
  <2>4. Min({Len(f) + 1} \cup torn) = n + 1
    <3>. HIDE DEF torn
    <3>1. PICK m : m = Min({Len(f) + 1} \cup torn)
      OBVIOUS
    <3>2. m \in Int /\ n + 1 <= m /\ m <= n + 1
      BY <2>1, <2>2, <2>3, <3>1
    <3>. QED  BY <3>1, <3>2
  <2>. QED  BY <2>4
<1>2. Readable(f) = read(whole)[whole]
  BY DEF Readable
<1>. DEFINE all == read(n)
<1>3. Readable(f) = all[n]
  <2>. HIDE DEF read, whole
  <2>. QED  BY <1>1, <1>2
<1>4. g = Step(g, n)
  <2>1. ASSUME NEW i \in 1..n
        PROVE  g[i] = Append(g[i - 1], Decode(f[i])) /\ Decode(f[i]) # NoValue
    <3>1. i - 1 \in 0..n /\ i \in 0..n /\ f[i] = f[i]
      OBVIOUS
    <3>2. g[i - 1] = [k \in 1..(i - 1) |-> Decode(f[k])]
      BY <3>1
    <3>3. g[i] = [k \in 1..i |-> Decode(f[k])]
      BY <3>1
    <3>. DEFINE d == [k \in 1..n |-> Decode(f[k])]
    <3>4. \A k \in 1..n : d[k] = Decode(f[k])
      OBVIOUS
    <3>5. g[i - 1] = [k \in 1..(i - 1) |-> d[k]] /\ g[i] = [k \in 1..i |-> d[k]]
      BY <3>1, <3>2, <3>3, <3>4
    <3>. HIDE DEF d, g
    <3>6. [k \in 1..i |-> d[k]] = Append([k \in 1..(i - 1) |-> d[k]], d[i])
      OBVIOUS
    <3>. QED  BY <3>4, <3>5, <3>6
  <2>2. g[0] = <<>>
    OBVIOUS
  <2>. HIDE DEF g
  <2>3. g = [i \in 0..n |-> g[i]]
    BY DEF g
  <2>4. \A i \in 0..n : g[i] = IF i = 0 THEN <<>>
                               ELSE IF Decode(f[i]) = NoValue THEN g[i - 1]
                               ELSE Append(g[i - 1], Decode(f[i]))
    <3>. TAKE i \in 0..n
    <3>1. CASE i = 0
      BY <2>2, <3>1
    <3>2. CASE i # 0
      <4>1. i \in 1..n
        BY <3>2
      <4>. QED  BY <2>1, <3>2, <4>1
    <3>. QED  BY <3>1, <3>2
  <2>. QED  BY <2>3, <2>4 DEF Step
<1>5. all = Step(all, n)
  <2>. HIDE DEF Step, g
  <2>. QED  BY <1>4
<1>6. DOMAIN all = 0..n
      /\ \A i \in 0..n : all[i] = IF i = 0 THEN <<>>
                                  ELSE IF Decode(f[i]) = NoValue THEN all[i - 1]
                                  ELSE Append(all[i - 1], Decode(f[i]))
  <2>. HIDE DEF all
  <2>. QED  BY <1>5
<1>7. \A i \in 0..n : g[i] = IF i = 0 THEN <<>>
                             ELSE IF Decode(f[i]) = NoValue THEN g[i - 1]
                             ELSE Append(g[i - 1], Decode(f[i]))
  <2>. HIDE DEF g
  <2>1. \A i \in 0..n : g[i] = Step(g, n)[i]
    <3>. HIDE DEF Step
    <3>. QED  BY <1>4
  <2>. QED  BY <2>1
<1>8. g[n] = [i \in 1..n |-> Decode(f[i])]
  OBVIOUS
<1>. HIDE DEF all, g
<1>9. ASSUME all[n] # g[n] PROVE FALSE
  <2>. DEFINE T == {i \in 0..n : all[i] # g[i]}
  <2>1. PICK m \in T : \A i \in T : m <= i
    <3>1. T \in SUBSET Nat /\ n \in T
      BY <1>9
    <3>. HIDE DEF T
    <3>. QED  BY <3>1, LeastNat
  <2>2. m \in 0..n /\ all[m] # g[m]
    OBVIOUS
  <2>3. m # 0
    BY <1>6, <1>7, <2>2
  <2>4. m - 1 \in 0..n /\ all[m - 1] = g[m - 1]
    <3>1. m - 1 \in 0..n
      BY <2>2, <2>3
    <3>. QED  BY <2>1, <3>1
  <2>. QED  BY <1>6, <1>7, <2>2, <2>3, <2>4
<1>. QED  BY <1>3, <1>8, <1>9

-----------------------------------------------------------------------------
(* The codec *)

(* A code names what it was made of. *)
LEMMA NamedIs ==
  ASSUME NEW codes, NEW k \in DOMAIN codes,
         \A j \in DOMAIN codes : codes[j] = codes[k] => j = k
  PROVE  Named(codes, codes[k]) = k
<1>1. {name \in DOMAIN codes : codes[name] = codes[k]} = {k}
  OBVIOUS
<1>. QED  BY <1>1 DEF Named

(* Every code is a number of its own, and fits the byte it is written in.  *)
LEMMA CodesAre ==
  /\ \A k \in {"Level", "Top", "Trade", "Clear"} :
       MdCodes[k] \in 1..4 /\ Named(MdCodes, MdCodes[k]) = k
  /\ \A k \in Side : SideCodes[k] \in 0..1 /\ Named(SideCodes, SideCodes[k]) = k
  /\ \A k \in {"New", "Cancel"} :
       CmdCodes[k] \in 1..2 /\ Named(CmdCodes, CmdCodes[k]) = k
  /\ \A k \in TimeInForce : TifCodes[k] \in 0..2 /\ Named(TifCodes, TifCodes[k]) = k
  /\ \A k \in {"Ack", "Fill", "Canceled", "Rejected"} :
       ExecCodes[k] \in 1..4 /\ Named(ExecCodes, ExecCodes[k]) = k
  /\ \A k \in {"UnknownOrder", "WouldCross", "InvalidOrder"} :
       ReasonCodes[k] \in 1..3 /\ Named(ReasonCodes, ReasonCodes[k]) = k
<1>1. \A k \in {"Level", "Top", "Trade", "Clear"} :
        /\ k \in DOMAIN MdCodes /\ MdCodes[k] \in 1..4
        /\ \A j \in DOMAIN MdCodes : MdCodes[j] = MdCodes[k] => j = k
  BY DEF MdCodes
<1>2. \A k \in Side :
        /\ k \in DOMAIN SideCodes /\ SideCodes[k] \in 0..1
        /\ \A j \in DOMAIN SideCodes : SideCodes[j] = SideCodes[k] => j = k
  BY DEF SideCodes, Side
<1>3. \A k \in {"New", "Cancel"} :
        /\ k \in DOMAIN CmdCodes /\ CmdCodes[k] \in 1..2
        /\ \A j \in DOMAIN CmdCodes : CmdCodes[j] = CmdCodes[k] => j = k
  BY DEF CmdCodes
<1>4. \A k \in TimeInForce :
        /\ k \in DOMAIN TifCodes /\ TifCodes[k] \in 0..2
        /\ \A j \in DOMAIN TifCodes : TifCodes[j] = TifCodes[k] => j = k
  BY DEF TifCodes, TimeInForce
<1>5. \A k \in {"Ack", "Fill", "Canceled", "Rejected"} :
        /\ k \in DOMAIN ExecCodes /\ ExecCodes[k] \in 1..4
        /\ \A j \in DOMAIN ExecCodes : ExecCodes[j] = ExecCodes[k] => j = k
  BY DEF ExecCodes
<1>6. \A k \in {"UnknownOrder", "WouldCross", "InvalidOrder"} :
        /\ k \in DOMAIN ReasonCodes /\ ReasonCodes[k] \in 1..3
        /\ \A j \in DOMAIN ReasonCodes : ReasonCodes[j] = ReasonCodes[k] => j = k
  BY DEF ReasonCodes
<1>. QED  BY <1>1, <1>2, <1>3, <1>4, <1>5, <1>6, NamedIs

(* No name is the value for none. *)
LEMMA NamesAre ==
  NoValue \notin {"Level", "Top", "Trade", "Clear", "New", "Cancel", "Ack", "Fill",
                  "Canceled", "Rejected", "UnknownOrder", "WouldCross",
                  "InvalidOrder"} \cup Side \cup TimeInForce
<1>1. \A codes \in {MdCodes, SideCodes, CmdCodes, TifCodes, ExecCodes, ReasonCodes} :
        NoValue \notin DOMAIN codes
  BY FormatAssumption
<1>2. /\ DOMAIN MdCodes = {"Level", "Top", "Trade", "Clear"}
      /\ DOMAIN SideCodes = Side
      /\ DOMAIN CmdCodes = {"New", "Cancel"}
      /\ DOMAIN TifCodes = TimeInForce
      /\ DOMAIN ExecCodes = {"Ack", "Fill", "Canceled", "Rejected"}
      /\ DOMAIN ReasonCodes = {"UnknownOrder", "WouldCross", "InvalidOrder"}
  BY DEF MdCodes, SideCodes, CmdCodes, TifCodes, ExecCodes, ReasonCodes, Side,
         TimeInForce
<1>. QED  BY <1>1, <1>2

(* A signed number comes back from its two's complement. *)
LEMMA WordBack ==
  ASSUME NEW n \in Signed
  PROVE  U64(n) \in Unsigned /\ I64(U64(n)) = n
<1>. DEFINE h == Word \div 2
<1>1. /\ Word \in Nat /\ Word > 0 /\ h \in Nat /\ Word = h + h
      /\ n \in Int /\ -h <= n /\ n < h
  BY FormatAssumption DEF Signed
<1>. HIDE DEF h
<1>2. CASE n >= 0
  <2>1. n \in 0..(Word - 1) /\ n = Word * 0 + n
    BY <1>1, <1>2
  <2>2. n % Word = n
    BY <1>1, <2>1, RemainderIs
  <2>. QED  BY <1>1, <1>2, <2>1, <2>2 DEF U64, I64, Unsigned, h
<1>3. CASE n < 0
  <2>1. n + Word \in 0..(Word - 1) /\ n = Word * (-1) + (n + Word)
    BY <1>1, <1>3
  <2>2. n % Word = n + Word
    BY <1>1, <2>1, RemainderIs
  <2>3. n + Word >= h
    BY <1>1, <1>3
  <2>4. ~(n + Word < h)
    BY <1>1, <2>3
  <2>. QED  BY <1>1, <2>1, <2>2, <2>3 DEF U64, I64, Unsigned, h
<1>. QED  BY <1>1, <1>2, <1>3

(* What was recorded, by kind. *)
MdRecords ==
  [type : {"Md"}, seq : Unsigned, recv_ts : Unsigned, exch_ts : Unsigned,
   final : BOOLEAN, msg : MarketMsg]
NewRecords ==
  [type : {"Order"}, ts : Unsigned, cmd : {"New"}, id : Unsigned,
   side : Side, price : Signed, qty : Signed, tif : TimeInForce]
CancelRecords == [type : {"Order"}, ts : Unsigned, cmd : {"Cancel"}, id : Unsigned]
ExecRecords == [type : {"Exec"}, ts : Unsigned, exec : Execution]

(* Fields a record does not use hold zero.                                 *)
LEMMA ZeroIs == 0 \in Unsigned
BY FormatAssumption DEF Unsigned

(* A market-data message is written as a block and read back from it.      *)
LEMMA MdBack ==
  ASSUME NEW r \in MdRecords
  PROVE  Encode(r) \in Block /\ Decode(Encode(r)) = r
<1>. DEFINE flag == IF r.final THEN 1 ELSE 0
<1>0. /\ r.type = "Md" /\ r.seq \in Unsigned /\ r.recv_ts \in Unsigned
      /\ r.exch_ts \in Unsigned /\ r.final \in BOOLEAN /\ r.msg \in MarketMsg
      /\ r = MdRecord(r.seq, r.recv_ts, r.exch_ts, r.final, r.msg)
  BY DEF MdRecords, MdRecord
<1>1. Encode(r) = EncodeMd(r)
  BY <1>0 DEF Encode
<1>2. flag \in 0..1 /\ (flag % 2 = 1) = r.final
  BY <1>0
<1>. HIDE DEF flag
<1>3. CASE r.msg = ClearMsg
  <2>. DEFINE b == [type |-> 1, subtype |-> MdCodes["Clear"], side |-> 0,
                    flags |-> flag, ts |-> r.recv_ts, id |-> r.seq,
                    price |-> 0, qty |-> 0, extra |-> r.exch_ts]
  <2>0. r.msg.kind = "Clear"
    BY <1>3 DEF ClearMsg
  <2>1. EncodeMd(r) = b
    BY <2>0 DEF EncodeMd, Blank, flag
  <2>2. b \in Block
    BY <1>0, <1>2, CodesAre, ZeroIs DEF Block
  <2>3. Named(MdCodes, b.subtype) = "Clear" /\ "Clear" # NoValue
    BY CodesAre, NamesAre
  <2>4. DecodeMd(b) = MdRecord(r.seq, r.recv_ts, r.exch_ts, r.final, ClearMsg)
    BY <1>2, <2>3 DEF DecodeMd
  <2>5. Decode(b) = DecodeMd(b)
    BY DEF Decode
  <2>. HIDE DEF b
  <2>. QED  BY <1>0, <1>1, <1>3, <2>1, <2>2, <2>4, <2>5
<1>4. CASE r.msg # ClearMsg
  <2>. DEFINE m == r.msg
              b == [type |-> 1, subtype |-> MdCodes[m.kind],
                    side |-> SideCodes[m.side], flags |-> flag,
                    ts |-> r.recv_ts, id |-> r.seq, price |-> U64(m.price),
                    qty |-> U64(m.qty), extra |-> r.exch_ts]
  <2>0. /\ m.kind \in {"Level", "Top", "Trade"} /\ m.side \in Side
        /\ m.price \in Signed /\ m.qty \in Signed
        /\ m = [kind |-> m.kind, side |-> m.side, price |-> m.price, qty |-> m.qty]
    BY <1>0, <1>4 DEF MarketMsg
  <2>1. EncodeMd(r) = b
    BY <2>0 DEF EncodeMd, Blank, flag
  <2>w. /\ U64(m.price) \in Unsigned /\ I64(U64(m.price)) = m.price
        /\ U64(m.qty) \in Unsigned /\ I64(U64(m.qty)) = m.qty
    BY <2>0, WordBack
  <2>c. /\ MdCodes[m.kind] \in 1..4 /\ Named(MdCodes, MdCodes[m.kind]) = m.kind
        /\ SideCodes[m.side] \in 0..1 /\ Named(SideCodes, SideCodes[m.side]) = m.side
        /\ m.kind # NoValue /\ m.side # NoValue
    BY <2>0, CodesAre, NamesAre
  <2>2. b \in Block
    BY <1>0, <1>2, <2>w, <2>c DEF Block
  <2>4. DecodeMd(b) = MdRecord(r.seq, r.recv_ts, r.exch_ts, r.final, m)
    <3>1. /\ b.subtype = MdCodes[m.kind] /\ b.side = SideCodes[m.side]
          /\ b.flags = flag /\ b.ts = r.recv_ts /\ b.id = r.seq
          /\ b.price = U64(m.price) /\ b.qty = U64(m.qty) /\ b.extra = r.exch_ts
      OBVIOUS
    <3>. HIDE DEF b, m
    <3>. QED  BY <1>2, <2>0, <2>w, <2>c, <3>1 DEF DecodeMd
  <2>5. Decode(b) = DecodeMd(b)
    BY DEF Decode
  <2>6. r = MdRecord(r.seq, r.recv_ts, r.exch_ts, r.final, m)
    BY <1>0
  <2>. HIDE DEF b, m
  <2>. QED  BY <1>1, <2>1, <2>2, <2>4, <2>5, <2>6
<1>. QED  BY <1>3, <1>4

(* A command is written as a block and read back from it.                  *)
LEMMA OrderBack ==
  ASSUME NEW r \in NewRecords \cup CancelRecords
  PROVE  Encode(r) \in Block /\ Decode(Encode(r)) = r
<1>0. r.type = "Order" /\ r.ts \in Unsigned /\ r.id \in Unsigned
  BY DEF NewRecords, CancelRecords
<1>1. Encode(r) = EncodeOrder(r)
  BY <1>0 DEF Encode
<1>2. CASE r \in CancelRecords
  <2>. DEFINE b == [type |-> 2, subtype |-> CmdCodes["Cancel"], side |-> 0,
                    flags |-> 0, ts |-> r.ts, id |-> r.id,
                    price |-> 0, qty |-> 0, extra |-> 0]
  <2>0. r.cmd = "Cancel" /\ r = CancelRecord(r.ts, r.id)
    BY <1>2 DEF CancelRecords, CancelRecord
  <2>1. EncodeOrder(r) = b
    BY <2>0 DEF EncodeOrder, Blank
  <2>2. b \in Block
    BY <1>0, CodesAre, ZeroIs DEF Block
  <2>3. Named(CmdCodes, b.subtype) = "Cancel"
    BY CodesAre
  <2>4. DecodeOrder(b) = CancelRecord(r.ts, r.id)
    BY <2>3 DEF DecodeOrder
  <2>5. Decode(b) = DecodeOrder(b)
    BY DEF Decode
  <2>. HIDE DEF b
  <2>. QED  BY <1>1, <2>0, <2>1, <2>2, <2>4, <2>5
<1>3. CASE r \in NewRecords
  <2>. DEFINE b == [type |-> 2, subtype |-> CmdCodes["New"],
                    side |-> SideCodes[r.side], flags |-> TifCodes[r.tif],
                    ts |-> r.ts, id |-> r.id, price |-> U64(r.price),
                    qty |-> U64(r.qty), extra |-> 0]
  <2>0. /\ r.cmd = "New" /\ r.side \in Side /\ r.tif \in TimeInForce
        /\ r.price \in Signed /\ r.qty \in Signed
        /\ r = NewRecord(r.ts, r.id, r.side, r.price, r.qty, r.tif)
    BY <1>3 DEF NewRecords, NewRecord
  <2>1. EncodeOrder(r) = b
    BY <2>0 DEF EncodeOrder, Blank
  <2>w. /\ U64(r.price) \in Unsigned /\ I64(U64(r.price)) = r.price
        /\ U64(r.qty) \in Unsigned /\ I64(U64(r.qty)) = r.qty
    BY <2>0, WordBack
  <2>c. /\ CmdCodes["New"] \in 1..2 /\ Named(CmdCodes, CmdCodes["New"]) = "New"
        /\ SideCodes[r.side] \in 0..1 /\ Named(SideCodes, SideCodes[r.side]) = r.side
        /\ TifCodes[r.tif] \in 0..2 /\ Named(TifCodes, TifCodes[r.tif]) = r.tif
        /\ r.side # NoValue /\ r.tif # NoValue
    BY <2>0, CodesAre, NamesAre
  <2>2. b \in Block
    BY <1>0, <2>w, <2>c, ZeroIs DEF Block
  <2>4. DecodeOrder(b) = NewRecord(r.ts, r.id, r.side, r.price, r.qty, r.tif)
    <3>1. /\ b.subtype = CmdCodes["New"] /\ b.side = SideCodes[r.side]
          /\ b.flags = TifCodes[r.tif] /\ b.ts = r.ts /\ b.id = r.id
          /\ b.price = U64(r.price) /\ b.qty = U64(r.qty)
      OBVIOUS
    <3>. HIDE DEF b
    <3>. QED  BY <2>w, <2>c, <3>1 DEF DecodeOrder
  <2>5. Decode(b) = DecodeOrder(b)
    BY DEF Decode
  <2>. HIDE DEF b
  <2>. QED  BY <1>1, <2>0, <2>1, <2>2, <2>4, <2>5
<1>. QED  BY <1>2, <1>3

(* An execution report is written as a block and read back from it.        *)
LEMMA ExecBack ==
  ASSUME NEW r \in ExecRecords
  PROVE  Encode(r) \in Block /\ Decode(Encode(r)) = r
<1>. DEFINE e == r.exec
            b == EncodeExec(r)
<1>0. /\ r.type = "Exec" /\ r.ts \in Unsigned /\ e \in Execution
      /\ r = ExecRecord(r.ts, e)
  BY DEF ExecRecords, ExecRecord
<1>1. Encode(r) = b
  BY <1>0 DEF Encode
<1>2. e.id \in Unsigned /\ e.kind \in {"Ack", "Fill", "Canceled", "Rejected"}
  BY <1>0 DEF Execution
<1>3. /\ ExecCodes[e.kind] \in 1..4 /\ Named(ExecCodes, ExecCodes[e.kind]) = e.kind
      /\ 0 \in Unsigned
  BY <1>2, CodesAre, ZeroIs
<1>4. SUFFICES b \in Block /\ b.type = 3 /\ DecodeExec(b) = ExecRecord(r.ts, e)
  <2>1. b.type = 3 => Decode(b) = DecodeExec(b)
    BY DEF Decode
  <2>. HIDE DEF b, e
  <2>. QED  BY <1>0, <1>1, <2>1
<1>5. CASE e.kind \in {"Ack", "Canceled"}
  <2>0. e = [kind |-> e.kind, id |-> e.id]
    BY <1>0, <1>5 DEF Execution
  <2>1. b = [type |-> 3, subtype |-> ExecCodes[e.kind], side |-> 0, flags |-> 0,
             ts |-> r.ts, id |-> e.id, price |-> 0, qty |-> 0, extra |-> 0]
    BY <1>5 DEF EncodeExec, Blank
  <2>. HIDE DEF b, e
  <2>2. b \in Block
    BY <1>0, <1>2, <1>3, <2>1 DEF Block
  <2>3. /\ b.subtype = ExecCodes[e.kind] /\ b.ts = r.ts /\ b.id = e.id
        /\ b.type = 3
    BY <2>1
  <2>. QED  BY <1>3, <1>5, <2>0, <2>2, <2>3 DEF DecodeExec, Ack, Canceled
<1>6. CASE e.kind = "Rejected"
  <2>0. /\ e.reason \in {"UnknownOrder", "WouldCross", "InvalidOrder"}
        /\ e = Rejected(e.id, e.reason)
    BY <1>0, <1>6 DEF Execution, Rejected
  <2>1. b = [type |-> 3, subtype |-> ExecCodes[e.kind], side |-> 0,
             flags |-> ReasonCodes[e.reason], ts |-> r.ts, id |-> e.id,
             price |-> 0, qty |-> 0, extra |-> 0]
    BY <1>6 DEF EncodeExec, Blank
  <2>c. /\ ReasonCodes[e.reason] \in 1..3 /\ e.reason # NoValue
        /\ Named(ReasonCodes, ReasonCodes[e.reason]) = e.reason
    BY <2>0, CodesAre, NamesAre
  <2>. HIDE DEF b, e
  <2>2. b \in Block
    BY <1>0, <1>2, <1>3, <2>1, <2>c DEF Block
  <2>3. /\ b.subtype = ExecCodes[e.kind] /\ b.ts = r.ts /\ b.id = e.id
        /\ b.flags = ReasonCodes[e.reason] /\ b.type = 3
    BY <2>1
  <2>. QED  BY <1>3, <1>6, <2>0, <2>c, <2>2, <2>3 DEF DecodeExec
<1>7. CASE e.kind = "Fill"
  <2>0. /\ e.price \in Signed /\ e.qty \in Signed /\ e.leaves \in Signed
        /\ e.liquidity \in {"Maker", "Taker"}
        /\ e = FillBy(e.liquidity, e.id, e.price, e.qty, e.leaves)
    BY <1>0, <1>7 DEF Execution, FillBy
  <2>1. b = [type |-> 3, subtype |-> ExecCodes[e.kind], side |-> 0,
             flags |-> LiqCodes[e.liquidity], ts |-> r.ts, id |-> e.id,
             price |-> U64(e.price), qty |-> U64(e.qty), extra |-> U64(e.leaves)]
    BY <1>7 DEF EncodeExec, Blank
  <2>w. /\ U64(e.price) \in Unsigned /\ I64(U64(e.price)) = e.price
        /\ U64(e.qty) \in Unsigned /\ I64(U64(e.qty)) = e.qty
        /\ U64(e.leaves) \in Unsigned /\ I64(U64(e.leaves)) = e.leaves
    BY <2>0, WordBack
  <2>c. /\ LiqCodes[e.liquidity] \in 0..1
        /\ (IF LiqCodes[e.liquidity] = 0 THEN "Maker" ELSE "Taker") = e.liquidity
    BY <2>0 DEF LiqCodes
  <2>. HIDE DEF b, e
  <2>2. b \in Block
    BY <1>0, <1>2, <1>3, <2>1, <2>w, <2>c DEF Block
  <2>3. /\ b.subtype = ExecCodes[e.kind] /\ b.ts = r.ts /\ b.id = e.id
        /\ b.flags = LiqCodes[e.liquidity] /\ b.type = 3
        /\ b.price = U64(e.price) /\ b.qty = U64(e.qty) /\ b.extra = U64(e.leaves)
    BY <2>1
  <2>. QED  BY <1>3, <1>7, <2>0, <2>w, <2>c, <2>2, <2>3 DEF DecodeExec
<1>. QED  BY <1>2, <1>5, <1>6, <1>7

(* A record that is written is read back as it was, field by field: every  *)
(* kind of it, and every number that fits its field (encode and decode of  *)
(* crates/journal).                                                        *)
THEOREM RecordsReadBack ==
  ASSUME NEW r \in Record
  PROVE  Encode(r) \in Block /\ Decode(Encode(r)) = r
<1>1. r \in MdRecords \/ r \in NewRecords \cup CancelRecords \/ r \in ExecRecords
  BY DEF Record, MdRecords, NewRecords, CancelRecords, ExecRecords
<1>. QED  BY <1>1, MdBack, OrderBack, ExecBack

-----------------------------------------------------------------------------
(* A sequence of some elements is one of more. *)
LEMMA SeqGrows ==
  ASSUME NEW S, NEW T, S \subseteq T, NEW s \in Seq(S)
  PROVE  s \in Seq(T)
<1>1. \A i \in 1..Len(s) : s[i] \in T
  OBVIOUS
<1>2. s \in [1..Len(s) -> T] /\ Len(s) \in Nat
  BY <1>1
<1>. QED  BY <1>2

(* The places of the records that were kept, when m were made and those of *)
(* D dropped.                                                              *)

KeptOf(m, D) == (1..m) \ D
PlaceIn(D, r) == r - Cardinality({d \in D : d < r})

(* The next record, when it is kept, takes the place behind the others. *)
LEMMA NextPlace ==
  ASSUME NEW m \in Nat, NEW D \in SUBSET (1..m)
  PROVE  /\ IsFiniteSet(D) /\ Cardinality(D) \in 0..m
         /\ PlaceIn(D, m + 1) = (m + 1) - Cardinality(D)
<1>1. IsFiniteSet(1..m) /\ Cardinality(1..m) = m
  BY FS_Interval
<1>2. IsFiniteSet(D) /\ Cardinality(D) <= m /\ Cardinality(D) \in Nat
  BY <1>1, FS_Subset, FS_CardinalityType
<1>. DEFINE B == {d \in D : d < m + 1}
<1>3. \A d \in D : d < m + 1
  OBVIOUS
<1>4. B = D
  BY <1>3
<1>5. PlaceIn(D, m + 1) = (m + 1) - Cardinality(B)
  BY DEF PlaceIn
<1>. HIDE DEF B
<1>6. PlaceIn(D, m + 1) = (m + 1) - Cardinality(D)
  BY <1>2, <1>4, <1>5
<1>. QED  BY <1>2, <1>6

(* When it is dropped it moves none of them. *)
LEMMA DropKeepsPlaces ==
  ASSUME NEW m \in Nat, NEW D \in SUBSET (1..m)
  PROVE  /\ Cardinality(D \cup {m + 1}) = Cardinality(D) + 1
         /\ \A r \in 1..m : PlaceIn(D \cup {m + 1}, r) = PlaceIn(D, r)
         /\ KeptOf(m + 1, D \cup {m + 1}) = KeptOf(m, D)
<1>1. IsFiniteSet(D) /\ m + 1 \notin D
  BY NextPlace
<1>2. Cardinality(D \cup {m + 1}) = Cardinality(D) + 1
  BY <1>1, FS_AddElement
<1>3. \A r \in 1..m : {d \in D \cup {m + 1} : d < r} = {d \in D : d < r}
  OBVIOUS
<1>4. KeptOf(m + 1, D \cup {m + 1}) = KeptOf(m, D)
  BY DEF KeptOf
<1>. QED  BY <1>2, <1>3, <1>4 DEF PlaceIn

(* The first n records of the file f are the first n that were kept of     *)
(* session s, and the ring q has those that follow.                        *)
InFile(f, n, m, D, s) ==
  /\ n \in 0..Len(f)
  /\ \A i \in 1..n : \E x \in Record : f[i] = Encode(x)
  /\ \A r \in KeptOf(m, D) :
       PlaceIn(D, r) <= n => f[PlaceIn(D, r)] = Encode(s[r])
InRing(q, n, m, D) ==
  /\ n + Len(q) = m - Cardinality(D)
  /\ \A r \in KeptOf(m, D) : PlaceIn(D, r) > n => q[PlaceIn(D, r) - n] = r
PlacesOK(m, D) ==
  \A r \in KeptOf(m, D) : PlaceIn(D, r) \in 1..(m - Cardinality(D))

EngineOK ==
  /\ session \in Sessions
  /\ left \in 0..PassRecords
  /\ made \in Nat
  /\ epc \in {"head", "pass", "shutdown", "done"}
  /\ epc \in {"head", "pass"} => made <= MaxRecords
  /\ epc = "shutdown" => made + left <= MaxRecords + PassRecords
  /\ made <= MaxRecords + PassRecords

(* When writing failed, some beginning of the records is in the file, and  *)
(* behind it a part of one at most.                                        *)
FailedAt(f, n, m, D, s) ==
  /\ n \in 0..(m - Cardinality(D))
  /\ InFile(f, n, m, D, s)
  /\ Len(f) = n \/ (Len(f) = n + 1 /\ f[n + 1] = Torn)
FailedFile(f, m, D, s) == \E n : FailedAt(f, n, m, D, s)

JournalInv ==
  /\ EngineOK
  /\ dropped \subseteq 1..made
  /\ PlacesOK(made, dropped)
  /\ ring \in Seq(1..made)
  /\ file \in Seq(Block \cup {Torn})
  /\ failed \in BOOLEAN /\ (failed => jpc = "done")
  /\ IF failed THEN FailedFile(file, made, dropped, session)
     ELSE /\ InFile(file, Len(file), made, dropped, session)
          /\ InRing(ring, Len(file), made, dropped)

(* Nothing is recorded yet, and the file is empty.                         *)
LEMMA JournalInit == Init => JournalInv
<1>. SUFFICES ASSUME Init PROVE JournalInv
  OBVIOUS
<1>1. EngineOK
  BY JournalAssumption DEF Init, EngineOK
<1>2. KeptOf(0, {}) = {} /\ Cardinality({}) = 0
  BY FS_EmptySet DEF KeptOf
<1>3. made = 0 /\ dropped = {} /\ ring = <<>> /\ file = <<>>
  BY DEF Init
<1>4. PlacesOK(0, {}) /\ InFile(<<>>, 0, 0, {}, session) /\ InRing(<<>>, 0, 0, {})
  BY <1>2 DEF PlacesOK, InFile, InRing
<1>5. failed \in BOOLEAN /\ ~failed
  BY DEF Init
<1>. QED  BY <1>1, <1>3, <1>4, <1>5 DEF JournalInv

(* One more record is kept. *)
LEMMA KeepsMore ==
  ASSUME NEW m \in Nat, NEW D \in SUBSET (1..m), NEW s, PlacesOK(m, D)
  PROVE  /\ PlacesOK(m + 1, D)
         /\ \A f, n : n <= m - Cardinality(D) /\ InFile(f, n, m, D, s) =>
              InFile(f, n, m + 1, D, s)
         /\ \A q \in Seq(1..m), n \in Nat : InRing(q, n, m, D) =>
              InRing(Append(q, m + 1), n, m + 1, D)
<1>. DEFINE c == Cardinality(D)
<1>1. /\ c \in 0..m /\ PlaceIn(D, m + 1) = (m + 1) - c
      /\ KeptOf(m + 1, D) = KeptOf(m, D) \cup {m + 1}
  BY NextPlace DEF KeptOf
<1>2. \A r \in KeptOf(m, D) : PlaceIn(D, r) \in 1..(m - c) /\ r \in 1..m
  BY DEF PlacesOK, KeptOf
<1>. HIDE DEF c
<1>3. PlacesOK(m + 1, D)
  BY <1>1, <1>2 DEF PlacesOK, c
<1>4. ASSUME NEW f, NEW n, n <= m - c, InFile(f, n, m, D, s)
      PROVE  InFile(f, n, m + 1, D, s)
  <2>1. n \in Int
    BY <1>4 DEF InFile
  <2>2. ~(PlaceIn(D, m + 1) <= n)
    BY <1>1, <1>4, <2>1
  <2>. QED  BY <1>1, <1>4, <2>2 DEF InFile
<1>5. ASSUME NEW q \in Seq(1..m), NEW n \in Nat, InRing(q, n, m, D)
      PROVE  InRing(Append(q, m + 1), n, m + 1, D)
  <2>1. n + Len(q) = m - c /\ Len(q) \in Nat
    BY <1>5 DEF InRing, c
  <2>2. PICK a : a = Append(q, m + 1)
    OBVIOUS
  <2>3. /\ Len(a) = Len(q) + 1
        /\ \A i \in 1..Len(q) : a[i] = q[i]
        /\ a[Len(q) + 1] = m + 1
    BY <2>2
  <2>4. \A r \in KeptOf(m, D) : PlaceIn(D, r) > n => a[PlaceIn(D, r) - n] = r
    <3>. TAKE r \in KeptOf(m, D)
    <3>. HAVE PlaceIn(D, r) > n
    <3>1. PlaceIn(D, r) - n \in 1..Len(q)
      BY <1>1, <1>2, <2>1
    <3>2. q[PlaceIn(D, r) - n] = r
      BY <1>5 DEF InRing
    <3>. QED  BY <2>3, <3>1, <3>2
  <2>5. PlaceIn(D, m + 1) - n = Len(q) + 1
    BY <1>1, <2>1
  <2>6. n + Len(a) = (m + 1) - c
    BY <1>1, <2>1, <2>3
  <2>7. InRing(a, n, m + 1, D)
    BY <1>1, <2>3, <2>4, <2>5, <2>6 DEF InRing, c
  <2>. QED  BY <2>2, <2>7
<1>. QED  BY <1>3, <1>4, <1>5 DEF c

(* One more record is dropped. *)
LEMMA DropsMore ==
  ASSUME NEW m \in Nat, NEW D \in SUBSET (1..m), NEW s, PlacesOK(m, D)
  PROVE  LET E == D \cup {m + 1}
         IN /\ PlacesOK(m + 1, E)
            /\ (m + 1) - Cardinality(E) = m - Cardinality(D)
            /\ \A f, n : InFile(f, n, m, D, s) => InFile(f, n, m + 1, E, s)
            /\ \A q, n : InRing(q, n, m, D) => InRing(q, n, m + 1, E)
<1>. DEFINE E == D \cup {m + 1}
<1>1. /\ Cardinality(E) = Cardinality(D) + 1
      /\ \A r \in 1..m : PlaceIn(E, r) = PlaceIn(D, r)
      /\ KeptOf(m + 1, E) = KeptOf(m, D)
  BY DropKeepsPlaces
<1>2. KeptOf(m, D) \subseteq 1..m /\ Cardinality(D) \in 0..m
  BY NextPlace DEF KeptOf
<1>. HIDE DEF E
<1>3. (m + 1) - Cardinality(E) = m - Cardinality(D)
  BY <1>1, <1>2
<1>4. PlacesOK(m + 1, E)
  BY <1>1, <1>2, <1>3 DEF PlacesOK
<1>5. ASSUME NEW f, NEW n, InFile(f, n, m, D, s) PROVE InFile(f, n, m + 1, E, s)
  BY <1>1, <1>2, <1>5 DEF InFile
<1>6. ASSUME NEW q, NEW n, InRing(q, n, m, D) PROVE InRing(q, n, m + 1, E)
  BY <1>1, <1>2, <1>3, <1>6 DEF InRing
<1>. QED  BY <1>3, <1>4, <1>5, <1>6 DEF E

(* Everything but the engine's place is as it was. *)
LEMMA EngineMoves ==
  ASSUME JournalInv, EngineOK',
         UNCHANGED <<session, made, ring, dropped, jpc, file, failed>>
  PROVE  JournalInv'
BY DEF JournalInv

(* The engine records one more: at the end of the ring, or counted as      *)
(* dropped.                                                                *)
LEMMA JournalKeeps ==
  ASSUME JournalInv, Journal
  PROVE  JournalInv'
<1>0. /\ made \in Nat /\ dropped \in SUBSET (1..made) /\ PlacesOK(made, dropped)
      /\ ring \in Seq(1..made) /\ file \in Seq(Block \cup {Torn})
      /\ epc \in {"pass", "shutdown"} /\ left > 0 /\ left \in 0..PassRecords
  BY DEF JournalInv, EngineOK, Journal
<1>1. /\ made' = made + 1 /\ session' = session /\ file' = file /\ jpc' = jpc
      /\ failed' = failed /\ left' = left - 1 /\ epc' = epc
      /\ made < MaxRecords \/ epc = "shutdown"
  BY DEF Journal, writerVars
<1>2. EngineOK'
  <2>1. MaxRecords \in Nat /\ PassRecords \in Nat
    BY JournalAssumption
  <2>2. EngineOK
    BY DEF JournalInv
  <2>3. left' \in 0..PassRecords
    BY <1>0, <1>1, <2>1
  <2>4. CASE epc = "shutdown"
    <3>1. made' + left' <= MaxRecords + PassRecords /\ made' <= MaxRecords + PassRecords
      BY <1>0, <1>1, <2>1, <2>2, <2>4 DEF EngineOK
    <3>. QED  BY <1>0, <1>1, <2>2, <2>3, <2>4, <3>1 DEF EngineOK
  <2>5. CASE epc = "pass"
    <3>1. made' <= MaxRecords /\ made' <= MaxRecords + PassRecords
      BY <1>0, <1>1, <2>1, <2>5
    <3>. QED  BY <1>0, <1>1, <2>2, <2>3, <2>5, <3>1 DEF EngineOK
  <2>. QED  BY <1>0, <2>4, <2>5
<1>3. Cardinality(dropped) \in 0..made /\ Len(file) \in Nat
  BY <1>0, NextPlace
<1>4. CASE HasRoom
  <2>1. ring' = Append(ring, made + 1) /\ dropped' = dropped
    BY <1>4 DEF Journal
  <2>2. /\ PlacesOK(made + 1, dropped)
        /\ \A f, n : n <= made - Cardinality(dropped)
                       /\ InFile(f, n, made, dropped, session) =>
             InFile(f, n, made + 1, dropped, session)
        /\ \A q \in Seq(1..made), n \in Nat : InRing(q, n, made, dropped) =>
             InRing(Append(q, made + 1), n, made + 1, dropped)
    BY <1>0, KeepsMore
  <2>3. ring' \in Seq(1..made') /\ dropped' \subseteq 1..made'
    <3>1. ring \in Seq(1..(made + 1)) /\ made + 1 \in 1..(made + 1)
      BY <1>0, SeqGrows
    <3>. QED  BY <1>0, <1>1, <2>1, <3>1
  <2>4. CASE failed
    <3>1. PICK n : FailedAt(file, n, made, dropped, session)
      BY <2>4 DEF JournalInv, FailedFile
    <3>. DEFINE end == Len(file) = n \/ (Len(file) = n + 1 /\ file[n + 1] = Torn)
    <3>0. /\ n \in 0..(made - Cardinality(dropped)) /\ end
          /\ InFile(file, n, made, dropped, session)
      BY <3>1 DEF FailedAt
    <3>. HIDE DEF end
    <3>2. n \in 0..((made + 1) - Cardinality(dropped))
      BY <1>0, <1>3, <3>0
    <3>3. InFile(file, n, made + 1, dropped, session)
      BY <1>3, <2>2, <3>0
    <3>a. FailedAt(file, n, made + 1, dropped, session)
      BY <3>0, <3>2, <3>3 DEF FailedAt, end
    <3>4. FailedFile(file, made + 1, dropped, session)
      BY <3>a DEF FailedFile
    <3>. QED  BY <1>0, <1>1, <1>2, <2>1, <2>2, <2>3, <2>4, <3>4 DEF JournalInv
  <2>5. CASE ~failed
    <3>1. /\ InFile(file, Len(file), made, dropped, session)
          /\ InRing(ring, Len(file), made, dropped)
      BY <2>5 DEF JournalInv
    <3>2. Len(file) <= made - Cardinality(dropped)
      BY <1>0, <1>3, <3>1 DEF InRing
    <3>3. /\ InFile(file, Len(file), made + 1, dropped, session)
          /\ InRing(Append(ring, made + 1), Len(file), made + 1, dropped)
      BY <1>0, <1>3, <2>2, <3>1, <3>2
    <3>. QED  BY <1>0, <1>1, <1>2, <2>1, <2>2, <2>3, <2>5, <3>3 DEF JournalInv
  <2>. QED  BY <2>4, <2>5
<1>5. CASE ~HasRoom
  <2>1. ring' = ring /\ dropped' = dropped \cup {made + 1}
    BY <1>5 DEF Journal
  <2>. DEFINE E == dropped \cup {made + 1}
  <2>2. /\ PlacesOK(made + 1, E)
        /\ (made + 1) - Cardinality(E) = made - Cardinality(dropped)
        /\ \A f, n : InFile(f, n, made, dropped, session) =>
             InFile(f, n, made + 1, E, session)
        /\ \A q, n : InRing(q, n, made, dropped) => InRing(q, n, made + 1, E)
    BY <1>0, DropsMore
  <2>3. ring' \in Seq(1..made') /\ dropped' \subseteq 1..made'
    <3>1. ring \in Seq(1..(made + 1)) /\ made + 1 \in 1..(made + 1)
      BY <1>0, SeqGrows
    <3>. QED  BY <1>0, <1>1, <2>1, <3>1
  <2>. HIDE DEF E
  <2>0. dropped' = E
    BY <2>1 DEF E
  <2>4. CASE failed
    <3>1. PICK n : FailedAt(file, n, made, dropped, session)
      BY <2>4 DEF JournalInv, FailedFile
    <3>. DEFINE end == Len(file) = n \/ (Len(file) = n + 1 /\ file[n + 1] = Torn)
    <3>0. /\ n \in 0..(made - Cardinality(dropped)) /\ end
          /\ InFile(file, n, made, dropped, session)
      BY <3>1 DEF FailedAt
    <3>. HIDE DEF end
    <3>2. n \in 0..((made + 1) - Cardinality(E))
      BY <2>2, <3>0
    <3>3. InFile(file, n, made + 1, E, session)
      BY <2>2, <3>0
    <3>a. FailedAt(file, n, made + 1, E, session)
      BY <3>0, <3>2, <3>3 DEF FailedAt, end
    <3>4. FailedFile(file, made + 1, E, session)
      BY <3>a DEF FailedFile
    <3>. QED  BY <1>0, <1>1, <1>2, <2>0, <2>1, <2>2, <2>3, <2>4, <3>4 DEF JournalInv
  <2>5. CASE ~failed
    <3>1. /\ InFile(file, Len(file), made, dropped, session)
          /\ InRing(ring, Len(file), made, dropped)
      BY <2>5 DEF JournalInv
    <3>3. /\ InFile(file, Len(file), made + 1, E, session)
          /\ InRing(ring, Len(file), made + 1, E)
      BY <2>2, <3>1
    <3>. QED  BY <1>0, <1>1, <1>2, <2>0, <2>1, <2>2, <2>3, <2>5, <3>3 DEF JournalInv
  <2>. QED  BY <2>4, <2>5
<1>. QED  BY <1>4, <1>5

(* The oldest record of the ring is one of the session's. *)
LEMMA HeadIsRecord ==
  ASSUME JournalInv, ring # <<>>
  PROVE  /\ Head(ring) = ring[1] /\ Head(ring) \in 1..made
         /\ session[Head(ring)] \in Record
         /\ Encode(session[Head(ring)]) \in Block
         /\ Len(ring) \in Nat \ {0} /\ Tail(ring) \in Seq(1..made)
         /\ Len(Tail(ring)) = Len(ring) - 1
         /\ \A i \in 1..(Len(ring) - 1) : Tail(ring)[i] = ring[i + 1]
<1>1. /\ ring \in Seq(1..made) /\ session \in Sessions /\ made \in Nat
      /\ made <= MaxRecords + PassRecords
  BY DEF JournalInv, EngineOK
<1>2. /\ Head(ring) = ring[1] /\ Head(ring) \in 1..made
      /\ Len(ring) \in Nat \ {0} /\ Tail(ring) \in Seq(1..made)
      /\ Len(Tail(ring)) = Len(ring) - 1
      /\ \A i \in 1..(Len(ring) - 1) : Tail(ring)[i] = ring[i + 1]
  BY <1>1
<1>3. /\ session \in Seq(Record) /\ Len(session) \in Nat
      /\ Len(session) >= MaxRecords + PassRecords
      /\ MaxRecords + PassRecords \in Nat
  BY <1>1, JournalAssumption
<1>4. Head(ring) \in 1..Len(session)
  BY <1>1, <1>2, <1>3
<1>5. session[Head(ring)] \in Record
  BY <1>3, <1>4
<1>. QED  BY <1>2, <1>5, RecordsReadBack

(* The oldest record of the ring becomes the last one of the file.         *)
LEMMA PopKeeps ==
  ASSUME JournalInv, WriterPop
  PROVE  JournalInv'
<1>. DEFINE h == Head(ring)
            x == session[h]
            n == Len(file)
<1>0. /\ jpc = "pop" /\ ring # <<>> /\ ring' = Tail(ring)
      /\ file' = Append(file, Encode(x))
      /\ UNCHANGED <<session, stop, epc, left, made, dropped, jpc, failed>>
  BY DEF WriterPop, Written, engineVars
<1>a. ~failed
  BY <1>0 DEF JournalInv
<1>1. /\ EngineOK /\ dropped \in SUBSET (1..made) /\ PlacesOK(made, dropped)
      /\ ring \in Seq(1..made) /\ file \in Seq(Block \cup {Torn})
      /\ InFile(file, n, made, dropped, session)
      /\ InRing(ring, n, made, dropped) /\ made \in Nat
  BY <1>a DEF JournalInv, EngineOK
<1>2. /\ h = ring[1] /\ h \in 1..made /\ x \in Record /\ Encode(x) \in Block
      /\ Len(ring) \in Nat \ {0} /\ Tail(ring) \in Seq(1..made)
      /\ Len(Tail(ring)) = Len(ring) - 1
      /\ \A i \in 1..(Len(ring) - 1) : Tail(ring)[i] = ring[i + 1]
  BY <1>0, HeadIsRecord
<1>3. EngineOK'
  BY <1>0, <1>1 DEF EngineOK
<1>4. PICK f : f = Append(file, Encode(x))
  OBVIOUS
<1>. HIDE DEF x, h
<1>5. /\ f \in Seq(Block \cup {Torn}) /\ n \in Nat /\ Len(f) = n + 1
      /\ \A i \in 1..n : f[i] = file[i]
      /\ f[n + 1] = Encode(x)
  BY <1>1, <1>2, <1>4
<1>. HIDE DEF n
<1>6. \A r \in KeptOf(made, dropped) : PlaceIn(dropped, r) \in Int
                                        /\ PlaceIn(dropped, r) >= 1
  BY <1>1, NextPlace DEF PlacesOK
<1>7. ASSUME NEW r \in KeptOf(made, dropped), PlaceIn(dropped, r) = n + 1
      PROVE  r = h
  <2>1. PlaceIn(dropped, r) > n /\ PlaceIn(dropped, r) - n = 1
    BY <1>5, <1>7
  <2>2. ring[PlaceIn(dropped, r) - n] = r
    BY <1>1, <2>1 DEF InRing
  <2>. QED  BY <1>2, <2>1, <2>2
<1>8. InFile(f, n + 1, made, dropped, session)
  <2>1. \A i \in 1..(n + 1) : \E y \in Record : f[i] = Encode(y)
    <3>1. \A i \in 1..n : \E y \in Record : f[i] = Encode(y)
      BY <1>1, <1>5 DEF InFile
    <3>2. \A i \in 1..(n + 1) : i \in 1..n \/ i = n + 1
      BY <1>5
    <3>. QED  BY <1>2, <1>5, <3>1, <3>2
  <2>2. \A r \in KeptOf(made, dropped) :
          PlaceIn(dropped, r) <= n + 1 => f[PlaceIn(dropped, r)] = Encode(session[r])
    <3>. TAKE r \in KeptOf(made, dropped)
    <3>. HAVE PlaceIn(dropped, r) <= n + 1
    <3>1. CASE PlaceIn(dropped, r) = n + 1
      BY <1>5, <1>7, <3>1 DEF x
    <3>2. CASE PlaceIn(dropped, r) <= n
      <4>1. PlaceIn(dropped, r) \in 1..n
        BY <1>5, <1>6, <3>2
      <4>2. file[PlaceIn(dropped, r)] = Encode(session[r])
        BY <1>1, <3>2 DEF InFile
      <4>. QED  BY <1>5, <4>1, <4>2
    <3>. QED  BY <1>5, <1>6, <3>1, <3>2
  <2>. QED  BY <1>5, <2>1, <2>2 DEF InFile
<1>9. InRing(Tail(ring), n + 1, made, dropped)
  <2>1. n + 1 + Len(Tail(ring)) = made - Cardinality(dropped)
    <3>1. n + Len(ring) = made - Cardinality(dropped)
      BY <1>1 DEF InRing
    <3>. QED  BY <1>2, <1>5, <3>1
  <2>2. \A r \in KeptOf(made, dropped) :
          PlaceIn(dropped, r) > n + 1 => Tail(ring)[PlaceIn(dropped, r) - (n + 1)] = r
    <3>. TAKE r \in KeptOf(made, dropped)
    <3>. HAVE PlaceIn(dropped, r) > n + 1
    <3>0. PICK i : i = PlaceIn(dropped, r) - (n + 1)
      OBVIOUS
    <3>1. i \in 1..(Len(ring) - 1) /\ i + 1 = PlaceIn(dropped, r) - n
      <4>1. PlaceIn(dropped, r) <= made - Cardinality(dropped)
            /\ Cardinality(dropped) \in Nat
        BY <1>1, NextPlace DEF PlacesOK
      <4>2. PICK p, c, l : /\ p = PlaceIn(dropped, r) /\ c = Cardinality(dropped)
                           /\ l = Len(ring)
        OBVIOUS
      <4>3. p \in Int /\ n \in Nat /\ l \in Nat \ {0} /\ c \in Nat /\ made \in Nat
        BY <1>1, <1>2, <1>5, <1>6, <4>1, <4>2
      <4>4. p > n + 1 /\ p <= made - c /\ i = p - (n + 1)
        BY <3>0, <4>1, <4>2
      <4>5. n + l = made - c
        BY <1>1, <4>2 DEF InRing
      <4>6. i \in 1..(l - 1) /\ i + 1 = p - n
        BY <4>3, <4>4, <4>5
      <4>. QED  BY <4>2, <4>6
    <3>2. ring[i + 1] = r
      <4>1. PlaceIn(dropped, r) > n
        BY <1>5, <1>6
      <4>. QED  BY <1>1, <3>1, <4>1 DEF InRing
    <3>. QED  BY <1>2, <3>0, <3>1, <3>2
  <2>. QED  BY <2>1, <2>2 DEF InRing
<1>. QED  BY <1>0, <1>a, <1>1, <1>2, <1>3, <1>4, <1>5, <1>8, <1>9 DEF JournalInv, x

(* A write or a last flush that fails leaves a beginning of the file, and  *)
(* a part of a record behind it at most.                                   *)
LEMMA FailsKeeps ==
  ASSUME JournalInv, WriterFails \/ WriterFlush, DiskKeepsPart
  PROVE  JournalInv'
<1>0. /\ jpc # "done" /\ jpc' = "done" /\ failed' = TRUE
      /\ (ring # <<>> /\ ring' = Tail(ring)) \/ ring' = ring
      /\ UNCHANGED <<session, stop, epc, left, made, dropped, wrote>>
  BY DEF WriterFails, WriterFlush, DiskKeepsPart, engineVars
<1>1. /\ EngineOK /\ dropped \in SUBSET (1..made) /\ PlacesOK(made, dropped)
      /\ ring \in Seq(1..made) /\ file \in Seq(Block \cup {Torn})
      /\ InFile(file, Len(file), made, dropped, session)
      /\ InRing(ring, Len(file), made, dropped) /\ made \in Nat
  BY <1>0 DEF JournalInv, EngineOK
<1>2. EngineOK' /\ ring' \in Seq(1..made')
  BY <1>0, <1>1, HeadIsRecord DEF EngineOK
<1>3. PICK n \in 0..Len(file), tail \in {<<>>, <<Torn>>} :
        file' = SubSeq(file, 1, n) \o tail
  BY DEF DiskKeepsPart
<1>4. PICK f : f = SubSeq(file, 1, n) \o tail
  OBVIOUS
<1>5. /\ f \in Seq(Block \cup {Torn}) /\ n \in Nat
      /\ Len(f) = n \/ (Len(f) = n + 1 /\ f[n + 1] = Torn)
      /\ \A i \in 1..n : f[i] = file[i]
      /\ Len(f) >= n /\ Len(f) \in Nat
  <2>. DEFINE x == SubSeq(file, 1, n)
  <2>1. /\ x \in Seq(Block \cup {Torn}) /\ Len(x) = n /\ n \in Nat
        /\ \A i \in 1..n : x[i] = file[i]
    BY <1>1
  <2>2. tail \in Seq(Block \cup {Torn}) /\ Len(tail) \in {0, 1}
        /\ (Len(tail) = 1 => tail[1] = Torn)
    <3>1. CASE tail = <<>>
      BY <3>1
    <3>2. CASE tail = <<Torn>>
      BY <3>2
    <3>. QED  BY <3>1, <3>2
  <2>3. f = x \o tail
    BY <1>4
  <2>. HIDE DEF x
  <2>4. /\ f \in Seq(Block \cup {Torn}) /\ Len(f) = n + Len(tail)
        /\ \A j \in 1..(n + Len(tail)) : f[j] = IF j <= n THEN x[j] ELSE tail[j - n]
    <3>1. PICK S : S = Block \cup {Torn}
      OBVIOUS
    <3>2. PICK y \in Seq(S) : y = x
      BY <2>1, <3>1
    <3>3. PICK z \in Seq(S) : z = tail
      BY <2>2, <3>1
    <3>4. /\ y \o z \in Seq(S) /\ Len(y \o z) = Len(y) + Len(z)
          /\ \A j \in 1..(Len(y) + Len(z)) :
               (y \o z)[j] = IF j <= Len(y) THEN y[j] ELSE z[j - Len(y)]
      BY ConcatAt
    <3>5. f = y \o z /\ Len(y) = n
      BY <2>1, <2>3, <3>2, <3>3
    <3>. HIDE DEF Block
    <3>. QED  BY <3>1, <3>2, <3>3, <3>4, <3>5
  <2>5. CASE Len(tail) = 0
    BY <2>1, <2>4, <2>5
  <2>6. CASE Len(tail) = 1
    <3>1. n + 1 \in 1..(n + 1) /\ ~(n + 1 <= n) /\ (n + 1) - n = 1
      BY <2>1
    <3>2. f[n + 1] = Torn
      BY <2>2, <2>4, <2>6, <3>1
    <3>. QED  BY <2>1, <2>4, <2>6, <3>2
  <2>. QED  BY <2>2, <2>5, <2>6
<1>6. n <= Len(file) /\ Len(file) \in Nat
      /\ Len(file) <= made - Cardinality(dropped) /\ Cardinality(dropped) \in Nat
  <2>1. Len(file) + Len(ring) = made - Cardinality(dropped) /\ Len(ring) \in Nat
        /\ Len(file) \in Nat
    BY <1>1 DEF InRing
  <2>. QED  BY <1>1, <2>1, NextPlace
<1>7. \A r \in KeptOf(made, dropped) : /\ PlaceIn(dropped, r) \in Nat
                                        /\ PlaceIn(dropped, r) >= 1
  BY <1>1, NextPlace DEF PlacesOK
<1>8. InFile(f, n, made, dropped, session)
  <2>1. \A i \in 1..n : \E y \in Record : f[i] = Encode(y)
    <3>1. \A i \in 1..Len(file) : \E y \in Record : file[i] = Encode(y)
      BY <1>1 DEF InFile
    <3>2. \A i \in 1..n : i \in 1..Len(file) /\ f[i] = file[i]
      BY <1>5, <1>6
    <3>. QED  BY <3>1, <3>2
  <2>2. \A r \in KeptOf(made, dropped) :
          PlaceIn(dropped, r) <= n => f[PlaceIn(dropped, r)] = Encode(session[r])
    <3>. TAKE r \in KeptOf(made, dropped)
    <3>. HAVE PlaceIn(dropped, r) <= n
    <3>1. PlaceIn(dropped, r) \in 1..n /\ PlaceIn(dropped, r) <= Len(file)
      BY <1>5, <1>6, <1>7
    <3>. QED  BY <1>1, <1>5, <3>1 DEF InFile
  <2>. QED  BY <1>5, <2>1, <2>2 DEF InFile
<1>9. FailedAt(f, n, made, dropped, session)
  <2>1. n \in 0..(made - Cardinality(dropped))
    BY <1>1, <1>5, <1>6
  <2>. QED  BY <1>5, <1>8, <2>1 DEF FailedAt
<1>. QED  BY <1>0, <1>1, <1>2, <1>3, <1>4, <1>5, <1>9 DEF JournalInv, FailedFile

(* JournalInv is inductive.                                                *)
LEMMA JournalStep ==
  ASSUME JournalInv, [Next]_vars
  PROVE  JournalInv'
<1>0. EngineOK /\ MaxRecords \in Nat /\ PassRecords \in Nat
  BY JournalAssumption DEF JournalInv
<1>1. CASE Stop
  <2>1. UNCHANGED <<session, epc, left, made, ring, dropped, jpc, file, failed>>
    BY <1>1 DEF Stop, engineVars, writerVars
  <2>. QED  BY <1>0, <2>1, EngineMoves DEF EngineOK
<1>2. CASE EngineHead
  <2>1. UNCHANGED <<session, made, ring, dropped, jpc, file, failed>>
    BY <1>2 DEF EngineHead, writerVars
  <2>2. EngineOK'
    <3>1. /\ epc = "head" /\ epc' \in {"shutdown", "pass"}
          /\ left' \in 0..PassRecords
      BY <1>2 DEF EngineHead
    <3>2. made <= MaxRecords /\ made \in Nat
      BY <1>0, <3>1 DEF EngineOK
    <3>3. made + left' <= MaxRecords + PassRecords
      <4>1. PICK l : l = left'
        OBVIOUS
      <4>2. l \in Int /\ l <= PassRecords
        BY <1>0, <3>1, <4>1
      <4>3. made + l <= MaxRecords + PassRecords
        BY <1>0, <3>2, <4>2
      <4>. QED  BY <4>1, <4>3
    <3>. QED  BY <1>0, <2>1, <3>1, <3>2, <3>3 DEF EngineOK
  <2>. QED  BY <2>1, <2>2, EngineMoves
<1>3. CASE EngineLoops
  <2>1. UNCHANGED <<session, made, ring, dropped, jpc, file, failed>>
    BY <1>3 DEF EngineLoops, writerVars
  <2>2. EngineOK'
    <3>1. /\ epc \in {"pass", "shutdown"} /\ left' = 0
          /\ epc' = IF epc = "pass" THEN "head" ELSE "done"
      BY <1>3 DEF EngineLoops
    <3>. QED  BY <1>0, <2>1, <3>1 DEF EngineOK
  <2>. QED  BY <2>1, <2>2, EngineMoves
<1>4. CASE WriterIdle \/ WriterCheck \/ (WriterFlush /\ ~DiskKeepsPart)
  <2>1. /\ UNCHANGED <<session, epc, left, made, ring, dropped, file, failed>>
        /\ jpc # "done"
    BY <1>4 DEF WriterIdle, WriterCheck, WriterFlush, WriterMayLeave, engineVars
  <2>2. EngineOK'
    BY <1>0, <2>1 DEF EngineOK
  <2>. QED  BY <2>1, <2>2 DEF JournalInv
<1>5. CASE UNCHANGED vars
  <2>1. UNCHANGED <<session, epc, left, made, ring, dropped, jpc, file, failed>>
    BY <1>5 DEF vars, engineVars, writerVars
  <2>. QED  BY <1>0, <2>1, EngineMoves DEF EngineOK
<1>6. CASE (WriterFails \/ WriterFlush) /\ DiskKeepsPart
  BY <1>6, FailsKeeps
<1>7. WriterFails => DiskKeepsPart
  BY DEF WriterFails
<1>. QED
  BY <1>1, <1>2, <1>3, <1>4, <1>5, <1>6, <1>7, JournalKeeps, PopKeeps
     DEF Next, Engine, Writer

(* File and ring hold what was kept, each record in its place, at all      *)
(* times (Engine::journal, run_writer).                                    *)
THEOREM JournalInvariant == Spec => []JournalInv
BY JournalInit, JournalStep, PTL DEF Spec

(* Records that are the first n of the kept ones, in their places. *)
ReadsAs(d, n, m, D, s) ==
  /\ d \in Seq(Record) /\ Len(d) = n /\ DOMAIN d = 1..n
  /\ \A r \in KeptOf(m, D) : PlaceIn(D, r) <= n => d[PlaceIn(D, r)] = s[r]

(* What is in the file is read as it was recorded. *)
LEMMA FileReads ==
  ASSUME NEW f \in Seq(Block \cup {Torn}), NEW n, NEW m, NEW D \in SUBSET (1..m),
         NEW s, m \in Nat, PlacesOK(m, D), s \in Seq(Record), m <= Len(s),
         InFile(f, n, m, D, s), n < Len(f) => f[n + 1] = Torn
  PROVE  ReadsAs(Readable(f), n, m, D, s)
<1>0. n \in 0..Len(f)
  BY DEF InFile
<1>1. \A i \in 1..n : /\ f[i] # Torn /\ Decode(f[i]) # NoValue
                      /\ Decode(f[i]) \in Record
  <2>. TAKE i \in 1..n
  <2>1. PICK x \in Record : f[i] = Encode(x)
    BY DEF InFile
  <2>. QED  BY <2>1, RecordsReadBack, FormatAssumption
<1>2. Readable(f) = [i \in 1..n |-> Decode(f[i])]
  BY <1>0, <1>1, ReadableIs
<1>3. PICK d : d = Readable(f)
  OBVIOUS
<1>4. d \in Seq(Record) /\ Len(d) = n /\ DOMAIN d = 1..n
      /\ \A i \in 1..n : d[i] = Decode(f[i])
  BY <1>0, <1>1, <1>2, <1>3
<1>5. ASSUME NEW r \in KeptOf(m, D), PlaceIn(D, r) <= n
      PROVE  d[PlaceIn(D, r)] = s[r]
  <2>1. PlaceIn(D, r) \in 1..n /\ r \in 1..Len(s)
    BY <1>0, <1>5, NextPlace DEF PlacesOK, KeptOf
  <2>2. f[PlaceIn(D, r)] = Encode(s[r]) /\ s[r] \in Record
    BY <1>5, <2>1 DEF InFile
  <2>. QED  BY <1>4, <2>1, <2>2, RecordsReadBack
<1>6. ReadsAs(d, n, m, D, s)
  BY <1>0, <1>4, <1>5 DEF ReadsAs
<1>. QED  BY <1>3, <1>6

(* The records the ring's numbers stand for. *)
LEMMA WaitsAre ==
  ASSUME NEW S, NEW T, NEW q \in Seq(T), NEW s,
         \A i \in 1..Len(q) : s[q[i]] \in S,
         NEW w, w = [i \in DOMAIN q |-> s[q[i]]]
  PROVE  /\ w \in Seq(S) /\ Len(w) = Len(q)
         /\ \A i \in 1..Len(q) : w[i] = s[q[i]]
<1>1. Len(q) \in Nat /\ DOMAIN q = 1..Len(q)
  OBVIOUS
<1>2. PICK l : l = Len(q)
  OBVIOUS
<1>3. w = [i \in 1..l |-> s[q[i]]]
  BY <1>1, <1>2
<1>4. \A i \in 1..l : s[q[i]] \in S
  BY <1>2
<1>5. w \in [1..l -> S] /\ \A i \in 1..l : w[i] = s[q[i]]
  BY <1>3, <1>4
<1>6. w \in Seq(S) /\ Len(w) = l
  BY <1>1, <1>2, <1>5
<1>. QED  BY <1>2, <1>5, <1>6

(* What the invariant says of file and ring, said of what the reader       *)
(* finds.                                                                  *)
LEMMA JournalIsWhole == JournalInv => NothingLost
<1>. SUFFICES ASSUME JournalInv PROVE NothingLost
  OBVIOUS
<1>1. /\ dropped \in SUBSET (1..made) /\ PlacesOK(made, dropped) /\ made \in Nat
      /\ ring \in Seq(1..made) /\ file \in Seq(Block \cup {Torn})
      /\ session \in Seq(Record) /\ made <= Len(session)
  <2>1. /\ made \in Nat /\ made <= MaxRecords + PassRecords /\ session \in Sessions
        /\ MaxRecords \in Nat /\ PassRecords \in Nat
    BY JournalAssumption DEF JournalInv, EngineOK
  <2>2. session \in Seq(Record) /\ Len(session) >= MaxRecords + PassRecords
    BY <2>1, JournalAssumption
  <2>. QED  BY <2>1, <2>2 DEF JournalInv
<1>2. /\ KeptCount = made - Cardinality(dropped)
      /\ \A r : Place(r) = PlaceIn(dropped, r)
      /\ KeptOf(made, dropped) = (1..made) \ dropped
      /\ Cardinality(dropped) \in 0..made
  BY <1>1, NextPlace DEF KeptCount, Place, PlaceIn, KeptOf
<1>. DEFINE found == Readable(file)
            waits == [i \in DOMAIN ring |-> session[ring[i]]]
            all   == found \o waits
<1>3. CASE failed
  <2>1. PICK n : FailedAt(file, n, made, dropped, session)
    BY <1>3 DEF JournalInv, FailedFile
  <2>2. /\ n \in 0..KeptCount /\ InFile(file, n, made, dropped, session)
        /\ n < Len(file) => file[n + 1] = Torn
    BY <1>2, <2>1 DEF FailedAt
  <2>3. ReadsAs(found, n, made, dropped, session)
    BY <1>1, <2>2, FileReads
  <2>. HIDE DEF found
  <2>4. Begins(found)
    BY <1>2, <2>2, <2>3 DEF Begins, ReadsAs
  <2>. QED  BY <1>3, <2>4 DEF NothingLost, found
<1>4. CASE ~failed
  <2>. DEFINE n == Len(file)
  <2>1. /\ InFile(file, n, made, dropped, session)
        /\ InRing(ring, n, made, dropped) /\ n \in Nat
    BY <1>1, <1>4 DEF JournalInv
  <2>2. /\ Len(found) = n /\ found \in Seq(Record)
        /\ \A r \in KeptOf(made, dropped) :
             PlaceIn(dropped, r) <= n => found[PlaceIn(dropped, r)] = session[r]
    <3>1. PICK k : k = n
      OBVIOUS
    <3>2. k < Len(file) => file[k + 1] = Torn
      BY <2>1, <3>1
    <3>3. InFile(file, k, made, dropped, session)
      BY <2>1, <3>1
    <3>. HIDE DEF found
    <3>4. ReadsAs(Readable(file), k, made, dropped, session)
      BY <1>1, <3>2, <3>3, FileReads
    <3>. QED  BY <3>1, <3>4 DEF ReadsAs, found
  <2>3. /\ waits \in Seq(Record) /\ Len(waits) = Len(ring)
        /\ \A i \in 1..Len(ring) : waits[i] = session[ring[i]]
    <3>1. \A i \in 1..Len(ring) : ring[i] \in 1..Len(session)
      BY <1>1
    <3>2. \A i \in 1..Len(ring) : session[ring[i]] \in Record
      BY <1>1, <3>1
    <3>3. PICK T : T = 1..made
      OBVIOUS
    <3>4. PICK w : w = [i \in DOMAIN ring |-> session[ring[i]]]
      OBVIOUS
    <3>5. ring \in Seq(T)
      BY <1>1, <3>3
    <3>6. /\ w \in Seq(Record) /\ Len(w) = Len(ring)
          /\ \A i \in 1..Len(ring) : w[i] = session[ring[i]]
      BY <3>2, <3>4, <3>5, WaitsAre
    <3>. QED  BY <3>4, <3>6
  <2>. HIDE DEF found, waits, n
  <2>4. /\ Len(all) = n + Len(ring)
        /\ \A j \in 1..(n + Len(ring)) :
             all[j] = IF j <= n THEN found[j] ELSE waits[j - n]
    <3>1. PICK x \in Seq(Record) : x = found
      BY <2>2
    <3>2. PICK y \in Seq(Record) : y = waits
      BY <2>3
    <3>3. /\ Len(x \o y) = Len(x) + Len(y)
          /\ \A j \in 1..(Len(x) + Len(y)) :
               (x \o y)[j] = IF j <= Len(x) THEN x[j] ELSE y[j - Len(x)]
      BY ConcatAt
    <3>4. Len(x) = n /\ Len(y) = Len(ring) /\ all = x \o y
      BY <2>2, <2>3, <3>1, <3>2
    <3>. HIDE DEF all
    <3>. QED  BY <3>1, <3>2, <3>3, <3>4
  <2>5. n + Len(ring) = KeptCount /\ Len(ring) \in Nat
    BY <1>1, <1>2, <2>1 DEF InRing
  <2>. HIDE DEF all
  <2>6. ASSUME NEW r \in KeptOf(made, dropped) PROVE all[PlaceIn(dropped, r)] = session[r]
    <3>1. PICK p : p = PlaceIn(dropped, r)
      OBVIOUS
    <3>2. p \in 1..(n + Len(ring))
      BY <1>1, <1>2, <2>1, <2>5, <3>1 DEF PlacesOK
    <3>3. CASE p <= n
      BY <2>2, <2>4, <3>1, <3>2, <3>3
    <3>4. CASE ~(p <= n)
      <4>1. p - n \in 1..Len(ring) /\ p > n
        BY <2>1, <2>5, <3>2, <3>4
      <4>2. ring[p - n] = r
        BY <2>1, <3>1, <4>1 DEF InRing
      <4>. QED  BY <2>3, <2>4, <3>1, <3>2, <3>4, <4>1, <4>2
    <3>. QED  BY <3>3, <3>4
  <2>7. Begins(all) /\ Len(all) = KeptCount
    BY <1>2, <2>1, <2>4, <2>5, <2>6 DEF Begins
  <2>. QED  BY <1>4, <2>7 DEF NothingLost, all, found, waits
<1>. QED  BY <1>3, <1>4

(* Nothing the engine recorded is lost between ring and file, changed or   *)
(* put out of order: what is read is everything that is not counted as     *)
(* dropped (run_writer, Engine::journal, JournalReader).                   *)
THEOREM NothingIsLost == Spec => []NothingLost
BY JournalInvariant, JournalIsWhole, PTL

(* When the engine is done first, the writer leaves its loop with every    *)
(* record written or counted (run_writer).                                 *)
THEOREM RestIsDrained == Spec => DrainsTheRest
<1>1. ASSUME JournalInv, [Next]_vars
      PROVE  [jpc # "flush" /\ jpc' = "flush" /\ epc = "done" => Complete]_vars
  <2>. SUFFICES ASSUME jpc # "flush", jpc' = "flush" PROVE Complete
    OBVIOUS
  <2>1. WriterCheck
    BY <1>1 DEF Next, Engine, EngineHead, Journal, EngineLoops, Stop, Writer, WriterPop,
                WriterFails, WriterIdle, WriterFlush, DiskKeepsPart, writerVars, vars
  <2>2. ~failed /\ ring = <<>>
    BY <1>1, <2>1 DEF WriterCheck, WriterMayLeave, JournalInv
  <2>3. /\ Len(file) + Len(ring) = made - Cardinality(dropped) /\ Len(ring) = 0
        /\ Len(file) \in Nat /\ made \in Nat /\ dropped \in SUBSET (1..made)
    BY <1>1, <2>2 DEF JournalInv, InRing, EngineOK
  <2>4. Cardinality(dropped) \in Nat
    BY <2>3, NextPlace
  <2>. QED  BY <2>3, <2>4 DEF Complete
<1>. QED  BY <1>1, JournalInvariant, PTL DEF Spec, DrainsTheRest

=============================================================================
