---------------------------- MODULE OrderEntryProof ----------------------------
(***************************************************************************)
(* Theorems about OrderEntry for every value of its constants: first the   *)
(* bookkeeping of an order between the OMS and the venue, then types, then *)
(* the position limit.                                                     *)
(*                                                                         *)
(* Two parties know an order: the OMS, by what it believes is left, and    *)
(* the venue, by what it still holds.  Between them runs a queue of        *)
(* execution reports.  Chain says that the reports of an order lead step   *)
(* by step from the first value to the second.  The lemmas say that        *)
(* sending an order, reporting and applying a report keep it so, and that  *)
(* the fills of a chain add up.                                            *)
(*                                                                         *)
(* The risk check bounds position plus open quantity at the moment an      *)
(* order is sent.  That bounds the position for good only if the running   *)
(* open quantity stays the sum of what the open orders have left, and it   *)
(* does only if every fill is of exactly what the OMS believes is left:    *)
(* hence the invariant carries the whole conversation with the venue,      *)
(* what it holds and which reports are under way (Chain), that one order   *)
(* is in one place at the venue (OnePlace), that numbers are fresh, and    *)
(* that a cancel is behind its order on the wire.  The same invariant      *)
(* makes every step one of Exposure, or a stutter.  The last part is that  *)
(* what both parties know agrees in the end, and that a kill cancels all.  *)
(***************************************************************************)
EXTENDS OrderEntry, Lemmas

-----------------------------------------------------------------------------
(* The chain of reports. *)

FillOf(r, i, id) == r[i].kind = "Fill" /\ r[i].id = id
CloseOf(r, i, id) == r[i].kind \in {"Canceled", "Rejected"} /\ r[i].id = id

(* orders: what the OMS knows, id -> record with leaves.  r: the reports   *)
(* in flight, oldest first.  h: what the venue holds, pairs <<id, qty>>.   *)
FillsKnown(orders, r) ==
  \A i \in 1..Len(r) : r[i].kind = "Fill" => r[i].id \in DOMAIN orders

HeldKnown(orders, h) == \A x \in h : x[2] > 0 => x[1] \in DOMAIN orders

(* The first fill starts from what the OMS believes. *)
FirstFill(orders, r) ==
  \A i \in 1..Len(r) :
    /\ r[i].kind = "Fill"
    /\ \A j \in 1..(i-1) : ~FillOf(r, j, r[i].id)
    => orders[r[i].id].leaves = r[i].qty + r[i].leaves

(* A later fill takes from what an earlier one left, the next one exactly. *)
NextFill(r) ==
  \A i, j \in 1..Len(r) :
    i < j /\ r[i].kind = "Fill" /\ FillOf(r, j, r[i].id) =>
      /\ r[j].qty + r[j].leaves <= r[i].leaves
      /\ (\A k \in (i+1)..(j-1) : ~FillOf(r, k, r[i].id))
           => r[j].qty + r[j].leaves = r[i].leaves

(* The venue holds at most what a fill left, exactly what the last left.   *)
LastFill(r, h) ==
  \A i \in 1..Len(r) : \A x \in h :
    FillOf(r, i, x[1]) =>
      /\ x[2] <= r[i].leaves
      /\ (\A k \in (i+1)..Len(r) : ~FillOf(r, k, x[1])) => x[2] = r[i].leaves

(* With no fill in flight the two agree. *)
NoFill(orders, r, h) ==
  \A x \in h :
    x[2] > 0 /\ (\A i \in 1..Len(r) : ~FillOf(r, i, x[1]))
      => orders[x[1]].leaves = x[2]

(* After a cancel or reject nothing is filled and the venue holds nothing. *)
Closed(r, h) ==
  \A i \in 1..Len(r) : \A id :
    CloseOf(r, i, id) =>
      /\ \A j \in (i+1)..Len(r) : ~FillOf(r, j, id)
      /\ \A x \in h : x[1] # id

Single(h) == \A x, y \in h : x[1] = y[1] => x = y

Chain(orders, r, h) ==
  /\ FillsKnown(orders, r)
  /\ HeldKnown(orders, h)
  /\ FirstFill(orders, r)
  /\ NextFill(r)
  /\ LastFill(r, h)
  /\ NoFill(orders, r, h)
  /\ Closed(r, h)
  /\ Single(h)

(* Quantities are whole lots; a fill is of at least one. *)
Lots(r, h) ==
  /\ \A i \in 1..Len(r) : r[i].kind = "Fill" =>
       r[i].qty \in Nat /\ r[i].qty > 0 /\ r[i].leaves \in Nat
  /\ \A x \in h : x[2] \in Nat

-----------------------------------------------------------------------------

(* The venue lets go of something, the OMS changes no leaves. *)
LEMMA ChainSame ==
  ASSUME NEW orders, NEW orders2, NEW r, NEW h, NEW h2 \in SUBSET h,
         DOMAIN orders2 = DOMAIN orders,
         \A id \in DOMAIN orders : orders2[id].leaves = orders[id].leaves,
         Chain(orders, r, h)
  PROVE  Chain(orders2, r, h2)
<1>1. FillsKnown(orders2, r) /\ HeldKnown(orders2, h2)
  BY DEF Chain, FillsKnown, HeldKnown
<1>2. FirstFill(orders2, r)
  BY DEF Chain, FirstFill, FillsKnown
<1>3. NoFill(orders2, r, h2)
  BY DEF Chain, NoFill, HeldKnown
<1>4. LastFill(r, h2) /\ Closed(r, h2) /\ Single(h2)
  BY DEF Chain, LastFill, Closed, Single
<1> QED BY <1>1, <1>2, <1>3, <1>4 DEF Chain

(* A fresh order is recorded by the OMS and sent to the venue. *)
LEMMA ChainSubmit ==
  ASSUME NEW orders, NEW orders2, NEW r, NEW h, NEW id, NEW qty,
         DOMAIN orders2 = DOMAIN orders \cup {id},
         \A i \in DOMAIN orders : orders2[i].leaves = orders[i].leaves,
         id \notin DOMAIN orders,
         orders2[id].leaves = qty,
         \A i \in 1..Len(r) : r[i].id # id,
         \A x \in h : x[1] # id,
         Chain(orders, r, h)
  PROVE  Chain(orders2, r, h \cup {<<id, qty>>})
<1> DEFINE h2 == h \cup {<<id, qty>>}
<1>1. FillsKnown(orders2, r) /\ HeldKnown(orders2, h2)
  BY DEF Chain, FillsKnown, HeldKnown
<1>2. FirstFill(orders2, r)
  BY DEF Chain, FirstFill, FillsKnown
<1>3. NoFill(orders2, r, h2)
  BY DEF Chain, NoFill, HeldKnown
<1>4. LastFill(r, h2) /\ Closed(r, h2)
  BY DEF Chain, LastFill, Closed, FillOf, CloseOf
<1>5. Single(h2)
  BY DEF Chain, Single
<1> QED BY <1>1, <1>2, <1>3, <1>4, <1>5 DEF Chain

(* A report that is no fill is queued; if it closes its order, the venue   *)
(* no longer holds it.                                                     *)
LEMMA ChainReport ==
  ASSUME NEW orders, NEW S, NEW r \in Seq(S), NEW h, NEW e \in S,
         e.kind # "Fill",
         e.kind \in {"Canceled", "Rejected"} => \A x \in h : x[1] # e.id,
         Chain(orders, r, h)
  PROVE  Chain(orders, Append(r, e), h)
<1> DEFINE r2 == Append(r, e)
<1>1. /\ Len(r) \in Nat /\ Len(r2) = Len(r) + 1
      /\ \A i \in 1..Len(r) : r2[i] = r[i]
      /\ r2[Len(r2)] = e
  OBVIOUS
<1>2. \A i \in 1..Len(r2) : i \in 1..Len(r) \/ i = Len(r2)
  BY <1>1
<1> HIDE DEF r2
<1>3. FillsKnown(orders, r2) /\ HeldKnown(orders, h) /\ Single(h)
  BY <1>1, <1>2 DEF Chain, FillsKnown
<1>4. FirstFill(orders, r2)
  BY <1>1, <1>2 DEF Chain, FirstFill, FillOf
<1>5. NextFill(r2)
  BY <1>1, <1>2 DEF Chain, NextFill, FillOf
<1>6. LastFill(r2, h)
  BY <1>1, <1>2 DEF Chain, LastFill, FillOf
<1>7. NoFill(orders, r2, h)
  BY <1>1, <1>2 DEF Chain, NoFill, FillOf
<1>8. Closed(r2, h)
  BY <1>1, <1>2 DEF Chain, Closed, FillOf, CloseOf
<1> QED BY <1>3, <1>4, <1>5, <1>6, <1>7, <1>8 DEF Chain, r2

(* The venue fills part of what it holds and queues the report; h2 is what *)
(* it holds then, or part of that.                                         *)
LEMMA ChainFill ==
  ASSUME NEW orders, NEW S, NEW r \in Seq(S), NEW h, NEW h2, NEW e \in S,
         e.kind = "Fill", e.qty \in Nat, e.qty > 0, e.leaves \in Nat,
         <<e.id, e.qty + e.leaves>> \in h,
         \A x \in h2 : (x \in h /\ x[1] # e.id) \/ x = <<e.id, e.leaves>>,
         Lots(r, h),
         Chain(orders, r, h)
  PROVE  Chain(orders, Append(r, e), h2)
<1> SUFFICES ASSUME NEW id, NEW q \in Nat, NEW qty \in 1..q, <<id, q>> \in h,
                    e.id = id, e.qty = qty, e.leaves = q - qty,
                    \A x \in h2 : (x \in h /\ x[1] # id) \/ x = <<id, q - qty>>
             PROVE  Chain(orders, Append(r, e), h2)
  <2> DEFINE q == e.qty + e.leaves
  <2>1. q \in Nat /\ e.qty \in 1..q /\ e.leaves = q - e.qty
    OBVIOUS
  <2> HIDE DEF q
  <2>2. /\ <<e.id, q>> \in h
        /\ \A x \in h2 : (x \in h /\ x[1] # e.id) \/ x = <<e.id, q - e.qty>>
    BY <2>1 DEF q
  <2> QED BY <2>1, <2>2
<1> DEFINE r2 == Append(r, e)
<1>1. /\ Len(r) \in Nat /\ Len(r2) = Len(r) + 1
      /\ \A i \in 1..Len(r) : r2[i] = r[i]
      /\ r2[Len(r2)] = e
  OBVIOUS
<1>2. \A i \in 1..Len(r2) : i \in 1..Len(r) \/ i = Len(r2)
  BY <1>1
<1>3. \A x \in h2 : (x \in h /\ x[1] # id) \/ x = <<id, q - qty>>
  OBVIOUS
<1>4. \A x \in h : x[1] = id => x = <<id, q>>
  BY DEF Chain, Single
<1> HIDE DEF r2
<1>5. FillsKnown(orders, r2)
  BY <1>1, <1>2 DEF Chain, FillsKnown, HeldKnown
<1>6. HeldKnown(orders, h2)
  BY <1>3 DEF Chain, HeldKnown
<1>7. FirstFill(orders, r2)
  <2> SUFFICES ASSUME NEW i \in 1..Len(r2), r2[i].kind = "Fill",
                      \A j \in 1..(i-1) : ~FillOf(r2, j, r2[i].id)
               PROVE  orders[r2[i].id].leaves = r2[i].qty + r2[i].leaves
    BY DEF FirstFill
  <2>1. CASE i \in 1..Len(r)
    BY SMTT(30), <1>1, <2>1 DEF Chain, FirstFill, FillOf
  <2>2. CASE i = Len(r2)
    <3>1. \A j \in 1..Len(r) : ~FillOf(r, j, id)
      BY <1>1, <2>2 DEF FillOf
    <3>2. orders[id].leaves = q
      <4>1. NoFill(orders, r, h) BY DEF Chain
      <4>2. \A x \in h : x[1] = id /\ x[2] = q => orders[id].leaves = q
        <5> SUFFICES ASSUME NEW x \in h, x[1] = id, x[2] = q
                     PROVE  orders[x[1]].leaves = x[2]
          OBVIOUS
        <5>1. x[2] > 0 /\ \A j \in 1..Len(r) : ~FillOf(r, j, x[1])
          BY <3>1
        <5> QED BY <4>1, <5>1 DEF NoFill
      <4> QED BY <4>2
    <3> QED BY <1>1, <2>2, <3>2
  <2> QED BY <1>2, <2>1, <2>2
<1>8. NextFill(r2)
  <2> SUFFICES ASSUME NEW i \in 1..Len(r2), NEW j \in 1..Len(r2), i < j,
                      r2[i].kind = "Fill", FillOf(r2, j, r2[i].id)
               PROVE  /\ r2[j].qty + r2[j].leaves <= r2[i].leaves
                      /\ (\A k \in (i+1)..(j-1) : ~FillOf(r2, k, r2[i].id))
                           => r2[j].qty + r2[j].leaves = r2[i].leaves
    BY DEF NextFill
  <2>1. CASE j \in 1..Len(r)
    <3>1. /\ i \in 1..Len(r) /\ r2[i] = r[i] /\ r2[j] = r[j]
          /\ FillOf(r, j, r[i].id)
      BY <1>1, <2>1 DEF FillOf
    <3>2. (\A k \in (i+1)..(j-1) : ~FillOf(r2, k, r2[i].id))
             => \A k \in (i+1)..(j-1) : ~FillOf(r, k, r[i].id)
      <4> SUFFICES ASSUME NEW k \in (i+1)..(j-1), FillOf(r, k, r[i].id)
                   PROVE  FillOf(r2, k, r2[i].id)
        OBVIOUS
      <4>1. k \in 1..Len(r)
        BY <1>1, <2>1
      <4>2. r2[k] = r[k]
        BY <1>1, <4>1
      <4> QED BY <3>1, <4>2 DEF FillOf
    <3>3. NextFill(r) BY DEF Chain
    <3> QED BY <2>1, <3>1, <3>2, <3>3 DEF NextFill
  <2>2. CASE j = Len(r2)
    <3>1. i \in 1..Len(r) /\ FillOf(r, i, id)
      BY <1>1, <2>2 DEF FillOf
    <3>2. q <= r[i].leaves
      BY <3>1 DEF Chain, LastFill
    <3>3. (\A k \in (i+1)..Len(r) : ~FillOf(r, k, id)) => q = r[i].leaves
      BY <3>1 DEF Chain, LastFill
    <3>4. r2[j].qty + r2[j].leaves = q
      BY <1>1, <2>2
    <3> QED BY <1>1, <2>2, <3>1, <3>2, <3>3, <3>4 DEF FillOf
  <2> QED BY <1>2, <2>1, <2>2
<1>9. LastFill(r2, h2)
  <2> SUFFICES ASSUME NEW i \in 1..Len(r2), NEW x \in h2, FillOf(r2, i, x[1])
               PROVE  /\ x[2] <= r2[i].leaves
                      /\ (\A k \in (i+1)..Len(r2) : ~FillOf(r2, k, x[1]))
                           => x[2] = r2[i].leaves
    BY DEF LastFill
  <2>1. CASE x \in h /\ x[1] # id
    <3>1. i \in 1..Len(r) /\ FillOf(r, i, x[1])
      BY <1>1, <1>2, <2>1 DEF FillOf
    <3> QED BY SMTT(30), <1>1, <2>1, <3>1 DEF Chain, LastFill, FillOf
  <2>2. CASE x = <<id, q - qty>> /\ i = Len(r2)
    BY <1>1, <2>2
  <2>3. CASE x = <<id, q - qty>> /\ i \in 1..Len(r)
    <3>1. FillOf(r, i, id) /\ r[i].leaves \in Nat
      BY <1>1, <2>3 DEF FillOf, Lots
    <3>2. q <= r[i].leaves
      BY <2>3, <3>1 DEF Chain, LastFill
    <3>3. FillOf(r2, Len(r2), id) /\ Len(r2) \in (i+1)..Len(r2)
      BY <1>1, <2>3 DEF FillOf
    <3>4. x[1] = id /\ x[2] = q - qty
      BY <2>3
    <3>5. ~\A k \in (i+1)..Len(r2) : ~FillOf(r2, k, x[1])
      BY <3>3, <3>4
    <3>6. x[2] <= r2[i].leaves
      BY <1>1, <2>3, <3>1, <3>2, <3>4
    <3> QED BY <3>5, <3>6
  <2> QED BY <1>2, <1>3, <2>1, <2>2, <2>3
<1>10. NoFill(orders, r2, h2)
  <2>1. FillOf(r2, Len(r2), id) /\ Len(r2) \in 1..Len(r2)
    BY <1>1 DEF FillOf
  <2> QED BY <1>1, <1>3, <2>1 DEF Chain, NoFill, FillOf
<1>11. Closed(r2, h2)
  <2> SUFFICES ASSUME NEW i \in 1..Len(r2), NEW c, CloseOf(r2, i, c)
               PROVE  /\ \A j \in (i+1)..Len(r2) : ~FillOf(r2, j, c)
                      /\ \A x \in h2 : x[1] # c
    BY DEF Closed
  <2>1. i \in 1..Len(r) /\ CloseOf(r, i, c)
    BY <1>1, <1>2 DEF CloseOf
  <2>2. /\ \A j \in (i+1)..Len(r) : ~FillOf(r, j, c)
        /\ \A x \in h : x[1] # c
    BY <2>1 DEF Chain, Closed
  <2>3. c # id
    BY <2>2
  <2>4. \A x \in h2 : x[1] # c
    BY <1>3, <2>2, <2>3
  <2>5. ASSUME NEW j \in (i+1)..Len(r2) PROVE ~FillOf(r2, j, c)
    <3>1. CASE j = Len(r2)
      BY <1>1, <2>3, <3>1 DEF FillOf
    <3>2. CASE j # Len(r2)
      <4>1. j \in (i+1)..Len(r) /\ r2[j] = r[j]
        BY <1>1, <2>1, <3>2
      <4> QED BY <2>2, <4>1 DEF FillOf
    <3> QED BY <3>1, <3>2
  <2> QED BY <2>4, <2>5
<1>12. Single(h2)
  BY <1>3 DEF Chain, Single
<1> QED BY <1>5, <1>6, <1>7, <1>8, <1>9, <1>10, <1>11, <1>12 DEF Chain, r2

(* What holds of the reports among themselves and of the venue survives    *)
(* the removal of the oldest one.                                          *)
LEMMA TailKeeps ==
  ASSUME NEW S, NEW r \in Seq(S), r # <<>>, NEW h,
         NextFill(r), LastFill(r, h), Closed(r, h)
  PROVE  NextFill(Tail(r)) /\ LastFill(Tail(r), h) /\ Closed(Tail(r), h)
<1> DEFINE r2 == Tail(r)
<1>1. /\ Len(r) \in Nat /\ Len(r) >= 1 /\ Len(r2) = Len(r) - 1
      /\ \A i \in 1..Len(r2) : r2[i] = r[i+1] /\ i+1 \in 1..Len(r)
  OBVIOUS
<1>2. \A k \in 1..Len(r) : k = 1 \/ (k-1 \in 1..Len(r2) /\ r2[k-1] = r[k])
  BY <1>1
<1> HIDE DEF r2
<1>8. NextFill(r2)
  <2> SUFFICES ASSUME NEW i \in 1..Len(r2), NEW j \in 1..Len(r2), i < j,
                      r2[i].kind = "Fill", FillOf(r2, j, r2[i].id)
               PROVE  /\ r2[j].qty + r2[j].leaves <= r2[i].leaves
                      /\ (\A k \in (i+1)..(j-1) : ~FillOf(r2, k, r2[i].id))
                           => r2[j].qty + r2[j].leaves = r2[i].leaves
    BY DEF NextFill
  <2>1. /\ i+1 \in 1..Len(r) /\ j+1 \in 1..Len(r) /\ i+1 < j+1
        /\ r2[i] = r[i+1] /\ r2[j] = r[j+1]
    BY <1>1
  <2>2. (\A k \in (i+1)..(j-1) : ~FillOf(r2, k, r2[i].id))
          => \A k \in ((i+1)+1)..((j+1)-1) : ~FillOf(r, k, r2[i].id)
    <3> SUFFICES ASSUME \A k \in (i+1)..(j-1) : ~FillOf(r2, k, r2[i].id),
                        NEW k \in ((i+1)+1)..((j+1)-1)
                 PROVE  ~FillOf(r, k, r2[i].id)
      OBVIOUS
    <3>1. k-1 \in (i+1)..(j-1) /\ k-1 \in 1..Len(r2) /\ r2[k-1] = r[k]
      BY <1>1, <1>2
    <3> QED BY <3>1 DEF FillOf
  <2> QED BY <2>1, <2>2 DEF NextFill, FillOf
<1>9. LastFill(r2, h)
  <2> SUFFICES ASSUME NEW i \in 1..Len(r2), NEW x \in h, FillOf(r2, i, x[1])
               PROVE  /\ x[2] <= r2[i].leaves
                      /\ (\A k \in (i+1)..Len(r2) : ~FillOf(r2, k, x[1]))
                           => x[2] = r2[i].leaves
    BY DEF LastFill
  <2>1. i+1 \in 1..Len(r) /\ r2[i] = r[i+1]
    BY <1>1
  <2>2. (\A k \in (i+1)..Len(r2) : ~FillOf(r2, k, x[1]))
          => \A k \in ((i+1)+1)..Len(r) : ~FillOf(r, k, x[1])
    <3> SUFFICES ASSUME \A k \in (i+1)..Len(r2) : ~FillOf(r2, k, x[1]),
                        NEW k \in ((i+1)+1)..Len(r)
                 PROVE  ~FillOf(r, k, x[1])
      OBVIOUS
    <3>1. k-1 \in (i+1)..Len(r2) /\ r2[k-1] = r[k]
      BY <1>1, <1>2
    <3> QED BY <3>1 DEF FillOf
  <2> QED BY <2>1, <2>2 DEF LastFill, FillOf
<1>11. Closed(r2, h)
  <2> SUFFICES ASSUME NEW i \in 1..Len(r2), NEW c, CloseOf(r2, i, c)
               PROVE  /\ \A j \in (i+1)..Len(r2) : ~FillOf(r2, j, c)
                      /\ \A x \in h : x[1] # c
    BY DEF Closed
  <2>1. i+1 \in 1..Len(r) /\ CloseOf(r, i+1, c)
    BY <1>1 DEF CloseOf
  <2>2. \A j \in (i+1)..Len(r2) : j+1 \in ((i+1)+1)..Len(r) /\ r2[j] = r[j+1]
    BY <1>1
  <2> QED BY <2>1, <2>2 DEF Closed, FillOf
<1> QED BY <1>8, <1>9, <1>11 DEF r2

(* The OMS applies the oldest report, a fill: it believes what the report  *)
(* says is left and forgets an order with nothing left.                    *)
LEMMA ChainApplyFill ==
  ASSUME NEW orders, NEW orders2, NEW S, NEW r \in Seq(S), r # <<>>, NEW h,
         Lots(r, h),
         Chain(orders, r, h),
         r[1].kind = "Fill",
         DOMAIN orders2 = IF r[1].leaves = 0 THEN DOMAIN orders \ {r[1].id}
                          ELSE DOMAIN orders,
         r[1].leaves # 0 => orders2[r[1].id].leaves = r[1].leaves,
         \A i \in DOMAIN orders2 :
           i # r[1].id => orders2[i].leaves = orders[i].leaves
  PROVE  Chain(orders2, Tail(r), h)
<1> SUFFICES
      ASSUME NEW id, id = r[1].id,
             r[1].leaves # 0 => /\ DOMAIN orders2 = DOMAIN orders
                                /\ orders2[id].leaves = r[1].leaves,
             r[1].leaves = 0 => DOMAIN orders2 = DOMAIN orders \ {id},
             \A i \in DOMAIN orders2 : i # id => orders2[i].leaves = orders[i].leaves
      PROVE  Chain(orders2, Tail(r), h)
  OBVIOUS
<1> DEFINE r2 == Tail(r)
<1>1. /\ Len(r) \in Nat /\ Len(r) >= 1 /\ Len(r2) = Len(r) - 1
      /\ \A i \in 1..Len(r2) : r2[i] = r[i+1] /\ i+1 \in 1..Len(r)
  OBVIOUS
<1>2. \A k \in 1..Len(r) : k = 1 \/ (k-1 \in 1..Len(r2) /\ r2[k-1] = r[k])
  BY <1>1
<1> HIDE DEF r2
<1>3. FillOf(r, 1, id) /\ 1 \in 1..Len(r)
  BY <1>1 DEF FillOf
<1>4. r[1].leaves = 0 => \A j \in 1..Len(r2) : ~FillOf(r2, j, id)
  <2> SUFFICES ASSUME r[1].leaves = 0, NEW j \in 1..Len(r2), FillOf(r2, j, id)
               PROVE FALSE
    OBVIOUS
  <2>1. FillOf(r, j+1, id) /\ j+1 \in 1..Len(r) /\ 1 < j+1
    BY <1>1 DEF FillOf
  <2>2. r[j+1].qty + r[j+1].leaves <= r[1].leaves
    BY <1>3, <2>1 DEF Chain, NextFill, FillOf
  <2> QED BY <2>1, <2>2 DEF Lots, FillOf
<1>5. FillsKnown(orders2, r2)
  BY <1>1, <1>4 DEF Chain, FillsKnown, FillOf
<1>6. HeldKnown(orders2, h)
  <2> SUFFICES ASSUME NEW x \in h, x[2] > 0 PROVE x[1] \in DOMAIN orders2
    BY DEF HeldKnown
  <2>1. x[1] = id => x[2] <= r[1].leaves
    BY <1>3 DEF Chain, LastFill
  <2> QED BY <2>1 DEF Chain, HeldKnown, Lots
<1>7. FirstFill(orders2, r2)
  <2> SUFFICES ASSUME NEW i \in 1..Len(r2), r2[i].kind = "Fill",
                      \A j \in 1..(i-1) : ~FillOf(r2, j, r2[i].id)
               PROVE  orders2[r2[i].id].leaves = r2[i].qty + r2[i].leaves
    BY DEF FirstFill
  <2>1. r2[i] = r[i+1] /\ i+1 \in 1..Len(r) /\ 1 < i+1
    BY <1>1
  <2>2. \A k \in 2..i : ~FillOf(r, k, r2[i].id)
    <3> SUFFICES ASSUME NEW k \in 2..i PROVE ~FillOf(r, k, r2[i].id)
      OBVIOUS
    <3>1. k-1 \in 1..(i-1) /\ k-1 \in 1..Len(r2) /\ r2[k-1] = r[k]
      BY <1>1, <1>2
    <3> QED BY <3>1 DEF FillOf
  <2>3. CASE r2[i].id = id
    <3>1. FillOf(r, i+1, id) BY <2>1, <2>3 DEF FillOf
    <3>2. \A k \in (1+1)..((i+1)-1) : ~FillOf(r, k, r[1].id)
      BY <2>2, <2>3
    <3>3. r[i+1].qty + r[i+1].leaves = r[1].leaves
      BY <1>3, <2>1, <3>1, <3>2 DEF Chain, NextFill, FillOf
    <3>4. r[1].leaves # 0
      BY <1>4, <3>1, <2>1 DEF FillOf
    <3> QED BY <2>1, <2>3, <3>3, <3>4
  <2>4. CASE r2[i].id # id
    <3>1. \A j \in 1..((i+1)-1) : ~FillOf(r, j, r[i+1].id)
      BY <1>1, <2>1, <2>2, <2>4 DEF FillOf
    <3>2. orders[r2[i].id].leaves = r2[i].qty + r2[i].leaves
      BY <2>1, <3>1 DEF Chain, FirstFill
    <3>3. r2[i].id \in DOMAIN orders2
      BY <1>5 DEF FillsKnown
    <3> QED BY <2>4, <3>2, <3>3
  <2> QED BY <2>3, <2>4
<1>8. NextFill(r2) /\ LastFill(r2, h) /\ Closed(r2, h)
  BY TailKeeps DEF Chain, r2
<1>10. NoFill(orders2, r2, h)
  <2> SUFFICES ASSUME NEW x \in h, x[2] > 0,
                      \A i \in 1..Len(r2) : ~FillOf(r2, i, x[1])
               PROVE  orders2[x[1]].leaves = x[2]
    BY DEF NoFill
  <2>1. \A k \in 2..Len(r) : ~FillOf(r, k, x[1])
    BY <1>1, <1>2 DEF FillOf
  <2>2. CASE x[1] = id
    <3>1. x[2] = r[1].leaves
      BY <1>3, <2>1, <2>2 DEF Chain, LastFill
    <3> QED BY <2>2, <3>1
  <2>3. CASE x[1] # id
    <3>1. \A k \in 1..Len(r) : ~FillOf(r, k, x[1])
      BY <1>1, <2>1, <2>3 DEF FillOf
    <3> QED BY <1>6, <2>3, <3>1 DEF Chain, NoFill, HeldKnown
  <2> QED BY <2>2, <2>3
<1> QED BY <1>5, <1>6, <1>7, <1>8, <1>10 DEF Chain, r2

(* The OMS applies the oldest report, no fill: it forgets the order only   *)
(* if the report closed it.                                                *)
LEMMA ChainApplyOther ==
  ASSUME NEW orders, NEW orders2, NEW S, NEW r \in Seq(S), r # <<>>, NEW h,
         NEW id, id = r[1].id, r[1].kind # "Fill",
         \/ DOMAIN orders2 = DOMAIN orders
         \/ DOMAIN orders2 = DOMAIN orders \ {id} /\ CloseOf(r, 1, id),
         \A i \in DOMAIN orders2 : orders2[i].leaves = orders[i].leaves,
         Chain(orders, r, h)
  PROVE  Chain(orders2, Tail(r), h)
<1> DEFINE r2 == Tail(r)
<1>1. /\ Len(r) \in Nat /\ Len(r) >= 1 /\ Len(r2) = Len(r) - 1
      /\ \A i \in 1..Len(r2) : r2[i] = r[i+1] /\ i+1 \in 1..Len(r)
  OBVIOUS
<1>2. \A k \in 1..Len(r) : k = 1 \/ (k-1 \in 1..Len(r2) /\ r2[k-1] = r[k])
  BY <1>1
<1> HIDE DEF r2
<1>3. id \in DOMAIN orders \ DOMAIN orders2 =>
        /\ \A j \in 2..Len(r) : ~FillOf(r, j, id)
        /\ \A x \in h : x[1] # id
  BY <1>1 DEF Chain, Closed
<1>4. \A i \in DOMAIN orders : i # id => i \in DOMAIN orders2
  OBVIOUS
<1>5. FillsKnown(orders2, r2)
  <2> SUFFICES ASSUME NEW i \in 1..Len(r2), r2[i].kind = "Fill"
               PROVE  r2[i].id \in DOMAIN orders2
    BY DEF FillsKnown
  <2>1. r2[i] = r[i+1] /\ i+1 \in 2..Len(r) /\ FillOf(r, i+1, r2[i].id)
    BY <1>1 DEF FillOf
  <2>2. r2[i].id \in DOMAIN orders
    BY <2>1 DEF Chain, FillsKnown, FillOf
  <2> QED BY <1>3, <1>4, <2>1, <2>2
<1>6. HeldKnown(orders2, h)
  BY <1>3, <1>4 DEF Chain, HeldKnown
<1>7. FirstFill(orders2, r2)
  <2> SUFFICES ASSUME NEW i \in 1..Len(r2), r2[i].kind = "Fill",
                      \A j \in 1..(i-1) : ~FillOf(r2, j, r2[i].id)
               PROVE  orders2[r2[i].id].leaves = r2[i].qty + r2[i].leaves
    BY DEF FirstFill
  <2>1. r2[i] = r[i+1] /\ i+1 \in 1..Len(r)
    BY <1>1
  <2>2. \A k \in 1..((i+1)-1) : ~FillOf(r, k, r[i+1].id)
    <3> SUFFICES ASSUME NEW k \in 1..i PROVE ~FillOf(r, k, r[i+1].id)
      BY <1>1
    <3>1. k = 1 \/ (k-1 \in 1..(i-1) /\ r2[k-1] = r[k])
      BY <1>1, <1>2
    <3> QED BY <2>1, <3>1 DEF FillOf
  <2>3. orders[r2[i].id].leaves = r2[i].qty + r2[i].leaves
    BY <2>1, <2>2 DEF Chain, FirstFill
  <2> QED BY <1>5, <2>3 DEF FillsKnown
<1>8. NextFill(r2) /\ LastFill(r2, h) /\ Closed(r2, h)
  BY TailKeeps DEF Chain, r2
<1>9. NoFill(orders2, r2, h)
  <2> SUFFICES ASSUME NEW x \in h, x[2] > 0,
                      \A i \in 1..Len(r2) : ~FillOf(r2, i, x[1])
               PROVE  orders2[x[1]].leaves = x[2]
    BY DEF NoFill
  <2>1. \A k \in 1..Len(r) : ~FillOf(r, k, x[1])
    BY <1>2 DEF FillOf
  <2>2. orders[x[1]].leaves = x[2]
    BY <2>1 DEF Chain, NoFill
  <2> QED BY <1>6, <2>2 DEF HeldKnown
<1> QED BY <1>5, <1>6, <1>7, <1>8, <1>9 DEF Chain, r2

(* The last fill of id among the first n reports. *)
LastFillOf(r, k, id, n) ==
  /\ k \in 1..n /\ FillOf(r, k, id)
  /\ \A m \in (k+1)..n : ~FillOf(r, m, id)

(* The fills in flight add up to what the order had left before the first  *)
(* less what it has left after the last.                                   *)
LEMMA FillsAddUp ==
  ASSUME NEW S, NEW r \in Seq(S), NEW orders, NEW id, NEW ours \in Nat,
         orders[id].leaves = ours, Lots(r, {}),
         FirstFill(orders, r), NextFill(r)
  PROVE  /\ (\A i \in 1..Len(r) : ~FillOf(r, i, id)) => FilledIn(r, id) = 0
         /\ \A k \in 1..Len(r) :
              LastFillOf(r, k, id, Len(r)) => FilledIn(r, id) = ours - r[k].leaves
<1> DEFINE n == Len(r)
           None(i) == \A k \in 1..i : ~FillOf(r, k, id)
           g == [i \in 0..n |->
                   IF None(i) THEN 0
                   ELSE ours - r[CHOOSE k \in 1..i : LastFillOf(r, k, id, i)].leaves]
           f == [i \in 1..n |-> IF r[i].kind = "Fill" /\ r[i].id = id
                                THEN r[i].qty ELSE 0]
<1>1. n \in Nat
  OBVIOUS
<1> HIDE DEF n
<1>2. ASSUME NEW i \in 1..n, FillOf(r, i, id)
      PROVE  r[i].qty \in Nat /\ r[i].leaves \in Nat /\ f[i] = r[i].qty
  BY <1>2 DEF FillOf, Lots, n
<1>3. ASSUME NEW i \in 1..n, ~FillOf(r, i, id)
      PROVE  f[i] = 0
  BY <1>3 DEF FillOf
<1>4. ASSUME NEW i \in 0..n, ~None(i)
      PROVE  \E k \in 1..i : LastFillOf(r, k, id, i)
  <2> DEFINE T == {k \in 1..i : FillOf(r, k, id)}
  <2>1. PICK m \in T : \A k \in T : k <= m
    <3>1. T \in SUBSET (0..i) /\ T # {} /\ i \in Nat
      BY <1>1, <1>4
    <3> HIDE DEF T
    <3> QED BY <3>1, GreatestNat
  <2>2. m \in 1..i /\ FillOf(r, m, id)
    OBVIOUS
  <2>3. ASSUME NEW k \in (m+1)..i PROVE ~FillOf(r, k, id)
    BY <2>1, <2>2
  <2> QED BY <2>2, <2>3 DEF LastFillOf
<1>5. ASSUME NEW i \in 0..n, NEW k, LastFillOf(r, k, id, i)
      PROVE  ~None(i) /\ g[i] = ours - r[k].leaves
  <2>1. k \in 1..i /\ FillOf(r, k, id)
    BY <1>5 DEF LastFillOf
  <2> DEFINE l == CHOOSE m \in 1..i : LastFillOf(r, m, id, i)
  <2>2. LastFillOf(r, l, id, i)
    BY <1>5, <2>1
  <2>3. g[i] = ours - r[l].leaves
    BY <2>1
  <2>4. l = k
    <3> HIDE DEF l
    <3> QED BY <1>1, <1>5, <2>2 DEF LastFillOf
  <2> QED BY <2>1, <2>3, <2>4
<1>6. ASSUME NEW i \in 0..n, None(i) PROVE g[i] = 0
  BY <1>6
<1>7. ASSUME NEW i \in 0..n PROVE g[i] \in Int
  <2>1. CASE None(i)
    BY <1>6, <2>1
  <2>2. CASE ~None(i)
    <3>1. PICK k \in 1..i : LastFillOf(r, k, id, i)
      BY <1>4, <2>2
    <3>2. k \in 1..n /\ FillOf(r, k, id)
      BY <1>1, <3>1 DEF LastFillOf
    <3>3. r[k].leaves \in Nat
      BY <1>2, <3>2
    <3> HIDE DEF g
    <3>4. g[i] = ours - r[k].leaves
      BY <1>5, <3>1
    <3> QED BY <3>3, <3>4
  <2> QED BY <2>1, <2>2
<1>8. g \in [0..n -> Int]
  <2>1. g = [i \in 0..n |-> g[i]]
    OBVIOUS
  <2> HIDE DEF g
  <2> QED BY <1>7, <2>1
<1>9. g[0] = 0
  BY <1>1, <1>6
<1>10. ASSUME NEW i \in 1..n PROVE g[i] = g[i-1] + f[i]
  <2>1. i-1 \in 0..n /\ i \in 0..n /\ i-1 \in Nat
    BY <1>1
  <2>2. g[i-1] \in Int
    BY <1>7, <2>1
  <2>3. CASE ~FillOf(r, i, id)
    <3>1. f[i] = 0
      BY <1>3, <2>3
    <3>2. CASE None(i-1)
      <4>1. None(i)
        BY <2>3, <3>2
      <4>2. g[i-1] = 0 /\ g[i] = 0
        BY <1>6, <2>1, <3>2, <4>1
      <4> HIDE DEF g, f
      <4> QED BY <3>1, <4>2
    <3>3. CASE ~None(i-1)
      <4>1. PICK k \in 1..(i-1) : LastFillOf(r, k, id, i-1)
        BY <1>4, <2>1, <3>3
      <4>2. LastFillOf(r, k, id, i)
        BY <2>3, <4>1 DEF LastFillOf
      <4>3. g[i-1] = ours - r[k].leaves /\ g[i] = ours - r[k].leaves
        BY <1>5, <2>1, <4>1, <4>2
      <4> HIDE DEF g, f
      <4> QED BY <2>2, <3>1, <4>3
    <3> QED BY <3>2, <3>3
  <2>4. CASE FillOf(r, i, id)
    <3>1. /\ r[i].qty \in Nat /\ r[i].leaves \in Nat /\ f[i] = r[i].qty
          /\ r[i].kind = "Fill" /\ r[i].id = id
      BY <1>2, <2>4 DEF FillOf
    <3>2. g[i] = ours - r[i].leaves
      <4>1. LastFillOf(r, i, id, i)
        BY <2>1, <2>4 DEF LastFillOf
      <4> QED BY <1>5, <2>1, <4>1
    <3>3. CASE None(i-1)
      <4>1. ours = r[i].qty + r[i].leaves
        BY <3>1, <3>3 DEF FirstFill, n
      <4>2. g[i-1] = 0
        BY <1>6, <2>1, <3>3
      <4> HIDE DEF g, f
      <4> QED BY <3>1, <3>2, <4>1, <4>2
    <3>4. CASE ~None(i-1)
      <4>1. PICK k \in 1..(i-1) : LastFillOf(r, k, id, i-1)
        BY <1>4, <2>1, <3>4
      <4>2. /\ k \in 1..n /\ k < i /\ r[k].kind = "Fill" /\ r[k].id = id
            /\ \A m \in (k+1)..(i-1) : ~FillOf(r, m, r[k].id)
        BY <1>1, <4>1 DEF LastFillOf, FillOf
      <4>3. r[i].qty + r[i].leaves = r[k].leaves
        BY <2>4, <4>2 DEF NextFill, n
      <4>4. g[i-1] = ours - r[k].leaves
        BY <1>5, <2>1, <4>1
      <4> HIDE DEF g, f
      <4> QED BY <3>1, <3>2, <4>3, <4>4
    <3> QED BY <3>3, <3>4
  <2> QED BY <2>3, <2>4
<1>11. SumUpTo(f, n) = g[n]
  <2> HIDE DEF f, g
  <2> QED BY <1>1, <1>8, <1>9, <1>10, SumUpToIs
<1>12. FilledIn(r, id) = g[n]
  BY <1>11 DEF FilledIn, n
<1>13. n \in 0..n
  BY <1>1
<1>14. None(n) => FilledIn(r, id) = 0
  BY <1>6, <1>12, <1>13
<1>15. ASSUME NEW k \in 1..n, LastFillOf(r, k, id, n)
       PROVE  FilledIn(r, id) = ours - r[k].leaves
  <2> HIDE DEF g
  <2> QED BY <1>5, <1>12, <1>13, <1>15
<1> QED BY <1>14, <1>15 DEF n

-----------------------------------------------------------------------------

USE RiskAssumption, VenueAssumption, OrderEntryAssumption

-----------------------------------------------------------------------------
(* Types. *)

LEMMA WithoutType ==
  ASSUME NEW S, NEW T, NEW f, NEW x, IsPartialFunction(f, S, T)
  PROVE  IsPartialFunction(Without(f, x), S, T)
<1> DEFINE g == Without(f, x)
<1>1. g = [y \in DOMAIN f \ {x} |-> f[y]]
  BY DEF Without
<1> HIDE DEF g
<1>2. DOMAIN g = DOMAIN f \ {x} /\ \A y \in DOMAIN f \ {x} : g[y] = f[y]
  BY <1>1
<1>3. g = [y \in DOMAIN g |-> g[y]]
  BY <1>1, <1>2
<1> QED BY <1>2, <1>3 DEF IsPartialFunction, g

LEMMA WithType ==
  ASSUME NEW S, NEW T, NEW f, NEW x \in S, NEW v \in T, IsPartialFunction(f, S, T)
  PROVE  IsPartialFunction(With(f, x, v), S, T)
<1> DEFINE g == With(f, x, v)
<1>1. g = [y \in DOMAIN f \cup {x} |-> IF y = x THEN v ELSE f[y]]
  BY DEF With
<1> HIDE DEF g
<1>2. /\ DOMAIN g = DOMAIN f \cup {x}
      /\ g[x] = v
      /\ \A y \in DOMAIN f : y # x => g[y] = f[y]
  BY <1>1
<1>3. g = [y \in DOMAIN g |-> g[y]]
  BY <1>1, <1>2
<1> QED BY <1>2, <1>3 DEF IsPartialFunction, g

LEMMA ShiftType ==
  ASSUME NEW open \in [Side -> Int], NEW side \in Side, NEW qty \in Int
  PROVE  /\ Shift(open, side, qty) \in [Side -> Int]
         /\ Shift(open, side, qty)[side] = open[side] + qty
         /\ \A s \in Side : s # side => Shift(open, side, qty)[s] = open[s]
BY DEF Shift

(* The OMS record, field by field. *)
LEMMA OmsFields ==
  ASSUME NEW orders, NEW next, NEW position, NEW cash, NEW open,
         IsPartialFunction(orders, OrderId, Order),
         next \in 1..(MaxOrders + 1), position \in Int, cash \in Int,
         open \in [Side -> Int]
  PROVE  IsOms([orders |-> orders, next_cl_id |-> next,
                position |-> position, cash |-> cash, open |-> open])
BY DEF IsOms

(* What each method of the OMS does to each field. *)
LEMMA RemoveEffect ==
  ASSUME NEW o, IsOms(o), NEW id \in DOMAIN o.orders
  PROVE  RemoveOrder(o, id) =
           [orders |-> Without(o.orders, id), next_cl_id |-> o.next_cl_id,
            position |-> o.position, cash |-> o.cash,
            open |-> Shift(o.open, o.orders[id].side, -o.orders[id].leaves)]
BY DEF RemoveOrder, IsOms

LEMMA FillEffect ==
  ASSUME NEW o, IsOms(o), NEW e, e.id \in DOMAIN o.orders
  PROVE  OnFill(o, e) =
           [orders |-> IF e.leaves = 0 THEN Without(o.orders, e.id)
                       ELSE With(o.orders, e.id,
                                 [o.orders[e.id] EXCEPT !.leaves = e.leaves]),
            next_cl_id |-> o.next_cl_id,
            position |-> o.position + Sign(o.orders[e.id].side) * e.qty,
            cash |-> o.cash - Sign(o.orders[e.id].side) * e.qty * e.price,
            open |-> Shift(o.open, o.orders[e.id].side, -e.qty)]
BY DEF OnFill, IsOms

LEMMA AckEffect ==
  ASSUME NEW o, IsOms(o), NEW id \in DOMAIN o.orders
  PROVE  \E status \in {"Live", o.orders[id].status} :
         OnAck(o, id) =
           [orders |-> With(o.orders, id,
                            [o.orders[id] EXCEPT !.acked = TRUE,
                                                 !.status = status]),
            next_cl_id |-> o.next_cl_id, position |-> o.position,
            cash |-> o.cash, open |-> o.open]
BY DEF OnAck, IsOms

LEMMA SetStatusEffect ==
  ASSUME NEW o, IsOms(o), NEW id \in DOMAIN o.orders, NEW status
  PROVE  SetStatus(o, id, status) =
           [orders |-> With(o.orders, id,
                            [o.orders[id] EXCEPT !.status = status]),
            next_cl_id |-> o.next_cl_id, position |-> o.position,
            cash |-> o.cash, open |-> o.open]
BY DEF SetStatus, IsOms

LEMMA NewSentEffect ==
  ASSUME NEW o, IsOms(o), NEW id, NEW side, NEW price, NEW qty, NEW p,
         p = OnNewSent(NextClId(o), id, side, price, qty)
  PROVE  p = [orders |-> With(o.orders, id, NewOrder(side, price, qty)),
              next_cl_id |-> o.next_cl_id + 1, position |-> o.position,
              cash |-> o.cash, open |-> Shift(o.open, side, qty)]
<1> DEFINE q == NextClId(o)
<1>1. ASSUME NEW r, r = q
      PROVE  r = [orders |-> o.orders, next_cl_id |-> o.next_cl_id + 1,
                  position |-> o.position, cash |-> o.cash, open |-> o.open]
  BY <1>1 DEF NextClId, IsOms
<1>2. q = [orders |-> o.orders, next_cl_id |-> o.next_cl_id + 1,
                  position |-> o.position, cash |-> o.cash, open |-> o.open]
  BY <1>1
<1>3. p = OnNewSent(q, id, side, price, qty)
  OBVIOUS
<1> HIDE DEF q
<1> QED BY <1>2, <1>3 DEF OnNewSent

(* The facts about an order of the OMS. *)
LEMMA OrderFacts ==
  ASSUME NEW o, IsOms(o), NEW id \in DOMAIN o.orders
  PROVE  /\ id \in OrderId /\ o.orders[id] \in Order
         /\ o.orders[id].side \in Side
         /\ o.orders[id].leaves \in Nat /\ o.orders[id].leaves > 0
BY DEF IsOms, IsPartialFunction, Order

(* The three things a report can do to the account: nothing, close an      *)
(* order, or fill one.                                                     *)
Unmoved(o, p) ==
  /\ DOMAIN p.orders = DOMAIN o.orders
  /\ \A i \in DOMAIN o.orders : /\ p.orders[i].side = o.orders[i].side
                                /\ p.orders[i].leaves = o.orders[i].leaves
  /\ p.next_cl_id = o.next_cl_id
  /\ p.position = o.position
  /\ p.open = o.open

Dropped(o, p, id) ==
  /\ id \in DOMAIN o.orders
  /\ DOMAIN p.orders = DOMAIN o.orders \ {id}
  /\ \A i \in DOMAIN p.orders : p.orders[i] = o.orders[i]
  /\ p.next_cl_id = o.next_cl_id
  /\ p.position = o.position
  /\ p.open[o.orders[id].side] = o.open[o.orders[id].side] - o.orders[id].leaves
  /\ \A s \in Side : s # o.orders[id].side => p.open[s] = o.open[s]

Filled(o, p, e) ==
  /\ e.id \in DOMAIN o.orders
  /\ DOMAIN p.orders = IF e.leaves = 0 THEN DOMAIN o.orders \ {e.id}
                       ELSE DOMAIN o.orders
  /\ \A i \in DOMAIN p.orders : i # e.id => p.orders[i] = o.orders[i]
  /\ e.leaves # 0 => /\ p.orders[e.id].side = o.orders[e.id].side
                     /\ p.orders[e.id].leaves = e.leaves
  /\ p.next_cl_id = o.next_cl_id
  /\ p.position = o.position + Sign(o.orders[e.id].side) * e.qty
  /\ p.open[o.orders[e.id].side] = o.open[o.orders[e.id].side] - e.qty
  /\ \A s \in Side : s # o.orders[e.id].side => p.open[s] = o.open[s]

LEMMA OrderChanged ==
  ASSUME NEW o, IsOms(o), NEW id \in DOMAIN o.orders, NEW order \in Order,
         order.side = o.orders[id].side, order.leaves = o.orders[id].leaves,
         NEW p,
         p = [orders |-> With(o.orders, id, order),
              next_cl_id |-> o.next_cl_id, position |-> o.position,
              cash |-> o.cash, open |-> o.open]
  PROVE  IsOms(p) /\ Unmoved(o, p)
<1>1. /\ IsPartialFunction(o.orders, OrderId, Order) /\ id \in OrderId
      /\ o.next_cl_id \in 1..(MaxOrders + 1) /\ o.position \in Int
      /\ o.cash \in Int /\ o.open \in [Side -> Int]
  BY OrderFacts DEF IsOms
<1> DEFINE f == With(o.orders, id, order)
<1>2. /\ IsPartialFunction(f, OrderId, Order)
      /\ DOMAIN f = DOMAIN o.orders \cup {id}
      /\ f[id] = order
      /\ \A y \in DOMAIN o.orders : y # id => f[y] = o.orders[y]
  <2>1. IsPartialFunction(f, OrderId, Order)
    BY <1>1, WithType
  <2> QED BY <2>1 DEF With
<1> HIDE DEF f
<1>3. p = [orders |-> f, next_cl_id |-> o.next_cl_id,
           position |-> o.position, cash |-> o.cash, open |-> o.open]
  BY DEF f
<1>4. IsOms(p)
  BY <1>1, <1>2, <1>3, OmsFields
<1>5. /\ p.orders = f /\ p.next_cl_id = o.next_cl_id /\ p.position = o.position
      /\ p.open = o.open
  BY <1>3
<1> QED BY <1>2, <1>4, <1>5 DEF Unmoved

LEMMA SetStatusType ==
  ASSUME NEW o, IsOms(o), NEW id \in DOMAIN o.orders, NEW status \in OrdStatus
  PROVE  IsOms(SetStatus(o, id, status)) /\ Unmoved(o, SetStatus(o, id, status))
<1> DEFINE order == [o.orders[id] EXCEPT !.status = status]
<1>1. order \in Order /\ order.side = o.orders[id].side
      /\ order.leaves = o.orders[id].leaves
  BY OrderFacts DEF Order
<1>2. SetStatus(o, id, status) =
        [orders |-> With(o.orders, id, order), next_cl_id |-> o.next_cl_id,
         position |-> o.position, cash |-> o.cash, open |-> o.open]
  BY SetStatusEffect
<1> HIDE DEF order
<1> QED BY <1>1, <1>2, OrderChanged

LEMMA AckType ==
  ASSUME NEW o, IsOms(o), NEW id \in DOMAIN o.orders
  PROVE  IsOms(OnAck(o, id)) /\ Unmoved(o, OnAck(o, id))
<1>1. PICK status \in {"Live", o.orders[id].status} :
         OnAck(o, id) =
           [orders |-> With(o.orders, id,
                            [o.orders[id] EXCEPT !.acked = TRUE,
                                                 !.status = status]),
            next_cl_id |-> o.next_cl_id, position |-> o.position,
            cash |-> o.cash, open |-> o.open]
  BY AckEffect
<1> DEFINE order == [o.orders[id] EXCEPT !.acked = TRUE, !.status = status]
<1>2. order \in Order /\ order.side = o.orders[id].side
      /\ order.leaves = o.orders[id].leaves
  BY OrderFacts DEF Order, OrdStatus
<1> QED BY <1>1, <1>2, OrderChanged

LEMMA RemoveType ==
  ASSUME NEW o, IsOms(o), NEW id \in DOMAIN o.orders
  PROVE  IsOms(RemoveOrder(o, id)) /\ Dropped(o, RemoveOrder(o, id), id)
<1> DEFINE h == o.orders
           open == o.open
           side == o.orders[id].side
           n == o.orders[id].leaves
           f == Without(h, id)
           g == Shift(open, side, -n)
           p == RemoveOrder(o, id)
<1>1. /\ IsPartialFunction(h, OrderId, Order)
      /\ o.next_cl_id \in 1..(MaxOrders + 1) /\ o.position \in Int
      /\ o.cash \in Int /\ open \in [Side -> Int]
      /\ side \in Side /\ n \in Nat
  BY OrderFacts DEF IsOms
<1>4. p = [orders |-> f, next_cl_id |-> o.next_cl_id,
           position |-> o.position, cash |-> o.cash, open |-> g]
  BY RemoveEffect
<1>5. h = o.orders /\ open = o.open /\ side = o.orders[id].side
      /\ n = o.orders[id].leaves
  OBVIOUS
<1> HIDE DEF h, open, side, n, p
<1>2. /\ IsPartialFunction(f, OrderId, Order)
      /\ DOMAIN f = DOMAIN h \ {id}
      /\ \A y \in DOMAIN h \ {id} : f[y] = h[y]
  <2>1. IsPartialFunction(f, OrderId, Order)
    BY <1>1, WithoutType
  <2> QED BY <2>1 DEF Without
<1>3. /\ g \in [Side -> Int]
      /\ g[side] = open[side] - n
      /\ \A s \in Side : s # side => g[s] = open[s]
  <2>1. -n \in Int /\ open[side] + (-n) = open[side] - n
    BY <1>1
  <2> QED BY <1>1, <2>1, ShiftType
<1> HIDE DEF f, g
<1>6. IsOms(p)
  BY <1>1, <1>2, <1>3, <1>4, OmsFields
<1>7. Dropped(o, p, id)
  BY <1>2, <1>3, <1>4, <1>5 DEF Dropped
<1> QED BY <1>6, <1>7 DEF p

LEMMA FillType ==
  ASSUME NEW o, IsOms(o), NEW e, e.id \in DOMAIN o.orders,
         e.qty \in Nat, e.leaves \in Nat, e.price \in Int
  PROVE  IsOms(OnFill(o, e)) /\ Filled(o, OnFill(o, e), e)
<1> DEFINE h == o.orders
           open == o.open
           id == e.id
           qty == e.qty
           side == o.orders[e.id].side
           order == [o.orders[e.id] EXCEPT !.leaves = e.leaves]
           f == IF e.leaves = 0 THEN Without(h, id) ELSE With(h, id, order)
           g == Shift(open, side, -qty)
           p == OnFill(o, e)
<1>1. /\ IsPartialFunction(h, OrderId, Order) /\ id \in OrderId
      /\ id \in DOMAIN h
      /\ o.next_cl_id \in 1..(MaxOrders + 1) /\ o.position \in Int
      /\ o.cash \in Int /\ open \in [Side -> Int]
      /\ side \in Side /\ qty \in Nat
  BY OrderFacts DEF IsOms
<1>2. e.leaves # 0 =>
        order \in Order /\ order.side = side /\ order.leaves = e.leaves
  BY OrderFacts DEF Order
<1>3. p = [orders |-> f, next_cl_id |-> o.next_cl_id,
           position |-> o.position + Sign(side) * e.qty,
           cash |-> o.cash - Sign(side) * e.qty * e.price, open |-> g]
  BY FillEffect
<1>4. /\ h = o.orders /\ open = o.open /\ id = e.id /\ qty = e.qty
      /\ side = o.orders[e.id].side
  OBVIOUS
<1> HIDE DEF h, open, id, qty, side, order, p
<1>5. /\ IsPartialFunction(f, OrderId, Order)
      /\ DOMAIN f = IF e.leaves = 0 THEN DOMAIN h \ {id} ELSE DOMAIN h
      /\ \A y \in DOMAIN f : y # id => f[y] = h[y]
      /\ e.leaves # 0 => f[id].side = side /\ f[id].leaves = e.leaves
  <2>1. CASE e.leaves = 0
    <3>1. f = Without(h, id) BY <2>1
    <3>2. IsPartialFunction(Without(h, id), OrderId, Order)
      BY <1>1, WithoutType
    <3> HIDE DEF f
    <3> QED BY <1>1, <2>1, <3>1, <3>2 DEF Without
  <2>2. CASE e.leaves # 0
    <3>1. f = With(h, id, order) BY <2>2
    <3>2. IsPartialFunction(With(h, id, order), OrderId, Order)
      BY <1>1, <1>2, <2>2, WithType
    <3>3. DOMAIN h \cup {id} = DOMAIN h
      BY <1>1
    <3> HIDE DEF f
    <3> QED BY <1>1, <1>2, <2>2, <3>1, <3>2, <3>3 DEF With
  <2> QED BY <2>1, <2>2
<1>6. /\ g \in [Side -> Int]
      /\ g[side] = open[side] - qty
      /\ \A s \in Side : s # side => g[s] = open[s]
  <2>1. -qty \in Int /\ open[side] + (-qty) = open[side] - qty
    BY <1>1
  <2> QED BY <1>1, <2>1, ShiftType
<1>7. Sign(side) \in Int
  BY DEF Sign
<1>8. /\ o.position + Sign(side) * e.qty \in Int
      /\ o.cash - Sign(side) * e.qty * e.price \in Int
  BY <1>1, <1>7
<1> HIDE DEF f, g
<1>9. IsOms(p)
  BY <1>1, <1>3, <1>5, <1>6, <1>8, OmsFields
<1>10. Filled(o, p, e)
  BY <1>3, <1>4, <1>5, <1>6 DEF Filled
<1> QED BY <1>9, <1>10 DEF p

(* One report, applied to the OMS. *)
LEMMA ExecType ==
  ASSUME NEW o, IsOms(o), NEW e \in Exec
  PROVE  /\ IsOms(OnExec(o, e))
         /\ CASE e.kind = "Fill" /\ e.id \in DOMAIN o.orders ->
                    Filled(o, OnExec(o, e), e)
              [] e.kind = "Canceled" /\ e.id \in DOMAIN o.orders ->
                    Dropped(o, OnExec(o, e), e.id)
              [] e.kind = "Rejected" ->
                    \/ Unmoved(o, OnExec(o, e))
                    \/ Dropped(o, OnExec(o, e), e.id)
              [] OTHER -> Unmoved(o, OnExec(o, e))
<1>1. e.kind \in {"Ack", "Canceled", "Rejected", "Fill"}
  BY DEF Exec
<1>2. Unmoved(o, o)
  BY DEF Unmoved
<1>3. CASE e.kind = "Ack"
  <2>1. OnExec(o, e) = OnAck(o, e.id) BY <1>3 DEF OnExec
  <2>2. e.id \notin DOMAIN o.orders => OnAck(o, e.id) = o BY DEF OnAck
  <2> QED BY <1>2, <1>3, <2>1, <2>2, AckType
<1>4. CASE e.kind = "Canceled"
  <2>1. OnExec(o, e) = RemoveOrder(o, e.id) BY <1>4 DEF OnExec
  <2>2. e.id \notin DOMAIN o.orders => RemoveOrder(o, e.id) = o
    BY DEF RemoveOrder
  <2> QED BY <1>2, <1>4, <2>1, <2>2, RemoveType
<1>5. CASE e.kind = "Fill"
  <2>1. OnExec(o, e) = OnFill(o, e) BY <1>5 DEF OnExec
  <2>2. e.id \notin DOMAIN o.orders => OnFill(o, e) = o BY DEF OnFill
  <2>3. e.qty \in Nat /\ e.leaves \in Nat /\ e.price \in Int
    BY <1>5 DEF Exec
  <2> QED BY <1>2, <1>5, <2>1, <2>2, <2>3, FillType
<1>6. CASE e.kind = "Rejected"
  <2>1. OnExec(o, e) = OnRejected(o, e) BY <1>6 DEF OnExec
  <2>2. \/ OnRejected(o, e) = o
        \/ /\ e.id \in DOMAIN o.orders
           /\ OnRejected(o, e) \in {RemoveOrder(o, e.id),
                                    SetStatus(o, e.id, "Live")}
    BY DEF OnRejected
  <2> QED BY <1>2, <1>6, <2>1, <2>2, RemoveType, SetStatusType DEF OrdStatus
<1> QED BY <1>1, <1>3, <1>4, <1>5, <1>6

-----------------------------------------------------------------------------
(* The type invariant, action by action. *)

LEMMA EmitsType ==
  ASSUME TypeOK, StrategyEmits
  PROVE  intents' \in Seq(Intent)
<1>1. PICK n \in 0..(MaxIntents - Len(intents)) :
        \E out \in [1..n -> Intent] : intents' = intents \o out
  BY DEF StrategyEmits
<1>2. PICK out \in [1..n -> Intent] : intents' = intents \o out
  BY <1>1
<1>3. out \in Seq(Intent) /\ intents \in Seq(Intent)
  BY DEF TypeOK
<1> QED BY <1>2, <1>3

LEMMA CancelAllType ==
  ASSUME TypeOK, CancelAll
  PROVE  intents' \in Seq(Intent)
<1>1. PICK n \in 0..MaxOrders : \E ids \in [1..n -> Cancelable] :
        intents' = intents \o [i \in 1..n |-> [kind |-> "Cancel", id |-> ids[i]]]
  BY DEF CancelAll
<1>2. PICK ids \in [1..n -> Cancelable] :
        intents' = intents \o [i \in 1..n |-> [kind |-> "Cancel", id |-> ids[i]]]
  BY <1>1
<1> DEFINE out == [i \in 1..n |-> [kind |-> "Cancel", id |-> ids[i]]]
<1>3. Cancelable \subseteq 1..MaxOrders
  BY DEF TypeOK, IsOms, IsPartialFunction, Cancelable, OrderId
<1>4. out \in [1..n -> Intent]
  BY <1>3 DEF Intent, CancelIntent
<1>5. out \in Seq(Intent) /\ intents \in Seq(Intent)
  BY <1>4 DEF TypeOK
<1> QED BY <1>2, <1>5

(* Reports join the ring one at a time. *)
LEMMA ReportType ==
  ASSUME TypeOK, NEW e \in Exec, Report(e)
  PROVE  execCh' \in Seq(Exec)
BY DEF Report, TypeOK

LEMMA VenueType ==
  ASSUME TypeOK, VenueNext, UNCHANGED engineVars
  PROVE  TypeOK'
<1>1. SUFFICES /\ execCh' \in Seq(Exec)
               /\ orderCh' \in Seq(OrderCmd)
               /\ IsPartialFunction(resting', OrderId, Resting)
               /\ taking' \in NewOrderCmd \cup {NoOrder}
  BY DEF TypeOK, engineVars
<1>2. /\ execCh \in Seq(Exec)
      /\ orderCh \in Seq(OrderCmd)
      /\ IsPartialFunction(resting, OrderId, Resting)
      /\ taking \in NewOrderCmd \cup {NoOrder}
  BY DEF TypeOK
<1>3. orderCh # <<>> =>
        /\ Head(orderCh) \in OrderCmd /\ Tail(orderCh) \in Seq(OrderCmd)
        /\ Head(orderCh).id \in OrderId
        /\ Head(orderCh).cmd = "New" => Head(orderCh) \in NewOrderCmd
  BY <1>2 DEF OrderCmd, NewOrderCmd
<1>4. CASE VenueReject
  <2>1. Rejected(Head(orderCh).id, "WouldCross") \in Exec
    BY <1>3, <1>4 DEF VenueReject, Rejected, Exec, RejectReason
  <2> QED BY <1>2, <1>3, <1>4, <2>1, ReportType DEF VenueReject
<1>5. CASE VenueAccept
  <2>1. Ack(Head(orderCh).id) \in Exec
    BY <1>3, <1>5 DEF VenueAccept, Ack, Exec
  <2> QED BY <1>2, <1>3, <1>5, <2>1, ReportType DEF VenueAccept
<1>6. CASE VenueRest
  <2>1. taking \in NewOrderCmd
    BY <1>2, <1>6 DEF VenueRest
  <2>2. Canceled(taking.id) \in Exec /\ taking.id \in OrderId
    BY <2>1 DEF NewOrderCmd, Canceled, Exec
  <2>3. taking.qty > 0 =>
          [side |-> taking.side, price |-> taking.price,
           leaves |-> taking.qty] \in Resting
    BY <2>1 DEF NewOrderCmd, Resting
  <2>4. execCh' \in Seq(Exec)
    BY <1>2, <1>6, <2>2, ReportType DEF VenueRest
  <2>5. IsPartialFunction(resting', OrderId, Resting)
    BY <1>2, <1>6, <2>2, <2>3, WithType DEF VenueRest
  <2> QED BY <1>2, <1>6, <2>4, <2>5 DEF VenueRest
<1>7. CASE VenueCancel
  <2>1. /\ Canceled(Head(orderCh).id) \in Exec
        /\ Rejected(Head(orderCh).id, "UnknownOrder") \in Exec
    BY <1>3, <1>7 DEF VenueCancel, Canceled, Rejected, Exec, RejectReason
  <2>2. execCh' \in Seq(Exec)
    BY <1>7, <2>1, ReportType DEF VenueCancel
  <2>3. IsPartialFunction(resting', OrderId, Resting)
    BY <1>2, <1>7, WithoutType DEF VenueCancel
  <2> QED BY <1>2, <1>3, <1>7, <2>2, <2>3 DEF VenueCancel
<1>8. ASSUME taking # NoOrder, NEW price \in Prices, NEW qty \in 1..taking.qty,
             VenueTake(price, qty)
      PROVE  /\ execCh' \in Seq(Exec)
             /\ taking' \in NewOrderCmd
             /\ UNCHANGED <<orderCh, resting>>
  <2>1. taking \in NewOrderCmd /\ taking.qty \in Nat /\ taking.qty - qty \in Nat
    BY <1>2, <1>8 DEF NewOrderCmd
  <2>2. Fill(taking.id, price, qty, taking.qty - qty) \in Exec
    BY <1>8, <2>1 DEF Fill, Exec, NewOrderCmd
  <2>3. execCh' \in Seq(Exec)
    BY <1>8, <2>2, ReportType DEF VenueTake
  <2>4. taking' = [taking EXCEPT !.qty = taking.qty - qty]
    BY <1>8 DEF VenueTake
  <2>5. taking' \in NewOrderCmd
    BY <2>1, <2>4 DEF NewOrderCmd
  <2> QED BY <1>8, <2>3, <2>5 DEF VenueTake
<1>9. ASSUME NEW id \in DOMAIN resting, NEW qty \in 1..resting[id].leaves,
             VenueMake(id, qty)
      PROVE  /\ execCh' \in Seq(Exec)
             /\ IsPartialFunction(resting', OrderId, Resting)
             /\ UNCHANGED <<orderCh, taking>>
  <2> DEFINE left == resting[id].leaves - qty
  <2>1. /\ id \in OrderId /\ resting[id] \in Resting
        /\ resting[id].leaves \in Nat /\ left \in Nat
        /\ resting[id].price \in Prices
    BY SMTT(30), <1>2, <1>9 DEF IsPartialFunction, Resting
  <2>2. Fill(id, resting[id].price, qty, left) \in Exec
    BY <1>9, <2>1 DEF Fill, Exec
  <2>3. execCh' \in Seq(Exec)
    BY <1>9, <2>2, ReportType DEF VenueMake
  <2>4. left # 0 => [resting[id] EXCEPT !.leaves = left] \in Resting
    BY <2>1 DEF Resting
  <2>5. resting' = IF left = 0 THEN Without(resting, id)
                   ELSE With(resting, id, [resting[id] EXCEPT !.leaves = left])
    BY <1>9 DEF VenueMake
  <2> HIDE DEF left
  <2>6. IsPartialFunction(resting', OrderId, Resting)
    BY <1>2, <2>1, <2>4, <2>5, WithType, WithoutType
  <2> QED BY <1>9, <2>3, <2>6 DEF VenueMake
<1>10. VenueCommand \/ VenueTrade
  BY DEF VenueNext
<1> QED BY <1>2, <1>4, <1>5, <1>6, <1>7, <1>8, <1>9, <1>10
        DEF VenueCommand, VenueTrade

LEMMA CallType ==
  ASSUME NEW then \in {"idle", "book", "pnl"}, CallProcessIntents(then)
  PROVE  /\ pc' \in {"idle", "book", "pnl", "send"}
         /\ pc' = "send" => intents' # <<>>
         /\ after' \in {"idle", "book", "pnl"}
BY DEF CallProcessIntents

(* A new order that passed risk has a positive quantity. *)
LEMMA SendNewType ==
  ASSUME TypeOK, SendNew
  PROVE  /\ IsOms(oms')
         /\ orderCh' \in Seq(OrderCmd)
         /\ risk' \in [window_start : Nat, window_count : Nat]
<1> DEFINE i == Head(intents)
           id == oms.next_cl_id
           order == NewOrder(i.side, i.price, i.qty)
           orders == With(oms.orders, id, order)
           open == Shift(oms.open, i.side, i.qty)
<1>1. i \in Intent /\ i.kind = "New"
  BY DEF TypeOK, SendNew
<1>2. /\ i.side \in Side /\ i.price \in Prices /\ i.qty \in Qtys
      /\ i.tif \in Tifs
  BY <1>1 DEF Intent, NewIntent, CancelIntent
<1>3. /\ Admissible(oms, kill, i.side, i.price, i.qty, mid2)
      /\ id <= MaxOrders
      /\ risk' = Counted(risk, now)
      /\ oms' = OnNewSent(NextClId(oms), id, i.side, i.price, i.qty)
      /\ orderCh' = Append(orderCh, NewCmd(id, i.side, i.price, i.qty, i.tif))
  BY DEF SendNew
<1>4. /\ i.qty \in Nat /\ i.qty > 0
      /\ id \in OrderId /\ id + 1 \in 1..(MaxOrders + 1)
  <2>1. i.qty > 0 BY <1>3 DEF Admissible
  <2>2. id \in 1..(MaxOrders + 1) BY DEF TypeOK, IsOms
  <2>3. i.qty \in Int BY <1>2
  <2>4. id \in Int /\ 1 <= id /\ id <= MaxOrders BY <1>3, <2>2
  <2> HIDE DEF id
  <2> QED BY <2>1, <2>3, <2>4 DEF OrderId
<1>5. order \in Order
  BY <1>2, <1>4 DEF NewOrder, Order, OrdStatus
<1>6. IsPartialFunction(orders, OrderId, Order)
  BY <1>4, <1>5, WithType DEF TypeOK, IsOms
<1>7. open \in [Side -> Int]
  BY <1>2, <1>4, ShiftType DEF TypeOK, IsOms
<1>8. oms' = [orders |-> orders, next_cl_id |-> id + 1,
              position |-> oms.position, cash |-> oms.cash, open |-> open]
  BY <1>3, NewSentEffect DEF TypeOK
<1>9. NewCmd(id, i.side, i.price, i.qty, i.tif) \in OrderCmd
  BY <1>2, <1>4 DEF NewCmd, OrderCmd, NewOrderCmd
<1>10. orderCh' \in Seq(OrderCmd)
  BY <1>3, <1>9 DEF TypeOK
<1>11. risk' \in [window_start : Nat, window_count : Nat]
  <2>1. /\ risk \in [window_start : Nat, window_count : Nat] /\ now \in Nat
    BY DEF TypeOK
  <2>2. Window(risk, now) \in [window_start : Nat, window_count : Nat]
    BY <2>1 DEF Window
  <2> QED BY SMTT(30), <1>3, <2>2 DEF Counted
<1> HIDE DEF orders, open, id
<1>12. IsOms(oms')
  BY <1>4, <1>6, <1>7, <1>8, OmsFields DEF TypeOK, IsOms
<1> QED BY <1>10, <1>11, <1>12

LEMMA SendCancelType ==
  ASSUME TypeOK, SendCancel
  PROVE  IsOms(oms') /\ orderCh' \in Seq(OrderCmd)
<1> DEFINE id == Head(intents).id
<1>1. CASE id \in DOMAIN oms.orders /\ oms.orders[id].status # "PendingCancel"
  <2>1. oms' = SetStatus(oms, id, "PendingCancel")
        /\ orderCh' = Append(orderCh, CancelCmd(id))
    BY <1>1 DEF SendCancel, OnCancelSent
  <2>2. IsOms(oms')
    BY <1>1, <2>1, SetStatusType DEF TypeOK, OrdStatus
  <2>3. CancelCmd(id) \in OrderCmd
    BY <1>1, OrderFacts DEF TypeOK, CancelCmd, OrderCmd
  <2> QED BY <2>1, <2>2, <2>3 DEF TypeOK
<1>2. CASE ~(id \in DOMAIN oms.orders
             /\ oms.orders[id].status # "PendingCancel")
  BY <1>2 DEF SendCancel, TypeOK
<1> QED BY <1>1, <1>2

LEMMA TypeInit == Init => TypeOK
<1> SUFFICES ASSUME Init PROVE TypeOK
  OBVIOUS
<1>1. IsOms(oms)
  <2> DEFINE none == [i \in {} |-> 0]
             open == [s \in Side |-> 0]
  <2>1. IsPartialFunction(none, OrderId, Order)
    BY DEF IsPartialFunction
  <2>2. open \in [Side -> Int] /\ 1 \in 1..(MaxOrders + 1)
    OBVIOUS
  <2>3. oms = [orders |-> none, next_cl_id |-> 1, position |-> 0, cash |-> 0,
               open |-> open]
    BY DEF Init, NewOms
  <2> HIDE DEF none, open
  <2> QED BY <2>1, <2>2, <2>3, OmsFields
<1>2. IsPartialFunction(resting, OrderId, Resting)
  BY DEF Init, VenueInit, IsPartialFunction
<1>3. risk \in [window_start : Nat, window_count : Nat]
  BY DEF Init, NewRisk
<1>4. /\ batch = <<>> /\ execCh = <<>> /\ orderCh = <<>> /\ intents = <<>>
      /\ pc = "idle" /\ after = "idle" /\ taking = NoOrder /\ mid2 = NoMid
      /\ kill = FALSE /\ kill_handled = FALSE /\ now \in 0..MaxTime
  BY DEF Init, VenueInit
<1>5. /\ <<>> \in Seq(Exec) /\ <<>> \in Seq(OrderCmd)
      /\ <<>> \in Seq(Intent)
  OBVIOUS
<1> QED BY <1>1, <1>2, <1>3, <1>4, <1>5 DEF TypeOK

LEMMA TypeStep == TypeOK /\ [Next]_vars => TypeOK'
<1> SUFFICES ASSUME TypeOK, [Next]_vars PROVE TypeOK'
  OBVIOUS
<1>1. CASE OnMd
  <2>1. intents' \in Seq(Intent) BY <1>1, EmitsType DEF OnMd
  <2>2. now' \in 0..MaxTime BY <1>1 DEF OnMd, TypeOK
  <2> QED BY <1>1, <2>1, <2>2 DEF OnMd, TypeOK, venueVars
<1>2. CASE DrainVenue
  BY <1>2 DEF DrainVenue, TypeOK, venueVars
<1>3. CASE Poll
  BY <1>3 DEF Poll, TypeOK
<1>4. CASE ApplyExec
  <2>1. Head(batch) \in Exec /\ batch' = Tail(batch) /\ batch' \in Seq(Exec)
    BY <1>4 DEF ApplyExec, TypeOK
  <2>2. IsOms(oms')
    BY <1>4, <2>1, ExecType DEF ApplyExec, TypeOK
  <2>3. intents' \in Seq(Intent)
    BY <1>4, EmitsType DEF ApplyExec, TypeOK
  <2>4. kill' \in BOOLEAN
    BY <1>4 DEF ApplyExec, TypeOK
  <2>5. /\ pc' \in {"idle", "poll", "apply", "send", "book", "pnl"}
        /\ pc' = "apply" <=> batch' # <<>>
        /\ pc' = "send" => intents' # <<>>
        /\ after' \in {"idle", "book", "pnl"}
    BY <1>4, CallType DEF ApplyExec, TypeOK
  <2> QED BY <1>4, <2>1, <2>2, <2>3, <2>4, <2>5
          DEF ApplyExec, TypeOK, venueVars
<1>5. CASE OnBook
  <2>1. intents' \in Seq(Intent) BY <1>5, EmitsType DEF OnBook, TypeOK
  <2> QED BY <1>5, <2>1, CallType DEF OnBook, TypeOK, venueVars
<1>6. CASE SendNew
  <2>1. intents' \in Seq(Intent) BY <1>6 DEF SendNew, TypeOK
  <2> QED BY <1>6, <2>1, CallType, SendNewType DEF SendNew, TypeOK
<1>7. CASE RefuseNew
  <2>1. intents' \in Seq(Intent) BY <1>7 DEF RefuseNew, TypeOK
  <2>2. risk' \in [window_start : Nat, window_count : Nat]
    BY <1>7 DEF RefuseNew, TypeOK, Window
  <2> QED BY <1>7, <2>1, <2>2, CallType DEF RefuseNew, TypeOK, venueVars
<1>8. CASE SendCancel
  <2>1. intents' \in Seq(Intent) BY <1>8 DEF SendCancel, TypeOK
  <2> QED BY <1>8, <2>1, CallType, SendCancelType DEF SendCancel, TypeOK
<1>9. CASE Housekeeping
  <2>1. intents' \in Seq(Intent)
    BY <1>9, CancelAllType DEF Housekeeping, TypeOK
  <2> QED BY <1>9, <2>1, CallType DEF Housekeeping, TypeOK, venueVars
<1>10. CASE CheckPnl
  BY <1>10 DEF CheckPnl, TypeOK, venueVars
<1>11. CASE VenueNext /\ UNCHANGED engineVars
  BY <1>11, VenueType
<1>12. CASE Kill
  BY <1>12 DEF Kill, TypeOK, venueVars
<1>13. CASE Unkill
  BY <1>13 DEF Unkill, TypeOK, venueVars
<1>14. CASE UNCHANGED vars
  BY <1>14 DEF vars, engineVars, venueVars, TypeOK
<1> QED BY <1>1, <1>2, <1>3, <1>4, <1>5, <1>6, <1>7, <1>8, <1>9, <1>10,
           <1>11, <1>12, <1>13, <1>14 DEF Next, EngineNext, Working

(* Every variable keeps its type, whatever the constants. *)
THEOREM TypeInvariant == Spec => []TypeOK
BY TypeInit, TypeStep, PTL DEF Spec

-----------------------------------------------------------------------------
(* The position limit. *)

USE RiskAssumption, VenueAssumption, OrderEntryAssumption

(* What the venue holds of our orders: pairs of number and quantity.       *)
InBook(rest, x) == x[1] \in DOMAIN rest /\ x[2] = rest[x[1]].leaves
InHand(hand, x) == hand # NoOrder /\ x[1] = hand.id /\ x[2] = hand.qty
IsNew(ch, i) == i \in 1..Len(ch) /\ ch[i].cmd = "New"
OnWire(ch, x) ==
  \E i \in 1..Len(ch) : IsNew(ch, i) /\ x[1] = ch[i].id /\ x[2] = ch[i].qty
Held(rest, hand, ch) ==
  {x \in OrderId \X Nat : InBook(rest, x) \/ InHand(hand, x) \/ OnWire(ch, x)}

OnePlace(rest, hand, ch) ==
  /\ \A i, j \in 1..Len(ch) :
       IsNew(ch, i) /\ IsNew(ch, j) /\ ch[i].id = ch[j].id => i = j
  /\ \A i \in 1..Len(ch) :
       IsNew(ch, i) => /\ ch[i].id \notin DOMAIN rest
                       /\ hand # NoOrder => ch[i].id # hand.id
  /\ hand # NoOrder => hand.id \notin DOMAIN rest

CancelBehind(ch) ==
  \A i, j \in 1..Len(ch) :
    i < j /\ ch[i].cmd = "Cancel" /\ IsNew(ch, j) => ch[i].id # ch[j].id

(* Every number in use is below the next one. *)
Fresh(o, r, rest, hand, ch) ==
  /\ \A id \in DOMAIN o.orders : id < o.next_cl_id
  /\ \A i \in 1..Len(r) : r[i].id < o.next_cl_id
  /\ \A id \in DOMAIN rest : id < o.next_cl_id
  /\ hand # NoOrder => hand.id < o.next_cl_id
  /\ \A i \in 1..Len(ch) : ch[i].id < o.next_cl_id

OpenIsSum(o) ==
  \A side \in Side : IsSum(LeavesTable(o.orders, side), MaxOrders, o.open[side])

(* The promise of the risk check, kept. *)
WorstCase(o) ==
  /\ o.position + o.open["Buy"] <= MaxPosition
  /\ -o.position + o.open["Sell"] <= MaxPosition

VenueHolds == Held(resting, taking, orderCh)

IInv ==
  /\ TypeOK
  /\ OnePlace(resting, taking, orderCh)
  /\ CancelBehind(orderCh)
  /\ Fresh(oms, Reports, resting, taking, orderCh)
  /\ Chain(oms.orders, Reports, VenueHolds)
  /\ Lots(Reports, VenueHolds)
  /\ OpenIsSum(oms)
  /\ WorstCase(oms)

-----------------------------------------------------------------------------
(* The reports in flight. *)

LEMMA ReportsType ==
  ASSUME TypeOK
  PROVE  Reports \in Seq(Exec)
BY DEF TypeOK, Reports

LEMMA ReportsAppend ==
  ASSUME TypeOK, NEW e \in Exec, Report(e), batch' = batch
  PROVE  Reports' = Append(Reports, e)
<1>1. Reports' = batch \o Append(execCh, e)
  BY DEF Reports, Report
<1>2. batch \in Seq(Exec) /\ execCh \in Seq(Exec)
  BY DEF TypeOK
<1> QED BY <1>1, <1>2 DEF Reports

LEMMA ReportsTail ==
  ASSUME TypeOK, batch # <<>>, batch' = Tail(batch), execCh' = execCh
  PROVE  /\ Reports' = Tail(Reports) /\ Reports # <<>>
         /\ Reports[1] = Head(batch)
<1>1. batch \in Seq(Exec) /\ execCh \in Seq(Exec)
  BY DEF TypeOK
<1>2. Reports' = Tail(batch) \o execCh
  BY DEF Reports
<1> QED BY <1>1, <1>2 DEF Reports

LEMMA ReportsPolled ==
  ASSUME TypeOK, Poll
  PROVE  Reports' = Reports
<1>1. batch = <<>> /\ execCh \in Seq(Exec)
  BY DEF TypeOK, Poll
<1>2. Reports' = execCh \o <<>>
  BY DEF Reports, Poll
<1> QED BY <1>1, <1>2 DEF Reports

(* A fill in flight is of whole lots, and so is what the venue holds. *)
LEMMA LotsHold ==
  ASSUME NEW r \in Seq(Exec), NEW rest, NEW hand, NEW ch
  PROVE  Lots(r, Held(rest, hand, ch))
<1>1. ASSUME NEW i \in 1..Len(r), r[i].kind = "Fill"
      PROVE  r[i].qty \in Nat /\ r[i].qty > 0 /\ r[i].leaves \in Nat
  <2>1. r[i] \in Exec
    OBVIOUS
  <2> QED BY <1>1, <2>1 DEF Exec
<1>2. \A x \in Held(rest, hand, ch) : x[2] \in Nat
  BY DEF Held
<1> QED BY <1>1, <1>2 DEF Lots

-----------------------------------------------------------------------------
(* The open quantity. *)

LEMMA TableType ==
  ASSUME NEW o, IsOms(o), NEW side \in Side
  PROVE  LeavesTable(o.orders, side) \in [1..MaxOrders -> Nat]
<1>1. ASSUME NEW i \in OrderId, i \in DOMAIN o.orders
      PROVE  o.orders[i].leaves \in Nat
  BY <1>1, OrderFacts
<1> QED BY <1>1 DEF LeavesTable, OrderId

LEMMA OpenIsNat ==
  ASSUME NEW o, IsOms(o), OpenIsSum(o), NEW side \in Side
  PROVE  o.open[side] \in Nat
BY SumIsNat DEF OpenIsSum

LEMMA OpenUnmoved ==
  ASSUME NEW o, NEW p, IsOms(o), IsOms(p), OpenIsSum(o), Unmoved(o, p)
  PROVE  OpenIsSum(p)
<1> SUFFICES ASSUME NEW side \in Side
             PROVE IsSum(LeavesTable(p.orders, side), MaxOrders, p.open[side])
  BY DEF OpenIsSum
<1>1. LeavesTable(p.orders, side) = LeavesTable(o.orders, side)
  BY DEF LeavesTable, Unmoved
<1> QED BY <1>1 DEF OpenIsSum, Unmoved

(* One entry of the table changes, by as much as the open quantity.        *)
LEMMA OpenMoved ==
  ASSUME NEW o, NEW p, IsOms(o), IsOms(p), OpenIsSum(o),
         NEW id \in OrderId, NEW side \in Side,
         \A s \in Side : \A i \in OrderId :
           i # id => LeavesTable(p.orders, s)[i] = LeavesTable(o.orders, s)[i],
         \A s \in Side : s # side =>
           /\ LeavesTable(p.orders, s)[id] = LeavesTable(o.orders, s)[id]
           /\ p.open[s] = o.open[s],
         p.open[side] = o.open[side] - LeavesTable(o.orders, side)[id]
                                     + LeavesTable(p.orders, side)[id]
  PROVE  OpenIsSum(p)
<1> SUFFICES ASSUME NEW s \in Side
             PROVE IsSum(LeavesTable(p.orders, s), MaxOrders, p.open[s])
  BY DEF OpenIsSum
<1> DEFINE f == LeavesTable(o.orders, s)
           h == LeavesTable(p.orders, s)
<1>1. f \in [1..MaxOrders -> Nat] /\ h \in [1..MaxOrders -> Nat]
  BY TableType
<1>2. \A i \in 1..MaxOrders : i # id => h[i] = f[i]
  BY DEF OrderId
<1>3. IsSum(f, MaxOrders, o.open[s])
  BY DEF OpenIsSum
<1>4. id \in 1..MaxOrders /\ MaxOrders \in Nat
  BY DEF OrderId
<1>5. IsSum(h, MaxOrders, o.open[s] - f[id] + h[id])
  <2> HIDE DEF f, h
  <2> QED BY <1>1, <1>2, <1>3, <1>4, SumUpdate
<1>6. p.open[s] = o.open[s] - f[id] + h[id]
  <2>1. CASE s = side
    BY <2>1
  <2>2. CASE s # side
    <3>1. h[id] = f[id] /\ p.open[s] = o.open[s]
      BY <2>2
    <3>2. f[id] \in Nat /\ o.open[s] \in Int
      BY <1>1, <1>4 DEF IsOms
    <3> HIDE DEF f, h
    <3> QED BY <3>1, <3>2
  <2> QED BY <2>1, <2>2
<1> QED BY <1>5, <1>6

(* A fill of what the OMS believes is left, or of part of it. *)
LEMMA AccountFilled ==
  ASSUME NEW o, NEW p, IsOms(o), IsOms(p), OpenIsSum(o), WorstCase(o),
         NEW e, e.qty \in Nat, e.leaves \in Nat, Filled(o, p, e),
         o.orders[e.id].leaves = e.qty + e.leaves
  PROVE  OpenIsSum(p) /\ WorstCase(p)
<1> DEFINE id == e.id
           side == o.orders[id].side
<1>1. id \in OrderId /\ id \in DOMAIN o.orders /\ side \in Side
  BY OrderFacts DEF Filled
<1>2. ASSUME NEW s \in Side, NEW i \in OrderId, i # id
      PROVE  LeavesTable(p.orders, s)[i] = LeavesTable(o.orders, s)[i]
  BY <1>2 DEF LeavesTable, Filled
<1>3. ASSUME NEW s \in Side, s # side
      PROVE  /\ LeavesTable(p.orders, s)[id] = LeavesTable(o.orders, s)[id]
             /\ p.open[s] = o.open[s]
  BY <1>1, <1>3 DEF LeavesTable, Filled
<1>4. /\ LeavesTable(o.orders, side)[id] = e.qty + e.leaves
      /\ LeavesTable(p.orders, side)[id] = e.leaves
  BY <1>1 DEF LeavesTable, Filled
<1>5. o.open[side] \in Int /\ o.open[side] - e.qty =
        o.open[side] - (e.qty + e.leaves) + e.leaves
  BY <1>1 DEF IsOms
<1>6. p.open[side] = o.open[side] - LeavesTable(o.orders, side)[id]
                                  + LeavesTable(p.orders, side)[id]
  BY <1>4, <1>5 DEF Filled
<1>7. OpenIsSum(p)
  <2> HIDE DEF id, side
  <2> QED BY <1>1, <1>2, <1>3, <1>6, OpenMoved
<1>8. WorstCase(p)
  <2>1. /\ o.position \in Int /\ o.open["Buy"] \in Int /\ o.open["Sell"] \in Int
    BY DEF IsOms, Side
  <2>2. CASE side = "Buy"
    <3>1. /\ p.position = o.position + e.qty
          /\ p.open["Buy"] = o.open["Buy"] - e.qty
          /\ p.open["Sell"] = o.open["Sell"]
      BY <2>1, <2>2 DEF Filled, Sign, Side
    <3> QED BY <2>1, <3>1 DEF WorstCase
  <2>3. CASE side = "Sell"
    <3>1. /\ p.position = o.position - e.qty
          /\ p.open["Sell"] = o.open["Sell"] - e.qty
          /\ p.open["Buy"] = o.open["Buy"]
      BY <2>1, <2>3 DEF Filled, Sign, Side
    <3> QED BY <2>1, <3>1 DEF WorstCase
  <2> QED BY <1>1, <2>2, <2>3 DEF Side
<1> QED BY <1>7, <1>8

LEMMA AccountDropped ==
  ASSUME NEW o, NEW p, IsOms(o), IsOms(p), OpenIsSum(o), WorstCase(o),
         NEW id, Dropped(o, p, id)
  PROVE  OpenIsSum(p) /\ WorstCase(p)
<1> DEFINE side == o.orders[id].side
           n == o.orders[id].leaves
<1>1. /\ id \in OrderId /\ id \in DOMAIN o.orders /\ side \in Side /\ n \in Nat
  BY OrderFacts DEF Dropped
<1>2. ASSUME NEW s \in Side, NEW i \in OrderId, i # id
      PROVE  LeavesTable(p.orders, s)[i] = LeavesTable(o.orders, s)[i]
  BY <1>2 DEF LeavesTable, Dropped
<1>3. ASSUME NEW s \in Side, s # side
      PROVE  /\ LeavesTable(p.orders, s)[id] = LeavesTable(o.orders, s)[id]
             /\ p.open[s] = o.open[s]
  BY <1>1, <1>3 DEF LeavesTable, Dropped
<1>4. /\ LeavesTable(o.orders, side)[id] = n
      /\ LeavesTable(p.orders, side)[id] = 0
  BY <1>1 DEF LeavesTable, Dropped
<1>5. o.open[side] \in Int /\ p.open[side] = o.open[side] - n
  BY <1>1 DEF IsOms, Dropped
<1>6. p.open[side] = o.open[side] - LeavesTable(o.orders, side)[id]
                                  + LeavesTable(p.orders, side)[id]
  BY <1>1, <1>4, <1>5
<1>7. OpenIsSum(p)
  <2> HIDE DEF side, n
  <2> QED BY <1>1, <1>2, <1>3, <1>6, OpenMoved
<1>8. WorstCase(p)
  <2>1. /\ o.position \in Int /\ o.open["Buy"] \in Int /\ o.open["Sell"] \in Int
    BY DEF IsOms, Side
  <2>2. p.position = o.position
    BY DEF Dropped
  <2>3. p.open["Buy"] \in Int /\ p.open["Sell"] \in Int
    BY DEF IsOms, Side
  <2>4. \A s \in Side : p.open[s] = o.open[s] - n \/ p.open[s] = o.open[s]
    BY <1>5 DEF Dropped
  <2>5. /\ p.open["Buy"] <= o.open["Buy"] /\ p.open["Sell"] <= o.open["Sell"]
    <3> HIDE DEF n
    <3> QED BY <1>1, <2>1, <2>3, <2>4 DEF Side
  <2> QED BY <2>1, <2>2, <2>3, <2>5 DEF WorstCase
<1> QED BY <1>7, <1>8

(* A new order that passed the position check. *)
Submitted(o, p, id, side, qty) ==
  /\ DOMAIN p.orders = DOMAIN o.orders \cup {id}
  /\ \A i \in DOMAIN o.orders : i # id => p.orders[i] = o.orders[i]
  /\ p.orders[id].side = side /\ p.orders[id].leaves = qty
  /\ p.next_cl_id = o.next_cl_id + 1
  /\ p.position = o.position
  /\ p.open[side] = o.open[side] + qty
  /\ \A s \in Side : s # side => p.open[s] = o.open[s]

LEMMA AccountSubmitted ==
  ASSUME NEW o, NEW p, IsOms(o), IsOms(p), OpenIsSum(o), WorstCase(o),
         NEW id \in OrderId, id \notin DOMAIN o.orders,
         NEW side \in Side, NEW qty \in Nat, Submitted(o, p, id, side, qty),
         WithinPosition(o, side, qty)
  PROVE  OpenIsSum(p) /\ WorstCase(p)
<1>1. ASSUME NEW s \in Side, NEW i \in OrderId, i # id
      PROVE  LeavesTable(p.orders, s)[i] = LeavesTable(o.orders, s)[i]
  BY <1>1 DEF LeavesTable, Submitted
<1>2. ASSUME NEW s \in Side, s # side
      PROVE  /\ LeavesTable(p.orders, s)[id] = LeavesTable(o.orders, s)[id]
             /\ p.open[s] = o.open[s]
  BY <1>2 DEF LeavesTable, Submitted
<1>3. /\ LeavesTable(o.orders, side)[id] = 0
      /\ LeavesTable(p.orders, side)[id] = qty
  BY DEF LeavesTable, Submitted
<1>4. o.open[side] \in Int /\ p.open[side] = o.open[side] + qty
  BY DEF IsOms, Submitted
<1>5. p.open[side] = o.open[side] - LeavesTable(o.orders, side)[id]
                                  + LeavesTable(p.orders, side)[id]
  BY <1>3, <1>4
<1>6. OpenIsSum(p)
  BY <1>1, <1>2, <1>5, OpenMoved
<1>7. WorstCase(p)
  <2>1. /\ o.position \in Int /\ o.open["Buy"] \in Int /\ o.open["Sell"] \in Int
        /\ p.position = o.position
    BY DEF IsOms, Side, Submitted
  <2>2. CASE side = "Buy"
    <3>1. /\ p.open["Buy"] = o.open["Buy"] + qty
          /\ p.open["Sell"] = o.open["Sell"]
      BY <2>2 DEF Submitted, Side
    <3>2. o.position + o.open["Buy"] + qty <= MaxPosition
      BY <2>2 DEF WithinPosition, Worst
    <3> QED BY <2>1, <3>1, <3>2 DEF WorstCase
  <2>3. CASE side = "Sell"
    <3>1. /\ p.open["Sell"] = o.open["Sell"] + qty
          /\ p.open["Buy"] = o.open["Buy"]
      BY <2>3 DEF Submitted, Side
    <3>2. -(o.position - o.open["Sell"] - qty) <= MaxPosition
      BY <2>3 DEF WithinPosition, Worst
    <3> QED BY <2>1, <3>1, <3>2 DEF WorstCase
  <2> QED BY <2>2, <2>3 DEF Side
<1> QED BY <1>6, <1>7

-----------------------------------------------------------------------------
(* The invariant, action by action: the engine. *)

LEMMA InvInit == Init => IInv
<1> SUFFICES ASSUME Init PROVE IInv
  OBVIOUS
<1>1. /\ orderCh = <<>> /\ execCh = <<>> /\ batch = <<>> /\ taking = NoOrder
      /\ DOMAIN resting = {} /\ oms = NewOms
  BY DEF Init, VenueInit
<1>2. /\ DOMAIN oms.orders = {} /\ oms.position = 0
      /\ \A s \in Side : oms.open[s] = 0
  BY <1>1 DEF NewOms
<1>3. Reports = <<>> /\ Len(Reports) = 0
  BY <1>1 DEF Reports
<1>4. VenueHolds = {}
  BY <1>1 DEF VenueHolds, Held, InBook, InHand, OnWire
<1>5. TypeOK
  BY TypeInit
<1>6. Chain(oms.orders, Reports, VenueHolds) /\ Lots(Reports, VenueHolds)
  BY <1>3, <1>4 DEF Chain, Lots, FillsKnown, HeldKnown, FirstFill, NextFill,
     LastFill, NoFill, Closed, Single
<1>7. OpenIsSum(oms)
  <2> SUFFICES ASSUME NEW side \in Side
               PROVE IsSum(LeavesTable(oms.orders, side), MaxOrders, 0)
    BY <1>2 DEF OpenIsSum
  <2>1. \A i \in 1..MaxOrders : LeavesTable(oms.orders, side)[i] = 0
    BY <1>2 DEF LeavesTable, OrderId
  <2> QED BY <2>1, ZeroSum
<1>8. WorstCase(oms)
  BY <1>2 DEF WorstCase, Side
<1>9. OnePlace(resting, taking, orderCh) /\ CancelBehind(orderCh)
  BY <1>1 DEF OnePlace, CancelBehind
<1>10. Fresh(oms, Reports, resting, taking, orderCh)
  BY <1>1, <1>2, <1>3 DEF Fresh
<1> QED BY <1>5, <1>6, <1>7, <1>8, <1>9, <1>10 DEF IInv

(* A step that neither talks to the venue nor touches the OMS. *)
LEMMA InvQuiet ==
  ASSUME IInv, TypeOK', Reports' = Reports,
         UNCHANGED <<oms, orderCh, resting, taking>>
  PROVE  IInv'
<1>1. VenueHolds' = VenueHolds
  BY DEF VenueHolds
<1> QED BY <1>1 DEF IInv

(* One report is applied.  A fill is of what the OMS believes is left,     *)
(* because it is the first of its order in flight.                         *)
LEMMA InvApply ==
  ASSUME IInv, TypeOK', ApplyExec
  PROVE  IInv'
<1> DEFINE e == Head(batch)
           id == e.id
           r == Reports
           h == VenueHolds
<1>1. /\ batch # <<>> /\ e \in Exec /\ oms' = OnExec(oms, e)
      /\ UNCHANGED <<orderCh, resting, taking, execCh>>
  BY DEF ApplyExec, IInv, TypeOK, venueVars
<1>2. /\ r \in Seq(Exec) /\ r # <<>> /\ r[1] = e /\ Reports' = Tail(r)
  BY <1>1, ReportsType, ReportsTail DEF ApplyExec, IInv
<1>3. VenueHolds' = h
  BY <1>1 DEF VenueHolds
<1>4. IsOms(oms) /\ IsOms(oms')
  BY DEF IInv, TypeOK
<1>5. /\ Chain(oms.orders, r, h) /\ Lots(r, h) /\ OpenIsSum(oms)
      /\ WorstCase(oms)
  BY DEF IInv
<1>6. Fresh(oms', Reports', resting', taking', orderCh')
  <2>1. /\ DOMAIN oms'.orders \subseteq DOMAIN oms.orders
        /\ oms'.next_cl_id = oms.next_cl_id
    BY <1>1, <1>4, ExecType DEF Unmoved, Dropped, Filled
  <2>2. \A i \in 1..Len(Tail(r)) : Tail(r)[i] = r[i+1] /\ i+1 \in 1..Len(r)
    BY <1>2
  <2> QED BY <1>1, <1>2, <2>1, <2>2 DEF Fresh, IInv
<1>7. Lots(Reports', VenueHolds')
  <2>1. Reports' \in Seq(Exec)
    BY <1>2
  <2>2. VenueHolds' = Held(resting', taking', orderCh')
    BY DEF VenueHolds
  <2> QED BY <2>1, <2>2, LotsHold
<1> SUFFICES /\ Chain(oms'.orders, Reports', VenueHolds')
             /\ OpenIsSum(oms') /\ WorstCase(oms')
  BY <1>1, <1>6, <1>7 DEF IInv
<1>8. CASE Filled(oms, oms', e) /\ e.kind = "Fill"
  <2>1. e.qty \in Nat /\ e.leaves \in Nat
    BY <1>1, <1>8 DEF Exec
  <2>2. oms.orders[id].leaves = e.qty + e.leaves
    <3>1. 1 \in 1..Len(r) /\ \A j \in 1..(1-1) : ~FillOf(r, j, r[1].id)
      BY <1>2
    <3>2. FirstFill(oms.orders, r)
      BY <1>5 DEF Chain
    <3>3. r[1].kind = "Fill"
      BY <1>2, <1>8
    <3>4. oms.orders[r[1].id].leaves = r[1].qty + r[1].leaves
      <4> HIDE DEF r
      <4> QED BY <3>1, <3>2, <3>3 DEF FirstFill
    <3> QED BY <1>2, <3>4
  <2>3. Chain(oms'.orders, Tail(r), h)
    <3> DEFINE orders == oms.orders
               orders2 == oms'.orders
    <3>1. /\ DOMAIN orders2 = IF r[1].leaves = 0 THEN DOMAIN orders \ {r[1].id}
                              ELSE DOMAIN orders
          /\ r[1].leaves # 0 => orders2[r[1].id].leaves = r[1].leaves
          /\ \A i \in DOMAIN orders2 :
               i # r[1].id => orders2[i].leaves = orders[i].leaves
          /\ r[1].kind = "Fill"
      BY <1>2, <1>8 DEF Filled
    <3>2. r \in Seq(Exec) /\ r # <<>> /\ Lots(r, h) /\ Chain(orders, r, h)
      BY <1>2, <1>5
    <3> HIDE DEF r, h, id, e, orders, orders2
    <3>3. Chain(orders2, Tail(r), h)
      BY <3>1, <3>2, ChainApplyFill
    <3> QED BY <3>3 DEF orders2
  <2> QED BY <1>2, <1>3, <1>4, <1>5, <1>8, <2>1, <2>2, <2>3, AccountFilled
<1>9. CASE Dropped(oms, oms', id) /\ e.kind \in {"Canceled", "Rejected"}
  <2>1. /\ id = r[1].id /\ r[1].kind # "Fill" /\ CloseOf(r, 1, id)
        /\ DOMAIN oms'.orders = DOMAIN oms.orders \ {id}
        /\ \A i \in DOMAIN oms'.orders :
             oms'.orders[i].leaves = oms.orders[i].leaves
    BY <1>2, <1>9 DEF Dropped, CloseOf
  <2>2. Chain(oms'.orders, Tail(r), h)
    <3> HIDE DEF r, h, id, e
    <3> QED BY <1>2, <1>5, <2>1, ChainApplyOther
  <2> QED BY <1>2, <1>3, <1>4, <1>5, <1>9, <2>2, AccountDropped
<1>10. CASE Unmoved(oms, oms') /\ e.kind # "Fill"
  <2>1. /\ id = r[1].id /\ r[1].kind # "Fill"
        /\ DOMAIN oms'.orders = DOMAIN oms.orders
        /\ \A i \in DOMAIN oms'.orders :
             oms'.orders[i].leaves = oms.orders[i].leaves
    BY <1>2, <1>10 DEF Unmoved
  <2>2. Chain(oms'.orders, Tail(r), h)
    <3> HIDE DEF r, h, id, e
    <3> QED BY <1>2, <1>5, <2>1, ChainApplyOther
  <2>3. WorstCase(oms')
    BY <1>5, <1>10 DEF WorstCase, Unmoved
  <2> QED BY <1>2, <1>3, <1>4, <1>5, <1>10, <2>2, <2>3, OpenUnmoved
<1>11. e.kind = "Fill" => id \in DOMAIN oms.orders
  <2>1. 1 \in 1..Len(r)
    BY <1>2
  <2> QED BY <1>2, <1>5, <2>1 DEF Chain, FillsKnown
<1>12. e.kind \in {"Ack", "Canceled", "Rejected", "Fill"}
  BY <1>1 DEF Exec
<1>13. \/ Filled(oms, oms', e) /\ e.kind = "Fill"
       \/ Dropped(oms, oms', id) /\ e.kind \in {"Canceled", "Rejected"}
       \/ Unmoved(oms, oms') /\ e.kind # "Fill"
  BY <1>1, <1>4, <1>11, <1>12, ExecType
<1> QED BY <1>8, <1>9, <1>10, <1>13

(* A fresh order goes out. *)
LEMMA InvSendNew ==
  ASSUME IInv, TypeOK', SendNew
  PROVE  IInv'
<1> DEFINE i == Head(intents)
           id == oms.next_cl_id
           r == Reports
           h == VenueHolds
           cmd == NewCmd(id, i.side, i.price, i.qty, i.tif)
<1>1. i \in Intent /\ i.kind = "New"
  BY DEF IInv, TypeOK, SendNew
<1>2. i.side \in Side /\ i.qty \in Int
  BY <1>1 DEF Intent, NewIntent, CancelIntent
<1>3. /\ Admissible(oms, kill, i.side, i.price, i.qty, mid2)
      /\ id <= MaxOrders
      /\ oms' = OnNewSent(NextClId(oms), id, i.side, i.price, i.qty)
      /\ orderCh' = Append(orderCh, cmd)
      /\ UNCHANGED <<batch, execCh, resting, taking>>
  BY DEF SendNew
<1>4. /\ i.qty \in Nat /\ WithinPosition(oms, i.side, i.qty)
  BY <1>2, <1>3 DEF Admissible
<1>5. IsOms(oms) /\ IsOms(oms') /\ orderCh \in Seq(OrderCmd)
  BY DEF IInv, TypeOK
<1>6. id \in OrderId /\ id \in Int
  <2>1. id \in 1..(MaxOrders + 1)
    BY <1>5 DEF IsOms
  <2> HIDE DEF id
  <2> QED BY <1>3, <2>1 DEF OrderId
<1>7. oms' = [orders |-> With(oms.orders, id, NewOrder(i.side, i.price, i.qty)),
              next_cl_id |-> id + 1, position |-> oms.position,
              cash |-> oms.cash, open |-> Shift(oms.open, i.side, i.qty)]
  BY <1>3, <1>5, NewSentEffect
<1>8. /\ id \notin DOMAIN oms.orders
      /\ \A k \in 1..Len(r) : r[k].id # id
      /\ \A k \in 1..Len(orderCh) : orderCh[k].id # id
      /\ id \notin DOMAIN resting
      /\ taking # NoOrder => taking.id # id
  BY <1>6 DEF IInv, Fresh
<1>9. Submitted(oms, oms', id, i.side, i.qty)
  <2>1. /\ oms'.orders = With(oms.orders, id, NewOrder(i.side, i.price, i.qty))
        /\ oms'.next_cl_id = id + 1 /\ oms'.position = oms.position
        /\ oms'.open = Shift(oms.open, i.side, i.qty)
    BY <1>7
  <2>2. oms.open \in [Side -> Int]
    BY <1>5 DEF IsOms
  <2> QED BY <1>2, <2>1, <2>2 DEF Submitted, With, NewOrder, Shift
<1>10. OpenIsSum(oms') /\ WorstCase(oms')
  BY <1>2, <1>4, <1>5, <1>6, <1>8, <1>9, AccountSubmitted DEF IInv
<1>11. /\ Len(orderCh) \in Nat /\ Len(orderCh') = Len(orderCh) + 1
       /\ \A k \in 1..Len(orderCh) : orderCh'[k] = orderCh[k]
       /\ orderCh'[Len(orderCh')] = cmd
       /\ \A k \in 1..Len(orderCh') :
            k \in 1..Len(orderCh) \/ k = Len(orderCh')
  BY <1>3, <1>5
<1>12. cmd.cmd = "New" /\ cmd.id = id /\ cmd.qty = i.qty
  BY DEF NewCmd
<1>13. Reports' = r
  BY <1>3 DEF Reports
<1>14. VenueHolds' = h \cup {<<id, i.qty>>}
  <2>1. ASSUME NEW x
        PROVE  OnWire(orderCh', x) <=> OnWire(orderCh, x) \/ (x[1] = id /\ x[2] = i.qty)
    <3> HIDE DEF id, cmd
    <3> QED BY <1>11, <1>12 DEF OnWire, IsNew
  <2>2. \A x \in OrderId \X Nat : x = <<id, i.qty>> <=> x[1] = id /\ x[2] = i.qty
    OBVIOUS
  <2>3. <<id, i.qty>> \in OrderId \X Nat
    BY <1>4, <1>6
  <2>4. h = Held(resting, taking, orderCh) /\ VenueHolds' = Held(resting, taking, orderCh')
    BY <1>3 DEF VenueHolds
  <2> HIDE DEF h, id
  <2> QED BY <2>1, <2>2, <2>3, <2>4 DEF Held
<1>15. \A x \in h : x[1] # id
  BY <1>8 DEF VenueHolds, Held, InBook, InHand, OnWire, IsNew
<1>16. Chain(oms'.orders, Reports', VenueHolds')
  <2>1. /\ DOMAIN oms'.orders = DOMAIN oms.orders \cup {id}
        /\ \A k \in DOMAIN oms.orders : oms'.orders[k].leaves = oms.orders[k].leaves
        /\ oms'.orders[id].leaves = i.qty
    BY <1>8, <1>9 DEF Submitted
  <2>2. Chain(oms.orders, r, h)
    BY DEF IInv
  <2> HIDE DEF r, h, id
  <2> QED BY <1>8, <1>13, <1>14, <1>15, <2>1, <2>2, ChainSubmit
<1>17. Lots(Reports', VenueHolds')
  BY <1>13, <1>14, <1>4 DEF IInv, Lots
<1>18. OnePlace(resting', taking', orderCh')
  <2> DEFINE ch == orderCh
             ch2 == orderCh'
             last == Len(orderCh')
  <2>1. OnePlace(resting, taking, ch)
    BY DEF IInv
  <2>2. /\ \A k \in 1..Len(ch2) :
             \/ k \in 1..Len(ch) /\ ch2[k] = ch[k]
             \/ k = last /\ ch2[k].id = id
        /\ \A k \in 1..Len(ch) : ch[k].id # id
    <3>1. ASSUME NEW k \in 1..Len(orderCh')
          PROVE  \/ k \in 1..Len(orderCh) /\ orderCh'[k] = orderCh[k]
                 \/ k = Len(orderCh') /\ orderCh'[k].id = id
      <4> HIDE DEF cmd, id
      <4>1. CASE k \in 1..Len(orderCh)
        BY <1>11, <4>1
      <4>2. CASE k = Len(orderCh')
        BY <1>11, <1>12, <4>2
      <4> QED BY <1>11, <4>1, <4>2
    <3>2. \A k \in 1..Len(orderCh) : orderCh[k].id # id
      BY <1>8
    <3> QED BY <3>1, <3>2
  <2>3. /\ resting' = resting /\ taking' = taking /\ id \notin DOMAIN resting
        /\ taking # NoOrder => taking.id # id
    BY <1>3, <1>8
  <2> HIDE DEF ch, ch2, id, last
  <2>4. OnePlace(resting, taking, ch2)
    <3>1. ASSUME NEW k \in 1..Len(ch2), NEW j \in 1..Len(ch2), IsNew(ch2, k),
                 IsNew(ch2, j), ch2[k].id = ch2[j].id
          PROVE  k = j
      BY <2>1, <2>2, <3>1 DEF OnePlace, IsNew
    <3>2. ASSUME NEW k \in 1..Len(ch2), IsNew(ch2, k)
          PROVE  /\ ch2[k].id \notin DOMAIN resting
                 /\ taking # NoOrder => ch2[k].id # taking.id
      BY <2>1, <2>2, <2>3, <3>2 DEF OnePlace, IsNew
    <3>3. taking # NoOrder => taking.id \notin DOMAIN resting
      BY <2>1 DEF OnePlace
    <3> QED BY <3>1, <3>2, <3>3 DEF OnePlace
  <2> QED BY <2>3, <2>4 DEF ch2
<1>19. CancelBehind(orderCh')
  BY <1>8, <1>11, <1>12 DEF IInv, CancelBehind, IsNew
<1>20. Fresh(oms', Reports', resting', taking', orderCh')
  <2>1. oms'.next_cl_id = id + 1 /\ DOMAIN oms'.orders = DOMAIN oms.orders \cup {id}
    BY <1>9 DEF Submitted
  <2>2. \A n \in OrderId : n < id => n < id + 1
    BY <1>6 DEF OrderId
  <2>3. DOMAIN oms.orders \subseteq OrderId /\ DOMAIN resting \subseteq OrderId
    BY DEF IInv, TypeOK, IsOms, IsPartialFunction
  <2>4. \A k \in 1..Len(r) : r[k].id \in OrderId
    <3>1. r \in Seq(Exec)
      BY ReportsType DEF IInv
    <3>2. ASSUME NEW k \in 1..Len(r) PROVE r[k].id \in OrderId
      <4>1. r[k] \in Exec BY <3>1
      <4> QED BY <4>1 DEF Exec
    <3> QED BY <3>2
  <2>5. \A k \in 1..Len(orderCh) : orderCh[k].id \in OrderId
    <3>1. ASSUME NEW k \in 1..Len(orderCh) PROVE orderCh[k].id \in OrderId
      <4>1. orderCh[k] \in OrderCmd BY <1>5
      <4> QED BY <4>1 DEF OrderCmd, NewOrderCmd
    <3> QED BY <3>1
  <2>6. taking # NoOrder => taking.id \in OrderId
    BY DEF IInv, TypeOK, NewOrderCmd
  <2>7. Fresh(oms, r, resting, taking, orderCh)
    BY DEF IInv
  <2>8. \A k \in DOMAIN oms'.orders : k < id + 1
    <3>1. \A k \in DOMAIN oms.orders : k < id
      BY <2>7 DEF Fresh
    <3> QED BY <1>6, <2>1, <2>2, <2>3, <3>1
  <2>9. \A k \in 1..Len(r) : r[k].id < id + 1
    BY <2>2, <2>4, <2>7 DEF Fresh
  <2>10. \A k \in DOMAIN resting : k < id + 1
    BY <2>2, <2>3, <2>7 DEF Fresh
  <2>11. taking # NoOrder => taking.id < id + 1
    BY <2>2, <2>6, <2>7 DEF Fresh
  <2>12. \A k \in 1..Len(orderCh') : orderCh'[k].id < id + 1
    <3>1. \A k \in 1..Len(orderCh) : orderCh[k].id < id + 1
      BY <2>2, <2>5, <2>7 DEF Fresh
    <3> HIDE DEF id, cmd
    <3> QED BY <1>6, <1>11, <1>12, <3>1
  <2> HIDE DEF r, id
  <2> QED BY <1>3, <1>13, <2>1, <2>8, <2>9, <2>10, <2>11, <2>12 DEF Fresh
<1> QED BY <1>10, <1>16, <1>17, <1>18, <1>19, <1>20 DEF IInv

(* A cancel follows its order on the wire. *)
LEMMA InvSendCancel ==
  ASSUME IInv, TypeOK', SendCancel
  PROVE  IInv'
<1> DEFINE id == Head(intents).id
<1>1. /\ IsOms(oms) /\ IsOms(oms') /\ orderCh \in Seq(OrderCmd)
      /\ UNCHANGED <<batch, execCh, resting, taking>>
  BY DEF IInv, TypeOK, SendCancel
<1>2. Reports' = Reports
  BY <1>1 DEF Reports
<1>3. CASE UNCHANGED <<oms, orderCh>>
  BY <1>1, <1>2, <1>3, InvQuiet
<1>4. CASE /\ id \in DOMAIN oms.orders
           /\ oms' = SetStatus(oms, id, "PendingCancel")
           /\ orderCh' = Append(orderCh, CancelCmd(id))
  <2>1. Unmoved(oms, oms')
    BY <1>1, <1>4, SetStatusType DEF OrdStatus
  <2>2. /\ Len(orderCh) \in Nat /\ Len(orderCh') = Len(orderCh) + 1
        /\ \A k \in 1..Len(orderCh) : orderCh'[k] = orderCh[k]
        /\ orderCh'[Len(orderCh')] = CancelCmd(id)
        /\ \A k \in 1..Len(orderCh') :
             k \in 1..Len(orderCh) \/ k = Len(orderCh')
    BY <1>1, <1>4
  <2>3. CancelCmd(id).cmd = "Cancel" /\ CancelCmd(id).id = id
    BY DEF CancelCmd
  <2>4. VenueHolds' = VenueHolds
    <3>1. ASSUME NEW x PROVE OnWire(orderCh', x) <=> OnWire(orderCh, x)
      BY <2>2, <2>3 DEF OnWire, IsNew
    <3> QED BY <1>1, <3>1 DEF VenueHolds, Held
  <2>5. Chain(oms'.orders, Reports', VenueHolds')
    BY <1>2, <2>1, <2>4, ChainSame DEF IInv, Unmoved
  <2>6. OpenIsSum(oms') /\ WorstCase(oms')
    BY <1>1, <2>1, OpenUnmoved DEF IInv, WorstCase, Unmoved
  <2>7. OnePlace(resting', taking', orderCh')
    BY <1>1, <2>2, <2>3 DEF IInv, OnePlace, IsNew
  <2>8. CancelBehind(orderCh')
    <3> SUFFICES ASSUME NEW k \in 1..Len(orderCh'), NEW j \in 1..Len(orderCh'),
                        k < j, orderCh'[k].cmd = "Cancel", IsNew(orderCh', j)
                 PROVE  orderCh'[k].id # orderCh'[j].id
      BY DEF CancelBehind
    <3>1. j \in 1..Len(orderCh) /\ k \in 1..Len(orderCh)
      BY <2>2, <2>3 DEF IsNew
    <3> QED BY <2>2, <3>1 DEF IInv, CancelBehind, IsNew
  <2>9. Fresh(oms', Reports', resting', taking', orderCh')
    BY <1>1, <1>2, <1>4, <2>1, <2>2, <2>3 DEF IInv, Fresh, Unmoved
  <2>10. Lots(Reports', VenueHolds')
    BY <1>2, <2>4 DEF IInv
  <2> QED BY <2>5, <2>6, <2>7, <2>8, <2>9, <2>10 DEF IInv
<1> QED BY <1>3, <1>4 DEF SendCancel, OnCancelSent

-----------------------------------------------------------------------------
(* The invariant, action by action: the venue. *)

(* The wire moves on by one. *)
LEMMA WireTail ==
  ASSUME TypeOK, OnePlace(resting, taking, orderCh), CancelBehind(orderCh),
         orderCh # <<>>, orderCh' = Tail(orderCh)
  PROVE  /\ OnePlace(resting, taking, orderCh')
         /\ CancelBehind(orderCh')
         /\ \A x : OnWire(orderCh, x) <=>
                 \/ OnWire(orderCh', x)
                 \/ /\ Head(orderCh).cmd = "New"
                    /\ x[1] = Head(orderCh).id /\ x[2] = Head(orderCh).qty
         /\ \A k \in 1..Len(orderCh') :
              IsNew(orderCh', k) => orderCh'[k].id # Head(orderCh).id
         /\ \A k \in 1..Len(orderCh') :
              k+1 \in 1..Len(orderCh) /\ orderCh'[k] = orderCh[k+1]
<1> DEFINE ch == orderCh
           ch2 == Tail(orderCh)
<1>1. /\ Len(ch) \in Nat /\ Len(ch) >= 1 /\ Len(ch2) = Len(ch) - 1
      /\ \A k \in 1..Len(ch2) : k+1 \in 1..Len(ch) /\ ch2[k] = ch[k+1]
      /\ Head(ch) = ch[1]
  BY DEF TypeOK
<1>2. \A k \in 1..Len(ch) : k = 1 \/ (k-1 \in 1..Len(ch2) /\ ch2[k-1] = ch[k])
  BY <1>1
<1>3. orderCh' = ch2 /\ orderCh = ch
  OBVIOUS
<1>4. OnePlace(resting, taking, ch) /\ CancelBehind(ch)
  OBVIOUS
<1> HIDE DEF ch, ch2
<1>5. OnePlace(resting, taking, ch2)
  <2>1. ASSUME NEW i \in 1..Len(ch2), IsNew(ch2, i)
        PROVE  IsNew(ch, i+1) /\ i+1 \in 1..Len(ch) /\ ch2[i].id = ch[i+1].id
    BY <1>1, <2>1 DEF IsNew
  <2>2. ASSUME NEW i \in 1..Len(ch2), NEW j \in 1..Len(ch2),
               IsNew(ch2, i), IsNew(ch2, j), ch2[i].id = ch2[j].id
        PROVE  i = j
    <3>1. i+1 = j+1
      BY <1>4, <2>1, <2>2 DEF OnePlace
    <3> QED BY <3>1
  <2>3. ASSUME NEW i \in 1..Len(ch2), IsNew(ch2, i)
        PROVE  /\ ch2[i].id \notin DOMAIN resting
               /\ taking # NoOrder => ch2[i].id # taking.id
    BY <1>4, <2>1, <2>3 DEF OnePlace
  <2>4. taking # NoOrder => taking.id \notin DOMAIN resting
    BY <1>4 DEF OnePlace
  <2> QED BY <2>2, <2>3, <2>4 DEF OnePlace
<1>6. CancelBehind(ch2)
  <2> SUFFICES ASSUME NEW k \in 1..Len(ch2), NEW j \in 1..Len(ch2),
                      k < j, ch2[k].cmd = "Cancel", IsNew(ch2, j)
               PROVE  ch2[k].id # ch2[j].id
    BY DEF CancelBehind
  <2>1. /\ k+1 \in 1..Len(ch) /\ j+1 \in 1..Len(ch) /\ k+1 < j+1
        /\ ch2[k] = ch[k+1] /\ ch2[j] = ch[j+1]
    BY <1>1
  <2>2. IsNew(ch, j+1)
    BY <2>1 DEF IsNew
  <2> QED BY <1>4, <2>1, <2>2 DEF CancelBehind
<1>7. ASSUME NEW x
      PROVE  OnWire(ch, x) <=> \/ OnWire(ch2, x)
                               \/ /\ Head(ch).cmd = "New"
                                  /\ x[1] = Head(ch).id /\ x[2] = Head(ch).qty
  <2>1. OnWire(ch, x) => \/ OnWire(ch2, x)
                         \/ /\ Head(ch).cmd = "New"
                            /\ x[1] = Head(ch).id /\ x[2] = Head(ch).qty
    <3> SUFFICES ASSUME NEW i \in 1..Len(ch), ch[i].cmd = "New",
                        x[1] = ch[i].id, x[2] = ch[i].qty, i # 1
                 PROVE  OnWire(ch2, x)
      BY <1>1 DEF OnWire, IsNew
    <3>1. i-1 \in 1..Len(ch2) /\ ch2[i-1] = ch[i]
      BY <1>2
    <3> QED BY <3>1 DEF OnWire, IsNew
  <2>2. OnWire(ch2, x) => OnWire(ch, x)
    BY <1>1 DEF OnWire, IsNew
  <2>3. Head(ch).cmd = "New" /\ x[1] = Head(ch).id /\ x[2] = Head(ch).qty
          => OnWire(ch, x)
    BY <1>1 DEF OnWire, IsNew
  <2> QED BY <2>1, <2>2, <2>3
<1>8. ASSUME NEW k \in 1..Len(ch2), IsNew(ch2, k)
      PROVE  ch2[k].id # Head(ch).id
  <2>1. /\ k+1 \in 1..Len(ch) /\ IsNew(ch, k+1) /\ ch2[k] = ch[k+1]
        /\ 1 \in 1..Len(ch) /\ 1 < k+1
    BY <1>1, <1>8 DEF IsNew
  <2>2. ch[1].cmd \in {"New", "Cancel"}
    <3>1. ch[1] \in OrderCmd
      BY <1>1, <1>3 DEF TypeOK
    <3> QED BY <3>1 DEF OrderCmd, NewOrderCmd
  <2> QED BY <1>1, <1>4, <2>1, <2>2 DEF OnePlace, CancelBehind, IsNew
<1> QED BY <1>1, <1>3, <1>5, <1>6, <1>7, <1>8

(* What every step of the venue leaves to show. *)
LEMMA InvVenue ==
  ASSUME IInv, TypeOK', UNCHANGED engineVars,
         NEW e \in Exec, Report(e), e.id < oms.next_cl_id,
         Chain(oms.orders, Append(Reports, e), VenueHolds'),
         OnePlace(resting', taking', orderCh'), CancelBehind(orderCh'),
         \A id \in DOMAIN resting' : id < oms.next_cl_id,
         taking' # NoOrder => taking'.id < oms.next_cl_id,
         \A i \in 1..Len(orderCh') : orderCh'[i].id < oms.next_cl_id
  PROVE  IInv'
<1>1. oms' = oms /\ batch' = batch
  BY DEF engineVars
<1>2. Reports \in Seq(Exec) /\ Reports' = Append(Reports, e)
  BY <1>1, ReportsType, ReportsAppend DEF IInv
<1>3. Lots(Reports', VenueHolds')
  <2>1. Reports' \in Seq(Exec)
    BY <1>2
  <2>2. VenueHolds' = Held(resting', taking', orderCh')
    BY DEF VenueHolds
  <2> QED BY <2>1, <2>2, LotsHold
<1>4. Fresh(oms', Reports', resting', taking', orderCh')
  <2> DEFINE r == Reports
             r2 == Append(r, e)
  <2>1. \A i \in 1..Len(r2) : (i \in 1..Len(r) /\ r2[i] = r[i]) \/ r2[i] = e
    BY <1>2
  <2>2. Fresh(oms, r, resting, taking, orderCh)
    BY DEF IInv
  <2> HIDE DEF r, r2
  <2>3. Reports' = r2
    BY <1>2 DEF r, r2
  <2> QED BY <1>1, <2>1, <2>2, <2>3 DEF Fresh
<1>5. OpenIsSum(oms') /\ WorstCase(oms')
  BY <1>1 DEF IInv
<1>6. Chain(oms'.orders, Reports', VenueHolds')
  BY <1>1, <1>2
<1> QED BY <1>3, <1>4, <1>5, <1>6 DEF IInv

LEMMA InvVenueSilent ==
  ASSUME IInv, TypeOK', UNCHANGED engineVars, UNCHANGED execCh,
         VenueHolds' \subseteq VenueHolds,
         OnePlace(resting', taking', orderCh'), CancelBehind(orderCh'),
         \A id \in DOMAIN resting' : id < oms.next_cl_id,
         taking' # NoOrder => taking'.id < oms.next_cl_id,
         \A i \in 1..Len(orderCh') : orderCh'[i].id < oms.next_cl_id
  PROVE  IInv'
<1>1. oms' = oms /\ Reports' = Reports
  BY DEF engineVars, Reports
<1>2. Chain(oms.orders, Reports, VenueHolds')
  BY ChainSame DEF IInv
<1>3. Lots(Reports, VenueHolds')
  BY DEF IInv, Lots
<1>4. Fresh(oms, Reports, resting', taking', orderCh')
  BY DEF IInv, Fresh
<1>5. OpenIsSum(oms) /\ WorstCase(oms)
  BY DEF IInv
<1> QED BY <1>1, <1>2, <1>3, <1>4, <1>5 DEF IInv

(* The order at the head of the wire: it is nowhere else. *)
LEMMA HeadFacts ==
  ASSUME IInv, orderCh # <<>>
  PROVE  /\ Head(orderCh) = orderCh[1] /\ 1 \in 1..Len(orderCh)
         /\ Head(orderCh) \in OrderCmd /\ Head(orderCh).id \in OrderId
         /\ Head(orderCh).id < oms.next_cl_id
         /\ Head(orderCh).cmd = "New" =>
              /\ Head(orderCh).id \notin DOMAIN resting
              /\ taking # NoOrder => Head(orderCh).id # taking.id
              /\ Head(orderCh).qty \in Nat
<1>1. /\ Head(orderCh) = orderCh[1] /\ 1 \in 1..Len(orderCh)
      /\ orderCh[1] \in OrderCmd
  BY DEF IInv, TypeOK
<1>2. orderCh[1].id \in OrderId /\ (orderCh[1].cmd = "New" => orderCh[1].qty \in Nat)
  BY <1>1 DEF OrderCmd, NewOrderCmd
<1> QED BY <1>1, <1>2 DEF IInv, Fresh, OnePlace, IsNew

LEMMA InvReject ==
  ASSUME IInv, TypeOK', VenueReject, UNCHANGED engineVars
  PROVE  IInv'
<1> DEFINE id == Head(orderCh).id
           e == Rejected(id, "WouldCross")
           h == VenueHolds
           h2 == VenueHolds'
<1>1. /\ orderCh # <<>> /\ Head(orderCh).cmd = "New" /\ taking = NoOrder
      /\ orderCh' = Tail(orderCh) /\ Report(e) /\ UNCHANGED <<resting, taking>>
  BY DEF VenueReject
<1>2. /\ e \in Exec /\ e.id = id /\ e.kind = "Rejected"
  BY <1>1, HeadFacts DEF Exec, Rejected, RejectReason
<1>3. h2 \subseteq h
  BY <1>1, WireTail DEF VenueHolds, Held, IInv
<1>4. \A x \in h2 : x[1] # id
  BY <1>1, HeadFacts, WireTail
     DEF VenueHolds, Held, IInv, InBook, InHand, OnWire
<1>5. Chain(oms.orders, Append(Reports, e), h2)
  <2>1. Chain(oms.orders, Reports, h2)
    BY <1>3, ChainSame DEF IInv
  <2>2. Reports \in Seq(Exec)
    BY ReportsType DEF IInv
  <2> HIDE DEF e, h2, id
  <2> QED BY <1>2, <1>4, <2>1, <2>2, ChainReport
<1>6. \A i \in 1..Len(orderCh') : orderCh'[i].id < oms.next_cl_id
  BY <1>1, WireTail DEF IInv, Fresh
<1>7. /\ OnePlace(resting', taking', orderCh') /\ CancelBehind(orderCh')
      /\ \A i \in DOMAIN resting' : i < oms.next_cl_id
      /\ taking' # NoOrder => taking'.id < oms.next_cl_id
  BY <1>1, WireTail DEF IInv, Fresh
<1>8. e.id < oms.next_cl_id
  BY <1>1, <1>2, HeadFacts
<1> HIDE DEF e
<1> QED BY <1>1, <1>2, <1>5, <1>6, <1>7, <1>8, InvVenue

LEMMA InvAccept ==
  ASSUME IInv, TypeOK', VenueAccept, UNCHANGED engineVars
  PROVE  IInv'
<1> DEFINE id == Head(orderCh).id
           e == Ack(id)
           h == VenueHolds
           h2 == VenueHolds'
<1>1. /\ orderCh # <<>> /\ Head(orderCh).cmd = "New" /\ taking = NoOrder
      /\ orderCh' = Tail(orderCh) /\ Report(e) /\ UNCHANGED resting
      /\ taking' = Head(orderCh)
  BY DEF VenueAccept
<1>2. /\ e \in Exec /\ e.id = id /\ e.kind = "Ack"
  BY <1>1, HeadFacts DEF Exec, Ack
<1>3. h2 \subseteq h
  BY <1>1, WireTail DEF VenueHolds, Held, IInv, InHand
<1>5. Chain(oms.orders, Append(Reports, e), h2)
  <2>1. Chain(oms.orders, Reports, h2)
    BY <1>3, ChainSame DEF IInv
  <2>2. Reports \in Seq(Exec)
    BY ReportsType DEF IInv
  <2> HIDE DEF e, h2, id
  <2> QED BY <1>2, <2>1, <2>2, ChainReport
<1>6. \A i \in 1..Len(orderCh') : orderCh'[i].id < oms.next_cl_id
  BY <1>1, WireTail DEF IInv, Fresh
<1>7. /\ \A i \in DOMAIN resting' : i < oms.next_cl_id
      /\ taking' # NoOrder => taking'.id < oms.next_cl_id
  BY <1>1, HeadFacts DEF IInv, Fresh
<1>8. OnePlace(resting', taking', orderCh') /\ CancelBehind(orderCh')
  <2>1. /\ OnePlace(resting, taking, orderCh') /\ CancelBehind(orderCh')
        /\ \A k \in 1..Len(orderCh') : IsNew(orderCh', k) => orderCh'[k].id # id
    BY <1>1, WireTail DEF IInv
  <2>2. id \notin DOMAIN resting
    BY <1>1, HeadFacts
  <2> QED BY <1>1, <2>1, <2>2 DEF OnePlace
<1>9. e.id < oms.next_cl_id
  BY <1>1, <1>2, HeadFacts
<1> HIDE DEF e
<1> QED BY <1>1, <1>2, <1>5, <1>6, <1>7, <1>8, <1>9, InvVenue

LEMMA InvRest ==
  ASSUME IInv, TypeOK', VenueRest, UNCHANGED engineVars
  PROVE  IInv'
<1> DEFINE id == taking.id
           e == Canceled(id)
           h == VenueHolds
           h2 == VenueHolds'
<1>1. /\ taking # NoOrder /\ taking' = NoOrder /\ orderCh' = orderCh
  BY DEF VenueRest
<1>2. id \in OrderId /\ id < oms.next_cl_id /\ taking.qty \in Nat
  BY <1>1 DEF IInv, Fresh, TypeOK, NewOrderCmd
<1>3. /\ id \notin DOMAIN resting
      /\ \A k \in 1..Len(orderCh) : IsNew(orderCh, k) => orderCh[k].id # id
  BY <1>1 DEF IInv, OnePlace
<1>4. /\ CancelBehind(orderCh')
      /\ \A i \in 1..Len(orderCh') : orderCh'[i].id < oms.next_cl_id
      /\ taking' # NoOrder => taking'.id < oms.next_cl_id
  BY <1>1 DEF IInv, Fresh
<1>5. CASE taking.qty > 0 /\ taking.tif = "Ioc"
  <2>1. Report(e) /\ resting' = resting
    BY <1>5 DEF VenueRest
  <2>2. e \in Exec /\ e.id = id /\ e.kind = "Canceled"
    BY <1>2 DEF Exec, Canceled
  <2>3. h2 \subseteq h
    BY <1>1, <2>1 DEF VenueHolds, Held, InHand
  <2>4. \A x \in h2 : x[1] # id
    BY <1>1, <1>3, <2>1 DEF VenueHolds, Held, InBook, InHand, OnWire
  <2>5. Chain(oms.orders, Append(Reports, e), h2)
    <3>1. Chain(oms.orders, Reports, h2)
      BY <2>3, ChainSame DEF IInv
    <3>2. Reports \in Seq(Exec)
      BY ReportsType DEF IInv
    <3> HIDE DEF e, h2, id
    <3> QED BY <2>2, <2>4, <3>1, <3>2, ChainReport
  <2>6. OnePlace(resting', taking', orderCh')
    BY <1>1, <2>1 DEF IInv, OnePlace
  <2>7. \A i \in DOMAIN resting' : i < oms.next_cl_id
    BY <2>1 DEF IInv, Fresh
  <2> HIDE DEF e
  <2> QED BY <1>2, <1>4, <2>1, <2>2, <2>5, <2>6, <2>7, InvVenue
<1>6. CASE taking.qty > 0 /\ taking.tif # "Ioc"
  <2> DEFINE v == [side |-> taking.side, price |-> taking.price,
                   leaves |-> taking.qty]
  <2>1. resting' = With(resting, id, v) /\ UNCHANGED execCh
    BY <1>6 DEF VenueRest
  <2>2. /\ DOMAIN resting' = DOMAIN resting \cup {id}
        /\ resting'[id].leaves = taking.qty
        /\ \A y \in DOMAIN resting : y # id => resting'[y] = resting[y]
    BY <2>1 DEF With
  <2>3. h2 \subseteq h
    BY <1>1, <1>3, <2>2 DEF VenueHolds, Held, InBook, InHand
  <2>4. OnePlace(resting', taking', orderCh')
    BY <1>1, <1>3, <2>2 DEF IInv, OnePlace
  <2>5. \A i \in DOMAIN resting' : i < oms.next_cl_id
    BY <1>2, <2>2 DEF IInv, Fresh
  <2> QED BY <1>4, <2>1, <2>3, <2>4, <2>5, InvVenueSilent
<1>7. CASE ~(taking.qty > 0)
  <2>1. resting' = resting /\ UNCHANGED execCh
    BY <1>7 DEF VenueRest
  <2>2. h2 \subseteq h
    BY <1>1, <2>1 DEF VenueHolds, Held, InHand
  <2>3. OnePlace(resting', taking', orderCh')
    BY <1>1, <2>1 DEF IInv, OnePlace
  <2>4. \A i \in DOMAIN resting' : i < oms.next_cl_id
    BY <2>1 DEF IInv, Fresh
  <2> QED BY <1>4, <2>1, <2>2, <2>3, <2>4, InvVenueSilent
<1> QED BY <1>5, <1>6, <1>7

LEMMA InvTake ==
  ASSUME IInv, TypeOK', UNCHANGED engineVars, taking # NoOrder,
         NEW price \in Prices, NEW qty \in 1..taking.qty, VenueTake(price, qty)
  PROVE  IInv'
<1> DEFINE id == taking.id
           q == taking.qty
           e == Fill(id, price, qty, q - qty)
           h == VenueHolds
           h2 == VenueHolds'
<1>1. /\ Report(e) /\ UNCHANGED <<orderCh, resting>>
      /\ taking' = [taking EXCEPT !.qty = q - qty]
  BY DEF VenueTake
<1>2. /\ taking \in NewOrderCmd /\ id \in OrderId /\ id < oms.next_cl_id
      /\ q \in Nat /\ q - qty \in Nat
  <2>1. taking \in NewOrderCmd
    BY DEF IInv, TypeOK
  <2>2. id \in OrderId /\ q \in Nat
    BY <2>1 DEF NewOrderCmd
  <2>3. id < oms.next_cl_id
    BY DEF IInv, Fresh
  <2>4. q - qty \in Nat
    BY <2>2
  <2> QED BY <2>1, <2>2, <2>3, <2>4
<1>3. taking'.id = id /\ taking'.qty = q - qty
  BY <1>1, <1>2 DEF NewOrderCmd
<1>4. /\ id \notin DOMAIN resting
      /\ \A k \in 1..Len(orderCh) : IsNew(orderCh, k) => orderCh[k].id # id
  BY DEF IInv, OnePlace
<1>5. /\ e \in Exec /\ e.id = id /\ e.kind = "Fill" /\ e.qty = qty
      /\ e.leaves = q - qty
  BY <1>2 DEF Exec, Fill
<1>6. <<id, q>> \in h
  <2>1. <<id, q>> \in OrderId \X Nat /\ InHand(taking, <<id, q>>)
    BY <1>2 DEF InHand
  <2> HIDE DEF id, q
  <2> QED BY <2>1 DEF VenueHolds, Held
<1>7. \A x \in h2 : (x \in h /\ x[1] # id) \/ x = <<id, q - qty>>
  <2> SUFFICES ASSUME NEW x \in h2
               PROVE  (x \in h /\ x[1] # id) \/ x = <<id, q - qty>>
    OBVIOUS
  <2>1. /\ x \in OrderId \X Nat
        /\ InBook(resting, x) \/ InHand(taking', x) \/ OnWire(orderCh, x)
    BY <1>1 DEF VenueHolds, Held
  <2>2. InHand(taking', x) => x = <<id, q - qty>>
    BY <1>3, <2>1 DEF InHand
  <2>3. InBook(resting, x) \/ OnWire(orderCh, x) => x \in h /\ x[1] # id
    BY <1>4, <2>1 DEF VenueHolds, Held, InBook, OnWire
  <2> QED BY <2>1, <2>2, <2>3
<1>8. Chain(oms.orders, Append(Reports, e), h2)
  <2> DEFINE r == Reports
             orders == oms.orders
  <2>1. r \in Seq(Exec) /\ Lots(r, h) /\ Chain(orders, r, h)
    BY ReportsType DEF IInv
  <2>2. q = e.qty + e.leaves /\ e.qty \in Nat /\ e.qty > 0 /\ e.leaves \in Nat
    BY <1>2, <1>5
  <2>3. /\ <<e.id, e.qty + e.leaves>> \in h
        /\ \A x \in h2 : (x \in h /\ x[1] # e.id) \/ x = <<e.id, e.leaves>>
    BY <1>5, <1>6, <1>7, <2>2
  <2> HIDE DEF e, h, h2, q, r, orders, id
  <2>4. Chain(orders, Append(r, e), h2)
    BY <1>5, <2>1, <2>2, <2>3, ChainFill
  <2> QED BY <2>4 DEF orders, r
<1>9. OnePlace(resting', taking', orderCh')
  BY <1>1, <1>3, <1>4 DEF IInv, OnePlace
<1>10. /\ CancelBehind(orderCh')
       /\ \A i \in DOMAIN resting' : i < oms.next_cl_id
       /\ taking' # NoOrder => taking'.id < oms.next_cl_id
       /\ \A i \in 1..Len(orderCh') : orderCh'[i].id < oms.next_cl_id
  BY <1>1, <1>2, <1>3 DEF IInv, Fresh
<1>11. e.id < oms.next_cl_id
  BY <1>2, <1>5
<1> HIDE DEF e
<1> QED BY <1>1, <1>5, <1>8, <1>9, <1>10, <1>11, InvVenue

LEMMA InvMake ==
  ASSUME IInv, TypeOK', UNCHANGED engineVars,
         NEW id \in DOMAIN resting, NEW qty \in 1..resting[id].leaves,
         VenueMake(id, qty)
  PROVE  IInv'
<1> DEFINE q == resting[id].leaves
           e == Fill(id, resting[id].price, qty, q - qty)
           h == VenueHolds
           h2 == VenueHolds'
<1>1. /\ Report(e) /\ UNCHANGED <<orderCh, taking>>
      /\ resting' = IF q - qty = 0 THEN Without(resting, id)
                    ELSE With(resting, id, [resting[id] EXCEPT !.leaves = q - qty])
  BY DEF VenueMake
<1>2. /\ id \in OrderId /\ resting[id] \in Resting
      /\ resting[id].price \in Prices /\ q \in Nat /\ id < oms.next_cl_id
  BY DEF IInv, TypeOK, IsPartialFunction, Resting, Fresh
<1>3. q - qty \in Nat
  <2> HIDE DEF q
  <2> QED BY <1>2 DEF q
<1>4. /\ DOMAIN resting' \subseteq DOMAIN resting
      /\ \A y \in DOMAIN resting' : y # id => resting'[y] = resting[y]
      /\ id \in DOMAIN resting' => resting'[id].leaves = q - qty
  <2>1. CASE q - qty = 0
    <3>1. resting' = Without(resting, id) BY <1>1, <2>1
    <3> QED BY <3>1 DEF Without
  <2>2. CASE q - qty # 0
    <3> DEFINE v == [resting[id] EXCEPT !.leaves = q - qty]
    <3>1. resting' = With(resting, id, v) BY <1>1, <2>2
    <3>2. v.leaves = q - qty
      BY <1>2 DEF Resting
    <3> HIDE DEF v
    <3> QED BY <3>1, <3>2 DEF With
  <2> QED BY <2>1, <2>2
<1>5. /\ \A k \in 1..Len(orderCh) : IsNew(orderCh, k) => orderCh[k].id # id
      /\ taking # NoOrder => taking.id # id
  BY DEF IInv, OnePlace
<1>6. /\ e \in Exec /\ e.id = id /\ e.kind = "Fill" /\ e.qty = qty
      /\ e.leaves = q - qty
  BY <1>2, <1>3 DEF Exec, Fill
<1>7. <<id, q>> \in h
  <2>1. <<id, q>> \in OrderId \X Nat /\ InBook(resting, <<id, q>>)
    BY <1>2 DEF InBook
  <2> HIDE DEF q
  <2> QED BY <2>1 DEF VenueHolds, Held
<1>8. \A x \in h2 : (x \in h /\ x[1] # id) \/ x = <<id, q - qty>>
  <2> SUFFICES ASSUME NEW x \in h2
               PROVE  (x \in h /\ x[1] # id) \/ x = <<id, q - qty>>
    OBVIOUS
  <2>1. /\ x \in OrderId \X Nat
        /\ InBook(resting', x) \/ InHand(taking, x) \/ OnWire(orderCh, x)
    BY <1>1 DEF VenueHolds, Held
  <2>2. InBook(resting', x) /\ x[1] = id => x = <<id, q - qty>>
    BY <1>4, <2>1 DEF InBook
  <2>3. InBook(resting', x) /\ x[1] # id => x \in h
    BY <1>4, <2>1 DEF VenueHolds, Held, InBook
  <2>4. InHand(taking, x) \/ OnWire(orderCh, x) => x \in h /\ x[1] # id
    BY <1>5, <2>1 DEF VenueHolds, Held, InHand, OnWire
  <2> QED BY <2>1, <2>2, <2>3, <2>4
<1>9. Chain(oms.orders, Append(Reports, e), h2)
  <2> DEFINE r == Reports
             orders == oms.orders
  <2>1. r \in Seq(Exec) /\ Lots(r, h) /\ Chain(orders, r, h)
    BY ReportsType DEF IInv
  <2>2. q = e.qty + e.leaves /\ e.qty \in Nat /\ e.qty > 0 /\ e.leaves \in Nat
    <3> HIDE DEF e
    <3> QED BY <1>2, <1>3, <1>6
  <2>3. /\ <<e.id, e.qty + e.leaves>> \in h
        /\ \A x \in h2 : (x \in h /\ x[1] # e.id) \/ x = <<e.id, e.leaves>>
    <3> HIDE DEF e, h, h2, q
    <3> QED BY <1>6, <1>7, <1>8, <2>2
  <2> HIDE DEF e, h, h2, q, r, orders
  <2>4. Chain(orders, Append(r, e), h2)
    BY <1>6, <2>1, <2>2, <2>3, ChainFill
  <2> QED BY <2>4 DEF orders, r
<1>10. OnePlace(resting', taking', orderCh')
  BY <1>1, <1>4 DEF IInv, OnePlace
<1>11. /\ CancelBehind(orderCh')
       /\ \A i \in DOMAIN resting' : i < oms.next_cl_id
       /\ taking' # NoOrder => taking'.id < oms.next_cl_id
       /\ \A i \in 1..Len(orderCh') : orderCh'[i].id < oms.next_cl_id
  BY <1>1, <1>4 DEF IInv, Fresh
<1>12. e.id < oms.next_cl_id
  BY <1>2, <1>6
<1> HIDE DEF e
<1> QED BY <1>1, <1>6, <1>9, <1>10, <1>11, <1>12, InvVenue

LEMMA InvCancel ==
  ASSUME IInv, TypeOK', VenueCancel, UNCHANGED engineVars
  PROVE  IInv'
<1> DEFINE id == Head(orderCh).id
           h == VenueHolds
           h2 == VenueHolds'
<1>1. /\ orderCh # <<>> /\ Head(orderCh).cmd = "Cancel" /\ taking = NoOrder
      /\ orderCh' = Tail(orderCh) /\ UNCHANGED taking
  BY DEF VenueCancel
<1>2. PICK e \in {Canceled(id), Rejected(id, "UnknownOrder")} :
        /\ Report(e)
        /\ DOMAIN resting' = DOMAIN resting \ {id}
        /\ \A i \in DOMAIN resting' : resting'[i] = resting[i]
  BY DEF VenueCancel, Without
<1>3. /\ e \in Exec /\ e.id = id /\ e.kind # "Fill"
  BY <1>1, HeadFacts DEF Exec, Canceled, Rejected, RejectReason
<1>4. h2 \subseteq h
  BY <1>1, <1>2, WireTail DEF VenueHolds, Held, IInv, InBook
<1>5. \A x \in h2 : x[1] # id
  BY <1>1, <1>2, WireTail DEF VenueHolds, Held, IInv, InBook, InHand, OnWire
<1>6. Chain(oms.orders, Append(Reports, e), h2)
  <2>1. Chain(oms.orders, Reports, h2)
    BY <1>4, ChainSame DEF IInv
  <2>2. Reports \in Seq(Exec)
    BY ReportsType DEF IInv
  <2> HIDE DEF h2, id
  <2> QED BY <1>3, <1>5, <2>1, <2>2, ChainReport
<1>7. \A i \in 1..Len(orderCh') : orderCh'[i].id < oms.next_cl_id
  BY <1>1, WireTail DEF IInv, Fresh
<1>8. /\ CancelBehind(orderCh')
      /\ \A i \in DOMAIN resting' : i < oms.next_cl_id
      /\ taking' # NoOrder => taking'.id < oms.next_cl_id
  BY <1>1, <1>2, WireTail DEF IInv, Fresh
<1>9. OnePlace(resting', taking', orderCh')
  <2>1. OnePlace(resting, taking, orderCh')
    BY <1>1, WireTail DEF IInv
  <2> QED BY <1>1, <1>2, <2>1 DEF OnePlace
<1>10. e.id < oms.next_cl_id
  BY <1>1, <1>3, HeadFacts
<1> QED BY <1>2, <1>3, <1>6, <1>7, <1>8, <1>9, <1>10, InvVenue

LEMMA InvStep == IInv /\ [Next]_vars => IInv'
<1> SUFFICES ASSUME IInv, [Next]_vars PROVE IInv'
  OBVIOUS
<1>1. TypeOK'
  BY TypeStep DEF IInv
<1>2. ASSUME UNCHANGED <<oms, batch, venueVars>> PROVE IInv'
  BY <1>1, <1>2, InvQuiet DEF venueVars, Reports
<1>3. CASE OnMd \/ DrainVenue \/ OnBook \/ RefuseNew \/ Housekeeping \/ CheckPnl
  BY <1>2, <1>3 DEF OnMd, DrainVenue, OnBook, RefuseNew, Housekeeping, CheckPnl
<1>4. CASE Kill \/ Unkill \/ UNCHANGED vars
  BY <1>2, <1>4 DEF Kill, Unkill, vars, engineVars
<1>5. CASE Poll
  <2>1. Reports' = Reports
    BY <1>5, ReportsPolled DEF IInv
  <2> QED BY <1>1, <1>5, <2>1, InvQuiet DEF Poll
<1>6. CASE ApplyExec
  BY <1>1, <1>6, InvApply
<1>7. CASE SendNew
  BY <1>1, <1>7, InvSendNew
<1>8. CASE SendCancel
  BY <1>1, <1>8, InvSendCancel
<1>9. CASE VenueNext /\ UNCHANGED engineVars
  BY <1>1, <1>9, InvReject, InvAccept, InvRest, InvCancel, InvTake, InvMake
     DEF VenueNext, VenueCommand, VenueTrade
<1> QED BY <1>3, <1>4, <1>5, <1>6, <1>7, <1>8, <1>9
        DEF Next, EngineNext, Working

LEMMA InvAlways == Spec => []IInv
BY InvInit, InvStep, PTL DEF Spec

-----------------------------------------------------------------------------

LEMMA InvImpliesLimit == IInv => PositionWithinLimit
<1> SUFFICES ASSUME IInv PROVE PositionWithinLimit
  OBVIOUS
<1>1. IsOms(oms) /\ OpenIsSum(oms) /\ WorstCase(oms)
  BY DEF IInv, TypeOK
<1>2. oms.open["Buy"] \in Nat /\ oms.open["Sell"] \in Nat
  BY <1>1, OpenIsNat DEF Side
<1>3. oms.position \in Int
  BY <1>1 DEF IsOms
<1> QED BY <1>1, <1>2, <1>3 DEF WorstCase, PositionWithinLimit

(* The position never leaves the limit, whatever the strategy asks for,    *)
(* the market does and the order in which reports, cancels and new orders  *)
(* cross between the engine and the venue (Risk::check_new, Oms::on_exec). *)
THEOREM PositionLimit == Spec => []PositionWithinLimit
BY InvAlways, InvImpliesLimit, PTL

LEMMA InvImpliesKnown == IInv => FillsAreKnown /\ NoOrphanOrders
<1> SUFFICES ASSUME IInv PROVE FillsAreKnown /\ NoOrphanOrders
  OBVIOUS
<1>1. FillsKnown(oms.orders, Reports) /\ HeldKnown(oms.orders, VenueHolds)
  BY DEF IInv, Chain
<1>2. FillsAreKnown
  BY <1>1 DEF FillsKnown, FillsAreKnown, IsFill
<1>3. ASSUME NEW id \in DOMAIN resting PROVE id \in DOMAIN oms.orders
  <2>1. /\ id \in OrderId /\ resting[id] \in Resting
        /\ resting[id].leaves \in Nat /\ resting[id].leaves > 0
    <3>1. IsPartialFunction(resting, OrderId, Resting)
      BY DEF IInv, TypeOK
    <3>2. id \in OrderId /\ resting[id] \in Resting
      BY <3>1 DEF IsPartialFunction
    <3> QED BY <3>2 DEF Resting
  <2> DEFINE x == <<id, resting[id].leaves>>
  <2>2. x \in VenueHolds
    BY <2>1 DEF VenueHolds, Held, InBook
  <2> QED BY <1>1, <2>1, <2>2 DEF HeldKnown
<1>4. ASSUME taking # NoOrder, taking.qty > 0
      PROVE  taking.id \in DOMAIN oms.orders
  <2>1. taking.id \in OrderId /\ taking.qty \in Nat
    BY <1>4 DEF IInv, TypeOK, NewOrderCmd
  <2> DEFINE x == <<taking.id, taking.qty>>
  <2>2. x \in VenueHolds
    BY <1>4, <2>1 DEF VenueHolds, Held, InHand
  <2> QED BY <1>1, <1>4, <2>2 DEF HeldKnown
<1> QED BY <1>2, <1>3, <1>4 DEF NoOrphanOrders

(* Every fill that reaches the OMS is of an order it knows, so none is     *)
(* dropped by on_exec without moving the position.                         *)
THEOREM FillsKnownAlways == Spec => []FillsAreKnown
BY InvAlways, InvImpliesKnown, PTL

(* The venue never works an order the OMS has forgotten.                   *)
THEOREM NoOrphans == Spec => []NoOrphanOrders
BY InvAlways, InvImpliesKnown, PTL

-----------------------------------------------------------------------------
(* The account implements Exposure. *)

(* What Exposure sees of the open orders. *)
BookOf(o) == [id \in DOMAIN o.orders |->
               [side |-> o.orders[id].side, leaves |-> o.orders[id].leaves]]

accountVars == <<BookOf(oms), oms.position, oms.open, oms.next_cl_id>>

(* The open quantities, one side of which moved. *)
LEMMA OpenShifted ==
  ASSUME NEW o, NEW p, IsOms(o), IsOms(p), NEW side \in Side, NEW x,
         p.open[side] = x,
         \A s \in Side : s # side => p.open[s] = o.open[s]
  PROVE  p.open = [o.open EXCEPT ![side] = x]
<1>1. o.open \in [Side -> Int] /\ p.open \in [Side -> Int]
  BY DEF IsOms
<1>2. ASSUME NEW s \in Side PROVE p.open[s] = [o.open EXCEPT ![side] = x][s]
  BY <1>1, <1>2
<1> QED BY <1>1, <1>2

LEMMA UnmovedStutters ==
  ASSUME Unmoved(oms, oms')
  PROVE  UNCHANGED accountVars
<1>1. BookOf(oms') = BookOf(oms)
  BY DEF BookOf, Unmoved
<1> QED BY <1>1 DEF accountVars, Unmoved, BookOf

LEMMA SubmittedRefines ==
  ASSUME IsOms(oms), IsOms(oms'), NEW side \in Side,
         NEW qty \in 1..MaxOrderQty,
         Submitted(oms, oms', oms.next_cl_id, side, qty),
         WithinPosition(oms, side, qty)
  PROVE  Account!ExposureNext
<1> DEFINE id == oms.next_cl_id
           b == BookOf(oms)
           c == BookOf(oms')
<1>1. /\ oms.position \in Int /\ oms.open["Buy"] \in Int
      /\ oms.open["Sell"] \in Int
  BY DEF IsOms, Side
<1>2. Account!Signed(side, oms.position) + oms.open[side] + qty <= MaxPosition
  BY <1>1 DEF WithinPosition, Worst, Account!Signed, Side
<1>3. c = [i \in DOMAIN b \cup {id} |->
             IF i = id THEN [side |-> side, leaves |-> qty] ELSE b[i]]
  BY DEF BookOf, Submitted
<1>4. oms'.open = [oms.open EXCEPT ![side] = @ + qty]
  BY OpenShifted DEF Submitted
<1>5. oms'.next_cl_id = id + 1 /\ oms'.position = oms.position
  BY DEF Submitted
<1>6. Account!Submit(side, qty)
  BY <1>2, <1>3, <1>4, <1>5 DEF Account!Submit, BookOf
<1> QED BY <1>6 DEF Account!ExposureNext, Account!Sides, Side

LEMMA FilledRefines ==
  ASSUME IsOms(oms), IsOms(oms'), NEW e, e.qty \in Nat, e.qty > 0,
         e.leaves \in Nat, Filled(oms, oms', e),
         oms.orders[e.id].leaves = e.qty + e.leaves
  PROVE  Account!ExposureNext
<1> DEFINE id == e.id
           b == BookOf(oms)
           c == BookOf(oms')
           side == oms.orders[id].side
<1>1. /\ id \in DOMAIN b /\ b[id].side = side
      /\ b[id].leaves = e.qty + e.leaves /\ DOMAIN b = DOMAIN oms.orders
  BY DEF BookOf, Filled
<1>2. side \in Side
  BY OrderFacts DEF Filled
<1>3. oms'.position = oms.position + Account!Signed(side, e.qty)
  <2>1. oms'.position = oms.position + Sign(side) * e.qty
    BY DEF Filled
  <2>2. Sign(side) * e.qty = Account!Signed(side, e.qty)
    <3> HIDE DEF side
    <3> QED BY DEF Sign, Account!Signed
  <2> QED BY <2>1, <2>2
<1>4. oms'.open = [oms.open EXCEPT ![side] = @ - e.qty]
  BY <1>2, OpenShifted DEF Filled
<1>5. c = IF e.qty = b[id].leaves THEN [i \in DOMAIN b \ {id} |-> b[i]]
          ELSE [b EXCEPT ![id].leaves = @ - e.qty]
  <2>1. CASE e.leaves = 0
    <3>1. e.qty = b[id].leaves
      BY <1>1, <2>1
    <3>2. c = [i \in DOMAIN b \ {id} |-> b[i]]
      BY <2>1 DEF BookOf, Filled
    <3> QED BY <3>1, <3>2
  <2>2. CASE e.leaves # 0
    <3>1. e.qty # b[id].leaves /\ b[id].leaves - e.qty = e.leaves
      BY <1>1, <2>2
    <3>2. DOMAIN oms'.orders = DOMAIN oms.orders
      BY <2>2 DEF Filled
    <3>3. ASSUME NEW i \in DOMAIN oms.orders
          PROVE  c[i] = [b EXCEPT ![id].leaves = @ - e.qty][i]
      <4>1. CASE i = id
        <5>1. c[i] = [side |-> side, leaves |-> e.leaves]
          BY <2>2, <3>2, <4>1 DEF BookOf, Filled
        <5>2. b[i] = [side |-> side, leaves |-> e.qty + e.leaves]
          BY <4>1 DEF BookOf
        <5> QED BY <1>1, <3>1, <4>1, <5>1, <5>2
      <4>2. CASE i # id
        BY <3>2, <4>2 DEF BookOf, Filled
      <4> QED BY <4>1, <4>2
    <3>4. /\ c = [i \in DOMAIN oms.orders |-> c[i]]
          /\ [b EXCEPT ![id].leaves = @ - e.qty] =
               [i \in DOMAIN oms.orders |->
                  [b EXCEPT ![id].leaves = @ - e.qty][i]]
      BY <1>1, <3>2 DEF BookOf
    <3> QED BY <3>1, <3>3, <3>4
  <2> QED BY <2>1, <2>2
<1>6. oms'.next_cl_id = oms.next_cl_id
  BY DEF Filled
<1>7. e.qty \in 1..b[id].leaves
  BY <1>1
<1>8. Account!Execute(id, e.qty)
  BY <1>1, <1>3, <1>4, <1>5, <1>6 DEF Account!Execute, BookOf
<1> QED BY <1>1, <1>7, <1>8 DEF Account!ExposureNext, BookOf

LEMMA DroppedRefines ==
  ASSUME IsOms(oms), IsOms(oms'), NEW id, Dropped(oms, oms', id)
  PROVE  Account!ExposureNext
<1> DEFINE b == BookOf(oms)
           c == BookOf(oms')
           side == oms.orders[id].side
           n == oms.orders[id].leaves
<1>1. /\ id \in DOMAIN b /\ b[id].side = side /\ b[id].leaves = n
  BY DEF BookOf, Dropped
<1>2. side \in Side
  BY OrderFacts DEF Dropped
<1>3. oms'.open = [oms.open EXCEPT ![side] = @ - n]
  BY <1>2, OpenShifted DEF Dropped
<1>4. c = [i \in DOMAIN b \ {id} |-> b[i]]
  BY DEF BookOf, Dropped
<1>5. oms'.position = oms.position /\ oms'.next_cl_id = oms.next_cl_id
  BY DEF Dropped
<1>6. Account!Close(id)
  BY <1>1, <1>3, <1>4, <1>5 DEF Account!Close, BookOf
<1> QED BY <1>1, <1>6 DEF Account!ExposureNext, BookOf

LEMMA ApplyRefines ==
  ASSUME IInv, TypeOK', ApplyExec
  PROVE  Account!ExposureNext \/ UNCHANGED accountVars
<1> DEFINE e == Head(batch)
           r == Reports
<1>1. /\ batch # <<>> /\ e \in Exec /\ oms' = OnExec(oms, e)
      /\ UNCHANGED execCh
  BY DEF ApplyExec, IInv, TypeOK, venueVars
<1>2. r \in Seq(Exec) /\ r # <<>> /\ r[1] = e
  BY <1>1, ReportsType, ReportsTail DEF ApplyExec, IInv
<1>3. IsOms(oms) /\ IsOms(oms')
  BY DEF IInv, TypeOK
<1>4. Chain(oms.orders, r, VenueHolds)
  BY DEF IInv
<1>5. CASE Filled(oms, oms', e) /\ e.kind = "Fill"
  <2>1. e.qty \in Nat /\ e.qty > 0 /\ e.leaves \in Nat
    BY <1>1, <1>5 DEF Exec
  <2>2. oms.orders[e.id].leaves = e.qty + e.leaves
    <3>1. 1 \in 1..Len(r) /\ \A j \in 1..(1-1) : ~FillOf(r, j, r[1].id)
      BY <1>2
    <3>2. FirstFill(oms.orders, r) /\ r[1].kind = "Fill"
      BY <1>2, <1>4, <1>5 DEF Chain
    <3>3. oms.orders[r[1].id].leaves = r[1].qty + r[1].leaves
      <4> HIDE DEF r
      <4> QED BY <3>1, <3>2 DEF FirstFill
    <3> QED BY <1>2, <3>3
  <2> HIDE DEF e
  <2> QED BY <1>3, <1>5, <2>1, <2>2, FilledRefines
<1>6. CASE Dropped(oms, oms', e.id)
  <2> HIDE DEF e
  <2> QED BY <1>3, <1>6, DroppedRefines
<1>7. CASE Unmoved(oms, oms')
  BY <1>7, UnmovedStutters
<1>8. e.kind = "Fill" => e.id \in DOMAIN oms.orders
  <2>1. 1 \in 1..Len(r)
    BY <1>2
  <2> QED BY <1>2, <1>4, <2>1 DEF Chain, FillsKnown
<1>9. e.kind \in {"Ack", "Canceled", "Rejected", "Fill"}
  BY <1>1 DEF Exec
<1>10. \/ Filled(oms, oms', e) /\ e.kind = "Fill"
       \/ Dropped(oms, oms', e.id)
       \/ Unmoved(oms, oms')
  BY <1>1, <1>3, <1>8, <1>9, ExecType
<1> QED BY <1>5, <1>6, <1>7, <1>10

LEMMA SendNewRefines ==
  ASSUME IInv, TypeOK', SendNew
  PROVE  Account!ExposureNext
<1> DEFINE i == Head(intents)
           id == oms.next_cl_id
<1>1. i \in Intent /\ i.kind = "New"
  BY DEF IInv, TypeOK, SendNew
<1>2. i.side \in Side /\ i.qty \in Int
  BY <1>1 DEF Intent, NewIntent, CancelIntent
<1>3. /\ Admissible(oms, kill, i.side, i.price, i.qty, mid2)
      /\ oms' = OnNewSent(NextClId(oms), id, i.side, i.price, i.qty)
  BY DEF SendNew
<1>4. /\ i.qty \in Nat /\ i.qty \in 1..MaxOrderQty
      /\ WithinPosition(oms, i.side, i.qty)
  BY <1>2, <1>3 DEF Admissible
<1>5. IsOms(oms) /\ IsOms(oms')
  BY DEF IInv, TypeOK
<1>6. /\ oms'.orders = With(oms.orders, id, NewOrder(i.side, i.price, i.qty))
      /\ oms'.next_cl_id = id + 1 /\ oms'.position = oms.position
      /\ oms'.open = Shift(oms.open, i.side, i.qty)
  BY <1>3, <1>5, NewSentEffect
<1>7. oms.open \in [Side -> Int]
  BY <1>5 DEF IsOms
<1>8. Submitted(oms, oms', id, i.side, i.qty)
  BY <1>2, <1>6, <1>7 DEF Submitted, With, NewOrder, Shift
<1> HIDE DEF i
<1> QED BY <1>2, <1>4, <1>5, <1>8, SubmittedRefines

LEMMA SendCancelRefines ==
  ASSUME IInv, SendCancel
  PROVE  UNCHANGED accountVars
<1> DEFINE id == Head(intents).id
<1>1. IsOms(oms)
  BY DEF IInv, TypeOK
<1>2. CASE oms' = oms
  BY <1>2 DEF accountVars, BookOf
<1>3. CASE id \in DOMAIN oms.orders /\ oms' = SetStatus(oms, id, "PendingCancel")
  <2>1. Unmoved(oms, oms')
    BY <1>1, <1>3, SetStatusType DEF OrdStatus
  <2> QED BY <2>1, UnmovedStutters
<1> QED BY <1>2, <1>3 DEF SendCancel, OnCancelSent

LEMMA AccountInit == Init => Account!ExposureInit
<1> SUFFICES ASSUME Init PROVE Account!ExposureInit
  OBVIOUS
<1>1. oms = NewOms
  BY DEF Init
<1>2. BookOf(oms) = [i \in {} |-> 0]
  BY <1>1 DEF BookOf, NewOms
<1> QED BY <1>1, <1>2
        DEF Account!ExposureInit, NewOms, BookOf, Account!Sides, Side

LEMMA AccountNext ==
  IInv /\ [Next]_vars => [Account!ExposureNext]_accountVars
<1> SUFFICES ASSUME IInv, [Next]_vars
             PROVE  Account!ExposureNext \/ UNCHANGED accountVars
  OBVIOUS
<1>1. TypeOK'
  BY TypeStep DEF IInv
<1>2. ASSUME UNCHANGED oms PROVE UNCHANGED accountVars
  BY <1>2 DEF accountVars, BookOf
<1>3. CASE OnMd \/ DrainVenue \/ Poll \/ OnBook \/ RefuseNew \/ Housekeeping
           \/ CheckPnl
  BY <1>2, <1>3 DEF OnMd, DrainVenue, Poll, OnBook, RefuseNew, Housekeeping,
     CheckPnl
<1>4. CASE Kill \/ Unkill \/ UNCHANGED vars
  BY <1>2, <1>4 DEF Kill, Unkill, vars, engineVars
<1>5. CASE ApplyExec
  BY <1>1, <1>5, ApplyRefines
<1>6. CASE SendNew
  BY <1>1, <1>6, SendNewRefines
<1>7. CASE SendCancel
  BY <1>7, SendCancelRefines
<1>8. CASE VenueNext /\ UNCHANGED engineVars
  BY <1>2, <1>8 DEF engineVars
<1> QED BY <1>3, <1>4, <1>5, <1>6, <1>7, <1>8 DEF Next, EngineNext, Working

(* Order management and risk keep the account the way Exposure promises,   *)
(* whatever order reports, cancels and new orders cross in: every step     *)
(* takes, executes or closes one order or leaves the account alone.        *)
THEOREM EngineKeepsAccount == Spec => ImplementsExposure
BY AccountInit, AccountNext, InvAlways, PTL
   DEF Spec, ImplementsExposure, Account!ExposureSpec, accountVars, BookOf

-----------------------------------------------------------------------------
(* That order entry settles: with nothing under way the OMS and the venue  *)
(* know the same orders, and the venue is asked once to cancel an order.   *)
(*                                                                         *)
(* The venue holds no order the OMS has forgotten, as shown above.  The    *)
(* other direction needs that every order of the OMS is at the venue or on *)
(* its way out of the OMS (Accounted): whatever ends an order at the venue *)
(* puts a report on the wire that ends it in the OMS.  A reject ends it    *)
(* only if the OMS has not heard of an ack before, hence NotAcked and      *)
(* RejectsNew.  With that the leaves of an order agree with the venue's up *)
(* to the reports in flight, and a kill reaches every order.               *)

(* The report removes its order from the OMS. *)
Final(e) ==
  \/ e.kind \in {"Canceled", "Rejected"}
  \/ e.kind = "Fill" /\ e.leaves = 0

Accounted(orders, r, h) ==
  \A id \in DOMAIN orders :
    \/ \E x \in h : x[1] = id /\ x[2] > 0
    \/ \E i \in 1..Len(r) : r[i].id = id /\ Ends(r[i])

AckOf(r, i, id) == r[i].kind = "Ack" /\ r[i].id = id
Unknown(e) == e.kind = "Rejected" /\ e.reason = "UnknownOrder"
Refusal(e) == e.kind = "Rejected" /\ e.reason # "UnknownOrder"

(* An order still on the wire has no ack. *)
NotAcked(orders, r, ch) ==
  \A k \in 1..Len(ch) : IsNew(ch, k) =>
    /\ \A i \in 1..Len(r) : ~AckOf(r, i, ch[k].id)
    /\ ch[k].id \in DOMAIN orders => ~orders[ch[k].id].acked

(* A new order that is refused was not acked before. *)
RejectsNew(orders, r) ==
  \A i \in 1..Len(r) : Refusal(r[i]) =>
    /\ \A j \in 1..(i-1) : ~AckOf(r, j, r[i].id)
    /\ r[i].id \in DOMAIN orders => ~orders[r[i].id].acked

(* One cancel of an order is on the wire, or the answer to it, and the OMS *)
(* remembers as long as it knows the order.                                *)
CancelOnce(orders, r, ch) ==
  /\ \A k, l \in 1..Len(ch) :
       ch[k].cmd = "Cancel" /\ ch[l].cmd = "Cancel" /\ ch[k].id = ch[l].id
         => k = l
  /\ \A i, j \in 1..Len(r) :
       Unknown(r[i]) /\ Unknown(r[j]) /\ r[i].id = r[j].id => i = j
  /\ \A k \in 1..Len(ch), i \in 1..Len(r) :
       ch[k].cmd = "Cancel" /\ Unknown(r[i]) => ch[k].id # r[i].id
  /\ \A id \in DOMAIN orders : orders[id].status # "PendingCancel" =>
       /\ \A k \in 1..Len(ch) : ch[k].cmd = "Cancel" => ch[k].id # id
       /\ \A i \in 1..Len(r) : Unknown(r[i]) => r[i].id # id

Settled(orders, r, h, ch) ==
  /\ Accounted(orders, r, h)
  /\ NotAcked(orders, r, ch)
  /\ RejectsNew(orders, r)
  /\ CancelOnce(orders, r, ch)

-----------------------------------------------------------------------------
(* What applying a report does to the marks of the orders. *)

ExecKept(o, p, e) ==
  /\ DOMAIN p.orders \subseteq DOMAIN o.orders
  /\ Final(e) => e.id \notin DOMAIN p.orders
  /\ \A i \in DOMAIN p.orders :
       /\ ~o.orders[i].acked /\ ~(e.kind = "Ack" /\ e.id = i)
            => ~p.orders[i].acked
       /\ o.orders[i].status = "PendingCancel"
            => p.orders[i].status = "PendingCancel"

LEMMA KeptSame ==
  ASSUME NEW o, NEW e, e.id \notin DOMAIN o.orders
  PROVE  ExecKept(o, o, e)
BY DEF ExecKept

LEMMA KeptWithout ==
  ASSUME NEW o, NEW p, NEW e, p.orders = Without(o.orders, e.id)
  PROVE  ExecKept(o, p, e)
BY DEF ExecKept, Without

LEMMA KeptWith ==
  ASSUME NEW o, NEW p, NEW e, NEW order, e.id \in DOMAIN o.orders, ~Final(e),
         p.orders = With(o.orders, e.id, order),
         order.acked = o.orders[e.id].acked \/ e.kind = "Ack",
         o.orders[e.id].status = "PendingCancel"
           => order.status = "PendingCancel"
  PROVE  ExecKept(o, p, e)
<1>1. /\ DOMAIN p.orders = DOMAIN o.orders
      /\ p.orders[e.id] = order
      /\ \A i \in DOMAIN o.orders : i # e.id => p.orders[i] = o.orders[i]
  BY DEF With
<1> QED BY <1>1 DEF ExecKept

LEMMA ExecKeeps ==
  ASSUME NEW o, IsOms(o), NEW e \in Exec,
         Refusal(e) /\ e.id \in DOMAIN o.orders => ~o.orders[e.id].acked
  PROVE  ExecKept(o, OnExec(o, e), e)
<1>1. e.kind \in {"Ack", "Canceled", "Rejected", "Fill"}
  BY DEF Exec
<1>2. CASE e.id \notin DOMAIN o.orders
  <2>1. OnExec(o, e) = o
    BY <1>1, <1>2 DEF OnExec, OnAck, OnFill, RemoveOrder, OnRejected
  <2> QED BY <1>2, <2>1, KeptSame
<1>3. CASE e.id \in DOMAIN o.orders
  <2>1. o.orders[e.id] \in Order
    BY <1>3, OrderFacts
  <2>2. CASE e.kind = "Ack"
    <3> DEFINE old == o.orders[e.id]
               status == IF old.status = "PendingNew" THEN "Live" ELSE old.status
               order == [old EXCEPT !.acked = TRUE, !.status = status]
    <3>1. OnExec(o, e) = [o EXCEPT !.orders = With(o.orders, e.id, order)]
      BY <1>3, <2>2 DEF OnExec, OnAck
    <3>2. OnExec(o, e).orders = With(o.orders, e.id, order)
      BY <3>1 DEF IsOms
    <3>3. order.status = status
      BY <2>1 DEF Order
    <3>4. ~Final(e)
      BY <2>2 DEF Final
    <3> HIDE DEF order
    <3> QED BY <1>3, <2>2, <3>2, <3>3, <3>4, KeptWith
  <2>3. CASE e.kind = "Fill"
    <3>1. OnExec(o, e) = OnFill(o, e)
      BY <2>3 DEF OnExec
    <3>2. CASE e.leaves = 0
      <4> DEFINE f == Without(o.orders, e.id)
      <4>1. OnFill(o, e).orders = IF e.leaves = 0 THEN f
                                  ELSE With(o.orders, e.id,
                                            [o.orders[e.id] EXCEPT !.leaves = e.leaves])
        BY <1>3, FillEffect
      <4>2. OnExec(o, e).orders = f
        <5> HIDE DEF f
        <5> QED BY <3>1, <3>2, <4>1
      <4> QED BY <4>2, KeptWithout
    <3>3. CASE e.leaves # 0
      <4> DEFINE order == [o.orders[e.id] EXCEPT !.leaves = e.leaves]
      <4>1. OnExec(o, e).orders = With(o.orders, e.id, order)
        BY <1>3, <3>1, <3>3, FillEffect
      <4>2. /\ order.status = o.orders[e.id].status
            /\ order.acked = o.orders[e.id].acked
        BY <2>1 DEF Order
      <4>3. ~Final(e)
        BY <2>3, <3>3 DEF Final
      <4> HIDE DEF order
      <4> QED BY <1>3, <4>1, <4>2, <4>3, KeptWith
    <3> QED BY <3>2, <3>3
  <2>4. CASE e.kind \in {"Canceled", "Rejected"}
    <3>1. OnExec(o, e) = RemoveOrder(o, e.id)
      BY <1>3, <2>4 DEF OnExec, OnRejected, Refusal
    <3>2. OnExec(o, e).orders = Without(o.orders, e.id)
      BY <1>3, <3>1, RemoveEffect
    <3> QED BY <3>2, KeptWithout
  <2> QED BY <1>1, <2>2, <2>3, <2>4
<1> QED BY <1>2, <1>3

-----------------------------------------------------------------------------
(* Settled, kept by what can happen to orders and queues. *)

(* The first report is applied. *)
LEMMA SettledApply ==
  ASSUME NEW o, NEW p, NEW r \in Seq(Exec), r # <<>>, NEW h, NEW ch,
         ExecKept(o, p, r[1]), Settled(o.orders, r, h, ch)
  PROVE  Settled(p.orders, Tail(r), h, ch)
<1> DEFINE t == Tail(r)
<1>1. /\ Len(r) \in Nat /\ Len(t) = Len(r) - 1 /\ 1 \in 1..Len(r)
      /\ \A i \in 1..Len(t) : t[i] = r[i+1] /\ i+1 \in 1..Len(r) /\ i \in Nat
      /\ \A i \in 1..Len(r) : i # 1 => i-1 \in 1..Len(t) /\ t[i-1] = r[i]
  OBVIOUS
<1> HIDE DEF t
<1>2. Accounted(p.orders, t, h)
  <2> SUFFICES ASSUME NEW id \in DOMAIN p.orders, ~\E x \in h : x[1] = id /\ x[2] > 0
               PROVE  \E i \in 1..Len(t) : t[i].id = id /\ Ends(t[i])
    BY DEF Accounted
  <2>1. PICK i \in 1..Len(r) : r[i].id = id /\ Ends(r[i])
    BY DEF Settled, Accounted, ExecKept
  <2>2. i # 1
    BY <2>1 DEF ExecKept, Ends, Final
  <2> QED BY <1>1, <2>1, <2>2
<1>3. NotAcked(p.orders, t, ch)
  <2> SUFFICES ASSUME NEW k \in 1..Len(ch), IsNew(ch, k)
               PROVE  /\ \A i \in 1..Len(t) : ~AckOf(t, i, ch[k].id)
                      /\ ch[k].id \in DOMAIN p.orders => ~p.orders[ch[k].id].acked
    BY DEF NotAcked
  <2>1. /\ \A i \in 1..Len(r) : ~AckOf(r, i, ch[k].id)
        /\ ch[k].id \in DOMAIN o.orders => ~o.orders[ch[k].id].acked
    BY DEF Settled, NotAcked
  <2>2. ~AckOf(r, 1, ch[k].id)
    BY <1>1, <2>1
  <2> QED BY <1>1, <2>1, <2>2 DEF AckOf, ExecKept
<1>4. RejectsNew(p.orders, t)
  <2> SUFFICES ASSUME NEW i \in 1..Len(t), Refusal(t[i])
               PROVE  /\ \A j \in 1..(i-1) : ~AckOf(t, j, t[i].id)
                      /\ t[i].id \in DOMAIN p.orders => ~p.orders[t[i].id].acked
    BY DEF RejectsNew
  <2>1. /\ \A j \in 1..i : ~AckOf(r, j, t[i].id)
        /\ t[i].id \in DOMAIN o.orders => ~o.orders[t[i].id].acked
    <3>1. i+1 \in 1..Len(r) /\ t[i] = r[i+1] /\ (i+1)-1 = i
      BY <1>1
    <3> QED BY <3>1 DEF Settled, RejectsNew
  <2>2. \A j \in 1..(i-1) : j+1 \in 1..i /\ t[j] = r[j+1]
    BY <1>1
  <2>3. 1 \in 1..i
    BY <1>1
  <2> QED BY <2>1, <2>2, <2>3 DEF AckOf, ExecKept
<1>5. CancelOnce(p.orders, t, ch)
  <2>1. CancelOnce(o.orders, r, ch)
    BY DEF Settled
  <2>2. \A i, j \in 1..Len(t) : Unknown(t[i]) /\ Unknown(t[j]) /\ t[i].id = t[j].id => i = j
    <3> SUFFICES ASSUME NEW i \in 1..Len(t), NEW j \in 1..Len(t),
                        Unknown(t[i]), Unknown(t[j]), t[i].id = t[j].id
                 PROVE  i = j
      OBVIOUS
    <3>1. i+1 = j+1
      BY <1>1, <2>1 DEF CancelOnce
    <3> QED BY <3>1
  <2>3. \A k \in 1..Len(ch), i \in 1..Len(t) :
          ch[k].cmd = "Cancel" /\ Unknown(t[i]) => ch[k].id # t[i].id
    BY <1>1, <2>1 DEF CancelOnce
  <2>4. ASSUME NEW id \in DOMAIN p.orders, p.orders[id].status # "PendingCancel"
        PROVE  /\ \A k \in 1..Len(ch) : ch[k].cmd = "Cancel" => ch[k].id # id
               /\ \A i \in 1..Len(t) : Unknown(t[i]) => t[i].id # id
    <3>1. id \in DOMAIN o.orders /\ o.orders[id].status # "PendingCancel"
      BY <2>4 DEF ExecKept
    <3> QED BY <1>1, <2>1, <3>1 DEF CancelOnce
  <2> QED BY <2>1, <2>2, <2>3, <2>4 DEF CancelOnce
<1> QED BY <1>2, <1>3, <1>4, <1>5 DEF Settled, t

(* Commands leave the wire in front; what the venue gives up is not lost   *)
(* or has a report that ends it.                                           *)
LEMMA SettledMoved ==
  ASSUME NEW orders, NEW r, NEW h, NEW h2, NEW ch, NEW ch2, NEW d \in {0, 1},
         \A k \in 1..Len(ch2) : k+d \in 1..Len(ch) /\ ch2[k] = ch[k+d] /\ k \in Nat,
         \A x \in h : x[2] > 0 =>
           \/ \E y \in h2 : y[1] = x[1] /\ y[2] > 0
           \/ \E i \in 1..Len(r) : r[i].id = x[1] /\ Ends(r[i]),
         Settled(orders, r, h, ch)
  PROVE  Settled(orders, r, h2, ch2)
<1>1. Accounted(orders, r, h2)
  BY DEF Settled, Accounted
<1>2. NotAcked(orders, r, ch2)
  BY DEF Settled, NotAcked, IsNew
<1>3. CancelOnce(orders, r, ch2)
  <2>1. CancelOnce(orders, r, ch)
    BY DEF Settled
  <2>2. ASSUME NEW k \in 1..Len(ch2), NEW l \in 1..Len(ch2),
               ch2[k].cmd = "Cancel", ch2[l].cmd = "Cancel", ch2[k].id = ch2[l].id
        PROVE  k = l
    <3>1. k+d = l+d
      BY <2>1, <2>2 DEF CancelOnce
    <3> QED BY <3>1
  <2> QED BY <2>1, <2>2 DEF CancelOnce
<1> QED BY <1>1, <1>2, <1>3 DEF Settled

(* A report is appended: an ack of no order on the wire, a refusal of one  *)
(* without ack, or the only answer to the only cancel.                     *)
LEMMA SettledReport ==
  ASSUME NEW orders, NEW r \in Seq(Exec), NEW h, NEW ch, NEW e \in Exec,
         e.kind = "Ack" => \A k \in 1..Len(ch) : IsNew(ch, k) => ch[k].id # e.id,
         Refusal(e) =>
           /\ \A i \in 1..Len(r) : ~AckOf(r, i, e.id)
           /\ e.id \in DOMAIN orders => ~orders[e.id].acked,
         Unknown(e) =>
           /\ \A i \in 1..Len(r) : Unknown(r[i]) => r[i].id # e.id
           /\ \A k \in 1..Len(ch) : ch[k].cmd = "Cancel" => ch[k].id # e.id
           /\ e.id \in DOMAIN orders => orders[e.id].status = "PendingCancel",
         Settled(orders, r, h, ch)
  PROVE  Settled(orders, Append(r, e), h, ch)
<1> DEFINE r2 == Append(r, e)
           n == Len(r2)
<1>1. /\ Len(r) \in Nat /\ n = Len(r) + 1 /\ r2[n] = e /\ n \in 1..Len(r2)
      /\ \A i \in 1..Len(r2) : i \in 1..Len(r) \/ i = n
      /\ \A i \in 1..Len(r) : r2[i] = r[i] /\ i \in 1..Len(r2) /\ i \in Nat
  OBVIOUS
<1> HIDE DEF r2, n
<1>2. Accounted(orders, r2, h)
  BY <1>1 DEF Settled, Accounted
<1>3. NotAcked(orders, r2, ch)
  BY <1>1 DEF Settled, NotAcked, AckOf
<1>4. RejectsNew(orders, r2)
  <2> SUFFICES ASSUME NEW i \in 1..Len(r2), Refusal(r2[i])
               PROVE  /\ \A j \in 1..(i-1) : ~AckOf(r2, j, r2[i].id)
                      /\ r2[i].id \in DOMAIN orders => ~orders[r2[i].id].acked
    BY DEF RejectsNew
  <2>1. \A j \in 1..(i-1) : j \in 1..Len(r) /\ r2[j] = r[j]
    BY <1>1
  <2>2. CASE i \in 1..Len(r)
    BY <1>1, <2>1, <2>2 DEF Settled, RejectsNew, AckOf
  <2>3. CASE i = n
    BY <1>1, <2>1, <2>3 DEF AckOf
  <2> QED BY <1>1, <2>2, <2>3
<1>5. CancelOnce(orders, r2, ch)
  <2>1. CancelOnce(orders, r, ch)
    BY DEF Settled
  <2>2. ASSUME NEW i \in 1..Len(r2), NEW j \in 1..Len(r2),
               Unknown(r2[i]), Unknown(r2[j]), r2[i].id = r2[j].id
        PROVE  i = j
    BY <1>1, <2>1, <2>2 DEF CancelOnce
  <2>3. ASSUME NEW k \in 1..Len(ch), NEW i \in 1..Len(r2),
               ch[k].cmd = "Cancel", Unknown(r2[i])
        PROVE  ch[k].id # r2[i].id
    BY <1>1, <2>1, <2>3 DEF CancelOnce
  <2>4. ASSUME NEW id \in DOMAIN orders, orders[id].status # "PendingCancel",
               NEW i \in 1..Len(r2), Unknown(r2[i])
        PROVE  r2[i].id # id
    BY <1>1, <2>1, <2>4 DEF CancelOnce
  <2> QED BY <2>1, <2>2, <2>3, <2>4 DEF CancelOnce
<1> QED BY <1>2, <1>3, <1>4, <1>5 DEF Settled, r2

(* A new order is submitted under a fresh number. *)
Submits(orders, orders2, r, h, h2, ch, ch2, id, qty) ==
  /\ qty > 0 /\ h2 = h \cup {<<id, qty>>}
  /\ id \notin DOMAIN orders
  /\ \A i \in 1..Len(r) : r[i].id # id
  /\ \A k \in 1..Len(ch) : ch[k].id # id
  /\ DOMAIN orders2 = DOMAIN orders \cup {id}
  /\ \A i \in DOMAIN orders : orders2[i] = orders[i]
  /\ ~orders2[id].acked
  /\ \A k \in 1..Len(ch2) : \/ k \in 1..Len(ch) /\ ch2[k] = ch[k]
                            \/ ch2[k].cmd = "New" /\ ch2[k].id = id

LEMMA SettledSubmit ==
  ASSUME NEW orders, NEW orders2, NEW r, NEW h, NEW h2, NEW ch, NEW ch2,
         NEW id, NEW qty,
         Submits(orders, orders2, r, h, h2, ch, ch2, id, qty),
         Settled(orders, r, h, ch)
  PROVE  Settled(orders2, r, h2, ch2)
<1> USE DEF Submits
<1>1. \A k \in 1..Len(ch2) : \/ k \in 1..Len(ch) /\ ch2[k] = ch[k]
                             \/ ch2[k].cmd = "New" /\ ch2[k].id = id
  OBVIOUS
<1>2. Accounted(orders2, r, h2)
  <2> SUFFICES ASSUME NEW i \in DOMAIN orders2
               PROVE  \/ \E x \in h2 : x[1] = i /\ x[2] > 0
                      \/ \E j \in 1..Len(r) : r[j].id = i /\ Ends(r[j])
    BY DEF Accounted
  <2>1. CASE i = id
    <3>1. <<id, qty>> \in h2 /\ <<id, qty>>[1] = id /\ <<id, qty>>[2] > 0
      OBVIOUS
    <3> QED BY <2>1, <3>1
  <2>2. CASE i \in DOMAIN orders
    <3>1. \A x \in h : x \in h2
      OBVIOUS
    <3> QED BY <2>2, <3>1 DEF Settled, Accounted
  <2> QED BY <2>1, <2>2
<1>3. NotAcked(orders2, r, ch2)
  <2> SUFFICES ASSUME NEW k \in 1..Len(ch2), IsNew(ch2, k)
               PROVE  /\ \A i \in 1..Len(r) : ~AckOf(r, i, ch2[k].id)
                      /\ ch2[k].id \in DOMAIN orders2 => ~orders2[ch2[k].id].acked
    BY DEF NotAcked
  <2>1. CASE k \in 1..Len(ch) /\ ch2[k] = ch[k]
    BY <2>1 DEF Settled, NotAcked, IsNew
  <2>2. CASE ch2[k].id = id
    BY <2>2 DEF AckOf
  <2> QED BY <1>1, <2>1, <2>2
<1>4. RejectsNew(orders2, r)
  BY DEF Settled, RejectsNew
<1>5. CancelOnce(orders2, r, ch2)
  <2>1. CancelOnce(orders, r, ch)
    BY DEF Settled
  <2>2. \A k \in 1..Len(ch2) : ch2[k].cmd = "Cancel" =>
          k \in 1..Len(ch) /\ ch2[k] = ch[k]
    BY <1>1
  <2> QED BY <2>1, <2>2 DEF CancelOnce
<1> QED BY <1>2, <1>3, <1>4, <1>5 DEF Settled

(* An order is asked to be canceled for the first time. *)
Cancels(orders, orders2, ch, ch2, id, n) ==
  /\ id \in DOMAIN orders /\ orders[id].status # "PendingCancel"
  /\ DOMAIN orders2 = DOMAIN orders
  /\ \A i \in DOMAIN orders : i # id => orders2[i] = orders[i]
  /\ orders2[id].status = "PendingCancel"
  /\ orders2[id].acked = orders[id].acked
  /\ \A k \in 1..Len(ch2) : (k \in 1..Len(ch) /\ ch2[k] = ch[k]) \/ k = n
  /\ ch2[n].cmd = "Cancel" /\ ch2[n].id = id

LEMMA SettledCancel ==
  ASSUME NEW orders, NEW orders2, NEW r, NEW h, NEW ch, NEW ch2, NEW id, NEW n,
         Cancels(orders, orders2, ch, ch2, id, n), Settled(orders, r, h, ch)
  PROVE  Settled(orders2, r, h, ch2)
<1> USE DEF Cancels
<1>1. \A k \in 1..Len(ch2) : (k \in 1..Len(ch) /\ ch2[k] = ch[k]) \/ k = n
  OBVIOUS
<1>2. ch2[n].cmd = "Cancel" /\ ch2[n].id = id
  OBVIOUS
<1>3. Accounted(orders2, r, h)
  BY DEF Settled, Accounted
<1>4. NotAcked(orders2, r, ch2)
  <2>1. \A k \in 1..Len(ch2) : IsNew(ch2, k) => IsNew(ch, k) /\ ch2[k] = ch[k]
    BY <1>1, <1>2 DEF IsNew
  <2>2. \A i \in DOMAIN orders2 : orders2[i].acked = orders[i].acked
    OBVIOUS
  <2> QED BY <2>1, <2>2 DEF Settled, NotAcked, IsNew
<1>5. RejectsNew(orders2, r)
  <2>1. \A i \in DOMAIN orders2 : orders2[i].acked = orders[i].acked
    OBVIOUS
  <2> QED BY <2>1 DEF Settled, RejectsNew
<1>6. CancelOnce(orders2, r, ch2)
  <2>1. CancelOnce(orders, r, ch)
    BY DEF Settled
  <2>2. /\ \A k \in 1..Len(ch) : ch[k].cmd = "Cancel" => ch[k].id # id
        /\ \A i \in 1..Len(r) : Unknown(r[i]) => r[i].id # id
    BY <2>1 DEF CancelOnce
  <2>3. \A i \in DOMAIN orders2 :
          orders2[i].status # "PendingCancel" =>
            i # id /\ orders[i].status # "PendingCancel"
    OBVIOUS
  <2>4. ASSUME NEW k \in 1..Len(ch2), NEW l \in 1..Len(ch2),
               ch2[k].cmd = "Cancel", ch2[l].cmd = "Cancel", ch2[k].id = ch2[l].id
        PROVE  k = l
    BY <1>1, <1>2, <2>1, <2>2, <2>4 DEF CancelOnce
  <2>5. ASSUME NEW k \in 1..Len(ch2), NEW i \in 1..Len(r),
               ch2[k].cmd = "Cancel", Unknown(r[i])
        PROVE  ch2[k].id # r[i].id
    BY <1>1, <1>2, <2>1, <2>2, <2>5 DEF CancelOnce
  <2>6. ASSUME NEW i \in DOMAIN orders2, orders2[i].status # "PendingCancel",
               NEW k \in 1..Len(ch2), ch2[k].cmd = "Cancel"
        PROVE  ch2[k].id # i
    BY <1>1, <1>2, <2>1, <2>3, <2>6 DEF CancelOnce
  <2>7. ASSUME NEW i \in DOMAIN orders2, orders2[i].status # "PendingCancel",
               NEW j \in 1..Len(r), Unknown(r[j])
        PROVE  r[j].id # i
    BY <2>1, <2>3, <2>7 DEF CancelOnce
  <2>8. \A i, j \in 1..Len(r) :
          Unknown(r[i]) /\ Unknown(r[j]) /\ r[i].id = r[j].id => i = j
    BY <2>1 DEF CancelOnce
  <2> QED BY <2>4, <2>5, <2>6, <2>7, <2>8 DEF CancelOnce
<1> QED BY <1>3, <1>4, <1>5, <1>6 DEF Settled

-----------------------------------------------------------------------------
(* The invariant, action by action.  Settled alone: IInv is InvStep's. *)

Now == Settled(oms.orders, Reports, VenueHolds, orderCh)

LEMMA SettleInit == Init => Now
<1> SUFFICES ASSUME Init PROVE Now
  OBVIOUS
<1>1. /\ orderCh = <<>> /\ Reports = <<>> /\ DOMAIN oms.orders = {}
  BY DEF Init, VenueInit, Reports, NewOms
<1>2. Len(orderCh) = 0 /\ Len(Reports) = 0
  BY <1>1
<1> QED BY <1>1, <1>2
        DEF Now, Settled, Accounted, NotAcked, RejectsNew, CancelOnce

LEMMA SettleApply ==
  ASSUME IInv, Now, ApplyExec
  PROVE  Now'
<1> DEFINE e == Head(batch)
           r == Reports
<1>1. /\ batch # <<>> /\ e \in Exec /\ oms' = OnExec(oms, e)
      /\ UNCHANGED <<orderCh, resting, taking, execCh>>
  BY DEF ApplyExec, IInv, TypeOK, venueVars
<1>2. /\ r \in Seq(Exec) /\ r # <<>> /\ r[1] = e /\ Reports' = Tail(r)
  BY <1>1, ReportsType, ReportsTail DEF ApplyExec, IInv
<1>3. VenueHolds' = VenueHolds
  BY <1>1 DEF VenueHolds
<1>4. Refusal(e) /\ e.id \in DOMAIN oms.orders => ~oms.orders[e.id].acked
  <2>1. 1 \in 1..Len(r)
    BY <1>2
  <2> QED BY <1>2, <2>1 DEF Now, Settled, RejectsNew
<1>5. ExecKept(oms, oms', r[1])
  <2>1. IsOms(oms)
    BY DEF IInv, TypeOK
  <2> HIDE DEF e
  <2> QED BY <1>1, <1>2, <1>4, <2>1, ExecKeeps
<1>6. Settled(oms.orders, r, VenueHolds, orderCh)
  BY DEF Now
<1>7. Settled(oms'.orders, Tail(r), VenueHolds, orderCh)
  <2> HIDE DEF r
  <2> QED BY <1>2, <1>5, <1>6, SettledApply
<1> QED BY <1>1, <1>2, <1>3, <1>7 DEF Now

LEMMA SettleSendNew ==
  ASSUME IInv, TypeOK', Now, SendNew
  PROVE  Now'
<1> DEFINE i == Head(intents)
           id == oms.next_cl_id
           qty == oms'.orders[id].leaves
           cmd == NewCmd(id, i.side, i.price, i.qty, i.tif)
           order == NewOrder(i.side, i.price, i.qty)
<1>1. /\ id <= MaxOrders
      /\ oms' = OnNewSent(NextClId(oms), id, i.side, i.price, i.qty)
      /\ orderCh' = Append(orderCh, cmd)
      /\ UNCHANGED <<batch, execCh, resting, taking>>
  BY DEF SendNew
<1>2. IsOms(oms) /\ IsOms(oms') /\ orderCh \in Seq(OrderCmd)
  BY DEF IInv, TypeOK
<1>3. id \in OrderId /\ id \in Int
  <2>1. id \in 1..(MaxOrders + 1)
    BY <1>2 DEF IsOms
  <2> HIDE DEF id
  <2> QED BY <1>1, <2>1 DEF OrderId
<1>4. oms'.orders = With(oms.orders, id, order)
  <2>1. oms' = [orders |-> With(oms.orders, id, order),
                next_cl_id |-> id + 1, position |-> oms.position,
                cash |-> oms.cash, open |-> Shift(oms.open, i.side, i.qty)]
    BY <1>1, <1>2, NewSentEffect
  <2> QED BY <2>1
<1>5. /\ id \notin DOMAIN oms.orders
      /\ \A k \in 1..Len(Reports) : Reports[k].id # id
      /\ \A k \in 1..Len(orderCh) : orderCh[k].id # id
  BY <1>3 DEF IInv, Fresh
<1>6. /\ DOMAIN oms'.orders = DOMAIN oms.orders \cup {id}
      /\ \A k \in DOMAIN oms.orders : oms'.orders[k] = oms.orders[k]
      /\ oms'.orders[id] = order
  BY <1>4, <1>5 DEF With
<1>7. ~order.acked /\ order.leaves = i.qty
  BY DEF NewOrder
<1>8. i.qty \in Nat /\ i.qty > 0
  <2>1. id \in DOMAIN oms'.orders
    BY <1>6
  <2>2. oms'.orders[id].leaves \in Nat /\ oms'.orders[id].leaves > 0
    BY <1>2, <2>1, OrderFacts
  <2> QED BY <1>6, <1>7, <2>2
<1>9. /\ Len(orderCh) \in Nat /\ Len(orderCh') = Len(orderCh) + 1
      /\ \A k \in 1..Len(orderCh) : orderCh'[k] = orderCh[k]
      /\ orderCh'[Len(orderCh')] = cmd
      /\ \A k \in 1..Len(orderCh') :
           k \in 1..Len(orderCh) \/ k = Len(orderCh')
  BY <1>1, <1>2
<1>10. cmd.cmd = "New" /\ cmd.id = id /\ cmd.qty = i.qty
  BY DEF NewCmd
<1>11. Reports' = Reports
  BY <1>1 DEF Reports
<1>12. VenueHolds' = VenueHolds \cup {<<id, i.qty>>}
  <2>1. ASSUME NEW x
        PROVE  OnWire(orderCh', x) <=> OnWire(orderCh, x) \/ (x[1] = id /\ x[2] = i.qty)
    <3> HIDE DEF id, cmd
    <3> QED BY <1>9, <1>10 DEF OnWire, IsNew
  <2>2. \A x \in OrderId \X Nat : x = <<id, i.qty>> <=> x[1] = id /\ x[2] = i.qty
    OBVIOUS
  <2>3. <<id, i.qty>> \in OrderId \X Nat
    BY <1>3, <1>8
  <2>4. /\ VenueHolds = Held(resting, taking, orderCh)
        /\ VenueHolds' = Held(resting, taking, orderCh')
    BY <1>1 DEF VenueHolds
  <2> HIDE DEF id
  <2> QED BY <2>1, <2>2, <2>3, <2>4 DEF Held
<1>13. ~oms'.orders[id].acked
  BY <1>6, <1>7
<1> HIDE DEF id, cmd, order
<1>14. Settled(oms.orders, Reports, VenueHolds, orderCh)
  BY DEF Now
<1>15. Settled(oms'.orders, Reports, VenueHolds', orderCh')
  <2> DEFINE orders == oms.orders
             orders2 == oms'.orders
             r == Reports
             h == VenueHolds
             h2 == VenueHolds'
             ch == orderCh
             ch2 == orderCh'
             n == i.qty
  <2>1. /\ n > 0 /\ id \notin DOMAIN orders /\ \A j \in 1..Len(r) : r[j].id # id
        /\ \A k \in 1..Len(ch) : ch[k].id # id
    BY <1>5, <1>8
  <2>2. /\ DOMAIN orders2 = DOMAIN orders \cup {id}
        /\ \A k \in DOMAIN orders : orders2[k] = orders[k]
        /\ ~orders2[id].acked
    BY <1>6, <1>13
  <2>3. /\ h2 = h \cup {<<id, n>>}
        /\ \A k \in 1..Len(ch2) : \/ k \in 1..Len(ch) /\ ch2[k] = ch[k]
                                  \/ ch2[k].cmd = "New" /\ ch2[k].id = id
    BY <1>9, <1>10, <1>12
  <2>4. Settled(orders, r, h, ch)
    BY <1>14
  <2> HIDE DEF orders, orders2, r, h, h2, ch, ch2, n, i
  <2>5. Submits(orders, orders2, r, h, h2, ch, ch2, id, n)
    BY <2>1, <2>2, <2>3 DEF Submits
  <2>6. Settled(orders2, r, h2, ch2)
    BY <2>4, <2>5, SettledSubmit
  <2> QED BY <2>6 DEF orders2, r, h2, ch2
<1> QED BY <1>11, <1>15 DEF Now

LEMMA SettleSendCancel ==
  ASSUME IInv, Now, SendCancel
  PROVE  Now'
<1> DEFINE id == Head(intents).id
<1>1. /\ IsOms(oms) /\ orderCh \in Seq(OrderCmd)
      /\ UNCHANGED <<batch, execCh, resting, taking>>
  BY DEF IInv, TypeOK, SendCancel
<1>2. Reports' = Reports
  BY <1>1 DEF Reports
<1>3. CASE UNCHANGED <<oms, orderCh>>
  <2>1. VenueHolds' = VenueHolds
    BY <1>1, <1>3 DEF VenueHolds
  <2> QED BY <1>2, <1>3, <2>1 DEF Now
<1>4. CASE /\ id \in DOMAIN oms.orders
           /\ oms.orders[id].status # "PendingCancel"
           /\ oms' = SetStatus(oms, id, "PendingCancel")
           /\ orderCh' = Append(orderCh, CancelCmd(id))
  <2> DEFINE order == [oms.orders[id] EXCEPT !.status = "PendingCancel"]
  <2>1. oms'.orders = With(oms.orders, id, order)
    <3>1. oms' = [orders |-> With(oms.orders, id, order),
                  next_cl_id |-> oms.next_cl_id, position |-> oms.position,
                  cash |-> oms.cash, open |-> oms.open]
      BY <1>1, <1>4, SetStatusEffect
    <3> QED BY <3>1
  <2>2. order.status = "PendingCancel" /\ order.acked = oms.orders[id].acked
    BY <1>1, <1>4, OrderFacts DEF Order
  <2> HIDE DEF order, id
  <2>3. /\ DOMAIN oms'.orders = DOMAIN oms.orders
        /\ \A i \in DOMAIN oms.orders : i # id => oms'.orders[i] = oms.orders[i]
        /\ oms'.orders[id] = order
    BY <1>4, <2>1 DEF With
  <2>4. /\ Len(orderCh) \in Nat /\ Len(orderCh') = Len(orderCh) + 1
        /\ \A k \in 1..Len(orderCh) : orderCh'[k] = orderCh[k]
        /\ orderCh'[Len(orderCh')] = CancelCmd(id)
        /\ \A k \in 1..Len(orderCh') :
             k \in 1..Len(orderCh) \/ k = Len(orderCh')
    BY <1>1, <1>4
  <2>5. CancelCmd(id).cmd = "Cancel" /\ CancelCmd(id).id = id
    BY DEF CancelCmd
  <2>6. VenueHolds' = VenueHolds
    <3>1. ASSUME NEW x PROVE OnWire(orderCh', x) <=> OnWire(orderCh, x)
      BY <2>4, <2>5 DEF OnWire, IsNew
    <3> QED BY <1>1, <3>1 DEF VenueHolds, Held
  <2>7. Settled(oms.orders, Reports, VenueHolds, orderCh)
    BY DEF Now
  <2>8. Cancels(oms.orders, oms'.orders, orderCh, orderCh', id, Len(orderCh'))
    BY <1>4, <2>2, <2>3, <2>4, <2>5 DEF Cancels, id
  <2>9. Settled(oms'.orders, Reports, VenueHolds, orderCh')
    BY <2>7, <2>8, SettledCancel
  <2> QED BY <1>2, <2>6, <2>9 DEF Now
<1> QED BY <1>3, <1>4 DEF SendCancel, OnCancelSent

(* A step of the venue with a report: the wire moves on, the report is     *)
(* appended, and then the venue may let go of its order.                   *)
LEMMA SettleReport ==
  ASSUME IInv, TypeOK', Now, UNCHANGED engineVars, NEW e \in Exec, Report(e),
         orderCh' = orderCh \/ (orderCh # <<>> /\ orderCh' = Tail(orderCh)),
         e.kind = "Ack" =>
           \A k \in 1..Len(orderCh') : IsNew(orderCh', k) => orderCh'[k].id # e.id,
         Refusal(e) =>
           /\ \A i \in 1..Len(Reports) : ~AckOf(Reports, i, e.id)
           /\ e.id \in DOMAIN oms.orders => ~oms.orders[e.id].acked,
         Unknown(e) =>
           /\ \A i \in 1..Len(Reports) : Unknown(Reports[i]) => Reports[i].id # e.id
           /\ \A k \in 1..Len(orderCh') :
                orderCh'[k].cmd = "Cancel" => orderCh'[k].id # e.id
           /\ e.id \in DOMAIN oms.orders =>
                oms.orders[e.id].status = "PendingCancel",
         \A x \in VenueHolds : x[2] > 0 =>
           \/ \E y \in VenueHolds' : y[1] = x[1] /\ y[2] > 0
           \/ e.id = x[1] /\ Ends(e)
  PROVE  Now'
<1> DEFINE r == Reports
           r2 == Append(r, e)
           h == VenueHolds
           h2 == VenueHolds'
           ch == orderCh
           ch2 == orderCh'
           orders == oms.orders
<1>1. oms' = oms /\ batch' = batch
  BY DEF engineVars
<1>2. r \in Seq(Exec) /\ Reports' = r2
  BY <1>1, ReportsType, ReportsAppend DEF IInv
<1>3. PICK d \in {0, 1} :
        \A k \in 1..Len(ch2) : k+d \in 1..Len(ch) /\ ch2[k] = ch[k+d] /\ k \in Nat
  <2>1. ch \in Seq(OrderCmd)
    BY DEF IInv, TypeOK
  <2>2. CASE ch2 = ch
    <3>1. \A k \in 1..Len(ch2) : k+0 \in 1..Len(ch) /\ ch2[k] = ch[k+0] /\ k \in Nat
      <4> HIDE DEF ch, ch2
      <4> QED BY <2>1, <2>2
    <3> QED BY <3>1
  <2>3. CASE ch # <<>> /\ ch2 = Tail(ch)
    <3>1. \A k \in 1..Len(ch2) : k+1 \in 1..Len(ch) /\ ch2[k] = ch[k+1] /\ k \in Nat
      <4> HIDE DEF ch, ch2
      <4> QED BY <2>1, <2>3
    <3> QED BY <3>1
  <2> QED BY <2>2, <2>3
<1>4. Settled(orders, r, h, ch)
  BY DEF Now
<1>5. \A i \in 1..Len(r2) : r2[i] = e \/ i \in 1..Len(r)
  BY <1>2
<1>6. Len(r2) \in 1..Len(r2) /\ r2[Len(r2)] = e
  BY <1>2
<1>7. Settled(orders, r, h, ch2)
  <2>1. \A x \in h : x[2] > 0 =>
          \/ \E y \in h : y[1] = x[1] /\ y[2] > 0
          \/ \E i \in 1..Len(r) : r[i].id = x[1] /\ Ends(r[i])
    OBVIOUS
  <2> HIDE DEF r, h, ch, ch2, orders
  <2> QED BY <1>3, <1>4, <2>1, SettledMoved
<1>8. Settled(orders, r2, h, ch2)
  <2>1. /\ e.kind = "Ack" => \A k \in 1..Len(ch2) : IsNew(ch2, k) => ch2[k].id # e.id
        /\ Refusal(e) =>
             /\ \A i \in 1..Len(r) : ~AckOf(r, i, e.id)
             /\ e.id \in DOMAIN orders => ~orders[e.id].acked
        /\ Unknown(e) =>
             /\ \A i \in 1..Len(r) : Unknown(r[i]) => r[i].id # e.id
             /\ \A k \in 1..Len(ch2) : ch2[k].cmd = "Cancel" => ch2[k].id # e.id
             /\ e.id \in DOMAIN orders => orders[e.id].status = "PendingCancel"
    OBVIOUS
  <2> HIDE DEF r, h, ch, ch2, orders
  <2> QED BY <1>2, <1>7, <2>1, SettledReport
<1>9. Settled(orders, r2, h2, ch2)
  <2>1. \A x \in h : x[2] > 0 =>
          \/ \E y \in h2 : y[1] = x[1] /\ y[2] > 0
          \/ \E i \in 1..Len(r2) : r2[i].id = x[1] /\ Ends(r2[i])
    <3> HIDE DEF r2
    <3> QED BY <1>6
  <2>2. Len(ch2) \in Nat
    BY DEF TypeOK
  <2>3. \A k \in 1..Len(ch2) : k+0 \in 1..Len(ch2) /\ ch2[k] = ch2[k+0] /\ k \in Nat
    <3> HIDE DEF ch2
    <3> QED BY <2>2
  <2> HIDE DEF r, r2, h, h2, ch, ch2, orders
  <2> QED BY <1>8, <2>1, <2>3, SettledMoved
<1> QED BY <1>1, <1>2, <1>9 DEF Now

(* A step of the venue without one: what it holds is held elsewhere. *)
LEMMA SettleSilent ==
  ASSUME TypeOK, Now, UNCHANGED <<engineVars, execCh, orderCh>>,
         \A x \in VenueHolds : x[2] > 0 =>
           \E y \in VenueHolds' : y[1] = x[1] /\ y[2] > 0
  PROVE  Now'
<1> DEFINE r == Reports
           h == VenueHolds
           h2 == VenueHolds'
           ch == orderCh
           orders == oms.orders
<1>1. oms' = oms /\ Reports' = r
  BY DEF engineVars, Reports
<1>2. \A x \in h : x[2] > 0 =>
        \/ \E y \in h2 : y[1] = x[1] /\ y[2] > 0
        \/ \E i \in 1..Len(r) : r[i].id = x[1] /\ Ends(r[i])
  OBVIOUS
<1>3. \A k \in 1..Len(ch) : k+0 \in 1..Len(ch) /\ ch[k] = ch[k+0] /\ k \in Nat
  <2>1. Len(ch) \in Nat
    BY DEF TypeOK
  <2> HIDE DEF ch
  <2> QED BY <2>1
<1>4. Settled(orders, r, h, ch)
  BY DEF Now
<1>5. Settled(orders, r, h2, ch)
  <2> HIDE DEF r, h, h2, ch, orders
  <2> QED BY <1>2, <1>3, <1>4, SettledMoved
<1> QED BY <1>1, <1>5 DEF Now

LEMMA SettleReject ==
  ASSUME IInv, TypeOK', Now, VenueReject, UNCHANGED engineVars
  PROVE  Now'
<1> DEFINE id == Head(orderCh).id
           e == Rejected(id, "WouldCross")
<1>1. /\ orderCh # <<>> /\ Head(orderCh).cmd = "New" /\ taking = NoOrder
      /\ orderCh' = Tail(orderCh) /\ Report(e) /\ UNCHANGED <<resting, taking>>
  BY DEF VenueReject
<1>2. /\ e \in Exec /\ e.id = id /\ e.kind = "Rejected" /\ Refusal(e)
      /\ ~Unknown(e) /\ Ends(e)
  BY <1>1, HeadFacts DEF Exec, Rejected, RejectReason, Refusal, Unknown, Ends
<1>3. /\ \A i \in 1..Len(Reports) : ~AckOf(Reports, i, id)
      /\ id \in DOMAIN oms.orders => ~oms.orders[id].acked
  BY <1>1, HeadFacts DEF Now, Settled, NotAcked, IsNew
<1>4. \A x \in VenueHolds : x \in VenueHolds' \/ x[1] = id
  <2>1. \A x : OnWire(orderCh, x) => OnWire(orderCh', x) \/ x[1] = id
    BY <1>1, WireTail DEF IInv
  <2> HIDE DEF id
  <2> QED BY <1>1, <2>1 DEF VenueHolds, Held
<1> HIDE DEF e, id
<1> QED BY <1>1, <1>2, <1>3, <1>4, SettleReport

LEMMA SettleAccept ==
  ASSUME IInv, TypeOK', Now, VenueAccept, UNCHANGED engineVars
  PROVE  Now'
<1> DEFINE id == Head(orderCh).id
           e == Ack(id)
<1>1. /\ orderCh # <<>> /\ Head(orderCh).cmd = "New" /\ taking = NoOrder
      /\ orderCh' = Tail(orderCh) /\ Report(e) /\ UNCHANGED resting
      /\ taking' = Head(orderCh)
  BY DEF VenueAccept
<1>2. /\ e \in Exec /\ e.id = id /\ e.kind = "Ack" /\ ~Refusal(e)
      /\ ~Unknown(e)
  BY <1>1, HeadFacts DEF Exec, Ack, Refusal, Unknown
<1>3. \A k \in 1..Len(orderCh') : IsNew(orderCh', k) => orderCh'[k].id # id
  BY <1>1, WireTail DEF IInv
<1>4. \A x \in VenueHolds : x \in VenueHolds'
  <2>1. taking' # NoOrder
    <3>1. Head(orderCh) \in NewOrderCmd
      BY <1>1, HeadFacts DEF OrderCmd
    <3> QED BY <1>1, <3>1, NoOrderAssumption
  <2>2. \A x : OnWire(orderCh, x) => OnWire(orderCh', x) \/ InHand(taking', x)
    BY <1>1, <2>1, WireTail DEF IInv, InHand
  <2> QED BY <1>1, <2>2 DEF VenueHolds, Held, InHand
<1> HIDE DEF e, id
<1> QED BY <1>1, <1>2, <1>3, <1>4, SettleReport

LEMMA SettleRest ==
  ASSUME IInv, TypeOK', Now, VenueRest, UNCHANGED engineVars
  PROVE  Now'
<1> DEFINE id == taking.id
           e == Canceled(id)
<1>1. /\ taking # NoOrder /\ taking' = NoOrder /\ orderCh' = orderCh
  BY DEF VenueRest
<1>2. id \in OrderId /\ taking.qty \in Nat
  BY <1>1 DEF IInv, TypeOK, NewOrderCmd
<1>3. id \notin DOMAIN resting
  BY <1>1 DEF IInv, OnePlace
<1>4. CASE taking.qty > 0 /\ taking.tif = "Ioc"
  <2>1. Report(e) /\ resting' = resting
    BY <1>4 DEF VenueRest
  <2>2. /\ e \in Exec /\ e.id = id /\ e.kind = "Canceled" /\ Ends(e)
        /\ ~Refusal(e) /\ ~Unknown(e)
    BY <1>2 DEF Exec, Canceled, Ends, Refusal, Unknown
  <2>3. \A x \in VenueHolds : x \in VenueHolds' \/ x[1] = id
    BY <1>1, <2>1 DEF VenueHolds, Held, InHand
  <2> HIDE DEF e, id
  <2> QED BY <1>1, <2>1, <2>2, <2>3, SettleReport
<1>5. CASE taking.qty > 0 /\ taking.tif # "Ioc"
  <2> DEFINE v == [side |-> taking.side, price |-> taking.price,
                   leaves |-> taking.qty]
  <2>1. resting' = With(resting, id, v) /\ UNCHANGED execCh
    BY <1>5 DEF VenueRest
  <2>2. /\ DOMAIN resting' = DOMAIN resting \cup {id}
        /\ resting'[id].leaves = taking.qty
        /\ \A y \in DOMAIN resting : y # id => resting'[y] = resting[y]
    BY <2>1 DEF With
  <2>3. \A x \in VenueHolds : x \in VenueHolds'
    BY <1>1, <1>3, <2>2 DEF VenueHolds, Held, InBook, InHand
  <2>4. TypeOK
    BY DEF IInv
  <2> QED BY <1>1, <2>1, <2>3, <2>4, SettleSilent
<1>6. CASE ~(taking.qty > 0)
  <2>1. resting' = resting /\ UNCHANGED execCh
    BY <1>6 DEF VenueRest
  <2>2. \A x \in VenueHolds : x[2] > 0 => x \in VenueHolds'
    BY <1>1, <1>6, <2>1 DEF VenueHolds, Held, InHand
  <2>3. TypeOK
    BY DEF IInv
  <2> QED BY <1>1, <2>1, <2>2, <2>3, SettleSilent
<1> QED BY <1>4, <1>5, <1>6

LEMMA SettleTake ==
  ASSUME IInv, TypeOK', Now, UNCHANGED engineVars, taking # NoOrder,
         NEW price \in Prices, NEW qty \in 1..taking.qty, VenueTake(price, qty)
  PROVE  Now'
<1> DEFINE id == taking.id
           q == taking.qty
           e == Fill(id, price, qty, q - qty)
<1>1. /\ Report(e) /\ UNCHANGED <<orderCh, resting>>
      /\ taking' = [taking EXCEPT !.qty = q - qty]
  BY DEF VenueTake
<1>2. /\ taking \in NewOrderCmd /\ id \in OrderId /\ q \in Nat /\ q - qty \in Nat
  <2>1. taking \in NewOrderCmd
    BY DEF IInv, TypeOK
  <2>2. id \in OrderId /\ q \in Nat
    BY <2>1 DEF NewOrderCmd
  <2>3. q - qty \in Nat
    BY <2>2
  <2> QED BY <2>1, <2>2, <2>3
<1>3. taking'.id = id /\ taking'.qty = q - qty /\ taking' # NoOrder
  <2>1. taking' \in NewOrderCmd
    BY <1>1, <1>2 DEF NewOrderCmd
  <2> QED BY <1>1, <1>2, <2>1, NoOrderAssumption DEF NewOrderCmd
<1>4. /\ e \in Exec /\ e.id = id /\ e.kind = "Fill" /\ e.leaves = q - qty
      /\ ~Refusal(e) /\ ~Unknown(e)
  BY <1>2 DEF Exec, Fill, Refusal, Unknown
<1>5. \A x \in VenueHolds : x \in VenueHolds' \/ x[1] = id
  BY <1>1 DEF VenueHolds, Held, InHand
<1>6. q - qty > 0 => <<id, q - qty>> \in VenueHolds'
  <2> DEFINE n == q - qty
  <2>1. id \in OrderId /\ n \in Nat
    BY <1>2
  <2>2. taking' # NoOrder /\ taking'.id = id /\ taking'.qty = n
    BY <1>3
  <2> HIDE DEF id, n
  <2>3. <<id, n>> \in VenueHolds'
    BY <2>1, <2>2 DEF InHand, VenueHolds, Held
  <2> QED BY <2>3 DEF n
<1>7. q - qty = 0 => Ends(e)
  BY <1>4 DEF Ends
<1>8. \A x \in VenueHolds : x[2] > 0 =>
        \/ \E y \in VenueHolds' : y[1] = x[1] /\ y[2] > 0
        \/ e.id = x[1] /\ Ends(e)
  <2> DEFINE n == q - qty
  <2>1. n > 0 \/ n = 0
    BY <1>2
  <2>2. n > 0 => \E y \in VenueHolds' : y[1] = id /\ y[2] > 0
    <3> SUFFICES ASSUME n > 0 PROVE \E y \in VenueHolds' : y[1] = id /\ y[2] > 0
      OBVIOUS
    <3>1. <<id, n>> \in VenueHolds'
      BY <1>6
    <3>2. <<id, n>>[1] = id /\ <<id, n>>[2] > 0
      OBVIOUS
    <3> HIDE DEF id, n
    <3> QED BY <3>1, <3>2
  <2>3. n = 0 => Ends(e)
    BY <1>7
  <2> HIDE DEF n, e, id
  <2> QED BY <1>4, <1>5, <2>1, <2>2, <2>3
<1> HIDE DEF e, id
<1> QED BY <1>1, <1>4, <1>8, SettleReport

LEMMA SettleMake ==
  ASSUME IInv, TypeOK', Now, UNCHANGED engineVars,
         NEW id \in DOMAIN resting, NEW qty \in 1..resting[id].leaves,
         VenueMake(id, qty)
  PROVE  Now'
<1> DEFINE q == resting[id].leaves
           n == q - qty
           e == Fill(id, resting[id].price, qty, n)
<1>1. /\ Report(e) /\ UNCHANGED <<orderCh, taking>>
      /\ resting' = IF n = 0 THEN Without(resting, id)
                    ELSE With(resting, id, [resting[id] EXCEPT !.leaves = n])
  BY DEF VenueMake
<1>2. /\ id \in OrderId /\ resting[id] \in Resting
      /\ resting[id].price \in Prices /\ q \in Nat
  BY DEF IInv, TypeOK, IsPartialFunction, Resting
<1>3. n \in Nat
  <2> HIDE DEF q
  <2> QED BY <1>2 DEF q
<1>4. /\ \A y \in DOMAIN resting : y # id =>
           y \in DOMAIN resting' /\ resting'[y] = resting[y]
      /\ n # 0 => id \in DOMAIN resting' /\ resting'[id].leaves = n
  <2>1. CASE n = 0
    <3>1. resting' = Without(resting, id) BY <1>1, <2>1
    <3> QED BY <2>1, <3>1 DEF Without
  <2>2. CASE n # 0
    <3> DEFINE v == [resting[id] EXCEPT !.leaves = n]
    <3>1. resting' = With(resting, id, v) BY <1>1, <2>2
    <3>2. v.leaves = n
      BY <1>2 DEF Resting
    <3> HIDE DEF v, n
    <3> QED BY <3>1, <3>2 DEF With
  <2> QED BY <2>1, <2>2
<1>5. /\ e \in Exec /\ e.id = id /\ e.kind = "Fill" /\ e.leaves = n
      /\ ~Refusal(e) /\ ~Unknown(e)
  BY <1>2, <1>3 DEF Exec, Fill, Refusal, Unknown
<1>6. n = 0 => Ends(e)
  BY <1>5 DEF Ends
<1> HIDE DEF e, n
<1>7. \A x \in VenueHolds : x \in VenueHolds' \/ x[1] = id
  BY <1>1, <1>4 DEF VenueHolds, Held, InBook
<1>8. n # 0 => \E y \in VenueHolds' : y[1] = id /\ y[2] > 0
  <2> SUFFICES ASSUME n # 0 PROVE \E y \in VenueHolds' : y[1] = id /\ y[2] > 0
    OBVIOUS
  <2>1. <<id, n>> \in OrderId \X Nat /\ InBook(resting', <<id, n>>)
    BY <1>2, <1>3, <1>4 DEF InBook
  <2>2. <<id, n>> \in VenueHolds'
    BY <2>1 DEF VenueHolds, Held
  <2>3. <<id, n>>[1] = id /\ <<id, n>>[2] > 0
    BY <1>3
  <2> QED BY <2>2, <2>3
<1> QED BY <1>1, <1>5, <1>6, <1>7, <1>8, SettleReport

LEMMA SettleCancel ==
  ASSUME IInv, TypeOK', Now, VenueCancel, UNCHANGED engineVars
  PROVE  Now'
<1> DEFINE id == Head(orderCh).id
<1>1. /\ orderCh # <<>> /\ Head(orderCh).cmd = "Cancel" /\ taking = NoOrder
      /\ orderCh' = Tail(orderCh) /\ UNCHANGED taking
  BY DEF VenueCancel
<1>2. id \in OrderId /\ Head(orderCh) = orderCh[1] /\ 1 \in 1..Len(orderCh)
  BY <1>1, HeadFacts
<1>3. \A x : OnWire(orderCh, x) => OnWire(orderCh', x)
  BY <1>1, WireTail DEF IInv
<1>4. CASE id \in DOMAIN resting
  <2> DEFINE e == Canceled(id)
  <2>1. Report(e) /\ resting' = Without(resting, id)
    BY <1>4 DEF VenueCancel
  <2>2. /\ e \in Exec /\ e.id = id /\ e.kind = "Canceled" /\ Ends(e)
        /\ ~Refusal(e) /\ ~Unknown(e)
    BY <1>2 DEF Exec, Canceled, Ends, Refusal, Unknown
  <2> HIDE DEF id, e
  <2>3. \A x \in VenueHolds : x \in VenueHolds' \/ x[1] = id
    BY <1>1, <1>3, <2>1 DEF VenueHolds, Held, InBook, Without
  <2> QED BY <1>1, <2>1, <2>2, <2>3, SettleReport
<1>5. CASE id \notin DOMAIN resting
  <2> DEFINE e == Rejected(id, "UnknownOrder")
  <2>1. Report(e) /\ resting' = resting
    BY <1>5 DEF VenueCancel
  <2>2. /\ e \in Exec /\ e.id = id /\ e.kind = "Rejected"
        /\ ~Refusal(e)
    BY <1>2 DEF Exec, Rejected, Refusal, RejectReason
  <2>3. CancelOnce(oms.orders, Reports, orderCh)
    BY DEF Now, Settled
  <2>4. \A i \in 1..Len(Reports) : Unknown(Reports[i]) => Reports[i].id # id
    BY <1>1, <1>2, <2>3 DEF CancelOnce
  <2>5. id \in DOMAIN oms.orders => oms.orders[id].status = "PendingCancel"
    BY <1>1, <1>2, <2>3 DEF CancelOnce
  <2>6. \A k \in 1..Len(orderCh') : orderCh'[k].cmd = "Cancel" => orderCh'[k].id # id
    <3> SUFFICES ASSUME NEW k \in 1..Len(orderCh'), orderCh'[k].cmd = "Cancel",
                        orderCh'[k].id = id
                 PROVE  FALSE
      OBVIOUS
    <3>1. k+1 \in 1..Len(orderCh) /\ orderCh'[k] = orderCh[k+1]
      BY <1>1, WireTail DEF IInv
    <3>2. k+1 = 1
      BY <1>1, <1>2, <2>3, <3>1 DEF CancelOnce
    <3> QED BY <3>2
  <2> HIDE DEF id, e
  <2>7. \A x \in VenueHolds : x \in VenueHolds'
    BY <1>1, <1>3, <2>1 DEF VenueHolds, Held
  <2> QED BY <1>1, <2>1, <2>2, <2>4, <2>5, <2>6, <2>7, SettleReport
<1> QED BY <1>4, <1>5

LEMMA SettleStep == IInv /\ TypeOK' /\ Now /\ [Next]_vars => Now'
<1> SUFFICES ASSUME IInv, TypeOK', Now, [Next]_vars PROVE Now'
  OBVIOUS
<1>1. ASSUME UNCHANGED <<oms, orderCh, resting, taking>>, Reports' = Reports
      PROVE  Now'
  BY <1>1 DEF Now, VenueHolds
<1>2. ASSUME UNCHANGED <<oms, batch, venueVars>> PROVE Now'
  BY <1>1, <1>2 DEF venueVars, Reports
<1>3. CASE OnMd \/ DrainVenue \/ OnBook \/ RefuseNew \/ Housekeeping \/ CheckPnl
  BY <1>2, <1>3 DEF OnMd, DrainVenue, OnBook, RefuseNew, Housekeeping, CheckPnl
<1>4. CASE Kill \/ Unkill \/ UNCHANGED vars
  BY <1>2, <1>4 DEF Kill, Unkill, vars, engineVars
<1>5. CASE Poll
  <2>1. Reports' = Reports
    BY <1>5, ReportsPolled DEF IInv
  <2> QED BY <1>1, <1>5, <2>1 DEF Poll
<1>6. CASE ApplyExec
  BY <1>6, SettleApply
<1>7. CASE SendNew
  BY <1>7, SettleSendNew
<1>8. CASE SendCancel
  BY <1>8, SettleSendCancel
<1>9. CASE VenueNext /\ UNCHANGED engineVars
  BY <1>9, SettleReject, SettleAccept, SettleRest, SettleCancel, SettleTake,
     SettleMake DEF VenueNext, VenueCommand, VenueTrade
<1> QED BY <1>3, <1>4, <1>5, <1>6, <1>7, <1>8, <1>9
        DEF Next, EngineNext, Working

SInv == IInv /\ Now

LEMMA SettleAlways == Spec => []SInv
<1>1. Init => SInv
  BY InvInit, SettleInit DEF SInv
<1>2. SInv /\ [Next]_vars => SInv'
  <2> SUFFICES ASSUME IInv, Now, [Next]_vars PROVE IInv' /\ Now'
    BY DEF SInv
  <2>1. IInv'
    BY InvStep
  <2>2. TypeOK'
    BY <2>1 DEF IInv
  <2> QED BY <2>1, <2>2, SettleStep
<1> QED BY <1>1, <1>2, PTL DEF Spec

-----------------------------------------------------------------------------

LEMMA SettledImpliesNoGhosts == SInv => NoGhostOrders
<1> SUFFICES ASSUME SInv, orderCh = <<>>, Reports = <<>>, taking = NoOrder
             PROVE  DOMAIN oms.orders = DOMAIN resting
  BY DEF NoGhostOrders
<1>1. DOMAIN resting \subseteq DOMAIN oms.orders
  BY InvImpliesKnown DEF SInv, NoOrphanOrders
<1>2. ASSUME NEW id \in DOMAIN oms.orders PROVE id \in DOMAIN resting
  <2>1. Len(orderCh) = 0 /\ Len(Reports) = 0
    OBVIOUS
  <2>2. PICK x \in VenueHolds : x[1] = id
    BY <2>1 DEF SInv, Now, Settled, Accounted
  <2>3. InBook(resting, x)
    BY <2>1, <2>2 DEF VenueHolds, Held, InHand, OnWire
  <2> QED BY <2>2, <2>3 DEF InBook
<1> QED BY <1>1, <1>2

(* Once everything on the way has arrived, the OMS works exactly the       *)
(* orders that rest at the venue: no order stays in the OMS after the      *)
(* venue is done with it (Oms::on_exec, docs/src/risk.md).                 *)
THEOREM NoGhosts == Spec => []NoGhostOrders
BY SettleAlways, SettledImpliesNoGhosts, PTL

LEMMA AtMostOne ==
  ASSUME NEW S, \A x, y \in S : x = y
  PROVE  Cardinality(S) \in {0, 1} /\ (S = {} => Cardinality(S) = 0)
<1>1. CASE S = {}
  BY <1>1, FS_EmptySet
<1>2. CASE S # {}
  <2>1. PICK x : S = {x}
    BY <1>2
  <2> QED BY <1>2, <2>1, FS_Singleton
<1> QED BY <1>1, <1>2

LEMMA SettledImpliesOneCancel == SInv => OneCancelInFlight
<1> SUFFICES ASSUME SInv, NEW id \in OrderId
             PROVE  Cardinality({i \in 1..Len(orderCh) : orderCh[i] = CancelCmd(id)})
                    + Cardinality({i \in ReportsOf(id) :
                                     Reports[i] = Rejected(id, "UnknownOrder")}) <= 1
  BY DEF OneCancelInFlight
<1> DEFINE C == {i \in 1..Len(orderCh) : orderCh[i] = CancelCmd(id)}
           U == {i \in ReportsOf(id) : Reports[i] = Rejected(id, "UnknownOrder")}
<1>1. CancelOnce(oms.orders, Reports, orderCh)
  BY DEF SInv, Now, Settled
<1>2. \A i \in C : i \in 1..Len(orderCh) /\ orderCh[i].cmd = "Cancel" /\ orderCh[i].id = id
  BY DEF CancelCmd
<1>3. \A i \in U : i \in 1..Len(Reports) /\ Unknown(Reports[i]) /\ Reports[i].id = id
  BY DEF ReportsOf, Rejected, Unknown
<1> HIDE DEF C, U
<1>4. (\A x, y \in C : x = y) /\ (\A x, y \in U : x = y)
  BY <1>1, <1>2, <1>3 DEF CancelOnce
<1>5. C = {} \/ U = {}
  BY <1>1, <1>2, <1>3 DEF CancelOnce
<1>6. /\ Cardinality(C) \in {0, 1} /\ (C = {} => Cardinality(C) = 0)
      /\ Cardinality(U) \in {0, 1} /\ (U = {} => Cardinality(U) = 0)
  BY <1>4, AtMostOne
<1>7. Cardinality(C) + Cardinality(U) <= 1
  BY <1>5, <1>6
<1> QED BY <1>7 DEF C, U

(* The venue is asked once to cancel an order, and answers a cancel that   *)
(* came too late once, however often the strategy or a kill asks for it    *)
(* (process_intents, the PendingCancel test).                              *)
THEOREM CancelsOnce == Spec => []OneCancelInFlight
BY SettleAlways, SettledImpliesOneCancel, PTL

-----------------------------------------------------------------------------
(* What the OMS believes and what the venue holds. *)

(* An order filled to the end is not canceled nor rejected after. *)
EndIsLast(r) ==
  \A i, j \in 1..Len(r) :
    i < j /\ r[i].kind = "Fill" /\ r[i].leaves = 0 /\ r[j].id = r[i].id
      => ~(r[j].kind # "Fill" /\ Ends(r[j]))

(* Only orders for something are on the wire. *)
WireQty(ch) == \A k \in 1..Len(ch) : IsNew(ch, k) => ch[k].qty > 0

MatchInv == EndIsLast(Reports) /\ WireQty(orderCh)

LEMMA EndReport ==
  ASSUME NEW S, NEW r \in Seq(S), NEW e \in S, NEW h, LastFill(r, h), Lots(r, h),
         EndIsLast(r),
         e.kind # "Fill" /\ Ends(e) => \E x \in h : x[1] = e.id /\ x[2] > 0
  PROVE  EndIsLast(Append(r, e))
<1> DEFINE r2 == Append(r, e)
<1>1. /\ Len(r) \in Nat /\ Len(r2) = Len(r) + 1
      /\ \A i \in 1..Len(r) : r2[i] = r[i]
      /\ r2[Len(r2)] = e
  OBVIOUS
<1>2. \A i \in 1..Len(r2) : i \in 1..Len(r) \/ i = Len(r2)
  BY <1>1
<1> HIDE DEF r2
<1>3. ASSUME NEW i \in 1..Len(r), r[i].kind = "Fill", r[i].leaves = 0,
             e.id = r[i].id, e.kind # "Fill", Ends(e)
      PROVE  FALSE
  <2>1. PICK x \in h : x[1] = e.id /\ x[2] > 0
    BY <1>3
  <2>2. x[2] <= r[i].leaves
    BY <1>3, <2>1 DEF LastFill, FillOf
  <2>3. x[2] \in Nat
    BY DEF Lots
  <2> QED BY <1>3, <2>1, <2>2, <2>3
<1>4. EndIsLast(r2)
  <2> SUFFICES ASSUME NEW i \in 1..Len(r2), NEW j \in 1..Len(r2), i < j,
                      r2[i].kind = "Fill", r2[i].leaves = 0,
                      r2[j].id = r2[i].id, r2[j].kind # "Fill", Ends(r2[j])
               PROVE  FALSE
    BY DEF EndIsLast
  <2>1. i \in 1..Len(r) /\ r2[i] = r[i]
    BY <1>1
  <2>2. CASE j = Len(r2)
    BY <1>1, <1>3, <2>1, <2>2
  <2>3. CASE j \in 1..Len(r)
    BY <1>1, <2>1, <2>3 DEF EndIsLast
  <2> QED BY <1>2, <2>2, <2>3
<1> QED BY <1>4 DEF r2

LEMMA EndTail ==
  ASSUME NEW S, NEW r \in Seq(S), r # <<>>, EndIsLast(r)
  PROVE  EndIsLast(Tail(r))
<1> DEFINE t == Tail(r)
<1>1. /\ Len(t) \in Nat
      /\ \A i \in 1..Len(t) : t[i] = r[i+1] /\ i+1 \in 1..Len(r)
  OBVIOUS
<1> HIDE DEF t
<1>2. EndIsLast(t)
  <2> SUFFICES ASSUME NEW i \in 1..Len(t), NEW j \in 1..Len(t), i < j,
                      t[i].kind = "Fill", t[i].leaves = 0,
                      t[j].id = t[i].id, t[j].kind # "Fill", Ends(t[j])
               PROVE  FALSE
    BY DEF EndIsLast
  <2>1. i+1 < j+1
    OBVIOUS
  <2> QED BY <1>1, <2>1 DEF EndIsLast
<1> QED BY <1>2 DEF t

(* A step of the venue with a report that ends no order, or one it held. *)
LEMMA MatchReport ==
  ASSUME IInv, TypeOK', MatchInv, UNCHANGED engineVars, NEW e \in Exec, Report(e),
         orderCh' = orderCh \/ (orderCh # <<>> /\ orderCh' = Tail(orderCh)),
         e.kind # "Fill" /\ Ends(e) =>
           \E x \in VenueHolds : x[1] = e.id /\ x[2] > 0
  PROVE  MatchInv'
<1>1. Reports' = Append(Reports, e) /\ Reports \in Seq(Exec)
  BY ReportsType, ReportsAppend DEF IInv, engineVars
<1>2. LastFill(Reports, VenueHolds) /\ Lots(Reports, VenueHolds) /\ EndIsLast(Reports)
  BY DEF IInv, Chain, MatchInv
<1>3. EndIsLast(Reports')
  BY <1>1, <1>2, EndReport
<1>4. WireQty(orderCh')
  <2>1. CASE orderCh' = orderCh
    BY <2>1 DEF MatchInv
  <2>2. CASE orderCh # <<>> /\ orderCh' = Tail(orderCh)
    <3>1. \A k \in 1..Len(orderCh') : k+1 \in 1..Len(orderCh) /\ orderCh'[k] = orderCh[k+1]
      BY <2>2, WireTail DEF IInv
    <3> QED BY <3>1 DEF MatchInv, WireQty, IsNew
  <2> QED BY <2>1, <2>2
<1> QED BY <1>3, <1>4 DEF MatchInv

LEMMA MatchVenue ==
  ASSUME IInv, TypeOK', MatchInv, VenueNext, UNCHANGED engineVars
  PROVE  MatchInv'
<1>1. CASE VenueReject
  <2> DEFINE id == Head(orderCh).id
             e == Rejected(id, "WouldCross")
  <2>1. /\ orderCh # <<>> /\ Head(orderCh).cmd = "New"
        /\ orderCh' = Tail(orderCh) /\ Report(e)
    BY <1>1 DEF VenueReject
  <2>2. e \in Exec /\ e.id = id
    BY <2>1, HeadFacts DEF Exec, Rejected, RejectReason
  <2>3. Head(orderCh).qty > 0 /\ Head(orderCh).qty \in Nat /\ id \in OrderId
    BY <2>1, HeadFacts DEF MatchInv, WireQty, IsNew
  <2>4. \E x \in VenueHolds : x[1] = id /\ x[2] > 0
    <3> DEFINE q == Head(orderCh).qty
    <3>1. OnWire(orderCh, <<id, q>>)
      BY <2>1, HeadFacts DEF OnWire, IsNew
    <3> HIDE DEF id, q
    <3>2. <<id, q>> \in VenueHolds
      BY <2>3, <3>1 DEF VenueHolds, Held, q
    <3> QED BY <2>3, <3>2 DEF q
  <2> HIDE DEF e, id
  <2> QED BY <2>1, <2>2, <2>4, MatchReport
<1>2. CASE VenueAccept
  <2> DEFINE e == Ack(Head(orderCh).id)
  <2>1. orderCh # <<>> /\ orderCh' = Tail(orderCh) /\ Report(e)
    BY <1>2 DEF VenueAccept
  <2>2. e \in Exec /\ ~Ends(e)
    BY <2>1, HeadFacts DEF Exec, Ack, Ends
  <2> HIDE DEF e
  <2> QED BY <2>1, <2>2, MatchReport
<1>3. CASE VenueRest
  <2> DEFINE id == taking.id
             e == Canceled(id)
  <2>1. taking # NoOrder /\ UNCHANGED orderCh
    BY <1>3 DEF VenueRest
  <2>2. CASE taking.qty > 0 /\ taking.tif = "Ioc"
    <3>1. Report(e) /\ id \in OrderId /\ taking.qty \in Nat
      BY <1>3, <2>1, <2>2 DEF VenueRest, IInv, TypeOK, NewOrderCmd
    <3>2. e \in Exec /\ e.id = id
      BY <3>1 DEF Exec, Canceled
    <3>3. \E x \in VenueHolds : x[1] = id /\ x[2] > 0
      <4> DEFINE q == taking.qty
      <4>1. InHand(taking, <<id, q>>)
        BY <2>1 DEF InHand
      <4> HIDE DEF id, q
      <4>2. <<id, q>> \in VenueHolds
        BY <3>1, <4>1 DEF VenueHolds, Held, q
      <4> QED BY <2>2, <4>2 DEF q
    <3> HIDE DEF e, id
    <3> QED BY <2>1, <3>1, <3>2, <3>3, MatchReport
  <2>3. CASE ~(taking.qty > 0 /\ taking.tif = "Ioc")
    <3>1. UNCHANGED execCh
      BY <1>3, <2>3 DEF VenueRest
    <3> QED BY <2>1, <3>1 DEF MatchInv, Reports, engineVars
  <2> QED BY <2>2, <2>3
<1>4. CASE VenueCancel
  <2> DEFINE id == Head(orderCh).id
  <2>1. orderCh # <<>> /\ orderCh' = Tail(orderCh) /\ id \in OrderId
    BY <1>4, HeadFacts DEF VenueCancel
  <2>2. CASE id \in DOMAIN resting
    <3> DEFINE e == Canceled(id)
    <3>1. Report(e)
      BY <1>4, <2>2 DEF VenueCancel
    <3>2. e \in Exec /\ e.id = id
      BY <2>1 DEF Exec, Canceled
    <3>3. \E x \in VenueHolds : x[1] = id /\ x[2] > 0
      <4> DEFINE q == resting[id].leaves
      <4>1. q \in Nat /\ q > 0
        <5>1. resting[id] \in Resting
          BY <2>2 DEF IInv, TypeOK, IsPartialFunction
        <5> QED BY <5>1 DEF Resting
      <4>2. InBook(resting, <<id, q>>)
        BY <2>2 DEF InBook
      <4> HIDE DEF id, q
      <4>3. <<id, q>> \in VenueHolds
        BY <2>1, <4>1, <4>2 DEF VenueHolds, Held
      <4> QED BY <4>1, <4>3
    <3> HIDE DEF e, id
    <3> QED BY <2>1, <3>1, <3>2, <3>3, MatchReport
  <2>3. CASE id \notin DOMAIN resting
    <3> DEFINE e == Rejected(id, "UnknownOrder")
    <3>1. Report(e)
      BY <1>4, <2>3 DEF VenueCancel
    <3>2. e \in Exec /\ ~Ends(e)
      BY <2>1 DEF Exec, Rejected, RejectReason, Ends
    <3> HIDE DEF e, id
    <3> QED BY <2>1, <3>1, <3>2, MatchReport
  <2> QED BY <2>2, <2>3
<1>5. CASE VenueTrade
  <2>1. PICK e : e.kind = "Fill" /\ Report(e) /\ UNCHANGED orderCh
    <3>1. \A a, b, c, d : Fill(a, b, c, d).kind = "Fill"
      BY DEF Fill
    <3> QED BY <1>5, <3>1 DEF VenueTrade, VenueTake, VenueMake
  <2>2. e \in Exec
    <3>1. execCh \in Seq(Exec) /\ execCh' \in Seq(Exec) /\ execCh' = Append(execCh, e)
      BY <2>1 DEF IInv, TypeOK, Report
    <3>2. execCh'[Len(execCh) + 1] = e /\ Len(execCh) + 1 \in 1..Len(execCh')
      BY <3>1
    <3> QED BY <3>1, <3>2
  <2> QED BY <2>1, <2>2, MatchReport
<1> QED BY <1>1, <1>2, <1>3, <1>4, <1>5 DEF VenueNext, VenueCommand

LEMMA MatchSend ==
  ASSUME IInv, MatchInv, NEW cmd, cmd.cmd = "New" => cmd.qty > 0,
         orderCh' = Append(orderCh, cmd), UNCHANGED <<batch, execCh>>
  PROVE  MatchInv'
<1>1. /\ Len(orderCh') = Len(orderCh) + 1 /\ Len(orderCh) \in Nat
      /\ \A k \in 1..Len(orderCh) : orderCh'[k] = orderCh[k]
      /\ orderCh'[Len(orderCh')] = cmd
  BY DEF IInv, TypeOK
<1>2. \A k \in 1..Len(orderCh') : k \in 1..Len(orderCh) \/ k = Len(orderCh')
  BY <1>1
<1>3. WireQty(orderCh')
  BY <1>1, <1>2 DEF MatchInv, WireQty, IsNew
<1> QED BY <1>3 DEF MatchInv, Reports

LEMMA MatchStep == IInv /\ TypeOK' /\ MatchInv /\ [Next]_vars => MatchInv'
<1> SUFFICES ASSUME IInv, TypeOK', MatchInv, [Next]_vars PROVE MatchInv'
  OBVIOUS
<1>1. ASSUME UNCHANGED orderCh, Reports' = Reports PROVE MatchInv'
  BY <1>1 DEF MatchInv
<1>2. ASSUME UNCHANGED <<batch, venueVars>> PROVE MatchInv'
  BY <1>1, <1>2 DEF venueVars, Reports
<1>3. CASE OnMd \/ DrainVenue \/ OnBook \/ RefuseNew \/ Housekeeping \/ CheckPnl
  BY <1>2, <1>3 DEF OnMd, DrainVenue, OnBook, RefuseNew, Housekeeping, CheckPnl
<1>4. CASE Kill \/ Unkill \/ UNCHANGED vars
  BY <1>2, <1>4 DEF Kill, Unkill, vars, engineVars
<1>5. CASE Poll
  BY <1>1, <1>5, ReportsPolled DEF IInv, Poll
<1>6. CASE ApplyExec
  <2>1. batch # <<>> /\ batch' = Tail(batch) /\ UNCHANGED <<execCh, orderCh>>
    BY <1>6 DEF ApplyExec, IInv, TypeOK, venueVars
  <2>2. Reports \in Seq(Exec) /\ Reports' = Tail(Reports) /\ Reports # <<>>
    BY <2>1, ReportsType, ReportsTail DEF IInv
  <2> QED BY <2>1, <2>2, EndTail DEF MatchInv
<1>7. CASE SendNew
  <2> DEFINE i == Head(intents)
             cmd == NewCmd(oms.next_cl_id, i.side, i.price, i.qty, i.tif)
  <2>1. orderCh' = Append(orderCh, cmd) /\ UNCHANGED <<batch, execCh>> /\ i.qty > 0
    BY <1>7 DEF SendNew, Admissible
  <2>2. cmd.qty > 0
    BY <2>1 DEF NewCmd
  <2> HIDE DEF cmd
  <2> QED BY <2>1, <2>2, MatchSend
<1>8. CASE SendCancel
  <2> DEFINE cmd == CancelCmd(Head(intents).id)
  <2>1. UNCHANGED <<batch, execCh>>
        /\ (UNCHANGED orderCh \/ orderCh' = Append(orderCh, cmd))
    BY <1>8 DEF SendCancel
  <2>2. cmd.cmd # "New"
    BY DEF CancelCmd
  <2> HIDE DEF cmd
  <2> QED BY <1>1, <2>1, <2>2, MatchSend DEF Reports
<1>9. CASE VenueNext /\ UNCHANGED engineVars
  BY <1>9, MatchVenue
<1> QED BY <1>3, <1>4, <1>5, <1>6, <1>7, <1>8, <1>9
        DEF Next, EngineNext, Working

-----------------------------------------------------------------------------

(* What VenueLeaves says is what the venue holds. *)
LEMMA OrderedInNone ==
  ASSUME NEW S, NEW ch \in Seq(S), NEW id,
         \A k \in 1..Len(ch) : ~(ch[k].cmd = "New" /\ ch[k].id = id)
  PROVE  OrderedIn(ch, id) = 0
<1> DEFINE n == Len(ch)
           f == [i \in 1..n |-> IF ch[i].cmd = "New" /\ ch[i].id = id
                                THEN ch[i].qty ELSE 0]
<1>1. n \in Nat /\ \A i \in 1..n : f[i] = 0
  OBVIOUS
<1>2. IsSum(f, n, 0)
  <2> HIDE DEF f, n
  <2> QED BY <1>1, ZeroSum
<1>3. SumUpTo(f, n) = 0
  <2> HIDE DEF f, n
  <2> QED BY <1>1, <1>2, SumIsTotal
<1> QED BY <1>3 DEF OrderedIn

LEMMA OrderedInOne ==
  ASSUME NEW S, NEW ch \in Seq(S), NEW k \in 1..Len(ch), ch[k].cmd = "New",
         ch[k].qty \in Nat,
         \A i \in 1..Len(ch) : ch[i].cmd = "New" /\ ch[i].id = ch[k].id => i = k
  PROVE  OrderedIn(ch, ch[k].id) = ch[k].qty
<1> DEFINE n == Len(ch)
           id == ch[k].id
           q == ch[k].qty
           f == [i \in 1..n |-> IF ch[i].cmd = "New" /\ ch[i].id = id
                                THEN ch[i].qty ELSE 0]
           g == [i \in 0..n |-> IF i < k THEN 0 ELSE q]
<1>1. n \in Nat /\ g \in [0..n -> Int] /\ g[0] = 0 /\ g[n] = q
  OBVIOUS
<1>2. \A i \in 1..n : f[i] = IF i = k THEN q ELSE 0
  OBVIOUS
<1>3. ASSUME NEW i \in 1..n PROVE g[i] = g[i-1] + f[i]
  <2>1. q \in Nat /\ i-1 \in 0..n /\ i \in 0..n /\ f[i] = IF i = k THEN q ELSE 0
    BY <1>2
  <2> HIDE DEF f, q
  <2> QED BY <2>1
<1>4. SumUpTo(f, n) = g[n]
  <2> HIDE DEF f, g, n
  <2> QED BY <1>1, <1>3, SumUpToIs
<1> QED BY <1>1, <1>4 DEF OrderedIn

LEMMA VenueLeavesIs ==
  ASSUME IInv, NEW id \in OrderId
  PROVE  \/ \E x \in VenueHolds : x[1] = id /\ VenueLeaves(id) = x[2]
         \/ (\A x \in VenueHolds : x[1] # id) /\ VenueLeaves(id) = 0
<1>1. CASE id \in DOMAIN resting
  <2> DEFINE q == resting[id].leaves
  <2>1. q \in Nat /\ VenueLeaves(id) = q
    BY <1>1 DEF IInv, TypeOK, IsPartialFunction, Resting, VenueLeaves
  <2>2. <<id, q>> \in VenueHolds
    <3>1. InBook(resting, <<id, q>>)
      BY <1>1 DEF InBook
    <3> HIDE DEF q
    <3> QED BY <2>1, <3>1 DEF VenueHolds, Held
  <2>3. <<id, q>>[1] = id /\ <<id, q>>[2] = q
    OBVIOUS
  <2> HIDE DEF q
  <2> QED BY <2>1, <2>2, <2>3
<1>2. CASE id \notin DOMAIN resting /\ taking # NoOrder /\ taking.id = id
  <2> DEFINE q == taking.qty
  <2>1. q \in Nat /\ VenueLeaves(id) = q
    BY <1>2 DEF IInv, TypeOK, NewOrderCmd, VenueLeaves
  <2>2. <<id, q>> \in VenueHolds
    <3>1. InHand(taking, <<id, q>>)
      BY <1>2 DEF InHand
    <3> HIDE DEF q
    <3> QED BY <2>1, <3>1 DEF VenueHolds, Held
  <2>3. <<id, q>>[1] = id /\ <<id, q>>[2] = q
    OBVIOUS
  <2> HIDE DEF q
  <2> QED BY <2>1, <2>2, <2>3
<1>3. CASE id \notin DOMAIN resting /\ ~(taking # NoOrder /\ taking.id = id)
  <2>1. VenueLeaves(id) = OrderedIn(orderCh, id)
    BY <1>3 DEF VenueLeaves
  <2>2. orderCh \in Seq(OrderCmd)
    BY DEF IInv, TypeOK
  <2>3. CASE \E k \in 1..Len(orderCh) : IsNew(orderCh, k) /\ orderCh[k].id = id
    <3>1. PICK k \in 1..Len(orderCh) : IsNew(orderCh, k) /\ orderCh[k].id = id
      BY <2>3
    <3> DEFINE q == orderCh[k].qty
    <3>2. q \in Nat
      <4>1. orderCh[k] \in OrderCmd
        BY <2>2
      <4> QED BY <3>1, <4>1 DEF OrderCmd, NewOrderCmd, IsNew
    <3>3. VenueLeaves(id) = q
      <4>1. \A i \in 1..Len(orderCh) :
              orderCh[i].cmd = "New" /\ orderCh[i].id = orderCh[k].id => i = k
        BY <3>1 DEF IInv, OnePlace, IsNew
      <4> QED BY <2>1, <2>2, <3>1, <3>2, <4>1, OrderedInOne DEF IsNew
    <3>4. <<id, q>> \in VenueHolds
      <4>1. OnWire(orderCh, <<id, q>>)
        BY <3>1 DEF OnWire
      <4> HIDE DEF q
      <4> QED BY <3>2, <4>1 DEF VenueHolds, Held
    <3>5. <<id, q>>[1] = id /\ <<id, q>>[2] = q
      OBVIOUS
    <3> HIDE DEF q
    <3> QED BY <3>3, <3>4, <3>5
  <2>4. CASE ~\E k \in 1..Len(orderCh) : IsNew(orderCh, k) /\ orderCh[k].id = id
    <3>1. OrderedIn(orderCh, id) = 0
      BY <2>2, <2>4, OrderedInNone DEF IsNew
    <3>2. \A x \in VenueHolds : x[1] # id
      BY <1>3, <2>4 DEF VenueHolds, Held, InBook, InHand, OnWire
    <3> QED BY <2>1, <3>1, <3>2
  <2> QED BY <2>3, <2>4
<1> QED BY <1>1, <1>2, <1>3

(* The two sides of the equality, order by order. *)
LEMMA MatchOrder ==
  ASSUME SInv, MatchInv, NEW id \in DOMAIN oms.orders
  PROVE  LET ours == oms.orders[id].leaves
             theirs == VenueLeaves(id) + FilledIn(Reports, id)
         IN IF \E i \in ReportsOf(id) : Reports[i].kind \in {"Canceled", "Rejected"}
                                        /\ Ends(Reports[i])
            THEN ours > theirs
            ELSE ours = theirs
<1> DEFINE r == Reports
           h == VenueHolds
           ours == oms.orders[id].leaves
           n == Len(r)
           v == VenueLeaves(id)
           s == FilledIn(r, id)
<1>1. IInv /\ IsOms(oms) /\ r \in Seq(Exec) /\ n \in Nat
  BY ReportsType DEF SInv, IInv, TypeOK
<1>2. id \in OrderId /\ ours \in Nat /\ ours > 0
  BY <1>1, OrderFacts
<1>3. Chain(oms.orders, r, h) /\ Lots(r, h) /\ EndIsLast(r)
  BY <1>1 DEF IInv, MatchInv
<1>4. Accounted(oms.orders, r, h)
  BY DEF SInv, Now, Settled
<1>5. \/ \E x \in h : x[1] = id /\ v = x[2]
      \/ (\A x \in h : x[1] # id) /\ v = 0
  BY <1>1, <1>2, VenueLeavesIs
<1>6. v \in Nat /\ \A x \in h : x[1] = id => v = x[2]
  <2>1. Single(h) /\ \A x \in h : x[2] \in Nat
    BY <1>3 DEF Chain, Lots
  <2> HIDE DEF v, h
  <2> QED BY <1>5, <2>1 DEF Single
<1>7. /\ (\A i \in 1..n : ~FillOf(r, i, id)) => s = 0
      /\ \A k \in 1..n : LastFillOf(r, k, id, n) => s = ours - r[k].leaves
  <2>1. FirstFill(oms.orders, r) /\ NextFill(r) /\ Lots(r, {})
    BY <1>3 DEF Chain, Lots
  <2> QED BY <1>1, <1>2, <2>1, FillsAddUp
<1> HIDE DEF r, h, ours, v, s
<1>8. \/ \A i \in 1..n : ~FillOf(r, i, id)
      \/ \E k \in 1..n : LastFillOf(r, k, id, n)
  <2> SUFFICES ASSUME NEW j \in 1..n, FillOf(r, j, id)
               PROVE  \E k \in 1..n : LastFillOf(r, k, id, n)
    OBVIOUS
  <2> DEFINE T == {k \in 1..n : FillOf(r, k, id)}
  <2>1. PICK m \in T : \A k \in T : k <= m
    <3>1. T \in SUBSET (0..n) /\ j \in T
      BY <1>1
    <3> HIDE DEF T, n
    <3> QED BY <1>1, <3>1, GreatestNat
  <2>2. m \in 1..n /\ FillOf(r, m, id)
    OBVIOUS
  <2>3. ASSUME NEW k \in (m+1)..n PROVE ~FillOf(r, k, id)
    BY <1>1, <2>1, <2>2
  <2> QED BY <2>2, <2>3 DEF LastFillOf
<1>9. ASSUME NEW k \in 1..n, FillOf(r, k, id)
      PROVE  r[k].leaves \in Nat /\ r[k].kind = "Fill" /\ r[k].id = id
  BY <1>3, <1>9 DEF Lots, FillOf
<1>10. CASE \E i \in ReportsOf(id) : Reports[i].kind \in {"Canceled", "Rejected"}
                                     /\ Ends(Reports[i])
  <2>1. PICK i \in 1..n : /\ r[i].id = id /\ r[i].kind \in {"Canceled", "Rejected"}
                          /\ Ends(r[i])
    BY <1>10 DEF ReportsOf, r
  <2>2. /\ \A j \in (i+1)..n : ~FillOf(r, j, id)
        /\ \A x \in h : x[1] # id
    BY <1>3, <2>1 DEF Chain, Closed, CloseOf
  <2>3. v = 0
    BY <1>5, <2>2
  <2>4. ours > v + s
    <3>1. CASE \A j \in 1..n : ~FillOf(r, j, id)
      BY <1>2, <1>7, <2>3, <3>1
    <3>2. CASE \E k \in 1..n : LastFillOf(r, k, id, n)
      <4>1. PICK k \in 1..n : LastFillOf(r, k, id, n)
        BY <3>2
      <4>2. FillOf(r, k, id) /\ r[k].leaves \in Nat /\ r[k].kind = "Fill" /\ r[k].id = id
        BY <1>9, <4>1 DEF LastFillOf
      <4>3. k < i
        BY <1>1, <2>1, <2>2, <4>2
      <4>4. r[k].leaves # 0
        BY <1>3, <2>1, <4>2, <4>3 DEF EndIsLast
      <4>5. s = ours - r[k].leaves
        BY <1>7, <4>1
      <4> QED BY <1>2, <2>3, <4>2, <4>4, <4>5
    <3> QED BY <1>8, <3>1, <3>2
  <2> QED BY <1>10, <2>4 DEF ours, v, s, r
<1>11. CASE ~\E i \in ReportsOf(id) : Reports[i].kind \in {"Canceled", "Rejected"}
                                      /\ Ends(Reports[i])
  <2>1. \/ \E x \in h : x[1] = id /\ x[2] > 0
        \/ \E i \in 1..n : FillOf(r, i, id) /\ r[i].leaves = 0
    <3>1. \A i \in 1..n : ~(r[i].id = id /\ r[i].kind \in {"Canceled", "Rejected"}
                            /\ Ends(r[i]))
      BY <1>11 DEF ReportsOf, r
    <3> QED BY <1>4, <3>1 DEF Accounted, Ends, FillOf
  <2>2. ours = v + s
    <3>1. CASE \A j \in 1..n : ~FillOf(r, j, id)
      <4>1. PICK x \in h : x[1] = id /\ x[2] > 0
        BY <2>1, <3>1
      <4>2. ours = x[2]
        BY <1>3, <3>1, <4>1 DEF Chain, NoFill, ours
      <4> QED BY <1>2, <1>6, <1>7, <3>1, <4>1, <4>2
    <3>2. CASE \E k \in 1..n : LastFillOf(r, k, id, n)
      <4>1. PICK k \in 1..n : LastFillOf(r, k, id, n)
        BY <3>2
      <4>2. FillOf(r, k, id) /\ r[k].leaves \in Nat /\ r[k].kind = "Fill" /\ r[k].id = id
        BY <1>9, <4>1 DEF LastFillOf
      <4>3. s = ours - r[k].leaves
        BY <1>7, <4>1
      <4>4. \A x \in h : x[1] = id => x[2] = r[k].leaves
        BY <1>3, <4>1, <4>2 DEF Chain, LastFill, LastFillOf
      <4>5. v = r[k].leaves
        <5>1. CASE \E x \in h : x[1] = id
          BY <1>6, <4>4, <5>1
        <5>2. CASE \A x \in h : x[1] # id
          <6>1. PICK i \in 1..n : FillOf(r, i, id) /\ r[i].leaves = 0
            BY <2>1, <5>2
          <6>2. i = k
            <7> SUFFICES ASSUME i # k PROVE FALSE
              OBVIOUS
            <7>1. i < k
              BY <1>1, <4>1, <6>1 DEF LastFillOf
            <7>2. r[k].qty + r[k].leaves <= r[i].leaves
              BY <1>3, <4>2, <6>1, <7>1 DEF Chain, NextFill, FillOf
            <7>3. r[k].qty \in Nat /\ r[k].qty > 0
              BY <1>3, <4>2 DEF Lots
            <7> QED BY <4>2, <6>1, <7>2, <7>3
          <6> QED BY <1>5, <5>2, <6>1, <6>2
        <5> QED BY <5>1, <5>2
      <4> QED BY <1>2, <4>2, <4>3, <4>5
    <3> QED BY <1>8, <3>1, <3>2
  <2> QED BY <1>11, <2>2 DEF ours, v, s, r
<1> QED BY <1>10, <1>11

(* What the OMS believes of an order is what the venue holds of it plus    *)
(* the fills on the way, and more only once the order's end is on the way: *)
(* no report is lost, doubled or applied to another order (Oms::on_exec).  *)
THEOREM OmsMatches == Spec => []OmsMatchesVenue
<1>1. Init => MatchInv
  <2> SUFFICES ASSUME Init PROVE MatchInv
    OBVIOUS
  <2>1. orderCh = <<>> /\ Reports = <<>>
    BY DEF Init, VenueInit, Reports
  <2>2. Len(orderCh) = 0 /\ Len(Reports) = 0
    BY <2>1
  <2> QED BY <2>1, <2>2 DEF MatchInv, EndIsLast, WireQty
<1>2. SInv /\ SInv' /\ MatchInv /\ [Next]_vars => MatchInv'
  BY MatchStep DEF SInv, IInv
<1>3. SInv /\ MatchInv => OmsMatchesVenue
  BY MatchOrder DEF OmsMatchesVenue
<1> QED BY <1>1, <1>2, <1>3, SettleAlways, PTL DEF Spec

(* The running open quantity of a side, which check_new reads, is the sum  *)
(* of what its open orders have left, although it is moved by fills,       *)
(* cancels and rejects one at a time (Oms::on_exec, Oms::remove).          *)
THEOREM OpenQtyIsSum == Spec => []OpenQtyIsSumOfLeaves
<1>1. IInv => OpenQtyIsSumOfLeaves
  <2> SUFFICES ASSUME IInv, NEW side \in Side PROVE oms.open[side] = OmsLeaves(side)
    BY DEF OpenQtyIsSumOfLeaves
  <2>1. IsSum(LeavesTable(oms.orders, side), MaxOrders, oms.open[side])
    BY DEF IInv, OpenIsSum
  <2> QED BY <2>1, SumIsTotal DEF OmsLeaves
<1> QED BY <1>1, InvAlways, PTL

-----------------------------------------------------------------------------
(* The kill switch. *)

CancelIntentOf(id) == [kind |-> "Cancel", id |-> id]

(* Every order that is not asked to be canceled yet is about to be. *)
Asked(orders, todo) ==
  \A id \in DOMAIN orders : orders[id].status # "PendingCancel" =>
    \E i \in 1..Len(todo) : todo[i] = CancelIntentOf(id)

(* Between two calls of the event loop no intent waits; once a kill is     *)
(* handled every order is canceled or about to be.                         *)
KillInv ==
  /\ pc \in {"idle", "pnl"} => intents = <<>>
  /\ pc = "poll" /\ after # "book" => intents = <<>>
  /\ kill_handled => kill /\ Asked(oms.orders, intents)

LEMMA EmitsKeepsAsked ==
  ASSUME NEW orders, intents \in Seq(Intent), Asked(orders, intents),
         StrategyEmits
  PROVE  Asked(orders, intents')
<1>1. PICK n \in 0..(MaxIntents - Len(intents)) :
        \E out \in [1..n -> Intent] : intents' = intents \o out
  BY DEF StrategyEmits
<1>2. PICK out \in [1..n -> Intent] : intents' = intents \o out
  BY <1>1
<1>3. out \in Seq(Intent)
  BY <1>2
<1>4. \A i \in 1..Len(intents) : i \in 1..Len(intents') /\ intents'[i] = intents[i]
  BY <1>2, <1>3
<1> QED BY <1>4 DEF Asked

(* The first intent is done; it asked for no order that still needs it. *)
LEMMA TailKeepsAsked ==
  ASSUME NEW orders, NEW orders2, intents \in Seq(Intent), intents # <<>>,
         Asked(orders, intents), DOMAIN orders2 \subseteq DOMAIN orders,
         \A id \in DOMAIN orders2 : orders2[id].status # "PendingCancel" =>
           /\ orders[id].status # "PendingCancel"
           /\ Head(intents) # CancelIntentOf(id)
  PROVE  Asked(orders2, Tail(intents))
<1>1. /\ Len(intents) \in Nat /\ Head(intents) = intents[1]
      /\ Len(Tail(intents)) = Len(intents) - 1
      /\ \A i \in 1..Len(intents) : i = 1 \/
           (i-1 \in 1..Len(Tail(intents)) /\ Tail(intents)[i-1] = intents[i])
  OBVIOUS
<1> QED BY <1>1 DEF Asked

LEMMA CancelAllAsks ==
  ASSUME TypeOK, CancelAll
  PROVE  Asked(oms.orders, intents')
<1>1. PICK n \in 0..MaxOrders : \E ids \in [1..n -> Cancelable] :
    /\ \A id \in Cancelable : \E i \in 1..n : ids[i] = id
    /\ intents' = intents \o [i \in 1..n |-> [kind |-> "Cancel", id |-> ids[i]]]
  BY DEF CancelAll
<1>2. PICK ids \in [1..n -> Cancelable] :
    /\ \A id \in Cancelable : \E i \in 1..n : ids[i] = id
    /\ intents' = intents \o [i \in 1..n |-> [kind |-> "Cancel", id |-> ids[i]]]
  BY <1>1
<1> DEFINE out == [i \in 1..n |-> CancelIntentOf(ids[i])]
<1>3. intents' = intents \o out
  BY <1>2 DEF CancelIntentOf
<1>4. intents \in Seq(Intent) /\ n \in Nat
  BY DEF TypeOK
<1>5. out \in Seq({CancelIntentOf(ids[i]) : i \in 1..n}) /\ Len(out) = n
  BY <1>4
<1>6. \A i \in 1..n : /\ Len(intents) + i \in 1..Len(intents')
                      /\ intents'[Len(intents) + i] = out[i]
  <2> HIDE DEF out
  <2> QED BY <1>3, <1>4, <1>5
<1>7. \A i \in 1..n : out[i] = CancelIntentOf(ids[i])
  OBVIOUS
<1> HIDE DEF out
<1>8. ASSUME NEW id \in Cancelable
      PROVE  \E j \in 1..Len(intents') : intents'[j] = CancelIntentOf(id)
  <2>1. PICK i \in 1..n : ids[i] = id
    BY <1>2, <1>8
  <2>2. out[i] = CancelIntentOf(id)
    BY <1>7, <2>1
  <2> QED BY <1>6, <2>2
<1> QED BY <1>8 DEF Asked, Cancelable

LEMMA CallKeepsIdle ==
  ASSUME NEW then \in {"idle", "book", "pnl"}, CallProcessIntents(then)
  PROVE  /\ pc' \in {"idle", "pnl"} => intents' = <<>>
         /\ pc' # "poll"
BY DEF CallProcessIntents

LEMMA KillStep ==
  ASSUME "unkill" \notin Controls, SInv, TypeOK', KillInv, [Next]_vars
  PROVE  KillInv'
<1>1. TypeOK /\ intents \in Seq(Intent) /\ after \in {"idle", "book", "pnl"}
  BY DEF SInv, IInv, TypeOK
<1>2. CASE OnMd
  <2>1. pc' = "poll" /\ after' = "book" /\ StrategyEmits
        /\ UNCHANGED <<oms, kill, kill_handled>>
    BY <1>2 DEF OnMd
  <2> QED BY <1>1, <2>1, EmitsKeepsAsked DEF KillInv
<1>3. CASE DrainVenue
  BY <1>3 DEF DrainVenue, KillInv
<1>4. CASE Poll
  BY <1>1, <1>4 DEF Poll, KillInv
<1>5. CASE ApplyExec
  <2>1. /\ oms' = OnExec(oms, Head(batch)) /\ UNCHANGED kill_handled
        /\ StrategyEmits \/ UNCHANGED intents
        /\ kill => kill'
        /\ CallProcessIntents(after) \/ UNCHANGED <<pc, after>>
        /\ pc = "apply"
    BY <1>5 DEF ApplyExec
  <2>2. kill_handled => Asked(oms.orders, intents')
    BY <1>1, <2>1, EmitsKeepsAsked DEF KillInv
  <2>3. ExecKept(oms, oms', Head(batch))
    <3> DEFINE e == Head(batch)
    <3>1. batch # <<>> /\ batch \in Seq(Exec) /\ execCh \in Seq(Exec) /\ IsOms(oms)
      BY <1>1, <1>5 DEF ApplyExec, TypeOK
    <3>2. e \in Exec /\ e = Reports[1] /\ 1 \in 1..Len(Reports)
      BY <3>1 DEF Reports
    <3>3. RejectsNew(oms.orders, Reports)
      BY DEF SInv, Now, Settled
    <3>4. Refusal(e) /\ e.id \in DOMAIN oms.orders => ~oms.orders[e.id].acked
      BY <3>2, <3>3 DEF RejectsNew
    <3> QED BY <2>1, <3>1, <3>2, <3>4, ExecKeeps
  <2>4. kill_handled => Asked(oms'.orders, intents')
    BY <2>2, <2>3 DEF ExecKept, Asked
  <2> QED BY <1>1, <2>1, <2>4, CallKeepsIdle DEF KillInv
<1>6. CASE OnBook
  <2>1. /\ StrategyEmits \/ UNCHANGED intents
        /\ CallProcessIntents("idle")
        /\ UNCHANGED <<oms, kill, kill_handled>>
    BY <1>6 DEF OnBook
  <2>2. kill_handled => Asked(oms.orders, intents')
    BY <1>1, <2>1, EmitsKeepsAsked DEF KillInv
  <2> QED BY <2>1, <2>2, CallKeepsIdle DEF KillInv
<1>7. CASE SendNew
  <2>1. ~kill /\ CallProcessIntents(after) /\ UNCHANGED <<kill, kill_handled>>
    BY <1>7 DEF SendNew, Admissible
  <2> QED BY <1>1, <2>1, CallKeepsIdle DEF KillInv
<1>8. CASE RefuseNew
  <2>1. /\ pc = "send" /\ Head(intents).kind = "New" /\ intents' = Tail(intents)
        /\ CallProcessIntents(after)
        /\ UNCHANGED <<oms, kill, kill_handled>>
    BY <1>8 DEF RefuseNew
  <2>2. intents # <<>>
    BY <1>1, <2>1 DEF TypeOK
  <2>3. \A id : Head(intents) # CancelIntentOf(id)
    BY <2>1 DEF CancelIntentOf
  <2>4. kill_handled => Asked(oms.orders, intents')
    BY <1>1, <2>1, <2>2, <2>3, TailKeepsAsked DEF KillInv
  <2> QED BY <1>1, <2>1, <2>4, CallKeepsIdle DEF KillInv
<1>9. CASE SendCancel
  <2> DEFINE id == Head(intents).id
  <2>1. /\ pc = "send" /\ intents' = Tail(intents)
        /\ CallProcessIntents(after)
        /\ UNCHANGED <<kill, kill_handled>>
    BY <1>9 DEF SendCancel
  <2>2. intents # <<>>
    BY <1>1, <2>1 DEF TypeOK
  <2>3. /\ DOMAIN oms'.orders \subseteq DOMAIN oms.orders
        /\ \A i \in DOMAIN oms'.orders : oms'.orders[i].status # "PendingCancel" =>
             oms.orders[i].status # "PendingCancel" /\ i # id
    <3>1. CASE /\ id \in DOMAIN oms.orders
               /\ oms.orders[id].status # "PendingCancel"
               /\ oms' = SetStatus(oms, id, "PendingCancel")
      <4> DEFINE order == [oms.orders[id] EXCEPT !.status = "PendingCancel"]
      <4>1. IsOms(oms)
        BY <1>1 DEF TypeOK
      <4>2. oms'.orders = With(oms.orders, id, order)
        <5>1. oms' = [orders |-> With(oms.orders, id, order),
                      next_cl_id |-> oms.next_cl_id, position |-> oms.position,
                      cash |-> oms.cash, open |-> oms.open]
          BY <3>1, <4>1, SetStatusEffect
        <5> QED BY <5>1
      <4>3. order.status = "PendingCancel"
        BY <3>1, <4>1, OrderFacts DEF Order
      <4> HIDE DEF order, id
      <4> QED BY <3>1, <4>2, <4>3 DEF With
    <3>2. CASE /\ UNCHANGED oms
               /\ ~(id \in DOMAIN oms.orders /\ oms.orders[id].status # "PendingCancel")
      BY <3>2
    <3> QED BY <1>9, <3>1, <3>2 DEF SendCancel, OnCancelSent
  <2>4. \A i : i # id => Head(intents) # CancelIntentOf(i)
    BY DEF CancelIntentOf
  <2> HIDE DEF id
  <2>5. kill_handled => Asked(oms'.orders, intents')
    BY <1>1, <2>1, <2>2, <2>3, <2>4, TailKeepsAsked DEF KillInv
  <2> QED BY <1>1, <2>1, <2>5, CallKeepsIdle DEF KillInv
<1>10. CASE Housekeeping
  <2>1. /\ kill /\ ~kill_handled => CancelAll
        /\ ~(kill /\ ~kill_handled) => UNCHANGED intents
        /\ kill_handled' = kill /\ UNCHANGED <<oms, kill>>
        /\ CallProcessIntents("pnl")
    BY <1>10 DEF Housekeeping
  <2>2. kill => Asked(oms.orders, intents')
    BY <1>1, <2>1, CancelAllAsks DEF KillInv
  <2> QED BY <2>1, <2>2, CallKeepsIdle DEF KillInv
<1>11. CASE CheckPnl
  BY <1>11 DEF CheckPnl, KillInv
<1>12. CASE VenueNext /\ UNCHANGED engineVars
  BY <1>12 DEF engineVars, KillInv
<1>13. CASE Kill
  BY <1>13 DEF Kill, KillInv
<1>14. CASE UNCHANGED vars
  BY <1>14 DEF vars, engineVars, KillInv
<1> QED BY <1>2, <1>3, <1>4, <1>5, <1>6, <1>7, <1>8, <1>9, <1>10, <1>11,
           <1>12, <1>13, <1>14 DEF Next, EngineNext, Working, Unkill

LEMMA KillStepCancels ==
  ASSUME "unkill" \notin Controls, SInv, KillInv, [Next]_vars,
         IsHousekeeping, kill, NEW id \in Cancelable
  PROVE  \E i \in 1..Len(intents') :
           intents'[i] = [kind |-> "Cancel", id |-> id]
<1>1. pc = "idle" /\ pc' \in {"pnl", "send"}
  BY DEF IsHousekeeping
<1>2. Housekeeping
  BY <1>1 DEF Next, EngineNext, Working, OnMd, DrainVenue, Poll, ApplyExec, OnBook,
     SendNew, RefuseNew, SendCancel, CheckPnl, Kill, Unkill, vars, engineVars
<1>3. Asked(oms.orders, intents')
  BY <1>2, CancelAllAsks DEF Housekeeping, KillInv, SInv, IInv
<1> QED BY <1>3 DEF Asked, Cancelable, CancelIntentOf

(* When nobody clears the flag, the housekeeping pass after a kill asks to *)
(* cancel every order that is not asked to be canceled yet, whenever the   *)
(* kill came (engine.rs, housekeeping; docs/src/risk.md).  With an unkill  *)
(* it does not: OrderEntry_rekill shows the counterexample.                *)
THEOREM KillCancels == "unkill" \notin Controls => (Spec => KillCancelsAll)
<1> SUFFICES ASSUME "unkill" \notin Controls PROVE Spec => KillCancelsAll
  OBVIOUS
<1>1. Init => KillInv
  BY DEF Init, KillInv
<1>2. SInv /\ SInv' /\ KillInv /\ [Next]_vars => KillInv'
  BY KillStep DEF SInv, IInv
<1>3. SInv /\ KillInv /\ [Next]_vars =>
        [IsHousekeeping /\ kill =>
           \A id \in Cancelable :
             \E i \in 1..Len(intents') :
               intents'[i] = [kind |-> "Cancel", id |-> id]]_vars
  BY KillStepCancels
<1> QED BY <1>1, <1>2, <1>3, SettleAlways, PTL DEF Spec, KillCancelsAll


================================================================================
