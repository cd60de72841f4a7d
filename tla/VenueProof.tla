----------------------------- MODULE VenueProof -----------------------------
(***************************************************************************)
(* Proofs about the simulated venue thread (SimVenue), for any prices,     *)
(* quantities and number of orders.                                        *)
(*                                                                         *)
(* The inductive invariant VInv keeps the two views of the matching        *)
(* engine's book together while submit is between two of its iterations:   *)
(* each level holds the orders of its side and price once each, in the     *)
(* order in which they came to rest, and the sum of what they have left.   *)
(* Empty levels and filled orders exist only where the incoming order is.  *)
(* From it follow the five safety properties of the book, that the thread  *)
(* implements the abstract venue of order entry (OrderVenue), and that the *)
(* nested loops of submit end.                                             *)
(***************************************************************************)
EXTENDS SimVenue, Lemmas

LastId == BgId(MaxBg)
Id == 1..LastId
Order == [owner : Owner, side : Side, price : Prices, leaves : Nat]
PriceLevel == [total : Nat, queue : Seq(Id)]

-----------------------------------------------------------------------------
(* Queues: sequences of ids without repetition. *)

(* q has the elements of S, once each. *)
Lists(q, S) ==
  /\ q \in Seq(Id)
  /\ \A i, j \in 1..Len(q) : q[i] = q[j] => i = j
  /\ \A x : x \in S <=> \E i \in 1..Len(q) : q[i] = x

(* In arr, a is before b. *)
Earlier(arr, a, b) ==
  \A i, j \in 1..Len(arr) : arr[i] = a /\ arr[j] = b => i < j

(* q is in the order of arr. *)
InTurn(q, arr) ==
  \A i, j \in 1..Len(q) : i < j => Earlier(arr, q[i], q[j])

(* Without an element a queue keeps the others and their order. *)
LEMMA DequeuedIs ==
  ASSUME NEW q, NEW S, Lists(q, S), NEW id
  PROVE  /\ Lists(Dequeued(q, id), S \ {id})
         /\ \A i, j \in 1..Len(Dequeued(q, id)) : i < j =>
              \E k, l \in 1..Len(q) : /\ k < l /\ q[k] = Dequeued(q, id)[i]
                                      /\ q[l] = Dequeued(q, id)[j]
         /\ id \notin S => Dequeued(q, id) = q
         /\ q # <<>> /\ id = Head(q) => Dequeued(q, id) = Tail(q)
<1>. DEFINE There == {i \in DOMAIN q : q[i] = id}
            d == Dequeued(q, id)
<1>0. /\ q \in Seq(Id) /\ Len(q) \in Nat /\ DOMAIN q = 1..Len(q)
      /\ \A i, j \in 1..Len(q) : q[i] = q[j] => i = j
      /\ \A x : x \in S <=> \E i \in 1..Len(q) : q[i] = x
  BY DEF Lists
<1>1. CASE There = {}
  <2>1. d = q
    BY <1>1 DEF Dequeued
  <2>2. id \notin S
    BY <1>0, <1>1
  <2>3. q # <<>> => Head(q) = q[1] /\ 1 \in DOMAIN q
    BY <1>0
  <2>4. ~(q # <<>> /\ id = Head(q))
    BY <1>1, <2>3
  <2>5. S \ {id} = S
    BY <2>2
  <2>. QED  BY <2>1, <2>4, <2>5 DEF Lists
<1>2. CASE There # {}
  <2>1. PICK a \in 1..Len(q) : q[a] = id
    BY <1>0, <1>2
  <2>2. There = {a}
    BY <1>0, <2>1
  <2>3. Min(There) = a
    BY <2>2 DEF Min
  <2>4. d = RemoveAt(q, a)
    BY <1>2, <2>3 DEF Dequeued
  <2>5. d = Cut(q, a)
    BY <2>4 DEF RemoveAt, Cut
  <2>6. /\ d \in Seq(Id) /\ Len(d) = Len(q) - 1
        /\ \A j \in 1..(Len(q) - 1) : d[j] = IF j < a THEN q[j] ELSE q[j + 1]
    <3>1. /\ Cut(q, a) \in Seq(Id) /\ Len(Cut(q, a)) = Len(q) - 1
          /\ \A j \in 1..(Len(q) - 1) :
               Cut(q, a)[j] = IF j < a THEN q[j] ELSE q[j + 1]
      BY <1>0, CutIs
    <3>. QED  BY <2>5, <3>1
  <2>. HIDE DEF d, There
  <2>. DEFINE at(j) == IF j < a THEN j ELSE j + 1
  <2>7. /\ \A j \in 1..Len(d) : at(j) \in 1..Len(q) /\ d[j] = q[at(j)] /\ at(j) # a
        /\ \A i, j \in 1..Len(d) : i < j <=> at(i) < at(j)
        /\ \A k \in 1..Len(q) : k # a => \E j \in 1..Len(d) : at(j) = k
    <3>1. \A j \in 1..Len(d) : at(j) \in 1..Len(q) /\ d[j] = q[at(j)] /\ at(j) # a
      BY <1>0, <2>1, <2>6
    <3>2. \A i, j \in 1..Len(d) : i < j <=> at(i) < at(j)
      BY <1>0, <2>1, <2>6
    <3>3. ASSUME NEW k \in 1..Len(q), k # a PROVE \E j \in 1..Len(d) : at(j) = k
      <4>1. CASE k < a
        <5>1. k \in 1..Len(d) /\ at(k) = k
          BY <4>1, <1>0, <2>1, <2>6
        <5>. QED  BY <5>1
      <4>2. CASE k > a
        <5>1. k - 1 \in 1..Len(d) /\ at(k - 1) = k
          BY <4>2, <1>0, <2>1, <2>6
        <5>. QED  BY <5>1
      <4>. QED  BY <4>1, <4>2, <3>3
    <3>. QED  BY <3>1, <3>2, <3>3
  <2>. HIDE DEF at
  <2>8. \A i, j \in 1..Len(d) : d[i] = d[j] => i = j
    <3>. SUFFICES ASSUME NEW i \in 1..Len(d), NEW j \in 1..Len(d), d[i] = d[j]
                  PROVE  i = j
      OBVIOUS
    <3>1. at(i) = at(j) /\ at(i) \in Int
      BY <1>0, <2>7
    <3>2. ~(i < j) /\ ~(j < i)
      BY <2>7, <3>1
    <3>. QED  BY <3>2, <2>6, <1>0
  <2>9. ASSUME NEW x PROVE x \in S \ {id} <=> \E i \in 1..Len(d) : d[i] = x
    <3>1. ASSUME x \in S, x # id PROVE \E i \in 1..Len(d) : d[i] = x
      <4>1. PICK k \in 1..Len(q) : q[k] = x
        BY <3>1, <1>0
      <4>2. PICK j \in 1..Len(d) : at(j) = k
        BY <2>1, <2>7, <3>1, <4>1
      <4>. QED  BY <2>7, <4>1, <4>2
    <3>2. ASSUME NEW i \in 1..Len(d), d[i] = x PROVE x \in S /\ x # id
      BY <3>2, <1>0, <2>1, <2>7
    <3>. QED  BY <3>1, <3>2
  <2>10. \A i, j \in 1..Len(d) : i < j =>
           \E k, l \in 1..Len(q) : k < l /\ q[k] = d[i] /\ q[l] = d[j]
    BY <2>7
  <2>11. ASSUME q # <<>>, id = Head(q) PROVE d = Tail(q)
    <3>1. a = 1
      BY <2>11, <2>1, <1>0
    <3>2. /\ Tail(q) \in Seq(Id) /\ Len(Tail(q)) = Len(q) - 1
          /\ \A j \in 1..(Len(q) - 1) : Tail(q)[j] = q[j + 1]
      BY <2>11, <1>0
    <3>3. \A j \in 1..(Len(q) - 1) : d[j] = Tail(q)[j]
      BY <2>6, <3>1, <3>2, <1>0
    <3>. QED  BY <2>6, <3>2, <3>3
  <2>12. id \in S
    BY <1>0, <2>1
  <2>. QED  BY <2>6, <2>8, <2>9, <2>10, <2>11, <2>12 DEF Lists, d
<1>. QED  BY <1>1, <1>2

(* A queue with one more element. *)
LEMMA AppendedIs ==
  ASSUME NEW q, NEW S, Lists(q, S), NEW id \in Id, id \notin S
  PROVE  /\ Lists(Append(q, id), S \cup {id})
         /\ Len(Append(q, id)) = Len(q) + 1
         /\ \A i \in 1..Len(q) : Append(q, id)[i] = q[i]
         /\ Append(q, id)[Len(q) + 1] = id
<1>. DEFINE d == Append(q, id)
<1>0. /\ q \in Seq(Id) /\ Len(q) \in Nat
      /\ \A i, j \in 1..Len(q) : q[i] = q[j] => i = j
      /\ \A x : x \in S <=> \E i \in 1..Len(q) : q[i] = x
  BY DEF Lists
<1>1. /\ d \in Seq(Id) /\ Len(d) = Len(q) + 1
      /\ \A i \in 1..Len(q) : d[i] = q[i]
      /\ d[Len(q) + 1] = id
  BY <1>0
<1>. HIDE DEF d
<1>2. \A i \in 1..Len(d) : i \in 1..Len(q) \/ i = Len(q) + 1
  BY <1>0, <1>1
<1>3. \A i \in 1..Len(q) : q[i] # id
  BY <1>0
<1>4. \A i, j \in 1..Len(d) : d[i] = d[j] => i = j
  BY <1>0, <1>1, <1>2, <1>3
<1>5. ASSUME NEW x PROVE x \in S \cup {id} <=> \E i \in 1..Len(d) : d[i] = x
  <2>1. ASSUME x \in S PROVE \E i \in 1..Len(d) : d[i] = x
    <3>1. PICK i \in 1..Len(q) : q[i] = x
      BY <2>1, <1>0
    <3>2. i \in 1..Len(d)
      BY <1>0, <1>1
    <3>. QED  BY <3>1, <3>2, <1>1
  <2>2. Len(q) + 1 \in 1..Len(d)
    BY <1>0, <1>1
  <2>3. ASSUME NEW i \in 1..Len(d) PROVE d[i] \in S \cup {id}
    BY <1>0, <1>1, <1>2
  <2>. QED  BY <2>1, <2>2, <2>3, <1>1
<1>. QED  BY <1>1, <1>4, <1>5 DEF Lists, d

(* Taking an element out of both keeps q in the order of arr. *)
LEMMA DequeuedInTurn ==
  ASSUME NEW q, NEW S, Lists(q, S), NEW arr, NEW T, Lists(arr, T),
         S \subseteq T, InTurn(q, arr), NEW id
  PROVE  InTurn(Dequeued(q, id), Dequeued(arr, id))
<1>. DEFINE d == Dequeued(q, id)
            e == Dequeued(arr, id)
<1>1. /\ \A i, j \in 1..Len(d) : i < j =>
           \E k, l \in 1..Len(q) : k < l /\ q[k] = d[i] /\ q[l] = d[j]
      /\ \A i, j \in 1..Len(e) : i < j =>
           \E k, l \in 1..Len(arr) : k < l /\ arr[k] = e[i] /\ arr[l] = e[j]
      /\ Lists(d, S \ {id}) /\ Lists(e, T \ {id})
  BY DequeuedIs
<1>. HIDE DEF d, e
<1>2. Len(e) \in Nat /\ Len(d) \in Nat /\ Len(arr) \in Nat
  BY <1>1 DEF Lists
<1>3. ASSUME NEW i \in 1..Len(d), NEW j \in 1..Len(d), i < j,
             NEW m \in 1..Len(e), NEW n \in 1..Len(e), e[m] = d[i], e[n] = d[j]
      PROVE  m < n
  <2>1. PICK k \in 1..Len(q), l \in 1..Len(q) : k < l /\ q[k] = d[i] /\ q[l] = d[j]
    BY <1>1, <1>3
  <2>2. Earlier(arr, d[i], d[j])
    BY <2>1 DEF InTurn
  <2>3. m # n
    BY <1>1, <1>3, <1>2 DEF Lists
  <2>4. ~(n < m)
    <3>1. SUFFICES ASSUME n < m PROVE FALSE
      OBVIOUS
    <3>2. PICK x \in 1..Len(arr), y \in 1..Len(arr) :
            x < y /\ arr[x] = e[n] /\ arr[y] = e[m]
      BY <1>1, <3>1
    <3>3. y < x
      BY <2>2, <3>2, <1>3 DEF Earlier
    <3>. QED  BY <3>2, <3>3, <1>2
  <2>. QED  BY <2>3, <2>4, <1>2
<1>. QED  BY <1>3 DEF InTurn, Earlier, d, e

(* An arrival changes no order among the others, and is the last. *)
LEMMA AppendedInTurn ==
  ASSUME NEW q, NEW S, Lists(q, S), NEW arr, NEW T, Lists(arr, T),
         S \subseteq T, InTurn(q, arr), NEW id \in Id, id \notin T
  PROVE  /\ InTurn(q, Append(arr, id))
         /\ InTurn(Append(q, id), Append(arr, id))
<1>. DEFINE d == Append(q, id)
            e == Append(arr, id)
<1>0. /\ Len(q) \in Nat /\ Len(arr) \in Nat
      /\ \A i \in 1..Len(q) : q[i] \in T /\ q[i] # id
      /\ \A i \in 1..Len(arr) : arr[i] # id
  BY DEF Lists
<1>1. /\ Len(d) = Len(q) + 1
      /\ \A i \in 1..Len(q) : d[i] = q[i]
      /\ d[Len(q) + 1] = id
  BY AppendedIs
<1>2. /\ Len(e) = Len(arr) + 1
      /\ \A i \in 1..Len(arr) : e[i] = arr[i]
      /\ e[Len(arr) + 1] = id
  BY AppendedIs
<1>. HIDE DEF d, e
<1>3. \A m \in 1..Len(e) : /\ m \in 1..Len(arr) \/ m = Len(arr) + 1
                           /\ e[m] # id => m \in 1..Len(arr)
                           /\ e[m] = id => m = Len(arr) + 1
  BY <1>0, <1>2
<1>4. ASSUME NEW i \in 1..Len(q), NEW j \in 1..Len(q), i < j
      PROVE  Earlier(e, q[i], q[j])
  <2>1. Earlier(arr, q[i], q[j])
    BY <1>4 DEF InTurn
  <2>2. q[i] # id /\ q[j] # id
    BY <1>0
  <2>. QED  BY <2>1, <2>2, <1>2, <1>3 DEF Earlier
<1>5. ASSUME NEW i \in 1..Len(q) PROVE Earlier(e, q[i], id)
  <2>1. q[i] # id
    BY <1>0
  <2>. QED  BY <2>1, <1>0, <1>2, <1>3 DEF Earlier
<1>6. InTurn(q, e)
  BY <1>4 DEF InTurn
<1>7. ASSUME NEW i \in 1..Len(d), NEW j \in 1..Len(d), i < j
      PROVE  Earlier(e, d[i], d[j])
  <2>1. i \in 1..Len(q) /\ (j \in 1..Len(q) \/ j = Len(q) + 1)
    BY <1>7, <1>0, <1>1
  <2>. QED  BY <2>1, <1>1, <1>4, <1>5, <1>7
<1>. QED  BY <1>6, <1>7 DEF InTurn, d, e

-----------------------------------------------------------------------------
(* Books: levels, orders and the sequence of their arrivals that agree. *)

AtP(ord, s, p) == {id \in DOMAIN ord : ord[id].side = s /\ ord[id].price = p}
LeavesT(ord, s, p) ==
  [id \in Id |-> IF id \in AtP(ord, s, p) THEN ord[id].leaves ELSE 0]

(* A level has the orders of its side and price in turn, and their sum. *)
LevelOK(ord, arr, s, p, lv) ==
  /\ lv \in PriceLevel
  /\ Lists(lv.queue, AtP(ord, s, p))
  /\ InTurn(lv.queue, arr)
  /\ IsSum(LeavesT(ord, s, p), LastId, lv.total)

OrdersOK(ord, arr) ==
  /\ DOMAIN ord \subseteq Id
  /\ \A id \in DOMAIN ord : ord[id] \in Order
  /\ Lists(arr, DOMAIN ord)

LevelsOK(lev) ==
  /\ lev = [s \in Side |-> lev[s]]
  /\ \A s \in Side : IsFiniteSet(DOMAIN lev[s]) /\ DOMAIN lev[s] \subseteq Prices

BookOK(lev, ord, arr) ==
  /\ LevelsOK(lev)
  /\ OrdersOK(ord, arr)
  /\ \A s \in Side : \A p \in DOMAIN lev[s] : LevelOK(ord, arr, s, p, lev[s][p])
  /\ \A id \in DOMAIN ord : ord[id].price \in DOMAIN lev[ord[id].side]

SetLev(lev, s, p, lv) == [lev EXCEPT ![s] = With(lev[s], p, lv)]
DropLev(lev, s, p) == [lev EXCEPT ![s] = Without(lev[s], p)]

(* new is lev with lv at (s0, p0). *)
SetAt(new, lev, s0, p0, lv) ==
  /\ LevelsOK(new)
  /\ \A s \in Side :
       /\ DOMAIN new[s] = IF s = s0 THEN DOMAIN lev[s] \cup {p0} ELSE DOMAIN lev[s]
       /\ \A p \in DOMAIN new[s] :
            new[s][p] = IF s = s0 /\ p = p0 THEN lv ELSE lev[s][p]

(* Setting a level changes that one. *)
LEMMA SetLevIs ==
  ASSUME NEW lev, LevelsOK(lev), NEW s0 \in Side, NEW p0 \in Prices, NEW lv
  PROVE  SetAt(SetLev(lev, s0, p0, lv), lev, s0, p0, lv)
<1>. DEFINE n == SetLev(lev, s0, p0, lv)
            w == With(lev[s0], p0, lv)
<1>1. lev = [s \in Side |-> lev[s]]
  BY DEF LevelsOK
<1>2. n = [lev EXCEPT ![s0] = w]
  BY DEF SetLev
<1>3. /\ DOMAIN w = DOMAIN lev[s0] \cup {p0}
      /\ \A p \in DOMAIN w : w[p] = IF p = p0 THEN lv ELSE lev[s0][p]
  BY DEF With
<1>. HIDE DEF n, w
<1>4. n = [s \in Side |-> n[s]] /\ \A s \in Side : n[s] = IF s = s0 THEN w ELSE lev[s]
  BY <1>1, <1>2
<1>5. IsFiniteSet(DOMAIN w) /\ DOMAIN w \subseteq Prices
  BY <1>3, FS_AddElement DEF LevelsOK
<1>6. LevelsOK(n)
  <2>1. \A s \in Side : IsFiniteSet(DOMAIN n[s]) /\ DOMAIN n[s] \subseteq Prices
    BY <1>4, <1>5 DEF LevelsOK
  <2>. QED  BY <1>4, <2>1 DEF LevelsOK
<1>7. \A s \in Side :
        /\ DOMAIN n[s] = IF s = s0 THEN DOMAIN lev[s] \cup {p0} ELSE DOMAIN lev[s]
        /\ \A p \in DOMAIN n[s] : n[s][p] = IF s = s0 /\ p = p0 THEN lv ELSE lev[s][p]
  BY <1>3, <1>4
<1>. QED  BY <1>6, <1>7 DEF n, SetAt

(* One level and the orders there change, nothing else does. *)
LEMMA LevelChanged ==
  ASSUME NEW lev, NEW ord, NEW arr, BookOK(lev, ord, arr),
         NEW s0 \in Side, NEW p0 \in Prices, NEW lv, NEW ord2, NEW arr2,
         OrdersOK(ord2, arr2),
         LevelOK(ord2, arr2, s0, p0, lv),
         \A s \in Side, p \in Prices : s # s0 \/ p # p0 =>
           /\ AtP(ord2, s, p) = AtP(ord, s, p)
           /\ LeavesT(ord2, s, p) = LeavesT(ord, s, p)
           /\ \A q : Lists(q, AtP(ord, s, p)) /\ InTurn(q, arr) => InTurn(q, arr2)
  PROVE  BookOK(SetLev(lev, s0, p0, lv), ord2, arr2)
<1>. DEFINE n == SetLev(lev, s0, p0, lv)
<1>1. /\ LevelsOK(n)
      /\ \A s \in Side :
           /\ DOMAIN n[s] = IF s = s0 THEN DOMAIN lev[s] \cup {p0} ELSE DOMAIN lev[s]
           /\ \A p \in DOMAIN n[s] : n[s][p] = IF s = s0 /\ p = p0 THEN lv ELSE lev[s][p]
  <2>1. LevelsOK(lev)
    BY DEF BookOK
  <2>2. SetAt(SetLev(lev, s0, p0, lv), lev, s0, p0, lv)
    BY <2>1, SetLevIs
  <2>. QED  BY <2>2 DEF SetAt
<1>. HIDE DEF n
<1>2. ASSUME NEW s \in Side, NEW p \in DOMAIN n[s]
      PROVE  LevelOK(ord2, arr2, s, p, n[s][p])
  <2>1. CASE s = s0 /\ p = p0
    BY <2>1, <1>1
  <2>2. CASE s # s0 \/ p # p0
    <3>1. p \in DOMAIN lev[s] /\ n[s][p] = lev[s][p] /\ p \in Prices
      BY <2>2, <1>1 DEF LevelsOK
    <3>2. LevelOK(ord, arr, s, p, lev[s][p])
      BY <3>1 DEF BookOK
    <3>3. /\ AtP(ord2, s, p) = AtP(ord, s, p)
          /\ LeavesT(ord2, s, p) = LeavesT(ord, s, p)
          /\ \A q : Lists(q, AtP(ord, s, p)) /\ InTurn(q, arr) => InTurn(q, arr2)
      BY <2>2, <3>1
    <3>. QED  BY <3>1, <3>2, <3>3 DEF LevelOK
  <2>. QED  BY <2>1, <2>2
<1>3. ASSUME NEW id \in DOMAIN ord2
      PROVE  ord2[id].price \in DOMAIN n[ord2[id].side]
  <2>. DEFINE s == ord2[id].side
              p == ord2[id].price
  <2>1. s \in Side /\ p \in Prices
    BY DEF OrdersOK, Order
  <2>2. CASE s = s0 /\ p = p0
    BY <2>2, <1>1
  <2>3. CASE s # s0 \/ p # p0
    <3>1. id \in AtP(ord2, s, p)
      BY DEF AtP
    <3>2. id \in AtP(ord, s, p)
      BY <2>1, <2>3, <3>1
    <3>3. p \in DOMAIN lev[s]
      BY <3>2 DEF AtP, BookOK
    <3>. QED  BY <2>1, <3>3, <1>1
  <2>. QED  BY <2>2, <2>3
<1>. QED  BY <1>1, <1>2, <1>3 DEF BookOK, n

(* The table of what each order has left at a price. *)
LEMMA TablesTyped ==
  ASSUME NEW ord, NEW arr, OrdersOK(ord, arr), NEW s, NEW p
  PROVE  /\ LeavesT(ord, s, p) \in [1..LastId -> Nat]
         /\ \A id \in DOMAIN ord : id \in Id /\ ord[id].leaves \in Nat
                                   /\ ord[id].side \in Side /\ ord[id].price \in Prices
  <1>1. \A id \in DOMAIN ord : id \in Id /\ ord[id].leaves \in Nat
                               /\ ord[id].side \in Side /\ ord[id].price \in Prices
    BY DEF OrdersOK, Order
  <1>. QED  BY <1>1 DEF LeavesT, AtP, Id

(* There are finitely many ids. *)
LEMMA LastIdNat == LastId \in Nat
BY SimVenueAssumption DEF LastId, BgId

(* An order loses part of what it has left, its level as much. *)
LEMMA OrderReduced ==
  ASSUME NEW lev, NEW ord, NEW arr, BookOK(lev, ord, arr),
         NEW id \in DOMAIN ord, NEW q \in 0..ord[id].leaves
  PROVE  LET s == ord[id].side
             p == ord[id].price
             o == [ord[id] EXCEPT !.leaves = ord[id].leaves - q]
         IN BookOK(SetLev(lev, s, p, Reduced(lev[s][p], q)), With(ord, id, o), arr)
<1>. DEFINE s0 == ord[id].side
            p0 == ord[id].price
            o == [ord[id] EXCEPT !.leaves = ord[id].leaves - q]
            ord2 == With(ord, id, o)
            lv == lev[s0][p0]
            n == Reduced(lv, q)
<1>0. OrdersOK(ord, arr)
  BY DEF BookOK
<1>1. /\ id \in Id /\ ord[id].leaves \in Nat /\ s0 \in Side /\ p0 \in Prices
      /\ ord[id] \in Order /\ q \in Nat
  BY <1>0, TablesTyped DEF OrdersOK
<1>2. /\ o \in Order /\ o.leaves = ord[id].leaves - q /\ o.side = s0 /\ o.price = p0
  BY <1>1 DEF Order
<1>3. /\ DOMAIN ord2 = DOMAIN ord
      /\ \A i \in DOMAIN ord : ord2[i] = IF i = id THEN o ELSE ord[i]
  BY DEF With
<1>. HIDE DEF o, ord2
<1>4. OrdersOK(ord2, arr)
  BY <1>0, <1>2, <1>3 DEF OrdersOK
<1>5. \A s, p : AtP(ord2, s, p) = AtP(ord, s, p)
  BY <1>2, <1>3 DEF AtP
<1>6. ASSUME NEW s \in Side, NEW p \in Prices, s # s0 \/ p # p0
      PROVE  LeavesT(ord2, s, p) = LeavesT(ord, s, p)
  <2>1. \A i \in AtP(ord, s, p) : i # id /\ i \in DOMAIN ord
    BY <1>6 DEF AtP
  <2>2. \A i \in AtP(ord, s, p) : ord2[i].leaves = ord[i].leaves
    BY <2>1, <1>3
  <2>. QED  BY <2>2, <1>5 DEF LeavesT
<1>7. LevelOK(ord, arr, s0, p0, lv)
  BY <1>1 DEF BookOK
<1>. DEFINE f == LeavesT(ord, s0, p0)
            h == LeavesT(ord2, s0, p0)
<1>8. /\ f \in [1..LastId -> Nat] /\ h \in [1..LastId -> Nat]
  BY <1>0, <1>4, TablesTyped
<1>9. id \in AtP(ord, s0, p0)
  BY DEF AtP
<1>10. /\ f[id] = ord[id].leaves /\ h[id] = ord[id].leaves - q
       /\ \A i \in 1..LastId : i # id => h[i] = f[i]
  <2>1. \A i \in Id : h[i] = IF i \in AtP(ord, s0, p0) THEN ord2[i].leaves ELSE 0
    BY <1>5 DEF LeavesT
  <2>2. \A i \in Id : f[i] = IF i \in AtP(ord, s0, p0) THEN ord[i].leaves ELSE 0
    BY DEF LeavesT
  <2>3. \A i \in AtP(ord, s0, p0) : i \in DOMAIN ord
    BY DEF AtP
  <2>. HIDE DEF f, h
  <2>. QED  BY <1>1, <1>2, <1>3, <1>9, <2>1, <2>2, <2>3 DEF Id
<1>11. IsSum(f, LastId, lv.total)
  BY <1>7 DEF LevelOK
<1>. HIDE DEF f, h
<1>12. IsSum(h, LastId, lv.total - f[id] + h[id])
  BY <1>1, <1>8, <1>10, <1>11, LastIdNat, SumUpdate DEF Id
<1>13. lv \in PriceLevel /\ lv.total \in Nat
  BY <1>7 DEF LevelOK, PriceLevel
<1>14. lv.total - f[id] + h[id] = lv.total - q
  BY <1>1, <1>10, <1>13
<1>15. lv.total - q \in Nat
  BY <1>12, <1>14, LastIdNat, SumIsNat
<1>16. n \in PriceLevel /\ n.total = lv.total - q /\ n.queue = lv.queue
  <2>. HIDE DEF lv
  <2>. QED  BY <1>13, <1>15 DEF Reduced, PriceLevel
<1>17. LevelOK(ord2, arr, s0, p0, n)
  BY <1>5, <1>7, <1>12, <1>14, <1>16 DEF LevelOK, h
<1>. HIDE DEF n, lv, s0, p0
<1>18. BookOK(SetLev(lev, s0, p0, n), ord2, arr)
  BY <1>1, <1>4, <1>5, <1>6, <1>17, LevelChanged
<1>. QED  BY <1>18 DEF n, lv, s0, p0, ord2, o

(* An order leaves the book, its level keeps the rest. *)
LEMMA OrderGone ==
  ASSUME NEW lev, NEW ord, NEW arr, BookOK(lev, ord, arr), NEW id \in DOMAIN ord
  PROVE  LET s == ord[id].side
             p == ord[id].price
             lv == lev[s][p]
         IN BookOK(SetLev(lev, s, p, [total |-> lv.total - ord[id].leaves,
                                      queue |-> Dequeued(lv.queue, id)]),
                   Without(ord, id), Dequeued(arr, id))
<1>. DEFINE s0 == ord[id].side
            p0 == ord[id].price
            ord2 == Without(ord, id)
            arr2 == Dequeued(arr, id)
            lv == lev[s0][p0]
            n == [total |-> lv.total - ord[id].leaves,
                  queue |-> Dequeued(lv.queue, id)]
<1>0. OrdersOK(ord, arr) /\ Lists(arr, DOMAIN ord)
  BY DEF BookOK, OrdersOK
<1>1. /\ id \in Id /\ ord[id].leaves \in Nat /\ s0 \in Side /\ p0 \in Prices
  BY <1>0, TablesTyped DEF OrdersOK
<1>3. /\ DOMAIN ord2 = DOMAIN ord \ {id}
      /\ \A i \in DOMAIN ord \ {id} : ord2[i] = ord[i]
  BY DEF Without
<1>. HIDE DEF ord2
<1>2. Lists(arr2, DOMAIN ord \ {id})
  BY <1>0, DequeuedIs
<1>4. OrdersOK(ord2, arr2)
  BY <1>0, <1>2, <1>3 DEF OrdersOK
<1>5. \A s, p : AtP(ord2, s, p) = AtP(ord, s, p) \ {id}
  BY <1>3 DEF AtP
<1>6. ASSUME NEW s \in Side, NEW p \in Prices, s # s0 \/ p # p0
      PROVE  /\ AtP(ord2, s, p) = AtP(ord, s, p)
             /\ LeavesT(ord2, s, p) = LeavesT(ord, s, p)
             /\ \A q : Lists(q, AtP(ord, s, p)) /\ InTurn(q, arr) => InTurn(q, arr2)
  <2>1. id \notin AtP(ord, s, p)
    BY <1>6 DEF AtP
  <2>2. AtP(ord2, s, p) = AtP(ord, s, p)
    BY <1>5, <2>1
  <2>3. \A i \in AtP(ord, s, p) : ord2[i] = ord[i]
    BY <1>3, <2>1 DEF AtP
  <2>4. LeavesT(ord2, s, p) = LeavesT(ord, s, p)
    BY <2>2, <2>3 DEF LeavesT
  <2>5. ASSUME NEW q, Lists(q, AtP(ord, s, p)), InTurn(q, arr)
        PROVE  InTurn(q, arr2)
    <3>1. AtP(ord, s, p) \subseteq DOMAIN ord
      BY DEF AtP
    <3>2. InTurn(Dequeued(q, id), Dequeued(arr, id))
      BY <1>0, <2>5, <3>1, DequeuedInTurn
    <3>3. Dequeued(q, id) = q
      BY <2>1, <2>5, DequeuedIs
    <3>. QED  BY <3>2, <3>3
  <2>. QED  BY <2>2, <2>4, <2>5
<1>7. LevelOK(ord, arr, s0, p0, lv)
  BY <1>1 DEF BookOK
<1>. DEFINE f == LeavesT(ord, s0, p0)
            h == LeavesT(ord2, s0, p0)
<1>8. /\ f \in [1..LastId -> Nat] /\ h \in [1..LastId -> Nat]
  BY <1>0, <1>4, TablesTyped
<1>9. id \in AtP(ord, s0, p0)
  BY DEF AtP
<1>10. /\ f[id] = ord[id].leaves /\ h[id] = 0
       /\ \A i \in 1..LastId : i # id => h[i] = f[i]
  <2>1. \A i \in Id : h[i] = IF i \in AtP(ord, s0, p0) /\ i # id
                             THEN ord2[i].leaves ELSE 0
    BY <1>5 DEF LeavesT
  <2>2. \A i \in Id : f[i] = IF i \in AtP(ord, s0, p0) THEN ord[i].leaves ELSE 0
    BY DEF LeavesT
  <2>3. \A i \in AtP(ord, s0, p0) : i \in DOMAIN ord
    BY DEF AtP
  <2>. HIDE DEF f, h
  <2>. QED  BY <1>1, <1>3, <1>9, <2>1, <2>2, <2>3 DEF Id
<1>11. IsSum(f, LastId, lv.total)
  BY <1>7 DEF LevelOK
<1>. HIDE DEF f, h
<1>12. IsSum(h, LastId, lv.total - f[id] + h[id])
  BY <1>1, <1>8, <1>10, <1>11, LastIdNat, SumUpdate DEF Id
<1>13. lv \in PriceLevel /\ lv.total \in Nat /\ lv.queue \in Seq(Id)
  BY <1>7 DEF LevelOK, PriceLevel
<1>14. lv.total - f[id] + h[id] = n.total
  BY <1>1, <1>10, <1>13
<1>15. n.total \in Nat
  BY <1>12, <1>14, LastIdNat, SumIsNat
<1>16. /\ Lists(Dequeued(lv.queue, id), AtP(ord, s0, p0) \ {id})
  BY <1>7, DequeuedIs DEF LevelOK
<1>17. InTurn(Dequeued(lv.queue, id), arr2)
  <2>1. AtP(ord, s0, p0) \subseteq DOMAIN ord
    BY DEF AtP
  <2>. QED  BY <1>0, <1>7, <2>1, DequeuedInTurn DEF LevelOK
<1>18. n \in PriceLevel /\ n.queue = Dequeued(lv.queue, id)
  <2>1. Dequeued(lv.queue, id) \in Seq(Id)
    BY <1>16 DEF Lists
  <2>. QED  BY <1>15, <2>1 DEF PriceLevel
<1>19. LevelOK(ord2, arr2, s0, p0, n)
  <2>. HIDE DEF n, lv, arr2
  <2>. QED
    BY <1>5, <1>12, <1>14, <1>16, <1>17, <1>18 DEF LevelOK, h
<1>. HIDE DEF n, lv, s0, p0, arr2
<1>20. BookOK(SetLev(lev, s0, p0, n), ord2, arr2)
  BY <1>1, <1>4, <1>6, <1>19, LevelChanged
<1>. QED  BY <1>20 DEF n, lv, s0, p0, ord2, arr2

-----------------------------------------------------------------------------

(* The best price of a side is one of its prices, and none is better. *)
LEMMA MaxMinIs ==
  ASSUME NEW D \in SUBSET Int, IsFiniteSet(D), D # {}
  PROVE  /\ Max(D) \in D /\ \A y \in D : Max(D) >= y
         /\ Min(D) \in D /\ \A y \in D : Min(D) <= y
<1>1. /\ \E m \in D : \A y \in D : m >= y
      /\ \E m \in D : \A y \in D : m <= y
  BY FiniteBounds
<1>. QED  BY <1>1 DEF Max, Min

(* The total of a level is zero when its queue is empty, and at least what *)
(* each of its orders has left.                                            *)
LEMMA TotalIs ==
  ASSUME NEW ord, NEW arr, OrdersOK(ord, arr), NEW s, NEW p, NEW lv,
         LevelOK(ord, arr, s, p, lv)
  PROVE  /\ lv.total \in Nat /\ lv.queue \in Seq(Id)
         /\ lv.queue = <<>> => lv.total = 0
         /\ \A id \in AtP(ord, s, p) : lv.total >= ord[id].leaves
         /\ lv.queue # <<>> => Head(lv.queue) \in AtP(ord, s, p)
<1>. DEFINE f == LeavesT(ord, s, p)
<1>1. /\ lv \in PriceLevel /\ Lists(lv.queue, AtP(ord, s, p))
      /\ IsSum(f, LastId, lv.total)
  BY DEF LevelOK
<1>2. f \in [1..LastId -> Nat]
  BY TablesTyped
<1>3. LastId \in Nat
  BY LastIdNat
<1>4. /\ \A i \in Id : f[i] = IF i \in AtP(ord, s, p) THEN ord[i].leaves ELSE 0
      /\ \A i \in AtP(ord, s, p) : i \in Id /\ i \in 1..LastId
  <2>1. \A i \in AtP(ord, s, p) : i \in Id
    BY TablesTyped DEF AtP
  <2>. QED  BY <2>1 DEF LeavesT, Id
<1>. HIDE DEF f
<1>5. lv.total \in Nat /\ lv.queue \in Seq(Id)
  BY <1>1 DEF PriceLevel
<1>6. ASSUME lv.queue = <<>> PROVE lv.total = 0
  <2>1. AtP(ord, s, p) = {}
    BY <1>1, <1>6 DEF Lists
  <2>2. \A i \in 1..LastId : f[i] = 0
    BY <1>4, <2>1 DEF Id
  <2>3. SumUpTo(f, LastId) = 0
    BY <1>3, <2>2, ZeroSum, SumIsTotal
  <2>4. SumUpTo(f, LastId) = lv.total
    BY <1>1, <1>3, SumIsTotal
  <2>. QED  BY <2>3, <2>4
<1>7. ASSUME NEW id \in AtP(ord, s, p) PROVE lv.total >= ord[id].leaves
  <2>. DEFINE h == [i \in 1..LastId |-> IF i = id THEN 0 ELSE f[i]]
  <2>1. /\ id \in 1..LastId /\ h \in [1..LastId -> Nat]
        /\ h[id] = 0 /\ \A i \in 1..LastId : i # id => h[i] = f[i]
    BY <1>2, <1>4
  <2>. HIDE DEF h
  <2>2. IsSum(h, LastId, lv.total - f[id] + h[id])
    BY <1>1, <1>2, <1>3, <2>1, SumUpdate
  <2>3. lv.total - f[id] + h[id] \in Nat
    BY <1>3, <2>2, SumIsNat
  <2>4. f[id] = ord[id].leaves /\ f[id] \in Nat
    BY <1>2, <1>4, <2>1
  <2>. QED  BY <1>5, <2>1, <2>3, <2>4
<1>8. ASSUME lv.queue # <<>> PROVE Head(lv.queue) \in AtP(ord, s, p)
  <2>1. 1 \in 1..Len(lv.queue) /\ Head(lv.queue) = lv.queue[1]
    BY <1>5, <1>8
  <2>. QED  BY <1>1, <2>1 DEF Lists
<1>. QED  BY <1>5, <1>6, <1>7, <1>8

(* An empty level goes. *)
DropAt(new, lev, s0, p0) ==
  /\ LevelsOK(new)
  /\ \A s \in Side :
       /\ DOMAIN new[s] = IF s = s0 THEN DOMAIN lev[s] \ {p0} ELSE DOMAIN lev[s]
       /\ \A p \in DOMAIN new[s] : new[s][p] = lev[s][p]

(* Dropping a level leaves the others. *)
LEMMA DropLevIs ==
  ASSUME NEW lev, LevelsOK(lev), NEW s0 \in Side, NEW p0
  PROVE  DropAt(DropLev(lev, s0, p0), lev, s0, p0)
<1>. DEFINE n == DropLev(lev, s0, p0)
            w == Without(lev[s0], p0)
<1>1. lev = [s \in Side |-> lev[s]]
  BY DEF LevelsOK
<1>2. n = [lev EXCEPT ![s0] = w]
  BY DEF DropLev
<1>3. /\ DOMAIN w = DOMAIN lev[s0] \ {p0}
      /\ \A p \in DOMAIN w : w[p] = lev[s0][p]
  BY DEF Without
<1>. HIDE DEF n, w
<1>4. n = [s \in Side |-> n[s]] /\ \A s \in Side : n[s] = IF s = s0 THEN w ELSE lev[s]
  BY <1>1, <1>2
<1>5. IsFiniteSet(DOMAIN w) /\ DOMAIN w \subseteq Prices
  BY <1>3, FS_Subset DEF LevelsOK
<1>6. LevelsOK(n)
  <2>1. \A s \in Side : IsFiniteSet(DOMAIN n[s]) /\ DOMAIN n[s] \subseteq Prices
    BY <1>4, <1>5 DEF LevelsOK
  <2>. QED  BY <1>4, <2>1 DEF LevelsOK
<1>7. \A s \in Side :
        /\ DOMAIN n[s] = IF s = s0 THEN DOMAIN lev[s] \ {p0} ELSE DOMAIN lev[s]
        /\ \A p \in DOMAIN n[s] : n[s][p] = lev[s][p]
  BY <1>3, <1>4
<1>. QED  BY <1>6, <1>7 DEF n, DropAt

(* A book without one of its empty levels. *)
LEMMA LevelDropped ==
  ASSUME NEW lev, NEW ord, NEW arr, BookOK(lev, ord, arr),
         NEW s0 \in Side, NEW p0 \in DOMAIN lev[s0], lev[s0][p0].queue = <<>>
  PROVE  BookOK(DropLev(lev, s0, p0), ord, arr)
<1>. DEFINE n == DropLev(lev, s0, p0)
<1>1. DropAt(n, lev, s0, p0)
  BY DropLevIs DEF BookOK
<1>. HIDE DEF n
<1>2. /\ LevelsOK(n)
      /\ \A s \in Side :
           /\ DOMAIN n[s] = IF s = s0 THEN DOMAIN lev[s] \ {p0} ELSE DOMAIN lev[s]
           /\ \A p \in DOMAIN n[s] : n[s][p] = lev[s][p]
  BY <1>1 DEF DropAt
<1>3. AtP(ord, s0, p0) = {}
  <2>1. LevelOK(ord, arr, s0, p0, lev[s0][p0])
    BY DEF BookOK
  <2>. QED  BY <2>1 DEF LevelOK, Lists
<1>4. \A s \in Side : \A p \in DOMAIN n[s] : LevelOK(ord, arr, s, p, n[s][p])
  BY <1>2 DEF BookOK
<1>5. ASSUME NEW id \in DOMAIN ord
      PROVE  ord[id].price \in DOMAIN n[ord[id].side]
  <2>1. ord[id].side \in Side /\ ord[id].price \in DOMAIN lev[ord[id].side]
    BY DEF BookOK, OrdersOK, Order
  <2>2. ~(ord[id].side = s0 /\ ord[id].price = p0)
    BY <1>3 DEF AtP
  <2>. QED  BY <1>2, <2>1, <2>2
<1>. QED  BY <1>2, <1>4, <1>5 DEF BookOK, n

(* A level dropped is dropped, whatever was there. *)
LEMMA DropSet ==
  ASSUME NEW lev, LevelsOK(lev), NEW s0 \in Side, NEW p0 \in DOMAIN lev[s0], NEW lv
  PROVE  DropLev(SetLev(lev, s0, p0, lv), s0, p0) = DropLev(lev, s0, p0)
<1>1. lev = [s \in Side |-> lev[s]]
  BY DEF LevelsOK
<1>. DEFINE w == With(lev[s0], p0, lv)
            m == [lev EXCEPT ![s0] = w]
<1>2. Without(w, p0) = Without(lev[s0], p0)
  BY DEF With, Without
<1>3. m[s0] = w
  BY <1>1
<1>4. [m EXCEPT ![s0] = Without(w, p0)] = [lev EXCEPT ![s0] = Without(w, p0)]
  <2>. HIDE DEF w
  <2>. QED  BY <1>1
<1>. HIDE DEF w
<1>5. SetLev(lev, s0, p0, lv) = m
  BY DEF SetLev, w
<1>. HIDE DEF m
<1>. QED  BY <1>2, <1>3, <1>4, <1>5 DEF DropLev, m

(* A new order joins the end of its level, which may be new too. *)
LEMMA OrderRested ==
  ASSUME NEW lev, NEW ord, NEW arr, BookOK(lev, ord, arr),
         NEW id \in Id, id \notin DOMAIN ord, NEW o \in Order, o.leaves > 0
  PROVE  LET s == o.side
             p == o.price
             old == IF p \in DOMAIN lev[s] THEN lev[s][p]
                    ELSE [total |-> 0, queue |-> <<>>]
             new == Enqueued(old, id, o.leaves)
         IN /\ BookOK(SetLev(lev, s, p, new), With(ord, id, o), Append(arr, id))
            /\ new.total > 0 /\ new.queue # <<>>
<1>. DEFINE s0 == o.side
            p0 == o.price
            ord2 == With(ord, id, o)
            arr2 == Append(arr, id)
            old == IF p0 \in DOMAIN lev[s0] THEN lev[s0][p0]
                   ELSE [total |-> 0, queue |-> <<>>]
            new == Enqueued(old, id, o.leaves)
            lv == [total |-> old.total + o.leaves, queue |-> Append(old.queue, id)]
<1>0. OrdersOK(ord, arr) /\ Lists(arr, DOMAIN ord)
  BY DEF BookOK, OrdersOK
<1>1. s0 \in Side /\ p0 \in Prices /\ o.leaves \in Nat
  BY DEF Order
<1>2. new = lv
  <2>. HIDE DEF old
  <2>. QED  BY DEF Enqueued
<1>3. /\ DOMAIN ord2 = DOMAIN ord \cup {id}
      /\ \A i \in DOMAIN ord2 : ord2[i] = IF i = id THEN o ELSE ord[i]
  BY DEF With
<1>. HIDE DEF ord2
<1>4. OrdersOK(ord2, arr2)
  <2>1. Lists(arr2, DOMAIN ord2)
    BY <1>0, <1>3, AppendedIs
  <2>. QED  BY <1>0, <1>3, <2>1 DEF OrdersOK
<1>5. ASSUME NEW s \in Side, NEW p \in Prices
      PROVE  AtP(ord2, s, p) = IF s = s0 /\ p = p0 THEN AtP(ord, s, p) \cup {id}
                               ELSE AtP(ord, s, p)
  BY <1>3 DEF AtP
<1>6. \A s, p : AtP(ord, s, p) \subseteq DOMAIN ord
  BY DEF AtP
<1>7. ASSUME NEW s \in Side, NEW p \in Prices, s # s0 \/ p # p0
      PROVE  /\ AtP(ord2, s, p) = AtP(ord, s, p)
             /\ LeavesT(ord2, s, p) = LeavesT(ord, s, p)
             /\ \A q : Lists(q, AtP(ord, s, p)) /\ InTurn(q, arr) => InTurn(q, arr2)
  <2>1. AtP(ord2, s, p) = AtP(ord, s, p)
    BY <1>5, <1>7
  <2>2. \A i \in AtP(ord, s, p) : ord2[i].leaves = ord[i].leaves
    BY <1>3, <1>6
  <2>3. LeavesT(ord2, s, p) = LeavesT(ord, s, p)
    BY <2>1, <2>2 DEF LeavesT
  <2>4. ASSUME NEW q, Lists(q, AtP(ord, s, p)), InTurn(q, arr)
        PROVE  InTurn(q, arr2)
    BY <1>0, <1>6, <2>4, AppendedInTurn
  <2>. QED  BY <2>1, <2>3, <2>4
<1>8. LevelOK(ord, arr, s0, p0, old)
  <2>1. CASE p0 \in DOMAIN lev[s0]
    BY <1>1, <2>1 DEF BookOK
  <2>2. CASE p0 \notin DOMAIN lev[s0]
    <3>. DEFINE none == [total |-> 0, queue |-> <<>>]
    <3>1. old = none
      BY <2>2
    <3>2. none \in PriceLevel /\ none.total = 0 /\ none.queue = <<>>
      BY DEF PriceLevel
    <3>. HIDE DEF none, old
    <3>3. AtP(ord, s0, p0) = {}
      BY <2>2 DEF AtP, BookOK
    <3>4. Lists(<<>>, AtP(ord, s0, p0)) /\ InTurn(<<>>, arr)
      BY <3>3 DEF Lists, InTurn
    <3>5. \A i \in 1..LastId : LeavesT(ord, s0, p0)[i] = 0
      BY <3>3 DEF LeavesT, Id
    <3>6. IsSum(LeavesT(ord, s0, p0), LastId, 0)
      BY <3>5, LastIdNat, ZeroSum
    <3>. QED  BY <3>1, <3>2, <3>4, <3>6 DEF LevelOK
  <2>. QED  BY <2>1, <2>2
<1>. HIDE DEF old, s0, p0
<1>. DEFINE f == LeavesT(ord, s0, p0)
            h == LeavesT(ord2, s0, p0)
<1>9. /\ f \in [1..LastId -> Nat] /\ h \in [1..LastId -> Nat]
  BY <1>0, <1>4, TablesTyped
<1>10. /\ f[id] = 0 /\ h[id] = o.leaves
       /\ \A i \in 1..LastId : i # id => h[i] = f[i]
  <2>1. \A i \in Id : h[i] = IF i \in AtP(ord, s0, p0) \/ i = id
                             THEN ord2[i].leaves ELSE 0
    BY <1>1, <1>5 DEF LeavesT
  <2>2. \A i \in Id : f[i] = IF i \in AtP(ord, s0, p0) THEN ord[i].leaves ELSE 0
    BY DEF LeavesT
  <2>. HIDE DEF f, h
  <2>. QED  BY <1>1, <1>3, <1>6, <2>1, <2>2 DEF Id
<1>11. IsSum(f, LastId, old.total)
  BY <1>8 DEF LevelOK
<1>. HIDE DEF f, h
<1>12. IsSum(h, LastId, old.total - f[id] + h[id])
  BY <1>1, <1>9, <1>10, <1>11, LastIdNat, SumUpdate DEF Id
<1>13. old.total \in Nat /\ old.queue \in Seq(Id)
  BY <1>8 DEF LevelOK, PriceLevel
<1>14. old.total - f[id] + h[id] = old.total + o.leaves
  BY <1>1, <1>10, <1>13
<1>15. Lists(Append(old.queue, id), AtP(ord, s0, p0) \cup {id})
  BY <1>6, <1>8, AppendedIs DEF LevelOK
<1>16. InTurn(Append(old.queue, id), arr2)
  BY <1>0, <1>6, <1>8, AppendedInTurn DEF LevelOK
<1>17. /\ lv \in PriceLevel /\ lv.queue = Append(old.queue, id)
       /\ lv.total = old.total + o.leaves
  BY <1>1, <1>13 DEF PriceLevel
<1>18. LevelOK(ord2, arr2, s0, p0, lv)
  <2>1. AtP(ord2, s0, p0) = AtP(ord, s0, p0) \cup {id}
    BY <1>1, <1>5
  <2>. HIDE DEF lv, arr2
  <2>. QED  BY <1>12, <1>14, <1>15, <1>16, <1>17, <2>1 DEF LevelOK, h
<1>19. lv.total > 0 /\ lv.queue # <<>>
  BY <1>1, <1>13, <1>17
<1>. HIDE DEF lv, arr2
<1>20. BookOK(SetLev(lev, s0, p0, lv), ord2, arr2)
  BY <1>1, <1>4, <1>7, <1>18, LevelChanged
<1>. HIDE DEF new
<1>21. BookOK(SetLev(lev, s0, p0, new), ord2, arr2) /\ new.total > 0 /\ new.queue # <<>>
  BY <1>2, <1>19, <1>20
<1>. QED  BY <1>21 DEF new, old, s0, p0, ord2, arr2

-----------------------------------------------------------------------------
(* The inductive invariant. *)

Taker == [owner : Owner, id : Id, side : Side, price : Prices, qty : Nat,
          tif : TimeInForce]
NewCmds == [cmd : {"New"}, id : 1..MaxOurs, side : Side, price : Prices,
            qty : Qtys, tif : Tifs]
CancelCmds == [cmd : {"Cancel"}, id : 1..MaxOurs]

(* The ids of orders being executed or resting, and whose they may be.     *)
InUse == DOMAIN orders \cup (IF pc = "idle" THEN {} ELSE {taker.id})
Known(id) == id \in 1..sent \/ id \in BgId(1)..BgId(next_bg)

(* A command for a new order has an id of its own. *)
CommandsOK ==
  /\ orderCh \in Seq(NewCmds \cup CancelCmds)
  /\ sent \in 0..MaxOurs /\ next_bg \in 0..MaxBg
  /\ \A id \in InUse : Known(id)
  /\ \A i \in 1..Len(orderCh) : orderCh[i].cmd = "New" =>
       /\ orderCh[i].id \in 1..sent
       /\ orderCh[i].id \notin InUse
       /\ \A j \in 1..Len(orderCh) :
            orderCh[j].cmd = "New" /\ orderCh[j].id = orderCh[i].id => i = j

(* Where the execution of the taker stands. *)
Hitting == pc \in {"maker", "taker"}
TakerOK ==
  /\ pc \in {"idle", "match", "maker", "taker"}
  /\ pc = "idle" => taker = NoTaker
  /\ pc # "idle" => taker \in Taker /\ taker.id \notin DOMAIN orders
  /\ pc = "match" /\ taker.tif = "PostOnly" =>
       ~CrossesBest(taker.side, taker.price)
  /\ Hitting => /\ taker.tif # "PostOnly"
                /\ CrossesBest(taker.side, taker.price)
  /\ pc = "taker" => /\ TouchLevel.queue # <<>>
                     /\ hit \in 1..taker.qty

(* What is exhausted is where the taker is. *)
NoneEmpty ==
  \A s \in Side : \A p \in DOMAIN levels[s] :
    levels[s][p].queue = <<>> => pc = "maker" /\ s = Facing /\ p = Touch
NoneFilled ==
  \A id \in DOMAIN orders :
    orders[id].leaves = 0 => pc = "taker" /\ id = Head(TouchLevel.queue)

Uncrossed ==
  \A b \in DOMAIN levels["Buy"], a \in DOMAIN levels["Sell"] : b < a

(* The ladder has the totals, but for the level being executed. *)
LadderOK ==
  /\ ladder = [s \in Side |-> ladder[s]]
  /\ \A s \in Side :
       /\ ladder[s] = [p \in DOMAIN levels[s] |-> ladder[s][p]]
       /\ \A p \in DOMAIN levels[s] :
            \/ ladder[s][p] = levels[s][p].total
            \/ Hitting /\ s = Facing /\ p = Touch

MatchingOK ==
  /\ BookOK(levels, orders, arrived)
  /\ TakerOK
  /\ NoneEmpty
  /\ NoneFilled
  /\ Uncrossed
  /\ LadderOK

VInv == MatchingOK /\ CommandsOK

-----------------------------------------------------------------------------

(* The lesser and the greater of two. *)
LEMMA MinOfTwo ==
  ASSUME NEW a \in Int, NEW b \in Int
  PROVE  /\ Min({a, b}) \in {a, b} /\ Min({a, b}) <= a /\ Min({a, b}) <= b
         /\ Max({a, b}) \in {a, b} /\ Max({a, b}) >= a /\ Max({a, b}) >= b
<1>. DEFINE S == {a, b}
<1>1. S \in SUBSET Int /\ S # {} /\ a \in S /\ b \in S
  OBVIOUS
<1>2. IsFiniteSet(S)
  <2>1. IsFiniteSet({a}) /\ S = {a} \cup {b}
    BY FS_Singleton
  <2>. QED  BY <2>1, FS_AddElement
<1>. HIDE DEF S
<1>3. Min(S) \in S /\ Max(S) \in S /\ \A y \in S : Min(S) <= y /\ Max(S) >= y
  BY <1>1, <1>2, MaxMinIs
<1>. QED  BY <1>1, <1>3 DEF S

(* The sides. *)
LEMMA SideIs ==
  ASSUME NEW s \in Side
  PROVE  /\ Opposite(s) \in Side /\ Opposite(s) # s /\ Opposite(Opposite(s)) = s
         /\ Side = {"Buy", "Sell"}
BY DEF Opposite, Side

(* The best price of a side. *)
LEMMA BestIs ==
  ASSUME LevelsOK(levels), NEW s \in Side, HasBest(s)
  PROVE  /\ Best(s) \in DOMAIN levels[s] /\ Best(s) \in Prices /\ Best(s) \in Int
         /\ \A p \in DOMAIN levels[s] : p \in Int /\ ~Better(s, p, Best(s))
<1>. DEFINE D == DOMAIN levels[s]
<1>1. D \in SUBSET Int /\ IsFiniteSet(D) /\ D # {} /\ D \subseteq Prices
  BY SimVenueAssumption DEF LevelsOK, HasBest
<1>2. Best(s) = IF s = "Buy" THEN Max(D) ELSE Min(D)
  BY DEF Best
<1>. HIDE DEF D
<1>3. /\ Max(D) \in D /\ \A y \in D : Max(D) >= y
      /\ Min(D) \in D /\ \A y \in D : Min(D) <= y
  BY <1>1, MaxMinIs
<1>4. Best(s) \in D /\ \A p \in D : p \in Int /\ ~Better(s, p, Best(s))
  <2>. DEFINE hi == Max(D)
              lo == Min(D)
  <2>0. \A p \in D : p \in Int
    BY <1>1
  <2>1. CASE s = "Buy"
    <3>1. Best(s) = hi /\ hi \in D /\ \A p \in D : hi >= p
      BY <2>1, <1>2, <1>3
    <3>. HIDE DEF hi
    <3>2. \A p \in D : ~(p > hi)
      BY <2>0, <3>1
    <3>. QED  BY <2>0, <2>1, <3>1, <3>2 DEF Better
  <2>2. CASE s # "Buy"
    <3>1. Best(s) = lo /\ lo \in D /\ \A p \in D : lo <= p
      BY <2>2, <1>2, <1>3
    <3>. HIDE DEF lo
    <3>2. \A p \in D : ~(p < lo)
      BY <2>0, <3>1
    <3>. QED  BY <2>0, <2>2, <3>1, <3>2 DEF Better
  <2>. QED  BY <2>1, <2>2
<1>. QED  BY <1>1, <1>4 DEF D

(* The best prices depend on the prices of the levels alone. *)
LEMMA BestKept ==
  ASSUME \A s \in Side : DOMAIN levels'[s] = DOMAIN levels[s]
  PROVE  /\ \A s \in Side : HasBest(s)' = HasBest(s) /\ Best(s)' = Best(s)
         /\ \A s \in Side : \A limit : CrossesBest(s, limit)' = CrossesBest(s, limit)
<1>1. \A s \in Side : HasBest(s)' = HasBest(s) /\ Best(s)' = Best(s)
  BY DEF HasBest, Best
<1>2. ASSUME NEW s \in Side, NEW limit
      PROVE  CrossesBest(s, limit)' = CrossesBest(s, limit)
  <2>1. Opposite(s) \in Side
    BY SideIs
  <2>2. HasBest(Opposite(s))' = HasBest(Opposite(s)) /\ Best(Opposite(s))' = Best(Opposite(s))
    BY <1>1, <2>1
  <2>. QED  BY <2>2 DEF CrossesBest
<1>. QED  BY <1>1, <1>2

(* The level being executed: the best one facing the taker, which its      *)
(* limit crosses.                                                          *)
LEMMA TouchIs ==
  ASSUME MatchingOK, Hitting
  PROVE  /\ taker \in Taker /\ taker.qty \in Nat /\ taker.side \in Side
         /\ Facing \in Side /\ Facing # taker.side
         /\ Touch \in DOMAIN levels[Facing] /\ Touch \in Prices /\ Touch \in Int
         /\ \A p \in DOMAIN levels[Facing] : p \in Int /\ ~Better(Facing, p, Touch)
         /\ IF taker.side = "Buy" THEN Touch <= taker.price ELSE Touch >= taker.price
         /\ LevelOK(orders, arrived, Facing, Touch, TouchLevel)
         /\ TouchLevel \in PriceLevel
<1>1. /\ BookOK(levels, orders, arrived) /\ LevelsOK(levels) /\ TakerOK
  BY DEF MatchingOK, BookOK
<1>2. taker \in Taker /\ CrossesBest(taker.side, taker.price)
  BY <1>1 DEF TakerOK, Hitting
<1>3. taker.qty \in Nat /\ taker.side \in Side
  BY <1>2 DEF Taker
<1>4. Facing \in Side /\ Facing # taker.side
  BY <1>3, SideIs DEF Facing
<1>5. /\ HasBest(Facing)
      /\ IF taker.side = "Buy" THEN Touch <= taker.price ELSE Touch >= taker.price
  BY <1>2 DEF CrossesBest, Facing, Touch
<1>6. /\ Touch \in DOMAIN levels[Facing] /\ Touch \in Prices /\ Touch \in Int
      /\ \A p \in DOMAIN levels[Facing] : p \in Int /\ ~Better(Facing, p, Touch)
  BY <1>1, <1>4, <1>5, BestIs DEF Touch
<1>7. LevelOK(orders, arrived, Facing, Touch, TouchLevel)
  BY <1>1, <1>4, <1>6 DEF BookOK, TouchLevel
<1>8. TouchLevel \in PriceLevel
  BY <1>7 DEF LevelOK
<1>. QED  BY <1>2, <1>3, <1>4, <1>5, <1>6, <1>7, <1>8

(* The order at the front of that level. *)
LEMMA FrontIs ==
  ASSUME MatchingOK, Hitting, TouchLevel.queue # <<>>
  PROVE  LET id == Head(TouchLevel.queue)
         IN /\ id \in DOMAIN orders /\ id \in Id /\ id # taker.id
            /\ orders[id] \in Order /\ orders[id].leaves \in Nat
            /\ orders[id].side = Facing /\ orders[id].price = Touch
<1>. DEFINE id == Head(TouchLevel.queue)
<1>1. OrdersOK(orders, arrived) /\ LevelOK(orders, arrived, Facing, Touch, TouchLevel)
  BY TouchIs DEF MatchingOK, BookOK
<1>2. id \in AtP(orders, Facing, Touch)
  BY <1>1, TotalIs
<1>. HIDE DEF id
<1>3. id \in DOMAIN orders /\ orders[id].side = Facing /\ orders[id].price = Touch
  BY <1>2 DEF AtP
<1>4. id \in Id /\ orders[id] \in Order /\ orders[id].leaves \in Nat
  BY <1>1, <1>3 DEF OrdersOK, Order
<1>5. id # taker.id
  BY <1>3 DEF MatchingOK, TakerOK, Hitting
<1>. QED  BY <1>3, <1>4, <1>5 DEF id

(* The step changes the total of one level, which goes with nothing left. *)
LevelMoved(s0, p0, qty) ==
  \A s \in Side :
    /\ DOMAIN levels'[s] = IF s # s0 THEN DOMAIN levels[s]
                           ELSE IF qty = 0 THEN DOMAIN levels[s] \ {p0}
                           ELSE DOMAIN levels[s] \cup {p0}
    /\ \A p \in DOMAIN levels'[s] :
         IF s = s0 /\ p = p0 THEN levels'[s][p].total = qty
         ELSE levels'[s][p].total = levels[s][p].total

(* A level updated as the book changed: the ladder has its total. *)
LEMMA LadderFollows ==
  ASSUME MatchingOK, NEW s0 \in Side, NEW p0 \in Prices, NEW qty,
         Update(s0, p0, qty),
         Hitting => s0 = Facing /\ p0 = Touch,
         LevelMoved(s0, p0, qty)
  PROVE  LadderOK'
<1>0. \A s \in Side :
           /\ DOMAIN levels'[s] = IF s = s0
                                  THEN IF qty = 0 THEN DOMAIN levels[s] \ {p0}
                                       ELSE DOMAIN levels[s] \cup {p0}
                                  ELSE DOMAIN levels[s]
           /\ \A p \in DOMAIN levels'[s] :
                IF s = s0 /\ p = p0 THEN levels'[s][p].total = qty
                ELSE levels'[s][p].total = levels[s][p].total
  BY DEF LevelMoved
<1>1. /\ ladder = [s \in Side |-> ladder[s]]
      /\ \A s \in Side :
           /\ ladder[s] = [p \in DOMAIN levels[s] |-> ladder[s][p]]
           /\ \A p \in DOMAIN levels[s] :
                \/ ladder[s][p] = levels[s][p].total
                \/ Hitting /\ s = Facing /\ p = Touch
  BY DEF MatchingOK, LadderOK
<1>. DEFINE w == IF qty = 0 THEN Without(ladder[s0], p0) ELSE With(ladder[s0], p0, qty)
<1>2. ladder' = [ladder EXCEPT ![s0] = w]
  BY DEF Update
<1>3. DOMAIN ladder[s0] = DOMAIN levels[s0]
  BY <1>1
<1>4. /\ w = [p \in DOMAIN levels'[s0] |-> w[p]]
      /\ \A p \in DOMAIN levels'[s0] : w[p] = IF p = p0 THEN qty ELSE ladder[s0][p]
  <2>1. CASE qty = 0
    <3>1. w = Without(ladder[s0], p0)
      BY <2>1
    <3>. HIDE DEF w
    <3>2. DOMAIN levels'[s0] = DOMAIN ladder[s0] \ {p0}
      BY <2>1, <1>0, <1>3
    <3>. QED  BY <3>1, <3>2 DEF Without
  <2>2. CASE qty # 0
    <3>1. w = With(ladder[s0], p0, qty)
      BY <2>2
    <3>. HIDE DEF w
    <3>2. DOMAIN levels'[s0] = DOMAIN ladder[s0] \cup {p0}
      BY <2>2, <1>0, <1>3
    <3>. QED  BY <3>1, <3>2 DEF With
  <2>. QED  BY <2>1, <2>2
<1>. HIDE DEF w
<1>5. /\ ladder' = [s \in Side |-> ladder'[s]]
      /\ \A s \in Side : ladder'[s] = IF s = s0 THEN w ELSE ladder[s]
  BY <1>1, <1>2
<1>6. ASSUME NEW s \in Side
      PROVE  /\ ladder'[s] = [p \in DOMAIN levels'[s] |-> ladder'[s][p]]
             /\ \A p \in DOMAIN levels'[s] : ladder'[s][p] = levels'[s][p].total
  <2>1. CASE s = s0
    <3>1. ladder'[s] = w
      BY <2>1, <1>5
    <3>2. \A p \in DOMAIN levels'[s] : p # p0 => p \in DOMAIN levels[s]
      BY <2>1, <1>0
    <3>3. ASSUME NEW p \in DOMAIN levels'[s] PROVE w[p] = levels'[s][p].total
      <4>1. w[p] = IF p = p0 THEN qty ELSE ladder[s][p]
        BY <2>1, <1>4
      <4>2. CASE p = p0
        BY <2>1, <4>1, <4>2, <1>0
      <4>3. CASE p # p0
        <5>1. ladder[s][p] = levels[s][p].total
          BY <2>1, <4>3, <1>1, <3>2
        <5>2. levels'[s][p].total = levels[s][p].total
          BY <4>3, <1>0
        <5>. QED  BY <4>1, <4>3, <5>1, <5>2
      <4>. QED  BY <4>2, <4>3
    <3>. QED  BY <2>1, <1>4, <3>1, <3>3
  <2>2. CASE s # s0
    <3>1. ladder'[s] = ladder[s] /\ DOMAIN levels'[s] = DOMAIN levels[s]
      BY <2>2, <1>0, <1>5
    <3>2. \A p \in DOMAIN levels[s] : ladder[s][p] = levels[s][p].total
      BY <2>2, <1>1
    <3>3. \A p \in DOMAIN levels'[s] : levels'[s][p].total = levels[s][p].total
      BY <2>2, <1>0
    <3>4. ladder[s] = [p \in DOMAIN levels[s] |-> ladder[s][p]]
      BY <1>1
    <3>. QED  BY <3>1, <3>2, <3>3, <3>4
  <2>. QED  BY <2>1, <2>2
<1>. QED  BY <1>5, <1>6 DEF LadderOK

-----------------------------------------------------------------------------
(* The steps of submit and cancel keep the book in order. *)

(* The empty book is in order. *)
LEMMA InitOK == Init => VInv
<1>. SUFFICES ASSUME Init PROVE VInv
  OBVIOUS
<1>. USE DEF Init, MatchingInit
<1>1. /\ levels = [s \in Side |-> Empty] /\ ladder = [s \in Side |-> Empty]
      /\ orders = Empty /\ arrived = <<>>
      /\ pc = "idle" /\ taker = NoTaker
      /\ orderCh = <<>> /\ sent = 0 /\ next_bg = 0
  OBVIOUS
<1>2. DOMAIN Empty = {} /\ \A f : DOMAIN f = {} => f = [p \in {} |-> f[p]] \/ TRUE
  BY DEF Empty
<1>3. Empty = [p \in {} |-> Empty[p]]
  BY DEF Empty
<1>4. \A s \in Side : levels[s] = Empty /\ ladder[s] = Empty
  BY <1>1
<1>5. DOMAIN orders = {}
  BY <1>1, <1>2
<1>6. LevelsOK(levels)
  <2>1. IsFiniteSet({})
    BY FS_EmptySet
  <2>2. \A s \in Side : DOMAIN levels[s] = {}
    BY <1>2, <1>4
  <2>3. levels = [s \in Side |-> levels[s]]
    BY <1>1
  <2>. QED  BY <2>1, <2>2, <2>3 DEF LevelsOK
<1>7. OrdersOK(orders, arrived)
  <2>1. Lists(<<>>, {})
    BY DEF Lists
  <2>. QED  BY <1>1, <1>5, <2>1 DEF OrdersOK
<1>8. BookOK(levels, orders, arrived)
  BY <1>2, <1>4, <1>5, <1>6, <1>7 DEF BookOK
<1>9. TakerOK
  BY <1>1 DEF TakerOK, Hitting
<1>10. NoneEmpty /\ NoneFilled /\ Uncrossed
  <2>1. "Buy" \in Side
    BY DEF Side
  <2>. QED  BY <1>2, <1>4, <1>5, <2>1 DEF NoneEmpty, NoneFilled, Uncrossed
<1>11. LadderOK
  <2>1. ladder = [s \in Side |-> ladder[s]]
    BY <1>1
  <2>. QED  BY <1>2, <1>3, <1>4, <2>1 DEF LadderOK
<1>12. CommandsOK
  <2>1. orderCh \in Seq(NewCmds \cup CancelCmds) /\ Len(orderCh) = 0
    BY <1>1
  <2>2. sent \in 0..MaxOurs /\ next_bg \in 0..MaxBg
    BY <1>1, SimVenueAssumption
  <2>3. InUse = {}
    BY <1>1, <1>5 DEF InUse
  <2>. QED  BY <2>1, <2>2, <2>3 DEF CommandsOK
<1>. QED  BY <1>8, <1>9, <1>10, <1>11, <1>12 DEF VInv, MatchingOK

(* What no step of the matching engine touches stays as it is. *)
LEMMA MatchingKept ==
  ASSUME MatchingOK,
         UNCHANGED <<levels, orders, pc, taker, hit, ladder, arrived>>
  PROVE  MatchingOK'
<1>1. /\ \A s \in Side : HasBest(s)' = HasBest(s) /\ Best(s)' = Best(s)
      /\ \A s \in Side : \A limit : CrossesBest(s, limit)' = CrossesBest(s, limit)
  BY BestKept
<1>2. Facing' = Facing /\ Touch' = Touch /\ TouchLevel' = TouchLevel
  BY DEF Facing, Touch, TouchLevel, Best
<1>3. Hitting' = Hitting /\ CrossesBest(taker.side, taker.price)' = CrossesBest(taker.side, taker.price)
  BY DEF Hitting, CrossesBest, HasBest, Best
<1>4. TakerOK'
  BY <1>2, <1>3 DEF TakerOK, MatchingOK
<1>5. NoneEmpty' /\ NoneFilled'
  BY <1>2 DEF NoneEmpty, NoneFilled, MatchingOK
<1>6. Uncrossed'
  BY DEF Uncrossed, MatchingOK
<1>7. LadderOK'
  BY <1>2, <1>3 DEF LadderOK, MatchingOK
<1>8. BookOK(levels', orders', arrived')
  BY DEF MatchingOK
<1>. QED  BY <1>4, <1>5, <1>6, <1>7, <1>8 DEF MatchingOK

(* Where the taker is depends on the prices of the levels alone. *)
LEMMA TouchKept ==
  ASSUME taker.side \in Side, taker'.side = taker.side, taker'.price = taker.price,
         \A s \in Side : DOMAIN levels'[s] = DOMAIN levels[s]
  PROVE  /\ Facing' = Facing
         /\ Touch' = Touch
         /\ CrossesBest(taker.side, taker.price)' = CrossesBest(taker.side, taker.price)
<1>1. Facing' = Facing /\ Facing \in Side /\ Facing = Opposite(taker.side)
  BY SideIs DEF Facing
<1>2. DOMAIN levels'[Facing] = DOMAIN levels[Facing]
  BY <1>1
<1>3. Touch' = Touch
  BY <1>1, <1>2 DEF Touch, Best
<1>4. HasBest(Facing)' = HasBest(Facing)
  BY <1>1, <1>2 DEF HasBest
<1>. QED  BY <1>1, <1>3, <1>4 DEF CrossesBest, Touch

(* Head of the outer loop: the best level is entered. *)
LEMMA EnterKeeps ==
  ASSUME MatchingOK, EnterLevel
  PROVE  MatchingOK' /\ InUse' = InUse
<1>0. /\ pc = "match" /\ taker.qty > 0 /\ CrossesBest(taker.side, taker.price)
      /\ pc' = "maker"
      /\ UNCHANGED <<levels, orders, taker, hit, ladder, arrived>>
  BY DEF EnterLevel
<1>2. Facing' = Facing /\ Touch' = Touch /\ TouchLevel' = TouchLevel
  BY <1>0 DEF Facing, Touch, TouchLevel, Best
<1>3. CrossesBest(taker.side, taker.price)' = CrossesBest(taker.side, taker.price)
  BY <1>0 DEF CrossesBest, HasBest, Best
<1>4. TakerOK'
  BY <1>0, <1>3 DEF TakerOK, MatchingOK, Hitting
<1>5. NoneEmpty' /\ NoneFilled'
  BY <1>0, <1>2 DEF NoneEmpty, NoneFilled, MatchingOK
<1>6. Uncrossed'
  BY <1>0 DEF Uncrossed, MatchingOK
<1>7. LadderOK'
  BY <1>0, <1>2 DEF LadderOK, MatchingOK, Hitting
<1>8. BookOK(levels', orders', arrived')
  BY <1>0 DEF MatchingOK
<1>9. InUse' = InUse
  BY <1>0 DEF InUse
<1>. QED  BY <1>4, <1>5, <1>6, <1>7, <1>8, <1>9 DEF MatchingOK

(* The fill of an order at the front: at least 1, at most what either has. *)
LEMMA FillIs ==
  ASSUME MatchingOK, MakerFill
  PROVE  LET id == Head(TouchLevel.queue)
             q == FillQty(orders[id].leaves)
         IN q \in 1..taker.qty /\ q \in 1..orders[id].leaves
<1>. DEFINE id == Head(TouchLevel.queue)
            a == taker.qty
            b == orders[id].leaves
<1>1. pc = "maker" /\ a > 0 /\ TouchLevel.queue # <<>> /\ Hitting
  BY DEF MakerFill, Hitting
<1>2. a \in Nat
  BY <1>1, TouchIs
<1>3. b \in Nat /\ id \in DOMAIN orders
  BY <1>1, FrontIs
<1>4. b # 0
  BY <1>1, <1>3 DEF MatchingOK, NoneFilled
<1>. HIDE DEF a, b, id
<1>5. Min({a, b}) \in {a, b} /\ Min({a, b}) <= a /\ Min({a, b}) <= b
  BY <1>2, <1>3, MinOfTwo
<1>6. Min({a, b}) \in 1..a /\ Min({a, b}) \in 1..b
  BY <1>1, <1>2, <1>3, <1>4, <1>5
<1>7. FillQty(b) = Min({a, b})
  BY DEF FillQty, a
<1>. QED  BY <1>6, <1>7 DEF a, b, id

(* The order at the front and its level lose the same. *)
LEMMA MakerKeeps ==
  ASSUME MatchingOK, MakerFill
  PROVE  MatchingOK' /\ InUse' = InUse
<1>. DEFINE id == Head(TouchLevel.queue)
            q == FillQty(orders[id].leaves)
            left == orders[id].leaves - q
            lv == Reduced(TouchLevel, q)
<1>0. /\ pc = "maker" /\ TouchLevel.queue # <<>> /\ Hitting
      /\ orders' = With(orders, id, [orders[id] EXCEPT !.leaves = left])
      /\ levels' = SetLevel(Facing, Touch, lv)
      /\ hit' = q /\ pc' = "taker"
      /\ UNCHANGED <<taker, ladder, arrived>>
  BY DEF MakerFill, Hitting
<1>1. q \in 1..taker.qty /\ q \in 1..orders[id].leaves
  BY FillIs
<1>2. /\ id \in DOMAIN orders /\ orders[id].leaves \in Nat
      /\ orders[id].side = Facing /\ orders[id].price = Touch /\ orders[id] \in Order
  BY <1>0, FrontIs
<1>3. /\ taker.qty \in Nat /\ Facing \in Side /\ Touch \in DOMAIN levels[Facing]
      /\ Touch \in Prices /\ TouchLevel \in PriceLevel
  BY <1>0, TouchIs
<1>4. BookOK(levels, orders, arrived) /\ LevelsOK(levels)
  BY DEF MatchingOK, BookOK
<1>. HIDE DEF id, q
<1>5. q \in 0..orders[id].leaves
  BY <1>1, <1>2
<1>6. BookOK(levels', orders', arrived')
  <2>1. LET s == orders[id].side
            p == orders[id].price
            o == [orders[id] EXCEPT !.leaves = orders[id].leaves - q]
        IN BookOK(SetLev(levels, s, p, Reduced(levels[s][p], q)), With(orders, id, o), arrived)
    BY <1>2, <1>4, <1>5, OrderReduced
  <2>2. BookOK(SetLev(levels, Facing, Touch, lv), orders', arrived)
    BY <1>0, <1>2, <2>1 DEF TouchLevel
  <2>. QED  BY <1>0, <2>2 DEF SetLev, SetLevel
<1>7. SetAt(levels', levels, Facing, Touch, lv)
  <2>. HIDE DEF lv
  <2>1. SetAt(SetLev(levels, Facing, Touch, lv), levels, Facing, Touch, lv)
    BY <1>3, <1>4, SetLevIs
  <2>. QED  BY <1>0, <2>1 DEF SetLev, SetLevel
<1>8. lv.queue = TouchLevel.queue
  BY <1>3 DEF Reduced, PriceLevel
<1>. HIDE DEF lv
<1>9. /\ \A s \in Side : DOMAIN levels'[s] = DOMAIN levels[s]
      /\ \A s \in Side : \A p \in DOMAIN levels[s] :
           levels'[s][p] = IF s = Facing /\ p = Touch THEN lv ELSE levels[s][p]
  BY <1>3, <1>7 DEF SetAt
<1>10. /\ Facing' = Facing
       /\ Touch' = Touch
       /\ CrossesBest(taker.side, taker.price)' = CrossesBest(taker.side, taker.price)
  <2>1. taker.side \in Side /\ taker' = taker
    BY <1>0, TouchIs
  <2>. QED  BY <1>9, <2>1, TouchKept
<1>11. TouchLevel' = lv
  BY <1>3, <1>9, <1>10 DEF TouchLevel
<1>12. /\ DOMAIN orders' = DOMAIN orders
       /\ \A i \in DOMAIN orders : i # id => orders'[i] = orders[i]
  BY <1>0, <1>2 DEF With
<1>13. TakerOK'
  BY <1>0, <1>1, <1>3, <1>8, <1>10, <1>11, <1>12 DEF TakerOK, MatchingOK, Hitting
<1>14. NoneEmpty'
  <2>1. ASSUME NEW s \in Side, NEW p \in DOMAIN levels'[s]
        PROVE  levels'[s][p].queue # <<>>
    <3>1. CASE s = Facing /\ p = Touch
      BY <3>1, <1>0, <1>3, <1>8, <1>9
    <3>2. CASE ~(s = Facing /\ p = Touch)
      BY <3>2, <1>9 DEF MatchingOK, NoneEmpty
    <3>. QED  BY <3>1, <3>2
  <2>. QED  BY <2>1 DEF NoneEmpty
<1>15. NoneFilled'
  <2>1. ASSUME NEW i \in DOMAIN orders', orders'[i].leaves = 0
        PROVE  i = Head(TouchLevel'.queue)
    <3>1. CASE i = id
      BY <3>1, <1>8, <1>11 DEF id
    <3>2. CASE i # id
      BY <3>2, <1>0, <1>12, <2>1 DEF MatchingOK, NoneFilled
    <3>. QED  BY <3>1, <3>2
  <2>. QED  BY <1>0, <2>1 DEF NoneFilled
<1>16. Uncrossed'
  <2>1. DOMAIN levels'["Buy"] = DOMAIN levels["Buy"] /\ DOMAIN levels'["Sell"] = DOMAIN levels["Sell"]
    BY <1>9 DEF Side
  <2>. QED  BY <2>1 DEF Uncrossed, MatchingOK
<1>17. LadderOK'
  <2>1. /\ ladder = [s \in Side |-> ladder[s]]
        /\ \A s \in Side :
           /\ ladder[s] = [p \in DOMAIN levels[s] |-> ladder[s][p]]
           /\ \A p \in DOMAIN levels[s] :
                \/ ladder[s][p] = levels[s][p].total
                \/ Hitting /\ s = Facing /\ p = Touch
    BY DEF MatchingOK, LadderOK
  <2>2. Hitting'
    BY <1>0 DEF Hitting
  <2>3. \A s \in Side : ladder[s] = [p \in DOMAIN levels'[s] |-> ladder[s][p]]
    BY <1>9, <2>1
  <2>4. \A s \in Side : \A p \in DOMAIN levels'[s] :
                \/ ladder[s][p] = levels'[s][p].total
                \/ s = Facing /\ p = Touch
    BY <1>9, <2>1
  <2>. QED  BY <1>0, <1>10, <2>1, <2>2, <2>3, <2>4 DEF LadderOK
<1>18. InUse' = InUse
  BY <1>0, <1>12 DEF InUse
<1>. QED  BY <1>6, <1>13, <1>14, <1>15, <1>16, <1>17, <1>18 DEF MatchingOK

-----------------------------------------------------------------------------

(* A filled order leaves the level, the table and the history. *)
LEMMA TakerKeeps ==
  ASSUME MatchingOK, TakerFill
  PROVE  MatchingOK' /\ InUse' \subseteq InUse
<1>. DEFINE id == Head(TouchLevel.queue)
            lv == [TouchLevel EXCEPT !.queue = Tail(TouchLevel.queue)]
<1>0. /\ pc = "taker" /\ Hitting /\ pc' = "maker" /\ Hitting'
      /\ taker' = [taker EXCEPT !.qty = taker.qty - hit]
      /\ ladder' = ladder
      /\ TouchLevel.queue # <<>> /\ hit \in 1..taker.qty
      /\ taker \in Taker /\ taker.id \notin DOMAIN orders /\ taker.tif # "PostOnly"
      /\ CrossesBest(taker.side, taker.price)
  BY DEF TakerFill, Hitting, MatchingOK, TakerOK
<1>1. /\ taker.qty \in Nat /\ Facing \in Side /\ Touch \in DOMAIN levels[Facing]
      /\ Touch \in Prices /\ TouchLevel \in PriceLevel
      /\ LevelOK(orders, arrived, Facing, Touch, TouchLevel)
  BY <1>0, TouchIs
<1>2. /\ taker' \in Taker /\ taker'.id = taker.id /\ taker'.side = taker.side
      /\ taker'.price = taker.price /\ taker'.tif = taker.tif
      /\ taker.side \in Side
  BY <1>0, <1>1 DEF Taker
<1>3. /\ id \in DOMAIN orders /\ orders[id].leaves \in Nat
      /\ orders[id].side = Facing /\ orders[id].price = Touch /\ orders[id] \in Order
  BY <1>0, FrontIs
<1>4. BookOK(levels, orders, arrived) /\ LevelsOK(levels)
  BY DEF MatchingOK, BookOK
<1>5. \A i \in DOMAIN orders : orders[i].leaves = 0 => i = id
  BY DEF MatchingOK, NoneFilled
<1>6. \A s \in Side : \A p \in DOMAIN levels[s] : levels[s][p].queue # <<>>
  BY <1>0 DEF MatchingOK, NoneEmpty
(* What the two outcomes have in common. *)
<1>7. /\ BookOK(levels', orders', arrived')
      /\ \A s \in Side :
           /\ DOMAIN levels'[s] = DOMAIN levels[s]
           /\ \A p \in DOMAIN levels[s] : s # Facing \/ p # Touch =>
                levels'[s][p] = levels[s][p]
      /\ DOMAIN orders' \subseteq DOMAIN orders
      /\ \A i \in DOMAIN orders' : orders'[i] = orders[i] /\ orders'[i].leaves # 0
  <2>1. CASE orders[id].leaves = 0
    <3>1. /\ levels' = SetLevel(Facing, Touch, lv)
          /\ orders' = Without(orders, id)
          /\ arrived' = Dequeued(arrived, id)
      BY <2>1 DEF TakerFill
    <3>2. Dequeued(TouchLevel.queue, id) = Tail(TouchLevel.queue)
      BY <1>0, <1>1, DequeuedIs DEF LevelOK
    <3>. HIDE DEF id
    <3>3. LET s == orders[id].side
              p == orders[id].price
              l == levels[s][p]
          IN BookOK(SetLev(levels, s, p, [total |-> l.total - orders[id].leaves,
                                          queue |-> Dequeued(l.queue, id)]),
                    Without(orders, id), Dequeued(arrived, id))
      BY <1>3, <1>4, OrderGone
    <3>4. BookOK(SetLev(levels, Facing, Touch,
                        [total |-> TouchLevel.total - 0,
                         queue |-> Dequeued(TouchLevel.queue, id)]),
                 orders', arrived')
      BY <1>3, <2>1, <3>1, <3>3 DEF TouchLevel
    <3>5. lv = [total |-> TouchLevel.total - 0,
                queue |-> Dequeued(TouchLevel.queue, id)]
      <4>1. TouchLevel.total - 0 = TouchLevel.total
        BY <1>1 DEF PriceLevel
      <4>2. /\ lv \in PriceLevel /\ lv.total = TouchLevel.total
            /\ lv.queue = Tail(TouchLevel.queue)
        <5>1. Tail(TouchLevel.queue) \in Seq(Id)
          BY <1>0, <1>1 DEF PriceLevel
        <5>. QED  BY <1>1, <5>1 DEF PriceLevel
      <4>. HIDE DEF lv
      <4>3. lv = [total |-> lv.total, queue |-> lv.queue]
        BY <4>2 DEF PriceLevel
      <4>. QED  BY <3>2, <4>1, <4>2, <4>3
    <3>. HIDE DEF lv
    <3>6. BookOK(levels', orders', arrived')
      BY <3>1, <3>4, <3>5 DEF SetLev, SetLevel
    <3>7. SetAt(SetLev(levels, Facing, Touch, lv), levels, Facing, Touch, lv)
      BY <1>1, <1>4, SetLevIs
    <3>8. SetAt(levels', levels, Facing, Touch, lv)
      BY <3>1, <3>7 DEF SetLev, SetLevel
    <3>9. \A s \in Side :
           /\ DOMAIN levels'[s] = DOMAIN levels[s]
           /\ \A p \in DOMAIN levels[s] : s # Facing \/ p # Touch =>
                levels'[s][p] = levels[s][p]
      BY <1>1, <3>8 DEF SetAt
    <3>10. /\ DOMAIN orders' = DOMAIN orders \ {id}
           /\ \A i \in DOMAIN orders' : orders'[i] = orders[i]
      BY <3>1 DEF Without
    <3>. QED  BY <1>5, <3>6, <3>9, <3>10
  <2>2. CASE orders[id].leaves # 0
    <3>1. UNCHANGED <<levels, orders, arrived>>
      BY <2>2 DEF TakerFill
    <3>. QED  BY <1>4, <1>5, <2>2, <3>1
  <2>. QED  BY <2>1, <2>2
<1>. HIDE DEF id, lv
<1>8. /\ Facing' = Facing
      /\ Touch' = Touch
      /\ CrossesBest(taker.side, taker.price)' = CrossesBest(taker.side, taker.price)
  BY <1>2, <1>7, TouchKept
<1>9. TakerOK'
  BY <1>0, <1>2, <1>7, <1>8 DEF TakerOK
<1>10. NoneEmpty'
  BY <1>0, <1>6, <1>7, <1>8 DEF NoneEmpty
<1>11. NoneFilled'
  BY <1>7 DEF NoneFilled
<1>12. Uncrossed'
  <2>1. DOMAIN levels'["Buy"] = DOMAIN levels["Buy"] /\ DOMAIN levels'["Sell"] = DOMAIN levels["Sell"]
    BY <1>7 DEF Side
  <2>. QED  BY <2>1 DEF Uncrossed, MatchingOK
<1>13. LadderOK'
  <2>1. /\ ladder = [s \in Side |-> ladder[s]]
        /\ \A s \in Side :
           /\ ladder[s] = [p \in DOMAIN levels[s] |-> ladder[s][p]]
           /\ \A p \in DOMAIN levels[s] :
                \/ ladder[s][p] = levels[s][p].total
                \/ Hitting /\ s = Facing /\ p = Touch
    BY DEF MatchingOK, LadderOK
  <2>3. \A s \in Side : ladder[s] = [p \in DOMAIN levels'[s] |-> ladder[s][p]]
    BY <1>7, <2>1
  <2>4. \A s \in Side : \A p \in DOMAIN levels'[s] :
                \/ ladder[s][p] = levels'[s][p].total
                \/ s = Facing /\ p = Touch
    BY <1>7, <2>1
  <2>. QED  BY <1>0, <1>8, <2>1, <2>3, <2>4 DEF LadderOK
<1>14. InUse' \subseteq InUse
  BY <1>0, <1>2, <1>7 DEF InUse
<1>. QED  BY <1>7, <1>9, <1>10, <1>11, <1>12, <1>13, <1>14 DEF MatchingOK

(* The level is published, and goes when it is empty. *)
LEMMA LeaveKeeps ==
  ASSUME MatchingOK, LeaveLevel
  PROVE  MatchingOK' /\ InUse' = InUse
<1>0. /\ pc = "maker" /\ Hitting /\ pc' = "match" /\ ~Hitting'
      /\ Update(Facing, Touch, TouchLevel.total)
      /\ levels' = IF TouchLevel.queue = <<>> THEN DropLevel(Facing, Touch) ELSE levels
      /\ UNCHANGED <<orders, taker, hit, arrived>>
      /\ taker \in Taker /\ taker.id \notin DOMAIN orders /\ taker.tif # "PostOnly"
  BY DEF LeaveLevel, Publish, LevelsLeft, Hitting, MatchingOK, TakerOK
<1>1. /\ Facing \in Side /\ Touch \in DOMAIN levels[Facing]
      /\ Touch \in Prices /\ TouchLevel \in PriceLevel
      /\ LevelOK(orders, arrived, Facing, Touch, TouchLevel)
  BY <1>0, TouchIs
<1>2. BookOK(levels, orders, arrived) /\ LevelsOK(levels) /\ OrdersOK(orders, arrived)
  BY DEF MatchingOK, BookOK
<1>3. \A i \in DOMAIN orders : orders[i].leaves # 0
  BY <1>0 DEF MatchingOK, NoneFilled
<1>4. TouchLevel.total = 0 <=> TouchLevel.queue = <<>>
  <2>1. TouchLevel.queue = <<>> => TouchLevel.total = 0
    BY <1>1, <1>2, TotalIs
  <2>2. ASSUME TouchLevel.queue # <<>> PROVE TouchLevel.total # 0
    <3>. DEFINE id == Head(TouchLevel.queue)
    <3>1. id \in AtP(orders, Facing, Touch)
      BY <1>1, <1>2, <2>2, TotalIs
    <3>. HIDE DEF id
    <3>2. id \in DOMAIN orders /\ orders[id].leaves \in Nat
      BY <1>2, <3>1, TablesTyped DEF AtP
    <3>3. TouchLevel.total >= orders[id].leaves /\ TouchLevel.total \in Nat
      BY <1>1, <1>2, <3>1, TotalIs
    <3>. QED  BY <1>3, <3>2, <3>3
  <2>. QED  BY <2>1, <2>2
(* What the two outcomes have in common. *)
<1>5. /\ BookOK(levels', orders', arrived')
      /\ \A s \in Side :
           /\ DOMAIN levels'[s] = IF s = Facing
                                  THEN IF TouchLevel.total = 0 THEN DOMAIN levels[s] \ {Touch}
                                       ELSE DOMAIN levels[s] \cup {Touch}
                                  ELSE DOMAIN levels[s]
           /\ \A p \in DOMAIN levels'[s] : levels'[s][p] = levels[s][p]
  <2>1. CASE TouchLevel.queue = <<>>
    <3>1. levels' = DropLev(levels, Facing, Touch)
      BY <1>0, <2>1 DEF DropLev, DropLevel
    <3>2. BookOK(levels', orders', arrived')
      BY <1>0, <1>1, <1>2, <2>1, <3>1, LevelDropped DEF TouchLevel
    <3>3. DropAt(levels', levels, Facing, Touch)
      BY <1>1, <1>2, <3>1, DropLevIs
    <3>. QED  BY <1>4, <2>1, <3>2, <3>3 DEF DropAt
  <2>2. CASE TouchLevel.queue # <<>>
    <3>1. levels' = levels
      BY <1>0, <2>2
    <3>. QED  BY <1>0, <1>1, <1>2, <1>4, <2>2, <3>1
  <2>. QED  BY <2>1, <2>2
<1>6. LadderOK'
  <2>1. PICK s0 \in Side, p0 \in Prices, qty \in Nat :
          s0 = Facing /\ p0 = Touch /\ qty = TouchLevel.total
    BY <1>1 DEF PriceLevel
  <2>2. Update(s0, p0, qty)
    BY <1>0, <2>1
  <2>3. LevelMoved(s0, p0, qty)
    BY <1>5, <2>1 DEF LevelMoved, TouchLevel
  <2>4. Hitting => s0 = Facing /\ p0 = Touch
    BY <2>1
  <2>. QED  BY <2>2, <2>3, <2>4, LadderFollows
<1>7. TakerOK'
  BY <1>0 DEF TakerOK
<1>8. NoneEmpty'
  <2>1. ASSUME NEW s \in Side, NEW p \in DOMAIN levels'[s]
        PROVE  levels'[s][p].queue # <<>>
    <3>1. CASE s = Facing /\ p = Touch
      <4>1. TouchLevel.queue # <<>>
        BY <3>1, <1>4, <1>5, <2>1
      <4>. QED  BY <3>1, <4>1, <1>5, <2>1 DEF TouchLevel
    <3>2. CASE ~(s = Facing /\ p = Touch)
      <4>1. p \in DOMAIN levels[s] /\ levels'[s][p] = levels[s][p]
        BY <1>1, <1>5, <2>1
      <4>. QED  BY <3>2, <4>1 DEF MatchingOK, NoneEmpty
    <3>. QED  BY <3>1, <3>2
  <2>. QED  BY <2>1 DEF NoneEmpty
<1>9. NoneFilled'
  BY <1>0, <1>3 DEF NoneFilled
<1>10. Uncrossed'
  <2>1. \A s \in Side : DOMAIN levels'[s] \subseteq DOMAIN levels[s]
    BY <1>1, <1>5
  <2>2. /\ DOMAIN levels'["Buy"] \subseteq DOMAIN levels["Buy"]
        /\ DOMAIN levels'["Sell"] \subseteq DOMAIN levels["Sell"]
    BY <2>1 DEF Side
  <2>. QED  BY <2>2 DEF Uncrossed, MatchingOK
<1>11. InUse' = InUse
  BY <1>0 DEF InUse
<1>. QED  BY <1>5, <1>6, <1>7, <1>8, <1>9, <1>10, <1>11 DEF MatchingOK

(* A new id is in use, and a post-only order does not cross. *)
LEMMA AcceptKeeps ==
  ASSUME MatchingOK, NEW o \in Taker, AcceptOrder(o)
  PROVE  MatchingOK' /\ InUse' = InUse \cup {o.id} /\ o.id \notin InUse
<1>0. /\ pc = "idle" /\ pc' = "match" /\ taker' = o /\ ~Hitting /\ ~Hitting'
      /\ o.id \notin DOMAIN orders
      /\ ~(o.tif = "PostOnly" /\ CrossesBest(o.side, o.price))
      /\ UNCHANGED <<levels, orders, ladder, arrived>>
  BY DEF AcceptOrder, Invalid, WouldCross, Hitting
<1>1. BookOK(levels', orders', arrived')
  BY <1>0 DEF MatchingOK
<1>2. CrossesBest(taker.side, taker.price)' = CrossesBest(o.side, o.price)
  BY <1>0 DEF CrossesBest, HasBest, Best
<1>3. TakerOK'
  BY <1>0, <1>2 DEF TakerOK
<1>4. NoneEmpty' /\ NoneFilled'
  BY <1>0 DEF NoneEmpty, NoneFilled, MatchingOK
<1>5. Uncrossed'
  BY <1>0 DEF Uncrossed, MatchingOK
<1>6. LadderOK'
  BY <1>0 DEF LadderOK, MatchingOK
<1>7. InUse' = InUse \cup {o.id} /\ o.id \notin InUse
  BY <1>0 DEF InUse
<1>. QED  BY <1>1, <1>3, <1>4, <1>5, <1>6, <1>7 DEF MatchingOK

(* A refused order leaves no trace. *)
LEMMA RejectKeeps ==
  ASSUME MatchingOK, NEW o, RejectOrder(o)
  PROVE  MatchingOK' /\ InUse' = InUse
<1>1. UNCHANGED <<levels, orders, pc, taker, hit, ladder, arrived>>
  BY DEF RejectOrder
<1>. QED  BY <1>1, MatchingKept DEF InUse

-----------------------------------------------------------------------------

(* Rests: what is left of the taker joins the book. *)
Rests == taker.qty > 0 /\ taker.tif # "Ioc"

(* No price on the other side is at or through the limit of one that does  *)
(* not cross.                                                              *)
LEMMA BeyondBest ==
  ASSUME LevelsOK(levels), NEW s \in Side, NEW limit \in Prices,
         ~CrossesBest(s, limit), NEW p \in DOMAIN levels[Opposite(s)]
  PROVE  IF s = "Buy" THEN limit < p ELSE p < limit
<1>1. Opposite(s) \in Side /\ HasBest(Opposite(s)) /\ (s = "Buy" <=> Opposite(s) # "Buy")
  BY DEF HasBest, Opposite, Side
<1>2. /\ Best(Opposite(s)) \in Int /\ limit \in Int
      /\ p \in Int /\ ~Better(Opposite(s), p, Best(Opposite(s)))
  BY <1>1, BestIs, SimVenueAssumption
<1>3. CASE s = "Buy"
  <2>1. ~(Best(Opposite(s)) <= limit)
    BY <1>1, <1>3 DEF CrossesBest
  <2>2. ~(p < Best(Opposite(s)))
    BY <1>1, <1>2, <1>3 DEF Better
  <2>. QED  BY <1>2, <1>3, <2>1, <2>2
<1>4. CASE s # "Buy"
  <2>1. ~(Best(Opposite(s)) >= limit)
    BY <1>1, <1>4 DEF CrossesBest
  <2>2. ~(p > Best(Opposite(s)))
    BY <1>1, <1>2, <1>4 DEF Better
  <2>. QED  BY <1>2, <1>4, <2>1, <2>2
<1>. QED  BY <1>3, <1>4

(* What is left rests where it crosses nothing. *)
LEMMA FinishKeeps ==
  ASSUME MatchingOK, Finish
  PROVE  MatchingOK' /\ InUse' \subseteq InUse
<1>0. /\ pc = "match" /\ ~Hitting /\ pc' = "idle" /\ ~Hitting' /\ taker' = NoTaker
      /\ ~(taker.qty > 0 /\ CrossesBest(taker.side, taker.price))
      /\ taker \in Taker /\ taker.id \notin DOMAIN orders
  BY DEF Finish, Hitting, MatchingOK, TakerOK
<1>1. BookOK(levels, orders, arrived) /\ LevelsOK(levels)
  BY DEF MatchingOK, BookOK
<1>2. /\ \A s \in Side : \A p \in DOMAIN levels[s] : levels[s][p].queue # <<>>
      /\ \A i \in DOMAIN orders : orders[i].leaves # 0
  BY <1>0 DEF MatchingOK, NoneEmpty, NoneFilled
<1>3. TakerOK'
  BY <1>0 DEF TakerOK
<1>4. taker.id \in InUse /\ DOMAIN orders \subseteq InUse /\ InUse' = DOMAIN orders'
  BY <1>0 DEF InUse
<1>5. CASE ~Rests
  <2>1. UNCHANGED <<levels, orders, ladder, arrived>>
    BY <1>5 DEF Finish, Rests
  <2>2. NoneEmpty' /\ NoneFilled' /\ Uncrossed'
    BY <1>2, <2>1 DEF NoneEmpty, NoneFilled, Uncrossed, MatchingOK
  <2>3. LadderOK'
    BY <1>0, <2>1 DEF LadderOK, MatchingOK
  <2>4. BookOK(levels', orders', arrived')
    BY <1>1, <2>1
  <2>. QED  BY <1>3, <1>4, <2>1, <2>2, <2>3, <2>4 DEF MatchingOK
<1>6. CASE Rests
  <2>. DEFINE o == [owner |-> taker.owner, side |-> taker.side,
                    price |-> taker.price, leaves |-> taker.qty]
              old == IF taker.price \in DOMAIN levels[taker.side]
                     THEN levels[taker.side][taker.price]
                     ELSE [total |-> 0, queue |-> <<>>]
  <2>p. PICK s0 \in Side, p0 \in Prices : s0 = taker.side /\ p0 = taker.price
    BY <1>0 DEF Taker
  <2>n. PICK new : new = Enqueued(old, taker.id, taker.qty)
    OBVIOUS
  <2>1. /\ s0 = taker.side /\ p0 = taker.price
        /\ new = Enqueued(old, taker.id, taker.qty)
    BY <2>p, <2>n
  <2>2. /\ levels' = SetLevel(s0, p0, new)
        /\ orders' = With(orders, taker.id, o)
        /\ Update(s0, p0, new.total)
        /\ arrived' = Append(arrived, taker.id)
    BY <1>6, <2>1 DEF Finish, Rests
  <2>3. o \in Order /\ taker.id \in Id /\ o.leaves = taker.qty /\ taker.qty > 0
        /\ o.side = s0 /\ o.price = p0
    BY <1>0, <1>6, <2>1 DEF Order, Taker, Rests
  <2>. HIDE DEF o
  <2>4. LET s == o.side
            p == o.price
            was == IF p \in DOMAIN levels[s] THEN levels[s][p]
                   ELSE [total |-> 0, queue |-> <<>>]
            n == Enqueued(was, taker.id, o.leaves)
        IN /\ BookOK(SetLev(levels, s, p, n), With(orders, taker.id, o),
                     Append(arrived, taker.id))
           /\ n.total > 0 /\ n.queue # <<>>
    BY <1>0, <1>1, <2>3, OrderRested
  <2>5. /\ BookOK(SetLev(levels, s0, p0, new), orders', arrived')
        /\ new.total > 0 /\ new.queue # <<>>
    BY <2>1, <2>2, <2>3, <2>4
  <2>. HIDE DEF old
  <2>6. BookOK(levels', orders', arrived') /\ SetAt(levels', levels, s0, p0, new)
    <3>1. levels' = SetLev(levels, s0, p0, new)
      BY <2>2 DEF SetLev, SetLevel
    <3>2. SetAt(SetLev(levels, s0, p0, new), levels, s0, p0, new)
      BY <1>1, SetLevIs
    <3>. QED  BY <2>5, <3>1, <3>2
  <2>7. \A s \in Side :
           /\ DOMAIN levels'[s] = IF s = s0 THEN DOMAIN levels[s] \cup {p0} ELSE DOMAIN levels[s]
           /\ \A p \in DOMAIN levels'[s] :
                levels'[s][p] = IF s = s0 /\ p = p0 THEN new ELSE levels[s][p]
    BY <2>6 DEF SetAt
  <2>8. NoneEmpty'
    <3>1. ASSUME NEW s \in Side, NEW p \in DOMAIN levels'[s]
          PROVE  levels'[s][p].queue # <<>>
      BY <1>2, <2>5, <2>7
    <3>. QED  BY <3>1 DEF NoneEmpty
  <2>9. /\ DOMAIN orders' = DOMAIN orders \cup {taker.id}
        /\ \A i \in DOMAIN orders' : orders'[i] = IF i = taker.id THEN o ELSE orders[i]
    BY <2>2 DEF With
  <2>10. NoneFilled'
    <3>1. ASSUME NEW i \in DOMAIN orders' PROVE orders'[i].leaves # 0
      <4>1. CASE i = taker.id
        BY <4>1, <2>3, <2>9
      <4>2. CASE i # taker.id
        BY <4>2, <1>2, <2>9
      <4>. QED  BY <4>1, <4>2
    <3>. QED  BY <3>1 DEF NoneFilled
  <2>11. Uncrossed'
    <3>1. ~CrossesBest(s0, p0)
      BY <1>0, <1>6, <2>1 DEF Rests
    <3>2. \A p \in DOMAIN levels[Opposite(s0)] :
            IF s0 = "Buy" THEN p0 < p ELSE p < p0
      BY <1>1, <3>1, BeyondBest
    <3>3. ASSUME NEW b \in DOMAIN levels'["Buy"], NEW a \in DOMAIN levels'["Sell"]
          PROVE  b < a
      <4>1. "Buy" \in Side /\ "Sell" \in Side /\ (s0 = "Buy" \/ s0 = "Sell")
        BY DEF Side
      <4>2. CASE s0 = "Buy"
        <5>1. a \in DOMAIN levels["Sell"] /\ (b \in DOMAIN levels["Buy"] \/ b = p0)
          BY <2>7, <4>1, <4>2
        <5>2. Opposite(s0) = "Sell"
          BY <4>2 DEF Opposite
        <5>. QED  BY <3>2, <4>2, <5>1, <5>2 DEF MatchingOK, Uncrossed
      <4>3. CASE s0 = "Sell"
        <5>1. b \in DOMAIN levels["Buy"] /\ (a \in DOMAIN levels["Sell"] \/ a = p0)
          BY <2>7, <4>1, <4>3
        <5>2. Opposite(s0) = "Buy"
          BY <4>3 DEF Opposite
        <5>. QED  BY <3>2, <4>3, <5>1, <5>2 DEF MatchingOK, Uncrossed
      <4>. QED  BY <4>1, <4>2, <4>3
    <3>. QED  BY <3>3 DEF Uncrossed
  <2>12. LadderOK'
    <3>1. PICK qty : qty = new.total
      OBVIOUS
    <3>2. Update(s0, p0, qty) /\ qty # 0
      BY <2>2, <2>5, <3>1
    <3>3. LevelMoved(s0, p0, qty)
      BY <2>7, <3>1, <3>2 DEF LevelMoved
    <3>. QED  BY <1>0, <3>2, <3>3, LadderFollows
  <2>. QED  BY <1>3, <1>4, <2>6, <2>8, <2>9, <2>10, <2>11, <2>12 DEF MatchingOK
<1>. QED  BY <1>5, <1>6

(* A canceled order leaves, and its level when it was the last. *)
LEMMA CancelKeeps ==
  ASSUME MatchingOK, NEW owner, NEW id, CancelOrder(owner, id)
  PROVE  MatchingOK' /\ InUse' \subseteq InUse
<1>0. pc = "idle" /\ ~Hitting /\ UNCHANGED <<pc, taker, hit>> /\ ~Hitting'
  BY DEF CancelOrder, Hitting
<1>1. CASE ~(id \in DOMAIN orders /\ orders[id].owner = owner)
  <2>1. UNCHANGED <<levels, orders, pc, taker, hit, ladder, arrived>>
    BY <1>1 DEF CancelOrder
  <2>. QED  BY <2>1, MatchingKept DEF InUse
<1>2. CASE id \in DOMAIN orders /\ orders[id].owner = owner
  <2>1. BookOK(levels, orders, arrived) /\ LevelsOK(levels) /\ OrdersOK(orders, arrived)
    BY DEF MatchingOK, BookOK
  <2>2. /\ \A s \in Side : \A p \in DOMAIN levels[s] : levels[s][p].queue # <<>>
        /\ \A i \in DOMAIN orders : orders[i].leaves # 0
    BY <1>0 DEF MatchingOK, NoneEmpty, NoneFilled
  <2>3. PICK old, queue, total :
          /\ old = levels[orders[id].side][orders[id].price]
          /\ queue = Dequeued(old.queue, id)
          /\ total = old.total - orders[id].leaves
    OBVIOUS
  <2>3a. PICK s0 \in Side, p0 \in Prices, leaves \in Nat :
          /\ s0 = orders[id].side /\ p0 = orders[id].price
          /\ leaves = orders[id].leaves
          /\ old = levels[s0][p0]
          /\ total = old.total - leaves
    BY <1>2, <2>1, <2>3, TablesTyped
  <2>. DEFINE new == [total |-> total, queue |-> queue]
  <2>4. /\ orders' = Without(orders, id)
        /\ levels' = IF queue = <<>> THEN DropLevel(s0, p0) ELSE SetLevel(s0, p0, new)
        /\ Update(s0, p0, Max({total, 0}))
        /\ arrived' = Dequeued(arrived, id)
    BY <1>2, <2>3, <2>3a DEF CancelOrder
  <2>5. LET s == orders[id].side
            p == orders[id].price
            lv == levels[s][p]
        IN BookOK(SetLev(levels, s, p, [total |-> lv.total - orders[id].leaves,
                                        queue |-> Dequeued(lv.queue, id)]),
                  Without(orders, id), Dequeued(arrived, id))
    BY <1>2, <2>1, OrderGone
  <2>6. BookOK(SetLev(levels, s0, p0, new), orders', arrived')
    BY <2>3, <2>3a, <2>4, <2>5
  <2>7. new.queue = queue /\ new.total = total
    OBVIOUS
  <2>. HIDE DEF new
  <2>. DEFINE mid == SetLev(levels, s0, p0, new)
  <2>8. SetAt(mid, levels, s0, p0, new)
    BY <2>1, SetLevIs
  <2>. HIDE DEF mid
  <2>9. p0 \in DOMAIN levels[s0]
    BY <1>2, <2>1, <2>3a DEF BookOK
  <2>10. /\ DOMAIN mid[s0] = DOMAIN levels[s0]
         /\ p0 \in DOMAIN mid[s0] /\ mid[s0][p0] = new
    <3>1. DOMAIN mid[s0] = DOMAIN levels[s0] \cup {p0}
      BY <2>8 DEF SetAt
    <3>2. p0 \in DOMAIN mid[s0]
      BY <3>1
    <3>. QED  BY <2>8, <2>9, <3>1, <3>2 DEF SetAt
  <2>11. /\ DOMAIN orders' = DOMAIN orders \ {id}
         /\ \A i \in DOMAIN orders' : orders'[i] = orders[i]
    BY <2>4 DEF Without
  <2>12. OrdersOK(orders', arrived') /\ LevelOK(orders', arrived', s0, p0, new)
    BY <2>6, <2>10 DEF BookOK, mid
  <2>13. total \in Nat /\ Max({total, 0}) = total /\ (total = 0 <=> queue = <<>>)
    <3>1. total \in Nat /\ (queue = <<>> => total = 0)
      BY <2>7, <2>12, TotalIs
    <3>2. ASSUME queue # <<>> PROVE total # 0
      <4>. DEFINE i == Head(queue)
      <4>1. i \in AtP(orders', s0, p0)
        BY <2>7, <2>12, <3>2, TotalIs
      <4>. HIDE DEF i
      <4>2. i \in DOMAIN orders' /\ orders'[i].leaves \in Nat
        BY <2>12, <4>1, TablesTyped DEF AtP
      <4>3. total >= orders'[i].leaves
        BY <2>7, <2>12, <4>1, TotalIs
      <4>4. orders'[i].leaves # 0
        BY <2>2, <2>11, <4>2
      <4>. QED  BY <3>1, <4>2, <4>3, <4>4
    <3>3. Max({total, 0}) = total
      <4>0. total \in Int /\ 0 \in Int
        BY <3>1
      <4>1. /\ Min({total, 0}) \in {total, 0} /\ Min({total, 0}) <= total
            /\ Min({total, 0}) <= 0
            /\ Max({total, 0}) \in {total, 0}
            /\ Max({total, 0}) >= total /\ Max({total, 0}) >= 0
        BY <4>0, MinOfTwo
      <4>. QED  BY <3>1, <4>1
    <3>. QED  BY <3>1, <3>2, <3>3
  <2>14. /\ BookOK(levels', orders', arrived')
         /\ LevelMoved(s0, p0, total)
         /\ \A s \in Side : \A p \in DOMAIN levels'[s] : levels'[s][p].queue # <<>>
         /\ \A s \in Side : DOMAIN levels'[s] \subseteq DOMAIN levels[s]
    <3>1. CASE queue # <<>>
      <4>1. levels' = mid
        BY <2>4, <3>1 DEF SetLev, SetLevel, mid
      <4>2. \A s \in Side :
              /\ DOMAIN levels'[s] = DOMAIN levels[s]
              /\ \A p \in DOMAIN levels'[s] :
                   levels'[s][p] = IF s = s0 /\ p = p0 THEN new ELSE levels[s][p]
        BY <2>8, <2>9, <4>1 DEF SetAt
      <4>3. LevelMoved(s0, p0, total)
        BY <2>7, <2>9, <2>13, <3>1, <4>2 DEF LevelMoved
      <4>4. \A s \in Side : \A p \in DOMAIN levels'[s] : levels'[s][p].queue # <<>>
        BY <2>2, <2>7, <3>1, <4>2
      <4>. QED  BY <2>6, <4>1, <4>2, <4>3, <4>4 DEF mid
    <3>2. CASE queue = <<>>
      <4>1. levels' = DropLev(levels, s0, p0)
        BY <2>4, <3>2 DEF DropLev, DropLevel
      <4>2. BookOK(DropLev(mid, s0, p0), orders', arrived')
        BY <2>6, <2>7, <2>10, <3>2, LevelDropped DEF mid
      <4>3. DropLev(mid, s0, p0) = DropLev(levels, s0, p0)
        BY <2>1, <2>9, DropSet DEF mid
      <4>4. DropAt(levels', levels, s0, p0)
        BY <2>1, <4>1, DropLevIs
      <4>5. \A s \in Side :
              /\ DOMAIN levels'[s] = IF s = s0 THEN DOMAIN levels[s] \ {p0} ELSE DOMAIN levels[s]
              /\ \A p \in DOMAIN levels'[s] : levels'[s][p] = levels[s][p]
        BY <4>4 DEF DropAt
      <4>6. LevelMoved(s0, p0, total)
        BY <2>13, <3>2, <4>5 DEF LevelMoved
      <4>7. \A s \in Side : \A p \in DOMAIN levels'[s] : p \in DOMAIN levels[s] /\ levels'[s][p].queue # <<>>
        BY <2>2, <4>5
      <4>. QED  BY <4>1, <4>2, <4>3, <4>6, <4>7
    <3>. QED  BY <3>1, <3>2
  <2>15. LadderOK'
    BY <1>0, <2>4, <2>13, <2>14, LadderFollows
  <2>16. NoneEmpty' /\ NoneFilled'
    BY <2>2, <2>11, <2>14 DEF NoneEmpty, NoneFilled
  <2>17. Uncrossed'
    <3>1. /\ DOMAIN levels'["Buy"] \subseteq DOMAIN levels["Buy"]
          /\ DOMAIN levels'["Sell"] \subseteq DOMAIN levels["Sell"]
      BY <2>14 DEF Side
    <3>. QED  BY <3>1 DEF Uncrossed, MatchingOK
  <2>18. TakerOK'
    BY <1>0 DEF TakerOK, MatchingOK
  <2>19. InUse' \subseteq InUse
    BY <1>0, <2>11 DEF InUse
  <2>. QED  BY <2>14, <2>15, <2>16, <2>17, <2>18, <2>19 DEF MatchingOK
<1>. QED  BY <1>1, <1>2

-----------------------------------------------------------------------------
(* Commands. *)

(* Steps that send and take no command. *)
LEMMA CommandsKept ==
  ASSUME CommandsOK, InUse' \subseteq InUse, UNCHANGED <<orderCh, sent, next_bg>>
  PROVE  CommandsOK'
<1>1. \A id : Known(id)' <=> Known(id)
  BY DEF Known, BgId
<1>2. \A id \in InUse' : Known(id)'
  BY <1>1 DEF CommandsOK
<1>. QED  BY <1>2 DEF CommandsOK

(* The command at the head is taken: its order, if any, is in use now. *)
LEMMA CommandTaken ==
  ASSUME CommandsOK, orderCh # <<>>, orderCh' = Tail(orderCh),
         UNCHANGED <<sent, next_bg>>,
         InUse' \subseteq InUse \cup (IF Head(orderCh).cmd = "New"
                                      THEN {Head(orderCh).id} ELSE {})
  PROVE  CommandsOK'
<1>1. \A id : Known(id)' <=> Known(id)
  BY DEF Known, BgId
<1>2. orderCh \in Seq(NewCmds \cup CancelCmds)
  BY DEF CommandsOK
<1>3. /\ orderCh' \in Seq(NewCmds \cup CancelCmds) /\ Len(orderCh) \in Nat
      /\ 1 \in 1..Len(orderCh) /\ Head(orderCh) = orderCh[1]
      /\ \A i \in 1..Len(orderCh') : i + 1 \in 1..Len(orderCh) /\ i + 1 # 1
                                     /\ orderCh'[i] = orderCh[i + 1]
      /\ \A i \in 1..Len(orderCh') : \A j \in 1..Len(orderCh') :
           i + 1 = j + 1 => i = j
  BY <1>2
<1>4. \A id \in InUse' : Known(id)'
  <2>1. ASSUME Head(orderCh).cmd = "New" PROVE Known(Head(orderCh).id)
    BY <2>1, <1>3 DEF CommandsOK, Known
  <2>. QED  BY <1>1, <2>1 DEF CommandsOK
<1>5. ASSUME NEW i \in 1..Len(orderCh'), orderCh'[i].cmd = "New"
      PROVE  /\ orderCh'[i].id \in 1..sent
             /\ orderCh'[i].id \notin InUse'
             /\ \A j \in 1..Len(orderCh') :
                  orderCh'[j].cmd = "New" /\ orderCh'[j].id = orderCh'[i].id => i = j
  <2>1. PICK k \in 1..Len(orderCh) : k = i + 1 /\ k # 1 /\ orderCh'[i] = orderCh[k]
    BY <1>3, <1>5
  <2>2. /\ orderCh[k].id \in 1..sent /\ orderCh[k].id \notin InUse
        /\ \A j \in 1..Len(orderCh) :
             orderCh[j].cmd = "New" /\ orderCh[j].id = orderCh[k].id => k = j
    BY <1>5, <2>1 DEF CommandsOK
  <2>3. Head(orderCh).cmd = "New" => Head(orderCh).id # orderCh[k].id
    BY <1>3, <2>1, <2>2
  <2>4. orderCh'[i].id \notin InUse'
    BY <2>1, <2>2, <2>3
  <2>5. ASSUME NEW j \in 1..Len(orderCh'), orderCh'[j].cmd = "New",
               orderCh'[j].id = orderCh'[i].id
        PROVE  i = j
    <3>1. j + 1 \in 1..Len(orderCh) /\ orderCh'[j] = orderCh[j + 1]
      BY <1>3, <2>5
    <3>2. k = j + 1
      BY <2>1, <2>2, <2>5, <3>1
    <3>. QED  BY <1>3, <1>5, <2>1, <3>2
  <2>. QED  BY <2>1, <2>2, <2>4, <2>5
<1>6. sent' \in 0..MaxOurs /\ next_bg' \in 0..MaxBg
  BY DEF CommandsOK
<1>. QED  BY <1>3, <1>4, <1>5, <1>6 DEF CommandsOK

(* Another background order is in use. *)
LEMMA BgTaken ==
  ASSUME CommandsOK, UNCHANGED <<orderCh, sent>>, next_bg < MaxBg,
         next_bg' = next_bg + 1, InUse' = InUse \cup {BgId(next_bg + 1)}
  PROVE  CommandsOK'
<1>1. /\ sent \in 0..MaxOurs /\ next_bg \in 0..MaxBg /\ MaxOurs \in Nat /\ MaxBg \in Nat
      /\ orderCh \in Seq(NewCmds \cup CancelCmds)
  BY SimVenueAssumption DEF CommandsOK
<1>2. \A id : Known(id) => Known(id)'
  BY <1>1 DEF Known, BgId
<1>3. PICK b : b = BgId(next_bg + 1)
  OBVIOUS
<1>4. \A id \in InUse' : Known(id)'
  <2>1. Known(b)'
    BY <1>1, <1>3 DEF Known, BgId
  <2>. QED  BY <1>2, <1>3, <2>1 DEF CommandsOK
<1>5. BgId(next_bg + 1) \notin 1..sent
  BY <1>1 DEF BgId
<1>6. \A i \in 1..Len(orderCh) : orderCh[i].cmd = "New" =>
        /\ orderCh[i].id \in 1..sent
        /\ orderCh[i].id \notin InUse'
        /\ \A j \in 1..Len(orderCh) :
             orderCh[j].cmd = "New" /\ orderCh[j].id = orderCh[i].id => i = j
  BY <1>5 DEF CommandsOK
<1>7. sent' \in 0..MaxOurs /\ next_bg' \in 0..MaxBg
  BY <1>1
<1>. QED  BY <1>1, <1>4, <1>6, <1>7 DEF CommandsOK

(* A command joins the others, with a new id when it is for a new order. *)
LEMMA CommandSent ==
  ASSUME CommandsOK, UNCHANGED next_bg, InUse' = InUse,
         NEW m \in NewCmds \cup CancelCmds, orderCh' = Append(orderCh, m),
         \/ m.cmd = "New" /\ sent < MaxOurs /\ sent' = sent + 1 /\ m.id = sent + 1
         \/ m.cmd # "New" /\ sent' = sent
  PROVE  CommandsOK'
<1>1. /\ sent \in 0..MaxOurs /\ next_bg \in 0..MaxBg /\ MaxOurs \in Nat /\ MaxBg \in Nat
      /\ orderCh \in Seq(NewCmds \cup CancelCmds)
  BY SimVenueAssumption DEF CommandsOK
<1>2. sent' \in 0..MaxOurs /\ 1..sent \subseteq 1..sent'
  BY <1>1
<1>3. \A id : Known(id) => Known(id)'
  BY <1>2 DEF Known, BgId
<1>4. \A id \in InUse : Known(id)'
  BY <1>3 DEF CommandsOK
<1>5. m.cmd = "New" => m.id \notin InUse /\ m.id \in 1..sent' /\ m.id \notin 1..sent
  <2>1. m.cmd = "New" => ~Known(m.id)
    BY <1>1 DEF Known, BgId
  <2>. QED  BY <1>1, <2>1 DEF CommandsOK
<1>6. /\ orderCh' \in Seq(NewCmds \cup CancelCmds) /\ Len(orderCh) \in Nat
      /\ Len(orderCh') = Len(orderCh) + 1
      /\ orderCh'[Len(orderCh) + 1] = m
      /\ \A i \in 1..Len(orderCh) : orderCh'[i] = orderCh[i]
      /\ \A i \in 1..Len(orderCh') : i \in 1..Len(orderCh) \/ i = Len(orderCh) + 1
  BY <1>1
<1>7. \A i \in 1..Len(orderCh) : orderCh[i].cmd = "New" =>
        /\ orderCh[i].id \in 1..sent
        /\ orderCh[i].id \notin InUse
        /\ \A j \in 1..Len(orderCh) :
             orderCh[j].cmd = "New" /\ orderCh[j].id = orderCh[i].id => i = j
  BY DEF CommandsOK
<1>8. ASSUME NEW i \in 1..Len(orderCh'), orderCh'[i].cmd = "New"
      PROVE  /\ orderCh'[i].id \in 1..sent'
             /\ orderCh'[i].id \notin InUse
             /\ \A j \in 1..Len(orderCh') :
                  orderCh'[j].cmd = "New" /\ orderCh'[j].id = orderCh'[i].id => i = j
  <2>1. CASE i = Len(orderCh) + 1
    <3>1. ASSUME NEW j \in 1..Len(orderCh'), orderCh'[j].cmd = "New",
                 orderCh'[j].id = m.id
          PROVE  j = i
      <4>1. ASSUME j \in 1..Len(orderCh) PROVE FALSE
        BY <1>5, <1>6, <1>7, <1>8, <2>1, <3>1, <4>1
      <4>. QED  BY <1>6, <2>1, <4>1
    <3>. QED  BY <1>5, <1>6, <1>8, <2>1, <3>1
  <2>2. CASE i \in 1..Len(orderCh)
    <3>1. /\ orderCh'[i] = orderCh[i] /\ orderCh[i].id \in 1..sent
          /\ orderCh[i].id \notin InUse
      BY <1>6, <1>7, <1>8, <2>2
    <3>2. ASSUME NEW j \in 1..Len(orderCh'), orderCh'[j].cmd = "New",
                 orderCh'[j].id = orderCh'[i].id
          PROVE  i = j
      <4>1. j # Len(orderCh) + 1
        BY <1>5, <1>6, <3>1, <3>2
      <4>2. j \in 1..Len(orderCh) /\ orderCh'[j] = orderCh[j]
        BY <1>6, <4>1
      <4>. QED  BY <1>7, <1>8, <2>2, <3>1, <3>2, <4>2
    <3>. QED  BY <1>2, <3>1, <3>2
  <2>. QED  BY <1>6, <2>1, <2>2
<1>. QED  BY <1>1, <1>2, <1>4, <1>6, <1>8 DEF CommandsOK

(* New ids are ids. *)
LEMMA IdsAre ==
  ASSUME CommandsOK
  PROVE  /\ 1..MaxOurs \subseteq Id
         /\ next_bg < MaxBg => BgId(next_bg + 1) \in Id
  BY SimVenueAssumption DEF CommandsOK, Id, LastId, BgId

(* The engine thread sends an order or a cancel. *)
LEMMA SendKeeps ==
  ASSUME VInv, EngineSends
  PROVE  VInv'
<1>1. UNCHANGED matchingVars /\ next_bg' = next_bg
  BY DEF EngineSends
<1>2. MatchingOK' /\ InUse' = InUse
  BY <1>1, MatchingKept DEF VInv, matchingVars, InUse
<1>3. CommandsOK /\ sent \in 0..MaxOurs /\ MaxOurs \in Nat
  BY SimVenueAssumption DEF VInv, CommandsOK
<1>4. CASE /\ sent < MaxOurs
           /\ sent' = sent + 1
           /\ \E side \in Side, price \in Prices, qty \in Qtys, tif \in Tifs :
                orderCh' = Append(orderCh,
                               [cmd |-> "New", id |-> sent + 1, side |-> side,
                                price |-> price, qty |-> qty, tif |-> tif])
  <2>1. PICK side \in Side, price \in Prices, qty \in Qtys, tif \in Tifs :
                orderCh' = Append(orderCh,
                               [cmd |-> "New", id |-> sent + 1, side |-> side,
                                price |-> price, qty |-> qty, tif |-> tif])
    BY <1>4
  <2>2. PICK m : m = [cmd |-> "New", id |-> sent + 1, side |-> side,
                      price |-> price, qty |-> qty, tif |-> tif]
    OBVIOUS
  <2>3. m \in NewCmds /\ m.cmd = "New" /\ m.id = sent + 1
    <3>1. sent + 1 \in 1..MaxOurs
      BY <1>3, <1>4
    <3>. QED  BY <2>2, <3>1 DEF NewCmds
  <2>4. CommandsOK'
    BY <1>1, <1>2, <1>3, <1>4, <2>1, <2>2, <2>3, CommandSent
  <2>. QED  BY <1>2, <2>4 DEF VInv
<1>5. CASE /\ \E id \in 1..sent : orderCh' = Append(orderCh, [cmd |-> "Cancel", id |-> id])
           /\ sent' = sent
  <2>1. PICK id \in 1..sent : orderCh' = Append(orderCh, [cmd |-> "Cancel", id |-> id])
    BY <1>5
  <2>2. PICK m : m = [cmd |-> "Cancel", id |-> id]
    OBVIOUS
  <2>3. m \in CancelCmds /\ m.cmd # "New"
    BY <1>3, <2>2 DEF CancelCmds
  <2>4. CommandsOK'
    BY <1>1, <1>2, <1>3, <1>5, <2>1, <2>2, <2>3, CommandSent
  <2>. QED  BY <1>2, <2>4 DEF VInv
<1>. QED  BY <1>4, <1>5 DEF EngineSends

(* A command of ours is handled. *)
LEMMA HandleKeeps ==
  ASSUME VInv, HandleOurOrder
  PROVE  VInv'
<1>0. MatchingOK /\ CommandsOK
  BY DEF VInv
<1>1. PICK m : m = Head(orderCh)
  OBVIOUS
<1>2. /\ orderCh # <<>> /\ orderCh' = Tail(orderCh) /\ UNCHANGED <<sent, next_bg>>
      /\ IF m.cmd = "New" THEN RejectOrder(OurOrder(m)) \/ AcceptOrder(OurOrder(m))
         ELSE CancelOrder("Ours", m.id)
  BY <1>1 DEF HandleOurOrder
<1>3. m \in NewCmds \cup CancelCmds
  <2>1. orderCh \in Seq(NewCmds \cup CancelCmds)
    BY <1>0 DEF CommandsOK
  <2>. QED  BY <1>1, <1>2, <2>1
<1>4. MatchingOK' /\ InUse' \subseteq InUse \cup (IF m.cmd = "New" THEN {m.id} ELSE {})
  <2>1. CASE m.cmd # "New"
    <3>1. PICK id : id = m.id
      OBVIOUS
    <3>2. CancelOrder("Ours", id)
      BY <1>2, <2>1, <3>1
    <3>. QED  BY <1>0, <3>2, CancelKeeps
  <2>2. CASE m.cmd = "New"
    <3>1. m \in NewCmds
      BY <1>3, <2>2 DEF CancelCmds
    <3>2. PICK o \in Taker : o = OurOrder(m) /\ o.id = m.id
      <4>1. OurOrder(m) \in Taker /\ OurOrder(m).id = m.id
        <5>1. m.id \in Id
          BY <1>0, <3>1, IdsAre DEF NewCmds
        <5>2. m.side \in Side /\ m.price \in Prices /\ m.qty \in Qtys /\ m.tif \in Tifs
          BY <3>1 DEF NewCmds
        <5>3. m.qty \in Nat /\ m.tif \in TimeInForce /\ "Ours" \in Owner
          BY <5>2, SimVenueAssumption DEF Owner
        <5>. QED  BY <5>1, <5>2, <5>3 DEF OurOrder, Taker
      <4>. QED  BY <4>1
    <3>3. RejectOrder(o) \/ AcceptOrder(o)
      BY <1>2, <2>2, <3>2
    <3>4. CASE RejectOrder(o)
      BY <1>0, <3>4, RejectKeeps
    <3>5. CASE AcceptOrder(o)
      <4>1. MatchingOK' /\ InUse' = InUse \cup {o.id}
        BY <1>0, <3>5, AcceptKeeps
      <4>. QED  BY <2>2, <3>2, <4>1
    <3>. QED  BY <3>3, <3>4, <3>5
  <2>. QED  BY <2>1, <2>2
<1>5. CommandsOK'
  BY <1>0, <1>1, <1>2, <1>4, CommandTaken
<1>. QED  BY <1>4, <1>5 DEF VInv

(* The background submits an order. *)
LEMMA BgKeeps ==
  ASSUME VInv, UNCHANGED <<orderCh, sent>>, next_bg < MaxBg, next_bg' = next_bg + 1,
         NEW side \in Side, NEW price \in Prices, NEW qty \in Qtys, NEW tif \in TimeInForce,
         AcceptOrder(BgOrder(side, price, qty, tif))
  PROVE  VInv'
<1>0. MatchingOK /\ CommandsOK
  BY DEF VInv
<1>1. BgOrder(side, price, qty, tif) \in Taker
      /\ BgOrder(side, price, qty, tif).id = BgId(next_bg + 1)
  <2>1. BgId(next_bg + 1) \in Id /\ "Bg" \in Owner /\ qty \in Nat
    BY <1>0, IdsAre, SimVenueAssumption DEF Owner
  <2>. QED  BY <2>1 DEF BgOrder, Taker
<1>2. PICK o \in Taker : o = BgOrder(side, price, qty, tif) /\ o.id = BgId(next_bg + 1)
  BY <1>1
<1>3. MatchingOK' /\ InUse' = InUse \cup {o.id}
  BY <1>0, <1>2, AcceptKeeps
<1>4. CommandsOK'
  BY <1>0, <1>2, <1>3, BgTaken
<1>. QED  BY <1>3, <1>4 DEF VInv

(* Every step of the thread, and of the engine thread, keeps the invariant. *)
LEMMA StepOK == VInv /\ [Next]_vars => VInv'
<1>. SUFFICES ASSUME VInv, [Next]_vars PROVE VInv'
  OBVIOUS
<1>0. MatchingOK /\ CommandsOK
  BY DEF VInv
<1>1. CASE EngineSends
  BY <1>1, SendKeeps
<1>2. CASE EnginePolls
  <2>1. /\ UNCHANGED <<levels, orders, pc, taker, hit, ladder, arrived>>
        /\ UNCHANGED <<orderCh, sent, next_bg>>
    BY <1>2 DEF EnginePolls
  <2>2. MatchingOK' /\ InUse' = InUse
    BY <1>0, <2>1, MatchingKept DEF InUse
  <2>. QED  BY <1>0, <2>1, <2>2, CommandsKept DEF VInv
<1>3. CASE HandleOurOrder
  BY <1>3, HandleKeeps
<1>4. CASE BgPassive
  <2>1. PICK side \in Side, price \in Prices, qty \in Qtys :
          AcceptOrder(BgOrder(side, price, qty, "Gtc"))
    BY <1>4 DEF BgPassive
  <2>2. UNCHANGED <<orderCh, sent>> /\ next_bg < MaxBg /\ next_bg' = next_bg + 1
    BY <1>4 DEF BgPassive
  <2>3. "Gtc" \in TimeInForce
    BY DEF TimeInForce
  <2>. QED  BY <2>1, <2>2, <2>3, BgKeeps
<1>5. CASE BgAggressive
  <2>1. PICK side \in Side, price \in Prices, qty \in Qtys :
          AcceptOrder(BgOrder(side, price, qty, "Ioc"))
    BY <1>5 DEF BgAggressive
  <2>2. UNCHANGED <<orderCh, sent>> /\ next_bg < MaxBg /\ next_bg' = next_bg + 1
    BY <1>5 DEF BgAggressive
  <2>3. "Ioc" \in TimeInForce
    BY DEF TimeInForce
  <2>. QED  BY <2>1, <2>2, <2>3, BgKeeps
<1>6. CASE BgCancel
  <2>1. PICK id : CancelOrder("Bg", id)
    BY <1>6 DEF BgCancel
  <2>2. UNCHANGED <<orderCh, sent, next_bg>>
    BY <1>6 DEF BgCancel
  <2>3. MatchingOK' /\ InUse' \subseteq InUse
    BY <1>0, <2>1, CancelKeeps
  <2>. QED  BY <1>0, <2>2, <2>3, CommandsKept DEF VInv
<1>7. CASE Matches
  <2>1. Match /\ UNCHANGED <<orderCh, sent, next_bg>>
    BY <1>7 DEF Matches
  <2>2. MatchingOK' /\ InUse' \subseteq InUse
    BY <1>0, <2>1, EnterKeeps, MakerKeeps, TakerKeeps, LeaveKeeps, FinishKeeps DEF Match
  <2>. QED  BY <1>0, <2>1, <2>2, CommandsKept DEF VInv
<1>8. CASE UNCHANGED vars
  <2>1. UNCHANGED matchingVars /\ UNCHANGED <<orderCh, sent, next_bg>>
    BY <1>8 DEF vars
  <2>2. MatchingOK' /\ InUse' = InUse
    BY <1>0, <2>1, MatchingKept DEF InUse, matchingVars
  <2>. QED  BY <1>0, <2>1, <2>2, CommandsKept DEF VInv
<1>. QED  BY <1>1, <1>2, <1>3, <1>4, <1>5, <1>6, <1>7, <1>8 DEF Next

(* The venue thread's book is in order in every state. *)
THEOREM VenueInvariant == Spec => []VInv
<1>1. Init => VInv
  BY InitOK
<1>2. VInv /\ [Next]_vars => VInv'
  BY StepOK
<1>. QED  BY <1>1, <1>2, PTL DEF Spec

-----------------------------------------------------------------------------

(* The safety properties. *)

(* Each resting order has its place. *)
LEMMA PlaceIs ==
  ASSUME Lists(arrived, DOMAIN orders), NEW id \in DOMAIN orders
  PROVE  Place(id) \in 1..Len(arrived) /\ arrived[Place(id)] = id
<1>1. \E i \in 1..Len(arrived) : arrived[i] = id
  BY DEF Lists
<1>. QED  BY <1>1 DEF Place

(* Who is earlier in a queue came first. *)
LEMMA PlacesInTurn ==
  ASSUME MatchingOK, NEW s \in Side, NEW p \in DOMAIN levels[s],
         NEW i \in 1..Len(levels[s][p].queue), NEW j \in 1..Len(levels[s][p].queue),
         i < j
  PROVE  Place(levels[s][p].queue[i]) < Place(levels[s][p].queue[j])
<1>. DEFINE q == levels[s][p].queue
<1>1. LevelOK(orders, arrived, s, p, levels[s][p]) /\ Lists(arrived, DOMAIN orders)
  BY DEF MatchingOK, BookOK, OrdersOK
<1>2. Lists(q, AtP(orders, s, p)) /\ InTurn(q, arrived)
  BY <1>1 DEF LevelOK
<1>. HIDE DEF q
<1>3. q[i] \in AtP(orders, s, p) /\ q[j] \in AtP(orders, s, p)
  BY <1>2 DEF Lists, q
<1>4. q[i] \in DOMAIN orders /\ q[j] \in DOMAIN orders
  BY <1>3 DEF AtP
<1>5. /\ Place(q[i]) \in 1..Len(arrived) /\ arrived[Place(q[i])] = q[i]
      /\ Place(q[j]) \in 1..Len(arrived) /\ arrived[Place(q[j])] = q[j]
  BY <1>1, <1>4, PlaceIs
<1>6. Earlier(arrived, q[i], q[j])
  BY <1>2 DEF InTurn, q
<1>7. Place(q[i]) < Place(q[j])
  BY <1>5, <1>6 DEF Earlier
<1>. QED  BY <1>7 DEF q

(* What the properties say follows from the invariant. *)
LEMMA ConsistentInv == VInv => BookIsConsistent
<1>. SUFFICES ASSUME VInv, pc \in {"idle", "match"}
              PROVE  /\ ToSet(arrived) = DOMAIN orders
                     /\ \A s \in Side :
                          /\ DOMAIN levels[s] = {p \in Prices : AtPrice(s, p) # {}}
                          /\ \A p \in DOMAIN levels[s] :
                               LET queue == levels[s][p].queue
                               IN /\ ToSet(queue) = AtPrice(s, p)
                                  /\ \A i, j \in DOMAIN queue :
                                       i < j => Place(queue[i]) < Place(queue[j])
                                  /\ levels[s][p].total = SumUpTo(LeavesAt(s, p), BgId(MaxBg))
  BY DEF BookIsConsistent
<1>1. /\ MatchingOK /\ BookOK(levels, orders, arrived) /\ LevelsOK(levels)
      /\ OrdersOK(orders, arrived) /\ Lists(arrived, DOMAIN orders)
      /\ \A s \in Side : \A p \in DOMAIN levels[s] :
           levels[s][p].queue # <<>> /\ LevelOK(orders, arrived, s, p, levels[s][p])
  BY DEF VInv, MatchingOK, BookOK, OrdersOK, NoneEmpty
<1>2. \A q, S : Lists(q, S) => ToSet(q) = S /\ DOMAIN q = 1..Len(q)
  BY DEF Lists, ToSet
<1>3. \A s, p : AtPrice(s, p) = AtP(orders, s, p)
  BY DEF AtPrice, AtP
<1>4. \A s, p : LeavesAt(s, p) = LeavesT(orders, s, p)
  BY <1>3 DEF LeavesAt, LeavesT, Id, LastId
<1>5. ASSUME NEW s \in Side
      PROVE  DOMAIN levels[s] = {p \in Prices : AtPrice(s, p) # {}}
  <2>1. ASSUME NEW p \in DOMAIN levels[s] PROVE p \in Prices /\ AtPrice(s, p) # {}
    <3>1. Head(levels[s][p].queue) \in AtP(orders, s, p)
      BY <1>1, TotalIs
    <3>. QED  BY <1>1, <1>3, <3>1 DEF LevelsOK
  <2>2. ASSUME NEW p \in Prices, AtPrice(s, p) # {} PROVE p \in DOMAIN levels[s]
    <3>1. PICK id \in DOMAIN orders : orders[id].side = s /\ orders[id].price = p
      BY <2>2 DEF AtPrice
    <3>. QED  BY <1>1, <3>1 DEF BookOK
  <2>. QED  BY <2>1, <2>2
<1>6. ASSUME NEW s \in Side, NEW p \in DOMAIN levels[s]
      PROVE  /\ ToSet(levels[s][p].queue) = AtPrice(s, p)
             /\ \A i, j \in DOMAIN levels[s][p].queue :
                  i < j => Place(levels[s][p].queue[i]) < Place(levels[s][p].queue[j])
             /\ levels[s][p].total = SumUpTo(LeavesAt(s, p), BgId(MaxBg))
  <2>1. /\ Lists(levels[s][p].queue, AtP(orders, s, p))
        /\ IsSum(LeavesT(orders, s, p), LastId, levels[s][p].total)
    BY <1>1 DEF LevelOK
  <2>2. /\ ToSet(levels[s][p].queue) = AtPrice(s, p)
        /\ DOMAIN levels[s][p].queue = 1..Len(levels[s][p].queue)
    BY <1>2, <1>3, <2>1
  <2>3. SumUpTo(LeavesT(orders, s, p), LastId) = levels[s][p].total
    BY <2>1, LastIdNat, SumIsTotal
  <2>4. levels[s][p].total = SumUpTo(LeavesAt(s, p), BgId(MaxBg))
    BY <1>4, <2>3 DEF LastId
  <2>. QED  BY <1>1, <2>2, <2>4, PlacesInTurn
<1>7. ToSet(arrived) = DOMAIN orders
  BY <1>1, <1>2
<1>. QED  BY <1>5, <1>6, <1>7

(* Between the iterations of submit and between calls, a price level holds *)
(* exactly the orders of its side and price, oldest first, and its total   *)
(* is what they have left, and the table of orders agrees with both.       *)
THEOREM BookConsistent == Spec => []BookIsConsistent
BY VenueInvariant, ConsistentInv, PTL

(* As no bid reaches an ask, the best ones do not. *)
LEMMA NotCrossedInv == VInv => NotCrossed
<1>. SUFFICES ASSUME VInv, HasBest("Buy"), HasBest("Sell")
              PROVE  Best("Buy") < Best("Sell")
  BY DEF NotCrossed
<1>1. LevelsOK(levels) /\ Uncrossed /\ "Buy" \in Side /\ "Sell" \in Side
  BY DEF VInv, MatchingOK, BookOK, Side
<1>2. Best("Buy") \in DOMAIN levels["Buy"] /\ Best("Sell") \in DOMAIN levels["Sell"]
  BY <1>1, BestIs
<1>. QED  BY <1>1, <1>2 DEF Uncrossed

(* When a call returns, the best bid is below the best ask.                *)
THEOREM NeverCrossed == Spec => []NotCrossed
BY VenueInvariant, NotCrossedInv, PTL

(* Between calls no level is being executed. *)
LEMMA LadderInv == VInv => LadderIsBook
<1>. SUFFICES ASSUME VInv, pc = "idle"
              PROVE  ladder = [s \in Side |-> [p \in DOMAIN levels[s] |-> levels[s][p].total]]
  BY DEF LadderIsBook
<1>1. /\ ladder = [s \in Side |-> ladder[s]]
      /\ \A s \in Side :
           /\ ladder[s] = [p \in DOMAIN levels[s] |-> ladder[s][p]]
           /\ \A p \in DOMAIN levels[s] : ladder[s][p] = levels[s][p].total
  BY DEF VInv, MatchingOK, LadderOK, Hitting
<1>2. \A s \in Side : ladder[s] = [p \in DOMAIN levels[s] |-> levels[s][p].total]
  BY <1>1
<1>. QED  BY <1>1, <1>2

(* After every call the public level updates add up to the book: no change *)
(* of a level stays unpublished, and quantity 0 is published exactly when  *)
(* the level goes.                                                         *)
THEOREM LadderRebuildsBook == Spec => []LadderIsBook
BY VenueInvariant, LadderInv, PTL

(* Only a fill of the order at the front takes from an order. *)
LEMMA OnlyFront ==
  ASSUME VInv, [Next]_vars, NEW id \in DOMAIN orders, id \in DOMAIN orders',
         orders'[id].leaves < orders[id].leaves
  PROVE  Hitting /\ TouchLevel.queue # <<>> /\ id = Head(TouchLevel.queue)
<1>0. MatchingOK /\ orders[id].leaves \in Nat
  BY TablesTyped DEF VInv, MatchingOK, BookOK
<1>1. CASE orders' = orders
  BY <1>0, <1>1
<1>2. CASE MakerFill
  <2>1. DOMAIN orders' = DOMAIN orders \cup {Head(TouchLevel.queue)}
    BY <1>2 DEF MakerFill, With
  <2>2. id # Head(TouchLevel.queue) => orders'[id] = orders[id]
    BY <1>2, <2>1 DEF MakerFill, With
  <2>. QED  BY <1>0, <1>2, <2>2 DEF MakerFill, Hitting
<1>3. CASE TakerFill
  <2>1. orders'[id] = orders[id]
    BY <1>3 DEF TakerFill, Without
  <2>. QED  BY <1>0, <2>1
<1>4. CASE Finish
  <2>1. id # taker.id
    BY <1>0, <1>4 DEF Finish, MatchingOK, TakerOK
  <2>2. orders'[id] = orders[id]
    BY <1>4, <2>1 DEF Finish, With
  <2>. QED  BY <1>0, <2>2
<1>5. ASSUME NEW owner, NEW x, CancelOrder(owner, x) PROVE orders'[id] = orders[id]
  BY <1>5 DEF CancelOrder, Without
<1>6. CASE HandleOurOrder
  <2>1. CASE Head(orderCh).cmd = "New"
    <3>1. orders' = orders
      BY <1>6, <2>1 DEF HandleOurOrder, RejectOrder, AcceptOrder
    <3>. QED  BY <1>0, <3>1
  <2>2. CASE Head(orderCh).cmd # "New"
    <3>1. PICK x : CancelOrder("Ours", x)
      BY <1>6, <2>2 DEF HandleOurOrder
    <3>. QED  BY <1>0, <1>5, <3>1
  <2>. QED  BY <2>1, <2>2
<1>7. CASE BgCancel
  <2>1. PICK x : CancelOrder("Bg", x)
    BY <1>7 DEF BgCancel
  <2>. QED  BY <1>0, <1>5, <2>1
<1>8. CASE BgPassive \/ BgAggressive
  <2>1. orders' = orders
    BY <1>8 DEF BgPassive, BgAggressive, AcceptOrder
  <2>. QED  BY <1>0, <2>1
<1>9. CASE EngineSends \/ EnginePolls \/ EnterLevel \/ LeaveLevel \/ UNCHANGED vars
  <2>1. orders' = orders
    BY <1>9 DEF EngineSends, EnginePolls, EnterLevel, LeaveLevel, vars, matchingVars
  <2>. QED  BY <1>0, <2>1
<1>. QED  BY <1>2, <1>3, <1>4, <1>6, <1>7, <1>8, <1>9 DEF Next, Matches, Match

(* The order at the front has the best price, and the first place there. *)
LEMMA PriorityStep ==
  VInv /\ [Next]_vars =>
    \A id \in DOMAIN orders \cap DOMAIN orders' :
       orders'[id].leaves < orders[id].leaves =>
         \A other \in DOMAIN orders \ {id} :
           LET m == orders[id]
               o == orders[other]
           IN o.side = m.side =>
                /\ ~Better(m.side, o.price, m.price)
                /\ o.price = m.price => Place(other) > Place(id)
<1>. SUFFICES ASSUME VInv, [Next]_vars, NEW id \in DOMAIN orders, id \in DOMAIN orders',
                     orders'[id].leaves < orders[id].leaves,
                     NEW other \in DOMAIN orders, other # id,
                     orders[other].side = orders[id].side
              PROVE  /\ ~Better(orders[id].side, orders[other].price, orders[id].price)
                     /\ orders[other].price = orders[id].price => Place(other) > Place(id)
  OBVIOUS
<1>1. Hitting /\ TouchLevel.queue # <<>> /\ id = Head(TouchLevel.queue)
  BY OnlyFront
<1>2. MatchingOK /\ BookOK(levels, orders, arrived) /\ Lists(arrived, DOMAIN orders)
  BY DEF VInv, MatchingOK, BookOK, OrdersOK
<1>3. orders[id].side = Facing /\ orders[id].price = Touch /\ Facing \in Side
  BY <1>1, <1>2, FrontIs, TouchIs
<1>4. orders[other].price \in DOMAIN levels[Facing]
  BY <1>2, <1>3 DEF BookOK
<1>5. ~Better(Facing, orders[other].price, Touch)
  BY <1>1, <1>2, <1>4, TouchIs
<1>6. ASSUME orders[other].price = orders[id].price PROVE Place(other) > Place(id)
  <2>. DEFINE q == TouchLevel.queue
  <2>1. Touch \in DOMAIN levels[Facing] /\ q = levels[Facing][Touch].queue
    BY <1>1, <1>2, TouchIs DEF TouchLevel
  <2>2. Lists(q, AtP(orders, Facing, Touch))
    BY <1>1, <1>2, TouchIs DEF LevelOK
  <2>3. other \in AtP(orders, Facing, Touch)
    BY <1>3, <1>6 DEF AtP
  <2>. HIDE DEF q
  <2>4. PICK j \in 1..Len(q) : q[j] = other
    BY <2>2, <2>3 DEF Lists
  <2>5. q \in Seq(Id) /\ q # <<>> /\ id = Head(q)
    BY <1>1, <2>2 DEF Lists, q
  <2>6. 1 \in 1..Len(q) /\ q[1] = id /\ 1 < j
    BY <2>4, <2>5
  <2>7. Place(q[1]) < Place(q[j])
    BY <1>2, <1>3, <2>1, <2>4, <2>6, PlacesInTurn
  <2>8. Place(id) < Place(other)
    BY <2>4, <2>6, <2>7
  <2>9. Place(id) \in 1..Len(arrived) /\ Place(other) \in 1..Len(arrived)
    BY <1>2, PlaceIs
  <2>. QED  BY <2>8, <2>9
<1>. QED  BY <1>3, <1>5, <1>6

(* The matching engine keeps price-time priority (matching.rs:1): what an  *)
(* order loses, none at a better price and none before it at its price     *)
(* could have given.                                                       *)
THEOREM Priority == Spec => PriceTimePriority
<1>1. VInv /\ [Next]_vars =>
        [\A id \in DOMAIN orders \cap DOMAIN orders' :
           orders'[id].leaves < orders[id].leaves =>
             \A other \in DOMAIN orders \ {id} :
               LET m == orders[id]
                   o == orders[other]
               IN o.side = m.side =>
                    /\ ~Better(m.side, o.price, m.price)
                    /\ o.price = m.price => Place(other) > Place(id)]_vars
  BY PriorityStep
<1>. QED  BY <1>1, VenueInvariant, PTL DEF Spec, PriceTimePriority

-----------------------------------------------------------------------------
(* The venue thread implements the venue of order entry. *)

(* What the engine thread knows of a book, and of the order under way. *)
OursOf(ord) == {id \in DOMAIN ord : ord[id].owner = "Ours" /\ ord[id].leaves > 0}
SeenOf(o) == [side |-> o.side, price |-> o.price, leaves |-> o.leaves]
RestOf(ord) ==
  [id \in OursOf(ord) |->
     [side |-> ord[id].side, price |-> ord[id].price, leaves |-> ord[id].leaves]]
Taking == IF pc # "idle" /\ taker.owner = "Ours"
          THEN [cmd |-> "New", id |-> taker.id, side |-> taker.side,
                price |-> taker.price, qty |-> taker.qty, tif |-> taker.tif]
          ELSE NoTaker

(* Only our orders with something left are seen. *)
LEMMA RestSame ==
  ASSUME NEW ord, NEW ord2, OursOf(ord2) = OursOf(ord),
         \A id \in OursOf(ord) : ord2[id] = ord[id]
  PROVE  RestOf(ord2) = RestOf(ord)
BY DEF RestOf

(* An order seen no more. *)
LEMMA RestGone ==
  ASSUME NEW ord, NEW id
  PROVE  RestOf(Without(ord, id)) = Without(RestOf(ord), id)
<1>. DEFINE ord2 == Without(ord, id)
<1>1. /\ DOMAIN ord2 = DOMAIN ord \ {id}
      /\ \A i \in DOMAIN ord2 : ord2[i] = ord[i]
  BY DEF Without
<1>. HIDE DEF ord2
<1>2. OursOf(ord2) = OursOf(ord) \ {id} /\ \A i \in OursOf(ord2) : ord2[i] = ord[i]
  BY <1>1 DEF OursOf
<1>3. DOMAIN RestOf(ord) = OursOf(ord)
  BY DEF RestOf
<1>. QED  BY <1>2, <1>3 DEF RestOf, Without, ord2

(* An order added is seen when it is ours. *)
LEMMA RestAdded ==
  ASSUME NEW ord, NEW id, NEW o
  PROVE  IF o.owner = "Ours" /\ o.leaves > 0
         THEN RestOf(With(ord, id, o)) = With(RestOf(ord), id, SeenOf(o))
         ELSE id \notin OursOf(ord) => RestOf(With(ord, id, o)) = RestOf(ord)
<1>. DEFINE ord2 == With(ord, id, o)
<1>1. /\ DOMAIN ord2 = DOMAIN ord \cup {id}
      /\ \A i \in DOMAIN ord2 : ord2[i] = IF i = id THEN o ELSE ord[i]
  BY DEF With
<1>. HIDE DEF ord2
<1>2. CASE o.owner = "Ours" /\ o.leaves > 0
  <2>1. /\ OursOf(ord2) = OursOf(ord) \cup {id}
        /\ \A i \in OursOf(ord2) : ord2[i] = IF i = id THEN o ELSE ord[i]
    BY <1>1, <1>2 DEF OursOf
  <2>2. DOMAIN RestOf(ord) = OursOf(ord)
    BY DEF RestOf
  <2>3. RestOf(ord2) = With(RestOf(ord), id, SeenOf(o))
    <3>1. With(RestOf(ord), id, SeenOf(o)) =
            [i \in OursOf(ord) \cup {id} |->
               IF i = id THEN SeenOf(o) ELSE RestOf(ord)[i]]
      BY <2>2 DEF With
    <3>2. RestOf(ord2) = [i \in OursOf(ord) \cup {id} |-> SeenOf(ord2[i])]
      BY <2>1 DEF RestOf, SeenOf
    <3>3. \A i \in OursOf(ord) \cup {id} :
            SeenOf(ord2[i]) = IF i = id THEN SeenOf(o) ELSE RestOf(ord)[i]
      <4>1. ASSUME NEW i \in OursOf(ord) \cup {id}, i # id
            PROVE  SeenOf(ord2[i]) = RestOf(ord)[i]
        <5>1. ord2[i] = ord[i] /\ i \in OursOf(ord)
          BY <2>1, <4>1
        <5>. QED  BY <5>1 DEF RestOf, SeenOf
      <4>2. ord2[id] = o
        BY <1>1
      <4>. QED  BY <4>1, <4>2
    <3>. QED  BY <3>1, <3>2, <3>3
  <2>. QED  BY <1>2, <2>3 DEF ord2
<1>3. CASE ~(o.owner = "Ours" /\ o.leaves > 0)
  <2>1. ASSUME id \notin OursOf(ord) PROVE RestOf(ord2) = RestOf(ord)
    <3>1. OursOf(ord2) = OursOf(ord) /\ \A i \in OursOf(ord) : ord2[i] = ord[i]
      <4>1. \A i : i \in OursOf(ord2) <=> i \in OursOf(ord)
        BY <1>1, <1>3, <2>1 DEF OursOf
      <4>2. \A i \in OursOf(ord) : i # id /\ i \in DOMAIN ord
        BY <2>1 DEF OursOf
      <4>. QED  BY <1>1, <4>1, <4>2
    <3>. QED  BY <3>1, RestSame
  <2>. QED  BY <1>3, <2>1 DEF ord2
<1>. QED  BY <1>2, <1>3

(* A fill of an order of ours. *)
LEMMA RestFilled ==
  ASSUME NEW ord, NEW id \in OursOf(ord), ord[id] \in Order, NEW left \in Nat
  PROVE  RestOf(With(ord, id, [ord[id] EXCEPT !.leaves = left])) =
           IF left = 0 THEN Without(RestOf(ord), id)
           ELSE With(RestOf(ord), id, [RestOf(ord)[id] EXCEPT !.leaves = left])
<1>. DEFINE o == [ord[id] EXCEPT !.leaves = left]
            ord2 == With(ord, id, o)
<1>1. /\ o.owner = "Ours" /\ o.leaves = left
      /\ o.side = ord[id].side /\ o.price = ord[id].price
  BY DEF Order, OursOf
<1>. HIDE DEF o
<1>2. CASE left = 0
  <2>1. /\ DOMAIN ord2 = DOMAIN ord \cup {id}
        /\ \A i \in DOMAIN ord2 : ord2[i] = IF i = id THEN o ELSE ord[i]
    BY DEF With
  <2>. HIDE DEF ord2
  <2>2. /\ OursOf(ord2) = OursOf(ord) \ {id}
        /\ \A i \in OursOf(ord2) : ord2[i] = ord[i]
    BY <1>1, <1>2, <2>1 DEF OursOf
  <2>3. DOMAIN RestOf(ord) = OursOf(ord)
    BY DEF RestOf
  <2>4. RestOf(ord2) = Without(RestOf(ord), id)
    BY <2>2, <2>3 DEF RestOf, Without
  <2>. QED  BY <1>2, <2>4 DEF ord2, o
<1>3. CASE left # 0
  <2>1. RestOf(ord2) = With(RestOf(ord), id, SeenOf(o))
    BY <1>1, <1>3, RestAdded
  <2>2. [RestOf(ord)[id] EXCEPT !.leaves = left] = SeenOf(o)
    <3>1. RestOf(ord)[id] = [side |-> ord[id].side, price |-> ord[id].price,
                             leaves |-> ord[id].leaves]
      BY DEF RestOf
    <3>. QED  BY <1>1, <3>1 DEF SeenOf
  <2>. QED  BY <1>3, <2>1, <2>2 DEF ord2, o
<1>. QED  BY <1>2, <1>3

(* The abstract venue's steps, said of the two. *)
LEMMA AbstractStill ==
  ASSUME UNCHANGED <<orderCh, execCh>>, RestOf(orders)' = RestOf(orders), Taking' = Taking
  PROVE  UNCHANGED Venue!venueVars
BY DEF Venue!venueVars, RestOf, OursOf, OursResting, Taking

(* The abstract venue rejects a post-only order. *)
LEMMA AbstractReject ==
  ASSUME Taking = NoTaker, orderCh # <<>>, Head(orderCh).cmd = "New",
         Head(orderCh).tif = "PostOnly", orderCh' = Tail(orderCh),
         execCh' = Append(execCh, Rejected(Head(orderCh).id, "WouldCross")),
         RestOf(orders)' = RestOf(orders), Taking' = Taking
  PROVE  Venue!VenueNext
<1>1. Venue!VenueReject
  BY DEF Venue!VenueReject, Venue!Report, Venue!Rejected, Rejected, RestOf, OursOf,
         OursResting, Taking
<1>. QED  BY <1>1 DEF Venue!VenueNext, Venue!VenueCommand

(* It accepts an order. *)
LEMMA AbstractAccept ==
  ASSUME Taking = NoTaker, orderCh # <<>>, Head(orderCh).cmd = "New",
         orderCh' = Tail(orderCh), Taking' = Head(orderCh),
         execCh' = Append(execCh, Ack(Head(orderCh).id)),
         RestOf(orders)' = RestOf(orders)
  PROVE  Venue!VenueNext
<1>1. Venue!VenueAccept
  BY DEF Venue!VenueAccept, Venue!Report, Venue!Ack, Ack, RestOf, OursOf,
         OursResting, Taking
<1>. QED  BY <1>1 DEF Venue!VenueNext, Venue!VenueCommand

-----------------------------------------------------------------------------

(* Its order takes from the market. *)
LEMMA AbstractTake ==
  ASSUME NEW price \in Prices, NEW qty \in 1..Taking.qty,
         Taking # NoTaker, Taking.tif # "PostOnly",
         IF Taking.side = "Buy" THEN price <= Taking.price ELSE price >= Taking.price,
         Taking' = [Taking EXCEPT !.qty = Taking.qty - qty],
         execCh' = Append(execCh, Fill(Taking.id, price, qty, Taking.qty - qty)),
         orderCh' = orderCh, RestOf(orders)' = RestOf(orders)
  PROVE  Venue!VenueNext
<1>1. Venue!VenueTake(price, qty)
  BY DEF Venue!VenueTake, Venue!Crosses, Venue!Report, Venue!Fill, Fill, RestOf, OursOf,
         OursResting, Taking
<1>2. Venue!VenueTrade
  BY <1>1 DEF Venue!VenueTrade, Taking
<1>. QED  BY <1>2 DEF Venue!VenueNext

(* Its order comes to an end. *)
LEMMA AbstractRest ==
  ASSUME Taking # NoTaker, Taking' = NoTaker, orderCh' = orderCh,
         IF Taking.qty > 0 /\ Taking.tif = "Ioc"
         THEN execCh' = Append(execCh, Canceled(Taking.id)) ELSE execCh' = execCh,
         RestOf(orders)' = IF Taking.qty > 0 /\ Taking.tif # "Ioc"
                           THEN With(RestOf(orders), Taking.id,
                                     [side |-> Taking.side, price |-> Taking.price,
                                      leaves |-> Taking.qty])
                           ELSE RestOf(orders)
  PROVE  Venue!VenueNext
<1>1. Venue!VenueRest
  BY DEF Venue!VenueRest, Venue!Report, Venue!Canceled, Canceled, Venue!With, With,
         RestOf, OursOf, OursResting, Taking
<1>. QED  BY <1>1 DEF Venue!VenueNext, Venue!VenueCommand

(* One of its resting orders is hit. *)
LEMMA AbstractMake ==
  ASSUME NEW id \in OursOf(orders), NEW qty \in 1..RestOf(orders)[id].leaves, NEW left,
         left = RestOf(orders)[id].leaves - qty,
         \/ Taking = NoTaker
         \/ /\ Taking # NoTaker
            /\ Taking.side = Opposite(RestOf(orders)[id].side)
            /\ IF Taking.side = "Buy" THEN RestOf(orders)[id].price <= Taking.price
               ELSE RestOf(orders)[id].price >= Taking.price,
         execCh' = Append(execCh, Fill(id, RestOf(orders)[id].price, qty, left)),
         RestOf(orders)' =
           IF left = 0 THEN Without(RestOf(orders), id)
           ELSE With(RestOf(orders), id, [RestOf(orders)[id] EXCEPT !.leaves = left]),
         orderCh' = orderCh, Taking' = Taking
  PROVE  Venue!VenueNext
<1>1. Venue!VenueMake(id, qty)
  BY DEF Venue!VenueMake, Venue!Crosses, Venue!Report, Venue!Fill, Fill, Venue!With, With,
         Venue!Without, Without, Venue!Opposite, Opposite, RestOf, OursOf, OursResting,
         Taking
<1>2. Venue!VenueTrade
  BY <1>1 DEF Venue!VenueTrade, RestOf, OursOf, OursResting
<1>. QED  BY <1>2 DEF Venue!VenueNext

(* It handles a cancel. *)
LEMMA AbstractCancel ==
  ASSUME Taking = NoTaker, orderCh # <<>>, Head(orderCh).cmd = "Cancel",
         orderCh' = Tail(orderCh), Taking' = Taking,
         IF Head(orderCh).id \in OursOf(orders)
         THEN /\ RestOf(orders)' = Without(RestOf(orders), Head(orderCh).id)
              /\ execCh' = Append(execCh, Canceled(Head(orderCh).id))
         ELSE /\ RestOf(orders)' = RestOf(orders)
              /\ execCh' = Append(execCh, Rejected(Head(orderCh).id, "UnknownOrder"))
  PROVE  Venue!VenueNext
<1>1. Venue!VenueCancel
  BY DEF Venue!VenueCancel, Venue!Report, Venue!Canceled, Canceled, Venue!Rejected,
         Rejected, Venue!Without, Without, RestOf, OursOf, OursResting, Taking
<1>. QED  BY <1>1 DEF Venue!VenueNext, Venue!VenueCommand

-----------------------------------------------------------------------------

(* Our order under way is seen, one of the background is not. *)
LEMMA TakingIs ==
  ASSUME TakerOK
  PROVE  IF pc # "idle" /\ taker.owner = "Ours"
         THEN /\ Taking.id = taker.id /\ Taking.side = taker.side
              /\ Taking.price = taker.price /\ Taking.qty = taker.qty
              /\ Taking.tif = taker.tif /\ Taking # NoTaker
         ELSE Taking = NoTaker
<1>1. CASE pc # "idle" /\ taker.owner = "Ours"
  <2>. DEFINE t == [cmd |-> "New", id |-> taker.id, side |-> taker.side,
                    price |-> taker.price, qty |-> taker.qty, tif |-> taker.tif]
  <2>1. Taking = t
    BY <1>1 DEF Taking
  <2>2. taker \in Taker
    BY <1>1 DEF TakerOK
  <2>3. t # NoTaker
    <3>0. /\ taker.id \in Id /\ taker.side \in Side /\ taker.price \in Prices
          /\ taker.qty \in Nat /\ taker.tif \in TimeInForce
      BY <2>2 DEF Taker
    <3>1. /\ taker.id \in Int /\ taker.side \in Side /\ taker.price \in Int
          /\ taker.qty \in Int /\ taker.tif \in TimeInForce
      <4>1. \A x \in Id : x \in Int
        BY LastIdNat DEF Id
      <4>2. \A p \in Prices : p \in Int
        BY SimVenueAssumption
      <4>3. \A n \in Nat : n \in Int
        OBVIOUS
      <4>. QED  BY <3>0, <4>1, <4>2, <4>3
    <3>2. t \in [cmd : {"New"}, id : Int, side : Side, price : Int, qty : Int,
                 tif : TimeInForce]
      BY <3>1
    <3>. QED  BY <3>2, SimVenueAssumption
  <2>. QED  BY <1>1, <2>1, <2>3
<1>2. CASE ~(pc # "idle" /\ taker.owner = "Ours")
  BY <1>2 DEF Taking
<1>. QED  BY <1>1, <1>2

(* The order under way stays the same within a call. *)
LEMMA TakingKept ==
  ASSUME pc # "idle", pc' # "idle", taker' = taker
  PROVE  Taking' = Taking
BY DEF Taking

(* Entering and leaving a level is not seen. *)
LEMMA PassImplements ==
  ASSUME MatchingOK, EnterLevel \/ LeaveLevel, orderCh' = orderCh
  PROVE  UNCHANGED Venue!venueVars
<1>1. /\ orders' = orders /\ taker' = taker /\ execCh' = execCh
      /\ pc # "idle" /\ pc' # "idle"
  BY DEF EnterLevel, LeaveLevel
<1>2. RestOf(orders)' = RestOf(orders)
  BY <1>1
<1>. QED  BY <1>1, <1>2, TakingKept, AbstractStill

(* The fill of a resting order: ours is hit, another not seen. *)
LEMMA MakerImplements ==
  ASSUME MatchingOK, MakerFill, orderCh' = orderCh
  PROVE  Venue!VenueNext \/ UNCHANGED Venue!venueVars
<1>0. /\ pc = "maker" /\ pc' = "taker" /\ taker' = taker /\ Hitting
      /\ TouchLevel.queue # <<>> /\ TakerOK
  BY DEF MakerFill, Hitting, MatchingOK
<1>1. PICK id, q, left : /\ id = Head(TouchLevel.queue)
                         /\ q = FillQty(orders[id].leaves)
                         /\ left = orders[id].leaves - q
  OBVIOUS
<1>2. /\ orders' = With(orders, id, [orders[id] EXCEPT !.leaves = left])
      /\ execCh' = IF orders[id].owner = "Ours"
                   THEN Append(execCh, Fill(id, Touch, q, left)) ELSE execCh
  BY <1>1 DEF MakerFill, Report
<1>3. q \in 1..taker.qty /\ q \in 1..orders[id].leaves
  BY <1>1, FillIs
<1>4. /\ id \in DOMAIN orders /\ orders[id].leaves \in Nat /\ orders[id] \in Order
      /\ orders[id].side = Facing /\ orders[id].price = Touch
  BY <1>0, <1>1, FrontIs
<1>5. left \in Nat
  BY <1>1, <1>3, <1>4
<1>6. Taking' = Taking
  BY <1>0, TakingKept
<1>7. CASE orders[id].owner = "Ours"
  <2>1. id \in OursOf(orders)
    BY <1>3, <1>4, <1>7 DEF OursOf
  <2>2. RestOf(orders)[id] = [side |-> orders[id].side, price |-> orders[id].price,
                              leaves |-> orders[id].leaves]
    BY <2>1 DEF RestOf
  <2>3. /\ RestOf(orders)[id].side = Facing /\ RestOf(orders)[id].price = Touch
        /\ RestOf(orders)[id].leaves = orders[id].leaves
    BY <1>4, <2>2
  <2>4. RestOf(orders)' =
          IF left = 0 THEN Without(RestOf(orders), id)
          ELSE With(RestOf(orders), id, [RestOf(orders)[id] EXCEPT !.leaves = left])
    <3>1. RestOf(With(orders, id, [orders[id] EXCEPT !.leaves = left])) =
            IF left = 0 THEN Without(RestOf(orders), id)
            ELSE With(RestOf(orders), id, [RestOf(orders)[id] EXCEPT !.leaves = left])
      BY <1>4, <1>5, <2>1, RestFilled
    <3>. QED  BY <1>2, <3>1
  <2>5. execCh' = Append(execCh, Fill(id, RestOf(orders)[id].price, q, left))
    BY <1>2, <1>7, <2>3
  <2>6. \/ Taking = NoTaker
        \/ /\ Taking # NoTaker
           /\ Taking.side = Opposite(RestOf(orders)[id].side)
           /\ IF Taking.side = "Buy" THEN RestOf(orders)[id].price <= Taking.price
              ELSE RestOf(orders)[id].price >= Taking.price
    <3>1. CASE taker.owner = "Ours"
      <4>1. /\ Taking # NoTaker /\ Taking.side = taker.side /\ Taking.price = taker.price
        BY <1>0, <3>1, TakingIs
      <4>2. /\ taker.side \in Side
            /\ IF taker.side = "Buy" THEN Touch <= taker.price ELSE Touch >= taker.price
        BY <1>0, TouchIs
      <4>3. taker.side = Opposite(Facing)
        BY <4>2, SideIs DEF Facing
      <4>. QED  BY <2>3, <4>1, <4>2, <4>3
    <3>2. CASE taker.owner # "Ours"
      BY <1>0, <3>2, TakingIs
    <3>. QED  BY <3>1, <3>2
  <2>7. q \in 1..RestOf(orders)[id].leaves /\ left = RestOf(orders)[id].leaves - q
    BY <1>1, <1>3, <2>3
  <2>. QED  BY <1>6, <2>1, <2>4, <2>5, <2>6, <2>7, AbstractMake
<1>8. CASE orders[id].owner # "Ours"
  <2>1. id \notin OursOf(orders)
    BY <1>8 DEF OursOf
  <2>2. PICK o : o = [orders[id] EXCEPT !.leaves = left]
    OBVIOUS
  <2>3. o.owner # "Ours"
    BY <1>4, <1>8, <2>2 DEF Order
  <2>4. RestOf(With(orders, id, o)) = RestOf(orders)
    BY <2>1, <2>3, RestAdded
  <2>5. RestOf(orders)' = RestOf(orders)
    BY <1>2, <2>2, <2>4
  <2>6. execCh' = execCh
    BY <1>2, <1>8
  <2>. QED  BY <1>6, <2>5, <2>6, AbstractStill
<1>. QED  BY <1>7, <1>8

(* The fill of the incoming order. *)
LEMMA TakerImplements ==
  ASSUME MatchingOK, TakerFill, orderCh' = orderCh
  PROVE  Venue!VenueNext \/ UNCHANGED Venue!venueVars
<1>0. /\ pc = "taker" /\ Hitting /\ pc' = "maker" /\ TakerOK
      /\ taker' = [taker EXCEPT !.qty = taker.qty - hit]
      /\ execCh' = IF taker.owner = "Ours"
                   THEN Append(execCh, Fill(taker.id, Touch, hit, taker.qty - hit))
                   ELSE execCh
      /\ hit \in 1..taker.qty /\ taker \in Taker /\ taker.tif # "PostOnly"
  BY DEF TakerFill, TakerReport, Report, Hitting, MatchingOK, TakerOK
<1>1. /\ Touch \in Prices
      /\ IF taker.side = "Buy" THEN Touch <= taker.price ELSE Touch >= taker.price
  BY <1>0, TouchIs
<1>2. RestOf(orders)' = RestOf(orders)
  <2>1. PICK id : id = Head(TouchLevel.queue)
    OBVIOUS
  <2>2. CASE orders[id].leaves = 0
    <3>1. orders' = Without(orders, id)
      BY <2>1, <2>2 DEF TakerFill
    <3>2. OursOf(orders') = OursOf(orders) /\ \A i \in OursOf(orders) : orders'[i] = orders[i]
      BY <2>2, <3>1 DEF OursOf, Without
    <3>. QED  BY <3>2, RestSame
  <2>3. CASE orders[id].leaves # 0
    BY <2>1, <2>3 DEF TakerFill
  <2>. QED  BY <2>2, <2>3
<1>3. CASE taker.owner = "Ours"
  <2>1. /\ Taking.id = taker.id /\ Taking.side = taker.side
        /\ Taking.price = taker.price /\ Taking.qty = taker.qty
        /\ Taking.tif = taker.tif /\ Taking # NoTaker
    BY <1>0, <1>3, TakingIs
  <2>2. Taking' = [Taking EXCEPT !.qty = Taking.qty - hit]
    <3>1. Taking = [cmd |-> "New", id |-> taker.id, side |-> taker.side,
                    price |-> taker.price, qty |-> taker.qty, tif |-> taker.tif]
      BY <1>0, <1>3 DEF Taking
    <3>2. /\ taker'.owner = "Ours" /\ taker'.id = taker.id /\ taker'.side = taker.side
          /\ taker'.price = taker.price /\ taker'.qty = taker.qty - hit
          /\ taker'.tif = taker.tif
      BY <1>0, <1>3 DEF Taker
    <3>3. Taking' = [cmd |-> "New", id |-> taker.id, side |-> taker.side,
                     price |-> taker.price, qty |-> taker.qty - hit, tif |-> taker.tif]
      BY <1>0, <3>2 DEF Taking
    <3>4. [Taking EXCEPT !.qty = taker.qty - hit] =
                    [cmd |-> "New", id |-> taker.id, side |-> taker.side,
                     price |-> taker.price, qty |-> taker.qty - hit, tif |-> taker.tif]
      BY <3>1
    <3>. QED  BY <2>1, <3>3, <3>4
  <2>3. PICK price, qty : price = Touch /\ qty = hit
    OBVIOUS
  <2>4. /\ price \in Prices /\ qty \in 1..Taking.qty /\ Taking.tif # "PostOnly"
        /\ IF Taking.side = "Buy" THEN price <= Taking.price ELSE price >= Taking.price
        /\ Taking' = [Taking EXCEPT !.qty = Taking.qty - qty]
        /\ execCh' = Append(execCh, Fill(Taking.id, price, qty, Taking.qty - qty))
    BY <1>0, <1>1, <1>3, <2>1, <2>2, <2>3
  <2>. QED  BY <1>2, <2>1, <2>4, AbstractTake
<1>4. CASE taker.owner # "Ours"
  <2>1. taker'.owner # "Ours"
    BY <1>0, <1>4 DEF Taker
  <2>2. Taking' = Taking
    BY <1>4, <2>1 DEF Taking
  <2>. QED  BY <1>0, <1>2, <1>4, <2>2, AbstractStill
<1>. QED  BY <1>3, <1>4

(* The end of a call. *)
LEMMA FinishImplements ==
  ASSUME MatchingOK, Finish, orderCh' = orderCh
  PROVE  Venue!VenueNext \/ UNCHANGED Venue!venueVars
<1>0. /\ pc = "match" /\ pc' = "idle" /\ TakerOK
      /\ taker \in Taker /\ taker.id \notin DOMAIN orders
  BY DEF Finish, MatchingOK, TakerOK
<1>1. PICK o : o = [owner |-> taker.owner, side |-> taker.side,
                    price |-> taker.price, leaves |-> taker.qty]
  OBVIOUS
<1>2. /\ o.owner = taker.owner /\ o.leaves = taker.qty
      /\ SeenOf(o) = [side |-> taker.side, price |-> taker.price, leaves |-> taker.qty]
  BY <1>1 DEF SeenOf
<1>3. IF taker.qty > 0 /\ taker.tif # "Ioc"
      THEN orders' = With(orders, taker.id, o) /\ execCh' = execCh
      ELSE /\ orders' = orders
           /\ execCh' = IF taker.qty > 0 /\ taker.owner = "Ours"
                        THEN Append(execCh, Canceled(taker.id)) ELSE execCh
  BY <1>1 DEF Finish, Report
<1>4. Taking' = NoTaker
  BY <1>0 DEF Taking
<1>5. taker.id \notin OursOf(orders)
  BY <1>0 DEF OursOf
<1>6. CASE taker.owner = "Ours"
  <2>1. /\ Taking.id = taker.id /\ Taking.side = taker.side
        /\ Taking.price = taker.price /\ Taking.qty = taker.qty
        /\ Taking.tif = taker.tif /\ Taking # NoTaker
    BY <1>0, <1>6, TakingIs
  <2>2. RestOf(orders)' = IF taker.qty > 0 /\ taker.tif # "Ioc"
                          THEN With(RestOf(orders), taker.id,
                                    [side |-> taker.side, price |-> taker.price,
                                     leaves |-> taker.qty])
                          ELSE RestOf(orders)
    <3>1. CASE taker.qty > 0 /\ taker.tif # "Ioc"
      <4>1. RestOf(With(orders, taker.id, o)) = With(RestOf(orders), taker.id, SeenOf(o))
        BY <1>2, <1>6, <3>1, RestAdded
      <4>. QED  BY <1>2, <1>3, <3>1, <4>1
    <3>2. CASE ~(taker.qty > 0 /\ taker.tif # "Ioc")
      BY <1>3, <3>2
    <3>. QED  BY <3>1, <3>2
  <2>3. IF Taking.qty > 0 /\ Taking.tif = "Ioc"
        THEN execCh' = Append(execCh, Canceled(Taking.id)) ELSE execCh' = execCh
    BY <1>3, <1>6, <2>1
  <2>4. RestOf(orders)' = IF Taking.qty > 0 /\ Taking.tif # "Ioc"
                          THEN With(RestOf(orders), Taking.id,
                                    [side |-> Taking.side, price |-> Taking.price,
                                     leaves |-> Taking.qty])
                          ELSE RestOf(orders)
    BY <2>1, <2>2
  <2>. QED  BY <1>4, <2>1, <2>3, <2>4, AbstractRest
<1>7. CASE taker.owner # "Ours"
  <2>1. Taking = NoTaker
    BY <1>7 DEF Taking
  <2>2. RestOf(orders)' = RestOf(orders)
    <3>1. RestOf(With(orders, taker.id, o)) = RestOf(orders)
      BY <1>2, <1>5, <1>7, RestAdded
    <3>. QED  BY <1>3, <3>1
  <2>3. execCh' = execCh
    BY <1>3, <1>7
  <2>. QED  BY <1>4, <2>1, <2>2, <2>3, AbstractStill
<1>. QED  BY <1>6, <1>7

(* A command of ours handled is one handled by the abstract venue. *)
LEMMA HandleImplements ==
  ASSUME VInv, HandleOurOrder
  PROVE  Venue!VenueNext
<1>0. MatchingOK /\ CommandsOK /\ TakerOK
  BY DEF VInv, MatchingOK
<1>1. PICK m : m = Head(orderCh)
  OBVIOUS
<1>2. /\ orderCh # <<>> /\ orderCh' = Tail(orderCh) /\ pc = "idle"
      /\ IF m.cmd = "New" THEN RejectOrder(OurOrder(m)) \/ AcceptOrder(OurOrder(m))
         ELSE CancelOrder("Ours", m.id)
  BY <1>1 DEF HandleOurOrder, RejectOrder, AcceptOrder, CancelOrder
<1>3. m \in NewCmds \cup CancelCmds
  <2>1. orderCh \in Seq(NewCmds \cup CancelCmds)
    BY <1>0 DEF CommandsOK
  <2>. QED  BY <1>1, <1>2, <2>1
<1>4. Taking = NoTaker
  BY <1>2 DEF Taking
<1>5. CASE m.cmd = "New"
  <2>1. m \in NewCmds
    BY <1>3, <1>5 DEF CancelCmds
  <2>2. PICK o : o = OurOrder(m)
    OBVIOUS
  <2>3. /\ o.owner = "Ours" /\ o.id = m.id /\ o.side = m.side /\ o.price = m.price
        /\ o.qty = m.qty /\ o.tif = m.tif
    BY <2>2 DEF OurOrder
  <2>4. ~Invalid(o)
    <3>1. o.qty \in Nat \ {0}
      BY <2>1, <2>3, SimVenueAssumption DEF NewCmds
    <3>2. o.id \notin DOMAIN orders
      <4>1. 1 \in 1..Len(orderCh) /\ m = orderCh[1]
        BY <1>0, <1>1, <1>2 DEF CommandsOK
      <4>. QED  BY <1>0, <1>5, <2>3, <4>1 DEF CommandsOK, InUse
    <3>. QED  BY <3>1, <3>2 DEF Invalid
  <2>5. CASE RejectOrder(o)
    <3>1. /\ m.tif = "PostOnly" /\ orders' = orders /\ pc' = pc
          /\ execCh' = Append(execCh, Rejected(m.id, "WouldCross"))
      BY <2>3, <2>4, <2>5 DEF RejectOrder, WouldCross, Report
    <3>2. Taking' = Taking /\ RestOf(orders)' = RestOf(orders)
      BY <1>2, <1>4, <3>1 DEF Taking
    <3>. QED  BY <1>1, <1>2, <1>4, <1>5, <3>1, <3>2, AbstractReject
  <2>6. CASE AcceptOrder(o)
    <3>1. /\ orders' = orders /\ pc' = "match" /\ taker' = o
          /\ execCh' = Append(execCh, Ack(m.id))
      BY <2>3, <2>6 DEF AcceptOrder, Report
    <3>2. Taking' = m
      <4>1. m = [cmd |-> "New", id |-> m.id, side |-> m.side,
                 price |-> m.price, qty |-> m.qty, tif |-> m.tif]
        BY <2>1 DEF NewCmds
      <4>2. Taking' = [cmd |-> "New", id |-> o.id, side |-> o.side,
                       price |-> o.price, qty |-> o.qty, tif |-> o.tif]
        BY <2>3, <3>1 DEF Taking
      <4>. QED  BY <2>3, <4>1, <4>2
    <3>3. RestOf(orders)' = RestOf(orders)
      BY <3>1
    <3>. QED  BY <1>1, <1>2, <1>4, <1>5, <3>1, <3>2, <3>3, AbstractAccept
  <2>. QED  BY <1>2, <1>5, <2>2, <2>5, <2>6
<1>6. CASE m.cmd # "New"
  <2>1. m.cmd = "Cancel" /\ CancelOrder("Ours", m.id)
    BY <1>2, <1>3, <1>6 DEF NewCmds, CancelCmds
  <2>2. Taking' = Taking
    BY <1>2, <1>4, <2>1 DEF CancelOrder, Taking
  <2>3. CASE m.id \in DOMAIN orders /\ orders[m.id].owner = "Ours"
    <3>1. orders' = Without(orders, m.id) /\ execCh' = Append(execCh, Canceled(m.id))
      BY <2>1, <2>3 DEF CancelOrder, Report
    <3>2. orders[m.id].leaves > 0
      <4>1. orders[m.id].leaves # 0
        BY <1>0, <1>2, <2>3 DEF MatchingOK, NoneFilled
      <4>2. orders[m.id].leaves \in Nat
        BY <1>0, <2>3, TablesTyped DEF MatchingOK, BookOK
      <4>. QED  BY <4>1, <4>2
    <3>3. m.id \in OursOf(orders)
      BY <2>3, <3>2 DEF OursOf
    <3>4. RestOf(orders)' = Without(RestOf(orders), m.id)
      BY <3>1, RestGone
    <3>. QED  BY <1>1, <1>2, <1>4, <2>1, <2>2, <3>1, <3>3, <3>4, AbstractCancel
  <2>4. CASE ~(m.id \in DOMAIN orders /\ orders[m.id].owner = "Ours")
    <3>1. orders' = orders /\ execCh' = Append(execCh, Rejected(m.id, "UnknownOrder"))
      BY <2>1, <2>4 DEF CancelOrder, Report
    <3>2. m.id \notin OursOf(orders)
      BY <2>4 DEF OursOf
    <3>3. RestOf(orders)' = RestOf(orders)
      BY <3>1
    <3>. QED  BY <1>1, <1>2, <1>4, <2>1, <2>2, <3>1, <3>2, <3>3, AbstractCancel
  <2>. QED  BY <2>3, <2>4
<1>. QED  BY <1>5, <1>6

(* What the background asks for is not seen. *)
LEMMA BgImplements ==
  ASSUME VInv, BgPassive \/ BgAggressive \/ BgCancel
  PROVE  UNCHANGED Venue!venueVars
<1>1. orderCh' = orderCh
  BY DEF BgPassive, BgAggressive, BgCancel
<1>2. CASE BgPassive \/ BgAggressive
  <2>1. PICK side, price, qty, tif : AcceptOrder(BgOrder(side, price, qty, tif))
    BY <1>2 DEF BgPassive, BgAggressive
  <2>2. /\ orders' = orders /\ pc = "idle" /\ execCh' = execCh
        /\ taker'.owner # "Ours"
    BY <2>1 DEF AcceptOrder, BgOrder, Report
  <2>3. Taking' = Taking /\ RestOf(orders)' = RestOf(orders)
    BY <2>2 DEF Taking
  <2>. QED  BY <1>1, <2>2, <2>3, AbstractStill
<1>3. CASE BgCancel
  <2>1. PICK id : CancelOrder("Bg", id)
    BY <1>3 DEF BgCancel
  <2>2. execCh' = execCh /\ pc = "idle" /\ pc' = "idle"
    BY <2>1 DEF CancelOrder, Report
  <2>3. Taking' = Taking
    BY <2>2 DEF Taking
  <2>4. RestOf(orders)' = RestOf(orders)
    <3>1. CASE id \in DOMAIN orders /\ orders[id].owner = "Bg"
      <4>1. orders' = Without(orders, id)
        BY <2>1, <3>1 DEF CancelOrder
      <4>2. OursOf(orders') = OursOf(orders) /\ \A i \in OursOf(orders) : orders'[i] = orders[i]
        BY <3>1, <4>1 DEF OursOf, Without
      <4>. QED  BY <4>2, RestSame
    <3>2. CASE ~(id \in DOMAIN orders /\ orders[id].owner = "Bg")
      BY <2>1, <3>2 DEF CancelOrder
    <3>. QED  BY <3>1, <3>2
  <2>. QED  BY <1>1, <2>2, <2>3, <2>4, AbstractStill
<1>. QED  BY <1>2, <1>3

(* Step by step. *)
LEMMA ImplementsStep ==
  VInv /\ [Next]_vars =>
    [Venue!VenueNext \/ EngineStep]_(Venue!venueVars)
<1>. SUFFICES ASSUME VInv, [Next]_vars
              PROVE  Venue!VenueNext \/ EngineStep \/ UNCHANGED Venue!venueVars
  OBVIOUS
<1>0. MatchingOK
  BY DEF VInv
<1>1. CASE EngineSends \/ EnginePolls
  BY <1>1 DEF EngineStep
<1>2. CASE HandleOurOrder
  BY <1>2, HandleImplements
<1>3. CASE BgPassive \/ BgAggressive \/ BgCancel
  BY <1>3, BgImplements
<1>4. CASE Matches
  <2>1. Match /\ orderCh' = orderCh
    BY <1>4 DEF Matches
  <2>. QED  BY <1>0, <2>1, PassImplements, MakerImplements, TakerImplements,
              FinishImplements DEF Match
<1>5. CASE UNCHANGED vars
  <2>1. orders' = orders /\ pc' = pc /\ taker' = taker /\ UNCHANGED <<orderCh, execCh>>
    BY <1>5 DEF vars, matchingVars
  <2>2. Taking' = Taking /\ RestOf(orders)' = RestOf(orders)
    BY <2>1 DEF Taking
  <2>. QED  BY <2>1, <2>2, AbstractStill
<1>. QED  BY <1>1, <1>2, <1>3, <1>4, <1>5 DEF Next

(* Initially nothing rests and nothing is under way. *)
LEMMA ImplementsInit == Init => Venue!VenueInit
<1>. SUFFICES ASSUME Init PROVE Venue!VenueInit
  OBVIOUS
<1>1. /\ orderCh = <<>> /\ execCh = <<>> /\ pc = "idle" /\ DOMAIN orders = {}
  BY DEF Init, MatchingInit, Empty
<1>2. OursResting = {}
  BY <1>1 DEF OursResting
<1>. QED  BY <1>1, <1>2 DEF Venue!VenueInit

(* Every step of the venue thread is one of the abstract venue of order    *)
(* entry, one of the engine thread's, or changes nothing they see: what is *)
(* proved of order entry over OrderVenue is true of this venue.            *)
THEOREM VenueImplemented == Spec => ImplementsOrderVenue
BY VenueInvariant, ImplementsInit, ImplementsStep, PTL DEF Spec, ImplementsOrderVenue

-----------------------------------------------------------------------------
(* The loops of submit make progress. *)

(* The measure is lexicographic. *)
LEMMA LessAt ==
  ASSUME NEW w, NEW v,
         \/ w[1] < v[1]
         \/ w[1] = v[1] /\ w[2] < v[2]
         \/ w[1] = v[1] /\ w[2] = v[2] /\ w[3] < v[3]
  PROVE  LessWork(w, v)
<1>1. CASE w[1] < v[1]
  BY <1>1 DEF LessWork
<1>2. CASE w[1] = v[1] /\ w[2] < v[2]
  <2>1. \A j \in 1..(2 - 1) : j = 1
    OBVIOUS
  <2>. QED  BY <1>2, <2>1 DEF LessWork
<1>3. CASE w[1] = v[1] /\ w[2] = v[2] /\ w[3] < v[3]
  <2>1. \A j \in 1..(3 - 1) : j = 1 \/ j = 2
    OBVIOUS
  <2>. QED  BY <1>3, <2>1 DEF LessWork
<1>. QED  BY <1>1, <1>2, <1>3

(* Its parts. *)
LEMMA WorkIs ==
  /\ Work[1] = taker.qty /\ Work[2] = Cardinality(DOMAIN levels[Facing])
  /\ Work[3] = Stage
  /\ Work'[1] = taker'.qty /\ Work'[2] = Cardinality(DOMAIN levels'[Facing'])
  /\ Work'[3] = Stage'
BY DEF Work

(* Every step of a call lessens it. *)
LEMMA ProgressStep ==
  VInv /\ [Next]_vars =>
    [pc # "idle" /\ pc' # "idle" => LessWork(Work', Work)]_<<levels, orders, pc, taker, hit>>
<1>. SUFFICES ASSUME VInv, [Next]_vars, pc # "idle", pc' # "idle",
                     ~UNCHANGED <<levels, orders, pc, taker, hit>>
              PROVE  LessWork(Work', Work)
  OBVIOUS
<1>0. MatchingOK /\ TakerOK /\ LevelsOK(levels) /\ taker \in Taker
      /\ taker.qty \in Nat /\ taker.side \in Side /\ Facing \in Side
  <2>1. MatchingOK /\ TakerOK /\ LevelsOK(levels) /\ taker \in Taker
    BY DEF VInv, MatchingOK, BookOK, TakerOK
  <2>2. taker.qty \in Nat /\ taker.side \in Side
    BY <2>1 DEF Taker
  <2>. QED  BY <2>1, <2>2, SideIs DEF Facing
<1>1. CASE EnterLevel
  <2>1. Stage = 3 /\ Stage' = 2
    BY <1>1 DEF EnterLevel, Stage
  <2>2. taker' = taker /\ levels' = levels /\ Facing' = Facing
    BY <1>1 DEF EnterLevel, Facing
  <2>. QED  BY <2>1, <2>2, WorkIs, LessAt
<1>2. CASE MakerFill
  <2>1. Stage = 2 /\ Stage' = 1
    BY <1>2 DEF MakerFill, Stage
  <2>2. taker' = taker /\ Facing' = Facing
    BY <1>2 DEF MakerFill, Facing
  <2>3. Hitting
    BY <1>2 DEF MakerFill, Hitting
  <2>4. Touch \in DOMAIN levels[Facing] /\ Touch \in Prices
    BY <1>0, <2>3, TouchIs
  <2>5. PICK lv : levels' = SetLevel(Facing, Touch, lv)
    BY <1>2 DEF MakerFill
  <2>6. SetAt(SetLev(levels, Facing, Touch, lv), levels, Facing, Touch, lv)
    BY <1>0, <2>4, SetLevIs
  <2>7. DOMAIN levels'[Facing] = DOMAIN levels[Facing]
    BY <1>0, <2>4, <2>5, <2>6 DEF SetAt, SetLev, SetLevel
  <2>. QED  BY <2>1, <2>2, <2>7, WorkIs, LessAt
<1>3. CASE TakerFill
  <2>1. hit \in 1..taker.qty /\ taker' = [taker EXCEPT !.qty = taker.qty - hit]
    BY <1>0, <1>3 DEF TakerFill, TakerOK
  <2>2. taker'.qty = taker.qty - hit
    BY <1>0, <2>1 DEF Taker
  <2>3. taker'.qty < taker.qty
    BY <1>0, <2>1, <2>2
  <2>. QED  BY <2>3, WorkIs, LessAt
<1>4. CASE LeaveLevel
  <2>1. taker' = taker /\ Facing' = Facing /\ Hitting /\ pc = "maker" /\ pc' = "match"
    BY <1>4 DEF LeaveLevel, Facing, Hitting
  <2>2. Touch \in DOMAIN levels[Facing]
    BY <1>0, <2>1, TouchIs
  <2>3. CASE TouchLevel.queue = <<>>
    <3>1. levels' = DropLev(levels, Facing, Touch)
      BY <1>4, <2>3 DEF LeaveLevel, LevelsLeft, DropLevel, DropLev
    <3>2. DropAt(DropLev(levels, Facing, Touch), levels, Facing, Touch)
      BY <1>0, DropLevIs
    <3>3. DOMAIN levels'[Facing] = DOMAIN levels[Facing] \ {Touch}
      BY <1>0, <3>1, <3>2 DEF DropAt
    <3>4. IsFiniteSet(DOMAIN levels[Facing])
      BY <1>0 DEF LevelsOK
    <3>5. /\ Cardinality(DOMAIN levels[Facing] \ {Touch}) = Cardinality(DOMAIN levels[Facing]) - 1
          /\ Cardinality(DOMAIN levels[Facing]) \in Nat
      BY <2>2, <3>4, FS_RemoveElement, FS_CardinalityType
    <3>. QED  BY <2>1, <3>3, <3>5, WorkIs, LessAt
  <2>4. CASE TouchLevel.queue # <<>>
    <3>1. levels' = levels /\ taker.qty = 0
      BY <1>4, <2>4 DEF LeaveLevel, LevelsLeft
    <3>2. Stage = 2 /\ Stage' = 0
      BY <2>1, <3>1 DEF Stage
    <3>. QED  BY <2>1, <3>1, <3>2, WorkIs, LessAt
  <2>. QED  BY <2>3, <2>4
<1>5. CASE Finish
  BY <1>5 DEF Finish
<1>6. CASE HandleOurOrder \/ BgPassive \/ BgAggressive \/ BgCancel
  BY <1>6 DEF HandleOurOrder, BgPassive, BgAggressive, BgCancel, RejectOrder, AcceptOrder,
              CancelOrder
<1>7. CASE EngineSends \/ EnginePolls \/ UNCHANGED vars
  BY <1>7 DEF EngineSends, EnginePolls, vars, matchingVars
<1>. QED  BY <1>1, <1>2, <1>3, <1>4, <1>5, <1>6, <1>7 DEF Next, Matches, Match

(* The nested loops of submit end: a lexicographic measure decreases with  *)
(* every step of a call.                                                   *)
THEOREM SubmitEnds == Spec => SubmitProgresses
BY VenueInvariant, ProgressStep, PTL DEF Spec, SubmitProgresses

=============================================================================
