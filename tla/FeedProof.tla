------------------------------ MODULE FeedProof ------------------------------
(***************************************************************************)
(* For every venue, protocol, book and size of the ring, and however often *)
(* the feed reconnects: every message the feed drops is a gap the engine   *)
(* counts, the engine's book is the map of levels its messages make, and   *)
(* it is the venue's book where the messages tell it and none was lost.    *)
(*                                                                         *)
(* That dropped messages are the numbers missing between the engine's last *)
(* message, the ring and the emitter's last number is not inductive: it    *)
(* has to be known that the ring's numbers ascend from beyond the engine's *)
(* last one, and that the first message of all is never dropped, since the *)
(* engine counts no gap in front of it.                                    *)
(*                                                                         *)
(* For the book, the ladders have to stay strictly sorted: only then does  *)
(* the search find the one place of a price, whatever part of the ladder   *)
(* is scanned and whatever part bisected.  And what the adapters make of   *)
(* the frames the venues send has to be messages the book knows, with a    *)
(* price and a quantity that is not negative.                              *)
(*                                                                         *)
(* For the venue's book, the book is followed along the messages on their  *)
(* way: the sizes they make of it one after the other, through the ring    *)
(* and the messages not pushed yet, have to meet the venue's book at every *)
(* end of a batch, and at their own end as far as sync says.  A frame then *)
(* only has to lead from one book of the venue to the next.                *)
(***************************************************************************)
EXTENDS Feed, Lemmas

Counters == /\ seq \in Nat /\ dropped \in Nat
            /\ last_seq \in Nat /\ md_gaps \in Nat

IsSequence(r) == \E S : r \in Seq(S)

(* The numbers in the ring are behind the engine's and up to the emitter's. *)
Ascends(r, low, high) ==
  /\ low <= high
  /\ \A i \in 1..Len(r) : r[i].seq \in Nat /\ low < r[i].seq /\ r[i].seq <= high
  /\ \A i, j \in 1..Len(r) : i < j => r[i].seq < r[j].seq

(* Before its first message the engine is owed number 1. *)
FirstIsKept(r, low, high) ==
  low = 0 => IF r = <<>> THEN high = 0 ELSE r[1].seq = 1

IInv == /\ Counters
        /\ IsSequence(ring)
        /\ Ascends(ring, last_seq, seq)
        /\ FirstIsKept(ring, last_seq, seq)
        /\ GapsCountDrops

numbered == <<seq, dropped, ring, last_seq, md_gaps>>

LEMMA InitNumbered == Init => IInv
<1>. SUFFICES ASSUME Init PROVE IInv
  OBVIOUS
<1>1. /\ seq = 0 /\ dropped = 0 /\ last_seq = 0 /\ md_gaps = 0
      /\ ring = <<>>
  BY DEF Init
<1>2. IsSequence(ring)
  BY <1>1, ring \in Seq({}) DEF IsSequence
<1>3. Len(ring) = 0
  BY <1>1
<1>4. Ascends(ring, last_seq, seq)
  BY <1>1, <1>3 DEF Ascends
<1>5. FirstIsKept(ring, last_seq, seq)
  BY <1>1 DEF FirstIsKept
<1>6. GapsCountDrops
  <2>1. 0 = 0 + (0 - 0 - 0)
    OBVIOUS
  <2>. QED  BY <1>1, <1>3, <2>1, Zenon DEF GapsCountDrops
<1>7. Counters
  BY <1>1 DEF Counters
<1>. QED  BY <1>2, <1>4, <1>5, <1>6, <1>7 DEF IInv

(* Appending the next number. *)
LEMMA AppendNumbered ==
  ASSUME NEW r, NEW low \in Nat, NEW high \in Nat, NEW e,
         IsSequence(r), Ascends(r, low, high), FirstIsKept(r, low, high),
         e.seq = high + 1
  PROVE  /\ IsSequence(Append(r, e))
         /\ Len(Append(r, e)) = Len(r) + 1
         /\ Ascends(Append(r, e), low, high + 1)
         /\ FirstIsKept(Append(r, e), low, high + 1)
<1>. DEFINE t == Append(r, e)
<1>1. PICK S : r \in Seq(S)
  BY DEF IsSequence
<1>2. r \in Seq(S \cup {e})
  BY <1>1
<1>3. /\ t \in Seq(S \cup {e}) /\ Len(t) = Len(r) + 1 /\ Len(r) \in Nat
      /\ \A i \in 1..Len(r) : t[i] = r[i]
      /\ t[Len(r) + 1] = e
  BY <1>2
<1>. HIDE DEF t
<1>4. IsSequence(t)
  BY <1>3 DEF IsSequence
<1>5. ASSUME NEW i \in 1..Len(t)
      PROVE  t[i].seq \in Nat /\ low < t[i].seq /\ t[i].seq <= high + 1
  <2>1. CASE i = Len(r) + 1
    BY <2>1, <1>3 DEF Ascends
  <2>2. CASE i \in 1..Len(r)
    BY <2>2, <1>3 DEF Ascends
  <2>. QED  BY <2>1, <2>2, <1>3
<1>6. ASSUME NEW i \in 1..Len(t), NEW j \in 1..Len(t), i < j
      PROVE  t[i].seq < t[j].seq
  <2>1. i \in 1..Len(r)
    BY <1>3, <1>6
  <2>2. CASE j = Len(r) + 1
    BY <2>1, <2>2, <1>3 DEF Ascends
  <2>3. CASE j \in 1..Len(r)
    BY <2>1, <2>3, <1>3, <1>6 DEF Ascends
  <2>. QED  BY <2>2, <2>3, <1>3
<1>7. FirstIsKept(t, low, high + 1)
  <2>. SUFFICES ASSUME low = 0 PROVE t[1].seq = 1
    BY <1>3 DEF FirstIsKept
  <2>1. CASE r = <<>>
    BY <2>1, <1>3 DEF FirstIsKept
  <2>2. CASE r # <<>>
    <3>1. 1 \in 1..Len(r)
      BY <2>2, <1>1
    <3>. QED  BY <3>1, <2>2, <1>3 DEF FirstIsKept
  <2>. QED  BY <2>1, <2>2
<1>. QED
  BY <1>3, <1>4, <1>5, <1>6, <1>7 DEF Ascends, t

(* A push uses up a number, in the ring or among the dropped ones. *)
LEMMA PushNumbered == IInv /\ Push => IInv'
<1>. SUFFICES ASSUME IInv, Push PROVE IInv'
  OBVIOUS
<1>. USE DEF IInv, Counters
<1>1. /\ seq' = seq + 1
      /\ last_seq' = last_seq /\ md_gaps' = md_gaps
  BY DEF Push, engineVars
<1>2. Len(ring) \in Nat /\ (ring = <<>> <=> Len(ring) = 0)
  BY DEF IsSequence
<1>3. CASE HasRoom
  <2>1. PICK e : e.seq = seq + 1 /\ ring' = Append(ring, e)
    <3>1. Entry(Head(pending), seq', Len(pending) = 1).seq = seq + 1
      BY <1>1 DEF Entry
    <3>. QED  BY <3>1, <1>3 DEF Push
  <2>2. dropped' = dropped
    BY <1>3 DEF Push
  <2>3. /\ IsSequence(ring') /\ Len(ring') = Len(ring) + 1
        /\ Ascends(ring', last_seq, seq + 1)
        /\ FirstIsKept(ring', last_seq, seq + 1)
    BY <2>1, AppendNumbered
  <2>4. GapsCountDrops'
    BY <1>1, <1>2, <2>2, <2>3 DEF GapsCountDrops
  <2>. QED  BY <1>1, <2>2, <2>3, <2>4
<1>4. CASE ~HasRoom
  <2>1. ring' = ring /\ dropped' = dropped + 1
    BY <1>4 DEF Push
  <2>2. ring # <<>>
    BY <1>4, <1>2, FeedAssumption DEF HasRoom
  <2>3. Ascends(ring, last_seq, seq + 1) /\ FirstIsKept(ring, last_seq, seq + 1)
    BY <2>2 DEF Ascends, FirstIsKept
  <2>4. GapsCountDrops'
    BY <1>1, <1>2, <2>1 DEF GapsCountDrops
  <2>. QED  BY <1>1, <2>1, <2>3, <2>4
<1>. QED  BY <1>3, <1>4

(* The engine counts the numbers between its last message and this one. *)
LEMMA OnMdNumbered == IInv /\ OnMd => IInv'
<1>. SUFFICES ASSUME IInv, OnMd PROVE IInv'
  OBVIOUS
<1>. USE DEF IInv, Counters
<1>1. /\ ring # <<>> /\ ring' = Tail(ring)
      /\ last_seq' = Head(ring).seq /\ md_gaps' = md_gaps + Missed(Head(ring).seq)
      /\ seq' = seq /\ dropped' = dropped
  BY DEF OnMd
<1>2. PICK S : ring \in Seq(S)
  BY DEF IsSequence
<1>3. /\ Len(ring) \in Nat /\ Len(ring) > 0 /\ Head(ring) = ring[1]
      /\ ring' \in Seq(S) /\ Len(ring') = Len(ring) - 1
      /\ \A i \in 1..Len(ring') : ring'[i] = ring[i + 1]
  BY <1>1, <1>2
<1>. DEFINE n == ring[1].seq
<1>4. n \in Nat /\ last_seq < n /\ n <= seq
  BY <1>3 DEF Ascends
<1>5. md_gaps' = md_gaps + (n - last_seq - 1)
  <2>1. CASE last_seq = 0
    BY <2>1, <1>1, <1>3 DEF Missed, FirstIsKept
  <2>2. CASE last_seq # 0
    BY <2>2, <1>1, <1>3, <1>4 DEF Missed
  <2>. QED  BY <2>1, <2>2
<1>6. last_seq' = n
  BY <1>1, <1>3
<1>7. Ascends(ring', n, seq)
  <2>1. ASSUME NEW i \in 1..Len(ring')
        PROVE  /\ i \in 1..Len(ring) /\ i + 1 \in 1..Len(ring)
               /\ ring'[i] = ring[i + 1]
    BY <2>1, <1>3
  <2>2. 1 \in 1..Len(ring)
    BY <1>3
  <2>3. ASSUME NEW i \in 1..Len(ring')
        PROVE  ring'[i].seq \in Nat /\ n < ring'[i].seq /\ ring'[i].seq <= seq
    <3>1. 1 < i + 1
      BY <1>3
    <3>. QED  BY <2>1, <2>2, <3>1 DEF Ascends
  <2>4. ASSUME NEW i \in 1..Len(ring'), NEW j \in 1..Len(ring'), i < j
        PROVE  ring'[i].seq < ring'[j].seq
    <3>1. i + 1 < j + 1
      BY <1>3, <2>4
    <3>. QED  BY <2>1, <3>1 DEF Ascends
  <2>. QED  BY <1>4, <2>3, <2>4 DEF Ascends
<1>8. GapsCountDrops'
  BY <1>1, <1>3, <1>4, <1>5, <1>6 DEF GapsCountDrops
<1>9. IsSequence(ring') /\ FirstIsKept(ring', n, seq)
  BY <1>3, <1>4 DEF IsSequence, FirstIsKept
<1>. QED  BY <1>1, <1>4, <1>5, <1>6, <1>7, <1>8, <1>9

(* Nothing else touches the numbers. *)
LEMMA OthersNumbered ==
  ASSUME [Next]_vars, ~Push, ~OnMd
  PROVE  UNCHANGED numbered
<1>. USE DEF numbered, engineVars, emitterVars
<1>1. CASE LoopHead \/ Connect \/ SessionHead \/ Timeout \/ Fail \/ Stop
  BY <1>1 DEF LoopHead, Connect, SessionHead, Timeout, Fail, Stop
<1>2. CASE VenueMovesUnseen
  BY <1>2 DEF VenueMovesUnseen
<1>3. ASSUME NEW f, OnFrame(f) PROVE UNCHANGED numbered
  BY <1>3 DEF OnFrame
<1>4. CASE UpdateFrame
  BY <1>4, <1>3 DEF UpdateFrame
<1>5. CASE SnapshotFrame
  BY <1>5, <1>3 DEF SnapshotFrame
<1>6. CASE TradePrint
  BY <1>6, <1>3 DEF TradePrint
<1>7. CASE ControlFrame
  BY <1>7, <1>3 DEF ControlFrame
<1>8. CASE UNCHANGED vars
  BY <1>8 DEF vars
<1>. QED
  BY <1>1, <1>2, <1>4, <1>5, <1>6, <1>7, <1>8 DEF Next, FeedThread

LEMMA NextNumbered == IInv /\ [Next]_vars => IInv'
<1>. SUFFICES ASSUME IInv, [Next]_vars PROVE IInv'
  OBVIOUS
<1>1. CASE Push
  BY <1>1, PushNumbered
<1>2. CASE OnMd
  BY <1>2, OnMdNumbered
<1>3. CASE ~Push /\ ~OnMd
  <2>1. UNCHANGED numbered
    BY <1>3, OthersNumbered
  <2>. QED
    BY <2>1 DEF numbered, IInv, Counters, GapsCountDrops
<1>. QED  BY <1>1, <1>2, <1>3

(* Every message dropped for want of room is a gap the engine has counted  *)
(* or counts at the next message that gets through (emit.rs:70-78,         *)
(* engine.rs:139-142).                                                     *)
THEOREM GapsCounted == Spec => []GapsCountDrops
<1>1. IInv => GapsCountDrops
  BY DEF IInv
<1>. QED
  BY InitNumbered, NextNumbered, <1>1, PTL DEF Spec

-----------------------------------------------------------------------------
(* Ladders: the search of a level, a change at one price and a cut keep a  *)
(* ladder sorted and do to its levels what they say.                       *)

Levels == [price : Int, qty : Nat \ {0}]

(* The key of a place. *)
KeyAt(side, l, i) == Key(side, l[i].price)

Sorted(side, l) ==
  /\ l \in Seq(Levels)
  /\ \A i, j \in 1..Len(l) : i < j => KeyAt(side, l, i) < KeyAt(side, l, j)

LEMMA MaxIs ==
  ASSUME NEW n \in Nat, NEW S, S \subseteq 0..n, S # {}
  PROVE  Max(S) \in S /\ \A y \in S : Max(S) >= y
<1>1. \E m \in S : \A k \in S : k <= m
  BY GreatestNat
<1>2. \E m \in S : \A y \in S : m >= y
  BY <1>1
<1>. QED  BY <1>2 DEF Max

LEMMA KeyIs ==
  ASSUME NEW side \in Side, NEW p \in Int, NEW q \in Int
  PROVE  /\ Key(side, p) \in Int
         /\ Key(side, p) = Key(side, q) <=> p = q
         /\ Key(side, p) > Key(side, q) <=>
              IF side = "Buy" THEN p > q ELSE p < q
BY DEF Key, Sign, Side

LEMMA SortedAt ==
  ASSUME NEW side \in Side, NEW l, Sorted(side, l)
  PROVE  /\ Len(l) \in Nat /\ DOMAIN l = 1..Len(l) /\ l \in Seq(Levels)
         /\ \A i \in 1..Len(l) : /\ l[i] \in Levels
                                 /\ l[i].price \in Int /\ l[i].qty \in Nat \ {0}
                                 /\ KeyAt(side, l, i) \in Int
         /\ \A i, j \in 1..Len(l) : i < j => KeyAt(side, l, i) < KeyAt(side, l, j)
<1>1. l \in Seq(Levels)
  BY DEF Sorted
<1>2. \A i \in 1..Len(l) : l[i] \in Levels
  BY <1>1
<1>3. \A i \in 1..Len(l) : l[i].price \in Int /\ l[i].qty \in Nat \ {0}
  BY <1>2 DEF Levels
<1>4. \A i \in 1..Len(l) : KeyAt(side, l, i) \in Int
  BY <1>3, KeyIs DEF KeyAt
<1>. QED  BY <1>1, <1>2, <1>3, <1>4 DEF Sorted

(* A place is right for a price if it has it, or all before it are worse   *)
(* and all behind it better.                                               *)
RightPlace(side, l, price, place) ==
  IF place.found
  THEN place.at \in 1..Len(l) /\ l[place.at].price = price
  ELSE /\ place.at \in 0..Len(l)
       /\ \A i \in 1..Len(l) :
            IF i <= place.at THEN KeyAt(side, l, i) < Key(side, price)
            ELSE KeyAt(side, l, i) > Key(side, price)

(* The levels worse than a key are a beginning of the ladder. *)
LEMMA WorseIsPrefix ==
  ASSUME NEW side \in Side, NEW l, Sorted(side, l), NEW n \in 0..Len(l),
         NEW k \in Int
  PROVE  /\ Cardinality({i \in 1..n : KeyAt(side, l, i) < k}) \in 0..n
         /\ \A i \in 1..n :
              KeyAt(side, l, i) < k <=>
                i <= Cardinality({j \in 1..n : KeyAt(side, l, j) < k})
<1>. DEFINE B == {i \in 1..n : KeyAt(side, l, i) < k}
<1>0. Len(l) \in Nat /\ n \in Nat /\ \A i \in 1..Len(l) : KeyAt(side, l, i) \in Int
  BY SortedAt
<1>1. PICK m \in 0..n : B = 1..m
  <2>1. CASE B = {}
    <3>1. B = 1..0 /\ 0 \in 0..n
      BY <2>1, <1>0
    <3>. QED  BY <3>1
  <2>2. CASE B # {}
    <3>1. B \subseteq 0..n
      BY <1>0
    <3>. HIDE DEF B
    <3>2. PICK m \in B : \A j \in B : j <= m
      BY <2>2, <3>1, <1>0, GreatestNat
    <3>. USE DEF B
    <3>3. \A i \in 1..m : KeyAt(side, l, i) < k
      BY <3>2, <1>0, SortedAt
    <3>4. B = 1..m /\ m \in 0..n
      BY <3>2, <3>3, <1>0
    <3>. QED  BY <3>4
  <2>. QED  BY <2>1, <2>2
<1>. HIDE DEF B
<1>2. Cardinality(B) = m
  <2>1. 1 \in Int /\ m \in Int
    BY <1>0
  <2>2. Cardinality(1..m) = IF 1 > m THEN 0 ELSE m - 1 + 1
    BY <2>1, FS_Interval
  <2>. QED  BY <2>2, <1>1
<1>3. \A i \in 1..n : KeyAt(side, l, i) < k <=> i <= m
  BY <1>0, <1>1 DEF B
<1>. QED  BY <1>1, <1>2, <1>3 DEF B

(* The bisection of the first n levels, when those behind are better. *)
LEMMA BinarySearchIsRight ==
  ASSUME NEW side \in Side, NEW l, Sorted(side, l), NEW price \in Int,
         NEW n \in 0..Len(l),
         \A i \in 1..Len(l) : i > n => KeyAt(side, l, i) > Key(side, price)
  PROVE  RightPlace(side, l, price,
                    BinarySearch(side, SubSeq(l, 1, n), Key(side, price)))
<1>. DEFINE k == Key(side, price)
            s == SubSeq(l, 1, n)
            Same == {i \in DOMAIN s : Key(side, s[i].price) = k}
            Below == {i \in DOMAIN s : Key(side, s[i].price) < k}
<1>0. /\ Len(l) \in Nat /\ n \in Nat /\ k \in Int /\ l \in Seq(Levels)
      /\ \A i \in 1..Len(l) : KeyAt(side, l, i) \in Int /\ l[i].price \in Int
  BY SortedAt, KeyIs
<1>1. DOMAIN s = 1..n /\ \A i \in 1..n : s[i] = l[i]
  BY <1>0
<1>2. /\ Same = {i \in 1..n : KeyAt(side, l, i) = k}
      /\ Below = {i \in 1..n : KeyAt(side, l, i) < k}
  BY <1>1 DEF KeyAt
<1>3. BinarySearch(side, s, k) =
        IF Same = {} THEN After(Cardinality(Below)) ELSE At(Max(Same))
  BY DEF BinarySearch
<1>. HIDE DEF s, Same, Below
<1>4. CASE Same = {}
  <2>. DEFINE m == Cardinality({i \in 1..n : KeyAt(side, l, i) < k})
  <2>1. /\ m \in 0..n
        /\ \A i \in 1..n : KeyAt(side, l, i) < k <=> i <= m
    BY <1>0, WorseIsPrefix
  <2>2. BinarySearch(side, s, k) = After(m)
    BY <1>2, <1>3, <1>4
  <2>3. \A i \in 1..n : KeyAt(side, l, i) # k
    BY <1>2, <1>4
  <2>. HIDE DEF m, k
  <2>4. \A i \in 1..Len(l) : IF i <= m THEN KeyAt(side, l, i) < k
                             ELSE KeyAt(side, l, i) > k
    BY <2>1, <2>3, <1>0 DEF k
  <2>. QED  BY <2>1, <2>2, <2>4, <1>0 DEF RightPlace, After, k, s
<1>5. CASE Same # {}
  <2>1. Same \subseteq 0..n
    BY <1>2
  <2>2. Max(Same) \in Same
    BY <1>5, <2>1, <1>0, MaxIs
  <2>3. Max(Same) \in 1..Len(l) /\ KeyAt(side, l, Max(Same)) = k
    BY <2>2, <1>2, <1>0
  <2>4. l[Max(Same)].price = price
    BY <2>3, <1>0, KeyIs DEF KeyAt
  <2>. QED  BY <1>3, <1>5, <2>3, <2>4 DEF RightPlace, At, s
<1>. QED  BY <1>4, <1>5

(* However many levels are scanned one by one, the search is right. *)
LEMMA FindIsRight ==
  ASSUME NEW side \in Side, NEW l, Sorted(side, l), NEW price \in Int
  PROVE  RightPlace(side, l, price, Find(side, l, price))
<1>. DEFINE k == Key(side, price)
            lim == Max({0, Len(l) - TopScan})
            Stops == {i \in (lim + 1)..Len(l) : Key(side, l[i].price) <= k}
<1>0. /\ Len(l) \in Nat /\ TopScan \in Nat /\ k \in Int /\ DOMAIN l = 1..Len(l)
      /\ \A i \in 1..Len(l) : KeyAt(side, l, i) \in Int /\ l[i].price \in Int
      /\ \A i, j \in 1..Len(l) : i < j => KeyAt(side, l, i) < KeyAt(side, l, j)
  BY SortedAt, KeyIs, TopScanAssumption
<1>1. lim \in 0..Len(l)
  <2>1. CASE Len(l) - TopScan >= 0
    <3>1. {0, Len(l) - TopScan} \subseteq 0..Len(l) /\ {0, Len(l) - TopScan} # {}
      BY <2>1, <1>0
    <3>. QED  BY <3>1, <1>0, MaxIs
  <2>2. CASE Len(l) - TopScan < 0
    <3>1. \E x \in {0, Len(l) - TopScan} : \A y \in {0, Len(l) - TopScan} : x >= y
      BY <2>2, <1>0
    <3>2. /\ lim \in {0, Len(l) - TopScan}
          /\ \A y \in {0, Len(l) - TopScan} : lim >= y
      BY <3>1 DEF Max
    <3>. QED  BY <3>2, <2>2, <1>0
  <2>. QED  BY <2>1, <2>2, <1>0
<1>2. Find(side, l, price) =
        IF Stops = {} THEN BinarySearch(side, SubSeq(l, 1, lim), k)
        ELSE IF Key(side, l[Max(Stops)].price) = k THEN At(Max(Stops))
             ELSE After(Max(Stops))
  BY DEF Find
<1>. HIDE DEF lim
<1>s. \A i : i \in Stops <=>
               i \in 1..Len(l) /\ i > lim /\ KeyAt(side, l, i) <= k
  BY <1>0, <1>1 DEF KeyAt
<1>. HIDE DEF Stops, k
<1>3. CASE Stops = {}
  <2>1. \A i \in 1..Len(l) : i > lim => KeyAt(side, l, i) > k
    BY <1>0, <1>s, <1>3
  <2>. QED  BY <2>1, <1>1, <1>2, <1>3, BinarySearchIsRight DEF k
<1>4. CASE Stops # {}
  <2>. DEFINE m == Max(Stops)
  <2>1. Stops \subseteq 0..Len(l)
    BY <1>s
  <2>2. m \in Stops /\ \A y \in Stops : m >= y
    BY <1>4, <2>1, <1>0, MaxIs
  <2>. HIDE DEF m
  <2>3. m \in 1..Len(l) /\ m > lim /\ KeyAt(side, l, m) <= k
    BY <2>2, <1>s
  <2>4. \A i \in 1..Len(l) : i > m => KeyAt(side, l, i) > k
    <3>1. ASSUME NEW i \in 1..Len(l), i > m PROVE i \notin Stops /\ i > lim
      BY <3>1, <2>2, <2>3, <1>1
    <3>. QED  BY <3>1, <1>0, <1>s
  <2>5. CASE KeyAt(side, l, m) = k
    <3>1. Find(side, l, price) = At(m)
      BY <1>2, <1>4, <2>5 DEF KeyAt, m, k
    <3>2. l[m].price = price
      BY <2>3, <2>5, <1>0, KeyIs DEF KeyAt, k
    <3>. QED  BY <2>3, <3>1, <3>2 DEF RightPlace, At
  <2>6. CASE KeyAt(side, l, m) # k
    <3>1. Find(side, l, price) = After(m)
      BY <1>2, <1>4, <2>6 DEF KeyAt, m
    <3>2. \A i \in 1..Len(l) : i <= m => KeyAt(side, l, i) < k
      BY <2>3, <2>6, <1>0
    <3>. QED  BY <2>3, <2>4, <3>1, <3>2, <1>0 DEF RightPlace, After, k
  <2>. QED  BY <2>5, <2>6
<1>. QED  BY <1>3, <1>4

LEMMA SizeIs ==
  ASSUME NEW side \in Side, NEW l, Sorted(side, l), NEW p \in Int
  PROVE  /\ \A i \in 1..Len(l) : l[i].price = p => SizeAt(l, p) = l[i].qty
         /\ (\A i \in 1..Len(l) : l[i].price # p) => SizeAt(l, p) = 0
<1>. DEFINE There == {i \in DOMAIN l : l[i].price = p}
<1>0. /\ Len(l) \in Nat /\ DOMAIN l = 1..Len(l)
      /\ \A i \in 1..Len(l) : l[i].price \in Int /\ KeyAt(side, l, i) \in Int
      /\ \A i, j \in 1..Len(l) : i < j => KeyAt(side, l, i) < KeyAt(side, l, j)
  BY SortedAt
<1>1. ASSUME NEW i \in 1..Len(l), l[i].price = p
      PROVE  SizeAt(l, p) = l[i].qty
  <2>1. There = {i}
    <3>1. ASSUME NEW j \in There PROVE j = i
      <4>1. j \in 1..Len(l) /\ KeyAt(side, l, j) = KeyAt(side, l, i)
        BY <1>0, <1>1 DEF KeyAt
      <4>2. ~(KeyAt(side, l, j) < KeyAt(side, l, i)) /\ ~(KeyAt(side, l, i) < KeyAt(side, l, j))
        BY <4>1, <1>0
      <4>. QED  BY <4>1, <4>2, <1>0
    <3>2. i \in There
      BY <1>0, <1>1
    <3>. HIDE DEF There
    <3>. QED  BY <3>1, <3>2
  <2>2. Max({i}) = i
    <3>1. \E x \in {i} : \A y \in {i} : x >= y
      BY <1>0
    <3>. QED  BY <3>1 DEF Max
  <2>3. SizeAt(l, p) = IF There = {} THEN 0 ELSE l[Max(There)].qty
    BY DEF SizeAt
  <2>. HIDE DEF There
  <2>. QED  BY <2>1, <2>2, <2>3
<1>2. ASSUME \A i \in 1..Len(l) : l[i].price # p
      PROVE  SizeAt(l, p) = 0
  <2>1. There = {}
    BY <1>0, <1>2
  <2>. QED  BY <2>1 DEF SizeAt
<1>. QED  BY <1>1, <1>2

(* Two ladders with the same level at a price, or none, have one size. *)
LEMMA SameSize ==
  ASSUME NEW side \in Side, NEW l, Sorted(side, l), NEW t, Sorted(side, t),
         NEW p \in Int,
         \A i \in 1..Len(l) : l[i].price = p => \E j \in 1..Len(t) : t[j] = l[i],
         \A j \in 1..Len(t) : t[j].price = p => \E i \in 1..Len(l) : l[i] = t[j]
  PROVE  SizeAt(t, p) = SizeAt(l, p)
<1>1. CASE \E i \in 1..Len(l) : l[i].price = p
  BY <1>1, SizeIs
<1>2. CASE ~\E i \in 1..Len(l) : l[i].price = p
  BY <1>2, SizeIs
<1>. QED  BY <1>1, <1>2

(* The library's operators on sequences, place by place. *)
LEMMA RemoveAtIs ==
  ASSUME NEW S, NEW l \in Seq(S), NEW a \in 1..Len(l)
  PROVE  /\ RemoveAt(l, a) \in Seq(S)
         /\ Len(RemoveAt(l, a)) = Len(l) - 1
         /\ \A j \in 1..(Len(l) - 1) :
              RemoveAt(l, a)[j] = IF j < a THEN l[j] ELSE l[j + 1]
<1>1. RemoveAt(l, a) = Cut(l, a)
  BY DEF RemoveAt, Cut
<1>. QED  BY <1>1, CutIs

LEMMA InsertAtIs ==
  ASSUME NEW S, NEW l \in Seq(S), NEW a \in 0..Len(l), NEW e \in S
  PROVE  /\ InsertAt(l, a + 1, e) \in Seq(S)
         /\ Len(InsertAt(l, a + 1, e)) = Len(l) + 1
         /\ \A j \in 1..(Len(l) + 1) :
              InsertAt(l, a + 1, e)[j] =
                IF j <= a THEN l[j] ELSE IF j = a + 1 THEN e ELSE l[j - 1]
<1>. DEFINE x == SubSeq(l, 1, a)
            y == SubSeq(l, a + 1, Len(l))
            z == x \o <<e>>
            w == z \o y
<1>0. Len(l) \in Nat /\ a \in Nat
  OBVIOUS
<1>1. /\ x \in Seq(S) /\ Len(x) = a
      /\ \A j \in 1..a : x[j] = l[j]
  OBVIOUS
<1>2. /\ y \in Seq(S) /\ Len(y) = Len(l) - a
      /\ \A j \in 1..(Len(l) - a) : y[j] = l[a + j]
  OBVIOUS
<1>3. InsertAt(l, a + 1, e) = w
  <2>1. (a + 1) - 1 = a
    BY <1>0
  <2>. QED  BY <2>1 DEF InsertAt
<1>. HIDE DEF x, y
<1>4. /\ z \in Seq(S) /\ Len(z) = a + 1
      /\ \A j \in 1..a : z[j] = l[j]
      /\ z[a + 1] = e
  <2>1. z = Append(x, e)
    BY <1>1
  <2>. QED  BY <2>1, <1>0, <1>1
<1>. HIDE DEF z
<1>5. /\ w \in Seq(S) /\ Len(w) = Len(l) + 1
      /\ \A j \in 1..(Len(l) + 1) :
           w[j] = IF j <= a + 1 THEN z[j] ELSE y[j - (a + 1)]
  <2>1. /\ z \o y \in Seq(S) /\ Len(z \o y) = Len(z) + Len(y)
        /\ \A j \in 1..(Len(z) + Len(y)) :
             (z \o y)[j] = IF j <= Len(z) THEN z[j] ELSE y[j - Len(z)]
    BY <1>2, <1>4, ConcatAt
  <2>2. Len(z) + Len(y) = Len(l) + 1
    BY <1>0, <1>2, <1>4
  <2>. QED  BY <2>1, <2>2, <1>4
<1>. HIDE DEF w
<1>6. ASSUME NEW j \in 1..(Len(l) + 1)
      PROVE  w[j] =
               IF j <= a THEN l[j] ELSE IF j = a + 1 THEN e ELSE l[j - 1]
  <2>1. CASE j <= a + 1
    BY <2>1, <1>0, <1>4, <1>5
  <2>2. CASE j > a + 1
    <3>1. /\ j - (a + 1) \in 1..(Len(l) - a) /\ a + (j - (a + 1)) = j - 1
          /\ ~(j <= a + 1) /\ ~(j <= a) /\ j # a + 1
      BY <2>2, <1>0
    <3>2. w[j] = y[j - (a + 1)]
      BY <3>1, <1>5
    <3>3. y[j - (a + 1)] = l[j - 1]
      BY <3>1, <1>2
    <3>. QED  BY <3>1, <3>2, <3>3
  <2>. QED  BY <2>1, <2>2, <1>0
<1>. QED  BY <1>3, <1>5, <1>6

(* Changing a level keeps the ladder sorted and changes that level only; a *)
(* quantity of 0 removes it.                                               *)
LEMMA SetIs ==
  ASSUME NEW side \in Side, NEW l, Sorted(side, l),
         NEW price \in Int, NEW qty \in Nat
  PROVE  /\ Sorted(side, Set(side, l, price, qty))
         /\ \A p \in Int : SizeAt(Set(side, l, price, qty), p) =
              IF p = price THEN qty ELSE SizeAt(l, p)
<1>. DEFINE t == Set(side, l, price, qty)
            place == Find(side, l, price)
            a == place.at
<1>0. /\ Len(l) \in Nat /\ DOMAIN l = 1..Len(l) /\ l \in Seq(Levels)
      /\ \A i \in 1..Len(l) : /\ l[i] \in Levels
                              /\ l[i].price \in Int /\ l[i].qty \in Nat \ {0}
                              /\ KeyAt(side, l, i) \in Int
      /\ \A i, j \in 1..Len(l) : i < j => KeyAt(side, l, i) < KeyAt(side, l, j)
  BY SortedAt
<1>1. RightPlace(side, l, price, place)
  BY FindIsRight
<1>2. t = IF place.found
          THEN IF qty <= 0 THEN RemoveAt(l, a)
               ELSE ReplaceAt(l, a, Level(price, qty))
          ELSE IF qty > 0 THEN InsertAt(l, a + 1, Level(price, qty)) ELSE l
  BY DEF Set
<1>k. \A p \in Int : Key(side, p) \in Int
  BY KeyIs
<1>. HIDE DEF t, place
<1>3. CASE place.found /\ qty = 0
  <2>1. a \in 1..Len(l) /\ l[a].price = price
    BY <1>1, <1>3 DEF RightPlace
  <2>2. t = RemoveAt(l, a)
    BY <1>2, <1>3
  <2>3. /\ t \in Seq(Levels) /\ Len(t) = Len(l) - 1
        /\ \A j \in 1..(Len(l) - 1) : t[j] = IF j < a THEN l[j] ELSE l[j + 1]
    BY <2>1, <2>2, <1>0, RemoveAtIs
  <2>. HIDE DEF a
  <2>4. \A j \in 1..Len(t) :
          LET i == IF j < a THEN j ELSE j + 1
          IN i \in 1..Len(l) /\ i # a /\ t[j] = l[i]
    BY <2>1, <2>3, <1>0
  <2>5. ASSUME NEW i \in 1..Len(t), NEW j \in 1..Len(t), i < j
        PROVE  KeyAt(side, t, i) < KeyAt(side, t, j)
    <3>. DEFINE x == IF i < a THEN i ELSE i + 1
                y == IF j < a THEN j ELSE j + 1
    <3>1. /\ x \in 1..Len(l) /\ y \in 1..Len(l) /\ t[i] = l[x] /\ t[j] = l[y]
      BY <2>4
    <3>2. x < y
      BY <2>1, <2>3, <2>5, <1>0
    <3>. HIDE DEF x, y
    <3>. QED  BY <3>1, <3>2, <1>0 DEF KeyAt
  <2>6. Sorted(side, t)
    BY <2>3, <2>5 DEF Sorted
  <2>7. ASSUME NEW i \in 1..Len(l), i # a
        PROVE  \E j \in 1..Len(t) : t[j] = l[i]
    <3>1. CASE i < a
      <4>1. i \in 1..Len(t) /\ t[i] = l[i]
        BY <3>1, <2>1, <2>3, <1>0
      <4>. QED  BY <4>1
    <3>2. CASE i > a
      <4>1. i - 1 \in 1..Len(t) /\ t[i - 1] = l[(i - 1) + 1] /\ (i - 1) + 1 = i
        BY <3>2, <2>1, <2>3, <1>0
      <4>. QED  BY <4>1
    <3>. QED  BY <3>1, <3>2, <2>7, <2>1, <1>0
  <2>8. \A i \in 1..Len(l) : i # a => l[i].price # price
    BY <2>1, <1>0 DEF KeyAt
  <2>9. ASSUME NEW p \in Int
        PROVE  SizeAt(t, p) = IF p = price THEN qty ELSE SizeAt(l, p)
    <3>1. CASE p = price
      <4>1. \A j \in 1..Len(t) : t[j].price # p
        BY <3>1, <2>4, <2>8
      <4>. QED  BY <4>1, <3>1, <2>6, <1>3, SizeIs
    <3>2. CASE p # price
      <4>1. \A i \in 1..Len(l) : l[i].price = p => \E j \in 1..Len(t) : t[j] = l[i]
        BY <3>2, <2>1, <2>7
      <4>2. \A j \in 1..Len(t) : \E i \in 1..Len(l) : l[i] = t[j]
        BY <2>4
      <4>. QED  BY <3>2, <4>1, <4>2, <2>6, SameSize
    <3>. QED  BY <3>1, <3>2
  <2>. QED  BY <2>6, <2>9 DEF t
<1>4. CASE place.found /\ qty > 0
  <2>. DEFINE e == Level(price, qty)
  <2>1. a \in 1..Len(l) /\ l[a].price = price
    BY <1>1, <1>4 DEF RightPlace
  <2>2. t = [l EXCEPT ![a] = e]
    BY <1>2, <1>4 DEF ReplaceAt
  <2>e. e \in Levels /\ e.price = price /\ e.qty = qty
    BY <1>4 DEF Level, Levels
  <2>. HIDE DEF a, e
  <2>3. /\ t \in Seq(Levels) /\ Len(t) = Len(l) /\ t[a] = e
        /\ \A j \in 1..Len(l) : j # a => t[j] = l[j]
    BY <2>1, <2>2, <2>e, <1>0
  <2>4. \A j \in 1..Len(l) : KeyAt(side, t, j) = KeyAt(side, l, j)
    BY <2>1, <2>3, <2>e DEF KeyAt
  <2>5. Sorted(side, t)
    <3>1. ASSUME NEW i \in 1..Len(t), NEW j \in 1..Len(t), i < j
          PROVE  KeyAt(side, t, i) < KeyAt(side, t, j)
      BY <3>1, <2>3, <2>4, <1>0
    <3>. QED  BY <3>1, <2>3 DEF Sorted
  <2>6. ASSUME NEW p \in Int
        PROVE  SizeAt(t, p) = IF p = price THEN qty ELSE SizeAt(l, p)
    <3>1. CASE p = price
      BY <3>1, <2>1, <2>3, <2>5, <2>e, SizeIs
    <3>2. CASE p # price
      <4>1. \A i \in 1..Len(l) : l[i].price = p => t[i] = l[i]
        BY <3>2, <2>1, <2>3
      <4>2. \A i \in 1..Len(t) : t[i].price = p => t[i] = l[i]
        BY <3>2, <2>1, <2>3, <2>e
      <4>. QED  BY <3>2, <4>1, <4>2, <2>3, <2>5, SameSize
    <3>. QED  BY <3>1, <3>2
  <2>. QED  BY <2>5, <2>6 DEF t
<1>5. CASE ~place.found /\ qty > 0
  <2>. DEFINE e == Level(price, qty)
              k == Key(side, price)
  <2>1. /\ a \in 0..Len(l)
        /\ \A i \in 1..Len(l) : IF i <= a THEN KeyAt(side, l, i) < k
                                ELSE KeyAt(side, l, i) > k
    BY <1>1, <1>5 DEF RightPlace
  <2>2. t = InsertAt(l, a + 1, e)
    BY <1>2, <1>5
  <2>e. e \in Levels /\ e.price = price /\ e.qty = qty /\ k \in Int
    BY <1>5, <1>k DEF Level, Levels
  <2>. HIDE DEF a, e, k
  <2>3. /\ t \in Seq(Levels) /\ Len(t) = Len(l) + 1
        /\ \A j \in 1..(Len(l) + 1) :
             t[j] = IF j <= a THEN l[j] ELSE IF j = a + 1 THEN e ELSE l[j - 1]
    <3>1. a \in 0..Len(l) /\ l \in Seq(Levels) /\ e \in Levels
      BY <2>1, <2>e, <1>0
    <3>2. /\ InsertAt(l, a + 1, e) \in Seq(Levels)
          /\ Len(InsertAt(l, a + 1, e)) = Len(l) + 1
          /\ \A j \in 1..(Len(l) + 1) :
               InsertAt(l, a + 1, e)[j] =
                 IF j <= a THEN l[j] ELSE IF j = a + 1 THEN e ELSE l[j - 1]
      BY <3>1, InsertAtIs
    <3>. QED  BY <3>2, <2>2
  <2>4. /\ \A j \in 1..Len(t) : j <= a => j \in 1..Len(l) /\ t[j] = l[j]
        /\ \A j \in 1..Len(t) : j > a + 1 => j - 1 \in 1..Len(l) /\ t[j] = l[j - 1]
        /\ a + 1 \in 1..Len(t) /\ t[a + 1] = e
    BY <2>1, <2>3, <1>0
  <2>5. KeyAt(side, t, a + 1) = k
    BY <2>4, <2>e DEF KeyAt, k
  <2>6. /\ \A j \in 1..Len(t) : j <= a => /\ KeyAt(side, t, j) < k
                                          /\ KeyAt(side, t, j) = KeyAt(side, l, j)
        /\ \A j \in 1..Len(t) : j > a + 1 => /\ KeyAt(side, t, j) > k
                                             /\ KeyAt(side, t, j) = KeyAt(side, l, j - 1)
    <3>1. ASSUME NEW j \in 1..Len(t), j <= a
          PROVE  KeyAt(side, t, j) < k /\ KeyAt(side, t, j) = KeyAt(side, l, j)
      BY <3>1, <2>1, <2>4 DEF KeyAt
    <3>2. ASSUME NEW j \in 1..Len(t), j > a + 1
          PROVE  KeyAt(side, t, j) > k /\ KeyAt(side, t, j) = KeyAt(side, l, j - 1)
      <4>1. j - 1 \in 1..Len(l) /\ t[j] = l[j - 1] /\ ~(j - 1 <= a)
        BY <3>2, <2>1, <2>4, <2>3, <1>0
      <4>2. KeyAt(side, t, j) = KeyAt(side, l, j - 1)
        BY <4>1 DEF KeyAt
      <4>. QED  BY <4>1, <4>2, <2>1
    <3>. QED  BY <3>1, <3>2
  <2>7. ASSUME NEW i \in 1..Len(t), NEW j \in 1..Len(t), i < j
        PROVE  KeyAt(side, t, i) < KeyAt(side, t, j)
    <3>0. i \in Int /\ j \in Int /\ a \in Int
      BY <2>1, <2>3, <1>0
    <3>1. CASE j <= a
      <4>1. i \in 1..Len(l) /\ j \in 1..Len(l) /\ i <= a
        BY <3>1, <3>0, <2>7, <2>4
      <4>. QED  BY <3>1, <4>1, <2>6, <2>7, <1>0
    <3>2. CASE j = a + 1
      BY <3>0, <3>2, <2>5, <2>6, <2>7
    <3>3. CASE j > a + 1 /\ i > a + 1
      <4>1. i - 1 \in 1..Len(l) /\ j - 1 \in 1..Len(l) /\ i - 1 < j - 1
        BY <3>3, <3>0, <2>7, <2>4
      <4>. QED  BY <3>3, <4>1, <2>6, <1>0
    <3>4. CASE j > a + 1 /\ i = a + 1
      BY <3>4, <2>5, <2>6
    <3>5. CASE j > a + 1 /\ i <= a
      <4>1. /\ KeyAt(side, t, i) < k /\ k < KeyAt(side, t, j)
            /\ KeyAt(side, t, i) \in Int /\ KeyAt(side, t, j) \in Int
        BY <3>5, <2>4, <2>6, <1>0, <3>0
      <4>. QED  BY <4>1, <2>e
    <3>. QED  BY <3>0, <3>1, <3>2, <3>3, <3>4, <3>5
  <2>8. Sorted(side, t)
    BY <2>3, <2>7 DEF Sorted
  <2>9. ASSUME NEW i \in 1..Len(l) PROVE \E j \in 1..Len(t) : t[j] = l[i]
    <3>1. CASE i <= a
      <4>1. i \in 1..Len(t) /\ t[i] = l[i]
        BY <3>1, <2>1, <2>3, <1>0
      <4>. QED  BY <4>1
    <3>2. CASE i > a
      <4>1. i + 1 \in 1..Len(t) /\ t[i + 1] = l[(i + 1) - 1] /\ (i + 1) - 1 = i
        BY <3>2, <2>1, <2>3, <1>0
      <4>. QED  BY <4>1
    <3>. QED  BY <3>1, <3>2, <2>1, <1>0
  <2>10. ASSUME NEW j \in 1..Len(t), j # a + 1
         PROVE  \E i \in 1..Len(l) : l[i] = t[j]
    <3>1. j <= a \/ j > a + 1
      BY <2>10, <2>1, <2>3, <1>0
    <3>. QED  BY <3>1, <2>4
  <2>11. ASSUME NEW p \in Int
         PROVE  SizeAt(t, p) = IF p = price THEN qty ELSE SizeAt(l, p)
    <3>1. CASE p = price
      BY <3>1, <2>4, <2>e, <2>8, SizeIs
    <3>2. CASE p # price
      <4>1. \A j \in 1..Len(t) : t[j].price = p => j # a + 1
        BY <3>2, <2>4, <2>e
      <4>. QED  BY <3>2, <4>1, <2>8, <2>9, <2>10, SameSize
    <3>. QED  BY <3>1, <3>2
  <2>. QED  BY <2>8, <2>11 DEF t
<1>6. CASE ~place.found /\ qty = 0
  <2>1. t = l
    BY <1>2, <1>6
  <2>2. \A i \in 1..Len(l) : l[i].price # price
    <3>1. /\ a \in 0..Len(l)
          /\ \A i \in 1..Len(l) : IF i <= a THEN KeyAt(side, l, i) < Key(side, price)
                                  ELSE KeyAt(side, l, i) > Key(side, price)
      BY <1>1, <1>6 DEF RightPlace
    <3>2. ASSUME NEW i \in 1..Len(l), l[i].price = price PROVE FALSE
      <4>1. KeyAt(side, l, i) = Key(side, price) /\ Key(side, price) \in Int
        BY <3>2, <1>k DEF KeyAt
      <4>. QED  BY <3>1, <4>1
    <3>. QED  BY <3>2
  <2>3. SizeAt(l, price) = 0
    BY <2>2, SizeIs
  <2>. QED  BY <2>1, <2>3, <1>6 DEF t
<1>7. qty = 0 \/ qty > 0
  OBVIOUS
<1>. QED  BY <1>3, <1>4, <1>5, <1>6, <1>7

(* Cutting off the levels at the prices of Q, the best ones. *)
LEMMA PopWhileIs ==
  ASSUME NEW side \in Side, NEW l, Sorted(side, l), NEW Q,
         \A i, j \in 1..Len(l) : i < j /\ l[i].price \in Q => l[j].price \in Q
  PROVE  LET t == PopWhile(l, {i \in DOMAIN l : l[i].price \in Q})
         IN /\ Sorted(side, t)
            /\ \A p \in Int : SizeAt(t, p) = IF p \in Q THEN 0 ELSE SizeAt(l, p)
<1>. DEFINE G == {i \in DOMAIN l : l[i].price \in Q}
            m == Max({0} \cup (DOMAIN l \ G))
            t == PopWhile(l, G)
<1>0. /\ Len(l) \in Nat /\ DOMAIN l = 1..Len(l) /\ l \in Seq(Levels)
      /\ \A i, j \in 1..Len(l) : i < j => KeyAt(side, l, i) < KeyAt(side, l, j)
  BY SortedAt
<1>1. m \in {0} \cup (DOMAIN l \ G) /\ \A y \in DOMAIN l \ G : m >= y
  <2>. DEFINE S == {0} \cup (DOMAIN l \ G)
  <2>1. S \subseteq 0..Len(l) /\ 0 \in S
    BY <1>0
  <2>2. \A y \in DOMAIN l \ G : y \in S
    OBVIOUS
  <2>. HIDE DEF S, G
  <2>3. Max(S) \in S /\ \A y \in S : Max(S) >= y
    BY <2>1, <1>0, MaxIs
  <2>. QED  BY <2>2, <2>3 DEF S
<1>2. t = SubSeq(l, 1, m)
  BY DEF PopWhile
<1>. HIDE DEF m, t
<1>3. m \in 0..Len(l)
  BY <1>0, <1>1
<1>4. \A i \in 1..Len(l) : l[i].price \in Q <=> i > m
  <2>1. ASSUME NEW i \in 1..Len(l), i > m PROVE l[i].price \in Q
    BY <2>1, <1>0, <1>1, <1>3
  <2>2. ASSUME NEW i \in 1..Len(l), l[i].price \in Q, i <= m PROVE FALSE
    <3>1. m \in 1..Len(l) /\ l[m].price \notin Q
      BY <2>2, <1>0, <1>1, <1>3
    <3>. QED  BY <2>2, <3>1, <1>0, <1>3
  <2>. QED  BY <2>1, <2>2, <1>0, <1>3
<1>5. /\ t \in Seq(Levels) /\ Len(t) = m
      /\ \A i \in 1..m : t[i] = l[i]
  BY <1>0, <1>2, <1>3
<1>6. Sorted(side, t)
  <2>1. ASSUME NEW i \in 1..Len(t), NEW j \in 1..Len(t), i < j
        PROVE  KeyAt(side, t, i) < KeyAt(side, t, j)
    <3>1. /\ i \in 1..Len(l) /\ j \in 1..Len(l) /\ t[i] = l[i] /\ t[j] = l[j]
      BY <1>0, <1>3, <1>5
    <3>. QED  BY <2>1, <3>1, <1>0 DEF KeyAt
  <2>. QED  BY <2>1, <1>5 DEF Sorted
<1>7. ASSUME NEW p \in Int
      PROVE  SizeAt(t, p) = IF p \in Q THEN 0 ELSE SizeAt(l, p)
  <2>1. \A i \in 1..Len(t) : i \in 1..Len(l) /\ t[i] = l[i] /\ t[i].price \notin Q
    BY <1>0, <1>3, <1>4, <1>5
  <2>2. CASE p \in Q
    BY <2>1, <2>2, <1>6, SizeIs
  <2>3. CASE p \notin Q
    <3>1. ASSUME NEW i \in 1..Len(l), l[i].price = p
          PROVE  i \in 1..Len(t) /\ t[i] = l[i]
      <4>1. ~(i > m)
        BY <2>3, <3>1, <1>4
      <4>. QED  BY <4>1, <1>0, <1>3, <1>5
    <3>. QED  BY <2>1, <2>3, <3>1, <1>6, SameSize
  <2>. QED  BY <2>2, <2>3
<1>. QED  BY <1>6, <1>7 DEF t

(* A book: a sorted ladder a side. *)
IsBook(b) == /\ b = [s \in Side |-> b[s]]
             /\ \A s \in Side : Sorted(s, b[s])

Md == [kind : {"Level", "Top", "Trade"}, side : Side, price : Int, qty : Nat]
        \cup {ClearMsg}

LEMMA SetTopIs ==
  ASSUME NEW b, IsBook(b), NEW side \in Side, NEW price \in Int, NEW qty \in Nat
  PROVE  /\ IsBook(SetTop(b, side, price, qty))
         /\ \A s \in Side, p \in Int :
              SizeAt(SetTop(b, side, price, qty)[s], p) =
                IF p = price THEN IF s = side THEN qty ELSE 0
                ELSE IF (IF s = "Buy" THEN p > price ELSE p < price) THEN 0
                ELSE SizeAt(b[s], p)
<1>. DEFINE l == b[side]
            r == b[Opposite(side)]
            opp == Opposite(side)
            B == {p \in Int : Key(side, p) > Key(side, price)}
            T == {p \in Int : Key(side, p) <= Key(side, price)}
            own == PopWhile(l, Better(side, price, l))
            other == PopWhile(r, Through(side, price, r))
            t == SetTop(b, side, price, qty)
<1>0. /\ Sorted(side, l) /\ Sorted(opp, r) /\ opp \in Side /\ opp # side
      /\ \A s \in Side : s = side \/ s = opp
  BY DEF IsBook, Side, Opposite
<1>1. /\ \A i \in 1..Len(l) : l[i].price \in Int /\ KeyAt(side, l, i) \in Int
      /\ \A i \in 1..Len(r) : r[i].price \in Int /\ KeyAt(opp, r, i) \in Int
      /\ \A i, j \in 1..Len(l) : i < j => KeyAt(side, l, i) < KeyAt(side, l, j)
      /\ \A i, j \in 1..Len(r) : i < j => KeyAt(opp, r, i) < KeyAt(opp, r, j)
      /\ DOMAIN l = 1..Len(l) /\ DOMAIN r = 1..Len(r)
  BY <1>0, SortedAt
<1>k. \A p \in Int : Key(opp, p) = -Key(side, p) /\ Key(side, p) \in Int
  BY DEF Key, Sign, Opposite, Side
<1>2. Better(side, price, l) = {i \in DOMAIN l : l[i].price \in B}
  BY <1>1 DEF Better
<1>3. Through(side, price, r) = {i \in DOMAIN r : r[i].price \in T}
  BY <1>1 DEF Through
<1>. HIDE DEF l, r, opp
<1>u. ASSUME NEW x \in Int, NEW y \in Int
      PROVE  /\ Key(side, x) < Key(side, y) /\ x \in B => y \in B
             /\ Key(opp, x) < Key(opp, y) /\ x \in T => y \in T
  <2>. DEFINE a == Key(side, x)
              c == Key(side, y)
              k == Key(side, price)
  <2>1. /\ a \in Int /\ c \in Int /\ k \in Int
        /\ Key(opp, x) = -a /\ Key(opp, y) = -c
    BY <1>k
  <2>2. /\ x \in B <=> a > k
        /\ y \in B <=> c > k
        /\ x \in T <=> a <= k
        /\ y \in T <=> c <= k
    OBVIOUS
  <2>. HIDE DEF a, c, k, B, T
  <2>3. a < c /\ x \in B => y \in B
    BY <2>1, <2>2
  <2>4. -a < -c /\ x \in T => y \in T
    BY <2>1, <2>2
  <2>. QED  BY <2>1, <2>3, <2>4 DEF a, c
<1>4. \A i, j \in 1..Len(l) : i < j /\ l[i].price \in B => l[j].price \in B
  <2>. SUFFICES ASSUME NEW i \in 1..Len(l), NEW j \in 1..Len(l), i < j,
                       l[i].price \in B
                PROVE  l[j].price \in B
    OBVIOUS
  <2>1. Key(side, l[i].price) < Key(side, l[j].price)
    BY <1>1 DEF KeyAt
  <2>2. l[i].price \in Int /\ l[j].price \in Int
    BY <1>1
  <2>. HIDE DEF B
  <2>. QED  BY <2>1, <2>2, <1>u
<1>5. \A i, j \in 1..Len(r) : i < j /\ r[i].price \in T => r[j].price \in T
  <2>. SUFFICES ASSUME NEW i \in 1..Len(r), NEW j \in 1..Len(r), i < j,
                       r[i].price \in T
                PROVE  r[j].price \in T
    OBVIOUS
  <2>1. Key(opp, r[i].price) < Key(opp, r[j].price)
    BY <1>1 DEF KeyAt
  <2>2. r[i].price \in Int /\ r[j].price \in Int
    BY <1>1
  <2>. HIDE DEF T
  <2>. QED  BY <2>1, <2>2, <1>u
<1>6. /\ Sorted(side, own)
      /\ \A p \in Int : SizeAt(own, p) = IF p \in B THEN 0 ELSE SizeAt(l, p)
  <2>. HIDE DEF B
  <2>. QED  BY <1>0, <1>2, <1>4, PopWhileIs
<1>7. /\ Sorted(opp, other)
      /\ \A p \in Int : SizeAt(other, p) = IF p \in T THEN 0 ELSE SizeAt(r, p)
  <2>. HIDE DEF T
  <2>. QED  BY <1>0, <1>3, <1>5, PopWhileIs
<1>8. t = [s \in Side |-> IF s = side THEN Set(side, own, price, qty) ELSE other]
  BY DEF SetTop, l, r
<1>. HIDE DEF t, own, other
<1>9. /\ Sorted(side, Set(side, own, price, qty))
      /\ \A p \in Int : SizeAt(Set(side, own, price, qty), p) =
           IF p = price THEN qty ELSE SizeAt(own, p)
  BY <1>6, SetIs
<1>10. t[side] = Set(side, own, price, qty) /\ t[opp] = other
  BY <1>0, <1>8
<1>11. IsBook(t)
  <2>1. \A s \in Side : Sorted(s, t[s])
    BY <1>0, <1>7, <1>9, <1>10
  <2>2. t = [s \in Side |-> t[s]]
    BY <1>8
  <2>. QED  BY <2>1, <2>2 DEF IsBook
<1>12. ASSUME NEW p \in Int
       PROVE  /\ p \in B <=> IF side = "Buy" THEN p > price ELSE p < price
              /\ p \in T <=> p = price \/ (IF opp = "Buy" THEN p > price ELSE p < price)
  BY DEF Key, Sign, Side, opp, Opposite
<1>13. ASSUME NEW p \in Int
       PROVE  /\ SizeAt(t[side], p) =
                   IF p = price THEN qty
                   ELSE IF (IF side = "Buy" THEN p > price ELSE p < price) THEN 0
                   ELSE SizeAt(b[side], p)
              /\ SizeAt(t[opp], p) =
                   IF p = price THEN 0
                   ELSE IF (IF opp = "Buy" THEN p > price ELSE p < price) THEN 0
                   ELSE SizeAt(b[opp], p)
  <2>. HIDE DEF B, T
  <2>1. /\ SizeAt(t[side], p) = IF p = price THEN qty ELSE SizeAt(own, p)
        /\ SizeAt(t[opp], p) = SizeAt(other, p)
    BY <1>9, <1>10
  <2>2. /\ SizeAt(own, p) = IF p \in B THEN 0 ELSE SizeAt(b[side], p)
        /\ SizeAt(other, p) = IF p \in T THEN 0 ELSE SizeAt(b[opp], p)
    BY <1>6, <1>7 DEF l, r, opp
  <2>. QED  BY <2>1, <2>2, <1>12
<1>. HIDE DEF B, T
<1>14. \A s \in Side, p \in Int :
         SizeAt(t[s], p) =
           IF p = price THEN IF s = side THEN qty ELSE 0
           ELSE IF (IF s = "Buy" THEN p > price ELSE p < price) THEN 0
           ELSE SizeAt(b[s], p)
  BY <1>0, <1>13
<1>. QED  BY <1>11, <1>14 DEF t

LEMMA SetLevelIs ==
  ASSUME NEW b, IsBook(b), NEW side \in Side, NEW price \in Int, NEW qty \in Nat
  PROVE  /\ IsBook(SetLevel(b, side, price, qty))
         /\ \A s \in Side, p \in Int :
              SizeAt(SetLevel(b, side, price, qty)[s], p) =
                IF s = side /\ p = price THEN qty ELSE SizeAt(b[s], p)
<1>. DEFINE t == SetLevel(b, side, price, qty)
            own == Set(side, b[side], price, qty)
<1>1. /\ Sorted(side, own)
      /\ \A p \in Int : SizeAt(own, p) =
           IF p = price THEN qty ELSE SizeAt(b[side], p)
  BY SetIs DEF IsBook
<1>2. t = [b EXCEPT ![side] = own]
  BY DEF SetLevel
<1>3. b = [s \in Side |-> b[s]]
  BY DEF IsBook
<1>. HIDE DEF t, own
<1>4. t = [s \in Side |-> t[s]] /\ \A s \in Side : t[s] = IF s = side THEN own ELSE b[s]
  BY <1>2, <1>3
<1>5. IsBook(t)
  BY <1>1, <1>4 DEF IsBook
<1>6. \A s \in Side, p \in Int : SizeAt(t[s], p) =
        IF s = side /\ p = price THEN qty ELSE SizeAt(b[s], p)
  BY <1>1, <1>4
<1>. QED  BY <1>5, <1>6 DEF t

-----------------------------------------------------------------------------
(* Messages: what the adapters make of a frame is of the right kind. *)

RowSet == [price : Int, qty : Nat]
VenueBooks == [Side -> [Prices -> Nat]]

(* The ranks of finitely many prices are all the numbers below theirs. *)
LEMMA RankIs ==
  ASSUME NEW v \in VenueBooks, NEW side \in Side
  PROVE  /\ IsFiniteSet(Quoted(v, side)) /\ Cardinality(Quoted(v, side)) \in Nat
         /\ \A i \in 1..Cardinality(Quoted(v, side)) :
              \E p \in Quoted(v, side) : Cardinality(Ahead(v, side, p)) = i - 1
         /\ \A p \in Quoted(v, side) :
              /\ IsFiniteSet(Ahead(v, side, p))
              /\ Cardinality(Ahead(v, side, p)) \in
                   0..(Cardinality(Quoted(v, side)) - 1)
              /\ \A q \in Quoted(v, side) :
                   Cardinality(Ahead(v, side, p)) = Cardinality(Ahead(v, side, q))
                     => p = q
<1>. DEFINE Q == Quoted(v, side)
            n == Cardinality(Q)
            A(p) == Ahead(v, side, p)
            f == [p \in Q |-> Cardinality(A(p))]
<1>1. Q \subseteq Prices /\ Q \subseteq Int /\ IsFiniteSet(Q)
  <2>1. Q \subseteq Prices /\ Prices \subseteq Int /\ IsFiniteSet(Prices)
    BY FeedAssumption DEF Quoted
  <2>. QED  BY <2>1, FS_Subset
<1>2. n \in Nat
  BY <1>1, FS_CardinalityType
<1>k. \A p, q \in Q : /\ Key(side, p) \in Int
                      /\ Key(side, p) = Key(side, q) => p = q
  BY <1>1, KeyIs
<1>3. \A p \in Q : A(p) = {q \in Q : Key(side, q) > Key(side, p)}
  BY DEF Ahead
<1>. HIDE DEF Q, A
<1>4. ASSUME NEW p \in Q
      PROVE  /\ IsFiniteSet(A(p)) /\ Cardinality(A(p)) \in 0..(n - 1)
  <2>1. A(p) \subseteq Q \ {p}
    BY <1>3, <1>k
  <2>2. IsFiniteSet(Q \ {p}) /\ Cardinality(Q \ {p}) = n - 1
    BY <1>1, FS_RemoveElement
  <2>3. IsFiniteSet(A(p)) /\ Cardinality(A(p)) <= Cardinality(Q \ {p})
    BY <2>1, <2>2, FS_Subset
  <2>4. Cardinality(A(p)) \in Nat
    BY <2>3, FS_CardinalityType
  <2>. QED  BY <2>2, <2>3, <2>4, <1>2
<1>5. ASSUME NEW p \in Q, NEW q \in Q, Key(side, p) > Key(side, q)
      PROVE  Cardinality(A(p)) # Cardinality(A(q))
  <2>1. A(p) \subseteq A(q) /\ p \in A(q) /\ p \notin A(p)
    BY <1>3, <1>5, <1>k
  <2>. QED  BY <2>1, <1>4, FS_Subset
<1>d. ASSUME NEW p \in Q, NEW q \in Q, Cardinality(A(p)) = Cardinality(A(q))
      PROVE  p = q
  <2>1. Key(side, p) = Key(side, q)
    BY <1>d, <1>5, <1>k
  <2>. QED  BY <2>1, <1>k
<1>6. f \in Injection(Q, 0..(n - 1))
  <2>1. f \in [Q -> 0..(n - 1)]
    BY <1>4
  <2>2. ASSUME NEW p \in Q, NEW q \in Q, f[p] = f[q] PROVE p = q
    BY <2>2, <1>d
  <2>. QED  BY <2>1, <2>2 DEF Injection, IsInjective
<1>7. IsFiniteSet(0..(n - 1)) /\ Cardinality(0..(n - 1)) = n
  <2>1. 0 \in Int /\ n - 1 \in Int
    BY <1>2
  <2>2. /\ IsFiniteSet(0..(n - 1))
        /\ Cardinality(0..(n - 1)) = IF 0 > n - 1 THEN 0 ELSE (n - 1) - 0 + 1
    BY <2>1, FS_Interval
  <2>. QED  BY <2>2, <1>2
<1>8. f \in Surjection(Q, 0..(n - 1))
  <2>. HIDE DEF f, n
  <2>1. Cardinality(Q) = Cardinality(0..(n - 1))
    BY <1>7 DEF n
  <2>. QED  BY <2>1, <1>6, <1>7, FS_Injection
<1>9. ASSUME NEW i \in 1..n PROVE \E p \in Q : Cardinality(A(p)) = i - 1
  <2>1. i - 1 \in 0..(n - 1)
    BY <1>2
  <2>2. \E p \in Q : f[p] = i - 1
    <3>. HIDE DEF f
    <3>. QED  BY <1>8, <2>1 DEF Surjection
  <2>. QED  BY <2>2
<1>. QED  BY <1>1, <1>2, <1>4, <1>d, <1>9 DEF Q, A

(* The rows of a side: as many as it has prices, a price each. *)
LEMMA BestFirstIs ==
  ASSUME NEW v \in VenueBooks, NEW side \in Side
  PROVE  /\ BestFirst(v, side) \in Seq(RowSet)
         /\ Len(BestFirst(v, side)) = Cardinality(Quoted(v, side))
         /\ Quotes(v, side) => BestFirst(v, side) # <<>>
<1>. DEFINE n == Cardinality(Quoted(v, side))
            Row(i) == CHOOSE p \in Quoted(v, side) :
                        Cardinality(Ahead(v, side, p)) = i - 1
<1>1. \A i \in 1..n : Row(i) \in Quoted(v, side)
  BY RankIs
<1>2. \A p \in Quoted(v, side) : p \in Int /\ v[side][p] \in Nat
  BY FeedAssumption DEF Quoted, VenueBooks
<1>3. BestFirst(v, side) = [i \in 1..n |-> Level(Row(i), v[side][Row(i)])]
  BY DEF BestFirst
<1>. HIDE DEF Row
<1>4. \A i \in 1..n : Level(Row(i), v[side][Row(i)]) \in RowSet
  BY <1>1, <1>2 DEF Level, RowSet
<1>5. n \in Nat
  BY RankIs
<1>6. Quotes(v, side) => n # 0
  BY RankIs, FS_EmptySet DEF Quotes
<1>. HIDE DEF n
<1>7. /\ BestFirst(v, side) \in [1..n -> RowSet]
      /\ DOMAIN BestFirst(v, side) = 1..n
  BY <1>3, <1>4
<1>8. BestFirst(v, side) \in Seq(RowSet) /\ Len(BestFirst(v, side)) = n
  BY <1>5, <1>7
<1>9. n # 0 => BestFirst(v, side) # <<>>
  BY <1>8
<1>. QED  BY <1>6, <1>8, <1>9 DEF n

(* The frames a venue may send. *)
BookFrames == [channel : {"book"}, snapshot : BOOLEAN, bids : Seq(RowSet),
               asks : Seq(RowSet), bad : BOOLEAN]
BestFrames == [channel : {"best"}, bids : Seq(RowSet) \ {<<>>},
               asks : Seq(RowSet) \ {<<>>}, bad : BOOLEAN]
TradeFrames == [channel : {"trade"}, aggressor : Side, price : Int, qty : Nat,
                bad : BOOLEAN]
OtherFrames == [channel : {"control", "refusal"}, bad : BOOLEAN]

LEMMA RowsTyped ==
  ASSUME NEW side \in Side, NEW rows \in Seq(RowSet)
  PROVE  Rows(side, rows) \in Seq(Md)
<1>1. \A i \in 1..Len(rows) : LevelMsg(side, rows[i].price, rows[i].qty) \in Md
  <2>. SUFFICES ASSUME NEW i \in 1..Len(rows)
                PROVE  LevelMsg(side, rows[i].price, rows[i].qty) \in Md
    OBVIOUS
  <2>1. rows[i] \in RowSet
    OBVIOUS
  <2>. QED  BY <2>1 DEF RowSet, LevelMsg, Md
<1>2. Rows(side, rows) \in [1..Len(rows) -> Md] /\ Len(rows) \in Nat
  BY <1>1 DEF Rows
<1>. QED  BY <1>2

LEMMA FramePieces ==
  /\ \A f \in BookFrames : /\ BothSides(f) \in Seq(Md)
                           /\ <<ClearMsg>> \o BothSides(f) \in Seq(Md)
  /\ \A f \in TradeFrames : Trades(f) \in Seq(Md)
  /\ \A f \in BestFrames :
       /\ FirstTop("Buy", f.bids) \o FirstTop("Sell", f.asks) \in Seq(Md)
       /\ BothTops(f) \in Seq(Md)
<1>c. \A x, y \in Seq(Md) : x \o y \in Seq(Md)
  OBVIOUS
<1>1. ASSUME NEW f \in BookFrames
      PROVE  /\ BothSides(f) \in Seq(Md)
             /\ <<ClearMsg>> \o BothSides(f) \in Seq(Md)
  <2>1. f.bids \in Seq(RowSet) /\ f.asks \in Seq(RowSet)
    BY DEF BookFrames
  <2>2. Rows("Buy", f.bids) \in Seq(Md) /\ Rows("Sell", f.asks) \in Seq(Md)
    BY <2>1, RowsTyped DEF Side
  <2>3. <<ClearMsg>> \in Seq(Md)
    BY DEF Md
  <2>4. BothSides(f) \in Seq(Md)
    BY <2>2, <1>c DEF BothSides
  <2>. QED  BY <2>3, <2>4, <1>c
<1>2. ASSUME NEW f \in TradeFrames PROVE Trades(f) \in Seq(Md)
  <2>1. TradeMsg(f.aggressor, f.price, f.qty) \in Md
    BY DEF TradeFrames, TradeMsg, Md
  <2>. QED  BY <2>1 DEF Trades
<1>3. ASSUME NEW f \in BestFrames
      PROVE  /\ FirstTop("Buy", f.bids) \o FirstTop("Sell", f.asks) \in Seq(Md)
             /\ BothTops(f) \in Seq(Md)
  <2>. DEFINE x == TopMsg("Buy", f.bids[1].price, f.bids[1].qty)
              y == TopMsg("Sell", f.asks[1].price, f.asks[1].qty)
  <2>1. /\ f.bids \in Seq(RowSet) /\ f.bids # <<>>
        /\ f.asks \in Seq(RowSet) /\ f.asks # <<>>
    BY DEF BestFrames
  <2>2. f.bids[1] \in RowSet /\ f.asks[1] \in RowSet
    BY <2>1
  <2>3. x \in Md /\ y \in Md
    BY <2>2 DEF RowSet, TopMsg, Md, Side
  <2>4. FirstTop("Buy", f.bids) = <<x>> /\ FirstTop("Sell", f.asks) = <<y>>
    BY <2>1 DEF FirstTop
  <2>. HIDE DEF x, y
  <2>5. <<x>> \in Seq(Md) /\ <<y>> \in Seq(Md) /\ <<x, y>> \in Seq(Md)
    BY <2>3
  <2>. QED  BY <2>4, <2>5, <1>c DEF x, y, BothTops
<1>. QED  BY <1>1, <1>2, <1>3

(* Each adapter gets the frames its venue sends. *)
Sent(protocol) ==
  CASE protocol \in {"okx", "binance"} ->
         BookFrames \cup BestFrames \cup TradeFrames \cup OtherFrames
    [] protocol = "kraken" -> BookFrames \cup TradeFrames \cup OtherFrames
    [] protocol = "alpaca" -> BestFrames \cup TradeFrames \cup OtherFrames
    [] OTHER -> BookFrames \cup TradeFrames

(* What the adapters make of a frame of each kind, unless they refuse it.  *)
LEMMA ParsedIs ==
  ASSUME NEW f, feed \in Protocol \cup {"sim"}, f \in Sent(feed)
  PROVE  /\ ~Parsed(f).ok \/ f \in OtherFrames => Parsed(f).msgs = <<>>
         /\ Parsed(f).ok =>
              /\ f \in TradeFrames => Parsed(f).msgs = Trades(f)
              /\ f \in BestFrames => Parsed(f).msgs = BothTops(f)
              /\ f \in BookFrames =>
                   Parsed(f).msgs =
                     IF feed \in {"okx", "binance"} \/ (feed = "kraken" /\ f.snapshot)
                     THEN <<ClearMsg>> \o BothSides(f) ELSE BothSides(f)
<1>0. /\ ~Err.ok /\ Err.msgs = <<>>
      /\ \A s : Ok(s).ok /\ Ok(s).msgs = s
      /\ \A s : Read(f, s) = Err \/ Read(f, s) = Ok(s)
  BY DEF Ok, Err, Read
<1>1. CASE f \in BookFrames
  <2>1. /\ f.channel = "book" /\ f.snapshot \in BOOLEAN
        /\ f \notin TradeFrames /\ f \notin BestFrames /\ f \notin OtherFrames
    BY <1>1 DEF BookFrames, BestFrames, TradeFrames, OtherFrames
  <2>2. feed \in {"okx", "binance", "kraken", "sim"}
    BY <2>1 DEF Sent, Protocol
  <2>3. <<>> \o BothSides(f) = BothSides(f)
    BY <1>1, FramePieces
  <2>4. /\ OkxText(f) = Read(f, <<ClearMsg>> \o BothSides(f))
        /\ BinanceText(f) = Read(f, <<ClearMsg>> \o BothSides(f))
        /\ KrakenText(f) = Read(f, IF f.snapshot THEN <<ClearMsg>> \o BothSides(f)
                                   ELSE BothSides(f))
    BY <2>1, <2>3 DEF OkxText, BinanceText, KrakenText
  <2>5. Parsed(f) = IF feed = "sim" THEN Ok(BothSides(f))
                    ELSE IF feed = "kraken" THEN KrakenText(f)
                    ELSE IF feed = "okx" THEN OkxText(f) ELSE BinanceText(f)
    BY <2>1, <2>2 DEF Parsed, OnText, Simulated
  <2>. QED  BY <1>0, <2>1, <2>2, <2>4, <2>5
<1>2. CASE f \in TradeFrames
  <2>1. /\ f.channel = "trade"
        /\ f \notin BookFrames /\ f \notin BestFrames /\ f \notin OtherFrames
    BY <1>2 DEF BookFrames, BestFrames, TradeFrames, OtherFrames
  <2>2. \A t \in {OkxText(f), BinanceText(f), KrakenText(f), AlpacaText(f)} :
          t = Read(f, Trades(f))
    BY <2>1 DEF OkxText, BinanceText, KrakenText, AlpacaText
  <2>3. Parsed(f) = IF feed = "sim" THEN Ok(Trades(f)) ELSE Read(f, Trades(f))
    BY <2>1, <2>2 DEF Parsed, OnText, Simulated, Protocol
  <2>. QED  BY <1>0, <2>1, <2>3
<1>3. CASE f \in BestFrames
  <2>1. /\ f.channel = "best" /\ f.bids # <<>> /\ f.asks # <<>>
        /\ f \notin BookFrames /\ f \notin TradeFrames /\ f \notin OtherFrames
    BY <1>3 DEF BookFrames, BestFrames, TradeFrames, OtherFrames
  <2>2. feed \in {"okx", "binance", "alpaca"}
    BY <2>1 DEF Sent, Protocol
  <2>3. FirstTop("Buy", f.bids) \o FirstTop("Sell", f.asks) = BothTops(f)
    <3>1. PICK x, y : /\ x = TopMsg("Buy", f.bids[1].price, f.bids[1].qty)
                      /\ y = TopMsg("Sell", f.asks[1].price, f.asks[1].qty)
      OBVIOUS
    <3>2. FirstTop("Buy", f.bids) = <<x>> /\ FirstTop("Sell", f.asks) = <<y>>
      BY <2>1, <3>1 DEF FirstTop
    <3>3. <<x>> \o <<y>> = <<x, y>>
      BY PairIs
    <3>. QED  BY <3>1, <3>2, <3>3 DEF BothTops
  <2>4. \A t \in {OkxText(f), BinanceText(f), AlpacaText(f)} :
          t = Read(f, BothTops(f))
    BY <2>1, <2>3 DEF OkxText, BinanceText, AlpacaText
  <2>5. Parsed(f) = Read(f, BothTops(f))
    BY <2>2, <2>4 DEF Parsed, OnText, Simulated
  <2>. QED  BY <1>0, <2>1, <2>5
<1>4. CASE f \in OtherFrames
  <2>1. /\ f.channel \in {"control", "refusal"}
        /\ f \notin BookFrames /\ f \notin TradeFrames /\ f \notin BestFrames
    BY <1>4 DEF BookFrames, BestFrames, TradeFrames, OtherFrames
  <2>2. feed # "sim"
    BY <2>1 DEF Sent
  <2>3. \A t \in {OkxText(f), BinanceText(f), KrakenText(f), AlpacaText(f)} :
          t.msgs = <<>>
    BY <1>0, <2>1 DEF OkxText, BinanceText, KrakenText, AlpacaText
  <2>4. Parsed(f).msgs = <<>>
    BY <2>2, <2>3 DEF Parsed, OnText, Protocol, Simulated
  <2>. QED  BY <2>1, <2>4
<1>. QED  BY <1>1, <1>2, <1>3, <1>4 DEF Sent

LEMMA ParsedTyped ==
  ASSUME NEW f, feed \in Protocol \cup {"sim"}, f \in Sent(feed)
  PROVE  Parsed(f).msgs \in Seq(Md)
<1>. HIDE DEF Md
<1>1. f \in BookFrames \cup BestFrames \cup TradeFrames \cup OtherFrames
  BY DEF Sent
<1>2. <<>> \in Seq(Md)
  OBVIOUS
<1>. QED  BY <1>1, <1>2, ParsedIs, FramePieces

(* What is known of the messages on their way and of the book.             *)
Typed == /\ feed \in Protocol \cup {"sim"}
         /\ venue \in VenueBooks
         /\ pending \in Seq(Md)
         /\ fpc = "flush" => pending # <<>>
         /\ \A i \in 1..Len(ring) : ring[i].md \in Md
         /\ IsBook(book)

LEMMA EmptyIsBook ==
  /\ IsBook(EmptyBook)
  /\ \A s \in Side, p \in Int : SizeAt(EmptyBook[s], p) = 0
<1>1. \A s \in Side : EmptyBook[s] = <<>> /\ EmptyBook = [t \in Side |-> <<>>]
  BY DEF EmptyBook
<1>2. \A s \in Side : Sorted(s, <<>>)
  BY DEF Sorted
<1>3. IsBook(EmptyBook)
  <2>1. EmptyBook = [s \in Side |-> EmptyBook[s]]
    BY DEF EmptyBook
  <2>2. \A s \in Side : Sorted(s, EmptyBook[s])
    BY <1>1, <1>2
  <2>. QED  BY <2>1, <2>2 DEF IsBook
<1>4. \A p \in Int : SizeAt(<<>>, p) = 0
  BY DEF SizeAt
<1>. QED  BY <1>1, <1>3, <1>4

(* A message does to the sizes what the map of levels says it does.        *)
LEMMA ApplyIs ==
  ASSUME NEW b, IsBook(b), NEW m \in Md
  PROVE  /\ IsBook(Apply(b, m))
         /\ \A s \in Side, p \in Int :
              SizeAt(Apply(b, m)[s], p) =
                IF m.kind = "Clear" THEN 0
                ELSE IF m.kind = "Trade" THEN SizeAt(b[s], p)
                ELSE IF m.kind = "Level"
                     THEN IF s = m.side /\ p = m.price THEN m.qty
                          ELSE SizeAt(b[s], p)
                ELSE IF p = m.price THEN IF s = m.side THEN m.qty ELSE 0
                ELSE IF (IF s = "Buy" THEN p > m.price ELSE p < m.price) THEN 0
                ELSE SizeAt(b[s], p)
<1>1. CASE m = ClearMsg
  <2>1. m.kind = "Clear"
    BY <1>1 DEF ClearMsg
  <2>2. Apply(b, m) = EmptyBook
    BY <2>1 DEF Apply
  <2>. QED  BY <2>1, <2>2, EmptyIsBook
<1>2. CASE m # ClearMsg
  <2>1. /\ m.kind \in {"Level", "Top", "Trade"} /\ m.side \in Side
        /\ m.price \in Int /\ m.qty \in Nat
    BY <1>2 DEF Md
  <2>2. CASE m.kind = "Level"
    <3>1. Apply(b, m) = SetLevel(b, m.side, m.price, m.qty)
      BY <2>2 DEF Apply
    <3>2. /\ IsBook(SetLevel(b, m.side, m.price, m.qty))
          /\ \A s \in Side, p \in Int :
               SizeAt(SetLevel(b, m.side, m.price, m.qty)[s], p) =
                 IF s = m.side /\ p = m.price THEN m.qty ELSE SizeAt(b[s], p)
      BY <2>1, SetLevelIs
    <3>. QED  BY <2>2, <3>1, <3>2
  <2>3. CASE m.kind = "Top"
    <3>1. Apply(b, m) = SetTop(b, m.side, m.price, m.qty)
      BY <2>3 DEF Apply
    <3>2. /\ IsBook(SetTop(b, m.side, m.price, m.qty))
          /\ \A s \in Side, p \in Int :
               SizeAt(SetTop(b, m.side, m.price, m.qty)[s], p) =
                 IF p = m.price THEN IF s = m.side THEN m.qty ELSE 0
                 ELSE IF (IF s = "Buy" THEN p > m.price ELSE p < m.price) THEN 0
                 ELSE SizeAt(b[s], p)
      BY <2>1, SetTopIs
    <3>. QED  BY <2>3, <3>1, <3>2
  <2>4. CASE m.kind = "Trade"
    <3>1. Apply(b, m) = b
      BY <2>4 DEF Apply
    <3>. QED  BY <2>4, <3>1
  <2>. QED  BY <2>1, <2>2, <2>3, <2>4
<1>. QED  BY <1>1, <1>2

-----------------------------------------------------------------------------
LEMMA InitTyped == Init => Typed
<1>. SUFFICES ASSUME Init PROVE Typed
  OBVIOUS
<1>1. feed \in Protocol \cup {"sim"} /\ pending = <<>> /\ ring = <<>>
      /\ book = EmptyBook /\ fpc \in {"session", "head"}
  BY FeedAssumption DEF Init
<1>2. venue \in VenueBooks
  BY FeedAssumption DEF Init, VenueBooks, NoLevels
<1>3. IsBook(book)
  BY <1>1, EmptyIsBook
<1>4. pending \in Seq(Md)
  BY <1>1
<1>5. \A i \in 1..Len(ring) : ring[i].md \in Md
  BY <1>1
<1>. QED  BY <1>1, <1>2, <1>3, <1>4, <1>5 DEF Typed

(* A frame the venue may send makes messages of the right kind.            *)
LEMMA OnFrameTyped ==
  ASSUME NEW f, Typed, OnFrame(f), f \in Sent(feed), venue' \in VenueBooks
  PROVE  Typed'
<1>1. /\ feed' = feed /\ ring' = ring /\ book' = book
      /\ pending' = Parsed(f).msgs
      /\ fpc' = "flush" => pending' # <<>>
  BY DEF OnFrame, engineVars
<1>2. Parsed(f).msgs \in Seq(Md)
  BY ParsedTyped DEF Typed
<1>. HIDE DEF Md
<1>. QED  BY <1>1, <1>2 DEF Typed

LEMMA MovesTyped ==
  ASSUME Typed, NEW s \in Side, NEW p \in Prices, NEW q \in Qtys \cup {0},
         Moves(s, p, q)
  PROVE  venue' \in VenueBooks
<1>1. q \in Nat
  BY FeedAssumption
<1>. QED  BY <1>1 DEF Typed, Moves, VenueBooks

LEMMA UpdateTyped == Typed /\ UpdateFrame => Typed'
<1>. SUFFICES ASSUME Typed, UpdateFrame PROVE Typed'
  OBVIOUS
<1>1. PICK s \in Side, p \in Prices, q \in Qtys \cup {0}, bad \in Garbled :
        /\ Moves(s, p, q)
        /\ OnFrame(IF feed \in {"kraken", "sim"}
                   THEN BookFrame(FALSE,
                          IF "Buy" = s THEN <<Level(p, q)>> ELSE <<>>,
                          IF "Sell" = s THEN <<Level(p, q)>> ELSE <<>>, bad)
                   ELSE BestFrame(venue', bad))
  BY DEF UpdateFrame
<1>2. p \in Int /\ q \in Nat /\ bad \in BOOLEAN
  <2>1. p \in Int /\ q \in Nat
    BY FeedAssumption
  <2>2. bad \in BOOLEAN
    BY DEF Garbled
  <2>. QED  BY <2>1, <2>2
<1>3. venue' \in VenueBooks
  BY <1>1, MovesTyped
<1>4. CASE feed \in {"kraken", "sim"}
  <2>. DEFINE b == IF "Buy" = s THEN <<Level(p, q)>> ELSE <<>>
              a == IF "Sell" = s THEN <<Level(p, q)>> ELSE <<>>
  <2>1. b \in Seq(RowSet) /\ a \in Seq(RowSet)
    <3>1. Level(p, q) \in RowSet
      BY <1>2 DEF Level, RowSet
    <3>2. <<Level(p, q)>> \in Seq(RowSet) /\ <<>> \in Seq(RowSet)
      BY <3>1
    <3>. QED  BY <3>2
  <2>2. OnFrame(BookFrame(FALSE, b, a, bad))
    BY <1>1, <1>4
  <2>. HIDE DEF a, b
  <2>3. BookFrame(FALSE, b, a, bad) \in BookFrames
    BY <2>1, <1>2 DEF BookFrame, BookFrames
  <2>4. BookFrame(FALSE, b, a, bad) \in Sent(feed)
    BY <2>3, <1>4 DEF Sent
  <2>. QED  BY <2>2, <2>4, <1>3, OnFrameTyped
<1>5. CASE feed \notin {"kraken", "sim"}
  <2>1. OnFrame(BestFrame(venue', bad))
    BY <1>1, <1>5
  <2>2. \A t \in Side : Quotes(venue', t)
    BY <1>1, <1>5 DEF Moves
  <2>. DEFINE b == BestFirst(venue', "Buy")
              a == BestFirst(venue', "Sell")
  <2>3. /\ b \in Seq(RowSet) /\ b # <<>>
        /\ a \in Seq(RowSet) /\ a # <<>>
    BY <1>3, <2>2, BestFirstIs DEF Side
  <2>4. BestFrame(venue', bad) = [channel |-> "best", bids |-> b, asks |-> a, bad |-> bad]
    BY DEF BestFrame
  <2>. HIDE DEF a, b
  <2>5. BestFrame(venue', bad) \in BestFrames
    BY <2>3, <2>4, <1>2 DEF BestFrames
  <2>6. feed \in {"okx", "binance", "alpaca"}
    BY <1>5 DEF Typed, Protocol
  <2>7. BestFrame(venue', bad) \in Sent(feed)
    BY <2>5, <2>6 DEF Sent
  <2>. QED  BY <2>1, <2>7, <1>3, OnFrameTyped
<1>. QED  BY <1>4, <1>5

LEMMA SnapshotTyped == Typed /\ SnapshotFrame => Typed'
<1>. SUFFICES ASSUME Typed, SnapshotFrame PROVE Typed'
  OBVIOUS
<1>. DEFINE b == BestFirst(venue, "Buy")
            a == BestFirst(venue, "Sell")
<1>1. PICK bad \in Garbled : OnFrame(BookFrame(TRUE, b, a, bad))
  BY DEF SnapshotFrame
<1>2. /\ venue' = venue /\ bad \in BOOLEAN
      /\ feed \in {"okx", "binance", "kraken"}
  BY DEF SnapshotFrame, Garbled
<1>3. venue \in VenueBooks
  BY DEF Typed
<1>4. b \in Seq(RowSet) /\ a \in Seq(RowSet)
  BY <1>3, BestFirstIs DEF Side
<1>. HIDE DEF a, b
<1>5. BookFrame(TRUE, b, a, bad) \in BookFrames
  BY <1>2, <1>4 DEF BookFrame, BookFrames
<1>6. BookFrame(TRUE, b, a, bad) \in Sent(feed)
  BY <1>2, <1>5 DEF Sent
<1>. QED  BY <1>1, <1>2, <1>3, <1>6, OnFrameTyped

LEMMA TradeTyped == Typed /\ TradePrint => Typed'
<1>. SUFFICES ASSUME Typed, TradePrint PROVE Typed'
  OBVIOUS
<1>1. PICK side \in Side, p \in Prices, q \in Qtys, bad \in Garbled :
        OnFrame(TradeFrame(side, p, q, bad))
  BY DEF TradePrint
<1>2. venue' = venue /\ p \in Int /\ q \in Nat /\ bad \in BOOLEAN
  BY FeedAssumption DEF TradePrint, Garbled
<1>3. TradeFrame(side, p, q, bad) \in TradeFrames
  BY <1>2 DEF TradeFrame, TradeFrames
<1>4. TradeFrame(side, p, q, bad) \in Sent(feed)
  BY <1>3 DEF Sent, Typed
<1>5. venue' \in VenueBooks
  BY <1>2 DEF Typed
<1>. QED  BY <1>1, <1>4, <1>5, OnFrameTyped

LEMMA ControlTyped == Typed /\ ControlFrame => Typed'
<1>. SUFFICES ASSUME Typed, ControlFrame PROVE Typed'
  OBVIOUS
<1>1. PICK channel \in {"control", "refusal"} :
        OnFrame([channel |-> channel, bad |-> FALSE])
  BY DEF ControlFrame
<1>2. venue' = venue /\ feed # "sim"
  BY DEF ControlFrame, Simulated
<1>3. [channel |-> channel, bad |-> FALSE] \in OtherFrames
  BY DEF OtherFrames
<1>4. [channel |-> channel, bad |-> FALSE] \in Sent(feed)
  BY <1>2, <1>3 DEF Sent, Typed, Protocol
<1>5. venue' \in VenueBooks
  BY <1>2 DEF Typed
<1>. QED  BY <1>1, <1>4, <1>5, OnFrameTyped

(* The emitter passes on what it collected.                                *)
LEMMA PushTyped == Typed /\ IInv /\ Push => Typed'
<1>. SUFFICES ASSUME Typed, IInv, Push PROVE Typed'
  OBVIOUS
<1>1. /\ feed' = feed /\ venue' = venue /\ book' = book
      /\ pending' = Tail(pending) /\ pending # <<>> /\ pending \in Seq(Md)
      /\ fpc' = "flush" => pending' # <<>>
  BY DEF Push, Typed, engineVars, venueVars
<1>2. PICK S : ring \in Seq(S)
  BY DEF IInv, IsSequence
<1>. HIDE DEF Md
<1>3. pending' \in Seq(Md) /\ Head(pending) \in Md
  BY <1>1
<1>4. \A i \in 1..Len(ring') : ring'[i].md \in Md
  <2>1. CASE HasRoom
    <3>1. PICK e : e.md = Head(pending) /\ ring' = Append(ring, e)
      <4>1. Entry(Head(pending), seq', Len(pending) = 1).md = Head(pending)
        BY DEF Entry
      <4>. QED  BY <4>1, <2>1 DEF Push
    <3>2. ring \in Seq(S \cup {e})
      BY <1>2
    <3>3. /\ Len(ring') = Len(ring) + 1 /\ Len(ring) \in Nat
          /\ \A i \in 1..Len(ring) : ring'[i] = ring[i]
          /\ ring'[Len(ring) + 1] = e
      BY <3>1, <3>2
    <3>4. \A i \in 1..Len(ring') : i \in 1..Len(ring) \/ i = Len(ring) + 1
      BY <3>3
    <3>. QED  BY <1>3, <3>1, <3>3, <3>4 DEF Typed
  <2>2. CASE ~HasRoom
    <3>1. ring' = ring
      BY <2>2 DEF Push
    <3>. QED  BY <3>1 DEF Typed
  <2>. QED  BY <2>1, <2>2
<1>. QED  BY <1>1, <1>3, <1>4 DEF Typed

(* The engine takes the first message of the ring.                         *)
LEMMA OnMdIs ==
  ASSUME Typed, IInv, OnMd
  PROVE  /\ Typed'
         /\ last'.md \in Md /\ last_seq' # 0
         /\ book' = Apply(book, last'.md)
<1>1. /\ ring # <<>> /\ ring' = Tail(ring)
      /\ last' = Head(ring) /\ last_seq' = Head(ring).seq
      /\ book' = Apply(book, Head(ring).md)
      /\ feed' = feed /\ venue' = venue /\ pending' = pending /\ fpc' = fpc
  BY DEF OnMd, venueVars
<1>2. PICK S : ring \in Seq(S)
  BY DEF IInv, IsSequence
<1>. HIDE DEF Md
<1>3. /\ Len(ring) \in Nat /\ 1 \in 1..Len(ring) /\ Head(ring) = ring[1]
      /\ Len(ring') = Len(ring) - 1
      /\ \A i \in 1..Len(ring') : i + 1 \in 1..Len(ring) /\ ring'[i] = ring[i + 1]
  BY <1>1, <1>2
<1>4. Head(ring).md \in Md
  BY <1>3 DEF Typed
<1>5. Head(ring).seq # 0
  <2>1. Head(ring).seq \in Nat /\ last_seq < Head(ring).seq /\ last_seq \in Nat
    BY <1>3 DEF IInv, Ascends, Counters
  <2>. QED  BY <2>1
<1>6. IsBook(book')
  BY <1>1, <1>4, ApplyIs DEF Typed
<1>7. \A i \in 1..Len(ring') : ring'[i].md \in Md
  BY <1>3 DEF Typed
<1>. QED  BY <1>1, <1>4, <1>5, <1>6, <1>7 DEF Typed

LEMMA NextTyped == Typed /\ IInv /\ [Next]_vars => Typed'
<1>. SUFFICES ASSUME Typed, IInv, [Next]_vars PROVE Typed'
  OBVIOUS
<1>. HIDE DEF Md
<1>. DEFINE Rest == /\ feed' = feed /\ venue' = venue /\ pending' = pending
                    /\ ring' = ring /\ book' = book
                    /\ fpc' = "flush" => fpc = "flush"
<1>0. Rest => Typed'
  BY DEF Typed
<1>1. CASE LoopHead \/ Connect \/ SessionHead \/ Timeout \/ Fail \/ Stop
  <2>1. Rest
    BY <1>1 DEF LoopHead, Connect, SessionHead, Timeout, Fail, Stop,
                engineVars, emitterVars, venueVars
  <2>. QED  BY <2>1, <1>0
<1>2. CASE VenueMovesUnseen
  <2>1. venue' \in VenueBooks
    BY <1>2, MovesTyped DEF VenueMovesUnseen
  <2>2. /\ feed' = feed /\ pending' = pending /\ fpc' = fpc
        /\ ring' = ring /\ book' = book
    BY <1>2 DEF VenueMovesUnseen, engineVars, emitterVars
  <2>. QED  BY <2>1, <2>2 DEF Typed
<1>3. CASE UNCHANGED vars
  <2>1. Rest
    BY <1>3 DEF vars, engineVars, emitterVars, venueVars
  <2>. QED  BY <2>1, <1>0
<1>4. CASE Push
  BY <1>4, PushTyped
<1>5. CASE OnMd
  BY <1>5, OnMdIs
<1>6. CASE UpdateFrame \/ SnapshotFrame \/ TradePrint \/ ControlFrame
  BY <1>6, UpdateTyped, SnapshotTyped, TradeTyped, ControlTyped
<1>. QED
  BY <1>1, <1>2, <1>3, <1>4, <1>5, <1>6 DEF Next, FeedThread

-----------------------------------------------------------------------------
(* A book is all ladders, so it stands for its sizes.                       *)
LEMMA BooksAreLadders ==
  ASSUME NEW b, IsBook(b), NEW s \in Side
  PROVE  IsLadder(s, b[s])
<1>. DEFINE l == b[s]
<1>1. Sorted(s, l)
  BY DEF IsBook
<1>2. /\ Len(l) \in Nat /\ DOMAIN l = 1..Len(l)
      /\ \A i \in 1..Len(l) : l[i].qty \in Nat \ {0}
      /\ \A i, j \in 1..Len(l) : i < j => KeyAt(s, l, i) < KeyAt(s, l, j)
  BY <1>1, SortedAt
<1>. HIDE DEF l
<1>3. \A i \in 1..(Len(l) - 1) :
        Key(s, l[i].price) < Key(s, l[i + 1].price)
  <2>. SUFFICES ASSUME NEW i \in 1..(Len(l) - 1)
                PROVE  Key(s, l[i].price) < Key(s, l[i + 1].price)
    OBVIOUS
  <2>1. i \in 1..Len(l) /\ i + 1 \in 1..Len(l) /\ i < i + 1
    BY <1>2
  <2>. QED  BY <2>1, <1>2 DEF KeyAt
<1>4. \A i \in DOMAIN l : l[i].qty > 0
  BY <1>2
<1>. QED  BY <1>3, <1>4 DEF IsLadder, l

LEMMA InitMapped == Init => Map!Init
<1>. SUFFICES ASSUME Init PROVE Map!Init
  OBVIOUS
<1>1. book = EmptyBook
  BY DEF Init
<1>2. Sizes = [s \in Side |-> [p \in Prices |-> SizeAt(book[s], p)]]
  BY <1>1, EmptyIsBook, BooksAreLadders DEF Sizes
<1>3. \A s \in Side, p \in Prices : SizeAt(book[s], p) = 0
  BY <1>1, EmptyIsBook, FeedAssumption
<1>4. Sizes = [s \in Side |-> [p \in Prices |-> 0]]
  BY <1>2, <1>3
<1>. QED  BY <1>4 DEF Map!Init, Map!Empty, Map!Sides, Side

(* A message the engine applies changes the map as it should.              *)
LEMMA OnMdMapped ==
  ASSUME Typed, IInv, OnMd
  PROVE  Map!Next
<1>. DEFINE m == last'.md
            S == [s \in Side |-> [p \in Prices |-> SizeAt(book[s], p)]]
            T == [s \in Side |-> [p \in Prices |-> SizeAt(book'[s], p)]]
<1>1. m \in Md /\ last_seq' # 0 /\ book' = Apply(book, m) /\ IsBook(book)
      /\ IsBook(book')
  BY OnMdIs DEF Typed
<1>2. Sizes = S
  BY <1>1, BooksAreLadders DEF Sizes
<1>3. Sizes' = T
  BY <1>1, BooksAreLadders DEF Sizes
<1>4. (IF last_seq = 0 THEN ClearMsg ELSE last.md)' = m
  BY <1>1
<1>5. \A s \in Side, p \in Prices :
        SizeAt(book'[s], p) =
          IF m.kind = "Clear" THEN 0
          ELSE IF m.kind = "Trade" THEN SizeAt(book[s], p)
          ELSE IF m.kind = "Level"
               THEN IF s = m.side /\ p = m.price THEN m.qty
                    ELSE SizeAt(book[s], p)
          ELSE IF p = m.price THEN IF s = m.side THEN m.qty ELSE 0
          ELSE IF (IF s = "Buy" THEN p > m.price ELSE p < m.price) THEN 0
          ELSE SizeAt(book[s], p)
  <2>. HIDE DEF m
  <2>. QED  BY <1>1, ApplyIs, FeedAssumption
<1>6. T = Map!Sized(m)
  <2>. HIDE DEF m
  <2>1. CASE m = ClearMsg
    <3>1. m.kind = "Clear"
      BY <2>1 DEF ClearMsg
    <3>2. Map!Sized(m) = [s \in Side |-> [p \in Prices |-> 0]]
      BY <3>1 DEF Map!Sized, Map!Empty, Map!Sides, Side
    <3>. QED  BY <3>1, <3>2, <1>5
  <2>2. CASE m # ClearMsg
    <3>1. m.kind \in {"Level", "Top", "Trade"} /\ m.side \in Side
      BY <1>1, <2>2 DEF Md
    <3>2. CASE m.kind = "Level"
      <4>1. Map!Sized(m) = [S EXCEPT ![m.side][m.price] = m.qty]
        BY <3>2, <1>2 DEF Map!Sized
      <4>2. [S EXCEPT ![m.side][m.price] = m.qty] =
              [s \in Side |-> [p \in Prices |->
                 IF s = m.side /\ p = m.price THEN m.qty ELSE S[s][p]]]
        OBVIOUS
      <4>. QED  BY <4>1, <4>2, <3>2, <1>5
    <3>3. CASE m.kind = "Top"
      <4>1. Map!Sized(m) =
              [s \in Side |-> [p \in Prices |->
                 IF p = m.price THEN IF s = m.side THEN m.qty ELSE 0
                 ELSE IF (IF s = "Buy" THEN p > m.price ELSE p < m.price) THEN 0
                 ELSE S[s][p]]]
        <5>. HIDE DEF S
        <5>1. Map!Sized(m) = Map!WithTop(m.side, m.price, m.qty)
          BY <3>3 DEF Map!Sized
        <5>2. \A s, p : Map!IsBeyond(s, p, m.price) <=>
                IF s = "Buy" THEN p > m.price ELSE p < m.price
          BY DEF Map!IsBeyond
        <5>3. ASSUME NEW s \in Side, NEW p \in Prices
              PROVE  Map!WithTop(m.side, m.price, m.qty)[s][p] =
                       IF p = m.price THEN IF s = m.side THEN m.qty ELSE 0
                       ELSE IF Map!IsBeyond(s, p, m.price) THEN 0 ELSE S[s][p]
          <6>1. CASE p = m.price
            <7>1. ~Map!IsBeyond(s, p, m.price)
              BY <6>1, FeedAssumption DEF Map!IsBeyond
            <7>. QED  BY <6>1, <7>1 DEF Map!WithTop, Map!Sides, Side
          <6>2. CASE p # m.price /\ Map!IsBeyond(s, p, m.price)
            BY <6>2 DEF Map!WithTop, Map!Sides, Side
          <6>3. CASE p # m.price /\ ~Map!IsBeyond(s, p, m.price)
            BY <6>3, <1>2 DEF Map!WithTop, Map!Sides, Side
          <6>. QED  BY <6>1, <6>2, <6>3
        <5>4. Map!WithTop(m.side, m.price, m.qty) =
                [s \in Side |-> [p \in Prices |->
                   Map!WithTop(m.side, m.price, m.qty)[s][p]]]
          BY DEF Map!WithTop, Map!Sides, Side
        <5>. QED  BY <5>1, <5>2, <5>3, <5>4
      <4>. QED  BY <4>1, <3>3, <1>5
    <3>4. CASE m.kind = "Trade"
      <4>1. Map!Sized(m) = S
        BY <3>4, <1>2 DEF Map!Sized
      <4>. QED  BY <4>1, <3>4, <1>5
    <3>. QED  BY <3>1, <3>2, <3>3, <3>4
  <2>. QED  BY <2>1, <2>2
<1>. QED  BY <1>3, <1>4, <1>6 DEF Map!Next

(* Nothing else touches the book.                                          *)
LEMMA OthersMapped ==
  ASSUME [Next]_vars, ~OnMd
  PROVE  UNCHANGED engineVars
<1>1. CASE LoopHead \/ Connect \/ SessionHead \/ Timeout \/ Fail \/ Stop \/ Push
  BY <1>1 DEF LoopHead, Connect, SessionHead, Timeout, Fail, Stop, Push
<1>2. CASE VenueMovesUnseen
  BY <1>2 DEF VenueMovesUnseen
<1>3. ASSUME NEW f, OnFrame(f) PROVE UNCHANGED engineVars
  BY <1>3 DEF OnFrame
<1>4. CASE UpdateFrame \/ SnapshotFrame \/ TradePrint \/ ControlFrame
  BY <1>4, <1>3 DEF UpdateFrame, SnapshotFrame, TradePrint, ControlFrame
<1>5. CASE UNCHANGED vars
  BY <1>5 DEF vars
<1>. QED
  BY <1>1, <1>2, <1>4, <1>5 DEF Next, FeedThread

(* The engine's book is the map of levels its messages make, however many  *)
(* levels the search scans before it bisects (book.rs), for every venue,   *)
(* protocol and order of drops and reconnects.                             *)
THEOREM BookIsMap == Spec => ImplementsBookMap
<1>1. Init => IInv /\ Typed /\ Map!Init
  BY InitNumbered, InitTyped, InitMapped
<1>2. IInv /\ Typed /\ [Next]_vars => IInv' /\ Typed'
  BY NextNumbered, NextTyped
<1>3. IInv /\ Typed /\ [Next]_vars =>
        [Map!Next]_<<Sizes, IF last_seq = 0 THEN ClearMsg ELSE last.md>>
  <2>1. CASE ~OnMd
    <3>1. [Next]_vars => UNCHANGED engineVars
      BY <2>1, OthersMapped
    <3>. QED  BY <3>1 DEF engineVars, Sizes
  <2>2. CASE OnMd
    BY <2>2, OnMdMapped
  <2>. QED  BY <2>1, <2>2
<1>. QED
  BY <1>1, <1>2, <1>3, PTL DEF Spec, ImplementsBookMap, Map!MapSpec

-----------------------------------------------------------------------------
(* The size of every price in a book, and what a message makes of sizes.   *)
Shown(b) == [s \in Side |-> [p \in Int |-> SizeAt(b[s], p)]]
Following(x, m) ==
  IF m.kind = "Trade" THEN x
  ELSE [s \in Side |-> [p \in Int |->
         IF m.kind = "Clear" THEN 0
         ELSE IF m.kind = "Level"
              THEN IF s = m.side /\ p = m.price THEN m.qty ELSE x[s][p]
         ELSE IF p = m.price THEN IF s = m.side THEN m.qty ELSE 0
         ELSE IF (IF s = "Buy" THEN p > m.price ELSE p < m.price) THEN 0
         ELSE x[s][p]]]

(* The best price of a side of the venue's book v.                         *)
IsTop(v, s, p) == p \in Quoted(v, s) /\ Ahead(v, s, p) = {}

(* The sizes x tell the bests of v, or as much of v as was told.           *)
Agrees(x, v) ==
  \A s \in Side, p \in Prices :
    IsTop(v, s, p) =>
      /\ x[s][p] = v[s][p]
      /\ \A q \in Int : Key(s, q) > Key(s, p) => x[s][q] = 0
IsTrue(x, told, v) ==
  /\ told = "all"  => \A s \in Side, p \in Prices : x[s][p] = v[s][p]
  /\ told = "best" => Agrees(x, v)

(* The sizes M[0], M[1], ... that the messages of the ring make one after  *)
(* the other, and N[0], N[1], ... that the ones not pushed yet do.         *)
RingTrail(M, x, r) ==
  /\ M[0] = x
  /\ \A i \in 1..Len(r) :
       /\ M[i] = Following(M[i - 1], r[i].md)
       /\ r[i].final =>
            r[i].venue \in VenueBooks /\ IsTrue(M[i], r[i].sync, r[i].venue)
PendingTrail(N, x, d, told, v) ==
  /\ N[0] = x
  /\ \A i \in 1..Len(d) : N[i] = Following(N[i - 1], d[i])
  /\ IsTrue(N[Len(d)], told, v)
Tells(x, d, told, v) ==
  told \in {"all", "best"} => \E N : PendingTrail(N, x, d, told, v)

(* What is known of sync at each place of the feed thread.                 *)
SyncOK ==
  /\ sync \in {"none", "all", "best", "lost"}
  /\ fpc # "flush" => pending = <<>>
  /\ fpc = "connect" => sync = "none"
  /\ fpc = "head" /\ ~stop => sync = "none"
  /\ ~subscribed => sync = "none"
  /\ feed = "kraken" /\ ~snapped => sync = "none"
  /\ sync = "best" => feed \notin {"kraken", "sim"}

(* From the sizes x, the messages of the ring and then those not pushed    *)
(* lead to the venue's book, as far as it is told.                         *)
TrailOK(x, r, d, told, v) ==
  \E M : RingTrail(M, x, r) /\ Tells(M[Len(r)], d, told, v)
(* The book after the last message of a batch.                             *)
LastOK == last # NoMsg /\ last.final =>
            /\ last.venue \in VenueBooks
            /\ IsTrue(Shown(book), last.sync, last.venue)
SyncInv ==
  /\ SyncOK
  /\ TrailOK(Shown(book), ring, pending, sync, venue)
  /\ LastOK

(* A message makes of the book what it makes of its sizes.                 *)
LEMMA ShownIs ==
  ASSUME NEW b, IsBook(b), NEW m \in Md
  PROVE  Shown(Apply(b, m)) = Following(Shown(b), m)
<1>1. CASE m.kind = "Trade"
  <2>1. Apply(b, m) = b
    BY <1>1 DEF Apply
  <2>. QED  BY <1>1, <2>1 DEF Following
<1>2. CASE m.kind # "Trade"
  <2>1. \A s \in Side, p \in Int : Shown(b)[s][p] = SizeAt(b[s], p)
    BY DEF Shown
  <2>2. ASSUME NEW s \in Side, NEW p \in Int
        PROVE  SizeAt(Apply(b, m)[s], p) =
                 IF m.kind = "Clear" THEN 0
                 ELSE IF m.kind = "Level"
                      THEN IF s = m.side /\ p = m.price THEN m.qty
                           ELSE Shown(b)[s][p]
                 ELSE IF p = m.price THEN IF s = m.side THEN m.qty ELSE 0
                 ELSE IF (IF s = "Buy" THEN p > m.price ELSE p < m.price) THEN 0
                 ELSE Shown(b)[s][p]
    BY <1>2, <2>1, ApplyIs
  <2>3. Following(Shown(b), m) =
          [s \in Side |-> [p \in Int |-> SizeAt(Apply(b, m)[s], p)]]
    BY <1>2, <2>2 DEF Following
  <2>. QED  BY <2>3 DEF Shown
<1>. QED  BY <1>1, <1>2

(* One more message in the ring.                                           *)
LEMMA RingGrows ==
  ASSUME NEW S, NEW r \in Seq(S), NEW e \in S, NEW M, NEW x, RingTrail(M, x, r),
         NEW y, y = Following(M[Len(r)], e.md),
         e.final => e.venue \in VenueBooks /\ IsTrue(y, e.sync, e.venue)
  PROVE  \E L : RingTrail(L, x, Append(r, e)) /\ L[Len(Append(r, e))] = y
<1>. DEFINE n == Len(r)
            q == Append(r, e)
            L == [i \in 0..(n + 1) |-> IF i = n + 1 THEN y ELSE M[i]]
<1>1. /\ n \in Nat /\ Len(q) = n + 1 /\ q[n + 1] = e
      /\ \A i \in 1..n : q[i] = r[i]
  OBVIOUS
<1>2. L[0] = x /\ L[n + 1] = y /\ \A i \in 0..n : L[i] = M[i]
  BY <1>1 DEF RingTrail
<1>. HIDE DEF n, q, L
<1>3. ASSUME NEW i \in 1..(n + 1)
      PROVE  /\ L[i] = Following(L[i - 1], q[i].md)
             /\ q[i].final =>
                  q[i].venue \in VenueBooks /\ IsTrue(L[i], q[i].sync, q[i].venue)
  <2>1. CASE i = n + 1
    <3>1. i - 1 = n /\ n \in 0..n
      BY <1>1, <2>1
    <3>. QED  BY <1>1, <1>2, <2>1, <3>1 DEF n
  <2>2. CASE i # n + 1
    <3>1. i \in 1..n /\ i \in 0..n /\ i - 1 \in 0..n
      BY <1>1, <2>2
    <3>2. /\ M[i] = Following(M[i - 1], r[i].md)
          /\ r[i].final =>
               r[i].venue \in VenueBooks /\ IsTrue(M[i], r[i].sync, r[i].venue)
      BY <3>1 DEF RingTrail, n
    <3>. QED  BY <1>1, <1>2, <3>1, <3>2
  <2>. QED  BY <2>1, <2>2
<1>4. RingTrail(L, x, q)
  BY <1>1, <1>2, <1>3 DEF RingTrail
<1>. QED  BY <1>1, <1>2, <1>4 DEF q

(* The first message of the ring is taken.                                 *)
LEMMA RingShrinks ==
  ASSUME NEW S, NEW r \in Seq(S), r # <<>>, NEW M, NEW x, RingTrail(M, x, r)
  PROVE  LET y == Following(x, Head(r).md)
         IN /\ \E L : RingTrail(L, y, Tail(r)) /\ L[Len(Tail(r))] = M[Len(r)]
            /\ Head(r).final =>
                 /\ Head(r).venue \in VenueBooks
                 /\ IsTrue(y, Head(r).sync, Head(r).venue)
<1>. DEFINE n == Len(r)
            y == Following(x, Head(r).md)
            q == Tail(r)
            L == [i \in 0..(n - 1) |-> M[i + 1]]
<1>1. /\ n \in Nat \ {0} /\ Len(q) = n - 1 /\ Head(r) = r[1]
      /\ \A i \in 1..(n - 1) : q[i] = r[i + 1]
  OBVIOUS
<1>2. /\ \A i \in 1..n :
           /\ M[i] = Following(M[i - 1], r[i].md)
           /\ r[i].final =>
                r[i].venue \in VenueBooks /\ IsTrue(M[i], r[i].sync, r[i].venue)
      /\ M[0] = x
  BY DEF RingTrail
<1>3. 1 \in 1..n /\ 1 - 1 = 0
  BY <1>1
<1>4. M[1] = y
  BY <1>1, <1>2, <1>3
<1>5. \A i \in 0..(n - 1) : L[i] = M[i + 1]
  OBVIOUS
<1>. HIDE DEF n, q, L, y
<1>6. L[0] = y /\ L[n - 1] = M[n]
  <2>1. 0 \in 0..(n - 1) /\ n - 1 \in 0..(n - 1) /\ (n - 1) + 1 = n /\ 0 + 1 = 1
    BY <1>1
  <2>. QED  BY <1>4, <1>5, <2>1
<1>7. ASSUME NEW i \in 1..(n - 1)
      PROVE  /\ L[i] = Following(L[i - 1], q[i].md)
             /\ q[i].final =>
                  q[i].venue \in VenueBooks /\ IsTrue(L[i], q[i].sync, q[i].venue)
  <2>1. /\ i \in 0..(n - 1) /\ i - 1 \in 0..(n - 1) /\ i + 1 \in 1..n
        /\ (i - 1) + 1 = i /\ (i + 1) - 1 = i
    BY <1>1
  <2>2. L[i] = M[i + 1] /\ L[i - 1] = M[i] /\ q[i] = r[i + 1]
    BY <1>1, <1>5, <2>1
  <2>3. /\ M[i + 1] = Following(M[i], r[i + 1].md)
        /\ r[i + 1].final => /\ r[i + 1].venue \in VenueBooks
                             /\ IsTrue(M[i + 1], r[i + 1].sync, r[i + 1].venue)
    BY <1>2, <2>1
  <2>. QED  BY <2>2, <2>3
<1>8. RingTrail(L, y, q)
  BY <1>1, <1>6, <1>7 DEF RingTrail
<1>9. Head(r).final => /\ Head(r).venue \in VenueBooks
                       /\ IsTrue(y, Head(r).sync, Head(r).venue)
  BY <1>1, <1>2, <1>3, <1>4
<1>. QED  BY <1>1, <1>6, <1>8, <1>9 DEF y, q, n

(* The first message that waits is taken.                                  *)
LEMMA PendingShrinks ==
  ASSUME NEW S, NEW d \in Seq(S), d # <<>>, NEW x, NEW told, NEW v,
         Tells(x, d, told, v)
  PROVE  LET y == Following(x, Head(d))
         IN /\ Tells(y, Tail(d), told, v)
            /\ Len(d) = 1 => IsTrue(y, told, v)
<1>. DEFINE n == Len(d)
            y == Following(x, Head(d))
            q == Tail(d)
<1>1. /\ n \in Nat \ {0} /\ Len(q) = n - 1 /\ Head(d) = d[1]
      /\ \A i \in 1..(n - 1) : q[i] = d[i + 1]
  OBVIOUS
<1>2. CASE told \notin {"all", "best"}
  BY <1>2 DEF Tells, IsTrue
<1>3. CASE told \in {"all", "best"}
  <2>1. PICK N : PendingTrail(N, x, d, told, v)
    BY <1>3 DEF Tells
  <2>. DEFINE L == [i \in 0..(n - 1) |-> N[i + 1]]
  <2>2. /\ N[0] = x /\ \A i \in 1..n : N[i] = Following(N[i - 1], d[i])
        /\ IsTrue(N[n], told, v)
    BY <2>1 DEF PendingTrail
  <2>3. 1 \in 1..n /\ 1 - 1 = 0
    BY <1>1
  <2>4. N[1] = y
    BY <1>1, <2>2, <2>3
  <2>5. \A i \in 0..(n - 1) : L[i] = N[i + 1]
    OBVIOUS
  <2>. HIDE DEF n, q, L, y
  <2>6. L[0] = y /\ L[n - 1] = N[n]
    <3>1. 0 \in 0..(n - 1) /\ n - 1 \in 0..(n - 1) /\ (n - 1) + 1 = n /\ 0 + 1 = 1
      BY <1>1
    <3>. QED  BY <2>4, <2>5, <3>1
  <2>7. ASSUME NEW i \in 1..(n - 1) PROVE L[i] = Following(L[i - 1], q[i])
    <3>1. /\ i \in 0..(n - 1) /\ i - 1 \in 0..(n - 1) /\ i + 1 \in 1..n
          /\ (i - 1) + 1 = i /\ (i + 1) - 1 = i
      BY <1>1
    <3>2. L[i] = N[i + 1] /\ L[i - 1] = N[i] /\ q[i] = d[i + 1]
      BY <1>1, <2>5, <3>1
    <3>3. N[i + 1] = Following(N[i], d[i + 1])
      BY <2>2, <3>1
    <3>. QED  BY <3>2, <3>3
  <2>8. PendingTrail(L, y, q, told, v)
    BY <1>1, <2>2, <2>6, <2>7 DEF PendingTrail
  <2>9. n = 1 => IsTrue(y, told, v)
    BY <2>2, <2>4
  <2>. QED  BY <2>8, <2>9 DEF Tells, y, q, n
<1>. QED  BY <1>2, <1>3

-----------------------------------------------------------------------------
(* Nothing has been told at the start, and nothing is quoted by the        *)
(* simulated venue.                                                        *)
LEMMA InitSynced == Init => SyncInv
<1>. SUFFICES ASSUME Init PROVE SyncInv
  OBVIOUS
<1>1. /\ ring = <<>> /\ pending = <<>> /\ book = EmptyBook /\ last = NoMsg
      /\ fpc = IF Simulated THEN "session" ELSE "head"
      /\ subscribed = Simulated /\ snapped = FALSE
      /\ sync = IF Simulated THEN "all" ELSE "none"
      /\ venue = IF Simulated THEN NoLevels ELSE StartBook
  BY DEF Init
<1>2. SyncOK
  BY <1>1 DEF SyncOK, Simulated
<1>3. IsTrue(Shown(EmptyBook), sync, venue)
  <2>1. \A s \in Side, p \in Prices : Shown(EmptyBook)[s][p] = 0
    BY EmptyIsBook, FeedAssumption DEF Shown
  <2>2. CASE Simulated
    BY <1>1, <2>1, <2>2 DEF IsTrue, NoLevels
  <2>3. CASE ~Simulated
    BY <1>1, <2>3 DEF IsTrue
  <2>. QED  BY <2>2, <2>3
<1>. DEFINE M == [i \in 0..0 |-> Shown(EmptyBook)]
<1>4. M[0] = Shown(EmptyBook)
  OBVIOUS
<1>. HIDE DEF M
<1>5. PICK x : x = Shown(EmptyBook)
  OBVIOUS
<1>6. RingTrail(M, x, <<>>) /\ PendingTrail(M, x, <<>>, sync, venue)
  BY <1>3, <1>4, <1>5 DEF RingTrail, PendingTrail
<1>7. TrailOK(x, <<>>, <<>>, sync, venue)
  <2>1. M[Len(<<>>)] = x
    BY <1>4, <1>5
  <2>. QED  BY <1>6, <2>1 DEF TrailOK, Tells
<1>. QED  BY <1>1, <1>2, <1>5, <1>7 DEF SyncInv, LastOK

(* Steps that tell nothing.                                                *)
LEMMA QuietSynced ==
  ASSUME SyncInv, SyncOK', UNCHANGED <<ring, pending, engineVars>>,
         sync' \notin {"all", "best"} \/ UNCHANGED <<sync, venue>>
  PROVE  SyncInv'
<1>1. /\ ring' = ring /\ pending' = pending /\ book' = book /\ last' = last
  BY DEF engineVars
<1>2. PICK M : /\ RingTrail(M, Shown(book), ring)
               /\ Tells(M[Len(ring)], pending, sync, venue)
  BY DEF SyncInv, TrailOK
<1>3. Tells(M[Len(ring)], pending, sync', venue')
  BY <1>2 DEF Tells
<1>4. TrailOK(Shown(book), ring, pending, sync', venue')
  BY <1>2, <1>3 DEF TrailOK
<1>5. LastOK'
  BY <1>1 DEF SyncInv, LastOK
<1>. QED  BY <1>1, <1>4, <1>5 DEF SyncInv

(* A message is pushed, or dropped and what was told is lost.               *)
LEMMA PushSynced == Typed /\ IInv /\ SyncInv /\ Push => SyncInv'
<1>. SUFFICES ASSUME Typed, IInv, SyncInv, Push PROVE SyncInv'
  OBVIOUS
<1>. DEFINE h == Head(pending)
            t == Tail(pending)
<1>1. /\ fpc = "flush" /\ pending # <<>> /\ pending \in Seq(Md) /\ pending' = t
      /\ feed' = feed /\ stop' = stop /\ venue' = venue /\ book' = book
      /\ last' = last /\ subscribed' = subscribed /\ snapped' = snapped
      /\ fpc' = IF pending' = <<>> THEN "session" ELSE "flush"
  BY DEF Push, Typed, engineVars, venueVars
<1>2. PICK S : ring \in Seq(S)
  BY DEF IInv, IsSequence
<1>3. PICK M : /\ RingTrail(M, Shown(book), ring)
               /\ Tells(M[Len(ring)], pending, sync, venue)
  BY DEF SyncInv, TrailOK
<1>4. PICK x : x = M[Len(ring)]
  OBVIOUS
<1>. HIDE DEF Md
<1>5. /\ Tells(Following(x, h), t, sync, venue)
      /\ Len(pending) = 1 => IsTrue(Following(x, h), sync, venue)
  BY <1>1, <1>3, <1>4, PendingShrinks
<1>6. LastOK'
  BY <1>1 DEF SyncInv, LastOK
<1>7. CASE HasRoom
  <2>1. PICK e : /\ ring' = Append(ring, e) /\ e.md = h
                 /\ e.final = (Len(pending) = 1)
                 /\ e.final => e.sync = sync /\ e.venue = venue
    <3>1. PICK e : e = Entry(h, seq', Len(pending) = 1)
      OBVIOUS
    <3>2. /\ e.md = h /\ e.final = (Len(pending) = 1)
          /\ e.final => e.sync = sync /\ e.venue = venue
      BY <3>1 DEF Entry
    <3>. QED  BY <1>7, <3>1, <3>2 DEF Push
  <2>2. sync' = sync
    BY <1>7 DEF Push
  <2>3. PICK T : T = S \cup {e}
    OBVIOUS
  <2>4. ring \in Seq(T) /\ e \in T
    BY <1>2, <2>3
  <2>. HIDE DEF h, t
  <2>5. PICK y : y = Following(x, h)
    OBVIOUS
  <2>6. e.final => e.venue \in VenueBooks /\ IsTrue(y, e.sync, e.venue)
    BY <1>5, <2>1, <2>5 DEF Typed
  <2>7. PICK r : r = Append(ring, e)
    OBVIOUS
  <2>8. PICK L : RingTrail(L, Shown(book), r) /\ L[Len(r)] = y
    BY <1>3, <1>4, <2>1, <2>4, <2>5, <2>6, <2>7, RingGrows
  <2>9. TrailOK(Shown(book), r, t, sync, venue)
    BY <1>5, <2>5, <2>8 DEF TrailOK
  <2>10. SyncOK'
    BY <1>1, <2>2 DEF SyncInv, SyncOK
  <2>. QED  BY <1>1, <1>6, <2>1, <2>2, <2>7, <2>9, <2>10 DEF SyncInv
<1>8. CASE ~HasRoom
  <2>1. ring' = ring /\ sync' = SyncWithout(h)
    BY <1>8 DEF Push
  <2>2. SyncOK'
    BY <1>1, <2>1 DEF SyncInv, SyncOK, SyncWithout, Lost
  <2>3. Tells(x, t, sync', venue)
    <3>1. CASE h.kind = "Trade"
      BY <1>5, <2>1, <3>1 DEF SyncWithout, Following
    <3>2. CASE h.kind # "Trade"
      BY <2>1, <3>2 DEF SyncWithout, Lost, Tells
    <3>. QED  BY <3>1, <3>2
  <2>4. TrailOK(Shown(book), ring, t, sync', venue)
    BY <1>3, <1>4, <2>3 DEF TrailOK
  <2>. QED  BY <1>1, <1>6, <2>1, <2>2, <2>4 DEF SyncInv
<1>. QED  BY <1>7, <1>8

(* The engine takes the first message of the ring.                         *)
LEMMA OnMdSynced == Typed /\ IInv /\ SyncInv /\ OnMd => SyncInv'
<1>. SUFFICES ASSUME Typed, IInv, SyncInv, OnMd PROVE SyncInv'
  OBVIOUS
<1>1. /\ ring # <<>> /\ ring' = Tail(ring) /\ last' = Head(ring)
      /\ UNCHANGED <<feed, fpc, stop, venue, subscribed, snapped, pending, sync>>
  BY DEF OnMd, venueVars
<1>2. PICK S : ring \in Seq(S)
  BY DEF IInv, IsSequence
<1>3. PICK M : /\ RingTrail(M, Shown(book), ring)
               /\ Tells(M[Len(ring)], pending, sync, venue)
  BY DEF SyncInv, TrailOK
<1>4. PICK h : h = Head(ring)
  OBVIOUS
<1>5. Shown(Apply(book, h.md)) = Following(Shown(book), h.md)
  BY <1>1, <1>4, OnMdIs, ShownIs DEF Typed
<1>6. book' = Apply(book, h.md)
  BY <1>1, <1>4, OnMdIs
<1>7. PICK b : b = Apply(book, h.md)
  OBVIOUS
<1>8. /\ \E L : /\ RingTrail(L, Following(Shown(book), Head(ring).md), Tail(ring))
                /\ L[Len(Tail(ring))] = M[Len(ring)]
      /\ Head(ring).final =>
           /\ Head(ring).venue \in VenueBooks
           /\ IsTrue(Following(Shown(book), Head(ring).md), Head(ring).sync,
                     Head(ring).venue)
  BY <1>1, <1>2, <1>3, RingShrinks
<1>9. /\ \E L : /\ RingTrail(L, Shown(b), Tail(ring))
                /\ L[Len(Tail(ring))] = M[Len(ring)]
      /\ h.final => h.venue \in VenueBooks /\ IsTrue(Shown(b), h.sync, h.venue)
  BY <1>4, <1>5, <1>7, <1>8
<1>10. TrailOK(Shown(b), Tail(ring), pending, sync, venue)
  BY <1>3, <1>9 DEF TrailOK
<1>11. SyncOK'
  BY <1>1 DEF SyncInv, SyncOK
<1>12. LastOK'
  BY <1>1, <1>4, <1>6, <1>7, <1>9 DEF LastOK
<1>. QED  BY <1>1, <1>6, <1>7, <1>10, <1>11, <1>12 DEF SyncInv

(* Whatever the feed thread does between frames. *)
LEMMA LoopSynced ==
  ASSUME Typed, SyncInv,
         LoopHead \/ Connect \/ SessionHead \/ Timeout \/ Fail \/ Stop
           \/ VenueMovesUnseen \/ UNCHANGED vars
  PROVE  SyncInv'
<1>. USE DEF engineVars, emitterVars, venueVars
<1>1. CASE LoopHead \/ SessionHead \/ Timeout \/ Stop \/ UNCHANGED vars
  <2>1. UNCHANGED <<ring, pending, engineVars, sync, venue>>
    BY <1>1 DEF LoopHead, SessionHead, Timeout, Stop, vars
  <2>2. SyncOK'
    BY <1>1 DEF LoopHead, SessionHead, Timeout, Stop, vars, SyncInv, SyncOK
  <2>. QED  BY <2>1, <2>2, QuietSynced
<1>2. CASE Connect
  <2>1. UNCHANGED <<ring, pending, engineVars, sync, venue>>
    BY <1>2 DEF Connect
  <2>2. SyncOK'
    BY <1>2 DEF Connect, SyncInv, SyncOK
  <2>. QED  BY <2>1, <2>2, QuietSynced
<1>3. CASE Fail
  <2>1. UNCHANGED <<ring, pending, engineVars>> /\ sync' = "none"
    BY <1>3 DEF Fail
  <2>2. SyncOK'
    BY <1>3 DEF Fail, SyncInv, SyncOK
  <2>. QED  BY <2>1, <2>2, QuietSynced
<1>4. CASE VenueMovesUnseen
  <2>1. UNCHANGED <<ring, pending, engineVars, sync>>
    BY <1>4 DEF VenueMovesUnseen
  <2>2. SyncOK' /\ sync' = "none"
    BY <1>4 DEF VenueMovesUnseen, SyncInv, SyncOK
  <2>. QED  BY <2>1, <2>2, QuietSynced
<1>. QED  BY <1>1, <1>2, <1>3, <1>4

-----------------------------------------------------------------------------
(* The rows of a side: its prices with their sizes, the best one first.     *)
LEMMA RowsAre ==
  ASSUME NEW v \in VenueBooks, NEW s \in Side, NEW rows, rows = BestFirst(v, s)
  PROVE  /\ rows \in Seq(RowSet)
         /\ \A i \in 1..Len(rows) :
              rows[i].price \in Quoted(v, s) /\ rows[i].qty = v[s][rows[i].price]
         /\ \A p \in Quoted(v, s) : \E i \in 1..Len(rows) : rows[i].price = p
         /\ Quotes(v, s) => rows # <<>> /\ IsTop(v, s, rows[1].price)
<1>. DEFINE n == Cardinality(Quoted(v, s))
            R(i) == CHOOSE p \in Quoted(v, s) : Cardinality(Ahead(v, s, p)) = i - 1
<1>1. /\ rows \in Seq(RowSet) /\ Len(rows) = n /\ n \in Nat
      /\ Quotes(v, s) => rows # <<>>
  BY BestFirstIs, RankIs
<1>2. \A i \in 1..n :
        R(i) \in Quoted(v, s) /\ Cardinality(Ahead(v, s, R(i))) = i - 1
  BY RankIs
<1>3. rows = [i \in 1..n |-> Level(R(i), v[s][R(i)])]
  BY DEF BestFirst
<1>. HIDE DEF R
<1>4. \A i \in 1..n : rows[i].price = R(i) /\ rows[i].qty = v[s][R(i)]
  BY <1>3 DEF Level
<1>5. ASSUME NEW p \in Quoted(v, s) PROVE \E i \in 1..n : rows[i].price = p
  <2>1. PICK c : c = Cardinality(Ahead(v, s, p))
    OBVIOUS
  <2>2. c \in 0..(n - 1)
    BY <2>1, RankIs
  <2>3. c + 1 \in 1..n /\ (c + 1) - 1 = c
    BY <1>1, <2>2
  <2>4. R(c + 1) \in Quoted(v, s) /\ Cardinality(Ahead(v, s, R(c + 1))) = c
    BY <1>2, <2>3
  <2>5. R(c + 1) = p
    BY <2>1, <2>4, RankIs
  <2>. QED  BY <1>4, <2>3, <2>5
<1>6. ASSUME Quotes(v, s) PROVE IsTop(v, s, rows[1].price)
  <2>1. 1 \in 1..n /\ 1 - 1 = 0
    BY <1>1, <1>6
  <2>2. PICK p : p = rows[1].price
    OBVIOUS
  <2>3. p \in Quoted(v, s) /\ Cardinality(Ahead(v, s, p)) = 0
    BY <1>2, <1>4, <2>1, <2>2
  <2>4. IsFiniteSet(Ahead(v, s, p))
    BY <2>3, RankIs
  <2>5. Ahead(v, s, p) = {}
    BY <2>3, <2>4, FS_EmptySet
  <2>. QED  BY <2>2, <2>3, <2>5 DEF IsTop
<1>7. \A i \in 1..n :
        rows[i].price \in Quoted(v, s) /\ rows[i].qty = v[s][rows[i].price]
  <2>. SUFFICES ASSUME NEW i \in 1..n
                PROVE  rows[i].price \in Quoted(v, s) /\ rows[i].qty = v[s][rows[i].price]
    OBVIOUS
  <2>1. PICK p : p = R(i)
    OBVIOUS
  <2>2. p \in Quoted(v, s) /\ rows[i].price = p /\ rows[i].qty = v[s][p]
    BY <1>2, <1>4, <2>1
  <2>. QED  BY <2>2
<1>. HIDE DEF n
<1>. QED  BY <1>1, <1>5, <1>6, <1>7

(* Two prices at the top of a side are one.                                 *)
LEMMA OneTop ==
  ASSUME NEW v \in VenueBooks, NEW s \in Side, NEW p, NEW q,
         IsTop(v, s, p), IsTop(v, s, q)
  PROVE  p = q
<1>1. p \in Int /\ q \in Int /\ p \in Quoted(v, s) /\ q \in Quoted(v, s)
  BY FeedAssumption DEF IsTop, Quoted
<1>2. ~(Key(s, p) > Key(s, q)) /\ ~(Key(s, q) > Key(s, p))
  BY <1>1 DEF IsTop, Ahead
<1>. QED  BY <1>1, <1>2, KeyIs

-----------------------------------------------------------------------------
(* Messages that tell nothing of the book.                                  *)
LEMMA NothingTold ==
  ASSUME NEW d \in Seq(Md), \A i \in 1..Len(d) : d[i].kind = "Trade",
         NEW x, NEW told, NEW v, IsTrue(x, told, v)
  PROVE  Tells(x, d, told, v)
<1>. DEFINE N == [i \in 0..Len(d) |-> x]
<1>1. Len(d) \in Nat
  OBVIOUS
<1>2. \A i \in 0..Len(d) : N[i] = x
  OBVIOUS
<1>. HIDE DEF N
<1>3. \A i \in 1..Len(d) : i \in 0..Len(d) /\ i - 1 \in 0..Len(d)
  BY <1>1
<1>4. N[0] = x /\ N[Len(d)] = x
  BY <1>1, <1>2
<1>5. \A i \in 1..Len(d) : N[i] = Following(N[i - 1], d[i])
  BY <1>2, <1>3 DEF Following
<1>. QED  BY <1>4, <1>5 DEF Tells, PendingTrail

(* One message.                                                             *)
LEMMA OneTold ==
  ASSUME NEW m, NEW x, NEW told, NEW v, IsTrue(Following(x, m), told, v)
  PROVE  Tells(x, <<m>>, told, v)
<1>1. PICK y : y = Following(x, m)
  OBVIOUS
<1>. DEFINE N == [i \in 0..1 |-> IF i = 0 THEN x ELSE y]
<1>2. N[0] = x /\ N[1] = y
  OBVIOUS
<1>. HIDE DEF N
<1>3. \A i \in 1..1 : i = 1 /\ i - 1 = 0
  OBVIOUS
<1>4. Len(<<m>>) = 1 /\ <<m>>[1] = m
  OBVIOUS
<1>5. PendingTrail(N, x, <<m>>, told, v)
  BY <1>1, <1>2, <1>3, <1>4 DEF PendingTrail
<1>. QED  BY <1>5 DEF Tells

(* Two messages.                                                            *)
LEMMA TwoTold ==
  ASSUME NEW m, NEW o, NEW x, NEW told, NEW v,
         IsTrue(Following(Following(x, m), o), told, v)
  PROVE  Tells(x, <<m, o>>, told, v)
<1>1. PICK y : y = Following(x, m)
  OBVIOUS
<1>2. PICK z : z = Following(y, o)
  OBVIOUS
<1>. DEFINE N == [i \in 0..2 |-> IF i = 0 THEN x ELSE IF i = 1 THEN y ELSE z]
<1>3. N[0] = x /\ N[1] = y /\ N[2] = z
  OBVIOUS
<1>. HIDE DEF N
<1>4. \A i \in 1..2 : (i = 1 /\ i - 1 = 0) \/ (i = 2 /\ i - 1 = 1)
  OBVIOUS
<1>5. Len(<<m, o>>) = 2 /\ <<m, o>>[1] = m /\ <<m, o>>[2] = o
  OBVIOUS
<1>6. \A i \in 1..Len(<<m, o>>) : N[i] = Following(N[i - 1], <<m, o>>[i])
  BY <1>1, <1>2, <1>3, <1>4, <1>5
<1>7. PendingTrail(N, x, <<m, o>>, told, v)
  BY <1>1, <1>2, <1>3, <1>5, <1>6 DEF PendingTrail
<1>. QED  BY <1>7 DEF Tells

-----------------------------------------------------------------------------
(* Levels that tell a whole book, after a clear.                            *)
TellsBook(r, v) ==
  /\ \A j \in 1..Len(r) : /\ r[j].kind = "Level" /\ r[j].side \in Side
                          /\ r[j].price \in Quoted(v, r[j].side)
                          /\ r[j].qty = v[r[j].side][r[j].price]
  /\ \A s \in Side : \A p \in Quoted(v, s) :
       \E j \in 1..Len(r) : r[j].side = s /\ r[j].price = p

LEMMA SnapshotTold ==
  ASSUME NEW v \in VenueBooks, NEW r \in Seq(Md), TellsBook(r, v), NEW x
  PROVE  Tells(x, <<ClearMsg>> \o r, "all", v)
<1>. DEFINE n == Len(r)
            d == <<ClearMsg>> \o r
            Told(k, s, p) == \E j \in 1..k : r[j].side = s /\ r[j].price = p
            Y(k) == [s \in Side |-> [p \in Int |-> IF Told(k, s, p) THEN v[s][p] ELSE 0]]
            N == [k \in 0..(n + 1) |-> IF k = 0 THEN x ELSE Y(k - 1)]
<1>1. /\ n \in Nat /\ Len(d) = n + 1 /\ d[1] = ClearMsg
      /\ \A k \in 1..n : d[k + 1] = r[k]
  <2>1. <<ClearMsg>> \in Seq(Md) /\ Len(<<ClearMsg>>) = 1 /\ <<ClearMsg>>[1] = ClearMsg
    BY DEF Md
  <2>2. n \in Nat
    OBVIOUS
  <2>. HIDE DEF Md, d, n
  <2>3. /\ Len(d) = 1 + n
        /\ \A k \in 1..(1 + n) : d[k] = IF k <= 1 THEN <<ClearMsg>>[k] ELSE r[k - 1]
    BY <2>1, ConcatAt DEF d, n
  <2>4. d[1] = ClearMsg
    <3>1. 1 \in 1..(1 + n) /\ 1 <= 1
      BY <2>2
    <3>. QED  BY <2>1, <2>3, <3>1
  <2>5. ASSUME NEW k \in 1..n PROVE d[k + 1] = r[k]
    <3>1. k + 1 \in 1..(1 + n) /\ ~(k + 1 <= 1) /\ (k + 1) - 1 = k
      BY <2>2
    <3>. QED  BY <2>3, <3>1
  <2>. QED  BY <2>2, <2>3, <2>4, <2>5
<1>2. N[0] = x /\ \A k \in 0..n : N[k + 1] = Y(k)
  <2>. HIDE DEF Y, n, d
  <2>1. 0 \in 0..(n + 1)
    BY <1>1
  <2>2. ASSUME NEW k \in 0..n PROVE N[k + 1] = Y(k)
    <3>1. k + 1 \in 0..(n + 1) /\ k + 1 # 0 /\ (k + 1) - 1 = k
      BY <1>1
    <3>. QED  BY <3>1
  <2>. QED  BY <2>1, <2>2
<1>. HIDE DEF n, d, N
<1>3. \A k, s, p : Told(k, s, p) <=> \E j \in 1..k : r[j].side = s /\ r[j].price = p
  OBVIOUS
<1>4. \A k : \A s \in Side, p \in Int :
        Y(k)[s][p] = IF Told(k, s, p) THEN v[s][p] ELSE 0
  OBVIOUS
<1>5. Y(0) = Following(x, ClearMsg)
  <2>1. \A s, p : ~Told(0, s, p)
    BY <1>3
  <2>2. ClearMsg.kind = "Clear"
    BY DEF ClearMsg
  <2>3. Following(x, ClearMsg) = [s \in Side |-> [p \in Int |-> 0]]
    BY <2>2 DEF Following
  <2>4. Y(0) = [s \in Side |-> [p \in Int |-> 0]]
    BY <2>1
  <2>. QED  BY <2>3, <2>4
<1>6. ASSUME NEW k \in 1..n PROVE Y(k) = Following(Y(k - 1), r[k])
  <2>1. /\ r[k].kind = "Level" /\ r[k].side \in Side
        /\ r[k].price \in Int /\ r[k].qty = v[r[k].side][r[k].price]
    BY <1>6, FeedAssumption DEF TellsBook, Quoted, n
  <2>2. PICK m : m = r[k]
    OBVIOUS
  <2>3. \A j \in 1..k : j = k \/ j \in 1..(k - 1)
    BY <1>1
  <2>4. 1..(k - 1) \subseteq 1..k /\ k \in 1..k
    BY <1>1
  <2>5. ASSUME NEW s, NEW p
        PROVE  Told(k, s, p) <=> Told(k - 1, s, p) \/ (s = m.side /\ p = m.price)
    BY <1>3, <2>2, <2>3, <2>4
  <2>. HIDE DEF Told
  <2>6. PICK y : y = Y(k - 1)
    OBVIOUS
  <2>7. \A s \in Side, p \in Int :
          y[s][p] = IF Told(k - 1, s, p) THEN v[s][p] ELSE 0
    BY <1>4, <2>6
  <2>8. Following(y, m) = [s \in Side |-> [p \in Int |->
          IF s = m.side /\ p = m.price THEN m.qty ELSE y[s][p]]]
    BY <2>1, <2>2 DEF Following
  <2>9. \A s \in Side, p \in Int :
          (IF Told(k, s, p) THEN v[s][p] ELSE 0) =
            IF s = m.side /\ p = m.price THEN m.qty ELSE y[s][p]
    BY <2>1, <2>2, <2>5, <2>7
  <2>10. Y(k) = Following(y, m)
    BY <2>8, <2>9
  <2>. QED  BY <2>2, <2>6, <2>10
<1>7. IsTrue(Y(n), "all", v)
  <2>1. ASSUME NEW s \in Side, NEW p \in Prices PROVE Y(n)[s][p] = v[s][p]
    <3>1. p \in Int /\ v[s][p] \in Nat
      BY FeedAssumption DEF VenueBooks
    <3>2. v[s][p] > 0 => Told(n, s, p)
      BY <1>3 DEF TellsBook, Quoted, n
    <3>3. Y(n)[s][p] = IF Told(n, s, p) THEN v[s][p] ELSE 0
      BY <1>4, <3>1
    <3>. HIDE DEF Told, Y
    <3>. QED  BY <3>1, <3>2, <3>3
  <2>. HIDE DEF Y
  <2>. QED  BY <2>1 DEF IsTrue
<1>. HIDE DEF Y
<1>8. ASSUME NEW i \in 1..(n + 1) PROVE N[i] = Following(N[i - 1], d[i])
  <2>1. CASE i = 1
    <3>1. 0 \in 0..n /\ 0 + 1 = 1 /\ 1 - 1 = 0
      BY <1>1
    <3>. QED  BY <1>1, <1>2, <1>5, <2>1, <3>1
  <2>2. CASE i # 1
    <3>1. PICK k \in 1..n : i = k + 1
      <4>1. i - 1 \in 1..n /\ i = (i - 1) + 1
        BY <1>1, <2>2
      <4>. QED  BY <4>1
    <3>2. /\ k \in 0..n /\ k - 1 \in 0..n /\ (k - 1) + 1 = k /\ i - 1 = k
      BY <1>1, <3>1
    <3>3. N[i] = Y(k) /\ N[i - 1] = Y(k - 1) /\ d[i] = r[k]
      BY <1>1, <1>2, <3>1, <3>2
    <3>. QED  BY <1>6, <3>3
  <2>. QED  BY <2>1, <2>2
<1>9. N[n + 1] = Y(n)
  <2>1. n \in 0..n
    BY <1>1
  <2>. QED  BY <1>2, <2>1
<1>10. PendingTrail(N, x, d, "all", v)
  BY <1>1, <1>2, <1>7, <1>8, <1>9 DEF PendingTrail
<1>. QED  BY <1>10 DEF Tells, d

(* The rows of both sides tell the whole book.                              *)
LEMMA BothSidesTell ==
  ASSUME NEW v \in VenueBooks, NEW f \in BookFrames,
         f.bids = BestFirst(v, "Buy"), f.asks = BestFirst(v, "Sell")
  PROVE  BothSides(f) \in Seq(Md) /\ TellsBook(BothSides(f), v)
<1>. DEFINE B == Rows("Buy", f.bids)
            A == Rows("Sell", f.asks)
            r == BothSides(f)
<1>1. /\ f.bids \in Seq(RowSet) /\ f.asks \in Seq(RowSet)
      /\ Len(f.bids) \in Nat /\ Len(f.asks) \in Nat
  BY DEF BookFrames
<1>2. B \in Seq(Md) /\ A \in Seq(Md)
  BY <1>1, RowsTyped DEF Side
<1>3. /\ Len(B) = Len(f.bids) /\ Len(A) = Len(f.asks)
      /\ \A i \in 1..Len(f.bids) :
           B[i] = LevelMsg("Buy", f.bids[i].price, f.bids[i].qty)
      /\ \A i \in 1..Len(f.asks) :
           A[i] = LevelMsg("Sell", f.asks[i].price, f.asks[i].qty)
  BY <1>1, <1>2 DEF Rows
<1>4. PICK nb \in Nat, na \in Nat : nb = Len(f.bids) /\ na = Len(f.asks)
  BY <1>1
<1>. HIDE DEF B, A, Md
<1>5. /\ r \in Seq(Md) /\ Len(r) = nb + na
      /\ \A j \in 1..(nb + na) : r[j] = IF j <= nb THEN B[j] ELSE A[j - nb]
  <2>1. r = B \o A /\ B \in Seq(Md) /\ A \in Seq(Md) /\ Len(B) = nb /\ Len(A) = na
    BY <1>2, <1>3, <1>4 DEF BothSides, B, A
  <2>2. /\ B \o A \in Seq(Md) /\ Len(B \o A) = Len(B) + Len(A)
        /\ \A j \in 1..(Len(B) + Len(A)) :
             (B \o A)[j] = IF j <= Len(B) THEN B[j] ELSE A[j - Len(B)]
    BY <2>1, ConcatAt
  <2>. HIDE DEF r
  <2>. QED  BY <2>1, <2>2
<1>. HIDE DEF r
<1>6. \A i \in 1..nb : /\ f.bids[i].price \in Quoted(v, "Buy")
                       /\ f.bids[i].qty = v["Buy"][f.bids[i].price]
  BY <1>4, RowsAre DEF Side
<1>7. \A i \in 1..na : /\ f.asks[i].price \in Quoted(v, "Sell")
                       /\ f.asks[i].qty = v["Sell"][f.asks[i].price]
  BY <1>4, RowsAre DEF Side
<1>8. /\ \A i \in 1..nb : /\ B[i].kind = "Level" /\ B[i].side = "Buy"
                          /\ B[i].price = f.bids[i].price /\ B[i].qty = f.bids[i].qty
      /\ \A i \in 1..na : /\ A[i].kind = "Level" /\ A[i].side = "Sell"
                          /\ A[i].price = f.asks[i].price /\ A[i].qty = f.asks[i].qty
  <2>1. \A t, p, q : /\ LevelMsg(t, p, q).kind = "Level" /\ LevelMsg(t, p, q).side = t
                     /\ LevelMsg(t, p, q).price = p /\ LevelMsg(t, p, q).qty = q
    BY DEF LevelMsg
  <2>2. /\ \A i \in 1..nb : B[i] = LevelMsg("Buy", f.bids[i].price, f.bids[i].qty)
        /\ \A i \in 1..na : A[i] = LevelMsg("Sell", f.asks[i].price, f.asks[i].qty)
    BY <1>3, <1>4
  <2>. QED  BY <2>1, <2>2
<1>9. ASSUME NEW j \in 1..(nb + na)
      PROVE  /\ r[j].kind = "Level" /\ r[j].side \in Side
             /\ r[j].price \in Quoted(v, r[j].side)
             /\ r[j].qty = v[r[j].side][r[j].price]
  <2>1. CASE j <= nb
    <3>1. j \in 1..nb
      BY <2>1
    <3>. QED  BY <1>5, <1>6, <1>8, <2>1, <3>1 DEF Side
  <2>2. CASE ~(j <= nb)
    <3>1. j - nb \in 1..na
      BY <2>2
    <3>. QED  BY <1>5, <1>7, <1>8, <2>2, <3>1 DEF Side
  <2>. QED  BY <2>1, <2>2
<1>10. ASSUME NEW p \in Quoted(v, "Buy")
       PROVE  \E j \in 1..(nb + na) : r[j].side = "Buy" /\ r[j].price = p
  <2>1. PICK i \in 1..nb : f.bids[i].price = p
    BY <1>4, RowsAre DEF Side
  <2>2. i \in 1..(nb + na) /\ i <= nb
    OBVIOUS
  <2>. QED  BY <1>5, <1>8, <2>1, <2>2
<1>11. ASSUME NEW p \in Quoted(v, "Sell")
       PROVE  \E j \in 1..(nb + na) : r[j].side = "Sell" /\ r[j].price = p
  <2>1. PICK i \in 1..na : f.asks[i].price = p
    BY <1>4, RowsAre DEF Side
  <2>2. nb + i \in 1..(nb + na) /\ ~(nb + i <= nb) /\ (nb + i) - nb = i
    OBVIOUS
  <2>. QED  BY <1>5, <1>8, <2>1, <2>2
<1>12. TellsBook(r, v)
  <2>1. ASSUME NEW s \in Side, NEW p \in Quoted(v, s)
        PROVE  \E j \in 1..(nb + na) : r[j].side = s /\ r[j].price = p
    <3>1. CASE s = "Buy"
      BY <1>10, <3>1
    <3>2. CASE s = "Sell"
      BY <1>11, <3>2
    <3>. QED  BY <3>1, <3>2 DEF Side
  <2>2. Len(r) = nb + na
    BY <1>5
  <2>. QED  BY <1>9, <2>1, <2>2 DEF TellsBook
<1>. QED  BY <1>5, <1>12 DEF r

(* Two tops tell the best of both sides.                                    *)
LEMMA TopsAgree ==
  ASSUME NEW v \in VenueBooks, Uncrossed(v), NEW x, NEW b, NEW a,
         IsTop(v, "Buy", b), IsTop(v, "Sell", a)
  PROVE  Agrees(Following(Following(x, TopMsg("Buy", b, v["Buy"][b])),
                          TopMsg("Sell", a, v["Sell"][a])), v)
<1>. DEFINE tb == TopMsg("Buy", b, v["Buy"][b])
            ta == TopMsg("Sell", a, v["Sell"][a])
<1>1. /\ b \in Prices /\ a \in Prices /\ b \in Int /\ a \in Int
      /\ v["Buy"][b] > 0 /\ v["Sell"][a] > 0
  BY FeedAssumption DEF IsTop, Quoted
<1>2. b < a
  BY <1>1 DEF Uncrossed
<1>3. PICK y : y = Following(x, tb)
  OBVIOUS
<1>4. PICK z : z = Following(y, ta)
  OBVIOUS
<1>5. /\ y["Buy"][b] = v["Buy"][b]
      /\ \A p \in Int : p > b => y["Buy"][p] = 0
  BY <1>1, <1>3 DEF Following, TopMsg, Side
<1>6. /\ z["Sell"][a] = v["Sell"][a]
      /\ \A p \in Int : p < a => z["Sell"][p] = 0 /\ z["Buy"][p] = y["Buy"][p]
      /\ \A p \in Int : p >= a => z["Buy"][p] = 0
  BY <1>1, <1>4 DEF Following, TopMsg, Side
<1>7. /\ z["Buy"][b] = v["Buy"][b]
      /\ \A p \in Int : p > b => z["Buy"][p] = 0
  BY <1>1, <1>2, <1>5, <1>6
<1>8. ASSUME NEW s \in Side, NEW p \in Prices, IsTop(v, s, p)
      PROVE  /\ z[s][p] = v[s][p]
             /\ \A q \in Int : Key(s, q) > Key(s, p) => z[s][q] = 0
  <2>1. p \in Int
    BY FeedAssumption
  <2>2. CASE s = "Buy"
    <3>1. p = b
      BY <1>8, <2>2, OneTop
    <3>. QED  BY <1>7, <2>1, <2>2, <3>1, KeyIs
  <2>3. CASE s = "Sell"
    <3>1. p = a
      BY <1>8, <2>3, OneTop
    <3>. QED  BY <1>6, <2>1, <2>3, <3>1, KeyIs
  <2>. QED  BY <2>2, <2>3 DEF Side
<1>9. Agrees(z, v)
  BY <1>8 DEF Agrees
<1>. QED  BY <1>3, <1>4, <1>9

-----------------------------------------------------------------------------
(* A frame leaves the ring and the book alone; what it makes wait has to    *)
(* tell what sync says of the venue's book.                                 *)
LEMMA FrameSynced ==
  ASSUME SyncInv, NEW f, OnFrame(f), feed' = feed,
         f.channel = "best" => feed \notin {"kraken", "sim"},
         ~subscribed' \/ (feed = "kraken" /\ ~snapped') => sync' = "none",
         \A x : IsTrue(x, sync, venue) => Tells(x, pending', sync', venue')
  PROVE  SyncInv'
<1>1. /\ fpc = "recv" /\ ring' = ring /\ book' = book /\ last' = last
      /\ fpc' \in {"session", "flush"}
      /\ fpc' # "flush" => pending' = <<>>
      /\ sync' \in {SyncAfter(f), Lost, sync}
  BY DEF OnFrame, engineVars
<1>2. sync' = "best" => sync = "best" \/ f.channel = "best"
  BY <1>1 DEF SyncAfter, Lost
<1>3. sync' \in {"none", "all", "best", "lost"}
  BY <1>1 DEF SyncInv, SyncOK, SyncAfter, Lost
<1>4. SyncOK'
  BY <1>1, <1>2, <1>3 DEF SyncInv, SyncOK
<1>5. PICK M : /\ RingTrail(M, Shown(book), ring)
               /\ Tells(M[Len(ring)], pending, sync, venue)
  BY DEF SyncInv, TrailOK
<1>6. PICK x : x = M[Len(ring)]
  OBVIOUS
<1>7. IsTrue(x, sync, venue)
  <2>1. CASE sync \in {"all", "best"}
    <3>1. PICK N : PendingTrail(N, x, pending, sync, venue)
      BY <1>5, <1>6, <2>1 DEF Tells
    <3>2. pending = <<>> /\ Len(<<>>) = 0
      BY <1>1 DEF SyncInv, SyncOK
    <3>. QED  BY <3>1, <3>2 DEF PendingTrail
  <2>2. CASE sync \notin {"all", "best"}
    BY <2>2 DEF IsTrue
  <2>. QED  BY <2>1, <2>2
<1>8. Tells(x, pending', sync', venue')
  BY <1>7
<1>9. TrailOK(Shown(book), ring, pending', sync', venue')
  BY <1>5, <1>6, <1>8 DEF TrailOK
<1>10. LastOK'
  BY <1>1 DEF SyncInv, LastOK
<1>. QED  BY <1>1, <1>4, <1>9, <1>10 DEF SyncInv

(* One level of the venue's book changes.                                   *)
LEMMA LevelTold ==
  ASSUME NEW v \in VenueBooks, NEW s \in Side, NEW p \in Prices, NEW q, NEW x,
         IsTrue(x, "all", v)
  PROVE  IsTrue(Following(x, LevelMsg(s, p, q)), "all", [v EXCEPT ![s][p] = q])
<1>1. PICK w : w = [v EXCEPT ![s][p] = q]
  OBVIOUS
<1>2. PICK y : y = Following(x, LevelMsg(s, p, q))
  OBVIOUS
<1>3. \A t \in Side, r \in Prices :
        w[t][r] = IF t = s /\ r = p THEN q ELSE v[t][r]
  BY <1>1 DEF VenueBooks
<1>4. \A t \in Side, r \in Prices :
        y[t][r] = IF t = s /\ r = p THEN q ELSE x[t][r]
  BY <1>2, FeedAssumption DEF Following, LevelMsg
<1>5. \A t \in Side, r \in Prices : x[t][r] = v[t][r]
  BY DEF IsTrue
<1>6. IsTrue(y, "all", w)
  BY <1>3, <1>4, <1>5 DEF IsTrue
<1>. QED  BY <1>1, <1>2, <1>6

(* The rows of a changed level: its message.                                *)
LEMMA OneLevel ==
  ASSUME NEW s \in Side, NEW p \in Int, NEW q \in Nat, NEW f,
         f.bids = IF "Buy" = s THEN <<Level(p, q)>> ELSE <<>>,
         f.asks = IF "Sell" = s THEN <<Level(p, q)>> ELSE <<>>
  PROVE  BothSides(f) = <<LevelMsg(s, p, q)>>
<1>1. PICK l : l = Level(p, q)
  OBVIOUS
<1>2. \A t : Rows(t, <<>>) = <<>>
  BY DEF Rows
<1>3. Rows(s, <<l>>) = <<LevelMsg(s, p, q)>>
  <2>1. l.price = p /\ l.qty = q
    BY <1>1 DEF Level
  <2>2. DOMAIN <<l>> = 1..1 /\ <<l>>[1] = l
    OBVIOUS
  <2>3. Rows(s, <<l>>) = [i \in 1..1 |-> LevelMsg(s, <<l>>[i].price, <<l>>[i].qty)]
    BY <2>2 DEF Rows
  <2>4. \A i \in 1..1 : LevelMsg(s, <<l>>[i].price, <<l>>[i].qty) = LevelMsg(s, p, q)
    <3>1. \A i \in 1..1 : i = 1
      OBVIOUS
    <3>. QED  BY <2>1, <2>2, <3>1
  <2>5. <<LevelMsg(s, p, q)>> = [i \in 1..1 |-> LevelMsg(s, p, q)]
    OBVIOUS
  <2>. QED  BY <2>3, <2>4, <2>5
<1>4. PICK m : m = LevelMsg(s, p, q)
  OBVIOUS
<1>5. <<m>> \o <<>> = <<m>> /\ <<>> \o <<m>> = <<m>>
  OBVIOUS
<1>. QED  BY <1>1, <1>2, <1>3, <1>4, <1>5 DEF BothSides, Side

(* A change of the venue's book: its level, or the new bests.               *)
LEMMA UpdateSynced == Typed /\ SyncInv /\ UpdateFrame => SyncInv'
<1>. SUFFICES ASSUME Typed, SyncInv, UpdateFrame PROVE SyncInv'
  OBVIOUS
<1>1. PICK s \in Side, p \in Prices, q \in Qtys \cup {0}, bad \in Garbled :
        /\ Moves(s, p, q)
        /\ OnFrame(IF feed \in {"kraken", "sim"}
                   THEN BookFrame(FALSE,
                          IF "Buy" = s THEN <<Level(p, q)>> ELSE <<>>,
                          IF "Sell" = s THEN <<Level(p, q)>> ELSE <<>>, bad)
                   ELSE BestFrame(venue', bad))
  BY DEF UpdateFrame
<1>2. p \in Int /\ q \in Nat /\ bad \in BOOLEAN
  <2>1. p \in Int /\ q \in Nat
    BY FeedAssumption
  <2>2. bad \in BOOLEAN
    BY DEF Garbled
  <2>. QED  BY <2>1, <2>2
<1>3. /\ venue' \in VenueBooks /\ venue' = [venue EXCEPT ![s][p] = q]
      /\ Uncrossed(venue') /\ venue \in VenueBooks
  BY <1>1, MovesTyped DEF Moves, Typed
<1>4. subscribed' /\ (feed = "kraken" => snapped')
  BY DEF UpdateFrame
<1>5. CASE feed \in {"kraken", "sim"}
  <2>. DEFINE b == IF "Buy" = s THEN <<Level(p, q)>> ELSE <<>>
              a == IF "Sell" = s THEN <<Level(p, q)>> ELSE <<>>
  <2>1. PICK f : f = BookFrame(FALSE, b, a, bad)
    OBVIOUS
  <2>2. OnFrame(f)
    BY <1>1, <1>5, <2>1
  <2>3. b \in Seq(RowSet) /\ a \in Seq(RowSet)
    <3>1. Level(p, q) \in RowSet
      BY <1>2 DEF Level, RowSet
    <3>2. <<Level(p, q)>> \in Seq(RowSet) /\ <<>> \in Seq(RowSet)
      BY <3>1
    <3>. QED  BY <3>2
  <2>4. /\ f \in BookFrames /\ f.channel = "book" /\ ~f.snapshot
        /\ f.bids = b /\ f.asks = a
    <3>. HIDE DEF a, b
    <3>. QED  BY <1>2, <2>1, <2>3 DEF BookFrame, BookFrames
  <2>5. f \in Sent(feed)
    BY <1>5, <2>4 DEF Sent
  <2>6. BothSides(f) = <<LevelMsg(s, p, q)>>
    BY <1>2, <2>4, OneLevel
  <2>7. /\ feed' = feed /\ pending' = Parsed(f).msgs
        /\ sync' = IF Parsed(f).ok THEN sync ELSE Lost
    BY <2>2, <2>4 DEF OnFrame, SyncAfter
  <2>8. Parsed(f).ok => pending' = <<LevelMsg(s, p, q)>>
    BY <1>5, <2>4, <2>5, <2>6, <2>7, ParsedIs DEF Typed
  <2>9. sync # "best"
    BY <1>5 DEF SyncInv, SyncOK
  <2>10. ASSUME NEW x, IsTrue(x, sync, venue)
         PROVE  Tells(x, pending', sync', venue')
    <3>1. CASE Parsed(f).ok /\ sync = "all"
      <4>1. IsTrue(Following(x, LevelMsg(s, p, q)), "all", [venue EXCEPT ![s][p] = q])
        BY <1>3, <2>10, <3>1, LevelTold
      <4>2. IsTrue(Following(x, LevelMsg(s, p, q)), "all", venue')
        BY <1>3, <4>1
      <4>3. Tells(x, <<LevelMsg(s, p, q)>>, "all", venue')
        BY <4>2, OneTold
      <4>. QED  BY <2>7, <2>8, <3>1, <4>3
    <3>2. CASE ~(Parsed(f).ok /\ sync = "all")
      BY <2>7, <2>9, <3>2 DEF Tells, Lost
    <3>. QED  BY <3>1, <3>2
  <2>11. f.channel = "best" => feed \notin {"kraken", "sim"}
    BY <2>4
  <2>12. ~subscribed' \/ (feed = "kraken" /\ ~snapped') => sync' = "none"
    BY <1>4
  <2>. QED  BY <2>2, <2>7, <2>10, <2>11, <2>12, FrameSynced
<1>6. CASE feed \notin {"kraken", "sim"}
  <2>. DEFINE b == BestFirst(venue', "Buy")
              a == BestFirst(venue', "Sell")
  <2>1. PICK v : v = venue'
    OBVIOUS
  <2>2. PICK f : f = BestFrame(venue', bad)
    OBVIOUS
  <2>3. OnFrame(f)
    BY <1>1, <1>6, <2>2
  <2>4. \A t \in Side : Quotes(v, t)
    BY <1>1, <1>6, <2>1 DEF Moves
  <2>5. /\ b \in Seq(RowSet) /\ b # <<>>
        /\ IsTop(v, "Buy", b[1].price) /\ b[1].qty = v["Buy"][b[1].price]
        /\ a \in Seq(RowSet) /\ a # <<>>
        /\ IsTop(v, "Sell", a[1].price) /\ a[1].qty = v["Sell"][a[1].price]
    <3>1. ASSUME NEW t \in Side, NEW rows, rows = BestFirst(v, t)
          PROVE  /\ rows \in Seq(RowSet) /\ rows # <<>>
                 /\ IsTop(v, t, rows[1].price) /\ rows[1].qty = v[t][rows[1].price]
      <4>1. rows \in Seq(RowSet) /\ rows # <<>> /\ IsTop(v, t, rows[1].price)
        BY <1>3, <2>1, <2>4, <3>1, RowsAre
      <4>2. 1 \in 1..Len(rows)
        BY <4>1
      <4>3. \A i \in 1..Len(rows) : rows[i].qty = v[t][rows[i].price]
        <5>1. v \in VenueBooks
          BY <1>3, <2>1
        <5>2. \A i \in 1..Len(rows) :
                rows[i].price \in Quoted(v, t) /\ rows[i].qty = v[t][rows[i].price]
          BY <3>1, <5>1, RowsAre
        <5>. QED  BY <5>2
      <4>. QED  BY <4>1, <4>2, <4>3
    <3>. QED  BY <2>1, <3>1 DEF Side
  <2>6. /\ f \in BestFrames /\ f.channel = "best" /\ f.bids = b /\ f.asks = a
    <3>1. f = [channel |-> "best", bids |-> b, asks |-> a, bad |-> bad]
      BY <2>2 DEF BestFrame
    <3>. HIDE DEF a, b
    <3>. QED  BY <1>2, <2>5, <3>1 DEF BestFrames
  <2>7. f \in Sent(feed)
    BY <1>6, <2>6 DEF Sent, Typed, Protocol
  <2>8. /\ feed' = feed /\ pending' = Parsed(f).msgs
        /\ sync' = IF Parsed(f).ok THEN "best" ELSE Lost
    BY <2>3, <2>6 DEF OnFrame, SyncAfter
  <2>9. Parsed(f).ok => pending' = BothTops(f)
    BY <2>6, <2>7, <2>8, ParsedIs DEF Typed
  <2>. HIDE DEF a, b
  <2>10. PICK pb, pa : pb = b[1].price /\ pa = a[1].price
    OBVIOUS
  <2>11. BothTops(f) = <<TopMsg("Buy", pb, v["Buy"][pb]),
                         TopMsg("Sell", pa, v["Sell"][pa])>>
    BY <2>5, <2>6, <2>10 DEF BothTops
  <2>12. ASSUME NEW x PROVE Tells(x, pending', sync', v)
    <3>1. CASE Parsed(f).ok
      <4>1. Agrees(Following(Following(x, TopMsg("Buy", pb, v["Buy"][pb])),
                             TopMsg("Sell", pa, v["Sell"][pa])), v)
        <5>1. v \in VenueBooks /\ Uncrossed(v)
          BY <1>3, <2>1
        <5>2. IsTop(v, "Buy", pb) /\ IsTop(v, "Sell", pa)
          BY <2>5, <2>10
        <5>. QED  BY <5>1, <5>2, TopsAgree
      <4>2. Tells(x, <<TopMsg("Buy", pb, v["Buy"][pb]),
                       TopMsg("Sell", pa, v["Sell"][pa])>>, "best", v)
        BY <4>1, TwoTold DEF IsTrue
      <4>. QED  BY <2>8, <2>9, <2>11, <3>1, <4>2
    <3>2. CASE ~Parsed(f).ok
      BY <2>8, <3>2 DEF Tells, Lost
    <3>. QED  BY <3>1, <3>2
  <2>13. f.channel = "best" => feed \notin {"kraken", "sim"}
    BY <1>6
  <2>14. ~subscribed' \/ (feed = "kraken" /\ ~snapped') => sync' = "none"
    BY <1>4
  <2>. QED  BY <2>1, <2>3, <2>8, <2>12, <2>13, <2>14, FrameSynced
<1>. QED  BY <1>5, <1>6

(* The venue's whole book.                                                 *)
LEMMA SnapshotSynced == Typed /\ SyncInv /\ SnapshotFrame => SyncInv'
<1>. SUFFICES ASSUME Typed, SyncInv, SnapshotFrame PROVE SyncInv'
  OBVIOUS
<1>. DEFINE b == BestFirst(venue, "Buy")
            a == BestFirst(venue, "Sell")
<1>1. PICK bad \in Garbled : OnFrame(BookFrame(TRUE, b, a, bad))
  BY DEF SnapshotFrame
<1>2. /\ venue' = venue /\ bad \in BOOLEAN /\ venue \in VenueBooks
      /\ feed \in {"okx", "binance", "kraken"} /\ subscribed' /\ snapped'
  BY DEF SnapshotFrame, Garbled, Typed
<1>3. b \in Seq(RowSet) /\ a \in Seq(RowSet)
  BY <1>2, BestFirstIs DEF Side
<1>4. PICK f : f = BookFrame(TRUE, b, a, bad)
  OBVIOUS
<1>5. /\ f \in BookFrames /\ f.channel = "book" /\ f.snapshot
      /\ f.bids = b /\ f.asks = a
  <2>. HIDE DEF a, b
  <2>. QED  BY <1>2, <1>3, <1>4 DEF BookFrame, BookFrames
<1>6. f \in Sent(feed)
  BY <1>2, <1>5 DEF Sent
<1>7. /\ feed' = feed /\ pending' = Parsed(f).msgs
      /\ sync' = IF Parsed(f).ok THEN "all" ELSE Lost
  BY <1>1, <1>4, <1>5 DEF OnFrame, SyncAfter
<1>8. Parsed(f).ok => pending' = <<ClearMsg>> \o BothSides(f)
  BY <1>2, <1>5, <1>6, <1>7, ParsedIs DEF Typed
<1>9. BothSides(f) \in Seq(Md) /\ TellsBook(BothSides(f), venue)
  BY <1>2, <1>5, BothSidesTell
<1>10. ASSUME NEW x PROVE Tells(x, pending', sync', venue')
  <2>1. CASE Parsed(f).ok
    <3>1. Tells(x, <<ClearMsg>> \o BothSides(f), "all", venue)
      BY <1>2, <1>9, SnapshotTold
    <3>. QED  BY <1>2, <1>7, <1>8, <2>1, <3>1
  <2>2. CASE ~Parsed(f).ok
    BY <1>7, <2>2 DEF Tells, Lost
  <2>. QED  BY <2>1, <2>2
<1>11. f.channel = "best" => feed \notin {"kraken", "sim"}
  BY <1>5
<1>12. OnFrame(f)
  BY <1>1, <1>4
<1>. HIDE DEF a, b
<1>. QED  BY <1>2, <1>7, <1>10, <1>11, <1>12, FrameSynced

(* A trade tells nothing of the book, parsed or not.                       *)
LEMMA TradeSynced == Typed /\ SyncInv /\ TradePrint => SyncInv'
<1>. SUFFICES ASSUME Typed, SyncInv, TradePrint PROVE SyncInv'
  OBVIOUS
<1>1. PICK side \in Side, p \in Prices, q \in Qtys, bad \in Garbled :
        OnFrame(TradeFrame(side, p, q, bad))
  BY DEF TradePrint
<1>2. /\ venue' = venue /\ p \in Int /\ q \in Nat /\ bad \in BOOLEAN
      /\ subscribed' = subscribed /\ snapped' = snapped
  BY FeedAssumption DEF TradePrint, Garbled
<1>3. PICK f : f = TradeFrame(side, p, q, bad)
  OBVIOUS
<1>4. f \in TradeFrames /\ f.channel = "trade"
  BY <1>2, <1>3 DEF TradeFrame, TradeFrames
<1>5. f \in Sent(feed)
  BY <1>4 DEF Sent, Typed
<1>6. OnFrame(f)
  BY <1>1, <1>3
<1>7. feed' = feed /\ pending' = Parsed(f).msgs /\ sync' = sync
  BY <1>4, <1>6 DEF OnFrame, SyncAfter
<1>8. pending' \in Seq(Md) /\ \A i \in 1..Len(pending') : pending'[i].kind = "Trade"
  <2>1. pending' = <<>> \/ pending' = Trades(f)
    BY <1>4, <1>5, <1>7, ParsedIs DEF Typed
  <2>2. pending' \in Seq(Md)
    BY <1>5, <1>7, ParsedTyped DEF Typed
  <2>3. PICK m : m = TradeMsg(f.aggressor, f.price, f.qty)
    OBVIOUS
  <2>4. m.kind = "Trade"
    BY <2>3 DEF TradeMsg
  <2>5. /\ \A i \in 1..Len(<<>>) : FALSE
        /\ \A i \in 1..Len(<<m>>) : <<m>>[i] = m
    <3>1. Len(<<>>) = 0 /\ Len(<<m>>) = 1 /\ <<m>>[1] = m
      OBVIOUS
    <3>2. \A i \in 1..1 : i = 1
      OBVIOUS
    <3>. QED  BY <3>1, <3>2
  <2>. QED  BY <2>1, <2>2, <2>3, <2>4, <2>5 DEF Trades
<1>9. ASSUME NEW x, IsTrue(x, sync, venue)
      PROVE  Tells(x, pending', sync', venue')
  BY <1>2, <1>7, <1>8, <1>9, NothingTold
<1>10. f.channel = "best" => feed \notin {"kraken", "sim"}
  BY <1>4
<1>11. ~subscribed' \/ (feed = "kraken" /\ ~snapped') => sync' = "none"
  BY <1>2, <1>7 DEF SyncInv, SyncOK
<1>. QED  BY <1>6, <1>7, <1>9, <1>10, <1>11, FrameSynced

(* Neither does an acknowledgement.                                        *)
LEMMA ControlSynced == Typed /\ SyncInv /\ ControlFrame => SyncInv'
<1>. SUFFICES ASSUME Typed, SyncInv, ControlFrame PROVE SyncInv'
  OBVIOUS
<1>1. PICK channel \in {"control", "refusal"} :
        /\ OnFrame([channel |-> channel, bad |-> FALSE])
        /\ subscribed' = (subscribed \/ channel = "control")
  BY DEF ControlFrame
<1>2. venue' = venue /\ snapped' = snapped /\ feed # "sim"
  BY DEF ControlFrame, Simulated
<1>3. PICK f : f = [channel |-> channel, bad |-> FALSE]
  OBVIOUS
<1>4. f \in OtherFrames /\ f.channel \in {"control", "refusal"}
  BY <1>3 DEF OtherFrames
<1>5. f \in Sent(feed)
  BY <1>2, <1>4 DEF Sent, Typed, Protocol
<1>6. OnFrame(f)
  BY <1>1, <1>3
<1>7. feed' = feed /\ pending' = Parsed(f).msgs /\ sync' = sync
  BY <1>4, <1>6 DEF OnFrame, SyncAfter
<1>8. pending' = <<>>
  BY <1>4, <1>5, <1>7, ParsedIs DEF Typed
<1>9. ASSUME NEW x, IsTrue(x, sync, venue)
      PROVE  Tells(x, pending', sync', venue')
  <2>1. <<>> \in Seq(Md) /\ \A i \in 1..Len(<<>>) : <<>>[i].kind = "Trade"
    OBVIOUS
  <2>2. Tells(x, <<>>, sync, venue)
    BY <1>9, <2>1, NothingTold
  <2>. QED  BY <1>2, <1>7, <1>8, <2>2
<1>10. f.channel = "best" => feed \notin {"kraken", "sim"}
  BY <1>4
<1>11. ~subscribed' \/ (feed = "kraken" /\ ~snapped') => sync' = "none"
  BY <1>1, <1>2, <1>7 DEF SyncInv, SyncOK
<1>. QED  BY <1>6, <1>7, <1>9, <1>10, <1>11, FrameSynced

(* Every step keeps the trail.                                             *)
LEMMA NextSynced == Typed /\ IInv /\ SyncInv /\ [Next]_vars => SyncInv'
<1>. SUFFICES ASSUME Typed, IInv, SyncInv, [Next]_vars PROVE SyncInv'
  OBVIOUS
<1>1. CASE LoopHead \/ Connect \/ SessionHead \/ Timeout \/ Fail \/ Stop
             \/ VenueMovesUnseen \/ UNCHANGED vars
  BY <1>1, LoopSynced
<1>2. CASE Push \/ OnMd
  BY <1>2, PushSynced, OnMdSynced
<1>3. CASE UpdateFrame \/ SnapshotFrame \/ TradePrint \/ ControlFrame
  BY <1>3, UpdateSynced, SnapshotSynced, TradeSynced, ControlSynced
<1>. QED  BY <1>1, <1>2, <1>3 DEF Next, FeedThread

-----------------------------------------------------------------------------
(* A ladder whose sizes have the venue's best on top has it for its best.   *)
LEMMA BestIsVenues ==
  ASSUME NEW b, IsBook(b), NEW v \in VenueBooks, Agrees(Shown(b), v),
         NEW s \in Side, Quotes(v, s)
  PROVE  HasBest(b, s) /\ BestLevel(b, s) = BestFirst(v, s)[1]
<1>1. PICK l : l = b[s]
  OBVIOUS
<1>2. Sorted(s, l)
  BY <1>1 DEF IsBook
<1>3. /\ Len(l) \in Nat /\ l \in Seq(Levels)
      /\ \A i \in 1..Len(l) : /\ l[i] \in Levels /\ l[i].price \in Int
                              /\ l[i].qty \in Nat \ {0} /\ KeyAt(s, l, i) \in Int
      /\ \A i, j \in 1..Len(l) : i < j => KeyAt(s, l, i) < KeyAt(s, l, j)
  BY <1>2, SortedAt
<1>4. PICK rows : rows = BestFirst(v, s)
  OBVIOUS
<1>5. /\ rows \in Seq(RowSet) /\ rows # <<>> /\ IsTop(v, s, rows[1].price)
      /\ \A i \in 1..Len(rows) : rows[i].qty = v[s][rows[i].price]
  BY <1>4, RowsAre
<1>6. PICK p : p = rows[1].price
  OBVIOUS
<1>7. p \in Prices /\ p \in Int /\ v[s][p] > 0 /\ v[s][p] \in Nat
  BY <1>5, <1>6, FeedAssumption DEF IsTop, Quoted, VenueBooks
<1>8. /\ SizeAt(l, p) = v[s][p]
      /\ \A q \in Int : Key(s, q) > Key(s, p) => SizeAt(l, q) = 0
  BY <1>1, <1>5, <1>6, <1>7 DEF Agrees, Shown
<1>9. PICK i \in 1..Len(l) : l[i].price = p
  <2>1. SizeAt(l, p) # 0
    BY <1>7, <1>8
  <2>. QED  BY <1>2, <1>7, <2>1, SizeIs
<1>10. l[i].qty = v[s][p]
  BY <1>2, <1>7, <1>8, <1>9, SizeIs
<1>11. i = Len(l)
  <2>1. PICK n : n = Len(l)
    OBVIOUS
  <2>2. n \in 1..Len(l) /\ n \in Nat /\ i \in 1..n
    BY <1>3, <1>9, <2>1
  <2>3. l[n].price \in Int /\ SizeAt(l, l[n].price) = l[n].qty /\ l[n].qty # 0
    BY <1>2, <1>3, <2>2, SizeIs
  <2>4. ~(Key(s, l[n].price) > Key(s, p))
    BY <1>8, <2>3
  <2>5. i < n => Key(s, p) < Key(s, l[n].price)
    BY <1>3, <1>9, <2>2 DEF KeyAt
  <2>6. Key(s, p) \in Int /\ Key(s, l[n].price) \in Int
    BY <1>7, <2>3, KeyIs
  <2>7. ~(i < n)
    BY <2>4, <2>5, <2>6
  <2>. QED  BY <2>1, <2>2, <2>7
<1>12. b[s] # <<>> /\ Last(b[s]) = l[i]
  BY <1>1, <1>3, <1>9, <1>11 DEF Last
<1>13. l[i] = rows[1]
  <2>1. l[i] \in Levels /\ rows[1] \in RowSet /\ 1 \in 1..Len(rows)
    BY <1>3, <1>5
  <2>2. l[i].price = rows[1].price /\ l[i].qty = rows[1].qty
    BY <1>5, <1>6, <1>9, <1>10, <2>1
  <2>3. /\ l[i] = [price |-> l[i].price, qty |-> l[i].qty]
        /\ rows[1] = [price |-> rows[1].price, qty |-> rows[1].qty]
    BY <2>1 DEF Levels, RowSet
  <2>. QED  BY <2>2, <2>3
<1>. QED  BY <1>4, <1>12, <1>13 DEF HasBest, BestLevel

(* At the end of a batch the trail is at the venue's book.                 *)
LEMMA SyncedIsTrue == Typed /\ SyncInv => SyncedBookIsTrue
<1>. SUFFICES ASSUME Typed, SyncInv, last # NoMsg, last.final
              PROVE  /\ last.sync = "all"  => Sizes = last.venue
                     /\ last.sync = "best" => BestsAgree(last.venue)
  BY DEF SyncedBookIsTrue
<1>1. IsBook(book) /\ last.venue \in VenueBooks
      /\ IsTrue(Shown(book), last.sync, last.venue)
  BY DEF Typed, SyncInv, LastOK
<1>2. ASSUME last.sync = "all" PROVE Sizes = last.venue
  <2>1. Sizes = [s \in Side |-> [p \in Prices |-> SizeAt(book[s], p)]]
    BY <1>1, BooksAreLadders DEF Sizes
  <2>2. \A s \in Side, p \in Prices : SizeAt(book[s], p) = last.venue[s][p]
    BY <1>1, <1>2, FeedAssumption DEF IsTrue, Shown
  <2>3. last.venue = [s \in Side |-> [p \in Prices |-> last.venue[s][p]]]
    BY <1>1 DEF VenueBooks
  <2>. QED  BY <2>1, <2>2, <2>3
<1>3. ASSUME last.sync = "best" PROVE BestsAgree(last.venue)
  <2>1. Agrees(Shown(book), last.venue)
    BY <1>1, <1>3 DEF IsTrue
  <2>. QED  BY <1>1, <2>1, BestIsVenues DEF BestsAgree
<1>. QED  BY <1>2, <1>3

(* At the end of a batch the engine's book is the venue's as of that batch  *)
(* if nothing was lost since the last snapshot, and its bests are the       *)
(* venue's if nothing was lost since the last quote: for every protocol,    *)
(* price set and ring, and every order of frames, frames that do not parse, *)
(* full rings, reconnects and delays of the engine.                         *)
THEOREM BookIsTrue == Spec => []SyncedBookIsTrue
<1>1. Init => IInv /\ Typed /\ SyncInv
  BY InitNumbered, InitTyped, InitSynced
<1>2. IInv /\ Typed /\ SyncInv /\ [Next]_vars => IInv' /\ Typed' /\ SyncInv'
  BY NextNumbered, NextTyped, NextSynced
<1>3. Typed /\ SyncInv => SyncedBookIsTrue
  BY SyncedIsTrue
<1>. QED  BY <1>1, <1>2, <1>3, PTL DEF Spec

=============================================================================
