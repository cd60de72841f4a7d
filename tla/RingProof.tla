------------------------------ MODULE RingProof ------------------------------
(***************************************************************************)
(* The ring is free of data races and a bounded queue for every power of   *)
(* two of slots, every width of the indices and every value.  First come   *)
(* distances, successors and slots of indices without remainders, then the *)
(* invariant.                                                              *)
(***************************************************************************)
EXTENDS Ring, Lemmas

-----------------------------------------------------------------------------
(* Indices without remainders *)

LEMMA DistanceIs ==
  ASSUME NEW a \in Index, NEW b \in Index
  PROVE  Distance(a, b) = IF b <= a THEN a - b ELSE a - b + Wrap
<1>. USE RingAssumption DEF Index
<1>1. CASE b <= a
  <2>1. a - b \in 0..(Wrap - 1)
    BY <1>1
  <2>. QED  BY <1>1, <2>1 DEF Distance
<1>2. CASE a < b
  <2>1. a - b \in Int /\ -Wrap <= a - b /\ a - b < 0
    BY <1>2
  <2>. QED  BY <1>2, <2>1 DEF Distance
<1>. QED  BY <1>1, <1>2

LEMMA DistanceType ==
  ASSUME NEW a \in Index, NEW b \in Index
  PROVE  Distance(a, b) \in 0..(Wrap - 1)
BY RingAssumption, DistanceIs DEF Index

LEMMA Next1Is ==
  ASSUME NEW a \in Index
  PROVE  /\ Next1(a) = IF a = Wrap - 1 THEN 0 ELSE a + 1
         /\ Next1(a) \in Index
<1>. USE RingAssumption DEF Index
<1>1. CASE a = Wrap - 1
  <2>1. a + 1 = Wrap /\ Wrap % Wrap = 0
    BY <1>1
  <2>. QED  BY <1>1, <2>1 DEF Next1
<1>2. CASE a # Wrap - 1
  BY <1>2 DEF Next1
<1>. QED  BY <1>1, <1>2

LEMMA SlotType == \A k \in Int : Slot(k) \in 0..(Capacity - 1)
BY RingAssumption, DivMod DEF Slot

(* Indices a whole number of laps apart share a slot ... *)
LEMMA SlotWraps == \A k \in Int : Slot(k + Wrap) = Slot(k)
<1>. SUFFICES ASSUME NEW k \in Int PROVE Slot(k + Wrap) = Slot(k)
  OBVIOUS
<1>1. /\ Wrap \in Int /\ Capacity \in Nat /\ Capacity > 0
      /\ Wrap % Capacity = 0
  BY RingAssumption
<1>2. (k + Wrap) % Capacity = k % Capacity
  BY <1>1, PlusMultiple
<1>. QED  BY <1>2 DEF Slot

(* ... and those less than a lap apart do not. *)
LEMMA SlotApart ==
  ASSUME NEW a \in Int, NEW b \in Int, Slot(a) = Slot(b),
         a - b < Capacity, b - a < Capacity
  PROVE  a = b
BY RingAssumption, SameRemainder DEF Slot

(* The slot at an index is the one as far from another as the indices are. *)
LEMMA SlotAtDistance ==
  ASSUME NEW a \in Index, NEW b \in Index
  PROVE  Slot(b + Distance(a, b)) = Slot(a)
<1>. USE RingAssumption DEF Index
<1>1. CASE b <= a
  <2>1. b + Distance(a, b) = a
    BY <1>1, DistanceIs
  <2>. QED  BY <2>1
<1>2. CASE a < b
  <2>1. b + Distance(a, b) = a + Wrap
    BY <1>2, DistanceIs
  <2>. QED  BY <2>1, SlotWraps
<1>. QED  BY <1>1, <1>2

(* The slots of a ring that is not full are not the next one to write. *)
LEMMA FreeSlot ==
  ASSUME NEW t \in Index, NEW h \in Index, Distance(t, h) < Capacity,
         NEW i \in 1..Distance(t, h)
  PROVE  Slot(h + i - 1) # Slot(t)
<1>. DEFINE d == Distance(t, h)
<1>1. d \in Nat /\ h \in Int
  BY RingAssumption, DistanceIs DEF Index
<1>2. Slot(h + d) = Slot(t)
  BY SlotAtDistance
<1>. HIDE DEF d
<1>3. SUFFICES ASSUME Slot(h + i - 1) = Slot(h + d) PROVE FALSE
  BY <1>2
<1>4. /\ h + i - 1 \in Int /\ h + d \in Int /\ h + i - 1 # h + d
      /\ (h + d) - (h + i - 1) < Capacity /\ (h + i - 1) - (h + d) < Capacity
  BY <1>1, RingAssumption DEF d
<1>. QED  BY <1>3, <1>4, SlotApart

-----------------------------------------------------------------------------
(* The invariant *)

(* A write is under way only where the producer saw room, a read only      *)
(* where the consumer saw a value.                                         *)
RoomSeen == ppc \in {"write", "publish"} => Distance(tail, cached_head) < Capacity
ValueSeen == cpc \in {"read", "release"} => head # cached_tail

(* What is pushed is a value; between the access to a slot and the store   *)
(* of the index the slot and the copy agree.                               *)
Pushed == ppc # "idle" => value \in Value
Written == ppc = "publish" => buf[Slot(tail)] = value
Taken == cpc = "release" => got = buf[Slot(head)]

IInv == TypeOK /\ CachesAreSafe /\ RoomSeen /\ ValueSeen
        /\ Pushed /\ Written /\ Taken

(* The producer's slot is not the consumer's while both are at work. *)
LEMMA SlotsApart ==
  ASSUME TypeOK, CachesAreSafe, RoomSeen, ValueSeen,
         ppc \in {"write", "publish"}, cpc \in {"read", "release"}
  PROVE  Slot(tail) # Slot(head)
<1>. USE RingAssumption
<1>1. /\ tail \in Index /\ head \in Index /\ cached_tail \in Index
      /\ head # cached_tail
  BY DEF TypeOK, ValueSeen
<1>2. /\ Distance(tail, head) < Capacity
      /\ Distance(cached_tail, head) <= Distance(tail, head)
  <2>1. Distance(tail, cached_head) \in Int /\ Distance(tail, head) \in Int
    BY DistanceIs DEF TypeOK, Index
  <2>. QED  BY <2>1 DEF CachesAreSafe, RoomSeen
<1>3. Distance(cached_tail, head) > 0
  BY <1>1, DistanceIs DEF Index
<1>4. Distance(tail, head) \in 1..(Capacity - 1)
  BY <1>1, <1>2, <1>3, DistanceIs DEF Index
<1>5. Slot(head + 1 - 1) # Slot(tail)
  BY <1>1, <1>2, <1>4, FreeSlot
<1>6. head + 1 - 1 = head
  BY <1>1 DEF Index
<1>. QED  BY <1>5, <1>6

LEMMA InitIInv == Init => IInv
<1>. SUFFICES ASSUME Init PROVE IInv
  OBVIOUS
<1>. USE RingAssumption DEF Init
<1>1. 0 \in Index
  BY DEF Index
<1>2. Distance(0, 0) = 0
  BY <1>1, DistanceIs
<1>3. TypeOK
  BY <1>1 DEF TypeOK
<1>4. CachesAreSafe
  BY <1>2 DEF CachesAreSafe
<1>5. RoomSeen /\ ValueSeen /\ Pushed /\ Written /\ Taken
  BY DEF RoomSeen, ValueSeen, Pushed, Written, Taken
<1>. QED  BY <1>3, <1>4, <1>5 DEF IInv

(* The indices part of the invariant: one lemma, on indices only. *)
LEMMA Publishing ==
  ASSUME NEW t \in Index, NEW h \in Index, NEW ch \in Index, NEW ct \in Index,
         Distance(t, h) <= Distance(t, ch), Distance(t, ch) < Capacity,
         Distance(ct, h) <= Distance(t, h)
  PROVE  /\ Next1(t) \in Index
         /\ Distance(Next1(t), h) = Distance(t, h) + 1
         /\ Distance(Next1(t), h) <= Distance(Next1(t), ch)
         /\ Distance(Next1(t), ch) <= Capacity
         /\ Distance(ct, h) <= Distance(Next1(t), h)
<1>. DEFINE n == Next1(t)
<1>1. n \in Index /\ n = IF t = Wrap - 1 THEN 0 ELSE t + 1
  BY Next1Is
<1>. HIDE DEF n
<1>2. /\ Distance(t, h) = IF h <= t THEN t - h ELSE t - h + Wrap
      /\ Distance(n, h) = IF h <= n THEN n - h ELSE n - h + Wrap
  BY <1>1, DistanceIs
<1>3. /\ Distance(t, ch) = IF ch <= t THEN t - ch ELSE t - ch + Wrap
      /\ Distance(n, ch) = IF ch <= n THEN n - ch ELSE n - ch + Wrap
  BY <1>1, DistanceIs
<1>4. Distance(ct, h) \in Int
  BY DistanceType
<1>5. t \in 0..(Wrap - 1) /\ h \in 0..(Wrap - 1) /\ ch \in 0..(Wrap - 1)
  BY DEF Index
<1>6. Distance(n, ch) = Distance(t, ch) + 1
  BY <1>1, <1>3, <1>5, RingAssumption
<1>7. Distance(n, h) = Distance(t, h) + 1
  BY <1>1, <1>2, <1>3, <1>5, RingAssumption
<1>. QED
  <2>1. Distance(t, h) \in Int /\ Distance(t, ch) \in Int
    BY <1>2, <1>3, <1>5, RingAssumption
  <2>. QED  BY <1>1, <1>4, <1>6, <1>7, <2>1, RingAssumption DEF n

LEMMA Releasing ==
  ASSUME NEW t \in Index, NEW h \in Index, NEW ch \in Index, NEW ct \in Index,
         Distance(t, h) <= Distance(t, ch), Distance(t, ch) <= Capacity,
         Distance(ct, h) <= Distance(t, h), h # ct
  PROVE  /\ Next1(h) \in Index
         /\ Distance(t, h) = Distance(t, Next1(h)) + 1
         /\ Distance(t, Next1(h)) <= Distance(t, ch)
         /\ Distance(ct, Next1(h)) <= Distance(t, Next1(h))
<1>. DEFINE n == Next1(h)
<1>1. n \in Index /\ n = IF h = Wrap - 1 THEN 0 ELSE h + 1
  BY Next1Is
<1>. HIDE DEF n
<1>2. /\ Distance(t, h) = IF h <= t THEN t - h ELSE t - h + Wrap
      /\ Distance(t, n) = IF n <= t THEN t - n ELSE t - n + Wrap
  BY <1>1, DistanceIs
<1>3. /\ Distance(ct, h) = IF h <= ct THEN ct - h ELSE ct - h + Wrap
      /\ Distance(ct, n) = IF n <= ct THEN ct - n ELSE ct - n + Wrap
  BY <1>1, DistanceIs
<1>4. Distance(t, ch) \in Int
  BY DistanceType
<1>5. t \in 0..(Wrap - 1) /\ h \in 0..(Wrap - 1) /\ ct \in 0..(Wrap - 1)
  BY DEF Index
<1>6. Distance(ct, h) = Distance(ct, n) + 1
  BY <1>1, <1>3, <1>5, RingAssumption
<1>7. t # h
  BY <1>2, <1>3, <1>5, RingAssumption
<1>8. Distance(t, h) = Distance(t, n) + 1
  BY <1>1, <1>2, <1>5, <1>7, RingAssumption
<1>. QED
  <2>1. Distance(t, n) \in Int /\ Distance(ct, n) \in Int
    BY <1>1, <1>2, <1>3, <1>5, RingAssumption DEF Index
  <2>. QED  BY <1>1, <1>4, <1>6, <1>8, <2>1 DEF n

LEMMA NextIInv == IInv /\ [Next]_vars => IInv'
<1>. SUFFICES ASSUME IInv, [Next]_vars PROVE IInv'
  OBVIOUS
<1>. USE RingAssumption
<1>0. /\ head \in Index /\ tail \in Index
      /\ cached_head \in Index /\ cached_tail \in Index
      /\ TypeOK /\ CachesAreSafe
  BY DEF IInv, TypeOK
<1>01. /\ Distance(tail, head) \in Int /\ Distance(tail, cached_head) \in Int
       /\ Distance(cached_tail, head) \in Int
  BY <1>0, DistanceType
<1>02. Slot(tail) \in 0..(Capacity - 1) /\ Slot(head) \in 0..(Capacity - 1)
  BY <1>0, SlotType DEF Index
<1>1. CASE Push
  <2>1. TypeOK'
    BY <1>0, <1>1 DEF Push, consumerVars, TypeOK
  <2>2. CachesAreSafe' /\ RoomSeen'
    BY <1>0, <1>01, <1>1
       DEF IInv, Push, consumerVars, CachesAreSafe, RoomSeen
  <2>3. ValueSeen' /\ Pushed' /\ Written' /\ Taken'
    BY <1>1 DEF IInv, Push, consumerVars, ValueSeen, Pushed, Written, Taken
  <2>. QED  BY <2>1, <2>2, <2>3 DEF IInv
<1>2. CASE PushLoad
  <2>1. TypeOK'
    BY <1>0, <1>2 DEF PushLoad, consumerVars, TypeOK
  <2>2. CachesAreSafe' /\ RoomSeen'
    BY <1>0, <1>01, <1>2
       DEF IInv, PushLoad, consumerVars, CachesAreSafe, RoomSeen
  <2>3. ValueSeen' /\ Pushed' /\ Written' /\ Taken'
    BY <1>2 DEF IInv, PushLoad, consumerVars, ValueSeen, Pushed, Written, Taken
  <2>. QED  BY <2>1, <2>2, <2>3 DEF IInv
<1>3. CASE PushWrite
  <2>1. TypeOK'
    BY <1>0, <1>02, <1>3 DEF PushWrite, consumerVars, TypeOK
  <2>2. CachesAreSafe' /\ RoomSeen' /\ ValueSeen' /\ Pushed'
    BY <1>3 DEF IInv, PushWrite, consumerVars, CachesAreSafe, RoomSeen,
                ValueSeen, Pushed
  <2>3. Written'
    BY <1>0, <1>02, <1>3 DEF PushWrite, consumerVars, Written, TypeOK
  <2>4. Taken'
    <3>1. cpc = "release" => Slot(tail) # Slot(head)
      BY <1>3, SlotsApart DEF IInv, PushWrite
    <3>. QED  BY <1>0, <1>02, <1>3, <3>1
              DEF IInv, PushWrite, consumerVars, Taken, TypeOK
  <2>. QED  BY <2>1, <2>2, <2>3, <2>4 DEF IInv
<1>4. CASE PushPublish
  <2>1. /\ tail' = Next1(tail) /\ head' = head /\ cached_head' = cached_head
        /\ cached_tail' = cached_tail /\ ppc' = "idle"
    BY <1>4 DEF PushPublish, consumerVars
  <2>2. /\ Next1(tail) \in Index
        /\ Distance(Next1(tail), head) <= Distance(Next1(tail), cached_head)
        /\ Distance(Next1(tail), cached_head) <= Capacity
        /\ Distance(cached_tail, head) <= Distance(Next1(tail), head)
    BY <1>0, <1>4, Publishing DEF IInv, PushPublish, CachesAreSafe, RoomSeen
  <2>3. TypeOK'
    BY <1>0, <1>4, <2>1, <2>2 DEF PushPublish, consumerVars, TypeOK
  <2>4. CachesAreSafe'
    BY <2>1, <2>2 DEF CachesAreSafe
  <2>5. RoomSeen' /\ Pushed' /\ Written'
    BY <2>1 DEF RoomSeen, Pushed, Written
  <2>6. ValueSeen' /\ Taken'
    BY <1>4 DEF IInv, PushPublish, consumerVars, ValueSeen, Taken
  <2>. QED  BY <2>3, <2>4, <2>5, <2>6 DEF IInv
<1>5. CASE Pop
  <2>1. TypeOK'
    BY <1>0, <1>5 DEF Pop, producerVars, TypeOK
  <2>2. CachesAreSafe' /\ RoomSeen' /\ ValueSeen' /\ Pushed' /\ Written' /\ Taken'
    BY <1>5 DEF IInv, Pop, producerVars, CachesAreSafe, RoomSeen, ValueSeen,
                Pushed, Written, Taken
  <2>. QED  BY <2>1, <2>2 DEF IInv
<1>6. CASE PopLoad
  <2>1. TypeOK'
    BY <1>0, <1>6 DEF PopLoad, producerVars, TypeOK
  <2>2. CachesAreSafe'
    BY <1>0, <1>01, <1>6 DEF PopLoad, producerVars, CachesAreSafe
  <2>3. RoomSeen' /\ ValueSeen' /\ Pushed' /\ Written' /\ Taken'
    BY <1>6 DEF IInv, PopLoad, producerVars, RoomSeen, ValueSeen, Pushed,
                Written, Taken
  <2>. QED  BY <2>1, <2>2, <2>3 DEF IInv
<1>7. CASE PopRead
  <2>1. TypeOK'
    BY <1>0, <1>02, <1>7 DEF PopRead, producerVars, TypeOK
  <2>2. CachesAreSafe' /\ RoomSeen' /\ ValueSeen' /\ Pushed' /\ Written' /\ Taken'
    BY <1>7 DEF IInv, PopRead, producerVars, CachesAreSafe, RoomSeen, ValueSeen,
                Pushed, Written, Taken
  <2>. QED  BY <2>1, <2>2 DEF IInv
<1>8. CASE PopRelease
  <2>1. /\ head' = Next1(head) /\ tail' = tail /\ cached_head' = cached_head
        /\ cached_tail' = cached_tail /\ cpc' = "idle"
    BY <1>8 DEF PopRelease, producerVars
  <2>2. /\ Next1(head) \in Index
        /\ Distance(tail, Next1(head)) <= Distance(tail, cached_head)
        /\ Distance(cached_tail, Next1(head)) <= Distance(tail, Next1(head))
    BY <1>0, <1>8, Releasing DEF IInv, PopRelease, CachesAreSafe, ValueSeen
  <2>3. TypeOK'
    BY <1>0, <1>8, <2>1, <2>2 DEF PopRelease, producerVars, TypeOK
  <2>4. CachesAreSafe'
    BY <1>0, <2>1, <2>2 DEF CachesAreSafe
  <2>5. ValueSeen' /\ Taken'
    BY <2>1 DEF ValueSeen, Taken
  <2>6. RoomSeen' /\ Pushed' /\ Written'
    BY <1>8 DEF IInv, PopRelease, producerVars, RoomSeen, Pushed, Written
  <2>. QED  BY <2>3, <2>4, <2>5, <2>6 DEF IInv
<1>9. CASE UNCHANGED vars
  BY <1>9 DEF IInv, vars, producerVars, consumerVars, TypeOK, CachesAreSafe,
              RoomSeen, ValueSeen, Pushed, Written, Taken
<1>. QED  BY <1>1, <1>2, <1>3, <1>4, <1>5, <1>6, <1>7, <1>8, <1>9
          DEF Next, Pushing, Popping

LEMMA SpecIInv == Spec => []IInv
BY InitIInv, NextIInv, PTL DEF Spec

(* "each slot is accessed by exactly one side at a time", for any power of *)
(* two of slots and any width of the indices.                              *)
THEOREM RaceFree == Spec => []NoDataRace
<1>1. IInv => NoDataRace
  BY SlotsApart DEF IInv, NoDataRace
<1>. QED  BY <1>1, SpecIInv, PTL

(* Neither side ever sees more room, or more values, than there are.       *)
THEOREM StaleIsSafe == Spec => []CachesAreSafe
<1>1. IInv => CachesAreSafe
  BY DEF IInv
<1>. QED  BY <1>1, SpecIInv, PTL

-----------------------------------------------------------------------------
(* The ring is a bounded queue *)

LEMMA AppendIs ==
  ASSUME NEW S, NEW v \in S, NEW s \in Seq(S), NEW t \in Seq(S),
         Len(t) = Len(s) + 1, t[Len(s) + 1] = v,
         \A i \in 1..Len(s) : t[i] = s[i]
  PROVE  t = Append(s, v)
OBVIOUS

LEMMA TailIs ==
  ASSUME NEW S, NEW s \in Seq(S), NEW t \in Seq(S),
         Len(s) = Len(t) + 1, \A i \in 1..Len(t) : t[i] = s[i + 1]
  PROVE  s # <<>> /\ t = Tail(s)
OBVIOUS

Content == Value \cup {NoValue}
Buffers == [0..(Capacity - 1) -> Content]

(* Contents of a ring with these indices. *)
Stored(b, h, t) == [i \in 1..Distance(t, h) |-> b[Slot(h + i - 1)]]

LEMMA StoredSlot ==
  ASSUME NEW h \in Index, NEW t \in Index
  PROVE  \A i \in 1..Distance(t, h) : Slot(h + i - 1) \in 0..(Capacity - 1)
<1>. SUFFICES ASSUME NEW i \in 1..Distance(t, h)
              PROVE  Slot(h + i - 1) \in 0..(Capacity - 1)
  OBVIOUS
<1>1. Distance(t, h) \in Int /\ h \in Int
  BY DistanceType, RingAssumption DEF Index
<1>2. h + i - 1 \in Int
  BY <1>1
<1>. QED  BY <1>2, SlotType

LEMMA StoredType ==
  ASSUME NEW b \in Buffers, NEW h \in Index, NEW t \in Index
  PROVE  /\ Stored(b, h, t) \in Seq(Content)
         /\ Len(Stored(b, h, t)) = Distance(t, h)
         /\ \A i \in 1..Distance(t, h) : Stored(b, h, t)[i] = b[Slot(h + i - 1)]
<1>1. Distance(t, h) \in Nat
  BY DistanceType, RingAssumption
<1>2. \A i \in 1..Distance(t, h) : b[Slot(h + i - 1)] \in Content
  BY StoredSlot DEF Buffers
<1>. QED  BY <1>1, <1>2 DEF Stored

(* A write to the free slot is not seen yet. *)
LEMMA WriteUnseen ==
  ASSUME NEW b \in Buffers, NEW h \in Index, NEW t \in Index, NEW v,
         Distance(t, h) < Capacity
  PROVE  Stored([b EXCEPT ![Slot(t)] = v], h, t) = Stored(b, h, t)
<1>1. \A i \in 1..Distance(t, h) : Slot(h + i - 1) # Slot(t)
  BY FreeSlot
<1>2. \A i \in 1..Distance(t, h) : Slot(h + i - 1) \in 0..(Capacity - 1)
  BY StoredSlot
<1>. QED  BY <1>1, <1>2 DEF Stored, Buffers

(* The store of tail appends what is in its slot. *)
LEMMA PublishAppends ==
  ASSUME NEW b \in Buffers, NEW h \in Index, NEW t \in Index,
         Distance(t, h) < Capacity
  PROVE  Stored(b, h, Next1(t)) = Append(Stored(b, h, t), b[Slot(t)])
<1>. USE RingAssumption
<1>. DEFINE s == Stored(b, h, t)
            u == Stored(b, h, Next1(t))
            d == Distance(t, h)
<1>1. Next1(t) \in Index /\ d \in Nat /\ Distance(h, h) <= d
  BY Next1Is, DistanceIs, DistanceType DEF Index
<1>2. Distance(Next1(t), h) = d + 1
  BY <1>1, Publishing
<1>3. /\ s \in Seq(Content) /\ Len(s) = d
      /\ \A i \in 1..d : s[i] = b[Slot(h + i - 1)]
  BY StoredType
<1>4. /\ u \in Seq(Content) /\ Len(u) = d + 1
      /\ \A i \in 1..(d + 1) : u[i] = b[Slot(h + i - 1)]
  BY <1>1, <1>2, StoredType
<1>5. u[d + 1] = b[Slot(t)]
  <2>1. d + 1 \in 1..(d + 1) /\ h + (d + 1) - 1 = h + d
    BY <1>1 DEF Index
  <2>2. Slot(h + d) = Slot(t)
    BY SlotAtDistance
  <2>. HIDE DEF d
  <2>3. u[d + 1] = b[Slot(h + d)]
    BY <1>4, <2>1
  <2>. QED  BY <2>2, <2>3
<1>6. b[Slot(t)] \in Content
  BY SlotType DEF Index, Buffers
<1>. HIDE DEF s, u, d
<1>7. \A i \in 1..Len(s) : u[i] = s[i]
  BY <1>1, <1>3, <1>4
<1>8. u = Append(s, b[Slot(t)])
  BY <1>3, <1>4, <1>5, <1>6, <1>7, AppendIs
<1>. QED  BY <1>8 DEF s, u

(* The store of head drops the first value. *)
LEMMA ReleaseDrops ==
  ASSUME NEW b \in Buffers, NEW h \in Index, NEW t \in Index, h # t
  PROVE  LET s == Stored(b, h, t)
         IN /\ s # <<>> /\ s[1] = b[Slot(h)]
            /\ Stored(b, Next1(h), t) = Tail(s)
<1>. USE RingAssumption
<1>. DEFINE s == Stored(b, h, t)
            u == Stored(b, Next1(h), t)
            d == Distance(t, Next1(h))
<1>1. Next1(h) \in Index /\ Distance(t, h) = d + 1 /\ d \in Nat
  <2>1. Next1(h) \in Index /\ Next1(h) = IF h = Wrap - 1 THEN 0 ELSE h + 1
    BY Next1Is
  <2>. DEFINE n == Next1(h)
  <2>. HIDE DEF n
  <2>2. n \in Index /\ n = IF h = Wrap - 1 THEN 0 ELSE h + 1
    BY <2>1 DEF n
  <2>3. /\ Distance(t, h) = IF h <= t THEN t - h ELSE t - h + Wrap
        /\ Distance(t, n) = IF n <= t THEN t - n ELSE t - n + Wrap
    BY <2>2, DistanceIs
  <2>4. Distance(t, h) = Distance(t, n) + 1 /\ Distance(t, n) \in Nat
    BY <2>2, <2>3 DEF Index
  <2>. QED  BY <2>2, <2>4 DEF n
<1>2. /\ s \in Seq(Content) /\ Len(s) = d + 1
      /\ \A i \in 1..(d + 1) : s[i] = b[Slot(h + i - 1)]
  BY <1>1, StoredType
<1>3. /\ u \in Seq(Content) /\ Len(u) = d
      /\ \A i \in 1..d : u[i] = b[Slot(Next1(h) + i - 1)]
  BY <1>1, StoredType
<1>4. \A i \in 1..d : Slot(Next1(h) + i - 1) = Slot(h + (i + 1) - 1)
  <2>. SUFFICES ASSUME NEW i \in 1..d
                PROVE  Slot(Next1(h) + i - 1) = Slot(h + (i + 1) - 1)
    OBVIOUS
  <2>0. i \in Int /\ h \in Int
    BY <1>1 DEF Index
  <2>1. CASE h = Wrap - 1
    <3>1. Next1(h) = 0
      BY <2>1, Next1Is
    <3>2. i - 1 \in Int /\ h + (i + 1) - 1 = (i - 1) + Wrap
          /\ Next1(h) + i - 1 = i - 1
      BY <2>0, <2>1, <3>1
    <3>. QED  BY <3>2, SlotWraps
  <2>2. CASE h # Wrap - 1
    <3>1. Next1(h) = h + 1
      BY <2>2, Next1Is
    <3>2. Next1(h) + i - 1 = h + (i + 1) - 1
      BY <2>0, <3>1
    <3>. QED  BY <3>2
  <2>. QED  BY <2>1, <2>2
<1>5. s[1] = b[Slot(h)]
  <2>1. h + 1 - 1 = h /\ 1 \in 1..(d + 1)
    BY <1>1 DEF Index
  <2>. QED  BY <1>2, <2>1
<1>. HIDE DEF s, u, d
<1>6. ASSUME NEW i \in 1..Len(u) PROVE u[i] = s[i + 1]
  <2>1. i \in 1..d /\ i + 1 \in 1..(d + 1)
    BY <1>1, <1>3
  <2>2. u[i] = b[Slot(Next1(h) + i - 1)] /\ s[i + 1] = b[Slot(h + (i + 1) - 1)]
    BY <1>2, <1>3, <2>1
  <2>. QED  BY <1>4, <2>1, <2>2
<1>7. s # <<>> /\ u = Tail(s)
  BY <1>1, <1>2, <1>3, <1>6, TailIs
<1>. QED  BY <1>5, <1>7 DEF s, u

LEMMA InitRefines == Init => Queue!QueueInit
<1>. SUFFICES ASSUME Init PROVE Queue!QueueInit
  OBVIOUS
<1>1. 0 \in Index
  BY RingAssumption DEF Index
<1>2. Distance(0, 0) = 0
  BY <1>1, DistanceIs
<1>3. Contents = <<>>
  BY <1>2 DEF Contents, Init
<1>. QED  BY <1>3 DEF Init, Queue!QueueInit

LEMMA NextRefines ==
  IInv /\ [Next]_vars => [Queue!QueueNext]_<<Contents, pushed, popped>>
<1>. SUFFICES ASSUME IInv, [Next]_vars
              PROVE  \/ Queue!QueueNext
                     \/ UNCHANGED <<Contents, pushed, popped>>
  OBVIOUS
<1>. USE RingAssumption
<1>0. /\ head \in Index /\ tail \in Index /\ buf \in Buffers
      /\ Distance(tail, head) \in Int
  BY DistanceType DEF IInv, TypeOK, Buffers, Content
<1>01. /\ Contents = Stored(buf, head, tail)
       /\ Contents' = Stored(buf', head', tail')
  BY DEF Contents, Stored
<1>02. Len(Contents) = Distance(tail, head)
  BY <1>0, <1>01, StoredType
<1>03. Len(Contents) = 0 => Contents = <<>>
  <2>1. Contents \in Seq(Content)
    BY <1>0, <1>01, StoredType
  <2>. QED  BY <2>1
(* Steps that touch neither index nor slot, and return nothing. *)
<1>1. CASE Push \/ Pop \/ PopRead
  BY <1>01, <1>1
     DEF Push, Pop, PopRead, producerVars, consumerVars, Contents
<1>2. CASE PushLoad
  <2>1. CASE Distance(tail, head) = Capacity /\ ~spins
    <3>1. Len(Contents) = Capacity /\ pushed' = "Full"
          /\ UNCHANGED <<Contents, popped>>
      BY <1>02, <1>2, <2>1 DEF PushLoad, consumerVars, Contents
    <3>. QED  BY <3>1 DEF Queue!QueueNext, Queue!RefuseFull
  <2>2. CASE ~(Distance(tail, head) = Capacity /\ ~spins)
    BY <1>2, <2>2 DEF PushLoad, consumerVars, Contents
  <2>. QED  BY <2>1, <2>2
<1>3. CASE PushWrite
  <2>1. Distance(tail, head) < Capacity
    <3>1. Distance(tail, cached_head) \in Int
      BY <1>0, DistanceType DEF IInv, TypeOK
    <3>. QED  BY <1>0, <1>3, <3>1
              DEF IInv, PushWrite, CachesAreSafe, RoomSeen
  <2>2. /\ buf' = [buf EXCEPT ![Slot(tail)] = value]
        /\ UNCHANGED <<head, tail, pushed, popped>>
    BY <1>3 DEF PushWrite, consumerVars
  <2>3. Contents' = Contents
    BY <1>0, <1>01, <2>1, <2>2, WriteUnseen
  <2>. QED  BY <2>2, <2>3
<1>4. CASE PushPublish
  <2>1. Distance(tail, head) < Capacity
    <3>1. Distance(tail, cached_head) \in Int
      BY <1>0, DistanceType DEF IInv, TypeOK
    <3>. QED  BY <1>0, <1>4, <3>1
              DEF IInv, PushPublish, CachesAreSafe, RoomSeen
  <2>2. /\ buf[Slot(tail)] = value /\ value \in Value
        /\ tail' = Next1(tail) /\ pushed' = "Ok"
        /\ UNCHANGED <<head, buf, popped>>
    BY <1>4 DEF IInv, PushPublish, consumerVars, Written, Pushed
  <2>3. Contents' = Append(Contents, value)
    BY <1>0, <1>01, <2>1, <2>2, PublishAppends
  <2>. QED  BY <1>02, <2>1, <2>2, <2>3 DEF Queue!QueueNext, Queue!Enqueue
<1>5. CASE PopLoad
  <2>1. CASE head = tail
    <3>1. Distance(tail, head) = 0
      BY <1>0, <2>1, DistanceIs DEF Index
    <3>2. Contents = <<>> /\ popped' = NoValue /\ UNCHANGED <<Contents, pushed>>
      BY <1>02, <1>03, <1>5, <2>1, <3>1 DEF PopLoad, producerVars, Contents
    <3>. QED  BY <3>2 DEF Queue!QueueNext, Queue!FindEmpty
  <2>2. CASE head # tail
    BY <1>5, <2>2 DEF PopLoad, producerVars, Contents
  <2>. QED  BY <2>1, <2>2
<1>6. CASE PopRelease
  <2>1. head # tail
    <3>1. /\ cached_tail \in Index /\ head # cached_tail
          /\ Distance(cached_tail, head) <= Distance(tail, head)
      BY <1>6 DEF IInv, PopRelease, ValueSeen, CachesAreSafe, TypeOK
    <3>. QED  BY <1>0, <3>1, DistanceIs DEF Index
  <2>2. /\ popped' = buf[Slot(head)] /\ head' = Next1(head)
        /\ UNCHANGED <<tail, buf, pushed>>
    BY <1>6 DEF IInv, PopRelease, producerVars, Taken
  <2>3. /\ Contents # <<>> /\ Contents[1] = buf[Slot(head)]
        /\ Contents' = Tail(Contents)
    BY <1>0, <1>01, <2>1, <2>2, ReleaseDrops
  <2>. QED  BY <2>2, <2>3 DEF Queue!QueueNext, Queue!Dequeue
<1>7. CASE UNCHANGED vars
  BY <1>7 DEF vars, producerVars, consumerVars, Contents
<1>. QED  BY <1>1, <1>2, <1>3, <1>4, <1>5, <1>6, <1>7
          DEF Next, Pushing, Popping

(* The ring is a first-in first-out queue: nothing is lost, duplicated or  *)
(* reordered, and push and pop return what the queue's operations would.   *)
THEOREM RingIsQueue == Spec => ImplementsQueue
BY InitRefines, NextRefines, SpecIInv, PTL
   DEF Spec, ImplementsQueue, Queue!QueueSpec

=============================================================================
