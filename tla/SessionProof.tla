----------------------------- MODULE SessionProof -----------------------------
(***************************************************************************)
(* The engine never waits for room in the order ring, for every limit on   *)
(* open orders, when the ring has room for three times as many messages.   *)
(* First facts about the ring as a sequence of commands, then the          *)
(* invariant.                                                              *)
(***************************************************************************)
EXTENDS Session, FiniteSetTheorems, TLAPS

-----------------------------------------------------------------------------
(* Sequences *)

LEMMA AppendAt ==
  ASSUME NEW S, NEW s \in Seq(S), NEW x \in S
  PROVE  /\ Append(s, x) \in Seq(S)
         /\ Len(Append(s, x)) = Len(s) + 1
         /\ DOMAIN Append(s, x) = 1..(Len(s) + 1)
         /\ \A i \in 1..Len(s) : Append(s, x)[i] = s[i]
         /\ Append(s, x)[Len(s) + 1] = x
OBVIOUS

LEMMA TailAt ==
  ASSUME NEW S, NEW s \in Seq(S), s # <<>>
  PROVE  /\ Len(s) \in Nat \ {0} /\ Head(s) = s[1] /\ Head(s) \in S
         /\ Tail(s) \in Seq(S)
         /\ DOMAIN Tail(s) = 1..(Len(s) - 1)
         /\ \A i \in 1..(Len(s) - 1) : Tail(s)[i] = s[i + 1]
OBVIOUS

LEMMA SeqGrows ==
  ASSUME NEW S, NEW T, S \subseteq T, NEW s \in Seq(S)
  PROVE  s \in Seq(T)
<1>1. \A i \in 1..Len(s) : s[i] \in T
  OBVIOUS
<1>2. s \in [1..Len(s) -> T] /\ Len(s) \in Nat
  BY <1>1
<1>. QED  BY <1>2

-----------------------------------------------------------------------------
(* Commands in the order ring r, with the open orders o, the ones being    *)
(* canceled c, and n orders sent so far.                                   *)

Commands(S) == [cmd : {"New", "Cancel"}, id : S]
ReportsOn(S) == [id : S, last : BOOLEAN]

NewAt(r, i, k) == i \in DOMAIN r /\ r[i].cmd = "New" /\ r[i].id = k
CancelAt(r, i, k) == i \in DOMAIN r /\ r[i].cmd = "Cancel" /\ r[i].id = k

(* Orders the venue thread has taken from the ring. *)
Told(r, n) == {k \in 1..n : \A i \in DOMAIN r : ~NewAt(r, i, k)}

(* Orders that are open, or have a cancel in the ring behind a place. *)
Live(r, o, n, i) ==
  {k \in 1..n : k \in o \/ \E j \in DOMAIN r : j > i /\ CancelAt(r, j, k)}

(* A new order, and the earlier orders that took its place or can still    *)
(* fill the ring behind it.                                                *)
Share(r, o, n, i) ==
  {r[i].id} \cup {k \in Live(r, o, n, i) : k < r[i].id}

InRing(r, o, c, n) ==
  /\ o \subseteq 1..n
  /\ r \in Seq(Commands(1..n))
  /\ \A i \in DOMAIN r, k \in 1..n : NewAt(r, i, k) => k \in o
  /\ \A i \in DOMAIN r, k \in 1..n : CancelAt(r, i, k) => k \notin o \ c

(* A command is sent once, a cancel behind its order, and the orders still *)
(* in the ring are younger than those the venue has taken.                 *)
InOrder(r, o, n) ==
  /\ \A i, j \in DOMAIN r : r[i] = r[j] => i = j
  /\ \A i, j \in DOMAIN r, k \in 1..n :
       NewAt(r, i, k) /\ CancelAt(r, j, k) => i < j
  /\ \A i \in DOMAIN r, m \in 1..n, k \in Live(r, o, n, 0) :
       NewAt(r, i, m) => k < m \/ \E j \in DOMAIN r : j >= i /\ NewAt(r, j, k)

Within(S) == IsFiniteSet(S) /\ Cardinality(S) <= MaxOpenOrders

FewLive(r, o, n) ==
  /\ Within(o)
  /\ Within(Live(r, o, n, 0) \cap Told(r, n))
  /\ \A i \in DOMAIN r, k \in 1..n :
       NewAt(r, i, k) => Within(Share(r, o, n, i))

RingOK(r, o, c, n) ==
  InRing(r, o, c, n) /\ InOrder(r, o, n) /\ FewLive(r, o, n)

LEMMA CommandIs ==
  ASSUME NEW S, NEW m \in Commands(S)
  PROVE  /\ m.id \in S
         /\ m.cmd = "New" => m = New(m.id)
         /\ m.cmd # "New" => m.cmd = "Cancel" /\ m = Cancel(m.id)
BY DEF Commands, New, Cancel

LEMMA WithinLess ==
  ASSUME NEW S, NEW T, Within(S), T \subseteq S
  PROVE  Within(T)
<1>. USE SessionAssumption
<1>1. IsFiniteSet(T) /\ Cardinality(T) <= Cardinality(S)
  BY FS_Subset DEF Within
<1>2. Cardinality(T) \in Nat /\ Cardinality(S) \in Nat
  BY <1>1, FS_CardinalityType DEF Within
<1>. QED  BY <1>1, <1>2 DEF Within

(* A report ends an order the venue has taken. *)
LEMMA CloseKeeps ==
  ASSUME NEW r, NEW o, NEW c, NEW n \in Nat, RingOK(r, o, c, n),
         NEW G, G \subseteq Told(r, n)
  PROVE  RingOK(r, o \ G, c \ G, n)
<1>. DEFINE p == o \ G
<1>1. \A i : Live(r, p, n, i) \subseteq Live(r, o, n, i)
  BY DEF Live
<1>2. InRing(r, p, c \ G, n)
  BY DEF RingOK, InRing, Told
<1>3. InOrder(r, p, n)
  BY <1>1 DEF RingOK, InOrder
<1>4. FewLive(r, p, n)
  <2>1. Within(p)
    BY WithinLess DEF RingOK, FewLive
  <2>2. Within(Live(r, p, n, 0) \cap Told(r, n))
    BY <1>1, WithinLess DEF RingOK, FewLive
  <2>3. ASSUME NEW i \in DOMAIN r, NEW k \in 1..n, NewAt(r, i, k)
        PROVE  Within(Share(r, p, n, i))
    <3>1. Share(r, p, n, i) \subseteq Share(r, o, n, i)
      BY <1>1 DEF Share
    <3>. QED  BY <3>1, <2>3, WithinLess DEF RingOK, FewLive
  <2>. QED  BY <2>1, <2>2, <2>3 DEF FewLive
<1>. QED  BY <1>2, <1>3, <1>4 DEF RingOK

(* Sending the cancel of an open order. *)
LEMMA CancelKeeps ==
  ASSUME NEW r, NEW o, NEW c, NEW n \in Nat, RingOK(r, o, c, n),
         NEW x \in o, x \notin c
  PROVE  RingOK(Append(r, Cancel(x)), o, c \cup {x}, n)
<1>. DEFINE s == Append(r, Cancel(x))
<1>x. x \in 1..n /\ r \in Seq(Commands(1..n)) /\ Cancel(x) \in Commands(1..n)
  BY DEF RingOK, InRing, Commands, Cancel
<1>0. /\ s \in Seq(Commands(1..n)) /\ DOMAIN s = 1..(Len(r) + 1)
      /\ DOMAIN r = 1..Len(r) /\ Len(r) \in Nat
      /\ \A i \in 1..Len(r) : s[i] = r[i]
      /\ s[Len(r) + 1] = Cancel(x)
  BY <1>x, AppendAt
<1>. HIDE DEF s
<1>1. \A i \in DOMAIN s : \A k :
        NewAt(s, i, k) <=> i \in DOMAIN r /\ NewAt(r, i, k)
  BY <1>0 DEF NewAt, Cancel
<1>2. \A i \in DOMAIN s : \A k : CancelAt(s, i, k) <=>
         (i \in DOMAIN r /\ CancelAt(r, i, k)) \/ (i = Len(r) + 1 /\ k = x)
  BY <1>0 DEF CancelAt, Cancel
<1>3. \A i \in Nat : Live(s, o, n, i) = Live(r, o, n, i)
  BY <1>0, <1>2 DEF Live
<1>4. Told(s, n) = Told(r, n)
  BY <1>0, <1>1 DEF Told
<1>5. InRing(s, o, c \cup {x}, n)
  BY <1>0, <1>1, <1>2 DEF RingOK, InRing
<1>6. InOrder(s, o, n)
  <2>1. ASSUME NEW i \in DOMAIN s, NEW j \in DOMAIN s, s[i] = s[j]
        PROVE  i = j
    <3>1. \A h \in DOMAIN r : r[h] # Cancel(x)
      BY <1>x DEF RingOK, InRing, CancelAt, Cancel
    <3>. QED  BY <2>1, <3>1, <1>0 DEF RingOK, InOrder
  <2>2. \A i, j \in DOMAIN s, k \in 1..n :
          NewAt(s, i, k) /\ CancelAt(s, j, k) => i < j
    BY <1>0, <1>1, <1>2 DEF RingOK, InOrder
  <2>3. \A i \in DOMAIN s, m \in 1..n, k \in Live(s, o, n, 0) :
          NewAt(s, i, m) =>
            k < m \/ \E j \in DOMAIN s : j >= i /\ NewAt(s, j, k)
    BY <1>0, <1>1, <1>3 DEF RingOK, InOrder
  <2>. QED  BY <2>1, <2>2, <2>3 DEF InOrder
<1>7. FewLive(s, o, n)
  <2>1. ASSUME NEW i \in DOMAIN s, NEW k \in 1..n, NewAt(s, i, k)
        PROVE  Within(Share(s, o, n, i))
    <3>1. i \in DOMAIN r /\ NewAt(r, i, k) /\ i \in Nat /\ s[i] = r[i]
      BY <2>1, <1>0, <1>1
    <3>2. Share(s, o, n, i) = Share(r, o, n, i)
      BY <3>1, <1>3 DEF Share
    <3>. QED  BY <3>1, <3>2 DEF RingOK, FewLive
  <2>. QED  BY <2>1, <1>3, <1>4 DEF RingOK, FewLive
<1>. QED  BY <1>5, <1>6, <1>7 DEF RingOK, s

(* Sending a new order within the limit. *)
LEMMA NewKeeps ==
  ASSUME NEW r, NEW o, NEW c, NEW n \in Nat, RingOK(r, o, c, n),
         Cardinality(o) < MaxOpenOrders
  PROVE  RingOK(Append(r, New(n + 1)), o \cup {n + 1}, c, n + 1)
<1>. DEFINE s == Append(r, New(n + 1))
            p == o \cup {n + 1}
            m == n + 1
<1>x. /\ r \in Seq(Commands(1..m)) /\ New(m) \in Commands(1..m)
      /\ r \in Seq(Commands(1..n))
  <2>1. Commands(1..n) \subseteq Commands(1..m)
    BY DEF Commands
  <2>2. r \in Seq(Commands(1..n))
    BY DEF RingOK, InRing
  <2>3. r \in Seq(Commands(1..m))
    BY <2>1, <2>2, SeqGrows
  <2>4. New(m) \in Commands(1..m)
    BY DEF Commands, New
  <2>. QED  BY <2>2, <2>3, <2>4
<1>0. /\ s \in Seq(Commands(1..m)) /\ DOMAIN s = 1..(Len(r) + 1)
      /\ DOMAIN r = 1..Len(r) /\ Len(r) \in Nat
      /\ \A i \in 1..Len(r) : s[i] = r[i]
      /\ s[Len(r) + 1] = New(m)
      /\ m \in Nat /\ 1..m = 1..n \cup {m} /\ m \notin 1..n /\ o \subseteq 1..n
  BY <1>x, AppendAt DEF RingOK, InRing
<1>r. \A i \in DOMAIN r : r[i].id \in 1..n
  BY <1>x, CommandIs
<1>. HIDE DEF s, m
<1>1. \A i \in DOMAIN s : \A k : NewAt(s, i, k) <=>
         (i \in DOMAIN r /\ NewAt(r, i, k)) \/ (i = Len(r) + 1 /\ k = m)
  BY <1>0 DEF NewAt, New
<1>2. \A i \in DOMAIN s : \A k :
        CancelAt(s, i, k) <=> i \in DOMAIN r /\ CancelAt(r, i, k)
  BY <1>0 DEF CancelAt, New
<1>p. p = o \cup {m}
  BY DEF m
<1>. HIDE DEF p
<1>3. \A i \in Nat : Live(s, p, m, i) = Live(r, o, n, i) \cup {m}
  <2>. TAKE i \in Nat
  <2>1. \A j \in DOMAIN r : \A k : CancelAt(r, j, k) => k \in 1..n
    BY <1>r DEF CancelAt
  <2>. QED  BY <1>0, <1>2, <1>p, <2>1 DEF Live
<1>4. Told(s, m) = Told(r, n)
  BY <1>0, <1>1 DEF Told
<1>5. InRing(s, p, c, m)
  <2>1. p \subseteq 1..m
    BY <1>0, <1>p
  <2>2. \A i \in DOMAIN s, k \in 1..m : NewAt(s, i, k) => k \in p
    BY <1>0, <1>1, <1>p, <1>r DEF RingOK, InRing, NewAt
  <2>3. \A i \in DOMAIN s, k \in 1..m : CancelAt(s, i, k) => k \notin p \ c
    BY <1>0, <1>2, <1>p, <1>r DEF RingOK, InRing, CancelAt
  <2>. QED  BY <1>0, <2>1, <2>2, <2>3 DEF InRing
<1>6. InOrder(s, p, m)
  <2>1. ASSUME NEW i \in DOMAIN s, NEW j \in DOMAIN s, s[i] = s[j]
        PROVE  i = j
    <3>1. \A h \in DOMAIN r : r[h] # New(m)
      BY <1>r, <1>0 DEF New
    <3>. QED  BY <2>1, <3>1, <1>0 DEF RingOK, InOrder
  <2>2. ASSUME NEW i \in DOMAIN s, NEW j \in DOMAIN s, NEW k \in 1..m,
               NewAt(s, i, k), CancelAt(s, j, k)
        PROVE  i < j
    <3>1. j \in DOMAIN r /\ CancelAt(r, j, k) /\ k \in 1..n
      BY <2>2, <1>2, <1>r DEF CancelAt
    <3>2. i \in DOMAIN r /\ NewAt(r, i, k)
      BY <2>2, <1>1, <1>0, <3>1
    <3>. QED  BY <3>1, <3>2 DEF RingOK, InOrder
  <2>3. ASSUME NEW i \in DOMAIN s, NEW l \in 1..m, NEW k \in Live(s, p, m, 0),
               NewAt(s, i, l)
        PROVE  k < l \/ \E j \in DOMAIN s : j >= i /\ NewAt(s, j, k)
    <3>1. CASE k = m
      <4>1. /\ NewAt(s, Len(r) + 1, k)
            /\ Len(r) + 1 \in DOMAIN s /\ Len(r) + 1 >= i
        BY <3>1, <1>0, <1>1
      <4>. QED  BY <4>1
    <3>2. CASE k # m /\ i = Len(r) + 1
      <4>1. k \in 1..n /\ l = m
        BY <3>2, <2>3, <1>0, <1>1, <1>3 DEF Live
      <4>. QED  BY <4>1 DEF m
    <3>3. CASE k # m /\ i # Len(r) + 1
      <4>1. /\ k \in Live(r, o, n, 0) /\ i \in DOMAIN r
            /\ NewAt(r, i, l) /\ l \in 1..n
        BY <3>3, <2>3, <1>0, <1>1, <1>3, <1>r DEF NewAt
      <4>2. k < l \/ \E j \in DOMAIN r : j >= i /\ NewAt(r, j, k)
        BY <4>1 DEF RingOK, InOrder
      <4>. QED  BY <4>2, <1>0, <1>1
    <3>. QED  BY <3>1, <3>2, <3>3
  <2>. QED  BY <2>1, <2>2, <2>3 DEF InOrder
<1>7. FewLive(s, p, m)
  <2>1. Within(p)
    <3>1. IsFiniteSet(o) /\ Cardinality(o) \in Nat /\ m \notin o
      BY <1>0, FS_CardinalityType DEF RingOK, FewLive, Within
    <3>2. IsFiniteSet(p) /\ Cardinality(p) = Cardinality(o) + 1
      BY <3>1, <1>p, FS_AddElement
    <3>. QED  BY <3>1, <3>2, SessionAssumption DEF Within
  <2>2. Live(s, p, m, 0) \cap Told(s, m) = Live(r, o, n, 0) \cap Told(r, n)
    BY <1>0, <1>3, <1>4 DEF Told
  <2>3. ASSUME NEW i \in DOMAIN s, NEW k \in 1..m, NewAt(s, i, k)
        PROVE  Within(Share(s, p, m, i))
    <3>1. CASE i \in DOMAIN r
      <4>1. /\ NewAt(r, i, k) /\ k \in 1..n /\ s[i] = r[i]
            /\ i \in Nat /\ r[i].id = k
        BY <3>1, <2>3, <1>0, <1>1, <1>r DEF NewAt
      <4>2. Share(s, p, m, i) = Share(r, o, n, i)
        <5>1. ~(m < r[i].id)
          BY <4>1, <1>0
        <5>. QED  BY <4>1, <5>1, <1>3 DEF Share
      <4>. QED  BY <3>1, <4>1, <4>2 DEF RingOK, FewLive
    <3>2. CASE i = Len(r) + 1
      <4>1. s[i].id = m
        BY <3>2, <1>0 DEF New
      <4>2. Live(s, p, m, i) \subseteq p
        BY <3>2, <1>0, <1>2 DEF Live
      <4>3. Share(s, p, m, i) \subseteq p
        BY <4>1, <4>2, <1>p DEF Share
      <4>. QED  BY <4>3, <2>1, WithinLess
    <3>. QED  BY <3>1, <3>2, <1>0
  <2>. QED  BY <2>1, <2>2, <2>3 DEF RingOK, FewLive
<1>8. RingOK(s, p, c, m)
  BY <1>5, <1>6, <1>7 DEF RingOK
<1>. QED  BY <1>8 DEF s, p, m

(* The venue takes the first command of the ring. *)
LEMMA TakeKeeps ==
  ASSUME NEW r, NEW o, NEW c, NEW n \in Nat, RingOK(r, o, c, n), r # <<>>
  PROVE  /\ RingOK(Tail(r), o, c, n)
         /\ Told(r, n) \subseteq Told(Tail(r), n)
         /\ Head(r) \in Commands(Told(Tail(r), n))
<1>. DEFINE s == Tail(r)
<1>x. r \in Seq(Commands(1..n))
  BY DEF RingOK, InRing
<1>0. /\ s \in Seq(Commands(1..n)) /\ DOMAIN s = 1..(Len(r) - 1)
      /\ DOMAIN r = 1..Len(r) /\ Len(r) \in Nat \ {0}
      /\ \A i \in 1..(Len(r) - 1) : s[i] = r[i + 1]
      /\ Head(r) = r[1] /\ Head(r) \in Commands(1..n)
      /\ 1 \in DOMAIN r
  BY <1>x, TailAt
<1>. HIDE DEF s
<1>1. \A i \in DOMAIN s : /\ i \in Nat \ {0} /\ i + 1 \in DOMAIN r
                          /\ \A k : NewAt(s, i, k) <=> NewAt(r, i + 1, k)
                          /\ \A k : CancelAt(s, i, k) <=> CancelAt(r, i + 1, k)
  BY <1>0 DEF NewAt, CancelAt
<1>2. \A j \in DOMAIN r : j > 1 => j - 1 \in DOMAIN s /\ (j - 1) + 1 = j
  BY <1>0
<1>3. \A i \in Nat : Live(s, o, n, i) = Live(r, o, n, i + 1)
  <2>. TAKE i \in Nat
  <2>1. ASSUME NEW k, NEW j \in DOMAIN s, j > i, CancelAt(s, j, k)
        PROVE  \E h \in DOMAIN r : h > i + 1 /\ CancelAt(r, h, k)
    <3>1. j + 1 \in DOMAIN r /\ j + 1 > i + 1 /\ CancelAt(r, j + 1, k)
      BY <2>1, <1>1
    <3>. QED  BY <3>1
  <2>2. ASSUME NEW k, NEW j \in DOMAIN r, j > i + 1, CancelAt(r, j, k)
        PROVE  \E h \in DOMAIN s : h > i /\ CancelAt(s, h, k)
    <3>1. j - 1 \in DOMAIN s /\ j - 1 > i /\ (j - 1) + 1 = j
      BY <2>2, <1>0, <1>2
    <3>2. CancelAt(s, j - 1, k)
      BY <3>1, <2>2, <1>1
    <3>. QED  BY <3>1, <3>2
  <2>. QED  BY <2>1, <2>2 DEF Live
<1>4. Live(s, o, n, 0) \subseteq Live(r, o, n, 0)
  <2>1. Live(r, o, n, 1) \subseteq Live(r, o, n, 0)
    BY <1>0 DEF Live
  <2>. QED  BY <2>1, <1>3
<1>5. Told(r, n) \subseteq Told(s, n)
  BY <1>1 DEF Told
<1>6. \A k \in Told(s, n) : k \in Told(r, n) \/ NewAt(r, 1, k)
  <2>. SUFFICES ASSUME NEW k \in Told(s, n), ~NewAt(r, 1, k),
                       NEW j \in DOMAIN r, NewAt(r, j, k)
                PROVE  FALSE
    BY DEF Told
  <2>1. j > 1
    BY <1>0
  <2>2. NewAt(s, j - 1, k) /\ j - 1 \in DOMAIN s
    BY <2>1, <1>1, <1>2
  <2>. QED  BY <2>2 DEF Told
<1>7. Head(r) \in Commands(Told(s, n))
  <2>. DEFINE k == Head(r).id
  <2>1. k \in 1..n /\ Head(r).cmd \in {"New", "Cancel"}
    BY <1>0 DEF Commands
  <2>2. k \in Told(s, n)
    <3>. SUFFICES ASSUME NEW i \in DOMAIN s, NewAt(s, i, k) PROVE FALSE
      BY <2>1 DEF Told
    <3>1. NewAt(r, i + 1, k) /\ i + 1 \in DOMAIN r /\ i + 1 > 1
      BY <1>1
    <3>2. CASE Head(r).cmd = "New"
      <4>1. r[i + 1] \in Commands(1..n)
        BY <3>1, <1>x, <1>0
      <4>2. r[i + 1] = r[1]
        BY <3>1, <3>2, <4>1, <1>0, CommandIs DEF NewAt
      <4>. QED  BY <3>1, <4>2, <1>0 DEF RingOK, InOrder
    <3>3. CASE Head(r).cmd = "Cancel"
      <4>1. CancelAt(r, 1, k)
        BY <3>3, <1>0 DEF CancelAt
      <4>. QED  BY <3>1, <4>1, <2>1, <1>0 DEF RingOK, InOrder
    <3>. QED  BY <2>1, <3>2, <3>3
  <2>. QED  BY <2>1, <2>2, <1>0 DEF Commands
<1>8. InRing(s, o, c, n)
  BY <1>0, <1>1 DEF RingOK, InRing
<1>9. InOrder(s, o, n)
  <2>1. ASSUME NEW i \in DOMAIN s, NEW j \in DOMAIN s, s[i] = s[j]
        PROVE  i = j
    <3>1. i + 1 = j + 1
      BY <2>1, <1>0, <1>1 DEF RingOK, InOrder
    <3>. QED  BY <3>1, <1>1
  <2>2. ASSUME NEW i \in DOMAIN s, NEW j \in DOMAIN s, NEW k \in 1..n,
               NewAt(s, i, k), CancelAt(s, j, k)
        PROVE  i < j
    <3>1. i + 1 < j + 1
      BY <2>2, <1>1 DEF RingOK, InOrder
    <3>. QED  BY <3>1, <1>1
  <2>3. ASSUME NEW i \in DOMAIN s, NEW l \in 1..n, NEW k \in Live(s, o, n, 0),
               NewAt(s, i, l)
        PROVE  k < l \/ \E j \in DOMAIN s : j >= i /\ NewAt(s, j, k)
    <3>1. k < l \/ \E j \in DOMAIN r : j >= i + 1 /\ NewAt(r, j, k)
      BY <2>3, <1>1, <1>4 DEF RingOK, InOrder
    <3>2. ASSUME NEW j \in DOMAIN r, j >= i + 1, NewAt(r, j, k)
          PROVE  \E h \in DOMAIN s : h >= i /\ NewAt(s, h, k)
      <4>1. j > 1 /\ i \in Nat \ {0} /\ j \in Nat
        BY <3>2, <1>0, <1>1
      <4>2. j - 1 \in DOMAIN s /\ j - 1 >= i /\ NewAt(s, j - 1, k)
        BY <4>1, <3>2, <1>1, <1>2
      <4>. QED  BY <4>2
    <3>. QED  BY <3>1, <3>2
  <2>. QED  BY <2>1, <2>2, <2>3 DEF InOrder
<1>10. FewLive(s, o, n)
  <2>1. Within(Live(s, o, n, 0) \cap Told(s, n))
    <3>1. CASE \E h \in 1..n : NewAt(r, 1, h)
      <4>. PICK h \in 1..n : NewAt(r, 1, h)
        BY <3>1
      <4>1. Within(Share(r, o, n, 1)) /\ r[1].id = h
        BY <1>0 DEF RingOK, FewLive, NewAt
      <4>2. ASSUME NEW k \in Live(s, o, n, 0), k \in Told(s, n), k # h
            PROVE  k \in Live(r, o, n, 1) /\ k < h
        <5>1. k \in Live(r, o, n, 1) /\ k \in Live(r, o, n, 0) /\ k \in 1..n
          BY <4>2, <1>3, <1>4 DEF Live
        <5>2. k \in Told(r, n)
          BY <4>2, <1>6 DEF NewAt
        <5>3. k < h \/ \E j \in DOMAIN r : j >= 1 /\ NewAt(r, j, k)
          BY <5>1, <1>0 DEF RingOK, InOrder
        <5>. QED  BY <5>1, <5>2, <5>3 DEF Told
      <4>3. Live(s, o, n, 0) \cap Told(s, n) \subseteq Share(r, o, n, 1)
        BY <4>1, <4>2 DEF Share
      <4>. QED  BY <4>1, <4>3, WithinLess
    <3>2. CASE ~\E h \in 1..n : NewAt(r, 1, h)
      <4>1. Live(s, o, n, 0) \cap Told(s, n)
              \subseteq Live(r, o, n, 0) \cap Told(r, n)
        BY <3>2, <1>4, <1>6 DEF Told
      <4>. QED  BY <4>1, WithinLess DEF RingOK, FewLive
    <3>. QED  BY <3>1, <3>2
  <2>2. ASSUME NEW i \in DOMAIN s, NEW k \in 1..n, NewAt(s, i, k)
        PROVE  Within(Share(s, o, n, i))
    <3>1. /\ i \in Nat /\ i + 1 \in DOMAIN r /\ NewAt(r, i + 1, k)
          /\ s[i] = r[i + 1]
      BY <2>2, <1>0, <1>1
    <3>2. Share(s, o, n, i) = Share(r, o, n, i + 1)
      BY <3>1, <1>3 DEF Share
    <3>. QED  BY <3>1, <3>2 DEF RingOK, FewLive
  <2>. QED  BY <2>1, <2>2 DEF RingOK, FewLive
<1>11. RingOK(s, o, c, n)
  BY <1>8, <1>9, <1>10 DEF RingOK
<1>. QED  BY <1>5, <1>7, <1>11 DEF s

LEMMA OneToOne ==
  ASSUME NEW I, IsFiniteSet(I), NEW T, IsFiniteSet(T), NEW f \in [I -> T],
         \A i, j \in I : f[i] = f[j] => i = j
  PROVE  Cardinality(I) <= Cardinality(T)
<1>1. Cardinality(I) \in Nat /\ Cardinality(T) \in Nat
  BY FS_CardinalityType
<1>2. ~(Cardinality(T) < Cardinality(I))
  BY FS_PigeonHole
<1>. QED  BY <1>1, <1>2

LEMMA IndicesAre ==
  ASSUME NEW n \in Nat
  PROVE  IsFiniteSet(1..n) /\ Cardinality(1..n) = n
<1>1. 1 \in Int /\ n \in Int
  OBVIOUS
<1>2. IsFiniteSet(1..n) /\ Cardinality(1..n) = IF 1 > n THEN 0 ELSE n - 1 + 1
  BY <1>1, FS_Interval
<1>. QED  BY <1>2

LEMMA UnionAtMost ==
  ASSUME NEW S, IsFiniteSet(S), NEW T, IsFiniteSet(T)
  PROVE  /\ IsFiniteSet(S \cup T) /\ Cardinality(S \cup T) \in Nat
         /\ Cardinality(S) \in Nat /\ Cardinality(T) \in Nat
         /\ Cardinality(S \cup T) <= Cardinality(S) + Cardinality(T)
<1>1. /\ IsFiniteSet(S \cup T)
      /\ Cardinality(S \cup T) =
           Cardinality(S) + Cardinality(T) - Cardinality(S \cap T)
  BY FS_Union
<1>2. IsFiniteSet(S \cap T)
  BY FS_Intersection
<1>3. /\ Cardinality(S) \in Nat /\ Cardinality(T) \in Nat
      /\ Cardinality(S \cap T) \in Nat
  BY <1>2, FS_CardinalityType
<1>4. Cardinality(S \cup T) \in Nat
  BY <1>1, FS_CardinalityType
<1>. QED  BY <1>1, <1>3, <1>4

(* Commands of one kind are no more than the orders they are about. *)
LEMMA OneKind ==
  ASSUME NEW r, NEW o, NEW c, NEW n \in Nat, RingOK(r, o, c, n), NEW a,
         NEW I, I \subseteq DOMAIN r, \A i \in I : r[i].cmd = a,
         NEW T, IsFiniteSet(T), \A i \in I : r[i].id \in T
  PROVE  /\ IsFiniteSet(I) /\ Cardinality(I) \in Nat
         /\ Cardinality(T) \in Nat
         /\ Cardinality(I) <= Cardinality(T)
<1>. DEFINE f == [i \in I |-> r[i].id]
<1>0. r \in Seq(Commands(1..n)) /\ DOMAIN r = 1..Len(r) /\ Len(r) \in Nat
  BY DEF RingOK, InRing
<1>1. IsFiniteSet(DOMAIN r)
  BY <1>0, IndicesAre
<1>2. IsFiniteSet(I)
  BY <1>1, FS_Subset
<1>3. f \in [I -> T]
  OBVIOUS
<1>4. \A i, j \in I : f[i] = f[j] => i = j
  <2>. SUFFICES ASSUME NEW i \in I, NEW j \in I, r[i].id = r[j].id
                PROVE  i = j
    OBVIOUS
  <2>1. r[i] \in Commands(1..n) /\ r[j] \in Commands(1..n)
    BY <1>0
  <2>2. r[i].cmd = r[j].cmd
    OBVIOUS
  <2>3. r[i] = r[j]
    BY <2>1, <2>2, CommandIs
  <2>. QED  BY <2>3 DEF RingOK, InOrder
<1>. HIDE DEF f
<1>. QED  BY <1>2, <1>3, <1>4, OneToOne, FS_CardinalityType

(* The ring holds new orders, cancels behind a new order, and cancels of   *)
(* orders the venue has taken.                                             *)
LEMMA RingLength ==
  ASSUME NEW r, NEW o, NEW c, NEW n \in Nat, RingOK(r, o, c, n), NEW T,
         IsFiniteSet(T),
         \A i, j \in DOMAIN r, k \in 1..n :
           NewAt(r, i, k) /\ CancelAt(r, j, k) => k \in T
  PROVE  /\ Len(r) \in Nat /\ Cardinality(o) \in Nat /\ Cardinality(T) \in Nat
         /\ Len(r) <= Cardinality(o) + Cardinality(T) + MaxOpenOrders
<1>. DEFINE late == Live(r, o, n, 0) \cap Told(r, n)
            N == {i \in DOMAIN r : r[i].cmd = "New"}
            C == {i \in DOMAIN r : /\ r[i].cmd = "Cancel"
                                   /\ r[i].id \notin Told(r, n)}
            L == {i \in DOMAIN r : /\ r[i].cmd = "Cancel"
                                   /\ r[i].id \in Told(r, n)}
<1>0. /\ r \in Seq(Commands(1..n)) /\ DOMAIN r = 1..Len(r) /\ Len(r) \in Nat
      /\ \A i \in DOMAIN r : r[i] \in Commands(1..n)
  BY DEF RingOK, InRing
<1>1. /\ IsFiniteSet(N) /\ Cardinality(N) \in Nat /\ Cardinality(o) \in Nat
      /\ Cardinality(N) <= Cardinality(o)
  <2>1. \A i \in N : r[i].id \in o
    BY <1>0 DEF RingOK, InRing, NewAt, Commands
  <2>2. IsFiniteSet(o)
    BY DEF RingOK, FewLive, Within
  <2>. QED  BY <2>1, <2>2, OneKind
<1>2. /\ IsFiniteSet(C) /\ Cardinality(C) \in Nat /\ Cardinality(T) \in Nat
      /\ Cardinality(C) <= Cardinality(T)
  <2>1. ASSUME NEW i \in C PROVE r[i].id \in T
    <3>1. r[i].id \in 1..n /\ CancelAt(r, i, r[i].id)
      BY <1>0, CommandIs DEF CancelAt
    <3>2. \E j \in DOMAIN r : NewAt(r, j, r[i].id)
      BY <3>1 DEF Told
    <3>. QED  BY <3>1, <3>2
  <2>. QED  BY <2>1, OneKind
<1>3. /\ IsFiniteSet(L) /\ Cardinality(L) \in Nat
      /\ Cardinality(L) <= MaxOpenOrders
  <2>1. ASSUME NEW i \in L PROVE r[i].id \in late
    <3>1. r[i].id \in 1..n /\ CancelAt(r, i, r[i].id) /\ i > 0
      BY <1>0, CommandIs DEF CancelAt
    <3>. QED  BY <3>1 DEF Live
  <2>2. IsFiniteSet(late) /\ Cardinality(late) <= MaxOpenOrders
    BY DEF RingOK, FewLive, Within
  <2>. HIDE DEF late
  <2>3. /\ IsFiniteSet(L) /\ Cardinality(L) \in Nat
        /\ Cardinality(late) \in Nat /\ Cardinality(L) <= Cardinality(late)
    BY <2>1, <2>2, OneKind
  <2>. QED  BY <2>2, <2>3, SessionAssumption
<1>4. DOMAIN r = (N \cup C) \cup L
  BY <1>0 DEF Commands
<1>5. Cardinality(DOMAIN r) = Len(r) /\ IsFiniteSet(DOMAIN r)
  BY <1>0, IndicesAre
<1>. HIDE DEF N, C, L, late
<1>6. /\ IsFiniteSet(N \cup C) /\ Cardinality(N \cup C) \in Nat
      /\ Cardinality(N \cup C) <= Cardinality(N) + Cardinality(C)
  BY <1>1, <1>2, UnionAtMost
<1>7. /\ Cardinality((N \cup C) \cup L)
           <= Cardinality(N \cup C) + Cardinality(L)
      /\ Cardinality((N \cup C) \cup L) \in Nat
  BY <1>3, <1>6, UnionAtMost
<1>8. Cardinality((N \cup C) \cup L) = Len(r)
  BY <1>4, <1>5
<1>9. MaxOpenOrders \in Nat
  BY SessionAssumption
<1>10. Len(r) <= Cardinality(o) + Cardinality(T) + MaxOpenOrders
  BY <1>1, <1>2, <1>3, <1>6, <1>7, <1>8, <1>9
<1>. QED  BY <1>0, <1>1, <1>2, <1>10

(* While a cancel or a new order within the limit can still be sent, the   *)
(* ring is short of three messages an order.                               *)
LEMMA RingHasRoom ==
  ASSUME NEW r, NEW o, NEW c, NEW n \in Nat, RingOK(r, o, c, n),
         o \ c # {} \/ Cardinality(o) < MaxOpenOrders
  PROVE  Len(r) < 3 * MaxOpenOrders
<1>0. /\ IsFiniteSet(o) /\ Cardinality(o) <= MaxOpenOrders
      /\ MaxOpenOrders \in Nat
  BY SessionAssumption DEF RingOK, FewLive, Within
<1>1. CASE o \ c # {}
  <2>1. PICK x : x \in o \ c
    BY <1>1
  <2>2. IsFiniteSet(o \ {x}) /\ Cardinality(o \ {x}) = Cardinality(o) - 1
    BY <2>1, <1>0, FS_RemoveElement
  <2>3. \A i, j \in DOMAIN r, k \in 1..n :
          NewAt(r, i, k) /\ CancelAt(r, j, k) => k \in o \ {x}
    BY <2>1 DEF RingOK, InRing
  <2>. QED  BY <2>2, <2>3, <1>0, RingLength
<1>2. CASE Cardinality(o) < MaxOpenOrders
  <2>1. \A i, j \in DOMAIN r, k \in 1..n :
          NewAt(r, i, k) /\ CancelAt(r, j, k) => k \in o
    BY DEF RingOK, InRing
  <2>. QED  BY <2>1, <1>0, <1>2, RingLength
<1>. QED  BY <1>1, <1>2

-----------------------------------------------------------------------------
(* The invariant *)

(* What is on the way from the venue thread or inside it is about orders   *)
(* it has taken from the ring.                                             *)
Heard(T) ==
  /\ execs \in Seq(ReportsOn(T)) /\ execRing \in Seq(ReportsOn(T))
  /\ out \in Seq(ReportsOn(T))
  /\ inflight \in Seq(Commands(T))
  /\ DOMAIN working \subseteq T

Wanted ==
  /\ cancels \subseteq open \ canceling
  /\ epc # "send" => cancels = {}

SessionInv ==
  /\ sent \in Nat
  /\ RingOK(orderRing, open, canceling, sent)
  /\ Heard(Told(orderRing, sent))
  /\ Wanted

LEMMA StepAlone ==
  ASSUME SessionInv, UNCHANGED <<sent, orderRing, open, canceling>>,
         Heard(Told(orderRing, sent))', Wanted'
  PROVE  SessionInv'
BY DEF SessionInv

LEMMA HeardGrows ==
  ASSUME NEW S, NEW T, S \subseteq T, Heard(S)
  PROVE  /\ execs \in Seq(ReportsOn(T)) /\ execRing \in Seq(ReportsOn(T))
         /\ out \in Seq(ReportsOn(T))
         /\ inflight \in Seq(Commands(T))
         /\ DOMAIN working \subseteq T
<1>1. ReportsOn(S) \subseteq ReportsOn(T) /\ Commands(S) \subseteq Commands(T)
  BY DEF ReportsOn, Commands
<1>. QED  BY <1>1, SeqGrows DEF Heard

LEMMA Start == Init => SessionInv
<1>. SUFFICES ASSUME Init PROVE SessionInv
  OBVIOUS
<1>1. \A T : Heard(T)
  <2>1. \A S : <<>> \in Seq(S)
    OBVIOUS
  <2>. QED  BY <2>1 DEF Init, Heard
<1>2. Within({})
  BY FS_EmptySet, SessionAssumption DEF Within
<1>3. Live(<<>>, {}, 0, 0) = {}
  BY DEF Live
<1>4. RingOK(<<>>, {}, {}, 0)
  <2>1. <<>> \in Seq(Commands(1..0)) /\ DOMAIN <<>> = {}
    OBVIOUS
  <2>2. {} \cap Told(<<>>, 0) = {}
    OBVIOUS
  <2>3. FewLive(<<>>, {}, 0)
    BY <2>1, <2>2, <1>2, <1>3 DEF FewLive
  <2>. QED  BY <2>1, <2>3 DEF RingOK, InRing, InOrder
<1>. QED  BY <1>1, <1>4 DEF Init, SessionInv, Wanted

LEMMA MainKeeps == SessionInv /\ (Stop \/ Join) => SessionInv'
<1>. SUFFICES ASSUME SessionInv, Stop \/ Join PROVE SessionInv'
  OBVIOUS
<1>1. UNCHANGED <<orderRing, execRing, engineVars, venueVars>>
  BY DEF Stop, Join
<1>. QED
  BY <1>1 DEF SessionInv, Heard, Wanted, engineVars, venueVars, omsVars,
     intentVars

(* The engine picks what to cancel among its orders. *)
LEMMA PickKeeps == SessionInv /\ (EngineHead \/ EngineIntents) => SessionInv'
<1>. SUFFICES ASSUME SessionInv, EngineHead \/ EngineIntents PROVE SessionInv'
  OBVIOUS
<1>1. UNCHANGED <<sent, orderRing, open, canceling, execs, execRing,
                  venueVars>>
  BY DEF EngineHead, EngineIntents, omsVars, venueVars
<1>2. Heard(Told(orderRing, sent))'
  BY <1>1 DEF SessionInv, Heard, venueVars
<1>3. Wanted'
  BY DEF SessionInv, Wanted, EngineHead, EngineIntents, omsVars
<1>. QED  BY <1>1, <1>2, <1>3, StepAlone

LEMMA PollKeeps == SessionInv /\ (EngineMd \/ EnginePoll) => SessionInv'
<1>. SUFFICES ASSUME SessionInv, EngineMd \/ EnginePoll PROVE SessionInv'
  OBVIOUS
<1>1. /\ UNCHANGED <<sent, orderRing, open, canceling, cancels, venueVars>>
      /\ execs' = execRing /\ execRing' = <<>> /\ epc = "md" /\ epc' = "apply"
  BY DEF EngineMd, EnginePoll, PollVenue, omsVars, venueVars
<1>2. Heard(Told(orderRing, sent))'
  BY <1>1 DEF SessionInv, Heard, venueVars
<1>3. Wanted'
  BY <1>1 DEF SessionInv, Wanted
<1>. QED  BY <1>1, <1>2, <1>3, StepAlone

LEMMA ApplyKeeps == SessionInv /\ EngineApply => SessionInv'
<1>. SUFFICES ASSUME SessionInv, EngineApply PROVE SessionInv'
  OBVIOUS
<1>. DEFINE T == Told(orderRing, sent)
            gone == IF Head(execs).last THEN {Head(execs).id} ELSE {}
<1>1. /\ UNCHANGED <<sent, orderRing, cancels, epc, execRing, venueVars>>
      /\ execs # <<>> /\ execs' = Tail(execs) /\ epc = "apply"
      /\ open' = open \ gone /\ canceling' = canceling \ gone
  BY DEF EngineApply, intentVars, venueVars
<1>2. execs \in Seq(ReportsOn(T))
  BY DEF SessionInv, Heard
<1>3. gone \subseteq T /\ Tail(execs) \in Seq(ReportsOn(T))
  <2>1. Head(execs) \in ReportsOn(T) /\ Tail(execs) \in Seq(ReportsOn(T))
    BY <1>1, <1>2, TailAt
  <2>. QED  BY <2>1 DEF ReportsOn
<1>4. T' = T
  BY <1>1
<1>. HIDE DEF T, gone
<1>5. RingOK(orderRing, open, canceling, sent)'
  <2>1. gone \subseteq Told(orderRing, sent)
    BY <1>3 DEF T
  <2>2. RingOK(orderRing, open \ gone, canceling \ gone, sent)
    BY <2>1, CloseKeeps DEF SessionInv
  <2>. QED  BY <2>2, <1>1
<1>6. Heard(Told(orderRing, sent))'
  BY <1>1, <1>3 DEF SessionInv, Heard, venueVars, T
<1>. QED  BY <1>1, <1>5, <1>6 DEF SessionInv, Wanted

LEMMA SendCancelKeeps == SessionInv /\ SendCancel => SessionInv'
<1>. SUFFICES ASSUME SessionInv, SendCancel PROVE SessionInv'
  OBVIOUS
<1>1. PICK x \in cancels : /\ orderRing' = Append(orderRing, Cancel(x))
                           /\ cancels' = cancels \ {x}
                           /\ canceling' = canceling \cup {x}
  BY DEF SendCancel
<1>2. /\ UNCHANGED <<sent, open, execs, execRing, venueVars, epc>>
      /\ epc = "send" /\ x \in open /\ x \notin canceling
  BY DEF SendCancel, SessionInv, Wanted
<1>3. RingOK(orderRing, open, canceling, sent)'
  <2>1. RingOK(Append(orderRing, Cancel(x)), open, canceling \cup {x}, sent)
    BY <1>2, CancelKeeps DEF SessionInv
  <2>. QED  BY <2>1, <1>1, <1>2
<1>4. Told(orderRing, sent) \subseteq Told(orderRing', sent)
  <2>1. orderRing \in Seq(Commands(1..sent)) /\ Cancel(x) \in Commands(1..sent)
    BY <1>2 DEF SessionInv, RingOK, InRing, Commands, Cancel
  <2>2. /\ DOMAIN orderRing' = 1..(Len(orderRing) + 1)
        /\ DOMAIN orderRing = 1..Len(orderRing) /\ Len(orderRing) \in Nat
        /\ \A i \in 1..Len(orderRing) : orderRing'[i] = orderRing[i]
        /\ orderRing'[Len(orderRing) + 1] = Cancel(x)
    BY <2>1, <1>1, AppendAt
  <2>3. \A i, k : NewAt(orderRing', i, k) => NewAt(orderRing, i, k)
    BY <2>2 DEF NewAt, Cancel
  <2>4. \A i \in DOMAIN orderRing' :
          i \in DOMAIN orderRing \/ \A k : ~NewAt(orderRing', i, k)
    BY <2>2 DEF NewAt, Cancel
  <2>. QED  BY <2>3, <2>4 DEF Told
<1>5. Heard(Told(orderRing, sent))'
  <2>. DEFINE S == Told(orderRing, sent)
              T == Told(orderRing', sent)
  <2>1. Heard(S) /\ S \subseteq T
    BY <1>4 DEF SessionInv
  <2>. HIDE DEF S, T
  <2>2. /\ execs \in Seq(ReportsOn(T)) /\ execRing \in Seq(ReportsOn(T))
        /\ out \in Seq(ReportsOn(T)) /\ inflight \in Seq(Commands(T))
        /\ DOMAIN working \subseteq T
    BY <2>1, HeardGrows
  <2>. QED  BY <2>2, <1>2 DEF Heard, venueVars, T
<1>. QED  BY <1>1, <1>2, <1>3, <1>5 DEF SessionInv, Wanted

LEMMA SendNewKeeps == SessionInv /\ SendNew => SessionInv'
<1>. SUFFICES ASSUME SessionInv, SendNew PROVE SessionInv'
  OBVIOUS
<1>1. /\ UNCHANGED <<canceling, cancels, execs, execRing, venueVars, epc>>
      /\ epc = "send" /\ Cardinality(open) < MaxOpenOrders
      /\ sent' = sent + 1 /\ open' = open \cup {sent + 1}
      /\ orderRing' = Append(orderRing, New(sent + 1))
      /\ sent \in Nat
  BY DEF SendNew, SessionInv, MayOpen
<1>2. RingOK(orderRing, open, canceling, sent)'
  <2>1. RingOK(Append(orderRing, New(sent + 1)), open \cup {sent + 1},
               canceling, sent + 1)
    BY <1>1, NewKeeps DEF SessionInv
  <2>. QED  BY <2>1, <1>1
<1>3. Told(orderRing, sent) \subseteq Told(orderRing', sent')
  <2>1. /\ orderRing \in Seq(Commands(1..sent))
        /\ Commands(1..sent) \subseteq Commands(1..(sent + 1))
    BY <1>1 DEF SessionInv, RingOK, InRing, Commands
  <2>2. orderRing \in Seq(Commands(1..(sent + 1)))
    BY <2>1, SeqGrows
  <2>3. New(sent + 1) \in Commands(1..(sent + 1))
    BY <1>1 DEF Commands, New
  <2>4. /\ DOMAIN orderRing' = 1..(Len(orderRing) + 1)
        /\ DOMAIN orderRing = 1..Len(orderRing) /\ Len(orderRing) \in Nat
        /\ \A i \in 1..Len(orderRing) : orderRing'[i] = orderRing[i]
        /\ orderRing'[Len(orderRing) + 1] = New(sent + 1)
    BY <2>2, <2>3, <1>1, AppendAt
  <2>5. ASSUME NEW k \in Told(orderRing, sent), NEW i \in DOMAIN orderRing',
               NewAt(orderRing', i, k)
        PROVE  FALSE
    <3>1. k \in 1..sent
      BY DEF Told
    <3>2. CASE i \in DOMAIN orderRing
      <4>1. NewAt(orderRing, i, k)
        BY <3>2, <2>4, <2>5 DEF NewAt
      <4>. QED  BY <3>2, <4>1 DEF Told
    <3>3. CASE i = Len(orderRing) + 1
      <4>1. k = sent + 1
        BY <3>3, <2>4, <2>5 DEF NewAt, New
      <4>. QED  BY <3>1, <4>1, <1>1
    <3>. QED  BY <3>2, <3>3, <2>4
  <2>6. \A k \in Told(orderRing, sent) : k \in 1..sent'
    BY <1>1 DEF Told
  <2>. QED  BY <2>5, <2>6 DEF Told
<1>4. Heard(Told(orderRing, sent))'
  <2>. DEFINE S == Told(orderRing, sent)
              T == Told(orderRing', sent')
  <2>1. Heard(S) /\ S \subseteq T
    BY <1>3 DEF SessionInv
  <2>. HIDE DEF S, T
  <2>2. /\ execs \in Seq(ReportsOn(T)) /\ execRing \in Seq(ReportsOn(T))
        /\ out \in Seq(ReportsOn(T)) /\ inflight \in Seq(Commands(T))
        /\ DOMAIN working \subseteq T
    BY <2>1, HeardGrows
  <2>. QED  BY <2>2, <1>1 DEF Heard, venueVars, T
<1>5. Wanted'
  BY <1>1 DEF SessionInv, Wanted
<1>. QED  BY <1>1, <1>2, <1>4, <1>5 DEF SessionInv

LEMMA RefuseKeeps == SessionInv /\ (RefuseNew \/ EngineSent) => SessionInv'
<1>. SUFFICES ASSUME SessionInv, RefuseNew \/ EngineSent PROVE SessionInv'
  OBVIOUS
<1>1. /\ UNCHANGED <<sent, orderRing, open, canceling, cancels, execs,
                     execRing, venueVars>>
      /\ cancels = {} \/ epc' = "send"
  BY DEF RefuseNew, EngineSent, AllSent, omsVars, intentVars, venueVars
<1>2. Heard(Told(orderRing, sent))'
  BY <1>1 DEF SessionInv, Heard, venueVars
<1>3. Wanted'
  BY <1>1 DEF SessionInv, Wanted
<1>. QED  BY <1>1, <1>2, <1>3, StepAlone

LEMMA VenueTakeKeeps == SessionInv /\ VenueTake => SessionInv'
<1>. SUFFICES ASSUME SessionInv, VenueTake PROVE SessionInv'
  OBVIOUS
<1>0. UNCHANGED <<sent, open, canceling, cancels, epc, execs, execRing,
                  out, working>>
  BY DEF VenueTake, engineVars, omsVars, intentVars
<1>1. CASE orderRing = <<>>
  <2>1. UNCHANGED <<orderRing, inflight>>
    BY <1>1 DEF VenueTake
  <2>2. Heard(Told(orderRing, sent))'
    BY <1>0, <2>1 DEF SessionInv, Heard
  <2>. QED  BY <1>0, <2>1, <2>2, StepAlone DEF SessionInv, Wanted
<1>2. CASE orderRing # <<>>
  <2>. DEFINE S == Told(orderRing, sent)
              T == Told(orderRing', sent)
  <2>1. /\ inflight' = Append(inflight, Head(orderRing))
        /\ orderRing' = Tail(orderRing)
    BY <1>2 DEF VenueTake
  <2>2. /\ RingOK(orderRing', open, canceling, sent)
        /\ S \subseteq T /\ Head(orderRing) \in Commands(T)
    BY <1>2, <2>1, TakeKeeps DEF SessionInv
  <2>3. Heard(S) 
    BY DEF SessionInv
  <2>. HIDE DEF S, T
  <2>5. /\ execs \in Seq(ReportsOn(T)) /\ execRing \in Seq(ReportsOn(T))
        /\ out \in Seq(ReportsOn(T)) /\ inflight \in Seq(Commands(T))
        /\ DOMAIN working \subseteq T
    BY <2>2, <2>3, HeardGrows
  <2>6. inflight' \in Seq(Commands(T))
    BY <2>1, <2>2, <2>5, AppendAt
  <2>7. Heard(Told(orderRing, sent))'
    BY <1>0, <2>5, <2>6 DEF Heard, T
  <2>. QED  BY <1>0, <2>2, <2>7 DEF SessionInv, Wanted
<1>. QED  BY <1>1, <1>2

(* Reports of what the venue made of a command are about its order. *)
LEMMA FillsAreReports ==
  ASSUME NEW T, NEW id \in T, NEW n \in Nat
  PROVE  Fills(id, n) \in Seq(ReportsOn(T))
<1>1. \A i \in 1..n : Report(id, i = Lots) \in ReportsOn(T)
  BY DEF Report, ReportsOn
<1>2. Fills(id, n) \in [1..n -> ReportsOn(T)]
  BY <1>1 DEF Fills
<1>. QED  BY <1>2

LEMMA HandledReports ==
  ASSUME NEW T, NEW m \in Commands(T), NEW h \in Handled(m)
  PROVE  h.reports \in Seq(ReportsOn(T))
<1>0. /\ m.id \in T /\ Lots \in Nat
      /\ \A b \in BOOLEAN : <<Report(m.id, b)>> \in Seq(ReportsOn(T))
  BY SessionAssumption DEF Commands, Report, ReportsOn
<1>1. \A n \in Nat : Fills(m.id, n) \in Seq(ReportsOn(T))
  BY <1>0, FillsAreReports
<1>2. \A s, t \in Seq(ReportsOn(T)) : s \o t \in Seq(ReportsOn(T))
  OBVIOUS
<1>3. CASE m.cmd = "Cancel"
  <2>. DEFINE b == m.id \in DOMAIN working
  <2>1. h.reports = <<Report(m.id, b)>>
    BY <1>3 DEF Handled
  <2>2. b \in BOOLEAN
    OBVIOUS
  <2>. HIDE DEF b
  <2>. QED  BY <2>1, <2>2, <1>0
<1>4. CASE h = [reports |-> <<Report(m.id, TRUE)>>, lots |-> 0]
  BY <1>4, <1>0
<1>5. CASE \E n \in 0..Lots :
             h = [reports |-> <<Report(m.id, FALSE)>> \o Fills(m.id, n),
                  lots |-> Lots - n]
  <2>. PICK n \in 0..Lots :
         h = [reports |-> <<Report(m.id, FALSE)>> \o Fills(m.id, n),
              lots |-> Lots - n]
    BY <1>5
  <2>2. h.reports = <<Report(m.id, FALSE)>> \o Fills(m.id, n)
    OBVIOUS
  <2>1. n \in Nat
    BY <1>0
  <2>. QED  BY <2>1, <2>2, <1>0, <1>1, <1>2
<1>6. CASE \E n \in 0..(Lots - 1) :
             h = [reports |-> <<Report(m.id, FALSE)>> \o Fills(m.id, n)
                                \o <<Report(m.id, TRUE)>>, lots |-> 0]
  <2>. PICK n \in 0..(Lots - 1) :
         h = [reports |-> <<Report(m.id, FALSE)>> \o Fills(m.id, n)
                            \o <<Report(m.id, TRUE)>>, lots |-> 0]
    BY <1>6
  <2>3. h.reports = <<Report(m.id, FALSE)>> \o Fills(m.id, n)
                      \o <<Report(m.id, TRUE)>>
    OBVIOUS
  <2>1. n \in Nat
    BY <1>0
  <2>2. <<Report(m.id, FALSE)>> \o Fills(m.id, n) \in Seq(ReportsOn(T))
    BY <2>1, <1>0, <1>1, <1>2
  <2>. QED  BY <2>2, <2>3, <1>0, <1>2
<1>. QED  BY <1>3, <1>4, <1>5, <1>6 DEF Handled

LEMMA WorkingOf ==
  ASSUME NEW id, NEW n, SetWorking(id, n)
  PROVE  DOMAIN working' \subseteq DOMAIN working \cup {id}
BY DEF SetWorking, Resting

LEMMA VenueFillsKeeps ==
  SessionInv /\ (VenueHandle \/ VenueFlow) => SessionInv'
<1>. SUFFICES ASSUME SessionInv, VenueHandle \/ VenueFlow PROVE SessionInv'
  OBVIOUS
<1>. DEFINE T == Told(orderRing, sent)
<1>0. UNCHANGED <<sent, open, canceling, cancels, epc, execs, execRing,
                  orderRing>>
  BY DEF VenueHandle, VenueFlow, engineVars, omsVars, intentVars
<1>h. Heard(T)
  BY DEF SessionInv
<1>. HIDE DEF T
<1>1. CASE VenueHandle
  <2>1. PICK r \in Handled(Head(inflight)) :
          out' = r.reports /\ SetWorking(Head(inflight).id, r.lots)
    BY <1>1 DEF VenueHandle
  <2>2. /\ Head(inflight) \in Commands(T)
        /\ Tail(inflight) \in Seq(Commands(T))
        /\ inflight' = Tail(inflight)
    BY <1>1, <1>h, TailAt DEF VenueHandle, Heard
  <2>3. out' \in Seq(ReportsOn(T))
    BY <2>1, <2>2, HandledReports
  <2>4. DOMAIN working' \subseteq T
    BY <2>1, <2>2, <1>h, WorkingOf, CommandIs DEF Heard
  <2>. QED  BY <1>0, <1>h, <2>2, <2>3, <2>4 DEF SessionInv, Heard, Wanted, T
<1>2. CASE VenueFlow /\ UNCHANGED <<working, out>>
  <2>1. UNCHANGED inflight
    BY <1>2 DEF VenueFlow
  <2>. QED  BY <1>0, <1>2, <2>1 DEF SessionInv, Heard, Wanted
<1>3. CASE VenueFlow /\ ~UNCHANGED <<working, out>>
  <2>1. PICK id \in DOMAIN working :
          /\ out' = <<Report(id, working[id] = 1)>>
          /\ SetWorking(id, working[id] - 1)
    BY <1>3 DEF VenueFlow
  <2>2. UNCHANGED inflight
    BY <1>3 DEF VenueFlow
  <2>3. id \in T /\ DOMAIN working' \subseteq T
    BY <2>1, <1>h, WorkingOf DEF Heard
  <2>4. out' \in Seq(ReportsOn(T))
    <3>1. Report(id, working[id] = 1) \in ReportsOn(T)
      BY <2>3 DEF Report, ReportsOn
    <3>. QED  BY <2>1, <3>1
  <2>. QED  BY <1>0, <1>h, <2>2, <2>3, <2>4 DEF SessionInv, Heard, Wanted, T
<1>. QED  BY <1>1, <1>2, <1>3

LEMMA VenueMovesKeeps ==
  SessionInv /\ (VenueHead \/ VenueIdle \/ VenueLoops) => SessionInv'
<1>. SUFFICES ASSUME SessionInv, VenueHead \/ VenueIdle \/ VenueLoops
              PROVE  SessionInv'
  OBVIOUS
<1>1. UNCHANGED <<orderRing, execRing, engineVars, inflight, working, out>>
  BY DEF VenueHead, VenueIdle, VenueLoops
<1>. QED
  BY <1>1 DEF SessionInv, Heard, Wanted, engineVars, omsVars, intentVars

LEMMA VenuePublishKeeps == SessionInv /\ VenuePublish => SessionInv'
<1>. SUFFICES ASSUME SessionInv, VenuePublish PROVE SessionInv'
  OBVIOUS
<1>1. /\ UNCHANGED <<orderRing, engineVars, inflight, working>>
      /\ out # <<>> /\ out' = Tail(out)
      /\ execRing' = Append(execRing, Head(out))
  BY DEF VenuePublish
<1>. DEFINE T == Told(orderRing, sent)
<1>2. Heard(T)
  BY DEF SessionInv
<1>. HIDE DEF T
<1>3. execRing' \in Seq(ReportsOn(T)) /\ out' \in Seq(ReportsOn(T))
  BY <1>1, <1>2, TailAt, AppendAt DEF Heard
<1>. QED
  BY <1>1, <1>2, <1>3
     DEF SessionInv, Heard, Wanted, engineVars, omsVars, intentVars, T

(* The invariant holds throughout. *)
THEOREM RingInvariant == Spec => []SessionInv
<1>1. SessionInv /\ [Next]_vars => SessionInv'
  <2>1. SessionInv /\ UNCHANGED vars => SessionInv'
    BY DEF vars, SessionInv, Heard, Wanted, engineVars, venueVars, omsVars,
       intentVars
  <2>2. SessionInv /\ Engine => SessionInv'
    BY PickKeeps, PollKeeps, ApplyKeeps, SendCancelKeeps, SendNewKeeps,
       RefuseKeeps DEF Engine
  <2>3. SessionInv /\ Venue => SessionInv'
    BY VenueTakeKeeps, VenueFillsKeeps, VenueMovesKeeps, VenuePublishKeeps
       DEF Venue
  <2>. QED  BY <2>1, <2>2, <2>3, MainKeeps DEF Next
<1>. QED  BY Start, <1>1, PTL DEF Spec

(* The engine never waits for room in the order ring, if the ring holds    *)
(* three messages for each order that may be open (4096 against 16 open    *)
(* orders by default).                                                     *)
THEOREM NeverWaits ==
  ASSUME 3 * MaxOpenOrders <= OrderCap
  PROVE  Spec => []EngineNeverWaits
<1>1. SessionInv => EngineNeverWaits
  <2>. SUFFICES ASSUME SessionInv, epc = "send",
                       cancels # {} \/ (news > 0 /\ MayOpen)
                PROVE  Len(orderRing) < OrderCap
    BY DEF EngineNeverWaits
  <2>1. /\ RingOK(orderRing, open, canceling, sent) /\ sent \in Nat
        /\ orderRing \in Seq(Commands(1..sent))
    BY DEF SessionInv, RingOK, InRing
  <2>2. open \ canceling # {} \/ Cardinality(open) < MaxOpenOrders
    BY DEF SessionInv, Wanted, MayOpen
  <2>3. Len(orderRing) < 3 * MaxOpenOrders /\ Len(orderRing) \in Nat
    BY <2>1, <2>2, RingHasRoom
  <2>. QED  BY <2>3, SessionAssumption
<1>. QED  BY <1>1, RingInvariant, PTL

===============================================================================
