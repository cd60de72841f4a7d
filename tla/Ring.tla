--------------------------------- MODULE Ring ---------------------------------
(***************************************************************************)
(* The single-producer single-consumer ring every pair of threads talks    *)
(* through (crates/core/src/ring.rs), at the granularity of the accesses   *)
(* to shared memory: the load of the other side's index, the access to the *)
(* slot and the store of the own index are separate steps.  Indices are    *)
(* usize and wrap.  Each side's own copy of its index equals the shared    *)
(* one between steps, so one variable stands for both.                     *)
(*                                                                         *)
(* Slot accesses are plain memory accesses.  The indices are released and  *)
(* acquired, so for a program without data races the interleavings are all *)
(* the behaviours there are; NoDataRace says that it is one.               *)
(***************************************************************************)
EXTENDS Integers, Sequences

CONSTANTS
  Value,     \* what is sent
  NoValue,   \* pop's None, also the content of a slot never written
  Capacity,  \* slots: a power of two
  Wrap       \* 2^usize::BITS, a larger power of two

ASSUME RingAssumption ==
  /\ Capacity \in Nat /\ Capacity > 1
  /\ Wrap \in Nat /\ Wrap > Capacity /\ Wrap % Capacity = 0
  /\ NoValue \notin Value

VARIABLES
  head, tail,   \* next slot to read, next slot to write
  buf,
  \* the producer
  ppc, cached_head,
  value,        \* what it is pushing
  spins,        \* the call is push_spin
  pushed,       \* what the last call returned
  \* the consumer
  cpc, cached_tail,
  got,          \* what it read
  popped        \* what the last call returned

producerVars == <<ppc, cached_head, value, spins, pushed>>
consumerVars == <<cpc, cached_tail, got, popped>>
vars == <<head, tail, buf, producerVars, consumerVars>>

Next1(index) == (index + 1) % Wrap         \* wrapping_add(1)
Distance(to, from) == (to - from) % Wrap   \* wrapping_sub
Slot(index) == index % Capacity            \* & mask

Init ==
  /\ head = 0 /\ tail = 0
  /\ buf = [s \in 0..(Capacity - 1) |-> NoValue]
  /\ ppc = "idle" /\ cached_head = 0
  /\ value = NoValue /\ spins = FALSE /\ pushed = "Ok"
  /\ cpc = "idle" /\ cached_tail = 0
  /\ got = NoValue /\ popped = NoValue

\* Mutant of Push: full is looked for one too far.
PushOffByOne ==
  /\ ppc = "idle"
  /\ value' \in Value /\ spins' \in BOOLEAN
  /\ ppc' = IF Distance(tail, cached_head) = Capacity + 1 THEN "load" ELSE "write"
  /\ UNCHANGED <<head, tail, buf, cached_head, pushed, consumerVars>>

(* push or push_spin is called.  The producer looks at its cached copy of  *)
(* head first.                                                             *)
Push ==
  /\ ppc = "idle"
  /\ value' \in Value /\ spins' \in BOOLEAN
  /\ ppc' = IF Distance(tail, cached_head) = Capacity THEN "load" ELSE "write"
  /\ UNCHANGED <<head, tail, buf, cached_head, pushed, consumerVars>>

\* Mutants of PushLoad: the wrong index is cached; it is not reloaded.
PushLoadTail ==
  /\ ppc = "load"
  /\ cached_head' = tail
  /\ IF Distance(tail, head) = Capacity
     THEN IF spins THEN UNCHANGED <<ppc, pushed>>
          ELSE ppc' = "idle" /\ pushed' = "Full"
     ELSE ppc' = "write" /\ UNCHANGED pushed
  /\ UNCHANGED <<head, tail, buf, value, spins, consumerVars>>
PushLoadStale ==
  /\ ppc = "load"
  /\ IF spins THEN UNCHANGED <<ppc, pushed>>
     ELSE ppc' = "idle" /\ pushed' = "Full"
  /\ UNCHANGED <<head, tail, buf, cached_head, value, spins, consumerVars>>

(* It looked full: reload head.  Still full: push returns the value,       *)
(* push_spin tries again, and the cached copy still looks full.            *)
PushLoad ==
  /\ ppc = "load"
  /\ cached_head' = head
  /\ IF Distance(tail, head) = Capacity
     THEN IF spins THEN UNCHANGED <<ppc, pushed>>
          ELSE ppc' = "idle" /\ pushed' = "Full"
     ELSE ppc' = "write" /\ UNCHANGED pushed
  /\ UNCHANGED <<head, tail, buf, value, spins, consumerVars>>

PushWrite ==
  /\ ppc = "write"
  /\ buf' = [buf EXCEPT ![Slot(tail)] = value]
  /\ ppc' = "publish"
  /\ UNCHANGED <<head, tail, cached_head, value, spins, pushed, consumerVars>>

PushPublish ==
  /\ ppc = "publish"
  /\ tail' = Next1(tail)
  /\ ppc' = "idle" /\ pushed' = "Ok"
  /\ UNCHANGED <<head, buf, cached_head, value, spins, consumerVars>>

Pop ==
  /\ cpc = "idle"
  /\ cpc' = IF head = cached_tail THEN "load" ELSE "read"
  /\ UNCHANGED <<head, tail, buf, cached_tail, got, popped, producerVars>>

\* Mutant of PopLoad: the reloaded index is not compared.
PopLoadUnchecked ==
  /\ cpc = "load"
  /\ cached_tail' = tail
  /\ cpc' = "read"
  /\ UNCHANGED <<head, tail, buf, got, popped, producerVars>>

PopLoad ==
  /\ cpc = "load"
  /\ cached_tail' = tail
  /\ IF head = tail THEN cpc' = "idle" /\ popped' = NoValue
                    ELSE cpc' = "read" /\ UNCHANGED popped
  /\ UNCHANGED <<head, tail, buf, got, producerVars>>

PopRead ==
  /\ cpc = "read"
  /\ got' = buf[Slot(head)]
  /\ cpc' = "release"
  /\ UNCHANGED <<head, tail, buf, cached_tail, popped, producerVars>>

PopRelease ==
  /\ cpc = "release"
  /\ head' = Next1(head)
  /\ cpc' = "idle" /\ popped' = got
  /\ UNCHANGED <<tail, buf, cached_tail, got, producerVars>>

Pushing == PushLoad \/ PushWrite \/ PushPublish
Popping == PopLoad \/ PopRead \/ PopRelease

Next == Push \/ Pushing \/ Pop \/ Popping

Spec == Init /\ [][Next]_vars

(* A call is finished once it is begun; the consumer polls for ever (the   *)
(* loops of the engine, venue, journal and telemetry threads); nobody has  *)
(* to push.                                                                *)
FairSpec == Spec /\ WF_vars(Pushing) /\ WF_vars(Pop) /\ WF_vars(Popping)

-----------------------------------------------------------------------------

Index == 0..(Wrap - 1)

(* Indices stay in their width and slots hold values or nothing. *)
TypeOK ==
  /\ head \in Index /\ tail \in Index
  /\ cached_head \in Index /\ cached_tail \in Index
  /\ buf \in [0..(Capacity - 1) -> Value \cup {NoValue}]
  /\ ppc \in {"idle", "load", "write", "publish"}
  /\ cpc \in {"idle", "load", "read", "release"}
  /\ value \in Value \cup {NoValue} /\ got \in Value \cup {NoValue}
  /\ spins \in BOOLEAN /\ pushed \in {"Ok", "Full"}
  /\ popped \in Value \cup {NoValue}

(* "each slot is accessed by exactly one side at a time" (ring.rs:25): the *)
(* producer never writes the slot the consumer is reading, also when both  *)
(* work from stale copies of the other's index.                            *)
NoDataRace == ppc = "write" /\ cpc = "read" => Slot(tail) # Slot(head)

(* The cached index of the other side is stale in the safe direction only: *)
(* the producer never sees more room, the consumer never more values than  *)
(* there are, also after the indices wrapped.                              *)
CachesAreSafe ==
  /\ Distance(tail, head) <= Distance(tail, cached_head)
  /\ Distance(tail, cached_head) <= Capacity
  /\ Distance(cached_tail, head) <= Distance(tail, head)

(* The values between the indices are a bounded queue, and the calls       *)
(* return what its operations would.                                       *)
Contents == [i \in 1..Distance(tail, head) |-> buf[Slot(head + i - 1)]]

Queue == INSTANCE BoundedQueue WITH queue <- Contents

ImplementsQueue == Queue!QueueSpec

(* A spinning push gets its turn: back-pressure never becomes a hang while *)
(* the consumer polls.                                                     *)
PushReturns == (ppc # "idle") ~> (ppc = "idle")

=============================================================================
