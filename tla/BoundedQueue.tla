----------------------------- MODULE BoundedQueue -----------------------------
(***************************************************************************)
(* What the ring buffer promises its two threads: a first-in first-out     *)
(* queue of at most Capacity values.  A push is refused only when the      *)
(* queue is full, a pop finds nothing only when it is empty.               *)
(***************************************************************************)
EXTENDS Naturals, Sequences

CONSTANTS Capacity, Value, NoValue

VARIABLES
  queue,
  pushed,  \* result of the last push: "Ok" or "Full"
  popped   \* result of the last pop: a value or NoValue

QueueInit == queue = <<>> /\ pushed = "Ok" /\ popped = NoValue

Enqueue ==
  /\ Len(queue) < Capacity
  /\ \E v \in Value : queue' = Append(queue, v)
  /\ pushed' = "Ok"
  /\ UNCHANGED popped

RefuseFull ==
  /\ Len(queue) = Capacity
  /\ pushed' = "Full"
  /\ UNCHANGED <<queue, popped>>

Dequeue ==
  /\ queue # <<>>
  /\ popped' = Head(queue)
  /\ queue' = Tail(queue)
  /\ UNCHANGED pushed

FindEmpty ==
  /\ queue = <<>>
  /\ popped' = NoValue
  /\ UNCHANGED <<queue, pushed>>

QueueNext == Enqueue \/ RefuseFull \/ Dequeue \/ FindEmpty

QueueSpec == QueueInit /\ [][QueueNext]_<<queue, pushed, popped>>

=============================================================================
