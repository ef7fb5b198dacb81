---------------------------- MODULE StableQueue -----------------------------
(***************************************************************************)
(* What EventScheduler promises: "Events are processed in ascending        *)
(* timestamp order.  Equal timestamps are resolved by insertion sequence"  *)
(* (events/scheduler.py:14).  The queue is the order of delivery: an event *)
(* goes in behind every event that is not later than it, and leaves at the *)
(* head.  No stamps and no heap.                                           *)
(***************************************************************************)
EXTENDS Sequences, SequencesExt, FiniteSets, Integers

CONSTANTS Items, Times

VARIABLES queue,     \* what is still to be delivered, in order
          returned   \* what the last call handed back to its caller

None == "none"
Empty == "IndexError"
Exhausted == "StopIteration"

TypeOK ==
  /\ queue \in Seq([item : Items, timestamp : Times])
  /\ returned \in Items \cup {None, Empty, Exhausted}

NotLater(t) == Cardinality({i \in DOMAIN queue : queue[i].timestamp <= t})

Init == queue = <<>> /\ returned = None

Insert(x, t) ==
  /\ queue' = InsertAt(queue, NotLater(t) + 1, [item |-> x, timestamp |-> t])
  /\ returned' = x

Deliver ==
  /\ queue # <<>>
  /\ queue' = Tail(queue)
  /\ returned' = Head(queue).item

DeliverFromEmpty ==
  queue = <<>> /\ returned' \in {Empty, Exhausted} /\ UNCHANGED queue

Peek ==
  /\ returned' = IF queue = <<>> THEN None ELSE Head(queue).item
  /\ UNCHANGED queue

Clear == queue' = <<>> /\ returned' = None

Next ==
  \/ \E x \in Items, t \in Times : Insert(x, t)
  \/ Deliver
  \/ DeliverFromEmpty
  \/ Peek
  \/ Clear

Spec == Init /\ [][Next]_<<queue, returned>>
=============================================================================
