--------------------------- MODULE EventScheduler ---------------------------
(***************************************************************************)
(* src/events/scheduler.py: a binary heap (the standard library's heapq)   *)
(* of references to Event objects, and the counter that stamps them.       *)
(* An Event is a mutable object: add_event writes its sequence in place,   *)
(* also when the heap already holds a reference to it.                     *)
(***************************************************************************)
EXTENDS Scheduling, Sequences, TLC

CONSTANTS
  Objects,        \* the Event objects callers create
  Times,          \* their timestamps
  ReaddPending,   \* may a caller add an object that is still pending?
  MaxSequence     \* bound: adds between two clears

ASSUME SchedulerAssumption ==
  /\ Times \subseteq Int
  /\ ReaddPending \in BOOLEAN
  /\ MaxSequence \in Nat

VARIABLES
  heap,              \* _queue: objects in heapq's array order
  event,             \* object -> its timestamp and sequence, once created
  sequence_counter,  \* _sequence_counter
  returned           \* result of the last call (observed by its caller)

vars == <<heap, event, sequence_counter, returned>>

Created == DOMAIN event
InHeap(x) == \E i \in DOMAIN heap : heap[i] = x

-----------------------------------------------------------------------------
\* heapq on 1-based arrays: _siftdown moves an item towards the root while it
\* precedes its parent; _siftup moves the last item to a leaf, always along
\* the smaller child, and then lets it rise.  ev gives the objects' fields;
\* rise[i] and sink[i] are what becomes of an array when the item is at i.

Swap(h, i, j) == [h EXCEPT ![i] = h[j], ![j] = h[i]]

Rise(heap0, pos, ev) ==
  LET rise[i \in 1 .. pos] ==
        [h \in [DOMAIN heap0 -> Objects] |->
          IF i = 1 \/ ~Precedes(ev[h[i]], ev[h[i \div 2]])
          THEN h
          ELSE rise[i \div 2][Swap(h, i, i \div 2)]]
  IN  rise[pos][heap0]

SmallerChild(h, i, ev) ==
  IF 2 * i + 1 <= Len(h) /\ ~Precedes(ev[h[2 * i]], ev[h[2 * i + 1]])
  THEN 2 * i + 1
  ELSE 2 * i

Sink(heap0, ev) ==
  LET sink[i \in DOMAIN heap0] ==
        [h \in [DOMAIN heap0 -> Objects] |->
          IF 2 * i > Len(heap0)
          THEN Rise(h, i, ev)
          ELSE sink[SmallerChild(h, i, ev)][Swap(h, i, SmallerChild(h, i, ev))]]
  IN  sink[1][heap0]

HeapPush(h, x, ev) == Rise(Append(h, x), Len(h) + 1, ev)

HeapPop(h, ev) ==
  IF Len(h) = 1 THEN <<>>
  ELSE Sink([SubSeq(h, 1, Len(h) - 1) EXCEPT ![1] = h[Len(h)]], ev)

-----------------------------------------------------------------------------
Init ==
  /\ heap = <<>>
  /\ event = <<>>
  /\ sequence_counter = 0
  /\ returned = "none"

\* Faulty: the counter is not advanced.
FaultyAddStamped(x, t) ==
  LET stamped == [o \in Created \cup {x} |->
                    IF o = x THEN [timestamp |-> t, sequence |-> sequence_counter]
                             ELSE event[o]]
  IN  /\ Len(heap) < MaxSequence
      /\ event' = stamped
      /\ heap' = HeapPush(heap, x, stamped)
      /\ returned' = x
      /\ UNCHANGED sequence_counter

\* The stamp is written to the object before the object is pushed.
AddStamped(x, t) ==
  LET stamped == [o \in Created \cup {x} |->
                    IF o = x THEN [timestamp |-> t, sequence |-> sequence_counter]
                             ELSE event[o]]
  IN  /\ sequence_counter < MaxSequence
      /\ event' = stamped
      /\ sequence_counter' = sequence_counter + 1
      /\ heap' = HeapPush(heap, x, stamped)
      /\ returned' = x

\* schedule builds a new Event and hands it to add_event.
Schedule(x, t) == x \notin Created /\ AddStamped(x, t)

\* add_event of an object made earlier: one already delivered, one dropped by
\* clear, or, if callers do that, one the heap still holds.
AddExisting(x) ==
  /\ x \in Created
  /\ InHeap(x) => ReaddPending
  /\ AddStamped(x, event[x].timestamp)

\* remove_event and next_event: IndexError when there is nothing to remove.
NextEvent ==
  /\ IF heap = <<>>
     THEN returned' = "IndexError" /\ UNCHANGED heap
     ELSE returned' = heap[1] /\ heap' = HeapPop(heap, event)
  /\ UNCHANGED <<event, sequence_counter>>

\* One step of the destructive iterator; other calls may come between steps.
Iterate ==
  /\ IF heap = <<>>
     THEN returned' = "StopIteration" /\ UNCHANGED heap
     ELSE returned' = heap[1] /\ heap' = HeapPop(heap, event)
  /\ UNCHANGED <<event, sequence_counter>>

\* peek and view_next_event.
PeekEvent ==
  /\ returned' = IF heap = <<>> THEN "none" ELSE heap[1]
  /\ UNCHANGED <<heap, event, sequence_counter>>

\* Faulty: the counter starts again, the events stay.
FaultyClearAll ==
  /\ sequence_counter' = 0
  /\ returned' = "none"
  /\ UNCHANGED <<heap, event>>

ClearAll ==
  /\ heap' = <<>>
  /\ sequence_counter' = 0
  /\ returned' = "none"
  /\ UNCHANGED event

Next ==
  \/ \E x \in Objects, t \in Times : Schedule(x, t)
  \/ \E x \in Objects : AddExisting(x)
  \/ NextEvent
  \/ Iterate
  \/ PeekEvent
  \/ ClearAll

Spec == Init /\ [][Next]_vars

-----------------------------------------------------------------------------
\* Types; the stamp of a pending object is one the counter has passed, which
\* clear keeps by emptying the heap when it resets the counter.
TypeOK ==
  /\ heap \in Seq(Objects)
  /\ Created \subseteq Objects
  /\ \A x \in Created : event[x].timestamp \in Times
  /\ \A i \in DOMAIN heap : event[heap[i]].sequence \in 0 .. sequence_counter - 1
  /\ sequence_counter \in 0 .. MaxSequence
  /\ returned \in Objects \cup {"none", "IndexError", "StopIteration"}

\* The order in which the heap would hand out its objects if nothing were added:
\* drain[k] of an array of k objects.
DeliveryOrder ==
  LET drain[k \in 0 .. Len(heap)] ==
        [h \in [1 .. k -> Objects] |->
          IF k = 0 THEN <<>>
          ELSE <<[item |-> h[1], timestamp |-> event[h[1]].timestamp]>>
                 \o drain[k - 1][HeapPop(h, event)]]
  IN  drain[Len(heap)][heap]

Stable == INSTANCE StableQueue
            WITH Items <- Objects, queue <- DeliveryOrder

\* Refinement: at every moment the order in which the heap is going to deliver
\* is the stable queue's.  An add puts its event behind all events that are not
\* later and moves no other event, a removal or an iteration step takes the
\* first, a peek sees it, however the calls are mixed and whatever the heap's
\* array looks like (events/scheduler.py:14-15, 35-36, 108-118, 133-140).
StableQueueSpec == Stable!Spec
=============================================================================
