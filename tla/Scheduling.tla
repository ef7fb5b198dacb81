----------------------------- MODULE Scheduling -----------------------------
(***************************************************************************)
(* Values of src/events: events, their order, and what the operations of   *)
(* EventScheduler do to the value of a scheduler.  A scheduler is a record *)
(* of the set of pending events and the counter that stamps them; that the *)
(* binary heap of the code delivers exactly the order used here is what    *)
(* EventScheduler.tla checks against StableQueue.tla.                      *)
(*                                                                         *)
(* No state here: the modules that own a scheduler extend this one.        *)
(***************************************************************************)
EXTENDS Integers

\* An optional value (X | None in the code) is a set with at most one element.
Optional(S) == {{}} \cup {{x} : x \in S}
IsOptional(v, S) == v \subseteq S /\ \A x, y \in v : x = y

EventType ==
  {"PACKET_ARRIVAL", "PACKET_SERVICE_START", "PACKET_DEPARTURE", "PACKET_DROP"}

\* packet_id = None: the event belongs to no packet yet (an arrival).
NoPacket == -1

\* The Event dataclass.  The packet that the metadata of a service start, a
\* departure or a drop carries is the packet whose id the event has.
Event(timestamp, event_type, packet_id) ==
  [timestamp |-> timestamp, event_type |-> event_type,
   packet_id |-> packet_id, sequence |-> 0]

Events(Times, Packets) ==
  [timestamp : Times, event_type : EventType,
   packet_id : Packets \cup {NoPacket}, sequence : Nat]

\* Order of the dataclass: only timestamp and sequence are compared.
Precedes(e, f) ==
  \/ e.timestamp < f.timestamp
  \/ e.timestamp = f.timestamp /\ e.sequence < f.sequence

EmptyScheduler == [queue |-> {}, sequence_counter |-> 0]

\* The event as the scheduler stamps it.
Stamp(s, e) == [e EXCEPT !.sequence = s.sequence_counter]

\* add_event and schedule: stamp the event, advance the counter, push.
AddEvent(s, e) ==
  [queue |-> s.queue \cup {Stamp(s, e)},
   sequence_counter |-> s.sequence_counter + 1]

\* next_event and remove_event, and what peek sees: e is at the heap's root.
IsNext(s, e) == e \in s.queue /\ \A f \in s.queue \ {e} : Precedes(e, f)

RemoveEvent(s, e) == [s EXCEPT !.queue = @ \ {e}]

\* Pending events of one type.
Pending(s, event_type) == {e \in s.queue : e.event_type = event_type}

\* Stamps are fresh: no two pending events share one, none is yet to be given.
Stamped(s) ==
  /\ \A e \in s.queue : e.sequence < s.sequence_counter
  /\ \A e, f \in s.queue : e.sequence = f.sequence => e = f

IsScheduler(s, Times, Packets) ==
  /\ s \in [queue : SUBSET Events(Times, Packets), sequence_counter : Nat]
  /\ Stamped(s)
=============================================================================
