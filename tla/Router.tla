------------------------------- MODULE Router -------------------------------
(***************************************************************************)
(* src/simulation/router.py with the parts it drives: QueueManager         *)
(* (queueing/manager.py), Server (simulation/server.py), Packet            *)
(* (simulation/packet.py), and the EventScheduler in which it schedules    *)
(* its own service starts, departures and drops.  An event is handed to    *)
(* the router when it is the next of the scheduler and the clock has been  *)
(* advanced to it; how EventLoop does that is in EventLoop.tla.            *)
(*                                                                         *)
(* The steps of one handler are one action: the program has one thread.    *)
(* What interleaves is the order of events: arrivals scheduled by anyone   *)
(* at any time, and the router's own events, many of them at one instant.  *)
(***************************************************************************)
EXTENDS Scheduling, Sequences, FiniteSets

CONSTANTS
  Capacity,        \* optional: QueueConfig.capacity, the size of the buffer
  Discipline,      \* QueueConfig.queue_discipline
  FirstPacketId,   \* first_packet_id
  BaselineDrop,    \* what _should_drop_baseline can return
  ServiceTimes,    \* what service_time_distribution can return
  ArrivalDelays,   \* an arrival is scheduled at the current time plus one of these
  MaxPackets       \* bound: arrivals ever scheduled

ASSUME RouterAssumption ==
  /\ IsOptional(Capacity, Nat \ {0})
  /\ Discipline \in {"FIFO", "LIFO"}
  /\ FirstPacketId \in Nat
  /\ BaselineDrop \subseteq BOOLEAN
  /\ ServiceTimes \subseteq Int
  /\ ArrivalDelays \subseteq Nat
  /\ MaxPackets \in Nat

VARIABLES
  now,                    \* the clock
  scheduler,              \* the pending events
  buffer,                 \* QueueManager._queue, next packet first
  total_enqueued, total_dropped,   \* QueueManager's counters
  server,                 \* Server.busy, current_packet, busy_start_time
  service_start_pending,  \* Router._service_start_pending
  next_packet_id,         \* Router._next_packet_id
  packets_dropped,        \* Router._packets_dropped
  packet,                 \* id -> the Packet's fields
  raised                  \* the kinds of exceptions that have left the router

queueVars == <<buffer, total_enqueued, total_dropped>>
vars == <<now, scheduler, queueVars, server, service_start_pending,
          next_packet_id, packets_dropped, packet, raised>>

NoTime == -1      \* a time that is None
Reasons == {"baseline_drop", "queue_full"}
NotDropped == "none"

PacketIds == FirstPacketId .. next_packet_id - 1
AllPackets == FirstPacketId .. FirstPacketId + MaxPackets - 1   \* by the bound
PacketsCreated == next_packet_id - FirstPacketId

Packet(arrival_time) ==
  [arrival_time |-> arrival_time, service_start_time |-> NoTime,
   departure_time |-> NoTime, drop_time |-> NoTime, drop_reason |-> NotDropped]

IdleServer == [busy |-> FALSE, current_packet |-> NoPacket, busy_start_time |-> NoTime]
Serving(p, t) == [busy |-> TRUE, current_packet |-> p, busy_start_time |-> t]

Init ==
  /\ now = 0
  /\ scheduler = EmptyScheduler
  /\ buffer = <<>> /\ total_enqueued = 0 /\ total_dropped = 0
  /\ server = IdleServer
  /\ service_start_pending = FALSE
  /\ next_packet_id = FirstPacketId
  /\ packets_dropped = 0
  /\ packet = [p \in {} |-> Packet(0)]
  /\ raised = {}

-----------------------------------------------------------------------------
\* Definitions named Faulty... are variants of the definition that follows them
\* with a mistake a change to the code could make; no specification uses them.

\* QueueManager.

\* One packet too many.
FaultyIsFull == \E k \in Capacity : Len(buffer) > k

IsFull == \E k \in Capacity : Len(buffer) >= k

\* The disciplines are swapped.
FaultyEnqueued(p) == IF Discipline = "LIFO" THEN Append(buffer, p) ELSE <<p>> \o buffer

Enqueued(p) == IF Discipline = "FIFO" THEN Append(buffer, p) ELSE <<p>> \o buffer

\* The event of this step has been taken from the scheduler.
Taken(e) == RemoveEvent(scheduler, e)

\* Whoever called the router may schedule the next arrival when it returns.
ThenArrival(s, t) ==
  IF t = NoTime THEN s ELSE AddEvent(s, Event(t, "PACKET_ARRIVAL", NoPacket))

\* The id is not advanced.
FaultyCreate(fields) ==
  /\ packet' = [p \in FirstPacketId .. next_packet_id |->
                  IF p = next_packet_id THEN fields ELSE packet[p]]
  /\ UNCHANGED next_packet_id

\* _create_packet: the packet gets the next id.
Create(fields) ==
  /\ packet' = [p \in FirstPacketId .. next_packet_id |->
                  IF p = next_packet_id THEN fields ELSE packet[p]]
  /\ next_packet_id' = next_packet_id + 1

-----------------------------------------------------------------------------
\* handle_arrival.  t is the time of the next arrival, if the caller schedules
\* one in the same step.

\* _drop_packet: mark the packet, count it, schedule its drop event.
Drop(e, reason, t) ==
  /\ Create([Packet(e.timestamp) EXCEPT !.drop_time = e.timestamp, !.drop_reason = reason])
  /\ packets_dropped' = packets_dropped + 1
  /\ scheduler' = ThenArrival(
       AddEvent(Taken(e), Event(e.timestamp, "PACKET_DROP", next_packet_id)), t)
  /\ UNCHANGED <<buffer, total_enqueued, server, service_start_pending, raised>>

\* A random drop is counted as a full queue.
FaultyDropBaseline(e, t) ==
  /\ TRUE \in BaselineDrop
  /\ Drop(e, "baseline_drop", t)
  /\ total_dropped' = total_dropped + 1

DropBaseline(e, t) ==
  /\ TRUE \in BaselineDrop
  /\ Drop(e, "baseline_drop", t)
  /\ UNCHANGED total_dropped

\* Past this check enqueue finds room: its own refusal is never taken.
DropQueueFull(e, t) ==
  /\ FALSE \in BaselineDrop
  /\ IsFull
  /\ Drop(e, "queue_full", t)
  /\ total_dropped' = total_dropped + 1

Admit(e) ==
  /\ FALSE \in BaselineDrop
  /\ ~IsFull
  /\ Create(Packet(e.timestamp))
  /\ total_enqueued' = total_enqueued + 1
  /\ UNCHANGED <<total_dropped, server, packets_dropped, raised>>

EnqueueAndWait(e, t) ==
  /\ server.busy \/ service_start_pending
  /\ Admit(e)
  /\ buffer' = Enqueued(next_packet_id)
  /\ scheduler' = ThenArrival(Taken(e), t)
  /\ UNCHANGED service_start_pending

\* The server is idle, but it may be reserved.
FaultyEnqueueAndStart(e, t) ==
  /\ ~server.busy
  /\ Admit(e)
  /\ buffer' = Tail(Enqueued(next_packet_id))
  /\ service_start_pending' = TRUE
  /\ scheduler' = ThenArrival(
       AddEvent(Taken(e), Event(e.timestamp, "PACKET_SERVICE_START",
                                Head(Enqueued(next_packet_id)))), t)

\* _schedule_service_start takes a packet out of the buffer at once and leaves
\* it in the event; the server is still idle until that event fires.
EnqueueAndStart(e, t) ==
  /\ ~server.busy /\ ~service_start_pending
  /\ Admit(e)
  /\ buffer' = Tail(Enqueued(next_packet_id))
  /\ service_start_pending' = TRUE
  /\ scheduler' = ThenArrival(
       AddEvent(Taken(e), Event(e.timestamp, "PACKET_SERVICE_START",
                                Head(Enqueued(next_packet_id)))), t)

HandleArrival(e, t) ==
  /\ e.event_type = "PACKET_ARRIVAL"
  /\ \/ DropBaseline(e, t)
     \/ DropQueueFull(e, t)
     \/ EnqueueAndWait(e, t)
     \/ EnqueueAndStart(e, t)

-----------------------------------------------------------------------------
\* handle_service_start, with s the sampled service time.

StartService(e, s) ==
  /\ ~server.busy
  /\ s >= 0
  /\ server' = Serving(e.packet_id, e.timestamp)
  /\ packet' = [packet EXCEPT ![e.packet_id].service_start_time = e.timestamp]
  /\ scheduler' = AddEvent(Taken(e), Event(e.timestamp + s, "PACKET_DEPARTURE", e.packet_id))
  /\ UNCHANGED raised

\* start_service raises RuntimeError if the server is busy.  A negative sample
\* raises ValueError when the server is already marked busy, and no departure
\* is scheduled.
StartServiceRaises(e, s) ==
  /\ ~(~server.busy /\ s >= 0)
  /\ scheduler' = Taken(e)
  /\ IF server.busy
     THEN /\ raised' = raised \cup {"RuntimeError"}
          /\ UNCHANGED <<server, packet>>
     ELSE /\ raised' = raised \cup {"ValueError"}
          /\ server' = Serving(e.packet_id, e.timestamp)
          /\ packet' = [packet EXCEPT ![e.packet_id].service_start_time = e.timestamp]

HandleServiceStart(e, s) ==
  /\ e.event_type = "PACKET_SERVICE_START"
  /\ service_start_pending' = FALSE
  /\ StartService(e, s) \/ StartServiceRaises(e, s)
  /\ UNCHANGED <<queueVars, next_packet_id, packets_dropped>>

-----------------------------------------------------------------------------
\* handle_departure: the packet that leaves is the server's, whatever packet
\* the event names.  finish_service raises RuntimeError if the server is idle.

\* The service time is added to the departure time.
FaultyFinishService(e) ==
  /\ server' = IdleServer
  /\ packet' = [packet EXCEPT ![server.current_packet].departure_time =
                                 e.timestamp + (e.timestamp - server.busy_start_time)]
  /\ UNCHANGED raised

FinishService(e) ==
  /\ server' = IdleServer
  /\ IF server.busy
     THEN /\ packet' = [packet EXCEPT ![server.current_packet].departure_time = e.timestamp]
          /\ UNCHANGED raised
     ELSE /\ raised' = raised \cup {"RuntimeError"}
          /\ UNCHANGED packet

\* The packet at the end of the buffer is forgotten.
FaultyStartsNext == server.busy /\ Len(buffer) > 1 /\ ~service_start_pending

StartsNext == server.busy /\ buffer # <<>> /\ ~service_start_pending

\* The next start gets the time at which the last service began.
FaultyStartTime(e) ==
  /\ StartsNext
  /\ FinishService(e)
  /\ buffer' = Tail(buffer)
  /\ service_start_pending' = TRUE
  /\ scheduler' = AddEvent(Taken(e), Event(server.busy_start_time, "PACKET_SERVICE_START",
                                           Head(buffer)))

\* The packet is reserved but stays in the buffer.
FaultyDequeue(e) ==
  /\ StartsNext
  /\ FinishService(e)
  /\ service_start_pending' = TRUE
  /\ scheduler' = AddEvent(Taken(e), Event(e.timestamp, "PACKET_SERVICE_START", Head(buffer)))
  /\ UNCHANGED buffer

DepartAndStartNext(e) ==
  /\ StartsNext
  /\ FinishService(e)
  /\ buffer' = Tail(buffer)
  /\ service_start_pending' = TRUE
  /\ scheduler' = AddEvent(Taken(e), Event(e.timestamp, "PACKET_SERVICE_START", Head(buffer)))

DepartAndIdle(e) ==
  /\ ~StartsNext
  /\ FinishService(e)
  /\ scheduler' = Taken(e)
  /\ UNCHANGED <<buffer, service_start_pending>>

HandleDeparture(e) ==
  /\ e.event_type = "PACKET_DEPARTURE"
  /\ DepartAndStartNext(e) \/ DepartAndIdle(e)
  /\ UNCHANGED <<total_enqueued, total_dropped, next_packet_id, packets_dropped>>

\* handle_event ignores drop events.
HandleDrop(e) ==
  /\ e.event_type = "PACKET_DROP"
  /\ scheduler' = Taken(e)
  /\ UNCHANGED <<queueVars, server, service_start_pending, next_packet_id,
                 packets_dropped, packet, raised>>

-----------------------------------------------------------------------------
\* The next event is taken and the clock is advanced to it.
Take(e) ==
  /\ IsNext(scheduler, e)
  /\ now' = e.timestamp

ArrivalsLeft ==
  PacketsCreated + Cardinality(Pending(scheduler, "PACKET_ARRIVAL")) < MaxPackets

NextArrival(t) ==
  {NoTime} \cup (IF ArrivalsLeft THEN {t + d : d \in ArrivalDelays} ELSE {})

\* Anyone may schedule arrivals, at the current time or later.
ScheduleArrival(d) ==
  /\ ArrivalsLeft
  /\ scheduler' = ThenArrival(scheduler, now + d)
  /\ UNCHANGED <<now, queueVars, server, service_start_pending, next_packet_id,
                 packets_dropped, packet, raised>>

HandleEvent(e) ==
  /\ Take(e)
  /\ \/ \E t \in NextArrival(e.timestamp) : HandleArrival(e, t)
     \/ \E s \in ServiceTimes : HandleServiceStart(e, s)
     \/ HandleDeparture(e)
     \/ HandleDrop(e)

Next ==
  \/ \E d \in ArrivalDelays : ScheduleArrival(d)
  \/ \E e \in scheduler.queue : HandleEvent(e)

Spec == Init /\ [][Next]_vars

\* The loop goes on while events are pending.
FairSpec == Spec /\ WF_vars(\E e \in scheduler.queue : HandleEvent(e))

-----------------------------------------------------------------------------
\* Where a packet is.

InBuffer(p) == \E i \in DOMAIN buffer : buffer[i] = p
Reserved == {e.packet_id : e \in Pending(scheduler, "PACKET_SERVICE_START")}
InService == IF server.busy THEN {server.current_packet} ELSE {}

Started(p) == packet[p].service_start_time # NoTime
Departed(p) == packet[p].departure_time # NoTime
Dropped(p) == packet[p].drop_time # NoTime
Accepted(p) == ~Dropped(p)

Wedged == "ValueError" \in raised

PacketFields ==
  [arrival_time : Nat, service_start_time : Nat \cup {NoTime},
   departure_time : Nat \cup {NoTime}, drop_time : Nat \cup {NoTime},
   drop_reason : Reasons \cup {NotDropped}]

ServerStates ==
  [busy : BOOLEAN, current_packet : PacketIds \cup {NoPacket},
   busy_start_time : Nat \cup {NoTime}]

TypeOK ==
  /\ now \in Nat
  /\ IsScheduler(scheduler, Nat, PacketIds)
  /\ buffer \in Seq(PacketIds)
  /\ total_enqueued \in Nat /\ total_dropped \in Nat
  /\ server \in ServerStates
  /\ service_start_pending \in BOOLEAN
  /\ next_packet_id \in Nat /\ next_packet_id >= FirstPacketId
  /\ packets_dropped \in Nat
  /\ packet \in [PacketIds -> PacketFields]
  /\ raised \subseteq {"RuntimeError", "ValueError"}

\* No event is ever pending for a time the clock has passed, so advance_to
\* accepts every event (clock.py:41); a service start or a drop waits for no
\* other instant than the one at which it was scheduled (router.py:186, 200).
NothingInThePast ==
  \A e \in scheduler.queue :
    /\ e.timestamp >= now
    /\ e.event_type \in {"PACKET_SERVICE_START", "PACKET_DROP"} => e.timestamp = now

\* The server never refuses: no service starts on a busy server, none finishes
\* on an idle one, whatever arrives between the reservation of the server and
\* the start event (server.py:25, 45).
NeverRuntimeError == "RuntimeError" \notin raised

\* The router's flags tell which of its events are pending: the reservation
\* flag exactly one start, the busy server exactly one departure of its own
\* packet, unless a negative service time took that departure away; and never
\* a start and a departure at once (router.py:134-148, 193-205).
EventsFollowServer ==
  LET starts == Pending(scheduler, "PACKET_SERVICE_START")
      departures == Pending(scheduler, "PACKET_DEPARTURE")
  IN  /\ service_start_pending <=> starts # {}
      /\ \A e, f \in starts : e = f
      /\ \A e, f \in departures : e = f
      /\ \A e \in departures : server.busy /\ e.packet_id = server.current_packet
      /\ server.busy => departures # {} \/ Wedged
      /\ ~(server.busy /\ service_start_pending)

\* The server is never left free while packets wait (router.py:115, 166).
WorkConserving == buffer # <<>> => server.busy \/ service_start_pending

\* Every packet is in exactly one place, and its own fields say which: in the
\* buffer, in a start event, in the server, departed, or dropped; none is
\* lost, copied or served twice (router.py:171-205, server.py:31, 47).
PacketInOnePlace ==
  /\ \A i, j \in DOMAIN buffer : buffer[i] = buffer[j] => i = j
  /\ \A p \in Reserved : ~InBuffer(p)
  /\ \A p \in PacketIds :
       /\ ~Started(p) /\ ~Dropped(p) <=> InBuffer(p) \/ p \in Reserved
       /\ Started(p) /\ ~Departed(p) <=> p \in InService
       /\ Departed(p) => Started(p)
       /\ Dropped(p) => ~Started(p)

\* The counters of the router and of its queue manager agree with each other
\* and with the packets: a full queue is counted once in each, a baseline drop
\* in one of them only (router.py:102-113, manager.py:95-121).
CountersAgree ==
  /\ PacketsCreated = total_enqueued + packets_dropped
  /\ packets_dropped = Cardinality({p \in PacketIds : Dropped(p)})
  /\ total_dropped = Cardinality({p \in PacketIds : packet[p].drop_reason = "queue_full"})

\* The buffer never holds more than the configured capacity (manager.py:57).
WithinCapacity == \A k \in Capacity : Len(buffer) <= k

\* Two services never overlap in time, over the whole history of the packets
\* and services of length zero (server.py:15-55).
ServicesDisjoint ==
  \A p, q \in {r \in PacketIds : Started(r)} : p # q =>
    \/ Departed(p) /\ packet[p].departure_time <= packet[q].service_start_time
    \/ Departed(q) /\ packet[q].departure_time <= packet[p].service_start_time

\* A packet starts service when it arrives, or at the very instant at which
\* another packet departs: no simulated time passes between the reservation
\* and the start, nor while the server is free and a packet waits.
WaitEndsAtDeparture ==
  \A p \in {r \in PacketIds : Started(r)} :
    \/ packet[p].service_start_time = packet[p].arrival_time
    \/ \E q \in PacketIds \ {p} :
         /\ Departed(q)
         /\ packet[q].departure_time = packet[p].service_start_time

\* With FIFO no packet overtakes one that was accepted before it, also when
\* they arrive at one instant and while a reservation is pending.
NoOvertaking ==
  Discipline = "FIFO" =>
    \A p, q \in PacketIds :
      p < q /\ Accepted(p) /\ (Started(q) \/ q \in Reserved) => Started(p) \/ p \in Reserved

\* With LIFO the packet that is taken for service is the latest that waits.
NewestFirst ==
  [][Discipline = "LIFO" =>
       \A p \in Reserved' \ Reserved : \A i \in DOMAIN buffer' : buffer'[i] < p]_vars

\* Every packet that is not dropped departs, unless a negative service time
\* has stopped the server for good; arrivals come to an end by MaxPackets.
EveryPacketDeparts ==
  \A p \in AllPackets :
    p \in PacketIds /\ Accepted(p) ~> Wedged \/ (p \in PacketIds /\ Departed(p))

\* Refinement: the router is a single-server queue.  A packet claims the
\* server from its reservation to its departure.
LossQueue == INSTANCE SingleServerQueue WITH
  Packets <- AllPackets,
  RandomLoss <- TRUE \in BaselineDrop,
  waiting <- buffer,
  claimed <- Reserved \cup InService,
  served <- {p \in PacketIds : Departed(p)},
  lost <- {p \in PacketIds : Dropped(p)}

LossQueueSpec == LossQueue!Spec
=============================================================================
