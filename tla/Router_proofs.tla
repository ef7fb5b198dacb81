---------------------------- MODULE Router_proofs ----------------------------
(***************************************************************************)
(* Proofs about Router, for any capacity, discipline, service times (also  *)
(* negative ones), arrival delays, drop decisions and number of packets.   *)
(* First the types and the flags; then what becomes of packets: every one  *)
(* is in one place, the counters agree with them, services do not overlap, *)
(* waiting ends at a departure, packets are served in the order of the     *)
(* discipline, and the router is a single-server queue with losses.        *)
(***************************************************************************)
EXTENDS Router, Scheduling_proofs, SequenceTheorems

\* A new event has its types and what it was given.
LEMMA EventTyped ==
  ASSUME NEW t \in Nat, NEW type \in EventType, NEW P, NEW p \in P \cup {NoPacket}
  PROVE  /\ Event(t, type, p) \in Events(Nat, P)
         /\ Event(t, type, p).timestamp = t
         /\ Event(t, type, p).event_type = type
         /\ Event(t, type, p).packet_id = p
  BY DEF Event, Events

\* What the optional next arrival does to a scheduler.
LEMMA ThenArrivalProperties ==
  ASSUME NEW P, NEW s, IsScheduler(s, Nat, P), NEW t \in Nat \cup {NoTime}
  PROVE  /\ IsScheduler(ThenArrival(s, t), Nat, P)
         /\ \A type \in EventType \ {"PACKET_ARRIVAL"} :
              Pending(ThenArrival(s, t), type) = Pending(s, type)
         /\ \A e \in ThenArrival(s, t).queue :
              \/ e \in s.queue
              \/ t # NoTime /\ e.timestamp = t /\ e.event_type = "PACKET_ARRIVAL"
<1>1. CASE t = NoTime
  <2>1. ThenArrival(s, t) = s
    BY <1>1 DEF ThenArrival
  <2> QED
    BY <2>1
<1>2. CASE t \in Nat
  <2> DEFINE e == Event(t, "PACKET_ARRIVAL", NoPacket)
  <2>1. e \in Events(Nat, P) /\ e.event_type = "PACKET_ARRIVAL" /\ e.timestamp = t
    BY <1>2, EventTyped DEF EventType
  <2>2. ThenArrival(s, t) = AddEvent(s, e)
    BY <1>2 DEF ThenArrival, NoTime
  <2> HIDE DEF e
  <2>3. /\ IsScheduler(AddEvent(s, e), Nat, P)
        /\ AddEvent(s, e).queue = s.queue \cup {Stamp(s, e)}
        /\ Stamp(s, e).timestamp = t /\ Stamp(s, e).event_type = "PACKET_ARRIVAL"
    BY <2>1, AddEventProperties, StampProperties
  <2>4. ASSUME NEW type \in EventType \ {"PACKET_ARRIVAL"}
        PROVE  Pending(AddEvent(s, e), type) = Pending(s, type)
    BY <2>1, PendingAfterAdd
  <2>5. \A f \in AddEvent(s, e).queue :
          \/ f \in s.queue
          \/ t # NoTime /\ f.timestamp = t /\ f.event_type = "PACKET_ARRIVAL"
    <3>1. t # NoTime
      BY <1>2 DEF NoTime
    <3> DEFINE x == Stamp(s, e)
    <3> HIDE DEF x
    <3> QED
      BY <2>3, <3>1 DEF x
  <2> QED
    BY <2>2, <2>3, <2>4, <2>5, Zenon
<1> QED
  BY <1>1, <1>2
-----------------------------------------------------------------------------
\* Types.

\* Enqueuing keeps the type of the buffer.
LEMMA EnqueuedType ==
  ASSUME NEW S, buffer \in Seq(S), NEW p \in S
  PROVE  /\ Enqueued(p) \in Seq(S)
         /\ Head(Enqueued(p)) \in S
         /\ Tail(Enqueued(p)) \in Seq(S)
<1> DEFINE q == Enqueued(p)
<1>1. q \in Seq(S) /\ q # <<>>
  <2>1. CASE Discipline = "FIFO"
    <3>1. q = Append(buffer, p)
      BY <2>1 DEF Enqueued
    <3>2. q \in Seq(S) /\ Len(q) = Len(buffer) + 1
      BY <3>1
    <3> QED
      BY <3>2
  <2>2. CASE Discipline # "FIFO"
    <3>1. q = <<p>> \o buffer /\ <<p>> \in Seq(S)
      BY <2>2 DEF Enqueued
    <3>2. q \in Seq(S) /\ Len(q) = 1 + Len(buffer)
      BY <3>1, ConcatProperties
    <3> QED
      BY <3>2
  <2> QED
    BY <2>1, <2>2
<1> HIDE DEF q
<1>2. Head(q) \in S /\ Tail(q) \in Seq(S)
  BY <1>1
<1> QED
  BY <1>1, <1>2 DEF q

\* So does creating a packet that of the packets.
LEMMA CreatedType ==
  ASSUME TypeOK, NEW fields \in PacketFields, Create(fields)
  PROVE  /\ next_packet_id' \in Nat /\ next_packet_id' >= FirstPacketId
         /\ PacketIds \subseteq PacketIds'
         /\ next_packet_id \in PacketIds'
         /\ packet' \in [PacketIds' -> PacketFields]
<1>1. /\ next_packet_id \in Nat /\ next_packet_id >= FirstPacketId /\ FirstPacketId \in Nat
      /\ packet \in [PacketIds -> PacketFields]
  BY RouterAssumption DEF TypeOK
<1>2. next_packet_id' = next_packet_id + 1
  BY DEF Create
<1>3. PacketIds' = FirstPacketId .. next_packet_id
  BY <1>1, <1>2 DEF PacketIds
<1>4. PacketIds \subseteq PacketIds' /\ next_packet_id \in PacketIds'
  BY <1>1, <1>2 DEF PacketIds
<1>5. packet' \in [PacketIds' -> PacketFields]
  <2>1. packet' = [p \in PacketIds' |-> IF p = next_packet_id THEN fields ELSE packet[p]]
    BY <1>3 DEF Create
  <2>2. ASSUME NEW p \in PacketIds', p # next_packet_id
        PROVE  packet[p] \in PacketFields
    BY <1>1, <1>2, <2>2 DEF PacketIds
  <2> QED
    BY <2>1, <2>2
<1> QED
  BY <1>1, <1>2, <1>4, <1>5

\* What is typed stays typed when there are more ids.
LEMMA MoreIds ==
  ASSUME TypeOK, PacketIds \subseteq PacketIds'
  PROVE  /\ IsScheduler(scheduler, Nat, PacketIds')
         /\ buffer \in Seq(PacketIds')
         /\ server' = server => server' \in ServerStates'
<1>1. IsScheduler(scheduler, Nat, PacketIds')
  BY MorePackets DEF TypeOK
<1>2. buffer \in Seq(PacketIds')
  BY DEF TypeOK
<1>3. server' = server => server' \in ServerStates'
  BY DEF TypeOK, ServerStates
<1> QED
  BY <1>1, <1>2, <1>3

\* The time of the next arrival is a time.
LEMMA NextArrivalType ==
  ASSUME NEW t \in Nat, NEW u \in NextArrival(t)
  PROVE  u \in Nat \cup {NoTime}
  BY RouterAssumption DEF NextArrival

\* A new router has its types.
LEMMA TypeInit == Init => TypeOK
<1> SUFFICES ASSUME Init
             PROVE  TypeOK
  OBVIOUS
<1>1. PacketIds = {}
  BY RouterAssumption DEF Init, PacketIds
<1>2. IsScheduler(scheduler, Nat, PacketIds)
  BY EmptySchedulerProperties DEF Init
<1>3. packet \in [PacketIds -> PacketFields]
  BY <1>1 DEF Init
<1>4. server \in ServerStates /\ buffer \in Seq(PacketIds)
  BY DEF Init, IdleServer, ServerStates
<1>5. /\ now \in Nat /\ total_enqueued \in Nat /\ total_dropped \in Nat
      /\ next_packet_id \in Nat /\ next_packet_id >= FirstPacketId
      /\ packets_dropped \in Nat
  BY RouterAssumption DEF Init
<1>6. service_start_pending \in BOOLEAN /\ raised \subseteq {"RuntimeError", "ValueError"}
  BY DEF Init
<1> QED
  BY <1>2, <1>3, <1>4, <1>5, <1>6 DEF TypeOK

\* A packet has its types when it arrives, and when it is dropped.
LEMMA FieldsType ==
  ASSUME NEW t \in Nat
  PROVE  /\ Packet(t) \in PacketFields
         /\ \A r \in Reasons :
              [Packet(t) EXCEPT !.drop_time = t, !.drop_reason = r] \in PacketFields
  BY DEF Packet, PacketFields

\* The event of a step, and the scheduler without it.
LEMMA TakenType ==
  ASSUME TypeOK, NEW e \in scheduler.queue
  PROVE  /\ e.timestamp \in Nat /\ e.event_type \in EventType
         /\ e.packet_id \in PacketIds \cup {NoPacket}
         /\ IsScheduler(Taken(e), Nat, PacketIds)
         /\ Taken(e).queue = scheduler.queue \ {e}
<1>1. IsScheduler(scheduler, Nat, PacketIds)
  BY DEF TypeOK
<1>2. e \in Events(Nat, PacketIds)
  BY <1>1 DEF IsScheduler
<1>3. IsScheduler(Taken(e), Nat, PacketIds) /\ Taken(e).queue = scheduler.queue \ {e}
  BY <1>1, RemoveEventProperties DEF Taken
<1> QED
  BY <1>2, <1>3 DEF Events

\* The handler of arrivals keeps the types.
LEMMA TypeArrival ==
  ASSUME TypeOK, NEW e \in scheduler.queue, Take(e),
         NEW t \in NextArrival(e.timestamp), HandleArrival(e, t)
  PROVE  TypeOK'
<1> DEFINE P == PacketIds'
<1>1. /\ e.timestamp \in Nat /\ IsScheduler(Taken(e), Nat, PacketIds)
      /\ now' = e.timestamp /\ t \in Nat \cup {NoTime}
  BY TakenType, NextArrivalType DEF Take
<1>2. /\ total_enqueued \in Nat /\ total_dropped \in Nat /\ packets_dropped \in Nat
      /\ buffer \in Seq(PacketIds) /\ service_start_pending \in BOOLEAN
      /\ raised \subseteq {"RuntimeError", "ValueError"}
  BY DEF TypeOK
<1>3. ASSUME NEW fields \in PacketFields, Create(fields)
      PROVE  /\ next_packet_id' \in Nat /\ next_packet_id' >= FirstPacketId
             /\ next_packet_id \in P
             /\ packet' \in [P -> PacketFields]
             /\ IsScheduler(Taken(e), Nat, P)
             /\ buffer \in Seq(P)
             /\ server' = server => server' \in ServerStates'
  <2>1. /\ next_packet_id' \in Nat /\ next_packet_id' >= FirstPacketId
        /\ PacketIds \subseteq P
        /\ next_packet_id \in P
        /\ packet' \in [P -> PacketFields]
    BY <1>3, CreatedType
  <2>2. IsScheduler(Taken(e), Nat, P)
    BY <1>1, <2>1, MorePackets
  <2>3. buffer \in Seq(P) /\ (server' = server => server' \in ServerStates')
    BY <2>1, MoreIds
  <2> QED
    BY <2>1, <2>2, <2>3
<1>4. ASSUME NEW r \in Reasons, Drop(e, r, t), total_dropped' \in Nat
      PROVE  TypeOK'
  <2> DEFINE d == Event(e.timestamp, "PACKET_DROP", next_packet_id)
  <2>1. Create([Packet(e.timestamp) EXCEPT !.drop_time = e.timestamp, !.drop_reason = r])
    BY <1>4 DEF Drop
  <2>2. [Packet(e.timestamp) EXCEPT !.drop_time = e.timestamp, !.drop_reason = r]
          \in PacketFields
    BY <1>1, FieldsType
  <2>3. /\ next_packet_id' \in Nat /\ next_packet_id' >= FirstPacketId
        /\ next_packet_id \in P
        /\ packet' \in [P -> PacketFields]
        /\ IsScheduler(Taken(e), Nat, P)
        /\ buffer \in Seq(P)
        /\ server' = server => server' \in ServerStates'
    BY <1>3, <2>1, <2>2
  <2>4. d \in Events(Nat, P)
    BY <1>1, <2>3, EventTyped DEF EventType
  <2>5. IsScheduler(scheduler', Nat, P)
    <3>1. scheduler' = ThenArrival(AddEvent(Taken(e), d), t)
      BY <1>4 DEF Drop
    <3> HIDE DEF d
    <3>2. IsScheduler(AddEvent(Taken(e), d), Nat, P)
      BY <2>3, <2>4, AddEventProperties
    <3> QED
      BY <1>1, <3>1, <3>2, ThenArrivalProperties
  <2>6. /\ packets_dropped' = packets_dropped + 1 /\ server' = server
        /\ buffer' = buffer /\ total_enqueued' = total_enqueued
        /\ service_start_pending' = service_start_pending /\ raised' = raised
    BY <1>4 DEF Drop
  <2>7. packets_dropped' \in Nat
    BY <1>2, <2>6
  <2> QED
    BY <1>1, <1>2, <1>4, <2>3, <2>5, <2>6, <2>7 DEF TypeOK
<1>5. ASSUME Admit(e)
      PROVE  /\ next_packet_id' \in Nat /\ next_packet_id' >= FirstPacketId
             /\ next_packet_id \in P
             /\ packet' \in [P -> PacketFields]
             /\ IsScheduler(Taken(e), Nat, P)
             /\ buffer \in Seq(P)
             /\ server' \in ServerStates'
             /\ total_enqueued' \in Nat /\ total_dropped' \in Nat
             /\ packets_dropped' \in Nat
             /\ raised' \subseteq {"RuntimeError", "ValueError"}
  <2>1. /\ Create(Packet(e.timestamp)) /\ server' = server
        /\ total_enqueued' = total_enqueued + 1 /\ total_dropped' = total_dropped
        /\ packets_dropped' = packets_dropped /\ raised' = raised
    BY <1>5 DEF Admit
  <2>2. Packet(e.timestamp) \in PacketFields
    BY <1>1, FieldsType
  <2>3. total_enqueued' \in Nat
    BY <1>2, <2>1
  <2> QED
    BY <1>2, <1>3, <2>1, <2>2, <2>3
<1>6. CASE DropBaseline(e, t) \/ DropQueueFull(e, t)
  <2>1. total_dropped' \in Nat
    <3>1. total_dropped' = total_dropped \/ total_dropped' = total_dropped + 1
      BY <1>6, Zenon DEF DropBaseline, DropQueueFull
    <3> QED
      BY <1>2, <3>1
  <2> QED
    BY <1>4, <1>6, <2>1 DEF DropBaseline, DropQueueFull, Reasons
<1>7. CASE EnqueueAndWait(e, t)
  <2>1. Admit(e) /\ buffer' = Enqueued(next_packet_id)
        /\ scheduler' = ThenArrival(Taken(e), t)
        /\ service_start_pending' = service_start_pending
    BY <1>7 DEF EnqueueAndWait
  <2>2. buffer' \in Seq(P)
    BY <1>5, <2>1, EnqueuedType
  <2>3. IsScheduler(scheduler', Nat, P)
    BY <1>1, <1>5, <2>1, ThenArrivalProperties
  <2> QED
    BY <1>1, <1>2, <1>5, <2>1, <2>2, <2>3 DEF TypeOK
<1>8. CASE EnqueueAndStart(e, t)
  <2> DEFINE d == Event(e.timestamp, "PACKET_SERVICE_START", Head(Enqueued(next_packet_id)))
  <2>1. Admit(e) /\ buffer' = Tail(Enqueued(next_packet_id))
        /\ scheduler' = ThenArrival(AddEvent(Taken(e), d), t)
        /\ service_start_pending' = TRUE
    BY <1>8 DEF EnqueueAndStart
  <2>2. buffer' \in Seq(P) /\ Head(Enqueued(next_packet_id)) \in P
    BY <1>5, <2>1, EnqueuedType
  <2>3. d \in Events(Nat, P)
    BY <1>1, <2>2, EventTyped DEF EventType
  <2>4. IsScheduler(scheduler', Nat, P)
    <3> HIDE DEF d
    <3>1. IsScheduler(AddEvent(Taken(e), d), Nat, P)
      BY <1>5, <2>1, <2>3, AddEventProperties
    <3> QED
      BY <1>1, <2>1, <3>1, ThenArrivalProperties
  <2>5. service_start_pending' \in BOOLEAN
    BY <2>1
  <2> QED
    BY <1>1, <1>2, <1>5, <2>1, <2>2, <2>4, <2>5 DEF TypeOK
<1> QED
  BY <1>6, <1>7, <1>8 DEF HandleArrival
\* So does that of service starts.
LEMMA TypeServiceStart ==
  ASSUME TypeOK, NEW e \in scheduler.queue, Take(e),
         NEW s \in ServiceTimes, HandleServiceStart(e, s)
  PROVE  TypeOK'
<1>1. /\ e.timestamp \in Nat /\ IsScheduler(Taken(e), Nat, PacketIds)
      /\ e.packet_id \in PacketIds \cup {NoPacket}
      /\ now' = e.timestamp /\ s \in Int
  BY TakenType, RouterAssumption DEF Take
<1>2. /\ packet \in [PacketIds -> PacketFields] /\ server \in ServerStates
      /\ raised \subseteq {"RuntimeError", "ValueError"}
  BY DEF TypeOK
<1>3. /\ service_start_pending' \in BOOLEAN
      /\ buffer' = buffer /\ total_enqueued' = total_enqueued
      /\ total_dropped' = total_dropped
      /\ next_packet_id' = next_packet_id /\ packets_dropped' = packets_dropped
      /\ PacketIds' = PacketIds /\ ServerStates' = ServerStates
  BY DEF HandleServiceStart, queueVars, PacketIds, ServerStates
<1>4. Serving(e.packet_id, e.timestamp) \in ServerStates
  BY <1>1 DEF Serving, ServerStates
<1>5. [packet EXCEPT ![e.packet_id].service_start_time = e.timestamp]
        \in [PacketIds -> PacketFields]
  BY <1>1, <1>2 DEF PacketFields
<1>6. /\ IsScheduler(scheduler', Nat, PacketIds)
      /\ server' \in ServerStates
      /\ packet' \in [PacketIds -> PacketFields]
      /\ raised' \subseteq {"RuntimeError", "ValueError"}
  <2>1. CASE StartService(e, s)
    <3> DEFINE d == Event(e.timestamp + s, "PACKET_DEPARTURE", e.packet_id)
    <3>1. /\ s >= 0 /\ server' = Serving(e.packet_id, e.timestamp)
          /\ packet' = [packet EXCEPT ![e.packet_id].service_start_time = e.timestamp]
          /\ scheduler' = AddEvent(Taken(e), d) /\ raised' = raised
      BY <2>1 DEF StartService
    <3>2. e.timestamp + s \in Nat
      BY <1>1, <3>1
    <3>3. d \in Events(Nat, PacketIds)
      BY <1>1, <3>2, EventTyped DEF EventType
    <3> HIDE DEF d
    <3>4. IsScheduler(AddEvent(Taken(e), d), Nat, PacketIds)
      BY <1>1, <3>3, AddEventProperties
    <3> QED
      BY <1>2, <1>4, <1>5, <3>1, <3>4
  <2>2. CASE StartServiceRaises(e, s)
    <3>1. /\ scheduler' = Taken(e)
          /\ raised' = raised \cup {"RuntimeError"} \/ raised' = raised \cup {"ValueError"}
      BY <2>2 DEF StartServiceRaises
    <3>2. \/ server' = server /\ packet' = packet
          \/ /\ server' = Serving(e.packet_id, e.timestamp)
             /\ packet' = [packet EXCEPT ![e.packet_id].service_start_time = e.timestamp]
      BY <2>2 DEF StartServiceRaises
    <3>3. raised' \subseteq {"RuntimeError", "ValueError"}
      BY <1>2, <3>1
    <3>4. server' \in ServerStates /\ packet' \in [PacketIds -> PacketFields]
      BY <1>2, <1>4, <1>5, <3>2
    <3> QED
      BY <1>1, <3>1, <3>3, <3>4
  <2> QED
    BY <2>1, <2>2 DEF HandleServiceStart
<1> QED
  BY <1>1, <1>3, <1>6 DEF TypeOK

\* So does that of departures.
LEMMA TypeDeparture ==
  ASSUME TypeOK, NEW e \in scheduler.queue, Take(e), HandleDeparture(e)
  PROVE  TypeOK'
<1>1. /\ e.timestamp \in Nat /\ IsScheduler(Taken(e), Nat, PacketIds)
      /\ now' = e.timestamp
  BY TakenType DEF Take
<1>2. /\ packet \in [PacketIds -> PacketFields] /\ server \in ServerStates
      /\ raised \subseteq {"RuntimeError", "ValueError"} /\ buffer \in Seq(PacketIds)
      /\ service_start_pending \in BOOLEAN
  BY DEF TypeOK
<1>3. /\ total_enqueued' = total_enqueued /\ total_dropped' = total_dropped
      /\ next_packet_id' = next_packet_id /\ packets_dropped' = packets_dropped
      /\ PacketIds' = PacketIds /\ ServerStates' = ServerStates
  BY DEF HandleDeparture, PacketIds, ServerStates
<1>4. FinishService(e)
  BY DEF HandleDeparture, DepartAndStartNext, DepartAndIdle
<1>5. server' \in ServerStates
  BY <1>4 DEF FinishService, IdleServer, ServerStates
<1>6. packet' \in [PacketIds -> PacketFields]
  <2>1. \/ packet' = packet
        \/ packet' = [packet EXCEPT ![server.current_packet].departure_time = e.timestamp]
    BY <1>4 DEF FinishService
  <2> QED
    BY <1>1, <1>2, <2>1, ZenonT(40) DEF PacketFields
<1>7. raised' \subseteq {"RuntimeError", "ValueError"}
  <2>1. raised' = raised \/ raised' = raised \cup {"RuntimeError"}
    BY <1>4 DEF FinishService
  <2> QED
    BY <1>2, <2>1
<1>8. /\ IsScheduler(scheduler', Nat, PacketIds)
      /\ buffer' \in Seq(PacketIds) /\ service_start_pending' \in BOOLEAN
  <2>1. CASE DepartAndStartNext(e)
    <3> DEFINE d == Event(e.timestamp, "PACKET_SERVICE_START", Head(buffer))
    <3>1. /\ buffer # <<>> /\ buffer' = Tail(buffer)
          /\ scheduler' = AddEvent(Taken(e), d) /\ service_start_pending' = TRUE
      BY <2>1 DEF DepartAndStartNext, StartsNext
    <3>2. Head(buffer) \in PacketIds /\ buffer' \in Seq(PacketIds)
      BY <1>2, <3>1
    <3>3. d \in Events(Nat, PacketIds)
      BY <1>1, <3>2, EventTyped DEF EventType
    <3> HIDE DEF d
    <3>4. IsScheduler(AddEvent(Taken(e), d), Nat, PacketIds)
      BY <1>1, <3>3, AddEventProperties
    <3> QED
      BY <3>1, <3>2, <3>4
  <2>2. CASE DepartAndIdle(e)
    BY <1>1, <1>2, <2>2 DEF DepartAndIdle
  <2> QED
    BY <2>1, <2>2 DEF HandleDeparture
<1> QED
  BY <1>1, <1>3, <1>5, <1>6, <1>7, <1>8 DEF TypeOK

\* So does every step.
LEMMA TypeNext == TypeOK /\ [Next]_vars => TypeOK'
<1> SUFFICES ASSUME TypeOK, [Next]_vars
             PROVE  TypeOK'
  OBVIOUS
<1>1. ASSUME NEW d \in ArrivalDelays, ScheduleArrival(d)
      PROVE  TypeOK'
  <2>1. IsScheduler(scheduler, Nat, PacketIds) /\ now + d \in Nat
    BY RouterAssumption DEF TypeOK
  <2>2. IsScheduler(scheduler', Nat, PacketIds)
    BY <1>1, <2>1, ThenArrivalProperties DEF ScheduleArrival
  <2>3. PacketIds' = PacketIds /\ ServerStates' = ServerStates
    BY <1>1 DEF ScheduleArrival, PacketIds, ServerStates
  <2> QED
    BY <1>1, <2>2, <2>3 DEF ScheduleArrival, queueVars, TypeOK
<1>2. ASSUME NEW e \in scheduler.queue, Take(e), HandleDrop(e)
      PROVE  TypeOK'
  <2>1. /\ e.timestamp \in Nat /\ IsScheduler(Taken(e), Nat, PacketIds)
    BY TakenType
  <2>2. PacketIds' = PacketIds /\ ServerStates' = ServerStates
    BY <1>2 DEF HandleDrop, PacketIds, ServerStates
  <2> QED
    BY <1>2, <2>1, <2>2 DEF HandleDrop, Take, queueVars, TypeOK
<1>3. CASE UNCHANGED vars
  <2>1. PacketIds' = PacketIds /\ ServerStates' = ServerStates
    BY <1>3 DEF vars, PacketIds, ServerStates
  <2> QED
    BY <1>3, <2>1 DEF vars, queueVars, TypeOK
<1> QED
  BY <1>1, <1>2, <1>3, TypeArrival, TypeServiceStart, TypeDeparture DEF Next, HandleEvent

\* The state of the router has its types, and its scheduler is well formed.
THEOREM TypeCorrect == Spec => []TypeOK
  BY TypeInit, TypeNext, PTL DEF Spec
-----------------------------------------------------------------------------
\* The clock and the pending events.

InTime(s, n) ==
  \A e \in s.queue :
    /\ e.timestamp >= n
    /\ e.event_type \in {"PACKET_SERVICE_START", "PACKET_DROP"} => e.timestamp = n

\* The next event is not before the clock, nor are the others before it.
LEMMA TakenInTime ==
  ASSUME TypeOK, NothingInThePast, NEW e \in scheduler.queue, Take(e)
  PROVE  InTime(Taken(e), e.timestamp) /\ e.timestamp >= now
<1>1. /\ \A f \in scheduler.queue : f.timestamp \in Nat
      /\ now \in Nat
      /\ Taken(e).queue = scheduler.queue \ {e}
  BY TakenType DEF TypeOK
<1>2. \A f \in scheduler.queue \ {e} : e.timestamp <= f.timestamp
  BY <1>1 DEF Take, IsNext, Precedes
<1> QED
  BY <1>1, <1>2 DEF NothingInThePast, InTime

\* An event that is not before n keeps the scheduler in time.
LEMMA AddedInTime ==
  ASSUME NEW P, NEW s, IsScheduler(s, Nat, P), NEW n \in Nat, InTime(s, n),
         NEW e \in Events(Nat, P), e.timestamp >= n,
         e.event_type \in {"PACKET_SERVICE_START", "PACKET_DROP"} => e.timestamp = n
  PROVE  InTime(AddEvent(s, e), n)
<1> DEFINE x == Stamp(s, e)
<1>1. /\ AddEvent(s, e).queue = s.queue \cup {x}
      /\ x.timestamp = e.timestamp /\ x.event_type = e.event_type
  BY AddEventProperties, StampProperties
<1> HIDE DEF x
<1> QED
  BY <1>1 DEF InTime

\* So does the optional next arrival.
LEMMA ArrivalInTime ==
  ASSUME NEW P, NEW s, IsScheduler(s, Nat, P), NEW n \in Nat, InTime(s, n),
         NEW t \in Nat \cup {NoTime}, t # NoTime => t >= n
  PROVE  InTime(ThenArrival(s, t), n)
<1>1. \A e \in ThenArrival(s, t).queue :
        \/ e \in s.queue
        \/ t # NoTime /\ e.timestamp = t /\ e.event_type = "PACKET_ARRIVAL"
  BY ThenArrivalProperties
<1> QED
  BY <1>1 DEF InTime

\* A handler takes its event e, may add an event, and its caller may add an
\* arrival: what that does to the pending starts and departures.
LEMMA StepTakes ==
  ASSUME TypeOK, NothingInThePast, NEW e \in scheduler.queue, Take(e),
         NEW t \in NextArrival(e.timestamp),
         NEW type \in EventType \ {"PACKET_ARRIVAL"}
  PROVE  /\ InTime(ThenArrival(Taken(e), t), e.timestamp)
         /\ Pending(ThenArrival(Taken(e), t), type) = Pending(scheduler, type) \ {e}
<1>1. /\ e.timestamp \in Nat /\ IsScheduler(Taken(e), Nat, PacketIds)
      /\ InTime(Taken(e), e.timestamp)
      /\ t \in Nat \cup {NoTime} /\ (t # NoTime => t >= e.timestamp)
  BY TakenType, TakenInTime, NextArrivalType, RouterAssumption DEF NextArrival
<1>2. Pending(Taken(e), type) = Pending(scheduler, type) \ {e}
  BY PendingAfterRemove DEF TypeOK, Taken
<1> QED
  BY <1>1, <1>2, ArrivalInTime, ThenArrivalProperties

\* What a handler that takes one event and adds another does to the pending ones.
LEMMA StepAdds ==
  ASSUME TypeOK, NothingInThePast, NEW e \in scheduler.queue, Take(e),
         NEW t \in NextArrival(e.timestamp), PacketIds \subseteq PacketIds',
         NEW added \in EventType, NEW p \in PacketIds' \cup {NoPacket}, NEW u \in Nat,
         u >= e.timestamp,
         added \in {"PACKET_SERVICE_START", "PACKET_DROP"} => u = e.timestamp,
         NEW type \in EventType \ {"PACKET_ARRIVAL"}
  PROVE  LET d == Event(u, added, p)
             s == ThenArrival(AddEvent(Taken(e), d), t)
         IN  /\ InTime(s, e.timestamp)
             /\ type # added => Pending(s, type) = Pending(scheduler, type) \ {e}
             /\ type = added =>
                  Pending(s, type) = (Pending(scheduler, type) \ {e}) \cup {Stamp(Taken(e), d)}
             /\ Stamp(Taken(e), d).packet_id = p
<1> DEFINE d == Event(u, added, p)
           s == AddEvent(Taken(e), d)
<1>1. /\ e.timestamp \in Nat /\ IsScheduler(Taken(e), Nat, PacketIds')
      /\ InTime(Taken(e), e.timestamp)
      /\ t \in Nat \cup {NoTime} /\ (t # NoTime => t >= e.timestamp)
  BY TakenType, TakenInTime, NextArrivalType, MorePackets, RouterAssumption DEF NextArrival
<1>2. d \in Events(Nat, PacketIds') /\ d.timestamp = u /\ d.event_type = added /\ d.packet_id = p
  BY EventTyped
<1> HIDE DEF d
<1>3. Pending(Taken(e), type) = Pending(scheduler, type) \ {e}
  BY PendingAfterRemove DEF TypeOK, Taken
<1>4. IsScheduler(s, Nat, PacketIds') /\ InTime(s, e.timestamp)
  BY <1>1, <1>2, AddEventProperties, AddedInTime
<1>5. Stamp(Taken(e), d).packet_id = p
  BY <1>1, <1>2, StampProperties
<1>6. Pending(s, type) = IF added = type THEN Pending(Taken(e), type) \cup {Stamp(Taken(e), d)}
                                         ELSE Pending(Taken(e), type)
  BY <1>1, <1>2, PendingAfterAdd
<1> HIDE DEF s
<1>7. InTime(ThenArrival(s, t), e.timestamp) /\ Pending(ThenArrival(s, t), type) = Pending(s, type)
  BY <1>1, <1>4, ArrivalInTime, ThenArrivalProperties
<1> QED
  BY <1>3, <1>5, <1>6, <1>7 DEF s, d
-----------------------------------------------------------------------------
\* The flags and the router's own events.

FlagInv == NothingInThePast /\ EventsFollowServer /\ WorkConserving /\ NeverRuntimeError

Starts == Pending(scheduler, "PACKET_SERVICE_START")
Departures == Pending(scheduler, "PACKET_DEPARTURE")

\* The router's own events are no arrivals.
LEMMA TypesDiffer ==
  /\ "PACKET_SERVICE_START" \in EventType \ {"PACKET_ARRIVAL"}
  /\ "PACKET_DEPARTURE" \in EventType \ {"PACKET_ARRIVAL"}
  /\ "PACKET_DROP" \in EventType \ {"PACKET_ARRIVAL"}
  BY DEF EventType

\* NoTime stands for a caller that schedules no arrival.
LEMMA NoArrival ==
  ASSUME NEW t, NEW s
  PROVE  NoTime \in NextArrival(t) /\ ThenArrival(s, NoTime) = s
  BY DEF NextArrival, ThenArrival

\* The handler of arrivals keeps the flags right.
LEMMA FlagsArrival ==
  ASSUME TypeOK, TypeOK', FlagInv, NEW e \in scheduler.queue, Take(e),
         NEW t \in NextArrival(e.timestamp), HandleArrival(e, t)
  PROVE  FlagInv'
<1>1. /\ e.timestamp \in Nat /\ now' = e.timestamp
      /\ e \notin Starts /\ e \notin Departures
      /\ NothingInThePast
  BY TakenType DEF Take, HandleArrival, Starts, Departures, Pending, FlagInv
<1>2. PacketIds \subseteq PacketIds' /\ next_packet_id \in PacketIds'
  <2>1. next_packet_id' = next_packet_id + 1
    BY DEF HandleArrival, DropBaseline, DropQueueFull, Drop, EnqueueAndWait, EnqueueAndStart,
           Admit, Create
  <2> QED
    BY <2>1, RouterAssumption DEF TypeOK, PacketIds
<1>3. ASSUME InTime(scheduler', now')
      PROVE  NothingInThePast'
  BY <1>3 DEF InTime, NothingInThePast
<1>4. CASE \/ DropBaseline(e, t) \/ DropQueueFull(e, t)
           \/ EnqueueAndWait(e, t)
  <2>1. /\ InTime(scheduler', e.timestamp)
        /\ Starts' = Starts /\ Departures' = Departures
    <3>1. CASE \E r \in Reasons : Drop(e, r, t)
      <4> DEFINE d == Event(e.timestamp, "PACKET_DROP", next_packet_id)
      <4>1. scheduler' = ThenArrival(AddEvent(Taken(e), d), t)
        BY <3>1 DEF Drop
      <4> HIDE DEF d
      <4>2. /\ InTime(scheduler', e.timestamp)
            /\ Pending(scheduler', "PACKET_SERVICE_START") = Starts \ {e}
            /\ Pending(scheduler', "PACKET_DEPARTURE") = Departures \ {e}
        <5> DEFINE s == ThenArrival(AddEvent(Taken(e), d), t)
        <5>1. /\ "PACKET_DROP" \in EventType /\ e.timestamp >= e.timestamp
              /\ next_packet_id \in PacketIds' \cup {NoPacket}
          BY <1>1, <1>2, TypesDiffer
        <5>2. InTime(s, e.timestamp)
          BY <1>1, <1>2, <5>1, StepAdds, TypesDiffer DEF d
        <5>3. Pending(s, "PACKET_SERVICE_START") = Starts \ {e}
          BY <1>1, <1>2, <5>1, StepAdds, TypesDiffer DEF Starts, d
        <5>4. Pending(s, "PACKET_DEPARTURE") = Departures \ {e}
          BY <1>1, <1>2, <5>1, StepAdds, TypesDiffer DEF Departures, d
        <5> QED
          BY <4>1, <5>2, <5>3, <5>4
      <4> QED
        BY <1>1, <4>2 DEF Starts, Departures
    <3>2. CASE EnqueueAndWait(e, t)
      <4>1. scheduler' = ThenArrival(Taken(e), t)
        BY <3>2 DEF EnqueueAndWait
      <4>2. /\ InTime(scheduler', e.timestamp)
            /\ Pending(scheduler', "PACKET_SERVICE_START") = Starts \ {e}
            /\ Pending(scheduler', "PACKET_DEPARTURE") = Departures \ {e}
        BY <1>1, <4>1, StepTakes, TypesDiffer DEF Starts, Departures
      <4> QED
        BY <1>1, <4>2 DEF Starts, Departures
    <3> QED
      BY <1>4, <3>1, <3>2 DEF DropBaseline, DropQueueFull, Reasons
  <2>2. /\ server' = server /\ service_start_pending' = service_start_pending
        /\ raised' = raised
        /\ buffer' = buffer \/ server.busy \/ service_start_pending
    BY <1>4 DEF DropBaseline, DropQueueFull, Drop, EnqueueAndWait, Admit
  <2>3. EventsFollowServer'
    BY <2>1, <2>2 DEF FlagInv, EventsFollowServer, Starts, Departures, Wedged
  <2>4. WorkConserving' /\ NeverRuntimeError'
    BY <2>2 DEF FlagInv, WorkConserving, NeverRuntimeError
  <2> QED
    BY <1>1, <1>3, <2>1, <2>3, <2>4 DEF FlagInv
<1>5. CASE EnqueueAndStart(e, t)
  <2> DEFINE q == Head(Enqueued(next_packet_id))
             d == Event(e.timestamp, "PACKET_SERVICE_START", q)
             x == Stamp(Taken(e), d)
  <2>1. /\ scheduler' = ThenArrival(AddEvent(Taken(e), d), t)
        /\ service_start_pending' = TRUE /\ server' = server /\ raised' = raised
        /\ ~server.busy /\ ~service_start_pending
    BY <1>5 DEF EnqueueAndStart, Admit
  <2>2. q \in PacketIds'
    <3>1. buffer \in Seq(PacketIds')
      BY <1>2, MoreIds
    <3> QED
      BY <1>2, <3>1, EnqueuedType
  <2> HIDE DEF q
  <2>3. /\ InTime(scheduler', e.timestamp)
        /\ Pending(scheduler', "PACKET_SERVICE_START") = (Starts \ {e}) \cup {x}
        /\ Pending(scheduler', "PACKET_DEPARTURE") = Departures \ {e}
    BY <1>1, <1>2, <2>1, <2>2, StepAdds, TypesDiffer DEF Starts, Departures
  <2> HIDE DEF x
  <2>4. Starts = {} /\ Departures = {}
    BY <2>1 DEF FlagInv, EventsFollowServer, Starts, Departures
  <2>5. EventsFollowServer'
    BY <2>1, <2>3, <2>4 DEF EventsFollowServer
  <2>6. WorkConserving' /\ NeverRuntimeError'
    BY <2>1 DEF FlagInv, WorkConserving, NeverRuntimeError
  <2> QED
    BY <1>1, <1>3, <2>3, <2>5, <2>6 DEF FlagInv
<1> QED
  BY <1>4, <1>5 DEF HandleArrival
\* So does that of service starts.
LEMMA FlagsServiceStart ==
  ASSUME TypeOK, FlagInv, NEW e \in scheduler.queue, Take(e),
         NEW s \in ServiceTimes, HandleServiceStart(e, s)
  PROVE  FlagInv'
<1>1. /\ e.timestamp \in Nat /\ now' = e.timestamp /\ s \in Int
      /\ e.packet_id \in PacketIds \cup {NoPacket}
      /\ e \in Starts /\ e \notin Departures
      /\ NothingInThePast /\ PacketIds' = PacketIds
  BY TakenType, RouterAssumption
  DEF Take, HandleServiceStart, Starts, Departures, Pending, FlagInv, PacketIds
<1>2. /\ service_start_pending /\ ~server.busy
      /\ Starts \ {e} = {} /\ Departures = {}
  BY <1>1 DEF FlagInv, EventsFollowServer, Starts, Departures
<1>3. /\ service_start_pending' = FALSE /\ buffer' = buffer
  BY DEF HandleServiceStart, queueVars
<1>4. server' = Serving(e.packet_id, e.timestamp)
  BY <1>2 DEF HandleServiceStart, StartService, StartServiceRaises
<1>5. server'.busy /\ server'.current_packet = e.packet_id
  BY <1>4 DEF Serving
<1>6. WorkConserving'
  BY <1>5 DEF WorkConserving
<1>7. ASSUME InTime(scheduler', now')
      PROVE  NothingInThePast'
  BY <1>7 DEF InTime, NothingInThePast
<1>8. CASE StartService(e, s)
  <2> DEFINE d == Event(e.timestamp + s, "PACKET_DEPARTURE", e.packet_id)
             x == Stamp(Taken(e), d)
             q == ThenArrival(AddEvent(Taken(e), d), NoTime)
  <2>1. /\ scheduler' = q /\ raised' = raised /\ s >= 0
    BY <1>8, NoArrival DEF StartService
  <2>2. e.timestamp + s \in Nat /\ e.timestamp + s >= e.timestamp
    BY <1>1, <2>1
  <2>3. InTime(q, e.timestamp)
    BY <1>1, <2>2, StepAdds, NoArrival, TypesDiffer
  <2>4. Pending(q, "PACKET_SERVICE_START") = Starts \ {e}
    BY <1>1, <2>2, StepAdds, NoArrival, TypesDiffer DEF Starts
  <2>5. /\ Pending(q, "PACKET_DEPARTURE") = (Departures \ {e}) \cup {x}
        /\ x.packet_id = e.packet_id
    BY <1>1, <2>2, StepAdds, NoArrival, TypesDiffer DEF Departures
  <2> HIDE DEF x, q
  <2>6. EventsFollowServer'
    BY <1>2, <1>3, <1>5, <2>1, <2>4, <2>5 DEF EventsFollowServer
  <2>7. NeverRuntimeError'
    BY <2>1 DEF FlagInv, NeverRuntimeError
  <2> QED
    BY <1>1, <1>6, <1>7, <2>1, <2>3, <2>6, <2>7 DEF FlagInv
<1>9. CASE StartServiceRaises(e, s)
  <2> DEFINE q == ThenArrival(Taken(e), NoTime)
  <2>1. scheduler' = q /\ raised' = raised \cup {"ValueError"}
    BY <1>2, <1>9, NoArrival DEF StartServiceRaises
  <2>2. /\ InTime(q, e.timestamp)
        /\ Pending(q, "PACKET_SERVICE_START") = Starts \ {e}
    BY <1>1, StepTakes, NoArrival, TypesDiffer DEF Starts
  <2>3. Pending(q, "PACKET_DEPARTURE") = Departures \ {e}
    BY <1>1, StepTakes, NoArrival, TypesDiffer DEF Departures
  <2> HIDE DEF q
  <2>4. EventsFollowServer'
    BY <1>2, <1>3, <1>5, <2>1, <2>2, <2>3 DEF EventsFollowServer, Wedged
  <2>5. NeverRuntimeError'
    BY <2>1 DEF FlagInv, NeverRuntimeError
  <2> QED
    BY <1>1, <1>6, <1>7, <2>1, <2>2, <2>4, <2>5 DEF FlagInv
<1> QED
  BY <1>8, <1>9 DEF HandleServiceStart

\* So does that of departures.
LEMMA FlagsDeparture ==
  ASSUME TypeOK, FlagInv, NEW e \in scheduler.queue, Take(e), HandleDeparture(e)
  PROVE  FlagInv'
<1>1. /\ e.timestamp \in Nat /\ now' = e.timestamp
      /\ e \notin Starts /\ e \in Departures
      /\ NothingInThePast /\ PacketIds' = PacketIds
  BY TakenType
  DEF Take, HandleDeparture, Starts, Departures, Pending, FlagInv, PacketIds
<1>2. /\ server.busy /\ ~service_start_pending
      /\ Starts = {} /\ Departures \ {e} = {}
  BY <1>1 DEF FlagInv, EventsFollowServer, Starts, Departures
<1>3. server' = IdleServer /\ raised' = raised
  BY <1>2 DEF HandleDeparture, DepartAndStartNext, DepartAndIdle, FinishService
<1>4. ~server'.busy
  BY <1>3 DEF IdleServer
<1>5. NeverRuntimeError'
  BY <1>3 DEF FlagInv, NeverRuntimeError
<1>6. ASSUME InTime(scheduler', now')
      PROVE  NothingInThePast'
  BY <1>6 DEF InTime, NothingInThePast
<1>7. CASE DepartAndStartNext(e)
  <2> DEFINE d == Event(e.timestamp, "PACKET_SERVICE_START", Head(buffer))
             x == Stamp(Taken(e), d)
             q == ThenArrival(AddEvent(Taken(e), d), NoTime)
  <2>1. scheduler' = q /\ service_start_pending' = TRUE
    BY <1>7, NoArrival DEF DepartAndStartNext
  <2>2. /\ Head(buffer) \in PacketIds' \cup {NoPacket}
        /\ PacketIds \subseteq PacketIds'
        /\ "PACKET_SERVICE_START" \in EventType /\ e.timestamp >= e.timestamp
    <3>1. Head(buffer) \in PacketIds
      BY <1>7 DEF DepartAndStartNext, StartsNext, TypeOK
    <3> QED
      BY <1>1, <3>1, TypesDiffer
  <2>3. InTime(q, e.timestamp)
    BY <1>1, <2>2, StepAdds, NoArrival, TypesDiffer
  <2>4. Pending(q, "PACKET_SERVICE_START") = (Starts \ {e}) \cup {x}
    BY <1>1, <2>2, StepAdds, NoArrival, TypesDiffer DEF Starts
  <2>5. Pending(q, "PACKET_DEPARTURE") = Departures \ {e}
    BY <1>1, <2>2, StepAdds, NoArrival, TypesDiffer DEF Departures
  <2> HIDE DEF x, q
  <2>6. EventsFollowServer'
    BY <1>2, <1>4, <2>1, <2>4, <2>5 DEF EventsFollowServer
  <2>7. WorkConserving'
    BY <2>1 DEF WorkConserving
  <2> QED
    BY <1>1, <1>5, <1>6, <2>1, <2>3, <2>6, <2>7 DEF FlagInv
<1>8. CASE DepartAndIdle(e)
  <2> DEFINE q == ThenArrival(Taken(e), NoTime)
  <2>1. /\ scheduler' = q /\ buffer' = buffer
        /\ service_start_pending' = service_start_pending
    BY <1>8, NoArrival DEF DepartAndIdle
  <2>2. /\ InTime(q, e.timestamp)
        /\ Pending(q, "PACKET_SERVICE_START") = Starts \ {e}
    BY <1>1, StepTakes, NoArrival, TypesDiffer DEF Starts
  <2>3. Pending(q, "PACKET_DEPARTURE") = Departures \ {e}
    BY <1>1, StepTakes, NoArrival, TypesDiffer DEF Departures
  <2> HIDE DEF q
  <2>4. EventsFollowServer'
    BY <1>2, <1>4, <2>1, <2>2, <2>3 DEF EventsFollowServer
  <2>5. WorkConserving'
    <3>1. buffer = <<>>
      BY <1>2, <1>8 DEF DepartAndIdle, StartsNext
    <3> QED
      BY <2>1, <3>1 DEF WorkConserving
  <2> QED
    BY <1>1, <1>5, <1>6, <2>1, <2>2, <2>4, <2>5 DEF FlagInv
<1> QED
  BY <1>7, <1>8 DEF HandleDeparture

\* So does that of drops.
LEMMA FlagsDrop ==
  ASSUME TypeOK, FlagInv, NEW e \in scheduler.queue, Take(e), HandleDrop(e)
  PROVE  FlagInv'
<1> DEFINE q == ThenArrival(Taken(e), NoTime)
<1>1. /\ now' = e.timestamp
      /\ e \notin Starts /\ e \notin Departures /\ NothingInThePast
  BY DEF Take, HandleDrop, Starts, Departures, Pending, FlagInv
<1>2. scheduler' = q
  BY NoArrival DEF HandleDrop
<1>3. /\ InTime(q, e.timestamp)
      /\ Pending(q, "PACKET_SERVICE_START") = Starts
  BY <1>1, StepTakes, NoArrival, TypesDiffer, SMTT(30) DEF Starts
<1>4. Pending(q, "PACKET_DEPARTURE") = Departures
  BY <1>1, StepTakes, NoArrival, TypesDiffer DEF Departures
<1> HIDE DEF q
<1>5. /\ server' = server /\ service_start_pending' = service_start_pending
      /\ raised' = raised /\ buffer' = buffer
  BY DEF HandleDrop, queueVars
<1>6. NothingInThePast'
  BY <1>1, <1>2, <1>3 DEF InTime, NothingInThePast
<1>7. EventsFollowServer'
  BY <1>2, <1>3, <1>4, <1>5 DEF FlagInv, EventsFollowServer, Starts, Departures, Wedged
<1>8. WorkConserving' /\ NeverRuntimeError'
  BY <1>5 DEF FlagInv, WorkConserving, NeverRuntimeError
<1> QED
  BY <1>6, <1>7, <1>8 DEF FlagInv

\* So does an arrival that is scheduled by anyone.
LEMMA FlagsScheduleArrival ==
  ASSUME TypeOK, FlagInv, NEW d \in ArrivalDelays, ScheduleArrival(d)
  PROVE  FlagInv'
<1>1. /\ now \in Nat /\ IsScheduler(scheduler, Nat, PacketIds)
      /\ now + d \in Nat /\ now + d >= now /\ now' = now
      /\ scheduler' = ThenArrival(scheduler, now + d)
  BY RouterAssumption DEF TypeOK, ScheduleArrival
<1>2. InTime(scheduler, now)
  BY DEF FlagInv, NothingInThePast, InTime
<1>3. InTime(scheduler', now)
  BY <1>1, <1>2, ArrivalInTime
<1>4. Starts' = Starts /\ Departures' = Departures
  BY <1>1, ThenArrivalProperties, TypesDiffer DEF Starts, Departures
<1>5. /\ server' = server /\ service_start_pending' = service_start_pending
      /\ raised' = raised /\ buffer' = buffer
  BY DEF ScheduleArrival, queueVars
<1>6. NothingInThePast'
  BY <1>1, <1>3 DEF InTime, NothingInThePast
<1>7. EventsFollowServer'
  BY <1>4, <1>5 DEF FlagInv, EventsFollowServer, Starts, Departures, Wedged
<1>8. WorkConserving' /\ NeverRuntimeError'
  BY <1>5 DEF FlagInv, WorkConserving, NeverRuntimeError
<1> QED
  BY <1>6, <1>7, <1>8 DEF FlagInv

\* An idle router has no event pending.
LEMMA FlagsInit == Init => FlagInv
<1> SUFFICES ASSUME Init
             PROVE  FlagInv
  OBVIOUS
<1>1. scheduler.queue = {} /\ raised = {} /\ buffer = <<>>
  BY DEF Init, EmptyScheduler
<1>2. ~server.busy /\ service_start_pending = FALSE
  BY DEF Init, IdleServer
<1>3. NothingInThePast /\ WorkConserving /\ NeverRuntimeError
  BY <1>1 DEF NothingInThePast, WorkConserving, NeverRuntimeError
<1>4. Starts = {} /\ Departures = {}
  BY <1>1 DEF Starts, Departures, Pending
<1>5. EventsFollowServer
  BY <1>2, <1>4 DEF EventsFollowServer, Starts, Departures
<1> QED
  BY <1>3, <1>5 DEF FlagInv

\* So does every step.
LEMMA FlagsNext == TypeOK /\ FlagInv /\ [Next]_vars => FlagInv'
<1> SUFFICES ASSUME TypeOK, FlagInv, [Next]_vars
             PROVE  FlagInv'
  OBVIOUS
<1>1. TypeOK'
  BY TypeNext
<1>2. CASE UNCHANGED vars
  BY <1>2 DEF vars, queueVars, FlagInv, NothingInThePast, EventsFollowServer, Pending, Wedged,
              WorkConserving, NeverRuntimeError
<1> QED
  BY <1>1, <1>2, FlagsArrival, FlagsServiceStart, FlagsDeparture, FlagsDrop,
     FlagsScheduleArrival DEF Next, HandleEvent

\* So the flags tell the pending events, always.
LEMMA FlagInvariant == Spec => []FlagInv
  BY FlagsInit, FlagsNext, TypeCorrect, PTL DEF Spec

\* No event is ever pending for a time the clock has passed, and no simulated
\* time passes before a scheduled service start or drop.
THEOREM ClockAcceptsEveryEvent == Spec => []NothingInThePast
  BY FlagInvariant, PTL DEF FlagInv

\* The flags tell which of the router's events are pending, whatever arrives
\* between the reservation of the server and the start of the service.
THEOREM FlagsTellEvents == Spec => []EventsFollowServer
  BY FlagInvariant, PTL DEF FlagInv

\* The server never refuses a start or a finish.
THEOREM ServerNeverRefuses == Spec => []NeverRuntimeError
  BY FlagInvariant, PTL DEF FlagInv

\* The server is never left free while packets wait.
THEOREM ServerConservesWork == Spec => []WorkConserving
  BY FlagInvariant, PTL DEF FlagInv
-----------------------------------------------------------------------------
\* What a step means for the packets, without the scheduler: the handlers seen
\* through the pending service starts.

\* The packet that arrives has the next id.
Arrives(fields) ==
  /\ next_packet_id' = next_packet_id + 1
  /\ packet' = [p \in PacketIds' |-> IF p = next_packet_id THEN fields ELSE packet[p]]
  /\ server' = server

Lost(reason) == [Packet(now') EXCEPT !.drop_time = now', !.drop_reason = reason]

Loses(reason) ==
  /\ Arrives(Lost(reason))
  /\ reason = "baseline_drop" => TRUE \in BaselineDrop
  /\ reason = "queue_full" => IsFull
  /\ Starts' = Starts /\ buffer' = buffer
  /\ packets_dropped' = packets_dropped + 1 /\ total_enqueued' = total_enqueued
  /\ total_dropped' = IF reason = "queue_full" THEN total_dropped + 1 ELSE total_dropped

Accepts ==
  /\ Arrives(Packet(now'))
  /\ ~IsFull
  /\ total_enqueued' = total_enqueued + 1
  /\ packets_dropped' = packets_dropped /\ total_dropped' = total_dropped

Waits ==
  /\ Accepts
  /\ server.busy \/ Starts # {}
  /\ Starts' = Starts /\ buffer' = Enqueued(next_packet_id)

\* One start is pending afterwards, for packet p and for the current time.
StartsOnly(p) == \E x : Starts' = {x} /\ x.packet_id = p /\ x.timestamp = now'

Claims ==
  /\ Accepts
  /\ ~server.busy /\ Starts = {} /\ buffer = <<>>
  /\ StartsOnly(next_packet_id) /\ buffer' = <<>>

CountersUnchanged ==
  /\ next_packet_id' = next_packet_id
  /\ total_enqueued' = total_enqueued /\ total_dropped' = total_dropped
  /\ packets_dropped' = packets_dropped

Begins(e) ==
  /\ CountersUnchanged
  /\ ~server.busy /\ Starts = {e} /\ e.timestamp = now'
  /\ server' = Serving(e.packet_id, now')
  /\ packet' = [packet EXCEPT ![e.packet_id].service_start_time = now']
  /\ Starts' = {} /\ buffer' = buffer

Leaves ==
  /\ CountersUnchanged
  /\ server.busy /\ Starts = {}
  /\ server' = IdleServer
  /\ packet' = [packet EXCEPT ![server.current_packet].departure_time = now']
  /\ \/ buffer = <<>> /\ buffer' = <<>> /\ Starts' = {}
     \/ buffer # <<>> /\ buffer' = Tail(buffer) /\ StartsOnly(Head(buffer))

Rests ==
  /\ CountersUnchanged
  /\ server' = server /\ packet' = packet /\ Starts' = Starts /\ buffer' = buffer

PacketStep ==
  \/ \E r \in Reasons : Loses(r)
  \/ Waits
  \/ Claims
  \/ \E e \in Starts : Begins(e)
  \/ Leaves
  \/ Rests

\* The buffer is empty when a packet claims the server.
LEMMA OnlyPacketWaiting ==
  ASSUME NEW p, buffer = <<>>
  PROVE  Head(Enqueued(p)) = p /\ Tail(Enqueued(p)) = <<>>
<1>1. Enqueued(p) = <<p>>
  <2>1. <<>> \o <<p>> = <<p>> /\ <<p>> \o <<>> = <<p>>
    OBVIOUS
  <2> QED
    BY <2>1 DEF Enqueued
<1> QED
  BY <1>1

\* The handler of an arrival is one of the first three steps.
LEMMA ArrivalIsStep ==
  ASSUME TypeOK, FlagInv, NEW e \in scheduler.queue, Take(e),
         NEW t \in NextArrival(e.timestamp), HandleArrival(e, t)
  PROVE  (\E r \in Reasons : Loses(r)) \/ Waits \/ Claims
<1>1. /\ e.timestamp \in Nat /\ now' = e.timestamp
      /\ e \notin Starts /\ NothingInThePast
  BY TakenType DEF Take, HandleArrival, Starts, Pending, FlagInv
<1>2. next_packet_id' = next_packet_id + 1 /\ server' = server
  BY DEF HandleArrival, DropBaseline, DropQueueFull, Drop, EnqueueAndWait, EnqueueAndStart,
         Admit, Create
<1>3. PacketIds \subseteq PacketIds' /\ next_packet_id \in PacketIds'
      /\ PacketIds' = FirstPacketId .. next_packet_id
  BY <1>2, RouterAssumption DEF TypeOK, PacketIds
<1>4. ASSUME NEW fields, Create(fields)
      PROVE  Arrives(fields)
  BY <1>2, <1>3, <1>4 DEF Create, Arrives
<1>5. ASSUME NEW r \in Reasons, Drop(e, r, t),
             r = "baseline_drop" => TRUE \in BaselineDrop /\ total_dropped' = total_dropped,
             r = "queue_full" => IsFull /\ total_dropped' = total_dropped + 1
      PROVE  Loses(r)
  <2> DEFINE d == Event(e.timestamp, "PACKET_DROP", next_packet_id)
             s == ThenArrival(AddEvent(Taken(e), d), t)
  <2>1. /\ scheduler' = s /\ buffer' = buffer /\ total_enqueued' = total_enqueued
        /\ packets_dropped' = packets_dropped + 1
    BY <1>5 DEF Drop
  <2>2. Pending(s, "PACKET_SERVICE_START") = Starts \ {e}
    <3>1. "PACKET_DROP" \in EventType /\ next_packet_id \in PacketIds' \cup {NoPacket}
          /\ e.timestamp >= e.timestamp
      BY <1>1, <1>3, TypesDiffer
    <3> QED
      BY <1>1, <1>3, <3>1, StepAdds, TypesDiffer DEF Starts
  <2> HIDE DEF s
  <2>3. Starts' = Starts
    BY <1>1, <2>1, <2>2 DEF Starts
  <2>4. Arrives(Lost(r))
    BY <1>1, <1>4, <1>5 DEF Drop, Lost
  <2> QED
    BY <1>5, <2>1, <2>3, <2>4 DEF Loses, Reasons
<1>6. ASSUME Admit(e)
      PROVE  Accepts
  BY <1>1, <1>4, <1>6 DEF Admit, Accepts
<1>7. CASE DropBaseline(e, t)
  BY <1>5, <1>7 DEF DropBaseline, Reasons
<1>8. CASE DropQueueFull(e, t)
  BY <1>5, <1>8 DEF DropQueueFull, Reasons
<1>9. CASE EnqueueAndWait(e, t)
  <2>1. /\ scheduler' = ThenArrival(Taken(e), t) /\ buffer' = Enqueued(next_packet_id)
        /\ server.busy \/ service_start_pending
    BY <1>9 DEF EnqueueAndWait
  <2>2. Pending(ThenArrival(Taken(e), t), "PACKET_SERVICE_START") = Starts \ {e}
    BY <1>1, StepTakes, TypesDiffer DEF Starts
  <2>3. Starts' = Starts
    BY <1>1, <2>1, <2>2 DEF Starts
  <2>4. server.busy \/ Starts # {}
    BY <2>1 DEF FlagInv, EventsFollowServer, Starts
  <2> QED
    BY <1>6, <1>9, <2>1, <2>3, <2>4 DEF EnqueueAndWait, Waits
<1>10. CASE EnqueueAndStart(e, t)
  <2> DEFINE d == Event(e.timestamp, "PACKET_SERVICE_START", next_packet_id)
             x == Stamp(Taken(e), d)
             s == ThenArrival(AddEvent(Taken(e), d), t)
  <2>1. /\ ~server.busy /\ ~service_start_pending
    BY <1>10 DEF EnqueueAndStart
  <2>2. buffer = <<>> /\ Starts = {}
    BY <2>1 DEF FlagInv, WorkConserving, EventsFollowServer, Starts
  <2>3. Head(Enqueued(next_packet_id)) = next_packet_id /\ Tail(Enqueued(next_packet_id)) = <<>>
    BY <2>2, OnlyPacketWaiting
  <2>4. scheduler' = s /\ buffer' = <<>>
    BY <1>10, <2>3 DEF EnqueueAndStart
  <2>5. /\ "PACKET_SERVICE_START" \in EventType /\ next_packet_id \in PacketIds' \cup {NoPacket}
        /\ e.timestamp >= e.timestamp
    BY <1>1, <1>3, TypesDiffer
  <2>6. Pending(s, "PACKET_SERVICE_START") = (Starts \ {e}) \cup {x}
    BY <1>1, <1>3, <2>5, StepAdds, TypesDiffer DEF Starts
  <2>7. x.packet_id = next_packet_id /\ x.timestamp = e.timestamp
    <3>1. IsScheduler(Taken(e), Nat, PacketIds')
      BY <1>3, TakenType, MorePackets
    <3>2. d \in Events(Nat, PacketIds')
      BY <1>1, <2>5, EventTyped
    <3>3. d.timestamp = e.timestamp /\ d.packet_id = next_packet_id
      BY DEF Event
    <3> HIDE DEF d
    <3> QED
      BY <3>1, <3>2, <3>3, StampProperties
  <2> HIDE DEF s, x
  <2>8. StartsOnly(next_packet_id)
    BY <1>1, <2>2, <2>4, <2>6, <2>7 DEF Starts, StartsOnly
  <2> QED
    BY <1>6, <1>10, <2>1, <2>2, <2>4, <2>8 DEF EnqueueAndStart, Claims
<1> QED
  BY <1>7, <1>8, <1>9, <1>10 DEF HandleArrival

\* The handler of a service start begins the service of the reserved packet, also
\* when the sampled service time makes it raise.
LEMMA ServiceStartIsStep ==
  ASSUME TypeOK, FlagInv, NEW e \in scheduler.queue, Take(e),
         NEW s \in ServiceTimes, HandleServiceStart(e, s)
  PROVE  e \in Starts /\ Begins(e)
<1>1. /\ e.timestamp \in Nat /\ now' = e.timestamp /\ s \in Int
      /\ e.packet_id \in PacketIds \cup {NoPacket}
      /\ e \in Starts /\ NothingInThePast /\ PacketIds' = PacketIds
  BY TakenType, RouterAssumption
  DEF Take, HandleServiceStart, Starts, Pending, FlagInv, PacketIds
<1>2. service_start_pending /\ ~server.busy /\ Starts = {e}
  BY <1>1 DEF FlagInv, EventsFollowServer, Starts
<1>3. buffer' = buffer /\ CountersUnchanged
  BY DEF HandleServiceStart, queueVars, CountersUnchanged
<1>4. /\ server' = Serving(e.packet_id, e.timestamp)
      /\ packet' = [packet EXCEPT ![e.packet_id].service_start_time = e.timestamp]
  BY <1>2 DEF HandleServiceStart, StartService, StartServiceRaises
<1>5. Starts' = {}
  <2>1. CASE StartService(e, s)
    <3> DEFINE d == Event(e.timestamp + s, "PACKET_DEPARTURE", e.packet_id)
               q == ThenArrival(AddEvent(Taken(e), d), NoTime)
    <3>1. scheduler' = q /\ s >= 0
      BY <2>1, NoArrival DEF StartService
    <3>2. e.timestamp + s \in Nat /\ e.timestamp + s >= e.timestamp
      BY <1>1, <3>1
    <3>3. Pending(q, "PACKET_SERVICE_START") = Starts \ {e}
      BY <1>1, <3>2, StepAdds, NoArrival, TypesDiffer DEF Starts
    <3> HIDE DEF q
    <3> QED
      BY <1>2, <3>1, <3>3 DEF Starts
  <2>2. CASE StartServiceRaises(e, s)
    <3>1. scheduler' = ThenArrival(Taken(e), NoTime)
      BY <2>2, NoArrival DEF StartServiceRaises
    <3>2. Pending(ThenArrival(Taken(e), NoTime), "PACKET_SERVICE_START") = Starts \ {e}
      BY <1>1, StepTakes, NoArrival, TypesDiffer DEF Starts
    <3> QED
      BY <1>2, <3>1, <3>2 DEF Starts
  <2> QED
    BY <2>1, <2>2 DEF HandleServiceStart
<1>6. Begins(e)
  BY <1>1, <1>2, <1>3, <1>4, <1>5 DEF Begins
<1> QED
  BY <1>1, <1>6

\* The handler of a departure frees the server and reserves it for the next
\* packet in one step.
LEMMA DepartureIsStep ==
  ASSUME TypeOK, FlagInv, NEW e \in scheduler.queue, Take(e), HandleDeparture(e)
  PROVE  Leaves
<1>1. /\ e.timestamp \in Nat /\ now' = e.timestamp
      /\ e \notin Starts /\ e \in Departures
      /\ NothingInThePast /\ PacketIds' = PacketIds
  BY TakenType
  DEF Take, HandleDeparture, Starts, Departures, Pending, FlagInv, PacketIds
<1>2. server.busy /\ ~service_start_pending /\ Starts = {}
  BY <1>1 DEF FlagInv, EventsFollowServer, Starts, Departures
<1>3. /\ server' = IdleServer /\ CountersUnchanged
      /\ packet' = [packet EXCEPT ![server.current_packet].departure_time = e.timestamp]
  BY <1>2 DEF HandleDeparture, DepartAndStartNext, DepartAndIdle, FinishService, CountersUnchanged
<1>4. CASE DepartAndStartNext(e)
  <2> DEFINE d == Event(e.timestamp, "PACKET_SERVICE_START", Head(buffer))
             x == Stamp(Taken(e), d)
             q == ThenArrival(AddEvent(Taken(e), d), NoTime)
  <2>1. scheduler' = q /\ buffer # <<>> /\ buffer' = Tail(buffer)
    BY <1>4, NoArrival DEF DepartAndStartNext, StartsNext
  <2>2. /\ Head(buffer) \in PacketIds' \cup {NoPacket}
        /\ PacketIds \subseteq PacketIds'
        /\ "PACKET_SERVICE_START" \in EventType /\ e.timestamp >= e.timestamp
    <3>1. Head(buffer) \in PacketIds
      BY <2>1 DEF TypeOK
    <3> QED
      BY <1>1, <3>1, TypesDiffer
  <2>3. Pending(q, "PACKET_SERVICE_START") = (Starts \ {e}) \cup {x}
        /\ x.packet_id = Head(buffer)
    BY <1>1, <2>2, StepAdds, NoArrival, TypesDiffer DEF Starts
  <2>4. x.timestamp = e.timestamp
    <3>1. IsScheduler(Taken(e), Nat, PacketIds')
      BY <1>1, TakenType
    <3>2. d \in Events(Nat, PacketIds') /\ d.timestamp = e.timestamp
      BY <1>1, <2>2, EventTyped
    <3> HIDE DEF d
    <3> QED
      BY <3>1, <3>2, StampProperties
  <2> HIDE DEF q, x
  <2>5. StartsOnly(Head(buffer))
    BY <1>1, <1>2, <2>1, <2>3, <2>4 DEF Starts, StartsOnly
  <2> QED
    BY <1>1, <1>2, <1>3, <2>1, <2>5 DEF Leaves
<1>5. CASE DepartAndIdle(e)
  <2>1. /\ scheduler' = ThenArrival(Taken(e), NoTime) /\ buffer' = buffer
        /\ buffer = <<>>
    BY <1>2, <1>5, NoArrival DEF DepartAndIdle, StartsNext
  <2>2. Pending(ThenArrival(Taken(e), NoTime), "PACKET_SERVICE_START") = Starts \ {e}
    BY <1>1, StepTakes, NoArrival, TypesDiffer DEF Starts
  <2>3. Starts' = {}
    BY <1>2, <2>1, <2>2 DEF Starts
  <2> QED
    BY <1>1, <1>2, <1>3, <2>1, <2>3 DEF Leaves
<1> QED
  BY <1>4, <1>5 DEF HandleDeparture

\* Every step of the router is a step of its packets, and time does not go back.
LEMMA StepsOfPackets ==
  ASSUME TypeOK, FlagInv, [Next]_vars
  PROVE  PacketStep /\ now' >= now
<1>1. ASSUME NEW e \in scheduler.queue, Take(e)
      PROVE  now' = e.timestamp /\ now' >= now
  BY <1>1, TakenInTime DEF FlagInv, Take
<1>2. ASSUME NEW e \in scheduler.queue, Take(e), HandleDrop(e)
      PROVE  PacketStep
  <2>1. scheduler' = ThenArrival(Taken(e), NoTime) /\ e \notin Starts
    BY <1>2, NoArrival DEF HandleDrop, Starts, Pending
  <2>2. Pending(ThenArrival(Taken(e), NoTime), "PACKET_SERVICE_START") = Starts \ {e}
    BY <1>2, StepTakes, NoArrival, TypesDiffer DEF Starts, FlagInv
  <2>3. Starts' = Starts
    BY <2>1, <2>2 DEF Starts
  <2> QED
    BY <1>2, <2>3 DEF HandleDrop, queueVars, Rests, CountersUnchanged, PacketStep
<1>3. ASSUME NEW d \in ArrivalDelays, ScheduleArrival(d)
      PROVE  PacketStep /\ now' >= now
  <2>1. /\ now \in Nat /\ IsScheduler(scheduler, Nat, PacketIds)
        /\ now + d \in Nat /\ now' = now
        /\ scheduler' = ThenArrival(scheduler, now + d)
    BY <1>3, RouterAssumption DEF TypeOK, ScheduleArrival
  <2>2. Starts' = Starts
    BY <2>1, ThenArrivalProperties, TypesDiffer DEF Starts
  <2> QED
    BY <1>3, <2>1, <2>2 DEF ScheduleArrival, queueVars, Rests, CountersUnchanged, PacketStep
<1>4. CASE UNCHANGED vars
  <2>1. now' >= now
    BY <1>4 DEF vars, TypeOK
  <2> QED
    BY <1>4, <2>1 DEF vars, queueVars, Starts, Rests, CountersUnchanged, PacketStep
<1>5. ASSUME NEW e \in scheduler.queue, HandleEvent(e)
      PROVE  PacketStep /\ now' >= now
  BY <1>1, <1>2, <1>5, ArrivalIsStep, ServiceStartIsStep, DepartureIsStep
  DEF HandleEvent, PacketStep
<1> QED
  BY <1>3, <1>4, <1>5 DEF Next
-----------------------------------------------------------------------------
\* What the operations of a queue do to its contents.

Within(s, x) == \E i \in DOMAIN s : s[i] = x
Distinct(s) == \A i, j \in DOMAIN s : s[i] = s[j] => i = j

\* Enqueuing adds the packet, at the end or at the front.
LEMMA EnqueuedAt ==
  ASSUME NEW S, buffer \in Seq(S), NEW p \in S
  PROVE  /\ DOMAIN Enqueued(p) = 1 .. Len(buffer) + 1
         /\ Discipline = "FIFO" =>
              /\ \A i \in 1 .. Len(buffer) : Enqueued(p)[i] = buffer[i]
              /\ Enqueued(p)[Len(buffer) + 1] = p
         /\ Discipline # "FIFO" =>
              \A i \in 1 .. Len(buffer) + 1 :
                Enqueued(p)[i] = IF i = 1 THEN p ELSE buffer[i - 1]
<1> DEFINE q == Enqueued(p)
           n == Len(buffer)
<1>1. n \in Nat /\ DOMAIN buffer = 1 .. n
  OBVIOUS
<1>2. CASE Discipline = "FIFO"
  BY <1>2 DEF Enqueued
<1>3. CASE Discipline # "FIFO"
  <2>1. <<p>> \in Seq(S) /\ Len(<<p>>) = 1 /\ <<p>>[1] = p
    OBVIOUS
  <2> DEFINE single == <<p>>
  <2> HIDE DEF single
  <2>2. q = single \o buffer
    BY <1>3 DEF Enqueued, single
  <2>3. /\ single \o buffer \in Seq(S)
        /\ Len(single \o buffer) = 1 + n
        /\ \A i \in 1 .. 1 + n : (single \o buffer)[i] = IF i <= 1 THEN single[i] ELSE buffer[i - 1]
    BY <2>1, ConcatProperties DEF single
  <2> HIDE DEF q, n
  <2>4. /\ DOMAIN q = 1 .. n + 1
        /\ \A i \in 1 .. n + 1 : q[i] = IF i = 1 THEN p ELSE buffer[i - 1]
    BY <1>1, <2>1, <2>2, <2>3 DEF single
  <2> QED
    BY <1>3, <2>4 DEF q, n
<1> QED
  BY <1>2, <1>3

\* What enqueuing puts into the buffer is the packet, once.
LEMMA EnqueuedElements ==
  ASSUME NEW S, buffer \in Seq(S), NEW p \in S
  PROVE  /\ \A x : Within(Enqueued(p), x) <=> x = p \/ InBuffer(x)
         /\ Distinct(buffer) /\ ~InBuffer(p) => Distinct(Enqueued(p))
<1> DEFINE q == Enqueued(p)
           n == Len(buffer)
<1>1. n \in Nat /\ DOMAIN buffer = 1 .. n
  OBVIOUS
<1>2. CASE Discipline = "FIFO"
  <2>1. /\ DOMAIN q = 1 .. n + 1
        /\ \A i \in 1 .. n : q[i] = buffer[i]
        /\ q[n + 1] = p
    BY <1>2, EnqueuedAt
  <2> HIDE DEF q, n
  <2>2. \A x : Within(q, x) <=> x = p \/ InBuffer(x)
    BY <1>1, <2>1 DEF Within, InBuffer
  <2>3. Distinct(buffer) /\ ~InBuffer(p) => Distinct(q)
    BY <1>1, <2>1 DEF Distinct, InBuffer
  <2> QED
    BY <2>2, <2>3 DEF q
<1>3. CASE Discipline # "FIFO"
  <2>1. /\ DOMAIN q = 1 .. n + 1
        /\ \A i \in 1 .. n + 1 : q[i] = IF i = 1 THEN p ELSE buffer[i - 1]
    BY <1>3, EnqueuedAt
  <2> HIDE DEF q, n
  <2>2. \A x : Within(q, x) <=> x = p \/ InBuffer(x)
    <3> TAKE x
    <3>1. ASSUME Within(q, x) PROVE x = p \/ InBuffer(x)
      BY <1>1, <2>1, <3>1 DEF Within, InBuffer
    <3>2. q[1] = p /\ 1 \in DOMAIN q
      BY <1>1, <2>1
    <3>3. ASSUME NEW i \in 1 .. n, buffer[i] = x PROVE Within(q, x)
      <4>1. i + 1 \in DOMAIN q /\ q[i + 1] = x
        BY <1>1, <2>1, <3>3
      <4> QED
        BY <4>1 DEF Within
    <3> QED
      BY <1>1, <3>1, <3>2, <3>3 DEF Within, InBuffer
  <2>3. ASSUME Distinct(buffer), ~InBuffer(p)
        PROVE  Distinct(q)
    <3> SUFFICES ASSUME NEW i \in 1 .. n + 1, NEW j \in 1 .. n + 1, q[i] = q[j]
                 PROVE  i = j
      BY <2>1 DEF Distinct
    <3>1. ASSUME NEW k \in 1 .. n + 1, k # 1
          PROVE  q[k] # p
      <4>1. k - 1 \in DOMAIN buffer /\ q[k] = buffer[k - 1]
        BY <1>1, <2>1, <3>1
      <4> QED
        BY <2>3, <4>1 DEF InBuffer
    <3>2. 1 \in 1 .. n + 1 /\ q[1] = p
      BY <1>1, <2>1
    <3>3. CASE i # 1 /\ j # 1
      <4>1. i - 1 \in 1 .. n /\ j - 1 \in 1 .. n /\ buffer[i - 1] = buffer[j - 1]
        BY <1>1, <2>1, <3>3
      <4>2. i - 1 = j - 1
        BY <1>1, <2>3, <4>1 DEF Distinct
      <4> QED
        BY <4>2
    <3> QED
      BY <3>1, <3>2, <3>3
  <2> QED
    BY <2>2, <2>3 DEF q
<1> QED
  BY <1>2, <1>3

\* Dequeuing takes the first packet and leaves the others.
LEMMA TailElements ==
  ASSUME NEW S, NEW s \in Seq(S), s # <<>>
  PROVE  /\ \A x : Within(s, x) <=> x = Head(s) \/ Within(Tail(s), x)
         /\ Distinct(s) => Distinct(Tail(s)) /\ ~Within(Tail(s), Head(s))
<1> DEFINE n == Len(s)
           t == Tail(s)
<1>1. /\ n \in Nat \ {0} /\ DOMAIN s = 1 .. n /\ Head(s) = s[1]
      /\ DOMAIN t = 1 .. n - 1
      /\ \A i \in 1 .. n - 1 : t[i] = s[i + 1]
  BY HeadTailProperties, EmptySeq
<1> HIDE DEF n, t
<1>2. \A x : Within(s, x) <=> x = Head(s) \/ Within(t, x)
  <2> TAKE x
  <2>1. ASSUME NEW i \in 1 .. n, s[i] = x PROVE x = Head(s) \/ Within(t, x)
    <3>1. CASE i = 1
      BY <1>1, <2>1, <3>1
    <3>2. CASE i # 1
      <4>1. i - 1 \in 1 .. n - 1 /\ t[i - 1] = s[(i - 1) + 1] /\ (i - 1) + 1 = i
        BY <1>1, <3>2
      <4> QED
        BY <1>1, <2>1, <4>1 DEF Within
    <3> QED
      BY <3>1, <3>2
  <2>2. ASSUME NEW i \in 1 .. n - 1, t[i] = x PROVE Within(s, x)
    <3>1. i + 1 \in 1 .. n /\ s[i + 1] = x
      BY <1>1, <2>2
    <3> QED
      BY <1>1, <3>1 DEF Within
  <2>3. Within(s, Head(s))
    BY <1>1 DEF Within
  <2> QED
    BY <1>1, <2>1, <2>2, <2>3 DEF Within
<1>3. ASSUME Distinct(s)
      PROVE  Distinct(t) /\ ~Within(t, Head(s))
  <2>1. ASSUME NEW i \in 1 .. n - 1, NEW j \in 1 .. n - 1, t[i] = t[j]
        PROVE  i = j
    <3>1. i + 1 \in 1 .. n /\ j + 1 \in 1 .. n /\ s[i + 1] = s[j + 1]
      BY <1>1, <2>1
    <3>2. i + 1 = j + 1
      BY <1>1, <1>3, <3>1 DEF Distinct
    <3> QED
      BY <3>2
  <2>2. ASSUME NEW i \in 1 .. n - 1, t[i] = s[1]
        PROVE  FALSE
    <3>1. i + 1 \in 1 .. n /\ s[i + 1] = s[1] /\ 1 \in 1 .. n /\ i + 1 # 1
      BY <1>1, <2>2
    <3> QED
      BY <1>1, <1>3, <3>1 DEF Distinct
  <2> QED
    BY <1>1, <2>1, <2>2 DEF Distinct, Within
<1> QED
  BY <1>2, <1>3 DEF t

\* The packet of an arrival is new; the other packets stay as they are.
LEMMA NewPacket ==
  ASSUME TypeOK, NEW fields, Arrives(fields)
  PROVE  /\ PacketIds' = PacketIds \cup {next_packet_id}
         /\ next_packet_id \notin PacketIds
         /\ \A p \in PacketIds : p < next_packet_id
         /\ packet'[next_packet_id] = fields
         /\ \A p \in PacketIds : packet'[p] = packet[p]
         /\ InService' = InService
<1>1. /\ PacketIds' = PacketIds \cup {next_packet_id}
      /\ next_packet_id \notin PacketIds
      /\ \A p \in PacketIds : p < next_packet_id
  BY RouterAssumption DEF TypeOK, PacketIds, Arrives
<1>2. InService' = InService
  BY DEF Arrives, InService
<1> QED
  BY <1>1, <1>2 DEF Arrives

\* Reserved is what the pending starts name.
LEMMA ReservedByStarts ==
  /\ Starts = {} <=> Reserved = {}
  /\ \A e : Starts = {e} => Reserved = {e.packet_id}
  /\ Starts' = Starts => Reserved' = Reserved
  /\ Starts' = {} => Reserved' = {}
  /\ \A p : StartsOnly(p) => Reserved' = {p}
<1>1. Reserved = {e.packet_id : e \in Starts}
  BY DEF Reserved, Starts
<1>2. Reserved' = {e.packet_id : e \in Starts'}
  BY DEF Reserved, Starts
<1> QED
  BY <1>1, <1>2 DEF StartsOnly
-----------------------------------------------------------------------------
\* Every packet in one place.

\* Where packet p is, and what its fields say.
Placed(p) ==
  /\ ~Started(p) /\ ~Dropped(p) <=> InBuffer(p) \/ p \in Reserved
  /\ Started(p) /\ ~Departed(p) <=> p \in InService
  /\ Departed(p) => Started(p)
  /\ Dropped(p) => ~Started(p)

\* The events and the server name packets that exist.
PlaceInv ==
  /\ PacketInOnePlace
  /\ Reserved \subseteq PacketIds
  /\ InService \subseteq PacketIds

\* PacketInOnePlace, packet by packet, in a state and in the next.
LEMMA OnePlace ==
  /\ PacketInOnePlace <=> /\ Distinct(buffer)
                          /\ \A p \in Reserved : ~Within(buffer, p)
                          /\ \A p \in PacketIds : Placed(p)
  /\ PacketInOnePlace' <=> /\ Distinct(buffer')
                           /\ \A p \in Reserved' : ~Within(buffer', p)
                           /\ \A p \in PacketIds' : Placed(p)'
  /\ \A p : InBuffer(p) <=> Within(buffer, p)
  /\ \A p : InBuffer(p)' <=> Within(buffer', p)
  BY DEF PacketInOnePlace, Placed, Distinct, Within, InBuffer

\* A packet whose fields and place a step leaves alone.
LEMMA StaysPlaced ==
  ASSUME NEW p, Placed(p), packet'[p] = packet[p],
         Within(buffer', p) \/ p \in Reserved' <=> InBuffer(p) \/ p \in Reserved,
         p \in InService' <=> p \in InService
  PROVE  Placed(p)'
<1>1. /\ Started(p)' <=> Started(p)
      /\ Departed(p)' <=> Departed(p)
      /\ Dropped(p)' <=> Dropped(p)
  BY DEF Started, Departed, Dropped
<1> QED
  BY <1>1, OnePlace DEF Placed

\* What an arrival changes, whether the packet is lost, waits or claims the server.
LEMMA PlaceArrives ==
  ASSUME TypeOK, PlaceInv, NEW fields, Arrives(fields),
         fields.service_start_time = NoTime, fields.departure_time = NoTime,
         NEW q \in {{}, {next_packet_id}},
         q = {} <=> fields.drop_time # NoTime,
         \A x : Within(buffer', x) \/ x \in Reserved' <=>
                  x \in q \/ InBuffer(x) \/ x \in Reserved
  PROVE  /\ \A p \in PacketIds' : Placed(p)'
         /\ InService' \subseteq PacketIds'
<1>0. PICK n : n = next_packet_id
  OBVIOUS
<1>1. /\ PacketIds' = PacketIds \cup {n} /\ n \notin PacketIds
      /\ packet'[n] = fields
      /\ \A p \in PacketIds : packet'[p] = packet[p]
      /\ InService' = InService
  BY <1>0, NewPacket
<1>2. ~InBuffer(n) /\ n \notin Reserved /\ n \notin InService
  <2>1. \A i \in DOMAIN buffer : buffer[i] \in PacketIds
    BY DEF TypeOK
  <2> QED
    BY <1>1, <2>1 DEF PlaceInv, InBuffer
<1>3. ASSUME NEW p \in PacketIds
      PROVE  Placed(p)'
  <2>1. p # n /\ Placed(p)
    BY <1>1, <1>3, OnePlace DEF PlaceInv
  <2> QED
    BY <1>0, <1>1, <2>1, StaysPlaced
<1>4. Placed(n)'
  <2>1. ~Started(n)' /\ ~Departed(n)' /\ (Dropped(n)' <=> q = {})
    BY <1>1 DEF Started, Departed, Dropped
  <2>2. Within(buffer', n) \/ n \in Reserved' <=> q # {}
    BY <1>0, <1>2
  <2> QED
    BY <1>1, <1>2, <2>1, <2>2, OnePlace DEF Placed
<1> QED
  BY <1>1, <1>3, <1>4 DEF PlaceInv

\* Every step of the packets leaves each of them in one place.
LEMMA PlaceNext ==
  ASSUME TypeOK, TypeOK', FlagInv, PlaceInv, PacketStep
  PROVE  PlaceInv'
<1>1. /\ buffer \in Seq(PacketIds) /\ now' \in Nat
      /\ packet \in [PacketIds -> PacketFields]
      /\ now' # NoTime /\ next_packet_id \notin PacketIds
  BY RouterAssumption DEF TypeOK, NoTime, PacketIds
<1>2. /\ Distinct(buffer) /\ \A p \in Reserved : ~InBuffer(p)
      /\ \A p \in PacketIds : Placed(p)
      /\ \A i \in DOMAIN buffer : buffer[i] \in PacketIds
  BY <1>1, OnePlace DEF PlaceInv
<1>3. ASSUME NEW r \in Reasons, Loses(r)
      PROVE  PlaceInv'
  <2>1. /\ Arrives(Lost(r)) /\ buffer' = buffer /\ Reserved' = Reserved
        /\ PacketIds \subseteq PacketIds'
    BY <1>3, ReservedByStarts, NewPacket DEF Loses
  <2>2. /\ Lost(r).service_start_time = NoTime /\ Lost(r).departure_time = NoTime
        /\ Lost(r).drop_time # NoTime
    BY <1>1 DEF Lost, Packet
  <2>3. (\A p \in PacketIds' : Placed(p)') /\ InService' \subseteq PacketIds'
    BY <2>1, <2>2, OnePlace, PlaceArrives
  <2> QED
    BY <1>2, <2>1, <2>3, OnePlace DEF PlaceInv
<1>4. ASSUME Accepts
      PROVE  /\ Arrives(Packet(now')) /\ Packet(now').drop_time = NoTime
             /\ Packet(now').service_start_time = NoTime
             /\ Packet(now').departure_time = NoTime
             /\ PacketIds' = PacketIds \cup {next_packet_id}
             /\ ~InBuffer(next_packet_id)
  BY <1>1, <1>2, <1>4, NewPacket DEF Accepts, Packet, InBuffer
<1>5. CASE Waits
  <2>1. /\ Accepts /\ buffer' = Enqueued(next_packet_id) /\ Reserved' = Reserved
    BY <1>5, ReservedByStarts DEF Waits
  <2>2. buffer \in Seq(PacketIds') /\ next_packet_id \in PacketIds'
    BY <1>1, <1>4, <2>1
  <2>3. /\ \A x : Within(buffer', x) <=> x = next_packet_id \/ InBuffer(x)
        /\ Distinct(buffer')
    BY <1>2, <1>4, <2>1, <2>2, EnqueuedElements
  <2>4. (\A p \in PacketIds' : Placed(p)') /\ InService' \subseteq PacketIds'
    BY <1>4, <2>1, <2>3, PlaceArrives
  <2>5. next_packet_id \notin Reserved
    BY <1>1 DEF PlaceInv
  <2> QED
    BY <1>2, <1>4, <2>1, <2>3, <2>4, <2>5, OnePlace DEF PlaceInv
<1>6. CASE Claims
  <2>1. /\ Accepts /\ buffer = <<>> /\ buffer' = <<>>
        /\ Reserved = {} /\ Reserved' = {next_packet_id}
    BY <1>6, ReservedByStarts DEF Claims
  <2>2. \A x : ~Within(buffer', x) /\ ~InBuffer(x)
    BY <2>1 DEF Within, InBuffer
  <2>3. (\A p \in PacketIds' : Placed(p)') /\ InService' \subseteq PacketIds'
    BY <1>4, <2>1, <2>2, PlaceArrives
  <2> QED
    BY <1>2, <1>4, <2>1, <2>2, <2>3, OnePlace DEF PlaceInv
<1>7. ASSUME CountersUnchanged
      PROVE  PacketIds' = PacketIds
  BY <1>7 DEF CountersUnchanged, PacketIds
<1>8. ASSUME NEW e \in Starts, Begins(e)
      PROVE  PlaceInv'
  <2> DEFINE n == e.packet_id
  <2>1. /\ PacketIds' = PacketIds /\ buffer' = buffer
        /\ Reserved = {n} /\ Reserved' = {} /\ InService = {}
        /\ packet' = [packet EXCEPT ![n].service_start_time = now']
    BY <1>7, <1>8, ReservedByStarts DEF Begins, InService
  <2>2. InService' = {n}
    BY <1>8 DEF Begins, InService, Serving
  <2>3. n \in PacketIds /\ ~InBuffer(n)
    BY <1>2, <2>1 DEF PlaceInv
  <2> HIDE DEF n
  <2>4. Placed(n)'
    <3>1. Started(n)' /\ (Departed(n)' <=> Departed(n)) /\ (Dropped(n)' <=> Dropped(n))
      BY <1>1, <2>1, <2>3 DEF Started, Departed, Dropped, PacketFields
    <3>2. ~Started(n) /\ ~Departed(n) /\ ~Dropped(n)
      BY <1>2, <2>1, <2>3 DEF Placed
    <3> QED
      BY <2>1, <2>2, <2>3, <3>1, <3>2, OnePlace DEF Placed
  <2>5. ASSUME NEW p \in PacketIds, p # n
        PROVE  Placed(p)'
    <3>1. packet'[p] = packet[p] /\ Placed(p)
      BY <1>1, <1>2, <2>1, <2>5
    <3> QED
      BY <2>1, <2>2, <2>5, <3>1, StaysPlaced, OnePlace
  <2> QED
    BY <1>2, <2>1, <2>2, <2>3, <2>4, <2>5, OnePlace DEF PlaceInv
<1>9. CASE Leaves
  <2>0. PICK n : n = server.current_packet
    OBVIOUS
  <2>1. /\ PacketIds' = PacketIds /\ Reserved = {} /\ InService = {n}
        /\ packet' = [packet EXCEPT ![n].departure_time = now']
    BY <1>7, <1>9, <2>0, ReservedByStarts DEF Leaves, InService
  <2>2. InService' = {}
    BY <1>9 DEF Leaves, InService, IdleServer
  <2>3. n \in PacketIds /\ Started(n) /\ ~Departed(n) /\ ~Dropped(n) /\ ~InBuffer(n)
    BY <1>2, <2>1 DEF PlaceInv, Placed
  <2>4. /\ \A x : Within(buffer', x) \/ x \in Reserved' <=> InBuffer(x)
        /\ Distinct(buffer')
        /\ \A x \in Reserved' : ~Within(buffer', x)
        /\ Reserved' \subseteq PacketIds
    <3>1. CASE buffer = <<>> /\ buffer' = <<>> /\ Starts' = {}
      <4>1. Reserved' = {}
        BY <3>1, ReservedByStarts
      <4> QED
        BY <1>2, <3>1, <4>1 DEF Within, InBuffer
    <3>2. CASE buffer # <<>> /\ buffer' = Tail(buffer) /\ StartsOnly(Head(buffer))
      <4>1. Reserved' = {Head(buffer)}
        BY <3>2, ReservedByStarts
      <4>2. /\ \A x : InBuffer(x) <=> x = Head(buffer) \/ Within(buffer', x)
            /\ Distinct(buffer') /\ ~Within(buffer', Head(buffer))
        BY <1>1, <1>2, <3>2, TailElements, OnePlace
      <4>3. Head(buffer) \in PacketIds
        BY <1>1, <3>2
      <4> QED
        BY <4>1, <4>2, <4>3
    <3> QED
      BY <1>9, <3>1, <3>2 DEF Leaves
  <2>5. Placed(n)'
    <3>1. (Started(n)' <=> Started(n)) /\ Departed(n)' /\ (Dropped(n)' <=> Dropped(n))
      BY <1>1, <2>1, <2>3 DEF Started, Departed, Dropped, PacketFields
    <3> QED
      BY <2>1, <2>2, <2>3, <2>4, <3>1, OnePlace DEF Placed
  <2>6. ASSUME NEW p \in PacketIds, p # n
        PROVE  Placed(p)'
    <3>1. packet'[p] = packet[p] /\ Placed(p)
      BY <1>1, <1>2, <2>1, <2>6
    <3> QED
      BY <2>1, <2>2, <2>4, <2>6, <3>1, StaysPlaced
  <2> QED
    BY <2>1, <2>2, <2>4, <2>5, <2>6, OnePlace DEF PlaceInv
<1>10. CASE Rests
  <2>1. /\ PacketIds' = PacketIds /\ buffer' = buffer /\ packet' = packet
        /\ Reserved' = Reserved /\ InService' = InService
    BY <1>7, <1>10, ReservedByStarts DEF Rests, InService
  <2> QED
    BY <2>1 DEF PlaceInv, PacketInOnePlace, InBuffer, Started, Departed, Dropped
<1> QED
  BY <1>3, <1>5, <1>6, <1>8, <1>9, <1>10 DEF PacketStep

\* There is no packet yet.
LEMMA PlaceInit == Init => PlaceInv
<1> SUFFICES ASSUME Init
             PROVE  PlaceInv
  OBVIOUS
<1>1. PacketIds = {} /\ buffer = <<>>
  BY RouterAssumption DEF Init, PacketIds
<1>2. Reserved = {} /\ InService = {}
  BY DEF Init, EmptyScheduler, IdleServer, Reserved, InService, Pending
<1> QED
  BY <1>1, <1>2 DEF PlaceInv, PacketInOnePlace

\* So every packet is in one place, always.
LEMMA PlaceInvariant == Spec => []PlaceInv
<1>1. TypeOK /\ TypeOK' /\ FlagInv /\ PlaceInv /\ [Next]_vars => PlaceInv'
  BY StepsOfPackets, PlaceNext
<1> QED
  BY <1>1, PlaceInit, TypeCorrect, FlagInvariant, PTL DEF Spec

\* Every packet is in exactly one place, the one its own fields tell: the buffer,
\* a pending start, the server, departed or dropped (router.py:171-205,
\* server.py:31, 47).
THEOREM NoPacketLostOrCopied == Spec => []PacketInOnePlace
  BY PlaceInvariant, PTL DEF PlaceInv
-----------------------------------------------------------------------------
\* The counters.

Drops == {p \in PacketIds : Dropped(p)}
FullDrops == {p \in PacketIds : packet[p].drop_reason = "queue_full"}

\* The packets that are dropped can be counted.
LEMMA FiniteDrops ==
  ASSUME TypeOK
  PROVE  /\ IsFiniteSet(Drops) /\ IsFiniteSet(FullDrops)
         /\ Cardinality(Drops) \in Nat /\ Cardinality(FullDrops) \in Nat
<1>1. IsFiniteSet(PacketIds)
  BY FS_Interval, RouterAssumption DEF TypeOK, PacketIds
<1>2. Drops \subseteq PacketIds /\ FullDrops \subseteq PacketIds
  BY DEF Drops, FullDrops
<1>3. IsFiniteSet(Drops) /\ IsFiniteSet(FullDrops)
  BY <1>1, <1>2, FS_Subset
<1> QED
  BY <1>3, FS_CardinalityType

\* A packet that is lost is counted once by the router, and once by the queue
\* manager if the queue was full.
LEMMA CountersNext ==
  ASSUME TypeOK, TypeOK', CountersAgree, PacketStep
  PROVE  CountersAgree'
<1>1. /\ next_packet_id \in Nat /\ FirstPacketId \in Nat /\ now \in Nat
      /\ total_enqueued \in Nat /\ total_dropped \in Nat /\ packets_dropped \in Nat
      /\ packet \in [PacketIds -> PacketFields]
      /\ PacketsCreated = total_enqueued + packets_dropped
      /\ packets_dropped = Cardinality(Drops) /\ total_dropped = Cardinality(FullDrops)
  BY RouterAssumption DEF TypeOK, CountersAgree, Drops, FullDrops
<1>2. ASSUME Drops' = Drops, FullDrops' = FullDrops,
             PacketsCreated' = total_enqueued' + packets_dropped',
             packets_dropped' = packets_dropped, total_dropped' = total_dropped
      PROVE  CountersAgree'
  <2>1. /\ packets_dropped' = Cardinality(Drops') /\ total_dropped' = Cardinality(FullDrops')
    BY <1>1, <1>2
  <2> QED
    BY <1>2, <2>1 DEF CountersAgree, Drops, FullDrops
<1>3. ASSUME NEW fields, Arrives(fields)
      PROVE  /\ Drops' = IF fields.drop_time # NoTime
                         THEN Drops \cup {next_packet_id} ELSE Drops
             /\ FullDrops' = IF fields.drop_reason = "queue_full"
                             THEN FullDrops \cup {next_packet_id} ELSE FullDrops
             /\ PacketsCreated' = PacketsCreated + 1
             /\ next_packet_id \notin Drops /\ next_packet_id \notin FullDrops
  <2>1. /\ PacketIds' = PacketIds \cup {next_packet_id}
        /\ next_packet_id \notin PacketIds
        /\ packet'[next_packet_id] = fields
        /\ \A p \in PacketIds : packet'[p] = packet[p]
    BY <1>3, NewPacket
  <2>2. PacketsCreated' = PacketsCreated + 1
    BY <1>1, <1>3 DEF Arrives, PacketsCreated
  <2> QED
    BY <2>1, <2>2 DEF Drops, FullDrops, Dropped
<1>4. ASSUME NEW r \in Reasons, Loses(r)
      PROVE  CountersAgree'
  <2>1. Arrives(Lost(r))
    BY <1>4 DEF Loses
  <2>2. Lost(r).drop_reason = r
    BY DEF Lost
  <2>3. Lost(r).drop_time = now'
    BY DEF Lost, Packet
  <2>4. now' # NoTime
    BY DEF TypeOK, NoTime
  <2> DEFINE n == next_packet_id
  <2>5. Drops' = Drops \cup {n} /\ n \notin Drops /\ n \notin FullDrops
    BY <1>3, <2>1, <2>3, <2>4
  <2>6. FullDrops' = IF r = "queue_full" THEN FullDrops \cup {n} ELSE FullDrops
    BY <1>3, <2>1, <2>2
  <2> HIDE DEF n
  <2>7. Cardinality(Drops') = Cardinality(Drops) + 1
    BY <2>5, FiniteDrops, FS_AddElement
  <2>8. Cardinality(FullDrops') =
          IF r = "queue_full" THEN Cardinality(FullDrops) + 1 ELSE Cardinality(FullDrops)
    BY <2>5, <2>6, FiniteDrops, FS_AddElement
  <2>9. /\ packets_dropped' = packets_dropped + 1 /\ total_enqueued' = total_enqueued
        /\ total_dropped' = IF r = "queue_full" THEN total_dropped + 1 ELSE total_dropped
    BY <1>4 DEF Loses
  <2>10. PacketsCreated' = total_enqueued' + packets_dropped'
    BY <1>1, <1>3, <2>1, <2>9
  <2>11. packets_dropped' = Cardinality(Drops') /\ total_dropped' = Cardinality(FullDrops')
    BY <1>1, <2>7, <2>8, <2>9
  <2> QED
    BY <2>10, <2>11 DEF CountersAgree, Drops, FullDrops
<1>5. ASSUME Accepts
      PROVE  CountersAgree'
  <2>1. /\ Arrives(Packet(now')) /\ total_enqueued' = total_enqueued + 1
        /\ packets_dropped' = packets_dropped /\ total_dropped' = total_dropped
    BY <1>5 DEF Accepts
  <2>2. Packet(now').drop_time = NoTime /\ Packet(now').drop_reason # "queue_full"
    BY DEF Packet, NotDropped
  <2>3. Drops' = Drops /\ FullDrops' = FullDrops /\ PacketsCreated' = PacketsCreated + 1
    BY <1>3, <2>1, <2>2
  <2>4. PacketsCreated' = total_enqueued' + packets_dropped'
    BY <1>1, <2>1, <2>3
  <2> QED
    BY <1>2, <2>1, <2>3, <2>4
<1>6. ASSUME CountersUnchanged,
             \A p \in PacketIds : /\ packet'[p].drop_time = packet[p].drop_time
                                  /\ packet'[p].drop_reason = packet[p].drop_reason
      PROVE  CountersAgree'
  <2>1. /\ PacketIds' = PacketIds /\ PacketsCreated' = PacketsCreated
        /\ packets_dropped' = packets_dropped /\ total_dropped' = total_dropped
        /\ total_enqueued' = total_enqueued
    BY <1>6 DEF CountersUnchanged, PacketIds, PacketsCreated
  <2>2. Drops' = Drops /\ FullDrops' = FullDrops
    BY <1>6, <2>1 DEF Drops, FullDrops, Dropped
  <2> QED
    BY <1>1, <1>2, <2>1, <2>2
<1>7. ASSUME NEW e \in Starts, Begins(e)
      PROVE  CountersAgree'
  <2>1. \A p \in PacketIds : /\ packet'[p].drop_time = packet[p].drop_time
                             /\ packet'[p].drop_reason = packet[p].drop_reason
    BY <1>1, <1>7 DEF Begins, PacketFields
  <2> QED
    BY <1>6, <1>7, <2>1 DEF Begins
<1>8. CASE Leaves
  <2>1. \A p \in PacketIds : /\ packet'[p].drop_time = packet[p].drop_time
                             /\ packet'[p].drop_reason = packet[p].drop_reason
    BY <1>1, <1>8 DEF Leaves, PacketFields
  <2> QED
    BY <1>6, <1>8, <2>1 DEF Leaves
<1>9. CASE Rests
  BY <1>6, <1>9 DEF Rests
<1> QED
  BY <1>4, <1>5, <1>7, <1>8, <1>9 DEF Waits, Claims, PacketStep

\* Nothing is counted yet.
LEMMA CountersInit == Init => CountersAgree
<1> SUFFICES ASSUME Init
             PROVE  CountersAgree
  OBVIOUS
<1>1. PacketIds = {} /\ PacketsCreated = 0
  BY RouterAssumption DEF Init, PacketIds, PacketsCreated
<1>2. /\ {p \in PacketIds : Dropped(p)} = {}
      /\ {p \in PacketIds : packet[p].drop_reason = "queue_full"} = {}
  BY <1>1
<1>3. total_enqueued = 0 /\ packets_dropped = 0 /\ total_dropped = 0
  BY DEF Init
<1> QED
  BY <1>1, <1>2, <1>3, FS_EmptySet DEF CountersAgree

\* The counters of the router and of its queue manager agree with each other and
\* with the packets: what a full queue refuses is counted once in each
\* (router.py:102-113, manager.py:95-121).
THEOREM CountersTellPackets == Spec => []CountersAgree
<1>1. TypeOK /\ TypeOK' /\ FlagInv /\ CountersAgree /\ [Next]_vars => CountersAgree'
  BY StepsOfPackets, CountersNext
<1> QED
  BY <1>1, CountersInit, TypeCorrect, FlagInvariant, PTL DEF Spec
-----------------------------------------------------------------------------
\* Services.

\* What the packets record lies in the past.
TimesPassed ==
  \A p \in PacketIds :
    /\ Started(p) => packet[p].service_start_time <= now
    /\ Departed(p) => packet[p].departure_time <= now

DisjointInv == ServicesDisjoint /\ TimesPassed

\* p was served before q.
Before(p, q) ==
  Departed(p) /\ packet[p].departure_time <= packet[q].service_start_time

\* A packet whose service neither begins nor ends in a step.
SameService(p) ==
  /\ packet'[p].service_start_time = packet[p].service_start_time
  /\ packet'[p].departure_time = packet[p].departure_time

\* A service begins only when every earlier one is over, and ends no earlier than
\* any that began.
LEMMA DisjointNext ==
  ASSUME TypeOK, TypeOK', PlaceInv, DisjointInv, PacketStep, now' >= now
  PROVE  DisjointInv'
<1>1. /\ packet \in [PacketIds -> PacketFields] /\ now \in Nat /\ now' \in Nat
      /\ now' # NoTime
      /\ \A p \in PacketIds : /\ packet[p].service_start_time \in Nat \cup {NoTime}
                              /\ packet[p].departure_time \in Nat \cup {NoTime}
      /\ \A p \in PacketIds : Departed(p) => Started(p)
      /\ \A p \in PacketIds : Started(p) /\ ~Departed(p) <=> p \in InService
  BY DEF TypeOK, PacketFields, NoTime, PlaceInv, PacketInOnePlace
<1>2. \A p, q \in PacketIds : Started(p) /\ Started(q) /\ p # q => Before(p, q) \/ Before(q, p)
  BY DEF DisjointInv, ServicesDisjoint, Before
<1>3. ASSUME NEW p \in PacketIds, SameService(p)
      PROVE  /\ Started(p)' <=> Started(p)
             /\ Departed(p)' <=> Departed(p)
             /\ Started(p)' => packet'[p].service_start_time <= now'
             /\ Departed(p)' => packet'[p].departure_time <= now'
  <2>1. (Started(p)' <=> Started(p)) /\ (Departed(p)' <=> Departed(p))
    BY <1>3 DEF SameService, Started, Departed
  <2>2. /\ Started(p) => packet[p].service_start_time <= now
        /\ Departed(p) => packet[p].departure_time <= now
    BY DEF DisjointInv, TimesPassed
  <2> QED
    BY <1>1, <1>3, <2>1, <2>2 DEF SameService, Started, Departed
<1>4. ASSUME NEW p \in PacketIds, NEW q \in PacketIds, SameService(p), SameService(q),
             p # q, Started(p)', Started(q)'
      PROVE  Before(p, q)' \/ Before(q, p)'
  <2>1. Before(p, q) \/ Before(q, p)
    BY <1>2, <1>3, <1>4
  <2> QED
    BY <1>3, <1>4, <2>1 DEF Before, SameService
<1>5. ASSUME \A p \in PacketIds' \ PacketIds : ~Started(p)' /\ ~Departed(p)',
             \A p \in PacketIds : SameService(p)
      PROVE  DisjointInv'
  <2>1. \A p, q \in PacketIds' : Started(p)' /\ Started(q)' /\ p # q
                                   => Before(p, q)' \/ Before(q, p)'
    BY <1>4, <1>5
  <2>2. \A p \in PacketIds' : /\ Started(p)' => packet'[p].service_start_time <= now'
                              /\ Departed(p)' => packet'[p].departure_time <= now'
    BY <1>3, <1>5
  <2> QED
    BY <2>1, <2>2 DEF DisjointInv, ServicesDisjoint, TimesPassed, Before
<1>6. ASSUME NEW fields, Arrives(fields), fields.service_start_time = NoTime,
             fields.departure_time = NoTime
      PROVE  DisjointInv'
  <2>0. PICK n : n = next_packet_id
    OBVIOUS
  <2>1. /\ PacketIds' = PacketIds \cup {n} /\ packet'[n] = fields
        /\ \A p \in PacketIds : packet'[p] = packet[p]
    BY <1>6, <2>0, NewPacket
  <2>2. ~Started(n)' /\ ~Departed(n)'
    BY <1>6, <2>1 DEF Started, Departed
  <2>3. \A p \in PacketIds : SameService(p)
    BY <2>1 DEF SameService
  <2>4. \A p \in PacketIds' \ PacketIds : p = n
    BY <2>1
  <2>5. \A p \in PacketIds' \ PacketIds : ~Started(p)' /\ ~Departed(p)'
    BY <2>2, <2>4
  <2> QED
    BY <1>5, <2>3, <2>5
<1>7. ASSUME NEW r \in Reasons, Loses(r)
      PROVE  DisjointInv'
  BY <1>6, <1>7 DEF Loses, Lost, Packet
<1>8. ASSUME Accepts
      PROVE  DisjointInv'
  BY <1>6, <1>8 DEF Accepts, Packet
<1>9. ASSUME NEW e \in Starts, Begins(e)
      PROVE  DisjointInv'
  <2> DEFINE n == e.packet_id
  <2>1. /\ PacketIds' = PacketIds /\ InService = {} /\ Reserved = {n}
        /\ packet' = [packet EXCEPT ![n].service_start_time = now']
    BY <1>9, ReservedByStarts DEF Begins, CountersUnchanged, PacketIds, InService
  <2>2. n \in PacketIds
    BY <2>1 DEF PlaceInv
  <2> HIDE DEF n
  <2>3. \A p \in PacketIds \ {n} : SameService(p)
    BY <1>1, <2>1 DEF SameService
  <2>4. /\ packet'[n].service_start_time = now' /\ ~Departed(n) /\ ~Started(n)
        /\ packet'[n].departure_time = packet[n].departure_time
    <3>1. ~Started(n)
      BY <2>1, <2>2 DEF PlaceInv, PacketInOnePlace
    <3> QED
      BY <1>1, <2>1, <2>2, <3>1 DEF PacketFields
  <2>5. ASSUME NEW p \in PacketIds \ {n}, Started(p)'
        PROVE  Before(p, n)'
    <3>1. Departed(p) /\ packet[p].departure_time <= now
      BY <1>1, <1>3, <2>1, <2>3, <2>5 DEF DisjointInv, TimesPassed
    <3>2. SameService(p) /\ Departed(p)'
      BY <1>3, <2>3, <3>1
    <3>3. packet'[p].departure_time <= now'
      BY <1>3, <3>2
    <3> QED
      BY <2>4, <3>2, <3>3 DEF Before
  <2>6. ~Departed(n)' /\ packet'[n].service_start_time <= now'
    BY <1>1, <2>4 DEF Departed
  <2>7. \A p, q \in PacketIds' : Started(p)' /\ Started(q)' /\ p # q
                                   => Before(p, q)' \/ Before(q, p)'
    BY <1>4, <2>1, <2>3, <2>5
  <2>8. \A p \in PacketIds' : /\ Started(p)' => packet'[p].service_start_time <= now'
                              /\ Departed(p)' => packet'[p].departure_time <= now'
    BY <1>3, <2>1, <2>3, <2>6
  <2> QED
    BY <2>7, <2>8 DEF DisjointInv, ServicesDisjoint, TimesPassed, Before
<1>10. CASE Leaves
  <2>0. PICK n : n = server.current_packet
    OBVIOUS
  <2>1. /\ PacketIds' = PacketIds /\ InService = {n}
        /\ packet' = [packet EXCEPT ![n].departure_time = now']
    BY <1>10, <2>0 DEF Leaves, CountersUnchanged, PacketIds, InService
  <2>2. n \in PacketIds /\ Started(n) /\ ~Departed(n)
    BY <1>1, <2>1 DEF PlaceInv
  <2>3. \A p \in PacketIds \ {n} : SameService(p)
    BY <1>1, <2>1 DEF SameService
  <2>4. /\ packet'[n].departure_time = now'
        /\ packet'[n].service_start_time = packet[n].service_start_time
    BY <1>1, <2>1, <2>2 DEF PacketFields
  <2>5. ASSUME NEW p \in PacketIds \ {n}, Started(p)'
        PROVE  Before(p, n)'
    <3>1. SameService(p) /\ Started(p)
      BY <1>3, <2>3, <2>5
    <3>2. Before(p, n)
      BY <1>2, <2>2, <2>5, <3>1 DEF Before
    <3> QED
      BY <1>3, <2>4, <3>1, <3>2 DEF Before, SameService
  <2>6. packet'[n].departure_time <= now' /\ packet'[n].service_start_time <= now'
    <3>1. packet[n].service_start_time <= now
      BY <2>2 DEF DisjointInv, TimesPassed
    <3> QED
      BY <1>1, <2>2, <2>4, <3>1 DEF Started
  <2>7. \A p, q \in PacketIds' : Started(p)' /\ Started(q)' /\ p # q
                                   => Before(p, q)' \/ Before(q, p)'
    BY <1>4, <2>1, <2>3, <2>5
  <2>8. \A p \in PacketIds' : /\ Started(p)' => packet'[p].service_start_time <= now'
                              /\ Departed(p)' => packet'[p].departure_time <= now'
    BY <1>3, <2>1, <2>3, <2>6
  <2> QED
    BY <2>7, <2>8 DEF DisjointInv, ServicesDisjoint, TimesPassed, Before
<1>11. CASE Rests
  <2>1. PacketIds' = PacketIds /\ \A p \in PacketIds : SameService(p)
    BY <1>11 DEF Rests, CountersUnchanged, PacketIds, SameService
  <2> QED
    BY <1>5, <2>1
<1> QED
  BY <1>7, <1>8, <1>9, <1>10, <1>11 DEF Waits, Claims, PacketStep

\* Services never overlap in time: the one server is busy from a start to the
\* departure of the same packet (server.py:15-55).
THEOREM OneServiceAtATime == Spec => []ServicesDisjoint
<1>1. Init => DisjointInv
  <2>1. Init => PacketIds = {}
    BY RouterAssumption DEF Init, PacketIds
  <2> QED
    BY <2>1 DEF DisjointInv, ServicesDisjoint, TimesPassed
<1>2. TypeOK /\ TypeOK' /\ FlagInv /\ PlaceInv /\ DisjointInv /\ [Next]_vars => DisjointInv'
  BY StepsOfPackets, DisjointNext
<1>3. DisjointInv => ServicesDisjoint
  BY DEF DisjointInv
<1> QED
  BY <1>1, <1>2, <1>3, TypeCorrect, FlagInvariant, PlaceInvariant, PTL DEF Spec
-----------------------------------------------------------------------------
\* Waiting.

\* The wait of p is over at time t: p arrives then, or another packet departs.
WaitOver(p, t) ==
  \/ t = packet[p].arrival_time
  \/ \E q \in PacketIds \ {p} : Departed(q) /\ packet[q].departure_time = t

WaitInv == WaitEndsAtDeparture /\ \A e \in Starts : WaitOver(e.packet_id, e.timestamp)

\* What a packet has recorded is never written again.
LEMMA HistoryKept ==
  ASSUME TypeOK, PlaceInv, PacketStep
  PROVE  /\ PacketIds \subseteq PacketIds'
         /\ \A p \in PacketIds :
              /\ packet'[p].arrival_time = packet[p].arrival_time
              /\ packet'[p].drop_time = packet[p].drop_time
              /\ Departed(p) => packet'[p].departure_time = packet[p].departure_time
              /\ Started(p) => packet'[p].service_start_time = packet[p].service_start_time
<1>1. /\ packet \in [PacketIds -> PacketFields]
      /\ \A p \in PacketIds : Started(p) /\ ~Departed(p) <=> p \in InService
      /\ \A p \in PacketIds : p \in Reserved => ~Started(p)
  BY DEF TypeOK, PlaceInv, PacketInOnePlace
<1>2. ASSUME NEW fields, Arrives(fields)
      PROVE  PacketIds \subseteq PacketIds' /\ \A p \in PacketIds : packet'[p] = packet[p]
  BY <1>2, NewPacket
<1>3. CASE Waits \/ Claims \/ \E r \in Reasons : Loses(r)
  BY <1>2, <1>3 DEF Waits, Claims, Accepts, Loses
<1>4. ASSUME NEW e \in Starts, Begins(e)
      PROVE  /\ PacketIds' = PacketIds
             /\ \A p \in PacketIds :
                  /\ packet'[p].arrival_time = packet[p].arrival_time
                  /\ packet'[p].drop_time = packet[p].drop_time
                  /\ packet'[p].departure_time = packet[p].departure_time
                  /\ Started(p) => packet'[p].service_start_time = packet[p].service_start_time
  <2> DEFINE n == e.packet_id
  <2>1. /\ PacketIds' = PacketIds /\ Reserved = {n}
        /\ packet' = [packet EXCEPT ![n].service_start_time = now']
    BY <1>4, ReservedByStarts DEF Begins, CountersUnchanged, PacketIds
  <2> HIDE DEF n
  <2>2. ASSUME NEW p \in PacketIds
        PROVE  /\ packet'[p].arrival_time = packet[p].arrival_time
               /\ packet'[p].drop_time = packet[p].drop_time
               /\ packet'[p].departure_time = packet[p].departure_time
               /\ p # n => packet'[p] = packet[p]
    BY <1>1, <2>1, <2>2 DEF PacketFields
  <2> QED
    BY <1>1, <2>1, <2>2
<1>5. CASE Leaves
  <2>0. PICK n : n = server.current_packet
    OBVIOUS
  <2>1. /\ PacketIds' = PacketIds /\ InService = {n}
        /\ packet' = [packet EXCEPT ![n].departure_time = now']
    BY <1>5, <2>0 DEF Leaves, CountersUnchanged, PacketIds, InService
  <2>2. ASSUME NEW p \in PacketIds
        PROVE  /\ packet'[p].arrival_time = packet[p].arrival_time
               /\ packet'[p].drop_time = packet[p].drop_time
               /\ packet'[p].service_start_time = packet[p].service_start_time
               /\ p # n => packet'[p] = packet[p]
    BY <1>1, <2>1, <2>2 DEF PacketFields
  <2> QED
    BY <1>1, <2>1, <2>2
<1>6. CASE Rests
  BY <1>6 DEF Rests, CountersUnchanged, PacketIds
<1> QED
  BY <1>3, <1>4, <1>5, <1>6 DEF PacketStep

\* A start comes at the arrival or at a departure of the same instant.
LEMMA WaitNext ==
  ASSUME TypeOK, TypeOK', PlaceInv, WaitInv, PacketStep
  PROVE  WaitInv'
<1>1. /\ packet \in [PacketIds -> PacketFields] /\ buffer \in Seq(PacketIds)
      /\ now' # NoTime
      /\ \A p \in PacketIds : p \in Reserved => ~Started(p)
      /\ \A p \in PacketIds : Started(p) /\ ~Departed(p) <=> p \in InService
      /\ \A p \in PacketIds : InBuffer(p) => ~Started(p)
      /\ Reserved \subseteq PacketIds /\ InService \subseteq PacketIds
  BY DEF TypeOK, PlaceInv, PacketInOnePlace, NoTime
<1>2. ASSUME NEW p \in PacketIds, NEW t, WaitOver(p, t)
      PROVE  WaitOver(p, t)'
  <2>1. ASSUME NEW q \in PacketIds \ {p}, Departed(q), packet[q].departure_time = t
        PROVE  q \in PacketIds' \ {p} /\ Departed(q)' /\ packet'[q].departure_time = t
    BY <2>1, HistoryKept DEF Departed
  <2> QED
    BY <1>2, <2>1, HistoryKept DEF WaitOver
<1>3. ASSUME NEW p \in PacketIds, Started(p)
      PROVE  WaitOver(p, packet[p].service_start_time)'
  <2>1. WaitOver(p, packet[p].service_start_time)
    BY <1>3 DEF WaitInv, WaitEndsAtDeparture, WaitOver
  <2> QED
    BY <1>2, <1>3, <2>1, HistoryKept DEF WaitOver
<1>4. ASSUME \A p \in PacketIds' : Started(p)' => p \in PacketIds /\ Started(p)
      PROVE  WaitEndsAtDeparture'
  BY <1>3, <1>4 DEF WaitEndsAtDeparture, WaitOver
<1>5. ASSUME NEW e \in Starts
      PROVE  WaitOver(e.packet_id, e.timestamp)'
  <2>1. e.packet_id \in PacketIds /\ WaitOver(e.packet_id, e.timestamp)
    BY <1>1 DEF WaitInv, Reserved, Starts
  <2> QED
    BY <1>2, <2>1
<1>6. ASSUME NEW fields, Arrives(fields), fields.service_start_time = NoTime
      PROVE  WaitEndsAtDeparture'
  <2>0. PICK n : n = next_packet_id
    OBVIOUS
  <2>1. /\ PacketIds' = PacketIds \cup {n} /\ packet'[n] = fields
        /\ \A p \in PacketIds : packet'[p] = packet[p]
    BY <1>6, <2>0, NewPacket
  <2>2. ~Started(n)' /\ \A p \in PacketIds : Started(p)' <=> Started(p)
    BY <1>6, <2>1 DEF Started
  <2> QED
    BY <1>4, <2>1, <2>2
<1>7. ASSUME NEW r \in Reasons, Loses(r)
      PROVE  WaitInv'
  BY <1>5, <1>6, <1>7 DEF Loses, Lost, Packet, WaitInv
<1>8. CASE Waits
  BY <1>5, <1>6, <1>8 DEF Waits, Accepts, Packet, WaitInv
<1>9. CASE Claims
  <2>0. PICK n : n = next_packet_id
    OBVIOUS
  <2>1. Arrives(Packet(now')) /\ StartsOnly(n)
    BY <1>9, <2>0 DEF Claims, Accepts
  <2>2. PICK x : Starts' = {x} /\ x.packet_id = n /\ x.timestamp = now'
    BY <2>1 DEF StartsOnly
  <2>3. packet'[n].arrival_time = now'
    BY <2>0, <2>1, NewPacket DEF Packet
  <2>4. WaitOver(n, now)'
    BY <2>3 DEF WaitOver
  <2>5. WaitEndsAtDeparture'
    BY <1>6, <2>1 DEF Packet
  <2> QED
    BY <2>2, <2>4, <2>5 DEF WaitInv
<1>10. ASSUME NEW e \in Starts, Begins(e)
       PROVE  WaitInv'
  <2> DEFINE n == e.packet_id
  <2>1. /\ PacketIds' = PacketIds /\ n \in PacketIds /\ e.timestamp = now' /\ Starts' = {}
        /\ packet' = [packet EXCEPT ![n].service_start_time = now']
    BY <1>1, <1>10 DEF Begins, CountersUnchanged, PacketIds, Reserved, Starts
  <2>2. WaitOver(n, now)'
    BY <1>5, <2>1 DEF WaitOver
  <2> HIDE DEF n
  <2>3. /\ packet'[n].service_start_time = now'
        /\ \A p \in PacketIds \ {n} : packet'[p] = packet[p]
    BY <1>1, <2>1 DEF PacketFields
  <2>4. ASSUME NEW p \in PacketIds, Started(p)'
        PROVE  WaitOver(p, packet[p].service_start_time)'
    <3>1. CASE p = n
      BY <2>2, <2>3, <3>1 DEF WaitOver
    <3>2. CASE p # n
      <4>1. Started(p)
        BY <2>3, <2>4, <3>2 DEF Started
      <4> QED
        BY <1>3, <4>1
    <3> QED
      BY <3>1, <3>2
  <2>5. WaitEndsAtDeparture'
    BY <2>1, <2>4 DEF WaitEndsAtDeparture, WaitOver
  <2> QED
    BY <2>1, <2>5 DEF WaitInv
<1>11. CASE Leaves
  <2>0. PICK n : n = server.current_packet
    OBVIOUS
  <2>1. /\ PacketIds' = PacketIds /\ InService = {n}
        /\ packet' = [packet EXCEPT ![n].departure_time = now']
    BY <1>11, <2>0 DEF Leaves, CountersUnchanged, PacketIds, InService
  <2>2. n \in PacketIds /\ Started(n)
    BY <1>1, <2>1
  <2>3. packet'[n].departure_time = now' /\ Departed(n)'
    BY <1>1, <2>1, <2>2 DEF Departed, PacketFields
  <2>4. WaitEndsAtDeparture'
    <3>1. \A p \in PacketIds : Started(p)' <=> Started(p)
      BY <1>1, <2>1 DEF Started, PacketFields
    <3> QED
      BY <1>4, <2>1, <3>1
  <2>5. CASE Starts' = {}
    BY <2>4, <2>5 DEF WaitInv
  <2>6. CASE buffer # <<>> /\ StartsOnly(Head(buffer))
    <3>1. PICK x : Starts' = {x} /\ x.packet_id = Head(buffer) /\ x.timestamp = now'
      BY <2>6 DEF StartsOnly
    <3>2. Head(buffer) \in PacketIds /\ InBuffer(Head(buffer))
      BY <1>1, <2>6, HeadTailProperties DEF InBuffer
    <3>3. n \in PacketIds' \ {x.packet_id}
      BY <1>1, <2>1, <2>2, <3>1, <3>2
    <3>4. WaitOver(x.packet_id, x.timestamp)'
      BY <2>3, <3>1, <3>3 DEF WaitOver
    <3> QED
      BY <2>4, <3>1, <3>4 DEF WaitInv
  <2> QED
    BY <1>11, <2>5, <2>6 DEF Leaves
<1>12. CASE Rests
  <2>1. PacketIds' = PacketIds /\ packet' = packet /\ Starts' = Starts
    BY <1>12 DEF Rests, CountersUnchanged, PacketIds
  <2> QED
    BY <1>5, <2>1 DEF WaitInv, WaitEndsAtDeparture, Started, Departed
<1> QED
  BY <1>7, <1>8, <1>9, <1>10, <1>11, <1>12 DEF PacketStep

\* A packet begins its service when it arrives, or at the very instant at which
\* another packet departs (router.py:115-118, 161-168).
THEOREM NoIdleWait == Spec => []WaitEndsAtDeparture
<1>1. Init => WaitInv
  <2>1. Init => PacketIds = {} /\ Starts = {}
    BY RouterAssumption DEF Init, PacketIds, Starts, Pending, EmptyScheduler
  <2> QED
    BY <2>1 DEF WaitInv, WaitEndsAtDeparture
<1>2. TypeOK /\ TypeOK' /\ FlagInv /\ PlaceInv /\ WaitInv /\ [Next]_vars => WaitInv'
  BY StepsOfPackets, WaitNext
<1>3. WaitInv => WaitEndsAtDeparture
  BY DEF WaitInv
<1> QED
  BY <1>1, <1>2, <1>3, TypeCorrect, FlagInvariant, PlaceInvariant, PTL DEF Spec
-----------------------------------------------------------------------------
\* Packets wait in the order of their ids, or in the opposite order.

Ascending(s) == \A i, j \in DOMAIN s : i < j => s[i] < s[j]
Descending(s) == \A i, j \in DOMAIN s : i < j => s[j] < s[i]

\* With FIFO whatever has left the buffer is older than all that it holds.
OrderInv ==
  /\ Discipline = "FIFO" =>
       /\ Ascending(buffer)
       /\ \A p \in PacketIds : Started(p) \/ p \in Reserved =>
            \A i \in DOMAIN buffer : p < buffer[i]
  /\ Discipline = "LIFO" => Descending(buffer)

\* The newest packet keeps the order of the buffer.
LEMMA EnqueuedOrder ==
  ASSUME buffer \in Seq(Nat), NEW p \in Nat, \A i \in DOMAIN buffer : buffer[i] < p
  PROVE  /\ Discipline = "FIFO" /\ Ascending(buffer) => Ascending(Enqueued(p))
         /\ Discipline = "LIFO" /\ Descending(buffer) => Descending(Enqueued(p))
<1> DEFINE q == Enqueued(p)
           n == Len(buffer)
<1>1. n \in Nat /\ DOMAIN buffer = 1 .. n
  OBVIOUS
<1>2. ASSUME Discipline = "FIFO", Ascending(buffer)
      PROVE  Ascending(q)
  <2>1. /\ DOMAIN q = 1 .. n + 1
        /\ \A i \in 1 .. n : q[i] = buffer[i]
        /\ q[n + 1] = p
    BY <1>2, EnqueuedAt
  <2> HIDE DEF q, n
  <2> QED
    BY <1>1, <1>2, <2>1 DEF Ascending
<1>3. ASSUME Discipline = "LIFO", Descending(buffer)
      PROVE  Descending(q)
  <2>1. /\ DOMAIN q = 1 .. n + 1
        /\ \A i \in 1 .. n + 1 : q[i] = IF i = 1 THEN p ELSE buffer[i - 1]
    BY <1>3, EnqueuedAt
  <2> HIDE DEF q, n
  <2>2. ASSUME NEW i \in 1 .. n + 1, NEW j \in 1 .. n + 1, i < j
        PROVE  q[j] < q[i]
    <3>1. j - 1 \in 1 .. n /\ q[j] = buffer[j - 1]
      BY <1>1, <2>1, <2>2
    <3>2. CASE i = 1
      BY <1>1, <2>1, <3>1, <3>2
    <3>3. CASE i # 1
      <4>1. i - 1 \in 1 .. n /\ q[i] = buffer[i - 1] /\ i - 1 < j - 1
        BY <1>1, <2>1, <2>2, <3>3
      <4> QED
        BY <1>1, <1>3, <3>1, <4>1 DEF Descending
    <3> QED
      BY <3>2, <3>3
  <2> QED
    BY <2>1, <2>2 DEF Descending
<1> QED
  BY <1>2, <1>3

\* So does the buffer without its first packet, which precedes the others.
LEMMA TailOrder ==
  ASSUME NEW s \in Seq(Nat), s # <<>>
  PROVE  /\ \A i \in DOMAIN Tail(s) : Within(s, Tail(s)[i])
         /\ Ascending(s) => /\ Ascending(Tail(s))
                            /\ \A i \in DOMAIN Tail(s) : Head(s) < Tail(s)[i]
         /\ Descending(s) => /\ Descending(Tail(s))
                             /\ \A i \in DOMAIN Tail(s) : Tail(s)[i] < Head(s)
<1> DEFINE n == Len(s)
           t == Tail(s)
<1>1. /\ n \in Nat \ {0} /\ DOMAIN s = 1 .. n /\ Head(s) = s[1]
      /\ DOMAIN t = 1 .. n - 1
      /\ \A i \in 1 .. n - 1 : t[i] = s[i + 1]
  BY HeadTailProperties, EmptySeq
<1> HIDE DEF n, t
<1>2. ASSUME NEW i \in DOMAIN t
      PROVE  /\ i \in 1 .. n /\ i + 1 \in 1 .. n /\ t[i] = s[i + 1]
             /\ 1 \in 1 .. n /\ 1 < i + 1 /\ i \in Int
  BY <1>1, <1>2
<1>3. ASSUME NEW i \in DOMAIN t, NEW j \in DOMAIN t, i < j
      PROVE  i + 1 < j + 1
  BY <1>2, <1>3
<1>4. \A i \in DOMAIN t : Within(s, t[i])
  BY <1>1, <1>2 DEF Within
<1>5. ASSUME Ascending(s)
      PROVE  Ascending(t) /\ \A i \in DOMAIN t : Head(s) < t[i]
  BY <1>1, <1>2, <1>3, <1>5 DEF Ascending
<1>6. ASSUME Descending(s)
      PROVE  Descending(t) /\ \A i \in DOMAIN t : t[i] < Head(s)
  BY <1>1, <1>2, <1>3, <1>6 DEF Descending
<1> QED
  BY <1>4, <1>5, <1>6 DEF t

\* The packets that wait stay in order, and whoever takes the server is the first.
LEMMA OrderNext ==
  ASSUME TypeOK, PlaceInv, OrderInv, PacketStep
  PROVE  OrderInv'
<1>1. /\ packet \in [PacketIds -> PacketFields] /\ buffer \in Seq(PacketIds)
      /\ next_packet_id \in Nat /\ PacketIds \subseteq Nat /\ buffer \in Seq(Nat)
      /\ \A i \in DOMAIN buffer : buffer[i] \in PacketIds
      /\ Reserved \subseteq PacketIds /\ InService \subseteq PacketIds
      /\ \A p \in PacketIds : p \in InService => Started(p)
  BY RouterAssumption DEF TypeOK, PacketIds, PlaceInv, PacketInOnePlace
<1>2. ASSUME NEW fields, Arrives(fields), fields.service_start_time = NoTime
      PROVE  /\ \A p \in PacketIds : p < next_packet_id
             /\ \A p \in PacketIds' : Started(p)' => p \in PacketIds /\ Started(p)
             /\ \A i \in DOMAIN buffer : buffer[i] < next_packet_id
  <2>0. PICK n : n = next_packet_id
    OBVIOUS
  <2>1. /\ PacketIds' = PacketIds \cup {n} /\ packet'[n] = fields
        /\ \A p \in PacketIds : p < n
        /\ \A p \in PacketIds : packet'[p] = packet[p]
    BY <1>2, <2>0, NewPacket
  <2> QED
    BY <1>1, <1>2, <2>0, <2>1 DEF Started
<1>3. ASSUME \A p \in PacketIds' : Started(p)' => p \in PacketIds /\ Started(p),
             Starts' = Starts, buffer' = buffer
      PROVE  OrderInv'
  <2>1. Reserved' = Reserved
    BY <1>3, ReservedByStarts
  <2> QED
    BY <1>1, <1>3, <2>1 DEF OrderInv
<1>4. ASSUME NEW r \in Reasons, Loses(r)
      PROVE  OrderInv'
  BY <1>2, <1>3, <1>4 DEF Loses, Lost, Packet
<1>5. CASE Waits
  <2>1. /\ Arrives(Packet(now')) /\ Packet(now').service_start_time = NoTime
        /\ buffer' = Enqueued(next_packet_id) /\ Reserved' = Reserved
    BY <1>5, ReservedByStarts DEF Waits, Accepts, Packet
  <2>2. /\ \A p \in PacketIds : p < next_packet_id
        /\ \A p \in PacketIds' : Started(p)' => p \in PacketIds /\ Started(p)
        /\ \A i \in DOMAIN buffer : buffer[i] < next_packet_id
    BY <1>2, <2>1
  <2>3. /\ Discipline = "FIFO" /\ Ascending(buffer) => Ascending(buffer')
        /\ Discipline = "LIFO" /\ Descending(buffer) => Descending(buffer')
    BY <1>1, <2>1, <2>2, EnqueuedOrder
  <2>4. ASSUME Discipline = "FIFO", NEW p \in PacketIds', Started(p)' \/ p \in Reserved',
               NEW i \in DOMAIN buffer'
        PROVE  p < buffer'[i]
    <3>1. p \in PacketIds /\ (Started(p) \/ p \in Reserved)
      BY <1>1, <2>1, <2>2, <2>4
    <3>2. buffer'[i] = next_packet_id \/ InBuffer(buffer'[i])
      BY <1>1, <2>1, <2>4, EnqueuedElements DEF Within
    <3> QED
      BY <2>2, <2>4, <3>1, <3>2 DEF OrderInv, InBuffer
  <2> QED
    BY <2>3, <2>4 DEF OrderInv
<1>6. CASE Claims
  BY <1>6 DEF Claims, OrderInv, Ascending, Descending
<1>7. ASSUME NEW e \in Starts, Begins(e)
      PROVE  OrderInv'
  <2> DEFINE n == e.packet_id
  <2>1. /\ PacketIds' = PacketIds /\ Reserved = {n} /\ Reserved' = {} /\ buffer' = buffer
        /\ packet' = [packet EXCEPT ![n].service_start_time = now']
    BY <1>7, ReservedByStarts DEF Begins, CountersUnchanged, PacketIds
  <2> HIDE DEF n
  <2>2. \A p \in PacketIds' : Started(p)' => Started(p) \/ p \in Reserved
    BY <1>1, <2>1 DEF Started
  <2> QED
    BY <2>1, <2>2 DEF OrderInv
<1>8. CASE Leaves
  <2>0. PICK n : n = server.current_packet
    OBVIOUS
  <2>1. /\ PacketIds' = PacketIds
        /\ packet' = [packet EXCEPT ![n].departure_time = now']
    BY <1>8, <2>0 DEF Leaves, CountersUnchanged, PacketIds
  <2>2. \A p \in PacketIds' : Started(p)' <=> Started(p)
    BY <1>1, <2>1 DEF Started, PacketFields
  <2>3. CASE buffer' = <<>>
    BY <2>3 DEF OrderInv, Ascending, Descending
  <2>4. CASE buffer # <<>> /\ buffer' = Tail(buffer) /\ StartsOnly(Head(buffer))
    <3>1. Reserved' = {Head(buffer)}
      BY <2>4, ReservedByStarts
    <3>2. /\ \A i \in DOMAIN buffer' : InBuffer(buffer'[i])
          /\ Ascending(buffer) => /\ Ascending(buffer')
                                  /\ \A i \in DOMAIN buffer' : Head(buffer) < buffer'[i]
          /\ Descending(buffer) => Descending(buffer')
      BY <1>1, <2>4, TailOrder, OnePlace
    <3>3. ASSUME Discipline = "FIFO", NEW p \in PacketIds', Started(p)' \/ p \in Reserved',
                 NEW i \in DOMAIN buffer'
          PROVE  p < buffer'[i]
      <4>1. CASE p = Head(buffer)
        BY <3>2, <3>3, <4>1 DEF OrderInv
      <4>2. CASE Started(p)
        BY <2>1, <3>2, <3>3, <4>2 DEF OrderInv, InBuffer
      <4> QED
        BY <2>2, <3>1, <3>3, <4>1, <4>2
    <3> QED
      BY <3>2, <3>3 DEF OrderInv
  <2> QED
    BY <1>8, <2>3, <2>4 DEF Leaves
<1>9. CASE Rests
  <2>1. PacketIds' = PacketIds /\ packet' = packet /\ Starts' = Starts /\ buffer' = buffer
    BY <1>9 DEF Rests, CountersUnchanged, PacketIds
  <2> QED
    BY <1>3, <2>1 DEF Started
<1> QED
  BY <1>4, <1>5, <1>6, <1>7, <1>8, <1>9 DEF PacketStep

\* So the buffer is in order, always.
LEMMA OrderInvariant == Spec => []OrderInv
<1>1. Init => OrderInv
  <2>1. Init => PacketIds = {} /\ buffer = <<>>
    BY RouterAssumption DEF Init, PacketIds
  <2> QED
    BY <2>1 DEF OrderInv, Ascending, Descending
<1>2. TypeOK /\ FlagInv /\ PlaceInv /\ OrderInv /\ [Next]_vars => OrderInv'
  BY StepsOfPackets, OrderNext
<1> QED
  BY <1>1, <1>2, TypeCorrect, FlagInvariant, PlaceInvariant, PTL DEF Spec

\* With FIFO no packet overtakes one that was accepted before it, at whatever
\* instants they arrive and while a reservation is pending (manager.py:102-121,
\* router.py:171-205).
THEOREM FirstInFirstOut == Spec => []NoOvertaking
<1>1. TypeOK /\ PlaceInv /\ OrderInv => NoOvertaking
  <2> SUFFICES ASSUME TypeOK, PlaceInv, OrderInv, Discipline = "FIFO",
                      NEW p \in PacketIds, NEW q \in PacketIds,
                      p < q, Accepted(p), Started(q) \/ q \in Reserved
               PROVE  Started(p) \/ p \in Reserved
    BY DEF NoOvertaking
  <2>1. InBuffer(p) => q < p
    BY DEF OrderInv, InBuffer
  <2>2. p \in Nat /\ q \in Nat
    BY RouterAssumption DEF PacketIds, TypeOK
  <2>3. ~InBuffer(p)
    BY <2>1, <2>2
  <2> QED
    BY <2>3 DEF PlaceInv, PacketInOnePlace, Accepted
<1> QED
  BY <1>1, TypeCorrect, PlaceInvariant, OrderInvariant, PTL

\* With LIFO the packet that is reserved is the latest of those that wait.
LEMMA TakesNewest ==
  ASSUME TypeOK, PlaceInv, OrderInv, PacketStep, Discipline = "LIFO",
         NEW p \in Reserved' \ Reserved, NEW i \in DOMAIN buffer'
  PROVE  buffer'[i] < p
<1>1. CASE Leaves
  <2>1. buffer # <<>> /\ buffer' = Tail(buffer) /\ StartsOnly(Head(buffer))
    BY <1>1, ReservedByStarts DEF Leaves
  <2>2. p = Head(buffer)
    BY <2>1, ReservedByStarts
  <2>3. buffer \in Seq(Nat)
    BY RouterAssumption DEF TypeOK, PacketIds
  <2> QED
    BY <2>1, <2>2, <2>3, TailOrder DEF OrderInv
<1>2. CASE Claims
  BY <1>2 DEF Claims
<1>3. CASE (\E r \in Reasons : Loses(r)) \/ Waits \/ Rests
  BY <1>3, ReservedByStarts DEF Loses, Waits, Rests
<1>4. CASE \E e \in Starts : Begins(e)
  BY <1>4, ReservedByStarts DEF Begins
<1> QED
  BY <1>1, <1>2, <1>3, <1>4 DEF PacketStep

\* With LIFO no packet that waits is later than the one whose service is
\* scheduled (manager.py:102-121, router.py:171-205).
THEOREM LastInFirstOut == Spec => NewestFirst
<1>1. TypeOK /\ FlagInv /\ PlaceInv /\ OrderInv /\ [Next]_vars =>
        [Discipline = "LIFO" =>
           \A p \in Reserved' \ Reserved : \A i \in DOMAIN buffer' : buffer'[i] < p]_vars
  BY StepsOfPackets, TakesNewest
<1> QED
  BY <1>1, TypeCorrect, FlagInvariant, PlaceInvariant, OrderInvariant, PTL DEF Spec, NewestFirst
-----------------------------------------------------------------------------
\* The bound on arrivals.

Arrivals == Pending(scheduler, "PACKET_ARRIVAL")

\* A packet will have a place among AllPackets when its arrival is handled.
BoundInv ==
  /\ IsFiniteSet(Arrivals)
  /\ PacketsCreated + Cardinality(Arrivals) <= MaxPackets

\* The caller of the router schedules one arrival at most.
LEMMA OneMoreArrival ==
  ASSUME NEW s, NEW t
  PROVE  \/ Pending(ThenArrival(s, t), "PACKET_ARRIVAL") = Pending(s, "PACKET_ARRIVAL")
         \/ /\ t # NoTime
            /\ \E x : /\ x.timestamp = t
                      /\ Pending(ThenArrival(s, t), "PACKET_ARRIVAL") =
                           Pending(s, "PACKET_ARRIVAL") \cup {x}
<1>1. CASE t = NoTime
  BY <1>1 DEF ThenArrival
<1>2. CASE t # NoTime
  <2> DEFINE x == Stamp(s, Event(t, "PACKET_ARRIVAL", NoPacket))
             q == ThenArrival(s, t)
  <2>1. q.queue = s.queue \cup {x} /\ x.timestamp = t
    BY <1>2 DEF ThenArrival, AddEvent, Stamp, Event
  <2> HIDE DEF x, q
  <2>2. \/ Pending(q, "PACKET_ARRIVAL") = Pending(s, "PACKET_ARRIVAL")
        \/ Pending(q, "PACKET_ARRIVAL") = Pending(s, "PACKET_ARRIVAL") \cup {x}
    BY <2>1 DEF Pending
  <2> QED
    BY <1>2, <2>1, <2>2 DEF q
<1> QED
  BY <1>1, <1>2

\* The events that the router schedules are no arrivals.
LEMMA OwnEventsAreNoArrivals ==
  ASSUME NEW s, NEW u, NEW p, NEW type, type # "PACKET_ARRIVAL"
  PROVE  Pending(AddEvent(s, Event(u, type, p)), "PACKET_ARRIVAL") = Pending(s, "PACKET_ARRIVAL")
<1> DEFINE x == Stamp(s, Event(u, type, p))
           q == AddEvent(s, Event(u, type, p))
<1>1. q.queue = s.queue \cup {x} /\ x.event_type = type
  BY DEF AddEvent, Stamp, Event
<1> HIDE DEF x, q
<1>2. Pending(q, "PACKET_ARRIVAL") = Pending(s, "PACKET_ARRIVAL")
  BY <1>1 DEF Pending
<1> QED
  BY <1>2 DEF q

\* The event of a step is no longer pending.
LEMMA TakenArrivals ==
  ASSUME TypeOK, NEW e \in scheduler.queue
  PROVE  Pending(Taken(e), "PACKET_ARRIVAL") = Arrivals \ {e}
  BY PendingAfterRemove DEF TypeOK, Taken, Arrivals

\* The handler of an arrival takes it, and the caller may schedule the next one.
LEMMA ArrivalHandled ==
  ASSUME TypeOK, NEW e \in scheduler.queue, NEW t, HandleArrival(e, t)
  PROVE  /\ e \in Arrivals
         /\ \/ Arrivals' = Arrivals \ {e}
            \/ t # NoTime /\ \E x : x.timestamp = t /\ Arrivals' = (Arrivals \ {e}) \cup {x}
         /\ PacketsCreated' = PacketsCreated + 1
<1>1. e \in Arrivals
  BY DEF HandleArrival, Arrivals, Pending
<1>2. next_packet_id' = next_packet_id + 1
  BY DEF HandleArrival, DropBaseline, DropQueueFull, Drop, EnqueueAndWait, EnqueueAndStart,
         Admit, Create
<1>3. PacketsCreated' = PacketsCreated + 1
  BY <1>2, RouterAssumption DEF TypeOK, PacketsCreated
<1>4. \E s : scheduler' = ThenArrival(s, t) /\ Pending(s, "PACKET_ARRIVAL") = Arrivals \ {e}
  <2>1. CASE DropBaseline(e, t) \/ DropQueueFull(e, t)
    <3> DEFINE s == AddEvent(Taken(e), Event(e.timestamp, "PACKET_DROP", next_packet_id))
    <3>1. scheduler' = ThenArrival(s, t)
      BY <2>1 DEF DropBaseline, DropQueueFull, Drop
    <3>2. Pending(s, "PACKET_ARRIVAL") = Arrivals \ {e}
      BY TakenArrivals, OwnEventsAreNoArrivals
    <3> QED
      BY <3>1, <3>2
  <2>2. CASE EnqueueAndWait(e, t)
    BY <2>2, TakenArrivals DEF EnqueueAndWait
  <2>3. CASE EnqueueAndStart(e, t)
    <3> DEFINE s == AddEvent(Taken(e), Event(e.timestamp, "PACKET_SERVICE_START",
                                             Head(Enqueued(next_packet_id))))
    <3>1. scheduler' = ThenArrival(s, t)
      BY <2>3 DEF EnqueueAndStart
    <3>2. Pending(s, "PACKET_ARRIVAL") = Arrivals \ {e}
      BY TakenArrivals, OwnEventsAreNoArrivals
    <3> QED
      BY <3>1, <3>2
  <2> QED
    BY <2>1, <2>2, <2>3 DEF HandleArrival
<1>5. PICK s : scheduler' = ThenArrival(s, t) /\ Pending(s, "PACKET_ARRIVAL") = Arrivals \ {e}
  BY <1>4
<1>6. Arrivals' = Pending(ThenArrival(s, t), "PACKET_ARRIVAL")
  BY <1>5 DEF Arrivals
<1> QED
  BY <1>1, <1>3, <1>5, <1>6, OneMoreArrival

\* The other handlers leave the arrivals alone.
LEMMA OthersKeepArrivals ==
  ASSUME TypeOK, NEW e \in scheduler.queue,
         HandleDeparture(e) \/ HandleDrop(e) \/ \E s \in ServiceTimes : HandleServiceStart(e, s)
  PROVE  Arrivals' = Arrivals /\ PacketsCreated' = PacketsCreated
<1>1. e \notin Arrivals /\ PacketsCreated' = PacketsCreated
  BY DEF HandleDeparture, HandleDrop, HandleServiceStart, Arrivals, Pending, PacketsCreated
<1>2. Pending(Taken(e), "PACKET_ARRIVAL") = Arrivals
  BY <1>1, TakenArrivals
<1>3. \/ scheduler' = Taken(e)
      \/ \E u, p : scheduler' = AddEvent(Taken(e), Event(u, "PACKET_DEPARTURE", p))
      \/ \E u, p : scheduler' = AddEvent(Taken(e), Event(u, "PACKET_SERVICE_START", p))
  BY DEF HandleDeparture, DepartAndIdle, DepartAndStartNext, HandleDrop, HandleServiceStart,
         StartService, StartServiceRaises
<1> QED
  BY <1>1, <1>2, <1>3, OwnEventsAreNoArrivals DEF Arrivals

\* An arrival is handled, one is scheduled, or neither.
LEMMA ArrivalsNext ==
  ASSUME TypeOK, [Next]_vars
  PROVE  \/ \E e \in Arrivals :
              /\ \/ Arrivals' = Arrivals \ {e}
                 \/ ArrivalsLeft /\ \E x : Arrivals' = (Arrivals \ {e}) \cup {x}
              /\ PacketsCreated' = PacketsCreated + 1
         \/ /\ Arrivals' = Arrivals \/ (ArrivalsLeft /\ \E x : Arrivals' = Arrivals \cup {x})
            /\ PacketsCreated' = PacketsCreated
<1>1. ASSUME NEW e \in scheduler.queue, NEW t \in NextArrival(e.timestamp), HandleArrival(e, t)
      PROVE  /\ e \in Arrivals
             /\ \/ Arrivals' = Arrivals \ {e}
                \/ ArrivalsLeft /\ \E x : Arrivals' = (Arrivals \ {e}) \cup {x}
             /\ PacketsCreated' = PacketsCreated + 1
  <2>1. t # NoTime => ArrivalsLeft
    BY DEF NextArrival
  <2> QED
    BY <1>1, <2>1, ArrivalHandled
<1>2. ASSUME NEW d \in ArrivalDelays, ScheduleArrival(d)
      PROVE  /\ Arrivals' = Arrivals \/ (ArrivalsLeft /\ \E x : Arrivals' = Arrivals \cup {x})
             /\ PacketsCreated' = PacketsCreated
  BY <1>2, OneMoreArrival DEF ScheduleArrival, Arrivals, PacketsCreated
<1>3. CASE UNCHANGED vars
  BY <1>3 DEF vars, Arrivals, PacketsCreated
<1> QED
  BY <1>1, <1>2, <1>3, OthersKeepArrivals DEF Next, HandleEvent

\* An arrival that is handled becomes a packet, and one is scheduled within the
\* bound.
LEMMA BoundNext ==
  ASSUME TypeOK, BoundInv, [Next]_vars
  PROVE  BoundInv'
<1>1. /\ IsFiniteSet(Arrivals) /\ Cardinality(Arrivals) \in Nat /\ PacketsCreated \in Int
      /\ PacketsCreated + Cardinality(Arrivals) <= MaxPackets /\ MaxPackets \in Nat
      /\ ArrivalsLeft => PacketsCreated + Cardinality(Arrivals) < MaxPackets
  BY FS_CardinalityType, RouterAssumption
  DEF BoundInv, TypeOK, PacketsCreated, ArrivalsLeft, Arrivals
<1>2. ASSUME NEW S, IsFiniteSet(S), NEW x
      PROVE  /\ IsFiniteSet(S \cup {x})
             /\ Cardinality(S) \in Nat /\ Cardinality(S \cup {x}) \in Nat
             /\ Cardinality(S \cup {x}) <= Cardinality(S) + 1
  BY <1>2, FS_AddElement, FS_CardinalityType
<1>3. ASSUME NEW e \in Arrivals
      PROVE  /\ IsFiniteSet(Arrivals \ {e})
             /\ Cardinality(Arrivals \ {e}) = Cardinality(Arrivals) - 1
  BY <1>1, <1>3, FS_RemoveElement
<1>4. ASSUME NEW e \in Arrivals, PacketsCreated' = PacketsCreated + 1,
             Arrivals' = Arrivals \ {e}
      PROVE  BoundInv'
  BY <1>1, <1>3, <1>4 DEF BoundInv
<1>5. ASSUME NEW e \in Arrivals, PacketsCreated' = PacketsCreated + 1, ArrivalsLeft,
             NEW x, Arrivals' = (Arrivals \ {e}) \cup {x}
      PROVE  BoundInv'
  <2>1. /\ IsFiniteSet(Arrivals') /\ Cardinality(Arrivals') \in Nat
        /\ Cardinality(Arrivals') <= Cardinality(Arrivals \ {e}) + 1
        /\ Cardinality(Arrivals \ {e}) = Cardinality(Arrivals) - 1
    BY <1>2, <1>3, <1>5
  <2> QED
    BY <1>1, <1>5, <2>1 DEF BoundInv
<1>6. ASSUME PacketsCreated' = PacketsCreated, ArrivalsLeft,
             NEW x, Arrivals' = Arrivals \cup {x}
      PROVE  BoundInv'
  <2>1. /\ IsFiniteSet(Arrivals') /\ Cardinality(Arrivals') \in Nat
        /\ Cardinality(Arrivals') <= Cardinality(Arrivals) + 1
    BY <1>1, <1>2, <1>6
  <2> QED
    BY <1>1, <1>6, <2>1 DEF BoundInv
<1>7. ASSUME PacketsCreated' = PacketsCreated, Arrivals' = Arrivals
      PROVE  BoundInv'
  BY <1>7 DEF BoundInv
<1> QED
  BY <1>4, <1>5, <1>6, <1>7, ArrivalsNext

\* So there are never more packets than MaxPackets.
LEMMA BoundInvariant == Spec => []BoundInv
<1>1. Init => BoundInv
  <2>1. Init => Arrivals = {} /\ PacketsCreated = 0
    BY RouterAssumption DEF Init, EmptyScheduler, Arrivals, Pending, PacketsCreated
  <2> QED
    BY <2>1, FS_EmptySet, RouterAssumption DEF BoundInv
<1> QED
  BY <1>1, BoundNext, TypeCorrect, PTL DEF Spec
-----------------------------------------------------------------------------
\* The router is a single-server queue.

Claimed == Reserved \cup InService
Served == {p \in PacketIds : Departed(p)}

\* The ids of a step's packets are within the bound.
LEMMA IdsBounded ==
  ASSUME TypeOK', BoundInv'
  PROVE  PacketIds' \subseteq AllPackets
<1>1. PICK c : c = Cardinality(Arrivals')
  OBVIOUS
<1>2. PICK n : n = next_packet_id'
  OBVIOUS
<1>3. c \in Nat /\ PacketsCreated' + c <= MaxPackets
  BY <1>1, FS_CardinalityType DEF BoundInv
<1>4. n \in Nat /\ FirstPacketId \in Nat /\ MaxPackets \in Nat
  BY <1>2, RouterAssumption DEF TypeOK
<1>5. PacketsCreated' = n - FirstPacketId /\ PacketIds' = FirstPacketId .. n - 1
  BY <1>2 DEF PacketsCreated, PacketIds
<1>6. n - FirstPacketId <= MaxPackets
  BY <1>3, <1>4, <1>5
<1> QED
  BY <1>4, <1>5, <1>6 DEF AllPackets

\* What an arrival does to the queue, before it is decided what becomes of it.
LEMMA QueueArrives ==
  ASSUME TypeOK, TypeOK', PlaceInv, BoundInv', NEW fields, Arrives(fields),
         fields.departure_time = NoTime
  PROVE  /\ next_packet_id \in AllPackets
         /\ next_packet_id \notin Claimed \cup Served \cup Drops
         /\ \A i \in DOMAIN buffer : buffer[i] # next_packet_id
         /\ InService' = InService
         /\ Served' = Served
         /\ Drops' = IF fields.drop_time = NoTime THEN Drops ELSE Drops \cup {next_packet_id}
<1>0. PICK n : n = next_packet_id
  OBVIOUS
<1>1. /\ PacketIds' = PacketIds \cup {n} /\ n \notin PacketIds
      /\ packet'[n] = fields
      /\ \A p \in PacketIds : packet'[p] = packet[p]
      /\ InService' = InService
  BY <1>0, NewPacket
<1>2. n \in AllPackets
  BY <1>1, IdsBounded
<1>3. n \notin Claimed \cup Served \cup Drops
  BY <1>1 DEF PlaceInv, Claimed, Served, Drops
<1>4. \A i \in DOMAIN buffer : buffer[i] # n
  BY <1>1 DEF TypeOK
<1>5. Served' = Served
  BY <1>1 DEF Served, Departed
<1>6. Drops' = IF fields.drop_time = NoTime THEN Drops ELSE Drops \cup {n}
  BY <1>1 DEF Drops, Dropped
<1> QED
  BY <1>0, <1>1, <1>2, <1>3, <1>4, <1>5, <1>6

\* Each step of the packets is a step of the queue, or changes nothing in it: the
\* start of a service, which was claimed when it was reserved.
LEMMA QueueNext ==
  ASSUME TypeOK, TypeOK', PlaceInv, BoundInv', PacketStep
  PROVE  [LossQueue!Next]_(LossQueue!queue)
<1>1. /\ packet \in [PacketIds -> PacketFields] /\ now' # NoTime
      /\ Reserved \subseteq PacketIds /\ InService \subseteq PacketIds
  BY DEF TypeOK, PlaceInv, NoTime
<1>2. /\ LossQueue!Full <=> IsFull
      /\ \A p : LossQueue!New(p) <=> /\ p \notin Claimed \cup Served \cup Drops
                                     /\ \A i \in DOMAIN buffer : buffer[i] # p
  BY DEF LossQueue!Full, IsFull, LossQueue!New, Claimed, Served, Drops
<1>3. ASSUME NEW r \in Reasons, Loses(r)
      PROVE  LossQueue!Next
  <2>1. /\ Arrives(Lost(r)) /\ Lost(r).departure_time = NoTime /\ Lost(r).drop_time # NoTime
        /\ buffer' = buffer /\ Reserved' = Reserved
        /\ TRUE \in BaselineDrop \/ IsFull
    BY <1>1, <1>3, ReservedByStarts DEF Loses, Lost, Packet, Reasons
  <2>2. /\ next_packet_id \in AllPackets /\ LossQueue!New(next_packet_id)
        /\ Drops' = Drops \cup {next_packet_id} /\ Served' = Served /\ InService' = InService
    BY <1>2, <2>1, QueueArrives
  <2>3. LossQueue!Lose(next_packet_id)
    BY <1>2, <2>1, <2>2 DEF LossQueue!Lose, Claimed, Served, Drops
  <2> QED
    BY <2>2, <2>3 DEF LossQueue!Next
<1>4. ASSUME Accepts
      PROVE  /\ next_packet_id \in AllPackets /\ LossQueue!New(next_packet_id)
             /\ Drops' = Drops /\ Served' = Served /\ InService' = InService
             /\ ~LossQueue!Full
  <2>1. /\ Arrives(Packet(now')) /\ ~IsFull
        /\ Packet(now').departure_time = NoTime /\ Packet(now').drop_time = NoTime
    BY <1>4 DEF Accepts, Packet
  <2> QED
    BY <1>2, <2>1, QueueArrives
<1>5. CASE Waits
  <2>1. /\ Accepts /\ buffer' = Enqueued(next_packet_id) /\ Reserved' = Reserved
        /\ server.busy \/ Reserved # {}
    BY <1>5, ReservedByStarts DEF Waits
  <2>2. Claimed # {} /\ Claimed' = Claimed
    BY <1>4, <2>1 DEF Claimed, InService
  <2>3. LossQueue!Wait(next_packet_id)
    BY <1>4, <2>1, <2>2 DEF LossQueue!Wait, Enqueued, Claimed, Served, Drops
  <2> QED
    BY <1>4, <2>1, <2>3 DEF LossQueue!Next
<1>6. CASE Claims
  <2>1. /\ Accepts /\ buffer = <<>> /\ buffer' = <<>> /\ ~server.busy
        /\ Reserved = {} /\ Reserved' = {next_packet_id}
    BY <1>6, ReservedByStarts DEF Claims
  <2>2. Claimed = {} /\ Claimed' = {next_packet_id}
    BY <1>4, <2>1 DEF Claimed, InService
  <2>3. LossQueue!Claim(next_packet_id)
    BY <1>4, <2>1, <2>2 DEF LossQueue!Claim, Claimed, Served, Drops
  <2> QED
    BY <1>4, <2>1, <2>3 DEF LossQueue!Next
<1>7. ASSUME Claimed' = Claimed, PacketIds' = PacketIds, buffer' = buffer,
             \A p \in PacketIds : /\ packet'[p].departure_time = packet[p].departure_time
                                  /\ packet'[p].drop_time = packet[p].drop_time
      PROVE  UNCHANGED LossQueue!queue
  <2>1. Served' = Served /\ Drops' = Drops
    BY <1>7 DEF Served, Drops, Departed, Dropped
  <2> QED
    BY <1>7, <2>1 DEF LossQueue!queue, Claimed, Served, Drops
<1>8. ASSUME NEW e \in Starts, Begins(e)
      PROVE  UNCHANGED LossQueue!queue
  <2>1. /\ PacketIds' = PacketIds /\ buffer' = buffer
        /\ Reserved = {e.packet_id} /\ Reserved' = {}
        /\ InService = {} /\ InService' = {e.packet_id}
    BY <1>8, ReservedByStarts DEF Begins, CountersUnchanged, PacketIds, InService, Serving
  <2>2. \A p \in PacketIds : /\ packet'[p].departure_time = packet[p].departure_time
                             /\ packet'[p].drop_time = packet[p].drop_time
    BY <1>1, <1>8 DEF Begins, PacketFields
  <2> QED
    BY <1>7, <2>1, <2>2 DEF Claimed
<1>9. CASE Leaves
  <2>0. PICK n : n = server.current_packet
    OBVIOUS
  <2>1. /\ PacketIds' = PacketIds /\ Claimed = {n} /\ n \in PacketIds
        /\ packet' = [packet EXCEPT ![n].departure_time = now']
    <3>1. Reserved = {} /\ InService = {n}
      BY <1>9, <2>0, ReservedByStarts DEF Leaves, InService
    <3> QED
      BY <1>1, <1>9, <2>0, <3>1 DEF Leaves, CountersUnchanged, PacketIds, Claimed
  <2>2. Served' = Served \cup {n}
    <3>1. Departed(n)' /\ \A p \in PacketIds \ {n} : Departed(p)' <=> Departed(p)
      BY <1>1, <2>1 DEF Departed, PacketFields
    <3> QED
      BY <2>1, <3>1 DEF Served
  <2>3. Drops' = Drops
    <3>1. \A p \in PacketIds : Dropped(p)' <=> Dropped(p)
      BY <1>1, <2>1 DEF Dropped, PacketFields
    <3> QED
      BY <2>1, <3>1 DEF Drops
  <2>4. /\ Claimed' = IF buffer = <<>> THEN {} ELSE {Head(buffer)}
        /\ buffer' = IF buffer = <<>> THEN <<>> ELSE Tail(buffer)
    <3>1. InService' = {}
      BY <1>9 DEF Leaves, InService, IdleServer
    <3> QED
      BY <1>9, <3>1, ReservedByStarts DEF Leaves, Claimed
  <2>5. LossQueue!Finish(n)
    BY <2>1, <2>2, <2>3, <2>4 DEF LossQueue!Finish, Claimed, Served, Drops
  <2>6. n \in AllPackets
    BY <2>1, IdsBounded
  <2> QED
    BY <2>5, <2>6 DEF LossQueue!Next
<1>10. CASE Rests
  <2>1. /\ PacketIds' = PacketIds /\ buffer' = buffer /\ packet' = packet
        /\ Claimed' = Claimed
    BY <1>10, ReservedByStarts DEF Rests, CountersUnchanged, PacketIds, Claimed, InService
  <2> QED
    BY <1>7, <2>1
<1> QED
  BY <1>3, <1>5, <1>6, <1>8, <1>9, <1>10 DEF PacketStep

\* The router implements a single-server queue with a waiting room of limited size
\* and losses (router.py, manager.py, server.py).
THEOREM RouterIsLossQueue == Spec => LossQueueSpec
<1>1. Init => LossQueue!Init
  <2> SUFFICES ASSUME Init
               PROVE  LossQueue!Init
    OBVIOUS
  <2>1. PacketIds = {} /\ buffer = <<>>
    BY RouterAssumption DEF Init, PacketIds
  <2>2. Reserved = {} /\ InService = {}
    BY DEF Init, EmptyScheduler, IdleServer, Reserved, InService, Pending
  <2> QED
    BY <2>1, <2>2 DEF LossQueue!Init
<1>2. TypeOK /\ TypeOK' /\ FlagInv /\ PlaceInv /\ BoundInv' /\ [Next]_vars =>
        [LossQueue!Next]_(LossQueue!queue)
  BY StepsOfPackets, QueueNext
<1> QED
  BY <1>1, <1>2, TypeCorrect, FlagInvariant, PlaceInvariant, BoundInvariant, PTL
  DEF Spec, LossQueueSpec, LossQueue!Spec
=============================================================================
