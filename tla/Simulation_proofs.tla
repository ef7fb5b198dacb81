--------------------------- MODULE Simulation_proofs ---------------------------
(***************************************************************************)
(* One simulation run, for any horizon, service times, arrival delays and  *)
(* queue: what it does to the router are steps of the router, its records  *)
(* are the packets' history, it stops with no packet between two places,   *)
(* and the statistics of the records are those of the simulated system.    *)
(* The analytics walk the records one by one; what a walk computes is      *)
(* proved by induction over its length.                                    *)
(***************************************************************************)
EXTENDS SimulationStatistics, Router_proofs

-----------------------------------------------------------------------------
\* The first arrival is scheduled by anyone, the later ones by the caller of
\* the router; the collector and the loop change nothing of the router's.
LEMMA StepsOfRouter ==
  ASSUME [SimNext]_simVars
  PROVE  [Next]_vars
<1>1. ASSUME NEW d \in ArrivalDelays, OnStart(d)
      PROVE  [Next]_vars
  <2>1. CASE now + d <= simulation_time
    <3>1. ScheduleArrival(d)
      BY <1>1, <2>1 DEF OnStart, WithinBound, NextArrivalTime, ScheduleArrival
    <3> QED
      BY <3>1 DEF Next
  <2>2. CASE ~(now + d <= simulation_time)
    <3>1. scheduler' = scheduler
      BY <1>1, <2>2, NoArrival DEF OnStart, NextArrivalTime
    <3> QED
      BY <1>1, <3>1 DEF OnStart, vars, queueVars
  <2> QED
    BY <2>1, <2>2
<1>2. ASSUME NEW e \in scheduler.queue, NEW d \in ArrivalDelays, RecordArrival(e, d)
      PROVE  Next
  <2>1. NextArrivalTime(e.timestamp + d) \in NextArrival(e.timestamp)
    BY <1>2 DEF RecordArrival, WithinBound, NextArrivalTime, NextArrival
  <2> QED
    BY <1>2, <2>1 DEF RecordArrival, Running, HandleEvent, Next
<1>3. ASSUME NEW e \in scheduler.queue, NEW s \in ServiceTimes, RecordServiceStart(e, s)
      PROVE  Next
  BY <1>3 DEF RecordServiceStart, Running, HandleEvent, Next
<1>4. ASSUME NEW e \in scheduler.queue, RecordDeparture(e) \/ RecordDrop(e)
      PROVE  Next
  BY <1>4 DEF RecordDeparture, RecordDrop, Running, HandleEvent, Next
<1>5. CASE LeaveLoop \/ UNCHANGED simVars
  BY <1>5 DEF LeaveLoop, simVars
<1> QED
  BY <1>1, <1>2, <1>3, <1>4, <1>5 DEF SimNext

\* A simulation does to the router nothing but what Router.tla lets happen
\* (mm1_validation.py:219-269).
THEOREM SimulationIsRouter == SimSpec => ImplementsRouter
<1>1. SimInit => Init
  BY DEF SimInit
<1> QED
  BY <1>1, StepsOfRouter, PTL DEF SimSpec, ImplementsRouter, Spec

\* So all that is proved of the router holds in a simulation.
RouterInv == TypeOK /\ FlagInv /\ PlaceInv

\* The invariants of the router, in a simulation.
LEMMA RouterInvariant == SimSpec => []RouterInv
  BY SimulationIsRouter, TypeCorrect, FlagInvariant, PlaceInvariant, PTL
  DEF ImplementsRouter, RouterInv
-----------------------------------------------------------------------------
\* The pending drop events.

DropEvents == Pending(scheduler, "PACKET_DROP")
Undelivered == {e.packet_id : e \in DropEvents}

\* A drop event names a packet that was dropped at its time, and each packet is
\* named by one of them at most.
DropInv ==
  /\ \A e \in DropEvents :
       e.packet_id \in PacketIds /\ packet[e.packet_id].drop_time = e.timestamp
  /\ \A e, f \in DropEvents : e.packet_id = f.packet_id => e = f

\* The step of an arrival, with the event of the drop if there is one.
LosesAnd(x) ==
  /\ \E r \in Reasons : Loses(r)
  /\ x.packet_id = next_packet_id /\ x.timestamp = now'
  /\ DropEvents' = DropEvents \cup {x}

\* The handler of arrivals loses a packet and schedules its drop, or accepts it.
LEMMA ArrivalDrops ==
  ASSUME TypeOK, FlagInv, NEW e \in scheduler.queue, Take(e),
         NEW t \in NextArrival(e.timestamp), HandleArrival(e, t)
  PROVE  /\ (\E x : LosesAnd(x)) \/ ((Waits \/ Claims) /\ DropEvents' = DropEvents)
         /\ raised' = raised
<1>1. /\ e.timestamp \in Nat /\ now' = e.timestamp
      /\ e \notin DropEvents /\ NothingInThePast /\ packets_dropped \in Nat
  BY TakenType DEF Take, HandleArrival, DropEvents, Pending, FlagInv, TypeOK
<1>2. PacketIds \subseteq PacketIds' /\ next_packet_id \in PacketIds'
  <2>1. next_packet_id' = next_packet_id + 1
    BY DEF HandleArrival, DropBaseline, DropQueueFull, Drop, EnqueueAndWait, EnqueueAndStart,
           Admit, Create
  <2> QED
    BY <2>1, RouterAssumption DEF TypeOK, PacketIds
<1>3. (\E r \in Reasons : Loses(r)) \/ Waits \/ Claims
  BY ArrivalIsStep
<1>4. /\ (\E r \in Reasons : Loses(r)) => packets_dropped' = packets_dropped + 1
      /\ Waits \/ Claims => packets_dropped' = packets_dropped
  BY DEF Loses, Waits, Claims, Accepts
<1>5. raised' = raised
  BY DEF HandleArrival, DropBaseline, DropQueueFull, Drop, EnqueueAndWait, EnqueueAndStart, Admit
<1>6. CASE \E r \in Reasons : Drop(e, r, t)
  <2> DEFINE d == Event(e.timestamp, "PACKET_DROP", next_packet_id)
             x == Stamp(Taken(e), d)
             s == ThenArrival(AddEvent(Taken(e), d), t)
  <2>1. scheduler' = s /\ packets_dropped' = packets_dropped + 1
    BY <1>6 DEF Drop
  <2>2. /\ "PACKET_DROP" \in EventType /\ next_packet_id \in PacketIds' \cup {NoPacket}
        /\ e.timestamp >= e.timestamp
    BY <1>1, <1>2, TypesDiffer
  <2>3. Pending(s, "PACKET_DROP") = (DropEvents \ {e}) \cup {x}
    BY <1>1, <1>2, <2>2, StepAdds, TypesDiffer DEF DropEvents
  <2>4. x.packet_id = next_packet_id /\ x.timestamp = e.timestamp
    BY DEF Stamp, Event
  <2> HIDE DEF s, x
  <2>5. DropEvents' = DropEvents \cup {x}
    BY <1>1, <2>1, <2>3 DEF DropEvents
  <2>6. \E r \in Reasons : Loses(r)
    BY <1>1, <1>3, <1>4, <2>1
  <2> QED
    BY <1>1, <1>5, <2>4, <2>5, <2>6 DEF LosesAnd
<1>7. CASE EnqueueAndWait(e, t)
  <2>1. scheduler' = ThenArrival(Taken(e), t) /\ packets_dropped' = packets_dropped
    BY <1>7 DEF EnqueueAndWait, Admit
  <2>2. Pending(ThenArrival(Taken(e), t), "PACKET_DROP") = DropEvents \ {e}
    BY <1>1, StepTakes, TypesDiffer DEF DropEvents
  <2>3. DropEvents' = DropEvents
    BY <1>1, <2>1, <2>2 DEF DropEvents
  <2> QED
    BY <1>1, <1>3, <1>4, <1>5, <2>1, <2>3
<1>8. CASE EnqueueAndStart(e, t)
  <2> DEFINE q == Head(Enqueued(next_packet_id))
             d == Event(e.timestamp, "PACKET_SERVICE_START", q)
             s == ThenArrival(AddEvent(Taken(e), d), t)
  <2>1. scheduler' = s /\ packets_dropped' = packets_dropped
    BY <1>8 DEF EnqueueAndStart, Admit
  <2>2. q \in PacketIds'
    BY <1>2, MoreIds, EnqueuedType
  <2> HIDE DEF q
  <2>3. Pending(s, "PACKET_DROP") = DropEvents \ {e}
    <3>1. /\ "PACKET_SERVICE_START" \in EventType /\ q \in PacketIds' \cup {NoPacket}
          /\ e.timestamp >= e.timestamp
      BY <1>1, <2>2, TypesDiffer
    <3> QED
      BY <1>1, <1>2, <3>1, StepAdds, TypesDiffer DEF DropEvents
  <2> HIDE DEF s
  <2>4. DropEvents' = DropEvents
    BY <1>1, <2>1, <2>3 DEF DropEvents
  <2> QED
    BY <1>1, <1>3, <1>4, <1>5, <2>1, <2>4
<1> QED
  BY <1>6, <1>7, <1>8 DEF HandleArrival, DropBaseline, DropQueueFull, Reasons

\* The starts and the ends of services leave the drop events alone.
LEMMA ServiceKeepsDrops ==
  ASSUME TypeOK, FlagInv, NEW e \in scheduler.queue, Take(e),
         HandleDeparture(e) \/ \E s \in ServiceTimes : HandleServiceStart(e, s)
  PROVE  DropEvents' = DropEvents
<1>1. /\ e.timestamp \in Nat /\ e.packet_id \in PacketIds \cup {NoPacket}
      /\ e \notin DropEvents /\ NothingInThePast /\ PacketIds' = PacketIds
  BY TakenType
  DEF HandleDeparture, HandleServiceStart, DropEvents, Pending, FlagInv, PacketIds
<1>2. CASE scheduler' = Taken(e)
  <2>1. Pending(ThenArrival(Taken(e), NoTime), "PACKET_DROP") = DropEvents \ {e}
    BY <1>1, StepTakes, NoArrival, TypesDiffer DEF DropEvents
  <2> QED
    BY <1>1, <1>2, <2>1, NoArrival DEF DropEvents
<1>3. ASSUME NEW u \in Nat, u >= e.timestamp, NEW p \in PacketIds' \cup {NoPacket},
             NEW added \in {"PACKET_SERVICE_START", "PACKET_DEPARTURE"},
             added = "PACKET_SERVICE_START" => u = e.timestamp,
             scheduler' = AddEvent(Taken(e), Event(u, added, p))
      PROVE  DropEvents' = DropEvents
  <2> DEFINE q == ThenArrival(AddEvent(Taken(e), Event(u, added, p)), NoTime)
  <2>1. /\ added \in EventType /\ added # "PACKET_DROP" /\ PacketIds \subseteq PacketIds'
        /\ added \in {"PACKET_SERVICE_START", "PACKET_DROP"} => u = e.timestamp
    BY <1>1, <1>3, TypesDiffer
  <2>2. Pending(q, "PACKET_DROP") = DropEvents \ {e}
    BY <1>1, <1>3, <2>1, StepAdds, NoArrival, TypesDiffer DEF DropEvents
  <2>3. scheduler' = q
    BY <1>3, NoArrival
  <2> HIDE DEF q
  <2> QED
    BY <1>1, <2>2, <2>3 DEF DropEvents
<1>4. ASSUME NEW s \in ServiceTimes, HandleServiceStart(e, s)
      PROVE  DropEvents' = DropEvents
  <2>1. CASE StartService(e, s)
    <3>1. e.timestamp + s \in Nat /\ e.timestamp + s >= e.timestamp
      BY <1>1, <2>1, RouterAssumption DEF StartService
    <3> QED
      BY <1>1, <1>3, <2>1, <3>1 DEF StartService
  <2> QED
    BY <1>2, <1>4, <2>1 DEF HandleServiceStart, StartServiceRaises
<1>5. CASE HandleDeparture(e)
  <2>1. CASE DepartAndStartNext(e)
    <3>1. Head(buffer) \in PacketIds' \cup {NoPacket} /\ e.timestamp >= e.timestamp
      BY <1>1, <2>1 DEF DepartAndStartNext, StartsNext, TypeOK
    <3> QED
      BY <1>1, <1>3, <2>1, <3>1 DEF DepartAndStartNext
  <2> QED
    BY <1>2, <1>5, <2>1 DEF HandleDeparture, DepartAndIdle
<1> QED
  BY <1>4, <1>5

\* The event of a drop is taken.
LEMMA DropTaken ==
  ASSUME TypeOK, FlagInv, NEW e \in scheduler.queue, Take(e), HandleDrop(e)
  PROVE  Rests /\ e \in DropEvents /\ DropEvents' = DropEvents \ {e}
<1>1. /\ scheduler' = ThenArrival(Taken(e), NoTime) /\ e \notin Starts /\ e \in DropEvents
      /\ NothingInThePast
  BY NoArrival DEF HandleDrop, Starts, DropEvents, Pending, FlagInv
<1>2. Pending(ThenArrival(Taken(e), NoTime), "PACKET_SERVICE_START") = Starts \ {e}
  BY <1>1, StepTakes, NoArrival, TypesDiffer DEF Starts
<1>3. Pending(ThenArrival(Taken(e), NoTime), "PACKET_DROP") = DropEvents \ {e}
  BY <1>1, StepTakes, NoArrival, TypesDiffer DEF DropEvents
<1>4. Starts' = Starts /\ DropEvents' = DropEvents \ {e}
  BY <1>1, <1>2, <1>3 DEF Starts, DropEvents
<1> QED
  BY <1>1, <1>4 DEF HandleDrop, queueVars, Rests, CountersUnchanged

\* So is the first arrival no drop.
LEMMA FirstArrivalKeepsDrops ==
  ASSUME TypeOK, NEW d \in ArrivalDelays, OnStart(d)
  PROVE  DropEvents' = DropEvents
<1>1. PICK t : t = NextArrivalTime(now + d)
  OBVIOUS
<1>2. IsScheduler(scheduler, Nat, PacketIds) /\ t \in Nat \cup {NoTime}
  BY <1>1, RouterAssumption DEF TypeOK, NextArrivalTime
<1>3. scheduler' = ThenArrival(scheduler, t)
  BY <1>1 DEF OnStart
<1>4. Pending(ThenArrival(scheduler, t), "PACKET_DROP") = Pending(scheduler, "PACKET_DROP")
  BY <1>2, ThenArrivalProperties, TypesDiffer
<1> QED
  BY <1>3, <1>4 DEF DropEvents

\* A drop event is added when its packet is lost, and taken.
LEMMA DropsNext ==
  ASSUME TypeOK, FlagInv, [SimNext]_simVars
  PROVE  \/ DropEvents' \subseteq DropEvents
         \/ \E x : LosesAnd(x)
<1>1. ASSUME NEW e \in scheduler.queue, NEW d \in ArrivalDelays, RecordArrival(e, d)
      PROVE  DropEvents' = DropEvents \/ \E x : LosesAnd(x)
  <2>1. PICK t \in NextArrival(e.timestamp) : HandleArrival(e, t) /\ Take(e)
    BY <1>1 DEF RecordArrival, WithinBound, NextArrivalTime, NextArrival, Running
  <2> QED
    BY <2>1, ArrivalDrops
<1>2. ASSUME NEW e \in scheduler.queue,
             RecordDeparture(e) \/ \E s \in ServiceTimes : RecordServiceStart(e, s)
      PROVE  DropEvents' = DropEvents
  BY <1>2, ServiceKeepsDrops DEF RecordDeparture, RecordServiceStart, Running
<1>3. ASSUME NEW e \in scheduler.queue, RecordDrop(e)
      PROVE  DropEvents' \subseteq DropEvents
  BY <1>3, DropTaken DEF RecordDrop, Running
<1>4. CASE LeaveLoop \/ UNCHANGED simVars
  BY <1>4 DEF LeaveLoop, simVars, vars, DropEvents
<1> QED
  BY <1>1, <1>2, <1>3, <1>4, FirstArrivalKeepsDrops DEF SimNext

\* Every step keeps the drop events to the packets that were dropped.
LEMMA DropNext ==
  ASSUME RouterInv, RouterInv', DropInv, [SimNext]_simVars
  PROVE  DropInv'
<1>1. /\ TypeOK /\ FlagInv /\ PlaceInv /\ PacketStep
      /\ PacketIds \subseteq PacketIds'
      /\ \A p \in PacketIds : packet'[p].drop_time = packet[p].drop_time
  BY StepsOfRouter, StepsOfPackets, HistoryKept DEF RouterInv
<1>2. CASE DropEvents' \subseteq DropEvents
  BY <1>1, <1>2 DEF DropInv
<1>3. ASSUME NEW x, LosesAnd(x)
      PROVE  DropInv'
  <2>1. PICK fields : Arrives(fields) /\ fields.drop_time = now'
    <3>1. PICK r \in Reasons : Arrives(Lost(r))
      BY <1>3 DEF LosesAnd, Loses
    <3>2. Lost(r).drop_time = now'
      BY DEF Lost, Packet
    <3> QED
      BY <3>1, <3>2
  <2>2. PICK n : n = next_packet_id
    OBVIOUS
  <2>3. /\ PacketIds' = PacketIds \cup {n} /\ n \notin PacketIds
        /\ packet'[n].drop_time = now'
    BY <1>1, <2>1, <2>2, NewPacket
  <2>4. x.packet_id = n /\ x.timestamp = now' /\ DropEvents' = DropEvents \cup {x}
    BY <1>3, <2>2 DEF LosesAnd
  <2>5. \A f \in DropEvents : f.packet_id # x.packet_id
    BY <2>3, <2>4 DEF DropInv
  <2> QED
    BY <1>1, <2>3, <2>4, <2>5 DEF DropInv
<1> QED
  BY <1>1, <1>2, <1>3, DropsNext

\* So they name dropped packets, each one once, always.
LEMMA DropInvariant == SimSpec => []DropInv
<1>1. SimInit => DropInv
  <2>1. SimInit => DropEvents = {}
    BY DEF SimInit, Init, EmptyScheduler, DropEvents, Pending
  <2> QED
    BY <2>1 DEF DropInv
<1> QED
  BY <1>1, DropNext, RouterInvariant, PTL DEF SimSpec
-----------------------------------------------------------------------------
\* The records as the history of the packets.

\* The time at which the records tell of kind and packet p, from the packets.
Told(kind, p) ==
  IF p \notin PacketIds THEN NoTime
  ELSE CASE kind = "ARRIVAL" -> packet[p].arrival_time
         [] kind = "SERVICE_START" -> packet[p].service_start_time
         [] kind = "DEPARTURE" -> packet[p].departure_time
         [] kind = "DROP" -> IF p \in Undelivered THEN NoTime ELSE packet[p].drop_time

\* A step in which one thing more is to be told, of kind and packet p, or none.
NowToldOf(kind, p) ==
  /\ kind \in Kinds /\ p \in PacketIds'
  /\ Told(kind, p) = NoTime /\ Told(kind, p)' = now'
  /\ \A k \in Kinds : \A q : k # kind \/ q # p => Told(k, q)' = Told(k, q)

NothingTold == \A k \in Kinds : \A q : Told(k, q)' = Told(k, q)

\* The packets whose drop is pending change with the drop events.
LEMMA UndeliveredBy ==
  /\ DropEvents' = DropEvents => Undelivered' = Undelivered
  /\ \A x : DropEvents' = DropEvents \cup {x} => Undelivered' = Undelivered \cup {x.packet_id}
  BY DEF Undelivered

\* An arrival is told of, and nothing else: a drop will be when its event fires.
LEMMA ArrivalTold ==
  ASSUME TypeOK, DropInv, NEW n, n = next_packet_id,
         (\E x : LosesAnd(x)) \/ ((Waits \/ Claims) /\ DropEvents' = DropEvents)
  PROVE  NowToldOf("ARRIVAL", n)
<1>1. PICK fields :
        /\ Arrives(fields)
        /\ fields.arrival_time = now' /\ fields.service_start_time = NoTime
        /\ fields.departure_time = NoTime
        /\ \/ fields.drop_time = NoTime /\ Undelivered' = Undelivered
           \/ Undelivered' = Undelivered \cup {n}
  <2>1. CASE \E x : LosesAnd(x)
    <3>1. PICK r \in Reasons : Loses(r)
      BY <2>1 DEF LosesAnd
    <3>2. Undelivered' = Undelivered \cup {n}
      BY <2>1, UndeliveredBy DEF LosesAnd
    <3> QED
      BY <3>1, <3>2 DEF Loses, Lost, Packet
  <2>2. CASE (Waits \/ Claims) /\ DropEvents' = DropEvents
    BY <2>2, UndeliveredBy DEF Waits, Claims, Accepts, Packet
  <2> QED
    BY <2>1, <2>2
<1>2. /\ PacketIds' = PacketIds \cup {n} /\ n \notin PacketIds /\ packet'[n] = fields
      /\ \A p \in PacketIds : packet'[p] = packet[p]
  BY <1>1, NewPacket
<1>3. \A p : p # n => (p \in Undelivered' <=> p \in Undelivered)
  BY <1>1
<1>4. n \notin Undelivered
  BY <1>2 DEF DropInv, Undelivered
<1>5. \A k : Told(k, n) = NoTime
  BY <1>2 DEF Told
<1>6. /\ Told("ARRIVAL", n)' = now'
      /\ \A k \in Kinds : k # "ARRIVAL" => Told(k, n)' = NoTime
  BY <1>1, <1>2, <1>4 DEF Told, Kinds
<1>7. \A k \in Kinds : \A q : q # n => Told(k, q)' = Told(k, q)
  BY <1>2, <1>3 DEF Told, Kinds
<1> QED
  BY <1>2, <1>5, <1>6, <1>7 DEF NowToldOf, Kinds

\* The start of a service is told of.
LEMMA StartTold ==
  ASSUME TypeOK, PlaceInv, DropEvents' = DropEvents, NEW e \in Starts, Begins(e)
  PROVE  NowToldOf("SERVICE_START", e.packet_id)
<1> DEFINE n == e.packet_id
<1>1. /\ PacketIds' = PacketIds /\ Reserved = {n} /\ Undelivered' = Undelivered
      /\ packet' = [packet EXCEPT ![n].service_start_time = now']
  BY ReservedByStarts, UndeliveredBy DEF Begins, CountersUnchanged, PacketIds
<1>2. n \in PacketIds /\ ~Started(n) /\ packet \in [PacketIds -> PacketFields]
  BY <1>1 DEF PlaceInv, PacketInOnePlace, TypeOK
<1> HIDE DEF n
<1>3. /\ packet'[n].service_start_time = now'
      /\ packet'[n].arrival_time = packet[n].arrival_time
      /\ packet'[n].departure_time = packet[n].departure_time
      /\ packet'[n].drop_time = packet[n].drop_time
      /\ \A p \in PacketIds \ {n} : packet'[p] = packet[p]
  BY <1>1, <1>2 DEF PacketFields
<1>4. Told("SERVICE_START", n) = NoTime /\ Told("SERVICE_START", n)' = now'
  BY <1>1, <1>2, <1>3 DEF Told, Started
<1>5. \A k \in Kinds : k # "SERVICE_START" => Told(k, n)' = Told(k, n)
  BY <1>1, <1>2, <1>3 DEF Told, Kinds
<1>6. \A k \in Kinds : \A q : q # n => Told(k, q)' = Told(k, q)
  BY <1>1, <1>3 DEF Told, Kinds
<1>7. NowToldOf("SERVICE_START", n)
  BY <1>1, <1>2, <1>4, <1>5, <1>6 DEF NowToldOf, Kinds
<1> QED
  BY <1>7 DEF n

\* The departure of the packet in the server is told of.
LEMMA DepartureTold ==
  ASSUME TypeOK, PlaceInv, DropEvents' = DropEvents, Leaves, NEW n, n = server.current_packet
  PROVE  NowToldOf("DEPARTURE", n)
<1>1. /\ PacketIds' = PacketIds /\ InService = {n} /\ Undelivered' = Undelivered
      /\ packet' = [packet EXCEPT ![n].departure_time = now']
  BY UndeliveredBy DEF Leaves, CountersUnchanged, PacketIds, InService
<1>2. n \in PacketIds /\ ~Departed(n) /\ packet \in [PacketIds -> PacketFields]
  BY <1>1 DEF PlaceInv, PacketInOnePlace, TypeOK
<1>3. /\ packet'[n].departure_time = now'
      /\ packet'[n].arrival_time = packet[n].arrival_time
      /\ packet'[n].service_start_time = packet[n].service_start_time
      /\ packet'[n].drop_time = packet[n].drop_time
      /\ \A p \in PacketIds \ {n} : packet'[p] = packet[p]
  BY <1>1, <1>2 DEF PacketFields
<1>4. Told("DEPARTURE", n) = NoTime /\ Told("DEPARTURE", n)' = now'
  BY <1>1, <1>2, <1>3 DEF Told, Departed
<1>5. \A k \in Kinds : k # "DEPARTURE" => Told(k, n)' = Told(k, n)
  BY <1>1, <1>2, <1>3 DEF Told, Kinds
<1>6. \A k \in Kinds : \A q : q # n => Told(k, q)' = Told(k, q)
  BY <1>1, <1>3 DEF Told, Kinds
<1> QED
  BY <1>1, <1>2, <1>4, <1>5, <1>6 DEF NowToldOf, Kinds

\* A drop is told of at its own time: no other event names the packet, and time
\* has not passed since.
LEMMA DropTold ==
  ASSUME TypeOK, DropInv, Rests, NEW e \in DropEvents, DropEvents' = DropEvents \ {e},
         now' = e.timestamp
  PROVE  NowToldOf("DROP", e.packet_id)
<1> DEFINE n == e.packet_id
<1>1. /\ PacketIds' = PacketIds /\ packet' = packet
      /\ n \in PacketIds /\ packet[n].drop_time = now' /\ n \in Undelivered
  BY DEF Rests, CountersUnchanged, PacketIds, DropInv, Undelivered
<1>2. \A f \in DropEvents : f # e => f.packet_id # n
  BY DEF DropInv
<1>3. n \notin Undelivered' /\ \A p : p # n => (p \in Undelivered' <=> p \in Undelivered)
  BY <1>2 DEF Undelivered
<1> HIDE DEF n
<1>4. Told("DROP", n) = NoTime /\ Told("DROP", n)' = now'
  BY <1>1, <1>3 DEF Told
<1>5. \A k \in Kinds : k # "DROP" => Told(k, n)' = Told(k, n)
  BY <1>1 DEF Told, Kinds
<1>6. \A k \in Kinds : \A q : q # n => Told(k, q)' = Told(k, q)
  BY <1>1, <1>3 DEF Told, Kinds
<1>7. NowToldOf("DROP", n)
  BY <1>1, <1>4, <1>5, <1>6 DEF NowToldOf, Kinds
<1> QED
  BY <1>7 DEF n

\* Nothing else is told of.
LEMMA RestTold ==
  ASSUME packet' = packet, next_packet_id' = next_packet_id, DropEvents' = DropEvents
  PROVE  NothingTold
  BY UndeliveredBy DEF NothingTold, Told, PacketIds

\* Records that say t of kind and packet p: none if t is no time, else one.
Indices(s, kind, p) == {i \in DOMAIN s : s[i].kind = kind /\ s[i].packet_id = p}

Said(s, kind, p, t) ==
  IF t = NoTime THEN Indices(s, kind, p) = {}
  ELSE \E i \in DOMAIN s : Indices(s, kind, p) = {i} /\ s[i].timestamp = t

\* One record more says one thing more.
LEMMA OneRecordMore ==
  ASSUME NEW S, NEW s \in Seq(S), NEW x \in S
  PROVE  /\ \A kind, p, t : (kind # x.kind \/ p # x.packet_id) /\ Said(s, kind, p, t)
                              => Said(Append(s, x), kind, p, t)
         /\ Said(s, x.kind, x.packet_id, NoTime) /\ x.timestamp # NoTime
              => Said(Append(s, x), x.kind, x.packet_id, x.timestamp)
<1> DEFINE q == Append(s, x)
           n == Len(s) + 1
<1>1. /\ DOMAIN q = DOMAIN s \cup {n} /\ n \notin DOMAIN s
      /\ \A i \in DOMAIN s : q[i] = s[i]
      /\ q[n] = x
  OBVIOUS
<1> HIDE DEF q, n
<1>2. ASSUME NEW kind, NEW p, NEW t, kind # x.kind \/ p # x.packet_id, Said(s, kind, p, t)
      PROVE  Said(q, kind, p, t)
  <2>1. Indices(q, kind, p) = Indices(s, kind, p)
    BY <1>1, <1>2 DEF Indices
  <2> QED
    BY <1>1, <1>2, <2>1 DEF Said
<1>3. ASSUME Said(s, x.kind, x.packet_id, NoTime), x.timestamp # NoTime
      PROVE  Said(q, x.kind, x.packet_id, x.timestamp)
  <2>1. Indices(s, x.kind, x.packet_id) = {}
    BY <1>3 DEF Said
  <2>2. Indices(q, x.kind, x.packet_id) = {n}
    BY <1>1, <2>1 DEF Indices
  <2> QED
    BY <1>1, <1>3, <2>2 DEF Said
<1> QED
  BY <1>2, <1>3 DEF q

\* A sequence over a set is one over a larger set.
LEMMA SeqOfMore ==
  ASSUME NEW S, NEW T, S \subseteq T, NEW s \in Seq(S)
  PROVE  s \in Seq(T)
  OBVIOUS

Records == [timestamp : Nat, kind : Kinds, packet_id : PacketIds]

\* Every step records what it has changed in the packets, unless it raised.
Tells ==
  \/ NothingTold /\ records' = records
  \/ \E kind \in Kinds, p \in PacketIds' :
       /\ NowToldOf(kind, p)
       /\ records' = Append(records, [timestamp |-> now', kind |-> kind, packet_id |-> p])
  \/ records' = records /\ loop' = "raised"

\* Whatever a step changes in the packets is recorded, unless it raised.
LEMMA StepsTell ==
  ASSUME RouterInv, RouterInv', DropInv, [SimNext]_simVars
  PROVE  Tells
<1>1. /\ TypeOK /\ FlagInv /\ PlaceInv
  BY DEF RouterInv
<1>2. ASSUME NEW d \in ArrivalDelays, OnStart(d)
      PROVE  Tells
  <2>1. DropEvents' = DropEvents
    BY <1>1, <1>2, FirstArrivalKeepsDrops
  <2> QED
    BY <1>2, <2>1, RestTold DEF OnStart, Tells
<1>3. ASSUME NEW e \in scheduler.queue, NEW d \in ArrivalDelays, RecordArrival(e, d)
      PROVE  Tells
  <2>1. PICK t \in NextArrival(e.timestamp) : HandleArrival(e, t) /\ Take(e)
    BY <1>3 DEF RecordArrival, WithinBound, NextArrivalTime, NextArrival, Running
  <2>2. PICK n : n = next_packet_id
    OBVIOUS
  <2>3. NowToldOf("ARRIVAL", n) /\ raised' = raised
    BY <1>1, <2>1, <2>2, ArrivalDrops, ArrivalTold
  <2>4. records' = Append(records, [timestamp |-> now', kind |-> "ARRIVAL", packet_id |-> n])
    BY <1>3, <2>2, <2>3 DEF RecordArrival, Record, Running, Take
  <2> QED
    BY <2>3, <2>4 DEF Tells, NowToldOf
<1>4. ASSUME NEW e \in scheduler.queue, NEW s \in ServiceTimes, RecordServiceStart(e, s)
      PROVE  Tells
  <2>1. HandleServiceStart(e, s) /\ Take(e)
    BY <1>4 DEF RecordServiceStart, Running
  <2>2. e \in Starts /\ Begins(e) /\ DropEvents' = DropEvents
    BY <1>1, <2>1, ServiceStartIsStep, ServiceKeepsDrops
  <2>3. NowToldOf("SERVICE_START", e.packet_id)
    BY <1>1, <2>2, StartTold
  <2>4. \/ records' = Append(records, [timestamp |-> now', kind |-> "SERVICE_START",
                                       packet_id |-> e.packet_id])
        \/ records' = records /\ loop' = "raised"
    BY <1>4 DEF RecordServiceStart, Record, Running, Take
  <2> QED
    BY <2>3, <2>4 DEF Tells, NowToldOf
<1>5. ASSUME NEW e \in scheduler.queue, RecordDeparture(e)
      PROVE  Tells
  <2>1. HandleDeparture(e) /\ Take(e)
    BY <1>5 DEF RecordDeparture, Running
  <2>2. Leaves /\ DropEvents' = DropEvents
    BY <1>1, <2>1, DepartureIsStep, ServiceKeepsDrops
  <2>3. PICK n : n = server.current_packet
    OBVIOUS
  <2>4. NowToldOf("DEPARTURE", n)
    BY <1>1, <2>2, <2>3, DepartureTold
  <2>5. \/ records' = Append(records, [timestamp |-> now', kind |-> "DEPARTURE", packet_id |-> n])
        \/ records' = records /\ loop' = "raised"
    BY <1>5, <2>3 DEF RecordDeparture, Record, Running, Take
  <2> QED
    BY <2>4, <2>5 DEF Tells, NowToldOf
<1>6. ASSUME NEW e \in scheduler.queue, RecordDrop(e)
      PROVE  Tells
  <2>1. HandleDrop(e) /\ Take(e) /\ now' = e.timestamp
    BY <1>6 DEF RecordDrop, Running, Take
  <2>2. Rests /\ e \in DropEvents /\ DropEvents' = DropEvents \ {e}
    BY <1>1, <2>1, DropTaken
  <2>3. NowToldOf("DROP", e.packet_id)
    BY <1>1, <2>1, <2>2, DropTold
  <2>4. \/ records' = Append(records, [timestamp |-> now', kind |-> "DROP",
                                       packet_id |-> e.packet_id])
        \/ records' = records /\ loop' = "raised"
    BY <1>6, <2>1 DEF RecordDrop, Record
  <2> QED
    BY <2>3, <2>4 DEF Tells, NowToldOf
<1>7. CASE LeaveLoop \/ UNCHANGED simVars
  <2>1. packet' = packet /\ next_packet_id' = next_packet_id /\ DropEvents' = DropEvents
        /\ records' = records
    BY <1>7 DEF LeaveLoop, simVars, vars, DropEvents
  <2> QED
    BY <2>1, RestTold DEF Tells
<1> QED
  BY <1>2, <1>3, <1>4, <1>5, <1>6, <1>7 DEF SimNext

\* While nothing has been raised, the records say what the packets tell.
MatchInv == loop # "raised" => \A kind \in Kinds : \A p : Said(records, kind, p, Told(kind, p))

\* Every record is of a packet that exists.
LEMMA RecordsType ==
  ASSUME RouterInv, RouterInv', records \in Seq(Records), Tells, [SimNext]_simVars
  PROVE  records' \in Seq(Records')
<1>1. TypeOK /\ TypeOK' /\ FlagInv /\ PlaceInv /\ now' \in Nat
  BY DEF RouterInv, TypeOK
<1>2. PacketIds \subseteq PacketIds'
  BY <1>1, StepsOfRouter, StepsOfPackets, HistoryKept
<1>3. records \in Seq(Records')
  <2>1. Records \subseteq Records'
    BY <1>2 DEF Records
  <2> QED
    BY <2>1, SeqOfMore
<1>4. ASSUME NEW kind \in Kinds, NEW p \in PacketIds'
      PROVE  [timestamp |-> now', kind |-> kind, packet_id |-> p] \in Records'
  BY <1>1 DEF Records
<1>5. ASSUME NEW x \in Records', records' = Append(records, x)
      PROVE  records' \in Seq(Records')
  BY <1>3, <1>5
<1> QED
  BY <1>3, <1>4, <1>5 DEF Tells, NowToldOf

\* Every step keeps the records and the packets in agreement.
LEMMA MatchNext ==
  ASSUME RouterInv, RouterInv', records \in Seq(Records), MatchInv, Tells, [SimNext]_simVars
  PROVE  MatchInv'
<1>1. now' # NoTime /\ now' \in Nat
  BY DEF RouterInv, TypeOK, NoTime
<1>2. loop' # "raised" => loop # "raised"
  BY DEF SimNext, OnStart, RecordArrival, RecordServiceStart, RecordDeparture, RecordDrop,
         Running, LeaveLoop, simVars
<1>3. CASE NothingTold /\ records' = records
  BY <1>2, <1>3 DEF NothingTold, MatchInv
<1>4. ASSUME NEW kind \in Kinds, NEW p \in PacketIds', NowToldOf(kind, p),
             records' = Append(records, [timestamp |-> now', kind |-> kind, packet_id |-> p]),
             loop # "raised"
      PROVE  MatchInv'
  <2> DEFINE S == [timestamp : Nat, kind : Kinds, packet_id : PacketIds \cup PacketIds']
             x == [timestamp |-> now', kind |-> kind, packet_id |-> p]
  <2>1. records \in Seq(S)
    <3>1. Records \subseteq S
      BY DEF Records
    <3> QED
      BY <3>1, SeqOfMore
  <2>2. /\ x \in S
        /\ x.timestamp = now' /\ x.kind = kind /\ x.packet_id = p /\ records' = Append(records, x)
    BY <1>1, <1>4
  <2> HIDE DEF S, x
  <2>3. /\ \A k \in Kinds : \A q : k # kind \/ q # p =>
             (Said(records, k, q, Told(k, q)) => Said(records', k, q, Told(k, q)))
        /\ Said(records, kind, p, NoTime) => Said(records', kind, p, now')
    BY <1>1, <2>1, <2>2, OneRecordMore
  <2>4. ASSUME NEW k \in Kinds, NEW q
        PROVE  Said(records', k, q, Told(k, q)')
    <3>1. CASE k = kind /\ q = p
      BY <1>4, <2>3, <3>1 DEF NowToldOf, MatchInv
    <3>2. CASE k # kind \/ q # p
      BY <1>4, <2>3, <3>2 DEF NowToldOf, MatchInv
    <3> QED
      BY <3>1, <3>2
  <2> QED
    BY <2>4 DEF MatchInv
<1>5. CASE loop' = "raised"
  BY <1>5 DEF MatchInv
<1> QED
  BY <1>2, <1>3, <1>4, <1>5 DEF Tells

\* What the records say is what RecordsMatchPackets asks of each packet.
LEMMA MatchSays ==
  ASSUME MatchInv
  PROVE  RecordsMatchPackets
<1> SUFFICES ASSUME loop # "raised", NEW p \in PacketIds
             PROVE  /\ Said(records, "ARRIVAL", p, packet[p].arrival_time)
                    /\ Said(records, "SERVICE_START", p, packet[p].service_start_time)
                    /\ Said(records, "DEPARTURE", p, packet[p].departure_time)
                    /\ Said(records, "DROP", p, IF p \in Undelivered THEN NoTime
                                                ELSE packet[p].drop_time)
  BY DEF RecordsMatchPackets, Said, Indices, RecordsOf, Undelivered, DropEvents
<1>1. /\ Told("ARRIVAL", p) = packet[p].arrival_time
      /\ Told("SERVICE_START", p) = packet[p].service_start_time
      /\ Told("DEPARTURE", p) = packet[p].departure_time
      /\ Told("DROP", p) = IF p \in Undelivered THEN NoTime ELSE packet[p].drop_time
  BY DEF Told
<1>2. \A kind \in Kinds : Said(records, kind, p, Told(kind, p))
  BY DEF MatchInv
<1> QED
  BY <1>1, <1>2 DEF Kinds

\* So they agree, always.
LEMMA CollectorInvariant == SimSpec => [](records \in Seq(Records) /\ MatchInv)
<1>1. SimInit => records \in Seq(Records) /\ MatchInv
  <2> SUFFICES ASSUME SimInit
               PROVE  records \in Seq(Records) /\ MatchInv
    OBVIOUS
  <2>1. records = <<>> /\ PacketIds = {}
    BY RouterAssumption DEF SimInit, Init, PacketIds
  <2> QED
    BY <2>1 DEF MatchInv, Said, Indices, Told
<1>2. /\ RouterInv /\ RouterInv' /\ DropInv /\ records \in Seq(Records) /\ MatchInv
      /\ [SimNext]_simVars
      => (records \in Seq(Records) /\ MatchInv)'
  BY StepsTell, RecordsType, MatchNext
<1> QED
  BY <1>1, <1>2, RouterInvariant, DropInvariant, PTL DEF SimSpec

\* Type correctness of a simulation: every record is of a packet that exists,
\* also those of packets that only an event names (mm1_validation.py:219-262).
THEOREM SimTypeCorrect == SimSpec => []SimTypeOK
<1> DEFINE Times == simulation_time \in SimulationTimes
           Phases == loop \in {"starting", "running", "done", "raised"}
<1>1. SimInit => Times /\ Phases
  BY DEF SimInit
<1>2. Times /\ Phases /\ [SimNext]_simVars => Times' /\ Phases'
  BY DEF SimNext, OnStart, RecordArrival, RecordServiceStart, RecordDeparture, RecordDrop,
         Running, LeaveLoop, simVars, Record
<1>3. RouterInv /\ records \in Seq(Records) /\ Times /\ Phases => SimTypeOK
  BY DEF RouterInv, SimTypeOK, Records
<1> QED
  BY <1>1, <1>2, <1>3, RouterInvariant, CollectorInvariant, PTL DEF SimSpec

\* The collector holds the history of the packets: exactly the records that a
\* packet's own fields call for, at the same times (mm1_validation.py:219-262,
\* collector.py:204-296).
THEOREM CollectorTellsPackets == SimSpec => []RecordsMatchPackets
  BY MatchSays, CollectorInvariant, PTL
-----------------------------------------------------------------------------
\* The horizon.

\* The clock is never past the horizon, and no arrival is scheduled past it.
HorizonInv ==
  /\ now <= simulation_time
  /\ \A x \in Arrivals : x.timestamp <= simulation_time

\* No step passes the horizon, or schedules an arrival past it.
LEMMA HorizonNext ==
  ASSUME TypeOK, HorizonInv, [SimNext]_simVars
  PROVE  HorizonInv'
<1>1. simulation_time' = simulation_time
  BY DEF SimNext, OnStart, RecordArrival, RecordServiceStart, RecordDeparture, RecordDrop,
         Running, LeaveLoop, simVars
<1>2. ASSUME NEW e \in scheduler.queue, Running(e)
      PROVE  now' <= simulation_time
  BY <1>2 DEF Running, Take
<1>3. ASSUME NEW t, t = NoTime \/ t <= simulation_time, now' <= simulation_time,
             \/ Arrivals' \subseteq Arrivals
             \/ t # NoTime /\ \E x : x.timestamp = t /\ Arrivals' \subseteq Arrivals \cup {x}
      PROVE  HorizonInv'
  <2>1. \A x \in Arrivals' : x.timestamp <= simulation_time
    BY <1>3 DEF HorizonInv
  <2> QED
    BY <1>1, <1>3, <2>1 DEF HorizonInv
<1>4. ASSUME NEW d \in ArrivalDelays, OnStart(d)
      PROVE  HorizonInv'
  <2>1. PICK t : t = NextArrivalTime(now + d)
    OBVIOUS
  <2>2. t = NoTime \/ t <= simulation_time
    BY <2>1 DEF NextArrivalTime
  <2>3. /\ now' <= simulation_time
        /\ Arrivals' = Pending(ThenArrival(scheduler, t), "PACKET_ARRIVAL")
    BY <1>4, <2>1 DEF OnStart, HorizonInv, Arrivals
  <2>4. \/ Arrivals' = Arrivals
        \/ t # NoTime /\ \E x : x.timestamp = t /\ Arrivals' = Arrivals \cup {x}
    BY <2>3, OneMoreArrival DEF Arrivals
  <2> QED
    BY <1>3, <2>2, <2>3, <2>4
<1>5. ASSUME NEW e \in scheduler.queue, NEW d \in ArrivalDelays, RecordArrival(e, d)
      PROVE  HorizonInv'
  <2>1. PICK t : t = NextArrivalTime(e.timestamp + d)
    OBVIOUS
  <2>2. t = NoTime \/ t <= simulation_time
    BY <2>1 DEF NextArrivalTime
  <2>3. HandleArrival(e, t) /\ now' <= simulation_time
    BY <1>2, <1>5, <2>1 DEF RecordArrival
  <2>4. \/ Arrivals' = Arrivals \ {e}
        \/ t # NoTime /\ \E x : x.timestamp = t /\ Arrivals' = (Arrivals \ {e}) \cup {x}
    BY <2>3, ArrivalHandled
  <2>5. Arrivals \ {e} \subseteq Arrivals
    OBVIOUS
  <2> QED
    BY <1>3, <2>2, <2>3, <2>4, <2>5
<1>6. ASSUME NEW e \in scheduler.queue,
             \/ RecordDeparture(e) \/ RecordDrop(e)
             \/ \E s \in ServiceTimes : RecordServiceStart(e, s)
      PROVE  HorizonInv'
  <2>1. Arrivals' = Arrivals
    BY <1>6, OthersKeepArrivals DEF RecordDeparture, RecordDrop, RecordServiceStart
  <2>2. now' <= simulation_time
    BY <1>2, <1>6 DEF RecordDeparture, RecordDrop, RecordServiceStart
  <2> QED
    BY <1>1, <2>1, <2>2 DEF HorizonInv
<1>7. CASE LeaveLoop \/ UNCHANGED simVars
  BY <1>7 DEF LeaveLoop, simVars, vars, HorizonInv, Arrivals
<1> QED
  BY <1>4, <1>5, <1>6, <1>7 DEF SimNext

\* So it is kept to, always.
LEMMA HorizonInvariant == SimSpec => []HorizonInv
<1>1. SimInit => HorizonInv
  <2>1. SimInit => now = 0 /\ simulation_time \in Nat /\ Arrivals = {}
    BY SimulationAssumption DEF SimInit, Init, EmptyScheduler, Arrivals, Pending
  <2> QED
    BY <2>1 DEF HorizonInv
<1>2. RouterInv => TypeOK
  BY DEF RouterInv
<1> QED
  BY <1>1, <1>2, HorizonNext, RouterInvariant, PTL DEF SimSpec

\* When the loop finds nothing up to the horizon only a departure can be left.
LEMMA LeftAtHorizon ==
  ASSUME RouterInv, HorizonInv, simulation_time \in Nat,
         ~\E e \in scheduler.queue : IsNext(scheduler, e) /\ e.timestamp <= simulation_time,
         NEW e \in scheduler.queue
  PROVE  /\ e.event_type = "PACKET_DEPARTURE" /\ e.timestamp > simulation_time
         /\ InService = {e.packet_id}
<1>1. /\ IsScheduler(scheduler, Nat, PacketIds) /\ now \in Nat
      /\ \A f \in scheduler.queue : f.timestamp \in Nat
      /\ e.event_type \in EventType
  BY TakenType DEF RouterInv, TypeOK
<1>2. PICK f \in scheduler.queue : IsNext(scheduler, f)
  BY <1>1, EarliestExists
<1>3. e.timestamp > simulation_time
  <2>1. f.timestamp > simulation_time
    BY <1>1, <1>2
  <2>2. e # f => Precedes(f, e)
    BY <1>2 DEF IsNext
  <2> QED
    BY <1>1, <2>1, <2>2 DEF Precedes
<1>4. e.event_type \notin {"PACKET_SERVICE_START", "PACKET_DROP"}
  BY <1>1, <1>3 DEF RouterInv, FlagInv, NothingInThePast, HorizonInv
<1>5. e.event_type # "PACKET_ARRIVAL"
  BY <1>1, <1>3 DEF HorizonInv, Arrivals, Pending
<1>6. e \in Departures
  BY <1>1, <1>4, <1>5 DEF EventType, Departures, Pending
<1>7. server.busy /\ e.packet_id = server.current_packet
  BY <1>6 DEF RouterInv, FlagInv, EventsFollowServer, Departures
<1> QED
  BY <1>3, <1>6, <1>7 DEF Departures, Pending, InService

\* The loop ends when nothing is left up to the horizon, and nothing changes
\* after.
LEMMA CutNext ==
  ASSUME RouterInv, HorizonInv, simulation_time \in Nat, CutAtHorizon, [SimNext]_simVars
  PROVE  CutAtHorizon'
<1>1. CASE LeaveLoop
  <2>1. /\ scheduler' = scheduler /\ server' = server /\ simulation_time' = simulation_time
    BY <1>1 DEF LeaveLoop, vars
  <2>2. ASSUME NEW e \in scheduler.queue
        PROVE  /\ e.event_type = "PACKET_DEPARTURE" /\ e.timestamp > simulation_time
               /\ InService = {e.packet_id}
    BY <1>1, <2>2, LeftAtHorizon DEF LeaveLoop
  <2> QED
    BY <2>1, <2>2 DEF CutAtHorizon, InService
<1>2. CASE UNCHANGED simVars
  BY <1>2 DEF simVars, vars, CutAtHorizon, InService
<1>3. ASSUME ~LeaveLoop, ~UNCHANGED simVars
      PROVE  loop' # "done"
  BY <1>3 DEF SimNext, OnStart, RecordArrival, RecordServiceStart, RecordDeparture, RecordDrop,
              Running, Record
<1> QED
  BY <1>1, <1>2, <1>3 DEF CutAtHorizon

\* A run stops with no packet between two places: no arrival, start or drop is
\* left, and the only departure that is left is later than the horizon
\* (engine.py:230, mm1_validation.py:224, 269).
THEOREM NothingLeftButDeparture == SimSpec => []CutAtHorizon
<1>1. SimInit => CutAtHorizon
  BY DEF SimInit, CutAtHorizon
<1>2. SimTypeOK => simulation_time \in Nat
  BY SimulationAssumption DEF SimTypeOK
<1> QED
  BY <1>1, <1>2, CutNext, SimTypeCorrect, RouterInvariant, HorizonInvariant, PTL DEF SimSpec
-----------------------------------------------------------------------------
\* The order of the records.

\* No record is of a time that is still to come.
ChronologyInv ==
  RecordsChronological /\ \A i \in DOMAIN records : records[i].timestamp <= now

\* A record is made at the current time.
LEMMA ChronologyNext ==
  ASSUME RouterInv, RouterInv', records \in Seq(Records), Tells, ChronologyInv,
         [SimNext]_simVars
  PROVE  ChronologyInv'
<1>1. now \in Nat /\ now' \in Nat /\ now' >= now
  BY StepsOfRouter, StepsOfPackets DEF RouterInv, TypeOK
<1>2. \A i \in DOMAIN records : records[i].timestamp \in Nat
  <2>1. \A i \in DOMAIN records : records[i] \in Records
    OBVIOUS
  <2> QED
    BY <2>1 DEF Records
<1>3. CASE records' = records
  BY <1>1, <1>2, <1>3 DEF ChronologyInv, RecordsChronological
<1>4. ASSUME NEW x, x.timestamp = now', records' = Append(records, x)
      PROVE  ChronologyInv'
  <2> DEFINE n == Len(records)
  <2>1. /\ n \in Nat /\ DOMAIN records = 1 .. n /\ DOMAIN records' = 1 .. n + 1
        /\ \A i \in 1 .. n : records'[i] = records[i]
        /\ records'[n + 1] = x
    BY <1>4
  <2> HIDE DEF n
  <2>2. \A i \in 1 .. n + 1 : records'[i].timestamp <= now'
    BY <1>1, <1>2, <1>4, <2>1 DEF ChronologyInv
  <2>3. ASSUME NEW i \in 1 .. n + 1, NEW j \in 1 .. n + 1, i < j
        PROVE  records'[i].timestamp <= records'[j].timestamp
    <3>1. CASE j = n + 1
      BY <1>4, <2>1, <2>2, <3>1
    <3>2. CASE j # n + 1
      <4>1. i \in 1 .. n /\ j \in 1 .. n
        BY <2>1, <2>3, <3>2
      <4> QED
        BY <2>1, <2>3, <4>1 DEF ChronologyInv, RecordsChronological
    <3> QED
      BY <3>1, <3>2
  <2> QED
    BY <2>1, <2>2, <2>3 DEF ChronologyInv, RecordsChronological
<1> QED
  BY <1>3, <1>4 DEF Tells

\* The records are in the order of time, so sorting them by timestamp again, as
\* the statistics do, changes nothing (system_statistics.py:80).
THEOREM RecordsInOrder == SimSpec => []RecordsChronological
<1>1. SimInit => ChronologyInv
  BY DEF SimInit, ChronologyInv, RecordsChronological
<1>2. /\ RouterInv /\ RouterInv' /\ DropInv /\ records \in Seq(Records) /\ MatchInv
      /\ ChronologyInv /\ [SimNext]_simVars
      => ChronologyInv'
  BY StepsTell, ChronologyNext
<1>3. ChronologyInv => RecordsChronological
  BY DEF ChronologyInv
<1> QED
  BY <1>1, <1>2, <1>3, RouterInvariant, DropInvariant, CollectorInvariant, PTL DEF SimSpec
-----------------------------------------------------------------------------
\* Recursion up to a number.

\* A walk of N steps from a in V, each step given by a function, exists.
IsWalk(g, k, V, a, next) ==
  g \in [0 .. k -> V] /\ g[0] = a /\ \A n \in 1 .. k : g[n] = next[n][g[n - 1]]

\* A walk of any length exists.
LEMMA WalkExists ==
  ASSUME NEW V, NEW a \in V, NEW N \in Nat, NEW next \in [1 .. N -> [V -> V]]
  PROVE  \E g : IsWalk(g, N, V, a, next)
<1> DEFINE Walk(k, g) == IsWalk(g, k, V, a, next)
           T == {k \in Nat : \E g : Walk(k, g)}
<1>1. 0 \in T
  <2>1. Walk(0, [n \in 0 .. 0 |-> a])
    BY DEF IsWalk
  <2> QED
    BY <2>1
<1>2. ASSUME NEW m \in 1 .. N, m - 1 \in T
      PROVE  m \in T
  <2>1. PICK g : /\ g \in [0 .. m - 1 -> V] /\ g[0] = a
                 /\ \A n \in 1 .. m - 1 : g[n] = next[n][g[n - 1]]
    BY <1>2 DEF IsWalk
  <2> DEFINE h == [n \in 0 .. m |-> IF n = m THEN next[m][g[m - 1]] ELSE g[n]]
  <2>2. next[m] \in [V -> V] /\ g[m - 1] \in V
    BY <2>1
  <2>3. h \in [0 .. m -> V] /\ h[0] = a
    BY <2>1, <2>2
  <2>4. ASSUME NEW n \in 1 .. m
        PROVE  h[n] = next[n][h[n - 1]]
    <3>1. CASE n = m
      BY <3>1
    <3>2. CASE n # m
      BY <2>1, <3>2
    <3> QED
      BY <3>1, <3>2
  <2>5. Walk(m, h)
    BY <2>3, <2>4 DEF IsWalk
  <2>6. m \in Nat /\ \E f : Walk(m, f)
    <3> HIDE DEF Walk, h
    <3> QED
      BY <2>5
  <2> QED
    BY <2>6
<1> HIDE DEF T
<1>3. N \in T
  <2>1. \A n \in 1 .. N : n - 1 \in T => n \in T
    BY <1>2
  <2>2. \A n \in 0 .. N : n \in T
    BY <1>1, <2>1, UpTo
  <2> QED
    BY <2>2
<1> QED
  BY <1>3 DEF T
-----------------------------------------------------------------------------
\* What the analytics compute on a sequence of records, whatever simulation it
\* comes from, if the records are the histories of packets in a single server.

AnyRecord == [timestamp : Nat, kind : Kinds, packet_id : Nat]

SamePacket(s, i, j) == s[i].packet_id = s[j].packet_id

\* In the order of time, one record of a kind for a packet, no start without an
\* arrival before it, no departure without a start before it, a departure
\* between two starts, and no start of a packet that is dropped.
WellFormed(s) ==
  /\ s \in Seq(AnyRecord)
  /\ \A i, j \in DOMAIN s : i < j => s[i].timestamp <= s[j].timestamp
  /\ \A i, j \in DOMAIN s : s[i].kind = s[j].kind /\ SamePacket(s, i, j) => i = j
  /\ \A i \in Of(s, "SERVICE_START") : \E j \in Of(s, "ARRIVAL") : j < i /\ SamePacket(s, j, i)
  /\ \A i \in Of(s, "DEPARTURE") : \E j \in Of(s, "SERVICE_START") : j < i /\ SamePacket(s, j, i)
  /\ \A i, j \in Of(s, "SERVICE_START") :
       i < j => \E k \in Of(s, "DEPARTURE") : i < k /\ k < j /\ SamePacket(s, k, i)
  /\ \A i \in Of(s, "SERVICE_START"), j \in Of(s, "DROP") : ~SamePacket(s, i, j)

\* The fields of a record.
LEMMA RecordFields ==
  ASSUME NEW s \in Seq(AnyRecord)
  PROVE  /\ Len(s) \in Nat /\ DOMAIN s = 1 .. Len(s)
         /\ \A i \in DOMAIN s : /\ s[i].timestamp \in Nat /\ s[i].kind \in Kinds
                                /\ s[i].packet_id \in Nat
<1>1. \A i \in DOMAIN s : s[i] \in AnyRecord
  OBVIOUS
<1> QED
  BY <1>1 DEF AnyRecord

\* Records in the order of time stay as they are when they are sorted.
LEMMA OrderedAlready ==
  ASSUME NEW s \in Seq(AnyRecord),
         \A i, j \in DOMAIN s : i < j => s[i].timestamp <= s[j].timestamp
  PROVE  Ordered(s) = s
<1> DEFINE before(i) == {j \in DOMAIN s :
                           \/ s[j].timestamp < s[i].timestamp
                           \/ s[j].timestamp = s[i].timestamp /\ j < i}
           place == [i \in DOMAIN s |-> 1 + Cardinality(before(i))]
<1>1. /\ Len(s) \in Nat /\ DOMAIN s = 1 .. Len(s)
      /\ \A i \in DOMAIN s : s[i].timestamp \in Nat
  BY RecordFields
<1>2. ASSUME NEW i \in DOMAIN s
      PROVE  place[i] = i
  <2>1. before(i) = 1 .. i - 1
    BY <1>1
  <2>2. Cardinality(1 .. i - 1) = i - 1
    BY <1>1, FS_Interval
  <2>3. place[i] = 1 + Cardinality(before(i))
    OBVIOUS
  <2> HIDE DEF before, place
  <2>4. Cardinality(before(i)) = i - 1
    BY <2>1, <2>2
  <2> QED
    BY <1>1, <2>3, <2>4
<1> HIDE DEF place
<1>3. ASSUME NEW k \in DOMAIN s
      PROVE  (CHOOSE i \in DOMAIN s : place[i] = k) = k
  BY <1>2
<1>4. Ordered(s) = [k \in DOMAIN s |-> s[CHOOSE i \in DOMAIN s : place[i] = k]]
  BY DEF Ordered, place
<1>5. Ordered(s) = [k \in DOMAIN s |-> s[k]]
  BY <1>3, <1>4
<1> QED
  BY <1>1, <1>5

-----------------------------------------------------------------------------
\* The walk over the queue lengths.

QueueStates == [length : Int, area : Int, previous_time : Int, error : BOOLEAN]

QueueStart(s) ==
  [length |-> 0, area |-> 0, error |-> FALSE,
   previous_time |-> IF s = <<>> THEN 0 ELSE s[1].timestamp]

\* A step of the queue walk keeps the types.
LEMMA QueueStepType ==
  ASSUME NEW acc \in QueueStates, NEW r \in AnyRecord, NEW D
  PROVE  QueueStep(acc, r, D) \in QueueStates
<1>1. QueueChange(r, D) \in Int
  BY DEF QueueChange
<1>2. /\ acc.length \in Int /\ acc.area \in Int /\ acc.previous_time \in Int
      /\ acc.error \in BOOLEAN /\ r.timestamp \in Int
  BY DEF QueueStates, AnyRecord
<1>3. acc.length * (r.timestamp - acc.previous_time) \in Int
  BY <1>2
<1> QED
  BY <1>1, <1>2, <1>3 DEF QueueStep, QueueStates

\* The queue walk starts at the first record and takes one step for each.
LEMMA QueueWalkSteps ==
  ASSUME NEW s \in Seq(AnyRecord), NEW D, NEW w, w = QueueWalk(s, D)
  PROVE  /\ w \in [0 .. Len(s) -> QueueStates]
         /\ w[0] = QueueStart(s)
         /\ \A n \in 1 .. Len(s) : w[n] = QueueStep(w[n - 1], s[n], D)
<1>1. /\ Len(s) \in Nat /\ DOMAIN s = 1 .. Len(s) /\ \A n \in DOMAIN s : s[n] \in AnyRecord
  OBVIOUS
<1>2. QueueStart(s) \in QueueStates
  BY <1>1, RecordFields DEF QueueStart, QueueStates
<1> DEFINE N == Len(s)
           a == QueueStart(s)
           next == [n \in 1 .. N |-> [acc \in QueueStates |-> QueueStep(acc, s[n], D)]]
           Is(f) == f = [n \in 0 .. N |-> IF n = 0 THEN a ELSE QueueStep(f[n - 1], s[n], D)]
<1>3. next \in [1 .. N -> [QueueStates -> QueueStates]]
  BY <1>1, QueueStepType
<1>4. PICK g : IsWalk(g, N, QueueStates, a, next)
  <2>1. N \in Nat /\ a \in QueueStates
    BY <1>1, <1>2
  <2> HIDE DEF next, a, N
  <2> QED
    BY <2>1, <1>3, WalkExists
<1>5. ASSUME NEW n \in 1 .. N
      PROVE  g[n - 1] \in QueueStates /\ g[n] = QueueStep(g[n - 1], s[n], D)
  <2>1. n - 1 \in 0 .. N
    BY <1>1
  <2>2. g[n - 1] \in QueueStates
    BY <1>4, <2>1 DEF IsWalk
  <2>3. g[n] = next[n][g[n - 1]]
    BY <1>4 DEF IsWalk
  <2> QED
    BY <2>2, <2>3
<1>6. Is(g)
  <2>1. g[0] = a /\ g = [n \in 0 .. N |-> g[n]]
    BY <1>4 DEF IsWalk
  <2> HIDE DEF a
  <2> QED
    BY <1>1, <1>5, <2>1
<1>7. w = CHOOSE f : Is(f)
  BY DEF QueueWalk, QueueStart
<1>8. Is(w)
  <2> HIDE DEF Is
  <2> QED
    BY <1>6, <1>7
<1> HIDE DEF a
<1>9. /\ w[0] = a
      /\ \A n \in 1 .. N : w[n] = QueueStep(w[n - 1], s[n], D)
  BY <1>1, <1>8
<1>10. w \in [0 .. N -> QueueStates]
  <2> DEFINE T == {n \in 0 .. N : w[n] \in QueueStates}
  <2>1. 0 \in T
    BY <1>1, <1>2, <1>9 DEF a
  <2>2. \A n \in 1 .. N : n - 1 \in T => n \in T
    BY <1>1, <1>9, QueueStepType
  <2>3. \A n \in 0 .. N : n \in T
    <3> HIDE DEF T
    <3> QED
      BY <1>1, <2>1, <2>2, UpTo
  <2>4. w = [n \in 0 .. N |-> w[n]]
    BY <1>8
  <2> QED
    BY <2>3, <2>4
<1> QED
  BY <1>9, <1>10 DEF a

-----------------------------------------------------------------------------
\* The packets that a record of a kind names among the first n.

Seen(s, kind, n) == {s[i].packet_id : i \in {j \in Of(s, kind) : j <= n}}

\* A record adds its packet to those seen of its kind.
LEMMA SeenGrows ==
  ASSUME NEW s \in Seq(AnyRecord), NEW kind
  PROVE  /\ Seen(s, kind, 0) = {}
         /\ \A n \in 1 .. Len(s) :
              /\ s[n].kind = kind => Seen(s, kind, n) = Seen(s, kind, n - 1) \cup {s[n].packet_id}
              /\ s[n].kind # kind => Seen(s, kind, n) = Seen(s, kind, n - 1)
<1>1. Len(s) \in Nat /\ DOMAIN s = 1 .. Len(s)
  OBVIOUS
<1> DEFINE first(n) == {j \in Of(s, kind) : j <= n}
<1>2. first(0) = {}
  BY <1>1 DEF Of
<1>3. ASSUME NEW n \in 1 .. Len(s)
      PROVE  first(n) = IF s[n].kind = kind THEN first(n - 1) \cup {n} ELSE first(n - 1)
  BY <1>1 DEF Of
<1>4. \A n : Seen(s, kind, n) = {s[i].packet_id : i \in first(n)}
  BY DEF Seen
<1> HIDE DEF first
<1>5. ASSUME NEW n \in 1 .. Len(s)
      PROVE  /\ s[n].kind = kind => Seen(s, kind, n) = Seen(s, kind, n - 1) \cup {s[n].packet_id}
             /\ s[n].kind # kind => Seen(s, kind, n) = Seen(s, kind, n - 1)
  <2>1. CASE s[n].kind = kind
    <3>1. first(n) = first(n - 1) \cup {n}
      BY <1>3, <2>1
    <3> QED
      BY <1>4, <2>1, <3>1
  <2>2. CASE s[n].kind # kind
    BY <1>3, <1>4, <2>2
  <2> QED
    BY <2>1, <2>2
<1> QED
  BY <1>2, <1>4, <1>5

\* The same of well-formed records.
LEMMA SeenNext ==
  ASSUME NEW s, WellFormed(s), NEW n \in 1 .. Len(s)
  PROVE  \A kind :
           /\ s[n].kind = kind => Seen(s, kind, n) = Seen(s, kind, n - 1) \cup {s[n].packet_id}
           /\ s[n].kind # kind => Seen(s, kind, n) = Seen(s, kind, n - 1)
<1>1. s \in Seq(AnyRecord)
  BY DEF WellFormed
<1> QED
  BY <1>1, SeenGrows, ZenonT(40)

\* There are finitely many, natural numbers all.
LEMMA SeenFinite ==
  ASSUME NEW s \in Seq(AnyRecord), NEW kind, NEW n
  PROVE  /\ IsFiniteSet(Seen(s, kind, n)) /\ Seen(s, kind, n) \subseteq Nat
         /\ IsFiniteSet(Of(s, kind))
<1> DEFINE first == {j \in Of(s, kind) : j <= n}
           name == [i \in first |-> s[i].packet_id]
<1>1. IsFiniteSet(DOMAIN s)
  <2>1. 0 \in Int /\ 1 \in Int /\ Len(s) \in Int /\ DOMAIN s = 1 .. Len(s)
    BY RecordFields
  <2> QED
    BY <2>1, FS_Interval
<1>2. Of(s, kind) \subseteq DOMAIN s /\ first \subseteq DOMAIN s
  BY DEF Of
<1>3. IsFiniteSet(first) /\ IsFiniteSet(Of(s, kind))
  BY <1>1, <1>2, FS_Subset
<1>4. name \in [first -> {s[i].packet_id : i \in first}]
  OBVIOUS
<1>5. Seen(s, kind, n) = {s[i].packet_id : i \in first}
  BY DEF Seen
<1>6. Seen(s, kind, n) \subseteq Nat
  BY <1>2, <1>5, RecordFields
<1>7. name \in Surjection(first, {s[i].packet_id : i \in first})
  BY <1>4 DEF Surjection
<1> HIDE DEF first, name
<1>8. IsFiniteSet({s[i].packet_id : i \in first})
  BY <1>3, <1>7, FS_Surjection
<1> QED
  BY <1>3, <1>5, <1>6, <1>8

\* The order of the records of one packet, and of the starts and departures.
LEMMA SeenOrder ==
  ASSUME NEW s, WellFormed(s), NEW n \in 1 .. Len(s), NEW p, p = s[n].packet_id
  PROVE  /\ p \notin Seen(s, s[n].kind, n - 1)
         /\ s[n].kind = "ARRIVAL" => p \notin Seen(s, "SERVICE_START", n - 1)
         /\ s[n].kind = "SERVICE_START" =>
              /\ p \in Seen(s, "ARRIVAL", n - 1)
              /\ p \notin Seen(s, "DEPARTURE", n - 1)
              /\ Seen(s, "SERVICE_START", n - 1) \subseteq Seen(s, "DEPARTURE", n - 1)
         /\ s[n].kind = "DEPARTURE" => p \in Seen(s, "SERVICE_START", n - 1)
<1>1. Len(s) \in Nat /\ DOMAIN s = 1 .. Len(s)
  BY DEF WellFormed
<1>2. \A kind, q : q \in Seen(s, kind, n - 1) <=>
                     \E i \in DOMAIN s : i < n /\ s[i].kind = kind /\ s[i].packet_id = q
  BY <1>1 DEF Seen, Of
<1>3. \A i \in DOMAIN s : s[i].kind = s[n].kind /\ s[i].packet_id = p => i = n
  BY <1>1 DEF WellFormed, SamePacket
<1>4. p \notin Seen(s, s[n].kind, n - 1)
  BY <1>1, <1>2, <1>3
<1>5. ASSUME s[n].kind = "ARRIVAL", p \in Seen(s, "SERVICE_START", n - 1)
      PROVE  FALSE
  <2>1. PICK i \in DOMAIN s : i < n /\ s[i].kind = "SERVICE_START" /\ s[i].packet_id = p
    BY <1>2, <1>5
  <2>2. PICK j \in Of(s, "ARRIVAL") : j < i /\ s[j].packet_id = p
    BY <2>1 DEF WellFormed, SamePacket, Of
  <2> QED
    BY <1>1, <1>3, <1>5, <2>1, <2>2 DEF Of
<1>6. ASSUME s[n].kind = "SERVICE_START"
      PROVE  /\ p \in Seen(s, "ARRIVAL", n - 1)
             /\ Seen(s, "SERVICE_START", n - 1) \subseteq Seen(s, "DEPARTURE", n - 1)
  <2>1. n \in Of(s, "SERVICE_START")
    BY <1>1, <1>6 DEF Of
  <2>2. p \in Seen(s, "ARRIVAL", n - 1)
    BY <1>2, <2>1 DEF WellFormed, SamePacket, Of
  <2>3. ASSUME NEW q \in Seen(s, "SERVICE_START", n - 1)
        PROVE  q \in Seen(s, "DEPARTURE", n - 1)
    <3>1. PICK i \in DOMAIN s : i < n /\ s[i].kind = "SERVICE_START" /\ s[i].packet_id = q
      BY <1>2, <2>3
    <3>2. i \in Of(s, "SERVICE_START")
      BY <3>1 DEF Of
    <3>3. PICK k \in Of(s, "DEPARTURE") : k < n /\ s[k].packet_id = q
      BY <2>1, <3>1, <3>2 DEF WellFormed, SamePacket
    <3> QED
      BY <1>2, <3>3 DEF Of
  <2> QED
    BY <2>2, <2>3
<1>7. ASSUME s[n].kind = "SERVICE_START", p \in Seen(s, "DEPARTURE", n - 1)
      PROVE  FALSE
  <2>1. PICK i \in DOMAIN s : i < n /\ s[i].kind = "DEPARTURE" /\ s[i].packet_id = p
    BY <1>2, <1>7
  <2>2. PICK j \in Of(s, "SERVICE_START") : j < i /\ s[j].packet_id = p
    BY <2>1 DEF WellFormed, SamePacket, Of
  <2> QED
    BY <1>1, <1>3, <1>7, <2>1, <2>2 DEF Of
<1>8. ASSUME s[n].kind = "DEPARTURE"
      PROVE  p \in Seen(s, "SERVICE_START", n - 1)
  <2>1. n \in Of(s, "DEPARTURE")
    BY <1>1, <1>8 DEF Of
  <2> QED
    BY <1>2, <2>1 DEF WellFormed, SamePacket, Of
<1> QED
  BY <1>4, <1>5, <1>6, <1>7, <1>8

-----------------------------------------------------------------------------
\* The queue lengths.

Waiting(s, D, n) == (Seen(s, "ARRIVAL", n) \ D) \ Seen(s, "SERVICE_START", n)

\* D is a set of packets that never start, as those whose drop is recorded.
NeverStart(s, D) == \A i \in Of(s, "SERVICE_START") : s[i].packet_id \notin D

\* No packet with a record of its drop starts.
LEMMA DropsNeverStart ==
  ASSUME NEW s, WellFormed(s)
  PROVE  NeverStart(s, DroppedIds(s))
  BY DEF WellFormed, SamePacket, NeverStart, DroppedIds

\* What one record changes in who waits.
LEMMA WaitingStep ==
  ASSUME NEW s, WellFormed(s), NEW D, NeverStart(s, D), NEW n \in 1 .. Len(s),
         NEW p, p = s[n].packet_id
  PROVE  /\ s[n].kind = "ARRIVAL" /\ p \notin D =>
              p \notin Waiting(s, D, n - 1) /\ Waiting(s, D, n) = Waiting(s, D, n - 1) \cup {p}
         /\ s[n].kind = "SERVICE_START" =>
              p \in Waiting(s, D, n - 1) /\ Waiting(s, D, n) = Waiting(s, D, n - 1) \ {p}
         /\ s[n].kind # "SERVICE_START" /\ ~(s[n].kind = "ARRIVAL" /\ p \notin D) =>
              Waiting(s, D, n) = Waiting(s, D, n - 1)
<1>1. s \in Seq(AnyRecord) /\ n \in DOMAIN s
  BY DEF WellFormed
<1>2. \A kind : /\ s[n].kind = kind => Seen(s, kind, n) = Seen(s, kind, n - 1) \cup {p}
                /\ s[n].kind # kind => Seen(s, kind, n) = Seen(s, kind, n - 1)
  BY SeenNext
<1>3. CASE s[n].kind = "ARRIVAL"
  <2>1. /\ Seen(s, "ARRIVAL", n) = Seen(s, "ARRIVAL", n - 1) \cup {p}
        /\ Seen(s, "SERVICE_START", n) = Seen(s, "SERVICE_START", n - 1)
        /\ p \notin Seen(s, "ARRIVAL", n - 1) /\ p \notin Seen(s, "SERVICE_START", n - 1)
    BY <1>2, <1>3, SeenOrder
  <2> QED
    BY <1>3, <2>1 DEF Waiting
<1>4. CASE s[n].kind = "SERVICE_START"
  <2>1. /\ Seen(s, "ARRIVAL", n) = Seen(s, "ARRIVAL", n - 1)
        /\ Seen(s, "SERVICE_START", n) = Seen(s, "SERVICE_START", n - 1) \cup {p}
        /\ p \in Seen(s, "ARRIVAL", n - 1) /\ p \notin Seen(s, "SERVICE_START", n - 1)
    BY <1>2, <1>4, SeenOrder
  <2>2. p \notin D
    BY <1>1, <1>4 DEF NeverStart, Of
  <2> QED
    BY <1>4, <2>1, <2>2 DEF Waiting
<1>5. CASE s[n].kind # "ARRIVAL" /\ s[n].kind # "SERVICE_START"
  BY <1>2, <1>5 DEF Waiting
<1> QED
  BY <1>3, <1>4, <1>5

\* The walk counts those who wait, and is never in error.
LEMMA QueueLengths ==
  ASSUME NEW s, WellFormed(s), NEW D, NeverStart(s, D), NEW w, w = QueueWalk(s, D)
  PROVE  \A n \in 0 .. Len(s) :
           /\ IsFiniteSet(Waiting(s, D, n)) /\ w[n].length = Cardinality(Waiting(s, D, n))
           /\ ~w[n].error
           /\ n # 0 => w[n].previous_time = s[n].timestamp
<1>1. /\ s \in Seq(AnyRecord) /\ Len(s) \in Nat /\ DOMAIN s = 1 .. Len(s)
      /\ \A n \in 1 .. Len(s) : s[n].timestamp \in Nat
  BY RecordFields DEF WellFormed
<1>2. /\ w \in [0 .. Len(s) -> QueueStates] /\ w[0] = QueueStart(s)
      /\ \A n \in 1 .. Len(s) : w[n] = QueueStep(w[n - 1], s[n], D)
  BY <1>1, QueueWalkSteps
<1>3. \A n : IsFiniteSet(Waiting(s, D, n))
  <2>1. \A n : IsFiniteSet(Seen(s, "ARRIVAL", n)) /\ Waiting(s, D, n) \subseteq Seen(s, "ARRIVAL", n)
    BY <1>1, SeenFinite DEF Waiting
  <2> QED
    BY <2>1, FS_Subset
<1> DEFINE Good(n) == /\ w[n].length = Cardinality(Waiting(s, D, n))
                      /\ ~w[n].error
                      /\ n # 0 => w[n].previous_time = s[n].timestamp
           T == {n \in 0 .. Len(s) : Good(n)}
<1>4. 0 \in T
  <2>1. Seen(s, "ARRIVAL", 0) = {}
      BY <1>1, SeenGrows
  <2>2. Cardinality(Waiting(s, D, 0)) = 0
    BY <2>1, FS_EmptySet DEF Waiting
  <2>3. w[0].length = 0 /\ ~w[0].error
    BY <1>2 DEF QueueStart
  <2> QED
    BY <1>1, <2>2, <2>3
<1>5. ASSUME NEW n \in 1 .. Len(s), n - 1 \in T
      PROVE  n \in T
  <2> DEFINE r == s[n]
             p == r.packet_id
  <2>1. /\ Good(n - 1) /\ w[n - 1] \in QueueStates /\ w[n] = QueueStep(w[n - 1], r, D)
        /\ r.timestamp \in Nat
    BY <1>1, <1>2, <1>5
  <2>2. ~(r.timestamp < w[n - 1].previous_time)
    <3>1. CASE n = 1
      <4>1. s # <<>>
        BY <1>1
      <4>2. w[n - 1].previous_time = r.timestamp
        BY <1>2, <3>1, <4>1 DEF QueueStart
      <4> QED
        BY <2>1, <4>2
    <3>2. CASE n # 1
      <4>1. n - 1 \in DOMAIN s /\ n \in DOMAIN s /\ n - 1 < n
        BY <1>1, <3>2
      <4>2. w[n - 1].previous_time = s[n - 1].timestamp
        BY <2>1, <3>2
      <4>3. s[n - 1].timestamp <= r.timestamp
        BY <4>1 DEF WellFormed
      <4> QED
        BY <1>1, <2>1, <4>1, <4>2, <4>3
    <3> QED
      BY <3>1, <3>2
  <2>3. /\ w[n].length = w[n - 1].length + QueueChange(r, D)
        /\ w[n].previous_time = r.timestamp
        /\ w[n].error <=> w[n - 1].error \/ r.timestamp < w[n - 1].previous_time
                            \/ w[n - 1].length + QueueChange(r, D) < 0
    BY <2>1 DEF QueueStep
  <2> DEFINE c == Cardinality(Waiting(s, D, n - 1))
  <2>4. w[n - 1].length + QueueChange(r, D) = Cardinality(Waiting(s, D, n))
    <3>0. c \in Nat /\ w[n - 1].length = c /\ IsFiniteSet(Waiting(s, D, n - 1))
      BY <1>3, <2>1, FS_CardinalityType
    <3> HIDE DEF c
    <3>1. CASE r.kind = "ARRIVAL" /\ p \notin D
      <4>0. /\ p \notin Waiting(s, D, n - 1)
            /\ Waiting(s, D, n) = Waiting(s, D, n - 1) \cup {p}
        BY <3>1, WaitingStep
      <4>1. Cardinality(Waiting(s, D, n)) = c + 1
        BY <3>0, <4>0, FS_AddElement DEF c
      <4> QED
        BY <3>0, <3>1, <4>1 DEF QueueChange
    <3>2. CASE r.kind = "SERVICE_START"
      <4>1. Cardinality(Waiting(s, D, n)) = c - 1
        BY <3>0, <3>2, WaitingStep, FS_RemoveElement DEF c
      <4>2. QueueChange(r, D) = -1
        BY <3>2 DEF QueueChange
      <4> QED
        BY <3>0, <4>1, <4>2
    <3>3. CASE r.kind # "SERVICE_START" /\ ~(r.kind = "ARRIVAL" /\ p \notin D)
      <4>1. Cardinality(Waiting(s, D, n)) = c
        BY <3>3, WaitingStep DEF c
      <4> QED
        BY <3>0, <3>3, <4>1 DEF QueueChange
    <3> QED
      BY <3>1, <3>2, <3>3
  <2>5. Cardinality(Waiting(s, D, n)) \in Nat
    BY <1>3, FS_CardinalityType
  <2>6. Good(n)
    BY <2>1, <2>2, <2>3, <2>4, <2>5
  <2> QED
    BY <2>6
<1>6. \A n \in 0 .. Len(s) : n \in T
  <2> HIDE DEF T
  <2> QED
    BY <1>1, <1>4, <1>5, UpTo
<1> QED
  BY <1>3, <1>6

-----------------------------------------------------------------------------
\* The walk over the busy times.

BusyStates ==
  [active : SUBSET [start : Int, packet_id : Nat], closed : Int, intervals : Int, error : BOOLEAN]

Idle == [active |-> {}, closed |-> 0, intervals |-> 0, error |-> FALSE]

\* The time since a start is a number.
LEMMA SinceStartType ==
  ASSUME NEW A \in SUBSET [start : Int, packet_id : Nat], NEW t \in Int
  PROVE  SinceStart(A, t) \in Int
<1>1. CASE A = {}
  BY <1>1 DEF SinceStart
<1>2. CASE A # {}
  <2>1. (CHOOSE a \in A : TRUE) \in A
    BY <1>2
  <2>2. (CHOOSE a \in A : TRUE).start \in Int
    BY <2>1
  <2> QED
    BY <1>2, <2>2 DEF SinceStart
<1> QED
  BY <1>1, <1>2

\* A step of the busy walk keeps the types.
LEMMA BusyStepType ==
  ASSUME NEW acc \in BusyStates, NEW r \in AnyRecord
  PROVE  BusyStep(acc, r) \in BusyStates
<1>1. /\ acc.active \in SUBSET [start : Int, packet_id : Nat] /\ acc.closed \in Int
      /\ acc.intervals \in Int /\ acc.error \in BOOLEAN
      /\ r.timestamp \in Int /\ r.packet_id \in Nat
  BY DEF BusyStates, AnyRecord
<1>2. CASE r.kind = "SERVICE_START"
  <2>1. BusyStep(acc, r) =
          [acc EXCEPT !.error = @ \/ acc.active # {},
                      !.active = {[start |-> r.timestamp, packet_id |-> r.packet_id]}]
    BY <1>2 DEF BusyStep
  <2>2. PICK twice \in BOOLEAN : twice = (acc.error \/ acc.active # {})
    OBVIOUS
  <2>3. BusyStep(acc, r) = [acc EXCEPT !.error = twice,
                                       !.active = {[start |-> r.timestamp, packet_id |-> r.packet_id]}]
    BY <2>1, <2>2
  <2>4. {[start |-> r.timestamp, packet_id |-> r.packet_id]} \in SUBSET [start : Int, packet_id : Nat]
    BY <1>1
  <2> QED
    BY <2>3, <2>4 DEF BusyStates
<1>3. CASE r.kind = "DEPARTURE"
  <2>1. PICK late \in BOOLEAN :
          BusyStep(acc, r) = [error |-> late, active |-> {},
                              closed |-> acc.closed + SinceStart(acc.active, r.timestamp),
                              intervals |-> acc.intervals + 1]
    BY <1>3 DEF BusyStep
  <2>2. SinceStart(acc.active, r.timestamp) \in Int
    BY <1>1, SinceStartType
  <2> QED
    BY <1>1, <2>1, <2>2 DEF BusyStates
<1>4. CASE r.kind # "SERVICE_START" /\ r.kind # "DEPARTURE"
  BY <1>4 DEF BusyStep
<1> QED
  BY <1>2, <1>3, <1>4

\* The busy walk starts idle and takes one step for each record.
LEMMA BusyWalkSteps ==
  ASSUME NEW s \in Seq(AnyRecord), NEW w, w = BusyWalk(s)
  PROVE  /\ w \in [0 .. Len(s) -> BusyStates]
         /\ w[0] = Idle
         /\ \A n \in 1 .. Len(s) : w[n] = BusyStep(w[n - 1], s[n])
<1>1. /\ Len(s) \in Nat /\ DOMAIN s = 1 .. Len(s) /\ \A n \in DOMAIN s : s[n] \in AnyRecord
  OBVIOUS
<1>2. Idle \in BusyStates
  BY DEF Idle, BusyStates
<1> DEFINE N == Len(s)
           a == Idle
           next == [n \in 1 .. N |-> [acc \in BusyStates |-> BusyStep(acc, s[n])]]
           Is(f) == f = [n \in 0 .. N |-> IF n = 0 THEN a ELSE BusyStep(f[n - 1], s[n])]
<1>3. next \in [1 .. N -> [BusyStates -> BusyStates]]
  BY <1>1, BusyStepType
<1>4. PICK g : IsWalk(g, N, BusyStates, a, next)
  <2>1. N \in Nat /\ a \in BusyStates
    BY <1>1, <1>2
  <2> HIDE DEF next, a, N
  <2> QED
    BY <2>1, <1>3, WalkExists
<1>5. ASSUME NEW n \in 1 .. N
      PROVE  g[n - 1] \in BusyStates /\ g[n] = BusyStep(g[n - 1], s[n])
  <2>1. n - 1 \in 0 .. N
    BY <1>1
  <2>2. g[n - 1] \in BusyStates
    BY <1>4, <2>1 DEF IsWalk
  <2>3. g[n] = next[n][g[n - 1]]
    BY <1>4 DEF IsWalk
  <2> QED
    BY <2>2, <2>3
<1>6. Is(g)
  <2>1. g[0] = a /\ g = [n \in 0 .. N |-> g[n]]
    BY <1>4 DEF IsWalk
  <2> HIDE DEF a
  <2> QED
    BY <1>1, <1>5, <2>1
<1>7. w = CHOOSE f : Is(f)
  BY DEF BusyWalk, Idle
<1>8. Is(w)
  <2> HIDE DEF Is
  <2> QED
    BY <1>6, <1>7
<1> HIDE DEF a
<1>9. /\ w[0] = a
      /\ \A n \in 1 .. N : w[n] = BusyStep(w[n - 1], s[n])
  BY <1>1, <1>8
<1>10. w \in [0 .. N -> BusyStates]
  <2> DEFINE T == {n \in 0 .. N : w[n] \in BusyStates}
  <2>1. 0 \in T
    BY <1>1, <1>2, <1>9 DEF a
  <2>2. \A n \in 1 .. N : n - 1 \in T => n \in T
    BY <1>1, <1>9, BusyStepType
  <2>3. \A n \in 0 .. N : n \in T
    <3> HIDE DEF T
    <3> QED
      BY <1>1, <2>1, <2>2, UpTo
  <2>4. w = [n \in 0 .. N |-> w[n]]
    BY <1>8
  <2> QED
    BY <2>3, <2>4
<1> QED
  BY <1>9, <1>10 DEF a

\* The starts among the first n records without a departure among them.
Open(s, n) ==
  {i \in Of(s, "SERVICE_START") : i <= n /\ s[i].packet_id \notin Seen(s, "DEPARTURE", n)}

\* There is one at most; a start opens it, the departure of its packet closes it.
LEMMA OpenStep ==
  ASSUME NEW s, WellFormed(s), NEW n \in 1 .. Len(s), NEW p, p = s[n].packet_id
  PROVE  /\ s[n].kind = "SERVICE_START" => Open(s, n - 1) = {} /\ Open(s, n) = {n}
         /\ s[n].kind = "DEPARTURE" =>
              /\ \E i \in Of(s, "SERVICE_START") :
                   Open(s, n - 1) = {i} /\ i < n /\ s[i].packet_id = p
              /\ Open(s, n) = {}
         /\ s[n].kind # "SERVICE_START" /\ s[n].kind # "DEPARTURE" =>
              Open(s, n) = Open(s, n - 1)
<1>1. /\ s \in Seq(AnyRecord) /\ Len(s) \in Nat /\ DOMAIN s = 1 .. Len(s) /\ n \in DOMAIN s
  BY DEF WellFormed
<1>2. \A kind : /\ s[n].kind = kind => Seen(s, kind, n) = Seen(s, kind, n - 1) \cup {p}
                /\ s[n].kind # kind => Seen(s, kind, n) = Seen(s, kind, n - 1)
  BY SeenNext
<1>3. \A i \in Of(s, "SERVICE_START") : i <= n - 1 => s[i].packet_id \in Seen(s, "SERVICE_START", n - 1)
  BY DEF Seen
<1>4. CASE s[n].kind = "SERVICE_START"
  <2>1. /\ Seen(s, "DEPARTURE", n) = Seen(s, "DEPARTURE", n - 1)
        /\ p \notin Seen(s, "DEPARTURE", n - 1)
        /\ Seen(s, "SERVICE_START", n - 1) \subseteq Seen(s, "DEPARTURE", n - 1)
    BY <1>2, <1>4, SeenOrder
  <2>2. Open(s, n - 1) = {}
    BY <1>3, <2>1 DEF Open
  <2>3. n \in Open(s, n)
    BY <1>1, <1>4, <2>1 DEF Open, Of
  <2>4. \A i \in Open(s, n) : i = n
    BY <1>1, <1>3, <2>1 DEF Open, Of
  <2> QED
    BY <1>4, <2>2, <2>3, <2>4
<1>5. CASE s[n].kind = "DEPARTURE"
  <2>1. /\ Seen(s, "DEPARTURE", n) = Seen(s, "DEPARTURE", n - 1) \cup {p}
        /\ p \notin Seen(s, "DEPARTURE", n - 1)
        /\ p \in Seen(s, "SERVICE_START", n - 1)
    BY <1>2, <1>5, SeenOrder
  <2>2. PICK i \in Of(s, "SERVICE_START") : i <= n - 1 /\ s[i].packet_id = p
    BY <2>1 DEF Seen
  <2>3. i \in Open(s, n - 1) /\ i < n
    BY <1>1, <2>1, <2>2 DEF Open, Of
  <2>4. ASSUME NEW j \in Open(s, n - 1), NEW k \in Open(s, n - 1)
        PROVE  j = k
    <3>1. ASSUME NEW a \in Open(s, n - 1), NEW b \in Open(s, n - 1), a < b
          PROVE  FALSE
      <4>1. /\ a \in Of(s, "SERVICE_START") /\ b \in Of(s, "SERVICE_START") /\ b <= n - 1
            /\ s[a].packet_id \notin Seen(s, "DEPARTURE", n - 1)
        BY DEF Open
      <4>2. PICK c \in Of(s, "DEPARTURE") : c < b /\ s[c].packet_id = s[a].packet_id
        BY <3>1, <4>1 DEF WellFormed, SamePacket
      <4>3. c <= n - 1
        BY <1>1, <4>1, <4>2 DEF Of
      <4>4. s[c].packet_id \in Seen(s, "DEPARTURE", n - 1)
        BY <4>2, <4>3 DEF Seen
      <4> QED
        BY <4>1, <4>2, <4>4
    <3>2. j \in Int /\ k \in Int
      BY <1>1 DEF Open, Of
    <3> QED
      BY <3>1, <3>2
  <2>5. Open(s, n - 1) = {i}
    BY <2>3, <2>4
  <2>6. ASSUME NEW j \in Open(s, n)
        PROVE  FALSE
    <3>1. /\ j \in Of(s, "SERVICE_START") /\ j <= n /\ s[j].packet_id # p
          /\ s[j].packet_id \notin Seen(s, "DEPARTURE", n - 1)
      BY <2>1 DEF Open
    <3>2. j <= n - 1
      BY <1>1, <1>5, <3>1 DEF Of
    <3>3. j \in Open(s, n - 1)
      BY <3>1, <3>2 DEF Open
    <3> QED
      BY <2>2, <2>5, <3>1, <3>3
  <2> QED
    BY <1>5, <2>2, <2>3, <2>5, <2>6
<1>6. CASE s[n].kind # "SERVICE_START" /\ s[n].kind # "DEPARTURE"
  <2>1. Seen(s, "DEPARTURE", n) = Seen(s, "DEPARTURE", n - 1)
    BY <1>2, <1>6
  <2>2. \A i \in Of(s, "SERVICE_START") : i <= n <=> i <= n - 1
    BY <1>1, <1>6 DEF Of
  <2> QED
    BY <1>6, <2>1, <2>2 DEF Open
<1> QED
  BY <1>4, <1>5, <1>6

-----------------------------------------------------------------------------
\* Sums over packets.

Ids(n) == FirstPacketId .. FirstPacketId + n - 1

\* The sums that SumOfFirst goes through.
LEMMA SumSteps ==
  ASSUME NEW N \in Nat, NEW f \in [Ids(N) -> Int]
  PROVE  \E g \in [0 .. N -> Int] :
           /\ g[0] = 0
           /\ \A k \in 1 .. N : g[k] = g[k - 1] + f[FirstPacketId + k - 1]
           /\ SumOfFirst(f, N) = g[N]
<1>0. FirstPacketId \in Nat /\ \A k \in 1 .. N : FirstPacketId + k - 1 \in Ids(N)
  BY RouterAssumption DEF Ids
<1> DEFINE a == 0
           x(k) == f[FirstPacketId + k - 1]
           next == [k \in 1 .. N |-> [v \in Int |-> v + x(k)]]
           Is(h) == h = [k \in 0 .. N |-> IF k = 0 THEN 0 ELSE h[k - 1] + x(k)]
<1>1. \A k \in 1 .. N : x(k) \in Int
  BY <1>0
<1> HIDE DEF x
<1>2. next \in [1 .. N -> [Int -> Int]]
  BY <1>1
<1>3. PICK g : IsWalk(g, N, Int, a, next)
  <2>1. a \in Int
    OBVIOUS
  <2> HIDE DEF next, a
  <2> QED
    BY <2>1, <1>2, WalkExists
<1>4. /\ g \in [0 .. N -> Int] /\ g[0] = 0
      /\ \A k \in 1 .. N : g[k] = g[k - 1] + x(k)
  <2>1. ASSUME NEW k \in 1 .. N
        PROVE  g[k] = g[k - 1] + x(k)
    <3>1. g[k - 1] \in Int /\ g[k] = next[k][g[k - 1]]
      BY <1>3 DEF IsWalk
    <3> QED
      BY <3>1
  <2> QED
    BY <1>3, <2>1 DEF IsWalk
<1>5. Is(g)
  <2>1. g = [k \in 0 .. N |-> g[k]]
    BY <1>4
  <2> QED
    BY <1>4, <2>1
<1> DEFINE w == CHOOSE h : Is(h)
<1>6. SumOfFirst(f, N) = w[N]
  BY DEF SumOfFirst, x
<1>7. Is(w)
  <2> HIDE DEF Is
  <2> QED
    BY <1>5
<1> HIDE DEF w
<1>8. w[0] = 0 /\ \A k \in 1 .. N : w[k] = w[k - 1] + x(k)
  BY <1>7
<1> DEFINE T == {k \in 0 .. N : w[k] = g[k]}
<1>9. 0 \in T
  BY <1>4, <1>8
<1>10. \A k \in 1 .. N : k - 1 \in T => k \in T
  BY <1>4, <1>8
<1>11. \A k \in 0 .. N : k \in T
  <2> HIDE DEF T
  <2> QED
    BY <1>9, <1>10, UpTo
<1> QED
  BY <1>4, <1>6, <1>11 DEF x

\* What is added for some of the packets is added to the sum once for each.
LEMMA SumChange ==
  ASSUME NEW N \in Nat, NEW f \in [Ids(N) -> Int], NEW g \in [Ids(N) -> Int],
         NEW W \in SUBSET Ids(N), NEW c \in Int,
         \A p \in Ids(N) : g[p] = IF p \in W THEN f[p] + c ELSE f[p]
  PROVE  SumOfFirst(g, N) = SumOfFirst(f, N) + c * Cardinality(W)
<1>1. PICK F \in [0 .. N -> Int] :
        /\ F[0] = 0
        /\ \A k \in 1 .. N : F[k] = F[k - 1] + f[FirstPacketId + k - 1]
        /\ SumOfFirst(f, N) = F[N]
  BY SumSteps
<1>2. PICK G \in [0 .. N -> Int] :
        /\ G[0] = 0
        /\ \A k \in 1 .. N : G[k] = G[k - 1] + g[FirstPacketId + k - 1]
        /\ SumOfFirst(g, N) = G[N]
  BY SumSteps
<1> DEFINE first(k) == W \cap Ids(k)
           n(k) == Cardinality(first(k))
           added(k) == c * n(k)
           T == {k \in 0 .. N : G[k] = F[k] + added(k)}
<1>3. FirstPacketId \in Nat
  BY RouterAssumption
<1>4. ASSUME NEW k \in Nat
      PROVE  IsFiniteSet(first(k)) /\ n(k) \in Nat /\ added(k) \in Int
  <2>1. IsFiniteSet(Ids(k))
    <3>1. FirstPacketId \in Int /\ FirstPacketId + k - 1 \in Int
      BY <1>3
    <3> QED
      BY <3>1, FS_Interval DEF Ids
  <2>2. IsFiniteSet(first(k))
    BY <2>1, FS_Subset
  <2>3. n(k) \in Nat
    BY <2>2, FS_CardinalityType
  <2> HIDE DEF n
  <2> QED
    BY <2>2, <2>3
<1>5. 0 \in T
  <2>1. first(0) = {}
    BY <1>3 DEF Ids
  <2>2. n(0) = 0
    BY <2>1, FS_EmptySet
  <2> HIDE DEF n
  <2>3. added(0) = 0
    BY <2>2
  <2> HIDE DEF added
  <2> QED
    BY <1>1, <1>2, <2>3
<1>6. ASSUME NEW k \in 1 .. N, k - 1 \in T
      PROVE  k \in T
  <2>1. PICK p \in Int : p = FirstPacketId + k - 1
    BY <1>3
  <2>2. p \in Ids(N)
    BY <1>3, <2>1 DEF Ids
  <2>3. Ids(k) = Ids(k - 1) \cup {p} /\ p \notin Ids(k - 1) /\ k - 1 \in Nat
    <3>1. Ids(k) = FirstPacketId .. p
      BY <2>1 DEF Ids
    <3>2. Ids(k - 1) = FirstPacketId .. p - 1
      <4>1. FirstPacketId + (k - 1) - 1 = p - 1
        BY <1>3, <2>1
      <4> QED
        BY <4>1 DEF Ids
    <3>3. p >= FirstPacketId
      BY <1>3, <2>1
    <3> QED
      BY <1>3, <3>1, <3>2, <3>3
  <2>4. /\ G[k] = G[k - 1] + g[p] /\ F[k] = F[k - 1] + f[p]
        /\ G[k - 1] = F[k - 1] + added(k - 1)
        /\ G[k - 1] \in Int /\ F[k - 1] \in Int /\ f[p] \in Int
    <3> HIDE DEF added
    <3> QED
      BY <1>1, <1>2, <1>6, <2>1, <2>2
  <2>5. /\ IsFiniteSet(first(k - 1)) /\ n(k - 1) \in Nat /\ added(k - 1) \in Int
    BY <1>4, <2>3
  <2>6. CASE p \in W
    <3>1. first(k) = first(k - 1) \cup {p} /\ p \notin first(k - 1)
      BY <2>3, <2>6
    <3>2. n(k) = n(k - 1) + 1
      <4> HIDE DEF first
      <4> QED
        BY <2>5, <3>1, FS_AddElement
    <3>3. g[p] = f[p] + c
      BY <2>2, <2>6
    <3> HIDE DEF n
    <3>4. added(k) = added(k - 1) + c
      <4>1. PICK x \in Int : x = n(k - 1) /\ n(k) = x + 1
        BY <2>5, <3>2
      <4>2. c * (x + 1) = c * x + c
        OBVIOUS
      <4>3. added(k) = c * (x + 1) /\ added(k - 1) = c * x
        BY <4>1
      <4> QED
        BY <4>2, <4>3
    <3> HIDE DEF added
    <3>5. G[k] = (F[k - 1] + added(k - 1)) + (f[p] + c)
      BY <2>4, <3>3
    <3>6. F[k] + added(k) = (F[k - 1] + f[p]) + (added(k - 1) + c)
      BY <2>4, <3>4
    <3>7. (F[k - 1] + added(k - 1)) + (f[p] + c) = (F[k - 1] + f[p]) + (added(k - 1) + c)
      BY <2>4, <2>5, SMTT(30)
    <3> QED
      BY <3>5, <3>6, <3>7
  <2>7. CASE p \notin W
    <3>1. first(k) = first(k - 1)
      BY <2>3, <2>7
    <3>2. n(k) = n(k - 1)
      BY <3>1
    <3>3. g[p] = f[p]
      BY <2>2, <2>7
    <3> HIDE DEF n
    <3>4. added(k) = added(k - 1)
      BY <3>2
    <3> HIDE DEF added
    <3> QED
      BY <2>4, <2>5, <3>3, <3>4, SMTT(30)
  <2> QED
    BY <2>6, <2>7
<1>7. N \in T
  <2>1. \A k \in 0 .. N : k \in T
    <3> HIDE DEF T
    <3> QED
      BY <1>5, <1>6, UpTo
  <2> QED
    BY <2>1
<1>8. first(N) = W
  OBVIOUS
<1> QED
  BY <1>1, <1>2, <1>7, <1>8

\* A sum of nothing but zeros.
LEMMA SumOfZeros ==
  ASSUME NEW N \in Nat, NEW f \in [Ids(N) -> Int], \A p \in Ids(N) : f[p] = 0
  PROVE  SumOfFirst(f, N) = 0
<1>1. PICK F \in [0 .. N -> Int] :
        /\ F[0] = 0
        /\ \A k \in 1 .. N : F[k] = F[k - 1] + f[FirstPacketId + k - 1]
        /\ SumOfFirst(f, N) = F[N]
  BY SumSteps
<1> DEFINE T == {k \in 0 .. N : F[k] = 0}
<1>2. 0 \in T
  BY <1>1
<1>3. ASSUME NEW k \in 1 .. N, k - 1 \in T
      PROVE  k \in T
  <2>1. FirstPacketId + k - 1 \in Ids(N)
    BY RouterAssumption DEF Ids
  <2> QED
    BY <1>1, <1>3, <2>1
<1>4. \A k \in 0 .. N : k \in T
  <2> HIDE DEF T
  <2> QED
    BY <1>2, <1>3, UpTo
<1> QED
  BY <1>1, <1>4

\* A sum is a number.
LEMMA SumType ==
  ASSUME NEW N \in Nat, NEW f \in [Ids(N) -> Int]
  PROVE  SumOfFirst(f, N) \in Int
  BY SumSteps

-----------------------------------------------------------------------------
\* The busy times and the areas.

\* Each packet has one record of a kind, which is the first.
LEMMA FirstAtIs ==
  ASSUME NEW s, WellFormed(s), NEW kind, NEW i \in Of(s, kind)
  PROVE  FirstAt(s, kind, s[i].packet_id) = s[i].timestamp
<1>1. /\ DOMAIN s \subseteq Nat /\ i \in DOMAIN s /\ s[i].kind = kind
      /\ \A j \in Of(s, kind) : s[j].packet_id = s[i].packet_id => j = i
  BY DEF WellFormed, Of, SamePacket
<1> DEFINE places == {j \in Of(s, kind) : s[j].packet_id = s[i].packet_id}
<1>2. places = {i}
  BY <1>1
<1>3. (CHOOSE k \in places : \A j \in places : k <= j) = i
  BY <1>1, <1>2
<1> QED
  BY <1>3 DEF FirstAt

\* A packet that is seen has a time.
LEMMA FirstAtType ==
  ASSUME NEW s, WellFormed(s), NEW kind, NEW n, NEW q \in Seen(s, kind, n)
  PROVE  FirstAt(s, kind, q) \in Nat
<1>1. PICK i \in Of(s, kind) : s[i].packet_id = q
  BY DEF Seen
<1>2. i \in DOMAIN s /\ s \in Seq(AnyRecord)
  BY DEF Of, WellFormed
<1> QED
  BY <1>1, <1>2, FirstAtIs, RecordFields

\* Who has departed has started, who has started has arrived.
LEMMA SeenNested ==
  ASSUME NEW s, WellFormed(s), NEW n \in Nat
  PROVE  /\ Seen(s, "DEPARTURE", n) \subseteq Seen(s, "SERVICE_START", n)
         /\ Seen(s, "SERVICE_START", n) \subseteq Seen(s, "ARRIVAL", n)
<1>1. DOMAIN s \subseteq Nat
  BY DEF WellFormed
<1>2. ASSUME NEW q \in Seen(s, "DEPARTURE", n)
      PROVE  q \in Seen(s, "SERVICE_START", n)
  <2>1. PICK i \in Of(s, "DEPARTURE") : i <= n /\ s[i].packet_id = q
    BY DEF Seen
  <2>2. PICK j \in Of(s, "SERVICE_START") : j < i /\ s[j].packet_id = q
    BY <2>1 DEF WellFormed, SamePacket
  <2>3. j <= n
    BY <1>1, <2>1, <2>2 DEF Of
  <2> QED
    BY <2>2, <2>3 DEF Seen
<1>3. ASSUME NEW q \in Seen(s, "SERVICE_START", n)
      PROVE  q \in Seen(s, "ARRIVAL", n)
  <2>1. PICK i \in Of(s, "SERVICE_START") : i <= n /\ s[i].packet_id = q
    BY DEF Seen
  <2>2. PICK j \in Of(s, "ARRIVAL") : j < i /\ s[j].packet_id = q
    BY <2>1 DEF WellFormed, SamePacket
  <2>3. j <= n
    BY <1>1, <2>1, <2>2 DEF Of
  <2> QED
    BY <2>2, <2>3 DEF Seen
<1> QED
  BY <1>2, <1>3

\* The service of packet q if its end is among the first n records.
ServedBy(s, n, q) ==
  IF q \in Seen(s, "DEPARTURE", n)
  THEN FirstAt(s, "DEPARTURE", q) - FirstAt(s, "SERVICE_START", q)
  ELSE 0

\* The service of a packet is a number.
LEMMA ServedByType ==
  ASSUME NEW s, WellFormed(s), NEW n \in Nat, NEW q
  PROVE  ServedBy(s, n, q) \in Int
<1>1. CASE q \in Seen(s, "DEPARTURE", n)
  <2>1. FirstAt(s, "DEPARTURE", q) \in Nat /\ FirstAt(s, "SERVICE_START", q) \in Nat
    BY <1>1, SeenNested, FirstAtType
  <2> QED
    BY <1>1, <2>1 DEF ServedBy
<1> QED
  BY <1>1 DEF ServedBy

Active(s, n) == {[start |-> s[i].timestamp, packet_id |-> s[i].packet_id] : i \in Open(s, n)}

\* The time from which the first n records leave the rest.
From(s, n) == IF n = 0 THEN s[1].timestamp ELSE s[n].timestamp

\* What the walk has found after n records.
Profiled(s, N, n, acc) ==
  /\ ~acc.error
  /\ acc.active = Active(s, n)
  /\ acc.intervals = Cardinality(Seen(s, "DEPARTURE", n))
  /\ acc.closed = SumOfFirst([q \in Ids(N) |-> ServedBy(s, n, q)], N)
  /\ Len(s) # 0 => \A u \in Int :
       u >= From(s, n) => acc.closed + SinceStart(acc.active, u) <= u - s[1].timestamp

\* The time since the start of one service, or of none.
LEMMA SinceOne ==
  ASSUME NEW a, NEW t
  PROVE  SinceStart({}, t) = 0 /\ SinceStart({a}, t) = t - a.start
<1>1. (CHOOSE x \in {a} : TRUE) = a
  OBVIOUS
<1> QED
  BY <1>1 DEF SinceStart

\* The times of the records do not go back.
LEMMA FromGrows ==
  ASSUME NEW s, WellFormed(s), NEW n \in 1 .. Len(s)
  PROVE  /\ From(s, n - 1) \in Nat /\ From(s, n) \in Nat /\ s[1].timestamp \in Nat
         /\ From(s, n - 1) <= From(s, n) /\ From(s, n) = s[n].timestamp
<1>1. /\ s \in Seq(AnyRecord) /\ Len(s) \in Nat /\ DOMAIN s = 1 .. Len(s)
      /\ \A i \in DOMAIN s : s[i].timestamp \in Nat
  BY RecordFields DEF WellFormed
<1>2. 1 \in DOMAIN s /\ n \in DOMAIN s
  BY <1>1
<1>3. CASE n = 1
  BY <1>1, <1>2, <1>3 DEF From
<1>4. CASE n # 1
  <2>1. n - 1 \in DOMAIN s /\ n - 1 < n
    BY <1>1, <1>4
  <2>2. s[n - 1].timestamp <= s[n].timestamp
    BY <1>2, <2>1 DEF WellFormed
  <2> QED
    BY <1>1, <1>2, <1>4, <2>1, <2>2 DEF From
<1> QED
  BY <1>3, <1>4

\* Nothing has been found before the first record.
LEMMA ProfiledAtStart ==
  ASSUME NEW s, WellFormed(s), NEW N \in Nat
  PROVE  Profiled(s, N, 0, Idle)
<1>1. s \in Seq(AnyRecord) /\ DOMAIN s \subseteq Nat \ {0}
  BY DEF WellFormed
<1>2. \A kind : Seen(s, kind, 0) = {}
  BY <1>1, SeenGrows
<1>3. Open(s, 0) = {}
  BY <1>1 DEF Open, Of
<1>4. Active(s, 0) = {}
  BY <1>3 DEF Active
<1>5. SumOfFirst([q \in Ids(N) |-> ServedBy(s, 0, q)], N) = 0
  <2> DEFINE f == [q \in Ids(N) |-> ServedBy(s, 0, q)]
  <2>1. f \in [Ids(N) -> Int] /\ \A q \in Ids(N) : f[q] = 0
    BY <1>2 DEF ServedBy
  <2> HIDE DEF f
  <2>2. SumOfFirst(f, N) = 0
    BY <2>1, SumOfZeros
  <2> QED
    BY <2>2 DEF f
<1>6. Cardinality(Seen(s, "DEPARTURE", 0)) = 0
  BY <1>2, FS_EmptySet
<1>7. ASSUME Len(s) # 0, NEW u \in Int, u >= From(s, 0)
      PROVE  0 + SinceStart({}, u) <= u - s[1].timestamp
  <2>1. 1 \in DOMAIN s
    BY <1>1, <1>7
  <2>2. s[1].timestamp \in Nat
    BY <1>1, <2>1, RecordFields
  <2>3. SinceStart({}, u) = 0 /\ From(s, 0) = s[1].timestamp
    BY SinceOne DEF From
  <2> QED
    BY <1>7, <2>2, <2>3
<1> QED
  BY <1>4, <1>5, <1>6, <1>7 DEF Profiled, Idle

\* A start opens an interval.
LEMMA ProfileStart ==
  ASSUME NEW s, WellFormed(s), NEW N \in Nat, NEW n \in 1 .. Len(s), s[n].kind = "SERVICE_START",
         NEW acc \in BusyStates, Profiled(s, N, n - 1, acc)
  PROVE  Profiled(s, N, n, BusyStep(acc, s[n]))
<1>1. PICK r : r = s[n]
  OBVIOUS
<1>2. /\ s \in Seq(AnyRecord) /\ Len(s) \in Nat /\ n \in DOMAIN s
      /\ r.timestamp \in Nat /\ acc.closed \in Int
  BY <1>1, RecordFields DEF WellFormed, BusyStates
<1>3. Open(s, n - 1) = {} /\ Open(s, n) = {n}
  BY OpenStep
<1>4. acc.active = {} /\ Active(s, n) = {[start |-> r.timestamp, packet_id |-> r.packet_id]}
  BY <1>1, <1>3 DEF Active, Profiled
<1>5. Seen(s, "DEPARTURE", n) = Seen(s, "DEPARTURE", n - 1)
  BY SeenNext
<1>6. \A q : ServedBy(s, n, q) = ServedBy(s, n - 1, q)
  BY <1>5 DEF ServedBy
<1>7. PICK after : after = BusyStep(acc, s[n])
  OBVIOUS
<1>8. /\ ~after.error /\ after.active = Active(s, n)
      /\ after.intervals = acc.intervals /\ after.closed = acc.closed
  BY <1>1, <1>4, <1>7 DEF BusyStep, Profiled, BusyStates
<1>9. ASSUME NEW u \in Int, u >= From(s, n)
      PROVE  after.closed + SinceStart(after.active, u) <= u - s[1].timestamp
  <2>0. r.timestamp >= From(s, n - 1) /\ r.timestamp \in Int /\ Len(s) # 0
    BY <1>1, <1>2, FromGrows
  <2>1. acc.closed + SinceStart(acc.active, r.timestamp) <= r.timestamp - s[1].timestamp
    BY <2>0 DEF Profiled
  <2>2. SinceStart(acc.active, r.timestamp) = 0 /\ SinceStart(after.active, u) = u - r.timestamp
    <3>1. PICK a : a = [start |-> r.timestamp, packet_id |-> r.packet_id]
      OBVIOUS
    <3>2. after.active = {a} /\ a.start = r.timestamp
      BY <1>4, <1>8, <3>1
    <3> QED
      BY <1>4, <3>2, SinceOne
  <2> QED
    BY <1>2, <1>8, <2>1, <2>2, FromGrows, SMTT(30)
<1>10. after.closed = SumOfFirst([q \in Ids(N) |-> ServedBy(s, n, q)], N)
  BY <1>6, <1>8 DEF Profiled
<1> QED
  BY <1>5, <1>7, <1>8, <1>9, <1>10 DEF Profiled

\* A departure closes it.
LEMMA ProfileDeparture ==
  ASSUME NEW s, WellFormed(s), NEW N \in Nat, NEW n \in 1 .. Len(s), s[n].kind = "DEPARTURE",
         s[n].packet_id \in Ids(N), NEW acc \in BusyStates, Profiled(s, N, n - 1, acc)
  PROVE  Profiled(s, N, n, BusyStep(acc, s[n]))
<1>1. PICK r : r = s[n]
  OBVIOUS
<1>2. PICK p : p = r.packet_id
  OBVIOUS
<1>3. /\ s \in Seq(AnyRecord) /\ Len(s) \in Nat /\ n \in DOMAIN s /\ n - 1 \in Nat /\ n \in Nat
      /\ r.timestamp \in Nat /\ acc.closed \in Int /\ acc.intervals \in Int
  BY <1>1, RecordFields DEF WellFormed, BusyStates
<1>4. PICK i \in Of(s, "SERVICE_START") :
        Open(s, n - 1) = {i} /\ i < n /\ s[i].packet_id = p /\ Open(s, n) = {}
  BY <1>1, <1>2, OpenStep
<1>5. s[i].timestamp \in Nat /\ s[i].timestamp <= r.timestamp
  BY <1>1, <1>3, <1>4, RecordFields DEF Of, WellFormed
<1>6. PICK a : a = [start |-> s[i].timestamp, packet_id |-> p]
  OBVIOUS
<1>7. acc.active = {a} /\ Active(s, n) = {}
  BY <1>4, <1>6 DEF Active, Profiled
<1>8. /\ Seen(s, "DEPARTURE", n) = Seen(s, "DEPARTURE", n - 1) \cup {p}
      /\ p \notin Seen(s, "DEPARTURE", n - 1)
  <2>1. Seen(s, "DEPARTURE", n) = Seen(s, "DEPARTURE", n - 1) \cup {s[n].packet_id}
    BY SeenNext
  <2>2. s[n].packet_id \notin Seen(s, s[n].kind, n - 1)
    BY SeenOrder
  <2> QED
    BY <1>1, <1>2, <2>1, <2>2
<1>9. PICK t \in Int : t = r.timestamp - s[i].timestamp
  BY <1>3, <1>5
<1>10. SinceStart(acc.active, r.timestamp) = t
  BY <1>6, <1>7, <1>9, SinceOne
<1>11. PICK after : after = BusyStep(acc, s[n])
  OBVIOUS
<1>12. /\ after.active = {} /\ after.intervals = acc.intervals + 1
       /\ after.closed = acc.closed + t
       /\ after.error = (\/ acc.error
                         \/ acc.active = {}
                         \/ \E x \in acc.active : x.packet_id # r.packet_id \/ r.timestamp < x.start)
  BY <1>1, <1>10, <1>11 DEF BusyStep
<1>13. ~after.error
  <2>1. ~acc.error /\ a.packet_id = r.packet_id /\ ~(r.timestamp < a.start)
    BY <1>2, <1>3, <1>5, <1>6 DEF Profiled
  <2> QED
    BY <1>7, <1>12, <2>1
<1>14. after.closed = SumOfFirst([q \in Ids(N) |-> ServedBy(s, n, q)], N)
  <2> DEFINE f == [q \in Ids(N) |-> ServedBy(s, n - 1, q)]
             g == [q \in Ids(N) |-> ServedBy(s, n, q)]
  <2>1. f \in [Ids(N) -> Int] /\ g \in [Ids(N) -> Int] /\ p \in Ids(N)
    BY <1>1, <1>2, <1>3, ServedByType
  <2>2. ServedBy(s, n, p) = t /\ ServedBy(s, n - 1, p) = 0
    <3>1. FirstAt(s, "SERVICE_START", p) = s[i].timestamp
      BY <1>4, FirstAtIs
    <3>2. FirstAt(s, "DEPARTURE", p) = r.timestamp
      <4>1. n \in Of(s, "DEPARTURE")
        BY <1>3 DEF Of
      <4> QED
        BY <1>1, <1>2, <4>1, FirstAtIs
    <3> QED
      BY <1>8, <1>9, <3>1, <3>2 DEF ServedBy
  <2>3. \A q \in Ids(N) : q # p => ServedBy(s, n, q) = ServedBy(s, n - 1, q)
    BY <1>8 DEF ServedBy
  <2>4. \A q \in Ids(N) : g[q] = IF q \in {p} THEN f[q] + t ELSE f[q]
    BY <2>2, <2>3
  <2>5. Cardinality({p}) = 1
    BY FS_Singleton
  <2>6. acc.closed = SumOfFirst(f, N)
    BY DEF Profiled
  <2> HIDE DEF f, g
  <2>7. SumOfFirst(g, N) = SumOfFirst(f, N) + t * Cardinality({p})
    BY <2>1, <2>4, SumChange, SMTT(30)
  <2>8. t * 1 = t
    OBVIOUS
  <2>9. after.closed = SumOfFirst(g, N)
    BY <1>12, <2>5, <2>6, <2>7, <2>8
  <2> QED
    BY <2>9 DEF g
<1>15. after.intervals = Cardinality(Seen(s, "DEPARTURE", n))
  <2>1. IsFiniteSet(Seen(s, "DEPARTURE", n - 1))
    BY <1>3, SeenFinite
  <2>2. acc.intervals = Cardinality(Seen(s, "DEPARTURE", n - 1))
    BY DEF Profiled
  <2> QED
    BY <1>8, <1>12, <2>1, <2>2, FS_AddElement
<1>16. ASSUME NEW u \in Int, u >= From(s, n)
       PROVE  after.closed + SinceStart(after.active, u) <= u - s[1].timestamp
  <2>0. r.timestamp >= From(s, n - 1) /\ r.timestamp \in Int /\ Len(s) # 0
    BY <1>1, <1>3, FromGrows
  <2>1. acc.closed + SinceStart(acc.active, r.timestamp) <= r.timestamp - s[1].timestamp
    BY <2>0 DEF Profiled
  <2>2. SinceStart(after.active, u) = 0
    BY <1>12, SinceOne
  <2>3. u >= r.timestamp /\ s[1].timestamp \in Nat
    BY <1>1, <1>16, FromGrows
  <2> QED
    BY <1>3, <1>10, <1>12, <2>1, <2>2, <2>3
<1>17. after.active = Active(s, n)
  BY <1>7, <1>12
<1> QED
  BY <1>11, <1>13, <1>14, <1>15, <1>16, <1>17 DEF Profiled

\* No other record matters.
LEMMA ProfileOther ==
  ASSUME NEW s, WellFormed(s), NEW N \in Nat, NEW n \in 1 .. Len(s),
         s[n].kind # "SERVICE_START", s[n].kind # "DEPARTURE",
         NEW acc \in BusyStates, Profiled(s, N, n - 1, acc)
  PROVE  Profiled(s, N, n, BusyStep(acc, s[n]))
<1>1. s \in Seq(AnyRecord) /\ BusyStep(acc, s[n]) = acc
  BY DEF BusyStep, WellFormed
<1>2. Open(s, n) = Open(s, n - 1)
  BY OpenStep
<1>3. Seen(s, "DEPARTURE", n) = Seen(s, "DEPARTURE", n - 1)
  BY SeenNext
<1>4. \A q : ServedBy(s, n, q) = ServedBy(s, n - 1, q)
  BY <1>3 DEF ServedBy
<1>5. \A u \in Int : u >= From(s, n) => u >= From(s, n - 1)
  BY FromGrows
<1> QED
  BY <1>1, <1>2, <1>3, <1>4, <1>5 DEF Profiled, Active

\* So the walk finds the services, and the busy time of a server is never more
\* than the time that has passed.
LEMMA BusyTimes ==
  ASSUME NEW s, WellFormed(s), NEW N \in Nat, \A i \in DOMAIN s : s[i].packet_id \in Ids(N)
  PROVE  BusyProfile(s) \in BusyStates /\ Profiled(s, N, Len(s), BusyProfile(s))
<1>1. s \in Seq(AnyRecord) /\ Len(s) \in Nat /\ DOMAIN s = 1 .. Len(s)
  BY DEF WellFormed
<1>2. PICK w : w = BusyWalk(s)
  OBVIOUS
<1>3. /\ w \in [0 .. Len(s) -> BusyStates] /\ w[0] = Idle
      /\ \A n \in 1 .. Len(s) : w[n] = BusyStep(w[n - 1], s[n])
  BY <1>1, <1>2, BusyWalkSteps
<1> DEFINE T == {n \in 0 .. Len(s) : Profiled(s, N, n, w[n])}
<1>4. 0 \in T
  BY <1>1, <1>3, ProfiledAtStart
<1>5. ASSUME NEW n \in 1 .. Len(s), n - 1 \in T
      PROVE  n \in T
  <2>1. /\ n \in DOMAIN s /\ w[n - 1] \in BusyStates /\ Profiled(s, N, n - 1, w[n - 1])
        /\ w[n] = BusyStep(w[n - 1], s[n])
    BY <1>1, <1>3, <1>5
  <2>2. Profiled(s, N, n, BusyStep(w[n - 1], s[n]))
    BY <2>1, ProfileStart, ProfileDeparture, ProfileOther
  <2> QED
    BY <2>1, <2>2
<1>6. \A n \in 0 .. Len(s) : n \in T
  <2> HIDE DEF T
  <2> QED
    BY <1>1, <1>4, <1>5, UpTo
<1> QED
  BY <1>1, <1>2, <1>3, <1>6 DEF BusyProfile

\* How long packet q has waited in the first n records.
Waited(s, D, n, q) ==
  IF q \in D \/ q \notin Seen(s, "ARRIVAL", n) THEN 0
  ELSE (IF q \in Seen(s, "SERVICE_START", n) THEN FirstAt(s, "SERVICE_START", q)
        ELSE s[n].timestamp) - FirstAt(s, "ARRIVAL", q)

\* The wait of a packet is a number.
LEMMA WaitedType ==
  ASSUME NEW s, WellFormed(s), NEW D, NEW n \in 0 .. Len(s), NEW q
  PROVE  Waited(s, D, n, q) \in Int
<1>1. /\ s \in Seq(AnyRecord) /\ Len(s) \in Nat /\ DOMAIN s = 1 .. Len(s)
      /\ \A i \in DOMAIN s : s[i].timestamp \in Nat
  BY RecordFields DEF WellFormed
<1>2. CASE q \in D \/ q \notin Seen(s, "ARRIVAL", n)
  BY <1>2 DEF Waited
<1>3. CASE q \notin D /\ q \in Seen(s, "ARRIVAL", n)
  <2>1. n \in DOMAIN s
    BY <1>1, <1>3, SeenGrows
  <2>2. FirstAt(s, "ARRIVAL", q) \in Nat /\ s[n].timestamp \in Nat
    BY <1>1, <1>3, <2>1, FirstAtType
  <2>3. q \in Seen(s, "SERVICE_START", n) => FirstAt(s, "SERVICE_START", q) \in Nat
    BY FirstAtType
  <2> QED
    BY <1>3, <2>2, <2>3 DEF Waited
<1> QED
  BY <1>2, <1>3

\* The packets that wait go on waiting until the next record.
LEMMA WaitedStep ==
  ASSUME NEW s, WellFormed(s), NEW D, NeverStart(s, D), NEW n \in 1 .. Len(s), NEW q,
         NEW c, c = s[n].timestamp - From(s, n - 1)
  PROVE  Waited(s, D, n, q) = IF q \in Waiting(s, D, n - 1) THEN Waited(s, D, n - 1, q) + c
                              ELSE Waited(s, D, n - 1, q)
<1>1. /\ s \in Seq(AnyRecord) /\ Len(s) \in Nat /\ DOMAIN s = 1 .. Len(s) /\ n \in DOMAIN s
      /\ s[n].timestamp \in Nat /\ n - 1 \in Nat
  BY RecordFields DEF WellFormed
<1>2. PICK p : p = s[n].packet_id
  OBVIOUS
<1>3. /\ s[n].kind = "ARRIVAL" =>
           /\ Seen(s, "ARRIVAL", n) = Seen(s, "ARRIVAL", n - 1) \cup {p}
           /\ p \notin Seen(s, "ARRIVAL", n - 1) /\ p \notin Seen(s, "SERVICE_START", n - 1)
      /\ s[n].kind # "ARRIVAL" => Seen(s, "ARRIVAL", n) = Seen(s, "ARRIVAL", n - 1)
      /\ s[n].kind = "SERVICE_START" =>
           /\ Seen(s, "SERVICE_START", n) = Seen(s, "SERVICE_START", n - 1) \cup {p}
           /\ p \in Seen(s, "ARRIVAL", n - 1) /\ p \notin Seen(s, "SERVICE_START", n - 1)
      /\ s[n].kind # "SERVICE_START" =>
           Seen(s, "SERVICE_START", n) = Seen(s, "SERVICE_START", n - 1)
  BY <1>2, SeenNext, SeenOrder
<1>4. \A kind : s[n].kind = kind => FirstAt(s, kind, p) = s[n].timestamp
  BY <1>1, <1>2, FirstAtIs DEF Of
<1>5. Seen(s, "SERVICE_START", n - 1) \subseteq Seen(s, "ARRIVAL", n - 1)
  BY <1>1, SeenNested
<1>6. CASE q \in Waiting(s, D, n - 1)
  <2>1. /\ q \notin D /\ q \in Seen(s, "ARRIVAL", n - 1)
        /\ q \notin Seen(s, "SERVICE_START", n - 1) /\ q \in Seen(s, "ARRIVAL", n)
    BY <1>3, <1>6 DEF Waiting
  <2>2. n - 1 # 0
    BY <1>1, <2>1, SeenGrows
  <2>3. PICK t \in Nat : t = s[n - 1].timestamp
    BY <1>1, <2>2, RecordFields
  <2>4. c = s[n].timestamp - t
    BY <2>2, <2>3 DEF From
  <2>5. PICK u \in Nat : u = FirstAt(s, "ARRIVAL", q)
    BY <2>1, FirstAtType
  <2>6. Waited(s, D, n - 1, q) = t - u
    BY <2>1, <2>3, <2>5 DEF Waited
  <2>7. Waited(s, D, n, q) = s[n].timestamp - u
    <3>1. CASE q \in Seen(s, "SERVICE_START", n)
      <4>1. q = p /\ s[n].kind = "SERVICE_START"
        BY <1>3, <2>1, <3>1
      <4>2. FirstAt(s, "SERVICE_START", q) = s[n].timestamp
        BY <1>4, <4>1
      <4> QED
        BY <2>1, <2>5, <3>1, <4>2 DEF Waited
    <3>2. CASE q \notin Seen(s, "SERVICE_START", n)
      BY <2>1, <2>5, <3>2 DEF Waited
    <3> QED
      BY <3>1, <3>2
  <2> QED
    BY <1>1, <1>6, <2>4, <2>6, <2>7
<1>7. CASE q \notin Waiting(s, D, n - 1)
  <2>1. CASE q \in D
    BY <1>7, <2>1 DEF Waited
  <2>2. CASE q \notin D /\ q \notin Seen(s, "ARRIVAL", n - 1)
    <3>1. CASE q \notin Seen(s, "ARRIVAL", n)
      BY <1>7, <2>2, <3>1 DEF Waited
    <3>2. CASE q \in Seen(s, "ARRIVAL", n)
      <4>1. q = p /\ s[n].kind = "ARRIVAL"
        BY <1>3, <2>2, <3>2
      <4>2. q \notin Seen(s, "SERVICE_START", n) /\ FirstAt(s, "ARRIVAL", q) = s[n].timestamp
        BY <1>3, <1>4, <4>1
      <4>3. Waited(s, D, n, q) = 0
        BY <1>1, <2>2, <3>2, <4>2 DEF Waited
      <4> QED
        BY <1>7, <2>2, <4>3 DEF Waited
    <3> QED
      BY <3>1, <3>2
  <2>3. CASE q \notin D /\ q \in Seen(s, "SERVICE_START", n - 1)
    <3>1. /\ q \in Seen(s, "SERVICE_START", n)
          /\ q \in Seen(s, "ARRIVAL", n) /\ q \in Seen(s, "ARRIVAL", n - 1)
      BY <1>3, <1>5, <2>3
    <3> QED
      BY <1>7, <2>3, <3>1 DEF Waited
  <2> QED
    BY <1>7, <2>1, <2>2, <2>3 DEF Waiting
<1> QED
  BY <1>6, <1>7

\* So the area is the sum of the waits.
LEMMA Areas ==
  ASSUME NEW s, WellFormed(s), NEW D, NeverStart(s, D), NEW N \in Nat,
         \A i \in DOMAIN s : s[i].packet_id \in Ids(N)
  PROVE  QueueWalk(s, D)[Len(s)].area =
           SumOfFirst([q \in Ids(N) |-> Waited(s, D, Len(s), q)], N)
<1>1. s \in Seq(AnyRecord) /\ Len(s) \in Nat /\ DOMAIN s = 1 .. Len(s)
  BY DEF WellFormed
<1>2. PICK w : w = QueueWalk(s, D)
  OBVIOUS
<1>3. /\ w \in [0 .. Len(s) -> QueueStates] /\ w[0] = QueueStart(s)
      /\ \A n \in 1 .. Len(s) : w[n] = QueueStep(w[n - 1], s[n], D)
  BY <1>1, <1>2, QueueWalkSteps
<1>4. \A n \in 0 .. Len(s) :
        /\ IsFiniteSet(Waiting(s, D, n)) /\ w[n].length = Cardinality(Waiting(s, D, n))
        /\ n # 0 => w[n].previous_time = s[n].timestamp
  BY <1>2, QueueLengths
<1> DEFINE f(n) == [q \in Ids(N) |-> Waited(s, D, n, q)]
           T == {n \in 0 .. Len(s) : w[n].area = SumOfFirst(f(n), N)}
<1>5. 0 \in T
  <2>1. Seen(s, "ARRIVAL", 0) = {}
    BY <1>1, SeenGrows
  <2>2. f(0) \in [Ids(N) -> Int] /\ \A q \in Ids(N) : f(0)[q] = 0
    BY <2>1 DEF Waited
  <2>3. w[0].area = 0
    BY <1>3 DEF QueueStart
  <2> HIDE DEF f
  <2>4. SumOfFirst(f(0), N) = 0
    BY <2>2, SumOfZeros
  <2> QED
    BY <1>1, <2>3, <2>4
<1>6. ASSUME NEW n \in 1 .. Len(s), n - 1 \in T
      PROVE  n \in T
  <2>1. /\ n \in DOMAIN s /\ n - 1 \in 0 .. Len(s) /\ n \in 0 .. Len(s) /\ w[n - 1] \in QueueStates
        /\ w[n] = QueueStep(w[n - 1], s[n], D) /\ w[n - 1].area = SumOfFirst(f(n - 1), N)
    BY <1>1, <1>3, <1>6
  <2>2. w[n - 1].previous_time = From(s, n - 1)
    <3>1. CASE n = 1
      <4>1. s # <<>>
        BY <1>1
      <4> QED
        BY <1>3, <3>1, <4>1 DEF QueueStart, From
    <3>2. CASE n # 1
      BY <1>4, <2>1, <3>2 DEF From
    <3> QED
      BY <3>1, <3>2
  <2>3. PICK c \in Int : c = s[n].timestamp - From(s, n - 1)
    BY FromGrows
  <2>4. PICK W : W = Waiting(s, D, n - 1)
    OBVIOUS
  <2>5. w[n].area = w[n - 1].area + Cardinality(W) * c
    BY <1>4, <2>1, <2>2, <2>3, <2>4 DEF QueueStep
  <2>6. f(n - 1) \in [Ids(N) -> Int] /\ f(n) \in [Ids(N) -> Int]
    BY <2>1, WaitedType
  <2>7. W \in SUBSET Ids(N)
    <3>1. Seen(s, "ARRIVAL", n - 1) \subseteq Ids(N)
      BY DEF Seen, Of
    <3> QED
      BY <2>4, <3>1 DEF Waiting
  <2>8. \A q \in Ids(N) : f(n)[q] = IF q \in W THEN f(n - 1)[q] + c ELSE f(n - 1)[q]
    <3>1. ASSUME NEW q \in Ids(N)
          PROVE  Waited(s, D, n, q) = IF q \in W THEN Waited(s, D, n - 1, q) + c
                                      ELSE Waited(s, D, n - 1, q)
      BY <2>3, <2>4, WaitedStep
    <3> QED
      BY <3>1
  <2> HIDE DEF f
  <2>9. SumOfFirst(f(n), N) = SumOfFirst(f(n - 1), N) + c * Cardinality(W)
    BY <2>6, <2>7, <2>8, SumChange, ZenonT(40)
  <2>10. c * Cardinality(W) = Cardinality(W) * c
    <3>1. Cardinality(W) \in Nat
      BY <1>4, <2>1, <2>4, FS_CardinalityType
    <3> QED
      BY <3>1
  <2>11. w[n].area = SumOfFirst(f(n), N)
    BY <2>1, <2>5, <2>9, <2>10
  <2> QED
    BY <2>1, <2>11
<1>7. \A n \in 0 .. Len(s) : n \in T
  <2> HIDE DEF T
  <2> QED
    BY <1>1, <1>5, <1>6, UpTo
<1> QED
  BY <1>1, <1>2, <1>7

-----------------------------------------------------------------------------
\* The records of a simulation are the histories of packets in a single server.

\* One record more, of the next thing that can happen to a packet.
LEMMA WellFormedMore ==
  ASSUME NEW s, WellFormed(s), NEW x \in AnyRecord,
         \A i \in DOMAIN s : s[i].timestamp <= x.timestamp,
         \A i \in Of(s, x.kind) : s[i].packet_id # x.packet_id,
         x.kind = "SERVICE_START" =>
           /\ Has(s, "ARRIVAL", x.packet_id)
           /\ ~Has(s, "DROP", x.packet_id)
           /\ \A i \in Of(s, "SERVICE_START") : Has(s, "DEPARTURE", s[i].packet_id),
         x.kind = "DEPARTURE" => Has(s, "SERVICE_START", x.packet_id),
         x.kind = "DROP" => ~Has(s, "SERVICE_START", x.packet_id)
  PROVE  WellFormed(Append(s, x))
<1> DEFINE n == Len(s) + 1
           q == Append(s, x)
<1>1. /\ DOMAIN q = DOMAIN s \cup {n} /\ n \notin DOMAIN s
      /\ \A i \in DOMAIN s : i < n /\ q[i] = s[i]
      /\ q[n] = x
      /\ DOMAIN s \subseteq Nat /\ n \in Nat /\ q \in Seq(AnyRecord)
  BY DEF WellFormed
<1> HIDE DEF q, n
<1>2. \A kind : Of(q, kind) = Of(s, kind) \cup (IF x.kind = kind THEN {n} ELSE {})
  BY <1>1 DEF Of
<1>3. \A kind : Of(s, kind) \subseteq DOMAIN s
  BY DEF Of
<1>4. \A i, j \in DOMAIN q : i < j => q[i].timestamp <= q[j].timestamp
  BY <1>1 DEF WellFormed
<1>5. \A i, j \in DOMAIN q : q[i].kind = q[j].kind /\ SamePacket(q, i, j) => i = j
  BY <1>1 DEF WellFormed, SamePacket, Of
<1>6. ASSUME NEW i \in Of(q, "SERVICE_START")
      PROVE  \E j \in Of(q, "ARRIVAL") : j < i /\ SamePacket(q, j, i)
  <2>1. CASE i \in Of(s, "SERVICE_START")
    <3>1. PICK j \in Of(s, "ARRIVAL") : j < i /\ SamePacket(s, j, i)
      BY <2>1 DEF WellFormed
    <3> QED
      BY <1>1, <1>2, <1>3, <2>1, <3>1 DEF SamePacket
  <2>2. CASE i = n /\ x.kind = "SERVICE_START"
    <3>1. PICK j \in Of(s, "ARRIVAL") : s[j].packet_id = x.packet_id
      BY <2>2 DEF Has
    <3> QED
      BY <1>1, <1>2, <1>3, <2>2, <3>1 DEF SamePacket
  <2> QED
    BY <1>2, <2>1, <2>2
<1>7. ASSUME NEW i \in Of(q, "DEPARTURE")
      PROVE  \E j \in Of(q, "SERVICE_START") : j < i /\ SamePacket(q, j, i)
  <2>1. CASE i \in Of(s, "DEPARTURE")
    <3>1. PICK j \in Of(s, "SERVICE_START") : j < i /\ SamePacket(s, j, i)
      BY <2>1 DEF WellFormed
    <3> QED
      BY <1>1, <1>2, <1>3, <2>1, <3>1 DEF SamePacket
  <2>2. CASE i = n /\ x.kind = "DEPARTURE"
    <3>1. PICK j \in Of(s, "SERVICE_START") : s[j].packet_id = x.packet_id
      BY <2>2 DEF Has
    <3> QED
      BY <1>1, <1>2, <1>3, <2>2, <3>1 DEF SamePacket
  <2> QED
    BY <1>2, <2>1, <2>2
<1>8. ASSUME NEW i \in Of(q, "SERVICE_START"), NEW j \in Of(q, "SERVICE_START"), i < j
      PROVE  \E k \in Of(q, "DEPARTURE") : i < k /\ k < j /\ SamePacket(q, k, i)
  <2>1. i \in Of(s, "SERVICE_START")
    BY <1>1, <1>2, <1>3, <1>8
  <2>2. CASE j \in Of(s, "SERVICE_START")
    <3>1. PICK k \in Of(s, "DEPARTURE") : i < k /\ k < j /\ SamePacket(s, k, i)
      BY <1>8, <2>1, <2>2 DEF WellFormed
    <3> QED
      BY <1>1, <1>2, <1>3, <2>1, <3>1 DEF SamePacket
  <2>3. CASE j = n /\ x.kind = "SERVICE_START"
    <3>1. PICK k \in Of(s, "DEPARTURE") : SamePacket(s, k, i)
      BY <2>1, <2>3 DEF Has, SamePacket
    <3>2. PICK l \in Of(s, "SERVICE_START") : l < k /\ SamePacket(s, l, k)
      BY <3>1 DEF WellFormed
    <3>3. l = i
      BY <2>1, <3>1, <3>2 DEF WellFormed, SamePacket, Of
    <3> QED
      BY <1>1, <1>2, <1>3, <2>1, <2>3, <3>1, <3>2, <3>3 DEF SamePacket
  <2> QED
    BY <1>2, <2>2, <2>3
<1>9. ASSUME NEW i \in Of(q, "SERVICE_START"), NEW j \in Of(q, "DROP")
      PROVE  ~SamePacket(q, i, j)
  <2>1. \A k \in Of(s, "SERVICE_START"), l \in Of(s, "DROP") : s[k].packet_id # s[l].packet_id
    BY DEF WellFormed, SamePacket
  <2>2. x.kind = "SERVICE_START" => \A l \in Of(s, "DROP") : s[l].packet_id # x.packet_id
    BY DEF Has
  <2>3. x.kind = "DROP" => \A k \in Of(s, "SERVICE_START") : s[k].packet_id # x.packet_id
    BY DEF Has
  <2>4. ~(i = n /\ j = n)
    BY <1>1 DEF Of
  <2>5. /\ i \in Of(s, "SERVICE_START") \/ (i = n /\ x.kind = "SERVICE_START")
        /\ j \in Of(s, "DROP") \/ (j = n /\ x.kind = "DROP")
    BY <1>2
  <2> QED
    BY <1>1, <1>3, <2>1, <2>2, <2>3, <2>4, <2>5 DEF SamePacket
<1>10. WellFormed(q)
  BY <1>1, <1>4, <1>5, <1>6, <1>7, <1>8, <1>9 DEF WellFormed
<1> QED
  BY <1>10 DEF q

\* The order in which things are told of a packet, and of the one in service.
ToldOrder ==
  /\ \A p \in PacketIds : Told("ARRIVAL", p) # NoTime
  /\ \A p : Told("SERVICE_START", p) # NoTime <=> p \in PacketIds /\ Started(p)
  /\ \A p : Told("DEPARTURE", p) # NoTime <=> p \in PacketIds /\ Departed(p)
  /\ \A p : Told("DEPARTURE", p) # NoTime => Told("SERVICE_START", p) # NoTime
  /\ \A p : Told("DROP", p) # NoTime => Told("SERVICE_START", p) = NoTime
  /\ \A p, q : /\ Told("SERVICE_START", p) # NoTime /\ Told("DEPARTURE", p) = NoTime
               /\ Told("SERVICE_START", q) # NoTime /\ Told("DEPARTURE", q) = NoTime
               => p = q

\* The packets tell what they must in order.
LEMMA TellsInOrder == RouterInv => ToldOrder
<1> SUFFICES ASSUME RouterInv
             PROVE  ToldOrder
  OBVIOUS
<1>1. /\ packet \in [PacketIds -> PacketFields]
      /\ \A p \in PacketIds :
           /\ Started(p) /\ ~Departed(p) <=> p \in InService
           /\ Departed(p) => Started(p)
           /\ Dropped(p) => ~Started(p)
      /\ \A p \in InService : p = server.current_packet
  BY DEF RouterInv, TypeOK, PlaceInv, PacketInOnePlace, InService
<1>2. /\ \A p : Told("SERVICE_START", p) # NoTime <=> p \in PacketIds /\ Started(p)
      /\ \A p : Told("DEPARTURE", p) # NoTime <=> p \in PacketIds /\ Departed(p)
      /\ \A p : Told("DROP", p) # NoTime => p \in PacketIds /\ Dropped(p)
  BY DEF Told, Started, Departed, Dropped
<1>3. \A p \in PacketIds : Told("ARRIVAL", p) # NoTime
  BY <1>1 DEF Told, PacketFields, NoTime
<1> QED
  BY <1>1, <1>2, <1>3 DEF ToldOrder

\* A record is only added while the loop runs.
LEMMA RecordingRuns ==
  ASSUME [SimNext]_simVars, records' # records
  PROVE  loop = "running"
  BY DEF SimNext, OnStart, RecordArrival, RecordServiceStart, RecordDeparture, RecordDrop,
         Running, LeaveLoop, simVars

\* A record exists if and only if there is a time to tell.
LEMMA SaidHas ==
  ASSUME NEW s, NEW kind, NEW p, NEW t, Said(s, kind, p, t)
  PROVE  Has(s, kind, p) <=> t # NoTime
  BY DEF Said, Indices, Has, Of

\* The records of a simulation are records.
LEMMA RecordsAny == RouterInv => Records \subseteq AnyRecord
  BY RouterAssumption DEF RouterInv, TypeOK, Records, AnyRecord, PacketIds

\* Every step keeps the records well formed: what it records has what must
\* precede it.
LEMMA FormNext ==
  ASSUME RouterInv, ToldOrder, ToldOrder', now' \in Nat, PacketIds' \subseteq Nat, now' >= now,
         MatchInv, ChronologyInv, Tells, WellFormed(records), [SimNext]_simVars
  PROVE  WellFormed(records')
<1>1. CASE records' = records
  BY <1>1
<1>2. ASSUME NEW kind \in Kinds, NEW p \in PacketIds', NowToldOf(kind, p), records' # records,
             records' = Append(records, [timestamp |-> now', kind |-> kind, packet_id |-> p])
      PROVE  WellFormed(records')
  <2> DEFINE x == [timestamp |-> now', kind |-> kind, packet_id |-> p]
  <2>1. \A k \in Kinds : \A q : Said(records, k, q, Told(k, q))
    BY <1>2, RecordingRuns DEF MatchInv
  <2>2. \A k \in Kinds : \A q : Has(records, k, q) <=> Told(k, q) # NoTime
    BY <2>1, SaidHas
  <2>3. x \in AnyRecord /\ x.timestamp = now' /\ x.kind = kind /\ x.packet_id = p
    BY DEF AnyRecord
  <2>4. \A i \in DOMAIN records : records[i].timestamp <= now'
    <3>1. \A i \in DOMAIN records : records[i].timestamp \in Nat /\ records[i].timestamp <= now
      BY RecordFields DEF ChronologyInv, WellFormed
    <3>2. now \in Nat
      BY DEF RouterInv, TypeOK
    <3> QED
      BY <3>1, <3>2
  <2>5. \A i \in Of(records, kind) : records[i].packet_id # p
    BY <1>2, <2>2 DEF NowToldOf, Has
  <2>6. /\ Told(kind, p) = NoTime /\ Told(kind, p)' # NoTime
        /\ \A k \in Kinds : \A q : k # kind \/ q # p => Told(k, q)' = Told(k, q)
    BY <1>2 DEF NowToldOf, NoTime
  <2>7. kind = "SERVICE_START" =>
          /\ Has(records, "ARRIVAL", p)
          /\ ~Has(records, "DROP", p)
          /\ \A i \in Of(records, "SERVICE_START") : Has(records, "DEPARTURE", records[i].packet_id)
    <3> SUFFICES ASSUME kind = "SERVICE_START"
                 PROVE  /\ Has(records, "ARRIVAL", p)
                        /\ ~Has(records, "DROP", p)
                        /\ \A i \in Of(records, "SERVICE_START") :
                             Has(records, "DEPARTURE", records[i].packet_id)
      OBVIOUS
    <3>1. Told("ARRIVAL", p) # NoTime /\ Told("DROP", p) = NoTime
      BY <2>6 DEF ToldOrder, Kinds
    <3>2. ASSUME NEW i \in Of(records, "SERVICE_START"), NEW q, q = records[i].packet_id
          PROVE  Told("DEPARTURE", q) # NoTime
      <4>1. q # p /\ Told("SERVICE_START", q) # NoTime
        BY <2>2, <2>5, <3>2 DEF Has, Kinds
      <4>2. /\ Told("SERVICE_START", q)' # NoTime /\ Told("SERVICE_START", p)' # NoTime
            /\ Told("DEPARTURE", q)' = Told("DEPARTURE", q)
            /\ Told("DEPARTURE", p)' = Told("DEPARTURE", p)
        BY <2>6, <4>1 DEF Kinds
      <4>3. Told("DEPARTURE", p) = NoTime
        BY <2>6 DEF ToldOrder
      <4> QED
        BY <4>1, <4>2, <4>3 DEF ToldOrder
    <3> QED
      BY <2>2, <3>1, <3>2 DEF Kinds
  <2>8. kind = "DEPARTURE" => Has(records, "SERVICE_START", p)
    BY <2>2, <2>6 DEF ToldOrder, Kinds
  <2>9. kind = "DROP" => ~Has(records, "SERVICE_START", p)
    BY <2>2, <2>6 DEF ToldOrder, Kinds
  <2>10. records' = Append(records, x)
    BY <1>2
  <2> HIDE DEF x
  <2>11. WellFormed(Append(records, x))
    BY <2>3, <2>4, <2>5, <2>7, <2>8, <2>9, WellFormedMore
  <2> QED
    BY <2>10, <2>11
<1> QED
  BY <1>1, <1>2 DEF Tells

\* No record is after the clock, always.
LEMMA ChronologyInvariant == SimSpec => []ChronologyInv
<1>1. SimInit => ChronologyInv
  BY DEF SimInit, ChronologyInv, RecordsChronological
<1>2. /\ RouterInv /\ RouterInv' /\ DropInv /\ records \in Seq(Records) /\ MatchInv
      /\ ChronologyInv /\ [SimNext]_simVars
      => ChronologyInv'
  BY StepsTell, ChronologyNext
<1> QED
  BY <1>1, <1>2, RouterInvariant, DropInvariant, CollectorInvariant, PTL DEF SimSpec

\* No records are well formed.
LEMMA FormInit == records = <<>> => WellFormed(records)
<1> SUFFICES ASSUME records = <<>> PROVE WellFormed(records)
  OBVIOUS
<1>1. records = << >> /\ DOMAIN records = {} /\ Len(records) = 0 /\ records \in Seq(AnyRecord)
  OBVIOUS
<1>2. \A kind : Of(records, kind) = {}
  BY <1>1 DEF Of
<1> QED
  BY <1>1, <1>2 DEF WellFormed

\* Every step keeps the records well formed.
LEMMA FormGoesOn ==
  ASSUME RouterInv, RouterInv', DropInv, MatchInv, ChronologyInv, WellFormed(records),
         [SimNext]_simVars
  PROVE  WellFormed(records)'
<1>1. now' \in Nat /\ PacketIds' \subseteq Nat /\ now' >= now
  <2> SUFFICES ASSUME RouterInv, RouterInv', [SimNext]_simVars
               PROVE  now' \in Nat /\ PacketIds' \subseteq Nat /\ now' >= now
    OBVIOUS
  <2>1. TypeOK /\ TypeOK' /\ FlagInv /\ PlaceInv
    BY DEF RouterInv
  <2>2. now' >= now
    BY <2>1, StepsOfRouter, StepsOfPackets
  <2>3. PacketIds' \subseteq Nat
    <3>1. PacketIds' = FirstPacketId .. next_packet_id' - 1
      BY DEF PacketIds
    <3>2. next_packet_id' \in Nat /\ FirstPacketId \in Nat
      BY <2>1, RouterAssumption DEF TypeOK
    <3>3. \A m, n \in Nat : m .. n - 1 \subseteq Nat
      OBVIOUS
    <3> QED
      BY <3>1, <3>2, <3>3, Zenon
  <2> QED
    BY <2>1, <2>2, <2>3 DEF TypeOK
<1>2. ToldOrder /\ Tells
  BY TellsInOrder, StepsTell
<1>3. ToldOrder'
  BY TellsInOrder, PTL
<1> QED
  BY <1>1, <1>2, <1>3, FormNext

\* At any moment, also after an exception, the records are well formed.
LEMMA RecordsWellFormed == SimSpec => []WellFormed(records)
<1>1. SimInit => WellFormed(records)
  BY FormInit DEF SimInit
<1>2. /\ RouterInv /\ RouterInv' /\ DropInv /\ MatchInv /\ ChronologyInv
      /\ WellFormed(records) /\ [SimNext]_simVars
      => WellFormed(records)'
  BY FormGoesOn
<1> QED
  BY <1>1, <1>2, RouterInvariant, DropInvariant, CollectorInvariant,
     ChronologyInvariant, PTL DEF SimSpec
-----------------------------------------------------------------------------
\* The statistics of the records.

\* The statistics sort the records, and are of packets that exist.
LEMMA RecordsAsTheyAre ==
  ASSUME RouterInv, records \in Seq(Records), WellFormed(records)
  PROVE  /\ Ordering = records /\ Ordered(records) = records
         /\ PacketsCreated \in Nat /\ Ids(PacketsCreated) = PacketIds
         /\ \A i \in DOMAIN records : records[i].packet_id \in Ids(PacketsCreated)
<1>1. Ordered(records) = records
  BY OrderedAlready DEF WellFormed
<1>2. next_packet_id \in Nat /\ FirstPacketId \in Nat /\ next_packet_id >= FirstPacketId
  BY RouterAssumption DEF RouterInv, TypeOK
<1>3. PacketsCreated \in Nat /\ FirstPacketId + PacketsCreated - 1 = next_packet_id - 1
  BY <1>2 DEF PacketsCreated
<1>4. Ids(PacketsCreated) = PacketIds
  BY <1>3 DEF Ids, PacketIds
<1>5. \A i \in DOMAIN records : records[i] \in Records
  OBVIOUS
<1> QED
  BY <1>1, <1>3, <1>4, <1>5 DEF Ordering, Records

\* Of well-formed records the statistics do not raise.
LEMMA ComputableFollows ==
  RouterInv /\ records \in Seq(Records) /\ WellFormed(records) => StatisticsComputable
<1> SUFFICES ASSUME RouterInv, records \in Seq(Records), WellFormed(records)
             PROVE  StatisticsComputable
  OBVIOUS
<1> DEFINE s == records
           w == QueueWalk(s, DroppedIds(s))
<1>1. Ordered(s) = s
  BY RecordsAsTheyAre
<1>2. NeverStart(s, DroppedIds(s))
  BY DropsNeverStart
<1>3. \A n \in 0 .. Len(s) : ~w[n].error
  BY <1>2, QueueLengths
<1>4. Len(s) \in 0 .. Len(s)
  BY RecordFields DEF WellFormed
<1>5. ~QueueProfile(s).error
  BY <1>3, <1>4 DEF QueueProfile
<1>6. ~BusyProfile(s).error /\ BusyProfile(s).active = Active(s, Len(s))
  BY RecordsAsTheyAre, BusyTimes DEF Profiled
<1>7. \A a \in Active(s, Len(s)) : LastTimestamp(s) >= a.start
  <2>1. \A i \in Open(s, Len(s)) : s[i].timestamp <= s[Len(s)].timestamp
    BY RecordFields DEF WellFormed, Open, Of
  <2> QED
    BY <2>1 DEF Active, LastTimestamp
<1> QED
  BY <1>1, <1>5, <1>6, <1>7 DEF StatisticsComputable, Computable

\* On the records of a simulation, at any moment, the statistics do not raise
\* (system_statistics.py:166, 176, 205, 214, 223, 227, 247).
THEOREM StatisticsNeverRaise == SimSpec => []StatisticsComputable
BY ComputableFollows, RouterInvariant, CollectorInvariant, RecordsWellFormed, PTL
-----------------------------------------------------------------------------
\* Counting records and packets.

\* Sets of equal size.
LEMMA OneToOne ==
  ASSUME NEW S, NEW T, NEW f \in [S -> T], IsFiniteSet(S) \/ IsFiniteSet(T),
         \A x, y \in S : f[x] = f[y] => x = y, \A y \in T : \E x \in S : f[x] = y
  PROVE  IsFiniteSet(S) /\ IsFiniteSet(T) /\ Cardinality(S) = Cardinality(T)
<1>1. f \in Injection(S, T)
  BY DEF Injection, IsInjective
<1>2. f \in Surjection(S, T)
  BY DEF Surjection
<1>3. CASE IsFiniteSet(S)
  BY <1>1, <1>2, <1>3, FS_Surjection
<1>4. CASE IsFiniteSet(T)
  BY <1>1, <1>2, <1>4, FS_Injection
<1> QED
  BY <1>3, <1>4

\* Sets with nothing in common.
LEMMA DisjointUnion ==
  ASSUME NEW S, NEW T, IsFiniteSet(S), IsFiniteSet(T), S \cap T = {}
  PROVE  /\ IsFiniteSet(S \cup T)
         /\ Cardinality(S \cup T) = Cardinality(S) + Cardinality(T)
         /\ Cardinality(S) \in Nat /\ Cardinality(T) \in Nat
<1>1. /\ IsFiniteSet(S \cup T)
      /\ Cardinality(S \cup T) = Cardinality(S) + Cardinality(T) - Cardinality(S \cap T)
  BY FS_Union
<1>2. Cardinality(S \cap T) = 0
  BY FS_EmptySet
<1>3. Cardinality(S) \in Nat /\ Cardinality(T) \in Nat
  BY FS_CardinalityType
<1> QED
  BY <1>1, <1>2, <1>3

\* What the records have, while nothing was raised.
LEMMA HasTold ==
  ASSUME RouterInv, DropInv, MatchInv, loop # "raised"
  PROVE  /\ \A p : Has(records, "ARRIVAL", p) <=> p \in PacketIds
         /\ \A p : Has(records, "SERVICE_START", p) <=> p \in PacketIds /\ Started(p)
         /\ \A p : Has(records, "DEPARTURE", p) <=> p \in PacketIds /\ Departed(p)
         /\ \A p : Has(records, "DROP", p) <=> p \in PacketIds /\ Dropped(p) /\ p \notin Undelivered
<1>1. \A kind \in Kinds : \A p : Has(records, kind, p) <=> Told(kind, p) # NoTime
  BY SaidHas DEF MatchInv
<1>2. ToldOrder
  BY TellsInOrder
<1>3. \A p : p \notin PacketIds => \A kind \in Kinds : Told(kind, p) = NoTime
  BY DEF Told
<1>4. \A p : Has(records, "ARRIVAL", p) <=> p \in PacketIds
  BY <1>1, <1>2, <1>3 DEF ToldOrder, Kinds
<1>5. /\ \A p : Has(records, "SERVICE_START", p) <=> p \in PacketIds /\ Started(p)
      /\ \A p : Has(records, "DEPARTURE", p) <=> p \in PacketIds /\ Departed(p)
  BY <1>1, <1>2 DEF ToldOrder, Kinds
<1>6. \A p : Told("DROP", p) # NoTime <=> p \in PacketIds /\ Dropped(p) /\ p \notin Undelivered
  BY DEF Told, Dropped
<1>7. \A p : Has(records, "DROP", p) <=> p \in PacketIds /\ Dropped(p) /\ p \notin Undelivered
  BY <1>1, <1>6 DEF Kinds
<1> QED
  BY <1>4, <1>5, <1>7

\* All that is seen is what the records have.
LEMMA AllSeen ==
  ASSUME NEW s \in Seq(AnyRecord), NEW kind
  PROVE  \A p : p \in Seen(s, kind, Len(s)) <=> Has(s, kind, p)
<1>1. \A i \in Of(s, kind) : i <= Len(s)
  BY RecordFields DEF Of
<1> QED
  BY <1>1 DEF Seen, Has

\* The packets whose drops are recorded.
LEMMA DroppedHave ==
  ASSUME NEW s
  PROVE  \A p : p \in DroppedIds(s) <=> Has(s, "DROP", p)
  BY DEF DroppedIds, Has

\* The packets in the buffer.
LEMMA BufferCount ==
  ASSUME RouterInv, NEW B, B = {p \in PacketIds : InBuffer(p)}
  PROVE  IsFiniteSet(B) /\ Cardinality(B) = Len(buffer) /\ Len(buffer) \in Nat
<1>1. /\ buffer \in Seq(PacketIds) /\ Len(buffer) \in Nat /\ DOMAIN buffer = 1 .. Len(buffer)
      /\ \A i, j \in DOMAIN buffer : buffer[i] = buffer[j] => i = j
  BY DEF RouterInv, TypeOK, PlaceInv, PacketInOnePlace
<1>2. IsFiniteSet(DOMAIN buffer) /\ Cardinality(DOMAIN buffer) = Len(buffer)
  BY <1>1, FS_Interval
<1>3. /\ buffer \in [DOMAIN buffer -> B]
      /\ \A y \in B : \E i \in DOMAIN buffer : buffer[i] = y
  BY <1>1 DEF InBuffer
<1>4. IsFiniteSet(B) /\ Cardinality(DOMAIN buffer) = Cardinality(B)
  BY <1>1, <1>2, <1>3, OneToOne
<1> QED
  BY <1>1, <1>2, <1>4

\* The packets whose drop is not recorded yet.
LEMMA UndeliveredCount ==
  ASSUME RouterInv, DropInv
  PROVE  /\ Undelivered \subseteq {p \in PacketIds : Dropped(p)}
         /\ IsFiniteSet(PacketIds) /\ IsFiniteSet(Undelivered)
         /\ Cardinality(DropEvents) = Cardinality(Undelivered)
<1>1. IsFiniteSet(PacketIds)
  BY FS_Interval, RouterAssumption DEF RouterInv, TypeOK, PacketIds
<1>2. \A e \in DropEvents : e.packet_id \in PacketIds /\ Dropped(e.packet_id)
  <2>1. \A e \in DropEvents : e.timestamp \in Nat
    BY TakenType DEF RouterInv, TypeOK, DropEvents, Pending
  <2> QED
    BY <2>1 DEF DropInv, Dropped, NoTime
<1>3. Undelivered \subseteq {p \in PacketIds : Dropped(p)}
  BY <1>2 DEF Undelivered
<1>4. IsFiniteSet(Undelivered)
  BY <1>1, <1>3, FS_Subset
<1> DEFINE f == [e \in DropEvents |-> e.packet_id]
<1>5. /\ f \in [DropEvents -> Undelivered]
      /\ \A x, y \in DropEvents : f[x] = f[y] => x = y
      /\ \A y \in Undelivered : \E x \in DropEvents : f[x] = y
  BY DEF Undelivered, DropInv
<1> HIDE DEF f
<1>6. Cardinality(DropEvents) = Cardinality(Undelivered)
  BY <1>4, <1>5, OneToOne
<1> QED
  BY <1>1, <1>3, <1>4, <1>6

\* Those who wait according to the records are in the buffer, reserved, or
\* dropped without a record of it yet.
LEMMA WaitingPlaces ==
  ASSUME RouterInv, DropInv, MatchInv, loop # "raised", WellFormed(records)
  PROVE  Waiting(records, DroppedIds(records), Len(records)) =
           ({p \in PacketIds : InBuffer(p)} \cup Reserved) \cup Undelivered
<1> DEFINE W == Waiting(records, DroppedIds(records), Len(records))
<1>1. \A p : p \in W <=> /\ Has(records, "ARRIVAL", p) /\ ~Has(records, "DROP", p)
                         /\ ~Has(records, "SERVICE_START", p)
  BY AllSeen, DroppedHave DEF Waiting, WellFormed
<1>2. \A p : p \in W <=> /\ p \in PacketIds /\ ~Started(p)
                         /\ (~Dropped(p) \/ p \in Undelivered)
  BY <1>1, HasTold
<1>3. /\ \A p \in PacketIds : ~Started(p) /\ ~Dropped(p) <=> InBuffer(p) \/ p \in Reserved
      /\ \A p \in PacketIds : Dropped(p) => ~Started(p)
      /\ Reserved \subseteq PacketIds
  BY DEF RouterInv, PlaceInv, PacketInOnePlace
<1>4. \A p \in Undelivered : p \in PacketIds /\ Dropped(p)
  BY UndeliveredCount
<1> HIDE DEF W
<1>5. \A p : p \in W <=> \/ p \in PacketIds /\ InBuffer(p)
                         \/ p \in Reserved \/ p \in Undelivered
  BY <1>2, <1>3, <1>4, Zenon
<1>6. W = ({p \in PacketIds : InBuffer(p)} \cup Reserved) \cup Undelivered
  BY <1>5
<1> QED
  BY <1>6 DEF W

\* While nothing is raised, the length that the records give is that of the queue.
LEMMA QueueFollows ==
  /\ RouterInv /\ DropInv /\ records \in Seq(Records) /\ MatchInv /\ WellFormed(records)
  => QueueReconstructed
<1> SUFFICES ASSUME RouterInv, DropInv, records \in Seq(Records), MatchInv,
                    WellFormed(records), loop # "raised"
             PROVE  QueueProfile(Ordering).length =
                      Len(buffer) + Cardinality(Reserved) + Cardinality(DropEvents)
  BY DEF QueueReconstructed, DropEvents
<1> DEFINE s == records
           D == DroppedIds(s)
           B == {p \in PacketIds : InBuffer(p)}
           W == Waiting(s, D, Len(s))
<1>1. Ordering = s /\ Len(s) \in 0 .. Len(s)
  BY RecordsAsTheyAre, RecordFields DEF WellFormed
<1>2. QueueWalk(s, D)[Len(s)].length = Cardinality(W) /\ IsFiniteSet(W)
  BY <1>1, DropsNeverStart, QueueLengths
<1>3. W = (B \cup Reserved) \cup Undelivered
  BY WaitingPlaces
<1>4. /\ IsFiniteSet(B) /\ Cardinality(B) = Len(buffer) /\ Len(buffer) \in Nat
      /\ IsFiniteSet(Undelivered) /\ Cardinality(DropEvents) = Cardinality(Undelivered)
      /\ Undelivered \subseteq {p \in PacketIds : Dropped(p)}
  BY BufferCount, UndeliveredCount
<1>5. /\ \A p \in PacketIds : ~Started(p) /\ ~Dropped(p) <=> InBuffer(p) \/ p \in Reserved
      /\ \A p \in Reserved : p \in PacketIds /\ ~InBuffer(p)
  BY DEF RouterInv, PlaceInv, PacketInOnePlace
<1>6. B \cap Reserved = {} /\ (B \cup Reserved) \cap Undelivered = {}
  BY <1>4, <1>5
<1> HIDE DEF B, W
<1>7. IsFiniteSet(Reserved) /\ Cardinality(Reserved) \in Nat
  BY <1>2, <1>3, FS_Subset, FS_CardinalityType
<1>8. /\ IsFiniteSet(B \cup Reserved)
      /\ Cardinality(B \cup Reserved) = Cardinality(B) + Cardinality(Reserved)
  BY <1>4, <1>6, <1>7, DisjointUnion
<1>9. Cardinality(W) = Cardinality(B) + Cardinality(Reserved) + Cardinality(Undelivered)
  BY <1>3, <1>4, <1>6, <1>8, DisjointUnion
<1> QED
  BY <1>1, <1>2, <1>4, <1>9 DEF QueueProfile

\* The queue length taken from the records is the real one, with the packets
\* that are reserved or whose drop is still to be recorded
\* (system_statistics.py:152-183).
THEOREM QueueLengthIsReal == SimSpec => []QueueReconstructed
BY QueueFollows, RouterInvariant, DropInvariant, CollectorInvariant, RecordsWellFormed, PTL

\* The time of the record is the packet's.
LEMMA TimeSaid ==
  ASSUME NEW s, WellFormed(s), NEW kind, NEW p, NEW t, Said(s, kind, p, t), t # NoTime
  PROVE  FirstAt(s, kind, p) = t
<1>1. PICK i \in DOMAIN s : Indices(s, kind, p) = {i} /\ s[i].timestamp = t
  BY DEF Said
<1>2. i \in Of(s, kind) /\ s[i].packet_id = p
  BY <1>1 DEF Indices, Of
<1>3. FirstAt(s, kind, s[i].packet_id) = s[i].timestamp
  BY <1>2, FirstAtIs
<1> QED
  BY <1>1, <1>2, <1>3

\* The times that the records give, while nothing was raised.
LEMMA TimesTold ==
  ASSUME RouterInv, MatchInv, WellFormed(records), loop # "raised", NEW p \in PacketIds
  PROVE  /\ FirstAt(records, "ARRIVAL", p) = packet[p].arrival_time
         /\ Started(p) => FirstAt(records, "SERVICE_START", p) = packet[p].service_start_time
         /\ Departed(p) => FirstAt(records, "DEPARTURE", p) = packet[p].departure_time
<1>1. \A kind \in Kinds : Said(records, kind, p, Told(kind, p))
  BY DEF MatchInv
<1>2. /\ Told("ARRIVAL", p) = packet[p].arrival_time /\ Told("ARRIVAL", p) # NoTime
      /\ Told("SERVICE_START", p) = packet[p].service_start_time
      /\ Told("DEPARTURE", p) = packet[p].departure_time
  BY TellsInOrder DEF Told, ToldOrder
<1>3. \A kind \in Kinds : Told(kind, p) # NoTime => FirstAt(records, kind, p) = Told(kind, p)
  BY <1>1, TimeSaid
<1> QED
  BY <1>2, <1>3 DEF Kinds, Started, Departed

\* When the run is over every drop is recorded, and no start is left.
LEMMA NothingLeft ==
  ASSUME RouterInv, CutAtHorizon, loop = "done"
  PROVE  Undelivered = {} /\ Reserved = {} /\ DropEvents = {}
<1>1. DropEvents = {}
  BY DEF CutAtHorizon, DropEvents, Pending
<1>2. Pending(scheduler, "PACKET_SERVICE_START") = {}
  BY DEF CutAtHorizon, Pending
<1> QED
  BY <1>1, <1>2 DEF Undelivered, Reserved

\* When nothing is left but a departure, the area that they give is the waiting.
LEMMA AreaFollows ==
  /\ RouterInv /\ DropInv /\ records \in Seq(Records) /\ MatchInv /\ WellFormed(records)
  /\ CutAtHorizon
  => AreaIsTotalWaiting
<1> SUFFICES ASSUME RouterInv, DropInv, records \in Seq(Records), MatchInv,
                    WellFormed(records), CutAtHorizon, loop = "done"
             PROVE  QueueProfile(Ordering).area =
                      SumOver([p \in PacketIds |-> WaitUntil(p, LastTime)])
  BY DEF AreaIsTotalWaiting
<1>1. PICK s, D, n, N :
        s = records /\ D = DroppedIds(s) /\ n = Len(s) /\ N = PacketsCreated
  OBVIOUS
<1>2. /\ Ordering = s /\ N \in Nat /\ Ids(N) = PacketIds
      /\ \A i \in DOMAIN s : s[i].packet_id \in Ids(N)
  BY <1>1, RecordsAsTheyAre
<1>3. WellFormed(s) /\ loop # "raised"
  BY <1>1
<1>4. QueueWalk(s, D)[n].area = SumOfFirst([q \in Ids(N) |-> Waited(s, D, n, q)], N)
  BY <1>1, <1>2, <1>3, DropsNeverStart, Areas
<1>5. \A p \in PacketIds : p \in D <=> Dropped(p)
  BY <1>1, <1>3, DroppedHave, HasTold, NothingLeft
<1>6. ASSUME NEW p \in PacketIds
      PROVE  Waited(s, D, n, p) = WaitUntil(p, LastTime)
  <2>1. p \in Seen(s, "ARRIVAL", n) /\ (p \in Seen(s, "SERVICE_START", n) <=> Started(p))
    BY <1>1, <1>3, AllSeen, HasTold DEF WellFormed
  <2>2. LastTime = s[n].timestamp
    <3>1. s # <<>>
      BY <2>1 DEF Seen, Of
    <3> QED
      BY <1>1, <3>1 DEF LastTime
  <2>3. /\ FirstAt(s, "ARRIVAL", p) = packet[p].arrival_time
        /\ Started(p) => FirstAt(s, "SERVICE_START", p) = packet[p].service_start_time
    BY <1>1, <1>3, TimesTold
  <2> QED
    BY <1>5, <2>1, <2>2, <2>3 DEF Waited, WaitUntil
<1>7. [q \in Ids(N) |-> Waited(s, D, n, q)] = [p \in PacketIds |-> WaitUntil(p, LastTime)]
  BY <1>2, <1>6
<1>8. QueueProfile(s) = QueueWalk(s, D)[n]
  BY <1>1 DEF QueueProfile
<1> QED
  BY <1>1, <1>2, <1>4, <1>7, <1>8 DEF SumOver

\* Little's law on the sample path: when a run is over the area under the queue
\* length is the total time the accepted packets have waited
\* (system_statistics.py:152-183).
THEOREM LittlesLaw == SimSpec => []AreaIsTotalWaiting
BY AreaFollows, RouterInvariant, DropInvariant, CollectorInvariant, RecordsWellFormed,
   NothingLeftButDeparture, PTL
-----------------------------------------------------------------------------
\* The busy time.

\* The server remembers when the service of its packet began.
StartInv ==
  server.busy => packet[server.current_packet].service_start_time = server.busy_start_time

\* It is told at the start, and the packet keeps it.
LEMMA StartNext ==
  ASSUME RouterInv, StartInv, [SimNext]_simVars
  PROVE  StartInv'
<1>1. /\ TypeOK /\ FlagInv /\ PlaceInv /\ PacketStep
      /\ \A p \in PacketIds :
           Started(p) => packet'[p].service_start_time = packet[p].service_start_time
  BY StepsOfRouter, StepsOfPackets, HistoryKept DEF RouterInv
<1>2. server.busy => server.current_packet \in PacketIds /\ Started(server.current_packet)
  BY <1>1 DEF PlaceInv, PacketInOnePlace, InService
<1>3. CASE server' = server
  BY <1>1, <1>2, <1>3 DEF StartInv
<1>4. ASSUME NEW e \in Starts, Begins(e)
      PROVE  StartInv'
  <2>1. PICK p, t : p = e.packet_id /\ t = now'
    OBVIOUS
  <2>2. /\ server' = Serving(p, t) /\ packet' = [packet EXCEPT ![p].service_start_time = t]
        /\ p \in PacketIds /\ packet \in [PacketIds -> PacketFields]
    <3>1. server' = Serving(p, t) /\ packet' = [packet EXCEPT ![p].service_start_time = t]
      BY <1>4, <2>1 DEF Begins
    <3>2. Reserved = {p}
      BY <1>4, <2>1, ReservedByStarts DEF Begins
    <3> QED
      BY <1>1, <3>1, <3>2 DEF PlaceInv, TypeOK
  <2>3. packet'[p].service_start_time = t
    BY <2>2 DEF PacketFields
  <2> QED
    BY <2>2, <2>3 DEF StartInv, Serving
<1>5. CASE Leaves
  BY <1>5 DEF Leaves, StartInv, IdleServer
<1> QED
  BY <1>1, <1>3, <1>4, <1>5 DEF PacketStep, Loses, Waits, Claims, Accepts, Arrives, Rests

\* So the server knows when its service began, always.
LEMMA StartInvariant == SimSpec => []StartInv
<1>1. SimInit => StartInv
  BY DEF SimInit, Init, IdleServer, StartInv
<1> QED
  BY <1>1, StartNext, RouterInvariant, PTL DEF SimSpec

\* The service that the records leave open is that of the packet in the server.
LEMMA OpenService ==
  ASSUME RouterInv, DropInv, MatchInv, StartInv, WellFormed(records), loop # "raised",
         NEW n, n = Len(records)
  PROVE  /\ ~server.busy => Active(records, n) = {}
         /\ server.busy => \E a : /\ Active(records, n) = {a}
                                  /\ a.start = server.busy_start_time
<1>1. PICK s : s = records
  OBVIOUS
<1>2. \A i \in Open(s, n) : /\ i \in Of(s, "SERVICE_START") /\ s[i].packet_id \in PacketIds
                            /\ Started(s[i].packet_id) /\ ~Departed(s[i].packet_id)
  <2>1. ASSUME NEW i \in Open(s, n)
        PROVE  /\ i \in Of(s, "SERVICE_START") /\ s[i].packet_id \in PacketIds
               /\ Started(s[i].packet_id) /\ ~Departed(s[i].packet_id)
    <3>1. i \in Of(s, "SERVICE_START") /\ s[i].packet_id \notin Seen(s, "DEPARTURE", n)
      BY DEF Open
    <3>2. Has(s, "SERVICE_START", s[i].packet_id) /\ ~Has(s, "DEPARTURE", s[i].packet_id)
      BY <1>1, <3>1, AllSeen DEF Has, WellFormed
    <3> QED
      BY <1>1, <3>1, <3>2, HasTold
  <2> QED
    BY <2>1
<1>3. \A p \in PacketIds : Started(p) /\ ~Departed(p) <=> p \in InService
  BY DEF RouterInv, PlaceInv, PacketInOnePlace
<1>4. CASE ~server.busy
  <2>1. Open(s, n) = {}
    BY <1>2, <1>3, <1>4 DEF InService
  <2> QED
    BY <1>1, <1>4, <2>1 DEF Active
<1>5. CASE server.busy
  <2>1. PICK p : p = server.current_packet
    OBVIOUS
  <2>2. InService = {p} /\ p \in PacketIds /\ Started(p) /\ ~Departed(p)
    BY <1>3, <1>5, <2>1 DEF InService, RouterInv, PlaceInv
  <2>3. PICK i \in Of(s, "SERVICE_START") : s[i].packet_id = p
    BY <1>1, <2>2, HasTold DEF Has
  <2>4. i \in Open(s, n)
    <3>1. i <= n
      BY <1>1, <2>3, RecordFields DEF Of, WellFormed
    <3>2. p \notin Seen(s, "DEPARTURE", n)
      BY <1>1, <2>2, AllSeen, HasTold DEF WellFormed
    <3> QED
      BY <2>3, <3>1, <3>2 DEF Open
  <2>5. \A j \in Open(s, n) : j = i
    BY <1>1, <1>2, <1>3, <2>2, <2>3 DEF WellFormed, Of, SamePacket
  <2>6. Open(s, n) = {i}
    BY <2>4, <2>5
  <2>7. Active(s, n) = {[start |-> s[i].timestamp, packet_id |-> s[i].packet_id]}
    BY <2>6 DEF Active
  <2>8. s[i].timestamp = FirstAt(s, "SERVICE_START", p)
    BY <1>1, <2>3, FirstAtIs
  <2>9. s[i].timestamp = server.busy_start_time
    <3>1. FirstAt(records, "SERVICE_START", p) = packet[p].service_start_time
      BY <2>2, TimesTold
    <3>2. packet[p].service_start_time = server.busy_start_time
      BY <1>5, <2>1 DEF StartInv
    <3> QED
      BY <1>1, <2>8, <3>1, <3>2
  <2>10. PICK a : a = [start |-> s[i].timestamp, packet_id |-> s[i].packet_id]
    OBVIOUS
  <2>11. a.start = server.busy_start_time
    BY <2>9, <2>10
  <2>12. Active(records, n) = {a}
    BY <1>1, <2>7, <2>10
  <2> QED
    BY <1>5, <2>11, <2>12
<1> QED
  BY <1>4, <1>5

\* While nothing is raised, the busy time that they give is the service.
LEMMA BusyFollows ==
  /\ RouterInv /\ DropInv /\ records \in Seq(Records) /\ MatchInv /\ WellFormed(records)
  /\ StartInv
  => BusyTimeExact
<1> SUFFICES ASSUME RouterInv, DropInv, records \in Seq(Records), MatchInv,
                    WellFormed(records), StartInv, loop # "raised"
             PROVE  BusyTimeExact
  BY DEF BusyTimeExact
<1>1. PICK s, n, N, profile, observed :
        /\ s = records /\ n = Len(s) /\ N = PacketsCreated /\ profile = BusyProfile(s)
        /\ observed = ObservedTailBusyTime(s)
  OBVIOUS
<1>2. /\ Ordering = s /\ N \in Nat /\ Ids(N) = PacketIds
      /\ \A i \in DOMAIN s : s[i].packet_id \in Ids(N)
      /\ WellFormed(s) /\ s \in Seq(AnyRecord)
  BY <1>1, RecordsAsTheyAre DEF WellFormed
<1>3. Profiled(s, N, n, profile)
  BY <1>1, <1>2, BusyTimes
<1>4. \A p : p \in Seen(s, "DEPARTURE", n) <=> p \in PacketIds /\ Departed(p)
  BY <1>1, <1>2, AllSeen, HasTold
<1>5. profile.closed = SumOver([p \in PacketIds |-> Service(p)])
  <2>1. ASSUME NEW p \in PacketIds
        PROVE  ServedBy(s, n, p) = Service(p)
    <3>1. Departed(p) => Started(p)
      BY DEF RouterInv, PlaceInv, PacketInOnePlace
    <3>2. Departed(p) =>
            /\ FirstAt(s, "SERVICE_START", p) = packet[p].service_start_time
            /\ FirstAt(s, "DEPARTURE", p) = packet[p].departure_time
      BY <1>1, <3>1, TimesTold
    <3> QED
      BY <1>4, <3>2 DEF ServedBy, Service
  <2>2. [q \in Ids(N) |-> ServedBy(s, n, q)] = [p \in PacketIds |-> Service(p)]
    BY <1>2, <2>1
  <2>3. profile.closed = SumOfFirst([q \in Ids(N) |-> ServedBy(s, n, q)], N)
    BY <1>3 DEF Profiled
  <2> QED
    BY <1>1, <2>2, <2>3 DEF SumOver
<1>6. profile.intervals = Cardinality(DepartedIds)
  <2>1. Seen(s, "DEPARTURE", n) = DepartedIds
    BY <1>4 DEF DepartedIds
  <2> QED
    BY <1>3, <2>1 DEF Profiled
<1>7. ASSUME records # <<>>
      PROVE  /\ observed = profile.closed +
                           (IF server.busy THEN LastTime - server.busy_start_time ELSE 0)
             /\ observed <= ObservationDuration(s)
  <2>1. /\ n \in Nat /\ n # 0 /\ s # <<>> /\ LastTimestamp(s) = s[n].timestamp
        /\ s[n].timestamp \in Nat
    BY <1>1, <1>2, <1>7, RecordFields DEF LastTimestamp
  <2>2. LastTime = s[n].timestamp
    BY <1>1, <1>7 DEF LastTime
  <2>3. observed = profile.closed + SinceStart(profile.active, s[n].timestamp)
    BY <1>1, <2>1 DEF ObservedTailBusyTime
  <2>4. profile.active = Active(s, n)
    BY <1>3 DEF Profiled
  <2>5. SinceStart(Active(s, n), s[n].timestamp) =
          IF server.busy THEN LastTime - server.busy_start_time ELSE 0
    <3>1. CASE server.busy
      <4>1. PICK a : Active(s, n) = {a} /\ a.start = server.busy_start_time
        BY <1>1, <3>1, OpenService
      <4>2. SinceStart({a}, s[n].timestamp) = s[n].timestamp - a.start
        BY SinceOne
      <4> QED
        BY <2>2, <3>1, <4>1, <4>2
    <3>2. CASE ~server.busy
      <4>1. Active(s, n) = {}
        BY <1>1, <3>2, OpenService
      <4>2. SinceStart({}, s[n].timestamp) = 0
        BY SinceOne
      <4> QED
        BY <3>2, <4>1, <4>2
    <3> QED
      BY <3>1, <3>2
  <2>6. observed <= s[n].timestamp - s[1].timestamp
    <3>1. From(s, n) = s[n].timestamp /\ s[n].timestamp >= s[n].timestamp
      BY <2>1 DEF From
    <3>2. profile.closed + SinceStart(profile.active, s[n].timestamp)
            <= s[n].timestamp - s[1].timestamp
      BY <1>1, <1>3, <2>1, <3>1 DEF Profiled
    <3> QED
      BY <2>3, <3>2
  <2> QED
    BY <2>1, <2>3, <2>4, <2>5, <2>6 DEF ObservationDuration
<1> QED
  BY <1>1, <1>2, <1>5, <1>6, <1>7 DEF BusyTimeExact

\* The busy time taken from the records is the service the packets had, with the
\* one that goes on up to the last record, and no more than the duration
\* (system_statistics.py:186-258).
THEOREM BusyTimeIsService == SimSpec => []BusyTimeExact
BY BusyFollows, RouterInvariant, DropInvariant, CollectorInvariant, RecordsWellFormed,
   StartInvariant, PTL
-----------------------------------------------------------------------------
\* The totals.

\* As many records of a kind as packets that they name.
LEMMA KindCount ==
  ASSUME NEW s, WellFormed(s), NEW kind, NEW I \in SUBSET Of(s, kind),
         NEW T, \A p : p \in T <=> \E i \in I : s[i].packet_id = p
  PROVE  IsFiniteSet(T) /\ Cardinality(I) = Cardinality(T)
<1>1. IsFiniteSet(I)
  <2>1. IsFiniteSet(Of(s, kind))
    BY SeenFinite DEF WellFormed
  <2> QED
    BY <2>1, FS_Subset
<1> DEFINE name == [i \in I |-> s[i].packet_id]
<1>2. \A x, y \in I : name[x] = name[y] => x = y
  BY DEF WellFormed, Of, SamePacket
<1>3. name \in [I -> T] /\ \A y \in T : \E x \in I : name[x] = y
  OBVIOUS
<1> HIDE DEF name
<1>4. IsFiniteSet(I) /\ IsFiniteSet(T) /\ Cardinality(I) = Cardinality(T)
  BY <1>1, <1>2, <1>3, OneToOne
<1> QED
  BY <1>4

\* The packets that exist, by where they are when a run is over.
LEMMA PacketCounts ==
  ASSUME RouterInv, CountersAgree, Reserved = {},
         NEW dropped, dropped = {p \in PacketIds : Dropped(p)},
         NEW accepted, accepted = {p \in PacketIds : ~Dropped(p)}
  PROVE  /\ Cardinality(PacketIds) = PacketsCreated
         /\ Cardinality(dropped) = packets_dropped
         /\ Cardinality(accepted) = total_enqueued
         /\ Cardinality(DepartedIds) =
              total_enqueued - Len(buffer) - Cardinality(InService)
<1>1. IsFiniteSet(PacketIds) /\ Cardinality(PacketIds) = PacketsCreated
  <2>1. /\ FirstPacketId \in Nat /\ next_packet_id \in Nat /\ next_packet_id >= FirstPacketId
    BY RouterAssumption DEF RouterInv, TypeOK
  <2>2. FirstPacketId \in Int /\ next_packet_id - 1 \in Int
    BY <2>1
  <2>3. /\ IsFiniteSet(PacketIds)
        /\ Cardinality(PacketIds) = IF FirstPacketId > next_packet_id - 1 THEN 0
                                    ELSE next_packet_id - 1 - FirstPacketId + 1
    BY <2>2, FS_Interval DEF PacketIds
  <2>4. PacketsCreated = IF FirstPacketId > next_packet_id - 1 THEN 0
                         ELSE next_packet_id - 1 - FirstPacketId + 1
    BY <2>1 DEF PacketsCreated
  <2> QED
    BY <2>3, <2>4
<1>2. /\ PacketsCreated = total_enqueued + packets_dropped
      /\ packets_dropped = Cardinality(dropped)
      /\ total_enqueued \in Nat /\ packets_dropped \in Nat
  BY DEF CountersAgree, RouterInv, TypeOK
<1>3. /\ accepted \in SUBSET PacketIds /\ dropped \in SUBSET PacketIds
      /\ DepartedIds \in SUBSET PacketIds
      /\ accepted \cup dropped = PacketIds /\ accepted \cap dropped = {}
  BY DEF DepartedIds
<1>4. IsFiniteSet(accepted) /\ IsFiniteSet(dropped) /\ IsFiniteSet(DepartedIds)
  BY <1>1, <1>3, FS_Subset
<1>5. Cardinality(accepted) = total_enqueued
  <2>1. Cardinality(accepted \cup dropped) = Cardinality(accepted) + Cardinality(dropped)
        /\ Cardinality(accepted) \in Nat
    BY <1>3, <1>4, DisjointUnion
  <2>2. Cardinality(accepted \cup dropped) = total_enqueued + packets_dropped
    BY <1>1, <1>2, <1>3
  <2> QED
    BY <1>2, <2>1, <2>2
<1>6. PICK B : B = {p \in PacketIds : InBuffer(p)}
  OBVIOUS
<1>7. IsFiniteSet(B) /\ Cardinality(B) = Len(buffer) /\ Len(buffer) \in Nat
  BY <1>6, BufferCount
<1>8. IsFiniteSet(InService) /\ Cardinality(InService) \in Nat
  <2>1. \A x : IsFiniteSet({x}) /\ Cardinality({x}) = 1
    BY FS_Singleton
  <2>2. IsFiniteSet({}) /\ Cardinality({}) = 0
    BY FS_EmptySet
  <2>3. InService = {} \/ \E x : InService = {x}
    BY DEF InService
  <2>4. IsFiniteSet(InService)
    BY <2>1, <2>2, <2>3, Zenon
  <2> QED
    BY <2>4, FS_CardinalityType
<1>9. /\ InService \subseteq PacketIds
      /\ \A p \in PacketIds :
           /\ ~Started(p) /\ ~Dropped(p) <=> InBuffer(p)
           /\ Started(p) /\ ~Departed(p) <=> p \in InService
           /\ Departed(p) => Started(p)
           /\ Dropped(p) => ~Started(p)
  BY DEF RouterInv, PlaceInv, PacketInOnePlace
<1>10. \A p : p \in DepartedIds <=> p \in PacketIds /\ Departed(p)
  BY DEF DepartedIds
<1>11. \A p : p \in accepted <=> p \in B \/ p \in InService \/ p \in DepartedIds
  BY <1>6, <1>9, <1>10
<1>12. B \cap InService = {} /\ (B \cup InService) \cap DepartedIds = {}
  BY <1>6, <1>9, <1>10
<1>13. accepted = (B \cup InService) \cup DepartedIds
  BY <1>11
<1>14. /\ IsFiniteSet(B \cup InService)
       /\ Cardinality(B \cup InService) = Len(buffer) + Cardinality(InService)
  BY <1>7, <1>8, <1>12, DisjointUnion
<1>15. /\ Cardinality(accepted) = Cardinality(B \cup InService) + Cardinality(DepartedIds)
       /\ Cardinality(DepartedIds) \in Nat
  BY <1>4, <1>12, <1>13, <1>14, DisjointUnion
<1>16. Cardinality(DepartedIds) = total_enqueued - Len(buffer) - Cardinality(InService)
  <2>1. total_enqueued = Len(buffer) + Cardinality(InService) + Cardinality(DepartedIds)
    BY <1>5, <1>14, <1>15, Zenon
  <2>2. /\ total_enqueued \in Nat /\ Len(buffer) \in Nat
        /\ Cardinality(InService) \in Nat /\ Cardinality(DepartedIds) \in Nat
    BY <1>2, <1>7, <1>8, <1>15
  <2>3. PICK i \in Nat, d \in Nat, l \in Nat, t \in Nat :
          /\ i = Cardinality(InService) /\ d = Cardinality(DepartedIds)
          /\ l = Len(buffer) /\ t = total_enqueued
    BY <2>2
  <2>4. t = l + i + d
    BY <2>1, <2>3, Zenon
  <2>5. d = t - l - i
    BY <2>4
  <2> QED
    BY <2>3, <2>5, Zenon
<1> QED
  BY <1>1, <1>2, <1>5, <1>16

\* When nothing is left but a departure, the totals that they give are the counters.
LEMMA TotalsFollow ==
  /\ RouterInv /\ DropInv /\ records \in Seq(Records) /\ MatchInv /\ WellFormed(records)
  /\ CountersAgree /\ CutAtHorizon
  => TotalsAgree
<1> SUFFICES ASSUME RouterInv, DropInv, records \in Seq(Records), MatchInv,
                    WellFormed(records), CountersAgree, CutAtHorizon, loop = "done"
             PROVE  /\ TotalArrivals(Ordering) = PacketsCreated
                    /\ TotalDrops(Ordering) = packets_dropped
                    /\ AcceptedPackets(Ordering) = total_enqueued
                    /\ TotalDepartures(Ordering) =
                         total_enqueued - Len(buffer) - Cardinality(InService)
  BY DEF TotalsAgree
<1>1. PICK s, dropped, accepted :
        /\ s = records /\ dropped = {p \in PacketIds : Dropped(p)}
        /\ accepted = {p \in PacketIds : ~Dropped(p)}
  OBVIOUS
<1>2. Ordering = s /\ WellFormed(s)
  BY <1>1, RecordsAsTheyAre
<1>3. /\ \A p : Has(s, "ARRIVAL", p) <=> p \in PacketIds
      /\ \A p : Has(s, "DEPARTURE", p) <=> p \in DepartedIds
      /\ \A p : Has(s, "DROP", p) <=> p \in dropped
  BY <1>1, HasTold, NothingLeft DEF DepartedIds
<1>4. /\ Cardinality(Of(s, "ARRIVAL")) = Cardinality(PacketIds)
      /\ Cardinality(Of(s, "DROP")) = Cardinality(dropped)
      /\ Cardinality(Of(s, "DEPARTURE")) = Cardinality(DepartedIds)
  <2>1. ASSUME NEW kind, NEW T, \A p : Has(s, kind, p) <=> p \in T
        PROVE  Cardinality(Of(s, kind)) = Cardinality(T)
    <3>1. \A p : p \in T <=> \E i \in Of(s, kind) : s[i].packet_id = p
      BY <2>1 DEF Has
    <3> QED
      BY <1>2, <3>1, KindCount
  <2> QED
    BY <1>3, <2>1
<1>5. AcceptedPackets(s) = Cardinality(accepted)
  <2> DEFINE I == {i \in Of(s, "ARRIVAL") : s[i].packet_id \notin DroppedIds(s)}
  <2>1. \A p : p \in DroppedIds(s) <=> p \in dropped
    BY <1>3, DroppedHave
  <2>2. \A p : p \in accepted <=> \E i \in I : s[i].packet_id = p
    BY <1>1, <1>3, <2>1 DEF Has
  <2>3. Cardinality(I) = Cardinality(accepted)
    BY <1>2, <2>2, KindCount, SMTT(30)
  <2> QED
    BY <2>3 DEF AcceptedPackets
<1>6. /\ Cardinality(PacketIds) = PacketsCreated
      /\ Cardinality(dropped) = packets_dropped
      /\ Cardinality(accepted) = total_enqueued
      /\ Cardinality(DepartedIds) =
           total_enqueued - Len(buffer) - Cardinality(InService)
  BY <1>1, NothingLeft, PacketCounts
<1> QED
  BY <1>2, <1>4, <1>5, <1>6 DEF TotalArrivals, TotalDrops, TotalDepartures

\* When a run is over the totals of the records are the router's own counters,
\* but for the packets that are still inside (system_statistics.py:85-110).
THEOREM TotalsAreCounters == SimSpec => []TotalsAgree
<1>1. SimSpec => []CountersAgree
  BY SimulationIsRouter, CountersTellPackets, PTL DEF ImplementsRouter
<1> QED
  BY TotalsFollow, <1>1, RouterInvariant, DropInvariant, CollectorInvariant, RecordsWellFormed,
     NothingLeftButDeparture, PTL
-----------------------------------------------------------------------------
\* The latencies, which hold also when the router has raised: the exception
\* leaves a start without its record.

Ledger(p) ==
  /\ Said(records, "ARRIVAL", p, Told("ARRIVAL", p))
  /\ Said(records, "DEPARTURE", p, Told("DEPARTURE", p))
  /\ Told("DEPARTURE", p) # NoTime => Said(records, "SERVICE_START", p, Told("SERVICE_START", p))

LedgerInv == \A p : Ledger(p)

\* What raises is the start of a service.
LEMMA RaiseTold ==
  ASSUME RouterInv, DropInv, [SimNext]_simVars, loop # "raised", loop' = "raised"
  PROVE  records' = records /\ \E p : NowToldOf("SERVICE_START", p)
<1>1. TypeOK /\ FlagInv /\ PlaceInv
  BY DEF RouterInv
<1>2. ASSUME NEW e \in scheduler.queue, NEW d \in ArrivalDelays, RecordArrival(e, d)
      PROVE  FALSE
  <2>1. PICK t \in NextArrival(e.timestamp) : HandleArrival(e, t) /\ Take(e)
    BY <1>2 DEF RecordArrival, WithinBound, NextArrivalTime, NextArrival, Running
  <2>2. raised' = raised
    BY <1>1, <2>1, ArrivalDrops
  <2> QED
    BY <1>2, <2>2 DEF RecordArrival, Record
<1>3. ASSUME NEW e \in scheduler.queue, NEW s \in ServiceTimes, RecordServiceStart(e, s)
      PROVE  records' = records /\ \E p : NowToldOf("SERVICE_START", p)
  <2>1. HandleServiceStart(e, s) /\ Take(e)
    BY <1>3 DEF RecordServiceStart, Running
  <2>2. e \in Starts /\ Begins(e) /\ DropEvents' = DropEvents
    BY <1>1, <2>1, ServiceStartIsStep, ServiceKeepsDrops
  <2>3. NowToldOf("SERVICE_START", e.packet_id)
    BY <1>1, <2>2, StartTold
  <2>4. records' = records
    BY <1>3 DEF RecordServiceStart, Record
  <2> QED
    BY <2>3, <2>4
<1>4. ASSUME NEW e \in scheduler.queue, RecordDeparture(e)
      PROVE  FALSE
  <2>1. HandleDeparture(e) /\ Take(e)
    BY <1>4 DEF RecordDeparture, Running
  <2>2. server.busy
    BY <1>1, <2>1, DepartureIsStep DEF Leaves
  <2>3. raised' = raised
    BY <2>1, <2>2 DEF HandleDeparture, DepartAndStartNext, DepartAndIdle, FinishService
  <2> QED
    BY <1>4, <2>3 DEF RecordDeparture, Record
<1>5. ASSUME NEW e \in scheduler.queue, RecordDrop(e)
      PROVE  FALSE
  BY <1>5 DEF RecordDrop, HandleDrop, Record
<1>6. ASSUME NEW d \in ArrivalDelays, OnStart(d)
      PROVE  FALSE
  BY <1>6 DEF OnStart
<1>7. CASE LeaveLoop \/ UNCHANGED simVars
  BY <1>7 DEF LeaveLoop, simVars
<1> QED
  BY <1>2, <1>3, <1>4, <1>5, <1>6, <1>7 DEF SimNext

\* After an exception the simulation takes no step.
LEMMA RaisedStays ==
  ASSUME [SimNext]_simVars, loop = "raised"
  PROVE  /\ records' = records
         /\ \A kind \in Kinds : \A p : Told(kind, p)' = Told(kind, p)
<1>1. UNCHANGED simVars
  BY DEF SimNext, OnStart, RecordArrival, RecordServiceStart, RecordDeparture, RecordDrop,
         Running, LeaveLoop
<1>2. /\ packet' = packet /\ next_packet_id' = next_packet_id /\ records' = records
      /\ DropEvents' = DropEvents
  BY <1>1 DEF simVars, vars, DropEvents
<1> QED
  BY <1>2, RestTold DEF NothingTold

\* The ledger is kept: by the match while nothing is raised, and by the raising
\* step, which starts no packet that has departed.
LEMMA LedgerNext ==
  ASSUME RouterInv, DropInv, MatchInv, MatchInv', LedgerInv, [SimNext]_simVars
  PROVE  LedgerInv'
<1>1. "ARRIVAL" \in Kinds /\ "DEPARTURE" \in Kinds /\ "SERVICE_START" \in Kinds
  BY DEF Kinds
<1>2. CASE loop' # "raised"
  BY <1>1, <1>2 DEF MatchInv, LedgerInv, Ledger
<1>3. CASE loop = "raised"
  BY <1>1, <1>3, RaisedStays DEF LedgerInv, Ledger
<1>4. CASE loop # "raised" /\ loop' = "raised"
  <2>1. records' = records
    BY <1>4, RaiseTold
  <2>2. PICK q : NowToldOf("SERVICE_START", q)
    BY <1>4, RaiseTold
  <2>3. ToldOrder
    BY TellsInOrder
  <2>4. ASSUME NEW p
        PROVE  /\ Said(records, "ARRIVAL", p, Told("ARRIVAL", p)')
               /\ Said(records, "DEPARTURE", p, Told("DEPARTURE", p)')
               /\ Told("DEPARTURE", p)' # NoTime =>
                    Said(records, "SERVICE_START", p, Told("SERVICE_START", p)')
    <3>1. /\ Told("ARRIVAL", p)' = Told("ARRIVAL", p)
          /\ Told("DEPARTURE", p)' = Told("DEPARTURE", p)
          /\ p # q => Told("SERVICE_START", p)' = Told("SERVICE_START", p)
      BY <1>1, <2>2 DEF NowToldOf
    <3>2. Told("DEPARTURE", p) # NoTime => p # q
      BY <2>2, <2>3 DEF NowToldOf, ToldOrder
    <3>3. Ledger(p)
      BY DEF LedgerInv
    <3> QED
      BY <3>1, <3>2, <3>3 DEF Ledger
  <2> QED
    BY <2>1, <2>4 DEF LedgerInv, Ledger
<1> QED
  BY <1>2, <1>3, <1>4

\* So the ledger is kept, always.
LEMMA LedgerInvariant == SimSpec => []LedgerInv
<1>1. SimInit /\ MatchInv => LedgerInv
  BY DEF SimInit, MatchInv, LedgerInv, Ledger, Kinds
<1> QED
  BY <1>1, LedgerNext, RouterInvariant, DropInvariant, CollectorInvariant, PTL DEF SimSpec

\* The latencies that they give are the packets'.
LEMMA LatenciesFollow ==
  RouterInv /\ LedgerInv /\ records \in Seq(Records) /\ WellFormed(records)
  => LatenciesExact
<1> SUFFICES ASSUME RouterInv, LedgerInv, records \in Seq(Records), WellFormed(records)
             PROVE  LatenciesExact
  OBVIOUS
<1>1. PICK s : s = records
  OBVIOUS
<1>2. Ordering = s /\ WellFormed(s)
  BY <1>1, RecordsAsTheyAre
<1>3. /\ \A p : Told("DEPARTURE", p) # NoTime <=> p \in DepartedIds
      /\ \A p \in DepartedIds : Told("ARRIVAL", p) # NoTime /\ Told("SERVICE_START", p) # NoTime
  BY TellsInOrder DEF ToldOrder, DepartedIds
<1>4. \A p : /\ Said(s, "ARRIVAL", p, Told("ARRIVAL", p))
             /\ Said(s, "DEPARTURE", p, Told("DEPARTURE", p))
             /\ p \in DepartedIds => Said(s, "SERVICE_START", p, Told("SERVICE_START", p))
  BY <1>1, <1>3 DEF LedgerInv, Ledger
<1>5. Completed(s) = DepartedIds
  <2>1. \A p : p \in Completed(s) <=> Has(s, "DEPARTURE", p) /\ Has(s, "ARRIVAL", p)
    BY DEF Completed, Has
  <2>2. \A p : /\ Has(s, "DEPARTURE", p) <=> Told("DEPARTURE", p) # NoTime
               /\ Has(s, "ARRIVAL", p) <=> Told("ARRIVAL", p) # NoTime
    BY <1>4, SaidHas
  <2> QED
    BY <1>3, <2>1, <2>2
<1>6. ASSUME NEW p \in DepartedIds
      PROVE  /\ SystemTime(s, p) = packet[p].departure_time - packet[p].arrival_time
             /\ WaitingTime(s, p) =
                  packet[p].service_start_time - packet[p].arrival_time
  <2>1. /\ Told("ARRIVAL", p) = packet[p].arrival_time
        /\ Told("SERVICE_START", p) = packet[p].service_start_time
        /\ Told("DEPARTURE", p) = packet[p].departure_time
    BY DEF Told, DepartedIds
  <2>2. FirstAt(s, "ARRIVAL", p) = Told("ARRIVAL", p)
    BY <1>2, <1>3, <1>4, TimeSaid
  <2>3. FirstAt(s, "SERVICE_START", p) = Told("SERVICE_START", p)
    BY <1>2, <1>3, <1>4, TimeSaid
  <2>4. FirstAt(s, "DEPARTURE", p) = Told("DEPARTURE", p)
    BY <1>2, <1>3, <1>4, TimeSaid
  <2> QED
    BY <2>1, <2>2, <2>3, <2>4 DEF SystemTime, WaitingTime
<1> QED
  BY <1>2, <1>5, <1>6 DEF LatenciesExact

\* The latencies that the records give are those of the packets that departed,
\* at any moment, also after an exception (packet_statistics.py:32-59).
THEOREM LatenciesArePackets == SimSpec => []LatenciesExact
BY LatenciesFollow, RouterInvariant, CollectorInvariant, LedgerInvariant, RecordsWellFormed, PTL
=============================================================================
