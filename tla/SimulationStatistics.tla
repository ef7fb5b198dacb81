------------------------ MODULE SimulationStatistics ------------------------
(***************************************************************************)
(* The statistics of a simulation's records (Statistics.tla) against what  *)
(* the simulated packets, queue and server really did (Simulation.tla).    *)
(***************************************************************************)
EXTENDS Simulation, Statistics

DepartedIds == {p \in PacketIds : Departed(p)}

\* The sum of f over the first n packets, and over all of them.
SumOfFirst(f, n) ==
  LET sum[k \in 0 .. n] == IF k = 0 THEN 0 ELSE sum[k - 1] + f[FirstPacketId + k - 1]
  IN  sum[n]

SumOver(f) == SumOfFirst(f, PacketsCreated)

\* Time the observation ends: the last record, or now when there is none yet.
Ordering == Ordered(records)
LastTime == IF records = <<>> THEN now ELSE records[Len(records)].timestamp

\* How long packet p has waited at time t, and how long it has been served.
WaitUntil(p, t) ==
  IF Dropped(p) THEN 0
  ELSE (IF Started(p) THEN packet[p].service_start_time ELSE t) - packet[p].arrival_time

Service(p) ==
  IF Departed(p) THEN packet[p].departure_time - packet[p].service_start_time ELSE 0

\* On the records of a simulation, at any moment, the statistics do not raise:
\* no negative queue, no start while busy, no departure of another packet
\* (system_statistics.py:166, 176, 205, 214, 223, 227, 247).
StatisticsComputable == Computable(records)

\* The totals of the records are the router's own counters when the run is
\* over, with the packets that are still inside as the only difference.
TotalsAgree ==
  loop = "done" =>
    /\ TotalArrivals(Ordering) = PacketsCreated
    /\ TotalDrops(Ordering) = packets_dropped
    /\ AcceptedPackets(Ordering) = total_enqueued
    /\ TotalDepartures(Ordering) = total_enqueued - Len(buffer) - Cardinality(InService)

\* The reconstructed queue length is the real one: the packets in the buffer
\* and the reserved one, and, until their drop is recorded, those dropped.
QueueReconstructed ==
  loop # "raised" => QueueProfile(Ordering).length =
    Len(buffer) + Cardinality(Reserved) + Cardinality(Pending(scheduler, "PACKET_DROP"))

\* Little's law on the sample path: when the run is over, the area under the
\* queue length is the total time the accepted packets have waited, those that
\* still wait at the last record included.
AreaIsTotalWaiting ==
  loop = "done" =>
    QueueProfile(Ordering).area = SumOver([p \in PacketIds |-> WaitUntil(p, LastTime)])

\* The closed busy time is the total service of the departed packets, and with
\* the open tail it is the time up to the last record in which the server was
\* busy; it never exceeds the duration, so that a utilization is at most 1.
BusyTimeExact ==
  LET ordered == Ordering
      profile == BusyProfile(ordered)
      observed == ObservedTailBusyTime(ordered)
      service == SumOver([p \in PacketIds |-> Service(p)])
      tail == IF server.busy THEN LastTime - server.busy_start_time ELSE 0
  IN  loop # "raised" =>
      /\ profile.closed = service
      /\ profile.intervals = Cardinality(DepartedIds)
      /\ records # <<>> => /\ observed = service + tail
                           /\ observed <= ObservationDuration(ordered)

\* The latencies taken from the records are those of the packets themselves
\* (packet_statistics.py:32-59): the mean of W and Wq is over all departures.
LatenciesExact ==
  LET ordered == Ordering
  IN  /\ Completed(ordered) = DepartedIds
      /\ \A p \in DepartedIds :
           /\ SystemTime(ordered, p) = packet[p].departure_time - packet[p].arrival_time
           /\ WaitingTime(ordered, p) =
                packet[p].service_start_time - packet[p].arrival_time
=============================================================================
