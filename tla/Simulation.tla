----------------------------- MODULE Simulation -----------------------------
(***************************************************************************)
(* One simulation run: _simulate_mm1_records (validation/mm1_validation.py)*)
(* wires a Router, an EventLoop with max_time = simulation_time, and a     *)
(* MetricsCollector (metrics/collector.py).  The handler gives every event *)
(* to the router, records it, and after an arrival schedules the next one  *)
(* unless that would be past the horizon.                                  *)
(*                                                                         *)
(* Everything the router does is Router.tla's; the loop's own control is   *)
(* EventLoop.tla's, of which this run uses one call of run with max_time.  *)
(***************************************************************************)
EXTENDS Router

CONSTANT SimulationTimes   \* horizons that a caller may ask for

ASSUME SimulationAssumption == SimulationTimes \subseteq Nat

VARIABLES
  simulation_time,   \* the argument: the horizon of this run
  records,           \* MetricsCollector._records
  loop               \* EventLoop.run: "starting", "running", "done", "raised"

simVars == <<vars, simulation_time, records, loop>>

\* The handler records what the router has done.  If the router raised, there
\* is no record, and the exception ends the run and leaves the whole function.
Record(timestamp, kind, packet_id) ==
  IF raised' = raised
  THEN /\ records' = Append(records, [timestamp |-> timestamp, kind |-> kind,
                                      packet_id |-> packet_id])
       /\ UNCHANGED loop
  ELSE /\ loop' = "raised"
       /\ UNCHANGED records

SimInit ==
  /\ Init
  /\ simulation_time \in SimulationTimes
  /\ records = <<>>
  /\ loop = "starting"

\* The next arrival is scheduled only up to and at the horizon; for lack of
\* room under MaxPackets the sampled delay must be one past it.
NextArrivalTime(t) == IF t <= simulation_time THEN t ELSE NoTime
WithinBound(t) == t <= simulation_time => ArrivalsLeft

OnStart(d) ==
  /\ loop = "starting"
  /\ WithinBound(now + d)
  /\ scheduler' = ThenArrival(scheduler, NextArrivalTime(now + d))
  /\ loop' = "running"
  /\ UNCHANGED <<now, queueVars, server, service_start_pending, next_packet_id,
                 packets_dropped, packet, raised, simulation_time, records>>

\* The loop takes e unless it is past the horizon.
Running(e) ==
  /\ loop = "running"
  /\ Take(e)
  /\ e.timestamp <= simulation_time
  /\ UNCHANGED simulation_time

\* Variants with a mistake, as in Router.tla.  The arrival is recorded before the
\* router has given it an id ...
FaultyRecordArrival(e, d) ==
  /\ Running(e)
  /\ WithinBound(e.timestamp + d)
  /\ HandleArrival(e, NextArrivalTime(e.timestamp + d))
  /\ Record(e.timestamp, "ARRIVAL", next_packet_id - 1)

\* ... or the delay is taken for a time.
FaultyNextArrival(e, d) ==
  /\ Running(e)
  /\ WithinBound(d)
  /\ HandleArrival(e, NextArrivalTime(d))
  /\ Record(e.timestamp, "ARRIVAL", next_packet_id)

RecordArrival(e, d) ==
  /\ Running(e)
  /\ WithinBound(e.timestamp + d)
  /\ HandleArrival(e, NextArrivalTime(e.timestamp + d))
  /\ Record(e.timestamp, "ARRIVAL", next_packet_id)

RecordServiceStart(e, s) ==
  /\ Running(e)
  /\ HandleServiceStart(e, s)
  /\ Record(e.timestamp, "SERVICE_START", e.packet_id)

\* The packet recorded is the one the server gives back.
RecordDeparture(e) ==
  /\ Running(e)
  /\ HandleDeparture(e)
  /\ Record(e.timestamp, "DEPARTURE", server.current_packet)

RecordDrop(e) ==
  /\ Running(e)
  /\ HandleDrop(e)
  /\ Record(e.timestamp, "DROP", e.packet_id)

\* Events at the horizon are left ...
FaultyHorizon ==
  /\ loop = "running"
  /\ ~\E e \in scheduler.queue : IsNext(scheduler, e) /\ e.timestamp < simulation_time
  /\ loop' = "done"
  /\ UNCHANGED <<vars, simulation_time, records>>

\* ... or only an empty scheduler ends the loop.
FaultyEnd ==
  /\ loop = "running"
  /\ scheduler.queue = {}
  /\ loop' = "done"
  /\ UNCHANGED <<vars, simulation_time, records>>

LeaveLoop ==
  /\ loop = "running"
  /\ ~\E e \in scheduler.queue : IsNext(scheduler, e) /\ e.timestamp <= simulation_time
  /\ loop' = "done"
  /\ UNCHANGED <<vars, simulation_time, records>>

SimNext ==
  \/ \E d \in ArrivalDelays : OnStart(d)
  \/ \E e \in scheduler.queue :
       \/ \E d \in ArrivalDelays : RecordArrival(e, d)
       \/ \E s \in ServiceTimes : RecordServiceStart(e, s)
       \/ RecordDeparture(e)
       \/ RecordDrop(e)
  \/ LeaveLoop

SimSpec == SimInit /\ [][SimNext]_simVars

\* One thread that is never blocked: run returns once no event is left up to
\* the horizon.  Arrivals are finitely many by MaxPackets; in the program only
\* with probability one.
FairSimSpec == SimSpec /\ WF_simVars(SimNext)

-----------------------------------------------------------------------------
Kinds == {"ARRIVAL", "SERVICE_START", "DEPARTURE", "DROP"}

RecordsOf(kind, p) ==
  {i \in DOMAIN records : records[i].kind = kind /\ records[i].packet_id = p}

SimTypeOK ==
  /\ TypeOK
  /\ simulation_time \in SimulationTimes
  /\ records \in Seq([timestamp : Nat, kind : Kinds, packet_id : PacketIds])
  /\ loop \in {"starting", "running", "done", "raised"}

\* The collector is the packets' history: a packet has exactly the records its
\* own fields call for, one of each kind, at the same times; only the record of
\* a drop may be missing, while its event is pending (mm1_validation.py:219).
RecordsMatchPackets ==
  LET At(kind, p, t) ==
        IF t = NoTime THEN RecordsOf(kind, p) = {}
        ELSE \E i \in DOMAIN records :
               RecordsOf(kind, p) = {i} /\ records[i].timestamp = t
      undelivered == {e.packet_id : e \in Pending(scheduler, "PACKET_DROP")}
  IN  loop # "raised" => \A p \in PacketIds :
        /\ At("ARRIVAL", p, packet[p].arrival_time)
        /\ At("SERVICE_START", p, packet[p].service_start_time)
        /\ At("DEPARTURE", p, packet[p].departure_time)
        /\ At("DROP", p, IF p \in undelivered THEN NoTime ELSE packet[p].drop_time)

\* The records are in the order of time, so sorting them again by timestamp,
\* as the statistics do, changes nothing (system_statistics.py:80).
RecordsChronological ==
  \A i, j \in DOMAIN records : i < j => records[i].timestamp <= records[j].timestamp

\* At the horizon no packet is between two places: no drop, no start and no
\* arrival is left, only the departure of the packet in service, later than the
\* horizon (engine.py:230, mm1_validation.py:224, 269).
CutAtHorizon ==
  loop = "done" =>
    \A e \in scheduler.queue :
      /\ e.event_type = "PACKET_DEPARTURE" /\ e.timestamp > simulation_time
      /\ InService = {e.packet_id}

\* Every simulation comes to its end.
SimulationEnds == <>(loop \in {"done", "raised"})

\* Refinement: all that a simulation does to the router are steps of the
\* router as Router.tla lets them happen.
ImplementsRouter == Spec
=============================================================================
