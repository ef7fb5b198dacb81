----------------------------- MODULE Statistics -----------------------------
(***************************************************************************)
(* src/analytics/system_statistics.py and the packet life cycles of        *)
(* mm1_validation.py: pure functions of a sequence of metric records.      *)
(* Times are numbers of ticks; a ratio is left as its numerator, since all *)
(* of them have the observation duration or a count below.  "error" tells  *)
(* that the function raises ValueError.                                    *)
(***************************************************************************)
EXTENDS Integers, Sequences, FiniteSets

Of(records, kind) == {i \in DOMAIN records : records[i].kind = kind}

\* Variants with a mistake, named Faulty..., stand before what they vary.
\* A sort that is not stable.
FaultyOrdered(records) ==
  LET before(i) == {j \in DOMAIN records :
                      \/ records[j].timestamp < records[i].timestamp
                      \/ records[j].timestamp = records[i].timestamp /\ j > i}
      place == [i \in DOMAIN records |-> 1 + Cardinality(before(i))]
  IN  [k \in DOMAIN records |-> records[CHOOSE i \in DOMAIN records : place[i] = k]]

\* sorted(records, key = timestamp) is stable: each record at the place that the
\* number of those before it gives.
Ordered(records) ==
  LET before(i) == {j \in DOMAIN records :
                      \/ records[j].timestamp < records[i].timestamp
                      \/ records[j].timestamp = records[i].timestamp /\ j < i}
      place == [i \in DOMAIN records |-> 1 + Cardinality(before(i))]
  IN  [k \in DOMAIN records |-> records[CHOOSE i \in DOMAIN records : place[i] = k]]

LastTimestamp(ordered) == ordered[Len(ordered)].timestamp

ObservationDuration(ordered) ==
  IF ordered = <<>> THEN 0 ELSE LastTimestamp(ordered) - ordered[1].timestamp

TotalArrivals(ordered) == Cardinality(Of(ordered, "ARRIVAL"))
TotalDepartures(ordered) == Cardinality(Of(ordered, "DEPARTURE"))
TotalDrops(ordered) == Cardinality(Of(ordered, "DROP"))

DroppedIds(ordered) == {ordered[i].packet_id : i \in Of(ordered, "DROP")}

AcceptedPackets(ordered) ==
  Cardinality({i \in Of(ordered, "ARRIVAL") :
                 ordered[i].packet_id \notin DroppedIds(ordered)})

\* _time_weighted_average_queue_length: after n records, the queue length and the
\* area under it; dropped packets never count as queued.

\* The area takes the length after the record.
FaultyQueueWalk(ordered, dropped) ==
  LET change(r) == CASE r.kind = "ARRIVAL" /\ r.packet_id \notin dropped -> 1
                     [] r.kind = "SERVICE_START" -> -1
                     [] OTHER -> 0
      walk[n \in 0 .. Len(ordered)] ==
        IF n = 0 THEN [length |-> 0, area |-> 0, previous_time |-> 0, error |-> FALSE]
        ELSE [length |-> walk[n - 1].length + change(ordered[n]),
              area |-> walk[n - 1].area + (walk[n - 1].length + change(ordered[n]))
                                            * (ordered[n].timestamp - walk[n - 1].previous_time),
              previous_time |-> ordered[n].timestamp,
              error |-> FALSE]
  IN  walk

QueueChange(r, dropped) ==
  CASE r.kind = "ARRIVAL" /\ r.packet_id \notin dropped -> 1
    [] r.kind = "SERVICE_START" -> -1
    [] OTHER -> 0

QueueStep(acc, r, dropped) ==
  [length |-> acc.length + QueueChange(r, dropped),
   area |-> acc.area + acc.length * (r.timestamp - acc.previous_time),
   previous_time |-> r.timestamp,
   error |-> \/ acc.error
             \/ r.timestamp < acc.previous_time
             \/ acc.length + QueueChange(r, dropped) < 0]

QueueWalk(ordered, dropped) ==
  LET start == [length |-> 0, area |-> 0, error |-> FALSE,
                previous_time |-> IF ordered = <<>> THEN 0 ELSE ordered[1].timestamp]
      walk[n \in 0 .. Len(ordered)] ==
        IF n = 0 THEN start ELSE QueueStep(walk[n - 1], ordered[n], dropped)
  IN  walk

\* Dropped packets count as queued.
FaultyQueueProfile(ordered) == QueueWalk(ordered, {})[Len(ordered)]

QueueProfile(ordered) == QueueWalk(ordered, DroppedIds(ordered))[Len(ordered)]

\* _derive_server_busy_profile: pair each service start with the departure that
\* follows; what is still open counts up to the last record.

SinceStart(active, t) == IF active = {} THEN 0 ELSE t - (CHOOSE a \in active : TRUE).start

BusyStep(acc, r) ==
  CASE r.kind = "SERVICE_START" ->
         [acc EXCEPT !.error = @ \/ acc.active # {},
                     !.active = {[start |-> r.timestamp, packet_id |-> r.packet_id]}]
    [] r.kind = "DEPARTURE" ->
         [error |-> \/ acc.error
                    \/ acc.active = {}
                    \/ \E a \in acc.active : a.packet_id # r.packet_id \/ r.timestamp < a.start,
          active |-> {},
          closed |-> acc.closed + SinceStart(acc.active, r.timestamp),
          intervals |-> acc.intervals + 1]
    [] OTHER -> acc

BusyWalk(ordered) ==
  LET walk[n \in 0 .. Len(ordered)] ==
        IF n = 0 THEN [active |-> {}, closed |-> 0, intervals |-> 0, error |-> FALSE]
        ELSE BusyStep(walk[n - 1], ordered[n])
  IN  walk

BusyProfile(ordered) == BusyWalk(ordered)[Len(ordered)]

\* The service that is still open is left out.
FaultyTailBusyTime(ordered) == BusyProfile(ordered).closed

ObservedTailBusyTime(ordered) ==
  LET profile == BusyProfile(ordered)
  IN  profile.closed + SinceStart(profile.active, LastTimestamp(ordered))

\* compute_system_statistics returns instead of raising.
Computable(records) ==
  LET ordered == Ordered(records)
  IN  /\ ~QueueProfile(ordered).error
      /\ ~BusyProfile(ordered).error
      /\ \A a \in BusyProfile(ordered).active : LastTimestamp(ordered) >= a.start

\* _completed_packet_lifecycle: the times of the packets that have a departure
\* and an arrival; the first record of a kind counts.
FirstAt(ordered, kind, p) ==
  LET places == {i \in Of(ordered, kind) : ordered[i].packet_id = p}
  IN  ordered[CHOOSE i \in places : \A j \in places : i <= j].timestamp

Has(ordered, kind, p) == \E i \in Of(ordered, kind) : ordered[i].packet_id = p

Completed(ordered) ==
  {p \in {ordered[i].packet_id : i \in Of(ordered, "DEPARTURE")} : Has(ordered, "ARRIVAL", p)}

\* The wait is left out.
FaultySystemTime(ordered, p) ==
  FirstAt(ordered, "DEPARTURE", p) - FirstAt(ordered, "SERVICE_START", p)

SystemTime(ordered, p) ==
  FirstAt(ordered, "DEPARTURE", p) - FirstAt(ordered, "ARRIVAL", p)

WaitingTime(ordered, p) ==
  FirstAt(ordered, "SERVICE_START", p) - FirstAt(ordered, "ARRIVAL", p)
=============================================================================
