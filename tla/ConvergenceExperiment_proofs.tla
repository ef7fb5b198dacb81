--------------------- MODULE ConvergenceExperiment_proofs ---------------------
(***************************************************************************)
(* Convergence experiments, for any durations, replications, deviates and  *)
(* errors: their simulations are runs of Simulation, a shorter one is the  *)
(* beginning of the longer ones of its replication, and the verdict        *)
(* follows the trend of the errors.                                        *)
(*                                                                         *)
(* Two simulations are compared by way of a third thing: the run that a    *)
(* stream determines if there is no horizon at all.  It is a sequence of   *)
(* moments, one after each record; a simulation with a horizon is in the   *)
(* state of the moment that it has reached, but for an arrival past the    *)
(* horizon, which it has not scheduled.                                    *)
(***************************************************************************)
EXTENDS ConvergenceExperiment, Simulation_proofs

-----------------------------------------------------------------------------
\* The run of a stream.

\* The n-th reading yields x, of a stream s that holds what was read of it so far.
Reads(s, n, x) ==
  \/ n < Len(s) /\ x = s[n + 1]
  \/ n >= StreamLength /\ x = Beyond

\* A moment: how much has been read; the id of the next packet; when it arrives;
\* the buffer; the start or departure that is pending, if any, with its time and
\* packet, and whether it was scheduled after the next arrival; the last record.
FirstMoment(x) ==
  [read |-> 1, packets |-> FirstPacketId, arrival |-> x * ArrivalScale, waiting |-> <<>>,
   event |-> "none", time |-> 0, id |-> NoPacket, behind |-> FALSE, record |-> "none"]

AfterArrival(m, x) ==
  LET idle == m.event = "none"
      line == Append(m.waiting, m.packets)
  IN  [read |-> m.read + 1, packets |-> m.packets + 1,
       arrival |-> m.arrival + x * ArrivalScale,
       waiting |-> IF idle THEN Tail(line) ELSE line,
       event |-> IF idle THEN "PACKET_SERVICE_START" ELSE m.event,
       time |-> IF idle THEN m.arrival ELSE m.time,
       id |-> IF idle THEN Head(line) ELSE m.id,
       behind |-> FALSE,
       record |-> [timestamp |-> m.arrival, kind |-> "ARRIVAL", packet_id |-> m.packets]]

AfterStart(m, x) ==
  [read |-> m.read + 1, packets |-> m.packets, arrival |-> m.arrival, waiting |-> m.waiting,
   event |-> "PACKET_DEPARTURE", time |-> m.time + x * ServiceScale, id |-> m.id, behind |-> TRUE,
   record |-> [timestamp |-> m.time, kind |-> "SERVICE_START", packet_id |-> m.id]]

AfterDeparture(m) ==
  LET more == m.waiting # <<>>
  IN  [read |-> m.read, packets |-> m.packets, arrival |-> m.arrival,
       waiting |-> IF more THEN Tail(m.waiting) ELSE m.waiting,
       event |-> IF more THEN "PACKET_SERVICE_START" ELSE "none",
       time |-> m.time, id |-> IF more THEN Head(m.waiting) ELSE NoPacket, behind |-> TRUE,
       record |-> [timestamp |-> m.time, kind |-> "DEPARTURE", packet_id |-> m.id]]

\* What happens next is the arrival.
ArrivalIsNext(m) ==
  \/ m.event = "none"
  \/ m.arrival < m.time
  \/ m.arrival = m.time /\ m.behind

Follows(m, n, s) ==
  \/ ArrivalIsNext(m) /\ \E x : Reads(s, m.read, x) /\ n = AfterArrival(m, x)
  \/ /\ ~ArrivalIsNext(m) /\ m.event = "PACKET_SERVICE_START"
     /\ \E x : Reads(s, m.read, x) /\ n = AfterStart(m, x)
  \/ ~ArrivalIsNext(m) /\ m.event = "PACKET_DEPARTURE" /\ n = AfterDeparture(m)

\* g holds the first moments of the run of stream s, up to the n-th after the first.
IsRun(g, s, n) ==
  /\ \E x : Reads(s, 0, x) /\ g[0] = FirstMoment(x)
  /\ \A k \in 1 .. n : Follows(g[k - 1], g[k], s)

\* These records are what the run of stream s leaves.
Explains(g, recs, s) ==
  /\ IsRun(g, s, Len(recs))
  /\ \A k \in 1 .. Len(recs) : recs[k] = g[k].record

\* Nothing happens after this moment up to time T.
Past(m, T) ==
  /\ m.arrival \in Nat /\ m.time \in Nat
  /\ m.arrival > T
  /\ m.event # "none" => m.time > T

Entries == [timestamp : Nat, kind : Kinds, packet_id : Int]

\* The records of a finished simulation.
Recounts(recs, s, T) ==
  /\ recs \in Seq(Entries)
  /\ \A k \in 1 .. Len(recs) : recs[k].timestamp <= T
  /\ \E g : Explains(g, recs, s) /\ Past(g[Len(recs)], T)

-----------------------------------------------------------------------------
\* The scheduler holds what moment m says is pending, without an arrival past T.
Holds(s, m, T) ==
  /\ \A e \in s.queue :
       \/ e.event_type = "PACKET_ARRIVAL" /\ e.timestamp = m.arrival
       \/ /\ e.event_type # "PACKET_ARRIVAL" /\ e.event_type = m.event
          /\ e.timestamp = m.time /\ e.packet_id = m.id
  /\ m.arrival <= T <=> \E e \in s.queue : e.event_type = "PACKET_ARRIVAL"
  /\ m.event # "none" <=> \E e \in s.queue : e.event_type # "PACKET_ARRIVAL"
  /\ \A e, f \in s.queue :
       (e.event_type = "PACKET_ARRIVAL" <=> f.event_type = "PACKET_ARRIVAL") => e = f
  /\ \A e, f \in s.queue :
       e.event_type = "PACKET_ARRIVAL" /\ f.event_type # "PACKET_ARRIVAL" =>
         (e.sequence < f.sequence <=> m.behind)

\* The simulation is at moment m.
At(m) ==
  /\ m.arrival \in Nat /\ m.time \in Nat /\ m.read \in Nat /\ m.packets \in Nat
  /\ m.behind \in BOOLEAN
  /\ m.event \in {"none", "PACKET_SERVICE_START", "PACKET_DEPARTURE"}
  /\ position = m.read /\ next_packet_id = m.packets /\ buffer = m.waiting
  /\ server.busy <=> m.event = "PACKET_DEPARTURE"
  /\ server.busy => server.current_packet = m.id
  /\ service_start_pending <=> m.event = "PACKET_SERVICE_START"
  /\ raised = {}
  /\ Holds(scheduler, m, simulation_time)

-----------------------------------------------------------------------------
\* The run of a stream: it is the only one, and it stays when more of the stream
\* is read.

\* What the longest reading has found is kept.
Grows(s, t) == t = s \/ \E y \in Deviates : t = Append(s, y)

\* What was read stays what it was.
LEMMA ReadsGrow ==
  ASSUME NEW s \in Seq(Deviates), NEW t, Grows(s, t), NEW n \in Nat, NEW x, Reads(s, n, x)
  PROVE  Reads(t, n, x)
<1>1. CASE t = s
  BY <1>1
<1>2. ASSUME NEW y \in Deviates, t = Append(s, y)
      PROVE  Reads(t, n, x)
  <2>1. /\ Len(s) \in Nat /\ Len(t) = Len(s) + 1
        /\ \A i \in 1 .. Len(s) : t[i] = s[i]
    BY <1>2, AppendProperties
  <2> QED
    BY <2>1 DEF Reads
<1> QED
  BY <1>1, <1>2 DEF Grows

\* A reading is a number, and the only one.
LEMMA ReadsOne ==
  ASSUME NEW s \in Seq(Deviates), Len(s) <= StreamLength, NEW n \in Nat, NEW x, Reads(s, n, x)
  PROVE  /\ x \in Nat
         /\ \A y : Reads(s, n, y) => y = x
<1>1. Len(s) \in Nat /\ StreamLength \in Nat /\ Deviates \subseteq Nat
  BY ConvergenceAssumption
<1>2. Beyond \in Nat
  <2> DEFINE last == CHOOSE t \in SimulationTimes : \A u \in SimulationTimes : u <= t
  <2>1. last \in SimulationTimes
    BY ConvergenceAssumption
  <2>2. Beyond = 1 + last
    BY DEF Beyond
  <2> HIDE DEF last
  <2>3. last \in Nat
    BY <2>1, SimulationAssumption
  <2> QED
    BY <2>2, <2>3
<1>3. x \in Nat
  <2>1. CASE n < Len(s) /\ x = s[n + 1]
    <3>1. n + 1 \in 1 .. Len(s)
      BY <1>1, <2>1
    <3>2. s[n + 1] \in Deviates
      BY <3>1
    <3> QED
      BY <1>1, <2>1, <3>2
  <2> QED
    BY <1>2, <2>1 DEF Reads
<1> QED
  BY <1>1, <1>3 DEF Reads

\* A moment has one successor at most.
LEMMA FollowsOne ==
  ASSUME NEW s \in Seq(Deviates), Len(s) <= StreamLength, NEW m, m.read \in Nat,
         NEW n, Follows(m, n, s), NEW o, Follows(m, o, s)
  PROVE  n = o
<1>1. \A x, y : Reads(s, m.read, x) /\ Reads(s, m.read, y) => x = y
  BY ReadsOne
<1>2. CASE ArrivalIsNext(m)
  <2>1. PICK x : Reads(s, m.read, x) /\ n = AfterArrival(m, x)
    BY <1>2 DEF Follows
  <2>2. PICK y : Reads(s, m.read, y) /\ o = AfterArrival(m, y)
    BY <1>2 DEF Follows
  <2> QED
    BY <1>1, <2>1, <2>2
<1>3. CASE ~ArrivalIsNext(m) /\ m.event = "PACKET_SERVICE_START"
  <2>1. PICK x : Reads(s, m.read, x) /\ n = AfterStart(m, x)
    BY <1>3 DEF Follows
  <2>2. PICK y : Reads(s, m.read, y) /\ o = AfterStart(m, y)
    BY <1>3 DEF Follows
  <2> QED
    BY <1>1, <2>1, <2>2
<1>4. CASE ~ArrivalIsNext(m) /\ m.event = "PACKET_DEPARTURE"
  BY <1>4 DEF Follows
<1> QED
  BY <1>2, <1>3, <1>4 DEF Follows

\* A moment has read so much, and its times are times.
Timed(m) == m.read \in Nat /\ m.arrival \in Nat /\ m.time \in Nat

\* The next moment, too, and it records the arrival or the event that was next.
LEMMA FollowsTimed ==
  ASSUME NEW s \in Seq(Deviates), Len(s) <= StreamLength, NEW m, Timed(m),
         NEW n, Follows(m, n, s)
  PROVE  /\ Timed(n)
         /\ \/ n.record.timestamp = m.arrival
            \/ m.event # "none" /\ n.record.timestamp = m.time
         /\ n.arrival >= m.arrival
         /\ n.event # "none" =>
              \/ n.time >= m.arrival
              \/ m.event # "none" /\ n.time >= m.time
<1>1. \A x : Reads(s, m.read, x) => x \in Nat
  BY ReadsOne DEF Timed
<1>2. ArrivalScale \in Nat /\ ServiceScale \in Nat
  BY ConvergenceAssumption
<1>3. ASSUME NEW x \in Nat, n = AfterArrival(m, x)
      PROVE  /\ Timed(n) /\ n.record.timestamp = m.arrival
             /\ n.arrival >= m.arrival
             /\ n.event # "none" =>
                  \/ n.time >= m.arrival
                  \/ m.event # "none" /\ n.time >= m.time
  <2>1. x * ArrivalScale \in Nat
    BY <1>2
  <2> QED
    BY <1>3, <2>1 DEF AfterArrival, Timed
<1>4. ASSUME NEW x \in Nat, n = AfterStart(m, x)
      PROVE  /\ Timed(n) /\ n.record.timestamp = m.time
             /\ n.arrival >= m.arrival /\ n.time >= m.time
  <2>1. x * ServiceScale \in Nat
    BY <1>2
  <2> QED
    BY <1>4, <2>1 DEF AfterStart, Timed
<1>5. ASSUME n = AfterDeparture(m)
      PROVE  /\ Timed(n) /\ n.record.timestamp = m.time
             /\ n.arrival >= m.arrival /\ n.time >= m.time
  BY <1>5 DEF AfterDeparture, Timed
<1>6. CASE ArrivalIsNext(m) /\ \E x : Reads(s, m.read, x) /\ n = AfterArrival(m, x)
  BY <1>1, <1>3, <1>6
<1>7. CASE /\ ~ArrivalIsNext(m) /\ m.event = "PACKET_SERVICE_START"
           /\ \E x : Reads(s, m.read, x) /\ n = AfterStart(m, x)
  <2>1. m.event # "none"
    BY <1>7
  <2> QED
    BY <1>1, <1>4, <1>7, <2>1
<1>8. CASE ~ArrivalIsNext(m) /\ m.event = "PACKET_DEPARTURE" /\ n = AfterDeparture(m)
  <2>1. m.event # "none"
    BY <1>8
  <2> QED
    BY <1>5, <1>8, <2>1
<1> QED
  BY <1>6, <1>7, <1>8 DEF Follows

\* After a moment past time T every record is past it, and every moment.
LEMMA StaysPast ==
  ASSUME NEW s \in Seq(Deviates), Len(s) <= StreamLength, NEW T \in Nat,
         NEW m, m.read \in Nat, Past(m, T), NEW n, Follows(m, n, s)
  PROVE  n.read \in Nat /\ Past(n, T) /\ n.record.timestamp > T
<1>1. Timed(m)
  BY DEF Timed, Past
<1> QED
  BY <1>1, FollowsTimed DEF Timed, Past

\* A run that explains records of a stream also explains them when more of the
\* stream is read.
LEMMA ExplainsGrow ==
  ASSUME NEW s \in Seq(Deviates), NEW t, Grows(s, t), Len(s) <= StreamLength,
         NEW n \in Nat, NEW g, IsRun(g, s, n)
  PROVE  /\ IsRun(g, t, n)
         /\ \A k \in 0 .. n : Timed(g[k])
<1>1. PICK x : Reads(s, 0, x) /\ g[0] = FirstMoment(x)
  BY DEF IsRun
<1>2. Timed(g[0])
  <2>1. x \in Nat /\ ArrivalScale \in Nat
    BY <1>1, ReadsOne, ConvergenceAssumption
  <2>2. x * ArrivalScale \in Nat
    BY <2>1
  <2> QED
    BY <1>1, <2>2 DEF FirstMoment, Timed
<1>3. \A k \in 1 .. n : Timed(g[k - 1]) => Timed(g[k])
  BY FollowsTimed DEF IsRun
<1>4. \A k \in 0 .. n : Timed(g[k])
  <2> DEFINE S == {k \in 0 .. n : Timed(g[k])}
  <2>1. 0 \in S /\ \A k \in 1 .. n : k - 1 \in S => k \in S
    BY <1>2, <1>3
  <2> HIDE DEF S
  <2>2. \A k \in 0 .. n : k \in S
    BY <2>1, UpTo
  <2> QED
    BY <2>2 DEF S
<1>5. Reads(t, 0, x)
  BY <1>1, ReadsGrow
<1>6. ASSUME NEW k \in 1 .. n
      PROVE  Follows(g[k - 1], g[k], t)
  <2>1. g[k - 1].read \in Nat /\ Follows(g[k - 1], g[k], s)
    BY <1>4 DEF Timed, IsRun
  <2>2. \A y : Reads(s, g[k - 1].read, y) => Reads(t, g[k - 1].read, y)
    BY <2>1, ReadsGrow
  <2> QED
    BY <2>1, <2>2 DEF Follows
<1> QED
  BY <1>1, <1>4, <1>5, <1>6 DEF IsRun

\* Two runs of a stream are the same as far as both go.
LEMMA OneRun ==
  ASSUME NEW s \in Seq(Deviates), Len(s) <= StreamLength, NEW n \in Nat,
         NEW g, IsRun(g, s, n), NEW h, IsRun(h, s, n)
  PROVE  \A k \in 0 .. n : g[k] = h[k]
<1>1. \A k \in 0 .. n : Timed(g[k])
  BY ExplainsGrow DEF Grows
<1>2. g[0] = h[0]
  BY ReadsOne DEF IsRun
<1>3. ASSUME NEW k \in 1 .. n, g[k - 1] = h[k - 1]
      PROVE  g[k] = h[k]
  <2>1. g[k - 1].read \in Nat
    BY <1>1 DEF Timed
  <2> QED
    BY <1>3, <2>1, FollowsOne DEF IsRun
<1> DEFINE S == {k \in 0 .. n : g[k] = h[k]}
<1>4. 0 \in S /\ \A k \in 1 .. n : k - 1 \in S => k \in S
  BY <1>2, <1>3
<1> HIDE DEF S
<1>5. \A k \in 0 .. n : k \in S
  BY <1>4, UpTo
<1> QED
  BY <1>5 DEF S

\* What follows a moment past time T in a run is past it.
LEMMA RestIsPast ==
  ASSUME NEW s \in Seq(Deviates), Len(s) <= StreamLength, NEW T \in Nat,
         NEW n \in Nat, NEW m \in 0 .. n, NEW g, IsRun(g, s, n), Past(g[m], T)
  PROVE  \A k \in m + 1 .. n : g[k].record.timestamp > T
<1>1. \A k \in 0 .. n : g[k].read \in Nat
  BY ExplainsGrow DEF Grows, Timed
<1>2. ASSUME NEW k \in m + 1 .. n, Past(g[k - 1], T)
      PROVE  Past(g[k], T) /\ g[k].record.timestamp > T
  <2>1. k \in 1 .. n /\ k - 1 \in 0 .. n
    OBVIOUS
  <2> QED
    BY <1>1, <1>2, <2>1, StaysPast DEF IsRun
<1> DEFINE S == {d \in 0 .. n - m : Past(g[m + d], T)}
<1>3. n - m \in Nat
  OBVIOUS
<1>4. 0 \in S
  BY <1>3
<1>5. ASSUME NEW d \in 1 .. n - m, d - 1 \in S
      PROVE  d \in S
  <2>1. m + d \in m + 1 .. n /\ (m + d) - 1 = m + (d - 1)
    BY <1>3
  <2>2. Past(g[(m + d) - 1], T)
    BY <1>5, <2>1
  <2> QED
    BY <1>2, <2>1, <2>2
<1> HIDE DEF S
<1>6. \A d \in 0 .. n - m : d \in S
  BY <1>3, <1>4, <1>5, UpTo
<1>7. ASSUME NEW k \in m + 1 .. n
      PROVE  g[k].record.timestamp > T
  <2>1. (k - 1) - m \in 0 .. n - m /\ m + ((k - 1) - m) = k - 1
    OBVIOUS
  <2>2. Past(g[k - 1], T)
    BY <1>6, <2>1 DEF S
  <2> QED
    BY <1>2, <2>2
<1> QED
  BY <1>7

\* The records of two finished simulations of one stream: those of the shorter
\* are the records of the longer up to the horizon of the shorter.
LEMMA ShorterIsPrefix ==
  ASSUME NEW s \in Seq(Deviates), Len(s) <= StreamLength,
         NEW T \in Nat, NEW U \in Nat, T <= U,
         NEW short, Recounts(short, s, T), NEW long, Recounts(long, s, U)
  PROVE  /\ Len(short) <= Len(long)
         /\ short = SubSeq(long, 1, Len(short))
         /\ \A k \in DOMAIN long : long[k].timestamp <= T <=> k <= Len(short)
<1>1. PICK m \in Nat : m = Len(short) /\ short \in Seq(Entries) /\ DOMAIN short = 1 .. m
  <2>1. short \in Seq(Entries)
    BY DEF Recounts
  <2>2. Len(short) \in Nat /\ DOMAIN short = 1 .. Len(short)
    BY <2>1
  <2> QED
    BY <2>1, <2>2
<1>2. PICK n \in Nat : n = Len(long) /\ long \in Seq(Entries) /\ DOMAIN long = 1 .. n
  <2>1. long \in Seq(Entries)
    BY DEF Recounts
  <2>2. Len(long) \in Nat /\ DOMAIN long = 1 .. Len(long)
    BY <2>1
  <2> QED
    BY <2>1, <2>2
<1>3. PICK g : Explains(g, short, s) /\ Past(g[m], T)
  BY <1>1 DEF Recounts
<1>4. PICK h : Explains(h, long, s) /\ Past(h[n], U)
  BY <1>2 DEF Recounts
<1>5. IsRun(g, s, m) /\ IsRun(h, s, n)
  BY <1>1, <1>2, <1>3, <1>4 DEF Explains
<1>6. \A k \in 1 .. m : short[k] = g[k].record /\ short[k].timestamp <= T
                        /\ short[k].timestamp \in Nat
  <2>1. \A k \in 1 .. m : short[k] \in Entries
    BY <1>1
  <2>2. \A e \in Entries : e.timestamp \in Nat
    BY DEF Entries
  <2>3. \A k \in 1 .. m : short[k] = g[k].record /\ short[k].timestamp <= T
    BY <1>1, <1>3 DEF Explains, Recounts
  <2> QED
    BY <2>1, <2>2, <2>3
<1>7. \A k \in 1 .. n : long[k] = h[k].record /\ long[k].timestamp \in Nat
  <2>1. \A k \in 1 .. n : long[k] \in Entries
    BY <1>2
  <2>2. \A e \in Entries : e.timestamp \in Nat
    BY DEF Entries
  <2>3. \A k \in 1 .. n : long[k] = h[k].record
    BY <1>2, <1>4 DEF Explains
  <2> QED
    BY <2>1, <2>2, <2>3
<1>8. m <= n
  <2> SUFFICES ASSUME n < m
               PROVE  FALSE
    OBVIOUS
  <2>1. IsRun(g, s, n) /\ n \in 0 .. m /\ n + 1 \in 1 .. m
    BY <1>5 DEF IsRun
  <2>2. g[n] = h[n]
    BY <1>5, <2>1, OneRun
  <2>3. g[n + 1].record.timestamp > U
    BY <1>4, <1>5, <2>1, <2>2, RestIsPast
  <2> QED
    BY <1>6, <2>1, <2>3
<1>9. IsRun(h, s, m)
  BY <1>5, <1>8 DEF IsRun
<1>10. \A k \in 0 .. m : g[k] = h[k]
  BY <1>5, <1>9, OneRun
<1>11. \A k \in 1 .. m : short[k] = long[k] /\ long[k].timestamp <= T
  BY <1>6, <1>7, <1>8, <1>10
<1>12. \A k \in m + 1 .. n : long[k].timestamp > T
  <2>1. Past(h[m], T) /\ m \in 0 .. n
    BY <1>3, <1>8, <1>10
  <2>2. \A k \in m + 1 .. n : h[k].record.timestamp > T
    BY <1>5, <2>1, RestIsPast
  <2> QED
    BY <1>7, <2>2
<1>13. short = SubSeq(long, 1, m)
  <2>1. \A i \in 1 .. m : long[i] \in Entries
    BY <1>2, <1>8
  <2>2. PICK c : c = SubSeq(long, 1, m)
    OBVIOUS
  <2>3. /\ c \in Seq(Entries)
        /\ Len(c) = IF 1 <= m THEN (m - 1) + 1 ELSE 0
        /\ \A i \in 1 .. (m - 1) + 1 : c[i] = long[(1 + i) - 1]
    BY <2>1, <2>2, SubSeqProperties
  <2>4. Len(c) = m /\ \A i \in 1 .. m : c[i] = long[i]
    BY <2>3
  <2>5. short = c
    BY <1>1, <1>11, <2>3, <2>4, SeqEqual
  <2> QED
    BY <2>2, <2>5
<1>14. \A k \in 1 .. n : long[k].timestamp <= T <=> k <= m
  BY <1>7, <1>8, <1>11, <1>12
<1> QED
  BY <1>1, <1>2, <1>8, <1>13, <1>14

-----------------------------------------------------------------------------
\* What the steps of the simulation do to a scheduler that holds a moment.

\* The scheduler has the start or departure of moment m and nothing else.
HoldsOwn(s, m) ==
  /\ \A e \in s.queue : /\ e.event_type # "PACKET_ARRIVAL" /\ e.event_type = m.event
                        /\ e.timestamp = m.time /\ e.packet_id = m.id
  /\ m.event # "none" <=> s.queue # {}
  /\ \A e, f \in s.queue : e = f

\* The first pending event up to the horizon is the arrival if that is next.
LEMMA HoldsNext ==
  ASSUME NEW P, NEW s, IsScheduler(s, Nat, P), NEW T \in Nat,
         NEW m, Timed(m), m.behind \in BOOLEAN, Holds(s, m, T),
         NEW e, IsNext(s, e), e.timestamp <= T
  PROVE  e.event_type = "PACKET_ARRIVAL" <=> ArrivalIsNext(m)
<1>1. /\ e \in s.queue
      /\ \A f \in s.queue : /\ f.timestamp \in Nat /\ f.sequence \in Nat
                            /\ f # e => Precedes(e, f)
  BY DEF IsScheduler, Events, IsNext
<1>2. CASE e.event_type = "PACKET_ARRIVAL"
  <2> SUFFICES ASSUME m.event # "none"
               PROVE  ArrivalIsNext(m)
    BY <1>2 DEF ArrivalIsNext
  <2>1. PICK f \in s.queue : f.event_type # "PACKET_ARRIVAL" /\ f.timestamp = m.time
    BY DEF Holds
  <2>2. e.timestamp = m.arrival /\ (e.sequence < f.sequence <=> m.behind)
    BY <1>1, <1>2, <2>1 DEF Holds
  <2>3. Precedes(e, f)
    BY <1>1, <1>2, <2>1
  <2> QED
    BY <2>1, <2>2, <2>3 DEF Precedes, ArrivalIsNext
<1>3. CASE e.event_type # "PACKET_ARRIVAL"
  <2> SUFFICES ASSUME ArrivalIsNext(m)
               PROVE  FALSE
    BY <1>3
  <2>1. m.event # "none" /\ e.timestamp = m.time
    BY <1>1, <1>3 DEF Holds
  <2>2. m.arrival <= m.time /\ (m.arrival = m.time => m.behind)
    BY <2>1 DEF ArrivalIsNext, Timed
  <2>3. m.arrival <= T
    BY <2>1, <2>2 DEF Timed
  <2>4. PICK a \in s.queue : a.event_type = "PACKET_ARRIVAL" /\ a.timestamp = m.arrival
    BY <2>3 DEF Holds
  <2>5. Precedes(e, a) /\ (a.sequence < e.sequence <=> m.behind)
    BY <1>1, <1>3, <2>4 DEF Holds
  <2> QED
    BY <1>1, <2>1, <2>2, <2>4, <2>5 DEF Precedes, Timed
<1> QED
  BY <1>2, <1>3

\* The next arrival is scheduled last, and only up to the horizon.
LEMMA HoldsArrival ==
  ASSUME NEW P, NEW s, IsScheduler(s, Nat, P), NEW T \in Nat,
         NEW m, m.arrival \in Nat, m.behind = FALSE, HoldsOwn(s, m)
  PROVE  Holds(ThenArrival(s, IF m.arrival <= T THEN m.arrival ELSE NoTime), m, T)
<1>1. \A e \in s.queue : e.sequence < s.sequence_counter /\ e.sequence \in Nat
                         /\ s.sequence_counter \in Nat
  BY DEF IsScheduler, Stamped, Events
<1>2. CASE m.arrival <= T
  <2>1. PICK a : a = Event(m.arrival, "PACKET_ARRIVAL", NoPacket)
    OBVIOUS
  <2>2. a \in Events(Nat, P) /\ a.timestamp = m.arrival /\ a.event_type = "PACKET_ARRIVAL"
    BY <2>1, EventTyped DEF EventType
  <2>3. PICK b : b = Stamp(s, a)
    OBVIOUS
  <2>4. b.timestamp = m.arrival /\ b.event_type = "PACKET_ARRIVAL"
        /\ b.sequence = s.sequence_counter
    BY <2>2, <2>3, StampProperties
  <2>5. PICK t : t = ThenArrival(s, m.arrival)
    OBVIOUS
  <2>6. t.queue = s.queue \cup {b}
    <3>1. t = AddEvent(s, a)
      BY <2>1, <2>5 DEF ThenArrival, NoTime
    <3> QED
      BY <2>2, <2>3, <3>1, AddEventProperties
  <2>7. Holds(t, m, T)
    BY <1>1, <1>2, <2>4, <2>6 DEF Holds, HoldsOwn
  <2> QED
    BY <1>2, <2>5, <2>7
<1>3. CASE ~(m.arrival <= T)
  <2>1. ThenArrival(s, NoTime) = s
    BY DEF ThenArrival
  <2>2. Holds(s, m, T)
    BY <1>3 DEF Holds, HoldsOwn
  <2> QED
    BY <1>3, <2>1, <2>2
<1> QED
  BY <1>2, <1>3

\* Without the arrival the scheduler has the start or departure, if any.
LEMMA HoldsTaken ==
  ASSUME NEW P, NEW s, IsScheduler(s, Nat, P), NEW T, NEW m, Holds(s, m, T),
         NEW e \in s.queue, e.event_type = "PACKET_ARRIVAL"
  PROVE  HoldsOwn(RemoveEvent(s, e), m)
<1>1. PICK t : t = RemoveEvent(s, e)
  OBVIOUS
<1>2. t.queue = s.queue \ {e}
  BY <1>1, RemoveEventProperties
<1>3. HoldsOwn(t, m)
  BY <1>2 DEF Holds, HoldsOwn
<1> QED
  BY <1>1, <1>3

\* A start or departure that is scheduled is the only one, if there was none.
LEMMA HoldsScheduled ==
  ASSUME NEW P, NEW s, IsScheduler(s, Nat, P), NEW m, m.time \in Nat,
         m.event \in {"PACKET_SERVICE_START", "PACKET_DEPARTURE"}, s.queue = {}
  PROVE  /\ HoldsOwn(AddEvent(s, Event(m.time, m.event, m.id)), m)
         /\ IsScheduler(AddEvent(s, Event(m.time, m.event, m.id)), Nat, P \cup {m.id})
<1>1. IsScheduler(s, Nat, P \cup {m.id})
  BY MorePackets
<1>2. PICK o : o = Event(m.time, m.event, m.id)
  OBVIOUS
<1>3. /\ o \in Events(Nat, P \cup {m.id})
      /\ o.timestamp = m.time /\ o.event_type = m.event /\ o.packet_id = m.id
  <2>1. PICK Q : Q = P \cup {m.id}
    OBVIOUS
  <2>2. m.event \in EventType /\ m.id \in Q \cup {NoPacket}
    BY <2>1 DEF EventType
  <2>3. /\ o \in Events(Nat, Q)
        /\ o.timestamp = m.time /\ o.event_type = m.event /\ o.packet_id = m.id
    BY <1>2, <2>2, EventTyped
  <2> QED
    BY <2>1, <2>3
<1>4. PICK t : t = AddEvent(s, o)
  OBVIOUS
<1>5. PICK b : b = Stamp(s, o)
  OBVIOUS
<1>6. /\ IsScheduler(t, Nat, P \cup {m.id}) /\ t.queue = {b}
      /\ b.timestamp = m.time /\ b.event_type = m.event /\ b.packet_id = m.id
  BY <1>1, <1>3, <1>4, <1>5, AddEventProperties, StampProperties
<1>7. HoldsOwn(t, m)
  BY <1>6 DEF HoldsOwn
<1> QED
  BY <1>2, <1>4, <1>6, <1>7

\* The start or departure is taken; what it schedules comes after the arrival.
LEMMA HoldsReplaced ==
  ASSUME NEW P, NEW s, IsScheduler(s, Nat, P), NEW T, NEW m, Holds(s, m, T),
         NEW e \in s.queue, e.event_type # "PACKET_ARRIVAL",
         NEW n, n.arrival = m.arrival, n.behind = TRUE, n.time \in Nat,
         n.event \in {"PACKET_SERVICE_START", "PACKET_DEPARTURE"}
  PROVE  Holds(AddEvent(RemoveEvent(s, e), Event(n.time, n.event, n.id)), n, T)
<1>1. PICK r : r = RemoveEvent(s, e)
  OBVIOUS
<1>2. /\ IsScheduler(r, Nat, P \cup {n.id}) /\ r.queue = s.queue \ {e}
      /\ r.sequence_counter = s.sequence_counter
  BY <1>1, RemoveEventProperties, MorePackets
<1>3. PICK o : o = Event(n.time, n.event, n.id)
  OBVIOUS
<1>4. /\ o \in Events(Nat, P \cup {n.id})
      /\ o.timestamp = n.time /\ o.event_type = n.event /\ o.packet_id = n.id
  <2>1. PICK Q : Q = P \cup {n.id}
    OBVIOUS
  <2>2. n.event \in EventType /\ n.id \in Q \cup {NoPacket}
    BY <2>1 DEF EventType
  <2>3. /\ o \in Events(Nat, Q)
        /\ o.timestamp = n.time /\ o.event_type = n.event /\ o.packet_id = n.id
    BY <1>3, <2>2, EventTyped
  <2> QED
    BY <2>1, <2>3
<1>5. PICK t : t = AddEvent(r, o)
  OBVIOUS
<1>6. PICK b : b = Stamp(r, o)
  OBVIOUS
<1>7. /\ t.queue = (s.queue \ {e}) \cup {b} /\ b.sequence = s.sequence_counter
      /\ b.timestamp = n.time /\ b.event_type = n.event /\ b.packet_id = n.id
  BY <1>2, <1>4, <1>5, <1>6, AddEventProperties, StampProperties
<1>8. \A f \in s.queue : f.sequence < s.sequence_counter
  BY DEF IsScheduler, Stamped
<1>9. Holds(t, n, T)
  <2>1. \A f \in s.queue \ {e} : f.event_type = "PACKET_ARRIVAL" /\ f.timestamp = m.arrival
    BY DEF Holds
  <2>2. b.event_type # "PACKET_ARRIVAL" /\ n.event # "none"
    BY <1>7
  <2>3. m.arrival <= T <=> \E f \in s.queue \ {e} : f.event_type = "PACKET_ARRIVAL"
    BY DEF Holds
  <2>4. \A f, g \in s.queue \ {e} : f = g
    BY <2>1 DEF Holds
  <2> QED
    BY <1>7, <1>8, <2>1, <2>2, <2>3, <2>4 DEF Holds
<1> QED
  BY <1>1, <1>3, <1>5, <1>9

\* The departure is taken and schedules nothing.
LEMMA HoldsNothing ==
  ASSUME NEW P, NEW s, IsScheduler(s, Nat, P), NEW T, NEW m, Holds(s, m, T),
         NEW e \in s.queue, e.event_type # "PACKET_ARRIVAL",
         NEW n, n.arrival = m.arrival, n.event = "none"
  PROVE  Holds(RemoveEvent(s, e), n, T)
<1>1. PICK t : t = RemoveEvent(s, e)
  OBVIOUS
<1>2. t.queue = s.queue \ {e}
  BY <1>1, RemoveEventProperties
<1>3. \A f \in t.queue : f.event_type = "PACKET_ARRIVAL" /\ f.timestamp = m.arrival
  BY <1>2 DEF Holds
<1>4. m.arrival <= T <=> \E f \in t.queue : f.event_type = "PACKET_ARRIVAL"
  BY <1>2 DEF Holds
<1>5. \A f, g \in t.queue : f = g
  BY <1>2, <1>3 DEF Holds
<1>6. Holds(t, n, T)
  BY <1>3, <1>4, <1>5 DEF Holds
<1> QED
  BY <1>1, <1>6

\* If the loop is left nothing is to happen up to the horizon.
LEMMA HoldsPast ==
  ASSUME NEW P, NEW s, IsScheduler(s, Nat, P), NEW T \in Nat,
         NEW m, Timed(m), Holds(s, m, T),
         ~\E e \in s.queue : IsNext(s, e) /\ e.timestamp <= T
  PROVE  Past(m, T)
<1>1. \A f \in s.queue : f.timestamp \in Nat
  BY DEF IsScheduler, Events
<1>2. ASSUME NEW f \in s.queue
      PROVE  f.timestamp > T
  <2>1. PICK e \in s.queue : IsNext(s, e)
    BY EarliestExists
  <2>2. e.timestamp > T
    BY <1>1, <2>1
  <2>3. e.timestamp <= f.timestamp
    BY <1>1, <2>1 DEF IsNext, Precedes
  <2> QED
    BY <1>1, <2>2, <2>3
<1>3. m.arrival > T
  <2> SUFFICES ASSUME m.arrival <= T
               PROVE  FALSE
    BY DEF Timed
  <2>1. PICK f \in s.queue : f.timestamp = m.arrival
    BY DEF Holds
  <2> QED
    BY <1>1, <1>2, <2>1
<1>4. m.event # "none" => m.time > T
  BY <1>2 DEF Holds
<1> QED
  BY <1>3, <1>4 DEF Past, Timed

-----------------------------------------------------------------------------
\* The steps of a simulation go from moment to moment.

\* What a step from moment m to moment n does to the records.
Recorded(n) ==
  /\ records' = Append(records, n.record) /\ loop' = loop
  /\ simulation_time' = simulation_time
  /\ n.record \in Entries /\ n.record.timestamp <= simulation_time

\* With no capacity and no random drops an arrival waits or starts.
LEMMA ArrivalAccepted ==
  ASSUME NEW e, NEW t, HandleArrival(e, t)
  PROVE  EnqueueAndWait(e, t) \/ EnqueueAndStart(e, t)
<1>1. BaselineDrop = {FALSE} /\ Capacity = {}
  BY ConvergenceAssumption
<1>2. ~IsFull /\ TRUE \notin BaselineDrop
  BY <1>1 DEF IsFull
<1> QED
  BY <1>2 DEF HandleArrival, DropBaseline, DropQueueFull

\* An arrival.
LEMMA MomentArrives ==
  ASSUME TypeOK, simulation_time \in Nat, NEW s, NEW m, At(m), NEW e \in scheduler.queue,
         NEW x \in Nat, Reads(s, m.read, x), RecordArrival(e, x * ArrivalScale),
         position' = position + 1, NEW n, n = AfterArrival(m, x)
  PROVE  Follows(m, n, s) /\ At(n)' /\ Recorded(n)
<1>1. /\ IsScheduler(scheduler, Nat, PacketIds) /\ Timed(m) /\ m.packets \in Nat
      /\ m.behind \in BOOLEAN /\ raised = {}
      /\ Holds(scheduler, m, simulation_time)
  BY DEF TypeOK, At, Timed
<1>2. /\ IsNext(scheduler, e) /\ e.timestamp <= simulation_time
      /\ simulation_time' = simulation_time /\ e.event_type = "PACKET_ARRIVAL"
  BY DEF RecordArrival, Running, Take, HandleArrival
<1>3. ArrivalIsNext(m) /\ e.timestamp = m.arrival
  BY <1>1, <1>2, HoldsNext DEF Holds
<1>4. Follows(m, n, s)
  BY <1>3 DEF Follows
<1>5. PICK d \in Nat : d = x * ArrivalScale
  BY ConvergenceAssumption
<1>6. PICK t : t = NextArrivalTime(e.timestamp + d)
  OBVIOUS
<1>7. /\ n.arrival = e.timestamp + d /\ n.arrival \in Nat
      /\ t = IF n.arrival <= simulation_time THEN n.arrival ELSE NoTime
      /\ n.behind = FALSE /\ n.read = m.read + 1 /\ n.packets = m.packets + 1
      /\ n.record = [timestamp |-> e.timestamp, kind |-> "ARRIVAL", packet_id |-> m.packets]
  BY <1>1, <1>3, <1>5, <1>6 DEF AfterArrival, NextArrivalTime, Timed
<1>8. HandleArrival(e, t) /\ Record(e.timestamp, "ARRIVAL", next_packet_id)
  BY <1>5, <1>6 DEF RecordArrival
<1>9. EnqueueAndWait(e, t) \/ EnqueueAndStart(e, t)
  BY <1>8, ArrivalAccepted
<1>10. raised' = raised /\ server' = server /\ next_packet_id' = next_packet_id + 1
  BY <1>9 DEF EnqueueAndWait, EnqueueAndStart, Admit, Create
<1>11. /\ n.record \in Entries /\ n.record.timestamp <= simulation_time
  BY <1>1, <1>2, <1>3, <1>7 DEF Entries, Kinds, Timed
<1>12. Recorded(n)
  BY <1>2, <1>7, <1>8, <1>10, <1>11 DEF Record, Recorded, At
<1>13. PICK r : r = Taken(e)
  OBVIOUS
<1>14. IsScheduler(r, Nat, PacketIds) /\ HoldsOwn(r, m)
  BY <1>1, <1>2, <1>13, RemoveEventProperties, HoldsTaken DEF Taken
<1>15. Enqueued(next_packet_id) = Append(m.waiting, m.packets)
  BY ConvergenceAssumption DEF Enqueued, At
<1>16. CASE m.event = "none"
  <2>1. EnqueueAndStart(e, t)
    BY <1>9, <1>16 DEF EnqueueAndWait, At
  <2>2. /\ n.event = "PACKET_SERVICE_START" /\ n.time = m.arrival
        /\ n.id = Head(Append(m.waiting, m.packets))
        /\ n.waiting = Tail(Append(m.waiting, m.packets))
    BY <1>16 DEF AfterArrival
  <2>3. buffer' = n.waiting /\ service_start_pending' = TRUE
    BY <1>15, <2>1, <2>2 DEF EnqueueAndStart
  <2>4. PICK u : u = AddEvent(r, Event(n.time, n.event, n.id))
    OBVIOUS
  <2>5. scheduler' = ThenArrival(u, t)
    BY <1>3, <1>13, <1>15, <2>1, <2>2, <2>4 DEF EnqueueAndStart
  <2>6. HoldsOwn(u, n) /\ IsScheduler(u, Nat, PacketIds \cup {n.id})
    <3>1. r.queue = {} /\ n.time \in Nat
      BY <1>1, <1>14, <1>16, <2>2 DEF HoldsOwn, Timed
    <3> QED
      BY <1>14, <2>2, <2>4, <3>1, HoldsScheduled
  <2>7. Holds(scheduler', n, simulation_time)
    BY <1>7, <2>5, <2>6, HoldsArrival
  <2>8. At(n)'
    <3>1. position' = n.read /\ next_packet_id' = n.packets /\ buffer' = n.waiting
      BY <1>7, <1>10, <2>3 DEF At
    <3>2. n.read \in Nat /\ n.packets \in Nat /\ n.time \in Nat
      BY <1>1, <1>7, <2>2 DEF Timed
    <3>3. server'.busy <=> n.event = "PACKET_DEPARTURE"
      BY <1>10, <1>16, <2>2 DEF At
    <3>4. service_start_pending' <=> n.event = "PACKET_SERVICE_START"
      BY <2>2, <2>3 DEF At
    <3>5. server'.busy => server'.current_packet = n.id
      BY <1>10, <1>16, <2>2, <3>3 DEF At
    <3>6. n.event \in {"none", "PACKET_SERVICE_START", "PACKET_DEPARTURE"}
      BY <2>2 DEF At
    <3> QED
      BY <1>1, <1>2, <1>7, <1>10, <2>7, <3>1, <3>2, <3>3, <3>4, <3>5, <3>6 DEF At
  <2> QED
    BY <1>4, <1>12, <2>8
<1>17. CASE m.event # "none"
  <2>1. EnqueueAndWait(e, t)
    BY <1>9, <1>17 DEF EnqueueAndStart, At
  <2>2. /\ n.event = m.event /\ n.time = m.time /\ n.id = m.id
        /\ n.waiting = Append(m.waiting, m.packets)
    BY <1>17 DEF AfterArrival
  <2>3. buffer' = n.waiting /\ service_start_pending' = service_start_pending
        /\ scheduler' = ThenArrival(r, t)
    BY <1>13, <1>15, <2>1, <2>2 DEF EnqueueAndWait
  <2>4. HoldsOwn(r, n)
    BY <1>14, <2>2 DEF HoldsOwn
  <2>5. Holds(scheduler', n, simulation_time)
    BY <1>7, <1>14, <2>3, <2>4, HoldsArrival
  <2>6. At(n)'
    <3>1. position' = n.read /\ next_packet_id' = n.packets /\ buffer' = n.waiting
      BY <1>7, <1>10, <2>3 DEF At
    <3>2. n.read \in Nat /\ n.packets \in Nat /\ n.time \in Nat
      BY <1>1, <1>7, <2>2 DEF Timed
    <3>3. server'.busy <=> n.event = "PACKET_DEPARTURE"
      BY <1>10, <1>17, <2>2 DEF At
    <3>4. service_start_pending' <=> n.event = "PACKET_SERVICE_START"
      BY <2>2, <2>3 DEF At
    <3>5. server'.busy => server'.current_packet = n.id
      BY <1>10, <1>17, <2>2, <3>3 DEF At
    <3>6. n.event \in {"none", "PACKET_SERVICE_START", "PACKET_DEPARTURE"}
      BY <2>2 DEF At
    <3> QED
      BY <1>1, <1>2, <1>7, <1>10, <2>5, <3>1, <3>2, <3>3, <3>4, <3>5, <3>6 DEF At
  <2> QED
    BY <1>4, <1>12, <2>6
<1> QED
  BY <1>16, <1>17

\* The start of a service.
LEMMA MomentStarts ==
  ASSUME TypeOK, simulation_time \in Nat, NEW s, NEW m, At(m), NEW e \in scheduler.queue,
         NEW x \in Nat, Reads(s, m.read, x), RecordServiceStart(e, x * ServiceScale),
         position' = position + 1, NEW n, n = AfterStart(m, x)
  PROVE  Follows(m, n, s) /\ At(n)' /\ Recorded(n)
<1>1. /\ IsScheduler(scheduler, Nat, PacketIds) /\ Timed(m) /\ m.packets \in Nat
      /\ m.behind \in BOOLEAN /\ raised = {}
      /\ Holds(scheduler, m, simulation_time)
  BY DEF TypeOK, At, Timed
<1>2. /\ IsNext(scheduler, e) /\ e.timestamp <= simulation_time
      /\ simulation_time' = simulation_time /\ e.event_type = "PACKET_SERVICE_START"
  BY DEF RecordServiceStart, Running, Take, HandleServiceStart
<1>3. /\ ~ArrivalIsNext(m) /\ m.event = "PACKET_SERVICE_START"
      /\ e.timestamp = m.time /\ e.packet_id = m.id
  BY <1>1, <1>2, HoldsNext DEF Holds
<1>4. Follows(m, n, s)
  BY <1>3 DEF Follows
<1>5. PICK d \in Nat : d = x * ServiceScale
  BY ConvergenceAssumption
<1>6. /\ n.arrival = m.arrival /\ n.time = e.timestamp + d /\ n.time \in Nat
      /\ n.behind = TRUE /\ n.read = m.read + 1 /\ n.packets = m.packets
      /\ n.event = "PACKET_DEPARTURE" /\ n.id = e.packet_id /\ n.waiting = m.waiting
      /\ n.record = [timestamp |-> e.timestamp, kind |-> "SERVICE_START", packet_id |-> e.packet_id]
  BY <1>1, <1>3, <1>5 DEF AfterStart, Timed
<1>7. HandleServiceStart(e, d) /\ Record(e.timestamp, "SERVICE_START", e.packet_id)
  BY <1>5 DEF RecordServiceStart
<1>8. ~server.busy /\ d >= 0
  BY <1>3, <1>5 DEF At
<1>9. StartService(e, d)
  BY <1>7, <1>8 DEF HandleServiceStart, StartServiceRaises
<1>10. /\ raised' = raised /\ next_packet_id' = next_packet_id /\ buffer' = buffer
       /\ service_start_pending' = FALSE /\ server' = Serving(e.packet_id, e.timestamp)
       /\ scheduler' = AddEvent(Taken(e), Event(n.time, n.event, n.id))
  BY <1>6, <1>7, <1>9 DEF StartService, HandleServiceStart, queueVars
<1>11. n.record \in Entries /\ n.record.timestamp <= simulation_time
  <2>1. e.packet_id \in Int
    BY <1>1, RouterAssumption DEF IsScheduler, Events, PacketIds, NoPacket, TypeOK
  <2> QED
    BY <1>1, <1>2, <1>3, <1>6, <2>1 DEF Entries, Kinds, Timed
<1>12. Recorded(n)
  BY <1>2, <1>6, <1>7, <1>10, <1>11 DEF Record, Recorded
<1>13. Holds(scheduler', n, simulation_time)
  BY <1>1, <1>2, <1>6, <1>10, HoldsReplaced DEF Taken
<1>14. At(n)'
  <2>1. server'.busy = TRUE /\ server'.current_packet = e.packet_id
    BY <1>10 DEF Serving
  <2> QED
    <3>1. position' = n.read /\ next_packet_id' = n.packets /\ buffer' = n.waiting
      BY <1>6, <1>10 DEF At
    <3>2. n.read \in Nat /\ n.packets \in Nat /\ n.arrival \in Nat
      BY <1>1, <1>6 DEF Timed
    <3>3. server'.busy <=> n.event = "PACKET_DEPARTURE"
      BY <1>6, <2>1
    <3>4. service_start_pending' <=> n.event = "PACKET_SERVICE_START"
      BY <1>6, <1>10
    <3> QED
      BY <1>1, <1>2, <1>6, <1>10, <1>13, <2>1, <3>1, <3>2, <3>3, <3>4 DEF At
<1> QED
  BY <1>4, <1>12, <1>14

\* A departure.
LEMMA MomentDeparts ==
  ASSUME TypeOK, simulation_time \in Nat, NEW s, NEW m, At(m), NEW e \in scheduler.queue,
         RecordDeparture(e), position' = position, NEW n, n = AfterDeparture(m)
  PROVE  Follows(m, n, s) /\ At(n)' /\ Recorded(n)
<1>1. /\ IsScheduler(scheduler, Nat, PacketIds) /\ Timed(m) /\ m.packets \in Nat
      /\ m.behind \in BOOLEAN /\ raised = {}
      /\ Holds(scheduler, m, simulation_time)
  BY DEF TypeOK, At, Timed
<1>2. /\ IsNext(scheduler, e) /\ e.timestamp <= simulation_time
      /\ simulation_time' = simulation_time /\ e.event_type = "PACKET_DEPARTURE"
  BY DEF RecordDeparture, Running, Take, HandleDeparture
<1>3. /\ ~ArrivalIsNext(m) /\ m.event = "PACKET_DEPARTURE"
      /\ e.timestamp = m.time /\ e.packet_id = m.id
  BY <1>1, <1>2, HoldsNext DEF Holds
<1>4. Follows(m, n, s)
  BY <1>3 DEF Follows
<1>5. /\ n.arrival = m.arrival /\ n.time = e.timestamp /\ n.time \in Nat
      /\ n.behind = TRUE /\ n.read = m.read /\ n.packets = m.packets
      /\ n.record = [timestamp |-> e.timestamp, kind |-> "DEPARTURE", packet_id |-> m.id]
  BY <1>1, <1>3 DEF AfterDeparture, Timed
<1>6. HandleDeparture(e) /\ Record(e.timestamp, "DEPARTURE", server.current_packet)
  BY DEF RecordDeparture
<1>7. server.busy /\ server.current_packet = m.id /\ ~service_start_pending
  BY <1>3 DEF At
<1>8. /\ FinishService(e)
      /\ next_packet_id' = next_packet_id
  BY <1>6 DEF HandleDeparture, DepartAndStartNext, DepartAndIdle
<1>9. raised' = raised /\ server' = IdleServer
  BY <1>7, <1>8 DEF FinishService
<1>10. n.record \in Entries /\ n.record.timestamp <= simulation_time
  <2>1. e.packet_id \in Int
    BY <1>1, RouterAssumption DEF IsScheduler, Events, PacketIds, NoPacket, TypeOK
  <2> QED
    BY <1>1, <1>2, <1>3, <1>5, <2>1 DEF Entries, Kinds, Timed
<1>11. Recorded(n)
  BY <1>2, <1>5, <1>6, <1>7, <1>9, <1>10 DEF Record, Recorded
<1>12. server'.busy = FALSE
  BY <1>9 DEF IdleServer
<1>13. CASE m.waiting # <<>>
  <2>1. DepartAndStartNext(e)
    BY <1>6, <1>7, <1>13 DEF HandleDeparture, DepartAndIdle, StartsNext, At
  <2>2. /\ n.event = "PACKET_SERVICE_START" /\ n.id = Head(m.waiting)
        /\ n.waiting = Tail(m.waiting)
    BY <1>13 DEF AfterDeparture
  <2>3. /\ buffer' = n.waiting /\ service_start_pending' = TRUE
        /\ scheduler' = AddEvent(Taken(e), Event(n.time, n.event, n.id))
    BY <1>5, <2>1, <2>2 DEF DepartAndStartNext, At
  <2>4. Holds(scheduler', n, simulation_time)
    BY <1>1, <1>2, <1>5, <2>2, <2>3, HoldsReplaced DEF Taken
  <2>5. At(n)'
    BY <1>1, <1>2, <1>5, <1>8, <1>9, <1>12, <2>2, <2>3, <2>4 DEF At, Timed
  <2> QED
    BY <1>4, <1>11, <2>5
<1>14. CASE m.waiting = <<>>
  <2>1. DepartAndIdle(e)
    BY <1>6, <1>14 DEF HandleDeparture, DepartAndStartNext, StartsNext, At
  <2>2. n.event = "none" /\ n.waiting = m.waiting
    BY <1>14 DEF AfterDeparture
  <2>3. /\ buffer' = n.waiting /\ service_start_pending' = FALSE
        /\ scheduler' = Taken(e)
    BY <1>7, <2>1, <2>2 DEF DepartAndIdle, At, TypeOK
  <2>4. Holds(scheduler', n, simulation_time)
    BY <1>1, <1>2, <1>5, <2>2, <2>3, HoldsNothing DEF Taken
  <2>5. At(n)'
    BY <1>1, <1>2, <1>5, <1>8, <1>9, <1>12, <2>2, <2>3, <2>4 DEF At, Timed
  <2> QED
    BY <1>4, <1>11, <2>5
<1> QED
  BY <1>13, <1>14

\* The first arrival is scheduled.
LEMMA MomentBegins ==
  ASSUME TypeOK, simulation_time \in Nat, Init, NEW x \in Nat, OnStart(x * ArrivalScale),
         position' = 1, NEW n, n = FirstMoment(x)
  PROVE  At(n)'
<1>1. PICK d \in Nat : d = x * ArrivalScale
  BY ConvergenceAssumption
<1>2. /\ now = 0 /\ scheduler = EmptyScheduler /\ buffer = <<>> /\ server = IdleServer
      /\ service_start_pending = FALSE /\ next_packet_id = FirstPacketId /\ raised = {}
      /\ IsScheduler(scheduler, Nat, PacketIds) /\ FirstPacketId \in Nat
  BY RouterAssumption DEF Init, TypeOK
<1>3. /\ n.arrival = d /\ n.time = 0 /\ n.read = 1 /\ n.packets = FirstPacketId
      /\ n.waiting = <<>> /\ n.event = "none" /\ n.behind = FALSE
  BY <1>1 DEF FirstMoment
<1>4. /\ scheduler' = ThenArrival(scheduler, IF n.arrival <= simulation_time THEN n.arrival ELSE NoTime)
      /\ buffer' = buffer /\ server' = server /\ service_start_pending' = service_start_pending
      /\ next_packet_id' = next_packet_id /\ raised' = raised
      /\ simulation_time' = simulation_time
  <2>1. now + d = n.arrival
    BY <1>1, <1>2, <1>3
  <2> QED
    BY <1>1, <2>1 DEF OnStart, NextArrivalTime, queueVars
<1>5. HoldsOwn(scheduler, n)
  BY <1>2, <1>3 DEF HoldsOwn, EmptyScheduler
<1>6. Holds(scheduler', n, simulation_time)
  BY <1>1, <1>2, <1>3, <1>4, <1>5, HoldsArrival
<1>7. server'.busy = FALSE
  BY <1>2, <1>4 DEF IdleServer
<1> QED
  <2>1. server'.busy <=> n.event = "PACKET_DEPARTURE"
    BY <1>3, <1>7
  <2>2. service_start_pending' <=> n.event = "PACKET_SERVICE_START"
    BY <1>2, <1>3, <1>4
  <2> QED
    <3>1. /\ n.arrival \in Nat /\ n.time \in Nat /\ n.read \in Nat /\ n.packets \in Nat
          /\ n.event \in {"none", "PACKET_SERVICE_START", "PACKET_DEPARTURE"}
      BY <1>1, <1>2, <1>3
    <3>4. n.behind \in BOOLEAN
      BY <1>3
    <3>2. position' = n.read /\ next_packet_id' = n.packets /\ buffer' = n.waiting
      BY <1>2, <1>3, <1>4
    <3>3. raised' = {} /\ Holds(scheduler', n, simulation_time')
      BY <1>2, <1>4, <1>6
    <3> QED
      BY <1>7, <2>1, <2>2, <3>1, <3>2, <3>3, <3>4 DEF At

\* One record more, and the run that explains the records has one moment more.
LEMMA ExplainsMore ==
  ASSUME NEW recs \in Seq(Entries), NEW s, NEW g, Explains(g, recs, s),
         NEW n, Follows(g[Len(recs)], n, s), n.record \in Entries
  PROVE  /\ Append(recs, n.record) \in Seq(Entries)
         /\ Len(Append(recs, n.record)) = Len(recs) + 1
         /\ \A k \in 1 .. Len(recs) + 1 :
              Append(recs, n.record)[k] = IF k = Len(recs) + 1 THEN n.record ELSE recs[k]
         /\ \E h : Explains(h, Append(recs, n.record), s) /\ h[Len(recs) + 1] = n
<1>1. PICK m \in Nat : m = Len(recs)
  OBVIOUS
<1>2. PICK more : more = Append(recs, n.record)
  OBVIOUS
<1>3. /\ more \in Seq(Entries) /\ Len(more) = m + 1
      /\ \A k \in 1 .. m : more[k] = recs[k]
      /\ more[m + 1] = n.record
  BY <1>1, <1>2, AppendProperties
<1>4. PICK h : h = [k \in 0 .. m + 1 |-> IF k = m + 1 THEN n ELSE g[k]]
  OBVIOUS
<1>5. (\A k \in 0 .. m : h[k] = g[k]) /\ h[m + 1] = n
  BY <1>4
<1>6. IsRun(g, s, m) /\ \A k \in 1 .. m : recs[k] = g[k].record
  BY <1>1 DEF Explains
<1>7. \A k \in 1 .. m + 1 : Follows(h[k - 1], h[k], s)
  <2>1. \A k \in 1 .. m : Follows(h[k - 1], h[k], s)
    BY <1>5, <1>6 DEF IsRun
  <2>2. Follows(h[m], h[m + 1], s)
    BY <1>1, <1>5
  <2>3. \A k \in 1 .. m + 1 : k \in 1 .. m \/ (k = m + 1 /\ k - 1 = m)
    OBVIOUS
  <2> QED
    BY <2>1, <2>2, <2>3
<1>8. IsRun(h, s, m + 1)
  BY <1>5, <1>6, <1>7 DEF IsRun
<1>9. \A k \in 1 .. m + 1 : more[k] = h[k].record
  BY <1>3, <1>5, <1>6
<1>10. Explains(h, more, s)
  BY <1>3, <1>8, <1>9 DEF Explains
<1> QED
  BY <1>1, <1>2, <1>3, <1>5, <1>10

\* What a finished simulation tells of a stream stays true when more is read.
LEMMA RecountsGrow ==
  ASSUME NEW s \in Seq(Deviates), NEW t, Grows(s, t), Len(s) <= StreamLength,
         NEW T, NEW recs, Recounts(recs, s, T)
  PROVE  Recounts(recs, t, T)
<1>1. PICK g : Explains(g, recs, s) /\ Past(g[Len(recs)], T)
  BY DEF Recounts
<1>2. Len(recs) \in Nat
  <2>1. recs \in Seq(Entries)
    BY DEF Recounts
  <2> QED
    BY <2>1
<1>3. IsRun(g, t, Len(recs))
  BY <1>1, <1>2, ExplainsGrow DEF Explains
<1> QED
  BY <1>1, <1>3 DEF Explains, Recounts

-----------------------------------------------------------------------------
\* The experiment.

Simulating == loop \in {"starting", "running", "done"}

Results ==
  [duration : SimulationTimes, replication : 1 .. Replications, records : Seq(Entries)]

DurationsInv ==
  /\ durations \in Seq(SimulationTimes) /\ durations # <<>>
  /\ \A i, j \in DOMAIN durations : i <= j => durations[i] <= durations[j]

StreamInv ==
  /\ stream \in [1 .. Replications -> Seq(Deviates)]
  /\ \A k \in 1 .. Replications : Len(stream[k]) <= StreamLength

\* The simulations come in their order, as many as there are, and each that is
\* finished tells what its stream determines.
CollectedInv ==
  /\ collected \in Seq(Results)
  /\ Len(collected) <= Total /\ (Simulating => Len(collected) < Total)
  /\ loop = "reported" => Len(collected) = Total
  /\ loop = "assessed" => collected = <<>>
  /\ \A i \in 1 .. Len(collected) :
       /\ collected[i].duration = DurationOf(i)
       /\ collected[i].replication = ReplicationOf(i)
       /\ Recounts(collected[i].records, stream[ReplicationOf(i)], DurationOf(i))

\* So does the one that is running, up to the moment that it has reached.
Explained ==
  \E g : /\ Explains(g, records, stream[Replication])
         /\ At(g[Len(records)])
         /\ loop = "done" => Past(g[Len(records)], simulation_time)

RunningInv ==
  /\ loop \in {"starting", "running", "done", "reported", "assessed"}
  /\ Simulating => simulation_time = DurationOf(Len(collected) + 1)
  /\ loop = "starting" => Init /\ records = <<>> /\ position = 0
  /\ loop \in {"running", "done"} =>
       /\ records \in Seq(Entries)
       /\ \A k \in 1 .. Len(records) : records[k].timestamp <= simulation_time
       /\ Explained

ConvergenceInv == TypeOK /\ DurationsInv /\ StreamInv /\ CollectedInv /\ RunningInv

\* The durations are those of the caller, in order.
LEMMA DurationsSorted ==
  ASSUME NEW list \in DurationLists, NEW d, d = Sorted(list)
  PROVE  /\ d \in Seq(SimulationTimes) /\ d # <<>>
         /\ \A i, j \in DOMAIN d : i <= j => d[i] <= d[j]
<1>1. list \in Seq(SimulationTimes) /\ list # <<>> /\ SimulationTimes \subseteq Int
  BY ConvergenceAssumption, SimulationAssumption
<1>2. list \in Seq(Int)
  BY <1>1, SeqOfMore
<1>3. /\ DOMAIN d = DOMAIN list
      /\ \A k \in DOMAIN list : \E i \in DOMAIN list : d[k] = list[i]
      /\ \A k, l \in DOMAIN list : k <= l => d[k] <= d[l]
  BY <1>2, SortedProperties
<1>4. PICK n \in Nat : n = Len(list) /\ DOMAIN list = 1 .. n /\ n # 0
  BY <1>1
<1>5. \A k \in 1 .. n : d[k] \in SimulationTimes
  BY <1>1, <1>3, <1>4
<1>6. d = [k \in 1 .. n |-> d[k]]
  <2>1. d = [k \in DOMAIN d |-> d[k]]
    BY DEF Sorted
  <2> QED
    BY <1>3, <1>4, <2>1
<1>7. d \in Seq(SimulationTimes)
  BY <1>5, <1>6
<1>8. d # <<>>
  BY <1>3, <1>4, <1>7
<1> QED
  BY <1>3, <1>7, <1>8

\* The n-th simulation has one of the durations, and a later one none shorter.
LEMMA DurationsAscend ==
  ASSUME DurationsInv
  PROVE  /\ Total \in Nat /\ Total > 0
         /\ \A n \in 1 .. Total : DurationOf(n) \in SimulationTimes /\ DurationOf(n) \in Nat
         /\ \A n \in Nat \ {0} : ReplicationOf(n) \in 1 .. Replications
         /\ \A i, j \in 1 .. Total : i <= j => DurationOf(i) <= DurationOf(j)
<1>1. PICK d \in Nat : d = Len(durations) /\ DOMAIN durations = 1 .. d /\ d # 0
  <2>1. durations \in Seq(SimulationTimes) /\ durations # <<>>
    BY DEF DurationsInv
  <2> QED
    BY <2>1
<1>2. PICK r \in Nat \ {0} : r = Replications
  BY ConvergenceAssumption
<1>3. /\ \A k \in 1 .. d : durations[k] \in SimulationTimes
      /\ \A i, j \in 1 .. d : i <= j => durations[i] <= durations[j]
  BY <1>1 DEF DurationsInv
<1>4. PICK t : t = d * r /\ t = Total /\ t \in Nat /\ t > 0
  <2>1. d * r \in Nat /\ d * r > 0
    BY <1>1
  <2> QED
    BY <1>1, <1>2, <2>1 DEF Total
<1>5. ASSUME NEW n \in 1 .. t
      PROVE  1 + ((n - 1) \div r) \in 1 .. d
  BY <1>4, <1>5, QuotientInRange
<1>6. ASSUME NEW i \in 1 .. t, NEW j \in 1 .. t, i <= j
      PROVE  1 + ((i - 1) \div r) <= 1 + ((j - 1) \div r)
  <2>1. (i - 1) \div r <= (j - 1) \div r
    BY <1>4, <1>6, QuotientMonotone
  <2> QED
    BY <2>1
<1>7. \A n \in Nat \ {0} : ReplicationOf(n) \in 1 .. Replications
  BY <1>2 DEF ReplicationOf
<1>8. \A n \in 1 .. t : DurationOf(n) = durations[1 + ((n - 1) \div r)]
  BY <1>2 DEF DurationOf
<1>9. \A n \in 1 .. t : DurationOf(n) \in SimulationTimes /\ DurationOf(n) \in Nat
  BY <1>3, <1>5, <1>8, SimulationAssumption
<1>10. \A i, j \in 1 .. t : i <= j => DurationOf(i) <= DurationOf(j)
  BY <1>3, <1>5, <1>6, <1>8
<1> QED
  BY <1>4, <1>7, <1>9, <1>10

\* What a simulation of an experiment does is a step of Simulation.
LEMMA StepsOfSimulation ==
  ASSUME SimulationStep
  PROVE  SimNext
<1>1. \A x \in Deviates \cup {Beyond} :
        x * ArrivalScale \in ArrivalDelays /\ x * ServiceScale \in ServiceTimes
  BY ConvergenceAssumption
<1> QED
  BY <1>1 DEF SimulationStep, SimNext

\* A reading finds what the stream holds, or adds to it.
LEMMA DrawReads ==
  ASSUME StreamInv, position \in Nat, Replication \in 1 .. Replications, NEW x, Draw(x)
  PROVE  /\ StreamInv' /\ position' = position + 1 /\ x \in Nat
         /\ \A k \in 1 .. Replications : Grows(stream[k], stream'[k])
         /\ Reads(stream'[Replication], position, x)
<1>1. PICK r \in 1 .. Replications : r = Replication
  OBVIOUS
<1>2. PICK s \in Seq(Deviates) : s = stream[r] /\ Len(s) <= StreamLength /\ Len(s) \in Nat
  <2>1. stream[r] \in Seq(Deviates) /\ Len(stream[r]) <= StreamLength
    BY DEF StreamInv
  <2>2. Len(stream[r]) \in Nat
    BY <2>1
  <2> QED
    BY <2>1, <2>2
<1>3. position' = position + 1
  BY DEF Draw
<1>4. /\ StreamInv'
      /\ \A k \in 1 .. Replications : Grows(stream[k], stream'[k])
      /\ Reads(stream'[r], position, x)
  <2>1. CASE position < Len(s) /\ x = s[position + 1] /\ UNCHANGED stream
    BY <1>2, <2>1 DEF StreamInv, Grows, Reads
  <2>2. CASE position >= StreamLength /\ x = Beyond /\ UNCHANGED stream
    BY <1>2, <2>2 DEF StreamInv, Grows, Reads
  <2>3. CASE /\ position = Len(s) /\ Len(s) < StreamLength /\ x \in Deviates
             /\ stream' = [stream EXCEPT ![r] = Append(s, x)]
    <3>1. PICK t : t = Append(s, x)
      OBVIOUS
    <3>2. t \in Seq(Deviates) /\ Len(t) = Len(s) + 1 /\ t[Len(s) + 1] = x
      BY <1>2, <2>3, <3>1, AppendProperties
    <3>3. \A k \in 1 .. Replications : stream'[k] = IF k = r THEN t ELSE stream[k]
      BY <2>3, <3>1 DEF StreamInv
    <3>4. stream' \in [1 .. Replications -> Seq(Deviates)]
      BY <2>3, <3>1, <3>2 DEF StreamInv
    <3>5. Len(t) <= StreamLength /\ StreamLength \in Nat
      BY <1>2, <2>3, <3>2, ConvergenceAssumption
    <3>6. StreamInv'
      BY <3>3, <3>4, <3>5 DEF StreamInv
    <3>7. \A k \in 1 .. Replications : Grows(stream[k], stream'[k])
      BY <1>2, <2>3, <3>1, <3>3 DEF Grows
    <3>8. Reads(stream'[r], position, x)
      BY <1>2, <2>3, <3>2, <3>3 DEF Reads
    <3> QED
      BY <3>6, <3>7, <3>8
  <2> QED
    BY <1>1, <1>2, <2>1, <2>2, <2>3 DEF Draw
<1>5. x \in Nat
  <2>1. stream'[r] \in Seq(Deviates) /\ Len(stream'[r]) <= StreamLength
    BY <1>4 DEF StreamInv
  <2> QED
    BY <1>4, <2>1, ReadsOne
<1> QED
  BY <1>1, <1>3, <1>4, <1>5

\* While a simulation goes on, what the others have told stays true.
LEMMA CollectedKept ==
  ASSUME ConvergenceInv, Simulating, Simulating',
         durations' = durations, collected' = collected, StreamInv',
         \A k \in 1 .. Replications : Grows(stream[k], stream'[k])
  PROVE  DurationsInv' /\ CollectedInv' /\ Replication' = Replication
         /\ Replication \in 1 .. Replications
<1>1. /\ Total' = Total /\ Replication' = Replication
      /\ \A i : DurationOf(i)' = DurationOf(i)
  BY DEF Total, Replication, DurationOf, ReplicationOf
<1>2. DurationsInv'
  BY DEF ConvergenceInv, DurationsInv
<1>3. collected \in Seq(Results) /\ Len(collected) \in Nat
  <2>1. collected \in Seq(Results)
    BY DEF ConvergenceInv, CollectedInv
  <2> QED
    BY <2>1
<1>4. Replication \in 1 .. Replications
  BY <1>3, DurationsAscend DEF ConvergenceInv, Replication
<1>5. ASSUME NEW i \in 1 .. Len(collected)
      PROVE  Recounts(collected[i].records, stream'[ReplicationOf(i)], DurationOf(i))
  <2>1. PICK k \in 1 .. Replications : k = ReplicationOf(i)
    BY DurationsAscend DEF ConvergenceInv
  <2>2. /\ stream[k] \in Seq(Deviates) /\ Len(stream[k]) <= StreamLength
        /\ Grows(stream[k], stream'[k])
        /\ Recounts(collected[i].records, stream[k], DurationOf(i))
    BY <2>1 DEF ConvergenceInv, StreamInv, CollectedInv
  <2>3. Recounts(collected[i].records, stream'[k], DurationOf(i))
    BY <2>2, RecountsGrow
  <2> QED
    BY <2>1, <2>3
<1>6. CollectedInv'
  BY <1>1, <1>5 DEF CollectedInv, ConvergenceInv, Simulating
<1> QED
  BY <1>1, <1>2, <1>4, <1>6

\* The running simulation goes on to the moment that follows.
LEMMA GoesOn ==
  ASSUME ConvergenceInv, loop = "running", collected' = collected, durations' = durations,
         Replication' = Replication, Replication \in 1 .. Replications, StreamInv,
         NEW g, Explains(g, records, stream'[Replication]),
         NEW n, Follows(g[Len(records)], n, stream'[Replication]), At(n)', Recorded(n)
  PROVE  RunningInv' /\ Simulating'
<1>1. /\ records \in Seq(Entries) /\ simulation_time = DurationOf(Len(collected) + 1)
      /\ \A k \in 1 .. Len(records) : records[k].timestamp <= simulation_time
  BY DEF ConvergenceInv, RunningInv, Simulating
<1>2. /\ records' = Append(records, n.record) /\ loop' = "running"
      /\ simulation_time' = simulation_time
      /\ n.record \in Entries /\ n.record.timestamp <= simulation_time
  BY DEF Recorded
<1>3. PICK s : s = stream'[Replication]
  OBVIOUS
<1>4. PICK h : /\ Explains(h, records', s) /\ h[Len(records')] = n
               /\ records' \in Seq(Entries)
               /\ \A k \in 1 .. Len(records') : records'[k].timestamp <= simulation_time
  <2>1. PICK l : l = Len(records)
    OBVIOUS
  <2>2. PICK more : more = records'
    OBVIOUS
  <2>3. /\ more \in Seq(Entries) /\ Len(more) = l + 1
        /\ \A k \in 1 .. l + 1 : more[k] = IF k = l + 1 THEN n.record ELSE records[k]
        /\ \E h : Explains(h, more, s) /\ h[l + 1] = n
    BY <1>1, <1>2, <1>3, <2>1, <2>2, ExplainsMore
  <2>4. l \in Nat
    BY <1>1, <2>1
  <2>5. \A k \in 1 .. l + 1 : k # l + 1 => k \in 1 .. l
    BY <2>4
  <2>6. \A k \in 1 .. l + 1 : more[k].timestamp <= simulation_time
    BY <1>1, <1>2, <2>1, <2>3, <2>5
  <2> QED
    BY <2>2, <2>3, <2>6
<1>5. DurationOf(Len(collected) + 1)' = DurationOf(Len(collected) + 1)
  BY DEF DurationOf
<1>6. Explained'
  BY <1>2, <1>3, <1>4 DEF Explained
<1> QED
  BY <1>1, <1>2, <1>4, <1>5, <1>6 DEF RunningInv, Simulating

\* The steps of a simulation.
LEMMA SimulationStepKeeps ==
  ASSUME ConvergenceInv, SimulationStep
  PROVE  ConvergenceInv'
<1>1. SimNext
  BY StepsOfSimulation
<1>2. TypeOK'
  BY <1>1, StepsOfRouter, TypeNext DEF ConvergenceInv
<1>3. /\ TypeOK /\ DurationsInv /\ StreamInv /\ RunningInv
      /\ collected' = collected /\ durations' = durations
  BY DEF ConvergenceInv, SimulationStep
<1>4. Replication \in 1 .. Replications
  <2>1. collected \in Seq(Results)
    BY DEF ConvergenceInv, CollectedInv
  <2>2. Len(collected) + 1 \in Nat \ {0}
    BY <2>1
  <2> QED
    BY <1>3, <2>2, DurationsAscend DEF Replication
<1>5. PICK r : r = Replication /\ Replication' = r
  BY <1>3 DEF Replication, ReplicationOf
<1>6. /\ stream[r] \in Seq(Deviates) /\ Len(stream[r]) <= StreamLength
  BY <1>3, <1>4, <1>5 DEF StreamInv
<1>7. Simulating => simulation_time \in Nat
  <2>1. ASSUME Simulating
        PROVE  simulation_time = DurationOf(Len(collected) + 1)
               /\ Len(collected) + 1 \in 1 .. Total
    <3>1. collected \in Seq(Results) /\ Len(collected) < Total
      BY <2>1 DEF ConvergenceInv, CollectedInv
    <3>2. Total \in Nat
      BY <1>3, DurationsAscend
    <3> QED
      BY <1>3, <2>1, <3>1, <3>2 DEF RunningInv
  <2> QED
    BY <1>3, <2>1, DurationsAscend
<1>8. ASSUME NEW x \in Deviates \cup {Beyond}, Draw(x), OnStart(x * ArrivalScale)
      PROVE  ConvergenceInv'
  <2>1. Simulating /\ Init /\ records = <<>> /\ position = 0 /\ loop' = "running"
        /\ records' = records /\ simulation_time' = simulation_time
    BY <1>3, <1>8 DEF OnStart, RunningInv, Simulating
  <2>2. /\ StreamInv' /\ position' = 1 /\ x \in Nat
        /\ \A k \in 1 .. Replications : Grows(stream[k], stream'[k])
        /\ Reads(stream'[r], 0, x)
    BY <1>3, <1>4, <1>5, <1>8, <2>1, DrawReads
  <2>3. Simulating'
    BY <2>1 DEF Simulating
  <2>4. DurationsInv' /\ CollectedInv'
    BY <1>3, <2>1, <2>2, <2>3, CollectedKept
  <2>5. PICK n : n = FirstMoment(x)
    OBVIOUS
  <2>6. At(n)'
    BY <1>3, <1>7, <1>8, <2>1, <2>2, <2>5, MomentBegins
  <2>7. PICK g : g = [k \in {0} |-> n]
    OBVIOUS
  <2>8. Explains(g, <<>>, stream'[r]) /\ g[0] = n
    <3>1. IsRun(g, stream'[r], 0)
      BY <2>2, <2>5, <2>7 DEF IsRun
    <3> QED
      BY <2>7, <3>1 DEF Explains
  <2>9. records' = <<>> /\ Len(records') = 0 /\ records' \in Seq(Entries)
    BY <2>1
  <2>10. DurationOf(Len(collected) + 1)' = DurationOf(Len(collected) + 1)
    BY <1>3 DEF DurationOf
  <2>11. Explained'
    BY <1>5, <2>1, <2>6, <2>8, <2>9 DEF Explained
  <2>12. RunningInv'
    BY <1>3, <2>1, <2>9, <2>10, <2>11 DEF RunningInv, Simulating
  <2> QED
    BY <1>2, <2>2, <2>4, <2>12 DEF ConvergenceInv
<1>9. ASSUME loop = "running"
      PROVE  \E g, l : /\ l = Len(records) /\ l \in Nat /\ Explains(g, records, stream[r])
                       /\ At(g[l])
  <2>1. records \in Seq(Entries)
    BY <1>3, <1>9 DEF RunningInv
  <2>2. Len(records) \in Nat
    BY <2>1
  <2> QED
    BY <1>3, <1>5, <1>9, <2>2 DEF RunningInv, Explained
<1>10. ASSUME NEW x \in Deviates \cup {Beyond}, Draw(x), NEW e \in scheduler.queue,
              RecordArrival(e, x * ArrivalScale) \/ RecordServiceStart(e, x * ServiceScale)
       PROVE  ConvergenceInv'
  <2>1. loop = "running" /\ Simulating
    BY <1>10 DEF RecordArrival, RecordServiceStart, Running, Simulating
  <2>2. PICK g, l : /\ l = Len(records) /\ l \in Nat /\ Explains(g, records, stream[r])
                    /\ At(g[l])
    BY <1>9, <2>1
  <2>3. PICK m : m = g[l] /\ At(m) /\ position = m.read /\ m.read \in Nat
    BY <2>2 DEF At
  <2>4. /\ StreamInv' /\ position' = position + 1 /\ x \in Nat
        /\ \A k \in 1 .. Replications : Grows(stream[k], stream'[k])
        /\ Reads(stream'[r], m.read, x)
    BY <1>3, <1>4, <1>5, <1>10, <2>3, DrawReads
  <2>5. Explains(g, records, stream'[r])
    <3>1. Grows(stream[r], stream'[r]) /\ IsRun(g, stream[r], l)
      BY <1>4, <1>5, <2>2, <2>4 DEF Explains
    <3>2. IsRun(g, stream'[r], l)
      BY <1>6, <2>2, <3>1, ExplainsGrow
    <3> QED
      BY <2>2, <3>2 DEF Explains
  <2>6. PICK n : Follows(m, n, stream'[r]) /\ At(n)' /\ Recorded(n)
    <3>1. CASE RecordArrival(e, x * ArrivalScale)
      <4>1. PICK o : o = AfterArrival(m, x)
        OBVIOUS
      <4> QED
        BY <1>3, <1>7, <2>1, <2>3, <2>4, <3>1, <4>1, MomentArrives
    <3>2. CASE RecordServiceStart(e, x * ServiceScale)
      <4>1. PICK o : o = AfterStart(m, x)
        OBVIOUS
      <4> QED
        BY <1>3, <1>7, <2>1, <2>3, <2>4, <3>2, <4>1, MomentStarts
    <3> QED
      BY <1>10, <3>1, <3>2
  <2>7. RunningInv' /\ Simulating'
    BY <1>3, <1>4, <1>5, <2>1, <2>2, <2>3, <2>5, <2>6, GoesOn
  <2>8. DurationsInv' /\ CollectedInv'
    BY <1>3, <2>1, <2>4, <2>7, CollectedKept
  <2> QED
    BY <1>2, <2>4, <2>7, <2>8 DEF ConvergenceInv
<1>11. ASSUME DrawsNothing
       PROVE  StreamInv' /\ \A k \in 1 .. Replications : Grows(stream[k], stream'[k])
  BY <1>3, <1>11 DEF DrawsNothing, StreamInv, Grows
<1>12. ASSUME DrawsNothing, NEW e \in scheduler.queue, RecordDeparture(e)
       PROVE  ConvergenceInv'
  <2>1. loop = "running" /\ Simulating
    BY <1>12 DEF RecordDeparture, Running, Simulating
  <2>2. PICK g, l : /\ l = Len(records) /\ l \in Nat /\ Explains(g, records, stream[r])
                    /\ At(g[l])
    BY <1>9, <2>1
  <2>3. PICK n : n = AfterDeparture(g[l])
    OBVIOUS
  <2>4. Follows(g[l], n, stream[r]) /\ At(n)' /\ Recorded(n)
    BY <1>3, <1>7, <1>12, <2>1, <2>2, <2>3, MomentDeparts DEF DrawsNothing
  <2>5. stream' = stream
    BY <1>12 DEF DrawsNothing
  <2>6. RunningInv' /\ Simulating'
    BY <1>3, <1>4, <1>5, <2>1, <2>2, <2>4, <2>5, GoesOn
  <2>7. DurationsInv' /\ CollectedInv'
    BY <1>3, <1>11, <1>12, <2>1, <2>6, CollectedKept
  <2> QED
    BY <1>2, <1>11, <1>12, <2>6, <2>7 DEF ConvergenceInv
<1>13. ASSUME DrawsNothing, LeaveLoop
       PROVE  ConvergenceInv'
  <2>1. /\ loop = "running" /\ Simulating /\ loop' = "done" /\ Simulating'
        /\ simulation_time' = simulation_time /\ records' = records /\ stream' = stream
    BY <1>13 DEF LeaveLoop, Simulating, DrawsNothing
  <2>2. PICK g, l : /\ l = Len(records) /\ l \in Nat /\ Explains(g, records, stream[r])
                    /\ At(g[l])
    BY <1>9, <2>1
  <2>3. PICK m : m = g[l] /\ At(m) /\ Timed(m)
    BY <2>2 DEF At, Timed
  <2>4. Past(m, simulation_time)
    <3>1. /\ IsScheduler(scheduler, Nat, PacketIds) /\ Holds(scheduler, m, simulation_time)
          /\ ~\E e \in scheduler.queue : IsNext(scheduler, e) /\ e.timestamp <= simulation_time
      BY <1>3, <1>13, <2>3 DEF TypeOK, At, LeaveLoop
    <3> QED
      BY <1>7, <2>1, <2>3, <3>1, HoldsPast
  <2>5. At(m)'
    BY <1>13, <2>3 DEF LeaveLoop, DrawsNothing, At, vars, queueVars
  <2>6. DurationsInv' /\ CollectedInv'
    BY <1>3, <1>11, <1>13, <2>1, CollectedKept
  <2>7. DurationOf(Len(collected) + 1)' = DurationOf(Len(collected) + 1)
    BY <1>3 DEF DurationOf
  <2>8. Explained'
    BY <1>5, <2>1, <2>2, <2>3, <2>4, <2>5 DEF Explained
  <2>9. RunningInv'
    BY <1>3, <2>1, <2>7, <2>8 DEF RunningInv, Simulating
  <2> QED
    BY <1>2, <1>11, <1>13, <2>6, <2>9 DEF ConvergenceInv
<1> QED
  BY <1>8, <1>10, <1>12, <1>13 DEF SimulationStep

\* A simulation that is done tells what its stream determines.
LEMMA FinishedRecounts ==
  ASSUME ConvergenceInv, loop = "done"
  PROVE  LET n == Len(collected) + 1
         IN  /\ Finished \in Results
             /\ Finished.duration = DurationOf(n) /\ Finished.replication = ReplicationOf(n)
             /\ Recounts(Finished.records, stream[ReplicationOf(n)], DurationOf(n))
<1>1. /\ DurationsInv /\ CollectedInv /\ RunningInv /\ Simulating
  BY DEF ConvergenceInv, Simulating
<1>2. PICK n : n = Len(collected) + 1
  OBVIOUS
<1>3. n \in 1 .. Total
  <2>1. collected \in Seq(Results) /\ Len(collected) < Total
    BY <1>1 DEF CollectedInv
  <2>2. Total \in Nat
    BY <1>1, DurationsAscend
  <2> QED
    BY <1>2, <2>1, <2>2
<1>4. /\ simulation_time = DurationOf(n) /\ Replication = ReplicationOf(n)
      /\ DurationOf(n) \in SimulationTimes /\ ReplicationOf(n) \in 1 .. Replications
  <2>1. n \in Nat \ {0}
    BY <1>3
  <2> QED
    BY <1>1, <1>2, <1>3, <2>1, DurationsAscend DEF RunningInv, Replication
<1>5. /\ records \in Seq(Entries)
      /\ \A k \in 1 .. Len(records) : records[k].timestamp <= simulation_time
      /\ \E g : Explains(g, records, stream[Replication]) /\ Past(g[Len(records)], simulation_time)
  BY <1>1 DEF RunningInv, Explained
<1>6. Recounts(records, stream[ReplicationOf(n)], DurationOf(n))
  BY <1>4, <1>5 DEF Recounts
<1>7. PICK f : f = Finished
  OBVIOUS
<1>8. /\ f.duration = simulation_time /\ f.replication = Replication /\ f.records = records
      /\ f \in Results
  BY <1>4, <1>5, <1>7 DEF Finished, Results
<1> QED
  BY <1>2, <1>4, <1>6, <1>7, <1>8

\* It is put to the others.
LEMMA CollectedMore ==
  ASSUME ConvergenceInv, loop = "done", collected' = Append(collected, Finished),
         durations' = durations, stream' = stream,
         \/ loop' = "starting" /\ Len(collected) + 1 < Total
         \/ loop' = "reported" /\ Len(collected) + 1 = Total
  PROVE  DurationsInv' /\ StreamInv' /\ CollectedInv' /\ Len(collected') = Len(collected) + 1
<1>1. DurationsInv' /\ StreamInv'
  BY DEF ConvergenceInv, DurationsInv, StreamInv
<1>2. PICK f : f = Finished
  OBVIOUS
<1>3. PICK n \in Nat : n = Len(collected) /\ collected \in Seq(Results)
  <2>1. collected \in Seq(Results)
    BY DEF ConvergenceInv, CollectedInv
  <2> QED
    BY <2>1
<1>4. PICK c : c = collected'
  OBVIOUS
<1>5. /\ f \in Results /\ f.duration = DurationOf(n + 1) /\ f.replication = ReplicationOf(n + 1)
      /\ Recounts(f.records, stream[ReplicationOf(n + 1)], DurationOf(n + 1))
  BY <1>2, <1>3, FinishedRecounts
<1>6. /\ c \in Seq(Results) /\ Len(c) = n + 1
      /\ \A i \in 1 .. n : c[i] = collected[i]
      /\ c[n + 1] = f
  BY <1>2, <1>3, <1>4, <1>5, AppendProperties
<1>7. Total' = Total /\ \A i : DurationOf(i)' = DurationOf(i)
  BY DEF Total, DurationOf
<1>8. ASSUME NEW i \in 1 .. n + 1
      PROVE  /\ c[i].duration = DurationOf(i)
             /\ c[i].replication = ReplicationOf(i)
             /\ Recounts(c[i].records, stream[ReplicationOf(i)], DurationOf(i))
  <2>1. CASE i \in 1 .. n
    BY <1>3, <1>6, <2>1 DEF ConvergenceInv, CollectedInv
  <2>2. CASE i = n + 1
    BY <1>5, <1>6, <2>2
  <2> QED
    BY <2>1, <2>2
<1>9. /\ n + 1 <= Total /\ (Simulating' => n + 1 < Total)
      /\ loop' = "reported" => n + 1 = Total
  BY <1>1, <1>3, <1>7, DurationsAscend DEF Simulating, ConvergenceInv
<1>10. loop' # "assessed"
  OBVIOUS
<1>11. CollectedInv'
  BY <1>4, <1>6, <1>7, <1>8, <1>9, <1>10 DEF CollectedInv
<1> QED
  BY <1>1, <1>3, <1>4, <1>6, <1>11

\* The steps between the simulations, after which the parts are new.
LEMMA OtherStepsKeep ==
  ASSUME ConvergenceInv, NextSimulation \/ FinishExperiment \/ Assess \/ UNCHANGED convergenceVars
  PROVE  /\ Init' \/ TypeOK'
         /\ DurationsInv' /\ StreamInv' /\ CollectedInv' /\ RunningInv'
<1>1. ASSUME NewSystem
      PROVE  Init' /\ records' = <<>>
  BY <1>1 DEF NewSystem, Init
<1>2. CASE NextSimulation
  <2>1. /\ Init' /\ records' = <<>> /\ position' = 0 /\ loop' = "starting"
        /\ simulation_time' = DurationOf(Len(collected) + 2) /\ durations' = durations
    BY <1>1, <1>2 DEF NextSimulation
  <2>2. /\ DurationsInv' /\ StreamInv' /\ CollectedInv'
        /\ Len(collected') = Len(collected) + 1
    BY <1>2, CollectedMore DEF NextSimulation
  <2>3. Len(collected') + 1 = Len(collected) + 2
    <3>1. collected \in Seq(Results)
      BY DEF ConvergenceInv, CollectedInv
    <3> QED
      BY <2>2, <3>1
  <2>4. simulation_time' = DurationOf(Len(collected) + 1)'
    BY <2>1, <2>3 DEF DurationOf
  <2>5. RunningInv'
    BY <2>1, <2>4 DEF RunningInv
  <2> QED
    BY <2>1, <2>2, <2>5
<1>3. CASE FinishExperiment
  <2>1. Init' /\ loop' = "reported"
    BY <1>1, <1>3 DEF FinishExperiment
  <2>2. /\ DurationsInv' /\ StreamInv' /\ CollectedInv'
    BY <1>3, CollectedMore DEF FinishExperiment
  <2>3. RunningInv'
    BY <2>1 DEF RunningInv, Simulating
  <2> QED
    BY <2>1, <2>2, <2>3
<1>4. CASE Assess
  <2>1. /\ UNCHANGED vars /\ durations' = durations /\ loop' = "assessed" /\ collected' = <<>>
        /\ stream' = [k \in 1 .. Replications |-> <<>>]
    BY <1>4 DEF Assess
  <2>2. TypeOK'
    BY <2>1, TypeNext DEF ConvergenceInv
  <2>3. DurationsInv'
    BY <2>1 DEF ConvergenceInv, DurationsInv
  <2>4. StreamInv'
    BY <2>1, ConvergenceAssumption DEF StreamInv
  <2>5. Total' \in Nat
    BY <2>1, DurationsAscend DEF ConvergenceInv, Total
  <2>6. CollectedInv'
    BY <2>1, <2>5 DEF CollectedInv, Simulating
  <2>7. RunningInv'
    BY <2>1 DEF RunningInv, Simulating
  <2> QED
    BY <2>2, <2>3, <2>4, <2>6, <2>7
<1>5. CASE UNCHANGED convergenceVars
  <2>1. /\ UNCHANGED vars /\ simulation_time' = simulation_time /\ records' = records
        /\ loop' = loop /\ durations' = durations /\ stream' = stream
        /\ position' = position /\ collected' = collected
    BY <1>5 DEF convergenceVars, simVars
  <2>2. TypeOK'
    BY <2>1, TypeNext DEF ConvergenceInv
  <2>3. DurationsInv' /\ StreamInv'
    BY <2>1 DEF ConvergenceInv, DurationsInv, StreamInv
  <2>4. Total' = Total /\ \A i : DurationOf(i)' = DurationOf(i)
    BY <2>1 DEF Total, DurationOf
  <2>5. CollectedInv'
    BY <2>1, <2>4 DEF ConvergenceInv, CollectedInv, Simulating
  <2>6. \A m : At(m) => At(m)'
    BY <2>1 DEF At, vars, queueVars
  <2>7. Replication' = Replication
    BY <2>1 DEF Replication, ReplicationOf
  <2>8. Explained => Explained'
    BY <2>1, <2>6, <2>7 DEF Explained
  <2>9. Init => Init'
    BY <2>1 DEF Init, vars, queueVars
  <2>10. RunningInv'
    BY <2>1, <2>4, <2>8, <2>9 DEF ConvergenceInv, RunningInv, Simulating
  <2> QED
    BY <2>2, <2>3, <2>5, <2>10
<1> QED
  BY <1>2, <1>3, <1>4, <1>5

\* The invariant of an experiment.
LEMMA ConvergenceInvariant == ConvergenceSpec => []ConvergenceInv
<1>1. ConvergenceInit => /\ Init
                         /\ DurationsInv /\ StreamInv /\ CollectedInv /\ RunningInv
  <2> SUFFICES ASSUME ConvergenceInit
               PROVE  /\ Init
                      /\ DurationsInv /\ StreamInv /\ CollectedInv /\ RunningInv
    OBVIOUS
  <2>1. /\ Init /\ records = <<>> /\ loop = "starting" /\ position = 0 /\ collected = <<>>
        /\ stream = [k \in 1 .. Replications |-> <<>>] /\ simulation_time = durations[1]
    BY DEF ConvergenceInit, SimInit
  <2>2. DurationsInv
    BY DurationsSorted DEF ConvergenceInit, DurationsInv
  <2>3. StreamInv
    BY <2>1, ConvergenceAssumption DEF StreamInv
  <2>4. CollectedInv
    BY <2>1, <2>2, DurationsAscend DEF CollectedInv, Simulating
  <2>5. DurationOf(Len(collected) + 1) = durations[1]
    <3>1. PICK r \in Nat \ {0} : r = Replications
      BY ConvergenceAssumption
    <3>2. (Len(collected) + 1) - 1 = 0 /\ 0 \div r = 0
      BY <2>1
    <3>3. 1 + (((Len(collected) + 1) - 1) \div Replications) = 1
      BY <3>1, <3>2
    <3> QED
      BY <3>3 DEF DurationOf
  <2>6. RunningInv
    BY <2>1, <2>5 DEF RunningInv, Simulating
  <2> QED
    BY <2>1, <2>2, <2>3, <2>4, <2>6
<1>2. ConvergenceInv /\ [ConvergenceNext]_convergenceVars =>
        /\ Init' \/ TypeOK'
        /\ DurationsInv' /\ StreamInv' /\ CollectedInv' /\ RunningInv'
  <2>1. ASSUME ConvergenceInv, SimulationStep
        PROVE  /\ TypeOK'
               /\ DurationsInv' /\ StreamInv' /\ CollectedInv' /\ RunningInv'
    BY <2>1, SimulationStepKeeps DEF ConvergenceInv
  <2> QED
    BY <2>1, OtherStepsKeep DEF ConvergenceNext
<1> QED
  BY <1>1, <1>2, TypeInit, PTL DEF ConvergenceSpec, ConvergenceInv

\* A shorter simulation of a replication is the beginning of its longer ones
\* (convergence_experiment.py:165, mm1_validation.py:223-225).
THEOREM LongerExtendShorter == ConvergenceSpec => []LongerRunsExtendShorter
<1>1. ConvergenceInv => LongerRunsExtendShorter
  <2> SUFFICES ASSUME ConvergenceInv, NEW i \in DOMAIN collected, NEW j \in DOMAIN collected,
                      i <= j, ReplicationOf(i) = ReplicationOf(j)
               PROVE  LET short == collected[i].records
                          long == collected[j].records
                      IN  /\ Len(short) <= Len(long)
                          /\ short = SubSeq(long, 1, Len(short))
                          /\ \A k \in DOMAIN long :
                               long[k].timestamp <= collected[i].duration <=> k <= Len(short)
    BY DEF LongerRunsExtendShorter
  <2>1. /\ collected \in Seq(Results) /\ Len(collected) <= Total
        /\ \A k \in 1 .. Len(collected) :
             /\ collected[k].duration = DurationOf(k)
             /\ Recounts(collected[k].records, stream[ReplicationOf(k)], DurationOf(k))
    BY DEF ConvergenceInv, CollectedInv
  <2>2. Total \in Nat /\ i \in 1 .. Len(collected) /\ j \in 1 .. Len(collected)
    BY <2>1, DurationsAscend DEF ConvergenceInv
  <2>3. i \in 1 .. Total /\ j \in 1 .. Total /\ i \in Nat \ {0}
    BY <2>1, <2>2
  <2>4. PICK s : s = stream[ReplicationOf(i)]
    OBVIOUS
  <2>5. s \in Seq(Deviates) /\ Len(s) <= StreamLength
    BY <2>3, <2>4, DurationsAscend DEF ConvergenceInv, StreamInv
  <2>6. PICK T \in Nat, U \in Nat : T = DurationOf(i) /\ U = DurationOf(j) /\ T <= U
    BY <2>3, DurationsAscend DEF ConvergenceInv
  <2>7. PICK short : short = collected[i].records
    OBVIOUS
  <2>8. PICK long : long = collected[j].records
    OBVIOUS
  <2>9. Recounts(short, s, T) /\ Recounts(long, s, U) /\ collected[i].duration = T
    BY <2>1, <2>2, <2>4, <2>6, <2>7, <2>8
  <2> QED
    BY <2>5, <2>6, <2>7, <2>8, <2>9, ShorterIsPrefix
<1> QED
  BY <1>1, ConvergenceInvariant, PTL
-----------------------------------------------------------------------------
\* The verdict.

\* s[k] is the sum of the first k of some numbers.
IsSums(s, numbers, n) ==
  /\ s \in [0 .. n -> Int] /\ s[0] = 0
  /\ \A k \in 1 .. n : s[k] = s[k - 1] + numbers[k]

\* The sums of any numbers exist.
LEMMA SumsExist ==
  ASSUME NEW n \in Nat, NEW f \in [1 .. n -> Int]
  PROVE  \E s : IsSums(s, f, n)
<1> DEFINE T == {k \in Nat : \E s : IsSums(s, f, k)}
<1>1. 0 \in T
  <2>1. IsSums([k \in 0 .. 0 |-> 0], f, 0)
    BY DEF IsSums
  <2> QED
    BY <2>1
<1>2. ASSUME NEW m \in 1 .. n, m - 1 \in T
      PROVE  m \in T
  <2>1. PICK s : IsSums(s, f, m - 1)
    BY <1>2
  <2>2. PICK l \in Int : l = s[m - 1] + f[m]
    BY <2>1 DEF IsSums
  <2>3. PICK t : t = [k \in 0 .. m |-> IF k = m THEN l ELSE s[k]]
    OBVIOUS
  <2>4. t \in [0 .. m -> Int] /\ t[0] = 0
    BY <2>1, <2>2, <2>3 DEF IsSums
  <2>5. ASSUME NEW k \in 1 .. m
        PROVE  t[k] = t[k - 1] + f[k]
    <3>1. k - 1 \in 0 .. m - 1 /\ t[k - 1] = s[k - 1]
      BY <2>3
    <3>2. CASE k = m
      BY <2>2, <2>3, <3>1, <3>2
    <3>3. CASE k # m
      <4>1. k \in 1 .. m - 1 /\ t[k] = s[k]
        BY <2>3, <3>3
      <4> QED
        BY <2>1, <3>1, <4>1 DEF IsSums
    <3> QED
      BY <3>2, <3>3
  <2>6. IsSums(t, f, m)
    BY <2>4, <2>5 DEF IsSums
  <2> QED
    BY <2>6
<1>3. \A k \in 0 .. n : k \in T
  <2> HIDE DEF T
  <2> QED
    BY <1>1, <1>2, UpTo
<1> QED
  BY <1>3

\* SumOf is the last of the sums.
LEMMA SumOfSums ==
  ASSUME NEW n \in Nat, NEW f \in [1 .. n -> Int]
  PROVE  \E s : IsSums(s, f, n) /\ SumOf(f) = s[n]
<1>1. PICK g : IsSums(g, f, n)
  BY SumsExist
<1>2. f \in Seq(Int) /\ Len(f) = n
  OBVIOUS
<1> DEFINE Is(s) == s = [k \in 0 .. Len(f) |-> IF k = 0 THEN 0 ELSE s[k - 1] + f[k]]
<1>3. Is(g)
  <2>1. g = [k \in 0 .. n |-> g[k]]
    BY <1>1 DEF IsSums
  <2>2. ASSUME NEW k \in 0 .. n
        PROVE  g[k] = IF k = 0 THEN 0 ELSE g[k - 1] + f[k]
    BY <1>1 DEF IsSums
  <2>3. g = [k \in 0 .. n |-> IF k = 0 THEN 0 ELSE g[k - 1] + f[k]]
    BY <2>1, <2>2
  <2> QED
    BY <1>2, <2>3
<1>4. PICK s : s = CHOOSE h : Is(h)
  OBVIOUS
<1>5. Is(s)
  <2> HIDE DEF Is
  <2> QED
    BY <1>3, <1>4
<1>6. SumOf(f) = s[n]
  BY <1>2, <1>4 DEF SumOf
<1>7. s[0] = 0 /\ \A k \in 1 .. n : s[k] = s[k - 1] + f[k]
  BY <1>2, <1>5
<1>8. \A k \in 0 .. n : s[k] \in Int
  <2> DEFINE T == {k \in 0 .. n : s[k] \in Int}
  <2>1. 0 \in T
    BY <1>7
  <2>2. \A k \in 1 .. n : k - 1 \in T => k \in T
    BY <1>7
  <2>3. \A k \in 0 .. n : k \in T
    <3> HIDE DEF T
    <3> QED
      BY <2>1, <2>2, UpTo
  <2> QED
    BY <2>3
<1>9. s \in [0 .. n -> Int]
  BY <1>2, <1>5, <1>8
<1> QED
  BY <1>6, <1>7, <1>9 DEF IsSums

\* Numbers that are zero after the m-th have the sum of the first m.
LEMMA SumOfMasked ==
  ASSUME NEW n \in Nat, NEW f \in [1 .. n -> Int], NEW m \in 0 .. n,
         \A k \in m + 1 .. n : f[k] = 0
  PROVE  \E s : IsSums(s, f, m) /\ SumOf(f) = s[m]
<1>1. PICK s : IsSums(s, f, n) /\ SumOf(f) = s[n]
  BY SumOfSums
<1> DEFINE T == {k \in 0 .. n : k <= m \/ s[k] = s[m]}
<1>2. 0 \in T
  OBVIOUS
<1>3. ASSUME NEW k \in 1 .. n, k - 1 \in T
      PROVE  k \in T
  <2>1. CASE k <= m
    BY <2>1
  <2>2. CASE k > m
    <3>1. s[k] = s[k - 1] + f[k] /\ f[k] = 0 /\ s[k - 1] = s[m]
      BY <1>1, <1>3, <2>2 DEF IsSums
    <3>2. s[m] \in Int
      BY <1>1 DEF IsSums
    <3> QED
      BY <3>1, <3>2
  <2> QED
    BY <2>1, <2>2
<1>4. \A k \in 0 .. n : k \in T
  <2> HIDE DEF T
  <2> QED
    BY <1>2, <1>3, UpTo
<1>5. s[n] = s[m]
  BY <1>4
<1>6. PICK t : t = [k \in 0 .. m |-> s[k]]
  OBVIOUS
<1>7. IsSums(t, f, m)
  BY <1>1, <1>6 DEF IsSums
<1> QED
  BY <1>1, <1>5, <1>6, <1>7

\* What the next of the points adds to n sum x y - sum x sum y, and what each of
\* the points before it adds to that.
LEMMA CovarianceGrows ==
  ASSUME NEW k \in Int, NEW p \in Int, NEW u \in Int, NEW v \in Int, NEW a \in Int, NEW b \in Int
  PROVE  (k + 1) * (p + a * b) - (u + a) * (v + b)
           = (k * p - u * v) + (p + k * (a * b) - a * v - b * u)
OBVIOUS

LEMMA DistanceGrows ==
  ASSUME NEW i \in Int, NEW p \in Int, NEW u \in Int, NEW v \in Int, NEW a \in Int, NEW b \in Int,
         NEW x \in Int, NEW y \in Int
  PROVE  (p + x * y) + i * (a * b) - a * (v + y) - b * (u + x)
           = (p + (i - 1) * (a * b) - a * v - b * u) + (a - x) * (b - y)
OBVIOUS

\* The product of a positive and a negative number.
LEMMA OppositeSigns ==
  ASSUME NEW c \in Int, NEW d \in Int, c > 0, d < 0
  PROVE  c * d < 0
OBVIOUS

\* Of points that ascend one way and descend the other, the covariance is negative.
LEMMA OppositeTrends ==
  ASSUME NEW m \in Nat, NEW x, NEW y, NEW w, NEW X, NEW Y, NEW W,
         \A i \in 1 .. m : x[i] \in Int /\ y[i] \in Int /\ w[i] = x[i] * y[i],
         IsSums(X, x, m), IsSums(Y, y, m), IsSums(W, w, m),
         \A i, j \in 1 .. m : i < j => x[i] < x[j] /\ y[j] < y[i],
         m >= 2
  PROVE  m * W[m] - X[m] * Y[m] < 0
<1>1. /\ X[0] = 0 /\ Y[0] = 0 /\ W[0] = 0
      /\ \A k \in 0 .. m : X[k] \in Int /\ Y[k] \in Int /\ W[k] \in Int
  BY DEF IsSums
<1>2. \A k \in 1 .. m : x[k] \in Int /\ y[k] \in Int /\ w[k] = x[k] * y[k]
  OBVIOUS
<1>3. \A k \in 1 .. m : /\ X[k] = X[k - 1] + x[k] /\ Y[k] = Y[k - 1] + y[k]
                        /\ W[k] = W[k - 1] + w[k]
  BY DEF IsSums
<1> DEFINE C(k) == k * W[k] - X[k] * Y[k]
<1>4. \A k \in 0 .. m : C(k) \in Int
  <2> SUFFICES ASSUME NEW k \in 0 .. m PROVE C(k) \in Int
    OBVIOUS
  <2>1. PICK p \in Int, u \in Int, v \in Int : p = W[k] /\ u = X[k] /\ v = Y[k]
    BY <1>1
  <2>2. k * p - u * v \in Int
    OBVIOUS
  <2> QED
    BY <2>1, <2>2
<1>5. ASSUME NEW k \in 1 .. m - 1
      PROVE  C(k + 1) < C(k)
  <2>1. PICK a \in Int, b \in Int : a = x[k + 1] /\ b = y[k + 1]
    <3>1. k + 1 \in 1 .. m
      OBVIOUS
    <3>2. x[k + 1] \in Int /\ y[k + 1] \in Int
      BY <1>2, <3>1
    <3> QED
      BY <3>2
  <2> DEFINE D(i) == W[i] + i * (a * b) - a * Y[i] - b * X[i]
             T == {i \in 0 .. k : i = 0 \/ D(i) < 0}
  <2>2. D(0) = 0
    <3>1. 0 * (a * b) = 0 /\ a * 0 = 0 /\ b * 0 = 0
      OBVIOUS
    <3> QED
      BY <1>1, <3>1
  <2>3. \A i \in 0 .. k : D(i) \in Int
    <3> SUFFICES ASSUME NEW i \in 0 .. k PROVE D(i) \in Int
      OBVIOUS
    <3>1. PICK p \in Int, u \in Int, v \in Int : p = W[i] /\ u = X[i] /\ v = Y[i]
      <4>1. i \in 0 .. m
        OBVIOUS
      <4>2. W[i] \in Int /\ X[i] \in Int /\ Y[i] \in Int
        BY <1>1, <4>1
      <4> QED
        BY <4>2
    <3>2. p + i * (a * b) - a * v - b * u \in Int
      OBVIOUS
    <3> QED
      BY <3>1, <3>2
  <2>4. ASSUME NEW i \in 1 .. k, i - 1 \in T
        PROVE  D(i) < 0
    <3>0. i \in 1 .. m /\ i - 1 \in 0 .. m
      OBVIOUS
    <3>1. PICK p \in Int, u \in Int, v \in Int : p = W[i - 1] /\ u = X[i - 1] /\ v = Y[i - 1]
      <4>1. W[i - 1] \in Int /\ X[i - 1] \in Int /\ Y[i - 1] \in Int
        BY <1>1, <3>0
      <4> QED
        BY <4>1
    <3>2. PICK c \in Int, d \in Int : c = x[i] /\ d = y[i]
      <4>1. x[i] \in Int /\ y[i] \in Int
        BY <1>2, <3>0
      <4> QED
        BY <4>1
    <3>3. W[i] = p + c * d /\ X[i] = u + c /\ Y[i] = v + d
      <4>1. w[i] = c * d
        BY <1>2, <3>0, <3>2
      <4>2. W[i] = p + w[i] /\ X[i] = u + x[i] /\ Y[i] = v + y[i]
        BY <1>3, <3>0, <3>1
      <4> QED
        BY <3>2, <4>1, <4>2
    <3>4. D(i) = (p + c * d) + i * (a * b) - a * (v + d) - b * (u + c)
      BY <3>3
    <3>5. D(i - 1) = p + (i - 1) * (a * b) - a * v - b * u
      BY <3>1
    <3>6. D(i) = D(i - 1) + (a - c) * (b - d)
      <4> HIDE DEF D
      <4> QED
        BY <3>4, <3>5, DistanceGrows
    <3>7. (a - c) * (b - d) < 0
      <4>1. a - c > 0 /\ b - d < 0 /\ a - c \in Int /\ b - d \in Int
        <5>1. k + 1 \in 1 .. m /\ i < k + 1
          OBVIOUS
        <5>2. c < a /\ b < d
          BY <2>1, <3>0, <3>2, <5>1
        <5> HIDE DEF D, T, C
        <5> QED
          BY <5>2
      <4> QED
        BY <4>1, OppositeSigns
    <3>8. PICK q \in Int : q = (a - c) * (b - d)
      OBVIOUS
    <3>9. D(i - 1) <= 0 /\ D(i - 1) \in Int
      <4>1. i - 1 = 0 \/ D(i - 1) < 0
        BY <2>4
      <4>2. D(i - 1) \in Int
        BY <2>3
      <4> HIDE DEF D
      <4> QED
        BY <2>2, <4>1, <4>2
    <3> HIDE DEF D
    <3> QED
      BY <3>6, <3>7, <3>8, <3>9
  <2>5. D(k) < 0
    <3>1. 0 \in T /\ k \in Nat
      OBVIOUS
    <3>2. \A i \in 1 .. k : i - 1 \in T => i \in T
      BY <2>4
    <3>3. \A i \in 0 .. k : i \in T
      <4> HIDE DEF T, D, C
      <4> QED
        BY <3>1, <3>2, UpTo
    <3>4. k \in T
      BY <3>3
    <3> HIDE DEF D
    <3> QED
      BY <3>4
  <2>6. C(k + 1) = C(k) + D(k)
    <3>1. PICK p \in Int, u \in Int, v \in Int : p = W[k] /\ u = X[k] /\ v = Y[k]
      <4>1. k \in 0 .. m
        OBVIOUS
      <4>2. W[k] \in Int /\ X[k] \in Int /\ Y[k] \in Int
        BY <1>1, <4>1
      <4> QED
        BY <4>2
    <3>2. W[k + 1] = p + a * b /\ X[k + 1] = u + a /\ Y[k + 1] = v + b
      <4>1. k + 1 \in 1 .. m /\ (k + 1) - 1 = k
        OBVIOUS
      <4>2. w[k + 1] = a * b
        BY <1>2, <2>1, <4>1
      <4>3. W[k + 1] = p + w[k + 1] /\ X[k + 1] = u + x[k + 1] /\ Y[k + 1] = v + y[k + 1]
        BY <1>3, <3>1, <4>1
      <4> QED
        BY <2>1, <4>2, <4>3
    <3>3. C(k + 1) = (k + 1) * (p + a * b) - (u + a) * (v + b)
      BY <3>2
    <3>4. C(k) = k * p - u * v /\ D(k) = p + k * (a * b) - a * v - b * u
      BY <3>1
    <3> HIDE DEF C, D
    <3> QED
      BY <3>3, <3>4, CovarianceGrows
  <2>7. C(k) \in Int /\ D(k) \in Int
    BY <1>4, <2>3
  <2> HIDE DEF C, D
  <2> QED
    BY <2>5, <2>6, <2>7
<1>6. C(1) = 0
  <2>1. PICK a \in Int, b \in Int : a = x[1] /\ b = y[1]
    <3>1. x[1] \in Int /\ y[1] \in Int
      BY <1>2
    <3> QED
      BY <3>1
  <2>2. W[1] = a * b /\ X[1] = a /\ Y[1] = b
    <3>1. w[1] = a * b
      BY <1>2, <2>1
    <3>2. PICK q \in Int : q = a * b
      OBVIOUS
    <3>3. 1 \in 1 .. m /\ 1 - 1 = 0
      OBVIOUS
    <3>4. W[1] = W[0] + w[1] /\ X[1] = X[0] + x[1] /\ Y[1] = Y[0] + y[1]
      BY <1>3, <3>3
    <3>5. W[1] = 0 + q /\ X[1] = 0 + a /\ Y[1] = 0 + b
      BY <1>1, <2>1, <3>1, <3>2, <3>4
    <3> QED
      BY <3>2, <3>5
  <2>3. 1 * (a * b) - a * b = 0
    OBVIOUS
  <2> QED
    BY <2>2, <2>3
<1>7. C(m) < 0
  <2> DEFINE T == {k \in 0 .. m : k >= 2 => C(k) < 0}
  <2>1. 0 \in T
    OBVIOUS
  <2>2. ASSUME NEW k \in 1 .. m, k - 1 \in T
        PROVE  k \in T
    <3> SUFFICES ASSUME k >= 2 PROVE C(k) < 0
      OBVIOUS
    <3>1. PICK l \in 1 .. m - 1 : l = k - 1
      OBVIOUS
    <3>2. k = l + 1 /\ C(l + 1) < C(l)
      BY <1>5, <3>1
    <3>3. C(l) <= 0
      <4>1. l >= 2 => C(l) < 0
        BY <2>2, <3>1
      <4>2. C(l) \in Int
        BY <1>4
      <4>3. l >= 2 \/ l = 1
        OBVIOUS
      <4> HIDE DEF C
      <4> QED
        BY <1>6, <4>1, <4>2, <4>3
    <3>4. C(l) \in Int /\ C(l + 1) \in Int
      BY <1>4
    <3> HIDE DEF C
    <3> QED
      BY <3>2, <3>3, <3>4
  <2>3. \A k \in 0 .. m : k \in T
    <3> HIDE DEF T
    <3> QED
      BY <2>1, <2>2, UpTo
  <2>4. m \in T
    BY <2>3
  <2> HIDE DEF C
  <2> QED
    BY <2>4
<1> QED
  BY <1>7
\* The product with the opposite of a number.
LEMMA NegatedProduct ==
  ASSUME NEW a \in Int, NEW b \in Int
  PROVE  a * (-b) = -(a * b)
OBVIOUS

\* Of points that ascend, the variance is positive.
LEMMA SpreadOut ==
  ASSUME NEW m \in Nat, NEW x, NEW w, NEW X, NEW W,
         \A i \in 1 .. m : x[i] \in Int /\ w[i] = x[i] * x[i],
         IsSums(X, x, m), IsSums(W, w, m),
         \A i, j \in 1 .. m : i < j => x[i] < x[j],
         m >= 2
  PROVE  m * W[m] - X[m] * X[m] # 0
<1>1. PICK y : y = [i \in 1 .. m |-> -x[i]]
  OBVIOUS
<1>2. PICK v : v = [i \in 1 .. m |-> -w[i]]
  OBVIOUS
<1>3. PICK Y : Y = [k \in 0 .. m |-> -X[k]]
  OBVIOUS
<1>4. PICK V : V = [k \in 0 .. m |-> -W[k]]
  OBVIOUS
<1>5. \A i \in 1 .. m : w[i] \in Int /\ v[i] = x[i] * y[i]
  <2> SUFFICES ASSUME NEW i \in 1 .. m PROVE w[i] \in Int /\ v[i] = x[i] * y[i]
    OBVIOUS
  <2>1. PICK a \in Int : a = x[i]
    OBVIOUS
  <2>2. w[i] = a * a /\ a * a \in Int
    BY <2>1
  <2>3. y[i] = -a /\ v[i] = -(a * a)
    BY <1>1, <1>2, <2>1, <2>2
  <2> QED
    BY <2>1, <2>2, <2>3, NegatedProduct
<1>6. \A i \in 1 .. m : y[i] \in Int
  BY <1>1
<1>7. IsSums(Y, y, m)
  <2>1. X \in [0 .. m -> Int] /\ X[0] = 0 /\ \A k \in 1 .. m : X[k] = X[k - 1] + x[k]
    BY DEF IsSums
  <2>2. Y \in [0 .. m -> Int] /\ Y[0] = 0
    BY <1>3, <2>1
  <2>3. \A k \in 1 .. m : Y[k] = Y[k - 1] + y[k]
    BY <1>1, <1>3, <2>1, SMTT(30)
  <2> QED
    BY <2>2, <2>3 DEF IsSums
<1>8. IsSums(V, v, m)
  <2>1. W \in [0 .. m -> Int] /\ W[0] = 0 /\ \A k \in 1 .. m : W[k] = W[k - 1] + w[k]
    BY DEF IsSums
  <2>2. V \in [0 .. m -> Int] /\ V[0] = 0
    BY <1>4, <2>1
  <2>3. \A k \in 1 .. m : V[k] = V[k - 1] + v[k]
    <3> SUFFICES ASSUME NEW k \in 1 .. m PROVE V[k] = V[k - 1] + v[k]
      OBVIOUS
    <3>1. PICK p \in Int, q \in Int : p = W[k - 1] /\ q = w[k]
      <4>1. W[k - 1] \in Int /\ w[k] \in Int
        BY <1>5, <2>1
      <4> QED
        BY <4>1
    <3>2. W[k] = p + q
      BY <2>1, <3>1
    <3>3. V[k] = -(p + q) /\ V[k - 1] = -p /\ v[k] = -q
      BY <1>2, <1>4, <3>1, <3>2
    <3> QED
      BY <3>3
  <2> QED
    BY <2>2, <2>3 DEF IsSums
<1>9. \A i, j \in 1 .. m : i < j => x[i] < x[j] /\ y[j] < y[i]
  BY <1>1
<1>10. m * V[m] - X[m] * Y[m] < 0
  BY <1>5, <1>6, <1>7, <1>8, <1>9, OppositeTrends
<1>11. PICK p \in Int, u \in Int : p = W[m] /\ u = X[m]
  <2>1. W[m] \in Int /\ X[m] \in Int
    BY DEF IsSums
  <2> QED
    BY <2>1
<1>12. V[m] = -p /\ Y[m] = -u
  BY <1>3, <1>4, <1>11
<1>13. m * (-p) - u * (-u) < 0
  BY <1>10, <1>11, <1>12
<1>14. m * (-p) = -(m * p) /\ u * (-u) = -(u * u)
  BY NegatedProduct
<1>15. m * p - u * u # 0
  <2>1. PICK r \in Int, s \in Int : r = m * p /\ s = u * u
    OBVIOUS
  <2>2. (-r) - (-s) < 0
    BY <1>13, <1>14, <2>1
  <2> QED
    BY <2>1, <2>2
<1> QED
  BY <1>11, <1>15

Points == [duration : Int, error : Int]

\* The slope of the first m points, over sums that end with them.
LEMMA SlopeOfFirst ==
  ASSUME NEW n \in Nat, NEW points \in [1 .. n -> Points], NEW m \in 0 .. n, m >= 2,
         \A i, j \in 1 .. m : i < j => /\ points[i].duration < points[j].duration
                                       /\ points[j].error < points[i].error
  PROVE  SlopeOf(points, 1 .. m) < 0
<1>1. PICK x : x = [i \in DOMAIN points |-> IF i \in 1 .. m THEN points[i].duration ELSE 0]
  OBVIOUS
<1>2. PICK y : y = [i \in DOMAIN points |-> IF i \in 1 .. m THEN points[i].error ELSE 0]
  OBVIOUS
<1>3. PICK v : v = [i \in DOMAIN points |-> x[i] * x[i]]
  OBVIOUS
<1>4. PICK w : w = [i \in DOMAIN points |-> x[i] * y[i]]
  OBVIOUS
<1>5. Cardinality(1 .. m) = m
  BY FS_Interval
<1>6. SlopeOf(points, 1 .. m) =
        IF m < 2 \/ m * SumOf(v) - SumOf(x) * SumOf(x) = 0
          THEN 0 ELSE m * SumOf(w) - SumOf(x) * SumOf(y)
  BY <1>1, <1>2, <1>3, <1>4, <1>5 DEF SlopeOf
<1>7. DOMAIN points = 1 .. n /\ \A i \in 1 .. n : points[i].duration \in Int /\ points[i].error \in Int
  BY DEF Points
<1>8. x \in [1 .. n -> Int] /\ y \in [1 .. n -> Int]
  BY <1>1, <1>2, <1>7
<1>9. \A i \in 1 .. n : v[i] = x[i] * x[i] /\ w[i] = x[i] * y[i]
  BY <1>3, <1>4, <1>7
<1>10. v \in [1 .. n -> Int] /\ w \in [1 .. n -> Int]
  <2>1. \A i \in 1 .. n : x[i] * x[i] \in Int /\ x[i] * y[i] \in Int
    BY <1>8
  <2> QED
    BY <1>3, <1>4, <1>7, <2>1
<1>11. \A i \in m + 1 .. n : x[i] = 0 /\ y[i] = 0
  BY <1>1, <1>2, <1>7
<1>12. \A i \in m + 1 .. n : v[i] = 0 /\ w[i] = 0
  <2>1. 0 * 0 = 0
    OBVIOUS
  <2> QED
    BY <1>9, <1>11, <2>1
<1>13. PICK X : IsSums(X, x, m) /\ SumOf(x) = X[m]
  BY <1>8, <1>11, SumOfMasked
<1>14. PICK Y : IsSums(Y, y, m) /\ SumOf(y) = Y[m]
  BY <1>8, <1>11, SumOfMasked
<1>15. PICK V : IsSums(V, v, m) /\ SumOf(v) = V[m]
  BY <1>10, <1>12, SumOfMasked
<1>16. PICK W : IsSums(W, w, m) /\ SumOf(w) = W[m]
  BY <1>10, <1>12, SumOfMasked
<1>17. \A i \in 1 .. m : x[i] = points[i].duration /\ y[i] = points[i].error
  BY <1>1, <1>2, <1>7
<1>18. /\ \A i \in 1 .. m : x[i] \in Int /\ y[i] \in Int /\ w[i] = x[i] * y[i]
       /\ \A i \in 1 .. m : x[i] \in Int /\ v[i] = x[i] * x[i]
  <2>1. \A i \in 1 .. m : i \in 1 .. n
    OBVIOUS
  <2> QED
    BY <1>8, <1>9, <2>1
<1>19. \A i, j \in 1 .. m : i < j => x[i] < x[j] /\ y[j] < y[i]
  BY <1>17
<1>20. m * W[m] - X[m] * Y[m] < 0
  <2>1. m \in Nat
    OBVIOUS
  <2> QED
    BY <1>13, <1>14, <1>16, <1>18, <1>19, <2>1, OppositeTrends, Zenon
<1>21. m * V[m] - X[m] * X[m] # 0
  BY <1>13, <1>15, <1>18, <1>19, SpreadOut
<1>22. SlopeOf(points, 1 .. m) = m * W[m] - X[m] * Y[m]
  <2>1. ~(m < 2)
    OBVIOUS
  <2> QED
    BY <1>6, <1>13, <1>14, <1>15, <1>16, <1>21, <2>1
<1> QED
  BY <1>20, <1>22

\* Of errors that fall, those that have a logarithm are the first ones.
LEMMA VanishedLast ==
  ASSUME NEW n \in Nat, NEW points \in [1 .. n -> Points],
         \A i \in 1 .. n : points[i].error >= LogOfZero,
         Falling(points)
  PROVE  \E m \in 0 .. n : /\ Transformable(points) = 1 .. m
                           /\ \A i \in m + 1 .. n : points[i].error = LogOfZero
<1>1. PICK e \in [1 .. n -> Int] : \A i \in 1 .. n : e[i] = points[i].error
  <2>1. PICK e : e = [i \in 1 .. n |-> points[i].error]
    OBVIOUS
  <2>2. e \in [1 .. n -> Int]
    BY <2>1 DEF Points
  <2> QED
    BY <2>1, <2>2
<1>2. Len(points) = n /\ DOMAIN points = 1 .. n
  OBVIOUS
<1>3. PICK z \in Int : z = LogOfZero
  BY DEF LogOfZero
<1>4. \A i \in 1 .. n : e[i] >= z
  BY <1>1, <1>3
<1>5. ASSUME NEW i \in 2 .. n
      PROVE  e[i] < e[i - 1] \/ (e[i] = z /\ e[i - 1] = z)
  <2>1. i \in 1 .. n /\ i - 1 \in 1 .. n
    OBVIOUS
  <2>2. \/ points[i].error < points[i - 1].error
        \/ {points[i].error, points[i - 1].error} = {LogOfZero}
    BY <1>2 DEF Falling
  <2>3. \/ e[i] < e[i - 1]
        \/ {e[i], e[i - 1]} = {z}
    BY <1>1, <1>3, <2>1, <2>2
  <2> QED
    BY <2>3
<1>6. Transformable(points) = {i \in 1 .. n : e[i] # z}
  BY <1>1, <1>2, <1>3 DEF Transformable
<1>7. CASE \A i \in 1 .. n : e[i] # z
  <2>1. Transformable(points) = 1 .. n
    BY <1>6, <1>7
  <2> QED
    BY <2>1
<1>8. CASE \E i \in 1 .. n : e[i] = z
  <2> DEFINE Gone == {i \in 1 .. n : e[i] = z}
  <2>1. Gone \subseteq Nat /\ Gone # {}
    <3>1. PICK k \in 1 .. n : e[k] = z
      BY <1>8
    <3>2. k \in Gone /\ \A i \in Gone : i \in Nat
      BY <3>1
    <3> QED
      BY <3>2
  <2>2. PICK f \in Gone : \A i \in Gone : f <= i
    <3> HIDE DEF Gone
    <3> QED
      BY <2>1, LeastNatural
  <2>3. PICK m \in 0 .. n : m = f - 1
    OBVIOUS
  <2> DEFINE T == {i \in 0 .. n : i > m => e[i] = z}
  <2>4. 0 \in T
    OBVIOUS
  <2>5. ASSUME NEW i \in 1 .. n, i - 1 \in T
        PROVE  i \in T
    <3>1. CASE i <= m
      BY <3>1
    <3>2. CASE i = m + 1
      BY <2>2, <2>3, <3>2
    <3>3. CASE i > m + 1
      <4>1. i \in 2 .. n /\ i - 1 \in 1 .. n
        BY <3>3
      <4>2. e[i - 1] = z
        BY <2>5, <3>3
      <4>3. e[i] \in Int /\ e[i] >= z
        BY <1>4
      <4> QED
        BY <1>5, <4>1, <4>2, <4>3
    <3> QED
      BY <3>1, <3>2, <3>3
  <2>6. \A i \in 0 .. n : i \in T
    <3> HIDE DEF T
    <3> QED
      BY <2>4, <2>5, UpTo
  <2>7. \A i \in m + 1 .. n : e[i] = z
    BY <2>6
  <2>8. \A i \in 1 .. m : e[i] # z
    BY <2>2, <2>3
  <2>9. Transformable(points) = 1 .. m
    BY <1>6, <2>7, <2>8
  <2>10. \A i \in m + 1 .. n : points[i].error = LogOfZero
    BY <1>1, <1>3, <2>7
  <2> QED
    BY <2>9, <2>10
<1> QED
  BY <1>7, <1>8

\* Errors that fall at each step, as long as they have a logarithm, fall altogether.
LEMMA FallThroughout ==
  ASSUME NEW n \in Nat, NEW points \in [1 .. n -> Points], NEW m \in 0 .. n,
         Falling(points), Transformable(points) = 1 .. m
  PROVE  \A i, j \in 1 .. m : i < j => points[j].error < points[i].error
<1> SUFFICES ASSUME NEW i \in 1 .. m
             PROVE  \A j \in 1 .. m : i < j => points[j].error < points[i].error
  OBVIOUS
<1> DEFINE T == {j \in 0 .. m : i < j => points[j].error < points[i].error}
<1>1. 0 \in T
  OBVIOUS
<1>2. ASSUME NEW j \in 1 .. m, j - 1 \in T
      PROVE  j \in T
  <2> SUFFICES ASSUME i < j PROVE points[j].error < points[i].error
    OBVIOUS
  <2>1. j \in 2 .. n /\ j - 1 \in 1 .. n /\ j \in 1 .. n /\ i \in 1 .. n /\ Len(points) = n
    OBVIOUS
  <2>2. points[j].error # LogOfZero
    <3>1. j \in Transformable(points)
      OBVIOUS
    <3> QED
      BY <3>1 DEF Transformable
  <2>3. points[j].error < points[j - 1].error
    <3>1. \/ points[j].error < points[j - 1].error
          \/ {points[j].error, points[j - 1].error} = {LogOfZero}
      BY <2>1 DEF Falling
    <3> QED
      BY <2>2, <3>1
  <2>4. points[j].error \in Int /\ points[j - 1].error \in Int /\ points[i].error \in Int
    BY <2>1 DEF Points
  <2>5. j - 1 = i \/ points[j - 1].error < points[i].error
    BY <1>2
  <2> QED
    BY <2>3, <2>4, <2>5
<1>3. \A j \in 0 .. m : j \in T
  <2> HIDE DEF T
  <2> QED
    BY <1>1, <1>2, UpTo
<1> QED
  BY <1>3

\* Errors that fall, two of them at least before they vanish, are converged unless
\* the first duration is zero, whose logarithm is fitted with the others.
LEMMA FallingConverges ==
  ASSUME NEW n \in Nat, NEW points \in [1 .. n -> Points],
         \A i \in 1 .. n : points[i].error >= LogOfZero,
         \A i, j \in 1 .. n : i <= j => points[i].duration <= points[j].duration,
         \A i, j \in 1 .. n : points[i].duration = points[j].duration
                                => points[i].error = points[j].error,
         \A i, j \in 1 .. n : i <= j /\ points[j].duration = LogOfZero
                                => points[i].duration = LogOfZero,
         Falling(points), Cardinality(Transformable(points)) >= 2
  PROVE  CheckConvergence(points) <=> points[1].duration # LogOfZero
<1>1. PICK m \in 0 .. n : /\ Transformable(points) = 1 .. m
                          /\ \A i \in m + 1 .. n : points[i].error = LogOfZero
  BY VanishedLast
<1>2. Cardinality(1 .. m) = m
  BY FS_Interval
<1>3. m >= 2
  BY <1>1, <1>2
<1>4. \A i \in 1 .. n : points[i].duration \in Int /\ points[i].error \in Int
  BY DEF Points
<1>5. \A i, j \in 1 .. m : i < j => points[j].error < points[i].error
  BY <1>1, FallThroughout
<1>6. \A i, j \in 1 .. m : i < j => points[i].duration < points[j].duration
  <2> SUFFICES ASSUME NEW i \in 1 .. m, NEW j \in 1 .. m, i < j
               PROVE  points[i].duration < points[j].duration
    OBVIOUS
  <2>1. i \in 1 .. n /\ j \in 1 .. n /\ i <= j
    OBVIOUS
  <2>2. points[i].error # points[j].error
    BY <1>4, <1>5, <2>1
  <2> QED
    BY <1>4, <2>1, <2>2
<1>7. SlopeOf(points, 1 .. m) < 0
  BY <1>3, <1>5, <1>6, SlopeOfFirst
<1>8. Len(points) = n
  OBVIOUS
<1>9. points[n].error < points[1].error
  <2>1. CASE m = n
    <3>1. 1 \in 1 .. m /\ n \in 1 .. m /\ 1 < n
      BY <1>3, <2>1
    <3> QED
      BY <1>5, <3>1
  <2>2. CASE m # n
    <3>1. points[n].error = LogOfZero
      BY <1>1, <2>2
    <3>2. 1 \in 1 .. m /\ 1 \in 1 .. n
      BY <1>3
    <3>3. 1 \in Transformable(points)
      BY <1>1, <3>2
    <3>4. points[1].error # LogOfZero
      BY <3>3 DEF Transformable
    <3>5. points[1].error >= LogOfZero /\ points[1].error \in Int
      BY <1>4, <3>2
    <3> QED
      BY <3>1, <3>4, <3>5 DEF LogOfZero
  <2> QED
    BY <2>1, <2>2
<1>10. 1 \in 1 .. m /\ 1 \in 1 .. n
  BY <1>3
<1>11. CASE points[1].duration = LogOfZero
  <2>1. LogLogSlope(points) = {}
    <3>1. \E i \in 1 .. m : points[i].duration = LogOfZero
      BY <1>10, <1>11
    <3> QED
      BY <1>1, <1>2, <1>3, <3>1 DEF LogLogSlope, NaN
  <2> QED
    BY <1>11, <2>1 DEF CheckConvergence
<1>12. CASE points[1].duration # LogOfZero
  <2>1. ~\E i \in 1 .. m : points[i].duration = LogOfZero
    <3> SUFFICES ASSUME NEW i \in 1 .. m
                 PROVE  points[i].duration # LogOfZero
      OBVIOUS
    <3>1. i \in 1 .. n /\ 1 <= i
      OBVIOUS
    <3> QED
      BY <1>10, <1>12, <3>1
  <2>2. LogLogSlope(points) = {SlopeOf(points, 1 .. m)}
    BY <1>1, <2>1 DEF LogLogSlope
  <2>3. Len(points) >= 2
    BY <1>3, <1>8
  <2> QED
    BY <1>7, <1>8, <1>9, <1>12, <2>2, <2>3 DEF CheckConvergence
<1> QED
  BY <1>11, <1>12

\* Errors that never fall are not.
LEMMA RisingDiverges ==
  ASSUME NEW n \in Nat, NEW points \in [1 .. n -> Points], Rising(points)
  PROVE  ~CheckConvergence(points)
<1>1. Len(points) = n
  OBVIOUS
<1> SUFFICES ASSUME n >= 2 PROVE ~(points[n].error < points[1].error)
  BY <1>1 DEF CheckConvergence
<1>2. PICK e \in [1 .. n -> Int] : \A i \in 1 .. n : e[i] = points[i].error
  <2>1. PICK e : e = [i \in 1 .. n |-> points[i].error]
    OBVIOUS
  <2>2. e \in [1 .. n -> Int]
    BY <2>1 DEF Points
  <2> QED
    BY <2>1, <2>2
<1>3. ASSUME NEW i \in 2 .. n
      PROVE  e[i] >= e[i - 1]
  <2>1. points[i].error >= points[i - 1].error /\ i \in 1 .. n /\ i - 1 \in 1 .. n
    BY <1>1 DEF Rising
  <2> QED
    BY <1>2, <2>1
<1> DEFINE T == {i \in 0 .. n : i = 0 \/ e[i] >= e[1]}
<1>4. 0 \in T
  OBVIOUS
<1>5. ASSUME NEW i \in 1 .. n, i - 1 \in T
      PROVE  i \in T
  <2>1. CASE i = 1
    BY <2>1
  <2>2. CASE i # 1
    <3>1. i \in 2 .. n /\ e[i - 1] >= e[1]
      BY <1>5, <2>2
    <3>2. e[i] >= e[i - 1] /\ e[i] \in Int /\ e[i - 1] \in Int /\ e[1] \in Int
      BY <1>3, <3>1
    <3> QED
      BY <3>1, <3>2
  <2> QED
    BY <2>1, <2>2
<1>6. \A i \in 0 .. n : i \in T
  <2> HIDE DEF T
  <2> QED
    BY <1>4, <1>5, UpTo
<1>7. e[n] >= e[1] /\ e[n] \in Int /\ e[1] \in Int
  BY <1>6
<1> QED
  BY <1>2, <1>7
-----------------------------------------------------------------------------
\* The trajectory that is assessed has one point for each duration, and equal
\* durations have equal errors.
TrajectoryInv ==
  \/ trajectory = <<>>
  \/ \E error \in [{durations[i] : i \in DOMAIN durations} -> Errors] :
       trajectory = [i \in DOMAIN durations |->
                       [duration |-> Log[durations[i]], error |-> error[durations[i]]]]

\* Only Assess makes one, and the durations never change.
LEMMA TrajectoryInvariant == ConvergenceSpec => []TrajectoryInv
<1>1. ConvergenceInit => TrajectoryInv
  BY DEF ConvergenceInit, TrajectoryInv
<1>2. TrajectoryInv /\ [ConvergenceNext]_convergenceVars => TrajectoryInv'
  <2> SUFFICES ASSUME TrajectoryInv, [ConvergenceNext]_convergenceVars
               PROVE  TrajectoryInv'
    OBVIOUS
  <2>1. ASSUME NEW error \in [{durations[i] : i \in DOMAIN durations} -> Errors],
               trajectory' = [i \in DOMAIN durations |->
                                [duration |-> Log[durations[i]], error |-> error[durations[i]]]],
               durations' = durations
        PROVE  TrajectoryInv'
    <3>1. \E error_ \in [{durations'[i] : i \in DOMAIN durations'} -> Errors] :
            trajectory' = [i \in DOMAIN durations' |->
                             [duration |-> Log[durations'[i]], error |-> error_[durations'[i]]]]
      BY <2>1
    <3> QED
      BY <3>1 DEF TrajectoryInv
  <2>2. CASE Assess
    BY <2>1, <2>2 DEF Assess
  <2>4. CASE UNCHANGED <<trajectory, durations>>
    <3>1. trajectory' = trajectory /\ durations' = durations
      BY <2>4
    <3>2. CASE trajectory = <<>>
      BY <3>1, <3>2 DEF TrajectoryInv
    <3>3. CASE \E error \in [{durations[i] : i \in DOMAIN durations} -> Errors] :
                 trajectory = [i \in DOMAIN durations |->
                                 [duration |-> Log[durations[i]], error |-> error[durations[i]]]]
      BY <2>1, <3>1, <3>3
    <3> QED
      BY <3>2, <3>3 DEF TrajectoryInv
  <2>3. \/ Assess
        \/ UNCHANGED <<trajectory, durations>>
    BY DEF ConvergenceNext, SimulationStep, NextSimulation, FinishExperiment, convergenceVars, simVars, vars
  <2> QED
    BY <2>2, <2>3, <2>4
<1> QED
  BY <1>1, <1>2, PTL DEF ConvergenceSpec

\* The verdict on a metric follows an unmistakable trend of its errors, unless the
\* shortest duration is zero (convergence_experiment.py:209-213, 241, 245).
THEOREM VerdictIsTrend == ConvergenceSpec => []VerdictFollowsTrend
<1>1. DurationsInv /\ TrajectoryInv => VerdictFollowsTrend
  <2> SUFFICES ASSUME DurationsInv, TrajectoryInv
               PROVE  /\ Falling(trajectory) /\ Cardinality(Transformable(trajectory)) >= 2 =>
                           (CheckConvergence(trajectory) <=> durations[1] > 0)
                      /\ Rising(trajectory) => ~CheckConvergence(trajectory)
    BY DEF VerdictFollowsTrend
  <2>1. CASE trajectory = <<>>
    <3>1. Transformable(trajectory) = {} /\ Cardinality({}) = 0
      BY <2>1, FS_EmptySet DEF Transformable
    <3>2. ~(Len(trajectory) >= 2)
      BY <2>1
    <3> QED
      BY <3>1, <3>2 DEF CheckConvergence
  <2>2. ASSUME NEW error \in [{durations[i] : i \in DOMAIN durations} -> Errors],
               trajectory = [i \in DOMAIN durations |->
                               [duration |-> Log[durations[i]], error |-> error[durations[i]]]]
        PROVE  /\ Falling(trajectory) /\ Cardinality(Transformable(trajectory)) >= 2 =>
                    (CheckConvergence(trajectory) <=> durations[1] > 0)
               /\ Rising(trajectory) => ~CheckConvergence(trajectory)
    <3>1. PICK n \in Nat : n = Len(durations) /\ DOMAIN durations = 1 .. n
      BY DEF DurationsInv
    <3>2. PICK t : t = trajectory
      OBVIOUS
    <3>3. /\ DOMAIN t = 1 .. n /\ t = [i \in 1 .. n |-> t[i]]
          /\ \A i \in 1 .. n : t[i] = [duration |-> Log[durations[i]], error |-> error[durations[i]]]
      BY <2>2, <3>1, <3>2
    <3>4. /\ \A i \in 1 .. n : durations[i] \in SimulationTimes /\ durations[i] \in Int
          /\ \A i, j \in 1 .. n : i <= j => durations[i] <= durations[j]
      <4>1. durations \in Seq(SimulationTimes)
        BY DEF DurationsInv
      <4>2. \A i \in 1 .. n : durations[i] \in SimulationTimes
        BY <3>1, <4>1
      <4>3. \A i \in 1 .. n : durations[i] \in Int
        <5>1. SimulationTimes \subseteq Int
          BY SimulationAssumption
        <5> QED
          BY <4>2, <5>1
      <4>4. \A i, j \in 1 .. n : i <= j => durations[i] <= durations[j]
        BY <3>1 DEF DurationsInv
      <4> QED
        BY <4>2, <4>3, <4>4
    <3>5. \A i \in 1 .. n : error[durations[i]] \in Errors
      BY <2>2, <3>1
    <3>6. /\ Log \in [SimulationTimes -> Int]
          /\ \A a, b \in SimulationTimes : a < b => Log[a] < Log[b]
          /\ \A a \in SimulationTimes : Log[a] = LogOfZero <=> a = 0
          /\ Errors \subseteq Int /\ \A e \in Errors : e >= LogOfZero
      BY ConvergenceAssumption
    <3>7. \A i \in 1 .. n : t[i] \in Points /\ t[i].error >= LogOfZero
      BY <3>3, <3>4, <3>5, <3>6 DEF Points
    <3>8. t \in [1 .. n -> Points]
      BY <3>3, <3>7
    <3>9. ASSUME NEW i \in 1 .. n, NEW j \in 1 .. n
          PROVE  /\ i <= j => t[i].duration <= t[j].duration
                 /\ t[i].duration = t[j].duration => t[i].error = t[j].error
                 /\ i <= j /\ t[j].duration = LogOfZero => t[i].duration = LogOfZero
      <4>1. /\ t[i].duration = Log[durations[i]] /\ t[i].error = error[durations[i]]
            /\ t[j].duration = Log[durations[j]] /\ t[j].error = error[durations[j]]
        BY <3>3
      <4>2. PICK a \in SimulationTimes, b \in SimulationTimes :
              a = durations[i] /\ b = durations[j]
        BY <3>4
      <4>3. Log[a] \in Int /\ Log[b] \in Int /\ a \in Int /\ b \in Int
        BY <3>4, <3>6, <4>2
      <4>4. a < b => Log[a] < Log[b]
        BY <3>6
      <4>5. b < a => Log[b] < Log[a]
        BY <3>6
      <4>6. i <= j => a <= b
        BY <3>4, <4>2
      <4>7. i <= j => Log[a] <= Log[b]
        BY <4>3, <4>4, <4>6
      <4>8. Log[a] = Log[b] => a = b
        BY <4>3, <4>4, <4>5
      <4>9. i <= j /\ Log[b] = LogOfZero => Log[a] = LogOfZero
        <5>1. Log[b] = LogOfZero => b = 0
          BY <3>6
        <5>2. a >= 0
          BY SimulationAssumption
        <5>3. i <= j /\ b = 0 => a = 0
          BY <4>3, <4>6, <5>2
        <5>4. a = 0 => Log[a] = LogOfZero
          BY <3>6
        <5> QED
          BY <5>1, <5>3, <5>4
      <4> QED
        BY <4>1, <4>2, <4>7, <4>8, <4>9
    <3>10. ASSUME Falling(t), Cardinality(Transformable(t)) >= 2
           PROVE  CheckConvergence(t) <=> durations[1] > 0
      <4>1. CheckConvergence(t) <=> t[1].duration # LogOfZero
        BY <3>7, <3>8, <3>9, <3>10, FallingConverges
      <4>2. 1 \in 1 .. n
        BY <3>1 DEF DurationsInv
      <4>3. t[1].duration = Log[durations[1]] /\ durations[1] \in SimulationTimes
        BY <3>3, <3>4, <4>2
      <4>4. t[1].duration = LogOfZero <=> durations[1] = 0
        BY <3>6, <4>3
      <4>5. durations[1] = 0 \/ durations[1] > 0
        <5>1. SimulationTimes \subseteq Nat
          BY SimulationAssumption
        <5>2. durations[1] \in Nat
          BY <4>3, <5>1
        <5> QED
          BY <5>2
      <4>6. ~(0 > 0)
        OBVIOUS
      <4> QED
        BY <4>1, <4>4, <4>5, <4>6
    <3>11. Rising(t) => ~CheckConvergence(t)
      BY <3>8, RisingDiverges
    <3> QED
      BY <3>2, <3>10, <3>11
  <2> QED
    BY <2>1, <2>2 DEF TrajectoryInv
<1> QED
  BY <1>1, ConvergenceInvariant, TrajectoryInvariant, PTL DEF ConvergenceInv

-----------------------------------------------------------------------------
\* The points.

\* The number of a place and a turn has that place for its quotient and that turn
\* for its remainder.
LEMMA PlaceAndTurn ==
  ASSUME NEW d \in Nat, NEW r \in Nat \ {0}, NEW k \in 1 .. d, NEW t \in 1 .. r,
         NEW s, s = d * r, NEW n, n = (k - 1) * r + t
  PROVE  n \in 1 .. s /\ 1 + ((n - 1) \div r) = k /\ 1 + ((n - 1) % r) = t
<1>1. n \in Int /\ n = (k - 1) * r + t
  OBVIOUS
<1>2. (k - 1) * r >= 0 /\ (k - 1) * r \in Int
  OBVIOUS
<1>3. (k - 1) * r + r <= d * r /\ d * r \in Int
  <2>1. (k - 1) * r + r = k * r
    OBVIOUS
  <2>2. k * r <= d * r /\ k * r \in Int /\ d * r \in Int
    OBVIOUS
  <2> QED
    BY <2>1, <2>2
<1>4. n \in 1 .. s
  BY <1>1, <1>2, <1>3
<1> DEFINE q == (n - 1) \div r
           m == (n - 1) % r
<1>5. q \in Int /\ m \in 0 .. r - 1 /\ n - 1 = r * q + m
  OBVIOUS
<1> HIDE DEF q, m
<1>6. r * q + m = (k - 1) * r + (t - 1)
  BY <1>1, <1>5
<1>7. q = k - 1
  <2>1. r * (q - (k - 1)) = (t - 1) - m
    BY <1>5, <1>6
  <2>2. (t - 1) - m < r /\ (t - 1) - m > -r
    BY <1>5
  <2>3. PICK z \in Int : z = q - (k - 1)
    BY <1>5
  <2>4. r * z < r /\ r * z > -r
    BY <2>1, <2>2, <2>3
  <2>5. ~(z >= 1)
    <3> SUFFICES ASSUME z >= 1 PROVE FALSE
      OBVIOUS
    <3>1. r * z >= r
      OBVIOUS
    <3> QED
      BY <2>4, <3>1
  <2>6. ~(z <= -1)
    <3> SUFFICES ASSUME z <= -1 PROVE FALSE
      OBVIOUS
    <3>1. r * z <= -r
      OBVIOUS
    <3> QED
      BY <2>4, <3>1
  <2>7. z = 0
    BY <2>5, <2>6
  <2> QED
    BY <1>5, <2>3, <2>7
<1>8. m = t - 1
  BY <1>5, <1>6, <1>7
<1>9. 1 + ((n - 1) \div r) = k /\ 1 + ((n - 1) % r) = t
  BY <1>7, <1>8 DEF q, m
<1> QED
  BY <1>4, <1>9

\* When the experiment is over there is a simulation for each duration and
\* replication, and none for anything else, also if a duration is listed twice
\* (convergence_experiment.py:153-172).
THEOREM MeasuredAtTheEnd == ConvergenceSpec => [](loop = "reported" => Measured)
<1>1. ConvergenceInv => (loop = "reported" => Measured)
  <2> SUFFICES ASSUME ConvergenceInv, loop = "reported"
               PROVE  Measured
    OBVIOUS
  <2>1. PICK d \in Nat : d = Len(durations) /\ DOMAIN durations = 1 .. d
    BY DEF ConvergenceInv, DurationsInv
  <2>2. PICK r \in Nat \ {0} : r = Replications
    BY ConvergenceAssumption
  <2>3. PICK c \in Seq(Results) : c = collected
    BY DEF ConvergenceInv, CollectedInv
  <2>4. PICK t : t = d * r /\ t \in Nat
    OBVIOUS
  <2>5. DOMAIN c = 1 .. t
    <3>1. Len(c) = t
      <4>1. Len(collected) = Total
        BY DEF ConvergenceInv, CollectedInv
      <4>2. Total = t
        BY <2>1, <2>2, <2>4 DEF Total
      <4> QED
        BY <2>3, <4>1, <4>2
    <3> QED
      BY <3>1
  <2>6. ASSUME NEW i \in 1 .. t
        PROVE  /\ c[i].duration = durations[1 + ((i - 1) \div r)]
               /\ c[i].replication = 1 + ((i - 1) % r)
    <3>1. i \in 1 .. Len(collected)
      <4>1. DOMAIN c = 1 .. Len(c) /\ i \in DOMAIN c
        BY <2>5
      <4> QED
        BY <2>3, <4>1
    <3>2. c[i].duration = DurationOf(i) /\ c[i].replication = ReplicationOf(i)
      BY <2>3, <3>1 DEF ConvergenceInv, CollectedInv
    <3> QED
      BY <2>2, <3>2 DEF DurationOf, ReplicationOf
  <2>7. ASSUME NEW i \in 1 .. t
        PROVE  <<c[i].duration, c[i].replication>>
                 \in {durations[k] : k \in 1 .. d} \X (1 .. r)
    <3>1. 1 + ((i - 1) \div r) \in 1 .. d
      BY <2>4, QuotientInRange
    <3>2. 1 + ((i - 1) % r) \in 1 .. r
      <4>1. (i - 1) % r \in 0 .. r - 1
        BY <2>4
      <4> QED
        BY <4>1
    <3> QED
      BY <2>6, <3>1, <3>2
  <2>8. ASSUME NEW k \in 1 .. d, NEW q \in 1 .. r
        PROVE  \E i \in 1 .. t : <<durations[k], q>> = <<c[i].duration, c[i].replication>>
    <3>1. PICK i : i = (k - 1) * r + q
      OBVIOUS
    <3>2. i \in 1 .. t /\ 1 + ((i - 1) \div r) = k /\ 1 + ((i - 1) % r) = q
      BY <2>4, <3>1, PlaceAndTurn
    <3>3. c[i].duration = durations[k] /\ c[i].replication = q
      BY <2>6, <3>2, Zenon
    <3> QED
      BY <3>2, <3>3, Zenon
  <2>9. {<<x.duration, x.replication>> : x \in {c[i] : i \in 1 .. t}}
          = {durations[k] : k \in 1 .. d} \X (1 .. r)
    <3> DEFINE Kept == {<<x.duration, x.replication>> : x \in {c[i] : i \in 1 .. t}}
               Wanted == {durations[k] : k \in 1 .. d} \X (1 .. r)
    <3>1. \A p \in Kept : \E i \in 1 .. t : p = <<c[i].duration, c[i].replication>>
      OBVIOUS
    <3>2. \A i \in 1 .. t : <<c[i].duration, c[i].replication>> \in Kept
      OBVIOUS
    <3>3. \A p \in Wanted : \E k \in 1 .. d : \E q \in 1 .. r : p = <<durations[k], q>>
      <4> SUFFICES ASSUME NEW p \in Wanted
                   PROVE  \E k \in 1 .. d : \E q \in 1 .. r : p = <<durations[k], q>>
        OBVIOUS
      <4>1. p[1] \in {durations[k] : k \in 1 .. d} /\ p[2] \in 1 .. r /\ p = <<p[1], p[2]>>
        OBVIOUS
      <4>2. PICK k \in 1 .. d : p[1] = durations[k]
        BY <4>1
      <4> QED
        BY <4>1, <4>2
    <3>4. Kept \subseteq Wanted
      <4> HIDE DEF Kept, Wanted
      <4>1. \A i \in 1 .. t : <<c[i].duration, c[i].replication>> \in Wanted
        BY <2>7 DEF Wanted
      <4> QED
        BY <3>1, <4>1
    <3>5. Wanted \subseteq Kept
      <4> SUFFICES ASSUME NEW p \in Wanted
                   PROVE  p \in Kept
        OBVIOUS
      <4>1. PICK k \in 1 .. d, q \in 1 .. r : p = <<durations[k], q>>
        BY <3>3
      <4>2. PICK i \in 1 .. t : <<durations[k], q>> = <<c[i].duration, c[i].replication>>
        BY <2>8
      <4> HIDE DEF Kept, Wanted
      <4> QED
        BY <3>2, <4>1, <4>2
    <3> HIDE DEF Kept, Wanted
    <3>6. Kept = Wanted
      BY <3>4, <3>5
    <3> QED
      BY <3>6 DEF Kept, Wanted
  <2>10. Len(collected) = Total
    BY DEF ConvergenceInv, CollectedInv
  <2> QED
    BY <2>1, <2>2, <2>3, <2>5, <2>9, <2>10 DEF Measured
<1> QED
  BY <1>1, ConvergenceInvariant, PTL
-----------------------------------------------------------------------------
\* The simulations of an experiment, one by one.

\* What holds in any simulation.
SoundInv ==
  /\ RouterInv /\ DropInv
  /\ records \in Seq(Records) /\ MatchInv
  /\ simulation_time \in Nat /\ HorizonInv /\ ChronologyInv /\ CutAtHorizon
  /\ WellFormed(records) /\ CountersAgree /\ StartInv /\ LedgerInv

\* A new system, that has not run.
Fresh ==
  /\ Init /\ records = <<>> /\ simulation_time \in Nat
  /\ loop \in {"starting", "reported", "assessed"}

\* It holds of a new system,
LEMMA FreshIsSound == Fresh => SoundInv
<1> SUFFICES ASSUME Fresh
             PROVE  SoundInv
  OBVIOUS
<1>1. /\ now = 0 /\ scheduler.queue = {} /\ PacketIds = {} /\ records = <<>>
      /\ loop # "done" /\ simulation_time \in Nat
  BY RouterAssumption DEF Fresh, Init, EmptyScheduler, PacketIds
<1>2. RouterInv
  BY TypeInit, FlagsInit, PlaceInit DEF Fresh, RouterInv
<1>3. DropInv
  BY <1>1 DEF DropInv, DropEvents, Pending
<1>4. records \in Seq(Records) /\ MatchInv
  BY <1>1 DEF MatchInv, Said, Indices, Told
<1>5. HorizonInv /\ ChronologyInv /\ CutAtHorizon
  BY <1>1 DEF HorizonInv, Arrivals, Pending, ChronologyInv, RecordsChronological, CutAtHorizon
<1>6. WellFormed(records) /\ CountersAgree
  BY <1>1, FormInit, CountersInit DEF Fresh
<1>7. StartInv
  BY DEF Fresh, Init, IdleServer, StartInv
<1>8. LedgerInv
  BY <1>4 DEF Fresh, MatchInv, LedgerInv, Ledger, Kinds
<1> QED
  BY <1>1, <1>2, <1>3, <1>4, <1>5, <1>6, <1>7, <1>8 DEF SoundInv

\* and of a simulation that goes on.
LEMMA SoundGoesOn == SoundInv /\ [SimNext]_simVars => SoundInv'
<1> SUFFICES ASSUME SoundInv, [SimNext]_simVars
             PROVE  SoundInv'
  OBVIOUS
<1>1. /\ RouterInv /\ TypeOK /\ FlagInv /\ PlaceInv /\ DropInv
      /\ records \in Seq(Records) /\ MatchInv
      /\ simulation_time \in Nat /\ HorizonInv /\ ChronologyInv /\ CutAtHorizon
      /\ WellFormed(records) /\ CountersAgree /\ StartInv /\ LedgerInv
  BY DEF SoundInv, RouterInv
<1>2. [Next]_vars
  BY StepsOfRouter
<1>3. TypeOK' /\ FlagInv' /\ PacketStep
  BY <1>1, <1>2, TypeNext, FlagsNext, StepsOfPackets
<1>4. PlaceInv'
  BY <1>1, <1>3, PlaceNext
<1>5. RouterInv'
  BY <1>3, <1>4 DEF RouterInv
<1>6. DropInv' /\ Tells
  BY <1>1, <1>5, DropNext, StepsTell
<1>7. (records \in Seq(Records))' /\ MatchInv'
  BY <1>1, <1>5, <1>6, RecordsType, MatchNext
<1>8. HorizonInv' /\ ChronologyInv' /\ CutAtHorizon'
  BY <1>1, <1>5, <1>6, HorizonNext, ChronologyNext, CutNext
<1>9. simulation_time' = simulation_time
  BY DEF SimNext, OnStart, RecordArrival, RecordServiceStart, RecordDeparture, RecordDrop,
         LeaveLoop, Running, Record, simVars
<1>10. WellFormed(records)'
  BY <1>1, <1>5, FormGoesOn
<1>11. CountersAgree' /\ StartInv' /\ LedgerInv'
  BY <1>1, <1>3, <1>7, CountersNext, StartNext, LedgerNext
<1> QED
  BY <1>1, <1>5, <1>6, <1>7, <1>8, <1>9, <1>10, <1>11 DEF SoundInv

\* The other steps make a new system, or leave the one of the end as it is.
LEMMA FreshBetween ==
  ASSUME ConvergenceInv, SoundInv, loop \in {"reported", "assessed"} => Fresh,
         NextSimulation \/ FinishExperiment \/ Assess
  PROVE  Fresh'
<1>1. ASSUME NewSystem
      PROVE  Init' /\ records' = <<>>
  BY <1>1 DEF NewSystem, Init
<1>2. CASE NextSimulation
  <2>1. simulation_time' = DurationOf(Len(collected) + 2) /\ loop' = "starting"
    BY <1>2 DEF NextSimulation
  <2>2. Len(collected) + 2 \in 1 .. Total
    <3>1. Len(collected) \in Nat /\ Len(collected) + 1 < Total
      BY <1>2 DEF ConvergenceInv, CollectedInv, NextSimulation
    <3>2. Total \in Nat
      BY DurationsAscend DEF ConvergenceInv
    <3> QED
      BY <3>1, <3>2
  <2>3. DurationOf(Len(collected) + 2) \in Nat
    BY <2>2, DurationsAscend DEF ConvergenceInv
  <2> QED
    BY <1>1, <1>2, <2>1, <2>3 DEF NextSimulation, Fresh
<1>3. CASE FinishExperiment
  BY <1>1, <1>3 DEF FinishExperiment, Fresh, SoundInv
<1>4. CASE Assess
  <2>1. /\ Fresh /\ vars' = vars /\ records' = records /\ simulation_time' = simulation_time
        /\ loop' = "assessed"
    BY <1>4 DEF Assess
  <2>2. Init'
    BY <2>1 DEF Fresh, Init, vars, queueVars
  <2> QED
    BY <2>1, <2>2 DEF Fresh
<1> QED
  BY <1>2, <1>3, <1>4

\* So it holds of each simulation of an experiment, at every moment.
LEMMA SoundInvariant == ConvergenceSpec => []SoundInv
<1> DEFINE Ended == loop \in {"reported", "assessed"} => Fresh
<1>1. ConvergenceInit /\ ConvergenceInv => Fresh
  <2> SUFFICES ASSUME ConvergenceInit, ConvergenceInv
               PROVE  Fresh
    OBVIOUS
  <2>1. simulation_time \in SimulationTimes
    BY DEF ConvergenceInit, SimInit
  <2> QED
    BY <2>1, SimulationAssumption DEF ConvergenceInit, SimInit, Fresh
<1>2. ConvergenceInv /\ SoundInv /\ Ended /\ [ConvergenceNext]_convergenceVars
        => Fresh' \/ (SoundInv' /\ Ended')
  <2> SUFFICES ASSUME ConvergenceInv, SoundInv, Ended, [ConvergenceNext]_convergenceVars
               PROVE  Fresh' \/ (SoundInv' /\ Ended')
    OBVIOUS
  <2>1. CASE SimulationStep
    <3>1. SimNext
      BY <2>1, StepsOfSimulation
    <3>2. loop' \notin {"reported", "assessed"}
      BY <2>1 DEF SimulationStep, OnStart, RecordArrival, RecordServiceStart, RecordDeparture,
                  LeaveLoop, Running, Record
    <3> QED
      BY <3>1, <3>2, SoundGoesOn
  <2>2. CASE UNCHANGED convergenceVars
    <3>1. UNCHANGED simVars
      BY <2>2 DEF convergenceVars
    <3>2. SoundInv'
      BY <3>1, SoundGoesOn
    <3>3. Fresh => Fresh'
      BY <3>1 DEF Fresh, Init, simVars, vars, queueVars
    <3>4. loop' = loop
      BY <3>1 DEF simVars
    <3> QED
      BY <3>2, <3>3, <3>4
  <2> QED
    BY <2>1, <2>2, FreshBetween DEF ConvergenceNext
<1>3. Fresh => Ended
  OBVIOUS
<1> HIDE DEF Ended
<1> QED
  BY <1>1, <1>2, <1>3, FreshIsSound, ConvergenceInvariant, PTL DEF ConvergenceSpec

\* So in each simulation of an experiment, not only in a first one, the records are
\* those of its own packets and in the order of time, no packet is lost, and what
\* is left at the horizon is a departure at most: nothing of the simulation before
\* is seen (convergence_experiment.py:165-169, mm1_validation.py:186-269).
THEOREM SimulationsAreSound ==
  ConvergenceSpec => [](/\ RecordsMatchPackets /\ RecordsChronological /\ CutAtHorizon
                        /\ PacketInOnePlace /\ NothingInThePast /\ NeverRuntimeError)
<1>1. SoundInv => /\ RecordsMatchPackets /\ RecordsChronological /\ CutAtHorizon
                  /\ PacketInOnePlace /\ NothingInThePast /\ NeverRuntimeError
  BY MatchSays DEF SoundInv, ChronologyInv, RouterInv, PlaceInv, FlagInv
<1> QED
  BY <1>1, SoundInvariant, PTL

\* And its statistics are exact: they never raise, the queue length is the real one,
\* the area is the waiting, the busy time is the service, the totals are the
\* counters, and the latencies are those of the packets.  What a convergence
\* experiment compares with the theory at any duration and in any replication is so
\* computed from what was simulated there (convergence_experiment.py:163-186,
\* system_statistics.py:85-258, packet_statistics.py:32-59).
THEOREM StatisticsAreExact ==
  ConvergenceSpec => [](/\ StatisticsComputable /\ QueueReconstructed /\ AreaIsTotalWaiting
                        /\ BusyTimeExact /\ TotalsAgree /\ LatenciesExact)
<1>1. SoundInv => /\ StatisticsComputable /\ QueueReconstructed /\ AreaIsTotalWaiting
                  /\ BusyTimeExact /\ TotalsAgree /\ LatenciesExact
  BY ComputableFollows, QueueFollows, AreaFollows, BusyFollows, TotalsFollow,
     LatenciesFollow DEF SoundInv
<1> QED
  BY <1>1, SoundInvariant, PTL
=============================================================================
