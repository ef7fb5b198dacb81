--------------------------- MODULE EventLoop_proofs ---------------------------
(***************************************************************************)
(* Proofs about EventLoop, for any handlers, caps, delays and number of    *)
(* events and runs: its type invariant, that a run takes its events in     *)
(* order and overtakes none, that none vanishes, that the hooks of a run   *)
(* belong together, and that a run gets as far as it is asked to.          *)
(***************************************************************************)
EXTENDS EventLoop, Scheduling_proofs, FiniteSetTheorems, SequenceTheorems

\* The event that Add makes.
LEMMA AddedEventType ==
  ASSUME NEW t \in Int
  PROVE  /\ Event(t, "PACKET_ARRIVAL", NoPacket) \in Events(Int, {})
         /\ Event(t, "PACKET_ARRIVAL", NoPacket).timestamp = t
  BY DEF Event, Events, EventType

\* A new loop has its types.
LEMMA TypeInit == Init => TypeOK
<1> SUFFICES ASSUME Init
             PROVE  TypeOK
  OBVIOUS
<1>1. IsScheduler(scheduler, Int, {})
  BY EmptySchedulerProperties DEF Init
<1>2. /\ now \in Int /\ handler \in Handlers
      /\ processed \in Nat /\ failed \in Nat /\ runs \in Nat
      /\ phase \in Phases
      /\ IsOptional(max_events, Nat) /\ IsOptional(max_time, Nat)
      /\ IsOptional(on_stop, Hooked) /\ IsOptional(outcome, Nat)
  BY DEF Init, Phases, IsOptional
<1>3. /\ dispatched \in Seq(Events(Int, {}))
      /\ hooks \in Seq([hook : {"on_start", "on_stop"}, of : Hooked])
      /\ setback \in 0 .. Len(dispatched) /\ late \subseteq Nat
  BY DEF Init
<1> QED
  BY <1>1, <1>2, <1>3 DEF TypeOK

\* Every step keeps the types.
LEMMA TypeNext == TypeOK /\ [Next]_vars => TypeOK'
<1> SUFFICES ASSUME TypeOK, [Next]_vars
             PROVE  TypeOK'
  OBVIOUS
<1> USE LoopAssumption
<1> DEFINE Hook == [hook : {"on_start", "on_stop"}, of : Hooked]
<1>0. /\ IsScheduler(scheduler, Int, {})
      /\ now \in Int /\ handler \in Handlers
      /\ processed \in Nat /\ failed \in Nat /\ runs \in Nat
      /\ phase \in Phases
      /\ IsOptional(max_events, Nat) /\ IsOptional(max_time, Nat)
      /\ IsOptional(on_stop, Hooked) /\ IsOptional(outcome, Nat)
      /\ dispatched \in Seq(Events(Int, {}))
      /\ hooks \in Seq(Hook)
      /\ setback \in 0 .. Len(dispatched) /\ late \subseteq Nat
      /\ scheduler.sequence_counter \in Nat
      /\ \A e \in scheduler.queue : e.sequence \in Nat
  BY DEF TypeOK, IsScheduler, Events
<1>1. ASSUME NEW d \in Delays, Add(d)
      PROVE  TypeOK'
  <2> DEFINE e == Event(now + d, "PACKET_ARRIVAL", NoPacket)
  <2>0. now + d \in Int
    <3>1. now \in Int
      BY DEF TypeOK
    <3> QED
      BY <3>1
  <2>1. e \in Events(Int, {})
    BY <2>0, AddedEventType
  <2>2. IsScheduler(scheduler', Int, {})
    <3> HIDE DEF e
    <3>1. IsScheduler(AddEvent(scheduler, e), Int, {})
      BY <1>0, <2>1, AddEventProperties
    <3> QED
      BY <1>1, <3>1 DEF Add, e
  <2>3. late' \subseteq Nat
    BY <1>0, <1>1 DEF Add
  <2> QED
    BY <1>0, <1>1, <2>2, <2>3 DEF Add, TypeOK, arguments
<1>2. ASSUME NEW h \in Handlers, SetHandler(h)
      PROVE  TypeOK'
  BY <1>0, <1>2 DEF SetHandler, TypeOK, arguments, history
<1>3. ASSUME NEW t \in Times, ResetClock(t)
      PROVE  TypeOK'
  <2>1. now' \in Int /\ late' \subseteq Nat
    BY <1>0, <1>3 DEF ResetClock
  <2>2. setback' \in 0 .. Len(dispatched) /\ dispatched' = dispatched
    BY <1>0, <1>3 DEF ResetClock
  <2> QED
    BY <1>0, <1>3, <2>1, <2>2 DEF ResetClock, TypeOK, arguments
<1>4. ASSUME NEW me \in Optional(EventCaps), NEW mt \in Optional(Times),
             RefuseRun(me, mt)
      PROVE  TypeOK'
  <2>1. IsOptional({}, Nat)
    BY DEF IsOptional
  <2> QED
    BY <1>0, <1>4, <2>1 DEF RefuseRun, TypeOK, arguments, history
<1>5. ASSUME NEW me \in Optional(EventCaps), NEW mt \in Optional(Times),
             StartRun(me, mt)
      PROVE  TypeOK'
  <2>1. IsOptional(max_events', Nat) /\ IsOptional(max_time', Nat)
    BY <1>5 DEF StartRun, Negative, Optional, IsOptional
  <2>2. IsOptional(on_stop', Hooked) /\ IsOptional(outcome', Nat)
    BY <1>5 DEF StartRun, IsOptional
  <2>3. hooks' \in Seq(Hook)
    <3>1. CASE handler \in Hooked
      <4>1. hooks' = <<[hook |-> "on_start", of |-> handler]>>
        BY <1>5, <3>1 DEF StartRun
      <4> QED
        BY <3>1, <4>1
    <3>2. CASE handler \notin Hooked
      BY <1>5, <3>2 DEF StartRun
    <3> QED
      BY <3>1, <3>2
  <2>4. /\ dispatched' \in Seq(Events(Int, {}))
        /\ setback' \in 0 .. Len(dispatched') /\ late' \subseteq Nat
    BY <1>0, <1>5 DEF StartRun
  <2>5. runs' \in Nat /\ phase' \in Phases
    BY <1>0, <1>5 DEF StartRun, Phases
  <2> QED
    BY <1>0, <1>5, <2>1, <2>2, <2>3, <2>4, <2>5 DEF StartRun, TypeOK
<1>6. ASSUME EnterLoop
      PROVE  TypeOK'
  BY <1>0, <1>6 DEF EnterLoop, TypeOK, Phases, arguments, history
<1>7. ASSUME NEW e \in scheduler.queue, Dispatch(e)
      PROVE  TypeOK'
  <2>1. e \in Events(Int, {})
    BY <1>0 DEF IsScheduler
  <2>2. e.timestamp \in Int
    BY <2>1 DEF Events
  <2>3. IsScheduler(scheduler', Int, {})
    BY <1>0, <1>7, RemoveEventProperties DEF Dispatch
  <2>4. /\ dispatched' \in Seq(Events(Int, {}))
        /\ setback' \in 0 .. Len(dispatched')
    BY <1>0, <1>7, <2>1 DEF Dispatch
  <2> QED
    BY <1>0, <1>7, <2>2, <2>3, <2>4 DEF Dispatch, TypeOK, Phases, arguments
<1>8. ASSUME NEW e \in scheduler.queue, DispatchPast(e)
      PROVE  TypeOK'
  <2>1. IsScheduler(scheduler', Int, {})
    BY <1>0, <1>8, RemoveEventProperties DEF DispatchPast
  <2> QED
    BY <1>0, <1>8, <2>1 DEF DispatchPast, TypeOK, Phases, arguments
<1>9. ASSUME Handled
      PROVE  TypeOK'
  BY <1>0, <1>9 DEF Handled, TypeOK, Phases, arguments, history
<1>10. ASSUME Raise
       PROVE  TypeOK'
  <2>1. failed' \in Nat
    BY <1>0, <1>10 DEF Raise
  <2> QED
    BY <1>0, <1>10, <2>1 DEF Raise, TypeOK, Phases, arguments
<1>11. ASSUME LeaveLoop
       PROVE  TypeOK'
  <2>1. hooks' \in Seq(Hook)
    <3>1. CASE on_stop = {}
      BY <1>0, <1>11, <3>1 DEF LeaveLoop
    <3>2. CASE on_stop # {}
      <4> DEFINE h == CHOOSE x \in on_stop : TRUE
      <4>1. h \in Hooked
        BY <1>0, <3>2 DEF IsOptional
      <4> HIDE DEF h
      <4>2. [hook |-> "on_stop", of |-> h] \in Hook
        BY <4>1
      <4>3. hooks' = Append(hooks, [hook |-> "on_stop", of |-> h])
        BY <1>11, <3>2 DEF LeaveLoop, h
      <4> QED
        BY <1>0, <4>2, <4>3
    <3> QED
      BY <3>1, <3>2
  <2> QED
    BY <1>0, <1>11, <2>1 DEF LeaveLoop, TypeOK, Phases, arguments
<1>12. ASSUME Return
       PROVE  TypeOK'
  <2>1. IsOptional(outcome', Nat)
    BY <1>0, <1>12 DEF Return, IsOptional
  <2> QED
    BY <1>0, <1>12, <2>1 DEF Return, TypeOK, Phases, arguments, history
<1>13. CASE UNCHANGED vars
  BY <1>0, <1>13 DEF vars, arguments, history, TypeOK
<1> QED
  BY <1>1, <1>2, <1>3, <1>4, <1>5, <1>6, <1>7, <1>8, <1>9, <1>10, <1>11, <1>12,
     <1>13 DEF Next

\* Whatever a handler does, the state of a loop has its types and no two
\* pending events share a stamp.
THEOREM TypeCorrect == Spec => []TypeOK
  BY TypeInit, TypeNext, PTL DEF Spec
-----------------------------------------------------------------------------
\* NothingOvertaken holds by itself: what is added in the past is late, what a
\* reset leaves behind is late, and the event that moves the clock is the first
\* of those that wait.
LEMMA OvertakenNext == TypeOK /\ NothingOvertaken /\ [Next]_vars => NothingOvertaken'
<1> SUFFICES ASSUME TypeOK, NothingOvertaken, [Next]_vars,
                    NEW f \in scheduler'.queue, f.timestamp < now'
             PROVE  f.sequence \in late'
  BY DEF NothingOvertaken
<1> USE LoopAssumption
<1>0. /\ IsScheduler(scheduler, Int, {})
      /\ now \in Int
      /\ \A e \in scheduler.queue : e.timestamp \in Int
      /\ \A e \in scheduler.queue : e.timestamp < now => e.sequence \in late
  BY DEF TypeOK, IsScheduler, Events, NothingOvertaken
<1>1. ASSUME NEW d \in Delays, Add(d)
      PROVE  f.sequence \in late'
  <2> DEFINE e == Event(now + d, "PACKET_ARRIVAL", NoPacket)
  <2>0. now + d \in Int
    <3>1. now \in Int
      BY DEF TypeOK
    <3> QED
      BY <3>1
  <2>1. e \in Events(Int, {}) /\ e.timestamp = now + d
    BY <2>0, AddedEventType
  <2>2. scheduler' = AddEvent(scheduler, e)
    BY <1>1 DEF Add
  <2> HIDE DEF e
  <2> DEFINE x == Stamp(scheduler, e)
  <2>3. /\ scheduler'.queue = scheduler.queue \cup {x}
        /\ x.timestamp = now + d
        /\ x.sequence = scheduler.sequence_counter
    BY <1>0, <2>1, <2>2, AddEventProperties, StampProperties
  <2> HIDE DEF x
  <2>4. /\ now' = now
        /\ late' = IF d < 0 THEN late \cup {scheduler.sequence_counter} ELSE late
    BY <1>1 DEF Add
  <2> QED
    BY <1>0, <2>3, <2>4
<1>2. ASSUME NEW t \in Times, ResetClock(t)
      PROVE  f.sequence \in late'
  BY <1>0, <1>2 DEF ResetClock
<1>3. ASSUME NEW e \in scheduler.queue, Dispatch(e)
      PROVE  f.sequence \in late'
  <2>1. /\ scheduler' = RemoveEvent(scheduler, e)
        /\ now' = e.timestamp /\ late' = late
        /\ \A g \in scheduler.queue \ {e} : Precedes(e, g)
    BY <1>3 DEF Dispatch, MayDispatch, IsNext
  <2>2. f \in scheduler.queue \ {e}
    BY <1>0, <2>1, RemoveEventProperties
  <2>3. e.timestamp <= f.timestamp
    BY <1>0, <2>1, <2>2 DEF Precedes
  <2> QED
    BY <1>0, <2>1, <2>2, <2>3
<1>4. ASSUME NEW e \in scheduler.queue, DispatchPast(e)
      PROVE  f.sequence \in late'
  <2>1. scheduler' = RemoveEvent(scheduler, e) /\ now' = now /\ late' = late
    BY <1>4 DEF DispatchPast
  <2>2. f \in scheduler.queue
    BY <1>0, <2>1, RemoveEventProperties
  <2> QED
    BY <1>0, <2>1, <2>2
<1>5. CASE \/ UNCHANGED vars
           \/ \E h \in Handlers : SetHandler(h)
           \/ \E me \in Optional(EventCaps), mt \in Optional(Times) :
                RefuseRun(me, mt) \/ StartRun(me, mt)
           \/ EnterLoop \/ Handled \/ Raise \/ LeaveLoop \/ Return
  <2>1. scheduler' = scheduler /\ now' = now /\ late' = late
    BY <1>5 DEF SetHandler, RefuseRun, StartRun, EnterLoop, Handled, Raise, LeaveLoop,
                Return, vars, history
  <2> QED
    BY <1>0, <2>1
<1> QED
  BY <1>1, <1>2, <1>3, <1>4, <1>5 DEF Next

\* An event that waits is in the past only if it was added there or a reset of
\* the clock has left it behind: the loop overtakes none.
THEOREM LoopOvertakesNothing == Spec => []NothingOvertaken
<1>1. Init => NothingOvertaken
  BY DEF Init, NothingOvertaken, EmptyScheduler
<1> QED
  BY <1>1, OvertakenNext, TypeCorrect, PTL DEF Spec

-----------------------------------------------------------------------------
\* What a run has taken since the clock was last set back is not later than the
\* clock, and comes before every pending event that the clock has not passed: so
\* the next one it takes comes after them all.  An event in the past may precede
\* them, but run refuses it.
TakenBefore ==
  phase # "idle" =>
    \A i \in DOMAIN dispatched : setback < i =>
      /\ dispatched[i].timestamp <= now
      /\ dispatched[i].sequence < scheduler.sequence_counter
      /\ \A e \in scheduler.queue : e.timestamp >= now => Precedes(dispatched[i], e)

OrderInv == ChronologicalDispatch /\ TakenBefore

\* No step takes an event out of order, or forgets what was taken before.
LEMMA OrderNext == TypeOK /\ OrderInv /\ [Next]_vars => OrderInv'
<1> SUFFICES ASSUME TypeOK, OrderInv, [Next]_vars
             PROVE  OrderInv'
  OBVIOUS
<1> USE LoopAssumption DEF ChronologicalDispatch, TakenBefore, OrderInv
<1>0. /\ IsScheduler(scheduler, Int, {})
      /\ now \in Int
      /\ dispatched \in Seq(Events(Int, {})) /\ setback \in 0 .. Len(dispatched)
      /\ scheduler.sequence_counter \in Nat
      /\ \A e \in scheduler.queue :
           e \in Events(Int, {}) /\ e.sequence < scheduler.sequence_counter
  BY DEF TypeOK, IsScheduler, Stamped
<1>1. \A e \in Events(Int, {}) : e.timestamp \in Int /\ e.sequence \in Nat
  BY DEF Events
<1>2. \A i \in DOMAIN dispatched : dispatched[i] \in Events(Int, {})
  BY <1>0
<1>3. ASSUME NEW d \in Delays, Add(d)
      PROVE  OrderInv'
  <2> DEFINE e == Event(now + d, "PACKET_ARRIVAL", NoPacket)
  <2>0. now + d \in Int
    <3>1. now \in Int
      BY DEF TypeOK
    <3> QED
      BY <3>1
  <2>1. e \in Events(Int, {}) /\ e.timestamp = now + d
    BY <2>0, AddedEventType
  <2>2. scheduler' = AddEvent(scheduler, e)
    BY <1>3 DEF Add
  <2> HIDE DEF e
  <2> DEFINE x == Stamp(scheduler, e)
  <2>3. /\ scheduler'.queue = scheduler.queue \cup {x}
        /\ scheduler'.sequence_counter = scheduler.sequence_counter + 1
        /\ x.timestamp = now + d
        /\ x.sequence = scheduler.sequence_counter
    BY <1>0, <2>1, <2>2, AddEventProperties, StampProperties
  <2> HIDE DEF x
  <2>4. /\ now' = now /\ dispatched' = dispatched /\ setback' = setback
        /\ phase' = phase
    BY <1>3 DEF Add
  <2>5. ASSUME phase # "idle", NEW i \in DOMAIN dispatched, setback < i
        PROVE  /\ dispatched[i].timestamp <= now
               /\ dispatched[i].sequence < scheduler.sequence_counter + 1
               /\ \A f \in scheduler'.queue :
                    f.timestamp >= now => Precedes(dispatched[i], f)
    <3>1. /\ dispatched[i].timestamp \in Int /\ dispatched[i].sequence \in Nat
      BY <1>1, <1>2
    <3>2. /\ dispatched[i].timestamp <= now
          /\ dispatched[i].sequence < scheduler.sequence_counter
      BY <2>5
    <3>3. x.timestamp >= now => Precedes(dispatched[i], x)
      BY <1>0, <2>3, <3>1, <3>2 DEF Precedes
    <3> QED
      BY <1>0, <2>3, <2>5, <3>1, <3>2, <3>3
  <2> QED
    BY <2>3, <2>4, <2>5
<1>4. ASSUME NEW e \in scheduler.queue, Dispatch(e)
      PROVE  OrderInv'
  <2>1. /\ phase # "idle" /\ e.timestamp >= now /\ now' = e.timestamp
        /\ dispatched' = Append(dispatched, e) /\ setback' = setback
        /\ scheduler' = RemoveEvent(scheduler, e)
        /\ \A f \in scheduler.queue \ {e} : Precedes(e, f)
    BY <1>4 DEF Dispatch, MayDispatch, IsNext
  <2>2. /\ scheduler'.queue = scheduler.queue \ {e}
        /\ scheduler'.sequence_counter = scheduler.sequence_counter
    BY <1>0, <2>1, RemoveEventProperties
  <2>3. /\ DOMAIN dispatched' = 1 .. Len(dispatched) + 1
        /\ DOMAIN dispatched = 1 .. Len(dispatched)
        /\ Len(dispatched) \in Nat
        /\ \A i \in DOMAIN dispatched : dispatched'[i] = dispatched[i]
        /\ dispatched'[Len(dispatched) + 1] = e
    BY <1>0, <2>1
  <2>4. \A i \in DOMAIN dispatched : setback < i => Precedes(dispatched[i], e)
    BY <2>1
  <2>5. ChronologicalDispatch'
    BY <2>1, <2>3, <2>4
  <2>6. ASSUME NEW i \in DOMAIN dispatched', setback < i
        PROVE  /\ dispatched'[i].timestamp <= now'
               /\ dispatched'[i].sequence < scheduler'.sequence_counter
               /\ \A f \in scheduler'.queue :
                    f.timestamp >= now' => Precedes(dispatched'[i], f)
    <3>1. e.timestamp \in Int
      BY <1>0, <1>1
    <3>2. CASE i \in DOMAIN dispatched
      <4>1. /\ dispatched[i].timestamp \in Int
            /\ dispatched[i].timestamp <= now
            /\ dispatched[i].sequence < scheduler.sequence_counter
            /\ \A f \in scheduler.queue :
                 f.timestamp >= now => Precedes(dispatched[i], f)
        BY <1>1, <1>2, <2>1, <2>6, <3>2
      <4>2. \A f \in scheduler'.queue : f.timestamp >= now' => f.timestamp >= now
        BY <1>0, <1>1, <2>1, <2>2, <3>1
      <4> QED
        BY <1>0, <2>1, <2>2, <2>3, <3>1, <3>2, <4>1, <4>2
    <3>3. CASE i = Len(dispatched) + 1
      BY <1>0, <2>1, <2>2, <2>3, <3>1, <3>3
    <3> QED
      BY <2>3, <3>2, <3>3
  <2> QED
    BY <2>1, <2>5, <2>6
<1>5. ASSUME NEW me \in Optional(EventCaps), NEW mt \in Optional(Times),
             StartRun(me, mt)
      PROVE  OrderInv'
  BY <1>5 DEF StartRun
<1>6. CASE \/ UNCHANGED vars
           \/ \E h \in Handlers : SetHandler(h)
           \/ \E me \in Optional(EventCaps), mt \in Optional(Times) : RefuseRun(me, mt)
           \/ EnterLoop \/ Handled \/ Raise \/ LeaveLoop \/ Return
           \/ \E e \in scheduler.queue : DispatchPast(e)
  <2>1. /\ dispatched' = dispatched /\ setback' = setback
        /\ \/ phase' = "idle"
           \/ phase # "idle" /\ now' = now /\ scheduler' = scheduler
    BY <1>6 DEF SetHandler, RefuseRun, EnterLoop, Handled, Raise, LeaveLoop,
                Return, DispatchPast, vars, history
  <2> QED
    BY <2>1
<1>7. ASSUME NEW t \in Times, ResetClock(t)
      PROVE  OrderInv'
  <2>1. /\ scheduler' = scheduler /\ dispatched' = dispatched /\ phase' = phase
        /\ now' = t /\ setback' = IF t < now THEN Len(dispatched) ELSE setback
    BY <1>7 DEF ResetClock
  <2>2. DOMAIN dispatched = 1 .. Len(dispatched) /\ Len(dispatched) \in Nat
    BY <1>0
  <2>3. CASE t < now
    BY <2>1, <2>2, <2>3
  <2>4. CASE ~(t < now)
    <3>0. t \in Int /\ now \in Int
      BY <1>0
    <3>1. setback' = setback /\ t >= now /\ t \in Int
      BY <2>1, <2>4, <3>0
    <3>2. \A e \in scheduler.queue : e.timestamp >= t => e.timestamp >= now
      BY <1>0, <1>1, <3>1
    <3>3. \A i \in DOMAIN dispatched : dispatched[i].timestamp <= now => dispatched[i].timestamp <= t
      BY <1>0, <1>1, <1>2, <3>1
    <3> QED
      BY <2>1, <3>1, <3>2, <3>3
  <2> QED
    BY <2>3, <2>4
<1> QED
  BY <1>3, <1>4, <1>5, <1>6, <1>7 DEF Next

\* A run takes its events in the order of their timestamps, those of one time
\* in the order in which they were added.
THEOREM EventsInOrder == Spec => []ChronologicalDispatch
<1>1. Init => OrderInv
  BY DEF Init, OrderInv, ChronologicalDispatch, TakenBefore
<1> QED
  BY <1>1, OrderNext, TypeCorrect, PTL DEF Spec, OrderInv
-----------------------------------------------------------------------------
\* While run is active it has returned nothing and has called on_start of the
\* handler whose on_stop it keeps, or no hook if there is none to keep.
HooksBegun ==
  phase \in {"starting", "looping", "handling"} =>
    /\ outcome = {}
    /\ \/ on_stop = {} /\ hooks = <<>>
       \/ \E h \in Hooked : /\ on_stop = {h}
                            /\ hooks = <<[hook |-> "on_start", of |-> h]>>

HookInv ==
  /\ HooksBegun
  /\ phase = "stopping" => outcome = {}
  /\ HooksPaired

\* A sequence of one element and what is appended to it.
LEMMA AppendToOne ==
  ASSUME NEW S, NEW a \in S, NEW b \in S
  PROVE  Append(<<a>>, b) = <<a, b>>
<1> DEFINE t == Append(<<a>>, b)
           u == <<a, b>>
<1>1. <<a>> \in Seq(S) /\ Len(<<a>>) = 1 /\ <<a>>[1] = a
  OBVIOUS
<1>2. t \in Seq(S) /\ Len(t) = 2 /\ t[1] = a /\ t[2] = b
  BY <1>1
<1>3. u \in Seq(S) /\ Len(u) = 2 /\ u[1] = a /\ u[2] = b
  OBVIOUS
<1> HIDE DEF t, u
<1>4. t = u
  BY <1>2, <1>3, SeqEqual
<1> QED
  BY <1>4 DEF t, u

\* A hook is called once, and on_stop for the handler of on_start.
LEMMA HookNext == HookInv /\ [Next]_vars => HookInv'
<1> SUFFICES ASSUME HookInv, [Next]_vars
             PROVE  HookInv'
  OBVIOUS
<1> USE DEF HookInv, HooksBegun, HooksPaired
<1>1. CASE \/ UNCHANGED vars
           \/ \E d \in Delays : Add(d)
           \/ \E h \in Handlers : SetHandler(h)
           \/ \E t \in Times : ResetClock(t)
  BY <1>1 DEF vars, arguments, history, Add, SetHandler, ResetClock
<1>2. ASSUME NEW me, NEW mt, RefuseRun(me, mt)
      PROVE  HookInv'
  BY <1>2 DEF RefuseRun
<1>3. ASSUME NEW me, NEW mt, StartRun(me, mt)
      PROVE  HookInv'
  <2>1. phase' = "starting" /\ outcome' = {}
    BY <1>3 DEF StartRun
  <2>2. \/ on_stop' = {} /\ hooks' = <<>>
        \/ \E h \in Hooked : /\ on_stop' = {h}
                             /\ hooks' = <<[hook |-> "on_start", of |-> h]>>
    <3>1. CASE handler \in Hooked
      <4>1. /\ on_stop' = {handler}
            /\ hooks' = <<[hook |-> "on_start", of |-> handler]>>
        BY <1>3, <3>1 DEF StartRun
      <4> QED
        BY <3>1, <4>1
    <3>2. CASE handler \notin Hooked
      BY <1>3, <3>2 DEF StartRun
    <3> QED
      BY <3>1, <3>2
  <2> QED
    BY <2>1, <2>2
<1>4. CASE EnterLoop \/ Handled \/ \E e \in scheduler.queue : Dispatch(e)
  BY <1>4 DEF EnterLoop, Handled, Dispatch, arguments, history
<1>5. CASE Raise \/ \E e \in scheduler.queue : DispatchPast(e)
  BY <1>5 DEF Raise, DispatchPast
<1>6. CASE LeaveLoop
  <2>1. /\ phase = "looping" /\ phase' = "stopping"
        /\ outcome' = outcome /\ outcome = {}
    BY <1>6 DEF LeaveLoop
  <2>2. CASE on_stop = {}
    <3>1. hooks = <<>> /\ hooks' = hooks
      BY <1>6, <2>1, <2>2 DEF LeaveLoop
    <3> QED
      BY <2>1, <3>1
  <2>3. ASSUME NEW h \in Hooked, on_stop = {h},
               hooks = <<[hook |-> "on_start", of |-> h]>>
        PROVE  HookInv'
    <3> DEFINE start == [hook |-> "on_start", of |-> h]
               stop == [hook |-> "on_stop", of |-> h]
    <3>1. (CHOOSE x \in on_stop : TRUE) = h
      BY <2>3
    <3>2. hooks' = Append(hooks, stop)
      BY <1>6, <2>3, <3>1 DEF LeaveLoop
    <3>3. hooks' = Append(<<start>>, stop)
      BY <2>3, <3>2
    <3>4. hooks' = <<start, stop>>
      <4>1. start \in {start, stop} /\ stop \in {start, stop}
        OBVIOUS
      <4> HIDE DEF start, stop
      <4> QED
        BY <3>3, <4>1, AppendToOne
    <3> QED
      BY <2>1, <3>4 DEF start, stop
  <2> QED
    BY <2>1, <2>2, <2>3
<1>7. CASE Return
  BY <1>7 DEF Return, history
<1> QED
  BY <1>1, <1>2, <1>3, <1>4, <1>5, <1>6, <1>7 DEF Next

LEMMA HookInvariant == Spec => []HookInv
<1>1. Init => HookInv
  BY DEF Init, HookInv, HooksBegun, HooksPaired
<1> QED
  BY <1>1, HookNext, PTL DEF Spec

\* A run that returns has called on_stop of the handler whose on_start it had
\* called, even if the loop's handler was replaced meanwhile.
THEOREM HooksBelongTogether == Spec => []HooksPaired
  BY HookInvariant, PTL DEF HookInv

-----------------------------------------------------------------------------
CountInv == IsFiniteSet(scheduler.queue) /\ EveryEventAccountedFor

\* Only Handled counts, and no run has returned anything while it is active.
LEMMA ReturnedCount ==
  ASSUME TypeOK, CountInv, HookInv, [Next]_vars
  PROVE  \A n \in outcome' : n = processed'
<1>0. \A n \in outcome : n = processed
  BY DEF CountInv, EveryEventAccountedFor
<1>1. CASE Handled
  <2>1. outcome = {} /\ outcome' = outcome
    BY <1>1 DEF Handled, HookInv, HooksBegun
  <2> QED
    BY <2>1
<1>2. CASE Return
  BY <1>2 DEF Return
<1>3. \/ Handled \/ Return
      \/ processed' = processed /\ (outcome' = outcome \/ outcome' = {})
  BY DEF Next, Add, SetHandler, ResetClock, RefuseRun, StartRun, EnterLoop, Dispatch,
         DispatchPast, Raise, LeaveLoop, vars
<1> QED
  BY <1>0, <1>1, <1>2, <1>3

\* An event changes its place and is in no second one.
LEMMA CountNext == TypeOK /\ HookInv /\ CountInv /\ [Next]_vars => CountInv'
<1> SUFFICES ASSUME TypeOK, HookInv, CountInv, [Next]_vars
             PROVE  CountInv'
  OBVIOUS
<1>00. \A k \in outcome' : k = processed'
  BY ReturnedCount
<1> USE LoopAssumption
<1> DEFINE n == Cardinality(scheduler.queue)
<1>0. /\ IsScheduler(scheduler, Int, {})
      /\ scheduler.sequence_counter \in Nat
      /\ now \in Int /\ processed \in Nat /\ failed \in Nat
      /\ IsFiniteSet(scheduler.queue) /\ n \in Nat
      /\ scheduler.sequence_counter =
           n + processed + failed + (IF phase = "handling" THEN 1 ELSE 0)
  BY FS_CardinalityType DEF TypeOK, IsScheduler, CountInv, EveryEventAccountedFor
<1>1. ASSUME NEW d \in Delays, Add(d)
      PROVE  CountInv'
  <2> DEFINE e == Event(now + d, "PACKET_ARRIVAL", NoPacket)
  <2>0. now + d \in Int
    <3>1. now \in Int
      BY DEF TypeOK
    <3> QED
      BY <3>1
  <2>1. e \in Events(Int, {})
    BY <2>0, AddedEventType
  <2>2. scheduler' = AddEvent(scheduler, e)
    BY <1>1 DEF Add
  <2> HIDE DEF e
  <2> DEFINE x == Stamp(scheduler, e)
  <2>3. /\ scheduler'.queue = scheduler.queue \cup {x}
        /\ scheduler'.sequence_counter = scheduler.sequence_counter + 1
        /\ x \notin scheduler.queue
    BY <1>0, <2>1, <2>2, AddEventProperties, StampProperties
  <2> HIDE DEF x
  <2>4. /\ IsFiniteSet(scheduler'.queue)
        /\ Cardinality(scheduler'.queue) = n + 1
    BY <1>0, <2>3, FS_AddElement
  <2>5. processed' = processed /\ failed' = failed /\ phase' = phase
    BY <1>1 DEF Add, history
  <2> HIDE DEF n
  <2> QED
    BY <1>0, <2>3, <2>4, <2>5, <1>00 DEF CountInv, EveryEventAccountedFor
<1>2. ASSUME NEW e \in scheduler.queue, Dispatch(e) \/ DispatchPast(e)
      PROVE  CountInv'
  <2>1. scheduler' = RemoveEvent(scheduler, e) /\ processed' = processed
    BY <1>2 DEF Dispatch, DispatchPast
  <2>2. /\ IsFiniteSet(scheduler'.queue)
        /\ Cardinality(scheduler'.queue) = n - 1
        /\ scheduler'.sequence_counter = scheduler.sequence_counter
    <3>1. /\ scheduler'.queue = scheduler.queue \ {e}
          /\ scheduler'.sequence_counter = scheduler.sequence_counter
      BY <1>0, <2>1, RemoveEventProperties
    <3> QED
      BY <1>0, <3>1, FS_RemoveElement
  <2>3. /\ phase = "looping"
        /\ \/ phase' = "handling" /\ failed' = failed
           \/ phase' = "idle" /\ failed' = failed + 1
    BY <1>2 DEF Dispatch, DispatchPast
  <2> HIDE DEF n
  <2> QED
    BY <1>0, <2>1, <2>2, <2>3, <1>00 DEF CountInv, EveryEventAccountedFor
<1>3. CASE Handled \/ Raise
  <2>1. /\ scheduler' = scheduler /\ phase' # "handling"
        /\ \/ phase = "handling" /\ processed' = processed + 1 /\ failed' = failed
           \/ phase = "handling" /\ processed' = processed /\ failed' = failed + 1
           \/ phase # "handling" /\ processed' = processed /\ failed' = failed
    BY <1>3 DEF Handled, Raise, history
  <2>2. scheduler.sequence_counter = n + processed' + failed'
    <3> HIDE DEF n
    <3> QED
      BY <1>0, <2>1
  <2> QED
    BY <1>0, <2>1, <2>2, <1>00 DEF CountInv, EveryEventAccountedFor
<1>4. CASE \/ UNCHANGED vars
           \/ \E h \in Handlers : SetHandler(h)
           \/ \E t \in Times : ResetClock(t)
           \/ \E me \in Optional(EventCaps), mt \in Optional(Times) :
                RefuseRun(me, mt) \/ StartRun(me, mt)
           \/ EnterLoop \/ LeaveLoop \/ Return
  <2>1. /\ scheduler' = scheduler /\ processed' = processed /\ failed' = failed
        /\ phase' = "handling" <=> phase = "handling"
    BY <1>4 DEF vars, history, SetHandler, ResetClock, RefuseRun, StartRun, EnterLoop,
                LeaveLoop, Return
  <2> QED
    BY <1>0, <2>1, <1>00 DEF CountInv, EveryEventAccountedFor
<1> QED
  BY <1>1, <1>2, <1>3, <1>4 DEF Next

\* Every event ever added is pending, in hand, processed, or was lost to an
\* exception, over any number of runs.
THEOREM NoEventVanishes == Spec => []EveryEventAccountedFor
<1>1. Init => CountInv
  BY FS_EmptySet DEF Init, CountInv, EveryEventAccountedFor, EmptyScheduler
<1> QED
  BY <1>1, CountNext, HookInvariant, TypeCorrect, PTL DEF Spec, CountInv
-----------------------------------------------------------------------------
\* When the loop ends without reaching max_events, no event up to max_time is
\* left: if the first of the pending events is later than that, all are.
THEOREM NothingLeftBeforeHorizon == Spec => HorizonReached
<1>1. ASSUME TypeOK, CountInv, [Next]_vars
      PROVE  [phase = "looping" /\ phase' = "stopping" =>
                \/ \E cap \in max_events : processed >= cap
                \/ \A e \in scheduler.queue : \E cap \in max_time : e.timestamp > cap]_vars
  <2> SUFFICES ASSUME Next, phase = "looping", phase' = "stopping",
                      \A cap \in max_events : ~(processed >= cap),
                      NEW f \in scheduler.queue
               PROVE  \E cap \in max_time : f.timestamp > cap
    BY <1>1
  <2>0. /\ IsScheduler(scheduler, Int, {}) /\ IsFiniteSet(scheduler.queue)
        /\ processed \in Nat
        /\ max_events \subseteq Nat /\ max_time \subseteq Nat
        /\ \A e \in scheduler.queue : e.timestamp \in Int
    BY <1>1 DEF TypeOK, CountInv, IsScheduler, Events, IsOptional
  <2>1. LeaveLoop
    BY DEF Next, CallerRuns, Add, SetHandler, ResetClock, RefuseRun, StartRun, EnterLoop,
           Dispatch, DispatchPast, Handled, Raise, Return
  <2>2. PICK e \in scheduler.queue : IsNext(scheduler, e)
    BY <2>0, FirstExists
  <2>3. \A cap \in max_events : processed < cap
    BY <2>0
  <2>4. ~MayDispatch(e)
    BY <2>1 DEF LeaveLoop
  <2>5. PICK cap \in max_time : e.timestamp > cap
    <3>1. \E cap \in max_time : ~(e.timestamp <= cap)
      BY <2>2, <2>3, <2>4, Zenon DEF MayDispatch
    <3>2. e.timestamp \in Int /\ \A cap \in max_time : cap \in Int
      <4>1. e.timestamp \in Int
        BY <2>0
      <4>2. max_time \subseteq Nat
        BY <2>0
      <4> QED
        BY <4>1, <4>2
    <3> QED
      BY <3>1, <3>2
  <2>6. e.timestamp <= f.timestamp
    BY <2>0, <2>2 DEF IsNext, Precedes
  <2> QED
    BY <2>0, <2>5, <2>6
<1>2. Init => CountInv
  BY FS_EmptySet DEF Init, CountInv, EveryEventAccountedFor, EmptyScheduler
<1> QED
  BY <1>1, <1>2, CountNext, HookInvariant, TypeCorrect, PTL DEF Spec, HorizonReached
=============================================================================
