------------------------------ MODULE EventLoop ------------------------------
(***************************************************************************)
(* src/simulation/engine.py and clock.py: EventLoop.run drives a scheduler *)
(* and a clock and calls a handler once per event.  The handler is any     *)
(* code: while one of its methods runs it may add events, as follow-ups    *)
(* that the loop adds one by one or directly, it may replace the loop's    *)
(* handler, it may reset the loop's clock, and it may raise.  Several runs *)
(* may follow one another on one loop.  A call of run from inside a        *)
(* handler is not modelled.                                                *)
(***************************************************************************)
EXTENDS Scheduling, Sequences, FiniteSets

CONSTANTS
  Handlers,      \* handler objects
  Hooked,        \* those that have on_start and on_stop (found by getattr)
  Delays,        \* an event is added at now + d; a negative d is in the past
  EventCaps,     \* numbers given for max_events
  Times,         \* numbers given for max_time and to clock.reset
  MaxSequence,   \* bound: events ever added
  MaxRuns        \* bound: calls of run

ASSUME LoopAssumption ==
  /\ Hooked \subseteq Handlers
  /\ Delays \subseteq Int
  /\ EventCaps \subseteq Int /\ Times \subseteq Int
  /\ MaxSequence \in Nat /\ MaxRuns \in Nat

VARIABLES
  scheduler,   \* _scheduler
  now,         \* _clock.current_time
  handler,     \* _handler
  processed,   \* _processed
  phase,       \* where run is: "idle" outside it, "starting" and "stopping" in
               \* the hooks, "looping" at the while, "handling" in handle
  max_events, max_time,   \* optional arguments of the current run
  on_stop,     \* optional: whose on_stop the run fetched when it began
  outcome,     \* optional: what the last run returned; {} if it raised
  runs,        \* calls of run so far (for its bound)
  dispatched,  \* history: events taken by the current or last run, in order
  setback,     \* history: how many of these before the clock was last set back
  late,        \* history: stamps of events that were added behind the clock, or
               \* that a reset has left behind it
  hooks,       \* history: hooks called by the current or last run
  failed       \* history: number of events whose processing raised

arguments == <<max_events, max_time, on_stop>>
history == <<dispatched, setback, late, hooks, failed>>
vars == <<scheduler, now, handler, processed, phase, arguments, outcome, runs,
          history>>

Init ==
  /\ scheduler = EmptyScheduler
  /\ now = 0
  /\ handler \in Handlers
  /\ processed = 0
  /\ phase = "idle"
  /\ max_events = {} /\ max_time = {} /\ on_stop = {}
  /\ outcome = {}
  /\ runs = 0
  /\ dispatched = <<>> /\ setback = 0 /\ late = {} /\ hooks = <<>> /\ failed = 0

-----------------------------------------------------------------------------
\* Definitions named Faulty... are variants of the definition that follows them
\* with a mistake a change to the code could make; no specification uses them.

\* Code outside the loop: the program between two runs, and the handler's
\* methods and hooks.

CallerRuns == phase # "looping"

\* Faulty: the event is pushed without a stamp.
FaultyAdd(d) ==
  /\ CallerRuns
  /\ scheduler.sequence_counter < MaxSequence
  /\ scheduler' = [queue |-> scheduler.queue \cup
                                {Event(now + d, "PACKET_ARRIVAL", NoPacket)},
                   sequence_counter |-> scheduler.sequence_counter + 1]
  /\ UNCHANGED <<now, handler, processed, phase, arguments, outcome, runs, history>>

\* loop.add_event, scheduler.schedule, or the next follow-up of handle.
Add(d) ==
  /\ CallerRuns
  /\ scheduler.sequence_counter < MaxSequence
  /\ scheduler' = AddEvent(scheduler, Event(now + d, "PACKET_ARRIVAL", NoPacket))
  /\ late' = IF d < 0 THEN late \cup {scheduler.sequence_counter} ELSE late
  /\ UNCHANGED <<now, handler, processed, phase, arguments, outcome, runs,
                 dispatched, setback, hooks, failed>>

\* The setter of the property handler.
SetHandler(h) ==
  /\ CallerRuns
  /\ handler' = h
  /\ UNCHANGED <<scheduler, now, processed, phase, arguments, outcome, runs, history>>

\* clock.reset, which any code reaches as loop.clock; a negative time is refused.
ResetClock(t) ==
  /\ CallerRuns
  /\ t >= 0
  /\ now' = t
  /\ setback' = IF t < now THEN Len(dispatched) ELSE setback
  /\ late' = late \cup {e.sequence : e \in {f \in scheduler.queue : f.timestamp < t}}
  /\ UNCHANGED <<scheduler, handler, processed, phase, arguments, outcome, runs,
                 dispatched, hooks, failed>>

-----------------------------------------------------------------------------
\* EventLoop.run.

Negative(cap) == \E c \in cap : c < 0

\* run with a negative cap raises before it does anything.
RefuseRun(me, mt) ==
  /\ phase = "idle"
  /\ Negative(me) \/ Negative(mt)
  /\ outcome' = {}
  /\ UNCHANGED <<scheduler, now, handler, processed, phase, arguments, runs, history>>

\* Both hooks are fetched from the handler of this moment; on_start is called.
StartRun(me, mt) ==
  /\ phase = "idle"
  /\ ~Negative(me) /\ ~Negative(mt)
  /\ runs < MaxRuns
  /\ runs' = runs + 1
  /\ phase' = "starting"
  /\ max_events' = me /\ max_time' = mt
  /\ on_stop' = {handler} \cap Hooked
  /\ outcome' = {}
  /\ hooks' = IF handler \in Hooked THEN <<[hook |-> "on_start", of |-> handler]>> ELSE <<>>
  /\ dispatched' = <<>> /\ setback' = 0
  /\ UNCHANGED <<scheduler, now, handler, processed, late, failed>>

EnterLoop ==
  /\ phase = "starting"
  /\ phase' = "looping"
  /\ UNCHANGED <<scheduler, now, handler, processed, arguments, outcome, runs, history>>

\* Faulty: events are compared by their stamps before their times.
StampBeforeTime(e) ==
  /\ e \in scheduler.queue
  /\ \A f \in scheduler.queue : e.sequence <= f.sequence
  /\ \A cap \in max_events : processed < cap
  /\ \A cap \in max_time : e.timestamp <= cap

\* Faulty: among events of one time any may come first.
UnorderedTies(e) ==
  /\ e \in scheduler.queue
  /\ \A f \in scheduler.queue : e.timestamp <= f.timestamp
  /\ \A cap \in max_events : processed < cap
  /\ \A cap \in max_time : e.timestamp <= cap

\* Faulty: an event at max_time itself is left.
ExclusiveHorizon(e) ==
  /\ IsNext(scheduler, e)
  /\ \A cap \in max_events : processed < cap
  /\ \A cap \in max_time : e.timestamp < cap

\* The checks at the top of the loop: go on with the next event e ...
MayDispatch(e) ==
  /\ IsNext(scheduler, e)
  /\ \A cap \in max_events : processed < cap
  /\ \A cap \in max_time : e.timestamp <= cap

\* ... take it, advance the clock to it and call handle ...
Dispatch(e) ==
  /\ phase = "looping"
  /\ MayDispatch(e)
  /\ e.timestamp >= now
  /\ scheduler' = RemoveEvent(scheduler, e)
  /\ now' = e.timestamp
  /\ dispatched' = Append(dispatched, e)
  /\ phase' = "handling"
  /\ UNCHANGED <<handler, processed, arguments, outcome, runs, setback, late, hooks, failed>>

\* ... but advance_to raises if e is in the past, after e was taken.
DispatchPast(e) ==
  /\ phase = "looping"
  /\ MayDispatch(e)
  /\ e.timestamp < now
  /\ scheduler' = RemoveEvent(scheduler, e)
  /\ failed' = failed + 1
  /\ phase' = "idle"
  /\ UNCHANGED <<now, handler, processed, arguments, outcome, runs,
                 dispatched, setback, late, hooks>>

\* handle has returned and its follow-ups are exhausted.
Handled ==
  /\ phase = "handling"
  /\ processed' = processed + 1
  /\ phase' = "looping"
  /\ UNCHANGED <<scheduler, now, handler, arguments, outcome, runs, history>>

\* Faulty: the event is counted before it is handled.
FaultyRaise ==
  /\ phase \in {"starting", "handling", "stopping"}
  /\ failed' = IF phase = "handling" THEN failed + 1 ELSE failed
  /\ processed' = IF phase = "handling" THEN processed + 1 ELSE processed
  /\ phase' = "idle"
  /\ UNCHANGED <<scheduler, now, handler, arguments, outcome, runs,
                 dispatched, setback, late, hooks>>

\* A hook, handle or its iterator raises: the exception leaves run, nothing
\* is undone, on_stop is not called, and the event in hand is not counted.
Raise ==
  /\ phase \in {"starting", "handling", "stopping"}
  /\ failed' = IF phase = "handling" THEN failed + 1 ELSE failed
  /\ phase' = "idle"
  /\ UNCHANGED <<scheduler, now, handler, processed, arguments, outcome, runs,
                 dispatched, setback, late, hooks>>

\* Faulty: on_stop is looked up when the loop has ended.
LateHookLookup ==
  /\ phase = "looping"
  /\ ~\E e \in scheduler.queue : MayDispatch(e)
  /\ phase' = "stopping"
  /\ hooks' = IF handler \in Hooked
              THEN Append(hooks, [hook |-> "on_stop", of |-> handler]) ELSE hooks
  /\ UNCHANGED <<scheduler, now, handler, processed, arguments, outcome, runs,
                 dispatched, setback, late, failed>>

\* Faulty: only an empty scheduler ends the loop.
LeaveWhenDrained ==
  /\ phase = "looping"
  /\ scheduler.queue = {}
  /\ phase' = "stopping"
  /\ UNCHANGED <<scheduler, now, handler, processed, arguments, outcome, runs, history>>

\* The loop ends: nothing is left, or a cap stops it.  on_stop is called.
LeaveLoop ==
  /\ phase = "looping"
  /\ ~\E e \in scheduler.queue : MayDispatch(e)
  /\ phase' = "stopping"
  /\ hooks' = IF on_stop = {} THEN hooks
              ELSE Append(hooks, [hook |-> "on_stop", of |-> CHOOSE h \in on_stop : TRUE])
  /\ UNCHANGED <<scheduler, now, handler, processed, arguments, outcome, runs,
                 dispatched, setback, late, failed>>

Return ==
  /\ phase = "stopping"
  /\ phase' = "idle"
  /\ outcome' = {processed}
  /\ UNCHANGED <<scheduler, now, handler, processed, arguments, runs, history>>

Next ==
  \/ \E d \in Delays : Add(d)
  \/ \E h \in Handlers : SetHandler(h)
  \/ \E t \in Times : ResetClock(t)
  \/ \E me \in Optional(EventCaps), mt \in Optional(Times) :
       RefuseRun(me, mt) \/ StartRun(me, mt)
  \/ EnterLoop
  \/ \E e \in scheduler.queue : Dispatch(e) \/ DispatchPast(e)
  \/ Handled
  \/ Raise
  \/ LeaveLoop
  \/ Return

Spec == Init /\ [][Next]_vars

\* The one thread goes on, and the methods of a handler come to an end: a
\* handler that returned follow-ups for ever would keep run from returning.
LoopStep == \E e \in scheduler.queue : Dispatch(e) \/ DispatchPast(e)
HandlerEnds == EnterLoop \/ Handled \/ Return \/ Raise

FairSpec == Spec /\ WF_vars(LoopStep) /\ WF_vars(LeaveLoop) /\ WF_vars(HandlerEnds)

-----------------------------------------------------------------------------
Phases == {"idle", "starting", "looping", "handling", "stopping"}

TypeOK ==
  /\ IsScheduler(scheduler, Int, {})
  /\ now \in Int
  /\ handler \in Handlers
  /\ processed \in Nat /\ failed \in Nat /\ runs \in Nat
  /\ phase \in Phases
  /\ IsOptional(max_events, Nat) /\ IsOptional(max_time, Nat)
  /\ IsOptional(on_stop, Hooked)
  /\ IsOptional(outcome, Nat)
  /\ dispatched \in Seq(Events(Int, {}))
  /\ setback \in 0 .. Len(dispatched)
  /\ late \subseteq Nat
  /\ hooks \in Seq([hook : {"on_start", "on_stop"}, of : Hooked])

\* A run takes its events in the order of their timestamps, and events of one
\* time in the order in which they were added, also when the handler adds
\* events at the current time while others of that time wait (engine.py:115).
\* Only a handler that sets the clock back lets time begin anew.
ChronologicalDispatch ==
  \A i, j \in DOMAIN dispatched :
    setback < i /\ i < j => Precedes(dispatched[i], dispatched[j])

\* run loses no event to the clock's refusal but those that were added behind the
\* clock, or that a reset has left behind it: the loop itself never moves the
\* clock past an event that waits, whatever was added while others waited and
\* whatever an earlier run has left (engine.py:226-234).
NothingOvertaken ==
  \A e \in scheduler.queue : e.timestamp < now => e.sequence \in late

\* Every event ever added is still pending, in hand, counted as processed, or
\* was lost to an exception; none is lost or counted twice over several runs,
\* caps and exceptions, and run returns the count of all runs (engine.py:223-245).
EveryEventAccountedFor ==
  /\ scheduler.sequence_counter =
       Cardinality(scheduler.queue) + processed + failed
         + (IF phase = "handling" THEN 1 ELSE 0)
  /\ \A n \in outcome : n = processed

\* A run that returns has called on_stop of the very handler whose on_start it
\* had called, once each, even if the handler was replaced in between
\* (engine.py:218-221, 243-244).
HooksPaired ==
  phase = "stopping" \/ outcome # {} =>
    \/ hooks = <<>>
    \/ \E h \in Hooked : hooks = <<[hook |-> "on_start", of |-> h],
                                    [hook |-> "on_stop", of |-> h]>>

\* When the loop ends without reaching max_events, every event up to and at
\* max_time has been processed, those added during the run included
\* (engine.py:202-205).
HorizonReached ==
  [][phase = "looping" /\ phase' = "stopping" =>
       \/ \E cap \in max_events : processed >= cap
       \/ \A e \in scheduler.queue : \E cap \in max_time : e.timestamp > cap]_vars

\* run comes back once handlers stop adding events, whatever they raise.
RunEnds == phase # "idle" ~> phase = "idle"

=============================================================================
