# TLA+ models of the network-traffic discrete-event simulator

The repository simulates traffic through one router: arrivals are events in a
scheduler, an event loop takes them in time order and hands them to a router
with a bounded queue and one server, a collector records what happened, and
analytics and experiments turn the records into statistics. Everything runs in
one thread. What is hard in this code is therefore not threads but *events*:
many of them at one instant, some scheduled by handlers while others wait,
packets that exist only inside an event, exceptions in the middle of a handler,
and caps that stop the loop anywhere.

Paths below are relative to `src/src/` unless they begin with `src/`.

## 1. Inventory

| Component | State | Operations | Talks to |
|---|---|---|---|
| `Event`, `EventScheduler` (`events/`) | heap of references to mutable events, sequence counter | add_event, schedule, next_event, remove_event, peek, iterate, clear | everything that schedules |
| `SimulationClock` (`simulation/clock.py`) | current time | advance_to (refuses the past), reset | the loop |
| `EventLoop`, `EventHandler` (`simulation/engine.py`) | scheduler, clock, handler, processed counter | run with caps, add_event, handler setter; hooks on_start and on_stop | calls the handler, which may call everything back |
| `Router` (`simulation/router.py`) | reservation flag, id and drop counters | handle_arrival, handle_service_start, handle_departure, ignores drops | queue, server, scheduler, packets |
| `QueueManager` (`queueing/manager.py`) | buffer, enqueue and drop counters | enqueue, dequeue, record_drop, is_full | the router |
| `Server` (`simulation/server.py`) | busy, packet, start of service | start_service, finish_service (both refuse) | the router |
| `Packet` (`simulation/packet.py`) | times of its life cycle, drop reason | mark_* | router and server |
| `MetricsCollector` (`metrics/collector.py`) | list of records | record_*, filters | the simulation's handler |
| statistics (`analytics/`) | none (pure functions) | system statistics, packet statistics | read records |
| M/M/1 simulation (`validation/mm1_validation.py`) | one wired run | `_simulate_mm1_records`, life cycles, comparison | all of the above |
| `EventHistoryLog` (`events/history.py`) | append-only list | log, filter | nothing |
| `ExperimentRunner` (`validation/experiment_runner.py`) | files of an output directory, which outlive the program | check the configuration, write it, run one of three experiments, write charts, results and report | simulation, convergence, sweep, plots |
| convergence and sweep (`validation/`) | none | many simulations, each with a generator of its own seed; verdict on the errors | simulation, `theoretical_metrics.py` |
| distribution suite (`validation/validation_runner.py`) | one random stream, injected into cases that outlive the suite | run cases | distributions |
| distributions, configuration, plots, scripts | parameters | sampling, parsing, drawing | — |

What makes each part correct, and where it could really go wrong, is the list
`hazards` of `PROJECT.json`, each at the line where it bites. The main ones:

- **Ties.** An arrival, a departure, the start that the departure schedules and a
  drop often share one timestamp. Order then depends on stamps alone.
- **A packet in flight.** `_schedule_service_start` takes a packet out of the
  buffer and leaves it in the metadata of an event; until that event fires the
  server looks idle and the packet is in neither the buffer nor the server.
- **Double bookkeeping.** The reservation flag, the busy flag, the pending
  events, the router's counters, the queue's counters and the packets' own
  fields all tell parts of one story.
- **Exceptions.** The event is off the scheduler before the clock or the handler
  can raise; the server is busy before the service time is sampled.
- **Reuse.** A loop can be run again; its counter and caps go on from before.
- **A handler's reach.** A handler may call everything back: it adds events in the
  past, replaces the loop's handler, resets the loop's clock.
- **Seeds.** A replication has one seed for all durations: its simulations read
  one stream, each as far as it gets. A suite has one generator for all cases.
- **Files.** Six files are written over in place, one after another, and every
  execution may stop between any two of them or inside one.
- **Checks twice.** The configuration's schema and the experiments check rates,
  capacity and durations by different rules, and a file is written in between.
- **Horizon.** It is checked when an arrival is scheduled and when the loop takes
  an event; statistics then read a stream that stops in the middle of things.

## 2. Modules

| Module | Models | Role |
|---|---|---|
| `Scheduling` | values of events and schedulers, `Precedes`, `AddEvent`, `RemoveEvent` | constant-level, used by every module that owns a scheduler |
| `StableQueue` | what the scheduler's docstring promises | abstract specification |
| `EventScheduler` | the binary heap of mutable objects with stamps | implements `StableQueue` |
| `EventLoop` | `run`, the clock, hooks, caps, exceptions, several runs | component |
| `SingleServerQueue` | one server, a waiting room, losses; no time, no events | abstract specification |
| `Router` | Router, QueueManager, Server, Packet | implements `SingleServerQueue` |
| `Simulation` | the wired run with its collector and horizon; EXTENDS `Router` | implements `Router` |
| `Statistics` | the analytics as operators on sequences of records | pure algorithms |
| `SimulationStatistics` | the analytics against what was really simulated | composition |
| `ConvergenceExperiment` | a whole convergence experiment: many runs of `Simulation`, each with its seeded stream, and the verdict; EXTENDS `Simulation` | composition |
| `ConvergenceCriterion` | `_log_log_slope`, `_check_convergence` | pure algorithms |
| `Sorting` | `sorted(...)` of a list of numbers | constant-level |
| `Experiments` | configurations: which are accepted, which are refused later, which simulations they mean | constant-level |
| `PublishedResults` | what a reader of an output directory may rely on | abstract specification |
| `ExperimentRunner` | `execute` and the files, over several executions | implements `PublishedResults` |
| `DistributionSuite` | `run_suite`, its shared generator, cases changed and sampled in between | component |
| `Scheduling_proofs`, `EventScheduler_proofs`, `EventLoop_proofs`, `ExperimentRunner_proofs`, `DistributionSuite_proofs` | theorems about the module of that name | proofs |
| `Router_proofs` | theorems about `Router`: types and flags; then packets, their order and the refinement | proofs |
| `Simulation_proofs` | theorems about `Simulation`, on top of those about `Router`; then about `SimulationStatistics` | proofs |
| `ConvergenceExperiment_proofs` | theorems about `ConvergenceExperiment`, on top of those about `Simulation` | proofs |
| `MC*` | small instances | model checking |

How state and actions correspond to the code is in `map` (every definition with
its lines). The main abstractions:

- **Time** is an integer. Code only compares and adds times; floating-point
  rounding is not modelled.
- **A scheduler** outside `EventScheduler` is a set of stamped events and the
  counter. The refinement `EventScheduler => StableQueue` is what allows it: at
  every moment the heap will deliver exactly in the order of `Precedes`
  (`HeapIsStableQueue`, section 4).
- **Samples** (service times, delays, drop decisions) are nondeterministic
  choices. Negative service times are included: a caller may configure any
  distribution, and the router checks the sample (`router.py:231`).
- **One handler is one action**, since nothing interleaves inside a handler. What
  interleaves is the order of the events. `EventLoop` is finer: there the
  handler is any code, so the steps of `run` around it are separate actions.
- **A packet** is its id; its fields are in `packet`. Drop and start events carry
  the packet whose id they have.
- `heapq` is not part of the repository; it is modelled move by move (`Rise`,
  `Sink`) and marked external in `map`.
- **A random generator** is a stream of deviates and a position in it. Two
  generators with one seed have one stream; what it holds is chosen when it is
  first read. A delay and a service time read one deviate each and scale it
  (`distributions/continuous.py`); the binomial drop decision of an M/M/1 run has
  probability zero and reads nothing (`distributions/discrete.py`).
- **The errors** of a convergence experiment are any numbers: which simulation an
  error comes from is modelled, its floating-point value is not. Logarithms are
  integers of some unit. Durations and errors may be zero, whose logarithm is -inf
  (`LogOfZero`): it is only compared, as less than any other. Errors of zero are left
  out of the fit; a duration of zero in it makes the slope `NaN`, which is not
  negative. Slopes are sets of at most one number, so that nothing holds of the number
  in `NaN`. Otherwise a slope is its numerator, multiplied by the number of points; the
  sums run over all points, with zero in the place of one that is left out.
- **Sorting** puts each value at the place that the number of smaller ones gives.
- **A configuration** is a record; an optional field is a set of at most one
  value. `None` and an empty list mean the same to the code.
- **A file** is told by the execution it comes from and whether it is whole. A
  write is two steps, the truncation and the closing; an execution may end
  between them. That the exception of an experiment, a full disk, the user and
  the end of the process look the same to the directory is why `Interrupt` is one
  action.
- **How a case samples** is a name, and how much of the stream that reads may
  depend on the position, as for rejection sampling.
- In `EventLoop` whatever the program may do between two runs a handler or hook may do
  during one (`CallerRuns`), `clock.reset` included. A call that is refused before it
  changes anything (a negative argument of `clock.reset`) is no action; `RefuseRun` is one because it is how
  a caller learns of it. A call of `run` from inside a handler is not modelled.

Definitions named `Faulty...` (and a few with a telling name such as
`LateHookLookup`) are variants with a plausible mistake; no specification uses
them. Each stands before the definition it varies, and substituting it breaks
the property that `mutants` of `PROJECT.json` names for it. They show that the
properties can tell correct code from broken code.

## 3. Runs

| Run | Question | Answer |
|---|---|---|
| `scheduler` | Does the heap deliver as a stable queue, with re-added objects, peeks, iteration steps and clears between adds? | yes |
| `scheduler_alias` | Also when an object is added that the heap still holds? | **no**: it is restamped in place, and a later event of the same time overtakes an earlier one |
| `loop` | Are events taken in order, none overtaken, all accounted for, hooks paired, the horizon reached, and does `run` come back, over two runs with caps, past events, resets of the clock by anyone and exceptions? | yes; after a handler has set the clock back, the order begins anew |
| `router_fifo` | Do flags, events, buffer, server, counters and packets agree under every order of events, and is the router a single-server queue with losses? | yes |
| `router_lifo` | With a LIFO buffer and samples that may be negative: does the server never refuse, is the newest packet taken, does every accepted packet depart? | yes, unless a negative sample has stopped the server |
| `simulation` | Do the records tell the packets' history, and are the statistics of the records those of the simulated system? | yes |
| `convergence` | Is a shorter simulation of a replication the beginning of its longer ones, is every duration measured in every replication, and does the verdict follow the trend of the errors? | yes; but with a duration of zero nothing converges |
| `convergence_slope` | Is the slope "0.0 if any error is zero or negative"? | **no**: a line is fitted to the other points |
| `experiment` | What may a reader of an output directory conclude after executions that were refused, stopped anywhere or finished, and why may an accepted configuration still be refused? | a whole configuration and a whole report of one execution enclose its whole results and charts |
| `experiment_capacity` | Do the reported simulations have the reported capacity? | **no**: only those of sweeps |
| `suite` | Which results does a change of one case leave as they were, when cases keep old generators and are sampled elsewhere too? | those of the cases before it, and without a change all |
| `suite_isolation` | Does a case keep its samples when another case changes? | **no**: later cases read another part of the stream |

The violations are listed under `findings` with the sentence of the code that
each contradicts. That of the scheduler does not affect the
simulations of the repository, which use each event once.
`experiment_capacity` does: an M/M/1/K experiment of type `single_run` or
`convergence` simulates M/M/1. `suite_isolation` weakens what the suite's
fixed seed is for. `convergence_slope` decides a verdict: errors that fall to exactly
zero are converged in the code and would not be by the docstring
(`validation/convergence_experiment.py:235`). The comment inside the function (line 240)
says what the code does, and so does `VerdictFollowsTrend`.

Three more disagreements have no run of their own:

- `EventHandler.on_stop` is "called once after the loop drains the scheduler"
  (`simulation/engine.py:65`), but `run` calls it also when a cap has stopped the loop
  with events pending (`LeaveLoop` in `EventLoop`, `engine.py:243`).
- `run` "returns: the number of events processed during the run" (`engine.py:208`), but it
  returns the count of all runs of the loop (line 245): the last conjunct of
  `EveryEventAccountedFor` says so. For the same reason `max_events` is a cap on the
  loop's lifetime. No program of the repository runs a loop twice.
- `_check_convergence` asks for an "overall downward trend"
  (`validation/convergence_experiment.py:265`), but a shortest duration of zero, which nothing
  refuses, denies the verdict to errors that fall at every step: the slope is NaN
  (line 245). `VerdictFollowsTrend` says so.

**Bounds and why they are enough.**

- `scheduler`: five objects, two timestamps, six adds between clears. A heap of
  five has an inner node with one child and one with two on different levels,
  so that each branch of both sifts is taken; two timestamps give ties and
  inversions; a sixth stamp lets an object be added again.
- `scheduler_alias`: three objects at one time and four adds are the least in
  which an order can be seen to change.
- `loop`: four events, two runs, delays -1, 0 and 1, caps -1 (refused) and 1, one
  handler with hooks and one without, resets to 1 at any moment, which set the clock
  forward or back. Two runs are needed for anything that one
  run leaves to the next; a third finds the state the second found.
- `router_fifo`: four arrivals, a buffer of two: one packet in service, two
  waiting, one refused. Delays and service times 0, 1 and 2 produce every
  coincidence of arrival, start and departure, zero services included.
- `router_lifo`: five arrivals, so that waiting packets can be overtaken twice;
  service times -1, 0, 1.
- `simulation`: four packets, a buffer of one, a horizon of four ticks, delays
  0, 1, 2 and one past the horizon, service times -1, 0, 1, 3. The program's
  M/M/1 runs use no random drops and no negative samples; the run covers them
  because the handler, the collector and the statistics would serve them too.

- `convergence`: horizons 0, 1, 2 and 16 in the orders 2, 1, 2 (unsorted, one twice),
  16, 1, 2 and 2, 0, 1, two replications, deviates 0, 1, 2, four per stream. Arrivals
  fall on the shorter horizons, services are cut off by them, and a stream may be
  read to its end by any of the simulations; with two replications one that takes
  the other's stream would be seen. Three points with errors 0, 1, 5 or none are
  the least in which slope and trend can disagree: the logarithms 0, 1, 4 of the
  durations are unevenly spaced on purpose. `convergence_slope` needs one list of three
  durations and streams of one deviate.
- `experiment`: three executions of any of the accepted among thirty
  configurations of the three types, with and without capacity, stable and
  unstable, complete and incomplete, with sorted, unsorted, default, negative
  durations and an unknown metric. A third execution meets a directory to which
  two others have contributed.
- `suite`: three cases and two suites, ways to sample that read one value, two, or
  one or two depending on where they start, and a stream on which a case that is
  wrongly left its old generator can still finish the second suite. Every case may be
  changed and sampled any number of times in between.
- `suite_isolation`: the same with one more way; a change of the first case is
  seen in the second.

Named bounds: `MaxSequence` (adds), `MaxRuns` (calls of `run`), `MaxPackets`
(arrivals ever scheduled), `StreamLength` (deviates of a stream; what follows
delays an arrival past every horizon), `MaxExecutions` (of the runner),
`MaxSuites`, `MaxPosition` (of a stream, from which nothing is read beyond it). `SimulationTimes` and
`Replications` are parameters of the program.

Deadlock is not checked where the system may stop: a router without events, a
simulation that is over, an experiment that is assessed, a bound on executions
or suites that is used up. In the two component runs where a caller may always
act (`scheduler`, `loop`) it is checked.

**Fairness.** There is one thread and it never waits, so whatever step is possible
inside `run` is taken: weak fairness of the steps of the loop (`LoopStep`,
`LeaveLoop`), of the handling of the next event in `Router`, of the next step in
`Simulation`. `EventLoop` assumes moreover that a handler's methods end
(`HandlerEnds`); a handler that yields follow-ups for ever keeps `run` from
returning, in the code as well. Callers of the loop are not fair: nothing forces
anyone to add an event, to call `run` or to raise. `RunEnds`, `SimulationEnds`
and `EveryPacketDeparts` rest on finitely many events (`MaxSequence`,
`MaxPackets`): in the program an arrival process may produce any number of
arrivals before the horizon, only with probability one finitely many.
`EveryPointMeasured` assumes weak fairness of the next step of a convergence
experiment, for the same reason, and rests on `StreamLength`. `ExperimentRunner` and
`DistributionSuite` assume none: an execution may stop anywhere for ever.

## 4. Proofs

The theorems hold for all values of the constants under the named assumptions,
which only give the parameters their types: `SchedulerAssumption` (times are
integers), `LoopAssumption`, `RouterAssumption`
(service times are arbitrary integers, capacity is any positive number or none),
`SimulationAssumption` (horizons are natural numbers), `ExperimentsAssumption`
(the default durations are a list of positive numbers, a configuration's numbers
are integers), `RunnerAssumption`, `SuiteAssumption` (how far a way to sample reads is any number, for
each place where it starts) and `ConvergenceAssumption`. The last one says what
the code does with a convergence experiment: the caller's durations are positive
or zero and there is at least one; arrivals and services scale the same deviates, arrivals more
(the rate of arrivals is less than that of services, `convergence_experiment.py:121`); the
buffer is an unbounded FIFO and nothing is dropped (`mm1_validation.py:199-216`); logarithms
ascend with the durations, and zero alone has the logarithm -inf; there is a longest duration, and more packets than deviates of a
stream, so that neither bound stops a simulation. Each theorem is listed under `theorems` with
the property it states; the runs show the same properties on small instances.

*`Scheduling_proofs`*: an event that is added gets a fresh stamp and leaves the
scheduler well formed; what adding and removing do to the pending events of one
type; among finitely many pending events one comes first (`FirstExists`, by the
well-foundedness of the naturals applied to the number of predecessors). The same
for any non-empty set of events (`EarliestExists`) and of naturals
(`LeastNatural`). `UpTo` is the induction that the other proofs use: what holds of 0
and passes from each number to the next holds up to n. As the library's
induction theorems are out of reach, it takes the least number of which the
claim fails and contradicts it; the claim is given as a set of numbers.

*`EventScheduler_proofs`*, for heaps of any size:

- The sifts are recursive functions of a position and an array. `RiseProperties`,
  `SinkProperties` say of both that they rearrange the array (`Rearranged`: the same
  objects, none twice that was not) and that they restore the heap order where
  it fails at one place: for the item that rises everything but the item and its
  parent is in order (`RisesAt`), for the hole that sinks everything but it (`HoleAt`); in
  both what stands below is not before what stands above. Hence `PushProperties`
  and `PopProperties`.
- `SchedulerTypeCorrect`: `StampInv`, which says of sets of objects what `TypeOK`
  says of positions. It needs no assumption about callers.
- `HeapIsStableQueue`: `HeapInv` adds that the heap order holds, that no object is
  pending twice and that no stamp is. It is inductive only if callers add no
  object that is pending (`~ReaddPending`): the run `scheduler_alias` shows what
  happens otherwise. The order of delivery, a third recursion, lists just the
  objects of the heap in the order of `Precedes` (`DrainDelivers`), and there is
  only one such list (`OneOrder`). So the step simulation compares lists: what is
  left after the first (`RestInOrder`) and what results from putting the new object
  behind all that are not later (`PlaceOfNew`) is in order, therefore it is
  what the heap delivers.
- `DeliveryAscends`: what is left to deliver is in order of time.

*`EventLoop_proofs`*:

- `TypeCorrect`: the type invariant, which contains that stamps are unique.
- `LoopOvertakesNothing`: `NothingOvertaken` is inductive with the types. Two histories
  make it say something: `late` has the stamps of the events that were added behind
  the clock or that a reset left behind it. The clock otherwise moves only to the first
  of the pending events, which is not later than any other.
- `EventsInOrder`: `ChronologicalDispatch` is not inductive: an event added later
  could precede one already taken. The strengthening `TakenBefore` says that
  what a run has taken since the clock was last set back (`setback`) is not after the clock, has an older stamp than any event
  still to come, and precedes every pending event that is not in the past;
  events in the past may precede it, but `run` refuses them.
- `HooksBelongTogether`: while `run` is active the hooks called so far are the
  on_start of just that handler whose on_stop it keeps (`HooksBegun`).
- `NoEventVanishes`: counting, with the finiteness of the set of pending events. That
  what was returned is the count of all runs needs `HooksBegun`: while a run counts,
  nothing has been returned (`ReturnedCount`).
- `NothingLeftBeforeHorizon`: when the loop ends without max_events, the *first*
  pending event is past max_time; with `FirstExists`, all are.

*`Router_proofs`*:

- `TypeCorrect`: the type invariant for a growing set of packet ids.
- `ClockAcceptsEveryEvent`, `FlagsTellEvents`, `ServerNeverRefuses`,
  `ServerConservesWork`: the conjunction `FlagInv` is the inductive invariant.
  None of the last three is inductive alone: that a start finds an idle server
  needs that the reservation flag tells of the only pending start and excludes a
  busy server; that a departure finds a busy server needs that there is at most
  one, for the packet being served; that a departure may start the next packet
  needs that no reservation is pending beside a busy server. `StepTakes` and
  `StepAdds` say once what a handler's change of the scheduler does to the
  pending starts and departures; then there is one lemma per handler.

Its second half looks at the handlers without the scheduler: every step
loses a packet, lets it wait, lets it claim the server, begins a service, ends one
or does nothing of the kind (`PacketStep`, with `Loses`, `Waits`, `Claims`, `Begins`,
`Leaves`, `Rests`). Three lemmas, summed up in `StepsOfPackets`, say so of the
handlers; the invariants need only the steps.

- `NoPacketLostOrCopied`: `PacketInOnePlace` is inductive together with the fact
  that pending starts and the server name packets that exist (`PlaceInv`).
- `CountersTellPackets`: needs `PlaceInv` and that a packet dropped in a step is the
  new one, so that each set of drops grows by one element or none.
- `OneServiceAtATime`: `ServicesDisjoint` is strengthened by `TimesPassed`: no
  recorded time is later than the clock, so a service that begins now begins
  after the end of all others.
- `NoIdleWait`: a start, once scheduled, is for a time that is already the end of a
  wait (`WaitInv`); what a packet has recorded stays (`HistoryKept`).
- `FirstInFirstOut`: `NoOvertaking` follows from `OrderInv`: a FIFO buffer is ascending
  and everything that has left it is older than what it holds. `LastInFirstOut`:
  a LIFO buffer is descending, and its head is the newest packet waiting.
- `RouterIsLossQueue`: `Router` implements `SingleServerQueue`. The abstract queue
  has a finite set of packets from the beginning, so the step simulation needs
  that packets created and arrivals still pending never exceed `MaxPackets`
  (`BoundInv`).

*`Simulation_proofs`*:

- `SimulationIsRouter`: each step of a simulation is a step of `Router` or leaves it
  alone. By this theorem all invariants above hold in a simulation without a
  second proof (`RouterInvariant`).
- `CollectorTellsPackets` (and `SimTypeCorrect`): `MatchInv` says of each kind of record and each
  packet that there is one such record with the time the packet tells, or none
  when it tells none. For drops the packet tells before the record is made:
  `DropInv` ties the pending drop events to the packets. After an exception the
  records are one behind, so both say nothing of it.
- `NothingLeftButDeparture`: `CutAtHorizon` from `HorizonInv` (neither the clock nor a
  pending arrival is past the horizon) and from the first pending event being
  past it. What remains can then only be a departure.
- `RecordsInOrder`: the records are chronological, with no record later than the
  clock; so the sorting of the analytics leaves them as they are.

Its second half is about `SimulationStatistics`. The analytics are functions that go through the
records one by one (`QueueWalk`, `BusyWalk`, `Areas`). That such a walk exists and
what it is after n records is proved by induction on n (`UpTo`).

- `StatisticsNeverRaise`: the checks of `analytics/system_statistics.py` never fail on
  the records of a simulation. They hold of any `WellFormed` sequence: records
  in order of time, per packet an arrival before a start before a departure, a
  departure between two starts, no start of a dropped packet. `RecordsWellFormed`
  shows that a simulation's records are so.
- `QueueLengthIsReal`: after n records the reconstructed length is the number of
  arrivals told less the starts and drops told (`QueueLengths`); by `MatchInv` these
  are the packets in the buffer, between buffer and server, and in pending drops.
- `BusyTimeIsService`: the busy time is the sum of the services (`BusyTimes`), the
  last one open if the server is busy, since when is `StartInv`.
- `LittlesLaw`: the area under the reconstructed length is the sum of the waits: both
  are the sum, over packets, of the time between arrival and start, drop or the
  last record (`Areas`; the sum over a finite set is taken apart one packet at a time).
- `TotalsAreCounters`: the totals over the records are the counters of router and
  queue, by `OneToOne` correspondence of records and packets.
- `LatenciesArePackets`: also after an exception, when the start that raised has no
  record: `LedgerInv` asks for the record of a start only once its packet has departed.

*`ExperimentRunner_proofs`*:

- `PublishedIsComplete`: `EndsTellTheMiddle` for any configurations and any number
  of executions. It is not inductive: that closing a report completes the list
  of its execution needs that the active execution has written every file before
  its step, and that closing a new configuration does not complete an old list
  needs that no file after the step is of this execution yet (`Progress`), nor of
  one still to come (`NoFutureFiles`). `NothingElsePublished` says that during a
  write the only whole pair there can be is one whose configuration is about to
  be overwritten. What the proof uses of the order of the writes is
  `StepsInOrder`: configuration first, report last, no file twice.
- `RunnerTypeCorrect` and the refinement need to know which part of its plan the
  active execution has simulated: `Ledger` and `RunsOfPlan` (the simulations are
  the beginning of `Plan(Config)`, and all of it after the second step), and
  `OnlyOwnFiles` (an execution has written no file past its step). With
  `RunnerInv` they make `LedgerInv`, which is inductive.
- `RefusalsHaveReasons`: `RefusalsExplained`. Which configurations pass the schema
  is compared with which parameters the experiments refuse (`RefusedParameters`):
  what is left is an unstable rate beside a capacity, an unknown metric or a
  negative duration. `SortedProperties` says what sorting keeps: the place of a
  value is the number of values before it, so counting replaces induction.
- `DirectoryIsPublication`: `ExperimentRunner` implements `PublishedResults`. A
  truncation withdraws a publication or changes none (`TruncateWithdraws`), a
  closing publishes the active execution or changes none (`CompletePublishes`),
  every other step stutters (`SamePublication`).

*`ConvergenceExperiment_proofs`*, for any durations, rates, streams and number of
replications:

- `LongerExtendShorter`: `LongerRunsExtendShorter`. Comparing a simulation that is
  running with those that are over, step by step, has no good invariant: at
  its horizon a simulation may have drawn a delay that it does not use, and it
  may stop with a departure pending. Both are therefore compared with a third thing, the
  run that a stream determines when there is no horizon. It is a sequence of
  *moments*, one after each record (`AfterArrival`, `AfterStart`, `AfterDeparture`): how much
  of the stream has been read, when the next arrival is, who waits, which start or
  departure is pending, and which of the two was scheduled first. What
  follows a moment is determined by the stream (`FollowsOne`), so two runs that explain two
  lists of records of one stream agree as far as both go (`OneRun`); and once the
  next thing to happen is past a horizon, all that follows is (`StaysPast`, `RestIsPast`). A
  list of records that such a run explains up to a horizon, and not further, is
  the list cut off there: `ShorterIsPrefix`, without any state.

  The invariant, `ConvergenceInv`, says that the simulation that is running is *at* a
  moment (`At`): its scheduler, buffer, server, flag, counter of ids and position in the
  stream are those of the moment, but for an arrival past the horizon, which is not
  scheduled; its records are those of the run up to the moment (`Explains`). When it ends, the moment is past
  the horizon (`Past`), and what is kept is what the stream determines
  (`Recounts`). A stream that grows changes none of this, since a moment only looks at what
  has been read (`ReadsGrow`, `ExplainsGrow`, `RecountsGrow`). There is one lemma for each thing that can happen
  (`MomentArrives`, `MomentStarts`, `MomentDeparts`, `MomentBegins`); ties between an arrival and a
  departure, which the stamps of the scheduler decide, are the part `behind` of a moment.
- `VerdictIsTrend`: `VerdictFollowsTrend`. Errors that fall and then vanish leave the
  first m points (`VanishedLast`), whose durations ascend, since equal durations
  have equal errors. `OppositeTrends` shows that the covariance of such points is
  negative: the point k + 1 adds to it the products of its distances from each of
  the k before it, one distance positive and one negative (`CovarianceGrows`,
  `DistanceGrows`). The same for a list and its opposite gives that the denominator
  is not zero (`SpreadOut`). That a sum is the last of the partial sums is proved
  of the recursive function `SumOf` (`SumOfSums`). If the first duration is zero it is
  among the m points and the slope is NaN; if it is not, no other is.
- `MeasuredAtTheEnd`: the safety half of `EveryPointMeasured`. When the experiment is
  reported, what is kept has each duration in each replication, nothing else and none twice, by the
  arithmetic of quotients and remainders (`PlaceAndTurn`, `QuotientInRange`).
- `SimulationsAreSound`: every simulation of an experiment, not only the first, has
  the properties proved of `Simulation`: a new system is an initial state of it
  (`FreshIsSound`), and its steps are steps of it (`StepsOfSimulation`).
- `StatisticsAreExact`: so are its statistics. The six theorems about statistics each
  rest on a lemma about one state (`ComputableFollows`, `QueueFollows`, `AreaFollows`, `BusyFollows`,
  `TotalsFollow`, `LatenciesFollow`), and `SoundInv` holds what these ask for: well-formed records,
  the counters, the server's start and the ledger.

*`DistributionSuite_proofs`*, for any cases, ways to sample and number of suites:

- `EarlierCasesKeepSamples`: `EarlierCasesUndisturbed` compares two suites that are
  over, and says nothing of one that runs. `SuiteInv` adds that every result begins
  where the one before it ended (`Chained`) and that the generator of the suite that
  runs stands where its last result ended: sampling elsewhere moves only generators of
  suites that are over, because every case is given the new one before it is
  sampled. Two chains with the same ways to sample up to a case are equal up to it
  (`ChainsAgree`, by `UpTo`). What `suite_isolation` refutes is the same statement
  about one case alone.

**Only model-checked**, and why:

- Liveness (`EveryPacketDeparts`, `SimulationEnds`, `RunEnds`, and that an experiment
  is ever reported in `EveryPointMeasured`): the provers used here do not treat fairness and
  ENABLED.

## 5. State of the plan

Sections 2 to 4 are done: every safety property that a passing run checks is
proved, of the scheduler, the loop, the router, the simulation, the statistics,
the runner, the convergence experiment and the distribution suite, and so are all four
refinements. What could be added: `EventLoop` with a handler that calls `run` of its own loop.

## 6. Not modelled

- `EventHistoryLog`: an append-only list nobody reads back.
- Values of samples (`distributions/`): that samples have the right law is statistics.
- Floating-point arithmetic: relative errors, closed-form values
  (`theoretical_metrics.py`, beyond its refusals), moments.
- The seeds of a sweep: they are drawn from a generator and "distinct"
  (`validation/parameter_sweep.py:96`) only with high probability.
- A metric named twice in a convergence experiment: each error is appended
  twice, so that there are two points for a duration.
- Two executions in one output directory at the same time; the script's list of
  charts, which counts those of older sweeps too (`src/scripts/run_experiment.py`).
- A handler that calls `run` of its own loop.
- Loading of configuration files; plots; command lines: input and output. The
  validated ranges of capacity and discipline are assumptions of `Router`.
- `QueueManager.clear` and `peek`, `MetricsCollector.clear`, `Server` without a
  departure time: nothing in the program calls them.
- Serialisation of records and events: layout.
- Refusals of wrongly shaped events by the router (`router.py:210`): the router
  makes these events itself.
