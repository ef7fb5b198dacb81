-------------------------- MODULE Scheduling_proofs --------------------------
(***************************************************************************)
(* Lemmas about the operations on schedulers, for the proofs about the     *)
(* components that own one, and what other proofs share: the induction     *)
(* they use, and what sorting returns.                                     *)
(***************************************************************************)
EXTENDS Scheduling, Sorting, Sequences, FiniteSetTheorems, WellFoundedInduction, TLAPS

\* add_event adds one new event, with the stamp the counter had, and keeps the
\* scheduler well formed.
LEMMA StampProperties ==
  ASSUME NEW Times, NEW Packets, NEW s, IsScheduler(s, Times, Packets),
         NEW e \in Events(Times, Packets)
  PROVE  /\ Stamp(s, e) \in Events(Times, Packets)
         /\ Stamp(s, e) \notin s.queue
         /\ Stamp(s, e).timestamp = e.timestamp
         /\ Stamp(s, e).event_type = e.event_type
         /\ Stamp(s, e).packet_id = e.packet_id
         /\ Stamp(s, e).sequence = s.sequence_counter
<1>1. /\ s.queue \subseteq Events(Times, Packets)
      /\ s.sequence_counter \in Nat
      /\ \A f \in s.queue : f.sequence < s.sequence_counter
  BY DEF IsScheduler, Stamped
<1>2. /\ Stamp(s, e) \in Events(Times, Packets)
      /\ Stamp(s, e).timestamp = e.timestamp /\ Stamp(s, e).event_type = e.event_type
      /\ Stamp(s, e).packet_id = e.packet_id /\ Stamp(s, e).sequence = s.sequence_counter
  BY <1>1 DEF Events, Stamp
<1>3. Stamp(s, e) \notin s.queue
  BY <1>1, <1>2
<1> QED
  BY <1>2, <1>3

\* Adding an event adds it with a new stamp.
LEMMA AddEventProperties ==
  ASSUME NEW Times, NEW Packets, NEW s, IsScheduler(s, Times, Packets),
         NEW e \in Events(Times, Packets)
  PROVE  /\ IsScheduler(AddEvent(s, e), Times, Packets)
         /\ AddEvent(s, e).queue = s.queue \cup {Stamp(s, e)}
         /\ AddEvent(s, e).sequence_counter = s.sequence_counter + 1
<1> DEFINE x == Stamp(s, e)
           t == AddEvent(s, e)
<1>1. /\ s.queue \subseteq Events(Times, Packets)
      /\ s.sequence_counter \in Nat
      /\ \A f \in s.queue : f.sequence < s.sequence_counter
      /\ \A f, g \in s.queue : f.sequence = g.sequence => f = g
  BY DEF IsScheduler, Stamped
<1>2. x \in Events(Times, Packets) /\ x.sequence = s.sequence_counter
  BY StampProperties
<1>3. t = [queue |-> s.queue \cup {x}, sequence_counter |-> s.sequence_counter + 1]
  BY DEF AddEvent
<1> HIDE DEF x, t
<1>4. Stamped(t)
  <2>1. \A f \in t.queue : f.sequence < t.sequence_counter
    BY <1>1, <1>2, <1>3 DEF Events
  <2>2. \A f, g \in t.queue : f.sequence = g.sequence => f = g
    BY <1>1, <1>2, <1>3 DEF Events
  <2> QED
    BY <2>1, <2>2 DEF Stamped
<1>5. IsScheduler(t, Times, Packets)
  BY <1>1, <1>2, <1>3, <1>4 DEF IsScheduler
<1> QED
  BY <1>3, <1>5 DEF x, t

\* Taking an event out keeps the scheduler well formed and the counter.
LEMMA RemoveEventProperties ==
  ASSUME NEW Times, NEW Packets, NEW s, IsScheduler(s, Times, Packets), NEW e
  PROVE  LET t == RemoveEvent(s, e)
         IN  /\ IsScheduler(t, Times, Packets)
             /\ t.queue = s.queue \ {e}
             /\ t.sequence_counter = s.sequence_counter
<1> DEFINE t == RemoveEvent(s, e)
<1>1. t = [queue |-> s.queue \ {e}, sequence_counter |-> s.sequence_counter]
  BY DEF RemoveEvent, IsScheduler
<1>2. Stamped(t)
  BY <1>1 DEF IsScheduler, Stamped
<1> QED
  BY <1>1, <1>2 DEF IsScheduler

\* A well-formed scheduler stays one if more packets exist.
LEMMA MorePackets ==
  ASSUME NEW Times, NEW P, NEW Q, P \subseteq Q, NEW s, IsScheduler(s, Times, P)
  PROVE  IsScheduler(s, Times, Q)
  BY DEF IsScheduler, Events

\* A scheduler without events is one.
LEMMA EmptySchedulerProperties ==
  ASSUME NEW Times, NEW Packets
  PROVE  IsScheduler(EmptyScheduler, Times, Packets)
  BY DEF IsScheduler, EmptyScheduler, Stamped
\* What adding and taking an event does to the pending events of one type.
LEMMA PendingAfterAdd ==
  ASSUME NEW Times, NEW Packets, NEW s, IsScheduler(s, Times, Packets),
         NEW e \in Events(Times, Packets), NEW type
  PROVE  Pending(AddEvent(s, e), type) =
           IF e.event_type = type THEN Pending(s, type) \cup {Stamp(s, e)}
                                  ELSE Pending(s, type)
<1> DEFINE x == Stamp(s, e)
           t == AddEvent(s, e)
<1>1. t.queue = s.queue \cup {x} /\ x.event_type = e.event_type
  BY AddEventProperties, StampProperties
<1> HIDE DEF x, t
<1>2. Pending(t, type) = IF e.event_type = type THEN Pending(s, type) \cup {x}
                                                ELSE Pending(s, type)
  BY <1>1 DEF Pending
<1> QED
  BY <1>2 DEF x, t

\* Removing an event takes it from those of its type.
LEMMA PendingAfterRemove ==
  ASSUME NEW Times, NEW Packets, NEW s, IsScheduler(s, Times, Packets), NEW e, NEW type
  PROVE  Pending(RemoveEvent(s, e), type) = Pending(s, type) \ {e}
<1> DEFINE t == RemoveEvent(s, e)
<1>1. t.queue = s.queue \ {e}
  BY RemoveEventProperties
<1> HIDE DEF t
<1>2. Pending(t, type) = Pending(s, type) \ {e}
  BY <1>1 DEF Pending
<1> QED
  BY <1>2 DEF t

\* A set of naturals that is not empty has a least element.
LEMMA LeastNatural ==
  ASSUME NEW T, T \subseteq Nat, T # {}
  PROVE  \E n \in T : \A m \in T : n <= m
<1> DEFINE R == {p \in Nat \X Nat : p[1] < p[2]}
<1>1. IsWellFoundedOn(R, Nat)
  BY NatLessThanWellFounded DEF OpToRel
<1>2. \A n, m \in Nat : <<m, n>> \notin R => n <= m
  OBVIOUS
<1> HIDE DEF R
<1>3. PICK n \in T : \A m \in T : <<m, n>> \notin R
  BY <1>1, WFMin
<1> QED
  BY <1>2, <1>3

\* Among finitely many pending events one comes first.
LEMMA FirstExists ==
  ASSUME NEW Packets, NEW s, IsScheduler(s, Int, Packets),
         IsFiniteSet(s.queue), s.queue # {}
  PROVE  \E e \in s.queue : IsNext(s, e)
<1> DEFINE before(e) == {f \in s.queue : Precedes(f, e)}
           T == {Cardinality(before(e)) : e \in s.queue}
<1>1. \A e \in s.queue : e.timestamp \in Int /\ e.sequence \in Nat
  BY DEF IsScheduler, Events
<1>2. \A e, f \in s.queue : e.sequence = f.sequence => e = f
  BY DEF IsScheduler, Stamped
<1>3. ASSUME NEW e \in s.queue
      PROVE  IsFiniteSet(before(e)) /\ Cardinality(before(e)) \in Nat
  BY FS_Subset, FS_CardinalityType
<1>4. T \in SUBSET Nat /\ T # {}
  BY <1>3
<1>5. PICK e \in s.queue : \A f \in s.queue : Cardinality(before(e)) <= Cardinality(before(f))
  <2>1. PICK n \in T : \A m \in T : n <= m
    <3> HIDE DEF T
    <3> QED
      BY <1>4, LeastNatural
  <2> QED
    BY <2>1
<1>6. ASSUME NEW f \in s.queue, Precedes(f, e)
      PROVE  FALSE
  <2>1. before(f) \subseteq before(e)
    BY <1>1, <1>6 DEF Precedes
  <2>2. f \in before(e) /\ f \notin before(f)
    BY <1>1, <1>6 DEF Precedes
  <2>3. Cardinality(before(f)) <= Cardinality(before(e)) /\ before(f) # before(e)
        /\ (Cardinality(before(e)) = Cardinality(before(f)) => before(f) = before(e))
    <3> HIDE DEF before
    <3> QED
      BY <1>3, <2>1, <2>2, FS_Subset
  <2>4. Cardinality(before(e)) <= Cardinality(before(f))
    BY <1>5
  <2> HIDE DEF before
  <2> QED
    BY <1>3, <2>3, <2>4
<1>7. \A f \in s.queue \ {e} : Precedes(e, f)
  BY <1>1, <1>2, <1>6 DEF Precedes
<1> QED
  BY <1>7 DEF IsNext

\* Without a bound on how many are pending one comes first, if time begins at 0.
LEMMA EarliestExists ==
  ASSUME NEW Packets, NEW s, IsScheduler(s, Nat, Packets), s.queue # {}
  PROVE  \E e \in s.queue : IsNext(s, e)
<1>1. /\ \A e \in s.queue : e.timestamp \in Nat /\ e.sequence \in Nat
      /\ \A e, f \in s.queue : e.sequence = f.sequence => e = f
  BY DEF IsScheduler, Events, Stamped
<1> DEFINE T == {e.timestamp : e \in s.queue}
<1>2. T \subseteq Nat /\ T # {}
  BY <1>1
<1>3. PICK t \in T : \A m \in T : t <= m
  <2> HIDE DEF T
  <2> QED
    BY <1>2, LeastNatural
<1> DEFINE U == {e.sequence : e \in {f \in s.queue : f.timestamp = t}}
<1>4. U \subseteq Nat /\ U # {}
  BY <1>1
<1>5. PICK n \in U : \A m \in U : n <= m
  <2> HIDE DEF U
  <2> QED
    BY <1>4, LeastNatural
<1>6. PICK e \in s.queue : e.timestamp = t /\ e.sequence = n
  OBVIOUS
<1>7. ASSUME NEW f \in s.queue \ {e}
      PROVE  Precedes(e, f)
  <2>1. t <= f.timestamp /\ t \in Nat /\ n \in Nat /\ f.timestamp \in Nat /\ f.sequence \in Nat
    BY <1>1, <1>2, <1>3, <1>4, <1>5
  <2>2. f.timestamp = t => n <= f.sequence /\ n # f.sequence
    BY <1>1, <1>5, <1>6
  <2> QED
    BY <1>6, <2>1, <2>2 DEF Precedes
<1> QED
  BY <1>7 DEF IsNext
-----------------------------------------------------------------------------
\* A set that holds 0, and each number up to N if it holds the one before, holds
\* all of them.
LEMMA UpTo ==
  ASSUME NEW N \in Nat, NEW T, 0 \in T, \A n \in 1 .. N : n - 1 \in T => n \in T
  PROVE  \A n \in 0 .. N : n \in T
<1> DEFINE Missing == (0 .. N) \ T
<1> SUFFICES ASSUME Missing # {} PROVE FALSE
  OBVIOUS
<1>1. Missing \subseteq Nat
  OBVIOUS
<1>2. PICK m \in Missing : \A n \in Missing : m <= n
  <2> HIDE DEF Missing
  <2> QED
    BY <1>1, LeastNatural
<1>3. m \in 1 .. N /\ m - 1 \in 0 .. N
  BY <1>2
<1>4. m - 1 \in T
  BY <1>2, <1>3
<1> QED
  BY <1>2, <1>3, <1>4
-----------------------------------------------------------------------------
\* What sorted returns: as many values, all from the list, in order.  Different
\* positions have different numbers of values before them, so each place is
\* somebody's.
LEMMA SortedProperties ==
  ASSUME NEW list \in Seq(Int)
  PROVE  /\ DOMAIN Sorted(list) = DOMAIN list
         /\ \A k \in DOMAIN list : \E i \in DOMAIN list : Sorted(list)[k] = list[i]
         /\ \A k, l \in DOMAIN list : k <= l => Sorted(list)[k] <= Sorted(list)[l]
<1> DEFINE D == DOMAIN list
           before(i) == {j \in D : list[j] < list[i] \/ (list[j] = list[i] /\ j < i)}
           f == [i \in D |-> Cardinality(before(i)) + 1]
<1>1. PICK n \in Nat : D = 1 .. n /\ D \subseteq Int /\ IsFiniteSet(D) /\ Cardinality(D) = n
  BY FS_Interval
<1>2. \A i \in D : list[i] \in Int
  OBVIOUS
<1>3. Sorted(list) = [k \in D |-> list[CHOOSE i \in D : Cardinality(before(i)) = k - 1]]
  BY DEF Sorted
<1> HIDE DEF D
<1>4. ASSUME NEW i \in D
      PROVE  /\ IsFiniteSet(before(i)) /\ Cardinality(before(i)) \in Nat
             /\ Cardinality(before(i)) + 1 \in D
  <2> DEFINE B == before(i)
  <2>1. B \subseteq D \ {i}
    BY <1>1, <1>2
  <2>2. IsFiniteSet(D \ {i}) /\ Cardinality(D \ {i}) = n - 1
    BY <1>1, FS_RemoveElement
  <2> HIDE DEF B
  <2>3. IsFiniteSet(B) /\ Cardinality(B) <= n - 1 /\ Cardinality(B) \in Nat
    BY <2>1, <2>2, FS_Subset, FS_CardinalityType
  <2>4. Cardinality(B) + 1 \in 1 .. n
    BY <1>1, <2>3
  <2> QED
    BY <1>1, <2>3, <2>4 DEF B
<1>5. ASSUME NEW i \in D, NEW j \in D, list[i] < list[j] \/ (list[i] = list[j] /\ i < j)
      PROVE  Cardinality(before(i)) < Cardinality(before(j))
  <2> DEFINE A == before(i)
             B == before(j)
  <2>1. A \subseteq B /\ i \in B /\ i \notin A
    BY <1>1, <1>2, <1>5
  <2>2. /\ IsFiniteSet(A) /\ IsFiniteSet(B)
        /\ Cardinality(A) \in Nat /\ Cardinality(B) \in Nat
    BY <1>4
  <2> HIDE DEF A, B
  <2>3. A # B
    BY <2>1
  <2>4. Cardinality(A) <= Cardinality(B) /\ Cardinality(A) # Cardinality(B)
    BY <2>1, <2>2, <2>3, FS_Subset
  <2>5. Cardinality(A) < Cardinality(B)
    BY <2>2, <2>4
  <2> QED
    BY <2>5 DEF A, B
<1> HIDE DEF before
<1>6. f \in Injection(D, D)
  <2>1. f \in [D -> D]
    BY <1>4
  <2>2. ASSUME NEW i \in D, NEW j \in D, i # j
        PROVE  f[i] # f[j]
    <3>1. \/ list[i] < list[j] \/ (list[i] = list[j] /\ i < j)
          \/ list[j] < list[i] \/ (list[j] = list[i] /\ j < i)
      BY <1>1, <1>2, <2>2
    <3>2. Cardinality(before(i)) # Cardinality(before(j))
      BY <1>4, <1>5, <3>1
    <3> QED
      BY <1>4, <3>2
  <2> QED
    BY <2>1, <2>2 DEF Injection, IsInjective
<1>7. f \in Surjection(D, D)
  BY <1>1, <1>6, FS_Injection
<1>8. ASSUME NEW k \in D
      PROVE  \E i \in D : Cardinality(before(i)) = k - 1
  <2>1. PICK i \in D : f[i] = k
    BY <1>7 DEF Surjection
  <2>2. Cardinality(before(i)) + 1 = k
    BY <2>1
  <2>3. Cardinality(before(i)) \in Nat /\ k \in Int
    BY <1>1, <1>4
  <2> QED
    BY <2>2, <2>3
<1> DEFINE place(k) == CHOOSE i \in D : Cardinality(before(i)) = k - 1
<1>9. ASSUME NEW k \in D
      PROVE  place(k) \in D /\ Cardinality(before(place(k))) = k - 1
  BY <1>8
<1>10. \A k \in D : Sorted(list)[k] = list[place(k)]
  BY <1>3
<1>11. DOMAIN Sorted(list) = D
  BY <1>3
<1> HIDE DEF place
<1>12. ASSUME NEW k \in D, NEW l \in D, k <= l
       PROVE  Sorted(list)[k] <= Sorted(list)[l]
  <2>1. /\ place(k) \in D /\ place(l) \in D /\ k \in Int /\ l \in Int
        /\ Cardinality(before(place(k))) = k - 1 /\ Cardinality(before(place(l))) = l - 1
    BY <1>1, <1>9
  <2>2. list[place(l)] < list[place(k)] => l - 1 < k - 1
    BY <1>5, <2>1
  <2>3. ~(list[place(l)] < list[place(k)])
    BY <1>12, <2>1, <2>2
  <2>4. /\ Sorted(list)[k] = list[place(k)] /\ Sorted(list)[l] = list[place(l)]
        /\ list[place(k)] \in Int /\ list[place(l)] \in Int
    BY <1>2, <1>10, <2>1
  <2> QED
    BY <2>3, <2>4
<1> QED
  BY <1>9, <1>10, <1>11, <1>12 DEF D

\* If r numbers fall to each of d places, the n-th of them falls to one of these.
LEMMA QuotientInRange ==
  ASSUME NEW d \in Nat, NEW r \in Nat \ {0}, NEW n \in 1 .. d * r
  PROVE  1 + ((n - 1) \div r) \in 1 .. d
<1> DEFINE q == (n - 1) \div r
           m == (n - 1) % r
<1>1. /\ q \in Int /\ m \in 0 .. r - 1 /\ n - 1 = r * q + m /\ n \in Nat /\ n >= 1
      /\ d * r \in Nat /\ n <= d * r
  OBVIOUS
<1> HIDE DEF q, m
<1>2. q >= 0
  BY <1>1
<1>3. q < d
  <2> SUFFICES ASSUME q >= d
               PROVE  FALSE
    BY <1>1
  <2>1. r * q >= d * r
    BY <1>1, <1>2
  <2> QED
    BY <1>1, <2>1
<1> QED
  BY <1>1, <1>2, <1>3 DEF q

\* A later one falls to a later place, or to the same.
LEMMA QuotientMonotone ==
  ASSUME NEW r \in Nat \ {0}, NEW i \in Nat, NEW j \in Nat, i <= j
  PROVE  i \div r <= j \div r
<1> DEFINE p == i \div r
           q == j \div r
<1>1. /\ p \in Int /\ i % r \in 0 .. r - 1 /\ i = r * p + (i % r)
      /\ q \in Int /\ j % r \in 0 .. r - 1 /\ j = r * q + (j % r)
  OBVIOUS
<1> HIDE DEF p, q
<1>2. PICK k \in 0 .. r - 1, l \in 0 .. r - 1 : i = r * p + k /\ j = r * q + l
  BY <1>1
<1>3. p <= q
  <2> SUFFICES ASSUME p >= q + 1
               PROVE  FALSE
    BY <1>1
  <2>1. r * p >= r * (q + 1) /\ r * (q + 1) = r * q + r
    BY <1>1
  <2> QED
    BY <1>1, <1>2, <2>1
<1> QED
  BY <1>3 DEF p, q
=============================================================================
