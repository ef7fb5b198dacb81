------------------------ MODULE EventScheduler_proofs ------------------------
(***************************************************************************)
(* The heap of EventScheduler, for any objects, times and number of adds:  *)
(* its sifts keep the objects and the heap order, so that the heap         *)
(* delivers as a stable queue.                                             *)
(***************************************************************************)
EXTENDS EventScheduler, Scheduling_proofs, SequenceTheorems

-----------------------------------------------------------------------------
\* The sifts are recursive functions of an array and a position.

Arrays(n) == [1 .. n -> Objects]

\* Positions and their parents.
LEMMA Parents ==
  ASSUME NEW i \in Nat, i > 1
  PROVE  /\ i \div 2 \in Nat /\ 1 <= i \div 2 /\ i \div 2 < i
         /\ i = 2 * (i \div 2) \/ i = 2 * (i \div 2) + 1
  OBVIOUS

\* Exchanging two objects gives an array of the same objects.
LEMMA SwapProperties ==
  ASSUME NEW n \in Nat, NEW h \in Arrays(n), NEW i \in 1 .. n, NEW j \in 1 .. n
  PROVE  /\ Swap(h, i, j) \in Arrays(n)
         /\ Swap(h, i, j) = [k \in 1 .. n |-> IF k = i THEN IF i = j THEN h[i] ELSE h[j]
                                              ELSE IF k = j THEN h[i] ELSE h[k]]
  BY DEF Swap, Arrays

RiseStep(f, h, i, ev) ==
  IF i = 1 \/ ~Precedes(ev[h[i]], ev[h[i \div 2]])
  THEN h
  ELSE f[i \div 2][Swap(h, i, i \div 2)]

IsRise(f, n, m, ev) == f = [i \in 1 .. m |-> [h \in Arrays(n) |-> RiseStep(f, h, i, ev)]]

\* A position depends on its parent, which is smaller.
LEMMA RiseExists ==
  ASSUME NEW n \in Nat, NEW m \in Nat, NEW ev
  PROVE  \E f : IsRise(f, n, m, ev)
<1> DEFINE T == {k \in 0 .. m : \E f : IsRise(f, n, k, ev)}
<1>1. 0 \in T
  <2> DEFINE f == [i \in 1 .. 0 |-> {}]
  <2>1. IsRise(f, n, 0, ev)
    BY DEF IsRise
  <2> QED
    BY <2>1
<1>2. ASSUME NEW k \in 1 .. m, k - 1 \in T
      PROVE  k \in T
  <2>1. PICK g : g = [i \in 1 .. k - 1 |-> [h \in Arrays(n) |-> RiseStep(g, h, i, ev)]]
    BY <1>2 DEF IsRise
  <2> PICK f : f = [i \in 1 .. k |-> [h \in Arrays(n) |-> RiseStep(g, h, i, ev)]]
    OBVIOUS
  <2>2. ASSUME NEW h \in Arrays(n), NEW i \in 1 .. k
        PROVE  RiseStep(f, h, i, ev) = RiseStep(g, h, i, ev)
    <3>1. CASE i = 1
      BY <3>1 DEF RiseStep
    <3>2. CASE i # 1
      <4>1. i \div 2 \in 1 .. k - 1
        BY <3>2, Parents
      <4>2. f[i \div 2] = [x \in Arrays(n) |-> RiseStep(g, x, i \div 2, ev)]
        BY <4>1
      <4>3. g[i \div 2] = [x \in Arrays(n) |-> RiseStep(g, x, i \div 2, ev)]
        BY <2>1, <4>1
      <4> QED
        BY <4>2, <4>3 DEF RiseStep
    <3> QED
      BY <3>1, <3>2
  <2>3. \A i \in 1 .. k : [h \in Arrays(n) |-> RiseStep(f, h, i, ev)]
                         = [h \in Arrays(n) |-> RiseStep(g, h, i, ev)]
    BY <2>2
  <2>4. f = [i \in 1 .. k |-> [h \in Arrays(n) |-> RiseStep(f, h, i, ev)]]
    BY <2>3
  <2> QED
    BY <2>4 DEF IsRise
<1> HIDE DEF T
<1>3. \A k \in 0 .. m : k \in T
  BY <1>1, <1>2, UpTo
<1> QED
  BY <1>3 DEF T

\* What rising is, from a position of the array.
LEMMA RiseEquation ==
  ASSUME NEW n \in Nat, NEW m \in 1 .. n, NEW ev
  PROVE  \E f : /\ IsRise(f, n, m, ev)
                /\ \A h \in Arrays(n) : Rise(h, m, ev) = f[m][h]
<1> DEFINE F == CHOOSE f : IsRise(f, n, m, ev)
<1>1. IsRise(F, n, m, ev)
  BY RiseExists
<1>2. ASSUME NEW h \in Arrays(n)
      PROVE  Rise(h, m, ev) = F[m][h]
  <2>1. DOMAIN h = 1 .. n
    BY DEF Arrays
  <2> QED
    BY <2>1 DEF Rise, IsRise, RiseStep, Arrays
<1> HIDE DEF F
<1> QED
  BY <1>1, <1>2

-----------------------------------------------------------------------------
\* What a sift does.

\* x may stand above y.
Leq(ev, x, y) == ~Precedes(ev[y], ev[x])

Typed(h, ev) ==
  \A k \in DOMAIN h : ev[h[k]].timestamp \in Int /\ ev[h[k]].sequence \in Int

\* No object stands above one that precedes it.
HeapOrder(h, ev) == \A j \in DOMAIN h \ {1} : Leq(ev, h[j \div 2], h[j])

\* The heap order but for the object at i, which may have to rise.
RisesAt(h, i, ev) ==
  /\ \A j \in DOMAIN h \ {1, i} : Leq(ev, h[j \div 2], h[j])
  /\ i # 1 => \A j \in DOMAIN h \ {1} : j \div 2 = i => Leq(ev, h[i \div 2], h[j])

\* The heap order but for the object at i, which may have to move either way.
HoleAt(h, i, ev) ==
  /\ \A j \in DOMAIN h \ {1, i} : j \div 2 # i => Leq(ev, h[j \div 2], h[j])
  /\ i # 1 => \A j \in DOMAIN h \ {1} : j \div 2 = i => Leq(ev, h[i \div 2], h[j])

ObjectsOf(h) == {h[k] : k \in DOMAIN h}
NoneTwice(h) == \A j, k \in DOMAIN h : h[j] = h[k] => j = k

Rearranged(g, h) ==
  /\ ObjectsOf(g) = ObjectsOf(h)
  /\ NoneTwice(h) => NoneTwice(g)

\* The order of events is total.
LEMMA LeqProperties ==
  ASSUME NEW ev, NEW x, NEW y, NEW z,
         ev[x].timestamp \in Int /\ ev[x].sequence \in Int,
         ev[y].timestamp \in Int /\ ev[y].sequence \in Int,
         ev[z].timestamp \in Int /\ ev[z].sequence \in Int
  PROVE  /\ Leq(ev, x, y) /\ Leq(ev, y, z) => Leq(ev, x, z)
         /\ Leq(ev, x, y) \/ Leq(ev, y, x)
         /\ Leq(ev, x, x)
         /\ Precedes(ev[x], ev[y]) => Leq(ev, x, y)
  BY DEF Leq, Precedes

\* An exchange loses no object and makes none appear twice.
LEMMA SwapRearranges ==
  ASSUME NEW n \in Nat, NEW h \in Arrays(n), NEW i \in 1 .. n, NEW j \in 1 .. n
  PROVE  Rearranged(Swap(h, i, j), h)
<1> PICK g : g = Swap(h, i, j)
  OBVIOUS
<1>1. /\ DOMAIN g = 1 .. n /\ DOMAIN h = 1 .. n
      /\ g[i] = h[j] /\ g[j] = h[i]
      /\ \A k \in 1 .. n : k # i /\ k # j => g[k] = h[k]
  BY SwapProperties DEF Arrays
<1>2. ObjectsOf(g) = ObjectsOf(h)
  BY <1>1 DEF ObjectsOf
<1>3. NoneTwice(h) => NoneTwice(g)
  BY <1>1 DEF NoneTwice
<1> QED
  BY <1>2, <1>3 DEF Rearranged

\* Rearranging twice is rearranging.
LEMMA RearrangedTwice ==
  ASSUME NEW f, NEW g, NEW h, Rearranged(f, g), Rearranged(g, h)
  PROVE  Rearranged(f, h)
  BY DEF Rearranged

\* The objects are the same, and so are their types.
LEMMA RearrangedTyped ==
  ASSUME NEW g, NEW h, Rearranged(g, h), NEW ev, Typed(h, ev)
  PROVE  Typed(g, ev)
<1> SUFFICES ASSUME NEW k \in DOMAIN g
             PROVE  ev[g[k]].timestamp \in Int /\ ev[g[k]].sequence \in Int
  BY DEF Typed
<1>1. g[k] \in ObjectsOf(h)
  BY DEF Rearranged, ObjectsOf
<1> QED
  BY <1>1 DEF Typed, ObjectsOf

\* An object that precedes its parent changes places with it and may have to
\* rise further.
LEMMA RiseOnce ==
  ASSUME NEW n \in Nat, NEW h \in Arrays(n), NEW ev, Typed(h, ev), NEW i \in 2 .. n,
         RisesAt(h, i, ev), Precedes(ev[h[i]], ev[h[i \div 2]])
  PROVE  RisesAt(Swap(h, i, i \div 2), i \div 2, ev)
<1> PICK p : p = i \div 2
  OBVIOUS
<1> PICK g : g = Swap(h, i, p)
  OBVIOUS
<1>1. p \in 1 .. n /\ p < i
  BY Parents
<1>2. /\ DOMAIN g = 1 .. n /\ DOMAIN h = 1 .. n
      /\ g[i] = h[p] /\ g[p] = h[i]
      /\ \A k \in 1 .. n : k # i /\ k # p => g[k] = h[k]
  BY <1>1, SwapProperties DEF Arrays
<1>3. \A k \in 1 .. n : ev[h[k]].timestamp \in Int /\ ev[h[k]].sequence \in Int
  BY <1>2 DEF Typed
<1>4. Leq(ev, h[i], h[p])
  BY <1>1, <1>3, LeqProperties
<1>5. /\ \A j \in 2 .. n : j # i => Leq(ev, h[j \div 2], h[j])
      /\ \A j \in 2 .. n : j \div 2 = i => Leq(ev, h[p], h[j])
  <2>1. \A j \in 2 .. n : j \in DOMAIN h \ {1}
    BY <1>2
  <2> QED
    BY <2>1 DEF RisesAt
<1>6. ASSUME NEW j \in 2 .. n, j # p
      PROVE  Leq(ev, g[j \div 2], g[j])
  <2>0. j \div 2 \in 1 .. n /\ j \div 2 < j
    BY Parents
  <2>1. CASE j = i
    BY <1>2, <1>4, <2>1
  <2>2. CASE j # i /\ j \div 2 = p
    <3>1. Leq(ev, h[p], h[j]) /\ g[j] = h[j]
      BY <1>2, <1>5, <1>6, <2>2
    <3>2. Leq(ev, h[i], h[j])
      BY <1>1, <1>3, <1>4, <3>1, LeqProperties
    <3> QED
      BY <1>2, <2>2, <3>1, <3>2
  <2>3. CASE j # i /\ j \div 2 = i
    BY <1>2, <1>5, <1>6, <2>3
  <2>4. CASE j # i /\ j \div 2 # p /\ j \div 2 # i
    BY <1>2, <1>5, <1>6, <2>0, <2>4
  <2> QED
    BY <2>1, <2>2, <2>3, <2>4
<1>7. ASSUME p # 1, NEW j \in 2 .. n, j \div 2 = p
      PROVE  Leq(ev, g[p \div 2], g[j])
  <2>1. p \div 2 \in 1 .. n /\ p \div 2 < p
    BY <1>1, <1>7, Parents
  <2>2. Leq(ev, h[p \div 2], h[p]) /\ g[p \div 2] = h[p \div 2]
    BY <1>1, <1>2, <1>5, <1>7, <2>1
  <2>3. j < n + 1 /\ j > p
    BY <1>7, Parents
  <2>4. CASE j = i
    BY <1>2, <2>2, <2>4
  <2>5. CASE j # i
    <3>1. Leq(ev, h[p], h[j]) /\ g[j] = h[j]
      BY <1>2, <1>5, <1>7, <2>3, <2>5
    <3> QED
      BY <1>1, <1>3, <2>1, <2>2, <3>1, LeqProperties
  <2> QED
    BY <2>4, <2>5
<1>8. RisesAt(g, p, ev)
  <2>1. \A j \in DOMAIN g \ {1, p} : j \in 2 .. n /\ j # p
    BY <1>2
  <2>2. \A j \in DOMAIN g \ {1} : j \in 2 .. n
    BY <1>2
  <2> QED
    BY <1>6, <1>7, <2>1, <2>2 DEF RisesAt
<1> QED
  BY <1>8

\* So rising keeps the objects and restores the heap order.
LEMMA RiseProperties ==
  ASSUME NEW n \in Nat, NEW m \in 1 .. n, NEW h \in Arrays(n), NEW ev
  PROVE  /\ Rise(h, m, ev) \in Arrays(n)
         /\ Rearranged(Rise(h, m, ev), h)
         /\ Typed(h, ev) /\ RisesAt(h, m, ev) => HeapOrder(Rise(h, m, ev), ev)
<1> PICK f : /\ IsRise(f, n, m, ev)
             /\ \A x \in Arrays(n) : Rise(x, m, ev) = f[m][x]
  BY RiseEquation
<1> DEFINE Good(i) == \A x \in Arrays(n) :
             /\ f[i][x] \in Arrays(n)
             /\ Rearranged(f[i][x], x)
             /\ Typed(x, ev) /\ RisesAt(x, i, ev) => HeapOrder(f[i][x], ev)
           T == {k \in 0 .. m : \A i \in 1 .. k : Good(i)}
<1>1. 0 \in T
  OBVIOUS
<1>2. ASSUME NEW k \in 1 .. m, k - 1 \in T
      PROVE  k \in T
  <2>1. \A i \in 1 .. k - 1 : Good(i)
    BY <1>2
  <2> SUFFICES ASSUME NEW x \in Arrays(n)
               PROVE  /\ f[k][x] \in Arrays(n)
                      /\ Rearranged(f[k][x], x)
                      /\ Typed(x, ev) /\ RisesAt(x, k, ev) => HeapOrder(f[k][x], ev)
    BY <2>1
  <2>2. DOMAIN x = 1 .. n
    BY DEF Arrays
  <2>3. f[k][x] = RiseStep(f, x, k, ev)
    BY DEF IsRise
  <2>4. CASE k = 1 \/ ~Precedes(ev[x[k]], ev[x[k \div 2]])
    <3>1. f[k][x] = x
      BY <2>3, <2>4 DEF RiseStep
    <3>2. RisesAt(x, k, ev) => HeapOrder(x, ev)
      BY <2>2, <2>4 DEF RisesAt, HeapOrder, Leq
    <3> QED
      BY <3>1, <3>2 DEF Rearranged
  <2>5. CASE k # 1 /\ Precedes(ev[x[k]], ev[x[k \div 2]])
    <3> PICK p : p = k \div 2
      OBVIOUS
    <3> PICK g : g = Swap(x, k, p)
      OBVIOUS
    <3>1. p \in 1 .. k - 1 /\ p \in 1 .. n
      BY <2>5, Parents
    <3>2. f[k][x] = f[p][g]
      BY <2>3, <2>5 DEF RiseStep
    <3>3. g \in Arrays(n) /\ Rearranged(g, x)
      BY <3>1, SwapProperties, SwapRearranges, SMTT(30)
    <3>4. /\ f[p][g] \in Arrays(n) /\ Rearranged(f[p][g], g)
          /\ Typed(g, ev) /\ RisesAt(g, p, ev) => HeapOrder(f[p][g], ev)
      BY <2>1, <3>1, <3>3
    <3>5. Rearranged(f[p][g], x)
      BY <3>3, <3>4, RearrangedTwice
    <3>6. Typed(x, ev) /\ RisesAt(x, k, ev) => Typed(g, ev) /\ RisesAt(g, p, ev)
      BY <2>5, <3>3, RearrangedTyped, RiseOnce
    <3> QED
      BY <3>2, <3>4, <3>5, <3>6
  <2> QED
    BY <2>4, <2>5
<1> HIDE DEF T
<1>3. \A k \in 0 .. m : k \in T
  BY <1>1, <1>2, UpTo
<1>4. Good(m)
  BY <1>3 DEF T
<1> QED
  BY <1>4

-----------------------------------------------------------------------------
\* The way down.

SinkStep(f, h, i, n, ev) ==
  IF 2 * i > n THEN Rise(h, i, ev)
  ELSE f[SmallerChild(h, i, ev)][Swap(h, i, SmallerChild(h, i, ev))]

IsSink(f, n, d, ev) ==
  f = [i \in n - d + 1 .. n |-> [h \in Arrays(n) |-> SinkStep(f, h, i, n, ev)]]

\* The child along which the item sinks: the other one does not precede it.
LEMMA SmallerChildProperties ==
  ASSUME NEW n \in Nat, NEW h \in Arrays(n), NEW ev, NEW i \in 1 .. n, 2 * i <= n
  PROVE  /\ SmallerChild(h, i, ev) \in i + 1 .. n
         /\ SmallerChild(h, i, ev) \div 2 = i
         /\ Typed(h, ev) =>
              \A j \in 2 .. n : j \div 2 = i => Leq(ev, h[SmallerChild(h, i, ev)], h[j])
<1>1. Len(h) = n /\ DOMAIN h = 1 .. n
  BY DEF Arrays
<1> PICK c : c = SmallerChild(h, i, ev)
  OBVIOUS
<1>2. /\ c = 2 * i \/ (c = 2 * i + 1 /\ c <= n)
      /\ c = 2 * i + 1 => Leq(ev, h[2 * i + 1], h[2 * i])
      /\ c = 2 * i => 2 * i + 1 > n \/ Precedes(ev[h[2 * i]], ev[h[2 * i + 1]])
  BY <1>1 DEF SmallerChild, Leq
<1>3. c \in i + 1 .. n /\ c \div 2 = i
  BY <1>2
<1>4. ASSUME Typed(h, ev), NEW j \in 2 .. n, j \div 2 = i
      PROVE  Leq(ev, h[c], h[j])
  <2>1. \A k \in 1 .. n : ev[h[k]].timestamp \in Int /\ ev[h[k]].sequence \in Int
    BY <1>1, <1>4 DEF Typed
  <2>2. j = 2 * i \/ j = 2 * i + 1
    BY <1>4, Parents
  <2>3. CASE j = c
    BY <2>1, <2>3, LeqProperties
  <2>4. CASE j # c
    BY <1>2, <1>3, <2>1, <2>2, <2>4, LeqProperties
  <2> QED
    BY <2>3, <2>4
<1> QED
  BY <1>3, <1>4

\* A position depends on one of its children, which are larger.
LEMMA SinkExists ==
  ASSUME NEW n \in Nat, NEW ev
  PROVE  \E f : IsSink(f, n, n, ev)
<1> DEFINE T == {d \in 0 .. n : \E f : IsSink(f, n, d, ev)}
<1>1. 0 \in T
  <2> DEFINE f == [i \in n + 1 .. n |-> {}]
  <2>1. n - 0 + 1 .. n = {} /\ n + 1 .. n = {}
    OBVIOUS
  <2>2. IsSink(f, n, 0, ev)
    BY <2>1 DEF IsSink
  <2> QED
    BY <2>2
<1>2. ASSUME NEW d \in 1 .. n, d - 1 \in T
      PROVE  d \in T
  <2>1. PICK g : IsSink(g, n, d - 1, ev)
    BY <1>2
  <2>2. g = [i \in n - d + 2 .. n |-> [h \in Arrays(n) |-> SinkStep(g, h, i, n, ev)]]
    <3>1. n - (d - 1) + 1 = n - d + 2
      OBVIOUS
    <3> QED
      BY <2>1, <3>1 DEF IsSink
  <2> PICK f : f = [i \in n - d + 1 .. n |-> [h \in Arrays(n) |-> SinkStep(g, h, i, n, ev)]]
    OBVIOUS
  <2>3. ASSUME NEW h \in Arrays(n), NEW i \in n - d + 1 .. n
        PROVE  SinkStep(f, h, i, n, ev) = SinkStep(g, h, i, n, ev)
    <3>1. CASE 2 * i > n
      BY <3>1 DEF SinkStep
    <3>2. CASE ~(2 * i > n)
      <4> PICK c : c = SmallerChild(h, i, ev)
        OBVIOUS
      <4>1. c \in n - d + 2 .. n
        BY <3>2, SmallerChildProperties
      <4>2. f[c] = [x \in Arrays(n) |-> SinkStep(g, x, c, n, ev)]
        BY <4>1
      <4>3. g[c] = [x \in Arrays(n) |-> SinkStep(g, x, c, n, ev)]
        BY <2>2, <4>1
      <4> QED
        BY <4>2, <4>3 DEF SinkStep
    <3> QED
      BY <3>1, <3>2
  <2>4. \A i \in n - d + 1 .. n : [h \in Arrays(n) |-> SinkStep(f, h, i, n, ev)]
                                = [h \in Arrays(n) |-> SinkStep(g, h, i, n, ev)]
    BY <2>3
  <2>5. f = [i \in n - d + 1 .. n |-> [h \in Arrays(n) |-> SinkStep(f, h, i, n, ev)]]
    BY <2>4
  <2> QED
    BY <2>5 DEF IsSink
<1> HIDE DEF T
<1>3. \A d \in 0 .. n : d \in T
  BY <1>1, <1>2, UpTo
<1> QED
  BY <1>3 DEF T

\* What sinking is, from the root.
SinkFun(D, n, ev) ==
  CHOOSE f : f = [i \in D |-> [h \in [D -> Objects] |-> SinkStep(f, h, i, n, ev)]]

\* The function that the definition chooses is one of those that exist.
LEMMA SinkEquation ==
  ASSUME NEW n \in Nat \ {0}, NEW ev
  PROVE  \E f : /\ \A i \in 1 .. n : \A h \in Arrays(n) : f[i][h] = SinkStep(f, h, i, n, ev)
                /\ \A h \in Arrays(n) : Sink(h, ev) = f[1][h]
<1> PICK F : F = SinkFun(1 .. n, n, ev)
  OBVIOUS
<1>1. \E f : f = [i \in 1 .. n |-> [h \in Arrays(n) |-> SinkStep(f, h, i, n, ev)]]
  <2>1. PICK f : IsSink(f, n, n, ev)
    BY SinkExists
  <2>2. n - n + 1 = 1
    OBVIOUS
  <2> QED
    BY <2>1, <2>2 DEF IsSink
<1>2. F = [i \in 1 .. n |-> [h \in Arrays(n) |-> SinkStep(F, h, i, n, ev)]]
  BY <1>1 DEF SinkFun, Arrays
<1>3. ASSUME NEW h \in Arrays(n)
      PROVE  Sink(h, ev) = F[1][h]
  <2>1. DOMAIN h = 1 .. n /\ Len(h) = n
    BY DEF Arrays
  <2>2. Sink(h, ev) = SinkFun(DOMAIN h, Len(h), ev)[1][h]
    BY DEF Sink, SinkFun, SinkStep
  <2> QED
    BY <2>1, <2>2
<1>4. \A i \in 1 .. n : \A h \in Arrays(n) : F[i][h] = SinkStep(F, h, i, n, ev)
  BY <1>2
<1> QED
  BY <1>3, <1>4

\* The smaller child takes the place of the item.
LEMMA SinkOnce ==
  ASSUME NEW n \in Nat, NEW h \in Arrays(n), NEW ev, Typed(h, ev), NEW i \in 1 .. n,
         2 * i <= n, HoleAt(h, i, ev)
  PROVE  HoleAt(Swap(h, i, SmallerChild(h, i, ev)), SmallerChild(h, i, ev), ev)
<1> PICK c : c = SmallerChild(h, i, ev)
  OBVIOUS
<1> PICK g : g = Swap(h, i, c)
  OBVIOUS
<1>1. /\ c \in i + 1 .. n /\ c \div 2 = i
      /\ \A j \in 2 .. n : j \div 2 = i => Leq(ev, h[c], h[j])
  BY SmallerChildProperties
<1>2. /\ DOMAIN g = 1 .. n /\ DOMAIN h = 1 .. n
      /\ g[i] = h[c] /\ g[c] = h[i]
      /\ \A k \in 1 .. n : k # i /\ k # c => g[k] = h[k]
  BY <1>1, SwapProperties DEF Arrays
<1>3. /\ \A j \in 2 .. n : j # i /\ j \div 2 # i => Leq(ev, h[j \div 2], h[j])
      /\ i # 1 => \A j \in 2 .. n : j \div 2 = i => Leq(ev, h[i \div 2], h[j])
  <2>1. \A j \in 2 .. n : j \in DOMAIN h \ {1}
    BY <1>2
  <2> QED
    BY <2>1 DEF HoleAt
<1>4. ASSUME NEW j \in 2 .. n, j # c, j \div 2 # c
      PROVE  Leq(ev, g[j \div 2], g[j])
  <2>1. j \div 2 \in 1 .. n /\ j \div 2 < j
    BY Parents
  <2>2. CASE j = i
    <3>1. Leq(ev, h[i \div 2], h[c])
      BY <1>1, <1>3, <2>2
    <3> QED
      BY <1>2, <1>4, <2>1, <2>2, <3>1
  <2>3. CASE j # i /\ j \div 2 = i
    BY <1>1, <1>2, <1>4, <2>3
  <2>4. CASE j # i /\ j \div 2 # i
    BY <1>2, <1>3, <1>4, <2>1, <2>4
  <2> QED
    BY <2>2, <2>3, <2>4
<1>5. ASSUME NEW j \in 2 .. n, j \div 2 = c
      PROVE  Leq(ev, g[c \div 2], g[j])
  <2>1. j > c /\ c > i
    BY <1>1, <1>5, Parents
  <2>2. Leq(ev, h[c], h[j])
    BY <1>1, <1>3, <1>5, <2>1
  <2> QED
    BY <1>1, <1>2, <2>1, <2>2
<1>6. HoleAt(g, c, ev)
  <2>1. \A j \in DOMAIN g \ {1, c} : j \in 2 .. n /\ j # c
    BY <1>2
  <2>2. \A j \in DOMAIN g \ {1} : j \in 2 .. n
    BY <1>2
  <2> QED
    BY <1>4, <1>5, <2>1, <2>2 DEF HoleAt
<1> QED
  BY <1>6

\* So sinking keeps the objects and restores the heap order.
LEMMA SinkProperties ==
  ASSUME NEW n \in Nat \ {0}, NEW h \in Arrays(n), NEW ev
  PROVE  /\ Sink(h, ev) \in Arrays(n)
         /\ Rearranged(Sink(h, ev), h)
         /\ Typed(h, ev) /\ HoleAt(h, 1, ev) => HeapOrder(Sink(h, ev), ev)
<1> PICK f : /\ \A i \in 1 .. n : \A x \in Arrays(n) : f[i][x] = SinkStep(f, x, i, n, ev)
             /\ \A x \in Arrays(n) : Sink(x, ev) = f[1][x]
  BY SinkEquation
<1> DEFINE Good(i) == \A x \in Arrays(n) :
             /\ f[i][x] \in Arrays(n)
             /\ Rearranged(f[i][x], x)
             /\ Typed(x, ev) /\ HoleAt(x, i, ev) => HeapOrder(f[i][x], ev)
           T == {d \in 0 .. n : \A i \in n - d + 1 .. n : Good(i)}
<1>1. 0 \in T
  OBVIOUS
<1>2. ASSUME NEW d \in 1 .. n, d - 1 \in T
      PROVE  d \in T
  <2> PICK i : i = n - d + 1
    OBVIOUS
  <2>1. \A k \in i + 1 .. n : Good(k)
    BY <1>2
  <2>2. i \in 1 .. n /\ \A k \in n - d + 1 .. n : k = i \/ k \in i + 1 .. n
    OBVIOUS
  <2> SUFFICES ASSUME NEW x \in Arrays(n)
               PROVE  /\ f[i][x] \in Arrays(n)
                      /\ Rearranged(f[i][x], x)
                      /\ Typed(x, ev) /\ HoleAt(x, i, ev) => HeapOrder(f[i][x], ev)
    BY <2>1, <2>2
  <2>3. DOMAIN x = 1 .. n /\ Len(x) = n
    BY DEF Arrays
  <2>4. f[i][x] = SinkStep(f, x, i, n, ev)
    BY <2>2
  <2>5. CASE 2 * i > n
    <3>1. f[i][x] = Rise(x, i, ev)
      BY <2>4, <2>5 DEF SinkStep
    <3>2. HoleAt(x, i, ev) => RisesAt(x, i, ev)
      <4>1. \A j \in 2 .. n : j \div 2 # i
        BY <2>2, <2>5, Parents
      <4> QED
        BY <2>3, <4>1 DEF HoleAt, RisesAt
    <3> QED
      BY <2>2, <3>1, <3>2, RiseProperties
  <2>6. CASE ~(2 * i > n)
    <3> PICK c : c = SmallerChild(x, i, ev)
      OBVIOUS
    <3> PICK g : g = Swap(x, i, c)
      OBVIOUS
    <3>1. c \in i + 1 .. n
      BY <2>2, <2>6, SmallerChildProperties
    <3>2. f[i][x] = f[c][g]
      BY <2>4, <2>6 DEF SinkStep
    <3>3. g \in Arrays(n) /\ Rearranged(g, x)
      BY <2>2, <3>1, SwapProperties, SwapRearranges
    <3>4. /\ f[c][g] \in Arrays(n) /\ Rearranged(f[c][g], g)
          /\ Typed(g, ev) /\ HoleAt(g, c, ev) => HeapOrder(f[c][g], ev)
      BY <2>1, <3>1, <3>3
    <3>5. Rearranged(f[c][g], x)
      BY <3>3, <3>4, RearrangedTwice
    <3>6. Typed(x, ev) /\ HoleAt(x, i, ev) => Typed(g, ev) /\ HoleAt(g, c, ev)
      BY <2>2, <2>6, <3>3, RearrangedTyped, SinkOnce
    <3> QED
      BY <3>2, <3>4, <3>5, <3>6
  <2> QED
    BY <2>5, <2>6
<1> HIDE DEF T
<1>3. \A d \in 0 .. n : d \in T
  BY <1>1, <1>2, UpTo
<1>4. Good(1)
  BY <1>3 DEF T
<1> QED
  BY <1>4

-----------------------------------------------------------------------------
\* Pushing and popping.

\* Arrays are sequences.
LEMMA ArraysAreSequences ==
  ASSUME NEW n \in Nat, NEW h
  PROVE  h \in Arrays(n) <=> h \in Seq(Objects) /\ Len(h) = n
<1>1. h \in Arrays(n) => h \in Seq(Objects) /\ Len(h) = n
  BY DEF Arrays
<1>2. h \in Seq(Objects) /\ Len(h) = n => h \in Arrays(n)
  BY DEF Arrays
<1> QED
  BY <1>1, <1>2

\* The new object is behind the others until it rises.
LEMMA PushProperties ==
  ASSUME NEW n \in Nat, NEW h \in Arrays(n), NEW x \in Objects, NEW ev
  PROVE  LET g == HeapPush(h, x, ev)
         IN  /\ g \in Arrays(n + 1)
             /\ ObjectsOf(g) = ObjectsOf(h) \cup {x}
             /\ NoneTwice(h) /\ x \notin ObjectsOf(h) => NoneTwice(g)
             /\ /\ HeapOrder(h, ev) /\ Typed(h, ev)
                /\ ev[x].timestamp \in Int /\ ev[x].sequence \in Int
                => HeapOrder(g, ev)
<1> PICK b : b = Append(h, x)
  OBVIOUS
<1> PICK g : g = HeapPush(h, x, ev)
  OBVIOUS
<1>1. /\ h \in Seq(Objects) /\ Len(h) = n /\ DOMAIN h = 1 .. n
      /\ b \in Arrays(n + 1) /\ DOMAIN b = 1 .. n + 1
      /\ b[n + 1] = x /\ \A k \in 1 .. n : b[k] = h[k]
  <2>1. h \in Seq(Objects) /\ Len(h) = n /\ DOMAIN h = 1 .. n
    BY ArraysAreSequences
  <2>2. b \in Seq(Objects) /\ Len(b) = n + 1
    BY <2>1
  <2>3. b[n + 1] = x /\ \A k \in 1 .. n : b[k] = h[k]
    BY <2>1
  <2>4. n + 1 \in Nat
    OBVIOUS
  <2>5. b \in Arrays(n + 1)
    BY <2>2, <2>4, ArraysAreSequences
  <2>6. DOMAIN b = 1 .. n + 1
    BY <2>5 DEF Arrays
  <2> QED
    BY <2>1, <2>3, <2>5, <2>6
<1>2. /\ g \in Arrays(n + 1) /\ Rearranged(g, b)
      /\ Typed(b, ev) /\ RisesAt(b, n + 1, ev) => HeapOrder(g, ev)
  BY <1>1, RiseProperties DEF HeapPush
<1>3. ObjectsOf(b) = ObjectsOf(h) \cup {x}
  BY <1>1 DEF ObjectsOf
<1>4. NoneTwice(h) /\ x \notin ObjectsOf(h) => NoneTwice(b)
  BY <1>1 DEF NoneTwice, ObjectsOf
<1>5. ASSUME HeapOrder(h, ev), Typed(h, ev), ev[x].timestamp \in Int, ev[x].sequence \in Int
      PROVE  HeapOrder(g, ev)
  <2>1. Typed(b, ev)
    BY <1>1, <1>5 DEF Typed
  <2>2. ASSUME NEW j \in DOMAIN b \ {1, n + 1}
        PROVE  Leq(ev, b[j \div 2], b[j])
    <3>1. j \in 2 .. n /\ j \div 2 \in 1 .. n
      BY <1>1, <2>2, Parents
    <3>2. j \in DOMAIN h \ {1}
      BY <1>1, <3>1
    <3> QED
      BY <1>1, <1>5, <3>1, <3>2 DEF HeapOrder
  <2>3. \A j \in DOMAIN b \ {1} : j \div 2 # n + 1
    <3>1. \A j \in DOMAIN b \ {1} : j \in 2 .. n + 1
      BY <1>1
    <3> QED
      BY <3>1, Parents
  <2> QED
    BY <1>2, <2>1, <2>2, <2>3 DEF RisesAt
<1>6. ObjectsOf(g) = ObjectsOf(h) \cup {x}
  BY <1>2, <1>3 DEF Rearranged
<1>7. NoneTwice(h) /\ x \notin ObjectsOf(h) => NoneTwice(g)
  BY <1>2, <1>4 DEF Rearranged
<1> QED
  BY <1>2, <1>5, <1>6, <1>7

\* The last object takes the place of the root and sinks.
LEMMA PopProperties ==
  ASSUME NEW n \in Nat \ {0}, NEW h \in Arrays(n), NEW ev
  PROVE  LET g == HeapPop(h, ev)
         IN  /\ g \in Arrays(n - 1)
             /\ ObjectsOf(g) \subseteq ObjectsOf(h)
             /\ NoneTwice(h) => NoneTwice(g) /\ ObjectsOf(g) = ObjectsOf(h) \ {h[1]}
             /\ HeapOrder(h, ev) /\ Typed(h, ev) => HeapOrder(g, ev)
<1> PICK g : g = HeapPop(h, ev)
  OBVIOUS
<1>1. h \in Seq(Objects) /\ Len(h) = n /\ DOMAIN h = 1 .. n
  BY ArraysAreSequences
<1>2. CASE n = 1
  <2>1. g = <<>>
    BY <1>1, <1>2 DEF HeapPop
  <2>2. g \in Arrays(n - 1) /\ DOMAIN g = {}
    <3>1. <<>> \in Arrays(0)
      <4>1. <<>> \in Seq(Objects) /\ Len(<<>>) = 0 /\ 0 \in Nat
        OBVIOUS
      <4> QED
        BY <4>1, ArraysAreSequences
    <3> QED
      BY <1>2, <2>1, <3>1
  <2>3. ObjectsOf(g) = {} /\ NoneTwice(g) /\ HeapOrder(g, ev)
    BY <2>2 DEF ObjectsOf, NoneTwice, HeapOrder
  <2>4. ObjectsOf(h) = {h[1]}
    BY <1>1, <1>2 DEF ObjectsOf
  <2> QED
    BY <2>2, <2>3, <2>4
<1>3. CASE n # 1
  <2> PICK b : b = [SubSeq(h, 1, n - 1) EXCEPT ![1] = h[n]]
    OBVIOUS
  <2>1. /\ b \in Arrays(n - 1) /\ DOMAIN b = 1 .. n - 1
        /\ b[1] = h[n] /\ \A k \in 2 .. n - 1 : b[k] = h[k]
    <3> PICK s : s = SubSeq(h, 1, n - 1)
      OBVIOUS
    <3>1. s = [k \in 1 .. n - 1 |-> h[k]]
      BY <1>1, <1>3
    <3>2. b = [k \in 1 .. n - 1 |-> IF k = 1 THEN h[n] ELSE h[k]]
      BY <1>3, <3>1
    <3>3. \A k \in 1 .. n : h[k] \in Objects
      BY <1>1
    <3> QED
      BY <1>3, <3>2, <3>3 DEF Arrays
  <2>2. n - 1 \in Nat \ {0} /\ g = Sink(b, ev)
    BY <1>1, <1>3 DEF HeapPop
  <2>3. /\ g \in Arrays(n - 1) /\ Rearranged(g, b)
        /\ Typed(b, ev) /\ HoleAt(b, 1, ev) => HeapOrder(g, ev)
    BY <2>1, <2>2, SinkProperties
  <2>4. ObjectsOf(b) \subseteq ObjectsOf(h)
    <3>1. \A k \in 1 .. n - 1 : b[k] = h[n] \/ b[k] = h[k]
      BY <2>1
    <3>2. n \in 1 .. n /\ \A k \in 1 .. n - 1 : k \in 1 .. n
      OBVIOUS
    <3>3. \A k \in 1 .. n - 1 : \E j \in 1 .. n : b[k] = h[j]
      BY <3>1, <3>2
    <3> QED
      BY <1>1, <2>1, <3>3 DEF ObjectsOf
  <2>5. ASSUME NoneTwice(h)
        PROVE  NoneTwice(b) /\ ObjectsOf(b) = ObjectsOf(h) \ {h[1]}
    <3>1. \A j, k \in 1 .. n : h[j] = h[k] => j = k
      BY <1>1, <2>5 DEF NoneTwice
    <3>2. NoneTwice(b)
      BY <2>1, <3>1 DEF NoneTwice
    <3>3. h[1] \notin ObjectsOf(b)
      <4>1. 1 \in 1 .. n /\ n \in 1 .. n /\ h[1] # h[n]
        BY <1>3, <3>1
      <4>2. ASSUME NEW k \in 1 .. n - 1
            PROVE  b[k] # h[1]
        <5>1. k # 1 => k \in 2 .. n - 1 /\ k \in 1 .. n
          OBVIOUS
        <5>2. CASE k = 1
          BY <2>1, <4>1, <5>2
        <5>3. CASE k # 1
          BY <2>1, <3>1, <4>1, <5>1, <5>3
        <5> QED
          BY <5>2, <5>3
      <4> QED
        BY <2>1, <4>2 DEF ObjectsOf
    <3>4. ASSUME NEW k \in 2 .. n
          PROVE  \E j \in 1 .. n - 1 : b[j] = h[k]
      <4>1. CASE k = n
        <5>1. 1 \in 1 .. n - 1 /\ b[1] = h[k]
          BY <1>3, <2>1, <4>1
        <5> QED
          BY <5>1
      <4>2. CASE k # n
        <5>1. k \in 1 .. n - 1 /\ b[k] = h[k]
          BY <2>1, <4>2
        <5> QED
          BY <5>1
      <4> QED
        BY <4>1, <4>2
    <3>5. \A x \in ObjectsOf(h) : x # h[1] => x \in ObjectsOf(b)
      <4> SUFFICES ASSUME NEW k \in 1 .. n, h[k] # h[1]
                   PROVE  h[k] \in ObjectsOf(b)
        BY <1>1 DEF ObjectsOf
      <4>1. k \in 2 .. n
        OBVIOUS
      <4> QED
        BY <2>1, <3>4, <4>1 DEF ObjectsOf
    <3> QED
      BY <2>4, <3>2, <3>3, <3>5
  <2>6. ASSUME HeapOrder(h, ev), Typed(h, ev)
        PROVE  HeapOrder(g, ev)
    <3>1. Typed(b, ev)
      <4>1. \A k \in 1 .. n : ev[h[k]].timestamp \in Int /\ ev[h[k]].sequence \in Int
        BY <1>1, <2>6 DEF Typed
      <4> QED
        BY <1>3, <2>1, <4>1 DEF Typed
    <3>2. ASSUME NEW j \in DOMAIN b \ {1}, j \div 2 # 1
          PROVE  Leq(ev, b[j \div 2], b[j])
      <4>1. j \in 2 .. n - 1 /\ j \div 2 \in 2 .. n - 1
        BY <2>1, <3>2, Parents
      <4>2. j \in DOMAIN h \ {1}
        BY <1>1, <4>1
      <4> QED
        BY <2>1, <2>6, <4>1, <4>2 DEF HeapOrder
    <3> QED
      BY <2>3, <3>1, <3>2 DEF HoleAt
  <2> QED
    BY <2>3, <2>4, <2>5, <2>6 DEF Rearranged
<1> QED
  BY <1>2, <1>3

\* The root precedes all others.
LEMMA RootFirst ==
  ASSUME NEW n \in Nat, NEW h \in Arrays(n), NEW ev, Typed(h, ev), HeapOrder(h, ev)
  PROVE  \A j \in 1 .. n : Leq(ev, h[1], h[j])
<1>1. DOMAIN h = 1 .. n
  BY DEF Arrays
<1>2. \A k \in 1 .. n : ev[h[k]].timestamp \in Int /\ ev[h[k]].sequence \in Int
  BY <1>1 DEF Typed
<1> DEFINE T == {m \in 0 .. n : \A j \in 1 .. m : Leq(ev, h[1], h[j])}
<1>3. 0 \in T
  OBVIOUS
<1>4. ASSUME NEW m \in 1 .. n, m - 1 \in T
      PROVE  m \in T
  <2>1. \A j \in 1 .. m - 1 : Leq(ev, h[1], h[j])
    BY <1>4
  <2>2. Leq(ev, h[1], h[m])
    <3>1. CASE m = 1
      BY <1>2, <3>1, LeqProperties
    <3>2. CASE m # 1
      <4>1. m \div 2 \in 1 .. m - 1 /\ m \div 2 \in 1 .. n /\ m \in DOMAIN h \ {1}
        BY <1>1, <3>2, Parents
      <4>2. Leq(ev, h[m \div 2], h[m]) /\ Leq(ev, h[1], h[m \div 2])
        BY <2>1, <4>1 DEF HeapOrder
      <4>3. 1 \in 1 .. n
        OBVIOUS
      <4> QED
        BY <1>2, <4>1, <4>2, <4>3, LeqProperties
    <3> QED
      BY <3>1, <3>2
  <2> QED
    BY <2>1, <2>2
<1> HIDE DEF T
<1>5. \A m \in 0 .. n : m \in T
  BY <1>3, <1>4, UpTo
<1> QED
  BY <1>5 DEF T

-----------------------------------------------------------------------------
\* Types and stamps.

\* What is pending was created and stamped.
StampInv ==
  /\ heap \in Seq(Objects)
  /\ ObjectsOf(heap) \subseteq Created /\ Created \subseteq Objects
  /\ \A x \in Created : event[x].timestamp \in Times /\ event[x].sequence \in Nat
  /\ \A x \in ObjectsOf(heap) : event[x].sequence < sequence_counter
  /\ sequence_counter \in 0 .. MaxSequence
  /\ returned \in Objects \cup {"none", "IndexError", "StopIteration"}

\* No object is pending twice, no stamp is given twice.
HeapInv ==
  /\ HeapOrder(heap, event)
  /\ NoneTwice(heap)
  /\ \A x, y \in ObjectsOf(heap) : event[x].sequence = event[y].sequence => x = y

\* The array as an array, and the fields of what it holds.
LEMMA HeapTypes ==
  ASSUME StampInv
  PROVE  /\ Len(heap) \in Nat /\ heap \in Arrays(Len(heap)) /\ DOMAIN heap = 1 .. Len(heap)
         /\ \A x \in ObjectsOf(heap) : event[x].timestamp \in Int /\ event[x].sequence \in Int
         /\ Typed(heap, event)
         /\ heap # <<>> => Len(heap) \in Nat \ {0} /\ heap[1] \in Objects
<1>1. Len(heap) \in Nat /\ heap \in Arrays(Len(heap)) /\ DOMAIN heap = 1 .. Len(heap)
  BY ArraysAreSequences DEF StampInv
<1>2. \A x \in ObjectsOf(heap) : event[x].timestamp \in Int /\ event[x].sequence \in Int
  <2> SUFFICES ASSUME NEW x \in ObjectsOf(heap)
               PROVE  event[x].timestamp \in Int /\ event[x].sequence \in Int
    OBVIOUS
  <2>1. event[x].timestamp \in Times /\ event[x].sequence \in Nat
    BY DEF StampInv
  <2>2. Times \subseteq Int
    BY SchedulerAssumption
  <2>3. event[x].timestamp \in Int
    BY <2>1, <2>2, Zenon
  <2>4. event[x].sequence \in Int
    BY <2>1
  <2> QED
    BY <2>3, <2>4
<1>3. Typed(heap, event)
  BY <1>2 DEF Typed, ObjectsOf
<1>4. heap # <<>> => Len(heap) \in Nat \ {0} /\ heap[1] \in Objects
  BY DEF StampInv
<1> QED
  BY <1>1, <1>2, <1>3, <1>4

\* What an add does to the objects' fields: it creates the object or stamps it
\* anew, with a stamp that no pending object has.
LEMMA AddProperties ==
  ASSUME StampInv, NEW x \in Objects, NEW t \in Times, AddStamped(x, t)
  PROVE  /\ Created' = Created \cup {x}
         /\ event'[x].timestamp = t /\ event'[x].sequence = sequence_counter
         /\ \A y \in Created : y # x => event'[y] = event[y]
         /\ sequence_counter < MaxSequence /\ sequence_counter' = sequence_counter + 1
         /\ ObjectsOf(heap') = ObjectsOf(heap) \cup {x}
         /\ StampInv'
         /\ returned' = x
<1>1. /\ event' = [o \in Created \cup {x} |->
                    IF o = x THEN [timestamp |-> t, sequence |-> sequence_counter]
                             ELSE event[o]]
      /\ sequence_counter < MaxSequence /\ sequence_counter' = sequence_counter + 1
      /\ heap' = HeapPush(heap, x, event')
      /\ returned' = x
  BY DEF AddStamped
<1>2. /\ Created' = Created \cup {x}
      /\ event'[x] = [timestamp |-> t, sequence |-> sequence_counter]
      /\ \A y \in Created : y # x => event'[y] = event[y]
  BY <1>1 DEF Created
<1>3. event'[x].timestamp = t /\ event'[x].sequence = sequence_counter
  BY <1>2
<1>4. heap' \in Arrays(Len(heap) + 1) /\ ObjectsOf(heap') = ObjectsOf(heap) \cup {x}
  BY <1>1, HeapTypes, PushProperties
<1>5. heap' \in Seq(Objects)
  BY <1>4, HeapTypes, ArraysAreSequences
<1>6. sequence_counter \in Nat /\ sequence_counter' \in 0 .. MaxSequence
  BY <1>1, SchedulerAssumption DEF StampInv
<1>7. StampInv'
  <2>1. /\ ObjectsOf(heap) \subseteq Created /\ Created \subseteq Objects
        /\ \A y \in Created : event[y].timestamp \in Times /\ event[y].sequence \in Nat
        /\ \A y \in ObjectsOf(heap) : event[y].sequence < sequence_counter
    BY DEF StampInv
  <2>2. ObjectsOf(heap') \subseteq Created' /\ Created' \subseteq Objects
    BY <1>2, <1>4, <2>1
  <2>3. \A y \in Created' : event'[y].timestamp \in Times /\ event'[y].sequence \in Nat
    BY <1>2, <1>3, <1>6, <2>1
  <2>4. \A y \in ObjectsOf(heap') : event'[y].sequence < sequence_counter'
    <3> SUFFICES ASSUME NEW y \in ObjectsOf(heap')
                 PROVE  event'[y].sequence < sequence_counter + 1
      BY <1>1
    <3>1. CASE y = x
      BY <1>3, <1>6, <3>1
    <3>2. CASE y # x
      <4>1. y \in Created /\ event[y].sequence < sequence_counter /\ event[y].sequence \in Nat
        BY <1>4, <2>1, <3>2
      <4> QED
        BY <1>2, <1>6, <3>2, <4>1
    <3> QED
      BY <3>1, <3>2
  <2> QED
    BY <1>1, <1>5, <1>6, <2>2, <2>3, <2>4 DEF StampInv
<1> QED
  BY <1>1, <1>2, <1>3, <1>4, <1>7

\* A removal, from any kind of caller.
Removes == heap # <<>> /\ heap' = HeapPop(heap, event) /\ event' = event

\* A removal takes the root and keeps the rest.
LEMMA RemovalProperties ==
  ASSUME StampInv, Removes
  PROVE  /\ heap' \in Seq(Objects)
         /\ ObjectsOf(heap') \subseteq ObjectsOf(heap)
         /\ HeapInv => HeapInv' /\ ObjectsOf(heap') = ObjectsOf(heap) \ {heap[1]}
<1>1. /\ heap' \in Arrays(Len(heap) - 1) /\ ObjectsOf(heap') \subseteq ObjectsOf(heap)
      /\ NoneTwice(heap) => NoneTwice(heap') /\ ObjectsOf(heap') = ObjectsOf(heap) \ {heap[1]}
      /\ HeapOrder(heap, event) => HeapOrder(heap', event)
  BY HeapTypes, PopProperties DEF Removes
<1>2. heap' \in Seq(Objects)
  <2>1. Len(heap) - 1 \in Nat
    BY HeapTypes DEF Removes
  <2> QED
    BY <1>1, <2>1, ArraysAreSequences
<1>3. HeapInv => HeapInv'
  BY <1>1 DEF HeapInv, Removes
<1> QED
  BY <1>1, <1>2, <1>3 DEF HeapInv

\* The steps, as far as the heap and the stamps are concerned.
StepKinds ==
  \/ \E x \in Objects, t \in Times :
       AddStamped(x, t) /\ (x \in ObjectsOf(heap) => ReaddPending)
  \/ /\ Removes /\ sequence_counter' = sequence_counter
     /\ returned' = heap[1]
  \/ /\ heap' = heap /\ event' = event /\ sequence_counter' = sequence_counter
     /\ \/ heap = <<>> /\ returned' \in {"IndexError", "StopIteration"}
        \/ returned' = IF heap = <<>> THEN "none" ELSE heap[1]
        \/ returned' = returned
  \/ ClearAll

\* Every step is of one of these kinds.
LEMMA StepsAreOfKinds == StampInv /\ [Next]_vars => StepKinds
<1> SUFFICES ASSUME StampInv, [Next]_vars
             PROVE  StepKinds
  OBVIOUS
<1>1. \A x \in Objects : InHeap(x) <=> x \in ObjectsOf(heap)
  BY DEF InHeap, ObjectsOf
<1>2. ASSUME NEW x \in Objects, NEW t \in Times, Schedule(x, t)
      PROVE  StepKinds
  BY <1>2 DEF StepKinds, Schedule, StampInv
<1>3. ASSUME NEW x \in Objects, AddExisting(x)
      PROVE  StepKinds
  <2>1. event[x].timestamp \in Times
    BY <1>3 DEF AddExisting, StampInv
  <2> QED
    BY <1>1, <1>3, <2>1 DEF StepKinds, AddExisting
<1>4. CASE NextEvent \/ Iterate
  BY <1>4 DEF StepKinds, NextEvent, Iterate, Removes
<1>5. CASE PeekEvent
  BY <1>5 DEF StepKinds, PeekEvent
<1>6. CASE ClearAll
  BY <1>6 DEF StepKinds
<1>7. CASE UNCHANGED vars
  BY <1>7 DEF StepKinds, vars
<1> QED
  BY <1>2, <1>3, <1>4, <1>5, <1>6, <1>7 DEF Next

\* clear resets the counter and empties the heap.
LEMMA StampNext == StampInv /\ [Next]_vars => StampInv'
<1> SUFFICES ASSUME StampInv, StepKinds
             PROVE  StampInv'
  BY StepsAreOfKinds
<1>1. ASSUME NEW x \in Objects, NEW t \in Times, AddStamped(x, t)
      PROVE  StampInv'
  BY <1>1, AddProperties
<1>2. CASE Removes /\ sequence_counter' = sequence_counter /\ returned' = heap[1]
  <2>1. heap' \in Seq(Objects) /\ ObjectsOf(heap') \subseteq ObjectsOf(heap) /\ heap[1] \in Objects
    BY <1>2, RemovalProperties, HeapTypes DEF Removes
  <2> QED
    BY <1>2, <2>1 DEF StampInv, Removes, Created
<1>3. CASE /\ heap' = heap /\ event' = event /\ sequence_counter' = sequence_counter
           /\ \/ heap = <<>> /\ returned' \in {"IndexError", "StopIteration"}
              \/ returned' = IF heap = <<>> THEN "none" ELSE heap[1]
              \/ returned' = returned
  <2>1. heap # <<>> => heap[1] \in Objects
    BY HeapTypes
  <2> QED
    BY <1>3, <2>1 DEF StampInv, Created
<1>4. CASE ClearAll
  <2>1. ObjectsOf(<<>>) = {}
    BY DEF ObjectsOf
  <2> QED
    BY <1>4, <2>1, SchedulerAssumption DEF ClearAll, StampInv, Created
<1> QED
  BY <1>1, <1>2, <1>3, <1>4 DEF StepKinds

\* A new scheduler holds nothing.
LEMMA StampInit == Init => StampInv
<1>1. ObjectsOf(<<>>) = {} /\ DOMAIN <<>> = {}
  BY DEF ObjectsOf
<1> QED
  BY <1>1, SchedulerAssumption DEF Init, StampInv, Created

\* The stamps of what is pending are known to the counter.
LEMMA StampInvariant == Spec => []StampInv
  BY StampInit, StampNext, PTL DEF Spec

\* The types, however callers use the scheduler, with objects added while they
\* are pending as well: the stamp of a pending object is one that the counter has
\* passed (scheduler.py:44-47, 128-131).
THEOREM SchedulerTypeCorrect == Spec => []TypeOK
<1>1. StampInv => TypeOK
  <2> SUFFICES ASSUME StampInv PROVE TypeOK
    OBVIOUS
  <2>1. sequence_counter \in Nat
    BY DEF StampInv
  <2>2. ASSUME NEW i \in DOMAIN heap
        PROVE  event[heap[i]].sequence \in 0 .. sequence_counter - 1
    <3>1. heap[i] \in ObjectsOf(heap)
      BY DEF ObjectsOf
    <3> QED
      BY <2>1, <3>1 DEF StampInv
  <2> QED
    BY <2>2 DEF StampInv, TypeOK
<1> QED
  BY <1>1, StampInvariant, PTL

-----------------------------------------------------------------------------
\* The order of delivery.

Item(x, ev) == [item |-> x, timestamp |-> ev[x].timestamp]

DrainStep(f, k, h, ev) ==
  IF k = 0 THEN <<>> ELSE <<Item(h[1], ev)>> \o f[k - 1][HeapPop(h, ev)]

IsDrain(f, n, ev) == f = [k \in 0 .. n |-> [h \in Arrays(k) |-> DrainStep(f, k, h, ev)]]

\* What an array delivers depends on a shorter one.
LEMMA DrainExists ==
  ASSUME NEW n \in Nat, NEW ev
  PROVE  \E f : IsDrain(f, n, ev)
<1> DEFINE T == {k \in 0 .. n : \E f : IsDrain(f, k, ev)}
<1>1. 0 \in T
  <2> PICK f : f = [k \in 0 .. 0 |-> [h \in Arrays(k) |-> <<>>]]
    OBVIOUS
  <2>1. \A k \in 0 .. 0 : [h \in Arrays(k) |-> DrainStep(f, k, h, ev)] = [h \in Arrays(k) |-> <<>>]
    BY DEF DrainStep
  <2>2. IsDrain(f, 0, ev)
    BY <2>1 DEF IsDrain
  <2> QED
    BY <2>2
<1>2. ASSUME NEW m \in 1 .. n, m - 1 \in T
      PROVE  m \in T
  <2>1. PICK g : g = [k \in 0 .. m - 1 |-> [h \in Arrays(k) |-> DrainStep(g, k, h, ev)]]
    BY <1>2 DEF IsDrain
  <2> PICK f : f = [k \in 0 .. m |-> [h \in Arrays(k) |-> DrainStep(g, k, h, ev)]]
    OBVIOUS
  <2>2. ASSUME NEW k \in 0 .. m, NEW h \in Arrays(k)
        PROVE  DrainStep(f, k, h, ev) = DrainStep(g, k, h, ev)
    <3>1. CASE k = 0
      BY <3>1 DEF DrainStep
    <3>2. CASE k # 0
      <4>1. k - 1 \in 0 .. m - 1 /\ k - 1 \in 0 .. m
        BY <3>2
      <4>2. f[k - 1] = [x \in Arrays(k - 1) |-> DrainStep(g, k - 1, x, ev)]
        BY <4>1
      <4>3. g[k - 1] = [x \in Arrays(k - 1) |-> DrainStep(g, k - 1, x, ev)]
        BY <2>1, <4>1
      <4> QED
        BY <4>2, <4>3 DEF DrainStep
    <3> QED
      BY <3>1, <3>2
  <2>3. \A k \in 0 .. m : [h \in Arrays(k) |-> DrainStep(f, k, h, ev)]
                        = [h \in Arrays(k) |-> DrainStep(g, k, h, ev)]
    BY <2>2
  <2>4. f = [k \in 0 .. m |-> [h \in Arrays(k) |-> DrainStep(f, k, h, ev)]]
    BY <2>3
  <2> QED
    BY <2>4 DEF IsDrain
<1> HIDE DEF T
<1>3. \A k \in 0 .. n : k \in T
  BY <1>1, <1>2, UpTo
<1> QED
  BY <1>3 DEF T

\* The function that DeliveryOrder chooses is one of those that exist.
LEMMA DrainEquation ==
  ASSUME StampInv
  PROVE  \E f : IsDrain(f, Len(heap), event) /\ DeliveryOrder = f[Len(heap)][heap]
<1> PICK n \in Nat : n = Len(heap)
  BY HeapTypes
<1> PICK F : F = CHOOSE f : IsDrain(f, n, event)
  OBVIOUS
<1>1. IsDrain(F, n, event)
  BY DrainExists
<1>2. DeliveryOrder = F[n][heap]
  BY DEF DeliveryOrder, IsDrain, DrainStep, Item, Arrays
<1> QED
  BY <1>1, <1>2

\* An array in the order of delivery.
InOrder(d, ev) == \A i, j \in DOMAIN d : i < j => Precedes(ev[d[i]], ev[d[j]])

Deliverable(h, ev) ==
  /\ Typed(h, ev) /\ HeapOrder(h, ev) /\ NoneTwice(h)
  /\ \A x, y \in ObjectsOf(h) : ev[x].sequence = ev[y].sequence => x = y

Delivery(q, d, n, h, ev) ==
  /\ d \in Arrays(n)
  /\ q = [i \in 1 .. n |-> Item(d[i], ev)]
  /\ ObjectsOf(d) = ObjectsOf(h)
  /\ InOrder(d, ev)

\* A sequence with one element put in front.
LEMMA Prepend ==
  ASSUME NEW k \in Nat \ {0}, NEW s, NEW e, NEW S, e \in S, s \in Seq(S), Len(s) = k - 1
  PROVE  /\ <<e>> \o s \in Seq(S)
         /\ <<e>> \o s = [i \in 1 .. k |-> IF i = 1 THEN e ELSE s[i - 1]]
<1>1. /\ <<e>> \in Seq(S) /\ Len(<<e>>) = 1 /\ <<e>>[1] = e
  OBVIOUS
<1>2. /\ <<e>> \o s \in Seq(S) /\ Len(<<e>> \o s) = k
      /\ \A i \in 1 .. k : (<<e>> \o s)[i] = IF i <= 1 THEN <<e>>[i] ELSE s[i - 1]
  BY <1>1, ConcatProperties
<1>3. \A i \in 1 .. k : (<<e>> \o s)[i] = IF i = 1 THEN e ELSE s[i - 1]
  BY <1>1, <1>2
<1> QED
  BY <1>2, <1>3

\* The root is delivered first, then what the rest delivers.
LEMMA FirstThenRest ==
  ASSUME NEW k \in Nat \ {0}, NEW h \in Arrays(k), NEW ev, Deliverable(h, ev),
         NEW q, NEW c, Delivery(q, c, k - 1, HeapPop(h, ev), ev)
  PROVE  \E d : Delivery(<<Item(h[1], ev)>> \o q, d, k, h, ev)
<1> PICK g : g = HeapPop(h, ev)
  OBVIOUS
<1> PICK d : d = [i \in 1 .. k |-> IF i = 1 THEN h[1] ELSE c[i - 1]]
  OBVIOUS
<1>1. /\ c \in Arrays(k - 1) /\ q = [i \in 1 .. k - 1 |-> Item(c[i], ev)]
      /\ ObjectsOf(c) = ObjectsOf(h) \ {h[1]}
      /\ InOrder(c, ev)
  BY PopProperties DEF Delivery, Deliverable
<1>2. /\ DOMAIN c = 1 .. k - 1 /\ DOMAIN h = 1 .. k /\ DOMAIN d = 1 .. k
      /\ h[1] \in Objects /\ \A i \in 1 .. k - 1 : c[i] \in Objects
      /\ d[1] = h[1] /\ \A i \in 2 .. k : d[i] = c[i - 1] /\ i - 1 \in 1 .. k - 1
  BY <1>1 DEF Arrays
<1>3. d \in Arrays(k)
  BY <1>2 DEF Arrays
<1>4. h[1] \in ObjectsOf(h)
  BY <1>2 DEF ObjectsOf
<1>5. ObjectsOf(d) = ObjectsOf(h)
  <2>1. ASSUME NEW x \in ObjectsOf(d)
        PROVE  x \in ObjectsOf(h)
    <3>1. PICK i \in 1 .. k : x = d[i]
      BY <1>2 DEF ObjectsOf
    <3>2. CASE i = 1
      BY <1>2, <1>4, <3>1, <3>2
    <3>3. CASE i # 1
      <4>1. x = c[i - 1] /\ i - 1 \in DOMAIN c
        BY <1>2, <3>1, <3>3
      <4>2. x \in ObjectsOf(c)
        BY <4>1 DEF ObjectsOf
      <4> QED
        BY <1>1, <4>2
    <3> QED
      BY <3>2, <3>3
  <2>2. ASSUME NEW x \in ObjectsOf(h)
        PROVE  x \in ObjectsOf(d)
    <3>1. CASE x = h[1]
      <4>1. 1 \in DOMAIN d /\ d[1] = x
        BY <1>2, <3>1
      <4> QED
        BY <4>1 DEF ObjectsOf
    <3>2. CASE x # h[1]
      <4>1. x \in ObjectsOf(c)
        BY <1>1, <3>2
      <4>2. PICK i \in 1 .. k - 1 : x = c[i]
        BY <1>2, <4>1 DEF ObjectsOf
      <4>3. i + 1 \in 2 .. k /\ (i + 1) - 1 = i
        OBVIOUS
      <4>4. d[i + 1] = x /\ i + 1 \in DOMAIN d
        BY <1>2, <4>2, <4>3
      <4> QED
        BY <4>4 DEF ObjectsOf
    <3> QED
      BY <3>1, <3>2
  <2> QED
    BY <2>1, <2>2
<1>6. ASSUME NEW y \in ObjectsOf(c)
      PROVE  Precedes(ev[h[1]], ev[y])
  <2>1. y \in ObjectsOf(h) /\ y # h[1]
    BY <1>1
  <2>2. PICK j \in 1 .. k : y = h[j]
    BY <1>2, <2>1 DEF ObjectsOf
  <2>3. Leq(ev, h[1], y)
    BY <2>2, RootFirst DEF Deliverable
  <2>4. ev[h[1]].sequence # ev[y].sequence
    BY <1>4, <2>1 DEF Deliverable
  <2>5. /\ ev[h[1]].timestamp \in Int /\ ev[h[1]].sequence \in Int
        /\ ev[y].timestamp \in Int /\ ev[y].sequence \in Int
    <3>1. 1 \in DOMAIN h /\ j \in DOMAIN h
      BY <1>2
    <3> QED
      BY <2>2, <3>1 DEF Deliverable, Typed
  <2> QED
    BY <2>3, <2>4, <2>5 DEF Leq, Precedes
<1>7. InOrder(d, ev)
  <2> SUFFICES ASSUME NEW i \in 1 .. k, NEW j \in 1 .. k, i < j
               PROVE  Precedes(ev[d[i]], ev[d[j]])
    BY <1>2 DEF InOrder
  <2>1. j \in 2 .. k
    OBVIOUS
  <2>2. d[j] = c[j - 1] /\ j - 1 \in DOMAIN c
    BY <1>2, <2>1
  <2>3. CASE i = 1
    <3>1. d[j] \in ObjectsOf(c)
      BY <2>2 DEF ObjectsOf
    <3> QED
      BY <1>2, <1>6, <2>3, <3>1
  <2>4. CASE i # 1
    <3>1. i \in 2 .. k /\ i - 1 < j - 1
      BY <2>4
    <3>2. d[i] = c[i - 1] /\ i - 1 \in DOMAIN c
      BY <1>2, <3>1
    <3> QED
      BY <1>1, <2>2, <3>1, <3>2 DEF InOrder
  <2> QED
    BY <2>3, <2>4
<1>8. <<Item(h[1], ev)>> \o q = [i \in 1 .. k |-> Item(d[i], ev)]
  <2> PICK S : S = {Item(h[1], ev)} \cup {Item(c[i], ev) : i \in 1 .. k - 1}
    OBVIOUS
  <2>1. q \in Seq(S) /\ Len(q) = k - 1
    <3>1. q \in [1 .. k - 1 -> S] /\ k - 1 \in Nat
      BY <1>1
    <3> QED
      BY <3>1
  <2>2. <<Item(h[1], ev)>> \o q = [i \in 1 .. k |-> IF i = 1 THEN Item(h[1], ev) ELSE q[i - 1]]
    BY <2>1, Prepend
  <2>3. \A i \in 1 .. k : (IF i = 1 THEN Item(h[1], ev) ELSE q[i - 1]) = Item(d[i], ev)
    <3> SUFFICES ASSUME NEW i \in 1 .. k, i # 1
                 PROVE  q[i - 1] = Item(d[i], ev)
      BY <1>2
    <3>1. i \in 2 .. k
      OBVIOUS
    <3> QED
      BY <1>1, <1>2, <3>1
  <2> QED
    BY <2>2, <2>3
<1> QED
  BY <1>3, <1>5, <1>7, <1>8 DEF Delivery

\* So the heap delivers its objects in order.
LEMMA DrainDelivers ==
  ASSUME NEW n \in Nat, NEW h \in Arrays(n), NEW ev, NEW f, IsDrain(f, n, ev),
         Deliverable(h, ev)
  PROVE  \E d : Delivery(f[n][h], d, n, h, ev)
<1> DEFINE Good(k) == \A x \in Arrays(k) :
             Deliverable(x, ev) => \E d : Delivery(f[k][x], d, k, x, ev)
           T == {k \in 0 .. n : Good(k)}
<1>1. 0 \in T
  <2> SUFFICES ASSUME NEW x \in Arrays(0), Deliverable(x, ev)
               PROVE  \E d : Delivery(f[0][x], d, 0, x, ev)
    OBVIOUS
  <2>1. f[0][x] = <<>>
    BY DEF IsDrain, DrainStep
  <2>2. DOMAIN x = {}
    BY DEF Arrays
  <2>3. <<>> = [i \in 1 .. 0 |-> Item(x[i], ev)]
    OBVIOUS
  <2>4. Delivery(<<>>, x, 0, x, ev)
    BY <2>2, <2>3 DEF Delivery, InOrder
  <2> QED
    BY <2>1, <2>4
<1>2. ASSUME NEW k \in 1 .. n, k - 1 \in T
      PROVE  k \in T
  <2> SUFFICES ASSUME NEW x \in Arrays(k), Deliverable(x, ev)
               PROVE  \E d : Delivery(f[k][x], d, k, x, ev)
    OBVIOUS
  <2> PICK g : g = HeapPop(x, ev)
    OBVIOUS
  <2>1. f[k][x] = <<Item(x[1], ev)>> \o f[k - 1][g]
    <3>1. k \in 0 .. n /\ k # 0
      OBVIOUS
    <3>2. f[k] = [y \in Arrays(k) |-> DrainStep(f, k, y, ev)]
      BY <3>1 DEF IsDrain
    <3>3. f[k][x] = DrainStep(f, k, x, ev)
      BY <3>2
    <3> QED
      BY <3>1, <3>3 DEF DrainStep
  <2>2. /\ g \in Arrays(k - 1) /\ ObjectsOf(g) \subseteq ObjectsOf(x)
        /\ NoneTwice(g) /\ HeapOrder(g, ev)
    BY PopProperties DEF Deliverable
  <2>3. Typed(g, ev)
    <3>1. \A y \in ObjectsOf(x) : ev[y].timestamp \in Int /\ ev[y].sequence \in Int
      BY DEF Deliverable, Typed, ObjectsOf
    <3>2. \A y \in ObjectsOf(g) : ev[y].timestamp \in Int /\ ev[y].sequence \in Int
      BY <2>2, <3>1
    <3> QED
      BY <3>2 DEF Typed, ObjectsOf
  <2>4. Deliverable(g, ev)
    BY <2>2, <2>3 DEF Deliverable
  <2>5. PICK c : Delivery(f[k - 1][g], c, k - 1, g, ev)
    BY <1>2, <2>2, <2>4
  <2> QED
    BY <2>1, <2>5, FirstThenRest
<1> HIDE DEF T
<1>3. \A k \in 0 .. n : k \in T
  BY <1>1, <1>2, UpTo
<1> QED
  BY <1>3 DEF T

\* An order of the same objects is the same order.
LEMMA OneOrder ==
  ASSUME NEW n \in Nat, NEW c \in Arrays(n), NEW d \in Arrays(n), NEW ev,
         Typed(c, ev), ObjectsOf(c) = ObjectsOf(d), InOrder(c, ev), InOrder(d, ev)
  PROVE  c = d
<1>1. DOMAIN c = 1 .. n /\ DOMAIN d = 1 .. n
  BY DEF Arrays
<1>2. \A i \in 1 .. n : \E j \in 1 .. n : c[i] = d[j]
  <2> SUFFICES ASSUME NEW i \in 1 .. n PROVE \E j \in 1 .. n : c[i] = d[j]
    OBVIOUS
  <2>1. c[i] \in ObjectsOf(d)
    BY <1>1 DEF ObjectsOf
  <2> QED
    BY <1>1, <2>1 DEF ObjectsOf
<1>3. \A i \in 1 .. n : \E j \in 1 .. n : d[i] = c[j]
  <2> SUFFICES ASSUME NEW i \in 1 .. n PROVE \E j \in 1 .. n : d[i] = c[j]
    OBVIOUS
  <2>1. d[i] \in ObjectsOf(c)
    BY <1>1 DEF ObjectsOf
  <2> QED
    BY <1>1, <2>1 DEF ObjectsOf
<1>4. /\ \A i \in 1 .. n : ev[c[i]].timestamp \in Int /\ ev[c[i]].sequence \in Int
      /\ \A i, j \in 1 .. n : i < j => Precedes(ev[c[i]], ev[c[j]])
      /\ \A i, j \in 1 .. n : i < j => Precedes(ev[d[i]], ev[d[j]])
  BY <1>1 DEF Typed, InOrder
<1> DEFINE T == {m \in 0 .. n : \A i \in 1 .. m : c[i] = d[i]}
<1>5. 0 \in T
  OBVIOUS
<1>6. ASSUME NEW m \in 1 .. n, m - 1 \in T
      PROVE  m \in T
  <2>1. \A i \in 1 .. m - 1 : c[i] = d[i]
    BY <1>6
  <2>2. PICK j \in 1 .. n : c[m] = d[j]
    BY <1>2
  <2>3. PICK k \in 1 .. n : d[m] = c[k]
    BY <1>3
  <2>4. ~(j < m)
    <3> SUFFICES ASSUME j < m PROVE FALSE
      OBVIOUS
    <3>1. c[j] = c[m]
      BY <2>1, <2>2
    <3>2. Precedes(ev[c[j]], ev[c[m]])
      BY <1>4
    <3> QED
      BY <1>4, <3>1, <3>2 DEF Precedes
  <2>5. ~(k < m)
    <3> SUFFICES ASSUME k < m PROVE FALSE
      OBVIOUS
    <3>1. d[k] = c[k]
      BY <2>1
    <3>2. Precedes(ev[d[k]], ev[d[m]])
      BY <1>4
    <3> QED
      BY <1>4, <2>3, <3>1, <3>2 DEF Precedes
  <2>6. c[m] = d[m]
    <3> SUFFICES ASSUME c[m] # d[m] PROVE FALSE
      OBVIOUS
    <3>1. m < j /\ m < k
      BY <2>2, <2>3, <2>4, <2>5
    <3>2. Precedes(ev[d[m]], ev[c[m]]) /\ Precedes(ev[c[m]], ev[d[m]])
      BY <1>4, <2>2, <2>3, <3>1
    <3>3. /\ ev[c[m]].timestamp \in Int /\ ev[c[m]].sequence \in Int
          /\ ev[d[m]].timestamp \in Int /\ ev[d[m]].sequence \in Int
      BY <1>4, <2>3
    <3> QED
      BY <3>2, <3>3 DEF Precedes
  <2> QED
    BY <2>1, <2>6
<1> HIDE DEF T
<1>7. \A m \in 0 .. n : m \in T
  BY <1>5, <1>6, UpTo
<1>8. \A i \in 1 .. n : c[i] = d[i]
  BY <1>7 DEF T
<1> QED
  BY <1>8 DEF Arrays

-----------------------------------------------------------------------------
\* The heap as long as callers add no object that is still pending.

\* Fields of other objects do not matter.
LEMMA OtherFields ==
  ASSUME NEW n \in Nat, NEW h \in Arrays(n), NEW ev, NEW ev2,
         \A x \in ObjectsOf(h) : ev2[x] = ev[x]
  PROVE  /\ HeapOrder(h, ev) => HeapOrder(h, ev2)
         /\ Typed(h, ev) => Typed(h, ev2)
<1>1. DOMAIN h = 1 .. n
  BY DEF Arrays
<1>2. \A k \in 1 .. n : ev2[h[k]] = ev[h[k]]
  BY <1>1 DEF ObjectsOf
<1>3. Typed(h, ev) => Typed(h, ev2)
  BY <1>1, <1>2 DEF Typed
<1>4. ASSUME HeapOrder(h, ev), NEW j \in DOMAIN h \ {1}
      PROVE  Leq(ev2, h[j \div 2], h[j])
  <2>1. j \in 2 .. n /\ j \div 2 \in 1 .. n
    BY <1>1, Parents
  <2>2. Leq(ev, h[j \div 2], h[j])
    BY <1>4 DEF HeapOrder
  <2> QED
    BY <1>2, <2>1, <2>2 DEF Leq
<1> QED
  BY <1>3, <1>4 DEF HeapOrder

\* An add of an object that is not pending.
LEMMA AddKeepsHeap ==
  ASSUME StampInv, HeapInv, NEW x \in Objects, NEW t \in Times, AddStamped(x, t),
         x \notin ObjectsOf(heap)
  PROVE  HeapInv'
<1>1. /\ event'[x].timestamp = t /\ event'[x].sequence = sequence_counter
      /\ \A y \in ObjectsOf(heap) : event'[y] = event[y]
      /\ ObjectsOf(heap') = ObjectsOf(heap) \cup {x}
  BY AddProperties DEF StampInv
<1>2. heap' = HeapPush(heap, x, event')
  BY DEF AddStamped
<1>3. /\ Len(heap) \in Nat /\ heap \in Arrays(Len(heap))
      /\ HeapOrder(heap, event') /\ Typed(heap, event')
  BY <1>1, HeapTypes, OtherFields DEF HeapInv
<1>4. event'[x].timestamp \in Int /\ event'[x].sequence \in Int
  <2>1. Times \subseteq Int
    BY SchedulerAssumption
  <2>2. t \in Int
    BY <2>1, Zenon
  <2> QED
    BY <1>1, <2>2 DEF StampInv
<1>5. HeapOrder(heap', event') /\ NoneTwice(heap')
  BY <1>2, <1>3, <1>4, PushProperties DEF HeapInv
<1>6. ASSUME NEW y \in ObjectsOf(heap'), NEW z \in ObjectsOf(heap'),
             event'[y].sequence = event'[z].sequence
      PROVE  y = z
  <2>1. \A o \in ObjectsOf(heap) : event[o].sequence \in Int /\ event[o].sequence < sequence_counter
    BY HeapTypes DEF StampInv
  <2>2. sequence_counter \in Int
    BY DEF StampInv
  <2>3. \A o \in ObjectsOf(heap) : event'[o].sequence # sequence_counter
    BY <1>1, <2>1, <2>2
  <2> QED
    BY <1>1, <1>6, <2>3 DEF HeapInv
<1> QED
  BY <1>5, <1>6 DEF HeapInv

\* Every step keeps the order of the heap.
LEMMA HeapNext == ~ReaddPending /\ StampInv /\ HeapInv /\ [Next]_vars => HeapInv'
<1> SUFFICES ASSUME ~ReaddPending, StampInv, HeapInv, StepKinds
             PROVE  HeapInv'
  BY StepsAreOfKinds
<1>1. ASSUME NEW x \in Objects, NEW t \in Times, AddStamped(x, t), x \notin ObjectsOf(heap)
      PROVE  HeapInv'
  BY <1>1, AddKeepsHeap
<1>2. CASE Removes
  BY <1>2, RemovalProperties
<1>3. CASE heap' = heap /\ event' = event
  BY <1>3 DEF HeapInv
<1>4. CASE ClearAll
  BY <1>4 DEF ClearAll, HeapInv, HeapOrder, NoneTwice, ObjectsOf
<1> QED
  BY <1>1, <1>2, <1>3, <1>4 DEF StepKinds

\* The empty heap is in order.
LEMMA HeapInit == Init => HeapInv
  BY DEF Init, HeapInv, HeapOrder, NoneTwice, ObjectsOf

\* What is to be delivered, as a sequence of objects.
Delivers(d) == Delivery(DeliveryOrder, d, Len(heap), heap, event)

\* The order of delivery is the order of the events.
LEMMA DeliveryInOrder == StampInv /\ HeapInv => \E d : Delivers(d)
<1> SUFFICES ASSUME StampInv, HeapInv PROVE \E d : Delivers(d)
  OBVIOUS
<1>1. PICK f : IsDrain(f, Len(heap), event) /\ DeliveryOrder = f[Len(heap)][heap]
  BY DrainEquation
<1>2. Deliverable(heap, event)
  BY HeapTypes DEF HeapInv, Deliverable
<1>3. \E d : Delivery(f[Len(heap)][heap], d, Len(heap), heap, event)
  BY <1>1, <1>2, HeapTypes, DrainDelivers
<1> QED
  BY <1>1, <1>3 DEF Delivers

-----------------------------------------------------------------------------
\* The stable queue.

\* Numbers up to n that are closed downwards are those up to some m.
LEMMA InitialSegment ==
  ASSUME NEW n \in Nat, NEW A, A \subseteq 1 .. n,
         \A i \in A : \A j \in 1 .. n : j < i => j \in A
  PROVE  \E m \in 0 .. n : A = 1 .. m /\ Cardinality(A) = m
<1> DEFINE B == {k \in 1 .. n + 1 : k \notin A}
<1>1. B \subseteq Nat /\ n + 1 \in B
  OBVIOUS
<1> HIDE DEF B
<1>2. PICK k \in B : \A j \in B : k <= j
  BY <1>1, LeastNatural
<1>3. k \in 1 .. n + 1 /\ k \notin A
  BY <1>2 DEF B
<1>4. \A j \in 1 .. n : j < k => j \in A
  BY <1>2, <1>3 DEF B
<1>5. \A i \in A : i < k
  <2> SUFFICES ASSUME NEW i \in A, ~(i < k) PROVE FALSE
    OBVIOUS
  <2>1. i \in 1 .. n /\ k # i
    BY <1>3
  <2>2. k \in 1 .. n /\ k < i
    BY <1>3, <2>1
  <2> QED
    BY <1>3, <2>2
<1>6. A = 1 .. k - 1
  <2>1. \A i \in A : i \in 1 .. k - 1
    BY <1>3, <1>5
  <2>2. \A i \in 1 .. k - 1 : i \in 1 .. n /\ i < k
    BY <1>3
  <2> QED
    BY <1>4, <2>1, <2>2
<1>7. Cardinality(1 .. k - 1) = k - 1
  BY <1>3, FS_Interval
<1> QED
  BY <1>3, <1>6, <1>7

\* A sequence with y in behind the first m elements.
Widened(n, m, q, y) == [i \in 1 .. n + 1 |-> IF i <= m THEN q[i]
                                             ELSE IF i = m + 1 THEN y ELSE q[i - 1]]

\* An object that is stamped last goes in behind those that are not later.
LEMMA PlaceOfNew ==
  ASSUME NEW n \in Nat, NEW d \in Arrays(n), NEW ev, NEW x \in Objects,
         Typed(d, ev), InOrder(d, ev), x \notin ObjectsOf(d),
         ev[x].timestamp \in Int, ev[x].sequence \in Int,
         \A y \in ObjectsOf(d) : ev[y].sequence < ev[x].sequence,
         NEW m \in 0 .. n,
         {i \in 1 .. n : ev[d[i]].timestamp <= ev[x].timestamp} = 1 .. m
  PROVE  LET e == Widened(n, m, d, x)
         IN  /\ e \in Arrays(n + 1)
             /\ ObjectsOf(e) = ObjectsOf(d) \cup {x}
             /\ InOrder(e, ev)
<1> PICK e : e = [i \in 1 .. n + 1 |-> IF i <= m THEN d[i]
                                       ELSE IF i = m + 1 THEN x ELSE d[i - 1]]
  OBVIOUS
<1>1. DOMAIN d = 1 .. n /\ DOMAIN e = 1 .. n + 1 /\ \A i \in 1 .. n : d[i] \in Objects
  BY DEF Arrays
<1>2. /\ \A i \in 1 .. m : e[i] = d[i]
      /\ e[m + 1] = x
      /\ \A i \in m + 2 .. n + 1 : e[i] = d[i - 1] /\ i - 1 \in 1 .. n /\ i - 1 > m
  OBVIOUS
<1>3. e \in Arrays(n + 1)
  <2> SUFFICES ASSUME NEW i \in 1 .. n + 1 PROVE e[i] \in Objects
    BY DEF Arrays
  <2>1. i \in 1 .. m \/ i = m + 1 \/ i \in m + 2 .. n + 1
    OBVIOUS
  <2>2. \A k \in 1 .. m : k \in 1 .. n
    OBVIOUS
  <2> QED
    BY <1>1, <1>2, <2>1, <2>2
<1>4. ObjectsOf(e) = ObjectsOf(d) \cup {x}
  <2>1. ASSUME NEW y \in ObjectsOf(e)
        PROVE  y \in ObjectsOf(d) \cup {x}
    <3>1. PICK i \in 1 .. n + 1 : y = e[i]
      BY <1>1 DEF ObjectsOf
    <3>2. y = x \/ \E j \in 1 .. n : y = d[j]
      <4>1. i \in 1 .. m \/ i = m + 1 \/ i \in m + 2 .. n + 1
        OBVIOUS
      <4>2. \A k \in 1 .. m : k \in 1 .. n
        OBVIOUS
      <4> QED
        BY <1>2, <3>1, <4>1, <4>2
    <3> QED
      BY <1>1, <3>2 DEF ObjectsOf
  <2>2. ASSUME NEW j \in 1 .. n
        PROVE  \E i \in 1 .. n + 1 : e[i] = d[j]
    <3>1. CASE j <= m
      <4>1. j \in 1 .. n + 1 /\ j \in 1 .. m
        BY <3>1
      <4> QED
        BY <1>2, <4>1
    <3>2. CASE ~(j <= m)
      <4>1. j + 1 \in m + 2 .. n + 1 /\ j + 1 \in 1 .. n + 1 /\ (j + 1) - 1 = j
        BY <3>2
      <4>2. e[j + 1] = d[j]
        BY <1>2, <4>1
      <4> QED
        BY <4>1, <4>2
    <3> QED
      BY <3>1, <3>2
  <2>3. m + 1 \in 1 .. n + 1
    OBVIOUS
  <2>4. x \in ObjectsOf(e)
    BY <1>1, <1>2, <2>3 DEF ObjectsOf
  <2>5. ASSUME NEW y \in ObjectsOf(d)
        PROVE  y \in ObjectsOf(e)
    <3>1. PICK j \in 1 .. n : y = d[j]
      BY <1>1 DEF ObjectsOf
    <3>2. \E i \in 1 .. n + 1 : e[i] = y
      BY <2>2, <3>1
    <3> QED
      BY <1>1, <3>2 DEF ObjectsOf
  <2> QED
    BY <2>1, <2>4, <2>5
<1>5. /\ \A i \in 1 .. m : Precedes(ev[d[i]], ev[x])
      /\ \A i \in m + 1 .. n : Precedes(ev[x], ev[d[i]])
  <2>1. \A i \in 1 .. n : ev[d[i]].timestamp \in Int /\ ev[d[i]].sequence \in Int
    BY <1>1 DEF Typed
  <2>2. \A i \in 1 .. n : d[i] \in ObjectsOf(d)
    BY <1>1 DEF ObjectsOf
  <2>3. \A i \in 1 .. m : i \in 1 .. n /\ ev[d[i]].timestamp <= ev[x].timestamp
    OBVIOUS
  <2>4. \A i \in m + 1 .. n : i \in 1 .. n /\ ~(ev[d[i]].timestamp <= ev[x].timestamp)
    OBVIOUS
  <2> QED
    BY <2>1, <2>2, <2>3, <2>4 DEF Precedes
<1>6. ASSUME NEW i \in 1 .. n + 1, NEW j \in 1 .. n + 1, i < j
      PROVE  Precedes(ev[e[i]], ev[e[j]])
  <2>1. \A k, l \in 1 .. n : k < l => Precedes(ev[d[k]], ev[d[l]])
    BY <1>1 DEF InOrder
  <2>2. CASE j <= m
    <3>1. i \in 1 .. m /\ j \in 1 .. m /\ i \in 1 .. n /\ j \in 1 .. n
      BY <1>6, <2>2
    <3> QED
      BY <1>2, <1>6, <2>1, <3>1
  <2>3. CASE j = m + 1
    <3>1. i \in 1 .. m
      BY <1>6, <2>3
    <3> QED
      BY <1>2, <1>5, <2>3, <3>1
  <2>4. CASE j > m + 1
    <3>1. j \in m + 2 .. n + 1 /\ j - 1 \in m + 1 .. n /\ j - 1 \in 1 .. n /\ e[j] = d[j - 1]
      BY <1>2, <2>4
    <3>2. CASE i <= m
      <4>1. i \in 1 .. m /\ i \in 1 .. n /\ i < j - 1
        BY <2>4, <3>2
      <4> QED
        BY <1>2, <2>1, <3>1, <4>1
    <3>3. CASE i = m + 1
      BY <1>2, <1>5, <3>1, <3>3
    <3>4. CASE i > m + 1
      <4>1. i \in m + 2 .. n + 1 /\ i - 1 \in 1 .. n /\ i - 1 < j - 1
        BY <1>6, <3>4
      <4> QED
        BY <1>2, <2>1, <3>1, <4>1
    <3> QED
      BY <3>2, <3>3, <3>4
  <2> QED
    BY <2>2, <2>3, <2>4
<1>7. InOrder(e, ev)
  BY <1>1, <1>6 DEF InOrder
<1> QED
  BY <1>3, <1>4, <1>7 DEF Widened

\* What is inserted into the queue.
LEMMA InsertedAt ==
  ASSUME NEW n \in Nat, NEW m \in 0 .. n, NEW S, NEW q \in Seq(S), Len(q) = n, NEW y \in S
  PROVE  SubSeq(q, 1, m) \o <<y>> \o SubSeq(q, m + 1, Len(q))
         = Widened(n, m, q, y)
<1> PICK a : a = SubSeq(q, 1, m)
  OBVIOUS
<1> PICK b : b = SubSeq(q, m + 1, n)
  OBVIOUS
<1> PICK c : c = a \o <<y>>
  OBVIOUS
<1> PICK r : r = c \o b
  OBVIOUS
<1>1. /\ a \in Seq(S) /\ Len(a) = m
      /\ \A i \in 1 .. m : a[i] = q[i]
  OBVIOUS
<1>2. /\ b \in Seq(S) /\ Len(b) = n - m
      /\ \A i \in 1 .. n - m : b[i] = q[m + i]
  <2>1. \A i \in m + 1 .. n : q[i] \in S
    OBVIOUS
  <2>2. /\ b \in Seq(S) /\ Len(b) = IF m + 1 <= n THEN n - (m + 1) + 1 ELSE 0
        /\ \A i \in 1 .. n - (m + 1) + 1 : b[i] = q[(m + 1) + i - 1]
    BY <2>1, SubSeqProperties
  <2>3. n - (m + 1) + 1 = n - m /\ \A i \in 1 .. n - m : (m + 1) + i - 1 = m + i
    OBVIOUS
  <2> QED
    BY <2>2, <2>3
<1>3. /\ c \in Seq(S) /\ Len(c) = m + 1
      /\ c[m + 1] = y /\ \A i \in 1 .. m : c[i] = q[i]
  <2> PICK w : w = <<y>>
    OBVIOUS
  <2>1. w \in Seq(S) /\ Len(w) = 1 /\ w[1] = y
    OBVIOUS
  <2>2. /\ c \in Seq(S) /\ Len(c) = Len(a) + Len(w)
        /\ \A i \in 1 .. Len(a) + Len(w) : c[i] = IF i <= Len(a) THEN a[i] ELSE w[i - Len(a)]
    <3>1. c = a \o w /\ a \in Seq(S)
      BY <1>1
    <3> QED
      BY <2>1, <3>1, ConcatProperties
  <2>3. /\ c \in Seq(S) /\ Len(c) = m + 1
        /\ \A i \in 1 .. m + 1 : c[i] = IF i <= m THEN a[i] ELSE w[i - m]
    BY <1>1, <2>1, <2>2
  <2>4. m + 1 \in 1 .. m + 1 /\ ~(m + 1 <= m) /\ (m + 1) - m = 1
    OBVIOUS
  <2>5. c[m + 1] = y
    BY <2>1, <2>3, <2>4
  <2>6. \A i \in 1 .. m : i \in 1 .. m + 1 /\ i <= m
    OBVIOUS
  <2> QED
    BY <1>1, <2>3, <2>5, <2>6
<1>4. /\ r \in Seq(S) /\ Len(r) = n + 1
      /\ \A i \in 1 .. n + 1 : r[i] = IF i <= m + 1 THEN c[i] ELSE b[i - (m + 1)]
  <2>1. /\ r \in Seq(S) /\ Len(r) = Len(c) + Len(b)
        /\ \A i \in 1 .. Len(c) + Len(b) : r[i] = IF i <= Len(c) THEN c[i] ELSE b[i - Len(c)]
    <3>1. c \in Seq(S) /\ b \in Seq(S)
      BY <1>2, <1>3
    <3> QED
      BY <3>1, ConcatProperties
  <2>2. Len(c) + Len(b) = n + 1
    BY <1>2, <1>3
  <2> QED
    BY <1>3, <2>1, <2>2
<1>5. ASSUME NEW i \in 1 .. n + 1
      PROVE  r[i] = IF i <= m THEN q[i] ELSE IF i = m + 1 THEN y ELSE q[i - 1]
  <2>1. CASE i <= m + 1
    <3>1. i <= m => i \in 1 .. m
      OBVIOUS
    <3> QED
      BY <1>3, <1>4, <2>1, <3>1
  <2>2. CASE ~(i <= m + 1)
    <3>1. i - (m + 1) \in 1 .. n - m /\ m + (i - (m + 1)) = i - 1
      BY <2>2
    <3> QED
      BY <1>2, <1>4, <2>2, <3>1
  <2> QED
    BY <2>1, <2>2
<1>6. r = [i \in 1 .. n + 1 |-> r[i]]
  <2>1. r \in [1 .. Len(r) -> S]
    BY <1>4, LenProperties
  <2> QED
    BY <1>4, <2>1
<1> QED
  BY <1>5, <1>6 DEF Widened

\* The items of the objects of an array.
Items(n, d, ev) == [i \in 1 .. n |-> Item(d[i], ev)]

\* The items of the objects with the new one.
LEMMA ItemsInserted ==
  ASSUME NEW n \in Nat, NEW m \in 0 .. n, NEW ev, NEW d \in Arrays(n), NEW x \in Objects
  PROVE  Items(n + 1, Widened(n, m, d, x), ev)
         = SubSeq(Items(n, d, ev), 1, m) \o <<Item(x, ev)>>
             \o SubSeq(Items(n, d, ev), m + 1, Len(Items(n, d, ev)))
<1> PICK q : q = Items(n, d, ev)
  OBVIOUS
<1> PICK y : y = Item(x, ev)
  OBVIOUS
<1> PICK S : S = {Item(o, ev) : o \in Objects}
  OBVIOUS
<1>1. y \in S /\ \A i \in 1 .. n : Item(d[i], ev) \in S
  BY DEF Arrays
<1>2. q \in Seq(S) /\ Len(q) = n
  BY <1>1 DEF Items
<1>3. \A i \in 1 .. n : q[i] = Item(d[i], ev)
  BY DEF Items
<1>4. SubSeq(q, 1, m) \o <<y>> \o SubSeq(q, m + 1, Len(q)) = Widened(n, m, q, y)
  BY <1>1, <1>2, InsertedAt
<1>5. ASSUME NEW i \in 1 .. n + 1
      PROVE  Item(Widened(n, m, d, x)[i], ev) = Widened(n, m, q, y)[i]
  <2>1. (i <= m => i \in 1 .. n) /\ (i > m + 1 => i - 1 \in 1 .. n)
    OBVIOUS
  <2> QED
    BY <1>3, <2>1 DEF Widened
<1>6. Items(n + 1, Widened(n, m, d, x), ev) = Widened(n, m, q, y)
  BY <1>5 DEF Items, Widened
<1> QED
  BY <1>4, <1>6

\* How many are not later.
LEMMA NotLaterIs ==
  ASSUME NEW t
  PROVE  Stable!NotLater(t)
         = Cardinality({i \in DOMAIN DeliveryOrder : DeliveryOrder[i].timestamp <= t})
<1>1. \A S : Stable!Cardinality(S) = Cardinality(S)
  BY DEF Stable!Cardinality, Cardinality
<1> QED
  BY <1>1 DEF Stable!NotLater

\* An add puts the event in behind all that are not later.
LEMMA AddInserts ==
  ASSUME StampInv, StampInv', NEW x \in Objects, NEW t \in Times, AddStamped(x, t),
         x \notin ObjectsOf(heap), NEW d, Delivers(d), NEW c, Delivers(c)'
  PROVE  Stable!Insert(x, t)
<1> PICK n \in Nat : n = Len(heap)
  BY HeapTypes
<1> PICK ev : ev = event'
  OBVIOUS
<1> PICK q : q = DeliveryOrder
  OBVIOUS
<1>1. /\ ev[x].timestamp = t /\ ev[x].sequence = sequence_counter
      /\ \A y \in ObjectsOf(heap) : ev[y] = event[y]
      /\ ObjectsOf(heap') = ObjectsOf(heap) \cup {x}
      /\ returned' = x
  BY AddProperties DEF StampInv
<1>2. heap' \in Arrays(n + 1) /\ Len(heap') = n + 1
  <2>1. heap' = HeapPush(heap, x, event')
    BY DEF AddStamped
  <2>2. heap' \in Arrays(n + 1) /\ n + 1 \in Nat
    BY <2>1, HeapTypes, PushProperties
  <2> QED
    BY <2>2, ArraysAreSequences
<1>3. /\ d \in Arrays(n) /\ q = [i \in 1 .. n |-> Item(d[i], event)]
      /\ ObjectsOf(d) = ObjectsOf(heap) /\ InOrder(d, event)
  BY DEF Delivers, Delivery
<1>4. /\ c \in Arrays(n + 1) /\ DeliveryOrder' = [i \in 1 .. n + 1 |-> Item(c[i], ev)]
      /\ ObjectsOf(c) = ObjectsOf(heap) \cup {x} /\ InOrder(c, ev)
  BY <1>1, <1>2 DEF Delivers, Delivery
<1>5. /\ \A y \in ObjectsOf(d) : ev[y].timestamp \in Int /\ ev[y].sequence \in Int
      /\ \A y \in ObjectsOf(d) : ev[y].sequence < ev[x].sequence
  <2>1. /\ \A y \in ObjectsOf(heap) : event[y].timestamp \in Int /\ event[y].sequence \in Int
        /\ \A y \in ObjectsOf(heap) : event[y].sequence < sequence_counter
    BY HeapTypes DEF StampInv
  <2> QED
    BY <1>1, <1>3, <2>1
<1>6. t \in Int /\ ev[x].timestamp \in Int /\ ev[x].sequence \in Int
  <2>1. Times \subseteq Int
    BY SchedulerAssumption
  <2>2. t \in Int
    BY <2>1, Zenon
  <2> QED
    BY <1>1, <2>2 DEF StampInv
<1>7. /\ DOMAIN d = 1 .. n
      /\ \A i \in 1 .. n : d[i] \in ObjectsOf(d) /\ d[i] \in Objects /\ ev[d[i]] = event[d[i]]
  <2>1. DOMAIN d = 1 .. n /\ \A i \in 1 .. n : d[i] \in Objects
    BY <1>3 DEF Arrays
  <2>2. \A i \in 1 .. n : d[i] \in ObjectsOf(d)
    BY <2>1 DEF ObjectsOf
  <2> QED
    BY <1>1, <1>3, <2>1, <2>2
<1>8. Typed(d, ev) /\ InOrder(d, ev)
  BY <1>3, <1>5, <1>7 DEF Typed, InOrder
<1> PICK A : A = {i \in 1 .. n : ev[d[i]].timestamp <= ev[x].timestamp}
  OBVIOUS
<1>9. PICK m \in 0 .. n : A = 1 .. m /\ Cardinality(A) = m
  <2>1. \A i \in A : \A j \in 1 .. n : j < i => j \in A
    <3> SUFFICES ASSUME NEW i \in A, NEW j \in 1 .. n, j < i
                 PROVE  ev[d[j]].timestamp <= ev[x].timestamp
      OBVIOUS
    <3>1. i \in 1 .. n /\ ev[d[i]].timestamp <= ev[x].timestamp
      OBVIOUS
    <3>2. Precedes(ev[d[j]], ev[d[i]])
      BY <1>7, <1>8, <3>1 DEF InOrder
    <3>3. ev[d[j]].timestamp \in Int /\ ev[d[i]].timestamp \in Int
      BY <1>5, <1>7, <3>1
    <3> QED
      BY <1>6, <3>1, <3>2, <3>3 DEF Precedes
  <2>2. A \subseteq 1 .. n
    OBVIOUS
  <2> QED
    <3>1. \A B : /\ B \subseteq 1 .. n
                 /\ \A i \in B : \A j \in 1 .. n : j < i => j \in B
                 => \E m \in 0 .. n : B = 1 .. m /\ Cardinality(B) = m
      BY InitialSegment
    <3> QED
      BY <2>1, <2>2, <3>1, Zenon
<1> PICK e : e = Widened(n, m, d, x)
  OBVIOUS
<1>10. e \in Arrays(n + 1) /\ ObjectsOf(e) = ObjectsOf(d) \cup {x} /\ InOrder(e, ev)
  BY <1>3, <1>5, <1>6, <1>8, <1>9, PlaceOfNew
<1>11. c = e
  <2>1. Typed(e, ev)
    <3>1. \A y \in ObjectsOf(e) : ev[y].timestamp \in Int /\ ev[y].sequence \in Int
      BY <1>5, <1>6, <1>10
    <3> QED
      BY <3>1 DEF Typed, ObjectsOf
  <2>2. n + 1 \in Nat /\ ObjectsOf(e) = ObjectsOf(c)
    BY <1>3, <1>4, <1>10
  <2> QED
    BY <1>4, <1>10, <2>1, <2>2, OneOrder
<1>12. A = {i \in DOMAIN q : q[i].timestamp <= t}
  BY <1>1, <1>3, <1>7 DEF Item
<1>13. DeliveryOrder' = SubSeq(q, 1, m) \o <<[item |-> x, timestamp |-> t]>>
                          \o SubSeq(q, m + 1, Len(q))
  <2>1. q = Items(n, d, ev)
    BY <1>3, <1>7 DEF Item, Items
  <2>2. Items(n + 1, Widened(n, m, d, x), ev)
        = SubSeq(Items(n, d, ev), 1, m) \o <<Item(x, ev)>>
            \o SubSeq(Items(n, d, ev), m + 1, Len(Items(n, d, ev)))
    BY <1>3, ItemsInserted, ZenonT(40)
  <2>3. Item(x, ev) = [item |-> x, timestamp |-> t]
    BY <1>1 DEF Item
  <2> QED
    BY <1>4, <1>11, <2>1, <2>2, <2>3 DEF Items
<1>14. Stable!NotLater(t) = m
  BY <1>9, <1>12, NotLaterIs
<1>15. (m + 1) - 1 = m
  OBVIOUS
<1>16. Stable!InsertAt(q, m + 1, [item |-> x, timestamp |-> t])
       = SubSeq(q, 1, m) \o <<[item |-> x, timestamp |-> t]>> \o SubSeq(q, m + 1, Len(q))
  BY <1>15 DEF Stable!InsertAt
<1>17. DeliveryOrder' = Stable!InsertAt(DeliveryOrder, Stable!NotLater(t) + 1,
                                        [item |-> x, timestamp |-> t])
  BY <1>13, <1>14, <1>16
<1> QED
  BY <1>1, <1>17 DEF Stable!Insert

\* The first to be delivered is the root, and there is one as long as the heap
\* is not empty.
LEMMA FirstIsRoot ==
  ASSUME StampInv, HeapInv, NEW d, Delivers(d)
  PROVE  /\ heap = <<>> => DeliveryOrder = <<>>
         /\ heap # <<>> => /\ d[1] = heap[1]
                           /\ DeliveryOrder # <<>>
                           /\ Head(DeliveryOrder).item = heap[1]
<1> PICK n \in Nat : n = Len(heap)
  BY HeapTypes
<1>1. /\ d \in Arrays(n) /\ DOMAIN d = 1 .. n
      /\ DeliveryOrder = [i \in 1 .. n |-> Item(d[i], event)]
      /\ ObjectsOf(d) = ObjectsOf(heap) /\ InOrder(d, event)
  BY DEF Delivers, Delivery, Arrays
<1>2. ASSUME heap = <<>>
      PROVE  DeliveryOrder = <<>>
  <2>1. n = 0
    BY <1>2
  <2> QED
    BY <1>1, <2>1
<1>3. ASSUME heap # <<>>
      PROVE  d[1] = heap[1] /\ DeliveryOrder # <<>> /\ Head(DeliveryOrder).item = heap[1]
  <2>1. n \in Nat \ {0} /\ 1 \in 1 .. n /\ DOMAIN heap = 1 .. n /\ heap \in Arrays(n)
    BY <1>3, HeapTypes
  <2>2. d[1] = heap[1]
    <3>1. heap[1] \in ObjectsOf(d) /\ d[1] \in ObjectsOf(heap)
      BY <1>1, <2>1 DEF ObjectsOf
    <3>2. PICK j \in 1 .. n : heap[1] = d[j]
      BY <1>1, <3>1 DEF ObjectsOf
    <3>3. PICK k \in 1 .. n : d[1] = heap[k]
      BY <2>1, <3>1 DEF ObjectsOf
    <3>4. ~Precedes(event[d[1]], event[d[j]])
      BY <2>1, <3>2, <3>3, HeapTypes, RootFirst DEF HeapInv, Leq
    <3>5. j = 1
      BY <1>1, <2>1, <3>4 DEF InOrder
    <3> QED
      BY <3>2, <3>5
  <2>3. DeliveryOrder[1] = Item(heap[1], event) /\ Len(DeliveryOrder) = n
    BY <1>1, <2>1, <2>2
  <2>4. DeliveryOrder # <<>>
    BY <2>1, <2>3
  <2>5. Head(DeliveryOrder) = DeliveryOrder[1]
    OBVIOUS
  <2>6. Item(heap[1], event).item = heap[1]
    BY DEF Item
  <2> QED
    BY <2>2, <2>3, <2>4, <2>5, <2>6
<1> QED
  BY <1>2, <1>3

\* The order without its first.
LEMMA RestInOrder ==
  ASSUME NEW n \in Nat \ {0}, NEW d \in Arrays(n), NEW ev, Typed(d, ev), InOrder(d, ev)
  PROVE  \E b \in Arrays(n - 1) : /\ \A i \in 1 .. n - 1 : b[i] = d[i + 1]
                                  /\ ObjectsOf(b) = ObjectsOf(d) \ {d[1]}
                                  /\ InOrder(b, ev)
<1>1. DOMAIN d = 1 .. n /\ 1 \in 1 .. n /\ \A i \in 1 .. n : d[i] \in Objects
  BY DEF Arrays
<1>2. \A i \in 1 .. n - 1 : i + 1 \in 1 .. n /\ i + 1 # 1
  OBVIOUS
<1> PICK b : b = [i \in 1 .. n - 1 |-> d[i + 1]]
  OBVIOUS
<1>3. b \in Arrays(n - 1) /\ DOMAIN b = 1 .. n - 1 /\ \A i \in 1 .. n - 1 : b[i] = d[i + 1]
  BY <1>1, <1>2 DEF Arrays
<1>4. \A i \in 1 .. n : i # 1 => d[i] # d[1]
  <2> SUFFICES ASSUME NEW i \in 1 .. n, i # 1, d[i] = d[1] PROVE FALSE
    OBVIOUS
  <2>1. Precedes(ev[d[1]], ev[d[1]])
    BY <1>1 DEF InOrder
  <2>2. ev[d[1]].timestamp \in Int /\ ev[d[1]].sequence \in Int
    BY <1>1 DEF Typed
  <2> QED
    BY <2>1, <2>2 DEF Precedes
<1>5. ObjectsOf(b) \subseteq ObjectsOf(d) \ {d[1]}
  BY <1>1, <1>2, <1>3, <1>4 DEF ObjectsOf
<1>6. ASSUME NEW y \in ObjectsOf(d), y # d[1]
      PROVE  y \in ObjectsOf(b)
  <2>1. PICK j \in 1 .. n : y = d[j]
    BY <1>1 DEF ObjectsOf
  <2>2. j - 1 \in 1 .. n - 1 /\ (j - 1) + 1 = j
    BY <1>6, <2>1
  <2>3. b[j - 1] = y
    BY <1>3, <2>1, <2>2
  <2> QED
    BY <1>3, <2>2, <2>3 DEF ObjectsOf
<1>7. InOrder(b, ev)
  <2> SUFFICES ASSUME NEW i \in 1 .. n - 1, NEW j \in 1 .. n - 1, i < j
               PROVE  Precedes(ev[b[i]], ev[b[j]])
    BY <1>3 DEF InOrder
  <2>1. i + 1 \in DOMAIN d /\ j + 1 \in DOMAIN d /\ i + 1 < j + 1
    BY <1>1
  <2>2. Precedes(ev[d[i + 1]], ev[d[j + 1]])
    BY <2>1 DEF InOrder
  <2> QED
    BY <1>3, <2>2
<1> QED
  BY <1>3, <1>5, <1>6, <1>7

\* What an array delivers, with the types the order needs.
LEMMA DeliveryTypes ==
  ASSUME StampInv, NEW d, Delivers(d)
  PROVE  /\ d \in Arrays(Len(heap)) /\ Typed(d, event) /\ InOrder(d, event)
         /\ ObjectsOf(d) = ObjectsOf(heap)
         /\ DeliveryOrder = Items(Len(heap), d, event)
<1>1. \A y \in ObjectsOf(heap) : event[y].timestamp \in Int /\ event[y].sequence \in Int
  BY HeapTypes
<1> QED
  BY <1>1 DEF Delivers, Delivery, Items, Typed, ObjectsOf

\* A sequence without its first element.
LEMMA TailIs ==
  ASSUME NEW n \in Nat \ {0}, NEW S, NEW q \in Seq(S), Len(q) = n
  PROVE  Tail(q) = [i \in 1 .. n - 1 |-> q[i + 1]]
<1>1. q # <<>>
  OBVIOUS
<1>2. /\ Tail(q) \in Seq(S) /\ Len(Tail(q)) = n - 1
      /\ \A i \in 1 .. n - 1 : Tail(q)[i] = q[i + 1]
  BY <1>1, HeadTailProperties
<1>3. Tail(q) \in [1 .. n - 1 -> S]
  BY <1>2, LenProperties
<1> QED
  BY <1>2, <1>3

\* A removal takes the first and changes nothing behind it.
LEMMA RemovalDelivers ==
  ASSUME StampInv, HeapInv, StampInv', Removes, returned' = heap[1],
         NEW d, Delivers(d), NEW c, Delivers(c)'
  PROVE  Stable!Deliver
<1> PICK n \in Nat : n = Len(heap)
  BY HeapTypes
<1>1. n \in Nat \ {0} /\ heap \in Arrays(n) /\ DOMAIN heap = 1 .. n /\ heap # <<>>
  BY HeapTypes DEF Removes
<1>2. event' = event /\ ObjectsOf(heap') = ObjectsOf(heap) \ {heap[1]} /\ Len(heap') = n - 1
  <2>1. heap' = HeapPop(heap, event)
    BY DEF Removes
  <2>2. heap' \in Arrays(n - 1)
    BY <1>1, <2>1, PopProperties
  <2>3. n - 1 \in Nat
    BY <1>1
  <2> QED
    BY <2>2, <2>3, ArraysAreSequences, RemovalProperties DEF Removes
<1>3. /\ d \in Arrays(n) /\ Typed(d, event) /\ InOrder(d, event)
      /\ ObjectsOf(d) = ObjectsOf(heap) /\ DeliveryOrder = Items(n, d, event)
  BY DeliveryTypes
<1>4. d[1] = heap[1] /\ DeliveryOrder # <<>> /\ Head(DeliveryOrder).item = heap[1]
  BY <1>1, FirstIsRoot
<1>5. PICK b \in Arrays(n - 1) : /\ \A i \in 1 .. n - 1 : b[i] = d[i + 1]
                                 /\ ObjectsOf(b) = ObjectsOf(d) \ {d[1]}
                                 /\ InOrder(b, event)
  BY <1>1, <1>3, RestInOrder
<1>6. /\ c \in Arrays(n - 1) /\ Typed(c, event) /\ InOrder(c, event)
      /\ ObjectsOf(c) = ObjectsOf(heap) \ {heap[1]}
      /\ DeliveryOrder' = Items(n - 1, c, event)
  <2>1. /\ c \in Arrays(n - 1) /\ InOrder(c, event)
        /\ ObjectsOf(c) = ObjectsOf(heap) \ {heap[1]}
        /\ DeliveryOrder' = [i \in 1 .. n - 1 |-> Item(c[i], event)]
    BY <1>2 DEF Delivers, Delivery
  <2>2. \A y \in ObjectsOf(c) : event[y].timestamp \in Int /\ event[y].sequence \in Int
    BY <2>1, HeapTypes
  <2> QED
    BY <2>1, <2>2 DEF Typed, ObjectsOf, Items
<1>7. c = b
  <2>1. n - 1 \in Nat /\ ObjectsOf(c) = ObjectsOf(b)
    BY <1>1, <1>3, <1>4, <1>5, <1>6
  <2> QED
    BY <1>5, <1>6, <2>1, OneOrder
<1>8. Tail(Items(n, d, event)) = Items(n - 1, b, event)
  <2>1. \A i \in 1 .. n - 1 : i + 1 \in 1 .. n /\ Item(b[i], event) = Item(d[i + 1], event)
    BY <1>1, <1>5
  <2> PICK S : S = {Item(o, event) : o \in Objects}
    OBVIOUS
  <2>2. Items(n, d, event) \in Seq(S) /\ Len(Items(n, d, event)) = n
    BY <1>1, <1>3 DEF Items, Arrays
  <2>3. Tail(Items(n, d, event)) = [i \in 1 .. n - 1 |-> Items(n, d, event)[i + 1]]
    BY <1>1, <2>2, TailIs
  <2> QED
    BY <2>1, <2>3 DEF Items
<1>9. DeliveryOrder' = Tail(DeliveryOrder)
  BY <1>3, <1>6, <1>7, <1>8
<1> QED
  BY <1>4, <1>9 DEF Stable!Deliver

\* The same heap delivers in the same order.
LEMMA SameDelivery ==
  ASSUME StampInv, heap' = heap, event' = event, NEW d, Delivers(d), NEW c, Delivers(c)'
  PROVE  DeliveryOrder' = DeliveryOrder
<1> PICK n \in Nat : n = Len(heap)
  BY HeapTypes
<1>1. /\ d \in Arrays(n) /\ Typed(d, event) /\ InOrder(d, event)
      /\ ObjectsOf(d) = ObjectsOf(heap)
      /\ DeliveryOrder = [i \in 1 .. n |-> Item(d[i], event)]
  BY DeliveryTypes DEF Items
<1>2. /\ c \in Arrays(n) /\ InOrder(c, event) /\ ObjectsOf(c) = ObjectsOf(heap)
      /\ DeliveryOrder' = [i \in 1 .. n |-> Item(c[i], event)]
  BY DEF Delivers, Delivery
<1>3. d = c
  BY <1>1, <1>2, OneOrder
<1> QED
  BY <1>1, <1>2, <1>3

\* Every step is one of the stable queue's, or leaves it alone.
LEMMA StableStep ==
  ASSUME ~ReaddPending, StampInv, HeapInv, StampInv', StepKinds,
         NEW d, Delivers(d), NEW c, Delivers(c)'
  PROVE  Stable!Next \/ UNCHANGED <<DeliveryOrder, returned>>
<1>1. ASSUME NEW x \in Objects, NEW t \in Times, AddStamped(x, t), x \notin ObjectsOf(heap)
      PROVE  Stable!Next
  <2>1. Stable!Insert(x, t)
    BY <1>1, AddInserts
  <2> QED
    BY <2>1 DEF Stable!Next
<1>2. CASE Removes /\ returned' = heap[1]
  BY <1>2, RemovalDelivers DEF Stable!Next
<1>3. CASE /\ heap' = heap /\ event' = event
           /\ \/ heap = <<>> /\ returned' \in {"IndexError", "StopIteration"}
              \/ returned' = IF heap = <<>> THEN "none" ELSE heap[1]
              \/ returned' = returned
  <2>1. DeliveryOrder' = DeliveryOrder
    BY <1>3, SameDelivery
  <2>2. CASE heap = <<>> /\ returned' \in {"IndexError", "StopIteration"}
    <3>1. DeliveryOrder = <<>>
      BY <2>2, FirstIsRoot
    <3>2. Stable!DeliverFromEmpty
      BY <2>1, <2>2, <3>1 DEF Stable!DeliverFromEmpty, Stable!Empty, Stable!Exhausted
    <3> QED
      BY <3>2 DEF Stable!Next
  <2>3. CASE returned' = IF heap = <<>> THEN "none" ELSE heap[1]
    <3>1. returned' = IF DeliveryOrder = <<>> THEN "none" ELSE Head(DeliveryOrder).item
      BY <2>3, FirstIsRoot
    <3>2. Stable!Peek
      BY <2>1, <3>1 DEF Stable!Peek, Stable!None
    <3> QED
      BY <3>2 DEF Stable!Next
  <2> QED
    BY <1>3, <2>1, <2>2, <2>3
<1>4. CASE ClearAll
  <2>1. heap' = <<>> /\ returned' = "none" /\ Len(heap') = 0
    BY <1>4 DEF ClearAll
  <2>2. DeliveryOrder' = [i \in 1 .. 0 |-> Item(c[i], event')]
    BY <2>1 DEF Delivers, Delivery
  <2>3. DeliveryOrder' = <<>>
    BY <2>2
  <2> QED
    BY <2>1, <2>3 DEF Stable!Next, Stable!Clear, Stable!None
<1> QED
  BY <1>1, <1>2, <1>3, <1>4 DEF StepKinds

\* The scheduler is the stable queue it promises to be, for every heap and every
\* mix of calls, as long as callers add no object that is still pending: events
\* are delivered by time, events of equal time in the order in which they were
\* added (scheduler.py:14-15, 32-47, 87-140).
THEOREM HeapIsStableQueue == ~ReaddPending /\ Spec => StableQueueSpec
<1> SUFFICES ASSUME ~ReaddPending
             PROVE  Spec => StableQueueSpec
  OBVIOUS
<1>1. Init => Stable!Init
  <2> SUFFICES ASSUME Init PROVE Stable!Init
    OBVIOUS
  <2>1. StampInv /\ HeapInv
    BY StampInit, HeapInit
  <2>2. PICK d : Delivers(d)
    BY <2>1, DeliveryInOrder
  <2>3. heap = <<>> /\ returned = "none"
    BY DEF Init
  <2>4. DeliveryOrder = <<>>
    BY <2>1, <2>2, <2>3, FirstIsRoot
  <2> QED
    BY <2>3, <2>4 DEF Stable!Init, Stable!None
<1>2. Init => StampInv /\ HeapInv
  BY StampInit, HeapInit
<1>3. StampInv /\ HeapInv /\ [Next]_vars => StampInv' /\ HeapInv'
  BY StampNext, HeapNext
<1>4. StampInv /\ HeapInv => \E d : Delivers(d)
  BY DeliveryInOrder
<1>5. /\ StampInv /\ HeapInv /\ StampInv' /\ [Next]_vars
      /\ \E d : Delivers(d)
      /\ (\E d : Delivers(d))'
      => [Stable!Next]_<<DeliveryOrder, returned>>
  BY StepsAreOfKinds, StableStep
<1> QED
  BY <1>1, <1>2, <1>3, <1>4, <1>5, PTL DEF Spec, StableQueueSpec, Stable!Spec

\* What is still to be delivered is in ascending order of time at every moment
\* (scheduler.py:14).
THEOREM DeliveryAscends ==
  ~ReaddPending /\ Spec =>
    [](\A i, j \in DOMAIN DeliveryOrder :
         i < j => DeliveryOrder[i].timestamp <= DeliveryOrder[j].timestamp)
<1> DEFINE Ascends == \A i, j \in DOMAIN DeliveryOrder :
                        i < j => DeliveryOrder[i].timestamp <= DeliveryOrder[j].timestamp
<1> SUFFICES ASSUME ~ReaddPending
             PROVE  Spec => []Ascends
  OBVIOUS
<1>1. StampInv /\ HeapInv => Ascends
  <2> SUFFICES ASSUME StampInv, HeapInv,
                      NEW i \in DOMAIN DeliveryOrder, NEW j \in DOMAIN DeliveryOrder, i < j
               PROVE  DeliveryOrder[i].timestamp <= DeliveryOrder[j].timestamp
    OBVIOUS
  <2> PICK n \in Nat : n = Len(heap)
    BY HeapTypes
  <2>1. PICK d : Delivers(d)
    BY DeliveryInOrder
  <2>2. /\ d \in Arrays(n) /\ DOMAIN d = 1 .. n /\ Typed(d, event) /\ InOrder(d, event)
        /\ DeliveryOrder = Items(n, d, event)
    BY <2>1, DeliveryTypes DEF Arrays
  <2>3. i \in 1 .. n /\ j \in 1 .. n
    BY <2>2 DEF Items
  <2>4. /\ DeliveryOrder[i].timestamp = event[d[i]].timestamp
        /\ DeliveryOrder[j].timestamp = event[d[j]].timestamp
    BY <2>2, <2>3 DEF Items, Item
  <2>5. Precedes(event[d[i]], event[d[j]])
    BY <2>2, <2>3 DEF InOrder
  <2>6. event[d[i]].timestamp \in Int /\ event[d[j]].timestamp \in Int
    BY <2>2, <2>3 DEF Typed
  <2> QED
    BY <2>4, <2>5, <2>6 DEF Precedes
<1>2. Init => StampInv /\ HeapInv
  BY StampInit, HeapInit
<1>3. StampInv /\ HeapInv /\ [Next]_vars => StampInv' /\ HeapInv'
  BY StampNext, HeapNext
<1> QED
  BY <1>1, <1>2, <1>3, PTL DEF Spec
=============================================================================
