-------------------------- MODULE SingleServerQueue --------------------------
(***************************************************************************)
(* What the router promises: one server, a waiting room of limited size in *)
(* front of it, and losses.  No time, no events, no objects.  A packet     *)
(* that finds the server unclaimed claims it at once; when the server is   *)
(* given back, the next waiting packet claims it at once; a packet is lost *)
(* only if the waiting room is full, or at random if the router is         *)
(* configured so.                                                          *)
(***************************************************************************)
EXTENDS Sequences, Naturals

CONSTANTS
  Packets,
  Capacity,       \* optional size of the waiting room
  Discipline,     \* "FIFO" or "LIFO"
  RandomLoss      \* may packets be lost that would have found room?

VARIABLES
  waiting,        \* the waiting room, next packet first
  claimed,        \* the packet that holds the server, if any
  served, lost    \* packets that have left

queue == <<waiting, claimed, served, lost>>

Init == waiting = <<>> /\ claimed = {} /\ served = {} /\ lost = {}

Full == \E k \in Capacity : Len(waiting) >= k

New(p) ==
  /\ p \notin claimed \cup served \cup lost
  /\ \A i \in DOMAIN waiting : waiting[i] # p

Lose(p) ==
  /\ New(p)
  /\ RandomLoss \/ Full
  /\ lost' = lost \cup {p}
  /\ UNCHANGED <<waiting, claimed, served>>

Claim(p) ==
  /\ New(p)
  /\ claimed = {} /\ waiting = <<>>
  /\ claimed' = {p}
  /\ UNCHANGED <<waiting, served, lost>>

Wait(p) ==
  /\ New(p)
  /\ claimed # {} /\ ~Full
  /\ waiting' = IF Discipline = "FIFO" THEN Append(waiting, p) ELSE <<p>> \o waiting
  /\ UNCHANGED <<claimed, served, lost>>

Finish(p) ==
  /\ claimed = {p}
  /\ served' = served \cup {p}
  /\ claimed' = IF waiting = <<>> THEN {} ELSE {Head(waiting)}
  /\ waiting' = IF waiting = <<>> THEN <<>> ELSE Tail(waiting)
  /\ UNCHANGED lost

Next == \E p \in Packets : Lose(p) \/ Claim(p) \/ Wait(p) \/ Finish(p)

Spec == Init /\ [][Next]_queue
=============================================================================
