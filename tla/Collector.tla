------------------------------ MODULE Collector ------------------------------
(***************************************************************************)
(* The live request counter (internal/app/stats/collector.go): a ring with *)
(* one slot per second that counts the requests of the last Window seconds. *)
(* A request reads the clock BEFORE it takes the collector's lock; the     *)
(* ticker's goroutine and the reader of the rate read it inside.  Sixty    *)
(* slots of one second are Window slots of one tick here.                  *)
(***************************************************************************)
EXTENDS Integers, FiniteSets

CONSTANTS
  Requests,   \* the requests that reach the data plane
  Window,     \* slots of the ring: 60 in the code
  MaxTime,    \* bound on the clock
  MaxBack     \* how often the wall clock is set back by a second

ASSUME RequestsAssumption == IsFiniteSet(Requests)
ASSUME WindowAssumption == Window \in Nat \ {0}
ASSUME TimeAssumption == MaxTime \in Nat
ASSUME BackAssumption == MaxBack \in Nat

NotYet == -1

VARIABLES
  clock,          \* what time.Now().Unix() returns
  requestCounts,  \* the ring
  currentSecond,  \* the second the ring has been advanced to
  arrival,        \* per request: the second it read, or NotYet
  recorded,       \* the requests RecordRequest has counted
  backs,          \* how often the clock was set back
  endangered      \* history: requests counted for a second the ring was then
                  \* moved back before, or gone from the window it left

ringVars == <<clock, requestCounts, currentSecond, arrival, recorded, backs, endangered>>

Slot(second) == second % Window

Seconds == 0..MaxTime

(* NewCollector *)
RingInit ==
  /\ clock = 0
  /\ requestCounts = [i \in 0..(Window - 1) |-> 0]
  /\ currentSecond = 0
  /\ arrival = [r \in Requests |-> NotYet]
  /\ recorded = {}
  /\ backs = 0
  /\ endangered = {}

(* Every second after currentSecond up to now is cleared; none is when now  *)
(* is not later.                                                            *)
Advanced(now) ==
  [i \in 0..(Window - 1) |->
     IF \E s \in (currentSecond + 1)..now : Slot(s) = i THEN 0 ELSE requestCounts[i]]

(* RecordRequest reads the clock, then waits for the lock. *)
Arrive(r) ==
  /\ arrival[r] = NotYet
  /\ arrival' = [arrival EXCEPT ![r] = clock]
  /\ UNCHANGED <<clock, requestCounts, currentSecond, recorded, backs, endangered>>

(* Seeded bug: the slot is chosen before the ring is advanced. *)
Record_oldSlot(r) ==
  /\ arrival[r] # NotYet /\ r \notin recorded
  /\ LET now == arrival[r]
     IN  requestCounts' = [Advanced(now) EXCEPT ![Slot(currentSecond)] = @ + 1]
  /\ currentSecond' = arrival[r]
  /\ recorded' = recorded \union {r}
  /\ UNCHANGED <<clock, arrival, backs, endangered>>

(* The body under the lock.  The second it stores is the one it read: a    *)
(* request that waited while another second began moves the ring back.     *)
Record(r) ==
  /\ arrival[r] # NotYet /\ r \notin recorded
  /\ LET now == arrival[r]
     IN  requestCounts' = [Advanced(now) EXCEPT ![Slot(now)] = @ + 1]
  /\ currentSecond' = arrival[r]
  /\ recorded' = recorded \union {r}
  /\ endangered' = IF arrival[r] < currentSecond
                   THEN endangered \union {q \in recorded : \/ arrival[q] > arrival[r]
                                                           \/ arrival[q] <= currentSecond - Window}
                   ELSE endangered
  /\ UNCHANGED <<clock, arrival, backs>>

(* Seeded bug: the ring is advanced only when it is a whole window behind. *)
Cleanup_lazy ==
  /\ clock - currentSecond > Window
  /\ requestCounts' = Advanced(clock)
  /\ currentSecond' = clock
  /\ UNCHANGED <<clock, arrival, recorded, backs, endangered>>

(* A tick of cleanup. *)
Cleanup ==
  /\ clock > currentSecond
  /\ requestCounts' = Advanced(clock)
  /\ currentSecond' = clock
  /\ UNCHANGED <<clock, arrival, recorded, backs, endangered>>

(* GetRPM, as a function of the state it reads under the lock: the Window  *)
(* slots from now backwards; total[n] is the sum after n turns of its loop. *)
total[n \in 0..Window] ==
  IF n = 0 THEN 0 ELSE total[n - 1] + requestCounts[Slot(clock + Window - (n - 1))]

GetRPM == total[Window]

(* The machine's clock moves on, or is set back by a second. *)
Tick ==
  /\ clock < MaxTime
  /\ clock' = clock + 1
  /\ UNCHANGED <<requestCounts, currentSecond, arrival, recorded, backs, endangered>>

StepBack ==
  /\ backs < MaxBack
  /\ clock > 0
  /\ clock' = clock - 1
  /\ backs' = backs + 1
  /\ UNCHANGED <<requestCounts, currentSecond, arrival, recorded, endangered>>

RingNext ==
  \/ \E r \in Requests : Arrive(r) \/ Record(r)
  \/ Cleanup
  \/ Tick
  \/ StepBack

(* The ticker fires every second and the goroutine never returns: Cleanup  *)
(* is fair, and so is a request that has read the clock, since the lock is *)
(* never held across a call that can block.  Requests need not come, and   *)
(* the clock of the model stops at MaxTime.                                *)
Fairness ==
  /\ WF_ringVars(Cleanup)
  /\ \A r \in Requests : WF_ringVars(Record(r))

RingSpec == RingInit /\ [][RingNext]_ringVars

FairSpec == RingSpec /\ Fairness

----------------------------------------------------------------------------

RingTypeOK ==
  /\ clock \in Seconds
  /\ requestCounts \in [0..(Window - 1) -> Nat]
  /\ currentSecond \in Seconds
  /\ arrival \in [Requests -> Seconds \union {NotYet}]
  /\ recorded \in SUBSET Requests
  /\ \A r \in recorded : arrival[r] # NotYet
  /\ backs \in 0..MaxBack
  /\ endangered \in SUBSET recorded

(* The requests counted that are not older than the window ending at s. *)
CountedSince(s) == {r \in recorded : arrival[r] > s - Window}

(* The rate GetRPM reports, summed from slots that are cleared by whichever *)
(* of RecordRequest and cleanup comes first, is the number of requests of   *)
(* the Window seconds up to the one the ring stands at: never a request     *)
(* more, and a request less only if the ring was moved back after it was    *)
(* counted (to before its second, or so far that its second is in the       *)
(* window again), which takes a request that waited for the lock while a    *)
(* second began, or a clock that was set back.  So a rate can be late by    *)
(* the time since the last cleanup, and never otherwise wrong while         *)
(* requests get the lock within their second.                               *)
RateIsBracketed ==
  /\ GetRPM <= Cardinality(CountedSince(currentSecond))
  /\ GetRPM >= Cardinality(CountedSince(currentSecond) \ endangered)

(* The same of every slot: what a slot holds are requests of one second,    *)
(* the one of the window that falls on it (a slot is cleared before it is   *)
(* used for another second, also after the ring moved back).                *)
SlotsHoldOneSecond ==
  \A i \in 0..(Window - 1) :
     LET here == {r \in CountedSince(currentSecond) : Slot(arrival[r]) = i}
     IN  /\ requestCounts[i] <= Cardinality(here)
         /\ requestCounts[i] >= Cardinality(here \ endangered)

(* The collector at any moment (collector.go:42-99): types, slots and rate. *)
RingInv == RingTypeOK /\ SlotsHoldOneSecond /\ RateIsBracketed

(* The ring keeps up: again and again it has reached the clock, so the      *)
(* requests of a burst leave the rate although no further request comes     *)
(* (the ticker goroutine of cleanup).                                       *)
RingCatchesUp == []<>(currentSecond >= clock)

==============================================================================
