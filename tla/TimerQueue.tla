------------------------------ MODULE TimerQueue ------------------------------
(***************************************************************************)
(* What devices/timer.h promises: an event that was registered stays       *)
(* pending until its callback is called, which is not earlier than its     *)
(* timestamp, and, of the events that are due, the earliest comes first.   *)
(* Timestamps are relative to the current time, in clock pulses.           *)
(***************************************************************************)
EXTENDS Integers, Bags

CONSTANTS Callbacks, MaxDelay

Events == [timestamp : 0 .. MaxDelay, callback : Callbacks]

VARIABLES pending,  \* the bag of registered events
          mode      \* "pulse" while timer_report_clock_pulse() runs, else "idle"

Init == pending = EmptyBag /\ mode = "idle"

Register ==
  /\ \E e \in Events : pending' = pending (+) SetToBag({e})
  /\ UNCHANGED mode

Shift(e, d) == [e EXCEPT !.timestamp = @ + d]

Pulse ==
  /\ mode = "idle" /\ mode' = "pulse"
  /\ pending' = [e \in {Shift(f, -1) : f \in BagToSet(pending)} |-> pending[Shift(e, 1)]]

Fire ==
  /\ mode = "pulse"
  /\ \E e \in BagToSet(pending) :
       /\ e.timestamp <= 0
       /\ \A f \in BagToSet(pending) : e.timestamp <= f.timestamp
       /\ pending' = pending (-) SetToBag({e})
  /\ UNCHANGED mode

\* The pulse ends only when nothing is due.
Done ==
  /\ mode = "pulse" /\ mode' = "idle"
  /\ \A e \in BagToSet(pending) : e.timestamp > 0
  /\ UNCHANGED pending

Next == Register \/ Pulse \/ Fire \/ Done

Spec == Init /\ [][Next]_<<pending, mode>>

=============================================================================
