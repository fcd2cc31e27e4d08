------------------------------ MODULE RoundRobin ------------------------------
(***************************************************************************)
(* What the scheduler promises: one task runs at a time, the tasks that    *)
(* are ready wait in one line, a task that becomes ready or loses the CPU  *)
(* goes to the end of the line, and the CPU goes to the head of it.        *)
(***************************************************************************)
EXTENDS Naturals, Sequences

CONSTANTS Tasks, NoTask

VARIABLES running,  \* the task that makes progress, or NoTask
          ready     \* the line of ready tasks

InLine(t) == \E i \in DOMAIN ready : ready[i] = t

Init == running \in Tasks /\ ready \in [1 .. 1 -> Tasks \ {running}]

\* A task is created, or what it waited for has happened.
Enter(t) ==
  /\ t # running /\ ~InLine(t)
  /\ ready' = Append(ready, t) /\ UNCHANGED running

\* The running task waits for something, and may hand its work to another one.
Wait ==
  /\ running # NoTask /\ running' = NoTask
  /\ \/ UNCHANGED ready
     \/ \E t \in Tasks : t # running /\ ~InLine(t) /\ ready' = Append(ready, t)

\* What the last running task waits for happens before another one gets the CPU.
Resume(t) ==
  /\ running = NoTask /\ ~InLine(t)
  /\ running' = t /\ UNCHANGED ready

\* The head of the line gets the CPU.
Switch ==
  /\ ready # <<>>
  /\ running' = Head(ready)
  /\ ready' = IF running = NoTask THEN Tail(ready) ELSE Append(Tail(ready), running)

Next == (\E t \in Tasks : Enter(t) \/ Resume(t)) \/ Wait \/ Switch

Spec == Init /\ [][Next]_<<running, ready>>

\* A line that is not empty moves.
FairSpec == Spec /\ WF_<<running, ready>>(Switch)

=============================================================================
