-------------------------- MODULE SchedulerProofs ---------------------------
(***************************************************************************)
(* The theorems about the scheduler. The interrupts, and with them every   *)
(* step, preserve the consistency of the scheduler; as long as preemption  *)
(* is never disabled, preemptions are also in time; together they are the  *)
(* inductive invariant. Then the safety properties that follow from it, and*)
(* the refinement of RoundRobin.                                           *)
(***************************************************************************)
EXTENDS SchedulerLoopSteps

\* The interrupt of a device, and the end of an interrupt with its context switch.

\* An interrupt of a device.
LEMMA DeviceInterruptInv ==
  ASSUME Consistent, DeviceInterrupt
  PROVE  Consistent'
<1> USE DEF Consistent
<1>1. /\ irq = "none" /\ irq' = "bottom" /\ interrupt_level' = 1 /\ EndHlt
      /\ UNCHANGED <<current_task, taskVars, queueVars, timeVars, preemption_counter, ret,
                     newborn, iter, pulses, panic>>
  BY DEF DeviceInterrupt
<1>2. pc' \in [Tasks -> TaskLabels]
  BY <1>1 DEF TypeOK, TaskLabels, EndHlt
<1>3. \A x \in Tasks : pc'[x] # pc[x] => x = current_task /\ pc[x] = "hlt" /\ pc'[x] = "woken"
  BY <1>1 DEF TypeOK, EndHlt
<1>4. TypeOK'
  BY <1>1, <1>2 DEF TypeOK, taskVars, queueVars, timeVars
<1>5. Phases'
  BY <1>1 DEF Phases
<1>6. Loops' /\ AlarmSet'
  BY <1>1 DEF Loops, AlarmSet, timeVars
<1>7. Labels'
  BY <1>1, <1>3 DEF Labels, InYield, TypeOK, Tasks, taskVars
<1>8. Lives' /\ Newborns'
  <2>1. \A x \in Tasks : InYield(x) => InYield(x)'
    BY <1>3 DEF InYield
  <2>2. \A x \in Tasks : pc'[x] = "create" <=> pc[x] = "create"
    BY <1>3
  <2> QED BY <1>1, <2>1, <2>2, LivesStay, NewbornsStay DEF taskVars, queueVars
<1>9. Waits'
  BY <1>1, <1>3, Frame DEF TypeOK, taskVars
<1>10. SleeperHasAlarm'
  BY <1>1 DEF SleeperHasAlarm, taskVars, queueVars, timeVars
<1> QED BY <1>1, <1>4, <1>5, <1>6, <1>7, <1>8, <1>9, <1>10, Frame DEF taskVars, queueVars,
     timeVars

\* A bottom half ends.
LEMMA BottomDoneInv ==
  ASSUME Consistent, BottomDone
  PROVE  Consistent'
<1> USE DEF Consistent
<1>1. /\ irq = "bottom" /\ irq' = "eoi" /\ pulses' = 0
      /\ UNCHANGED <<current_task, taskVars, queueVars, timeVars, preemption_counter, pc, ret,
                     newborn, interrupt_level, iter, panic>>
  BY DEF BottomDone
<1>2. TypeOK'
  BY <1>1, TimeAssumption DEF TypeOK, taskVars, queueVars, timeVars
<1>3. Phases'
  BY <1>1 DEF Phases
<1>4. Loops' /\ AlarmSet'
  BY <1>1 DEF Loops, AlarmSet, timeVars
<1>6. SleeperHasAlarm'
  BY <1>1 DEF SleeperHasAlarm, taskVars, queueVars, timeVars
<1>7. Lives' /\ Newborns'
  BY <1>1, LivesStay, NewbornsStay DEF InYield, taskVars, queueVars
<1> QED BY <1>1, <1>2, <1>3, <1>4, <1>6, <1>7, Frame DEF taskVars, queueVars, timeVars

\* scheduler_end_of_interrupt() and do_schedule(): the current task goes on, idles, or makes
\* room for the first ready task.
LEMMA EndOfInterruptInv ==
  ASSUME Consistent, EndOfInterrupt
  PROVE  Consistent'
<1> USE DEF Consistent
<1> DEFINE c == current_task
<1>1. /\ irq = "eoi" /\ irq' = "none" /\ interrupt_level' = 0 /\ iter = <<>> /\ pulses = 0
      /\ UNCHANGED <<block_reason, refs, sleep_expiry, sleep_queue, termination_queue,
                     earliest_wakeup, preemption_event, sleep_events, pc, ret, newborn, iter,
                     pulses>>
  BY DEF EndOfInterrupt, Phases
<1>2. c \in Tasks /\ Cleaner \in Tasks /\ ready_queue \in Seq(Tasks) /\ NoDuplicates(ready_queue)
  BY DEF TypeOK, Tasks, QueuesAgree
<1>3. (Phases /\ Loops /\ AlarmSet /\ SleeperHasAlarm)'
  <2>1. (Phases /\ AlarmSet)'
    BY <1>1 DEF Phases, AlarmSet
  <2>2. Loops' /\ SleeperHasAlarm'
    BY <1>1 DEF Loops, SleeperHasAlarm
  <2> QED BY <2>1, <2>2
<1>4. CASE ~(resched[c] /\ state[c] # "BLOCKED_IDLING")
  <2>1. UNCHANGED <<current_task, state, resched, task_queue, ref_count, ready_queue,
                    preemption_ts, preemption_counter, panic>>
    BY <1>4 DEF EndOfInterrupt, Schedules
  <2>2. TypeOK'
    BY <1>1, <2>1 DEF TypeOK
  <2>3. (Labels /\ Lives /\ Newborns)'
    BY <1>1, <2>1 DEF Labels, Lives, Newborns, InYield, IsTerminated
  <2>4. (QueuesAgree /\ RefCountExact /\ OneRunning /\ IdleOnlyIfNothingReady
         /\ Planned /\ OnlyLate)'
    BY <1>1, <2>1 DEF QueuesAgree, RefCountExact, OneRunning, IdleOnlyIfNothingReady,
         Planned, OnlyLate, IsTerminated
  <2>6. Waits'
    BY <1>1, <2>1, Frame
  <2> QED BY <1>3, <2>2, <2>3, <2>4, <2>6
<1>5. CASE resched[c] /\ state[c] # "BLOCKED_IDLING" /\ ready_queue = <<>>
  <2>1. /\ preemption_ts' = NoTime
        /\ resched' = IF state[c] = "RUNNING" THEN [resched EXCEPT ![c] = FALSE] ELSE resched
        /\ state' = [state EXCEPT ![c] = IF @ = "BLOCKED" THEN "BLOCKED_IDLING" ELSE @]
        /\ UNCHANGED <<current_task, ready_queue, task_queue, ref_count>>
        /\ KAssert(state[current_task] \in {"RUNNING", "BLOCKED"}, "do_schedule_state")
    BY <1>5 DEF EndOfInterrupt, ScheduleNone, ScheduleNext, Schedules, Requeued, Enqueue
  <2>2. /\ state[c] \in {"RUNNING", "BLOCKED"}
        /\ (state[c] = "BLOCKED" => block_reason[c] # "TERMINATED")
    BY <1>5 DEF OneRunning, Lives, IsTerminated
  <2>3. panic' = panic
    BY <2>1, <2>2 DEF KAssert
  <2>4. \/ /\ state[c] = "RUNNING" /\ state' = state /\ resched' = [resched EXCEPT ![c] = FALSE]
        \/ /\ state[c] = "BLOCKED" /\ state' = [state EXCEPT ![c] = "BLOCKED_IDLING"]
           /\ resched' = resched
    <3>1. CASE state[c] = "RUNNING"
      BY <2>1, <3>1 DEF TypeOK
    <3>2. CASE state[c] = "BLOCKED"
      BY <2>1, <3>2 DEF TypeOK
    <3> QED BY <2>2, <3>1, <3>2
  <2>5. UNCHANGED <<current_task, ready_queue, task_queue, ref_count>> /\ preemption_ts' = NoTime
    BY <2>1
  <2>5a. /\ \A x \in Tasks \ {c} : state'[x] = state[x] /\ resched'[x] = resched[x]
         /\ \/ state[c] = "RUNNING" /\ state'[c] = "RUNNING" /\ ~resched'[c]
            \/ state[c] = "BLOCKED" /\ state'[c] = "BLOCKED_IDLING" /\ resched'[c] = resched[c]
    BY <1>2, <2>4, Zenon DEF TypeOK
  <2>6. TypeOK'
    <3>1. state' \in [Tasks -> States] /\ resched' \in [Tasks -> BOOLEAN]
      BY <2>4, Zenon DEF TypeOK, States
    <3>2. preemption_counter' \in Nat
      BY <1>5 DEF EndOfInterrupt, Schedules
    <3> QED BY <1>1, <2>5, <3>1, <3>2 DEF TypeOK
  <2>7. Labels'
    BY <1>1, <1>5, <2>4, <2>5 DEF Labels, InYield, TypeOK
  <2>8. Lives'
    BY <1>1, <1>2, <2>2, <2>5, <2>5a DEF Lives, InYield, IsTerminated
  <2>9. Newborns'
    <3>1. UNCHANGED <<newborn, pc, block_reason, task_queue, current_task>>
      BY <1>1, <2>5
    <3>2. ASSUME NEW x \in Tasks, newborn[x] # NoTask
          PROVE  /\ newborn[x] # c /\ state'[newborn[x]] = "BLOCKED"
                 /\ block_reason[newborn[x]] = "SLEEP" /\ task_queue[newborn[x]] = "none"
      BY <2>5a, <3>2, NewbornIs
    <3> QED BY <3>1, <3>2, NewbornsStep, Zenon
  <2>10. (Planned /\ OnlyLate /\ RefCountExact)'
    BY <1>1, <1>5, <2>3, <2>5 DEF Planned, OnlyLate, RefCountExact
  <2>10a. Waits'
    <3>1. ASSUME NEW x \in Tasks, task_queue[x] = "wait", state[x] \in {"BLOCKED", "BLOCKED_IDLING"}
          PROVE  state'[x] \in {"BLOCKED", "BLOCKED_IDLING"} /\ block_reason'[x] = block_reason[x]
      BY <1>1, <2>5a, <3>1
    <3>2. UNCHANGED task_queue
      BY <2>5
    <3> QED BY <1>5, <3>1, <3>2, WaitsStep, Zenon
  <2>11. QueuesAgree'
    BY <1>1, <2>2, <2>5, <2>5a DEF QueuesAgree, IsTerminated
  <2>12. OneRunning'
    BY <1>2, <2>4, <2>5 DEF OneRunning, TypeOK
  <2>13. IdleOnlyIfNothingReady'
    BY <1>2, <1>5, <2>4, <2>5 DEF IdleOnlyIfNothingReady, OneRunning, TypeOK
  <2> QED BY <1>3, <2>6, <2>7, <2>8, <2>9, <2>10, <2>10a, <2>11, <2>12, <2>13
<1>6. CASE resched[c] /\ state[c] # "BLOCKED_IDLING" /\ ready_queue # <<>>
  <2> DEFINE n == Head(ready_queue)
  <2>1. /\ n \in Tasks /\ n \in Elems(ready_queue) /\ Tail(ready_queue) \in Seq(Tasks)
        /\ NoDuplicates(Tail(ready_queue)) /\ Elems(Tail(ready_queue)) = Elems(ready_queue) \ {n}
    BY <1>2, <1>6, TailList, Zenon
  <2>2. /\ n # c /\ state[n] = "READY_TO_RUN" /\ task_queue[n] = "ready" /\ ~resched[n]
        /\ block_reason[n] # "TERMINATED"
    BY <2>1 DEF QueuesAgree, OneRunning, Lives, TypeOK
  <2> HIDE DEF n
  <2>3. state[c] \in {"RUNNING", "BLOCKED"} /\ (state[c] = "RUNNING" => task_queue[c] = "none")
    BY <1>2, <1>6, InNoQueue, Zenon DEF OneRunning
  <2>4. /\ current_task' = n /\ resched' = [resched EXCEPT ![c] = FALSE] /\ panic' = panic
        /\ preemption_ts' = IF ready_queue' # <<>> THEN TimeSlice ELSE NoTime
    BY <1>6, <2>2, <2>3 DEF EndOfInterrupt, ScheduleNone, ScheduleNext, KAssert, n, Schedules,
         Requeued, Enqueue
  <2>5. ref_count[n] = refs[n] + 1
    BY <2>1, <2>2 DEF RefCountExact
  <2>6. /\ state' \in [Tasks -> States] /\ state'[n] = "RUNNING"
        /\ state'[c] = IF state[c] = "RUNNING" THEN "READY_TO_RUN" ELSE "BLOCKED"
        /\ \A x \in Tasks \ {n, c} : state'[x] = state[x]
    <3>1. state' = [state EXCEPT ![n] = "RUNNING",
                                 ![c] = IF state[c] = "RUNNING" THEN "READY_TO_RUN" ELSE @]
      BY <1>6 DEF EndOfInterrupt, ScheduleNone, ScheduleNext, n, Schedules, Requeued, Enqueue
    <3> QED BY <1>2, <2>1, <2>2, <2>3, <3>1, Zenon DEF TypeOK, States
  <2>7. /\ task_queue' \in [Tasks -> {"none", "ready", "sleep", "wait"}] /\ task_queue'[n] = "none"
        /\ task_queue'[c] = IF state[c] = "RUNNING" THEN "ready" ELSE task_queue[c]
        /\ \A x \in Tasks \ {n, c} : task_queue'[x] = task_queue[x]
    <3>1. task_queue' = [task_queue EXCEPT ![n] = "none",
                                           ![c] = IF state[c] = "RUNNING" THEN "ready" ELSE @]
      BY <1>6 DEF EndOfInterrupt, ScheduleNone, ScheduleNext, n, Schedules, Requeued, Enqueue
    <3> QED BY <1>2, <2>1, <2>2, <3>1, Zenon DEF TypeOK
  <2>8. /\ ref_count' \in [Tasks -> Int] /\ ref_count'[n] = ref_count[n] - 1
        /\ ref_count'[c] = IF state[c] = "RUNNING" THEN ref_count[c] + 1 ELSE ref_count[c]
        /\ \A x \in Tasks \ {n, c} : ref_count'[x] = ref_count[x]
    <3>1. ref_count' = [ref_count EXCEPT ![n] = @ - 1,
                                         ![c] = IF state[c] = "RUNNING" THEN @ + 1 ELSE @]
      BY <1>6 DEF EndOfInterrupt, ScheduleNone, ScheduleNext, n, Schedules, Requeued, Enqueue
    <3>2. ref_count \in [Tasks -> Int] /\ ref_count[n] \in Int /\ ref_count[c] \in Int
      BY <1>2, <2>1 DEF TypeOK
    <3>3. /\ ref_count'[n] = ref_count[n] - 1
          /\ ref_count'[c] = IF state[c] = "RUNNING" THEN ref_count[c] + 1 ELSE ref_count[c]
      BY <1>2, <2>1, <2>2, <3>1, <3>2
    <3>4. \A x \in Tasks \ {n, c} : ref_count'[x] = ref_count[x]
      BY <3>1, <3>2
    <3>5. ref_count' \in [Tasks -> Int]
      <4>1. \A x \in Tasks : ref_count'[x] \in Int
        BY <3>2, <3>3, <3>4
      <4>2. ref_count' = [x \in Tasks |-> ref_count'[x]]
        BY <3>1, <3>2, Zenon
      <4> QED BY <4>1, <4>2, Zenon
    <3> QED BY <3>3, <3>4, <3>5
  <2>9. /\ ready_queue' \in Seq(Tasks) /\ NoDuplicates(ready_queue')
        /\ Elems(ready_queue') = IF state[c] = "RUNNING" THEN (Elems(ready_queue) \ {n}) \union {c}
                                                         ELSE Elems(ready_queue) \ {n}
    <3>1. ready_queue' = IF state[c] = "RUNNING" THEN Append(Tail(ready_queue), c)
                                                 ELSE Tail(ready_queue)
      BY <1>6 DEF EndOfInterrupt, ScheduleNone, ScheduleNext, n, Schedules, Requeued, Enqueue
    <3>2. CASE state[c] = "RUNNING"
      <4>1. c \notin Elems(Tail(ready_queue))
        BY <1>2, <2>1, <3>2 DEF QueuesAgree
      <4>2. ready_queue' = Append(Tail(ready_queue), c)
        BY <3>1, <3>2
      <4>3. /\ ready_queue' \in Seq(Tasks) /\ NoDuplicates(ready_queue')
            /\ Elems(ready_queue') = Elems(Tail(ready_queue)) \union {c}
        BY <1>2, <2>1, <4>1, <4>2, AppendNew, Zenon
      <4> QED BY <2>1, <3>2, <4>3
    <3>3. CASE state[c] # "RUNNING"
      BY <2>1, <3>1, <3>3
    <3> QED BY <3>2, <3>3
  <2>10. TypeOK'
    <3>1. resched' \in [Tasks -> BOOLEAN] /\ preemption_ts' \in Int \union {NoTime}
      BY <2>4, TimeAssumption DEF TypeOK
    <3>2. /\ current_task' \in Tasks /\ state' \in [Tasks -> States] /\ ready_queue' \in Seq(Tasks)
          /\ task_queue' \in [Tasks -> {"none", "ready", "sleep", "wait"}]
          /\ ref_count' \in [Tasks -> Int]
      BY <2>1, <2>4, <2>6, <2>7, <2>8, <2>9
    <3>3. interrupt_level' \in 0 .. 2 /\ preemption_counter' \in Nat
      <4>1. preemption_counter' = 0
        BY <1>6, Zenon DEF EndOfInterrupt, Schedules
      <4> QED BY <1>1, <4>1
    <3> QED BY <1>1, <3>1, <3>2, <3>3, Zenon DEF TypeOK
  <2>11. Labels'
    BY <1>1, <2>4, <2>6 DEF Labels, InYield
  <2>12. Lives'
    <3>1. \A x \in Tasks : block_reason[x] = "TERMINATED" => state'[x] = state[x]
      BY <1>2, <2>1, <2>2, <2>6 DEF Lives
    <3>2. task_queue'[Cleaner] \in {"none", "ready"}
      BY <1>2, <2>1, <2>7 DEF Lives
    <3>3. \A x \in Tasks : state'[x] = "NONE" => state[x] = "NONE"
      BY <1>2, <2>1, <2>6
    <3> QED BY <1>1, <2>4, <2>6, <3>1, <3>2, <3>3 DEF Lives, InYield, IsTerminated
  <2>13. Newborns'
    <3>1. \A x \in Tasks : newborn[x] # NoTask => newborn[x] \in Tasks \ {n, c}
      BY <2>2 DEF Newborns, Tasks
    <3>2. UNCHANGED <<newborn, pc, block_reason>> /\ current_task' = n
      BY <1>1, <2>4
    <3>3. ASSUME NEW x \in Tasks, newborn[x] # NoTask
          PROVE  /\ newborn[x] # n /\ state'[newborn[x]] = "BLOCKED"
                 /\ block_reason[newborn[x]] = "SLEEP" /\ task_queue'[newborn[x]] = "none"
      BY <2>6, <2>7, <3>1, <3>3, NewbornIs
    <3> QED BY <3>2, <3>3, NewbornsStep, Zenon
  <2>14. (Waits /\ Planned /\ OnlyLate)'
    <3>1. ASSUME NEW x \in Tasks PROVE task_queue'[x] = "wait" => task_queue[x] = "wait"
      BY <2>3, <2>7
    <3>2. ASSUME NEW x \in Tasks, task_queue[x] = "wait", state[x] \in {"BLOCKED", "BLOCKED_IDLING"}
          PROVE  state'[x] \in {"BLOCKED", "BLOCKED_IDLING"} /\ block_reason'[x] = block_reason[x]
      BY <1>1, <2>2, <2>3, <2>6, <3>2
    <3>3. Waits'
      BY <1>6, <3>1, <3>2, WaitsStep, Zenon
    <3> QED BY <2>4, <3>3, TimeAssumption DEF Planned, OnlyLate
  <2>15. QueuesAgree'
    <3>1. ASSUME NEW x \in Tasks
          PROVE /\ x \in Elems(ready_queue') <=> task_queue'[x] = "ready"
                /\ x \in Elems(ready_queue') <=> state'[x] = "READY_TO_RUN"
      <4>1. /\ x \in Elems(ready_queue) <=> task_queue[x] = "ready"
            /\ x \in Elems(ready_queue) <=> state[x] = "READY_TO_RUN"
        BY DEF QueuesAgree
      <4>2. CASE x = n
        BY <2>2, <2>6, <2>7, <2>9, <4>2
      <4>3. CASE x = c
        BY <2>2, <2>3, <2>6, <2>7, <2>9, <4>1, <4>3
      <4>4. CASE x \notin {n, c}
        BY <2>6, <2>7, <2>9, <4>1, <4>4
      <4> QED BY <4>2, <4>3, <4>4
    <3>2. ASSUME NEW x \in Tasks
          PROVE /\ x \in Elems(sleep_queue) <=> task_queue'[x] = "sleep"
                /\ x \in Elems(sleep_queue) =>
                     state'[x] \in {"BLOCKED", "BLOCKED_IDLING"} /\ block_reason[x] = "SLEEP"
      <4>1. /\ x \in Elems(sleep_queue) <=> task_queue[x] = "sleep"
            /\ x \in Elems(sleep_queue) =>
                 state[x] \in {"BLOCKED", "BLOCKED_IDLING"} /\ block_reason[x] = "SLEEP"
        BY DEF QueuesAgree
      <4>2. CASE x = n
        BY <2>2, <2>6, <2>7, <4>1, <4>2
      <4>3. CASE x = c
        BY <2>2, <2>3, <2>6, <2>7, <4>1, <4>3
      <4>4. CASE x \notin {n, c}
        BY <2>6, <2>7, <4>1, <4>4
      <4> QED BY <4>2, <4>3, <4>4
    <3>3. ASSUME NEW x \in Tasks
          PROVE x \in Elems(termination_queue) <=> IsTerminated(x)'
      BY <1>1, <1>2, <2>1, <2>2, <2>3, <2>6, Zenon DEF QueuesAgree, IsTerminated, Lives
    <3> QED BY <1>1, <2>9, <3>1, <3>2, <3>3 DEF QueuesAgree
  <2>16. RefCountExact'
    <3>1. ASSUME NEW x \in Tasks
          PROVE  ref_count'[x] = refs[x] + (IF task_queue'[x] = "none" THEN 0 ELSE 1)
      <4>1. ref_count[x] = refs[x] + (IF task_queue[x] = "none" THEN 0 ELSE 1) /\ refs[x] \in Nat
        BY DEF RefCountExact, TypeOK
      <4>2. CASE x = n
        <5>1. /\ ref_count'[n] = ref_count[n] - 1 /\ task_queue'[n] = "none"
              /\ task_queue[n] # "none"
          BY <2>2, <2>7, <2>8
        <5> QED BY <4>1, <4>2, <5>1
      <4>3. CASE x = c
        BY <2>2, <2>3, <2>7, <2>8, <4>1, <4>3
      <4>4. CASE x \notin {n, c}
        BY <2>7, <2>8, <4>1, <4>4
      <4> QED BY <4>2, <4>3, <4>4
    <3> QED BY <1>1, <3>1 DEF RefCountExact
  <2>17. OneRunning'
    <3>1. ASSUME NEW x \in Tasks \ {n}
          PROVE  state'[x] \notin {"RUNNING", "BLOCKED_IDLING"} /\ ~resched'[x]
      <4>1. CASE x = c
        BY <1>2, <2>3, <2>4, <2>6, <4>1 DEF TypeOK
      <4>2. CASE x # c
        BY <1>2, <2>4, <2>6, <4>2 DEF OneRunning, TypeOK
      <4> QED BY <4>1, <4>2
    <3> QED BY <2>4, <2>6, <3>1 DEF OneRunning
  <2>18. IdleOnlyIfNothingReady'
    <3>1. ASSUME NEW x \in Tasks PROVE state'[x] # "BLOCKED_IDLING"
      BY <1>2, <2>1, <2>3, <2>6, Zenon DEF OneRunning, TypeOK
    <3> QED BY <3>1 DEF IdleOnlyIfNothingReady
  <2> QED BY <1>3, <2>10, <2>11, <2>12, <2>13, <2>14, <2>15, <2>16, <2>17, <2>18
<1> QED BY <1>4, <1>5, <1>6

-----------------------------------------------------------------------------
\* The initial state, and every step.

\* scheduler_init() establishes the invariant.
LEMMA InitInv ==
  ASSUME Init
  PROVE  IndInv
<1> USE DEF Init
<1>1. /\ Root \in Tasks /\ Cleaner \in Tasks /\ Root # Cleaner /\ Cleaner \notin Workers
      /\ \A t \in Tasks : t \notin {Root, Cleaner} => t \in Workers
  BY TasksAssumption DEF Tasks
<1>2. /\ ready_queue \in Seq(Tasks) /\ NoDuplicates(ready_queue) /\ Elems(ready_queue) = {Cleaner}
      /\ ready_queue # <<>>
  <2>1. /\ ready_queue \in Seq(Tasks) /\ DOMAIN ready_queue = {1} /\ ready_queue[1] = Cleaner
        /\ ready_queue # <<>>
    BY <1>1
  <2> QED BY <2>1 DEF NoDuplicates, Elems
<1>3. <<>> \in Seq(Tasks) /\ NoDuplicates(<<>>) /\ Elems(<<>>) = {}
  BY DEF NoDuplicates, Elems
<1>4. TypeOK
  BY <1>1, <1>2, <1>3, TimeAssumption DEF TypeOK, TaskLabels, States, Reasons
<1>5. Phases /\ Loops
  BY <1>3 DEF Phases, Loops
<1>6. Labels /\ Lives
  BY <1>1, <1>2 DEF Labels, Lives, InYield, IsTerminated
<1>7. Newborns /\ Waits
  BY DEF Newborns, Waits
<1>8. Timing /\ AlarmSet
  BY TimeAssumption DEF Timing, AlarmSet
<1>9. QueuesAgree
  BY <1>1, <1>2, <1>3 DEF QueuesAgree, IsTerminated
<1>10. RefCountExact
  BY <1>1 DEF RefCountExact
<1>11. OneRunning
  BY <1>1 DEF OneRunning
<1>12. IdleOnlyIfNothingReady /\ OnlyLate /\ NoPanic
  BY DEF IdleOnlyIfNothingReady, OnlyLate, NoPanic
<1>13. Planned
  BY <1>2, TimeAssumption DEF Planned
<1>14. SleeperHasAlarm
  BY <1>3 DEF SleeperHasAlarm
<1> QED BY <1>4, <1>5, <1>6, <1>7, <1>8, <1>9, <1>10, <1>11, <1>12, <1>13, <1>14
        DEF IndInv, Consistent, OnTime

\* Every step of the scheduler preserves the invariant.
LEMMA NextConsistent ==
  ASSUME Consistent, [Next]_vars
  PROVE  Consistent'
<1>1. ASSUME NEW t \in Tasks, KernelStep(t) PROVE Consistent'
  BY <1>1, CreateUnblockInv, MarkForRescheduleInv, HaltInv, YieldTestInv DEF KernelStep
<1>2. ASSUME NEW t \in Tasks, Block(t) PROVE Consistent'
  <2>1. /\ state[t] = "RUNNING" /\ t = current_task /\ irq = "none" /\ pc[t] = "run"
        /\ BlockTask(t, "IO_WAIT", "run") /\ ~InYield(t)
    BY <1>2 DEF Block, At, Consistent, Labels, InYield
  <2>2. t # Cleaner
    BY <2>1 DEF Consistent, Labels, InYield
  <2> QED BY <2>1, <2>2, BlockTaskInv
<1>3. ASSUME NEW n \in Tasks, (\E t \in Tasks : Unblock(t, n)) \/ BottomUnblock(n)
      PROVE  Consistent'
  BY <1>3, UnblockInv DEF Unblock, BottomUnblock
<1>4. ASSUME NEW t \in Tasks, \E when \in -1 .. MaxSleep : NanoSleepUntil(t, when)
      PROVE  Consistent'
  <2>1. PICK when \in Int : NanoSleepUntil(t, when)
    BY <1>4
  <2> QED BY <2>1, NanoSleepUntilInv
<1>5. ASSUME NEW t \in Tasks, UserStep(t) PROVE Consistent'
  <2>1. CASE Block(t) \/ Yield(t) \/ Terminate(t)
    BY <1>2, <2>1, YieldInv, TerminateInv
  <2>2. CASE \E n \in Tasks : CreateTask(t, n) \/ Unblock(t, n) \/ GetTask(t, n) \/ PutTask(t, n)
    BY <1>3, <2>2, CreateTaskInv, GetTaskInv, PutTaskInv
  <2> QED BY <1>4, <1>5, <2>1, <2>2 DEF UserStep
<1>6. CASE CleanupPause
  <2>1. /\ state[Cleaner] = "RUNNING" /\ Cleaner = current_task /\ irq = "none"
        /\ pc[Cleaner] = "pause" /\ BlockTask(Cleaner, "PAUSED", "clean") /\ Cleaner \in Tasks
        /\ ~InYield(Cleaner)
    BY <1>6 DEF CleanupPause, At, Consistent, Labels, Tasks, InYield
  <2> QED BY <2>1, BlockTaskInv
<1>7. CASE Cleanup
  BY <1>6, <1>7, CleanupStartInv, CleanupOneInv, CleanupEndInv DEF Cleanup
<1>8. CASE Isr
  BY <1>8, FireSleepInv, WakeOneInv, WakeDoneInv, FirePreemptionInv, PulseDoneInv,
       BottomDoneInv, EndOfInterruptInv DEF Isr
<1>9. CASE ClockPulse \/ DeviceInterrupt
  BY <1>9, ClockPulseInv, DeviceInterruptInv
<1> QED BY <1>1, <1>3, <1>5, <1>7, <1>8, <1>9, StutterInv DEF Next

-----------------------------------------------------------------------------
\* As long as preemption is never disabled, it is also in time.

\* A step that may mark the current task and plan a preemption, but at no other time than
\* at the end of a time slice from now.
InTime ==
  /\ UNCHANGED <<current_task, preemption_event, preemption_counter, irq, interrupt_level, pulses>>
  /\ preemption_ts' = preemption_ts \/ preemption_ts' = PlannedPreemption
  /\ irq \in {"none", "clean"} \/ (resched[current_task] => resched'[current_task])
  /\ panic' # "late_preemption"

\* A planned preemption is not before the next call of preemption_callback().
LEMMA InTimeStep ==
  ASSUME IndInv, Consistent', InTime
  PROVE  OnTime'
<1> USE DEF IndInv, OnTime, InTime
<1>1. panic' = "no"
  BY DEF Consistent, OnlyLate
<1>2. /\ preemption_event <= TimeSlice /\ preemption_event >= 0
      /\ irq \notin {"pulse", "wake"} => preemption_event > 0
  BY DEF Timing
<1>3. CASE preemption_ts = NoTime
  <2>1. preemption_ts' \in {NoTime, TimeSlice}
    BY <1>3 DEF PlannedPreemption
  <2>2. Timing'
    BY <1>2, <2>1, TimeAssumption DEF Timing
  <2> QED BY <1>1, <2>2 DEF NoPanic
<1>4. CASE preemption_ts # NoTime
  <2>1. preemption_ts' = preemption_ts
    BY <1>4 DEF PlannedPreemption
  <2>2. Timing'
    BY <1>4, <2>1 DEF Timing
  <2> QED BY <1>1, <2>2 DEF NoPanic
<1> QED BY <1>3, <1>4

\* scheduler_unblock_task_locked() plans a preemption if there is none yet.
LEMMA UnblockInTime ==
  ASSUME NEW n, NEW st, NEW tq, NEW rc, IndInv, UnblockLocked(n, st, tq, rc),
         UNCHANGED <<current_task, preemption_event, preemption_counter, irq, interrupt_level,
                     pulses>>
  PROVE  InTime
<1>1. resched \in [Tasks -> BOOLEAN] /\ current_task \in Tasks /\ panic = "no"
  BY DEF IndInv, Consistent, OnTime, TypeOK, NoPanic
<1>2. preemption_ts' = preemption_ts \/ preemption_ts' = PlannedPreemption
  BY DEF UnblockLocked
<1>3. resched[current_task] => resched'[current_task]
  BY <1>1 DEF UnblockLocked
<1>4. panic' # "late_preemption"
  BY <1>1 DEF UnblockLocked, KAssert
<1> QED BY <1>2, <1>3, <1>4 DEF InTime

\* What the tasks do leaves the timestamps alone, or unblocks a task.
LEMMA TaskStepOnTime ==
  ASSUME IndInv, Consistent', NEW t \in Tasks, KernelStep(t) \/ UserStep(t)
  PROVE  OnTime'
<1>1. panic = "no"
  BY DEF IndInv, OnTime, NoPanic
<1>2. CASE CreateUnblock(t)
  BY <1>2, UnblockInTime, InTimeStep DEF CreateUnblock, irqVars
<1>3. CASE MarkForReschedule(t) \/ Halt(t) \/ YieldTest(t)
  <2>1. InTime
    BY <1>1, <1>3 DEF MarkForReschedule, Halt, YieldTest, InTime, At, KAssert, timeVars, irqVars
  <2> QED BY <2>1, InTimeStep
<1>4. CASE Block(t) \/ Yield(t)
  <2>1. InTime
    BY <1>1, <1>4 DEF Block, BlockTask, Yield, InTime, At, timeVars, irqVars, taskVars
  <2> QED BY <2>1, InTimeStep
<1>5. CASE Terminate(t)
  BY <1>5, UnblockInTime, InTimeStep DEF Terminate, irqVars
<1>6. ASSUME NEW when, NanoSleepUntil(t, when) PROVE OnTime'
  <2>1. InTime
    BY <1>1, <1>6 DEF NanoSleepUntil, InTime, At, KAssert, irqVars
  <2> QED BY <2>1, InTimeStep
<1>7. ASSUME NEW n, CreateTask(t, n) \/ GetTask(t, n) \/ PutTask(t, n) PROVE OnTime'
  <2>1. InTime
    BY <1>1, <1>7 DEF CreateTask, GetTask, PutTask, InTime, At, timeVars, irqVars
  <2> QED BY <2>1, InTimeStep
<1>8. ASSUME NEW n, Unblock(t, n) PROVE OnTime'
  BY <1>8, UnblockInTime, InTimeStep DEF Unblock, irqVars
<1> QED BY <1>2, <1>3, <1>4, <1>5, <1>6, <1>7, <1>8 DEF KernelStep, UserStep

\* So does the cleanup thread.
LEMMA CleanupOnTime ==
  ASSUME IndInv, Consistent', Cleanup
  PROVE  OnTime'
<1>1. panic = "no" /\ Timing /\ preemption_counter = 0
  BY DEF IndInv, OnTime, NoPanic
<1>2. CASE CleanupStart \/ CleanupEnd
  <2>1. /\ irq \in {"none", "clean"} /\ irq' \in {"none", "clean"}
        /\ UNCHANGED <<current_task, resched, preemption_ts, preemption_event, preemption_counter,
                       interrupt_level, pulses, panic>>
    BY <1>2 DEF CleanupStart, CleanupEnd, At, taskVars, timeVars
  <2>2. Timing'
    BY <1>1, <2>1 DEF Timing
  <2> QED BY <1>1, <2>1, <2>2 DEF OnTime, NoPanic
<1>3. CASE CleanupOne \/ CleanupPause
  <2>1. InTime
    BY <1>1, <1>3 DEF CleanupOne, CleanupPause, BlockTask, InTime, At, KAssert, timeVars, irqVars
  <2> QED BY <2>1, InTimeStep
<1> QED BY <1>2, <1>3 DEF Cleanup

\* A clock pulse moves both timestamps alike; a bottom half ends before its pulses make up
\* a time slice.
LEMMA ClockPulseOnTime ==
  ASSUME IndInv, ClockPulse
  PROVE  OnTime'
<1> USE DEF IndInv, Consistent, OnTime
<1>1. /\ irq' = "pulse" /\ interrupt_level' = interrupt_level + 1
      /\ UNCHANGED <<current_task, resched, preemption_counter, panic>>
  BY DEF ClockPulse
<1>2. \/ irq = "none" /\ UNCHANGED pulses
      \/ irq = "bottom" /\ pulses < BottomHalfPulses /\ pulses' = pulses + 1
  BY DEF ClockPulse
<1>3. preemption_ts' = Later(preemption_ts) /\ preemption_event' = preemption_event - 1
  BY DEF ClockPulse
<1>11. preemption_ts \in Int \union {NoTime} /\ preemption_event \in Int /\ TimeSlice \in Int
  BY TimeAssumption DEF TypeOK
<1>12. Timing'
  <2>1. CASE preemption_ts = NoTime
    <3>1. preemption_ts' = NoTime /\ preemption_event' = preemption_event - 1
      BY <1>3, <2>1 DEF Later
    <3>2. preemption_event <= TimeSlice /\ preemption_event > 0
      BY <1>2 DEF Timing
    <3> QED BY <1>1, <1>11, <3>1, <3>2 DEF Timing
  <2>2. CASE preemption_ts # NoTime
    <3>1. preemption_ts' = preemption_ts - 1 /\ preemption_ts \in Int
      BY <1>3, <1>11, <2>2 DEF Later
    <3>2. pulses \in Int /\ interrupt_level \in Int
      BY TimeAssumption DEF TypeOK
    <3>3. preemption_event <= TimeSlice /\ preemption_event > 0 /\ preemption_ts <= TimeSlice
      BY <1>2, <2>2 DEF Timing
    <3>4. CASE preemption_event <= preemption_ts
      BY <1>1, <1>3, <1>11, <3>1, <3>3, <3>4 DEF Timing
    <3>5. CASE ~(preemption_event <= preemption_ts)
      <4>1. /\ resched[current_task] /\ irq \notin {"none", "clean"}
            /\ preemption_event = TimeSlice + preemption_ts
            /\ irq = "bottom" => -preemption_ts < pulses
        BY <2>2, <3>5 DEF Timing
      <4>2. irq = "bottom" /\ pulses' = pulses + 1 /\ interrupt_level = 1
        BY <1>2, <4>1 DEF Phases
      <4>3. /\ resched'[current_task'] /\ irq' = "pulse" /\ interrupt_level' = 2
            /\ preemption_event' = TimeSlice + preemption_ts' /\ -preemption_ts' < pulses'
        BY <1>1, <1>3, <1>11, <3>1, <3>2, <4>1, <4>2
      <4> QED BY <1>3, <1>11, <3>1, <3>3, <4>3 DEF Timing
    <3> QED BY <3>4, <3>5
  <2> QED BY <2>1, <2>2
<1> QED BY <1>1, <1>12 DEF NoPanic

\* preemption_callback() comes in time, so it finds the planned preemption due or ahead.
LEMMA FirePreemptionOnTime ==
  ASSUME IndInv, FirePreemption
  PROVE  OnTime'
<1> USE DEF IndInv, Consistent
<1>1. irq = "pulse" /\ preemption_counter = 0 /\ preemption_event = 0
  <2>1. irq = "pulse" /\ preemption_event <= 0
    BY DEF FirePreemption, Preemptible
  <2>2. preemption_event \in Int /\ preemption_event >= 0 /\ preemption_counter = 0
    BY DEF OnTime, Timing, TypeOK
  <2> QED BY <2>1, <2>2
<1>2. preemption_ts = NoTime \/ preemption_ts \in 0 .. TimeSlice
  <2>1. CASE preemption_ts # NoTime
    <3>1. preemption_ts \in Int /\ preemption_ts <= TimeSlice
      BY <2>1 DEF OnTime, Timing, TypeOK
    <3>2. \/ preemption_event <= preemption_ts
          \/ /\ preemption_event = TimeSlice + preemption_ts
             /\ interrupt_level = 2 => -preemption_ts < pulses
             /\ interrupt_level = 1 => preemption_ts = 0
      BY <1>1, <2>1 DEF OnTime, Timing
    <3>3. interrupt_level \in {1, 2} /\ pulses \in 0 .. BottomHalfPulses
      BY <1>1 DEF Phases, TypeOK
    <3> QED BY <1>1, <3>1, <3>2, <3>3, TimeAssumption
  <2> QED BY <2>1
<1>3. preemption_ts # NoTime => state[current_task] # "BLOCKED_IDLING"
  BY DEF Planned, IdleOnlyIfNothingReady, TypeOK
<1>4. \/ /\ preemption_ts \in {0, NoTime} /\ preemption_event' = TimeSlice
      \/ /\ preemption_ts \in 1 .. TimeSlice /\ preemption_event' = preemption_ts
  <2>1. CASE preemption_ts \in {0, NoTime}
    <3>1. preemption_event' = TimeSlice
      BY <2>1, TimeAssumption DEF FirePreemption
    <3> QED BY <2>1, <3>1
  <2>2. CASE preemption_ts \notin {0, NoTime}
    <3>1. preemption_event' = preemption_ts
      BY <2>2 DEF FirePreemption
    <3> QED BY <1>2, <2>2, <3>1, TimeAssumption
  <2> QED BY <2>1, <2>2
<1>5. resched' = IF preemption_ts = 0 THEN [resched EXCEPT ![current_task] = TRUE] ELSE resched
  <2>1. CASE preemption_ts = 0
    <3>1. preemption_ts # NoTime
      BY <2>1, TimeAssumption
    <3>2. resched' = IF Preemptible THEN [resched EXCEPT ![current_task] = TRUE] ELSE resched
      BY <2>1, <3>1 DEF FirePreemption
    <3> QED BY <1>1, <2>1, <3>2 DEF Preemptible
  <2>2. CASE preemption_ts # 0
    BY <2>2 DEF FirePreemption
  <2> QED BY <2>1, <2>2
<1>6. panic' = panic
  <2>1. CASE preemption_ts = NoTime
    <3>1. preemption_ts # 0
      BY <2>1, TimeAssumption
    <3> QED BY <2>1, <3>1 DEF FirePreemption
  <2>2. CASE preemption_ts = 0
    <3>1. preemption_ts # NoTime /\ state[current_task] # "BLOCKED_IDLING"
      BY <1>3, <2>2, TimeAssumption
    <3>2. KAssert(Preemptible => state[current_task] # "BLOCKED_IDLING", "preempted_idle")
      BY <2>2, <3>1 DEF FirePreemption
    <3> QED BY <3>1, <3>2 DEF KAssert
  <2>3. CASE preemption_ts \in 1 .. TimeSlice
    <3>1. preemption_ts \notin {0, NoTime} /\ preemption_ts > 0
      BY <2>3, TimeAssumption
    <3>2. KAssert(preemption_ts > 0, "late_preemption")
      BY <3>1 DEF FirePreemption
    <3> QED BY <3>1, <3>2 DEF KAssert
  <2> QED BY <1>2, <2>1, <2>2, <2>3, TimeAssumption
<1>7. /\ UNCHANGED <<current_task, state, preemption_ts, ready_queue>>
      /\ UNCHANGED <<irq, interrupt_level, pulses>>
  BY DEF FirePreemption, queueVars, irqVars, Preemptible
<1>9. preemption_event' \in 1 .. TimeSlice
  BY <1>4, TimeAssumption
<1>12. Timing'
  <2>1. CASE preemption_ts = 0
    <3>1. resched'[current_task] /\ preemption_event' = TimeSlice
      <4>1. resched \in [Tasks -> BOOLEAN] /\ current_task \in Tasks
        BY DEF TypeOK
      <4> QED BY <1>4, <1>5, <2>1, <4>1, TimeAssumption
    <3>2. interrupt_level = 2 => 0 < pulses
      BY TimeAssumption DEF Phases, TypeOK
    <3>3. /\ preemption_ts' = 0 /\ current_task' = current_task /\ irq' = "pulse"
          /\ interrupt_level' = interrupt_level /\ pulses' = pulses
      BY <1>1, <1>7, <2>1
    <3>4. /\ preemption_event' <= TimeSlice /\ preemption_event' > 0 /\ preemption_event' >= 0
          /\ preemption_ts' <= TimeSlice /\ preemption_event' = TimeSlice + preemption_ts'
      BY <1>7, <3>1, <3>3, TimeAssumption
    <3>5. /\ irq' = "bottom" \/ interrupt_level' = 2 => -preemption_ts' < pulses'
          /\ irq' \in {"pulse", "wake"} /\ interrupt_level' = 1 => preemption_ts' = 0
          /\ resched'[current_task'] /\ irq' \notin {"none", "clean"}
      BY <3>1, <3>2, <3>3
    <3> QED BY <3>4, <3>5, Zenon DEF Timing
  <2>2. CASE preemption_ts # 0
    <3>1. CASE preemption_ts = NoTime
      <4>1. preemption_ts' = NoTime
        BY <1>7, <3>1
      <4> QED BY <1>9, <4>1, TimeAssumption DEF Timing
    <3>2. CASE preemption_ts \in 1 .. TimeSlice
      <4>1. preemption_event' = preemption_ts /\ preemption_ts' = preemption_ts
        BY <1>4, <1>7, <3>2, TimeAssumption
      <4> QED BY <1>9, <3>2, <4>1, TimeAssumption DEF Timing
    <3> QED BY <1>2, <2>2, <3>1, <3>2, TimeAssumption
  <2> QED BY <2>1, <2>2
<1> QED BY <1>1, <1>6, <1>12 DEF OnTime, NoPanic, FirePreemption

\* The end of an interrupt plans a preemption a time slice ahead, or none.
LEMMA EndOfInterruptOnTime ==
  ASSUME IndInv, Consistent', EndOfInterrupt
  PROVE  OnTime'
<1> USE DEF IndInv, Consistent
<1>1. /\ irq = "eoi" /\ irq' = "none" /\ UNCHANGED <<preemption_event, pulses>>
      /\ preemption_counter' = 0 /\ panic = "no"
  BY DEF EndOfInterrupt, OnTime, NoPanic
<1>2. /\ preemption_event <= TimeSlice /\ preemption_event > 0 /\ preemption_event >= 0
  BY <1>1 DEF OnTime, Timing
<1>3. panic' = "no"
  <2>1. panic' # "late_preemption"
    BY <1>1 DEF EndOfInterrupt, ScheduleNone, ScheduleNext, KAssert
  <2> QED BY <2>1 DEF OnlyLate
<1>4. CASE Schedules
  <2>1. preemption_ts' \in {NoTime, TimeSlice}
    BY <1>4 DEF EndOfInterrupt, ScheduleNone, ScheduleNext
  <2>2. Timing'
    BY <1>1, <1>2, <2>1, TimeAssumption DEF Timing
  <2> QED BY <1>1, <1>3, <2>2 DEF OnTime, NoPanic
<1>5. CASE ~Schedules
  <2>1. UNCHANGED <<current_task, resched, preemption_ts>>
    BY <1>5 DEF EndOfInterrupt
  <2>2. preemption_ts # NoTime => ~resched[current_task]
    BY <1>5 DEF Planned, IdleOnlyIfNothingReady, Schedules, TypeOK
  <2>3. Timing'
    BY <1>1, <1>2, <2>1, <2>2 DEF OnTime, Timing
  <2> QED BY <1>1, <1>3, <2>3 DEF OnTime, NoPanic
<1> QED BY <1>4, <1>5

\* The other steps of an interrupt only change its phase.
LEMMA IsrOnTime ==
  ASSUME IndInv, Consistent', Isr \/ DeviceInterrupt
  PROVE  OnTime'
<1>1. CASE FireSleep \/ WakeDone \/ PulseDone \/ BottomDone \/ DeviceInterrupt
  <2>1. UNCHANGED <<current_task, resched, preemption_ts, preemption_event, preemption_counter,
                    panic>>
    BY <1>1 DEF FireSleep, WakeDone, PulseDone, BottomDone, DeviceInterrupt, taskVars, timeVars
  <2>2. Timing /\ Phases /\ Phases'
    BY DEF IndInv, OnTime, Consistent
  <2>3. CASE FireSleep \/ WakeDone
    <3>1. /\ irq \in {"pulse", "wake"} /\ irq' \in {"pulse", "wake"}
          /\ UNCHANGED <<interrupt_level, pulses>>
      BY <2>3 DEF FireSleep, WakeDone
    <3>2. Timing'
      BY <2>1, <2>2, <3>1 DEF Timing
    <3> QED BY <2>1, <3>2 DEF IndInv, OnTime, NoPanic
  <2>4. CASE PulseDone
    <3>1. /\ irq = "pulse" /\ preemption_event > 0 /\ UNCHANGED pulses
          /\ \/ interrupt_level = 2 /\ irq' = "bottom" /\ interrupt_level' = 1
             \/ interrupt_level = 1 /\ irq' = "eoi" /\ UNCHANGED interrupt_level
      BY <2>4 DEF PulseDone
    <3>2. Timing'
      BY <2>1, <2>2, <3>1 DEF Timing
    <3> QED BY <2>1, <3>2 DEF IndInv, OnTime, NoPanic
  <2>5. CASE BottomDone \/ DeviceInterrupt
    <3>1. \/ irq = "bottom" /\ irq' = "eoi" /\ UNCHANGED interrupt_level
          \/ irq = "none" /\ irq' = "bottom"
      BY <2>5 DEF BottomDone, DeviceInterrupt
    <3>2. irq' = "eoi" => interrupt_level' = 1
      BY <2>2 DEF Phases
    <3>3. Timing'
      BY <2>1, <2>2, <3>1, <3>2 DEF Timing
    <3> QED BY <2>1, <3>3 DEF IndInv, OnTime, NoPanic
  <2> QED BY <1>1, <2>3, <2>4, <2>5
<1>2. CASE WakeOne
  <2> DEFINE n == Head(iter)
             tq == [task_queue EXCEPT ![n] = "none"]
             rc == [ref_count EXCEPT ![n] = @ - 1]
  <2>1. UnblockLocked(n, state, tq, rc) \/ UNCHANGED <<resched, preemption_ts, panic>>
    BY <1>2 DEF WakeOne
  <2>2. UNCHANGED <<current_task, preemption_event, preemption_counter, irq, interrupt_level,
                    pulses>>
    BY <1>2 DEF WakeOne
  <2> HIDE DEF n, tq, rc
  <2>3. CASE UnblockLocked(n, state, tq, rc)
    BY <2>2, <2>3, UnblockInTime, InTimeStep
  <2>4. CASE UNCHANGED <<resched, preemption_ts, panic>>
    <3>1. InTime
      BY <2>2, <2>4 DEF InTime, IndInv, OnTime, NoPanic
    <3> QED BY <3>1, InTimeStep
  <2> QED BY <2>1, <2>3, <2>4
<1> QED BY <1>1, <1>2, FirePreemptionOnTime, EndOfInterruptOnTime DEF Isr

\* Every step of the scheduler keeps the time.
LEMMA NextOnTime ==
  ASSUME IndInv, Consistent', [Next]_vars
  PROVE  OnTime'
<1>1. ASSUME NEW n, BottomUnblock(n) PROVE OnTime'
  BY <1>1, UnblockInTime, InTimeStep DEF BottomUnblock, irqVars
<1>2. CASE UNCHANGED vars
  <2>1. InTime
    BY <1>2 DEF vars, taskVars, timeVars, irqVars, InTime, IndInv, OnTime, NoPanic
  <2> QED BY <2>1, InTimeStep
<1> QED BY <1>1, <1>2, TaskStepOnTime, CleanupOnTime, IsrOnTime, ClockPulseOnTime DEF Next

\* The scheduler's data structures are consistent between any two of its steps.
THEOREM SchedulerInvariantHolds == Spec => []IndInv
<1>1. IndInv /\ [Next]_vars => IndInv'
  BY NextConsistent, NextOnTime DEF IndInv, Consistent
<1> QED BY <1>1, InitInv, PTL DEF Spec

\* The fields of the task objects and the scheduler's variables hold what they may hold.
THEOREM SchedulerTypeOK == Spec => []TypeOK
<1>1. IndInv => TypeOK
  BY DEF IndInv, Consistent
<1> QED BY <1>1, SchedulerInvariantHolds, PTL

\* The intrusive lists of scheduler.c and the state and queue fields of the tasks agree.
THEOREM SchedulerQueuesAgree == Spec => []QueuesAgree
<1>1. IndInv => QueuesAgree
  BY DEF IndInv, Consistent
<1> QED BY <1>1, SchedulerInvariantHolds, PTL

\* ref_count counts exactly the references there are, so cleanup_thread() frees in time.
THEOREM SchedulerRefCountExact == Spec => []RefCountExact
<1>1. IndInv => RefCountExact
  BY DEF IndInv, Consistent
<1> QED BY <1>1, SchedulerInvariantHolds, PTL

\* Only the current task runs or idles.
THEOREM SchedulerOneRunning == Spec => []OneRunning
<1>1. IndInv => OneRunning
  BY DEF IndInv, Consistent
<1> QED BY <1>1, SchedulerInvariantHolds, PTL

\* The running task is going to be preempted whenever another one is ready.
THEOREM SchedulerPreemptionPlanned == Spec => []PreemptionPlanned
<1>1. IndInv => PreemptionPlanned
  BY DEF IndInv, Consistent, OnTime, Planned, Timing, PreemptionPlanned
<1> QED BY <1>1, SchedulerInvariantHolds, PTL

\* do_schedule() and the unblocking never leave the CPU idle with a task ready.
THEOREM SchedulerIdleOnlyIfNothingReady == Spec => []IdleOnlyIfNothingReady
<1>1. IndInv => IdleOnlyIfNothingReady
  BY DEF IndInv, Consistent
<1> QED BY <1>1, SchedulerInvariantHolds, PTL

\* No sleeper is without a timed event at or before its expiry.
THEOREM SchedulerSleeperHasAlarm == Spec => []SleeperHasAlarm
<1>1. IndInv => SleeperHasAlarm
  BY DEF IndInv, Consistent
<1> QED BY <1>1, SchedulerInvariantHolds, PTL

\* None of the kasserts of scheduler.c, tasks.c and task_queue.c fails, as long as no
\* bottom half takes more than a time slice (TimeAssumption).
THEOREM SchedulerNoPanic == Spec => []NoPanic
<1>1. IndInv => NoPanic
  BY DEF IndInv, Consistent, OnTime
<1> QED BY <1>1, SchedulerInvariantHolds, PTL

-----------------------------------------------------------------------------
\* Which steps change termination_queue and sleep_queue, and how.
LEMMA QueueSteps ==
  ASSUME IndInv, [Next]_vars
  PROVE  /\ \/ UNCHANGED termination_queue
            \/ \E t \in Tasks : termination_queue' = Append(termination_queue, t)
            \/ CleanupOne
         /\ \/ UNCHANGED sleep_queue
            \/ \E t \in Tasks : sleep_queue' = Append(sleep_queue, t)
            \/ WakeOne
<1> DEFINE Term == \/ UNCHANGED termination_queue
                   \/ \E t \in Tasks : termination_queue' = Append(termination_queue, t)
                   \/ CleanupOne
           Sleep == \/ UNCHANGED sleep_queue
                    \/ \E t \in Tasks : sleep_queue' = Append(sleep_queue, t)
                    \/ WakeOne
<1>1. CASE UNCHANGED vars
  BY <1>1 DEF vars, queueVars
<1>2. ASSUME NEW t \in Tasks, KernelStep(t) PROVE Term /\ Sleep
  BY <1>2 DEF KernelStep, CreateUnblock, MarkForReschedule, Halt, YieldTest, queueVars
<1>3. ASSUME NEW t \in Tasks, UserStep(t) PROVE Term /\ Sleep
  <2>1. CASE Block(t) \/ Yield(t)
    BY <2>1 DEF Block, BlockTask, Yield, queueVars
  <2>2. CASE Terminate(t)
    BY <2>2 DEF Terminate
  <2>3. ASSUME NEW when, NanoSleepUntil(t, when) PROVE Term /\ Sleep
    BY <2>3 DEF NanoSleepUntil, Enqueue
  <2>4. ASSUME NEW n, CreateTask(t, n) \/ Unblock(t, n) \/ GetTask(t, n) \/ PutTask(t, n)
        PROVE  Term /\ Sleep
    BY <2>4 DEF CreateTask, Unblock, GetTask, PutTask, queueVars
  <2> QED BY <1>3, <2>1, <2>2, <2>3, <2>4 DEF UserStep
<1>4. CASE Cleanup
  BY <1>4 DEF Cleanup, CleanupStart, CleanupOne, CleanupEnd, CleanupPause, BlockTask, queueVars
<1>5. CASE Isr
  BY <1>5 DEF Isr, FireSleep, WakeOne, WakeDone, FirePreemption, PulseDone, BottomDone,
       EndOfInterrupt, queueVars
<1>6. CASE ClockPulse \/ DeviceInterrupt \/ \E n \in Tasks : BottomUnblock(n)
  BY <1>6 DEF ClockPulse, DeviceInterrupt, BottomUnblock, queueVars
<1> QED BY <1>1, <1>2, <1>3, <1>4, <1>5, <1>6 DEF Next

\* Whatever is unblocked or woken, a terminated task stays terminated until it is freed.
THEOREM SchedulerTerminatedStays == Spec => TerminatedStays
<1>1. ASSUME IndInv, IndInv', [Next]_vars, NEW t \in Tasks, IsTerminated(t)
      PROVE  IsTerminated(t)' \/ state'[t] = "NONE"
  <2>1. t \in Elems(termination_queue) /\ termination_queue \in Seq(Tasks)
    BY <1>1 DEF IndInv, Consistent, QueuesAgree, TypeOK
  <2>2. SUFFICES t \in Elems(termination_queue') \/ state'[t] = "NONE"
    BY <1>1 DEF IndInv, Consistent, QueuesAgree
  <2>3. CASE UNCHANGED termination_queue
    BY <2>1, <2>3
  <2>4. ASSUME NEW n \in Tasks, termination_queue' = Append(termination_queue, n)
        PROVE  t \in Elems(termination_queue')
    <3>1. Elems(Append(termination_queue, n)) = Elems(termination_queue) \union {n}
      BY <2>1, AppendList
    <3> QED BY <2>1, <2>4, <3>1, Zenon
  <2>5. CASE CleanupOne
    <3> DEFINE h == Head(iter)
    <3>1. \/ UNCHANGED termination_queue
          \/ /\ termination_queue' = EntryRemove(termination_queue, h)
             /\ state' = [state EXCEPT ![h] = "NONE"]
      BY <2>5 DEF CleanupOne, FreeTask
    <3>2. iter \in Seq(Tasks) /\ iter # <<>>
      BY <1>1, <2>5 DEF CleanupOne, IndInv, Consistent, TypeOK
    <3>3. h \in Elems(iter) /\ h \in Tasks
      BY <3>2, TailList, Zenon
    <3>4. h \in Elems(termination_queue) /\ NoDuplicates(termination_queue)
      BY <1>1, <2>5, <3>3 DEF CleanupOne, IndInv, Consistent, Loops, QueuesAgree
    <3> HIDE DEF h
    <3>5. Elems(EntryRemove(termination_queue, h)) = Elems(termination_queue) \ {h}
      BY <2>1, <3>4, RemoveFromList, Zenon
    <3> QED BY <1>1, <2>1, <3>1, <3>3, <3>5, Zenon DEF IndInv, Consistent, TypeOK
  <2> QED BY <1>1, <2>3, <2>4, <2>5, QueueSteps
<1>2. IndInv /\ IndInv' /\ [Next]_vars =>
        [\A t \in Tasks : IsTerminated(t) => IsTerminated(t)' \/ state'[t] = "NONE"]_vars
  BY <1>1
<1> QED BY <1>2, SchedulerInvariantHolds, PTL DEF Spec, TerminatedStays

\* sleep_expiry_callback() is the only one to end a sleep, and does so when it has expired.
THEOREM SchedulerNoEarlyWakeup == Spec => NoEarlyWakeup
<1>1. ASSUME IndInv, [Next]_vars, NEW t \in Elems(sleep_queue), t \notin Elems(sleep_queue')
      PROVE  sleep_expiry[t] <= 0
  <2>1. sleep_queue \in Seq(Tasks) /\ t \in Tasks
    BY <1>1, ElemsType, Zenon DEF IndInv, Consistent, TypeOK
  <2>2. ASSUME NEW n \in Tasks, sleep_queue' = Append(sleep_queue, n) PROVE FALSE
    <3>1. Elems(Append(sleep_queue, n)) = Elems(sleep_queue) \union {n}
      BY <2>1, AppendList
    <3> QED BY <1>1, <2>2, <3>1, Zenon
  <2>3. CASE WakeOne
    <3> DEFINE h == Head(iter)
    <3>1. \/ UNCHANGED sleep_queue
          \/ sleep_expiry[h] <= 0 /\ sleep_queue' = EntryRemove(sleep_queue, h)
      BY <2>3 DEF WakeOne, Expired
    <3>2. iter \in Seq(Tasks) /\ iter # <<>>
      BY <1>1, <2>3 DEF WakeOne, IndInv, Consistent, TypeOK, Expired
    <3>3. h \in Elems(iter)
      BY <3>2, TailList, Zenon
    <3>4. h \in Elems(sleep_queue) /\ NoDuplicates(sleep_queue)
      BY <1>1, <2>3, <3>3 DEF WakeOne, IndInv, Consistent, Loops, QueuesAgree, Expired
    <3> HIDE DEF h
    <3>5. Elems(EntryRemove(sleep_queue, h)) = Elems(sleep_queue) \ {h}
      BY <2>1, <3>4, RemoveFromList, Zenon
    <3> QED BY <1>1, <3>1, <3>5
  <2> QED BY <1>1, <2>2, <2>3, QueueSteps
<1>2. IndInv /\ [Next]_vars =>
        [\A t \in Elems(sleep_queue) :
           t \notin Elems(sleep_queue') => sleep_expiry[t] <= 0]_vars
  BY <1>1
<1> QED BY <1>2, SchedulerInvariantHolds, PTL DEF Spec, NoEarlyWakeup

-----------------------------------------------------------------------------
\* What the abstract scheduler sees of this one.
rrVars == <<Running, ready_queue>>

\* After scheduler_init() the root task runs and the cleanup task is in line.
LEMMA InitRR ==
  ASSUME Init
  PROVE  RR!Init
<1>1. Running = Root /\ Root \in Tasks /\ Cleaner \in Tasks \ {Root}
  BY TasksAssumption DEF Init, Running, Tasks
<1>2. ready_queue = [i \in 1 .. 1 |-> Cleaner]
  BY DEF Init
<1> QED BY <1>1, <1>2 DEF RR!Init

\* The line is ready_queue.
LEMMA InLineElems ==
  ASSUME NEW t
  PROVE  RR!InLine(t) <=> t \in Elems(ready_queue)
BY DEF RR!InLine, Elems

\* A step that leaves the current task, whether it runs, and the queue alone.
LEMMA StayRR ==
  ASSUME UNCHANGED <<current_task, ready_queue>>,
         state'[current_task] = "RUNNING" <=> state[current_task] = "RUNNING"
  PROVE  UNCHANGED rrVars
BY DEF rrVars, Running

\* A step that puts a task other than the current one at the end of the queue.
LEMMA EnterRR ==
  ASSUME IndInv, NEW n \in Tasks, n # current_task, n \notin Elems(ready_queue),
         ready_queue' = Append(ready_queue, n), UNCHANGED current_task,
         state'[current_task] = "RUNNING" <=> state[current_task] = "RUNNING"
  PROVE  RR!Next
<1>1. n # Running /\ Running' = Running
  BY TasksAssumption DEF Running
<1>2. RR!Enter(n)
  BY <1>1, InLineElems DEF RR!Enter
<1> QED BY <1>2 DEF RR!Next

\* A step that blocks the current task and wakes at most one other one.
LEMMA WaitRR ==
  ASSUME IndInv, state[current_task] = "RUNNING", state'[current_task] = "BLOCKED",
         UNCHANGED current_task,
         \/ UNCHANGED ready_queue
         \/ \E n \in Tasks \ {current_task} :
              n \notin Elems(ready_queue) /\ ready_queue' = Append(ready_queue, n)
  PROVE  RR!Next
<1>1. Running = current_task /\ Running' = NoTask /\ Running # NoTask
  BY TasksAssumption DEF Running, IndInv, Consistent, TypeOK
<1>2. RR!Wait
  BY <1>1, InLineElems DEF RR!Wait
<1> QED BY <1>2 DEF RR!Next

\* A step that unblocks the current task.
LEMMA ResumeRR ==
  ASSUME IndInv, state[current_task] # "RUNNING", state'[current_task] = "RUNNING",
         UNCHANGED <<current_task, ready_queue>>
  PROVE  RR!Next
<1>1. Running = NoTask /\ Running' = current_task
  BY DEF Running
<1>2. current_task \in Tasks /\ current_task \notin Elems(ready_queue)
  BY DEF IndInv, Consistent, TypeOK, QueuesAgree, OneRunning
<1>3. RR!Resume(current_task)
  BY <1>1, <1>2, InLineElems DEF RR!Resume
<1> QED BY <1>2, <1>3 DEF RR!Next

\* scheduler_unblock_task_locked() is one of the last three, or nothing.
LEMMA UnblockRR ==
  ASSUME IndInv, NEW n \in Tasks, NEW tq, NEW rc, UnblockLocked(n, state, tq, rc),
         UNCHANGED current_task
  PROVE  RR!Next \/ UNCHANGED rrVars
<1>1. CASE state[n] \notin {"BLOCKED", "BLOCKED_IDLING"}
  <2>1. UNCHANGED <<state, ready_queue>>
    BY <1>1 DEF UnblockLocked, PlannedPreemption, NotIdling, Enqueue
  <2> QED BY <2>1, StayRR
<1>2. CASE state[n] \in {"BLOCKED", "BLOCKED_IDLING"} /\ n = current_task
  <2>1. state' = [state EXCEPT ![n] = "RUNNING"] /\ UNCHANGED ready_queue
    BY <1>2 DEF UnblockLocked, PlannedPreemption, NotIdling, Enqueue
  <2>2. state'[current_task] = "RUNNING" /\ state[current_task] # "RUNNING"
    BY <1>2, <2>1 DEF IndInv, Consistent, TypeOK
  <2> QED BY <2>1, <2>2, ResumeRR
<1>3. CASE state[n] \in {"BLOCKED", "BLOCKED_IDLING"} /\ n # current_task
  <2>1. /\ state' = [state EXCEPT ![n] = "READY_TO_RUN",
                            ![current_task] = IF @ = "BLOCKED_IDLING" THEN "BLOCKED" ELSE @]
        /\ ready_queue' = Append(ready_queue, n)
    BY <1>3 DEF UnblockLocked, PlannedPreemption, NotIdling, Enqueue
  <2>2. state'[current_task] = "RUNNING" <=> state[current_task] = "RUNNING"
    BY <1>3, <2>1 DEF IndInv, Consistent, TypeOK
  <2>3. n \notin Elems(ready_queue)
    BY <1>3 DEF IndInv, Consistent, QueuesAgree
  <2> QED BY <1>3, <2>1, <2>2, <2>3, EnterRR, Zenon
<1> QED BY <1>1, <1>2, <1>3

\* do_schedule() gives the CPU to the head of the queue.
LEMMA EndOfInterruptRR ==
  ASSUME IndInv, EndOfInterrupt
  PROVE  RR!Next \/ UNCHANGED rrVars
<1> USE DEF IndInv, Consistent
<1> DEFINE c == current_task
<1>1. CASE ~(resched[c] /\ state[c] # "BLOCKED_IDLING")
  <2>1. UNCHANGED <<current_task, state, ready_queue>>
    BY <1>1 DEF EndOfInterrupt, Schedules
  <2> QED BY <2>1, StayRR
<1>2. CASE resched[c] /\ state[c] # "BLOCKED_IDLING" /\ ready_queue = <<>>
  <2>1. /\ state' = [state EXCEPT ![c] = IF @ = "BLOCKED" THEN "BLOCKED_IDLING" ELSE @]
        /\ UNCHANGED <<current_task, ready_queue>>
    BY <1>2 DEF EndOfInterrupt, ScheduleNone, ScheduleNext, Schedules, Requeued, Enqueue
  <2>2. state'[c] = "RUNNING" <=> state[c] = "RUNNING"
    BY <2>1 DEF TypeOK
  <2> QED BY <2>1, <2>2, StayRR
<1>3. CASE resched[c] /\ state[c] # "BLOCKED_IDLING" /\ ready_queue # <<>>
  <2> DEFINE n == Head(ready_queue)
  <2>1. /\ current_task' = n
        /\ state' = [state EXCEPT ![n] = "RUNNING",
                                  ![c] = IF state[c] = "RUNNING" THEN "READY_TO_RUN" ELSE @]
        /\ ready_queue' = IF state[c] = "RUNNING" THEN Append(Tail(ready_queue), c)
                                                  ELSE Tail(ready_queue)
    BY <1>3 DEF EndOfInterrupt, ScheduleNone, ScheduleNext, Schedules, Requeued, Enqueue
  <2>2. n \in Tasks /\ n \in Elems(ready_queue)
    <3>1. ready_queue \in Seq(Tasks)
      BY DEF TypeOK
    <3> QED BY <1>3, <3>1, TailList, Zenon
  <2>3. n # c
    BY <2>2 DEF QueuesAgree, OneRunning
  <2> HIDE DEF n
  <2>4. Running' = n
    BY <2>1, <2>2, <2>3 DEF Running, TypeOK
  <2>5. state[c] = "RUNNING" <=> Running # NoTask
    BY TasksAssumption DEF Running, TypeOK
  <2>6. RR!Switch
    BY <1>3, <2>1, <2>4, <2>5 DEF RR!Switch, Running, n
  <2> QED BY <2>6 DEF RR!Next
<1> QED BY <1>1, <1>2, <1>3

\* Every step of the scheduler is a step of the abstract one, or invisible there.
LEMMA StepRR ==
  ASSUME IndInv, [Next]_vars
  PROVE  RR!Next \/ UNCHANGED rrVars
<1> USE DEF IndInv, Consistent
<1>1. CASE UNCHANGED vars
  <2>1. UNCHANGED <<current_task, state, ready_queue>>
    BY <1>1 DEF vars, taskVars, queueVars
  <2> QED BY <2>1, StayRR
<1>2. ASSUME NEW t \in Tasks, CreateUnblock(t) PROVE RR!Next \/ UNCHANGED rrVars
  <2>1. newborn[t] \in Tasks
    BY <1>2 DEF CreateUnblock, At, Newborns, TypeOK
  <2>2. UnblockLocked(newborn[t], state, task_queue, ref_count) /\ UNCHANGED current_task
    BY <1>2 DEF CreateUnblock
  <2> QED BY <2>1, <2>2, UnblockRR
<1>3. ASSUME NEW t \in Tasks, MarkForReschedule(t) \/ Halt(t) \/ YieldTest(t) \/ Yield(t)
      PROVE  UNCHANGED rrVars
  <2>1. UNCHANGED <<current_task, state, ready_queue>>
    BY <1>3 DEF MarkForReschedule, Halt, YieldTest, Yield, taskVars, queueVars
  <2> QED BY <2>1, StayRR
<1>4. ASSUME NEW t \in Tasks, NEW n \in Tasks, CreateTask(t, n) PROVE UNCHANGED rrVars
  <2>1. UNCHANGED <<current_task, ready_queue>> /\ state' = [state EXCEPT ![n] = "BLOCKED"]
    BY <1>4 DEF CreateTask, queueVars
  <2>2. n # current_task
    BY <1>4 DEF CreateTask, OneRunning
  <2>3. state'[current_task] = state[current_task]
    BY <2>1, <2>2 DEF TypeOK
  <2> QED BY <2>1, <2>3, StayRR
<1>5. ASSUME NEW n \in Tasks, (\E t \in Tasks : Unblock(t, n)) \/ BottomUnblock(n)
      PROVE  RR!Next \/ UNCHANGED rrVars
  <2>1. UnblockLocked(n, state, task_queue, ref_count) /\ UNCHANGED current_task
    BY <1>5 DEF Unblock, BottomUnblock
  <2> QED BY <2>1, UnblockRR
<1>6. ASSUME NEW t \in Tasks, NEW n \in Tasks, GetTask(t, n) \/ PutTask(t, n)
      PROVE  UNCHANGED rrVars
  <2>1. UNCHANGED <<current_task, state, ready_queue>>
    BY <1>6 DEF GetTask, PutTask, queueVars
  <2> QED BY <2>1, StayRR
<1>7. ASSUME NEW t \in Tasks,
             Block(t) \/ (t = Cleaner /\ CleanupPause) \/ \E when \in Int : NanoSleepUntil(t, when)
      PROVE  RR!Next
  <2>1. /\ t = current_task /\ state[t] = "RUNNING" /\ UNCHANGED <<current_task, ready_queue>>
        /\ state' = [state EXCEPT ![t] = "BLOCKED"]
    BY <1>7 DEF Block, CleanupPause, NanoSleepUntil, BlockTask, MarkBlocked, At, Labels,
         InYield, queueVars, Enqueue
  <2>2. state'[t] = "BLOCKED"
    BY <2>1 DEF TypeOK
  <2> QED BY <2>1, <2>2, WaitRR
<1>8. ASSUME NEW t \in Tasks, Terminate(t) PROVE RR!Next
  <2> DEFINE st == [state EXCEPT ![t] = "BLOCKED"]
  <2>1. t = current_task /\ state[t] = "RUNNING" /\ t # Cleaner /\ Cleaner \in Tasks
    BY <1>8, TasksAssumption DEF Terminate, At, Labels, InYield, Tasks
  <2>2. UnblockLocked(Cleaner, st, task_queue, ref_count) /\ UNCHANGED current_task
    BY <1>8 DEF Terminate
  <2>3. st[Cleaner] = state[Cleaner] /\ st[t] = "BLOCKED" /\ st \in [Tasks -> States]
    BY <2>1 DEF TypeOK, States
  <2> HIDE DEF st
  <2>4. CASE st[Cleaner] \notin {"BLOCKED", "BLOCKED_IDLING"}
    <3>1. state' = st /\ UNCHANGED ready_queue
      BY <2>1, <2>2, <2>4 DEF UnblockLocked, PlannedPreemption, NotIdling, Enqueue
    <3> QED BY <2>1, <2>2, <2>3, <3>1, WaitRR
  <2>5. CASE st[Cleaner] \in {"BLOCKED", "BLOCKED_IDLING"}
    <3>1. /\ state' = [st EXCEPT ![Cleaner] = "READY_TO_RUN",
                             ![current_task] = IF @ = "BLOCKED_IDLING" THEN "BLOCKED" ELSE @]
          /\ ready_queue' = Append(ready_queue, Cleaner)
      BY <2>1, <2>2, <2>5 DEF UnblockLocked, PlannedPreemption, NotIdling, Enqueue
    <3>2. state'[current_task] = "BLOCKED"
      BY <2>1, <2>3, <3>1
    <3>3. Cleaner \notin Elems(ready_queue)
      BY <2>1, <2>3, <2>5 DEF QueuesAgree
    <3> QED BY <2>1, <2>2, <3>1, <3>2, <3>3, WaitRR
  <2> QED BY <2>4, <2>5
<1>9. CASE CleanupStart \/ CleanupEnd
  <2>1. UNCHANGED <<current_task, state, ready_queue>>
    BY <1>9 DEF CleanupStart, CleanupEnd, taskVars, queueVars
  <2> QED BY <2>1, StayRR
<1>10. CASE CleanupOne
  <2> DEFINE t == Head(iter)
  <2>1. UNCHANGED <<current_task, ready_queue>> /\ irq = "clean" /\ iter # <<>>
    BY <1>10 DEF CleanupOne
  <2>2. iter \in Seq(Tasks)
    BY DEF TypeOK
  <2>3. t \in Tasks /\ t \in Elems(iter)
    BY <2>1, <2>2, TailList, Zenon
  <2>4. t # current_task
    <3>1. t \in Elems(termination_queue)
      BY <2>1, <2>3, Zenon DEF Loops
    <3>2. block_reason[t] = "TERMINATED"
      BY <2>3, <3>1, Zenon DEF QueuesAgree, IsTerminated
    <3>3. t \in Workers
      BY <2>3, <3>2, Zenon DEF Lives
    <3>4. current_task = Cleaner
      BY <2>1, Zenon DEF Phases
    <3> QED BY <3>3, <3>4, TasksAssumption
  <2>5. state' = state \/ state' = [state EXCEPT ![t] = "NONE"]
    BY <1>10 DEF CleanupOne, FreeTask
  <2> HIDE DEF t
  <2>6. state'[current_task] = state[current_task]
    BY <2>4, <2>5 DEF TypeOK
  <2> QED BY <2>1, <2>6, StayRR
<1>11. CASE FireSleep \/ WakeDone \/ FirePreemption \/ PulseDone \/ BottomDone \/ ClockPulse
            \/ DeviceInterrupt
  <2>1. UNCHANGED <<current_task, state, ready_queue>>
    BY <1>11 DEF FireSleep, WakeDone, FirePreemption, PulseDone, BottomDone, ClockPulse,
         DeviceInterrupt, taskVars, queueVars, Preemptible
  <2> QED BY <2>1, StayRR
<1>12. CASE WakeOne
  <2> DEFINE t == Head(iter)
             tq == [task_queue EXCEPT ![t] = "none"]
             rc == [ref_count EXCEPT ![t] = @ - 1]
  <2>1. iter \in Seq(Tasks) /\ iter # <<>> /\ UNCHANGED current_task
    BY <1>12 DEF TypeOK, WakeOne, Expired
  <2>2. t \in Tasks
    BY <2>1, TailList, Zenon
  <2>3. UnblockLocked(t, state, tq, rc) \/ UNCHANGED <<state, ready_queue>>
    BY <1>12 DEF WakeOne, Expired
  <2> HIDE DEF t, tq, rc
  <2> QED BY <2>1, <2>2, <2>3, UnblockRR, StayRR
<1>13. ASSUME NEW t \in Tasks, KernelStep(t) PROVE RR!Next \/ UNCHANGED rrVars
  BY <1>2, <1>3, <1>13 DEF KernelStep
<1>14. ASSUME NEW t \in Tasks, UserStep(t) PROVE RR!Next \/ UNCHANGED rrVars
  <2>1. CASE Block(t) \/ Yield(t) \/ Terminate(t)
    BY <1>3, <1>7, <1>8, <2>1
  <2>2. CASE \E when \in -1 .. MaxSleep : NanoSleepUntil(t, when)
    <3>1. \E when \in Int : NanoSleepUntil(t, when)
      BY <2>2
    <3> QED BY <1>7, <3>1
  <2>3. CASE \E n \in Tasks : CreateTask(t, n) \/ Unblock(t, n) \/ GetTask(t, n) \/ PutTask(t, n)
    BY <1>4, <1>5, <1>6, <2>3
  <2> QED BY <1>14, <2>1, <2>2, <2>3 DEF UserStep
<1>15. CASE Cleanup
  <2>1. Cleaner \in Tasks
    BY DEF Tasks
  <2> QED BY <1>7, <1>9, <1>10, <1>15, <2>1 DEF Cleanup
<1>16. CASE Isr
  BY <1>11, <1>12, <1>16, EndOfInterruptRR DEF Isr
<1> QED BY <1>1, <1>5, <1>11, <1>13, <1>14, <1>15, <1>16 DEF Next

\* The scheduler implements round robin scheduling.
THEOREM SchedulerIsRoundRobin == Spec => IsRoundRobin
<1>1. IndInv /\ [Next]_vars => [RR!Next]_<<Running, ready_queue>>
  BY StepRR DEF rrVars
<1>2. Init => RR!Init
  BY InitRR
<1> QED BY <1>1, <1>2, SchedulerInvariantHolds, PTL DEF Spec, IsRoundRobin, RR!Spec

=============================================================================
