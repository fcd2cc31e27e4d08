------------------------- MODULE SchedulerLoopSteps -------------------------
(***************************************************************************)
(* The loop of scheduler_yield(), the references to tasks and the loop of  *)
(* cleanup_thread(), and the clock pulse, from the advance of time to the  *)
(* end of the callbacks of timer.c, preserve the consistency of the        *)
(* scheduler: one lemma per step.                                          *)
(***************************************************************************)
EXTENDS SchedulerSteps

\* scheduler_yield() marks the task.
LEMMA MarkForRescheduleInv ==
  ASSUME Consistent, NEW t \in Tasks, MarkForReschedule(t)
  PROVE  Consistent'
<1> USE DEF Consistent
<1>1. t = current_task /\ irq = "none" /\ pc[t] = "yield"
  BY DEF MarkForReschedule, At
<1>2. /\ pc' = [pc EXCEPT ![t] = "wait"] /\ resched' = [resched EXCEPT ![t] = TRUE]
      /\ UNCHANGED <<current_task, state, block_reason, task_queue, ref_count, refs,
                     sleep_expiry, queueVars, timeVars, preemption_counter, ret, newborn,
                     irqVars, panic>>
  BY DEF MarkForReschedule, Goto
<1>3. TypeOK'
  BY <1>2 DEF TypeOK, TaskLabels, queueVars, timeVars, irqVars
<1>4. Phases'
  BY <1>1, <1>2, InTask
<1>5. Labels' /\ OneRunning' /\ IdleOnlyIfNothingReady'
  <2>1. /\ pc'[t] = "wait" /\ resched'[t]
        /\ \A x \in Tasks \ {t} : pc'[x] = pc[x] /\ resched'[x] = resched[x]
    BY <1>2 DEF TypeOK
  <2>2. Labels'
    BY <1>1, <1>2, <2>1 DEF Labels, InYield, Tasks
  <2> QED BY <1>1, <1>2, <2>1, <2>2 DEF OneRunning, IdleOnlyIfNothingReady, queueVars
<1>6. Lives' /\ Newborns'
  BY <1>1, <1>2, LivesStay, NewbornsStay DEF TypeOK, InYield, queueVars
<1>7. Waits'
  BY <1>1, <1>2, WaitsStep
<1> QED BY <1>2, <1>3, <1>4, <1>5, <1>6, <1>7, Frame DEF queueVars, timeVars, irqVars

\* hlt.
LEMMA HaltInv ==
  ASSUME Consistent, NEW t \in Tasks, Halt(t)
  PROVE  Consistent'
<1> USE DEF Consistent
<1>1. t = current_task /\ irq = "none" /\ pc[t] = "wait"
  BY DEF Halt, At
<1>2. /\ pc' = [pc EXCEPT ![t] = "hlt"]
      /\ UNCHANGED <<current_task, taskVars, queueVars, timeVars, preemption_counter, ret,
                     newborn, irqVars, panic>>
  BY DEF Halt, Goto
<1>3. TypeOK'
  BY <1>2 DEF TypeOK, TaskLabels, taskVars, queueVars, timeVars, irqVars
<1>4. Phases'
  BY <1>1, <1>2, InTask
<1>5. Labels'
  BY <1>1, <1>2 DEF TypeOK, Labels, InYield, taskVars
<1>6. Lives' /\ Newborns'
  BY <1>1, <1>2, LivesStay, NewbornsStay DEF TypeOK, InYield, taskVars, queueVars
<1>7. Waits'
  BY <1>1, <1>2, WaitsStep DEF taskVars
<1> QED BY <1>2, <1>3, <1>4, <1>5, <1>6, <1>7, Frame DEF taskVars, queueVars, timeVars, irqVars

\* A terminated task does not leave scheduler_yield().
LEMMA YieldTestInv ==
  ASSUME Consistent, NEW t \in Tasks, YieldTest(t)
  PROVE  Consistent'
<1> USE DEF Consistent
<1>1. t = current_task /\ irq = "none" /\ pc[t] = "woken"
  BY DEF YieldTest, At
<1>2. /\ pc' = [pc EXCEPT ![t] = IF resched[t] THEN "wait" ELSE ret[t]]
      /\ KAssert(resched[t] \/ ret[t] # "unreachable", "new_task_wrapper")
      /\ UNCHANGED <<current_task, taskVars, queueVars, timeVars, preemption_counter, ret,
                     newborn, irqVars>>
  BY DEF YieldTest, Goto
<1>3. block_reason[t] = "TERMINATED" \/ ret[t] = "unreachable" => resched[t]
  BY <1>1 DEF Lives, Labels
<1>4. panic' = panic
  BY <1>2, <1>3 DEF KAssert
<1>5. ret[t] \in {"run", "clean", "unreachable", "wait_again"} /\ (t = Cleaner => ret[t] = "clean")
  BY <1>1 DEF TypeOK, Labels
<1>6. TypeOK'
  BY <1>2, <1>5, Zenon DEF TypeOK, TaskLabels, taskVars, queueVars, timeVars, irqVars
<1>7. Phases'
  BY <1>1, <1>2, InTask
<1>8. Labels'
  BY <1>1, <1>2, <1>5 DEF TypeOK, Labels, InYield, taskVars
<1>9. Lives'
  BY <1>1, <1>2, <1>3, LivesStay, Zenon DEF TypeOK, InYield, taskVars, queueVars
<1>10. Newborns'
  BY <1>1, <1>2, <1>5, NewbornsStay DEF TypeOK, taskVars
<1>11. Waits'
  BY <1>1, <1>2, WaitsStep DEF taskVars
<1> QED BY <1>2, <1>4, <1>6, <1>7, <1>8, <1>9, <1>10, <1>11, Frame
        DEF taskVars, queueVars, timeVars, irqVars

\* get_task().
LEMMA GetTaskInv ==
  ASSUME Consistent, NEW t \in Tasks, NEW n \in Tasks, GetTask(t, n)
  PROVE  Consistent'
<1> USE DEF Consistent
<1>1. /\ ref_count' = [ref_count EXCEPT ![n] = @ + 1] /\ refs' = [refs EXCEPT ![n] = @ + 1]
      /\ UNCHANGED <<current_task, state, block_reason, resched, task_queue, sleep_expiry,
                     queueVars, timeVars, preemption_counter, pc, ret, newborn, irqVars, panic>>
  BY DEF GetTask
<1>2. refs \in [Tasks -> Nat] /\ ref_count \in [Tasks -> Int]
  BY Zenon DEF TypeOK
<1>3. refs' \in [Tasks -> Nat] /\ ref_count' \in [Tasks -> Int]
  BY <1>1, <1>2
<1>4. TypeOK'
  BY <1>1, <1>3, Zenon DEF TypeOK, queueVars, timeVars, irqVars
<1>5. RefCountExact'
  BY <1>1, <1>2 DEF RefCountExact
<1>6. Lives' /\ Newborns'
  BY <1>1, LivesStay, NewbornsStay DEF InYield, queueVars
<1> QED BY <1>1, <1>4, <1>5, <1>6, Frame DEF queueVars, timeVars, irqVars

\* put_task().
LEMMA PutTaskInv ==
  ASSUME Consistent, NEW t \in Tasks, NEW n \in Tasks, PutTask(t, n)
  PROVE  Consistent'
<1> USE DEF Consistent
<1>1. /\ ref_count' = [ref_count EXCEPT ![n] = @ - 1] /\ refs' = [refs EXCEPT ![n] = @ - 1]
      /\ refs[n] > 0
      /\ UNCHANGED <<current_task, state, block_reason, resched, task_queue, sleep_expiry,
                     queueVars, timeVars, preemption_counter, pc, ret, newborn, irqVars, panic>>
  BY DEF PutTask
<1>2. refs \in [Tasks -> Nat] /\ ref_count \in [Tasks -> Int]
  BY Zenon DEF TypeOK
<1>3. refs' \in [Tasks -> Nat] /\ ref_count' \in [Tasks -> Int]
  BY <1>1, <1>2
<1>4. TypeOK'
  BY <1>1, <1>3, Zenon DEF TypeOK, queueVars, timeVars, irqVars
<1>5. RefCountExact'
  BY <1>1, <1>2 DEF RefCountExact
<1>6. Lives' /\ Newborns'
  BY <1>1, LivesStay, NewbornsStay DEF InYield, queueVars
<1> QED BY <1>1, <1>4, <1>5, <1>6, Frame DEF queueVars, timeVars, irqVars

\* The loop of cleanup_thread() starts with all terminated tasks to visit.
LEMMA CleanupStartInv ==
  ASSUME Consistent, CleanupStart
  PROVE  Consistent'
<1> USE DEF Consistent
<1>1. /\ irq = "none" /\ current_task = Cleaner /\ pc[Cleaner] = "clean"
      /\ irq' = "clean" /\ iter' = termination_queue
      /\ UNCHANGED <<current_task, taskVars, queueVars, timeVars, preemption_counter, pc, ret,
                     newborn, interrupt_level, pulses, panic>>
  BY DEF CleanupStart, At
<1>2. TypeOK' /\ Phases'
  BY <1>1 DEF TypeOK, Phases, taskVars, queueVars, timeVars
<1>3. Loops' /\ AlarmSet'
  BY <1>1 DEF Loops, AlarmSet, QueuesAgree, queueVars, timeVars
<1>5. SleeperHasAlarm'
  BY <1>1 DEF SleeperHasAlarm, taskVars, queueVars, timeVars
<1>6. Lives' /\ Newborns'
  BY <1>1, LivesStay, NewbornsStay DEF InYield, taskVars, queueVars
<1> QED BY <1>1, <1>2, <1>3, <1>5, <1>6, Frame DEF taskVars, queueVars, timeVars

\* cleanup_thread() frees a terminated task that nothing refers to, or skips it.
LEMMA CleanupOneInv ==
  ASSUME Consistent, CleanupOne
  PROVE  Consistent'
<1> USE DEF Consistent
<1> DEFINE t == Head(iter)
<1>1. irq = "clean" /\ iter # <<>> /\ iter' = Tail(iter) /\ current_task = Cleaner
  BY DEF CleanupOne, Phases
<1>2. /\ t \in Tasks /\ t \in Elems(iter) /\ iter' \in Seq(Tasks) /\ NoDuplicates(iter')
      /\ Elems(iter') = Elems(iter) \ {t}
  <2>1. iter \in Seq(Tasks) /\ NoDuplicates(iter)
    BY DEF TypeOK, Loops
  <2> QED BY <1>1, <2>1, TailList, Zenon
<1>3. t \in Elems(termination_queue) /\ IsTerminated(t) /\ t \in Workers /\ InYield(t)
  BY <1>1, <1>2 DEF Loops, QueuesAgree, Lives, IsTerminated
<1>4. task_queue[t] = "none" /\ t \notin Elems(ready_queue) /\ t \notin Elems(sleep_queue)
  BY <1>2, <1>3, InNoQueue, Zenon DEF IsTerminated
<1> HIDE DEF t
<1>5. /\ UNCHANGED <<current_task, task_queue, ref_count, refs, sleep_expiry, ready_queue,
                     sleep_queue, preemption_ts, earliest_wakeup, preemption_event, sleep_events,
                     preemption_counter, newborn, irq, interrupt_level, pulses>>
      /\ panic' = panic
  BY <1>3, <1>4 DEF CleanupOne, timeVars, KAssert, t
<1>6. CASE ref_count[t] # 0
  <2>1. UNCHANGED <<state, block_reason, resched, pc, ret, termination_queue>>
    BY <1>6 DEF CleanupOne, t
  <2>2. TypeOK' 
    BY <1>2, <1>5, <2>1, Zenon DEF TypeOK
  <2>3. (Phases /\ Loops)'
    BY <1>1, <1>2, <1>5, <2>1 DEF Phases, Loops
  <2>4. (Lives /\ Newborns)'
    BY <1>5, <2>1, LivesStay, NewbornsStay DEF InYield
  <2>5. SleeperHasAlarm'
    BY <1>1, <1>5, <2>1 DEF SleeperHasAlarm
  <2> QED BY <1>5, <2>1, <2>2, <2>3, <2>4, <2>5, Frame DEF queueVars
<1>7. CASE ref_count[t] = 0
  <2>1. /\ state' = [state EXCEPT ![t] = "NONE"]
        /\ block_reason' = [block_reason EXCEPT ![t] = "SLEEP"]
        /\ resched' = [resched EXCEPT ![t] = FALSE]
        /\ pc' = [pc EXCEPT ![t] = "run"] /\ ret' = [ret EXCEPT ![t] = "run"]
        /\ termination_queue' = EntryRemove(termination_queue, t)
    BY <1>7 DEF CleanupOne, FreeTask, t
  <2>2. /\ termination_queue' \in Seq(Tasks) /\ NoDuplicates(termination_queue')
        /\ Elems(termination_queue') = Elems(termination_queue) \ {t}
    <3>1. termination_queue \in Seq(Tasks) /\ NoDuplicates(termination_queue)
      BY DEF TypeOK, QueuesAgree
    <3> QED BY <1>3, <2>1, <3>1, RemoveFromList, Zenon
  <2>3. t # current_task /\ t # Cleaner /\ Cleaner \in Tasks /\ current_task \in Tasks
    BY <1>1, <1>3, TasksAssumption DEF Tasks
  <2>3a. /\ state'[t] = "NONE" /\ block_reason'[t] = "SLEEP" /\ pc'[t] = "run" /\ ret'[t] = "run"
         /\ \A x \in Tasks \ {t} : /\ state'[x] = state[x] /\ block_reason'[x] = block_reason[x]
                                   /\ pc'[x] = pc[x] /\ ret'[x] = ret[x]
    BY <1>2, <2>1, Zenon DEF TypeOK
  <2>4. TypeOK'
    BY <1>2, <1>5, <2>1, <2>2, Zenon DEF TypeOK, TaskLabels, States, Reasons
  <2>5. (Phases /\ Loops)'
    BY <1>1, <1>2, <1>5, <2>1, <2>2, <2>3, Zenon DEF Phases, Loops, TypeOK
  <2>6. Labels'
    BY <1>5, <2>1, <2>3, Zenon DEF Labels, InYield, TypeOK
  <2>7. Lives'
    <3>1. ASSUME NEW x \in Tasks
          PROVE  /\ block_reason'[x] = "TERMINATED" =>
                      state'[x] = "BLOCKED" /\ x \in Workers /\ InYield(x)'
                 /\ ret'[x] = "unreachable" => block_reason'[x] = "TERMINATED"
                 /\ state'[x] = "NONE" => x \in Workers /\ block_reason'[x] = "SLEEP"
      BY <1>3, <2>3a DEF Lives, InYield
    <3>2. IsTerminated(current_task)' => ready_queue' # <<>>
      BY <1>5, <2>3, <2>3a DEF Lives, IsTerminated
    <3> QED BY <1>5, <3>1, <3>2 DEF Lives
  <2>8. Newborns'
    <3>1. newborn[t] = NoTask /\ \A x \in Tasks : newborn[x] # t
      BY <1>2, <1>3, TasksAssumption DEF Newborns, InYield, IsTerminated
    <3>2. \A x \in Tasks : pc'[x] = "create" <=> pc[x] = "create"
      BY <1>3, <2>3a DEF InYield
    <3>3. ASSUME NEW x \in Tasks, newborn[x] # NoTask
          PROVE  /\ newborn[x] # current_task' /\ state'[newborn[x]] = "BLOCKED"
                 /\ block_reason'[newborn[x]] = "SLEEP" /\ task_queue'[newborn[x]] = "none"
      BY <1>5, <2>3a, <3>1, <3>3, NewbornIs
    <3>4. newborn' = newborn
      BY <1>5
    <3> QED BY <3>2, <3>3, <3>4, NewbornsStep, Zenon
  <2>9. (AlarmSet /\ Planned /\ OnlyLate /\ RefCountExact)'
    BY <1>5, Zenon DEF AlarmSet, Planned, OnlyLate, RefCountExact
  <2>9a. Waits'
    <3>1. ASSUME NEW x \in Tasks, task_queue[x] = "wait", state[x] \in {"BLOCKED", "BLOCKED_IDLING"}
          PROVE  state'[x] \in {"BLOCKED", "BLOCKED_IDLING"} /\ block_reason'[x] = block_reason[x]
      BY <1>4, <2>3a, <3>1
    <3>2. pc[current_task] # "wait_block" /\ UNCHANGED task_queue
      BY <1>1, <1>5 DEF Phases
    <3> QED BY <3>1, <3>2, WaitsStep, Zenon
  <2>10. QueuesAgree'
    BY <1>2, <1>3, <1>4, <1>5, <2>1, <2>2, Zenon DEF QueuesAgree, IsTerminated, TypeOK
  <2>11. (OneRunning /\ IdleOnlyIfNothingReady)'
    BY <1>5, <2>1, <2>3, Zenon DEF OneRunning, IdleOnlyIfNothingReady, TypeOK
  <2>12. SleeperHasAlarm'
    BY <1>1, <1>5 DEF SleeperHasAlarm
  <2> QED BY <2>4, <2>5, <2>6, <2>7, <2>8, <2>9, <2>9a, <2>10, <2>11, <2>12
<1> QED BY <1>6, <1>7

\* The loop of cleanup_thread() ends.
LEMMA CleanupEndInv ==
  ASSUME Consistent, CleanupEnd
  PROVE  Consistent'
<1> USE DEF Consistent
<1>1. /\ irq = "clean" /\ iter = <<>> /\ irq' = "none"
      /\ UNCHANGED <<current_task, taskVars, queueVars, timeVars, preemption_counter, newborn,
                     interrupt_level, iter, pulses, panic>>
  BY DEF CleanupEnd
<1>2. /\ current_task = Cleaner /\ pc[Cleaner] = "clean" /\ Cleaner \in Tasks \ Workers
      /\ state[Cleaner] = "RUNNING"
  BY <1>1, TasksAssumption DEF Phases, Labels, InYield, Tasks
<1>3. \/ pc' = [pc EXCEPT ![Cleaner] = "yield"] /\ ret' = [ret EXCEPT ![Cleaner] = "clean"]
      \/ pc' = [pc EXCEPT ![Cleaner] = "pause"] /\ ret' = ret
  BY DEF CleanupEnd, CallYield, Goto
<1>4. TypeOK' /\ Phases'
  BY <1>1, <1>2, <1>3, Zenon DEF TypeOK, TaskLabels, Phases, taskVars, queueVars, timeVars
<1>5. Loops' /\ AlarmSet'
  BY <1>1 DEF Loops, AlarmSet, timeVars
<1>6. Labels'
  BY <1>1, <1>2, <1>3, Zenon DEF TypeOK, Labels, InYield, taskVars
<1>7. Lives' /\ Newborns'
  <2>1. block_reason[Cleaner] # "TERMINATED"
    BY <1>2 DEF Lives
  <2>2. /\ \A x \in Tasks \ {Cleaner} : pc'[x] = pc[x] /\ ret'[x] = ret[x]
        /\ pc'[Cleaner] # "create" /\ ret'[Cleaner] \in {"clean", ret[Cleaner]}
    BY <1>2, <1>3 DEF TypeOK
  <2>3. UNCHANGED <<current_task, state, block_reason, task_queue, ready_queue, newborn>>
    BY <1>1 DEF taskVars, queueVars
  <2>4. Lives'
    BY <1>2, <2>1, <2>2, <2>3, LivesStay DEF InYield
  <2> QED BY <1>2, <2>2, <2>3, <2>4, NewbornsStay
<1>8. Waits'
  BY <1>1, <1>2, WaitsStep DEF taskVars
<1>9. SleeperHasAlarm'
  BY <1>1 DEF SleeperHasAlarm, taskVars, queueVars, timeVars
<1> QED BY <1>1, <1>4, <1>5, <1>6, <1>7, <1>8, <1>9, Frame DEF taskVars, queueVars, timeVars

-----------------------------------------------------------------------------
(* The clock pulse.                                                        *)

\* A clock pulse moves all timestamps alike.
LEMMA ClockPulseInv ==
  ASSUME Consistent, ClockPulse
  PROVE  Consistent'
<1> USE DEF Consistent
<1>1. /\ irq' = "pulse" /\ interrupt_level' = interrupt_level + 1
      /\ UNCHANGED <<current_task, state, block_reason, resched, task_queue, ref_count, refs,
                     queueVars, preemption_counter, ret, newborn, iter, panic>>
  BY Zenon DEF ClockPulse
<1>2. \/ irq = "none" /\ EndHlt /\ UNCHANGED pulses
      \/ irq = "bottom" /\ pulses < BottomHalfPulses /\ pulses' = pulses + 1 /\ UNCHANGED pc
  BY Zenon DEF ClockPulse
<1>3. /\ preemption_ts' = Later(preemption_ts) /\ earliest_wakeup' = Later(earliest_wakeup)
      /\ preemption_event' = preemption_event - 1
      /\ sleep_events' = {e - 1 : e \in sleep_events}
      /\ sleep_expiry' = [t \in Tasks |-> IF task_queue[t] = "sleep" THEN sleep_expiry[t] - 1
                                                                     ELSE sleep_expiry[t]]
  BY DEF ClockPulse
<1>4. pc' \in [Tasks -> TaskLabels]
  <2>1. pc \in [Tasks -> TaskLabels] /\ "woken" \in TaskLabels
    BY DEF TypeOK, TaskLabels
  <2> QED BY <1>2, <2>1, Zenon DEF EndHlt
<1>5. \A x \in Tasks : pc'[x] # pc[x] => x = current_task /\ pc[x] = "hlt" /\ pc'[x] = "woken"
  BY <1>2 DEF TypeOK, EndHlt
<1>6. TypeOK'
  <2>1. interrupt_level' \in 0 .. 2 /\ pulses' \in 0 .. BottomHalfPulses
    BY <1>1, <1>2, TimeAssumption DEF TypeOK, Phases
  <2>2. /\ preemption_ts' \in Int \union {NoTime} /\ earliest_wakeup' \in Int \union {NoTime}
        /\ preemption_event' \in Int
    <3>1. /\ preemption_ts \in Int \union {NoTime} /\ earliest_wakeup \in Int \union {NoTime}
          /\ preemption_event \in Int
      BY DEF TypeOK
    <3> QED BY <1>3, <3>1 DEF Later
  <2>3. sleep_events' \in SUBSET Int /\ sleep_expiry' \in [Tasks -> Int]
    <3>1. \A e \in sleep_events : e - 1 \in Int
      BY DEF TypeOK
    <3>2. \A x \in Tasks : sleep_expiry[x] \in Int /\ sleep_expiry[x] - 1 \in Int
      BY DEF TypeOK
    <3> QED BY <1>3, <3>1, <3>2, Zenon
  <2> QED BY <1>1, <1>4, <2>1, <2>2, <2>3, Zenon DEF TypeOK, queueVars
<1>7. Phases'
  BY <1>1, <1>2, TimeAssumption DEF TypeOK, Phases
<1>8. Loops' /\ RefCountExact'
  BY <1>1, <1>2 DEF Loops, Phases, RefCountExact
<1>9. Labels'
  BY <1>1, <1>5 DEF Labels, InYield, TypeOK, Tasks
<1>10. Lives' /\ Newborns'
  <2>1. \A x \in Tasks : ret'[x] = "unreachable" => ret[x] = "unreachable"
    BY <1>1
  <2>2. \A x \in Tasks : InYield(x) => InYield(x)'
    BY <1>5 DEF InYield
  <2>3. \A x \in Tasks : pc'[x] = "create" <=> pc[x] = "create"
    BY <1>5
  <2> QED BY <1>1, <2>1, <2>2, <2>3, LivesStay, NewbornsStay DEF queueVars
<1>12. Waits'
  BY <1>1, <1>5, Frame DEF TypeOK
<1>13. AlarmSet'
  BY <1>1, <1>2, <1>3, TimeAssumption DEF TypeOK, AlarmSet, Later
<1>14. Planned'
  <2>1. preemption_ts' # NoTime <=> preemption_ts # NoTime
    <3>1. preemption_ts \in Int \union {NoTime} /\ NoTime \notin Int
      BY TimeAssumption DEF TypeOK
    <3>2. preemption_ts' = IF preemption_ts = NoTime THEN NoTime ELSE preemption_ts - 1
      BY <1>3 DEF Later
    <3> QED BY <3>1, <3>2
  <2> QED BY <1>1, <2>1 DEF Planned, queueVars
<1>15. SleeperHasAlarm'
  <2> SUFFICES ASSUME NEW t \in Elems(sleep_queue)
               PROVE  \E e \in sleep_events' : e <= sleep_expiry'[t]
    BY <1>1 DEF SleeperHasAlarm, queueVars
  <2>1. t \in Tasks /\ task_queue[t] = "sleep"
    BY ElemsType, Zenon DEF QueuesAgree, TypeOK
  <2>2. PICK e \in sleep_events : e <= sleep_expiry[t]
    BY <1>2 DEF SleeperHasAlarm
  <2>3. e - 1 \in sleep_events' /\ sleep_expiry'[t] = sleep_expiry[t] - 1
    BY <1>3, <2>1
  <2>4. e - 1 <= sleep_expiry[t] - 1
    BY <2>1, <2>2 DEF TypeOK
  <2> QED BY <2>3, <2>4
<1> QED BY <1>1, <1>6, <1>7, <1>8, <1>9, <1>10, <1>12, <1>13, <1>14, <1>15, Frame DEF queueVars

\* sleep_expiry_callback() starts with all sleeping tasks to visit.
LEMMA FireSleepInv ==
  ASSUME Consistent, FireSleep
  PROVE  Consistent'
<1> USE DEF Consistent
<1>1. /\ irq = "pulse" /\ irq' = "wake" /\ iter' = sleep_queue /\ earliest_wakeup' = NoTime
      /\ sleep_events' \in SUBSET sleep_events
      /\ UNCHANGED <<current_task, taskVars, queueVars, preemption_ts, preemption_event,
                     preemption_counter, pc, ret, newborn, interrupt_level, pulses, panic>>
  BY DEF FireSleep
<1>2. TypeOK'
  BY <1>1 DEF TypeOK, taskVars, queueVars
<1>3. Phases'
  BY <1>1 DEF Phases
<1>4. Loops' /\ AlarmSet'
  BY <1>1 DEF Loops, AlarmSet, QueuesAgree, queueVars
<1>6. SleeperHasAlarm'
  BY <1>1, Zenon DEF SleeperHasAlarm, queueVars
<1>7. Lives' /\ Newborns'
  BY <1>1, LivesStay, NewbornsStay DEF InYield, taskVars, queueVars
<1> QED BY <1>1, <1>2, <1>3, <1>4, <1>6, <1>7, Frame DEF taskVars, queueVars

\* sleep_expiry_callback() wakes the task it visits, or keeps it in mind for the next event.
LEMMA WakeOneInv ==
  ASSUME Consistent, WakeOne
  PROVE  Consistent'
<1> USE DEF Consistent
<1> DEFINE t == Head(iter)
<1>1. irq = "wake" /\ iter # <<>> /\ iter' = Tail(iter)
  BY DEF WakeOne, Expired
<1>2. /\ t \in Tasks /\ t \in Elems(iter) /\ iter' \in Seq(Tasks) /\ NoDuplicates(iter')
      /\ Elems(iter') = Elems(iter) \ {t}
  <2>1. iter \in Seq(Tasks) /\ NoDuplicates(iter)
    BY DEF TypeOK, Loops
  <2> QED BY <1>1, <2>1, TailList, Zenon
<1>3. /\ t \in Elems(sleep_queue) /\ task_queue[t] = "sleep" /\ t # Cleaner /\ Cleaner \in Tasks
      /\ state[t] \in {"BLOCKED", "BLOCKED_IDLING"} /\ block_reason[t] = "SLEEP"
      /\ t \notin Elems(ready_queue) /\ t \notin Elems(termination_queue)
  BY <1>1, <1>2 DEF Loops, QueuesAgree, Lives, IsTerminated, Tasks
<1>4. \A x \in Tasks : newborn[x] # t
  BY <1>2, <1>3, TasksAssumption DEF Newborns
<1> HIDE DEF t
<1>5. UNCHANGED <<current_task, block_reason, refs, termination_queue, preemption_event,
                  sleep_events, preemption_counter, pc, ret, newborn, irq, interrupt_level, pulses>>
  BY DEF WakeOne, Expired
<1>6. (Phases /\ AlarmSet)'
  BY <1>1, <1>5 DEF Phases, AlarmSet
<1>7. CASE sleep_expiry[t] > 0
  <2>1. /\ earliest_wakeup' = IF Before(sleep_expiry[t], earliest_wakeup)
                              THEN sleep_expiry[t] ELSE earliest_wakeup
        /\ UNCHANGED <<state, resched, task_queue, ref_count, sleep_expiry, ready_queue,
                       sleep_queue, preemption_ts, panic>>
    <3>1. ~(sleep_expiry[t] <= 0)
      BY <1>2, <1>7 DEF TypeOK
    <3> QED BY <3>1 DEF WakeOne, t, Expired
  <2>2. earliest_wakeup' \in Int \union {NoTime}
    BY <1>2, <2>1 DEF TypeOK
  <2>3. TypeOK'
    BY <1>2, <1>5, <2>1, <2>2, Zenon DEF TypeOK
  <2>4. Loops'
    BY <1>1, <1>2, <1>5, <2>1 DEF Loops
  <2>5. (Labels /\ Lives /\ Waits /\ Newborns /\ RefCountExact /\ OneRunning)'
    <3>1. (Labels /\ Waits /\ RefCountExact /\ OneRunning)'
      BY <1>5, <2>1, Frame
    <3>2. Lives' /\ Newborns'
      BY <1>5, <2>1, LivesStay, NewbornsStay, Zenon DEF InYield
    <3> QED BY <3>1, <3>2
  <2>6. (/\ QueuesAgree /\ IdleOnlyIfNothingReady /\ Planned /\ OnlyLate)'
    BY <1>5, <2>1, Zenon DEF QueuesAgree, IdleOnlyIfNothingReady, Planned, OnlyLate,
         IsTerminated
  <2>7. SleeperHasAlarm'
    <3> SUFFICES ASSUME NEW x \in Elems(sleep_queue), ~\E e \in sleep_events : e <= sleep_expiry[x]
                 PROVE  x \in Elems(iter') \/ ~Before(sleep_expiry[x], earliest_wakeup')
      BY <1>1, <1>5, <2>1 DEF SleeperHasAlarm
    <3>1. x \in Elems(iter) \/ ~Before(sleep_expiry[x], earliest_wakeup)
      BY DEF SleeperHasAlarm
    <3>2. x \in Tasks /\ sleep_expiry[x] \in Int /\ sleep_expiry[t] \in Int
      BY <1>2, ElemsType, Zenon DEF TypeOK
    <3>3. CASE x = t
      BY <2>1, <3>2, <3>3, TimeAssumption DEF Before, TypeOK
    <3>4. CASE x # t /\ x \in Elems(iter)
      BY <1>2, <3>4
    <3>5. CASE ~Before(sleep_expiry[x], earliest_wakeup)
      <4>1. earliest_wakeup \in Int
        BY <3>2, <3>5 DEF Before, TypeOK
      <4> QED BY <2>1, <3>2, <3>5, <4>1, TimeAssumption DEF Before
    <3> QED BY <3>1, <3>3, <3>4, <3>5
  <2> QED BY <1>6, <2>3, <2>4, <2>5, <2>6, <2>7
<1>8. CASE sleep_expiry[t] <= 0
  <2> DEFINE tq == [task_queue EXCEPT ![t] = "none"]
             rc == [ref_count EXCEPT ![t] = @ - 1]
  <2>1. /\ sleep_queue' = EntryRemove(sleep_queue, t)
        /\ sleep_expiry' = [sleep_expiry EXCEPT ![t] = 0] /\ UNCHANGED earliest_wakeup
        /\ UnblockLocked(t, state, tq, rc)
    BY <1>8 DEF WakeOne, t, Expired
  <2>2. /\ sleep_queue' \in Seq(Tasks) /\ NoDuplicates(sleep_queue')
        /\ Elems(sleep_queue') = Elems(sleep_queue) \ {t}
    <3>1. sleep_queue \in Seq(Tasks) /\ NoDuplicates(sleep_queue)
      BY DEF TypeOK, QueuesAgree
    <3> QED BY <1>3, <2>1, <3>1, RemoveFromList, Zenon
  <2>3. /\ sleep_expiry' \in [Tasks -> Int]
        /\ \A x \in Tasks \ {t} : sleep_expiry'[x] = sleep_expiry[x]
    <3>1. sleep_expiry' = [sleep_expiry EXCEPT ![t] = 0]
      BY <2>1
    <3>2. sleep_expiry \in [Tasks -> Int]
      BY DEF TypeOK
    <3>3. sleep_expiry' \in [Tasks -> Int]
      BY <1>2, <3>1, <3>2
    <3>4. \A x \in Tasks \ {t} : sleep_expiry'[x] = sleep_expiry[x]
      BY <1>2, <3>1, <3>2
    <3> QED BY <3>3, <3>4
  <2>4. SleeperHasAlarm'
    <3> SUFFICES ASSUME NEW x \in Elems(sleep_queue'), ~\E e \in sleep_events : e <= sleep_expiry'[x]
                 PROVE  x \in Elems(iter') \/ ~Before(sleep_expiry'[x], earliest_wakeup)
      BY <1>1, <1>5, <2>1 DEF SleeperHasAlarm
    <3>1. x \in Elems(sleep_queue) /\ x # t /\ x \in Tasks
      BY <2>2, ElemsType, Zenon DEF TypeOK
    <3>2. x \in Elems(iter) \/ ~Before(sleep_expiry[x], earliest_wakeup)
      BY <2>3, <3>1 DEF SleeperHasAlarm
    <3> QED BY <1>2, <2>3, <3>1, <3>2
  <2>5. Loops'
    BY <1>1, <1>2, <1>5, <2>2 DEF Loops
  <2>6. tq[t] = "none" /\ rc[t] = refs[t] /\ rc \in [Tasks -> Int]
    <3>1. ref_count \in [Tasks -> Int] /\ task_queue[t] # "none" /\ refs[t] \in Nat
      BY <1>2, <1>3 DEF TypeOK
    <3>2. ref_count[t] = refs[t] + 1
      BY <1>2, <3>1 DEF RefCountExact
    <3>3. tq[t] = "none"
      BY <1>2 DEF TypeOK
    <3>4. ref_count[t] - 1 = refs[t] /\ ref_count[t] - 1 \in Int
      BY <3>1, <3>2
    <3> QED BY <1>2, <3>1, <3>3, <3>4, Zenon
  <2>7. CASE t = current_task
    <3>1. /\ resched' = [resched EXCEPT ![t] = TRUE] /\ state' = [state EXCEPT ![t] = "RUNNING"]
          /\ task_queue' = tq /\ ref_count' = rc
          /\ UNCHANGED <<ready_queue, preemption_ts, panic>>
      BY <1>3, <2>1, <2>7 DEF UnblockLocked, PlannedPreemption, NotIdling, Enqueue
    <3>2. TypeOK'
      BY <1>2, <1>5, <2>1, <2>2, <2>3, <2>6, <3>1, Zenon DEF TypeOK, States
    <3>2a. /\ state'[t] = "RUNNING" /\ task_queue'[t] = "none" /\ resched'[t] = TRUE
           /\ \A x \in Tasks \ {t} : state'[x] = state[x] /\ task_queue'[x] = task_queue[x]
      BY <1>2, <3>1, Zenon DEF TypeOK
    <3>3. (Labels /\ Lives /\ Newborns)'
      <4>1. Labels'
        BY <1>5, <2>7, <3>1, <3>2a, Zenon DEF Labels, InYield
      <4>2. Lives'
        <5>1. /\ task_queue'[Cleaner] \in {"none", "ready"}
              /\ \A x \in Tasks : state'[x] = "NONE" => state[x] = "NONE"
          BY <1>3, <3>2a DEF Lives
        <5>2. ASSUME NEW x \in Tasks, block_reason[x] = "TERMINATED"
              PROVE  state'[x] = state[x] /\ InYield(x)'
          BY <1>3, <1>5, <3>2a, <5>2 DEF Lives, InYield
        <5>3. ~IsTerminated(current_task)'
          BY <1>5, <2>7, <3>2a DEF IsTerminated
        <5> QED BY <1>5, <5>1, <5>2, <5>3, LivesStep, Zenon
      <4>3. Newborns'
        <5>1. ASSUME NEW x \in Tasks, newborn[x] # NoTask
              PROVE  /\ newborn[x] # current_task' /\ state'[newborn[x]] = "BLOCKED"
                     /\ block_reason'[newborn[x]] = "SLEEP" /\ task_queue'[newborn[x]] = "none"
          BY <1>4, <1>5, <3>2a, <5>1, NewbornIs
        <5> QED BY <1>5, <5>1, NewbornsStep, Zenon
      <4> QED BY <4>1, <4>2, <4>3
    <3>4. (Waits /\ Planned /\ OnlyLate)'
      <4>1. ASSUME NEW x \in Tasks PROVE task_queue'[x] = "wait" => task_queue[x] = "wait"
        BY <3>2a
      <4>2. ASSUME NEW x \in Tasks, task_queue[x] = "wait", state[x] \in {"BLOCKED", "BLOCKED_IDLING"}
            PROVE  state'[x] \in {"BLOCKED", "BLOCKED_IDLING"} /\ block_reason'[x] = block_reason[x]
        BY <1>3, <1>5, <3>2a, <4>2
      <4>3. pc[current_task] # "wait_block"
        BY <1>3, <2>7 DEF Labels, InYield
      <4>4. Waits'
        BY <4>1, <4>2, <4>3, WaitsStep, Zenon
      <4> QED BY <3>1, <4>4 DEF Planned, OnlyLate
    <3>5. QueuesAgree'
      BY <1>2, <1>3, <1>5, <2>2, <3>1, Zenon DEF QueuesAgree, TypeOK, IsTerminated
    <3>6. RefCountExact'
      <4>1. \A x \in Tasks \ {t} : ref_count'[x] = ref_count[x]
        BY <3>1, Zenon DEF TypeOK
      <4>2. rc[t] = refs[t] /\ refs[t] \in Nat
        BY <1>2, <2>6 DEF TypeOK
      <4> HIDE DEF tq, rc
      <4>3. ref_count'[t] = refs'[t] + (IF task_queue'[t] = "none" THEN 0 ELSE 1)
        <5>1. ref_count'[t] = refs[t] /\ refs' = refs /\ task_queue'[t] = "none"
          BY <1>5, <3>1, <3>2a, <4>2, Zenon
        <5> QED BY <4>2, <5>1
      <4>4. ASSUME NEW x \in Tasks \ {t}
            PROVE  ref_count'[x] = refs'[x] + (IF task_queue'[x] = "none" THEN 0 ELSE 1)
        BY <1>5, <3>2a, <4>1 DEF RefCountExact
      <4> QED BY <4>3, <4>4 DEF RefCountExact
    <3>7. (OneRunning /\ IdleOnlyIfNothingReady)'
      BY <1>5, <2>7, <3>1, Zenon DEF OneRunning, IdleOnlyIfNothingReady, TypeOK
    <3> QED BY <1>6, <2>4, <2>5, <3>2, <3>3, <3>4, <3>5, <3>6, <3>7
  <2>8. CASE t # current_task
    <3>1. /\ state' = [state EXCEPT ![t] = "READY_TO_RUN",
                           ![current_task] = IF @ = "BLOCKED_IDLING" THEN "BLOCKED" ELSE @]
          /\ task_queue' = [tq EXCEPT ![t] = "ready"] /\ ref_count' = [rc EXCEPT ![t] = @ + 1]
          /\ ready_queue' = Append(ready_queue, t)
          /\ preemption_ts' = IF preemption_ts = NoTime THEN TimeSlice ELSE preemption_ts
          /\ UNCHANGED <<resched, panic>>
      BY <1>3, <2>1, <2>6, <2>8, Zenon DEF UnblockLocked, KAssert, PlannedPreemption, NotIdling,
           Enqueue
    <3>2. /\ task_queue' \in [Tasks -> {"none", "ready", "sleep", "wait"}]
          /\ task_queue'[t] = "ready" /\ \A x \in Tasks \ {t} : task_queue'[x] = task_queue[x]
      BY <1>2, <3>1 DEF TypeOK
    <3>3. ref_count' = ref_count
      <4>1. ref_count \in [Tasks -> Int] /\ ref_count[t] \in Int
        BY <1>2 DEF TypeOK
      <4>2. rc[t] + 1 = ref_count[t]
        BY <1>2, <4>1
      <4>3. ref_count' = [rc EXCEPT ![t] = ref_count[t]]
        BY <3>1, <4>2, Zenon
      <4> QED BY <4>1, <4>3, Zenon
    <3>4. /\ ready_queue' \in Seq(Tasks) /\ ready_queue' # <<>> /\ NoDuplicates(ready_queue')
          /\ Elems(ready_queue') = Elems(ready_queue) \union {t}
      <4>1. ready_queue \in Seq(Tasks) /\ NoDuplicates(ready_queue)
        BY DEF TypeOK, QueuesAgree
      <4>2. ready_queue' = Append(ready_queue, t)
        BY <3>1
      <4> QED BY <1>2, <1>3, <4>1, <4>2, AppendNew, Zenon
    <3>5. /\ state' \in [Tasks -> States] /\ state'[t] = "READY_TO_RUN"
          /\ \A x \in Tasks \ {t, current_task} : state'[x] = state[x]
          /\ state[current_task] # "BLOCKED_IDLING" => state'[current_task] = state[current_task]
          /\ state[current_task] = "BLOCKED_IDLING" => state'[current_task] = "BLOCKED"
      BY <1>2, <2>8, <3>1 DEF TypeOK, States
    <3>6. preemption_ts' \in Int \union {NoTime} /\ preemption_ts' # NoTime
      <4>1. preemption_ts \in Int \union {NoTime}
        BY DEF TypeOK
      <4> QED BY <3>1, <4>1, TimeAssumption
    <3>7. TypeOK'
      <4>1. UNCHANGED <<resched, ref_count>>
        BY <3>1, <3>3
      <4> QED BY <1>2, <1>5, <2>1, <2>2, <2>3, <3>2, <3>4, <3>5, <3>6, <4>1, Zenon DEF TypeOK
    <3>8. Labels'
      BY <1>5, <2>8, <3>1, <3>5, Zenon DEF Labels, InYield, TypeOK
    <3>9. \A x \in Tasks : block_reason[x] = "TERMINATED" => state'[x] = state[x]
      BY <1>3, <3>5 DEF Lives
    <3>10. Lives'
      <4>1. task_queue'[Cleaner] \in {"none", "ready"}
        BY <1>3, <3>2 DEF Lives
      <4>2. \A x \in Tasks : state'[x] = "NONE" => state[x] = "NONE"
        BY <3>5, Zenon
      <4>3. ASSUME NEW x \in Tasks, block_reason[x] = "TERMINATED"
            PROVE  state'[x] = state[x] /\ InYield(x)'
        BY <1>5, <3>9, <4>3 DEF Lives, InYield
      <4> QED BY <1>5, <3>4, <4>1, <4>2, <4>3, LivesStep, Zenon
    <3>11. Newborns'
      <4>1. ASSUME NEW x \in Tasks, newborn[x] # NoTask
            PROVE  /\ newborn[x] \in Workers \ {current_task} /\ newborn[x] \in Tasks \ {t, current_task}
                   /\ state[newborn[x]] = "BLOCKED" /\ block_reason[newborn[x]] = "SLEEP"
                   /\ task_queue[newborn[x]] = "none"
                   /\ \A u \in Tasks : newborn[u] = newborn[x] => u = x
        BY <1>4, <4>1 DEF Newborns, Tasks
      <4>2. ASSUME NEW x \in Tasks, newborn[x] # NoTask
            PROVE  state'[newborn[x]] = "BLOCKED" /\ task_queue'[newborn[x]] = "none"
        BY <3>2, <3>5, <4>1, <4>2
      <4>3. \A x \in Tasks : pc[x] = "create" <=> newborn[x] # NoTask
        BY DEF Newborns
      <4>4. UNCHANGED <<newborn, pc, current_task, block_reason>>
        BY <1>5
      <4>5. ASSUME NEW x \in Tasks
            PROVE  pc'[x] = "create" <=> newborn'[x] # NoTask
        BY <4>3, <4>4
      <4>6. ASSUME NEW x \in Tasks, newborn'[x] # NoTask
            PROVE  /\ newborn'[x] \in Workers \ {current_task'} /\ state'[newborn'[x]] = "BLOCKED"
                   /\ block_reason'[newborn'[x]] = "SLEEP" /\ task_queue'[newborn'[x]] = "none"
                   /\ \A u \in Tasks : newborn'[u] = newborn'[x] => u = x
        <5>1. newborn[x] # NoTask
          BY <4>4, <4>6
        <5> QED BY <4>1, <4>2, <4>4, <5>1
      <4> QED BY <4>5, <4>6 DEF Newborns
    <3>12. Waits'
      <4>1. ASSUME NEW x \in Tasks PROVE task_queue'[x] = "wait" => task_queue[x] = "wait"
        BY <3>2
      <4>2. ASSUME NEW x \in Tasks, task_queue[x] = "wait", state[x] \in {"BLOCKED", "BLOCKED_IDLING"}
            PROVE  state'[x] \in {"BLOCKED", "BLOCKED_IDLING"} /\ block_reason'[x] = block_reason[x]
        BY <1>3, <1>5, <3>5, <4>2
      <4>3. UNCHANGED <<current_task, resched, pc, preemption_counter>>
        BY <1>5, <3>1
      <4>4. state[current_task] = "RUNNING" => state'[current_task] = "RUNNING"
        BY <3>5
      <4> QED BY <4>1, <4>2, <4>3, <4>4, WaitsStep, Zenon
    <3>13. QueuesAgree'
      <4>1. ASSUME NEW x \in Tasks
            PROVE /\ x \in Elems(ready_queue') <=> task_queue'[x] = "ready"
                  /\ x \in Elems(ready_queue') <=> state'[x] = "READY_TO_RUN"
        <5>1. /\ x \in Elems(ready_queue) <=> task_queue[x] = "ready"
              /\ x \in Elems(ready_queue) <=> state[x] = "READY_TO_RUN"
          BY DEF QueuesAgree
        <5>2. CASE x = t
          BY <3>2, <3>4, <3>5, <5>2
        <5>3. CASE x # t
          <6>1. state'[x] = "READY_TO_RUN" <=> state[x] = "READY_TO_RUN"
            BY <3>5, <5>3
          <6> QED BY <3>2, <3>4, <5>1, <5>3, <6>1
        <5> QED BY <5>2, <5>3
      <4>2. ASSUME NEW x \in Tasks
            PROVE /\ x \in Elems(sleep_queue') <=> task_queue'[x] = "sleep"
                  /\ x \in Elems(sleep_queue') =>
                       state'[x] \in {"BLOCKED", "BLOCKED_IDLING"} /\ block_reason[x] = "SLEEP"
        BY <1>3, <2>2, <3>2, <3>5 DEF QueuesAgree
      <4>3. ASSUME NEW x \in Tasks
            PROVE x \in Elems(termination_queue) <=> IsTerminated(x)'
        BY <1>3, <1>5, <3>5, <3>9 DEF QueuesAgree, IsTerminated, Lives
      <4> QED BY <1>5, <2>2, <3>4, <4>1, <4>2, <4>3 DEF QueuesAgree
    <3>14. RefCountExact'
      BY <1>3, <1>5, <3>2, <3>3, Zenon DEF RefCountExact
    <3>15. OneRunning'
      BY <1>5, <2>8, <3>1, <3>5, Zenon DEF OneRunning, TypeOK
    <3>16. IdleOnlyIfNothingReady'
      <4>1. \A x \in Tasks : state'[x] # "BLOCKED_IDLING"
        BY <2>8, <3>5, Zenon DEF OneRunning
      <4> QED BY <1>5, <4>1, Zenon DEF IdleOnlyIfNothingReady, TypeOK
    <3>17. (Planned /\ OnlyLate)'
      BY <3>1, <3>4, <3>6 DEF Planned, OnlyLate
    <3> QED BY <1>6, <2>4, <2>5, <3>7, <3>8, <3>10, <3>11, <3>12, <3>13, <3>14, <3>15, <3>16,
         <3>17
  <2> QED BY <2>7, <2>8
<1>9. sleep_expiry[t] \in Int
  BY <1>2 DEF TypeOK
<1> QED BY <1>7, <1>8, <1>9

\* sleep_expiry_callback() registers the next event.
LEMMA WakeDoneInv ==
  ASSUME Consistent, WakeDone
  PROVE  Consistent'
<1> USE DEF Consistent
<1>1. /\ irq = "wake" /\ iter = <<>> /\ irq' = "pulse"
      /\ sleep_events' = sleep_events \union ({earliest_wakeup} \ {NoTime})
      /\ UNCHANGED <<current_task, taskVars, queueVars, preemption_ts, earliest_wakeup,
                     preemption_event, preemption_counter, pc, ret, newborn, interrupt_level,
                     iter, pulses, panic>>
  BY DEF WakeDone
<1>2. TypeOK'
  BY <1>1, Zenon DEF TypeOK, taskVars, queueVars
<1>3. Phases'
  BY <1>1 DEF Phases
<1>4. Loops' /\ AlarmSet'
  BY <1>1 DEF Loops, AlarmSet
<1>6. SleeperHasAlarm'
  <2> SUFFICES ASSUME NEW t \in Elems(sleep_queue)
               PROVE  \E e \in sleep_events' : e <= sleep_expiry[t]
    BY <1>1 DEF SleeperHasAlarm, queueVars, taskVars
  <2>1. t \in Tasks /\ t \notin Elems(iter)
    BY <1>1, ElemsType, EmptyList, Zenon DEF TypeOK
  <2>2. CASE \E e \in sleep_events : e <= sleep_expiry[t]
    BY <1>1, <2>2
  <2>3. CASE ~Before(sleep_expiry[t], earliest_wakeup)
    <3>1. earliest_wakeup # NoTime /\ ~(sleep_expiry[t] < earliest_wakeup)
      BY <2>3 DEF Before
    <3>2. earliest_wakeup \in Int /\ sleep_expiry[t] \in Int
      BY <2>1, <3>1 DEF TypeOK
    <3>3. earliest_wakeup \in sleep_events'
      BY <1>1, <3>1
    <3> QED BY <3>1, <3>2, <3>3
  <2> QED BY <1>1, <2>1, <2>2, <2>3 DEF SleeperHasAlarm
<1>7. Lives' /\ Newborns'
  BY <1>1, LivesStay, NewbornsStay, Zenon DEF InYield, taskVars, queueVars
<1> QED BY <1>1, <1>2, <1>3, <1>4, <1>6, <1>7, Frame DEF taskVars, queueVars

\* preemption_callback() marks the current task if preemption is due and enabled.
LEMMA FirePreemptionInv ==
  ASSUME Consistent, FirePreemption
  PROVE  Consistent'
<1> USE DEF Consistent
<1>1. UNCHANGED <<current_task, state, block_reason, task_queue, ref_count, refs, sleep_expiry,
                  queueVars, preemption_ts, earliest_wakeup, sleep_events, preemption_counter,
                  pc, ret, newborn, irqVars>>
  BY Zenon DEF FirePreemption
<1>2. preemption_ts # NoTime => state[current_task] # "BLOCKED_IDLING"
  BY DEF Planned, IdleOnlyIfNothingReady, TypeOK
<1>3. panic' \in {panic, "late_preemption"}
  <2>1. CASE preemption_ts = NoTime
    <3>1. preemption_ts # 0
      BY <2>1, TimeAssumption
    <3> QED BY <2>1, <3>1 DEF FirePreemption
  <2>2. CASE preemption_ts = 0
    <3>1. preemption_ts # NoTime /\ state[current_task] # "BLOCKED_IDLING"
      BY <1>2, <2>2, TimeAssumption
    <3>2. KAssert(Preemptible => state[current_task] # "BLOCKED_IDLING", "preempted_idle")
      BY <2>2, <3>1 DEF FirePreemption
    <3> QED BY <3>1, <3>2 DEF KAssert
  <2>3. CASE preemption_ts \notin {0, NoTime}
    BY <2>3 DEF FirePreemption, KAssert
  <2> QED BY <2>1, <2>2, <2>3
<1>4. /\ resched' \in [Tasks -> BOOLEAN]
      /\ \A x \in Tasks \ {current_task} : resched'[x] = resched[x]
      /\ resched[current_task] => resched'[current_task]
      /\ preemption_counter # 0 \/ preemption_ts = NoTime => resched' = resched
  <2>1. \/ resched' = resched
        \/ /\ preemption_ts = 0 /\ preemption_counter = 0
           /\ resched' = [resched EXCEPT ![current_task] = TRUE]
    BY DEF FirePreemption, Preemptible
  <2>2. resched \in [Tasks -> BOOLEAN] /\ current_task \in Tasks
    BY DEF TypeOK
  <2>3. CASE resched' = resched
    BY <2>2, <2>3
  <2>4. CASE /\ preemption_ts = 0 /\ preemption_counter = 0
             /\ resched' = [resched EXCEPT ![current_task] = TRUE]
    <3>1. preemption_ts # NoTime
      BY <2>4, TimeAssumption
    <3> QED BY <2>2, <2>4, <3>1, Zenon
  <2> QED BY <2>1, <2>3, <2>4
<1>5. TypeOK'
  <2>1. preemption_event' \in Int
    <3>1. preemption_event' = TimeSlice \/ (preemption_event' = preemption_ts /\ preemption_ts # NoTime)
      BY DEF FirePreemption
    <3>2. preemption_ts \in Int \union {NoTime}
      BY DEF TypeOK
    <3> QED BY <3>1, <3>2, TimeAssumption
  <2> QED BY <1>1, <1>4, <2>1, Zenon DEF TypeOK, queueVars, irqVars
<1>6. Labels' /\ OneRunning' /\ IdleOnlyIfNothingReady'
  <2>1. state[current_task] = "BLOCKED_IDLING" => resched' = resched
    BY <1>2, <1>4
  <2>2. Labels'
    BY <1>1, <1>4 DEF Labels, InYield
  <2>3. OneRunning'
    BY <1>1, <1>4 DEF OneRunning
  <2>4. ASSUME NEW x \in Tasks, state[x] = "BLOCKED_IDLING"
        PROVE  ready_queue = <<>> /\ resched'[x]
    <3>1. ready_queue = <<>> /\ resched[x]
      BY <2>4 DEF IdleOnlyIfNothingReady
    <3> QED BY <1>4, <3>1
  <2> QED BY <1>1, <2>2, <2>3, <2>4 DEF IdleOnlyIfNothingReady, queueVars
<1>7. Waits'
  <2>1. ASSUME NEW x \in Tasks, preemption_counter > 0, ~resched[x] PROVE ~resched'[x]
    <3>1. preemption_counter # 0
      BY <2>1 DEF TypeOK
    <3> QED BY <1>4, <2>1, <3>1
  <2>2. UNCHANGED <<current_task, state, block_reason, task_queue, preemption_counter, pc>>
    BY <1>1
  <2> QED BY <2>1, <2>2, Zenon DEF Waits
<1>8. OnlyLate'
  BY <1>3 DEF OnlyLate
<1>9. (Lives /\ Newborns)'
  BY <1>1, LivesStay, NewbornsStay DEF InYield, queueVars
<1> QED BY <1>1, <1>5, <1>6, <1>7, <1>8, <1>9, Frame DEF queueVars, irqVars

\* The clock interrupt ends.
LEMMA PulseDoneInv ==
  ASSUME Consistent, PulseDone
  PROVE  Consistent'
<1> USE DEF Consistent
<1>1. /\ irq = "pulse" /\ preemption_event > 0
      /\ \/ interrupt_level = 2 /\ irq' = "bottom" /\ interrupt_level' = 1
         \/ interrupt_level = 1 /\ irq' = "eoi" /\ UNCHANGED interrupt_level
      /\ UNCHANGED <<current_task, taskVars, queueVars, timeVars, preemption_counter, pc, ret,
                     newborn, iter, pulses, panic>>
  BY DEF PulseDone
<1>2. TypeOK'
  <2>1. irq' \in {"none", "clean", "pulse", "wake", "bottom", "eoi"} /\ interrupt_level' \in 0 .. 2
    BY <1>1
  <2> QED BY <1>1, <2>1, Zenon DEF TypeOK, taskVars, queueVars, timeVars
<1>3. Phases'
  BY <1>1 DEF Phases
<1>4. Loops' /\ AlarmSet'
  BY <1>1 DEF Loops, AlarmSet, timeVars
<1>6. SleeperHasAlarm'
  BY <1>1 DEF SleeperHasAlarm, taskVars, queueVars, timeVars
<1>7. Lives' /\ Newborns'
  BY <1>1, LivesStay, NewbornsStay DEF InYield, taskVars, queueVars
<1> QED BY <1>1, <1>2, <1>3, <1>4, <1>6, <1>7, Frame DEF taskVars, queueVars, timeVars

=============================================================================
