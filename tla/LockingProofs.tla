---------------------------- MODULE LockingProofs ---------------------------
(***************************************************************************)
(* The theorems about the locks. The steps of __semaphore_wait() and       *)
(* __semaphore_signal() keep the scheduler consistent and preserve the     *)
(* inductive invariant of the locks, one lemma per step; so does what the  *)
(* interrupts and the other tasks do between these steps; what follows     *)
(* from it; and the permits are conserved.                                 *)
(***************************************************************************)
EXTENDS Locking, SchedulerProofs, FiniteSetTheorems

\* The current task goes on in locking.c, to label l.
Moves(t, l) ==
  /\ t = current_task /\ irq = "none" /\ t \in Lockers
  /\ pc[t] \in SemaphoreLabels \union {"run"} /\ l \in SemaphoreLabels \union {"run"}
  /\ pc' = [pc EXCEPT ![t] = l]
  /\ UNCHANGED <<current_task, block_reason, resched, refs, sleep_expiry, sleep_queue,
                 termination_queue, earliest_wakeup, preemption_event, sleep_events, ret,
                 newborn, irqVars, panic>>

\* The labels after such a step, and what does not depend on which one it is.
LEMMA MovesLabels ==
  ASSUME Consistent, NEW t, NEW l, Moves(t, l)
  PROVE  /\ pc' \in [Tasks -> TaskLabels] /\ pc'[t] = l
         /\ t \in Tasks \ {Cleaner} /\ state[t] = "RUNNING"
         /\ \A x \in Tasks \ {t} : pc'[x] = pc[x]
         /\ \A x \in Tasks : InYield(x)' <=> InYield(x)
         /\ \A x \in Tasks : pc'[x] = "create" <=> pc[x] = "create"
         /\ ~InYield(t) /\ pc[t] # "create"
         /\ Phases' /\ OnlyLate'
<1> USE DEF Moves
<1>1. /\ pc \in [Tasks -> TaskLabels] /\ t \in Tasks \ {Cleaner}
      /\ ~InYield(t) /\ l \notin {"yield", "wait", "hlt", "woken", "create"} /\ l \in TaskLabels
      /\ pc[t] \notin {"yield", "wait", "hlt", "woken", "create"}
  BY LockingAssumption
     DEF Consistent, TypeOK, InYield, SemaphoreLabels, WaitLabels, TaskLabels
<1>2. state[t] = "RUNNING"
  BY <1>1 DEF Consistent, Labels
<1>3. /\ pc' \in [Tasks -> TaskLabels] /\ pc'[t] = l
      /\ \A x \in Tasks \ {t} : pc'[x] = pc[x]
  BY <1>1, Zenon
<1>4. \A x \in Tasks : InYield(x)' <=> InYield(x)
  BY <1>1, <1>3 DEF InYield
<1>5. \A x \in Tasks : pc'[x] = "create" <=> pc[x] = "create"
  BY <1>1, <1>3
<1>6. Phases'
  BY InTask
<1>7. OnlyLate'
  BY DEF Consistent, OnlyLate
<1> QED BY <1>1, <1>2, <1>3, <1>4, <1>5, <1>6, <1>7

\* The steps of locking.c that change nothing of a task or of a queue.
LEMMA MovesInv ==
  ASSUME Consistent, NEW t, NEW l, Moves(t, l), pc[t] # "wait_block",
         preemption_counter' \in Nat,
         UNCHANGED <<state, task_queue, ref_count, ready_queue, preemption_ts>>
  PROVE  Consistent'
<1> USE DEF Moves
<1>1. /\ pc' \in [Tasks -> TaskLabels]
      /\ \A x \in Tasks : InYield(x)' <=> InYield(x)
      /\ \A x \in Tasks : pc'[x] = "create" <=> pc[x] = "create"
      /\ state[t] = "RUNNING" /\ Phases' /\ OnlyLate'
      /\ t # Cleaner /\ ~InYield(t) /\ \A x \in Tasks \ {t} : pc'[x] = pc[x]
  BY MovesLabels, Zenon
<1>2. TypeOK'
  BY <1>1, Zenon DEF Consistent, TypeOK, irqVars
<1>3. Labels'
  BY <1>1 DEF Consistent, Labels, InYield, Tasks
<1>4. Lives'
  BY <1>1, LivesStay
<1>5. Newborns'
  BY <1>1, NewbornsStay
<1>6. Waits'
  <2>1. \A x \in Tasks : task_queue'[x] = "wait" => task_queue[x] = "wait"
    OBVIOUS
  <2>2. ASSUME NEW x \in Tasks, task_queue[x] = "wait", state[x] \in {"BLOCKED", "BLOCKED_IDLING"}
        PROVE  state'[x] \in {"BLOCKED", "BLOCKED_IDLING"} /\ block_reason'[x] = block_reason[x]
    BY <2>2
  <2> QED BY <2>1, <2>2, WaitsStep, Zenon
<1> QED BY <1>1, <1>2, <1>3, <1>4, <1>5, <1>6, Frame DEF Consistent, queueVars, irqVars

\* __semaphore_wait(): task_queue_enqueue().
LEMMA WaitEnqueueInv ==
  ASSUME LockInv, NEW t \in Tasks, WaitEnqueue(t)
  PROVE  Consistent' /\ task_queue[t] = "none" /\ Moves(t, "wait_block")
<1> USE DEF LockInv
<1>1. /\ t = current_task /\ irq = "none" /\ pc[t] = "wait_enqueue" /\ t \in Lockers
      /\ pc' = [pc EXCEPT ![t] = "wait_block"]
      /\ task_queue' = [task_queue EXCEPT ![t] = "wait"]
      /\ ref_count' = [ref_count EXCEPT ![t] = @ + 1]
      /\ UNCHANGED <<current_task, state, block_reason, resched, refs, sleep_expiry, queueVars,
                     timeVars, preemption_counter, ret, newborn, irqVars>>
  BY DEF WaitEnqueue, At, Goto, Acquires, SemaphoreLabels, WaitLabels
<1>2. state[t] = "RUNNING"
  BY <1>1 DEF Consistent, Labels, InYield
<1>3. /\ task_queue[t] = "none" /\ t \notin Elems(ready_queue) /\ t \notin Elems(sleep_queue)
  BY <1>1, <1>2, InNoQueue, Zenon DEF Consistent
<1>4. UNCHANGED panic
  BY <1>2, <1>3 DEF WaitEnqueue, KAssert, IsTerminated
<1>5. Moves(t, "wait_block")
  BY <1>1, <1>4 DEF Moves, SemaphoreLabels, WaitLabels, queueVars, timeVars
<1>6. /\ pc' \in [Tasks -> TaskLabels] /\ pc'[t] = "wait_block"
      /\ \A x \in Tasks : InYield(x)' <=> InYield(x)
      /\ \A x \in Tasks : pc'[x] = "create" <=> pc[x] = "create"
      /\ Phases' /\ OnlyLate'
      /\ t # Cleaner /\ ~InYield(t) /\ \A x \in Tasks \ {t} : pc'[x] = pc[x]
  BY <1>5, MovesLabels, Zenon DEF Consistent
<1>7. /\ task_queue' \in [Tasks -> {"none", "ready", "sleep", "wait"}]
      /\ task_queue'[t] = "wait" /\ \A x \in Tasks \ {t} : task_queue'[x] = task_queue[x]
  BY <1>1 DEF Consistent, TypeOK
<1>8. /\ ref_count' \in [Tasks -> Int]
      /\ ref_count'[t] = ref_count[t] + 1 /\ \A x \in Tasks \ {t} : ref_count'[x] = ref_count[x]
  BY <1>1 DEF Consistent, TypeOK
<1>9. TypeOK'
  BY <1>1, <1>6, <1>7, <1>8, Zenon DEF Consistent, TypeOK, irqVars, queueVars, timeVars
<1>10. Labels'
  BY <1>1, <1>2, <1>6 DEF Consistent, Labels, InYield, Tasks
<1>11. Lives'
  <2>1. task_queue'[Cleaner] \in {"none", "ready"}
    BY <1>6, <1>7 DEF Consistent, Lives, Tasks
  <2>2. \A x \in Tasks : block_reason[x] = "TERMINATED" => state'[x] = state[x] /\ InYield(x)'
    BY <1>1, <1>6 DEF Consistent, Lives
  <2>3. ~IsTerminated(current_task)'
    BY <1>1, <1>2 DEF IsTerminated
  <2> QED BY <1>1, <2>1, <2>2, <2>3, LivesStep DEF Consistent
<1>12. Newborns'
  <2>1. ASSUME NEW x \in Tasks, newborn[x] # NoTask
        PROVE  /\ newborn[x] # current_task' /\ state'[newborn[x]] = "BLOCKED"
               /\ block_reason'[newborn[x]] = "SLEEP" /\ task_queue'[newborn[x]] = "none"
    BY <1>1, <1>7, <2>1, NewbornIs
  <2> QED BY <1>1, <1>6, <2>1, NewbornsStep, Zenon
<1>13. Waits'
  <2>1. ~resched[t] /\ preemption_counter > 0
    BY <1>1 DEF NobodyPreempted, PreemptionBalanced, NonPreemptible
  <2>2. ASSUME NEW x \in Tasks \ {t}, task_queue[x] = "wait"
        PROVE  state[x] \in {"BLOCKED", "BLOCKED_IDLING"} /\ block_reason[x] = "LOCK_WAIT"
    BY <1>1, <2>2 DEF Consistent, Waits
  <2>3. ASSUME NEW x \in Tasks, task_queue'[x] = "wait"
        PROVE  \/ state'[x] \in {"BLOCKED", "BLOCKED_IDLING"} /\ block_reason'[x] = "LOCK_WAIT"
               \/ /\ x = current_task' /\ state'[x] = "RUNNING" /\ pc'[x] = "wait_block"
                  /\ ~resched'[x] /\ preemption_counter' > 0
    <3>1. CASE x = t
      BY <1>1, <1>2, <1>6, <2>1, <3>1
    <3>2. CASE x # t
      BY <1>1, <1>7, <2>2, <2>3, <3>2
    <3> QED BY <3>1, <3>2
  <2> QED BY <2>3, Zenon DEF Waits
<1>14. QueuesAgree'
  <2>1. \A x \in Tasks : /\ task_queue'[x] = "ready" <=> task_queue[x] = "ready"
                         /\ task_queue'[x] = "sleep" <=> task_queue[x] = "sleep"
    BY <1>3, <1>7
  <2> QED BY <1>1, <2>1, Zenon DEF Consistent, QueuesAgree, IsTerminated, queueVars
<1>15. RefCountExact'
  <2>1. ref_count[t] = refs[t] + 0 /\ refs[t] \in Nat
    BY <1>3 DEF Consistent, RefCountExact, TypeOK
  <2>2. ref_count'[t] = refs'[t] + 1
    BY <1>1, <1>8, <2>1
  <2> QED BY <1>1, <1>7, <1>8, <2>2, Zenon DEF Consistent, RefCountExact
<1> QED BY <1>1, <1>3, <1>5, <1>6, <1>9, <1>10, <1>11, <1>12, <1>13, <1>14, <1>15, Frame
        DEF Consistent, queueVars, timeVars, irqVars

\* __semaphore_signal(): task_queue_dequeue() takes a blocked task from the queue.
LEMMA SignalDequeueInv ==
  ASSUME LockInv, NEW t \in Tasks, SignalDequeue(t), waiting_tasks # <<>>
  PROVE  /\ Consistent' /\ Moves(t, "signal_unblock")
         /\ LET n == Head(waiting_tasks) IN
            /\ n \in Lockers \ {t} /\ n \in Elems(waiting_tasks)
            /\ state[n] = "BLOCKED" /\ block_reason[n] = "LOCK_WAIT"
<1> USE DEF LockInv
<1> DEFINE n == Head(waiting_tasks)
<1>1. /\ t = current_task /\ irq = "none" /\ pc[t] = "signal_dequeue" /\ t \in Lockers
      /\ pc' = [pc EXCEPT ![t] = "signal_unblock"]
      /\ task_queue' = [task_queue EXCEPT ![n] = "none"]
      /\ ref_count' = [ref_count EXCEPT ![n] = @ - 1]
      /\ UNCHANGED <<current_task, state, block_reason, resched, refs, sleep_expiry, queueVars,
                     timeVars, preemption_counter, ret, newborn, irqVars, panic>>
  BY DEF SignalDequeue, At, Goto, Acquires, SemaphoreLabels, WaitLabels
<1>2. n \in Lockers /\ n \in Elems(waiting_tasks) /\ n \in Tasks
  BY TailList, LockingAssumption DEF LockTypeOK
<1> HIDE DEF n
<1>3. task_queue[n] = "wait"
  BY <1>2 DEF WaitQueueAgrees
<1>4. n # t /\ state[n] = "BLOCKED" /\ block_reason[n] = "LOCK_WAIT" /\ n # Cleaner
  <2>1. state[n] \in {"BLOCKED", "BLOCKED_IDLING"} /\ block_reason[n] = "LOCK_WAIT"
    BY <1>1, <1>2, <1>3 DEF Consistent, Waits
  <2>2. state[t] = "RUNNING" /\ n # Cleaner
    BY <1>1, <1>3 DEF Consistent, Labels, InYield, Lives
  <2> QED BY <1>1, <1>2, <2>1, <2>2, Zenon DEF Consistent, OneRunning
<1>5. Moves(t, "signal_unblock")
  BY <1>1 DEF Moves, SemaphoreLabels, WaitLabels, queueVars, timeVars
<1>6. /\ pc' \in [Tasks -> TaskLabels] /\ pc'[t] = "signal_unblock" /\ state[t] = "RUNNING"
      /\ \A x \in Tasks : InYield(x)' <=> InYield(x)
      /\ \A x \in Tasks : pc'[x] = "create" <=> pc[x] = "create"
      /\ Phases' /\ OnlyLate'
      /\ t # Cleaner /\ ~InYield(t) /\ \A x \in Tasks \ {t} : pc'[x] = pc[x]
  BY <1>5, MovesLabels, Zenon DEF Consistent
<1>7. /\ task_queue' \in [Tasks -> {"none", "ready", "sleep", "wait"}]
      /\ task_queue'[n] = "none" /\ \A x \in Tasks \ {n} : task_queue'[x] = task_queue[x]
  BY <1>1, <1>2 DEF Consistent, TypeOK
<1>8. /\ ref_count' \in [Tasks -> Int]
      /\ ref_count'[n] = ref_count[n] - 1 /\ \A x \in Tasks \ {n} : ref_count'[x] = ref_count[x]
  BY <1>1, <1>2 DEF Consistent, TypeOK
<1>9. TypeOK'
  BY <1>1, <1>6, <1>7, <1>8, Zenon DEF Consistent, TypeOK, irqVars, queueVars, timeVars
<1>10. Labels'
  BY <1>1, <1>6 DEF Consistent, Labels, InYield, Tasks
<1>11. Lives'
  <2>1. task_queue'[Cleaner] \in {"none", "ready"}
    BY <1>4, <1>7, Zenon DEF Consistent, Lives, Tasks
  <2>2. \A x \in Tasks : block_reason[x] = "TERMINATED" => state'[x] = state[x] /\ InYield(x)'
    BY <1>1, <1>6, Zenon DEF Consistent, Lives
  <2>3. ~IsTerminated(current_task)'
    BY <1>1, <1>6, Zenon DEF IsTerminated
  <2> QED BY <1>1, <2>1, <2>2, <2>3, LivesStep DEF Consistent
<1>12. Newborns'
  <2>1. ASSUME NEW x \in Tasks, newborn[x] # NoTask
        PROVE  /\ newborn[x] # current_task' /\ state'[newborn[x]] = "BLOCKED"
               /\ block_reason'[newborn[x]] = "SLEEP" /\ task_queue'[newborn[x]] = "none"
    BY <1>1, <1>7, <2>1, NewbornIs, Zenon
  <2> QED BY <1>1, <1>6, <2>1, NewbornsStep, Zenon
<1>13. Waits'
  <2>1. \A x \in Tasks : task_queue'[x] = "wait" => task_queue[x] = "wait"
    BY <1>7
  <2> QED BY <1>1, <2>1, WaitsStep, Zenon
<1>14. QueuesAgree'
  <2>1. \A x \in Tasks : /\ task_queue'[x] = "ready" <=> task_queue[x] = "ready"
                         /\ task_queue'[x] = "sleep" <=> task_queue[x] = "sleep"
    BY <1>3, <1>7
  <2> QED BY <1>1, <2>1, Zenon DEF Consistent, QueuesAgree, IsTerminated, queueVars
<1>15. RefCountExact'
  <2>1. ref_count[n] = refs[n] + 1 /\ refs[n] \in Nat
    BY <1>2, <1>3 DEF Consistent, RefCountExact, TypeOK
  <2>2. ref_count'[n] = refs'[n] + 0
    BY <1>1, <1>8, <2>1
  <2> QED BY <1>1, <1>7, <1>8, <2>2, Zenon DEF Consistent, RefCountExact
<1>16. Consistent'
  BY <1>1, <1>6, <1>9, <1>10, <1>11, <1>12, <1>13, <1>14, <1>15, Frame
     DEF Consistent, queueVars, timeVars, irqVars
<1> QED BY <1>2, <1>4, <1>5, <1>16 DEF n

\* __semaphore_signal(): scheduler_unblock_task() takes effect.
LEMMA SignalUnblockInv ==
  ASSUME LockInv, NEW t \in Tasks, SignalUnblock(t)
  PROVE  /\ Consistent' /\ Moves(t, "signal_enable")
         /\ woken[t] \in Tasks \ {t} /\ Enqueued(woken[t])
         /\ state[woken[t]] = "BLOCKED" /\ task_queue[woken[t]] = "none"
<1> USE DEF LockInv
<1> DEFINE n == woken[t]
<1>1. /\ t = current_task /\ irq = "none" /\ pc[t] = "signal_unblock" /\ t \in Lockers
      /\ pc' = [pc EXCEPT ![t] = "signal_enable"]
      /\ UNCHANGED newborn
  BY Zenon DEF SignalUnblock, At, Goto, Acquires, SemaphoreLabels, WaitLabels
<1>2. /\ n \in Lockers /\ n \in Tasks /\ state[n] = "BLOCKED" /\ block_reason[n] = "LOCK_WAIT"
      /\ task_queue[n] = "none"
  BY <1>1, LockingAssumption, Zenon DEF WokenStaysBlocked
<1>3. state[t] = "RUNNING" /\ n # current_task
  BY <1>1, <1>2, Zenon DEF Consistent, Labels, InYield
<1>4. Enqueued(n) /\ UNCHANGED panic
  BY <1>2, <1>3, Zenon DEF SignalUnblock, UnblockLocked, Enqueued, KAssert, PlannedPreemption,
       NotIdling,
       Enqueue
<1> HIDE DEF n
<1>5. Moves(t, "signal_enable")
  BY <1>1, <1>4 DEF Moves, Enqueued, SemaphoreLabels, WaitLabels
<1>6. /\ pc' \in [Tasks -> TaskLabels] /\ pc'[t] = "signal_enable"
      /\ \A x \in Tasks : InYield(x)' <=> InYield(x)
      /\ \A x \in Tasks : pc'[x] = "create" <=> pc[x] = "create"
      /\ Phases' /\ OnlyLate'
      /\ t # Cleaner /\ ~InYield(t) /\ \A x \in Tasks \ {t} : pc'[x] = pc[x]
  BY <1>5, MovesLabels, Zenon DEF Consistent
<1>7. EnqueuedEffect(n) /\ UNCHANGED <<current_task, block_reason, resched, ret>>
  BY <1>2, <1>3, <1>4, EnqueuedHasEffect, Zenon DEF Enqueued
<1>8. TypeOK'
  BY <1>1, <1>4, <1>6, <1>7, Zenon DEF Consistent, EnqueuedEffect, Enqueued, TypeOK, irqVars
<1>9. Labels'
  BY <1>1, <1>3, <1>6, <1>7 DEF Consistent, EnqueuedEffect, Labels, InYield, Tasks
<1>10. Lives'
  <2>1. \A x \in Tasks : block_reason[x] = "TERMINATED" => state'[x] = state[x] /\ InYield(x)'
    BY <1>6, <1>7, Zenon DEF Consistent, EnqueuedEffect, Lives
  <2>2. /\ task_queue'[Cleaner] \in {"none", "ready"} /\ ready_queue' # <<>>
        /\ \A x \in Tasks : state'[x] = "NONE" => state[x] = "NONE"
    <3>1. Cleaner \in Tasks
      BY DEF Tasks
    <3> QED BY <1>7, <3>1, Zenon DEF Consistent, EnqueuedEffect, Lives
  <2> QED BY <1>7, <2>1, <2>2, LivesStep, Zenon
<1>11. Newborns'
  <2>1. ASSUME NEW x \in Tasks, newborn[x] # NoTask
        PROVE  /\ newborn[x] # current_task' /\ state'[newborn[x]] = "BLOCKED"
               /\ block_reason'[newborn[x]] = "SLEEP" /\ task_queue'[newborn[x]] = "none"
    <3>1. /\ newborn[x] \in Tasks \ {n, current_task} /\ state[newborn[x]] = "BLOCKED"
          /\ block_reason[newborn[x]] = "SLEEP" /\ task_queue[newborn[x]] = "none"
      BY <1>2, <2>1, NewbornIs
    <3>2. state'[newborn[x]] = state[newborn[x]] /\ task_queue'[newborn[x]] = task_queue[newborn[x]]
      BY <1>7, <3>1, Zenon DEF EnqueuedEffect
    <3> QED BY <1>7, <3>1, <3>2, Zenon
  <2> QED BY <1>1, <1>6, <2>1, NewbornsStep, Zenon
<1>12. Waits'
  BY <1>1, <1>2, <1>3, <1>4, EnqueuedWaits
<1>13. (/\ Loops /\ AlarmSet /\ QueuesAgree /\ RefCountExact /\ OneRunning
        /\ IdleOnlyIfNothingReady /\ Planned /\ SleeperHasAlarm)'
  BY <1>2, <1>3, <1>4, EnqueuedInv
<1>14. Consistent'
  BY <1>6, <1>8, <1>9, <1>10, <1>11, <1>12, <1>13 DEF Consistent
<1> QED BY <1>1, <1>2, <1>3, <1>4, <1>5, <1>14, Zenon DEF n

-----------------------------------------------------------------------------
\* The labels, the permits and the disabled preemption agree after a step in locking.c.
LEMMA MovesBalanced ==
  ASSUME LockInv, NEW t, NEW l, Moves(t, l), state'[t] = state[t],
         preemption_counter' = IF l \in NonPreemptible THEN 1 ELSE 0,
         \A x \in Tasks \ {t} : current'[x] = current[x] /\ held'[x] = held[x],
         l = "wait_exchange" => current'[t] > 0,
         l \in WaitLabels => ~held'[t]
  PROVE  (PreemptionBalanced /\ NobodyPreempted /\ Acquires)'
<1> USE DEF LockInv
<1>1. /\ t = current_task /\ current_task' = t /\ irq = "none" /\ t \in Lockers
      /\ pc[t] \in SemaphoreLabels \union {"run"} /\ l \in SemaphoreLabels \union {"run"}
      /\ UNCHANGED <<resched, ret>>
  BY DEF Moves
<1>2. /\ pc'[t] = l /\ t \in Tasks /\ state[t] = "RUNNING" /\ ~InYield(t)
      /\ \A x \in Tasks : InYield(x)' <=> InYield(x)
      /\ \A x \in Tasks \ {t} : pc'[x] = pc[x]
  BY MovesLabels, Zenon
<1>3. ~resched[t]
  BY <1>1, <1>2, Zenon DEF NobodyPreempted
<1>4. PreemptionBalanced'
  BY <1>1, <1>2 DEF PreemptionBalanced
<1>5. \A x \in Tasks : pc'[x] \in NonPreemptible => x = current_task'
  BY <1>1, <1>2 DEF NobodyPreempted
<1>6. NobodyPreempted'
  BY <1>1, <1>2, <1>3, <1>5, Zenon DEF NobodyPreempted
<1>7. Acquires'
  <2>1. ASSUME NEW x \in Tasks \ {t}
        PROVE  /\ pc'[x] = "wait_exchange" => current'[x] > 0
               /\ pc'[x] \in SemaphoreLabels \/ held'[x] => x \in Lockers
               /\ ret'[x] = "wait_again" /\ InYield(x)' => x \in Lockers
               /\ pc'[x] \in WaitLabels => ~held'[x]
               /\ InYield(x)' /\ ret'[x] = "wait_again" => ~held'[x]
    BY <1>1, <1>2, Zenon DEF Acquires
  <2> QED BY <1>1, <1>2, <2>1, Zenon DEF Acquires
<1> QED BY <1>4, <1>6, <1>7

\* Only the current task can be between task_queue_dequeue() and scheduler_unblock_task().
LEMMA NoneWoken ==
  ASSUME LockInv, pc[current_task] # "signal_unblock", NEW x \in Tasks
  PROVE  woken[x] = NoTask /\ pc[x] # "signal_unblock"
BY DEF LockInv, NobodyPreempted, NonPreemptible, WokenStaysBlocked

\* A step outside scheduler_unblock_task() leaves no task that is woken and in no queue.
LEMMA StillNoneWoken ==
  ASSUME LockInv, NEW t, NEW l, Moves(t, l), pc[t] # "signal_unblock", l # "signal_unblock",
         UNCHANGED woken
  PROVE  WokenStaysBlocked'
<1>1. t = current_task /\ pc'[t] = l /\ \A x \in Tasks \ {t} : pc'[x] = pc[x]
  BY MovesLabels, Zenon DEF LockInv, Moves
<1>2. \A x \in Tasks : woken'[x] = NoTask /\ pc'[x] # "signal_unblock"
  BY <1>1, NoneWoken
<1> QED BY <1>2, Zenon DEF WokenStaysBlocked

\* What a step that does not touch the queue of the semaphore preserves.
LEMMA QueueStays ==
  ASSUME LockInv, Consistent', UNCHANGED <<waiting_tasks, task_queue>>
  PROVE  WaitQueueAgrees'
BY DEF LockInv, Consistent, WaitQueueAgrees

-----------------------------------------------------------------------------
\* __semaphore_wait(): the loads and the exchange.
LEMMA WaitLoadLock ==
  ASSUME LockInv, NEW t \in Tasks, WaitLoad(t)
  PROVE  LockInv'
<1> USE DEF LockInv
<1> DEFINE l == IF count = 0 THEN "wait_disable" ELSE "wait_exchange"
<1>1. /\ t \in Lockers /\ t = current_task /\ irq = "none" /\ pc[t] \in {"run", "wait_again"}
      /\ ~held[t] /\ current' = [current EXCEPT ![t] = count] /\ pc' = [pc EXCEPT ![t] = l]
      /\ UNCHANGED <<current_task, taskVars, queueVars, timeVars, preemption_counter, ret,
                     newborn, irqVars, panic, count, waiting_tasks, woken, held>>
  BY DEF WaitLoad, At, OnlyGoto, Goto, Acquires, WaitLabels
<1>2. l \in {"wait_disable", "wait_exchange"} /\ (l = "wait_exchange" => count > 0) /\ count \in Nat
  BY DEF LockTypeOK
<1> HIDE DEF l
<1>3. Moves(t, l)
  BY <1>1, <1>2 DEF Moves, SemaphoreLabels, WaitLabels, taskVars, queueVars, timeVars
<1>4. preemption_counter = 0
  BY <1>1 DEF PreemptionBalanced, NonPreemptible, InYield, Consistent, TypeOK
<1>5. Consistent'
  BY <1>1, <1>3, <1>4, MovesInv DEF taskVars, queueVars, timeVars
<1>6. /\ current' \in [Tasks -> Nat] /\ current'[t] = count
      /\ \A x \in Tasks \ {t} : current'[x] = current[x]
  BY <1>1, <1>2 DEF LockTypeOK
<1>7. (PreemptionBalanced /\ NobodyPreempted /\ Acquires)'
  BY <1>1, <1>2, <1>3, <1>4, <1>6, MovesBalanced DEF NonPreemptible, taskVars
<1>8. WokenStaysBlocked'
  BY <1>1, <1>2, <1>3, StillNoneWoken
<1>9. WaitQueueAgrees'
  BY <1>1, <1>5, QueueStays DEF taskVars
<1>10. LockTypeOK'
  BY <1>1, <1>6 DEF LockTypeOK
<1> QED BY <1>5, <1>7, <1>8, <1>9, <1>10

\* The compare-and-exchange of semaphore_wait(): on success the task is in a critical section.
LEMMA WaitExchangeLock ==
  ASSUME LockInv, NEW t \in Tasks, WaitExchange(t)
  PROVE  LockInv'
<1> USE DEF LockInv
<1>1. /\ t \in Lockers /\ t = current_task /\ irq = "none" /\ pc[t] = "wait_exchange"
      /\ ~held[t] /\ current[t] > 0 /\ UNCHANGED <<waiting_tasks, woken>>
  BY DEF WaitExchange, At, Acquires, WaitLabels, SemaphoreLabels
<1>2. preemption_counter = 0
  BY <1>1 DEF PreemptionBalanced, NonPreemptible, InYield, Consistent, TypeOK
<1>3. PICK l \in {"run", "wait_disable", "wait_exchange"} :
        /\ OnlyGoto(t, l)
        /\ \/ /\ l = "run" /\ count = current[t] /\ count' = count - 1
              /\ current' = [current EXCEPT ![t] = 0] /\ held' = [held EXCEPT ![t] = TRUE]
           \/ /\ l = IF count = 0 THEN "wait_disable" ELSE "wait_exchange"
              /\ current' = [current EXCEPT ![t] = count] /\ UNCHANGED <<count, held>>
  <2>1. CASE Exchanges(t)
    BY <2>1 DEF WaitExchange, Exchanges
  <2>2. CASE ~Exchanges(t)
    BY <2>2 DEF WaitExchange
  <2> QED BY <2>1, <2>2
<1>4. /\ pc' = [pc EXCEPT ![t] = l]
      /\ UNCHANGED <<current_task, taskVars, queueVars, timeVars, preemption_counter, ret,
                     newborn, irqVars, panic>>
  BY <1>3 DEF OnlyGoto, Goto
<1>5. Moves(t, l)
  BY <1>1, <1>3, <1>4 DEF Moves, SemaphoreLabels, WaitLabels, taskVars, queueVars, timeVars
<1>6. Consistent'
  BY <1>1, <1>2, <1>4, <1>5, MovesInv DEF taskVars, queueVars, timeVars
<1>7. /\ count \in Nat /\ current \in [Tasks -> Nat] /\ held \in [Tasks -> BOOLEAN]
  BY DEF LockTypeOK
<1>8. /\ current' \in [Tasks -> Nat] /\ held' \in [Tasks -> BOOLEAN]
      /\ \A x \in Tasks \ {t} : current'[x] = current[x] /\ held'[x] = held[x]
  <2>1. CASE held' = held /\ current' = [current EXCEPT ![t] = count]
    BY <1>7, <2>1
  <2>2. CASE held' = [held EXCEPT ![t] = TRUE] /\ current' = [current EXCEPT ![t] = 0]
    BY <1>7, <2>2
  <2> QED BY <1>3, <2>1, <2>2
<1>9. /\ count' \in Nat /\ (l = "wait_exchange" => current'[t] > 0)
      /\ (l \in WaitLabels => ~held'[t])
  <2>1. CASE l = "run"
    <3>1. count = current[t] /\ count' = count - 1 /\ l \notin WaitLabels
      BY <1>3, <2>1 DEF WaitLabels
    <3> QED BY <1>1, <1>7, <2>1, <3>1
  <2>2. CASE l # "run"
    <3>1. /\ l = IF count = 0 THEN "wait_disable" ELSE "wait_exchange"
          /\ current' = [current EXCEPT ![t] = count] /\ UNCHANGED <<count, held>>
      BY <1>3, <2>2
    <3> QED BY <1>1, <1>7, <3>1
  <2> QED BY <2>1, <2>2
<1>10. (PreemptionBalanced /\ NobodyPreempted /\ Acquires)'
  BY <1>1, <1>2, <1>3, <1>4, <1>5, <1>8, <1>9, MovesBalanced DEF NonPreemptible, taskVars
<1>11. WokenStaysBlocked'
  BY <1>1, <1>3, <1>5, StillNoneWoken
<1>12. WaitQueueAgrees'
  BY <1>1, <1>4, <1>6, QueueStays DEF taskVars
<1>14. LockTypeOK'
  BY <1>1, <1>8, <1>9 DEF LockTypeOK
<1> QED BY <1>6, <1>10, <1>11, <1>12, <1>14

\* __semaphore_wait(): enqueue and block, with preemption disabled.
LEMMA WaitEnqueueLock ==
  ASSUME LockInv, NEW t \in Tasks, WaitEnqueue(t)
  PROVE  LockInv'
<1> USE DEF LockInv
<1>1. /\ t \in Lockers /\ t = current_task /\ pc[t] = "wait_enqueue" /\ ~held[t]
      /\ waiting_tasks' = Append(waiting_tasks, t)
      /\ task_queue' = [task_queue EXCEPT ![t] = "wait"]
      /\ UNCHANGED <<state, preemption_counter, count, current, woken, held>>
  BY Zenon DEF WaitEnqueue, At, Acquires, WaitLabels, SemaphoreLabels, Enqueue
<1>2. Consistent' /\ task_queue[t] = "none" /\ Moves(t, "wait_block")
  BY WaitEnqueueInv
<1>3. /\ waiting_tasks \in Seq(Lockers) /\ NoDuplicates(waiting_tasks)
      /\ t \notin Elems(waiting_tasks)
  BY <1>2 DEF LockTypeOK, WaitQueueAgrees
<1>4. /\ waiting_tasks' \in Seq(Lockers) /\ NoDuplicates(waiting_tasks')
      /\ Elems(waiting_tasks') = Elems(waiting_tasks) \union {t}
  <2>1. /\ Append(waiting_tasks, t) \in Seq(Lockers)
        /\ Elems(Append(waiting_tasks, t)) = Elems(waiting_tasks) \union {t}
        /\ NoDuplicates(Append(waiting_tasks, t))
    <3>1. waiting_tasks \in Seq(Lockers) /\ t \in Lockers
      BY <1>1, <1>3
    <3>2. NoDuplicates(waiting_tasks) /\ t \notin Elems(waiting_tasks)
      BY <1>3
    <3> HIDE DEF LockInv
    <3> QED BY <3>1, <3>2, AppendList
  <2> QED BY <1>1, <2>1, Zenon
<1>5. WaitQueueAgrees'
  BY <1>1, <1>2, <1>4, Zenon DEF WaitQueueAgrees, Consistent, TypeOK
<1>6. preemption_counter = 1
  BY <1>1, Zenon DEF PreemptionBalanced, NonPreemptible
<1>7. (PreemptionBalanced /\ NobodyPreempted /\ Acquires)'
  BY <1>1, <1>2, <1>6, MovesBalanced, Zenon DEF NonPreemptible
<1>8. WokenStaysBlocked'
  BY <1>1, <1>2, StillNoneWoken, Zenon
<1>9. LockTypeOK'
  BY <1>1, <1>4 DEF LockTypeOK
<1> QED BY <1>2, <1>5, <1>7, <1>8, <1>9

\* scheduler_block_task() of semaphore_wait(), after the task was queued.
LEMMA WaitBlockLock ==
  ASSUME LockInv, NEW t \in Tasks, WaitBlock(t)
  PROVE  LockInv'
<1> USE DEF LockInv
<1>1. /\ t \in Lockers /\ t = current_task /\ irq = "none" /\ pc[t] = "wait_block" /\ ~held[t]
      /\ BlockTask(t, "LOCK_WAIT", "wait_again") /\ UNCHANGED lockVars /\ t # Cleaner
  BY LockingAssumption, Zenon DEF WaitBlock, At, Acquires, WaitLabels, SemaphoreLabels
<1>2. ~InYield(t) /\ state[t] = "RUNNING"
  BY <1>1 DEF InYield, Consistent, Labels
<1>3. Consistent'
  BY <1>1, <1>2, BlockTaskInv
<1>4. /\ \A x \in Tasks \ {t} : /\ pc'[x] = pc[x] /\ ret'[x] = ret[x] /\ state'[x] = state[x]
                                /\ block_reason'[x] = block_reason[x]
      /\ pc'[t] = "yield" /\ ret'[t] = "wait_again" /\ state'[t] = "BLOCKED"
      /\ UNCHANGED <<current_task, resched, task_queue, preemption_counter, irqVars>>
  BY <1>1 DEF BlockTask, MarkBlocked, CallYield, Goto, Consistent, TypeOK
<1>5. \A x \in Tasks : pc'[x] \notin NonPreemptible
  BY <1>1, <1>4, Zenon DEF NobodyPreempted, NonPreemptible
<1>6. preemption_counter = 1
  BY <1>1 DEF PreemptionBalanced, NonPreemptible
<1>7. PreemptionBalanced'
  BY <1>1, <1>4, <1>5, <1>6, Zenon DEF PreemptionBalanced, InYield
<1>8. NobodyPreempted'
  BY <1>1, <1>4, <1>5, <1>6, Zenon DEF NobodyPreempted, InYield
<1>9. Acquires'
  <2>1. ASSUME NEW x \in Tasks \ {t}
        PROVE  /\ pc'[x] = "wait_exchange" => current'[x] > 0
               /\ pc'[x] \in SemaphoreLabels \/ held'[x] => x \in Lockers
               /\ ret'[x] = "wait_again" /\ InYield(x)' => x \in Lockers
               /\ pc'[x] \in WaitLabels => ~held'[x]
               /\ InYield(x)' /\ ret'[x] = "wait_again" => ~held'[x]
    BY <1>1, <1>4, Zenon DEF Acquires, InYield, lockVars
  <2>2. "yield" \notin SemaphoreLabels /\ "yield" \notin WaitLabels
    BY DEF SemaphoreLabels, WaitLabels
  <2>3. ~held'[t] /\ pc'[t] # "wait_exchange"
    BY <1>1, <1>4, Zenon DEF lockVars
  <2> QED BY <1>1, <1>4, <2>1, <2>2, <2>3, Zenon DEF Acquires
<1>10. WokenStaysBlocked'
  <2>1. \A x \in Tasks : woken'[x] = NoTask /\ pc'[x] # "signal_unblock"
    BY <1>1, <1>4, NoneWoken DEF lockVars
  <2> QED BY <2>1, Zenon DEF WokenStaysBlocked
<1>11. WaitQueueAgrees'
  BY <1>1, <1>3, <1>4, QueueStays DEF lockVars
<1>12. LockTypeOK'
  BY <1>1 DEF LockTypeOK, lockVars
<1> QED BY <1>3, <1>7, <1>8, <1>9, <1>10, <1>11, <1>12

\* scheduler_disable_preemption(), in both functions.
LEMMA DisableLock ==
  ASSUME LockInv, NEW t \in Tasks, WaitDisable(t) \/ SignalDisable(t)
  PROVE  LockInv'
<1> USE DEF LockInv
<1>1. PICK l \in {"wait_enqueue", "signal_dequeue"} :
        /\ pc[t] = (IF l = "wait_enqueue" THEN "wait_disable" ELSE "signal_disable")
        /\ pc' = [pc EXCEPT ![t] = l]
  BY DEF WaitDisable, SignalDisable, At, Goto
<1>2. /\ t = current_task /\ irq = "none" /\ preemption_counter' = preemption_counter + 1
      /\ UNCHANGED <<current_task, taskVars, queueVars, timeVars, ret, newborn, irqVars, panic,
                     lockVars>>
  BY DEF WaitDisable, SignalDisable, At
<1>3. t \in Lockers /\ (l \in WaitLabels => ~held[t])
  BY <1>1 DEF Acquires, WaitLabels, SemaphoreLabels
<1>4. Moves(t, l)
  BY <1>1, <1>2, <1>3 DEF Moves, SemaphoreLabels, WaitLabels, taskVars, queueVars, timeVars
<1>5. preemption_counter = 0
  BY <1>1, <1>2 DEF PreemptionBalanced, NonPreemptible, InYield, Consistent, TypeOK
<1>6. Consistent'
  BY <1>1, <1>2, <1>4, <1>5, MovesInv DEF taskVars, queueVars, timeVars
<1>7. (PreemptionBalanced /\ NobodyPreempted /\ Acquires)'
  BY <1>2, <1>3, <1>4, <1>5, MovesBalanced DEF NonPreemptible, taskVars, lockVars
<1>8. WokenStaysBlocked'
  BY <1>1, <1>2, <1>4, StillNoneWoken DEF lockVars
<1>9. WaitQueueAgrees'
  BY <1>2, <1>6, QueueStays DEF taskVars, lockVars
<1>10. LockTypeOK'
  BY <1>2 DEF LockTypeOK, lockVars
<1> QED BY <1>6, <1>7, <1>8, <1>9, <1>10

\* __semaphore_signal(): the permit comes back, ...
LEMMA SignalAddLock ==
  ASSUME LockInv, NEW t \in Tasks, SignalAdd(t)
  PROVE  LockInv'
<1> USE DEF LockInv
<1>1. /\ t \in Lockers /\ t = current_task /\ irq = "none" /\ pc[t] = "run" /\ held[t]
      /\ count' = count + 1 /\ held' = [held EXCEPT ![t] = FALSE]
      /\ pc' = [pc EXCEPT ![t] = "signal_disable"]
      /\ UNCHANGED <<current_task, taskVars, queueVars, timeVars, preemption_counter, ret,
                     newborn, irqVars, panic, waiting_tasks, current, woken>>
  BY DEF SignalAdd, At, OnlyGoto, Goto, Acquires
<1>2. Moves(t, "signal_disable")
  BY <1>1 DEF Moves, SemaphoreLabels, WaitLabels, taskVars, queueVars, timeVars
<1>3. preemption_counter = 0
  BY <1>1 DEF PreemptionBalanced, NonPreemptible, InYield, Consistent, TypeOK
<1>4. Consistent'
  BY <1>1, <1>2, <1>3, MovesInv DEF taskVars, queueVars, timeVars
<1>5. /\ count' \in Nat /\ held' \in [Tasks -> BOOLEAN]
      /\ \A x \in Tasks \ {t} : held'[x] = held[x]
  BY <1>1 DEF LockTypeOK
<1>6. (PreemptionBalanced /\ NobodyPreempted /\ Acquires)'
  BY <1>1, <1>2, <1>3, <1>5, MovesBalanced, Zenon DEF NonPreemptible, WaitLabels, taskVars
<1>7. WokenStaysBlocked'
  BY <1>1, <1>2, StillNoneWoken
<1>8. WaitQueueAgrees'
  BY <1>1, <1>4, QueueStays DEF taskVars
<1>9. LockTypeOK'
  BY <1>1, <1>5 DEF LockTypeOK
<1> QED BY <1>4, <1>6, <1>7, <1>8, <1>9

\* ... the first waiting task leaves the queue, if there is one, ...
LEMMA SignalDequeueLock ==
  ASSUME LockInv, NEW t \in Tasks, SignalDequeue(t)
  PROVE  LockInv'
<1> USE DEF LockInv
<1>1. /\ t \in Lockers /\ t = current_task /\ irq = "none" /\ pc[t] = "signal_dequeue"
      /\ UNCHANGED <<current_task, state, block_reason, resched, refs, sleep_expiry, queueVars,
                     timeVars, preemption_counter, ret, newborn, irqVars, panic, count, current,
                     held>>
  BY Zenon DEF SignalDequeue, At, Acquires, SemaphoreLabels, WaitLabels
<1>2. preemption_counter = 1
  BY <1>1 DEF PreemptionBalanced, NonPreemptible
<1>3. CASE waiting_tasks = <<>>
  <2>1. /\ pc' = [pc EXCEPT ![t] = "signal_enable"]
        /\ UNCHANGED <<waiting_tasks, woken, task_queue, ref_count>>
    BY <1>3 DEF SignalDequeue, Goto
  <2>2. Moves(t, "signal_enable")
    BY <1>1, <2>1 DEF Moves, SemaphoreLabels, WaitLabels, queueVars, timeVars
  <2>3. Consistent'
    BY <1>1, <1>2, <2>1, <2>2, MovesInv DEF queueVars, timeVars
  <2>4. (PreemptionBalanced /\ NobodyPreempted /\ Acquires)'
    BY <1>1, <1>2, <2>2, MovesBalanced, Zenon DEF NonPreemptible, WaitLabels
  <2>5. WokenStaysBlocked'
    BY <1>1, <2>1, <2>2, StillNoneWoken
  <2>6. WaitQueueAgrees'
    BY <2>1, <2>3, QueueStays
  <2>7. LockTypeOK'
    BY <1>1, <2>1 DEF LockTypeOK
  <2> QED BY <2>3, <2>4, <2>5, <2>6, <2>7
<1>4. CASE waiting_tasks # <<>>
  <2> DEFINE n == Head(waiting_tasks)
  <2>1. /\ waiting_tasks' = Tail(waiting_tasks) /\ woken' = [woken EXCEPT ![t] = n]
        /\ task_queue' = [task_queue EXCEPT ![n] = "none"]
    BY <1>4 DEF SignalDequeue
  <2>2. /\ Consistent' /\ Moves(t, "signal_unblock")
        /\ n \in Lockers \ {t} /\ n \in Elems(waiting_tasks)
        /\ state[n] = "BLOCKED" /\ block_reason[n] = "LOCK_WAIT"
    BY <1>4, SignalDequeueInv
  <2>3. waiting_tasks \in Seq(Lockers) /\ NoDuplicates(waiting_tasks)
    BY DEF LockTypeOK, WaitQueueAgrees
  <2>4. /\ waiting_tasks' \in Seq(Lockers) /\ NoDuplicates(waiting_tasks')
        /\ Elems(waiting_tasks') = Elems(waiting_tasks) \ {n}
    BY <1>4, <2>1, <2>3, TailList
  <2> HIDE DEF n
  <2>5. /\ n \in Tasks /\ n # NoTask /\ task_queue'[n] = "none"
        /\ \A x \in Tasks \ {n} : task_queue'[x] = task_queue[x]
    <3>1. n \in Tasks /\ n # NoTask
      BY <2>2, LockingAssumption, TasksAssumption
    <3>2. task_queue \in [Tasks -> {"none", "ready", "sleep", "wait"}]
      BY Zenon DEF Consistent, TypeOK
    <3> QED BY <2>1, <3>1, <3>2, Zenon
  <2>6. WaitQueueAgrees'
    BY <2>2, <2>4, <2>5, Zenon DEF WaitQueueAgrees, Consistent
  <2>7. (PreemptionBalanced /\ NobodyPreempted /\ Acquires)'
    BY <1>1, <1>2, <2>2, MovesBalanced, Zenon DEF NonPreemptible, WaitLabels
  <2>8. /\ woken' \in [Tasks -> Tasks \union {NoTask}] /\ woken'[t] = n
        /\ \A x \in Tasks \ {t} : woken'[x] = NoTask
    <3>1. woken \in [Tasks -> Tasks \union {NoTask}] /\ \A x \in Tasks : woken[x] = NoTask
      BY <1>1, NoneWoken, Zenon DEF LockTypeOK
    <3> QED BY <2>1, <2>5, <3>1, Zenon
  <2>9. pc'[t] = "signal_unblock" /\ \A x \in Tasks \ {t} : pc'[x] # "signal_unblock"
    BY <1>1, <2>2, MovesLabels, NoneWoken, Zenon
  <2>10. WokenStaysBlocked'
    <3>1. state' = state /\ block_reason' = block_reason /\ n \in Tasks /\ n \in Lockers \ {t}
      BY <1>1, <2>2, <2>5
    <3> QED BY <2>2, <2>5, <2>8, <2>9, <3>1 DEF WokenStaysBlocked
  <2>11. LockTypeOK'
    BY <1>1, <2>4, <2>8 DEF LockTypeOK
  <2> QED BY <2>2, <2>6, <2>7, <2>10, <2>11, Zenon
<1> QED BY <1>3, <1>4

\* ... is unblocked, ...
LEMMA SignalUnblockLock ==
  ASSUME LockInv, NEW t \in Tasks, SignalUnblock(t)
  PROVE  LockInv'
<1> USE DEF LockInv
<1>1. /\ t = current_task /\ pc[t] = "signal_unblock"
      /\ woken' = [woken EXCEPT ![t] = NoTask]
      /\ UNCHANGED <<preemption_counter, count, waiting_tasks, current, held>>
  BY Zenon DEF SignalUnblock, At
<1>2. /\ Consistent' /\ Moves(t, "signal_enable")
      /\ woken[t] \in Tasks \ {t} /\ Enqueued(woken[t])
      /\ state[woken[t]] = "BLOCKED" /\ task_queue[woken[t]] = "none"
  BY SignalUnblockInv
<1>3. block_reason[woken[t]] = "LOCK_WAIT" /\ preemption_counter = 1
  BY <1>1 DEF WokenStaysBlocked, PreemptionBalanced, NonPreemptible
<1>4. EnqueuedEffect(woken[t])
  BY <1>1, <1>2, <1>3, EnqueuedHasEffect, Zenon
<1>5. /\ \A x \in Tasks : task_queue'[x] = "wait" <=> task_queue[x] = "wait"
      /\ state'[t] = state[t]
  <2>1. state[t] = "RUNNING"
    BY <1>2, MovesLabels, Zenon
  <2> QED BY <1>1, <1>2, <1>4, <2>1, Zenon DEF EnqueuedEffect
<1>6. WaitQueueAgrees'
  BY <1>1, <1>2, <1>5, Zenon DEF WaitQueueAgrees, Consistent
<1>7. (PreemptionBalanced /\ NobodyPreempted /\ Acquires)'
  BY <1>1, <1>2, <1>3, <1>5, MovesBalanced, Zenon DEF NonPreemptible, WaitLabels
<1>8. woken' \in [Tasks -> Tasks \union {NoTask}] /\ \A x \in Tasks : woken'[x] = NoTask
  <2>1. \A x \in Tasks \ {t} : woken[x] = NoTask
    BY <1>1, Zenon DEF WokenStaysBlocked, NobodyPreempted, NonPreemptible
  <2> QED BY <1>1, <2>1, Zenon DEF LockTypeOK
<1>9. WokenStaysBlocked'
  <2>1. \A x \in Tasks : pc'[x] # "signal_unblock"
    <3>1. pc'[t] = "signal_enable" /\ \A x \in Tasks \ {t} : pc'[x] = pc[x]
      BY <1>2, MovesLabels, Zenon
    <3> QED BY <1>1, <3>1, Zenon DEF NobodyPreempted, NonPreemptible
  <2> QED BY <1>8, <2>1, Zenon DEF WokenStaysBlocked
<1>10. LockTypeOK'
  BY <1>1, <1>8 DEF LockTypeOK
<1> QED BY <1>2, <1>6, <1>7, <1>9, <1>10, Zenon

\* ... and preemption is enabled again: the assertion of scheduler_enable_preemption() holds.
LEMMA SignalEnableLock ==
  ASSUME LockInv, NEW t \in Tasks, SignalEnable(t)
  PROVE  LockInv'
<1> USE DEF LockInv
<1>1. /\ t \in Lockers /\ t = current_task /\ irq = "none" /\ pc[t] = "signal_enable"
      /\ pc' = [pc EXCEPT ![t] = "run"]
      /\ UNCHANGED <<current_task, taskVars, queueVars, timeVars, ret, newborn, irqVars, lockVars>>
  BY Zenon DEF SignalEnable, At, Goto, Acquires, SemaphoreLabels, WaitLabels
<1>2. preemption_counter = 1
  BY <1>1, Zenon DEF PreemptionBalanced, NonPreemptible
<1>3. preemption_counter' = 0 /\ UNCHANGED panic
  BY <1>2 DEF SignalEnable, KAssert
<1>4. Moves(t, "run")
  BY <1>1, <1>3 DEF Moves, SemaphoreLabels, WaitLabels, taskVars, queueVars, timeVars
<1>5. Consistent'
  BY <1>1, <1>3, <1>4, MovesInv DEF taskVars, queueVars, timeVars
<1>6. (PreemptionBalanced /\ NobodyPreempted /\ Acquires)'
  BY <1>1, <1>3, <1>4, MovesBalanced, Zenon DEF NonPreemptible, WaitLabels, taskVars, lockVars
<1>7. WokenStaysBlocked'
  BY <1>1, <1>4, StillNoneWoken DEF lockVars
<1>8. WaitQueueAgrees'
  BY <1>1, <1>5, QueueStays DEF taskVars, lockVars
<1>9. LockTypeOK'
  BY <1>1 DEF LockTypeOK, lockVars
<1> QED BY <1>5, <1>6, <1>7, <1>8, <1>9

\* Every step of the two functions preserves the invariant.
LEMMA SemaphoreStepLock ==
  ASSUME LockInv, NEW t \in Tasks, SemaphoreStep(t)
  PROVE  LockInv'
BY WaitLoadLock, WaitExchangeLock, WaitEnqueueLock, WaitBlockLock, DisableLock, SignalAddLock,
   SignalDequeueLock, SignalUnblockLock, SignalEnableLock DEF SemaphoreStep

-----------------------------------------------------------------------------
\* What the steps of the scheduler leave alone: the queue of the semaphore, the labels in
\* locking.c, except for the return of scheduler_block_task(), and a task that was taken
\* from the queue.
Beside ==
  /\ \A x \in Tasks : task_queue'[x] = "wait" <=> task_queue[x] = "wait"
  /\ \A x \in Tasks : pc'[x] # pc[x] =>
       /\ pc[x] \notin SemaphoreLabels
       /\ pc'[x] \in SemaphoreLabels => pc'[x] = "wait_again" /\ InYield(x) /\ ret[x] = "wait_again"
  /\ \A x \in Tasks : InYield(x)' /\ ret'[x] = "wait_again" => InYield(x) /\ ret[x] = "wait_again"
  /\ \A x \in Tasks : /\ pc[current_task] \in NonPreemptible
                      /\ state[x] = "BLOCKED" /\ block_reason[x] = "LOCK_WAIT"
                      /\ task_queue[x] = "none"
       => state'[x] = "BLOCKED" /\ block_reason'[x] = "LOCK_WAIT" /\ task_queue'[x] = "none"

\* A step that leaves these alone keeps all of LockInv but the counter of preemption.
LEMMA BesideLock ==
  ASSUME LockInv, Consistent', UNCHANGED lockVars, Beside
  PROVE  /\ (LockTypeOK /\ WaitQueueAgrees /\ WokenStaysBlocked /\ Acquires)'
         /\ \A x \in Tasks : pc'[x] \in NonPreemptible => pc'[x] = pc[x] /\ x = current_task
<1> USE DEF LockInv
<1>1. LockTypeOK'
  BY DEF LockTypeOK, lockVars
<1>2. WaitQueueAgrees'
  BY Zenon DEF WaitQueueAgrees, Consistent, Beside, lockVars
<1>3. NonPreemptible \subseteq SemaphoreLabels \ {"wait_again"} /\ WaitLabels \subseteq SemaphoreLabels
  BY DEF NonPreemptible, SemaphoreLabels, WaitLabels
<1>4. \A x \in Tasks : pc'[x] \in NonPreemptible => pc'[x] = pc[x] /\ x = current_task
  BY <1>3, Zenon DEF Beside, NobodyPreempted
<1>5. WokenStaysBlocked'
  <2>1. "signal_unblock" \in NonPreemptible
    BY DEF NonPreemptible
  <2>2. ASSUME NEW x \in Tasks
        PROVE  pc'[x] = "signal_unblock" <=> pc[x] = "signal_unblock"
    BY <1>3, <1>4, <2>1, Zenon DEF Beside
  <2>3. ASSUME NEW x \in Tasks, woken[x] # NoTask
        PROVE  /\ woken[x] \in Lockers /\ state'[woken[x]] = "BLOCKED"
               /\ block_reason'[woken[x]] = "LOCK_WAIT" /\ task_queue'[woken[x]] = "none"
    <3>1. /\ woken[x] \in Lockers /\ woken[x] \in Tasks /\ state[woken[x]] = "BLOCKED"
          /\ block_reason[woken[x]] = "LOCK_WAIT" /\ task_queue[woken[x]] = "none"
          /\ pc[x] = "signal_unblock"
      BY <2>3, LockingAssumption, Zenon DEF WokenStaysBlocked
    <3>2. pc[current_task] \in NonPreemptible
      BY <2>1, <3>1, Zenon DEF NobodyPreempted
    <3> QED BY <3>1, <3>2, Zenon DEF Beside
  <2> QED BY <2>2, <2>3, Zenon DEF WokenStaysBlocked, lockVars
<1>6. Acquires'
  <2>1. ASSUME NEW x \in Tasks, pc'[x] \in SemaphoreLabels
        PROVE  \/ pc'[x] = pc[x]
               \/ pc'[x] = "wait_again" /\ InYield(x) /\ ret[x] = "wait_again"
    BY <2>1, Zenon DEF Beside
  <2>2. ASSUME NEW x \in Tasks
        PROVE  /\ pc'[x] = "wait_exchange" => current[x] > 0
               /\ pc'[x] \in SemaphoreLabels \/ held[x] => x \in Lockers
               /\ pc'[x] \in WaitLabels => ~held[x]
    <3>1. "wait_exchange" \in SemaphoreLabels
      BY DEF SemaphoreLabels, WaitLabels
    <3> QED BY <1>3, <2>1, <3>1, Zenon DEF Acquires
  <2>3. ASSUME NEW x \in Tasks, InYield(x)', ret'[x] = "wait_again"
        PROVE  x \in Lockers /\ ~held[x]
    BY <2>3, Zenon DEF Beside, Acquires
  <2> QED BY <2>2, <2>3, Zenon DEF Acquires, lockVars
<1> QED BY <1>1, <1>2, <1>4, <1>5, <1>6, Zenon

\* A task that is in neither of the functions and not in scheduler_yield() runs with
\* preemption enabled, and nothing has marked it.
LEMMA Unmarked ==
  ASSUME LockInv, irq \in {"none", "clean"}, ~InYield(current_task),
         pc[current_task] \notin NonPreemptible
  PROVE  preemption_counter = 0 /\ ~resched[current_task]
<1>1. current_task \in Tasks /\ preemption_counter \in Nat
  BY Zenon DEF LockInv, Consistent, TypeOK
<1>2. preemption_counter <= 1 /\ preemption_counter # 1
  BY DEF LockInv, PreemptionBalanced
<1>3. ~resched[current_task]
  BY Zenon DEF LockInv, NobodyPreempted
<1> QED BY <1>1, <1>2, <1>3

\* Such a task's own steps keep the whole invariant.
LEMMA UnmarkedLock ==
  ASSUME LockInv, Consistent', UNCHANGED lockVars, Beside, irq \in {"none", "clean"},
         ~InYield(current_task), pc[current_task] \notin NonPreemptible,
         UNCHANGED <<current_task, preemption_counter>>,
         resched'[current_task] = resched[current_task]
  PROVE  LockInv'
<1>1. preemption_counter' = 0 /\ ~resched'[current_task']
  BY Unmarked
<1>2. \A x \in Tasks : pc'[x] \notin NonPreemptible
  BY BesideLock, Zenon
<1>3. current_task' \in Tasks
  BY Zenon DEF Consistent, TypeOK
<1>4. PreemptionBalanced'
  BY <1>1, <1>2, <1>3 DEF PreemptionBalanced
<1>5. NobodyPreempted'
  BY <1>1, <1>2, <1>3 DEF NobodyPreempted
<1> QED BY <1>4, <1>5, BesideLock, Zenon DEF LockInv

\* An interrupt that does not end: it may mark the current task, unless the task has
\* preemption disabled.
LEMMA InterruptLock ==
  ASSUME LockInv, Consistent', UNCHANGED lockVars, Beside, irq' \notin {"none", "clean"},
         UNCHANGED <<current_task, preemption_counter, ret>>,
         \/ pc'[current_task] = pc[current_task]
         \/ pc[current_task] = "hlt" /\ pc'[current_task] = "woken",
         resched[current_task] => resched'[current_task],
         pc[current_task] \in NonPreemptible => resched'[current_task] = resched[current_task],
         state'[current_task] = "BLOCKED_IDLING" => state[current_task] = "BLOCKED_IDLING"
  PROVE  LockInv'
<1>1. \A x \in Tasks : pc'[x] \in NonPreemptible => x = current_task
  BY BesideLock, Zenon
<1>2. /\ InYield(current_task)' <=> InYield(current_task)
      /\ pc'[current_task] \in NonPreemptible <=> pc[current_task] \in NonPreemptible
      /\ pc'[current_task] = "yield" <=> pc[current_task] = "yield"
  BY Zenon DEF InYield, NonPreemptible
<1>3. PreemptionBalanced'
  BY <1>2, Zenon DEF LockInv, PreemptionBalanced
<1>4. NobodyPreempted'
  BY <1>1, <1>2, Zenon DEF LockInv, NobodyPreempted
<1> QED BY <1>3, <1>4, BesideLock, Zenon DEF LockInv

-----------------------------------------------------------------------------
\* The steps that change no task: interrupts begin and go on.
LEMMA PhaseLock ==
  ASSUME LockInv, Consistent', UNCHANGED lockVars,
         \/ ClockPulse \/ DeviceInterrupt \/ FireSleep \/ WakeDone \/ PulseDone \/ BottomDone
         \/ FirePreemption
  PROVE  LockInv'
<1> USE DEF LockInv
<1>1. /\ UNCHANGED <<current_task, state, block_reason, task_queue, preemption_counter, ret>>
      /\ irq' \notin {"none", "clean"}
      /\ EndHlt \/ UNCHANGED pc
      /\ \/ UNCHANGED resched
         \/ preemption_counter = 0 /\ resched' = [resched EXCEPT ![current_task] = TRUE]
  <2>1. CASE ClockPulse
    BY <2>1, Zenon DEF ClockPulse
  <2>2. CASE DeviceInterrupt
    BY <2>2 DEF DeviceInterrupt, taskVars
  <2>3. CASE FireSleep \/ WakeDone \/ PulseDone \/ BottomDone
    BY <2>3, Zenon DEF FireSleep, WakeDone, PulseDone, BottomDone, taskVars
  <2>4. CASE FirePreemption
    BY <2>4, Zenon DEF FirePreemption, Preemptible, irqVars
  <2> QED BY <2>1, <2>2, <2>3, <2>4, Zenon
<1>2. /\ pc \in [Tasks -> TaskLabels] /\ current_task \in Tasks /\ resched \in [Tasks -> BOOLEAN]
  BY Zenon DEF Consistent, TypeOK
<1>3. CASE EndHlt
  <2>1. /\ pc'[current_task] = (IF pc[current_task] = "hlt" THEN "woken" ELSE pc[current_task])
        /\ \A x \in Tasks \ {current_task} : pc'[x] = pc[x]
    BY <1>2, <1>3 DEF EndHlt
  <2>2. Beside
    <3>1. \A x \in Tasks : pc'[x] # pc[x] => pc[x] = "hlt" /\ pc'[x] = "woken"
      BY <2>1, Zenon
    <3>2. \A x \in Tasks : InYield(x)' <=> InYield(x)
      BY <3>1 DEF InYield
    <3> QED BY <1>1, <3>1, <3>2, Zenon DEF Beside, SemaphoreLabels, WaitLabels
  <2>3. /\ resched[current_task] => resched'[current_task]
        /\ pc[current_task] \in NonPreemptible => resched'[current_task] = resched[current_task]
    BY <1>1, <1>2 DEF PreemptionBalanced
  <2> QED BY <1>1, <2>1, <2>2, <2>3, InterruptLock, Zenon
<1>4. CASE UNCHANGED pc
  <2>2. Beside
    BY <1>1, <1>4, Zenon DEF Beside, InYield
  <2>3. /\ resched[current_task] => resched'[current_task]
        /\ pc[current_task] \in NonPreemptible => resched'[current_task] = resched[current_task]
    BY <1>1, <1>2 DEF PreemptionBalanced
  <2> QED BY <1>1, <1>4, <2>2, <2>3, InterruptLock, Zenon
<1> QED BY <1>1, <1>3, <1>4

\* sleep_expiry_callback() wakes sleepers, which wait in no other queue.
LEMMA WakeOneLock ==
  ASSUME LockInv, Consistent', UNCHANGED lockVars, WakeOne
  PROVE  LockInv'
<1> USE DEF LockInv
<1> DEFINE n == Head(iter)
           tq == [task_queue EXCEPT ![n] = "none"]
           rc == [ref_count EXCEPT ![n] = @ - 1]
<1>1. /\ irq = "wake" /\ irq' = "wake" /\ iter # <<>>
      /\ UNCHANGED <<current_task, block_reason, preemption_counter, pc, ret>>
      /\ \/ UnblockLocked(n, state, tq, rc)
         \/ UNCHANGED <<state, resched, task_queue>>
  BY DEF WakeOne
<1>2. n \in Tasks /\ n \in Elems(sleep_queue)
  <2>1. iter \in Seq(Tasks) /\ Elems(iter) \subseteq Elems(sleep_queue)
    BY <1>1, Zenon DEF Consistent, TypeOK, Loops
  <2> QED BY <1>1, <2>1, TailList
<1>3. /\ task_queue[n] = "sleep" /\ state[n] \in {"BLOCKED", "BLOCKED_IDLING"}
      /\ block_reason[n] = "SLEEP"
  BY <1>2, Zenon DEF Consistent, QueuesAgree
<1> HIDE DEF n
<1>4. /\ current_task \in Tasks /\ state \in [Tasks -> States] /\ resched \in [Tasks -> BOOLEAN]
      /\ task_queue \in [Tasks -> {"none", "ready", "sleep", "wait"}]
  BY Zenon DEF Consistent, TypeOK
<1>5. /\ task_queue'[n] # "wait" /\ \A x \in Tasks \ {n} : task_queue'[x] = task_queue[x]
      /\ \A x \in Tasks \ {n, current_task} : state'[x] = state[x]
      /\ state[current_task] = "BLOCKED" /\ n # current_task => state'[current_task] = "BLOCKED"
      /\ state'[current_task] = "BLOCKED_IDLING" => state[current_task] = "BLOCKED_IDLING"
      /\ resched[current_task] => resched'[current_task]
      /\ n # current_task => resched'[current_task] = resched[current_task]
  <2>1. CASE UNCHANGED <<state, resched, task_queue>>
    BY <1>3, <2>1, Zenon
  <2>2. CASE UnblockLocked(n, state, tq, rc)
    <3>1. tq[n] = "none" /\ \A x \in Tasks \ {n} : tq[x] = task_queue[x]
      BY <1>2, <1>4
    <3>2. tq \in [Tasks -> {"none", "ready", "sleep", "wait"}]
      BY <1>4, Zenon
    <3> HIDE DEF tq, rc
    <3>3. CASE n = current_task
      <4>1. /\ resched' = [resched EXCEPT ![n] = TRUE] /\ state' = [state EXCEPT ![n] = "RUNNING"]
            /\ task_queue' = tq
        BY <1>3, <2>2, <3>3, Zenon DEF UnblockLocked
      <4> QED BY <1>2, <1>4, <3>1, <3>3, <4>1
    <3>4. CASE n # current_task
      <4>1. /\ state' = [state EXCEPT ![n] = "READY_TO_RUN", ![current_task] = NotIdling(@)]
            /\ task_queue' = [tq EXCEPT ![n] = "ready"] /\ UNCHANGED resched
        BY <1>3, <2>2, <3>4, Zenon DEF UnblockLocked
      <4>2. /\ task_queue'[n] = "ready" /\ \A x \in Tasks \ {n} : task_queue'[x] = task_queue[x]
        BY <1>2, <3>1, <3>2, <4>1
      <4>3. /\ \A x \in Tasks \ {n, current_task} : state'[x] = state[x]
            /\ state'[current_task] = NotIdling(state[current_task])
        BY <1>4, <3>4, <4>1
      <4> QED BY <3>4, <4>1, <4>2, <4>3, Zenon DEF NotIdling
    <3> QED BY <3>3, <3>4, Zenon
  <2> QED BY <1>1, <2>1, <2>2, Zenon
<1>6. Beside
  <2>1. \A x \in Tasks : task_queue'[x] = "wait" <=> task_queue[x] = "wait"
    BY <1>3, <1>5, Zenon
  <2>2. ASSUME NEW x \in Tasks, state[x] = "BLOCKED", block_reason[x] = "LOCK_WAIT",
               task_queue[x] = "none"
        PROVE  state'[x] = "BLOCKED" /\ block_reason'[x] = "LOCK_WAIT" /\ task_queue'[x] = "none"
    BY <1>1, <1>3, <1>5, <2>2, Zenon
  <2> QED BY <1>1, <2>1, <2>2, Zenon DEF Beside, InYield
<1>7. pc[current_task] \in NonPreemptible => n # current_task
  BY <1>3, Zenon DEF Consistent, Labels, InYield, NonPreemptible
<1> QED BY <1>1, <1>5, <1>6, <1>7, InterruptLock, Zenon

\* scheduler_end_of_interrupt() takes the CPU away only with preemption enabled, or from a
\* task that has blocked; either way it is enabled for the next one.
LEMMA EndOfInterruptLock ==
  ASSUME LockInv, Consistent', UNCHANGED lockVars, EndOfInterrupt
  PROVE  LockInv'
<1> USE DEF LockInv
<1>1. irq' = "none" /\ UNCHANGED <<block_reason, pc, ret>>
  BY DEF EndOfInterrupt
<1>2. CASE ~Schedules
  <2>1. UNCHANGED <<current_task, state, resched, task_queue, preemption_counter>>
    BY <1>2 DEF EndOfInterrupt
  <2>2. Beside
    BY <1>1, <2>1 DEF Beside, InYield
  <2>3. ~InYield(current_task) => ~resched[current_task]
    BY <1>2, Zenon DEF Consistent, Labels, Schedules
  <2>4. PreemptionBalanced'
    BY <1>1, <2>1 DEF PreemptionBalanced, InYield
  <2>5. NobodyPreempted'
    BY <1>1, <2>1, <2>3, Zenon DEF NobodyPreempted, InYield
  <2> QED BY <2>2, <2>4, <2>5, BesideLock
<1>3. CASE Schedules
  <2>1. resched[current_task] /\ preemption_counter' = 0 /\ (ScheduleNone \/ ScheduleNext)
    BY <1>3 DEF EndOfInterrupt, Schedules
  <2>2. pc[current_task] \notin NonPreemptible
    BY <2>1 DEF NobodyPreempted
  <2>3. /\ current_task \in Tasks /\ resched \in [Tasks -> BOOLEAN]
        /\ task_queue \in [Tasks -> {"none", "ready", "sleep", "wait"}]
    BY Zenon DEF Consistent, TypeOK
  <2>4. /\ ~InYield(current_task') => ~resched'[current_task']
        /\ \A x \in Tasks : task_queue'[x] = "wait" <=> task_queue[x] = "wait"
    <3>1. CASE ScheduleNone
      <4>1. /\ UNCHANGED <<current_task, task_queue>>
            /\ state[current_task] = "RUNNING" => resched' = [resched EXCEPT ![current_task] = FALSE]
        BY <3>1 DEF ScheduleNone
      <4>2. ~InYield(current_task) => state[current_task] = "RUNNING"
        BY Zenon DEF Consistent, Labels
      <4> QED BY <2>3, <4>1, <4>2
    <3>2. CASE ScheduleNext
      <4> DEFINE n == Head(ready_queue)
                 c == current_task
      <4>1. /\ ready_queue # <<>> /\ current_task' = n /\ resched' = [resched EXCEPT ![c] = FALSE]
            /\ task_queue' = [task_queue EXCEPT ![n] = "none",
                                                ![c] = IF Requeued(c) THEN "ready" ELSE @]
        BY <3>2 DEF ScheduleNext
      <4>2. n \in Tasks /\ n \in Elems(ready_queue)
        BY <4>1, TailList, Zenon DEF Consistent, TypeOK
      <4> HIDE DEF n
      <4>3. task_queue[n] = "ready" /\ state[n] = "READY_TO_RUN" /\ n # c
        BY <4>2, Zenon DEF Consistent, QueuesAgree, OneRunning
      <4>4. ~resched'[n]
        BY <2>3, <4>1, <4>2, <4>3, Zenon DEF Consistent, OneRunning
      <4>5. state[c] = "RUNNING" => task_queue[c] # "wait"
        BY <2>1, <2>3, Zenon DEF Consistent, Waits
      <4>6. ASSUME NEW x \in Tasks
            PROVE  task_queue'[x] = "wait" <=> task_queue[x] = "wait"
        <5>1. CASE x = n
          BY <2>3, <4>1, <4>2, <4>3, <5>1
        <5>2. CASE x = c
          BY <2>3, <4>1, <4>3, <4>5, <5>2 DEF Requeued
        <5>3. CASE x # n /\ x # c
          BY <2>3, <4>1, <5>3
        <5> QED BY <5>1, <5>2, <5>3
      <4> QED BY <4>1, <4>4, <4>6, Zenon
    <3> QED BY <2>1, <3>1, <3>2, Zenon
  <2>5. Beside
    BY <1>1, <2>2, <2>4, Zenon DEF Beside, InYield
  <2>6. \A x \in Tasks : pc'[x] \notin NonPreemptible
    BY <1>1, <2>2, <2>5, BesideLock
  <2>7. current_task' \in Tasks
    BY Zenon DEF Consistent, TypeOK
  <2>8. PreemptionBalanced'
    BY <2>1, <2>6, <2>7 DEF PreemptionBalanced
  <2>9. NobodyPreempted'
    <3>1. preemption_counter' = 0 /\ (~InYield(current_task)' => ~resched'[current_task'])
      BY <1>1, <2>1, <2>4 DEF InYield
    <3>2. pc'[current_task'] \notin NonPreemptible
      BY <2>6, <2>7
    <3> QED BY <2>6, <3>1, <3>2 DEF NobodyPreempted
  <2> QED BY <2>5, <2>8, <2>9, BesideLock
<1> QED BY <1>2, <1>3

-----------------------------------------------------------------------------
\* The loop of scheduler_yield(): a task that has preemption disabled stays in it until it
\* is rescheduled.
LEMMA YieldLoopLock ==
  ASSUME LockInv, Consistent', UNCHANGED lockVars, NEW t \in Tasks,
         MarkForReschedule(t) \/ Halt(t) \/ YieldTest(t)
  PROVE  LockInv'
<1> USE DEF LockInv
<1> DEFINE l == pc'[t]
<1>0. /\ pc \in [Tasks -> TaskLabels] /\ resched \in [Tasks -> BOOLEAN]
      /\ ret[t] \in {"run", "clean", "unreachable", "wait_again"}
  BY Zenon DEF Consistent, TypeOK
<1>1. /\ \A x \in Tasks \ {t} : pc'[x] = pc[x]
      /\ \/ l = "wait" /\ resched'[t]
         \/ l = "hlt" /\ pc[t] = "wait" /\ UNCHANGED resched
         \/ l = ret[t] /\ pc[t] = "woken" /\ ~resched[t] /\ UNCHANGED resched
  <2>1. CASE MarkForReschedule(t)
    <3>1. pc' = [pc EXCEPT ![t] = "wait"] /\ resched' = [resched EXCEPT ![t] = TRUE]
      BY <2>1 DEF MarkForReschedule, Goto
    <3> QED BY <1>0, <3>1
  <2>2. CASE Halt(t)
    <3>1. pc' = [pc EXCEPT ![t] = "hlt"] /\ pc[t] = "wait" /\ UNCHANGED resched
      BY <2>2 DEF Halt, Goto, taskVars, At
    <3> QED BY <1>0, <3>1
  <2>3. CASE YieldTest(t)
    <3>1. /\ pc' = [pc EXCEPT ![t] = IF resched[t] THEN "wait" ELSE ret[t]]
          /\ pc[t] = "woken" /\ UNCHANGED resched
      BY <2>3, Zenon DEF YieldTest, Goto, taskVars, At
    <3> QED BY <1>0, <3>1
  <2> QED BY <2>1, <2>2, <2>3, Zenon
<1>2. /\ t = current_task /\ InYield(t)
      /\ UNCHANGED <<current_task, state, block_reason, task_queue, preemption_counter, ret>>
  BY Zenon DEF MarkForReschedule, Halt, YieldTest, At, taskVars, InYield
<1>4. Beside
  <2>1. pc[t] \notin SemaphoreLabels /\ pc[t] \notin NonPreemptible
    BY <1>2 DEF InYield, SemaphoreLabels, WaitLabels, NonPreemptible
  <2>2. pc'[t] \in SemaphoreLabels => pc'[t] = "wait_again" /\ ret[t] = "wait_again"
    BY <1>0, <1>1, Zenon DEF SemaphoreLabels, WaitLabels
  <2>3. \A x \in Tasks \ {t} : InYield(x)' <=> InYield(x)
    BY <1>1, Zenon DEF InYield
  <2> QED BY <1>1, <1>2, <2>1, <2>2, <2>3, Zenon DEF Beside
<1>5. /\ pc[t] \notin NonPreemptible /\ pc'[t] \notin NonPreemptible
      /\ InYield(t)' <=> l \in {"wait", "hlt"}
  BY <1>0, <1>1, <1>2, Zenon DEF InYield, NonPreemptible
<1>6. \A x \in Tasks : pc'[x] \notin NonPreemptible
  BY <1>1, <1>2, <1>5, Zenon DEF NobodyPreempted
<1>7. preemption_counter = 1 => l \in {"wait", "hlt"} /\ resched'[t]
  BY <1>1, <1>2, Zenon DEF NobodyPreempted
<1>8. PreemptionBalanced'
  BY <1>2, <1>5, <1>6, <1>7, Zenon DEF PreemptionBalanced
<1>9. NobodyPreempted'
  BY <1>1, <1>2, <1>5, <1>6, <1>7, Zenon DEF NobodyPreempted
<1> QED BY <1>4, <1>8, <1>9, BesideLock, Zenon

\* The current task changes the label of nobody else, and is in neither of the functions.
LEMMA BesideRun ==
  ASSUME LockInv, NEW t \in Tasks, t = current_task, pc[t] \in {"run", "create", "clean", "pause"},
         NEW l \in {"run", "create", "yield", "clean", "pause"}, pc' = [pc EXCEPT ![t] = l],
         UNCHANGED ret \/ (ret'[t] # "wait_again" /\ \A x \in Tasks \ {t} : ret'[x] = ret[x]),
         l = "yield" => ret'[t] # "wait_again",
         \A x \in Tasks : task_queue'[x] = "wait" <=> task_queue[x] = "wait"
  PROVE  Beside
<1>1. pc'[t] = l /\ \A x \in Tasks \ {t} : pc'[x] = pc[x]
  BY Zenon DEF LockInv, Consistent, TypeOK
<1>2. /\ pc[t] \notin SemaphoreLabels /\ pc'[t] \notin SemaphoreLabels
      /\ pc[current_task] \notin NonPreemptible
  BY <1>1, Zenon DEF SemaphoreLabels, WaitLabels, NonPreemptible
<1>3. ASSUME NEW x \in Tasks, InYield(x)', ret'[x] = "wait_again"
      PROVE  InYield(x) /\ ret[x] = "wait_again"
  <2>1. CASE x = t
    BY <1>1, <1>3, <2>1 DEF InYield
  <2>2. CASE x # t
    BY <1>1, <1>3, <2>2 DEF InYield
  <2> QED BY <2>1, <2>2, Zenon
<1> QED BY <1>1, <1>2, <1>3, Zenon DEF Beside

\* What the tasks do outside of locking.c and scheduler_yield().
LEMMA RunLock ==
  ASSUME LockInv, Consistent', UNCHANGED lockVars, NEW t \in Tasks, t = current_task,
         irq \in {"none", "clean"}, pc[t] \in {"run", "create", "clean", "pause"},
         NEW l \in {"run", "create", "yield", "clean", "pause"}, pc' = [pc EXCEPT ![t] = l],
         UNCHANGED ret \/ (ret'[t] # "wait_again" /\ \A x \in Tasks \ {t} : ret'[x] = ret[x]),
         l = "yield" => ret'[t] # "wait_again",
         \A x \in Tasks : task_queue'[x] = "wait" <=> task_queue[x] = "wait",
         UNCHANGED <<current_task, preemption_counter, resched>>
  PROVE  LockInv'
<1>1. Beside
  BY BesideRun, Zenon
<1>2. ~InYield(t) /\ pc[t] \notin NonPreemptible
  BY Zenon DEF InYield, NonPreemptible
<1> QED BY <1>1, <1>2, UnmarkedLock, Zenon

\* create_task() makes its new task ready.
LEMMA CreateUnblockLock ==
  ASSUME LockInv, Consistent', UNCHANGED lockVars, NEW t \in Tasks, CreateUnblock(t)
  PROVE  LockInv'
<1> DEFINE n == newborn[t]
<1>1. /\ t = current_task /\ irq = "none" /\ pc[t] = "create" /\ pc' = [pc EXCEPT ![t] = "run"]
      /\ UNCHANGED <<current_task, preemption_counter, ret>>
  BY DEF CreateUnblock, At, Goto
<1>2. n \in Tasks \ {current_task} /\ state[n] = "BLOCKED" /\ task_queue[n] = "none"
  <2>1. newborn[t] # NoTask
    BY <1>1, Zenon DEF LockInv, Consistent, Newborns
  <2> QED BY <2>1, NewbornIs, Zenon DEF LockInv
<1>3. UNCHANGED resched /\ task_queue' = [task_queue EXCEPT ![n] = "ready"]
  BY <1>2, Zenon DEF CreateUnblock, UnblockLocked
<1> HIDE DEF n
<1>4. \A x \in Tasks : task_queue'[x] = "wait" <=> task_queue[x] = "wait"
  BY <1>2, <1>3, Zenon DEF LockInv, Consistent, TypeOK
<1> QED BY <1>1, <1>3, <1>4, RunLock, Zenon

\* scheduler_terminate_task() wakes the cleanup thread.
LEMMA TerminateLock ==
  ASSUME LockInv, Consistent', UNCHANGED lockVars, NEW t \in Tasks, Terminate(t)
  PROVE  LockInv'
<1> DEFINE st == [state EXCEPT ![t] = "BLOCKED"]
<1>1. /\ t = current_task /\ irq = "none" /\ pc[t] = "run" /\ pc' = [pc EXCEPT ![t] = "yield"]
      /\ ret' = [ret EXCEPT ![t] = "unreachable"] /\ t \in Workers
      /\ UNCHANGED <<current_task, preemption_counter>>
      /\ UnblockLocked(Cleaner, st, task_queue, ref_count)
  BY DEF Terminate, At, CallYield, Goto
<1>2. Cleaner # current_task /\ Cleaner \in Tasks /\ task_queue[Cleaner] # "wait"
  BY <1>1, TasksAssumption, Zenon DEF Tasks, LockInv, Consistent, Lives
<1> HIDE DEF st
<1>3. /\ UNCHANGED resched
      /\ UNCHANGED task_queue \/ task_queue' = [task_queue EXCEPT ![Cleaner] = "ready"]
  BY <1>1, <1>2, Zenon DEF UnblockLocked
<1>4. /\ \A x \in Tasks : task_queue'[x] = "wait" <=> task_queue[x] = "wait"
      /\ ret'[t] = "unreachable" /\ \A x \in Tasks \ {t} : ret'[x] = ret[x]
  <2>1. /\ task_queue \in [Tasks -> {"none", "ready", "sleep", "wait"}]
        /\ ret \in [Tasks -> {"run", "clean", "unreachable", "wait_again"}]
    BY Zenon DEF LockInv, Consistent, TypeOK
  <2>2. \A x \in Tasks : task_queue'[x] = "wait" <=> task_queue[x] = "wait"
    BY <1>2, <1>3, <2>1
  <2> QED BY <1>1, <2>1, <2>2
<1> QED BY <1>1, <1>3, <1>4, RunLock, Zenon

\* scheduler_nano_sleep_until(): a running task is in no queue.
LEMMA NanoSleepLock ==
  ASSUME LockInv, Consistent', UNCHANGED lockVars, NEW t \in Tasks, NEW when,
         NanoSleepUntil(t, when)
  PROVE  LockInv'
<1>1. /\ t = current_task /\ irq = "none" /\ pc[t] = "run" /\ pc' = [pc EXCEPT ![t] = "yield"]
      /\ ret' = [ret EXCEPT ![t] = "run"] /\ task_queue' = [task_queue EXCEPT ![t] = "sleep"]
      /\ UNCHANGED <<current_task, preemption_counter, resched>>
  BY Zenon DEF NanoSleepUntil, At, CallYield, Goto
<1>2. task_queue[t] = "none"
  <2>1. state[t] = "RUNNING"
    BY <1>1, Zenon DEF LockInv, Consistent, Labels, InYield
  <2> QED BY <1>1, <2>1, InNoQueue, Zenon DEF LockInv, Consistent
<1>3. /\ \A x \in Tasks : task_queue'[x] = "wait" <=> task_queue[x] = "wait"
      /\ ret'[t] = "run" /\ \A x \in Tasks \ {t} : ret'[x] = ret[x]
  <2>1. task_queue \in [Tasks -> {"none", "ready", "sleep", "wait"}] /\ DOMAIN ret = Tasks
    BY Zenon DEF LockInv, Consistent, TypeOK
  <2> QED BY <1>1, <1>2, <2>1, Zenon
<1> QED BY <1>1, <1>3, RunLock, Zenon

\* The other steps of the tasks.
LEMMA OtherStepLock ==
  ASSUME LockInv, Consistent', UNCHANGED lockVars, NEW t \in Tasks, OtherStep(t)
  PROVE  LockInv'
<1>1. CASE Yield(t)
  <2>1. /\ t = current_task /\ irq = "none" /\ pc[t] = "run" /\ pc' = [pc EXCEPT ![t] = "yield"]
        /\ ret' = [ret EXCEPT ![t] = "run"]
        /\ UNCHANGED <<current_task, preemption_counter, resched, task_queue>>
    BY <1>1 DEF Yield, At, CallYield, Goto, taskVars
  <2>2. ret'[t] = "run" /\ \A x \in Tasks \ {t} : ret'[x] = ret[x]
    <3>1. ret \in [Tasks -> {"run", "clean", "unreachable", "wait_again"}]
      BY Zenon DEF LockInv, Consistent, TypeOK
    <3> QED BY <2>1, <3>1, Zenon
  <2> QED BY <2>1, <2>2, RunLock, Zenon
<1>2. ASSUME NEW n \in Tasks, CreateTask(t, n) PROVE LockInv'
  <2>1. /\ t = current_task /\ irq = "none" /\ pc[t] = "run" /\ pc' = [pc EXCEPT ![t] = "create"]
        /\ UNCHANGED <<current_task, preemption_counter, resched, task_queue, ret>>
    BY <1>2 DEF CreateTask, At, Goto
  <2> QED BY <2>1, RunLock, Zenon
<1> QED BY <1>1, <1>2, CreateUnblockLock, TerminateLock, NanoSleepLock, YieldLoopLock, Zenon
        DEF OtherStep, KernelStep

\* cleanup_thread() frees terminated tasks, which are in scheduler_yield() for good.
LEMMA CleanupLock ==
  ASSUME LockInv, Consistent', UNCHANGED lockVars, Cleanup
  PROVE  LockInv'
<1> USE DEF LockInv
<1>1. CASE CleanupStart
  <2>1. /\ Cleaner = current_task /\ irq = "none" /\ pc[Cleaner] = "clean"
        /\ UNCHANGED <<current_task, preemption_counter, resched, task_queue, pc, ret>>
    BY <1>1 DEF CleanupStart, At, taskVars
  <2>2. ~InYield(current_task) /\ pc[current_task] \notin NonPreemptible
    BY <2>1 DEF InYield, NonPreemptible
  <2>3. Beside
    BY <2>1, <2>2, Zenon DEF Beside, InYield
  <2> QED BY <2>1, <2>2, <2>3, UnmarkedLock, Zenon
<1>2. CASE CleanupEnd
  <2>1. /\ irq = "clean" /\ UNCHANGED <<current_task, preemption_counter, resched, task_queue>>
        /\ \/ /\ pc' = [pc EXCEPT ![Cleaner] = "yield"] /\ ret' = [ret EXCEPT ![Cleaner] = "clean"]
           \/ pc' = [pc EXCEPT ![Cleaner] = "pause"] /\ UNCHANGED ret
    BY <1>2 DEF CleanupEnd, CallYield, Goto, taskVars
  <2>2. Cleaner = current_task /\ pc[Cleaner] = "clean" /\ Cleaner \in Tasks
    BY <2>1, Zenon DEF Consistent, Phases, Tasks
  <2>3. CASE pc' = [pc EXCEPT ![Cleaner] = "pause"] /\ UNCHANGED ret
    BY <2>1, <2>2, <2>3, RunLock, Zenon
  <2>4. CASE /\ pc' = [pc EXCEPT ![Cleaner] = "yield"] /\ ret' = [ret EXCEPT ![Cleaner] = "clean"]
    <3>1. ret'[Cleaner] = "clean" /\ \A x \in Tasks \ {Cleaner} : ret'[x] = ret[x]
      <4>1. ret \in [Tasks -> {"run", "clean", "unreachable", "wait_again"}]
        BY Zenon DEF Consistent, TypeOK
      <4> QED BY <2>2, <2>4, <4>1, Zenon
    <3> QED BY <2>1, <2>2, <2>4, <3>1, RunLock, Zenon
  <2> QED BY <2>1, <2>3, <2>4
<1>3. CASE CleanupPause
  <2>1. /\ Cleaner = current_task /\ irq = "none" /\ pc[Cleaner] = "pause"
        /\ pc' = [pc EXCEPT ![Cleaner] = "yield"] /\ ret' = [ret EXCEPT ![Cleaner] = "clean"]
        /\ UNCHANGED <<current_task, preemption_counter, resched, task_queue>>
    BY <1>3 DEF CleanupPause, BlockTask, CallYield, Goto, At
  <2>2. ret'[Cleaner] = "clean" /\ Cleaner \in Tasks /\ \A x \in Tasks \ {Cleaner} : ret'[x] = ret[x]
    BY <2>1, Zenon DEF Consistent, TypeOK, Tasks
  <2> QED BY <2>1, <2>2, RunLock, Zenon
<1>4. CASE CleanupOne
  <2> DEFINE n == Head(iter)
  <2>1. /\ irq = "clean" /\ iter # <<>> /\ UNCHANGED <<current_task, preemption_counter, task_queue>>
        /\ \/ FreeTask(n)
           \/ UNCHANGED <<state, block_reason, resched, pc, ret>>
    BY <1>4 DEF CleanupOne
  <2>2. Cleaner = current_task /\ pc[Cleaner] = "clean" /\ Cleaner \in Tasks
    BY <2>1, Zenon DEF Consistent, Phases, Tasks
  <2>3. ~InYield(current_task) /\ pc[current_task] \notin NonPreemptible
    BY <2>2 DEF InYield, NonPreemptible
  <2>4. CASE UNCHANGED <<state, block_reason, resched, pc, ret>>
    <3>1. Beside
      BY <2>1, <2>3, <2>4, Zenon DEF Beside, InYield
    <3> QED BY <2>1, <2>3, <2>4, <3>1, UnmarkedLock, Zenon
  <2>5. CASE FreeTask(n)
    <3>1. PICK m \in Tasks : m = n /\ IsTerminated(m)
      <4>1. iter \in Seq(Tasks) /\ Elems(iter) \subseteq Elems(termination_queue)
        BY <2>1, Zenon DEF Consistent, TypeOK, Loops
      <4>2. n \in Tasks /\ n \in Elems(termination_queue)
        BY <2>1, <4>1, TailList
      <4> QED BY <4>2, Zenon DEF Consistent, QueuesAgree
    <3>2. InYield(m) /\ m # current_task /\ FreeTask(m)
      BY <2>3, <2>5, <3>1, Zenon DEF Consistent, Lives, IsTerminated
    <3>3. /\ pc \in [Tasks -> TaskLabels] /\ resched \in [Tasks -> BOOLEAN] /\ current_task \in Tasks
          /\ ret \in [Tasks -> {"run", "clean", "unreachable", "wait_again"}]
      BY Zenon DEF Consistent, TypeOK
    <3>4. /\ pc'[m] = "run" /\ \A x \in Tasks \ {m} : pc'[x] = pc[x] /\ ret'[x] = ret[x]
          /\ resched'[current_task] = resched[current_task]
      BY <3>2, <3>3, Zenon DEF FreeTask
    <3>5. Beside
      <4>1. pc[m] \notin SemaphoreLabels /\ pc'[m] \notin SemaphoreLabels /\ ~InYield(m)'
        BY <3>2, <3>4, Zenon DEF InYield, SemaphoreLabels, WaitLabels
      <4>2. \A x \in Tasks \ {m} : InYield(x)' <=> InYield(x)
        BY <3>4, Zenon DEF InYield
      <4> QED BY <2>1, <2>3, <3>4, <4>1, <4>2, Zenon DEF Beside
    <3> QED BY <2>1, <2>3, <3>4, <3>5, UnmarkedLock, Zenon
  <2> QED BY <2>1, <2>4, <2>5
<1> QED BY <1>1, <1>2, <1>3, <1>4 DEF Cleanup

-----------------------------------------------------------------------------
\* A semaphore is created with its permits and an empty queue.
LEMMA LockInitInv ==
  ASSUME LockInit
  PROVE  LockInv
<1> USE DEF LockInit
<1>1. Consistent
  BY InitInv DEF IndInv
<1>2. LockTypeOK
  BY LockingAssumption DEF LockTypeOK
<1>4. \A t \in Tasks : pc[t] \in {"run", "clean"} /\ ret[t] = "run" /\ ~resched[t]
  BY DEF Init
<1>5. (PreemptionBalanced /\ NobodyPreempted)
  <2>1. current_task \in Tasks /\ preemption_counter = 0
    BY DEF Init, Tasks
  <2>2. PreemptionBalanced
    BY <1>4, <2>1 DEF PreemptionBalanced, NonPreemptible
  <2>3. NobodyPreempted
    BY <1>4, <2>1 DEF NobodyPreempted, NonPreemptible
  <2> QED BY <2>2, <2>3
<1>6. Acquires
  BY <1>4, Zenon DEF Acquires, SemaphoreLabels, WaitLabels, InYield
<1>7. WokenStaysBlocked
  BY <1>4, Zenon DEF WokenStaysBlocked
<1>8. WaitQueueAgrees
  <2>1. \A t \in Tasks : task_queue[t] # "wait"
    BY DEF Init
  <2>2. Elems(waiting_tasks) = {} /\ NoDuplicates(waiting_tasks)
    BY DEF Elems, NoDuplicates
  <2> QED BY <1>1, <2>1, <2>2 DEF WaitQueueAgrees, Consistent
<1> QED BY <1>1, <1>2, <1>5, <1>6, <1>7, <1>8 DEF LockInv

\* Every step of the tasks, of the semaphore and of the interrupts preserves the invariant.
LEMMA LockNextInv ==
  ASSUME LockInv, [LockNext]_<<vars, lockVars>>
  PROVE  LockInv'
<1>1. CASE \E t \in Tasks : SemaphoreStep(t)
  BY <1>1, SemaphoreStepLock
<1>2. CASE /\ \/ \E t \in Tasks : OtherStep(t)
              \/ Cleanup \/ Isr \/ ClockPulse \/ DeviceInterrupt
           /\ UNCHANGED lockVars
  <2>1. Next
    <3>1. ASSUME NEW t \in Tasks, OtherStep(t) PROVE KernelStep(t) \/ UserStep(t)
      <4>1. 1 .. MaxSleep \subseteq -1 .. MaxSleep
        BY TimeAssumption
      <4> QED BY <3>1, <4>1 DEF OtherStep, UserStep
    <3> QED BY <1>2, <3>1 DEF Next
  <2>2. Consistent'
    BY <2>1, NextConsistent DEF LockInv
  <2>3. CASE Isr
    BY <1>2, <2>2, <2>3, PhaseLock, WakeOneLock, EndOfInterruptLock DEF Isr
  <2> QED BY <1>2, <2>2, <2>3, OtherStepLock, CleanupLock, PhaseLock
<1>3. CASE UNCHANGED <<vars, lockVars>>
  <2>1. Consistent'
    BY <1>3, StutterInv DEF LockInv
  <2>2. UNCHANGED <<current_task, state, block_reason, resched, task_queue, preemption_counter,
                    pc, ret, irq>> /\ UNCHANGED lockVars
    BY <1>3 DEF vars, taskVars, irqVars
  <2>3. Beside
    BY <2>2 DEF Beside, InYield
  <2>4. (PreemptionBalanced /\ NobodyPreempted)'
    BY <2>2, Zenon DEF LockInv, PreemptionBalanced, NobodyPreempted, InYield
  <2> QED BY <2>1, <2>2, <2>3, <2>4, BesideLock DEF LockInv
<1> QED BY <1>1, <1>2, <1>3 DEF LockNext

\* The scheduler, the semaphore and the tasks in locking.c stay consistent, whatever
\* interrupts and preemptions come between the steps.
THEOREM LockInvariantHolds == LockSpec => []LockInv
<1>1. LockInv /\ [LockNext]_<<vars, lockVars>> => LockInv'
  BY LockNextInv
<1> QED BY <1>1, LockInitInv, PTL DEF LockSpec

\* Whoever waits in the queue of the semaphore is blocked, so that the wakeup by
\* __semaphore_signal() takes effect, and no assertion that guards the queues fails.
THEOREM LockWaitersExact == LockSpec => []WaitersExact
<1>1. LockInv => WaitersExact
  <2> SUFFICES ASSUME LockInv PROVE WaitersExact
    OBVIOUS
  <2>1. ASSUME NEW t \in Tasks, t \in Elems(waiting_tasks), t # current_task
        PROVE  state[t] = "BLOCKED" /\ block_reason[t] = "LOCK_WAIT"
    BY <2>1, Zenon DEF LockInv, WaitQueueAgrees, Consistent, Waits, OneRunning
  <2>2. ASSUME NEW t \in Tasks, woken[t] # NoTask PROVE state[woken[t]] = "BLOCKED"
    BY <2>2, Zenon DEF LockInv, WokenStaysBlocked
  <2>3. WaitQueueAgrees /\ OnlyLatePanics
    BY DEF LockInv, Consistent, OnlyLate, OnlyLatePanics
  <2> QED BY <2>1, <2>2, <2>3 DEF WaitersExact, WaitersAreBlocked
<1> QED BY <1>1, LockInvariantHolds, PTL

\* scheduler_disable_preemption() is always undone: by scheduler_enable_preemption(), or by
\* the rescheduling of the task that blocked.
THEOREM LockPreemptionBalanced == LockSpec => []PreemptionBalanced
<1>1. LockInv => PreemptionBalanced
  BY DEF LockInv
<1> QED BY <1>1, LockInvariantHolds, PTL

-----------------------------------------------------------------------------
\* The permits. Only the exchange of __semaphore_wait() and the addition of
\* __semaphore_signal() touch the count, and each changes the number of tasks that hold a
\* permit by one.

\* Only the tasks that use the semaphore hold a permit, so that they can be counted.
LEMMA HoldersFinite ==
  ASSUME Acquires
  PROVE  /\ IsFiniteSet({t \in Tasks : held[t]}) /\ Cardinality({t \in Tasks : held[t]}) \in Nat
<1>1. {t \in Tasks : held[t]} \subseteq Lockers
  BY DEF Acquires
<1>2. IsFiniteSet({t \in Tasks : held[t]})
  BY <1>1, LockingAssumption, FS_Subset, Zenon
<1> QED BY <1>2, FS_CardinalityType, Zenon

\* atomic_compare_exchange() gives a permit to a task that held none.
LEMMA OneMoreHolder ==
  ASSUME LockTypeOK, Acquires, PermitsConserved, NEW t \in Tasks, ~held[t],
         held' = [held EXCEPT ![t] = TRUE], count' = count - 1, count > 0
  PROVE  PermitsConserved'
<1> DEFINE H == {x \in Tasks : held[x]}
<1>1. {x \in Tasks : held'[x]} = H \union {t} /\ t \notin H
  BY DEF LockTypeOK
<1>2. IsFiniteSet(H) /\ Cardinality(H) \in Nat
  BY HoldersFinite
<1> HIDE DEF H
<1>3. Cardinality({x \in Tasks : held'[x]}) = Cardinality(H) + 1
  BY <1>1, <1>2, FS_AddElement
<1>4. count \in Nat /\ count + Cardinality(H) = Permits
  BY DEF LockTypeOK, PermitsConserved, H
<1> QED BY <1>2, <1>3, <1>4 DEF PermitsConserved

\* atomic_add_fetch() takes the permit back from a task that held it.
LEMMA OneHolderLess ==
  ASSUME LockTypeOK, Acquires, PermitsConserved, NEW t \in Tasks, held[t],
         held' = [held EXCEPT ![t] = FALSE], count' = count + 1
  PROVE  PermitsConserved'
<1> DEFINE H == {x \in Tasks : held[x]}
<1>1. {x \in Tasks : held'[x]} = H \ {t} /\ t \in H
  BY DEF LockTypeOK
<1>2. IsFiniteSet(H) /\ Cardinality(H) \in Nat
  BY HoldersFinite
<1> HIDE DEF H
<1>3. Cardinality({x \in Tasks : held'[x]}) = Cardinality(H) - 1
  BY <1>1, <1>2, FS_RemoveElement
<1>4. count \in Nat /\ count + Cardinality(H) = Permits
  BY DEF LockTypeOK, PermitsConserved, H
<1> QED BY <1>2, <1>3, <1>4 DEF PermitsConserved

\* A semaphore is created with all its permits.
LEMMA PermitsInit ==
  ASSUME LockInit
  PROVE  PermitsConserved
<1> DEFINE H == {t \in Tasks : held[t]}
<1>1. H = {} /\ count = Permits /\ Permits \in Nat
  BY LockingAssumption DEF LockInit
<1> HIDE DEF H
<1>2. Cardinality(H) = 0
  BY <1>1, FS_EmptySet
<1>3. count >= 0 /\ count + Cardinality(H) = Permits
  BY <1>1, <1>2
<1> QED BY <1>3 DEF PermitsConserved, H

\* Every step keeps the number of permits.
LEMMA PermitsStep ==
  ASSUME LockInv, PermitsConserved, [LockNext]_<<vars, lockVars>>
  PROVE  PermitsConserved'
<1>1. LockTypeOK /\ Acquires
  BY DEF LockInv
<1>2. CASE UNCHANGED <<count, held>>
  BY <1>2 DEF PermitsConserved
<1>3. ASSUME NEW t \in Tasks, WaitExchange(t)
      PROVE  PermitsConserved'
  <2>1. CASE Exchanges(t)
    <3>1. /\ count' = count - 1 /\ held' = [held EXCEPT ![t] = TRUE] /\ pc[t] = "wait_exchange"
          /\ count = current[t]
      BY <1>3, <2>1 DEF WaitExchange, Exchanges, At
    <3>2. ~held[t] /\ current[t] > 0
      BY <1>1, <3>1 DEF Acquires, WaitLabels
    <3> QED BY <1>1, <3>1, <3>2, OneMoreHolder
  <2>2. CASE ~Exchanges(t)
    BY <1>2, <1>3, <2>2 DEF WaitExchange
  <2> QED BY <2>1, <2>2
<1>4. ASSUME NEW t \in Tasks, SignalAdd(t)
      PROVE  PermitsConserved'
  BY <1>1, <1>4, OneHolderLess DEF SignalAdd
<1>5. ASSUME NEW t \in Tasks, SemaphoreStep(t), ~WaitExchange(t), ~SignalAdd(t)
      PROVE  UNCHANGED <<count, held>>
  BY <1>5 DEF SemaphoreStep, WaitLoad, WaitDisable, WaitEnqueue, WaitBlock, SignalDisable,
       SignalDequeue, SignalUnblock, SignalEnable, lockVars
<1>6. UNCHANGED lockVars => UNCHANGED <<count, held>>
  BY DEF lockVars
<1> QED BY <1>2, <1>3, <1>4, <1>5, <1>6, Zenon DEF LockNext

\* __semaphore_wait() and __semaphore_signal() neither lose nor invent a permit: with one
\* permit, at most one task is between mutex_lock() and mutex_unlock().
THEOREM LockPermitsConserved == LockSpec => []PermitsConserved
<1>1. LockInv /\ PermitsConserved /\ [LockNext]_<<vars, lockVars>> => PermitsConserved'
  BY PermitsStep
<1> QED BY <1>1, LockInvariantHolds, PermitsInit, PTL DEF LockSpec

=============================================================================
