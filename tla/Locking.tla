------------------------------- MODULE Locking -------------------------------
(***************************************************************************)
(* The semaphores and mutexes of kernel/tasks/locking.c on top of the      *)
(* scheduler: one semaphore that starts at Permits (a mutex starts at 1),  *)
(* used by the tasks in Lockers.  Interrupts are enabled between the steps *)
(* of __semaphore_wait() and __semaphore_signal(), so each atomic          *)
(* operation and each call is a step of its own; scheduler_disable_        *)
(* preemption() is what the code relies on to keep other tasks out.        *)
(***************************************************************************)
EXTENDS Scheduler, FiniteSets

CONSTANTS Permits,   \* the argument of semaphore_create(), 1 for a mutex
          Lockers    \* the tasks that use the semaphore

ASSUME LockingAssumption ==
  Permits \in Nat \ {0} /\ Lockers \subseteq Tasks \ {Cleaner} /\ IsFiniteSet(Lockers)

VARIABLES count,          \* semaphore->count
          waiting_tasks,  \* semaphore->waiting_tasks
          current,        \* __semaphore_wait()'s local copy of count
          woken,          \* __semaphore_signal()'s local task
          held            \* whether a task has acquired the semaphore

lockVars == <<count, waiting_tasks, current, woken, held>>

LockInit ==
  /\ Init
  /\ count = Permits /\ waiting_tasks = <<>>
  /\ current = [t \in Tasks |-> 0]
  /\ woken = [t \in Tasks |-> NoTask]
  /\ held = [t \in Tasks |-> FALSE]

\* Everything but the label of the current task stays as it is.
OnlyGoto(t, l) ==
  /\ Goto(t, l)
  /\ UNCHANGED <<current_task, taskVars, queueVars, timeVars, preemption_counter, ret,
                 newborn, irqVars, panic>>

-----------------------------------------------------------------------------
\* __semaphore_wait(): load count, and wait as long as it is 0.
WaitLoad(t) ==
  /\ t \in Lockers
  /\ (At(t, "run") /\ ~held[t]) \/ At(t, "wait_again")
  /\ current' = [current EXCEPT ![t] = count]
  /\ OnlyGoto(t, IF count = 0 THEN "wait_disable" ELSE "wait_exchange")
  /\ UNCHANGED <<count, waiting_tasks, woken, held>>

\* scheduler_disable_preemption() before task_queue_enqueue().
WaitDisable(t) ==
  /\ At(t, "wait_disable")
  /\ preemption_counter' = preemption_counter + 1
  /\ Goto(t, "wait_enqueue")
  /\ UNCHANGED <<current_task, taskVars, queueVars, timeVars, ret, newborn, irqVars, panic,
                 lockVars>>

\* task_queue_enqueue(&semaphore->waiting_tasks, current_task).
WaitEnqueue(t) ==
  /\ At(t, "wait_enqueue")
  /\ KAssert(~IsTerminated(t) /\ task_queue[t] = "none", "prepare_insert")
  /\ waiting_tasks' = Enqueue(waiting_tasks, t)
  /\ task_queue' = [task_queue EXCEPT ![t] = "wait"]
  /\ ref_count' = [ref_count EXCEPT ![t] = @ + 1]
  /\ Goto(t, "wait_block")
  /\ UNCHANGED <<current_task, state, block_reason, resched, refs, sleep_expiry, queueVars,
                 timeVars, preemption_counter, ret, newborn, irqVars, count, current, woken,
                 held>>

\* A bug: the task yields instead of blocking.
WaitYield(t) ==
  /\ At(t, "wait_block") /\ CallYield(t, "wait_again")
  /\ UNCHANGED <<current_task, taskVars, queueVars, timeVars, preemption_counter, newborn,
                 irqVars, panic, lockVars>>

\* scheduler_block_task(BLOCK_REASON_LOCK_WAIT); it returns to the next load of count.
WaitBlock(t) ==
  /\ At(t, "wait_block")
  /\ BlockTask(t, "LOCK_WAIT", "wait_again")
  /\ UNCHANGED lockVars

\* A bug: a plain store.
AlwaysExchanges(t) == TRUE

\* Whether atomic_compare_exchange() finds the value that was loaded.
Exchanges(t) == count = current[t]

\* atomic_compare_exchange(): a failed exchange loads count again.
WaitExchange(t) ==
  /\ At(t, "wait_exchange")
  /\ \/ /\ Exchanges(t)
        /\ count' = count - 1
        /\ current' = [current EXCEPT ![t] = 0]
        /\ held' = [held EXCEPT ![t] = TRUE]
        /\ OnlyGoto(t, "run")
     \/ /\ ~Exchanges(t)
        /\ current' = [current EXCEPT ![t] = count]
        /\ OnlyGoto(t, IF count = 0 THEN "wait_disable" ELSE "wait_exchange")
        /\ UNCHANGED <<count, held>>
  /\ UNCHANGED <<waiting_tasks, woken>>

-----------------------------------------------------------------------------
\* __semaphore_signal(): atomic_add_fetch() ...
SignalAdd(t) ==
  /\ At(t, "run") /\ held[t]
  /\ count' = count + 1
  /\ held' = [held EXCEPT ![t] = FALSE]
  /\ OnlyGoto(t, "signal_disable")
  /\ UNCHANGED <<waiting_tasks, current, woken>>

\* ... then, with preemption disabled, ...
SignalDisable(t) ==
  /\ At(t, "signal_disable")
  /\ preemption_counter' = preemption_counter + 1
  /\ Goto(t, "signal_dequeue")
  /\ UNCHANGED <<current_task, taskVars, queueVars, timeVars, ret, newborn, irqVars, panic,
                 lockVars>>

\* ... task_queue_dequeue() of the first waiting task, if there is one, ...
SignalDequeue(t) ==
  /\ At(t, "signal_dequeue")
  /\ \/ /\ waiting_tasks = <<>>
        /\ Goto(t, "signal_enable")
        /\ UNCHANGED <<waiting_tasks, woken, task_queue, ref_count>>
     \/ /\ waiting_tasks # <<>>
        /\ LET n == Head(waiting_tasks) IN
           /\ woken' = [woken EXCEPT ![t] = n]
           /\ task_queue' = [task_queue EXCEPT ![n] = "none"]
           /\ ref_count' = [ref_count EXCEPT ![n] = @ - 1]
        /\ waiting_tasks' = Tail(waiting_tasks)
        /\ Goto(t, "signal_unblock")
  /\ UNCHANGED <<current_task, state, block_reason, resched, refs, sleep_expiry, queueVars,
                 timeVars, preemption_counter, ret, newborn, irqVars, panic, count, current,
                 held>>

\* ... scheduler_unblock_task() for it, ...
SignalUnblock(t) ==
  /\ At(t, "signal_unblock")
  /\ UnblockLocked(woken[t], state, task_queue, ref_count)
  /\ woken' = [woken EXCEPT ![t] = NoTask]
  /\ Goto(t, "signal_enable")
  /\ UNCHANGED <<current_task, block_reason, refs, sleep_expiry, sleep_queue,
                 termination_queue, earliest_wakeup, preemption_event, sleep_events,
                 preemption_counter, ret, newborn, irqVars, count, waiting_tasks, current,
                 held>>

\* A bug: preemption stays disabled.
SignalStayDisabled(t) ==
  /\ At(t, "signal_enable") /\ OnlyGoto(t, "run") /\ UNCHANGED lockVars

\* ... and scheduler_enable_preemption(), which asserts that it undoes a disable.
SignalEnable(t) ==
  /\ At(t, "signal_enable")
  /\ KAssert(preemption_counter > 0, "enable_preemption")
  /\ preemption_counter' = IF preemption_counter > 0 THEN preemption_counter - 1 ELSE 0
  /\ Goto(t, "run")
  /\ UNCHANGED <<current_task, taskVars, queueVars, timeVars, ret, newborn, irqVars, lockVars>>

-----------------------------------------------------------------------------
SemaphoreStep(t) ==
  \/ WaitLoad(t) \/ WaitDisable(t) \/ WaitEnqueue(t) \/ WaitBlock(t) \/ WaitExchange(t)
  \/ SignalAdd(t) \/ SignalDisable(t) \/ SignalDequeue(t) \/ SignalUnblock(t)
  \/ SignalEnable(t)

\* What else the tasks do: they start others, yield, sleep, and end when they hold nothing.
OtherStep(t) ==
  \/ KernelStep(t) \/ Yield(t)
  \/ ~held[t] /\ Terminate(t)
  \/ \E n \in Tasks : CreateTask(t, n)
  \/ \E when \in 1 .. MaxSleep : NanoSleepUntil(t, when)

LockNext ==
  \/ \E t \in Tasks : SemaphoreStep(t)
  \/ /\ \/ \E t \in Tasks : OtherStep(t)
        \/ Cleanup \/ Isr \/ ClockPulse \/ DeviceInterrupt
     /\ UNCHANGED lockVars

LockSpec == LockInit /\ [][LockNext]_<<vars, lockVars>>

-----------------------------------------------------------------------------
\* A permit is either in count or held by a task: with one permit, mutual exclusion.
PermitsConserved == count >= 0 /\ count + Cardinality({t \in Tasks : held[t]}) = Permits

\* __semaphore_wait() enqueues and blocks without another task in between: whoever is not
\* running and waits in the queue, or was just taken from it, is blocked, so that the
\* scheduler_unblock_task() of __semaphore_signal() takes effect.
WaitersAreBlocked ==
  \A t \in Tasks :
    /\ t \in Elems(waiting_tasks) /\ t # current_task =>
         state[t] = "BLOCKED" /\ block_reason[t] = "LOCK_WAIT"
    /\ woken[t] # NoTask => state[woken[t]] = "BLOCKED"

\* The labels of __semaphore_wait(), and of both functions.
WaitLabels == {"wait_again", "wait_exchange", "wait_disable", "wait_enqueue", "wait_block"}

SemaphoreLabels ==
  WaitLabels \union {"signal_disable", "signal_dequeue", "signal_unblock", "signal_enable"}

\* The labels between scheduler_disable_preemption() and scheduler_enable_preemption().
NonPreemptible ==
  {"wait_enqueue", "wait_block", "signal_dequeue", "signal_unblock", "signal_enable"}

\* Preemption is disabled in these sections, and outside of them only on the way of a
\* waiting task to its rescheduling, which enables it again for whoever runs next.
PreemptionBalanced ==
  /\ preemption_counter <= 1
  /\ pc[current_task] \in NonPreemptible => preemption_counter = 1
  /\ preemption_counter = 1 =>
       \/ pc[current_task] \in NonPreemptible
       \/ InYield(current_task) /\ ret[current_task] = "wait_again"

\* The waiting queue and the task objects agree, references included.
WaitQueueAgrees ==
  /\ RefCountExact
  /\ NoDuplicates(waiting_tasks)
  /\ \A t \in Tasks : t \in Elems(waiting_tasks) <=> task_queue[t] = "wait"

\* No assertion fails, apart from the one about a late preemption_callback().
OnlyLatePanics == panic \in {"no", "late_preemption"}

\* What a waiting task relies on: it is blocked while it is in the queue, the queue and the
\* task objects agree, and none of the assertions that guard them fails.
WaitersExact == WaitersAreBlocked /\ WaitQueueAgrees /\ OnlyLatePanics

\* With preemption enabled, preemption_callback() never finds that the planned preemption
\* is in the past.
PreemptionOnTime == preemption_counter = 0 => panic # "late_preemption"

\* A task that retries or is about to: it will see the permit.
Retries(t) ==
  \/ pc[t] \in {"wait_again", "wait_exchange", "signal_disable", "signal_dequeue",
                "signal_unblock"}
  \/ InYield(t) /\ ret[t] = "wait_again" /\ t \notin Elems(waiting_tasks)

\* __semaphore_signal() wakes up potential waiters: while a permit is available, a task
\* that is blocked in the queue has somebody who will wake it or take the permit.
NoStrandedWaiter ==
  (\E t \in Elems(waiting_tasks) : state[t] \in {"BLOCKED", "BLOCKED_IDLING"}) /\ count > 0
    => \E u \in Tasks : Retries(u)

-----------------------------------------------------------------------------
\* What the steps of a semaphore rely on, beyond the scheduler's own consistency: a task
\* that was taken from the queue stays blocked until it is unblocked, ...
WokenStaysBlocked ==
  \A t \in Tasks :
    /\ woken[t] # NoTask <=> pc[t] = "signal_unblock"
    /\ woken[t] # NoTask =>
         /\ woken[t] \in Lockers /\ state[woken[t]] = "BLOCKED"
         /\ block_reason[woken[t]] = "LOCK_WAIT" /\ task_queue[woken[t]] = "none"

\* ... nobody is preempted with preemption disabled, and it is enabled again by the
\* rescheduling of the task that blocks, ...
NobodyPreempted ==
  /\ \A t \in Tasks : pc[t] \in NonPreemptible => t = current_task
  /\ pc[current_task] \in NonPreemptible => ~resched[current_task]
  /\ irq \in {"none", "clean"} /\ ~InYield(current_task) => ~resched[current_task]
  /\ preemption_counter = 1 => state[current_task] # "BLOCKED_IDLING"
  /\ preemption_counter = 1 /\ InYield(current_task) =>
       pc[current_task] = "yield" \/ resched[current_task]

\* ... and a task between the load of count and the exchange has seen a permit, and does
\* not hold one.
Acquires ==
  \A t \in Tasks :
    /\ pc[t] = "wait_exchange" => current[t] > 0
    /\ pc[t] \in SemaphoreLabels \/ held[t] => t \in Lockers
    /\ ret[t] = "wait_again" /\ InYield(t) => t \in Lockers
    /\ pc[t] \in WaitLabels => ~held[t]
    /\ InYield(t) /\ ret[t] = "wait_again" => ~held[t]

LockTypeOK ==
  /\ count \in Nat /\ waiting_tasks \in Seq(Lockers)
  /\ current \in [Tasks -> Nat] /\ woken \in [Tasks -> Tasks \union {NoTask}]
  /\ held \in [Tasks -> BOOLEAN]

\* The inductive invariant; PermitsConserved is inductive relative to it.
LockInv ==
  /\ Consistent /\ LockTypeOK
  /\ WaitQueueAgrees /\ WokenStaysBlocked
  /\ PreemptionBalanced /\ NobodyPreempted /\ Acquires

=============================================================================
