------------------------------ MODULE Scheduler ------------------------------
(***************************************************************************)
(* The round robin scheduler of kernel/tasks: scheduler.c, tasks.c and     *)
(* task_queue.c on one CPU, driven by the clock pulses of devices/timer.c. *)
(*                                                                         *)
(* Granularity.  Every critical section of the kernel runs between         *)
(* spinlock_lock and spinlock_unlock, which disable interrupts; on one CPU *)
(* it is one atomic step.  Between two such sections an interrupt may come *)
(* in, and that is the only way in which tasks interleave: the label pc[t] *)
(* is the place, with interrupts enabled, at which task t can be           *)
(* interrupted.  An interrupt is a chain of steps (variable irq) during    *)
(* which no task runs.                                                     *)
(*                                                                         *)
(* Time.  All timestamps are kept relative to time_since_boot_ns, in clock *)
(* pulses: a clock pulse decrements them, a timestamp is reached when it   *)
(* is not positive.  The code only compares timestamps with the current    *)
(* time and with each other, so nothing else about them matters.           *)
(***************************************************************************)
EXTENDS Integers, Sequences

CONSTANTS Root,              \* the task of create_root_task()
          Cleaner,           \* cleanup_task
          Workers,           \* tasks that create_task() may create
          NoTask,            \* the null task pointer
          NoTime,            \* preemption_timestamp_ns = 0, or UINT64_MAX
          TimeSlice,         \* TIME_SLICE_NS, in clock pulses
          MaxSleep,          \* bound: longest sleep, in clock pulses
          Referable, MaxRefs,\* bound: which tasks get_task() is called for, and the
                             \* references it may have handed out for each of them
          BottomHalfPulses   \* bound: clock pulses during one bottom half

Tasks == {Root, Cleaner} \union Workers

ASSUME TasksAssumption ==
  /\ Root # Cleaner /\ Root \notin Workers /\ Cleaner \notin Workers
  /\ NoTask \notin Tasks /\ Referable \subseteq Tasks \ {Cleaner}

ASSUME TimeAssumption ==
  /\ NoTime \notin Int
  /\ MaxSleep \in Nat /\ MaxRefs \in Nat
  /\ TimeSlice \in Nat \ {0}
  /\ BottomHalfPulses \in Nat /\ BottomHalfPulses <= TimeSlice

VARIABLES
  current_task,       \* the running task
  state,              \* task->state; "NONE" for a task object that is not allocated
  block_reason,       \* task->block_reason
  resched,            \* TASK_STATUS_RESCHEDULE of task->status
  task_queue,         \* task->current_task_queue
  ref_count,          \* task->ref_count
  refs,               \* how many of the references in ref_count get_task() took
  sleep_expiry,       \* task->sleep_expiry (0 outside the sleep queue)
  ready_queue, sleep_queue, termination_queue,
  preemption_ts,      \* preemption_timestamp_ns
  preemption_counter,
  earliest_wakeup,    \* scheduler_earliest_wakeup
  preemption_event,   \* event_queue of timer.c: when preemption_callback is called next
  sleep_events,       \* event_queue of timer.c: timestamps of sleep_expiry_callback
  pc, ret,            \* where a task is, and where scheduler_yield() returns to
  newborn,            \* create_task()'s local task, until the scheduler knows it
  irq,                \* the code that runs with interrupts disabled, or "none"
  interrupt_level,
  iter,               \* what is left of the queue an irq loop iterates over
  pulses,             \* clock pulses since the current bottom half began
  panic               \* "no", or the kassert that failed

taskVars  == <<state, block_reason, resched, task_queue, ref_count, refs, sleep_expiry>>
queueVars == <<ready_queue, sleep_queue, termination_queue>>
timeVars  == <<preemption_ts, earliest_wakeup, preemption_event, sleep_events>>
irqVars   == <<irq, interrupt_level, iter, pulses>>
vars == <<current_task, taskVars, queueVars, timeVars, preemption_counter,
          pc, ret, newborn, irqVars, panic>>

States  == {"NONE", "READY_TO_RUN", "RUNNING", "BLOCKED", "BLOCKED_IDLING"}
Reasons == {"SLEEP", "PAUSED", "LOCK_WAIT", "IO_WAIT", "TERMINATED"}

\* The set of the elements of a list.
Elems(s) == {s[i] : i \in DOMAIN s}

\* A bug: task_queue_add_first() instead.
EnqueueFirst(q, t) == <<t>> \o q

\* The list part of task_queue_enqueue().
Enqueue(q, t) == Append(q, t)

\* list_entry_remove() on a list that holds t once.
EntryRemove(s, t) ==
  LET p == CHOOSE i \in DOMAIN s : s[i] = t
  IN  [i \in 1 .. Len(s) - 1 |-> IF i < p THEN s[i] ELSE s[i + 1]]

IsTerminated(t) == state[t] = "BLOCKED" /\ block_reason[t] = "TERMINATED"

\* A timestamp comes before another one, which may be "never".
Before(when, time) == time = NoTime \/ when < time

\* kassert(): the kernel stops at the first assertion that fails.
KAssert(cond, site) == panic' = IF cond THEN panic ELSE site

\* The current task runs, at label l, and nothing interrupts it in this step.
At(t, l) == panic = "no" /\ irq = "none" /\ t = current_task /\ pc[t] = l

Goto(t, l) == pc' = [pc EXCEPT ![t] = l]

-----------------------------------------------------------------------------
\* scheduler_init() and create_root_task(): the root task runs, the cleanup task was
\* created (and is kept referenced by get_task()) and the first preemption is planned.
Init ==
  /\ current_task = Root
  /\ state = [t \in Tasks |-> IF t = Root THEN "RUNNING"
                              ELSE IF t = Cleaner THEN "READY_TO_RUN" ELSE "NONE"]
  /\ block_reason = [t \in Tasks |-> "SLEEP"]
  /\ resched = [t \in Tasks |-> FALSE]
  /\ task_queue = [t \in Tasks |-> IF t = Cleaner THEN "ready" ELSE "none"]
  /\ ref_count = [t \in Tasks |-> IF t = Cleaner THEN 2 ELSE 0]
  /\ refs = [t \in Tasks |-> IF t = Cleaner THEN 1 ELSE 0]
  /\ sleep_expiry = [t \in Tasks |-> 0]
  /\ ready_queue = <<Cleaner>> /\ sleep_queue = <<>> /\ termination_queue = <<>>
  /\ preemption_ts = TimeSlice /\ preemption_counter = 0
  /\ earliest_wakeup = NoTime
  /\ preemption_event = TimeSlice /\ sleep_events = {}
  /\ pc = [t \in Tasks |-> IF t = Cleaner THEN "clean" ELSE "run"]
  /\ ret = [t \in Tasks |-> "run"]
  /\ newborn = [t \in Tasks |-> NoTask]
  /\ irq = "none" /\ interrupt_level = 0 /\ iter = <<>> /\ pulses = 0
  /\ panic = "no"

-----------------------------------------------------------------------------
\* A bug: no preemption is planned.
Unplanned == preemption_ts

\* What unblocking a task does to the planned preemption, and to an idling current task.
PlannedPreemption == IF preemption_ts = NoTime THEN TimeSlice ELSE preemption_ts
NotIdling(s) == IF s = "BLOCKED_IDLING" THEN "BLOCKED" ELSE s

\* scheduler_unblock_task_locked(n), called with the values st, tq and rc of state,
\* task_queue and ref_count.  task_queue_enqueue() is part of it.
UnblockLocked(n, st, tq, rc) ==
  \/ /\ st[n] \notin {"BLOCKED", "BLOCKED_IDLING"}
     /\ state' = st /\ task_queue' = tq /\ ref_count' = rc
     /\ UNCHANGED <<resched, ready_queue, preemption_ts, panic>>
  \/ /\ st[n] \in {"BLOCKED", "BLOCKED_IDLING"} /\ n = current_task
     /\ resched' = [resched EXCEPT ![n] = TRUE]
     /\ state' = [st EXCEPT ![n] = "RUNNING"] /\ task_queue' = tq /\ ref_count' = rc
     /\ UNCHANGED <<ready_queue, preemption_ts, panic>>
  \/ /\ st[n] \in {"BLOCKED", "BLOCKED_IDLING"} /\ n # current_task
     /\ KAssert(tq[n] = "none", "prepare_insert")
     /\ state' = [st EXCEPT ![n] = "READY_TO_RUN",
                            ![current_task] = NotIdling(@)]
     /\ task_queue' = [tq EXCEPT ![n] = "ready"]
     /\ ref_count' = [rc EXCEPT ![n] = @ + 1]
     /\ ready_queue' = Enqueue(ready_queue, n)
     /\ preemption_ts' = PlannedPreemption
     /\ UNCHANGED resched

\* Tasks that tty.c, the one user of scheduler_unblock_task() outside of tasks/, may pass
\* to it: a task that waits for input, or one that does not wait at all.
Unblockable(n) ==
  \/ state[n] \in {"READY_TO_RUN", "RUNNING"}
  \/ state[n] \in {"BLOCKED", "BLOCKED_IDLING"} /\ block_reason[n] = "IO_WAIT"

-----------------------------------------------------------------------------
\* What a task does.

\* create_task(): first the new task object, under task_lock.  A failed allocation
\* returns before anything changes.
CreateTask(t, n) ==
  /\ At(t, "run") /\ state[n] = "NONE"
  /\ state' = [state EXCEPT ![n] = "BLOCKED"]
  /\ newborn' = [newborn EXCEPT ![t] = n]
  /\ Goto(t, "create")
  /\ UNCHANGED <<current_task, block_reason, resched, task_queue, ref_count, refs,
                 sleep_expiry, queueVars, timeVars, preemption_counter, ret, irqVars, panic>>

\* create_task(): then scheduler_unblock_task(), under scheduler_lock.
CreateUnblock(t) ==
  /\ At(t, "create")
  /\ UnblockLocked(newborn[t], state, task_queue, ref_count)
  /\ newborn' = [newborn EXCEPT ![t] = NoTask]
  /\ Goto(t, "run")
  /\ UNCHANGED <<current_task, block_reason, refs, sleep_expiry, sleep_queue,
                 termination_queue, earliest_wakeup, preemption_event, sleep_events,
                 preemption_counter, ret, irqVars>>

\* scheduler_unblock_task(n), from a task.
Unblock(t, n) ==
  /\ At(t, "run") /\ Unblockable(n)
  /\ UnblockLocked(n, state, task_queue, ref_count)
  /\ UNCHANGED <<current_task, block_reason, refs, sleep_expiry, sleep_queue,
                 termination_queue, earliest_wakeup, preemption_event, sleep_events,
                 preemption_counter, pc, ret, newborn, irqVars>>

\* The call of scheduler_yield() that returns to label l.
CallYield(t, l) == Goto(t, "yield") /\ ret' = [ret EXCEPT ![t] = l]

\* mark_task_blocked_locked(): task t is the current one.
MarkBlocked(t, reason) ==
  /\ state' = [state EXCEPT ![t] = "BLOCKED"]
  /\ block_reason' = [block_reason EXCEPT ![t] = reason]

\* scheduler_block_task(), up to its call of scheduler_yield().
BlockTask(t, reason, l) ==
  /\ MarkBlocked(t, reason)
  /\ CallYield(t, l)
  /\ UNCHANGED <<current_task, resched, task_queue, ref_count, refs, sleep_expiry,
                 queueVars, timeVars, preemption_counter, newborn, irqVars, panic>>

Block(t) == At(t, "run") /\ BlockTask(t, "IO_WAIT", "run")

Yield(t) ==
  /\ At(t, "run") /\ CallYield(t, "run")
  /\ UNCHANGED <<current_task, taskVars, queueVars, timeVars, preemption_counter,
                 newborn, irqVars, panic>>

\* scheduler_nano_sleep_until(when).  The early return changes nothing.  Interrupts are
\* enabled between the test of "when" and the locked part, so "when" may have been
\* reached by then.
NanoSleepUntil(t, when) ==
  /\ At(t, "run")
  /\ KAssert(task_queue[t] = "none", "prepare_insert")
  /\ sleep_expiry' = [sleep_expiry EXCEPT ![t] = when]
  /\ sleep_queue' = Enqueue(sleep_queue, t)
  /\ task_queue' = [task_queue EXCEPT ![t] = "sleep"]
  /\ ref_count' = [ref_count EXCEPT ![t] = @ + 1]
  /\ IF Before(when, earliest_wakeup)
     THEN earliest_wakeup' = when /\ sleep_events' = sleep_events \union {when}
     ELSE UNCHANGED <<earliest_wakeup, sleep_events>>
  /\ MarkBlocked(t, "SLEEP")
  /\ CallYield(t, "run")
  /\ UNCHANGED <<current_task, resched, refs, ready_queue, termination_queue,
                 preemption_ts, preemption_event, preemption_counter, newborn, irqVars>>

\* scheduler_terminate_task(), called by new_task_wrapper() when the function of the task
\* returns.  A running task is in no queue, so there is none to remove it from.
Terminate(t) ==
  /\ At(t, "run") /\ t \in Workers
  /\ termination_queue' = Append(termination_queue, t)
  /\ UnblockLocked(Cleaner, [state EXCEPT ![t] = "BLOCKED"], task_queue, ref_count)
  /\ block_reason' = [block_reason EXCEPT ![t] = "TERMINATED"]
  /\ CallYield(t, "unreachable")
  /\ UNCHANGED <<current_task, refs, sleep_expiry, sleep_queue, earliest_wakeup,
                 preemption_event, sleep_events, preemption_counter, newborn, irqVars>>

\* A bug: the task waits without being marked.
WaitUnmarked(t) ==
  /\ At(t, "yield") /\ Goto(t, "wait")
  /\ UNCHANGED <<current_task, taskVars, queueVars, timeVars, preemption_counter, ret, newborn,
                 irqVars, panic>>

\* scheduler_yield(): mark the task, then wait for an interrupt as long as it is marked.
\* An interrupt between the test of the mark and hlt is handled before the task halts.
MarkForReschedule(t) ==
  /\ At(t, "yield")
  /\ resched' = [resched EXCEPT ![t] = TRUE]
  /\ Goto(t, "wait")
  /\ UNCHANGED <<current_task, state, block_reason, task_queue, ref_count, refs,
                 sleep_expiry, queueVars, timeVars, preemption_counter, ret, newborn,
                 irqVars, panic>>

Halt(t) ==
  /\ At(t, "wait") /\ Goto(t, "hlt")
  /\ UNCHANGED <<current_task, taskVars, queueVars, timeVars, preemption_counter, ret,
                 newborn, irqVars, panic>>

\* The test of the loop, and the return; new_task_wrapper() asserts that there is none
\* after scheduler_terminate_task().
YieldTest(t) ==
  /\ At(t, "woken")
  /\ Goto(t, IF resched[t] THEN "wait" ELSE ret[t])
  /\ KAssert(resched[t] \/ ret[t] # "unreachable", "new_task_wrapper")
  /\ UNCHANGED <<current_task, taskVars, queueVars, timeVars, preemption_counter, ret,
                 newborn, irqVars>>

\* get_task() on the tid of n; it returns NULL for a terminated task.
GetTask(t, n) ==
  /\ At(t, "run") /\ state[n] # "NONE" /\ ~IsTerminated(n)
  /\ n \in Referable /\ refs[n] < MaxRefs
  /\ ref_count' = [ref_count EXCEPT ![n] = @ + 1]
  /\ refs' = [refs EXCEPT ![n] = @ + 1]
  /\ UNCHANGED <<current_task, state, block_reason, resched, task_queue, sleep_expiry,
                 queueVars, timeVars, preemption_counter, pc, ret, newborn, irqVars, panic>>

\* put_task() by a task that called get_task().  cleanup_task is never put.
PutTask(t, n) ==
  /\ At(t, "run") /\ n \in Referable /\ refs[n] > 0
  /\ ref_count' = [ref_count EXCEPT ![n] = @ - 1]
  /\ refs' = [refs EXCEPT ![n] = @ - 1]
  /\ UNCHANGED <<current_task, state, block_reason, resched, task_queue, sleep_expiry,
                 queueVars, timeVars, preemption_counter, pc, ret, newborn, irqVars, panic>>

-----------------------------------------------------------------------------
\* cleanup_thread().  The loop over termination_queue runs with interrupts disabled.

CleanupStart ==
  /\ At(Cleaner, "clean")
  /\ irq' = "clean" /\ iter' = termination_queue
  /\ UNCHANGED <<current_task, taskVars, queueVars, timeVars, preemption_counter, pc, ret,
                 newborn, interrupt_level, pulses, panic>>

\* A bug: the state of the freed object is kept.
FreeTaskUncleared(t) ==
  /\ UNCHANGED state
  /\ block_reason' = [block_reason EXCEPT ![t] = "SLEEP"]
  /\ resched' = [resched EXCEPT ![t] = FALSE]
  /\ pc' = [pc EXCEPT ![t] = "run"] /\ ret' = [ret EXCEPT ![t] = "run"]

\* free_task(): the object is gone; a later kalloc() returns it cleared.
FreeTask(t) ==
  /\ state' = [state EXCEPT ![t] = "NONE"]
  /\ block_reason' = [block_reason EXCEPT ![t] = "SLEEP"]
  /\ resched' = [resched EXCEPT ![t] = FALSE]
  /\ pc' = [pc EXCEPT ![t] = "run"] /\ ret' = [ret EXCEPT ![t] = "run"]

\* One iteration.  The assertions are those of cleanup_thread() and of free_task().
CleanupOne ==
  /\ panic = "no" /\ irq = "clean" /\ iter # <<>>
  /\ iter' = Tail(iter)
  /\ LET t == Head(iter) IN
     /\ KAssert(IsTerminated(t) /\ task_queue[t] = "none", "cleanup_thread")
     /\ \/ /\ ref_count[t] = 0
           /\ termination_queue' = EntryRemove(termination_queue, t)
           /\ FreeTask(t)
        \/ /\ ref_count[t] # 0
           /\ UNCHANGED <<state, block_reason, resched, pc, ret, termination_queue>>
  /\ UNCHANGED <<current_task, task_queue, ref_count, refs, sleep_expiry, ready_queue,
                 sleep_queue, timeVars, preemption_counter, newborn, irq, interrupt_level,
                 pulses>>

\* The end of the loop: "empty" decides whether to yield or to pause.
CleanupEnd ==
  /\ panic = "no" /\ irq = "clean" /\ iter = <<>>
  /\ irq' = "none"
  /\ \/ termination_queue # <<>> /\ CallYield(Cleaner, "clean")
     \/ termination_queue = <<>> /\ Goto(Cleaner, "pause") /\ UNCHANGED ret
  /\ UNCHANGED <<current_task, taskVars, queueVars, timeVars, preemption_counter, newborn,
                 interrupt_level, iter, pulses, panic>>

CleanupPause == At(Cleaner, "pause") /\ BlockTask(Cleaner, "PAUSED", "clean")

-----------------------------------------------------------------------------
\* Interrupts: generic_interrupt_handler() around a clock pulse or a device's interrupt.

\* An interrupt ends the hlt of the task it interrupts.
EndHlt == pc' = [pc EXCEPT ![current_task] = IF @ = "hlt" THEN "woken" ELSE @]

Later(time) == IF time = NoTime THEN NoTime ELSE time - 1

\* timer_report_clock_pulse(): time advances.  The clock interrupts a task (level 1) or a
\* bottom half (level 2).
ClockPulse ==
  /\ panic = "no"
  /\ \/ irq = "none" /\ EndHlt /\ UNCHANGED pulses
     \/ irq = "bottom" /\ pulses < BottomHalfPulses /\ pulses' = pulses + 1 /\ UNCHANGED pc
  /\ irq' = "pulse" /\ interrupt_level' = interrupt_level + 1
  /\ preemption_ts' = Later(preemption_ts)
  /\ earliest_wakeup' = Later(earliest_wakeup)
  /\ preemption_event' = preemption_event - 1
  /\ sleep_events' = {e - 1 : e \in sleep_events}
  /\ sleep_expiry' = [t \in Tasks |-> IF task_queue[t] = "sleep" THEN sleep_expiry[t] - 1
                                                                 ELSE sleep_expiry[t]]
  /\ UNCHANGED <<current_task, state, block_reason, resched, task_queue, ref_count, refs,
                 queueVars, preemption_counter, ret, newborn, iter, panic>>

\* A bug: the callback does not forget the wakeup it was called for.
FireSleepKept ==
  /\ panic = "no" /\ irq = "pulse"
  /\ \E e \in sleep_events :
       /\ e <= 0 /\ e <= preemption_event /\ \A f \in sleep_events : e <= f
       /\ sleep_events' = sleep_events \ {e}
  /\ iter' = sleep_queue /\ irq' = "wake"
  /\ UNCHANGED <<current_task, taskVars, queueVars, preemption_ts, earliest_wakeup,
                 preemption_event, preemption_counter, pc, ret, newborn, interrupt_level,
                 pulses, panic>>

\* The loop of timer_report_clock_pulse() takes the events that are due, earliest first:
\* here one of sleep_expiry_callback(), up to its loop over the sleep queue.
FireSleep ==
  /\ panic = "no" /\ irq = "pulse"
  /\ \E e \in sleep_events :
       /\ e <= 0 /\ e <= preemption_event /\ \A f \in sleep_events : e <= f
       /\ sleep_events' = sleep_events \ {e}
  /\ earliest_wakeup' = NoTime
  /\ iter' = sleep_queue /\ irq' = "wake"
  /\ UNCHANGED <<current_task, taskVars, queueVars, preemption_ts, preemption_event,
                 preemption_counter, pc, ret, newborn, interrupt_level, pulses, panic>>

\* A bug: one pulse too early.
ExpiredEarly(t) == sleep_expiry[t] <= 1

Expired(t) == sleep_expiry[t] <= 0

\* One iteration: task_remove_from_current_task_queue() and unblock, or keep sleeping.
WakeOne ==
  /\ panic = "no" /\ irq = "wake" /\ iter # <<>>
  /\ iter' = Tail(iter)
  /\ LET t == Head(iter) IN
     \/ /\ Expired(t)
        /\ sleep_queue' = EntryRemove(sleep_queue, t)
        /\ sleep_expiry' = [sleep_expiry EXCEPT ![t] = 0]
        /\ UnblockLocked(t, state, [task_queue EXCEPT ![t] = "none"],
                         [ref_count EXCEPT ![t] = @ - 1])
        /\ UNCHANGED earliest_wakeup
     \/ /\ ~Expired(t)
        /\ earliest_wakeup' = IF Before(sleep_expiry[t], earliest_wakeup)
                              THEN sleep_expiry[t] ELSE earliest_wakeup
        /\ UNCHANGED <<state, resched, task_queue, ref_count, sleep_expiry, ready_queue,
                       sleep_queue, preemption_ts, panic>>
  /\ UNCHANGED <<current_task, block_reason, refs, termination_queue, preemption_event,
                 sleep_events, preemption_counter, pc, ret, newborn, irq, interrupt_level,
                 pulses>>

WakeDone ==
  /\ panic = "no" /\ irq = "wake" /\ iter = <<>>
  /\ irq' = "pulse"
  /\ sleep_events' = sleep_events \union ({earliest_wakeup} \ {NoTime})
  /\ UNCHANGED <<current_task, taskVars, queueVars, preemption_ts, earliest_wakeup,
                 preemption_event, preemption_counter, pc, ret, newborn, interrupt_level,
                 iter, pulses, panic>>

Preemptible == preemption_counter = 0

\* preemption_callback(): preempt the current task if it is time to and if preemption is
\* enabled, and register the next callback.
FirePreemption ==
  /\ panic = "no" /\ irq = "pulse"
  /\ preemption_event <= 0 /\ \A e \in sleep_events : preemption_event <= e
  /\ \/ /\ preemption_ts = NoTime
        /\ preemption_event' = TimeSlice
        /\ UNCHANGED <<resched, panic>>
     \/ /\ preemption_ts = 0
        /\ preemption_event' = TimeSlice
        /\ resched' = IF Preemptible THEN [resched EXCEPT ![current_task] = TRUE] ELSE resched
        /\ KAssert(Preemptible => state[current_task] # "BLOCKED_IDLING",
                   "preempted_idle")
     \/ /\ preemption_ts \notin {0, NoTime}
        /\ KAssert(preemption_ts > 0, "late_preemption")
        /\ preemption_event' = preemption_ts
        /\ UNCHANGED resched
  /\ UNCHANGED <<current_task, state, block_reason, task_queue, ref_count, refs,
                 sleep_expiry, queueVars, preemption_ts, earliest_wakeup, sleep_events,
                 preemption_counter, pc, ret, newborn, irqVars>>

\* No event is due any more: back to the bottom half, or to the end of the interrupt.
PulseDone ==
  /\ panic = "no" /\ irq = "pulse"
  /\ preemption_event > 0 /\ \A e \in sleep_events : e > 0
  /\ \/ interrupt_level = 2 /\ irq' = "bottom" /\ interrupt_level' = 1
     \/ interrupt_level = 1 /\ irq' = "eoi" /\ UNCHANGED interrupt_level
  /\ UNCHANGED <<current_task, taskVars, queueVars, timeVars, preemption_counter, pc, ret,
                 newborn, iter, pulses, panic>>

\* The interrupt of a device, whose bottom half runs with interrupts enabled.
DeviceInterrupt ==
  /\ panic = "no" /\ irq = "none" /\ EndHlt
  /\ irq' = "bottom" /\ interrupt_level' = 1
  /\ UNCHANGED <<current_task, taskVars, queueVars, timeVars, preemption_counter, ret,
                 newborn, iter, pulses, panic>>

\* scheduler_unblock_task(n), from a bottom half.
BottomUnblock(n) ==
  /\ panic = "no" /\ irq = "bottom" /\ Unblockable(n)
  /\ UnblockLocked(n, state, task_queue, ref_count)
  /\ UNCHANGED <<current_task, block_reason, refs, sleep_expiry, sleep_queue,
                 termination_queue, earliest_wakeup, preemption_event, sleep_events,
                 preemption_counter, pc, ret, newborn, irqVars>>

BottomDone ==
  /\ panic = "no" /\ irq = "bottom"
  /\ irq' = "eoi" /\ pulses' = 0
  /\ UNCHANGED <<current_task, taskVars, queueVars, timeVars, preemption_counter, pc, ret,
                 newborn, interrupt_level, iter, panic>>

\* A bug: a task that goes on stays marked.
ScheduleNoneMarked ==
  /\ ready_queue = <<>>
  /\ preemption_ts' = NoTime
  /\ KAssert(state[current_task] \in {"RUNNING", "BLOCKED"}, "do_schedule_state")
  /\ state' = [state EXCEPT ![current_task] = IF @ = "BLOCKED" THEN "BLOCKED_IDLING" ELSE @]
  /\ UNCHANGED <<current_task, resched, ready_queue, task_queue, ref_count>>

\* do_schedule() when task_queue_dequeue() returns NULL: go on, or idle.
ScheduleNone ==
  /\ ready_queue = <<>>
  /\ preemption_ts' = NoTime
  /\ KAssert(state[current_task] \in {"RUNNING", "BLOCKED"}, "do_schedule_state")
  /\ resched' = IF state[current_task] = "RUNNING"
                THEN [resched EXCEPT ![current_task] = FALSE] ELSE resched
  /\ state' = [state EXCEPT ![current_task] = IF @ = "BLOCKED" THEN "BLOCKED_IDLING" ELSE @]
  /\ UNCHANGED <<current_task, ready_queue, task_queue, ref_count>>

\* Whether do_schedule() puts the current task c back into ready_queue.
Requeued(c) == state[c] = "RUNNING"

\* do_schedule() when it finds a task n to run, with the context switch that follows it in
\* interrupt_handlers.S.  A current task that can go on is queued behind all others.
ScheduleNext ==
  /\ ready_queue # <<>>
  /\ LET n == Head(ready_queue)
         c == current_task
     IN /\ KAssert(n # c /\ (Requeued(c) => task_queue[c] = "none"), "do_schedule_queue")
        /\ current_task' = n
        /\ state' = [state EXCEPT ![n] = "RUNNING",
                                  ![c] = IF Requeued(c) THEN "READY_TO_RUN" ELSE @]
        /\ resched' = [resched EXCEPT ![c] = FALSE]
        /\ task_queue' = [task_queue EXCEPT ![n] = "none",
                                            ![c] = IF Requeued(c) THEN "ready" ELSE @]
        /\ ref_count' = [ref_count EXCEPT ![n] = @ - 1,
                                          ![c] = IF Requeued(c) THEN @ + 1 ELSE @]
        /\ ready_queue' = IF Requeued(c) THEN Enqueue(Tail(ready_queue), c)
                                          ELSE Tail(ready_queue)
        /\ preemption_ts' = IF ready_queue' # <<>> THEN TimeSlice ELSE NoTime

\* Whether scheduler_end_of_interrupt() calls do_schedule().
Schedules == resched[current_task] /\ state[current_task] # "BLOCKED_IDLING"

\* scheduler_end_of_interrupt().
EndOfInterrupt ==
  /\ panic = "no" /\ irq = "eoi"
  /\ irq' = "none" /\ interrupt_level' = 0
  /\ \/ /\ Schedules
        /\ preemption_counter' = 0
        /\ ScheduleNone \/ ScheduleNext
     \/ /\ ~Schedules
        /\ UNCHANGED <<current_task, state, resched, task_queue, ref_count, ready_queue,
                       preemption_ts, preemption_counter, panic>>
  /\ UNCHANGED <<block_reason, refs, sleep_expiry, sleep_queue, termination_queue,
                 earliest_wakeup, preemption_event, sleep_events, pc, ret, newborn, iter,
                 pulses>>

-----------------------------------------------------------------------------
\* What the kernel has to do once it is there, and what its users may or may not do.
KernelStep(t) ==
  \/ CreateUnblock(t) \/ MarkForReschedule(t) \/ Halt(t) \/ YieldTest(t)
Cleanup == CleanupStart \/ CleanupOne \/ CleanupEnd \/ CleanupPause
Isr == \/ FireSleep \/ WakeOne \/ WakeDone \/ FirePreemption \/ PulseDone \/ BottomDone
       \/ EndOfInterrupt

UserStep(t) ==
  \/ Block(t) \/ Yield(t) \/ Terminate(t)
  \/ \E when \in -1 .. MaxSleep : NanoSleepUntil(t, when)
  \/ \E n \in Tasks : CreateTask(t, n) \/ Unblock(t, n) \/ GetTask(t, n) \/ PutTask(t, n)

Next ==
  \/ \E t \in Tasks : KernelStep(t) \/ UserStep(t)
  \/ Cleanup \/ Isr
  \/ ClockPulse \/ DeviceInterrupt
  \/ \E n \in Tasks : BottomUnblock(n)

Spec == Init /\ [][Next]_vars

\* Fairness: an interrupt handler runs to its end; the CPU executes the code that the
\* current task is in, interrupts only delay it (hence strong fairness); the interrupt
\* controller latches a clock pulse until it can be delivered.  Nothing is assumed of what
\* the users of the scheduler do.
Fairness ==
  /\ WF_vars(Isr) /\ SF_vars(ClockPulse)
  /\ SF_vars(Cleanup) /\ \A t \in Tasks : SF_vars(KernelStep(t))

FairSpec == Spec /\ Fairness

-----------------------------------------------------------------------------
\* The labels of a task: in the code it runs, in create_task(), scheduler_yield() and
\* cleanup_thread(), and in the semaphores of locking.c.
TaskLabels ==
  {"run", "create", "yield", "wait", "hlt", "woken", "unreachable", "clean", "pause"} \union
  {"wait_again", "wait_exchange", "wait_disable", "wait_enqueue", "wait_block",
   "signal_disable", "signal_dequeue", "signal_unblock", "signal_enable"}

\* Type correctness: what the fields of task_t and the scheduler's variables may hold.
TypeOK ==
  /\ current_task \in Tasks
  /\ state \in [Tasks -> States] /\ block_reason \in [Tasks -> Reasons]
  /\ resched \in [Tasks -> BOOLEAN]
  /\ task_queue \in [Tasks -> {"none", "ready", "sleep", "wait"}]
  /\ ref_count \in [Tasks -> Int] /\ refs \in [Tasks -> Nat]
  /\ sleep_expiry \in [Tasks -> Int]
  /\ ready_queue \in Seq(Tasks) /\ sleep_queue \in Seq(Tasks)
  /\ termination_queue \in Seq(Tasks)
  /\ preemption_ts \in Int \union {NoTime} /\ earliest_wakeup \in Int \union {NoTime}
  /\ preemption_event \in Int /\ sleep_events \in SUBSET Int
  /\ preemption_counter \in Nat
  /\ pc \in [Tasks -> TaskLabels]
  /\ ret \in [Tasks -> {"run", "clean", "unreachable", "wait_again"}]
  /\ newborn \in [Tasks -> Tasks \union {NoTask}]
  /\ irq \in {"none", "clean", "pulse", "wake", "bottom", "eoi"}
  /\ interrupt_level \in 0 .. 2 /\ iter \in Seq(Tasks) /\ pulses \in 0 .. BottomHalfPulses

NoDuplicates(s) == \A i, j \in DOMAIN s : s[i] = s[j] => i = j

\* The queues and the task objects agree: a task is in at most one queue, at most once; it
\* is in ready_queue exactly when it is READY_TO_RUN, a task in sleep_queue is blocked, and
\* the cleanup thread finds exactly the terminated tasks in termination_queue.
QueuesAgree ==
  /\ NoDuplicates(ready_queue) /\ NoDuplicates(sleep_queue)
  /\ NoDuplicates(termination_queue)
  /\ \A t \in Tasks :
       /\ t \in Elems(ready_queue) <=> task_queue[t] = "ready"
       /\ t \in Elems(ready_queue) <=> state[t] = "READY_TO_RUN"
       /\ t \in Elems(sleep_queue) <=> task_queue[t] = "sleep"
       /\ t \in Elems(sleep_queue) =>
            state[t] \in {"BLOCKED", "BLOCKED_IDLING"} /\ block_reason[t] = "SLEEP"
       /\ t \in Elems(termination_queue) <=> IsTerminated(t)

\* The reference count of a task object is the number of references get_task() handed out,
\* and one for the queue it is in: cleanup_thread() may free at 0 and only there.
RefCountExact ==
  \A t \in Tasks : ref_count[t] = refs[t] + (IF task_queue[t] = "none" THEN 0 ELSE 1)

\* Only the current task runs or idles, and it is never queued to run while it does.
OneRunning ==
  /\ state[current_task] \in {"RUNNING", "BLOCKED", "BLOCKED_IDLING"}
  /\ \A t \in Tasks \ {current_task} :
       state[t] \notin {"RUNNING", "BLOCKED_IDLING"} /\ ~resched[t]

\* As long as a task is ready to run, a preemption of the current one is planned, and
\* preemption_callback() is called at or before the planned time.
PreemptionPlanned ==
  /\ ready_queue # <<>> <=> preemption_ts # NoTime
  /\ preemption_ts # NoTime => preemption_event <= preemption_ts \/ resched[current_task]

\* The CPU idles only while no task is ready, and an idling task still waits in
\* scheduler_yield() for its rescheduling.
IdleOnlyIfNothingReady ==
  \A t \in Tasks : state[t] = "BLOCKED_IDLING" => ready_queue = <<>> /\ resched[t]

\* Every sleeping task has a timed event of sleep_expiry_callback() at or before its
\* expiry (while the callback itself runs, it has one or the loop still has to visit it).
SleeperHasAlarm ==
  \A t \in Elems(sleep_queue) :
    \/ \E e \in sleep_events : e <= sleep_expiry[t]
    \/ irq = "wake" /\ (t \in Elems(iter) \/ ~Before(sleep_expiry[t], earliest_wakeup))

\* No assertion of scheduler.c, tasks.c and task_queue.c fails.
NoPanic == panic = "no"

\* A terminated task never comes back: it stays terminated until it is freed.
TerminatedStays ==
  [][\A t \in Tasks : IsTerminated(t) => IsTerminated(t)' \/ state'[t] = "NONE"]_vars

\* A sleeping task is not woken before its time, by whatever interrupt or task.
NoEarlyWakeup ==
  [][\A t \in Elems(sleep_queue) : t \notin Elems(sleep_queue') => sleep_expiry[t] <= 0]_vars

\* The scheduler is a round robin scheduler: the running task, if the current task is not
\* blocked, and ready_queue behave as RoundRobin says.
Running == IF state[current_task] = "RUNNING" THEN current_task ELSE NoTask
RR == INSTANCE RoundRobin WITH running <- Running, ready <- ready_queue
IsRoundRobin == RR!Spec

\* With fairness: the line of ready tasks moves, so every ready task gets the CPU, whatever
\* the tasks do that run before it.
ServesReadyTasks == RR!FairSpec

\* Every sleeping task is woken.
SleeperWakes ==
  \A t \in Tasks : task_queue[t] = "sleep" ~> task_queue[t] # "sleep"

InYield(t) == pc[t] \in {"yield", "wait", "hlt", "woken"}

\* scheduler_yield() returns: a task in it that is not blocked gets out of its loop, also
\* when the interrupt that rescheduled it came before the task had executed hlt.
YieldReturns ==
  \A t \in Tasks :
    InYield(t) /\ state[t] \in {"READY_TO_RUN", "RUNNING"} ~> ~InYield(t)

\* cleanup_thread() pauses only when its work is done.
PausesWhenDone ==
  state[Cleaner] \in {"BLOCKED", "BLOCKED_IDLING"} => termination_queue = <<>>

-----------------------------------------------------------------------------
(***************************************************************************)
(* The inductive invariant: what the safety properties need to know of the *)
(* labels of the tasks, of the phases of an interrupt and of the           *)
(* timestamps, to be preserved by every step.  Consistent is the part that *)
(* also holds while locking.c disables preemption; OnTime adds what is     *)
(* true of the timestamps as long as nobody does.                          *)
(***************************************************************************)
\* The phases of an interrupt, and what the two loops that run with interrupts disabled
\* still have to visit.
Phases ==
  /\ irq \in {"none", "clean"} => interrupt_level = 0
  /\ irq \in {"bottom", "eoi"} => interrupt_level = 1
  /\ irq \in {"pulse", "wake"} => interrupt_level \in {1, 2}
  /\ irq \notin {"bottom", "pulse", "wake"} => pulses = 0
  /\ irq \in {"pulse", "wake"} /\ interrupt_level = 1 => pulses = 0
  /\ interrupt_level = 2 => pulses > 0
  /\ irq \notin {"wake", "clean"} => iter = <<>>
  /\ irq = "clean" => current_task = Cleaner /\ pc[Cleaner] = "clean"

\* A loop visits every entry of its queue once.
Loops ==
  /\ NoDuplicates(iter)
  /\ irq = "wake" => Elems(iter) \subseteq Elems(sleep_queue)
  /\ irq = "clean" => Elems(iter) \subseteq Elems(termination_queue)

\* Where the current task can be, given its state; a task that is blocked in the loop of
\* scheduler_yield() stays marked for rescheduling.
Labels ==
  /\ ~InYield(current_task) => state[current_task] = "RUNNING"
  /\ pc[current_task] \in {"wait", "hlt", "woken"} =>
       state[current_task] = "RUNNING" \/ resched[current_task]
  /\ \/ pc[Cleaner] \in {"clean", "pause"}
     \/ InYield(Cleaner) /\ ret[Cleaner] = "clean"

\* The life of a task: only workers terminate and are freed, and the rest of a terminated
\* task is its endless call of scheduler_yield(), in which it always finds a successor.
Lives ==
  /\ task_queue[Cleaner] \in {"none", "ready"}
  /\ \A t \in Tasks :
       /\ block_reason[t] = "TERMINATED" => state[t] = "BLOCKED" /\ t \in Workers /\ InYield(t)
       /\ ret[t] = "unreachable" => block_reason[t] = "TERMINATED"
       /\ state[t] = "NONE" => t \in Workers /\ block_reason[t] = "SLEEP"
  /\ IsTerminated(current_task) => ready_queue # <<>>

\* A task in the queue of a semaphore is blocked there, or it is about to block and no
\* preemption can come in between.
Waits ==
  \A t \in Tasks : task_queue[t] = "wait" =>
    \/ state[t] \in {"BLOCKED", "BLOCKED_IDLING"} /\ block_reason[t] = "LOCK_WAIT"
    \/ /\ t = current_task /\ state[t] = "RUNNING" /\ pc[t] = "wait_block"
       /\ ~resched[t] /\ preemption_counter > 0

\* Between the two critical sections of create_task() the new task is known to its creator
\* only, and nothing but the creator's second one can make it ready.
Newborns ==
  \A t \in Tasks :
    /\ pc[t] = "create" <=> newborn[t] # NoTask
    /\ newborn[t] # NoTask =>
         /\ newborn[t] \in Workers \ {current_task} /\ state[newborn[t]] = "BLOCKED"
         /\ block_reason[newborn[t]] = "SLEEP" /\ task_queue[newborn[t]] = "none"
         /\ \A u \in Tasks : newborn[u] = newborn[t] => u = t

\* preemption_callback() is never overdue; after it has marked the current task, the
\* timestamp is stale until the end of the interrupt, which comes within a time slice.
Timing ==
  /\ preemption_event <= TimeSlice
  /\ preemption_event >= 0 /\ (irq \notin {"pulse", "wake"} => preemption_event > 0)
  /\ preemption_ts # NoTime =>
       /\ preemption_ts <= TimeSlice
       /\ \/ preemption_event <= preemption_ts
          \/ /\ resched[current_task] /\ irq \notin {"none", "clean"}
             /\ preemption_event = TimeSlice + preemption_ts
             /\ irq = "bottom" \/ interrupt_level = 2 => -preemption_ts < pulses
             /\ irq \in {"pulse", "wake"} /\ interrupt_level = 1 => preemption_ts = 0

\* Outside of sleep_expiry_callback() the earliest wakeup has its timed event.
AlarmSet ==
  irq # "wake" /\ earliest_wakeup # NoTime => earliest_wakeup \in sleep_events

\* A preemption is planned exactly while a task is ready.
Planned == ready_queue # <<>> <=> preemption_ts # NoTime

\* The one assertion that can fail while preemption is disabled.
OnlyLate == panic \in {"no", "late_preemption"}

\* The scheduler's data structures are consistent between any two steps of scheduler.c,
\* tasks.c, task_queue.c and locking.c.
Consistent ==
  /\ TypeOK /\ Phases /\ Loops /\ Labels /\ Lives /\ Waits /\ Newborns /\ AlarmSet
  /\ QueuesAgree /\ RefCountExact /\ OneRunning /\ IdleOnlyIfNothingReady
  /\ Planned /\ SleeperHasAlarm /\ OnlyLate

\* With preemption enabled all the time, it also happens when it is planned.
OnTime == preemption_counter = 0 /\ Timing /\ NoPanic

\* The inductive invariant.
IndInv == Consistent /\ OnTime

=============================================================================
