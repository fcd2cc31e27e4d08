--------------------------- MODULE SchedulerSteps ---------------------------
(***************************************************************************)
(* Facts that the proofs about the scheduler share: what the operations of *)
(* list.c do to the entries of a list; what a step that leaves parts of the*)
(* state alone preserves; and what making a task ready does to the state.  *)
(* Then the operations of the tasks, one lemma each: they preserve the     *)
(* consistency of the scheduler.                                           *)
(***************************************************************************)
EXTENDS Scheduler, TLAPS

\* A list is empty exactly when it has no entries (LIST_EMPTY).
LEMMA EmptyList ==
  ASSUME NEW T, NEW s \in Seq(T)
  PROVE  s = <<>> <=> Elems(s) = {}
<1>1. CASE s = <<>>
  BY <1>1 DEF Elems
<1>2. CASE s # <<>>
  <2>1. 1 \in DOMAIN s
    BY <1>2
  <2> QED BY <1>2, <2>1 DEF Elems
<1> QED BY <1>1, <1>2

\* The entries of a list over T are elements of T.
LEMMA ElemsType ==
  ASSUME NEW T, NEW s \in Seq(T)
  PROVE  Elems(s) \subseteq T
BY DEF Elems

\* list_add_last().
LEMMA AppendList ==
  ASSUME NEW T, NEW s \in Seq(T), NEW t \in T
  PROVE  /\ Append(s, t) \in Seq(T) /\ Append(s, t) # <<>>
         /\ Elems(Append(s, t)) = Elems(s) \union {t}
         /\ NoDuplicates(s) /\ t \notin Elems(s) => NoDuplicates(Append(s, t))
<1> DEFINE a == Append(s, t)
<1>1. /\ a \in Seq(T) /\ Len(a) = Len(s) + 1 /\ a[Len(s) + 1] = t
      /\ \A i \in 1 .. Len(s) : a[i] = s[i]
  OBVIOUS
<1>2. DOMAIN a = 1 .. Len(s) + 1 /\ DOMAIN s = 1 .. Len(s) /\ Len(s) \in Nat
  BY <1>1
<1>3. Elems(a) = Elems(s) \union {t}
  <2>1. \A x \in Elems(a) : x \in Elems(s) \union {t}
    BY <1>1, <1>2 DEF Elems
  <2>2. \A x \in Elems(s) : x \in Elems(a)
    BY <1>1, <1>2 DEF Elems
  <2>3. t \in Elems(a)
    BY <1>1, <1>2 DEF Elems
  <2> QED BY <2>1, <2>2, <2>3
<1>4. NoDuplicates(s) /\ t \notin Elems(s) => NoDuplicates(a)
  BY <1>1, <1>2 DEF NoDuplicates, Elems
<1> QED BY <1>1, <1>3, <1>4

\* list_add_last() of a task that is not in the list.
LEMMA AppendNew ==
  ASSUME NEW s \in Seq(Tasks), NEW t \in Tasks, NoDuplicates(s), t \notin Elems(s),
         NEW r, r = Append(s, t)
  PROVE  /\ r \in Seq(Tasks) /\ r # <<>> /\ NoDuplicates(r)
         /\ Elems(r) = Elems(s) \union {t}
BY AppendList

\* list_remove_first(), and the step of an iteration to the next entry.
LEMMA TailList ==
  ASSUME NEW T, NEW s \in Seq(T), s # <<>>
  PROVE  /\ Head(s) \in T /\ Head(s) \in Elems(s) /\ Tail(s) \in Seq(T)
         /\ Elems(Tail(s)) \subseteq Elems(s) /\ Elems(s) = Elems(Tail(s)) \union {Head(s)}
         /\ NoDuplicates(s) => /\ NoDuplicates(Tail(s))
                               /\ Elems(Tail(s)) = Elems(s) \ {Head(s)}
<1> DEFINE r == Tail(s)
<1>1. /\ r \in Seq(T) /\ Len(r) = Len(s) - 1 /\ Len(s) \in Nat /\ Len(s) > 0
      /\ Head(s) = s[1] /\ \A i \in 1 .. Len(r) : r[i] = s[i + 1]
  OBVIOUS
<1>2. DOMAIN r = 1 .. Len(s) - 1 /\ DOMAIN s = 1 .. Len(s)
  BY <1>1
<1>3. Head(s) \in T /\ Head(s) \in Elems(s)
  BY <1>1, <1>2 DEF Elems
<1>4. Elems(s) = Elems(r) \union {Head(s)}
  <2>1. \A x \in Elems(r) : x \in Elems(s)
    BY <1>1, <1>2 DEF Elems
  <2>2. ASSUME NEW x \in Elems(s), x # Head(s) PROVE x \in Elems(r)
    <3>1. PICK i \in DOMAIN s : x = s[i]
      BY DEF Elems
    <3>2. i - 1 \in DOMAIN r /\ r[i - 1] = x
      BY <1>1, <1>2, <2>2, <3>1
    <3> QED BY <3>2 DEF Elems
  <2> QED BY <2>1, <2>2, <1>3
<1>5. ASSUME NoDuplicates(s) PROVE NoDuplicates(r) /\ Head(s) \notin Elems(r)
  <2>1. \A i, j \in 1 .. Len(s) : s[i] = s[j] => i = j
    BY <1>5, <1>2 DEF NoDuplicates
  <2>2. NoDuplicates(r)
    BY <1>1, <1>2, <2>1 DEF NoDuplicates
  <2>3. \A i \in 1 .. Len(s) - 1 : r[i] # s[1]
    BY <1>1, <2>1
  <2> QED BY <1>1, <1>2, <2>2, <2>3 DEF Elems
<1> QED BY <1>1, <1>3, <1>4, <1>5

\* list_entry_remove().
LEMMA RemoveFromList ==
  ASSUME NEW T, NEW s \in Seq(T), NEW t \in Elems(s), NoDuplicates(s)
  PROVE  /\ EntryRemove(s, t) \in Seq(T) /\ NoDuplicates(EntryRemove(s, t))
         /\ Elems(EntryRemove(s, t)) = Elems(s) \ {t}
<1> DEFINE p == CHOOSE i \in DOMAIN s : s[i] = t
           n == Len(s)
           r == [i \in 1 .. n - 1 |-> IF i < p THEN s[i] ELSE s[i + 1]]
<1>1. p \in DOMAIN s /\ s[p] = t
  BY DEF Elems
<1>2. n \in Nat /\ DOMAIN s = 1 .. n /\ p \in 1 .. n /\ n >= 1
  BY <1>1
<1>3. r \in Seq(T) /\ Len(r) = n - 1 /\ DOMAIN r = 1 .. n - 1
  <2>1. \A i \in 1 .. n - 1 : r[i] \in T
    BY <1>2
  <2>2. n - 1 \in Nat
    BY <1>2
  <2> HIDE DEF p
  <2>3. r \in Seq(T)
    BY <2>1, <2>2
  <2> QED BY <2>2, <2>3
<1>4. \A i, j \in 1 .. n : s[i] = s[j] => i = j
  BY <1>2 DEF NoDuplicates
<1> HIDE DEF p, n
<1>5. NoDuplicates(r)
  BY <1>2, <1>3, <1>4 DEF NoDuplicates
<1>6. \A i \in 1 .. n - 1 : r[i] # t /\ r[i] \in Elems(s)
  BY <1>1, <1>2, <1>4 DEF Elems
<1>7. ASSUME NEW x \in Elems(s), x # t PROVE x \in Elems(r)
  <2>1. PICK i \in 1 .. n : x = s[i]
    BY <1>2 DEF Elems
  <2>2. CASE i < p
    <3>1. i \in 1 .. n - 1 /\ r[i] = s[i]
      BY <2>1, <2>2, <1>2
    <3> QED BY <2>1, <3>1, <1>3 DEF Elems
  <2>3. CASE i > p
    <3>1. i - 1 \in 1 .. n - 1 /\ r[i - 1] = s[i]
      BY <2>1, <2>3, <1>2
    <3> QED BY <3>1, <2>1, <1>3 DEF Elems
  <2> QED BY <2>1, <2>2, <2>3, <1>1, <1>2, <1>7
<1>8. Elems(r) = Elems(s) \ {t}
  BY <1>3, <1>6, <1>7 DEF Elems
<1>9. r = EntryRemove(s, t)
  BY DEF EntryRemove, p, n
<1> QED BY <1>3, <1>5, <1>8, <1>9


\* A task that runs, that waits for something else than its alarm or that does not exist is
\* in neither of the queues.
LEMMA InNoQueue ==
  ASSUME TypeOK, Waits, QueuesAgree, NEW n \in Tasks,
         \/ state[n] = "NONE"
         \/ state[n] = "RUNNING" /\ (pc[n] # "wait_block" \/ resched[n])
         \/ state[n] \in {"BLOCKED", "BLOCKED_IDLING"} /\ block_reason[n] \notin {"SLEEP", "LOCK_WAIT"}
  PROVE  task_queue[n] = "none" /\ n \notin Elems(ready_queue) /\ n \notin Elems(sleep_queue)
<1>1. state[n] # "READY_TO_RUN"
  OBVIOUS
<1>2. task_queue[n] # "ready"  /\ n \notin Elems(ready_queue)
  BY <1>1 DEF QueuesAgree
<1>3. task_queue[n] # "sleep"  /\ n \notin Elems(sleep_queue)
  BY DEF QueuesAgree
<1>4. task_queue[n] # "wait"
  BY DEF Waits
<1>5. task_queue[n] \in {"none", "ready", "sleep", "wait"}
  BY DEF TypeOK
<1> QED BY <1>2, <1>3, <1>4, <1>5

\* Each part of the invariant stays true while the variables it is about do not change.
LEMMA Frame ==
  ASSUME Consistent
  PROVE  /\ UNCHANGED <<irqVars, current_task, pc>> => Phases'
         /\ UNCHANGED <<irqVars, sleep_queue, termination_queue>> => Loops'
         /\ UNCHANGED <<current_task, state, resched, pc, ret>> => Labels'
         /\ /\ UNCHANGED <<current_task, state, block_reason, resched, task_queue,
                           preemption_counter>>
            /\ pc[current_task] # "wait_block" \/ pc'[current_task] = "wait_block"
            => Waits'
         /\ UNCHANGED <<irq, earliest_wakeup, sleep_events>> => AlarmSet'
         /\ UNCHANGED <<queueVars, state, block_reason, task_queue>> => QueuesAgree'
         /\ UNCHANGED <<ref_count, refs, task_queue>> => RefCountExact'
         /\ UNCHANGED <<current_task, state, resched>> => OneRunning'
         /\ UNCHANGED <<state, resched, ready_queue>> => IdleOnlyIfNothingReady'
         /\ UNCHANGED <<ready_queue, preemption_ts>> => Planned'
         /\ UNCHANGED <<sleep_queue, sleep_events, sleep_expiry, irq, iter, earliest_wakeup>>
              => SleeperHasAlarm'
         /\ UNCHANGED panic => OnlyLate'
<1> USE DEF Consistent, irqVars, queueVars
<1>1. UNCHANGED <<irqVars, current_task, pc>> => Phases'
  BY DEF Phases
<1>2. UNCHANGED <<irqVars, sleep_queue, termination_queue>> => Loops'
  BY DEF Loops
<1>3. UNCHANGED <<current_task, state, resched, pc, ret>> => Labels'
  BY DEF Labels, InYield
<1>4. /\ UNCHANGED <<current_task, state, block_reason, resched, task_queue,
                     preemption_counter>>
      /\ pc[current_task] # "wait_block" \/ pc'[current_task] = "wait_block"
      => Waits'
  BY DEF Waits
<1>5. UNCHANGED <<irq, earliest_wakeup, sleep_events>> => AlarmSet'
  BY DEF AlarmSet
<1>6. UNCHANGED <<queueVars, state, block_reason, task_queue>> => QueuesAgree'
  BY DEF QueuesAgree, IsTerminated
<1>7. UNCHANGED <<ref_count, refs, task_queue>> => RefCountExact'
  BY DEF RefCountExact
<1>8. UNCHANGED <<current_task, state, resched>> => OneRunning'
  BY DEF OneRunning
<1>9. UNCHANGED <<state, resched, ready_queue>> => IdleOnlyIfNothingReady'
  BY DEF IdleOnlyIfNothingReady
<1>10. UNCHANGED <<ready_queue, preemption_ts>> => Planned'
  BY DEF Planned
<1>11. UNCHANGED <<sleep_queue, sleep_events, sleep_expiry, irq, iter, earliest_wakeup>>
         => SleeperHasAlarm'
  BY DEF SleeperHasAlarm, Before
<1>12. UNCHANGED panic => OnlyLate'
  BY DEF OnlyLate
<1> QED BY <1>1, <1>2, <1>3, <1>4, <1>5, <1>6, <1>7, <1>8, <1>9, <1>10, <1>11, <1>12

\* With interrupts enabled, the phase of the interrupts depends on no label.
LEMMA InTask ==
  ASSUME Consistent, irq = "none", UNCHANGED irqVars
  PROVE  Phases'
BY DEF Consistent, Phases, irqVars

\* Labels may change as long as a terminated task stays in scheduler_yield().
LEMMA LivesStay ==
  ASSUME Consistent, UNCHANGED <<current_task, state, block_reason, task_queue, ready_queue>>,
         \A x \in Tasks : block_reason[x] = "TERMINATED" /\ InYield(x) => InYield(x)',
         \A x \in Tasks : ret'[x] = "unreachable" => ret[x] = "unreachable"
  PROVE  Lives'
BY DEF Consistent, Lives, IsTerminated

\* Labels other than the one between the two critical sections of create_task() may change.
LEMMA NewbornsStay ==
  ASSUME Consistent, UNCHANGED <<current_task, state, block_reason, task_queue, newborn>>,
         \A x \in Tasks : pc'[x] = "create" <=> pc[x] = "create"
  PROVE  Newborns'
BY DEF Consistent, Newborns

\* A step may make tasks ready, running or idle, as long as it leaves the terminated ones alone.
LEMMA LivesStep ==
  ASSUME Consistent, UNCHANGED <<block_reason, ret>>,
         task_queue'[Cleaner] \in {"none", "ready"},
         \A x \in Tasks : block_reason[x] = "TERMINATED" => state'[x] = state[x] /\ InYield(x)',
         \A x \in Tasks : state'[x] = "NONE" => state[x] = "NONE",
         IsTerminated(current_task)' => ready_queue' # <<>>
  PROVE  Lives'
<1>1. ASSUME NEW x \in Tasks
      PROVE  /\ block_reason'[x] = "TERMINATED" =>
                  state'[x] = "BLOCKED" /\ x \in Workers /\ InYield(x)'
             /\ ret'[x] = "unreachable" => block_reason'[x] = "TERMINATED"
             /\ state'[x] = "NONE" => x \in Workers /\ block_reason'[x] = "SLEEP"
  BY DEF Consistent, Lives
<1> QED BY <1>1, Zenon DEF Lives

\* A step may also take tasks out of the queue of a semaphore, or change others than the ones
\* in it, if the current task is not about to block there.
LEMMA WaitsStep ==
  ASSUME Consistent,
         \A x \in Tasks : task_queue'[x] = "wait" => task_queue[x] = "wait",
         \A x \in Tasks : task_queue[x] = "wait" /\ state[x] \in {"BLOCKED", "BLOCKED_IDLING"} =>
           state'[x] \in {"BLOCKED", "BLOCKED_IDLING"} /\ block_reason'[x] = block_reason[x],
         \/ pc[current_task] # "wait_block" \/ resched[current_task]
         \/ /\ UNCHANGED <<current_task, resched, pc, preemption_counter>>
            /\ state[current_task] = "RUNNING" => state'[current_task] = "RUNNING"
  PROVE  Waits'
<1> SUFFICES ASSUME NEW x \in Tasks, task_queue'[x] = "wait"
             PROVE  \/ state'[x] \in {"BLOCKED", "BLOCKED_IDLING"} /\ block_reason'[x] = "LOCK_WAIT"
                    \/ /\ x = current_task' /\ state'[x] = "RUNNING" /\ pc'[x] = "wait_block"
                       /\ ~resched'[x] /\ preemption_counter' > 0
  BY Zenon DEF Waits
<1>1. task_queue[x] = "wait"
  OBVIOUS
<1>2. CASE state[x] \in {"BLOCKED", "BLOCKED_IDLING"} /\ block_reason[x] = "LOCK_WAIT"
  BY <1>1, <1>2
<1>3. CASE /\ x = current_task /\ state[x] = "RUNNING" /\ pc[x] = "wait_block"
           /\ ~resched[x] /\ preemption_counter > 0
  BY <1>3
<1> QED BY <1>1, <1>2, <1>3 DEF Consistent, Waits

\* A step may change other tasks than the new ones that only their creators know.
LEMMA NewbornsStep ==
  ASSUME Consistent, UNCHANGED newborn,
         \A x \in Tasks : pc'[x] = "create" <=> pc[x] = "create",
         \A x \in Tasks : newborn[x] # NoTask =>
           /\ newborn[x] # current_task' /\ state'[newborn[x]] = "BLOCKED"
           /\ block_reason'[newborn[x]] = "SLEEP" /\ task_queue'[newborn[x]] = "none"
  PROVE  Newborns'
<1>1. ASSUME NEW x \in Tasks
      PROVE  pc'[x] = "create" <=> newborn'[x] # NoTask
  BY DEF Consistent, Newborns
<1>2. ASSUME NEW x \in Tasks, newborn'[x] # NoTask
      PROVE  /\ newborn'[x] \in Workers \ {current_task'}
             /\ \A u \in Tasks : newborn'[u] = newborn'[x] => u = x
  BY <1>2 DEF Consistent, Newborns
<1> QED BY <1>1, <1>2, Zenon DEF Newborns

\* A new task is none of the tasks that run, are queued or terminated.
LEMMA NewbornIs ==
  ASSUME Consistent, NEW x \in Tasks, newborn[x] # NoTask
  PROVE  /\ newborn[x] \in Tasks \ {current_task} /\ state[newborn[x]] = "BLOCKED"
         /\ block_reason[newborn[x]] = "SLEEP" /\ task_queue[newborn[x]] = "none"
BY DEF Consistent, Newborns, Tasks

\* A step that changes nothing.
LEMMA StutterInv ==
  ASSUME Consistent, UNCHANGED vars
  PROVE  Consistent'
<1> USE DEF vars, taskVars, queueVars, timeVars, irqVars
<1>1. TypeOK'
  BY DEF Consistent, TypeOK
<1>2. Lives' /\ Newborns'
  BY LivesStay, NewbornsStay DEF InYield
<1> QED BY <1>1, <1>2, Frame DEF Consistent

\* scheduler_unblock_task_locked() appended task n to ready_queue.
Enqueued(n) ==
  /\ state' = [state EXCEPT ![n] = "READY_TO_RUN",
                            ![current_task] = IF @ = "BLOCKED_IDLING" THEN "BLOCKED" ELSE @]
  /\ task_queue' = [task_queue EXCEPT ![n] = "ready"]
  /\ ref_count' = [ref_count EXCEPT ![n] = @ + 1]
  /\ ready_queue' = Append(ready_queue, n)
  /\ preemption_ts' = IF preemption_ts = NoTime THEN TimeSlice ELSE preemption_ts
  /\ UNCHANGED <<current_task, block_reason, resched, refs, sleep_expiry, sleep_queue,
                 termination_queue, earliest_wakeup, preemption_event, sleep_events,
                 preemption_counter, ret, irqVars>>

\* What that does to every task.
EnqueuedEffect(n) ==
  /\ state' \in [Tasks -> States] /\ state'[n] = "READY_TO_RUN"
  /\ \A t \in Tasks \ {n, current_task} : state'[t] = state[t]
  /\ \A t \in Tasks : state'[t] # "BLOCKED_IDLING"
  /\ \A t \in Tasks : block_reason[t] = "TERMINATED" => state'[t] = state[t]
  /\ state[current_task] # "BLOCKED_IDLING" => state'[current_task] = state[current_task]
  /\ state[current_task] = "BLOCKED_IDLING" => state'[current_task] = "BLOCKED"
  /\ task_queue'[n] = "ready" /\ \A t \in Tasks \ {n} : task_queue'[t] = task_queue[t]
  /\ task_queue' \in [Tasks -> {"none", "ready", "sleep", "wait"}]
  /\ ref_count' \in [Tasks -> Int]
  /\ ready_queue' \in Seq(Tasks) /\ ready_queue' # <<>> /\ NoDuplicates(ready_queue')
  /\ Elems(ready_queue') = Elems(ready_queue) \union {n}
  /\ preemption_ts' \in Int \union {NoTime} /\ preemption_ts' # NoTime

\* The value of every changed function at every task, derived once.
LEMMA EnqueuedHasEffect ==
  ASSUME Consistent, NEW n \in Tasks \ {current_task}, state[n] = "BLOCKED", task_queue[n] = "none",
         block_reason[n] # "TERMINATED", Enqueued(n)
  PROVE  EnqueuedEffect(n)
<1> USE DEF Consistent, Enqueued
<1>1. n \notin Elems(ready_queue) /\ ready_queue \in Seq(Tasks) /\ NoDuplicates(ready_queue)
  BY DEF QueuesAgree, TypeOK
<1>2. /\ ready_queue' \in Seq(Tasks) /\ ready_queue' # <<>> /\ NoDuplicates(ready_queue')
      /\ Elems(ready_queue') = Elems(ready_queue) \union {n}
  BY <1>1, AppendNew, Zenon
<1>3. /\ state' \in [Tasks -> States] /\ state'[n] = "READY_TO_RUN"
      /\ \A t \in Tasks \ {n, current_task} : state'[t] = state[t]
      /\ state[current_task] # "BLOCKED_IDLING" => state'[current_task] = state[current_task]
      /\ state[current_task] = "BLOCKED_IDLING" => state'[current_task] = "BLOCKED"
  BY Zenon DEF TypeOK, States
<1>4. /\ task_queue'[n] = "ready" /\ \A t \in Tasks \ {n} : task_queue'[t] = task_queue[t]
      /\ task_queue' \in [Tasks -> {"none", "ready", "sleep", "wait"}]
      /\ ref_count' \in [Tasks -> Int]
  BY DEF TypeOK
<1>5. preemption_ts' \in Int \union {NoTime} /\ preemption_ts' # NoTime
  BY TimeAssumption DEF TypeOK
<1> HIDE DEF Enqueued
<1>6. ASSUME NEW t \in Tasks PROVE state'[t] # "BLOCKED_IDLING"
  <2>1. CASE t \in {n, current_task}
    BY <1>3, <2>1
  <2>2. CASE t \notin {n, current_task}
    BY <1>3, <2>2 DEF OneRunning, TypeOK
  <2> QED BY <2>1, <2>2
<1>7. ASSUME NEW t \in Tasks, block_reason[t] = "TERMINATED" PROVE state'[t] = state[t]
  BY <1>3, <1>7 DEF Lives
<1> QED BY <1>2, <1>3, <1>4, <1>5, <1>6, <1>7 DEF EnqueuedEffect

\* The parts of the invariant that do not depend on labels stay true.
LEMMA EnqueuedInv ==
  ASSUME Consistent, NEW n \in Tasks \ {current_task}, state[n] = "BLOCKED", task_queue[n] = "none",
         block_reason[n] # "TERMINATED", Enqueued(n)
  PROVE  (/\ Loops /\ AlarmSet /\ QueuesAgree /\ RefCountExact /\ OneRunning
          /\ IdleOnlyIfNothingReady /\ Planned /\ SleeperHasAlarm)'
<1> USE DEF Consistent
<1>0. EnqueuedEffect(n) /\ Cleaner \in Tasks
  BY EnqueuedHasEffect, Zenon DEF Tasks
<1>1. UNCHANGED <<current_task, block_reason, resched, sleep_queue, termination_queue,
                 preemption_event>>
  BY DEF Enqueued
<1>2. ASSUME NEW t \in Tasks
      PROVE  /\ t \in Elems(ready_queue') <=> task_queue'[t] = "ready"
             /\ t \in Elems(ready_queue') <=> state'[t] = "READY_TO_RUN"
  BY <1>0, Zenon DEF EnqueuedEffect, QueuesAgree, OneRunning
<1>3. ASSUME NEW t \in Tasks
      PROVE  /\ t \in Elems(sleep_queue) <=> task_queue'[t] = "sleep"
             /\ t \in Elems(sleep_queue) =>
                  state'[t] \in {"BLOCKED", "BLOCKED_IDLING"} /\ block_reason[t] = "SLEEP"
  BY <1>0 DEF EnqueuedEffect, QueuesAgree
<1>4. ASSUME NEW t \in Tasks
      PROVE  t \in Elems(termination_queue) <=> IsTerminated(t)'
  BY <1>1, <1>0 DEF EnqueuedEffect, QueuesAgree, IsTerminated, Lives
<1>5. QueuesAgree'
  BY <1>1, <1>2, <1>3, <1>4, <1>0 DEF EnqueuedEffect, QueuesAgree
<1>6. RefCountExact'
  <2>1. /\ ref_count'[n] = ref_count[n] + 1 /\ \A t \in Tasks \ {n} : ref_count'[t] = ref_count[t]
        /\ UNCHANGED refs
    BY DEF Enqueued, TypeOK
  <2>2. refs[n] \in Nat
    BY DEF TypeOK
  <2>3. ref_count[n] = refs[n] /\ ref_count'[n] = refs[n] + 1
    <3>1. ref_count[n] = refs[n] + 0
      BY DEF RefCountExact
    <3>2. ref_count[n] = refs[n]
      BY <2>2, <3>1
    <3> QED BY <2>1, <3>2
  <2> QED BY <1>0, <2>1, <2>3, Zenon DEF EnqueuedEffect, RefCountExact
<1>7. OneRunning'
  BY <1>1, <1>0, Zenon DEF EnqueuedEffect, OneRunning, TypeOK
<1>8. IdleOnlyIfNothingReady'
  BY <1>0 DEF EnqueuedEffect, IdleOnlyIfNothingReady
<1>9. Planned'
  BY <1>0 DEF EnqueuedEffect, Planned
<1>11. (Loops /\ AlarmSet /\ SleeperHasAlarm)'
  BY DEF Enqueued, Loops, AlarmSet, SleeperHasAlarm, irqVars
<1> QED BY <1>5, <1>6, <1>7, <1>8, <1>9, <1>11

\* The tasks in the queue of a semaphore stay there.
LEMMA EnqueuedWaits ==
  ASSUME Consistent, NEW n \in Tasks \ {current_task}, state[n] = "BLOCKED", task_queue[n] = "none",
         block_reason[n] # "TERMINATED", Enqueued(n),
         pc[current_task] = "wait_block" => UNCHANGED pc
  PROVE  Waits'
<1>0. EnqueuedEffect(n) /\ UNCHANGED <<current_task, block_reason, resched, preemption_counter>>
  BY EnqueuedHasEffect, Zenon DEF Enqueued
<1>1. \A x \in Tasks : task_queue'[x] = "wait" => task_queue[x] = "wait"
  BY <1>0 DEF EnqueuedEffect
<1>2. ASSUME NEW x \in Tasks, task_queue[x] = "wait", state[x] \in {"BLOCKED", "BLOCKED_IDLING"}
      PROVE  state'[x] \in {"BLOCKED", "BLOCKED_IDLING"} /\ block_reason'[x] = block_reason[x]
  BY <1>0, <1>2 DEF EnqueuedEffect
<1>3. state[current_task] = "RUNNING" => state'[current_task] = "RUNNING"
  BY <1>0 DEF EnqueuedEffect
<1> QED BY <1>0, <1>1, <1>2, <1>3, WaitsStep, Zenon

\* So do the others, when n is no new task.
LEMMA EnqueuedOldTaskInv ==
  ASSUME Consistent, NEW n \in Tasks \ {current_task}, state[n] = "BLOCKED", task_queue[n] = "none",
         block_reason[n] \notin {"TERMINATED", "SLEEP"}, Enqueued(n),
         UNCHANGED <<pc, newborn, panic>>
  PROVE  Consistent'
<1> USE DEF Consistent
<1>0. EnqueuedEffect(n) /\ Cleaner \in Tasks
  BY EnqueuedHasEffect, Zenon DEF Tasks
<1>1. UNCHANGED <<current_task, block_reason, resched, ret>>
  BY DEF Enqueued
<1>2. TypeOK'
  BY <1>0, Zenon DEF EnqueuedEffect, Enqueued, TypeOK, irqVars
<1>3. (Phases /\ OnlyLate)'
  BY DEF Enqueued, Phases, OnlyLate, irqVars
<1>4. Labels'
  BY <1>1, <1>0, Zenon DEF EnqueuedEffect, Labels, InYield, TypeOK
<1>5. Lives'
  <2>1. \A x \in Tasks : block_reason[x] = "TERMINATED" => state'[x] = state[x] /\ InYield(x)'
    BY <1>0 DEF EnqueuedEffect, Lives, InYield
  <2>2. /\ task_queue'[Cleaner] \in {"none", "ready"}
        /\ \A x \in Tasks : state'[x] = "NONE" => state[x] = "NONE"
    BY <1>0, Zenon DEF EnqueuedEffect, Lives
  <2>3. ready_queue' # <<>>
    BY <1>0 DEF EnqueuedEffect
  <2> QED BY <1>1, <2>1, <2>2, <2>3, LivesStep, Zenon
<1>6. Newborns'
  <2>1. ASSUME NEW x \in Tasks, newborn[x] # NoTask
        PROVE  /\ newborn[x] # current_task' /\ state'[newborn[x]] = "BLOCKED"
               /\ block_reason'[newborn[x]] = "SLEEP" /\ task_queue'[newborn[x]] = "none"
    <3>1. /\ newborn[x] \in Tasks \ {n, current_task} /\ state[newborn[x]] = "BLOCKED"
          /\ block_reason[newborn[x]] = "SLEEP" /\ task_queue[newborn[x]] = "none"
      BY <2>1, NewbornIs
    <3>2. state'[newborn[x]] = state[newborn[x]] /\ task_queue'[newborn[x]] = task_queue[newborn[x]]
      BY <1>0, <3>1, Zenon DEF EnqueuedEffect
    <3> QED BY <1>1, <3>1, <3>2
  <2> QED BY <2>1, NewbornsStep, Zenon
<1> QED BY <1>2, <1>3, <1>4, <1>5, <1>6, EnqueuedInv, EnqueuedWaits

\* scheduler_unblock_task(n), by a task or by a bottom half.
LEMMA UnblockInv ==
  ASSUME Consistent, NEW n \in Tasks, Unblockable(n), UnblockLocked(n, state, task_queue, ref_count),
         UNCHANGED <<current_task, block_reason, refs, sleep_expiry, sleep_queue,
                     termination_queue, earliest_wakeup, preemption_event, sleep_events,
                     preemption_counter, pc, ret, newborn, irqVars>>
  PROVE  Consistent'
<1> USE DEF Consistent
<1>1. CASE state[n] \notin {"BLOCKED", "BLOCKED_IDLING"}
  <2>1. UNCHANGED vars
    BY <1>1 DEF UnblockLocked, vars, taskVars, queueVars, timeVars, PlannedPreemption,
         NotIdling, Enqueue
  <2> QED BY <2>1, StutterInv
<1>2. CASE state[n] \in {"BLOCKED", "BLOCKED_IDLING"} /\ n = current_task
  <2>1. /\ block_reason[n] = "IO_WAIT" /\ task_queue[n] = "none"
        /\ n \notin Elems(ready_queue) /\ n \notin Elems(sleep_queue)
    BY <1>2, InNoQueue, Zenon DEF Unblockable
  <2>2. /\ resched' = [resched EXCEPT ![n] = TRUE] /\ state' = [state EXCEPT ![n] = "RUNNING"]
        /\ UNCHANGED <<task_queue, ref_count, ready_queue, preemption_ts, panic>>
    BY <1>2 DEF UnblockLocked, PlannedPreemption, NotIdling, Enqueue
  <2>3. TypeOK'
    BY <2>2 DEF TypeOK, States, irqVars
  <2>4. (Phases /\ Loops /\ AlarmSet /\ RefCountExact /\ SleeperHasAlarm /\ OnlyLate)'
    BY <2>2 DEF Phases, Loops, AlarmSet, RefCountExact, SleeperHasAlarm, OnlyLate, irqVars
  <2>5. (Labels /\ Lives /\ Newborns)'
    <3>1. /\ state'[n] = "RUNNING" /\ resched'[n]
          /\ \A x \in Tasks \ {n} : state'[x] = state[x]
      BY <2>2, Zenon DEF TypeOK
    <3>2. Labels'
      BY <1>2, <3>1 DEF Labels, InYield
    <3>3. Lives'
      <4>1. ASSUME NEW x \in Tasks, block_reason[x] = "TERMINATED"
            PROVE  state'[x] = state[x] /\ InYield(x)'
        BY <2>1, <3>1, <4>1 DEF Lives, InYield
      <4>2. /\ task_queue'[Cleaner] \in {"none", "ready"}
            /\ \A x \in Tasks : state'[x] = "NONE" => state[x] = "NONE"
        BY <2>2, <3>1 DEF Lives
      <4>3. ~IsTerminated(current_task)'
        BY <1>2, <3>1 DEF IsTerminated
      <4> QED BY <4>1, <4>2, <4>3, LivesStep, Zenon
    <3>4. Newborns'
      <4>1. ASSUME NEW x \in Tasks, newborn[x] # NoTask
            PROVE  /\ newborn[x] # current_task' /\ state'[newborn[x]] = "BLOCKED"
                   /\ block_reason'[newborn[x]] = "SLEEP" /\ task_queue'[newborn[x]] = "none"
        BY <1>2, <2>2, <3>1, <4>1, NewbornIs
      <4> QED BY <4>1, NewbornsStep, Zenon
    <3> QED BY <3>2, <3>3, <3>4
  <2>6. QueuesAgree'
    BY <1>2, <2>1, <2>2 DEF QueuesAgree, TypeOK, IsTerminated
  <2>7. (OneRunning /\ IdleOnlyIfNothingReady)'
    BY <1>2, <2>2 DEF OneRunning, IdleOnlyIfNothingReady, TypeOK
  <2>8. (Waits /\ Planned)'
    <3>1. \A x \in Tasks \ {n} : state'[x] = state[x]
      BY <2>2, Zenon DEF TypeOK
    <3>2. ASSUME NEW x \in Tasks, task_queue[x] = "wait", state[x] \in {"BLOCKED", "BLOCKED_IDLING"}
          PROVE  state'[x] \in {"BLOCKED", "BLOCKED_IDLING"} /\ block_reason'[x] = block_reason[x]
      BY <2>1, <3>1, <3>2
    <3>3. pc[current_task] # "wait_block"
      BY <1>2 DEF Labels, InYield
    <3>4. Waits'
      BY <2>2, <3>2, <3>3, WaitsStep, Zenon
    <3> QED BY <2>2, <3>4 DEF Planned
  <2> QED BY <2>3, <2>4, <2>5, <2>6, <2>7, <2>8
<1>3. CASE state[n] \in {"BLOCKED", "BLOCKED_IDLING"} /\ n # current_task
  <2>1. state[n] = "BLOCKED" /\ block_reason[n] = "IO_WAIT" /\ task_queue[n] = "none"
    BY <1>3, InNoQueue, Zenon DEF Unblockable, OneRunning
  <2>2. Enqueued(n) /\ UNCHANGED panic
    BY <1>3, <2>1 DEF UnblockLocked, Enqueued, KAssert, PlannedPreemption, NotIdling, Enqueue
  <2> QED BY <1>3, <2>1, <2>2, EnqueuedOldTaskInv
<1> QED BY <1>1, <1>2, <1>3

-----------------------------------------------------------------------------
\* The critical sections in which tasks are created, block, sleep and terminate.

\* create_task() makes its new task known to the scheduler.
LEMMA CreateUnblockInv ==
  ASSUME Consistent, NEW t \in Tasks, CreateUnblock(t)
  PROVE  Consistent'
<1> USE DEF Consistent
<1> DEFINE n == newborn[t]
<1>1. /\ t = current_task /\ irq = "none" /\ pc[t] = "create" /\ state[t] = "RUNNING"
      /\ pc' = [pc EXCEPT ![t] = "run"] /\ newborn' = [newborn EXCEPT ![t] = NoTask]
  BY DEF CreateUnblock, At, Goto, Labels, InYield
<1>2. /\ n \in Workers \ {current_task} /\ state[n] = "BLOCKED" /\ block_reason[n] = "SLEEP"
      /\ task_queue[n] = "none" /\ \A u \in Tasks : newborn[u] = n => u = t
  BY <1>1 DEF Newborns
<1>3. n \in Tasks
  BY <1>2 DEF Tasks
<1> HIDE DEF n
<1>4. Enqueued(n) /\ UNCHANGED panic
  BY <1>2 DEF CreateUnblock, UnblockLocked, Enqueued, KAssert, n, PlannedPreemption, NotIdling,
       Enqueue
<1>0. EnqueuedEffect(n) /\ Cleaner \in Tasks
  BY <1>2, <1>3, <1>4, EnqueuedHasEffect, Zenon DEF Tasks
<1>5. UNCHANGED <<current_task, block_reason, resched, ret>>
  BY <1>4 DEF Enqueued
<1>5a. Waits'
  BY <1>1, <1>2, <1>3, <1>4, EnqueuedWaits
<1>6. TypeOK'
  BY <1>1, <1>2, <1>3, <1>4, <1>0, Zenon DEF EnqueuedEffect, Enqueued, TypeOK, TaskLabels, irqVars
<1>7. (Phases /\ OnlyLate)'
  BY <1>1, <1>4 DEF Enqueued, Phases, OnlyLate, irqVars
<1>8. Labels'
  BY <1>1, <1>2, <1>3, <1>4, <1>5, <1>0, Zenon DEF EnqueuedEffect, Labels, InYield, TypeOK
<1>9. Lives'
  <2>1. \A x \in Tasks : block_reason[x] = "TERMINATED" => pc'[x] = pc[x]
    BY <1>1 DEF Lives, TypeOK
  <2>2. ASSUME NEW x \in Tasks, block_reason[x] = "TERMINATED"
        PROVE  state'[x] = "BLOCKED" /\ x \in Workers /\ InYield(x)'
    <3>1. state[x] = "BLOCKED" /\ x \in Workers /\ InYield(x) /\ state'[x] = state[x]
      BY <2>2, <1>0 DEF Lives, EnqueuedEffect
    <3> QED BY <3>1, <2>1, <2>2 DEF InYield
  <2>3. /\ task_queue'[Cleaner] \in {"none", "ready"}
        /\ \A x \in Tasks : state'[x] = "NONE" => state[x] = "NONE"
    BY <1>0, Zenon DEF EnqueuedEffect, Lives
  <2>4. ready_queue' # <<>>
    BY <1>0 DEF EnqueuedEffect
  <2> QED BY <1>5, <2>2, <2>3, <2>4 DEF Lives
<1>10. Newborns'
  <2>1. /\ newborn'[t] = NoTask /\ pc'[t] = "run"
        /\ \A x \in Tasks \ {t} : newborn'[x] = newborn[x] /\ pc'[x] = pc[x]
    BY <1>1, <1>4 DEF TypeOK
  <2>2. \A x \in Tasks \ {t} : newborn[x] # NoTask =>
          newborn[x] \in Tasks \ {n, current_task}
    BY <1>1 DEF Newborns, Tasks, n
  <2>3. \A x \in Tasks \ {n, current_task} :
          state'[x] = state[x] /\ task_queue'[x] = task_queue[x]
    BY <1>0 DEF EnqueuedEffect
  <2> QED BY <1>5, <2>1, <2>2, <2>3 DEF Newborns
<1> QED BY <1>2, <1>3, <1>4, <1>5a, <1>6, <1>7, <1>8, <1>9, <1>10, EnqueuedInv

\* create_task() puts a new object nowhere but in the local variable of its creator.
LEMMA CreateTaskInv ==
  ASSUME Consistent, NEW t \in Tasks, NEW n \in Tasks, CreateTask(t, n)
  PROVE  Consistent'
<1> USE DEF Consistent
<1>1. /\ t = current_task /\ irq = "none" /\ pc[t] = "run" /\ state[n] = "NONE"
      /\ state' = [state EXCEPT ![n] = "BLOCKED"] /\ newborn' = [newborn EXCEPT ![t] = n]
      /\ pc' = [pc EXCEPT ![t] = "create"]
  BY DEF CreateTask, At, Goto
<1>2. UNCHANGED <<current_task, block_reason, resched, task_queue, ref_count, refs,
                  sleep_expiry, queueVars, timeVars, preemption_counter, ret, irqVars, panic>>
  BY DEF CreateTask
<1>3. /\ n \in Workers /\ n # current_task /\ block_reason[n] = "SLEEP" /\ state[t] = "RUNNING"
      /\ t # Cleaner
  BY <1>1 DEF Lives, OneRunning, Labels, InYield
<1>4. task_queue[n] = "none"
  BY <1>1, InNoQueue, Zenon
<1>5. newborn[t] = NoTask /\ \A u \in Tasks : newborn[u] # n
  BY <1>1, TasksAssumption DEF Newborns
<1>6. TypeOK'
  BY <1>1, <1>2, Zenon DEF TypeOK, TaskLabels, States, queueVars, timeVars, irqVars
<1>7. Phases'
  BY <1>1, <1>2, InTask
<1>8. Labels'
  BY <1>1, <1>2, <1>3 DEF TypeOK, Labels, InYield
<1>9. Lives'
  BY <1>1, <1>2, <1>3 DEF TypeOK, Lives, InYield, IsTerminated, queueVars
<1>10. Newborns'
  <2>1. ASSUME NEW u \in Tasks
        PROVE  newborn'[u] = (IF u = t THEN n ELSE newborn[u]) /\ (u # t => pc'[u] = pc[u])
    BY <1>1 DEF TypeOK
  <2>2. pc'[t] = "create" /\ n # NoTask /\ \A u \in Tasks \ {n} : state'[u] = state[u]
    BY <1>1, TasksAssumption DEF TypeOK
  <2>3. state'[n] = "BLOCKED"
    BY <1>1 DEF TypeOK
  <2>4. ASSUME NEW u \in Tasks \ {t}
        PROVE  /\ pc'[u] = "create" <=> newborn'[u] # NoTask
               /\ newborn'[u] = newborn[u] /\ newborn'[u] # n
               /\ newborn'[u] # NoTask =>
                    /\ newborn'[u] \in Workers \ {current_task} /\ state'[newborn'[u]] = "BLOCKED"
                    /\ block_reason[newborn'[u]] = "SLEEP" /\ task_queue[newborn'[u]] = "none"
    <3>1. newborn'[u] = newborn[u] /\ newborn[u] # n /\ pc'[u] = pc[u]
      BY <1>5, <2>1
    <3>2. /\ pc[u] = "create" <=> newborn[u] # NoTask
          /\ newborn[u] # NoTask =>
               /\ newborn[u] \in Workers \ {current_task} /\ state[newborn[u]] = "BLOCKED"
               /\ block_reason[newborn[u]] = "SLEEP" /\ task_queue[newborn[u]] = "none"
      BY DEF Newborns
    <3>3. Workers \subseteq Tasks
      BY DEF Tasks
    <3> QED BY <2>2, <3>1, <3>2, <3>3
  <2>5. ASSUME NEW u \in Tasks, NEW v \in Tasks, newborn'[u] # NoTask, newborn'[v] = newborn'[u]
        PROVE  v = u
    <3>1. newborn'[t] = n
      BY <2>1
    <3>2. CASE u = t \/ v = t
      BY <2>4, <2>5, <3>1, <3>2
    <3>3. CASE u # t /\ v # t
      <4>1. newborn[u] # NoTask /\ newborn[v] = newborn[u]
        BY <2>4, <2>5, <3>3
      <4> QED BY <4>1 DEF Newborns
    <3> QED BY <3>2, <3>3
  <2>6. newborn'[t] = n
    BY <2>1
  <2>7. ASSUME NEW u \in Tasks
        PROVE  /\ pc'[u] = "create" <=> newborn'[u] # NoTask
               /\ newborn'[u] # NoTask =>
                    /\ newborn'[u] \in Workers \ {current_task} /\ state'[newborn'[u]] = "BLOCKED"
                    /\ block_reason[newborn'[u]] = "SLEEP" /\ task_queue[newborn'[u]] = "none"
    <3>1. CASE u = t
      BY <1>2, <1>3, <1>4, <2>2, <2>3, <2>6, <3>1, Zenon
    <3>2. CASE u # t
      BY <2>4, <3>2, Zenon
    <3> QED BY <3>1, <3>2
  <2>8. UNCHANGED <<current_task, block_reason, task_queue>>
    BY <1>2
  <2>9. current_task' = current_task /\ block_reason' = block_reason /\ task_queue' = task_queue
    BY <2>8, Zenon
  <2>10. ASSUME NEW u \in Tasks
         PROVE  /\ pc'[u] = "create" <=> newborn'[u] # NoTask
                /\ newborn'[u] # NoTask =>
                     /\ newborn'[u] \in Workers \ {current_task'} /\ state'[newborn'[u]] = "BLOCKED"
                     /\ block_reason'[newborn'[u]] = "SLEEP" /\ task_queue'[newborn'[u]] = "none"
                     /\ \A v \in Tasks : newborn'[v] = newborn'[u] => v = u
    BY <2>5, <2>7, <2>9, Zenon
  <2> QED BY <2>10, Zenon DEF Newborns
<1>11. QueuesAgree'
  BY <1>1, <1>2, <1>3 DEF TypeOK, QueuesAgree, IsTerminated, queueVars
<1>12. OneRunning' /\ IdleOnlyIfNothingReady'
  BY <1>1, <1>2, <1>3 DEF TypeOK, OneRunning, IdleOnlyIfNothingReady, queueVars
<1>13. Waits'
  <2>1. \A x \in Tasks \ {n} : state'[x] = state[x]
    BY <1>1, Zenon DEF TypeOK
  <2>2. ASSUME NEW x \in Tasks, task_queue[x] = "wait", state[x] \in {"BLOCKED", "BLOCKED_IDLING"}
        PROVE  state'[x] \in {"BLOCKED", "BLOCKED_IDLING"} /\ block_reason'[x] = block_reason[x]
    BY <1>1, <1>2, <2>1, <2>2
  <2>3. pc[current_task] # "wait_block"
    BY <1>1
  <2> QED BY <1>2, <2>2, <2>3, WaitsStep, Zenon
<1> QED BY <1>2, <1>6, <1>7, <1>8, <1>9, <1>10, <1>11, <1>12, <1>13, Frame
        DEF queueVars, timeVars, irqVars

\* The call of scheduler_yield() changes nothing but the label.
LEMMA YieldInv ==
  ASSUME Consistent, NEW t \in Tasks, Yield(t)
  PROVE  Consistent'
<1> USE DEF Consistent
<1>1. t = current_task /\ irq = "none" /\ pc[t] = "run"
  BY DEF Yield, At
<1>2. /\ pc' = [pc EXCEPT ![t] = "yield"] /\ ret' = [ret EXCEPT ![t] = "run"]
      /\ UNCHANGED <<current_task, taskVars, queueVars, timeVars, preemption_counter,
                     newborn, irqVars, panic>>
  BY DEF Yield, CallYield, Goto
<1>3. TypeOK'
  BY <1>2 DEF TypeOK, TaskLabels, taskVars, queueVars, timeVars, irqVars
<1>4. Phases'
  BY <1>1, <1>2, InTask
<1>5. Labels'
  BY <1>1, <1>2 DEF TypeOK, Labels, InYield, taskVars
<1>6. Lives' /\ Newborns'
  BY <1>1, <1>2, LivesStay, NewbornsStay DEF TypeOK, InYield, taskVars, queueVars
<1>7. Waits'
  BY <1>1, <1>2, WaitsStep DEF taskVars
<1> QED BY <1>2, <1>3, <1>4, <1>5, <1>6, <1>7, Frame DEF taskVars, queueVars, timeVars, irqVars

\* scheduler_block_task().
LEMMA BlockTaskInv ==
  ASSUME Consistent, NEW t \in Tasks, NEW reason \in {"IO_WAIT", "PAUSED", "LOCK_WAIT"},
         NEW l \in {"run", "clean", "wait_again"}, state[t] = "RUNNING", t = current_task,
         irq = "none", ~InYield(t), pc[t] # "create", t = Cleaner => l = "clean",
         pc[t] = "wait_block" => reason = "LOCK_WAIT", BlockTask(t, reason, l)
  PROVE  Consistent'
<1> USE DEF Consistent
<1>1. /\ state' = [state EXCEPT ![t] = "BLOCKED"]
      /\ block_reason' = [block_reason EXCEPT ![t] = reason]
      /\ pc' = [pc EXCEPT ![t] = "yield"] /\ ret' = [ret EXCEPT ![t] = l]
  BY DEF BlockTask, MarkBlocked, CallYield, Goto
<1>2. UNCHANGED <<current_task, resched, task_queue, ref_count, refs, sleep_expiry,
                  queueVars, timeVars, preemption_counter, newborn, irqVars, panic>>
  BY DEF BlockTask
<1>3. /\ t \notin Elems(ready_queue) /\ t \notin Elems(sleep_queue)
      /\ t \notin Elems(termination_queue)
  BY DEF QueuesAgree, IsTerminated
<1>3a. /\ \A x \in Tasks \ {t} : /\ state'[x] = state[x] /\ block_reason'[x] = block_reason[x]
                                 /\ pc'[x] = pc[x] /\ ret'[x] = ret[x]
       /\ state'[t] = "BLOCKED" /\ block_reason'[t] = reason /\ pc'[t] = "yield" /\ ret'[t] = l
  BY <1>1, Zenon DEF TypeOK
<1>3b. Waits'
  <2>1. task_queue[t] = "wait" => reason = "LOCK_WAIT"
    BY DEF Waits
  <2>2. ASSUME NEW x \in Tasks \ {t}, task_queue[x] = "wait"
        PROVE  state[x] \in {"BLOCKED", "BLOCKED_IDLING"} /\ block_reason[x] = "LOCK_WAIT"
    BY <2>2 DEF Waits
  <2>3. ASSUME NEW x \in Tasks, task_queue'[x] = "wait"
        PROVE  state'[x] \in {"BLOCKED", "BLOCKED_IDLING"} /\ block_reason'[x] = "LOCK_WAIT"
    BY <1>2, <1>3a, <2>1, <2>2, <2>3
  <2> QED BY <2>3, Zenon DEF Waits
<1>4. TypeOK'
  BY <1>1, <1>2 DEF TypeOK, TaskLabels, States, Reasons, queueVars, timeVars, irqVars
<1>5. Phases'
  BY <1>2, InTask
<1>6. Labels'
  BY <1>1, <1>2 DEF TypeOK, Labels, InYield
<1>7. Lives'
  BY <1>1, <1>2 DEF TypeOK, Lives, InYield, IsTerminated, queueVars
<1>8. Newborns'
  <2>1. newborn[t] = NoTask /\ \A x \in Tasks : newborn[x] # t
    BY TasksAssumption DEF Newborns
  <2> QED BY <1>1, <1>2, <2>1 DEF TypeOK, Newborns, Tasks
<1>9. QueuesAgree'
  BY <1>1, <1>2, <1>3 DEF TypeOK, QueuesAgree, IsTerminated, queueVars
<1>10. OneRunning' /\ IdleOnlyIfNothingReady'
  BY <1>1, <1>2 DEF TypeOK, OneRunning, IdleOnlyIfNothingReady, queueVars
<1> QED BY <1>2, <1>3b, <1>4, <1>5, <1>6, <1>7, <1>8, <1>9, <1>10, Frame
        DEF queueVars, timeVars, irqVars

\* scheduler_nano_sleep_until(): the sleeper has its alarm from the start.
LEMMA NanoSleepUntilInv ==
  ASSUME Consistent, NEW t \in Tasks, NEW when \in Int, NanoSleepUntil(t, when)
  PROVE  Consistent'
<1> USE DEF Consistent
<1>1. /\ t = current_task /\ irq = "none" /\ pc[t] = "run" /\ state[t] = "RUNNING"
      /\ t # Cleaner /\ Cleaner \in Tasks
  BY TasksAssumption DEF NanoSleepUntil, At, Labels, Tasks, InYield, Enqueue
<1>2. /\ task_queue[t] = "none" /\ t \notin Elems(ready_queue) /\ t \notin Elems(sleep_queue)
      /\ t \notin Elems(termination_queue)
  BY <1>1, InNoQueue, Zenon DEF QueuesAgree, IsTerminated
<1>3. /\ sleep_queue' \in Seq(Tasks) /\ NoDuplicates(sleep_queue')
      /\ Elems(sleep_queue') = Elems(sleep_queue) \union {t}
  <2>1. sleep_queue \in Seq(Tasks) /\ NoDuplicates(sleep_queue)
    BY DEF TypeOK, QueuesAgree
  <2>2. sleep_queue' = Append(sleep_queue, t)
    BY DEF NanoSleepUntil, Enqueue
  <2> QED BY <1>2, <2>1, <2>2, AppendNew, Zenon
<1>4. /\ state' = [state EXCEPT ![t] = "BLOCKED"]
      /\ block_reason' = [block_reason EXCEPT ![t] = "SLEEP"]
      /\ task_queue' = [task_queue EXCEPT ![t] = "sleep"]
      /\ sleep_expiry' = [sleep_expiry EXCEPT ![t] = when]
      /\ ref_count' = [ref_count EXCEPT ![t] = @ + 1]
      /\ pc' = [pc EXCEPT ![t] = "yield"] /\ ret' = [ret EXCEPT ![t] = "run"]
  BY DEF NanoSleepUntil, MarkBlocked, CallYield, Goto, Enqueue
<1>5. UNCHANGED <<current_task, resched, refs, ready_queue, termination_queue, preemption_ts,
                  preemption_event, preemption_counter, newborn, irq, interrupt_level, iter,
                  pulses, panic>>
  BY <1>2 DEF NanoSleepUntil, irqVars, KAssert, Enqueue
<1>6. /\ earliest_wakeup' \in Int /\ earliest_wakeup' <= when
      /\ earliest_wakeup' \in sleep_events' /\ sleep_events \subseteq sleep_events'
      /\ sleep_events' \in SUBSET Int
  <2>1. IF Before(when, earliest_wakeup)
        THEN earliest_wakeup' = when /\ sleep_events' = sleep_events \union {when}
        ELSE UNCHANGED <<earliest_wakeup, sleep_events>>
    BY DEF NanoSleepUntil, Enqueue
  <2>2. CASE Before(when, earliest_wakeup)
    <3>1. earliest_wakeup' = when /\ sleep_events' = sleep_events \union {when}
      BY <2>1, <2>2
    <3>2. sleep_events \in SUBSET Int
      BY DEF TypeOK
    <3> QED BY <3>1, <3>2
  <2>3. CASE ~Before(when, earliest_wakeup)
    <3>1. UNCHANGED <<earliest_wakeup, sleep_events>>
      BY <2>1, <2>3
    <3>2. sleep_events \in SUBSET Int /\ earliest_wakeup \in Int \union {NoTime}
      BY DEF TypeOK
    <3>3. earliest_wakeup # NoTime /\ ~(when < earliest_wakeup)
      BY <2>3 DEF Before
    <3> QED BY <1>1, <3>1, <3>2, <3>3 DEF AlarmSet
  <2> QED BY <2>2, <2>3
<1>7. TypeOK'
  <2>1. ref_count' \in [Tasks -> Int]
    BY <1>4 DEF TypeOK
  <2> QED BY <1>1, <1>3, <1>4, <1>5, <1>6, <2>1, Zenon DEF TypeOK, TaskLabels, States, Reasons
<1>8. (Phases /\ Loops)'
  BY <1>1, <1>4, <1>5 DEF Phases, Loops, TypeOK
<1>9. Labels'
  BY <1>1, <1>4, <1>5 DEF Labels, InYield, TypeOK
<1>10. Lives'
  BY <1>1, <1>4, <1>5 DEF Lives, InYield, IsTerminated, TypeOK
<1>11. Newborns'
  <2>1. newborn[t] = NoTask /\ \A x \in Tasks : newborn[x] # t
    BY <1>1, TasksAssumption DEF Newborns
  <2>2. /\ pc'[t] = "yield"
        /\ \A x \in Tasks \ {t} : /\ state'[x] = state[x] /\ block_reason'[x] = block_reason[x]
                                  /\ task_queue'[x] = task_queue[x] /\ pc'[x] = pc[x]
    BY <1>4, Zenon DEF TypeOK
  <2>3. \A x \in Tasks : pc'[x] = "create" <=> pc[x] = "create"
    BY <1>1, <2>2
  <2>4. ASSUME NEW x \in Tasks, newborn[x] # NoTask
        PROVE  /\ newborn[x] # current_task' /\ state'[newborn[x]] = "BLOCKED"
               /\ block_reason'[newborn[x]] = "SLEEP" /\ task_queue'[newborn[x]] = "none"
    BY <1>5, <2>1, <2>2, <2>4, NewbornIs
  <2> QED BY <1>5, <2>3, <2>4, NewbornsStep, Zenon
<1>12. Planned' /\ OnlyLate'
  BY <1>5 DEF Planned, OnlyLate
<1>12a. Waits'
  <2>1. /\ task_queue'[t] = "sleep"
        /\ \A x \in Tasks \ {t} : /\ state'[x] = state[x] /\ block_reason'[x] = block_reason[x]
                                  /\ task_queue'[x] = task_queue[x]
    BY <1>4, Zenon DEF TypeOK
  <2>2. ASSUME NEW x \in Tasks PROVE task_queue'[x] = "wait" => task_queue[x] = "wait"
    BY <2>1
  <2>3. ASSUME NEW x \in Tasks, task_queue[x] = "wait", state[x] \in {"BLOCKED", "BLOCKED_IDLING"}
        PROVE  state'[x] \in {"BLOCKED", "BLOCKED_IDLING"} /\ block_reason'[x] = block_reason[x]
    BY <1>1, <2>1, <2>3
  <2>4. pc[current_task] # "wait_block"
    BY <1>1
  <2> QED BY <2>2, <2>3, <2>4, WaitsStep, Zenon
<1>13. AlarmSet'
  BY <1>6 DEF AlarmSet
<1>14. QueuesAgree'
  BY <1>1, <1>2, <1>3, <1>4, <1>5, Zenon DEF QueuesAgree, IsTerminated, TypeOK
<1>15. RefCountExact'
  <2>1. /\ ref_count'[t] = ref_count[t] + 1 /\ task_queue'[t] = "sleep"
        /\ \A x \in Tasks \ {t} : ref_count'[x] = ref_count[x] /\ task_queue'[x] = task_queue[x]
    BY <1>4 DEF TypeOK
  <2>2. refs[t] \in Nat
    BY DEF TypeOK
  <2>3. ref_count[t] = refs[t] + 0
    BY <1>2 DEF RefCountExact
  <2>4. ref_count'[t] = refs'[t] + (IF task_queue'[t] = "none" THEN 0 ELSE 1)
    BY <1>5, <2>1, <2>2, <2>3
  <2>5. ASSUME NEW x \in Tasks \ {t}
        PROVE  ref_count'[x] = refs'[x] + (IF task_queue'[x] = "none" THEN 0 ELSE 1)
    BY <1>5, <2>1 DEF RefCountExact
  <2> QED BY <2>4, <2>5 DEF RefCountExact
<1>16. OneRunning' /\ IdleOnlyIfNothingReady'
  BY <1>1, <1>4, <1>5, Zenon DEF OneRunning, IdleOnlyIfNothingReady, TypeOK
<1>17. SleeperHasAlarm'
  <2> SUFFICES ASSUME NEW x \in Elems(sleep_queue')
               PROVE  \E e \in sleep_events' : e <= sleep_expiry'[x]
    BY DEF SleeperHasAlarm
  <2>1. CASE x = t
    BY <2>1, <1>4, <1>6 DEF TypeOK
  <2>2. CASE x # t
    <3>1. x \in Elems(sleep_queue) /\ sleep_expiry'[x] = sleep_expiry[x]
      BY <2>2, <1>3, <1>4 DEF TypeOK
    <3> QED BY <1>1, <1>6, <3>1 DEF SleeperHasAlarm
  <2> QED BY <2>1, <2>2
<1> QED BY <1>7, <1>8, <1>9, <1>10, <1>11, <1>12, <1>12a, <1>13, <1>14, <1>15, <1>16, <1>17

\* scheduler_terminate_task(): the cleanup thread is ready to run, whatever it did before.
LEMMA TerminateInv ==
  ASSUME Consistent, NEW t \in Tasks, Terminate(t)
  PROVE  Consistent'
<1> USE DEF Consistent
<1>1. /\ t = current_task /\ t \in Workers /\ irq = "none" /\ pc[t] = "run" /\ state[t] = "RUNNING"
      /\ t # Cleaner /\ Cleaner \in Tasks
  BY TasksAssumption DEF Terminate, At, Labels, InYield, Tasks
<1>2. /\ task_queue[t] = "none" /\ t \notin Elems(ready_queue) /\ t \notin Elems(sleep_queue)
      /\ t \notin Elems(termination_queue)
  BY <1>1, InNoQueue, Zenon DEF QueuesAgree, IsTerminated
<1>3. /\ termination_queue' \in Seq(Tasks) /\ NoDuplicates(termination_queue')
      /\ Elems(termination_queue') = Elems(termination_queue) \union {t}
  <2>1. termination_queue \in Seq(Tasks) /\ NoDuplicates(termination_queue)
    BY DEF TypeOK, QueuesAgree
  <2>2. termination_queue' = Append(termination_queue, t)
    BY DEF Terminate
  <2> QED BY <1>2, <2>1, <2>2, AppendNew, Zenon
<1>4. /\ block_reason' = [block_reason EXCEPT ![t] = "TERMINATED"]
      /\ pc' = [pc EXCEPT ![t] = "yield"] /\ ret' = [ret EXCEPT ![t] = "unreachable"]
      /\ UNCHANGED <<current_task, refs, sleep_expiry, sleep_queue, earliest_wakeup,
                     preemption_event, sleep_events, preemption_counter, newborn,
                     irq, interrupt_level, iter, pulses>>
  BY DEF Terminate, CallYield, Goto, irqVars
<1>5. state[Cleaner] \in {"READY_TO_RUN", "BLOCKED"} /\ block_reason[Cleaner] # "TERMINATED"
  BY <1>1, TasksAssumption DEF OneRunning, Lives, TypeOK, States
<1>6. /\ state' = [state EXCEPT ![t] = "BLOCKED", ![Cleaner] = "READY_TO_RUN"]
      /\ task_queue' = [task_queue EXCEPT ![Cleaner] = "ready"]
      /\ ref_count' = [ref_count EXCEPT ![Cleaner] = refs[Cleaner] + 1]
      /\ ready_queue' \in Seq(Tasks) /\ ready_queue' # <<>> /\ NoDuplicates(ready_queue')
      /\ Elems(ready_queue') = Elems(ready_queue) \union {Cleaner}
      /\ preemption_ts' = IF preemption_ts = NoTime THEN TimeSlice ELSE preemption_ts
      /\ UNCHANGED <<resched, panic>>
  <2> DEFINE st == [state EXCEPT ![t] = "BLOCKED"]
  <2>1. st[Cleaner] = state[Cleaner] /\ st[t] = "BLOCKED"
    BY <1>1 DEF TypeOK
  <2>2. ready_queue \in Seq(Tasks) /\ NoDuplicates(ready_queue)
    BY DEF TypeOK, QueuesAgree
  <2>3. CASE state[Cleaner] = "READY_TO_RUN"
    <3>1. /\ state' = st /\ task_queue' = task_queue /\ ref_count' = ref_count
          /\ UNCHANGED <<resched, ready_queue, preemption_ts, panic>>
      BY <1>1, <2>1, <2>3 DEF Terminate, UnblockLocked, PlannedPreemption, NotIdling, Enqueue
    <3>2. Cleaner \in Elems(ready_queue) /\ task_queue[Cleaner] = "ready"
      BY <1>1, <2>3 DEF QueuesAgree
    <3>3. ready_queue # <<>>
      BY <3>2, <2>2, EmptyList, Zenon
    <3>4. preemption_ts # NoTime
      BY <3>3 DEF Planned
    <3>5. ref_count[Cleaner] = refs[Cleaner] + 1
      BY <1>1, <3>2 DEF RefCountExact
    <3>6. state' = [state EXCEPT ![t] = "BLOCKED", ![Cleaner] = "READY_TO_RUN"]
      BY <1>1, <2>1, <2>3, <3>1, Zenon DEF TypeOK
    <3>7. /\ task_queue' = [task_queue EXCEPT ![Cleaner] = "ready"]
          /\ ref_count' = [ref_count EXCEPT ![Cleaner] = refs[Cleaner] + 1]
      BY <1>1, <3>1, <3>2, <3>5 DEF TypeOK
    <3> QED BY <2>2, <3>1, <3>2, <3>3, <3>4, <3>6, <3>7, Zenon
  <2>4. CASE state[Cleaner] = "BLOCKED"
    <3>1. task_queue[Cleaner] = "none" /\ Cleaner \notin Elems(ready_queue)
      <4>1. Cleaner \notin Elems(ready_queue) /\ task_queue[Cleaner] \notin {"ready", "sleep", "wait"}
        BY <1>1, <2>4 DEF QueuesAgree, Lives
      <4> QED BY <1>1, <4>1 DEF TypeOK
    <3>2. /\ state' = [st EXCEPT ![Cleaner] = "READY_TO_RUN",
                            ![current_task] = IF @ = "BLOCKED_IDLING" THEN "BLOCKED" ELSE @]
          /\ task_queue' = [task_queue EXCEPT ![Cleaner] = "ready"]
          /\ ref_count' = [ref_count EXCEPT ![Cleaner] = @ + 1]
          /\ ready_queue' = Append(ready_queue, Cleaner)
          /\ preemption_ts' = IF preemption_ts = NoTime THEN TimeSlice ELSE preemption_ts
          /\ UNCHANGED <<resched, panic>>
      BY <1>1, <2>1, <2>4, <3>1 DEF Terminate, UnblockLocked, KAssert, PlannedPreemption,
           NotIdling, Enqueue
    <3>3. ref_count[Cleaner] = refs[Cleaner]
      BY <1>1, <3>1 DEF RefCountExact, TypeOK
    <3>4. state' = [state EXCEPT ![t] = "BLOCKED", ![Cleaner] = "READY_TO_RUN"]
      BY <1>1, <2>1, <3>2, Zenon DEF TypeOK
    <3>5. /\ ready_queue' \in Seq(Tasks) /\ ready_queue' # <<>> /\ NoDuplicates(ready_queue')
          /\ Elems(ready_queue') = Elems(ready_queue) \union {Cleaner}
      <4>1. ready_queue' = Append(ready_queue, Cleaner)
        BY <3>2
      <4> QED BY <1>1, <2>2, <3>1, <4>1, AppendNew, Zenon
    <3> QED BY <3>2, <3>3, <3>4, <3>5, Zenon DEF TypeOK
  <2> QED BY <1>5, <2>3, <2>4
<1>7. TypeOK'
  <2>1. preemption_ts' \in Int \union {NoTime}
    BY <1>6, TimeAssumption DEF TypeOK
  <2>2. ref_count' \in [Tasks -> Int]
    <3>1. refs[Cleaner] + 1 \in Int /\ ref_count \in [Tasks -> Int]
      BY <1>1 DEF TypeOK
    <3> QED BY <1>6, <3>1, Zenon
  <2> QED BY <1>1, <1>3, <1>4, <1>6, <2>1, <2>2, Zenon DEF TypeOK, TaskLabels, States, Reasons
<1>8. Phases' /\ Loops'
  BY <1>1, <1>3, <1>4 DEF Phases, Loops, TypeOK
<1>9. Labels'
  BY <1>1, <1>4, <1>6 DEF Labels, InYield, TypeOK
<1>10. Lives'
  <2>1. /\ \A x \in Tasks \ {t, Cleaner} : state'[x] = state[x]
        /\ \A x \in Tasks \ {t} :
             block_reason'[x] = block_reason[x] /\ pc'[x] = pc[x] /\ ret'[x] = ret[x]
        /\ \A x \in Tasks \ {Cleaner} : task_queue'[x] = task_queue[x]
        /\ state'[Cleaner] = "READY_TO_RUN" /\ state'[t] = "BLOCKED" /\ pc'[t] = "yield"
        /\ task_queue'[Cleaner] = "ready" /\ block_reason'[t] = "TERMINATED"
    BY <1>1, <1>4, <1>6 DEF TypeOK
  <2>2. ASSUME NEW x \in Tasks
        PROVE  /\ block_reason'[x] = "TERMINATED" =>
                    state'[x] = "BLOCKED" /\ x \in Workers /\ InYield(x)'
               /\ ret'[x] = "unreachable" => block_reason'[x] = "TERMINATED"
               /\ state'[x] = "NONE" => x \in Workers /\ block_reason'[x] = "SLEEP"
    <3>1. CASE x = t
      BY <1>1, <2>1, <3>1 DEF InYield, Lives
    <3>2. CASE x = Cleaner
      BY <1>1, <1>5, <2>1, <3>2 DEF Lives
    <3>3. CASE x \notin {t, Cleaner}
      <4>1. /\ block_reason[x] = "TERMINATED" => state[x] = "BLOCKED" /\ x \in Workers /\ InYield(x)
            /\ ret[x] = "unreachable" => block_reason[x] = "TERMINATED"
            /\ state[x] = "NONE" => x \in Workers /\ block_reason[x] = "SLEEP"
        BY DEF Lives
      <4> QED BY <2>1, <3>3, <4>1 DEF InYield
    <3> QED BY <3>1, <3>2, <3>3
  <2> QED BY <1>6, <2>1, <2>2, Zenon DEF Lives
<1>11. Newborns'
  <2>1. newborn[t] = NoTask
    BY <1>1 DEF Newborns
  <2>2. \A x \in Tasks : newborn[x] # NoTask => newborn[x] \in Tasks \ {t, Cleaner}
    <3>1. \A x \in Tasks : newborn[x] # NoTask => newborn[x] \in Workers \ {t}
      BY <1>1 DEF Newborns
    <3> QED BY <3>1, TasksAssumption DEF Tasks
  <2>3. \A x \in Tasks : pc'[x] = "create" <=> newborn[x] # NoTask
    BY <1>1, <1>4, <2>1 DEF Newborns, TypeOK
  <2>4. \A x \in Tasks \ {t, Cleaner} :
          /\ state'[x] = state[x] /\ block_reason'[x] = block_reason[x]
          /\ task_queue'[x] = task_queue[x]
    BY <1>4, <1>6 DEF TypeOK
  <2>5. ASSUME NEW x \in Tasks, newborn[x] # NoTask
        PROVE  /\ newborn[x] # current_task' /\ state'[newborn[x]] = "BLOCKED"
               /\ block_reason'[newborn[x]] = "SLEEP" /\ task_queue'[newborn[x]] = "none"
    <3>1. /\ newborn[x] \in Tasks \ {t, Cleaner} /\ state[newborn[x]] = "BLOCKED"
          /\ block_reason[newborn[x]] = "SLEEP" /\ task_queue[newborn[x]] = "none"
      BY <2>2, <2>5, NewbornIs
    <3>2. /\ state'[newborn[x]] = state[newborn[x]] /\ task_queue'[newborn[x]] = task_queue[newborn[x]]
          /\ block_reason'[newborn[x]] = block_reason[newborn[x]] /\ current_task' = t
      BY <1>1, <1>4, <2>4, <3>1
    <3> QED BY <3>1, <3>2
  <2>6. newborn' = newborn /\ \A x \in Tasks : pc'[x] = "create" <=> pc[x] = "create"
    BY <1>4, <2>3 DEF Newborns
  <2> QED BY <2>5, <2>6, NewbornsStep, Zenon
<1>12. Waits' /\ AlarmSet'
  <2>1. /\ task_queue'[Cleaner] = "ready"
        /\ \A x \in Tasks \ {Cleaner} : task_queue'[x] = task_queue[x]
        /\ \A x \in Tasks \ {t, Cleaner} :
             state'[x] = state[x] /\ block_reason'[x] = block_reason[x]
    BY <1>1, <1>4, <1>6, Zenon DEF TypeOK
  <2>2. ASSUME NEW x \in Tasks PROVE task_queue'[x] = "wait" => task_queue[x] = "wait"
    BY <2>1
  <2>3. ASSUME NEW x \in Tasks, task_queue[x] = "wait", state[x] \in {"BLOCKED", "BLOCKED_IDLING"}
        PROVE  state'[x] \in {"BLOCKED", "BLOCKED_IDLING"} /\ block_reason'[x] = block_reason[x]
    <3>1. x \notin {t, Cleaner}
      BY <1>1, <2>3 DEF Lives
    <3> QED BY <2>1, <2>3, <3>1
  <2>4. pc[current_task] # "wait_block"
    BY <1>1
  <2>5. Waits'
    BY <2>2, <2>3, <2>4, WaitsStep, Zenon
  <2> QED BY <1>4, <2>5 DEF AlarmSet
<1>13. QueuesAgree'
  <2>1. ASSUME NEW x \in Tasks
        PROVE /\ x \in Elems(ready_queue') <=> task_queue'[x] = "ready"
              /\ x \in Elems(ready_queue') <=> state'[x] = "READY_TO_RUN"
    BY <1>1, <1>2, <1>6, Zenon DEF QueuesAgree, TypeOK
  <2>2. ASSUME NEW x \in Tasks
        PROVE /\ x \in Elems(sleep_queue) <=> task_queue'[x] = "sleep"
              /\ x \in Elems(sleep_queue) =>
                   state'[x] \in {"BLOCKED", "BLOCKED_IDLING"} /\ block_reason'[x] = "SLEEP"
    BY <1>1, <1>2, <1>4, <1>6, Zenon DEF QueuesAgree, TypeOK, Lives
  <2>3. ASSUME NEW x \in Tasks
        PROVE x \in Elems(termination_queue') <=> IsTerminated(x)'
    BY <1>1, <1>3, <1>4, <1>5, <1>6, Zenon DEF QueuesAgree, TypeOK, IsTerminated
  <2> QED BY <1>3, <1>4, <1>6, <2>1, <2>2, <2>3, Zenon DEF QueuesAgree
<1>14. RefCountExact'
  BY <1>1, <1>4, <1>6, Zenon DEF RefCountExact, TypeOK
<1>15. OneRunning'
  BY <1>1, <1>4, <1>6 DEF OneRunning, TypeOK
<1>16. IdleOnlyIfNothingReady'
  BY <1>1, <1>6, Zenon DEF IdleOnlyIfNothingReady, OneRunning, TypeOK
<1>17. Planned'
  BY <1>6, TimeAssumption DEF Planned
<1>18. (SleeperHasAlarm /\ OnlyLate)'
  BY <1>4, <1>6 DEF SleeperHasAlarm, OnlyLate
<1> QED BY <1>7, <1>8, <1>9, <1>10, <1>11, <1>12, <1>13, <1>14, <1>15, <1>16, <1>17, <1>18

=============================================================================
