----------------------------- MODULE TaskEvents -----------------------------
(***************************************************************************)
(* The task list, task identifiers and task event handlers of              *)
(* tasks/tasks.c.  Every operation holds task_lock with interrupts off     *)
(* where it touches the list, and is one step.                             *)
(*                                                                         *)
(* A task is known by the order of its creation, so that identifiers can   *)
(* be compared with it.                                                    *)
(***************************************************************************)
EXTENDS Integers, Sequences

CONSTANTS
    Handlers,
    HandlerCount,   \* HANDLER_COUNT
    TidModulus,     \* 2^32 in the code
    MaxTasks        \* bound on the tasks that are created

None == "none"
Masks == {{"created"}, {"terminated"}, {"created", "terminated"}}

VARIABLES
    last_tid,
    tid,         \* the identifiers of the tasks, in the order of creation
    list,        \* the tasks in task_list
    ended,       \* the tasks that are terminated
    slots,       \* task_handlers: [fn, mask]
    told,        \* handler -> task -> what it was told of it since its registration
    panic

vars == <<last_tid, tid, list, ended, slots, told, panic>>

Free == [fn |-> None, mask |-> {}]
RootTask == 1

\* Nothing has been told of any task.
Silence == [k \in 1..MaxTasks |-> <<>>]

\* send_task_event()
Sent(event, k) ==
    [h \in Handlers |->
        IF \E i \in DOMAIN slots : slots[i].fn = h /\ event \in slots[i].mask
        THEN [told[h] EXCEPT ![k] = Append(@, event)] ELSE told[h]]

\* create_root_task()
Init ==
    /\ last_tid = 1
    /\ tid = <<1>>
    /\ list = {RootTask}
    /\ ended = {}
    /\ slots = [i \in 1..HandlerCount |-> Free]
    /\ told = [h \in Handlers |-> Silence]
    /\ panic = FALSE

\* The test of alloc_tid() for a wrapped counter; 0 is no identifier.
OutOfTids(new) ==
    new < last_tid \/ new = 0

\* create_task(), when there is memory; without it no state changes.
create_task ==
    LET new == (last_tid + 1) % TidModulus
        k == Len(tid) + 1
    IN  /\ k =< MaxTasks
        /\ last_tid' = new
        /\ panic' = OutOfTids(new)
        /\ tid' = Append(tid, new)
        /\ list' = list \union {k}
        /\ told' = Sent("created", k)
        /\ UNCHANGED <<ended, slots>>

\* scheduler_terminate_task(): the event, and then the state.
Terminate(k) ==
    /\ k \in list \ ended /\ k # RootTask
    /\ told' = Sent("terminated", k)
    /\ ended' = ended \union {k}
    /\ UNCHANGED <<last_tid, tid, list, slots, panic>>

\* free_task(), by the cleanup task.
free_task(k) ==
    /\ k \in ended /\ k \in list
    /\ list' = list \ {k}
    /\ UNCHANGED <<last_tid, tid, ended, slots, told, panic>>

ReplayedAll(mask) ==
    [k \in 1..MaxTasks |-> IF "created" \in mask /\ k \in list THEN <<"created">> ELSE <<>>]

\* What a new handler is told of at once: the tasks in the list that are alive.
Replayed(mask) ==
    [k \in 1..MaxTasks |->
        IF "created" \in mask /\ k \in list \ ended THEN <<"created">> ELSE <<>>]

\* The first slot without a handler; a handler is registered once at a time.
register_task_event_handler(h, mask) ==
    LET free == {i \in DOMAIN slots : slots[i].fn = None}
    IN  /\ \A i \in DOMAIN slots : slots[i].fn # h
        /\ free # {}
        /\ slots' = [slots EXCEPT ![CHOOSE i \in free : \A j \in free : i =< j] =
                         [fn |-> h, mask |-> mask]]
        /\ told' = [told EXCEPT ![h] = Replayed(mask)]
        /\ UNCHANGED <<last_tid, tid, list, ended, panic>>

\* Only fn is cleared.
remove_task_event_handler(h) ==
    \E i \in DOMAIN slots :
        /\ slots[i].fn = h
        /\ slots' = [slots EXCEPT ![i].fn = None]
        /\ told' = [told EXCEPT ![h] = Silence]
        /\ UNCHANGED <<last_tid, tid, list, ended, panic>>

Next ==
    /\ ~panic
    /\ \/ create_task
       \/ \E k \in list : Terminate(k) \/ free_task(k)
       \/ \E h \in Handlers :
              \/ \E mask \in Masks : register_task_event_handler(h, mask)
              \/ remove_task_event_handler(h)

Spec == Init /\ [][Next]_vars

-----------------------------------------------------------------------------
\* What can be told of a task: each event once, and the end last.
Histories == {<<>>, <<"created">>, <<"terminated">>, <<"created", "terminated">>}

\* However registrations, creations and terminations interleave, a handler for
\* new tasks is told once of every living task, and a handler for both events
\* is told of the end only of tasks it knows, and after their beginning
\* (tasks.c:57-66, 204-233).
ToldOnce ==
    \A i \in DOMAIN slots, k \in 1..MaxTasks :
        slots[i].fn # None =>
            LET log == told[slots[i].fn][k]
            IN  /\ log \in Histories
                /\ "created" \in slots[i].mask /\ k \in list \ ended => log = <<"created">>
                /\ slots[i].mask = {"created", "terminated"} => log # <<"terminated">>

\* A handler is never told of the creation of a task that has ended before it
\* was registered, nor of an end twice or after it: the last event of a task
\* that has ended is its end (tasks.c:226, 174-181).
NoNewsOfTheDead ==
    \A i \in DOMAIN slots, k \in ended :
        slots[i].fn # None /\ slots[i].mask = {"created", "terminated"} =>
            told[slots[i].fn][k] # <<"created">>

\* The identifiers in the task list are distinct and none is 0, also when the
\* counter wraps around (tasks.c:28-41).
TidsUnique ==
    ~panic =>
        /\ \A j, k \in DOMAIN tid : tid[j] = tid[k] => j = k
        /\ \A k \in DOMAIN tid : tid[k] # 0

-----------------------------------------------------------------------------
\* What a handler with this mask was told of a task that is alive, and of one
\* that has ended if it was registered before.
Beginning(mask) == IF "created" \in mask THEN <<"created">> ELSE <<>>
Story(mask) ==
    IF "terminated" \in mask THEN Append(Beginning(mask), "terminated") ELSE Beginning(mask)

EventsTypeOK ==
    /\ last_tid \in Nat /\ tid \in Seq(Nat) /\ Len(tid) \in 1..MaxTasks
    /\ list \subseteq DOMAIN tid /\ ended \subseteq DOMAIN tid
    /\ slots \in [1..HandlerCount -> [fn : Handlers \union {None},
                                     mask : SUBSET {"created", "terminated"}]]
    /\ told \in [Handlers -> [1..MaxTasks -> Seq({"created", "terminated"})]]
    /\ panic \in BOOLEAN

\* The inductive invariant: identifiers count the tasks, a living task stays in
\* the list, a handler has one slot, and its log of a task is settled by its mask
\* and by whether the task exists, is alive or has ended.
EventsInv ==
    /\ EventsTypeOK
    /\ ~panic => /\ last_tid = Len(tid) /\ last_tid < TidModulus
                 /\ \A k \in DOMAIN tid : tid[k] = k
    /\ DOMAIN tid \subseteq list \union ended
    /\ \A i, j \in DOMAIN slots : slots[i].fn = slots[j].fn /\ slots[i].fn # None => i = j
    /\ \A i \in DOMAIN slots, k \in 1..MaxTasks :
           slots[i].fn # None =>
               /\ k \notin DOMAIN tid => told[slots[i].fn][k] = <<>>
               /\ k \in DOMAIN tid \ ended => told[slots[i].fn][k] = Beginning(slots[i].mask)
               /\ k \in ended => told[slots[i].fn][k] \in {<<>>, Story(slots[i].mask)}
=============================================================================
