-------------------------------- MODULE Timer --------------------------------
(***************************************************************************)
(* The timed events of kernel/devices/timer.c: a binary min-heap in an     *)
(* array that is reallocated when it is full, and the loop of              *)
(* timer_report_clock_pulse() that calls the callbacks that are due.       *)
(* Indices are those of the C array, which starts at 0.  Timestamps are    *)
(* relative to time_since_boot_ns, in clock pulses.                        *)
(***************************************************************************)
EXTENDS Integers, Sequences, FiniteSets, Bags

CONSTANTS Callbacks,
          MaxDelay,          \* bound: how far ahead an event is registered, in pulses
          MaxEvents,         \* bound: events in the queue
          InitialQueueSize,  \* INITIAL_QUEUE_SIZE
          NoCallback,        \* a value that is no callback
          ReallocFails       \* whether krealloc() of an existing array may fail

Events == [timestamp : 0 .. MaxDelay, callback : Callbacks]

VARIABLES array,     \* event_queue.array, up to event_queue.size
          max_size,  \* event_queue.max_size
          mode       \* "pulse" while timer_report_clock_pulse() runs, else "idle"

vars == <<array, max_size, mode>>

Size(a) == Cardinality(DOMAIN a)
TimeOf(e) == e.timestamp

GetParent(n)     == (n - 1) \div 2
GetLeftChild(n)  == n * 2 + 1
GetRightChild(n) == n * 2 + 2

Swap(a, i, j) == [a EXCEPT ![i] = a[j], ![j] = a[i]]

\* The loop of timer_register_timed_event() that moves element i up.
RECURSIVE SiftUp(_, _)
SiftUp(a, i) ==
  IF i # 0 /\ TimeOf(a[GetParent(i)]) > TimeOf(a[i])
  THEN SiftUp(Swap(a, i, GetParent(i)), GetParent(i))
  ELSE a

\* heapify(): move element i down, along its smallest child.
RECURSIVE Heapify(_, _)
Heapify(a, i) ==
  LET left  == GetLeftChild(i)
      right == GetRightChild(i)
      s1 == IF left < Size(a) /\ TimeOf(a[left]) < TimeOf(a[i]) THEN left ELSE i
      smallest == IF right < Size(a) /\ TimeOf(a[right]) < TimeOf(a[s1]) THEN right ELSE s1
  IN IF smallest = i THEN a ELSE Heapify(Swap(a, smallest, i), smallest)

Insert(a, e) ==
  SiftUp([i \in 0 .. Size(a) |-> IF i = Size(a) THEN e ELSE a[i]], Size(a))

\* extract_min_element(): the last element replaces the first one.
ExtractMin(a) ==
  LET last == Size(a) - 1
  IN Heapify([i \in 0 .. last - 1 |-> IF i = 0 THEN a[last] ELSE a[i]], 0)

Init ==
  /\ array = [i \in {} |-> 0] /\ max_size = 0
  /\ mode = "idle"

NewMaxSize == IF max_size = 0 THEN InitialQueueSize ELSE max_size * 2

\* timer_register_timed_event(), by a task or by a callback, when krealloc() succeeds.
Register(e) ==
  /\ Size(array) < MaxEvents
  /\ array' = Insert(array, e)
  /\ \/ Size(array) < max_size /\ UNCHANGED max_size
     \/ Size(array) = max_size /\ max_size' = NewMaxSize
  /\ UNCHANGED mode

\* When krealloc() fails it has freed the array that it was to enlarge, if there was one.
\* event_queue still points to it, and kfree() has written the links of its free list over
\* the first element.
RegisterFails ==
  /\ Size(array) = max_size
  /\ \/ max_size = 0 /\ UNCHANGED array
     \/ /\ max_size # 0 /\ ReallocFails
        /\ \E t \in 0 .. MaxDelay :
             array' = [array EXCEPT ![0] = [timestamp |-> t, callback |-> NoCallback]]
  /\ UNCHANGED <<max_size, mode>>

\* timer_report_clock_pulse(): time advances ...
ClockPulse ==
  /\ mode = "idle" /\ mode' = "pulse"
  /\ array' = [i \in DOMAIN array |-> [array[i] EXCEPT !.timestamp = @ - 1]]
  /\ UNCHANGED max_size

\* A bug: an event is due a pulse too late.
DueLate == Size(array) > 0 /\ TimeOf(array[0]) < 0

Due == Size(array) > 0 /\ TimeOf(array[0]) <= 0

\* ... and as long as the first event is due, it is extracted and its callback called.
FireEvent ==
  /\ mode = "pulse" /\ Due
  /\ array' = ExtractMin(array)
  /\ UNCHANGED <<max_size, mode>>

PulseEnd ==
  /\ mode = "pulse" /\ ~Due
  /\ mode' = "idle"
  /\ UNCHANGED <<array, max_size>>

Next == (\E e \in Events : Register(e)) \/ RegisterFails \/ ClockPulse \/ FireEvent \/ PulseEnd

Spec == Init /\ [][Next]_vars

-----------------------------------------------------------------------------
\* verify_minheap_property() holds of every node, and the array has room for its elements.
HeapOrdered ==
  /\ Size(array) <= max_size
  /\ \A i \in DOMAIN array \ {0} : TimeOf(array[GetParent(i)]) <= TimeOf(array[i])

\* The bag of the elements of the array.
ArrayBag ==
  LET elems == {array[i] : i \in DOMAIN array}
  IN [e \in elems |-> Cardinality({i \in DOMAIN array : array[i] = e})]

TQ == INSTANCE TimerQueue WITH pending <- ArrayBag

\* The heap is the queue of pending events that timer.h promises: no event is lost,
\* duplicated, called early or after a later one.
KeepsItsPromise == TQ!Spec

=============================================================================
