------------------------------ MODULE Interrupts ------------------------------
(***************************************************************************)
(* generic_interrupt_handler() of kernel/tasks/interrupts.c: a top half    *)
(* runs at once with interrupts disabled, a bottom half with interrupts    *)
(* enabled, and a bottom half whose interrupt came during another bottom   *)
(* half is queued in an intrusive linked list and run afterwards.          *)
(*                                                                         *)
(* A step is what runs with interrupts disabled.  The handler can itself   *)
(* be interrupted at the phases "bottom" (in a bottom half) and "loop"     *)
(* (after one, before the loop disables interrupts), not when there was no *)
(* bottom half to run ("masked").  A level 2 interrupt runs with           *)
(* interrupts disabled from its start to its end: it is one step.          *)
(***************************************************************************)
EXTENDS Integers, Sequences, FiniteSets

CONSTANTS Interrupts,  \* interrupt numbers, as indices of interrupt_table
          Null         \* the null pointer

VARIABLES top_half,     \* entry->top_half is set
          bottom_half,  \* entry->bottom_half is set
          enabled,      \* INTERRUPT_ENABLED of entry->flags
          queued,       \* INTERRUPT_QUEUED of entry->flags
          next,         \* entry->next
          head, tail,   \* bottom_half_queue_head, bottom_half_queue_tail
          interrupt_level,
          phase,        \* of the level 1 handler: "none", "bottom", "loop" or "masked"
          running,      \* the entry whose bottom half runs, or Null
          dequeued,     \* whether that bottom half was taken from the queue
          owed          \* history: a top half ran, and its bottom half did not start since

queueVars == <<queued, next, head, tail>>
tableVars == <<top_half, bottom_half, enabled>>
vars == <<tableVars, queueVars, interrupt_level, phase, running, dequeued, owed>>

Init ==
  /\ top_half = [n \in Interrupts |-> FALSE] /\ bottom_half = [n \in Interrupts |-> FALSE]
  /\ enabled = [n \in Interrupts |-> FALSE] /\ queued = [n \in Interrupts |-> FALSE]
  /\ next = [n \in Interrupts |-> Null] /\ head = Null /\ tail = Null
  /\ interrupt_level = 0 /\ phase = "none" /\ running = Null /\ dequeued = FALSE
  /\ owed = [n \in Interrupts |-> FALSE]

\* register_interrupt_handler(), by a task.  flags is written last, so that an interrupt in
\* between finds the entry disabled.  All the error returns leave the table as it is.
Register(n, top, bottom) ==
  /\ interrupt_level = 0 /\ ~enabled[n] /\ (top \/ bottom)
  /\ top_half' = [top_half EXCEPT ![n] = top]
  /\ bottom_half' = [bottom_half EXCEPT ![n] = bottom]
  /\ enabled' = [enabled EXCEPT ![n] = TRUE]
  /\ queued' = [queued EXCEPT ![n] = FALSE] /\ next' = [next EXCEPT ![n] = Null]
  /\ UNCHANGED <<head, tail, interrupt_level, phase, running, dequeued, owed>>

\* The bottom half of n starts.
Start(n, fromQueue) ==
  /\ running' = n /\ dequeued' = fromQueue /\ phase' = "bottom"
  /\ owed' = [owed EXCEPT ![n] = FALSE]

\* A level 1 interrupt of a registered entry: the top half, then the bottom half starts, or
\* the loop follows, still with interrupts disabled.  An interrupt that is not registered
\* changes nothing here.
Level1(n) ==
  /\ phase = "none" /\ enabled[n]
  /\ interrupt_level' = interrupt_level + 1
  /\ \/ bottom_half[n] /\ Start(n, FALSE)
     \/ ~bottom_half[n] /\ phase' = "masked" /\ UNCHANGED <<running, dequeued, owed>>
  /\ UNCHANGED <<tableVars, queueVars>>

\* A bug: a bottom half that is queued goes first.
Level2Lifo(n) ==
  /\ interrupt_level = 1 /\ enabled[n] /\ phase \in {"bottom", "loop"}
  /\ owed' = [owed EXCEPT ![n] = bottom_half[n]]
  /\ \/ /\ bottom_half[n] /\ ~queued[n]
        /\ head' = n /\ next' = [next EXCEPT ![n] = head]
        /\ tail' = IF head = Null THEN n ELSE tail
        /\ queued' = [queued EXCEPT ![n] = TRUE]
     \/ /\ ~(bottom_half[n] /\ ~queued[n])
        /\ UNCHANGED queueVars
  /\ UNCHANGED <<tableVars, interrupt_level, phase, running, dequeued>>

\* A level 2 interrupt: the top half, then the bottom half is queued unless it already is.
Level2(n) ==
  /\ interrupt_level = 1 /\ enabled[n] /\ phase \in {"bottom", "loop"}
  /\ owed' = [owed EXCEPT ![n] = bottom_half[n]]
  /\ \/ /\ bottom_half[n] /\ ~queued[n]
        /\ head' = IF head = Null THEN n ELSE head
        /\ next' = IF head = Null THEN [next EXCEPT ![n] = Null]
                                  ELSE [next EXCEPT ![tail] = n, ![n] = Null]
        /\ tail' = n
        /\ queued' = [queued EXCEPT ![n] = TRUE]
     \/ /\ ~(bottom_half[n] /\ ~queued[n])
        /\ UNCHANGED queueVars
  /\ UNCHANGED <<tableVars, interrupt_level, phase, running, dequeued>>

\* The bottom half returns; a queued one clears its flag, with interrupts enabled.
BottomReturn ==
  /\ phase = "bottom"
  /\ queued' = IF dequeued THEN [queued EXCEPT ![running] = FALSE] ELSE queued
  /\ phase' = "loop" /\ running' = Null /\ dequeued' = FALSE
  /\ UNCHANGED <<tableVars, next, head, tail, interrupt_level, owed>>

\* One iteration of the loop takes the first entry of the queue ...
Dequeue ==
  /\ phase \in {"loop", "masked"} /\ head # Null
  /\ head' = next[head]
  /\ tail' = IF next[head] = Null THEN Null ELSE tail
  /\ next' = [next EXCEPT ![head] = Null]
  /\ Start(head, TRUE)
  /\ UNCHANGED <<tableVars, queued, interrupt_level>>

\* A bug: the loop is not left.
EndLoops ==
  /\ phase \in {"loop", "masked"} /\ head = Null /\ phase' = "loop"
  /\ UNCHANGED <<tableVars, queueVars, interrupt_level, running, dequeued, owed>>

\* ... or ends the interrupt, with scheduler_end_of_interrupt().
End ==
  /\ phase \in {"loop", "masked"} /\ head = Null
  /\ phase' = "none" /\ interrupt_level' = interrupt_level - 1
  /\ UNCHANGED <<tableVars, queueVars, running, dequeued, owed>>

Next ==
  \/ \E n \in Interrupts : Level1(n) \/ Level2(n)
  \/ \E n \in Interrupts, top, bottom \in BOOLEAN : Register(n, top, bottom)
  \/ BottomReturn \/ Dequeue \/ End

Spec == Init /\ [][Next]_vars

\* A bottom half returns, and the handler goes on.
FairSpec == Spec /\ WF_vars(BottomReturn) /\ WF_vars(Dequeue \/ End)

-----------------------------------------------------------------------------
\* s is the list that starts at head and ends at tail.
IsChain(s) ==
  /\ head = IF s = <<>> THEN Null ELSE s[1]
  /\ tail = IF s = <<>> THEN Null ELSE s[Len(s)]
  /\ \A i \in 1 .. Len(s) : next[s[i]] = IF i = Len(s) THEN Null ELSE s[i + 1]

Chains == {s \in UNION {[1 .. k -> Interrupts] : k \in 0 .. Cardinality(Interrupts)} :
             IsChain(s)}

\* The linked list is well formed: from head it leads to tail, and holds exactly the
\* entries that are flagged and not running, each once.
QueueWellFormed ==
  \E s \in Chains :
    /\ \A i, j \in 1 .. Len(s) : s[i] = s[j] => i = j
    /\ {s[i] : i \in 1 .. Len(s)} =
         {n \in Interrupts : queued[n] /\ ~(dequeued /\ n = running)}

\* No bottom half is left behind in the queue when the task goes on.
QueueEmptyInTask == interrupt_level = 0 => head = Null /\ \A n \in Interrupts : ~queued[n]

HandlerTypeOK ==
  /\ top_half \in [Interrupts -> BOOLEAN] /\ bottom_half \in [Interrupts -> BOOLEAN]
  /\ enabled \in [Interrupts -> BOOLEAN] /\ queued \in [Interrupts -> BOOLEAN]
  /\ next \in [Interrupts -> Interrupts \cup {Null}] /\ owed \in [Interrupts -> BOOLEAN]
  /\ head \in Interrupts \cup {Null} /\ running \in Interrupts \cup {Null}
  /\ phase \in {"none", "bottom", "loop", "masked"} /\ dequeued \in BOOLEAN

\* The inductive invariant of the handler.  The flag of a bottom half that was dequeued
\* stays set while it runs, which keeps it out of the queue.
HandlerInv ==
  /\ HandlerTypeOK
  /\ interrupt_level = IF phase = "none" THEN 0 ELSE 1
  /\ running # Null <=> phase = "bottom"
  /\ dequeued => phase = "bottom" /\ queued[running]
  /\ phase = "none" => head = Null
  /\ QueueWellFormed

Line == CHOOSE s \in Chains : TRUE

\* The list is a FIFO queue: a step appends one entry, or takes the first one and runs it.
QueueIsFifo ==
  [][\/ Line' = Line
     \/ \E n \in Interrupts : Line' = Append(Line, n)
     \/ Line # <<>> /\ Line' = Tail(Line) /\ running' = Head(Line)]_vars

\* The handler ends once no interrupt comes in any more.
HandlerEnds ==
  (<>[][~\E n \in Interrupts : Level2(n)]_vars) => []<>(interrupt_level = 0)

\* Every interrupt gets its bottom half before the interrupted task goes on.
NoBottomHalfLost == interrupt_level = 0 => \A n \in Interrupts : ~owed[n]

=============================================================================
