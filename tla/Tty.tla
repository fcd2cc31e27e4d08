-------------------------------- MODULE Tty --------------------------------
(***************************************************************************)
(* The terminals: kernel/devices/tty.c, the subscribers and the loop of    *)
(* kernel/devices/input_manager.c, and the tasks that open, read and write *)
(* a terminal through open(), devfs and tty.c.  The handler of an input    *)
(* event runs in the keyboard's bottom half and comes between any two      *)
(* steps of a task, which goes on when the event is dealt with.  Terminals *)
(* are in canonical mode, which nothing in the kernel changes.             *)
(***************************************************************************)
EXTENDS Integers, Sequences, FiniteSets, ListOps

CONSTANTS NumTtys,    \* terminals the displays add (N_VGA_BUFFERS)
          PageSize,   \* PAGE_SIZE, characters in char_buffer
          Tasks,
          NumFiles,   \* open file objects
          Events,     \* input events: <<type, key, released>>
          ReadSize,   \* size given to tty_read()
          MaxEvents, MaxOpens, MaxWrites   \* bounds

Ttys  == 0 .. NumTtys - 1
Files == 1 .. NumFiles
NULL  == -1
Queue == NumTtys   \* the list head, beside the entries of the ttys
Newline == "nl"

VARIABLES tty, num_ttys, current_tty,
          links,      \* subscriber_queue and the subscriber of every tty
          event, at,  \* event being sent and the subscriber it is sent to
          leds,       \* what set_keyboard_leds() was last called with
          row,        \* the row of each display that its cursor is in
          files,      \* oflags, ref_count and terminal of the open files
          task,       \* pc, file and locals of tty_read() and tty_write()
          typed,      \* history: characters appended since tty_open()
          count       \* events, opens and writes so far

vars == <<tty, num_ttys, current_tty, links, event, at, leds, row, files,
          task, typed, count>>
input == <<num_ttys, current_tty, links, event, at, leds>>

NoEvent == <<>>

Init ==
    /\ tty = [t \in Ttys |-> [read |-> 0, write |-> 0, commit |-> 0,
                              buf |-> [i \in 0 .. PageSize - 1 |-> "zero"],
                              opened |-> NULL, waiting |-> NULL,
                              dropped |-> FALSE, mods |-> {}, leds |-> {}]]
    /\ num_ttys = 0
    /\ current_tty = NULL
    /\ links = Single(Ttys \cup {Queue})
    /\ event = NoEvent
    /\ at = NULL
    /\ leds = {}
    /\ row = [t \in Ttys |-> <<>>]
    /\ files = [f \in Files |-> [oflags |-> {}, used |-> FALSE, tty |-> NULL]]
    /\ task = [k \in Tasks |-> [pc |-> "idle", file |-> NULL, n |-> 0, len |-> 0]]
    /\ typed = [t \in Ttys |-> 0]
    /\ count = [events |-> 0, opens |-> 0, writes |-> 0]

-----------------------------------------------------------------------------
\* The displays, as far as the row of the cursor: text_mode_putc() starts a
\* new row at a newline, text_mode_del() stops at the start of the row.
Putc(r, c) == IF c = Newline THEN <<>> ELSE Append(r, c)
Del(r, n)  == SubSeq(r, 1, Len(r) - (IF n < Len(r) THEN n ELSE Len(r)))

tty_line_len(y) == (y.write - y.commit + PageSize) % PageSize

\* The characters from index i up to index j of the ring.
Slice(y, i, j) == [k \in 1 .. (j - i + PageSize) % PageSize |->
                     y.buf[(i + k - 1) % PageSize]]

\* scheduler_unblock_task() has no effect on a task that is not blocked.
Unblocked(w) ==
    IF w # NULL /\ task[w].pc = "blocked"
    THEN [task EXCEPT ![w].pc = "copy"] ELSE task

Full(y) == (y.write + 1) % PageSize = y.read

\* tty_append_char() on the terminal y; its echo is in row.
tty_append_char(y, c) ==
    IF y.opened = NULL THEN y
    ELSE IF Full(y) THEN [y EXCEPT !.dropped = TRUE]
    ELSE [y EXCEPT !.buf[y.write] = c, !.write = (@ + 1) % PageSize]

\* A switch that leaves the old terminal subscribed.
SwitchStaying(i) ==
    IF i >= num_ttys \/ i = current_tty THEN UNCHANGED <<current_tty, links, leds>>
    ELSE /\ current_tty' = i
         /\ links' = list_add_last(links, Queue, i)
         /\ leds' = tty[i].leds

tty_switch(i) ==
    IF i >= num_ttys THEN UNCHANGED <<current_tty, links, leds>>
    ELSE /\ current_tty' = i
         /\ LET l == IF current_tty = NULL THEN links
                     ELSE list_entry_remove(links, current_tty)
            IN  links' = list_add_last(l, Queue, i)
         /\ leds' = tty[i].leds

-----------------------------------------------------------------------------
\* on_events_received(): what an event does to the current terminal y.
Pressed(e, type, keys) == e[1] = type /\ e[2] \in keys /\ ~e[3]

Toggle(S, x) == IF x \in S THEN S \ {x} ELSE S \cup {x}

AppendKey(y, c) ==
    /\ tty' = [tty EXCEPT ![current_tty] = tty_append_char(y, c)]
    /\ row' = [row EXCEPT ![current_tty] = Putc(@, c)]
    /\ typed' = [typed EXCEPT ![current_tty] = @ + 1]
    /\ UNCHANGED <<task, current_tty, links, leds>>

EnterKey(y) ==
    LET z == tty_append_char(y, Newline)
    IN  /\ IF y.opened = NULL
           THEN UNCHANGED <<tty, task>>
           ELSE /\ tty' = [tty EXCEPT ![current_tty] =
                              [z EXCEPT !.commit = z.write, !.waiting = NULL]]
                /\ task' = Unblocked(y.waiting)
        /\ row' = [row EXCEPT ![current_tty] = Putc(@, Newline)]
        /\ typed' = [typed EXCEPT ![current_tty] = @ + 1]
        /\ UNCHANGED <<current_tty, links, leds>>

\* Deletes also when nothing of the line is left.
EraseAnything(y) ==
    /\ tty' = [tty EXCEPT ![current_tty].write = (@ - 1 + PageSize) % PageSize]
    /\ row' = [row EXCEPT ![current_tty] = Del(@, 1)]
    /\ UNCHANGED <<task, typed, current_tty, links, leds>>

BackspaceKey(y) ==
    /\ IF tty_line_len(y) > 0
       THEN /\ tty' = [tty EXCEPT ![current_tty].write = (@ - 1 + PageSize) % PageSize]
            /\ row' = [row EXCEPT ![current_tty] = Del(@, 1)]
       ELSE UNCHANGED <<tty, row>>
    /\ UNCHANGED <<task, typed, current_tty, links, leds>>

LockKey(y, e) ==
    LET l == Toggle(y.leds, e[2])
    IN  /\ IF e[3] THEN UNCHANGED <<tty, leds>>
           ELSE tty' = [tty EXCEPT ![current_tty].leds = l] /\ leds' = l
        /\ UNCHANGED <<row, typed, task, current_tty, links>>

ModifierKey(y, e) ==
    /\ tty' = [tty EXCEPT ![current_tty].mods =
                  IF e[3] THEN @ \ {e[2]} ELSE @ \cup {e[2]}]
    /\ UNCHANGED <<row, typed, task, current_tty, links, leds>>

FunctionKey(y, e) ==
    /\ IF {"ctrl", "alt"} \subseteq y.mods THEN tty_switch(e[2])
       ELSE UNCHANGED <<current_tty, links, leds>>
    /\ UNCHANGED <<tty, row, typed, task>>

on_events_received(e) ==
    LET y == tty[current_tty]
    IN  \/ e[1] = "lock" /\ LockKey(y, e)
        \/ e[1] = "mod" /\ ModifierKey(y, e)
        \/ e[1] = "function" /\ ~e[3] /\ FunctionKey(y, e)
        \/ Pressed(e, "key", {"enter"}) /\ EnterKey(y)
        \/ Pressed(e, "key", {"backspace"}) /\ BackspaceKey(y)
        \/ Pressed(e, "char", {e[2]}) /\ AppendKey(y, e[2])
        \/ /\ e[1] \in {"function", "key", "char"} /\ e[3]
           /\ UNCHANGED <<tty, row, typed, task, current_tty, links, leds>>

\* input_manager_send_event(): an invalid key is refused, any other event
\* goes to every subscriber in turn.
input_manager_send_event(e) ==
    /\ event = NoEvent
    /\ num_ttys = NumTtys
    /\ count.events < MaxEvents
    /\ count' = [count EXCEPT !.events = @ + 1]
    /\ IF e[1] = "invalid" \/ LIST_EMPTY(links, Queue)
       THEN UNCHANGED <<event, at>>
       ELSE event' = e /\ at' = links.next[Queue]
    /\ UNCHANGED <<tty, num_ttys, current_tty, links, leds, row, files, task, typed>>

\* One round of LIST_ITER_STRUCT: the next entry is read after the call.
Deliver ==
    /\ event # NoEvent
    /\ on_events_received(event)
    /\ IF links'.next[at] = Queue
       THEN event' = NoEvent /\ at' = NULL
       ELSE at' = links'.next[at] /\ UNCHANGED event
    /\ UNCHANGED <<num_ttys, files, count>>
-----------------------------------------------------------------------------
\* tty_attach(): the first terminal becomes the current one.
tty_attach ==
    /\ num_ttys < NumTtys
    /\ num_ttys' = num_ttys + 1
    /\ IF num_ttys = 0
       THEN /\ current_tty' = 0
            /\ links' = list_add_last(links, Queue, 0)
            /\ leds' = tty[0].leds
       ELSE UNCHANGED <<current_tty, links, leds>>
    /\ UNCHANGED <<tty, event, at, row, files, task, typed, count>>

\* open() of a terminal: tty_open() is called with a file object whose
\* oflags are those of its last use, and which is taken only afterwards.
FreeFiles == {f \in Files : ~files[f].used}

\* What tty_open() does with the file object f of terminal t.
Refused(t, f)  == "R" \in files[f].oflags /\ tty[t].opened # NULL
tty_open(t, f) ==
    IF "W" \in files[f].oflags THEN UNCHANGED <<tty, typed>>
    ELSE /\ tty' = [tty EXCEPT ![t].opened = f, ![t].write = 0, ![t].read = 0]
         /\ typed' = [typed EXCEPT ![t] = 0]

Open(k, t, oflag) ==
    /\ task[k].pc = "idle" /\ task[k].file = NULL
    /\ t < num_ttys
    /\ count.opens < MaxOpens
    /\ count' = [count EXCEPT !.opens = @ + 1]
    /\ FreeFiles # {}
    /\ LET f == CHOOSE g \in FreeFiles : \A h \in FreeFiles : g <= h
       IN  IF "W" \notin files[f].oflags /\ Refused(t, f)
           THEN UNCHANGED <<tty, typed, files, task>>
           ELSE /\ tty_open(t, f)
                /\ files' = [files EXCEPT ![f] = [oflags |-> {oflag}, used |-> TRUE, tty |-> t]]
                /\ task' = [task EXCEPT ![k].file = f]
    /\ UNCHANGED <<input, row>>

\* close(): devfs has no close operation, so tty_close() is not called.
Close(k) ==
    /\ task[k].pc = "idle" /\ task[k].file # NULL
    /\ files' = [files EXCEPT ![task[k].file].used = FALSE]
    /\ task' = [task EXCEPT ![k].file = NULL]
    /\ UNCHANGED <<input, tty, row, typed, count>>

Goto(k, l) == task' = [task EXCEPT ![k].pc = l]

\* The steps of tty_read(): test, remember the task, block, copy.
MayUse(k, oflag) == /\ task[k].file # NULL
                    /\ files[task[k].file].oflags \cap {oflag, "RW"} # {}

ReadTest(k) ==
    /\ task[k].pc = "idle" /\ MayUse(k, "R")
    /\ LET y == tty[files[task[k].file].tty]
       IN  task' = [task EXCEPT ![k].n = 0, ![k].pc =
                       IF y.read = y.commit THEN "remember" ELSE "copy"]
    /\ UNCHANGED <<input, tty, row, files, typed, count>>

ReadRemember(k) ==
    /\ task[k].pc = "remember"
    /\ tty' = [tty EXCEPT ![files[task[k].file].tty].waiting = k]
    /\ Goto(k, "block")
    /\ UNCHANGED <<input, row, files, typed, count>>

ReadBlock(k) ==
    /\ task[k].pc = "block"
    /\ Goto(k, "blocked")
    /\ UNCHANGED <<input, tty, row, files, typed, count>>

ReadCopy(k) ==
    LET t == files[task[k].file].tty
        y == tty[t]
    IN  /\ task[k].pc = "copy"
        /\ IF task[k].n < ReadSize /\ y.read # y.commit
           THEN /\ tty' = [tty EXCEPT ![t].read = (@ + 1) % PageSize]
                /\ task' = [task EXCEPT ![k].n = @ + 1]
           ELSE /\ tty' = [tty EXCEPT ![t].dropped = @ /\ task[k].n = 0]
                /\ Goto(k, "idle")
        /\ UNCHANGED <<input, row, files, typed, count>>

\* The steps of tty_write(): the echo of the line is taken away, the data is
\* written, and the echo is put back.
WriteStart(k) ==
    /\ task[k].pc = "idle" /\ MayUse(k, "W")
    /\ count.writes < MaxWrites
    /\ count' = [count EXCEPT !.writes = @ + 1]
    /\ task' = [task EXCEPT ![k].pc = "write", ![k].n = 0,
                   ![k].len = tty_line_len(tty[files[task[k].file].tty])]
    /\ UNCHANGED <<input, tty, row, files, typed>>

WriteText(k) ==
    /\ task[k].pc = "write"
    /\ row' = [row EXCEPT ![files[task[k].file].tty] =
                  Putc(Del(@, task[k].len), "text")]
    /\ Goto(k, "echo")
    /\ UNCHANGED <<input, tty, files, typed, count>>

WriteEcho(k) ==
    LET t == files[task[k].file].tty
        y == tty[t]
    IN  /\ task[k].pc = "echo"
        /\ IF task[k].n < task[k].len
           THEN /\ row' = [row EXCEPT ![t] = Putc(@, y.buf[(y.commit + task[k].n) % PageSize])]
                /\ task' = [task EXCEPT ![k].n = @ + 1]
           ELSE Goto(k, "idle") /\ UNCHANGED row
        /\ UNCHANGED <<input, tty, files, typed, count>>

\* Tasks run when the bottom half is done with the event.
Next ==
    \/ Deliver
    \/ /\ event = NoEvent
       /\ \/ tty_attach
          \/ \E e \in Events : input_manager_send_event(e)
          \/ \E k \in Tasks, t \in Ttys, o \in {"R", "W", "RW"} : Open(k, t, o)
          \/ \E k \in Tasks : \/ Close(k) \/ ReadTest(k) \/ ReadRemember(k)
                              \/ ReadBlock(k) \/ ReadCopy(k)
                              \/ WriteStart(k) \/ WriteText(k) \/ WriteEcho(k)

Spec == Init /\ [][Next]_vars
\* A bottom half that has been entered goes on until it returns.
FairSpec == Spec /\ WF_vars(Deliver)

-----------------------------------------------------------------------------
\* Only the current terminal gets input: the queue of subscribers holds its
\* entry and no other, and the lights of the keyboard are those of that
\* terminal, whatever was typed on which terminal.
InputFollowsSwitch ==
    current_tty # NULL =>
        /\ links.next[Queue] = current_tty /\ links.next[current_tty] = Queue
        /\ leds = tty[current_tty].leds

Committed(t) == Slice(tty[t], tty[t].read, tty[t].commit)
Line(t)      == Slice(tty[t], tty[t].commit, tty[t].write)

\* The ring with its three indices is a line discipline: no character is
\* lost, duplicated or reordered between the key handler and tty_read(),
\* editing never reaches committed characters, and reading never reaches the
\* line that is being edited.
Discipline == INSTANCE LineDiscipline WITH
                 Chars <- {e[2] : e \in {x \in Events : x[1] = "char"}},
                 Capacity <- PageSize - 1, committed <- Committed(0), line <- Line(0)
IsLineDiscipline == Discipline!LineSpec

\* A reader sleeps only while nothing is committed, and the terminal knows
\* whom to wake: "the commited part [read_idx, commited_idx] read to be read"
\* is never left waiting for a reader that sleeps.
NoReaderLeftAsleep ==
    \A k \in Tasks : task[k].pc = "blocked" =>
        LET y == tty[files[task[k].file].tty]
        IN  y.read = y.commit /\ y.waiting = k

\* tty_open(): "Only allow a single consumer".
SingleConsumer ==
    \A f, g \in Files : ( /\ files[f].used /\ files[g].used
                          /\ files[f].tty = files[g].tty
                          /\ "W" \notin files[f].oflags \cup files[g].oflags ) => f = g

\* What a consumer can read was typed since it opened the terminal.
FreshForConsumer ==
    \A t \in Ttys : tty[t].opened # NULL => Len(Committed(t)) <= typed[t]

\* tty_write(): "the currently written line always closets to the cursor":
\* when no task is writing, the row ends in the line that is being typed.
RowEndsWithLine ==
    (\A k \in Tasks : task[k].pc \notin {"write", "echo"}) =>
        \A t \in Ttys : \E n \in 1 .. Len(row[t]) + 1 : Line(t) = SubSeq(row[t], n, Len(row[t]))

\* Sending an event ends: the loop over the subscribers comes to the head.
EventsEnd == event # NoEvent ~> event = NoEvent

=============================================================================
