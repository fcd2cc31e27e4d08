------------------------------ MODULE TimeRead ------------------------------
(***************************************************************************)
(* nano_sleep() on a CPU whose words are half as wide as the time since    *)
(* boot (devices/timer.c, utils/sleep.c).                                  *)
(*                                                                         *)
(* timer_get_time_since_boot() loads the two words one after the other, in *)
(* the order of the compiler's choice, and a task runs with interrupts     *)
(* enabled: a clock pulse can come between the loads.  Word stands for     *)
(* 2^32 and a pulse adds Period.                                           *)
(***************************************************************************)
EXTENDS Integers

CONSTANTS
    Word, Period,
    Delays,    \* the arguments of nano_sleep()
    MaxTime    \* bound on the time since boot

VARIABLES
    time,    \* time_since_boot_ns
    words,   \* word -> what was loaded, of the words that were
    pc,      \* the task: "run", "read" (first call), "check" (second), "asleep"
    called,  \* (history) the time when nano_sleep() was called
    delay,
    when     \* the argument of scheduler_nano_sleep_until()

vars == <<time, words, pc, called, delay, when>>

WordsOf(t) == [low |-> t % Word, high |-> t \div Word]
Nothing == [low |-> -1, high |-> -1]
Loaded == words.high * Word + words.low

Init ==
    /\ time = 0 /\ words = Nothing /\ pc = "run"
    /\ called = 0 /\ delay = 0 /\ when = 0

\* timer_report_clock_pulse(), in an interrupt; a sleeping task whose time has
\* come is woken (sleep_expiry_callback()).
Pulse ==
    /\ time + Period =< MaxTime
    /\ time' = time + Period
    /\ pc' = IF pc = "asleep" /\ when =< time' THEN "run" ELSE pc
    /\ UNCHANGED <<words, called, delay, when>>

nano_sleep(n) ==
    /\ pc = "run"
    /\ pc' = "read" /\ called' = time /\ delay' = n
    /\ UNCHANGED <<time, words, when>>

\* One of the two loads of timer_get_time_since_boot().
Load(w) ==
    /\ pc \in {"read", "check"}
    /\ words[w] = -1
    /\ words' = [words EXCEPT ![w] = WordsOf(time)[w]]
    /\ UNCHANGED <<time, pc, called, delay, when>>

BothLoaded == words.low # -1 /\ words.high # -1

\* A bug: the delay is taken for the time.
UntilDelay ==
    /\ pc = "read" /\ BothLoaded
    /\ when' = delay
    /\ words' = Nothing /\ pc' = "check"
    /\ UNCHANGED <<time, called, delay>>

\* The first time is known: scheduler_nano_sleep_until() is called.
SleepUntil ==
    /\ pc = "read" /\ BothLoaded
    /\ when' = Loaded + delay
    /\ words' = Nothing /\ pc' = "check"
    /\ UNCHANGED <<time, called, delay>>

\* The second time is known: the task sleeps, or returns at once.
Check ==
    /\ pc = "check" /\ BothLoaded
    /\ pc' = IF when =< Loaded THEN "run" ELSE "asleep"
    /\ words' = Nothing
    /\ UNCHANGED <<time, called, delay, when>>

Next ==
    \/ Pulse
    \/ \E n \in Delays : nano_sleep(n)
    \/ \E w \in {"low", "high"} : Load(w)
    \/ SleepUntil
    \/ Check

Spec == Init /\ [][Next]_vars

-----------------------------------------------------------------------------
\* When nano_sleep() returns, the time it was asked to sleep has passed, unless
\* the low word of the time overflowed meanwhile: only then can the two loads of
\* timer_get_time_since_boot() belong to different times that matter, whatever
\* pulses fall between them (timer.c:230-233, 238-242; sleep.c:10-13).
SleepsLongEnough ==
    pc = "run" /\ time \div Word = called \div Word => time >= called + delay
=============================================================================
