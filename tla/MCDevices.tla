----------------------------- MODULE MCDevices ------------------------------
(***************************************************************************)
(* The timer, sleeping, the displays, the CRT controller, snprintf() and   *)
(* the shell's line for TLC.  The parts share no state: the initial state  *)
(* chooses the one that moves.                                             *)
(***************************************************************************)
EXTENDS Crtc

CONSTANTS Parts,  \* the parts that are checked
          Callbacks, MaxDelay, MaxEvents, InitialQueueSize, NoCallback, ReallocFails,
          Word, Period, Delays, MaxTime,
          Rows, Cols, Chars, Blank,
          TextLens, Values, MaxSize, Measuring,
          Lines, PathCommand, CmdSize, PathSize

VARIABLES part,
          array, max_size, mode,
          time, words, step, called, delay, when,
          mem, row, col, job,
          call, result,
          input, line, cmd, path, save, names, pc

Queue  == INSTANCE Timer
Sleep  == INSTANCE TimeRead WITH pc <- step
Text   == INSTANCE TextMode
Printf == INSTANCE PrintfCalls
Shell  == INSTANCE Kshell

queueVars  == <<array, max_size, mode>>
sleepVars  == <<time, words, step, called, delay, when>>
textVars   == <<mem, row, col, job>>
printfVars == <<call, result>>
shellVars  == <<input, line, cmd, path, save, names, pc>>
allVars    == <<part, vars, queueVars, sleepVars, textVars, printfVars, shellVars>>

DevicesInit ==
    /\ part \in Parts
    /\ Init /\ Queue!Init /\ Sleep!Init /\ Text!Init /\ Printf!Init /\ Shell!Init
    /\ part # "crtc" => asked = {0}

DevicesNext ==
    /\ UNCHANGED part
    /\ \/ /\ part = "crtc" /\ Next
          /\ UNCHANGED <<queueVars, sleepVars, textVars, printfVars, shellVars>>
       \/ /\ part = "timer" /\ Queue!Next
          /\ UNCHANGED <<vars, sleepVars, textVars, printfVars, shellVars>>
       \/ /\ part = "sleep" /\ Sleep!Next
          /\ UNCHANGED <<vars, queueVars, textVars, printfVars, shellVars>>
       \/ /\ part = "text" /\ Text!Next
          /\ UNCHANGED <<vars, queueVars, sleepVars, printfVars, shellVars>>
       \/ /\ part = "printf" /\ Printf!Next
          /\ UNCHANGED <<vars, queueVars, sleepVars, textVars, shellVars>>
       \/ /\ part = "shell" /\ Shell!Next
          /\ UNCHANGED <<vars, queueVars, sleepVars, textVars, printfVars>>

DevicesSpec == DevicesInit /\ [][DevicesNext]_allVars

-----------------------------------------------------------------------------
\* Lines in which no two delimiters follow each other, and the command has no
\* slash.
Delimiter(c) == c \in {"/", " "}
MCLines ==
    {l \in UNION {[1..n -> {"r", "a", "/", " "}] : n \in 1..6} :
        /\ \A i \in 1..Len(l) - 1 : ~(Delimiter(l[i]) /\ Delimiter(l[i + 1]))
        /\ \E i \in 1..Len(l) : ~Delimiter(l[i])
        /\ l[1] # "/"}
MCRead == <<"r">>

-----------------------------------------------------------------------------
\* timer.c: the array is a heap with room for its elements, and it is the queue of
\* pending events that timer.h promises.
KeepsItsPromise == []Queue!HeapOrdered /\ Queue!KeepsItsPromise

\* sleep.c, timer.c: no sleep is too short while the low word of the time does
\* not overflow.
SleepsLongEnough == Sleep!SleepsLongEnough

\* text_mode_display.c: every display implements the window on its text.
ShowsItsText ==
    /\ \A d \in Displays : Text!Window(d)!Init
    /\ [][part = "text" => \A d \in Displays :
              \/ Text!Window(d)!Next
              \/ UNCHANGED <<Text!LinesOf(d), Text!Done(d).col>>]_allVars

\* __fwriter.c, libc.c: every conversion prints the numeral of its argument;
\* snprintf() succeeds exactly when the text and its terminator fit, and never
\* stores more than the buffer takes.
OutputExact == Printf!NumeralsRight /\ Printf!StoredFits

\* kshell.c, libc.c, pathwalker.c: the names that are walked are the parts of the
\* second word of the line, and a line that starts with the name of a command is
\* not taken for another one.
LineExact == Shell!NamesAsTyped /\ Shell!CommandFound
=============================================================================
