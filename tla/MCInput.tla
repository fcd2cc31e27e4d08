------------------------------ MODULE MCInput -------------------------------
(***************************************************************************)
(* The PS/2 controller, the keyboard driver and the terminals for TLC.     *)
(* Ps2 stops at the keys that the driver reports and Tty starts at input   *)
(* events, so the parts share no state: the initial state chooses the one  *)
(* that moves.  The terminals are checked twice, with one terminal that is *)
(* read and written, and with three that are switched between.             *)
(***************************************************************************)
EXTENDS Integers, Sequences

CONSTANTS Parts,  \* the parts that are checked
          Bits,
          RingSize, CmdBuffSize, Strokes, EarlyKeys, MaxStrokes, MaxResends, SizeWrap,
          NumTtys, PageSize, Tasks, NumFiles, Events, ReadSize, MaxEvents, MaxOpens,
          MaxWrites

\* A ring has a place, and what the keyboard sends is bytes.
ASSUME KeysAssumption ==
    RingSize \in Nat \ {0} /\ \A s \in Strokes : s.bytes \in Seq(0 .. 255)

\* There is a terminal, its page has a place, and function keys are numbered.
ASSUME TerminalsAssumption ==
    /\ NumTtys \in Nat \ {0} /\ PageSize \in Nat \ {0}
    /\ \A e \in Events : e[1] = "function" => e[2] \in Nat

VARIABLES part,
          step, config, second, power, config_byte, dual_port,
          boot, ps2_state, buffer, read_idx, write_idx, bh, queue, dev, kbd, wire, rx,
          light, caps, panic, hist,
          tty, num_ttys, current_tty, links, event, at, leds, row, files, task, typed,
          count

Switches == {<<"mod", m, up>> : m \in {"ctrl", "alt"}, up \in BOOLEAN}
              \cup {<<"lock", "caps", up>> : up \in BOOLEAN}
              \cup {<<"function", i, FALSE>> : i \in 0 .. 2}

Controller == INSTANCE Ps2Controller WITH at <- step
Keyboard   == INSTANCE Ps2
Terminal   == INSTANCE Tty
Terminals  == INSTANCE Tty WITH NumTtys <- 3, PageSize <- 2, Tasks <- {}, NumFiles <- 1,
                                Events <- Switches, ReadSize <- 1, MaxEvents <- 7,
                                MaxOpens <- 0, MaxWrites <- 0

controllerVars == <<step, config, second, power, config_byte, dual_port>>
keyboardVars == <<boot, ps2_state, buffer, read_idx, write_idx, bh, queue, dev, kbd, wire,
                  rx, light, caps, panic, hist>>
ttyVars == <<tty, num_ttys, current_tty, links, event, at, leds, row, files, task, typed,
             count>>
allVars == <<part, controllerVars, keyboardVars, ttyVars>>

InputInit ==
    /\ part \in Parts
    /\ Controller!Init /\ Keyboard!Init
    /\ IF part = "switching" THEN Terminals!Init ELSE Terminal!Init
    /\ part # "controller" => second = "works" /\ power = {}

InputNext ==
    /\ UNCHANGED part
    /\ \/ /\ part = "controller" /\ Controller!Next
          /\ UNCHANGED <<keyboardVars, ttyVars>>
       \/ /\ part = "keyboard" /\ Keyboard!Next
          /\ UNCHANGED <<controllerVars, ttyVars>>
       \/ /\ part = "terminal" /\ Terminal!Next
          /\ UNCHANGED <<controllerVars, keyboardVars>>
       \/ /\ part = "switching" /\ Terminals!Next
          /\ UNCHANGED <<controllerVars, keyboardVars>>

InputSpec == InputInit /\ [][InputNext]_allVars

-----------------------------------------------------------------------------
Stroke(b, k) == [bytes |-> b, keys |-> k]
Key(table, i, up) == <<<<table, i>>, up>>

\* Single bytes, prefixed bytes and the two long sequences of Print Screen, and
\* the key that changes the lights.
MCStrokes ==
    {Stroke(<<30, 158>>, <<Key("set1", 30, FALSE), Key("set1", 30, TRUE)>>),
     Stroke(<<224, 72>>, <<Key("extended", 56, FALSE)>>),
     Stroke(<<224, 42, 224, 55>>, <<Key("prtsc", 0, FALSE)>>),
     Stroke(<<224, 183, 224, 170>>, <<Key("prtsc", 0, TRUE)>>),
     Stroke(<<58>>, <<Key("set1", 58, FALSE)>>)}

\* Characters, editing, a release and a key without a meaning.
MCEvents == {<<"char", "a", FALSE>>, <<"char", "b", FALSE>>, <<"key", "enter", FALSE>>,
             <<"key", "backspace", FALSE>>, <<"char", "a", TRUE>>, <<"invalid", 0, FALSE>>}

-----------------------------------------------------------------------------
\* ps2.c: whatever it finds, ps2_init() leaves the controller with port 1 on and
\* translated, and a second port off.
Configured == Controller!Configured

\* ps2.c, ps2_keyboard.c: the scan code ring is a queue, whatever the interleaving
\* of the halves, and the driver reports the keys that were meant, in order, also
\* when replies to commands arrive in between.
KeysInOrder == Keyboard!RingIsFifo /\ Keyboard!KeysReported

\* ps2_keyboard.c: once everything is quiet, the keyboard shows the lights that
\* were asked for last.
LightsSettle == Keyboard!LightsSettle

\* tty.c: the ring with its three indices is a line discipline.
IsLineDiscipline ==
    /\ Terminal!Discipline!LineInit
    /\ [][part = "terminal" =>
             \/ Terminal!Discipline!LineNext
             \/ UNCHANGED <<Terminal!Committed(0), Terminal!Line(0)>>]_allVars

\* tty.c, input_manager.c: only the current terminal gets input, and the lights
\* are its lights.
InputFollowsSwitch ==
    IF part = "switching" THEN Terminals!InputFollowsSwitch ELSE Terminal!InputFollowsSwitch

\* tty.c: a reader sleeps only while nothing is committed ("the commited part
\* [read_idx, commited_idx] read to be read").
NoReaderLeftAsleep == part = "terminal" => Terminal!NoReaderLeftAsleep
=============================================================================
