-------------------------------- MODULE Ps2 --------------------------------
(* The path of a key: the keyboard device, the controller's interrupt halves *)
(* with the scan code ring between them, the driver's scan code automaton    *)
(* and the command queue that sets the keyboard's lights.  Bytes keep their  *)
(* values; a key is the table and the index its key code is looked up at.    *)
EXTENDS Integers, Sequences

CONSTANTS
    RingSize,     \* SCAN_CODE_BUFF_SIZE
    CmdBuffSize,  \* KBD_CMD_BUFF_SIZE
    Strokes,      \* what a user may do: records of the bytes sent and the keys meant
    EarlyKeys,    \* whether keys are pressed before the buses are initialised
    MaxStrokes, MaxResends,
    SizeWrap      \* the size field of a ring buffer counts modulo this

VARIABLES
    boot,      \* how far init_buses() is: "before", "stored" (the flag), "done"
    ps2_state, buffer, read_idx, write_idx,
    bh,        \* the interrupt's bottom half: where it is, whether it was queued, its byte
    queue,     \* of the interrupt's entry: the QUEUED flag, and whether it is in the queue
    dev,       \* "none", "uninitialized" (waits for the bus) or "attached"
    kbd,       \* the driver's automaton state and its command ring
    wire, rx,  \* bytes on their way to the controller and to the keyboard
    light,     \* of the keyboard device: its lights, and whether it expects their value
    caps,      \* the lights the terminal asked for last
    panic, hist

vars == <<boot, ps2_state, buffer, read_idx, write_idx, bh, queue, dev, kbd, wire, rx,
          light, caps, panic, hist>>
ring == <<ps2_state, buffer, write_idx>>

SetLeds    == 237
Ack        == 250
Resend     == 254
SelfTested == 170
CapsBit == 4
CapsKey == <<"set1", 58>>

Init ==
    /\ boot = "before" /\ ps2_state = "initial"
    /\ buffer = [i \in 0 .. RingSize - 1 |-> 0] /\ read_idx = 0 /\ write_idx = 0
    /\ bh = [at |-> "idle", own |-> TRUE, byte |-> 0]
    /\ queue = [flag |-> FALSE, in |-> FALSE]
    /\ dev = "none"
    /\ kbd = [state |-> 0, size |-> 0, first |-> 0, last |-> 0,
              array |-> [i \in 0 .. CmdBuffSize - 1 |-> 0]]
    /\ wire = <<SelfTested>> /\ rx = <<>>
    /\ light = [on |-> 0, expects |-> FALSE] /\ caps = 0
    /\ panic = FALSE
    /\ hist = [meant |-> <<>>, reported |-> <<>>, stored |-> <<>>, taken |-> <<>>,
               dropped |-> FALSE, strokes |-> 0, resends |-> 0, pushed |-> 0]

---------------------------------------------------------------------------
(* The keyboard device (external).                                          *)
PressKey ==
    \E s \in Strokes :
        /\ hist.strokes < MaxStrokes
        /\ EarlyKeys \/ boot = "done"
        /\ wire' = wire \o s.bytes
        /\ hist' = [hist EXCEPT !.meant = @ \o s.keys, !.strokes = @ + 1]
        /\ UNCHANGED <<boot, ring, read_idx, bh, queue, dev, kbd, rx, light, caps, panic>>

Answer ==
    /\ rx # <<>> /\ rx' = Tail(rx)
    /\ \/ /\ hist.resends < MaxResends \/ (~light.expects /\ Head(rx) # SetLeds)
          /\ hist' = [hist EXCEPT !.resends = IF @ < MaxResends THEN @ + 1 ELSE @]
          /\ wire' = Append(wire, Resend) /\ UNCHANGED light
       \/ /\ light.expects \/ Head(rx) = SetLeds
          /\ light' = IF Head(rx) = SetLeds THEN [light EXCEPT !.expects = TRUE]
                                           ELSE [on |-> Head(rx), expects |-> FALSE]
          /\ wire' = Append(wire, Ack) /\ UNCHANGED hist
    /\ UNCHANGED <<boot, ring, read_idx, bh, queue, dev, kbd, caps, panic>>

---------------------------------------------------------------------------
(* The interrupt: the top half stores the byte; the bottom half follows at   *)
(* once, or is queued when a bottom half is running already.                 *)
RingFullNoWrap == write_idx + 1 = read_idx
RingFull == (write_idx + 1) % RingSize = read_idx

ps2_top_irq(b) ==
    \/ /\ b = SelfTested /\ ps2_state = "initial"
       /\ ps2_state' = "detected" /\ UNCHANGED <<buffer, write_idx, hist>>
    \/ /\ ~(b = SelfTested /\ ps2_state = "initial") /\ RingFull
       /\ hist' = [hist EXCEPT !.dropped = TRUE] /\ UNCHANGED ring
    \/ /\ ~(b = SelfTested /\ ps2_state = "initial") /\ ~RingFull
       /\ buffer' = [buffer EXCEPT ![write_idx] = b]
       /\ write_idx' = (write_idx + 1) % RingSize
       /\ hist' = [hist EXCEPT !.stored = Append(@, b)]
       /\ UNCHANGED ps2_state

Interrupt ==
    /\ wire # <<>> /\ ~panic
    /\ wire' = Tail(wire)
    /\ ps2_top_irq(Head(wire))
    /\ IF bh.at = "idle"
       THEN bh' = [bh EXCEPT !.at = "start", !.own = TRUE] /\ UNCHANGED queue
       ELSE /\ queue' = IF queue.flag THEN queue ELSE [flag |-> TRUE, in |-> TRUE]
            /\ UNCHANGED bh
    /\ UNCHANGED <<boot, read_idx, dev, kbd, rx, light, caps, panic>>

(* After a bottom half: a queued one is taken, run, and its flag cleared.    *)
NextBottomHalf ==
    /\ bh.at \in {"clear", "drain"} /\ ~panic
    /\ \/ /\ bh.at = "clear"
          /\ queue' = [queue EXCEPT !.flag = FALSE] /\ bh' = [bh EXCEPT !.at = "drain"]
       \/ /\ bh.at = "drain"
          /\ queue' = [queue EXCEPT !.in = FALSE]
          /\ bh' = IF queue.in THEN [bh EXCEPT !.at = "start", !.own = FALSE]
                               ELSE [bh EXCEPT !.at = "idle"]
    /\ UNCHANGED <<boot, ring, read_idx, dev, kbd, wire, rx, light, caps, panic, hist>>

---------------------------------------------------------------------------
(* The driver's command queue, a ring buffer.  A value of cmds is the queue  *)
(* and the bytes it has just sent to the keyboard.                           *)
Push(q, b) == [q EXCEPT !.array[q.last] = b, !.last = (@ + 1) % CmdBuffSize,
                        !.size = (@ + 1) % SizeWrap]
Pop(q)     == [q EXCEPT !.first = (@ + 1) % CmdBuffSize, !.size = (@ - 1) % SizeWrap]
First(q)   == q.array[q.first]

ps2_send_command(q, sent, b) ==
    IF q.size = CmdBuffSize THEN <<q, sent>>
    ELSE <<Push(q, b), IF q.size = 0 THEN Append(sent, b) ELSE sent>>

ps2_keyboard_set_leds(q, leds) ==
    LET one == ps2_send_command(q, <<>>, SetLeds)
    IN  ps2_send_command(one[1], one[2], leds)

Acknowledged(q) ==
    LET p == Pop(q) IN <<p, IF p.size = 0 THEN <<>> ELSE <<First(p)>>>>

ResendNext(q) == Acknowledged(q)
SendAgain(q)  == <<q, IF q.size = 0 THEN <<>> ELSE <<First(q)>>>>

(* The automaton: the state after a byte and the keys it reports.            *)
Key(table, i, up) == <<<<table, i>>, up>>
Regular(b) == IF b <= 88 THEN <<Key("set1", b, FALSE)>>
              ELSE IF b \in 128 .. 215 THEN <<Key("set1", b - 128, TRUE)>> ELSE <<>>
Extended(b) == IF b \in 16 .. 109 THEN <<Key("extended", b - 16, FALSE)>>
               ELSE IF b \in 144 .. 237 THEN <<Key("extended", b - 144, TRUE)>> ELSE <<>>

Automaton(state, b) ==
    CASE state = 0 /\ b = 224 -> <<1, <<>>>>
      [] state = 0 /\ b = 225 -> <<4, <<>>>>
      [] state = 0 /\ b \in {Ack, Resend} -> <<0, <<>>>>
      [] state = 0 /\ b \notin {224, 225, Ack, Resend} -> <<0, Regular(b)>>
      [] state = 1 /\ b \in {42, 183} -> <<2, <<>>>>
      [] state = 1 /\ b \notin {42, 183} -> <<0, Extended(b)>>
      [] state = 2 -> <<IF b = 224 THEN 3 ELSE 0, <<>>>>
      [] state = 3 -> <<0, IF b \in {55, 170} THEN <<Key("prtsc", 0, b = 170)>> ELSE <<>>>>
      [] state \in 4 .. 7 -> <<IF b = <<29, 69, 225, 157>>[state - 3] THEN state + 1 ELSE 0, <<>>>>
      [] state = 9 -> <<0, IF b = 197 THEN <<Key("pause", 0, TRUE)>> ELSE <<>>>>

ps2_keyboard_send(b) ==
    LET after == Automaton(kbd.state, b)
        lock  == after[2] = <<<<CapsKey, FALSE>>>>
        cmds  == CASE kbd.state = 0 /\ b = Ack    -> Acknowledged(kbd)
                   [] kbd.state = 0 /\ b = Resend -> SendAgain(kbd)
                   [] lock  -> ps2_keyboard_set_leds(kbd, CapsBit - caps)
                   [] OTHER -> <<kbd, <<>>>>
    IN  /\ kbd' = [cmds[1] EXCEPT !.state = after[1]]
        /\ rx' = rx \o cmds[2]
        /\ caps' = IF lock THEN CapsBit - caps ELSE caps
        /\ hist' = [hist EXCEPT !.reported = @ \o after[2],
                                !.pushed = IF lock THEN @ + (cmds[1].size - kbd.size) ELSE @]

---------------------------------------------------------------------------
(* ps2_bottom_irq().  Interrupts are enabled: a top half may come in between *)
(* any two of its steps.                                                     *)
builtin_add_device == IF boot = "before" THEN "uninitialized" ELSE "attached"

BottomStart ==
    /\ bh.at = "start" /\ ~panic
    /\ IF ps2_state = "detected"
       THEN ps2_state' = "initialized" /\ dev' = builtin_add_device
       ELSE UNCHANGED <<ps2_state, dev>>
    /\ bh' = [bh EXCEPT !.at = "loop"]
    /\ UNCHANGED <<boot, buffer, write_idx, read_idx, queue, kbd, wire, rx, light, caps, panic, hist>>

Load ==
    /\ bh.at = "loop" /\ ~panic
    /\ bh' = IF read_idx # write_idx
             THEN [bh EXCEPT !.at = "loaded", !.byte = buffer[read_idx]]
             ELSE [bh EXCEPT !.at = IF bh.own THEN "drain" ELSE "clear"]
    /\ UNCHANGED <<boot, ring, read_idx, queue, dev, kbd, wire, rx, light, caps, panic, hist>>

Advance ==
    /\ bh.at = "loaded" /\ ~panic
    /\ read_idx' = (read_idx + 1) % RingSize
    /\ hist' = [hist EXCEPT !.taken = Append(@, bh.byte)]
    /\ bh' = [bh EXCEPT !.at = "send"]
    /\ UNCHANGED <<boot, ring, queue, dev, kbd, wire, rx, light, caps, panic>>

(* A device without driver data, and a state without a case, stop the kernel. *)
Send ==
    /\ bh.at = "send" /\ ~panic
    /\ IF dev # "attached" \/ kbd.state = 8
       THEN panic' = TRUE /\ UNCHANGED <<kbd, rx, caps, hist, bh>>
       ELSE ps2_keyboard_send(bh.byte) /\ bh' = [bh EXCEPT !.at = "loop"] /\ UNCHANGED panic
    /\ UNCHANGED <<boot, ring, read_idx, queue, dev, wire, light>>

(* init_buses(), run by the boot task when no interrupt is: it sets the flag, *)
(* then attaches the devices that were added too early.                       *)
InitBuses ==
    /\ boot \in {"before", "stored"} /\ bh.at = "idle" /\ ~panic
    /\ boot' = IF boot = "before" THEN "stored" ELSE "done"
    /\ dev' = IF boot = "stored" /\ dev = "uninitialized" THEN "attached" ELSE dev
    /\ UNCHANGED <<ring, read_idx, bh, queue, kbd, wire, rx, light, caps, panic, hist>>

Next == PressKey \/ Answer \/ Interrupt \/ NextBottomHalf \/ BottomStart \/ Load \/ Advance
        \/ Send \/ InitBuses

Spec == Init /\ [][Next]_vars

---------------------------------------------------------------------------
(* What the ring holds, oldest first.                                        *)
Held == [i \in 1 .. (write_idx - read_idx) % RingSize |-> buffer[(read_idx + i - 1) % RingSize]]

(* The scan code ring of ps2.c is a queue: the bytes the top half stored are  *)
(* the ones the bottom half took followed by the ones still in the ring, in   *)
(* order, whatever the interleaving of the halves and wherever the indices    *)
(* wrap.                                                                      *)
RingIsFifo == hist.stored = hist.taken \o Held

Quiet == bh.at = "idle" /\ wire = <<>> /\ rx = <<>> /\ read_idx = write_idx

(* What the driver reports is what the user meant: unless a byte was dropped  *)
(* at a full ring, ps2_keyboard_send() reports the keys of the strokes in     *)
(* order, none invented, and all of them once every byte is processed, also   *)
(* when replies to commands arrive in between.                                *)
KeysReported ==
    ~hist.dropped => /\ \E n \in 0 .. Len(hist.meant) : hist.reported = SubSeq(hist.meant, 1, n)
                     /\ Quiet => hist.reported = hist.meant

(* The lights follow: unless a byte was dropped, once everything is quiet the *)
(* keyboard shows the lights that were asked for last and waits for no more   *)
(* data, whatever it asked to be sent again (ps2_send_command(), ACK, RESEND).*)
LightsSettle == ~hist.dropped /\ Quiet => light = [on |-> caps, expects |-> FALSE]

(* A command is put into the queue of commands or ignored as a whole: two     *)
(* bytes for the lights (ps2_keyboard_set_leds(), "ignoring sent command").   *)
WholeCommands == hist.pushed % 2 = 0

(* The keyboard driver never stops the kernel: neither on a byte that the     *)
(* automaton has no case for nor on one that reaches a device before it has   *)
(* been attached to its driver.                                               *)
DriverSurvives == ~panic
=============================================================================
