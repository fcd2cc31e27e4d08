---------------------------- MODULE Ps2Controller ----------------------------
(* ps2_init(): the dialogue of the kernel with the PS/2 controller at boot.   *)
(* The controller (external) is its configuration byte; *)
(* its second port may be missing, in which case bit 5 never changes, and its *)
(* self-test may restore its power-on configuration.                          *)
EXTENDS Integers

CONSTANTS Bits     \* the bits of the configuration byte that matter

VARIABLES at,      \* the line group of ps2_init() that is next
          config,  \* the bits that are set in the controller
          second,  \* the second port: "works", "reads_0" or "reads_1"
          power,   \* the power-on configuration
          config_byte, dual_port

vars == <<at, config, second, power, config_byte, dual_port>>

(* What the controller's bit 5 can be.                                        *)
Wired(c) == CASE second = "works"   -> c
              [] second = "reads_0" -> c \ {5}
              [] second = "reads_1" -> c \cup {5}

Init ==
    /\ at = "disable"
    /\ second \in {"works", "reads_0", "reads_1"}
    /\ power \in SUBSET Bits /\ config = Wired(power)
    /\ config_byte = {} /\ dual_port = TRUE

(* Both ports off; the byte that may be in the output buffer is discarded.    *)
Disable ==
    /\ at = "disable"
    /\ config' = Wired(config \cup {4, 5})
    /\ at' = "configure"
    /\ UNCHANGED <<second, power, config_byte, dual_port>>

(* Interrupts off; bit 5 says whether a second port was disabled.             *)
Configure ==
    /\ at = "configure"
    /\ dual_port' = (5 \in config)
    /\ config_byte' = config \ {0, 1}
    /\ config' = Wired(config_byte')
    /\ at' = "self_test"
    /\ UNCHANGED <<second, power>>

SelfTest ==
    /\ at = "self_test"
    /\ \/ UNCHANGED config
       \/ config' = Wired(power)
    /\ at' = "second_port"
    /\ UNCHANGED <<second, power, config_byte, dual_port>>

(* Enable, look, and disable again if the second port reacted; the port       *)
(* self-tests that follow change no configuration.                            *)
SecondPortLeftOn ==
    /\ at = "second_port"
    /\ LET on == Wired(config \ {5}) IN
       /\ config' = IF dual_port THEN on ELSE config
       /\ dual_port' = (dual_port /\ 5 \notin on)
    /\ at' = "enable"
    /\ UNCHANGED <<second, power, config_byte>>

SecondPort ==
    /\ at = "second_port"
    /\ LET on == Wired(config \ {5}) IN
       /\ config' = IF dual_port THEN Wired(on \cup {5}) ELSE config
       /\ dual_port' = (dual_port /\ 5 \notin on)
    /\ at' = "enable"
    /\ UNCHANGED <<second, power, config_byte>>

(* Port 1 on, with interrupts and translation to scan code set 1.             *)
Enable ==
    /\ at = "enable"
    /\ config_byte' = (config \ {4}) \cup {0, 6}
    /\ config' = Wired(config_byte')
    /\ at' = "reset"
    /\ UNCHANGED <<second, power, dual_port>>

(* The keyboard is reset and acknowledges; its self-test result comes later,  *)
(* as an interrupt.                                                           *)
Reset ==
    /\ at = "reset"
    /\ at' = "done"
    /\ UNCHANGED <<config, second, power, config_byte, dual_port>>

Next == Disable \/ Configure \/ SelfTest \/ SecondPort \/ Enable \/ Reset

Spec == Init /\ [][Next]_vars

(* Whatever the configuration found and whatever the self-test restores,      *)
(* ps2_init() finds out whether there is a second port, and leaves the        *)
(* controller with port 1 on, its interrupt enabled and its codes translated, *)
(* and a second port off, so that every interrupt is a keyboard byte.         *)
Configured ==
    at = "done" => /\ dual_port <=> second = "works"
                   /\ {0, 6} \subseteq config /\ 4 \notin config
                   /\ dual_port => 5 \in config
=============================================================================
