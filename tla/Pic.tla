-------------------------------- MODULE Pic --------------------------------
(* The two cascaded interrupt controllers (external: requests, masks and      *)
(* in-service bits), the driver for them, and init_interrupts(), which sets   *)
(* them up.  The registers are sets of bit numbers; lines 8 to 15 are the     *)
(* bits 0 to 7 of the second controller, which is chained to line 2.          *)
EXTENDS Integers, FiniteSets

CONSTANTS Lines,     \* the lines that have a driver (0 the timer, 1 the keyboard)
          Spurious   \* which of the lines 7 and 15 may deliver a spurious interrupt

PIC1_START_INTERRUPT == 32
N_EXCEPTIONS == 31
Descriptors == 0 .. 47 \cup 252 .. 255     \* set_interrupt_descriptor()

VARIABLES boot,      \* the step of init_interrupts() that is next
          enabled,   \* the interrupt flag of the processor
          idt, table,\* vectors with a descriptor, and with an entry in the interrupt table
          offset,    \* the vector of line 0
          mask,      \* masked lines, of both controllers
          irr, isr,  \* requests and lines in service, of both controllers
          handlers,  \* handlers[] of pic.c
          last       \* of the last interrupt: line, spurious, whether a driver's handler ran,
                     \* what pic_get_isr() returned and what it stands for

vars == <<boot, enabled, idt, table, offset, mask, irr, isr, handlers, last>>

Of(pic, s) == {i \in s : i \div 8 = pic}

Init ==
    /\ boot = "idt" /\ enabled = FALSE
    /\ idt = {} /\ table = {} /\ handlers = {}
    /\ offset = 8
    /\ mask \in {{}, 0 .. 15} /\ irr = {} /\ isr = {}
    /\ last = [line |-> 0, spurious |-> FALSE, called |-> FALSE, read |-> {}, real |-> {}]

---------------------------------------------------------------------------
(* 1 << irq_num in eight bits: nothing is left of a bit beyond 7.            *)
Bit8(irq) == IF irq < 8 THEN {irq} ELSE {}

pic_irq_enable(irq) == mask \ Bit8(irq)

(* Unmask, then enter the top half in the interrupt table; verify_valid_interrupt() *)
(* has the vector refused when it has no descriptor.                                *)
pic_register_interrupt(irq) ==
    /\ irq \notin handlers
    /\ handlers' = handlers \cup {irq}
    /\ mask' = pic_irq_enable(irq)
    /\ table' = IF PIC1_START_INTERRUPT + irq \in idt
                THEN table \cup {PIC1_START_INTERRUPT + irq} ELSE table

(* init_interrupts(), with interrupts disabled until its last step.           *)
LoadIdt ==
    /\ boot = "idt" /\ boot' = "pic"
    /\ idt' = Descriptors
    /\ UNCHANGED <<enabled, table, offset, mask, irr, isr, handlers, last>>

(* pic_irq_disable_all() and pic_remap(), which keeps the masks.              *)
SetUpPic ==
    /\ boot = "pic" /\ boot' = "drivers"
    /\ mask' = 0 .. 15 /\ offset' = PIC1_START_INTERRUPT
    /\ irr' = {} /\ isr' = {}
    /\ UNCHANGED <<enabled, idt, table, handlers, last>>

RegisterDriver ==
    /\ boot = "drivers"
    /\ \E irq \in Lines \ handlers : pic_register_interrupt(irq)
    /\ boot' = IF handlers' = Lines THEN "exceptions" ELSE boot
    /\ UNCHANGED <<enabled, idt, offset, irr, isr, last>>

RegisterExceptions ==
    /\ boot = "exceptions" /\ boot' = "up"
    /\ table' = table \cup (0 .. N_EXCEPTIONS - 1)
    /\ enabled' = TRUE
    /\ UNCHANGED <<idt, offset, mask, irr, isr, handlers, last>>

---------------------------------------------------------------------------
(* The controllers.  A line is delivered when it is not masked, nor is the    *)
(* line its controller is chained to, and nothing as important is in service. *)
Raise(i) ==
    /\ boot = "up"
    /\ irr' = irr \cup {i}
    /\ UNCHANGED <<boot, enabled, idt, table, offset, mask, isr, handlers, last>>

Chain(i) == IF i < 8 THEN {i} ELSE {2, i}
Unmasked(i) == Chain(i) \cap mask = {}
Deliverable(i) == /\ Unmasked(i)
                  /\ \A s \in isr : s \div 8 = i \div 8 => s > i
                  /\ i >= 8 => \A s \in Of(0, isr) : s > 2

(* The end of an interrupt, told to a controller: its most important line in  *)
(* service is done.                                                           *)
Eoi(pic, s) == s \ {i \in Of(pic, s) : \A j \in Of(pic, s) : i <= j}

AckSecondaryOnly(irq, s) == IF irq >= 8 THEN Eoi(1, s) ELSE s
pic_acknowledge(irq, s) == Eoi(0, IF irq >= 8 THEN Eoi(1, s) ELSE s)

(* Both bytes are read from the second controller.                            *)
pic_get_isr(s) == Of(1, s) \cup {i - 8 : i \in Of(1, s)}

(* The generic handler calls pic_top_half_isr() for a vector in the table; an *)
(* interrupt nobody registered is logged and not acknowledged.                *)
pic_top_half_isr(irq, s, spurious) ==
    LET reg   == pic_get_isr(s)
        early == irq = 7 /\ 7 \in reg
        acked == IF irq = 15 /\ 15 \in reg THEN pic_acknowledge(0, s) ELSE s
        known == PIC1_START_INTERRUPT + irq \in table
    IN  /\ isr' = IF known /\ ~early THEN pic_acknowledge(irq, acked) ELSE s
        /\ last' = [line |-> irq, spurious |-> spurious,
                    called |-> known /\ ~early /\ irq \in handlers,
                    read |-> IF known THEN reg ELSE {}, real |-> IF known THEN s ELSE {}]

Interrupt(i) ==
    /\ enabled /\ i \in irr /\ Deliverable(i)
    /\ irr' = irr \ {i}
    /\ pic_top_half_isr(i, isr \cup Chain(i), FALSE)
    /\ UNCHANGED <<boot, enabled, idt, table, offset, mask, handlers>>

(* A request of an unmasked line is gone when the processor asks for it.      *)
SpuriousInterrupt(i) ==
    /\ enabled
    /\ \E j \in irr : j \div 8 = i \div 8 /\ Deliverable(j) /\ irr' = irr \ {j}
    /\ pic_top_half_isr(i, isr \cup (Chain(i) \ {i}), TRUE)
    /\ UNCHANGED <<boot, enabled, idt, table, offset, mask, handlers>>

Boot == LoadIdt \/ SetUpPic \/ RegisterDriver \/ RegisterExceptions

Next == \/ Boot
        \/ \E i \in Lines : Raise(i) \/ Interrupt(i)
        \/ \E i \in Spurious : SpuriousInterrupt(i)

(* The boot code runs on; a line that is asked for again and again is served  *)
(* at some point, because the handler of the timer, the line before it, is    *)
(* shorter than the timer's period.                                           *)
Spec == Init /\ [][Next]_vars /\ WF_vars(Boot) /\ \A i \in Lines : SF_vars(Interrupt(i))

---------------------------------------------------------------------------
(* While interrupts are enabled, a line that can be delivered has the vector  *)
(* it was remapped to, a descriptor and an entry in the interrupt table:      *)
(* otherwise it would never be acknowledged (init_interrupts(), its order).   *)
ReadyWhenEnabled ==
    enabled => \A i \in 0 .. 15 : Unmasked(i) => offset + i \in idt \cap table

(* Every request of a registered line is served or was a spurious one: the    *)
(* acknowledgements of pic_top_half_isr() leave no line in service that       *)
(* blocks it or a less important one.                                         *)
RequestsServed == \A i \in Lines : i \in irr ~> i \notin irr

(* A registered interrupt can be delivered once the boot is over              *)
(* (pic_register_interrupt() configures the controllers for it).              *)
RegisteredUnmasked == boot = "up" => \A i \in handlers : Unmasked(i)

(* pic_get_isr() returns the in-service registers of both controllers.        *)
IsrCombined == last.read = last.real

(* No driver's handler runs for a spurious interrupt (pic_top_half_isr()      *)
(* ignores it).                                                               *)
SpuriousIgnored == last.spurious => ~last.called
=============================================================================
