------------------------------- MODULE MCCore -------------------------------
(***************************************************************************)
(* The kernel's lists, interrupt controllers, bottom halves, task events   *)
(* and buses for TLC.  The parts share no state, so a behaviour of all of  *)
(* them is one behaviour of each: the initial state chooses the part that  *)
(* moves, and the others stay in an initial state.                         *)
(***************************************************************************)
EXTENDS List

CONSTANTS Parts,  \* the parts that are checked
          Interrupts, NoInterrupt,
          Lines, Spurious,
          Handlers, HandlerCount, TidModulus, MaxTasks,
          Devices, InitSections, Matches, WithData, FreesOnFail, Removal, MaxBlocks

ASSUME InterruptsAssumption == IsFiniteSet(Interrupts) /\ NoInterrupt \notin Interrupts

\* There is an identifier for the root task, and a task for each of the bounds.
ASSUME EventsAssumption ==
    /\ HandlerCount \in Nat /\ MaxTasks \in Nat \ {0} /\ TidModulus \in Nat \ {0, 1}
    /\ "none" \notin Handlers

VARIABLES part,
          top_half, bottom_half, enabled, queued, next, head, tail, interrupt_level,
          phase, running, dequeued, owed,
          boot, flag, idt, table, offset, mask, irr, isr, handlers, last,
          last_tid, tid, list, ended, slots, told, panic,
          objs, buses, drivers, busPhase, busPanic, early, dev, unmatched, attached, live,
          blocks, twice, stale

Irq    == INSTANCE Interrupts WITH Null <- NoInterrupt
Pic    == INSTANCE Pic WITH enabled <- flag
Events == INSTANCE TaskEvents
Bus    == INSTANCE Bus WITH phase <- busPhase, panic <- busPanic

irqVars   == <<top_half, bottom_half, enabled, queued, next, head, tail, interrupt_level,
               phase, running, dequeued, owed>>
picVars   == <<boot, flag, idt, table, offset, mask, irr, isr, handlers, last>>
eventVars == <<last_tid, tid, list, ended, slots, told, panic>>
busVars   == <<objs, buses, drivers, busPhase, busPanic, early, dev, unmatched, attached,
               live, blocks, twice, stale>>
allVars   == <<part, vars, irqVars, picVars, eventVars, busVars>>

CoreInit ==
    /\ part \in Parts
    /\ Init /\ Irq!Init /\ Pic!Init /\ Events!Init /\ Bus!Init
    /\ part # "pic" => mask = {}
    /\ part # "bus" => objs = CHOOSE s \in InitSections : TRUE

CoreNext ==
    /\ UNCHANGED part
    /\ \/ /\ part = "list" /\ Next
          /\ UNCHANGED <<irqVars, picVars, eventVars, busVars>>
       \/ /\ part = "interrupts" /\ Irq!Next
          /\ UNCHANGED <<vars, picVars, eventVars, busVars>>
       \/ /\ part = "pic" /\ Pic!Next
          /\ UNCHANGED <<vars, irqVars, eventVars, busVars>>
       \/ /\ part = "events" /\ Events!Next
          /\ UNCHANGED <<vars, irqVars, picVars, busVars>>
       \/ /\ part = "bus" /\ Bus!Next
          /\ UNCHANGED <<vars, irqVars, picVars, eventVars>>

\* The loops of list.h and of the interrupt handler go on and a bottom half
\* returns; the boot code runs on, and a line that is asked for again and again
\* is served at some point (see Interrupts, Pic and Bus).
CoreSpec ==
    /\ CoreInit /\ [][CoreNext]_allVars
    /\ WF_vars(part = "list" /\ IterStep)
    /\ WF_irqVars(part = "interrupts" /\ Irq!BottomReturn)
    /\ WF_irqVars(part = "interrupts" /\ (Irq!Dequeue \/ Irq!End))
    /\ WF_picVars(part = "pic" /\ Pic!Boot)
    /\ \A i \in Lines : SF_picVars(part = "pic" /\ Pic!Interrupt(i))
    /\ WF_busVars(part = "bus" /\ Bus!BootStep)

-----------------------------------------------------------------------------
Obj(type, name, valid) == [type |-> type, name |-> name, valid |-> valid]

MCSection ==
    <<Obj("bus", "builtin", TRUE), Obj("driver", "ps2", TRUE),
      Obj("driver", "tty", TRUE), Obj("driver", "other", TRUE)>>

\* A sound section, and three with an object that does not register.
MCInitSections ==
    {MCSection,
     Append(MCSection, Obj("driver", "tty", TRUE)),
     <<Obj("bus", "builtin", TRUE)>> \o MCSection,
     <<Obj("bus", "builtin", TRUE), Obj("driver", "ps2", FALSE)>>}

\* Three drivers that match overlapping sets of devices, one without drv_data.
MCMatches ==
    [r \in {"ps2", "tty", "other"} |->
        IF r = "ps2" THEN {CHOOSE d \in Devices : TRUE} ELSE Devices]

-----------------------------------------------------------------------------
\* list.h: a loop that may remove its entry visits every entry that was in the
\* list and was not yet removed, once and in order, and it comes to an end.
IterationComplete == [](part = "list" => IterationExact) /\ IterationEnds

\* interrupts.c: the queue of bottom halves holds exactly the entries that are
\* flagged and do not run, each once; they run in the order in which they were
\* queued, and none is left when the task goes on.
BottomHalvesInOrder ==
    /\ [](part = "interrupts" => Irq!QueueWellFormed /\ Irq!QueueEmptyInTask)
    /\ Irq!QueueIsFifo

\* interrupts.c: the handler ends once no interrupt comes in any more.
HandlerEnds == Irq!HandlerEnds

\* tasks.c: a handler for new tasks is told once of every living task, and of an
\* end only after the beginning; the last it hears of a dead task is its end;
\* and the identifiers it is told tasks apart by are distinct.
EventsExact ==
    part = "events" => Events!ToldOnce /\ Events!NoNewsOfTheDead /\ Events!TidsUnique

\* interrupts.c, pic.c: while interrupts are enabled, a line that can be
\* delivered has its vector, a descriptor and an entry in the interrupt table,
\* and every request of a registered line is served or was a spurious one.
RequestsServed == []Pic!ReadyWhenEnabled /\ Pic!RequestsServed

\* bus.c: a device's entry is in exactly one list, the one its state calls for,
\* and the blocks in use as drv_data are those of the attached devices.
DevicesExact == part = "bus" => Bus!ListsExact /\ Bus!DataOwned

\* builtin_bus.c: a device announced before the buses existed is offered to the
\* drivers in the end.
EarlyServed == Bus!EarlyServed
=============================================================================
