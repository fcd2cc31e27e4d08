-------------------------------- MODULE Bus --------------------------------
(***************************************************************************)
(* Buses, drivers and devices: devices/bus.c, devices/builtin_bus.c and    *)
(* the init objects of utils/initobj.c from which init_buses() registers   *)
(* them.                                                                   *)
(*                                                                         *)
(* The boot task consumes the init objects one by one and then adds the    *)
(* devices that were announced before the buses were initialised.  A       *)
(* device may be announced at any moment: the PS/2 keyboard by a bottom    *)
(* half, the terminals by the boot task.  bus_add_device() holds the       *)
(* bus's spinlock with interrupts off and is one step.                     *)
(*                                                                         *)
(* A block of the heap is a natural number; no number is given out twice.  *)
(***************************************************************************)
EXTENDS Integers, Sequences, FiniteSets

CONSTANTS
    Devices,
    InitSections,  \* the possible sequences of init objects [type, name, valid]
    Matches,       \* driver name -> the devices the bus's match() accepts
    WithData,      \* drivers with drv_data_size > 0
    FreesOnFail,   \* drivers whose device_attach() frees drv_data when it fails
    Removal,       \* whether devices are removed
    MaxBlocks      \* bound on the number of allocations

Drivers == DOMAIN Matches
None == "none"
Null == 0

VARIABLES
    objs,        \* the init objects that are left
    buses,       \* bus_list, by name
    drivers,     \* the bus's list of drivers
    phase,       \* where init_buses() is: "objects", "early", "up"
    panic,
    early,       \* the list uninitalized of builtin_bus.c
    dev,         \* device -> [bus, driver, data]
    unmatched,   \* the bus's list unmatched_devices
    attached,    \* driver -> its list of devices
    live,        \* the blocks of the heap in use as drv_data
    blocks,      \* the number of blocks given out
    twice,       \* a block was freed that was not in use
    stale        \* device_remove() ran on a device whose drv_data was freed

vars == <<objs, buses, drivers, phase, panic, early, dev, unmatched, attached,
          live, blocks, twice, stale>>

In(e, s) == \E i \in DOMAIN s : s[i] = e

heap == <<live, blocks, twice>>
lists == <<early, dev, unmatched, attached>>

Init ==
    /\ objs \in InitSections
    /\ buses = {}
    /\ drivers = <<>>
    /\ phase = "objects"
    /\ panic = FALSE
    /\ early = <<>>
    /\ dev = [d \in Devices |-> [bus |-> FALSE, driver |-> None, data |-> Null]]
    /\ unmatched = <<>>
    /\ attached = [r \in Drivers |-> <<>>]
    /\ live = {}
    /\ blocks = 0
    /\ twice = FALSE
    /\ stale = FALSE

-----------------------------------------------------------------------------
\* kassert(!call_init_objects(INITOBJ_TYPE_BUS, register_bus)): one object per
\* step; a handler that fails ends the loop, and kassert() the kernel.
RegisterBus ==
    /\ phase = "objects" /\ objs # <<>> /\ Head(objs).type = "bus"
    /\ objs' = Tail(objs)
    /\ IF Head(objs).valid /\ Head(objs).name \notin buses
       THEN buses' = buses \union {Head(objs).name} /\ UNCHANGED panic
       ELSE panic' = TRUE /\ UNCHANGED buses
    /\ UNCHANGED <<drivers, phase, stale, heap, lists>>

RegisterDriver ==
    /\ phase = "objects" /\ objs # <<>> /\ Head(objs).type = "driver"
    /\ objs' = Tail(objs)
    /\ IF Head(objs).valid /\ ~In(Head(objs).name, drivers)
       THEN drivers' = Append(drivers, Head(objs).name) /\ UNCHANGED panic
       ELSE panic' = TRUE /\ UNCHANGED drivers
    /\ UNCHANGED <<buses, phase, stale, heap, lists>>

\* buses_initalised is set; builtin_bus_init() comes next.
BusesInitialised ==
    /\ phase = "objects" /\ objs = <<>>
    /\ phase' = "early"
    /\ UNCHANGED <<objs, buses, drivers, panic, stale, heap, lists>>

-----------------------------------------------------------------------------
(* bus_add_device()                                                        *)

\* kfree(): a null pointer is ignored.
Free(s, p) ==
    IF p = Null THEN s
    ELSE [s EXCEPT !.live = @ \ {p}, !.twice = @ \/ p \notin s.live]

\* What a failing device_attach() and bus_add_device() do to drv_data.
AttachFailed(s, r) ==
    Free(IF r \in FreesOnFail THEN Free(s, s.data) ELSE s, s.data)

\* One turn of the loop over the drivers; outcome says what kalloc() and
\* device_attach() return.
TryDriver(d, outcome, s, r) ==
    IF s.driver # None \/ d \notin Matches[r] THEN s
    ELSE IF r \in WithData /\ outcome[r] = "nomem" THEN [s EXCEPT !.data = Null]
    ELSE LET a == IF r \in WithData
                  THEN [s EXCEPT !.blocks = @ + 1, !.data = s.blocks + 1,
                                 !.live = @ \union {s.blocks + 1}]
                  ELSE s
         IN  IF outcome[r] = "attach" THEN [a EXCEPT !.driver = r]
                                      ELSE AttachFailed(a, r)

\* The state after bus_add_device(d), as a record.
Added(d, outcome) ==
    LET tried[n \in 0..Len(drivers)] ==
            IF n = 0 THEN [driver |-> None, data |-> dev[d].data, live |-> live,
                           blocks |-> blocks, twice |-> twice]
            ELSE TryDriver(d, outcome, tried[n - 1], drivers[n])
    IN  tried[Len(drivers)]

bus_add_device(d, outcome) ==
    LET s == Added(d, outcome)
    IN  /\ dev' = [dev EXCEPT ![d] = [bus |-> TRUE, driver |-> s.driver,
                                      data |-> s.data]]
        /\ live' = s.live
        /\ blocks' = s.blocks
        /\ twice' = s.twice
        /\ IF s.driver = None
           THEN unmatched' = Append(unmatched, d) /\ UNCHANGED attached
           ELSE /\ attached' = [attached EXCEPT ![s.driver] = Append(@, d)]
                /\ UNCHANGED unmatched

Outcomes == [Drivers -> {"attach", "fail", "nomem"}]

\* The bound leaves room for the devices that wait.
MayAllocate ==
    blocks + (1 + Len(early)) * Cardinality(WithData) =< MaxBlocks

\* builtin_add_device() before init_buses(): EBUSY, and the device waits.
AddEarly(d) ==
    /\ phase = "objects"
    /\ ~dev[d].bus /\ ~In(d, early)
    /\ early' = Append(early, d)
    /\ UNCHANGED <<objs, buses, drivers, phase, panic, dev, unmatched, attached,
                   stale, heap>>

InitEarlyKept(outcome) ==
    /\ phase = "early" /\ early # <<>>
    /\ bus_add_device(Head(early), outcome)
    /\ panic' = (Added(Head(early), outcome).driver = None)
    /\ UNCHANGED <<objs, buses, drivers, phase, early, stale>>

\* builtin_bus_init(): the next waiting device leaves the list and is added,
\* and kassert() wants it attached.
InitEarly(outcome) ==
    /\ phase = "early" /\ early # <<>>
    /\ early' = Tail(early)
    /\ bus_add_device(Head(early), outcome)
    /\ panic' = (Added(Head(early), outcome).driver = None)
    /\ UNCHANGED <<objs, buses, drivers, phase, stale>>

UpAtOnce ==
    /\ phase = "early"
    /\ phase' = "up"
    /\ UNCHANGED <<objs, buses, drivers, panic, stale, heap, lists>>

Up ==
    /\ phase = "early" /\ early = <<>>
    /\ phase' = "up"
    /\ UNCHANGED <<objs, buses, drivers, panic, stale, heap, lists>>

\* builtin_add_device() once the buses are initialised.
Add(d, outcome) ==
    /\ phase # "objects" /\ MayAllocate
    /\ ~dev[d].bus /\ ~In(d, early)
    /\ bus_add_device(d, outcome)
    /\ UNCHANGED <<objs, buses, drivers, phase, panic, early, stale>>

\* bus_remove_device(): drv_data goes first, then device_remove() is called.
RemoveDevice(d) ==
    /\ Removal /\ dev[d].bus
    /\ LET r == dev[d].driver
           s == Free([live |-> live, twice |-> twice], dev[d].data)
       IN  IF r = None
           THEN /\ unmatched' = SelectSeq(unmatched, LAMBDA e : e # d)
                /\ UNCHANGED <<attached, live, twice, stale>>
           ELSE /\ attached' = [attached EXCEPT
                                    ![r] = SelectSeq(@, LAMBDA e : e # d)]
                /\ live' = s.live
                /\ twice' = s.twice
                /\ stale' = (stale \/ (r \in WithData /\ dev[d].data \notin s.live))
                /\ UNCHANGED unmatched
    /\ dev' = [dev EXCEPT ![d].bus = FALSE, ![d].driver = None]
    /\ UNCHANGED <<objs, buses, drivers, phase, panic, early, blocks>>

Next ==
    /\ ~panic
    /\ \/ RegisterBus \/ RegisterDriver \/ BusesInitialised \/ Up
       \/ \E outcome \in Outcomes : InitEarly(outcome)
       \/ \E d \in Devices :
              \/ AddEarly(d)
              \/ \E outcome \in Outcomes : Add(d, outcome)
              \/ RemoveDevice(d)

\* init_buses() is straight-line code of the boot task, which interrupts
\* delay and never stop.
BootStep ==
    /\ ~panic
    /\ \/ RegisterBus \/ RegisterDriver \/ BusesInitialised \/ Up
       \/ \E outcome \in Outcomes : InitEarly(outcome)

Spec == Init /\ [][Next]_vars /\ WF_vars(BootStep)

-----------------------------------------------------------------------------
Times(d, s) == Len(SelectSeq(s, LAMBDA e : e = d))

\* A device's driver_list entry links it into exactly one list, the one its
\* state calls for: waiting for the buses, without a driver, or attached to the
\* driver it names (bus.c:124-131, builtin_bus.c:24,40).
ListsExact ==
    \A d \in Devices :
        /\ Times(d, early) = IF In(d, early) /\ ~dev[d].bus THEN 1 ELSE 0
        /\ Times(d, unmatched) = IF dev[d].bus /\ dev[d].driver = None THEN 1 ELSE 0
        /\ \A r \in Drivers :
               Times(d, attached[r]) = IF dev[d].driver = r THEN 1 ELSE 0

\* Over every mix of failing allocations and failing drivers, the blocks in
\* use as drv_data are those of the devices that are attached to a driver with
\* data, one for each: nothing leaks and nothing attached was freed
\* (bus.c:110,119,150).
DataOwned ==
    LET owners == {d \in Devices : dev[d].driver \in WithData}
    IN  /\ live = {dev[d].data : d \in owners}
        /\ Cardinality(live) = Cardinality(owners)

\* A device that was announced before the buses existed is offered to the
\* drivers in the end, however many others are announced meanwhile, unless the
\* kernel stops in an assertion (builtin_bus.c:22-42).
EarlyServed ==
    \A d \in Devices : In(d, early) ~> (dev[d].bus \/ panic)

\* Every block is freed once (heap_allocator.c:492, "was free'd twice").
FreedOnce == ~twice

\* device_remove() finds the driver's data in place
\* (bus.h:141, "before removal calling the dirvers remove function").
DataAtRemoval == ~stale
=============================================================================
