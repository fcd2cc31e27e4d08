------------------------------- MODULE Devfs -------------------------------
(***************************************************************************)
(* Device numbers (devices/device.c), the device file system               *)
(* (fs/devfs/devfs.c) and the tree of pseudo files under it                *)
(* (fs/pseudo_file.c).                                                     *)
(*                                                                         *)
(* Drivers create devices while tasks list the directory, one entry per    *)
(* call of readdir(), and open, use and close device files.  A device is   *)
(* created under the spinlock of its bus, in one step.                     *)
(*                                                                         *)
(* The k-th device is the number k.  Files are numbers in the order of     *)
(* their creation; 0 is the null pointer.  The directory offset that       *)
(* points to file f is f + 1.                                              *)
(***************************************************************************)
EXTENDS Integers, Sequences, SequencesExt, FiniteSets

CONSTANTS
    Types,        \* device types, one DEFINE_DEVICE_TYPE each
    Ops,          \* type -> the operations of its device_fops
    Field,        \* size of a field of a device number: 256 in the code
    Tasks,
    HasClose,     \* whether devfs_ops has a close operation: FALSE in the code
    MaxDevices,   \* bound on the devices that are created
    MaxOpens      \* bound on the opens a device counts

MAJOR_MAX == Field - 1
MINOR_MAX == Field - 1
GET_DEV_NUM(major, minor) == (major % Field) * Field + (minor % Field)
GET_MAJOR(no) == no \div Field

Flags == {"O_RDONLY", "O_WRONLY", "O_RDWR"}
Null == 0

VARIABLES
    major,        \* type -> its major number, 0 for none
    last_major,
    table,        \* major_devs: index -> [devs, last_minor]
    overrun,      \* major_devs was used beyond its end
    devs,         \* the devices created: [type, no]
    files,        \* the files of devfs: [name, dev, sibling], and the device
                  \* the file was created for (of, not in the code)
    child,        \* root.child
    listing,      \* task -> [offset, seen, there], the state of readdirents()
    fd,           \* task -> [file, flags], its open device file
    opened,       \* device -> calls of ops->open() less calls of ops->close()
    nullcall      \* an operation was called that the device does not have

vars == <<major, last_major, table, overrun, devs, files, child, listing, fd,
          opened, nullcall>>

numbers == <<major, last_major, table, overrun, devs>>
use == <<fd, opened, nullcall>>

Closed == [file |-> Null, flags |-> {}]
Idle == [offset |-> -1, seen |-> <<>>, there |-> {}]

Init ==
    /\ major = [y \in Types |-> 0]
    /\ last_major = 0
    /\ table = [i \in 0..MAJOR_MAX - 2 |-> [devs |-> <<>>, last_minor |-> 0]]
    /\ overrun = FALSE
    /\ devs = <<>>
    /\ files = <<>>
    /\ child = Null
    /\ listing = [t \in Tasks |-> Idle]
    /\ fd = [t \in Tasks |-> Closed]
    /\ opened = [d \in 1..MaxDevices |-> 0]
    /\ nullcall = FALSE

-----------------------------------------------------------------------------
(* Device numbers                                                          *)

\* allocate_device_number(): the major number, the minor number or 0, and what
\* is left of the counters.
NewMajor(y) ==
    IF major[y] # 0 THEN major[y]
    ELSE IF last_major >= MAJOR_MAX THEN 0 ELSE last_major + 1

NewMinor(m) ==
    IF table[m - 1].last_minor >= MINOR_MAX THEN 0 ELSE table[m - 1].last_minor + 1

\* device_get() in the table tb: the first device with the number, or null.
device_get(tb, no) ==
    LET found == SelectSeq(tb[GET_MAJOR(no) - 1].devs, LAMBDA d : d[2] = no)
    IN  IF found = <<>> THEN Null ELSE found[1][1]

\* create_device_file() and devfs_create_file(): the device joins the list of
\* its major number; then the file is made, unless the name is taken, the
\* device is not found or there is no memory.
CreateFile(d, y, no, nomem) ==
    LET m == GET_MAJOR(no)
        tb == [table EXCEPT ![m - 1].devs = Append(@, <<d, no>>),
                            ![m - 1].last_minor = @ + 1]
        name == <<y, no % Field>>
    IN  /\ table' = tb
        /\ IF (\E f \in DOMAIN files : files[f].name = name)
               \/ device_get(tb, no) = Null \/ nomem
           THEN UNCHANGED <<files, child>>
           ELSE /\ files' = Append(files, [name |-> name, sibling |-> child, of |-> d,
                                           dev |-> device_get(tb, no)])
                /\ child' = Len(files) + 1

\* DEVICE_TYPE_BIND_AND_CREATE_FILE
CreateDevice(y, nomem) ==
    LET m == NewMajor(y)
        d == Len(devs) + 1
    IN  /\ d =< MaxDevices
        /\ major' = [major EXCEPT ![y] = m]
        /\ last_major' = IF m > last_major THEN m ELSE last_major
        /\ CASE m = 0 ->
                  /\ devs' = Append(devs, [type |-> y, no |-> 0])
                  /\ UNCHANGED <<table, overrun, files, child>>
             [] m > 0 /\ m - 1 \notin DOMAIN table ->
                  /\ overrun' = TRUE
                  /\ UNCHANGED <<table, devs, files, child>>
             [] m > 0 /\ m - 1 \in DOMAIN table /\ NewMinor(m) = 0 ->
                  /\ devs' = Append(devs, [type |-> y, no |-> 0])
                  /\ UNCHANGED <<table, overrun, files, child>>
             [] OTHER ->
                  LET no == GET_DEV_NUM(m, NewMinor(m))
                  IN  /\ devs' = Append(devs, [type |-> y, no |-> no])
                      /\ CreateFile(d, y, no, nomem)
                      /\ UNCHANGED overrun
        /\ UNCHANGED <<listing, use>>

-----------------------------------------------------------------------------
(* Listing the directory                                                   *)

StartListing(t) ==
    /\ listing[t].offset = -1
    /\ listing' = [listing EXCEPT
                       ![t] = [offset |-> 0, seen |-> <<>>, there |-> DOMAIN files]]
    /\ UNCHANGED <<numbers, files, child, use>>

OffsetOf(f) == IF f = Null THEN 0 ELSE f + 1

\* The offset that follows in a directory, given the offset of an entry.
NextEntrySkipping(offset) ==
    CASE offset = 0 -> 1
      [] offset = 1 -> IF child = Null THEN 0 ELSE OffsetOf(files[child].sibling)
      [] OTHER -> OffsetOf(files[offset - 1].sibling)

NextEntry(offset) ==
    CASE offset = 0 -> 1
      [] offset = 1 -> OffsetOf(child)
      [] OTHER -> OffsetOf(files[offset - 1].sibling)

\* One call of pseudo_file_readdir(); an offset of 0 ends the listing.
pseudo_file_readdir(t) ==
    /\ listing[t].offset >= 0
    /\ LET o == listing[t].offset
           n == NextEntry(o)
       IN  listing' = [listing EXCEPT ![t].seen = Append(@, o - 1),
                                      ![t].offset = IF n = 0 THEN -2 ELSE n]
    /\ UNCHANGED <<numbers, files, child, use>>

EndListing(t) ==
    /\ listing[t].offset = -2
    /\ listing' = [listing EXCEPT ![t] = Idle]
    /\ UNCHANGED <<numbers, files, child, use>>

-----------------------------------------------------------------------------
(* Using a device file                                                     *)

OpsOf(f) == Ops[devs[files[f].dev].type]

\* The conditions under which devfs_open() does not return ENOTSUP.
Supported(f, flags) ==
    /\ flags \intersect {"O_RDONLY", "O_RDWR"} # {} => "read" \in OpsOf(f)
    /\ flags \intersect {"O_WRONLY", "O_RDWR"} # {} => "write" \in OpsOf(f)

\* open() of a device file, for which ops->open() returns 0.
devfs_open(t, f, flags) ==
    /\ fd[t] = Closed
    /\ Supported(f, flags)
    /\ opened[files[f].dev] < MaxOpens
    /\ fd' = [fd EXCEPT ![t] = [file |-> f, flags |-> flags]]
    /\ opened' = [opened EXCEPT
                      ![files[f].dev] = IF "open" \in OpsOf(f) THEN @ + 1 ELSE @]
    /\ UNCHANGED <<numbers, files, child, listing, nullcall>>

\* read() or write(): rw_helper() tests the flags, devfs calls the device.
devfs_rw(t, op) ==
    /\ fd[t] # Closed
    /\ \/ "O_RDWR" \in fd[t].flags
       \/ op = "read" /\ "O_RDONLY" \in fd[t].flags
       \/ op = "write" /\ "O_WRONLY" \in fd[t].flags
    /\ nullcall' = (nullcall \/ op \notin OpsOf(fd[t].file))
    /\ UNCHANGED <<numbers, files, child, listing, fd, opened>>

\* close(): devfs_close() would tell the device, but only if the file system
\* has a close operation.
Close(t) ==
    /\ fd[t] # Closed
    /\ fd' = [fd EXCEPT ![t] = Closed]
    /\ opened' = [opened EXCEPT
                      ![files[fd[t].file].dev] =
                          IF HasClose /\ "close" \in OpsOf(fd[t].file) THEN @ - 1 ELSE @]
    /\ UNCHANGED <<numbers, files, child, listing, nullcall>>

Next ==
    /\ ~overrun
    /\ \/ \E y \in Types, nomem \in BOOLEAN : CreateDevice(y, nomem)
       \/ \E t \in Tasks :
              \/ StartListing(t) \/ pseudo_file_readdir(t) \/ EndListing(t)
              \/ \E f \in DOMAIN files, flags \in SUBSET Flags \ {{}} :
                     devfs_open(t, f, flags)
              \/ \E op \in {"read", "write"} : devfs_rw(t, op)
              \/ Close(t)

Spec == Init /\ [][Next]_vars

-----------------------------------------------------------------------------
\* A device file leads to the device it was created for, by its pointer and by
\* its number, whatever was created before and after it, and with counters at
\* their limits (device.c:20-57, devfs.c:115-125).
LookupExact ==
    \A f \in DOMAIN files :
        LET d == files[f].dev
        IN  /\ d = files[f].of
            /\ files[f].name = <<devs[d].type, devs[d].no % Field>>
            /\ device_get(table, devs[d].no) = d

\* A task that lists the directory while drivers create devices sees ".", ".."
\* and every file that was there when it began, and nothing twice
\* (pseudo_file.c:38-74).
ListingExact ==
    \A t \in Tasks :
        /\ IsInjective(listing[t].seen)
        /\ listing[t].offset = -2 =>
               {-1, 0} \union listing[t].there \subseteq Range(listing[t].seen)

\* No operation is called through a null pointer: what open() accepted, read()
\* and write() can do (devfs.c:31-39).
OpsPresent == ~nullcall

\* Device numbers stay within major_devs, and 0 is returned beyond
\* (device.h:72, "If out of numbers, or the major pointer is null, returns 0").
NumbersInTable == ~overrun

\* A device that was told of an open is told of the close
\* (fs-internals.h:85, "Called upon when a open file is closed").
ClosesReported ==
    \A d \in DOMAIN opened :
        (\A t \in Tasks : fd[t] = Closed \/ files[fd[t].file].dev # d)
            => opened[d] = 0
=============================================================================
