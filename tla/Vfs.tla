-------------------------------- MODULE Vfs --------------------------------
(* The virtual file system: the global tables of inodes, superblocks and open *)
(* files, the descriptor tables of the tasks, mounting, the path walk, and    *)
(* the file operations.  The file systems below it (external here) are a      *)
(* constant tree each; names are model strings and a path a sequence of them. *)
EXTENDS Integers, Sequences, FiniteSets, FiniteSetsExt, SequencesExt

CONSTANTS
    Tasks, NumInodes, NumSupers, NumFiles, NumFds,   \* sizes of the tables
    Tree,         \* per file system and inode number: [dir, kids], kids a sequence of <<name, id>>
    StaticFlags,  \* the file systems registered as read-only
    Writable,     \* the file systems with a write operation
    Opening,      \* the file systems with an open operation
    Boot,         \* mount() calls, made one after the other: records [path, fs, ro, fails]
    Opens,        \* the arguments of open(): <<path, flag>>
    Preempt,      \* whether a task may be preempted inside a call
    ExitOpen,     \* whether a task may end with open files
    MaxOffset

VARIABLES
    inodes, supers, files, fdt,
    call,      \* per task, the call it is in: mount() or open(), with its local variables
    booted,    \* how many of the mount() calls are done
    panic,
    mounted, opened, listing    \* history: mounts made, paths opened, entries listed

vars == <<inodes, supers, files, fdt, call, booted, panic, mounted, opened, listing>>

None == 0          \* NULL: no inode, no file, no superblock
EOF  == -1
Bad  == "?"        \* a name with a character that valid_path_char() refuses
Idle == [op |-> "none", at |-> "idle", rest |-> <<>>, node |-> None, arg |-> None, flag |-> "none",
         slot |-> None, id |-> 0, path |-> <<>>]
NoInode == [count |-> 0, super |-> None, id |-> 0, mountpoint |-> FALSE]
NoSuper == [fs |-> "none", root |-> None, mounted |-> None, readonly |-> FALSE]
NoFile  == [ref |-> 0, offset |-> 0, inode |-> None, oflags |-> "none"]
BootTask == CHOOSE t \in Tasks : TRUE

(* mount_rootfs(): superblock 1 with its root in the last slot.  Its flags    *)
(* stay as they are, clear.                                                   *)
Init ==
    /\ inodes = [i \in 1 .. NumInodes |->
                    IF i = NumInodes THEN [NoInode EXCEPT !.count = 1, !.super = 1, !.id = 1]
                                     ELSE NoInode]
    /\ supers = [s \in 1 .. NumSupers |->
                    IF s = 1 THEN [NoSuper EXCEPT !.fs = "romfs", !.root = NumInodes] ELSE NoSuper]
    /\ files = [f \in 1 .. NumFiles |-> NoFile]
    /\ fdt = [t \in Tasks |-> [d \in 1 .. NumFds |-> None]]
    /\ call = [t \in Tasks |-> Idle]
    /\ booted = 0 /\ panic = FALSE
    /\ mounted = {}
    /\ opened = [t \in Tasks |-> [d \in 1 .. NumFds |-> <<>>]]
    /\ listing = [t \in Tasks |-> [d \in 1 .. NumFds |-> <<>>]]

vfs_root == NumInodes

---------------------------------------------------------------------------
(* inode.c, on a table n.  get_inode() looks for the inode in the table       *)
(* (InodeOf) and takes the last free slot otherwise (FreeInode).              *)
InodeOf(n, s, id) == {i \in DOMAIN n : n[i].count > 0 /\ n[i].super = s /\ n[i].id = id}
FreeInode(n)  == {i \in DOMAIN n : n[i].count = 0}
Filled(n, i, s, id) == [n EXCEPT ![i] = [count |-> 1, super |-> s, id |-> id, mountpoint |-> FALSE]]
clone_inode(n, i) == [n EXCEPT ![i].count = @ + 1]
put_node(n, i)    == [n EXCEPT ![i].count = @ - 1]
(* The assertions of put_node().                                              *)
MayPut(n, i) == n[i].count > 1 \/ (n[i].count = 1 /\ i # vfs_root /\ ~n[i].mountpoint)

Node(n, i) == Tree[supers[n[i].super].fs][n[i].id]
find_superblock(i) == {s \in DOMAIN supers : supers[s].fs # "none" /\ supers[s].mounted = i}

---------------------------------------------------------------------------
(* pathwalk(), one step per name of the path.                                 *)
Calling(t, at) == call[t].at = at /\ ~panic
Others == {u \in Tasks : call[u].at # "idle"}
MayStart(t) == call[t].at = "idle" /\ ~panic /\ (Preempt \/ Others = {})

Start(n, i) == IF n[i].mountpoint THEN supers[Min(find_superblock(i))].root ELSE i

(* A call fails: its inode is put, a superblock it took is free again.        *)
SuperFreed(c) == IF c.op = "mount" THEN [supers EXCEPT ![c.arg].fs = "none"] ELSE supers
Fail(t, c, n) ==
    /\ panic' = ~MayPut(n, c.node)
    /\ inodes' = put_node(n, c.node)
    /\ supers' = SuperFreed(c)
    /\ booted' = IF c.op = "mount" THEN booted + 1 ELSE booted
    /\ call' = [call EXCEPT ![t] = Idle]

(* The walk goes on in the inode new, or in what is mounted upon it.          *)
Enter(t, n, new) ==
    LET root == Start(n, new)
        m    == IF n[new].mountpoint THEN clone_inode(put_node(n, new), root) ELSE n
    IN  /\ panic' = ~MayPut(m, call[t].node)
        /\ inodes' = put_node(m, call[t].node)
        /\ call' = [call EXCEPT ![t].node = root, ![t].rest = Tail(@), ![t].at = "walk"]
        /\ UNCHANGED <<supers, booted>>

Walk(t) ==
    LET c    == call[t]
        kids == Node(inodes, c.node).kids
        ids  == {kids[k][2] : k \in {j \in DOMAIN kids : kids[j][1] = Head(c.rest)}}
        s    == inodes[c.node].super
    IN  /\ Calling(t, "walk") /\ c.rest # <<>>
        /\ IF ids = {} THEN Fail(t, c, inodes)
           ELSE IF InodeOf(inodes, s, Min(ids)) # {}
           THEN LET i == Min(InodeOf(inodes, s, Min(ids)))
                IN  Enter(t, clone_inode(inodes, i), i)
           ELSE IF FreeInode(inodes) = {}
           THEN panic' = TRUE /\ UNCHANGED <<inodes, supers, call, booted>>   \* new->mountpoint of NULL
           ELSE /\ call' = [call EXCEPT ![t].at = "fetch", ![t].slot = Max(FreeInode(inodes)),
                                        ![t].id = Min(ids)]
                /\ UNCHANGED <<inodes, supers, panic, booted>>
        /\ UNCHANGED <<files, fdt, mounted, opened, listing>>

(* fetch_inode() has filled the slot; now the slot is marked as used.         *)
Fetch(t) ==
    LET c == call[t]
        n == Filled(inodes, c.slot, inodes[c.node].super, c.id)
    IN  /\ Calling(t, "fetch")
        /\ Enter(t, n, c.slot)
        /\ UNCHANGED <<files, fdt, mounted, opened, listing>>

---------------------------------------------------------------------------
(* mount(), called while the kernel boots for one file system after another.  *)
FreeSupers == {s \in DOMAIN supers : supers[s].fs = "none"}

MountStart ==
    LET b == Boot[booted + 1]
        t == BootTask
        r == Start(inodes, vfs_root)
    IN  /\ booted < Len(Boot) /\ MayStart(t)
        /\ IF FreeSupers = {} \/ b.fs \notin DOMAIN Tree \/ Bad \in Range(b.path)
           THEN booted' = booted + 1 /\ UNCHANGED <<call, inodes, supers>>
           ELSE /\ supers' = [supers EXCEPT ![Min(FreeSupers)].fs = b.fs]
                /\ inodes' = clone_inode(inodes, r)
                /\ call' = [call EXCEPT ![t] = [Idle EXCEPT !.op = "mount", !.at = "walk",
                                !.rest = b.path, !.node = r, !.arg = Min(FreeSupers), !.path = b.path]]
                /\ UNCHANGED booted
        /\ UNCHANGED <<files, fdt, panic, mounted, opened, listing>>

(* mount_helper(): the root inode of the mounted file system, then the glue.  *)
Glued(n, s, i, root, b) ==
    /\ inodes' = [Filled(n, root, s, 1) EXCEPT ![i].mountpoint = TRUE]
    /\ supers' = [supers EXCEPT ![s].root = root, ![s].mounted = i, ![s].readonly = b.ro /\ supers[s].fs \in StaticFlags]

MountEnd ==
    LET t == BootTask
        c == call[t]
        b == Boot[booted + 1]
        n == inodes
    IN  /\ Calling(t, "walk") /\ c.op = "mount" /\ c.rest = <<>>
        /\ IF ~Node(n, c.node).dir \/ b.fails \/ FreeInode(n) = {}
           THEN Fail(t, c, n) /\ UNCHANGED mounted
           ELSE /\ Glued(n, c.arg, c.node, Max(FreeInode(n)), b)
                /\ mounted' = mounted \cup {<<n[c.node].super, n[c.node].id, c.arg>>}
                /\ call' = [call EXCEPT ![t] = Idle]
                /\ booted' = booted + 1 /\ UNCHANGED panic
        /\ UNCHANGED <<files, fdt, opened, listing>>

---------------------------------------------------------------------------
(* open(): a descriptor and a file object are looked up and not yet reserved. *)
FreeFds(t) == {d \in DOMAIN fdt[t] : fdt[t][d] = None}
FreeFiles  == {f \in DOMAIN files : files[f].ref = 0}

OpenStart(t) ==
    \E <<path, flag>> \in Opens :
        LET r == Start(inodes, vfs_root) IN
        /\ booted = Len(Boot) /\ MayStart(t)
        /\ FreeFds(t) # {} /\ FreeFiles # {}
        /\ files' = [files EXCEPT ![Min(FreeFiles)].offset = 0]
        /\ IF Bad \in Range(path) THEN UNCHANGED <<call, inodes>>
           ELSE /\ inodes' = clone_inode(inodes, r)
                /\ call' = [call EXCEPT ![t] = [Idle EXCEPT !.op = "open", !.at = "walk", !.rest = path,
                                !.node = r, !.arg = Min(FreeFiles), !.flag = flag, !.path = path]]
        /\ UNCHANGED <<supers, fdt, booted, panic, mounted, opened, listing>>

Refused(n, c) == \/ c.flag = "dir" /\ ~Node(n, c.node).dir
                 \/ c.flag = "rw" /\ supers[n[c.node].super].readonly

(* The file system's own open() may fail, after file_ops and inode were set.  *)
OpenEnd(t) ==
    LET c == call[t]
        d == Min(FreeFds(t))
    IN  /\ Calling(t, "walk") /\ c.op = "open" /\ c.rest = <<>>
        /\ \/ /\ Refused(inodes, c) \/ supers[inodes[c.node].super].fs \in Opening
              /\ Fail(t, c, inodes)
              /\ files' = IF Refused(inodes, c) THEN files ELSE [files EXCEPT ![c.arg].inode = c.node]
              /\ UNCHANGED <<fdt, opened, listing>>
           \/ /\ ~Refused(inodes, c)
              /\ files' = [files EXCEPT ![c.arg] = [@ EXCEPT !.ref = 1, !.inode = c.node, !.oflags = c.flag]]
              /\ fdt' = [fdt EXCEPT ![t][d] = c.arg]
              /\ opened' = [opened EXCEPT ![t][d] = c.path]
              /\ listing' = [listing EXCEPT ![t][d] = <<>>]
              /\ call' = [call EXCEPT ![t] = Idle]
              /\ UNCHANGED <<inodes, supers, booted, panic>>
        /\ UNCHANGED mounted

(* close(): free_fd().                                                        *)
CloseKeepingInode(t, d, f) ==
    /\ files[f].ref > 0
    /\ files' = [files EXCEPT ![f].ref = @ - 1]
    /\ fdt' = [fdt EXCEPT ![t][d] = None]
    /\ UNCHANGED <<inodes, panic>>

CloseFile(t, d, f) ==
    /\ files[f].ref > 0
    /\ inodes' = IF files[f].ref = 1 THEN put_node(inodes, files[f].inode) ELSE inodes
    /\ panic' = (files[f].ref = 1 /\ ~MayPut(inodes, files[f].inode))
    /\ files' = [files EXCEPT ![f].ref = @ - 1]
    /\ fdt' = [fdt EXCEPT ![t][d] = None]

Close(t, d) ==
    /\ MayStart(t) /\ fdt[t][d] # None
    /\ CloseFile(t, d, fdt[t][d])
    /\ opened' = [opened EXCEPT ![t][d] = <<>>] /\ listing' = [listing EXCEPT ![t][d] = <<>>]
    /\ UNCHANGED <<supers, call, booted, mounted>>

(* read() and write(): rw_helper().  The file system transfers one unit or    *)
(* none; a file system that is not read-only and has no write operation is    *)
(* called through a null pointer.                                             *)
ReadWrite(t, d, write) ==
    LET f == fdt[t][d]
        s == inodes[files[f].inode].super
    IN  /\ MayStart(t) /\ f # None
        /\ ~Node(inodes, files[f].inode).dir
        /\ files[f].oflags = "rw" \/ (~write /\ files[f].oflags = "rd")
        /\ ~(write /\ supers[s].readonly)
        /\ IF write /\ supers[s].fs \notin Writable
           THEN panic' = TRUE /\ UNCHANGED files
           ELSE /\ \E k \in 0 .. 1 : files[f].offset + k <= MaxOffset
                                     /\ files' = [files EXCEPT ![f].offset = @ + k]
                /\ UNCHANGED panic
        /\ UNCHANGED <<inodes, supers, fdt, call, booted, mounted, opened, listing>>

(* readdirents(): up to k entries from the offset of the file.                *)
NextOffsetForgetful(kids, o, k) == IF o + k >= Len(kids) THEN 0 ELSE o + k
NextOffset(kids, o, k) == IF o + k >= Len(kids) THEN EOF ELSE o + k

readdirents(t, d, k) ==
    LET f    == fdt[t][d]
        o    == files[f].offset
        kids == Node(inodes, files[f].inode).kids
    IN  /\ MayStart(t) /\ f # None
        /\ Node(inodes, files[f].inode).dir /\ o # EOF
        /\ listing' = [listing EXCEPT ![t][d] = @ \o SubSeq(kids, o + 1, Min({o + k, Len(kids)}))]
        /\ files' = [files EXCEPT ![f].offset = NextOffset(kids, o, k)]
        /\ UNCHANGED <<inodes, supers, fdt, call, booted, panic, mounted, opened>>

(* A task ends, and another one gets its number: task_data_init() is all that *)
(* the file system does about it.                                             *)
Exit(t) ==
    /\ MayStart(t) /\ booted = Len(Boot) /\ t # BootTask
    /\ ExitOpen \/ \A d \in DOMAIN fdt[t] : fdt[t][d] = None
    /\ fdt' = [fdt EXCEPT ![t] = [d \in DOMAIN fdt[t] |-> None]]
    /\ opened' = [opened EXCEPT ![t] = [d \in DOMAIN fdt[t] |-> <<>>]]
    /\ listing' = [listing EXCEPT ![t] = [d \in DOMAIN fdt[t] |-> <<>>]]
    /\ UNCHANGED <<inodes, supers, files, call, booted, panic, mounted>>

Next == \/ MountStart \/ MountEnd
        \/ \E t \in Tasks :
              \/ Walk(t) \/ Fetch(t) \/ OpenStart(t) \/ OpenEnd(t) \/ Exit(t)
              \/ \E d \in 1 .. NumFds : \/ Close(t, d)
                                        \/ \E w \in BOOLEAN : ReadWrite(t, d, w)
                                        \/ \E k \in 1 .. 2 : readdirents(t, d, k)

Spec == Init /\ [][Next]_vars

---------------------------------------------------------------------------
Count(S) == Cardinality(S)

(* Reference counts of inodes are exact: the count of an inode is the number  *)
(* of superblocks that have it as root or are mounted upon it, of open files  *)
(* that refer to it and of calls that hold it, on all paths through           *)
(* pathwalk(), open(), close() and mount(), the failing ones included.        *)
InodeCounts ==
    \A i \in DOMAIN inodes :
        inodes[i].count = Count({s \in DOMAIN supers : supers[s].fs # "none" /\ supers[s].root = i})
                        + Count({s \in DOMAIN supers : supers[s].fs # "none" /\ supers[s].mounted = i})
                        + Count({f \in DOMAIN files : files[f].ref > 0 /\ files[f].inode = i})
                        + Count({t \in Tasks : call[t].node = i})

(* Every superblock in use is mounted or about to be by a mount() call that   *)
(* is running, and an inode is marked as a mount point exactly when some      *)
(* superblock is mounted upon it: the "critical fs failure" of pathwalk()     *)
(* cannot happen, and a failed mount() leaves nothing behind.                 *)
MountGlue ==
    /\ \A s \in DOMAIN supers :
          supers[s].fs # "none" =>
              \/ supers[s].root # None /\ inodes[supers[s].root].super = s
              \/ \E t \in Tasks : call[t].op = "mount" /\ call[t].arg = s
    /\ \A i \in DOMAIN inodes :
          inodes[i].count > 0 => (inodes[i].mountpoint <=> find_superblock(i) # {})

(* What a path names, from the mounts made: the reference for pathwalk().     *)
Crossed(n) == IF \E m \in mounted : <<m[1], m[2]>> = n
              THEN <<(CHOOSE m \in mounted : <<m[1], m[2]>> = n)[3], 1>> ELSE n
ChildOf(n, name) ==
    LET kids == Tree[supers[n[1]].fs][n[2]].kids
    IN  <<n[1], kids[CHOOSE k \in DOMAIN kids : kids[k][1] = name][2]>>
Resolve(path) == FoldLeft(LAMBDA n, name : Crossed(ChildOf(n, name)), Crossed(<<1, 1>>), path)

(* A descriptor names the file it was opened for, across mount points, until  *)
(* it is closed: whatever other tasks open and close, the inode of its file   *)
(* object stays the one its path leads to (pathwalk(), get_inode(), open()).  *)
OpenedFile ==
    \A t \in Tasks : \A d \in 1 .. NumFds :
        fdt[t][d] # None =>
            LET i == files[fdt[t][d]].inode
            IN  <<inodes[i].super, inodes[i].id>> = Resolve(opened[t][d])

(* The count of a file object is the number of descriptors that refer to it   *)
(* (alloc_fd(), open(), free_fd(), the end of a task).                        *)
FileCounts ==
    \A f \in DOMAIN files :
        files[f].ref = Count({<<t, d>> \in Tasks \X (1 .. NumFds) : fdt[t][d] = f})

(* Reading a directory with readdirents(), in portions of any size, yields    *)
(* its entries in order, each once, and all of them when the end is reported. *)
DirentsExact ==
    \A t \in Tasks : \A d \in 1 .. NumFds :
        (fdt[t][d] # None /\ Node(inodes, files[fdt[t][d]].inode).dir) =>
            LET f    == files[fdt[t][d]]
                kids == Node(inodes, f.inode).kids
            IN  listing[t][d] = IF f.offset = EOF THEN kids ELSE SubSeq(kids, 1, f.offset)

(* A file system that is registered as read-only is read-only wherever it is  *)
(* mounted: its static flags apply to every mount (mount(), register_fs()).   *)
ReadOnlyKept ==
    \A s \in DOMAIN supers :
        (supers[s].fs \in StaticFlags /\ supers[s].mounted # None) => supers[s].readonly

(* A failed look-up of an inode ends the walk with an error and stops nothing *)
(* else (pathwalk(), "the current inode will be free'd in error").            *)
WalkSurvives == ~panic
=============================================================================
