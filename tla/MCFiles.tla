------------------------------ MODULE MCFiles -------------------------------
(***************************************************************************)
(* The virtual file system and the three file systems behind it for TLC.   *)
(* Vfs has its own, smaller picture of what a file system contains and     *)
(* Devfs, Romfs and Kinfo hold what is behind it, so the parts share no    *)
(* state: the initial state chooses the one that moves.                    *)
(***************************************************************************)
EXTENDS Integers, Sequences, TLC

CONSTANTS Parts,  \* the parts that are checked
          Tasks, NumInodes, NumSupers, NumFiles, NumFds, Tree, StaticFlags, Writable,
          Opening, Boot, Opens, Preempt, ExitOpen, MaxOffset,
          Types, Ops, Field, DevTasks, HasClose, MaxDevices, MaxOpens,
          NameLen,  \* the length of the name of the first file of the image
          Supers, ImageSize, Sizes, Offsets, MaxReads,
          Dumps, PageSize, DumpOffsets

VARIABLES part,
          inodes, supers, files, fdt, call, booted, panic, mounted, opened, listing,
          major, last_major, table, overrun, devs, devFiles, child, devListing, fd,
          devOpened, nullcall,
          super, refused, known, dir, file, copied, bytes,
          buff, offset, outside, reader, got

Node(type, next, info, size, name, len) ==
    [type |-> type, next |-> next, info |-> info, size |-> size, name |-> name,
     len |-> len]

\* As genromfs lays it out behind a superblock with a short volume name:
\* /., /.., /a (a file), /d (a directory with ., .. and a link to /a), /z.
MCImage ==
    LET a == 96
        d == a + 16 + ((NameLen + 16) \div 16) * 16 + 16
    IN  (32 :> Node("dir", 64, 32, 0, ".", 1))
        @@ (64 :> Node("hlink", a, 32, 0, "..", 2))
        @@ (a :> Node("file", d, 0, 10, "a", NameLen))
        @@ (d :> Node("dir", d + 128, d + 32, 0, "d", 1))
        @@ (d + 32 :> Node("hlink", d + 64, d, 0, ".", 1))
        @@ (d + 64 :> Node("hlink", d + 96, 32, 0, "..", 2))
        @@ (d + 96 :> Node("hlink", 0, a, 0, "link", 4))
        @@ (d + 128 :> Node("file", 0, 0, 3, "z", 1))

Vfs   == INSTANCE Vfs
Devfs == INSTANCE Devfs WITH Tasks <- DevTasks, files <- devFiles, listing <- devListing,
                             opened <- devOpened
Romfs == INSTANCE Romfs WITH Image <- MCImage
Kinfo == INSTANCE Kinfo WITH Tasks <- DevTasks, Offsets <- DumpOffsets

vfsVars   == <<inodes, supers, files, fdt, call, booted, panic, mounted, opened, listing>>
devfsVars == <<major, last_major, table, overrun, devs, devFiles, child, devListing, fd,
               devOpened, nullcall>>
romfsVars == <<super, refused, known, dir, file, copied, bytes>>
kinfoVars == <<buff, offset, outside, reader, got>>
allVars   == <<part, vfsVars, devfsVars, romfsVars, kinfoVars>>

FilesInit ==
    /\ part \in Parts
    /\ Vfs!Init /\ Devfs!Init /\ Romfs!Init /\ Kinfo!Init

FilesNext ==
    /\ UNCHANGED part
    /\ \/ /\ part = "vfs" /\ Vfs!Next
          /\ UNCHANGED <<devfsVars, romfsVars, kinfoVars>>
       \/ /\ part = "devfs" /\ Devfs!Next
          /\ UNCHANGED <<vfsVars, romfsVars, kinfoVars>>
       \/ /\ part = "romfs" /\ Romfs!Next
          /\ UNCHANGED <<vfsVars, devfsVars, kinfoVars>>
       \/ /\ part = "kinfo" /\ Kinfo!Next
          /\ UNCHANGED <<vfsVars, devfsVars, romfsVars>>

FilesSpec == FilesInit /\ [][FilesNext]_allVars

-----------------------------------------------------------------------------
Dir(kids) == [dir |-> TRUE, kids |-> kids]
File      == [dir |-> FALSE, kids |-> <<>>]
MCTree == [romfs |-> <<Dir(<<<<"file", 2>>, <<"dev", 3>>, <<"info", 4>>>>), File, Dir(<<>>), Dir(<<>>)>>,
           devfs |-> <<Dir(<<<<"tty", 2>>>>), File>>,
           kinfo |-> <<Dir(<<<<"fs", 2>>>>), Dir(<<<<"vfs", 3>>>>), File>>]

\* The mounts of fs_init() and mounts that fail: in the file system's own
\* mount(), on a file, and on a path that does not exist yet.
Mount(path, fs, ro, fails) == [path |-> path, fs |-> fs, ro |-> ro, fails |-> fails]
MCBoot == <<Mount(<<"dev">>, "kinfo", FALSE, TRUE), Mount(<<"info">>, "kinfo", TRUE, FALSE),
            Mount(<<"file">>, "devfs", FALSE, FALSE), Mount(<<"dev", "tty">>, "devfs", FALSE, FALSE),
            Mount(<<"dev">>, "devfs", FALSE, FALSE)>>
DevOnly == <<Mount(<<"dev">>, "devfs", FALSE, FALSE)>>

MCOpens == {<<<<"file">>, "rd">>, <<<<"file">>, "dir">>, <<<<"dev", "tty">>, "rw">>,
            <<<<"info", "fs", "vfs">>, "rw">>, <<<<>>, "dir">>, <<<<"info", "fs">>, "dir">>,
            <<<<"file", "x">>, "rd">>, <<<<"?">>, "rd">>}
FewOpens == {<<<<"file">>, "rd">>, <<<<"dev", "tty">>, "rd">>}

\* The terminal has every operation, the keyboard none, as in the code.
MCOps ==
    [y \in Types |-> IF y = "tty" THEN {"read", "write", "open", "close"} ELSE {}]

\* An intact superblock, and two that are refused.
MCSupers ==
    {[magic |-> TRUE, sum |-> TRUE, volume |-> 5, big |-> FALSE],
     [magic |-> FALSE, sum |-> TRUE, volume |-> 5, big |-> FALSE],
     [magic |-> TRUE, sum |-> FALSE, volume |-> 5, big |-> FALSE]}

TextLine(n) == <<[kind |-> "text", text |-> <<30, 31>>], [kind |-> "u", value |-> n]>>

\* Files of one, two and of more lines than fit into the page.
MCDumps ==
    [f \in {"vfs", "files", "inodes"} |->
        CASE f = "vfs" -> <<TextLine(7)>>
          [] f = "files" -> <<TextLine(1), TextLine(23)>>
          [] f = "inodes" -> <<TextLine(11), TextLine(22), TextLine(345), TextLine(4),
                               TextLine(56)>>]

-----------------------------------------------------------------------------
\* file_operations.c, file_table.c: the count of a file object is the number of
\* descriptors that refer to it (fs.h:38, "How many process are referring to this
\* object with their fd table").
FileCounts == part = "vfs" => Vfs!FileCounts

\* inode.c, pathwalker.c, mounting.c, file_operations.c: the reference counts of
\* inodes and of file objects are exact on all paths, and an inode is marked as a
\* mount point exactly when something is mounted upon it.
CountsExact == FileCounts /\ (part = "vfs" => Vfs!InodeCounts /\ Vfs!MountGlue)

\* file_operations.c: a descriptor names the file it was opened for until it is
\* closed, and reading a directory in portions yields its entries in order.
DescriptorsExact == part = "vfs" => Vfs!OpenedFile /\ Vfs!DirentsExact

\* devfs.c, device.c, pseudo_file.c: a device file leads to the device it was
\* created for; a listing shows every file that was there when it began, and
\* nothing twice; and no operation is called through a null pointer.
DeviceFilesExact ==
    part = "devfs" => Devfs!LookupExact /\ Devfs!ListingExact /\ Devfs!OpsPresent

\* romfs.c: a listing shows the entries of its directory in their order, and the
\* first read of a file returns the beginning of its contents.
RomfsExact == part = "romfs" => Romfs!DirExact /\ Romfs!FirstReadExact

\* kinfo.c: whatever was read before, a read returns its part of the file, and
\* the lines of a dump are stored within the page.
KinfoExact == part = "kinfo" => Kinfo!ReadsExact /\ Kinfo!StoredInside
=============================================================================
