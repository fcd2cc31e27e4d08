------------------------------- MODULE Romfs -------------------------------
(***************************************************************************)
(* The read-only file system of the initial ramdisk, fs/romfs/romfs.c:     *)
(* mounting, directory iteration, hard links and reads over an image that  *)
(* genromfs laid out.                                                      *)
(*                                                                         *)
(* An image is a function from the byte offset of a node to its header and *)
(* the length of its name.  The bytes of the image are their offsets: what *)
(* a read returns is the interval of the image that it copies.             *)
(***************************************************************************)
EXTENDS Integers, Sequences, SequencesExt, FiniteSets

CONSTANTS
    Image,        \* offset -> [type, next, info, size, name, len]
    Supers,       \* superblocks that may be mounted: [magic, sum, volume, big]
    ImageSize,
    Sizes,        \* sizes that read() asks for
    Offsets,      \* offsets of pread(), {} for none
    MaxReads      \* bound on the reads of an open file

SizeModulus == 65536   \* size_t, reduced
None == -1

ALIGN_BY_MULTIPLE(n, m) == ((n + m - 1) \div m) * m

VARIABLES
    super,    \* the mounted superblock and its root_ptr, or None
    refused,  \* an intact image was not mounted
    known,    \* the inode ids that the file system has handed out
    dir,      \* [id, offset, listed]: a directory that is being listed
    file,     \* [id, offset, got]: an open file
    copied,   \* the number of bytes that the last read wrote
    bytes     \* the interval that the last read returned: [from, n, asked]

vars == <<super, refused, known, dir, file, copied, bytes>>

NoDir == [id |-> None, offset |-> 0, listed |-> <<>>]
NoFile == [id |-> None, offset |-> 0, got |-> <<>>]
NoBytes(n) == [from |-> 0, n |-> 0, asked |-> n]

Init ==
    /\ super = None
    /\ refused = FALSE
    /\ known = {}
    /\ dir = NoDir
    /\ file = NoFile
    /\ copied = 0
    /\ bytes = NoBytes(0)

-----------------------------------------------------------------------------
(* What genromfs wrote: a name and its terminator fill units of 16 bytes.  *)

Intact(s) == s.magic /\ s.sum
DataStart(o) == o + 16 + ALIGN_BY_MULTIPLE(Image[o].len + 1, 16)

Target[o \in DOMAIN Image] ==
    IF Image[o].type = "hlink" THEN Target[Image[o].info] ELSE o

Chain[o \in DOMAIN Image] ==
    <<o>> \o IF Image[o].next = 0 THEN <<>> ELSE Chain[Image[o].next]

-----------------------------------------------------------------------------
(* romfs.c                                                                 *)

\* read_filename(): where the name ends, to the code.
NameEnd(o) == o + 16 + ALIGN_BY_MULTIPLE(Image[o].len, 16)

TargetsNext(e, next) ==
    e

\* The header that a hard link leads to keeps the link's next pointer.
LinksNext(e, next) ==
    [e EXCEPT !.header.next = next]

\* load_file(): the node a chain of hard links ends in, its header with the
\* next pointer of the first, and where the data starts.
load_file[o \in DOMAIN Image] ==
    IF Image[o].type # "hlink"
    THEN [node |-> o, data |-> NameEnd(o), header |-> Image[o]]
    ELSE LinksNext(load_file[Image[o].info], Image[o].next)

\* strncmp() returns the difference of the bytes behind the first eight when
\* those agree: the high byte of the size and the end of the literal.
MagicAccepted(s) == s.magic /\ ~s.big

\* romfs_mount(); only one image can be mounted.
romfs_mount(s) ==
    /\ super = None
    /\ IF MagicAccepted(s) /\ s.sum /\ ALIGN_BY_MULTIPLE(s.volume, 16) < 128
       THEN LET root == 16 + ALIGN_BY_MULTIPLE(s.volume, 16)
            IN  /\ super' = root
                /\ known' = {root}
                /\ UNCHANGED refused
       ELSE /\ refused' = (refused \/ Intact(s))
            /\ UNCHANGED <<super, known>>
    /\ UNCHANGED <<dir, file, copied, bytes>>

\* romfs_fetch_inode() and open(): a directory is listed, a file is read.
OpenDir(o) ==
    /\ o \in known /\ o \in DOMAIN Image
    /\ load_file[o].header.type = "dir"
    /\ dir' = [id |-> o, offset |-> 0, listed |-> <<>>]
    /\ UNCHANGED <<super, refused, known, file, copied, bytes>>

OpenFile(o) ==
    /\ o \in known /\ o \in DOMAIN Image
    /\ load_file[o].header.type = "file"
    /\ file' = [id |-> o, offset |-> 0, got |-> <<>>]
    /\ UNCHANGED <<super, refused, known, dir, copied, bytes>>

\* romfs_readdir(): the offset is the next node; 0 starts and ends a listing.
romfs_readdir ==
    /\ dir.id # None /\ dir.offset # None
    /\ LET first == IF dir.offset = 0 THEN load_file[dir.id].header.info
                                      ELSE dir.offset
           e == load_file[first]
       IN  /\ dir' = [dir EXCEPT
                  !.listed = Append(@, <<Image[first].name, e.node>>),
                  !.offset = IF e.header.next = 0 THEN None ELSE e.header.next]
           /\ known' = known \union {e.node}
    /\ UNCHANGED <<super, refused, file, copied, bytes>>

\* The size that romfs_read() settles on, unsigned.
ReadSize(size, offset, n) ==
    IF offset + n > size THEN (size - offset) % SizeModulus ELSE n

Smaller(a, b) == IF a < b THEN a ELSE b

\* romfs_read(): read_data() copies from the start of the data.
romfs_read(n, offset) ==
    LET f == load_file[file.id]
        size == ReadSize(f.header.size, offset, n)
        moved == Smaller(ImageSize - f.data, size)
    IN  /\ copied' = moved
        /\ bytes' = IF moved # size THEN NoBytes(n)
                    ELSE [from |-> f.data, n |-> moved, asked |-> n]

\* read(): at the offset of the file, which advances.
Read(n) ==
    /\ file.id # None /\ Len(file.got) < MaxReads
    /\ romfs_read(n, file.offset)
    /\ file' = [file EXCEPT !.got = Append(@, bytes'), !.offset = @ + bytes'.n]
    /\ UNCHANGED <<super, refused, known, dir>>

\* pread(): at an offset of the caller's.
Pread(n, offset) ==
    /\ file.id # None
    /\ romfs_read(n, offset)
    /\ UNCHANGED <<super, refused, known, dir, file>>

Next ==
    \/ \E s \in Supers : romfs_mount(s)
    \/ \E o \in known : OpenDir(o) \/ OpenFile(o)
    \/ romfs_readdir
    \/ \E n \in Sizes : Read(n) \/ \E offset \in Offsets : Pread(n, offset)

Spec == Init /\ [][Next]_vars

-----------------------------------------------------------------------------
\* A listing shows the entries of its directory in their order, each with the
\* node that its hard links lead to, and ends after the last
\* (romfs.c:122-145, 257-285).
DirExact ==
    dir.id # None =>
        LET c == Chain[Image[dir.id].info]
        IN  /\ Len(dir.listed) =< Len(c)
            /\ (dir.offset = None) = (Len(dir.listed) = Len(c))
            /\ \A k \in 1..Len(dir.listed) :
                   dir.listed[k] = <<Image[c[k]].name, Target[c[k]]>>

\* The bytes a file holds from an offset on, at most n.
Contents(o, offset, n) ==
    [from |-> DataStart(o) + offset, n |-> Smaller(n, Image[o].size - offset),
     asked |-> n]

\* The first read of a file returns the beginning of its contents, no more
\* than there is and no less than was asked for (romfs.c:218-241).
FirstReadExact ==
    file.got # <<>> =>
        file.got[1] = Contents(file.id, 0, file.got[1].asked)

\* Reading on continues where the last read ended
\* (fs-internals.h:64, "at the given offset").
ReadsContinue ==
    \A k \in 1..Len(file.got) - 1 :
        file.got[k + 1].n > 0 =>
            file.got[k + 1].from = file.got[k].from + file.got[k].n

\* A read never writes more than its caller's buffer takes
\* (romfs.c:230, "Make sure that the read doesn't overflow").
ReadFits == copied =< bytes.asked

\* An image with the right magic and checksum is mounted
\* (romfs.c:36, "should be -rom1fs-").
IntactMounted == ~refused
=============================================================================
