------------------------------- MODULE Kinfo -------------------------------
(***************************************************************************)
(* The kinfo file system, fs/kinfo/kinfo.c: reading a file dumps kernel    *)
(* state line by line into one page that all readers share, and copies     *)
(* from there.                                                             *)
(*                                                                         *)
(* A dump is a sequence of lines, each printed by one kinfo_write(), with  *)
(* vsnprintf() of Printf.  Tasks may be preempted between the lines.       *)
(***************************************************************************)
EXTENDS Printf, FiniteSets

CONSTANTS
    Tasks,
    Dumps,       \* the files: name -> sequence of lines, each a sequence of pieces
    PageSize,    \* the size of the buffer
    Sizes,       \* sizes that read() asks for
    Offsets,     \* offsets of pread()
    Preempt      \* whether a reader may be preempted by another

SizeModulus == 65536   \* size_t, reduced

VARIABLES
    buff,      \* read_buffer.buff: 0..PageSize-1 -> characters
    offset,    \* read_buffer.offset
    outside,   \* a character was stored outside of the page
    reader,    \* task -> [pc, file, line, at, n]
    got        \* task -> the characters its last read returned, and where

vars == <<buff, offset, outside, reader, got>>

Idle == [pc |-> "idle", file |-> "", line |-> 0, at |-> 0, n |-> 0]
Nothing == [file |-> "", at |-> 0, n |-> 0, text |-> <<>>, read_size |-> 0]
Cleared == [i \in 0..PageSize - 1 |-> Nul]

Init ==
    /\ buff = Cleared
    /\ offset = 0
    /\ outside = FALSE
    /\ reader = [t \in Tasks |-> Idle]
    /\ got = [t \in Tasks |-> Nothing]

\* The start of kinfo_read(): the global buffer is reset.
ResetKeepingOffset ==
    buff' = Cleared /\ UNCHANGED offset

Reset ==
    buff' = Cleared /\ offset' = 0

Start(t, f, n, at) ==
    /\ reader[t].pc = "idle"
    /\ ~Preempt => \A u \in Tasks : reader[u].pc = "idle"
    /\ Reset
    /\ reader' = [reader EXCEPT ![t] = [pc |-> "dump", file |-> f, line |-> 1,
                                        at |-> at, n |-> n]]
    /\ UNCHANGED <<outside, got>>

\* The offset after kinfo_write(): nbytes is a size_t, and -1, the result of a
\* line that does not fit, is its largest value.
Advanced(ret) ==
    IF ret = 0 THEN offset ELSE (offset + (ret % SizeModulus)) % SizeModulus

\* kinfo_write(): one line of the dump.
kinfo_write(t) ==
    /\ reader[t].pc = "dump"
    /\ reader[t].line =< Len(Dumps[reader[t].file])
    /\ LET w == vsnprintf(Dumps[reader[t].file][reader[t].line], PageSize - offset)
       IN  /\ buff' = [i \in DOMAIN buff |->
                           IF i - offset \in 0..Len(w.stored) - 1
                           THEN w.stored[i - offset + 1] ELSE buff[i]]
           /\ outside' = (outside \/ offset + Len(w.stored) > PageSize)
           /\ offset' = Advanced(w.ret)
    /\ reader' = [reader EXCEPT ![t].line = @ + 1]
    /\ UNCHANGED got

\* The size that is copied, unsigned.
ReadSize(size, at, n) ==
    IF at + n > size THEN (size - at) % SizeModulus ELSE n

\* The end of kinfo_read(): the copy to the caller.  Characters outside of the
\* page are written as -1.
Copy(t) ==
    /\ reader[t].pc = "dump"
    /\ reader[t].line > Len(Dumps[reader[t].file])
    /\ LET r == reader[t]
           size == ReadSize(PageSize, r.at, r.n)
           shown == IF size > 2 * PageSize THEN 2 * PageSize ELSE size
       IN  got' = [got EXCEPT ![t] =
               [file |-> r.file, at |-> r.at, n |-> r.n, read_size |-> size,
                text |-> [k \in 1..shown |->
                    IF r.at + k - 1 < PageSize THEN buff[r.at + k - 1] ELSE -1]]]
    /\ reader' = [reader EXCEPT ![t] = Idle]
    /\ UNCHANGED <<buff, offset, outside>>

Next ==
    \E t \in Tasks :
        \/ \E f \in DOMAIN Dumps, n \in Sizes, at \in Offsets : Start(t, f, n, at)
        \/ kinfo_write(t)
        \/ Copy(t)

Spec == Init /\ [][Next]_vars

-----------------------------------------------------------------------------
\* The text of a file, all its lines one after the other.
Text(f) ==
    FlattenSeq([k \in DOMAIN Dumps[f] |->
        FlattenSeq([j \in DOMAIN Dumps[f][k] |-> Expansion(Dumps[f][k][j])])])

\* What a reader should get: its part of the file, followed by zeros up to the
\* end of the page.
Expected(g) ==
    LET whole == Text(g.file)
        left == PageSize - g.at
    IN  [k \in 1..(IF g.n < left THEN g.n ELSE left) |->
            IF g.at + k =< Len(whole) THEN whole[g.at + k] ELSE Nul]

\* Whatever was read before, a read returns its part of a file that fits into
\* the page (kinfo.c:36-55).
ReadsExact ==
    \A t \in Tasks :
        got[t].file # "" /\ Len(Text(got[t].file)) < PageSize
            => got[t].text = Expected(got[t])

\* However long the dump, its lines are stored within the page, terminators
\* included, and the next one starts within it (kinfo.c:123-137).
StoredInside == ~outside /\ offset \in 0..PageSize - 1

\* A file that is longer than the page is cut off, but what is there is its
\* beginning (kinfo.c:44, "Dump the whole 'file'").
CutOff ==
    \A t \in Tasks :
        \A k \in 1..Len(got[t].text) :
            \/ got[t].text[k] = Nul
            \/ /\ got[t].at + k =< Len(Text(got[t].file))
               /\ got[t].text[k] = Text(got[t].file)[got[t].at + k]

\* A read returns no more than was asked for (kinfo.c:47, "Then copy according
\* to size and offset").
ReadFits == \A t \in Tasks : got[t].read_size =< got[t].n
=============================================================================
