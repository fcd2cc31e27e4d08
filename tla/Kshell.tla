------------------------------- MODULE Kshell -------------------------------
(***************************************************************************)
(* A line typed to the kernel shell becomes a command with an argument,    *)
(* and the argument of "sysread" or "syslist" a path that is walked:       *)
(* kshell.c, strtok() of utils/libc.c and path_next() of fs/pathwalker.c.  *)
(*                                                                         *)
(* Strings are in arrays from 0 and end with Nul; pointers are indices.    *)
(* The commands are told apart as far as one takes a path (PathCommand) or *)
(* not.  What the walk finds is in module Vfs.                             *)
(***************************************************************************)
EXTENDS Integers, Sequences, FiniteSets, SequencesExt

CONSTANTS
    Lines,         \* what can be typed, without the newline
    PathCommand,   \* the name of a command that takes a path
    CmdSize,       \* sizeof(cmd)
    PathSize       \* sizeof(path) in read_cmd() and list_cmd()

Nul == "NUL"
Stale == "stale"   \* memory that was not written
NULL == -1

VARIABLES
    input,   \* the terminal: committed characters that were not read
    line,    \* (history) the line typed last
    cmd,     \* the buffer; the cell at CmdSize is beyond it
    path,    \* path_buff of the walk
    save,    \* next_token
    names,   \* the names walked
    pc       \* "prompt", "parse", "walk", or how a command ended: "done" (path
             \* walked), "garbage" (path without an end), "printed" (no path)

vars == <<input, line, cmd, path, save, names, pc>>

Array(n) == [i \in 0..n |-> Stale]

Init ==
    /\ input = <<>> /\ line = <<>>
    /\ cmd = Array(CmdSize)
    /\ path = Array(PathSize) /\ save = 0
    /\ names = <<>>
    /\ pc = "prompt"

-----------------------------------------------------------------------------
\* The first index from i on at which P does not hold any more.
FirstNot(i, P(_)) == CHOOSE j \in i..i + 100 : ~P(j) /\ \A k \in i..j - 1 : P(k)

StrAt(b, i) == LET e == FirstNot(i, LAMBDA j : b[j] # Nul)
               IN  [k \in 1..e - i |-> b[i + k - 1]]

\* *(delim + i)
CharAt(delim, i) == IF i < Len(delim) THEN delim[i + 1] ELSE Nul

\* "Handle string starting with token": start and d move together.
LeadingSkipped(b, str, delim) ==
    FirstNot(str, LAMBDA j : b[j] # Nul /\ b[j] = CharAt(delim, j - str))

StillAtDelimiter(b, s, delim) == s

\* Where the next token starts: s and delim move together.
NextToken(b, s, delim) ==
    FirstNot(s + 1, LAMBDA j : b[j] # Nul /\ b[j] = CharAt(delim, j - s))

\* strtok(): the start of the token, the buffer, and what *saveptr becomes.
strtok(b, str, delim, saveptr) ==
    LET start == IF str # NULL THEN LeadingSkipped(b, str, delim) ELSE saveptr
        s == FirstNot(start, LAMBDA j : b[j] # Nul /\ b[j] # CharAt(delim, 0))
    IN  IF b[s] = Nul
        THEN [start |-> start, buf |-> b, save |-> s]
        ELSE [start |-> start, buf |-> [b EXCEPT ![s] = Nul],
              save |-> NextToken(b, s, delim)]

-----------------------------------------------------------------------------
Type(l) ==
    /\ pc = "prompt" /\ input = <<>>
    /\ input' = Append(l, "\n") /\ line' = l
    /\ UNCHANGED <<cmd, path, save, names, pc>>

\* kshell_readline(): read() returns what is there and fits, at least one
\* character (tty_read() blocks).
kshell_readline ==
    /\ pc = "prompt" /\ input # <<>>
    /\ LET ret == IF Len(input) < CmdSize THEN Len(input) ELSE CmdSize
           last == ret - 1
       IN  /\ cmd' = [i \in 0..CmdSize |->
                         IF i = ret THEN Nul
                         ELSE IF i = last /\ input[i + 1] = "\n" THEN Nul
                         ELSE IF i < ret THEN input[i + 1] ELSE cmd[i]]
           /\ input' = SubSeq(input, ret + 1, Len(input))
    /\ pc' = "parse"
    /\ UNCHANGED <<line, path, save, names>>

\* The path "/%s" that read_cmd() and list_cmd() put together, copied by
\* path_init(); there is no terminator when it does not fit.
MakePath(arg) ==
    IF Len(arg) + 1 < PathSize
    THEN /\ path' = [i \in 0..PathSize |->
                        IF i = 0 THEN "/" ELSE IF i =< Len(arg) THEN arg[i]
                        ELSE IF i = Len(arg) + 1 THEN Nul ELSE Stale]
         /\ pc' = "walk"
    ELSE path' = Array(PathSize) /\ pc' = "garbage"

\* parse_command(): the functions that take no path, and an invalid command,
\* print something.
parse_command ==
    /\ pc = "parse"
    /\ LET t1 == strtok(cmd, 0, <<" ">>, NULL)
           t2 == strtok(t1.buf, NULL, <<" ">>, t1.save)
       IN  /\ cmd' = t2.buf
           /\ IF StrAt(t2.buf, t1.start) = PathCommand
              THEN MakePath(StrAt(t2.buf, t2.start))
              ELSE path' = path /\ pc' = "printed"
    /\ save' = NULL
    /\ UNCHANGED <<input, line, names>>

\* One turn of pathwalk()'s loop: path_next(), until the token is empty.
path_next ==
    /\ pc = "walk"
    /\ LET t == strtok(path, IF save = NULL THEN 0 ELSE NULL, <<"/">>, save)
           name == StrAt(t.buf, t.start)
       IN  /\ path' = t.buf /\ save' = t.save
           /\ IF name = <<>> THEN pc' = "done" /\ UNCHANGED names
              ELSE names' = Append(names, name) /\ pc' = pc
    /\ UNCHANGED <<input, line, cmd>>

\* The command is over; no buffer is read again before it is written.
Finish ==
    /\ pc \in {"done", "garbage", "printed"}
    /\ pc' = "prompt" /\ line' = <<>> /\ names' = <<>>
    /\ cmd' = Array(CmdSize)
    /\ path' = Array(PathSize) /\ save' = 0
    /\ UNCHANGED input

Next ==
    \/ \E l \in Lines : Type(l)
    \/ kshell_readline \/ parse_command \/ path_next \/ Finish

Spec == Init /\ [][Next]_vars

-----------------------------------------------------------------------------
\* The parts of s between delimiters, as the standard's strtok() returns them.
Pieces(s, d) ==
    LET starts == {i \in 1..Len(s) : s[i] # d /\ (i = 1 \/ s[i - 1] = d)}
        Part(i) == SubSeq(s, i, FirstNot(i, LAMBDA j : j =< Len(s) /\ s[j] # d) - 1)
        order == SetToSortSeq(starts, <)
    IN  [k \in 1..Len(order) |-> Part(order[k])]

\* The names that are walked are the parts of the second word of the line
\* (libc.c:128-164, kshell.c:159-176, pathwalker.c:56-64; libc.h:30, "We deviate
\* from the standard by making strtok reentrant", and not in the tokens).
NamesAsTyped ==
    pc = "done" =>
        LET words == Pieces(line, " ")
            arg == IF Len(words) > 1 THEN words[2] ELSE <<>>
        IN  words # <<>> /\ words[1] = PathCommand /\ names = Pieces(arg, "/")

\* A line that starts with the name of a command is not taken for another one
\* (kshell.c:165-172).
CommandFound == pc = "printed" => Pieces(line, " ")[1] # PathCommand

\* Reading a line stays inside the buffer (kshell.c:68, "ensure null termination
\* and strip newline").
InsideBuffer == cmd[CmdSize] = Stale
=============================================================================
