----------------------------- MODULE VersionInfo ------------------------------
(***************************************************************************)
(* Resource::interpret_as<pversion_info>: a chain of structures, each with *)
(* a header of its Length, its ValueLength, a flag and a key.  The strings *)
(* of the string table are looked for by adding up their lengths, which    *)
(* are numbers of the file.                                                *)
(***************************************************************************)
EXTENDS Integers

CONSTANTS
    LengthWrap,     \* 2^16: a Length is a uint16
    KeyBytes,       \* bytes of a key, its null character included
    VersionStart,   \* where the resource starts, modulo 4
    VersionEnd      \* where the file ends

FixedInfoSize == 52
HeaderSize    == 6
Lengths       == 0..(LengthWrap - 1)

VARIABLES
    pc,         \* the structure that is read next, or how the function returned
    start,      \* the offset of the resource
    cursor,     \* the file cursor
    table,      \* where the string table starts, and the Length in its header
    remaining,  \* bytes_remaining
    length,     \* the Length of the string read last, rounded up; none is -1
    skipped     \* the Length of the VarFileInfo that was skipped, 0 if none

vars == <<pc, start, cursor, table, remaining, length, skipped>>

Init ==
    /\ start \in VersionStart
    /\ pc = "version" /\ cursor = start
    /\ table = [start |-> 0, length |-> 0]
    /\ remaining = 0 /\ length = -1 /\ skipped = 0

\* The padding behind a key that ends at offset.
Padding(offset) == offset % 4

\* parse_version_info_header: the places it may leave the cursor at.  The key is
\* ended by a null character or by the end of the file.
HeaderEnds ==
    IF cursor + HeaderSize > VersionEnd THEN {}
    ELSE LET keyEnds == {cursor + HeaderSize + k : k \in KeyBytes}
             ends == {IF e > VersionEnd THEN VersionEnd ELSE e : e \in keyEnds}
         IN  {e + Padding(e) : e \in ends}

\* A structure cannot be read, or it is not the one that is expected: there is no
\* version information.
Fail ==
    /\ pc \in {"version", "fixed", "info", "string_file_info", "table", "strings"}
    /\ pc \in {"version", "strings"} => HeaderEnds = {}
    /\ pc = "strings" => remaining > 0
    /\ pc' = "failed"
    /\ UNCHANGED <<start, cursor, table, remaining, length, skipped>>

ReadVersion ==
    /\ pc = "version"
    /\ cursor' \in HeaderEnds
    /\ pc' = "fixed"
    /\ UNCHANGED <<start, table, remaining, length, skipped>>

ReadFixedInfo ==
    /\ pc = "fixed"
    /\ cursor + FixedInfoSize <= VersionEnd
    /\ cursor' = cursor + FixedInfoSize
    /\ pc' = "info"
    /\ UNCHANGED <<start, table, remaining, length, skipped>>

\* The first structure is the StringFileInfo.
ReadStringFileInfo ==
    /\ pc \in {"info", "string_file_info"}
    /\ cursor' \in HeaderEnds
    /\ pc' = "table"
    /\ UNCHANGED <<start, table, remaining, length, skipped>>

\* Or it is a VarFileInfo, which is skipped.  A Length that is smaller than what
\* has been read of it leads 4 GB ahead, where nothing can be read.
SkipVarFileInfo ==
    /\ pc = "info"
    /\ \E after \in HeaderEnds, l \in Lengths :
           /\ l >= after - cursor
           /\ cursor' = cursor + l
           /\ skipped' = l
    /\ pc' = "string_file_info"
    /\ UNCHANGED <<start, table, remaining, length>>

\* The header of the string table.  Its Length must not be smaller than itself.
ReadTableHeader ==
    /\ pc = "table"
    /\ \E after \in HeaderEnds, l \in Lengths :
           /\ l >= after - cursor
           /\ table' = [start |-> cursor, length |-> l]
           /\ remaining' = l - (after - cursor)
           /\ cursor' = after
    /\ pc' = "strings"
    /\ UNCHANGED <<start, length, skipped>>

\* Mutant: the length is used as it is in the file.
RoundedNot(l) == l

\* A Length is rounded up to a multiple of 4, in 16 bits.
Rounded(l) == (l + ((4 - l) % 4)) % LengthWrap

\* The string that is read next is the one that was read last.
Stuck == pc = "strings" /\ remaining > 0 /\ length = 0

\* One string: its header is read, its value as well, and the cursor is moved to
\* the next one, unless this was the last.
ReadString ==
    /\ pc = "strings" /\ remaining > 0 /\ ~Stuck
    /\ HeaderEnds # {}
    /\ \E l \in Lengths :
           /\ length' = Rounded(l)
           /\ IF length' < remaining
              THEN remaining' = remaining - length' /\ cursor' = cursor + length'
              ELSE remaining' = 0 /\ UNCHANGED cursor
    /\ UNCHANGED <<pc, start, table, skipped>>

\* A string of length 0 is read again, with the same result.
ReadSameString ==
    /\ Stuck
    /\ UNCHANGED vars

EndStrings ==
    /\ pc = "strings" /\ remaining = 0
    /\ pc' = "done"
    /\ UNCHANGED <<start, cursor, table, remaining, length, skipped>>

Step ==
    \/ ReadVersion \/ ReadFixedInfo \/ ReadStringFileInfo \/ SkipVarFileInfo
    \/ ReadTableHeader \/ ReadString \/ ReadSameString \/ EndStrings \/ Fail

-------------------------------------------------------------------------------
(* Properties.                                                             *)

\* The types (resources.cpp:471-613).
TypeOK ==
    /\ start \in VersionStart
    /\ cursor \in Nat
    /\ remaining \in Lengths
    /\ length \in Lengths \cup {-1}
    /\ skipped \in Lengths

\* As long as there are strings to be read, the cursor and bytes_remaining agree
\* on where the string table ends; and every structure starts at a multiple of 4
\* if the resource does and the VarFileInfo before the table, whose length is not
\* rounded, is a multiple of 4 long (resources.cpp:318-319, 516-525 and 554-600).
StringsInStep ==
    /\ (pc = "strings" /\ remaining > 0) =>
           cursor + remaining = table.start + table.length
    /\ (pc \notin {"done", "failed"} /\ start % 4 = 0 /\ skipped % 4 = 0) =>
           cursor % 4 = 0 \/ HeaderEnds = {} \/ (pc = "strings" /\ remaining = 0)
===============================================================================
