------------------------------ MODULE DebugInfo -------------------------------
(***************************************************************************)
(* PE::_parse_debug: the entries of the debug directory follow each other; *)
(* two kinds of them point to a structure elsewhere in the file that ends  *)
(* with a file name, which is read before the cursor is moved back.  The   *)
(* loops over the characters are those of read_ascii_string and            *)
(* read_unicode_string.  Positions count from the start of the directory.  *)
(***************************************************************************)
EXTENDS Integers

CONSTANTS
    Wrap,           \* 2^32: sizes are unsigned int
    DebugSize,      \* the Size of the directory
    DebugEnd,       \* where the file ends
    DebugPointers,  \* PointerToRawData
    DebugLengths    \* the Length of an image_debug_misc

EntrySize == 28   \* a debug_directory_entry
PdbSize   == 24   \* a pdb_info before its name
MiscSize  == 12   \* an image_debug_misc before its name

VARIABLES
    table,    \* the Size of the directory
    pc,       \* "entry", "codeview", "misc", "name", or how it returned
    cursor,   \* the file cursor
    entries,  \* the number of _debug_entries
    saved,    \* saved_offset
    name      \* the name being read: its width, its Length, max_bytes, its bytes

vars == <<table, pc, cursor, entries, saved, name>>

NoName == [width |-> 1, length |-> 0, max |-> 0, bytes |-> 0]

Init ==
    /\ table \in DebugSize
    /\ pc = "entry" /\ cursor = 0 /\ entries = 0 /\ saved = 0
    /\ name = NoName

Readable(n) == cursor + n <= DebugEnd

\* Where the cursor is after a read of n bytes that fails.
Exhausted == IF cursor > DebugEnd THEN cursor ELSE DebugEnd

\* The next entry.  One that is of neither kind is kept as it is.
ReadEntry ==
    /\ pc = "entry" /\ entries < table \div EntrySize
    /\ Readable(EntrySize)
    /\ saved' = cursor + EntrySize
    /\ name' = NoName
    /\ \/ \E p \in DebugPointers : cursor' = p /\ pc' \in {"codeview", "misc"} /\ UNCHANGED entries
       \/ cursor' = saved' /\ entries' = entries + 1 /\ UNCHANGED pc
    /\ UNCHANGED table

EntryFails ==
    /\ pc = "entry" /\ entries < table \div EntrySize
    /\ ~Readable(EntrySize)
    /\ cursor' = Exhausted
    /\ pc' = "failed"
    /\ UNCHANGED <<table, entries, saved, name>>

\* The structure a CodeView entry points to; its name has no limit.
ReadPdb ==
    /\ pc = "codeview" /\ Readable(PdbSize)
    /\ cursor' = cursor + PdbSize
    /\ pc' = "name"
    /\ UNCHANGED <<table, entries, saved, name>>

\* It cannot be read, or it has neither of the two signatures.
PdbFails ==
    /\ pc = "codeview"
    /\ pc' = "failed"
    /\ cursor' \in {Exhausted, cursor + PdbSize}
    /\ UNCHANGED <<table, entries, saved, name>>

\* Mutant: the limit is the Length, the header is not subtracted.
MaxBytesWhole(length) == length

\* The limit of the name: an unsigned difference.
MaxBytes(length) == (length - MiscSize) % Wrap

\* The structure a MISC entry points to.  Its flag says which characters the
\* name has; for any other value of the flag there is no name.
ReadMisc ==
    /\ pc = "misc" /\ Readable(MiscSize)
    /\ \E length \in DebugLengths :
           \/ /\ \E w \in {1, 2} :
                     name' = [width |-> w, length |-> length,
                              max |-> MaxBytes(length), bytes |-> 0]
              /\ cursor' = cursor + MiscSize
              /\ pc' = "name"
              /\ UNCHANGED entries
           \/ /\ cursor' = saved
              /\ entries' = entries + 1
              /\ pc' = "entry"
              /\ UNCHANGED name
    /\ UNCHANGED <<table, saved>>

MiscFails ==
    /\ pc = "misc" /\ ~Readable(MiscSize)
    /\ cursor' = Exhausted
    /\ pc' = "failed"
    /\ UNCHANGED <<table, entries, saved, name>>

\* What is left of the limit after a character, in the type of max_bytes, and
\* whether that ends the loop.  A limit of 0 is no limit.
Left(n) == IF n.max = 0 THEN 0 ELSE (n.max - n.width) % Wrap
LimitReached(n) == n.max # 0 /\ (IF n.width = 1 THEN Left(n) = 0 ELSE Left(n) <= 1)

\* A character that is not null; the loop goes on.
ReadCharacter ==
    /\ pc = "name" /\ Readable(name.width)
    /\ ~LimitReached(name)
    /\ cursor' = cursor + name.width
    /\ name' = [name EXCEPT !.bytes = @ + name.width, !.max = Left(name)]
    /\ UNCHANGED <<table, pc, entries, saved>>

\* Mutant: the cursor is not moved back to the directory.
EndNameStays ==
    /\ pc = "name"
    /\ name' = [name EXCEPT !.bytes = @ + (IF Readable(name.width) /\ LimitReached(name)
                                            THEN name.width ELSE 0)]
    /\ entries' = entries + 1
    /\ pc' = "entry"
    /\ UNCHANGED <<table, cursor, saved>>

\* The null character, the end of the file, or the last character that the limit
\* allows.  The cursor is moved back and the entry is kept.
EndName ==
    /\ pc = "name"
    /\ \/ UNCHANGED name
       \/ /\ Readable(name.width) /\ LimitReached(name)
          /\ name' = [name EXCEPT !.bytes = @ + name.width, !.max = Left(name)]
    /\ cursor' = saved
    /\ entries' = entries + 1
    /\ pc' = "entry"
    /\ UNCHANGED <<table, saved>>

EndDirectory ==
    /\ pc = "entry" /\ entries = table \div EntrySize
    /\ pc' = "done"
    /\ UNCHANGED <<table, cursor, entries, saved, name>>

Step ==
    \/ ReadEntry \/ EntryFails \/ ReadPdb \/ PdbFails \/ ReadMisc \/ MiscFails
    \/ ReadCharacter \/ EndName \/ EndDirectory

-------------------------------------------------------------------------------
(* Properties.                                                             *)

\* The types (pe.cpp:431-502).
TypeOK ==
    /\ cursor \in Nat
    /\ entries \in 0..(table \div EntrySize)
    /\ saved \in 0..DebugEnd
    /\ name.max \in 0..(Wrap - 1)

\* Whatever the structures are that the entries point to, and however long their
\* names, the next entry is read from its place in the directory
\* (pe.cpp:443-498).
EntriesInStep == pc = "entry" => cursor = EntrySize * entries

\* The name of a MISC entry is no longer than its Length says, provided that the
\* Length is larger than the header, by more than a byte if the characters are
\* two bytes wide: at the limit the difference is 0, which is no limit, or it
\* wraps.  No name is longer than the file (pe.cpp:475-494, utils.cpp:22-61).
NameWithinLength ==
    /\ name.length > MiscSize + name.width - 1 => name.bytes <= name.length - MiscSize
    /\ name.bytes <= DebugEnd
===============================================================================
