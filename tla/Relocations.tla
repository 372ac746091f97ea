----------------------------- MODULE Relocations ------------------------------
(***************************************************************************)
(* PE::_parse_relocations: the loop over the blocks of the base relocation *)
(* table.  Every block says how long it is; the table directory says how   *)
(* long the table is; the file says how many bytes there really are.  The  *)
(* contents of the file are whatever a read returns.                       *)
(***************************************************************************)
EXTENDS FileBounds

HeaderSize == 8   \* PageRVA and BlockSize
EntrySize  == 2   \* one TypeOrOffset

VARIABLES
    table,      \* the Size of the directory
    pc,         \* "header", "entries", or how the function returned
    left,       \* bytes between the file cursor and the end of the file
    remaining,  \* remaining_size
    block,      \* BlockSize of the block being read
    count,      \* TypesOffsets read of that block
    relocs      \* _relocations: the size and the number of entries of each

vars == <<table, pc, left, remaining, block, count, relocs>>

Init ==
    /\ pc = "header"
    /\ left = Available
    /\ table \in TableSize
    /\ remaining = table
    /\ block = 0 /\ count = 0
    /\ relocs = <<>>

\* Mutant: the difference does not wrap.
EntriesSaturated(b) ==
    IF b < HeaderSize THEN 0 ELSE (b - HeaderSize) \div EntrySize

\* The number of TypesOffsets of a block; the difference is taken in 32 bits.
Entries(b) == ((b - HeaderSize) % Wrap) \div EntrySize

\* Mutant: the size of a block is not compared with the rest of the table.
ReadHeaderUnchecked ==
    /\ pc = "header" /\ remaining > 0
    /\ left >= HeaderSize
    /\ left' = left - HeaderSize
    /\ \E b \in 0..(Wrap - 1) :
           \/ b = 0 /\ pc' = "done" /\ UNCHANGED <<block, count>>
           \/ b > 0 /\ pc' = "entries" /\ block' = b /\ count' = 0
    /\ UNCHANGED <<table, remaining, relocs>>

\* The header of the next block is read.  It must not be larger than what is
\* left of the table; zeroes are taken for padding at its end.
ReadHeader ==
    /\ pc = "header" /\ remaining > 0
    /\ left >= HeaderSize
    /\ left' = left - HeaderSize
    /\ \E b \in 0..(Wrap - 1) :
           \/ b > remaining /\ pc' = "failed" /\ UNCHANGED <<block, count>>
           \/ b = 0 /\ pc' = "done" /\ UNCHANGED <<block, count>>
           \/ b \in 1..remaining /\ pc' = "entries" /\ block' = b /\ count' = 0
    /\ UNCHANGED <<table, remaining, relocs>>

\* Mutant: a header that cannot be read is tried again.
HeaderTruncatedRetries ==
    /\ pc = "header" /\ remaining > 0
    /\ left < HeaderSize
    /\ UNCHANGED vars

\* The file ends in the middle of a header.
HeaderTruncated ==
    /\ pc = "header" /\ remaining > 0
    /\ left < HeaderSize
    /\ left' = 0
    /\ pc' = "failed"
    /\ UNCHANGED <<table, remaining, block, count, relocs>>

ReadEntry ==
    /\ pc = "entries" /\ count < Entries(block)
    /\ left >= EntrySize
    /\ left' = left - EntrySize
    /\ count' = count + 1
    /\ UNCHANGED <<table, pc, remaining, block, relocs>>

\* Mutant: the result of fread is ignored, the entry is kept.
EntryTruncatedKept ==
    /\ pc = "entries" /\ count < Entries(block)
    /\ left < EntrySize
    /\ left' = 0
    /\ count' = count + 1
    /\ UNCHANGED <<table, pc, remaining, block, relocs>>

EntryTruncated ==
    /\ pc = "entries" /\ count < Entries(block)
    /\ left < EntrySize
    /\ left' = 0
    /\ pc' = "failed"
    /\ UNCHANGED <<table, remaining, block, count, relocs>>

\* Mutant: remaining_size is not updated.
EndBlockNoProgress ==
    /\ pc = "entries" /\ count = Entries(block)
    /\ relocs' = Append(relocs, [size |-> block, entries |-> count])
    /\ pc' = "header"
    /\ UNCHANGED <<table, left, remaining, block, count>>

\* The block is kept.  It was not larger than remaining_size: no wrap here.
EndBlock ==
    /\ pc = "entries" /\ count = Entries(block)
    /\ relocs' = Append(relocs, [size |-> block, entries |-> count])
    /\ remaining' = remaining - block
    /\ pc' = "header"
    /\ UNCHANGED <<table, left, block, count>>

EndTable ==
    /\ pc = "header" /\ remaining = 0
    /\ pc' = "done"
    /\ UNCHANGED <<table, left, remaining, block, count, relocs>>

Returned ==
    /\ pc \in {"done", "failed"}
    /\ UNCHANGED vars

Step == ReadHeader \/ HeaderTruncated \/ ReadEntry \/ EntryTruncated
            \/ EndBlock \/ EndTable

Next == Step \/ Returned

Spec == Init /\ [][Next]_vars

-------------------------------------------------------------------------------
(* Properties.                                                             *)

Block == [size : 1..(Wrap - 1), entries : Nat]

\* The types: remaining_size never wraps below zero, whatever the blocks claim
\* (pe.cpp:791-824).
TypeOK ==
    /\ table \in TableSize
    /\ pc \in {"header", "entries", "done", "failed"}
    /\ left \in 0..Available
    /\ remaining \in 0..table
    /\ block \in 0..table
    /\ count \in Nat
    /\ relocs \in Seq(Block)

\* A file of less than 4 GB: not enough bytes for the 2^31 entries that the
\* wrapped length of a block shorter than its header asks for.
SmallFile == Available < Wrap - HeaderSize

\* Every block that is kept is at least as long as its header and has exactly
\* the entries its length announces, although the length is only compared with
\* the rest of the table and the subtraction may wrap (pe.cpp:797-823).
BlocksAreWhole ==
    SmallFile =>
        \A k \in DOMAIN relocs :
            /\ relocs[k].size >= HeaderSize
            /\ relocs[k].entries = (relocs[k].size - HeaderSize) \div EntrySize

\* As long as no block of an odd length was met, the file cursor and the count
\* of remaining bytes agree on where in the table the next block starts.
InStep ==
    /\ SmallFile
    /\ pc = "header"
    /\ \A k \in DOMAIN relocs : relocs[k].size % EntrySize = 0
    => left + (table - remaining) = Available

\* The bytes of the file that the headers and the entries of the given blocks are.
KeptBytes(blocks) ==
    LET bytes[k \in 0..Len(blocks)] ==
            IF k = 0 THEN 0
            ELSE bytes[k - 1] + HeaderSize + EntrySize * blocks[k].entries
    IN  bytes[Len(blocks)]

\* The parser never keeps more entries than the file has bytes for: an
\* announced size cannot make the table outgrow the file.
BoundedByFile == KeptBytes(relocs) + left <= Available
===============================================================================
