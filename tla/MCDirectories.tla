---------------------------- MODULE MCDirectories -----------------------------
(* Sizes modulo 40.  The load configuration has its real widths: it ends at   *)
(* 120 in a PE32 and at 192 in a PE32+, and the sizes and the ends of the     *)
(* file go past both.                                                         *)
EXTENDS Directories, TLC

MCTableSize == {0, 12, 21, 22, 28, 33}
MCConfigSize == 0..200
MCConfigAvailable ==
    {0, 63, 64, 71, 72, 75, 76, 90, 96, 100, 111, 112, 116, 119, 120, 124, 150, 200}
\* Before the file, in its first word, between two words, at its end.
MCLfanew == {-1, 4, 13, 32}

\* Files that end within each of the headers, whose sizes are the real ones: the
\* PE header ends at 88, the fixed part of the optional header at 184 or 200, two
\* sections behind it at 280, two symbols at 316.
MCFileSizes == {63, 80, 100, 192, 270, 290, 318, 324}
MCStringSizes == {0, 2, 4, 40}

\* Two addresses of one function, and an ordinal that has a name in one library;
\* its address has a bit above the 15 of the ordinal.
MCLookupEntries ==
    {[address |-> 1, name |-> "f"], [address |-> 2, name |-> "f"],
     [address |-> 32768 + 3, name |-> ""]}
MCOrdinalMap == (<<"a", 3>> :> "g")

\* A MISC structure that is shorter than its header, just as long, one byte
\* longer, and so on.
MCDebugSize == {0, 27, 56, 84}
MCDebugPointers == {0, 40, 56, 75, 90}
MCDebugLengths == {0, 11, 12, 13, 14, 15, 20, 39}

\* Sections that overlap, that are larger in memory than on disk or smaller, that
\* are not aligned, and that end behind 40, where the sizes wrap; addresses
\* before, at both ends of, in and between them, and beyond 40.
MCSectionHeaders == [va : {4, 36}, vsize : {2, 8}, raw : {0, 8}, ptr : {4, 6}]
MCAddressSet == {0, 3, 4, 5, 6, 11, 12, 14, 36, 37, 38, 41, 43, 46}
===============================================================================
