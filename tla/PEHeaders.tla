------------------------------ MODULE PEHeaders -------------------------------
(***************************************************************************)
(* The constructor of PE up to the tables: the DOS header, the PE header,  *)
(* the optional header with its directories and the section table must be  *)
(* there, or the file is no PE; the COFF symbols and the string table that *)
(* follows them may fail.                                                  *)
(*                                                                         *)
(* A string of the COFF string table is named by the offset it is read     *)
(* from.  A section whose name is "/n" asks for string n of that table.    *)
(***************************************************************************)
EXTENDS Integers, Sequences

CONSTANTS
    FileSizes,       \* sizes of the file
    HeaderOffsets,   \* e_lfanew
    OptionalSizes,   \* SizeOfOptionalHeader
    RvaCounts,       \* NumberOfRvaAndSizes
    MaxSections, MaxSymbols,
    SymbolPointers,  \* PointerToSymbolTable
    StringSizes      \* the size the COFF string table claims

DosSize       == 64
PeSize        == 24
DirectorySize == 8
SectionSize   == 40
SymbolSize    == 18

VARIABLES
    file_size,    \* _file_size
    pc,           \* the function that runs, or how the constructor returned
    cursor,       \* the file cursor
    h_pe,         \* the numbers of _h_dos and _h_pe that steer the rest
    ioh,          \* _ioh: none, or the directories it announces and has
    sections,     \* _sections: the index in a name of the form "/n", the name
    symbols,      \* symbols read so far, whether they are kept or not
    st,           \* the size of the string table, and what is counted of it
    strings,      \* _coff_string_table
    initialized   \* _initialized

vars == <<file_size, pc, cursor, h_pe, ioh, sections, symbols, st, strings,
          initialized>>

NoHeader == [lfanew |-> 0, optional |-> 0, sections |-> 0, symbols |-> 0, pointer |-> 0]

Init ==
    /\ file_size \in FileSizes
    /\ pc = "dos" /\ cursor = 0
    /\ h_pe = NoHeader
    /\ ioh = <<>>
    /\ sections = <<>> /\ symbols = 0
    /\ st = [size |-> 0, count |-> 0]
    /\ strings = <<>>
    /\ initialized = FALSE

\* n bytes are there to be read at the offset o.
Readable(o, n) == o + n <= file_size

\* The constructor returns and is_valid() is false.
Fail ==
    /\ pc' = "failed"
    /\ UNCHANGED <<file_size, cursor, h_pe, ioh, sections, symbols, st, strings,
                   initialized>>

\* The DOS header: long enough, and "MZ".
ReadDosHeader ==
    /\ pc = "dos"
    /\ Readable(0, DosSize)
    /\ \E l \in HeaderOffsets : h_pe' = [h_pe EXCEPT !.lfanew = l]
    /\ cursor' = DosSize
    /\ pc' = "pe"
    /\ UNCHANGED <<file_size, ioh, sections, symbols, st, strings, initialized>>

\* The file is too short, or it has not the magic bytes.
DosHeaderFails == pc = "dos" /\ Fail

\* The PE header at e_lfanew.  The optional header is skipped when there is none.
ReadPeHeader ==
    /\ pc = "pe"
    /\ Readable(h_pe.lfanew, PeSize)
    /\ \E o \in OptionalSizes, n \in 0..MaxSections, m \in 0..MaxSymbols,
          p \in SymbolPointers :
           /\ h_pe' = [h_pe EXCEPT !.optional = o, !.sections = n,
                                   !.symbols = m, !.pointer = p]
           /\ pc' = IF o = 0 THEN "reach_sections" ELSE "optional"
    /\ cursor' = h_pe.lfanew + PeSize
    /\ UNCHANGED <<file_size, ioh, sections, symbols, st, strings, initialized>>

PeHeaderFails == pc = "pe" /\ Fail

\* The bytes before the directories: 24, and 8 for the image base, are common to
\* both kinds; so are the next 40; the last ones are 24 in a PE32 and 40 in a
\* PE32+.
FixedPart(plus) == 24 + 8 + 40 + (IF plus THEN 40 ELSE 24)

\* The number of directories that are read, whatever is announced.
Directories(n) == IF n > 16 THEN 16 ELSE n

\* The fixed part of the optional header.  The magic is one of two, and the
\* alignments are not zero.
ReadOptionalHeader ==
    /\ pc = "optional"
    /\ \E plus \in BOOLEAN, n \in RvaCounts :
           /\ Readable(h_pe.lfanew + PeSize, FixedPart(plus))
           /\ cursor' = h_pe.lfanew + PeSize + FixedPart(plus)
           /\ ioh' = <<[announced |-> n, read |-> 0]>>
    /\ pc' = "directories"
    /\ UNCHANGED <<file_size, h_pe, sections, symbols, st, strings, initialized>>

OptionalHeaderFails == pc = "optional" /\ Fail

ReadDirectoryEntry ==
    /\ pc = "directories"
    /\ ioh[1].read < Directories(ioh[1].announced)
    /\ Readable(cursor, DirectorySize)
    /\ ioh' = [ioh EXCEPT ![1].read = @ + 1]
    /\ cursor' = cursor + DirectorySize
    /\ UNCHANGED <<file_size, pc, h_pe, sections, symbols, st, strings, initialized>>

\* The local copy of the header is dropped: _ioh stays empty.
DirectoryEntryFails ==
    /\ pc = "directories"
    /\ ioh[1].read < Directories(ioh[1].announced)
    /\ ~Readable(cursor, DirectorySize)
    /\ ioh' = <<>>
    /\ pc' = "failed"
    /\ UNCHANGED <<file_size, cursor, h_pe, sections, symbols, st, strings,
                   initialized>>

OptionalHeaderIsRead ==
    /\ pc = "directories"
    /\ ioh[1].read = Directories(ioh[1].announced)
    /\ pc' = "reach_sections"
    /\ UNCHANGED <<file_size, cursor, h_pe, ioh, sections, symbols, st, strings,
                   initialized>>

\* The section table is where the PE header says the optional header ends.
ReachSections ==
    /\ pc = "reach_sections"
    /\ cursor' = h_pe.lfanew + PeSize + h_pe.optional
    /\ pc' = "sections"
    /\ UNCHANGED <<file_size, h_pe, ioh, sections, symbols, st, strings, initialized>>

\* The name a section gets: that of the string table, if the index in the name
\* of the header is one of the table as it is now, or the name of the header.
HeaderName == -1
NameOf(index) ==
    IF index \in 0..(Len(strings) - 1) THEN strings[index + 1] ELSE HeaderName

\* A section header is read and the Section is constructed.  An index of -1 is
\* any name that is not "/" and a number.
ReadSection ==
    /\ pc = "sections" /\ Len(sections) < h_pe.sections
    /\ Readable(cursor, SectionSize)
    /\ \E index \in -1..1 :
           sections' = Append(sections, [index |-> index, name |-> NameOf(index)])
    /\ cursor' = cursor + SectionSize
    /\ UNCHANGED <<file_size, pc, h_pe, ioh, symbols, st, strings, initialized>>

\* Mutant: the loop over the sections is left with break, not with return.
SectionFailsBreak ==
    /\ pc = "sections" /\ Len(sections) < h_pe.sections
    /\ ~Readable(cursor, SectionSize)
    /\ initialized' = TRUE
    /\ pc' = "coff"
    /\ UNCHANGED <<file_size, cursor, h_pe, ioh, sections, symbols, st, strings>>

SectionFails ==
    /\ pc = "sections" /\ Len(sections) < h_pe.sections
    /\ ~Readable(cursor, SectionSize)
    /\ Fail

\* From here on failures are acceptable.
SectionsAreRead ==
    /\ pc = "sections" /\ Len(sections) = h_pe.sections
    /\ initialized' = TRUE
    /\ pc' = "coff"
    /\ UNCHANGED <<file_size, cursor, h_pe, ioh, sections, symbols, st, strings>>

\* _parse_coff_symbols: nothing to do, or the symbols are reached.
ReachSymbols ==
    /\ pc = "coff"
    /\ IF h_pe.symbols = 0 \/ h_pe.pointer = 0
       THEN pc' = "done" /\ UNCHANGED cursor
       ELSE pc' = "symbols" /\ cursor' = h_pe.pointer
    /\ UNCHANGED <<file_size, h_pe, ioh, sections, symbols, st, strings, initialized>>

\* A symbol is read.  It is kept only if its section number is not beyond the
\* sections; nothing reads the symbols that are kept (pe.h:466-467).
ReadSymbol ==
    /\ pc = "symbols" /\ symbols < h_pe.symbols
    /\ IF Readable(cursor, SymbolSize)
       THEN symbols' = symbols + 1 /\ cursor' = cursor + SymbolSize /\ UNCHANGED pc
       ELSE pc' = "done" /\ UNCHANGED <<symbols, cursor>>
    /\ UNCHANGED <<file_size, h_pe, ioh, sections, st, strings, initialized>>

\* The size of the string table.  Where the file ends within the four bytes, the
\* bytes it has count.
ReadStringTableSize ==
    /\ pc = "symbols" /\ symbols = h_pe.symbols
    /\ LET at == IF Readable(cursor, 4) THEN cursor + 4 ELSE file_size
       IN  \E size \in StringSizes :
               /\ cursor' = at
               /\ st' = [size |-> size, count |-> 0]
               /\ pc' = IF size > file_size - at THEN "done" ELSE "strings"
    /\ UNCHANGED <<file_size, h_pe, ioh, sections, symbols, strings, initialized>>

\* read_ascii_string: n characters, then a null byte or the end of the file.
ReadString ==
    /\ pc = "strings" /\ st.count < st.size
    /\ \E n \in 0..(file_size - cursor) :
           /\ strings' = Append(strings, cursor)
           /\ st' = [st EXCEPT !.count = @ + n + 1]
           /\ cursor' = IF n = file_size - cursor THEN file_size ELSE cursor + n + 1
    /\ UNCHANGED <<file_size, pc, h_pe, ioh, sections, symbols, initialized>>

StringsAreRead ==
    /\ pc = "strings" /\ st.count >= st.size
    /\ pc' = "done"
    /\ UNCHANGED <<file_size, cursor, h_pe, ioh, sections, symbols, st, strings,
                   initialized>>

Step ==
    \/ ReadDosHeader \/ DosHeaderFails
    \/ ReadPeHeader \/ PeHeaderFails
    \/ ReadOptionalHeader \/ OptionalHeaderFails
    \/ ReadDirectoryEntry \/ DirectoryEntryFails \/ OptionalHeaderIsRead
    \/ ReachSections \/ ReadSection \/ SectionFails \/ SectionsAreRead
    \/ ReachSymbols \/ ReadSymbol \/ ReadStringTableSize
    \/ ReadString \/ StringsAreRead

-------------------------------------------------------------------------------
(* Properties.                                                             *)

\* The types (pe.cpp:22-58 and 160-427).
TypeOK ==
    /\ file_size \in FileSizes
    /\ cursor \in Nat
    /\ Len(ioh) <= 1 /\ Len(sections) <= h_pe.sections
    /\ symbols \in 0..MaxSymbols
    /\ st.size \in StringSizes \cup {0}
    /\ initialized \in BOOLEAN

\* The COFF string table never has more strings than it claims to have bytes, and
\* every one of them starts within the file or at its end: the sum that ends the
\* loop grows even when nothing is left to read (pe.cpp:260-275).
StringsBounded ==
    /\ Len(strings) <= st.size
    /\ \A k \in DOMAIN strings : strings[k] <= file_size

\* A file that is_valid() has every section and every directory it announces, up
\* to the sixteen that count, and an optional header exactly if its size is not
\* zero; all of it lies within the file.  Its string table is no larger than it
\* claims to be.  A file that is not valid has no symbols (pe.cpp:39-57, 260-275
\* and 282-427).
ValidMeansComplete ==
    IF initialized
    THEN /\ Len(sections) = h_pe.sections /\ StringsBounded
         /\ Len(sections) > 0 =>
                Readable(h_pe.lfanew + PeSize + h_pe.optional,
                         SectionSize * Len(sections))
         /\ Len(ioh) = IF h_pe.optional = 0 THEN 0 ELSE 1
         /\ \A k \in DOMAIN ioh :
                /\ ioh[k].read = Directories(ioh[k].announced)
                /\ Readable(h_pe.lfanew + PeSize,
                            FixedPart(FALSE) + DirectorySize * ioh[k].read)
    ELSE pc # "done" /\ symbols = 0 /\ strings = <<>>

\* A section whose name is an index of the COFF string table gets its name from
\* there (include/manape/section.h:57-58).
SectionNamesResolved ==
    pc = "done" =>
        \A k \in DOMAIN sections : sections[k].name = NameOf(sections[k].index)
===============================================================================
