------------------------------- MODULE Addresses ------------------------------
(***************************************************************************)
(* How the parsers find the bytes of an address: PE::rva_to_offset and     *)
(* PE::_va_to_offset, and PE::_reach_directory, which moves the cursor.    *)
(* Addresses are 64 bits wide, the numbers of a section and an offset of   *)
(* the file 32; Wrap is 2^32.                                              *)
(***************************************************************************)
EXTENDS Integers, Sequences

CONSTANTS
    Wrap,
    MaxSections,
    SectionHeaders,   \* what the numbers of a section may be
    AddressSet,       \* the addresses that are asked for
    Alignments,       \* FileAlignment, which is never 0 (pe.cpp:345)
    ImageBases        \* ImageBase

VARIABLES
    pc,         \* "asked", or how the call returned
    cursor,     \* the file cursor
    ioh,        \* _ioh: none, or its FileAlignment and its ImageBase
    sections,   \* _sections
    asked,      \* the function that is called, and its argument
    offset      \* the result

vars == <<pc, cursor, ioh, sections, asked, offset>>

Init ==
    /\ pc = "asked" /\ cursor = 0 /\ offset = 0
    /\ ioh \in {<<>>} \cup {<<[alignment |-> a, base |-> b]>> :
                                a \in Alignments, b \in ImageBases}
    /\ sections \in UNION {[1..n -> SectionHeaders] : n \in 0..MaxSections}
    /\ asked \in [by : {"rva", "va", "directory"}, address : AddressSet]

\* is_address_in_section: the end of the section is a sum of 32 bits.
InSection(rva, s, size) == s.va <= rva /\ rva < (s.va + size) % Wrap

\* The first section of those that hold the address, or 0.
First(ks) == IF ks = {} THEN 0 ELSE CHOOSE k \in ks : \A j \in ks : k <= j

\* Mutant: the sizes on disk are tried first.
FindSectionRawFirst(rva) ==
    LET raw     == {k \in DOMAIN sections : InSection(rva, sections[k], sections[k].raw)}
        virtual == {k \in DOMAIN sections : InSection(rva, sections[k], sections[k].vsize)}
    IN  IF raw # {} THEN First(raw) ELSE First(virtual)

\* find_section, and the same search in rva_to_offset: by the size in memory,
\* and if no section has the address, by the size on disk.
FindSection(rva) ==
    LET virtual == {k \in DOMAIN sections : InSection(rva, sections[k], sections[k].vsize)}
        raw     == {k \in DOMAIN sections : InSection(rva, sections[k], sections[k].raw)}
    IN  IF virtual # {} THEN First(virtual) ELSE First(raw)

\* PointerToRawData, rounded down if the section is not aligned.
RawPointer(s) == (s.ptr \div ioh[1].alignment) * ioh[1].alignment

\* Without an optional header, or where no section has the address, there is no
\* offset; without sections the address is the offset.
RvaToOffset(rva) ==
    LET k == FindSection(rva)
    IN  IF ioh = <<>> THEN 0
        ELSE IF sections = <<>> THEN rva % Wrap
        ELSE IF k = 0 THEN 0
        ELSE (rva - sections[k].va + RawPointer(sections[k])) % Wrap

VaToOffset(va) ==
    IF ioh # <<>> /\ va > ioh[1].base THEN RvaToOffset(va - ioh[1].base) ELSE 0

TranslateRva ==
    /\ pc = "asked" /\ asked.by = "rva"
    /\ offset' = RvaToOffset(asked.address)
    /\ pc' = "done"
    /\ UNCHANGED <<cursor, ioh, sections, asked>>

TranslateVa ==
    /\ pc = "asked" /\ asked.by = "va"
    /\ offset' = VaToOffset(asked.address)
    /\ pc' = "done"
    /\ UNCHANGED <<cursor, ioh, sections, asked>>

\* A directory that is at 0 is empty or wrong, whatever its size; one of the size
\* 0 is read all the same.
ReachDirectory ==
    /\ pc = "asked" /\ asked.by = "directory"
    /\ offset' = IF asked.address = 0 THEN 0 ELSE RvaToOffset(asked.address)
    /\ IF offset' = 0
       THEN pc' = "failed" /\ UNCHANGED cursor
       ELSE pc' = "done" /\ cursor' = offset'
    /\ UNCHANGED <<ioh, sections, asked>>

Step == TranslateRva \/ TranslateVa \/ ReachDirectory

-------------------------------------------------------------------------------
(* Properties.                                                             *)

\* The types: an offset is a number of 32 bits (pe.cpp:506-623).
TypeOK ==
    /\ pc \in {"asked", "done", "failed"}
    /\ offset \in 0..(Wrap - 1) /\ cursor \in {0, offset}

\* The address that is asked for, relative to the image.
Rva == asked.address - (IF asked.by = "va" THEN ioh[1].base ELSE 0)

\* The section covers the address, in numbers that do not wrap.
Covers(s, size) == Rva \in s.va..(s.va + size - 1)

\* The section ends below 2^32, in memory and in the file.
Fits(s) == s.va + s.vsize < Wrap /\ s.ptr + s.vsize < Wrap

\* An offset is only given for an address that a section covers, although the end
\* of every section is a sum that may wrap.  An address that several sections
\* cover in memory belongs to the first one, and its offset is as far from the
\* start of that section in the file as the address is in memory; the start is
\* the one from which get_raw_data reads the section, unless that is not aligned:
\* then the two differ by less than the alignment (rva_to_offset, pe.cpp:506-562,
\* and get_raw_data, section.cpp:71-107).
OffsetsFollowSections ==
    pc # "asked" /\ ioh # <<>> /\ sections # <<>> /\ Rva > 0 =>
        /\ offset # 0 => \E k \in DOMAIN sections :
               Covers(sections[k], sections[k].vsize) \/ Covers(sections[k], sections[k].raw)
        /\ \A k \in DOMAIN sections :
               LET s     == sections[k]
                   start == offset - (Rva - s.va)
               IN  /\ Covers(s, s.vsize) /\ Fits(s)
                   /\ \A j \in 1..(k - 1) : ~Covers(sections[j], sections[j].vsize)
                   => /\ start \in (s.ptr - ioh[1].alignment + 1)..s.ptr
                      /\ start % ioh[1].alignment = 0
===============================================================================
