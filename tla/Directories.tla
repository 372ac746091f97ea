----------------------------- MODULE Directories ------------------------------
(***************************************************************************)
(* The parsers of a PE: the headers, which the constructor reads first;    *)
(* the translation of addresses into offsets; the tables of                *)
(* PE::_parse_directories, one after the other; and, when the report or a  *)
(* plugin asks for them, two kinds of resources and the digest of the      *)
(* file.  Every one of them moves the cursor of the file to what it reads  *)
(* (_reach_directory, fseek, or a handle of its own) and fills members of  *)
(* its own, and no result of one table is looked at by the next: so what   *)
(* is true of each call on its own is true of the sequence.  A behaviour   *)
(* is one call, of the parser that directory names.  The other variables   *)
(* are the locals and the results of that call; the instances say which is *)
(* which, and those the call does not have keep their initial values.      *)
(***************************************************************************)
EXTENDS FileBounds

CONSTANTS
    ConfigSize, ConfigAvailable,                         \* see LoadConfig
    Word, MaxWords, Lfanew,                              \* see RichHeader
    FileSizes, HeaderOffsets, OptionalSizes, RvaCounts,  \* see PEHeaders
    MaxSections, MaxSymbols, SymbolPointers, StringSizes,
    LibraryNames, LookupEntries, OrdinalMap,             \* see Imports
    ImportLimit, MaxLibraries,
    MaxFunctions, MaxNames, ExportNames,                 \* see Exports
    DebugSize, DebugEnd, DebugPointers, DebugLengths,    \* see DebugInfo
    TlsEnds, CallbackEnds,                               \* see Tls
    Blocks, MaxEntries, Places,                          \* see ResourceTree
    LengthWrap, KeyBytes, VersionStart, VersionEnd,      \* see VersionInfo
    MaxIcons, IconSizes,                                 \* see Icons
    SectionHeaders, AddressSet, Alignments, ImageBases,  \* see Addresses
    SecurityOffsets, Chunk                               \* see AuthenticodeDigest

\* Numbers of the file are unsigned, but for e_lfanew, which is read as an int.
ASSUME ConfigAssumption == ConfigSize \cup ConfigAvailable \subseteq Nat
ASSUME RichAssumption == MaxWords \in Nat /\ Lfanew \subseteq Int
ASSUME HeaderAssumption ==
    /\ FileSizes \cup HeaderOffsets \cup OptionalSizes \cup RvaCounts \subseteq Nat
    /\ SymbolPointers \cup StringSizes \subseteq Nat
    /\ MaxSections \in Nat /\ MaxSymbols \in Nat
ASSUME NamesAssumption == "" \notin LibraryNames \cup ExportNames
ASSUME ImportAssumption == ImportLimit \in Nat /\ MaxLibraries \in Nat
\* The text of the import hash is made of names and commas: a name is no comma.
ASSUME FunctionNamesAssumption ==
    /\ \A e \in LookupEntries : e.name # ","
    /\ \A p \in DOMAIN OrdinalMap : OrdinalMap[p] # ","
ASSUME ExportAssumption == MaxFunctions \in Nat /\ MaxNames \in Nat
ASSUME DebugAssumption ==
    /\ DebugLengths \subseteq 0..(Wrap - 1)
    /\ DebugSize \cup DebugPointers \cup {DebugEnd} \subseteq Nat
ASSUME TlsAssumption == TlsEnds \cup CallbackEnds \subseteq Nat
ASSUME ResourceAssumption ==
    /\ Blocks \in Nat /\ MaxEntries \in Nat
    /\ {"cut_off", "unfit"} \cap Places = {}
\* A Length has 16 bits, and a character of a key two bytes.
ASSUME LengthAssumption == LengthWrap \in Nat \ {0} /\ LengthWrap % 4 = 0
ASSUME VersionAssumption ==
    /\ VersionStart \cup KeyBytes \cup {VersionEnd} \subseteq Nat
    /\ \A k \in KeyBytes : k % 2 = 0
ASSUME IconAssumption == MaxIcons \in Nat /\ IconSizes \subseteq Nat
ASSUME AddressAssumption ==
    /\ SectionHeaders \subseteq [va : 0..(Wrap - 1), vsize : 0..(Wrap - 1),
                                 raw : 0..(Wrap - 1), ptr : 0..(Wrap - 1)]
    /\ AddressSet \cup ImageBases \subseteq Nat /\ Alignments \subseteq Nat \ {0}
ASSUME DigestAssumption == SecurityOffsets \subseteq Nat /\ Chunk \in Nat \ {0}

VARIABLES
    directory,   \* the parser that is called
    pc,          \* where it is, "done" or "failed" once it has returned
    cursor,      \* the file cursor, for the parsers that move it both ways
    table, left, remaining, item, count, kept,
    field_size, size, available, read_bytes, next, filled, seh, config,
    file, lfanew, bytes_left, read, values, header

tableVars  == <<table, left, remaining, item, count, kept>>
configVars == <<field_size, size, available, read_bytes, next, filled, seh, config>>
richVars   == <<file, lfanew, bytes_left, read, values, header>>
vars == <<directory, pc, cursor, tableVars, configVars, richVars>>

Reloc == INSTANCE Relocations WITH block <- item, relocs <- kept
Cert  == INSTANCE Certificates WITH len <- item, certs <- kept
Conf  == INSTANCE LoadConfig WITH Size <- ConfigSize, Available <- ConfigAvailable
Rich  == INSTANCE RichHeader
Hdr   == INSTANCE PEHeaders WITH file_size <- table, h_pe <- header, ioh <- values,
             sections <- kept, symbols <- count, st <- item, strings <- file,
             initialized <- read
Imp   == INSTANCE Imports WITH Entries <- LookupEntries, imports <- kept,
             at <- count, delayed <- values, whole <- item
Exp   == INSTANCE Exports WITH ied <- item, exports <- kept, pairs <- values
Debug == INSTANCE DebugInfo WITH entries <- count, saved <- left, name <- item
TLS   == INSTANCE Tls WITH width <- item, end <- left, callbacks <- count, tls <- kept
Res   == INSTANCE ResourceTree WITH dirs <- file, data <- values, types <- header,
             names <- read, languages <- item, resources <- kept, handles <- table
Ver   == INSTANCE VersionInfo WITH start <- lfanew, length <- item, skipped <- count
Icon  == INSTANCE Icons WITH group <- item, entries <- count, size <- left,
             icons <- kept, lost <- read
Addr  == INSTANCE Addresses WITH ioh <- values, sections <- kept, asked <- item,
             offset <- left
Dig   == INSTANCE AuthenticodeDigest WITH x64 <- read, security <- item,
             hashed <- kept, handles <- count

NoTable ==
    table = 0 /\ left = 0 /\ remaining = 0 /\ item = 0 /\ count = 0 /\ kept = <<>>
NoConfig ==
    /\ field_size = 4 /\ size = 0 /\ available = 0 /\ read_bytes = 0
    /\ next = 1 /\ filled = <<>> /\ seh = FALSE /\ config = FALSE
NoRich ==
    /\ file = <<>> /\ lfanew = 0 /\ bytes_left = 0 /\ read = "none"
    /\ values = <<>> /\ header = <<>>

Init ==
    \/ /\ directory = "relocations"
       /\ Reloc!Init /\ cursor = 0 /\ NoConfig /\ NoRich
    \/ /\ directory = "certificates"
       /\ Cert!Init /\ count = 0 /\ cursor = 0 /\ NoConfig /\ NoRich
    \/ /\ directory = "config"
       /\ Conf!Init /\ NoTable /\ NoRich
    \/ /\ directory = "rich"
       /\ Rich!Init /\ NoTable /\ NoConfig
    \/ /\ directory = "headers"
       /\ Hdr!Init /\ left = 0 /\ remaining = 0 /\ lfanew = 0
       /\ bytes_left = 0 /\ NoConfig
    \/ /\ directory = "imports"
       /\ Imp!Init /\ cursor = 0 /\ table = 0 /\ left = 0 /\ remaining = 0
       /\ file = <<>> /\ lfanew = 0 /\ bytes_left = 0 /\ read = "none"
       /\ header = <<>> /\ NoConfig
    \/ /\ directory = "exports"
       /\ Exp!Init /\ cursor = 0 /\ table = 0 /\ left = 0 /\ remaining = 0
       /\ count = 0 /\ file = <<>> /\ lfanew = 0 /\ bytes_left = 0
       /\ read = "none" /\ header = <<>> /\ NoConfig
    \/ /\ directory = "debug"
       /\ Debug!Init /\ remaining = 0 /\ kept = <<>> /\ NoRich /\ NoConfig
    \/ /\ directory = "tls"
       /\ TLS!Init /\ cursor = 0 /\ table = 0 /\ remaining = 0 /\ NoRich
       /\ NoConfig
    \/ /\ directory = "resources"
       /\ Res!Init /\ left = 0 /\ remaining = 0 /\ count = 0 /\ lfanew = 0
       /\ bytes_left = 0 /\ NoConfig
    \/ /\ directory = "version"
       /\ Ver!Init /\ left = 0 /\ kept = <<>> /\ file = <<>>
       /\ bytes_left = 0 /\ read = "none" /\ values = <<>> /\ header = <<>>
       /\ NoConfig
    \/ /\ directory = "icons"
       /\ Icon!Init /\ cursor = 0 /\ table = 0 /\ remaining = 0
       /\ file = <<>> /\ lfanew = 0 /\ bytes_left = 0 /\ values = <<>>
       /\ header = <<>> /\ NoConfig
    \/ /\ directory = "addresses"
       /\ Addr!Init /\ table = 0 /\ remaining = 0 /\ count = 0 /\ file = <<>>
       /\ lfanew = 0 /\ bytes_left = 0 /\ read = "none" /\ header = <<>>
       /\ NoConfig
    \/ /\ directory = "digest"
       /\ Dig!Init /\ table = 0 /\ left = 0 /\ file = <<>> /\ bytes_left = 0
       /\ values = <<>> /\ header = <<>> /\ NoConfig

ParseRelocations ==
    /\ directory = "relocations" /\ Reloc!Step
    /\ UNCHANGED <<directory, cursor, configVars, richVars>>

ParseCertificates ==
    /\ directory = "certificates" /\ Cert!Step
    /\ UNCHANGED <<directory, cursor, count, configVars, richVars>>

ParseConfig ==
    /\ directory = "config" /\ Conf!Step
    /\ UNCHANGED <<directory, tableVars, richVars>>

ParseRich ==
    /\ directory = "rich" /\ Rich!Step
    /\ UNCHANGED <<directory, tableVars, configVars>>

ParseHeaders ==
    /\ directory = "headers" /\ Hdr!Step
    /\ UNCHANGED <<directory, left, remaining, lfanew, bytes_left, configVars>>

ParseImports ==
    /\ directory = "imports" /\ Imp!Step
    /\ UNCHANGED <<directory, cursor, table, left, remaining, file, lfanew,
                   bytes_left, read, header, configVars>>

ParseExports ==
    /\ directory = "exports" /\ Exp!Step
    /\ UNCHANGED <<directory, cursor, table, left, remaining, count, file,
                   lfanew, bytes_left, read, header, configVars>>

ParseDebug ==
    /\ directory = "debug" /\ Debug!Step
    /\ UNCHANGED <<directory, remaining, kept, richVars, configVars>>

ParseTls ==
    /\ directory = "tls" /\ TLS!Step
    /\ UNCHANGED <<directory, cursor, table, remaining, richVars, configVars>>

ParseResources ==
    /\ directory = "resources" /\ Res!Step
    /\ UNCHANGED <<directory, left, remaining, count, lfanew, bytes_left,
                   configVars>>

ParseVersion ==
    /\ directory = "version" /\ Ver!Step
    /\ UNCHANGED <<directory, left, kept, file, bytes_left, read, values,
                   header, configVars>>

ParseIcons ==
    /\ directory = "icons" /\ Icon!Step
    /\ UNCHANGED <<directory, cursor, table, remaining, file, lfanew,
                   bytes_left, values, header, configVars>>

TranslateAddress ==
    /\ directory = "addresses" /\ Addr!Step
    /\ UNCHANGED <<directory, table, remaining, count, file, lfanew, bytes_left,
                   read, header, configVars>>

HashFile ==
    /\ directory = "digest" /\ Dig!Step
    /\ UNCHANGED <<directory, table, left, file, bytes_left, values, header,
                   configVars>>

Step ==
    \/ ParseRelocations \/ ParseCertificates \/ ParseConfig \/ ParseRich
    \/ ParseHeaders \/ ParseImports \/ ParseExports \/ ParseDebug
    \/ ParseTls \/ ParseResources \/ ParseVersion \/ ParseIcons
    \/ TranslateAddress \/ HashFile

Returned ==
    /\ pc \in {"done", "failed"}
    /\ UNCHANGED vars

Next == Step \/ Returned

\* The parsers are sequential code that never waits.
Spec == Init /\ [][Next]_vars /\ WF_vars(Step)

-------------------------------------------------------------------------------
(* Properties.                                                             *)

\* The types of every parser: cursors stay within the file, and the counts of
\* remaining bytes stay 32-bit numbers, whatever the tables claim.
TypeOK ==
    CASE directory = "relocations"  -> Reloc!TypeOK
      [] directory = "certificates" -> Cert!TypeOK
      [] directory = "config"       -> Conf!TypeOK
      [] directory = "rich"         -> Rich!TypeOK
      [] directory = "headers"      -> Hdr!TypeOK
      [] directory = "imports"      -> Imp!TypeOK
      [] directory = "exports"      -> Exp!TypeOK
      [] directory = "debug"        -> Debug!TypeOK
      [] directory = "tls"          -> TLS!TypeOK
      [] directory = "resources"    -> Res!TypeOK
      [] directory = "version"      -> Ver!TypeOK
      [] directory = "icons"        -> Icon!TypeOK
      [] directory = "addresses"    -> Addr!TypeOK
      [] directory = "digest"       -> Dig!TypeOK

\* Every call returns, whatever the file contains: the loops end although the
\* sizes they count down are taken from the file and may wrap around.  There is
\* one exception: a string of a version resource whose rounded length is 0, which
\* is read again and again (resources.cpp:564-600).
Terminates ==
    <>(pc \in {"done", "failed"} \/ (directory = "version" /\ Ver!Stuck))

\* Every relocation block that is kept is at least as long as its header and has
\* exactly the entries its length announces, although the code compares the
\* length with nothing but the rest of the table, and the length of the header
\* is subtracted from it in 32 bits (_parse_relocations, pe.cpp:797-823).
RelocationBlocksAreWhole == directory = "relocations" => Reloc!BlocksAreWhole

\* As long as no block has an odd length, the file cursor and remaining_size
\* agree on where the next block starts: the parser does not take entries for
\* headers (_parse_relocations, pe.cpp:793-824).
RelocationsInStep == directory = "relocations" => Reloc!InStep

\* The relocations that are kept never take more bytes than the file has behind
\* the start of the table: an announced size cannot make the vectors outgrow the
\* file (_parse_relocations, pe.cpp:809-819).
RelocationsBoundedByFile == directory = "relocations" => Reloc!BoundedByFile

\* Of a file of less than 4 GB at most one certificate is read, although
\* remaining_bytes wraps below zero after one that is longer than the table and
\* the loop then runs on (_parse_certificates, pe.cpp:1057-1073).
OneCertificate == directory = "certificates" => Cert!OneCertificate

\* The certificate that is kept is no longer than what the file has behind the
\* start of the table (_parse_certificates, pe.cpp:1057-1064).
CertificateWithinFile == directory = "certificates" => Cert!WithinFile

\* A certificate that lies within the table and within the file is read, and the
\* next one is looked for at the next aligned address (the comment at
\* pe.cpp:1067).
FittingCertificateIsRead == directory = "certificates" => Cert!FittingCertificateIsRead

\* A load configuration is published as a whole up to its tail, and a field of the
\* tail is only filled with bytes that follow the SafeSEH fields and belong to the
\* structure, even where those fields were skipped, the file ends within the
\* structure or the first reads of the tail failed (_parse_config and
\* read_config_field, pe.cpp:900-1000).
ConfigTailWithinStructure ==
    directory = "config" => Conf!TailWithinStructure /\ Conf!ConfigIsWhole

\* In a PE32 every field of the tail is filled with its own bytes or not at all,
\* although a failing read does not move the cursor and the next field is tried
\* from there (read_config_field, pe.cpp:900-914 and 988-997).
ConfigOwnBytesInPE32 == directory = "config" => Conf!OwnBytesInPE32

\* Every field of the tail that lies within the structure and the file is read
\* (the comment at pe.cpp:985-986).
ConfigTailIsRead == directory = "config" => Conf!TailIsRead

\* The rich header that is stored is the one that the layout of the file defines,
\* in file order and with the offset of its marker, although it is found by a
\* search forwards and collected by a walk backwards (_parse_rich_header,
\* pe.cpp:1081-1142).
RichHeaderIsRight == directory = "rich" => Rich!RichHeaderIsRight

\* A file that is_valid() has every section and every directory it announces, and
\* they lie within the file; a file that is not valid has no symbols
\* (PE::PE, pe.cpp:39-57 and 282-427).
ValidMeansComplete == directory = "headers" => Hdr!ValidMeansComplete

\* A section whose name is an index of the COFF string table gets its name from
\* there (include/manape/section.h:57-58).
SectionNamesResolved == directory = "headers" => Hdr!SectionNamesResolved

\* The libraries before the first one whose lookup table fails have all their
\* imports, those after it none; no import is listed twice, nor are there more
\* than the limit and one; a delay-loaded library is listed as a whole or not at
\* all (_parse_imports, imports.cpp:62-247).
FailureCutsTheImports == directory = "imports" => Imp!FailureCutsTheList

\* The functions that the dump prints under a library are its own, unless two
\* libraries have one name, and a plugin can find all that are imported by name;
\* nothing is said of finding ordinals (dump_imports, dump.cpp:219-239, and
\* PE::get_imported_functions and find_imports, imports.cpp:271-303 and 337-381).
ShownFunctionsAreOwn == directory = "imports" => Imp!ShownFunctionsAreOwn

\* In the text of the import hash commas separate the functions; one too many is
\* at its start exactly if the first library has no functions (hash_imports,
\* import_hash.cpp:44-47).
HashIsSeparated == directory = "imports" => Imp!HashIsSeparated

\* Every exported function has the name that the table gives to it, up to the
\* first entry that fails, and a forwarded one is always shown (_parse_exports,
\* pe.cpp:684-776, and dump_exports, dump.cpp:253-258).
ExportNamesFollowTable == directory = "exports" => Exp!ExportNamesFollowTable

\* Every entry of the debug directory is read from its place, wherever the entry
\* before it led; the name of a MISC entry is no longer than its Length says, if
\* the Length is larger than the header by at least one character (_parse_debug,
\* pe.cpp:443-498).
DebugInStep == directory = "debug" => Debug!EntriesInStep /\ Debug!NameWithinLength

\* The list of resources is the tree of the file, flattened in order and without
\* repetitions, up to the first data entry that cannot be read, unless the tree
\* has a directory at offset 0; reading them leaves no file open, unless an
\* allocation is refused (_parse_resources, resources.cpp:103-259, and
\* Resource::get_raw_data, resources.cpp:263-305).
ResourcesMatchTree == directory = "resources" => Res!WalkMatchesTree

\* The strings of a version resource are read up to the end of their table, and
\* from multiples of 4 (Resource::interpret_as, resources.cpp:471-613).
VersionStringsInStep == directory = "version" => Ver!StringsInStep

\* The icons of an .ico file are where their entries say, and the entries have
\* room in its header, unless a cursor was rejected (reconstruct_icon,
\* resources.cpp:643-716).
IconsAreInPlace == directory = "icons" => Icon!IconsAreInPlace

\* An offset is given for an address that a section covers and for no other, and
\* within the section it is as far from the start as the address (rva_to_offset,
\* pe.cpp:506-562, is_address_in_section, section.cpp:111-119).
OffsetsFollowSections == directory = "addresses" => Addr!OffsetsFollowSections

\* The authenticode digest covers every byte before the certificate once, but for
\* the Checksum and the entry of the SECURITY directory, and the file is closed
\* unless the certificate is in the headers (get_authenticode_hash,
\* pe_authenticode_digest.cpp:41-84).
DigestCoversFile == directory = "digest" => Dig!DigestCoversFile
===============================================================================
