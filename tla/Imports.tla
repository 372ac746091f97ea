------------------------------- MODULE Imports --------------------------------
(***************************************************************************)
(* PE::_parse_imports and PE::_parse_delayed_imports: the descriptors of   *)
(* the imported libraries are read first, the lookup table of each library *)
(* after that, and at last the table of the one library that is loaded     *)
(* when it is first called.  What a read returns is arbitrary; it may fail *)
(* at any place.                                                           *)
(*                                                                         *)
(* The second part are the questions that are asked of the result: by the  *)
(* dump, by the plugins and by the import hash.                            *)
(***************************************************************************)
EXTENDS Integers, Sequences, SequencesExt

CONSTANTS
    LibraryNames,   \* names of libraries
    Entries,        \* lookup entries: [address, name], name "" is an ordinal
    OrdinalMap,     \* nt::ORDINAL_MAP, a function of <<library, ordinal>>
    ImportLimit,    \* 10000: the limit of the code
    MaxLibraries    \* bound on the number of descriptors

VARIABLES
    pc,        \* the table being read, or "done"
    imports,   \* _imports: name, delayed, functions
    at,        \* the library whose lookup table is read
    delayed,   \* the delay-loaded library that is read, if there is one
    whole      \* the libraries whose lookup table was read to its end

vars == <<pc, imports, at, delayed, whole>>

Library(n, d) == [name |-> n, delayed |-> d, functions |-> <<>>]

Init ==
    /\ pc = "descriptors"
    /\ imports = <<>>
    /\ at = 1
    /\ delayed = <<>>
    /\ whole = {}

ReadDescriptor ==
    /\ pc = "descriptors" /\ Len(imports) < MaxLibraries
    /\ \E n \in LibraryNames : imports' = Append(imports, Library(n, FALSE))
    /\ UNCHANGED <<pc, at, delayed, whole>>

\* The null descriptor, or one whose name cannot be read when there is a library
\* already: the lookup tables come next.
EndDescriptors ==
    /\ pc = "descriptors"
    /\ pc' = "lookup"
    /\ UNCHANGED <<imports, at, delayed, whole>>

\* There is no import directory, the file ends within the descriptors, or the
\* name of the first one cannot be read: no lookup table is looked at.
DescriptorsFail ==
    /\ pc = "descriptors"
    /\ pc' = "delay"
    /\ UNCHANGED <<imports, at, delayed, whole>>

\* _parse_import_lookup_table goes on with the entry e.
Accepted(functions, e) ==
    /\ Len(functions) <= ImportLimit
    /\ \A k \in DOMAIN functions : functions[k] # e

\* The next entry of the lookup table, its hint and its name.  The vector of the
\* library is the one that is shown later.
AddImport ==
    /\ pc = "lookup" /\ at <= Len(imports)
    /\ \E e \in Entries :
           /\ Accepted(imports[at].functions, e)
           /\ imports' = [imports EXCEPT ![at].functions = Append(@, e)]
    /\ UNCHANGED <<pc, at, delayed, whole>>

EndLookup ==
    /\ pc = "lookup" /\ at <= Len(imports)
    /\ whole' = whole \cup {at}
    /\ at' = at + 1
    /\ UNCHANGED <<pc, imports, delayed>>

\* Mutant: the next library is tried after an error.
LookupFailsContinues ==
    /\ pc = "lookup" /\ at <= Len(imports)
    /\ at' = at + 1
    /\ UNCHANGED <<pc, imports, delayed, whole>>

\* The table or a name cannot be reached or read, or an entry is not accepted:
\* the libraries that follow are not tried.
LookupFails ==
    /\ pc = "lookup" /\ at <= Len(imports)
    /\ pc' = "delay"
    /\ UNCHANGED <<imports, at, delayed, whole>>

EndLookups ==
    /\ pc = "lookup" /\ at > Len(imports)
    /\ pc' = "delay"
    /\ UNCHANGED <<imports, at, delayed, whole>>

\* The delay-load directory is read.  Whether its name could be read is not
\* looked at: it may be empty.
ReadDelayTable ==
    /\ pc = "delay"
    /\ \E n \in LibraryNames \cup {""} : delayed' = <<Library(n, TRUE)>>
    /\ pc' = "delay_lookup"
    /\ UNCHANGED <<imports, at, whole>>

\* There is none, or it or the place of its name cannot be read.
NoDelayTable ==
    /\ pc = "delay"
    /\ pc' = "done"
    /\ UNCHANGED <<imports, at, delayed, whole>>

AddDelayedImport ==
    /\ pc = "delay_lookup"
    /\ \E e \in Entries :
           /\ Accepted(delayed[1].functions, e)
           /\ delayed' = [delayed EXCEPT ![1].functions = Append(@, e)]
    /\ UNCHANGED <<pc, imports, at, whole>>

EndDelayLookup ==
    /\ pc = "delay_lookup"
    /\ imports' = imports \o delayed
    /\ whole' = whole \cup {Len(imports) + 1}
    /\ pc' = "done"
    /\ UNCHANGED <<at, delayed>>

\* Nothing of the delay-loaded library is kept.
DelayLookupFails ==
    /\ pc = "delay_lookup"
    /\ pc' = "done"
    /\ UNCHANGED <<imports, at, delayed, whole>>

Step ==
    \/ ReadDescriptor \/ EndDescriptors \/ DescriptorsFail
    \/ AddImport \/ EndLookup \/ LookupFails \/ EndLookups
    \/ ReadDelayTable \/ NoDelayTable
    \/ AddDelayedImport \/ EndDelayLookup \/ DelayLookupFails

-------------------------------------------------------------------------------
(* What is asked of the result.                                            *)

\* The comma in the text of the import hash, and the name that is made of an ordinal.
Comma == ","
Numbered == "#"

\* AddressOfData & 0x7FFF
Ordinal(e) == e.address % 32768

\* The name of an entry: its own, or that of the ordinal in that library.
NameIn(dll, e) ==
    IF e.name # "" THEN e.name
    ELSE IF <<dll, Ordinal(e)>> \in DOMAIN OrdinalMap
         THEN OrdinalMap[<<dll, Ordinal(e)>>]
         ELSE Numbered

Named(k) ==
    [f \in DOMAIN imports[k].functions |->
        NameIn(imports[k].name, imports[k].functions[f])]

\* Mutant: the last library of that name is taken.
GetImportedFunctionsLast(dll) ==
    IF \E k \in DOMAIN imports : imports[k].name = dll
    THEN Named(CHOOSE k \in DOMAIN imports :
                   /\ imports[k].name = dll
                   /\ \A j \in DOMAIN imports : imports[j].name = dll => j <= k)
    ELSE <<>>

\* get_imported_functions: the first library of that name.
GetImportedFunctions(dll) ==
    IF \E k \in DOMAIN imports : imports[k].name = dll
    THEN Named(SelectInSeq(imports, LAMBDA l : l.name = dll))
    ELSE <<>>

\* dump_imports: the functions that are printed under each library.
Shown(k) == GetImportedFunctions(imports[k].name)

\* find_imports, for expressions that match every library and every function.
FindImports == UNION {Range(Named(k)) : k \in DOMAIN imports}

\* Mutant: no comma before the first function of any library.
HashOfFirstBare(k) ==
    FlattenSeq([f \in DOMAIN Shown(k) |->
        IF f = 1 THEN <<Shown(k)[f]>> ELSE <<Comma, Shown(k)[f]>>])

\* hash_imports: a comma is written before every function but the first one of
\* the first library.  What is written is a sequence of functions and commas.
HashOf(k) ==
    FlattenSeq([f \in DOMAIN Shown(k) |->
        IF k = 1 /\ f = 1 THEN <<Shown(k)[f]>> ELSE <<Comma, Shown(k)[f]>>])
HashText == FlattenSeq([k \in DOMAIN imports |-> HashOf(k)])

-------------------------------------------------------------------------------
(* Properties.                                                             *)

\* The types (imports.cpp:62-247).
TypeOK ==
    /\ at \in 1..(MaxLibraries + 1)
    /\ whole \subseteq DOMAIN imports
    /\ Len(imports) <= MaxLibraries + 1
    /\ Len(delayed) <= 1

\* The libraries that are listed with no error told are those before the first
\* one that failed: they have all their functions, the ones after it have none,
\* and the delay-loaded library is there only if it is whole.  A library that
\* was cut off never has an import twice, nor more than the limit and one
\* (imports.cpp:89-115 and 169-201).
FailureCutsTheList ==
    /\ \A k \in DOMAIN imports :
           /\ k \in whole => \A j \in 1..(k - 1) : imports[k].delayed \/ j \in whole
           /\ imports[k].delayed => k \in whole /\ k = Len(imports)
           /\ (k \notin whole /\ imports[k].functions # <<>>) =>
                  \A j \in 1..(k - 1) : j \in whole
           /\ IsInjective(imports[k].functions)
           /\ Len(imports[k].functions) <= ImportLimit + 1

DistinctNames ==
    \A j, k \in DOMAIN imports : imports[j].name = imports[k].name => j = k

\* The functions that a library imports by name.
ByName(k) == {e.name : e \in Range(imports[k].functions)} \ {""}

\* The dump prints under each library the functions it imports, unless two
\* libraries have one name; then those of the first are printed twice.  Every
\* function that is imported by name is found by a plugin, which looks at all
\* libraries, so that one is found even if the dump does not show it.  Nothing is
\* said of whether ordinals are found: pe.h:146 says they can NOT be, and
\* find_imports translates and finds them (dump.cpp:227-236, imports.cpp:271-300
\* and 337-381).
ShownFunctionsAreOwn ==
    pc = "done" =>
        /\ \A k \in DOMAIN imports :
               /\ \E j \in 1..k : imports[j].name = imports[k].name /\ Shown(k) = Named(j)
               /\ ByName(k) \subseteq FindImports
        /\ DistinctNames => \A k \in DOMAIN imports : Shown(k) = Named(k)

\* In the text that is hashed a comma stands between any two functions and
\* nowhere else, but for one at the start of it: that is there exactly if the
\* first library has no functions and another one has (import_hash.cpp:44-47).
HashIsSeparated ==
    pc = "done" =>
        LET text == HashText
            IsComma(c) == text[c] = Comma
        IN  text # <<>> =>
                /\ \A c \in 1..(Len(text) - 1) : IsComma(c) # IsComma(c + 1)
                /\ ~IsComma(Len(text))
                /\ IsComma(1) <=> imports[1].functions = <<>>
===============================================================================
