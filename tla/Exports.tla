------------------------------- MODULE Exports --------------------------------
(***************************************************************************)
(* PE::_parse_exports: the addresses of the exported functions are read    *)
(* one after the other; the names are a second table, of pairs of a name   *)
(* and the position of the function that has it, and are matched after     *)
(* that.  What a read returns is arbitrary.                                *)
(***************************************************************************)
EXTENDS Integers, Sequences

CONSTANTS
    MaxFunctions, MaxNames,   \* bounds on NumberOfFunctions and NumberOfNames
    ExportNames               \* the names a file may contain

VARIABLES
    pc,        \* "directory", "functions", "tables", "names", "done"
    ied,       \* _ied: NumberOfFunctions and NumberOfNames
    exports,   \* _exports: where the Address points to, and the Name
    pairs      \* the pairs of the name table looked at so far

vars == <<pc, ied, exports, pairs>>

Init ==
    /\ pc = "directory"
    /\ ied = [functions |-> 0, names |-> 0]
    /\ exports = <<>>
    /\ pairs = <<>>

\* The directory and the name of the library are read.
ReadDirectory ==
    /\ pc = "directory"
    /\ \E f \in 1..MaxFunctions, n \in 0..MaxNames :
           ied' = [functions |-> f, names |-> n]
    /\ pc' = "functions"
    /\ UNCHANGED <<exports, pairs>>

\* There is no directory or no function, or the name of the library or the table
\* of the functions cannot be read.
NoDirectory ==
    /\ pc = "directory"
    /\ pc' = "done"
    /\ UNCHANGED <<ied, exports, pairs>>

\* The address of a function.  One that lies in the export directory itself is
\* the name of a function of another library, and is read at once; it therefore
\* has a place in the file, which the others may not have.
ReadFunction ==
    /\ pc = "functions" /\ Len(exports) < ied.functions
    /\ \E to \in {"code", "forward", "nowhere"} :
           exports' = Append(exports, [to |-> to, name |-> ""])
    /\ UNCHANGED <<pc, ied, pairs>>

\* An address or a forwarded name cannot be read: no name is matched.
FunctionFails ==
    /\ pc = "functions" /\ Len(exports) < ied.functions
    /\ pc' = "done"
    /\ UNCHANGED <<ied, exports, pairs>>

EndFunctions ==
    /\ pc = "functions" /\ Len(exports) = ied.functions
    /\ pc' = IF ied.names = 0 THEN "done" ELSE "tables"
    /\ UNCHANGED <<ied, exports, pairs>>

\* The two tables of the names are read as a whole, or not.
ReadTables ==
    /\ pc = "tables"
    /\ pc' \in {"names", "done"}
    /\ UNCHANGED <<ied, exports, pairs>>

\* Mutant: the position is compared with the size of the table as if it began
\* with 1.
MatchNameOffByOne ==
    /\ pc = "names" /\ Len(pairs) < ied.names
    /\ \E ord \in 0..MaxFunctions, n \in ExportNames \cup {""} :
           /\ ord <= Len(exports)
           /\ pairs' = Append(pairs, [ord |-> ord, name |-> n, there |-> TRUE])
           /\ exports' = [exports EXCEPT ![ord].name = n]
           /\ pc' = IF n = "" THEN "done" ELSE pc
    /\ UNCHANGED ied

\* read_string_at_offset writes what it has read before it says that an empty
\* string is an error: the function at that position then has no name.
MatchName ==
    /\ pc = "names" /\ Len(pairs) < ied.names
    /\ \E ord \in 0..MaxFunctions, n \in ExportNames \cup {""} :
           /\ ord < Len(exports)
           /\ pairs' = Append(pairs, [ord |-> ord, name |-> n, there |-> TRUE])
           /\ exports' = [exports EXCEPT ![ord + 1].name = n]
           /\ pc' = IF n = "" THEN "done" ELSE pc
    /\ UNCHANGED ied

\* The name has no place in the file, or no function has that position: the rest
\* of the names is given up.
MatchFails ==
    /\ pc = "names" /\ Len(pairs) < ied.names
    /\ \E ord \in 0..MaxFunctions :
           pairs' = Append(pairs, [ord |-> ord, name |-> "", there |-> FALSE])
    /\ pc' = "done"
    /\ UNCHANGED <<ied, exports>>

EndNames ==
    /\ pc = "names" /\ Len(pairs) = ied.names
    /\ pc' = "done"
    /\ UNCHANGED <<ied, exports, pairs>>

Step ==
    \/ ReadDirectory \/ NoDirectory
    \/ ReadFunction \/ FunctionFails \/ EndFunctions
    \/ ReadTables \/ MatchName \/ MatchFails \/ EndNames

\* dump_exports: the positions of the exports that are printed, those whose
\* address has a place in the file.
Shown == {o \in DOMAIN exports : exports[o].to # "nowhere"}

-------------------------------------------------------------------------------
(* Properties.                                                             *)

\* The types (pe.cpp:648-777).
TypeOK ==
    /\ pc \in {"directory", "functions", "tables", "names", "done"}
    /\ exports \in Seq([to : {"code", "forward", "nowhere"},
                        name : ExportNames \cup {""}])
    /\ Len(exports) <= ied.functions
    /\ Len(pairs) <= ied.names

\* The last of the pairs that names the function at position o.
PairsOf(o) == {p \in DOMAIN pairs : pairs[p].there /\ pairs[p].ord = o}

\* Every exported function has the name that the last pair for it gives, among
\* the pairs up to the first one that fails, or none; no function has a name
\* unless all of them were read; and a forwarded function is never left out of
\* what is shown (pe.cpp:693-775, dump.cpp:253-258).
ExportNamesFollowTable ==
    /\ \A o \in DOMAIN exports :
           exports[o].name =
               IF PairsOf(o - 1) = {} THEN ""
               ELSE pairs[CHOOSE p \in PairsOf(o - 1) :
                              \A q \in PairsOf(o - 1) : q <= p].name
    /\ \A p \in 1..(Len(pairs) - 1) : pairs[p].there /\ pairs[p].name # ""
    /\ pairs # <<>> => Len(exports) = ied.functions
    /\ \A o \in DOMAIN exports : exports[o].to = "forward" => o \in Shown
===============================================================================
