------------------------------ MODULE FileReport ------------------------------
(***************************************************************************)
(* The report of one file: handle_dump_option calls the dump functions in  *)
(* a fixed order, each builds a list whose entries are named after things  *)
(* of the PE (sections, libraries, exports, resources) and gives it to     *)
(* OutputFormatter::add_data.  dump_version_info adds to what an earlier   *)
(* version resource of the same file has added.  Then a plugin makes its   *)
(* results (PluginResult), and handle_plugins_option adds the one it has   *)
(* returned to the report.                                                 *)
(***************************************************************************)
EXTENDS OutputTree, FiniteSets

CONSTANTS
    Categories,   \* the lists dumped before the version info, in their order
    EntryName,    \* the names the PE gives to its sections, DLLs, exports, resources
    Versions,     \* the number of RT_VERSION resources of the PE
    Level,        \* the levels the plugin sets: SAFE (0) to MALICIOUS (3)
    MaxNodes      \* bound on the nodes that are made

VersionInfo == "Version Info"
LangID == "Resource LangID"

ASSUME ReportAssumption ==
    /\ Categories \in Seq(STRING) /\ VersionInfo \notin Range(Categories)
    /\ EntryName \subseteq [base : STRING, index : Nat, dup : Seq(Nat)]
    /\ Versions \in Nat
    /\ Level \subseteq 0..3

Root == 1
Path == Plain("path")

VARIABLES
    heap,      \* the nodes of the formatter and those under construction
    todo,      \* the categories left
    list,      \* the list under construction, 0 if there is none
    versions,  \* the version resources left
    plugins,   \* plugins_node, 0 before and after handle_plugins_option
    data,      \* the results of the plugin
    merged     \* whether it has merged them

dumpVars   == <<todo, list, versions>>
pluginVars == <<plugins, data, merged>>
vars == <<heap, dumpVars, pluginVars>>

Plugin == INSTANCE PluginResult WITH Name <- EntryName

Room(n) == Len(heap) + n <= MaxNodes

Init ==
    /\ heap = NewNode(<<>>, Plain("root"), 0)
    /\ todo = Categories
    /\ list = 0
    /\ versions = Versions
    /\ plugins = 0
    /\ Plugin!Init

\* Mutant: the first data of a file only makes its node.
AddDataDropsFirst(h, node) ==
    LET file == FindNode(h, Root, Path)
    IN  IF file # 0 THEN AppendNode(h, file, node)
        ELSE LET new == NewNode(h, Path, 0) IN AppendNode(new, Root, Len(new))

\* OutputFormatter::add_data
AddData(h, node) ==
    LET file == FindNode(h, Root, Path)
    IN  IF file # 0 THEN AppendNode(h, file, node)
        ELSE LET new  == NewNode(h, Path, 0)
                 full == AppendNode(new, Len(new), node)
             IN  AppendNode(full, Root, Len(new))

\* OutputFormatter::find_node
FindInFile(name) ==
    LET file == FindNode(heap, Root, Path)
    IN  IF file = 0 THEN 0 ELSE FindNode(heap, file, name)

\* A category that was not asked for, or of which the PE has nothing.
Skip ==
    /\ list = 0 /\ todo # <<>>
    /\ todo' = Tail(todo)
    /\ UNCHANGED <<heap, list, versions, pluginVars>>

Begin ==
    /\ list = 0 /\ todo # <<>> /\ Room(2)
    /\ heap' = NewNode(heap, Plain(Head(todo)), 0)
    /\ list' = Len(heap')
    /\ UNCHANGED <<todo, versions, pluginVars>>

AddEntry(name) ==
    /\ list # 0 /\ Room(1)
    /\ heap' = AppendNew(heap, list, name, 0)
    /\ UNCHANGED <<dumpVars, pluginVars>>

\* Mutant: the list is given to add_data twice.
EndTwice ==
    /\ list # 0
    /\ heap' = AddData(AddData(heap, list), list)
    /\ list' = 0
    /\ todo' = Tail(todo)
    /\ UNCHANGED <<versions, pluginVars>>

End ==
    /\ list # 0
    /\ heap' = AddData(heap, list)
    /\ list' = 0
    /\ todo' = Tail(todo)
    /\ UNCHANGED <<versions, pluginVars>>

\* Mutant: one resource more than there are.
VersionFailsPastLast ==
    /\ todo = <<>> /\ versions >= 0
    /\ versions' = versions - 1
    /\ UNCHANGED <<heap, todo, list, pluginVars>>

\* A version resource that cannot be parsed.
VersionFails ==
    /\ todo = <<>> /\ versions > 0
    /\ versions' = versions - 1
    /\ UNCHANGED <<heap, todo, list, pluginVars>>

\* One version resource: its language and its list of values, whose name and
\* some of whose names come from the file, below the node of an earlier one or
\* a new one, which is then given to add_data in either case.
DumpVersion(key, string) ==
    /\ todo = <<>> /\ versions > 0 /\ Room(6)
    /\ LET existing == FindInFile(Plain(VersionInfo))
           with == IF existing # 0 THEN heap
                   ELSE NewNode(heap, Plain(VersionInfo), 0)
           node == IF existing # 0 THEN existing ELSE Len(with)
           lang == AppendNew(with, node, Plain(LangID), 0)
           keys == NewNode(lang, key, 0)
           vals == AppendNew(AppendNew(keys, Len(keys), Plain("Language"), 0),
                             Len(keys), string, 0)
       IN  heap' = AddData(AppendNode(vals, node, Len(keys)), node)
    /\ versions' = versions - 1
    /\ UNCHANGED <<todo, list, pluginVars>>

Dumped == todo = <<>> /\ versions = 0

\* handle_plugins_option: plugins_node is made, and the plugin is started.
StartPlugins ==
    /\ Dumped /\ plugins = 0 /\ Room(8)
    /\ FindInFile(Plain("Plugins")) = 0
    /\ heap' = NewNode(heap, Plain("Plugins"), 0)
    /\ plugins' = Len(heap')
    /\ UNCHANGED <<dumpVars, data, merged>>

\* A call of the plugin on one of its results.
PluginStep ==
    /\ plugins # 0
    /\ Plugin!Next
    /\ UNCHANGED <<dumpVars, plugins>>

\* The plugin returns a result (or the other one if there is nothing in it); it
\* goes into plugins_node if it has any information, and that into the report.
EndPlugins(r) ==
    /\ plugins # 0 /\ data[r] # 0
    /\ \A q \in DOMAIN data \ {r} : data[q] # 0 => Plugin!IsEmpty(q)
    /\ heap' = LET info == Plugin!Information(r)
               IN  AddData(IF heap[info].kids = <<>> THEN heap
                           ELSE AppendNode(heap, plugins, data[r]), plugins)
    /\ plugins' = 0
    /\ data' = [q \in DOMAIN data |-> 0]
    /\ merged' = FALSE
    /\ UNCHANGED dumpVars

Next ==
    \/ Skip \/ Begin \/ End \/ VersionFails \/ StartPlugins \/ PluginStep
    \/ \E name \in EntryName : AddEntry(name)
    \/ \E key, string \in EntryName \cup {Plain("Language")} : DumpVersion(key, string)
    \/ \E r \in DOMAIN data : EndPlugins(r)

Spec == Init /\ [][Next]_vars

-------------------------------------------------------------------------------
(* Properties.                                                             *)

\* The given nodes and their children.
WithChildren(near) == near \cup UNION {Range(heap[n].kids) : n \in near}

\* The given nodes and those below them: the information of a plugin, five
\* lists below the root, is the deepest.
Below(tops) ==
    LET lists   == WithChildren(WithChildren(tops \ {0}))
        entries == WithChildren(WithChildren(lists))
    IN  WithChildren(WithChildren(entries))

\* The nodes that something still points to.
Tops == {Root, list, plugins, data["first"], data["second"]}
Live == Below(Tops)

\* The types: every child is a node of the heap, and the numbers of things left
\* to do do not go below zero.
TypeOK ==
    /\ \A n \in DOMAIN heap : Range(heap[n].kids) \subseteq DOMAIN heap
    /\ {list, plugins} \subseteq 0..Len(heap)
    /\ versions \in 0..Versions
    /\ \A r \in DOMAIN data : data[r] \in 0..Len(heap)

\* A name of this text ends in a number of its own already when it is given, as
\* "a (#2)" does.
NumberedByFile(name) ==
    \E given \in EntryName :
        given.dup # <<>> /\ given.base = name.base /\ given.index = name.index

\* The child has a number which append, coming to that place of the list with
\* the rest of the name, would not have given it.
CameNumbered(n, j) ==
    LET name   == heap[heap[n].kids[j]].name
        rest   == [name EXCEPT !.dup = SubSeq(@, 1, Len(@) - 1)]
        before == [heap EXCEPT ![n].kids = SubSeq(@, 1, j - 1)]
    IN  /\ name.dup # <<>> /\ NumberedByFile(name)
        /\ AppendedName(before, n, rest) # name

\* Two children of a list in the report have the same name only if the file or
\* the plugin had numbered the first of them itself, and higher than append had
\* come to: "a (#2)", "a", "a", where the one pass of append is past the first
\* when it looks for "a (#2)".  All other names differ, also where a plugin has
\* merged a result into another, whose nodes bring the names and the numbers
\* they had there.  The JSON formatter cannot handle equal names
\* (output_tree_node.cpp:212-226).
SiblingsDiffer ==
    \A n \in Live : \A j, k \in DOMAIN heap[n].kids :
        (j < k /\ heap[heap[n].kids[j]].name = heap[heap[n].kids[k]].name)
            => CameNumbered(n, j)

\* The places in the lists of the given nodes where a node is.
Places(parents, n) ==
    UNION {{<<p, k>> : k \in {j \in DOMAIN heap[p].kids : heap[p].kids[j] = n}} :
               p \in parents}

\* The report is a tree: everything that was collected is in it, at one place
\* only, except the nodes that are being filled (output_formatter.h:85-101,
\* main.cpp:383-400).
IsTree ==
    LET live == Live
    IN  \A n \in live :
            Cardinality(Places(live, n)) = IF n \in Tops THEN 0 ELSE 1

\* The nodes of the report, and the information of the plugin's results.
Found ==
    Below({Root, list, plugins}) \cup
    UNION {Range(heap[Plugin!Information(r)].kids) : r \in {q \in DOMAIN data : data[q] # 0}}

\* Whatever was found and is in the report, in a list that is being filled or in
\* the information of a result, stays there or is handed over to the report
\* (output_formatter.h:85-101, result.cpp:138-152, main.cpp:387-400).
NothingIsLost == [][Found \subseteq Found']_vars

\* A result always has one level and one list of information, and at most one
\* summary: the cases result.cpp says should never happen do not (result.cpp:34,
\* 50, 69 and 126).
OneOfEach == Plugin!OneOfEach
===============================================================================
