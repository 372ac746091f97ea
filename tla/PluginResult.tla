----------------------------- MODULE PluginResult -----------------------------
(***************************************************************************)
(* plugin::Result: what a plugin returns, a level, an optional summary and *)
(* a list of information, all kept as nodes of a tree and found again by   *)
(* their names.  A plugin that scans twice has two results and merges one  *)
(* into the other; the nodes of the list are shared from then on.          *)
(***************************************************************************)
EXTENDS OutputTree, FiniteSets

CONSTANTS
    Name,       \* the names a plugin gives to its nodes
    Level,      \* the levels it sets: SAFE (0), NO_OPINION, SUSPICIOUS, MALICIOUS (3)
    MaxNodes    \* bound on the size of the heap

NO_OPINION == 1

Result == {"first", "second"}

VARIABLES
    heap,    \* the nodes
    data,    \* _data of every result, 0 before it is made
    merged   \* whether merge was called

vars == <<heap, data, merged>>

Init ==
    /\ data = [r \in Result |-> 0]
    /\ merged = FALSE

\* The constructor, called by IPlugin::make_result.
MakeResult(r) ==
    /\ data[r] = 0 /\ ~merged
    /\ Len(heap) + 3 <= MaxNodes
    /\ LET h == NewNode(heap, Plain("plugin"), 0)
           d == Len(h)
           l == AppendNew(h, d, Plain("level"), NO_OPINION)
       IN  /\ heap' = AppendNew(l, d, Plain("plugin_output"), 0)
           /\ data' = [data EXCEPT ![r] = d]
    /\ UNCHANGED merged

Made(r) == data[r] # 0

LevelNode(r) == FindNode(heap, data[r], Plain("level"))

\* The level node is updated, or made if it is missing.
StoreLevel(h, r, level) ==
    IF LevelNode(r) = 0
    THEN AppendNew(h, data[r], Plain("level"), level)
    ELSE [h EXCEPT ![LevelNode(r)].value = level]

SetLevel(r, level) ==
    /\ Made(r)
    /\ heap' = StoreLevel(heap, r, level)
    /\ UNCHANGED <<data, merged>>

\* Result::raise_level
Raised(h, r, level) ==
    IF LevelNode(r) = 0 \/ level > h[LevelNode(r)].value
    THEN StoreLevel(h, r, level)
    ELSE h

RaiseLevel(r, level) ==
    /\ Made(r)
    /\ heap' = Raised(heap, r, level)
    /\ UNCHANGED <<data, merged>>

\* Mutant: a summary is added without looking for one.
SetSummaryAdds(r, s) ==
    /\ Made(r) /\ Len(heap) < MaxNodes
    /\ heap' = AppendNew(heap, data[r], Plain("summary"), s)
    /\ UNCHANGED <<data, merged>>

SetSummary(r, s) ==
    /\ Made(r) /\ Len(heap) < MaxNodes
    /\ LET n == FindNode(heap, data[r], Plain("summary"))
       IN  heap' = IF n = 0 THEN AppendNew(heap, data[r], Plain("summary"), s)
                   ELSE [heap EXCEPT ![n].value = s]
    /\ UNCHANGED <<data, merged>>

\* get_information, which finds the list (see OneOfEach).
Information(r) == FindNode(heap, data[r], Plain("plugin_output"))

\* Result::is_empty
IsEmpty(r) ==
    /\ FindNode(heap, data[r], Plain("summary")) = 0
    /\ heap[Information(r)].kids = <<>>

\* _create_node_name: a number, that of the nodes there are already.
InfoName(r) ==
    [base |-> "info_", index |-> Len(heap[Information(r)].kids), dup |-> <<>>]

\* add_information(t): a node that has no name of its own.
AddInformation(r) ==
    /\ Made(r) /\ Len(heap) < MaxNodes
    /\ heap' = AppendNew(heap, Information(r), InfoName(r), 0)
    /\ UNCHANGED <<data, merged>>

\* add_information(name, t) and add_information(node)
AddNamedInformation(r, name) ==
    /\ Made(r) /\ Len(heap) < MaxNodes
    /\ heap' = AppendNew(heap, Information(r), name, 0)
    /\ UNCHANGED <<data, merged>>

\* The children of the second result's list are appended to that of the first;
\* get_children returns a copy of the list.  The callers drop the second result
\* (plugins_yara.cpp:369, 450).
Merge ==
    /\ \A r \in Result : Made(r)
    /\ ~merged
    /\ LET raised == Raised(heap, "first", heap[LevelNode("second")].value)
           kids   == heap[Information("second")].kids
           add[k \in 0..Len(kids)] ==
               IF k = 0 THEN raised
               ELSE AppendNode(add[k - 1], Information("first"), kids[k])
       IN  heap' = add[Len(kids)]
    /\ merged' = TRUE
    /\ data' = [data EXCEPT !["second"] = 0]

Next ==
    \/ \E r \in Result :
           \/ MakeResult(r)
           \/ \E level \in Level : SetLevel(r, level) \/ RaiseLevel(r, level)
           \/ SetSummary(r, 1)
           \/ AddInformation(r)
           \/ \E name \in Name : AddNamedInformation(r, name)
    \/ Merge

-------------------------------------------------------------------------------
(* Properties.                                                             *)

Count(r, base) ==
    LET kids == heap[data[r]].kids
    IN  Cardinality({k \in DOMAIN kids : heap[kids[k]].name.base = base})

\* A result always has one level and one list of information, and at most one
\* summary, so that the lookups by name succeed and find the right node: the
\* cases the code says should never happen do not (result.cpp:34-41, 99-105,
\* 125-132).
OneOfEach ==
    \A r \in Result : Made(r) =>
        /\ Count(r, "level") = 1
        /\ Count(r, "plugin_output") = 1
        /\ Count(r, "summary") <= 1
===============================================================================
