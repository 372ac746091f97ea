------------------------------- MODULE Manalyze -------------------------------
(***************************************************************************)
(* The main program: main(), perform_analysis() and the two output         *)
(* formatters.  Files are analysed one after the other; what the dumpers   *)
(* and plugins find is kept in a tree of nodes, one node per file, that is *)
(* printed and cleared every FlushEvery files and at the end.              *)
(*                                                                         *)
(* A path is a number, so that the order of std::set<std::string> is <.    *)
(* A node added to a file is reduced to its name; what is printed, to a    *)
(* sequence of tokens.  The plugins are those of PluginRegistry.           *)
(***************************************************************************)
EXTENDS Integers, Sequences, FiniteSets

CONSTANTS
    Path,        \* the files that may be given on the command line
    FlushEvery,  \* 1000 in main()
    Category,    \* what --dump can ask for, in the order of handle_dump_option
    Library, Id, StaticId    \* see PluginRegistry

ASSUME PathAssumption == Path \subseteq Nat /\ IsFiniteSet(Path)
ASSUME FlushAssumption == FlushEvery \in Nat \ {0}
ASSUME CategoryAssumption ==
    /\ Category \in Seq(STRING)
    /\ \E k \in DOMAIN Category : Category[k] = "Summary"
ASSUME RegistryAssumption == StaticId \in Seq(Id)

VARIABLES
    phase,     \* where main() is
    opts,      \* the command line: output format and requested work
    targets,   \* the files still to analyse
    current,   \* the file being analysed, valid PE or not
    count,     \* the number of files analysed
    root,      \* OutputFormatter::_root: the file nodes not yet printed
    header,    \* the formatter's static print_header
    out,       \* the tokens written to stdout
    found,     \* history: the names added for each file
    todo, at, test_id, locals, plugins, open, history   \* see PluginRegistry

registry == <<todo, at, test_id, locals, plugins, open, history>>
report == <<root, header, out, found>>
vars == <<phase, opts, targets, current, count, report, registry>>

Registry == INSTANCE PluginRegistry

NodeName == {Category[k] : k \in DOMAIN Category} \cup {"Hashes", "Plugins"}

FileNode == [path : Path, nodes : Seq(NodeName)]

Options == [json : BOOLEAN, dump : BOOLEAN, hashes : BOOLEAN, plugins : BOOLEAN]

-------------------------------------------------------------------------------
(* OutputFormatter                                                         *)

\* Mutant: add_data without find_node.
AddToAlwaysNew(r, names, p) == Append(r, [path |-> p, nodes |-> names])

\* add_data(n, p) for some names: the first call finds the node of the file or
\* creates it, and what the others add comes behind it.
AddTo(r, names, p) ==
    IF \E k \in DOMAIN r : r[k].path = p
    THEN LET first == CHOOSE k \in DOMAIN r :
                          /\ r[k].path = p
                          /\ \A l \in 1..(k - 1) : r[l].path # p
         IN  [r EXCEPT ![first].nodes = @ \o names]
    ELSE Append(r, [path |-> p, nodes |-> names])

Open  == [tok |-> "{"]
Close == [tok |-> "}"]
Comma == [tok |-> ","]
Banner == [tok |-> "header"]
Object(f) == [tok |-> "file", path |-> f.path, nodes |-> f.nodes]

\* JsonFormatter: a comma after all the objects of this call but the last.
JsonBody(r) ==
    [k \in 1..(IF r = <<>> THEN 0 ELSE 2 * Len(r) - 1) |->
        IF k % 2 = 1 THEN Object(r[(k + 1) \div 2]) ELSE Comma]

RawBody(r) == [k \in 1..Len(r) |-> Object(r[k])]

\* Mutant: the header flag is not reset.
FormatHeaderAgain(end_stream) ==
    /\ out' = out
          \o (IF ~header THEN <<>> ELSE IF opts.json THEN <<Open>> ELSE <<Banner>>)
          \o (IF opts.json THEN JsonBody(root) ELSE RawBody(root))
          \o (IF opts.json /\ end_stream THEN <<Close>> ELSE <<>>)
    /\ header' = header
    /\ root' = <<>>

\* format(sink, end_stream): the header once, the nodes, the closing brace at
\* the end of the stream, and the tree is cleared.
Format(end_stream) ==
    /\ out' = out
          \o (IF ~header THEN <<>> ELSE IF opts.json THEN <<Open>> ELSE <<Banner>>)
          \o (IF opts.json THEN JsonBody(root) ELSE RawBody(root))
          \o (IF opts.json /\ end_stream THEN <<Close>> ELSE <<>>)
    /\ header' = FALSE
    /\ root' = <<>>

-------------------------------------------------------------------------------
(* main()                                                                  *)

NoFile == [path |-> -1, valid |-> FALSE]

Init ==
    /\ phase = "load"
    /\ opts \in Options
    /\ targets = {}
    /\ current = NoFile
    /\ count = 0
    /\ root = <<>>
    /\ header = TRUE
    /\ out = <<>>
    /\ found = [p \in Path |-> <<>>]
    /\ Registry!Init

\* load_all() comes first.
LoadPlugins ==
    /\ phase = "load" /\ Registry!Load
    /\ UNCHANGED <<phase, opts, targets, current, count, report>>

PluginsLoaded ==
    /\ phase = "load" /\ Registry!Loaded
    /\ phase' = "args"
    /\ UNCHANGED <<opts, targets, current, count, report, registry>>

\* parse_args() fails, or prints the help or the version and exits.
BadArguments ==
    /\ phase = "args"
    /\ phase' = "exited"
    /\ UNCHANGED <<opts, targets, current, count, report, registry>>

\* get_input_files(): a set, whatever was repeated on the command line.
GoodArguments ==
    /\ phase = "args"
    /\ targets' \in SUBSET Path
    /\ phase' = "next"
    /\ UNCHANGED <<opts, current, count, report, registry>>

\* PE pe(path): the parser decides whether this is a PE.
OpenFile ==
    /\ phase = "next" /\ targets # {}
    /\ \E p \in targets :
           /\ \A q \in targets : p <= q
           /\ targets' = targets \ {p}
           /\ \E v \in BOOLEAN :
                  /\ current' = [path |-> p, valid |-> v]
                  /\ phase' = IF v THEN "dump" ELSE "count"
    /\ UNCHANGED <<opts, count, report, registry>>

\* Consecutive calls of add_data for the current file, or none.
AddAll(names) ==
    /\ root' = IF names = <<>> THEN root ELSE AddTo(root, names, current.path)
    /\ found' = [found EXCEPT ![current.path] = @ \o names]

\* Mutant: the summary goes by the name of the option.
DumpMisnamed ==
    /\ phase = "dump"
    /\ IF opts.dump
       THEN \E k \in DOMAIN Category : AddAll(<<Category[k]>>)
       ELSE AddAll(<<"summary">>)
    /\ phase' = "hashes"
    /\ UNCHANGED <<opts, targets, current, count, header, out, registry>>

\* handle_dump_option: the requested categories, those without data left out;
\* or dump_summary, which is silent about a PE without an optional header.
Dump ==
    /\ phase = "dump"
    /\ IF opts.dump
       THEN \E wanted \in SUBSET DOMAIN Category :
                \E s \in [1..Cardinality(wanted) -> wanted] :
                    /\ \A k, l \in DOMAIN s : k < l => s[k] < s[l]
                    /\ AddAll([k \in DOMAIN s |-> Category[s[k]]])
       ELSE \E s \in {<<>>, <<"Summary">>} : AddAll(s)
    /\ phase' = "hashes"
    /\ UNCHANGED <<opts, targets, current, count, header, out, registry>>

DumpHashes ==
    /\ phase = "hashes"
    /\ IF opts.hashes THEN AddAll(<<"Hashes">>) ELSE UNCHANGED <<root, found>>
    /\ phase' = "plugins"
    /\ UNCHANGED <<opts, targets, current, count, header, out, registry>>

\* handle_plugins_option makes an instance of each plugin.
GetPlugins ==
    /\ phase = "plugins" /\ opts.plugins
    /\ locals' = <<Registry!Local("plugins", Registry!Instances)>>
    /\ phase' = "analysis"
    /\ UNCHANGED <<opts, targets, current, count, report,
                   todo, at, test_id, plugins, open, history>>

NoPlugins ==
    /\ phase = "plugins" /\ ~opts.plugins
    /\ phase' = "count"
    /\ UNCHANGED <<opts, targets, current, count, report, registry>>

\* The rest of it, seen from outside: see PluginAnalysis.  The instances go.
RunPlugins ==
    /\ phase = "analysis"
    /\ AddAll(<<"Plugins">>)
    /\ locals' = <<>>
    /\ phase' = "count"
    /\ UNCHANGED <<opts, targets, current, count, header, out,
                   todo, at, test_id, plugins, open, history>>

PluginThrows ==
    /\ phase = "analysis"
    /\ phase' = "aborted"
    /\ UNCHANGED <<opts, targets, current, count, report, registry>>

\* Mutant: a file that could not be parsed is tried again.
EndOfFileRetries ==
    /\ phase = "count"
    /\ phase' = "next"
    /\ current' = NoFile
    /\ targets' = IF current.valid THEN targets ELSE targets \cup {current.path}
    /\ count' = IF current.valid THEN count + 1 ELSE count
    /\ IF current.valid /\ count' % FlushEvery = 0
       THEN Format(FALSE)
       ELSE UNCHANGED <<out, header, root>>
    /\ UNCHANGED <<opts, found, registry>>

\* ++count, and a flush from time to time.
EndOfFile ==
    /\ phase = "count"
    /\ count' = count + 1
    /\ current' = NoFile
    /\ IF count' % FlushEvery = 0
       THEN Format(FALSE)
       ELSE UNCHANGED <<out, header, root>>
    /\ phase' = "next"
    /\ UNCHANGED <<opts, targets, found, registry>>

FinalFormat ==
    /\ phase = "next" /\ targets = {}
    /\ Format(TRUE)
    /\ phase' = "unload"
    /\ UNCHANGED <<opts, targets, current, count, found, registry>>

\* Mutant: the plugins are unloaded before the last call of format().
UnloadFirst ==
    \/ /\ phase = "next" /\ targets = {}
       /\ opts.plugins /\ plugins # <<>>
       /\ Registry!UnloadAll
       /\ UNCHANGED <<phase, opts, targets, current, count, report>>
    \/ /\ phase = "unload"
       /\ phase' = "exited"
       /\ UNCHANGED <<opts, targets, current, count, report, registry>>

\* The register is cleared when plugins were requested.  Otherwise it goes when
\* the process ends, and the tree, a local of main(), before it.
Unload ==
    /\ phase = "unload"
    /\ IF opts.plugins THEN Registry!UnloadAll ELSE UNCHANGED registry
    /\ phase' = "exited"
    /\ UNCHANGED <<opts, targets, current, count, report>>

Ended ==
    /\ phase \in {"exited", "aborted"}
    /\ UNCHANGED vars

Step ==
    \/ LoadPlugins \/ PluginsLoaded \/ BadArguments \/ GoodArguments
    \/ OpenFile \/ Dump \/ DumpHashes \/ GetPlugins \/ NoPlugins
    \/ RunPlugins \/ EndOfFile \/ FinalFormat \/ Unload

Next == Step \/ PluginThrows \/ Ended

Spec == Init /\ [][Next]_vars

\* A single thread that never blocks.
FairSpec == Spec /\ WF_vars(Step)

-------------------------------------------------------------------------------
(* Properties.                                                             *)

\* The types: the report only has nodes that some option asks for, under the
\* files that were given (main.cpp:478-533).
TypeOK ==
    /\ phase \in {"load", "args", "next", "dump", "hashes", "plugins",
                  "analysis", "count", "unload", "exited", "aborted"}
    /\ opts \in Options
    /\ targets \in SUBSET Path
    /\ current \in [path : Path \cup {-1}, valid : BOOLEAN]
    /\ count \in Nat
    /\ root \in Seq(FileNode)
    /\ header \in BOOLEAN
    /\ plugins \in Seq([id : Id, lib : SUBSET Library])
    /\ open \subseteq Library
    /\ found \in [Path -> Seq(NodeName)]

Printed == {k \in DOMAIN out : out[k].tok = "file"}

\* Every file that has been analysed is in exactly one place, with everything
\* that was found in it: among the objects printed or among the file nodes
\* waiting for the next flush.  Files appear in the order of the target set.
NothingLostNorSplit ==
    /\ \A p \in Path : found[p] # <<>> =>
           \/ /\ \E k \in Printed : out[k].path = p
              /\ ~\E j \in DOMAIN root : root[j].path = p
           \/ /\ \E j \in DOMAIN root : root[j].path = p
              /\ ~\E k \in Printed : out[k].path = p
    /\ \A k \in Printed : out[k].nodes = found[out[k].path]
    /\ \A j \in DOMAIN root : root[j].nodes = found[root[j].path]
    /\ \A k, l \in Printed : k < l => out[k].path < out[l].path
    /\ \A j, m \in DOMAIN root : j < m => root[j].path < root[m].path
    /\ \A k \in Printed, j \in DOMAIN root : out[k].path < root[j].path

\* A JSON document: an opening brace, objects separated by commas, a closing
\* brace.
WellFormed(s) ==
    LET n == Len(s)
    IN  /\ n >= 2 /\ s[1] = Open /\ s[n] = Close
        /\ n > 2 => n % 2 = 1
        /\ \A k \in 2..(n - 1) : s[k].tok = (IF k % 2 = 0 THEN "file" ELSE ",")

\* The JSON output of a run that ends is a JSON document, whatever the number
\* of files (docs/interfacing.rst:127).
JsonWellFormed ==
    phase = "unload" /\ opts.json => WellFormed(out)

\* As long as no more than FlushEvery files are analysed, the document is well
\* formed, also when the last of them triggers an intermediate flush.
SmallJsonWellFormed ==
    phase = "unload" /\ opts.json /\ count <= FlushEvery => WellFormed(out)

\* While a library that was registered is closed, nothing is left that its code
\* has made: no instance of its plugin, for which a local variable calls its
\* destroyer, and no node in the tree (plugin_manager.cpp:24-69, main.cpp:357 and
\* 606-612).
NothingOutlivesLibrary ==
    /\ Registry!NoInstanceOutlivesLibrary
    /\ (\E j \in DOMAIN root : \E k \in DOMAIN root[j].nodes :
            root[j].nodes[k] = "Plugins") => history \subseteq open

\* A dynamic plugin never has the id of a plugin registered before it, and only
\* the libraries of registered plugins stay open (plugin_manager.cpp:56-67).
DynamicIdsAreUnique == Registry!DynamicIdsAreUnique

\* The program comes to an end, if no plugin runs for ever (main.cpp:537-619).
Terminates == <>(phase \in {"exited", "aborted"})
===============================================================================
