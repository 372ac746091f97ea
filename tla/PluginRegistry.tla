---------------------------- MODULE PluginRegistry ----------------------------
(***************************************************************************)
(* PluginManager: the static plugins are registered before main() starts;  *)
(* load_all then calls load for every shared library of a directory, in    *)
(* the order the file system gives.  A library is closed when the last     *)
(* pointer to it goes; an instance of a plugin is destroyed by a function  *)
(* of its library.  What owns them are the local variables of the function *)
(* that runs, which go in the reverse order of their declaration, and the  *)
(* entries of the register.                                                *)
(***************************************************************************)
EXTENDS Naturals, Sequences, SequencesExt

CONSTANTS
    Library,    \* the shared libraries of the directory
    Id,         \* the ids of plugins
    StaticId    \* those of the static plugins, in the order of registration

VARIABLES
    todo,       \* the libraries load_all has not yet come to
    at,         \* where load is: "idle" if it is not running
    test_id,    \* the id of the plugin that is tested
    locals,     \* the local variables and the libraries of what they own
    plugins,    \* _plugins: the ids, and the libraries of the dynamic ones
    open,       \* the libraries that are open
    history     \* history: the libraries that were ever registered

vars == <<todo, at, test_id, locals, plugins, open, history>>

None == "none"

Init ==
    /\ todo \in {{}, Library}              \* {}: there is no directory
    /\ at = "idle"
    /\ test_id = None
    /\ locals = <<>>
    /\ plugins = [k \in DOMAIN StaticId |-> [id |-> StaticId[k], lib |-> {}]]
    /\ open = {}
    /\ history = {}

Local(name, libs) == [name |-> name, libs |-> libs]

\* The library load is about.
Current == locals[1].libs

\* The libraries of the instances that get_plugins makes, one of each plugin.
Instances == UNION {plugins[k].lib : k \in DOMAIN plugins}

\* SharedLibrary::load.
OpenLibrary ==
    /\ at = "idle" /\ todo # {}
    /\ \E l \in todo :
           /\ todo' = todo \ {l}
           /\ open' = open \cup {l}
           /\ locals' = <<Local("lib", {l})>>
    /\ at' = "symbols"
    /\ UNCHANGED <<test_id, plugins, history>>

OpenFails ==
    /\ at = "idle"
    /\ \E l \in todo : todo' = todo \ {l}
    /\ UNCHANGED <<at, test_id, locals, plugins, open, history>>

\* create or destroy is missing.
NoSymbols ==
    /\ at = "symbols"
    /\ at' = "return"
    /\ UNCHANGED <<todo, test_id, locals, plugins, open, history>>

\* plugin, and test, which is an instance of it.
Instantiate ==
    /\ at = "symbols"
    /\ \E i \in Id : test_id' = i
    /\ locals' = locals \o <<Local("plugin", {}), Local("test", Current)>>
    /\ at' = "version"
    /\ UNCHANGED <<todo, plugins, open, history>>

WrongVersion ==
    /\ at = "version"
    /\ at' = "return"
    /\ UNCHANGED <<todo, test_id, locals, plugins, open, history>>

\* The version is right: loaded_plugins = get_plugins().
GetPlugins ==
    /\ at = "version"
    /\ locals' = Append(locals, Local("loaded_plugins", Instances))
    /\ at' = "compare"
    /\ UNCHANGED <<todo, test_id, plugins, open, history>>

\* Mutant: a plugin is compared with the last one that was registered only.
LoadedTwiceInARow ==
    \E k \in DOMAIN plugins : k = Len(plugins) /\ plugins[k].id = test_id

\* A plugin of that id is loaded already.
LoadedTwice == \E k \in DOMAIN plugins : plugins[k].id = test_id

Refuse ==
    /\ at = "compare" /\ LoadedTwice
    /\ at' = "return"
    /\ UNCHANGED <<todo, test_id, locals, plugins, open, history>>

\* The entry shares plugin and lib with the local variables.
Register ==
    /\ at = "compare" /\ ~LoadedTwice
    /\ plugins' = Append(plugins, [id |-> test_id, lib |-> Current])
    /\ history' = history \cup Current
    /\ at' = "return"
    /\ UNCHANGED <<todo, test_id, locals, open>>

\* Mutant: the library is declared last, so that it goes first.
DestroyLibraryFirst ==
    /\ at = "return" /\ locals # <<>>
    /\ locals' = Tail(locals)
    /\ open' = IF Head(locals).name = "lib"
               THEN open \ (Current \ Instances) ELSE open
    /\ UNCHANGED <<todo, at, test_id, plugins, history>>

\* load returns: the last of its local variables goes.  With lib the library is
\* closed, unless an entry has it.
DestroyLocal ==
    /\ at = "return" /\ locals # <<>>
    /\ locals' = Front(locals)
    /\ open' = IF Last(locals).name = "lib"
               THEN open \ (Current \ Instances) ELSE open
    /\ UNCHANGED <<todo, at, test_id, plugins, history>>

Return ==
    /\ at = "return" /\ locals = <<>>
    /\ at' = "idle" /\ test_id' = None
    /\ UNCHANGED <<todo, locals, plugins, open, history>>

\* load_all.
Load ==
    \/ OpenLibrary \/ OpenFails \/ NoSymbols \/ Instantiate \/ WrongVersion
    \/ GetPlugins \/ Refuse \/ Register \/ DestroyLocal \/ Return

Loaded == at = "idle" /\ todo = {}

\* unload_all: the entries go, and the libraries that only they have.
UnloadAll ==
    /\ plugins' = <<>>
    /\ open' = {}
    /\ UNCHANGED <<todo, at, test_id, locals, history>>

-------------------------------------------------------------------------------
(* Properties.                                                             *)

\* Every instance of a plugin that a local variable owns, also that of a plugin
\* that is refused, can still be destroyed: its library is open
\* (PluginManager::load, plugin_manager.cpp:24-69, and DynamicPlugin, plugin.h).
NoInstanceOutlivesLibrary ==
    \A k \in DOMAIN locals :
        locals[k].name # "lib" => locals[k].libs \subseteq open

\* A dynamic plugin never has the id of a plugin that was registered before it,
\* static or dynamic, and only libraries of registered plugins stay open
\* (plugin_manager.cpp:56-67).
DynamicIdsAreUnique ==
    /\ \A j, k \in DOMAIN plugins :
           (j < k /\ plugins[k].lib # {}) => plugins[j].id # plugins[k].id
    /\ (at = "idle" /\ locals = <<>>) => open = Instances
===============================================================================
