----------------------------- MODULE PluginReport -----------------------------
(***************************************************************************)
(* What `manalyze --plugins=...` promises for one file, with no thread in  *)
(* sight: every selected plugin is run to an outcome, and the "Plugins"    *)
(* node of the report holds the output of those that found something, in   *)
(* the order in which the plugins are registered.  If one of the plugins   *)
(* throws, the process stops and the file has no report.                   *)
(***************************************************************************)
EXTENDS Integers, Sequences

CONSTANT N   \* number of registered plugins; plugin i is the i-th registered

VARIABLES
    selected,   \* the plugins named on the command line
    outcome,    \* what analyze() gave for each plugin
    node,       \* the plugins in the "Plugins" node, in order
    status      \* "running", "published" or "aborted"

vars == <<selected, outcome, node, status>>

Instance == 1..N

\* "null": no Result at all; "empty": a Result without information.
Outcome == {"null", "empty", "info"}

Informative == {i \in selected : outcome[i] = "info"}

\* s lists the elements of S, a set of plugins, in registration order.
InOrder(s, S) ==
    /\ {s[k] : k \in DOMAIN s} = S
    /\ \A k, l \in DOMAIN s : k < l => s[k] < s[l]

Init ==
    /\ selected \in SUBSET Instance
    /\ outcome = [i \in Instance |-> "unset"]
    /\ node = <<>>
    /\ status = "running"

Analyse(i) ==
    /\ status = "running"
    /\ i \in selected
    /\ outcome[i] = "unset"
    /\ \E o \in Outcome : outcome' = [outcome EXCEPT ![i] = o]
    /\ UNCHANGED <<selected, node, status>>

Publish ==
    /\ status = "running"
    /\ \A i \in selected : outcome[i] # "unset"
    /\ node' \in UNION {[1..n -> Instance] : n \in 0..N}
    /\ InOrder(node', Informative)
    /\ status' = "published"
    /\ UNCHANGED <<selected, outcome>>

Abort ==
    /\ status = "running"
    /\ status' = "aborted"
    /\ UNCHANGED <<selected, outcome, node>>

Next ==
    \/ \E i \in Instance : Analyse(i)
    \/ Publish
    \/ Abort

Spec == Init /\ [][Next]_vars
===============================================================================
