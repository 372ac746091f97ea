------------------------------ MODULE OutputTree ------------------------------
(***************************************************************************)
(* OutputTreeNode: the tree the analysis is collected in.  Nodes are       *)
(* shared pointers, so the tree is a heap: a node may be reached along     *)
(* several paths, and renaming it renames it on all of them.               *)
(*                                                                         *)
(* A heap is a sequence of nodes, a node is named by its position in it,   *)
(* and 0 is the null pointer.  A name is a record: what it is made of, and *)
(* the numbers of the suffixes " (#i)" that follow.                        *)
(***************************************************************************)
EXTENDS Integers, Sequences, Functions

Plain(base) == [base |-> base, index |-> 0, dup |-> <<>>]

\* Where a node of the given name comes first among the children of a list.
Matches(heap, list, name) ==
    {k \in DOMAIN heap[list].kids : heap[heap[list].kids[k]].name = name}

\* OutputTreeNode::find_node
FindNode(heap, list, name) ==
    LET at == Matches(heap, list, name)
    IN  IF at = {} THEN 0
        ELSE heap[list].kids[CHOOSE k \in at : \A j \in at : k <= j]

\* A new node that is in no list yet; it is the last one of the new heap.
NewNode(heap, name, value) ==
    Append(heap, [name |-> name, kids |-> <<>>, value |-> value])

\* A name followed by the suffix " (#i)".
Suffixed(name, i) == [name EXCEPT !.dup = Append(@, i)]

\* Mutant: only the name of the last sibling is compared.
AppendedNameOfLast(heap, list, name) ==
    LET kids == heap[list].kids
    IN  IF kids # <<>> /\ heap[kids[Len(kids)]].name = name
        THEN Suffixed(name, 2)
        ELSE name

\* The name a node has once it is appended: one pass over the siblings, which
\* tries the next number every time a sibling has the current name.
AppendedName(heap, list, name) ==
    LET kids == heap[list].kids
        pass[k \in 0..Len(kids)] ==
            IF k = 0 THEN [current |-> name, i |-> 2]
            ELSE IF heap[kids[k]].name = pass[k - 1].current
                 THEN [current |-> Suffixed(name, pass[k - 1].i),
                       i       |-> pass[k - 1].i + 1]
                 ELSE pass[k - 1]
    IN  pass[Len(kids)].current

\* OutputTreeNode::append of a node to a list.
AppendNode(heap, list, node) ==
    LET name == AppendedName(heap, list, heap[node].name)
    IN  [heap EXCEPT ![node].name = name, ![list].kids = Append(@, node)]

\* append(make_shared<OutputTreeNode>(name, value))
AppendNew(heap, list, name, value) ==
    LET h == NewNode(heap, name, value) IN AppendNode(h, list, Len(h))
===============================================================================
