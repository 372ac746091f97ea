----------------------------- MODULE ResourceTree -----------------------------
(***************************************************************************)
(* PE::_parse_resources: the three levels of the resource directory are    *)
(* walked and flattened into a list; then Resource::get_raw_data for every *)
(* resource of the list.                                                   *)
(*                                                                         *)
(* The section is made of blocks.  As a directory a block is broken, or a  *)
(* sequence of offsets of other blocks; as a data entry it is one of Data. *)
(* What a block contains is decided when it is first read and remembered.  *)
(* Offset 0 is the root; but a directory at offset 0 is not looked for, it *)
(* is read at the cursor, which is behind the block read before.           *)
(***************************************************************************)
EXTENDS Integers, Sequences, FiniteSets, SequencesExt

CONSTANTS
    Blocks,       \* the number of blocks that follow the root
    MaxEntries,   \* bound on the entries of a directory
    Places        \* places of resource data of a fitting size

\* A data entry that is cut off, one of size 0 or larger than the file, or a
\* resource.
Data == {"cut_off", "unfit"} \cup Places

Broken == <<-1>>
Directories == {Broken} \cup UNION {[1..n -> 0..Blocks] : n \in 0..MaxEntries}

VARIABLES
    pc,        \* "root", "walk", "raw", or how the parser returned
    cursor,    \* the block the file cursor is at; Blocks + 1 is no block
    dirs,      \* what is known of the directories in the file
    data,      \* what is known of the data entries in the file
    types, names, languages,   \* the entries of each level still to be visited
    resources, \* _resource_table
    handles    \* files left open, and allocations that were refused

vars == <<pc, cursor, dirs, data, types, names, languages, resources, handles>>

Unknown == Blocks + 1

Init ==
    /\ pc = "root" /\ cursor = 0
    /\ dirs = <<>> /\ data = <<>>
    /\ types = <<>> /\ names = <<>> /\ languages = <<>>
    /\ resources = <<>>
    /\ handles = [open |-> 0, refused |-> 0]

\* What a block of the file may contain, given what was read before.
Contents(known, b, all) == IF b \in DOMAIN known THEN {known[b]} ELSE all

\* What is read as a directory in the middle of a block: bound to few entries.
Stray == {c \in Directories : Len(c) <= 1}
Learn(known, b, c) == [x \in DOMAIN known \cup {b} |-> IF x = b THEN c ELSE known[x]]

\* Where a directory of that offset is read.
Block(offset) == IF offset = 0 THEN cursor ELSE offset

\* _read_image_resource_directory: the contents c of the directory at b.  A broken
\* one leaves the cursor in the middle of it or at the end of the file.
ReadDirectory(b, c) ==
    /\ c \in IF b = Unknown THEN Stray ELSE Contents(dirs, b, Directories)
    /\ dirs' = IF b = Unknown THEN dirs ELSE Learn(dirs, b, c)
    /\ cursor' = IF c = Broken \/ b = Unknown THEN Unknown ELSE b + 1

ReadRoot ==
    /\ pc = "root"
    /\ \E c \in Directories :
           /\ ReadDirectory(0, c)
           /\ IF c = Broken THEN pc' = "failed" /\ UNCHANGED types
                            ELSE pc' = "walk" /\ types' = c
    /\ UNCHANGED <<data, names, languages, resources, handles>>

\* The next entry of the root: a directory of the resources of one type.  A
\* broken one is skipped.
ReadType ==
    /\ pc = "walk" /\ languages = <<>> /\ names = <<>> /\ types # <<>>
    /\ types' = Tail(types)
    /\ \E c \in Directories :
           /\ ReadDirectory(Block(Head(types)), c)
           /\ names' = IF c = Broken THEN <<>> ELSE c
    /\ UNCHANGED <<pc, data, languages, resources, handles>>

\* Mutant: the walk does not come back to the names that follow.
ReadNameOnce ==
    /\ pc = "walk" /\ languages = <<>> /\ names # <<>>
    /\ names' = <<>>
    /\ \E c \in Directories :
           /\ ReadDirectory(Block(Head(names)), c)
           /\ languages' = IF c = Broken THEN <<>> ELSE c
    /\ UNCHANGED <<pc, data, types, resources, handles>>

ReadName ==
    /\ pc = "walk" /\ languages = <<>> /\ names # <<>>
    /\ names' = Tail(names)
    /\ \E c \in Directories :
           /\ ReadDirectory(Block(Head(names)), c)
           /\ languages' = IF c = Broken THEN <<>> ELSE c
    /\ UNCHANGED <<pc, data, types, resources, handles>>


\* The data entries that become resources, if there is no resource of that place
\* and size yet.
Kept(d) == d \in Places

\* A data entry is read at its own offset, 0 included.
ReadDataEntry ==
    /\ pc = "walk" /\ languages # <<>>
    /\ \E d \in Contents(data, Head(languages), Data) :
           /\ d # "cut_off"
           /\ data' = Learn(data, Head(languages), d)
           /\ resources' = IF Kept(d) /\ d \notin Range(resources)
                           THEN Append(resources, d) ELSE resources
    /\ languages' = Tail(languages)
    /\ cursor' = Unknown
    /\ UNCHANGED <<pc, dirs, types, names, handles>>

\* One that cannot be read ends the walk of the whole tree.
DataEntryFails ==
    /\ pc = "walk" /\ languages # <<>>
    /\ "cut_off" \in Contents(data, Head(languages), Data)
    /\ data' = Learn(data, Head(languages), "cut_off")
    /\ languages' = <<>> /\ names' = <<>> /\ types' = <<>>
    /\ UNCHANGED <<pc, cursor, dirs, resources, handles>>

EndWalk ==
    /\ pc = "walk" /\ languages = <<>> /\ names = <<>> /\ types = <<>>
    /\ pc' = "raw" /\ cursor' = 0
    /\ UNCHANGED <<dirs, data, types, names, languages, resources, handles>>

\* get_raw_data of the next resource, cursor counts them: the file is opened, if
\* it can be, and closed again.  The two early returns do not close it: that for a
\* resource larger than the file, and that for an allocation that is refused.
GetRawData ==
    /\ pc = "raw" /\ cursor < Len(resources)
    /\ cursor' = cursor + 1
    /\ \/ resources[cursor'] # "unfit" /\ UNCHANGED handles
       \/ handles' = [handles EXCEPT !.open = @ + 1,
                                     !.refused = @ + (IF resources[cursor'] = "unfit"
                                                      THEN 0 ELSE 1)]
    /\ UNCHANGED <<pc, dirs, data, types, names, languages, resources>>

EndRawData ==
    /\ pc = "raw" /\ cursor = Len(resources)
    /\ pc' = "done"
    /\ UNCHANGED <<cursor, dirs, data, types, names, languages, resources, handles>>

Step ==
    \/ ReadRoot \/ ReadType \/ ReadName \/ ReadDataEntry \/ DataEntryFails
    \/ EndWalk \/ GetRawData \/ EndRawData

-------------------------------------------------------------------------------
(* Properties.                                                             *)

\* The types (resources.cpp:27-305).
TypeOK ==
    /\ cursor \in Nat
    /\ DOMAIN dirs \cup DOMAIN data \subseteq 0..Blocks
    /\ \A b \in DOMAIN dirs : dirs[b] \in Directories
    /\ handles.open \in Nat

\* No directory that is looked at below the root has offset 0, which is the case
\* in every file a linker writes.
NoOffsetZero ==
    \A b \in DOMAIN dirs :
        \A k \in DOMAIN dirs[b] : dirs[b][k] # 0

\* The tree as the file describes it: the offsets of the data entries, in the
\* order of the three levels.
Entries(b) == IF b \in DOMAIN dirs /\ dirs[b] # Broken THEN dirs[b] ELSE <<>>
Below(s) == FlattenSeq([k \in DOMAIN s |-> Entries(s[k])])
Flattened == Below(Below(Entries(0)))

\* The data entries up to the first one that is cut off.
Reached ==
    LET cut == SelectInSeq(Flattened, LAMBDA o : o \in DOMAIN data => data[o] = "cut_off")
    IN  IF cut = 0 THEN Flattened ELSE SubSeq(Flattened, 1, cut - 1)

\* The resources of a sequence of data entries, each place where it is first seen.
FirstSeen(d) == {k \in DOMAIN d : d[k] \in Places /\ \A j \in 1..(k - 1) : d[j] # d[k]}
Once(d) ==
    LET first == FirstSeen(d)
    IN  [i \in 1..Cardinality(first) |->
            d[CHOOSE k \in first : Cardinality({j \in first : j <= k}) = i]]

\* The resources that the tree describes.
Expected == Once([k \in DOMAIN Reached |-> data[Reached[k]]])

\* Unless a data entry cut the walk off, every directory and every data entry that
\* the tree leads to was read.
NothingPassedOver ==
    "cut_off" \notin Range(data) =>
        /\ Range(Entries(0)) \cup Range(Below(Entries(0))) \subseteq DOMAIN dirs
        /\ Range(Flattened) \subseteq DOMAIN data

\* get_raw_data leaves a file open for every allocation that is refused, and no
\* other (resources.cpp:263-305).
FilesAreClosed == handles.open = handles.refused

\* No place is listed twice, and none that is not within the file.
ListedOnce ==
    /\ Range(resources) \subseteq Places
    /\ \A j, k \in DOMAIN resources : j # k => resources[j] # resources[k]

\* The list that the walk leaves is the tree of the file, flattened in order and
\* without repetitions, up to the first data entry that cannot be read; no other
\* error loses anything but the directory it is in, and what is larger than the
\* file is not in it (resources.cpp:114-257).  So get_raw_data, which returns
\* early for a resource larger than the file, leaves no file open unless an
\* allocation is refused (resources.cpp:263-305).  A directory at offset 0 may be
\* read from anywhere (resources.cpp:34): then the list is not that of the tree,
\* and all that is left is that nothing is in it twice or beyond the file.
WalkMatchesTree ==
    /\ (pc \in {"raw", "done"} /\ NoOffsetZero) =>
           NothingPassedOver /\ resources = Expected
    /\ ListedOnce
    /\ FilesAreClosed
===============================================================================
