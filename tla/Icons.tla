-------------------------------- MODULE Icons ---------------------------------
(***************************************************************************)
(* Resource::interpret_as<pgroup_icon_directory> and reconstruct_icon: the *)
(* directory of a group of icons or cursors is read, and an .ico file is   *)
(* built: a header with one entry for each icon, then the icons.  The      *)
(* offset of an icon is written into its entry when the icon is appended.  *)
(***************************************************************************)
EXTENDS Integers, Sequences

CONSTANTS
    MaxIcons,    \* bound on Count
    IconSizes    \* sizes of icons

DirHeaderSize == 6    \* three uint16
IconEntrySize == 16   \* sizeof(group_icon_directory_entry)

VARIABLES
    pc,       \* "group", "entries", "build", or how it returned
    group,    \* the Type and the Count of the directory
    entries,  \* Entries read
    size,     \* the size of res
    icons,    \* for every icon appended: the offset in its entry and its size
    lost      \* res was cleared, because a cursor was not valid

vars == <<pc, group, entries, size, icons, lost>>

Init ==
    /\ pc = "group"
    /\ group = [type |-> 1, count |-> 0]
    /\ entries = 0 /\ size = 0
    /\ icons = <<>>
    /\ lost = FALSE

ReadGroup ==
    /\ pc = "group"
    /\ \E t \in {1, 2}, n \in 0..MaxIcons : group' = [type |-> t, count |-> n]
    /\ pc' = "entries"
    /\ UNCHANGED <<entries, size, icons, lost>>

ReadEntry ==
    /\ pc = "entries" /\ entries < group.count
    /\ entries' = entries + 1
    /\ UNCHANGED <<pc, group, size, icons, lost>>

\* Mutant: room is made for the entries that follow the first one only.
HeaderSizeShort(n) == IF n = 0 THEN DirHeaderSize ELSE DirHeaderSize + (n - 1) * IconEntrySize

\* The size of the header of the .ico file.
HeaderSize(n) == DirHeaderSize + n * IconEntrySize

\* The whole directory is there and the file has as many resources at least:
\* the header is made.
StartIcon ==
    /\ pc = "entries" /\ entries = group.count
    /\ size' = HeaderSize(group.count)
    /\ pc' = "build"
    /\ UNCHANGED <<group, entries, icons, lost>>

\* The directory or an icon cannot be read or found, or there are more entries
\* than resources: no icon.
Fail ==
    /\ \/ pc = "group"
       \/ pc = "entries"
       \/ pc = "build" /\ Len(icons) < group.count
    /\ pc' = "failed"
    /\ UNCHANGED <<group, entries, size, icons, lost>>

\* What is appended: a cursor has four bytes at its start that are left out.
Appended(bytes) == IF group.type = 1 THEN bytes ELSE bytes - 4

\* The entry of the next icon is written, with the size of res so far as its
\* offset, and the icon is appended.
AppendIcon ==
    /\ pc = "build" /\ Len(icons) < group.count
    /\ \E b \in IconSizes :
           /\ group.type = 2 => b > 4
           /\ icons' = Append(icons, [offset |-> size, size |-> Appended(b)])
           /\ size' = size + Appended(b)
    /\ UNCHANGED <<pc, group, entries, lost>>

\* A cursor that is too short, or that says so: res is cleared, and the loop goes
\* on.
RejectCursor ==
    /\ pc = "build" /\ Len(icons) < group.count
    /\ group.type = 2
    /\ icons' = Append(icons, [offset |-> size, size |-> 0])
    /\ size' = 0
    /\ lost' = TRUE
    /\ UNCHANGED <<pc, group, entries>>

EndIcon ==
    /\ pc = "build" /\ Len(icons) = group.count
    /\ pc' = "done"
    /\ UNCHANGED <<group, entries, size, icons, lost>>

Step ==
    \/ ReadGroup \/ ReadEntry \/ StartIcon \/ Fail
    \/ AppendIcon \/ RejectCursor \/ EndIcon

-------------------------------------------------------------------------------
(* Properties.                                                             *)

\* The types (resources.cpp:407-466 and 643-716).
TypeOK ==
    /\ pc \in {"group", "entries", "build", "done", "failed"}
    /\ entries \in 0..group.count
    /\ size \in Nat
    /\ Len(icons) <= group.count

\* Unless a cursor was rejected, the entries of all icons have room in the header,
\* the offset in each of them is where that icon is, and the icons follow each
\* other to the end of what is returned.  An entry is only written for an icon
\* that the directory has (resources.cpp:659-712).
IconsAreInPlace ==
    /\ icons # <<>> => entries = group.count
    /\ ~lost =>
           /\ \A k \in DOMAIN icons : icons[k].offset >= DirHeaderSize + IconEntrySize * group.count
           /\ \A k \in 1..(Len(icons) - 1) : icons[k].offset + icons[k].size = icons[k + 1].offset
           /\ icons # <<>> =>
                  icons[Len(icons)].offset + icons[Len(icons)].size = size
===============================================================================
