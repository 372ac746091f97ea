------------------------------ MODULE LoadConfig ------------------------------
(***************************************************************************)
(* PE::_parse_config and read_config_field: the load configuration, whose  *)
(* first field says how long the structure is.  Older structures end       *)
(* before the SafeSEH fields, newer ones go on with the fields of the      *)
(* control flow guard, read one after the other.                           *)
(*                                                                         *)
(* A field is described by the place in the structure its bytes were taken *)
(* from.                                                                   *)
(***************************************************************************)
EXTENDS Integers, Sequences

CONSTANTS
    Size,       \* the sizes the structure may claim
    Available   \* the bytes there may be between its start and the end of the file

VARIABLES
    field_size,  \* 4 in a PE32, 8 in a PE32+
    size,        \* config.Size
    available,   \* the bytes of the file from the start of the structure
    pc,          \* "fixed", "seh", "tail", "set" or "done"
    cursor,      \* the place of the file cursor in the structure
    read_bytes,  \* the number of bytes accounted for
    next,        \* the field of the tail that is tried next
    filled,      \* where the fields of the tail were read
    seh,         \* whether the SafeSEH fields were read
    config       \* whether _config was set

vars == <<field_size, size, available, pc, cursor, read_bytes, next, filled, seh, config>>

\* Mutant: GuardFlags is taken for a 16-bit field.
WidthsShortFlags ==
    LET f == field_size IN <<f, f, f, f, 2, 12, f, f, f, f>>

\* GuardCFCheckFunctionPointer, GuardCFDispatchFunctionPointer,
\* GuardCFFunctionTable, GuardCFFunctionCount, GuardFlags, CodeIntegrity,
\* GuardAddressTakenIatEntryTable and -Count, GuardLongJumpTargetTable and -Count.
Widths ==
    LET f == field_size IN <<f, f, f, f, 4, 12, f, f, f, f>>

FixedSize == 32 + 8 * field_size
SehSize   == 2 * field_size

Init ==
    /\ field_size \in {4, 8}
    /\ size \in Size
    /\ available \in Available
    /\ pc = "fixed"
    /\ cursor = 0
    /\ read_bytes = 0
    /\ next = 1
    /\ filled = <<>>
    /\ seh = FALSE
    /\ config = FALSE

\* The fields every structure has; if one cannot be read there is no config.
ReadFixed ==
    /\ pc = "fixed"
    /\ IF available >= FixedSize
       THEN cursor' = FixedSize /\ read_bytes' = FixedSize /\ pc' = "seh"
       ELSE cursor' = available /\ UNCHANGED read_bytes /\ pc' = "done"
    /\ UNCHANGED <<field_size, size, available, next, filled, seh, config>>

\* SafeSEH: absent from XP-era binaries, but accounted for in any case.
SkipSeh ==
    /\ pc = "seh" /\ size <= read_bytes
    /\ read_bytes' = read_bytes + SehSize
    /\ pc' = "tail"
    /\ UNCHANGED <<field_size, size, available, cursor, next, filled, seh, config>>

\* Mutant: the file ends in the SafeSEH fields, and the function goes on.
ReadSehUnchecked ==
    /\ pc = "seh" /\ size > read_bytes
    /\ seh' = (available >= cursor + SehSize)
    /\ cursor' = IF seh' THEN cursor + SehSize ELSE available
    /\ read_bytes' = read_bytes + SehSize
    /\ pc' = "tail"
    /\ UNCHANGED <<field_size, size, available, next, filled, config>>

ReadSeh ==
    /\ pc = "seh" /\ size > read_bytes
    /\ IF available >= cursor + SehSize
       THEN /\ cursor' = cursor + SehSize
            /\ read_bytes' = read_bytes + SehSize
            /\ seh' = TRUE
            /\ pc' = "tail"
       ELSE /\ cursor' = available
            /\ UNCHANGED <<read_bytes, seh>>
            /\ pc' = "done"
    /\ UNCHANGED <<field_size, size, available, next, filled, config>>

\* read_config_field returns false: the structure or the file ends before the
\* end of the field.  What fread got of it is consumed.
FieldFails ==
    /\ pc = "tail" /\ next <= Len(Widths)
    /\ LET w == Widths[next]
       IN  \/ /\ read_bytes + w > size
              /\ UNCHANGED cursor
           \/ /\ read_bytes + w <= size /\ cursor + w > available
              /\ cursor' = available
    /\ next' = next + 1
    /\ UNCHANGED <<field_size, size, available, pc, read_bytes, filled, seh, config>>

\* Mutant: the size of the structure is not looked at.
FieldReadUnbounded ==
    /\ pc = "tail" /\ next <= Len(Widths)
    /\ cursor + Widths[next] <= available
    /\ filled' = Append(filled, [field |-> next, at |-> cursor])
    /\ cursor' = cursor + Widths[next]
    /\ read_bytes' = read_bytes + Widths[next]
    /\ pc' = "set"
    /\ UNCHANGED <<field_size, size, available, next, seh, config>>

\* read_config_field returns true, which ends the chain of ||.
FieldRead ==
    /\ pc = "tail" /\ next <= Len(Widths)
    /\ read_bytes + Widths[next] <= size
    /\ cursor + Widths[next] <= available
    /\ filled' = Append(filled, [field |-> next, at |-> cursor])
    /\ cursor' = cursor + Widths[next]
    /\ read_bytes' = read_bytes + Widths[next]
    /\ pc' = "set"
    /\ UNCHANGED <<field_size, size, available, next, seh, config>>

ChainEnds ==
    /\ pc = "tail" /\ next > Len(Widths)
    /\ pc' = "set"
    /\ UNCHANGED <<field_size, size, available, cursor, read_bytes, next, filled, seh, config>>

\* _config.reset(config)
SetConfig ==
    /\ pc = "set"
    /\ config' = TRUE
    /\ pc' = "done"
    /\ UNCHANGED <<field_size, size, available, cursor, read_bytes, next, filled, seh>>

Returned ==
    /\ pc = "done"
    /\ UNCHANGED vars

Step == ReadFixed \/ SkipSeh \/ ReadSeh \/ FieldFails \/ FieldRead \/ ChainEnds
            \/ SetConfig

Next == Step \/ Returned

Spec == Init /\ [][Next]_vars

-------------------------------------------------------------------------------
(* Properties.                                                             *)

\* The types; the file cursor stays within the file (pe.cpp:918-1001).
TypeOK ==
    /\ field_size \in {4, 8}
    /\ pc \in {"fixed", "seh", "tail", "set", "done"}
    /\ cursor \in 0..available
    /\ read_bytes \in Nat
    /\ next \in 1..(Len(Widths) + 1)
    /\ filled \in Seq([field : 1..Len(Widths), at : Nat])
    /\ seh \in BOOLEAN /\ config \in BOOLEAN

\* The place of the k-th field of the tail in the structure.
Offset(k) ==
    LET f == field_size
    IN  <<FixedSize + SehSize, FixedSize + SehSize + f, FixedSize + SehSize + 2 * f,
          FixedSize + SehSize + 3 * f, FixedSize + SehSize + 4 * f,
          FixedSize + SehSize + 4 * f + 4, FixedSize + SehSize + 4 * f + 16,
          FixedSize + SehSize + 5 * f + 16, FixedSize + SehSize + 6 * f + 16,
          FixedSize + SehSize + 7 * f + 16>>[k]

\* Every field that lies within the structure and within the file is read: the
\* chain stops when a read fails, not before (pe.cpp:985-997).
TailIsRead ==
    config => \A k \in DOMAIN Widths :
        Offset(k) + Widths[k] <= size /\ Offset(k) + Widths[k] <= available
            => \E j \in DOMAIN filled : filled[j].field = k

\* A field of the guard is only filled with bytes that belong to the structure
\* and that follow the SafeSEH fields, even where those were skipped or the
\* first fields of the tail could not be read.
TailWithinStructure ==
    \A j \in DOMAIN filled :
        /\ seh
        /\ filled[j].at >= FixedSize + SehSize
        /\ filled[j].at + Widths[filled[j].field] <= size

\* In a PE32, where no field of the tail is narrower than the first, a field is
\* filled with its own bytes or not at all.
OwnBytesInPE32 ==
    field_size = 4 => \A j \in DOMAIN filled : filled[j].at = Offset(filled[j].field)

\* The configuration is all or nothing up to the tail: it is not published when
\* the file ends in the fixed part or in SafeSEH fields that Size announces.
ConfigIsWhole ==
    config => available >= FixedSize /\ (size > FixedSize => seh)
===============================================================================
