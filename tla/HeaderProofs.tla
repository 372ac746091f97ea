----------------------------- MODULE HeaderProofs -----------------------------
(***************************************************************************)
(* Proofs about the headers of a PE, the translation of addresses, the     *)
(* load configuration and the rich header: for every size of the file and  *)
(* every number in it.                                                     *)
(***************************************************************************)
EXTENDS DirectoriesProofs

-------------------------------------------------------------------------------
(* The load configuration.                                                 *)

\* The inductive invariant.  The number of bytes accounted for is exact up to the
\* tail; the tail is only entered with all SafeSEH fields read, or with a Size
\* that has no room for any field of it; there the cursor is at the first field
\* or at the end of the file.  In a PE32, once a field of the tail has failed, no
\* later one can be read, since none is narrower.
ConfInv ==
    /\ Conf!TypeOK
    /\ size \in Nat /\ available \in Nat
    /\ pc = "fixed" => cursor = 0
    /\ pc \in {"fixed", "seh"} => ~seh /\ next = 1
    /\ pc \in {"fixed", "seh", "tail"} => filled = <<>>
    /\ pc # "done" => ~config
    /\ pc = "seh" => cursor = Conf!FixedSize /\ read_bytes = Conf!FixedSize
    /\ pc \in {"seh", "tail", "set"} => available >= Conf!FixedSize
    /\ pc \in {"tail", "set"} => (seh <=> size > Conf!FixedSize)
    /\ pc = "tail" =>
           /\ read_bytes = Conf!FixedSize + Conf!SehSize
           /\ seh => cursor \in {Conf!FixedSize + Conf!SehSize, available}
           /\ field_size = 4 /\ next > 1 => read_bytes + 4 > size \/ cursor + 4 > available
    /\ Conf!TailWithinStructure
    /\ Conf!OwnBytesInPE32
    /\ Conf!ConfigIsWhole

ConfOK == directory = "config" => ConfInv

\* The fields of the tail: there are ten of them, none is narrower than 4 bytes,
\* and in a PE32 none is narrower than the first one.
LEMMA ConfWidths ==
    ASSUME field_size \in {4, 8}
    PROVE  /\ Len(Conf!Widths) = 10 /\ DOMAIN Conf!Widths = 1..10
           /\ \A k \in 1..10 : Conf!Widths[k] \in {4, 8, 12}
           /\ Conf!Offset(1) = Conf!FixedSize + Conf!SehSize
  <1>1. Len(Conf!Widths) = 10 /\ DOMAIN Conf!Widths = 1..10
    BY DEF Conf!Widths
  <1>2. \A k \in 1..10 : Conf!Widths[k] \in {4, 8, 12}
    BY DEF Conf!Widths
  <1>3. Conf!Offset(1) = Conf!FixedSize + Conf!SehSize
    BY DEF Conf!Offset
  <1> QED
    BY <1>1, <1>2, <1>3

\* The types, with the lengths filled in.
LEMMA ConfTypes ==
    ASSUME ConfInv
    PROVE  /\ field_size \in {4, 8} /\ size \in Nat /\ available \in Nat
           /\ cursor \in 0..available /\ read_bytes \in Nat /\ next \in 1..11
           /\ seh \in BOOLEAN /\ config \in BOOLEAN
           /\ Conf!FixedSize \in {64, 96} /\ Conf!SehSize \in {8, 16}
  <1>1. field_size \in {4, 8} /\ next \in 1..(Len(Conf!Widths) + 1)
    BY DEF ConfInv, Conf!TypeOK
  <1>2. Len(Conf!Widths) = 10
    BY <1>1, ConfWidths
  <1>3. size \in Nat /\ available \in Nat /\ cursor \in 0..available /\ read_bytes \in Nat
    BY DEF ConfInv, Conf!TypeOK
  <1>4. seh \in BOOLEAN /\ config \in BOOLEAN
    BY DEF ConfInv, Conf!TypeOK
  <1>5. Conf!FixedSize \in {64, 96} /\ Conf!SehSize \in {8, 16}
    BY <1>1 DEF Conf!FixedSize, Conf!SehSize
  <1> QED
    BY <1>1, <1>2, <1>3, <1>4, <1>5

\* ConfInv is true when _parse_config is entered.
LEMMA ConfInit ==
    ASSUME Conf!Init
    PROVE  ConfInv
  <1>1. field_size \in {4, 8} /\ size \in Nat /\ available \in Nat
    BY ConfigAssumption DEF Conf!Init
  <1>2. Conf!TypeOK
    <2>1. Len(Conf!Widths) = 10
      BY <1>1, ConfWidths
    <2>2. filled \in Seq([field : 1..Len(Conf!Widths), at : Nat])
      BY DEF Conf!Init
    <2>3. seh \in BOOLEAN /\ config \in BOOLEAN
      BY DEF Conf!Init
    <2> QED
      BY <1>1, <2>1, <2>2, <2>3 DEF Conf!Init, Conf!TypeOK
  <1>3. filled = <<>> /\ ~config /\ ~seh /\ pc = "fixed" /\ cursor = 0 /\ next = 1
    BY DEF Conf!Init
  <1>4. Conf!TailWithinStructure /\ Conf!OwnBytesInPE32 /\ Conf!ConfigIsWhole
    BY <1>3 DEF Conf!TailWithinStructure, Conf!OwnBytesInPE32, Conf!ConfigIsWhole
  <1> QED
    BY <1>1, <1>2, <1>3, <1>4 DEF ConfInv

\* Reading the fields that every structure has keeps ConfInv.
LEMMA ConfReadFixed ==
    ASSUME ConfInv, Conf!ReadFixed
    PROVE  ConfInv'
  <1>1. /\ pc = "fixed" /\ cursor = 0
        /\ UNCHANGED <<field_size, size, available, next, filled, seh, config>>
    BY DEF Conf!ReadFixed, ConfInv
  <1>2. field_size \in {4, 8} /\ available \in Nat /\ ~seh /\ filled = <<>> /\ ~config
    BY <1>1 DEF ConfInv, Conf!TypeOK
  <1>3. UNCHANGED <<Conf!FixedSize, Conf!SehSize, Conf!Widths>> /\ Conf!FixedSize \in {64, 96}
    BY <1>1, <1>2 DEF Conf!FixedSize, Conf!SehSize, Conf!Widths
  <1>4. \/ available >= Conf!FixedSize /\ cursor' = Conf!FixedSize
               /\ read_bytes' = Conf!FixedSize /\ pc' = "seh"
        \/ cursor' = available /\ read_bytes' = read_bytes /\ pc' = "done"
    BY DEF Conf!ReadFixed
  <1>5. Conf!TypeOK'
    BY <1>1, <1>2, <1>3, <1>4 DEF ConfInv, Conf!TypeOK
  <1>6. Conf!TailWithinStructure' /\ Conf!OwnBytesInPE32' /\ Conf!ConfigIsWhole'
    BY <1>1, <1>2 DEF Conf!TailWithinStructure, Conf!OwnBytesInPE32, Conf!ConfigIsWhole
  <1> QED
    BY <1>1, <1>2, <1>3, <1>4, <1>5, <1>6 DEF ConfInv

\* Reading or skipping the SafeSEH fields keeps ConfInv.
LEMMA ConfSeh ==
    ASSUME ConfInv, Conf!SkipSeh \/ Conf!ReadSeh
    PROVE  ConfInv'
  <1>1. /\ pc = "seh" /\ cursor = Conf!FixedSize /\ read_bytes = Conf!FixedSize
        /\ available >= Conf!FixedSize
        /\ UNCHANGED <<field_size, size, available, next, filled, config>>
    BY DEF Conf!SkipSeh, Conf!ReadSeh, ConfInv
  <1>2. /\ field_size \in {4, 8} /\ available \in Nat /\ size \in Nat
        /\ ~seh /\ seh \in BOOLEAN /\ filled = <<>> /\ ~config /\ next = 1
    BY <1>1 DEF ConfInv, Conf!TypeOK
  <1>3. UNCHANGED <<Conf!FixedSize, Conf!SehSize, Conf!Widths>>
        /\ Conf!FixedSize \in {64, 96} /\ Conf!SehSize \in {8, 16}
    BY <1>1, <1>2 DEF Conf!FixedSize, Conf!SehSize, Conf!Widths
  <1>4. \/ size <= Conf!FixedSize /\ cursor' = cursor /\ seh' = seh /\ pc' = "tail"
               /\ read_bytes' = Conf!FixedSize + Conf!SehSize
        \/ size > Conf!FixedSize /\ available >= Conf!FixedSize + Conf!SehSize
               /\ cursor' = Conf!FixedSize + Conf!SehSize /\ seh' = TRUE /\ pc' = "tail"
               /\ read_bytes' = Conf!FixedSize + Conf!SehSize
        \/ cursor' = available /\ seh' = seh /\ pc' = "done" /\ read_bytes' = read_bytes
    BY <1>1 DEF Conf!SkipSeh, Conf!ReadSeh
  <1>5. Conf!TypeOK'
    <2>1. seh' \in BOOLEAN
      BY <1>2, <1>4
    <2> QED
      BY <1>1, <1>2, <1>3, <1>4, <2>1 DEF ConfInv, Conf!TypeOK
  <1>6. Conf!TailWithinStructure' /\ Conf!OwnBytesInPE32' /\ Conf!ConfigIsWhole'
    BY <1>1, <1>2 DEF Conf!TailWithinStructure, Conf!OwnBytesInPE32, Conf!ConfigIsWhole
  <1>7. /\ pc' \in {"tail", "done"} /\ filled' = <<>> /\ ~config' /\ next' = 1
        /\ size' \in Nat /\ available' \in Nat /\ available' >= Conf!FixedSize'
    BY <1>1, <1>2, <1>3, <1>4
  <1>8. pc' = "tail" =>
            /\ seh' <=> size' > Conf!FixedSize'
            /\ read_bytes' = Conf!FixedSize' + Conf!SehSize'
            /\ seh' => cursor' = Conf!FixedSize' + Conf!SehSize'
    BY <1>1, <1>2, <1>3, <1>4
  <1> QED
    BY <1>5, <1>6, <1>7, <1>8 DEF ConfInv

\* A field that cannot be read keeps ConfInv.
LEMMA ConfFieldFails ==
    ASSUME ConfInv, Conf!FieldFails
    PROVE  ConfInv'
  <1>1. /\ pc = "tail" /\ next <= Len(Conf!Widths) /\ next' = next + 1
        /\ UNCHANGED <<field_size, size, available, pc, read_bytes, filled, seh, config>>
    BY DEF Conf!FieldFails
  <1>2. /\ field_size \in {4, 8} /\ available \in Nat /\ size \in Nat
        /\ cursor \in 0..available /\ read_bytes \in Nat /\ next \in 1..11
    BY ConfTypes
  <1> DEFINE w == Conf!Widths[next]
  <1>a. Len(Conf!Widths) = 10 /\ next \in 1..10
    <2>1. Len(Conf!Widths) = 10
      BY <1>2, ConfWidths
    <2> QED
      BY <1>1, <1>2, <2>1
  <1>b. w \in {4, 8, 12}
    BY <1>2, <1>a, ConfWidths
  <1>3. UNCHANGED <<Conf!FixedSize, Conf!SehSize, Conf!Widths>>
    BY <1>1 DEF Conf!FixedSize, Conf!SehSize, Conf!Widths
  <1>4. \/ read_bytes + w > size /\ cursor' = cursor
        \/ cursor + w > available /\ cursor' = available
    BY DEF Conf!FieldFails
  <1>c. field_size = 4 /\ next = 1 => w = 4
    BY DEF Conf!Widths
  <1> HIDE DEF w
  <1>5. PICK c \in Nat : c = cursor'
    BY <1>2, <1>4
  <1>d. /\ c \in 0..available /\ c >= cursor
        /\ \/ read_bytes + w > size /\ c = cursor
           \/ cursor + w > available /\ c = available
    BY <1>2, <1>4, <1>5
  <1>6. Conf!TypeOK'
    <2>1. seh' \in BOOLEAN /\ config' \in BOOLEAN
      BY <1>1, ConfTypes
    <2>2. filled' \in Seq([field : 1..Len(Conf!Widths'), at : Nat])
      BY <1>1, <1>3 DEF ConfInv, Conf!TypeOK
    <2>3. cursor' \in 0..available'
      BY <1>1, <1>5, <1>d
    <2>4. next' \in 1..(Len(Conf!Widths') + 1)
      <3>1. Len(Conf!Widths') = 10
        BY <1>a, <1>3
      <3> QED
        BY <1>1, <1>a, <3>1
    <2> QED
      BY <1>1, <1>2, <2>1, <2>2, <2>3, <2>4 DEF Conf!TypeOK
  <1>7. field_size = 4 => read_bytes + 4 > size \/ c + 4 > available
    <2>1. CASE next = 1
      BY <1>2, <1>b, <1>c, <1>d, <2>1
    <2>2. CASE next > 1
      <3>1. field_size = 4 => read_bytes + 4 > size \/ cursor + 4 > available
        BY <1>1, <2>2 DEF ConfInv
      <3> QED
        BY <1>2, <1>d, <3>1
    <2> QED
      BY <1>2, <2>1, <2>2
  <1>8. filled = <<>> /\ ~config /\ read_bytes = Conf!FixedSize + Conf!SehSize
    BY <1>1 DEF ConfInv
  <1>9. Conf!TailWithinStructure' /\ Conf!OwnBytesInPE32' /\ Conf!ConfigIsWhole'
    BY <1>1, <1>8 DEF Conf!TailWithinStructure, Conf!OwnBytesInPE32, Conf!ConfigIsWhole
  <1>10. seh' => cursor' \in {Conf!FixedSize' + Conf!SehSize', available'}
    BY <1>1, <1>3, <1>4 DEF ConfInv
  <1>11. available' >= Conf!FixedSize' /\ (seh' <=> size' > Conf!FixedSize')
    BY <1>1, <1>3 DEF ConfInv
  <1> QED
    BY <1>1, <1>2, <1>3, <1>5, <1>6, <1>7, <1>8, <1>9, <1>10, <1>11 DEF ConfInv

\* A field of the tail that is read keeps ConfInv: there is room for it in the
\* structure only if the SafeSEH fields were read, and in a PE32 it is the first.
LEMMA ConfFieldRead ==
    ASSUME ConfInv, Conf!FieldRead
    PROVE  ConfInv'
  <1> DEFINE new == [field |-> next, at |-> cursor]
  <1>1. /\ pc = "tail" /\ pc' = "set" /\ next <= Len(Conf!Widths)
        /\ filled' = Append(filled, new)
        /\ UNCHANGED <<field_size, size, available, next, seh, config>>
    BY DEF Conf!FieldRead
  <1>2. /\ field_size \in {4, 8} /\ available \in Nat /\ size \in Nat
        /\ cursor \in 0..available /\ read_bytes \in Nat /\ next \in 1..11
        /\ Conf!FixedSize \in {64, 96} /\ Conf!SehSize \in {8, 16}
    BY ConfTypes
  <1> DEFINE w == Conf!Widths[next]
  <1>a. Len(Conf!Widths) = 10 /\ next \in 1..10
    <2>1. Len(Conf!Widths) = 10
      BY <1>2, ConfWidths
    <2> QED
      BY <1>1, <1>2, <2>1
  <1>b. w \in {4, 8, 12}
    BY <1>2, <1>a, ConfWidths
  <1>3. UNCHANGED <<Conf!FixedSize, Conf!SehSize, Conf!Widths>>
    BY <1>1 DEF Conf!FixedSize, Conf!SehSize, Conf!Widths
  <1>4. /\ read_bytes + w <= size /\ cursor + w <= available
        /\ cursor' = cursor + w /\ read_bytes' = read_bytes + w
    BY DEF Conf!FieldRead
  <1> HIDE DEF w
  <1>0. filled = <<>> /\ filled' = <<new>> /\ ~config
        /\ read_bytes = Conf!FixedSize + Conf!SehSize
    BY <1>1 DEF ConfInv
  <1>5. Conf!TypeOK'
    <2>0. Len(Conf!Widths') = 10
      BY <1>a, <1>3
    <2>1. new \in [field : 1..Len(Conf!Widths'), at : Nat]
      BY <1>2, <1>a, <2>0
    <2>2. filled' \in Seq([field : 1..Len(Conf!Widths'), at : Nat])
      BY <1>0, <2>1
    <2>3. seh' \in BOOLEAN /\ config' \in BOOLEAN
      BY <1>1, ConfTypes
    <2>4. cursor' \in 0..available' /\ read_bytes' \in Nat
      BY <1>1, <1>2, <1>b, <1>4
    <2>5. next' \in 1..(Len(Conf!Widths') + 1)
      BY <1>1, <1>a, <2>0
    <2> QED
      BY <1>1, <1>2, <2>2, <2>3, <2>4, <2>5 DEF Conf!TypeOK
  <1>6. seh
    BY <1>0, <1>1, <1>2, <1>b, <1>4 DEF ConfInv
  <1>7. cursor = Conf!FixedSize + Conf!SehSize
    <2>1. cursor # available
      BY <1>2, <1>b, <1>4
    <2> QED
      BY <1>1, <1>6, <2>1 DEF ConfInv
  <1>8. field_size = 4 => next = 1
    BY <1>0, <1>1, <1>2, <1>b, <1>4 DEF ConfInv
  <1>9. DOMAIN filled' = {1} /\ filled'[1] = new /\ new.field = next /\ new.at = cursor
    BY <1>0
  <1> HIDE DEF new
  <1>10. Conf!TailWithinStructure'
    <2>1. new.at + Conf!Widths'[new.field] <= size
      BY <1>0, <1>3, <1>4, <1>7, <1>9 DEF w
    <2>2. new.at >= Conf!FixedSize' + Conf!SehSize'
      BY <1>2, <1>3, <1>7, <1>9
    <2> QED
      BY <1>1, <1>6, <1>9, <2>1, <2>2 DEF Conf!TailWithinStructure
  <1>11. Conf!OwnBytesInPE32'
    <2>1. field_size = 4 => new.at = Conf!Offset(1)'
      BY <1>1, <1>2, <1>3, <1>7, <1>9, ConfWidths DEF Conf!Offset
    <2> QED
      BY <1>1, <1>8, <1>9, <2>1 DEF Conf!OwnBytesInPE32
  <1>12. Conf!ConfigIsWhole'
    BY <1>0, <1>1 DEF Conf!ConfigIsWhole
  <1>13. available' >= Conf!FixedSize' /\ (seh' <=> size' > Conf!FixedSize')
    BY <1>1, <1>3 DEF ConfInv
  <1> QED
    BY <1>0, <1>1, <1>2, <1>5, <1>10, <1>11, <1>12, <1>13 DEF ConfInv

\* The end of the chain and the assignment of _config keep ConfInv.
LEMMA ConfReturn ==
    ASSUME ConfInv, Conf!ChainEnds \/ Conf!SetConfig
    PROVE  ConfInv'
  <1>1. /\ UNCHANGED <<field_size, size, available, cursor, read_bytes, next, filled, seh>>
        /\ \/ pc = "tail" /\ pc' = "set" /\ config' = config
           \/ pc = "set" /\ pc' = "done" /\ config'
        /\ config' \in {config, TRUE}
    BY DEF Conf!ChainEnds, Conf!SetConfig
  <1>2. UNCHANGED <<Conf!FixedSize, Conf!SehSize, Conf!Widths>>
    BY <1>1 DEF Conf!FixedSize, Conf!SehSize, Conf!Widths
  <1>3. config' \in BOOLEAN
    BY <1>1, ConfTypes
  <1>4. Conf!TypeOK'
    BY <1>1, <1>2, <1>3 DEF ConfInv, Conf!TypeOK
  <1>5. Conf!TailWithinStructure' /\ Conf!OwnBytesInPE32'
    BY <1>1, <1>2 DEF ConfInv, Conf!TailWithinStructure, Conf!OwnBytesInPE32, Conf!Offset
  <1>6. available' >= Conf!FixedSize' /\ (seh' <=> size' > Conf!FixedSize')
    BY <1>1, <1>2 DEF ConfInv
  <1>7. Conf!ConfigIsWhole'
    BY <1>6 DEF Conf!ConfigIsWhole
  <1>8. pc' = "set" => ~config'
    BY <1>1 DEF ConfInv
  <1> QED
    BY <1>1, <1>4, <1>5, <1>6, <1>7, <1>8 DEF ConfInv

\* Nothing but _parse_config touches what ConfInv speaks of.
LEMMA ConfUntouched ==
    ASSUME ConfInv, UNCHANGED <<pc, cursor, configVars>>
    PROVE  ConfInv'
  <1>1. UNCHANGED <<field_size, size, available, pc, cursor, read_bytes, next, filled, seh, config>>
    BY DEF configVars
  <1>2. UNCHANGED <<Conf!FixedSize, Conf!SehSize, Conf!Widths>>
    BY <1>1 DEF Conf!FixedSize, Conf!SehSize, Conf!Widths
  <1>3. Conf!TypeOK'
    BY <1>1, <1>2 DEF ConfInv, Conf!TypeOK
  <1>4. Conf!TailWithinStructure' /\ Conf!OwnBytesInPE32' /\ Conf!ConfigIsWhole'
    BY <1>1, <1>2 DEF ConfInv, Conf!TailWithinStructure, Conf!OwnBytesInPE32, Conf!Offset,
        Conf!ConfigIsWhole
  <1> QED
    BY <1>1, <1>2, <1>3, <1>4 DEF ConfInv

\* ConfOK holds in every state.
LEMMA ConfAlways == Spec => []ConfOK
  <1>1. Init => ConfOK
    BY ConfInit DEF Init, ConfOK
  <1>2. ConfOK /\ [Next]_vars => ConfOK'
    <2> SUFFICES ASSUME ConfOK, [Next]_vars, directory' = "config"
                 PROVE  ConfInv'
      BY DEF ConfOK
    <2>1. ConfInv /\ (Conf!Step \/ UNCHANGED vars)
      BY OneParser DEF ConfOK
    <2>2. CASE Conf!Step
      BY <2>1, <2>2, ConfReadFixed, ConfSeh, ConfFieldFails, ConfFieldRead, ConfReturn
      DEF Conf!Step
    <2>3. CASE UNCHANGED vars
      BY <2>1, <2>3, ConfUntouched DEF vars
    <2> QED
      BY <2>1, <2>2, <2>3
  <1> QED
    BY <1>1, <1>2, PTL DEF Spec

\* For every Size of the structure and every end of the file, _parse_config
\* publishes a configuration that is whole up to its tail, and fills a field of
\* the tail only with bytes of the structure that follow the SafeSEH fields.
THEOREM ConfigWithinStructure == Spec => []ConfigTailWithinStructure
  <1>1. ConfOK => ConfigTailWithinStructure
    BY DEF ConfOK, ConfInv, ConfigTailWithinStructure
  <1> QED
    BY <1>1, ConfAlways, PTL

\* For every Size of the structure and every end of the file, read_config_field
\* fills a field of the tail of a PE32 with that field's own bytes.
THEOREM ConfigOwnBytes == Spec => []ConfigOwnBytesInPE32
  <1>1. ConfOK => ConfigOwnBytesInPE32
    BY DEF ConfOK, ConfInv, ConfigOwnBytesInPE32
  <1> QED
    BY <1>1, ConfAlways, PTL

-------------------------------------------------------------------------------
(* The headers.                                                            *)

\* The types of what the constructor keeps.
HdrTypes ==
    /\ table \in FileSizes /\ table \in Nat /\ cursor \in Nat
    /\ header \in [lfanew : Nat, optional : Nat, sections : Nat,
                   symbols : 0..MaxSymbols, pointer : Nat]
    /\ values \in Seq([announced : Nat, read : Nat])
    /\ kept \in Seq([index : Int, name : Int])
    /\ count \in Nat /\ count <= header.symbols
    /\ item \in [size : StringSizes \cup {0}, count : Nat]
    /\ file \in Seq(Nat)
    /\ read \in BOOLEAN

\* The parts of the constructor before and after _initialized is set.
Before == {"dos", "pe", "optional", "directories", "reach_sections", "sections", "failed"}
After  == {"coff", "symbols", "strings", "done"}

\* The optional header is there exactly if it has a size, with all its directories,
\* and it lies within the file.
OptionalIsWhole ==
    /\ Len(values) = IF header.optional = 0 THEN 0 ELSE 1
    /\ \A k \in DOMAIN values :
           /\ values[k].read = Hdr!Directories(values[k].announced)
           /\ header.lfanew + 24 + (96 + 8 * values[k].read) <= table

\* The directories are read one after the other, up to the cursor.
DirectoriesInStep ==
    /\ Len(values) = 1 /\ header.optional # 0
    /\ values[1].read <= Hdr!Directories(values[1].announced)
    /\ header.lfanew + 24 + 96 + 8 * values[1].read <= cursor /\ cursor <= table

\* So are the sections.
SectionsInStep ==
    /\ Len(kept) <= header.sections
    /\ cursor = header.lfanew + 24 + header.optional + 40 * Len(kept)
    /\ Len(kept) > 0 => cursor <= table

SectionsAreWhole ==
    /\ Len(kept) = header.sections
    /\ Len(kept) > 0 => header.lfanew + 24 + header.optional + 40 * Len(kept) <= table

\* What each part of the constructor finds.
HdrParts ==
    /\ \/ pc \in Before /\ ~read
       \/ pc \in After /\ read
    /\ pc \in Before => count = 0
    /\ pc \in Before \cup {"coff", "symbols"} => file = <<>>
    /\ pc \in {"dos", "pe", "optional"} => values = <<>>
    /\ pc \in {"dos", "pe", "optional", "directories", "reach_sections"} => kept = <<>>
    /\ pc = "optional" => header.optional # 0
    /\ pc = "directories" => DirectoriesInStep
    /\ pc \in {"reach_sections", "sections"} \cup After => OptionalIsWhole
    /\ pc = "sections" => SectionsInStep
    /\ pc = "failed" => Len(kept) <= header.sections
    /\ pc \in After => SectionsAreWhole
    /\ pc = "strings" => cursor <= table /\ Len(file) <= item.count

\* The inductive invariant.
HdrInv ==
    /\ HdrTypes
    /\ HdrParts
    /\ Len(values) <= 1
    /\ Hdr!StringsBounded

HdrOK == directory = "headers" => HdrInv

\* The constants of the headers.
LEMMA HdrSizes ==
    /\ Hdr!PeSize = 24 /\ Hdr!DirectorySize = 8 /\ Hdr!SectionSize = 40
    /\ Hdr!SymbolSize = 18 /\ Hdr!DosSize = 64 /\ Hdr!FixedPart(FALSE) = 96
    /\ \A plus \in BOOLEAN : Hdr!FixedPart(plus) \in {96, 112}
  BY DEF Hdr!PeSize, Hdr!DirectorySize, Hdr!SectionSize, Hdr!SymbolSize, Hdr!DosSize,
      Hdr!FixedPart

\* HdrInv is true when the constructor starts.
LEMMA HdrInit ==
    ASSUME Hdr!Init
    PROVE  HdrInv
  <1> USE DEF Hdr!Init
  <1>1. HdrTypes
    <2>1. table \in FileSizes /\ table \in Nat /\ cursor \in Nat /\ count = 0
      BY HeaderAssumption
    <2>2. header \in [lfanew : Nat, optional : Nat, sections : Nat,
                      symbols : 0..MaxSymbols, pointer : Nat] /\ header.symbols = 0
      BY HeaderAssumption DEF Hdr!NoHeader
    <2>3. item \in [size : StringSizes \cup {0}, count : Nat]
      OBVIOUS
    <2>4. /\ values \in Seq([announced : Nat, read : Nat])
          /\ kept \in Seq([index : Int, name : Int]) /\ file \in Seq(Nat)
      OBVIOUS
    <2>5. read \in BOOLEAN
      OBVIOUS
    <2> QED
      BY <2>1, <2>2, <2>3, <2>4, <2>5 DEF HdrTypes
  <1>2. pc = "dos" /\ ~read /\ count = 0 /\ file = <<>> /\ values = <<>> /\ kept = <<>>
    OBVIOUS
  <1>3. HdrParts
    BY <1>2 DEF HdrParts, Before, After
  <1>4. Hdr!StringsBounded
    BY <1>2 DEF Hdr!StringsBounded
  <1> QED
    BY <1>1, <1>2, <1>3, <1>4 DEF HdrInv

\* A step that returns, with or without success, keeps HdrInv.
LEMMA HdrReturn ==
    ASSUME HdrInv,
           \/ Hdr!DosHeaderFails \/ Hdr!PeHeaderFails \/ Hdr!OptionalHeaderFails
           \/ Hdr!SectionFails \/ Hdr!StringsAreRead
    PROVE  HdrInv'
  <1>1. /\ UNCHANGED <<table, cursor, header, values, kept, count, item, file, read>>
        /\ \/ pc \in {"dos", "pe", "optional", "sections"} /\ pc' = "failed"
           \/ pc = "strings" /\ pc' = "done"
    BY DEF Hdr!DosHeaderFails, Hdr!PeHeaderFails, Hdr!OptionalHeaderFails,
        Hdr!SectionFails, Hdr!StringsAreRead, Hdr!Fail
  <1>2. HdrTypes' /\ Hdr!StringsBounded'
    BY <1>1 DEF HdrInv, HdrTypes, Hdr!StringsBounded
  <1>3. UNCHANGED <<OptionalIsWhole, SectionsAreWhole>>
    BY <1>1 DEF OptionalIsWhole, SectionsAreWhole, Hdr!Directories
  <1>4. Len(kept) \in Nat /\ header.sections \in Nat
    BY DEF HdrInv, HdrTypes
  <1>5. pc' = "failed" => Len(kept) <= header.sections
    BY <1>1, <1>4 DEF HdrInv, HdrParts, SectionsInStep
  <1>6. HdrParts'
    BY <1>1, <1>3, <1>5 DEF HdrInv, HdrParts, Before, After
  <1> QED
    BY <1>1, <1>2, <1>6 DEF HdrInv

\* Reading the DOS header keeps HdrInv.
LEMMA HdrReadDos ==
    ASSUME HdrInv, Hdr!ReadDosHeader
    PROVE  HdrInv'
  <1>1. /\ UNCHANGED <<table, values, kept, count, item, file, read>>
        /\ pc = "dos" /\ pc' = "pe" /\ cursor' = 64
    BY DEF Hdr!ReadDosHeader, Hdr!DosSize
  <1>2. PICK l \in HeaderOffsets : header' = [header EXCEPT !.lfanew = l]
    BY DEF Hdr!ReadDosHeader
  <1>3. /\ header' \in [lfanew : Nat, optional : Nat, sections : Nat,
                        symbols : 0..MaxSymbols, pointer : Nat]
        /\ header'.symbols = header.symbols
    BY <1>2, HeaderAssumption DEF HdrInv, HdrTypes
  <1>4. HdrTypes'
    BY <1>1, <1>3 DEF HdrInv, HdrTypes
  <1>5. HdrParts'
    BY <1>1 DEF HdrInv, HdrParts, Before, After
  <1> QED
    BY <1>1, <1>4, <1>5 DEF HdrInv, Hdr!StringsBounded

\* So does reading the PE header.
LEMMA HdrReadPe ==
    ASSUME HdrInv, Hdr!ReadPeHeader
    PROVE  HdrInv'
  <1>1. /\ UNCHANGED <<table, values, kept, count, item, file, read>>
        /\ pc = "pe" /\ cursor' = header.lfanew + 24
    BY DEF Hdr!ReadPeHeader, Hdr!PeSize
  <1>2. PICK o \in OptionalSizes, n \in 0..MaxSections, m \in 0..MaxSymbols,
             p \in SymbolPointers :
           /\ header' = [header EXCEPT !.optional = o, !.sections = n,
                                       !.symbols = m, !.pointer = p]
           /\ pc' = IF o = 0 THEN "reach_sections" ELSE "optional"
    BY DEF Hdr!ReadPeHeader
  <1>3. /\ header' \in [lfanew : Nat, optional : Nat, sections : Nat,
                        symbols : 0..MaxSymbols, pointer : Nat]
        /\ header'.optional = o /\ header'.symbols = m /\ m \in Nat
    <2>1. o \in Nat /\ n \in Nat /\ m \in 0..MaxSymbols /\ m \in Nat /\ p \in Nat
      BY HeaderAssumption
    <2>2. header \in [lfanew : Nat, optional : Nat, sections : Nat,
                      symbols : 0..MaxSymbols, pointer : Nat]
      BY DEF HdrInv, HdrTypes
    <2> QED
      BY <1>2, <2>1, <2>2
  <1>4. count = 0 /\ values = <<>> /\ kept = <<>> /\ file = <<>> /\ ~read
    BY <1>1 DEF HdrInv, HdrParts, Before, After
  <1>5. header.lfanew \in Nat /\ cursor' \in Nat
    BY <1>1, SMTT(30) DEF HdrInv, HdrTypes
  <1>6. HdrTypes'
    BY <1>1, <1>3, <1>4, <1>5 DEF HdrInv, HdrTypes
  <1>7. pc' = "reach_sections" => OptionalIsWhole'
    <2>1. pc' = "reach_sections" => header'.optional = 0
      BY <1>2, <1>3
    <2>2. values' = <<>> /\ Len(values') = 0 /\ DOMAIN values' = {}
      BY <1>1, <1>4
    <2> QED
      BY <2>1, <2>2 DEF OptionalIsWhole
  <1>8. HdrParts'
    BY <1>1, <1>2, <1>3, <1>4, <1>7 DEF HdrParts, Before, After
  <1> QED
    BY <1>1, <1>6, <1>8 DEF HdrInv, Hdr!StringsBounded

\* Reading the fixed part of the optional header keeps HdrInv.
LEMMA HdrReadOptional ==
    ASSUME HdrInv, Hdr!ReadOptionalHeader
    PROVE  HdrInv'
  <1>1. /\ UNCHANGED <<table, header, kept, count, item, file, read>>
        /\ pc = "optional" /\ pc' = "directories"
    BY DEF Hdr!ReadOptionalHeader
  <1>2. PICK plus \in BOOLEAN, n \in RvaCounts :
           /\ header.lfanew + 24 + Hdr!FixedPart(plus) <= table
           /\ cursor' = header.lfanew + 24 + Hdr!FixedPart(plus)
           /\ values' = <<[announced |-> n, read |-> 0]>>
    BY DEF Hdr!ReadOptionalHeader, Hdr!PeSize, Hdr!Readable
  <1>3. PICK f \in {96, 112} : f = Hdr!FixedPart(plus)
    BY HdrSizes
  <1>4. PICK l \in Nat : l = header.lfanew
    BY DEF HdrInv, HdrTypes
  <1>5. n \in Nat /\ table \in Nat
    BY HeaderAssumption DEF HdrInv, HdrTypes
  <1>6. cursor' = l + 24 + f /\ l + 24 + f <= table
    BY <1>2, <1>3, <1>4
  <1>7. /\ values' \in Seq([announced : Nat, read : Nat]) /\ Len(values') = 1
        /\ values'[1].read = 0 /\ values'[1].announced = n
    BY <1>2, <1>5
  <1>8. header.optional # 0
    BY <1>1 DEF HdrInv, HdrParts
  <1>9. HdrTypes'
    <2>1. cursor' \in Nat
      BY <1>6
    <2> QED
      BY <1>1, <1>7, <2>1 DEF HdrInv, HdrTypes
  <1>10. DirectoriesInStep'
    <2>1. 0 <= Hdr!Directories(n)
      BY <1>5 DEF Hdr!Directories
    <2>2. l + 24 + 96 + 8 * 0 <= cursor' /\ cursor' <= table
      BY <1>5, <1>6
    <2>3. (Hdr!Directories(values[1].announced))' = Hdr!Directories(n)
      BY <1>7 DEF Hdr!Directories
    <2> QED
      BY <1>1, <1>4, <1>7, <1>8, <2>1, <2>2, <2>3 DEF DirectoriesInStep
  <1>11. HdrParts'
    BY <1>1, <1>10 DEF HdrInv, HdrParts, Before, After
  <1> QED
    BY <1>1, <1>7, <1>9, <1>11 DEF HdrInv, Hdr!StringsBounded

\* What an element of a sequence is.
LEMMA ElementOf ==
    ASSUME NEW S, NEW s \in Seq(S), NEW k \in DOMAIN s
    PROVE  s[k] \in S
  OBVIOUS

\* An optional header that is there, and one of which one more directory was read.
LEMMA OneOptional ==
    ASSUME NEW s \in Seq([announced : Nat, read : Nat]), Len(s) = 1
    PROVE  /\ DOMAIN s = {1} /\ s[1].announced \in Nat /\ s[1].read \in Nat
           /\ LET t == [s EXCEPT ![1].read = @ + 1]
              IN  /\ t \in Seq([announced : Nat, read : Nat]) /\ Len(t) = 1
                  /\ t[1].announced = s[1].announced /\ t[1].read = s[1].read + 1
  <1>1. DOMAIN s = {1}
    OBVIOUS
  <1>2. s[1] \in [announced : Nat, read : Nat]
    BY <1>1, ElementOf, Zenon
  <1>3. s[1].announced \in Nat /\ s[1].read \in Nat
    BY <1>2
  <1> DEFINE w == [s[1] EXCEPT !.read = @ + 1]
  <1>4. [s EXCEPT ![1].read = @ + 1] = [s EXCEPT ![1] = w]
    OBVIOUS
  <1>5. w \in [announced : Nat, read : Nat]
    BY <1>2, <1>3
  <1>6. w.announced = s[1].announced /\ w.read = s[1].read + 1
    BY <1>2
  <1> HIDE DEF w
  <1>7. [s EXCEPT ![1] = w] = <<w>>
    BY <1>1
  <1> QED
    BY <1>1, <1>3, <1>4, <1>5, <1>6, <1>7

\* Reading an entry of the directories keeps HdrInv.
LEMMA HdrReadDirectory ==
    ASSUME HdrInv, Hdr!ReadDirectoryEntry
    PROVE  HdrInv'
  <1>1. /\ UNCHANGED <<table, pc, header, kept, count, item, file, read>>
        /\ pc = "directories" /\ cursor + 8 <= table /\ cursor' = cursor + 8
        /\ values' = [values EXCEPT ![1].read = @ + 1]
        /\ values[1].read < Hdr!Directories(values[1].announced)
    BY DEF Hdr!ReadDirectoryEntry, Hdr!DirectorySize, Hdr!Readable
  <1>2. DirectoriesInStep
    BY <1>1 DEF HdrInv, HdrParts
  <1>3. /\ values \in Seq([announced : Nat, read : Nat]) /\ Len(values) = 1
        /\ table \in Nat /\ cursor \in Nat
    BY <1>2 DEF HdrInv, HdrTypes, DirectoriesInStep
  <1>4. PICK a \in Nat, r \in Nat : a = values[1].announced /\ r = values[1].read
    BY <1>3, OneOptional
  <1>5. /\ values' \in Seq([announced : Nat, read : Nat]) /\ Len(values') = 1
        /\ values'[1].read = r + 1 /\ values'[1].announced = a
    BY <1>1, <1>3, <1>4, OneOptional
  <1>6. PICK l \in Nat : l = header.lfanew
    BY DEF HdrInv, HdrTypes
  <1>7. l + 24 + 96 + 8 * r <= cursor
    BY <1>2, <1>4, <1>6 DEF DirectoriesInStep
  <1>8. DirectoriesInStep'
    <2>1. PICK d \in Nat : d = Hdr!Directories(a)
      BY DEF Hdr!Directories
    <2>2. r + 1 <= d
      BY <1>1, <1>4, <2>1
    <2>3. (Hdr!Directories(values[1].announced))' = d
      BY <1>5, <2>1 DEF Hdr!Directories
    <2>4. l + 24 + 96 + 8 * (r + 1) <= cursor + 8
      BY <1>3, <1>7
    <2> QED
      BY <1>1, <1>2, <1>5, <1>6, <2>2, <2>3, <2>4 DEF DirectoriesInStep
  <1>9. HdrTypes'
    <2>1. cursor' \in Nat
      BY <1>1, <1>3
    <2> QED
      BY <1>1, <1>5, <2>1 DEF HdrInv, HdrTypes
  <1>10. HdrParts'
    BY <1>1, <1>8 DEF HdrInv, HdrParts, Before, After
  <1> QED
    BY <1>1, <1>5, <1>9, <1>10 DEF HdrInv, Hdr!StringsBounded

\* An entry that cannot be read keeps HdrInv.
LEMMA HdrDirectoryFails ==
    ASSUME HdrInv, Hdr!DirectoryEntryFails
    PROVE  HdrInv'
  <1>1. /\ UNCHANGED <<table, cursor, header, kept, count, item, file, read>>
        /\ pc = "directories" /\ pc' = "failed" /\ values' = <<>>
    BY DEF Hdr!DirectoryEntryFails
  <1>2. /\ values' \in Seq([announced : Nat, read : Nat]) /\ Len(values') = 0
        /\ kept = <<>> /\ Len(kept) = 0 /\ header.sections \in Nat
    BY <1>1 DEF HdrInv, HdrTypes, HdrParts
  <1>3. HdrTypes'
    BY <1>1, <1>2 DEF HdrInv, HdrTypes
  <1>4. HdrParts'
    BY <1>1, <1>2 DEF HdrInv, HdrParts, Before, After
  <1> QED
    BY <1>1, <1>2, <1>3, <1>4 DEF HdrInv, Hdr!StringsBounded

\* The end of the optional header keeps HdrInv.
LEMMA HdrOptionalIsRead ==
    ASSUME HdrInv, Hdr!OptionalHeaderIsRead
    PROVE  HdrInv'
  <1>1. /\ UNCHANGED <<table, cursor, header, values, kept, count, item, file, read>>
        /\ pc = "directories" /\ pc' = "reach_sections"
        /\ values[1].read = Hdr!Directories(values[1].announced)
    BY DEF Hdr!OptionalHeaderIsRead
  <1>2. DirectoriesInStep
    BY <1>1 DEF HdrInv, HdrParts
  <1>3. HdrTypes' /\ Hdr!StringsBounded'
    BY <1>1 DEF HdrInv, HdrTypes, Hdr!StringsBounded
  <1>4. /\ Len(values) = 1 /\ DOMAIN values = {1} /\ header.optional # 0
        /\ header.lfanew \in Nat /\ values[1].read \in Nat /\ table \in Nat /\ cursor \in Nat
    <2>1. values \in Seq([announced : Nat, read : Nat]) /\ Len(values) = 1
      BY <1>2 DEF HdrInv, HdrTypes, DirectoriesInStep
    <2>2. DOMAIN values = {1} /\ values[1].read \in Nat
      BY <2>1, OneOptional
    <2> QED
      BY <1>2, <2>1, <2>2 DEF HdrInv, HdrTypes, DirectoriesInStep
  <1>5. PICK l \in Nat, r \in Nat : l = header.lfanew /\ r = values[1].read
    BY <1>4
  <1>6. l + 24 + (96 + 8 * r) <= table
    <2>1. l + 24 + 96 + 8 * r <= cursor /\ cursor <= table
      BY <1>2, <1>5 DEF DirectoriesInStep
    <2> QED
      BY <1>4, <2>1
  <1>7. OptionalIsWhole
    BY <1>1, <1>4, <1>5, <1>6 DEF OptionalIsWhole
  <1>8. OptionalIsWhole'
    BY <1>1, <1>7 DEF OptionalIsWhole, Hdr!Directories
  <1>9. HdrParts'
    BY <1>1, <1>8 DEF HdrInv, HdrParts, Before, After
  <1> QED
    BY <1>1, <1>3, <1>9 DEF HdrInv

\* So does the jump to the section table.
LEMMA HdrReachSections ==
    ASSUME HdrInv, Hdr!ReachSections
    PROVE  HdrInv'
  <1>1. /\ UNCHANGED <<table, header, values, kept, count, item, file, read>>
        /\ pc = "reach_sections" /\ pc' = "sections"
        /\ cursor' = header.lfanew + 24 + header.optional
    BY DEF Hdr!ReachSections, Hdr!PeSize
  <1>2. PICK l \in Nat, o \in Nat : l = header.lfanew /\ o = header.optional
    BY DEF HdrInv, HdrTypes
  <1>3. cursor' = l + 24 + o /\ cursor' = l + 24 + o + 40 * 0 /\ cursor' \in Nat
    BY <1>1, <1>2
  <1>4. kept = <<>> /\ Len(kept) = 0 /\ header.sections \in Nat
    BY <1>1 DEF HdrInv, HdrTypes, HdrParts
  <1>5. SectionsInStep'
    BY <1>1, <1>2, <1>3, <1>4 DEF SectionsInStep
  <1>6. OptionalIsWhole'
    <2>1. OptionalIsWhole
      BY <1>1 DEF HdrInv, HdrParts
    <2> QED
      BY <1>1, <2>1 DEF OptionalIsWhole, Hdr!Directories
  <1>7. HdrTypes'
    BY <1>1, <1>3 DEF HdrInv, HdrTypes
  <1>8. HdrParts'
    BY <1>1, <1>5, <1>6 DEF HdrInv, HdrParts, Before, After
  <1> QED
    BY <1>1, <1>7, <1>8 DEF HdrInv, Hdr!StringsBounded

\* Reading a section keeps HdrInv: the string table is still empty, so the section
\* keeps the name of its header.
LEMMA HdrReadSection ==
    ASSUME HdrInv, Hdr!ReadSection
    PROVE  HdrInv'
  <1>1. /\ UNCHANGED <<table, pc, header, values, count, item, file, read>>
        /\ pc = "sections" /\ Len(kept) < header.sections
        /\ cursor + 40 <= table /\ cursor' = cursor + 40
    BY DEF Hdr!ReadSection, Hdr!SectionSize, Hdr!Readable
  <1>2. /\ file = <<>> /\ SectionsInStep /\ OptionalIsWhole
        /\ kept \in Seq([index : Int, name : Int])
        /\ table \in Nat /\ cursor \in Nat /\ Len(kept) \in Nat
    BY <1>1 DEF HdrInv, HdrTypes, HdrParts, Before
  <1>3. PICK i \in -1..1 :
           kept' = Append(kept, [index |-> i, name |-> Hdr!NameOf(i)])
    BY DEF Hdr!ReadSection
  <1>4. Hdr!NameOf(i) \in Int
    BY <1>2 DEF Hdr!NameOf, Hdr!HeaderName
  <1>5. [index |-> i, name |-> Hdr!NameOf(i)] \in [index : Int, name : Int]
    BY <1>4
  <1>6. kept' \in Seq([index : Int, name : Int]) /\ Len(kept') = Len(kept) + 1
    BY <1>2, <1>3, <1>5
  <1>7. PICK l \in Nat, o \in Nat, s \in Nat, n \in Nat :
           /\ l = header.lfanew /\ o = header.optional /\ s = header.sections
           /\ n = Len(kept)
    BY <1>2 DEF HdrInv, HdrTypes
  <1>8. SectionsInStep'
    <2>1. n < s /\ cursor = l + 24 + o + 40 * n
      BY <1>1, <1>2, <1>7 DEF SectionsInStep
    <2>2. n + 1 <= s /\ cursor + 40 = l + 24 + o + 40 * (n + 1)
      BY <1>2, <2>1
    <2> QED
      BY <1>1, <1>6, <1>7, <2>2 DEF SectionsInStep
  <1>9. OptionalIsWhole'
    BY <1>1, <1>2 DEF OptionalIsWhole, Hdr!Directories
  <1>10. HdrTypes'
    <2>1. cursor' \in Nat
      BY <1>1, <1>2
    <2> QED
      BY <1>1, <1>6, <2>1 DEF HdrInv, HdrTypes
  <1>11. HdrParts'
    BY <1>1, <1>8, <1>9 DEF HdrInv, HdrParts, Before, After
  <1> QED
    BY <1>1, <1>10, <1>11 DEF HdrInv, Hdr!StringsBounded

\* The file is valid once it has all its sections.
LEMMA HdrSectionsAreRead ==
    ASSUME HdrInv, Hdr!SectionsAreRead
    PROVE  HdrInv'
  <1>1. /\ UNCHANGED <<table, cursor, header, values, kept, count, item, file>>
        /\ pc = "sections" /\ pc' = "coff" /\ read' /\ Len(kept) = header.sections
    BY DEF Hdr!SectionsAreRead
  <1>2. read' \in BOOLEAN
    BY DEF Hdr!SectionsAreRead
  <1>3. SectionsInStep /\ OptionalIsWhole /\ file = <<>>
    BY <1>1 DEF HdrInv, HdrParts, Before
  <1>4. SectionsAreWhole
    BY <1>1, <1>3 DEF SectionsInStep, SectionsAreWhole
  <1>5. OptionalIsWhole' /\ SectionsAreWhole'
    BY <1>1, <1>3, <1>4 DEF OptionalIsWhole, SectionsAreWhole, Hdr!Directories
  <1>6. HdrTypes'
    BY <1>1, <1>2 DEF HdrInv, HdrTypes
  <1>7. HdrParts'
    BY <1>1, <1>3, <1>5 DEF HdrParts, Before, After
  <1> QED
    BY <1>1, <1>6, <1>7 DEF HdrInv, Hdr!StringsBounded

\* What the steps behind the sections have in common.
LEMMA HdrBehind ==
    ASSUME HdrInv, pc \in After, UNCHANGED <<table, header, values, kept, read>>
    PROVE  OptionalIsWhole' /\ SectionsAreWhole' /\ read' /\ Len(values') <= 1
  <1>1. OptionalIsWhole /\ SectionsAreWhole /\ read
    BY DEF HdrInv, HdrParts, Before, After
  <1> QED
    BY <1>1 DEF HdrInv, OptionalIsWhole, SectionsAreWhole, Hdr!Directories

\* Reaching the symbols keeps HdrInv.
LEMMA HdrReachSymbols ==
    ASSUME HdrInv, Hdr!ReachSymbols
    PROVE  HdrInv'
  <1>1. /\ UNCHANGED <<table, header, values, kept, count, item, file, read>>
        /\ pc = "coff" /\ pc' \in {"done", "symbols"}
        /\ cursor' \in {cursor, header.pointer}
    BY DEF Hdr!ReachSymbols
  <1>2. OptionalIsWhole' /\ SectionsAreWhole' /\ read'
    BY <1>1, HdrBehind DEF After
  <1>3. file = <<>> /\ cursor' \in Nat
    BY <1>1 DEF HdrInv, HdrTypes, HdrParts
  <1>4. HdrTypes'
    BY <1>1, <1>3 DEF HdrInv, HdrTypes
  <1>5. HdrParts'
    BY <1>1, <1>2, <1>3 DEF HdrParts, Before, After
  <1> QED
    BY <1>1, <1>4, <1>5 DEF HdrInv, Hdr!StringsBounded

\* Reading a symbol keeps HdrInv.
LEMMA HdrReadSymbol ==
    ASSUME HdrInv, Hdr!ReadSymbol
    PROVE  HdrInv'
  <1>1. /\ UNCHANGED <<table, header, values, kept, item, file, read>>
        /\ pc = "symbols" /\ pc' \in {"done", "symbols"} /\ count < header.symbols
        /\ cursor' \in {cursor, cursor + 18} /\ count' \in {count, count + 1}
    BY DEF Hdr!ReadSymbol, Hdr!SymbolSize
  <1>2. OptionalIsWhole' /\ SectionsAreWhole' /\ read'
    BY <1>1, HdrBehind DEF After
  <1>3. file = <<>> /\ cursor \in Nat /\ count \in Nat /\ header.symbols \in Nat
    BY <1>1, HeaderAssumption DEF HdrInv, HdrTypes, HdrParts
  <1>4. cursor' \in Nat /\ count' \in Nat /\ count' <= header.symbols
    <2>1. PICK s \in Nat : s = header.symbols
      BY <1>3
    <2>2. count <= s /\ count + 1 <= s
      BY <1>1, <1>3, <2>1
    <2> QED
      BY <1>1, <1>3, <2>1, <2>2
  <1>5. HdrTypes'
    BY <1>1, <1>4 DEF HdrInv, HdrTypes
  <1>6. HdrParts'
    BY <1>1, <1>2, <1>3 DEF HdrParts, Before, After
  <1> QED
    BY <1>1, <1>5, <1>6 DEF HdrInv, Hdr!StringsBounded

\* Reading the size of the string table keeps HdrInv.
LEMMA HdrReadStringTableSize ==
    ASSUME HdrInv, Hdr!ReadStringTableSize
    PROVE  HdrInv'
  <1>1. /\ UNCHANGED <<table, header, values, kept, count, file, read>>
        /\ pc = "symbols" /\ pc' \in {"done", "strings"}
        /\ cursor' = IF cursor + 4 <= table THEN cursor + 4 ELSE table
    BY DEF Hdr!ReadStringTableSize, Hdr!Readable
  <1>2. PICK z \in StringSizes : item' = [size |-> z, count |-> 0]
    BY DEF Hdr!ReadStringTableSize
  <1>3. OptionalIsWhole' /\ SectionsAreWhole' /\ read'
    BY <1>1, HdrBehind DEF After
  <1>4. /\ item' \in [size : StringSizes \cup {0}, count : Nat] /\ item'.size \in Nat
        /\ item'.count = 0
    BY <1>2, HeaderAssumption
  <1>5. file = <<>> /\ Len(file) = 0 /\ table \in Nat /\ cursor \in Nat
    BY <1>1 DEF HdrInv, HdrTypes, HdrParts
  <1>6. PICK c \in Nat : c = cursor' /\ c <= table
    BY <1>1, <1>5
  <1>7. HdrTypes'
    BY <1>1, <1>4, <1>6 DEF HdrInv, HdrTypes
  <1>8. HdrParts'
    BY <1>1, <1>3, <1>4, <1>5, <1>6 DEF HdrParts, Before, After
  <1>9. Hdr!StringsBounded'
    BY <1>1, <1>4, <1>5 DEF Hdr!StringsBounded
  <1> QED
    BY <1>1, <1>7, <1>8, <1>9 DEF HdrInv

\* Reading a string keeps HdrInv: each adds at least one to the sum.
LEMMA HdrReadString ==
    ASSUME HdrInv, Hdr!ReadString
    PROVE  HdrInv'
  <1>1. /\ UNCHANGED <<table, pc, header, values, kept, count, read>>
        /\ pc = "strings" /\ item.count < item.size /\ file' = Append(file, cursor)
    BY DEF Hdr!ReadString
  <1>2. PICK n \in 0..(table - cursor) :
           /\ item' = [item EXCEPT !.count = @ + n + 1]
           /\ cursor' = IF n = table - cursor THEN table ELSE cursor + n + 1
    BY DEF Hdr!ReadString
  <1>3. OptionalIsWhole' /\ SectionsAreWhole' /\ read'
    BY <1>1, HdrBehind DEF After
  <1>4. /\ table \in Nat /\ cursor \in Nat /\ cursor <= table /\ n \in Nat
        /\ item \in [size : StringSizes \cup {0}, count : Nat]
        /\ file \in Seq(Nat) /\ Len(file) \in Nat /\ Len(file) <= item.count
    BY <1>1 DEF HdrInv, HdrTypes, HdrParts
  <1>5. PICK z \in Nat, m \in Nat : z = item.size /\ m = item.count
    BY <1>4, HeaderAssumption
  <1>6. /\ item' \in [size : StringSizes \cup {0}, count : Nat]
        /\ item'.size = z /\ item'.count = m + n + 1
    BY <1>2, <1>4, <1>5
  <1>7. cursor' \in Nat /\ cursor' <= table
    <2>1. CASE n = table - cursor
      BY <1>2, <1>4, <2>1
    <2>2. CASE n # table - cursor
      <3>1. cursor + n + 1 \in Nat /\ cursor + n + 1 <= table
        BY <1>4, <2>2
      <3> QED
        BY <1>2, <2>2, <3>1
    <2> QED
      BY <2>1, <2>2
  <1>8. file' \in Seq(Nat) /\ Len(file') = Len(file) + 1
    BY <1>1, <1>4
  <1>9. Len(file) + 1 <= m + n + 1 /\ Len(file) + 1 <= z
    BY <1>1, <1>4, <1>5
  <1>10. HdrTypes'
    BY <1>1, <1>6, <1>7, <1>8 DEF HdrInv, HdrTypes
  <1>11. HdrParts'
    BY <1>1, <1>3, <1>6, <1>7, <1>8, <1>9 DEF HdrParts, Before, After
  <1>12. Hdr!StringsBounded'
    <2>1. \A k \in DOMAIN file' : file'[k] <= table
      BY <1>1, <1>4 DEF HdrInv, Hdr!StringsBounded
    <2> QED
      BY <1>1, <1>6, <1>8, <1>9, <2>1 DEF Hdr!StringsBounded
  <1> QED
    BY <1>1, <1>3, <1>10, <1>11, <1>12 DEF HdrInv

\* HdrInv is about nothing but the variables of the constructor.
LEMMA HdrUntouched ==
    ASSUME HdrInv, UNCHANGED vars
    PROVE  HdrInv'
  <1>1. UNCHANGED <<pc, table, cursor, header, values, kept, count, item, file, read>>
    BY DEF vars, tableVars, richVars
  <1>2. HdrTypes' /\ Hdr!StringsBounded'
    BY <1>1 DEF HdrInv, HdrTypes, Hdr!StringsBounded
  <1>3. UNCHANGED <<OptionalIsWhole, SectionsAreWhole, SectionsInStep, DirectoriesInStep>>
    BY <1>1 DEF OptionalIsWhole, SectionsAreWhole, SectionsInStep, DirectoriesInStep,
        Hdr!Directories
  <1>4. HdrParts'
    BY <1>1, <1>3 DEF HdrInv, HdrParts, Before, After
  <1> QED
    BY <1>1, <1>2, <1>4 DEF HdrInv

\* HdrInv holds throughout the constructor.
LEMMA HdrAlways == Spec => []HdrOK
  <1>1. Init => HdrOK
    BY HdrInit DEF Init, HdrOK
  <1>2. HdrOK /\ [Next]_vars => HdrOK'
    <2> SUFFICES ASSUME HdrOK, [Next]_vars, directory' = "headers"
                 PROVE  HdrInv'
      BY DEF HdrOK
    <2>1. HdrInv /\ (Hdr!Step \/ UNCHANGED vars)
      BY OneParser DEF HdrOK
    <2> QED
      BY <2>1, HdrReturn, HdrReadDos, HdrReadPe, HdrReadOptional, HdrReadDirectory,
         HdrDirectoryFails, HdrOptionalIsRead, HdrReachSections, HdrReadSection,
         HdrSectionsAreRead, HdrReachSymbols, HdrReadSymbol, HdrReadStringTableSize,
         HdrReadString, HdrUntouched DEF Hdr!Step
  <1> QED
    BY <1>1, <1>2, PTL DEF Spec

\* For every file, whatever its headers claim, the constructor that leaves is_valid()
\* true has read every section and every directory that count, from within the file;
\* one that does not has kept no symbols (PE::PE, pe.cpp:39-57).
THEOREM ValidIsComplete == Spec => []ValidMeansComplete
  <1>1. HdrOK => ValidMeansComplete
    <2> SUFFICES ASSUME HdrInv PROVE Hdr!ValidMeansComplete
      BY DEF HdrOK, ValidMeansComplete
    <2>1. CASE read
      <3>1. OptionalIsWhole /\ SectionsAreWhole /\ Hdr!StringsBounded
        BY <2>1 DEF HdrInv, HdrParts, Before, After
      <3> QED
        BY <2>1, <3>1, HdrSizes DEF Hdr!ValidMeansComplete, Hdr!Readable, OptionalIsWhole,
            SectionsAreWhole
    <2>2. CASE ~read
      BY <2>2 DEF HdrInv, HdrParts, Before, After, Hdr!ValidMeansComplete
    <2> QED
      BY <2>1, <2>2
  <1> QED
    BY <1>1, HdrAlways, PTL
-------------------------------------------------------------------------------
(* Addresses.                                                              *)

\* The numbers of a section.
SectionNumbers ==
    [va : 0..(Wrap - 1), vsize : 0..(Wrap - 1), raw : 0..(Wrap - 1), ptr : 0..(Wrap - 1)]

\* The optional header and the sections that rva_to_offset looks at.
AddrTypes ==
    /\ \/ values = <<>>
       \/ /\ Len(values) = 1 /\ values[1].alignment \in Nat \ {0}
          /\ values[1].base \in Nat
    /\ kept \in Seq(SectionNumbers)
    /\ item.by \in {"rva", "va", "directory"} /\ item.address \in Nat

\* The inductive invariant: what is returned is the offset of the address relative
\* to the image.
AddrInv ==
    /\ AddrTypes
    /\ Addr!TypeOK
    /\ pc = "asked" => left = 0 /\ cursor = 0
    /\ pc # "asked" /\ values # <<>> /\ kept # <<>> /\ Addr!Rva > 0 =>
           left = Addr!RvaToOffset(Addr!Rva)

AddrOK == directory = "addresses" => AddrInv

\* AddrInv is true when a function is called.
LEMMA AddrInit ==
    ASSUME Addr!Init
    PROVE  AddrInv
  <1>1. AddrTypes
    <2>1. \/ values = <<>>
          \/ /\ Len(values) = 1 /\ values[1].alignment \in Nat \ {0}
             /\ values[1].base \in Nat
      <3>1. CASE values # <<>>
        <4>1. PICK a \in Alignments, b \in ImageBases :
                 values = <<[alignment |-> a, base |-> b]>>
          BY <3>1 DEF Addr!Init
        <4>2. a \in Nat \ {0} /\ b \in Nat
          BY AddressAssumption
        <4> QED
          BY <4>1, <4>2
      <3> QED
        BY <3>1
    <2>2. kept \in Seq(SectionNumbers)
      <3>1. PICK n \in 0..MaxSections : kept \in [1..n -> SectionHeaders]
        BY DEF Addr!Init
      <3>2. SectionHeaders \subseteq SectionNumbers /\ n \in Nat
        BY AddressAssumption, HeaderAssumption DEF SectionNumbers
      <3>3. kept \in [1..n -> SectionNumbers]
        BY <3>1, <3>2
      <3> QED
        BY <3>2, <3>3
    <2>3. item.by \in {"rva", "va", "directory"} /\ item.address \in Nat
      BY AddressAssumption DEF Addr!Init
    <2> QED
      BY <2>1, <2>2, <2>3 DEF AddrTypes
  <1>2. pc = "asked" /\ cursor = 0 /\ left = 0
    BY DEF Addr!Init
  <1>3. Addr!TypeOK
    BY <1>2, WrapAssumption DEF Addr!TypeOK
  <1> QED
    BY <1>1, <1>2, <1>3 DEF AddrInv

\* A number that is rounded down to a multiple.
LEMMA RoundedDown ==
    ASSUME NEW p \in Nat, NEW a \in Nat \ {0}
    PROVE  /\ (p \div a) * a \in Nat /\ (p \div a) * a <= p
           /\ p - a + 1 <= (p \div a) * a /\ ((p \div a) * a) % a = 0
  <1>1. PICK q \in Nat : q = p \div a
    OBVIOUS
  <1>2. p = q * a + (p % a) /\ p % a \in 0..(a - 1)
    BY <1>1
  <1>3. q * a \in Nat
    OBVIOUS
  <1>4. (q * a) % a = 0
    <2>1. PICK m \in Nat : m = q * a
      BY <1>3
    <2>2. PICK d \in Int, r \in 0..(a - 1) : m = d * a + r /\ r = m % a
      <3>1. m = (m \div a) * a + (m % a) /\ m % a \in 0..(a - 1) /\ m \div a \in Int
        OBVIOUS
      <3> QED
        BY <3>1
    <2>3. PICK e \in Int : e = q - d
      OBVIOUS
    <2>4. e * a = r
      <3>1. (q - d) * a = q * a - d * a
        OBVIOUS
      <3>2. PICK x \in Int, y \in Int : x = q * a /\ y = d * a
        OBVIOUS
      <3>3. e * a = x - y
        BY <2>3, <3>1, <3>2
      <3>4. m = x /\ m = y + r
        BY <2>1, <2>2, <3>2
      <3> QED
        BY <2>2, <3>2, <3>3, <3>4
    <2>5. e <= 0
      <3>1. e >= 1 => e * a >= a
        OBVIOUS
      <3> QED
        BY <2>2, <2>3, <2>4, <3>1
    <2>6. e >= 0
      <3>1. e <= -1 => e * a <= -1
        OBVIOUS
      <3> QED
        BY <2>2, <2>3, <2>4, <3>1
    <2>7. e = 0
      BY <2>3, <2>5, <2>6
    <2>8. r = 0
      BY <2>4, <2>7
    <2> QED
      BY <2>1, <2>2, <2>8
  <1> QED
    BY <1>1, <1>2, <1>3, <1>4

\* The section that is found holds the address, by its size in memory or on disk.
LEMMA FoundSection ==
    ASSUME AddrTypes, NEW rva \in Nat, Addr!FindSection(rva) # 0
    PROVE  /\ Addr!FindSection(rva) \in DOMAIN kept
           /\ LET s == kept[Addr!FindSection(rva)]
              IN  Addr!InSection(rva, s, s.vsize) \/ Addr!InSection(rva, s, s.raw)
  <1> DEFINE virtual == {k \in DOMAIN kept : Addr!InSection(rva, kept[k], kept[k].vsize)}
             raw     == {k \in DOMAIN kept : Addr!InSection(rva, kept[k], kept[k].raw)}
  <1>1. virtual \in SUBSET Nat /\ raw \in SUBSET Nat
    BY DEF AddrTypes
  <1>2. ASSUME NEW S \in SUBSET Nat, S # {}
        PROVE  Addr!First(S) \in S
    BY <1>2, LeastNatural DEF Addr!First
  <1>3. \/ virtual # {} /\ Addr!FindSection(rva) = Addr!First(virtual)
        \/ raw # {} /\ Addr!FindSection(rva) = Addr!First(raw)
    BY DEF Addr!FindSection, Addr!First
  <1>4. Addr!FindSection(rva) \in virtual \cup raw
    <2> HIDE DEF virtual, raw
    <2> QED
      BY <1>1, <1>2, <1>3
  <1> QED
    BY <1>4

\* The offset of an address is a number of 32 bits.
LEMMA OffsetType ==
    ASSUME AddrTypes, NEW rva \in Nat
    PROVE  Addr!RvaToOffset(rva) \in 0..(Wrap - 1)
  <1>1. CASE values # <<>> /\ kept # <<>> /\ Addr!FindSection(rva) # 0
    <2>1. PICK k \in DOMAIN kept : k = Addr!FindSection(rva)
      BY <1>1, FoundSection
    <2>2. kept[k] \in SectionNumbers
      BY <2>1, ElementOf, Zenon DEF AddrTypes
    <2>3. kept[k].va \in Nat /\ kept[k].ptr \in Nat
      BY <2>2 DEF SectionNumbers
    <2>4. Addr!RawPointer(kept[k]) \in Nat
      BY <1>1, <2>3, RoundedDown DEF Addr!RawPointer, AddrTypes
    <2>5. PICK x \in Int : x = rva - kept[k].va + Addr!RawPointer(kept[k])
      BY <2>3, <2>4
    <2>6. Addr!RvaToOffset(rva) = x % Wrap
      BY <1>1, <2>1, <2>5 DEF Addr!RvaToOffset
    <2> QED
      BY <2>5, <2>6, WrapAssumption
  <1>2. CASE ~(values # <<>> /\ kept # <<>> /\ Addr!FindSection(rva) # 0)
    BY <1>2, WrapAssumption DEF Addr!RvaToOffset
  <1> QED
    BY <1>1, <1>2

\* The address relative to the image is not negative, if it is one.
LEMMA RvaType ==
    ASSUME AddrTypes, values # <<>>
    PROVE  /\ Addr!Rva \in Int
           /\ item.by # "va" => Addr!Rva = item.address
           /\ item.by = "va" => Addr!Rva = item.address - values[1].base
  BY DEF AddrTypes, Addr!Rva

\* Every call keeps AddrInv.
LEMMA AddrStep ==
    ASSUME AddrInv, Addr!Step
    PROVE  AddrInv'
  <1>1. UNCHANGED <<values, kept, item>> /\ pc = "asked" /\ pc' \in {"done", "failed"}
    BY DEF Addr!Step, Addr!TranslateRva, Addr!TranslateVa, Addr!ReachDirectory
  <1>2. AddrTypes /\ left = 0 /\ cursor = 0
    BY <1>1 DEF AddrInv
  <1>3. AddrTypes'
    BY <1>1, <1>2 DEF AddrTypes
  <1>4. item.address \in Nat
    BY <1>2 DEF AddrTypes
  <1>5. cursor' \in {0, left'}
    BY <1>2 DEF Addr!Step, Addr!TranslateRva, Addr!TranslateVa, Addr!ReachDirectory
  <1>6. left' \in 0..(Wrap - 1)
    <2>1. CASE Addr!TranslateRva
      BY <1>2, <1>4, <2>1, OffsetType DEF Addr!TranslateRva
    <2>2. CASE Addr!TranslateVa
      <3>1. CASE values # <<>> /\ item.address > values[1].base
        <4>1. item.address - values[1].base \in Nat
          BY <1>2, <3>1 DEF AddrTypes
        <4>2. left' = Addr!RvaToOffset(item.address - values[1].base)
          BY <2>2, <3>1 DEF Addr!TranslateVa, Addr!VaToOffset
        <4> QED
          BY <1>2, <4>1, <4>2, OffsetType
      <3>2. CASE ~(values # <<>> /\ item.address > values[1].base)
        BY <2>2, <3>2, WrapAssumption DEF Addr!TranslateVa, Addr!VaToOffset
      <3> QED
        BY <3>1, <3>2
    <2>3. CASE Addr!ReachDirectory
      <3>1. left' = 0 \/ left' = Addr!RvaToOffset(item.address)
        BY <2>3 DEF Addr!ReachDirectory
      <3> QED
        BY <1>2, <1>4, <3>1, OffsetType, WrapAssumption
    <2> QED
      BY <2>1, <2>2, <2>3 DEF Addr!Step
  <1>7. Addr!TypeOK'
    BY <1>1, <1>5, <1>6 DEF Addr!TypeOK
  <1>8. ASSUME values # <<>>, Addr!Rva > 0
        PROVE  left' = Addr!RvaToOffset(Addr!Rva)
    <2>1. CASE Addr!TranslateRva
      BY <1>2, <1>8, <2>1, RvaType DEF Addr!TranslateRva
    <2>2. CASE Addr!TranslateVa
      <3>1. item.by = "va" /\ left' = Addr!VaToOffset(item.address)
        BY <2>2 DEF Addr!TranslateVa
      <3>2. Addr!Rva = item.address - values[1].base
        BY <1>2, <1>8, <3>1, RvaType
      <3>3. item.address > values[1].base
        BY <1>2, <1>4, <1>8, <3>2 DEF AddrTypes
      <3> QED
        BY <1>8, <3>1, <3>2, <3>3 DEF Addr!VaToOffset
    <2>3. CASE Addr!ReachDirectory
      <3>1. Addr!Rva = item.address
        BY <1>2, <1>8, <2>3, RvaType DEF Addr!ReachDirectory
      <3>2. item.address # 0
        BY <1>4, <1>8, <3>1
      <3> QED
        BY <2>3, <3>1, <3>2 DEF Addr!ReachDirectory
    <2> QED
      BY <2>1, <2>2, <2>3 DEF Addr!Step
  <1>9. /\ (Addr!Rva)' = Addr!Rva
        /\ (Addr!RvaToOffset(Addr!Rva))' = Addr!RvaToOffset(Addr!Rva)
    BY <1>1 DEF Addr!Rva, Addr!RvaToOffset, Addr!FindSection, Addr!RawPointer
  <1> QED
    BY <1>1, <1>3, <1>7, <1>8, <1>9 DEF AddrInv

\* The offset follows the sections, in numbers that do not wrap.
LEMMA AddrFollows ==
    ASSUME AddrInv
    PROVE  Addr!OffsetsFollowSections
  <1> SUFFICES ASSUME pc # "asked", values # <<>>, kept # <<>>, Addr!Rva > 0
               PROVE  /\ left # 0 => \E k \in DOMAIN kept :
                             \/ Addr!Covers(kept[k], kept[k].vsize)
                             \/ Addr!Covers(kept[k], kept[k].raw)
                      /\ \A k \in DOMAIN kept :
                             LET s     == kept[k]
                                 start == left - (Addr!Rva - s.va)
                             IN  /\ Addr!Covers(s, s.vsize) /\ Addr!Fits(s)
                                 /\ \A j \in 1..(k - 1) :
                                        ~Addr!Covers(kept[j], kept[j].vsize)
                                 => /\ start \in (s.ptr - values[1].alignment + 1)..s.ptr
                                    /\ start % values[1].alignment = 0
    BY DEF Addr!OffsetsFollowSections
  <1>1. AddrTypes /\ left = Addr!RvaToOffset(Addr!Rva)
    BY DEF AddrInv
  <1>2. PICK rva \in Nat : rva = Addr!Rva /\ rva > 0
    BY <1>1, RvaType
  <1>3. PICK a \in Nat \ {0} : a = values[1].alignment
    BY <1>1 DEF AddrTypes
  <1>4. ASSUME NEW k \in DOMAIN kept
        PROVE  /\ kept[k].va \in 0..(Wrap - 1) /\ kept[k].vsize \in 0..(Wrap - 1)
               /\ kept[k].raw \in 0..(Wrap - 1) /\ kept[k].ptr \in 0..(Wrap - 1)
    <2>1. kept[k] \in SectionNumbers
      BY <1>1, ElementOf, Zenon DEF AddrTypes
    <2> QED
      BY <2>1 DEF SectionNumbers
  <1>5. ASSUME NEW va \in 0..(Wrap - 1), NEW z \in 0..(Wrap - 1), rva < (va + z) % Wrap,
               va <= rva
        PROVE  rva \in va..(va + z - 1)
    <2>1. (va + z) % Wrap <= va + z /\ (va + z) % Wrap \in Nat
      BY WrapAssumption
    <2> QED
      BY <1>5, <2>1, WrapAssumption
  <1>6. ASSUME left # 0
        PROVE  \E k \in DOMAIN kept : \/ Addr!Covers(kept[k], kept[k].vsize)
                                      \/ Addr!Covers(kept[k], kept[k].raw)
    <2>1. Addr!FindSection(rva) # 0
      BY <1>1, <1>2, <1>6 DEF Addr!RvaToOffset
    <2>2. PICK k \in DOMAIN kept : \/ Addr!InSection(rva, kept[k], kept[k].vsize)
                                   \/ Addr!InSection(rva, kept[k], kept[k].raw)
      BY <1>1, <2>1, FoundSection
    <2> QED
      BY <1>2, <1>4, <1>5, <2>2 DEF Addr!InSection, Addr!Covers
  <1>7. ASSUME NEW k \in DOMAIN kept,
               Addr!Covers(kept[k], kept[k].vsize), Addr!Fits(kept[k]),
               \A j \in 1..(k - 1) : ~Addr!Covers(kept[j], kept[j].vsize)
        PROVE  LET start == left - (Addr!Rva - kept[k].va)
               IN  /\ start \in (kept[k].ptr - a + 1)..kept[k].ptr
                   /\ start % a = 0
    <2>1. PICK va \in 0..(Wrap - 1), z \in 0..(Wrap - 1), p \in 0..(Wrap - 1) :
             va = kept[k].va /\ z = kept[k].vsize /\ p = kept[k].ptr
      BY <1>4
    <2>2. rva \in va..(va + z - 1) /\ va + z < Wrap /\ p + z < Wrap
      BY <1>2, <1>7, <2>1 DEF Addr!Covers, Addr!Fits
    <2>3. Addr!InSection(rva, kept[k], kept[k].vsize)
      <3>1. PICK e \in 0..(Wrap - 1) : e = va + z
        BY <2>2, WrapAssumption
      <3>2. e % Wrap = e /\ va <= rva /\ rva < e
        BY <2>2, <3>1, NoWrap
      <3> QED
        BY <2>1, <3>1, <3>2 DEF Addr!InSection
    <2>4. ASSUME NEW j \in 1..(k - 1)
          PROVE  ~Addr!InSection(rva, kept[j], kept[j].vsize)
      <3>1. j \in DOMAIN kept
        BY <1>1 DEF AddrTypes
      <3>2. ~Addr!Covers(kept[j], kept[j].vsize)
        BY <1>7
      <3> QED
        BY <1>2, <1>4, <1>5, <3>1, <3>2 DEF Addr!InSection, Addr!Covers
    <2>5. Addr!FindSection(rva) = k
      <3> DEFINE virtual == {i \in DOMAIN kept : Addr!InSection(rva, kept[i], kept[i].vsize)}
      <3>1. k \in virtual /\ virtual \subseteq Nat
        BY <1>1, <2>3 DEF AddrTypes
      <3>2. \A i \in virtual : k <= i
        BY <1>1, <2>4, <3>1 DEF AddrTypes
      <3>3. Addr!FindSection(rva) = Addr!First(virtual)
        BY <3>1 DEF Addr!FindSection
      <3> HIDE DEF virtual
      <3>4. Addr!First(virtual) = k
        BY <3>1, <3>2 DEF Addr!First
      <3> QED
        BY <3>3, <3>4
    <2>6. PICK r \in Nat : /\ r = Addr!RawPointer(kept[k])
                           /\ r <= p /\ p - a + 1 <= r /\ r % a = 0
      <3>1. Addr!RawPointer(kept[k]) = (p \div a) * a
        BY <1>3, <2>1 DEF Addr!RawPointer
      <3>2. p \in Nat
        OBVIOUS
      <3> QED
        BY <3>1, <3>2, RoundedDown
    <2>7. left = (rva - va + r) % Wrap
      <3>1. k # 0
        BY <1>1 DEF AddrTypes
      <3> QED
        BY <1>1, <1>2, <2>1, <2>5, <2>6, <3>1 DEF Addr!RvaToOffset
    <2>8. rva - va + r \in 0..(Wrap - 1)
      BY <2>2, <2>6, WrapAssumption
    <2>9. left = rva - va + r
      BY <2>7, <2>8, NoWrap
    <2>10. left - (rva - va) = r
      BY <2>6, <2>9
    <2> QED
      BY <1>2, <2>1, <2>6, <2>10
  <1> QED
    BY <1>3, <1>6, <1>7

\* AddrInv is about nothing but the variables of these functions.
LEMMA AddrUntouched ==
    ASSUME AddrInv, UNCHANGED vars
    PROVE  AddrInv'
  <1>1. UNCHANGED <<pc, cursor, values, kept, item, left>>
    BY DEF vars, tableVars, richVars
  <1> QED
    BY <1>1 DEF AddrInv, AddrTypes, Addr!TypeOK, Addr!Rva, Addr!RvaToOffset,
        Addr!FindSection, Addr!RawPointer

\* AddrInv holds before and after every call.
LEMMA AddrAlways == Spec => []AddrOK
  <1>1. Init => AddrOK
    BY AddrInit DEF Init, AddrOK
  <1>2. AddrOK /\ [Next]_vars => AddrOK'
    <2> SUFFICES ASSUME AddrOK, [Next]_vars, directory' = "addresses"
                 PROVE  AddrInv'
      BY DEF AddrOK
    <2>1. AddrInv /\ (Addr!Step \/ UNCHANGED vars)
      BY OneParser DEF AddrOK
    <2> QED
      BY <2>1, AddrStep, AddrUntouched
  <1> QED
    BY <1>1, <1>2, PTL DEF Spec

\* For all sections, whatever their numbers, and every alignment, an offset is given
\* only for an address that a section covers, and it is as far from the start of the
\* first such section as the address (rva_to_offset, pe.cpp:506-562).
THEOREM OffsetsAreRight == Spec => []OffsetsFollowSections
  <1>1. AddrOK => OffsetsFollowSections
    BY AddrFollows DEF AddrOK, OffsetsFollowSections
  <1> QED
    BY <1>1, AddrAlways, PTL
-------------------------------------------------------------------------------
(* The rich header.                                                        *)

\* There is no "Rich" in the first n words.
NoRichIn(n) == \A v \in 1..n : file[v] # "Rich"

\* The walk from the "Rich" at w: the pairs between the cursor and w are collected,
\* and no start marker is among them.
WalkFrom(w) ==
    /\ w \in DOMAIN file /\ Rich!RichAt(w)
    /\ cursor = w + 1 - 2 * Len(values) /\ cursor >= 1
    /\ \A k \in DOMAIN values :
           values[k] = <<file[cursor + 2 * k - 3], file[cursor + 2 * k - 2]>>
    /\ \A v \in Rich!StartsOf(w) : v < cursor - 1

\* The pair before the cursor starts with the marker.
AtMarker == cursor >= 4 /\ file[cursor - 3] = "DanS"

RichTypes ==
    /\ file \in Seq(Word) /\ lfanew \in Int
    /\ Rich!TypeOK

\* What each part of the function knows.
RichParts ==
    /\ pc # "done" => header = <<>>
    /\ pc \in {"search", "key"} => values = <<>>
    /\ pc = "search" =>
           /\ NoRichIn(cursor)
           /\ bytes_left = lfanew - 4 * cursor
           /\ cursor > 0 => bytes_left > 0
    /\ pc = "key" =>
           /\ cursor >= 1 /\ file[cursor] = "Rich" /\ NoRichIn(cursor - 1)
           /\ cursor = 1 \/ 4 * (cursor - 1) < lfanew
    /\ pc = "back" => \E w \in Nat : WalkFrom(w)
    /\ pc = "done" => header = Rich!Expected

\* The inductive invariant.
RichInv == RichTypes /\ RichParts

RichOK == directory = "rich" => RichInv

\* RichInv is true when _parse_rich_header is called.
LEMMA RichInit ==
    ASSUME Rich!Init
    PROVE  RichInv
  <1>1. /\ pc = "search" /\ cursor = 0 /\ bytes_left = lfanew /\ read = "none"
        /\ values = <<>> /\ header = <<>> /\ lfanew \in Int
    BY RichAssumption DEF Rich!Init
  <1>2. PICK n \in 1..MaxWords : file \in [1..n -> Word]
    BY DEF Rich!Init
  <1>3. file \in Seq(Word)
    BY <1>2, RichAssumption
  <1>4. RichTypes
    BY <1>1, <1>3 DEF RichTypes, Rich!TypeOK
  <1>5. RichParts
    BY <1>1 DEF RichParts, NoRichIn
  <1> QED
    BY <1>4, <1>5 DEF RichInv

\* There is one place at most where a rich header can end.
LEMMA OneRich ==
    ASSUME file \in Seq(Word), NEW u \in DOMAIN file, NEW w \in DOMAIN file,
           Rich!RichAt(u), Rich!RichAt(w)
    PROVE  u = w
  <1>1. u \in Nat /\ w \in Nat /\ u >= 1 /\ w >= 1
    OBVIOUS
  <1>2. ~(u < w) /\ ~(w < u)
    BY <1>1 DEF Rich!RichAt
  <1> QED
    BY <1>1, <1>2

\* Without one, or without a start marker, there is no rich header.
LEMMA NoneExpected ==
    ASSUME ~\E w \in DOMAIN file : Rich!RichAt(w) /\ Rich!StartsOf(w) # {}
    PROVE  Rich!Expected = <<>>
  BY DEF Rich!Expected

\* Places of a walk that has collected n pairs before the "Rich" at w.
LEMMA WalkPlaces ==
    ASSUME NEW w \in Nat, NEW n \in Nat, NEW c \in Nat, c = w + 1 - 2 * n
    PROVE  /\ c >= 4 => c - 3 \in 1..(w - 2)
           /\ (w - (c - 3)) % 2 = 0 /\ (w - (c - 3)) \div 2 - 1 = n
           /\ \A u \in Nat : (w - u) % 2 = 0 /\ u < c - 1 => u <= c - 3
           /\ 4 * ((c - 3) - 1) = 4 * (c - 2) - 8
           /\ \A k \in Nat : c - 3 + 2 * k = c + 2 * k - 3 /\ c - 3 + 2 * k + 1 = c + 2 * k - 2
  <1>1. w - (c - 3) = 2 * n + 2
    OBVIOUS
  <1>2. (2 * n + 2) % 2 = 0 /\ (2 * n + 2) \div 2 - 1 = n
    OBVIOUS
  <1>3. ASSUME NEW u \in Nat, (w - u) % 2 = 0, u < c - 1
        PROVE  u <= c - 3
    <2>1. u # c - 2
      <3>1. (2 * n + 1) % 2 = 1
        OBVIOUS
      <3>2. u = c - 2 => w - u = 2 * n + 1
        OBVIOUS
      <3> QED
        BY <1>3, <3>1, <3>2
    <2> QED
      BY <1>3, <2>1
  <1> QED
    BY <1>1, <1>2, <1>3

\* The largest of some numbers is the one that is chosen.
LEMMA Greatest ==
    ASSUME NEW S \in SUBSET Nat, NEW v \in S, \A u \in S : u <= v
    PROVE  (CHOOSE x \in S : \A u \in S : u <= x) = v
  <1> DEFINE y == CHOOSE x \in S : \A u \in S : u <= x
  <1>1. y \in S /\ \A u \in S : u <= y
    OBVIOUS
  <1> HIDE DEF y
  <1>2. y \in Nat /\ v \in Nat /\ y <= v /\ v <= y
    BY <1>1
  <1>3. y = v
    BY <1>2
  <1> QED
    BY <1>3 DEF y

\* With both, it is the one that the walk has collected.
LEMMA WalkIsExpected ==
    ASSUME RichTypes, NEW w \in Nat, WalkFrom(w), AtMarker
    PROVE  Rich!Expected = <<[offset |-> 4 * (cursor - 2) - 8, values |-> values]>>
  <1>1. /\ file \in Seq(Word) /\ w \in DOMAIN file /\ Rich!RichAt(w)
        /\ values \in Seq(Word \X Word) /\ Len(values) \in Nat
    BY DEF RichTypes, Rich!TypeOK, WalkFrom
  <1>2. PICK n \in Nat, c \in Nat : n = Len(values) /\ c = cursor
    BY <1>1 DEF RichTypes, Rich!TypeOK
  <1>3. c = w + 1 - 2 * n /\ c >= 4 /\ file[c - 3] = "DanS"
    BY <1>2 DEF WalkFrom, AtMarker
  <1>p. PICK v \in Nat : v = c - 3
    BY <1>3
  <1>a. /\ v \in 1..(w - 2) /\ (w - v) % 2 = 0 /\ (w - v) \div 2 - 1 = n
        /\ \A u \in Nat : (w - u) % 2 = 0 /\ u < c - 1 => u <= v
        /\ 4 * (v - 1) = 4 * (c - 2) - 8
        /\ \A k \in Nat : v + 2 * k = c + 2 * k - 3 /\ v + 2 * k + 1 = c + 2 * k - 2
    <2>1. c = w + 1 - 2 * n /\ c >= 4
      BY <1>3
    <2> QED
      BY <1>p, <2>1, WalkPlaces
  <1>4. Rich!StartsOf(w) \in SUBSET Nat
    BY DEF Rich!StartsOf
  <1>5. v \in Rich!StartsOf(w)
    BY <1>3, <1>p, <1>a DEF Rich!StartsOf
  <1>6. \A u \in Rich!StartsOf(w) : u <= v
    <2> TAKE u \in Rich!StartsOf(w)
    <2>1. u \in Nat /\ (w - u) % 2 = 0 /\ u < c - 1
      BY <1>2, <1>4 DEF Rich!StartsOf, WalkFrom
    <2> QED
      BY <1>a, <2>1
  <1>7. Rich!LastStartOf(w) = v
    BY <1>4, <1>5, <1>6, Greatest DEF Rich!LastStartOf
  <1>8. (CHOOSE x \in DOMAIN file : Rich!RichAt(x)) = w
    BY <1>1, OneRich
  <1>9. Rich!Expected = <<Rich!HeaderBetween(v, w)>>
    <2>1. \E x \in DOMAIN file : Rich!RichAt(x) /\ Rich!StartsOf(x) # {}
      BY <1>1, <1>5
    <2> QED
      BY <1>7, <1>8, <2>1 DEF Rich!Expected
  <1>10. Rich!HeaderBetween(v, w).values = values
    <2>1. (w - v) \div 2 - 1 = n
      BY <1>a
    <2>2. DOMAIN values = 1..n
      BY <1>1, <1>2
    <2>3. \A k \in 1..n : values[k] = <<file[v + 2 * k], file[v + 2 * k + 1]>>
      <3> TAKE k \in 1..n
      <3>1. c + 2 * k - 3 = v + 2 * k /\ c + 2 * k - 2 = v + 2 * k + 1
        BY <1>a
      <3>2. values[k] = <<file[c + 2 * k - 3], file[c + 2 * k - 2]>>
        BY <1>2, <2>2 DEF WalkFrom
      <3> QED
        BY <3>1, <3>2
    <2>4. values = [k \in 1..n |-> values[k]]
      BY <1>1, <2>2
    <2>5. [k \in 1..n |-> values[k]] = [k \in 1..n |-> <<file[v + 2 * k], file[v + 2 * k + 1]>>]
      BY <2>3
    <2> QED
      BY <2>1, <2>4, <2>5 DEF Rich!HeaderBetween
  <1>11. 4 * (v - 1) = 4 * (cursor - 2) - 8
    BY <1>2, <1>a
  <1> QED
    BY <1>9, <1>10, <1>11 DEF Rich!HeaderBetween

\* What is expected depends on the file alone.
LEMMA ExpectedIsFixed ==
    ASSUME UNCHANGED <<file, lfanew>>
    PROVE  (Rich!Expected)' = Rich!Expected
  BY DEF Rich!Expected, Rich!RichAt, Rich!StartsOf, Rich!HeaderBetween, Rich!LastStartOf

\* Reading a word of the search keeps RichInv.
LEMMA RichSearch ==
    ASSUME RichInv, Rich!Search
    PROVE  RichInv'
  <1>1. /\ UNCHANGED <<file, lfanew, values, header>> /\ pc = "search"
        /\ read' = file[cursor + 1] /\ cursor' = cursor + 1
        /\ bytes_left' = bytes_left - 4 /\ cursor < Len(file)
        /\ pc' = IF read' = "Rich" THEN "key" ELSE IF bytes_left' > 0 THEN "search" ELSE "done"
    BY DEF Rich!Search
  <1>2. /\ file \in Seq(Word) /\ Len(file) \in Nat /\ header = <<>> /\ values = <<>>
        /\ NoRichIn(cursor)
    BY <1>1 DEF RichInv, RichTypes, RichParts
  <1>3. PICK c \in Nat, l \in Int, b \in Int :
           c = cursor /\ l = lfanew /\ b = bytes_left /\ b = l - 4 * c /\ (c > 0 => b > 0)
    BY <1>1 DEF RichInv, RichTypes, RichParts, Rich!TypeOK
  <1>4. c < Len(file) /\ c + 1 \in DOMAIN file /\ c + 1 \in 0..Len(file)
    BY <1>1, <1>2, <1>3
  <1>5. cursor' = c + 1 /\ bytes_left' = b - 4 /\ b - 4 = l - 4 * (c + 1)
    BY <1>1, <1>3
  <1>6. read' = file[c + 1] /\ read' \in Word
    BY <1>1, <1>2, <1>3, <1>4
  <1>7. RichTypes'
    <2>1. cursor' \in 0..Len(file) /\ bytes_left' \in Int
      BY <1>4, <1>5
    <2>2. pc' \in {"search", "key", "back", "done"}
      BY <1>1
    <2>3. values' \in Seq(Word \X Word) /\ Len(header') <= 1 /\ lfanew' \in Int
      BY <1>1 DEF RichInv, RichTypes, Rich!TypeOK
    <2> QED
      BY <1>1, <1>2, <1>6, <2>1, <2>2, <2>3 DEF RichTypes, Rich!TypeOK
  <1>8. read' # "Rich" => NoRichIn(c + 1)
    BY <1>2, <1>3, <1>6 DEF NoRichIn
  <1>9. CASE read' = "Rich"
    <2>1. pc' = "key" /\ file[c + 1] = "Rich" /\ NoRichIn(c)
      BY <1>1, <1>2, <1>3, <1>6, <1>9
    <2>2. c + 1 >= 1 /\ c + 1 - 1 = c /\ (c + 1 = 1 \/ 4 * c < l)
      BY <1>3
    <2>3. (NoRichIn(cursor - 1))'
      BY <1>1, <1>5, <2>1, <2>2 DEF NoRichIn
    <2> QED
      BY <1>1, <1>2, <1>3, <1>5, <1>7, <2>1, <2>2, <2>3 DEF RichInv, RichParts
  <1>10. CASE read' # "Rich" /\ bytes_left' > 0
    <2>1. pc' = "search" /\ (NoRichIn(cursor))'
      BY <1>1, <1>5, <1>8, <1>10 DEF NoRichIn
    <2> QED
      BY <1>1, <1>2, <1>3, <1>5, <1>7, <1>10, <2>1 DEF RichInv, RichParts
  <1>11. CASE read' # "Rich" /\ ~(bytes_left' > 0)
    <2>1. pc' = "done" /\ NoRichIn(c + 1) /\ l - 4 * (c + 1) <= 0
      BY <1>1, <1>3, <1>5, <1>8, <1>11
    <2>2. ASSUME NEW w \in DOMAIN file, Rich!RichAt(w)
          PROVE  FALSE
      <3>1. w \in Nat /\ w >= 1 /\ (w = 1 \/ 4 * (w - 1) < l)
        BY <1>2, <1>3, <2>2 DEF Rich!RichAt
      <3>2. w > c + 1
        BY <2>1, <2>2, <3>1 DEF NoRichIn, Rich!RichAt
      <3> QED
        BY <2>1, <3>1, <3>2
    <2>3. Rich!Expected = <<>>
      BY <2>2, NoneExpected
    <2>4. (Rich!Expected)' = Rich!Expected
      BY <1>1, ExpectedIsFixed
    <2> QED
      BY <1>1, <1>2, <1>7, <2>1, <2>3, <2>4 DEF RichInv, RichParts
  <1> QED
    BY <1>9, <1>10, <1>11

\* Where the function gives up there is no rich header, and RichInv is kept.
LEMMA RichGivesUp ==
    ASSUME RichInv, pc' = "done", pc # "done", Rich!Expected = <<>>,
           UNCHANGED <<file, lfanew, cursor, bytes_left, read, values, header>>
    PROVE  RichInv'
  <1>1. header = <<>> /\ (Rich!Expected)' = <<>>
    BY ExpectedIsFixed DEF RichInv, RichParts
  <1>2. RichTypes'
    BY DEF RichInv, RichTypes, Rich!TypeOK
  <1> QED
    BY <1>1, <1>2 DEF RichInv, RichParts

\* There is no word left, and no "Rich" was found.
LEMMA RichSearchFails ==
    ASSUME RichInv, Rich!SearchFails
    PROVE  RichInv'
  <1>1. /\ UNCHANGED <<file, lfanew, cursor, bytes_left, read, values, header>>
        /\ pc = "search" /\ pc' = "done" /\ cursor = Len(file)
    BY DEF Rich!SearchFails
  <1>2. NoRichIn(Len(file)) /\ file \in Seq(Word)
    BY <1>1 DEF RichInv, RichTypes, RichParts
  <1>3. \A w \in DOMAIN file : ~Rich!RichAt(w)
    BY <1>2 DEF NoRichIn, Rich!RichAt
  <1> QED
    BY <1>1, <1>3, NoneExpected, RichGivesUp

\* The key behind "Rich", which may not be there.
LEMMA RichReadKey ==
    ASSUME RichInv, Rich!ReadKey
    PROVE  RichInv'
  <1>1. UNCHANGED <<file, lfanew, bytes_left, read, values, header>> /\ pc = "key"
    BY DEF Rich!ReadKey
  <1>2. /\ file \in Seq(Word) /\ Len(file) \in Nat /\ header = <<>> /\ values = <<>>
        /\ file[cursor] = "Rich" /\ NoRichIn(cursor - 1)
        /\ cursor = 1 \/ 4 * (cursor - 1) < lfanew
    BY <1>1 DEF RichInv, RichTypes, RichParts
  <1>3. PICK c \in Nat : c = cursor /\ c >= 1 /\ c <= Len(file)
    BY <1>1, <1>2 DEF RichInv, RichTypes, RichParts, Rich!TypeOK
  <1>4. c \in DOMAIN file
    BY <1>2, <1>3
  <1>5. CASE cursor < Len(file)
    <2>1. cursor' = c + 1 /\ pc' = "back"
      BY <1>3, <1>5 DEF Rich!ReadKey
    <2>2. Rich!RichAt(c)
      BY <1>2, <1>3, <1>5 DEF Rich!RichAt, NoRichIn
    <2>3. (Rich!RichAt(c))' /\ (Rich!StartsOf(c))' = Rich!StartsOf(c)
      BY <1>1, <2>2 DEF Rich!RichAt, Rich!StartsOf
    <2>4. \A v \in Rich!StartsOf(c) : v < c + 1 - 1
      BY <1>3 DEF Rich!StartsOf
    <2>5. Len(values') = 0 /\ DOMAIN values' = {}
      BY <1>1, <1>2
    <2>6. WalkFrom(c)'
      <3>1. c + 1 = c + 1 - 2 * 0 /\ c + 1 >= 1
        BY <1>3
      <3>2. c \in DOMAIN file'
        BY <1>1, <1>4
      <3> QED
        BY <2>1, <2>3, <2>4, <2>5, <3>1, <3>2 DEF WalkFrom
    <2>7. RichTypes'
      <3>1. cursor' \in 0..Len(file)
        BY <1>2, <1>3, <1>5, <2>1
      <3> QED
        BY <1>1, <2>1, <3>1 DEF RichInv, RichTypes, Rich!TypeOK
    <2> QED
      BY <1>1, <1>2, <1>3, <2>1, <2>6, <2>7 DEF RichInv, RichParts
  <1>6. CASE ~(cursor < Len(file))
    <2>1. cursor' = cursor /\ pc' = "done"
      BY <1>6 DEF Rich!ReadKey
    <2>2. c = Len(file)
      BY <1>2, <1>3, <1>6
    <2>3. ASSUME NEW w \in DOMAIN file, Rich!RichAt(w)
          PROVE  FALSE
      <3>1. w \in Nat /\ w >= 1 /\ w < c
        BY <1>2, <2>2, <2>3 DEF Rich!RichAt
      <3>2. file[w] # "Rich"
        BY <1>2, <1>3, <3>1 DEF NoRichIn
      <3> QED
        BY <2>3, <3>2 DEF Rich!RichAt
    <2> QED
      BY <1>1, <2>1, <2>3, NoneExpected, RichGivesUp
  <1> QED
    BY <1>5, <1>6

\* The walk has reached the start of the file.
LEMMA RichSeekFails ==
    ASSUME RichInv, Rich!SeekFails
    PROVE  RichInv'
  <1>1. /\ UNCHANGED <<file, lfanew, cursor, bytes_left, read, values, header>>
        /\ pc = "back" /\ pc' = "done" /\ cursor < 4
    BY DEF Rich!SeekFails
  <1>2. PICK w \in Nat : WalkFrom(w)
    BY <1>1 DEF RichInv, RichParts
  <1>3. file \in Seq(Word) /\ w \in DOMAIN file /\ Rich!RichAt(w)
    BY <1>2 DEF RichInv, RichTypes, WalkFrom
  <1>4. PICK n \in Nat, c \in Nat : n = Len(values) /\ c = cursor
    BY DEF RichInv, RichTypes, Rich!TypeOK
  <1>5. c = w + 1 - 2 * n /\ c < 4
    BY <1>1, <1>2, <1>4 DEF WalkFrom
  <1>6. \A u \in Nat : (w - u) % 2 = 0 /\ u < c - 1 => u <= c - 3
    BY <1>5, WalkPlaces
  <1>7. Rich!StartsOf(w) = {}
    <2> SUFFICES ASSUME NEW v \in Rich!StartsOf(w) PROVE FALSE
      OBVIOUS
    <2>1. v \in Nat /\ v >= 1 /\ (w - v) % 2 = 0
      BY DEF Rich!StartsOf
    <2>2. v < c - 1
      BY <1>2, <1>4 DEF WalkFrom
    <2> QED
      BY <1>5, <1>6, <2>1, <2>2
  <1>8. ASSUME NEW x \in DOMAIN file, Rich!RichAt(x) PROVE Rich!StartsOf(x) = {}
    <2>1. x = w
      BY <1>3, <1>8, OneRich
    <2> QED
      BY <1>7, <2>1
  <1> QED
    BY <1>1, <1>8, NoneExpected, RichGivesUp

\* A pair more is collected.
LEMMA RichCollect ==
    ASSUME RichInv, Rich!Collect
    PROVE  RichInv'
  <1>1. /\ UNCHANGED <<file, lfanew, pc, bytes_left, read, header>> /\ pc = "back"
        /\ cursor >= 4 /\ cursor' = cursor - 2
    BY DEF Rich!Collect, Rich!Back
  <1>2. PICK w \in Nat : WalkFrom(w)
    BY <1>1 DEF RichInv, RichParts
  <1>3. /\ file \in Seq(Word) /\ w \in DOMAIN file /\ Rich!RichAt(w) /\ Len(file) \in Nat
        /\ values \in Seq(Word \X Word) /\ header = <<>>
    BY <1>1, <1>2 DEF RichInv, RichTypes, RichParts, Rich!TypeOK, WalkFrom
  <1>4. PICK n \in Nat, c \in Nat : n = Len(values) /\ c = cursor
    BY DEF RichInv, RichTypes, Rich!TypeOK
  <1>5. c = w + 1 - 2 * n /\ c >= 4
    BY <1>1, <1>2, <1>4 DEF WalkFrom
  <1>6. c <= Len(file)
    BY <1>4 DEF RichInv, RichTypes, Rich!TypeOK
  <1>7. cursor' = c - 2 /\ c - 2 = w + 1 - 2 * (n + 1) /\ c - 2 >= 1 /\ c - 2 \in 0..Len(file)
    BY <1>1, <1>3, <1>4, <1>5, <1>6
  <1>8. c - 3 \in DOMAIN file /\ c - 2 \in DOMAIN file
    BY <1>3, <1>5, <1>6
  <1>9. PICK a \in Word, b \in Word : a = file[c - 3] /\ b = file[c - 2]
    BY <1>3, <1>8
  <1>10. values' = <<<<a, b>>>> \o values /\ a # "DanS"
    <2>1. (c - 2) - 1 = c - 3
      OBVIOUS
    <2> QED
      BY <1>4, <1>9, <2>1 DEF Rich!Collect, Rich!Back
  <1>11. /\ values' \in Seq(Word \X Word) /\ Len(values') = n + 1
         /\ DOMAIN values' = 1..(n + 1) /\ values'[1] = <<a, b>>
         /\ \A k \in 2..(n + 1) : values'[k] = values[k - 1]
    <2>1. <<a, b>> \in Word \X Word
      OBVIOUS
    <2> QED
      BY <1>3, <1>4, <1>10, <2>1
  <1>12. \A k \in 1..(n + 1) :
            values'[k] = <<file[(c - 2) + 2 * k - 3], file[(c - 2) + 2 * k - 2]>>
    <2> TAKE k \in 1..(n + 1)
    <2>1. CASE k = 1
      <3>1. (c - 2) + 2 * k - 3 = c - 3 /\ (c - 2) + 2 * k - 2 = c - 2
        BY <2>1
      <3> QED
        BY <1>9, <1>11, <2>1, <3>1
    <2>2. CASE k # 1
      <3>1. k - 1 \in 1..n /\ k \in 2..(n + 1)
        BY <2>2
      <3>2. /\ (c - 2) + 2 * k - 3 = c + 2 * (k - 1) - 3
            /\ (c - 2) + 2 * k - 2 = c + 2 * (k - 1) - 2
        OBVIOUS
      <3>3. k - 1 \in DOMAIN values
        BY <1>3, <1>4, <3>1
      <3>4. values[k - 1] = <<file[c + 2 * (k - 1) - 3], file[c + 2 * (k - 1) - 2]>>
        BY <1>2, <1>4, <3>3 DEF WalkFrom
      <3> QED
        BY <1>11, <3>1, <3>2, <3>4
    <2> QED
      BY <2>1, <2>2
  <1>13. \A v \in Rich!StartsOf(w) : v < (c - 2) - 1
    <2> TAKE v \in Rich!StartsOf(w)
    <2>1. v \in Nat /\ (w - v) % 2 = 0 /\ file[v] = "DanS"
      BY DEF Rich!StartsOf
    <2>2. v < c - 1
      BY <1>2, <1>4 DEF WalkFrom
    <2>3. v <= c - 3
      BY <1>5, <2>1, <2>2, WalkPlaces
    <2>4. v # c - 3
      BY <1>9, <1>10, <2>1
    <2> QED
      BY <2>1, <2>3, <2>4
  <1>14. (Rich!RichAt(w))' /\ (Rich!StartsOf(w))' = Rich!StartsOf(w)
    BY <1>1, <1>3 DEF Rich!RichAt, Rich!StartsOf
  <1>15. WalkFrom(w)'
    BY <1>1, <1>3, <1>7, <1>11, <1>12, <1>13, <1>14 DEF WalkFrom
  <1>16. RichTypes'
    BY <1>1, <1>3, <1>7, <1>11 DEF RichInv, RichTypes, Rich!TypeOK
  <1> QED
    BY <1>1, <1>3, <1>15, <1>16 DEF RichInv, RichParts

\* The marker is found.
LEMMA RichStartMarker ==
    ASSUME RichInv, Rich!StartMarker
    PROVE  RichInv'
  <1>1. /\ UNCHANGED <<file, lfanew, bytes_left, read, values>>
        /\ pc = "back" /\ pc' = "done" /\ cursor >= 4 /\ cursor' = cursor - 2
        /\ header' = <<[offset |-> 4 * (cursor - 2) - 8, values |-> values]>>
    BY DEF Rich!StartMarker, Rich!Back
  <1>2. PICK w \in Nat : WalkFrom(w)
    BY <1>1 DEF RichInv, RichParts
  <1>3. PICK c \in Nat : c = cursor /\ c >= 4 /\ c <= Len(file)
    BY <1>1 DEF RichInv, RichTypes, Rich!TypeOK
  <1>4. AtMarker
    <2>1. file[(c - 2) - 1] = "DanS" /\ (c - 2) - 1 = c - 3
      BY <1>3 DEF Rich!StartMarker, Rich!Back
    <2> QED
      BY <1>3, <2>1 DEF AtMarker
  <1>5. Rich!Expected = header'
    BY <1>1, <1>2, <1>4, WalkIsExpected DEF RichInv
  <1>6. RichTypes'
    <2>1. cursor' \in 0..Len(file)
      BY <1>1, <1>3
    <2>2. Len(header') <= 1
      BY <1>1
    <2> QED
      BY <1>1, <2>1, <2>2 DEF RichInv, RichTypes, Rich!TypeOK
  <1> QED
    BY <1>1, <1>5, <1>6, ExpectedIsFixed DEF RichInv, RichParts

\* RichInv is about nothing but the variables of the function.
LEMMA RichUntouched ==
    ASSUME RichInv, UNCHANGED vars
    PROVE  RichInv'
  <1>1. UNCHANGED <<pc, cursor, file, lfanew, bytes_left, read, values, header>>
    BY DEF vars, richVars
  <1>2. RichTypes'
    BY <1>1 DEF RichInv, RichTypes, Rich!TypeOK
  <1>3. \A w \in Nat : WalkFrom(w) => WalkFrom(w)'
    BY <1>1 DEF WalkFrom, Rich!RichAt, Rich!StartsOf
  <1>4. pc = "back" => \E w \in Nat : WalkFrom(w)'
    BY <1>3 DEF RichInv, RichParts
  <1>5. (Rich!Expected)' = Rich!Expected
    BY <1>1, ExpectedIsFixed
  <1> QED
    BY <1>1, <1>2, <1>4, <1>5 DEF RichInv, RichParts, NoRichIn

\* RichInv holds throughout the function.
LEMMA RichAlways == Spec => []RichOK
  <1>1. Init => RichOK
    BY RichInit DEF Init, RichOK
  <1>2. RichOK /\ [Next]_vars => RichOK'
    <2> SUFFICES ASSUME RichOK, [Next]_vars, directory' = "rich"
                 PROVE  RichInv'
      BY DEF RichOK
    <2>1. RichInv /\ (Rich!Step \/ UNCHANGED vars)
      BY OneParser DEF RichOK
    <2> QED
      BY <2>1, RichSearch, RichSearchFails, RichReadKey, RichSeekFails, RichCollect,
         RichStartMarker, RichUntouched DEF Rich!Step
  <1> QED
    BY <1>1, <1>2, PTL DEF Spec

\* For every file of words and every e_lfanew, also a negative one, the search forwards
\* and the walk backwards find the rich header that the layout of the file defines
\* (_parse_rich_header, pe.cpp:1081-1142).
THEOREM RichHeaderAlwaysRight == Spec => []RichHeaderIsRight
  <1>1. RichOK => RichHeaderIsRight
    BY DEF RichOK, RichInv, RichParts, RichHeaderIsRight, Rich!RichHeaderIsRight
  <1> QED
    BY <1>1, RichAlways, PTL
===============================================================================
